SPECIFICATION LiveSpec
CONSTANTS
    e1 = e1
    e2 = e2
    c1 = c1
    c2 = c2
    NoEngine = NoEngine
    NoCmd = NoCmd
    Engines <- OneEngine
    Cmds <- TwoCmds
    QueueCap = 1
    MaxStarts = 1
    MaxDeliver = 1
    MaxEnds = 1
    MaxCrashes = 1
    h1 = h1
    h2 = h2
    u1 = u1
    u2 = u2
    Handlers <- OneHandler
    Humans <- TwoHumans
    Creator = u1
    BotCount = 0
    OffMap = {}
    Slots <- TwoSlots
    NoSlot = NoSlot
    NoUser = NoUser
INVARIANT
    TakenOverWasRelinquished
PROPERTIES
    TornDown
    CommandSettles
    GoneIsTakenOver
    SilentIsAbandoned
\* Deliveries, crashes and end requests are bounded, and a match may end with no
\* request under way.
CHECK_DEADLOCK FALSE
