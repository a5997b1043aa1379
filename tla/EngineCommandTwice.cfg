SPECIFICATION RSpec
CONSTANTS
    e1 = e1
    e2 = e2
    c1 = c1
    c2 = c2
    NoEngine = NoEngine
    NoCmd = NoCmd
    Engines <- OneEngine
    Cmds <- OneCmd
    QueueCap = 1
    MaxStarts = 1
    MaxDeliver = 2
    MaxEnds = 0
    MaxCrashes = 0
INVARIANTS
    CommandAppliedOnce
\* Deliveries, crashes and end requests are bounded.
CHECK_DEADLOCK FALSE
