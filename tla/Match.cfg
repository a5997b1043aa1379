SPECIFICATION MatchSpec
CONSTANTS
    e1 = e1
    e2 = e2
    c1 = c1
    c2 = c2
    NoEngine = NoEngine
    NoCmd = NoCmd
    Engines <- OneEngine
    Cmds <- TwoCmds
    QueueCap = 1
    MaxStarts = 2
    MaxDeliver = 1
    MaxEnds = 1
    MaxCrashes = 1
    a1 = a1
    a2 = a2
    a3 = a3
    NoSlot = 0
    Slots <- TwoSlots
    Units <- TwoUnits
    Post <- RoadPosts
    Provinces <- WestEast
    Place <- RoadPlaces
    Roads <- OneRoad
    Home <- HomeOwners
    Capitals <- WestEast
    Targets <- RoadTargets
    StartHP = 1
    Hits <- OneHit
    CollisionRadius = 0
    CleanupDelay = 2
    Agreements <- AllStances
    MaxWaypoints = 1
    MaxLag = 1
    MaxEvents = 2
    Grants <- EastGrants
    h1 = h1
    h2 = h2
    u1 = u1
    Handlers <- TwoHandlers
    Humans <- OneHuman
    Creator = u1
    BotCount = 1
    OffMap <- OffTheMap
    NoUser = NoUser
INVARIANTS
    RTypeOK
    HostedIsAlive
    NoOrphanLoop
    GoneOnlyAfterFinal
    AckedNotLost
    STypeOK
    OneValidArrival
    UnderWayArrives
    EndsOnce
    LTypeOK
    StartAnnouncedOnce
PROPERTIES
    LifeImplemented
\* Deliveries, crashes, requests and events are bounded, and a match may end
\* with no request under way.
CHECK_DEADLOCK FALSE
