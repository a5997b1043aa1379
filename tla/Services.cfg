SPECIFICATION ServicesSpec
CONSTANTS
    a1 = a1
    a2 = a2
    a3 = a3
    NoSlot = 0
    Slots <- ThreeSlots
    Units <- ThreeUnits
    Post <- DuelPosts
    Provinces <- WestEast
    Place <- DuelPlaces
    Roads <- OneRoad
    Home <- HomeOwners
    Capitals <- WestEast
    Targets <- DuelTargets
    StartHP = 2
    Hits <- OneHit
    CollisionRadius = 0
    CleanupDelay = 1
    Agreements <- Alliances
    MaxWaypoints = 0
    MaxLag = 1
    MaxEvents = 1
    Grants <- NoGrants
    Backlog = 1
    MaxStates = 1
    MaxSubs = 1
    Me = 1
    BotUnits = {"u", "v", "w", "x"}
    Board = {"cap", "field", "foe"}
    Capital = "cap"
    ByDistance <- ThreePlaces
    Views <- BoardViews
    MaxCommands = 6
    MaxOffers = 2
    NoUnit = NoUnit
    BotSeats = {"s1"}
    PoolSize = 2
    MaxCrashes = 1
    Sitting <- OneHumanTwoBots
    Bots = {"bot", "eve"}
    BatchSize = 2
    MaxRows = 3
    MaxDeaths = 1
    NoRoster = NoRoster
PROPERTIES
    StrengthIsConserved
    HolderStandsThere
    LeadersFinish
    EndedIsCleanedUp
    GoneLeavesHub
    OffersAnswered
    SessionsFollowSeats
    MailGoesOut
\* Messages, rows and crashes are bounded.
CHECK_DEADLOCK FALSE
