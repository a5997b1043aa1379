SPECIFICATION SFairSpec
CONSTANTS
    a1 = a1
    a2 = a2
    a3 = a3
    NoSlot = 0
    Slots <- ThreeSlots
    Units <- ThreeUnits
    Post <- DuelPosts
    Provinces <- WestEast
    Place <- DuelPlaces
    Roads <- OneRoad
    Home <- HomeOwners
    Capitals <- WestEast
    Targets <- DuelTargets
    StartHP = 2
    Hits <- OneHit
    CollisionRadius = 0
    CleanupDelay = 1
    Agreements <- Alliances
    MaxWaypoints = 0
    MaxLag = 1
    MaxEvents = 1
    Grants <- NoGrants
PROPERTY FightsEnd
CHECK_DEADLOCK FALSE
