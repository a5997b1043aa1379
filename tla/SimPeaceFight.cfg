SPECIFICATION SSpec
CONSTANTS
    a1 = a1
    a2 = a2
    a3 = a3
    NoSlot = 0
    Slots <- TwoSlots
    Units <- TwoUnits
    Post <- RoadPosts
    Provinces <- WestEast
    Place <- RoadPlaces
    Roads <- OneRoad
    Home <- HomeOwners
    Capitals <- WestEast
    Targets <- RoadTargets
    StartHP = 1
    Hits <- OneHit
    CollisionRadius = 0
    CleanupDelay = 2
    Agreements <- AllStances
    MaxWaypoints = 1
    MaxLag = 1
    MaxEvents = 2
    Grants <- EastGrants
INVARIANT OnlyEnemiesFight
CHECK_DEADLOCK FALSE
