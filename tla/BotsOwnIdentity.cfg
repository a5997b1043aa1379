SPECIFICATION BSpec
CONSTANTS
    BotSeats = {"s1", "s2"}
    PoolSize = 2
    MaxCrashes = 0
INVARIANT
    OwnIdentity
\* A seat whose match is over needs nobody.
CHECK_DEADLOCK FALSE
