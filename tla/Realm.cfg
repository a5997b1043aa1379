SPECIFICATION RealmSpec
CONSTANTS
    Slots <- ThreeSlots
    NoSlot = 0
    Kinds <- BothKinds
    Cooldown = 1
    MaxTime = 3
    MaxVersion = 7
    LookedAt = 4
    Users = {"ann", "bob", "eve"}
    Players <- ChatPlayers
    Conns <- ChatConns
    MayAlly <- Chain
    NoView = NoView
    NoPost = NoPost
    Provinces = {"north", "south"}
    Home <- TwoHomes
    Goods = {"iron"}
    UnitKinds = {"armor"}
    BuildingKinds = {"factory"}
    HalfPrice <- Halves
    Requires <- ArmorNeedsFactory
    StartBank <- OneIron
    Share <- OneIron
    Production <- FactoryYields
    OrderIds = {1, 2, 3, 4}
    NoOrder = NoOrder
    MaxBank = 2
    Backlog = 1
    MaxStates = 2
    MaxSubs = 2
INVARIANTS
    TypeOK
    GrantsPostdateWar
    VTypeOK
    ShownIsCurrent
    AlliesShareEyes
    CoalitionsPartition
    ETypeOK
    BookedOnce
    CoalitionHears
    HeardIsOnRecord
    LeadIsFresh
PROPERTIES
    CooldownBetweenChanges
    PeaceByConsent
    NothingMinted
    StatesInOrder
\* Time, version, orders and messages are bounded: the instance stops at its bounds.
CHECK_DEADLOCK FALSE
