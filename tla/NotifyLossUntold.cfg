SPECIFICATION NSpec
CONSTANTS
    Slots <- SlotsOfMatch
    NoSlot = 0
    Sitting <- OneHumanTwoBots
    Bots = {"bot", "eve"}
    BatchSize = 2
    MaxRows = 3
    MaxDeaths = 1
    NoRoster = NoRoster
PROPERTIES
    LossIsTold
\* Nothing may be left to notify.
CHECK_DEADLOCK FALSE
