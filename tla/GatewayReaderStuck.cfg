SPECIFICATION RunningSpec
CONSTANTS
    Backlog = 1
    MaxStates = 1
    MaxSubs = 1
PROPERTIES
    ReaderEnds
\* A connection may end.
CHECK_DEADLOCK FALSE
