SPECIFICATION Spec
CONSTANTS
    Actions = 2
INVARIANTS
    HonestResult
    WatchingBetweenActions
PROPERTIES
    ExecutorEnds
CHECK_DEADLOCK FALSE
