SPECIFICATION Spec
CONSTANTS
    Bats = 2
    MaxFaults = 1
INVARIANTS
    PhasesInStep
    TrafficStopped

    
CHECK_DEADLOCK FALSE
