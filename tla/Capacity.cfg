SPECIFICATION Spec
CONSTANTS
    b1 = b1
    b2 = b2
    Bats <- MCBats
    Initial <- MCInitial
    DeltaUp <- MCUp
    DeltaDown <- MCDown
    TrafficSlots = 2
    MaxSteps = 3
    MaxReadErrors = 1
INVARIANTS
    StepsOnRecord
    ReferenceWasMeasured
    PayloadBack
PROPERTIES
    SearchEnds
