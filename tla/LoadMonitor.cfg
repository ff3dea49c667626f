SPECIFICATION Spec
CONSTANTS
    SlotTimes <- MCSlots
    NewSlotTimes <- MCNewSlots
    Transition = 1
    MaxReadingErrors = 1
    MaxRegisters = 4
    Actions = 1
INVARIANTS
    JudgedInSlot
    HangsOnlyReconfigured
PROPERTIES
    ShutdownEnds
