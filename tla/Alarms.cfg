CONSTANTS
    AlarmIds = {a1, a2}
    MaxFiles = 3
    MaxOutages = 1
SPECIFICATION AlarmsSpec
CHECK_DEADLOCK FALSE
INVARIANTS
    MonitorInStep
    NoEventLost
