\* Main loop, steps and remote control over two test cases.
SPECIFICATION Spec
CONSTANTS
    Suite <- MCSuite
    Phases <- MCPhases
    Dbus = TRUE
    MaxCmds = 2
    MaxFaults = 2
    SamePath = FALSE
INVARIANTS
    SuccessIsReal
    SuiteVerdict
PROPERTIES
    QuitObeyed
    EndsUnlessOvertaken
CHECK_DEADLOCK FALSE
