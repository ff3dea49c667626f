\* A node with a main connection, an extension and an asynchronous clone.
SPECIFICATION Spec
CONSTANTS
    Main = Main
    Ext = Ext
    Bg = Bg
    None = None
    MaxCmds = 3
    MaxFaults = 2
INVARIANTS
    AnswersInStep
    NoSessionForgotten
CHECK_DEADLOCK FALSE
