CONSTANTS
    Ip = {i1, i2}
SPECIFICATION CbaSpec
INVARIANTS
    DoneIsWhole
    RestoredIsReloaded
PROPERTIES
    CommitIsOwn
    OwnReport
