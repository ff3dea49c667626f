SPECIFICATION ServiceSpec
CONSTANTS
    b1 = b1
    b2 = b2
    r1 = r1
    v1 = v1
    res = res
    None = None
    Builds = {b1, b2}
    Projects = {1, 2}
    ProjectOf <- MCProjectOf
    Releases = {r1}
    ReleaseOf <- MCReleaseOf
    Wildcards = {}
    Matches <- MCNoMatches
    Versions = {v1}
    Results = {res}
    TriggerTranslator <- MCTranslator
    ProjectPrefix <- MCPrefix
    ReleasePrefix <- MCPrefix
    Triggers <- MCTriggers
    Scenarios <- MCSafety
    MaxRuns = 2
    Mandatory = 1
    Optional = 1
    OfferIsAtomic = FALSE
INVARIANTS
    NoTestKilled
    OngoingIsReal
    NotForgotten
    QueuedKnown
PROPERTIES
    CancelledStays
SYMMETRY MCSymmetry
CHECK_DEADLOCK FALSE
