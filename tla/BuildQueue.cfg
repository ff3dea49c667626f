SPECIFICATION Spec
CONSTANTS
    b1 = b1
    b2 = b2
    b3 = b3
    r1 = r1
    v1 = v1
    res = res
    None = None
    Missing = Missing
    Torn = Torn
    Builds <- MCBuilds
    Projects = {1, 2}
    ProjectOf <- MCProjectOf
    Releases = {r1}
    ReleaseOf <- MCReleaseOf
    Wildcards = {"project1"}
    Matches <- MCMatches
    Versions = {v1}
    Results = {res}
    StatusCalls = {"TEST_ONGOING", "SKIPPED"}
    InfoCalls <- MCInfo
    MaxResults = 1
INVARIANTS
    BaselinesKept
    QueueSound
    SavedAtRest
    ListIsTestOrder
PROPERTY
    RecordsKept
CHECK_DEADLOCK FALSE
