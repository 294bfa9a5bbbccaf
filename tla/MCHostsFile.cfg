SPECIFICATION Spec
CONSTANTS
    Processes = {p1, p2}
    Jobs <- MCJobs
    EntriesOf <- MCEntriesOf
    PublicOf <- MCPublicOf
    PublicAddress = "proxy"
    Loopback = "loopback"
    UserLines <- MCUserLines
    FirstFiles <- MCFirstFiles
    MaxRuns = 3
    MaxTears = 1
INVARIANTS
    TypeOK
    UserLinesSurvive
PROPERTY
    ApplySettles
SYMMETRY Symmetric
CHECK_DEADLOCK FALSE
