SPECIFICATION Spec
CONSTANTS
    Emails = {"e1", "e2"}
    Names = {"n1"}
    Requests = {r1, r2, r3, r4}
    AdminTokenSet = TRUE
SYMMETRY Symmetry
INVARIANTS
    TypeOK
    OneKeyPerEmail
    OwnersWereApproved
    AcceptedIsRecorded
PROPERTIES
    ImplementsRegistry
CHECK_DEADLOCK FALSE
