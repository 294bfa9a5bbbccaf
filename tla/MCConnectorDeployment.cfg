SPECIFICATION Spec
CONSTANTS
    Connectors = {c1, c2}
    MaxVersions = 5
    NoConnector = none
    MaxFaults = 2
    MaxUpsets = 1
SYMMETRY Symmetry
INVARIANTS
    TypeOK
    SuccessMeansWorking
    FullRunRestores
PROPERTY
    AdditiveSpares
