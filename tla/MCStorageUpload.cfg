SPECIFICATION Spec
CONSTANTS
    interface = interface
    python = python
    Users = {interface, python}
    Requests = {r1, r2}
    None = None
    Uploads = {i1, i2, i3}
    ChunksOf <- MCChunksOf
    TriesOf <- MCTriesOf
    MaxBegins = 2
    MaxFaults = 2
    MaxRestarts = 1
SYMMETRY Symmetry
CHECK_DEADLOCK FALSE
INVARIANTS
    TypeOK
    UploadedIsWhole
    OpenUploadsAreKnown
