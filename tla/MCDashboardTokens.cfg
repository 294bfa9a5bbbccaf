SPECIFICATION TokenSpec
CONSTANTS
    Threads = {r1, r2}
    Lifetimes = {1, 2, 4}
    Margin = 2
    MaxTime = 5
SYMMETRY Symmetry
INVARIANTS
    ReturnedIsValid
