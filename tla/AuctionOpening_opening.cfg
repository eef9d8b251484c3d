SPECIFICATION Spec

CONSTANTS
    Workers = {w1, w2}
    Opens = {r1, r2, r3, r4}
    MaxID = 3
    MaxIDWithBreak = 1
    Crashes = TRUE
    NoFile = NoFile
    EmptyFile = EmptyFile
    None = None

SYMMETRY MCSymmetry

INVARIANTS
    TypeOK
    OpenedIsComplete
    NumbersAreUnique
    ListingIsComplete
