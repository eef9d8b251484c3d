SPECIFICATION Spec

CONSTANTS
    Workers = {w1, w2}
    Opens = {r1, r2, r3}
    MaxID = 3
    MaxIDWithBreak = 1
    Crashes = FALSE
    NoFile = NoFile
    EmptyFile = EmptyFile
    None = None

SYMMETRY MCSymmetry

INVARIANT NumbersAreNeverShared
