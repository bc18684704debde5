CONSTANTS
    Hashes = {nil, a, b}
    NilHash = nil
    InitVersion = 0
    MaxVersion = 5
SYMMETRY Symmetry
SPECIFICATION Spec
INVARIANTS TypeOK ReadsMatchHistory CleanNodeShowsLatest Inv
PROPERTIES ForwardStable
