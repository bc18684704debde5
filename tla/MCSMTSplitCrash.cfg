CONSTANTS
    Keys <- FlatKeys
    Vals = {a}
    Nil = nil
    InitVersion = 0
    MaxVersion = 3
    CacheSize = 1
    Departures = {"commitFails", "splits", "noRedo"}
SPECIFICATION Spec
INVARIANTS ReopenShowsLatest
