CONSTANTS
    Keys <- TwoKeys
    Vals = {a}
    Nil = nil
    InitVersion = 0
    MaxVersion = 3
    CacheSize = 1
    Departures = {"commitFails"}
SPECIFICATION Spec
INVARIANTS CacheAgreesWithRecords
