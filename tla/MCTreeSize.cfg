CONSTANTS
    Keys <- ForkedKeys
    Vals = {a}
    Nil = nil
    InitVersion = 0
    MaxVersion = 3
    CacheSize = 1
    Departures = {"commitFails", "rollbackFails"}
    Threshold = 2500
    Width = 65536
    MaxDisturbances = 1
VIEW WithoutCache
SPECIFICATION SizedSpec
INVARIANTS SizeTypeOK AccountingIsExact NodesCanBeReloaded
PROPERTIES LargeTreeIsRecounted KeepsPromise
