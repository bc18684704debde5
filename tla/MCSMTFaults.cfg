CONSTANTS
    Keys <- TwoKeys
    Vals = {a}
    Nil = nil
    InitVersion = 0
    MaxVersion = 3
    CacheSize = 1
    Departures = {"commitFails", "rollbackFails", "unanswered"}
VIEW WithoutCache
SPECIFICATION Spec
INVARIANTS RecordsAgreeWithLeaves  ReopenShowsLatest NodesCanBeReloaded
PROPERTIES CommittedReadsStable
