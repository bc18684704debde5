CONSTANTS
    Keys <- FlatKeys
    Vals = {a}
    Nil = nil
    InitVersion = 0
    MaxVersion = 2
    CacheSize = 1
    Departures = {"commitFails", "rollbackFails", "splits", "unanswered"}
VIEW WithoutCache
SPECIFICATION Spec
INVARIANTS RecordsAgreeWithLeaves ReopenShowsLatest NodesCanBeReloaded
PROPERTIES CommittedReadsStable
