CONSTANTS
    Keys <- DeepKeys
    Vals = {a}
    Nil = nil
    InitVersion = 0
    MaxVersion = 3
    CacheSize = 1
    Departures = {}
SPECIFICATION Spec
INVARIANTS TypeOK CacheAgreesWithRecords RecordsAgreeWithLeaves ReopenShowsLatest ProofsVerify NodesCanBeReloaded
PROPERTIES CommittedReadsStable KeepsPromise
