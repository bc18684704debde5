CONSTANTS
    Namespaces <- TwoNamespaces
    RecordKeys <- TwoRecords
    ScratchKey <- OtherKey
    batchSizeLimit = 1
    MaxCommits = 2
    MaxRetries = 1
SPECIFICATION Spec
INVARIANTS TypeOK BatchIsBounded AcknowledgedIsStored
PROPERTIES NamespacesAreIsolated KeepsWriteOrder
