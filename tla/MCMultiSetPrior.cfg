CONSTANTS
    Old = old
    New = new
    Nil = nil
    Null = null
    Keys <- TreeKeys
    Items <- SiblingItems
    Base <- TreeBase
    Prior <- PriorKey
    Workers = 2
    Faults = {}
SPECIFICATION Spec
INVARIANTS ResultIsSequential
