CONSTANTS
    Old = old
    New = new
    Nil = nil
    Null = null
    Keys <- TreeKeys
    Items <- FourItems
    Base <- TreeBase
    Prior = {}
    Workers = 3
    Faults = {"extend", "key"}
SPECIFICATION Spec
INVARIANTS TypeOK ResultIsSequential PublishedIsFinal
PROPERTIES Terminates
