CONSTANTS
    Keys <- FourKeys
    Vals <- SetHash
    NilLeaf <- NilLeafHash
    Hash <- Arranged
    MaxVersion = 2
SPECIFICATION Spec
INVARIANTS InternalsAreMerkle ProofsAreExact RootIsPlainMerkle
