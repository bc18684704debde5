----------------------------- MODULE MCNodeHash -----------------------------
EXTENDS NodeHash

\* Neighbours under one node, the other end of it, and another child of the
\* root.
FourKeys == {<<0, 0>>, <<0, 1>>, <<0, 13>>, <<9, 6>>}

\* A hash function without collisions: the arrangement of the leaves it was
\* made of, those that are not nil.
LeafHash(k) == [size |-> 1, leaves |-> {<<0, k>>}]

SetHash == {LeafHash("a")}

NilLeafHash == [size |-> 1, leaves |-> {}]

Arranged(l, r) ==
    [size   |-> l.size + r.size,
     leaves |-> l.leaves \cup {<<l.size + e[1], e[2]>> : e \in r.leaves}]
============================================================================
