----------------------------- MODULE MCMultiSet -----------------------------
EXTENDS MultiSet

CONSTANTS Old, New

\* Three levels: an adjacent pair of leaves, sibling nodes <<0, 0>> and
\* <<0, 1>>, both halves of the root and of node <<9>>.
TreeKeys == {<<0, 0, 0>>, <<0, 0, 1>>, <<0, 1, 12>>, <<9, 3, 3>>, <<9, 15, 15>>}

TreeBase == [k \in TreeKeys |-> IF k = <<0, 0, 1>> THEN Nil ELSE Old]

Setting(S) == {[key |-> k, val |-> New] : k \in S}

\* <<9, 15, 15>> is content the climb only reads.
FourItems == Setting(TreeKeys \ {<<9, 15, 15>>})

\* Sibling nodes only.
SiblingItems == Setting({<<0, 0, 0>>, <<0, 1, 12>>})

\* A key set on its own before the call.
PriorKey == {<<0, 1, 12>>}
=============================================================================
