----------------------------- MODULE MCDatabase -----------------------------
EXTENDS Database

\* The handle without a namespace and one whose name is the prefix of the
\* record keys.
TwoNamespaces == {<<>>, <<"t">>}

\* The root and one child.
TwoRecords == {<<"t", ":", "d0", ":", "p0">>, <<"t", ":", "d4", ":", "p1">>}

OtherKey == <<"x">>
=============================================================================
