------------------------------ MODULE NodeHash ------------------------------
(***************************************************************************)
(* How the tree hashes (src/tree_node.go, src/smt.go). A TreeNode stands   *)
(* for four levels of a binary Merkle tree: 16 children, and 14 hashes     *)
(* between them and the node, in Internals (0 and 1 just below the node, 2 *)
(* to 5 below them, 6 to 13 just above the children). Module SMT takes a   *)
(* node's hash to be its content; here it is what SetChildren and          *)
(* ComputeInternalHash make of it, for any hash function, and proofs are   *)
(* the ones GetProof collects and VerifyProof folds.                       *)
(*                                                                         *)
(* The tree is in memory as a whole. A nil child and a child without       *)
(* versions have the same hash and are not told apart. SetWithVersion is   *)
(* one step for the leaf and one per node above it.                        *)
(***************************************************************************)
EXTENDS VersionList

CONSTANTS Keys,         \* keys, as sequences of nibbles of equal length
          Vals,         \* values a client sets, which are the hashes of leaves
          NilLeaf,      \* the nilHash argument of NewBNBSparseMerkleTree
          Hash(_, _),   \* Hasher.Hash of two hashes
          MaxVersion    \* bound on version numbers

ASSUME NodeHashAssumption ==
    /\ Keys # {} /\ \A k \in Keys : k \in Seq(0 .. 15) /\ k # <<>>
    /\ \A k, kk \in Keys : Len(k) = Len(kk)
    /\ MaxVersion \in Nat

Value == Vals \cup {NilLeaf}

\* maxDepth / 4
Levels == Len(CHOOSE k \in Keys : TRUE)

Nodes == UNION {{SubSeq(k, 1, i) : i \in 0 .. Len(k)} : k \in Keys}

\* Nodes that are not leaves.
Inner == Nodes \ Keys

RootNode == <<>>

Slots == 0 .. 13

\* constructNilHashes: the hash of an empty subtree, by depth.
nilHashes[d \in 0 .. (4 * Levels)] ==
    IF d = 4 * Levels THEN NilLeaf ELSE Hash(nilHashes[d + 1], nilHashes[d + 1])

NilHash(n) == nilHashes[4 * Len(n)]

\* The depth of an internal slot below its node.
SlotDepth(i) == IF i < 2 THEN 1 ELSE IF i < 6 THEN 2 ELSE 3

VARIABLES version,         \* tree.version
          versions,        \* Versions of the nodes of the working tree
          internals,       \* Internals of its inner nodes
          savedVersions,   \* the same of lastSaveRoot
          savedInternals,
          climbing         \* the node SetWithVersion has just hashed

vars == <<version, versions, internals, savedVersions, savedInternals, climbing>>

\* SetWithVersion has come to the root.
Idle == climbing = RootNode

\* TreeNode.Root
Root(vs, n) == LatestHash(vs[n], NilHash(n))

\* The hash of a child of n, nilChildHash if there is none.
ChildHash(vs, n, nibble) ==
    LET c == Append(n, nibble)
    IN  IF c \in Nodes THEN Root(vs, c) ELSE nilHashes[4 * Len(n) + 4]

----------------------------------------------------------------------------
\* i ^ 1
Flip(i) == IF i % 2 = 0 THEN i + 1 ELSE i - 1

\* The hash of a pair of which own is the member at position i.
Pair(i, own, other) == IF i % 2 = 0 THEN Hash(own, other) ELSE Hash(other, own)

\* TreeNode.SetChildren: the three slots above the child are hashed again,
\* each with its neighbour.
SetChildren_SameSide(vs, n, nibble) ==
    LET old == internals[n]
        h3  == Pair(nibble, ChildHash(vs, n, nibble), ChildHash(vs, n, Flip(nibble)))
        h2  == Pair(0, h3, old[Flip(6 + nibble \div 2)])
        h1  == Pair(nibble \div 4, h2, old[Flip(2 + nibble \div 4)])
    IN  [old EXCEPT ![6 + nibble \div 2] = h3, ![2 + nibble \div 4] = h2,
                    ![nibble \div 8] = h1]

SetChildren(vs, n, nibble) ==
    LET old == internals[n]
        h3  == Pair(nibble, ChildHash(vs, n, nibble), ChildHash(vs, n, Flip(nibble)))
        h2  == Pair(nibble \div 2, h3, old[Flip(6 + nibble \div 2)])
        h1  == Pair(nibble \div 4, h2, old[Flip(2 + nibble \div 4)])
    IN  [old EXCEPT ![6 + nibble \div 2] = h3, ![2 + nibble \div 4] = h2,
                    ![nibble \div 8] = h1]

\* TreeNode.ComputeInternalHash: every slot, from the children up.
ComputeInternalHash(vs, n) ==
    LET slot[i \in Slots] ==
            IF i >= 6
            THEN Hash(ChildHash(vs, n, 2 * (i - 6)), ChildHash(vs, n, 2 * (i - 6) + 1))
            ELSE Hash(slot[2 * i + 2], slot[2 * i + 3])
    IN  slot

----------------------------------------------------------------------------
\* NewTreeNode, for all nodes.
Init ==
    /\ version = 0
    /\ versions = [n \in Nodes |-> <<>>]
    /\ internals = [n \in Inner |-> [i \in Slots |-> nilHashes[4 * Len(n) + SlotDepth(i)]]]
    /\ savedVersions = versions
    /\ savedInternals = internals
    /\ climbing = RootNode

\* SetWithVersion: the leaf ...
SetLeaf(k, val, newVersion) ==
    /\ Idle
    /\ newVersion > version
    /\ versions' = [versions EXCEPT ![k] = NewVersion(@, Info(newVersion, val))]
    /\ climbing' = k
    /\ UNCHANGED <<version, internals, savedVersions, savedInternals>>

\* ... and the next of parentNodes, up to the root.
SetParent ==
    /\ ~Idle
    /\ LET n == SubSeq(climbing, 1, Len(climbing) - 1)
           nibble == climbing[Len(climbing)]
           slots == SetChildren(versions, n, nibble)
           info == Info(LatestVersion(versions[climbing]), Hash(slots[0], slots[1]))
       IN  /\ internals' = [internals EXCEPT ![n] = slots]
           /\ versions' = [versions EXCEPT ![n] = NewVersion(@, info)]
           /\ climbing' = n
    /\ UNCHANGED <<version, savedVersions, savedInternals>>

Reset ==
    /\ Idle
    /\ versions' = savedVersions
    /\ internals' = savedInternals
    /\ UNCHANGED <<version, savedVersions, savedInternals, climbing>>

Commit(newVer) ==
    /\ Idle
    /\ newVer > version
    /\ version' = newVer
    /\ savedVersions' = versions
    /\ savedInternals' = internals
    /\ UNCHANGED <<versions, internals, climbing>>

\* Reset, then rollback: the nodes below a node that lost entries lose
\* theirs, and the slots of each such node are hashed again.
Rollback_KeepInternals(target) ==
    /\ Idle
    /\ target <= version
    /\ versions' = [n \in Nodes |-> NodeRollback(savedVersions[n], target)]
    /\ internals' = savedInternals
    /\ savedVersions' = versions'
    /\ version' = target
    /\ UNCHANGED <<savedInternals, climbing>>

Rollback(target) ==
    LET Drops(n) == \A i \in 0 .. Len(n) : DropsAny(savedVersions[SubSeq(n, 1, i)], target)
    IN  /\ Idle
        /\ target <= version
        /\ versions' = [n \in Nodes |-> IF Drops(n) THEN NodeRollback(savedVersions[n], target)
                                        ELSE savedVersions[n]]
        /\ internals' = [n \in Inner |-> IF Drops(n) THEN ComputeInternalHash(versions', n)
                                         ELSE savedInternals[n]]
        /\ savedVersions' = versions'
        /\ savedInternals' = internals'
        /\ version' = target
        /\ UNCHANGED climbing

\* All sets of a block carry one version, that of its commit.
BlockVersion(v) ==
    versions # savedVersions => v = LatestVersion(versions[RootNode])

Next ==
    \/ \E k \in Keys, val \in Value, v \in 1 .. MaxVersion :
           BlockVersion(v) /\ SetLeaf(k, val, v)
    \/ SetParent
    \/ Reset
    \/ \E v \in 1 .. MaxVersion : BlockVersion(v) /\ Commit(v)
    \/ \E target \in 0 .. MaxVersion : Rollback(target)

Spec == Init /\ [][Next]_vars

----------------------------------------------------------------------------
(* Proofs, for the working tree.                                           *)

\* The nibble of the key that bit j, counted from the root, belongs to, and
\* the key's first bits of that nibble, down to bit j.
NibbleOf(k, j) == k[(j - 1) \div 4 + 1]

BitsTo(k, j) == NibbleOf(k, j) \div (2 ^ (3 - ((j - 1) % 4)))

\* The neighbour of the key's path at depth j: a slot of the node the bit
\* belongs to, or the root of a child.
Neighbour_Self(k, j) ==
    LET n == SubSeq(k, 1, (j - 1) \div 4)
        r == (j - 1) % 4
    IN  IF r = 3 THEN ChildHash(versions, n, Flip(BitsTo(k, j)))
        ELSE internals[n][<<0, 2, 6>>[r + 1] + BitsTo(k, j)]

Neighbour(k, j) ==
    LET n == SubSeq(k, 1, (j - 1) \div 4)
        r == (j - 1) % 4
    IN  IF r = 3 THEN ChildHash(versions, n, Flip(BitsTo(k, j)))
        ELSE internals[n][Flip(<<0, 2, 6>>[r + 1] + BitsTo(k, j))]

\* GetProof: from the leaf up.
GetProof(k) ==
    [i \in 1 .. (4 * Levels) |->
        IF Root(versions, RootNode) = NilHash(RootNode)
        THEN nilHashes[4 * Levels + 1 - i]
        ELSE Neighbour(k, 4 * Levels + 1 - i)]

\* VerifyProof, for the value Get returns: helpers are the bits of the key.
VerifyProof(k, val, proof) ==
    LET node[i \in 0 .. (4 * Levels)] ==
            IF i = 0 THEN val
            ELSE Pair(BitsTo(k, 4 * Levels + 1 - i), node[i - 1], proof[i])
    IN  node[4 * Levels] = Root(versions, RootNode)

----------------------------------------------------------------------------
\* The hash below slot i of node n on side b: two children, or two slots.
Below(vs, ins, n, i, b) ==
    IF i >= 6 THEN ChildHash(vs, n, 2 * (i - 6) + b) ELSE ins[n][2 * i + 2 + b]

Merkle(vs, ins, n) ==
    /\ \A i \in Slots : ins[n][i] = Hash(Below(vs, ins, n, i, 0), Below(vs, ins, n, i, 1))
    /\ Root(vs, n) = Hash(ins[n][0], ins[n][1])

\* Every slot of every node is the hash of what is below it, in the working
\* and in the saved tree: three slots updated by each of many Sets, and slots
\* recomputed by Rollback, agree (but for the node SetWithVersion comes to
\* next).
InternalsAreMerkle ==
    /\ \A n \in Inner :
           Idle \/ n # SubSeq(climbing, 1, Len(climbing) - 1) =>
               Merkle(versions, internals, n)
    /\ \A n \in Inner : Merkle(savedVersions, savedInternals, n)

\* A proof taken from the tree verifies for the key's value and for no other
\* value ("verify proof ... failed", smt_test.go).
ProofsAreExact ==
    Idle =>
        \A k \in Keys, val \in Value :
            VerifyProof(k, val, GetProof(k)) <=> val = Root(versions, k)

\* A key as a number, the first nibble highest.
Number(k) ==
    LET num[i \in 0 .. Len(k)] == IF i = 0 THEN 0 ELSE 16 * num[i - 1] + k[i]
    IN  num[Len(k)]

\* The leaf at position p.
LeafAt(p) ==
    LET held == {k \in Keys : Number(k) = p}
    IN  IF held = {} THEN NilLeaf ELSE Root(versions, CHOOSE k \in held : TRUE)

\* The hash of the binary Merkle tree over the leaves, by depth and position.
PlainMerkle ==
    LET m[d \in 0 .. (4 * Levels)] ==
            [p \in Nat |-> IF d = 4 * Levels THEN LeafAt(p)
                           ELSE Hash(m[d + 1][2 * p], m[d + 1][2 * p + 1])]
    IN  m[0][0]

\* The root is that of the plain binary Merkle tree over the leaves: packing
\* four levels into a node changes no hash, and neither does the history of
\* sets, resets and rollbacks that led to the leaves.
RootIsPlainMerkle == Idle => Root(versions, RootNode) = PlainMerkle
============================================================================
