----------------------------- MODULE SMTProofs -----------------------------
(***************************************************************************)
(* Type correctness of the tree, for any set of keys of one length, any    *)
(* values, version bound and cache size, with or without failing writes,   *)
(* and the range of versions it accepts.                                   *)
(***************************************************************************)
EXTENDS SMT, VersionListProofs

----------------------------------------------------------------------------
(* Geometry.                                                               *)

\* The nodes contain the root, the leaves and every node above one of them.
LEMMA NodesClosed ==
    /\ RootNode \in Nodes
    /\ Keys \subseteq Nodes
    /\ \A n \in Nodes : n \in Seq(0 .. 15) /\ Path[n] = Prefixes(n)
    /\ \A n \in Nodes : Path[n] \subseteq Nodes
    /\ \A n \in Nodes \ {RootNode} : Parent[n] \in Nodes
<1> USE SMTAssumption
<1>1. RootNode \in Nodes BY DEF Nodes
<1>2. \A k \in Keys : k \in Prefixes(k)
    <2> SUFFICES ASSUME NEW k \in Keys PROVE k \in Prefixes(k) OBVIOUS
    <2>1. k \in Seq(0 .. 15) OBVIOUS
    <2>2. k = SubSeq(k, 1, Len(k)) BY <2>1
    <2>3. Len(k) \in 0 .. Len(k) BY <2>1
    <2> QED BY <2>2, <2>3 DEF Prefixes
<1>3. \A n \in Nodes : n = RootNode \/ \E k \in Keys : n \in Prefixes(k)
    BY DEF Nodes
<1>4. ASSUME NEW n \in Nodes PROVE n \in Seq(0 .. 15)
    <2>1. CASE n = RootNode BY <2>1 DEF RootNode
    <2>2. ASSUME NEW k \in Keys, n \in Prefixes(k) PROVE n \in Seq(0 .. 15)
        <3>1. PICK i \in 0 .. Len(k) : n = SubSeq(k, 1, i) BY <2>2 DEF Prefixes
        <3> QED BY <3>1
    <2> QED BY <1>3, <2>1, <2>2
<1>5. \A n \in Nodes : Path[n] = Prefixes(n) BY DEF Path
<1>6. ASSUME NEW n \in Nodes, NEW m \in Prefixes(n) PROVE m \in Nodes
    <2>1. PICK i \in 0 .. Len(n) : m = SubSeq(n, 1, i) BY DEF Prefixes
    <2>2. CASE n = RootNode
        <3>1. m = <<>> BY <2>1, <2>2 DEF RootNode
        <3> QED BY <3>1, <1>1 DEF RootNode
    <2>3. ASSUME NEW k \in Keys, n \in Prefixes(k) PROVE m \in Nodes
        <3>1. PICK j \in 0 .. Len(k) : n = SubSeq(k, 1, j) BY <2>3 DEF Prefixes
        <3>2. k \in Seq(0 .. 15) OBVIOUS
        <3>3. Len(n) = j BY <3>1, <3>2
        <3>4. m = SubSeq(k, 1, i) /\ i \in 0 .. Len(k) BY <2>1, <3>1, <3>2, <3>3
        <3>5. m \in Prefixes(k) BY <3>4 DEF Prefixes
        <3> QED BY <3>5 DEF Nodes
    <2> QED BY <1>3, <2>2, <2>3
<1>7. ASSUME NEW n \in Nodes \ {RootNode} PROVE Parent[n] \in Nodes
    <2>1. n \in Seq(0 .. 15) /\ Len(n) # 0 BY <1>4 DEF RootNode
    <2>2. Len(n) - 1 \in 0 .. Len(n) BY <2>1
    <2>3. Parent[n] \in Prefixes(n) BY <2>2 DEF Parent, Prefixes
    <2> QED BY <2>3, <1>6
<1> QED BY <1>1, <1>2, <1>4, <1>5, <1>6, <1>7 DEF Nodes

\* The paths of some keys consist of nodes.
LEMMA PathsNodes ==
    ASSUME NEW S \in SUBSET Keys
    PROVE  /\ Paths[S] = UNION {Path[k] : k \in S}
           /\ Paths[S] \subseteq Nodes
<1>1. Paths[S] = UNION {Path[k] : k \in S} BY DEF Paths
<1>2. \A k \in S : Path[k] \subseteq Nodes BY NodesClosed
<1> QED BY <1>1, <1>2

\* Where the path of a key parts from those of others there is a node below
\* the common part: the sibling SetChildren reads exists.
LEMMA ForkExists ==
    ASSUME NEW S \in (SUBSET Keys) \ {{}}, NEW kk \in Keys \ S
    PROVE  /\ Fork[S][kk] \in Path[kk] \ Paths[S]
           /\ Parent[Fork[S][kk]] \in Paths[S]
           /\ Fork[S][kk] \in Nodes \ {RootNode}
<1> DEFINE At(i) == SubSeq(kk, 1, i)
           Apart == {i \in Nat : i <= Len(kk) /\ At(i) \notin Paths[S]}
<1>0. S \in SUBSET Keys /\ Paths[S] = UNION {Path[k] : k \in S}
    BY PathsNodes
<1>1. \A k \in S : k \in Seq(0 .. 15) /\ kk \in Seq(0 .. 15) /\ Len(k) = Len(kk)
    BY <1>0, SMTAssumption
<1>2. /\ \A k \in S : Path[k] = Prefixes(k)
      /\ kk \in Nodes /\ Path[kk] = Prefixes(kk)
    BY <1>0, NodesClosed
<1>3. Len(kk) \in Apart
    <2>1. kk \in Seq(0 .. 15) BY SMTAssumption
    <2>2. Len(kk) \in Nat /\ At(Len(kk)) = kk BY <2>1
    <2>3. ASSUME NEW k \in S, kk \in Prefixes(k) PROVE FALSE
        <3>1. PICK i \in 0 .. Len(k) : kk = SubSeq(k, 1, i) BY <2>3 DEF Prefixes
        <3>2. i = Len(k) BY <3>1, <1>1
        <3>3. SubSeq(k, 1, Len(k)) = k BY <1>1
        <3> QED BY <3>1, <3>2, <3>3
    <2>4. At(Len(kk)) \notin Paths[S] BY <2>2, <2>3, <1>0, <1>2
    <2> QED BY <2>2, <2>4
<1>4. PICK i \in Apart : \A j \in Apart : i <= j
    BY <1>3, LeastNatural
<1>5. RootNode \in Paths[S]
    <2>1. PICK k \in S : TRUE OBVIOUS
    <2>2. RootNode = SubSeq(k, 1, 0) /\ 0 \in 0 .. Len(k) BY <1>1 DEF RootNode
    <2>3. RootNode \in Path[k] BY <2>2, <1>2 DEF Prefixes
    <2> QED BY <2>3, <1>0
<1>6. kk \in Seq(0 .. 15) BY SMTAssumption
<1>7. i # 0
    <2>1. At(0) = RootNode BY <1>6 DEF RootNode
    <2> QED BY <2>1, <1>4, <1>5
<1>8. i \in 1 .. Len(kk) /\ i - 1 \in 0 .. Len(kk) BY <1>4, <1>6, <1>7
<1>9. At(i - 1) \in Paths[S]
    <2>1. i - 1 \notin Apart BY <1>4, <1>8
    <2> QED BY <2>1, <1>8
<1>10. At(i) \in Path[kk] \ Paths[S] BY <1>2, <1>4, <1>8 DEF Prefixes
<1>11. At(i) \in Nodes \ {RootNode}
    <2>1. Len(At(i)) = i BY <1>6, <1>8
    <2> QED BY <2>1, <1>7, <1>10, <1>2, NodesClosed DEF RootNode
<1>12. Parent[At(i)] = At(i - 1)
    <2>1. Len(At(i)) = i BY <1>6, <1>8
    <2>2. SubSeq(At(i), 1, i - 1) = At(i - 1) BY <1>6, <1>8
    <2> QED BY <2>1, <2>2, <1>11 DEF Parent
<1>13. \E n \in Path[kk] \ Paths[S] : Parent[n] \in Paths[S]
    BY <1>9, <1>10, <1>12
<1>14. Fork[S][kk] = CHOOSE n \in Path[kk] \ Paths[S] : Parent[n] \in Paths[S]
    BY DEF Fork
<1>15. Fork[S][kk] \in Path[kk] \ Paths[S] /\ Parent[Fork[S][kk]] \in Paths[S]
    BY <1>13, <1>14
<1> QED BY <1>15, <1>5, <1>2, NodesClosed

----------------------------------------------------------------------------
(* The operators return nodes, lists and records of the right type.        *)

StoredRecord == [found : BOOLEAN, versions : Versions]

Tree == [Nodes -> Node]

\* Root returns a content.
LEMMA RootType ==
    ASSUME NEW node \in Node PROVE Root(node) \in Content
<1>1. NilHash \in Content BY DEF NilHash, Content, Value
<1>2. node.versions \in Seq(VersionInfo(Content)) BY DEF Node, Versions
<1>3. CASE node.versions = <<>> BY <1>1, <1>3 DEF Root, LatestHash
<1>4. CASE node.versions # <<>>
    <2>1. Len(node.versions) \in 1 .. Len(node.versions) BY <1>2, <1>4
    <2>2. node.versions[Len(node.versions)].hash \in Content
        BY <2>1, <1>2, EntryType DEF VersionInfo
    <2> QED BY <2>2, <1>4 DEF Root, LatestHash
<1> QED BY <1>3, <1>4

\* SetChildren returns a content.
LEMMA SetChildrenType ==
    ASSUME NEW t \in Tree, NEW n \in Nodes, NEW S \in (SUBSET Keys) \ {{}},
           NEW items \in [S -> Value]
    PROVE  SetChildren(t, n, items) \in Content
<1>1. ASSUME NEW kk \in Keys \ S PROVE Root(t[Fork[S][kk]])[kk] \in Value
    <2>1. t[Fork[S][kk]] \in Node BY ForkExists DEF Tree
    <2> QED BY <2>1, RootType DEF Content
<1>2. Nil \in Value BY DEF Value
<1>3. DOMAIN items = S /\ \A kk \in S : items[kk] \in Value OBVIOUS
<1> QED BY <1>1, <1>2, <1>3 DEF SetChildren, Content

\* Loading nodes leaves a tree.
LEMMA ExtendType ==
    ASSUME TypeOK, NEW t \in Tree, NEW S
    PROVE  Extend(t, S) \in Tree
<1>1. NewTreeNode \in Node /\ NilNode \in Node
    BY DEF NewTreeNode, NilNode, Node, Versions
<1>2. \A n \in Nodes : db[n].versions \in Versions /\ dbChild[n] \in Versions
    BY DEF TypeOK
<1>3. \A n \in Nodes : StoredChild(n) \in Node
    BY <1>1, <1>2 DEF StoredChild, Node
<1>4. \A n \in Nodes : [state |-> "resident", versions |-> db[n].versions] \in Node
    BY <1>2 DEF Node
<1> QED BY <1>1, <1>3, <1>4 DEF Extend, Tree

\* The cache after an Add holds records.
LEMMA CacheAddType ==
    ASSUME TypeOK, NEW new \in SUBSET Keys, NEW cached,
           \A k \in new : cached[k].versions \in Versions,
           NEW c \in CacheAdd(new, cached)
    PROVE  c \in [Keys -> StoredRecord]
<1>1. PICK S : c = [k \in Keys |->
                       IF k \notin S THEN [found |-> FALSE, versions |-> <<>>]
                       ELSE IF k \in new
                       THEN [found |-> TRUE, versions |-> cached[k].versions]
                       ELSE dbCache[k]]
    BY DEF CacheAdd
<1>2. <<>> \in Versions BY DEF Versions
<1>3. dbCache \in [Keys -> StoredRecord] BY DEF TypeOK, StoredRecord
<1> QED BY <1>1, <1>2, <1>3 DEF StoredRecord

\* Replacing a node's list leaves a node.
LEMMA WithVersions ==
    ASSUME NEW node \in Node, NEW vs \in Versions
    PROVE  [node EXCEPT !.versions = vs] \in Node
BY DEF Node

\* Pruning nodes leaves a tree.
LEMMA PrunedType ==
    ASSUME TypeOK, NEW recent \in NoVersion .. MaxVersion, NEW visited
    PROVE  Pruned(recent, visited) \in Tree
<1>1. ASSUME NEW n \in Nodes, recent # NoVersion
      PROVE  [root[n] EXCEPT !.versions = Prune(@, recent)] \in Node
    <2>1. root[n] \in Node BY DEF TypeOK
    <2>2. root[n].versions \in Seq(VersionInfo(Content)) BY <2>1 DEF Node, Versions
    <2>3. recent \in Nat BY <1>1, SMTAssumption DEF NoVersion
    <2>4. Prune(root[n].versions, recent) \in Versions
        BY <2>2, <2>3, PruneType DEF Versions
    <2> QED BY <2>1, <2>4, WithVersions
<1>2. root \in Tree BY DEF TypeOK, Tree
<1> QED BY <1>1, <1>2 DEF Pruned, Tree

\* Garbage collection leaves a tree.
LEMMA ReleasedType ==
    ASSUME NEW t \in Tree, NEW oldest PROVE Released(t, oldest) \in Tree
<1>1. NilNode \in Node BY DEF NilNode, Node, Versions
<1>2. \A n \in Nodes : [t[n] EXCEPT !.state = "temporary"] \in Node
    BY DEF Tree, Node
<1> QED BY <1>1, <1>2 DEF Released, Tree

\* Rolling back leaves a tree.
LEMMA RolledBackType ==
    ASSUME TypeOK, NEW target \in Nat, NEW dropping
    PROVE  RolledBack(target, dropping) \in Tree
<1> DEFINE visited == {n \in Nodes \ {RootNode} : Parent[n] \in dropping /\ HasChild(n)}
           t == Extend(lastSaveRoot, visited)
<1>1. t \in Tree BY ExtendType DEF TypeOK, Tree
<1> HIDE DEF t
<1>2. ASSUME NEW n \in Nodes
      PROVE  [t[n] EXCEPT !.versions = NodeRollback(@, target)] \in Node
    <2>1. t[n] \in Node BY <1>1 DEF Tree
    <2>2. t[n].versions \in Seq(VersionInfo(Content)) BY <2>1 DEF Node, Versions
    <2>3. NodeRollback(t[n].versions, target) \in Versions
        BY <2>2, NodeRollbackType DEF Versions
    <2> QED BY <2>1, <2>3, WithVersions
<1>3. RolledBack(target, dropping) =
        [n \in Nodes |-> IF n \in dropping
                         THEN [t[n] EXCEPT !.versions = NodeRollback(@, target)]
                         ELSE t[n]]
    BY DEF RolledBack, t
<1> QED BY <1>1, <1>2, <1>3 DEF Tree

\* Re-caching leaves records.
LEMMA RecachedType ==
    ASSUME TypeOK, NEW t \in Tree, NEW dropping
    PROVE  Recached(t, dropping) \in [Keys -> StoredRecord]
<1>1. \A k \in Keys : t[k].versions \in Versions
    BY NodesClosed DEF Tree, Node
<1>2. dbCache \in [Keys -> StoredRecord] BY DEF TypeOK, StoredRecord
<1> QED BY <1>1, <1>2 DEF Recached, StoredRecord

\* The tree initFromStorage builds is a tree.
LEMMA ReopenedTreeType ==
    ASSUME TypeOK PROVE ReopenedTree \in Tree
<1>1. NewTreeNode \in Node /\ NilNode \in Node
    BY DEF NewTreeNode, NilNode, Node, Versions
<1>2. [n \in Nodes |-> NilNode] \in Tree BY <1>1 DEF Tree
<1>3. Extend([n \in Nodes |-> NilNode], {RootNode}) \in Tree BY <1>2, ExtendType
<1> QED BY <1>1, <1>3 DEF ReopenedTree, Tree

----------------------------------------------------------------------------
(* Every action keeps the types.                                           *)

\* A new tree on an empty database.
LEMMA InitType == Init => TypeOK
<1> SUFFICES ASSUME Init PROVE TypeOK OBVIOUS
<1>1. <<>> \in Versions BY DEF Versions
<1>2. NewTreeNode \in Node /\ NilNode \in Node
    BY <1>1 DEF NewTreeNode, NilNode, Node
<1>3. root \in [Nodes -> Node] BY <1>2 DEF Init
<1> QED BY <1>1, <1>3, SMTAssumption DEF Init, TypeOK, NoVersion, Nothing

\* Get changes the cache only.
LEMMA GetType ==
    ASSUME TypeOK, NEW k \in Keys, NEW v, Get(k, v) PROVE TypeOK'
<1>1. db[k].versions \in Versions BY NodesClosed DEF TypeOK
<1>2. dbCache' \in CacheAdd({k}, db) BY DEF Get
<1>3. dbCache' \in [Keys -> StoredRecord] BY <1>1, <1>2, CacheAddType
<1> QED BY <1>3 DEF Get, TypeOK, StoredRecord

\* The last saved tree stays a tree when nodes are loaded into it.
LEMMA SavedTreeType ==
    ASSUME TypeOK, NEW S PROVE SavedTreeAfterLoad(S) \in Tree
BY ExtendType DEF SavedTreeAfterLoad, TypeOK, Tree

\* GetProof loads nodes.
LEMMA GetProofType ==
    ASSUME TypeOK, NEW k \in Keys, GetProof(k) PROVE TypeOK'
<1>1. root' \in Tree BY ExtendType DEF GetProof, TypeOK, Tree
<1>2. lastSaveRoot' \in Tree BY SavedTreeType DEF GetProof
<1> QED BY <1>1, <1>2 DEF GetProof, TypeOK, Tree

\* What a Set leaves in the cache are records.
LEMMA CachedAfterSetType ==
    ASSUME TypeOK, NEW S \in SUBSET Keys, NEW infos \in [S -> VersionInfo(Content)],
           NEW c \in CachedAfterSet(infos)
    PROVE  c \in [Keys -> StoredRecord]
<1> DEFINE Ahead(k) == dbCache[k].found /\ LatestVersion(dbCache[k].versions) > version
           Overwritten(k) ==
               [dbCache[k] EXCEPT !.versions[Len(dbCache[k].versions)] = infos[k]]
<1>1. PICK shared \in SUBSET {k \in S : Ahead(k)} :
          c = [k \in Keys |-> IF k \in shared THEN Overwritten(k) ELSE dbCache[k]]
    BY DEF CachedAfterSet
<1>2. dbCache \in [Keys -> StoredRecord] BY DEF TypeOK, StoredRecord
<1>3. ASSUME NEW k \in S, Ahead(k) PROVE Overwritten(k) \in StoredRecord
    <2> DEFINE vs == dbCache[k].versions
    <2>1. vs \in Seq(VersionInfo(Content)) BY <1>2 DEF StoredRecord, Versions
    <2>2. vs # <<>> BY <1>3 DEF LatestVersion, TypeOK
    <2>3. [vs EXCEPT ![Len(vs)] = infos[k]] \in Seq(VersionInfo(Content))
        BY <2>1, <2>2
    <2>4. Overwritten(k) = [dbCache[k] EXCEPT !.versions = [vs EXCEPT ![Len(vs)] = infos[k]]]
        OBVIOUS
    <2> QED BY <1>2, <2>3, <2>4 DEF StoredRecord, Versions
<1> HIDE DEF Ahead, Overwritten
<1> QED BY <1>1, <1>2, <1>3

\* Set and MultiSet give every node of the paths an entry.
LEMMA SetItemsType ==
    ASSUME TypeOK, NEW S \in (SUBSET Keys) \ {{}}, NEW items \in [S -> Value],
           NEW newVersion \in Nat, SetItems(items, newVersion)
    PROVE  TypeOK'
<1> DEFINE t == Extend(root, Paths[S])
           NewInfo(n) == Info(newVersion, SetChildren(t, n, items))
<1>0. DOMAIN items = S /\ S \in SUBSET Keys OBVIOUS
<1>1. t \in Tree BY ExtendType DEF TypeOK, Tree
<1> HIDE DEF t
<1>2. \A n \in Nodes : NewInfo(n) \in VersionInfo(Content)
    BY <1>1, SetChildrenType DEF Info, VersionInfo
<1>3. root' = [n \in Nodes |-> IF n \in Paths[S]
                               THEN [t[n] EXCEPT !.versions = NewVersion(@, NewInfo(n))]
                               ELSE t[n]]
    BY <1>0 DEF SetItems, t
<1>4. dbCache' \in CachedAfterSet([k \in S |-> NewInfo(k)])
    BY <1>0 DEF SetItems, t
<1>5. dbCache' \in [Keys -> StoredRecord]
    <2>1. [k \in S |-> NewInfo(k)] \in [S -> VersionInfo(Content)]
        BY <1>0, <1>2, NodesClosed
    <2> QED BY <1>0, <1>4, <2>1, CachedAfterSetType
<1> HIDE DEF NewInfo
<1>6. ASSUME NEW n \in Nodes
      PROVE  [t[n] EXCEPT !.versions = NewVersion(@, NewInfo(n))] \in Node
    <2>1. t[n] \in Node BY <1>1 DEF Tree
    <2>2. t[n].versions \in Seq(VersionInfo(Content)) BY <2>1 DEF Node, Versions
    <2>3. NewVersion(t[n].versions, NewInfo(n)) \in Versions
        BY <1>2, <2>2, NewVersionType DEF Versions
    <2> QED BY <2>1, <2>3, WithVersions
<1>7. root' \in [Nodes -> Node] BY <1>1, <1>3, <1>6 DEF Tree
<1>8. lastSaveRoot' \in Tree BY SavedTreeType DEF SetItems
<1>9. journal' \in SUBSET Nodes BY <1>0, PathsNodes DEF SetItems, TypeOK
<1> QED BY <1>5, <1>7, <1>8, <1>9 DEF SetItems, TypeOK, Tree, StoredRecord

\* Reset takes the last saved tree.
LEMMA ResetType ==
    ASSUME TypeOK, Reset PROVE TypeOK'
BY DEF Reset, TypeOK, NoVersion

\* What a batch stores in the records and in the parents' records.
LEMMA StoredType ==
    ASSUME TypeOK, NEW t \in Tree, NEW saved
    PROVE  /\ Stored(saved, t) \in [Nodes -> StoredRecord]
           /\ StoredEntries(saved, t) \in [Nodes -> Versions]
<1>1. \A n \in Nodes : t[n] \in Node /\ t[n].versions \in Versions
    BY DEF Tree, Node
<1>2. db \in [Nodes -> StoredRecord] /\ dbChild \in [Nodes -> Versions]
    BY DEF TypeOK, StoredRecord
<1>3. \A n \in Nodes : [found |-> TRUE, versions |-> t[n].versions] \in StoredRecord
    BY <1>1 DEF StoredRecord
<1> QED BY <1>1, <1>2, <1>3 DEF Stored, StoredEntries, ToStorage

\* The leaves of a tree can be cached.
LEMMA LeavesCached ==
    ASSUME TypeOK, NEW t \in Tree, NEW leaves \in SUBSET Keys,
           NEW c \in CacheAdd(leaves, t)
    PROVE  c \in [Keys -> StoredRecord]
<1>1. \A k \in leaves : t[k].versions \in Versions
    BY NodesClosed DEF Tree, Node
<1> QED BY <1>1, CacheAddType

Interrupted == [op : {"none", "commit", "rollback"}, version : Nat,
                edits : SUBSET (Keys \X Value)]

\* What is remembered of an interrupted call.
LEMMA InterruptionType ==
    ASSUME NEW op \in {"commit", "rollback"}, NEW v \in Nat,
           NEW edits \in SUBSET (Keys \X Value)
    PROVE  Interruption(op, v, edits) \in Interrupted
BY DEF Interruption, Interrupted, Nothing

LEMMA PendingEditsType ==
    ASSUME TypeOK PROVE PendingEdits \in SUBSET (Keys \X Value)
<1>1. \A k \in Keys : Root(root[k]) \in Content
    BY RootType, NodesClosed DEF TypeOK
<1> QED BY <1>1 DEF Content, PendingEdits

\* CommitWithNewVersion.
LEMMA CommitType ==
    ASSUME TypeOK, NEW recent \in NoVersion .. MaxVersion, NEW newVer \in Nat,
           NEW release \in Nat, NEW late,
           CommitWithNewVersion(recent, newVer, release, late)
    PROVE  TypeOK'
<1> DEFINE t == Pruned(recent, journal)
           u == Pruned(recent, journal \ late)
<1>1. t \in Tree /\ u \in Tree BY PrunedType
<1> HIDE DEF t, u
<1>2. db' = Stored(journal, t) /\ dbChild' = StoredEntries(journal, u)
    BY DEF CommitWithNewVersion, t, u
<1>3. db' \in [Nodes -> StoredRecord] /\ dbChild' \in [Nodes -> Versions]
    BY <1>1, <1>2, StoredType
<1>4. dbCache' \in [Keys -> StoredRecord]
    BY <1>1, LeavesCached DEF CommitWithNewVersion, t
<1>5. root' \in Tree BY <1>1, ReleasedType DEF CommitWithNewVersion, t
<1>6. lastSaveRoot' \in Tree BY <1>5 DEF CommitWithNewVersion
<1>7. recent = NoVersion \/ recent \in Nat BY SMTAssumption DEF NoVersion
<1>8. recentVersion' \in Nat /\ dbRecent' \in Nat \cup {NoVersion}
    BY <1>7 DEF CommitWithNewVersion, TypeOK
<1>9. /\ journal' = {} /\ version' = newVer /\ dbVersion' = newVer
      /\ asked' = NoVersion /\ rollbackFailed' = rollbackFailed
      /\ interrupted' = Nothing
    BY DEF CommitWithNewVersion
<1> QED BY <1>3, <1>4, <1>5, <1>6, <1>8, <1>9 DEF TypeOK, Tree, StoredRecord, Nothing

\* The same call when a write fails.
LEMMA CommitFailsType ==
    ASSUME TypeOK, NEW recent \in NoVersion .. MaxVersion, NEW newVer \in Nat,
           NEW visited, NEW written, NEW late,
           CommitFails(recent, newVer, visited, written, late)
    PROVE  TypeOK'
<1> DEFINE t == Pruned(recent, visited)
           u == Pruned(recent, visited \ late)
<1>1. t \in Tree /\ u \in Tree BY PrunedType
<1> HIDE DEF t, u
<1>2. root' = t /\ db' = Stored(written, t) /\ dbChild' = StoredEntries(written, u)
    BY DEF CommitFails, t, u
<1>3. db' \in [Nodes -> StoredRecord] /\ dbChild' \in [Nodes -> Versions]
    BY <1>1, <1>2, StoredType
<1>4. dbCache' \in [Keys -> StoredRecord]
    <2>1. PICK last : dbCache' \in CacheAdd((visited \cap Keys) \ last, t)
        BY DEF CommitFails, t
    <2>2. (visited \cap Keys) \ last \in SUBSET Keys OBVIOUS
    <2> QED BY <1>1, <2>1, <2>2, LeavesCached
<1>5. recent = NoVersion \/ recent \in Nat BY SMTAssumption DEF NoVersion
<1>6. asked' \in Nat \cup {NoVersion} BY <1>5 DEF CommitFails, TypeOK
<1>7. interrupted' \in Interrupted
    <2>1. \/ interrupted' = interrupted
          \/ interrupted' = Interruption("commit", newVer, PendingEdits)
        BY DEF CommitFails
    <2>2. interrupted \in Interrupted BY DEF TypeOK, Interrupted
    <2> QED BY <2>1, <2>2, PendingEditsType, InterruptionType
<1>8. UNCHANGED <<version, recentVersion, lastSaveRoot, journal, dbVersion, dbRecent,
                  rollbackFailed>>
    BY DEF CommitFails
<1> QED BY <1>1, <1>2, <1>3, <1>4, <1>6, <1>7, <1>8
        DEF TypeOK, Tree, StoredRecord, Interrupted

\* The same call when all is stored and an error is returned.
LEMMA CommitUnansweredType ==
    ASSUME TypeOK, NEW recent \in NoVersion .. MaxVersion, NEW newVer \in Nat, NEW late,
           CommitUnanswered(recent, newVer, late)
    PROVE  TypeOK'
<1> DEFINE t == Pruned(recent, journal)
           u == Pruned(recent, journal \ late)
<1>1. t \in Tree /\ u \in Tree BY PrunedType
<1> HIDE DEF t, u
<1>2. root' = t /\ db' = Stored(journal, t) /\ dbChild' = StoredEntries(journal, u)
    BY DEF CommitUnanswered, t, u
<1>3. db' \in [Nodes -> StoredRecord] /\ dbChild' \in [Nodes -> Versions]
    BY <1>1, <1>2, StoredType
<1>4. dbCache' \in [Keys -> StoredRecord]
    BY <1>1, LeavesCached DEF CommitUnanswered, t
<1>5. recent = NoVersion \/ recent \in Nat BY SMTAssumption DEF NoVersion
<1>6. asked' \in Nat \cup {NoVersion} /\ dbRecent' \in Nat \cup {NoVersion}
    BY <1>5 DEF CommitUnanswered, TypeOK
<1>7. interrupted' \in Interrupted
    BY PendingEditsType, InterruptionType DEF CommitUnanswered
<1>8. /\ dbVersion' = newVer
      /\ UNCHANGED <<version, recentVersion, lastSaveRoot, journal, rollbackFailed>>
    BY DEF CommitUnanswered
<1> QED BY <1>1, <1>2, <1>3, <1>4, <1>6, <1>7, <1>8
        DEF TypeOK, Tree, StoredRecord, Interrupted

\* Rollback.
LEMMA RollbackType ==
    ASSUME TypeOK, NEW target \in Nat, Rollback(target) PROVE TypeOK'
<1> DEFINE dropping == Dropping(target)
           t == RolledBack(target, dropping)
<1>1. t \in Tree BY RolledBackType
<1> HIDE DEF t, dropping
<1>2. /\ root' = t /\ lastSaveRoot' = t
      /\ db' = Stored(dropping, t) /\ dbChild' = StoredEntries(dropping, t)
    BY DEF Rollback, t, dropping
<1>3. db' \in [Nodes -> StoredRecord] /\ dbChild' \in [Nodes -> Versions]
    BY <1>1, <1>2, StoredType
<1>4. dbCache' \in [Keys -> StoredRecord]
    BY <1>1, RecachedType DEF Rollback, t, dropping
<1>5. /\ journal' = {} /\ version' = target /\ dbVersion' = target
      /\ asked' = NoVersion /\ rollbackFailed' = FALSE /\ interrupted' = Nothing
      /\ recentVersion' = recentVersion /\ dbRecent' = dbRecent
    BY DEF Rollback
<1> QED BY <1>1, <1>2, <1>3, <1>4, <1>5 DEF TypeOK, Tree, StoredRecord, Nothing

\* The same call when a write fails.
LEMMA RollbackFailsType ==
    ASSUME TypeOK, NEW target \in Nat, NEW written, RollbackFails(target, written)
    PROVE  TypeOK'
<1> DEFINE dropping == Dropping(target)
           t == RolledBack(target, dropping)
<1>1. t \in Tree BY RolledBackType
<1> HIDE DEF t, dropping
<1>2. /\ root' = t /\ lastSaveRoot' = t
      /\ db' = Stored(written, t) /\ dbChild' = StoredEntries(written, t)
    BY DEF RollbackFails, t, dropping
<1>3. db' \in [Nodes -> StoredRecord] /\ dbChild' \in [Nodes -> Versions]
    BY <1>1, <1>2, StoredType
<1>4. dbCache' \in [Keys -> StoredRecord]
    BY <1>1, RecachedType DEF RollbackFails, t, dropping
<1>5. interrupted' \in Interrupted
    <2>1. interrupted' = interrupted \/ interrupted' = Interruption("rollback", target, {})
        BY DEF RollbackFails
    <2>2. interrupted \in Interrupted BY DEF TypeOK, Interrupted
    <2> QED BY <2>1, <2>2, InterruptionType
<1>6. /\ journal' = {} /\ asked' = NoVersion /\ rollbackFailed' = TRUE
      /\ UNCHANGED <<version, recentVersion, dbVersion, dbRecent>>
    BY DEF RollbackFails
<1> QED BY <1>1, <1>2, <1>3, <1>4, <1>5, <1>6
        DEF TypeOK, Tree, StoredRecord, Interrupted

\* The same call when all is stored and an error is returned.
LEMMA RollbackUnansweredType ==
    ASSUME TypeOK, NEW target \in Nat, RollbackUnanswered(target)
    PROVE  TypeOK'
<1> DEFINE dropping == Dropping(target)
           t == RolledBack(target, dropping)
<1>1. t \in Tree BY RolledBackType
<1> HIDE DEF t, dropping
<1>2. /\ root' = t /\ lastSaveRoot' = t
      /\ db' = Stored(dropping, t) /\ dbChild' = StoredEntries(dropping, t)
    BY DEF RollbackUnanswered, t, dropping
<1>3. db' \in [Nodes -> StoredRecord] /\ dbChild' \in [Nodes -> Versions]
    BY <1>1, <1>2, StoredType
<1>4. dbCache' \in [Keys -> StoredRecord]
    BY <1>1, RecachedType DEF RollbackUnanswered, t, dropping
<1>5. interrupted' \in Interrupted BY InterruptionType DEF RollbackUnanswered
<1>6. /\ journal' = {} /\ asked' = NoVersion /\ rollbackFailed' = TRUE
      /\ dbVersion' = target
      /\ UNCHANGED <<version, recentVersion, dbRecent>>
    BY DEF RollbackUnanswered
<1> QED BY <1>1, <1>2, <1>3, <1>4, <1>5, <1>6
        DEF TypeOK, Tree, StoredRecord, Interrupted

\* A restart.
LEMMA ReopenType ==
    ASSUME TypeOK, Reopen PROVE TypeOK'
<1>1. root' \in Tree /\ lastSaveRoot' \in Tree BY ReopenedTreeType DEF Reopen
<1>2. version' \in Nat /\ recentVersion' \in Nat
    BY SMTAssumption DEF Reopen, ReopenedVersion, ReopenedRecent, TypeOK
<1>3. dbCache' \in [Keys -> StoredRecord]
    BY DEF Reopen, StoredRecord, Versions
<1>4. interrupted' \in Interrupted
    BY DEF Reopen, TypeOK, Interrupted, Nothing
<1>5. /\ journal' = {} /\ asked' \in {asked, NoVersion} /\ rollbackFailed' = FALSE
      /\ UNCHANGED <<db, dbChild, dbVersion, dbRecent>>
    BY DEF Reopen
<1> QED BY <1>1, <1>2, <1>3, <1>4, <1>5 DEF TypeOK, Tree, StoredRecord, Interrupted

\* Every step keeps the types.
LEMMA NextType == TypeOK /\ [Next]_vars => TypeOK'
<1> SUFFICES ASSUME TypeOK, [Next]_vars PROVE TypeOK' OBVIOUS
<1>0. /\ \A v \in Bounded : v \in Nat
      /\ \A v \in 0 .. MaxVersion : v \in Nat
    BY SMTAssumption DEF Bounded
<1>1. ASSUME NEW k \in Keys, NEW v \in 0 .. MaxVersion, Get(k, v) PROVE TypeOK'
    BY <1>1, GetType
<1>2. ASSUME NEW k \in Keys, GetProof(k) PROVE TypeOK' BY <1>2, GetProofType
<1>3. ASSUME NEW k \in Keys, NEW val \in Value, NEW v \in Bounded,
             SetWithVersion(k, val, v)
      PROVE  TypeOK'
    <2>1. Item(k, val) \in [{k} -> Value] /\ {k} \in (SUBSET Keys) \ {{}} BY DEF Item
    <2>2. SetItems(Item(k, val), v) BY <1>3 DEF SetWithVersion
    <2> QED BY <1>0, <2>1, <2>2, SetItemsType
<1>4. ASSUME NEW S \in (SUBSET Keys) \ {{}}, NEW items \in [S -> Value],
             NEW v \in Bounded, MultiSetWithVersion(items, v)
      PROVE  TypeOK'
    BY <1>0, <1>4, SetItemsType DEF MultiSetWithVersion
<1>5. ASSUME NEW recent \in NoVersion .. MaxVersion, NEW v \in Bounded,
             NEW release \in 0 .. MaxVersion, NEW late,
             CommitWithNewVersion(recent, v, release, late)
      PROVE  TypeOK'
    BY <1>0, <1>5, CommitType
<1>6. ASSUME NEW recent \in NoVersion .. MaxVersion, NEW v \in Bounded,
             NEW visited, NEW written, NEW late,
             CommitFails(recent, v, visited, written, late)
      PROVE  TypeOK'
    BY <1>0, <1>6, CommitFailsType
<1>7. ASSUME Reset PROVE TypeOK' BY <1>7, ResetType
<1>8. ASSUME NEW target \in 0 .. MaxVersion, Rollback(target) PROVE TypeOK'
    BY <1>0, <1>8, RollbackType
<1>9. ASSUME NEW target \in 0 .. MaxVersion, NEW written, RollbackFails(target, written)
      PROVE  TypeOK'
    BY <1>0, <1>9, RollbackFailsType
<1>10. ASSUME Reopen PROVE TypeOK' BY <1>10, ReopenType
<1>11. ASSUME UNCHANGED vars PROVE TypeOK' BY <1>11 DEF vars, TypeOK
<1>12. ASSUME NEW recent \in NoVersion .. MaxVersion, NEW v \in Bounded, NEW late,
              CommitUnanswered(recent, v, late)
       PROVE  TypeOK'
    BY <1>0, <1>12, CommitUnansweredType
<1>13. ASSUME NEW target \in 0 .. MaxVersion, RollbackUnanswered(target) PROVE TypeOK'
    BY <1>0, <1>13, RollbackUnansweredType
<1> QED
    BY <1>1, <1>2, <1>3, <1>4, <1>5, <1>6, <1>7, <1>8, <1>9, <1>10, <1>11, <1>12, <1>13
    DEF Next, CallWrittenInPart, CallUnanswered, CallGet, CallGetProof, CallSet, CallMultiSet,
        CallReset, CallCommit, CallCommitFails, CallCommitUnanswered, CallRollback,
        CallRollbackFails, CallRollbackUnanswered

\* The variables of the tree keep their types, whatever fails.
THEOREM TypeCorrect == Spec => []TypeOK
<1>1. Init => TypeOK BY InitType
<1>2. TypeOK /\ [Next]_vars => TypeOK' BY NextType
<1> QED BY <1>1, <1>2, PTL DEF Spec

----------------------------------------------------------------------------
(* The readable range.                                                     *)

\* What the readable range needs of the departures: a redis pipeline that was
\* executed was executed to its last command, and the client sees it through.
SeenThrough ==
    "unanswered" \in Departures =>
        "lostRecent" \notin Departures /\ "noRedo" \notin Departures

\* RangeSurvivesRestart alone is not inductive: initFromStorage ignores a
\* stored recentVersion as long as there is no stored latest version, so none
\* may be there when the first commit writes one; and what the database is
\* ahead of memory by is known by the call that is to be redone.
RangeInv ==
    /\ RangeSurvivesRestart
    /\ dbVersion = NoVersion => dbRecent = NoVersion
    /\ asked # NoVersion => asked >= recentVersion
    /\ interrupted.op = "rollback" => asked = NoVersion
    /\ "noRedo" \in Departures => interrupted = Nothing

\* One step keeps the range and its copy in the database in step.
LEMMA NextRange ==
    ASSUME SeenThrough PROVE TypeOK /\ RangeInv /\ [Next]_vars => RangeInv'
<1> SUFFICES ASSUME TypeOK, RangeInv, [Next]_vars
             PROVE  RangeInv'
    OBVIOUS
<1> USE DEF RangeInv, RangeSurvivesRestart, IsDone, ReopenedVersion, ReopenedRecent, NoVersion
<1>0. /\ version \in Nat /\ recentVersion \in Nat /\ InitVersion \in Nat
      /\ dbVersion \in Nat \cup {-1} /\ dbRecent \in Nat \cup {-1}
      /\ asked \in Nat \cup {-1}
    BY SMTAssumption DEF TypeOK
<1>1. ASSUME UNCHANGED <<version, recentVersion, dbVersion, dbRecent, asked, interrupted>>
      PROVE  RangeInv'
    BY <1>1
<1>2. ASSUME NEW recent \in NoVersion .. MaxVersion, NEW v \in Bounded,
             NEW release \in 0 .. MaxVersion, NEW late, RecentChoice(recent),
             CommitWithNewVersion(recent, v, release, late)
      PROVE  RangeInv'
    <2>1. v \in Nat BY SMTAssumption DEF Bounded
    <2>2. recent = NoVersion \/ recent \in Nat BY SMTAssumption
    <2>3. /\ version' = v /\ dbVersion' = v /\ asked' = NoVersion
          /\ interrupted' = Nothing
          /\ recentVersion' = IF recent = NoVersion THEN recentVersion ELSE recent
          /\ dbRecent' = IF recent = NoVersion THEN dbRecent ELSE recent
          /\ recent # NoVersion => v > recent
          /\ recent = NoVersion => v > version /\ asked = NoVersion
        BY <1>2 DEF CommitWithNewVersion, CommitAccepted, RecentChoice
    <2>4. CASE recent = NoVersion BY <1>0, <2>1, <2>3, <2>4 DEF Nothing
    <2>5. CASE recent \in Nat BY <1>0, <2>1, <2>3, <2>5 DEF Nothing
    <2> QED BY <2>2, <2>4, <2>5
<1>3. ASSUME NEW target \in 0 .. MaxVersion, RollbackChoice(target), Rollback(target)
      PROVE  RangeInv'
    <2>1. /\ version' = target /\ dbVersion' = target /\ asked' = NoVersion
          /\ interrupted' = Nothing /\ UNCHANGED <<recentVersion, dbRecent>>
          /\ recentVersion <= target /\ target <= version /\ target \in Nat
        BY <1>3 DEF Rollback, RollbackAccepted
    <2>2. recentVersion = ReopenedRecent BY <1>0, <1>3 DEF RollbackChoice
    <2> QED BY <1>0, <2>1, <2>2 DEF Nothing
<1>4. ASSUME Reopen PROVE RangeInv' BY <1>0, <1>4 DEF Reopen, Nothing
<1>5. CASE UNCHANGED vars BY <1>1, <1>5 DEF vars
<1>6. ASSUME NEW k \in Keys, NEW v, Get(k, v) PROVE RangeInv'
    BY <1>1, <1>6 DEF Get
<1>7. ASSUME NEW k \in Keys, GetProof(k) PROVE RangeInv'
    BY <1>1, <1>7 DEF GetProof
<1>8. ASSUME NEW items, NEW v, SetItems(items, v) PROVE RangeInv'
    BY <1>1, <1>8 DEF SetItems
<1>9. ASSUME NEW recent, NEW v, NEW visited, NEW written, NEW late,
             BlockVersion(v), RecentChoice(recent),
             CommitFails(recent, v, visited, written, late)
      PROVE  RangeInv'
    <2>1. /\ UNCHANGED <<version, recentVersion, dbVersion, dbRecent>>
          /\ asked' = IF recent = NoVersion THEN asked ELSE recent
          /\ \/ interrupted' = interrupted
             \/ interrupted' = Interruption("commit", v, PendingEdits)
        BY <1>9 DEF CommitFails
    <2>2. \/ interrupted' = interrupted
          \/ interrupted' = Nothing /\ "noRedo" \in Departures
          \/ /\ interrupted'.op = "commit" /\ interrupted'.version = v
             /\ interrupted' # Nothing /\ "noRedo" \notin Departures
        BY <2>1 DEF Interruption, Nothing
    <2>3. CASE interrupted = Nothing
        <3>1. interrupted'.op # "rollback" /\ ("noRedo" \in Departures => interrupted' = Nothing)
            BY <2>2, <2>3 DEF Nothing
        <3>2. recent # NoVersion => recent >= recentVersion BY <1>9 DEF RecentChoice
        <3> QED BY <1>0, <2>1, <2>3, <3>1, <3>2
    <2>4. CASE interrupted # Nothing
        <3>1. interrupted.op = "commit" /\ v = interrupted.version /\ recent = asked
            BY <1>9, <2>4 DEF BlockVersion, RecentChoice
        <3>2. asked' = asked BY <2>1, <3>1
        <3>3. interrupted'.op = "commit" /\ interrupted'.version = v /\ interrupted' # Nothing
              /\ "noRedo" \notin Departures
            BY <2>2, <2>4, <3>1
        <3> QED BY <1>0, <2>1, <2>4, <3>1, <3>2, <3>3
    <2> QED BY <2>3, <2>4
<1>10. ASSUME Reset PROVE RangeInv'
    <2>1. /\ UNCHANGED <<version, recentVersion, dbVersion, dbRecent, interrupted>>
          /\ asked' = IF interrupted = Nothing THEN NoVersion ELSE asked
        BY <1>10 DEF Reset
    <2> QED BY <1>0, <2>1 DEF Nothing
<1>11. ASSUME NEW target, NEW written, RollbackChoice(target), RollbackFails(target, written)
       PROVE  RangeInv'
    <2>1. /\ UNCHANGED <<version, recentVersion, dbVersion, dbRecent>>
          /\ asked' = NoVersion
          /\ \/ interrupted' = interrupted
             \/ interrupted' = Interruption("rollback", target, {})
        BY <1>11 DEF RollbackFails
    <2>2. interrupted # Nothing => interrupted.op = "rollback" /\ target = interrupted.version
        BY <1>11 DEF RollbackChoice
    <2> QED BY <1>0, <2>1, <2>2 DEF Interruption, Nothing
<1>12. ASSUME NEW recent \in NoVersion .. MaxVersion, NEW v \in Bounded, NEW late,
              RecentChoice(recent), BlockVersion(v), CommitUnanswered(recent, v, late)
       PROVE  RangeInv'
    <2>1. v \in Nat BY SMTAssumption DEF Bounded
    <2>2. recent = NoVersion \/ recent \in Nat BY SMTAssumption
    <2>3. /\ UNCHANGED <<version, recentVersion>> /\ dbVersion' = v
          /\ asked' = IF recent = NoVersion THEN asked ELSE recent
          /\ dbRecent' = IF recent = NoVersion THEN dbRecent ELSE recent
          /\ recent # NoVersion => v > recent /\ recent >= recentVersion
          /\ recent = NoVersion => v > version /\ asked = NoVersion
        BY <1>12 DEF CommitUnanswered, CommitAccepted, RecentChoice, SeenThrough
    <2>4. /\ "noRedo" \notin Departures
          /\ interrupted' = [op |-> "commit", version |-> v, edits |-> PendingEdits]
        BY <1>12 DEF CommitUnanswered, Interruption, SeenThrough
    <2>5. interrupted'.op = "commit" /\ interrupted'.version = v /\ interrupted' # Nothing
        BY <2>4 DEF Nothing
    <2>6. CASE recent = NoVersion BY <1>0, <2>1, <2>3, <2>4, <2>5, <2>6
    <2>7. CASE recent \in Nat BY <1>0, <2>1, <2>3, <2>4, <2>5, <2>7
    <2> QED BY <2>2, <2>6, <2>7
<1>13. ASSUME NEW target \in 0 .. MaxVersion, RollbackChoice(target), RollbackUnanswered(target)
       PROVE  RangeInv'
    <2>1. /\ UNCHANGED <<version, recentVersion, dbRecent>> /\ dbVersion' = target
          /\ asked' = NoVersion /\ target \in Nat
          /\ recentVersion <= target /\ target <= version
        BY <1>13 DEF RollbackUnanswered, RollbackAccepted
    <2>2. /\ "noRedo" \notin Departures
          /\ interrupted' = [op |-> "rollback", version |-> target, edits |-> {}]
        BY <1>13 DEF RollbackUnanswered, Interruption, SeenThrough
    <2>3. interrupted'.version = target /\ interrupted' # Nothing BY <2>2 DEF Nothing
    <2>4. recentVersion = ReopenedRecent BY <1>0, <1>13 DEF RollbackChoice
    <2> QED BY <1>0, <2>1, <2>2, <2>3, <2>4
<1> QED
    BY <1>2, <1>3, <1>4, <1>5, <1>6, <1>7, <1>8, <1>9, <1>10, <1>11, <1>12, <1>13
    DEF Next, CallWrittenInPart, CallUnanswered, CallGet, CallGetProof, CallSet, CallMultiSet,
        SetWithVersion, MultiSetWithVersion, CallReset, CallCommit, CallCommitFails,
        CallCommitUnanswered, CallRollback, CallRollbackFails, CallRollbackUnanswered

\* The range of readable versions is never empty, and after any sequence of
\* operations, writes that fail with nothing, some or all of the batch stored
\* included, a restart reads back the range in memory or the one the call
\* whose write failed was to leave, both ends of it.
THEOREM RangeSurvives ==
    ASSUME SeenThrough PROVE Spec => []RangeSurvivesRestart
<1>1. Init => RangeInv
    BY SMTAssumption
    DEF Init, RangeInv, RangeSurvivesRestart, ReopenedVersion, ReopenedRecent, Nothing, NoVersion
<1>2. TypeOK /\ RangeInv /\ [Next]_vars => RangeInv'
    BY NextRange
<1>3. RangeInv => RangeSurvivesRestart BY DEF RangeInv
<1> QED BY <1>1, <1>2, <1>3, TypeCorrect, PTL DEF Spec
============================================================================
