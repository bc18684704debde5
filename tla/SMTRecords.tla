----------------------------- MODULE SMTRecords -----------------------------
(***************************************************************************)
(* What the tree promises about its records, its nodes in memory and its   *)
(* cache, for any set of keys of one length, any number of versions and    *)
(* any cache size: with writes that fail, also in the middle of a batch    *)
(* that is written in parts or after all of it was stored, and a client    *)
(* that reopens the tree when Rollback failed and sees an interrupted call *)
(* through.                                                                *)
(***************************************************************************)
EXTENDS SMTProofs

\* Every batch is one Write that stores all or fails and stores nothing, and
\* Rollback is not called again after it failed.
WholeBatches ==
    /\ "splits" \notin Departures /\ "unanswered" \notin Departures
    /\ "retryRollback" \notin Departures

\* Batches may be written in parts, and an error may be returned though all was
\* stored, but the client does a call of which something was stored again, or
\* finds after a restart that it was done; a rollback in any case after the
\* tree was reopened. (Runs smt_split_crash and smt_retried_rollback show what
\* happens otherwise.)
RedoneCalls ==
    /\ SeenThrough
    /\ "retryRollback" \notin Departures
    /\ "splits" \in Departures => "noRedo" \notin Departures

----------------------------------------------------------------------------
(* Version lists: the versions of a list, and a list that Prune has cut.   *)

Vers(vs) == {vs[i].ver : i \in 1 .. Len(vs)}

\* The list has no version above m.
Upto(vs, m) == \A v \in Vers(vs) : v <= m

\* Every version of vs above r is a version of us.
Covered(vs, us, r) == \A v \in Vers(vs) : v > r => v \in Vers(us)

\* The lists read alike in the versions from lo on and below hi.
SameReads(us, vs, lo, hi) ==
    \A v \in Int : v >= lo /\ v < hi => HashAt(us, v, NilHash) = HashAt(vs, v, NilHash)

\* From version b on the list reads h.
ReadsFrom(us, b, h) == \A v \in Int : v >= b => HashAt(us, v, NilHash) = h

\* us is what pruning versions not above r may have left of vs.
KeptFrom(us, vs, r) ==
    \/ us = vs
    \/ \E s \in 1 .. Len(vs) : us = SubSeq(vs, s, Len(vs)) /\ vs[s].ver <= r

\* Versions are natural numbers.
LEMMA VersNat ==
    ASSUME NEW vs \in Versions PROVE Vers(vs) \subseteq Nat
BY EntryType DEF Vers, Versions

\* Only the empty list has no versions.
LEMMA VersEmpty ==
    ASSUME NEW vs \in Versions PROVE vs = <<>> <=> Vers(vs) = {}
<1>1. vs \in Seq(VersionInfo(Content)) BY DEF Versions
<1>2. CASE vs = <<>>
    <2>1. 1 .. Len(vs) = {} BY <1>1, <1>2
    <2> QED BY <1>2, <2>1 DEF Vers
<1>3. CASE vs # <<>>
    <2>1. 1 \in 1 .. Len(vs) BY <1>1, <1>3
    <2> QED BY <1>3, <2>1 DEF Vers
<1> QED BY <1>2, <1>3

\* Nothing that is read at r or above is lost, and nothing is added.
LEMMA KeptReads ==
    ASSUME NEW vs \in Versions, Sorted(vs), NEW us, NEW r \in Int, KeptFrom(us, vs, r)
    PROVE  /\ us \in Versions /\ Sorted(us)
           /\ Vers(us) \subseteq Vers(vs)
           /\ \A v \in Vers(vs) : v > r => v \in Vers(us)
           /\ \A v \in Int : v >= r => HashAt(us, v, NilHash) = HashAt(vs, v, NilHash)
<1>1. CASE us = vs BY <1>1
<1>2. ASSUME NEW s \in 1 .. Len(vs), us = SubSeq(vs, s, Len(vs)), vs[s].ver <= r
      PROVE  /\ us \in Versions /\ Sorted(us)
             /\ Vers(us) \subseteq Vers(vs)
             /\ \A v \in Vers(vs) : v > r => v \in Vers(us)
             /\ \A v \in Int : v >= r => HashAt(us, v, NilHash) = HashAt(vs, v, NilHash)
    <2>1. vs \in Seq(VersionInfo(Content)) /\ Len(vs) \in Nat BY DEF Versions
    <2>2. us \in Versions BY <1>2, <2>1 DEF Versions
    <2>3. Sorted(us) BY <1>2, <2>1, SuffixSorted
    <2>4. /\ Len(us) = Len(vs) - s + 1
          /\ \A i \in 1 .. Len(us) : us[i] = vs[s + i - 1]
        BY <1>2, <2>1
    <2>5. Vers(us) \subseteq Vers(vs)
        <3> SUFFICES ASSUME NEW i \in 1 .. Len(us) PROVE us[i].ver \in Vers(vs)
            BY DEF Vers
        <3>1. s + i - 1 \in 1 .. Len(vs) BY <2>1, <2>4
        <3> QED BY <3>1, <2>4 DEF Vers
    <2>6. ASSUME NEW i \in 1 .. Len(vs), vs[i].ver > r PROVE vs[i].ver \in Vers(us)
        <3>1. vs[i].ver \in Nat /\ vs[s].ver \in Nat BY <2>1, EntryType
        <3>2. ~(i < s) BY <3>1, <2>6, <1>2 DEF Sorted
        <3>3. i - s + 1 \in 1 .. Len(us) /\ s + (i - s + 1) - 1 = i BY <3>2, <2>1, <2>4
        <3>4. us[i - s + 1] = vs[i] BY <3>3, <2>4
        <3> QED BY <3>3, <3>4 DEF Vers
    <2>7. ASSUME NEW v \in Int, v >= r
          PROVE  HashAt(us, v, NilHash) = HashAt(vs, v, NilHash)
        <3>1. vs[s].ver \in Nat BY <2>1, EntryType
        <3>2. vs[s].ver <= v BY <3>1, <2>7, <1>2
        <3> QED BY <1>2, <2>1, <3>2, SuffixHashAt
    <2>8. \A v \in Vers(vs) : v > r => v \in Vers(us) BY <2>6 DEF Vers
    <2> QED BY <2>2, <2>3, <2>5, <2>7, <2>8
<1> QED BY <1>1, <1>2 DEF KeptFrom

\* Pruning twice is pruning.
LEMMA KeptTwice ==
    ASSUME NEW vs \in Versions, NEW us, NEW ws, NEW a \in Int, NEW r \in Int, a <= r,
           KeptFrom(us, vs, a), KeptFrom(ws, us, r)
    PROVE  KeptFrom(ws, vs, r)
<1>1. vs \in Seq(VersionInfo(Content)) /\ Len(vs) \in Nat BY DEF Versions
<1>2. CASE us = vs BY <1>2
<1>3. ASSUME NEW s \in 1 .. Len(vs), us = SubSeq(vs, s, Len(vs)), vs[s].ver <= a
      PROVE  KeptFrom(ws, vs, r)
    <2>1. vs[s].ver \in Nat BY <1>1, EntryType
    <2>2. CASE ws = us BY <1>3, <2>1, <2>2 DEF KeptFrom
    <2>3. ASSUME NEW q \in 1 .. Len(us), ws = SubSeq(us, q, Len(us)), us[q].ver <= r
          PROVE  KeptFrom(ws, vs, r)
        <3>1. Len(us) = Len(vs) - s + 1 /\ us[q] = vs[s + q - 1]
            BY <1>1, <1>3
        <3>2. s + q - 1 \in 1 .. Len(vs) BY <1>1, <3>1
        <3>3. us \in Seq(VersionInfo(Content)) BY <1>1, <1>3
        <3>4. SubSeq(us, q, Len(us)) = SubSeq(vs, s + q - 1, Len(vs))
            BY <1>1, <1>3, <3>1, <3>2
        <3> QED BY <2>3, <3>1, <3>2, <3>4 DEF KeptFrom
    <2> QED BY <2>2, <2>3 DEF KeptFrom
<1> QED BY <1>2, <1>3 DEF KeptFrom

\* Prune with a version below the newest entry keeps that entry.
LEMMA PruneAppend ==
    ASSUME NEW vs \in Versions, NEW info \in VersionInfo(Content), NEW r \in Int,
           r < info.ver
    PROVE  \E us : Prune(Append(vs, info), r) = Append(us, info) /\ KeptFrom(us, vs, r)
<1> DEFINE ws == Append(vs, info)
<1>1. vs \in Seq(VersionInfo(Content)) /\ Len(vs) \in Nat /\ info.ver \in Nat
    BY DEF Versions, VersionInfo
<1>2. /\ ws \in Seq(VersionInfo(Content)) /\ ws # <<>> /\ Len(ws) = Len(vs) + 1
      /\ ws[Len(vs) + 1] = info /\ \A i \in 1 .. Len(vs) : ws[i] = vs[i]
    BY <1>1
<1>3. PICK s \in 1 .. Len(ws) : /\ Prune(ws, r) = SubSeq(ws, s, Len(ws))
                                /\ s = 1 \/ ws[s].ver <= r
    BY <1>2, PruneSuffix
<1>4. CASE s = 1
    <2>1. Prune(ws, r) = ws BY <1>2, <1>3, <1>4
    <2> QED BY <2>1 DEF KeptFrom
<1>5. CASE s # 1
    <2>1. s # Len(vs) + 1 BY <1>1, <1>2, <1>3, <1>5
    <2>2. s \in 1 .. Len(vs) BY <2>1, <1>1, <1>2
    <2>3. SubSeq(ws, s, Len(ws)) = Append(SubSeq(vs, s, Len(vs)), info)
        BY <1>1, <1>2, <2>2
    <2>4. vs[s].ver <= r BY <1>2, <1>3, <1>5, <2>2
    <2> QED BY <1>3, <2>2, <2>3, <2>4 DEF KeptFrom
<1> QED BY <1>4, <1>5

\* A newer entry answers from its version on, and changes nothing below.
LEMMA AppendReads ==
    ASSUME NEW us \in Versions, Sorted(us), NEW b \in Nat, NEW h \in Content,
           NEW m \in Nat, Upto(us, m), m < b
    PROVE  /\ Append(us, Info(b, h)) \in Versions /\ Sorted(Append(us, Info(b, h)))
           /\ Vers(Append(us, Info(b, h))) = Vers(us) \cup {b}
           /\ LatestHash(Append(us, Info(b, h)), NilHash) = h
           /\ LatestVersion(Append(us, Info(b, h))) = b
           /\ \A v \in Int : v < b =>
                  HashAt(Append(us, Info(b, h)), v, NilHash) = HashAt(us, v, NilHash)
           /\ \A v \in Int : v >= b => HashAt(Append(us, Info(b, h)), v, NilHash) = h
<1> DEFINE info == Info(b, h)
           ws == Append(us, info)
<1>1. us \in Seq(VersionInfo(Content)) /\ Len(us) \in Nat BY DEF Versions
<1>2. info \in VersionInfo(Content) /\ info.ver = b /\ info.hash = h
    BY DEF Info, VersionInfo
<1> HIDE DEF info
<1>3. /\ ws \in Seq(VersionInfo(Content)) /\ ws # <<>> /\ Len(ws) = Len(us) + 1
      /\ ws[Len(us) + 1] = info /\ \A i \in 1 .. Len(us) : ws[i] = us[i]
    BY <1>1, <1>2
<1>l. Len(us) \in Nat /\ Len(ws) = Len(us) + 1 BY <1>1, <1>3
<1>e. ws[Len(us) + 1] = info /\ \A i \in 1 .. Len(us) : ws[i] = us[i] BY <1>3
<1>4. ASSUME NEW i \in 1 .. Len(us) PROVE us[i].ver < info.ver
    <2>1. us[i].ver <= m BY DEF Upto, Vers
    <2>2. us[i].ver \in Nat BY <1>1, EntryType
    <2> QED BY <2>1, <2>2, <1>2
<1>5. /\ Sorted(ws)
      /\ \A v \in Int : v < info.ver => HashAt(ws, v, NilHash) = HashAt(us, v, NilHash)
    BY <1>1, <1>2, <1>4, AppendKeepsReads
<1> HIDE DEF ws
<1>6. LatestHash(ws, NilHash) = h /\ LatestVersion(ws) = b
    BY <1>2, <1>3 DEF LatestHash, LatestVersion
<1>7. Vers(ws) = Vers(us) \cup {b}
    <2>1. ASSUME NEW i \in 1 .. Len(ws) PROVE ws[i].ver \in Vers(us) \cup {b}
        <3>1. CASE i \in 1 .. Len(us) BY <3>1, <1>e DEF Vers
        <3>2. CASE i = Len(us) + 1 BY <3>2, <1>2, <1>e
        <3> QED BY <3>1, <3>2, <1>l
    <2>2. ASSUME NEW i \in 1 .. Len(us) PROVE us[i].ver \in Vers(ws)
        <3>1. i \in 1 .. Len(ws) /\ ws[i] = us[i] BY <1>l, <1>e
        <3> QED BY <3>1 DEF Vers
    <2>3. b \in Vers(ws)
        <3>1. Len(us) + 1 \in 1 .. Len(ws) BY <1>l
        <3> QED BY <3>1, <1>2, <1>e DEF Vers
    <2>4. Vers(ws) \subseteq Vers(us) \cup {b} BY <2>1 DEF Vers
    <2>5. Vers(us) \subseteq Vers(ws) BY <2>2 DEF Vers
    <2> QED BY <2>3, <2>4, <2>5
<1>8. ASSUME NEW v \in Int, v >= b PROVE HashAt(ws, v, NilHash) = h
    <2>1. ASSUME NEW i \in 1 .. Len(ws) PROVE ws[i].ver <= v
        <3>1. CASE i \in 1 .. Len(us)
            <4>1. us[i].ver \in Nat BY <1>1, <3>1, EntryType
            <4> QED BY <3>1, <4>1, <1>2, <1>e, <1>4, <1>8
        <3>2. CASE i = Len(us) + 1 BY <3>2, <1>2, <1>e, <1>8
        <3> QED BY <3>1, <3>2, <1>l
    <2>2. HashAt(ws, v, NilHash) = LatestHash(ws, NilHash)
        BY <1>3, <1>5, <2>1, LatestIsVisible
    <2> QED BY <2>2, <1>6
<1> QED BY <1>2, <1>3, <1>5, <1>6, <1>7, <1>8 DEF ws, info, Versions

\* The first write of a block to a node.
LEMMA NewVersionAppends ==
    ASSUME NEW us \in Versions, NEW b \in Nat, NEW h, NEW m \in Nat, Upto(us, m), m < b
    PROVE  NewVersion(us, Info(b, h)) = Append(us, Info(b, h))
<1>1. us \in Seq(VersionInfo(Content)) /\ Len(us) \in Nat BY DEF Versions
<1>2. CASE us = <<>> BY <1>2 DEF NewVersion
<1>3. CASE us # <<>>
    <2>1. Len(us) \in 1 .. Len(us) BY <1>1, <1>3
    <2>2. us[Len(us)].ver <= m BY <2>1 DEF Vers, Upto
    <2>3. us[Len(us)].ver \in Nat BY <2>1, <1>1, EntryType
    <2>4. us[Len(us)].ver # b BY <2>2, <2>3
    <2> QED BY <2>4 DEF NewVersion, Info
<1> QED BY <1>2, <1>3

\* A later write of the block to it.
LEMMA NewVersionReplaces ==
    ASSUME NEW us \in Versions, NEW b \in Nat, NEW h \in Content, NEW g \in Content
    PROVE  NewVersion(Append(us, Info(b, h)), Info(b, g)) = Append(us, Info(b, g))
<1> DEFINE x == Info(b, h)
           y == Info(b, g)
           ws == Append(us, x)
<1>1. us \in Seq(VersionInfo(Content)) /\ Len(us) \in Nat BY DEF Versions
<1>2. x \in VersionInfo(Content) /\ y \in VersionInfo(Content) /\ x.ver = b /\ y.ver = b
    BY DEF Info, VersionInfo
<1> HIDE DEF x, y
<1>3. ws # <<>> /\ ws[Len(ws)] = x BY <1>1, <1>2
<1>4. [ws EXCEPT ![Len(ws)] = y] = Append(us, y) BY <1>1, <1>2, OverwriteLast
<1> HIDE DEF ws
<1>5. NewVersion(ws, y) = [ws EXCEPT ![Len(ws)] = y] BY <1>2, <1>3 DEF NewVersion
<1> QED BY <1>4, <1>5 DEF ws, x, y

\* A read above every entry finds the newest one.
LEMMA ReadsLatest ==
    ASSUME NEW vs \in Versions, Sorted(vs), NEW v \in Int, Upto(vs, v)
    PROVE  HashAt(vs, v, NilHash) = LatestHash(vs, NilHash)
<1>1. vs \in Seq(VersionInfo(Content)) BY DEF Versions
<1>2. \A i \in 1 .. Len(vs) : vs[i].ver <= v BY DEF Vers, Upto
<1> QED BY <1>1, <1>2, LatestIsVisible

\* Rollback keeps exactly the entries up to the target, and all of a list that
\* has no other.
LEMMA RollbackReads ==
    ASSUME NEW vs \in Versions, Sorted(vs), NEW t \in Nat
    PROVE  /\ NodeRollback(vs, t) \in Versions /\ Sorted(NodeRollback(vs, t))
           /\ Vers(NodeRollback(vs, t)) = {v \in Vers(vs) : v <= t}
           /\ DropsAny(vs, t) <=> \E v \in Vers(vs) : v > t
           /\ ~DropsAny(vs, t) => NodeRollback(vs, t) = vs
           /\ \A v \in Int : v <= t =>
                  HashAt(NodeRollback(vs, t), v, NilHash) = HashAt(vs, v, NilHash)
<1> DEFINE K == VisibleIndex(vs, t)
           us == NodeRollback(vs, t)
<1>0. t \in Int OBVIOUS
<1>1. vs \in Seq(VersionInfo(Content)) /\ Len(vs) \in Nat BY DEF Versions
<1>2. /\ K \in 0 .. Len(vs)
      /\ K = 0 \/ vs[K].ver <= t
      /\ \A j \in (K + 1) .. Len(vs) : vs[j].ver > t
    BY <1>0, <1>1, VisibleIndexSpec
<1>3. /\ us \in Seq(VersionInfo(Content)) /\ Sorted(us)
      /\ \A v \in Int : v <= t => HashAt(us, v, NilHash) = HashAt(vs, v, NilHash)
      /\ \A i \in 1 .. Len(us) : us[i].ver <= t
    BY <1>0, <1>1, NodeRollbackType, RollbackKeepsReads
<1>4. us = SubSeq(vs, 1, K) /\ (DropsAny(vs, t) <=> K < Len(vs))
    BY DEF NodeRollback, DropsAny
<1> HIDE DEF K, us
<1>5. Len(us) = K /\ \A i \in 1 .. K : us[i] = vs[i] BY <1>1, <1>2, <1>4
<1>t. \A i \in 1 .. Len(vs) : vs[i].ver \in Nat BY <1>1, EntryType
<1>6. ASSUME NEW i \in 1 .. Len(vs), vs[i].ver <= t PROVE vs[i].ver \in Vers(us)
    <2>1. ~(i \in (K + 1) .. Len(vs)) BY <1>2, <1>6, <1>t
    <2>2. i \in 1 .. K BY <2>1, <1>1, <1>2
    <2> QED BY <2>2, <1>5 DEF Vers
<1>7. ASSUME NEW i \in 1 .. Len(us) PROVE us[i].ver \in {v \in Vers(vs) : v <= t}
    <2>1. i \in 1 .. Len(vs) /\ us[i] = vs[i] BY <1>1, <1>2, <1>5
    <2> QED BY <2>1, <1>3 DEF Vers
<1>8. Vers(us) = {v \in Vers(vs) : v <= t}
    <2>1. Vers(us) \subseteq {v \in Vers(vs) : v <= t} BY <1>7 DEF Vers
    <2>2. {v \in Vers(vs) : v <= t} \subseteq Vers(us) BY <1>6 DEF Vers
    <2> QED BY <2>1, <2>2
<1>9. K < Len(vs) => \E v \in Vers(vs) : v > t
    <2> SUFFICES ASSUME K < Len(vs) PROVE \E v \in Vers(vs) : v > t OBVIOUS
    <2>1. Len(vs) \in 1 .. Len(vs) /\ Len(vs) \in (K + 1) .. Len(vs) BY <1>1, <1>2
    <2> QED BY <2>1, <1>2 DEF Vers
<1>10. ~(K < Len(vs)) => us = vs BY <1>1, <1>2, <1>4
<1>11. us = vs => \A v \in Vers(vs) : ~(v > t) BY <1>8, <1>t, VersNat
<1> QED BY <1>3, <1>4, <1>8, <1>9, <1>10, <1>11 DEF us, Versions

----------------------------------------------------------------------------
(* Geometry: the path to a node is the path to its parent and the node.    *)

\* Paths start at the root, end at the node and contain the paths of the
\* nodes on them.
LEMMA PathFacts ==
    /\ Path[RootNode] = {RootNode}
    /\ \A n \in Nodes : RootNode \in Path[n] /\ n \in Path[n]
    /\ \A n \in Nodes : \A a \in Path[n] : Path[a] \subseteq Path[n]
    /\ \A n \in Nodes \ {RootNode} :
          /\ Path[n] = Path[Parent[n]] \cup {n}
          /\ n \notin Path[Parent[n]]
<1>1. ASSUME NEW n \in Nodes
      PROVE  /\ n \in Seq(0 .. 15) /\ Len(n) \in Nat
             /\ Path[n] = {SubSeq(n, 1, i) : i \in 0 .. Len(n)}
    BY NodesClosed DEF Prefixes
<1>2. Path[RootNode] = {RootNode}
    <2>1. RootNode \in Nodes BY NodesClosed
    <2>2. \A i \in 0 .. Len(RootNode) : SubSeq(RootNode, 1, i) = RootNode
        BY DEF RootNode
    <2>3. 0 \in 0 .. Len(RootNode) BY DEF RootNode
    <2> QED BY <1>1, <2>1, <2>2, <2>3
<1>3. ASSUME NEW n \in Nodes PROVE RootNode \in Path[n] /\ n \in Path[n]
    <2>1. SubSeq(n, 1, 0) = RootNode /\ SubSeq(n, 1, Len(n)) = n
        BY <1>1 DEF RootNode
    <2>2. 0 \in 0 .. Len(n) /\ Len(n) \in 0 .. Len(n) BY <1>1
    <2> QED BY <1>1, <2>1, <2>2
<1>4. ASSUME NEW n \in Nodes, NEW a \in Path[n] PROVE Path[a] \subseteq Path[n]
    <2>1. PICK i \in 0 .. Len(n) : a = SubSeq(n, 1, i) BY <1>1
    <2>2. a \in Nodes BY NodesClosed
    <2>3. Len(a) = i BY <1>1, <2>1
    <2>4. ASSUME NEW j \in 0 .. Len(a) PROVE SubSeq(a, 1, j) \in Path[n]
        <3>1. SubSeq(a, 1, j) = SubSeq(n, 1, j) /\ j \in 0 .. Len(n)
            BY <1>1, <2>1, <2>3
        <3> QED BY <1>1, <3>1
    <2> QED BY <1>1, <2>2, <2>4
<1>5. ASSUME NEW n \in Nodes \ {RootNode}
      PROVE  /\ Path[n] = Path[Parent[n]] \cup {n}
             /\ n \notin Path[Parent[n]]
    <2> DEFINE p == Parent[n]
    <2>1. /\ n \in Seq(0 .. 15) /\ Len(n) \in Nat /\ Len(n) # 0
        BY <1>1 DEF RootNode
    <2>2. p = SubSeq(n, 1, Len(n) - 1) /\ p \in Nodes BY NodesClosed DEF Parent
    <2> HIDE DEF p
    <2>3. Len(p) = Len(n) - 1
        <3>1. \A j \in 0 .. Len(n) : Len(SubSeq(n, 1, j)) = j BY <2>1
        <3>2. Len(n) - 1 \in 0 .. Len(n) BY <2>1
        <3> QED BY <2>2, <3>1, <3>2
    <2>a. Path[n] = {SubSeq(n, 1, i) : i \in 0 .. Len(n)} BY <1>1
    <2>4. p \in Path[n]
        <3>1. Len(n) - 1 \in 0 .. Len(n) BY <2>1
        <3> QED BY <2>a, <2>2, <3>1
    <2>5. Path[p] \subseteq Path[n] BY <1>4, <2>4
    <2>6. ASSUME NEW i \in 0 .. Len(n), i # Len(n) PROVE SubSeq(n, 1, i) \in Path[p]
        <3>1. i \in 0 .. Len(p) BY <2>1, <2>3, <2>6
        <3>2. SubSeq(p, 1, i) = SubSeq(n, 1, i) BY <2>1, <2>2, <2>3, <3>1
        <3>3. p \in Nodes BY <2>2
        <3>4. Path[p] = {SubSeq(p, 1, j) : j \in 0 .. Len(p)} BY <1>1, <3>3
        <3> QED BY <3>1, <3>2, <3>4
    <2>7. SubSeq(n, 1, Len(n)) = n BY <2>1
    <2>8. Path[n] \subseteq Path[p] \cup {n} BY <2>a, <2>6, <2>7
    <2>9. n \notin Path[p]
        <3>0. Path[p] = {SubSeq(p, 1, j) : j \in 0 .. Len(p)} BY <1>1, <2>2
        <3> SUFFICES ASSUME NEW i \in 0 .. Len(p), n = SubSeq(p, 1, i) PROVE FALSE
            BY <3>0
        <3>1. Len(SubSeq(p, 1, i)) = i
            <4>1. p \in Seq(0 .. 15) BY <1>1, <2>2
            <4> QED BY <4>1
        <3> QED BY <2>1, <2>3, <3>1
    <2> QED BY <1>3, <2>5, <2>8, <2>9 DEF p
<1> QED BY <1>2, <1>3, <1>4, <1>5

\* The paths of some keys, as SetWithVersion walks them.
LEMMA PathsFacts ==
    ASSUME NEW S \in SUBSET Keys
    PROVE  /\ \A n \in Paths[S] : n \in Nodes /\ Path[n] \subseteq Paths[S]
           /\ S \subseteq Paths[S]
           /\ \A k \in Keys : k \in Paths[S] => k \in S
           /\ \A n \in Nodes : n \in Paths[S] <=> \E k \in S : n \in Path[k]
           /\ S # {} => RootNode \in Paths[S]
<1>1. Paths[S] = UNION {Path[k] : k \in S} /\ Paths[S] \subseteq Nodes
    BY PathsNodes
<1>2. \A k \in S : k \in Nodes BY NodesClosed
<1>3. ASSUME NEW k \in Keys, k \in Paths[S] PROVE k \in S
    <2>1. PICK j \in S : k \in Path[j] BY <1>1, <1>3
    <2>2. k \in Seq(0 .. 15) /\ j \in Seq(0 .. 15) /\ Len(k) = Len(j)
        BY SMTAssumption
    <2>3. PICK i \in 0 .. Len(j) : k = SubSeq(j, 1, i)
        BY <1>2, <2>1, NodesClosed DEF Prefixes
    <2>4. i = Len(j) BY <2>2, <2>3
    <2>5. k = j BY <2>2, <2>3, <2>4
    <2> QED BY <2>5
<1> QED BY <1>1, <1>2, <1>3, PathFacts

----------------------------------------------------------------------------
(* The records d, and dc, the entries of the nodes in their parents'       *)
(* records. rv is the oldest retained version, ver the latest one.         *)

\* What node n commits to when the leaves hold c.
Below(c, n) == [k \in Keys |-> IF n \in Path[k] THEN c[k] ELSE Nil]

\* The map the leaf records hold for version v (Snapshot for any records).
Contents(d, v) == [k \in Keys |-> HashAt(d[k].versions, v, NilHash)[k]]

\* Both lists are empty, or they have the same newest hash.
Alike(vs, us) ==
    /\ vs = <<>> <=> us = <<>>
    /\ LatestHash(vs, NilHash) = LatestHash(us, NilHash)

\* A parent's record lists a child with the newest hash of the child's own
\* record. (The rest may differ: a child may be pruned after its parent was
\* stored.)
Linked(d, dc) ==
    \A n \in Nodes :
        /\ ~d[n].found => d[n].versions = <<>>
        /\ n # RootNode => Alike(dc[n], d[n].versions) /\ (d[n].found => d[Parent[n]].found)

Ordered(d, rv, ver) ==
    \A n \in Nodes :
        /\ Sorted(d[n].versions) /\ Upto(d[n].versions, ver)
        /\ n # RootNode => Covered(d[n].versions, d[Parent[n]].versions, rv)

\* Every record has in every retained version the hash of the leaves below.
Hashed(d, rv) ==
    \A n \in Nodes, v \in Nat :
        v >= rv => HashAt(d[n].versions, v, NilHash) = Below(Contents(d, v), n)

\* The same, in the versions up to m.
HashedTo(d, rv, m) ==
    \A n \in Nodes, v \in Nat :
        v >= rv /\ v <= m => HashAt(d[n].versions, v, NilHash) = Below(Contents(d, v), n)

Records == [Nodes -> StoredRecord]

\* The nodes of J are closed under parents.
Closed(J) == J \subseteq Nodes /\ \A n \in J : Path[n] \subseteq J

\* The list vs of a node edited in block b, over the stored list: it was
\* pruned up to r at most, and has h as its newest hash.
Pending(vs, stored, r, b, h) ==
    \E us : KeptFrom(us, stored, r) /\ vs = Append(us, Info(b, h))

\* e are the records d after a commit of the nodes J as version b.
Committed(e, d, J, W, rv, b) ==
    \A n \in Nodes :
        IF n \in J
        THEN e[n].found /\ Pending(e[n].versions, d[n].versions, rv, b, Below(W, n))
        ELSE e[n] = d[n]

\* The part of a content below a node is a content.
LEMMA BelowType ==
    ASSUME NEW c \in Content, NEW n PROVE Below(c, n) \in Content
BY DEF Below, Content, Value

\* The root commits to everything.
LEMMA BelowRoot ==
    ASSUME NEW c \in Content PROVE Below(c, RootNode) = c
BY PathFacts, NodesClosed DEF Below, Content

\* A read of a list of entries finds a content.
LEMMA HashAtType ==
    ASSUME NEW vs \in Versions, NEW v \in Int
    PROVE  HashAt(vs, v, NilHash) \in Content
<1>1. vs \in Seq(VersionInfo(Content)) BY DEF Versions
<1>2. VisibleIndex(vs, v) \in 0 .. Len(vs) BY <1>1, VisibleIndexSpec
<1>3. NilHash \in Content BY DEF NilHash, Content, Value
<1>4. CASE VisibleIndex(vs, v) = 0 BY <1>3, <1>4 DEF HashAt
<1>5. CASE VisibleIndex(vs, v) # 0
    <2>1. VisibleIndex(vs, v) \in 1 .. Len(vs) BY <1>1, <1>2, <1>5
    <2>2. vs[VisibleIndex(vs, v)].hash \in Content BY <1>1, <2>1, EntryType
    <2> QED BY <1>5, <2>2 DEF HashAt
<1> QED BY <1>4, <1>5

\* The leaf records hold a content for every version.
LEMMA ContentsType ==
    ASSUME NEW d \in Records, NEW v \in Int PROVE Contents(d, v) \in Content
<1>1. ASSUME NEW k \in Keys PROVE HashAt(d[k].versions, v, NilHash)[k] \in Value
    <2>1. d[k].versions \in Versions BY NodesClosed DEF Records, StoredRecord
    <2>2. HashAt(d[k].versions, v, NilHash) \in Content BY <2>1, HashAtType
    <2> QED BY <2>2 DEF Content
<1> QED BY <1>1 DEF Contents, Content

\* What an edited node's list is worth.
LEMMA PendingReads ==
    ASSUME NEW vs, NEW stored \in Versions, NEW r \in Int, NEW b \in Nat,
           NEW h \in Content, NEW ver \in Nat, ver < b,
           Sorted(stored), Upto(stored, ver), Pending(vs, stored, r, b, h)
    PROVE  /\ vs \in Versions /\ Sorted(vs) /\ Upto(vs, b) /\ vs # <<>>
           /\ b \in Vers(vs) /\ Vers(vs) \subseteq Vers(stored) \cup {b}
           /\ \A v \in Vers(stored) : v > r => v \in Vers(vs)
           /\ LatestHash(vs, NilHash) = h /\ LatestVersion(vs) = b
           /\ \A v \in Int : v >= r /\ v < b =>
                  HashAt(vs, v, NilHash) = HashAt(stored, v, NilHash)
           /\ \A v \in Int : v >= b => HashAt(vs, v, NilHash) = h
<1>1. PICK us : KeptFrom(us, stored, r) /\ vs = Append(us, Info(b, h))
    BY DEF Pending
<1>2. /\ us \in Versions /\ Sorted(us) /\ Vers(us) \subseteq Vers(stored)
      /\ \A v \in Vers(stored) : v > r => v \in Vers(us)
      /\ \A v \in Int : v >= r => HashAt(us, v, NilHash) = HashAt(stored, v, NilHash)
    BY <1>1, KeptReads
<1>3. Upto(us, ver) BY <1>2 DEF Upto
<1>4. /\ vs \in Versions /\ Sorted(vs) /\ Vers(vs) = Vers(us) \cup {b}
      /\ LatestHash(vs, NilHash) = h /\ LatestVersion(vs) = b
      /\ \A v \in Int : v < b => HashAt(vs, v, NilHash) = HashAt(us, v, NilHash)
      /\ \A v \in Int : v >= b => HashAt(vs, v, NilHash) = h
    BY <1>1, <1>2, <1>3, AppendReads
<1>5. Upto(vs, b)
    <2>1. Vers(us) \subseteq Nat BY <1>2, VersNat
    <2>2. ASSUME NEW v \in Vers(us) PROVE v <= b
        <3>1. v <= ver /\ v \in Nat BY <1>3, <2>1 DEF Upto
        <3> QED BY <3>1
    <2> QED BY <1>4, <2>2 DEF Upto
<1>6. vs # <<>> BY <1>4, VersEmpty
<1> QED BY <1>2, <1>4, <1>5, <1>6

\* What a commit makes of one record.
LEMMA CommittedReads ==
    ASSUME NEW d \in Records, NEW e, NEW J, NEW W \in Content, NEW rv \in Nat,
           NEW b \in Nat, NEW ver \in Nat, ver < b, NEW old \in Nat,
           Ordered(d, old, ver), Committed(e, d, J, W, rv, b), NEW n \in Nodes
    PROVE  /\ e[n].versions \in Versions /\ Sorted(e[n].versions) /\ Upto(e[n].versions, b)
           /\ Vers(e[n].versions) \subseteq Vers(d[n].versions) \cup {b}
           /\ n \in J => b \in Vers(e[n].versions)
           /\ n \notin J => Vers(e[n].versions) = Vers(d[n].versions)
           /\ Covered(d[n].versions, e[n].versions, rv)
           /\ SameReads(e[n].versions, d[n].versions, rv, b)
           /\ n \in J => ReadsFrom(e[n].versions, b, Below(W, n))
           /\ n \notin J => ReadsFrom(e[n].versions, b, HashAt(d[n].versions, ver, NilHash))
<1> DEFINE vs == d[n].versions
           us == e[n].versions
<1>1. vs \in Versions BY DEF Records, StoredRecord
<1>2. Sorted(vs) /\ Upto(vs, ver) BY DEF Ordered
<1>3. Below(W, n) \in Content BY BelowType
<1>4. rv \in Int OBVIOUS
<1>5. CASE n \in J
    <2>1. Pending(us, vs, rv, b, Below(W, n)) BY <1>5 DEF Committed
    <2> HIDE DEF us, vs
    <2>2. /\ us \in Versions /\ Sorted(us) /\ Upto(us, b) /\ us # <<>>
          /\ b \in Vers(us) /\ Vers(us) \subseteq Vers(vs) \cup {b}
          /\ \A v \in Vers(vs) : v > rv => v \in Vers(us)
          /\ \A v \in Int : v >= rv /\ v < b =>
                 HashAt(us, v, NilHash) = HashAt(vs, v, NilHash)
          /\ \A v \in Int : v >= b => HashAt(us, v, NilHash) = Below(W, n)
        BY <1>1, <1>2, <1>3, <1>4, <2>1, PendingReads
    <2>3. Covered(vs, us, rv) /\ SameReads(us, vs, rv, b) /\ ReadsFrom(us, b, Below(W, n))
        BY <2>2 DEF Covered, SameReads, ReadsFrom
    <2> QED BY <1>5, <2>2, <2>3 DEF us, vs
<1>6. CASE n \notin J
    <2>1. us = vs BY <1>6 DEF Committed
    <2>2. Upto(vs, b)
        <3>1. \A v \in Vers(vs) : v \in Nat BY <1>1, VersNat
        <3>2. ASSUME NEW v \in Vers(vs) PROVE v <= b
            <4>1. v \in Nat /\ v <= ver BY <1>2, <3>1 DEF Upto
            <4> QED BY <4>1
        <3> QED BY <3>2 DEF Upto
    <2>3. ASSUME NEW v \in Int, v >= b
          PROVE  HashAt(vs, v, NilHash) = HashAt(vs, ver, NilHash)
        <3>1. \A u \in Vers(vs) : u \in Nat BY <1>1, VersNat
        <3>2. ASSUME NEW u \in Vers(vs) PROVE u <= v
            <4>1. u \in Nat /\ u <= ver BY <1>2, <3>1 DEF Upto
            <4> QED BY <2>3, <4>1
        <3>3. Upto(vs, v) BY <3>2 DEF Upto
        <3>4. ver \in Int OBVIOUS
        <3> QED BY <1>1, <1>2, <3>3, <3>4, ReadsLatest
    <2> HIDE DEF us, vs
    <2>4. ReadsFrom(vs, b, HashAt(vs, ver, NilHash)) BY <2>3 DEF ReadsFrom
    <2>5. Covered(vs, vs, rv) /\ SameReads(vs, vs, rv, b) BY DEF Covered, SameReads
    <2> QED BY <1>1, <1>2, <1>6, <2>1, <2>2, <2>4, <2>5 DEF us, vs
<1> QED BY <1>5, <1>6

\* After a commit too, whatever changed a node has changed its parent.
LEMMA CommitOrdered ==
    ASSUME NEW d \in Records, NEW e, NEW J, Closed(J), NEW W \in Content, NEW rv \in Nat,
           NEW b \in Nat, NEW ver \in Nat, ver < b, NEW old \in Nat, old <= rv,
           Ordered(d, old, ver), Committed(e, d, J, W, rv, b)
    PROVE  Ordered(e, rv, b)
<1>0. ASSUME NEW n \in Nodes
      PROVE  /\ Vers(e[n].versions) \subseteq Vers(d[n].versions) \cup {b}
             /\ n \notin J => Vers(e[n].versions) = Vers(d[n].versions)
             /\ n \in J => b \in Vers(e[n].versions)
             /\ Covered(d[n].versions, e[n].versions, rv)
    <2>1. Vers(e[n].versions) \subseteq Vers(d[n].versions) \cup {b} BY CommittedReads
    <2>2. n \notin J => Vers(e[n].versions) = Vers(d[n].versions)
        BY DEF Committed
    <2>3. n \in J => b \in Vers(e[n].versions) BY CommittedReads
    <2>4. Covered(d[n].versions, e[n].versions, rv) BY CommittedReads
    <2> QED BY <2>1, <2>2, <2>3, <2>4
<1>1. ASSUME NEW n \in Nodes PROVE Sorted(e[n].versions) /\ Upto(e[n].versions, b)
    BY CommittedReads
<1>2. ASSUME NEW n \in Nodes \ {RootNode}
      PROVE  Covered(e[n].versions, e[Parent[n]].versions, rv)
    <2> DEFINE p == Parent[n]
    <2>1. p \in Nodes /\ n \in Nodes BY NodesClosed
    <2>2. n \in J => p \in J
        <3>1. p \in Path[n] BY <2>1, PathFacts
        <3> QED BY <3>1 DEF Closed
    <2>3. Covered(d[n].versions, d[p].versions, old) BY DEF Ordered
    <2>4. Vers(d[n].versions) \subseteq Nat
        <3>1. d[n].versions \in Versions BY DEF Records, StoredRecord
        <3> QED BY <3>1, VersNat
    <2> HIDE DEF p
    <2>5. /\ Vers(e[n].versions) \subseteq Vers(d[n].versions) \cup {b}
          /\ n \notin J => Vers(e[n].versions) = Vers(d[n].versions)
        BY <2>1, <1>0
    <2>6. /\ p \in J => b \in Vers(e[p].versions)
          /\ Covered(d[p].versions, e[p].versions, rv)
        BY <2>1, <1>0
    <2>7. ASSUME NEW v \in Vers(d[n].versions), v > rv PROVE v \in Vers(e[p].versions)
        <3>1. v \in Nat /\ v > old BY <2>4, <2>7
        <3>2. v \in Vers(d[p].versions) BY <2>3, <3>1 DEF Covered
        <3> QED BY <2>6, <2>7, <3>2 DEF Covered
    <2>8. ASSUME NEW v \in Vers(e[n].versions), v > rv PROVE v \in Vers(e[p].versions)
        <3>1. CASE v \in Vers(d[n].versions) BY <2>7, <2>8, <3>1
        <3>2. CASE n \in J /\ v = b BY <2>2, <2>6, <3>2
        <3> QED BY <2>5, <3>1, <3>2
    <2> QED BY <2>8 DEF Covered, p
<1> QED BY <1>1, <1>2 DEF Ordered

\* A leaf below a node that was not edited was not edited.
LEMMA ClosedLeaves ==
    ASSUME NEW J, Closed(J), NEW n \in Nodes, n \notin J, NEW k \in Keys, n \in Path[k]
    PROVE  k \notin J
BY DEF Closed

\* The map W is the one the records d hold for version ver, outside J.
Unedited(W, J, d, ver) == \A k \in Keys \ J : W[k] = Contents(d, ver)[k]

\* A commit adds the edited map as version b, changes no retained version,
\* and leaves every record with the hash of the leaves below it.
LEMMA CommitHashed ==
    ASSUME NEW d \in Records, NEW e, NEW J, Closed(J), NEW W \in Content, NEW rv \in Nat,
           NEW b \in Nat, NEW ver \in Nat, ver < b, NEW old \in Nat, old <= rv, old <= ver,
           Ordered(d, old, ver), Hashed(d, old), Committed(e, d, J, W, rv, b),
           Unedited(W, J, d, ver)
    PROVE  /\ Hashed(e, rv)
           /\ \A v \in Nat : v >= b => Contents(e, v) = W
           /\ \A v \in Nat : v >= rv /\ v < b => Contents(e, v) = Contents(d, v)
<1>0. ASSUME NEW n \in Nodes
      PROVE  /\ SameReads(e[n].versions, d[n].versions, rv, b)
             /\ n \in J => ReadsFrom(e[n].versions, b, Below(W, n))
             /\ n \notin J => ReadsFrom(e[n].versions, b, HashAt(d[n].versions, ver, NilHash))
    BY CommittedReads
<1>1. ASSUME NEW v \in Nat, v >= rv, v < b
      PROVE  /\ \A n \in Nodes :
                    HashAt(e[n].versions, v, NilHash) = HashAt(d[n].versions, v, NilHash)
             /\ Contents(e, v) = Contents(d, v)
    <2>1. v \in Int OBVIOUS
    <2>2. ASSUME NEW n \in Nodes
          PROVE  HashAt(e[n].versions, v, NilHash) = HashAt(d[n].versions, v, NilHash)
        BY <1>1, <2>1, <1>0 DEF SameReads
    <2> QED BY <2>2, NodesClosed DEF Contents
<1>2. ASSUME NEW v \in Nat, v >= b
      PROVE  /\ \A n \in Nodes : HashAt(e[n].versions, v, NilHash) = Below(W, n)
             /\ Contents(e, v) = W
    <2>1. v \in Int OBVIOUS
    <2>2. ASSUME NEW n \in Nodes
          PROVE  HashAt(e[n].versions, v, NilHash)
                     = IF n \in J THEN Below(W, n) ELSE HashAt(d[n].versions, ver, NilHash)
        BY <1>2, <2>1, <1>0 DEF ReadsFrom
    <2>3. ASSUME NEW n \in Nodes, n \notin J
          PROVE  HashAt(d[n].versions, ver, NilHash) = Below(W, n)
        <3>1. HashAt(d[n].versions, ver, NilHash) = Below(Contents(d, ver), n)
            BY DEF Hashed
        <3>2. \A k \in Keys : n \in Path[k] => W[k] = Contents(d, ver)[k]
            BY <2>3, ClosedLeaves DEF Unedited
        <3>3. Below(Contents(d, ver), n) = Below(W, n) BY <3>2 DEF Below
        <3> QED BY <3>1, <3>3
    <2>4. \A n \in Nodes : HashAt(e[n].versions, v, NilHash) = Below(W, n)
        BY <2>2, <2>3
    <2>5. ASSUME NEW k \in Keys PROVE HashAt(e[k].versions, v, NilHash)[k] = W[k]
        <3>1. k \in Nodes /\ k \in Path[k] BY NodesClosed, PathFacts
        <3> QED BY <2>4, <3>1 DEF Below
    <2>6. Contents(e, v) = W BY <2>5 DEF Contents, Content
    <2> QED BY <2>4, <2>6
<1>3. ASSUME NEW n \in Nodes, NEW v \in Nat, v >= rv
      PROVE  HashAt(e[n].versions, v, NilHash) = Below(Contents(e, v), n)
    <2>1. CASE v >= b BY <1>2, <2>1
    <2>2. CASE v < b
        <3>1. v >= old BY <1>3
        <3>2. HashAt(d[n].versions, v, NilHash) = Below(Contents(d, v), n)
            BY <3>1 DEF Hashed
        <3> QED BY <1>1, <1>3, <2>2, <3>2
    <2> QED BY <2>1, <2>2
<1> QED BY <1>1, <1>2, <1>3 DEF Hashed

\* e are the records d after a rollback to version t.
Undone(e, d, t) ==
    \A n \in Nodes :
        e[n].found = d[n].found /\ e[n].versions = NodeRollback(d[n].versions, t)

\* A rollback keeps the versions up to its target, in every record, and the
\* map of the target is what is read from there on.
LEMMA RollbackRecords ==
    ASSUME NEW d \in Records, NEW e, NEW t \in Nat, NEW rv \in Nat, NEW ver \in Nat,
           rv <= t, Ordered(d, rv, ver), HashedTo(d, rv, t), Undone(e, d, t)
    PROVE  /\ Ordered(e, rv, t) /\ Hashed(e, rv)
           /\ \A v \in Nat : v <= t => Contents(e, v) = Contents(d, v)
           /\ \A v \in Nat : v >= t => Contents(e, v) = Contents(d, t)
<1>1. ASSUME NEW n \in Nodes
      PROVE  /\ e[n].versions \in Versions /\ Sorted(e[n].versions)
             /\ Vers(e[n].versions) = {v \in Vers(d[n].versions) : v <= t}
             /\ \A v \in Int : v <= t =>
                    HashAt(e[n].versions, v, NilHash) = HashAt(d[n].versions, v, NilHash)
    <2>1. d[n].versions \in Versions /\ Sorted(d[n].versions)
        BY DEF Records, StoredRecord, Ordered
    <2>2. e[n].versions = NodeRollback(d[n].versions, t) BY DEF Undone
    <2> QED BY <2>1, <2>2, RollbackReads
<1>2. ASSUME NEW n \in Nodes PROVE Upto(e[n].versions, t) BY <1>1 DEF Upto
<1>3. ASSUME NEW n \in Nodes \ {RootNode}
      PROVE  Covered(e[n].versions, e[Parent[n]].versions, rv)
    <2> DEFINE p == Parent[n]
    <2>1. p \in Nodes BY NodesClosed
    <2>2. Covered(d[n].versions, d[p].versions, rv) BY DEF Ordered
    <2> HIDE DEF p
    <2>3. /\ Vers(e[n].versions) = {v \in Vers(d[n].versions) : v <= t}
          /\ Vers(e[p].versions) = {v \in Vers(d[p].versions) : v <= t}
        BY <1>1, <2>1
    <2> QED BY <2>2, <2>3 DEF Covered, p
<1>4. Ordered(e, rv, t) BY <1>1, <1>2, <1>3 DEF Ordered
<1>5. ASSUME NEW v \in Nat, v <= t PROVE Contents(e, v) = Contents(d, v)
    <2>1. v \in Int OBVIOUS
    <2> QED BY <1>1, <1>5, <2>1, NodesClosed DEF Contents
<1>6. ASSUME NEW v \in Nat, v >= t
      PROVE  /\ \A n \in Nodes :
                    HashAt(e[n].versions, v, NilHash) = HashAt(d[n].versions, t, NilHash)
             /\ Contents(e, v) = Contents(d, t)
    <2>1. v \in Int /\ t \in Int OBVIOUS
    <2>2. ASSUME NEW n \in Nodes
          PROVE  HashAt(e[n].versions, v, NilHash) = HashAt(d[n].versions, t, NilHash)
        <3> DEFINE us == e[n].versions
        <3>1. us \in Versions /\ Sorted(us) BY <1>1
        <3>2. Upto(us, t) BY <1>2
        <3>3. \A u \in Vers(us) : u \in Nat BY <3>1, VersNat
        <3>4. HashAt(us, t, NilHash) = HashAt(d[n].versions, t, NilHash)
            BY <1>1, <2>1
        <3> HIDE DEF us
        <3>5. ASSUME NEW u \in Vers(us) PROVE u <= v
            <4>1. u \in Nat /\ u <= t BY <3>2, <3>3 DEF Upto
            <4> QED BY <1>6, <4>1
        <3>6. Upto(us, v) BY <3>5 DEF Upto
        <3>7. HashAt(us, v, NilHash) = HashAt(us, t, NilHash)
            BY <2>1, <3>1, <3>2, <3>6, ReadsLatest
        <3> QED BY <3>4, <3>7 DEF us
    <2> QED BY <2>2, NodesClosed DEF Contents
<1>7. ASSUME NEW n \in Nodes, NEW v \in Nat, v >= rv
      PROVE  HashAt(e[n].versions, v, NilHash) = Below(Contents(e, v), n)
    <2>1. CASE v <= t
        <3>1. v \in Int OBVIOUS
        <3>2. HashAt(e[n].versions, v, NilHash) = HashAt(d[n].versions, v, NilHash)
            BY <1>1, <2>1, <3>1
        <3>3. HashAt(d[n].versions, v, NilHash) = Below(Contents(d, v), n)
            BY <1>7, <2>1 DEF HashedTo
        <3> QED BY <1>5, <2>1, <3>2, <3>3
    <2>2. CASE v >= t
        <3>1. HashAt(d[n].versions, t, NilHash) = Below(Contents(d, t), n)
            BY DEF HashedTo
        <3> QED BY <1>6, <2>2, <3>1
    <2> QED BY <2>1, <2>2
<1> QED BY <1>4, <1>5, <1>6, <1>7 DEF Hashed

----------------------------------------------------------------------------
(* Trees in memory over the records.                                       *)

\* The node is in its parent's Children array, or is the root.
Seen(t, n) == n = RootNode \/ Resident(t[Parent[n]])

\* One node of tree t over the records d; the nodes of J have been edited.
NodeMirrors(t, J, d, n) ==
    /\ t[n].state # "nil" => Seen(t, n)
    /\ t[n].state = "nil" => t[n].versions = <<>>
    /\ t[n].state = "temporary" => t[n].versions # <<>>
    /\ n \in J => Resident(t[n])
    /\ Seen(t, n) /\ n \notin J => Alike(t[n].versions, d[n].versions)
    /\ Resident(t[n]) /\ n \notin J => t[n].versions = d[n].versions

\* The tree shows the records, as far as it is loaded and not edited.
Mirrors(t, J, d) ==
    /\ Resident(t[RootNode])
    /\ \A n \in Nodes : NodeMirrors(t, J, d, n)

\* A record that does not exist has no versions, and only the children of a
\* stored node are stored.
Rooted(d) ==
    \A n \in Nodes :
        /\ ~d[n].found => d[n].versions = <<>>
        /\ n # RootNode => (d[n].found => d[Parent[n]].found)

\* Loading the nodes of S changes no node that is there, and gives the others
\* the list of their record, or what their parent's record says of them.
LEMMA ExtendShape ==
    ASSUME NEW t, NEW S \in SUBSET Nodes, NEW u, u = Extend(t, S),
           \A n \in Nodes : ~db[n].found => db[n].versions = <<>>
    PROVE  /\ \A n \in Nodes : Resident(t[n]) => u[n] = t[n]
           /\ \A n \in S : Resident(u[n]) /\ (~Resident(t[n]) => u[n].versions = db[n].versions)
           /\ \A n \in Nodes \ S : ~Resident(t[n]) =>
                  IF n # RootNode /\ Parent[n] \in S /\ ~Resident(t[Parent[n]])
                  THEN u[n] = IF db[Parent[n]].found THEN StoredChild(n) ELSE NilNode
                  ELSE u[n] = t[n]
           /\ \A n \in Nodes : Resident(u[n]) <=> Resident(t[n]) \/ n \in S
           /\ \A n \in Nodes : Seen(u, n) <=> Seen(t, n) \/ (n # RootNode /\ Parent[n] \in S)
<1>1. ASSUME NEW n \in Nodes, Resident(t[n]) PROVE u[n] = t[n]
    BY <1>1 DEF Extend
<1>2. ASSUME NEW n \in S, ~Resident(t[n])
      PROVE  Resident(u[n]) /\ u[n].versions = db[n].versions
    <2>1. n \in Nodes OBVIOUS
    <2>2. CASE db[n].found BY <1>2, <2>1, <2>2 DEF Extend, Resident
    <2>3. CASE ~db[n].found BY <1>2, <2>1, <2>3 DEF Extend, Resident, NewTreeNode
    <2> QED BY <2>2, <2>3
<1>3. ASSUME NEW n \in Nodes \ S, ~Resident(t[n])
      PROVE  IF n # RootNode /\ Parent[n] \in S /\ ~Resident(t[Parent[n]])
             THEN u[n] = IF db[Parent[n]].found THEN StoredChild(n) ELSE NilNode
             ELSE u[n] = t[n]
    BY <1>3 DEF Extend
<1>4. \A n \in Nodes : ~Resident(StoredChild(n)) /\ ~Resident(NilNode)
    BY DEF Resident, StoredChild, NilNode
<1>5. ASSUME NEW n \in Nodes PROVE Resident(u[n]) <=> Resident(t[n]) \/ n \in S
    <2>1. CASE n \in S BY <1>1, <1>2, <2>1
    <2>2. CASE n \notin S /\ ~Resident(t[n])
        <3>1. u[n] = StoredChild(n) \/ u[n] = NilNode \/ u[n] = t[n] BY <1>3, <2>2
        <3> QED BY <1>4, <2>2, <3>1
    <2> QED BY <1>1, <2>1, <2>2
<1>6. ASSUME NEW n \in Nodes
      PROVE  Seen(u, n) <=> Seen(t, n) \/ (n # RootNode /\ Parent[n] \in S)
    <2>1. n # RootNode => Parent[n] \in Nodes BY NodesClosed
    <2> QED BY <1>5, <2>1 DEF Seen
<1>7. \A n \in S : Resident(u[n]) /\ (~Resident(t[n]) => u[n].versions = db[n].versions)
    BY <1>2, <1>5
<1> QED BY <1>1, <1>3, <1>5, <1>6, <1>7

\* Loading nodes from the database changes no node that is there, and gives
\* the others what their records hold.
LEMMA ExtendMirrors ==
    ASSUME TypeOK, Linked(db, dbChild), NEW t \in Tree, NEW J, Mirrors(t, J, db),
           NEW S \in SUBSET Nodes,
           \A n \in S : Seen(t, n) \/ Parent[n] \in S
    PROVE  /\ Mirrors(Extend(t, S), J, db)
           /\ \A n \in S : Resident(Extend(t, S)[n])
           /\ \A n \in Nodes : Resident(t[n]) => Extend(t, S)[n] = t[n]
<1> DEFINE u == Extend(t, S)
<1>0. \A n \in Nodes : ~db[n].found => db[n].versions = <<>> BY DEF Linked
<1>s. /\ \A n \in Nodes : Resident(t[n]) => u[n] = t[n]
      /\ \A n \in S : Resident(u[n]) /\ (~Resident(t[n]) => u[n].versions = db[n].versions)
      /\ \A n \in Nodes \ S : ~Resident(t[n]) =>
             IF n # RootNode /\ Parent[n] \in S /\ ~Resident(t[Parent[n]])
             THEN u[n] = IF db[Parent[n]].found THEN StoredChild(n) ELSE NilNode
             ELSE u[n] = t[n]
      /\ \A n \in Nodes : Resident(u[n]) <=> Resident(t[n]) \/ n \in S
      /\ \A n \in Nodes : Seen(u, n) <=> Seen(t, n) \/ (n # RootNode /\ Parent[n] \in S)
    BY <1>0, ExtendShape
<1> HIDE DEF u
<1>1. ASSUME NEW n \in Nodes, Resident(t[n]) PROVE u[n] = t[n] BY <1>1, <1>s
<1>2. ASSUME NEW n \in S, ~Resident(t[n])
      PROVE  Resident(u[n]) /\ u[n].versions = db[n].versions
    BY <1>2, <1>s
<1>3. ASSUME NEW n \in Nodes \ S, ~Resident(t[n]), n # RootNode, Parent[n] \in S,
             ~Resident(t[Parent[n]])
      PROVE  /\ Alike(u[n].versions, db[n].versions)
             /\ \/ u[n].state = "nil" /\ u[n].versions = <<>>
                \/ u[n].state = "temporary" /\ u[n].versions # <<>>
    <2>1. u[n] = IF db[Parent[n]].found THEN StoredChild(n) ELSE NilNode
        BY <1>3, <1>s
    <2>2. /\ Alike(dbChild[n], db[n].versions)
          /\ ~db[n].found => db[n].versions = <<>>
          /\ db[n].found => db[Parent[n]].found
        BY <1>3 DEF Linked
    <2>3. db[n].found \in BOOLEAN BY DEF TypeOK
    <2>4. CASE db[Parent[n]].found BY <2>1, <2>2, <2>4 DEF StoredChild, NilNode, Alike
    <2>5. CASE ~db[Parent[n]].found BY <2>1, <2>2, <2>3, <2>5 DEF NilNode, Alike
    <2> QED BY <2>4, <2>5
<1>4. ASSUME NEW n \in Nodes \ S, ~Resident(t[n]),
             n = RootNode \/ Parent[n] \notin S \/ Resident(t[Parent[n]])
      PROVE  u[n] = t[n]
    BY <1>4, <1>s
<1>5. ASSUME NEW n \in Nodes PROVE Resident(u[n]) <=> Resident(t[n]) \/ n \in S
    BY <1>s
<1>6. ASSUME NEW n \in Nodes PROVE NodeMirrors(u, J, db, n)
    <2>1. NodeMirrors(t, J, db, n) BY DEF Mirrors
    <2>2. n # RootNode => Parent[n] \in Nodes BY NodesClosed
    <2>3. Seen(u, n) <=> Seen(t, n) \/ (n # RootNode /\ Parent[n] \in S)
        BY <1>5, <2>2 DEF Seen
    <2>4. CASE Resident(t[n])
        <3>1. u[n] = t[n] /\ Seen(t, n) BY <1>1, <2>1, <2>4 DEF NodeMirrors, Resident
        <3> QED BY <2>1, <2>3, <3>1 DEF NodeMirrors
    <2>5. CASE ~Resident(t[n]) /\ n \in S
        <3>1. Resident(u[n]) /\ u[n].versions = db[n].versions BY <1>2, <2>5
        <3>2. Seen(u, n) BY <2>3, <2>5 DEF Seen
        <3> QED BY <3>1, <3>2 DEF NodeMirrors, Resident, Alike
    <2>6. CASE ~Resident(t[n]) /\ n \notin S
        <3>0. n \notin J BY <2>1, <2>6 DEF NodeMirrors
        <3>1. CASE n # RootNode /\ Parent[n] \in S /\ ~Resident(t[Parent[n]])
            <4>1. Seen(u, n) BY <2>3, <3>1
            <4>2. /\ Alike(u[n].versions, db[n].versions)
                  /\ \/ u[n].state = "nil" /\ u[n].versions = <<>>
                     \/ u[n].state = "temporary" /\ u[n].versions # <<>>
                BY <1>3, <2>6, <3>1
            <4> QED BY <3>0, <4>1, <4>2 DEF NodeMirrors, Resident
        <3>2. CASE n = RootNode \/ Parent[n] \notin S \/ Resident(t[Parent[n]])
            <4>1. u[n] = t[n] BY <1>4, <2>6, <3>2
            <4>2. Seen(u, n) <=> Seen(t, n) BY <2>3, <3>2 DEF Seen
            <4> QED BY <2>1, <4>1, <4>2 DEF NodeMirrors, Resident
        <3> QED BY <3>1, <3>2
    <2> QED BY <2>4, <2>5, <2>6
<1>7. Resident(u[RootNode]) BY <1>5, NodesClosed DEF Mirrors
<1> QED BY <1>1, <1>5, <1>6, <1>7 DEF Mirrors, u

\* A node of a path is in memory, or its parent is on the path.
LEMMA SeenOrLoaded ==
    ASSUME NEW t, NEW S \in SUBSET Keys, NEW n \in Paths[S]
    PROVE  Seen(t, n) \/ Parent[n] \in Paths[S]
<1>1. n \in Nodes /\ Path[n] \subseteq Paths[S] BY PathsFacts
<1>2. CASE n = RootNode BY <1>2 DEF Seen
<1>3. CASE n # RootNode
    <2>1. Parent[n] \in Path[n]
        BY <1>1, <1>3, PathFacts, NodesClosed
    <2> QED BY <1>1, <2>1
<1> QED BY <1>2, <1>3

\* The paths of keys can be loaded.
LEMMA ExtendPaths ==
    ASSUME TypeOK, Linked(db, dbChild), NEW t \in Tree, NEW J, Mirrors(t, J, db),
           NEW S \in SUBSET Keys
    PROVE  /\ Mirrors(Extend(t, Paths[S]), J, db)
           /\ \A n \in Paths[S] : Resident(Extend(t, Paths[S])[n])
           /\ \A n \in Nodes : Resident(t[n]) => Extend(t, Paths[S])[n] = t[n]
<1>1. Paths[S] \in SUBSET Nodes BY PathsNodes
<1>2. ASSUME NEW n \in Paths[S] PROVE Seen(t, n) \/ Parent[n] \in Paths[S]
    BY SeenOrLoaded
<1> QED BY <1>1, <1>2, ExtendMirrors

\* Garbage collection leaves nodes that can be loaded again.
LEMMA ReleasedMirrors ==
    ASSUME NEW t \in Tree, NEW d, Mirrors(t, {}, d), NEW oldest
    PROVE  Mirrors(Released(t, oldest), {}, d)
<1> DEFINE u == Released(t, oldest)
           Gone(n) == \E a \in Path[n] \ {n, RootNode} : Outdated(t[a], oldest)
<1>1. ASSUME NEW n \in Nodes
      PROVE  u[n] = IF Gone(n) THEN NilNode
                    ELSE IF n # RootNode /\ Outdated(t[n], oldest)
                    THEN [t[n] EXCEPT !.state = "temporary"]
                    ELSE t[n]
    BY DEF Released
<1>2. ~Gone(RootNode) BY PathFacts
<1>3. ASSUME NEW n \in Nodes \ {RootNode}
      PROVE  /\ Parent[n] \in Nodes
             /\ Gone(n) <=> \/ Gone(Parent[n])
                            \/ Parent[n] # RootNode /\ Outdated(t[Parent[n]], oldest)
    <2>1. Parent[n] \in Nodes BY NodesClosed
    <2>2. /\ Path[n] = Path[Parent[n]] \cup {n} /\ n \notin Path[Parent[n]]
          /\ Parent[n] \in Path[Parent[n]]
        BY <2>1, PathFacts
    <2> QED BY <2>1, <2>2
<1>4. \A n \in Nodes : t[n] \in Node BY DEF Tree
<1> HIDE DEF u, Gone
<1>5. u[RootNode] = t[RootNode] BY <1>1, <1>2, NodesClosed
<1>6. ASSUME NEW n \in Nodes PROVE NodeMirrors(u, {}, d, n)
    <2>1. NodeMirrors(t, {}, d, n) BY DEF Mirrors
    <2>2. CASE n = RootNode
        BY <1>5, <2>1, <2>2 DEF NodeMirrors, Seen
    <2>3. CASE n # RootNode /\ Gone(n)
        <3>1. u[n] = NilNode BY <1>1, <2>3
        <3>2. ~Resident(u[Parent[n]])
            <4>1. CASE Gone(Parent[n])
                <5>1. Parent[n] \in Nodes BY <1>3, <2>3
                <5>2. u[Parent[n]] = NilNode BY <1>1, <4>1, <5>1
                <5> QED BY <5>2 DEF Resident, NilNode
            <4>2. CASE ~Gone(Parent[n])
                <5>1. Parent[n] \in Nodes /\ Parent[n] # RootNode /\ Outdated(t[Parent[n]], oldest)
                    BY <1>3, <2>3, <4>2
                <5>2. u[Parent[n]] = [t[Parent[n]] EXCEPT !.state = "temporary"]
                    BY <1>1, <4>2, <5>1
                <5>3. u[Parent[n]].state = "temporary" BY <1>4, <5>1, <5>2 DEF Node
                <5> QED BY <5>3 DEF Resident
            <4> QED BY <4>1, <4>2
        <3> QED BY <2>3, <3>1, <3>2 DEF NodeMirrors, Seen, NilNode, Resident
    <2>4. CASE n # RootNode /\ ~Gone(n)
        <3>1. /\ Parent[n] \in Nodes /\ ~Gone(Parent[n])
              /\ ~(Parent[n] # RootNode /\ Outdated(t[Parent[n]], oldest))
            BY <1>3, <2>4
        <3>2. u[Parent[n]] = t[Parent[n]] BY <1>1, <3>1
        <3>3. Seen(u, n) <=> Seen(t, n) BY <3>2 DEF Seen
        <3>4. CASE Outdated(t[n], oldest)
            <4>1. u[n] = [t[n] EXCEPT !.state = "temporary"] BY <1>1, <2>4, <3>4
            <4>2. u[n].state = "temporary" /\ u[n].versions = t[n].versions
                BY <1>4, <4>1 DEF Node
            <4>3. u[n].versions # <<>> BY <3>4, <4>2 DEF Outdated
            <4>4. t[n].state # "nil" BY <2>1, <4>2, <4>3 DEF NodeMirrors
            <4> QED BY <2>1, <3>3, <4>2, <4>3, <4>4 DEF NodeMirrors, Resident
        <3>5. CASE ~Outdated(t[n], oldest)
            <4>1. u[n] = t[n] BY <1>1, <2>4, <3>5
            <4> QED BY <2>1, <3>3, <4>1 DEF NodeMirrors
        <3> QED BY <3>4, <3>5
    <2> QED BY <2>2, <2>3, <2>4
<1>7. Resident(u[RootNode]) BY <1>5 DEF Mirrors
<1> QED BY <1>6, <1>7 DEF Mirrors, u

----------------------------------------------------------------------------
(* Rollback walks down from the root as long as it drops something. That   *)
(* reaches every node with an entry above the target, also when an earlier *)
(* rollback to the same target was interrupted between two parts of its    *)
(* batch: it stores children before their parents, so what is still to be  *)
(* done hangs together from the root.                                      *)

\* Where the parent is still to be rolled back to tg, it may list versions of a
\* child that the child's record has no more.
LinkedBut(d, dc, tg) ==
    \A n \in Nodes :
        /\ ~d[n].found => d[n].versions = <<>>
        /\ n # RootNode =>
              /\ d[n].found => d[Parent[n]].found
              /\ dc[n] = <<>> => d[n].versions = <<>>
              /\ ~DropsAny(d[Parent[n]].versions, tg) => Alike(dc[n], d[n].versions)

\* One node of a tree loaded from such records, and the tree.
NodeMirrorsBut(t, d, tg, n) ==
    /\ t[n].state # "nil" => Seen(t, n)
    /\ t[n].state = "nil" => t[n].versions = <<>>
    /\ t[n].state = "temporary" => t[n].versions # <<>>
    /\ Resident(t[n]) => t[n].versions = d[n].versions
    /\ Seen(t, n) /\ n # RootNode =>
          /\ t[n].versions = <<>> => d[n].versions = <<>>
          /\ ~DropsAny(d[Parent[n]].versions, tg) => Alike(t[n].versions, d[n].versions)

MirrorsBut(t, d, tg) ==
    /\ Resident(t[RootNode])
    /\ \A n \in Nodes : NodeMirrorsBut(t, d, tg, n)

\* Without an interruption nothing is left out.
LEMMA ButWhole ==
    ASSUME NEW d, NEW dc, NEW t, Linked(d, dc), Mirrors(t, {}, d), NEW tg
    PROVE  LinkedBut(d, dc, tg) /\ MirrorsBut(t, d, tg)
<1>1. LinkedBut(d, dc, tg) BY DEF Linked, LinkedBut, Alike
<1>2. ASSUME NEW n \in Nodes PROVE NodeMirrorsBut(t, d, tg, n)
    <2>1. NodeMirrors(t, {}, d, n) BY DEF Mirrors
    <2> QED BY <2>1 DEF NodeMirrors, NodeMirrorsBut, Alike
<1> QED BY <1>1, <1>2 DEF Mirrors, MirrorsBut

\* Loading nodes keeps such a tree.
LEMMA ExtendMirrorsBut ==
    ASSUME TypeOK, NEW tg, LinkedBut(db, dbChild, tg), NEW t \in Tree, MirrorsBut(t, db, tg),
           NEW S \in SUBSET Nodes, \A n \in S : Seen(t, n) \/ Parent[n] \in S,
           NEW u, u = Extend(t, S)
    PROVE  MirrorsBut(u, db, tg)
<1>0. \A n \in Nodes : ~db[n].found => db[n].versions = <<>> BY DEF LinkedBut
<1>1. /\ \A n \in Nodes : Resident(t[n]) => u[n] = t[n]
      /\ \A n \in S : Resident(u[n]) /\ (~Resident(t[n]) => u[n].versions = db[n].versions)
      /\ \A n \in Nodes \ S : ~Resident(t[n]) =>
             IF n # RootNode /\ Parent[n] \in S /\ ~Resident(t[Parent[n]])
             THEN u[n] = IF db[Parent[n]].found THEN StoredChild(n) ELSE NilNode
             ELSE u[n] = t[n]
      /\ \A n \in Nodes : Resident(u[n]) <=> Resident(t[n]) \/ n \in S
      /\ \A n \in Nodes : Seen(u, n) <=> Seen(t, n) \/ (n # RootNode /\ Parent[n] \in S)
    BY <1>0, ExtendShape
<1>2. ASSUME NEW n \in Nodes PROVE NodeMirrorsBut(u, db, tg, n)
    <2>1. NodeMirrorsBut(t, db, tg, n) BY DEF MirrorsBut
    <2>2. Seen(u, n) <=> Seen(t, n) \/ (n # RootNode /\ Parent[n] \in S) BY <1>1
    <2>3. CASE Resident(t[n])
        <3>1. u[n] = t[n] /\ Seen(t, n) BY <1>1, <2>1, <2>3 DEF NodeMirrorsBut, Resident
        <3> QED BY <2>1, <2>2, <3>1 DEF NodeMirrorsBut
    <2>4. CASE ~Resident(t[n]) /\ n \in S
        <3>1. Resident(u[n]) /\ u[n].versions = db[n].versions BY <1>1, <2>4
        <3>2. Seen(u, n) BY <2>2, <2>4 DEF Seen
        <3> QED BY <3>1, <3>2 DEF NodeMirrorsBut, Resident, Alike
    <2>5. CASE ~Resident(t[n]) /\ n \notin S
        <3>1. CASE n # RootNode /\ Parent[n] \in S /\ ~Resident(t[Parent[n]])
            <4>1. Seen(u, n) BY <2>2, <3>1
            <4>2. u[n] = IF db[Parent[n]].found THEN StoredChild(n) ELSE NilNode
                BY <1>1, <2>5, <3>1
            <4>3. /\ ~db[n].found => db[n].versions = <<>>
                  /\ db[n].found => db[Parent[n]].found
                  /\ dbChild[n] = <<>> => db[n].versions = <<>>
                  /\ ~DropsAny(db[Parent[n]].versions, tg) => Alike(dbChild[n], db[n].versions)
                BY <3>1 DEF LinkedBut
            <4>4. CASE db[Parent[n]].found
                BY <4>1, <4>2, <4>3, <4>4
                DEF NodeMirrorsBut, StoredChild, NilNode, Alike, Resident
            <4>5. CASE ~db[Parent[n]].found
                <5>1. db[n].found \in BOOLEAN BY DEF TypeOK
                <5>2. db[n].versions = <<>> BY <4>3, <4>5, <5>1
                <5> QED BY <4>1, <4>2, <4>5, <5>2 DEF NodeMirrorsBut, NilNode, Alike, Resident
            <4> QED BY <4>4, <4>5
        <3>2. CASE n = RootNode \/ Parent[n] \notin S \/ Resident(t[Parent[n]])
            <4>1. u[n] = t[n] BY <1>1, <2>5, <3>2
            <4>2. Seen(u, n) <=> Seen(t, n) BY <2>2, <3>2 DEF Seen
            <4> QED BY <2>1, <4>1, <4>2 DEF NodeMirrorsBut, Resident
        <3> QED BY <3>1, <3>2
    <2> QED BY <2>3, <2>4, <2>5
<1>3. Resident(u[RootNode]) BY <1>1, NodesClosed DEF MirrorsBut
<1> QED BY <1>2, <1>3 DEF MirrorsBut

\* A set of nodes with their parents contains their paths.
LEMMA ParentClosed ==
    ASSUME NEW T \in SUBSET Nodes, \A n \in T : n # RootNode => Parent[n] \in T
    PROVE  Closed(T)
<1> SUFFICES ASSUME NEW n \in T, NEW a \in Path[n], a \notin T PROVE FALSE
    BY DEF Closed
<1> DEFINE At(i) == SubSeq(n, 1, i)
           Out == {j \in Nat : j <= Len(n) /\ At(Len(n) - j) \notin T}
<1>1. n \in Nodes /\ n \in Seq(0 .. 15) /\ Len(n) \in Nat BY NodesClosed
<1>2. PICK i \in 0 .. Len(n) : a = At(i) BY <1>1, NodesClosed DEF Prefixes
<1>3. Len(n) - i \in Out
    <2>1. Len(n) - i \in Nat /\ Len(n) - i <= Len(n) /\ Len(n) - (Len(n) - i) = i
        BY <1>1, <1>2
    <2> QED BY <1>2, <2>1
<1>4. PICK m \in Out : \A j \in Out : m <= j BY <1>3, LeastNatural
<1>5. m # 0
    <2>1. At(Len(n)) = n BY <1>1
    <2>2. CASE m = 0
        <3>1. Len(n) - m = Len(n) BY <1>1, <2>2
        <3> QED BY <1>4, <2>1, <3>1
    <2> QED BY <2>2
<1>6. m \in Nat /\ m <= Len(n) /\ At(Len(n) - m) \notin T BY <1>4
<1> DEFINE q == Len(n) - m
<1>7. q \in 0 .. Len(n) /\ q + 1 \in 1 .. Len(n) /\ m - 1 \in Nat /\ Len(n) - (m - 1) = q + 1
    BY <1>1, <1>5, <1>6
<1>8. At(q + 1) \in T
    <2>1. m - 1 \notin Out BY <1>4, <1>7
    <2>2. m - 1 <= Len(n) BY <1>1, <1>6
    <2> QED BY <1>7, <2>1, <2>2
<1>9. Len(At(q + 1)) = q + 1 BY <1>1, <1>7
<1>10. At(q + 1) \in Nodes /\ At(q + 1) # RootNode
    <2>1. Len(RootNode) = 0 BY DEF RootNode
    <2>2. q + 1 # 0 BY <1>7
    <2>3. At(q + 1) \in Nodes BY <1>8
    <2> HIDE DEF At, q
    <2> QED BY <1>9, <2>1, <2>2, <2>3
<1>11. Parent[At(q + 1)] = At(q)
    <2>1. SubSeq(At(q + 1), 1, q) = At(q) BY <1>1, <1>7
    <2>2. Len(At(q + 1)) - 1 = q BY <1>7, <1>9
    <2> QED BY <1>10, <2>1, <2>2 DEF Parent
<1>12. At(q) \in T BY <1>8, <1>10, <1>11
<1> QED BY <1>6, <1>12

\* Rollback drops entries of exactly the nodes that have one above the
\* target, also of those that are not in memory.
LEMMA DroppingAll ==
    ASSUME TypeOK, NEW target \in Nat, LinkedBut(db, dbChild, target),
           NEW rv \in Nat, NEW ver \in Nat, Ordered(db, rv, ver),
           MirrorsBut(lastSaveRoot, db, target), rv <= target
    PROVE  /\ Dropping(target) = {n \in Nodes : DropsAny(db[n].versions, target)}
           /\ Closed(Dropping(target))
           /\ \A n \in Dropping(target) : n # RootNode => HasChild(n)
<1> DEFINE T == {n \in Nodes : DropsAny(db[n].versions, target)}
<1>1. ASSUME NEW n \in Nodes
      PROVE  /\ db[n].versions \in Versions /\ Sorted(db[n].versions)
             /\ DropsAny(db[n].versions, target) <=> \E v \in Vers(db[n].versions) : v > target
    <2>1. db[n].versions \in Versions /\ Sorted(db[n].versions)
        BY DEF TypeOK, Ordered
    <2> QED BY <2>1, RollbackReads
<1>2. ASSUME NEW n \in T, n # RootNode PROVE Parent[n] \in T
    <2>1. Parent[n] \in Nodes BY <1>2, NodesClosed
    <2>2. PICK v \in Vers(db[n].versions) : v > target BY <1>1
    <2>3. v \in Nat BY <1>1, VersNat
    <2>4. v > rv BY <2>2, <2>3
    <2>5. Covered(db[n].versions, db[Parent[n]].versions, rv) BY <1>2 DEF Ordered
    <2>6. v \in Vers(db[Parent[n]].versions) BY <2>4, <2>5 DEF Covered
    <2> QED BY <1>1, <2>1, <2>2, <2>6
<1>3. Closed(T) BY <1>2, ParentClosed
<1>4. ASSUME NEW n \in Nodes PROVE LoadedVersions(n) = db[n].versions
    <2>1. NodeMirrorsBut(lastSaveRoot, db, target, n) BY DEF MirrorsBut
    <2> QED BY <2>1 DEF LoadedVersions, NodeMirrorsBut
<1>5. ASSUME NEW n \in T, n # RootNode PROVE HasChild(n)
    <2>1. db[n].versions # <<>>
        <3>1. Vers(db[n].versions) # {} BY <1>1
        <3> QED BY <1>1, <3>1, VersEmpty
    <2>2. NodeMirrorsBut(lastSaveRoot, db, target, n) BY DEF MirrorsBut
    <2>3. CASE Resident(lastSaveRoot[Parent[n]])
        <3>1. lastSaveRoot[n].versions # <<>>
            BY <1>5, <2>1, <2>2, <2>3 DEF NodeMirrorsBut, Seen
        <3>2. lastSaveRoot[n].state # "nil" BY <2>2, <3>1 DEF NodeMirrorsBut
        <3> QED BY <2>3, <3>2 DEF HasChild
    <2>4. CASE ~Resident(lastSaveRoot[Parent[n]])
        <3>1. dbChild[n] # <<>> BY <1>5, <2>1 DEF LinkedBut
        <3> QED BY <2>4, <3>1 DEF HasChild
    <2> QED BY <2>3, <2>4
<1>6. ASSUME NEW n \in T, NEW a \in Path[n]
      PROVE  DropsAny(LoadedVersions(a), target) /\ (a # RootNode => HasChild(a))
    <2>1. a \in T BY <1>3 DEF Closed
    <2> QED BY <1>4, <1>5, <2>1
<1>7. ASSUME NEW n \in Nodes, DropsAny(LoadedVersions(n), target) PROVE n \in T
    BY <1>4, <1>7
<1>8. \A n \in Nodes : n \in Path[n] BY PathFacts
<1>9. Dropping(target) = {n \in Nodes : \A a \in Path[n] :
                              /\ DropsAny(LoadedVersions(a), target)
                              /\ a # RootNode => HasChild(a)}
    BY DEF Dropping
<1> HIDE DEF T
<1>10. T \subseteq Nodes BY DEF T
<1>11. Dropping(target) = T BY <1>6, <1>7, <1>8, <1>9, <1>10
<1> QED BY <1>3, <1>5, <1>11 DEF T

\* The tree and the records after Rollback show each other.
LEMMA RolledBackMirrors ==
    ASSUME TypeOK, NEW target \in Nat, LinkedBut(db, dbChild, target),
           NEW rv \in Nat, NEW ver \in Nat, Ordered(db, rv, ver),
           MirrorsBut(lastSaveRoot, db, target), rv <= target, NEW D, D = Dropping(target),
           NEW t, t = RolledBack(target, D), NEW e, e = Stored(D, t)
    PROVE  /\ Undone(e, db, target) /\ Mirrors(t, {}, e)
           /\ Linked(e, StoredEntries(D, t)) /\ Mirrors(t, D, db)
<1> DEFINE visited == {n \in Nodes \ {RootNode} : Parent[n] \in D /\ HasChild(n)}
           u == Extend(lastSaveRoot, visited)
<1>1. /\ D = {n \in Nodes : DropsAny(db[n].versions, target)}
      /\ Closed(D) /\ \A n \in D : n # RootNode => HasChild(n)
    BY DroppingAll
<1>2. \A n \in D : n \in Nodes /\ (n # RootNode => Parent[n] \in D)
    BY <1>1, PathFacts, NodesClosed DEF Closed
<1>3. \A n \in D : n # RootNode => n \in visited BY <1>1, <1>2
<1>4. ASSUME NEW n \in visited PROVE Seen(lastSaveRoot, n) \/ Parent[n] \in visited
    <2>1. CASE Parent[n] = RootNode BY <2>1 DEF Seen, MirrorsBut
    <2>2. CASE Parent[n] # RootNode BY <1>3, <2>2
    <2> QED BY <2>1, <2>2
<1>5. lastSaveRoot \in Tree BY DEF TypeOK, Tree
<1>6. /\ Mirrors(u, {}, db) /\ \A n \in visited : Resident(u[n])
      /\ u \in Tree
    <2>1. u \in Tree BY <1>5, ExtendType
    <2>2. MirrorsBut(u, db, target) BY <1>4, <1>5, ExtendMirrorsBut
    <2>3. \A n \in Nodes : ~db[n].found => db[n].versions = <<>> BY DEF LinkedBut
    <2>4. /\ \A n \in visited : Resident(u[n])
          /\ \A n \in Nodes \ visited : ~Resident(lastSaveRoot[n]) =>
                 IF n # RootNode /\ Parent[n] \in visited /\ ~Resident(lastSaveRoot[Parent[n]])
                 THEN u[n] = IF db[Parent[n]].found THEN StoredChild(n) ELSE NilNode
                 ELSE u[n] = lastSaveRoot[n]
        BY <2>3, ExtendShape
    <2> HIDE DEF u
    <2>5. ASSUME NEW n \in Nodes, Seen(u, n) PROVE Alike(u[n].versions, db[n].versions)
        <3>1. NodeMirrorsBut(u, db, target, n) BY <2>2 DEF MirrorsBut
        <3>2. CASE Resident(u[n]) BY <3>1, <3>2 DEF NodeMirrorsBut, Alike
        <3>3. CASE n = RootNode BY <2>2, <3>1, <3>3 DEF MirrorsBut, NodeMirrorsBut, Alike
        <3>4. CASE n # RootNode /\ Parent[n] \notin D
            <4>1. ~DropsAny(db[Parent[n]].versions, target) BY <1>1, <3>4, NodesClosed
            <4> QED BY <2>5, <3>1, <3>4, <4>1 DEF NodeMirrorsBut
        <3>5. CASE ~Resident(u[n]) /\ n # RootNode /\ Parent[n] \in D
            <4>1. n \notin visited BY <2>4, <3>5
            <4>2. ~HasChild(n) BY <3>5, <4>1
            <4>3. u[n].versions = <<>>
                <5>1. NodeMirrorsBut(lastSaveRoot, db, target, n) BY DEF MirrorsBut
                <5>2. CASE Resident(lastSaveRoot[Parent[n]])
                    <6>1. lastSaveRoot[n].state = "nil" BY <4>2, <5>2 DEF HasChild
                    <6>2. ~Resident(lastSaveRoot[n]) BY <6>1 DEF Resident
                    <6>3. u[n] = lastSaveRoot[n] BY <2>4, <4>1, <5>2, <6>2
                    <6> QED BY <5>1, <6>1, <6>3 DEF NodeMirrorsBut
                <5>3. CASE ~Resident(lastSaveRoot[Parent[n]])
                    <6>1. dbChild[n] = <<>> BY <4>2, <5>3 DEF HasChild
                    <6>2. Parent[n] \in visited BY <1>3, <3>5, <5>3 DEF MirrorsBut
                    <6>3. ~Resident(lastSaveRoot[n])
                        BY <3>5, <5>1, <5>3 DEF NodeMirrorsBut, Seen, Resident
                    <6>4. u[n] = StoredChild(n) \/ u[n] = NilNode
                        BY <2>4, <3>5, <4>1, <5>3, <6>2, <6>3
                    <6> QED BY <6>1, <6>4 DEF StoredChild, NilNode
                <5> QED BY <5>2, <5>3
            <4>4. db[n].versions = <<>> BY <2>5, <3>1, <3>5, <4>3 DEF NodeMirrorsBut
            <4> QED BY <4>3, <4>4 DEF Alike
        <3> QED BY <3>2, <3>3, <3>4, <3>5
    <2>6. ASSUME NEW n \in Nodes PROVE NodeMirrors(u, {}, db, n)
        <3>1. NodeMirrorsBut(u, db, target, n) BY <2>2 DEF MirrorsBut
        <3> QED BY <2>5, <3>1 DEF NodeMirrors, NodeMirrorsBut
    <2> QED BY <2>1, <2>2, <2>4, <2>6 DEF Mirrors, MirrorsBut
<1>7. t = [n \in Nodes |-> IF n \in D
                           THEN [u[n] EXCEPT !.versions = NodeRollback(@, target)]
                           ELSE u[n]]
    BY DEF RolledBack
<1> HIDE DEF u, visited
<1>8. \A n \in D : Resident(u[n]) BY <1>3, <1>6 DEF Mirrors
<1>9. ASSUME NEW n \in Nodes PROVE NodeMirrors(u, {}, db, n) BY <1>6 DEF Mirrors
<1>10. ASSUME NEW n \in D
       PROVE  t[n].state = "resident" /\ t[n].versions = NodeRollback(db[n].versions, target)
    <2>1. n \in Nodes /\ Resident(u[n]) BY <1>2, <1>8
    <2>2. u[n].versions = db[n].versions
        BY <1>9, <2>1 DEF NodeMirrors, Resident
    <2>3. u[n] \in Node BY <1>6, <2>1 DEF Tree
    <2>4. t[n] = [u[n] EXCEPT !.versions = NodeRollback(@, target)] BY <1>7, <2>1
    <2> QED BY <2>1, <2>2, <2>3, <2>4 DEF Node, Resident
<1>11. ASSUME NEW n \in Nodes, n \notin D PROVE t[n] = u[n] BY <1>7, <1>11
<1>12. ASSUME NEW n \in Nodes PROVE Resident(t[n]) <=> Resident(u[n])
    BY <1>8, <1>10, <1>11 DEF Resident
<1>13. ASSUME NEW n \in Nodes PROVE Seen(t, n) <=> Seen(u, n)
    BY <1>12, NodesClosed DEF Seen
<1>14. ASSUME NEW n \in Nodes, n \in D
       PROVE  e[n].found = TRUE /\ e[n].versions = t[n].versions /\ db[n].found = TRUE
    <2>1. e[n] = [found |-> TRUE, versions |-> t[n].versions] BY <1>14 DEF Stored
    <2>2. db[n].found \in BOOLEAN /\ db[n].versions \in Versions /\ Sorted(db[n].versions)
        BY DEF TypeOK, Ordered
    <2>3. db[n].versions # <<>>
        <3>1. \E v \in Vers(db[n].versions) : v > target BY <1>1, <1>14, <2>2, RollbackReads
        <3> QED BY <2>2, <3>1, VersEmpty
    <2>4. db[n].found BY <2>3 DEF LinkedBut
    <2> QED BY <2>1, <2>2, <2>4
<1>15. ASSUME NEW n \in Nodes, n \notin D PROVE e[n] = db[n] BY <1>15 DEF Stored
<1>16. ASSUME NEW n \in Nodes
       PROVE  e[n].found = db[n].found /\ e[n].versions = NodeRollback(db[n].versions, target)
    <2>1. CASE n \in D BY <1>10, <1>14, <2>1
    <2>2. CASE n \notin D
        <3>1. db[n].versions \in Versions /\ Sorted(db[n].versions) BY DEF TypeOK, Ordered
        <3>2. NodeRollback(db[n].versions, target) = db[n].versions
            BY <1>1, <2>2, <3>1, RollbackReads
        <3> QED BY <1>15, <2>2, <3>2
    <2> QED BY <2>1, <2>2
<1>17. ASSUME NEW n \in Nodes
       PROVE  NodeMirrors(t, {}, e, n) /\ NodeMirrors(t, D, db, n)
    <2>1. CASE n \in D
        <3>1. Seen(t, n) BY <1>8, <1>9, <1>13, <2>1 DEF NodeMirrors, Resident
        <3> QED BY <1>10, <1>14, <2>1, <3>1 DEF NodeMirrors, Resident, Alike
    <2>2. CASE n \notin D
        BY <1>9, <1>11, <1>13, <1>15, <2>2 DEF NodeMirrors
    <2> QED BY <2>1, <2>2
<1>18. Resident(t[RootNode]) BY <1>6, <1>12, NodesClosed DEF Mirrors
<1>19. Mirrors(t, {}, e) /\ Mirrors(t, D, db) BY <1>17, <1>18 DEF Mirrors
<1>20. ASSUME NEW n \in Nodes
       PROVE  /\ ~e[n].found => e[n].versions = <<>>
              /\ n # RootNode => /\ Alike(StoredEntries(D, t)[n], e[n].versions)
                                 /\ e[n].found => e[Parent[n]].found
    <2>1. ~e[n].found => e[n].versions = <<>>
        <3>1. CASE n \in D BY <1>14, <3>1
        <3>2. CASE n \notin D BY <1>15, <3>2 DEF LinkedBut
        <3> QED BY <3>1, <3>2
    <2>2. ASSUME n # RootNode PROVE Alike(StoredEntries(D, t)[n], e[n].versions)
        <3>1. CASE Parent[n] \in D
            <4>1. Seen(t, n) BY <1>2, <1>8, <1>12, <3>1 DEF Seen
            <4>2. Alike(t[n].versions, e[n].versions) BY <1>17, <4>1 DEF NodeMirrors
            <4> QED BY <2>2, <3>1, <4>2 DEF StoredEntries, ToStorage
        <3>2. CASE Parent[n] \notin D
            <4>1. n \notin D BY <1>2, <2>2, <3>2
            <4>2. ~DropsAny(db[Parent[n]].versions, target) BY <1>1, <2>2, <3>2, NodesClosed
            <4>3. e[n] = db[n] /\ Alike(dbChild[n], db[n].versions)
                BY <1>15, <2>2, <4>1, <4>2 DEF LinkedBut
            <4> QED BY <3>2, <4>3 DEF StoredEntries
        <3> QED BY <3>1, <3>2
    <2>3. ASSUME n # RootNode, e[n].found PROVE e[Parent[n]].found
        <3>1. db[n].found BY <1>16, <2>3
        <3>2. db[Parent[n]].found BY <2>3, <3>1 DEF LinkedBut
        <3> QED BY <1>16, <2>3, <3>2, NodesClosed
    <2> QED BY <2>1, <2>2, <2>3
<1>21. Linked(e, StoredEntries(D, t)) BY <1>20 DEF Linked
<1> QED BY <1>16, <1>19, <1>21 DEF Undone

----------------------------------------------------------------------------
(* The inductive invariant.                                                *)

\* The nodes of J in tree t have been edited, over records d in which ver is
\* the latest version: all in one block, and so that each has the hash of the
\* leaves below it. r is the recentVersion of a commit that failed.
EditedBy(t, J, d, r, ver) ==
    LET W == Root(t[RootNode])
        b == LatestVersion(t[RootNode].versions)
    IN  /\ Closed(J)
        /\ \A n \in J : Pending(t[n].versions, d[n].versions, r, b, Below(W, n))
        /\ J # {} => b > ver
        /\ \A k \in Keys \ J : W[k] = Contents(d, ver)[k]

RecordsOK ==
    /\ Linked(db, dbChild)
    /\ Ordered(db, recentVersion, version)
    /\ Hashed(db, recentVersion)
    /\ dbVersion = NoVersion => \A n \in Nodes : ~db[n].found

TreesOK ==
    /\ Mirrors(root, journal, db)
    /\ Mirrors(lastSaveRoot, {}, db)
    /\ EditedBy(root, journal, db, asked, version)

\* After a rollback whose write failed the tree is ahead of the records, at
\* nodes that are loaded.
Inv ==
    /\ interrupted = Nothing
    /\ RecordsOK
    /\ rollbackFailed => \E D \in SUBSET Nodes : Mirrors(root, D, db)
    /\ ~rollbackFailed => TreesOK

\* The state in the types the lemmas above use.
LEMMA StateTypes ==
    ASSUME TypeOK
    PROVE  /\ root \in Tree /\ lastSaveRoot \in Tree /\ db \in Records
           /\ dbChild \in [Nodes -> Versions]
           /\ asked \in Int /\ journal \subseteq Nodes
           /\ version \in Nat /\ recentVersion \in Nat
           /\ dbCache \in [Keys -> StoredRecord]
BY DEF TypeOK, Tree, Records, StoredRecord, NoVersion

\* A node that is in memory and not edited has the hash of the latest version.
LEMMA MirrorRoot ==
    ASSUME NEW d \in Records, NEW t \in Tree, NEW J, Mirrors(t, J, d),
           NEW rv \in Nat, NEW ver \in Nat, rv <= ver, Ordered(d, rv, ver), Hashed(d, rv),
           NEW n \in Nodes, Seen(t, n), n \notin J
    PROVE  Root(t[n]) = Below(Contents(d, ver), n)
<1>1. LatestHash(t[n].versions, NilHash) = LatestHash(d[n].versions, NilHash)
    BY DEF Mirrors, NodeMirrors, Alike
<1>2. d[n].versions \in Versions BY DEF Records, StoredRecord
<1>3. Sorted(d[n].versions) /\ Upto(d[n].versions, ver) BY DEF Ordered
<1>4. ver \in Int OBVIOUS
<1>5. HashAt(d[n].versions, ver, NilHash) = LatestHash(d[n].versions, NilHash)
    BY <1>2, <1>3, <1>4, ReadsLatest
<1>6. HashAt(d[n].versions, ver, NilHash) = Below(Contents(d, ver), n)
    BY DEF Hashed
<1> QED BY <1>1, <1>5, <1>6 DEF Root

\* The root of a tree without edits is the latest version.
LEMMA CleanRoot ==
    ASSUME NEW d \in Records, NEW t \in Tree, Mirrors(t, {}, d),
           NEW rv \in Nat, NEW ver \in Nat, rv <= ver, Ordered(d, rv, ver), Hashed(d, rv)
    PROVE  /\ Root(t[RootNode]) = Contents(d, ver)
           /\ \A r : EditedBy(t, {}, d, r, ver)
<1>1. RootNode \in Nodes BY NodesClosed
<1>2. Seen(t, RootNode) BY DEF Seen
<1>3. Root(t[RootNode]) = Below(Contents(d, ver), RootNode) BY <1>1, <1>2, MirrorRoot
<1>4. ver \in Int OBVIOUS
<1>5. Root(t[RootNode]) = Contents(d, ver) BY <1>3, <1>4, BelowRoot, ContentsType
<1>6. Closed({}) BY DEF Closed
<1> QED BY <1>5, <1>6 DEF EditedBy

\* The newest entry of an edited node's list.
LEMMA PendingLatest ==
    ASSUME NEW vs, NEW stored \in Versions, NEW r \in Int, NEW b \in Nat,
           NEW h \in Content, NEW ver \in Nat, ver < b,
           Sorted(stored), Upto(stored, ver), Pending(vs, stored, r, b, h)
    PROVE  /\ vs \in Versions /\ vs # <<>>
           /\ LatestHash(vs, NilHash) = h /\ LatestVersion(vs) = b
BY PendingReads

\* Every node that is in memory has the hash of the edited map below it.
LEMMA SeenRoots ==
    ASSUME NEW d \in Records, NEW t \in Tree, NEW J, Mirrors(t, J, d),
           NEW rv \in Nat, NEW ver \in Nat, rv <= ver, Ordered(d, rv, ver), Hashed(d, rv),
           Closed(J), NEW W \in Content, NEW r \in Int, NEW b \in Nat, J # {} => b > ver,
           \A n \in J : Pending(t[n].versions, d[n].versions, r, b, Below(W, n)),
           \A k \in Keys \ J : W[k] = Contents(d, ver)[k],
           NEW n \in Nodes, Seen(t, n)
    PROVE  Root(t[n]) = Below(W, n)
<1>1. CASE n \in J
    <2>1. ver < b BY <1>1
    <2>2. d[n].versions \in Versions BY DEF Records, StoredRecord
    <2>3. Sorted(d[n].versions) /\ Upto(d[n].versions, ver) BY DEF Ordered
    <2>4. Below(W, n) \in Content BY BelowType
    <2>5. Pending(t[n].versions, d[n].versions, r, b, Below(W, n)) BY <1>1
    <2>6. LatestHash(t[n].versions, NilHash) = Below(W, n)
        BY <2>1, <2>2, <2>3, <2>4, <2>5, PendingLatest
    <2> QED BY <2>6 DEF Root
<1>2. CASE n \notin J
    <2>1. Root(t[n]) = Below(Contents(d, ver), n) BY <1>2, MirrorRoot
    <2>2. \A k \in Keys : n \in Path[k] => W[k] = Contents(d, ver)[k]
        BY <1>2, ClosedLeaves
    <2>3. Below(Contents(d, ver), n) = Below(W, n) BY <2>2 DEF Below
    <2> QED BY <2>1, <2>3
<1> QED BY <1>1, <1>2

\* What items make of a map.
Overlay(W, items) == [k \in Keys |-> IF k \in DOMAIN items THEN items[k] ELSE W[k]]

\* Items of the right type over a content are a content.
LEMMA OverlayType ==
    ASSUME NEW W \in Content, NEW S \in SUBSET Keys, NEW items \in [S -> Value]
    PROVE  Overlay(W, items) \in Content
BY DEF Overlay, Content

\* Rehashing the paths of the items with what their siblings hold gives every
\* node the hash of the new map below it.
LEMMA SetChildrenBelow ==
    ASSUME NEW t \in Tree, NEW W \in Content, NEW S \in (SUBSET Keys) \ {{}},
           NEW items \in [S -> Value], \A n \in Paths[S] : Resident(t[n]),
           \A n \in Nodes : Seen(t, n) => Root(t[n]) = Below(W, n),
           NEW n \in Nodes
    PROVE  SetChildren(t, n, items) = Below(Overlay(W, items), n)
<1>1. DOMAIN items = S OBVIOUS
<1>2. ASSUME NEW kk \in Keys \ S PROVE Root(t[Fork[S][kk]])[kk] = W[kk]
    <2> DEFINE f == Fork[S][kk]
    <2>1. f \in Path[kk] /\ Parent[f] \in Paths[S] /\ f \in Nodes /\ f # RootNode
        BY ForkExists
    <2>2. Seen(t, f) BY <2>1 DEF Seen
    <2>3. Root(t[f]) = Below(W, f) BY <2>1, <2>2
    <2> QED BY <2>1, <2>3 DEF Below
<1>3. ASSUME NEW kk \in Keys
      PROVE  (IF n \notin Path[kk] THEN Nil
              ELSE IF kk \in S THEN items[kk] ELSE Root(t[Fork[S][kk]])[kk])
                 = (IF n \in Path[kk] THEN Overlay(W, items)[kk] ELSE Nil)
    BY <1>1, <1>2 DEF Overlay
<1> QED BY <1>1, <1>3 DEF SetChildren, Below

----------------------------------------------------------------------------
(* Set, MultiSet and the operations that only load nodes.                  *)

\* Loading nodes leaves the edits as they are.
LEMMA EditedSame ==
    ASSUME NEW t, NEW u, NEW J, NEW d, NEW r, NEW ver, EditedBy(t, J, d, r, ver),
           u[RootNode] = t[RootNode], \A n \in J : u[n] = t[n]
    PROVE  EditedBy(u, J, d, r, ver)
BY DEF EditedBy

\* An entry of the block on an edited node, or the first one on a node that was
\* not edited yet.
LEMMA PendingAfterSet ==
    ASSUME NEW vs \in Versions, NEW stored \in Versions, Sorted(stored), NEW r \in Int,
           NEW b \in Nat, NEW ver \in Nat, ver < b, Upto(stored, ver),
           NEW h \in Content, NEW g \in Content,
           Pending(vs, stored, r, b, h) \/ vs = stored
    PROVE  Pending(NewVersion(vs, Info(b, g)), stored, r, b, g)
<1>1. CASE Pending(vs, stored, r, b, h)
    <2>1. PICK us : KeptFrom(us, stored, r) /\ vs = Append(us, Info(b, h))
        BY <1>1 DEF Pending
    <2>2. us \in Versions BY <2>1, KeptReads
    <2>3. NewVersion(vs, Info(b, g)) = Append(us, Info(b, g))
        BY <2>1, <2>2, NewVersionReplaces
    <2> QED BY <2>1, <2>3 DEF Pending
<1>2. CASE vs = stored
    <2>1. NewVersion(vs, Info(b, g)) = Append(stored, Info(b, g))
        BY <1>2, NewVersionAppends
    <2>2. KeptFrom(stored, stored, r) BY DEF KeptFrom
    <2> QED BY <2>1, <2>2 DEF Pending
<1> QED BY <1>1, <1>2

\* What SetItems makes of a tree.
WithEntries(t, S, items, b) ==
    [n \in Nodes |->
        IF n \in Paths[S]
        THEN [t[n] EXCEPT !.versions = NewVersion(@, Info(b, SetChildren(t, n, items)))]
        ELSE t[n]]

\* Setting items on a tree whose paths are loaded edits the nodes of the paths
\* and makes the tree commit to the map with the items.
LEMMA SetEdits ==
    ASSUME NEW d \in Records, NEW t \in Tree, NEW J, Mirrors(t, J, d),
           NEW rv \in Nat, NEW ver \in Nat, rv <= ver, Ordered(d, rv, ver), Hashed(d, rv),
           NEW r \in Int, EditedBy(t, J, d, r, ver),
           NEW S \in (SUBSET Keys) \ {{}}, NEW items \in [S -> Value],
           \A n \in Paths[S] : Resident(t[n]),
           NEW b \in Nat, b > ver, J # {} => b = LatestVersion(t[RootNode].versions),
           NEW u, u = WithEntries(t, S, items, b)
    PROVE  /\ Mirrors(u, J \cup Paths[S], d)
           /\ EditedBy(u, J \cup Paths[S], d, r, ver)
           /\ Root(u[RootNode]) = Overlay(Root(t[RootNode]), items)
<1> DEFINE W == Root(t[RootNode])
           W2 == Overlay(W, items)
           P == Paths[S]
           c == LatestVersion(t[RootNode].versions)
<1>1. RootNode \in Nodes /\ S \in SUBSET Keys BY NodesClosed
<1>2. \A n \in Nodes : t[n] \in Node /\ t[n].versions \in Versions BY DEF Tree, Node
<1>3. W \in Content BY <1>1, <1>2, RootType
<1>4. W2 \in Content BY <1>1, <1>3, OverlayType
<1>5. c \in Nat
    <2>1. t[RootNode].versions \in Seq(VersionInfo(Content)) BY <1>1, <1>2 DEF Versions
    <2>2. CASE t[RootNode].versions = <<>> BY <2>2 DEF LatestVersion
    <2>3. CASE t[RootNode].versions # <<>>
        <3>1. Len(t[RootNode].versions) \in 1 .. Len(t[RootNode].versions)
            BY <2>1, <2>3
        <3> QED BY <2>1, <2>3, <3>1, EntryType DEF LatestVersion
    <2> QED BY <2>2, <2>3
<1>6. /\ Closed(J)
      /\ \A n \in J : Pending(t[n].versions, d[n].versions, r, c, Below(W, n))
      /\ J # {} => c > ver
      /\ \A k \in Keys \ J : W[k] = Contents(d, ver)[k]
    BY DEF EditedBy
<1> HIDE DEF W, c
<1>7. \A n \in Nodes : Seen(t, n) => Root(t[n]) = Below(W, n)
    <2> SUFFICES ASSUME NEW n \in Nodes, Seen(t, n) PROVE Root(t[n]) = Below(W, n)
        OBVIOUS
    <2> QED BY <1>3, <1>5, <1>6, SeenRoots
<1>8. \A n \in Nodes : SetChildren(t, n, items) = Below(W2, n)
    <2> SUFFICES ASSUME NEW n \in Nodes PROVE SetChildren(t, n, items) = Below(W2, n)
        OBVIOUS
    <2> QED BY <1>3, <1>7, SetChildrenBelow
<1>9. /\ \A n \in P : n \in Nodes /\ Path[n] \subseteq P
      /\ S \subseteq P /\ RootNode \in P
      /\ \A n \in Nodes : n \in P <=> \E k \in S : n \in Path[k]
    BY <1>1, PathsFacts
<1>10. P \subseteq Nodes BY <1>9
<1> HIDE DEF P, W2
<1>11. Closed(J \cup P) BY <1>6, <1>9 DEF Closed
<1>12. ASSUME NEW n \in P
       PROVE  u[n].state = t[n].state
              /\ u[n].versions = NewVersion(t[n].versions, Info(b, Below(W2, n)))
    <2>1. u[n] = [t[n] EXCEPT !.versions = NewVersion(@, Info(b, SetChildren(t, n, items)))]
        BY <1>10 DEF WithEntries, P
    <2>2. SetChildren(t, n, items) = Below(W2, n) BY <1>8, <1>10
    <2>3. u[n] = [t[n] EXCEPT !.versions = NewVersion(t[n].versions, Info(b, Below(W2, n)))]
        BY <2>1, <2>2
    <2>4. t[n] \in Node BY <1>2, <1>10
    <2> QED BY <2>3, <2>4 DEF Node
<1>13. ASSUME NEW n \in Nodes, n \notin P PROVE u[n] = t[n] BY <1>13 DEF WithEntries, P
<1>14. ASSUME NEW n \in Nodes
       PROVE  /\ d[n].versions \in Versions /\ Sorted(d[n].versions)
              /\ Upto(d[n].versions, ver) /\ t[n].versions \in Versions
              /\ Below(W, n) \in Content /\ Below(W2, n) \in Content
              /\ NodeMirrors(t, J, d, n)
    BY <1>2, <1>3, <1>4, BelowType DEF Records, StoredRecord, Ordered, Mirrors
<1>15. \A n \in J : c = b BY DEF c
<1>16. ASSUME NEW n \in J \cup P
       PROVE  Pending(u[n].versions, d[n].versions, r, b, Below(W2, n))
    <2>1. n \in Nodes BY <1>6, <1>10 DEF Closed
    <2>2. CASE n \in P
        <3>1. Pending(t[n].versions, d[n].versions, r, b, Below(W, n))
                  \/ t[n].versions = d[n].versions
            <4>1. CASE n \in J BY <1>6, <1>15, <4>1
            <4>2. CASE n \notin J
                <5>1. t[n].state = "resident" BY <2>2 DEF Resident, P
                <5> QED BY <1>14, <2>1, <4>2, <5>1 DEF NodeMirrors, Resident
            <4> QED BY <4>1, <4>2
        <3>2. /\ d[n].versions \in Versions /\ Sorted(d[n].versions)
              /\ Upto(d[n].versions, ver) /\ t[n].versions \in Versions
              /\ Below(W, n) \in Content /\ Below(W2, n) \in Content
            BY <1>14, <2>1
        <3>3. Pending(NewVersion(t[n].versions, Info(b, Below(W2, n))), d[n].versions,
                      r, b, Below(W2, n))
            BY <3>1, <3>2, PendingAfterSet
        <3> QED BY <1>12, <2>2, <3>3
    <2>3. CASE n \notin P
        <3>1. \A k \in Keys : n \in Path[k] => W2[k] = W[k]
            BY <1>9, <2>1, <2>3 DEF W2, Overlay
        <3>2. Below(W2, n) = Below(W, n) BY <3>1 DEF Below
        <3>3. Pending(t[n].versions, d[n].versions, r, b, Below(W, n))
            BY <1>6, <1>15, <2>3
        <3> QED BY <1>13, <2>1, <2>3, <3>2, <3>3
    <2> QED BY <2>2, <2>3
<1>17. LatestHash(u[RootNode].versions, NilHash) = W2 /\ LatestVersion(u[RootNode].versions) = b
    <2>1. Pending(u[RootNode].versions, d[RootNode].versions, r, b, Below(W2, RootNode))
        BY <1>9, <1>16
    <2>2. Below(W2, RootNode) = W2 BY <1>4, BelowRoot
    <2>3. Pending(u[RootNode].versions, d[RootNode].versions, r, b, W2) BY <2>1, <2>2
    <2>4. /\ d[RootNode].versions \in Versions /\ Sorted(d[RootNode].versions)
          /\ Upto(d[RootNode].versions, ver)
        BY <1>1, <1>14
    <2> QED BY <1>4, <2>3, <2>4, PendingLatest
<1>18. Root(u[RootNode]) = W2 BY <1>17 DEF Root
<1>19. \A k \in Keys \ (J \cup P) : W2[k] = Contents(d, ver)[k]
    BY <1>6, <1>9 DEF W2, Overlay
<1>20. EditedBy(u, J \cup P, d, r, ver)
    BY <1>11, <1>16, <1>17, <1>18, <1>19 DEF EditedBy
<1>21. ASSUME NEW n \in Nodes PROVE u[n].state = t[n].state BY <1>12, <1>13
<1>22. ASSUME NEW n \in Nodes PROVE NodeMirrors(u, J \cup P, d, n)
    <2>1. u[n].state = t[n].state BY <1>21
    <2>2. Seen(u, n) <=> Seen(t, n) BY <1>21, NodesClosed DEF Seen, Resident
    <2>3. NodeMirrors(t, J, d, n) BY <1>14
    <2>4. CASE n \in P
        <3>1. t[n].state = "resident" BY <2>4 DEF Resident, P
        <3> QED BY <2>1, <2>2, <2>3, <2>4, <3>1 DEF NodeMirrors, Resident
    <2>5. CASE n \notin P
        <3>1. u[n] = t[n] BY <1>13, <2>5
        <3>2. n \in J \cup P <=> n \in J BY <2>5
        <3> HIDE DEF P
        <3> QED BY <2>2, <2>3, <3>1, <3>2, Zenon DEF NodeMirrors
    <2> QED BY <2>4, <2>5
<1>23. Resident(u[RootNode]) BY <1>1, <1>21 DEF Mirrors, Resident
<1> QED BY <1>18, <1>20, <1>22, <1>23 DEF Mirrors, P, W2, W

\* Loading paths into both trees keeps them over the records.
LEMMA LoadsKeep ==
    ASSUME TypeOK, RecordsOK, TreesOK, NEW S \in SUBSET Keys
    PROVE  /\ Extend(root, Paths[S]) \in Tree
           /\ Mirrors(Extend(root, Paths[S]), journal, db)
           /\ \A n \in Paths[S] : Resident(Extend(root, Paths[S])[n])
           /\ EditedBy(Extend(root, Paths[S]), journal, db, asked, version)
           /\ Extend(root, Paths[S])[RootNode] = root[RootNode]
           /\ Mirrors(SavedTreeAfterLoad(S), {}, db)
<1>1. /\ root \in Tree /\ lastSaveRoot \in Tree BY StateTypes
<1>2. /\ Linked(db, dbChild) /\ Mirrors(root, journal, db)
      /\ Mirrors(lastSaveRoot, {}, db) /\ EditedBy(root, journal, db, asked, version)
    BY DEF RecordsOK, TreesOK
<1>3. /\ Mirrors(Extend(root, Paths[S]), journal, db)
      /\ \A n \in Paths[S] : Resident(Extend(root, Paths[S])[n])
      /\ \A n \in Nodes : Resident(root[n]) => Extend(root, Paths[S])[n] = root[n]
    BY <1>1, <1>2, ExtendPaths
<1>4. Extend(root, Paths[S]) \in Tree BY <1>1, ExtendType
<1>5. Extend(root, Paths[S])[RootNode] = root[RootNode]
    BY <1>2, <1>3, NodesClosed DEF Mirrors
<1>6. \A n \in journal : Extend(root, Paths[S])[n] = root[n]
    <2> SUFFICES ASSUME NEW n \in journal PROVE Extend(root, Paths[S])[n] = root[n]
        OBVIOUS
    <2>1. n \in Nodes BY DEF TypeOK
    <2>2. Resident(root[n]) BY <1>2, <2>1 DEF Mirrors, NodeMirrors
    <2> QED BY <1>3, <2>1, <2>2
<1>7. EditedBy(Extend(root, Paths[S]), journal, db, asked, version)
    BY <1>2, <1>5, <1>6, EditedSame
<1>8. Mirrors(SavedTreeAfterLoad(S), {}, db)
    <2>1. {k \in S : ExtendsSavedTree(k)} \in SUBSET Keys OBVIOUS
    <2> QED BY <1>1, <1>2, <2>1, ExtendPaths DEF SavedTreeAfterLoad
<1> QED BY <1>3, <1>4, <1>5, <1>7, <1>8

\* GetProof changes neither records nor edits.
LEMMA GetProofKeeps ==
    ASSUME TypeOK, RecordsOK, TreesOK, NEW k \in Keys, GetProof(k)
    PROVE  RecordsOK' /\ TreesOK' /\ root'[RootNode] = root[RootNode]
<1>1. {k} \in SUBSET Keys /\ Paths[{k}] = Path[k]
    <2>1. {k} \in SUBSET Keys OBVIOUS
    <2>2. Paths[{k}] = UNION {Path[j] : j \in {k}} BY <2>1, PathsNodes
    <2>3. {Path[j] : j \in {k}} = {Path[k]} OBVIOUS
    <2> QED BY <2>1, <2>2, <2>3
<1>2. /\ root' = Extend(root, Paths[{k}]) /\ lastSaveRoot' = SavedTreeAfterLoad({k})
      /\ UNCHANGED <<version, recentVersion, journal, db, dbChild, dbVersion, asked>>
    BY <1>1 DEF GetProof
<1>3. /\ Mirrors(root', journal, db) /\ EditedBy(root', journal, db, asked, version)
      /\ root'[RootNode] = root[RootNode] /\ Mirrors(lastSaveRoot', {}, db)
    BY <1>1, <1>2, LoadsKeep
<1>4. TreesOK' BY <1>2, <1>3 DEF TreesOK
<1>5. RecordsOK' BY <1>2 DEF RecordsOK
<1> QED BY <1>3, <1>4, <1>5

\* Set and MultiSet edit the working tree as the items say.
LEMMA SetItemsKeeps ==
    ASSUME TypeOK, RangeInv, RecordsOK, TreesOK,
           NEW S \in (SUBSET Keys) \ {{}}, NEW items \in [S -> Value], NEW b \in Nat,
           b > version, journal # {} => b = LatestVersion(root[RootNode].versions),
           SetItems(items, b)
    PROVE  /\ RecordsOK' /\ TreesOK'
           /\ Root(root'[RootNode]) = Overlay(Root(root[RootNode]), items)
<1> DEFINE t == Extend(root, Paths[S])
<1>1. DOMAIN items = S /\ S \in SUBSET Keys OBVIOUS
<1>2. /\ t \in Tree /\ Mirrors(t, journal, db) /\ \A n \in Paths[S] : Resident(t[n])
      /\ EditedBy(t, journal, db, asked, version) /\ t[RootNode] = root[RootNode]
      /\ Mirrors(SavedTreeAfterLoad(S), {}, db)
    BY <1>1, LoadsKeep
<1>3. /\ db \in Records /\ asked \in Int /\ version \in Nat /\ recentVersion \in Nat
    BY StateTypes
<1>4. /\ recentVersion <= version /\ Ordered(db, recentVersion, version)
      /\ Hashed(db, recentVersion)
    BY DEF RangeInv, RangeSurvivesRestart, RecordsOK
<1> HIDE DEF t
<1>5. /\ root' = WithEntries(t, S, items, b)
      /\ lastSaveRoot' = SavedTreeAfterLoad(S)
      /\ journal' = journal \cup Paths[S]
      /\ UNCHANGED <<version, recentVersion, db, dbChild, dbVersion, asked>>
    BY <1>1 DEF SetItems, WithEntries, t
<1>6. journal # {} => b = LatestVersion(t[RootNode].versions) BY <1>2
<1>7. /\ Mirrors(root', journal \cup Paths[S], db)
      /\ EditedBy(root', journal \cup Paths[S], db, asked, version)
      /\ Root(root'[RootNode]) = Overlay(Root(t[RootNode]), items)
    <2>1. /\ t \in Tree /\ Mirrors(t, journal, db) /\ \A n \in Paths[S] : Resident(t[n])
          /\ EditedBy(t, journal, db, asked, version)
        BY <1>2
    <2>2. ASSUME NEW u, u = WithEntries(t, S, items, b)
          PROVE  /\ Mirrors(u, journal \cup Paths[S], db)
                 /\ EditedBy(u, journal \cup Paths[S], db, asked, version)
                 /\ Root(u[RootNode]) = Overlay(Root(t[RootNode]), items)
        BY <1>3, <1>4, <1>6, <2>1, <2>2, SetEdits
    <2> QED BY <1>5, <2>2
<1>8. TreesOK' BY <1>2, <1>5, <1>7 DEF TreesOK
<1>9. RecordsOK' BY <1>5 DEF RecordsOK
<1> QED BY <1>2, <1>7, <1>8, <1>9

\* Reset takes the saved tree, which has no edits.
LEMMA ResetKeeps ==
    ASSUME TypeOK, RangeInv, RecordsOK, TreesOK, interrupted = Nothing, Reset
    PROVE  /\ RecordsOK' /\ TreesOK'
           /\ Root(root'[RootNode]) = Contents(db, version)
<1>1. /\ journal' = {} /\ root' = lastSaveRoot /\ asked' = NoVersion
      /\ UNCHANGED <<version, recentVersion, lastSaveRoot, db, dbChild, dbVersion>>
    BY DEF Reset
<1>2. lastSaveRoot \in Tree /\ db \in Records /\ version \in Nat /\ recentVersion \in Nat
    BY StateTypes
<1>3. /\ recentVersion <= version /\ Ordered(db, recentVersion, version)
      /\ Hashed(db, recentVersion) /\ Mirrors(lastSaveRoot, {}, db)
    BY DEF RangeInv, RangeSurvivesRestart, RecordsOK, TreesOK
<1>4. /\ Root(lastSaveRoot[RootNode]) = Contents(db, version)
      /\ EditedBy(lastSaveRoot, {}, db, NoVersion, version)
    BY <1>2, <1>3, CleanRoot
<1>5. TreesOK' BY <1>1, <1>3, <1>4 DEF TreesOK
<1>6. RecordsOK' BY <1>1 DEF RecordsOK
<1> QED BY <1>1, <1>4, <1>5, <1>6

----------------------------------------------------------------------------
(* Commits.                                                                *)

\* A bound on what was pruned may be raised.
LEMMA PendingMore ==
    ASSUME NEW vs, NEW stored \in Versions, NEW a \in Int, NEW r \in Int, a <= r,
           NEW b, NEW h, Pending(vs, stored, a, b, h)
    PROVE  Pending(vs, stored, r, b, h)
<1>1. PICK us : KeptFrom(us, stored, a) /\ vs = Append(us, Info(b, h)) BY DEF Pending
<1>2. KeptFrom(us, us, r) BY DEF KeptFrom
<1>3. KeptFrom(us, stored, r) BY <1>1, <1>2, KeptTwice
<1> QED BY <1>1, <1>3 DEF Pending

\* Pruning an edited node, below the version of the block.
LEMMA PendingPruned ==
    ASSUME NEW vs, NEW stored \in Versions, Sorted(stored), NEW a \in Int, NEW r \in Int,
           a <= r, NEW b \in Nat, r < b, NEW h \in Content, Pending(vs, stored, a, b, h)
    PROVE  Pending(Prune(vs, r), stored, r, b, h)
<1>1. PICK us : KeptFrom(us, stored, a) /\ vs = Append(us, Info(b, h)) BY DEF Pending
<1>2. us \in Versions BY <1>1, KeptReads
<1>3. Info(b, h) \in VersionInfo(Content) /\ Info(b, h).ver = b BY DEF Info, VersionInfo
<1>4. PICK ws : Prune(Append(us, Info(b, h)), r) = Append(ws, Info(b, h)) /\ KeptFrom(ws, us, r)
    BY <1>2, <1>3, PruneAppend
<1>5. KeptFrom(ws, stored, r) BY <1>1, <1>4, KeptTwice
<1> QED BY <1>1, <1>4, <1>5 DEF Pending

\* What a call of Commit asks for, in the version v of the block.
MayCommit(recent, v) ==
    /\ recent \in NoVersion .. MaxVersion /\ v \in Nat
    /\ v > version
    /\ journal # {} => v = LatestVersion(root[RootNode].versions)
    /\ CommitAccepted(recent, v)
    /\ RecentChoice(recent)

\* The version up to which the edited nodes are pruned after the call.
PrunedTo(recent) == IF recent = NoVersion THEN asked ELSE recent

\* writeNode's pruning changes neither the edits nor the hashes.
LEMMA PrunedEdits ==
    ASSUME TypeOK, RecordsOK, TreesOK, NEW recent, NEW v, MayCommit(recent, v),
           NEW visited \in SUBSET journal, NEW t, t = Pruned(recent, visited)
    PROVE  /\ t \in Tree /\ Mirrors(t, journal, db)
           /\ EditedBy(t, journal, db, PrunedTo(recent), version)
           /\ Root(t[RootNode]) = Root(root[RootNode])
           /\ \A n \in journal : Pending(t[n].versions, db[n].versions, PrunedTo(recent), v,
                                         Below(Root(root[RootNode]), n))
<1> DEFINE W == Root(root[RootNode])
           r == PrunedTo(recent)
<1>1. root \in Tree /\ db \in Records /\ asked \in Int /\ version \in Nat /\ journal \subseteq Nodes
    BY StateTypes
<1>2. /\ Mirrors(root, journal, db) /\ EditedBy(root, journal, db, asked, version)
      /\ Ordered(db, recentVersion, version)
    BY DEF RecordsOK, TreesOK
<1>3. /\ recent \in Int /\ r \in Int /\ asked <= r
      /\ v \in Nat /\ v > version
      /\ journal # {} => v = LatestVersion(root[RootNode].versions)
      /\ recent # NoVersion => recent = r /\ recent < v
      /\ recent = NoVersion => r = asked
    BY <1>1, SMTAssumption
    DEF MayCommit, PrunedTo, CommitAccepted, RecentChoice, NoVersion
<1>4. W \in Content BY <1>1, RootType, NodesClosed DEF Tree
<1>5. /\ Closed(journal)
      /\ \A n \in journal : Pending(root[n].versions, db[n].versions, asked, v, Below(W, n))
      /\ \A k \in Keys \ journal : W[k] = Contents(db, version)[k]
    BY <1>2, <1>3 DEF EditedBy
<1>6. t \in Tree BY PrunedType DEF MayCommit
<1> HIDE DEF W, r
<1>7. ASSUME NEW n \in Nodes
      PROVE  /\ db[n].versions \in Versions /\ Sorted(db[n].versions)
             /\ Upto(db[n].versions, version) /\ Below(W, n) \in Content /\ root[n] \in Node
    BY <1>1, <1>2, <1>4, BelowType DEF Records, StoredRecord, Ordered, Tree
<1>8. ASSUME NEW n \in Nodes
      PROVE  /\ t[n].state = root[n].state
             /\ n \notin visited => t[n] = root[n]
             /\ recent = NoVersion => t[n] = root[n]
             /\ n \in visited /\ recent # NoVersion =>
                    t[n].versions = Prune(root[n].versions, recent)
    <2>1. t[n] = IF n \in visited /\ recent # NoVersion
                 THEN [root[n] EXCEPT !.versions = Prune(@, recent)]
                 ELSE root[n]
        BY DEF Pruned
    <2>2. root[n] \in Node BY <1>7
    <2> QED BY <2>1, <2>2 DEF Node
<1>9. ASSUME NEW n \in journal
      PROVE  Pending(t[n].versions, db[n].versions, r, v, Below(W, n))
    <2>1. n \in Nodes BY <1>1
    <2>2. Pending(root[n].versions, db[n].versions, asked, v, Below(W, n)) BY <1>5
    <2>3. db[n].versions \in Versions /\ Sorted(db[n].versions) /\ Below(W, n) \in Content
        BY <1>7, <2>1
    <2>4. CASE n \notin visited \/ recent = NoVersion
        <3>1. t[n] = root[n] BY <1>8, <2>1, <2>4
        <3> QED BY <1>1, <1>3, <2>2, <2>3, <3>1, PendingMore
    <2>5. CASE n \in visited /\ recent # NoVersion
        <3>1. recent = r /\ r < v /\ t[n].versions = Prune(root[n].versions, r)
            BY <1>3, <1>8, <2>1, <2>5
        <3>2. Pending(Prune(root[n].versions, r), db[n].versions, r, v, Below(W, n))
            BY <1>1, <1>3, <2>2, <2>3, <3>1, PendingPruned
        <3> QED BY <3>1, <3>2
    <2> QED BY <2>4, <2>5
<1>10. RootNode \in Nodes /\ (journal # {} => RootNode \in journal)
    BY <1>1, <1>5, PathFacts, NodesClosed DEF Closed
<1>11. Root(t[RootNode]) = W /\ (journal # {} => LatestVersion(t[RootNode].versions) = v)
    <2>1. CASE journal = {} BY <1>8, <1>10, <2>1 DEF W
    <2>2. CASE journal # {}
        <3>1. Pending(t[RootNode].versions, db[RootNode].versions, r, v, Below(W, RootNode))
            BY <1>9, <1>10, <2>2
        <3>2. Below(W, RootNode) = W BY <1>4, BelowRoot
        <3>3. Pending(t[RootNode].versions, db[RootNode].versions, r, v, W) BY <3>1, <3>2
        <3>4. /\ db[RootNode].versions \in Versions /\ Sorted(db[RootNode].versions)
              /\ Upto(db[RootNode].versions, version)
            BY <1>7, <1>10
        <3>5. LatestHash(t[RootNode].versions, NilHash) = W /\ LatestVersion(t[RootNode].versions) = v
            BY <1>1, <1>3, <1>4, <3>3, <3>4, PendingLatest
        <3> QED BY <3>5 DEF Root
    <2> QED BY <2>1, <2>2
<1>12. EditedBy(t, journal, db, r, version)
    BY <1>3, <1>5, <1>9, <1>11 DEF EditedBy
<1>13. ASSUME NEW n \in Nodes PROVE NodeMirrors(t, journal, db, n)
    <2>1. NodeMirrors(root, journal, db, n) BY <1>2 DEF Mirrors
    <2>2. Seen(t, n) <=> Seen(root, n) BY <1>8, NodesClosed DEF Seen, Resident
    <2>3. CASE n \in journal
        <3>1. t[n].state = "resident" BY <1>8, <2>1, <2>3 DEF NodeMirrors, Resident
        <3> QED BY <1>8, <2>1, <2>2, <2>3, <3>1 DEF NodeMirrors, Resident
    <2>4. CASE n \notin journal
        <3>1. t[n] = root[n] BY <1>8, <2>4
        <3> QED BY <2>1, <2>2, <3>1 DEF NodeMirrors
    <2> QED BY <2>3, <2>4
<1>14. Resident(t[RootNode]) BY <1>2, <1>8, <1>10 DEF Mirrors, Resident
<1> QED BY <1>6, <1>9, <1>11, <1>12, <1>13, <1>14 DEF Mirrors, W, r

\* The records and the tree that writes them show each other. Tree c is what
\* the parents saw of their children.
LEMMA StoredMirrors ==
    ASSUME TypeOK, Linked(db, dbChild), NEW t \in Tree, NEW J, Closed(J), Mirrors(t, J, db),
           NEW c, \A n \in Nodes : n \notin J => c[n] = t[n],
           \A n \in J : Alike(c[n].versions, t[n].versions),
           NEW e, e = Stored(J, t), NEW ec, ec = StoredEntries(J, c)
    PROVE  Mirrors(t, {}, e) /\ Linked(e, ec)
<1>1. ASSUME NEW n \in J PROVE e[n].found = TRUE /\ e[n].versions = t[n].versions
    BY DEF Stored, Closed
<1>2. ASSUME NEW n \in Nodes, n \notin J PROVE e[n] = db[n] BY <1>2 DEF Stored
<1>3. ASSUME NEW n \in Nodes \ {RootNode}
      PROVE  /\ Parent[n] \in Nodes /\ (n \in J => Parent[n] \in J)
             /\ ec[n] = IF Parent[n] \in J THEN c[n].versions ELSE dbChild[n]
    <2>1. Parent[n] \in Nodes /\ Parent[n] \in Path[n] BY PathFacts, NodesClosed
    <2> QED BY <2>1 DEF StoredEntries, ToStorage, Closed
<1>4. ASSUME NEW n \in Nodes PROVE NodeMirrors(t, J, db, n) BY DEF Mirrors
<1>5. ASSUME NEW n \in Nodes PROVE NodeMirrors(t, {}, e, n)
    <2>1. CASE n \in J BY <1>1, <1>4, <2>1 DEF NodeMirrors, Alike
    <2>2. CASE n \notin J BY <1>2, <1>4, <2>2 DEF NodeMirrors
    <2> QED BY <2>1, <2>2
<1>6. ASSUME NEW n \in Nodes, ~e[n].found PROVE e[n].versions = <<>>
    <2>1. n \notin J BY <1>1, <1>6
    <2> QED BY <1>2, <1>6, <2>1 DEF Linked
<1>7. ASSUME NEW n \in Nodes \ {RootNode} PROVE Alike(ec[n], e[n].versions)
    <2>1. CASE Parent[n] \in J
        <3>1. Seen(t, n) BY <1>3, <1>4, <2>1 DEF Seen, NodeMirrors
        <3>2. Alike(t[n].versions, e[n].versions) BY <1>5, <3>1 DEF NodeMirrors
        <3>3. Alike(c[n].versions, t[n].versions) \/ c[n] = t[n] OBVIOUS
        <3> QED BY <1>3, <2>1, <3>2, <3>3 DEF Alike
    <2>2. CASE Parent[n] \notin J BY <1>2, <1>3, <2>2 DEF Linked
    <2> QED BY <2>1, <2>2
<1>8. ASSUME NEW n \in Nodes \ {RootNode}, e[n].found PROVE e[Parent[n]].found
    <2>1. CASE Parent[n] \in J BY <1>1, <2>1
    <2>2. CASE Parent[n] \notin J BY <1>2, <1>3, <1>8, <2>2 DEF Linked
    <2> QED BY <2>1, <2>2
<1> QED BY <1>5, <1>6, <1>7, <1>8 DEF Mirrors, Linked

\* A node has the same newest hash before and after it is pruned.
LEMMA LatePruned ==
    ASSUME TypeOK, RecordsOK, TreesOK, NEW recent, NEW v, MayCommit(recent, v), NEW late,
           NEW t, t = Pruned(recent, journal), NEW c, c = Pruned(recent, journal \ late)
    PROVE  /\ \A n \in Nodes : n \notin journal => c[n] = t[n]
           /\ \A n \in journal : Alike(c[n].versions, t[n].versions)
<1>1. \A n \in Nodes : n \notin journal => c[n] = t[n] BY DEF Pruned
<1>2. ASSUME NEW n \in journal PROVE Alike(c[n].versions, t[n].versions)
    <2> DEFINE h == Below(Root(root[RootNode]), n)
    <2>1. /\ root \in Tree /\ db \in Records /\ asked \in Int /\ version \in Nat /\ n \in Nodes
        BY StateTypes
    <2>2. c[n] = t[n] \/ c[n] = root[n] BY <2>1 DEF Pruned
    <2>3. /\ v \in Nat /\ v > version /\ PrunedTo(recent) \in Int
          /\ v = LatestVersion(root[RootNode].versions)
        BY <2>1, SMTAssumption DEF MayCommit, PrunedTo, NoVersion
    <2>4. /\ Pending(t[n].versions, db[n].versions, PrunedTo(recent), v, h)
          /\ Pending(root[n].versions, db[n].versions, asked, v, h)
        BY <2>3, PrunedEdits DEF TreesOK, EditedBy
    <2>5. h \in Content
        <3>1. Root(root[RootNode]) \in Content BY <2>1, RootType, NodesClosed DEF Tree
        <3> QED BY <3>1, BelowType
    <2>6. db[n].versions \in Versions /\ Sorted(db[n].versions) /\ Upto(db[n].versions, version)
        BY <2>1 DEF Records, StoredRecord, RecordsOK, Ordered
    <2> HIDE DEF h
    <2>7. t[n].versions # <<>> /\ LatestHash(t[n].versions, NilHash) = h
        BY <2>1, <2>3, <2>4, <2>5, <2>6, PendingLatest
    <2>8. root[n].versions # <<>> /\ LatestHash(root[n].versions, NilHash) = h
        BY <2>1, <2>3, <2>4, <2>5, <2>6, PendingLatest
    <2> QED BY <2>2, <2>7, <2>8 DEF Alike
<1> QED BY <1>1, <1>2

\* A commit adds the working map as version v, and what is read in the other
\* retained versions stays.
LEMMA CommitKeeps ==
    ASSUME TypeOK, RangeInv, RecordsOK, TreesOK, NEW recent, NEW v, MayCommit(recent, v),
           NEW release \in Nat, NEW late, CommitWithNewVersion(recent, v, release, late)
    PROVE  /\ RecordsOK' /\ TreesOK'
           /\ Root(root'[RootNode]) = Root(root[RootNode])
           /\ Contents(db', v) = Root(root[RootNode])
           /\ \A w \in Nat : w >= recentVersion' /\ w < v => Contents(db', w) = Contents(db, w)
<1> DEFINE t == Pruned(recent, journal)
           W == Root(root[RootNode])
           rv == IF recent = NoVersion THEN recentVersion ELSE recent
<1>1. /\ root \in Tree /\ db \in Records /\ asked \in Int /\ version \in Nat
      /\ journal \subseteq Nodes /\ recentVersion \in Nat
    BY StateTypes
<1>2. /\ Linked(db, dbChild) /\ Ordered(db, recentVersion, version)
      /\ Hashed(db, recentVersion) /\ recentVersion <= version
    BY DEF RecordsOK, RangeInv, RangeSurvivesRestart
<1>3. /\ v \in Nat /\ v > version /\ rv \in Nat /\ recentVersion <= rv /\ rv <= v
      /\ PrunedTo(recent) \in Int /\ PrunedTo(recent) <= rv
    BY <1>1, <1>2, SMTAssumption
    DEF MayCommit, PrunedTo, CommitAccepted, RecentChoice, NoVersion
<1>4. W \in Content BY <1>1, RootType, NodesClosed DEF Tree
<1>5. /\ t \in Tree /\ Mirrors(t, journal, db)
      /\ EditedBy(t, journal, db, PrunedTo(recent), version) /\ Root(t[RootNode]) = W
      /\ \A n \in journal : Pending(t[n].versions, db[n].versions, PrunedTo(recent), v, Below(W, n))
    BY PrunedEdits
<1>6. Closed(journal) /\ \A k \in Keys \ journal : W[k] = Contents(db, version)[k]
    BY <1>5 DEF EditedBy
<1> HIDE DEF t, W
<1>7. /\ db' = Stored(journal, t)
      /\ dbChild' = StoredEntries(journal, Pruned(recent, journal \ late))
      /\ root' = IF release > 0 THEN Released(t, release) ELSE t
      /\ lastSaveRoot' = root' /\ journal' = {} /\ version' = v /\ dbVersion' = v
      /\ recentVersion' = rv /\ asked' = NoVersion
    BY DEF CommitWithNewVersion, t
<1> HIDE DEF rv
<1>8. Mirrors(t, {}, db') /\ Linked(db', dbChild')
    <2> DEFINE c == Pruned(recent, journal \ late)
    <2>1. /\ \A n \in Nodes : n \notin journal => c[n] = t[n]
          /\ \A n \in journal : Alike(c[n].versions, t[n].versions)
        BY LatePruned DEF t
    <2>2. dbChild' = StoredEntries(journal, c) BY <1>7
    <2> HIDE DEF c
    <2> QED BY <1>2, <1>5, <1>6, <1>7, <2>1, <2>2, StoredMirrors
<1>9. db' \in Records BY <1>5, <1>7, StoredType DEF Records
<1>10. Committed(db', db, journal, W, rv, v)
    <2>1. ASSUME NEW n \in journal
          PROVE  db'[n].found /\ Pending(db'[n].versions, db[n].versions, rv, v, Below(W, n))
        <3>1. n \in Nodes BY <1>1
        <3>2. db'[n].found = TRUE /\ db'[n].versions = t[n].versions
            BY <1>7, <3>1 DEF Stored
        <3>3. db[n].versions \in Versions BY <1>1, <3>1 DEF Records, StoredRecord
        <3>4. rv \in Int BY <1>3
        <3>5. Pending(t[n].versions, db[n].versions, PrunedTo(recent), v, Below(W, n)) BY <1>5
        <3>6. Pending(t[n].versions, db[n].versions, rv, v, Below(W, n))
            BY <1>3, <3>3, <3>4, <3>5, PendingMore
        <3> QED BY <3>2, <3>6
    <2>2. ASSUME NEW n \in Nodes, n \notin journal PROVE db'[n] = db[n]
        BY <1>7, <2>2 DEF Stored
    <2> QED BY <2>1, <2>2 DEF Committed
<1>11. Ordered(db', rv, v)
    BY <1>1, <1>2, <1>3, <1>4, <1>6, <1>10, CommitOrdered
<1>12. /\ Hashed(db', rv) /\ \A w \in Nat : w >= v => Contents(db', w) = W
       /\ \A w \in Nat : w >= rv /\ w < v => Contents(db', w) = Contents(db, w)
    BY <1>1, <1>2, <1>3, <1>4, <1>6, <1>10, CommitHashed DEF Unedited
<1>13. Mirrors(root', {}, db') /\ root' \in Tree
    <2>1. CASE release > 0 BY <1>5, <1>7, <1>8, <2>1, ReleasedMirrors, ReleasedType
    <2>2. CASE ~(release > 0) BY <1>5, <1>7, <1>8, <2>2
    <2> QED BY <2>1, <2>2
<1>14. Root(root'[RootNode]) = Contents(db', v) /\ EditedBy(root', {}, db', NoVersion, v)
    BY <1>3, <1>9, <1>11, <1>12, <1>13, CleanRoot
<1>15. Contents(db', v) = W BY <1>3, <1>12
<1>16. TreesOK' BY <1>7, <1>13, <1>14 DEF TreesOK
<1>17. RecordsOK'
    <2>1. v # NoVersion BY <1>3 DEF NoVersion
    <2> QED BY <1>7, <1>8, <1>11, <1>12, <2>1 DEF RecordsOK
<1> QED BY <1>7, <1>12, <1>14, <1>15, <1>16, <1>17 DEF W

\* Storing nothing.
LEMMA NothingStored ==
    ASSUME TypeOK, NEW t PROVE Stored({}, t) = db /\ StoredEntries({}, t) = dbChild
BY DEF Stored, StoredEntries, TypeOK

\* A commit whose write fails has pruned the edited nodes in memory, no more.
LEMMA CommitFailsKeeps ==
    ASSUME TypeOK, RecordsOK, TreesOK, NEW recent, NEW v, MayCommit(recent, v),
           NEW visited, NEW late, CommitFails(recent, v, visited, {}, late)
    PROVE  /\ RecordsOK' /\ TreesOK' /\ interrupted' = interrupted
           /\ Root(root'[RootNode]) = Root(root[RootNode])
           /\ UNCHANGED <<version, recentVersion, db>>
<1>1. visited \in SUBSET journal BY DEF CommitFails
<1>2. /\ root' = Pruned(recent, visited) /\ db' = Stored({}, root')
      /\ dbChild' = StoredEntries({}, Pruned(recent, visited \ late))
      /\ asked' = PrunedTo(recent) /\ interrupted' = interrupted
      /\ UNCHANGED <<version, recentVersion, lastSaveRoot, journal, dbVersion>>
    BY DEF CommitFails, PrunedTo
<1>3. db' = db /\ dbChild' = dbChild BY <1>2, NothingStored
<1>4. /\ Mirrors(root', journal, db)
      /\ EditedBy(root', journal, db, PrunedTo(recent), version)
      /\ Root(root'[RootNode]) = Root(root[RootNode])
    BY <1>1, <1>2, PrunedEdits
<1>5. TreesOK' BY <1>2, <1>3, <1>4 DEF TreesOK
<1>6. RecordsOK' BY <1>2, <1>3 DEF RecordsOK
<1> QED BY <1>2, <1>3, <1>4, <1>5, <1>6

----------------------------------------------------------------------------
(* Rollback and restart.                                                   *)

\* What Rollback to tg needs of the records and of the saved tree: an earlier
\* one to the same target may have been interrupted.
RollbackReady(tg) ==
    /\ LinkedBut(db, dbChild, tg)
    /\ Ordered(db, recentVersion, version)
    /\ HashedTo(db, recentVersion, tg)
    /\ MirrorsBut(lastSaveRoot, db, tg)

\* Without an interruption every target will do.
LEMMA AlwaysReady ==
    ASSUME RecordsOK, TreesOK, NEW tg PROVE RollbackReady(tg)
<1>1. /\ Linked(db, dbChild) /\ Ordered(db, recentVersion, version)
      /\ Hashed(db, recentVersion) /\ Mirrors(lastSaveRoot, {}, db)
    BY DEF RecordsOK, TreesOK
<1>2. LinkedBut(db, dbChild, tg) /\ MirrorsBut(lastSaveRoot, db, tg) BY <1>1, ButWhole
<1>3. HashedTo(db, recentVersion, tg) BY <1>1 DEF Hashed, HashedTo
<1> QED BY <1>1, <1>2, <1>3 DEF RollbackReady

\* Rollback leaves the versions up to its target, and the tree of the target.
LEMMA RollbackKeeps ==
    ASSUME TypeOK, NEW target \in Nat, RollbackReady(target), Rollback(target)
    PROVE  /\ RecordsOK' /\ TreesOK'
           /\ Root(root'[RootNode]) = Contents(db, target)
           /\ \A w \in Nat : w <= target => Contents(db', w) = Contents(db, w)
<1> DEFINE D == Dropping(target)
           t == RolledBack(target, D)
<1>1. /\ db \in Records /\ version \in Nat /\ recentVersion \in Nat BY StateTypes
<1>2. /\ LinkedBut(db, dbChild, target) /\ Ordered(db, recentVersion, version)
      /\ HashedTo(db, recentVersion, target) /\ MirrorsBut(lastSaveRoot, db, target)
      /\ recentVersion <= target /\ target <= version
    BY DEF RollbackReady, Rollback, RollbackAccepted
<1>3. t \in Tree BY RolledBackType
<1> HIDE DEF t, D
<1>4. /\ root' = t /\ lastSaveRoot' = t /\ db' = Stored(D, t)
      /\ dbChild' = StoredEntries(D, t) /\ journal' = {} /\ version' = target
      /\ dbVersion' = target /\ asked' = NoVersion /\ recentVersion' = recentVersion
    BY DEF Rollback, D, t
<1>5. db' \in Records BY <1>3, <1>4, StoredType DEF Records
<1>6. Undone(db', db, target) /\ Mirrors(t, {}, db') /\ Linked(db', StoredEntries(D, t))
    BY <1>1, <1>2, <1>4, RolledBackMirrors DEF D, t
<1>7. /\ Ordered(db', recentVersion, target) /\ Hashed(db', recentVersion)
      /\ \A w \in Nat : w <= target => Contents(db', w) = Contents(db, w)
    BY <1>1, <1>2, <1>6, RollbackRecords
<1>8. Root(t[RootNode]) = Contents(db', target) /\ EditedBy(t, {}, db', NoVersion, target)
    BY <1>1, <1>2, <1>3, <1>5, <1>6, <1>7, CleanRoot
<1>9. Contents(db', target) = Contents(db, target) BY <1>7
<1>10. TreesOK' BY <1>4, <1>6, <1>8 DEF TreesOK
<1>11. RecordsOK'
    <2>1. target # NoVersion BY DEF NoVersion
    <2> QED BY <1>4, <1>6, <1>7, <2>1 DEF RecordsOK
<1> QED BY <1>4, <1>7, <1>8, <1>9, <1>10, <1>11

\* A rollback whose write fails leaves the records, and a tree that is ahead of
\* them: it shows the target.
LEMMA RollbackFailsKeeps ==
    ASSUME TypeOK, RecordsOK, TreesOK, NEW target \in Nat, RollbackFails(target, {})
    PROVE  /\ RecordsOK' /\ interrupted' = interrupted
           /\ \E D \in SUBSET Nodes : Mirrors(root', D, db')
           /\ Root(root'[RootNode]) = Contents(db, target)
           /\ UNCHANGED <<version, recentVersion, db>>
<1> DEFINE D == Dropping(target)
           t == RolledBack(target, D)
           e == Stored(D, t)
<1>1. /\ db \in Records /\ version \in Nat /\ recentVersion \in Nat BY StateTypes
<1>2. /\ LinkedBut(db, dbChild, target) /\ Ordered(db, recentVersion, version)
      /\ HashedTo(db, recentVersion, target) /\ MirrorsBut(lastSaveRoot, db, target)
      /\ recentVersion <= target /\ target <= version
    BY AlwaysReady DEF RollbackReady, RollbackFails, RollbackAccepted
<1>3. t \in Tree BY RolledBackType
<1> HIDE DEF t, D, e
<1>5. /\ root' = t /\ db' = Stored({}, t) /\ dbChild' = StoredEntries({}, t)
      /\ interrupted' = interrupted
      /\ UNCHANGED <<version, recentVersion, dbVersion>>
    BY DEF RollbackFails, D, t
<1>6. db' = db /\ dbChild' = dbChild BY <1>5, NothingStored
<1>7. Undone(e, db, target) /\ Mirrors(t, {}, e) /\ Mirrors(t, D, db)
    BY <1>1, <1>2, RolledBackMirrors DEF D, t, e
<1>8. e \in Records BY <1>3, StoredType DEF Records, e
<1>9. /\ Ordered(e, recentVersion, target) /\ Hashed(e, recentVersion)
      /\ \A w \in Nat : w <= target => Contents(e, w) = Contents(db, w)
    BY <1>1, <1>2, <1>7, RollbackRecords
<1>10. Root(t[RootNode]) = Contents(e, target)
    BY <1>1, <1>2, <1>3, <1>7, <1>8, <1>9, CleanRoot
<1>11. Contents(e, target) = Contents(db, target) BY <1>9
<1>12. D \in SUBSET Nodes BY DEF D, Dropping
<1>13. RecordsOK' BY <1>5, <1>6 DEF RecordsOK
<1> QED BY <1>5, <1>6, <1>7, <1>10, <1>11, <1>12, <1>13

\* The tree initFromStorage builds: the root with its record's versions, and
\* what that record says of the root's children.
LEMMA ReopenedShape ==
    ASSUME TypeOK, \A n \in Nodes : ~db[n].found => db[n].versions = <<>>,
           NEW t, t = ReopenedTree
    PROVE  /\ t[RootNode].state = "resident"
           /\ t[RootNode].versions
                  = IF dbVersion = NoVersion THEN <<>> ELSE db[RootNode].versions
           /\ \A n \in Nodes \ {RootNode} :
                  /\ ~Resident(t[n]) /\ (Seen(t, n) <=> Parent[n] = RootNode)
                  /\ t[n] = IF Parent[n] = RootNode /\ dbVersion # NoVersion /\ db[RootNode].found
                            THEN StoredChild(n) ELSE NilNode
<1> DEFINE fresh == [n \in Nodes |-> NilNode]
<1>1. RootNode \in Nodes BY NodesClosed
<1>2. \A n \in Nodes : fresh[n] = NilNode /\ ~Resident(fresh[n]) BY DEF Resident, NilNode
<1>3. t = IF dbVersion = NoVersion \/ ~db[RootNode].found
          THEN [n \in Nodes |-> IF n = RootNode THEN NewTreeNode ELSE NilNode]
          ELSE Extend(fresh, {RootNode})
    BY DEF ReopenedTree
<1> HIDE DEF fresh
<1>4. /\ t[RootNode].state = "resident"
      /\ t[RootNode].versions = IF dbVersion = NoVersion THEN <<>> ELSE db[RootNode].versions
    <2>1. CASE dbVersion = NoVersion \/ ~db[RootNode].found
        BY <1>1, <1>3, <2>1 DEF NewTreeNode
    <2>2. CASE ~(dbVersion = NoVersion \/ ~db[RootNode].found)
        BY <1>1, <1>2, <1>3, <2>2 DEF Extend
    <2> QED BY <2>1, <2>2
<1>5. ASSUME NEW n \in Nodes \ {RootNode}
      PROVE  t[n] = IF Parent[n] = RootNode /\ dbVersion # NoVersion /\ db[RootNode].found
                    THEN StoredChild(n) ELSE NilNode
    <2>1. CASE dbVersion = NoVersion \/ ~db[RootNode].found BY <1>3, <2>1
    <2>2. CASE ~(dbVersion = NoVersion \/ ~db[RootNode].found)
        BY <1>1, <1>2, <1>3, <2>2 DEF Extend
    <2> QED BY <2>1, <2>2
<1>6. ASSUME NEW n \in Nodes \ {RootNode} PROVE ~Resident(t[n])
    <2>1. ~Resident(StoredChild(n)) /\ ~Resident(NilNode)
        BY DEF Resident, StoredChild, NilNode
    <2> QED BY <1>5, <2>1
<1>7. ASSUME NEW n \in Nodes \ {RootNode} PROVE Seen(t, n) <=> Parent[n] = RootNode
    BY <1>4, <1>6, NodesClosed DEF Seen, Resident
<1> QED BY <1>4, <1>5, <1>6, <1>7

\* The records are those of the version the database has as the latest one.
StoreOK ==
    /\ Linked(db, dbChild)
    /\ Ordered(db, ReopenedRecent, ReopenedVersion)
    /\ Hashed(db, ReopenedRecent)
    /\ dbVersion = NoVersion => \A n \in Nodes : ~db[n].found

\* Without an interruption that is the version in memory.
LEMMA RecordsStored ==
    ASSUME RangeInv, RecordsOK, interrupted = Nothing
    PROVE  StoreOK /\ ReopenedVersion = version /\ ReopenedRecent = recentVersion
BY DEF RangeInv, RangeSurvivesRestart, RecordsOK, StoreOK

\* It shows the records.
LEMMA ReopenedMirrors ==
    ASSUME TypeOK, StoreOK PROVE Mirrors(ReopenedTree, {}, db)
<1> DEFINE t == ReopenedTree
<1>1. /\ RootNode \in Nodes /\ Linked(db, dbChild)
      /\ dbVersion = NoVersion => \A n \in Nodes : ~db[n].found
    BY NodesClosed DEF StoreOK
<1>2. \A n \in Nodes : ~db[n].found => db[n].versions = <<>> BY <1>1 DEF Linked
<1>3. /\ t[RootNode].state = "resident"
      /\ t[RootNode].versions = IF dbVersion = NoVersion THEN <<>> ELSE db[RootNode].versions
      /\ \A n \in Nodes \ {RootNode} :
             /\ ~Resident(t[n]) /\ (Seen(t, n) <=> Parent[n] = RootNode)
             /\ t[n] = IF Parent[n] = RootNode /\ dbVersion # NoVersion /\ db[RootNode].found
                       THEN StoredChild(n) ELSE NilNode
    BY <1>2, ReopenedShape
<1> HIDE DEF t
<1>4. ASSUME NEW n \in Nodes PROVE NodeMirrors(t, {}, db, n)
    <2>1. CASE n = RootNode BY <1>1, <1>2, <1>3, <2>1 DEF NodeMirrors, Seen, Alike
    <2>2. CASE n # RootNode /\ t[n] = StoredChild(n) /\ Parent[n] = RootNode
        <3>1. Alike(dbChild[n], db[n].versions) BY <1>1, <2>2 DEF Linked
        <3> QED BY <1>3, <2>2, <3>1 DEF NodeMirrors, StoredChild, NilNode, Alike
    <2>3. CASE n # RootNode /\ t[n] = NilNode
                  /\ (Parent[n] = RootNode => dbVersion = NoVersion \/ ~db[RootNode].found)
        <3>1. Parent[n] = RootNode => db[n].versions = <<>>
            <4>1. db[n].found \in BOOLEAN BY DEF TypeOK
            <4> QED BY <1>1, <1>2, <2>3, <4>1 DEF Linked
        <3> QED BY <1>3, <2>3, <3>1 DEF NodeMirrors, NilNode, Alike
    <2> QED BY <1>3, <2>1, <2>2, <2>3
<1>5. Resident(t[RootNode]) BY <1>3 DEF Resident
<1> QED BY <1>4, <1>5 DEF Mirrors, t

\* What a restart shows as its root.
LEMMA ReopenedRoot ==
    ASSUME TypeOK, RangeInv, StoreOK
    PROVE  /\ Mirrors(ReopenedTree, {}, db)
           /\ Root(ReopenedTree[RootNode]) = Contents(db, ReopenedVersion)
           /\ EditedBy(ReopenedTree, {}, db, NoVersion, ReopenedVersion)
<1>1. Mirrors(ReopenedTree, {}, db) /\ ReopenedTree \in Tree
    BY ReopenedMirrors, ReopenedTreeType
<1>2. db \in Records BY StateTypes
<1>3. /\ ReopenedVersion \in Nat /\ ReopenedRecent \in Nat /\ ReopenedRecent <= ReopenedVersion
    BY SMTAssumption
    DEF RangeInv, RangeSurvivesRestart, TypeOK, ReopenedVersion, ReopenedRecent, NoVersion
<1>4. Ordered(db, ReopenedRecent, ReopenedVersion) /\ Hashed(db, ReopenedRecent) BY DEF StoreOK
<1> QED BY <1>1, <1>2, <1>3, <1>4, CleanRoot

\* A restart shows the latest version again, also after a failed rollback, and
\* the version of a call that was stored to the end.
LEMMA ReopenKeeps ==
    ASSUME TypeOK, RangeInv, StoreOK, interrupted = Nothing \/ IsDone, Reopen
    PROVE  /\ RecordsOK' /\ TreesOK' /\ journal' = {}
           /\ interrupted' = Nothing /\ rollbackFailed' = FALSE
           /\ Root(root'[RootNode]) = Contents(db, ReopenedVersion)
           /\ version' = ReopenedVersion /\ recentVersion' = ReopenedRecent /\ db' = db
<1>1. /\ root' = ReopenedTree /\ lastSaveRoot' = ReopenedTree /\ journal' = {}
      /\ interrupted' = Nothing /\ rollbackFailed' = FALSE
      /\ asked' = NoVersion /\ UNCHANGED <<db, dbChild, dbVersion>>
      /\ version' = ReopenedVersion /\ recentVersion' = ReopenedRecent
    BY DEF Reopen
<1>2. /\ Mirrors(ReopenedTree, {}, db)
      /\ Root(ReopenedTree[RootNode]) = Contents(db, ReopenedVersion)
      /\ EditedBy(ReopenedTree, {}, db, NoVersion, ReopenedVersion)
    BY ReopenedRoot
<1>3. TreesOK' BY <1>1, <1>2 DEF TreesOK
<1>4. RecordsOK' BY <1>1 DEF RecordsOK, StoreOK
<1> QED BY <1>1, <1>2, <1>3, <1>4

----------------------------------------------------------------------------
(* One step.                                                               *)

\* A new tree over an empty database.
LEMMA InitInv == Init => Inv /\ Contents(db, version) = NilHash
<1> SUFFICES ASSUME Init PROVE Inv /\ Contents(db, version) = NilHash OBVIOUS
<1>0. TypeOK BY InitType
<1>1. db \in Records /\ root \in Tree /\ version \in Nat BY <1>0, StateTypes
<1>2. \A n \in Nodes : ~db[n].found /\ db[n].versions = <<>> /\ dbChild[n] = <<>>
    BY DEF Init
<1>3. /\ version \in Nat /\ recentVersion = 0 /\ journal = {} /\ interrupted = Nothing
      /\ rollbackFailed = FALSE /\ lastSaveRoot = root /\ asked = NoVersion
    BY <1>1 DEF Init
<1>4. ASSUME NEW v \in Int PROVE HashAt(<<>>, v, NilHash) = NilHash
    <2>1. <<>> \in Seq(VersionInfo(Content)) /\ Len(<<>>) = 0 OBVIOUS
    <2>2. VisibleIndex(<<>>, v) \in 0 .. Len(<<>>) BY <2>1, VisibleIndexSpec
    <2>3. VisibleIndex(<<>>, v) = 0 BY <2>1, <2>2
    <2> QED BY <2>3 DEF HashAt
<1>5. ASSUME NEW v \in Int PROVE Contents(db, v) = NilHash
    BY <1>2, <1>4, NodesClosed DEF Contents, NilHash
<1>6. Linked(db, dbChild) BY <1>2 DEF Linked, Alike
<1>7. Ordered(db, recentVersion, version)
    <2>1. Sorted(<<>>) BY DEF Sorted
    <2>2. Vers(<<>>) = {}
        <3>1. <<>> \in Versions BY DEF Versions
        <3> QED BY <3>1, VersEmpty
    <2>3. Upto(<<>>, version) /\ \A us : Covered(<<>>, us, recentVersion)
        BY <2>2 DEF Upto, Covered
    <2> QED BY <1>2, <2>1, <2>3 DEF Ordered
<1>8. Hashed(db, recentVersion)
    <2>1. ASSUME NEW n \in Nodes, NEW v \in Nat
          PROVE  HashAt(db[n].versions, v, NilHash) = Below(Contents(db, v), n)
        <3>1. v \in Int OBVIOUS
        <3>2. Below(NilHash, n) = NilHash BY DEF Below, NilHash
        <3> QED BY <1>2, <1>4, <1>5, <3>1, <3>2
    <2> QED BY <2>1 DEF Hashed
<1>9. RecordsOK BY <1>2, <1>6, <1>7, <1>8 DEF RecordsOK
<1>10. Mirrors(root, {}, db)
    <2>1. root = [n \in Nodes |-> IF n = RootNode THEN NewTreeNode ELSE NilNode] BY DEF Init
    <2>2. RootNode \in Nodes BY NodesClosed
    <2>3. ASSUME NEW n \in Nodes PROVE NodeMirrors(root, {}, db, n)
        <3>1. CASE n = RootNode BY <1>2, <2>1, <3>1 DEF NodeMirrors, NewTreeNode, Seen, Alike
        <3>2. CASE n # RootNode BY <1>2, <2>1, <3>2 DEF NodeMirrors, NilNode, Alike, Resident
        <3> QED BY <3>1, <3>2
    <2>4. Resident(root[RootNode]) BY <2>1, <2>2 DEF Resident, NewTreeNode
    <2> QED BY <2>3, <2>4 DEF Mirrors
<1>11. EditedBy(root, {}, db, NoVersion, version)
    <2>1. 0 \in Nat /\ 0 <= version BY <1>1
    <2> QED BY <1>1, <1>3, <1>7, <1>8, <1>10, <2>1, CleanRoot
<1>12. TreesOK BY <1>3, <1>10, <1>11 DEF TreesOK
<1>13. version \in Int BY <1>1
<1> QED BY <1>3, <1>5, <1>9, <1>12, <1>13 DEF Inv

\* The map the working tree commits to.
Work == Root(root[RootNode])

Edited == journal \cap Keys

Same == UNCHANGED <<version, recentVersion, db>>

\* The steps a client can tell apart: nothing, an edit, a commit, the loss of
\* the edits, a rollback, and one whose write failed.
Edits ==
    /\ Same
    /\ \E S \in (SUBSET Keys) \ {{}} : \E items \in [S -> Value] :
           Work' = Overlay(Work, items) /\ Edited' = Edited \cup S

Commits ==
    /\ version' \in Bounded /\ version' > version
    /\ recentVersion <= recentVersion' /\ recentVersion' < version'
    /\ Work' = Work /\ Contents(db', version') = Work /\ Edited' = {}
    /\ \A w \in Nat : w >= recentVersion' /\ w < version' => Contents(db', w) = Contents(db, w)

Undoes ==
    /\ recentVersion <= version' /\ version' <= version /\ recentVersion' = recentVersion
    /\ Work' = Contents(db, version') /\ Edited' = {}
    /\ \A w \in Nat : w <= version' => Contents(db', w) = Contents(db, w)

Misses ==
    /\ Same /\ Edited' = {}
    /\ \E target \in recentVersion .. version : Work' = Contents(db, target)

Loses == Same /\ Edited' = {} /\ Work' = Contents(db, version)

ClientStep ==
    \/ Same /\ Edited' = Edited /\ Work' = Work
    \/ Edits
    \/ Commits
    \/ Loses
    \/ Undoes
    \/ Misses

\* Every step that does not leave a batch written in part keeps the invariant
\* and is one of these.
LEMMA NextInv ==
    ASSUME RedoneCalls, TypeOK, RangeInv, Inv, [Next]_vars, interrupted' = Nothing
    PROVE  Inv' /\ ClientStep
<1>0. /\ \A v \in Bounded : v \in Nat /\ v \in Int
      /\ \A v \in 0 .. MaxVersion : v \in Nat
      /\ version \in Nat /\ recentVersion \in Nat /\ recentVersion <= version
    BY SMTAssumption DEF Bounded, TypeOK, RangeInv, RangeSurvivesRestart
<1>1. interrupted = Nothing /\ RecordsOK /\ (~rollbackFailed => TreesOK) BY DEF Inv
<1>2. ASSUME NEW k \in Keys, NEW v, CallGet(k, v) PROVE Inv' /\ ClientStep
    <2>1. UNCHANGED <<version, recentVersion, root, lastSaveRoot, journal, db, dbChild,
                      dbVersion, asked, rollbackFailed, interrupted>>
        BY <1>2 DEF CallGet, Get
    <2>2. Inv' BY <2>1 DEF Inv, RecordsOK, TreesOK
    <2> QED BY <2>1, <2>2 DEF ClientStep, Same, Work, Edited
<1>3. ASSUME NEW k \in Keys, CallGetProof(k) PROVE Inv' /\ ClientStep
    <2>1. /\ ~rollbackFailed /\ GetProof(k)
          /\ UNCHANGED <<version, recentVersion, db, journal, rollbackFailed, interrupted>>
        BY <1>3 DEF CallGetProof, GetProof
    <2>2. RecordsOK' /\ TreesOK' /\ root'[RootNode] = root[RootNode]
        BY <1>1, <2>1, GetProofKeeps
    <2>3. Inv' BY <1>1, <2>1, <2>2 DEF Inv
    <2> QED BY <2>1, <2>2, <2>3 DEF ClientStep, Same, Work, Edited
<1>4. ASSUME NEW S \in (SUBSET Keys) \ {{}}, NEW items \in [S -> Value], NEW v \in Bounded,
             ~rollbackFailed, BlockVersion(v), SetItems(items, v)
      PROVE  Inv' /\ ClientStep
    <2>1. UNCHANGED <<version, recentVersion, db, rollbackFailed, interrupted>>
        BY <1>4 DEF SetItems
    <2>2. v > version /\ (journal # {} => v = LatestVersion(root[RootNode].versions))
        BY <1>4 DEF BlockVersion
    <2>3. /\ RecordsOK' /\ TreesOK' /\ Root(root'[RootNode]) = Overlay(Root(root[RootNode]), items)
        BY <1>0, <1>1, <1>4, <2>2, SetItemsKeeps
    <2>4. Inv' BY <1>1, <1>4, <2>1, <2>3 DEF Inv
    <2>5. Edits
        <3>1. DOMAIN items = S /\ S \in SUBSET Keys OBVIOUS
        <3>2. journal' = journal \cup Paths[S] BY <1>4, <3>1 DEF SetItems
        <3>3. Paths[S] \cap Keys = S BY <3>1, PathsFacts
        <3>4. Edited' = Edited \cup S BY <3>2, <3>3 DEF Edited
        <3> QED BY <2>1, <2>3, <3>4 DEF Edits, Same, Work
    <2> QED BY <2>4, <2>5 DEF ClientStep
<1>5. ASSUME CallReset PROVE Inv' /\ ClientStep
    <2>1. /\ ~rollbackFailed /\ Reset
          /\ journal' = {}
          /\ UNCHANGED <<version, recentVersion, db, rollbackFailed, interrupted>>
        BY <1>5 DEF CallReset, Reset
    <2>2. RecordsOK' /\ TreesOK' /\ Root(root'[RootNode]) = Contents(db, version)
        BY <1>1, <2>1, ResetKeeps
    <2>3. Inv' BY <1>1, <2>1, <2>2 DEF Inv
    <2> QED BY <2>1, <2>2, <2>3 DEF ClientStep, Loses, Same, Work, Edited
<1>6. ASSUME NEW recent \in NoVersion .. MaxVersion, NEW v \in Bounded,
             NEW release \in 0 .. MaxVersion, NEW late, CallCommit(recent, v, release, late)
      PROVE  Inv' /\ ClientStep
    <2>1. ~rollbackFailed /\ CommitWithNewVersion(recent, v, release, late) BY <1>6 DEF CallCommit
    <2>2. MayCommit(recent, v)
        BY <1>0, <1>6
        DEF CallCommit, BlockVersion, CommitWithNewVersion, MayCommit
    <2>3. /\ RecordsOK' /\ TreesOK' /\ Root(root'[RootNode]) = Root(root[RootNode])
          /\ Contents(db', v) = Root(root[RootNode])
          /\ \A w \in Nat : w >= recentVersion' /\ w < v => Contents(db', w) = Contents(db, w)
        BY <1>0, <1>1, <2>1, <2>2, CommitKeeps
    <2>4. /\ version' = v /\ rollbackFailed' = rollbackFailed /\ interrupted' = Nothing
          /\ journal' = {}
          /\ recentVersion' = IF recent = NoVersion THEN recentVersion ELSE recent
        BY <2>1 DEF CommitWithNewVersion
    <2>5. Inv' BY <2>1, <2>3, <2>4 DEF Inv
    <2>6. v > version /\ recentVersion <= recentVersion' /\ recentVersion' < v
        BY <1>0, <2>2, <2>4, SMTAssumption
        DEF MayCommit, CommitAccepted, RecentChoice, NoVersion
    <2>7. Commits BY <2>3, <2>4, <2>6 DEF Commits, Work, Edited
    <2> QED BY <2>5, <2>7 DEF ClientStep
<1>7. ASSUME NEW recent \in NoVersion .. MaxVersion, NEW v \in Bounded,
             NEW visited, NEW written, NEW late,
             CallCommitFails(recent, v, visited, written, late)
      PROVE  Inv' /\ ClientStep
    <2>1. ~rollbackFailed /\ CommitFails(recent, v, visited, written, late)
        BY <1>7 DEF CallCommitFails
    <2>2. MayCommit(recent, v)
        BY <1>0, <1>7 DEF CallCommitFails, BlockVersion, CommitFails, MayCommit
    <2>w. written = {}
        BY <2>1 DEF CommitFails, RedoneCalls, Interruption, Nothing
    <2>3. /\ RecordsOK' /\ TreesOK' /\ interrupted' = interrupted
          /\ Root(root'[RootNode]) = Root(root[RootNode])
          /\ UNCHANGED <<version, recentVersion, db>>
        BY <1>1, <2>1, <2>2, <2>w, CommitFailsKeeps
    <2>4. rollbackFailed' = rollbackFailed /\ journal' = journal BY <2>1 DEF CommitFails
    <2>5. Inv' BY <1>1, <2>1, <2>3, <2>4 DEF Inv
    <2> QED BY <2>3, <2>4, <2>5 DEF ClientStep, Same, Work, Edited
<1>8. ASSUME NEW target \in 0 .. MaxVersion, CallRollback(target) PROVE Inv' /\ ClientStep
    <2>1. ~rollbackFailed /\ Rollback(target)
        BY <1>8 DEF CallRollback, RollbackChoice, RedoneCalls
    <2>2. /\ version' = target /\ recentVersion' = recentVersion /\ rollbackFailed' = FALSE
          /\ interrupted' = Nothing /\ recentVersion <= target /\ target <= version
          /\ journal' = {}
        BY <2>1 DEF Rollback, RollbackAccepted
    <2>3. /\ RecordsOK' /\ TreesOK' /\ Root(root'[RootNode]) = Contents(db, target)
          /\ \A w \in Nat : w <= target => Contents(db', w) = Contents(db, w)
        BY <1>0, <1>1, <2>1, AlwaysReady, RollbackKeeps
    <2>4. Inv' BY <2>2, <2>3 DEF Inv
    <2>5. Undoes BY <2>2, <2>3 DEF Undoes, Work, Edited
    <2> QED BY <2>4, <2>5 DEF ClientStep
<1>9. ASSUME NEW target \in 0 .. MaxVersion, NEW written, CallRollbackFails(target, written)
      PROVE  Inv' /\ ClientStep
    <2>1. ~rollbackFailed /\ RollbackFails(target, written)
        BY <1>9 DEF CallRollbackFails, RollbackChoice, RedoneCalls
    <2>w. written = {}
        BY <2>1 DEF RollbackFails, RedoneCalls, Interruption, Nothing
    <2>2. /\ RecordsOK' /\ interrupted' = interrupted
          /\ \E D \in SUBSET Nodes : Mirrors(root', D, db')
          /\ Root(root'[RootNode]) = Contents(db, target)
          /\ UNCHANGED <<version, recentVersion, db>>
        BY <1>0, <1>1, <2>1, <2>w, RollbackFailsKeeps
    <2>3. rollbackFailed' = TRUE /\ target \in recentVersion .. version /\ journal' = {}
        BY <1>0, <2>1 DEF RollbackFails, RollbackAccepted
    <2>4. Inv' BY <1>1, <2>2, <2>3 DEF Inv
    <2>5. Misses BY <2>2, <2>3 DEF Misses, Same, Work, Edited
    <2> QED BY <2>4, <2>5 DEF ClientStep
<1>10. ASSUME Reopen PROVE Inv' /\ ClientStep
    <2>1. StoreOK /\ ReopenedVersion = version /\ ReopenedRecent = recentVersion
        BY <1>1, RecordsStored
    <2>2. /\ RecordsOK' /\ TreesOK' /\ journal' = {} /\ interrupted' = Nothing
          /\ rollbackFailed' = FALSE /\ Root(root'[RootNode]) = Contents(db, version)
          /\ UNCHANGED <<version, recentVersion, db>>
        BY <1>1, <1>10, <2>1, ReopenKeeps
    <2>3. Inv' BY <2>2 DEF Inv
    <2> QED BY <2>2, <2>3 DEF ClientStep, Loses, Same, Work, Edited
<1>11. ASSUME UNCHANGED vars PROVE Inv' /\ ClientStep
    BY <1>11 DEF vars, Inv, RecordsOK, TreesOK, ClientStep, Same, Work, Edited
<1>12. ASSUME NEW k \in Keys, NEW val \in Value, NEW v \in Bounded, CallSet(k, val, v)
       PROVE  Inv' /\ ClientStep
    <2>1. Item(k, val) \in [{k} -> Value] /\ {k} \in (SUBSET Keys) \ {{}} BY DEF Item
    <2>2. ~rollbackFailed /\ BlockVersion(v) /\ SetItems(Item(k, val), v)
        BY <1>12 DEF CallSet, SetWithVersion
    <2> QED BY <1>4, <2>1, <2>2
<1>13. ASSUME NEW S \in (SUBSET Keys) \ {{}}, NEW items \in [S -> Value], NEW v \in Bounded,
              CallMultiSet(items, v)
       PROVE  Inv' /\ ClientStep
    <2>1. ~rollbackFailed /\ BlockVersion(v) /\ SetItems(items, v)
        BY <1>13 DEF CallMultiSet, MultiSetWithVersion
    <2> QED BY <1>4, <2>1
<1>14. ASSUME NEW recent, NEW v, NEW late, CallCommitUnanswered(recent, v, late) PROVE FALSE
    BY <1>14 DEF CallCommitUnanswered, CommitUnanswered, RedoneCalls, SeenThrough, Interruption,
                 Nothing
<1>15. ASSUME NEW target, CallRollbackUnanswered(target) PROVE FALSE
    BY <1>15 DEF CallRollbackUnanswered, RollbackUnanswered, RedoneCalls, SeenThrough,
                 Interruption, Nothing
<1> QED BY <1>2, <1>3, <1>5, <1>6, <1>7, <1>8, <1>9, <1>10, <1>11, <1>12, <1>13, <1>14, <1>15
    DEF Next, CallWrittenInPart, CallUnanswered

----------------------------------------------------------------------------
(* A rollback of which some records were stored, not all.                  *)

\* Children are stored before their parents. So every record reads as before
\* up to the target, and where a parent was stored, so were its children.
LEMMA PartUndone ==
    ASSUME TypeOK, NEW target \in Nat, RollbackReady(target), recentVersion <= target,
           NEW D, D = Dropping(target), NEW t, t = RolledBack(target, D),
           NEW w \in SUBSET D, \A n \in w : \A m \in D : n \in Path[m] => m \in w,
           NEW e, e = Stored(w, t), NEW ec, ec = StoredEntries(w, t)
    PROVE  /\ LinkedBut(e, ec, target)
           /\ Ordered(e, recentVersion, version)
           /\ HashedTo(e, recentVersion, target)
           /\ \A v \in Nat : v <= target => Contents(e, v) = Contents(db, v)
           /\ \A n \in Nodes : e[n].found = db[n].found
<1> DEFINE f == Stored(D, t)
<1>1. /\ db \in Records /\ version \in Nat /\ recentVersion \in Nat BY StateTypes
<1>2. /\ LinkedBut(db, dbChild, target) /\ Ordered(db, recentVersion, version)
      /\ HashedTo(db, recentVersion, target) /\ MirrorsBut(lastSaveRoot, db, target)
    BY DEF RollbackReady
<1>3. Undone(f, db, target) /\ Mirrors(t, {}, f)
    BY <1>1, <1>2, RolledBackMirrors
<1>4. /\ D = {n \in Nodes : DropsAny(db[n].versions, target)} /\ Closed(D)
    BY <1>1, <1>2, DroppingAll
<1>5. ASSUME NEW n \in Nodes
      PROVE  /\ n \in w => e[n] = f[n]
             /\ n \notin w => e[n] = db[n]
             /\ n \notin D => e[n] = f[n] /\ f[n] = db[n]
             /\ n # RootNode => ec[n] = IF Parent[n] \in w THEN t[n].versions ELSE dbChild[n]
    BY DEF Stored, StoredEntries, ToStorage
<1> HIDE DEF f
<1>6. ASSUME NEW n \in Nodes
      PROVE  /\ Sorted(e[n].versions) /\ e[n].found = db[n].found
             /\ Vers(e[n].versions) \subseteq Vers(db[n].versions)
             /\ \A v \in Vers(db[n].versions) : v <= target => v \in Vers(e[n].versions)
             /\ n \in w => \A v \in Vers(e[n].versions) : v <= target
             /\ n \notin D => \A v \in Vers(db[n].versions) : ~(v > target)
             /\ \A v \in Int : v <= target =>
                    HashAt(e[n].versions, v, NilHash) = HashAt(db[n].versions, v, NilHash)
    <2>1. db[n].versions \in Versions /\ Sorted(db[n].versions)
        BY <1>1, <1>2 DEF Records, StoredRecord, Ordered
    <2>2. f[n].found = db[n].found /\ f[n].versions = NodeRollback(db[n].versions, target)
        BY <1>3 DEF Undone
    <2>3. /\ Sorted(f[n].versions)
          /\ Vers(f[n].versions) = {v \in Vers(db[n].versions) : v <= target}
          /\ DropsAny(db[n].versions, target) <=> \E v \in Vers(db[n].versions) : v > target
          /\ \A v \in Int : v <= target =>
                 HashAt(f[n].versions, v, NilHash) = HashAt(db[n].versions, v, NilHash)
        BY <2>1, <2>2, RollbackReads
    <2>4. n \notin D => \A v \in Vers(db[n].versions) : ~(v > target) BY <1>4, <2>3
    <2>5. CASE n \in w BY <1>5, <2>2, <2>3, <2>4, <2>5
    <2>6. CASE n \notin w BY <1>5, <2>1, <2>4, <2>6
    <2> QED BY <2>5, <2>6
<1>7. ASSUME NEW n \in Nodes \ {RootNode}
      PROVE  /\ Parent[n] \in Nodes
             /\ n \in D => Parent[n] \in D
             /\ Parent[n] \in w /\ n \in D => n \in w
    <2>1. Parent[n] \in Nodes /\ Parent[n] \in Path[n] BY PathFacts, NodesClosed
    <2> QED BY <1>4, <2>1 DEF Closed
<1>8. Ordered(e, recentVersion, version)
    <2>1. ASSUME NEW n \in Nodes PROVE Upto(e[n].versions, version)
        BY <1>2, <1>6 DEF Ordered, Upto
    <2>2. ASSUME NEW n \in Nodes \ {RootNode}
          PROVE  Covered(e[n].versions, e[Parent[n]].versions, recentVersion)
        <3> SUFFICES ASSUME NEW v \in Vers(e[n].versions), v > recentVersion
                     PROVE  v \in Vers(e[Parent[n]].versions)
            BY DEF Covered
        <3>1. v \in Vers(db[n].versions) /\ Parent[n] \in Nodes BY <1>6, <1>7
        <3>2. v \in Vers(db[Parent[n]].versions)
            BY <1>2, <3>1 DEF Ordered, Covered
        <3>3. v \in Nat
            <4>1. db[n].versions \in Versions BY <1>1 DEF Records, StoredRecord
            <4> QED BY <3>1, <4>1, VersNat
        <3>4. CASE Parent[n] \in w
            <4>1. v <= target
                <5>1. CASE n \in D BY <1>6, <1>7, <3>4, <5>1
                <5>2. CASE n \notin D BY <1>6, <3>1, <3>3, <5>2
                <5> QED BY <5>1, <5>2
            <4> QED BY <1>6, <3>1, <3>2, <4>1
        <3>5. CASE Parent[n] \notin w BY <1>5, <3>1, <3>2, <3>5
        <3> QED BY <3>4, <3>5
    <2> QED BY <1>6, <2>1, <2>2 DEF Ordered
<1>9. ASSUME NEW v \in Nat, v <= target PROVE Contents(e, v) = Contents(db, v)
    <2>1. v \in Int OBVIOUS
    <2> QED BY <1>6, <1>9, <2>1, NodesClosed DEF Contents
<1>10. HashedTo(e, recentVersion, target)
    <2>1. ASSUME NEW n \in Nodes, NEW v \in Nat, v >= recentVersion, v <= target
          PROVE  HashAt(e[n].versions, v, NilHash) = Below(Contents(e, v), n)
        <3>1. v \in Int OBVIOUS
        <3>2. HashAt(db[n].versions, v, NilHash) = Below(Contents(db, v), n)
            BY <1>2, <2>1 DEF HashedTo
        <3> QED BY <1>6, <1>9, <2>1, <3>1, <3>2
    <2> QED BY <2>1 DEF HashedTo
<1>11. ASSUME NEW n \in Nodes, ~e[n].found PROVE e[n].versions = <<>>
    <2>1. ~db[n].found BY <1>6, <1>11
    <2>2. db[n].versions = <<>> BY <1>2, <2>1 DEF LinkedBut
    <2>3. n \notin D
        <3>0. <<>> \in Versions BY DEF Versions
        <3>1. <<>> \in Versions /\ Vers(<<>>) = {} BY <3>0, VersEmpty
        <3>2. Sorted(<<>>) BY DEF Sorted
        <3>3. ~DropsAny(<<>>, target) BY <3>1, <3>2, RollbackReads
        <3> QED BY <1>4, <2>2, <3>3
    <2> QED BY <1>5, <2>2, <2>3
<1>12. ASSUME NEW n \in Nodes \ {RootNode}
       PROVE  /\ e[n].found => e[Parent[n]].found
              /\ ec[n] = <<>> => e[n].versions = <<>>
              /\ ~DropsAny(e[Parent[n]].versions, target) => Alike(ec[n], e[n].versions)
    <2>1. e[n].found => e[Parent[n]].found
        BY <1>2, <1>6, <1>7 DEF LinkedBut
    <2>2. CASE Parent[n] \in w
        <3>1. e[n] = f[n] BY <1>5, <1>7, <2>2
        <3>2. Resident(t[Parent[n]])
            <4>1. t[Parent[n]].state = "resident"
                BY <1>1, <1>2, <1>7, <2>2, RolledBackMirrors DEF Mirrors, NodeMirrors, Resident
            <4> QED BY <4>1 DEF Resident
        <3>3. Alike(t[n].versions, f[n].versions)
            BY <1>3, <3>2 DEF Mirrors, NodeMirrors, Seen
        <3> QED BY <1>5, <2>1, <2>2, <3>1, <3>3 DEF Alike
    <2>3. CASE Parent[n] \notin w
        <3>1. /\ dbChild[n] = <<>> => db[n].versions = <<>>
              /\ ~DropsAny(db[Parent[n]].versions, target) => Alike(dbChild[n], db[n].versions)
            BY <1>2 DEF LinkedBut
        <3>2. db[n].versions = <<>> => e[n].versions = <<>>
            <4>1. db[n].versions \in Versions BY <1>1 DEF Records, StoredRecord
            <4>2. e[n].versions = db[n].versions \/ n \in w BY <1>5
            <4>3. ASSUME n \in w PROVE db[n].versions # <<>>
                <5>1. DropsAny(db[n].versions, target) BY <1>4, <4>3
                <5>2. Sorted(db[n].versions) BY <1>2 DEF Ordered
                <5>3. Vers(db[n].versions) # {} BY <4>1, <5>1, <5>2, RollbackReads
                <5> QED BY <4>1, <5>3, VersEmpty
            <4> QED BY <4>2, <4>3
        <3>3. ASSUME ~DropsAny(db[Parent[n]].versions, target) PROVE e[n] = db[n]
            BY <1>4, <1>5, <1>7, <3>3
        <3>4. ec[n] = dbChild[n] /\ e[Parent[n]] = db[Parent[n]] BY <1>5, <1>7, <2>3
        <3> QED BY <2>1, <3>1, <3>2, <3>3, <3>4
    <2> QED BY <2>2, <2>3
<1>13. LinkedBut(e, ec, target) BY <1>11, <1>12 DEF LinkedBut
<1> QED BY <1>6, <1>8, <1>9, <1>10, <1>13

\* The records between two parts of a rollback to tg.
HalfUndone(tg) ==
    /\ LinkedBut(db, dbChild, tg)
    /\ Ordered(db, recentVersion, version)
    /\ HashedTo(db, recentVersion, tg)
    /\ recentVersion <= tg /\ tg <= version
    /\ dbVersion = NoVersion => \A n \in Nodes : ~db[n].found

\* The state of the tree then. Right after the failure the tree in memory is of
\* no use, and the client reopens it.
RollbackInParts ==
    /\ interrupted.op = "rollback"
    /\ HalfUndone(interrupted.version)
    /\ journal = {}
    /\ ~rollbackFailed => /\ MirrorsBut(root, db, interrupted.version)
                          /\ MirrorsBut(lastSaveRoot, db, interrupted.version)
    /\ IsDone => rollbackFailed /\ StoreOK

\* What a rollback that fails does to the records and the journal.
PartUndoes(target, written) ==
    /\ RollbackAccepted(target)
    /\ written \subseteq Dropping(target)
    /\ \A n \in written, m \in Dropping(target) : n \in Path[m] => m \in written
    /\ db' = Stored(written, RolledBack(target, Dropping(target)))
    /\ dbChild' = StoredEntries(written, RolledBack(target, Dropping(target)))
    /\ journal' = {} /\ rollbackFailed' = TRUE
    /\ UNCHANGED <<version, recentVersion>>
    /\ dbVersion' = NoVersion => dbVersion = NoVersion

LEMMA RollbackFailsUndoes ==
    ASSUME NEW target, NEW written, RollbackFails(target, written)
    PROVE  PartUndoes(target, written)
BY DEF RollbackFails, StoredBefore, PartUndoes

LEMMA RollbackUnansweredUndoes ==
    ASSUME NEW target \in Nat, RollbackUnanswered(target)
    PROVE  PartUndoes(target, Dropping(target))
BY DEF RollbackUnanswered, PartUndoes, NoVersion

\* A rollback that fails keeps the versions up to its target.
LEMMA RollbackFailsInParts ==
    ASSUME TypeOK, NEW target \in Nat, RollbackReady(target),
           dbVersion = NoVersion => \A n \in Nodes : ~db[n].found,
           NEW written, PartUndoes(target, written)
    PROVE  /\ HalfUndone(target)' /\ journal' = {} /\ rollbackFailed' = TRUE
           /\ \A v \in Nat : v <= target => Contents(db', v) = Contents(db, v)
           /\ UNCHANGED <<version, recentVersion>>
<1> DEFINE D == Dropping(target)
           t == RolledBack(target, D)
<1>1. /\ recentVersion <= target /\ target <= version
      /\ db' = Stored(written, t) /\ dbChild' = StoredEntries(written, t)
      /\ journal' = {} /\ rollbackFailed' = TRUE
      /\ UNCHANGED <<version, recentVersion>>
      /\ dbVersion' = NoVersion => dbVersion = NoVersion
    BY DEF PartUndoes, RollbackAccepted
<1>2. /\ written \in SUBSET D
      /\ \A n \in written : \A m \in D : n \in Path[m] => m \in written
    BY DEF PartUndoes
<1> HIDE DEF D, t
<1>3. /\ LinkedBut(db', dbChild', target) /\ Ordered(db', recentVersion, version)
      /\ HashedTo(db', recentVersion, target)
      /\ \A v \in Nat : v <= target => Contents(db', v) = Contents(db, v)
      /\ \A n \in Nodes : db'[n].found = db[n].found
    BY <1>1, <1>2, PartUndone DEF D, t
<1>4. HalfUndone(target)' BY <1>1, <1>3 DEF HalfUndone
<1> QED BY <1>1, <1>3, <1>4

\* A rollback of which all was stored leaves the records of its target.
LEMMA RollbackStored ==
    ASSUME TypeOK, RangeInv, RangeInv', NEW target \in Nat, RollbackReady(target),
           RollbackUnanswered(target), asked = NoVersion \/ interrupted = Nothing
    PROVE  StoreOK'
<1> DEFINE D == Dropping(target)
           t == RolledBack(target, D)
<1>1. db \in Records /\ version \in Nat /\ recentVersion \in Nat BY StateTypes
<1>2. /\ LinkedBut(db, dbChild, target) /\ Ordered(db, recentVersion, version)
      /\ HashedTo(db, recentVersion, target) /\ MirrorsBut(lastSaveRoot, db, target)
      /\ recentVersion <= target
    BY DEF RollbackReady, RollbackUnanswered, RollbackAccepted
<1> HIDE DEF t, D
<1>3. /\ db' = Stored(D, t) /\ dbChild' = StoredEntries(D, t)
      /\ dbVersion' = target /\ dbRecent' = dbRecent
    BY DEF RollbackUnanswered, D, t
<1>4. Undone(db', db, target) /\ Linked(db', dbChild')
    BY <1>1, <1>2, <1>3, RolledBackMirrors DEF D, t
<1>5. Ordered(db', recentVersion, target) /\ Hashed(db', recentVersion)
    BY <1>1, <1>2, <1>4, RollbackRecords
<1>6. ReopenedVersion' = target /\ ReopenedRecent' = recentVersion /\ dbVersion' # NoVersion
    BY <1>1, <1>3
    DEF RangeInv, RangeSurvivesRestart, ReopenedVersion, ReopenedRecent, NoVersion
<1> QED BY <1>4, <1>5, <1>6 DEF StoreOK

\* The tree a restart builds over such records.
LEMMA ReopenedMirrorsBut ==
    ASSUME TypeOK, NEW tg, HalfUndone(tg) PROVE MirrorsBut(ReopenedTree, db, tg)
<1> DEFINE t == ReopenedTree
<1>1. /\ RootNode \in Nodes /\ LinkedBut(db, dbChild, tg)
      /\ dbVersion = NoVersion => \A n \in Nodes : ~db[n].found
    BY NodesClosed DEF HalfUndone
<1>2. \A n \in Nodes : ~db[n].found => db[n].versions = <<>> BY <1>1 DEF LinkedBut
<1>3. /\ t[RootNode].state = "resident"
      /\ t[RootNode].versions = IF dbVersion = NoVersion THEN <<>> ELSE db[RootNode].versions
      /\ \A n \in Nodes \ {RootNode} :
             /\ ~Resident(t[n]) /\ (Seen(t, n) <=> Parent[n] = RootNode)
             /\ t[n] = IF Parent[n] = RootNode /\ dbVersion # NoVersion /\ db[RootNode].found
                       THEN StoredChild(n) ELSE NilNode
    BY <1>2, ReopenedShape
<1> HIDE DEF t
<1>4. ASSUME NEW n \in Nodes PROVE NodeMirrorsBut(t, db, tg, n)
    <2>1. CASE n = RootNode BY <1>1, <1>2, <1>3, <2>1 DEF NodeMirrorsBut, Seen
    <2>2. CASE n # RootNode /\ t[n] = StoredChild(n) /\ Parent[n] = RootNode
        <3>1. /\ dbChild[n] = <<>> => db[n].versions = <<>>
              /\ ~DropsAny(db[Parent[n]].versions, tg) => Alike(dbChild[n], db[n].versions)
            BY <1>1, <2>2 DEF LinkedBut
        <3> QED BY <1>3, <2>2, <3>1 DEF NodeMirrorsBut, StoredChild, NilNode, Alike
    <2>3. CASE n # RootNode /\ t[n] = NilNode
                  /\ (Parent[n] = RootNode => dbVersion = NoVersion \/ ~db[RootNode].found)
        <3>1. Parent[n] = RootNode => db[n].versions = <<>>
            <4>1. db[n].found \in BOOLEAN BY DEF TypeOK
            <4> QED BY <1>1, <1>2, <2>3, <4>1 DEF LinkedBut
        <3> QED BY <1>3, <2>3, <3>1 DEF NodeMirrorsBut, NilNode, Alike
    <2> QED BY <1>3, <2>1, <2>2, <2>3
<1>5. Resident(t[RootNode]) BY <1>3 DEF Resident
<1> QED BY <1>4, <1>5 DEF MirrorsBut, t

\* Until the rollback is done again, every step keeps the records, or brings the
\* rollback further.
LEMMA RollbackPartsStep ==
    ASSUME RedoneCalls, TypeOK, RangeInv, RangeInv', RollbackInParts, [Next]_vars
    PROVE  /\ Inv' \/ RollbackInParts'
           /\ \A v \in Nat : v <= interrupted.version => Contents(db', v) = Contents(db, v)
<1> DEFINE tg == interrupted.version
           Goal == /\ Inv' \/ RollbackInParts'
                   /\ \A v \in Nat : v <= tg => Contents(db', v) = Contents(db, v)
<1>1. /\ interrupted.op = "rollback" /\ interrupted # Nothing /\ tg \in Nat
      /\ HalfUndone(tg) /\ journal = {}
      /\ ~rollbackFailed => MirrorsBut(root, db, tg) /\ MirrorsBut(lastSaveRoot, db, tg)
      /\ ~rollbackFailed => RollbackReady(tg)
      /\ root \in Tree /\ lastSaveRoot \in Tree
      /\ IsDone => rollbackFailed /\ StoreOK
    BY StateTypes DEF RollbackInParts, HalfUndone, RollbackReady, Nothing, TypeOK
<1>2. ASSUME UNCHANGED <<version, recentVersion, root, lastSaveRoot, journal, db, dbChild,
                         dbVersion, dbRecent, rollbackFailed, interrupted>>
      PROVE  Goal
    <2>1. IsDone' = IsDone /\ StoreOK' = StoreOK
        BY <1>2 DEF IsDone, StoreOK, ReopenedVersion, ReopenedRecent
    <2> QED BY <1>2, <2>1 DEF RollbackInParts, HalfUndone
<1>3. ASSUME NEW k \in Keys, CallGetProof(k) PROVE Goal
    <2>1. /\ ~rollbackFailed
          /\ root' = Extend(root, Path[k]) /\ lastSaveRoot' = SavedTreeAfterLoad({k})
          /\ UNCHANGED <<version, recentVersion, journal, db, dbChild, dbVersion,
                         rollbackFailed, interrupted>>
        BY <1>3 DEF CallGetProof, GetProof
    <2>2. ASSUME NEW t \in Tree, MirrorsBut(t, db, tg), NEW S \in SUBSET Keys
          PROVE  MirrorsBut(Extend(t, Paths[S]), db, tg)
        <3>1. Paths[S] \in SUBSET Nodes BY PathsNodes
        <3>2. ASSUME NEW n \in Paths[S] PROVE Seen(t, n) \/ Parent[n] \in Paths[S]
            BY SeenOrLoaded
        <3>3. LinkedBut(db, dbChild, tg) BY <1>1 DEF HalfUndone
        <3> QED BY <2>2, <3>1, <3>2, <3>3, ExtendMirrorsBut
    <2>3. Paths[{k}] = Path[k]
        <3>1. Paths[{k}] = UNION {Path[j] : j \in {k}} BY PathsNodes
        <3>2. {Path[j] : j \in {k}} = {Path[k]} OBVIOUS
        <3> QED BY <3>1, <3>2
    <2>4. MirrorsBut(root', db, tg)
        BY <1>1, <2>1, <2>2, <2>3
    <2>5. MirrorsBut(lastSaveRoot', db, tg)
        <3>1. {j \in {k} : ExtendsSavedTree(j)} \in SUBSET Keys OBVIOUS
        <3> QED BY <1>1, <2>1, <2>2, <3>1 DEF SavedTreeAfterLoad
    <2>6. RollbackInParts'
        BY <1>1, <2>1, <2>4, <2>5 DEF RollbackInParts, HalfUndone, IsDone
    <2> QED BY <2>1, <2>6
<1>4. ASSUME CallReset PROVE Goal
    <2>1. /\ ~rollbackFailed /\ root' = lastSaveRoot /\ journal' = {}
          /\ UNCHANGED <<version, recentVersion, lastSaveRoot, db, dbChild, dbVersion,
                         rollbackFailed, interrupted>>
        BY <1>4 DEF CallReset, Reset
    <2>2. RollbackInParts' BY <1>1, <2>1 DEF RollbackInParts, HalfUndone, IsDone
    <2> QED BY <2>1, <2>2
<1>5. ASSUME NEW target \in 0 .. MaxVersion, CallRollback(target) PROVE Goal
    <2>1. ~rollbackFailed /\ target = tg /\ Rollback(tg)
        BY <1>1, <1>5 DEF CallRollback, RollbackChoice, RedoneCalls
    <2>2. /\ RecordsOK' /\ TreesOK'
          /\ \A v \in Nat : v <= tg => Contents(db', v) = Contents(db, v)
        BY <1>1, <2>1, RollbackKeeps
    <2>3. rollbackFailed' = FALSE /\ interrupted' = Nothing BY <2>1 DEF Rollback
    <2> QED BY <2>2, <2>3 DEF Inv
<1>6. ASSUME NEW target \in 0 .. MaxVersion, NEW written, CallRollbackFails(target, written)
      PROVE  Goal
    <2>1. ~rollbackFailed /\ target = tg /\ RollbackFails(tg, written)
        BY <1>1, <1>6 DEF CallRollbackFails, RollbackChoice, RedoneCalls
    <2>2. /\ HalfUndone(target)' /\ journal' = {} /\ rollbackFailed' = TRUE
          /\ \A v \in Nat : v <= tg => Contents(db', v) = Contents(db, v)
        <3>1. dbVersion = NoVersion => \A n \in Nodes : ~db[n].found BY <1>1 DEF HalfUndone
        <3>2. target \in Nat /\ RollbackReady(target) /\ RollbackFails(target, written)
            BY <1>1, <2>1
        <3>3. PartUndoes(target, written) BY <3>2, RollbackFailsUndoes
        <3> QED BY <2>1, <3>1, <3>2, <3>3, RollbackFailsInParts
    <2>3. interrupted'.op = "rollback" /\ interrupted'.version = target
        BY <1>1, <2>1 DEF RollbackFails, Interruption, RedoneCalls
    <2>4. dbVersion' = dbVersion BY <2>1 DEF RollbackFails
    <2>5. ~IsDone' BY <1>1, <2>1, <2>3, <2>4 DEF IsDone
    <2>6. RollbackInParts'
        BY <2>2, <2>3, <2>5 DEF RollbackInParts
    <2> QED BY <2>2, <2>6
<1>7. ASSUME Reopen PROVE Goal
    <2>1. CASE IsDone
        <3>1. /\ RecordsOK' /\ TreesOK' /\ interrupted' = Nothing /\ rollbackFailed' = FALSE
              /\ db' = db
            BY <1>1, <1>7, <2>1, ReopenKeeps
        <3> QED BY <3>1 DEF Inv
    <2>2. CASE ~IsDone
        <3>1. /\ root' = ReopenedTree /\ lastSaveRoot' = ReopenedTree /\ journal' = {}
              /\ UNCHANGED <<db, dbChild, dbVersion>>
              /\ version' = version /\ recentVersion' = recentVersion
            BY <1>7, <2>2 DEF Reopen, RangeInv, RangeSurvivesRestart
        <3>2. interrupted' = interrupted BY <1>7, <2>2 DEF Reopen
        <3>3. MirrorsBut(ReopenedTree, db, tg) BY <1>1, ReopenedMirrorsBut
        <3>4. ~IsDone' BY <2>2, <3>1, <3>2 DEF IsDone
        <3>5. RollbackInParts'
            BY <1>1, <3>1, <3>2, <3>3, <3>4 DEF RollbackInParts, HalfUndone
        <3> QED BY <3>1, <3>5
    <2> QED BY <2>1, <2>2
<1>8. ASSUME NEW v, BlockVersion(v) PROVE FALSE
    BY <1>1, <1>8 DEF BlockVersion
<1>9. ASSUME NEW k, NEW v, CallGet(k, v) PROVE Goal
    BY <1>2, <1>9 DEF CallGet, Get
<1>10. ASSUME UNCHANGED vars PROVE Goal BY <1>2, <1>10 DEF vars
<1>11. ASSUME NEW target \in 0 .. MaxVersion, CallRollbackUnanswered(target) PROVE Goal
    <2>1. ~rollbackFailed /\ target = tg /\ RollbackUnanswered(target)
        BY <1>1, <1>11 DEF CallRollbackUnanswered, RollbackChoice, RedoneCalls
    <2>2. target \in Nat /\ RollbackReady(target) BY <1>1, <2>1
    <2>3. /\ HalfUndone(target)' /\ journal' = {} /\ rollbackFailed' = TRUE
          /\ \A v \in Nat : v <= tg => Contents(db', v) = Contents(db, v)
        <3>1. dbVersion = NoVersion => \A n \in Nodes : ~db[n].found BY <1>1 DEF HalfUndone
        <3>2. PartUndoes(target, Dropping(target)) BY <2>1, <2>2, RollbackUnansweredUndoes
        <3> QED BY <2>1, <2>2, <3>1, <3>2, RollbackFailsInParts
    <2>4. interrupted'.op = "rollback" /\ interrupted'.version = target
        BY <2>1 DEF RollbackUnanswered, Interruption, RedoneCalls, SeenThrough
    <2>5. asked = NoVersion BY <1>1 DEF RangeInv
    <2>6. StoreOK' BY <2>1, <2>2, <2>5, RollbackStored
    <2>7. RollbackInParts' BY <2>3, <2>4, <2>6 DEF RollbackInParts
    <2> QED BY <2>3, <2>7
<1> HIDE DEF Goal
<1>12. Goal
    BY <1>3, <1>4, <1>5, <1>6, <1>7, <1>8, <1>9, <1>10, <1>11
    DEF Next, CallWrittenInPart, CallUnanswered, CallSet, CallMultiSet, CallCommit,
        CallCommitFails, CallCommitUnanswered
<1> QED BY <1>12 DEF Goal

----------------------------------------------------------------------------
(* A commit of which some records were stored, not all. Until it is done   *)
(* again every record is the one before the call or the one after it, but  *)
(* a parent and a child may differ in that, so what a node loaded now      *)
(* commits to may be a mixture. Setting the keys of the call again gives   *)
(* the nodes above them the hashes of the call.                            *)

\* The interrupted call: the records and the latest version before it, the
\* version it commits, the map it commits and the keys it has set.
Call == [old : Records, from : Nat, block : Nat, work : Content, keys : SUBSET Keys]

Before(g) == Contents(g.old, g.from)

CallOK(g, rv) ==
    /\ g \in Call /\ rv \in Nat /\ rv <= g.from /\ g.from < g.block
    /\ Rooted(g.old) /\ Ordered(g.old, rv, g.from) /\ Hashed(g.old, rv)
    /\ \A k \in Keys \ g.keys : g.work[k] = Before(g)[k]

\* A hash of node n that mixes the maps before and after the call.
Mixed(h, n, g) ==
    \A k \in Keys : IF n \in Path[k] THEN h[k] = Before(g)[k] \/ h[k] = g.work[k]
                    ELSE h[k] = Nil

\* What a node that was not edited since may show, in memory or in the record
\* of its parent.
Shown(vs, n, g) ==
    /\ Mixed(LatestHash(vs, NilHash), n, g)
    /\ n \notin Paths[g.keys] => Alike(vs, g.old[n].versions)

\* The list of a node that the call has stored, pruned up to r at most.
Written(vs, n, g, r) ==
    /\ n \in Paths[g.keys]
    /\ Pending(vs, g.old[n].versions, r, g.block, Below(g.work, n))

PartRecord(d, dc, n, g, r) ==
    /\ d[n] = g.old[n] \/ (d[n].found /\ Written(d[n].versions, n, g, r))
    /\ n # RootNode => Shown(dc[n], n, g)

PartRecords(d, dc, g, r) == \A n \in Nodes : PartRecord(d, dc, n, g, r)

\* The call has been stored to the end.
DoneRecord(d, dc, n, g, r) ==
    /\ d[n].found /\ Written(d[n].versions, n, g, r)
    /\ n # RootNode => dc[n] # <<>> /\ LatestHash(dc[n], NilHash) = Below(g.work, n)

DoneRecords(d, dc, g, r) == \A n \in Paths[g.keys] : DoneRecord(d, dc, n, g, r)

\* One node of a tree over such records, the nodes of J edited, and the tree.
PartNode(t, J, n, g, r) ==
    /\ t[n].state # "nil" => Seen(t, n)
    /\ t[n].state = "nil" => t[n].versions = <<>>
    /\ t[n].state = "temporary" => t[n].versions # <<>>
    /\ n \in J => Resident(t[n])
    /\ Seen(t, n) /\ n \notin J => Shown(t[n].versions, n, g)
    /\ Resident(t[n]) /\ n \notin J =>
          t[n].versions = g.old[n].versions \/ Written(t[n].versions, n, g, r)

PartTree(t, J, g, r) ==
    /\ Resident(t[RootNode])
    /\ \A n \in Nodes : PartNode(t, J, n, g, r)

\* The list of a node edited again, when the keys of L have been set.
Redone(vs, n, L, g, r) ==
    \E h \in Content :
        /\ Pending(vs, g.old[n].versions, r, g.block, h)
        /\ Mixed(h, n, g)
        /\ \A k \in L : n \in Path[k] => h[k] = g.work[k]

PartEdits(t, J, g, r) ==
    /\ J = Paths[J \cap Keys] /\ J \cap Keys \subseteq g.keys
    /\ \A n \in J : Redone(t[n].versions, n, J \cap Keys, g, r)

\* The parts of a call.
LEMMA CallTypes ==
    ASSUME NEW g, NEW rv, CallOK(g, rv)
    PROVE  /\ g.old \in Records /\ g.from \in Nat /\ g.block \in Nat /\ g.work \in Content
           /\ g.keys \in SUBSET Keys /\ rv \in Nat /\ rv <= g.from /\ g.from < g.block
           /\ Before(g) \in Content
           /\ \A n \in Nodes : /\ g.old[n].versions \in Versions /\ Sorted(g.old[n].versions)
                               /\ Upto(g.old[n].versions, g.from)
                               /\ Below(g.work, n) \in Content
<1>1. /\ g.old \in Records /\ g.from \in Nat /\ g.block \in Nat /\ g.work \in Content
      /\ g.keys \in SUBSET Keys /\ rv \in Nat /\ rv <= g.from /\ g.from < g.block
      /\ Ordered(g.old, rv, g.from)
    BY DEF CallOK, Call
<1>2. Before(g) \in Content
    <2>1. g.from \in Int BY <1>1
    <2> QED BY <1>1, <2>1, ContentsType DEF Before
<1>3. ASSUME NEW n \in Nodes
      PROVE  /\ g.old[n].versions \in Versions /\ Sorted(g.old[n].versions)
             /\ Upto(g.old[n].versions, g.from) /\ Below(g.work, n) \in Content
    BY <1>1, BelowType DEF Records, StoredRecord, Ordered
<1> QED BY <1>1, <1>2, <1>3

\* A node alike to its record before the call shows the map before it.
LEMMA OldShown ==
    ASSUME NEW g, NEW rv, CallOK(g, rv), NEW n \in Nodes, NEW vs, Alike(vs, g.old[n].versions)
    PROVE  Shown(vs, n, g)
<1>1. /\ g.old[n].versions \in Versions /\ Sorted(g.old[n].versions)
      /\ Upto(g.old[n].versions, g.from) /\ g.from \in Nat /\ g.from >= rv /\ g.from \in Int
    BY CallTypes
<1>2. HashAt(g.old[n].versions, g.from, NilHash) = LatestHash(g.old[n].versions, NilHash)
    BY <1>1, ReadsLatest
<1>3. HashAt(g.old[n].versions, g.from, NilHash) = Below(Before(g), n)
    BY <1>1 DEF CallOK, Hashed, Before
<1>4. LatestHash(vs, NilHash) = Below(Before(g), n) BY <1>2, <1>3 DEF Alike
<1>5. Mixed(Below(Before(g), n), n, g) BY DEF Mixed, Below
<1> QED BY <1>4, <1>5 DEF Shown

\* A node the call has stored shows the map of the call.
LEMMA WrittenShown ==
    ASSUME NEW g, NEW rv, CallOK(g, rv), NEW n \in Nodes, NEW r \in Int, NEW vs,
           Written(vs, n, g, r)
    PROVE  /\ Shown(vs, n, g) /\ vs # <<>> /\ LatestHash(vs, NilHash) = Below(g.work, n)
<1>1. /\ g.old[n].versions \in Versions /\ Sorted(g.old[n].versions)
      /\ Upto(g.old[n].versions, g.from) /\ g.from \in Nat /\ g.block \in Nat
      /\ g.from < g.block /\ Below(g.work, n) \in Content
    BY CallTypes
<1>2. n \in Paths[g.keys] /\ Pending(vs, g.old[n].versions, r, g.block, Below(g.work, n))
    BY DEF Written
<1>3. vs # <<>> /\ LatestHash(vs, NilHash) = Below(g.work, n)
    BY <1>1, <1>2, PendingLatest
<1>4. Mixed(Below(g.work, n), n, g) BY DEF Mixed, Below
<1> QED BY <1>2, <1>3, <1>4 DEF Shown

\* Between the parts, too, every version is read that the commit has not
\* pruned.
LEMMA PartReads ==
    ASSUME NEW g, NEW rv, CallOK(g, rv), NEW r \in Int, NEW d, NEW dc, PartRecords(d, dc, g, r),
           NEW v \in Nat, v >= r, v < g.block
    PROVE  /\ \A n \in Nodes :
                  HashAt(d[n].versions, v, NilHash) = HashAt(g.old[n].versions, v, NilHash)
           /\ Contents(d, v) = Contents(g.old, v)
<1>1. ASSUME NEW n \in Nodes
      PROVE  HashAt(d[n].versions, v, NilHash) = HashAt(g.old[n].versions, v, NilHash)
    <2>1. /\ g.old[n].versions \in Versions /\ Sorted(g.old[n].versions)
          /\ Upto(g.old[n].versions, g.from) /\ g.from \in Nat /\ g.block \in Nat
          /\ g.from < g.block /\ Below(g.work, n) \in Content
        BY CallTypes
    <2>2. v \in Int OBVIOUS
    <2>3. CASE d[n] = g.old[n] BY <2>3
    <2>4. CASE Written(d[n].versions, n, g, r)
        <3>1. Pending(d[n].versions, g.old[n].versions, r, g.block, Below(g.work, n))
            BY <2>4 DEF Written
        <3> DEFINE us == d[n].versions
                   vs == g.old[n].versions
                   b == g.block
                   h == Below(g.work, n)
                   a == g.from
        <3>2. /\ vs \in Versions /\ Sorted(vs) /\ Upto(vs, a) /\ b \in Nat /\ h \in Content
              /\ a \in Nat /\ a < b /\ Pending(us, vs, r, b, h)
            BY <2>1, <3>1
        <3> HIDE DEF us, vs, b, h, a
        <3>3. \A u \in Int : u >= r /\ u < b => HashAt(us, u, NilHash) = HashAt(vs, u, NilHash)
            BY <3>2, PendingReads
        <3> QED BY <2>2, <3>3 DEF us, vs, b
    <2> QED BY <2>3, <2>4 DEF PartRecords, PartRecord
<1> QED BY <1>1, NodesClosed DEF Contents

\* The bound on what was pruned may be raised.
LEMMA PartMore ==
    ASSUME NEW g, NEW rv, CallOK(g, rv), NEW a \in Int, NEW r \in Int, a <= r
    PROVE  /\ \A n \in Nodes : \A vs : Written(vs, n, g, a) => Written(vs, n, g, r)
           /\ \A n \in Nodes : \A vs, L : Redone(vs, n, L, g, a) => Redone(vs, n, L, g, r)
           /\ \A d, dc : PartRecords(d, dc, g, a) => PartRecords(d, dc, g, r)
           /\ \A d, dc : DoneRecords(d, dc, g, a) => DoneRecords(d, dc, g, r)
           /\ \A t, J : PartTree(t, J, g, a) => PartTree(t, J, g, r)
<1>1. ASSUME NEW n \in Nodes, NEW vs, NEW h, Pending(vs, g.old[n].versions, a, g.block, h)
      PROVE  Pending(vs, g.old[n].versions, r, g.block, h)
    <2>1. g.old[n].versions \in Versions BY CallTypes
    <2> QED BY <1>1, <2>1, PendingMore
<1>2. ASSUME NEW n \in Nodes, NEW vs, Written(vs, n, g, a) PROVE Written(vs, n, g, r)
    BY <1>1, <1>2 DEF Written
<1>3. ASSUME NEW n \in Nodes, NEW vs, NEW L, Redone(vs, n, L, g, a) PROVE Redone(vs, n, L, g, r)
    BY <1>1, <1>3 DEF Redone
<1>4. ASSUME NEW d, NEW dc, PartRecords(d, dc, g, a) PROVE PartRecords(d, dc, g, r)
    BY <1>2, <1>4 DEF PartRecords, PartRecord
<1>5. ASSUME NEW t, NEW J, PartTree(t, J, g, a) PROVE PartTree(t, J, g, r)
    BY <1>2, <1>5 DEF PartTree, PartNode
<1>6. ASSUME NEW d, NEW dc, DoneRecords(d, dc, g, a) PROVE DoneRecords(d, dc, g, r)
    <2>1. g.keys \in SUBSET Keys BY CallTypes
    <2>2. \A n \in Paths[g.keys] : n \in Nodes BY <2>1, PathsFacts
    <2> QED BY <1>2, <1>6, <2>2 DEF DoneRecords, DoneRecord
<1> QED BY <1>2, <1>3, <1>4, <1>5, <1>6

\* Loading nodes between the parts.
LEMMA PartExtend ==
    ASSUME TypeOK, NEW g, NEW rv, CallOK(g, rv), NEW r \in Int, PartRecords(db, dbChild, g, r),
           NEW t \in Tree, NEW J, PartTree(t, J, g, r),
           NEW S \in SUBSET Nodes, \A n \in S : Seen(t, n) \/ Parent[n] \in S,
           NEW u, u = Extend(t, S)
    PROVE  /\ PartTree(u, J, g, r)
           /\ \A n \in S : Resident(u[n])
           /\ \A n \in Nodes : Resident(t[n]) => u[n] = t[n]
<1>0. ASSUME NEW n \in Nodes
      PROVE  /\ PartRecord(db, dbChild, n, g, r)
             /\ ~db[n].found => ~g.old[n].found /\ db[n].versions = <<>>
    <2>1. PartRecord(db, dbChild, n, g, r) BY DEF PartRecords
    <2>2. ~g.old[n].found => g.old[n].versions = <<>> BY DEF CallOK, Rooted
    <2> QED BY <2>1, <2>2 DEF PartRecord
<1>1. /\ \A n \in Nodes : Resident(t[n]) => u[n] = t[n]
      /\ \A n \in S : Resident(u[n]) /\ (~Resident(t[n]) => u[n].versions = db[n].versions)
      /\ \A n \in Nodes \ S : ~Resident(t[n]) =>
             IF n # RootNode /\ Parent[n] \in S /\ ~Resident(t[Parent[n]])
             THEN u[n] = IF db[Parent[n]].found THEN StoredChild(n) ELSE NilNode
             ELSE u[n] = t[n]
      /\ \A n \in Nodes : Resident(u[n]) <=> Resident(t[n]) \/ n \in S
      /\ \A n \in Nodes : Seen(u, n) <=> Seen(t, n) \/ (n # RootNode /\ Parent[n] \in S)
    BY <1>0, ExtendShape
<1>2. ASSUME NEW n \in Nodes PROVE PartNode(u, J, n, g, r)
    <2>1. PartNode(t, J, n, g, r) BY DEF PartTree
    <2>2. Seen(u, n) <=> Seen(t, n) \/ (n # RootNode /\ Parent[n] \in S) BY <1>1
    <2>3. CASE Resident(t[n])
        <3>1. u[n] = t[n] /\ Seen(t, n) BY <1>1, <2>1, <2>3 DEF PartNode, Resident
        <3> QED BY <2>1, <2>2, <3>1 DEF PartNode
    <2>4. CASE ~Resident(t[n]) /\ n \in S
        <3>1. Resident(u[n]) /\ u[n].versions = db[n].versions BY <1>1, <2>4
        <3>2. Seen(u, n) BY <2>2, <2>4 DEF Seen
        <3>3. u[n].versions = g.old[n].versions \/ Written(u[n].versions, n, g, r)
            BY <1>0, <3>1 DEF PartRecord
        <3>4. Shown(u[n].versions, n, g)
            <4>1. CASE u[n].versions = g.old[n].versions
                <5>1. Alike(u[n].versions, g.old[n].versions) BY <4>1 DEF Alike
                <5> QED BY <5>1, OldShown
            <4>2. CASE Written(u[n].versions, n, g, r) BY <4>2, WrittenShown
            <4> QED BY <3>3, <4>1, <4>2
        <3> QED BY <3>1, <3>2, <3>3, <3>4 DEF PartNode, Resident
    <2>5. CASE ~Resident(t[n]) /\ n \notin S
        <3>0. n \notin J BY <2>1, <2>5 DEF PartNode
        <3>1. CASE n # RootNode /\ Parent[n] \in S /\ ~Resident(t[Parent[n]])
            <4>1. Seen(u, n) BY <2>2, <3>1
            <4>2. u[n] = IF db[Parent[n]].found THEN StoredChild(n) ELSE NilNode
                BY <1>1, <2>5, <3>1
            <4>3. Shown(dbChild[n], n, g) BY <1>0, <3>1 DEF PartRecord
            <4>4. CASE db[Parent[n]].found
                <5>1. u[n].versions = dbChild[n] BY <4>2, <4>4 DEF StoredChild, NilNode
                <5>2. \/ u[n].state = "nil" /\ u[n].versions = <<>>
                      \/ u[n].state = "temporary" /\ u[n].versions # <<>>
                    BY <4>2, <4>4 DEF StoredChild, NilNode
                <5> QED BY <3>0, <4>1, <4>3, <5>1, <5>2 DEF PartNode, Resident
            <4>5. CASE ~db[Parent[n]].found
                <5>1. ~g.old[Parent[n]].found BY <1>0, <3>1, <4>5
                <5>2. g.old[n].found \in BOOLEAN
                    BY CallTypes DEF Records, StoredRecord
                <5>3. g.old[n].versions = <<>> BY <3>1, <5>1, <5>2 DEF CallOK, Rooted
                <5>4. u[n] = NilNode BY <4>2, <4>5
                <5>5. Alike(u[n].versions, g.old[n].versions) BY <5>3, <5>4 DEF NilNode, Alike
                <5>6. Shown(u[n].versions, n, g) BY <5>5, OldShown
                <5> QED BY <3>0, <4>1, <5>4, <5>6 DEF PartNode, NilNode, Resident
            <4> QED BY <4>4, <4>5
        <3>2. CASE n = RootNode \/ Parent[n] \notin S \/ Resident(t[Parent[n]])
            <4>1. u[n] = t[n] BY <1>1, <2>5, <3>2
            <4>2. Seen(u, n) <=> Seen(t, n) BY <2>2, <3>2 DEF Seen
            <4> QED BY <2>1, <4>1, <4>2 DEF PartNode, Resident
        <3> QED BY <3>1, <3>2
    <2> QED BY <2>3, <2>4, <2>5
<1>3. Resident(u[RootNode]) BY <1>1, NodesClosed DEF PartTree
<1> QED BY <1>1, <1>2, <1>3 DEF PartTree

\* What the list of a node edited again is worth.
LEMMA RedoneLatest ==
    ASSUME NEW g, NEW rv, CallOK(g, rv), NEW n \in Nodes, NEW r \in Int, NEW vs, NEW L,
           Redone(vs, n, L, g, r)
    PROVE  /\ vs # <<>> /\ vs \in Versions /\ LatestHash(vs, NilHash) \in Content
           /\ LatestVersion(vs) = g.block
           /\ Pending(vs, g.old[n].versions, r, g.block, LatestHash(vs, NilHash))
           /\ Mixed(LatestHash(vs, NilHash), n, g)
           /\ \A k \in L : n \in Path[k] => LatestHash(vs, NilHash)[k] = g.work[k]
<1>1. PICK h \in Content :
          /\ Pending(vs, g.old[n].versions, r, g.block, h)
          /\ Mixed(h, n, g)
          /\ \A k \in L : n \in Path[k] => h[k] = g.work[k]
    BY DEF Redone
<1>2. /\ g.old[n].versions \in Versions /\ Sorted(g.old[n].versions)
      /\ Upto(g.old[n].versions, g.from) /\ g.from \in Nat /\ g.block \in Nat
      /\ g.from < g.block
    BY CallTypes
<1>3. /\ vs \in Versions /\ vs # <<>>
      /\ LatestHash(vs, NilHash) = h /\ LatestVersion(vs) = g.block
    BY <1>1, <1>2, PendingLatest
<1> QED BY <1>1, <1>3

\* The paths of edited leaves and of leaves just set.
LEMMA MorePaths ==
    ASSUME NEW J, J = Paths[J \cap Keys], NEW S \in SUBSET Keys
    PROVE  /\ (J \cup Paths[S]) \cap Keys = (J \cap Keys) \cup S
           /\ J \cup Paths[S] = Paths[(J \cap Keys) \cup S]
           /\ Closed(J) /\ Closed(J \cup Paths[S])
<1>1. /\ \A n \in Paths[S] : n \in Nodes /\ Path[n] \subseteq Paths[S]
      /\ S \subseteq Paths[S] /\ \A k \in Keys : k \in Paths[S] => k \in S
    BY PathsFacts
<1>2. (J \cup Paths[S]) \cap Keys = (J \cap Keys) \cup S BY <1>1
<1> DEFINE T == J \cap Keys
<1>3. T \in SUBSET Keys /\ J = Paths[T] OBVIOUS
<1> HIDE DEF T
<1>4. \A n \in J : n \in Nodes /\ Path[n] \subseteq J BY <1>3, PathsFacts
<1>5. J \cup Paths[S] = Paths[T \cup S]
    <2>1. /\ Paths[T] = UNION {Path[k] : k \in T} /\ Paths[S] = UNION {Path[k] : k \in S}
          /\ Paths[T \cup S] = UNION {Path[k] : k \in T \cup S}
        BY <1>3, PathsNodes
    <2> QED BY <1>3, <2>1
<1>6. Closed(J) /\ Closed(J \cup Paths[S]) BY <1>1, <1>4 DEF Closed
<1> QED BY <1>2, <1>5, <1>6 DEF T

\* The items are values of the call, and their paths are loaded.
SetAgain(t, items, g) ==
    \A k \in DOMAIN items : items[k] = g.work[k] /\ \A n \in Path[k] : Resident(t[n])

\* A hash of node n in which the keys of L have the values of the call.
Rehashed(h, n, L, g) ==
    h \in Content /\ Mixed(h, n, g) /\ \A k \in L : n \in Path[k] => h[k] = g.work[k]

\* A key that is set again gives the nodes above it the hash of the call there,
\* and the others show what they showed.
LEMMA PartHashes ==
    ASSUME NEW g, NEW rv, CallOK(g, rv), NEW r \in Int,
           NEW t \in Tree, NEW J, PartTree(t, J, g, r), PartEdits(t, J, g, r),
           NEW S \in (SUBSET Keys) \ {{}}, NEW items \in [S -> Value],
           SetAgain(t, items, g), NEW n \in Nodes
    PROVE  Rehashed(SetChildren(t, n, items), n, (J \cap Keys) \cup S, g)
<1> DEFINE h == SetChildren(t, n, items)
           At(kk) == Root(t[Fork[S][kk]])[kk]
<1>1. h \in Content BY SetChildrenType
<1>2. ASSUME NEW kk \in Keys
      PROVE  h[kk] = IF n \notin Path[kk] THEN Nil
                     ELSE IF kk \in S THEN g.work[kk] ELSE At(kk)
    BY DEF SetChildren, SetAgain
<1>p. \A m \in Paths[S] : Resident(t[m])
    <2>1. \A m \in Nodes : m \in Paths[S] <=> \E k \in S : m \in Path[k] BY PathsFacts
    <2>2. Paths[S] \subseteq Nodes BY PathsNodes
    <2> QED BY <2>1, <2>2 DEF SetAgain
<1>3. ASSUME NEW kk \in Keys \ S
      PROVE  /\ At(kk) = Before(g)[kk] \/ At(kk) = g.work[kk]
             /\ kk \in J => At(kk) = g.work[kk]
    <2> DEFINE f == Fork[S][kk]
    <2>1. f \in Path[kk] /\ Parent[f] \in Paths[S] /\ f \in Nodes /\ f # RootNode
        BY ForkExists
    <2>2. At(kk) = LatestHash(t[f].versions, NilHash)[kk] BY DEF Root
    <2> HIDE DEF f, At
    <2>3. Seen(t, f) BY <1>p, <2>1 DEF Seen
    <2>4. CASE f \in J
        <3>1. Redone(t[f].versions, f, J \cap Keys, g, r) BY <2>4 DEF PartEdits
        <3>2. /\ Mixed(LatestHash(t[f].versions, NilHash), f, g)
              /\ \A k \in J \cap Keys : f \in Path[k] =>
                     LatestHash(t[f].versions, NilHash)[k] = g.work[k]
            BY <2>1, <3>1, RedoneLatest
        <3> QED BY <2>1, <2>2, <3>2 DEF Mixed
    <2>5. CASE f \notin J
        <3>1. Shown(t[f].versions, f, g) BY <2>1, <2>3, <2>5 DEF PartTree, PartNode
        <3>2. Closed(J)
            <4>1. S \in SUBSET Keys OBVIOUS
            <4> QED BY <4>1, MorePaths DEF PartEdits
        <3>3. kk \notin J BY <2>1, <2>5, <3>2 DEF Closed
        <3> QED BY <2>1, <2>2, <3>1, <3>3 DEF Shown, Mixed
    <2> QED BY <2>4, <2>5
<1> HIDE DEF h, At
<1>4. Mixed(h, n, g) BY <1>2, <1>3 DEF Mixed
<1>5. ASSUME NEW k \in (J \cap Keys) \cup S, n \in Path[k] PROVE h[k] = g.work[k]
    BY <1>2, <1>3, <1>5
<1> QED BY <1>1, <1>4, <1>5 DEF Rehashed, h

\* Setting keys of the call again.
LEMMA PartSet ==
    ASSUME NEW g, NEW rv, CallOK(g, rv), NEW r \in Int,
           NEW t \in Tree, NEW J, PartTree(t, J, g, r), PartEdits(t, J, g, r),
           NEW S \in (SUBSET Keys) \ {{}}, S \subseteq g.keys, NEW items \in [S -> Value],
           SetAgain(t, items, g), NEW u, u = WithEntries(t, S, items, g.block)
    PROVE  PartTree(u, J \cup Paths[S], g, r) /\ PartEdits(u, J \cup Paths[S], g, r)
<1> DEFINE P == Paths[S]
           L == (J \cap Keys) \cup S
<1>1. /\ J = Paths[J \cap Keys] /\ J \cap Keys \subseteq g.keys
      /\ \A n \in J : Redone(t[n].versions, n, J \cap Keys, g, r)
    BY DEF PartEdits
<1>2. S \in SUBSET Keys OBVIOUS
<1>3. /\ (J \cup P) \cap Keys = L /\ J \cup P = Paths[L] /\ Closed(J) /\ Closed(J \cup P)
    BY <1>1, <1>2, MorePaths
<1>4. /\ \A n \in P : n \in Nodes
      /\ \A n \in Nodes : n \in P <=> \E k \in S : n \in Path[k]
    BY <1>2, PathsFacts
<1>5. \A n \in J : n \in Nodes BY <1>3 DEF Closed
<1>6. \A n \in Nodes : t[n] \in Node /\ t[n].versions \in Versions BY DEF Tree, Node
<1>7. ASSUME NEW n \in P
      PROVE  u[n].state = t[n].state
             /\ u[n].versions = NewVersion(t[n].versions, Info(g.block, SetChildren(t, n, items)))
    <2>1. u[n] = [t[n] EXCEPT !.versions
                      = NewVersion(t[n].versions, Info(g.block, SetChildren(t, n, items)))]
        BY <1>4 DEF WithEntries
    <2>2. t[n] \in Node BY <1>4, <1>6
    <2> QED BY <2>1, <2>2 DEF Node
<1>8. ASSUME NEW n \in Nodes, n \notin P PROVE u[n] = t[n] BY <1>8 DEF WithEntries
<1>h. ASSUME NEW n \in Nodes
      PROVE  Rehashed(SetChildren(t, n, items), n, L, g)
    BY PartHashes
<1>p. \A n \in P : Resident(t[n]) BY <1>4 DEF SetAgain
<1> HIDE DEF P, L
<1>9. ASSUME NEW n \in J \cup P PROVE Redone(u[n].versions, n, L, g, r)
    <2>0. n \in Nodes BY <1>4, <1>5
    <2>1. CASE n \in P
        <3> DEFINE vs == t[n].versions
                   old == g.old[n].versions
                   b == g.block
                   a == g.from
                   h == SetChildren(t, n, items)
        <3>1. /\ h \in Content /\ Mixed(h, n, g)
              /\ \A k \in L : n \in Path[k] => h[k] = g.work[k]
            BY <1>h, <2>0 DEF Rehashed
        <3>2. \E c \in Content : Pending(vs, old, r, b, c) \/ vs = old
            <4>1. CASE n \in J BY <1>1, <4>1 DEF Redone
            <4>2. CASE n \notin J
                <5>1. Resident(t[n]) BY <1>p, <2>1
                <5>2. vs = old \/ Written(vs, n, g, r)
                    BY <2>0, <4>2, <5>1 DEF PartTree, PartNode
                <5>3. Below(g.work, n) \in Content BY <2>0, CallTypes
                <5> QED BY <5>2, <5>3 DEF Written
            <4> QED BY <4>1, <4>2
        <3>3. /\ vs \in Versions /\ old \in Versions /\ Sorted(old) /\ Upto(old, a)
              /\ a \in Nat /\ b \in Nat /\ a < b
            BY <1>6, <2>0, CallTypes
        <3>4. u[n].versions = NewVersion(vs, Info(b, h)) BY <1>7, <2>1
        <3> HIDE DEF vs, old, b, a, h
        <3>5. PICK c \in Content : Pending(vs, old, r, b, c) \/ vs = old BY <3>2
        <3>6. Pending(NewVersion(vs, Info(b, h)), old, r, b, h)
            BY <3>1, <3>3, <3>5, PendingAfterSet
        <3>7. Pending(u[n].versions, g.old[n].versions, r, g.block, h)
            BY <3>4, <3>6 DEF old, b
        <3> QED BY <3>1, <3>7 DEF Redone
    <2>2. CASE n \notin P
        <3>1. n \in J /\ u[n] = t[n] BY <1>8, <2>0, <2>2
        <3>2. Redone(t[n].versions, n, J \cap Keys, g, r) BY <1>1, <3>1
        <3>3. \A k \in L : n \in Path[k] => k \in J \cap Keys BY <1>4, <2>0, <2>2 DEF L
        <3> QED BY <3>1, <3>2, <3>3 DEF Redone
    <2> QED BY <2>1, <2>2
<1>10. PartEdits(u, J \cup P, g, r)
    <2>1. L \subseteq g.keys BY <1>1 DEF L
    <2> QED BY <1>3, <1>9, <2>1 DEF PartEdits
<1>11. ASSUME NEW n \in Nodes PROVE u[n].state = t[n].state BY <1>7, <1>8
<1>12. ASSUME NEW n \in Nodes PROVE PartNode(u, J \cup P, n, g, r)
    <2>1. u[n].state = t[n].state BY <1>11
    <2>2. Seen(u, n) <=> Seen(t, n) BY <1>11, NodesClosed DEF Seen, Resident
    <2>3. PartNode(t, J, n, g, r) BY DEF PartTree
    <2>4. CASE n \in P
        <3>1. t[n].state = "resident" BY <1>p, <2>4 DEF Resident
        <3> QED BY <2>1, <2>2, <2>3, <2>4, <3>1 DEF PartNode, Resident
    <2>5. CASE n \notin P
        <3>1. u[n] = t[n] BY <1>8, <2>5
        <3>2. n \in J \cup P <=> n \in J BY <2>5
        <3> QED BY <2>2, <2>3, <3>1, <3>2, Zenon DEF PartNode
    <2> QED BY <2>4, <2>5
<1>13. Resident(u[RootNode]) BY <1>11, NodesClosed DEF PartTree, Resident
<1> QED BY <1>10, <1>12, <1>13 DEF PartTree, P

\* The state between the parts of call g.
PartState(g) ==
    /\ CallOK(g, recentVersion) /\ g.from = version
    /\ dbVersion = NoVersion => \A n \in Nodes : ~g.old[n].found
    /\ PartRecords(db, dbChild, g, asked)
    /\ dbVersion = g.block => DoneRecords(db, dbChild, g, asked)
    /\ PartTree(root, journal, g, asked)
    /\ PartTree(lastSaveRoot, {}, g, asked)
    /\ PartEdits(root, journal, g, asked)

\* Loading paths into both trees.
LEMMA PartLoad ==
    ASSUME TypeOK, NEW g, PartState(g), NEW S \in SUBSET Keys, NEW t, t = Extend(root, Paths[S])
    PROVE  /\ t \in Tree /\ PartTree(t, journal, g, asked) /\ PartEdits(t, journal, g, asked)
           /\ \A n \in Paths[S] : Resident(t[n])
           /\ PartTree(SavedTreeAfterLoad(S), {}, g, asked)
<1>1. root \in Tree /\ lastSaveRoot \in Tree /\ asked \in Int /\ journal \subseteq Nodes
    BY StateTypes
<1>2. /\ CallOK(g, recentVersion) /\ PartRecords(db, dbChild, g, asked)
      /\ PartTree(root, journal, g, asked) /\ PartTree(lastSaveRoot, {}, g, asked)
      /\ PartEdits(root, journal, g, asked)
    BY DEF PartState
<1>3. ASSUME NEW T \in SUBSET Keys
      PROVE  Paths[T] \in SUBSET Nodes
             /\ \A w : \A n \in Paths[T] : Seen(w, n) \/ Parent[n] \in Paths[T]
    BY PathsNodes, SeenOrLoaded
<1>4. /\ PartTree(t, journal, g, asked) /\ \A n \in Paths[S] : Resident(t[n])
      /\ \A n \in Nodes : Resident(root[n]) => t[n] = root[n]
    <2>1. /\ Paths[S] \in SUBSET Nodes
          /\ \A n \in Paths[S] : Seen(root, n) \/ Parent[n] \in Paths[S]
        BY <1>3
    <2> QED BY <1>1, <1>2, <2>1, PartExtend
<1>5. t \in Tree BY <1>1, ExtendType
<1>6. PartEdits(t, journal, g, asked)
    <2>1. \A n \in journal : t[n] = root[n]
        BY <1>1, <1>2, <1>4 DEF PartTree, PartNode
    <2> QED BY <1>2, <2>1 DEF PartEdits
<1>7. PartTree(SavedTreeAfterLoad(S), {}, g, asked)
    <2> DEFINE T == {k \in S : ExtendsSavedTree(k)}
    <2>1. T \in SUBSET Keys OBVIOUS
    <2>2. SavedTreeAfterLoad(S) = Extend(lastSaveRoot, Paths[T]) BY DEF SavedTreeAfterLoad
    <2> HIDE DEF T
    <2>3. /\ Paths[T] \in SUBSET Nodes
          /\ \A n \in Paths[T] : Seen(lastSaveRoot, n) \/ Parent[n] \in Paths[T]
        BY <1>3, <2>1
    <2> QED BY <1>1, <1>2, <2>2, <2>3, PartExtend
<1> QED BY <1>4, <1>5, <1>6, <1>7

\* GetProof between the parts.
LEMMA PartGetProof ==
    ASSUME TypeOK, NEW g, PartState(g), NEW k \in Keys, GetProof(k)
    PROVE  PartState(g)'
<1>1. {k} \in SUBSET Keys /\ Paths[{k}] = Path[k]
    <2>1. {k} \in SUBSET Keys OBVIOUS
    <2>2. Paths[{k}] = UNION {Path[j] : j \in {k}} BY <2>1, PathsNodes
    <2>3. {Path[j] : j \in {k}} = {Path[k]} OBVIOUS
    <2> QED BY <2>1, <2>2, <2>3
<1>2. /\ root' = Extend(root, Paths[{k}]) /\ lastSaveRoot' = SavedTreeAfterLoad({k})
      /\ UNCHANGED <<version, recentVersion, journal, db, dbChild, dbVersion, asked>>
    BY <1>1 DEF GetProof
<1>3. /\ PartTree(root', journal, g, asked) /\ PartEdits(root', journal, g, asked)
      /\ PartTree(lastSaveRoot', {}, g, asked)
    BY <1>1, <1>2, PartLoad
<1> QED BY <1>2, <1>3 DEF PartState

\* Set and MultiSet between the parts: the client sets what it had set.
LEMMA PartSetItems ==
    ASSUME TypeOK, NEW g, PartState(g), NEW S \in (SUBSET Keys) \ {{}}, S \subseteq g.keys,
           NEW items \in [S -> Value], \A k \in S : items[k] = g.work[k],
           SetItems(items, g.block)
    PROVE  PartState(g)'
<1> DEFINE t == Extend(root, Paths[S])
<1>1. DOMAIN items = S /\ S \in SUBSET Keys OBVIOUS
<1>2. /\ t \in Tree /\ PartTree(t, journal, g, asked) /\ PartEdits(t, journal, g, asked)
      /\ \A n \in Paths[S] : Resident(t[n]) /\ PartTree(SavedTreeAfterLoad(S), {}, g, asked)
    BY <1>1, PartLoad
<1>3. asked \in Int BY StateTypes
<1> HIDE DEF t
<1>4. /\ root' = WithEntries(t, S, items, g.block)
      /\ lastSaveRoot' = SavedTreeAfterLoad(S)
      /\ journal' = journal \cup Paths[S]
      /\ UNCHANGED <<version, recentVersion, db, dbChild, dbVersion, asked>>
    BY <1>1 DEF SetItems, WithEntries, t
<1>5. SetAgain(t, items, g)
    <2>1. ASSUME NEW k \in S PROVE Path[k] \subseteq Paths[S]
        BY <1>1, PathsFacts
    <2> QED BY <1>1, <1>2, <2>1 DEF SetAgain
<1>6. CallOK(g, recentVersion) BY DEF PartState
<1>7. PartTree(SavedTreeAfterLoad(S), {}, g, asked) BY <1>1, PartLoad
<1>8. ASSUME NEW u, u = WithEntries(t, S, items, g.block)
      PROVE  /\ PartTree(u, journal \cup Paths[S], g, asked)
             /\ PartEdits(u, journal \cup Paths[S], g, asked)
    BY <1>2, <1>3, <1>5, <1>6, <1>8, PartSet
<1>9. /\ PartTree(root', journal \cup Paths[S], g, asked)
      /\ PartEdits(root', journal \cup Paths[S], g, asked)
    BY <1>4, <1>8
<1> QED BY <1>4, <1>7, <1>9 DEF PartState

\* Without edits there is nothing to say about them.
LEMMA NoPartEdits ==
    ASSUME NEW t, NEW g, NEW r PROVE PartEdits(t, {}, g, r)
<1>1. Paths[{}] = UNION {Path[k] : k \in {}} BY PathsNodes
<1>2. {} \cap Keys = {} /\ Paths[{}] = {} BY <1>1
<1> QED BY <1>2 DEF PartEdits

\* Reset between the parts.
LEMMA PartReset ==
    ASSUME TypeOK, NEW g, PartState(g), interrupted # Nothing, Reset
    PROVE  PartState(g)'
<1>1. /\ journal' = {} /\ root' = lastSaveRoot
      /\ UNCHANGED <<version, recentVersion, lastSaveRoot, db, dbChild, dbVersion, asked>>
    BY DEF Reset
<1> QED BY <1>1, NoPartEdits DEF PartState

\* A restart between the parts.
LEMMA PartReopen ==
    ASSUME TypeOK, RangeInv, NEW g, PartState(g), interrupted # Nothing, ~IsDone, Reopen
    PROVE  PartState(g)' /\ interrupted' = interrupted
<1> DEFINE t == ReopenedTree
<1>1. /\ root' = t /\ lastSaveRoot' = t /\ journal' = {} /\ asked' = asked
      /\ UNCHANGED <<db, dbChild, dbVersion>>
      /\ version' = version /\ recentVersion' = recentVersion /\ interrupted' = interrupted
    BY DEF Reopen, RangeInv, RangeSurvivesRestart
<1>2. CallOK(g, recentVersion) /\ asked \in Int /\ RootNode \in Nodes
    BY StateTypes, NodesClosed DEF PartState
<1>3. ASSUME NEW n \in Nodes
      PROVE  /\ PartRecord(db, dbChild, n, g, asked)
             /\ ~g.old[n].found => g.old[n].versions = <<>>
             /\ ~db[n].found => ~g.old[n].found /\ db[n].versions = <<>>
    <2>1. PartRecord(db, dbChild, n, g, asked) BY DEF PartState, PartRecords
    <2>2. ~g.old[n].found => g.old[n].versions = <<>> BY DEF PartState, CallOK, Rooted
    <2> QED BY <2>1, <2>2 DEF PartRecord
<1>4. /\ t[RootNode].state = "resident"
      /\ t[RootNode].versions = IF dbVersion = NoVersion THEN <<>> ELSE db[RootNode].versions
      /\ \A n \in Nodes \ {RootNode} :
             /\ ~Resident(t[n]) /\ (Seen(t, n) <=> Parent[n] = RootNode)
             /\ t[n] = IF Parent[n] = RootNode /\ dbVersion # NoVersion /\ db[RootNode].found
                       THEN StoredChild(n) ELSE NilNode
    BY <1>3, ReopenedShape
<1> HIDE DEF t
<1>5. ASSUME NEW n \in Nodes, g.old[n].versions = <<>> PROVE Shown(<<>>, n, g)
    <2>1. Alike(<<>>, g.old[n].versions) BY <1>5 DEF Alike
    <2> QED BY <1>2, <2>1, OldShown
<1>6. ASSUME NEW n \in Nodes PROVE PartNode(t, {}, n, g, asked)
    <2>1. CASE n = RootNode
        <3>1. t[n].versions = g.old[n].versions \/ Written(t[n].versions, n, g, asked)
            <4>1. CASE dbVersion = NoVersion
                <5>1. ~g.old[RootNode].found BY <1>2, <4>1 DEF PartState
                <5> QED BY <1>2, <1>3, <1>4, <2>1, <4>1, <5>1
            <4>2. CASE dbVersion # NoVersion BY <1>2, <1>3, <1>4, <2>1, <4>2 DEF PartRecord
            <4> QED BY <4>1, <4>2
        <3>2. Shown(t[n].versions, n, g)
            <4>1. CASE t[n].versions = g.old[n].versions
                <5>1. Alike(t[n].versions, g.old[n].versions) BY <4>1 DEF Alike
                <5> QED BY <1>2, <5>1, OldShown
            <4>2. CASE Written(t[n].versions, n, g, asked) BY <1>2, <4>2, WrittenShown
            <4> QED BY <3>1, <4>1, <4>2
        <3> QED BY <1>4, <2>1, <3>1, <3>2 DEF PartNode, Seen
    <2>2. CASE n # RootNode /\ t[n] = StoredChild(n) /\ Parent[n] = RootNode
        <3>1. Shown(dbChild[n], n, g) BY <1>3, <2>2 DEF PartRecord
        <3>2. t[n].versions = dbChild[n] BY <2>2 DEF StoredChild, NilNode
        <3>3. \/ t[n].state = "nil" /\ t[n].versions = <<>>
              \/ t[n].state = "temporary" /\ t[n].versions # <<>>
            BY <2>2 DEF StoredChild, NilNode
        <3> QED BY <1>4, <2>2, <3>1, <3>2, <3>3 DEF PartNode
    <2>3. CASE n # RootNode /\ t[n] = NilNode
                  /\ (Parent[n] = RootNode => dbVersion = NoVersion \/ ~db[RootNode].found)
        <3>1. ASSUME Parent[n] = RootNode PROVE g.old[n].versions = <<>>
            <4>1. ~g.old[n].found
                <5>1. CASE dbVersion = NoVersion BY <5>1 DEF PartState
                <5>2. CASE ~db[RootNode].found
                    <6>1. ~g.old[RootNode].found BY <1>2, <1>3, <5>2
                    <6>2. g.old[n].found => g.old[RootNode].found
                        BY <1>2, <2>3, <3>1 DEF CallOK, Rooted
                    <6>3. g.old[n].found \in BOOLEAN
                        BY <1>2, CallTypes DEF Records, StoredRecord
                    <6> QED BY <6>1, <6>2, <6>3
                <5> QED BY <2>3, <3>1, <5>1, <5>2
            <4> QED BY <1>3, <4>1
        <3>2. Parent[n] = RootNode => Shown(<<>>, n, g) BY <1>5, <3>1
        <3>3. t[n].state = "nil" /\ t[n].versions = <<>> BY <2>3 DEF NilNode
        <3> QED BY <1>4, <2>3, <3>2, <3>3 DEF PartNode
    <2> QED BY <1>4, <2>1, <2>2, <2>3
<1>7. PartTree(t, {}, g, asked) BY <1>4, <1>6 DEF PartTree, Resident
<1> QED BY <1>1, <1>7, NoPartEdits DEF PartState

\* When every key of the call has been set again, the nodes above them have the
\* hashes of the call.
LEMMA PartComplete ==
    ASSUME TypeOK, NEW g, PartState(g), g.keys \subseteq journal
    PROVE  /\ journal = Paths[g.keys] /\ journal \cap Keys = g.keys
           /\ Closed(journal) /\ journal \subseteq Nodes
           /\ \A n \in journal : Written(root[n].versions, n, g, asked)
<1>1. /\ CallOK(g, recentVersion) /\ asked \in Int /\ journal \subseteq Nodes
      /\ journal = Paths[journal \cap Keys] /\ journal \cap Keys \subseteq g.keys
      /\ \A n \in journal : Redone(root[n].versions, n, journal \cap Keys, g, asked)
    BY StateTypes DEF PartState, PartEdits
<1>2. g.keys \in SUBSET Keys /\ g.work \in Content BY <1>1, CallTypes
<1>3. journal \cap Keys = g.keys BY <1>1, <1>2
<1>4. journal = Paths[g.keys] BY <1>1, <1>3
<1>5. Closed(journal) BY <1>1, <1>2, MorePaths
<1>6. ASSUME NEW n \in journal PROVE Written(root[n].versions, n, g, asked)
    <2> DEFINE vs == root[n].versions
               h == LatestHash(vs, NilHash)
    <2>1. n \in Nodes /\ Redone(vs, n, g.keys, g, asked) BY <1>1, <1>3
    <2>2. /\ h \in Content /\ Pending(vs, g.old[n].versions, asked, g.block, h)
          /\ Mixed(h, n, g) /\ \A k \in g.keys : n \in Path[k] => h[k] = g.work[k]
        BY <1>1, <2>1, RedoneLatest
    <2> HIDE DEF h, vs
    <2>3. ASSUME NEW k \in Keys PROVE h[k] = IF n \in Path[k] THEN g.work[k] ELSE Nil
        <3>1. k \notin g.keys => g.work[k] = Before(g)[k] BY <1>1 DEF CallOK
        <3> QED BY <2>2, <3>1 DEF Mixed
    <2>4. h = Below(g.work, n) BY <2>2, <2>3 DEF Below, Content
    <2>5. Pending(vs, g.old[n].versions, asked, g.block, Below(g.work, n)) BY <2>2, <2>4
    <2> QED BY <1>4, <2>5 DEF Written, vs
<1> QED BY <1>1, <1>3, <1>4, <1>5, <1>6

\* writeNode's pruning in the call done again.
LEMMA PartPruned ==
    ASSUME TypeOK, NEW g, PartState(g), g.keys \subseteq journal,
           NEW recent, MayCommit(recent, g.block), NEW visited \in SUBSET journal,
           NEW t, t = Pruned(recent, visited)
    PROVE  /\ t \in Tree /\ PrunedTo(recent) \in Int /\ asked <= PrunedTo(recent)
           /\ \A n \in Nodes : t[n].state = root[n].state
           /\ \A n \in Nodes : n \notin journal => t[n] = root[n]
           /\ \A n \in journal : Written(t[n].versions, n, g, PrunedTo(recent))
<1> DEFINE r == PrunedTo(recent)
<1>1. /\ root \in Tree /\ asked \in Int /\ journal \subseteq Nodes
      /\ \A n \in journal : Written(root[n].versions, n, g, asked)
      /\ CallOK(g, recentVersion)
    BY StateTypes, PartComplete DEF PartState
<1>2. /\ recent \in Int /\ r \in Int /\ asked <= r /\ g.block \in Nat
      /\ recent # NoVersion => recent = r /\ recent < g.block
      /\ recent = NoVersion => r = asked
    BY <1>1, SMTAssumption
    DEF MayCommit, PrunedTo, CommitAccepted, RecentChoice, NoVersion
<1>3. t \in Tree BY PrunedType DEF MayCommit
<1> HIDE DEF r
<1>4. ASSUME NEW n \in Nodes
      PROVE  /\ t[n].state = root[n].state
             /\ n \notin visited => t[n] = root[n]
             /\ recent = NoVersion => t[n] = root[n]
             /\ n \in visited /\ recent # NoVersion =>
                    t[n].versions = Prune(root[n].versions, recent)
    <2>1. t[n] = IF n \in visited /\ recent # NoVersion
                 THEN [root[n] EXCEPT !.versions = Prune(@, recent)]
                 ELSE root[n]
        BY DEF Pruned
    <2>2. root[n] \in Node BY <1>1 DEF Tree
    <2> QED BY <2>1, <2>2 DEF Node
<1>5. ASSUME NEW n \in journal PROVE Written(t[n].versions, n, g, r)
    <2>1. n \in Nodes /\ Written(root[n].versions, n, g, asked) BY <1>1
    <2>2. CASE n \notin visited \/ recent = NoVersion
        <3>1. t[n] = root[n] BY <1>4, <2>1, <2>2
        <3> QED BY <1>1, <1>2, <2>1, <3>1, PartMore
    <2>3. CASE n \in visited /\ recent # NoVersion
        <3>1. recent = r /\ r < g.block /\ t[n].versions = Prune(root[n].versions, r)
            BY <1>2, <1>4, <2>1, <2>3
        <3> DEFINE vs == root[n].versions
                   old == g.old[n].versions
                   b == g.block
                   h == Below(g.work, n)
        <3>2. /\ old \in Versions /\ Sorted(old) /\ h \in Content /\ b \in Nat
              /\ n \in Paths[g.keys] /\ Pending(vs, old, asked, b, h) /\ r < b
            BY <1>1, <2>1, <3>1, CallTypes DEF Written
        <3> HIDE DEF vs, old, b, h
        <3>3. Pending(Prune(vs, r), old, r, b, h)
            BY <1>1, <1>2, <3>2, PendingPruned
        <3> QED BY <3>1, <3>2, <3>3 DEF Written, vs, old, b, h
    <2> QED BY <2>2, <2>3
<1> QED BY <1>2, <1>3, <1>4, <1>5 DEF r

\* What a commit of block b that fails does to the tree and the records.
PartWrites(b, recent, visited, written, late) ==
    /\ visited \subseteq journal /\ written \subseteq journal
    /\ root' = Pruned(recent, visited)
    /\ db' = Stored(written, Pruned(recent, visited))
    /\ dbChild' = StoredEntries(written, Pruned(recent, visited \ late))
    /\ asked' = PrunedTo(recent)
    /\ dbVersion' = dbVersion \/ (dbVersion' = b /\ written = journal)
    /\ UNCHANGED <<version, recentVersion, lastSaveRoot, journal, rollbackFailed>>

LEMMA CommitFailsWrites ==
    ASSUME NEW recent, NEW v, NEW visited, NEW written, NEW late,
           CommitFails(recent, v, visited, written, late)
    PROVE  PartWrites(v, recent, visited, written, late)
BY DEF CommitFails, PartWrites, PrunedTo

LEMMA CommitUnansweredWrites ==
    ASSUME NEW recent, NEW v, NEW late, CommitUnanswered(recent, v, late)
    PROVE  PartWrites(v, recent, journal, journal, late)
BY DEF CommitUnanswered, PartWrites, PrunedTo

\* The commit fails again, or for the first time with something stored.
LEMMA PartCommitFails ==
    ASSUME TypeOK, NEW g, PartState(g), g.keys \subseteq journal,
           NEW recent, MayCommit(recent, g.block), NEW visited, NEW written, NEW late,
           PartWrites(g.block, recent, visited, written, late)
    PROVE  PartState(g)' /\ PendingEdits = {<<k, g.work[k]>> : k \in g.keys}
<1> DEFINE t == Pruned(recent, visited)
           c == Pruned(recent, visited \ late)
           r == PrunedTo(recent)
<1>1. /\ visited \in SUBSET journal /\ visited \ late \in SUBSET journal
      /\ written \subseteq journal
    BY DEF PartWrites
<1>2. /\ root' = t /\ db' = Stored(written, t) /\ dbChild' = StoredEntries(written, c)
      /\ asked' = r /\ UNCHANGED <<version, recentVersion, lastSaveRoot, journal>>
      /\ dbVersion' = dbVersion \/ (dbVersion' = g.block /\ written = journal)
    BY DEF PartWrites
<1>3. /\ journal = Paths[g.keys] /\ journal \cap Keys = g.keys
      /\ Closed(journal) /\ journal \subseteq Nodes
      /\ \A n \in journal : Written(root[n].versions, n, g, asked)
    BY PartComplete
<1>4. /\ CallOK(g, recentVersion) /\ asked \in Int /\ PartRecords(db, dbChild, g, asked)
      /\ PartTree(root, journal, g, asked) /\ PartTree(lastSaveRoot, {}, g, asked)
      /\ dbVersion = g.block => DoneRecords(db, dbChild, g, asked)
      /\ dbVersion = NoVersion => \A n \in Nodes : ~g.old[n].found
      /\ g.from = version
    BY StateTypes DEF PartState
<1>5. /\ r \in Int /\ asked <= r
      /\ \A n \in Nodes : t[n].state = root[n].state
      /\ \A n \in Nodes : n \notin journal => t[n] = root[n]
      /\ \A n \in journal : Written(t[n].versions, n, g, r)
    BY <1>1, PartPruned
<1>6. /\ \A n \in Nodes : n \notin journal => c[n] = root[n]
      /\ \A n \in journal : Written(c[n].versions, n, g, r)
    BY <1>1, PartPruned
<1> HIDE DEF t, c, r
<1>7. /\ PartRecords(db, dbChild, g, r) /\ PartTree(root, journal, g, r)
      /\ PartTree(lastSaveRoot, {}, g, r)
      /\ dbVersion = g.block => DoneRecords(db, dbChild, g, r)
    BY <1>4, <1>5, PartMore
<1>8. ASSUME NEW n \in Nodes PROVE PartRecord(db', dbChild', n, g, r)
    <2>0. PartRecord(db, dbChild, n, g, r) BY <1>7 DEF PartRecords
    <2>1. db'[n] = g.old[n] \/ (db'[n].found /\ Written(db'[n].versions, n, g, r))
        <3>1. CASE n \in written
            <4>1. db'[n].found = TRUE /\ db'[n].versions = t[n].versions
                BY <1>2, <3>1 DEF Stored
            <4> QED BY <1>1, <1>5, <3>1, <4>1
        <3>2. CASE n \notin written
            <4>1. db'[n] = db[n] BY <1>2, <3>2 DEF Stored
            <4> QED BY <2>0, <4>1 DEF PartRecord
        <3> QED BY <3>1, <3>2
    <2>2. ASSUME n # RootNode PROVE Shown(dbChild'[n], n, g)
        <3>1. CASE Parent[n] \in written
            <4>1. dbChild'[n] = c[n].versions BY <1>2, <2>2, <3>1 DEF StoredEntries, ToStorage
            <4>2. CASE n \in journal
                <5>1. Written(c[n].versions, n, g, r) BY <1>6, <4>2
                <5> QED BY <1>4, <1>5, <4>1, <5>1, WrittenShown
            <4>3. CASE n \notin journal
                <5>1. Parent[n] \in Nodes /\ Parent[n] \in journal BY <1>1, <2>2, <3>1, NodesClosed
                <5>2. Seen(root, n) BY <1>4, <5>1 DEF Seen, PartTree, PartNode
                <5>3. Shown(root[n].versions, n, g) BY <1>4, <4>3, <5>2 DEF PartTree, PartNode
                <5> QED BY <1>6, <4>1, <4>3, <5>3
            <4> QED BY <4>2, <4>3
        <3>2. CASE Parent[n] \notin written
            <4>1. dbChild'[n] = dbChild[n] BY <1>2, <3>2 DEF StoredEntries
            <4> QED BY <2>0, <2>2, <4>1 DEF PartRecord
        <3> QED BY <3>1, <3>2
    <2> QED BY <2>1, <2>2 DEF PartRecord
<1>9. PartRecords(db', dbChild', g, r) BY <1>8 DEF PartRecords
<1>10. ASSUME NEW n \in Nodes PROVE PartNode(t, journal, n, g, r)
    <2>1. PartNode(root, journal, n, g, r) BY <1>7 DEF PartTree
    <2>2. Seen(t, n) <=> Seen(root, n) BY <1>5, NodesClosed DEF Seen, Resident
    <2>3. CASE n \in journal
        <3>1. t[n].state = "resident" BY <1>5, <2>1, <2>3 DEF PartNode, Resident
        <3> QED BY <1>5, <2>1, <2>2, <2>3, <3>1 DEF PartNode, Resident
    <2>4. CASE n \notin journal
        <3>1. t[n] = root[n] BY <1>5, <2>4
        <3> QED BY <2>1, <2>2, <3>1 DEF PartNode
    <2> QED BY <2>3, <2>4
<1>11. PartTree(t, journal, g, r)
    <2>1. Resident(t[RootNode]) BY <1>5, <1>7, NodesClosed DEF PartTree, Resident
    <2> QED BY <1>10, <2>1 DEF PartTree
<1>12. ASSUME NEW n \in journal PROVE Redone(t[n].versions, n, journal \cap Keys, g, r)
    <2>1. Pending(t[n].versions, g.old[n].versions, r, g.block, Below(g.work, n))
        BY <1>5 DEF Written
    <2>2. Below(g.work, n) \in Content BY <1>3, <1>4, CallTypes
    <2>3. Mixed(Below(g.work, n), n, g) BY DEF Mixed, Below
    <2>4. \A k \in journal \cap Keys : n \in Path[k] => Below(g.work, n)[k] = g.work[k]
        BY DEF Below
    <2> QED BY <2>1, <2>2, <2>3, <2>4 DEF Redone
<1>13. PartEdits(t, journal, g, r) BY <1>3, <1>12 DEF PartEdits
<1>14. ASSUME NEW n \in journal, n # RootNode, Parent[n] \in written
       PROVE  dbChild'[n] # <<>> /\ LatestHash(dbChild'[n], NilHash) = Below(g.work, n)
    <2>1. n \in Nodes BY <1>3
    <2>2. dbChild'[n] = c[n].versions BY <1>2, <1>14, <2>1 DEF StoredEntries, ToStorage
    <2>3. Written(c[n].versions, n, g, r) BY <1>6
    <2> QED BY <1>4, <1>5, <2>1, <2>2, <2>3, WrittenShown
<1>15. ASSUME NEW n \in journal, n \in written
       PROVE  db'[n].found /\ Written(db'[n].versions, n, g, r)
    <2>1. n \in Nodes BY <1>3
    <2>2. db'[n].found = TRUE /\ db'[n].versions = t[n].versions BY <1>2, <1>15, <2>1 DEF Stored
    <2> QED BY <1>5, <2>2
<1>16. ASSUME dbVersion' = g.block, NEW n \in journal
       PROVE  DoneRecord(db', dbChild', n, g, r)
    <2>1. n \in Nodes /\ n \in Paths[g.keys] BY <1>3
    <2>2. ASSUME n # RootNode PROVE Parent[n] \in journal
        <3>1. Parent[n] \in Path[n] BY <2>1, <2>2, PathFacts, NodesClosed
        <3> QED BY <1>3, <3>1 DEF Closed
    <2>3. CASE dbVersion' = g.block /\ written = journal
        BY <1>14, <1>15, <2>2, <2>3 DEF DoneRecord
    <2>4. CASE dbVersion = g.block
        <3>1. DoneRecord(db, dbChild, n, g, r) BY <1>7, <2>1, <2>4 DEF DoneRecords
        <3>2. n \notin written => db'[n] = db[n] BY <1>2, <2>1 DEF Stored
        <3>3. n # RootNode /\ Parent[n] \notin written => dbChild'[n] = dbChild[n]
            BY <1>2, <2>1 DEF StoredEntries
        <3> QED BY <1>14, <1>15, <3>1, <3>2, <3>3 DEF DoneRecord
    <2> QED BY <1>2, <1>16, <2>3, <2>4
<1>17. dbVersion' = g.block => DoneRecords(db', dbChild', g, r)
    BY <1>3, <1>16 DEF DoneRecords
<1>18. PartState(g)'
    <2>1. dbVersion' = NoVersion => dbVersion = NoVersion
        <3>1. g.block # NoVersion BY <1>4, CallTypes DEF NoVersion
        <3> QED BY <1>2, <3>1
    <2> QED BY <1>2, <1>4, <1>7, <1>9, <1>11, <1>13, <1>17, <2>1 DEF PartState
<1>19. ASSUME NEW k \in g.keys PROVE Root(root[k])[k] = g.work[k]
    <2>1. k \in journal /\ k \in Nodes /\ k \in Keys BY <1>3
    <2>2. LatestHash(root[k].versions, NilHash) = Below(g.work, k)
        BY <1>3, <1>4, <2>1, WrittenShown
    <2>3. k \in Path[k] BY <2>1, PathFacts
    <2> QED BY <2>1, <2>2, <2>3 DEF Root, Below
<1>20. PendingEdits = {<<k, g.work[k]>> : k \in g.keys}
    BY <1>3, <1>19 DEF PendingEdits
<1> QED BY <1>18, <1>20

\* The records of a call that was stored to the end are those of its version.
LEMMA PartFinished ==
    ASSUME TypeOK, RangeInv, NEW g, PartState(g), interrupted # Nothing,
           dbVersion = g.block, interrupted.version = g.block
    PROVE  StoreOK
<1> DEFINE W == g.work
           b == g.block
           d == g.old
           J == Paths[g.keys]
           rv == ReopenedRecent
<1>1. /\ CallOK(g, recentVersion) /\ g.from = version /\ asked \in Int
      /\ PartRecords(db, dbChild, g, asked) /\ DoneRecords(db, dbChild, g, asked)
      /\ recentVersion \in Nat
    BY StateTypes DEF PartState
<1>2. /\ d \in Records /\ version \in Nat /\ b \in Nat /\ W \in Content /\ version < b
      /\ recentVersion <= version /\ g.keys \in SUBSET Keys
      /\ \A n \in Nodes : d[n].versions \in Versions
    BY <1>1, CallTypes
<1>3. /\ Rooted(d) /\ Ordered(d, recentVersion, version) /\ Hashed(d, recentVersion)
      /\ \A k \in Keys \ g.keys : W[k] = Contents(d, version)[k]
    BY <1>1 DEF CallOK, Before
<1>4. /\ \A n \in J : n \in Nodes /\ Path[n] \subseteq J
      /\ g.keys \subseteq J
    BY <1>2, PathsFacts
<1>5. Closed(J) BY <1>4 DEF Closed
<1>6. /\ rv \in Nat /\ recentVersion <= rv /\ rv <= b /\ asked <= rv
      /\ ReopenedVersion = b /\ dbVersion # NoVersion
    <2>1. ReopenedVersion = b /\ dbVersion # NoVersion BY <1>2 DEF ReopenedVersion, NoVersion
    <2>2. rv = IF asked = NoVersion THEN recentVersion ELSE asked
        BY <1>2, <2>1 DEF RangeInv, RangeSurvivesRestart
    <2>3. rv <= b /\ (asked # NoVersion => asked >= recentVersion)
        BY <2>1 DEF RangeInv, RangeSurvivesRestart
    <2>4. asked \in Nat \cup {-1} BY DEF TypeOK, NoVersion
    <2> QED BY <1>1, <2>1, <2>2, <2>3, <2>4 DEF NoVersion
<1> HIDE DEF J, rv
<1>7. ASSUME NEW n \in J
      PROVE  /\ db[n].found /\ Pending(db[n].versions, d[n].versions, rv, b, Below(W, n))
             /\ n # RootNode => Alike(dbChild[n], db[n].versions)
    <2>1. n \in Nodes BY <1>4
    <2>2. DoneRecord(db, dbChild, n, g, asked) BY <1>1 DEF DoneRecords, J
    <2>3. db[n].versions # <<>> /\ LatestHash(db[n].versions, NilHash) = Below(g.work, n)
        BY <1>1, <2>1, <2>2, WrittenShown DEF DoneRecord
    <2>4. n # RootNode => Alike(dbChild[n], db[n].versions) BY <2>2, <2>3 DEF DoneRecord, Alike
    <2>5. Pending(db[n].versions, d[n].versions, asked, b, Below(W, n))
        BY <2>2 DEF DoneRecord, Written
    <2>6. rv \in Int /\ d[n].versions \in Versions BY <1>2, <1>6, <2>1
    <2> HIDE DEF d, b, W
    <2>7. Pending(db[n].versions, d[n].versions, rv, b, Below(W, n))
        BY <1>1, <1>6, <2>5, <2>6, PendingMore
    <2> QED BY <2>2, <2>4, <2>7 DEF DoneRecord
<1>8. ASSUME NEW n \in Nodes, n \notin J
      PROVE  db[n] = d[n] /\ (n # RootNode => Alike(dbChild[n], d[n].versions))
    <2>1. PartRecord(db, dbChild, n, g, asked) BY <1>1 DEF PartRecords
    <2>2. n \notin Paths[g.keys] BY <1>8 DEF J
    <2> QED BY <2>1, <2>2 DEF PartRecord, Written, Shown
<1>9. Committed(db, d, J, W, rv, b) BY <1>7, <1>8 DEF Committed
<1>10. ASSUME NEW n \in Nodes
       PROVE  /\ ~db[n].found => db[n].versions = <<>>
              /\ n # RootNode => Alike(dbChild[n], db[n].versions)
              /\ n # RootNode => (db[n].found => db[Parent[n]].found)
    <2>1. n # RootNode => Parent[n] \in Nodes /\ Parent[n] \in Path[n]
        BY PathFacts, NodesClosed
    <2>2. CASE n \in J
        <3>1. n # RootNode => Parent[n] \in J BY <1>4, <2>1, <2>2
        <3> QED BY <1>7, <2>2, <3>1
    <2>3. CASE n \notin J
        <3>1. db[n] = d[n] /\ (n # RootNode => Alike(dbChild[n], d[n].versions)) BY <1>8, <2>3
        <3>2. /\ ~d[n].found => d[n].versions = <<>>
              /\ n # RootNode => (d[n].found => d[Parent[n]].found)
            BY <1>3 DEF Rooted
        <3>3. n # RootNode => db[Parent[n]].found \/ db[Parent[n]] = d[Parent[n]]
            BY <1>7, <1>8, <2>1
        <3> HIDE DEF d
        <3> QED BY <3>1, <3>2, <3>3
    <2> QED BY <2>2, <2>3
<1>11. Linked(db, dbChild) BY <1>10 DEF Linked
<1>12. \A k \in Keys \ J : W[k] = Contents(d, version)[k] BY <1>3, <1>4
<1> HIDE DEF d, b, W
<1>13. Ordered(db, rv, b)
    BY <1>1, <1>2, <1>3, <1>5, <1>6, <1>9, CommitOrdered
<1>14. Hashed(db, rv)
    <2>1. Unedited(W, J, d, version) BY <1>12 DEF Unedited
    <2> QED BY <2>1, <1>1, <1>2, <1>3, <1>5, <1>6, <1>9, CommitHashed
<1> QED BY <1>6, <1>11, <1>13, <1>14 DEF StoreOK, rv, b

\* The commit done again: the records are those of a commit that was not
\* interrupted.
LEMMA PartCommit ==
    ASSUME TypeOK, RangeInv, NEW g, PartState(g), g.keys \subseteq journal,
           NEW recent, MayCommit(recent, g.block), NEW release \in Nat, NEW late,
           CommitWithNewVersion(recent, g.block, release, late)
    PROVE  /\ RecordsOK' /\ TreesOK'
           /\ \A w \in Nat : w >= recentVersion' /\ w < g.block =>
                  Contents(db', w) = Contents(g.old, w)
<1> DEFINE t == Pruned(recent, journal)
           c == Pruned(recent, journal \ late)
           W == g.work
           b == g.block
           d == g.old
           r == PrunedTo(recent)
           rv == IF recent = NoVersion THEN recentVersion ELSE recent
<1>1. /\ CallOK(g, recentVersion) /\ g.from = version /\ asked \in Int
      /\ PartRecords(db, dbChild, g, asked) /\ PartTree(root, journal, g, asked)
      /\ recentVersion \in Nat
    BY StateTypes DEF PartState
<1>2. /\ d \in Records /\ version \in Nat /\ b \in Nat /\ W \in Content /\ version < b
      /\ recentVersion <= version
      /\ \A n \in Nodes : d[n].versions \in Versions
    BY <1>1, CallTypes
<1>3. /\ Rooted(d) /\ Ordered(d, recentVersion, version) /\ Hashed(d, recentVersion)
      /\ \A k \in Keys \ g.keys : W[k] = Contents(d, version)[k]
    BY <1>1 DEF CallOK, Before
<1>4. /\ journal = Paths[g.keys] /\ journal \cap Keys = g.keys /\ Closed(journal)
      /\ journal \subseteq Nodes
    BY PartComplete
<1>5. /\ t \in Tree /\ r \in Int
      /\ \A n \in Nodes : t[n].state = root[n].state
      /\ \A n \in Nodes : n \notin journal => t[n] = root[n]
      /\ \A n \in journal : Written(t[n].versions, n, g, r)
    BY PartPruned
<1>6. /\ \A n \in Nodes : n \notin journal => c[n] = root[n]
      /\ \A n \in journal : Written(c[n].versions, n, g, r)
    <2>1. journal \ late \in SUBSET journal OBVIOUS
    <2> QED BY <2>1, PartPruned
<1>7. /\ rv \in Nat /\ recentVersion <= rv /\ rv <= b /\ r <= rv
    BY <1>1, <1>2, SMTAssumption
    DEF MayCommit, PrunedTo, CommitAccepted, RecentChoice, NoVersion
<1>8. /\ db' = Stored(journal, t) /\ dbChild' = StoredEntries(journal, c)
      /\ root' = IF release > 0 THEN Released(t, release) ELSE t
      /\ lastSaveRoot' = root' /\ journal' = {} /\ version' = b /\ dbVersion' = b
      /\ recentVersion' = rv /\ asked' = NoVersion
    BY DEF CommitWithNewVersion
<1> HIDE DEF t, c, r, rv
<1>9. ASSUME NEW n \in journal
      PROVE  /\ db'[n].found = TRUE /\ db'[n].versions = t[n].versions
             /\ Pending(t[n].versions, d[n].versions, rv, b, Below(W, n))
             /\ t[n].versions # <<>> /\ Alike(c[n].versions, t[n].versions)
    <2>1. n \in Nodes BY <1>4
    <2>2. db'[n].found = TRUE /\ db'[n].versions = t[n].versions BY <1>8, <2>1 DEF Stored
    <2>3. Pending(t[n].versions, d[n].versions, r, b, Below(W, n)) BY <1>5 DEF Written
    <2>4. rv \in Int /\ d[n].versions \in Versions BY <1>2, <1>7, <2>1
    <2> HIDE DEF d, b, W
    <2>5. Pending(t[n].versions, d[n].versions, rv, b, Below(W, n))
        BY <1>5, <1>7, <2>3, <2>4, PendingMore
    <2> USE DEF d, b, W
    <2>6. t[n].versions # <<>> /\ LatestHash(t[n].versions, NilHash) = Below(g.work, n)
        BY <1>1, <1>5, <2>1, WrittenShown
    <2>7. c[n].versions # <<>> /\ LatestHash(c[n].versions, NilHash) = Below(g.work, n)
        BY <1>1, <1>5, <1>6, <2>1, WrittenShown
    <2>8. Alike(c[n].versions, t[n].versions) BY <2>6, <2>7 DEF Alike
    <2> QED BY <2>2, <2>5, <2>6, <2>8
<1>10. ASSUME NEW n \in Nodes, n \notin journal
       PROVE  /\ db'[n] = d[n] /\ t[n] = root[n] /\ c[n] = root[n]
              /\ Seen(t, n) => Alike(t[n].versions, d[n].versions)
              /\ Resident(t[n]) => t[n].versions = d[n].versions
              /\ n # RootNode => Alike(dbChild[n], d[n].versions)
    <2>1. db'[n] = db[n] BY <1>8, <1>10 DEF Stored
    <2>2. n \notin Paths[g.keys] BY <1>4, <1>10
    <2>3. PartRecord(db, dbChild, n, g, asked) BY <1>1 DEF PartRecords
    <2>4. db[n] = d[n] BY <2>2, <2>3 DEF PartRecord, Written
    <2>5. n # RootNode => Alike(dbChild[n], d[n].versions)
        BY <2>2, <2>3 DEF PartRecord, Shown
    <2>6. t[n] = root[n] /\ c[n] = root[n] BY <1>5, <1>6, <1>10
    <2>7. Seen(t, n) <=> Seen(root, n) BY <1>5, NodesClosed DEF Seen, Resident
    <2>8. PartNode(root, journal, n, g, asked) BY <1>1 DEF PartTree
    <2>9. Seen(t, n) => Alike(t[n].versions, d[n].versions)
        BY <1>10, <2>2, <2>6, <2>7, <2>8 DEF PartNode, Shown
    <2>10. Resident(t[n]) => t[n].versions = d[n].versions
        BY <1>10, <2>2, <2>6, <2>8 DEF PartNode, Written
    <2> QED BY <2>1, <2>4, <2>5, <2>6, <2>9, <2>10
<1>11. Committed(db', d, journal, W, rv, b)
    BY <1>9, <1>10 DEF Committed
<1>12. \A k \in Keys \ journal : W[k] = Contents(d, version)[k] BY <1>3, <1>4
<1>13. ASSUME NEW n \in Nodes PROVE NodeMirrors(t, {}, db', n)
    <2>1. PartNode(root, journal, n, g, asked) BY <1>1 DEF PartTree
    <2>2. Seen(t, n) <=> Seen(root, n) BY <1>5, NodesClosed DEF Seen, Resident
    <2>3. t[n].state = root[n].state BY <1>5
    <2>4. CASE n \in journal
        <3>1. t[n].state = "resident" /\ t[n].versions = db'[n].versions
            BY <1>9, <2>1, <2>3, <2>4 DEF PartNode, Resident
        <3> QED BY <2>1, <2>2, <2>3, <3>1 DEF NodeMirrors, PartNode, Alike
    <2>5. CASE n \notin journal
        <3>1. /\ db'[n] = d[n] /\ t[n] = root[n]
              /\ Seen(t, n) => Alike(t[n].versions, d[n].versions)
              /\ Resident(t[n]) => t[n].versions = d[n].versions
            BY <1>10, <2>5
        <3> HIDE DEF d
        <3> QED BY <2>1, <2>2, <3>1 DEF NodeMirrors, PartNode
    <2> QED BY <2>4, <2>5
<1>14. Mirrors(t, {}, db')
    <2>1. Resident(t[RootNode]) BY <1>1, <1>5, NodesClosed DEF PartTree, Resident
    <2> QED BY <1>13, <2>1 DEF Mirrors
<1>15. ASSUME NEW n \in Nodes, ~db'[n].found PROVE db'[n].versions = <<>>
    <2>1. n \notin journal BY <1>9, <1>15
    <2>2. db'[n] = d[n] BY <1>10, <2>1
    <2> QED BY <1>3, <1>15, <2>2 DEF Rooted
<1>16. ASSUME NEW n \in Nodes \ {RootNode}
       PROVE  Alike(dbChild'[n], db'[n].versions) /\ (db'[n].found => db'[Parent[n]].found)
    <2>1. Parent[n] \in Nodes /\ Parent[n] \in Path[n] BY PathFacts, NodesClosed
    <2>2. n \in journal => Parent[n] \in journal BY <1>4, <2>1 DEF Closed
    <2>3. CASE Parent[n] \in journal
        <3>1. db'[Parent[n]].found BY <1>9, <2>3
        <3>2. dbChild'[n] = c[n].versions BY <1>8, <2>3 DEF StoredEntries, ToStorage
        <3>3. CASE n \in journal BY <1>9, <3>1, <3>2, <3>3
        <3>4. CASE n \notin journal
            <4>1. Seen(t, n)
                <5>1. Resident(root[Parent[n]]) BY <1>1, <2>1, <2>3 DEF PartTree, PartNode
                <5>2. Resident(t[Parent[n]]) BY <1>5, <2>1, <5>1 DEF Resident
                <5> QED BY <5>2 DEF Seen
            <4> QED BY <1>10, <3>1, <3>2, <3>4, <4>1
        <3> QED BY <3>3, <3>4
    <2>4. CASE Parent[n] \notin journal
        <3>1. n \notin journal BY <2>2, <2>4
        <3>2. dbChild'[n] = dbChild[n] BY <1>8, <2>4 DEF StoredEntries
        <3>3. db'[n] = d[n] /\ db'[Parent[n]] = d[Parent[n]] /\ Alike(dbChild[n], d[n].versions)
            BY <1>10, <2>1, <2>4, <3>1
        <3>4. d[n].found => d[Parent[n]].found BY <1>3 DEF Rooted
        <3> QED BY <3>2, <3>3, <3>4
    <2> QED BY <2>3, <2>4
<1>17. Linked(db', dbChild') BY <1>15, <1>16 DEF Linked
<1>18. db' \in Records BY <1>5, <1>8, StoredType DEF Records
<1> HIDE DEF d, b, W
<1>19. Ordered(db', rv, b)
    BY <1>1, <1>2, <1>3, <1>4, <1>7, <1>11, CommitOrdered
<1>20. /\ Hashed(db', rv)
       /\ \A w \in Nat : w >= rv /\ w < b => Contents(db', w) = Contents(d, w)
    BY <1>1, <1>2, <1>3, <1>4, <1>7, <1>11, <1>12, CommitHashed DEF Unedited
<1>21. Mirrors(root', {}, db') /\ root' \in Tree
    <2>1. CASE release > 0 BY <1>5, <1>8, <1>14, <2>1, ReleasedMirrors, ReleasedType
    <2>2. CASE ~(release > 0) BY <1>5, <1>8, <1>14, <2>2
    <2> QED BY <2>1, <2>2
<1>22. EditedBy(root', {}, db', NoVersion, b)
    BY <1>2, <1>7, <1>18, <1>19, <1>20, <1>21, CleanRoot
<1>23. TreesOK' BY <1>8, <1>21, <1>22 DEF TreesOK
<1>24. RecordsOK'
    <2>1. b # NoVersion BY <1>2 DEF NoVersion
    <2> QED BY <1>8, <1>17, <1>19, <1>20, <2>1 DEF RecordsOK
<1> QED BY <1>8, <1>20, <1>23, <1>24 DEF d, b

\* The edited nodes are the paths of the edited leaves.
JournalInv == journal = Paths[journal \cap Keys]

\* Without an interruption, the call a client is about to make.
LEMMA PartBegins ==
    ASSUME TypeOK, RangeInv, Inv, JournalInv, ~rollbackFailed,
           NEW b \in Nat, b > version, journal # {} => b = LatestVersion(root[RootNode].versions),
           NEW g, g = [old |-> db, from |-> version, block |-> b,
                       work |-> Root(root[RootNode]), keys |-> journal \cap Keys]
    PROVE  PartState(g) /\ g.keys \subseteq journal
<1> DEFINE W == Root(root[RootNode])
<1>1. /\ root \in Tree /\ db \in Records /\ asked \in Int /\ version \in Nat
      /\ journal \subseteq Nodes /\ recentVersion \in Nat /\ RootNode \in Nodes
    BY StateTypes, NodesClosed
<1>2. /\ Linked(db, dbChild) /\ Ordered(db, recentVersion, version)
      /\ Hashed(db, recentVersion) /\ recentVersion <= version
      /\ dbVersion = NoVersion => \A n \in Nodes : ~db[n].found
    BY DEF Inv, RecordsOK, RangeInv, RangeSurvivesRestart
<1>3. /\ Mirrors(root, journal, db) /\ Mirrors(lastSaveRoot, {}, db)
      /\ EditedBy(root, journal, db, asked, version)
    BY DEF Inv, TreesOK
<1>4. W \in Content BY <1>1, RootType DEF Tree
<1>5. /\ Closed(journal)
      /\ \A n \in journal : Pending(root[n].versions, db[n].versions, asked, b, Below(W, n))
      /\ \A k \in Keys \ journal : W[k] = Contents(db, version)[k]
    BY <1>3 DEF EditedBy
<1>6. dbVersion # b
    BY <1>1 DEF Inv, RangeInv, RangeSurvivesRestart, ReopenedVersion, NoVersion
<1>7. /\ g.old = db /\ g.from = version /\ g.block = b /\ g.work = W
      /\ g.keys = journal \cap Keys
    OBVIOUS
<1>8. g \in Call BY <1>1, <1>4 DEF Call
<1> HIDE DEF W
<1>9. CallOK(g, recentVersion)
    <2>1. Rooted(db) BY <1>2 DEF Linked, Rooted
    <2>2. \A k \in Keys \ g.keys : g.work[k] = Before(g)[k] BY <1>5, <1>7 DEF Before
    <2> QED BY <1>1, <1>2, <1>5, <1>7, <1>8, <2>1, <2>2 DEF CallOK
<1>10. journal = Paths[g.keys] BY <1>7 DEF JournalInv
<1>11. ASSUME NEW n \in Nodes, NEW vs, Alike(vs, db[n].versions) PROVE Shown(vs, n, g)
    BY <1>7, <1>9, <1>11, OldShown
<1>12. PartRecords(db, dbChild, g, asked)
    BY <1>2, <1>7, <1>11 DEF PartRecords, PartRecord, Linked
<1>13. ASSUME NEW t, NEW J, Mirrors(t, J, db) PROVE PartTree(t, J, g, asked)
    <2>1. ASSUME NEW n \in Nodes PROVE PartNode(t, J, n, g, asked)
        <3>1. NodeMirrors(t, J, db, n) BY <1>13 DEF Mirrors
        <3>2. Alike(t[n].versions, db[n].versions) => Shown(t[n].versions, n, g) BY <1>11
        <3> QED BY <1>7, <3>1, <3>2 DEF NodeMirrors, PartNode
    <2> QED BY <1>13, <2>1 DEF Mirrors, PartTree
<1>14. ASSUME NEW n \in journal PROVE Redone(root[n].versions, n, journal \cap Keys, g, asked)
    <2>1. Pending(root[n].versions, g.old[n].versions, asked, g.block, Below(g.work, n))
        BY <1>5, <1>7
    <2>2. Below(g.work, n) \in Content BY <1>1, <1>9, CallTypes
    <2>3. Mixed(Below(g.work, n), n, g) BY DEF Mixed, Below
    <2>4. \A k \in journal \cap Keys : n \in Path[k] => Below(g.work, n)[k] = g.work[k]
        BY DEF Below
    <2> QED BY <2>1, <2>2, <2>3, <2>4 DEF Redone
<1>15. PartEdits(root, journal, g, asked)
    BY <1>7, <1>14 DEF PartEdits, JournalInv
<1>16. PartState(g)
    BY <1>2, <1>3, <1>6, <1>7, <1>9, <1>12, <1>13, <1>15 DEF PartState
<1> QED BY <1>7, <1>16

\* The state of the tree until the commit is done again.
CommitInParts ==
    /\ interrupted.op = "commit" /\ ~rollbackFailed
    /\ \E g \in Call :
           /\ PartState(g) /\ g.block = interrupted.version
           /\ interrupted.edits = {<<k, g.work[k]>> : k \in g.keys}

\* Until the commit is done again, every step keeps what can be read in the
\* versions it does not prune, or brings the commit further.
LEMMA CommitPartsStep ==
    ASSUME RedoneCalls, TypeOK, TypeOK', RangeInv, CommitInParts, [Next]_vars
    PROVE  /\ Inv' \/ CommitInParts'
           /\ \A v \in Reliable \cap Reliable' : Contents(db', v) = Contents(db, v)
<1> DEFINE Goal == /\ Inv' \/ CommitInParts'
                   /\ \A v \in Reliable \cap Reliable' : Contents(db', v) = Contents(db, v)
<1>1. PICK g \in Call : /\ PartState(g) /\ g.block = interrupted.version
                        /\ interrupted.edits = {<<k, g.work[k]>> : k \in g.keys}
    BY DEF CommitInParts
<1>2. /\ interrupted.op = "commit" /\ interrupted # Nothing /\ ~rollbackFailed
      /\ asked \in Int /\ asked' \in Int /\ version \in Nat /\ recentVersion \in Nat
    BY StateTypes DEF CommitInParts, Nothing, TypeOK, NoVersion
<1>3. /\ CallOK(g, recentVersion) /\ g.from = version /\ g.from < g.block /\ g.block \in Nat
      /\ PartRecords(db, dbChild, g, asked) /\ g.keys \in SUBSET Keys
    BY <1>1, CallTypes DEF PartState
<1>4. ASSUME NEW v \in Reliable
      PROVE  v \in Nat /\ v < g.block /\ Contents(db, v) = Contents(g.old, v)
    <2>1. v \in Nat /\ v >= asked /\ v < g.block BY <1>2, <1>3 DEF Reliable
    <2> QED BY <1>2, <1>3, <2>1, PartReads
<1>5. ASSUME PartState(g)', interrupted'.op = "commit", ~rollbackFailed',
             interrupted'.version = g.block,
             interrupted'.edits = {<<k, g.work[k]>> : k \in g.keys}
      PROVE  Goal
    <2>1. CommitInParts' BY <1>5 DEF CommitInParts
    <2>2. CallOK(g, recentVersion') /\ PartRecords(db', dbChild', g, asked')
        BY <1>5 DEF PartState
    <2>3. ASSUME NEW v \in Reliable \cap Reliable' PROVE Contents(db', v) = Contents(db, v)
        <3>1. v >= asked' BY <1>5 DEF Reliable
        <3>2. v \in Nat /\ v < g.block /\ Contents(db, v) = Contents(g.old, v) BY <1>4
        <3>3. Contents(db', v) = Contents(g.old, v) BY <1>2, <2>2, <3>1, <3>2, PartReads
        <3> QED BY <3>2, <3>3
    <2> QED BY <2>1, <2>3
<1>6. ASSUME PartState(g)', UNCHANGED <<rollbackFailed, interrupted>> PROVE Goal
    BY <1>1, <1>2, <1>5, <1>6
<1> HIDE DEF Goal
<1>7. ASSUME UNCHANGED <<version, recentVersion, root, lastSaveRoot, journal, db, dbChild,
                         dbVersion, asked, rollbackFailed, interrupted>>
      PROVE  Goal
    <2>1. PartState(g)' BY <1>1, <1>7 DEF PartState
    <2> QED BY <1>6, <1>7, <2>1
<1>8. ASSUME NEW k \in Keys, CallGetProof(k) PROVE Goal
    <2>1. GetProof(k) /\ UNCHANGED <<rollbackFailed, interrupted>>
        BY <1>8 DEF CallGetProof, GetProof
    <2>2. PartState(g)' BY <1>1, <2>1, PartGetProof
    <2> QED BY <1>6, <2>1, <2>2
<1>9. ASSUME NEW S \in (SUBSET Keys) \ {{}}, NEW items \in [S -> Value], NEW v,
             BlockVersion(v), InBlock(items), SetItems(items, v)
      PROVE  Goal
    <2>1. v = g.block BY <1>1, <1>2, <1>9 DEF BlockVersion
    <2>2. ASSUME NEW k \in S PROVE k \in g.keys /\ items[k] = g.work[k]
        <3>1. <<k, items[k]>> \in {<<j, g.work[j]>> : j \in g.keys}
            BY <1>1, <1>2, <1>9 DEF InBlock
        <3> QED BY <3>1
    <2>3. SetItems(items, g.block) /\ UNCHANGED <<rollbackFailed, interrupted>>
        BY <1>9, <2>1 DEF SetItems
    <2>4. S \subseteq g.keys /\ \A k \in S : items[k] = g.work[k] BY <2>2
    <2>5. PartState(g)' BY <1>1, <2>3, <2>4, PartSetItems
    <2> QED BY <1>6, <2>3, <2>5
<1>10. ASSUME NEW k \in Keys, NEW val \in Value, NEW v, CallSet(k, val, v) PROVE Goal
    <2>1. Item(k, val) \in [{k} -> Value] /\ {k} \in (SUBSET Keys) \ {{}} BY DEF Item
    <2>2. BlockVersion(v) /\ InBlock(Item(k, val)) /\ SetItems(Item(k, val), v)
        BY <1>10 DEF CallSet, SetWithVersion
    <2> QED BY <1>9, <2>1, <2>2
<1>11. ASSUME NEW S \in (SUBSET Keys) \ {{}}, NEW items \in [S -> Value], NEW v,
              CallMultiSet(items, v)
       PROVE  Goal
    BY <1>9, <1>11 DEF CallMultiSet, MultiSetWithVersion
<1>12. ASSUME CallReset PROVE Goal
    <2>1. Reset /\ UNCHANGED <<rollbackFailed, interrupted>> BY <1>12 DEF CallReset, Reset
    <2>2. PartState(g)' BY <1>1, <1>2, <2>1, PartReset
    <2> QED BY <1>6, <2>1, <2>2
<1>13. BlockComplete => g.keys \subseteq journal
    <2> SUFFICES ASSUME BlockComplete, NEW k \in g.keys PROVE k \in journal
        OBVIOUS
    <2>1. <<k, g.work[k]>> \in interrupted.edits BY <1>1
    <2>2. <<k, g.work[k]>>[1] \in journal BY <2>1 DEF BlockComplete
    <2> QED BY <2>2
<1>14. ASSUME NEW recent \in NoVersion .. MaxVersion, NEW v, BlockVersion(v),
              CommitAccepted(recent, v), RecentChoice(recent), BlockComplete
       PROVE  v = g.block /\ MayCommit(recent, g.block) /\ g.keys \subseteq journal
    <2>1. v = g.block BY <1>1, <1>2, <1>14 DEF BlockVersion
    <2> QED BY <1>3, <1>13, <1>14, <2>1 DEF BlockVersion, MayCommit
<1>15. ASSUME NEW recent \in NoVersion .. MaxVersion, NEW v, NEW release \in 0 .. MaxVersion,
              NEW late, CallCommit(recent, v, release, late)
       PROVE  Goal
    <2>1. v = g.block /\ MayCommit(recent, g.block) /\ g.keys \subseteq journal
        BY <1>14, <1>15 DEF CallCommit, CommitWithNewVersion
    <2>2. CommitWithNewVersion(recent, g.block, release, late) BY <1>15, <2>1 DEF CallCommit
    <2>3. release \in Nat BY SMTAssumption
    <2>4. /\ RecordsOK' /\ TreesOK'
          /\ \A w \in Nat : w >= recentVersion' /\ w < g.block =>
                 Contents(db', w) = Contents(g.old, w)
        BY <1>1, <2>1, <2>2, <2>3, PartCommit
    <2>5. interrupted' = Nothing /\ ~rollbackFailed'
        BY <1>2, <2>2 DEF CommitWithNewVersion
    <2>6. ASSUME NEW w \in Reliable \cap Reliable'
          PROVE  Contents(db', w) = Contents(db, w)
        <3>1. w >= recentVersion' BY DEF Reliable, TypeOK
        <3> QED BY <1>4, <2>4, <3>1
    <2> QED BY <2>4, <2>5, <2>6 DEF Goal, Inv
<1>16. ASSUME NEW recent \in NoVersion .. MaxVersion, NEW visited, NEW written, NEW late,
              MayCommit(recent, g.block), g.keys \subseteq journal,
              PartWrites(g.block, recent, visited, written, late),
              \/ interrupted' = interrupted
              \/ interrupted' = Interruption("commit", g.block, PendingEdits),
              "noRedo" \notin Departures
       PROVE  Goal
    <2>1. PartState(g)' /\ PendingEdits = {<<k, g.work[k]>> : k \in g.keys}
        BY <1>1, <1>16, PartCommitFails
    <2>2. rollbackFailed' = rollbackFailed BY <1>16 DEF PartWrites
    <2>3. CASE interrupted' = interrupted BY <1>6, <2>1, <2>2, <2>3
    <2>4. CASE interrupted' = Interruption("commit", g.block, PendingEdits)
        <3> DEFINE again == {<<k, g.work[k]>> : k \in g.keys}
        <3>1. interrupted' = [op |-> "commit", version |-> g.block, edits |-> again]
            BY <1>16, <2>1, <2>4 DEF Interruption
        <3> HIDE DEF again
        <3>2. /\ interrupted'.op = "commit" /\ interrupted'.version = g.block
              /\ interrupted'.edits = again
            BY <3>1
        <3>3. interrupted'.edits = {<<k, g.work[k]>> : k \in g.keys} BY <3>2 DEF again
        <3>4. ~rollbackFailed' BY <1>2, <2>2
        <3> QED BY <1>5, <2>1, <3>2, <3>3, <3>4
    <2> QED BY <1>16, <2>3, <2>4
<1>17. ASSUME NEW recent \in NoVersion .. MaxVersion, NEW v, NEW visited, NEW written, NEW late,
              CallCommitFails(recent, v, visited, written, late)
       PROVE  Goal
    <2>1. v = g.block /\ MayCommit(recent, g.block) /\ g.keys \subseteq journal
        BY <1>14, <1>17 DEF CallCommitFails, CommitFails
    <2>2. CommitFails(recent, g.block, visited, written, late)
        BY <1>17, <2>1 DEF CallCommitFails
    <2>3. PartWrites(g.block, recent, visited, written, late) BY <2>2, CommitFailsWrites
    <2>4. \/ interrupted' = interrupted
          \/ interrupted' = Interruption("commit", g.block, PendingEdits)
        BY <2>2 DEF CommitFails
    <2>5. "noRedo" \notin Departures BY <1>2 DEF RangeInv
    <2> QED BY <1>16, <2>1, <2>3, <2>4, <2>5
<1>18. ASSUME NEW recent \in NoVersion .. MaxVersion, NEW v, NEW late,
              CallCommitUnanswered(recent, v, late)
       PROVE  Goal
    <2>1. v = g.block /\ MayCommit(recent, g.block) /\ g.keys \subseteq journal
        BY <1>14, <1>18 DEF CallCommitUnanswered, CommitUnanswered
    <2>2. CommitUnanswered(recent, g.block, late)
        BY <1>18, <2>1 DEF CallCommitUnanswered
    <2>3. PartWrites(g.block, recent, journal, journal, late) BY <2>2, CommitUnansweredWrites
    <2>4. interrupted' = Interruption("commit", g.block, PendingEdits)
        BY <2>2 DEF CommitUnanswered
    <2>5. "noRedo" \notin Departures BY <1>2 DEF RangeInv
    <2> QED BY <1>16, <2>1, <2>3, <2>4, <2>5
<1>19. ASSUME Reopen PROVE Goal
    <2>1. CASE ~IsDone
        <3>1. rollbackFailed' = FALSE BY <1>19 DEF Reopen
        <3>2. PartState(g)' /\ interrupted' = interrupted BY <1>1, <1>2, <1>19, <2>1, PartReopen
        <3>3. ~rollbackFailed' BY <3>1
        <3> QED BY <1>1, <1>2, <1>5, <3>2, <3>3
    <2>2. CASE IsDone
        <3>1. StoreOK BY <1>1, <1>2, <2>2, PartFinished DEF IsDone
        <3>2. /\ RecordsOK' /\ TreesOK' /\ interrupted' = Nothing /\ rollbackFailed' = FALSE
              /\ db' = db
            BY <1>19, <2>2, <3>1, ReopenKeeps
        <3>3. Inv' BY <3>2 DEF Inv
        <3> QED BY <3>2, <3>3 DEF Goal
    <2> QED BY <2>1, <2>2
<1>20. ASSUME NEW target PROVE ~RollbackChoice(target)
    BY <1>2 DEF RollbackChoice
<1>21. ASSUME NEW k, NEW v, CallGet(k, v) PROVE Goal
    BY <1>7, <1>21 DEF CallGet, Get
<1>22. ASSUME UNCHANGED vars PROVE Goal BY <1>7, <1>22 DEF vars
<1>23. Goal
    BY <1>8, <1>10, <1>11, <1>12, <1>15, <1>17, <1>18, <1>19, <1>20, <1>21, <1>22
    DEF Next, CallWrittenInPart, CallUnanswered, CallRollback, CallRollbackFails,
        CallRollbackUnanswered
<1> QED BY <1>23 DEF Goal

----------------------------------------------------------------------------
(* The theorems.                                                           *)

\* Only a commit or a rollback that fails leaves something to be done again.
LEMMA Interrupts ==
    ASSUME interrupted = Nothing, [Next]_vars
    PROVE  \/ interrupted' = Nothing
           \/ \E recent \in NoVersion .. MaxVersion, v \in Bounded :
                  \E visited, written, late : CallCommitFails(recent, v, visited, written, late)
           \/ \E target \in 0 .. MaxVersion : \E written : CallRollbackFails(target, written)
           \/ \E recent \in NoVersion .. MaxVersion, v \in Bounded :
                  \E late : CallCommitUnanswered(recent, v, late)
           \/ \E target \in 0 .. MaxVersion : CallRollbackUnanswered(target)
<1>1. ASSUME UNCHANGED interrupted PROVE interrupted' = Nothing BY <1>1
<1>2. ASSUME NEW items, NEW v, SetItems(items, v) PROVE interrupted' = Nothing
    BY <1>2 DEF SetItems
<1>3. ASSUME NEW recent, NEW v, NEW release, NEW late, CallCommit(recent, v, release, late)
      PROVE  interrupted' = Nothing
    BY <1>3 DEF CallCommit, CommitWithNewVersion
<1>4. ASSUME NEW target, CallRollback(target) PROVE interrupted' = Nothing
    BY <1>4 DEF CallRollback, Rollback
<1> QED BY <1>1, <1>2, <1>3, <1>4
    DEF Next, CallWrittenInPart, CallUnanswered, vars, CallGet, Get, CallGetProof, GetProof, CallSet,
        SetWithVersion, CallMultiSet, MultiSetWithVersion, CallReset, Reset, Reopen

\* Batches written as a whole leave nothing to be done again.
LEMMA WholeSteps ==
    ASSUME WholeBatches, interrupted = Nothing, [Next]_vars
    PROVE  RedoneCalls /\ interrupted' = Nothing
<1>1. RedoneCalls BY DEF WholeBatches, RedoneCalls, SeenThrough
<1>2. ASSUME NEW recent, NEW v, NEW visited, NEW written, NEW late,
             CallCommitFails(recent, v, visited, written, late)
      PROVE  interrupted' = Nothing
    BY <1>2 DEF CallCommitFails, CommitFails, WholeBatches
<1>3. ASSUME NEW target, NEW written, CallRollbackFails(target, written)
      PROVE  interrupted' = Nothing
    BY <1>3 DEF CallRollbackFails, RollbackFails, WholeBatches
<1>4. ASSUME NEW recent, NEW v, NEW late
      PROVE  ~CallCommitUnanswered(recent, v, late)
    BY DEF CallCommitUnanswered, CommitUnanswered, WholeBatches
<1>5. ASSUME NEW target PROVE ~CallRollbackUnanswered(target)
    BY DEF CallRollbackUnanswered, RollbackUnanswered, WholeBatches
<1> QED BY <1>1, <1>2, <1>3, <1>4, <1>5, Interrupts

\* None of the client's steps changes what can be read in a version that stays
\* readable.
LEMMA ClientReads ==
    ASSUME TypeOK, TypeOK', ClientStep, NEW v \in Reliable \cap Reliable'
    PROVE  Contents(db', v) = Contents(db, v)
<1>1. /\ v \in Nat /\ v >= recentVersion /\ v <= version
      /\ v >= recentVersion' /\ v <= version' /\ version \in Nat /\ version' \in Nat
    BY DEF Reliable, TypeOK
<1>2. CASE Same BY <1>2 DEF Same
<1>3. CASE Commits
    <2>1. version' > version BY <1>3 DEF Commits
    <2>2. v < version' BY <1>1, <2>1
    <2> QED BY <1>1, <1>3, <2>2 DEF Commits
<1>4. CASE Undoes BY <1>1, <1>4 DEF Undoes
<1> QED BY <1>2, <1>3, <1>4 DEF ClientStep, Edits, Misses, Loses

\* The journal holds whole paths.
LEMMA NextJournal ==
    ASSUME JournalInv, [Next]_vars PROVE JournalInv'
<1>1. ASSUME UNCHANGED journal PROVE JournalInv' BY <1>1 DEF JournalInv
<1>2. ASSUME journal' = {} PROVE JournalInv'
    <2>1. Paths[{}] = UNION {Path[k] : k \in {}} BY PathsNodes
    <2>2. {} \cap Keys = {} /\ Paths[{}] = {} BY <2>1
    <2> QED BY <1>2, <2>2 DEF JournalInv
<1>3. ASSUME NEW S \in SUBSET Keys, NEW items \in [S -> Value], NEW v, SetItems(items, v)
      PROVE  JournalInv'
    <2>1. journal' = journal \cup Paths[S] BY <1>3 DEF SetItems
    <2>2. /\ (journal \cup Paths[S]) \cap Keys = (journal \cap Keys) \cup S
          /\ journal \cup Paths[S] = Paths[(journal \cap Keys) \cup S]
        BY MorePaths DEF JournalInv
    <2> QED BY <2>1, <2>2 DEF JournalInv
<1>4. ASSUME NEW k \in Keys, NEW val \in Value, NEW v, CallSet(k, val, v) PROVE JournalInv'
    <2>1. Item(k, val) \in [{k} -> Value] /\ {k} \in SUBSET Keys BY DEF Item
    <2>2. SetItems(Item(k, val), v) BY <1>4 DEF CallSet, SetWithVersion
    <2> QED BY <1>3, <2>1, <2>2
<1>5. ASSUME NEW S \in SUBSET Keys, NEW items \in [S -> Value], NEW v,
             CallMultiSet(items, v)
      PROVE  JournalInv'
    BY <1>3, <1>5 DEF CallMultiSet, MultiSetWithVersion
<1>6. ASSUME NEW recent, NEW v, NEW release, NEW late, CallCommit(recent, v, release, late)
      PROVE  JournalInv'
    BY <1>2, <1>6 DEF CallCommit, CommitWithNewVersion
<1>7. ASSUME NEW recent, NEW v, NEW visited, NEW written, NEW late,
             CallCommitFails(recent, v, visited, written, late)
      PROVE  JournalInv'
    BY <1>1, <1>7 DEF CallCommitFails, CommitFails
<1>8. ASSUME NEW target, CallRollback(target) PROVE JournalInv'
    BY <1>2, <1>8 DEF CallRollback, Rollback
<1>9. ASSUME NEW target, NEW written, CallRollbackFails(target, written) PROVE JournalInv'
    BY <1>2, <1>9 DEF CallRollbackFails, RollbackFails
<1>10. ASSUME CallReset \/ Reopen PROVE JournalInv' BY <1>2, <1>10 DEF CallReset, Reset, Reopen
<1>11. ASSUME NEW k, NEW v, CallGet(k, v) PROVE JournalInv' BY <1>1, <1>11 DEF CallGet, Get
<1>12. ASSUME NEW k, CallGetProof(k) PROVE JournalInv'
    BY <1>1, <1>12 DEF CallGetProof, GetProof
<1>13. ASSUME UNCHANGED vars PROVE JournalInv' BY <1>1, <1>13 DEF vars
<1>14. ASSUME NEW recent, NEW v, NEW late, CallCommitUnanswered(recent, v, late)
       PROVE  JournalInv'
    BY <1>1, <1>14 DEF CallCommitUnanswered, CommitUnanswered
<1>15. ASSUME NEW target, CallRollbackUnanswered(target) PROVE JournalInv'
    BY <1>2, <1>15 DEF CallRollbackUnanswered, RollbackUnanswered
<1> QED BY <1>4, <1>5, <1>6, <1>7, <1>8, <1>9, <1>10, <1>11, <1>12, <1>13, <1>14, <1>15
    DEF Next, CallWrittenInPart, CallUnanswered

\* The invariant when batches are written in parts and calls are done again.
InvParts == Inv \/ CommitInParts \/ RollbackInParts

\* Without an interruption it is the invariant of whole batches.
LEMMA PartsDone ==
    ASSUME InvParts, interrupted = Nothing PROVE Inv
BY DEF InvParts, CommitInParts, RollbackInParts, Nothing

\* A commit that fails leaves a call to be done again.
LEMMA CommitInterrupted ==
    ASSUME TypeOK, TypeOK', RangeInv, JournalInv, Inv, ~rollbackFailed,
           NEW recent \in NoVersion .. MaxVersion, NEW v \in Bounded,
           BlockVersion(v), RecentChoice(recent), CommitAccepted(recent, v),
           NEW visited, NEW written, NEW late, PartWrites(v, recent, visited, written, late),
           interrupted' = Interruption("commit", v, PendingEdits), "noRedo" \notin Departures
    PROVE  /\ CommitInParts'
           /\ \A w \in Reliable \cap Reliable' : Contents(db', w) = Contents(db, w)
<1>1. v \in Nat /\ v > version /\ (journal # {} => v = LatestVersion(root[RootNode].versions))
    BY SMTAssumption DEF BlockVersion, Bounded
<1>2. PICK g : g = [old |-> db, from |-> version, block |-> v,
                    work |-> Root(root[RootNode]), keys |-> journal \cap Keys]
    OBVIOUS
<1>3. PartState(g) /\ g.keys \subseteq journal BY <1>1, <1>2, PartBegins
<1>4. g.old = db /\ g.block = v BY <1>2
<1>5. MayCommit(recent, g.block) BY <1>1, <1>4 DEF MayCommit
<1>6. PartState(g)' /\ PendingEdits = {<<k, g.work[k]>> : k \in g.keys}
    BY <1>3, <1>4, <1>5, PartCommitFails
<1> DEFINE again == {<<k, g.work[k]>> : k \in g.keys}
<1>7. interrupted' = [op |-> "commit", version |-> g.block, edits |-> again]
    BY <1>4, <1>6 DEF Interruption
<1> HIDE DEF again
<1>8. /\ interrupted'.op = "commit" /\ interrupted'.version = g.block
      /\ interrupted'.edits = again
    BY <1>7
<1>9. interrupted'.edits = {<<k, g.work[k]>> : k \in g.keys} BY <1>8 DEF again
<1>10. ~rollbackFailed' BY DEF PartWrites
<1>11. g \in Call BY <1>3 DEF PartState, CallOK
<1>12. CommitInParts' BY <1>6, <1>8, <1>9, <1>10, <1>11 DEF CommitInParts
<1>13. ASSUME NEW w \in Reliable \cap Reliable'
       PROVE  Contents(db', w) = Contents(db, w)
    <2>1. w \in Nat /\ w >= asked' /\ w <= version /\ asked' \in Int /\ version \in Nat
        BY <1>8 DEF Reliable, TypeOK, NoVersion
    <2>2. w < g.block BY <1>1, <1>4, <2>1
    <2>3. CallOK(g, recentVersion') /\ PartRecords(db', dbChild', g, asked')
        BY <1>6 DEF PartState
    <2>4. Contents(db', w) = Contents(g.old, w) BY <2>1, <2>2, <2>3, PartReads
    <2> QED BY <1>4, <2>4
<1> QED BY <1>12, <1>13

\* A rollback to the latest version drops nothing.
LEMMA NothingToDrop ==
    ASSUME TypeOK, RangeInv, RecordsOK, TreesOK PROVE Dropping(version) = {}
<1>1. /\ db \in Records /\ version \in Nat /\ recentVersion \in Nat /\ recentVersion <= version
    BY StateTypes DEF RangeInv, RangeSurvivesRestart
<1>2. /\ LinkedBut(db, dbChild, version) /\ Ordered(db, recentVersion, version)
      /\ MirrorsBut(lastSaveRoot, db, version)
    BY AlwaysReady DEF RollbackReady
<1>3. Dropping(version) = {n \in Nodes : DropsAny(db[n].versions, version)}
    BY <1>1, <1>2, DroppingAll
<1>4. ASSUME NEW n \in Nodes PROVE ~DropsAny(db[n].versions, version)
    <2>1. db[n].versions \in Versions /\ Sorted(db[n].versions) /\ Upto(db[n].versions, version)
        BY <1>1, <1>2 DEF Records, StoredRecord, Ordered
    <2>2. DropsAny(db[n].versions, version) <=> \E v \in Vers(db[n].versions) : v > version
        BY <1>1, <2>1, RollbackReads
    <2>3. Vers(db[n].versions) \subseteq Nat BY <2>1, VersNat
    <2> QED BY <1>1, <2>1, <2>2, <2>3 DEF Upto
<1> QED BY <1>3, <1>4

\* Every step keeps it, and what can be read.
LEMMA NextParts ==
    ASSUME RedoneCalls, TypeOK, TypeOK', RangeInv, RangeInv', JournalInv, InvParts, [Next]_vars
    PROVE  /\ InvParts'
           /\ \A v \in Reliable \cap Reliable' : Contents(db', v) = Contents(db, v)
<1> DEFINE Reads == \A v \in Reliable \cap Reliable' : Contents(db', v) = Contents(db, v)
<1>1. CASE CommitInParts
    BY <1>1, CommitPartsStep DEF InvParts
<1>2. CASE RollbackInParts
    <2>1. /\ Inv' \/ RollbackInParts'
          /\ \A v \in Nat : v <= interrupted.version => Contents(db', v) = Contents(db, v)
        BY <1>2, RollbackPartsStep
    <2>2. ASSUME NEW v \in Reliable PROVE v \in Nat /\ v <= interrupted.version
        BY <1>2 DEF Reliable, TypeOK, RollbackInParts
    <2> QED BY <2>1, <2>2 DEF InvParts
<1>3. CASE Inv /\ interrupted' = Nothing
    <2>1. Inv' /\ ClientStep BY <1>3, NextInv
    <2> QED BY <2>1, ClientReads DEF InvParts
<1>4. CASE Inv /\ interrupted' # Nothing
    <2>1. interrupted = Nothing /\ RecordsOK /\ (~rollbackFailed => TreesOK) BY <1>4 DEF Inv
    <2>2. "noRedo" \notin Departures BY <1>4 DEF RangeInv
    <2> HIDE DEF Reads
    <2>3. ASSUME NEW recent \in NoVersion .. MaxVersion, NEW v \in Bounded,
                 NEW visited, NEW written, NEW late,
                 CallCommitFails(recent, v, visited, written, late)
          PROVE  InvParts' /\ Reads
        <3>1. /\ ~rollbackFailed /\ BlockVersion(v) /\ RecentChoice(recent)
              /\ CommitFails(recent, v, visited, written, late) /\ CommitAccepted(recent, v)
            BY <2>3 DEF CallCommitFails, CommitFails
        <3>2. interrupted' = Interruption("commit", v, PendingEdits)
            BY <1>4, <2>1, <3>1 DEF CommitFails
        <3>3. PartWrites(v, recent, visited, written, late) BY <3>1, CommitFailsWrites
        <3> QED BY <1>4, <2>2, <3>1, <3>2, <3>3, CommitInterrupted DEF InvParts, Reads
    <2>4. ASSUME NEW recent \in NoVersion .. MaxVersion, NEW v \in Bounded, NEW late,
                 CallCommitUnanswered(recent, v, late)
          PROVE  InvParts' /\ Reads
        <3>1. /\ ~rollbackFailed /\ BlockVersion(v) /\ RecentChoice(recent)
              /\ CommitUnanswered(recent, v, late) /\ CommitAccepted(recent, v)
            BY <2>4 DEF CallCommitUnanswered, CommitUnanswered
        <3>2. interrupted' = Interruption("commit", v, PendingEdits)
            BY <3>1 DEF CommitUnanswered
        <3>3. PartWrites(v, recent, journal, journal, late) BY <3>1, CommitUnansweredWrites
        <3> QED BY <1>4, <2>2, <3>1, <3>2, <3>3, CommitInterrupted DEF InvParts, Reads
    <2>5. ASSUME NEW target \in Nat, NEW written, ~rollbackFailed, PartUndoes(target, written),
                 interrupted' = Interruption("rollback", target, {}), (IsDone => StoreOK)'
          PROVE  InvParts' /\ Reads
        <3>1. RollbackReady(target) BY <2>1, <2>5, AlwaysReady
        <3>2. dbVersion = NoVersion => \A n \in Nodes : ~db[n].found BY <2>1 DEF RecordsOK
        <3>3. /\ HalfUndone(target)' /\ journal' = {} /\ rollbackFailed' = TRUE
              /\ \A v \in Nat : v <= target => Contents(db', v) = Contents(db, v)
            BY <2>5, <3>1, <3>2, RollbackFailsInParts
        <3>4. interrupted'.op = "rollback" /\ interrupted'.version = target
            BY <2>2, <2>5 DEF Interruption
        <3>5. RollbackInParts' BY <2>5, <3>3, <3>4 DEF RollbackInParts
        <3>6. ASSUME NEW w \in Reliable \cap Reliable' PROVE w \in Nat /\ w <= target
            BY <3>4 DEF Reliable, TypeOK
        <3> QED BY <3>3, <3>5, <3>6 DEF InvParts, Reads
    <2>6. ASSUME NEW target \in 0 .. MaxVersion, NEW written, CallRollbackFails(target, written)
          PROVE  InvParts' /\ Reads
        <3>1. ~rollbackFailed /\ RollbackFails(target, written) /\ target \in Nat
            BY <2>6, SMTAssumption DEF CallRollbackFails, RollbackChoice, RedoneCalls
        <3>2. written # {} /\ interrupted' = Interruption("rollback", target, {})
            BY <1>4, <2>1, <3>1 DEF RollbackFails
        <3>3. PartUndoes(target, written) BY <3>1, RollbackFailsUndoes
        <3>4. target # version
            <4>1. written \subseteq Dropping(target) BY <3>3 DEF PartUndoes
            <4> QED BY <2>1, <3>1, <3>2, <4>1, NothingToDrop
        <3>5. interrupted'.version = target BY <2>2, <3>2 DEF Interruption
        <3>6. ~IsDone'
            <4>1. dbVersion' = dbVersion /\ target <= version
                BY <3>1 DEF RollbackFails, RollbackAccepted
            <4>2. version = ReopenedVersion BY <2>1 DEF RangeInv, RangeSurvivesRestart
            <4> QED BY <3>1, <3>4, <3>5, <4>1, <4>2 DEF IsDone, ReopenedVersion, NoVersion
        <3> QED BY <2>5, <3>1, <3>2, <3>3, <3>6
    <2>7. ASSUME NEW target \in 0 .. MaxVersion, CallRollbackUnanswered(target)
          PROVE  InvParts' /\ Reads
        <3>1. ~rollbackFailed /\ RollbackUnanswered(target) /\ target \in Nat
            BY <2>7, SMTAssumption DEF CallRollbackUnanswered, RollbackChoice, RedoneCalls
        <3>2. interrupted' = Interruption("rollback", target, {})
            BY <3>1 DEF RollbackUnanswered
        <3>3. PartUndoes(target, Dropping(target)) BY <3>1, RollbackUnansweredUndoes
        <3>4. RollbackReady(target) BY <2>1, <3>1, AlwaysReady
        <3>5. StoreOK' BY <2>1, <3>1, <3>4, RollbackStored
        <3> QED BY <2>5, <3>1, <3>2, <3>3, <3>5
    <2>8. InvParts' /\ Reads BY <1>4, <2>1, <2>3, <2>4, <2>6, <2>7, Interrupts
    <2> QED BY <2>8 DEF Reads
<1> QED BY <1>1, <1>2, <1>3, <1>4 DEF InvParts

\* The inductive invariant holds throughout.
LEMMA InvHolds ==
    ASSUME WholeBatches PROVE Spec => [](TypeOK /\ RangeInv /\ Inv)
<1>1. Init => TypeOK /\ RangeInv /\ Inv
    <2>1. Init => RangeInv
        BY SMTAssumption
        DEF Init, RangeInv, RangeSurvivesRestart, ReopenedVersion, ReopenedRecent, Nothing,
            NoVersion
    <2> QED BY <2>1, InitType, InitInv
<1>2. TypeOK /\ RangeInv /\ Inv /\ [Next]_vars => (TypeOK /\ RangeInv /\ Inv)'
    <2>1. SeenThrough BY DEF SeenThrough, WholeBatches
    <2>2. TypeOK /\ RangeInv /\ [Next]_vars => RangeInv' BY <2>1, NextRange
    <2> QED BY <2>2, NextType, NextInv, WholeSteps DEF Inv
<1> QED BY <1>1, <1>2, PTL DEF Spec

\* So does the one for batches written in parts.
LEMMA PartsHold ==
    ASSUME RedoneCalls PROVE Spec => [](TypeOK /\ RangeInv /\ JournalInv /\ InvParts)
<1>1. Init => TypeOK /\ RangeInv /\ JournalInv /\ InvParts
    <2>1. Init => RangeInv
        BY SMTAssumption
        DEF Init, RangeInv, RangeSurvivesRestart, ReopenedVersion, ReopenedRecent, Nothing,
            NoVersion
    <2>2. Paths[{}] = UNION {Path[k] : k \in {}} BY PathsNodes
    <2>3. {} \cap Keys = {} /\ Paths[{}] = {} BY <2>2
    <2>4. Init => JournalInv BY <2>3 DEF Init, JournalInv
    <2> QED BY <2>1, <2>4, InitType, InitInv DEF InvParts
<1>2. TypeOK /\ RangeInv /\ JournalInv /\ InvParts /\ [Next]_vars
          => (TypeOK /\ RangeInv /\ JournalInv /\ InvParts)'
    <2>1. SeenThrough BY DEF RedoneCalls
    <2>2. TypeOK /\ RangeInv /\ [Next]_vars => RangeInv' BY <2>1, NextRange
    <2> QED BY <2>2, NextType, NextJournal, NextParts
<1> QED BY <1>1, <1>2, PTL DEF Spec

\* Every stored node has in every version a client can read the hash of the
\* leaves stored below it, after any sequence of sets, commits, prunings,
\* rollbacks, failed writes and restarts, also between the parts of a batch
\* and after a write that stored everything but returned an error.
THEOREM RecordsAgree ==
    ASSUME RedoneCalls PROVE Spec => []RecordsAgreeWithLeaves
<1>1. TypeOK /\ RangeInv /\ JournalInv /\ InvParts => RecordsAgreeWithLeaves
    <2> SUFFICES ASSUME TypeOK, InvParts, NEW n \in Nodes, NEW v \in Reliable
                 PROVE  HashAt(db[n].versions, v, NilHash)
                            = [k \in Keys |-> IF n \in Path[k] THEN Snapshot(v)[k] ELSE Nil]
        BY DEF RecordsAgreeWithLeaves
    <2>1. /\ v \in Nat /\ v >= recentVersion /\ v <= version /\ version \in Nat
          /\ interrupted.op = "commit" => v >= asked
          /\ interrupted.op = "rollback" => v <= interrupted.version
        BY DEF Reliable, TypeOK
    <2>2. HashAt(db[n].versions, v, NilHash) = Below(Contents(db, v), n)
        <3>1. CASE Inv BY <2>1, <3>1 DEF Inv, RecordsOK, Hashed
        <3>2. CASE CommitInParts
            <4>1. PICK g \in Call : PartState(g) BY <3>2 DEF CommitInParts
            <4>2. /\ CallOK(g, recentVersion) /\ PartRecords(db, dbChild, g, asked)
                  /\ g.from = version /\ asked \in Int /\ v >= asked
                BY <2>1, <3>2, <4>1 DEF PartState, CommitInParts, TypeOK, NoVersion
            <4>3. g.block \in Nat /\ g.from < g.block BY <4>2, CallTypes
            <4>4. v < g.block BY <2>1, <4>2, <4>3
            <4>5. /\ HashAt(db[n].versions, v, NilHash) = HashAt(g.old[n].versions, v, NilHash)
                  /\ Contents(db, v) = Contents(g.old, v)
                BY <2>1, <4>2, <4>4, PartReads
            <4>6. HashAt(g.old[n].versions, v, NilHash) = Below(Contents(g.old, v), n)
                BY <2>1, <4>2 DEF CallOK, Hashed
            <4> QED BY <4>5, <4>6
        <3>3. CASE RollbackInParts
            BY <2>1, <3>3 DEF RollbackInParts, HalfUndone, HashedTo
        <3> QED BY <3>1, <3>2, <3>3 DEF InvParts
    <2> QED BY <2>2 DEF Below, Contents, Snapshot
<1> QED BY <1>1, PartsHold, PTL

\* A tree opened on the records shows the latest version that was stored to
\* the end, unless a call was stored in part and is still to be done again:
\* initFromStorage never meets an entry above it, and the redone call leaves
\* none.
THEOREM ReopenShows ==
    ASSUME RedoneCalls PROVE Spec => []ReopenShowsLatest
<1>1. TypeOK /\ RangeInv /\ JournalInv /\ InvParts => ReopenShowsLatest
    <2> SUFFICES ASSUME TypeOK, RangeInv, InvParts, interrupted = Nothing \/ IsDone
                 PROVE  Root(ReopenedTree[RootNode]) = Snapshot(ReopenedVersion)
        BY DEF ReopenShowsLatest
    <2>1. StoreOK
        <3>1. CASE Inv
            <4>1. interrupted = Nothing /\ RecordsOK BY <3>1 DEF Inv
            <4> QED BY <4>1, RecordsStored
        <3>2. CASE CommitInParts
            <4>1. PICK g \in Call : PartState(g) /\ g.block = interrupted.version
                BY <3>2 DEF CommitInParts
            <4>2. interrupted # Nothing BY <3>2 DEF CommitInParts, Nothing
            <4> QED BY <4>1, <4>2, PartFinished DEF IsDone
        <3>3. CASE RollbackInParts
            <4>1. interrupted # Nothing BY <3>3 DEF RollbackInParts, Nothing
            <4> QED BY <3>3, <4>1 DEF RollbackInParts
        <3> QED BY <3>1, <3>2, <3>3 DEF InvParts
    <2>2. Root(ReopenedTree[RootNode]) = Contents(db, ReopenedVersion) BY <2>1, ReopenedRoot
    <2> QED BY <2>2 DEF Contents, Snapshot
<1> QED BY <1>1, PartsHold, PTL

\* Whatever garbage collection, rollback or a restart has left out of memory
\* can be loaded again, with the hash the tree has used for it, also in the
\* tree a failed rollback leaves, and after an interrupted call was redone.
THEOREM NodesReload ==
    ASSUME RedoneCalls PROVE Spec => []NodesCanBeReloaded
<1>1. TypeOK /\ RangeInv /\ JournalInv /\ InvParts => NodesCanBeReloaded
    <2> SUFFICES ASSUME TypeOK, InvParts, interrupted = Nothing, NEW n \in Nodes \ {RootNode}
                 PROVE  /\ root[n].state = "temporary" =>
                               /\ db[n].found
                               /\ LatestHash(db[n].versions, NilHash) = Root(root[n])
                        /\ Resident(root[Parent[n]]) /\ root[n].state = "nil" =>
                               LatestHash(db[n].versions, NilHash) = NilHash
        BY DEF NodesCanBeReloaded
    <2> USE PartsDone
    <2>1. PICK D : Mirrors(root, D, db) BY DEF Inv, TreesOK
    <2>2. NodeMirrors(root, D, db, n) BY <2>1 DEF Mirrors
    <2>3. ASSUME root[n].state = "temporary"
          PROVE  db[n].found /\ LatestHash(db[n].versions, NilHash) = Root(root[n])
        <3>1. Alike(root[n].versions, db[n].versions) /\ root[n].versions # <<>>
            BY <2>2, <2>3 DEF NodeMirrors, Resident
        <3>2. db[n].found BY <3>1 DEF Inv, RecordsOK, Linked, Alike
        <3> QED BY <3>1, <3>2 DEF Root, Alike
    <2>4. ASSUME Resident(root[Parent[n]]), root[n].state = "nil"
          PROVE  LatestHash(db[n].versions, NilHash) = NilHash
        <3>1. db[n].versions = <<>> BY <2>2, <2>4 DEF NodeMirrors, Seen, Resident, Alike
        <3> QED BY <3>1 DEF LatestHash
    <2> QED BY <2>3, <2>4
<1> QED BY <1>1, PartsHold, PTL

\* No step changes what can be read in a version that stays readable, not even
\* one part of a batch.
THEOREM ReadsStable ==
    ASSUME RedoneCalls PROVE Spec => CommittedReadsStable
<1>1. TypeOK /\ RangeInv /\ JournalInv /\ InvParts /\ [Next]_vars
          => [\A v \in Reliable \cap Reliable' : Snapshot(v)' = Snapshot(v)]_vars
    <2> SUFFICES ASSUME TypeOK, RangeInv, JournalInv, InvParts, [Next]_vars,
                        NEW v \in Reliable \cap Reliable'
                 PROVE  Snapshot(v)' = Snapshot(v)
        OBVIOUS
    <2>1. SeenThrough BY DEF RedoneCalls
    <2>2. TypeOK' /\ RangeInv' BY <2>1, NextType, NextRange
    <2>3. Contents(db', v) = Contents(db, v) BY <2>2, NextParts
    <2> QED BY <2>3 DEF Contents, Snapshot
<1> QED BY <1>1, PartsHold, PTL DEF Spec, CommittedReadsStable

\* Versions that no commit used read like the latest one.
LEMMA ContentsAbove ==
    ASSUME NEW d \in Records, NEW rv \in Nat, NEW ver \in Nat, Ordered(d, rv, ver),
           NEW v \in Nat, v >= ver
    PROVE  Contents(d, v) = Contents(d, ver)
<1>0. v \in Int /\ ver \in Int OBVIOUS
<1>1. ASSUME NEW n \in Nodes
      PROVE  HashAt(d[n].versions, v, NilHash) = HashAt(d[n].versions, ver, NilHash)
    <2> DEFINE us == d[n].versions
    <2>1. us \in Versions /\ Sorted(us) /\ Upto(us, ver)
        BY DEF Records, StoredRecord, Ordered
    <2>2. \A u \in Vers(us) : u \in Nat BY <2>1, VersNat
    <2> HIDE DEF us
    <2>3. ASSUME NEW u \in Vers(us) PROVE u <= v
        <3>1. u \in Nat /\ u <= ver BY <2>1, <2>2 DEF Upto
        <3> QED BY <3>1
    <2>4. Upto(us, v) BY <2>3 DEF Upto
    <2>5. HashAt(us, v, NilHash) = HashAt(us, ver, NilHash)
        BY <1>0, <2>1, <2>4, ReadsLatest
    <2> QED BY <2>5 DEF us
<1> QED BY <1>1, NodesClosed DEF Contents

\* The snapshots the records hold.
Snapshots(d, rv, ver) == [v \in rv .. ver |-> Contents(d, v)]

\* What the refinement mapping names.
LEMMA MappedState ==
    /\ [v \in recentVersion .. version |-> Snapshot(v)] = Snapshots(db, recentVersion, version)
    /\ [v \in recentVersion .. version |-> Snapshot(v)]'
           = Snapshots(db', recentVersion', version')
BY DEF Snapshot, Snapshots, Contents

\* Each of the client's steps is one of the versioned map's.
LEMMA StepRefines ==
    ASSUME TypeOK, TypeOK', RangeInv, Inv, ClientStep
    PROVE  [Promise!Next]_(Promise!vars)
<1> DEFINE snap == [v \in recentVersion .. version |-> Snapshot(v)]
<1>1. /\ db \in Records /\ version \in Nat /\ recentVersion \in Nat
      /\ recentVersion <= version /\ Ordered(db, recentVersion, version)
      /\ version' \in Nat /\ recentVersion' \in Nat
    <2>1. db \in Records BY StateTypes
    <2> QED BY <2>1 DEF TypeOK, Inv, RecordsOK, RangeInv, RangeSurvivesRestart
<1>2. snap = Snapshots(db, recentVersion, version)
      /\ snap' = Snapshots(db', recentVersion', version')
    BY MappedState
<1> HIDE DEF snap
<1>3. \A v \in recentVersion .. version : snap[v] = Contents(db, v)
    BY <1>2 DEF Snapshots
<1>4. Same => UNCHANGED <<version, recentVersion, snap>> BY <1>2 DEF Same
<1>5. CASE Same /\ Edited' = Edited /\ Work' = Work
    BY <1>4, <1>5 DEF Promise!vars, Work, Edited, snap
<1>6. CASE Edits
    <2>1. PICK S \in (SUBSET Keys) \ {{}} : \E items \in [S -> Value] :
              Work' = Overlay(Work, items) /\ Edited' = Edited \cup S
        BY <1>6 DEF Edits
    <2>2. PICK items \in [S -> Value] : Work' = Overlay(Work, items) /\ Edited' = Edited \cup S
        BY <2>1
    <2>3. UNCHANGED <<version, recentVersion, snap>> BY <1>4, <1>6 DEF Edits
    <2>4. Promise!Set(items) BY <2>2, <2>3 DEF Promise!Set, Overlay, Work, Edited, snap
    <2> QED BY <2>4 DEF Promise!Next
<1>7. CASE Commits
    <2>1. /\ version' \in Bounded /\ version' > version
          /\ recentVersion <= recentVersion' /\ recentVersion' < version'
          /\ Work' = Work /\ Contents(db', version') = Work /\ Edited' = {}
          /\ \A w \in Nat : w >= recentVersion' /\ w < version' =>
                 Contents(db', w) = Contents(db, w)
        BY <1>7 DEF Commits
    <2>2. version' \in 0 .. MaxVersion /\ recentVersion' \in 0 .. MaxVersion
        BY <1>1, <2>1, SMTAssumption DEF Bounded
    <2>3. ASSUME NEW v \in recentVersion' .. version'
          PROVE  Contents(db', v) = IF v = version' THEN Work
                                    ELSE IF v > version THEN snap[version]
                                    ELSE snap[v]
        <3>0. v \in Nat /\ v >= recentVersion' /\ v <= version' BY <1>1
        <3>1. CASE v = version' BY <2>1, <3>1
        <3>2. CASE v # version' /\ v > version
            <4>1. Contents(db', v) = Contents(db, v) BY <1>1, <2>1, <3>0, <3>2
            <4>2. Contents(db, v) = Contents(db, version)
                BY <1>1, <3>0, <3>2, ContentsAbove
            <4>3. snap[version] = Contents(db, version) BY <1>1, <1>3
            <4> QED BY <3>2, <4>1, <4>2, <4>3
        <3>3. CASE v # version' /\ ~(v > version)
            <4>1. Contents(db', v) = Contents(db, v) BY <1>1, <2>1, <3>0, <3>3
            <4>2. v \in recentVersion .. version BY <1>1, <2>1, <3>0, <3>3
            <4> QED BY <1>3, <3>3, <4>1, <4>2
        <3> QED BY <3>1, <3>2, <3>3
    <2>4. snap' = [v \in recentVersion' .. version' |->
                      IF v = version' THEN Work
                      ELSE IF v > version THEN snap[version]
                      ELSE snap[v]]
        BY <1>2, <2>3 DEF Snapshots
    <2>5. Promise!Commit(recentVersion', version')
        BY <2>1, <2>4 DEF Promise!Commit, Work, Edited, snap
    <2> QED BY <2>2, <2>5 DEF Promise!Next
<1>8. CASE Loses
    <2>1. Contents(db, version) = snap[version] BY <1>1, <1>3
    <2>2. UNCHANGED <<version, recentVersion, snap>> BY <1>4, <1>8 DEF Loses
    <2>3. Promise!Discard BY <1>8, <2>1, <2>2 DEF Promise!Discard, Loses, Work, Edited, snap
    <2> QED BY <2>3 DEF Promise!Next
<1>9. CASE Undoes
    <2>1. /\ recentVersion <= version' /\ version' <= version /\ recentVersion' = recentVersion
          /\ Work' = Contents(db, version') /\ Edited' = {}
          /\ \A w \in Nat : w <= version' => Contents(db', w) = Contents(db, w)
        BY <1>9 DEF Undoes
    <2>2. version' \in recentVersion .. version BY <1>1, <2>1
    <2>3. ASSUME NEW v \in recentVersion .. version' PROVE Contents(db', v) = snap[v]
        <3>1. v \in Nat /\ v <= version' /\ v \in recentVersion .. version BY <1>1, <2>1
        <3> QED BY <1>3, <2>1, <3>1
    <2>4. snap' = [v \in recentVersion .. version' |-> snap[v]]
        BY <1>2, <2>1, <2>3 DEF Snapshots
    <2>5. Work' = snap[version'] BY <1>3, <2>1, <2>2
    <2>6. Promise!Rollback(version')
        BY <2>1, <2>4, <2>5 DEF Promise!Rollback, Work, Edited, snap
    <2> QED BY <2>2, <2>6 DEF Promise!Next
<1>10. CASE Misses
    <2>1. PICK target \in recentVersion .. version : Work' = Contents(db, target)
        BY <1>10 DEF Misses
    <2>0. Edited' = {} BY <1>10 DEF Misses
    <2>2. UNCHANGED <<version, recentVersion, snap>> BY <1>4, <1>10 DEF Misses
    <2>3. Work' = snap[target] BY <1>3, <2>1
    <2>4. Promise!FailedRollback(target)
        BY <2>0, <2>2, <2>3 DEF Promise!FailedRollback, Work, Edited, snap
    <2> QED BY <2>4 DEF Promise!Next
<1> QED BY <1>5, <1>6, <1>7, <1>8, <1>9, <1>10 DEF ClientStep

\* The tree with its nodes, journal, cache, garbage collection and records
\* implements the versioned map: every commit, prune, rollback, failed write
\* and restart is a step of it.
THEOREM PromiseKept ==
    ASSUME WholeBatches PROVE Spec => KeepsPromise
<1>1. Init => Promise!Init
    <2> SUFFICES ASSUME Init PROVE Promise!Init OBVIOUS
    <2>2. version = InitVersion /\ recentVersion = 0 BY DEF Init
    <2>3. \A n \in Nodes : db[n].versions = <<>> BY DEF Init
    <2>4. ASSUME NEW v \in 0 .. InitVersion PROVE Snapshot(v) = [k \in Keys |-> Nil]
        <3>1. v \in Int OBVIOUS
        <3>2. <<>> \in Seq(VersionInfo(Content)) /\ Len(<<>>) = 0 OBVIOUS
        <3>3. VisibleIndex(<<>>, v) \in 0 .. Len(<<>>) BY <3>1, <3>2, VisibleIndexSpec
        <3>4. VisibleIndex(<<>>, v) = 0 BY <3>2, <3>3
        <3>5. HashAt(<<>>, v, NilHash) = NilHash BY <3>4 DEF HashAt
        <3> QED BY <2>3, <3>5, NodesClosed DEF Snapshot, NilHash
    <2>5. Root(root[RootNode]) = [k \in Keys |-> Nil]
        <3>1. root[RootNode] = NewTreeNode BY NodesClosed DEF Init
        <3> QED BY <3>1 DEF Root, LatestHash, NewTreeNode, NilHash
    <2>6. journal \cap Keys = {} BY DEF Init
    <2> QED BY <2>2, <2>4, <2>5, <2>6 DEF Promise!Init
<1>2. TypeOK /\ RangeInv /\ Inv /\ [Next]_vars => [Promise!Next]_(Promise!vars)
    BY NextInv, WholeSteps, NextType, StepRefines DEF Inv
<1> QED BY <1>1, <1>2, InvHolds, PTL DEF Spec, KeepsPromise, Promise!Spec

----------------------------------------------------------------------------
(* The cache of leaves, as long as no commit fails. (Run smt_failed_commit *)
(* shows what a leaf cached by a failed commit does.)                      *)

CommitsSucceed ==
    RedoneCalls /\ "commitFails" \notin Departures /\ "unanswered" \notin Departures

\* A cached leaf is its record. After a failed rollback it may be ahead.
CacheInv ==
    ~rollbackFailed => \A k \in Keys : dbCache[k].found => dbCache[k].versions = db[k].versions

\* There is no commit to be done again then.
NoPartCommit == interrupted.op # "commit"

\* lru.Cache.Add adds what it is given, and may evict.
LEMMA CacheAddHolds ==
    ASSUME NEW new, NEW cached, NEW c \in CacheAdd(new, cached), NEW k \in Keys, c[k].found
    PROVE  IF k \in new THEN c[k].versions = cached[k].versions ELSE c[k] = dbCache[k]
<1>1. PICK S : c = [j \in Keys |->
                       IF j \notin S THEN [found |-> FALSE, versions |-> <<>>]
                       ELSE IF j \in new
                       THEN [found |-> TRUE, versions |-> cached[j].versions]
                       ELSE dbCache[j]]
    BY DEF CacheAdd
<1> QED BY <1>1

\* Set finds no cached leaf ahead of the committed version.
LEMMA NothingAhead ==
    ASSUME TypeOK, RecordsOK, CacheInv, ~rollbackFailed, NEW infos,
           DOMAIN infos \subseteq Keys, NEW c \in CachedAfterSet(infos)
    PROVE  c = dbCache
<1> DEFINE Ahead(k) == dbCache[k].found /\ LatestVersion(dbCache[k].versions) > version
<1>1. ASSUME NEW k \in Keys PROVE ~Ahead(k)
    <2> SUFFICES ASSUME dbCache[k].found PROVE ~(LatestVersion(db[k].versions) > version)
        BY DEF CacheInv
    <2> DEFINE vs == db[k].versions
    <2>1. k \in Nodes /\ version \in Nat BY NodesClosed DEF TypeOK
    <2>2. vs \in Seq(VersionInfo(Content)) /\ Upto(vs, version)
        BY <2>1 DEF TypeOK, Versions, RecordsOK, Ordered
    <2> HIDE DEF vs
    <2>3. vs = <<>> => ~(LatestVersion(vs) > version) BY <2>1 DEF LatestVersion
    <2>4. ASSUME vs # <<>> PROVE ~(LatestVersion(vs) > version)
        <3>1. Len(vs) \in 1 .. Len(vs) BY <2>2, <2>4
        <3>2. vs[Len(vs)].ver \in Nat BY <2>2, <3>1, EntryType
        <3>3. vs[Len(vs)].ver <= version BY <2>2, <3>1 DEF Upto, Vers
        <3> QED BY <2>1, <2>4, <3>2, <3>3 DEF LatestVersion
    <2> QED BY <2>3, <2>4 DEF vs
<1>2. PICK shared \in SUBSET {k \in DOMAIN infos : Ahead(k)} :
          c = [k \in Keys |-> IF k \in shared
                              THEN [dbCache[k] EXCEPT !.versions[Len(dbCache[k].versions)] = infos[k]]
                              ELSE dbCache[k]]
    BY DEF CachedAfterSet
<1>3. shared = {} BY <1>1, <1>2
<1>4. dbCache \in [Keys -> StoredRecord] BY StateTypes
<1> QED BY <1>2, <1>3, <1>4

\* Every step keeps the cache in agreement with the records.
LEMMA NextCache ==
    ASSUME CommitsSucceed, TypeOK, InvParts, NoPartCommit, CacheInv, [Next]_vars
    PROVE  CacheInv'
<1>1. ASSUME NEW v, BlockVersion(v) PROVE RecordsOK
    <2>1. interrupted = Nothing BY <1>1 DEF BlockVersion, NoPartCommit
    <2> QED BY <2>1, PartsDone DEF Inv
<1>2. ASSUME UNCHANGED <<dbCache, db, rollbackFailed>> PROVE CacheInv'
    BY <1>2 DEF CacheInv
<1>3. ASSUME NEW k \in Keys, NEW v, CallGet(k, v) PROVE CacheInv'
    <2>1. ~rollbackFailed /\ dbCache' \in CacheAdd({k}, db) /\ db' = db
        BY <1>3 DEF CallGet, Get
    <2>2. ASSUME NEW j \in Keys, dbCache'[j].found PROVE dbCache'[j].versions = db[j].versions
        <3>1. IF j \in {k} THEN dbCache'[j].versions = db[j].versions
              ELSE dbCache'[j] = dbCache[j]
            BY <2>1, <2>2, CacheAddHolds
        <3> QED BY <2>1, <2>2, <3>1 DEF CacheInv
    <2> QED BY <2>1, <2>2 DEF CacheInv
<1>4. ASSUME NEW k \in Keys, CallGetProof(k) PROVE CacheInv'
    BY <1>2, <1>4 DEF CallGetProof, GetProof
<1>5. ASSUME NEW S \in SUBSET Keys, NEW items \in [S -> Value], NEW v, ~rollbackFailed,
             BlockVersion(v), SetItems(items, v)
      PROVE  CacheInv'
    <2>1. DOMAIN items = S OBVIOUS
    <2>2. PICK infos : DOMAIN infos = S /\ dbCache' \in CachedAfterSet(infos)
        BY <1>5, <2>1 DEF SetItems
    <2>3. dbCache' = dbCache BY <1>1, <1>5, <2>2, NothingAhead
    <2> QED BY <1>2, <1>5, <2>3 DEF SetItems
<1>6. ASSUME CallReset PROVE CacheInv' BY <1>2, <1>6 DEF CallReset, Reset
<1>7. ASSUME NEW recent \in NoVersion .. MaxVersion, NEW v \in Bounded,
             NEW release \in 0 .. MaxVersion, NEW late, CallCommit(recent, v, release, late)
      PROVE  CacheInv'
    <2> DEFINE t == Pruned(recent, journal)
    <2>1. /\ ~rollbackFailed /\ db' = Stored(journal, t)
          /\ dbCache' \in CacheAdd(journal \cap Keys, t)
        BY <1>7 DEF CallCommit, CommitWithNewVersion
    <2> HIDE DEF t
    <2>2. ASSUME NEW k \in Keys, dbCache'[k].found PROVE dbCache'[k].versions = db'[k].versions
        <3>1. k \in Nodes BY NodesClosed
        <3>2. IF k \in journal \cap Keys THEN dbCache'[k].versions = t[k].versions
              ELSE dbCache'[k] = dbCache[k]
            BY <2>1, <2>2, CacheAddHolds
        <3>3. db'[k] = IF k \in journal THEN [found |-> TRUE, versions |-> t[k].versions]
                       ELSE db[k]
            BY <2>1, <3>1 DEF Stored
        <3>4. CASE k \in journal BY <3>2, <3>3, <3>4
        <3>5. CASE k \notin journal BY <2>1, <2>2, <3>2, <3>3, <3>5 DEF CacheInv
        <3> QED BY <3>4, <3>5
    <2> QED BY <2>2 DEF CacheInv
<1>8. ASSUME NEW recent, NEW v, NEW visited, NEW written, NEW late,
             CallCommitFails(recent, v, visited, written, late)
      PROVE  CacheInv'
    BY <1>8 DEF CallCommitFails, CommitFails, CommitsSucceed
<1>9. ASSUME NEW target \in 0 .. MaxVersion, CallRollback(target) PROVE CacheInv'
    <2> DEFINE D == Dropping(target)
               t == RolledBack(target, D)
    <2>1. ~rollbackFailed
        BY <1>9 DEF CallRollback, RollbackChoice, CommitsSucceed, RedoneCalls
    <2>2. db' = Stored(D, t) /\ dbCache' = Recached(t, D)
        BY <1>9 DEF CallRollback, Rollback
    <2> HIDE DEF t, D
    <2>3. ASSUME NEW k \in Keys, dbCache'[k].found PROVE dbCache'[k].versions = db'[k].versions
        <3>1. k \in Nodes BY NodesClosed
        <3>2. dbCache'[k] = IF k \in D /\ dbCache[k].found
                            THEN [found |-> TRUE, versions |-> t[k].versions]
                            ELSE dbCache[k]
            BY <2>2 DEF Recached
        <3>3. db'[k] = IF k \in D THEN [found |-> TRUE, versions |-> t[k].versions] ELSE db[k]
            BY <2>2, <3>1 DEF Stored
        <3>4. CASE k \in D BY <2>3, <3>2, <3>3, <3>4
        <3>5. CASE k \notin D BY <2>1, <2>3, <3>2, <3>3, <3>5 DEF CacheInv
        <3> QED BY <3>4, <3>5
    <2> QED BY <2>3 DEF CacheInv
<1>10. ASSUME NEW target, NEW written, CallRollbackFails(target, written) PROVE CacheInv'
    BY <1>10 DEF CallRollbackFails, RollbackFails, CacheInv
<1>11. ASSUME Reopen PROVE CacheInv' BY <1>11 DEF Reopen, CacheInv
<1>12. ASSUME UNCHANGED vars PROVE CacheInv' BY <1>2, <1>12 DEF vars
<1>13. ASSUME NEW k \in Keys, NEW val \in Value, NEW v \in Bounded, CallSet(k, val, v)
       PROVE  CacheInv'
    <2>1. Item(k, val) \in [{k} -> Value] /\ {k} \in SUBSET Keys BY DEF Item
    <2>2. ~rollbackFailed /\ BlockVersion(v) /\ SetItems(Item(k, val), v)
        BY <1>13 DEF CallSet, SetWithVersion
    <2> QED BY <1>5, <2>1, <2>2
<1>14. ASSUME NEW S \in SUBSET Keys, NEW items \in [S -> Value], NEW v \in Bounded,
              CallMultiSet(items, v)
       PROVE  CacheInv'
    BY <1>5, <1>14 DEF CallMultiSet, MultiSetWithVersion
<1>15. ~("unanswered" \in Departures /\ CallUnanswered) BY DEF CommitsSucceed
<1> QED BY <1>3, <1>4, <1>6, <1>7, <1>8, <1>9, <1>10, <1>11, <1>12, <1>13, <1>14, <1>15
    DEF Next, CallWrittenInPart

\* Nor does a step leave a commit to be done again.
LEMMA NextPartCommit ==
    ASSUME CommitsSucceed, NoPartCommit, [Next]_vars PROVE NoPartCommit'
<1>1. Nothing.op # "commit" BY DEF Nothing
<1>2. ASSUME UNCHANGED interrupted PROVE NoPartCommit' BY <1>2 DEF NoPartCommit
<1>3. ASSUME interrupted' = Nothing PROVE NoPartCommit' BY <1>1, <1>3 DEF NoPartCommit
<1>4. ASSUME NEW items, NEW v, SetItems(items, v) PROVE NoPartCommit'
    BY <1>2, <1>4 DEF SetItems
<1>5. ASSUME NEW recent, NEW v, NEW release, NEW late, CallCommit(recent, v, release, late)
      PROVE  NoPartCommit'
    BY <1>3, <1>5 DEF CallCommit, CommitWithNewVersion
<1>6. ASSUME NEW recent, NEW v, NEW visited, NEW written, NEW late,
             CallCommitFails(recent, v, visited, written, late)
      PROVE  NoPartCommit'
    BY <1>6 DEF CallCommitFails, CommitFails, CommitsSucceed
<1>7. ASSUME NEW target, CallRollback(target) PROVE NoPartCommit'
    BY <1>3, <1>7 DEF CallRollback, Rollback
<1>8. ASSUME NEW target, NEW written, CallRollbackFails(target, written) PROVE NoPartCommit'
    <2>1. \/ interrupted' = interrupted
          \/ interrupted' = Interruption("rollback", target, {})
        BY <1>8 DEF CallRollbackFails, RollbackFails
    <2>2. Interruption("rollback", target, {}).op # "commit" BY <1>1 DEF Interruption
    <2> QED BY <1>2, <2>1, <2>2 DEF NoPartCommit
<1>9. ~("unanswered" \in Departures /\ CallUnanswered) BY DEF CommitsSucceed
<1> QED BY <1>2, <1>3, <1>4, <1>5, <1>6, <1>7, <1>8, <1>9
    DEF Next, CallWrittenInPart, vars, CallGet, Get, CallGetProof, GetProof, CallSet,
        SetWithVersion, CallMultiSet, MultiSetWithVersion, CallReset, Reset, Reopen

\* Get reads the records, through the cache or not.
LEMMA GetReadsRecords ==
    ASSUME CacheInv, ~rollbackFailed, ~IsEmpty, NEW k \in Keys, NEW v
    PROVE  GetValue(k, v) = Snapshot(v)[k]
BY DEF CacheInv, GetValue, Snapshot

\* Both invariants together.
LEMMA CacheHolds ==
    ASSUME CommitsSucceed
    PROVE  Spec => [](TypeOK /\ RangeInv /\ JournalInv /\ InvParts /\ CacheInv)
<1>1. RedoneCalls BY DEF CommitsSucceed
<1>2. Init => CacheInv /\ NoPartCommit BY DEF Init, CacheInv, NoPartCommit, Nothing
<1>3. TypeOK /\ InvParts /\ NoPartCommit /\ CacheInv /\ [Next]_vars
          => (NoPartCommit /\ CacheInv)'
    BY NextCache, NextPartCommit
<1>4. Spec => [](TypeOK /\ RangeInv /\ JournalInv /\ InvParts) BY <1>1, PartsHold
<1> QED BY <1>2, <1>3, <1>4, PTL DEF Spec

\* A cached leaf answers every read like its record, whatever was evicted,
\* recached by Rollback or loaded by Get in between.
THEOREM CacheAgrees ==
    ASSUME CommitsSucceed PROVE Spec => []CacheAgreesWithRecords
<1>1. CacheInv => CacheAgreesWithRecords
    BY GetReadsRecords DEF CacheAgreesWithRecords
<1> QED BY <1>1, CacheHolds, PTL

\* Every proof of a committed tree verifies, for keys that are set and for
\* keys that are not.
THEOREM ProofsHold ==
    ASSUME CommitsSucceed PROVE Spec => []ProofsVerify
<1>1. TypeOK /\ RangeInv /\ InvParts /\ CacheInv => ProofsVerify
    <2> SUFFICES ASSUME TypeOK, RangeInv, InvParts, CacheInv, journal = {}, ~rollbackFailed,
                        interrupted = Nothing, NEW k \in Keys
                 PROVE  SetChildren(Extend(root, Path[k]), RootNode,
                                    Item(k, GetValue(k, version)))
                            = Root(root[RootNode])
        BY DEF ProofsVerify
    <2> DEFINE t == Extend(root, Paths[{k}])
               W == Contents(db, version)
               items == Item(k, GetValue(k, version))
    <2>1. {k} \in (SUBSET Keys) \ {{}} /\ {k} \in SUBSET Keys OBVIOUS
    <2>2. Paths[{k}] = Path[k]
        <3>1. Paths[{k}] = UNION {Path[j] : j \in {k}} BY <2>1, PathsNodes
        <3>2. {Path[j] : j \in {k}} = {Path[k]} OBVIOUS
        <3> QED BY <3>1, <3>2
    <2>3. RecordsOK /\ TreesOK BY PartsDone DEF Inv
    <2>4. /\ db \in Records /\ root \in Tree /\ version \in Nat /\ recentVersion \in Nat
        BY StateTypes
    <2>5. /\ recentVersion <= version /\ Ordered(db, recentVersion, version)
          /\ Hashed(db, recentVersion) /\ Mirrors(root, {}, db)
        BY <2>3 DEF RecordsOK, TreesOK, RangeInv, RangeSurvivesRestart
    <2>6. Root(root[RootNode]) = W BY <2>4, <2>5, CleanRoot
    <2>7. W \in Content
        <3>1. version \in Int BY <2>4
        <3> QED BY <2>4, <3>1, ContentsType
    <2>8. GetValue(k, version) = W[k]
        <3>1. CASE IsEmpty
            <4>1. GetValue(k, version) = Nil BY <3>1 DEF GetValue
            <4>2. W = NilHash BY <2>6, <3>1 DEF IsEmpty
            <4> QED BY <4>1, <4>2 DEF NilHash
        <3>2. CASE ~IsEmpty
            <4>1. GetValue(k, version) = Snapshot(version)[k] BY <3>2, GetReadsRecords
            <4> QED BY <4>1 DEF Snapshot, Contents
        <3> QED BY <3>1, <3>2
    <2>9. items = [j \in {k} |-> W[k]] /\ items \in [{k} -> Value]
        BY <2>7, <2>8 DEF Item, Content
    <2>10. /\ t \in Tree /\ Mirrors(t, journal, db) /\ \A n \in Paths[{k}] : Resident(t[n])
        BY <2>1, <2>3, LoadsKeep
    <2> HIDE DEF t, W, items
    <2>11. \A n \in Nodes : Seen(t, n) => Root(t[n]) = Below(W, n)
        <3> SUFFICES ASSUME NEW n \in Nodes, Seen(t, n) PROVE Root(t[n]) = Below(W, n)
            OBVIOUS
        <3>1. n \notin journal OBVIOUS
        <3>2. Root(t[n]) = Below(Contents(db, version), n)
            BY <2>4, <2>5, <2>10, <3>1, MirrorRoot
        <3> QED BY <3>2 DEF W
    <2>12. SetChildren(t, RootNode, items) = Below(Overlay(W, items), RootNode)
        BY <2>1, <2>7, <2>9, <2>10, <2>11, SetChildrenBelow, NodesClosed
    <2>13. Overlay(W, items) = W
        <3>1. DOMAIN items = {k} /\ items[k] = W[k] BY <2>9
        <3>2. \A j \in Keys : (IF j \in DOMAIN items THEN items[j] ELSE W[j]) = W[j] BY <3>1
        <3> QED BY <2>7, <3>2 DEF Overlay, Content
    <2>14. Below(W, RootNode) = W BY <2>7, BelowRoot
    <2>15. SetChildren(t, RootNode, items) = Root(root[RootNode]) BY <2>6, <2>12, <2>13, <2>14
    <2> QED BY <2>2, <2>15 DEF t, items
<1> QED BY <1>1, CacheHolds, PTL
=============================================================================
