------------------------- MODULE VersionListProofs -------------------------
(***************************************************************************)
(* What the operations on a Versions list compute, for lists of any length *)
(* and any versions: the lemmas the proofs about tree nodes rest on.       *)
(***************************************************************************)
EXTENDS VersionList, TLAPS, WellFoundedInduction, SequenceTheorems

\* Every non-empty set of naturals has a least element.
LEMMA LeastNatural ==
    ASSUME NEW S \in SUBSET Nat, S # {}
    PROVE  \E m \in S : \A n \in S : m <= n
<1>1. PICK m \in S : \A n \in S : ~(<<n, m>> \in OpToRel(<, Nat))
    BY WFMin, NatLessThanWellFounded
<1>2. ASSUME NEW n \in S PROVE m <= n
    <2>1. <<n, m>> \in Nat \X Nat OBVIOUS
    <2>2. ~(n < m) BY <1>1, <2>1 DEF OpToRel
    <2> QED BY <2>2
<1> QED BY <1>2

\* An element of a list is an entry.
LEMMA EntryType ==
    ASSUME NEW H, NEW vs \in Seq(VersionInfo(H)), NEW i \in 1 .. Len(vs)
    PROVE  /\ vs[i] \in VersionInfo(H)
           /\ vs[i].ver \in Nat
           /\ vs[i].hash \in H
<1>1. vs[i] \in VersionInfo(H) OBVIOUS
<1> QED BY <1>1 DEF VersionInfo

\* The loop of Get and Rollback stops at a well-defined place: the newest
\* entry that is not above v, or 0.
LEMMA VisibleIndexSpec ==
    ASSUME NEW H, NEW vs \in Seq(VersionInfo(H)), NEW v \in Int
    PROVE  /\ VisibleIndex(vs, v) \in 0 .. Len(vs)
           /\ VisibleIndex(vs, v) = 0 \/ vs[VisibleIndex(vs, v)].ver <= v
           /\ \A j \in (VisibleIndex(vs, v) + 1) .. Len(vs) : vs[j].ver > v
<1> DEFINE Good(i) == i = 0 \/ vs[i].ver <= v
           D == {n \in Nat : n <= Len(vs) /\ Good(Len(vs) - n)}
<1>0. Len(vs) \in Nat OBVIOUS
<1>t. \A j \in 1 .. Len(vs) : vs[j].ver \in Nat
    BY EntryType
<1>1. Len(vs) \in D BY <1>0
<1>2. PICK m \in D : \A n \in D : m <= n
    <2>1. D \in SUBSET Nat /\ D # {} BY <1>1
    <2> QED BY <2>1, LeastNatural
<1> DEFINE i == Len(vs) - m
<1>3. i \in 0 .. Len(vs) /\ Good(i) BY <1>0, <1>2
<1>4. \A j \in (i + 1) .. Len(vs) : vs[j].ver > v
    <2> SUFFICES ASSUME NEW j \in (i + 1) .. Len(vs), ~(vs[j].ver > v)
                 PROVE  FALSE
        OBVIOUS
    <2>1. j \in 1 .. Len(vs) BY <1>0, <1>3
    <2>2. vs[j].ver <= v BY <2>1, <1>t
    <2>3. Len(vs) - j \in Nat /\ Len(vs) - (Len(vs) - j) = j
        BY <2>1, <1>0
    <2>4. Len(vs) - j \in D BY <2>1, <2>2, <2>3, <1>0
    <2>5. Len(vs) - j < m BY <1>0, <1>2, <2>1
    <2> QED BY <1>2, <2>4, <2>5, <2>3
<1>5. \E x \in 0 .. Len(vs) :
          /\ x = 0 \/ vs[x].ver <= v
          /\ \A j \in (x + 1) .. Len(vs) : vs[j].ver > v
    BY <1>3, <1>4
<1> QED BY <1>5 DEF VisibleIndex

\* In a sorted list that place is characterised by its neighbours.
LEMMA VisibleIndexUnique ==
    ASSUME NEW H, NEW vs \in Seq(VersionInfo(H)), NEW v \in Int, Sorted(vs),
           NEW i \in 0 .. Len(vs),
           i = 0 \/ vs[i].ver <= v,
           i = Len(vs) \/ vs[i + 1].ver > v
    PROVE  VisibleIndex(vs, v) = i
<1> DEFINE k == VisibleIndex(vs, v)
<1>1. /\ k \in 0 .. Len(vs)
      /\ k = 0 \/ vs[k].ver <= v
      /\ \A j \in (k + 1) .. Len(vs) : vs[j].ver > v
    BY VisibleIndexSpec
<1>0. Len(vs) \in Nat /\ i \in Nat /\ k \in Nat BY <1>1
<1>t. \A j \in 1 .. Len(vs) : vs[j].ver \in Nat
    BY EntryType
<1> HIDE DEF k
<1>2. ~(k < i)
    <2> SUFFICES ASSUME k < i PROVE FALSE OBVIOUS
    <2>1. i \in (k + 1) .. Len(vs) /\ i \in 1 .. Len(vs) BY <1>0
    <2>2. vs[i].ver > v /\ vs[i].ver <= v /\ vs[i].ver \in Nat
        BY <1>1, <1>0, <2>1, <1>t
    <2> QED BY <2>2
<1>3. ~(i < k)
    <2> SUFFICES ASSUME i < k PROVE FALSE OBVIOUS
    <2>1. k \in 1 .. Len(vs) /\ i + 1 \in 1 .. Len(vs) /\ i # Len(vs)
        BY <1>0, <1>1
    <2>2. vs[i + 1].ver > v /\ vs[k].ver <= v BY <2>1, <1>0, <1>1
    <2>3. vs[i + 1].ver <= vs[k].ver
        <3>1. CASE i + 1 = k BY <3>1, <2>1, <1>t
        <3>2. CASE i + 1 < k BY <3>2, <2>1, <1>t DEF Sorted
        <3> QED BY <3>1, <3>2, <1>0
    <2> QED BY <2>2, <2>3, <2>1, <1>t
<1> QED BY <1>0, <1>2, <1>3 DEF k

----------------------------------------------------------------------------
(* Each operation returns a list again.                                    *)

\* TreeNode.newVersion returns a list of entries.
LEMMA NewVersionType ==
    ASSUME NEW H, NEW vs \in Seq(VersionInfo(H)), NEW info \in VersionInfo(H)
    PROVE  NewVersion(vs, info) \in Seq(VersionInfo(H))
BY DEF NewVersion

\* TreeNode.Rollback leaves a list of entries.
LEMMA NodeRollbackType ==
    ASSUME NEW H, NEW vs \in Seq(VersionInfo(H)), NEW v \in Int
    PROVE  NodeRollback(vs, v) \in Seq(VersionInfo(H))
<1>1. VisibleIndex(vs, v) \in 0 .. Len(vs) BY VisibleIndexSpec
<1> QED BY <1>1 DEF NodeRollback

\* The loop of Prune stops at a well-defined place.
LEMMA PruneIndexSpec ==
    ASSUME NEW H, NEW vs \in Seq(VersionInfo(H)), NEW r \in Int, Len(vs) > 0
    PROVE  /\ PruneIndex(vs, r) \in 1 .. Len(vs)
           /\ PruneIndex(vs, r) = Len(vs) \/ vs[PruneIndex(vs, r)].ver >= r
           /\ \A j \in 1 .. (PruneIndex(vs, r) - 1) : vs[j].ver < r
<1> DEFINE D == {n \in 1 .. Len(vs) : n = Len(vs) \/ vs[n].ver >= r}
<1>0. Len(vs) \in Nat OBVIOUS
<1>t. \A j \in 1 .. Len(vs) : vs[j].ver \in Nat BY EntryType
<1>1. D \in SUBSET Nat /\ D # {} BY <1>0
<1>2. PICK m \in D : \A n \in D : m <= n BY <1>1, LeastNatural
<1>3. \A j \in 1 .. (m - 1) : vs[j].ver < r
    <2> SUFFICES ASSUME NEW j \in 1 .. (m - 1), ~(vs[j].ver < r) PROVE FALSE
        OBVIOUS
    <2>1. j \in 1 .. Len(vs) /\ j < m BY <1>0, <1>2
    <2>2. j \in D BY <2>1, <1>t
    <2> QED BY <2>1, <2>2, <1>2
<1>4. \E x \in 1 .. Len(vs) :
          /\ x = Len(vs) \/ vs[x].ver >= r
          /\ \A j \in 1 .. (x - 1) : vs[j].ver < r
    BY <1>2, <1>3
<1> QED BY <1>4 DEF PruneIndex

\* Prune keeps a suffix whose first entry, unless nothing was dropped, is
\* not above the oldest version asked for: it still answers for that one.
LEMMA PruneSuffix ==
    ASSUME NEW H, NEW vs \in Seq(VersionInfo(H)), NEW r \in Int, vs # <<>>
    PROVE  \E s \in 1 .. Len(vs) :
               /\ Prune(vs, r) = SubSeq(vs, s, Len(vs))
               /\ s = 1 \/ vs[s].ver <= r
<1>0. Len(vs) \in Nat /\ Len(vs) > 0 OBVIOUS
<1>t. \A j \in 1 .. Len(vs) : vs[j].ver \in Nat BY EntryType
<1>1. CASE Len(vs) <= 1
    <2>1. vs = SubSeq(vs, 1, Len(vs)) OBVIOUS
    <2>2. Prune(vs, r) = SubSeq(vs, 1, Len(vs)) BY <1>1, <2>1 DEF Prune
    <2> QED BY <2>2, <1>0
<1>2. CASE Len(vs) > 1
    <2> DEFINE i == PruneIndex(vs, r)
    <2>1. /\ i \in 1 .. Len(vs)
          /\ i = Len(vs) \/ vs[i].ver >= r
          /\ \A j \in 1 .. (i - 1) : vs[j].ver < r
        BY <1>0, PruneIndexSpec
    <2>2. Prune(vs, r) = IF i > 1 /\ vs[i].ver > r
                         THEN SubSeq(vs, i - 1, Len(vs))
                         ELSE SubSeq(vs, i, Len(vs))
        BY <1>2, <1>0 DEF Prune
    <2> HIDE DEF i
    <2>3. CASE i > 1 /\ vs[i].ver > r
        <3>1. i - 1 \in 1 .. Len(vs) /\ i - 1 \in 1 .. (i - 1) BY <2>1, <2>3, <1>0
        <3>2. vs[i - 1].ver <= r BY <3>1, <2>1, <1>t
        <3> QED BY <3>1, <3>2, <2>2, <2>3
    <2>4. CASE ~(i > 1 /\ vs[i].ver > r)
        <3>1. i = 1 \/ vs[i].ver <= r BY <2>1, <2>4, <1>t
        <3> QED BY <3>1, <2>1, <2>2, <2>4
    <2> QED BY <2>3, <2>4
<1> QED BY <1>0, <1>1, <1>2

\* TreeNode.Prune leaves a list of entries.
LEMMA PruneType ==
    ASSUME NEW H, NEW vs \in Seq(VersionInfo(H)), NEW r \in Int
    PROVE  Prune(vs, r) \in Seq(VersionInfo(H))
<1>1. CASE vs = <<>> BY <1>1 DEF Prune
<1>2. CASE vs # <<>>
    <2>1. PICK s \in 1 .. Len(vs) : Prune(vs, r) = SubSeq(vs, s, Len(vs))
        BY <1>2, PruneSuffix
    <2> QED BY <2>1
<1> QED BY <1>1, <1>2

----------------------------------------------------------------------------
(* Each operation keeps lists sorted, and keeps what a reader finds in the *)
(* versions it is not meant to touch.                                      *)

\* A reader of a version at or above every entry finds the newest hash.
LEMMA LatestIsVisible ==
    ASSUME NEW H, NEW vs \in Seq(VersionInfo(H)), NEW v \in Int, NEW nil,
           Sorted(vs), \A i \in 1 .. Len(vs) : vs[i].ver <= v
    PROVE  HashAt(vs, v, nil) = LatestHash(vs, nil)
<1>1. Len(vs) \in Nat OBVIOUS
<1>2. VisibleIndex(vs, v) = Len(vs)
    <2>1. Len(vs) \in 0 .. Len(vs) /\ (Len(vs) = 0 \/ vs[Len(vs)].ver <= v)
        BY <1>1
    <2> QED BY <2>1, VisibleIndexUnique
<1>3. Len(vs) = 0 <=> vs = <<>> OBVIOUS
<1> QED BY <1>2, <1>3 DEF HashAt, LatestHash

\* A suffix that starts at or below v, as Prune leaves it.
LEMMA SuffixSorted ==
    ASSUME NEW H, NEW vs \in Seq(VersionInfo(H)), Sorted(vs),
           NEW s \in 1 .. Len(vs)
    PROVE  Sorted(SubSeq(vs, s, Len(vs)))
<1> DEFINE us == SubSeq(vs, s, Len(vs))
<1>1. /\ Len(us) = Len(vs) - s + 1
      /\ \A i \in 1 .. Len(us) : us[i] = vs[s + i - 1]
    OBVIOUS
<1> HIDE DEF us
<1>2. ASSUME NEW i \in 1 .. Len(us), NEW j \in 1 .. Len(us), i < j
      PROVE  us[i].ver < us[j].ver
    <2>1. /\ s + i - 1 \in 1 .. Len(vs)
          /\ s + j - 1 \in 1 .. Len(vs)
          /\ s + i - 1 < s + j - 1
        BY <1>1, <1>2
    <2> QED BY <1>1, <2>1 DEF Sorted
<1> QED BY <1>2 DEF Sorted, us

\* Dropping a prefix of a sorted list changes no read that finds its entry in
\* the part that is kept.
LEMMA SuffixHashAt ==
    ASSUME NEW H, NEW vs \in Seq(VersionInfo(H)), Sorted(vs),
           NEW s \in 1 .. Len(vs), NEW v \in Int, NEW nil,
           s = 1 \/ vs[s].ver <= v
    PROVE  HashAt(SubSeq(vs, s, Len(vs)), v, nil) = HashAt(vs, v, nil)
<1> DEFINE us == SubSeq(vs, s, Len(vs))
           k == VisibleIndex(vs, v)
<1>0. Len(vs) \in Nat OBVIOUS
<1>t. \A j \in 1 .. Len(vs) : vs[j].ver \in Nat BY EntryType
<1>1. /\ us \in Seq(VersionInfo(H))
      /\ Len(us) = Len(vs) - s + 1
      /\ \A i \in 1 .. Len(us) : us[i] = vs[s + i - 1]
    OBVIOUS
<1>2. Sorted(us) BY SuffixSorted
<1>3. /\ k \in 0 .. Len(vs)
      /\ k = 0 \/ vs[k].ver <= v
      /\ \A j \in (k + 1) .. Len(vs) : vs[j].ver > v
    BY VisibleIndexSpec
<1> HIDE DEF us, k
<1>4. CASE k >= s
    <2> DEFINE i == k - s + 1
    <2>1. i \in 1 .. Len(us) /\ s + i - 1 = k BY <1>4, <1>1, <1>3, <1>0
    <2>2. us[i] = vs[k] /\ vs[k].ver <= v BY <2>1, <1>1, <1>3, <1>4
    <2>3. i = Len(us) \/ us[i + 1].ver > v
        <3> SUFFICES ASSUME i # Len(us) PROVE us[i + 1].ver > v OBVIOUS
        <3>1. i + 1 \in 1 .. Len(us) /\ s + (i + 1) - 1 = k + 1 BY <2>1, <1>1
        <3>2. k + 1 \in (k + 1) .. Len(vs) BY <3>1, <1>1, <1>3, <1>0
        <3> QED BY <3>1, <3>2, <1>1, <1>3
    <2>a. i \in 0 .. Len(us) /\ us[i].ver <= v BY <2>1, <2>2
    <2> HIDE DEF i
    <2>4. VisibleIndex(us, v) = i
        BY <1>1, <1>2, <2>a, <2>3, VisibleIndexUnique
    <2>5. i # 0 /\ k # 0 BY <2>1, <1>4, <1>3
    <2> QED BY <2>2, <2>4, <2>5 DEF HashAt, us, k
<1>5. CASE k < s
    <2>1. s \in (k + 1) .. Len(vs) BY <1>5, <1>3
    <2>2. vs[s].ver > v BY <2>1, <1>3
    <2>3. s = 1 BY <2>2, <1>t
    <2>4. us = vs BY <2>3 DEF us
    <2> QED BY <2>4 DEF us
<1> QED BY <1>3, <1>4, <1>5

\* Prune(r) changes no read of version r or above: what it drops is covered
\* by the entry it keeps (smt.go 774-776, tree_node.go 189-211).
LEMMA PruneKeepsReads ==
    ASSUME NEW H, NEW vs \in Seq(VersionInfo(H)), Sorted(vs),
           NEW r \in Int, NEW v \in Int, r <= v, NEW nil
    PROVE  HashAt(Prune(vs, r), v, nil) = HashAt(vs, v, nil)
<1>1. CASE vs = <<>> BY <1>1 DEF Prune
<1>2. CASE vs # <<>>
    <2>1. PICK s \in 1 .. Len(vs) : /\ Prune(vs, r) = SubSeq(vs, s, Len(vs))
                                    /\ s = 1 \/ vs[s].ver <= r
        BY <1>2, PruneSuffix
    <2>2. s = 1 \/ vs[s].ver <= v BY <2>1, EntryType
    <2> QED BY <2>1, <2>2, SuffixHashAt
<1> QED BY <1>1, <1>2

\* Prune keeps the list sorted and its entries, the newest included.
LEMMA PruneKeepsOrder ==
    ASSUME NEW H, NEW vs \in Seq(VersionInfo(H)), Sorted(vs),
           NEW r \in Int, NEW nil
    PROVE  /\ Sorted(Prune(vs, r))
           /\ LatestHash(Prune(vs, r), nil) = LatestHash(vs, nil)
           /\ \A i \in 1 .. Len(Prune(vs, r)) :
                 \E j \in 1 .. Len(vs) : Prune(vs, r)[i] = vs[j]
<1>1. CASE vs = <<>>
    <2>1. Prune(vs, r) = vs BY <1>1 DEF Prune
    <2> QED BY <2>1
<1>2. CASE vs # <<>>
    <2>1. PICK s \in 1 .. Len(vs) : Prune(vs, r) = SubSeq(vs, s, Len(vs))
        BY <1>2, PruneSuffix
    <2> DEFINE us == SubSeq(vs, s, Len(vs))
    <2>2. /\ Len(us) = Len(vs) - s + 1
          /\ \A i \in 1 .. Len(us) : us[i] = vs[s + i - 1]
        OBVIOUS
    <2>3. Sorted(us) BY SuffixSorted
    <2> HIDE DEF us
    <2>4. us # <<>> BY <2>2
    <2>5. Len(us) \in 1 .. Len(us) /\ s + Len(us) - 1 = Len(vs) BY <2>2
    <2>6. LatestHash(us, nil) = LatestHash(vs, nil)
        BY <1>2, <2>2, <2>4, <2>5 DEF LatestHash
    <2>7. ASSUME NEW i \in 1 .. Len(us)
          PROVE  \E j \in 1 .. Len(vs) : us[i] = vs[j]
        <3>1. s + i - 1 \in 1 .. Len(vs) BY <2>2
        <3> QED BY <3>1, <2>2
    <2> QED BY <2>1, <2>3, <2>6, <2>7 DEF us
<1> QED BY <1>1, <1>2

\* Rollback(t) changes no read of version t or below, and leaves nothing
\* above t.
LEMMA RollbackKeepsReads ==
    ASSUME NEW H, NEW vs \in Seq(VersionInfo(H)), Sorted(vs),
           NEW t \in Int, NEW nil
    PROVE  /\ Sorted(NodeRollback(vs, t))
           /\ \A i \in 1 .. Len(NodeRollback(vs, t)) : NodeRollback(vs, t)[i].ver <= t
           /\ \A v \in Int : v <= t =>
                 HashAt(NodeRollback(vs, t), v, nil) = HashAt(vs, v, nil)
<1> DEFINE K == VisibleIndex(vs, t)
           us == SubSeq(vs, 1, K)
<1>0. Len(vs) \in Nat OBVIOUS
<1>t. \A j \in 1 .. Len(vs) : vs[j].ver \in Nat BY EntryType
<1>1. /\ K \in 0 .. Len(vs)
      /\ K = 0 \/ vs[K].ver <= t
      /\ \A j \in (K + 1) .. Len(vs) : vs[j].ver > t
    BY VisibleIndexSpec
<1> HIDE DEF K
<1>2. /\ us \in Seq(VersionInfo(H))
      /\ Len(us) = K
      /\ \A i \in 1 .. K : us[i] = vs[i]
    BY <1>1
<1> HIDE DEF us
<1>3. Sorted(us) BY <1>0, <1>1, <1>2 DEF Sorted
<1>4. ASSUME NEW i \in 1 .. K PROVE us[i].ver <= t
    <2>1. i \in 1 .. Len(vs) /\ K \in 1 .. Len(vs) BY <1>1
    <2>2. vs[i].ver <= vs[K].ver
        <3>1. CASE i = K BY <3>1, <2>1, <1>t
        <3>2. CASE i < K BY <3>2, <2>1, <1>t DEF Sorted
        <3> QED BY <3>1, <3>2, <1>1
    <2>3. vs[K].ver <= t BY <1>1, <2>1
    <2> QED BY <2>1, <2>2, <2>3, <1>t, <1>2
<1>5. ASSUME NEW v \in Int, v <= t
      PROVE  HashAt(us, v, nil) = HashAt(vs, v, nil)
    <2> DEFINE k == VisibleIndex(vs, v)
    <2>1. /\ k \in 0 .. Len(vs)
          /\ k = 0 \/ vs[k].ver <= v
          /\ \A j \in (k + 1) .. Len(vs) : vs[j].ver > v
        BY VisibleIndexSpec
    <2> HIDE DEF k
    <2>2. k <= K
        <3> SUFFICES ASSUME k > K PROVE FALSE BY <1>1, <2>1
        <3>1. k \in (K + 1) .. Len(vs) /\ k \in 1 .. Len(vs) BY <1>1, <2>1
        <3>2. vs[k].ver > t /\ vs[k].ver <= v BY <3>1, <1>1, <2>1
        <3> QED BY <3>1, <3>2, <1>t, <1>5
    <2>3. k \in 0 .. Len(us) BY <2>1, <2>2, <1>1, <1>2
    <2>4. k = 0 \/ us[k].ver <= v BY <2>1, <2>2, <1>1, <1>2
    <2>5. k = Len(us) \/ us[k + 1].ver > v
        <3> SUFFICES ASSUME k # K PROVE us[k + 1].ver > v BY <1>2
        <3>1. k + 1 \in 1 .. K /\ k + 1 \in (k + 1) .. Len(vs)
            BY <2>1, <2>2, <1>1
        <3> QED BY <3>1, <1>2, <2>1
    <2>6. VisibleIndex(us, v) = k
        BY <1>2, <1>3, <2>3, <2>4, <2>5, VisibleIndexUnique
    <2>7. k = 0 \/ us[k].hash = vs[k].hash BY <2>1, <2>2, <1>1, <1>2
    <2> QED BY <2>6, <2>7 DEF HashAt, k
<1>6. NodeRollback(vs, t) = us BY DEF NodeRollback, us, K
<1> QED BY <1>2, <1>3, <1>4, <1>5, <1>6

\* Overwriting the entry just appended is appending the other one.
LEMMA OverwriteLast ==
    ASSUME NEW S, NEW vs \in Seq(S), NEW x \in S, NEW y \in S
    PROVE  [Append(vs, x) EXCEPT ![Len(Append(vs, x))] = y] = Append(vs, y)
<1> DEFINE a == Append(vs, x)
           b == [a EXCEPT ![Len(a)] = y]
           c == Append(vs, y)
<1>1. /\ a \in Seq(S) /\ c \in Seq(S) /\ Len(vs) \in Nat
      /\ Len(a) = Len(vs) + 1 /\ Len(c) = Len(vs) + 1
      /\ \A i \in 1 .. Len(vs) : a[i] = vs[i] /\ c[i] = vs[i]
      /\ c[Len(vs) + 1] = y
    OBVIOUS
<1> HIDE DEF a, c
<1>2. /\ b \in Seq(S) /\ Len(b) = Len(a)
      /\ \A i \in 1 .. Len(a) : b[i] = IF i = Len(a) THEN y ELSE a[i]
    BY <1>1, ExceptSeq
<1>3. \A i \in 1 .. Len(b) : b[i] = c[i] BY <1>1, <1>2
<1> HIDE DEF b
<1>4. b = c BY <1>1, <1>2, <1>3, SeqEqual
<1> QED BY <1>4 DEF a, b, c

\* Appending an entry above all others keeps the list sorted and changes no
\* read below it.
LEMMA AppendKeepsReads ==
    ASSUME NEW H, NEW vs \in Seq(VersionInfo(H)), Sorted(vs),
           NEW info \in VersionInfo(H), NEW nil,
           \A i \in 1 .. Len(vs) : vs[i].ver < info.ver
    PROVE  /\ Sorted(Append(vs, info))
           /\ \A v \in Int : v < info.ver =>
                 HashAt(Append(vs, info), v, nil) = HashAt(vs, v, nil)
<1> DEFINE us == Append(vs, info)
<1>0. Len(vs) \in Nat /\ info.ver \in Nat BY DEF VersionInfo
<1>t. \A j \in 1 .. Len(vs) : vs[j].ver \in Nat BY EntryType
<1>1. /\ us \in Seq(VersionInfo(H))
      /\ Len(us) = Len(vs) + 1
      /\ \A i \in 1 .. Len(vs) : us[i] = vs[i]
      /\ us[Len(vs) + 1] = info
    OBVIOUS
<1> HIDE DEF us
<1>2. Sorted(us)
    <2> SUFFICES ASSUME NEW i \in 1 .. Len(us), NEW j \in 1 .. Len(us), i < j
                 PROVE  us[i].ver < us[j].ver
        BY DEF Sorted
    <2>1. i \in 1 .. Len(vs) BY <1>0, <1>1
    <2>2. CASE j = Len(vs) + 1 BY <2>1, <2>2, <1>1
    <2>3. CASE j # Len(vs) + 1
        <3>1. j \in 1 .. Len(vs) BY <2>3, <1>0, <1>1
        <3> QED BY <2>1, <3>1, <1>1 DEF Sorted
    <2> QED BY <2>2, <2>3
<1>3. ASSUME NEW v \in Int, v < info.ver
      PROVE  HashAt(us, v, nil) = HashAt(vs, v, nil)
    <2> DEFINE k == VisibleIndex(vs, v)
    <2>1. /\ k \in 0 .. Len(vs)
          /\ k = 0 \/ vs[k].ver <= v
          /\ \A j \in (k + 1) .. Len(vs) : vs[j].ver > v
        BY VisibleIndexSpec
    <2> HIDE DEF k
    <2>2. k \in 0 .. Len(us) /\ k # Len(us) BY <2>1, <1>0, <1>1
    <2>3. k = 0 \/ us[k].ver <= v BY <2>1, <1>0, <1>1
    <2>4. us[k + 1].ver > v
        <3>1. CASE k = Len(vs) BY <3>1, <1>0, <1>1, <1>3
        <3>2. CASE k # Len(vs)
            <4>1. k + 1 \in (k + 1) .. Len(vs) /\ k + 1 \in 1 .. Len(vs)
                BY <3>2, <2>1, <1>0
            <4> QED BY <4>1, <2>1, <1>1
        <3> QED BY <3>1, <3>2
    <2>5. VisibleIndex(us, v) = k
        BY <1>1, <1>2, <2>2, <2>3, <2>4, VisibleIndexUnique
    <2>6. k = 0 \/ us[k].hash = vs[k].hash BY <2>1, <1>0, <1>1
    <2> QED BY <2>5, <2>6 DEF HashAt, k
<1> QED BY <1>2, <1>3 DEF us
============================================================================
