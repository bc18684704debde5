------------------------- MODULE NodeHistoryProofs -------------------------
(***************************************************************************)
(* The retained list of a tree node answers like the full history, for any *)
(* set of hashes, any version bound and any sequence of operations.        *)
(* Inv is inductive: ReadsMatchHistory alone is not, because a list that   *)
(* is not sorted, or a pending entry that is not on top of the saved list, *)
(* would be pruned or rolled back to a wrong one by the next step.         *)
(***************************************************************************)
EXTENDS NodeHistory, VersionListProofs

\* Facts about the pending list that every step needs: sorted, and equal to
\* the saved one for every reader of a committed version.
LEMMA PendingFacts ==
    ASSUME Inv
    PROVE  /\ Sorted(versions)
           /\ \A v \in Int : v <= version =>
                 HashAt(versions, v, NilHash) = HashAt(saved, v, NilHash)
           /\ \A i \in 1 .. Len(versions) :
                 versions[i].ver <= (IF label = 0 THEN version ELSE label)
<1> USE DEF Inv, TypeOK
<1>1. CASE label = 0 BY <1>1 DEF PendingOnTop, ListsSorted
<1>2. CASE label # 0
    <2>1. PICK h \in Hashes : versions = Append(saved, Info(label, h))
        BY <1>2 DEF PendingOnTop
    <2> DEFINE info == Info(label, h)
    <2>2. info \in VersionInfo(Hashes) /\ info.ver = label
        BY DEF Info, VersionInfo
    <2>3. label > version BY <1>2 DEF PendingOnTop
    <2>4. \A i \in 1 .. Len(saved) : saved[i].ver < info.ver
        BY <2>2, <2>3, EntryType DEF ListsSorted
    <2> HIDE DEF info
    <2>5. versions = Append(saved, info) BY <2>1 DEF info
    <2>6. /\ Sorted(versions)
          /\ \A v \in Int : v < info.ver =>
                HashAt(versions, v, NilHash) = HashAt(saved, v, NilHash)
        BY <2>2, <2>4, <2>5, AppendKeepsReads DEF ListsSorted
    <2>7. ASSUME NEW i \in 1 .. Len(versions) PROVE versions[i].ver <= label
        <3>1. Len(versions) = Len(saved) + 1 /\ Len(saved) \in Nat BY <2>5
        <3>2. CASE i = Len(saved) + 1
            <4>1. versions[i] = info BY <3>2, <2>5
            <4> QED BY <4>1, <2>2
        <3>3. CASE i # Len(saved) + 1
            <4>1. i \in 1 .. Len(saved) BY <3>1, <3>3
            <4>2. versions[i] = saved[i] BY <4>1, <2>5
            <4> QED BY <4>1, <4>2, <2>2, <2>4, EntryType
        <3> QED BY <3>2, <3>3
    <2> QED BY <2>2, <2>3, <2>6, <2>7, <1>2
<1> QED BY <1>1, <1>2

\* A new node: both lists empty, every version reads the nil hash.
LEMMA InitInv == Init => Inv
<1> SUFFICES ASSUME Init PROVE Inv OBVIOUS
<1> USE NodeHistoryAssumption DEF Init
<1>1. TypeOK BY DEF TypeOK
<1>2. ListsSorted /\ PendingOnTop BY DEF ListsSorted, PendingOnTop, Sorted
<1>3. ReadsMatchHistory
    <2> SUFFICES ASSUME NEW v \in recentVersion .. version
                 PROVE  HashAt(saved, v, NilHash) = history[v]
        BY DEF ReadsMatchHistory
    <2>1. VisibleIndex(saved, v) \in 0 .. Len(saved)
        BY VisibleIndexSpec, saved \in Seq(VersionInfo(Hashes)), v \in Int
    <2>2. VisibleIndex(saved, v) = 0 BY <2>1
    <2> QED BY <2>2 DEF HashAt
<1> QED BY <1>1, <1>2, <1>3 DEF Inv

\* A set replaces or adds the entry of its own version and touches no other.
LEMMA SetInv ==
    ASSUME Inv, NEW h \in Hashes, NEW newVersion \in 1 .. MaxVersion,
           CallSet(h, newVersion)
    PROVE  Inv'
<1> USE NodeHistoryAssumption DEF CallSet, Set
<1> DEFINE info == Info(newVersion, h)
<1>1. info \in VersionInfo(Hashes) /\ newVersion \in Nat /\ info.ver = newVersion
    BY DEF Info, VersionInfo
<1>2. versions' \in Seq(VersionInfo(Hashes))
    BY <1>1, NewVersionType DEF Inv, TypeOK
<1>3. TypeOK' BY <1>1, <1>2 DEF Inv, TypeOK
<1>4. versions' = Append(saved, info)
    <2>1. saved \in Seq(VersionInfo(Hashes)) BY DEF Inv, TypeOK
    <2>2. CASE label = 0
        <3>1. versions = saved BY <2>2 DEF Inv, PendingOnTop
        <3>2. saved = <<>> \/ saved[Len(saved)].ver # newVersion
            <4> SUFFICES ASSUME saved # <<>> PROVE saved[Len(saved)].ver # newVersion
                OBVIOUS
            <4>1. Len(saved) \in 1 .. Len(saved) BY <2>1
            <4>2. saved[Len(saved)].ver <= version /\ saved[Len(saved)].ver \in Nat
                BY <4>1, <2>1, EntryType DEF Inv, ListsSorted
            <4> QED BY <4>2, <1>1 DEF Inv, TypeOK
        <3> QED BY <3>1, <3>2, <1>1 DEF NewVersion
    <2>3. CASE label = newVersion
        <3>1. PICK g \in Hashes : versions = Append(saved, Info(label, g))
            BY <2>3, <1>1 DEF Inv, PendingOnTop
        <3>2. /\ Len(versions) = Len(saved) + 1
              /\ versions # <<>>
              /\ versions[Len(versions)] = Info(label, g)
            BY <3>1, <2>1
        <3>3. versions' = [versions EXCEPT ![Len(versions)] = info]
            BY <3>2, <2>3, <1>1 DEF NewVersion, Info
        <3>4. Info(label, g) \in VersionInfo(Hashes)
            BY DEF Info, VersionInfo, Inv, TypeOK
        <3> HIDE DEF info
        <3>5. [Append(saved, Info(label, g)) EXCEPT
                  ![Len(Append(saved, Info(label, g)))] = info]
                  = Append(saved, info)
            BY <3>4, <2>1, <1>1, OverwriteLast
        <3> QED BY <3>1, <3>3, <3>5
    <2> QED BY <2>2, <2>3
<1>5. PendingOnTop' BY <1>1, <1>4 DEF PendingOnTop, Inv, TypeOK
<1>6. ListsSorted' /\ ReadsMatchHistory' /\ (recentVersion <= version)'
    BY DEF Inv, ListsSorted, ReadsMatchHistory
<1> QED BY <1>3, <1>5, <1>6 DEF Inv

\* A commit moves the pending entry into the saved list, prunes behind the
\* new recentVersion and extends the history to the new version.
LEMMA CommitInv ==
    ASSUME Inv,
           NEW recent \in NoVersion .. MaxVersion, NEW newVer \in 1 .. MaxVersion,
           CallCommit(recent, newVer)
    PROVE  /\ Inv'
           /\ \A v \in recentVersion' .. version :
                 HashAt(saved', v, NilHash) = HashAt(saved, v, NilHash)
<1> USE NodeHistoryAssumption DEF CallCommit, CommitWithNewVersion, CommitAccepted, NoVersion
<1>0. /\ newVer \in Nat /\ recent \in Int /\ version \in Nat
      /\ recentVersion \in Nat /\ recentVersion <= version /\ label \in Nat
      /\ versions \in Seq(VersionInfo(Hashes))
    BY DEF Inv, TypeOK
<1>1. /\ Sorted(versions)
      /\ \A v \in Int : v <= version =>
            HashAt(versions, v, NilHash) = HashAt(saved, v, NilHash)
      /\ \A i \in 1 .. Len(versions) : versions[i].ver <= newVer
    <2>1. \A i \in 1 .. Len(versions) : versions[i].ver \in Nat BY <1>0, EntryType
    <2> QED BY <1>0, <2>1, PendingFacts
<1>2. /\ saved' = versions'
      /\ saved' \in Seq(VersionInfo(Hashes))
      /\ Sorted(saved')
      /\ LatestHash(saved', NilHash) = LatestHash(versions, NilHash)
      /\ \A i \in 1 .. Len(saved') : saved'[i].ver <= newVer
      /\ \A v \in Int : v >= recentVersion' =>
            HashAt(saved', v, NilHash) = HashAt(versions, v, NilHash)
    <2>1. CASE label # 0 /\ recent # NoVersion
        <3>1. versions' = Prune(versions, recent) /\ saved' = versions' BY <2>1
        <3>2. recentVersion' = recent BY <2>1
        <3>3. saved' \in Seq(VersionInfo(Hashes)) BY <1>0, <3>1, PruneType
        <3>4. ASSUME NEW v \in Int, v >= recent
              PROVE  HashAt(saved', v, NilHash) = HashAt(versions, v, NilHash)
            <4>1. recent <= v BY <3>4, <1>0
            <4>2. HashAt(Prune(versions, recent), v, NilHash)
                      = HashAt(versions, v, NilHash)
                BY <1>0, <1>1, <4>1, PruneKeepsReads
            <4> QED BY <4>2, <3>1
        <3>5. /\ Sorted(saved')
              /\ LatestHash(saved', NilHash) = LatestHash(versions, NilHash)
              /\ \A i \in 1 .. Len(saved') :
                    \E j \in 1 .. Len(versions) : saved'[i] = versions[j]
            <4>1. /\ Sorted(Prune(versions, recent))
                  /\ LatestHash(Prune(versions, recent), NilHash)
                        = LatestHash(versions, NilHash)
                  /\ \A i \in 1 .. Len(Prune(versions, recent)) :
                        \E j \in 1 .. Len(versions) :
                            Prune(versions, recent)[i] = versions[j]
                BY <1>0, <1>1, PruneKeepsOrder
            <4> QED BY <4>1, <3>1
        <3> QED BY <3>1, <3>2, <3>3, <3>4, <3>5, <1>1
    <2>2. CASE ~(label # 0 /\ recent # NoVersion)
        <3>1. versions' = versions /\ saved' = versions BY <2>2
        <3> QED BY <3>1, <1>0, <1>1
    <2> QED BY <2>1, <2>2
<1>3. /\ recentVersion' \in Nat
      /\ recentVersion <= recentVersion'
      /\ recentVersion' <= newVer
      /\ version' = newVer
    BY <1>0
<1>4. \A v \in recentVersion' .. version :
          HashAt(saved', v, NilHash) = HashAt(saved, v, NilHash)
    BY <1>0, <1>1, <1>2, <1>3
<1>5. LatestHash(versions, NilHash) \in Hashes
    <2>1. CASE versions = <<>> BY <2>1 DEF LatestHash
    <2>2. CASE versions # <<>>
        <3>1. Len(versions) \in 1 .. Len(versions) BY <1>0, <2>2
        <3> QED BY <3>1, <2>2, <1>0, EntryType DEF LatestHash
    <2> QED BY <2>1, <2>2
<1>6. TypeOK'
    <2>1. history' \in [0 .. newVer -> Hashes] BY <1>0, <1>5 DEF Inv, TypeOK, HistoryAfter
    <2> QED BY <2>1, <1>0, <1>2, <1>3 DEF TypeOK
<1>7. ListsSorted' BY <1>2, <1>3 DEF ListsSorted
<1>8. PendingOnTop' BY <1>2 DEF PendingOnTop
<1>9. ReadsMatchHistory'
    <2> SUFFICES ASSUME NEW v \in recentVersion' .. newVer
                 PROVE  HashAt(saved', v, NilHash) = history'[v]
        BY <1>3 DEF ReadsMatchHistory
    <2>0. v \in Nat /\ v \in 0 .. newVer BY <1>0, <1>3
    <2>1. CASE v > version /\ label # 0 /\ v >= label
        <3>1. history'[v] = LatestHash(versions, NilHash) BY <2>0, <2>1, <1>0 DEF HistoryAfter
        <3>2. \A i \in 1 .. Len(versions) : versions[i].ver <= v
            <4>1. \A i \in 1 .. Len(versions) : versions[i].ver \in Nat /\ versions[i].ver <= label
                BY <1>0, <2>1, EntryType, PendingFacts
            <4> QED BY <1>0, <2>0, <2>1, <4>1
        <3>3. HashAt(versions, v, NilHash) = LatestHash(versions, NilHash)
            BY <1>0, <2>0, <3>2, LatestIsVisible, <1>1
        <3> QED BY <3>1, <3>3, <1>2, <2>0
    <2>2. CASE v > version /\ (label = 0 \/ v < label)
        <3>1. history'[v] = history[version] BY <2>0, <2>2, <1>0 DEF HistoryAfter
        <3>2. HashAt(versions, v, NilHash) = HashAt(saved, version, NilHash)
            <4> DEFINE k == VisibleIndex(versions, version)
            <4>1. /\ k \in 0 .. Len(versions)
                  /\ k = 0 \/ versions[k].ver <= version
                  /\ \A j \in (k + 1) .. Len(versions) : versions[j].ver > version
                BY <1>0, VisibleIndexSpec
            <4> HIDE DEF k
            <4>2. k = 0 \/ versions[k].ver <= v
                BY <4>1, <1>0, <2>0, <2>2, EntryType
            <4>3. k = Len(versions) \/ versions[k + 1].ver > v
                <5> SUFFICES ASSUME k # Len(versions) PROVE versions[k + 1].ver > v
                    OBVIOUS
                <5>1. k + 1 \in 1 .. Len(versions) /\ k + 1 \in (k + 1) .. Len(versions)
                    BY <4>1, <1>0
                <5>2. versions[k + 1].ver > version BY <4>1, <5>1
                <5>3. versions[k + 1].ver > v
                    <6>1. CASE label = 0
                        <7>1. versions[k + 1].ver <= version
                            BY <6>1, <5>1 DEF Inv, PendingOnTop, ListsSorted
                        <7> QED BY <7>1, <5>1, <5>2, <1>0, EntryType
                    <6>2. CASE label # 0
                        <7>1. PICK h \in Hashes : versions = Append(saved, Info(label, h))
                            BY <6>2, <1>0 DEF Inv, PendingOnTop
                        <7>2. saved \in Seq(VersionInfo(Hashes)) BY DEF Inv, TypeOK
                        <7>3. CASE k + 1 \in 1 .. Len(saved)
                            <8>1. versions[k + 1] = saved[k + 1] BY <7>1, <7>2, <7>3
                            <8>2. saved[k + 1].ver <= version /\ saved[k + 1].ver \in Nat
                                BY <7>2, <7>3, EntryType DEF Inv, ListsSorted
                            <8> QED BY <8>1, <8>2, <5>2, <1>0
                        <7>4. CASE ~(k + 1 \in 1 .. Len(saved))
                            <8>1. k + 1 = Len(saved) + 1 BY <7>1, <7>2, <7>4, <5>1
                            <8>2. versions[k + 1] = Info(label, h) BY <8>1, <7>1, <7>2
                            <8> QED BY <8>2, <6>2, <2>2, <1>0 DEF Info
                        <7> QED BY <7>3, <7>4
                    <6> QED BY <6>1, <6>2
                <5> QED BY <5>3
            <4>4. VisibleIndex(versions, v) = k
                BY <1>0, <1>1, <2>0, <4>1, <4>2, <4>3, VisibleIndexUnique
            <4>5. HashAt(versions, v, NilHash) = HashAt(versions, version, NilHash)
                BY <4>4 DEF HashAt, k
            <4> QED BY <4>5, <1>0, <1>1
        <3>3. HashAt(saved, version, NilHash) = history[version]
            BY <1>0 DEF Inv, ReadsMatchHistory
        <3> QED BY <3>1, <3>2, <3>3, <1>2, <2>0
    <2>3. CASE v <= version
        <3>1. history'[v] = history[v] BY <2>0, <2>3, <1>0 DEF HistoryAfter
        <3>2. HashAt(saved', v, NilHash) = HashAt(saved, v, NilHash)
            BY <1>4, <2>3, <1>0
        <3>3. HashAt(saved, v, NilHash) = history[v]
            <4>1. v \in recentVersion .. version BY <1>0, <1>3, <2>3
            <4> QED BY <4>1 DEF Inv, ReadsMatchHistory
        <3> QED BY <3>1, <3>2, <3>3
    <2> QED BY <2>0, <2>1, <2>2, <2>3, <1>0
<1> QED BY <1>3, <1>4, <1>6, <1>7, <1>8, <1>9 DEF Inv

\* Reset takes the saved list back.
LEMMA ResetInv == Inv /\ Reset => Inv'
BY DEF Inv, TypeOK, Reset, ListsSorted, PendingOnTop, ReadsMatchHistory

\* Rollback cuts the list and the history at the same version.
LEMMA RollbackInv ==
    ASSUME Inv, NEW target \in 0 .. version, Rollback(target)
    PROVE  Inv' /\ (version' >= version => saved' = saved)
<1> USE DEF Rollback
<1>0. /\ target \in Nat /\ version \in Nat /\ recentVersion \in Nat
      /\ saved \in Seq(VersionInfo(Hashes)) /\ Sorted(saved)
    BY DEF Inv, TypeOK, ListsSorted
<1>1. saved' \in Seq(VersionInfo(Hashes)) BY <1>0, NodeRollbackType
<1>2. /\ Sorted(saved')
      /\ \A i \in 1 .. Len(saved') : saved'[i].ver <= target
      /\ \A v \in Int : v <= target =>
            HashAt(saved', v, NilHash) = HashAt(saved, v, NilHash)
    BY <1>0, RollbackKeepsReads
<1>3. TypeOK'
    <2>1. history' \in [0 .. target -> Hashes] BY <1>0 DEF Inv, TypeOK
    <2> QED BY <2>1, <1>0, <1>1 DEF TypeOK
<1>4. ListsSorted' /\ PendingOnTop' BY <1>2 DEF ListsSorted, PendingOnTop
<1>5. ReadsMatchHistory'
    <2> SUFFICES ASSUME NEW v \in recentVersion .. target
                 PROVE  HashAt(saved', v, NilHash) = history'[v]
        BY DEF ReadsMatchHistory
    <2>1. v \in 0 .. target /\ v \in recentVersion .. version BY <1>0
    <2>2. HashAt(saved, v, NilHash) = history[v]
        BY <2>1 DEF Inv, ReadsMatchHistory
    <2> QED BY <2>1, <2>2, <1>0, <1>2
<1>6. ASSUME version' >= version PROVE saved' = saved
    <2>1. target = version BY <1>0, <1>6
    <2>2. VisibleIndex(saved, target) = Len(saved)
        <3>1. /\ Len(saved) \in 0 .. Len(saved)
              /\ Len(saved) = 0 \/ saved[Len(saved)].ver <= target
            BY <1>0, <2>1 DEF Inv, ListsSorted
        <3> QED BY <3>1, <1>0, VisibleIndexUnique
    <2> QED BY <2>2, <1>0 DEF NodeRollback
<1> QED BY <1>0, <1>3, <1>4, <1>5, <1>6 DEF Inv

\* Every step of the tree API preserves the invariant.
LEMMA NextInv == Inv /\ [Next]_vars => Inv'
<1> SUFFICES ASSUME Inv, [Next]_vars PROVE Inv' OBVIOUS
<1>1. CASE \E h \in Hashes, newVersion \in 1 .. MaxVersion : CallSet(h, newVersion)
    BY <1>1, SetInv
<1>2. CASE \E recent \in NoVersion .. MaxVersion, newVer \in 1 .. MaxVersion :
               CallCommit(recent, newVer)
    BY <1>2, CommitInv
<1>3. CASE Reset BY <1>3, ResetInv
<1>4. CASE \E target \in 0 .. version : Rollback(target) BY <1>4, RollbackInv
<1>5. CASE UNCHANGED vars
    BY <1>5 DEF Inv, vars, TypeOK, ListsSorted, PendingOnTop, ReadsMatchHistory
<1> QED BY <1>1, <1>2, <1>3, <1>4, <1>5 DEF Next

\* Inv holds in every reachable state: the retained lists stay sorted, a
\* pending entry sits on top of the saved list, and reads match the history.
THEOREM InvHolds == Spec => []Inv
<1>1. Init => Inv BY InitInv
<1>2. Inv /\ [Next]_vars => Inv' BY NextInv
<1> QED BY <1>1, <1>2, PTL DEF Spec

\* The version lists of a node and the versions they are read against keep
\* their types, for any number of entries and versions.
THEOREM TypeCorrect == Spec => []TypeOK
<1>1. Inv => TypeOK BY DEF Inv
<1> QED BY <1>1, InvHolds, PTL

\* Every read Get allows returns the hash of its version, whatever was
\* pruned or rolled back.
THEOREM ReadsMatch == Spec => []ReadsMatchHistory
<1>1. Inv => ReadsMatchHistory BY DEF Inv
<1> QED BY <1>1, InvHolds, PTL

\* A node with nothing pending shows the hash of the latest version.
THEOREM CleanShowsLatest == Spec => []CleanNodeShowsLatest
<1>1. Inv => CleanNodeShowsLatest
    <2> SUFFICES ASSUME Inv, label = 0
                 PROVE  LatestHash(versions, NilHash) = history[version]
        BY DEF CleanNodeShowsLatest
    <2>0. /\ saved \in Seq(VersionInfo(Hashes)) /\ version \in Nat
          /\ recentVersion \in Nat
        BY DEF Inv, TypeOK
    <2>1. versions = saved BY DEF Inv, PendingOnTop
    <2>2. HashAt(saved, version, NilHash) = LatestHash(saved, NilHash)
        BY <2>0, LatestIsVisible DEF Inv, ListsSorted
    <2>3. version \in recentVersion .. version BY <2>0 DEF Inv
    <2> QED BY <2>1, <2>2, <2>3 DEF Inv, ReadsMatchHistory
<1> QED BY <1>1, InvHolds, PTL

\* No forward step changes what a still readable version answers.
THEOREM ForwardStableHolds == Spec => ForwardStable
<1> DEFINE Stable == version' >= version =>
                        \A v \in recentVersion' .. version :
                            HashAt(saved', v, NilHash) = HashAt(saved, v, NilHash)
<1>1. Inv /\ [Next]_vars => [Stable]_vars
    <2> SUFFICES ASSUME Inv, Next PROVE Stable OBVIOUS
    <2>1. CASE \E h \in Hashes, newVersion \in 1 .. MaxVersion : CallSet(h, newVersion)
        BY <2>1 DEF CallSet, Set
    <2>2. CASE \E recent \in NoVersion .. MaxVersion, newVer \in 1 .. MaxVersion :
                   CallCommit(recent, newVer)
        BY <2>2, CommitInv
    <2>3. CASE Reset BY <2>3 DEF Reset
    <2>4. CASE \E target \in 0 .. version : Rollback(target)
        BY <2>4, RollbackInv
    <2> QED BY <2>1, <2>2, <2>3, <2>4 DEF Next
<1> QED BY <1>1, InvHolds, PTL DEF Spec, ForwardStable
============================================================================
