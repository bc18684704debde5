------------------------------ MODULE TreeSize ------------------------------
(***************************************************************************)
(* The size BNBSparseMerkleTree keeps of its nodes in memory (rootSize,    *)
(* src/smt.go) and the garbage collection it decides on (gcStatus). Every  *)
(* operation of SMT is taken with what it does to these; the version a     *)
(* commit releases, arbitrary in SMT, is the one gcStatus.pop answers, and *)
(* the nodes of a commit are pruned in any order.                          *)
(*                                                                         *)
(* Sizes are unsigned: the code's 64 bits are Width here.                  *)
(***************************************************************************)
EXTENDS SMT, FiniteSetsExt

CONSTANTS Threshold,        \* GCThreshold(threshold)
          Width,            \* the number of values of a size
          MaxDisturbances   \* bound on the calls that leave the size inexact

\* segment is threshold / 10, and add divides by it.
ASSUME TreeSizeAssumption ==
    /\ Threshold \in Nat /\ Threshold >= 10
    /\ Width \in Nat /\ Width > Threshold
    /\ MaxDisturbances \in Nat

VARIABLES rootSize,          \* tree.rootSize
          lastSaveRootSize,  \* tree.lastSaveRootSize
          gcStatus,          \* tree.gcStatus
          disturbed          \* how many calls loaded, dropped or pruned nodes unseen

sizeVars == <<rootSize, lastSaveRootSize, gcStatus, disturbed>>

allVars == <<vars, sizeVars>>

----------------------------------------------------------------------------
(* Sizes of nodes.                                                         *)

versionSize == 40

\* hashSize * len(Internals)
internalsSize == 32 * 14

\* TreeNode.Size
Size(node) ==
    Len(node.versions) * versionSize + (IF Resident(node) THEN internalsSize ELSE 0)

\* TreeNode.PreviousVersion
PreviousVersion(vs) == IF Len(vs) <= 1 THEN 0 ELSE vs[Len(vs) - 1].ver

\* What TreeNode.Release returns: the size of every node it leaves.
SizeOfTree(t) ==
    SumFunction([n \in {m \in Nodes : t[m].state # "nil"} |-> Size(t[n])]) % Width

----------------------------------------------------------------------------
(* gcStatus: for each tenth of the threshold the last commit whose tree    *)
(* had that size.                                                          *)

Classes == 0 .. 9

Segment == Threshold \div 10

EmptyStatus ==
    [sizes |-> [i \in Classes |-> 0], versions |-> [i \in Classes |-> 0],
     latestGCVersion |-> 0]

add(stat, v, size) ==
    LET i == Min({size \div Segment, 9})
    IN  IF v = 0 \/ size = 0 THEN stat
        ELSE [stat EXCEPT !.sizes[i] = size, !.versions[i] = v]

clean_SizesOnly(stat, index) ==
    [stat EXCEPT !.sizes = [i \in Classes |-> IF i <= index THEN 0 ELSE @[i]]]

clean(stat, index) ==
    [stat EXCEPT !.sizes = [i \in Classes |-> IF i <= index THEN 0 ELSE @[i]],
                 !.versions = [i \in Classes |-> IF i <= index THEN 0 ELSE @[i]]]

\* The classes whose release is expected to bring the tree below Threshold.
Enough(stat, size) == {i \in Classes : (size - stat.sizes[i]) % Width < Threshold}

Recorded(stat) == {i \in Classes : stat.sizes[i] > 0}

\* The class pop answers with: the least that is enough, else the greatest.
Chosen_Least(stat, size) ==
    IF size < Threshold \/ Enough(stat, size) = {} THEN {}
    ELSE {Min(Enough(stat, size))}

Chosen(stat, size) ==
    IF size < Threshold \/ Recorded(stat) = {} THEN {}
    ELSE IF Enough(stat, size) # {} THEN {Min(Enough(stat, size))}
    ELSE {Max(Recorded(stat))}

\* pop: the version to release, 0 for none, and the status it leaves.
ReleaseVersion(stat, size) ==
    IF Chosen(stat, size) = {} THEN 0 ELSE stat.versions[Max(Chosen(stat, size))]

StatusAfterPop(stat, size) ==
    IF size < Threshold THEN stat
    ELSE [clean(stat, IF Enough(stat, size) = {} THEN 9 ELSE Min(Enough(stat, size)))
            EXCEPT !.latestGCVersion = ReleaseVersion(stat, size)]

----------------------------------------------------------------------------
SizedInit ==
    /\ Init
    /\ rootSize = 0
    /\ lastSaveRootSize = 0
    /\ gcStatus = EmptyStatus
    /\ disturbed = 0

Disturb ==
    /\ disturbed < MaxDisturbances
    /\ disturbed' = disturbed + 1

\* Set and MultiSet leave the size to the next commit.
SizedSet(k, val, v) ==
    /\ CallSet(k, val, v)
    /\ UNCHANGED sizeVars

SizedMultiSet(items, v) ==
    /\ CallMultiSet(items, v)
    /\ UNCHANGED sizeVars

SizedGetProof(k) ==
    /\ CallGetProof(k)
    /\ IF root' = root THEN UNCHANGED disturbed ELSE Disturb
    /\ UNCHANGED <<rootSize, lastSaveRootSize, gcStatus>>

\* What writeNode returns for a node that Prune leaves with kept entries.
Changed_IgnorePrune(n, kept) ==
    IF PreviousVersion(root[n].versions) > gcStatus.latestGCVersion
    THEN versionSize ELSE Size(root[n])

Changed(n, kept) ==
    (IF PreviousVersion(root[n].versions) > gcStatus.latestGCVersion
     THEN versionSize ELSE Size(root[n]))
    - versionSize * (Len(root[n].versions) - kept)

SizedCommit(recent, v, late) ==
    LET t == Pruned(recent, journal)
        size == SumFunction([n \in journal |-> Changed(n, Len(t[n].versions))])
        currentSize == (rootSize + size) % Width
        release == ReleaseVersion(gcStatus, currentSize)
    IN  /\ CallCommit(recent, v, release, late)
        /\ rootSize' = IF release > 0 THEN SizeOfTree(root') ELSE currentSize
        /\ gcStatus' = add(StatusAfterPop(gcStatus, currentSize), v, rootSize')
        /\ lastSaveRootSize' = rootSize
        /\ UNCHANGED disturbed

\* The size of what the failed call pruned is lost with the call.
SizedCommitFails(recent, v) ==
    /\ CallCommitFails(recent, v, journal, {}, {})
    /\ IF root' = root THEN UNCHANGED disturbed ELSE Disturb
    /\ UNCHANGED <<rootSize, lastSaveRootSize, gcStatus>>

SizedReset ==
    /\ CallReset
    /\ rootSize' = lastSaveRootSize
    /\ Disturb
    /\ UNCHANGED <<lastSaveRootSize, gcStatus>>

\* Rollback calls Reset first.
SizedRollback(target) ==
    LET dropped == [n \in Dropping(target) |->
                       Len(LoadedVersions(n)) - Len(NodeRollback(LoadedVersions(n), target))]
        changed == versionSize * SumFunction(dropped)
    IN  /\ CallRollback(target)
        /\ rootSize' = (lastSaveRootSize - changed) % Width
        /\ Disturb
        /\ UNCHANGED <<lastSaveRootSize, gcStatus>>

SizedRollbackFails(target) ==
    /\ CallRollbackFails(target, {})
    /\ rootSize' = lastSaveRootSize
    /\ Disturb
    /\ UNCHANGED <<lastSaveRootSize, gcStatus>>

\* initFromStorage counts the root and the versions of its children. Nothing
\* drifts from one restart to the next: they are not bounded.
SizedReopen ==
    /\ Reopen
    /\ rootSize' = IF dbVersion = NoVersion \/ ~db[RootNode].found THEN 0
                   ELSE SizeOfTree(root')
    /\ lastSaveRootSize' = 0
    /\ gcStatus' = EmptyStatus
    /\ disturbed' = Max({disturbed, 1})

\* (Get changes neither the tree nor its size, and a size does not depend on
\* values: neither Get nor deletions are among the calls here. A call that
\* fails leaves the same sizes whether or not the database has stored its
\* batch: the calls here that fail are those of which nothing was stored.)
SizedNext ==
    \/ \E k \in Keys, val \in Vals, v \in Bounded : SizedSet(k, val, v)
    \/ \E S \in (SUBSET Keys) \ {{}}, v \in Bounded : \E items \in [S -> Vals] :
           SizedMultiSet(items, v)
    \/ \E k \in Keys : SizedGetProof(k)
    \/ \E recent \in NoVersion .. MaxVersion : \E late \in SUBSET Shortened(recent) :
       \E v \in Bounded : SizedCommit(recent, v, late)
    \/ \E recent \in NoVersion .. MaxVersion, v \in Bounded : SizedCommitFails(recent, v)
    \/ SizedReset
    \/ \E target \in 0 .. MaxVersion : SizedRollback(target) \/ SizedRollbackFails(target)
    \/ SizedReopen

SizedSpec == SizedInit /\ [][SizedNext]_allVars

----------------------------------------------------------------------------
\* Sizes fit the width, and each class of gcStatus holds a size of that class
\* with the version that had it.
SizeTypeOK ==
    /\ rootSize \in 0 .. (Width - 1) /\ lastSaveRootSize \in 0 .. (Width - 1)
    /\ gcStatus.latestGCVersion \in 0 .. MaxVersion
    /\ \A i \in Classes :
           /\ gcStatus.versions[i] \in 0 .. MaxVersion
           /\ gcStatus.sizes[i] > 0 <=> gcStatus.versions[i] > 0
           /\ gcStatus.sizes[i] > 0 => Min({gcStatus.sizes[i] \div Segment, 9}) = i

\* As long as nodes come into memory by being set, the size is that of the
\* nodes in memory, though writeNode adds up unsigned differences of which
\* some are negative (smt.go 764-776) and guesses from a node's previous
\* version whether it was counted before.
AccountingIsExact ==
    /\ disturbed = 0 /\ gcStatus.latestGCVersion = 0
    /\ journal = {} /\ root[RootNode].versions # <<>>
    => rootSize = SizeOfTree(root)

\* A size that has drifted or wrapped around (Reset and Rollback start from
\* the size before the last commit) is put right as soon as it reaches the
\* threshold: of two commits in one process the second either leaves a size
\* below the threshold or has collected and counted the nodes in memory.
LargeTreeIsRecounted ==
    [][version' > version /\ Recorded(gcStatus) # {} /\ rootSize' >= Threshold
        => rootSize' = SizeOfTree(root')]_allVars
============================================================================
