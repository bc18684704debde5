---------------------------- MODULE NodeHistory ----------------------------
(***************************************************************************)
(* One TreeNode as the tree API drives it, beside the history a client     *)
(* remembers. The node keeps only the entries Prune leaves it; the history *)
(* keeps the hash the node had in every version. The question: does the    *)
(* list still answer every read from recentVersion up to the latest        *)
(* version like the history, after any sequence of sets, commits with and  *)
(* without pruning, resets and rollbacks?                                  *)
(***************************************************************************)
EXTENDS VersionList

CONSTANTS Hashes,       \* hashes the node can be given
          NilHash,      \* nilHashes.Get(depth), the hash of an untouched node
          InitVersion,  \* InitializeVersion(version)
          MaxVersion    \* bound on version numbers

ASSUME NodeHistoryAssumption ==
    /\ NilHash \in Hashes
    /\ InitVersion \in Nat
    /\ MaxVersion \in Nat

VARIABLES version,        \* tree.version
          recentVersion,  \* tree.recentVersion
          versions,       \* Versions of the node reachable from tree.root
          saved,          \* Versions of the node reachable from tree.lastSaveRoot
          label,          \* version of the pending sets of this node, 0 if none
          history         \* history[v]: the hash the node had in version v

vars == <<version, recentVersion, versions, saved, label, history>>

\* recentVersion == nil in the call of Commit.
NoVersion == -1

Init ==
    /\ version = InitVersion
    /\ recentVersion = 0
    /\ versions = <<>>
    /\ saved = <<>>
    /\ label = 0
    /\ history = [v \in 0 .. InitVersion |-> NilHash]

\* TreeNode.Set of a leaf, or the end of SetChildren of an inner node, as
\* SetWithVersion allows it.
Set(h, newVersion) ==
    /\ newVersion > version
    /\ versions' = NewVersion(versions, Info(newVersion, h))
    /\ label' = newVersion
    /\ UNCHANGED <<version, recentVersion, saved, history>>

\* The version checks of CommitWithNewVersion.
CommitAccepted(recent, newVer) ==
    /\ recent # NoVersion => newVer > recent
    /\ recent = NoVersion => newVer > version

\* What the client remembers of a commit: the node has its new hash from the
\* version of the sets on, and before that, or without a set, the old one.
HistoryAfter(newVer) ==
    [v \in 0 .. newVer |->
        IF v <= version THEN history[v]
        ELSE IF label = 0 \/ v < label THEN history[version]
        ELSE LatestHash(versions, NilHash)]

\* CommitWithNewVersion. The node is pruned and saved only if the journal
\* holds it.
CommitWithNewVersion_StoreNilRecent(recent, newVer) ==
    /\ CommitAccepted(recent, newVer)
    /\ versions' = IF label # 0 /\ recent # NoVersion
                   THEN Prune(versions, recent)
                   ELSE versions
    /\ saved' = versions'
    /\ label' = 0
    /\ version' = newVer
    /\ recentVersion' = recent
    /\ history' = HistoryAfter(newVer)

CommitWithNewVersion(recent, newVer) ==
    /\ CommitAccepted(recent, newVer)
    /\ versions' = IF label # 0 /\ recent # NoVersion
                   THEN Prune(versions, recent)
                   ELSE versions
    /\ saved' = versions'
    /\ label' = 0
    /\ version' = newVer
    /\ recentVersion' = IF recent = NoVersion THEN recentVersion ELSE recent
    /\ history' = HistoryAfter(newVer)

\* Reset
Reset_KeepRoot ==
    /\ label' = 0
    /\ UNCHANGED <<version, recentVersion, versions, saved, history>>

Reset ==
    /\ versions' = saved
    /\ label' = 0
    /\ UNCHANGED <<version, recentVersion, saved, history>>

\* Rollback: Reset, then TreeNode.Rollback in place.
Rollback(target) ==
    /\ recentVersion <= target
    /\ target <= version
    /\ saved' = NodeRollback(saved, target)
    /\ versions' = saved'
    /\ label' = 0
    /\ version' = target
    /\ history' = [v \in 0 .. target |-> history[v]]
    /\ UNCHANGED recentVersion

----------------------------------------------------------------------------
(* The client. The sets of a block carry one version, and the block is     *)
(* committed under that version or a later one (smt_test.go 1087-1088 sets *)
(* at version 1 and commits as version 10); versions and the retained      *)
(* range only move up. CommitWithNewVersion checks none of this when it is *)
(* given a recentVersion.                                                  *)

CallSet(h, newVersion) ==
    /\ label \in {0, newVersion}
    /\ Set(h, newVersion)

CallCommit(recent, newVer) ==
    /\ newVer > version /\ newVer >= label
    /\ recent # NoVersion => recentVersion <= recent
    /\ CommitWithNewVersion(recent, newVer)

Next ==
    \/ \E h \in Hashes, newVersion \in 1 .. MaxVersion : CallSet(h, newVersion)
    \/ \E recent \in NoVersion .. MaxVersion, newVer \in 1 .. MaxVersion :
           CallCommit(recent, newVer)
    \/ Reset
    \/ \E target \in 0 .. version : Rollback(target)

Spec == Init /\ [][Next]_vars

----------------------------------------------------------------------------
TypeOK ==
    /\ version \in Nat
    /\ recentVersion \in Nat
    /\ versions \in Seq(VersionInfo(Hashes))
    /\ saved \in Seq(VersionInfo(Hashes))
    /\ label \in Nat
    /\ history \in [0 .. version -> Hashes]

\* Every read Get allows (recentVersion <= v <= version, smt.go 416-422)
\* finds in the pruned and rolled-back list the hash of that version.
ReadsMatchHistory ==
    \A v \in recentVersion .. version : HashAt(saved, v, NilHash) = history[v]

\* Without pending sets the node shows the hash of the latest version: the
\* root a client reads after Commit, Reset or Rollback is the committed one.
CleanNodeShowsLatest ==
    label = 0 => LatestHash(versions, NilHash) = history[version]

\* The rest of the inductive invariant: the lists are sorted, the saved one
\* ends at or below the latest version, and a pending set adds one entry at
\* the end of (what Prune may later leave of) the saved list.
ListsSorted ==
    /\ Sorted(saved)
    /\ \A i \in 1 .. Len(saved) : saved[i].ver <= version

PendingOnTop ==
    /\ label = 0 => versions = saved
    /\ label # 0 =>
           /\ label > version
           /\ \E h \in Hashes : versions = Append(saved, Info(label, h))

Inv ==
    /\ TypeOK
    /\ recentVersion <= version
    /\ ListsSorted
    /\ PendingOnTop
    /\ ReadsMatchHistory

\* What was readable stays readable with the same hash as long as the tree
\* only moves forward and its version stays in the retained range.
ForwardStable ==
    [][version' >= version =>
          \A v \in recentVersion' .. version :
              HashAt(saved', v, NilHash) = HashAt(saved, v, NilHash)]_vars
============================================================================
