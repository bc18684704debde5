--------------------------- MODULE VersionedTree ---------------------------
(***************************************************************************)
(* What the tree promises its client, without nodes, journal, cache or     *)
(* database: a map from keys to values that is edited, committed as        *)
(* numbered snapshots, and taken back to any retained snapshot.            *)
(***************************************************************************)
EXTENDS Integers

CONSTANTS Keys, Value, Nil, InitVersion, MaxVersion

VARIABLES version,   \* the latest committed version
          recent,    \* the oldest retained version
          snapshot,  \* snapshot[v]: the map as committed in version v
          work,      \* the map with the uncommitted edits
          edited     \* the keys that were set since the last commit

vars == <<version, recent, snapshot, work, edited>>

Init ==
    /\ version = InitVersion
    /\ recent = 0
    /\ snapshot = [v \in 0 .. InitVersion |-> [k \in Keys |-> Nil]]
    /\ work = [k \in Keys |-> Nil]
    /\ edited = {}

\* Set with one item, or MultiSet.
Set(items) ==
    /\ work' = [k \in Keys |-> IF k \in DOMAIN items THEN items[k] ELSE work[k]]
    /\ edited' = edited \cup DOMAIN items
    /\ UNCHANGED <<version, recent, snapshot>>

\* Versions that no commit used read like the one before them.
Commit(newRecent, newVer) ==
    /\ version' = newVer
    /\ recent' = newRecent
    /\ newVer > version
    /\ recent <= newRecent /\ newRecent < newVer
    /\ UNCHANGED work
    /\ edited' = {}
    /\ snapshot' = [v \in newRecent .. newVer |->
                       IF v = newVer THEN work
                       ELSE IF v > version THEN snapshot[version]
                       ELSE snapshot[v]]

\* Reset, and a restart: only uncommitted edits are lost.
Discard ==
    /\ work' = snapshot[version]
    /\ edited' = {}
    /\ UNCHANGED <<version, recent, snapshot>>

Rollback(target) ==
    /\ version' = target
    /\ UNCHANGED recent
    /\ work' = snapshot[target]
    /\ edited' = {}
    /\ snapshot' = [v \in recent .. target |-> snapshot[v]]

\* A rollback whose write fails: the edits are gone, the snapshots are not.
FailedRollback(target) ==
    /\ work' = snapshot[target]
    /\ edited' = {}
    /\ UNCHANGED <<version, recent, snapshot>>

Next ==
    \/ \E S \in (SUBSET Keys) \ {{}} : \E items \in [S -> Value] : Set(items)
    \/ \E newRecent, newVer \in 0 .. MaxVersion : Commit(newRecent, newVer)
    \/ Discard
    \/ \E target \in recent .. version : Rollback(target) \/ FailedRollback(target)

Spec == Init /\ [][Next]_vars
============================================================================
