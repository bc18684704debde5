---------------------------- MODULE RecordStore ----------------------------
(***************************************************************************)
(* What a tree may assume of its database (TreeDB and Batcher,             *)
(* src/database/database.go): the records of a commit reach the store one  *)
(* by one or together, in any order, and are all there before the number   *)
(* of the new version is; recentVersionNumber follows it. A record is      *)
(* named by the number of the commit that wrote it, 0 if it is not there.  *)
(***************************************************************************)
EXTENDS Naturals

CONSTANT RecordKeys

VARIABLES record,    \* the records of the tree's nodes
          latest,    \* the record under latestVersionKey
          recent,    \* the record under recentVersionNumberKey
          volatile   \* the store does not outlive the process

vars == <<record, latest, recent, volatile>>

Empty ==
    /\ record = [k \in RecordKeys |-> 0]
    /\ latest = 0
    /\ recent = 0

Init == Empty /\ volatile \in BOOLEAN

\* A part of the next commit, or all of it but the version.
WriteRecords(S) ==
    /\ record' = [k \in RecordKeys |-> IF k \in S THEN latest + 1 ELSE record[k]]
    /\ UNCHANGED <<latest, recent, volatile>>

WriteVersion ==
    /\ record' = [k \in RecordKeys |-> latest + 1]
    /\ latest' = latest + 1
    /\ recent' \in {recent, latest'}
    /\ UNCHANGED volatile

WriteRecent ==
    /\ recent' = latest
    /\ UNCHANGED <<record, latest, volatile>>

Lose == volatile /\ Empty' /\ UNCHANGED volatile

Next == (\E S \in SUBSET RecordKeys : WriteRecords(S)) \/ WriteVersion \/ WriteRecent \/ Lose

Spec == Init /\ [][Next]_vars
============================================================================
