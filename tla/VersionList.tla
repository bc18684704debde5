---------------------------- MODULE VersionList ----------------------------
(***************************************************************************)
(* The Versions list of a TreeNode (src/tree_node.go): every node of the   *)
(* tree carries the hashes it had, each with the version it was set in.    *)
(* Tree nodes, the leaf cache and the records in the database all hold     *)
(* such lists, and every operation of the tree is one of the operators     *)
(* below applied to some of them.                                          *)
(***************************************************************************)
EXTENDS Integers, Sequences

\* VersionInfo: one element of Versions.
VersionInfo(Hashes) == [ver : Nat, hash : Hashes]

Info(v, h) == [ver |-> v, hash |-> h]

\* Lists as the tree builds them: oldest version first, no version twice.
Sorted(vs) == \A i, j \in 1 .. Len(vs) : i < j => vs[i].ver < vs[j].ver

\* TreeNode.latestVersion
LatestVersion(vs) == IF vs = <<>> THEN 0 ELSE vs[Len(vs)].ver

\* TreeNode.Root: the newest hash, or the given nil hash.
LatestHash(vs, nil) == IF vs = <<>> THEN nil ELSE vs[Len(vs)].hash

----------------------------------------------------------------------------
(* TreeNode.newVersion: a second write in one version replaces the first.  *)

NewVersion_AlwaysAppend(vs, info) == Append(vs, info)

NewVersion(vs, info) ==
    IF vs # <<>> /\ vs[Len(vs)].ver = info.ver
    THEN [vs EXCEPT ![Len(vs)] = info]
    ELSE Append(vs, info)

----------------------------------------------------------------------------
(* The loop that walks Versions from the newest entry down to the first    *)
(* one not above version v (0 when there is none), in Get and in Rollback. *)

VisibleIndex(vs, v) ==
    CHOOSE i \in 0 .. Len(vs) :
        /\ i = 0 \/ vs[i].ver <= v
        /\ \A j \in (i + 1) .. Len(vs) : vs[j].ver > v

\* The hash a reader of version v finds in the list.
HashAt(vs, v, nil) ==
    LET i == VisibleIndex(vs, v) IN IF i = 0 THEN nil ELSE vs[i].hash

\* TreeNode.Rollback: the list it leaves ...
NodeRollback_KeepNone(vs, target) == <<>>

NodeRollback(vs, target) == SubSeq(vs, 1, VisibleIndex(vs, target))

\* ... and its first result: whether anything was dropped.
DropsAny(vs, target) == VisibleIndex(vs, target) < Len(vs)

----------------------------------------------------------------------------
(* TreeNode.Prune. PruneIndex is where its loop stops: the first entry not *)
(* below oldest, and the last entry when there is none.                    *)

PruneIndex(vs, oldest) ==
    CHOOSE i \in 1 .. Len(vs) :
        /\ i = Len(vs) \/ vs[i].ver >= oldest
        /\ \A j \in 1 .. (i - 1) : vs[j].ver < oldest

Prune_DropCovering(vs, oldest) ==
    IF Len(vs) <= 1 THEN vs ELSE SubSeq(vs, PruneIndex(vs, oldest), Len(vs))

Prune(vs, oldest) ==
    IF Len(vs) <= 1
    THEN vs
    ELSE LET i == PruneIndex(vs, oldest)
         IN  IF i > 1 /\ vs[i].ver > oldest
             THEN SubSeq(vs, i - 1, Len(vs))
             ELSE SubSeq(vs, i, Len(vs))
============================================================================
