------------------------------ MODULE Database ------------------------------
(***************************************************************************)
(* The databases a tree can be built on (src/database/memory, leveldb,     *)
(* redis) and how Commit and Rollback use a batch of theirs                *)
(* (src/smt.go): several handles, told apart by a namespace, share one     *)
(* leveldb or one redis server; a memory database has one handle. The      *)
(* memory and leveldb batches are written as a whole; a redis batch is a   *)
(* pipeline, whose commands the server executes one by one and which the   *)
(* client resends from the start when the connection breaks.               *)
(*                                                                         *)
(* A key is the sequence of the fields that bytes.Join puts together: all  *)
(* fields a tree writes have a fixed length, so keys are equal as bytes    *)
(* exactly if they are equal as sequences of fields. A value is the number *)
(* of the commit that wrote it, 0 where nothing is stored.                 *)
(***************************************************************************)
EXTENDS Naturals, Sequences, Functions

CONSTANTS Namespaces,      \* of the handles; <<>> is the one without a namespace
          RecordKeys,      \* keys of the nodes a commit writes, "t:depth:path"
          ScratchKey,      \* a key that is set and deleted directly
          batchSizeLimit,  \* BatchSizeLimit(limit); every value counts 1
          MaxCommits,      \* bound on the commits begun while fewer have returned
          MaxRetries       \* of go-redis, config.MaxRetries

latestVersionKey == <<"latestVersion">>

recentVersionNumberKey == <<"recentVersionNumber">>

TreeKeys == RecordKeys \cup {latestVersionKey, recentVersionNumberKey}

AllKeys == TreeKeys \cup {ScratchKey}

\* No key ends in another one: a node's key is shorter than the keys of the
\* version numbers, all node keys are of one length, and neither version key
\* ends in the other.
ASSUME DatabaseAssumption ==
    /\ <<>> \in Namespaces /\ Namespaces \subseteq Seq(STRING)
    /\ AllKeys \subseteq Seq(STRING)
    /\ \A k, kk \in AllKeys : \A i \in 1 .. Len(kk) + 1 :
           SubSeq(kk, i, Len(kk)) = k => kk = k
    /\ ScratchKey \notin TreeKeys
    /\ latestVersionKey \notin RecordKeys /\ recentVersionNumberKey \notin RecordKeys
    /\ batchSizeLimit \in Nat /\ MaxCommits \in Nat /\ MaxRetries \in Nat

wrapKey_Ignore(namespace, key) == key

wrapKey(namespace, key) ==
    IF Len(namespace) > 0 THEN namespace \o <<":">> \o key ELSE key

StoreKeys == {wrapKey(ns, k) : ns \in Namespaces, k \in AllKeys}

VARIABLES kind,    \* "memory", "leveldb" or "redis"
          open,    \* no handle has been closed
          store,   \* what is stored under a wrapped key
          tree,    \* the trees, by namespace: where Commit is, and its batch
          acked    \* the last commit that returned without an error

vars == <<kind, open, store, tree, acked>>

\* A tree between two calls. commit: the commit under way, or the last one
\* begun; writes and size: those of the batch; executed: how many commands
\* of the pipeline the server has executed, retries: how often it was resent.
Idle(n) ==
    [at |-> "idle", commit |-> n, todo |-> {}, writes |-> <<>>, size |-> 0,
     last |-> FALSE, executed |-> 0, retries |-> 0]

Init ==
    /\ kind \in {"memory", "leveldb", "redis"}
    /\ open = TRUE
    /\ store = [k \in StoreKeys |-> 0]
    /\ tree = [ns \in Namespaces |-> Idle(0)]
    /\ acked = [ns \in Namespaces |-> 0]

\* WrapWithNamespace exists for leveldb and redis.
Handles == IF kind = "memory" THEN {<<>>} ELSE Namespaces

Get(ns, key) == store[wrapKey(ns, key)]

----------------------------------------------------------------------------
(* Set, Delete and Close of a handle.                                      *)

\* (Its caller makes one call at a time.)
Put(ns, key, value) ==
    /\ open /\ tree[ns].at = "idle"
    /\ store' = [store EXCEPT ![wrapKey(ns, key)] = value]
    /\ UNCHANGED <<kind, open, tree, acked>>

Set(ns) == Put(ns, ScratchKey, 1)

Delete(ns) == Put(ns, ScratchKey, 0)

\* Closes the store under every handle; a memory database forgets it. (One
\* caller has the memory database: it does not close it inside a call.)
Close(ns) ==
    /\ open
    /\ kind = "memory" => tree[ns].at = "idle"
    /\ open' = FALSE
    /\ store' = IF kind = "memory" THEN [k \in StoreKeys |-> 0] ELSE store
    /\ UNCHANGED <<kind, tree, acked>>

----------------------------------------------------------------------------
(* Commit and Rollback, and the Batcher under them.                        *)

\* NewBatch. A commit that returned an error is made again.
NewBatch(ns) ==
    LET n == acked[ns] + 1
    IN  /\ tree[ns].at = "idle"
        /\ FoldFunction(+, 1, acked) <= MaxCommits
        /\ tree' = [tree EXCEPT ![ns] = [Idle(n) EXCEPT !.at = "add", !.todo = RecordKeys]]
        /\ UNCHANGED <<kind, open, store, acked>>

Queued(batch, cmds) == [batch EXCEPT !.writes = @ \o cmds, !.size = @ + Len(cmds)]

Cmd_NoSeparator(ns, key, value) == [key |-> ns \o key, value |-> value]

Cmd(ns, key, value) == [key |-> wrapKey(ns, key), value |-> value]

\* writeNode: batch.Set, and a Write of its own once the batch is too large.
WriteNode(ns, k) ==
    LET t == Queued(tree[ns], <<Cmd(ns, k, tree[ns].commit)>>)
    IN  /\ t.at = "add" /\ k \in t.todo
        /\ tree' = [tree EXCEPT ![ns] =
                       [t EXCEPT !.todo = @ \ {k},
                                 !.at = IF t.size > batchSizeLimit THEN "write" ELSE "add"]]
        /\ UNCHANGED <<kind, open, store, acked>>

\* batch.Delete, before the nodes (a tree never deletes).
BatchDelete(ns) ==
    LET cmd == Cmd(ns, ScratchKey, 0)
    IN  /\ tree[ns].at = "add" /\ tree[ns].todo = RecordKeys
        /\ tree[ns].writes = <<>> /\ Get(ns, ScratchKey) # 0
        /\ tree' = [tree EXCEPT ![ns] = Queued(@, <<cmd>>)]
        /\ UNCHANGED <<kind, open, store, acked>>

\* The version numbers go last, latestVersion first; Rollback, and Commit
\* without a recentVersion, leave recentVersionNumber alone.
WriteVersion_First(ns, pruning) ==
    LET t == tree[ns]
        latest == Cmd(ns, latestVersionKey, t.commit)
        oldest == Cmd(ns, recentVersionNumberKey, t.commit)
    IN  /\ t.at = "add" /\ ~t.last
        /\ tree' = [tree EXCEPT ![ns] =
                       [Queued(t, IF pruning THEN <<latest, oldest>> ELSE <<latest>>)
                           EXCEPT !.at = "write", !.last = (t.todo = {})]]
        /\ UNCHANGED <<kind, open, store, acked>>

WriteVersion(ns, pruning) ==
    LET t == tree[ns]
        latest == Cmd(ns, latestVersionKey, t.commit)
        oldest == Cmd(ns, recentVersionNumberKey, t.commit)
    IN  /\ t.at = "add" /\ t.todo = {}
        /\ tree' = [tree EXCEPT ![ns] =
                       [Queued(t, IF pruning THEN <<latest, oldest>> ELSE <<latest>>)
                           EXCEPT !.at = "write", !.last = TRUE]]
        /\ UNCHANGED <<kind, open, store, acked>>

\* Reset: the batch is empty again.
Reset_KeepWrites(t) == [t EXCEPT !.size = 0]

Reset(t) == [t EXCEPT !.writes = <<>>, !.size = 0]

\* Exec has returned: go-redis is done with the pipeline.
Answered(t) == [t EXCEPT !.executed = 0, !.retries = 0]

\* Write returned nil: Reset, and the next node, or the end of the call.
Succeed(ns) ==
    LET t == Reset(Answered(tree[ns]))
    IN  /\ tree' = [tree EXCEPT ![ns] = [t EXCEPT !.at = IF t.last THEN "idle" ELSE "add"]]
        /\ acked' = IF t.last THEN [acked EXCEPT ![ns] = t.commit] ELSE acked

\* Write returned an error, and so does the call.
Fail_Ignored(ns) == Succeed(ns)

Fail(ns) ==
    /\ tree' = [tree EXCEPT ![ns] = Idle(@.commit)]
    /\ UNCHANGED acked

Execute(s, cmds) ==
    [k \in StoreKeys |->
        LET hits == {i \in 1 .. Len(cmds) : cmds[i].key = k}
        IN  IF hits = {} THEN s[k]
            ELSE cmds[CHOOSE i \in hits : \A j \in hits : j <= i].value]

\* batch.Write of memory (under the lock) and of leveldb.
WriteWhole(ns) ==
    /\ tree[ns].at = "write" /\ open /\ kind # "redis"
    /\ store' = Execute(store, tree[ns].writes)
    /\ Succeed(ns)
    /\ UNCHANGED <<kind, open>>

\* leveldb could not write, or the store is closed; in a closed memory
\* database the assignment to a nil map panics.
WriteFails(ns) ==
    /\ tree[ns].at = "write"
    /\ kind = "leveldb" \/ ~open
    /\ IF kind = "memory"
       THEN tree' = [tree EXCEPT ![ns] = [Idle(@.commit) EXCEPT !.at = "panic"]] /\ UNCHANGED acked
       ELSE Fail(ns)
    /\ UNCHANGED <<kind, open, store>>

\* batch.Write of redis: Exec sends the pipeline.
Exec(ns) ==
    /\ tree[ns].at = "write" /\ open /\ kind = "redis"
    /\ tree' = [tree EXCEPT ![ns].at = "exec"]
    /\ UNCHANGED <<kind, open, store, acked>>

\* The server executes the next command.
ExecCmd(ns) ==
    LET t == tree[ns]
    IN  /\ t.at = "exec" /\ t.executed < Len(t.writes)
        /\ store' = Execute(store, <<t.writes[t.executed + 1]>>)
        /\ tree' = [tree EXCEPT ![ns].executed = @ + 1]
        /\ UNCHANGED <<kind, open, acked>>

\* The connection breaks, before or after the answers: resend everything.
ExecRetry(ns) ==
    /\ tree[ns].at = "exec" /\ tree[ns].retries < MaxRetries /\ open
    /\ tree' = [tree EXCEPT ![ns].executed = 0, ![ns].retries = @ + 1]
    /\ UNCHANGED <<kind, open, store, acked>>

ExecFails(ns) ==
    /\ tree[ns].at = "exec"
    /\ Fail(ns)
    /\ UNCHANGED <<kind, open, store>>

ExecReturns(ns) ==
    /\ tree[ns].at = "exec" /\ tree[ns].executed = Len(tree[ns].writes)
    /\ Succeed(ns)
    /\ UNCHANGED <<kind, open, store>>

\* A new process opens the store and its trees: initFromStorage reads the
\* version the tree goes on from.
Reopen ==
    /\ open' = TRUE
    /\ store' = IF kind = "memory" THEN [k \in StoreKeys |-> 0] ELSE store
    /\ acked' = [ns \in Namespaces |-> store'[wrapKey(ns, latestVersionKey)]]
    /\ tree' = [ns \in Namespaces |-> Idle(acked'[ns])]
    /\ UNCHANGED kind

Step(ns) ==
    \/ Set(ns) \/ Delete(ns) \/ Close(ns)
    \/ NewBatch(ns) \/ BatchDelete(ns)
    \/ \E k \in RecordKeys : WriteNode(ns, k)
    \/ \E pruning \in BOOLEAN : WriteVersion(ns, pruning)
    \/ WriteWhole(ns) \/ WriteFails(ns)
    \/ Exec(ns) \/ ExecCmd(ns) \/ ExecRetry(ns) \/ ExecFails(ns) \/ ExecReturns(ns)

Next == (\E ns \in Handles : Step(ns)) \/ Reopen

Spec == Init /\ [][Next]_vars

----------------------------------------------------------------------------
Command == [key : StoreKeys, value : Nat]

TreeState ==
    [at : {"idle", "add", "write", "exec", "panic"}, commit : Nat,
     todo : SUBSET RecordKeys, writes : Seq(Command), size : Nat,
     last : BOOLEAN, executed : Nat, retries : 0 .. MaxRetries]

TypeOK ==
    /\ kind \in {"memory", "leveldb", "redis"} /\ open \in BOOLEAN
    /\ store \in [StoreKeys -> Nat]
    /\ acked \in [Namespaces -> Nat]
    /\ tree \in [Namespaces -> TreeState]
    /\ \A ns \in Namespaces : tree[ns].executed <= Len(tree[ns].writes)

\* What ValueSize reports is what the batch holds, and a commit of any size
\* never queues more than the limit, a node over it and the two version
\* numbers ("Reset resets the batch for reuse", database.go 38).
BatchIsBounded ==
    \A ns \in Namespaces :
        /\ tree[ns].size = Len(tree[ns].writes)
        /\ tree[ns].size <= batchSizeLimit + 3

\* A commit that returned without an error is in the store, all of it, after
\* failed, resent and interrupted writes too, and until the store is given
\* up (a memory database that is closed).
AcknowledgedIsStored ==
    kind # "memory" \/ open =>
        \A ns \in Handles, k \in RecordKeys \cup {latestVersionKey} :
            Get(ns, k) >= acked[ns]

\* What a handle reads is changed by its own calls only: no key of one
\* namespace is a key of another.
NamespacesAreIsolated ==
    [][\A ns \in Namespaces :
          kind # "memory" /\ tree'[ns] = tree[ns] =>
              \A k \in TreeKeys : Get(ns, k)' = Get(ns, k)]_vars

Contract(ns) == INSTANCE RecordStore WITH
    record   <- [k \in RecordKeys |-> Get(ns, k)],
    latest   <- Get(ns, latestVersionKey),
    recent   <- Get(ns, recentVersionNumberKey),
    volatile <- kind = "memory"

\* Every database keeps, for every handle, the order the tree relies on when
\* it is interrupted: records, then the version, then recentVersionNumber.
\* (This is \A ns \in Namespaces : Contract(ns)!Spec, in a form TLC takes.)
KeepsWriteOrder ==
    /\ \A ns \in Namespaces : Contract(ns)!Init
    /\ [][\A ns \in Namespaces : [Contract(ns)!Next]_(Contract(ns)!vars)]_vars
=============================================================================
