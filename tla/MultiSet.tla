------------------------------ MODULE MultiSet ------------------------------
(***************************************************************************)
(* One call of MultiSetWithVersion (src/smt.go, src/tree_node.go): one     *)
(* goroutine per item copies the nodes of its path into tmpJournal, clears *)
(* the internal hashes above its leaf and sets the leaf; after a barrier   *)
(* one goroutine per leaf climbs towards the root and hashes each node as  *)
(* soon as both halves of it are there. No goroutine is in charge of a     *)
(* node: the last one to arrive at a pair of siblings must carry on, every *)
(* other one must stop.                                                    *)
(*                                                                         *)
(* Hashes are contents, as in module SMT. Hash(l, r) is the map that l and *)
(* r make together if l is the left one of them: hashed the wrong way      *)
(* round, two contents make something that is neither.                     *)
(***************************************************************************)
EXTENDS Integers, Sequences, FiniteSets

CONSTANTS Keys,        \* the keys of interest, sequences of nibbles of equal length
          Items,       \* the items of the call, records of a key and a val
          Base,        \* the content of the tree before the call
          Prior,       \* keys set before the call in the same version
          Workers,     \* the size of the goroutine pool, ants.NewPool(128)
          Faults,      \* what may go wrong: "extend" (a node cannot be loaded),
                       \* "key" (one more item, whose key is out of range)
          Nil,         \* the nil hash of a leaf
          Null         \* a nil slice: the hash is not there

Values == {Base[k] : k \in Keys} \cup {g.val : g \in Items} \cup {Nil}

Content == [Keys -> Values]

\* A copied node with children. current: its newest version is the one being
\* set; torn: append has moved the end of Versions and has not stored the
\* entry yet.
Node == [current : BOOLEAN, torn : BOOLEAN, hash : Content,
         internals : [0 .. 13 -> Content \cup {Null}]]

Prefixes(s) == {SubSeq(s, 1, i) : i \in 0 .. Len(s)}

\* The nodes with children.
Inner == UNION {Prefixes(k) \ {k} : k \in Keys}

ASSUME MultiSetAssumption ==
    /\ \A k \in Keys : k \in Seq(0 .. 15) /\ Len(k) > 0
    /\ \A k, kk \in Keys : Len(k) = Len(kk)
    /\ \A g \in Items : g.key \in Keys
    /\ Prior \subseteq Keys
    /\ Workers \in Nat \ {0}
    /\ Faults \subseteq {"extend", "key"}
    /\ Null \notin Values /\ Null \notin Content /\ Null \notin Node

Levels == Len(CHOOSE k \in Keys : TRUE)

ParentOf(n) == SubSeq(n, 1, Len(n) - 1)

Nibble(n) == n[Len(n)]

\* path ^ 1
Flip(x) == IF x % 2 = 0 THEN x + 1 ELSE x - 1

SiblingOf(n) == Append(ParentOf(n), Flip(Nibble(n)))

\* The part of a content that lies below node n.
Below(c, n) == [k \in Keys |-> IF n \in Prefixes(k) THEN c[k] ELSE Nil]

\* Key k is to the left of key kk.
Precedes(k, kk) ==
    \E i \in 1 .. Len(k) : SubSeq(k, 1, i - 1) = SubSeq(kk, 1, i - 1) /\ k[i] < kk[i]

Merge(l, r) == [k \in Keys |-> IF l[k] # Nil THEN l[k] ELSE r[k]]

\* hasher.Hash(left, right)
Hash(l, r) ==
    IF \A k, kk \in Keys : l[k] # Nil /\ r[kk] # Nil => Precedes(k, kk)
    THEN Merge(l, r)
    ELSE [k \in Keys |-> Nil]

\* leafInternalMap: the internals on the way from a child to its node.
leafInternalMap == [nibble \in 0 .. 15 |->
                       {nibble \div 8, 2 + nibble \div 4, 6 + nibble \div 2}]

\* prefix + nibble in the three rounds of recompute's loop.
Internal(round, nibble) ==
    CASE round = 1 -> 6 + nibble \div 2
      [] round = 2 -> 2 + nibble \div 4
      [] round = 3 -> nibble \div 8

\* nibble % 2 = 0 when a climber sets left and right for that round.
OnLeft(round, nibble) ==
    CASE round = 1 -> nibble % 2 = 0
      [] round = 2 -> (nibble \div 2) % 2 = 0
      [] round = 3 -> (nibble \div 4) % 2 = 0

\* The content internal i of node n stands for.
InternalContent(c, n, i) ==
    [k \in Keys |-> IF /\ n \in Prefixes(k)
                       /\ i \in leafInternalMap[k[Len(n) + 1]]
                    THEN c[k] ELSE Nil]

VARIABLES phase,    \* of the caller: "items", "leaves", "done" or "failed"
          item,     \* the goroutines of the first phase
          climber,  \* the goroutines of the second phase, by key of their leaf
          inner,    \* tmpJournal: the copied nodes with children
          leaf,     \* tmpJournal: the leaves
          leaves    \* leavesJournal

vars == <<phase, item, climber, inner, leaf, leaves>>

\* A node with children as it was before the call.
OldNode(n) ==
    [current   |-> \E k \in Prior : n \in Prefixes(k),
     torn      |-> FALSE,
     hash      |-> Below(Base, n),
     internals |-> [i \in 0 .. 13 |-> InternalContent(Base, n, i)]]

Idle == [at |-> "idle", child |-> <<>>, round |-> 1, own |-> Null, other |-> Null]

Init ==
    /\ phase = "items"
    /\ item = [g \in Items |-> [at |-> "queued", level |-> 0]]
    /\ climber = [k \in Keys |-> Idle]
    /\ inner = [n \in Inner |-> Null]
    /\ leaf = [k \in Keys |-> Null]
    /\ leaves = [k \in Keys |-> Null]

\* The goroutines that hold a worker of the pool.
Running ==
    {g \in Items : item[g].at \notin {"queued", "error", "end"}}
        \cup {k \in Keys : climber[k].at \notin {"idle", "queued", "end"}}

FreeWorker == Cardinality(Running) < Workers

----------------------------------------------------------------------------
(* First phase: setIntermediateAndLeaves, for each item.                   *)

\* The caller submits the next item, or waits for a worker.
SubmitItem(g) ==
    /\ phase = "items" /\ item[g].at = "queued" /\ FreeWorker
    /\ item' = [item EXCEPT ![g].at = "copy"]
    /\ UNCHANGED <<phase, climber, inner, leaf, leaves>>

\* An item whose key is out of range: the caller returns ErrInvalidKey, the
\* goroutines it has started run on.
RejectKey ==
    /\ "key" \in Faults /\ phase = "items"
    /\ phase' = "failed"
    /\ UNCHANGED <<item, climber, inner, leaf, leaves>>

\* journal.setIfNotExist, under its lock, for the node of this level.
CopyNode(g) ==
    LET n == SubSeq(g.key, 1, item[g].level)
    IN  /\ item[g].at = "copy"
        /\ inner' = IF inner[n] = Null
                    THEN [inner EXCEPT ![n] = OldNode(n)]
                    ELSE inner
        /\ item' = [item EXCEPT ![g].at = "mark"]
        /\ UNCHANGED <<phase, climber, leaf, leaves>>

\* cp.mark(nibble) and extendNode, without a lock; then one level down.
Mark(g) ==
    LET n == SubSeq(g.key, 1, item[g].level)
        nibble == g.key[item[g].level + 1]
    IN  /\ item[g].at = "mark"
        /\ inner' = [inner EXCEPT ![n].internals = [i \in 0 .. 13 |->
                        IF i \in leafInternalMap[nibble] THEN Null ELSE @[i]]]
        /\ item' = [item EXCEPT ![g] =
                       [at |-> IF @.level + 1 = Levels THEN "leaf" ELSE "copy",
                        level |-> @.level + 1]]
        /\ UNCHANGED <<phase, climber, leaf, leaves>>

\* extendNode cannot read or decode the child: the item sends the error.
ExtendFails(g) ==
    /\ "extend" \in Faults /\ item[g].at = "mark"
    /\ item' = [item EXCEPT ![g].at = "error"]
    /\ UNCHANGED <<phase, climber, inner, leaf, leaves>>

\* The copied leaf gets the value and enters tmpJournal, and its parent's
\* Children.
SetLeaf(g) ==
    /\ item[g].at = "leaf"
    /\ leaf' = [leaf EXCEPT ![g.key] = g.val]
    /\ item' = [item EXCEPT ![g].at = "lookup"]
    /\ UNCHANGED <<phase, climber, inner, leaves>>

\* leavesJournal.get, then set if it was not there: two locked steps.
LookupLeaf(g) ==
    /\ item[g].at = "lookup"
    /\ item' = [item EXCEPT ![g].at =
                   IF leaves[g.key] = Null THEN "register" ELSE "end"]
    /\ UNCHANGED <<phase, climber, inner, leaf, leaves>>

RegisterLeaf(g) ==
    /\ item[g].at = "register"
    /\ leaves' = [leaves EXCEPT ![g.key] = g.val]
    /\ item' = [item EXCEPT ![g].at = "end"]
    /\ UNCHANGED <<phase, climber, inner, leaf>>

\* wg.Wait; an error one of the items sent is returned.
ReturnError ==
    /\ phase = "items"
    /\ \A g \in Items : item[g].at \in {"end", "error"}
    /\ \E g \in Items : item[g].at = "error"
    /\ phase' = "failed"
    /\ UNCHANGED <<item, climber, inner, leaf, leaves>>

\* wg.Wait, then one task per leaf of leavesJournal.
StartClimbing ==
    /\ phase = "items"
    /\ \A g \in Items : item[g].at = "end"
    /\ phase' = "leaves"
    /\ climber' = [k \in Keys |->
                      IF leaves[k] = Null THEN [Idle EXCEPT !.at = "end"]
                      ELSE [Idle EXCEPT !.at = "queued", !.child = k]]
    /\ UNCHANGED <<item, inner, leaf, leaves>>

----------------------------------------------------------------------------
(* Second phase: recompute, for each leaf.                                 *)

\* The caller submits the next leaf, holding leavesJournal's lock.
SubmitLeaf(k) ==
    /\ phase = "leaves" /\ climber[k].at = "queued" /\ FreeWorker
    /\ climber' = [climber EXCEPT ![k].at = "sibling"]
    /\ UNCHANGED <<phase, item, inner, leaf, leaves>>

End(k) == climber' = [climber EXCEPT ![k].at = "end"]

\* child.root(): the leaf a climber starts from is the one of leavesJournal.
ChildHash(k) ==
    LET n == climber[k].child
    IN  IF n = k THEN [kk \in Keys |-> IF kk = k THEN leaves[k] ELSE Nil]
        ELSE inner[n].hash

IsCopied(n) ==
    IF n \in Keys THEN leaf[n] # Null ELSE n \in Inner /\ inner[n] # Null

\* The sibling is read as unfinished (its latestVersion is below version).
Unfinished(n) == n \in Inner /\ ~inner[n].current /\ ~inner[n].torn

\* The read hits the entry append has not stored yet: a nil pointer.
ReadsNothing(n) == n \in Inner /\ inner[n].torn

\* "if sibling haven't finished yet, quit; sibling will be charge for
\* computing"; a nil dereference ends the goroutine too.
CheckSibling_AskOld(k) ==
    LET n == SiblingOf(climber[k].child)
    IN  /\ climber[k].at = "sibling"
        /\ climber' = [climber EXCEPT ![k].at = "read", ![k].own = ChildHash(k)]
        /\ UNCHANGED <<phase, item, inner, leaf, leaves>>

CheckSibling_QuitOnTie(k) ==
    LET n == SiblingOf(climber[k].child)
    IN  /\ climber[k].at = "sibling"
        /\ IF IsCopied(n) /\ n \in Inner
           THEN End(k)
           ELSE climber' = [climber EXCEPT ![k].at = "read", ![k].own = ChildHash(k)]
        /\ UNCHANGED <<phase, item, inner, leaf, leaves>>

CheckSibling(k) ==
    LET n == SiblingOf(climber[k].child)
    IN  /\ climber[k].at = "sibling"
        /\ IF IsCopied(n) /\ (Unfinished(n) \/ ReadsNothing(n))
           THEN End(k)
           ELSE climber' = [climber EXCEPT ![k].at = "read", ![k].own = ChildHash(k)]
        /\ UNCHANGED <<phase, item, inner, leaf, leaves>>

\* sibling.root(), or Children[nibble^1].Root() when it is not copied.
ReadSibling(k) ==
    LET n == SiblingOf(climber[k].child)
        hash == IF n \in Keys /\ leaf[n] # Null
                THEN [kk \in Keys |-> IF kk = n THEN leaf[n] ELSE Nil]
                ELSE IF n \in Inner /\ inner[n] # Null
                THEN inner[n].hash
                ELSE Below(Base, n)
    IN  /\ climber[k].at = "read"
        /\ climber' = [climber EXCEPT ![k].at = "set", ![k].round = 1, ![k].other = hash]
        /\ UNCHANGED <<phase, item, inner, leaf, leaves>>

\* The hash of left and right.
Combined_Swapped(c) ==
    IF OnLeft(c.round, Nibble(c.child)) THEN Hash(c.other, c.own) ELSE Hash(c.own, c.other)

Combined(c) ==
    IF OnLeft(c.round, Nibble(c.child)) THEN Hash(c.own, c.other) ELSE Hash(c.other, c.own)

\* setInternal, under the lock of that internal: the first one to come sets
\* it and goes on.
SetInternal_Retry(k) ==
    LET c == climber[k]
        n == ParentOf(c.child)
        i == Internal(c.round, Nibble(c.child))
        hash == Combined(c)
    IN  /\ c.at = "set"
        /\ IF inner[n].internals[i] # Null
           THEN UNCHANGED <<climber, inner>>
           ELSE /\ inner' = [inner EXCEPT ![n].internals[i] = hash]
                /\ climber' = [climber EXCEPT ![k].at = "get", ![k].own = hash]
        /\ UNCHANGED <<phase, item, leaf, leaves>>

SetInternal(k) ==
    LET c == climber[k]
        n == ParentOf(c.child)
        i == Internal(c.round, Nibble(c.child))
        hash == Combined(c)
    IN  /\ c.at = "set"
        /\ IF inner[n].internals[i] # Null
           THEN End(k) /\ UNCHANGED inner
           ELSE /\ inner' = [inner EXCEPT ![n].internals[i] = hash]
                /\ climber' = [climber EXCEPT ![k].at = "get", ![k].own = hash]
        /\ UNCHANGED <<phase, item, leaf, leaves>>

\* getInternal of the neighbour: the last one to come goes on.
GetInternal_OneMoreRound(k) ==
    LET c == climber[k]
        n == ParentOf(c.child)
        hash == inner[n].internals[Flip(Internal(c.round, Nibble(c.child)))]
    IN  /\ c.at = "get"
        /\ IF hash = Null
           THEN End(k)
           ELSE climber' = [climber EXCEPT ![k].at = "set", ![k].other = hash,
                                           ![k].round = c.round + 1]
        /\ UNCHANGED <<phase, item, inner, leaf, leaves>>

GetInternal(k) ==
    LET c == climber[k]
        n == ParentOf(c.child)
        hash == inner[n].internals[Flip(Internal(c.round, Nibble(c.child)))]
    IN  /\ c.at = "get"
        /\ IF hash = Null
           THEN End(k)
           ELSE IF c.round = 3
           THEN climber' = [climber EXCEPT ![k].at = "publish"]
           ELSE climber' = [climber EXCEPT ![k].at = "set", ![k].other = hash,
                                           ![k].round = c.round + 1]
        /\ UNCHANGED <<phase, item, inner, leaf, leaves>>

\* newVersion, without a lock: overwrite the entry of this version, or move
\* the end of Versions and then store the entry. Next: the parent, if it is
\* in tmpJournal; above the root nothing is.
ToParent(k) ==
    LET n == ParentOf(climber[k].child)
    IN  climber' = [climber EXCEPT ![k].child = n,
                                   ![k].at = IF n = <<>> THEN "end" ELSE "sibling"]

NodeHash(n) == Hash(inner[n].internals[0], inner[n].internals[1])

Publish(k) ==
    LET n == ParentOf(climber[k].child)
    IN  /\ climber[k].at = "publish"
        /\ IF ReadsNothing(n)
           THEN End(k) /\ UNCHANGED inner
           ELSE IF inner[n].current
           THEN /\ inner' = [inner EXCEPT ![n].hash = NodeHash(n)]
                /\ ToParent(k)
           ELSE /\ inner' = [inner EXCEPT ![n].torn = TRUE]
                /\ climber' = [climber EXCEPT ![k].at = "store"]
        /\ UNCHANGED <<phase, item, leaf, leaves>>

Store(k) ==
    LET n == ParentOf(climber[k].child)
    IN  /\ climber[k].at = "store"
        /\ inner' = [inner EXCEPT ![n].hash = NodeHash(n),
                                  ![n].current = TRUE, ![n].torn = FALSE]
        /\ ToParent(k)
        /\ UNCHANGED <<phase, item, leaf, leaves>>

\* wg.Wait; tree.root becomes the copied root, tmpJournal enters the journal.
Finish ==
    /\ phase = "leaves"
    /\ \A k \in Keys : climber[k].at = "end"
    /\ phase' = "done"
    /\ UNCHANGED <<item, climber, inner, leaf, leaves>>

\* The call has returned and left nothing behind.
Returned == phase \in {"done", "failed"} /\ Running = {} /\ UNCHANGED vars

ItemStep(g) ==
    \/ CopyNode(g) \/ Mark(g) \/ ExtendFails(g)
    \/ SetLeaf(g) \/ LookupLeaf(g) \/ RegisterLeaf(g)

ClimberStep(k) ==
    \/ CheckSibling(k) \/ ReadSibling(k) \/ SetInternal(k) \/ GetInternal(k)
    \/ Publish(k) \/ Store(k)

Next ==
    \/ \E g \in Items : SubmitItem(g) \/ ItemStep(g)
    \/ RejectKey \/ ReturnError \/ StartClimbing
    \/ \E k \in Keys : SubmitLeaf(k) \/ ClimberStep(k)
    \/ Finish
    \/ Returned

\* Go schedules every runnable goroutine, the caller among them; a worker
\* that is free takes the next task.
Fairness ==
    /\ \A g \in Items : WF_vars(SubmitItem(g)) /\ WF_vars(ItemStep(g))
    /\ \A k \in Keys : WF_vars(SubmitLeaf(k)) /\ WF_vars(ClimberStep(k))
    /\ WF_vars(ReturnError) /\ WF_vars(StartClimbing)
    /\ WF_vars(Finish)

Spec == Init /\ [][Next]_vars /\ Fairness

----------------------------------------------------------------------------
ItemState ==
    [at : {"queued", "copy", "mark", "leaf", "lookup", "register", "error", "end"},
     level : 0 .. Levels]

ClimberState ==
    [at : {"idle", "queued", "sibling", "read", "set", "get", "publish", "store", "end"},
     child : {<<>>} \cup Keys \cup Inner, round : 1 .. 3,
     own : Content \cup {Null}, other : Content \cup {Null}]

TypeOK ==
    /\ phase \in {"items", "leaves", "done", "failed"}
    /\ item \in [Items -> ItemState]
    /\ climber \in [Keys -> ClimberState]
    /\ inner \in [Inner -> Node \cup {Null}]
    /\ leaf \in [Keys -> Values \cup {Null}]
    /\ leaves \in [Keys -> Values \cup {Null}]

\* The content after the call, as a sequence of Set calls would leave it.
Result ==
    [k \in Keys |-> IF \E g \in Items : g.key = k
                    THEN (CHOOSE g \in Items : g.key = k).val
                    ELSE Base[k]]

Touched(n) == \E g \in Items : n \in Prefixes(g.key)

\* When the call returns, the root and every other copied node have the hash
\* and the internals that setting the items one by one gives
\* ("root hash does not match", smt_test.go 1017).
ResultIsSequential ==
    phase = "done" =>
        \A n \in Inner :
            Touched(n) =>
                /\ inner[n].current /\ ~inner[n].torn
                /\ inner[n].hash = Below(Result, n)
                /\ \A i \in 0 .. 13 :
                       inner[n].internals[i] = InternalContent(Result, n, i)

\* No goroutine ever publishes a hash that another has to correct: during
\* the climb every internal that is set, and every node that carries the new
\* version, is final ("if sibling haven't finished yet,quit",
\* tree_node.go 375).
PublishedIsFinal ==
    phase = "leaves" =>
        \A n \in Inner :
            inner[n] # Null =>
                /\ inner[n].current => inner[n].hash = Below(Result, n)
                /\ \A i \in 0 .. 13 :
                       \/ inner[n].internals[i] = Null
                       \/ inner[n].internals[i] = InternalContent(Result, n, i)

\* The call returns, with an error too, and every goroutine it started ends,
\* however few workers the pool has: the caller waits for a worker while it
\* holds the lock of leavesJournal (smt.go 555), and no goroutine that has a
\* worker waits for one that has none.
Terminates == <>[](phase \in {"done", "failed"} /\ Running = {})
=============================================================================
