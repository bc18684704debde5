--------------------------- MODULE DatabaseProofs ---------------------------
(***************************************************************************)
(* What a tree relies on of its database, for any namespaces, any nodes,   *)
(* any batch size limit and any number of resent pipelines.                *)
(***************************************************************************)
EXTENDS Database, SequenceTheorems, NaturalsInduction, WellFoundedInduction, TLAPS

----------------------------------------------------------------------------
(* Keys and namespaces.                                                    *)

\* Sequences with a common end are equal if their starts are.
LEMMA SameStart ==
    ASSUME NEW S, NEW a \in Seq(S), NEW b \in Seq(S), NEW c \in Seq(S), a \o c = b \o c
    PROVE  a = b
<1>1. Len(a) = Len(b)
    <2>1. Len(a \o c) = Len(a) + Len(c) /\ Len(b \o c) = Len(b) + Len(c) OBVIOUS
    <2> QED BY <2>1
<1>2. ASSUME NEW j \in 1 .. Len(a) PROVE a[j] = b[j]
    <2>1. (a \o c)[j] = a[j] OBVIOUS
    <2>2. (b \o c)[j] = b[j] BY <1>1
    <2> QED BY <2>1, <2>2
<1> QED BY <1>1, <1>2, SeqEqual

\* Keys of the store, field by field.
LEMMA KeyTypes ==
    /\ AllKeys \subseteq Seq(STRING)
    /\ RecordKeys \subseteq AllKeys /\ TreeKeys \subseteq AllKeys
    /\ latestVersionKey \in TreeKeys /\ recentVersionNumberKey \in TreeKeys
    /\ ScratchKey \in AllKeys
    /\ \A ns \in Namespaces, k \in AllKeys : wrapKey(ns, k) \in StoreKeys
    /\ latestVersionKey # recentVersionNumberKey
<1>1. latestVersionKey # recentVersionNumberKey
    BY DEF latestVersionKey, recentVersionNumberKey
<1> QED BY <1>1, DatabaseAssumption DEF AllKeys, TreeKeys, StoreKeys

\* wrapKey never maps keys of two namespaces, or two keys of one, to one.
LEMMA WrapKeyInjective ==
    ASSUME NEW m \in Namespaces, NEW n \in Namespaces, NEW k \in AllKeys, NEW kk \in AllKeys,
           wrapKey(m, k) = wrapKey(n, kk)
    PROVE  m = n /\ k = kk
<1> DEFINE Prefix(ns) == IF Len(ns) > 0 THEN ns \o <<":">> ELSE <<>>
           Field == STRING \cup {":"}
<1>0. ":" \in Field /\ STRING \subseteq Field OBVIOUS
<1> HIDE DEF Field
<1>1. m \in Seq(Field) /\ n \in Seq(Field) /\ k \in Seq(Field) /\ kk \in Seq(Field)
    BY <1>0, DatabaseAssumption, SeqMonotonic
<1>2. ASSUME NEW ns \in Seq(Field), NEW key \in Seq(Field)
      PROVE  Prefix(ns) \in Seq(Field) /\ wrapKey(ns, key) = Prefix(ns) \o key
    <2>1. CASE Len(ns) > 0 BY <1>0, <2>1 DEF wrapKey
    <2>2. CASE ~(Len(ns) > 0)
        <3>1. <<>> \o key = key BY ConcatEmptySeq
        <3> QED BY <2>2, <3>1 DEF wrapKey
    <2> QED BY <2>1, <2>2
<1>3. Prefix(m) \o k = Prefix(n) \o kk BY <1>1, <1>2
<1>4. Prefix(m) \in Seq(Field) /\ Prefix(n) \in Seq(Field) BY <1>1, <1>2
<1>5. ASSUME NEW ns \in Seq(Field), Len(ns) > 0
      PROVE  Prefix(ns) = ns \o <<":">> /\ Prefix(ns) # <<>>
    BY <1>5
<1>6. ASSUME NEW ns \in Seq(Field), ~(Len(ns) > 0)
      PROVE  ns = <<>> /\ Prefix(ns) = <<>>
    BY <1>6
<1> HIDE DEF Prefix
<1>7. ASSUME NEW c \in AllKeys \cap Seq(Field), NEW d \in AllKeys \cap Seq(Field),
             NEW a \in Seq(Field), NEW b \in Seq(Field), a \o c = b \o d, Len(c) <= Len(d)
      PROVE  d = c
    <2> DEFINE i == Len(d) - Len(c)
               e == SubSeq(d, i + 1, Len(d))
    <2>1. Len(a \o c) = Len(a) + Len(c) /\ Len(b \o d) = Len(b) + Len(d) OBVIOUS
    <2>2. Len(a) = Len(b) + i /\ i \in Nat BY <1>7, <2>1
    <2>3. e \in Seq(Field) /\ Len(e) = Len(c) BY <2>2
    <2>4. ASSUME NEW j \in 1 .. Len(c) PROVE e[j] = c[j]
        <3>1. e[j] = d[i + j] BY <2>2
        <3>2. (a \o c)[Len(a) + j] = c[j] OBVIOUS
        <3>3. (b \o d)[Len(b) + (i + j)] = d[i + j] BY <2>2
        <3>4. a \o c = b \o d BY <1>7
        <3>5. Len(a) + j = Len(b) + (i + j) BY <2>2
        <3> HIDE DEF i, e
        <3> QED BY <3>1, <3>2, <3>3, <3>4, <3>5
    <2>5. e = SubSeq(d, i + 1, Len(d)) /\ i + 1 \in 1 .. Len(d) + 1 BY <2>2
    <2> HIDE DEF i, e
    <2>6. e = c BY <2>3, <2>4, SeqEqual
    <2>7. \A h \in 1 .. Len(d) + 1 : SubSeq(d, h, Len(d)) = c => d = c
        BY DatabaseAssumption
    <2> QED BY <2>5, <2>6, <2>7
<1>8. k = kk
    <2>1. Len(k) <= Len(kk) \/ Len(kk) <= Len(k) BY <1>1
    <2> QED BY <1>1, <1>3, <1>4, <1>7, <2>1
<1>9. Prefix(m) = Prefix(n) BY <1>1, <1>3, <1>4, <1>8, SameStart
<1>10. m = n
    <2>1. <<":">> \in Seq(Field) BY <1>0
    <2>2. CASE Len(m) > 0 /\ Len(n) > 0
        <3>1. m \o <<":">> = n \o <<":">> BY <1>1, <1>5, <1>9, <2>2
        <3> QED BY <1>1, <2>1, <3>1, SameStart
    <2>3. CASE ~(Len(m) > 0) \/ ~(Len(n) > 0) BY <1>1, <1>5, <1>6, <1>9, <2>3
    <2> QED BY <2>2, <2>3
<1> QED BY <1>8, <1>10

----------------------------------------------------------------------------
(* Executing commands.                                                     *)

\* A set of indices has a greatest one.
LEMMA GreatestIndex ==
    ASSUME NEW n \in Nat, NEW S \in SUBSET (1 .. n), S # {}
    PROVE  \E i \in S : \A j \in S : j <= i
<1> DEFINE T == {m \in Nat : n - m \in S}
<1>1. PICK i \in S : TRUE OBVIOUS
<1>2. n - i \in T
    <2>1. n - i \in Nat /\ n - (n - i) = i OBVIOUS
    <2> QED BY <2>1
<1>3. T \in SUBSET Nat /\ T # {} BY <1>2
<1> HIDE DEF T
<1>4. PICK m \in T : \A t \in T : ~(<<t, m>> \in OpToRel(<, Nat))
    BY <1>3, WFMin, NatLessThanWellFounded
<1>5. m \in Nat /\ n - m \in S BY <1>4 DEF T
<1>6. ASSUME NEW j \in S PROVE j <= n - m
    <2>1. n - j \in Nat /\ n - (n - j) = j OBVIOUS
    <2>2. n - j \in T BY <2>1 DEF T
    <2>3. <<n - j, m>> \in Nat \X Nat BY <1>5, <2>1
    <2>4. ~(n - j < m) BY <1>4, <2>2, <2>3 DEF OpToRel
    <2> QED BY <1>5, <2>1, <2>4
<1> QED BY <1>5, <1>6

\* After the commands a key holds what the last of them on it wrote.
LEMMA ExecuteReads ==
    ASSUME NEW s \in [StoreKeys -> Nat], NEW cmds \in Seq(Command)
    PROVE  /\ Execute(s, cmds) \in [StoreKeys -> Nat]
           /\ \A k \in StoreKeys :
                 \/ /\ Execute(s, cmds)[k] = s[k]
                    /\ \A i \in 1 .. Len(cmds) : cmds[i].key # k
                 \/ \E i \in 1 .. Len(cmds) :
                       cmds[i].key = k /\ Execute(s, cmds)[k] = cmds[i].value
<1> DEFINE Hits(k) == {i \in 1 .. Len(cmds) : cmds[i].key = k}
           Last(k) == CHOOSE i \in Hits(k) : \A j \in Hits(k) : j <= i
<1>1. \A i \in 1 .. Len(cmds) : cmds[i].value \in Nat
    <2>1. \A i \in 1 .. Len(cmds) : cmds[i] \in Command BY ElementOfSeq
    <2> QED BY <2>1 DEF Command
<1>2. ASSUME NEW k \in StoreKeys, Hits(k) # {} PROVE Last(k) \in Hits(k)
    <2>1. Len(cmds) \in Nat /\ Hits(k) \in SUBSET (1 .. Len(cmds)) OBVIOUS
    <2> HIDE DEF Hits
    <2>2. \E i \in Hits(k) : \A j \in Hits(k) : j <= i BY <1>2, <2>1, GreatestIndex
    <2> QED BY <2>2
<1>3. Execute(s, cmds) =
        [k \in StoreKeys |-> IF Hits(k) = {} THEN s[k] ELSE cmds[Last(k)].value]
    BY DEF Execute
<1>4. ASSUME NEW k \in StoreKeys
      PROVE  /\ Execute(s, cmds)[k] \in Nat
             /\ \/ /\ Execute(s, cmds)[k] = s[k]
                   /\ \A i \in 1 .. Len(cmds) : cmds[i].key # k
                \/ \E i \in 1 .. Len(cmds) :
                      cmds[i].key = k /\ Execute(s, cmds)[k] = cmds[i].value
    <2>1. CASE Hits(k) = {}
        <3>1. Execute(s, cmds)[k] = s[k] BY <1>3, <2>1
        <3> QED BY <2>1, <3>1
    <2>2. CASE Hits(k) # {}
        <3>1. Execute(s, cmds)[k] = cmds[Last(k)].value BY <1>3, <2>2
        <3>2. Last(k) \in 1 .. Len(cmds) /\ cmds[Last(k)].key = k BY <1>2, <2>2
        <3> HIDE DEF Last
        <3> QED BY <1>1, <3>1, <3>2
    <2> QED BY <2>1, <2>2
<1> HIDE DEF Hits, Last
<1>5. Execute(s, cmds) \in [StoreKeys -> Nat] BY <1>3, <1>4
<1> QED BY <1>4, <1>5

----------------------------------------------------------------------------
(* The inductive invariant.                                                *)

\* What the i-th command of a batch may be: the version numbers come last,
\* in that order, once all nodes are in this batch or in an earlier one.
Queueable(ns, t, i) ==
    LET w == t.writes
        latest == Cmd(ns, latestVersionKey, t.commit)
        oldest == Cmd(ns, recentVersionNumberKey, t.commit)
    IN  \/ \E k \in RecordKeys : w[i] = Cmd(ns, k, t.commit)
        \/ w[i] = Cmd(ns, ScratchKey, 0)
        \/ /\ t.last /\ w[i] = latest
           /\ i = Len(w) \/ (i + 1 = Len(w) /\ w[i + 1] = oldest)
        \/ /\ t.last /\ w[i] = oldest
           /\ i = Len(w) /\ i > 1 /\ w[i - 1] = latest

BatchOK(ns, t) ==
    /\ t.size = Len(t.writes)
    /\ t.size <= batchSizeLimit + 3
    /\ t.at = "add" => t.size <= batchSizeLimit + 1 /\ ~t.last
    /\ t.at # "exec" => t.executed = 0
    /\ t.at \in {"idle", "panic"} => t.writes = <<>>
    /\ t.last => t.todo = {}
    /\ \A i \in 1 .. Len(t.writes) : Queueable(ns, t, i)

\* The command for a key is queued and not executed.
Pending(ns, t, k) ==
    \E i \in 1 .. Len(t.writes) :
        i > t.executed /\ t.writes[i] = Cmd(ns, k, t.commit)

Busy(t) == t.at \in {"add", "write", "exec"}

\* The store is at the last acknowledged commit a or in the middle of the
\* next, the records before the version; what the commit under way has handed
\* over is stored or still in its batch. g: what the handle reads.
OrderOK(ns, t, a, g) ==
    LET L == g[latestVersionKey]
    IN  /\ L \in {a, a + 1}
        /\ \A k \in RecordKeys : g[k] \in {a, a + 1}
        /\ L = a + 1 => \A k \in RecordKeys : g[k] = a + 1
        /\ Busy(t) =>
              /\ t.commit = a + 1
              /\ \A k \in RecordKeys \ t.todo : g[k] = a + 1 \/ Pending(ns, t, k)
              /\ t.last => L = a + 1 \/ Pending(ns, t, latestVersionKey)

Reads(ns) == [k \in AllKeys |-> Get(ns, k)]

\* A memory database that was closed has lost everything.
Lost == kind = "memory" /\ ~open

Inv ==
    /\ TypeOK
    /\ \A ns \in Namespaces : BatchOK(ns, tree[ns])
    /\ \A ns \in Namespaces : tree[ns].at = "exec" => kind = "redis"
    /\ ~Lost => \A ns \in Namespaces : OrderOK(ns, tree[ns], acked[ns], Reads(ns))

----------------------------------------------------------------------------
(* A step of one handle leaves the others alone.                           *)

\* Executing commands of one handle changes what no other handle reads.
LEMMA ExecuteFrame ==
    ASSUME TypeOK, NEW ns \in Namespaces, NEW cmds \in Seq(Command),
           \A i \in 1 .. Len(cmds) : \E k \in AllKeys : cmds[i].key = wrapKey(ns, k),
           NEW m \in Namespaces \ {ns}, NEW k \in AllKeys
    PROVE  Execute(store, cmds)[wrapKey(m, k)] = Get(m, k)
<1>1. \A i \in 1 .. Len(cmds) : cmds[i].key # wrapKey(m, k)
    BY WrapKeyInjective
<1>2. wrapKey(m, k) \in StoreKeys BY KeyTypes
<1>3. store \in [StoreKeys -> Nat] BY DEF TypeOK
<1>4. \/ Execute(store, cmds)[wrapKey(m, k)] = store[wrapKey(m, k)]
      \/ \E i \in 1 .. Len(cmds) : cmds[i].key = wrapKey(m, k)
    BY <1>2, <1>3, ExecuteReads
<1> QED BY <1>1, <1>4 DEF Get

----------------------------------------------------------------------------
(* One lemma per operation: it keeps the invariant of its own handle.      *)

\* Facts about a handle.
LEMMA HandleFacts ==
    ASSUME Inv, NEW ns \in Namespaces
    PROVE  /\ tree \in [Namespaces -> TreeState] /\ tree[ns] \in TreeState
           /\ tree[ns].at \in {"idle", "add", "write", "exec", "panic"}
           /\ tree[ns].commit \in Nat /\ tree[ns].todo \in SUBSET RecordKeys
           /\ tree[ns].writes \in Seq(Command) /\ tree[ns].size \in Nat
           /\ Len(tree[ns].writes) \in Nat
           /\ tree[ns].last \in BOOLEAN /\ tree[ns].executed \in Nat
           /\ tree[ns].retries \in 0 .. MaxRetries
           /\ tree[ns].executed <= Len(tree[ns].writes)
           /\ acked \in [Namespaces -> Nat] /\ acked[ns] \in Nat
           /\ store \in [StoreKeys -> Nat] /\ \A k \in AllKeys : Get(ns, k) \in Nat
           /\ batchSizeLimit \in Nat /\ MaxRetries \in Nat
<1>1. tree[ns] \in TreeState BY DEF Inv, TypeOK
<1>2. \A k \in AllKeys : Get(ns, k) \in Nat BY KeyTypes DEF Inv, TypeOK, Get
<1> QED BY <1>1, <1>2, DatabaseAssumption DEF Inv, TypeOK, TreeState

\* A step that gives one handle the state t and the reads g, and leaves the
\* other handles alone.
LEMMA HandleStep ==
    ASSUME Inv, NEW ns \in Namespaces, NEW t \in TreeState, NEW a \in Nat,
           t.executed <= Len(t.writes), kind' = kind, open' \in BOOLEAN,
           tree' = [tree EXCEPT ![ns] = t], acked' = [acked EXCEPT ![ns] = a],
           store' \in [StoreKeys -> Nat], ~Lost' => ~Lost,
           ~Lost' => \A m \in Namespaces \ {ns} : Reads(m)' = Reads(m),
           BatchOK(ns, t), t.at = "exec" => kind = "redis",
           ~Lost' => OrderOK(ns, t, a, Reads(ns)')
    PROVE  Inv'
<1>1. /\ tree' \in [Namespaces -> TreeState] /\ acked' \in [Namespaces -> Nat]
      /\ tree'[ns] = t /\ acked'[ns] = a
      /\ \A m \in Namespaces \ {ns} : tree'[m] = tree[m] /\ acked'[m] = acked[m]
    BY HandleFacts
<1>2. TypeOK' BY <1>1 DEF Inv, TypeOK
<1>3. \A m \in Namespaces : BatchOK(m, tree[m])' BY <1>1 DEF Inv
<1>4. ~Lost' => \A m \in Namespaces : OrderOK(m, tree[m], acked[m], Reads(m))'
    <2> SUFFICES ASSUME ~Lost', NEW m \in Namespaces
                 PROVE  OrderOK(m, tree'[m], acked'[m], Reads(m)')
        OBVIOUS
    <2>1. CASE m = ns BY <1>1, <2>1
    <2>2. CASE m # ns
        <3>1. OrderOK(m, tree[m], acked[m], Reads(m)) BY DEF Inv
        <3>2. tree'[m] = tree[m] /\ acked'[m] = acked[m] /\ Reads(m)' = Reads(m)
            BY <1>1, <2>2
        <3> QED BY <3>1, <3>2
    <2> QED BY <2>1, <2>2
<1>5. \A m \in Namespaces : tree'[m].at = "exec" => kind' = "redis" BY <1>1 DEF Inv
<1> QED BY <1>2, <1>3, <1>4, <1>5 DEF Inv

\* A step that changes the tree of one handle only.
LEMMA TreeStep ==
    ASSUME Inv, NEW ns \in Namespaces, NEW t \in TreeState, t.executed <= Len(t.writes),
           tree' = [tree EXCEPT ![ns] = t], UNCHANGED <<kind, open, store, acked>>,
           BatchOK(ns, t), t.at = "exec" => kind = "redis",
           ~Lost => OrderOK(ns, t, acked[ns], Reads(ns))
    PROVE  Inv'
<1>1. \A m : Reads(m)' = Reads(m) BY DEF Reads, Get
<1>2. acked' = [acked EXCEPT ![ns] = acked[ns]] /\ acked[ns] \in Nat BY HandleFacts
<1>3. (Lost' <=> Lost) /\ store' \in [StoreKeys -> Nat] /\ open' \in BOOLEAN
    BY HandleFacts DEF Lost, Inv, TypeOK
<1> QED BY <1>1, <1>2, <1>3, HandleStep

\* The state of a tree between two calls.
LEMMA IdleState ==
    ASSUME NEW n \in Nat
    PROVE  /\ Idle(n) \in TreeState
           /\ Idle(n).at = "idle" /\ Idle(n).commit = n /\ Idle(n).todo = {}
           /\ Idle(n).writes = <<>> /\ Idle(n).size = 0 /\ Idle(n).last = FALSE
           /\ Idle(n).executed = 0 /\ Idle(n).retries = 0
BY DatabaseAssumption DEF Idle, TreeState

\* A command of a handle.
LEMMA CmdType ==
    ASSUME NEW ns \in Namespaces, NEW k \in AllKeys, NEW v \in Nat
    PROVE  /\ Cmd(ns, k, v) \in Command
           /\ Cmd(ns, k, v).key = wrapKey(ns, k) /\ Cmd(ns, k, v).value = v
BY KeyTypes DEF Cmd, Command

\* Queueing commands changes the batch only.
LEMMA QueuedState ==
    ASSUME NEW b \in TreeState, NEW cmds \in Seq(Command)
    PROVE  /\ Queued(b, cmds) \in TreeState
           /\ Queued(b, cmds).writes = b.writes \o cmds
           /\ Queued(b, cmds).size = b.size + Len(cmds)
           /\ Queued(b, cmds).at = b.at /\ Queued(b, cmds).commit = b.commit
           /\ Queued(b, cmds).todo = b.todo /\ Queued(b, cmds).last = b.last
           /\ Queued(b, cmds).executed = b.executed /\ Queued(b, cmds).retries = b.retries
<1>1. b.writes \o cmds \in Seq(Command) /\ b.size + Len(cmds) \in Nat
    BY DEF TreeState
<1>2. Queued(b, cmds) \in TreeState BY <1>1, Zenon DEF TreeState, Queued
<1>3. Queued(b, cmds).last = b.last BY DEF Queued, TreeState
<1>4. /\ Queued(b, cmds).writes = b.writes \o cmds
      /\ Queued(b, cmds).size = b.size + Len(cmds)
      /\ Queued(b, cmds).at = b.at /\ Queued(b, cmds).commit = b.commit
      /\ Queued(b, cmds).todo = b.todo
      /\ Queued(b, cmds).executed = b.executed /\ Queued(b, cmds).retries = b.retries
    BY DEF Queued, TreeState
<1> QED BY <1>2, <1>3, <1>4

\* NewBatch starts from an empty batch.
LEMMA NewBatchInv ==
    ASSUME Inv, NEW ns \in Namespaces, NewBatch(ns) PROVE Inv'
<1> DEFINE n == acked[ns] + 1
           t == [Idle(n) EXCEPT !.at = "add", !.todo = RecordKeys]
<1>0. n \in Nat BY HandleFacts
<1>1. t \in TreeState
    <2>1. Idle(n) \in TreeState BY <1>0, IdleState
    <2> QED BY <2>1, Zenon DEF TreeState
<1>2. /\ t.at = "add" /\ t.commit = n /\ t.todo = RecordKeys /\ t.writes = <<>>
      /\ t.size = 0 /\ t.last = FALSE /\ t.executed = 0
    BY DEF Idle
<1>3. tree' = [tree EXCEPT ![ns] = t] /\ UNCHANGED <<kind, open, store, acked>>
    BY DEF NewBatch
<1> HIDE DEF t
<1>4. BatchOK(ns, t) BY <1>2, HandleFacts DEF BatchOK
<1>5. ASSUME ~Lost PROVE OrderOK(ns, t, acked[ns], Reads(ns))
    <2>1. OrderOK(ns, tree[ns], acked[ns], Reads(ns)) BY <1>5 DEF Inv
    <2> QED BY <1>2, <2>1, HandleFacts DEF OrderOK, Busy
<1>6. t.executed <= Len(t.writes) BY <1>2
<1> QED BY <1>1, <1>2, <1>3, <1>4, <1>5, <1>6, TreeStep

\* t is tree state s, whose batch is being filled, with commands at its end.
Queues(ns, s, t, cmds) ==
    /\ t.writes = s.writes \o cmds
    /\ t.size = s.size + Len(cmds)
    /\ t.commit = s.commit /\ t.executed = s.executed
    /\ t.at \in {"add", "write"}
    /\ t.at = "add" => t.size <= batchSizeLimit + 1 /\ ~t.last
    /\ t.last => t.todo = {}
    /\ \A i \in Len(s.writes) + 1 .. Len(t.writes) : Queueable(ns, t, i)
    /\ t.todo \subseteq s.todo
    /\ \A k \in s.todo \ t.todo : \E i \in 1 .. Len(cmds) : cmds[i] = Cmd(ns, k, t.commit)
    /\ t.last => \E i \in 1 .. Len(cmds) : cmds[i] = Cmd(ns, latestVersionKey, t.commit)

\* Queueing commands keeps the invariant.
LEMMA QueueingInv ==
    ASSUME Inv, NEW ns \in Namespaces, tree[ns].at = "add", NEW t \in TreeState,
           NEW cmds \in Seq(Command), Len(cmds) <= 2, Queues(ns, tree[ns], t, cmds),
           tree' = [tree EXCEPT ![ns] = t], UNCHANGED <<kind, open, store, acked>>
    PROVE  Inv'
<1> DEFINE s == tree[ns]
           w == s.writes
<1>q. Queues(ns, s, t, cmds) OBVIOUS
<1>0. w \in Seq(Command) /\ Len(w) \in Nat /\ Len(cmds) \in Nat BY HandleFacts
<1>s. /\ s \in TreeState /\ s.executed = 0 /\ s.size = Len(w) /\ ~s.last /\ s.at = "add"
      /\ s.size <= batchSizeLimit + 1
      /\ \A i \in 1 .. Len(w) : Queueable(ns, s, i)
    BY HandleFacts DEF Inv, BatchOK
<1>1. /\ Len(t.writes) = Len(w) + Len(cmds)
      /\ \A i \in 1 .. Len(w) : t.writes[i] = w[i]
      /\ \A i \in 1 .. Len(cmds) : t.writes[Len(w) + i] = cmds[i]
    <2>1. t.writes = w \o cmds BY DEF Queues
    <2> HIDE DEF w
    <2> QED BY <1>0, <2>1, ConcatProperties
<1>2. ASSUME NEW i \in 1 .. Len(w) PROVE Queueable(ns, t, i)
    <2>1. \/ \E k \in RecordKeys : w[i] = Cmd(ns, k, t.commit)
          \/ w[i] = Cmd(ns, ScratchKey, 0)
        BY <1>q, <1>s DEF Queues, Queueable
    <2> QED BY <1>1, <2>1 DEF Queueable
<1>3. BatchOK(ns, t)
    <2>1. \A i \in 1 .. Len(t.writes) : Queueable(ns, t, i) BY <1>0, <1>1, <1>2, <1>q DEF Queues
    <2>2. t.size = Len(t.writes) /\ t.size <= batchSizeLimit + 3 /\ t.executed = 0
        BY <1>0, <1>1, <1>s, <1>q, HandleFacts DEF Queues
    <2> QED BY <1>q, <2>1, <2>2 DEF BatchOK, Queues
<1>4. ASSUME ~Lost PROVE OrderOK(ns, t, acked[ns], Reads(ns))
    <2> DEFINE g == Reads(ns)
               a == acked[ns]
    <2>1. OrderOK(ns, s, a, g) /\ Busy(s) BY <1>4, <1>s DEF Inv, Busy
    <2>2. ASSUME NEW k, Pending(ns, s, k) PROVE Pending(ns, t, k)
        <3>1. PICK i \in 1 .. Len(w) : i > t.executed /\ w[i] = Cmd(ns, k, t.commit)
            BY <2>2, <1>q DEF Pending, Queues
        <3>2. i \in 1 .. Len(t.writes) BY <1>0, <1>1
        <3> QED BY <1>1, <3>1, <3>2 DEF Pending
    <2>3. ASSUME NEW k, NEW j \in 1 .. Len(cmds), cmds[j] = Cmd(ns, k, t.commit)
          PROVE  Pending(ns, t, k)
        <3>1. Len(w) + j \in 1 .. Len(t.writes) /\ Len(w) + j > t.executed
            BY <1>0, <1>1, <1>s, <1>q DEF Queues
        <3>2. t.writes[Len(w) + j] = Cmd(ns, k, t.commit) BY <1>1, <2>3
        <3> QED BY <3>1, <3>2 DEF Pending
    <2> HIDE DEF s, w, g, a
    <2>4. ASSUME NEW k \in RecordKeys \ t.todo
          PROVE  g[k] = a + 1 \/ Pending(ns, t, k)
        <3>1. CASE k \in s.todo BY <1>q, <2>3, <3>1 DEF Queues
        <3>2. CASE k \notin s.todo BY <2>1, <2>2, <3>2 DEF OrderOK
        <3> QED BY <3>1, <3>2
    <2>5. t.last => Pending(ns, t, latestVersionKey) BY <1>q, <2>3 DEF Queues
    <2>6. t.commit = a + 1 BY <1>q, <2>1 DEF Queues, OrderOK
    <2>7. OrderOK(ns, t, a, g) BY <2>1, <2>4, <2>5, <2>6 DEF OrderOK
    <2> QED BY <2>7 DEF a, g
<1>5. t.executed <= Len(t.writes) BY <1>0, <1>1, <1>s, <1>q DEF Queues
<1>6. t.at # "exec" BY <1>q DEF Queues
<1> QED BY <1>3, <1>4, <1>5, <1>6, TreeStep

\* batch.Delete queues one command.
LEMMA BatchDeleteInv ==
    ASSUME Inv, NEW ns \in Namespaces, BatchDelete(ns) PROVE Inv'
<1> DEFINE c == Cmd(ns, ScratchKey, 0)
           t == Queued(tree[ns], <<c>>)
<1>1. <<c>> \in Seq(Command) /\ Len(<<c>>) = 1 BY CmdType, KeyTypes
<1>2. /\ t \in TreeState /\ t.writes = tree[ns].writes \o <<c>>
      /\ t.size = tree[ns].size + 1 /\ t.at = tree[ns].at
      /\ t.commit = tree[ns].commit /\ t.todo = tree[ns].todo
      /\ t.last = tree[ns].last /\ t.executed = tree[ns].executed
    BY <1>1, HandleFacts, QueuedState
<1>3. /\ tree[ns].at = "add" /\ tree[ns].writes = <<>>
      /\ tree' = [tree EXCEPT ![ns] = t] /\ UNCHANGED <<kind, open, store, acked>>
    BY DEF BatchDelete
<1> HIDE DEF t
<1>4. tree[ns].size = 0 /\ ~tree[ns].last BY <1>3 DEF Inv, BatchOK
<1>5. t.writes = <<c>> BY <1>1, <1>2, <1>3
<1>6. \A i \in Len(tree[ns].writes) + 1 .. Len(t.writes) : Queueable(ns, t, i)
    BY <1>3, <1>5 DEF Queueable
<1> HIDE DEF c
<1>7. Queues(ns, tree[ns], t, <<c>>)
    BY <1>1, <1>2, <1>3, <1>4, <1>6, HandleFacts DEF Queues
<1>8. Len(<<c>>) <= 2 BY <1>1
<1>9. t \in TreeState BY <1>2
<1> QED BY <1>1, <1>3, <1>7, <1>8, <1>9, QueueingInv

\* writeNode queues the command of one node.
LEMMA WriteNodeInv ==
    ASSUME Inv, NEW ns \in Namespaces, NEW k \in RecordKeys, WriteNode(ns, k) PROVE Inv'
<1> DEFINE c == Cmd(ns, k, tree[ns].commit)
           q == Queued(tree[ns], <<c>>)
           t == [q EXCEPT !.todo = @ \ {k},
                          !.at = IF q.size > batchSizeLimit THEN "write" ELSE "add"]
<1>1. <<c>> \in Seq(Command) /\ Len(<<c>>) = 1 BY CmdType, KeyTypes, HandleFacts
<1>2. /\ q \in TreeState /\ q.writes = tree[ns].writes \o <<c>>
      /\ q.size = tree[ns].size + 1 /\ q.at = tree[ns].at
      /\ q.commit = tree[ns].commit /\ q.todo = tree[ns].todo
      /\ q.last = tree[ns].last /\ q.executed = tree[ns].executed
    BY <1>1, HandleFacts, QueuedState
<1>3. /\ q.at = "add" /\ k \in q.todo
      /\ tree' = [tree EXCEPT ![ns] = t] /\ UNCHANGED <<kind, open, store, acked>>
    BY DEF WriteNode
<1> HIDE DEF q
<1>4. t \in TreeState
    <2>1. q.todo \ {k} \in SUBSET RecordKeys BY <1>2 DEF TreeState
    <2>2. [q EXCEPT !.todo = @ \ {k}] \in TreeState BY <1>2, <2>1, Zenon DEF TreeState
    <2> QED BY <1>2, <2>1, Zenon DEF TreeState
<1>5. t.last = q.last BY <1>2 DEF TreeState
<1>6. /\ t.writes = q.writes /\ t.size = q.size /\ t.commit = q.commit
      /\ t.todo = q.todo \ {k} /\ t.executed = q.executed
      /\ t.at = IF q.size > batchSizeLimit THEN "write" ELSE "add"
    BY <1>2 DEF TreeState
<1> HIDE DEF t
<1>7. tree[ns].at = "add" /\ ~tree[ns].last BY <1>2, <1>3 DEF Inv, BatchOK
<1>8. /\ Len(t.writes) = Len(tree[ns].writes) + 1
      /\ t.writes[Len(t.writes)] = c
    BY <1>1, <1>2, <1>6, HandleFacts
<1>9. ASSUME NEW i \in Len(tree[ns].writes) + 1 .. Len(t.writes) PROVE Queueable(ns, t, i)
    <2>1. i = Len(t.writes)
        <3> DEFINE n == Len(tree[ns].writes)
        <3>1. n \in Nat /\ Len(t.writes) = n + 1 /\ i \in n + 1 .. Len(t.writes)
            BY <1>8, HandleFacts
        <3> HIDE DEF n
        <3> QED BY <3>1
    <2>2. t.writes[i] = Cmd(ns, k, t.commit) BY <1>2, <1>6, <1>8, <2>1
    <2> QED BY <2>2 DEF Queueable
<1>10. \A kk \in tree[ns].todo \ t.todo :
           \E i \in 1 .. Len(<<c>>) : <<c>>[i] = Cmd(ns, kk, t.commit)
    BY <1>1, <1>2, <1>6
<1>11. t.at = "add" => t.size <= batchSizeLimit + 1 /\ ~t.last
    BY <1>2, <1>5, <1>6, <1>7, HandleFacts
<1> HIDE DEF c
<1>12. Queues(ns, tree[ns], t, <<c>>)
    BY <1>1, <1>2, <1>5, <1>6, <1>7, <1>9, <1>10, <1>11 DEF Queues
<1>13. Len(<<c>>) <= 2 BY <1>1
<1> QED BY <1>1, <1>3, <1>4, <1>7, <1>12, <1>13, QueueingInv

\* The version numbers are queued when no node is left.
LEMMA WriteVersionInv ==
    ASSUME Inv, NEW ns \in Namespaces, NEW pruning \in BOOLEAN, WriteVersion(ns, pruning)
    PROVE  Inv'
<1> DEFINE latest == Cmd(ns, latestVersionKey, tree[ns].commit)
           oldest == Cmd(ns, recentVersionNumberKey, tree[ns].commit)
           cmds == IF pruning THEN <<latest, oldest>> ELSE <<latest>>
           q == Queued(tree[ns], cmds)
           t == [q EXCEPT !.at = "write", !.last = TRUE]
<1>0. latest \in Command /\ oldest \in Command BY CmdType, KeyTypes, HandleFacts
<1>1. /\ tree[ns].at = "add" /\ tree[ns].todo = {}
      /\ tree' = [tree EXCEPT ![ns] = t] /\ UNCHANGED <<kind, open, store, acked>>
    BY DEF WriteVersion
<1>2. /\ cmds \in Seq(Command) /\ Len(cmds) \in 1 .. 2 /\ cmds[1] = latest
      /\ Len(cmds) = 2 => cmds[2] = oldest
    <2> HIDE DEF latest, oldest
    <2> QED BY <1>0
<1> HIDE DEF cmds
<1>3. /\ q \in TreeState /\ q.writes = tree[ns].writes \o cmds
      /\ q.size = tree[ns].size + Len(cmds) /\ q.commit = tree[ns].commit
      /\ q.todo = tree[ns].todo /\ q.executed = tree[ns].executed
    BY <1>2, HandleFacts, QueuedState
<1> HIDE DEF q
<1>4. t \in TreeState BY <1>3, Zenon DEF TreeState
<1>5. /\ t.writes = q.writes /\ t.size = q.size /\ t.commit = q.commit
      /\ t.todo = q.todo /\ t.executed = q.executed /\ t.at = "write"
    BY <1>3 DEF TreeState
<1>6. t.last = TRUE BY <1>3 DEF TreeState
<1> HIDE DEF t
<1>7. /\ Len(t.writes) = Len(tree[ns].writes) + Len(cmds)
      /\ \A i \in 1 .. Len(cmds) : t.writes[Len(tree[ns].writes) + i] = cmds[i]
    <2> DEFINE w == tree[ns].writes
    <2>1. w \in Seq(Command) /\ Len(w) \in Nat BY HandleFacts
    <2>2. t.writes = w \o cmds BY <1>3, <1>5
    <2> HIDE DEF w
    <2>3. /\ Len(t.writes) = Len(w) + Len(cmds)
          /\ \A i \in 1 .. Len(cmds) : t.writes[Len(w) + i] = cmds[i]
        BY <1>2, <2>1, <2>2, ConcatProperties
    <2> QED BY <2>3 DEF w
<1>8. ASSUME NEW i \in Len(tree[ns].writes) + 1 .. Len(t.writes) PROVE Queueable(ns, t, i)
    <2> DEFINE n == Len(tree[ns].writes)
    <2>1. n \in Nat BY HandleFacts
    <2>2. t.writes[n + 1] = latest /\ (Len(cmds) = 2 => t.writes[n + 2] = oldest)
        BY <1>2, <1>7
    <2>3. /\ latest = Cmd(ns, latestVersionKey, t.commit)
          /\ oldest = Cmd(ns, recentVersionNumberKey, t.commit)
        BY <1>3, <1>5
    <2>4. Len(t.writes) = n + Len(cmds) BY <1>7
    <2>5. i \in n + 1 .. Len(t.writes) OBVIOUS
    <2> HIDE DEF n, latest, oldest
    <2>m. Len(cmds) = 1 \/ Len(cmds) = 2 BY <1>2
    <2>6. i = n + 1 \/ (i = n + 2 /\ Len(cmds) = 2)
        <3>1. CASE Len(cmds) = 1 BY <2>1, <2>4, <2>5, <3>1
        <3>2. CASE Len(cmds) = 2 BY <2>1, <2>4, <2>5, <3>2
        <3> QED BY <2>m, <3>1, <3>2
    <2>7. CASE i = n + 1
        <3>1. i = Len(t.writes) \/ (i + 1 = Len(t.writes) /\ t.writes[i + 1] = oldest)
            <4>1. CASE Len(cmds) = 1 BY <2>1, <2>4, <2>7, <4>1
            <4>2. CASE Len(cmds) = 2
                <5>1. i + 1 = n + 2 BY <2>1, <2>7
                <5> QED BY <2>1, <2>2, <2>4, <4>2, <5>1
            <4> QED BY <2>m, <4>1, <4>2
        <3> QED BY <1>6, <2>2, <2>3, <2>7, <3>1 DEF Queueable
    <2>8. CASE i = n + 2 /\ Len(cmds) = 2
        <3>1. i - 1 = n + 1 /\ i > 1 /\ i = Len(t.writes) BY <2>1, <2>4, <2>8
        <3> QED BY <1>6, <2>2, <2>3, <2>8, <3>1 DEF Queueable
    <2> QED BY <2>6, <2>7, <2>8
<1>9. \E i \in 1 .. Len(cmds) : cmds[i] = Cmd(ns, latestVersionKey, t.commit)
    BY <1>2, <1>3, <1>5
<1> HIDE DEF latest, oldest
<1>10. Queues(ns, tree[ns], t, cmds)
    BY <1>1, <1>2, <1>3, <1>5, <1>6, <1>8, <1>9 DEF Queues
<1>11. Len(cmds) <= 2
    <2>1. CASE Len(cmds) = 1 BY <2>1
    <2>2. CASE Len(cmds) = 2 BY <2>2
    <2> QED BY <1>2, <2>1, <2>2
<1> QED BY <1>1, <1>2, <1>4, <1>10, <1>11, QueueingInv

\* A pipeline is sent, or sent again from its start.
LEMMA SendInv ==
    ASSUME Inv, NEW ns \in Namespaces, Exec(ns) \/ ExecRetry(ns) PROVE Inv'
<1> DEFINE s == tree[ns]
           t == IF Exec(ns) THEN [s EXCEPT !.at = "exec"]
                ELSE [s EXCEPT !.executed = 0, !.retries = @ + 1]
<1>1. s \in TreeState /\ s.retries \in 0 .. MaxRetries /\ MaxRetries \in Nat BY HandleFacts
<1>2. /\ tree' = [tree EXCEPT ![ns] = t] /\ UNCHANGED <<kind, open, store, acked>>
      /\ s.at \in {"write", "exec"} /\ kind = "redis"
    BY HandleFacts DEF Exec, ExecRetry, Inv
<1>3. t \in TreeState
    <2>1. CASE Exec(ns)
        <3>1. [s EXCEPT !.at = "exec"] \in TreeState BY <1>1, Zenon DEF TreeState
        <3> QED BY <2>1, <3>1
    <2>2. CASE ~Exec(ns)
        <3>1. s.retries + 1 \in 0 .. MaxRetries BY <1>1, <2>2 DEF ExecRetry
        <3>2. [s EXCEPT !.executed = 0, !.retries = @ + 1] \in TreeState
            BY <1>1, <3>1, Zenon DEF TreeState
        <3> QED BY <2>2, <3>2
    <2> QED BY <2>1, <2>2
<1>4. /\ t.at = "exec" /\ t.commit = s.commit /\ t.todo = s.todo /\ t.writes = s.writes
      /\ t.size = s.size
    BY <1>1 DEF TreeState, Exec, ExecRetry
<1>5. t.last = s.last BY <1>1 DEF TreeState
<1>6. t.executed = 0
    <2>1. s.at = "write" => s.executed = 0 BY DEF Inv, BatchOK
    <2> QED BY <1>1, <2>1 DEF TreeState, Exec
<1> HIDE DEF t
<1>7. BatchOK(ns, s) BY DEF Inv
<1>8. BatchOK(ns, t)
    <2>1. \A i \in 1 .. Len(t.writes) : Queueable(ns, t, i)
        BY <1>4, <1>5, <1>7 DEF BatchOK, Queueable
    <2> QED BY <1>4, <1>5, <1>7, <2>1 DEF BatchOK
<1>9. ASSUME ~Lost PROVE OrderOK(ns, t, acked[ns], Reads(ns))
    <2>1. OrderOK(ns, s, acked[ns], Reads(ns)) /\ Busy(s) BY <1>2, <1>9 DEF Inv, Busy
    <2>2. ASSUME NEW k, Pending(ns, s, k) PROVE Pending(ns, t, k)
        BY <1>4, <1>6, <2>2, HandleFacts DEF Pending
    <2> HIDE DEF s
    <2> QED BY <1>4, <1>5, <2>1, <2>2 DEF OrderOK
<1>10. t.executed <= Len(t.writes) BY <1>4, <1>6, HandleFacts
<1> QED BY <1>2, <1>3, <1>8, <1>9, <1>10, TreeStep

\* A call that returns an error, or panics, leaves no batch.
LEMMA FailInv ==
    ASSUME Inv, NEW ns \in Namespaces, WriteFails(ns) \/ ExecFails(ns) PROVE Inv'
<1> DEFINE n == tree[ns].commit
           t == IF tree' = [tree EXCEPT ![ns] = Idle(n)] THEN Idle(n)
                ELSE [Idle(n) EXCEPT !.at = "panic"]
<1>0. n \in Nat BY HandleFacts
<1>1. tree' = [tree EXCEPT ![ns] = t] /\ UNCHANGED <<kind, open, store, acked>>
    BY HandleFacts DEF WriteFails, ExecFails, Fail
<1>2. t \in TreeState
    <2>1. Idle(n) \in TreeState BY <1>0, IdleState
    <2>2. [Idle(n) EXCEPT !.at = "panic"] \in TreeState BY <2>1, Zenon DEF TreeState
    <2> QED BY <2>1, <2>2
<1>3. /\ t.at \in {"idle", "panic"} /\ t.writes = <<>> /\ t.size = 0
      /\ t.last = FALSE /\ t.executed = 0
    BY DEF Idle
<1> HIDE DEF t
<1>4. BatchOK(ns, t) BY <1>3, HandleFacts DEF BatchOK
<1>5. ASSUME ~Lost PROVE OrderOK(ns, t, acked[ns], Reads(ns))
    <2>1. OrderOK(ns, tree[ns], acked[ns], Reads(ns)) BY <1>5 DEF Inv
    <2> QED BY <1>3, <2>1 DEF OrderOK, Busy
<1>6. t.executed <= Len(t.writes) /\ t.at # "exec" BY <1>3
<1> QED BY <1>1, <1>2, <1>4, <1>5, <1>6, TreeStep

----------------------------------------------------------------------------
(* What the commands of a batch do to the store.                           *)

\* The commands of a batch are its handle's.
LEMMA BatchCommands ==
    ASSUME Inv, NEW ns \in Namespaces, NEW i \in 1 .. Len(tree[ns].writes)
    PROVE  LET c == tree[ns].writes[i]
           IN  /\ c \in Command
               /\ \E k \in AllKeys : c.key = wrapKey(ns, k)
               /\ \A k \in TreeKeys :
                      c.key = wrapKey(ns, k) => c = Cmd(ns, k, tree[ns].commit)
<1> DEFINE c == tree[ns].writes[i]
           n == tree[ns].commit
<1>1. n \in Nat /\ c \in Command BY HandleFacts, ElementOfSeq
<1>2. Queueable(ns, tree[ns], i) BY DEF Inv, BatchOK
<1>3. \/ \E k \in TreeKeys : c = Cmd(ns, k, n)
      \/ c = Cmd(ns, ScratchKey, 0)
    BY <1>2, KeyTypes DEF Queueable, TreeKeys
<1> HIDE DEF c, n
<1>4. CASE \E k \in TreeKeys : c = Cmd(ns, k, n)
    <2>1. PICK k \in TreeKeys : c = Cmd(ns, k, n) BY <1>4
    <2>2. k \in AllKeys /\ c.key = wrapKey(ns, k) BY <1>1, <2>1, CmdType, KeyTypes
    <2>3. ASSUME NEW kk \in TreeKeys, c.key = wrapKey(ns, kk) PROVE c = Cmd(ns, kk, n)
        <3>1. k = kk BY <2>2, <2>3, KeyTypes, WrapKeyInjective
        <3> QED BY <2>1, <3>1
    <2> QED BY <1>1, <2>2, <2>3 DEF c, n
<1>5. CASE c = Cmd(ns, ScratchKey, 0)
    <2>1. ScratchKey \in AllKeys /\ c.key = wrapKey(ns, ScratchKey) BY <1>5, CmdType, KeyTypes
    <2>2. ASSUME NEW kk \in TreeKeys, c.key = wrapKey(ns, kk) PROVE FALSE
        <3>1. ScratchKey = kk BY <2>1, <2>2, KeyTypes, WrapKeyInjective
        <3> QED BY <3>1, DatabaseAssumption
    <2> QED BY <1>1, <2>1, <2>2 DEF c, n
<1> QED BY <1>3, <1>4, <1>5

\* Two commands of a batch on two keys are different.
LEMMA CommandsDiffer ==
    ASSUME NEW ns \in Namespaces, NEW k \in TreeKeys, NEW kk \in TreeKeys, NEW n \in Nat,
           Cmd(ns, k, n) = Cmd(ns, kk, n)
    PROVE  k = kk
BY CmdType, KeyTypes, WrapKeyInjective

\* cmds are commands of the batch of ns.
FromBatch(ns, cmds) ==
    /\ cmds \in Seq(Command)
    /\ \A i \in 1 .. Len(cmds) : \E j \in 1 .. Len(tree[ns].writes) : cmds[i] = tree[ns].writes[j]

\* The commands of a batch write its commit under their keys.
LEMMA OwnExecute ==
    ASSUME Inv, NEW ns \in Namespaces, NEW cmds, FromBatch(ns, cmds), NEW k \in TreeKeys
    PROVE  LET c == Cmd(ns, k, tree[ns].commit)
               r == Execute(store, cmds)[wrapKey(ns, k)]
           IN  \/ r = Get(ns, k) /\ \A i \in 1 .. Len(cmds) : cmds[i] # c
               \/ r = tree[ns].commit /\ \E i \in 1 .. Len(cmds) : cmds[i] = c
<1> DEFINE c == Cmd(ns, k, tree[ns].commit)
           key == wrapKey(ns, k)
           r == Execute(store, cmds)[key]
<1>1. key \in StoreKeys /\ store \in [StoreKeys -> Nat] /\ cmds \in Seq(Command)
    BY KeyTypes, HandleFacts DEF FromBatch
<1>2. c.key = key /\ c.value = tree[ns].commit BY HandleFacts, KeyTypes, CmdType
<1>3. ASSUME NEW i \in 1 .. Len(cmds), cmds[i].key = key PROVE cmds[i] = c
    BY <1>3, BatchCommands DEF FromBatch
<1> HIDE DEF c, key
<1>4. \/ r = store[key] /\ \A i \in 1 .. Len(cmds) : cmds[i].key # key
      \/ \E i \in 1 .. Len(cmds) : cmds[i].key = key /\ r = cmds[i].value
    BY <1>1, ExecuteReads
<1>5. CASE r = store[key] /\ \A i \in 1 .. Len(cmds) : cmds[i].key # key
    <2>1. \A i \in 1 .. Len(cmds) : cmds[i] # c BY <1>2, <1>5
    <2> QED BY <1>5, <2>1 DEF Get, c, key
<1>6. CASE \E i \in 1 .. Len(cmds) : cmds[i].key = key /\ r = cmds[i].value
    BY <1>2, <1>3, <1>6 DEF c, key
<1> QED BY <1>4, <1>5, <1>6

\* No other handle reads anything else after them.
LEMMA OthersExecute ==
    ASSUME Inv, NEW ns \in Namespaces, NEW cmds, FromBatch(ns, cmds),
           store' = Execute(store, cmds), NEW m \in Namespaces \ {ns}
    PROVE  Reads(m)' = Reads(m)
<1>1. cmds \in Seq(Command) BY DEF FromBatch
<1>2. \A i \in 1 .. Len(cmds) : \E k \in AllKeys : cmds[i].key = wrapKey(ns, k)
    BY BatchCommands DEF FromBatch
<1>3. ASSUME NEW k \in AllKeys PROVE Get(m, k)' = Get(m, k)
    <2>1. Execute(store, cmds)[wrapKey(m, k)] = Get(m, k)
        BY <1>1, <1>2, ExecuteFrame DEF Inv
    <2> QED BY <2>1 DEF Get
<1> QED BY <1>3 DEF Reads

\* The handle's reads go on from g to h while t is written: towards t's
\* commit, and in the order records, version, recentVersionNumber.
Progress(t, g, h) ==
    LET c == t.commit
    IN  /\ \A k \in RecordKeys : h[k] \in {g[k], c}
        /\ h[latestVersionKey] \in {g[latestVersionKey], c}
        /\ h[recentVersionNumberKey] \in {g[recentVersionNumberKey], c}
        /\ h[latestVersionKey] = c => \A k \in RecordKeys : h[k] = c
        /\ h[recentVersionNumberKey] # g[recentVersionNumberKey] => h[latestVersionKey] = c

\* A batch written as a whole.
LEMMA WholeProgress ==
    ASSUME Inv, ~Lost, NEW ns \in Namespaces, WriteWhole(ns)
    PROVE  LET t == tree[ns]
               h == Reads(ns)'
           IN  /\ t.commit = acked[ns] + 1
               /\ FromBatch(ns, t.writes)
               /\ Progress(t, Reads(ns), h)
               /\ \A k \in RecordKeys \ t.todo : h[k] = t.commit
               /\ t.last => h[latestVersionKey] = t.commit
<1> DEFINE t == tree[ns]
           w == t.writes
           g == Reads(ns)
           h == Reads(ns)'
           n == t.commit
<1>1. w \in Seq(Command) /\ n \in Nat BY HandleFacts
<1>2. FromBatch(ns, w) BY <1>1 DEF FromBatch
<1>3. ASSUME NEW k \in TreeKeys
      PROVE  \/ h[k] = g[k] /\ \A i \in 1 .. Len(w) : w[i] # Cmd(ns, k, n)
             \/ h[k] = n /\ \E i \in 1 .. Len(w) : w[i] = Cmd(ns, k, n)
    <2>1. k \in AllKeys BY KeyTypes
    <2>2. h[k] = Execute(store, w)[wrapKey(ns, k)] BY <2>1 DEF Reads, Get, WriteWhole
    <2>3. g[k] = Get(ns, k) BY <2>1 DEF Reads
    <2> HIDE DEF h, g
    <2> QED BY <1>2, <2>2, <2>3, OwnExecute
<1>4. OrderOK(ns, t, acked[ns], g) /\ Busy(t) BY DEF Inv, WriteWhole, Busy
<1>5. n = acked[ns] + 1 BY <1>4 DEF OrderOK
<1>6. BatchOK(ns, t) BY DEF Inv
<1> HIDE DEF g, h, n
<1>7. ASSUME NEW k \in TreeKeys, g[k] = n \/ Pending(ns, t, k) PROVE h[k] = n
    BY <1>3, <1>7 DEF Pending, n
<1>8. ASSUME NEW k \in RecordKeys \ t.todo PROVE h[k] = n
    BY <1>4, <1>5, <1>7 DEF OrderOK, TreeKeys
<1>9. t.last => h[latestVersionKey] = n
    BY <1>4, <1>5, <1>7, KeyTypes DEF OrderOK
<1>10. ASSUME NEW k \in {latestVersionKey, recentVersionNumberKey}, NEW i \in 1 .. Len(w),
              w[i] = Cmd(ns, k, n)
       PROVE  t.last /\ t.todo = {}
    <2>1. Queueable(ns, t, i) /\ (t.last => t.todo = {}) BY <1>6 DEF BatchOK
    <2>2. ASSUME NEW kk \in RecordKeys, w[i] = Cmd(ns, kk, n) PROVE FALSE
        BY <1>1, <1>10, <2>2, CommandsDiffer, KeyTypes, DatabaseAssumption DEF TreeKeys
    <2>3. w[i] # Cmd(ns, ScratchKey, 0)
        <3>1. w[i].key = wrapKey(ns, k) /\ k \in AllKeys /\ k \in TreeKeys
            BY <1>1, <1>10, CmdType, KeyTypes
        <3>2. ScratchKey \in AllKeys /\ ScratchKey # k BY <3>1, KeyTypes, DatabaseAssumption
        <3>3. Cmd(ns, ScratchKey, 0).key = wrapKey(ns, ScratchKey) BY <3>2, CmdType
        <3> QED BY <3>1, <3>2, <3>3, WrapKeyInjective
    <2> QED BY <2>1, <2>2, <2>3 DEF Queueable, n
<1>11. \A k \in TreeKeys : h[k] \in {g[k], n} BY <1>3
<1>12. ASSUME h[latestVersionKey] = n, NEW k \in RecordKeys PROVE h[k] = n
    <2>1. CASE g[latestVersionKey] = n BY <1>4, <1>5, <1>7, <2>1 DEF OrderOK, TreeKeys
    <2>2. CASE g[latestVersionKey] # n
        <3>1. t.todo = {} BY <1>3, <1>10, <1>12, <2>2, KeyTypes
        <3> QED BY <1>8, <3>1
    <2> QED BY <2>1, <2>2
<1>13. h[recentVersionNumberKey] # g[recentVersionNumberKey] => h[latestVersionKey] = n
    BY <1>3, <1>9, <1>10, KeyTypes
<1>14. Progress(t, g, h)
    BY <1>11, <1>12, <1>13, KeyTypes DEF Progress, n, TreeKeys
<1> QED BY <1>2, <1>5, <1>8, <1>9, <1>14 DEF n, g, h

\* The next command of a pipeline.
LEMMA CmdProgress ==
    ASSUME Inv, ~Lost, NEW ns \in Namespaces, ExecCmd(ns)
    PROVE  LET t == tree[ns]
               h == Reads(ns)'
               e == t.executed + 1
           IN  /\ t.commit = acked[ns] + 1
               /\ FromBatch(ns, <<t.writes[e]>>)
               /\ Progress(t, Reads(ns), h)
               /\ \A k \in TreeKeys : t.writes[e] = Cmd(ns, k, t.commit) => h[k] = t.commit
<1> DEFINE t == tree[ns]
           w == t.writes
           e == t.executed + 1
           g == Reads(ns)
           h == Reads(ns)'
           n == t.commit
           cmds == <<w[e]>>
<1>1. w \in Seq(Command) /\ n \in Nat /\ Len(w) \in Nat /\ e \in 1 .. Len(w)
    BY HandleFacts DEF ExecCmd
<1>2. w[e] \in Command BY <1>1, ElementOfSeq
<1>3. cmds \in Seq(Command) /\ Len(cmds) = 1 /\ cmds[1] = w[e] BY <1>2
<1>4. store' = Execute(store, cmds) BY DEF ExecCmd
<1> HIDE DEF cmds, e
<1>5. FromBatch(ns, cmds) BY <1>1, <1>3 DEF FromBatch
<1>6. ASSUME NEW k \in TreeKeys
      PROVE  h[k] = IF w[e] = Cmd(ns, k, n) THEN n ELSE g[k]
    <2>1. k \in AllKeys BY KeyTypes
    <2>2. h[k] = Execute(store, cmds)[wrapKey(ns, k)] BY <1>4, <2>1 DEF Reads, Get
    <2>3. g[k] = Get(ns, k) BY <2>1 DEF Reads
    <2> HIDE DEF h, g
    <2> QED BY <1>3, <1>5, <2>2, <2>3, OwnExecute
<1>7. OrderOK(ns, t, acked[ns], g) /\ Busy(t) BY DEF Inv, ExecCmd, Busy
<1>8. n = acked[ns] + 1 BY <1>7 DEF OrderOK
<1>9. BatchOK(ns, t) BY DEF Inv
<1> HIDE DEF g, h
<1>10. ASSUME NEW k \in {latestVersionKey, recentVersionNumberKey}, w[e] = Cmd(ns, k, n)
       PROVE  /\ t.last /\ t.todo = {}
              /\ k = latestVersionKey =>
                    e = Len(w) \/ (e + 1 = Len(w) /\ w[e + 1] = Cmd(ns, recentVersionNumberKey, n))
              /\ k = recentVersionNumberKey => e = Len(w)
    <2>1. Queueable(ns, t, e) /\ (t.last => t.todo = {}) BY <1>1, <1>9 DEF BatchOK
    <2>2. ASSUME NEW kk \in TreeKeys, w[e] = Cmd(ns, kk, n) PROVE kk = k
        BY <1>1, <1>10, <2>2, CommandsDiffer, KeyTypes
    <2>3. w[e] # Cmd(ns, ScratchKey, 0)
        <3>1. w[e].key = wrapKey(ns, k) /\ k \in AllKeys /\ k \in TreeKeys
            BY <1>1, <1>10, CmdType, KeyTypes
        <3>2. ScratchKey \in AllKeys /\ ScratchKey # k BY <3>1, KeyTypes, DatabaseAssumption
        <3>3. Cmd(ns, ScratchKey, 0).key = wrapKey(ns, ScratchKey) BY <3>2, CmdType
        <3> QED BY <3>1, <3>2, <3>3, WrapKeyInjective
    <2>4. k \notin RecordKeys BY DatabaseAssumption
    <2>5. \A kk \in RecordKeys : w[e] # Cmd(ns, kk, n) BY <2>2, <2>4, KeyTypes DEF TreeKeys
    <2>6. w[e] = Cmd(ns, latestVersionKey, n) => k = latestVersionKey BY <2>2, KeyTypes
    <2>7. w[e] = Cmd(ns, recentVersionNumberKey, n) => k = recentVersionNumberKey
        BY <2>2, KeyTypes
    <2> QED BY <2>1, <2>3, <2>5, <2>6, <2>7, KeyTypes DEF Queueable
<1>11. ASSUME NEW k \in TreeKeys, Pending(ns, t, k)
       PROVE  \/ w[e] = Cmd(ns, k, n)
              \/ \E i \in 1 .. Len(w) : i > e /\ w[i] = Cmd(ns, k, n)
    <2>1. PICK i \in 1 .. Len(w) : i > t.executed /\ w[i] = Cmd(ns, k, n)
        BY <1>11 DEF Pending
    <2>2. i = e \/ i > e BY <2>1, HandleFacts DEF e
    <2> QED BY <2>1, <2>2
<1>12. ASSUME w[e] = Cmd(ns, latestVersionKey, n), NEW k \in RecordKeys PROVE h[k] = n
    <2>1. g[k] = n \/ Pending(ns, t, k) BY <1>7, <1>8, <1>10, <1>12 DEF OrderOK
    <2>2. ASSUME NEW i \in 1 .. Len(w), i > e PROVE w[i] # Cmd(ns, k, n)
        <3>1. i = e + 1 /\ w[i] = Cmd(ns, recentVersionNumberKey, n)
            BY <1>1, <1>10, <1>12, <2>2
        <3> QED BY <1>1, <3>1, CommandsDiffer, KeyTypes, DatabaseAssumption DEF TreeKeys
    <2> QED BY <1>6, <1>11, <2>1, <2>2 DEF TreeKeys
<1>13. ASSUME h[latestVersionKey] = n, NEW k \in RecordKeys PROVE h[k] = n
    <2>1. CASE g[latestVersionKey] = n BY <1>6, <1>7, <1>8, <2>1 DEF OrderOK, TreeKeys
    <2>2. CASE w[e] = Cmd(ns, latestVersionKey, n) BY <1>12, <2>2
    <2> QED BY <1>6, <1>13, <2>1, <2>2, KeyTypes
<1>14. ASSUME h[recentVersionNumberKey] # g[recentVersionNumberKey]
       PROVE  h[latestVersionKey] = n
    <2>1. w[e] = Cmd(ns, recentVersionNumberKey, n) BY <1>6, <1>14, KeyTypes
    <2>2. t.last /\ e = Len(w) BY <1>10, <2>1
    <2>3. g[latestVersionKey] = n \/ Pending(ns, t, latestVersionKey)
        BY <1>7, <1>8, <2>2 DEF OrderOK
    <2>4. ~\E i \in 1 .. Len(w) : i > e BY <1>1, <2>2
    <2> QED BY <1>6, <1>11, <2>3, <2>4, KeyTypes
<1>15. Progress(t, g, h)
    <2>1. \A k \in TreeKeys : h[k] \in {g[k], n} BY <1>6
    <2> QED BY <1>13, <1>14, <2>1, KeyTypes DEF Progress, TreeKeys
<1> QED BY <1>5, <1>6, <1>8, <1>15 DEF g, h, cmds, e

----------------------------------------------------------------------------
(* The operations that change the store.                                   *)

\* The server executes a command.
LEMMA ExecCmdInv ==
    ASSUME Inv, NEW ns \in Namespaces, ExecCmd(ns) PROVE Inv'
<1> DEFINE s == tree[ns]
           t == [s EXCEPT !.executed = @ + 1]
           e == s.executed + 1
           a == acked[ns]
<1>1. /\ tree' = [tree EXCEPT ![ns] = t] /\ UNCHANGED <<kind, open, acked>>
      /\ store' = Execute(store, <<s.writes[e]>>) /\ s.at = "exec"
      /\ s.executed < Len(s.writes)
    BY HandleFacts DEF ExecCmd
<1>2. s \in TreeState /\ e \in Nat /\ e \in 1 .. Len(s.writes) BY <1>1, HandleFacts
<1>3. t \in TreeState BY <1>2, Zenon DEF TreeState
<1>4. /\ t.at = s.at /\ t.commit = s.commit /\ t.todo = s.todo /\ t.writes = s.writes
      /\ t.size = s.size /\ t.executed = e
    BY <1>2 DEF TreeState
<1>5. t.last = s.last BY <1>2 DEF TreeState
<1> HIDE DEF t
<1>6. t.executed <= Len(t.writes) BY <1>2, <1>4, HandleFacts
<1>7. ~Lost /\ kind = "redis" BY <1>1 DEF Inv, Lost
<1>8. /\ s.commit = a + 1 /\ FromBatch(ns, <<s.writes[e]>>)
      /\ Progress(s, Reads(ns), Reads(ns)')
      /\ \A k \in TreeKeys : s.writes[e] = Cmd(ns, k, s.commit) => Reads(ns)'[k] = s.commit
    BY <1>7, CmdProgress
<1>9. store' \in [StoreKeys -> Nat]
    BY <1>1, <1>8, HandleFacts, ExecuteReads DEF FromBatch
<1>10. \A m \in Namespaces \ {ns} : Reads(m)' = Reads(m) BY <1>1, <1>8, OthersExecute
<1>11. BatchOK(ns, t)
    <2>1. BatchOK(ns, s) BY DEF Inv
    <2>2. \A i \in 1 .. Len(t.writes) : Queueable(ns, t, i)
        BY <1>4, <1>5, <2>1 DEF BatchOK, Queueable
    <2> QED BY <1>1, <1>4, <1>5, <2>1, <2>2 DEF BatchOK
<1>12. OrderOK(ns, t, a, Reads(ns)')
    <2> DEFINE g == Reads(ns)
               h == Reads(ns)'
    <2>1. OrderOK(ns, s, a, g) /\ Busy(s) BY <1>1, <1>7 DEF Inv, Busy
    <2>2. a \in Nat BY HandleFacts
    <2> HIDE DEF a, h, g
    <2>3. /\ \A k \in RecordKeys : h[k] \in {g[k], a + 1}
          /\ h[latestVersionKey] \in {g[latestVersionKey], a + 1}
          /\ h[latestVersionKey] = a + 1 => \A k \in RecordKeys : h[k] = a + 1
        BY <1>8 DEF Progress, h, g
    <2>4. ASSUME NEW k \in TreeKeys, Pending(ns, s, k) PROVE h[k] = a + 1 \/ Pending(ns, t, k)
        <3>1. PICK i \in 1 .. Len(s.writes) :
                  i > s.executed /\ s.writes[i] = Cmd(ns, k, s.commit)
            BY <2>4 DEF Pending
        <3>2. CASE i = e BY <1>8, <3>1, <3>2 DEF h
        <3>3. CASE i # e
            <4>1. i > t.executed BY <1>4, <3>1, <3>3, HandleFacts
            <4> QED BY <1>4, <3>1, <4>1 DEF Pending
        <3> QED BY <3>2, <3>3
    <2>5. ASSUME NEW k \in RecordKeys \ t.todo PROVE h[k] = a + 1 \/ Pending(ns, t, k)
        <3>1. g[k] = a + 1 \/ Pending(ns, s, k) BY <1>4, <2>1 DEF OrderOK
        <3>2. k \in TreeKeys BY DEF TreeKeys
        <3> QED BY <2>3, <2>4, <3>1, <3>2
    <2>6. t.last => h[latestVersionKey] = a + 1 \/ Pending(ns, t, latestVersionKey)
        <3>1. t.last => g[latestVersionKey] = a + 1 \/ Pending(ns, s, latestVersionKey)
            BY <1>5, <2>1 DEF OrderOK
        <3> QED BY <2>3, <2>4, <3>1, KeyTypes
    <2>7. \A k \in RecordKeys : h[k] \in {a, a + 1} BY <2>1, <2>3 DEF OrderOK
    <2>8. h[latestVersionKey] \in {a, a + 1} BY <2>1, <2>3 DEF OrderOK
    <2>9. t.commit = a + 1 BY <1>4, <1>8 DEF a
    <2>10. OrderOK(ns, t, a, h) BY <2>3, <2>5, <2>6, <2>7, <2>8, <2>9 DEF OrderOK
    <2> QED BY <2>10 DEF h
<1>13. acked' = [acked EXCEPT ![ns] = a] /\ a \in Nat /\ open' \in BOOLEAN
    BY <1>1, HandleFacts DEF Inv, TypeOK
<1> HIDE DEF a, e, s
<1> QED BY <1>1, <1>3, <1>6, <1>7, <1>9, <1>10, <1>11, <1>12, <1>13, HandleStep

\* Write returned nil, and all it had to write is in the store: h is what
\* the handle reads now.
Written(t, a, h) ==
    LET L == h[latestVersionKey]
    IN  /\ L \in {a, a + 1} /\ \A k \in RecordKeys : h[k] \in {a, a + 1}
        /\ L = a + 1 => \A k \in RecordKeys : h[k] = a + 1
        /\ \A k \in RecordKeys \ t.todo : h[k] = a + 1
        /\ t.last => L = a + 1
        /\ t.commit = a + 1

\* The batch is reset, or the call returns.
LEMMA SucceedInv ==
    ASSUME Inv, NEW ns \in Namespaces, tree[ns].at \in {"write", "exec"}, Succeed(ns),
           UNCHANGED <<kind, open>>, store' \in [StoreKeys -> Nat],
           ~Lost => \A m \in Namespaces \ {ns} : Reads(m)' = Reads(m),
           ~Lost => Written(tree[ns], acked[ns], Reads(ns)')
    PROVE  Inv'
<1> DEFINE s == tree[ns]
           r == Reset(Answered(s))
           t == [r EXCEPT !.at = IF r.last THEN "idle" ELSE "add"]
           a == IF s.last THEN s.commit ELSE acked[ns]
<1>1. s \in TreeState /\ acked[ns] \in Nat /\ s.commit \in Nat /\ MaxRetries \in Nat
    BY HandleFacts
<1>2. r \in TreeState
    <2>1. <<>> \in Seq(Command) /\ 0 \in 0 .. MaxRetries BY <1>1
    <2> QED BY <1>1, <2>1, Zenon DEF TreeState, Reset, Answered
<1>3. r.last = s.last BY <1>1 DEF TreeState, Reset, Answered
<1>4. r.writes = <<>> /\ r.size = 0 /\ r.executed = 0 /\ r.commit = s.commit /\ r.todo = s.todo
    BY <1>1 DEF TreeState, Reset, Answered
<1>5. tree' = [tree EXCEPT ![ns] = t] BY DEF Succeed
<1>6. acked' = [acked EXCEPT ![ns] = a]
    <2>1. acked' = IF r.last THEN [acked EXCEPT ![ns] = r.commit] ELSE acked BY DEF Succeed
    <2> QED BY <1>3, <1>4, <2>1, HandleFacts
<1> HIDE DEF r
<1>7. t \in TreeState BY <1>2, Zenon DEF TreeState
<1>8. t.last = s.last BY <1>2, <1>3 DEF TreeState
<1>9. /\ t.writes = <<>> /\ t.size = 0 /\ t.executed = 0 /\ t.commit = s.commit
      /\ t.todo = s.todo /\ t.at = IF s.last THEN "idle" ELSE "add"
    BY <1>2, <1>3, <1>4 DEF TreeState
<1> HIDE DEF t
<1>10. s.last => s.todo = {} BY DEF Inv, BatchOK
<1>11. BatchOK(ns, t)
    BY <1>8, <1>9, <1>10, HandleFacts DEF BatchOK
<1>12. ASSUME ~Lost PROVE OrderOK(ns, t, a, Reads(ns)')
    <2> DEFINE h == Reads(ns)'
    <2>1. Written(s, acked[ns], h) BY <1>12
    <2> HIDE DEF h
    <2>2. CASE s.last
        <3>1. a = acked[ns] + 1 /\ ~Busy(t) BY <1>9, <2>1, <2>2 DEF Written, Busy
        <3>2. h[latestVersionKey] = a /\ \A k \in RecordKeys : h[k] = a
            BY <1>10, <2>1, <2>2, <3>1 DEF Written
        <3> HIDE DEF a
        <3>3. a \in Nat BY <1>1, <3>1
        <3> QED BY <3>1, <3>2, <3>3 DEF OrderOK, h
    <2>3. CASE ~s.last
        <3>1. a = acked[ns] BY <2>3
        <3> QED BY <1>8, <1>9, <2>1, <2>3, <3>1 DEF OrderOK, Written, h
    <2> QED BY <2>2, <2>3
<1>13. a \in Nat /\ open' \in BOOLEAN BY <1>1 DEF Inv, TypeOK
<1>14. Lost' <=> Lost BY DEF Lost
<1>15. t.executed <= Len(t.writes) /\ t.at # "exec" BY <1>9
<1> HIDE DEF a, s
<1> QED BY <1>5, <1>6, <1>7, <1>11, <1>12, <1>13, <1>14, <1>15, HandleStep

\* A batch is written as a whole.
LEMMA WriteWholeInv ==
    ASSUME Inv, NEW ns \in Namespaces, WriteWhole(ns) PROVE Inv'
<1> DEFINE t == tree[ns]
           a == acked[ns]
<1>1. ~Lost BY DEF WriteWhole, Lost
<1>2. /\ t.commit = a + 1 /\ FromBatch(ns, t.writes)
      /\ Progress(t, Reads(ns), Reads(ns)')
      /\ \A k \in RecordKeys \ t.todo : Reads(ns)'[k] = t.commit
      /\ t.last => Reads(ns)'[latestVersionKey] = t.commit
    BY <1>1, WholeProgress
<1>3. OrderOK(ns, t, a, Reads(ns)) BY <1>1 DEF Inv
<1>4. Written(t, a, Reads(ns)')
    <2> DEFINE g == Reads(ns)
               h == Reads(ns)'
    <2> HIDE DEF g, h, a, t
    <2>1. Written(t, a, h) BY <1>2, <1>3 DEF Progress, OrderOK, Written, g, h
    <2> QED BY <2>1 DEF h
<1>5. store' = Execute(store, t.writes) BY DEF WriteWhole
<1>6. store' \in [StoreKeys -> Nat] BY <1>5, HandleFacts, ExecuteReads
<1>7. \A m \in Namespaces \ {ns} : Reads(m)' = Reads(m) BY <1>2, <1>5, OthersExecute
<1> QED BY <1>1, <1>4, <1>6, <1>7, SucceedInv DEF WriteWhole

\* All commands of a pipeline have been executed.
LEMMA ExecReturnsInv ==
    ASSUME Inv, NEW ns \in Namespaces, ExecReturns(ns) PROVE Inv'
<1> DEFINE t == tree[ns]
           a == acked[ns]
           g == Reads(ns)
<1>1. ~Lost BY DEF ExecReturns, Lost, Inv
<1>2. OrderOK(ns, t, a, g) /\ Busy(t) BY <1>1 DEF Inv, ExecReturns, Busy
<1>3. ASSUME NEW k PROVE ~Pending(ns, t, k) BY HandleFacts DEF Pending, ExecReturns
<1>4. \A m : Reads(m)' = Reads(m) BY DEF Reads, Get, ExecReturns
<1> HIDE DEF g, a
<1>5. Written(t, a, g) BY <1>2, <1>3 DEF Written, OrderOK
<1>6. Written(tree[ns], acked[ns], Reads(ns)') BY <1>4, <1>5 DEF g, a
<1>7. store' \in [StoreKeys -> Nat] /\ UNCHANGED <<kind, open>>
    BY HandleFacts DEF ExecReturns
<1> QED BY <1>1, <1>4, <1>6, <1>7, SucceedInv DEF ExecReturns

\* Set and Delete of a key no tree uses.
LEMMA PutInv ==
    ASSUME Inv, NEW ns \in Namespaces, NEW v \in Nat, Put(ns, ScratchKey, v)
    PROVE  /\ Inv'
           /\ \A m \in Namespaces, k \in TreeKeys : Get(m, k)' = Get(m, k)
<1> DEFINE key == wrapKey(ns, ScratchKey)
<1>1. store' = [store EXCEPT ![key] = v] /\ UNCHANGED <<kind, open, tree, acked>>
    BY DEF Put
<1>2. key \in StoreKeys /\ store \in [StoreKeys -> Nat] BY KeyTypes, HandleFacts
<1>3. store' \in [StoreKeys -> Nat] BY <1>1, <1>2
<1>4. ASSUME NEW m \in Namespaces, NEW k \in TreeKeys PROVE Get(m, k)' = Get(m, k)
    <2>1. k # ScratchKey /\ k \in AllKeys /\ ScratchKey \in AllKeys
        BY KeyTypes, DatabaseAssumption
    <2>2. wrapKey(m, k) # key /\ wrapKey(m, k) \in StoreKeys BY <2>1, KeyTypes, WrapKeyInjective
    <2> HIDE DEF key
    <2> QED BY <1>1, <1>2, <2>2 DEF Get
<1>5. TypeOK' BY <1>1, <1>3 DEF Inv, TypeOK
<1>6. ASSUME ~Lost, NEW m \in Namespaces
      PROVE  OrderOK(m, tree[m], acked[m], Reads(m)')
    <2>1. OrderOK(m, tree[m], acked[m], Reads(m)) BY <1>6 DEF Inv
    <2>2. \A k \in TreeKeys : Reads(m)'[k] = Reads(m)[k]
        BY <1>4, KeyTypes DEF Reads
    <2> DEFINE g == Reads(m)
               h == Reads(m)'
    <2> HIDE DEF g, h
    <2>3. \A k \in TreeKeys : h[k] = g[k] BY <2>2 DEF g, h
    <2>4. h[latestVersionKey] = g[latestVersionKey] BY <2>3, KeyTypes
    <2>5. \A k \in RecordKeys : h[k] = g[k] BY <2>3 DEF TreeKeys
    <2>6. OrderOK(m, tree[m], acked[m], h) BY <2>1, <2>4, <2>5 DEF OrderOK, g
    <2> QED BY <2>6 DEF h
<1>7. Lost' <=> Lost BY <1>1 DEF Lost
<1>8. /\ \A m \in Namespaces : BatchOK(m, tree'[m])
      /\ \A m \in Namespaces : tree'[m].at = "exec" => kind' = "redis"
      /\ ~Lost' => \A m \in Namespaces : OrderOK(m, tree'[m], acked'[m], Reads(m)')
    BY <1>1, <1>6, <1>7 DEF Inv
<1> QED BY <1>4, <1>5, <1>8 DEF Inv

\* Close: a memory database is lost, the others keep what they have.
LEMMA CloseInv ==
    ASSUME Inv, NEW ns \in Namespaces, Close(ns) PROVE Inv'
<1>1. UNCHANGED <<kind, tree, acked>> /\ open' = FALSE BY DEF Close
<1>2. store' \in [StoreKeys -> Nat] BY HandleFacts DEF Close
<1>3. TypeOK' BY <1>1, <1>2 DEF Inv, TypeOK
<1>4. ASSUME ~Lost', NEW m \in Namespaces PROVE OrderOK(m, tree'[m], acked'[m], Reads(m)')
    <2>1. kind # "memory" /\ ~Lost BY <1>1, <1>4 DEF Lost
    <2>2. Reads(m)' = Reads(m) BY <2>1 DEF Close, Reads, Get
    <2>3. OrderOK(m, tree[m], acked[m], Reads(m)) BY <2>1 DEF Inv
    <2> QED BY <1>1, <2>2, <2>3
<1>5. /\ \A m \in Namespaces : BatchOK(m, tree'[m])
      /\ \A m \in Namespaces : tree'[m].at = "exec" => kind' = "redis"
    BY <1>1 DEF Inv
<1> QED BY <1>3, <1>4, <1>5 DEF Inv

\* Trees between two calls, on a store that holds what they go on from.
LEMMA IdleInv ==
    ASSUME kind' \in {"memory", "leveldb", "redis"}, open' \in BOOLEAN,
           store' \in [StoreKeys -> Nat], acked' \in [Namespaces -> Nat],
           tree' = [ns \in Namespaces |-> Idle(acked'[ns])],
           \A ns \in Namespaces : OrderOK(ns, Idle(acked'[ns]), acked'[ns], Reads(ns)')
    PROVE  Inv'
<1>1. ASSUME NEW ns \in Namespaces
      PROVE  /\ tree'[ns] = Idle(acked'[ns]) /\ tree'[ns] \in TreeState
             /\ tree'[ns].executed <= Len(tree'[ns].writes) /\ tree'[ns].at # "exec"
             /\ BatchOK(ns, tree'[ns])
    <2> DEFINE t == tree'[ns]
    <2>1. /\ t = Idle(acked'[ns]) /\ t \in TreeState /\ t.at = "idle" /\ t.writes = <<>>
          /\ t.size = 0 /\ t.last = FALSE /\ t.executed = 0
        BY IdleState
    <2> HIDE DEF t
    <2>2. BatchOK(ns, t) BY <2>1, DatabaseAssumption DEF BatchOK
    <2>3. t.executed <= Len(t.writes) BY <2>1
    <2> QED BY <2>1, <2>2, <2>3 DEF t
<1>2. tree' \in [Namespaces -> TreeState] BY <1>1
<1>3. TypeOK' BY <1>1, <1>2 DEF TypeOK
<1> QED BY <1>1, <1>3 DEF Inv

\* A tree opened on an empty store, or on a store at a version.
LEMMA IdleOrder ==
    ASSUME NEW ns, NEW a \in Nat, NEW g, g[latestVersionKey] = a,
           \/ \A k \in RecordKeys : g[k] = a
           \/ \A k \in RecordKeys : g[k] \in {a, a + 1}
    PROVE  OrderOK(ns, Idle(a), a, g)
<1>1. ~Busy(Idle(a)) BY IdleState DEF Busy
<1>2. \A k \in RecordKeys : g[k] \in {a, a + 1} OBVIOUS
<1>3. g[latestVersionKey] # a + 1 OBVIOUS
<1> QED BY <1>1, <1>2, <1>3 DEF OrderOK

LEMMA ReopenInv == ASSUME Inv, Reopen PROVE Inv'
<1>1. /\ kind' = kind /\ open' = TRUE
      /\ store' = IF kind = "memory" THEN [k \in StoreKeys |-> 0] ELSE store
      /\ acked' = [ns \in Namespaces |-> store'[wrapKey(ns, latestVersionKey)]]
      /\ tree' = [ns \in Namespaces |-> Idle(acked'[ns])]
    BY DEF Reopen
<1>2. store' \in [StoreKeys -> Nat] BY <1>1 DEF Inv, TypeOK
<1>3. ASSUME NEW ns \in Namespaces, NEW k \in AllKeys
      PROVE  Reads(ns)'[k] = store'[wrapKey(ns, k)] /\ wrapKey(ns, k) \in StoreKeys
    BY KeyTypes DEF Reads, Get
<1>4. latestVersionKey \in AllKeys /\ RecordKeys \subseteq AllKeys BY KeyTypes
<1>5. ASSUME NEW ns \in Namespaces
      PROVE  acked'[ns] \in Nat /\ Reads(ns)'[latestVersionKey] = acked'[ns]
    <2>1. acked'[ns] = store'[wrapKey(ns, latestVersionKey)] BY <1>1
    <2>2. store'[wrapKey(ns, latestVersionKey)] \in Nat BY <1>2, <1>3, <1>4
    <2> QED BY <1>3, <1>4, <2>1, <2>2
<1>6. acked' \in [Namespaces -> Nat]
    <2>1. acked' = [ns \in Namespaces |-> acked'[ns]] BY <1>1
    <2> QED BY <1>5, <2>1
<1>7. ASSUME NEW ns \in Namespaces
      PROVE  OrderOK(ns, Idle(acked'[ns]), acked'[ns], Reads(ns)')
    <2> DEFINE a == acked'[ns]
               h == Reads(ns)'
    <2>1. CASE kind = "memory"
        <3>1. \A k \in AllKeys : h[k] = 0 BY <1>1, <1>3, <2>1
        <3>2. a = 0 BY <1>4, <1>5, <3>1
        <3> HIDE DEF a, h
        <3>3. OrderOK(ns, Idle(a), a, h) BY <1>4, <3>1, <3>2, IdleOrder
        <3> QED BY <3>3 DEF a, h
    <2>2. CASE kind # "memory"
        <3>1. OrderOK(ns, tree[ns], acked[ns], Reads(ns)) BY <2>2 DEF Inv, Lost
        <3>2. h = Reads(ns) BY <1>1, <2>2 DEF Reads, Get
        <3>3. a = h[latestVersionKey] /\ a \in Nat BY <1>5
        <3> HIDE DEF a, h
        <3>4. CASE h[latestVersionKey] = acked[ns]
            <4>1. \A k \in RecordKeys : h[k] \in {a, a + 1} BY <3>1, <3>2, <3>3, <3>4 DEF OrderOK
            <4>2. OrderOK(ns, Idle(a), a, h) BY <3>3, <4>1, IdleOrder
            <4> QED BY <4>2 DEF a, h
        <3>5. CASE h[latestVersionKey] = acked[ns] + 1
            <4>1. \A k \in RecordKeys : h[k] = a BY <3>1, <3>2, <3>3, <3>5 DEF OrderOK
            <4>2. OrderOK(ns, Idle(a), a, h) BY <3>3, <4>1, IdleOrder
            <4> QED BY <4>2 DEF a, h
        <3> QED BY <3>1, <3>2, <3>4, <3>5 DEF OrderOK
    <2> QED BY <2>1, <2>2
<1>8. kind' \in {"memory", "leveldb", "redis"} /\ open' \in BOOLEAN BY <1>1 DEF Inv, TypeOK
<1> QED BY <1>1, <1>2, <1>6, <1>7, <1>8, IdleInv

LEMMA InitInv == Init => Inv
<1> SUFFICES ASSUME Init PROVE Inv OBVIOUS
<1>1. ASSUME NEW ns \in Namespaces
      PROVE  /\ tree[ns] = Idle(0) /\ tree[ns] \in TreeState /\ acked[ns] = 0
             /\ tree[ns].executed <= Len(tree[ns].writes) /\ tree[ns].at # "exec"
             /\ BatchOK(ns, tree[ns])
    <2> DEFINE t == tree[ns]
    <2>1. /\ t = Idle(0) /\ t \in TreeState /\ t.at = "idle" /\ t.writes = <<>>
          /\ t.size = 0 /\ t.last = FALSE /\ t.executed = 0 /\ acked[ns] = 0
        BY IdleState DEF Init
    <2> HIDE DEF t
    <2>2. BatchOK(ns, t) BY <2>1, DatabaseAssumption DEF BatchOK
    <2>3. t.executed <= Len(t.writes) BY <2>1
    <2> QED BY <2>1, <2>2, <2>3 DEF t
<1>2. TypeOK
    <2>1. tree \in [Namespaces -> TreeState] BY <1>1 DEF Init
    <2>2. open \in BOOLEAN BY DEF Init
    <2> QED BY <1>1, <2>1, <2>2 DEF Init, TypeOK
<1>3. ASSUME NEW ns \in Namespaces PROVE OrderOK(ns, tree[ns], acked[ns], Reads(ns))
    <2> DEFINE g == Reads(ns)
    <2>1. \A k \in AllKeys : g[k] = 0 BY KeyTypes DEF Init, Reads, Get
    <2> HIDE DEF g
    <2>2. OrderOK(ns, Idle(0), 0, g) BY <2>1, IdleOrder, KeyTypes
    <2> QED BY <1>1, <2>2 DEF g
<1> QED BY <1>1, <1>2, <1>3 DEF Inv

\* Every step keeps the invariant.
LEMMA NextInv == Inv /\ [Next]_vars => Inv'
<1> SUFFICES ASSUME Inv, [Next]_vars PROVE Inv' OBVIOUS
<1>1. CASE UNCHANGED vars
    BY <1>1 DEF Inv, TypeOK, Lost, Reads, Get, vars
<1>2. ASSUME NEW ns \in Handles, Step(ns) PROVE Inv'
    <2>0. ns \in Namespaces BY DatabaseAssumption DEF Handles
    <2>1. CASE Set(ns) \/ Delete(ns) BY <2>0, <2>1, PutInv DEF Set, Delete
    <2>2. CASE Close(ns) BY <2>0, <2>2, CloseInv
    <2>3. CASE NewBatch(ns) BY <2>0, <2>3, NewBatchInv
    <2>4. CASE BatchDelete(ns) BY <2>0, <2>4, BatchDeleteInv
    <2>5. CASE \E k \in RecordKeys : WriteNode(ns, k) BY <2>0, <2>5, WriteNodeInv
    <2>6. CASE \E pruning \in BOOLEAN : WriteVersion(ns, pruning)
        BY <2>0, <2>6, WriteVersionInv
    <2>7. CASE WriteWhole(ns) BY <2>0, <2>7, WriteWholeInv
    <2>8. CASE WriteFails(ns) \/ ExecFails(ns) BY <2>0, <2>8, FailInv
    <2>9. CASE Exec(ns) \/ ExecRetry(ns) BY <2>0, <2>9, SendInv
    <2>10. CASE ExecCmd(ns) BY <2>0, <2>10, ExecCmdInv
    <2>11. CASE ExecReturns(ns) BY <2>0, <2>11, ExecReturnsInv
    <2> QED BY <1>2, <2>1, <2>2, <2>3, <2>4, <2>5, <2>6, <2>7, <2>8, <2>9, <2>10, <2>11 DEF Step
<1>3. CASE Reopen BY <1>3, ReopenInv
<1> QED BY <1>1, <1>2, <1>3 DEF Next

----------------------------------------------------------------------------
(* The theorems.                                                           *)

LEMMA InvHolds == Spec => []Inv
BY InitInv, NextInv, PTL DEF Spec

\* The types: the server never executes commands beyond the pipeline, also
\* when it is resent, and never more often than MaxRetries (redis.go).
THEOREM TypeCorrect == Spec => []TypeOK
<1>1. Inv => TypeOK BY DEF Inv
<1> QED BY <1>1, InvHolds, PTL

\* ValueSize is the size of the batch, and a commit of any number of nodes
\* never queues more than the limit, a node and two version numbers (Commit
\* and writeNode, smt.go).
THEOREM BatchBounded == Spec => []BatchIsBounded
<1>1. Inv => BatchIsBounded BY DEF Inv, BatchIsBounded, BatchOK
<1> QED BY <1>1, InvHolds, PTL

\* A commit that returned nil is in the store, all of it, whatever failed,
\* was resent or was interrupted after it (Write of the three batches).
THEOREM AcknowledgedStored == Spec => []AcknowledgedIsStored
<1>1. ASSUME Inv PROVE AcknowledgedIsStored
    <2> SUFFICES ASSUME kind # "memory" \/ open, NEW ns \in Handles,
                        NEW k \in RecordKeys \cup {latestVersionKey}
                 PROVE  Get(ns, k) >= acked[ns]
        BY DEF AcknowledgedIsStored
    <2>1. ns \in Namespaces BY DatabaseAssumption DEF Handles
    <2>2. OrderOK(ns, tree[ns], acked[ns], Reads(ns)) BY <1>1, <2>1 DEF Inv, Lost
    <2>3. Reads(ns)[k] \in {acked[ns], acked[ns] + 1} BY <2>2 DEF OrderOK
    <2>4. Reads(ns)[k] = Get(ns, k) BY KeyTypes DEF Reads
    <2>5. acked[ns] \in Nat BY <1>1, <2>1, HandleFacts
    <2> QED BY <2>3, <2>4, <2>5
<1> QED BY <1>1, InvHolds, PTL

----------------------------------------------------------------------------
(* The action property and the refinement.                                 *)

\* What a handle reads is changed by its own calls only (wrapKey of leveldb
\* and redis): no key of one namespace is a key of another.
THEOREM NamespacesIsolated == Spec => NamespacesAreIsolated
<1>1. ASSUME Inv, [Next]_vars
      PROVE  [\A ns \in Namespaces :
                 kind # "memory" /\ tree'[ns] = tree[ns] =>
                     \A k \in TreeKeys : Get(ns, k)' = Get(ns, k)]_vars
    <2> SUFFICES ASSUME Next, NEW ns \in Namespaces, kind # "memory", tree'[ns] = tree[ns],
                        NEW k \in TreeKeys
                 PROVE  Get(ns, k)' = Get(ns, k)
        BY <1>1
    <2>0. store' = store => Get(ns, k)' = Get(ns, k) BY DEF Get
    <2>1. CASE Reopen BY <2>0, <2>1 DEF Reopen
    <2>2. ASSUME NEW m \in Handles, Step(m) PROVE Get(ns, k)' = Get(ns, k)
        <3>0. m \in Namespaces /\ tree \in [Namespaces -> TreeState]
            BY <1>1, DatabaseAssumption DEF Handles, Inv, TypeOK
        <3>1. CASE Set(m) \/ Delete(m) BY <1>1, <3>0, <3>1, PutInv DEF Set, Delete
        <3>2. CASE WriteWhole(m)
            <4>1. m # ns
                <5>1. tree'[m].at # "write"
                    <6> DEFINE t == Reset(Answered(tree[m]))
                    <6>1. tree' = [tree EXCEPT ![m] = [t EXCEPT !.at = IF t.last THEN "idle" ELSE "add"]]
                        BY <3>2 DEF WriteWhole, Succeed
                    <6>2. tree'[m].at = IF t.last THEN "idle" ELSE "add"
                        BY <3>0, <6>1 DEF TreeState, Reset, Answered
                    <6> QED BY <6>2
                <5> QED BY <3>2, <5>1 DEF WriteWhole
            <4>2. ~Lost BY DEF Lost
            <4>3. FromBatch(m, tree[m].writes) /\ store' = Execute(store, tree[m].writes)
                BY <1>1, <3>0, <3>2, <4>2, WholeProgress DEF WriteWhole
            <4>4. Reads(ns)' = Reads(ns) BY <1>1, <3>0, <4>1, <4>3, OthersExecute
            <4>5. Reads(ns)'[k] = Get(ns, k)' /\ Reads(ns)[k] = Get(ns, k) BY KeyTypes DEF Reads
            <4> QED BY <4>4, <4>5
        <3>3. CASE ExecCmd(m)
            <4>1. m # ns
                <5>1. tree'[m].executed = tree[m].executed + 1
                    BY <3>0, <3>3 DEF ExecCmd, TreeState
                <5>2. tree[m].executed \in Nat BY <1>1, <3>0, HandleFacts
                <5> QED BY <5>1, <5>2
            <4>2. ~Lost BY DEF Lost
            <4>3. /\ FromBatch(m, <<tree[m].writes[tree[m].executed + 1]>>)
                  /\ store' = Execute(store, <<tree[m].writes[tree[m].executed + 1]>>)
                BY <1>1, <3>0, <3>3, <4>2, CmdProgress DEF ExecCmd
            <4>4. Reads(ns)' = Reads(ns) BY <1>1, <3>0, <4>1, <4>3, OthersExecute
            <4>5. Reads(ns)'[k] = Get(ns, k)' /\ Reads(ns)[k] = Get(ns, k) BY KeyTypes DEF Reads
            <4> QED BY <4>4, <4>5
        <3>4. \/ Set(m) \/ Delete(m) \/ WriteWhole(m) \/ ExecCmd(m) \/ store' = store
            BY <2>2 DEF Step, Close, NewBatch, BatchDelete, WriteNode, WriteVersion, WriteFails,
                        Exec, ExecRetry, ExecFails, ExecReturns
        <3> QED BY <2>0, <3>1, <3>2, <3>3, <3>4
    <2> QED BY <2>1, <2>2 DEF Next
<1> QED BY <1>1, InvHolds, PTL DEF Spec, NamespacesAreIsolated

\* A step of the store that goes on towards the next commit, in order, is a
\* step of RecordStore.
LEMMA OrderedStep ==
    ASSUME NEW ns \in Namespaces, NEW t, NEW a \in Nat, OrderOK(ns, t, a, Reads(ns)),
           t.commit = a + 1, kind' = kind, Progress(t, Reads(ns), Reads(ns)')
    PROVE  Contract(ns)!Next
<1> DEFINE g == Reads(ns)
           h == Reads(ns)'
           L == Get(ns, latestVersionKey)
           R == Get(ns, recentVersionNumberKey)
           Records == [k \in RecordKeys |-> Get(ns, k)]
<1>1. /\ g[latestVersionKey] = L /\ g[recentVersionNumberKey] = R
      /\ h[latestVersionKey] = L' /\ h[recentVersionNumberKey] = R'
      /\ \A k \in RecordKeys : g[k] = Get(ns, k) /\ h[k] = Get(ns, k)'
    BY KeyTypes DEF Reads
<1> HIDE DEF g, h
<1>2. /\ L \in {a, a + 1} /\ \A k \in RecordKeys : g[k] \in {a, a + 1}
      /\ L = a + 1 => \A k \in RecordKeys : g[k] = a + 1
    BY <1>1 DEF OrderOK, g
<1>3. /\ \A k \in RecordKeys : h[k] \in {g[k], a + 1}
      /\ L' \in {L, a + 1} /\ R' \in {R, a + 1}
      /\ L' = a + 1 => \A k \in RecordKeys : h[k] = a + 1
      /\ R' # R => L' = a + 1
    BY <1>1 DEF Progress, g, h
<1>4. CASE L' # L
    <2>1. L = a /\ L' = L + 1 /\ R' \in {R, L'} BY <1>2, <1>3, <1>4
    <2>2. Records' = [k \in RecordKeys |-> L + 1] BY <1>1, <1>3, <2>1
    <2>3. Contract(ns)!WriteVersion BY <2>1, <2>2 DEF Contract!WriteVersion
    <2> QED BY <2>3 DEF Contract!Next
<1>5. CASE L' = L /\ R' = R
    <2> DEFINE S == {k \in RecordKeys : h[k] # g[k]}
    <2>1. ASSUME NEW k \in S PROVE h[k] = L + 1
        BY <1>2, <1>3
    <2>2. Records' = [k \in RecordKeys |-> IF k \in S THEN L + 1 ELSE Records[k]]
        BY <1>1, <2>1
    <2>3. Contract(ns)!WriteRecords(S) BY <1>5, <2>2 DEF Contract!WriteRecords
    <2> QED BY <2>3 DEF Contract!Next
<1>6. CASE L' = L /\ R' # R
    <2>1. L = a + 1 /\ R' = L BY <1>3, <1>6
    <2>2. Records' = Records BY <1>1, <1>2, <1>3, <1>6, <2>1
    <2>3. Contract(ns)!WriteRecent BY <1>6, <2>1, <2>2 DEF Contract!WriteRecent
    <2> QED BY <2>3 DEF Contract!Next
<1> QED BY <1>4, <1>5, <1>6

\* A step that changes nothing a handle reads of its tree's keys.
LEMMA ContractStutters ==
    ASSUME NEW ns \in Namespaces, kind' = kind,
           \A k \in TreeKeys : Get(ns, k)' = Get(ns, k)
    PROVE  UNCHANGED Contract(ns)!vars
<1>1. /\ Get(ns, latestVersionKey)' = Get(ns, latestVersionKey)
      /\ Get(ns, recentVersionNumberKey)' = Get(ns, recentVersionNumberKey)
    BY KeyTypes
<1>2. [k \in RecordKeys |-> Get(ns, k)]' = [k \in RecordKeys |-> Get(ns, k)]
    BY DEF TreeKeys
<1> QED BY <1>1, <1>2 DEF Contract!vars

\* A memory database that is emptied.
LEMMA ContractLoses ==
    ASSUME NEW ns \in Namespaces, kind' = kind, kind = "memory",
           store' = [k \in StoreKeys |-> 0]
    PROVE  Contract(ns)!Next
<1>1. \A k \in TreeKeys : Get(ns, k)' = 0 BY KeyTypes DEF Get
<1>2. [k \in RecordKeys |-> Get(ns, k)]' = [k \in RecordKeys |-> 0] BY <1>1 DEF TreeKeys
<1>3. Get(ns, latestVersionKey)' = 0 /\ Get(ns, recentVersionNumberKey)' = 0
    BY <1>1, KeyTypes
<1>4. Contract(ns)!Lose BY <1>2, <1>3 DEF Contract!Lose, Contract!Empty
<1> QED BY <1>4 DEF Contract!Next

\* Every step of the databases is a step of RecordStore for every handle.
LEMMA ContractStep ==
    ASSUME Inv, [Next]_vars, NEW ns \in Namespaces
    PROVE  [Contract(ns)!Next]_(Contract(ns)!vars)
<1>0. store' = store /\ kind' = kind => UNCHANGED Contract(ns)!vars
    BY ContractStutters DEF Get
<1>1. CASE UNCHANGED vars BY <1>0, <1>1 DEF vars
<1>2. CASE Reopen BY <1>0, <1>2, ContractLoses DEF Reopen
<1>3. ASSUME NEW m \in Handles, Step(m) PROVE [Contract(ns)!Next]_(Contract(ns)!vars)
    <2>0. m \in Namespaces BY DatabaseAssumption DEF Handles
    <2>f. ASSUME NEW cmds, FromBatch(m, cmds), store' = Execute(store, cmds), kind' = kind, m # ns
          PROVE  UNCHANGED Contract(ns)!vars
        <3>1. Reads(ns)' = Reads(ns) BY <2>0, <2>f, OthersExecute
        <3>2. \A k \in TreeKeys : Reads(ns)'[k] = Get(ns, k)' /\ Reads(ns)[k] = Get(ns, k)
            BY KeyTypes DEF Reads
        <3> QED BY <2>f, <3>1, <3>2, ContractStutters
    <2>1. CASE Set(m) \/ Delete(m)
        <3>1. \A k \in TreeKeys : Get(ns, k)' = Get(ns, k) BY <2>0, <2>1, PutInv DEF Set, Delete
        <3>2. kind' = kind BY <2>1 DEF Set, Delete, Put
        <3> QED BY <3>1, <3>2, ContractStutters
    <2>2. CASE Close(m) BY <1>0, <2>2, ContractLoses DEF Close
    <2>3. CASE WriteWhole(m)
        <3>1. ~Lost /\ kind' = kind /\ store' = Execute(store, tree[m].writes)
            BY <2>3 DEF Lost, WriteWhole
        <3>2. /\ tree[m].commit = acked[m] + 1 /\ FromBatch(m, tree[m].writes)
              /\ Progress(tree[m], Reads(m), Reads(m)')
            BY <2>0, <2>3, <3>1, WholeProgress
        <3>3. OrderOK(m, tree[m], acked[m], Reads(m)) /\ acked[m] \in Nat
            BY <2>0, <3>1, HandleFacts DEF Inv
        <3>4. CASE m = ns BY <3>1, <3>2, <3>3, <3>4, OrderedStep
        <3>5. CASE m # ns BY <2>f, <3>1, <3>2, <3>5
        <3> QED BY <3>4, <3>5
    <2>4. CASE ExecCmd(m)
        <3> DEFINE c == tree[m].writes[tree[m].executed + 1]
        <3>1. ~Lost /\ kind' = kind /\ store' = Execute(store, <<c>>)
            BY <2>0, <2>4 DEF Lost, ExecCmd, Inv
        <3>2. /\ tree[m].commit = acked[m] + 1 /\ FromBatch(m, <<c>>)
              /\ Progress(tree[m], Reads(m), Reads(m)')
            BY <2>0, <2>4, <3>1, CmdProgress
        <3>3. OrderOK(m, tree[m], acked[m], Reads(m)) /\ acked[m] \in Nat
            BY <2>0, <3>1, HandleFacts DEF Inv
        <3> HIDE DEF c
        <3>4. CASE m = ns BY <3>1, <3>2, <3>3, <3>4, OrderedStep
        <3>5. CASE m # ns BY <2>f, <3>1, <3>2, <3>5
        <3> QED BY <3>4, <3>5
    <2>5. \/ Set(m) \/ Delete(m) \/ Close(m) \/ WriteWhole(m) \/ ExecCmd(m)
          \/ store' = store /\ kind' = kind
        BY <1>3 DEF Step, NewBatch, BatchDelete, WriteNode, WriteVersion, WriteFails,
                    Exec, ExecRetry, ExecFails, ExecReturns
    <2> QED BY <1>0, <2>1, <2>2, <2>3, <2>4, <2>5
<1> QED BY <1>1, <1>2, <1>3 DEF Next

LEMMA ContractInit == ASSUME Init, NEW ns \in Namespaces PROVE Contract(ns)!Init
<1>1. \A k \in TreeKeys : Get(ns, k) = 0 BY KeyTypes DEF Init, Get
<1>2. [k \in RecordKeys |-> Get(ns, k)] = [k \in RecordKeys |-> 0] BY <1>1 DEF TreeKeys
<1>3. Get(ns, latestVersionKey) = 0 /\ Get(ns, recentVersionNumberKey) = 0
    BY <1>1, KeyTypes
<1> QED BY <1>2, <1>3 DEF Contract!Init, Contract!Empty

\* Memory, leveldb and redis implement RecordStore for every handle: the
\* records of a commit, then its version, then recentVersionNumber, whatever
\* fails, is resent or is interrupted (batch.Write, wrapKey; Commit, smt.go).
THEOREM WriteOrderKept == Spec => KeepsWriteOrder
<1>1. Init => \A ns \in Namespaces : Contract(ns)!Init BY ContractInit
<1>2. ASSUME Inv, [Next]_vars
      PROVE  [\A ns \in Namespaces : [Contract(ns)!Next]_(Contract(ns)!vars)]_vars
    BY <1>2, ContractStep
<1> QED BY <1>1, <1>2, InvHolds, PTL DEF Spec, KeepsWriteOrder

\* The same as a refinement: what a handle shows of its store is a behaviour
\* of RecordStore.
THEOREM ImplementsRecordStore ==
    ASSUME NEW ns \in Namespaces PROVE Spec => Contract(ns)!Spec
<1>1. Init => Contract(ns)!Init BY ContractInit
<1>2. Inv /\ [Next]_vars => [Contract(ns)!Next]_(Contract(ns)!vars) BY ContractStep
<1> QED BY <1>1, <1>2, InvHolds, PTL DEF Spec, Contract!Spec
=============================================================================
