-------------------------------- MODULE SMT --------------------------------
(***************************************************************************)
(* BNBSparseMerkleTree (src/smt.go): the working tree, the last saved      *)
(* tree, the journal of uncommitted nodes, the database records, the LRU   *)
(* cache of leaves, and the operations of the SparseMerkleTree interface   *)
(* on them. Calls are sequential (the type has no lock); MultiSet, whose   *)
(* goroutines run inside one call, has a module of its own.                *)
(*                                                                         *)
(* A tree node is named by the nibbles that lead to it: the root is <<>>,  *)
(* a leaf is a key. The hash of a subtree is its content, the map from     *)
(* keys to values it commits to (Nil outside it): hashes are assumed       *)
(* collision free, and Merkle hashes of equal contents are equal. What     *)
(* Internals adds to that is the business of TreeNode.SetChildren.         *)
(***************************************************************************)
EXTENDS VersionList, FiniteSets

CONSTANTS Keys,         \* keys, as sequences of nibbles of equal length
          Vals,         \* values a client sets
          Nil,          \* the nil hash of a leaf
          InitVersion,  \* InitializeVersion(version)
          MaxVersion,   \* bound on version numbers
          CacheSize,    \* DBCacheSize(size)
          Departures    \* departures from the quiet path this instance explores

\* Writes that fail with nothing of the batch stored; batches stored in part:
\* they outgrow batchSizeLimit, or they are redis pipelines; a redis pipeline
\* that was executed to the end though Write returned an error; one of which
\* the last command, recentVersionNumber, was not executed; a client that
\* calls Rollback again after it failed; a client that goes on without redoing
\* a call of which something was stored.
AllDepartures == {"commitFails", "rollbackFails", "splits", "unanswered", "lostRecent",
                  "retryRollback", "noRedo"}

ASSUME SMTAssumption ==
    /\ Keys # {} /\ \A k \in Keys : k \in Seq(0 .. 15)
    /\ \A k, kk \in Keys : Len(k) = Len(kk)
    /\ InitVersion \in Nat
    /\ MaxVersion \in Nat
    /\ CacheSize \in Nat \ {0}
    /\ Departures \subseteq AllDepartures

Value == Vals \cup {Nil}

\* recentVersion == nil in a call, or no record under latestVersionKey.
NoVersion == -1

----------------------------------------------------------------------------
(* Geometry: path >> 4 is the parent's path, Children[nibble] a child.     *)

RootNode == <<>>

Prefixes(s) == {SubSeq(s, 1, i) : i \in 0 .. Len(s)}

Nodes == {RootNode} \cup UNION {Prefixes(k) : k \in Keys}

\* The nodes from the root down to n, both included.
Path == [n \in Nodes |-> Prefixes(n)]

Parent == [n \in Nodes \ {RootNode} |-> SubSeq(n, 1, Len(n) - 1)]

----------------------------------------------------------------------------
(* Nodes in memory. "resident": with its children; "temporary": only its   *)
(* versions are known (IsTemporary); "nil": a nil pointer in the parent's  *)
(* Children array.                                                         *)

Content == [Keys -> Value]

NilHash == [k \in Keys |-> Nil]

Versions == Seq(VersionInfo(Content))

Node == [state : {"nil", "temporary", "resident"}, versions : Versions]

NilNode == [state |-> "nil", versions |-> <<>>]

\* NewTreeNode
NewTreeNode == [state |-> "resident", versions |-> <<>>]

Resident(node) == node.state = "resident"

\* TreeNode.Root
Root(node) == LatestHash(node.versions, NilHash)

VARIABLES version,        \* tree.version
          recentVersion,  \* tree.recentVersion
          root,           \* the nodes reachable from tree.root
          lastSaveRoot,   \* the nodes reachable from tree.lastSaveRoot
          journal,        \* the nodes tree.journal holds
          dbCache,        \* tree.dbCache
          db,             \* node records: Versions under t:depth:path
          dbChild,        \* dbChild[n]: n's entry in its parent's record
          dbVersion,      \* latestVersionKey
          dbRecent,       \* recentVersionNumberKey
          asked,          \* recentVersion of a failed commit not yet undone
          rollbackFailed, \* a rollback failed and the tree was not reopened
          interrupted     \* the failed call of which something was stored

vars == <<version, recentVersion, root, lastSaveRoot, journal, dbCache, db,
          dbChild, dbVersion, dbRecent, asked, rollbackFailed, interrupted>>

\* An interrupted commit is known by its version and its edits, an interrupted
\* rollback by its target.
Nothing == [op |-> "none", version |-> 0, edits |-> {}]

IsEmpty == Root(root[RootNode]) = NilHash

----------------------------------------------------------------------------
(* Loading nodes from the database.                                        *)

\* A child of a node just decoded by ToTreeNode: temporary if the parent's
\* record lists versions for it.
StoredChild(n) ==
    IF dbChild[n] = <<>>
    THEN NilNode
    ELSE [state |-> "temporary", versions |-> dbChild[n]]

\* StorageLeafNode in ToStorageTreeNode.
ToStorage_Oldest(node) ==
    IF node.versions = <<>> THEN <<>> ELSE <<node.versions[1]>>

ToStorage(node) == node.versions

\* extendNode along the nodes of S, which is closed under the parents that
\* are not resident: each becomes resident, with its record's versions or,
\* when there is no record, none; the children of a loaded node follow it.
Extend(t, S) ==
    [n \in Nodes |->
        IF Resident(t[n]) THEN t[n]
        ELSE IF n \in S
             THEN IF db[n].found
                  THEN [state |-> "resident", versions |-> db[n].versions]
                  ELSE NewTreeNode
        ELSE IF n # RootNode /\ Parent[n] \in S /\ ~Resident(t[Parent[n]])
             THEN IF db[Parent[n]].found THEN StoredChild(n) ELSE NilNode
        ELSE t[n]]

\* The nodes on the paths of the keys of S.
Paths == [S \in SUBSET Keys |-> UNION {Path[k] : k \in S}]

\* Set and GetProof load nodes into the old tree in place. That tree shares
\* with lastSaveRoot every node that is not a copy made since the last save,
\* so the last saved tree grows too if the node it starts from is shared.
ExtendsSavedTree(k) ==
    \E n \in Path[k] \ {RootNode} :
        /\ ~Resident(root[n])
        /\ Resident(root[Parent[n]])
        /\ Parent[n] \notin journal
        /\ Resident(lastSaveRoot[Parent[n]])

SavedTreeAfterLoad(S) ==
    Extend(lastSaveRoot, Paths[{k \in S : ExtendsSavedTree(k)}])

----------------------------------------------------------------------------
(* Hashing. SetChildren combines the new hash of the child on the path     *)
(* with the hashes of the other children, level by level up to the root.   *)
(* items gives the keys set their values. For another key kk below n, what *)
(* n commits to is what the first node of kk's path that is on no path of  *)
(* a key set commits to.                                                   *)

Fork ==
    [S \in (SUBSET Keys) \ {{}} |-> [kk \in Keys \ S |->
        CHOOSE n \in Path[kk] \ Paths[S] : Parent[n] \in Paths[S]]]

SetChildren(t, n, items) ==
    [kk \in Keys |->
        IF n \notin Path[kk] THEN Nil
        ELSE IF kk \in DOMAIN items THEN items[kk]
        ELSE Root(t[Fork[DOMAIN items][kk]])[kk]]

Item(k, val) == [kk \in {k} |-> val]

----------------------------------------------------------------------------
Init ==
    /\ version = InitVersion
    /\ recentVersion = 0
    /\ root = [n \in Nodes |-> IF n = RootNode THEN NewTreeNode ELSE NilNode]
    /\ lastSaveRoot = root
    /\ journal = {}
    /\ dbCache = [k \in Keys |-> [found |-> FALSE, versions |-> <<>>]]
    /\ db = [n \in Nodes |-> [found |-> FALSE, versions |-> <<>>]]
    /\ dbChild = [n \in Nodes |-> <<>>]
    /\ dbVersion = NoVersion
    /\ dbRecent = NoVersion
    /\ asked = NoVersion
    /\ rollbackFailed = FALSE
    /\ interrupted = Nothing

----------------------------------------------------------------------------
(* Reads.                                                                  *)

\* What Get returns for a version it accepts: the cached leaf if it has an
\* entry not above v, else the record, else the nil hash. (ErrEmptyRoot, and
\* ErrNodeNotFound for a leaf without record, are the nil hash to VerifyProof
\* and to this model.)
GetValue(k, v) ==
    IF IsEmpty THEN Nil
    ELSE IF dbCache[k].found /\ VisibleIndex(dbCache[k].versions, v) > 0
    THEN HashAt(dbCache[k].versions, v, NilHash)[k]
    ELSE HashAt(db[k].versions, v, NilHash)[k]

\* lru.Cache.Add of the leaves in new: the cache keeps at most CacheSize
\* leaves, and an older one only if all new ones fit.
CacheAdd(new, cached) ==
    LET held == {k \in Keys : dbCache[k].found} \cup new
        Kept(S) == /\ Cardinality(S) <= CacheSize
                   /\ held \subseteq S \/ Cardinality(S) = CacheSize
                   /\ new \subseteq S \/ S \subseteq new
    IN  {[k \in Keys |-> IF k \notin S THEN [found |-> FALSE, versions |-> <<>>]
                         ELSE IF k \in new THEN [found |-> TRUE, versions |-> cached[k].versions]
                         ELSE dbCache[k]] : S \in {T \in SUBSET held : Kept(T)}}

\* Get(key, &v), when it goes to the database: the decoded leaf is cached.
Get(k, v) ==
    /\ ~IsEmpty
    /\ recentVersion <= v /\ v <= version
    /\ ~(dbCache[k].found /\ VisibleIndex(dbCache[k].versions, v) > 0)
    /\ db[k].found
    /\ dbCache' \in CacheAdd({k}, db)
    /\ UNCHANGED <<version, recentVersion, root, lastSaveRoot, journal, db,
                   dbChild, dbVersion, dbRecent, asked, rollbackFailed, interrupted>>

\* GetProof(key): loads the path. (On an empty tree it only returns nil
\* hashes.)
GetProof(k) ==
    /\ ~IsEmpty
    /\ root' = Extend(root, Path[k])
    /\ lastSaveRoot' = SavedTreeAfterLoad({k})
    /\ UNCHANGED <<version, recentVersion, journal, dbCache, db, dbChild,
                   dbVersion, dbRecent, asked, rollbackFailed, interrupted>>

----------------------------------------------------------------------------
(* Writes.                                                                 *)

\* A leaf cached by a commit that failed shares its Versions array with the
\* working leaf, or not, depending on the capacity append found: a later Set
\* of the key may or may not show through.
CachedAfterSet(infos) ==
    LET Ahead(k) == dbCache[k].found /\ LatestVersion(dbCache[k].versions) > version
        Overwritten(k) ==
            [dbCache[k] EXCEPT !.versions[Len(dbCache[k].versions)] = infos[k]]
    IN  {[k \in Keys |-> IF k \in shared THEN Overwritten(k) ELSE dbCache[k]] :
             shared \in SUBSET {k \in DOMAIN infos : Ahead(k)}}

\* The paths of the keys in items are loaded and copied, and the leaves and
\* every node above them get an entry.
SetItems(items, newVersion) ==
    /\ LET S == DOMAIN items
           t == Extend(root, Paths[S])
           NewInfo(n) == Info(newVersion, SetChildren(t, n, items))
       IN  /\ root' = [n \in Nodes |->
                          IF n \in Paths[S]
                          THEN [t[n] EXCEPT !.versions = NewVersion(@, NewInfo(n))]
                          ELSE t[n]]
           /\ dbCache' \in CachedAfterSet([k \in S |-> NewInfo(k)])
           /\ lastSaveRoot' = SavedTreeAfterLoad(S)
           /\ journal' = journal \cup Paths[S]
    /\ UNCHANGED <<version, recentVersion, db, dbChild, dbVersion, dbRecent,
                   asked, rollbackFailed, interrupted>>

SetWithVersion(k, val, newVersion) ==
    /\ newVersion > version
    /\ SetItems(Item(k, val), newVersion)

\* MultiSetWithVersion, as module MultiSet shows it to be: the items of one
\* call set together. Unlike SetWithVersion it does not look at the version.
MultiSetWithVersion(items, newVersion) == SetItems(items, newVersion)

\* Reset
Reset_KeepRoot ==
    /\ journal' = {}
    /\ asked' = IF interrupted = Nothing THEN NoVersion ELSE asked
    /\ UNCHANGED <<version, recentVersion, root, lastSaveRoot, dbCache, db, dbChild,
                   dbVersion, dbRecent, rollbackFailed, interrupted>>

Reset ==
    /\ journal' = {}
    /\ root' = lastSaveRoot
    /\ asked' = IF interrupted = Nothing THEN NoVersion ELSE asked
    /\ UNCHANGED <<version, recentVersion, lastSaveRoot, dbCache, db, dbChild,
                   dbVersion, dbRecent, rollbackFailed, interrupted>>

----------------------------------------------------------------------------
(* Commit.                                                                 *)

\* The version checks of CommitWithNewVersion.
CommitAccepted(recent, newVer) ==
    /\ recent # NoVersion => newVer > recent
    /\ recent = NoVersion => newVer > version

\* The tree after writeNode has pruned the given nodes, in place.
Pruned(recent, visited) ==
    [n \in Nodes |->
        IF n \in visited /\ recent # NoVersion
        THEN [root[n] EXCEPT !.versions = Prune(@, recent)]
        ELSE root[n]]

\* The nodes whose order in the journal matters: a commit shortens their lists.
Shortened(recent) ==
    LET t == Pruned(recent, journal) IN {n \in journal \ {RootNode} : t[n] # root[n]}

\* TreeNode.Release(oldest): below the root, the topmost nodes not updated
\* since oldest are archived; their subtrees are dropped.
Outdated(node, oldest) ==
    node.versions # <<>> /\ LatestVersion(node.versions) < oldest

Released_LeaveNothing(t, oldest) ==
    [n \in Nodes |->
        IF \E a \in Path[n] \ {RootNode} : Outdated(t[a], oldest) THEN NilNode ELSE t[n]]

Released(t, oldest) ==
    [n \in Nodes |->
        IF \E a \in Path[n] \ {n, RootNode} : Outdated(t[a], oldest)
        THEN NilNode
        ELSE IF n # RootNode /\ Outdated(t[n], oldest)
        THEN [t[n] EXCEPT !.state = "temporary"]
        ELSE t[n]]

\* The records after writeNode has stored the nodes of saved, with the entries
\* of their children as tree c has them.
Stored(saved, t) ==
    [n \in Nodes |->
        IF n \in saved THEN [found |-> TRUE, versions |-> t[n].versions] ELSE db[n]]

StoredEntries(saved, c) ==
    [n \in Nodes |->
        IF n # RootNode /\ Parent[n] \in saved THEN ToStorage(c[n]) ELSE dbChild[n]]

\* CommitWithNewVersion. release is what gcStatus.pop answers. The journal is
\* visited in no order: the nodes in late are pruned after their parent was
\* stored, whose record then lists versions of them that are no longer there.
CommitWithNewVersion(recent, newVer, release, late) ==
    /\ CommitAccepted(recent, newVer)
    /\ LET t == Pruned(recent, journal)
       IN  /\ db' = Stored(journal, t)
           /\ dbChild' = StoredEntries(journal, Pruned(recent, journal \ late))
           /\ dbCache' \in CacheAdd(journal \cap Keys, t)
           /\ root' = IF release > 0 THEN Released(t, release) ELSE t
    /\ lastSaveRoot' = root'
    /\ journal' = {}
    /\ version' = newVer
    /\ dbVersion' = newVer
    /\ recentVersion' = IF recent = NoVersion THEN recentVersion ELSE recent
    /\ dbRecent' = IF recent = NoVersion THEN dbRecent ELSE recent
    /\ asked' = NoVersion
    /\ interrupted' = Nothing
    /\ UNCHANGED rollbackFailed

PendingEdits == {<<k, Root(root[k])[k]>> : k \in journal \cap Keys}

Interruption(op, v, edits) ==
    IF "noRedo" \in Departures THEN Nothing
    ELSE [op |-> op, version |-> v, edits |-> edits]

\* The same call when a Write of the batch fails, or the process dies (and is
\* reopened) at that point: visited nodes are pruned and the leaves among them
\* cached, except the one whose writeNode returned the error; nothing is
\* stored but what earlier, smaller batches held, late as above.
CommitFails_VersionFirst(recent, newVer, visited, written, late) ==
    /\ "commitFails" \in Departures
    /\ CommitAccepted(recent, newVer)
    /\ visited = journal
    /\ root' = Pruned(recent, visited)
    /\ db' = Stored(written, root')
    /\ dbChild' = StoredEntries(written, Pruned(recent, visited \ late))
    /\ dbVersion' = newVer
    /\ dbCache' \in CacheAdd(visited \cap Keys, root')
    /\ asked' = IF recent = NoVersion THEN asked ELSE recent
    /\ interrupted' = IF written = {} THEN interrupted
                      ELSE Interruption("commit", newVer, PendingEdits)
    /\ UNCHANGED <<version, recentVersion, lastSaveRoot, journal, dbRecent, rollbackFailed>>

CommitFails_RecentFirst(recent, newVer, visited, written, late) ==
    /\ "commitFails" \in Departures
    /\ CommitAccepted(recent, newVer)
    /\ visited = journal
    /\ root' = Pruned(recent, visited)
    /\ db' = Stored(written, root')
    /\ dbChild' = StoredEntries(written, Pruned(recent, visited \ late))
    /\ dbRecent' = IF recent = NoVersion THEN dbRecent ELSE recent
    /\ dbCache' \in CacheAdd(visited \cap Keys, root')
    /\ asked' = IF recent = NoVersion THEN asked ELSE recent
    /\ interrupted' = IF written = {} THEN interrupted
                      ELSE Interruption("commit", newVer, PendingEdits)
    /\ UNCHANGED <<version, recentVersion, lastSaveRoot, journal, dbVersion, rollbackFailed>>

CommitFails(recent, newVer, visited, written, late) ==
    /\ "commitFails" \in Departures
    /\ CommitAccepted(recent, newVer)
    /\ \/ visited = journal /\ written = {}
       \/ "splits" \in Departures /\ visited \subseteq journal /\ written \subseteq visited
    /\ LET t == Pruned(recent, visited)
           failed == IF "splits" \in Departures
                     THEN {{}} \cup {{k} : k \in visited \cap Keys}
                     ELSE {{}}
       IN  /\ root' = t
           /\ db' = Stored(written, t)
           /\ dbChild' = StoredEntries(written, Pruned(recent, visited \ late))
           /\ \E last \in failed : dbCache' \in CacheAdd((visited \cap Keys) \ last, t)
    /\ asked' = IF recent = NoVersion THEN asked ELSE recent
    /\ interrupted' = IF written = {} THEN interrupted
                      ELSE Interruption("commit", newVer, PendingEdits)
    /\ UNCHANGED <<version, recentVersion, lastSaveRoot, journal, dbVersion,
                   dbRecent, rollbackFailed>>

\* The same call when Exec returns an error though the server has executed the
\* pipeline, the version numbers included.
CommitUnanswered(recent, newVer, late) ==
    /\ "unanswered" \in Departures
    /\ CommitAccepted(recent, newVer)
    /\ LET t == Pruned(recent, journal)
       IN  /\ root' = t
           /\ db' = Stored(journal, t)
           /\ dbChild' = StoredEntries(journal, Pruned(recent, journal \ late))
           /\ dbCache' \in CacheAdd(journal \cap Keys, t)
    /\ dbVersion' = newVer
    /\ dbRecent' \in {IF recent = NoVersion THEN dbRecent ELSE recent}
                        \cup (IF "lostRecent" \in Departures THEN {dbRecent} ELSE {})
    /\ asked' = IF recent = NoVersion THEN asked ELSE recent
    /\ interrupted' = Interruption("commit", newVer, PendingEdits)
    /\ UNCHANGED <<version, recentVersion, lastSaveRoot, journal, rollbackFailed>>

----------------------------------------------------------------------------
(* Rollback: Reset, then rollback from the root down. It descends into the *)
(* children it finds, loading them first, as long as something is dropped. *)

\* The Versions a node has once rollback has loaded it.
LoadedVersions(n) ==
    IF Resident(lastSaveRoot[n]) THEN lastSaveRoot[n].versions ELSE db[n].versions

\* subChild != nil, in the loaded parent.
HasChild(n) ==
    IF Resident(lastSaveRoot[Parent[n]])
    THEN lastSaveRoot[n].state # "nil"
    ELSE dbChild[n] # <<>>

\* The nodes that lose entries: next is true for them and for all above.
Dropping_OnlyLoaded(target) ==
    {n \in Nodes :
        \A a \in Path[n] :
            DropsAny(LoadedVersions(a), target) /\ Resident(lastSaveRoot[a])}

Dropping(target) ==
    {n \in Nodes :
        \A a \in Path[n] :
            /\ DropsAny(LoadedVersions(a), target)
            /\ a # RootNode => HasChild(a)}

\* The tree rollback leaves in memory.
RolledBack(target, dropping) ==
    LET visited == {n \in Nodes \ {RootNode} : Parent[n] \in dropping /\ HasChild(n)}
        t == Extend(lastSaveRoot, visited)
    IN  [n \in Nodes |->
            IF n \in dropping
            THEN [t[n] EXCEPT !.versions = NodeRollback(@, target)]
            ELSE t[n]]

\* "re-cache the rollback node"
Recached_KeepOld(t, dropping) == dbCache

Recached(t, dropping) ==
    [k \in Keys |->
        IF k \in dropping /\ dbCache[k].found
        THEN [found |-> TRUE, versions |-> t[k].versions]
        ELSE dbCache[k]]

RollbackAccepted(target) == recentVersion <= target /\ target <= version

Rollback(target) ==
    /\ RollbackAccepted(target)
    /\ LET dropping == Dropping(target)
           t == RolledBack(target, dropping)
       IN  /\ root' = t
           /\ lastSaveRoot' = t
           /\ db' = Stored(dropping, t)
           /\ dbChild' = StoredEntries(dropping, t)
           /\ dbCache' = Recached(t, dropping)
    /\ journal' = {}
    /\ version' = target
    /\ dbVersion' = target
    /\ asked' = NoVersion
    /\ rollbackFailed' = FALSE
    /\ interrupted' = Nothing
    /\ UNCHANGED <<recentVersion, dbRecent>>

\* The order in which rollback stores nodes: those below a node, and those
\* below its elder siblings, before the node.
StoredBefore(m, n) ==
    \/ n \in Path[m]
    \/ \E i \in 1 .. Len(m) :
           i <= Len(n) /\ SubSeq(m, 1, i - 1) = SubSeq(n, 1, i - 1) /\ m[i] < n[i]

\* The same call when a Write of the batch fails, or the process dies at that
\* point. (Of a rollback that fails between two parts the client keeps
\* nothing: the nodes in memory it did not come to are not told apart.)
RollbackFails(target, written) ==
    /\ "rollbackFails" \in Departures
    /\ RollbackAccepted(target)
    /\ LET dropping == Dropping(target)
           t == RolledBack(target, dropping)
       IN  /\ \/ written = {}
              \/ /\ "splits" \in Departures /\ written \subseteq dropping
                 /\ \A n \in written, m \in dropping : StoredBefore(m, n) => m \in written
           /\ root' = t
           /\ lastSaveRoot' = t
           /\ db' = Stored(written, t)
           /\ dbChild' = StoredEntries(written, t)
           /\ dbCache' = Recached(t, dropping)
    /\ journal' = {}
    /\ asked' = NoVersion
    /\ rollbackFailed' = TRUE
    /\ interrupted' = IF written = {} THEN interrupted
                      ELSE Interruption("rollback", target, {})
    /\ UNCHANGED <<version, recentVersion, dbVersion, dbRecent>>

\* The same call when Exec returns an error though the server has executed the
\* pipeline.
RollbackUnanswered(target) ==
    /\ "unanswered" \in Departures
    /\ RollbackAccepted(target)
    /\ LET dropping == Dropping(target)
           t == RolledBack(target, dropping)
       IN  /\ root' = t
           /\ lastSaveRoot' = t
           /\ db' = Stored(dropping, t)
           /\ dbChild' = StoredEntries(dropping, t)
           /\ dbCache' = Recached(t, dropping)
    /\ dbVersion' = target
    /\ journal' = {}
    /\ asked' = NoVersion
    /\ rollbackFailed' = TRUE
    /\ interrupted' = Interruption("rollback", target, {})
    /\ UNCHANGED <<version, recentVersion, dbRecent>>

----------------------------------------------------------------------------
(* A crash or a shutdown, and NewBNBSparseMerkleTree on the same database. *)

\* initFromStorage
ReopenedTree ==
    IF dbVersion = NoVersion \/ ~db[RootNode].found
    THEN [n \in Nodes |-> IF n = RootNode THEN NewTreeNode ELSE NilNode]
    ELSE Extend([n \in Nodes |-> NilNode], {RootNode})

ReopenedVersion == IF dbVersion = NoVersion THEN InitVersion ELSE dbVersion

ReopenedRecent ==
    IF dbVersion = NoVersion \/ dbRecent = NoVersion THEN 0 ELSE dbRecent

\* The client sees from the version of the reopened tree that the failed call
\* was done after all.
IsDone == dbVersion = interrupted.version

Reopen_TrustRecord ==
    /\ version' = dbVersion
    /\ recentVersion' = ReopenedRecent
    /\ root' = ReopenedTree
    /\ lastSaveRoot' = ReopenedTree
    /\ journal' = {}
    /\ dbCache' = [k \in Keys |-> [found |-> FALSE, versions |-> <<>>]]
    /\ interrupted' = IF IsDone THEN Nothing ELSE interrupted
    /\ asked' = IF interrupted' = Nothing THEN NoVersion ELSE asked
    /\ rollbackFailed' = FALSE
    /\ UNCHANGED <<db, dbChild, dbVersion, dbRecent>>

Reopen ==
    /\ version' = ReopenedVersion
    /\ recentVersion' = ReopenedRecent
    /\ root' = ReopenedTree
    /\ lastSaveRoot' = ReopenedTree
    /\ journal' = {}
    /\ dbCache' = [k \in Keys |-> [found |-> FALSE, versions |-> <<>>]]
    /\ interrupted' = IF IsDone THEN Nothing ELSE interrupted
    /\ asked' = IF interrupted' = Nothing THEN NoVersion ELSE asked
    /\ rollbackFailed' = FALSE
    /\ UNCHANGED <<db, dbChild, dbVersion, dbRecent>>

----------------------------------------------------------------------------
(* The client. All sets of a block and its commit carry one version, a     *)
(* MultiSet is the first call of its block, the retained range only moves  *)
(* up, and a commit is retried with a recentVersion no lower than before.  *)
(* A failed rollback is followed by a reopen, or, in the instances that    *)
(* ask for it, by another rollback. A call that failed when something of   *)
(* its batch was stored is done again, in the same process or after a      *)
(* reopen that shows it was not done: the commit with the same edits,      *)
(* version and recentVersion, the rollback with the same target.           *)

BlockVersion(v) ==
    /\ v > version
    /\ journal # {} => v = LatestVersion(root[RootNode].versions)
    /\ interrupted # Nothing => interrupted.op = "commit" /\ v = interrupted.version

InBlock(items) ==
    interrupted # Nothing =>
        \A k \in DOMAIN items : <<k, items[k]>> \in interrupted.edits

RecentChoice(recent) ==
    /\ IF recent = NoVersion THEN asked = NoVersion
       ELSE recent >= recentVersion /\ recent >= asked
    /\ interrupted # Nothing => recent = asked

BlockComplete == \A e \in interrupted.edits : e[1] \in journal

RollbackChoice(target) ==
    /\ rollbackFailed => "retryRollback" \in Departures
    /\ interrupted # Nothing => interrupted.op = "rollback" /\ target = interrupted.version

Bounded == 1 .. MaxVersion

CallGet(k, v) == ~rollbackFailed /\ Get(k, v)

CallGetProof(k) == ~rollbackFailed /\ GetProof(k)

CallSet(k, val, v) ==
    /\ ~rollbackFailed /\ BlockVersion(v) /\ InBlock(Item(k, val))
    /\ SetWithVersion(k, val, v)

CallMultiSet(items, v) ==
    /\ ~rollbackFailed /\ BlockVersion(v) /\ InBlock(items) /\ journal = {}
    /\ MultiSetWithVersion(items, v)

CallReset == ~rollbackFailed /\ Reset

CallCommit(recent, v, release, late) ==
    /\ ~rollbackFailed /\ BlockVersion(v) /\ RecentChoice(recent) /\ BlockComplete
    /\ CommitWithNewVersion(recent, v, release, late)

CallCommitFails(recent, v, visited, written, late) ==
    /\ ~rollbackFailed /\ BlockVersion(v) /\ RecentChoice(recent) /\ BlockComplete
    /\ CommitFails(recent, v, visited, written, late)

CallCommitUnanswered(recent, v, late) ==
    /\ ~rollbackFailed /\ BlockVersion(v) /\ RecentChoice(recent) /\ BlockComplete
    /\ CommitUnanswered(recent, v, late)

CallRollback(target) == RollbackChoice(target) /\ Rollback(target)

CallRollbackFails(target, written) ==
    RollbackChoice(target) /\ RollbackFails(target, written)

CallRollbackUnanswered(target) == RollbackChoice(target) /\ RollbackUnanswered(target)

\* Calls that fail when some parts of their batch are stored.
CallWrittenInPart ==
    \/ \E recent \in NoVersion .. MaxVersion, v \in Bounded, visited \in SUBSET journal :
           \E written \in SUBSET visited, late \in SUBSET (Shortened(recent) \cap visited) :
               CallCommitFails(recent, v, visited, written, late)
    \/ \E target \in 0 .. MaxVersion, written \in SUBSET Nodes :
           CallRollbackFails(target, written)

\* Calls that fail when all of their batch is stored.
CallUnanswered ==
    \/ \E recent \in NoVersion .. MaxVersion : \E late \in SUBSET Shortened(recent) :
       \E v \in Bounded : CallCommitUnanswered(recent, v, late)
    \/ \E target \in 0 .. MaxVersion : CallRollbackUnanswered(target)

Next ==
    \/ \E k \in Keys, v \in 0 .. MaxVersion : CallGet(k, v)
    \/ \E k \in Keys : CallGetProof(k)
    \/ \E k \in Keys, val \in Value, v \in Bounded : CallSet(k, val, v)
    \/ \E S \in (SUBSET Keys) \ {{}}, v \in Bounded : \E items \in [S -> Value] :
           CallMultiSet(items, v)
    \/ CallReset
    \/ \E recent \in NoVersion .. MaxVersion : \E late \in SUBSET Shortened(recent) :
       \E v \in Bounded, release \in 0 .. MaxVersion : CallCommit(recent, v, release, late)
    \/ \E recent \in NoVersion .. MaxVersion, v \in Bounded :
           CallCommitFails(recent, v, journal, {}, {})
    \/ \E target \in 0 .. MaxVersion : CallRollback(target) \/ CallRollbackFails(target, {})
    \/ "splits" \in Departures /\ CallWrittenInPart
    \/ "unanswered" \in Departures /\ CallUnanswered
    \/ Reopen

Spec == Init /\ [][Next]_vars

----------------------------------------------------------------------------
TypeOK ==
    /\ version \in Nat
    /\ recentVersion \in Nat
    /\ root \in [Nodes -> Node]
    /\ lastSaveRoot \in [Nodes -> Node]
    /\ journal \in SUBSET Nodes
    /\ dbCache \in [Keys -> [found : BOOLEAN, versions : Versions]]
    /\ db \in [Nodes -> [found : BOOLEAN, versions : Versions]]
    /\ dbChild \in [Nodes -> Versions]
    /\ dbVersion \in Nat \cup {NoVersion}
    /\ dbRecent \in Nat \cup {NoVersion}
    /\ asked \in Nat \cup {NoVersion}
    /\ rollbackFailed \in BOOLEAN
    /\ interrupted \in [op : {"none", "commit", "rollback"}, version : Nat,
                       edits : SUBSET (Keys \X Value)]

\* The map the leaf records hold for version v.
Snapshot(v) == [k \in Keys |-> HashAt(db[k].versions, v, NilHash)[k]]

\* The tree as its client sees it.
Promise == INSTANCE VersionedTree WITH
    recent   <- recentVersion,
    snapshot <- [v \in recentVersion .. version |-> Snapshot(v)],
    work     <- Root(root[RootNode]),
    edited   <- journal \cap Keys

\* The leaf records and the working root behave like the versioned map: a
\* commit adds exactly the pending edits as a snapshot, pruning, garbage
\* collection, cache and reopening change no retained snapshot, Rollback and
\* Reset bring back the root of the snapshot they name.
KeepsPromise == Promise!Spec

\* Get reads the cache before the database (smt.go 424-433, "read from db if
\* cache miss"): the cached leaf never answers differently from the record.
CacheAgreesWithRecords ==
    ~rollbackFailed /\ ~IsEmpty =>
        \A k \in Keys, v \in recentVersion .. version :
            GetValue(k, v) = Snapshot(v)[k]

\* The versions a client can rely on. An interrupted commit has pruned some
\* records already, an interrupted rollback has dropped entries already.
Reliable ==
    {v \in recentVersion .. version :
        /\ interrupted.op = "commit" => v >= asked
        /\ interrupted.op = "rollback" => v <= interrupted.version}

\* Every stored node, not only the root, has in every reliable version the
\* hash of the leaves below it in that version.
RecordsAgreeWithLeaves ==
    \A n \in Nodes, v \in Reliable :
        HashAt(db[n].versions, v, NilHash)
            = [k \in Keys |-> IF n \in Path[k] THEN Snapshot(v)[k] ELSE Nil]

\* The range of versions Get and Rollback accept is never empty and survives
\* a crash at any point: initFromStorage would read back the range of before,
\* or, if a call whose write returned an error was stored to the end, that of
\* after the call, and never one end of each.
RangeSurvivesRestart ==
    /\ recentVersion <= version /\ ReopenedRecent <= ReopenedVersion
    /\ \/ version = ReopenedVersion /\ recentVersion = ReopenedRecent
       \/ /\ interrupted # Nothing /\ IsDone
          /\ ReopenedRecent = IF asked = NoVersion THEN recentVersion ELSE asked

\* What a reopened tree shows as its root is the latest version that was
\* stored to the end, also when the call that stored it returned an error: no
\* record has an entry above it ("verify proof2 after restoring from db
\* failed", smt_test.go 361; "delete unnecessary versions", docs/design.md 56).
ReopenShowsLatest ==
    interrupted = Nothing \/ IsDone =>
        Root(ReopenedTree[RootNode]) = Snapshot(ReopenedVersion)

\* A proof for a committed tree verifies against its root: hashing the value
\* Get returns with the siblings GetProof collects gives the root back.
ProofsVerify ==
    journal = {} /\ ~rollbackFailed /\ interrupted = Nothing =>
        \A k \in Keys :
            SetChildren(Extend(root, Path[k]), RootNode, Item(k, GetValue(k, version)))
                = Root(root[RootNode])

\* A node without its children in memory (archived, or never loaded) can be
\* loaded again: its record exists and has the hash the tree has used for it.
NodesCanBeReloaded ==
    interrupted = Nothing =>
        \A n \in Nodes \ {RootNode} :
            /\ root[n].state = "temporary" =>
                  /\ db[n].found
                  /\ LatestHash(db[n].versions, NilHash) = Root(root[n])
            /\ Resident(root[Parent[n]]) /\ root[n].state = "nil" =>
                  LatestHash(db[n].versions, NilHash) = NilHash

\* What a client has read in a committed version it can read again, as long
\* as it may ask for that version: no commit, rollback, reset, failure,
\* restart or redone call changes it.
CommittedReadsStable ==
    [][\A v \in Reliable \cap Reliable' : Snapshot(v)' = Snapshot(v)]_vars
============================================================================
