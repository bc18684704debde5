# zkbnb-smt: a verification project in TLA+

zkbnb-smt keeps a sparse Merkle tree of account state with many versions, in
memory and in a key-value store. This directory holds TLA+ models of its core,
TLC configurations that check them on small instances, and proofs checked by
TLAPS. Line numbers refer to the repository's `smt.go` and `tree_node.go`.

## 1. Inventory

| Part | State | Operations | Interaction |
|---|---|---|---|
| `TreeNode` (tree_node.go) | `Versions` (hash per version), 16 `Children`, 14 `Internals`, `temporary` | Set, newVersion, SetChildren, ComputeInternalHash, Copy, mark, Prune, Rollback, archive, Release, recompute, conversions to and from records | called by the tree; shared by copies, by the journal, by the cache |
| `BNBSparseMerkleTree` (smt.go) | `version`, `recentVersion`, `root`, `lastSaveRoot`, sizes | Get, GetProof, VerifyProof, Set, MultiSet, Commit, Reset, Rollback, constructor | one caller at a time (no lock) |
| `journal` (smt.go 172-241) | nodes written since the last commit | get, set, setIfNotExist, iterate, flush | its own lock; MultiSet's goroutines share two of them |
| `dbCache` | LRU of leaves | filled by Get and Commit, refreshed by rollback | read before the database |
| `gcStatus` (smt.go 243-302) | ten size classes | add, pop, clean | pop in Commit decides what Release archives |
| database (database/) | records `t:depth:path`, `latestVersion`, `recentVersionNumber`; batches | Get, Has, Set, Delete, NewBatch, Close; batch Set, Delete, Write, Reset | memory, leveldb, redis; namespaces share a store |
| goroutine pool (`ants`) | 128 workers | Submit | the two phases of MultiSet |
| metrics, hasher, options, utils | none that is read back | | |

What is hard, and what correctness means:

- **Versions of a node.** Prune, rollback, overwriting sets and resets edit the
  same list; a read of any version in `recentVersion .. version` must see the
  hash of that version, and nothing else.
- **Five copies of a leaf.** Working tree, last saved tree, journal, cache and
  record share nodes and arrays. They must agree after every commit, rollback,
  reset, garbage collection, lazy load, failed write and restart.
- **Partly loaded trees.** Nodes are archived and loaded again on demand, in
  place, in a tree that is shared with `lastSaveRoot`.
- **Partial updates of hashes.** A Set rehashes three of a node's fourteen
  internals, a rollback all of them; the proof code repeats the index
  arithmetic twice more.
- **MultiSet.** Goroutines without a coordinator climb the tree; at every pair
  of siblings exactly one of them must go on.
- **Failures.** `batch.Write` may fail after memory and cache were changed; a
  batch that outgrows `batchSizeLimit` is written in parts; a redis pipeline
  may be executed in part, twice, or to the end though its caller is told that
  it failed.
- **Sizes.** Garbage collection hangs on a 64-bit unsigned size that is kept up
  to date by differences, some of them negative.

PROJECT.json lists the hazards line by line, with the property that watches
each one.

## 2. Modules

| Module | Models |
|---|---|
| `VersionList` | the operations on `Versions`: newVersion, the read loop of Get, Rollback, Prune |
| `NodeHistory` | one node driven by Set, Commit, Reset and Rollback, beside the history a client remembers |
| `NodeHash` | the hashing: SetChildren, ComputeInternalHash, nil hashes, GetProof, VerifyProof, for any hash function |
| `VersionedTree` | abstract specification: a map with numbered snapshots |
| `SMT` | `BNBSparseMerkleTree`: working and saved tree, journal, cache, records, lazy loading, archiving, failing, split and unanswered writes, restart |
| `TreeSize` | extends the actions of `SMT` by `rootSize` and `gcStatus` |
| `MultiSet` | the goroutines of one `MultiSetWithVersion` call |
| `RecordStore` | abstract specification: what a tree may assume of its database |
| `Database` | memory, leveldb and redis databases and the batches Commit and Rollback write |
| `VersionListProofs`, `NodeHistoryProofs`, `NodeHashProofs`, `SMTProofs`, `SMTRecords`, `TreeSizeProofs`, `MultiSetProofs`, `DatabaseProofs` | lemmas and theorems |
| `MCNodeHistory`, `MCNodeHash`, `MCSMT`, `MCTreeSize`, `MCMultiSet`, `MCDatabase` | instances for TLC |

How they fit together: `SMT` takes a hash to be the content it commits to, and
`NodeHash` shows that the code's hashes are those of a plain Merkle tree over
that content. `SMT` takes MultiSet to be one step, and `MultiSet` shows that it
ends as the sequential sets do. `SMT` lets pop answer anything, and `TreeSize`
puts the real answer in. `SMT` lets a call whose write returned an error leave
nothing; or some records and no version number (a batch written in parts, a
pipeline executed in part); or, on redis, everything (`CommitUnanswered`,
`RollbackUnanswered`), or everything but recentVersionNumber (`"lostRecent"`).
`Database` shows that these are all the outcomes there are: the version number
never precedes the records, nor recentVersionNumber the version (`RecordStore`).

**Hashes.** Outside NodeHash a hash is the map from keys to values below the
node. This assumes that the hash function has no collisions and nothing else:
two nodes have equal hashes exactly if they have equal contents.

**SMT, state.** `root`, `lastSaveRoot` map every node of the instance to what
the tree reachable from that pointer shows: `nil` (no pointer in the parent's
`Children`), `temporary` (`IsTemporary`, only the versions known) or
`resident`. `journal` is the set of nodes it holds (their content is that of
`root`, since every write replaces the path from the root). `db`, `dbChild` are
the records: `dbChild[n]` is the entry of n in its parent's record. `asked`,
`rollbackFailed` and `interrupted` are history of the client (below).

**SMT, actions.** One per call: `Get` (its effect on the cache; what it returns
is `GetValue`), `GetProof` (loads the path), `SetWithVersion`,
`MultiSetWithVersion`, `Reset`, `CommitWithNewVersion` (version checks, pruning,
records, cache, garbage collection, saved root), `Rollback`, `Reopen` (crash or
shutdown and the constructor), and `CommitFails`, `RollbackFails` for the same
calls when a `batch.Write` returns an error, or the process dies at that point:
memory and cache are changed, and of the records those that earlier parts of
the batch held. In `CommitUnanswered` and `RollbackUnanswered` Write returns an
error too, but a redis server has executed the whole pipeline (redis.go
185-191): the store is at the version of the call, memory at the one before. A commit visits the journal in map order, so any subset may
have been written; a rollback writes children before parents and elder siblings
first (`StoredBefore`). `ExtendsSavedTree` models that Set and GetProof load
nodes in place into nodes that `lastSaveRoot` may share. `CachedAfterSet` models
that a leaf cached by a failed commit shares, or does not share, its array with
the working leaf. In `CommitWithNewVersion` the LRU keeps any `CacheSize` leaves
the order of additions allows, and `late` are the nodes pruned after their
parent was stored: the parent's record then lists versions of them that their own
records no longer have.

**SMT, client.** The `Call...` actions of `Next` make the calls as a block
producer does: the sets of a block and its commit carry one version above the
latest; a MultiSet is the first call of its block (see multiset_after_set);
`recentVersion` only moves up; a commit that failed is retried with a
`recentVersion` no lower than before (or the block is reset); after a failed
rollback the tree is reopened; a call that failed when something of its batch
was stored is done again, with the same edits and version or the same target,
in the same process or after a restart that shows the old version; a restart
that shows the version of the call tells the client that it was done
(`IsDone`). The constant `Departures` admits the faults (`"commitFails"`,
`"rollbackFails"`, `"splits"`, `"unanswered"`, `"lostRecent"`), and the clients
that do not keep to this: `"retryRollback"` calls Rollback again after it
failed, `"noRedo"` goes on after an interrupted call. A block that is committed
under a later version than its sets carry (smt_test.go 1087-1088 sets at
version 1 and commits as version 10) is left to `NodeHistory`, whose client may
do so.

**TreeSize.** The calls of SMT conjoined with what they do to `rootSize`,
`lastSaveRootSize` and `gcStatus` (a call that fails leaves the same sizes whether
or not its batch was stored: here nothing of it was). Arithmetic is modulo `Width`. `disturbed`
counts the calls after which the code's size is not that of the nodes in memory
(loads by GetProof, Reset, Rollback, failed commits); `MaxDisturbances` bounds
them, because each adds a drift of its own.

**NodeHash.** The Versions and Internals of all nodes of a tree held in memory
as a whole; `SetLeaf` and `SetParent` are the steps of one SetWithVersion.
`Hash` is a constant operator; the instance uses one that is injective.

**VersionedTree.** `work` changes by the items of a set only, and `edited` tells
which keys are pending: a Reset that leaves an edit behind is no step of it.

**NodeHistory.** Actions check what smt.go checks; what else the client keeps to
(one version for the sets of a block, versions and `recentVersion` move up) is in
`CallSet` and `CallCommit`.

**MultiSet.** Phase one: `SubmitItem` (waits for a worker), `CopyNode`
(setIfNotExist, one locked step), `Mark` (and extendNode, which may fail:
`ExtendFails`), `SetLeaf`, `LookupLeaf` and `RegisterLeaf` (leavesJournal.get and
.set). `RejectKey` and `ReturnError` are the early returns, `StartClimbing` the
barrier. Phase two: `SubmitLeaf`, and in `recompute` `CheckSibling`
(latestVersionWithLock), `ReadSibling` (root()), `SetInternal` and `GetInternal`
for each of three rounds, `Publish` and `Store`, the two halves of an append
without a lock. `Hash` minds the order of its arguments: `Combined` puts a
climber's hash on the left or the right by the nibble, as `recompute` does, and
swapped halves hash to something else. The instance starts from a tree with content `Base`; `Prior`
are keys set earlier in the same version. A nil dereference ends the goroutine
(the pool recovers panics).

**Database.** `store` is the shared store, `tree[ns]` the commit under way on
the handle with namespace ns and its batch. `WriteNode` is writeNode, with a
`Write` once the size exceeds the limit; `WriteVersion` queues the version
numbers last. `WriteWhole` is the Write of memory and leveldb, `Exec`,
`ExecCmd`, `ExecRetry`, `ExecFails` and `ExecReturns` that of redis: the server
executes a prefix of the pipeline, go-redis resends it from the start. `Close`
closes the store under all handles; a memory batch written after it panics.

## 3. Runs

Passing:

| Run | Instance | Distinct states | Shows |
|---|---|---|---|
| node_history | 3 hashes, versions to 5 | 9075 | ReadsMatchHistory, CleanNodeShowsLatest, ForwardStable, the inductive Inv |
| smt_records | 2 leaves that part at the second of 3 levels, versions to 3 | 126168 | SMT implements VersionedTree; cache, leaf and inner records, proofs, archived nodes and restart agree; committed reads are stable |
| smt_faults | 2 leaves under one node, versions to 3, commits and rollbacks that fail and ones stored though they returned an error | 335460 | a restart reads back the range and the root of before or of after the call; records agree and committed reads are stable, also when the nodes in memory were pruned |
| smt_splits | 2 leaves below the root, versions to 2, batches in parts, unanswered writes | 167740 | with redone calls, records agree and committed reads are stable |
| tree_size | 2 leaves under different nodes, threshold 2500, 16-bit sizes, failing commits and rollbacks | 73202 | AccountingIsExact, LargeTreeIsRecounted; with the real pop, NodesCanBeReloaded and SMT implements VersionedTree |
| node_hash | 4 leaves, 2 levels, versions to 2 | 84663 | InternalsAreMerkle, RootIsPlainMerkle, ProofsAreExact |
| multiset | 4 items on 5 leaves, 3 levels, 3 workers, failing loads, invalid key | 123802 | ResultIsSequential, PublishedIsFinal, Terminates |
| database | 2 namespaces, 2 records, limit 1, one resend | 1920244 | every kind of database implements RecordStore; AcknowledgedIsStored, NamespacesAreIsolated, BatchIsBounded |

Bounds. Three versions are the least with which Prune can drop an entry that
still covers `recentVersion`; two leaves the least with which one node changes
while another is archived or not loaded; a cache of one leaf makes eviction
happen. smt_faults, smt_splits and tree_size identify states that differ in the cache only
(`VIEW WithoutCache`): no action lets the cache act on another variable, and
the properties of those runs do not read it. smt_splits has every subset of the records of
a commit and every prefix of those of a rollback; two versions are enough for an
interrupted call with a committed version below it, but too few for Prune to
shorten a list: smt_faults prunes and redoes whole calls at three versions, and
pruning in parts is left to the theorems. One client value beside nil
is enough for the records, because properties compare contents of versions and
the version numbers tell the entries apart. In tree_size the threshold is
just above the size of the whole tree with one version per node, so that later
commits collect, with some nodes current and some not. The MultiSet instance holds an adjacent
pair, sibling nodes, both halves of the root and untouched neighbours; three
workers for four items make a task wait. In node_hash the leaves are
neighbours under one node, the other end of that node and another child of the
root. In database a limit of 1 makes a commit of two nodes write one
part before the version; a record is queued in the same pipeline as the version
when a delete was queued first.

Violations, each a finding in PROJECT.json:

| Run | Property | What happens |
|---|---|---|
| smt_failed_commit | CacheAgreesWithRecords | Commit caches leaves before the write; after a failed write and Reset, Get serves the dropped value once its version is committed |
| smt_retried_rollback | ReopenShowsLatest | a rollback retried after a failed write stores only the version number; a restart shows the newer root |
| smt_split_crash | ReopenShowsLatest | a commit interrupted between two parts and not redone leaves its root record, which a restart shows |
| multiset_after_set | ResultIsSequential | MultiSet after Set in one version computes a wrong root |

Deadlock is checked in every run; `Returned` in MultiSet is the caller going on.
Definitions named `X_...` before a definition `X` are defective variants of it:
PROJECT.json pairs each property with one that violates it.

**Fairness** is assumed in MultiSet only: weak fairness of every goroutine and
of the caller, in its submits and past its two `wg.Wait`. The Go scheduler runs
every runnable goroutine and the pool's Submit blocks until a worker is free.
`Terminates` needs no more: no step of the climb waits for another goroutine.

## 4. Proofs

Each theorem holds for every value of the constants. The only assumptions are
those on the constants (`NodeHistoryAssumption`, `NodeHashAssumption`,
`SMTAssumption`, `TreeSizeAssumption`, `MultiSetAssumption`,
`DatabaseAssumption`), which TLC evaluates in every run,
and the hypotheses named below. PROJECT.json lists the theorems one by one.

**Version lists** (`VersionListProofs`). What the list operators compute, for
lists of any length: the visible index exists and is unique, Prune keeps a
suffix that starts at the entry covering `oldest` and so keeps every read from
there on, Rollback keeps a prefix and every read up to the target, an append
keeps every older read.

**One node** (`NodeHistoryProofs`). `TypeOK`, `Inv`, and from it
`ReadsMatchHistory`, `CleanNodeShowsLatest` and `ForwardStable`.
`ReadsMatchHistory` is not inductive: an unsorted list, or a pending entry not
on top of the saved list, would be pruned or cut wrongly by the next step. `Inv`
adds that the saved list is sorted and ends at or below `version`, and that the
working list is the saved one with at most one newer entry.

**Hashes** (`NodeHashProofs`). `InternalsAreMerkle`, `RootIsPlainMerkle` and
`ProofsAreExact`, for any keys of one length and any depth; the first two for any
hash function, the third under `Collisionless` (GetProof answers with `nilHashes`
when the root is that of an empty tree, which is right only if no other tree has
that root). The invariant `Inv` they follow from says:

- every slot is the hash of the two below it, but for the three above the node
  SetWithVersion has just hashed, and every node but that one's parent has the
  hash of its slots (`MerkleBut`): SetChildren sets just these three;
- the lists of the saved tree are sorted, end at or below `version`, and a version
  of a node is one of its parent (`Listed`), because Rollback does not go below a
  node that drops nothing; the working tree is the saved one with entries of one
  block on top, on whole paths (`EditedIn`);
- a node had in every version the hash of what its children had in that version
  (`History`). Rollback takes the hash of a node from its list and computes its
  slots from its children, and only this makes the two agree.

The recursive definitions (`nilHashes`, the slots, VerifyProof's fold, the plain
tree) are handled without induction theorems: a function that satisfies the
recursive equation exists, and a statement about every depth holds, because
otherwise there were a least depth without, and `LeastNatural` rules that out.
`RootIsPlainMerkle` then goes up the tree: four levels of the plain tree are one
node (`FourLevels`), and a path without a node stands for an empty subtree
(`PlaceStep`, `NilFold`).

**Tree, types and range** (`SMTProofs`). `TypeOK` for any keys of one length,
with every departure, which rests on `ForkExists` (where the path of a key parts
from those of the keys being set there is a node SetChildren can read), and
`RangeSurvivesRestart`: the readable range is never empty, and a restart reads
back the range in memory or, after a call that was stored to the end though its
write returned an error, the range that call would have left, never one end of
each. Its strengthening `RangeInv` adds that no recentVersion is
stored before a latest version, because initFromStorage would ignore it; that the
recentVersion a failed commit asked for is not below the present one, so that the
range stays non-empty when it turns out to be stored; and that a rollback to be
redone asks for none. The hypothesis `SeenThrough` says that, where writes may go
unanswered, the client sees the call through and no pipeline loses its last
command. (With `"lostRecent"` in `Departures` as well, the instance of smt_faults
violates `RangeSurvivesRestart`, and after the restart `RecordsAgreeWithLeaves`:
versions are readable that some records have pruned and others have not.)

**Tree, contents** (`SMTRecords`). `RecordsAgreeWithLeaves`,
`ReopenShowsLatest`, `NodesCanBeReloaded`, `CommittedReadsStable` and
`KeepsPromise`, the refinement of VersionedTree. None of them is inductive. The
invariant `Inv` they follow from says:

- of the records (`RecordsOK`): a parent's record gives its children the hash that
  their own records do (`Linked`), because a node is loaded from the one and then the
  other; no more than the newest hash, because a commit visits the journal in map
  order and may prune a child after its parent was stored; every list is sorted, ends at or below `version`, and what it holds
  above `recentVersion` its parent's list holds too (`Ordered`), because Rollback
  goes no further down where a node has nothing above the target; every record
  has in each retained version the hash of the leaves below it (`Hashed`);
- of the trees (`TreesOK`): a loaded node that is not in the journal has the
  list of its record, one that is not loaded its newest hash, and one that is in the journal is resident (`Mirrors`),
  because commit stores the journal only and garbage collection archives the
  rest; the edited nodes are closed under parents, and each is its record, cut by
  at most the prunes of a commit that failed, with one entry on top, of the
  same block everywhere, with the hash of the leaves below (`EditedBy`), because
  a retried commit stores these lists as they are;
- after a rollback whose write failed: the tree shows its records outside some
  set of nodes, all of them loaded. This is all that a reopen needs.

One lemma per call shows that the call keeps `Inv` and is one of six steps a
client can tell apart (`ClientStep`); the action property and the refinement
follow from those.

Between two parts of a batch, and while the store is ahead of memory, `Inv` does
not hold, and two other invariants take its place until the call has been done
again, or a restart shows that it was done (`InvParts` is one of the three):

- `RollbackInParts`. Rollback stores a node after everything below it that drops
  an entry, so a child whose parent's record has nothing left to drop is finished
  and `Linked` holds for it; where the parent's record still has an entry above the
  target, the child may be ahead (`LinkedBut`, `MirrorsBut`). Rollback goes down
  from the root by just that test, so the second call reaches all the first has
  not, and versions up to the target read as before (`HashedTo`). When the
  target has been stored as the version, nothing was left out, and the records
  are as a reopen needs them (`StoreOK`).
- `CommitInParts`. A commit may have stored any set of its nodes. The state is
  described by the call `g` that was interrupted: the records before it, the map
  it writes, its block and its keys. A record is the one before the call or the one it
  writes (`PartRecords`), so a version it does not prune reads as before
  (`PartReads`). What a restart or a load shows of a node may be a hash that belongs
  to no version: leaf by leaf it is one from before or after the call (`Mixed`).
  The client sets the block's keys again, in any order and with resets, loads and
  failures in between; `Redone` says that a node edited again is right for the keys
  set so far. When all are set (`BlockComplete`) the mixture is gone (`PartHashes`),
  and the commit leaves records as if it had succeeded at once (`PartComplete`).
  That the journal is a union of whole paths (`JournalInv`) is needed there. When
  the version has been stored too, every record of the call is the written one
  (`DoneRecords`): a restart then finds the committed tree, and a second call
  stores over the records what they hold already, pruned at most further.

The hypothesis `RedoneCalls` (`SeenThrough`, no `"retryRollback"` in `Departures`, and
no `"noRedo"` when batches are split) excludes that fault and the clients of runs
smt_retried_rollback and smt_split_crash, where these properties are violated; commits and rollbacks may fail, at any part or after the last, and be
followed by everything that Next allows. `KeepsPromise` is proved
under `WholeBatches` (neither `"splits"` nor `"unanswered"`): a part of a commit prunes
records before `recentVersion` moves, and a restart after an unanswered call moves the
version, which are not steps of VersionedTree. `CacheAgreesWithRecords`
and `ProofsVerify` need `CommitsSucceed`, which is `RedoneCalls` without commits that
return an error (run smt_failed_commit is the counterexample otherwise). `CacheInv` adds that a
cached leaf is its record, also one that is not visible in the versions being read.

**Sizes** (`TreeSizeProofs`). `SizeTypeOK`, `LargeTreeIsRecounted` and
`AccountingIsExact`, for any keys, threshold, width and order of the journal. The
second needs of the status only that a class with a size has a version, and one
without has none (`GoodStatus`): pop then answers a version for every size of at least
the threshold once a commit is recorded, because a class without a size is never
enough, and the commit takes what Release counts. For
the third, `ExactInv` says that as long as no call has disturbed the sizes, either
some class of the status is recorded or nothing was ever released, and in the
latter case every node that was ever set is in memory (`AllInMemory`), the nodes of the
journal, and only they, end in an entry of the block (`Dated`: writeNode guesses from the
entry before it whether a node was counted), and `rootSize` is modulo `Width` the sum of
the sizes of all nodes without that entry. The hypothesis
`TreeFits` (the nodes in memory take fewer than `Width` bytes) is there because a
recount that wraps to exactly 0 is not recorded by `add`, and a later pop would then
take the tree for one that was never collected; `Width` is 2^64 in the code. `SizedIsTree`
shows that the tree with sizes takes no step that SMT does not take, so all that
is proved of SMT holds with the answers of the real pop; `CollectedNodesReload`
is one such result. That
a sum over a set of nodes changes by what its summands change by is proved
without an induction theorem: among the subsets of a finite set for which it
fails there would be one of least cardinality (`SubsetInduction`).

**MultiSet** (`MultiSetProofs`). `TypeOK`, for
any items and keys set before, is part of `Shape`: where a goroutine stands says
which nodes exist and which hashes are set, so that no climber combines a hash
that is not there. `ResultIsSequential` and `PublishedIsFinal` need a second layer. While items are prepared
(`Preparing`), the nodes on a prepared path have exactly the internals cleared
that the items below will change. While climbers run (`Climbing`), every hash
that is set is final, the hashes set on a path are its lower ones (`Monotone`),
and for every hash that is not yet set some climber is on the way to it
(`Charged`). Two climbers that meet at a pair of siblings are the hard case: the
one that finds its sibling missing stops, and `Charged` must pass its duty to the
other. The hypotheses are `DistinctKeys`, which the code leaves to its caller (smt.go
521), and `Prior = {}` (run multiset_after_set shows the violation otherwise). The lemmas `HashOfChildren` and `HashOfInternals` carry the left/right order: of two sibling
slots the left one's keys precede the right one's.

**Database** (`DatabaseProofs`). `TypeOK`, `BatchIsBounded`,
`AcknowledgedIsStored`, `NamespacesAreIsolated`, `KeepsWriteOrder`, and the
refinement of RecordStore for each namespace. The invariant says of a
commit that is not acknowledged which of its keys the queue and the store hold
(`BatchOK`, `OrderOK`), and that the store holds the version only after all records
and `recentVersionNumber` only after the version; a resent pipeline starts over and
so writes what is there. Any namespaces are admitted, nested ones too:
`DatabaseAssumption` asks only that no key of a tree ends in another one.

TLC checked each inductive invariant before it was proved; `Inv` of SMTRecords on
the instances of smt_records and of smt_faults without unanswered writes (`InvParts` speaks of the records before
the interrupted call, which are not part of the state; runs smt_splits and
smt_faults check what follows from it), that of NodeHashProofs on the one of
node_hash, that of TreeSizeProofs on the one of tree_size.

**Only model-checked.** `Terminates` of MultiSet: liveness is out of the prover's
reach.

## 5. Not modelled

Metrics and the redis configuration: input and output only. The stores
themselves (leveldb, redis, their clusters, commands of a pipeline that arrive
after it was given up) and the RLP encoding, which is taken as injective.
Constructing a tree with `db == nil` leaves the saved root, the cache and the
pool nil; `maxDepth` of 64 overflows a shift; a `GCThreshold` below 10 divides
by zero; a pool that is closed, or full and non-blocking, loses tasks: all are
outside the instances and noted among the hazards. Loads that fail inside Set,
GetProof or Rollback return before anything was changed but loaded nodes, and
are left out. A leaf whose unlocked append overwrites the entry of a block that
was reset (tree_node.go 421), and items that give a key twice, are not in the
MultiSet instances.

## 6. Plan

1. Loads that fail inside Set, GetProof and Rollback.
2. Blocks committed in SMT under a later version than their sets carry.
