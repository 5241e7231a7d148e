# Splay-list and its competitors: models, checks and proofs

The repository holds a concurrent *splay-list* (a skip list whose nodes rise and
sink with the number of accesses to them), the structures it is compared with,
and the setbench framework around them: locks, memory reclamation, multi-word
primitives, benchmarks. This directory models the structures and the concurrent
parts of the framework in TLA+, checks small instances with TLC, and proves
theorems about them with TLAPS.

All paths below are relative to `src/structs_bench/`.

## 1. The system

| Part | State | Operations | What is hard |
|---|---|---|---|
| `ds/flexlist_locks` splay-list | nodes (`key`, `value`, `next[]`, `hits[]`, `selfhits`, `zeroLevel`, `topLevel`, `lock`), `zeroLevel`, `accessCounter`, a counter per thread | `contains`, `find` (`qfind`), `insertIfAbsent`, `erase`; inside: `find`, `update`, `updateWithInsert`, `insert`, `updateZeroLevel` | searches take no lock while nodes are promoted, demoted and linked and while the bottom level moves; counters kept on every level |
| `ds/skiplist_locks`, `ds/ideal_skiplist_locks` | nodes with `mark`, `fullyLinked`, `lock`; `realMaxLvl` | `contains`, `find`, `insertIfAbsent`, `erase` | optimistic search, then lock and validate; removal in two steps |
| `ds/skiplist_lazy` | as above | as above | removal by compare-and-swap on the value; the node stays |
| `ds/cbtree-concurrent`, `-fair`, `ds/cbtree-ideal`, `ds/cbtree` | nodes with a weight `w`; `nops` per thread; `warmup` | `find`, `insertIfAbsent`, `warmupEnd` | rotations under a readers-writer lock; an insertion gives the lock up between its two searches |
| `ds/bronson_pext_bst_occ` relaxed AVL tree | nodes with `key`, `value`, links up and down, `height`, `lock` and a version `changeOVL` | `find`, `insertIfAbsent`, `insertReplace`, `erase`; inside: `attemptGet`, `attemptUpdate`, `attemptUnlink_nl`, `fixHeightAndRebalance`, four rotations | searches without locks that validate versions while a rotation makes one store after the other; a version counter that overflows; who repairs what |
| `common/DCLCRWLock.h` | `writersMutex`, one `readersCounters` entry per core | `sharedLock`, `trySharedLock`, `sharedUnlock`, `exclusiveLock`, `exclusiveUnlock` | announce, then check, on both sides |
| `common/rwlock.h` | one word: writer bit, upgrade bit, number of readers | `readLock`, `writeLock`, `upgradeLock`, their unlocks, for readers or for writers first | the bits and the count change in one word; an upgrade that loses goes on as a reader |
| `common/CLHRWLock.h` | a queue of nodes, `readers_counter` | lock and unlock for readers and writers | nodes freed by the successor |
| `common/locks_impl.h` | an `int` | `acquireLock`, `releaseLock` | spin lock, not fair |
| `common/recordmgr` | epochs, announcements, bags of retired records | `startOp`, `endOp`, `retire`, `protect`, `unprotect` | a record must outlive every operation that may hold it; someone must advance the epoch |
| `common/kcas/kcas_reuse_impl.h` | words with values or tagged descriptors; a reused descriptor per thread | `start`, `addValAddr`, `execute`, `readPtr`; inside: `help`, `rdcss`, `rdcssHelp` | helpers that work on a descriptor while its owner has gone on to the next operation |
| `microbench/*.cpp` | the calls and what they expect of the answers | prefill, then threads | `test1.cpp`: a thread knows the contents of its own keys; `test2.cpp`: insertions minus removals is the size |

How they interact: a benchmark or test calls a structure through `adapter.h`;
`main` fills it first, then starts the other threads, which share it. The lists and the
Bronson tree lock single nodes; the counting-based trees lock the whole tree with
`DCLCRWLock` (the include of `CLHRWLock.h` is commented out there). The record manager stands between a
structure and the memory allocator. Nothing is persisted and no messages are sent:
the hard behaviours are interleavings, stale reads, retries, reuse, deadlock and progress.

`PROJECT.json` lists every component with its status, and the hazards of the code
with the properties that would show them going wrong.

## 2. Modules

| Module | Models | Checked by |
|---|---|---|
| `RWLock` | what a readers-writer lock promises: sets of readers and writers | refined by the three locks, instantiated by `CBTree` |
| `DCLCRWLock`, `RWLockWord`, `CLHRWLock` | `common/DCLCRWLock.h`, `rwlock.h`, `CLHRWLock.h`, one action per atomic operation | `MCRWLocks`; `DCLCRWLockProofs`, `RWLocksProofs` |
| `Dictionary` | what every structure promises: a linearizable map with `contains`, `find`, `insert`, `insertIfAbsent`, `erase` | refined by all structures |
| `FlexList` | `ds/flexlist_locks/flexlist.h` | `MCFlexList`; `FlexListProofs` |
| `SkipList` | what the two skip lists have in common | `MCSkipLists`; `SkipListProofs` |
| `SkipListLocks`, `SkipListLazy` | `ds/skiplist_locks/skiplist.h`, `ds/skiplist_lazy/skiplist.h` | `MCSkipLists`; `SkipListProofs` |
| `CBTree` | the counting-based trees; `Variant` is "concurrent", "fair", "ideal" or "sequential" | `MCCBTree`; `CBTreeProofs`, `CBTreeOrderProofs` |
| `CCAVL` | `ds/bronson_pext_bst_occ/ccavl_impl.h` | `MCCCAVL`; `CCAVLProofs` |
| `GracePeriod` | what an epoch-based reclaimer promises | refined by the next three |
| `Debra`, `EbrToken`, `EbrTree` | `common/recordmgr/reclaimer_debra.h`, `reclaimer_ebr_token.h`, `reclaimer_ebr_tree.h` | `MCReclaimers`; `ReclaimersProofs` |
| `HazardPtr` | `reclaimer_hazardptr.h` and `AtomicArrayList` of `arraylist.h` | `MCReclaimers`, `MCHazardPtr`; `ReclaimersProofs` |
| `MultiCAS` | what a k-word compare-and-swap promises: one instant for all words | refined by `KCAS` |
| `KCAS` | `KCASLockFree` of `common/kcas/kcas_reuse_impl.h` | `MCKCAS` |

Several MC modules hold more than one implementation of the same promise side by
side: a variable (`kind`, `list`) fixed by the initial state says which one the
behaviour uses, and the variables of the others do not change. The composition of
`CBTree` with its lock is done through the abstraction: `CBTree` uses the actions of
`RWLock`, and `DCLCRWLock` is proved to implement `RWLock`.

### How state and actions correspond to the code

*Heap.* `node` maps node numbers, in the order of creation, to records with the
fields of the C++ struct; `NULL` is -1. In `CBTree`, where nodes are never
removed and a key has one node, nodes are named by their keys. `l[t]` holds the
local variables of the call thread `t` is in and its place (`pc`) in the code; in
`CCAVL` the recursion of `attemptGet` and `attemptUpdate` is the field `stack`, and in
`KCAS` `stack[t]` holds the activations of `help`. `plan`, `left`, `todo`, `call` and
`skipListSize` belong to the client.

*Grain.* One action is one access to shared memory, or several accesses where
merging them loses no behaviour:
- accesses to fields of a node whose lock the thread holds and that are written
  only under that lock (`hits`, `next` of a locked node; `pred->mark` and
  `pred->next` in `Validate`, next to the one unlocked read, `succ->mark`; in `CCAVL`
  the links of a locked node, read with the next access that can race);
- the release of several locks in a row, and a lock taken and released with
  nothing but the locked node written in between (`updateZeroLevel` in `find`);
- reads of fields that change once, in one direction: `SearchTest` reads
  `fullyLinked`, then `mark`, then `value`, and acts as if it had read all three
  at the last of these reads (in the locked list the value never changes, in the
  lazy list the mark never does);
- a new node until it is linked, a descriptor until its tag is published;
- read and compare-and-swap of `realMaxLvl`, which only grows;
- one turn of a search's loop in `CBTree`. Under the lock nobody else writes; in
  the ideal tree after the warm-up this is a restriction, see section 7.

The stores of a rotation in `CCAVL` are *not* merged: searches and repairs of other
threads read the nodes without locks. `Rotation` lists the stores in the order of the
code and `Write` makes one of them at a time.

Waiting (`acquireLock`, `while (...) yield()`, the spinning of
`waitUntilChangeCompleted`) is an action that is disabled until the condition holds.
Memory is sequentially consistent, with one exception:
`while (!(found->fullyLinked)) {}` in the skip lists reads a plain `bool`. That is
a data race, and since C++ lets the compiler assume that such a loop ends, g++ -O2
may drop it. `loopKept` of a script chooses the outcome.

*Clients.* `FlexList`, `CBTree` and `CCAVL` start with the constructor's state, and
main performs a prefill with the code of the model itself; in the skip lists one key
with a tower of any height is there at the start. `Scripts` says which prefills and
how many calls, and of which operations, each thread makes; an instance has several
scripts and `Init` picks one. The end of all scripts is a stuttering step
(`Joined`, `Finished`), so every other deadlock is an error; all runs check deadlock.
The client of the reclaimers starts and ends operations without end, and retires a
record only when it is not in limbo, as a structure that unlinks a record once.

### Linearizability

`Dictionary` has one step per effect (`Insert`, `Erase`) and one for each
invocation and return. Each call carries `effect`, what it has inserted or
removed, and `seen`, the values its key has had since the invocation; an answer
without an effect must agree with some value of `seen`. The structures keep the
variable `call` in the same form, updated where their calls take effect, and
`ImplementsDictionary` is the refinement. `dict` is computed from the heap, or kept as
a history variable in `CCAVL`, where `SearchTreeWhenQuiet` ties it to the heap:
- `FlexList`: the value of the key's node. Effects: linking a node, a successful
  compare-and-swap of a value.
- `SkipList`: the value of the node that is fully linked and not marked. Effects:
  `fullyLinked = true`, `mark = true`, or a swap of the value.
- `CBTree`: the node of the key. Effect: linking it.
- `CCAVL`: linking a leaf, storing a value under the lock of the node, unlinking it.

`MultiCAS` does the same for operations on several words: `seen` holds the answers
that the memory has allowed since the call began, a success is the step that changes all words of
the operation at once, and a failure must have met a memory in which some word differed.
The memory that `KCAS` maps to it reads a locked word through its descriptor.

## 3. Runs

| Run | Question | Instance |
|---|---|---|
| `rwlocks` | Are the three locks readers-writer locks, is every unlock matched, is no queue node freed in use, and does whom the lock favours get in? | 3 threads, each lock in turn; 2 counters of `DCLCRWLock`, one shared by two threads; `rwlock.h` for readers with upgrades, and for writers |
| `splaylist` | Is the list well formed in every state, are its counters right at rest, is it linearizable, and does every call return? | 2 threads, 8 prefilled shapes of up to 6 keys; 1 call each, 2 each on one key, or 1 against 4 |
| `skiplists` | Is nothing live lost, nothing removed left, no lock kept, the size right; linearizable; does every call return? | both lists; 2 or 3 threads, 3 or 4 calls, 2 or 3 keys, 2 tower heights |
| `trees` | Are keys found and weights exact between any two rotations, does each rotation pay, is a restructuring search alone; linearizable; does every call return? | all four variants, trees of 4 to 6 keys, up to 3 threads |
| `bronson` | Is a version changed under the lock only, does nobody change what another thread has locked, is the tree at rest a search tree without superfluous routing nodes, is it an AVL tree when a thread works alone; linearizable; does every call return? | prefills of 0 to 12 keys, then 2 or 3 threads; one thread alone with 8 calls; version counter of 1 bit |
| `reclaimers` | Is no record freed while an operation may use it, does the scan stay in range, do epochs and the token go on? | `Debra` 2 threads, `EbrToken` and `EbrTree` 3 threads, `HazardPtr` 2 threads with 2 announcements each |
| `kcas` | Linearizable; which operations can leave a word locked; does every call return? | 2 words to and fro: 2 threads with 2 calls each or 3 each, 3 threads with 2, 2 and 1 |
| `splaylist_same_insert` | *violation*, section 6 | 2 threads, 1 key |
| `lazy_contains` | *violation*, section 6 | 1 thread |
| `bronson_repair` | *violation*, section 6 | 2 threads, an insertion and a removal |
| `hazardptr_scan` | *violation*, section 6 | 2 threads, 2 records |
| `kcas_stale` | *violation*, section 6 | 2 threads with 3 calls each, 2 words |

The passing runs have between 15 thousand and 450 thousand distinct states.

Every property has a mutant in `PROJECT.json`: a plausible bug in one definition
(a dropped guard, a store instead of a compare-and-swap, a lock kept, a version not
marked) with which TLC finds that property violated in the same run.

### Why the bounds are enough for the question

*Locks.* The protocols have three roles: a reader, a writer and a thread that
disturbs them. Three threads on two counters have two readers on one
counter, and a reader on a counter the writer has passed; three threads in the queue
of `CLHRWLock` have a node freed and allocated again while a third one is in use. The
proofs remove the bounds for everything but `FavouredGetsIn`.

*Splay-list.* Rebalancing needs a history: which node is promoted or demoted
depends on all earlier accesses. The prefills of `MCFlexList` were picked so that the next
accesses do each kind of step: a demotion behind a node, a demotion that opens a
level, a promotion by one and by several levels, below the head and below another
node, during an update and during an insertion. Two threads then make any call
each, with every interleaving. A failing re-test of a demotion needs a longer run
of one thread against a stopped other one: the shape `Slow`, with four calls
against one. `MAX_LEVEL` is 5 in place of 44, so that a level is a visible share of the
accesses; it is large enough that `zeroLevel` does not reach 0 within the budgets.

*Skip lists.* Two keys make neighbours, two tower heights make predecessors that
are the same node on both levels or not, and the two updates of one thread against
one of the other give a removal and a second insertion of a key. Linearizability of the
locked list is checked with one eraser per key, for a reason of the *mapping*, not of the
list: `erase` does not test `fullyLinked`, so a node can be marked before its
insertion has finished. Insertion and removal then take effect together, in an
order that a refinement mapping without prophecy cannot give. The scripts with
`loopKept` FALSE have no such restriction; `ImplementsDictionary` is not claimed for that
build, where an insertion may answer that a key is there before a search can find it, but
the structure at rest and the client's count (`CleanWhenQuiet`, `SizeMatches`) are.

*Counting-based trees.* The prefills are trees on which the next searches make single and
double rotations in both directions, with and without a subtree that changes its parent.
The adapters of the trees assert that only thread 0 inserts; the default build
removes asserts (`-DNDEBUG`) and the code of `insertIfAbsent` handles concurrent
insertions, so the script `Concurrent` has them (in the ideal tree, which relies on it, only
thread 0 inserts: `Allowed`). The proofs remove the bounds for all but `RotationPays` and
`EveryCallReturns`.

*Bronson tree.* The scripts of `MCCCAVL` are named for what they reach: a routing node
that is made, filled and unlinked; a single and a double rotation to either side under
searches and updates of the nodes that move; a rotation at the taller child alone, which
needs two removals in a tree of 12 keys; the empty tree. The grow count of a version has
one bit in place of 8 (`OVL_BITS_BEFORE_OVERFLOW`), so that it overflows
into the shrink count within a run; the violation run keeps the 8 bits. The proofs remove
the bounds for what the locks protect (`ChangesUnderLock`, `OwnerChanges`).

*Reclaimers.* `MaxEpoch` 8 lets every bag be filled and freed at least twice. There is
one record with the epoch-based ones, which can be retired again by any thread after it
has been freed: records in a bag do not influence each other, so a record that is freed
too early is found with one. `MIN_OPS_BEFORE_READ` and
`MIN_TIME_BEFORE_TRY_ADVANCE` are 1, the most eager value. `HazardPtr` has two threads,
of which one scans while the other moves its announcements; `scanThreshold` is 1, so
that every retirement scans. The proofs remove the bounds for the safety properties.

*kcas.* In `Two`, two threads that give the words in either order, and change them there and back,
meet every tag of each other: a descriptor used again, an RDCSS to help,
a value that has come back. With two calls each no word is left locked there. In `Late` each
makes three: one changes a word to and fro and then helps the other, whose operation fails and whose
descriptor is used again before the helper's RDCSS takes effect. That leaves a word
locked with a stale tag (`kcas_stale`), and the last call of the owner may meet it. In `Three`
the helper is a third thread, and the operation it helps may also succeed.
`OnlyFailedLeaveLocks` says what is left of "all words are unlocked at rest": only an
operation that has *failed* leaves a lock, so the word still stands for its old value, and
linearizability (`ImplementsMultiCAS`) holds in all three. A call that meets
the lock goes round for ever, since `helpOther` does nothing for a stale tag; `EveryCallReturns`
names this as the only way not to return. In `Two` it is no way out, because no word is left locked there.

## 4. Fairness

Liveness is checked under weak fairness of each thread's steps: the operating
system runs every thread, and a spin lock that stays free is eventually taken.
Nothing is assumed about who wins a compare-and-swap or a lock that is contended.
In particular:
- *Locks.* The fairness includes that sections end and that a reader of `DCLCRWLock`
  woken from its wait announces itself again. `FavouredGetsIn` says who is not kept out: the
  writer of `DCLCRWLock` that has won the mutex, because later readers withdraw
  and wait (`trySharedLock` does not wait, and threads that call it without end can keep
  the writer out; the property names this as the only way); in `rwlock.h` a reader that
  has added itself where readers are favoured, and a writer that has set its bit where writers are;
  in `CLHRWLock` everybody in the queue. Nothing is said about the side that is not favoured.
- *Structures.* Every thread has a finite budget, so `EveryCallReturns`
  says that calls neither deadlock nor keep each other retrying for ever; it
  does not cover an endless stream of new calls. In `CCAVL` weak fairness of the whole
  system is enough, which is less than fairness of each thread: a spinning wait is no step,
  so whatever goes round for ever would be a livelock.
- *Locked skip list.* An insertion whose successor is marked releases its locks and
  tries again at once (l.243-252), and each time it takes the lock that the eraser of
  that successor waits for. The spin lock promises nothing, so with weak
  fairness alone this can go on for ever. `EveryCallReturns` of `MCSkipLists` allows
  exactly that: either all calls return, or an insertion of this list searches again infinitely often.
- *Reclaimers.* Operations end. With DEBRA only one thread has to go on starting
  operations, because it may skip threads that are quiescent; the token and the tree
  have no quiescent threads, and all have to go on.
- *kcas.* A thread is not stopped within a call.

## 5. What is proved

Proofs hold for every value of the constants that satisfies the named ASSUMEs
of the modules; TLC evaluates the ASSUMEs in the runs.

**`DCLCRWLockProofs`** (any finite set of threads, any number of counters, any
assignment of threads to counters):
- `TypeCorrect`: `Spec => []TypeOK`.
- `Invariance`: the inductive invariant `IInv`, that is `TypeOK`, `CountInv` (a counter
  is the *number* of threads announced in it), `OwnerInv` (one thread owns the mutex),
  `DrainInv` (no reader is left in a counter that the owner has found to be 0) and
  `NoUnlockError`. `MutualExclusion` alone is not inductive: that the scan of a
  counter proves anything needs `CountInv`, and that it stays true needs that a
  reader which announces itself later sees the mutex.
- `Exclusion`: `MutualExclusion`; `UnlocksMatch`: `NoUnlockError`.
- `Refinement`: `Spec => ImplementsRWLock`, step by step from the same invariant.

The lemmas `AnnounceCounts`, `WithdrawCounts` and `QuietCounts` are about the
cardinalities of the sets of announced threads.

**`CBTreeProofs`** (any threads, keys, calls, prefills and `cops`):
- `Exclusion`: `Spec => []Alone`, a search that restructures is alone in the
  tree. The invariant says which lock a call holds at each place (`ModeInv`,
  `HolderInv`) and that the lock is a readers-writer lock (`LockInv`). `Alone` says
  nothing about the ideal variant, where it is false: after the warm-up its searches take no lock.

Together with `Refinement` this carries the argument from the atomic operations of
the lock to the tree: readers never see a rotation.

**`CBTreeOrderProofs`** (any threads, keys, calls, prefills and `cops`, all four variants):
- `TreeInvariant`: the inductive invariant `OrderInv`. *The tree*: there are functions `lo`
  and `hi` that give each node the open interval of keys that belong below it (`Order`), so that
  being a search tree is said of a node and its children, never of a path; a search that nobody
  can disturb is at a node whose interval has its key (`Searching`). *The weights*
  (`CountInv`): what a node weighs without its children is the number of searches that ended
  there, and one more for each node on the way of a search that restructures, which has added
  its access above and not yet below (`Owed`). *The locks* (`Base`): `Alone` and what it rests on.
  `Order` alone is not inductive: a rotation keeps it only if the nodes it is about to exchange
  are parent and child, which another restructuring search could have changed.
- `KeysStayFound`: `KeysFound`, also in the ideal tree. The path down from the root is a
  recursive function; that it arrives is shown without induction, by the least number of nodes in
  the interval of a node from which it would not.
- `WeightsStay`: `WeightsAddUp`.
- `TreeRefinesDictionary`: `Spec => ImplementsDictionary`, with `CallInv`, which ties what a call has
  seen to where its search is: a search that has left the tree without its key has seen that it is absent.

**`RWLocksProofs`** (any finite set of threads, any number of queue nodes):
- `NodesStayAllocated`: `NodesAllocated`. The queue of `CLHRWLock` is a chain of distinct
  nodes, each owned by the thread that may free it.
- `OthersRefineRWLock`: `OthersImplementRWLock`, for the word and for the queue. The word is the *sum* of
  what its threads have added to it, so that the writer's bit excludes readers, and the
  queue lets readers run together only behind readers that have passed.

**`ReclaimersProofs`** (any number of threads, records, announcements, epochs, any thresholds):
- `ReclaimersInvariant`: the invariant `ReclaimersInv`. Every record in a bag may still have to
  outlive some operations; the invariant bounds them by the *age* of the bag (`BagsInv`), and says why an
  epoch does not change twice during an operation: with DEBRA no scan gets past an
  operation of an older epoch (`DebraWaiting`), the token does not get past a thread in an
  operation (`TokenWaiting`), in the tree no node is ahead of the nodes below it (`TreeOrder`).
- `ReclaimersKeepGracePeriod`: `GracePeriodKept`, the refinement of `GracePeriod`;
  `DebraScansInRange`: `ScanInRange`.
- `HazardPointersProtect`: `NoProtectedFreed`, for clients that release what they protected last. Then
  announcements are a stack and a record that is held stays at its place, so no scan is past it.
  Without that restriction it is false, see section 6.

**`FlexListProofs`** (any threads, keys, calls, prefills and `MAX_LEVEL`, for fewer than
2^(`MAX_LEVEL` - 1) accesses):
- `HeightBounded`: `HeightBound`, and that the bottom level stays at 0 or above;
- `LocksHeld`: `HoldsItsLocks`; `NoNull`: `NoNullDereference`; `BottomComplete`: `BottomLevelComplete`.

They follow from one inductive invariant, `Inv`, whose parts TLC checked on the instances of
`MCFlexList` before they were proved. *The levels* (`ListInv`): each level is a sorted list of the nodes
that reach it (`Lists`); a node whose demotion has unlinked it and not yet lowered its top level
is off that level (`Off`). *The walks* (`WalksInv`): what each place of a walk relies on. A walk on level `h`
holds the lock of `predpred`, a node whose next one on level `h + 1` is beyond the key
(`Anchor`); the part of level `h` between the two belongs to that walk: two walks on one level have
disjoint parts, and others only add nodes there from below. That is why the nodes `pred` and
`cur`, which a walk passes without locks, stay on the level, and why the `next` it reads is not NULL.
*The locks* (`LockInv`): nobody holds more than his place says. None of the parts is inductive without the
others: a promotion, a demotion or an insertion keeps the lists only if its nodes
still follow each other, a walk keeps its zone only if the levels are lists, and both need the locks.
The steps are proved about what they do to the lists (`SameLists`, `Unlinked`, `Added`)
and to what other walks may have locked (`StepOf`), so an action has to say only which of these it is.

The arrays `next` and `hits` end at level 0, and the code opens a new bottom level without a test. So
each theorem has the hypothesis `AccessesLeft`, `accessCounter < 2^(MAX_LEVEL - 1)`, and `HeightBounded`
shows that it is enough. The argument (`HeightInv`): a level is opened only by a walk that demotes `cur` on the
bottom level, and it does so only if the hits of `pred` and `cur` there are no more than
`curAccess \div 2^(MAX_LEVEL - 1 - h)`. Hits on the bottom level are never negative (`HitsInv`), and a node has
a hit of its own from the moment its insertion lets go of its lock (`SelfInv`), so the share is at least one access
and `curAccess` is at least 2^(`MAX_LEVEL` - 1 - `h`) (`AccessInv`). The walk that opens a level holds the
locks of both nodes, so `SelfInv` and the lists of `Inv` are needed at that step, and `Inv` needs
`HeightBound` to stay within the arrays: the two are one induction (`Invariance`). `PowerAssumption` in
`FlexList` says that powers of two are positive; it restricts nothing, but the provers do not know it.

**`CCAVLProofs`** (any threads, keys, calls and width of the grow count):
- `VersionsLocked`: `ChangesUnderLock`, a node whose version is changing is locked;
- `OwnersChange`: `OwnerChanges`, nobody but the owner of its lock changes the children, the height, the
  value or the version of a node.

The inductive invariant `Inv` says what a call relies on at each place (`CallOK`): which locks it holds,
and that it never follows a NULL. A rotation turns towards a child whose height it has read before
it has locked it; that the child is there follows from the lock of its parent and from a height that is
not 0. Of the stores a rotation has still to make `StoresOK` says that each is to a node it has locked, but
for parent links, and that a store which begins a change is followed by one that ends it;
`VersionInv` says that every change under way is of that kind. `ChangesUnderLock` alone is not inductive: a
rotation could release its locks before its last store. `ShiftAssumption` is a fact of arithmetic and no restriction: the
provers do not know that 2^(3 + n) is a multiple of 2^3.

**`SkipListProofs`** (both lists, with and without the wait of an insertion; any threads, keys, calls and
`MAX_LEVEL`):
- `ListsKept`: the inductive invariant `Inv`; `NodesReached`: `LiveNodesReached`; `QuietClean`:
  `CleanWhenQuiet`; `SizesMatch`: `SizeMatches`.

`Inv`, whose parts TLC checked on the instance of `skiplists` before they were proved, says of each level that it
is a sorted list of the nodes that are `On` it (`Lists`). A node is on a level from the write that links it
there to the write that unlinks it, and both are told by the places of the calls: an insertion that is still
linking the node below (`NotYet`), a removal that has marked it and has still to come to this level
(`Erasing`). Searches take no locks, so they can be at a node that has been unlinked meanwhile; `NodesOK` says that such
a node still leads, along each level it was `Linked` on, to nodes with larger keys that were linked there.
`CallsInv` says of each place of an update what it has found (`Found`) and validated (`Guarded`),
`LockInv` that a thread holds the locks its place says and no more, `MakersInv` that a node which is not fully linked
is being linked by somebody. The least obvious part is `AgainInv`. A removal that fails its
validation searches again, with its victim marked and locked, and takes whatever node of the key that search
finds for its victim (`skiplist_locks/skiplist.h:283`). Were it another one, the removal would unlink a
node that it has not marked and leave its own behind, locked. It cannot be: all that such a search can come
to is in a set of nodes with their levels that holds what is on the lists and is closed under
going right and down, and has no node of that key but the victim (`Within`).

`SizeMatches` needs an invariant of its own, `SizeInv`: the nodes that hold a key, of which there are as many as the client
has counted, plus the insertions whose write has taken effect and that the client has not counted yet
(`Adding`), minus such removals (`Taking`). An insertion counts from the instant it has made its node, a removal from its mark
or its compare-and-swap. It rests on `Inv`, since the client counts *keys*: at rest the
nodes that hold one have distinct keys.
`LiveNodesReached` is about `ReachedAt`, a recursive function that walks a level; that it returns just the nodes on the level
is shown by `LeastElement` and `UpTo` in place of induction. `OrderAssumption` (`minKey <= maxKey`) keeps
the head below the tail also when nobody has a key; the constructor gets the ends of the range of keys.

Only model-checked: of `FlexList` the counters (`EveryAccessCounted`, `LevelsAddUp`, `NobodyOverdue`), which
are sums over sets of nodes; everything about `KCAS`, linearizability of the skip lists; of
`CCAVL` the order, the balance and the linearizability of the tree; that rotations
pay (`RotationPays`), the refinements of `Dictionary` other than that of the counting-based
trees, that of `MultiCAS`, and all liveness properties. Liveness under fairness and `ENABLED` are outside the
prover's reach; so is induction over data, except where it can be replaced by an argument about the
least number with a property, as for the path of `KeysFound`.

## 6. Findings

1. **`splaylist_same_insert`**. When `updateWithInsert` finds that the key has
   been inserted since its caller's `find`, it returns `cur->value`
   (`flexlist.h:421`), but `cur` has already moved on to the node *after* the key.
   If that is the tail or an erased key, the caller is told that it inserted. Two
   threads that insert the same absent key both count it, against
   `skipListSize == realSize()` in `test2.cpp:84`.
2. **`lazy_contains`**. `erase` of the lazy skip list takes the value of a node and
   leaves its mark alone; `contains` tests the mark and not the value
   (`skiplist_lazy/skiplist.h:179`) and answers true for an erased key.
   `test1.cpp:47-49` treats that as an error.
3. **`bronson_repair`**. The comment at `ccavl_impl.h:1001-1004` says that whoever
   changes a node promises to fix it, so that a thread which finds nothing to do may
   return. The children's heights are read one after the other without their locks: of
   an insertion and a removal whose repairs meet, each reads what the other is about to
   change, both return, and a node keeps a height that is not above its child's. The tree stays a search
   tree (`bronson`), and a later update nearby repairs it.
4. **`hazardptr_scan`**. `erase` of the announcement list moves its last entry into
   the free slot (`arraylist.h:54`). A scan that has read the earlier slot before the
   move, and reads the later one when another record has been announced there, misses the
   moved record and frees it while it is protected, against `reclaimer_hazardptr.h:224`
   ("no hazard pointers point to the item"). A client that releases the record it
   protected last, or all of them, is safe (`reclaimers`).
5. **`kcas_stale`**. A helper that finds the descriptor used again returns
   (`kcas_reuse_impl.h:417`) although its own RDCSS may have locked a word for the
   old operation after the owner's phase 2 had passed that word. Nobody unlocks it. Two threads
   suffice. The operation that owns the stale tag has failed (`OnlyFailedLeaveLocks`).

The properties that 1 and 2 break hold where the cause is absent: the splay-list is
linearizable where no two threads insert the same absent key, and the lazy list
where nobody calls `contains` (its `find` reads the value).

## 7. What the models leave out

- Overflow: `curAccess` of the splay-list is an `int` taken from a `long long` and its thresholds are
  shifts of an `int`, `y_new_w` in the rotations of the counting-based trees is an `int`;
  the models count without bound and the instances stay far below 2^31. Versions of
  `CCAVL` and the word of `rwlock.h` keep their bit fields.
- Weak memory: fields without `volatile` are read and written with plain accesses;
  apart from `loopKept` the models are sequentially consistent. The relaxed loads of
  `CLHRWLock` are taken to be ordered as on x86, and `startOp` is followed by the
  full barrier of `record_manager`.
- In the ideal tree a thread that has seen the end of the warm-up searches without
  the lock while thread 1 may still be in a restructuring search. `trees`
  shows that the tree stays intact. The unlocked search itself can miss a key; the
  model, which takes a turn of the loop as one step, already shows that, so
  `ImplementsDictionary` is not claimed for that variant.
- The structures and the record manager are not composed: all binaries of the Makefile
  are built with `reclaim_none`, so `retire` frees nothing. The client of the reclaimer
  models is any structure that uses them as their interface asks.
- The assertion of the scan that a thread has fewer announcements than its list has room for
  (`reclaimer_hazardptr.h:214`): the model lets a thread fill its list.
- A second scan, in the run `reclaimers`, over a record that has survived the first:
  `NoProtectedFreed` is proved for any number of scans.
- Operations that only read and say so: `startOp` of the tree reclaimer then leaves `tryAdvance` out
  (`reclaimer_ebr_tree.h:340-348`; in DEBRA that branch is compiled out). Safety does not
  depend on it, but epochs stand still while all operations are of this kind, so
  `ReclamationGoesOn` is for clients that also update.
- Sizes, checksums, traversals and printing, which run while nobody else does.
- Copies of modelled code: `flexlist_locks_nopaddings` and `flexlist_locks_64_paddings`
  differ from `flexlist_locks` in padding and in a statistics counter only,
  `ideal_skiplist_locks` from `skiplist_locks` in how a level is chosen. The models describe
  them, but `PROJECT.json` maps only the originals.

### Not modelled

The repository has about 47,600 lines of C and C++, of which the structures and the
concurrent parts of the framework modelled here are a small share. The rest is not
modelled, for these reasons:
- *Vendored or third-party code, not called by the structures*: `atomic_ops`, `urcu`, `rlu`,
  `macrobench` (DBx1000), `papi`; `dcss`, `descriptors`, `rq` and
  `scx_provider` of setbench; `kcas` with hardware transactions (`kcas_reuse_htm_impl.h`,
  the variant that `kcas.h` instantiates; the lock-free one is modelled).
- *No shared state to reason about*: drivers and key generators of `microbench`, statistics
  (`gstats`), thread pinning, timing, command lines, output, adapters.
- *Parts of the record manager*: allocators and pools (a bag is freed as by
  `pool_none`), `deinitThread`, DEBRA+ (which interrupts threads by signals and `longjmp`s
  into their recovery code), `rcu` (a wrapper around `urcu`), `ebr_tree_q` and `debracap`
  (variants of the modelled ones).
- *Sequential versions*: `flexlist_seq`, whose levels and counters are those of
  `FlexList`, and `flexlist-ideal`, which is read-only after a warm-up with one thread.
- *Dead code*: `HZLock.h`, which no file includes.

## 8. Plan

All components that carry the concurrency of the repository are modelled. What is
left is to prove more about them, in this order:

1. `FlexList`: the counters (`EveryAccessCounted`, `LevelsAddUp`, `NobodyOverdue`). `hits` of a node on a level
   is a sum of `selfhits` over the nodes between it and the next one, corrected by the walks that have counted above and
   not yet below, so the proof first needs facts about sums over sets, which are inductions over data.
2. `CCAVL`: the order of the tree while rotations go on store by store (`SearchTreeWhenQuiet`), from the
   invariant of `CCAVLProofs`.
3. `CBTree`: a rotation pays (`RotationPays`).
