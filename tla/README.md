# A TLA+ development of VictoryDB

VictoryDB is an LSM storage engine in Rust, in an early state: the concurrent
building blocks of its write path exist, and most of what is to connect them
(the front end, flushing, versions, recovery) is a sketch. This directory models
the blocks that exist, checks them with TLC, and proves the safety of all of them
with TLAPS, for every value of the constants. Paths below are relative to `src/crates/`.

## 1. Inventory

| Component (source) | State | Operations | What makes it correct |
|---|---|---|---|
| Arena (`mem/src/arena.rs`) | vector of chunks under a mutex; per chunk an atomic `bump`; `current_chunk`, `allocated_bytes`, `memory_used` | `alloc_raw` (panics when full), `alloc_raw_fallback` (returns the error), `try_new_chunk` | no byte handed out twice; aligned regions inside a chunk; the capacity holds; it fails only when full; only a full chunk is replaced; every call ends |
| Allocator (`mem/src/allocator.rs`) | none | obtain a chunk from the system | - |
| Node layout (`Node` in `engine/src/memtable/skip_list.rs`) | header, tower, key and value in one region of the arena | `build_layout`, `alloc`, `init_node`, the copies of key and value, the pointers to the parts | what is read through the header is what was written, whoever writes next to it |
| Skip list (`engine/src/memtable/skip_list.rs`) | nodes with towers of atomic pointers; `max_level`, `entries`, `seed` | `search`, `insert`, `insert_with`, `iter`, `seek`, `range` | no node lost on any level; towers complete; insertion atomic in effect; searches linearizable; iterations complete; calls end |
| Memtable (`engine/src/memtable/memtable.rs`) and keys (`engine/src/key/`) | a skip list of internal keys (user key, then sequence number and operation) | `insert`, `insert_direct`, `get`, `MemtableIterator` | a read returns the newest version of its snapshot; reads repeat; iterators miss nothing |
| IterKey (`engine/src/key/iter_key.rs`, `inner_key.rs`) | an array inline, a `Vec`, a pointer into it | `set`, `set_from_slice`, `as_slice` | the slice is the last key; the `Vec` is long enough |
| Hazard domain (`mem/src/hazard/domain.rs`, handles in `hazard_ptr.rs`) | list of all records; list of available records whose head carries a lock bit | `acquire_many`, `release_many`, creating and dropping `HzdPtr`, `HzdPtrArray` | a record has one owner; none is lost from the list a reclaimer scans; the lock has one holder and nobody spins for ever |
| Hazard protection (`hazard_ptr.rs`, `hazard/mod.rs`) | the published pointer of a record | `protect`, `protect_all`, `try_protect_ptr`, `reset_protection`, the drops, barriers | what is protected is not reclaimed; no announcement is left behind or lost |
| Write thread and writer (`engine/src/db/write_thread.rs`, `writer.rs`) | queue of `Writer`s on their threads' stacks; flags per writer | `join`, `link_writer`, `set_new_links`, `EnterBatchGroup`, `wait`, `wait_and_block` | one queue, one leader; no follower returns early; no wake-up is lost; queued writers are alive |
| Write batch, VarInt (`engine/src/db/write_batch.rs`, `engine/src/utils/`) | a byte buffer and a count | `new`, `new_with_capacity`, `put`, `batch_count`; `VarInt::new`, `decode` | the bytes alone give back every put, in order, and the count is theirs |
| Front end, column families, versions, iterator tree, thread context, options, blocks | fields | stubs, sketches in comments, constants | - |

Interaction. A `Memtable` owns an `Arena` and a `SkipList`; every node of the list is
a region of the arena, and when the arena is full the insertion panics.
`MemtableInner` compares with `InternalKeyComparator`, so the list is sorted by user
key and then newest first. Readers walk the list without locks while writers insert.
`DbImpl::write` is meant to put a `Writer` on its stack and call `WriteThread::join`;
superversions are meant to be protected by hazard pointers. Nothing is persisted yet:
there are no crashes to recover from.

Hard behaviours: lock-free compare-and-swap loops whose retries use earlier searches;
values that are loaded, then locked or validated, then used; double-checked growth
under a mutex; iteration among insertions; spinning that turns into parking just as
the wake-up comes; memory of a stack frame that other threads still point to.
`PROJECT.json` lists these hazards line by line, with the properties that cover them.

## 2. Modules

One action is one access of shared state (a load, a store, a compare-and-swap, a
lock); everything a thread does between two of them on data of its own belongs to the
action before or after. Memory is sequentially consistent, except in `HazardProtect`,
where the question is what a store buffer does. A thread's position is `pc`, and the
values of `pc` follow the lines of the function.

* **Arena** - `alloc_raw` is `Call`, `GetChunk`, `LoadBump` (with `alignment_check`),
  `CasBump`/`CasFails`, `Account`; `try_new_chunk` is `LockChunks`, then under the mutex
  `RecheckFits`, `RecheckFull` or `RecheckGrows`, `CountChunk` and `PublishChunk`: the capacity
  is tested in one access and counted in another. The weak
  compare-and-swap may fail for no reason. `granted` is a history variable: a region and the
  call that got it, so that two calls given one region are two regions. Locals are reset where
  they go out of scope. Chunks start at
  aligned addresses in the model; see section 7.
* **NodeStore** - extends Arena by the bytes of its chunks: the composition of the allocator
  with its one client. `WriteNode` is the return of an allocation to `Node::alloc` with the
  header, the tower, the key and the value written; `KeepBlank` is a caller of
  `alloc_raw_fallback`; `AddChunk` is `PublishChunk` with the new chunk's bytes; every other
  step is one of Arena's (`ArenaStep`). A byte is known by which part of which node was
  written there last. The key length is cut to its field, the bytes of the key are not.
* **OrderedList** - what the list promises: sorted, growing only, an insertion is one
  step, and a new entry precedes those of an equal key. Parameterised by the comparator.
* **SkipList** - `search` is `LoadMaxLevel`, `SkipLevel`, `EnterLevel`, `Advance`,
  `Descend`; `insert` searches first and then counts, draws a height, raises
  `max_level`, allocates and links level by level (`LinkSucceeds`, `LinkFails`, which
  searches again); `insert_with` allocates before it searches. `Iter`, `Seek`,
  `Position`, `Yield`, `EndScan` are the iterators. The pseudo-random generator is any
  height. A key is a number in the comparator's order; `Bytes` gives the order of
  its encoding, which `RangeIter` uses. It implements `OrderedList` (`BaseList` is level 0).
* **Memtable** - uses `OrderedList` for the list (the refinement above justifies it) and
  models the trailer with its width, the lookup key with `OperationType::Max`,
  the comparator, `get` and `MemtableIterator`.
* **IterKey** - the array, the `Vec` with its length, capacity and allocation, and the
  pointer between them. `Vec::reserve` is external, modelled by its contract and doubling.
* **HazardDomain** - `try_acquire_available` is `LoadAvail`, `FetchOrBusy`/`FetchOrLocks`,
  `StealMore`/`StealEnough`, `Unlock`, `CutTail`; `acquire_new_rec` is `NewRec`, `PushRec`/
  `PushRecFails`, `CountRec`; dropping an array is `DropArray`, `LoadForRelease`,
  `PushAvailable`/`PushFails`; dropping a single handle ends in the `todo!()` of the code.
  Handles may be dropped by another thread than the one that made them. Following a
  pointer that still carries the lock bit is undefined; the state `wild` stands for it. The
  history variable `stale` says that a thread took the lock and found that the head it had
  loaded was no longer the head: what follows is the violation `hazard_owner` shows.
* **HazardProtect** - `ProtectAll`, `LoadSrc`, `Announce`, `LightBarrier`, `RecheckSame`,
  `RecheckChanged`, `Withdraw` are `protect` and `protect_all` with `try_protect_ptr`;
  `Drop`, `ClearSlot`, `Release` are `reset_protection` and both drops. A store goes to the
  reader's buffer and memory takes it later (`Drain`). `fence` is the build: off x86_64 the
  light barrier is a fence, on x86_64 it is nothing. The other side is not written yet
  (`retire_ptr` is a stub), so the writers (`Swap`) and the reclaimer (`StartReclaim`,
  `HeavyBarrier`, `StartScan`, `ScanRec`, `Free`) are an environment, marked external: the
  reclaimer that the barriers of `hazard/mod.rs` are made for. Freed addresses are used again.
* **SafeMemory** - what hazard pointers promise: `Protect` takes a reference to what its source holds
  in one step, `LetGo` ends a handle's references, `Replace` retires what a source held, `Reclaim` frees
  retired objects without references. There are no records, announcements or retries in it.
* **WriteThread** - `Join`, `LinkWriter`/`LinkFails` (a leader gets a `WriteGroup`),
  `LeaderReturns`, `EnterBatchGroup` with `SetNewLinks`, and `Writer::wait`: `SpinDone`, `FallThrough`,
  `MarkWaiting`, `CheckState`, `Unparked`, `SpuriousWake`. The signaller (`SetFlag`,
  `LoadState`, `Unpark`) follows the tests of `writer.rs`, the only place that signals.
* **WriteBatch** - `Init` is `new` or `new_with_capacity`, `Put` is `put_bytes`, `PutPanics`
  the same where a length needs a fifth byte, which leaves half an operation behind. The
  buffer is a sequence of cells: bytes one by one, a key or a value as one cell with its length.
  A byte has `Radix` values, so that small numbers carry. `VarInt` is `VarInt::new`; `Decode` is
  `VarInt::decode`, the loop's end (`BytesRead`) apart from the groups it adds up (`Groups`). `ReadAll` is a reader that knows only the buffer.
* **ArenaProofs** (with those about `NodeStore`), **SkipListProofs**, **MemtableProofs**,
  **IterKeyProofs**, **HazardDomainProofs**, **HazardProtectProofs**, **WriteThreadProofs**,
  **WriteBatchProofs** - the theorems about the module each is named for (section 6).
* `MCArena`, `MCSkipList`, `MCHazardDomain` - values of constants and
  symmetry sets for TLC. Definitions called `Mutant...` are deliberately wrong versions of
  the definition that follows them; each property is known to fail under one of them.

## 3. Runs

| Run | Properties | Shows |
|---|---|---|
| `arena` | `TypeOK`, `NoOverlap`, `RegionsFit`, `CapRespected`, `FailureIsJustified`, `MemoryUsedExact`, `NodesIntact`, `ReplacesOnlyFullChunk`, `CallsEnd` | two threads, two nodes each, up to three chunks: regions are disjoint and aligned, failures justified, the counters exact, no chunk replaced in vain, every call ends; and every node stays what was written, unless a key is too long for its length field |
| `skiplist_insert` | `TypeOK`, `LevelsIntact`, `FullyLinked`, `MaxLevelCovers`, `RefinesOrderedList`, `CallsEnd` | two racing insertions, of equal or different keys, by either entry point, towers up to three levels |
| `skiplist_scan` | `ScanIsComplete`, `SearchIsExact` | one inserter (whose third call finds the arena full) and one reader that searches, iterates and ranges |
| `memtable` | `TypeOK`, `GetIsSnapshotRead`, `IterationIsComplete`, `ReadsAreRepeatable` | three writes of any key, sequence number and operation in any order, and an iterator among them |
| `iterkey` | `SliceIsLastKey` | keys that fit the initial capacity, in any order |
| `hazard` | `TypeOK`, `OneOwnerUnlessStale`, `OwnedIsUnavailable`, `RecordListIntact`, `LockHasOneHolder`, `CallsEnd` | two threads acquire, two drop: the list of records and the lock stay right always; until somebody goes on with a stale head, ownership is exclusive, an owned record is not available, and nobody spins for ever |
| `hazard_protect` | `TypeOK`, `ProtectedIsNotFreed`, `AnnouncesExactlyHeld`, `RefinesSafeMemory` | two readers against the reclaimer, in both builds: nothing held is freed, although announcements sit in store buffers and addresses come back; `protect` is atomic at its second load; whatever the retries, resets and drops, a slot announces exactly what it gave a reference to, and a record that went back announces nothing |
| `writers` | `TypeOK`, `QueueIsIntact`, `FollowerWaits`, `NoLostWakeUp`, `SignalledReturns` | three writers race to join; followers wait, none stays parked when its signaller is done, and all are woken |
| `write_batch` | `TypeOK`, `SelfDelimiting`, `VarIntRoundTrip` | up to five puts, some of which panic half way: the buffer alone gives back what was put, and the count is right |

Three runs end in a violation, because the code does not do what its own text says
(quoted in `PROJECT.json`, "findings"):

* `skiplist_range`: `RangeIter::next` compares the end bound with raw bytes instead of
  the list's comparator (`skip_list.rs:810`).
* `iterkey_heap`: `IterKey::set` reserves the difference to the capacity on an empty
  `Vec`, then sets a length above the capacity (`iter_key.rs:39`).
* `hazard_owner`: after `fetch_or` took the lock, `try_acquire_available` goes on with
  the head it loaded before (`domain.rs:311`); two acquiring threads can own one
  record. The run `hazard` shows that this is the only way.

Other disagreements met while modelling, which have no run of their own:

* The arm of `search` that would set `searched_node` is commented out
  (`skip_list.rs:479`), although its comment (`skip_list.rs:297`) and tests (`:967`, `:999`) rely on it, so
  `insert` never finds a duplicate and inserts equal keys twice. The model does so too:
  `OrderedList` says where the second one goes, and `GetIsSnapshotRead` which one is read.
* `generate_random_level` tests the address of a slot of the head's tower, not its
  content (`skip_list.rs:414`): every height of four or more becomes three.
* `link_writer` and `join` `debug_assert!` the flags `INIT` and `LEADER`, which
  nothing sets (`write_thread.rs:110`, `:323`); the model is of a build without them.
* `set_new_links` tests the address of the cell `group_next` (`write_thread.rs:180`) and
  so links nobody.
* The doc says "any Writer pointer reachable from the queue points to a live Writer"
  (`write_thread.rs:80-81`); but the leader's branch of `join` is empty (`write_thread.rs:322`):
  it returns and its `Writer` goes out of scope with `newest_writer` still pointing to it.
* `key.len() as u16` (`skip_list.rs:530`) cuts the length of a key of 65536 bytes or more,
  whose bytes are then all copied; `NodesIntact` excepts what lies above such a node.
* `len() as u32` (`write_batch.rs:217`, `:220`) cuts lengths of 4 GiB; `SelfDelimiting` excepts
  them. A length from 2^28 on panics in `VarInt::new`, whose array has four bytes.

## 4. Bounds

* Arena and nodes: two threads and one mutex give every race between a fast path, a growing
  thread and a late one; two calls each over a capacity of three chunks cover full
  chunks, growth, and failure. With a header and pointers of two bytes, a chunk of fifteen holds
  two nodes of seven (the second after a byte of padding, up to the last byte). The other
  nodes are one whose key of six bytes has the length two in a field of two bits,
  and one of sixteen bytes, which no chunk can hold.
* Skip list: the races are between two neighbours on one predecessor, so two inserters
  and two keys (and the sentinel) produce them; four is the first height that is cut,
  three levels have a lowest, a middle and a top. The arena has room for two nodes.
* Memtable: three versions in any order, with sequence numbers 0, 1 and the largest one the
  trailer holds (`SeqRange` is 16 instead of 2^56), against snapshots at the same numbers; two
  user keys, so that a lookup can run into the next key.
* IterKey: lengths below, at and above the inline size and at the capacity, four names. A key
  that fits never makes the `Vec` grow, and one that does not is the finding of `iterkey_heap`.
* Hazard domain: arrays of one and two records, so that a steal takes a part of the
  list, all of it, or too few. Two acquirers and two releasers with two acquisitions and one
  drop each: the second acquisition meets what the drops gave back, while the other
  acquirer does. `MaxRecs` stops an acquirer, which `CallsEnd` excepts.
* Hazard protection: two readers, so that one may hold what the other lets go; one
  source with one object and two swaps, so that the object is retired, freed and
  comes back at its address, or the source becomes null; handles of one and two records. A
  buffer of two stores has a withdrawal and the next announcement wait together, so that
  what a slot announces is the newest store of several.
* Write batch: a byte of four values makes a length of 15 the longest with four groups, 16
  the first that panics, 257 one that is cut to 1; five puts carry the count into its second byte.
* Write thread: three writers are a leader and two followers, the smallest queue in which
  a link between followers can be wrong; each joins once, as a `Writer` does.

Deadlock is not checked where the bounds are numbers of calls, after which threads stop,
and where a panicked thread stops. In `IterKey` there is always another call.

## 5. Fairness

`CallsEnd` and `SignalledReturns` assume weak fairness of each thread inside a call (the
scheduler of the operating system runs it), and strong fairness of the successful
`compare_exchange_weak` where a spurious failure is modelled: hardware may fail one
at any time but not for ever. Taking a mutex is weakly fair only. Nobody has to
make a call, to signal, or to wake up a parked thread that has no token.

Nothing is claimed about retired objects being freed: the reclaimer is not written, and the
code's own comment promises no more than that they wait, "if there are no more retires", until "the owning
domain is itself dropped" (`mem/src/hazard/domain.rs:46-47`). So the environment of `HazardProtect`
has no fairness, and what the code owes to a reclaimer is stated as safety: `AnnouncesExactlyHeld`.

## 6. Proofs

Every safety invariant and action property of the passing runs is proved for all values of the
constants; so are the three refinements (`SkipList` implements `OrderedList`, `HazardProtect`
implements `SafeMemory`, `NodeStore` implements `Arena`). Each proof module gives an inductive
invariant, one lemma per action (or per part that an action can disturb), and the theorems at
the end of each part. The assumptions are the named `ASSUME`s of the modelled module and, where said, a
hypothesis of the theorem. The bounds on calls are only assumed to be numbers.

**Induction over data** is done without an induction theorem, whose parameter no
installed prover can instantiate. A counterexample of least length or size exists, since `<` on
numbers is well founded (`LeastNat` in `MemtableProofs` and `WriteBatchProofs`, `SmallestSet` in `ArenaProofs`); the step that would be the induction step
contradicts it. Where a library operator chooses a recursive function (`MapThenSumSet`),
the function is shown to exist (`SumsExist`) and two of them to agree (`SumsAgree`). A recursive
function of the model is treated alike: what its definition chooses satisfies the equation once some
function does, and that one is put together from functions on initial segments.

### ArenaProofs

`RegionsDisjoint` (`NoOverlap`), `RegionsAreUsable` (`RegionsFit`), `FailuresJustified`,
`CapNeverExceeded`, `MemoryUsedIsExact`, `TypeCorrect`, and the action property
`ChunkReplacement` (`ReplacesOnlyFullChunk`), for every set of threads and layouts, chunk length and capacity.
Assumed: a chunk length above zero and a capacity of at least one chunk (`PolicyAssumption`, which
`Arena::new` needs too), sizes and alignments above zero (`LayoutAssumption`), and `Free`
is not a thread. Alignments need not be powers of two: the mask of the code is modelled as a
remainder, the same for powers of two.

`IInv` adds what the properties lack to be inductive: the owner of the mutex is the thread in the
double check, about to count or about to publish (`MutexInv`); the current chunk is the last
(`CurrentIsLast`); an offset at its compare-and-swap was checked to fit (`CasInv`), so that
the new region ends inside the chunk and starts above all others; the bytes counted are those of
the chunks, and one more chunk while a thread is publishing (`AccountInv`); a thread about to count or to publish
cannot use the current chunk, and the capacity it tested is still there (`PublishInv`); nobody publishes once a call has failed
(`FailedInv`), since the capacity was used up then. `FitsDownward` (a chunk that is full
for a layout stays full as its offset grows) carries `FailureIsJustified` through the steps of
other threads; it rests on the monotonicity of rounding (`FloorMonotone`).

For `MemoryUsedExact`, a region belongs to one call (`OwnInv`), `Settled` are the regions
whose call has counted its bytes, and `UsedInv` says that `memory_used` is their sum:
the step that counts adds one region to the set (`BytesRemove`).

About the bytes of the arena (`NodeStore`): `StoreImplementsArena`: dropping the bytes, every step of a store is one of the arena or a
stutter, so all theorems above hold of it. `NodesStayIntact` (`NodesIntact`) follows from
`NoOverlap` and `RegionsFit`: a node's parts lie one behind the other within its layout
(`Parts`, for every header, pointer and key size of `NodeAssumption`), its layout is a region
(`WrittenOk`), and the next write is in a region of its own, or above it in
the same chunk when its key is too long.

### SkipListProofs

For every number of writers and readers, every set of keys, height of the head and size
of the arena:

* `SkipListTypeOK`: `Place` says for each line of the functions what its locals are (a level
  within a tower, a node where one is needed).
* `NodesEndFullyLinked` (`FullyLinked`), from `NodeInv`: a linked node is linked below; an
  inserter's node is linked on exactly the levels below `at`; what a search has recorded on a level is
  linked there, with a smaller key in front and one that is not smaller behind
  (`SearchOk`). That stays true however stale the search is, because nothing is ever unlinked.
* `NoLevelAboveMax` (`MaxLevelCovers`).
* `NoInsertionIsLost` (`LevelsIntact`), from `ListInv`: each level is a sequence of the nodes
  linked there, without repeats, in key order, along which the pointers run. A successful
  compare-and-swap inserts into that sequence between a predecessor with a smaller key and its
  successor at that moment.
* `SearchesAreExact` (`SearchIsExact`): a load on level 0 that ends the search is the moment
  at which its result is the first node not less than the key.
* `ScansAreComplete` (`ScanIsComplete`), under `BytesAgree`: raw bytes order like the
  comparator. Without it the property is false, which is the finding of `skiplist_range`; the run
  `skiplist_scan` has such keys too. `ScanInv` says of each reader that what it has yielded is in the order of the
  list and that the rest of what it must meet is still ahead.
* `ImplementsOrderedList` (`RefinesOrderedList`): the compare-and-swap on level 0 is `Insert` of
  `OrderedList`, with the number of smaller entries as its place, and every other step a stutter.

Assumed: there is a key, keys are numbers (any total order), a thread is either writer or reader.

### MemtableProofs

For every set of user keys and sequence numbers, every trailer width that holds the
numbers, and any number of writes and iterators:

* The comparator: `TrailerFacts` (the shift loses nothing), `KeyLessFacts` (user key, then
  sequence number, then operation), `LookupFacts` (a lookup key is in front of exactly what its
  snapshot sees, and of greater user keys), `OrderTotal` and `OrderAsym`.
* `MemtableTypeOK`, from the invariant `ListOf(list, writes)`: the list has the key of every
  write once, in the order of iteration. `InsertSorted` shows that the abstract list's insertion
  keeps it: the smaller keys are the first entries (`PrefixSet`), and a key equal to others
  goes in front of them as the newest.
* `GetReadsTheSnapshot` (`GetIsSnapshotRead`): the entry a lookup leads to is the newest
  visible version, or nothing is visible (`LookupLeads`).
* `SnapshotsAreStable` (`ReadsAreRepeatable`): reads before and after the insertion both
  equal what the writes say, and a write above the snapshot is not visible (`InvisibleWrite`).
* `IteratorsMissNothing` (`IterationIsComplete`): with `AtLast` (the node an iterator is at is the
  last it passed) the property is inductive; `InFront` says that nothing lies between the
  places of the list.

### IterKeyProofs

`IterKeyTypeOK` (which only the proof needs, so no run checks it), and `SliceStaysLastKey`: under `KeysFit` (no key exceeds the initial
capacity) the slice is the last key and `HeapHoldsKey` holds; the `Vec` is never reallocated then. Without the
hypothesis `HeapHoldsKey` is the finding of `iterkey_heap`, and what is read back is undefined.

### HazardDomainProofs

For every finite set of threads and every size of array:

* `LockIsExclusive` (`LockHasOneHolder`), from `LockInv`, which says who holds the bit.
* `RecordListStaysIntact` (`RecordListIntact`): `RecordInv` has a sequence of all records
  pushed so far, along which `next` runs. The count needs the threads to be finite in number.
* `OneOwner` (`OneOwnerUnlessStale`) and `HandlesAreOffTheList` (`OwnedIsUnavailable`): until
  `stale`, there is a sequence of available records along which `available` runs from the
  head, a chain of records for each call, and a function `own` that gives each record to the list, a call, a
  handle, or nobody (`OwnerInv`). The walk under the lock stays on the list, since a push
  fails while the bit is set; the run it takes becomes the chain of its call in the store
  that unlocks, although it is cut off only later (`AtCut`).
* `DomainTypeOK`.

### HazardProtectProofs

`ProtectTypeCorrect`, and `ProtectionIsSafe` (`ProtectedIsNotFreed`), for every set of
readers, records, sources and objects, every size of handle and of store buffer, and both
builds. Assumed: null is not an object, sizes of handles and buffers are above zero; and the
environment is as modelled: an object is retired when it leaves its source, and the
reclaimer does its heavy barrier before it reads the records that are on the list then.

A reference is announced in its record, by the record in memory or by the newest
store to it in the reader's buffer (`Announced` in `HeldOk`); `CallsOk` says the same of a
call that is about to read its source again. What a source holds is alive and what is in
the reclaimer's batch is retired (`ObjectsOk`), so a successful second load gives a
reference to an object outside the batch, and a later batch comes with a later barrier.
For an object in the batch, a store that announces it is among those the barrier waits
for (`due`, `BarrierOk`), or, with a fence in the reader, it is in memory already; so in
the scan the record is unread and has the object, or the object is in `guards`.
`SlotsApart` and `StoresOwned` (a record belongs to one slot, and a reader stores to its own
records only) keep announcements apart. `StoreKeeps` and `DrainKeeps` carry an
announcement through stores to other records and through memory taking them.

`ImplementsSafeMemory` (`RefinesSafeMemory`): what a reader holds are the objects in `out`. The
second load that finds the pointer unchanged is `Protect` of `SafeMemory` on that source
(`RecheckSameProtects`), the beginning of a call, a reset and a drop are `LetGo`, and what `Free`
frees is retired and in no reader's hands (`FreeReclaims`): by `HeldOk`, a held object of
the batch is among the guards when no record is left to read. All else is a stutter.

`NoAnnouncementLeftBehind` (`AnnouncesExactlyHeld`), from `AnnounceInv`: the slots a call or a reset has
passed (`Passed`) announce exactly what they gave a reference to, and a record outside every handle is
null in memory. The slot a call is at is written by it alone (`SlotsApart`), and a record goes back
only once all slots have been passed and memory has taken the stores.

### WriteThreadProofs

For every set of writers: `QueueStaysIntact` (`QueueIsIntact`), with `QueueHasNoRepeats`
and `LinkedIsJoined`; `FollowersWait` (`FollowerWaits`), with `ReturnIsSignalled` and
`SignalIsFlag` (a signaller has set the flag); `WakeUpsAreNotLost` (`NoLostWakeUp`, the
safety half of `SignalledReturns`), because the flag is set before the state is loaded
and `LOCKED_WAITING` before it is looked at; `WriteThreadTypeOK`.

### WriteBatchProofs

For every radix, all lengths of keys and values, and any capacities: `WriteBatchTypeOK`,
`VarIntsRoundTrip` (`VarIntRoundTrip`) and `BatchesAreSelfDelimiting` (`SelfDelimiting`).

* Numbers. `VarInt` and `Groups` are shown to be functions (see above). An encoding is
  groups with the MSB set and one without, so decoding stops at its own last byte whatever
  follows; that the groups add up to the number is an induction on the number, which a shift
  makes smaller. A number below a power of `Msb` takes that many groups at most.
* Operations. `IInv` adds to the types that the count is the number of puts (`CountIsExact`) and
  that there are positions, from the end of the header to the end of the buffer, between each two
  of which lies the `Record` of one put (`LaidOut`; behind the last may be the piece of a put that panicked): appending moves none of them, and
  `WithCount` writes to the header only. From a record's first cell the reader gets its lengths
  and its end, since the bytes after a length run up to the next payload and decoding ignores
  what follows; so `ReadAll` is at the n-th position after n operations.

Hypothesis of `BatchesAreSelfDelimiting`: fewer than 2^32 puts (`MaxPuts < U32`). Nothing in `put_bytes`
guards the `+ 1` of the count (`write_batch.rs:230`), so the next put would wrap it to zero,
or panic in a build with overflow checks; `Batch::max_bytes`, which nothing reads, would be
the bound. As in the property, lengths that `as u32` cuts are excepted.

### Only model-checked

* Liveness, which is out of the provers' reach: `CallsEnd` of three modules and
  `SignalledReturns`.
* That the code under `Memtable` is `SkipList`: the two are joined by `OrderedList`, which one
  implements and the other uses.

## 7. Not modelled

* Memory orderings weaker than sequential consistency outside `HazardProtect` (the
  `Relaxed` loads of the list's walk), and in it those weaker than a store buffer.
* The address of a chunk: the code rounds the offset, not the address, of a `Box<[u8]>`.
* What lies behind the last byte of a chunk, when a key that is too long is copied there.
* Retirement of hazard pointers: `retire_ptr` is a stub and there is no reclaimer; the one in
  `HazardProtect` is an environment.
* The compatibility checks of `EnterBatchGroup`: it follows a null link before it
  reaches them, or ends in `todo!()`. Its size limits, and `Batch::max_bytes`, have no effect.
* `Memtable`'s life cycle, size and rotation: fields that no code changes.
* The front end, column families, versions, the iterator tree: no operations yet. Nothing is
  persisted, so there is no recovery.

## 8. Status

All modules of section 2 are checked, and every safety property and refinement of the passing runs is proved.
What remains waits for code: when a leader's group is written, a property for its signals to
followers that may already have returned; when retirement exists, the
reclaimer of `HazardProtect` becomes a model of it, and `SafeMemory` what it has to implement; when
`Memtable` rotates, its life cycle.
