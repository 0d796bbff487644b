# A TLA+ verification of sw-scope

`sw-scope` is a Rust allocator of *scopes*. A program creates a root (the owner
of everything), creates scopes in it, puts objects into a scope and gets a
`Retain` per object; from a `Retain` it borrows an `Owning` (exclusive) or
`Sharing` (counted) view. Objects die when their last `Retain` goes, or when
their scope is closed; a scope retires when it has no handle and no slot in use;
a closed root is freed by whichever thread retires its last scope. Nearly all of
this is decided by atomic words and by locks that are *tried*, not waited for,
so the order of a few loads and compare-and-swaps decides whether memory is
freed under a user, leaked, or freed twice. That is what is modelled here.

Paths below are relative to `src/src/`; `PROJECT.json` maps every definition of
every module to lines of the code.

## 1. Inventory

| component | code | state | operations |
|---|---|---|---|
| Slots, handles and views | `weak_/slot_.rs`, `index_.rs` | one atomic word per slot (DataState, weak count, a spin lock bit), `strong_chunk` pointer, strong count in the chunk header | `Retain::{clone, try_owning, try_sharing, drop}`, `Owning::drop`, `Sharing::{clone, drop}`, `try_claim_destroy`, `mark_destroyed`, `try_release_dead_slot_` |
| Weak pools and chain | `weak_/pool_.rs`, `scope_inner_/inner_.rs` (`WeakChain`) | per pool a free list, live count, pin count, retire-pending and detached marks; the chain's head, tail and links | `allocate`, `deallocate`, `return_slot_`, `pin_`, `unpin_`, `try_mark_detached_`, `push_back_`, `unlink_`, `take_all_` |
| Allocation | `scope_inner_/alloc_.rs` | under the scope's write lock | take a slot, open a pool, allocate the chunk, run the constructor, publish or roll back |
| Flush of a closing scope | `scope_inner_/teardown_.rs` | under the write lock; a local `all_dead` | pin, scan and destroy, unpin, free empty pools, reclaim strong pools |
| Scope handles and retirement | `scope_.rs`, `scope_inner_/inner_.rs` | handle word (count, closed, close requested, retired), `users_`, the write lock (which can be poisoned) | `new_in`, `clone`, the puts (`emplace`, value, string, slice), `close`, `drop`, `try_flush_`, `try_retire_`, `try_retire_only_` |
| Root lifecycle | `scope_inner_/root_.rs` | flag word (closing, elected, finalizing), `live_scopes_`, `inflight_`, `active_`, the entity pool, the publication slot | `RootLease::enter_` and drop, `close`, both elections, `finalize_` |
| Root publication | `scope_inner_/root_.rs` | a static atomic pointer: null, a sentinel, or the root | `try_init_in`, `get`, `close`, the end of `finalize_` |
| Type table, hooks | `scope_inner_/root_.rs`, `abs_.rs`, `strong_/chunk_.rs` | a B+ tree per root, under a lock, from the type of a chunk to its destructors | `ensure_meta_`, `get_meta_`, `run_pre_drop_`, `run_drop_` |
| Strong pools and chunks | `strong_/*.rs` | bump cursor per pool, chunk header | `allocate_`, layout computation |
| Traits, constants, string helper, demo, tests | the rest | none of their own | none |

### How they interact

* A `Retain`, a view and a `Scope` are *handles*: they reach their slot or scope
  by a raw pointer, and only the counters say how long it is there.
* `put` takes the scope's write lock (awaiting it, unless it is cancelled), then a
  slot under the chain lock, then memory from the strong pools; it registers the
  type with the root before the slot says that there is an object.
* A destruction looks the type up in the table of the root, which it finds from
  the slot through the pool and the scope.
* A drop of any handle may run a destruction, return the slot, take an empty
  pool off the chain, *try* the write lock for a flush or a retirement, and
  after that decide whether to finalize the root.
* Leases (`active_`), in-flight flushes (`inflight_`) and live scopes
  (`live_scopes_`) are what keeps the root's memory until the last drop has
  returned. `finalize_` waits for the first two, and the election looks at the
  third.
* A destructor is user code and may drop handles of other objects: the flush
  re-enters the slot return while it walks the chain.

### What is hard

Every operation is several atomic accesses; another thread's accesses come in
between. Locks that are tried and given up on count on somebody else to do the
work. Flags are read and acted on later. Counts have a width, and share a word
with a state or with flags. Allocation may fail half way, and a user's
constructor may panic in the middle of it. Nothing is persisted and there are no messages: there is no
crash recovery and no delivery to model. `PROJECT.json` lists the hazards at
their lines, with the properties that would catch them going wrong.

### What makes each component correct

* **Slots**: one destruction per object; no return of a slot under a handle or
  under a thread between two accesses; no revival of claimed data; an `Owning`
  view is exclusive; the data under a view is intact; a destructor runs in live
  memory, whoever gives the strong pools back; a dead slot without `Retain` is
  returned.
* **The slot's word**: every operation on it is atomic, though it is a loop of a
  load and an exchange; the lock bit excludes; counts and flags keep apart.
* **Weak pools**: a slot is free or has one user; a pool is not freed under a
  walker or a slot's user; the flush sees every pool; empty pools leave; the
  traversal meets each live slot once.
* **Memory**: blocks do not overlap; the parts of a chunk are where they are
  looked for; a chunk and a slot lead back to their pool.
* **Scopes**: a scope retires once, empty, with nobody else inside; a scope with
  nothing left retires in the end.
* **Root**: it is freed by one thread, after `close`, when no scope is live and
  nobody is on the way out of an operation; and then it is freed in the end.
  One thread initialises it, nobody gets it half made, and its slot can be used
  again. Each object is destroyed by the destructors of its own type.

## 2. The modules

| module | models | lines |
|---|---|---|
| `SlotLife` | the slot's state, the handles of one slot, and the flush and the retirement of its scope as one slot sees them | `slot_.rs`, `index_.rs`, `teardown_.rs`, `inner_.rs`, `scope_.rs` |
| `AtomicWord` | abstract specification: what the slot's word promises its callers | `slot_.rs` |
| `SlotWord` | the word as it is implemented, with the lock bit, and the clients that use it; the strong count and its flags | `slot_.rs`, `chunk_.rs`, `index_.rs` |
| `WordOps` | the operations on the word as functions, shared by the two above | `slot_.rs` |
| `TreeLife` | abstract specification: what `root_.rs:17-35` promises of a tree of scopes | `root_.rs`, `scope_.rs` |
| `RootLife` | scopes and their root: handle word, users, write lock, leases, elections, finalization | `root_.rs`, `inner_.rs`, `scope_.rs`, `index_.rs` |
| `RootSlot` | the slot a root is published in, and the type table: initialisation, lookup, hooks and destructors, the end of a root | `root_.rs`, `inner_.rs`, `alloc_.rs`, `index_.rs` |
| `WeakChain` | the pools of one scope, their free lists, the chain and its traversal; the puts that wait, are cancelled or panic | `pool_.rs`, `inner_.rs`, `alloc_.rs`, `teardown_.rs`, `scope_.rs` |
| `ScopeMemory` | where things lie: strong pools, the layout of a chunk and the offsets of its parts, weak pools and their slots | `strong_/pool_.rs`, `strong_/chunk_.rs`, `weak_/pool_.rs`, `alloc_.rs` |
| `MC...` | symmetry sets for TLC, the shapes of `ScopeMemory` | |
| `SlotLifeProofs`, `SlotWordProofs`, `RootCountProofs`, `RootTreeProofs`, `RootSlotProofs`, `WeakChainProofs`, `ScopeMemoryProofs` | theorems about the module of the same name (RootCount and RootTree: about RootLife) | |
| `Lists` | lemmas about linked lists, walks along a rank and sorted sequences, for the last two | |

All but `ScopeMemory` are written alike. A thread is inside at most one
operation; `pc[t]` names the *next atomic access* of thread `t`; one action is
one access together with the thread-local code that follows it up to the next.
`Begin(t)` gathers the operations a user may call and `Continue(t)` the steps of
a call in progress (`WeakChain` lists its actions in `Next`). Definitions commented `Wrong:` are faulty variants of the
definition below them; no specification uses them, and each property has one
that it rejects.

### SlotLife

`dataState` and `weakCount` are the bits of the slot word, updated by the same
compare-and-swap in the code, hence together in `TryRelease`. `strongChunk` is
whether the slot points to a chunk, `chunkMemory` whether the chunk's pool is
still there: the two part when `flush_data_` clears the pointer or reclaims the
strong pools. `lender[v]` is the `Retain` a view borrows from; Rust's borrow
checker is the guard `Unborrowed(r)` of `DropRetain`. A leaked view
(`mem::forget`) has no lender.

The destruction (`ReadWeak` to `MarkDestroyed`) is shared by three callers as in
the code, and `AfterClaim` says where each goes on: the flush rereads the slot,
a view drop retries a delayed flush, the last `Retain` drop tries to return the
slot.

`handles` counts the handles of the scope. Every drop of one (`DropScope`,
`CloseScope`) tries the write lock and then runs what `try_flush_` runs: the flush
(`ScanSlot` to `ReclaimStrong`) if a close was requested, and always the retirement
after it (`ReadHandles` to `Unlock`). `closing` has the threads inside `Scope::close`,
which drops its handle after its own flush (`DropHandle`) and so tries twice. A thread
that returns a slot may have emptied the chain, and then goes to the retirement alone
(`SeeUnheld`, `TryRetire`). The other slots of the scope contribute nothing but whether
the chain is empty, which is left open; one slot is the case in which reclaiming is
easiest to get wrong. There are two places where the strong pools are given back:
`ReclaimStrong` by the flush, once all objects are dead, and `ReclaimRest` by the
retirement (`inner_.rs:336-342`), without any request to close, once there is no
handle and no slot in use. `OpenDestructorOnLiveChunk` and
`OpenViewDataIntact` are about the second; an object outlives the last handle of its scope.

`overtaken` is a history variable: a drop's exchange from Sharing to Created came
after somebody had joined (`index_.rs:211`). The promises about views hold
until this has happened (`ViewsKeptUntilOvertaken`), for any number
of threads that share; that it can happen is `SlotSharedByTwo` in section 5.
What an `Owning` view needs, one such view at most and its object intact
(`OwningIntact`), holds regardless.

Abstracted: the loop of load and exchange behind each access to the word, and
its lock bit (SlotWord has both); `users_` and what the retirement does to the scope's
registration, with the retired bit that a slot return looks at (RootLife has them; here a
retirement may be tried once more); what happens to the pool when a slot is returned
(WeakChain has it).

### SlotWord

SlotLife takes an access to the slot's word for one step. SlotWord shows that this
is right. `word` is the lock bit, the state and the count together. A call
(`call[t]`, one of `Ops`) loads the word into `cur[t]` (`Load`), and exchanges it if
it still has that value (`CasSucceeds`); an exchange that fails, also for no reason,
goes on from the value it returns (`CasFails`). `Applies` and `Effect` of `WordOps`
are the condition and the new word of each operation, `Answer` what it returns.
`reset_all` is a plain store (`Store`). An attempt to take the lock spins, and looks
at its cancellation token after each failure (`SeeToken`); `Cancel` sets the token
at any time.

The clients are those of `index_.rs`, `alloc_.rs` and the flush, reduced to the
calls they make: `at[t]` is the call the thread is in, `CallAt` the operation it
makes there, `Follow` where its answer leads. They are what
gives meaning to the plain store and to the count: a store is harmless only
because nobody else can have an exchange that succeeds at that point. `refc` is
the strong count with the two flag bits above it, incremented without a check.

`AtomicWord` is the same word with each call done in one step between its start
and its return. `ImplementsAtomic` needs no mapping beyond the names.

Abstracted: what the lock would guard. Nothing but tests takes it in this version
of the code (`slot_.rs:209`, `261`), so a guard is held for as long as it likes. That
it excludes is a promise to callers to come, which no run checks and `GuardIsExclusive` proves.

### RootLife

Per scope: `handles`, `closed`, `requested`, `retired` are the fields of the
handle word, `users` is `users_`, `writer` the write lock, `slots` the number of
slots in use, `chain` whether the weak chain is non-empty, `pinned` whether a
flush has pinned it, `strong` whether strong pools are allocated. The root is
`closing`, `elected`, `finalizing`, `liveScopes`, `inflight`, `active`, the
entity pool (`entities`, the scopes whose memory is there), `published` and
`rootAlive`. `held[s]` and `retains[s]` are handles in users' hands: starting a
drop takes one out of the hand, a borrow puts it back afterwards.

The drop of a handle is followed access by access: lease, users, handle count,
in-flight count, write lock, flush, retirement (`SeeHandles`, `SeeChain`,
`SeeUsers`, `MarkRetired`, `DecrLive`, `SeeClosing`, `ElectLast`), the way out
(`DecrUser`, `AnyElected` to `ElectSelf`) and finally `finalize_`, if the thread
was elected. The root's `close` spins on `inflight` (`LoopInflight`).

A scope may be created whenever the root is not closing, also between the count of
the last scope out (`DecrLive`) and the read of the closing flag (`SeeClosing`). The history
variable `early` records that a retiring thread was elected over a live scope
(`inner_.rs:357-362`), which is what then goes wrong (`RootElectsEarly`, section 5). Until it is
set, nothing is used after it was freed and every lease is granted
(`SafeUntilEarly`); the refinement of TreeLife allows any step once
it is set (`TreeStepsKept`). `Live` are the scopes created and not retired.

Abstracted: a dropped `Retain` always returns its slot (the leaks are
SlotLife's); objects of a destructor that drop handles of the same tree
(nested cascades) are left out; the lock of the entity pool makes `NewScope` and
`SetClosing` single steps; a read whose outcome can no longer change when the
next access is made is one step with it. `RootScope::close` is unsafe and its
contract has it called once: `closeCalled`.

### RootSlot

`slot` is the static pointer that a root is published in. `try_init_in` is
`LoadSlot` (a root that is there is returned, the sentinel makes it spin),
`CasSlot`, then `Allocate`, `MakeTable` and `Publish`, or `RollBack` when memory
fails. `get` and `close` spin in the same way. Each attempt takes a new root out
of `Roots`, so that a pointer to an old one shows. A scope and its objects are
`Objects`: a scope is an entity in the root's own pool. Storing one is `PlaceScope`
or `PlaceObject`, `Register` (the type's entry goes into the table if it is not
there) and `Create` (the slot becomes Created; from here on others can destroy
it). A destruction is `Claim`, `Lookup`, which copies the entry, `RunHook` and
`RunDrop`, which call what the *entry* says, not what the object is. The end is
`FlushEntity` and `FlushDone`, `DropTable`, `ClearSlot` and `FreeRoot`, in the order
of `finalize_`, while other threads initialise the next root.

`EntryOf` and `TypeId` are what `AnyTypeVTable::of` and `StrongChunk::type_id_` compute
from the types of data and hook: `destroyed[o]` records the calls, so a key
that left out the hook would show. Who finalises is decided in one step (`LastOf`);
RootLife is about that. The contract of `RootScope::close`, that nobody uses a
reference to the root any more, is its guard. The B+ tree behind the table is
external code and is a set here; `display` and `debug` of an entry are reserved
by the code and not used.

### WeakChain

A pool is its free list (`latestFree`, `nextFreed`), `live`, `pins`,
`retirePending`, `detached`, and its links. Locks are taken in the order scope,
chain, pool; taking and returning a slot each run under the chain lock from
beginning to end and are one step. Pinning and unpinning hold the chain lock but
go pool by pool, and the flush walks *without* the chain lock, so these are one
step per pool, with slots returned in between. A freed pool keeps its identity
and is never allocated again in a behaviour, so that a later access to it shows
as a violation of `PoolsOutliveUse`. The next pool is read before the slots of
the current one are visited (`Scan`), and the visiting thread may return slots
itself (a destructor's cascade).

A put looks at the closed flag (`StartPut`), then waits for the write lock
(`EnterPut`); the scope may be closed and flushed in between. It gives up when it
is cancelled or the lock is poisoned (`GiveUpPut`). A constructor that
panics (`Unwind`) leaves its slot taken for ever, recorded in `leaked`; the guard is
dropped while unwinding, which may poison the lock (it is external code:
`poisoned' \in BOOLEAN`), and then nobody flushes that scope again.

`LiveFrom` is `for_each_live_from_` as a function: from the last free slot
of the tail pool to the end, then all pools from the head, and the beginning of
the tail pool last. Only tests call it in this version (`pool_.rs:696`, by way of
`slot_.rs:365`); as nothing else runs then, it is a function of one state and not steps.

The comments of `deallocate` and `return_slot_` (`pool_.rs:363`, `382-383`) say that
giving back a slot that is not allocated is refused and not counted twice; the
code refuses it only when the index is out of range or the pool has no live slot
(`GiveBack`). No caller in the crate gives a slot back twice, as `FreeListExact`
shows, so the difference is never met.
`retire_pending_` is written by the code but decides nothing; it is modelled
because its writes are part of the operations, and so that a pool that is empty and
unpinned can be seen to leave the chain (`NoPoolLeaks`).

### ScopeMemory

Storing an object and reclaiming the strong pools both run under the scope's
write lock, opening and freeing a weak pool under the chain's, so the module is
sequential and a step is a whole call: `StoreInTail`, `StoreInNew`, `Refuse`,
`Reclaim`, `OpenWeakPool`, `FreeWeakPool`. What can be wrong is the
arithmetic. `pools[b]` is the header of the strong pool at address `b`, `head` and
`tail` are those of the scope, and `chunks` records for each object its address
and what its header says (`order`, `dat`, `flags`). A shape stands for the types `T`
and `P` of a put: whether `T` is unsized (metadata word), the layout of the hook
`P` and the layout of the data; `Value`, `Str` and `Slice` are the shapes the three
kinds of put ask for. `ChunkLayout` is `layout_with`; `Written` is where
`init_with` and the constructor write the parts, `ReadBack` where `meta_raw_`,
`predrop_` and `data_ptr` find them by the flags of the header; these are related only by
the properties. `PoolIndex` keeps its width (`AsIndex`).

A weak pool is a header rounded up to slots and `MaxCount` slots.
`SlotAt` is `slot_at_`; `OfSlot` and `IndexOf` are the two ways back, from a slot
to its pool.

The allocator is external: any address aligned to 8 whose block overlaps no
other, or a failure at any time (`Refuse`). A layout beyond `isize::MAX` is
refused like one beyond `MaxIndex`. Hook, metadata and data are places only; what
is stored in them, when an object dies, and which slots are taken are the
matter of the other modules.

## 3. The runs

| run | instance | distinct states | shows |
|---|---|---|---|
| `SlotRace` | `SlotLife`: 3 threads, 2 Retains, 2 views, 2 objects, 2 scope handles, `WeakMod` 4 | 1,530,555 | one destruction per object, no slot returned under a user, no revival; an Owning view is single and its object intact; views are exclusive and intact until a join is overtaken; while nobody has asked for a close, no memory goes under a view or a destructor, and once all have returned a slot without Retains is free, or kept by a leaked view |
| `WordRace` | `SlotWord`: 2 threads, counts modulo 4, up to 3 Retains and 2 strong counts, a chunk with a metadata flag | 369,440 | the loops over the word are atomic (`ImplementsAtomic`); no count is lost; the strong count keeps out of the flags |
| `RootRace` | `RootLife`: 3 threads, 1 scope with 2 handles and 1 slot, operations on the scope overlap | 399,081 | nothing is used after it is freed; a retired scope is quiet; leases are granted; one thread finalizes |
| `RootEnds` | `RootLife`, fair: 2 threads, 2 scopes, no overlap on one scope, scopes created at any time | 344,514 | live scopes are counted; until an early election nothing is used after it is freed and leases are granted; `TreeLife` is implemented, its fairness included; an abandoned root is freed |
| `RootPublished` | `RootSlot`, fair: 2 threads, 2 roots, 3 objects, 1 data type, with and without 1 hook | 323,754 | one thread initialises; a published root is complete; none is lost; each object is destroyed once by its own type's destructors; nobody spins for ever |
| `ChainRace` | `WeakChain`: 3 threads, 3 pools of 2 slots, 1 panicking constructor, 1 waiting put | 747,072 | pools outlive their users and walkers; the links, free lists and counts agree; the flush sees all pools; no empty pool stays; the traversal meets each live slot once |
| `PoolLayout` | `ScopeMemory`: 10 shapes, 6 addresses, `MaxIndex` 15, `PageSize` 48 | 72,024 | chunks and parts do not overlap; a part is found where it was written, and aligned; chunks and slots lead back to their pools; a fresh pool fits |

Five more runs are expected to fail; section 5 has them. `RootLife`, `WeakChain`
and `ScopeMemory` have their type invariants among the checked ones; those of
`SlotLife`, `SlotWord` and `RootSlot` are proved instead (section 4).

### Bounds, and why they are enough

* *Threads* 3 where there are three roles (last `Retain` drop, view drop, flush;
  two leavers and a closer; a walker and two that return slots), 2 where the
  race is between two.
* *Retains, Views* 2: one that survives while the other goes. `MaxObjects` 2: a
  slot is returned and used again, so a late access of the first life meets the
  second.
* `WeakMod` 4 lies above the 2 Retains, as 2^28 does in practice, so the wrap does not
  occur in these runs. With a smaller one (say 2, and 3 Retains) `NoUseAfterReturn` fails,
  since the code lets the count wrap silently (`slot_.rs:314`); the theorems name
  this as their one assumption (`RetainsFit`).
* `CountMod`, `StrongMod` 4 with `MaxRetains` 3 and `MaxStrong` 2: every carry
  inside the field happens, and the one that would leave it is one beyond the
  bound. The code does not check this bound either: it assumes that nobody holds
  2^28 Retains or 2^30 strong counts (`chunk_.rs:82-86`: 32 bits, two of them flags).
* `MaxHandles` 2, in SlotLife and RootLife, gives a clone that outlives its original, and
  two drops or a drop and a close at one time; `MaxSlots` 1 is both
  the first and the last slot of a scope, which are the only ones that change
  `chain`.
* `Overlap` FALSE keeps two operations off *the same scope* at one time; they
  still overlap on the root. It separates what the root promises from
  what a scope loses when two threads leave it at once (`RootForgotten`).
* `Roots` 2: a root is finalised while the next one is initialised, which is the
  only overlap the slot allows. `Objects` 3: two scopes and a user object, or one
  scope with two objects of different hooks.
* `Capacity` 2 and 3 pools: a pool that is full, half full and empty; a first, a
  middle and a last pool in the chain. `MaxPanics`, `MaxWaiting` 1: one slot lost
  to a panic, one put that meets a scope closed while it waited.
* `ScopeMemory`: word, cell and header sizes are those of the code, with
  addresses 8 to 32 for every offset of a pool within the largest alignment that
  fits (32), and room for three pools; `WeakHeader` 8 is
  no multiple of a slot, like the 56 bytes of a test build. `MaxIndex` 15 instead of 65535 lets
  the width be met: the shape aligned to 128 has a data offset of 16 words, which four
  bits cut to 0. It is refused, since a chunk is longer than its data offset and a
  pool has at most `MaxIndex` cells of a word each; for the same reason the code
  never stores a truncated offset. `PageSize` 48 is smaller than the largest shape
  needs, so that `CellCount` is decided by either side of its maximum.

Symmetry is used for safety only, in `SlotRace`, `RootRace`, `ChainRace` and three of the
failing runs; the runs with a liveness property have none.
`CHECK_DEADLOCK FALSE` is set for SlotLife, RootLife and WeakChain: these systems do
stop, when the scope has no handle and the slot is back, when the root is freed, and
when the chain is given up. In the other modules something can always be done, and
deadlock is checked.

### Fairness

A thread inside an operation is scheduled until it returns: `WF_vars(Continue(t))`
for each thread, in RootLife and RootSlot. This is the operating system's
scheduling and no more: nothing is assumed of what users begin. The spin in
`RootScope::close`, the waits of `finalize_` and the spin on the sentinel end because
the threads they wait for are scheduled. Strong
fairness would be needed for the awaited write lock, for the spin locks and for an
exchange that keeps failing, which
the code does not guarantee; there is no liveness property that rests on it, and
none of SlotLife, SlotWord, WeakChain or ScopeMemory. For SlotLife, what a user would
ask of liveness is asked of the states in which every call has returned (`OpenSlotIsFreed`).

## 4. What is proved

`SlotLifeProofs` holds for any finite sets of threads, Retains and views and any
number of objects:

* `TypeCorrect`, `DestroyedOnceHolds`, `NoUseAfterReturnHolds`, `NoRevivalHolds`,
  `OwningIntactHolds`;
* `ViewsKeptUntilOvertakenHolds`: the exchange at
  `index_.rs:211` is the *only* step that breaks what is promised of views. Any thread may
  share, join and leave at any time;
* `OpenViewDataIntactHolds`, `OpenDestructorOnLiveChunkHolds`,
  `OpenDestroyedExactlyOnceHolds`, `OpenSlotIsFreedHolds`: as long as nobody has
  asked for the close, however many handles are dropped, the object under a view in use
  is alive in its memory, overtaken or not; a destructor finds its memory; a
  destroyed object was destroyed exactly once; when everybody has returned, a slot without
  Retains is free, but for a leaked view.
  (`SlotFlushReclaims` and `SlotFlushLeaks` show what happens once the scope is closed. The
  destructor may then also be skipped: the flush clears the chunk pointer of a
  slot whose claimer has not read it yet, which is the same rereading of Destroying as
  dead.)

All from `RetainsFit` alone: fewer Retains than the weak count can hold. It is needed: see
`WeakMod` above.

The argument. `DestroyedOnce` is not inductive: the claim must be the only
way to a destruction, and a claim must find an object that was not destroyed.
`ClaimInv` says that whoever is past the claim is alone, and that an alive state
means no destruction yet. `NoUseAfterReturn` needs `DropInv`: the thread that took
the count to zero owns the slot until it returns, there is one such thread, and
no Retain is left. That in turn needs `CountInv`, weak count = number of Retains,
which is where `RetainsFit` enters, and `BorrowInv` (an upgrade or a view drop
borrows an existing Retain, so it cannot run beside the last drop). `StrongInv`
keeps the strong count from going below zero: it covers the Sharing views that
can still be dropped, but is larger when a joiner counts before its view
exists or a view was leaked. `LockInv` ties the write lock to the flush, and
`ViewInv` keeps the identities of views apart. `MemoryInv` is about the two places that
give the strong pools back: the flush has then seen this object dead, and a
dead object is never revived; the retirement has seen no handle, and then
no slot in use, and no object can come any more, since a put borrows a handle and handles
come from handles only. So the pools are there under whatever is alive. `OwningInv` ties the
Owning view to the state Owning, which nothing but its own drop ends; `SharingInv` ties
the Sharing views and the joins under way to the state Sharing, until a
join is overtaken. These make `IInv`. `OpenInv` adds that a thread stays with a dead object until
it has returned its slot, that it is the last dropper who destroys, and that the chunk
stays until the slot is returned; true only until the scope is closed, since the
retirement waits for the slot and the flush does not. `KeepInv` adds who is responsible for
an object that is not dead: its Owning view, the count of its Sharing views or a thread on its way to or
from it, and, without a Retain, a thread about to claim. With `ShareInv`, no more counts than
Sharing views, this leaves nothing for `OpenSlotIsFreed` but the leaked views.

`SlotWordProofs` proves `WordIsAtomic`, the refinement of AtomicWord, for any threads,
any width of the count and whatever the clients do. `CallFits` is the invariant: a
thread that is about to exchange has a value (`cur`) to which its operation applies,
so an exchange that succeeds is the atomic step, on the word as it is then; all
other steps of a loop change nothing that AtomicWord sees. `WordTypeCorrect` adds the
types of the clients. `GuardIsExclusive`, `WeakCountExact` and `StrongCountIsExact` say
what the word then holds, under SlotWord's assumption that both counts have room
(`MaxRetains` < `CountMod`, `MaxStrong` < `StrongMod`). Their difficulty is `reset_all`, which
stores without looking: it must meet a word that nobody uses. `AloneInv` says so: who puts
an object, until its first Retain is counted, and who gave the last Retain back are
alone, with nothing counted, as while the slot is free; by `LendingInv` a view or a
running operation, a holder of the lock among them, keeps a Retain, so there is none then;
and what was seen Destroyed stays so (`SawInv`). `RoomInv` keeps the increments under way
below the width, `StrongInv` likewise for the views that come.

`RootSlotProofs` holds for any threads, roots, objects, data types and
hooks. The slot tells who owns the root in it: the sentinel stands for the one
thread that sets a root up; a root that is not in the slot belongs to the thread
that makes or frees it (`MineInv`); the root in the slot belongs to its references
and scopes (`ScopeInv`), or, when it is closing and has no scope left, to the one
thread that finalises it. From this `OneThreadInitialises`, `PublishedRootIsReady` and
`NoRootIsLost`. `HomeInv` then says that whatever is alive is in the root
that the slot holds, since a user object keeps its scope and a scope keeps its root;
so the table still has its type when its destruction looks it up (`TableInv`), and
what it finds is the entry of that type, since the key is the type of data and
hook together; `CallInv` follows the calls. From these `DestroyedByOwnType` and
`RootTypeCorrect`.

`ScopeMemoryProofs` holds for every shape whose alignments are powers of two (what
Rust's `Layout` guarantees; `MemoryAssumption` says what is needed of it, that the smaller
of two alignments divides the larger), every page size, header and index width, and
every address the allocator may answer with. `MemInv` says that blocks are
apart, that a chunk lies in used cells of its pool, that its order counts the
cells before it and its data offset was not cut off. It gives `NoChunksOverlap`,
`NoPartsOverlap`, `OrderIsEnough` and `SlotsAreFound`. `PartsAreFound` needs the alignments: a
chunk starts at a multiple of its own alignment, which the alignments of its parts
divide, and so their offsets place them aligned; the offsets read back from the flags are the
same sums. `MemoryTypeCorrect` says that the walk from the tail back along `prev_` reaches
every pool: with the order in which the pools were opened as a rank (`ChainOrder`), what
lies behind a pool are the pools of lower rank (`ChainIsAll`). `OpenedPoolTakesIt` is the action
property `FreshPoolFits`: `layout.align - 1` bytes of padding are enough at whatever address
the pool lies, so `allocate_` never opens a pool and fails.

`WeakChainProofs` proves all invariants of WeakChain, for any threads, any finite
set of pools and any capacity. `ChainInv` is the inductive invariant, in two parts.
`BaseInv` is without order. `LockInv` says who holds the scope's and the chain's
lock, by where the threads are; `OwnInv` that a pool off the chain belongs to the one thread
about to free it, or waits on the flush's list; `ApartInv` that the slots of objects, of
unwound constructors and in threads' hands are apart and on attached pools; `SlotsInv` that the live
count of a pool is the number of these and its free list has exactly the others;
`LiveInv` that an empty pool on the chain is pinned and marked; `EndInv`, `FreshInv` and
`ResetInv` what is left at the end, before a pool is made and between flushes. The second part
says that the links agree with an order: *there are* ranks `rk` of the pools such that
`next_` leads to the next attached pool by rank (`Links`, `Ends`), the pinned pools are
those that the flush has passed on its first walk and has not passed on its last
(`PinsInv`), it has seen those of lower rank than where it stands (`WalkInv`), and the list of
pools to free has them in falling rank (`PendingInv`). Ranks say of a list of any length, in
first-order terms, what otherwise takes a walk along its links; a pool that is
pushed gets a rank above all others, one that is unlinked takes its rank along. A free list has
such ranks of its own (`ListAt`). From `ChainInv` follow `ChainTypeCorrect`, `NoPoolFreedInUse`,
`FlushMeetsEveryPool`, `EmptyPoolsGo`, and with `Lists`, `ChainStaysLinked`,
`NoSlotTwiceNorLost` and `TraversalIsComplete`. TLC had checked `BaseInv`, and `RankInv` for some
`rk`, over all states of `ChainRace` before the proof.

`Lists` has what these three and `MemoryTypeCorrect` need of a walk. The library's
induction theorems take an operator and cannot be used, so `SetInduction` is proved
for a *set* from the fact that a nonempty set of naturals has a least member; from it come
that a list in the order of ranks is walked through to its end, each member
once (`Nth`, `FreeNth`), and that a function defined by recursion along falling or
rising ranks exists, so that its equation may be used (`Chain`, `LastOf`, `FirstOf`,
`Before`, `LiveUntil`). What the traversal meets is a concatenation of three sorted
sequences; `SortedCycle` shows that it wraps around once.

`RootCountProofs` proves `RootFinalizedByOne` for any threads and scopes, with
overlapping operations and scopes created at any time, no assumption beyond the
constants' types. `FinalizerInv`: whoever finalizes has set the elected bit;
once set it is never cleared; so nobody is elected a second time, and the root is there
until the one who was elected frees it.

It also proves `CountersExact`, again without assumption: each counter of a
scope and of the root is the number of threads (and of handles or Retains held) that
may still decrease it. A step of a thread moves that thread in or out of a set, and
the counter with it (`CountMoves`); most of its length is the list of the steps that
move nobody.

`RootTreeProofs` has the rest of RootLife's safety, for any threads and scopes, with
scopes created at any time, and without an assumption: `RetiredIsQuietHolds`,
`LiveScopesCountedHolds` and `TreeTypeCorrect`, which hold always; `SafeUntilEarlyHolds`, which
says that the election over a live scope (`inner_.rs:357-362`) is
the only step after which anything is used that was freed, or a lease is refused; and `TreeIsKept`,
the safety part of TreeLife in the same sense: every step up to that one is a step
of the tree or a stutter (`TreeStepsKept`). `RootElectsEarly` shows what comes after it. `ScopeInv` says
what a retiring thread has seen one after the other and why it is still so at the end: no
handle comes from no handle, no slot without a handle or the write lock, and a thread inside
has one or the other until it is counted in `users_`. `CreatedInv` says that only a created scope
has slots or threads, `LiveInv` that the live count is the number of `Live` scopes. `EmptyInv` says
that whoever elects on the way out (`ElectSelf`, `LoopElect`) has seen the closing flag before a live count of
zero, after which no scope is created, and so that an elected root has no live scope; the
retiring thread sees them in the other order, so this holds `~early`. Then a
thread that asks for a lease would keep a scope that has retired (`Granted`), and a thread
still inside is on its way out and has a lease (`NoneInside`), for which the finalizer waits; `UseInv`
and `QuietInv` follow.

Checked by TLC only: the liveness properties `CallsReturn` and `RootIsFreed`, and that TreeLife frees its root in the end (liveness under fairness and
ENABLED are out of the prover's reach). Every invariant that a run checks and expects
to hold is a theorem too, but for `NoUseAfterFree` and `LeaseIsGranted` of `RootRace`: with its one
scope no election comes early, and with more the theorem is `SafeUntilEarlyHolds`. The theorems of
SlotLife and SlotWord have the counts fit their bits; none has any other assumption about how the
program is used.

## 5. Where the code and its comments disagree

Each of these is a run with the expected result *violation*; TLC's trace is
the shortest story of it. The details with the quoted comments are in
`PROJECT.json` under `findings`.

| run | property | what happens |
|---|---|---|
| `SlotSharedByTwo` | `ViewsExclusive` | `Sharing::drop` reaches zero, another thread joins, the first sets Created under it; `try_owning` then succeeds beside a Sharing view |
| `SlotFlushReclaims` | `DestructorOnLiveChunk` | the flush loses the claim, rereads Destroying as not alive, and the strong pools go under the running destructor |
| `SlotFlushLeaks` | `DeadSlotIsReturned` | the last Retain goes between the flush's claim and its `mark_destroyed`; nobody returns the slot |
| `RootForgotten` | `RootIsFreed` | two threads leave a scope at once and each gives way to the other |
| `RootElectsEarly` | `NoUseAfterFree` | a scope created while the last one retires is freed under its handle |

They come from the same habit: a condition is looked at, and acted on or given up
on, without looking again.

Other places where a text and the code differ, without a run, because nothing
observable depends on them in this version:

* `slot_.rs` describes `WeakSlotGuard` and the views as working under the slot's
  lock (758-770); `try_owning` and `try_sharing` do not take it, and nothing outside
  of tests does.
* `ScopeError::ClosedScope` (`scope_.rs:49-51`) is documented as an answer given only under
  the feature `strict-put-after-close`, without which the put succeeds; the code always
  refuses, and the feature (`Cargo.toml:14`) is named only in code that is commented out.
* `abs_.rs:50` places the metadata of an unsized value in the weak slot; it is in the
  chunk (`ScopeMemory`).
* `deallocate` and `return_slot_` (`pool_.rs:363`, `382`), see WeakChain above.
* `try_init_in` (`root_.rs:321`) is documented to answer `Err` with the existing root if the slot is
  *or ever was* initialised. After the finalisation the slot is null again, and the code
  initialises a new root in it (`RootPublished` does).
* `get` (`root_.rs:389`) is documented to answer `None` before *and during* the
  initialisation; the code spins while it lasts (`LoadSlot`), as the comment's next sentence
  has it. `CallsReturn` says that they do not spin for ever.

## 6. Not modelled, and what is left

Not modelled, with the reasons in `PROJECT.json`:

* traits and constants, the string helper, the demo and the tests: no state of
  their own. What the helper's view of a string needs of memory is the shape `Str`.
* `pre_drop_.rs`, the pipeline that the type table replaced: nothing calls it. Hooks
  themselves are user code; when they run and where they lie is modelled.
* a panic in a destructor: the code promises nothing of it, `mark_destroyed` is
  skipped and the slot stays in Destroying for good. A panic in a constructor is modelled.
* an allocator that unwinds instead of failing; page sizes beyond 512 KiB, where
  16 bit counts of cells would not do.
* the B+ tree behind the type table and the locks of `std`: external. The tree is a set, a
  lock is held or not, or poisoned.
* the width of the handle count: 2^61 clones of a scope stand behind `MaxHandles`.

What is left of the plan:

* a composition of `SlotLife` with `WeakChain`, several slots with several
  handles each: the two meet in the return of a slot, and their product is
  beyond what TLC checks in minutes. Each states what it takes from the
  other: one return per life of a slot here, any order of returns there;
* the liveness of a scope with the awaited write lock, which would need a fair lock.
