----------------------------- MODULE WeakChain -----------------------------
(***************************************************************************)
(* The weak pools of one scope: a doubly linked chain of pools, each an    *)
(* array of slots whose free ones form a list. Threads take slots for new  *)
(* objects, return those of dead ones, and walk the whole chain in the     *)
(* flush; an empty pool leaves the chain and is freed.                     *)
(*                                                                         *)
(* Locks are taken in the order scope, chain, pool. A put may wait for the *)
(* scope's lock, and may give that up. Taking and returning a slot are one *)
(* step each, under the chain lock; pinning and unpinning go pool by pool  *)
(* while they hold it; the flush walks, and pools are freed, without it.   *)
(* A pool keeps its identity when it is freed, so that an access to freed  *)
(* memory shows.                                                           *)
(***************************************************************************)
EXTENDS Integers, Sequences, FiniteSetsExt

CONSTANTS
    Threads, Pools,
    Capacity,   \* slots of one pool
    MaxPanics,  \* bound: how many constructors panic
    MaxWaiting, \* bound: how many puts wait for the lock at a time
    NoThread, NoPool

ASSUME ChainAssumption ==
    /\ NoThread \notin Threads /\ NoPool \notin Pools
    /\ IsFiniteSet(Pools)
    /\ Capacity \in Nat \ {0}
    /\ MaxPanics \in Nat /\ MaxWaiting \in Nat

Indices == 0 .. Capacity - 1

VARIABLES
    memory,                  \* of a pool: "unused", "allocated" or "freed"
    head, tail, prev, next,  \* the chain
    latestFree, nextFreed, live,    \* the slots of a pool
    pins, retirePending, detached,  \* its status
    closed,                  \* the scope takes no new objects
    writer, chainLock,       \* who holds the scope's and the chain's lock
    poisoned,                \* the scope's lock answers with an error
    used,                    \* the slots <<p, i>> of published objects
    leaked,                  \* the slots whose constructor panicked
    pc,
    pool, index,             \* the slot a thread takes or returns
    cursor,                  \* the pool a thread walks on to
    pending,                 \* the unlinked pools the flush has to free
    seen                     \* the pools this flush has walked

chainVars  == <<head, tail, prev, next>>
slotVars   == <<latestFree, nextFreed, live>>
statusVars == <<pins, retirePending, detached>>
lockVars   == <<writer, chainLock>>
scopeVars  == <<closed, poisoned, leaked>>
localVars  == <<pool, index, cursor>>
flushVars  == <<pending, seen>>
vars == <<memory, chainVars, slotVars, statusVars, lockVars, scopeVars, used,
          pc, localVars, flushVars>>

PutPcs   == {"wait", "takeSlot", "store", "rollback", "freeRolled"}
ReturnPcs == {"returnSlot", "freeReturned"}
FlushPcs == {"pinHead", "pin", "scanHead", "scan", "visit", "unpinHead",
             "unpin", "freePending"}
Pcs == {"idle", "unlock", "freeAll", "ended"}
         \cup PutPcs \cup ReturnPcs \cup FlushPcs

-----------------------------------------------------------------------------
(* A new pool has its slots on the free list, in order.                    *)
FreshList == [i \in Indices |-> i + 1]

Init ==
    /\ memory = [p \in Pools |-> "unused"]
    /\ head = NoPool /\ tail = NoPool
    /\ prev = [p \in Pools |-> NoPool] /\ next = [p \in Pools |-> NoPool]
    /\ latestFree = [p \in Pools |-> 0]
    /\ nextFreed = [p \in Pools |-> FreshList]
    /\ live = [p \in Pools |-> 0] /\ pins = [p \in Pools |-> 0]
    /\ retirePending = [p \in Pools |-> FALSE]
    /\ detached = [p \in Pools |-> FALSE]
    /\ writer = NoThread /\ chainLock = NoThread
    /\ closed = FALSE /\ poisoned = FALSE
    /\ used = {} /\ leaked = {}
    /\ pc = [t \in Threads |-> "idle"]
    /\ pool = [t \in Threads |-> NoPool] /\ index = [t \in Threads |-> 0]
    /\ cursor = [t \in Threads |-> NoPool]
    /\ pending = NoPool /\ seen = {}

Goto(t, label) == pc' = [pc EXCEPT ![t] = label]

(* t has no slot in hand any more.                                         *)
Forget(t) ==
    /\ pool' = [pool EXCEPT ![t] = NoPool]
    /\ index' = [index EXCEPT ![t] = 0]
    /\ UNCHANGED cursor

(* Wrong: takes a slot and leaves it on the list.                          *)
AllocateKeeps(p) ==
    /\ live' = [live EXCEPT ![p] = @ + 1]
    /\ UNCHANGED <<latestFree, nextFreed>>

(* WeakPool::allocate takes the first free slot.                           *)
Allocate(p) ==
    /\ latestFree' = [latestFree EXCEPT ![p] = nextFreed[p][@]]
    /\ live' = [live EXCEPT ![p] = @ + 1]
    /\ UNCHANGED nextFreed

(* WeakPool::deallocate and return_slot_ put a slot first on the free      *)
(* list, unless the pool has none to give back.                            *)
GiveBack(p, i) ==
    IF live[p] = 0
      THEN UNCHANGED slotVars
      ELSE /\ nextFreed' = [nextFreed EXCEPT ![p][i] = latestFree[p]]
           /\ latestFree' = [latestFree EXCEPT ![p] = i]
           /\ live' = [live EXCEPT ![p] = @ - 1]

(* Wrong: the tail may stay behind.                                        *)
UnlinkedKeepsTail(p, rest) ==
    /\ next' = [q \in Pools |-> CASE q = p       -> rest
                                 [] q = prev[p] -> next[p]
                                 [] OTHER       -> next[q]]
    /\ prev' = IF next[p] = NoPool THEN prev
                                   ELSE [prev EXCEPT ![next[p]] = prev[p]]
    /\ head' = IF prev[p] = NoPool THEN next[p] ELSE head
    /\ UNCHANGED tail

(* WeakChain::unlink_ takes p off the chain; its own next becomes rest.    *)
Unlinked(p, rest) ==
    /\ next' = [q \in Pools |-> CASE q = p       -> rest
                                 [] q = prev[p] -> next[p]
                                 [] OTHER       -> next[q]]
    /\ prev' = IF next[p] = NoPool THEN prev
                                   ELSE [prev EXCEPT ![next[p]] = prev[p]]
    /\ head' = IF prev[p] = NoPool THEN next[p] ELSE head
    /\ tail' = IF next[p] = NoPool THEN prev[p] ELSE tail

(* Wrong: the empty pool goes although it is pinned.                       *)
ReturnUnpinned(t, p, i, label, back) ==
    LET emptied == live[p] = 1 /\ ~detached[p] IN
    /\ chainLock = NoThread
    /\ GiveBack(p, i)
    /\ IF emptied
         THEN /\ detached' = [detached EXCEPT ![p] = TRUE]
              /\ Unlinked(p, next[p])
              /\ Goto(t, label) /\ UNCHANGED localVars
         ELSE UNCHANGED <<detached, chainVars>> /\ Goto(t, back) /\ Forget(t)
    /\ UNCHANGED <<memory, retirePending, pins, lockVars, used, flushVars,
                   scopeVars>>

(* Gives a slot back; the last one of a pool takes the pool off the chain, *)
(* or leaves that to the thread that has it pinned (try_mark_detached_).   *)
Return(t, p, i, label, back) ==
    LET emptied == live[p] = 1 /\ ~detached[p] IN
    /\ chainLock = NoThread
    /\ GiveBack(p, i)
    /\ IF emptied /\ pins[p] = 0
         THEN /\ detached' = [detached EXCEPT ![p] = TRUE]
              /\ retirePending' = [retirePending EXCEPT ![p] = FALSE]
              /\ Unlinked(p, next[p])
              /\ Goto(t, label) /\ UNCHANGED localVars
         ELSE /\ retirePending' = [retirePending EXCEPT ![p] = @ \/ emptied]
              /\ UNCHANGED <<detached, chainVars>>
              /\ Goto(t, back) /\ Forget(t)
    /\ UNCHANGED <<memory, pins, lockVars, used, flushVars, scopeVars>>

(* WeakPool::dealloc_. What the memory held is gone with it.               *)
Dealloc(p) ==
    /\ memory' = [memory EXCEPT ![p] = "freed"]
    /\ prev' = [prev EXCEPT ![p] = NoPool]
    /\ next' = [next EXCEPT ![p] = NoPool]
    /\ latestFree' = [latestFree EXCEPT ![p] = 0]
    /\ nextFreed' = [nextFreed EXCEPT ![p] = FreshList]
    /\ live' = [live EXCEPT ![p] = 0] /\ pins' = [pins EXCEPT ![p] = 0]
    /\ retirePending' = [retirePending EXCEPT ![p] = FALSE]
    /\ detached' = [detached EXCEPT ![p] = FALSE]
    /\ UNCHANGED <<head, tail>>

-----------------------------------------------------------------------------
(* Put and emplace: a scope that is not closed, then its write lock, which *)
(* the call waits for and may give up; then a slot of the tail pool, or of *)
(* a new pool when it is full; then the object, or the way back if there   *)
(* is no memory for it. Whether the scope is closed is not asked again.    *)
StartPut(t) ==
    /\ pc[t] = "idle" /\ ~closed
    /\ Cardinality({u \in Threads : pc[u] = "wait"}) < MaxWaiting
    /\ Goto(t, "wait")
    /\ UNCHANGED <<memory, chainVars, slotVars, statusVars, lockVars, used,
                   localVars, flushVars, scopeVars>>

EnterPut(t) ==
    /\ pc[t] = "wait" /\ writer = NoThread /\ ~poisoned
    /\ writer' = t
    /\ Goto(t, "takeSlot")
    /\ UNCHANGED <<memory, chainVars, slotVars, statusVars, chainLock, used,
                   localVars, flushVars, scopeVars>>

(* The token is cancelled or the lock answers with an error.               *)
GiveUpPut(t) ==
    /\ pc[t] = "wait"
    /\ Goto(t, "idle")
    /\ UNCHANGED <<memory, chainVars, slotVars, statusVars, lockVars, used,
                   localVars, flushVars, scopeVars>>

(* Scope::close, or the root's: the flag first, then a flush is tried.     *)
RequestClose(t) ==
    /\ pc[t] = "idle" /\ ~closed
    /\ closed' = TRUE
    /\ UNCHANGED <<memory, chainVars, slotVars, statusVars, lockVars, used, pc,
                   localVars, flushVars, poisoned, leaked>>

TailFull == IF tail = NoPool THEN TRUE ELSE live[tail] = Capacity

TakeSlot(t) ==
    /\ pc[t] = "takeSlot" /\ chainLock = NoThread
    /\ ~TailFull
    /\ Allocate(tail)
    /\ pool' = [pool EXCEPT ![t] = tail]
    /\ index' = [index EXCEPT ![t] = latestFree[tail]]
    /\ Goto(t, "store")
    /\ UNCHANGED <<memory, chainVars, statusVars, lockVars, used, cursor,
                   flushVars, scopeVars>>

OpenPool(t) ==
    /\ pc[t] = "takeSlot" /\ chainLock = NoThread
    /\ TailFull
    /\ \E p \in {q \in Pools : memory[q] = "unused"} :
         /\ memory' = [memory EXCEPT ![p] = "allocated"]
         /\ prev' = [prev EXCEPT ![p] = tail]
         /\ next' = IF tail = NoPool THEN next ELSE [next EXCEPT ![tail] = p]
         /\ head' = IF tail = NoPool THEN p ELSE head
         /\ tail' = p
         /\ Allocate(p)
         /\ pool' = [pool EXCEPT ![t] = p]
         /\ index' = [index EXCEPT ![t] = latestFree[p]]
    /\ Goto(t, "store")
    /\ UNCHANGED <<statusVars, lockVars, used, cursor, flushVars, scopeVars>>

(* No memory for a new pool.                                               *)
OpenFails(t) ==
    /\ pc[t] = "takeSlot" /\ chainLock = NoThread
    /\ TailFull
    /\ Goto(t, "unlock")
    /\ UNCHANGED <<memory, chainVars, slotVars, statusVars, lockVars, used,
                   localVars, flushVars, scopeVars>>

Store(t) ==
    /\ pc[t] = "store"
    /\ used' = used \cup {<<pool[t], index[t]>>}
    /\ Goto(t, "unlock")
    /\ UNCHANGED <<memory, chainVars, slotVars, statusVars, lockVars,
                   localVars, flushVars, scopeVars>>

StoreFails(t) ==
    /\ pc[t] = "store"
    /\ Goto(t, "rollback")
    /\ UNCHANGED <<memory, chainVars, slotVars, statusVars, lockVars, used,
                   localVars, flushVars, scopeVars>>

(* The constructor that emplace calls panics: nothing gives the slot back, *)
(* which looks free and is counted as live. The unwinding drops the guard  *)
(* of the scope's lock, which may remember the panic.                      *)
Unwind(t) ==
    /\ pc[t] = "store" /\ Cardinality(leaked) < MaxPanics
    /\ leaked' = leaked \cup {<<pool[t], index[t]>>}
    /\ poisoned' \in BOOLEAN
    /\ writer' = NoThread
    /\ Forget(t)
    /\ Goto(t, "idle")
    /\ UNCHANGED <<memory, chainVars, slotVars, statusVars, chainLock, used,
                   flushVars, closed>>

Rollback(t) ==
    pc[t] = "rollback" /\ Return(t, pool[t], index[t], "freeRolled", "unlock")

FreeRolled(t) ==
    /\ pc[t] = "freeRolled"
    /\ Dealloc(pool[t])
    /\ Goto(t, "unlock")
    /\ UNCHANGED <<lockVars, used, localVars, flushVars, scopeVars>>

Unlock(t) ==
    /\ pc[t] = "unlock"
    /\ writer' = NoThread
    /\ Forget(t)
    /\ pending' = NoPool /\ seen' = {}
    /\ Goto(t, "idle")
    /\ UNCHANGED <<memory, chainVars, slotVars, statusVars, chainLock, used,
                   scopeVars>>

-----------------------------------------------------------------------------
(* The last Retain of a dead object returns its slot; also from within the *)
(* destructor of another object, which the flush has called.               *)
StartReturn(t) ==
    /\ pc[t] \in {"idle", "visit"}
    /\ \E slot \in used :
         /\ used' = used \ {slot}
         /\ pool' = [pool EXCEPT ![t] = slot[1]]
         /\ index' = [index EXCEPT ![t] = slot[2]]
    /\ Goto(t, "returnSlot")
    /\ UNCHANGED <<memory, chainVars, slotVars, statusVars, lockVars, cursor,
                   flushVars, scopeVars>>

Back(t) == IF writer = t THEN "visit" ELSE "idle"

ReturnSlot(t) ==
    /\ pc[t] = "returnSlot"
    /\ Return(t, pool[t], index[t], "freeReturned", Back(t))

FreeReturned(t) ==
    /\ pc[t] = "freeReturned"
    /\ Dealloc(pool[t])
    /\ Goto(t, Back(t)) /\ Forget(t)
    /\ UNCHANGED <<lockVars, used, flushVars, scopeVars>>

-----------------------------------------------------------------------------
(* The flush of a closed scope, under its write lock if that is free: pin  *)
(* the chain, walk it, unpin it and free the pools that have become empty. *)
StartFlush(t) ==
    /\ pc[t] = "idle" /\ closed /\ writer = NoThread /\ ~poisoned
    /\ writer' = t
    /\ Goto(t, "pinHead")
    /\ UNCHANGED <<memory, chainVars, slotVars, statusVars, chainLock, used,
                   localVars, flushVars, scopeVars>>

(* A walk begins at p, with or without the chain lock, and lets go of the  *)
(* lock when it reaches the end.                                           *)
Walk(t, at, p, lock, label) ==
    /\ pc[t] = at /\ chainLock = NoThread
    /\ chainLock' = IF lock THEN t ELSE chainLock
    /\ cursor' = [cursor EXCEPT ![t] = p]
    /\ Goto(t, label)
    /\ UNCHANGED <<memory, chainVars, slotVars, statusVars, writer, used, pool,
                   index, flushVars, scopeVars>>

WalkEnds(t, at, label, first) ==
    /\ pc[t] = at /\ cursor[t] = NoPool
    /\ chainLock' = IF chainLock = t THEN NoThread ELSE chainLock
    /\ cursor' = [cursor EXCEPT ![t] = first]
    /\ Goto(t, label)
    /\ UNCHANGED <<memory, chainVars, slotVars, statusVars, writer, used, pool,
                   index, flushVars, scopeVars>>

(* Wrong: walks from the tail.                                             *)
ScanTail(t) == Walk(t, "scanHead", tail, FALSE, "scan")

(* Wrong: forgets the pools it has taken off the chain.                    *)
UnpinForgets(t) == WalkEnds(t, "unpin", "unlock", NoPool)

PinHead(t) == Walk(t, "pinHead", head, TRUE, "pin")
ScanHead(t) == Walk(t, "scanHead", head, FALSE, "scan")
UnpinHead(t) == Walk(t, "unpinHead", head, TRUE, "unpin")

PinEnds(t) == WalkEnds(t, "pin", "scanHead", NoPool)
ScanEnds(t) == WalkEnds(t, "scan", "unpinHead", NoPool)
UnpinEnds(t) == WalkEnds(t, "unpin", "freePending", pending)
FreeEnds(t) == WalkEnds(t, "freePending", "unlock", NoPool)

Advance(t) == cursor' = [cursor EXCEPT ![t] = next[cursor[t]]]

(* Wrong: pins the first pool only.                                        *)
PinFirst(t) ==
    /\ pc[t] = "pin" /\ cursor[t] # NoPool
    /\ pins' = [pins EXCEPT ![cursor[t]] = @ + 1]
    /\ cursor' = [cursor EXCEPT ![t] = NoPool]
    /\ UNCHANGED <<memory, chainVars, slotVars, retirePending, detached,
                   lockVars, used, pc, pool, index, flushVars, scopeVars>>

Pin(t) ==
    /\ pc[t] = "pin" /\ cursor[t] # NoPool
    /\ pins' = [pins EXCEPT ![cursor[t]] = @ + 1]
    /\ Advance(t)
    /\ UNCHANGED <<memory, chainVars, slotVars, retirePending, detached,
                   lockVars, used, pc, pool, index, flushVars, scopeVars>>

(* The next pool is read before the slots of this one are visited.         *)
Scan(t) ==
    /\ pc[t] = "scan" /\ cursor[t] # NoPool
    /\ seen' = seen \cup {cursor[t]}
    /\ Advance(t)
    /\ Goto(t, "visit")
    /\ UNCHANGED <<memory, chainVars, slotVars, statusVars, lockVars, used,
                   pool, index, pending, scopeVars>>

Visited(t) ==
    /\ pc[t] = "visit"
    /\ Goto(t, "scan")
    /\ UNCHANGED <<memory, chainVars, slotVars, statusVars, lockVars, used,
                   localVars, flushVars, scopeVars>>

(* unpin_ and try_claim_after_unpin_: an unpinned empty pool is taken off  *)
(* the chain and put on the list of those to free, through its own next.   *)
Unpin(t) ==
    LET p == cursor[t]
        free == pins[p] = 1 /\ ~detached[p] IN
    /\ pc[t] = "unpin" /\ p # NoPool
    /\ pins' = [pins EXCEPT ![p] = @ - 1]
    /\ retirePending' = [retirePending EXCEPT ![p] = @ /\ ~free]
    /\ IF free /\ live[p] = 0
         THEN /\ detached' = [detached EXCEPT ![p] = TRUE]
              /\ Unlinked(p, pending)
              /\ pending' = p
         ELSE UNCHANGED <<detached, chainVars, pending, scopeVars>>
    /\ Advance(t)
    /\ UNCHANGED <<memory, slotVars, lockVars, used, pc, pool, index, seen,
                   scopeVars>>

FreePending(t) ==
    /\ pc[t] \in {"freePending", "freeAll"} /\ cursor[t] # NoPool
    /\ Dealloc(cursor[t])
    /\ Advance(t)
    /\ UNCHANGED <<lockVars, used, pc, pool, index, flushVars, scopeVars>>

(* free_all_weak_pools_: at the very end, when nobody uses a slot any more *)
(* and nothing is put.                                                     *)
TakeAll(t) ==
    /\ \A u \in Threads : pc[u] = "idle"
    /\ closed
    /\ head' = NoPool /\ tail' = NoPool
    /\ cursor' = [cursor EXCEPT ![t] = head]
    /\ writer' = t /\ used' = {}
    /\ Goto(t, "freeAll")
    /\ UNCHANGED <<memory, prev, next, slotVars, statusVars, chainLock, pool,
                   index, flushVars, scopeVars>>

AllFreed(t) ==
    /\ pc[t] = "freeAll" /\ cursor[t] = NoPool
    /\ Goto(t, "ended")
    /\ UNCHANGED <<memory, chainVars, slotVars, statusVars, lockVars, used,
                   localVars, flushVars, scopeVars>>

-----------------------------------------------------------------------------
Allocated == {p \in Pools : memory[p] = "allocated"}
Attached  == {p \in Allocated : ~detached[p]}

(* The chain has not been taken down yet.                                  *)
InService == \A t \in Threads : pc[t] \notin {"freeAll", "ended"}

(* for_each_live_from_: from the last free slot of the tail to its end,    *)
(* then the pools before it, then what is left of the tail. A slot that is *)
(* taken looks free until its object is there.                             *)
IsFree(slot) ==
    /\ slot \notin used
    /\ \A t \in Threads :
          pc[t] = "returnSlot" => <<pool[t], index[t]>> # slot

LastOf[p \in Attached]  == IF next[p] = NoPool THEN p ELSE LastOf[next[p]]
FirstOf[p \in Attached] == IF prev[p] = NoPool THEN p ELSE FirstOf[prev[p]]

LastFree(p) == LET free == {i \in Indices : IsFree(<<p, i>>)}
               IN  IF free = {} THEN 0 ELSE Max(free)

(* The live slots of p that come before each index.                        *)
LiveSince(p, from, i, met) ==
    IF i = from THEN <<>>
    ELSE IF IsFree(<<p, i - 1>>) THEN met[i - 1]
    ELSE Append(met[i - 1], <<p, i - 1>>)

(* Wrong: the range includes its end.                                      *)
LiveThrough(p, from, to) ==
    LET met[i \in from .. to + 1] == LiveSince(p, from, i, met)
    IN  met[to + 1]

LiveRange(p, from, to) ==
    LET met[i \in from .. to] == LiveSince(p, from, i, met)
    IN  met[to]

LiveUntil(last) ==
    LET met[p \in Attached] ==
            IF p = last THEN <<>> ELSE LiveRange(p, 0, Capacity) \o met[next[p]]
    IN  met

LiveFrom(any) ==
    LET last == LastOf[any]
    IN  LiveRange(last, LastFree(last), Capacity)
          \o LiveUntil(last)[FirstOf[any]]
          \o LiveRange(last, 0, LastFree(last))

-----------------------------------------------------------------------------
Next ==
    \E t \in Threads :
        \/ StartPut(t) \/ EnterPut(t) \/ GiveUpPut(t) \/ RequestClose(t)
        \/ Unwind(t) \/ TakeSlot(t) \/ OpenPool(t) \/ OpenFails(t)
        \/ Store(t) \/ StoreFails(t) \/ Rollback(t) \/ FreeRolled(t)
        \/ Unlock(t) \/ StartReturn(t) \/ ReturnSlot(t) \/ FreeReturned(t)
        \/ StartFlush(t) \/ PinHead(t) \/ Pin(t) \/ PinEnds(t)
        \/ ScanHead(t) \/ Scan(t) \/ Visited(t) \/ ScanEnds(t)
        \/ UnpinHead(t) \/ Unpin(t) \/ UnpinEnds(t) \/ FreePending(t)
        \/ FreeEnds(t) \/ TakeAll(t) \/ AllFreed(t)

Spec == Init /\ [][Next]_vars

-----------------------------------------------------------------------------
(* Every variable has the type that the code gives it.                     *)
TypeOK ==
    /\ memory \in [Pools -> {"unused", "allocated", "freed"}]
    /\ {head, tail, pending} \subseteq Pools \cup {NoPool}
    /\ prev \in [Pools -> Pools \cup {NoPool}]
    /\ next \in [Pools -> Pools \cup {NoPool}]
    /\ latestFree \in [Pools -> 0 .. Capacity]
    /\ nextFreed \in [Pools -> [Indices -> 0 .. Capacity]]
    /\ live \in [Pools -> 0 .. Capacity] /\ pins \in [Pools -> Nat]
    /\ retirePending \in [Pools -> BOOLEAN] /\ detached \in [Pools -> BOOLEAN]
    /\ {writer, chainLock} \subseteq Threads \cup {NoThread}
    /\ used \subseteq Pools \X Indices
    /\ leaked \subseteq Pools \X Indices
    /\ closed \in BOOLEAN /\ poisoned \in BOOLEAN
    /\ pc \in [Threads -> Pcs]
    /\ pool \in [Threads -> Pools \cup {NoPool}]
    /\ index \in [Threads -> Indices]
    /\ cursor \in [Threads -> Pools \cup {NoPool}]
    /\ seen \subseteq Pools

(* The pools that the next step of t touches.                              *)
Touched(t) ==
    CASE pc[t] \in (PutPcs \ {"wait", "takeSlot"}) \cup ReturnPcs -> {pool[t]}
      [] pc[t] = "visit" -> seen
      [] OTHER -> {cursor[t]} \ {NoPool}

(* No pool is freed while a thread walks it, works on one of its slots or  *)
(* is about to free it, nor under an object that uses a slot of it.        *)
PoolsOutliveUse ==
    /\ \A t \in Threads : Touched(t) \subseteq Allocated
    /\ \A slot \in used : slot[1] \in Allocated
    /\ {head, tail} \subseteq Allocated \cup {NoPool}

(* The chain is a doubly linked list of exactly the attached pools.        *)
Nth[n \in Nat] ==
    IF n = 0 THEN head
             ELSE LET p == Nth[n - 1]
                  IN  IF p = NoPool THEN NoPool ELSE next[p]

ChainLinked ==
    InService =>
        /\ Attached = {Nth[n] : n \in 0 .. Cardinality(Pools)} \ {NoPool}
        /\ (head = NoPool) = (tail = NoPool)
        /\ \A p \in Attached : /\ (next[p] = NoPool) = (p = tail)
                               /\ (prev[p] = NoPool) = (p = head)
                               /\ next[p] # NoPool => prev[next[p]] = p

(* A slot is on the free list of its pool or with one user, never both,    *)
(* and the live count is the number of the others: no slot is given to two *)
(* objects, and none is lost but to a constructor that panicked.           *)
Holders == {t \in Threads : pc[t] \in {"store", "rollback", "returnSlot"}}
Held(t) == <<pool[t], index[t]>>

InUse(p) == {slot[2] : slot \in {slot \in used \cup leaked : slot[1] = p}}
              \cup {index[t] : t \in {u \in Holders : pool[u] = p}}

FreeNth(p) ==
    LET nth[n \in Nat] == IF n = 0 THEN latestFree[p] ELSE nextFreed[p][nth[n - 1]]
    IN  nth

FreeListExact ==
    InService =>
        /\ \A p \in Allocated :
             LET free  == Capacity - live[p]
                 inUse == InUse(p)
             IN  /\ {FreeNth(p)[n] : n \in 0 .. free - 1} = Indices \ inUse
                 /\ Cardinality(inUse) = live[p]
                 /\ FreeNth(p)[free] = Capacity
        /\ \A t, u \in Holders : t # u => Held(t) # Held(u)
        /\ \A t \in Holders : Held(t) \notin used

(* The flush walks every pool of the chain, whatever slots are returned    *)
(* meanwhile.                                                              *)
FlushWalksAll ==
    \A t \in Threads : pc[t] = "unpinHead" => seen = Attached

(* A pool that has become empty stays on the chain only while it is        *)
(* pinned, and is marked for the thread that unpins it; so when nobody is  *)
(* inside an operation and no slot is used, no pool is left but those of a *)
(* constructor that panicked, and at the end not even these.               *)
NoPoolLeaks ==
    /\ InService => \A p \in Attached :
          live[p] = 0 => pins[p] > 0 /\ retirePending[p]
    /\ (\A t \in Threads : pc[t] \in {"idle", "wait", "ended"}) /\ used = {}
          => Allocated = IF InService THEN {slot[1] : slot \in leaked} ELSE {}

(* From whichever pool it starts, the traversal meets every live slot once,*)
(* in the order of the pools and their slots, but for the one place where  *)
(* it wraps around (pool_.rs:669, the "relative order of construction").   *)
Before[p \in Attached] == IF prev[p] = NoPool THEN 0 ELSE 1 + Before[prev[p]]

TraversalMeetsAll ==
    InService /\ chainLock = NoThread => \A p \in Attached :
        LET met  == LiveFrom(p)
            rank == [k \in DOMAIN met |-> Before[met[k][1]] * Capacity + met[k][2]]
        IN  /\ {met[k] : k \in DOMAIN met}
                  = {slot \in Attached \X Indices : ~IsFree(slot)}
            /\ Cardinality({k \in DOMAIN met :
                               rank[k] >= rank[(k % Len(met)) + 1]}) <= 1
=============================================================================
