-------------------------- MODULE WeakChainProofs --------------------------
(***************************************************************************)
(* The chain of weak pools, for any number of threads and pools and any    *)
(* capacity: no pool is freed under a walker, a user or an object, no slot *)
(* is given twice or lost, the chain stays linked, the flush walks every   *)
(* pool, no empty pool stays behind, and a traversal meets every live slot *)
(* once.                                                                   *)
(***************************************************************************)
EXTENDS WeakChain, Lists

(* The parts of the type invariant.                                        *)
PoolTypes ==
    /\ memory \in [Pools -> {"unused", "allocated", "freed"}]
    /\ head \in Pools \cup {NoPool} /\ tail \in Pools \cup {NoPool}
    /\ pending \in Pools \cup {NoPool}
    /\ prev \in [Pools -> Pools \cup {NoPool}]
    /\ next \in [Pools -> Pools \cup {NoPool}]
    /\ pins \in [Pools -> Nat]
    /\ retirePending \in [Pools -> BOOLEAN] /\ detached \in [Pools -> BOOLEAN]
ListTypes ==
    /\ latestFree \in [Pools -> 0 .. Capacity]
    /\ nextFreed \in [Pools -> [Indices -> 0 .. Capacity]]
    /\ live \in [Pools -> 0 .. Capacity]
ThreadTypes ==
    /\ pc \in [Threads -> Pcs]
    /\ pool \in [Threads -> Pools \cup {NoPool}]
    /\ index \in [Threads -> Indices]
    /\ cursor \in [Threads -> Pools \cup {NoPool}]
ScopeTypes ==
    /\ writer \in Threads \cup {NoThread} /\ chainLock \in Threads \cup {NoThread}
    /\ used \subseteq Pools \X Indices /\ leaked \subseteq Pools \X Indices
    /\ closed \in BOOLEAN /\ poisoned \in BOOLEAN
    /\ seen \subseteq Pools
Types == PoolTypes /\ ListTypes /\ ThreadTypes /\ ScopeTypes

(* Who holds the scope's lock and the chain's lock, by the place.          *)
OwnPcs == {"takeSlot", "store", "rollback", "freeRolled", "unlock", "freeAll",
           "ended"} \cup FlushPcs
ScanPcs == {"scan", "visit"} \cup ReturnPcs
LockInv ==
    \A t \in Threads : /\ pc[t] \in OwnPcs => writer = t
                       /\ pc[t] \in {"idle", "wait"} => writer # t
                       /\ chainLock = t <=> pc[t] \in {"pin", "unpin"}

(* A pool off the chain belongs to the thread that is about to free it, or *)
(* is on the flush's list of those to free.                                *)
Owners   == {t \in Threads : pc[t] \in {"freeRolled", "freeReturned"}}
Detached == {p \in Allocated : detached[p]}
Pending  == {p \in Detached : \A t \in Owners : pool[t] # p}
OwnInv ==
    /\ \A t \in Owners : pool[t] \in Detached
    /\ \A t, u \in Owners : pool[t] = pool[u] => t = u

(* When the chain is taken down, nobody else is there.                     *)
EndInv ==
    \A t \in Threads : pc[t] \in {"freeAll", "ended"} =>
        /\ closed /\ used = {} /\ head = NoPool /\ tail = NoPool /\ Detached = {}
        /\ \A u \in Threads \ {t} : pc[u] = "idle"

FreshInv ==
    \A p \in Pools : memory[p] = "unused" =>
        /\ latestFree[p] = 0 /\ nextFreed[p] = FreshList
        /\ live[p] = 0 /\ pins[p] = 0 /\ ~retirePending[p] /\ ~detached[p]
        /\ prev[p] = NoPool /\ next[p] = NoPool

(* What a flush leaves behind when it ends.                                *)
ResetInv ==
    /\ seen # {} => \E t \in Threads : /\ writer = t
          /\ pc[t] \in ScanPcs \cup {"unpinHead", "unpin", "freePending", "unlock"}
    /\ pending # NoPool =>
          \E t \in Threads : pc[t] \in {"unpin", "freePending", "unlock"}

(* The slots that are not free: of objects, of panicked constructors and   *)
(* in a thread's hands. No two of these are the same.                      *)
Taken     == used \cup leaked \cup {Held(t) : t \in Holders}
Busy(p)   == {i \in Indices : <<p, i>> \in Taken}
Unused(p) == {i \in Indices : <<p, i>> \notin Taken}
ApartInv == InService =>
    /\ used \cap leaked = {}
    /\ \A t \in Holders : Held(t) \notin used \cup leaked
    /\ \A t, u \in Holders : Held(t) = Held(u) => t = u
    /\ \A slot \in Taken : slot \in Attached \X Indices

(* The free list has the unused slots in the order of their ranks r.       *)
ListAt(p, r) ==
    /\ \A i, j \in Unused(p) : r[i] = r[j] => i = j
    /\ latestFree[p] \in Unused(p) \cup {Capacity}
    /\ latestFree[p] = Capacity => Unused(p) = {}
    /\ latestFree[p] # Capacity => \A i \in Unused(p) : r[latestFree[p]] <= r[i]
    /\ \A i \in Unused(p) :
         \/ nextFreed[p][i] = Capacity /\ \A j \in Unused(p) : r[j] <= r[i]
         \/ /\ nextFreed[p][i] \in Unused(p) /\ r[i] < r[nextFreed[p][i]]
            /\ \A j \in Unused(p) : r[j] <= r[i] \/ r[j] >= r[nextFreed[p][i]]
SlotsAt(p) == /\ live[p] = Cardinality(Busy(p))
              /\ \E r \in [Indices -> Int] : ListAt(p, r)
SlotsInv == InService => \A p \in Allocated : SlotsAt(p)

(* An empty pool stays on the chain only while it is pinned.               *)
LiveInv == InService => \A p \in Attached :
    live[p] = 0 => pins[p] > 0 /\ retirePending[p]

(* The chain has the attached pools in the order of their ranks rk.        *)
Links(rk) ==
    /\ \A p, q \in Attached : rk[p] = rk[q] => p = q
    /\ \A p \in Attached :
         \/ next[p] = NoPool /\ \A q \in Attached : rk[q] <= rk[p]
         \/ /\ next[p] \in Attached /\ rk[p] < rk[next[p]]
            /\ \A q \in Attached : rk[q] <= rk[p] \/ rk[q] >= rk[next[p]]
Ends(rk) == InService =>
    /\ head = NoPool <=> Attached = {}
    /\ tail = NoPool <=> Attached = {}
    /\ Attached # {} => /\ head \in Attached /\ tail \in Attached
                        /\ \A p \in Attached : rk[head] <= rk[p] /\ rk[p] <= rk[tail]
    /\ \A p \in Attached : /\ prev[p] = NoPool <=> p = head
                           /\ prev[p] # NoPool => /\ prev[p] \in Attached
                                                  /\ next[prev[p]] = p
                           /\ next[p] # NoPool => prev[next[p]] = p

(* The pools before the one at which a walk has arrived; all, at its end.  *)
Passed(rk, c) == {p \in Attached : c = NoPool \/ rk[p] < rk[c]}

(* The flush has pinned what it has passed, then all, then what it has not *)
(* passed yet on its way to unpin.                                         *)
PinnedBy(rk, t, p) ==
    \/ pc[t] = "pin" /\ p \in Passed(rk, cursor[t])
    \/ pc[t] \in ScanPcs \cup {"scanHead", "unpinHead"} /\ writer = t
    \/ pc[t] = "unpin" /\ p \notin Passed(rk, cursor[t])
PinsInv(rk) == InService => \A p \in Attached :
    /\ pins[p] \in {0, 1}
    /\ pins[p] = 1 <=> \E t \in Threads : PinnedBy(rk, t, p)

WalkInv(rk) == \A t \in Threads :
    /\ cursor[t] # NoPool =>
         \/ /\ pc[t] \in ScanPcs \cup {"pin", "unpin"} /\ writer = t
            /\ cursor[t] \in Attached
         \/ pc[t] = "freePending" /\ cursor[t] \in Pending
         \/ pc[t] = "freeAll" /\ cursor[t] \in Attached
    /\ pc[t] \in ScanPcs /\ writer = t => seen = Passed(rk, cursor[t])
    /\ pc[t] = "unpinHead" => seen = Attached
    /\ pc[t] = "freeAll" => /\ cursor[t] = NoPool => Attached = {}
                            /\ \A p \in Attached : rk[cursor[t]] <= rk[p]
    /\ pc[t] = "ended" => Attached = {}

(* The pools to free are linked the other way round.                       *)
PendingInv(rk) ==
    /\ \A p, q \in Pending : rk[p] = rk[q] => p = q
    /\ \A p \in Pending :
         \/ next[p] = NoPool /\ \A q \in Pending : rk[q] >= rk[p]
         \/ /\ next[p] \in Pending /\ rk[next[p]] < rk[p]
            /\ \A q \in Pending : rk[q] >= rk[p] \/ rk[q] <= rk[next[p]]
    /\ Pending # {} => \E t \in Threads : pc[t] \in {"unpin", "freePending"}
    /\ \A t \in Threads :
         /\ pc[t] = "unpin" =>
              /\ pending = NoPool => Pending = {}
              /\ pending # NoPool => pending \in Pending
              /\ \A q \in Pending : /\ rk[q] <= rk[pending]
                                    /\ cursor[t] # NoPool => rk[q] < rk[cursor[t]]
         /\ pc[t] = "freePending" =>
              /\ cursor[t] = NoPool => Pending = {}
              /\ \A q \in Pending : rk[q] <= rk[cursor[t]]

BaseInv == /\ Types /\ LockInv /\ OwnInv /\ EndInv /\ FreshInv /\ ResetInv
           /\ ApartInv /\ SlotsInv /\ LiveInv
RankInv(rk) == Links(rk) /\ Ends(rk) /\ PinsInv(rk) /\ WalkInv(rk) /\ PendingInv(rk)
ChainInv == BaseInv /\ \E rk \in [Pools -> Int] : RankInv(rk)

USE ChainAssumption
    DEF Indices, PutPcs, ReturnPcs, FlushPcs, Pcs, OwnPcs, ScanPcs, chainVars,
        slotVars, statusVars, lockVars, scopeVars, localVars, flushVars
-----------------------------------------------------------------------------
(* The steps by what they change of the pools.                             *)
Calm(t) ==
    \/ StartPut(t) \/ EnterPut(t) \/ GiveUpPut(t) \/ RequestClose(t)
    \/ Unwind(t) \/ OpenFails(t) \/ Store(t) \/ StoreFails(t) \/ Unlock(t)
    \/ StartReturn(t) \/ StartFlush(t) \/ PinHead(t) \/ PinEnds(t)
    \/ ScanHead(t) \/ Scan(t) \/ Visited(t) \/ ScanEnds(t) \/ UnpinHead(t)
    \/ UnpinEnds(t) \/ FreeEnds(t) \/ AllFreed(t)
Frees(t) == FreeRolled(t) \/ FreeReturned(t) \/ FreePending(t)
Returns(t) == Rollback(t) \/ ReturnSlot(t)
Step(t) == Calm(t) \/ TakeSlot(t) \/ OpenPool(t) \/ Returns(t) \/ Pin(t) \/ Unpin(t)
             \/ Frees(t) \/ TakeAll(t)

(* Every step is one of these.                                             *)
LEMMA NextIsStep == Next => \E t \in Threads : Step(t)
  BY DEF Next, Step, Calm, Frees, Returns

(* A calm step changes no pool and no link.                                *)
LEMMA CalmLeaves ==
  ASSUME NEW t \in Threads, Calm(t)
  PROVE  UNCHANGED <<memory, chainVars, slotVars, statusVars>>
  BY DEF Calm, StartPut, EnterPut, GiveUpPut, RequestClose, Unwind, OpenFails,
     Store, StoreFails, Unlock, StartReturn, StartFlush, PinHead, PinEnds,
     ScanHead, Scan, Visited, ScanEnds, UnpinHead, UnpinEnds, FreeEnds, AllFreed,
     Walk, WalkEnds

(* The locks stay where the places of the threads say.                     *)
LEMMA LockKeeps ==
  ASSUME LockInv, ThreadTypes, NEW t \in Threads, Step(t)
  PROVE  LockInv'
  <1>1. CASE Calm(t)
    BY <1>1 DEF LockInv, ThreadTypes, Goto, Calm, StartPut, EnterPut, GiveUpPut, RequestClose,
       Unwind, OpenFails, Store, StoreFails, Unlock, StartReturn, StartFlush,
       PinHead, PinEnds, ScanHead, Scan, Visited, ScanEnds, UnpinHead, UnpinEnds,
       FreeEnds, AllFreed, Walk, WalkEnds, Forget
  <1>2. CASE TakeSlot(t) \/ OpenPool(t) \/ Pin(t) \/ Unpin(t)
    BY <1>2 DEF LockInv, ThreadTypes, Goto, TakeSlot, OpenPool, Pin, Unpin
  <1>3. CASE Returns(t) \/ Frees(t)
    BY <1>3 DEF LockInv, ThreadTypes, Goto, Returns, Frees, Rollback, ReturnSlot, Return,
       FreeRolled, FreeReturned, FreePending, Back
  <1>4. CASE TakeAll(t)
    BY <1>4 DEF LockInv, ThreadTypes, Goto, TakeAll
  <1> QED
    BY <1>1, <1>2, <1>3, <1>4 DEF Step

(* Only one thread holds the scope's lock, one the chain's lock.           *)
LEMMA OneFlush ==
  ASSUME LockInv, NEW t \in Threads, NEW u \in Threads, pc[t] \in OwnPcs, pc[u] \in OwnPcs
  PROVE  t = u
  BY DEF LockInv

(* A step of t is a step of no other thread.                               *)
Others(t) == \A u \in Threads \ {t} :
    /\ pc'[u] = pc[u] /\ pool'[u] = pool[u] /\ index'[u] = index[u]
    /\ cursor'[u] = cursor[u]
    /\ writer' = u <=> writer = u

(* So no step moves another thread, or takes a lock from it.               *)
LEMMA OthersStay ==
  ASSUME LockInv, EndInv, ThreadTypes, NEW t \in Threads, Step(t)
  PROVE  Others(t)
  <1>1. CASE Calm(t)
    BY <1>1 DEF LockInv, ThreadTypes, Others, Goto, Calm, StartPut, EnterPut, GiveUpPut,
       RequestClose, Unwind, OpenFails, Store, StoreFails, Unlock, StartReturn,
       StartFlush, PinHead, PinEnds, ScanHead, Scan, Visited, ScanEnds, UnpinHead,
       UnpinEnds, FreeEnds, AllFreed, Walk, WalkEnds, Forget, Advance
  <1>2. CASE TakeSlot(t) \/ OpenPool(t) \/ Pin(t) \/ Unpin(t)
    BY <1>2 DEF ThreadTypes, Others, Goto, TakeSlot, OpenPool, Pin, Unpin, Advance
  <1>3. CASE Returns(t) \/ Frees(t)
    BY <1>3 DEF ThreadTypes, Others, Goto, Returns, Frees, Rollback, ReturnSlot, Return,
       FreeRolled, FreeReturned, FreePending, Forget, Advance
  <1>4. CASE TakeAll(t)
    BY <1>4 DEF LockInv, ThreadTypes, Others, Goto, TakeAll
  <1> QED
    BY <1>1, <1>2, <1>3, <1>4 DEF Step

(* A thread that holds a slot, and where: in service, of an attached pool. *)
LEMMA HolderFacts ==
  ASSUME BaseInv, NEW t \in Threads, pc[t] \in {"store", "rollback", "returnSlot"}
  PROVE  /\ InService /\ t \in Holders /\ Held(t) \in Taken
         /\ pool[t] \in Attached /\ index[t] \in Busy(pool[t])
         /\ live[pool[t]] >= 1
  <1>1. InService
    BY DEF BaseInv, EndInv, InService
  <1>2. t \in Holders /\ Held(t) \in Taken
    BY DEF Holders, Taken
  <1>3. Held(t) \in Attached \X Indices
    BY <1>1, <1>2 DEF BaseInv, ApartInv
  <1>4. pool[t] \in Attached /\ index[t] \in Busy(pool[t])
    BY <1>2, <1>3 DEF Held, Busy
  <1>5. live[pool[t]] = Cardinality(Busy(pool[t]))
    BY <1>1, <1>4 DEF BaseInv, SlotsInv, SlotsAt, Attached
  <1>6. IsFiniteSet(Busy(pool[t])) /\ Busy(pool[t]) # {}
    <2>1. IsFiniteSet(Indices) /\ Busy(pool[t]) \subseteq Indices
      BY FS_Interval DEF Busy
    <2> QED
      BY <1>4, <2>1, FS_Subset
  <1> QED
    BY <1>1, <1>2, <1>4, <1>5, <1>6, FS_EmptySet, FS_CardinalityType

-----------------------------------------------------------------------------
(* The steps that leave the pools alone.                                   *)
LEMMA CalmSets ==
  ASSUME BaseInv, NEW t \in Threads, Calm(t)
  PROVE  /\ Allocated' = Allocated /\ Attached' = Attached /\ Detached' = Detached
         /\ Owners' = Owners /\ \A u \in Owners : pool'[u] = pool[u]
         /\ Pending' = Pending
         /\ InService' <=> InService
  <1>1. UNCHANGED <<memory, detached>>
    BY CalmLeaves
  <1>2. Allocated' = Allocated /\ Attached' = Attached /\ Detached' = Detached
    BY <1>1 DEF Allocated, Attached, Detached
  <1>3. pc[t] \notin {"freeRolled", "freeReturned"} /\ pc'[t] \notin {"freeRolled", "freeReturned"}
        /\ (pc'[t] \in {"freeAll", "ended"} <=> pc[t] \in {"freeAll", "ended"})
    BY DEF BaseInv, Types, ThreadTypes, Goto, Calm, StartPut, EnterPut, GiveUpPut,
       RequestClose, Unwind, OpenFails, Store, StoreFails, Unlock, StartReturn,
       StartFlush, PinHead, PinEnds, ScanHead, Scan, Visited, ScanEnds, UnpinHead,
       UnpinEnds, FreeEnds, AllFreed, Walk, WalkEnds
  <1>4. Others(t)
    BY OthersStay DEF BaseInv, Types, Step
  <1>5. Owners' = Owners /\ \A u \in Owners : pool'[u] = pool[u]
    BY <1>3, <1>4 DEF Owners, Others
  <1>6. Pending' = Pending
    BY <1>2, <1>5 DEF Pending
  <1>7. InService' <=> InService
    BY <1>3, <1>4 DEF InService, Others
  <1> QED
    BY <1>2, <1>5, <1>6, <1>7

(* Calm steps keep the types,                                              *)
LEMMA CalmTypes ==
  ASSUME BaseInv, NEW t \in Threads, Calm(t)
  PROVE  Types'
  <1>1. PoolTypes'
    <2>1. pending' \in {pending, NoPool}
      BY DEF Calm, StartPut, EnterPut, GiveUpPut,
         RequestClose, Unwind, OpenFails, Store, StoreFails, Unlock, StartReturn,
         StartFlush, PinHead, PinEnds, ScanHead, Scan, Visited, ScanEnds, UnpinHead,
         UnpinEnds, FreeEnds, AllFreed, Walk, WalkEnds
    <2> QED
      BY <2>1, CalmLeaves DEF PoolTypes, BaseInv, Types
  <1>2. ListTypes'
    BY CalmLeaves DEF ListTypes, BaseInv, Types
  <1>3. ThreadTypes'
    <2>1. CASE Scan(t)
      BY <2>1 DEF BaseInv, Types, ThreadTypes, PoolTypes, Scan, Advance, Goto
    <2>2. CASE StartReturn(t)
      <3>1. PICK slot \in used : /\ pool' = [pool EXCEPT ![t] = slot[1]]
                                 /\ index' = [index EXCEPT ![t] = slot[2]]
        BY <2>2 DEF StartReturn
      <3>2. slot[1] \in Pools /\ slot[2] \in Indices
        BY <3>1 DEF BaseInv, Types, ScopeTypes
      <3> QED
        BY <2>2, <3>1, <3>2 DEF BaseInv, Types, ThreadTypes, StartReturn, Goto
    <2>3. CASE UnpinEnds(t) \/ PinHead(t) \/ ScanHead(t) \/ UnpinHead(t)
      BY <2>3 DEF BaseInv, Types, ThreadTypes, PoolTypes, Goto, PinHead, ScanHead,
         UnpinHead, UnpinEnds, Walk, WalkEnds
    <2> QED
      BY <2>1, <2>2, <2>3 DEF BaseInv, Types, ThreadTypes, Goto, Calm, StartPut, EnterPut,
         GiveUpPut, RequestClose, Unwind, OpenFails, Store, StoreFails, Unlock,
         StartFlush, PinEnds, Visited, ScanEnds, FreeEnds, AllFreed, WalkEnds, Forget
  <1>4. ScopeTypes'
    <2>1. CASE Store(t) \/ Unwind(t)
      <3>1. <<pool[t], index[t]>> \in Pools \X Indices
        BY <2>1, HolderFacts DEF Store, Unwind, Attached, Allocated, Busy
      <3> QED
        BY <2>1, <3>1 DEF BaseInv, Types, ScopeTypes, Store, Unwind
    <2>2. CASE Scan(t)
      BY <2>2 DEF BaseInv, Types, ScopeTypes, ThreadTypes, Scan
    <2>3. CASE StartReturn(t)
      BY <2>3 DEF BaseInv, Types, ScopeTypes, StartReturn
    <2> QED
      BY <2>1, <2>2, <2>3 DEF BaseInv, Types, ScopeTypes, Calm, StartPut, EnterPut,
         GiveUpPut, RequestClose, OpenFails, StoreFails, Unlock, StartFlush, PinHead,
         PinEnds, ScanHead, Visited, ScanEnds, UnpinHead, UnpinEnds, FreeEnds,
         AllFreed, Walk, WalkEnds
  <1> QED
    BY <1>1, <1>2, <1>3, <1>4 DEF Types

(* The slots of a pool whose list, count and users do not change.          *)
LEMMA SlotsStay ==
  ASSUME NEW p, \A i \in Indices : <<p, i>> \in Taken' <=> <<p, i>> \in Taken,
         latestFree'[p] = latestFree[p], nextFreed'[p] = nextFreed[p],
         live'[p] = live[p], SlotsAt(p)
  PROVE  SlotsAt(p)'
  <1>1. Busy(p)' = Busy(p) /\ Unused(p)' = Unused(p)
    BY DEF Busy, Unused
  <1>2. \A r : ListAt(p, r) => ListAt(p, r)'
    BY <1>1 DEF ListAt
  <1> QED
    BY <1>1, <1>2 DEF SlotsAt

(* The slots in use stay in use, whoever has them.                         *)
LEMMA CalmTaken ==
  ASSUME BaseInv, NEW t \in Threads, Calm(t)
  PROVE  InService => Taken' = Taken /\ ApartInv'
  <1> SUFFICES ASSUME InService PROVE Taken' = Taken /\ ApartInv'
    OBVIOUS
  <1>0. Others(t) /\ Attached' = Attached
    BY OthersStay, CalmSets DEF BaseInv, Types, Step
  <1>1. CASE Store(t)
    <2>1. /\ used' = used \cup {Held(t)} /\ leaked' = leaked
          /\ Holders' = Holders \ {t} /\ t \in Holders
          /\ \A u \in Holders' : Held(u)' = Held(u)
      BY <1>0, <1>1 DEF Store, Holders, Held, Others, Goto, BaseInv, Types, ThreadTypes,
         scopeVars, localVars
    <2> QED
      BY <1>0, <2>1 DEF BaseInv, ApartInv, Taken
  <1>2. CASE Unwind(t)
    <2>1. /\ leaked' = leaked \cup {Held(t)} /\ used' = used
          /\ Holders' = Holders \ {t} /\ t \in Holders
          /\ \A u \in Holders' : Held(u)' = Held(u)
      BY <1>0, <1>2 DEF Unwind, Holders, Held, Others, Goto, BaseInv, Types, ThreadTypes
    <2> QED
      BY <1>0, <2>1 DEF BaseInv, ApartInv, Taken
  <1>3. CASE StartReturn(t)
    <2>1. PICK slot \in used : /\ used' = used \ {slot}
                               /\ pool' = [pool EXCEPT ![t] = slot[1]]
                               /\ index' = [index EXCEPT ![t] = slot[2]]
      BY <1>3 DEF StartReturn
    <2>2. slot = <<slot[1], slot[2]>>
      BY <2>1 DEF BaseInv, Types, ScopeTypes
    <2>3. /\ used' = used \ {Held(t)'} /\ Held(t)' \in used /\ leaked' = leaked
          /\ Holders' = Holders \cup {t} /\ t \notin Holders
          /\ \A u \in Holders : Held(u)' = Held(u)
      BY <1>0, <1>3, <2>1, <2>2 DEF StartReturn, Holders, Held, Others, Goto, BaseInv,
         Types, ThreadTypes, scopeVars
    <2>4. \A u \in Holders : Held(u) # Held(t)'
      BY <2>3 DEF BaseInv, ApartInv
    <2> QED
      BY <1>0, <2>3, <2>4 DEF BaseInv, ApartInv, Taken
  <1>4. CASE ~ (Store(t) \/ Unwind(t) \/ StartReturn(t))
    <2>1. /\ used' = used /\ leaked' = leaked
          /\ Holders' = Holders /\ \A u \in Holders : Held(u)' = Held(u)
      <3>1. used' = used /\ leaked' = leaked
        BY <1>4 DEF Calm, StartPut, EnterPut, GiveUpPut, RequestClose, OpenFails,
           StoreFails, Unlock, StartFlush, PinHead, PinEnds, ScanHead, Scan, Visited,
           ScanEnds, UnpinHead, UnpinEnds, FreeEnds, AllFreed, Walk, WalkEnds
      <3>2. t \in Holders' <=> t \in Holders
        BY <1>4 DEF Calm, StartPut, EnterPut, GiveUpPut, RequestClose, OpenFails,
           StoreFails, Unlock, StartFlush, PinHead, PinEnds, ScanHead, Scan, Visited,
           ScanEnds, UnpinHead, UnpinEnds, FreeEnds, AllFreed, Walk, WalkEnds, Goto,
           Holders, BaseInv, Types, ThreadTypes
      <3>3. t \in Holders => Held(t)' = Held(t)
        BY <1>4 DEF Calm, StartPut, EnterPut, GiveUpPut, RequestClose, OpenFails,
           StoreFails, Unlock, StartFlush, PinHead, PinEnds, ScanHead, Scan, Visited,
           ScanEnds, UnpinHead, UnpinEnds, FreeEnds, AllFreed, Walk, WalkEnds,
           Holders, Held
      <3> QED
        BY <1>0, <3>1, <3>2, <3>3 DEF Others, Holders, Held
    <2> QED
      BY <1>0, <2>1 DEF BaseInv, ApartInv, Taken
  <1> QED
    BY <1>1, <1>2, <1>3, <1>4

(* the end of the chain,                                                   *)
LEMMA CalmEnd ==
  ASSUME BaseInv, NEW t \in Threads, Calm(t)
  PROVE  EndInv'
  <1>0. Others(t) /\ Detached' = Detached /\ UNCHANGED <<head, tail>>
    BY OthersStay, CalmSets, CalmLeaves DEF BaseInv, Types, Step
  <1> SUFFICES ASSUME NEW u \in Threads, pc'[u] \in {"freeAll", "ended"}
               PROVE  /\ closed' /\ used' = {} /\ head' = NoPool /\ tail' = NoPool
                      /\ Detached' = {} /\ \A v \in Threads \ {u} : pc'[v] = "idle"
    BY Zenon DEF EndInv
  <1>1. CASE u = t
    <2>1. AllFreed(t)
      BY <1>1 DEF Calm, StartPut, EnterPut, GiveUpPut, RequestClose, Unwind, OpenFails,
         Store, StoreFails, Unlock, StartReturn, StartFlush, PinHead, PinEnds, ScanHead,
         Scan, Visited, ScanEnds, UnpinHead, UnpinEnds, FreeEnds, Walk, WalkEnds, Goto,
         BaseInv, Types, ThreadTypes
    <2> QED
      BY <1>0, <1>1, <2>1 DEF AllFreed, BaseInv, EndInv, Others
  <1>2. CASE u # t
    <2>1. pc[u] \in {"freeAll", "ended"} /\ pc[t] = "idle" /\ closed /\ used = {}
      BY <1>0, <1>2 DEF Others, BaseInv, EndInv
    <2>2. writer = u
      BY <2>1 DEF BaseInv, LockInv
    <2> QED
      BY <2>1, <2>2 DEF Calm, StartPut, EnterPut, GiveUpPut, RequestClose, Unwind,
         OpenFails, Store, StoreFails, Unlock, StartReturn, StartFlush, PinHead,
         PinEnds, ScanHead, Scan, Visited, ScanEnds, UnpinHead, UnpinEnds, FreeEnds,
         AllFreed, Walk, WalkEnds
  <1> QED
    BY <1>1, <1>2

(* what a flush leaves behind,                                             *)
LEMMA CalmReset ==
  ASSUME BaseInv, NEW t \in Threads, Calm(t)
  PROVE  ResetInv'
  <1>0. Others(t)
    BY OthersStay DEF BaseInv, Types, Step
  <1>1. CASE Unlock(t)
    BY <1>1 DEF Unlock, ResetInv
  <1>2. CASE Scan(t)
    <2>1. writer = t /\ writer' = t /\ pc'[t] = "visit" /\ pending' = pending
      BY <1>2 DEF Scan, BaseInv, LockInv, Goto, Types, ThreadTypes
    <2>2. \A u \in Threads : pc[u] \in {"unpin", "freePending", "unlock"} => u # t
      BY <1>2 DEF Scan
    <2> QED
      BY <1>0, <2>1, <2>2 DEF BaseInv, ResetInv, Others
  <1>3. CASE ~ (Unlock(t) \/ Scan(t))
    <2>1. seen' = seen /\ pending' = pending
      BY <1>3 DEF Calm, StartPut, EnterPut, GiveUpPut, RequestClose, Unwind, OpenFails,
         Store, StoreFails, StartReturn, StartFlush, PinHead, PinEnds, ScanHead,
         Visited, ScanEnds, UnpinHead, UnpinEnds, FreeEnds, AllFreed, Walk, WalkEnds
    <2>2. /\ /\ writer = t
             /\ pc[t] \in ScanPcs \cup {"unpinHead", "unpin", "freePending", "unlock"}
             => /\ writer' = t
                /\ pc'[t] \in ScanPcs \cup {"unpinHead", "unpin", "freePending", "unlock"}
          /\ pc[t] \in {"unpin", "freePending", "unlock"}
             => pc'[t] \in {"unpin", "freePending", "unlock"}
      BY <1>3 DEF Calm, StartPut, EnterPut, GiveUpPut, RequestClose, Unwind, OpenFails,
         Store, StoreFails, StartReturn, StartFlush, PinHead, PinEnds, ScanHead,
         Visited, ScanEnds, UnpinHead, UnpinEnds, FreeEnds, AllFreed, Walk, WalkEnds,
         Goto, BaseInv, Types, ThreadTypes
    <2> QED
      BY <1>0, <2>1, <2>2 DEF BaseInv, ResetInv, Others
  <1> QED
    BY <1>1, <1>2, <1>3

(* and with them the whole first half of the invariant.                    *)
LEMMA CalmBase ==
  ASSUME BaseInv, NEW t \in Threads, Calm(t)
  PROVE  BaseInv'
  <1>1. UNCHANGED <<memory, chainVars, slotVars, statusVars>>
    BY CalmLeaves
  <1>2. /\ Allocated' = Allocated /\ Attached' = Attached /\ Detached' = Detached
        /\ Owners' = Owners /\ \A u \in Owners : pool'[u] = pool[u]
        /\ InService' <=> InService
    BY CalmSets
  <1>3. Types' /\ LockInv' /\ EndInv' /\ ResetInv'
    BY CalmTypes, LockKeeps, CalmEnd, CalmReset DEF Step, BaseInv, Types
  <1>4. OwnInv'
    BY <1>2 DEF BaseInv, OwnInv
  <1>5. FreshInv'
    BY <1>1 DEF BaseInv, FreshInv, FreshList
  <1>6. ApartInv'
    BY <1>2, CalmTaken DEF ApartInv
  <1>7. SlotsInv'
    <2>1. InService => Taken' = Taken
      BY CalmTaken
    <2> QED
      BY <1>1, <1>2, <2>1, SlotsStay DEF BaseInv, SlotsInv
  <1>8. LiveInv'
    BY <1>1, <1>2 DEF BaseInv, LiveInv
  <1> QED
    BY <1>3, <1>4, <1>5, <1>6, <1>7, <1>8 DEF BaseInv

-----------------------------------------------------------------------------
(* The ranks stay as they are when the pools do.                           *)
LEMMA CalmPassed ==
  ASSUME BaseInv, NEW t \in Threads, Calm(t), NEW rk
  PROVE  \A c : Passed(rk, c)' = Passed(rk, c)
  BY CalmSets DEF Passed

(* The flush moves on, but it has pinned the same pools.                   *)
LEMMA CalmPins ==
  ASSUME BaseInv, NEW t \in Threads, Calm(t), NEW rk \in [Pools -> Int], RankInv(rk)
  PROVE  PinsInv(rk)'
  <1>0. /\ Others(t) /\ Attached' = Attached /\ (InService' <=> InService)
        /\ pins' = pins /\ UNCHANGED <<head, tail, prev, next>>
        /\ \A c : Passed(rk, c)' = Passed(rk, c)
    BY OthersStay, CalmSets, CalmLeaves, CalmPassed DEF BaseInv, Types, Step
  <1> SUFFICES ASSUME InService, NEW p \in Attached
               PROVE  (\E u \in Threads : PinnedBy(rk, u, p)')
                        <=> (\E u \in Threads : PinnedBy(rk, u, p))
    BY <1>0 DEF PinsInv, RankInv
  <1>1. \A u \in Threads \ {t} : PinnedBy(rk, u, p)' <=> PinnedBy(rk, u, p)
    BY <1>0 DEF PinnedBy, Others
  <1>2. PinnedBy(rk, t, p)' <=> PinnedBy(rk, t, p)
    <2>1. CASE PinHead(t) \/ UnpinHead(t)
      <3>1. cursor'[t] = head
        BY <2>1 DEF PinHead, UnpinHead, Walk, BaseInv, Types, ThreadTypes
      <3>2. head # NoPool /\ head \in Attached /\ rk[head] <= rk[p]
        BY DEF RankInv, Ends
      <3>3. p \notin Passed(rk, head)
        BY <3>2 DEF Passed, Attached, Allocated
      <3> QED
        BY <1>0, <2>1, <3>1, <3>3 DEF PinHead, UnpinHead, Walk, Goto, PinnedBy, BaseInv, LockInv,
           Types, ThreadTypes
    <2>2. CASE PinEnds(t) \/ UnpinEnds(t)
      <3>1. p \in Passed(rk, cursor[t])
        BY <2>2 DEF PinEnds, UnpinEnds, WalkEnds, Passed
      <3> QED
        BY <1>0, <2>2, <3>1 DEF PinEnds, UnpinEnds, WalkEnds, Goto, PinnedBy, BaseInv, LockInv,
           Types, ThreadTypes
    <2>3. CASE ~ (PinHead(t) \/ UnpinHead(t) \/ PinEnds(t) \/ UnpinEnds(t))
      BY <2>3 DEF Calm, StartPut, EnterPut, GiveUpPut, RequestClose, Unwind, OpenFails,
         Store, StoreFails, Unlock, StartReturn, StartFlush, ScanHead, Scan, Visited,
         ScanEnds, FreeEnds, AllFreed, Walk, WalkEnds, Goto, PinnedBy, BaseInv, LockInv,
         Types, ThreadTypes
    <2> QED
      BY <2>1, <2>2, <2>3
  <1> QED
    BY <1>1, <1>2

(* A walk starts at the head, and Scan takes it one pool on.               *)
LEMMA CalmWalk ==
  ASSUME BaseInv, NEW t \in Threads, Calm(t), NEW rk \in [Pools -> Int], RankInv(rk)
  PROVE  WalkInv(rk)'
  <1>0. /\ Others(t) /\ Attached' = Attached /\ Pending' = Pending
        /\ UNCHANGED <<head, tail, prev, next>>
        /\ \A c : Passed(rk, c)' = Passed(rk, c)
    BY OthersStay, CalmSets, CalmLeaves, CalmPassed DEF BaseInv, Types, Step
  <1>1. seen' = seen \/ Scan(t) \/ Unlock(t)
    BY DEF Calm, StartPut, EnterPut, GiveUpPut, RequestClose, Unwind, OpenFails,
       Store, StoreFails, StartReturn, StartFlush, PinHead, PinEnds, ScanHead,
       Visited, ScanEnds, UnpinHead, UnpinEnds, FreeEnds, AllFreed, Walk, WalkEnds
  <1> DEFINE W(u) ==
         /\ cursor[u] # NoPool =>
              \/ /\ pc[u] \in ScanPcs \cup {"pin", "unpin"} /\ writer = u
                 /\ cursor[u] \in Attached
              \/ pc[u] = "freePending" /\ cursor[u] \in Pending
              \/ pc[u] = "freeAll" /\ cursor[u] \in Attached
         /\ pc[u] \in ScanPcs /\ writer = u => seen = Passed(rk, cursor[u])
         /\ pc[u] = "unpinHead" => seen = Attached
         /\ pc[u] = "freeAll" => /\ cursor[u] = NoPool => Attached = {}
                                 /\ \A p \in Attached : rk[cursor[u]] <= rk[p]
         /\ pc[u] = "ended" => Attached = {}
  <1>2. ASSUME NEW u \in Threads \ {t} PROVE W(u)'
    <2>1. W(u)
      BY DEF RankInv, WalkInv
    <2>2. seen' = seen \/ ~ (writer = u /\ pc[u] \in ScanPcs \cup {"unpinHead"})
      BY <1>1 DEF BaseInv, LockInv, Scan, Unlock
    <2>3. writer = u \/ pc[u] # "unpinHead"
      BY DEF BaseInv, LockInv
    <2> QED
      BY <1>0, <2>1, <2>2, <2>3 DEF Others
  <1>3. W(t)'
    <2>0. W(t)
      BY DEF RankInv, WalkInv
    <2>1. CASE Scan(t)
      <3>1. /\ cursor[t] \in Attached /\ writer = t /\ seen = Passed(rk, cursor[t])
            /\ writer' = t /\ pc'[t] = "visit" /\ cursor'[t] = next[cursor[t]]
            /\ seen' = seen \cup {cursor[t]}
        BY <2>0, <2>1 DEF Scan, Advance, Goto, BaseInv, LockInv, Types, ThreadTypes
      <3>2. /\ cursor'[t] # NoPool => cursor'[t] \in Attached
            /\ seen' = Passed(rk, cursor'[t])
        <4> DEFINE c == cursor[t]
        <4>1. /\ \A p, q \in Attached : rk[p] = rk[q] => p = q
              /\ \/ next[c] = NoPool /\ \A q \in Attached : rk[q] <= rk[c]
                 \/ /\ next[c] \in Attached /\ rk[c] < rk[next[c]]
                    /\ \A q \in Attached : rk[q] <= rk[c] \/ rk[q] >= rk[next[c]]
          BY <3>1 DEF RankInv, Links
        <4>2. Attached \subseteq Pools /\ NoPool \notin Attached
          BY DEF Attached, Allocated
        <4>3. \A p \in Attached : rk[p] \in Int
          BY <4>2
        <4> QED
          BY <3>1, <4>1, <4>2, <4>3 DEF Passed
      <3> QED
        BY <1>0, <3>1, <3>2
    <2>2. CASE PinHead(t) \/ UnpinHead(t) \/ ScanHead(t)
      <3>1. InService /\ pc[t] \in OwnPcs /\ writer = t /\ writer' = t
        BY <2>2, OneFlush DEF PinHead, UnpinHead, ScanHead, Walk, BaseInv, LockInv, InService
      <3>2. cursor'[t] = head /\ seen' = seen /\ pc'[t] \in {"pin", "unpin", "scan"}
        BY <2>2 DEF PinHead, UnpinHead, ScanHead, Walk, Goto, BaseInv, Types, ThreadTypes
      <3>3. head # NoPool => head \in Attached
        BY <3>1 DEF RankInv, Ends
      <3>4. CASE ScanHead(t)
        <4>1. seen = {}
          BY <3>1, <3>4 DEF BaseInv, ResetInv, ScanHead, Walk
        <4>2. Passed(rk, head) = {}
          <5>1. \A p \in Attached : head # NoPool /\ head \in Attached /\ rk[head] <= rk[p]
            BY <3>1 DEF RankInv, Ends
          <5> QED
            BY <5>1 DEF Passed, Attached, Allocated
        <4> QED
          BY <1>0, <3>1, <3>2, <3>3, <4>1, <4>2
      <3>5. CASE PinHead(t) \/ UnpinHead(t)
        <4>1. pc'[t] \in {"pin", "unpin"}
          BY <3>5 DEF PinHead, UnpinHead, Walk, Goto, BaseInv, Types, ThreadTypes
        <4> QED
          BY <1>0, <3>1, <3>2, <3>3, <4>1
      <3> QED
        BY <2>2, <3>4, <3>5
    <2>3. CASE UnpinEnds(t)
      <3>1. pc[t] = "unpin" /\ cursor'[t] = pending /\ pc'[t] = "freePending"
        BY <2>3 DEF UnpinEnds, WalkEnds, Goto, BaseInv, Types, ThreadTypes
      <3>2. pending # NoPool => pending \in Pending
        BY <3>1 DEF RankInv, PendingInv
      <3> QED
        BY <1>0, <3>1, <3>2
    <2>4. CASE ScanEnds(t)
      <3>1. /\ pc[t] = "scan" /\ cursor[t] = NoPool /\ writer = t
            /\ cursor'[t] = NoPool /\ pc'[t] = "unpinHead" /\ seen' = seen
        BY <2>4 DEF ScanEnds, WalkEnds, Goto, BaseInv, LockInv, Types, ThreadTypes
      <3>2. Passed(rk, NoPool) = Attached
        BY DEF Passed
      <3> QED
        BY <1>0, <2>0, <3>1, <3>2
    <2>5. CASE ~ (Scan(t) \/ PinHead(t) \/ UnpinHead(t) \/ ScanHead(t) \/ UnpinEnds(t)
                  \/ ScanEnds(t))
      <3>1. cursor'[t] = cursor[t]
        BY <2>5 DEF Calm, StartPut, EnterPut, GiveUpPut, RequestClose, Unwind, OpenFails,
           Store, StoreFails, Unlock, StartReturn, StartFlush, PinEnds, Visited, FreeEnds,
           AllFreed, Walk, WalkEnds, Forget, BaseInv, Types, ThreadTypes
      <3>2. /\ pc'[t] \in ScanPcs /\ writer' = t => pc[t] \in ScanPcs /\ writer = t /\ seen' = seen
            /\ pc'[t] # "unpinHead" /\ pc'[t] # "freeAll"
            /\ pc'[t] = "ended" => pc[t] = "freeAll" /\ cursor[t] = NoPool
            /\ cursor[t] # NoPool => /\ pc[t] \in ScanPcs /\ pc'[t] \in ScanPcs
                                     /\ writer = t /\ writer' = t
        BY <2>0, <2>5 DEF Calm, StartPut, EnterPut, GiveUpPut, RequestClose, Unwind, OpenFails,
           Store, StoreFails, Unlock, StartReturn, StartFlush, PinEnds, Visited, FreeEnds,
           AllFreed, Walk, WalkEnds, Goto, Forget, BaseInv, LockInv, Types, ThreadTypes
      <3> QED
        BY <1>0, <2>0, <3>1, <3>2
    <2> QED
      BY <2>1, <2>2, <2>3, <2>4, <2>5
  <1> QED
    BY <1>2, <1>3 DEF WalkInv

(* The list of the pools to free is looked at, and not changed.            *)
LEMMA CalmPending ==
  ASSUME BaseInv, NEW t \in Threads, Calm(t), NEW rk \in [Pools -> Int], RankInv(rk)
  PROVE  PendingInv(rk)'
  <1>0. Others(t) /\ Pending' = Pending /\ UNCHANGED <<head, tail, prev, next>>
    BY OthersStay, CalmSets, CalmLeaves DEF BaseInv, Types, Step
  <1> DEFINE P(u) ==
         /\ pc[u] = "unpin" =>
              /\ pending = NoPool => Pending = {}
              /\ pending # NoPool => pending \in Pending
              /\ \A q \in Pending : /\ rk[q] <= rk[pending]
                                    /\ cursor[u] # NoPool => rk[q] < rk[cursor[u]]
         /\ pc[u] = "freePending" =>
              /\ cursor[u] = NoPool => Pending = {}
              /\ \A q \in Pending : rk[q] <= rk[cursor[u]]
  <1>1. pending' = pending \/ Unlock(t)
    BY DEF Calm, StartPut, EnterPut, GiveUpPut, RequestClose, Unwind, OpenFails,
       Store, StoreFails, StartReturn, StartFlush, PinHead, PinEnds, ScanHead, Scan,
       Visited, ScanEnds, UnpinHead, UnpinEnds, FreeEnds, AllFreed, Walk, WalkEnds
  <1>2. ASSUME NEW u \in Threads \ {t} PROVE P(u)'
    <2>1. P(u)
      BY DEF RankInv, PendingInv
    <2>2. pc[u] = "unpin" => pending' = pending
      BY <1>1 DEF BaseInv, LockInv, Unlock
    <2> QED
      BY <1>0, <2>1, <2>2 DEF Others
  <1>3. P(t)' /\ (Pending # {} => \E u \in Threads : pc'[u] \in {"unpin", "freePending"})
    <2>0. P(t) /\ (Pending # {} => \E u \in Threads : pc[u] \in {"unpin", "freePending"})
      BY DEF RankInv, PendingInv
    <2>1. CASE UnpinHead(t)
      <3>1. pc[t] = "unpinHead" /\ pending' = pending
        BY <2>1 DEF UnpinHead, Walk
      <3>2. \A u \in Threads : pc[u] \notin {"unpin", "freePending", "unlock"}
        BY <3>1 DEF BaseInv, LockInv
      <3>3. Pending = {} /\ pending = NoPool
        BY <2>0, <3>2 DEF BaseInv, ResetInv
      <3>4. pc'[t] = "unpin"
        BY <2>1 DEF UnpinHead, Walk, Goto, BaseInv, Types, ThreadTypes
      <3> QED
        BY <1>0, <3>1, <3>3, <3>4
    <2>2. CASE UnpinEnds(t)
      <3>1. /\ pc[t] = "unpin" /\ pending' = pending /\ pc'[t] = "freePending"
            /\ cursor'[t] = pending
        BY <2>2 DEF UnpinEnds, WalkEnds, Goto, BaseInv, Types, ThreadTypes
      <3> QED
        BY <1>0, <2>0, <3>1
    <2>3. CASE FreeEnds(t)
      <3>1. pc[t] = "freePending" /\ cursor[t] = NoPool /\ pc'[t] = "unlock"
        BY <2>3 DEF FreeEnds, WalkEnds, Goto, BaseInv, Types, ThreadTypes
      <3> QED
        BY <1>0, <2>0, <3>1
    <2>4. CASE ~ (UnpinHead(t) \/ UnpinEnds(t) \/ FreeEnds(t))
      <3>1. pc'[t] \notin {"unpin", "freePending"} /\ pc[t] \notin {"unpin", "freePending"}
        BY <2>4 DEF Calm, StartPut, EnterPut, GiveUpPut, RequestClose, Unwind, OpenFails,
           Store, StoreFails, Unlock, StartReturn, StartFlush, PinHead, PinEnds, ScanHead,
           Scan, Visited, ScanEnds, AllFreed, Walk, WalkEnds, Goto, BaseInv, Types, ThreadTypes
      <3> QED
        BY <1>0, <2>0, <3>1 DEF Others
    <2> QED
      BY <2>1, <2>2, <2>3, <2>4
  <1>4. /\ \A p, q \in Pending' : rk[p] = rk[q] => p = q
        /\ \A p \in Pending' :
             \/ next'[p] = NoPool /\ \A q \in Pending' : rk[q] >= rk[p]
             \/ /\ next'[p] \in Pending' /\ rk[next'[p]] < rk[p]
                /\ \A q \in Pending' : rk[q] >= rk[p] \/ rk[q] <= rk[next'[p]]
    BY <1>0 DEF RankInv, PendingInv
  <1> QED
    BY <1>0, <1>2, <1>3, <1>4 DEF PendingInv

(* A calm step keeps the invariant, with the same ranks.                   *)
LEMMA CalmKeeps ==
  ASSUME BaseInv, NEW t \in Threads, Calm(t), NEW rk \in [Pools -> Int], RankInv(rk)
  PROVE  BaseInv' /\ RankInv(rk)'
  <1>1. /\ UNCHANGED <<memory, chainVars, slotVars, statusVars>>
        /\ Attached' = Attached /\ (InService' <=> InService)
    BY CalmLeaves, CalmSets
  <1>2. Links(rk)' /\ Ends(rk)'
    BY <1>1 DEF RankInv, Links, Ends
  <1> QED
    BY <1>2, CalmBase, CalmPins, CalmWalk, CalmPending DEF RankInv

-----------------------------------------------------------------------------
(* The places around a step that leaves the pools to free alone.           *)
PlainPcs == {"takeSlot", "store", "rollback", "unlock", "idle"} \cup ScanPcs

(* A step that leaves the chain, the walk and the pools to free as they    *)
(* are keeps the ranks.                                                    *)
LEMMA RankStays ==
  ASSUME BaseInv, NEW t \in Threads, Step(t), NEW rk \in [Pools -> Int], RankInv(rk),
         UNCHANGED <<memory, detached, pins, chainVars, flushVars, writer, cursor>>,
         pc[t] \in PlainPcs, pc'[t] \in PlainPcs, pc[t] # "freeReturned",
         pc'[t] # "freeReturned",
         writer = t => (pc[t] \in ScanPcs <=> pc'[t] \in ScanPcs)
  PROVE  RankInv(rk)' /\ Pending' = Pending /\ Owners' = Owners
  <1>1. Others(t)
    BY OthersStay DEF BaseInv, Types
  <1>2. /\ Allocated' = Allocated /\ Attached' = Attached /\ Detached' = Detached
        /\ Owners' = Owners /\ \A u \in Owners : pool'[u] = pool[u]
    BY <1>1 DEF Allocated, Attached, Detached, Owners, Others, PlainPcs
  <1>3. Pending' = Pending
    BY <1>2 DEF Pending
  <1>4. InService' <=> InService
    BY <1>1 DEF InService, Others, PlainPcs
  <1>5. \A c : Passed(rk, c)' = Passed(rk, c)
    BY <1>2 DEF Passed
  <1>6. Links(rk)' /\ Ends(rk)'
    BY <1>2, <1>4 DEF RankInv, Links, Ends
  <1>7. PinsInv(rk)'
    <2>1. \A u \in Threads, p \in Attached : PinnedBy(rk, u, p)' <=> PinnedBy(rk, u, p)
      BY <1>1, <1>5 DEF PinnedBy, Others, PlainPcs
    <2> QED
      BY <1>2, <1>4, <2>1 DEF RankInv, PinsInv
  <1>8. WalkInv(rk)'
    BY <1>1, <1>2, <1>3, <1>5 DEF RankInv, WalkInv, Others, PlainPcs
  <1>9. PendingInv(rk)'
    BY <1>1, <1>3 DEF RankInv, PendingInv, Others, PlainPcs
  <1> QED
    BY <1>2, <1>3, <1>6, <1>7, <1>8, <1>9 DEF RankInv

(* A pool has as many slots as its capacity, and no more are busy.         *)
LEMMA BusyFinite ==
  ASSUME NEW p
  PROVE  /\ IsFiniteSet(Indices) /\ Cardinality(Indices) = Capacity
         /\ IsFiniteSet(Busy(p)) /\ Cardinality(Busy(p)) \in 0 .. Capacity
         /\ Cardinality(Busy(p)) = Capacity => Busy(p) = Indices
  <1>1. IsFiniteSet(Indices) /\ Cardinality(Indices) = Capacity
    BY FS_Interval
  <1>2. Busy(p) \subseteq Indices
    BY DEF Busy
  <1> QED
    BY <1>1, <1>2, FS_Subset, FS_CardinalityType

(* A slot is taken from the front of a free list that has one.             *)
LEMMA ListTaken ==
  ASSUME Types, NEW p \in Pools, SlotsAt(p), live[p] # Capacity, Allocate(p),
         Taken' = Taken \cup {<<p, latestFree[p]>>}
  PROVE  /\ latestFree[p] \in Unused(p) /\ SlotsAt(p)'
         /\ live'[p] = live[p] + 1 /\ live'[p] \in 1 .. Capacity
         /\ latestFree'[p] \in 0 .. Capacity
  <1> DEFINE i == latestFree[p]
  <1>1. PICK r \in [Indices -> Int] : ListAt(p, r)
    BY DEF SlotsAt
  <1>2. i \in Unused(p)
    <2>1. Cardinality(Busy(p)) # Capacity
      BY DEF SlotsAt
    <2>2. Busy(p) # Indices
      BY <2>1, BusyFinite
    <2>3. Unused(p) # {}
      BY <2>2 DEF Busy, Unused
    <2> QED
      BY <1>1, <2>3 DEF ListAt
  <1>3. i \in Indices /\ i \notin Busy(p)
    BY <1>2 DEF Unused, Busy
  <1>4. Busy(p)' = Busy(p) \cup {i} /\ Unused(p)' = Unused(p) \ {i}
    BY <1>3 DEF Busy, Unused
  <1>5. /\ live'[p] = live[p] + 1 /\ latestFree'[p] = nextFreed[p][i]
        /\ nextFreed'[p] = nextFreed[p]
    BY DEF Allocate, Types, ListTypes
  <1>6. live'[p] = Cardinality(Busy(p)')
    <2>1. IsFiniteSet(Busy(p))
      BY BusyFinite
    <2>2. Cardinality(Busy(p) \cup {i}) = Cardinality(Busy(p)) + 1
      BY <1>3, <2>1, FS_AddElement
    <2>3. live[p] = Cardinality(Busy(p))
      BY DEF SlotsAt
    <2> QED
      BY <1>4, <1>5, <2>2, <2>3
  <1>7. ListAt(p, r)'
    <2>1. /\ \A j, k \in Unused(p) : r[j] = r[k] => j = k
          /\ \A j \in Unused(p) : r[i] <= r[j]
          /\ \A j \in Unused(p) :
               \/ nextFreed[p][j] = Capacity /\ \A k \in Unused(p) : r[k] <= r[j]
               \/ /\ nextFreed[p][j] \in Unused(p) /\ r[j] < r[nextFreed[p][j]]
                  /\ \A k \in Unused(p) : r[k] <= r[j] \/ r[k] >= r[nextFreed[p][j]]
      <3>1. Capacity \notin Unused(p)
        BY DEF Unused
      <3> QED
        BY <1>1, <1>2, <3>1 DEF ListAt
    <2>2. Capacity \notin Unused(p) /\ \A j \in Unused(p) : r[j] \in Int
      BY DEF Unused
    <2>3. PICK q : q = nextFreed[p][i]
      OBVIOUS
    <2>4. CASE q = Capacity
      <3>1. \A j \in Unused(p) : r[j] <= r[i]
        BY <1>2, <2>1, <2>2, <2>3, <2>4
      <3>2. \A j \in Unused(p) : r[j] = r[i]
        BY <1>2, <2>1, <2>2, <3>1
      <3>3. Unused(p)' = {}
        BY <1>2, <1>4, <2>1, <3>2
      <3> QED
        BY <1>5, <2>3, <2>4, <3>3 DEF ListAt
    <2>5. CASE q # Capacity
      <3>1. /\ q \in Unused(p) /\ r[i] < r[q]
            /\ \A k \in Unused(p) : r[k] <= r[i] \/ r[k] >= r[q]
        BY <1>2, <2>1, <2>3, <2>5
      <3>2. q \in Unused(p)'
        BY <1>2, <1>4, <2>2, <3>1
      <3>3. \A k \in Unused(p)' : r[q] <= r[k]
        <4> SUFFICES ASSUME NEW k \in Unused(p), k # i PROVE r[q] <= r[k]
          BY <1>4
        <4>1. r[i] <= r[k] /\ r[i] # r[k]
          BY <1>2, <2>1
        <4> QED
          BY <1>2, <2>2, <3>1, <4>1
      <3>4. ASSUME NEW j \in Unused(p)'
            PROVE  \/ nextFreed'[p][j] = Capacity /\ \A k \in Unused(p)' : r[k] <= r[j]
                   \/ /\ nextFreed'[p][j] \in Unused(p)' /\ r[j] < r[nextFreed'[p][j]]
                      /\ \A k \in Unused(p)' : r[k] <= r[j] \/ r[k] >= r[nextFreed'[p][j]]
        <4>1. PICK n : n = nextFreed[p][j]
          OBVIOUS
        <4>2. j \in Unused(p) /\ r[i] <= r[j] /\ nextFreed'[p][j] = n
          BY <1>4, <1>5, <2>1, <4>1
        <4>3. CASE n = Capacity
          <5>1. nextFreed[p][j] \notin Unused(p)
            BY <2>2, <4>1, <4>3
          <5>2. \A k \in Unused(p) : r[k] <= r[j]
            BY <2>1, <4>2, <5>1
          <5> QED
            BY <1>4, <4>2, <4>3, <5>2
        <4>4. CASE n # Capacity
          <5>1. /\ n \in Unused(p) /\ r[j] < r[n]
                /\ \A k \in Unused(p) : r[k] <= r[j] \/ r[k] >= r[n]
            BY <2>1, <4>1, <4>2, <4>4
          <5>2. n # i
            BY <1>2, <2>2, <4>2, <5>1
          <5> QED
            BY <1>4, <4>2, <5>1, <5>2
        <4> QED
          BY <4>3, <4>4
      <3>5. /\ \A j, k \in Unused(p)' : r[j] = r[k] => j = k
            /\ latestFree'[p] = q
        BY <1>4, <1>5, <2>1, <2>3
      <3> QED
        BY <2>5, <3>2, <3>3, <3>4, <3>5 DEF ListAt
    <2> QED
      BY <2>4, <2>5
  <1>8. live[p] \in 0 .. Capacity /\ nextFreed[p][i] \in 0 .. Capacity
    BY <1>3 DEF Types, ListTypes
  <1> QED
    BY <1>1, <1>2, <1>5, <1>6, <1>7, <1>8 DEF SlotsAt

(* Taking a slot of the tail keeps the invariant.                          *)
LEMMA TakeSlotKeeps ==
  ASSUME BaseInv, NEW t \in Threads, TakeSlot(t), NEW rk \in [Pools -> Int], RankInv(rk)
  PROVE  BaseInv' /\ RankInv(rk)'
  <1> DEFINE p == tail  i == latestFree[tail]
  <1>0. /\ pc[t] = "takeSlot" /\ writer = t /\ InService /\ Step(t) /\ Others(t)
        /\ pc' = [pc EXCEPT ![t] = "store"]
        /\ pool' = [pool EXCEPT ![t] = p] /\ index' = [index EXCEPT ![t] = i]
    BY OthersStay DEF TakeSlot, Goto, BaseInv, LockInv, EndInv, InService, Step, Types
  <1>1. p \in Attached /\ p \in Pools /\ p \in Allocated /\ live[p] # Capacity
    BY <1>0 DEF TakeSlot, TailFull, RankInv, Ends, Attached, Allocated
  <1>2. SlotsAt(p)
    BY <1>0, <1>1 DEF BaseInv, SlotsInv
  <1>3. /\ Allocated' = Allocated /\ Attached' = Attached /\ Detached' = Detached
        /\ Allocate(p) /\ used' = used /\ leaked' = leaked
        /\ UNCHANGED <<memory, chainVars, statusVars, lockVars, cursor, flushVars, scopeVars>>
    BY DEF TakeSlot, Allocated, Attached, Detached
  <1>4. /\ Holders' = Holders \cup {t} /\ t \notin Holders /\ Held(t)' = <<p, i>>
        /\ \A u \in Holders : Held(u)' = Held(u)
    BY <1>0 DEF Holders, Held, Others, BaseInv, Types, ThreadTypes
  <1>5. Taken' = Taken \cup {<<p, i>>}
    BY <1>3, <1>4 DEF Taken
  <1>6. /\ i \in Unused(p) /\ SlotsAt(p)' /\ live'[p] = live[p] + 1
        /\ live'[p] \in 1 .. Capacity /\ latestFree'[p] \in 0 .. Capacity
    BY <1>1, <1>2, <1>3, <1>5, ListTaken DEF BaseInv
  <1>7. <<p, i>> \notin Taken /\ i \in Indices
    BY <1>6 DEF Unused
  <1>8. pc'[t] = "store"
    BY <1>0 DEF BaseInv, Types, ThreadTypes
  <1>9. RankInv(rk)' /\ Owners' = Owners
    BY <1>0, <1>3, <1>8, RankStays DEF PlainPcs
  <1>10. Types'
    <2>1. PoolTypes' /\ ScopeTypes'
      BY <1>3 DEF BaseInv, Types, PoolTypes, ScopeTypes
    <2>2. ListTypes'
      <3>1. ListTypes
        BY DEF BaseInv, Types
      <3>2. /\ latestFree' = [latestFree EXCEPT ![p] = nextFreed[p][latestFree[p]]]
            /\ live' = [live EXCEPT ![p] = live[p] + 1]
            /\ nextFreed' = nextFreed
        BY <1>3 DEF Allocate
      <3>3. /\ nextFreed[p][latestFree[p]] \in 0 .. Capacity
            /\ live[p] + 1 \in 0 .. Capacity
        BY <1>1, <1>6, <3>1, <3>2 DEF ListTypes
      <3> QED
        BY <3>1, <3>2, <3>3 DEF ListTypes
    <2>3. ThreadTypes'
      BY <1>0, <1>1, <1>3, <1>7 DEF BaseInv, Types, ThreadTypes
    <2> QED
      BY <2>1, <2>2, <2>3 DEF Types
  <1>11. LockInv'
    BY <1>0, LockKeeps DEF BaseInv, Types
  <1>12. OwnInv'
    <2>1. \A u \in Owners : pool'[u] = pool[u]
      BY <1>0 DEF Owners, Others
    <2> QED
      BY <1>3, <1>9, <2>1 DEF BaseInv, OwnInv
  <1>13. InService' /\ EndInv'
    BY <1>0, <1>8 DEF InService, EndInv, Others
  <1>14. FreshInv'
    BY <1>1, <1>3 DEF BaseInv, FreshInv, FreshList, Allocate, Allocated, Types, ListTypes
  <1>15. ResetInv'
    BY <1>0, <1>3 DEF BaseInv, ResetInv, Others
  <1>16. ApartInv'
    <2>1. \A u \in Holders : Held(u) # <<p, i>>
      BY <1>7 DEF Taken
    <2> QED
      BY <1>0, <1>1, <1>3, <1>4, <1>5, <1>7, <2>1 DEF BaseInv, ApartInv, Taken
  <1>17. SlotsInv'
    <2>1. ASSUME NEW q \in Allocated, q # p PROVE SlotsAt(q)'
      <3>1. \A j \in Indices : <<q, j>> \in Taken' <=> <<q, j>> \in Taken
        BY <1>5, <2>1
      <3>2. q \in Pools
        BY DEF Allocated
      <3> QED
        BY <1>0, <1>3, <2>1, <3>1, <3>2, SlotsStay DEF BaseInv, SlotsInv, Allocate, Types, ListTypes
    <2> QED
      BY <1>3, <1>6, <2>1 DEF SlotsInv
  <1>18. LiveInv'
    <2>1. \A q \in Pools : live'[q] = 0 => live[q] = 0
      BY <1>3, <1>6 DEF Allocate, BaseInv, Types, ListTypes
    <2>2. Attached \subseteq Pools
      BY DEF Attached, Allocated
    <2> QED
      BY <1>0, <1>3, <2>1, <2>2 DEF BaseInv, LiveInv
  <1> QED
    BY <1>9, <1>10, <1>11, <1>12, <1>13, <1>14, <1>15, <1>16, <1>17, <1>18 DEF BaseInv

-----------------------------------------------------------------------------
(* A new pool comes last.                                                  *)
LEMMA OpenPoolKeeps ==
  ASSUME BaseInv, NEW t \in Threads, OpenPool(t), NEW rk \in [Pools -> Int], RankInv(rk)
  PROVE  BaseInv' /\ \E rks \in [Pools -> Int] : RankInv(rks)'
  <1>0. /\ pc[t] = "takeSlot" /\ writer = t /\ InService /\ Step(t) /\ Others(t)
        /\ TailFull /\ pc' = [pc EXCEPT ![t] = "store"] /\ pc'[t] = "store"
        /\ UNCHANGED <<statusVars, lockVars, used, cursor, flushVars, scopeVars>>
    BY OthersStay DEF OpenPool, Goto, BaseInv, LockInv, EndInv, InService, Step, Types, ThreadTypes
  <1>1. PICK p \in Pools :
          /\ memory[p] = "unused"
          /\ memory' = [memory EXCEPT ![p] = "allocated"]
          /\ prev' = [prev EXCEPT ![p] = tail]
          /\ next' = IF tail = NoPool THEN next ELSE [next EXCEPT ![tail] = p]
          /\ head' = IF tail = NoPool THEN p ELSE head
          /\ tail' = p
          /\ Allocate(p)
          /\ pool' = [pool EXCEPT ![t] = p]
          /\ index' = [index EXCEPT ![t] = latestFree[p]]
    BY DEF OpenPool
  <1>2. /\ latestFree[p] = 0 /\ nextFreed[p] = FreshList /\ live[p] = 0 /\ pins[p] = 0
        /\ retirePending[p] = FALSE /\ detached[p] = FALSE
        /\ prev[p] = NoPool /\ next[p] = NoPool
    BY <1>1 DEF BaseInv, FreshInv, Types, PoolTypes
  <1>3. /\ p \notin Allocated /\ p \notin Attached /\ p \notin Detached
        /\ Allocated' = Allocated \cup {p} /\ Attached' = Attached \cup {p}
        /\ Detached' = Detached
    BY <1>0, <1>1, <1>2 DEF Allocated, Attached, Detached, BaseInv, Types, PoolTypes
  <1>4. /\ Owners' = Owners /\ Pending' = Pending /\ \A u \in Owners : pool'[u] = pool[u]
    BY <1>0, <1>3 DEF Owners, Pending, Others
  <1>5. /\ Holders' = Holders \cup {t} /\ t \notin Holders /\ Held(t)' = <<p, 0>>
        /\ \A u \in Holders : Held(u)' = Held(u)
    BY <1>0, <1>1, <1>2 DEF Holders, Held, Others, BaseInv, Types, ThreadTypes
  <1>6. Taken' = Taken \cup {<<p, 0>>} /\ \A i \in Indices : <<p, i>> \notin Taken
    <2>1. \A slot \in Taken : slot \in Attached \X Indices
      BY <1>0 DEF BaseInv, ApartInv
    <2> QED
      BY <1>0, <1>3, <1>5, <2>1 DEF Taken
  <1>7. SlotsAt(p) /\ 0 \in Indices
    <2>1. Busy(p) = {} /\ Unused(p) = Indices
      BY <1>6 DEF Busy, Unused
    <2>2. live[p] = Cardinality(Busy(p))
      BY <1>2, <2>1, FS_EmptySet
    <2> DEFINE r == [i \in Indices |-> i]
    <2>3. r \in [Indices -> Int] /\ \A i \in Indices : r[i] = i
      OBVIOUS
    <2>4. \A i \in Indices : nextFreed[p][i] = i + 1
      BY <1>2 DEF FreshList
    <2>5. ListAt(p, r)
      <3> HIDE DEF r
      <3>1. /\ \A i, j \in Unused(p) : r[i] = r[j] => i = j
            /\ latestFree[p] \in Unused(p) /\ latestFree[p] # Capacity
            /\ \A i \in Unused(p) : r[latestFree[p]] <= r[i]
        BY <1>2, <2>1, <2>3
      <3>2. ASSUME NEW i \in Unused(p)
            PROVE  \/ nextFreed[p][i] = Capacity /\ \A j \in Unused(p) : r[j] <= r[i]
                   \/ /\ nextFreed[p][i] \in Unused(p) /\ r[i] < r[nextFreed[p][i]]
                      /\ \A j \in Unused(p) : r[j] <= r[i] \/ r[j] >= r[nextFreed[p][i]]
        <4>1. CASE i + 1 = Capacity
          BY <2>1, <2>3, <2>4, <4>1
        <4>2. CASE i + 1 # Capacity
          <5>1. i + 1 \in Indices
            BY <2>1, <4>2
          <5> QED
            BY <2>1, <2>3, <2>4, <5>1
        <4> QED
          BY <4>1, <4>2
      <3> QED
        BY <3>1, <3>2 DEF ListAt
    <2> QED
      BY <2>2, <2>3, <2>5 DEF SlotsAt
  <1>8. SlotsAt(p)' /\ live'[p] = 1 /\ 1 \in 0 .. Capacity /\ latestFree'[p] \in 0 .. Capacity
    BY <1>1, <1>2, <1>6, <1>7, ListTaken DEF BaseInv
  <1>9. \A u \in Threads \ {t} : /\ cursor[u] = NoPool
                                /\ pc[u] \notin OwnPcs /\ writer # u
    BY <1>0 DEF BaseInv, LockInv, RankInv, WalkInv
  <1>10. cursor[t] = NoPool /\ seen = {} /\ pending = NoPool /\ Pending = {}
    BY <1>0, <1>9 DEF BaseInv, RankInv, WalkInv, ResetInv, PendingInv
  <1>11. Types'
    <2>1. PoolTypes'
      BY <1>0, <1>1 DEF BaseInv, Types, PoolTypes
    <2>2. ListTypes'
      BY <1>1, <1>8 DEF BaseInv, Types, ListTypes, Allocate
    <2>3. ThreadTypes'
      BY <1>0, <1>1, <1>2, <1>7 DEF BaseInv, Types, ThreadTypes
    <2>4. ScopeTypes'
      BY <1>0 DEF BaseInv, Types, ScopeTypes
    <2> QED
      BY <2>1, <2>2, <2>3, <2>4 DEF Types
  <1>12. LockInv'
    BY <1>0, LockKeeps DEF BaseInv, Types
  <1>13. OwnInv'
    BY <1>3, <1>4 DEF BaseInv, OwnInv
  <1>14. InService' /\ EndInv'
    BY <1>0 DEF InService, EndInv, Others
  <1>15. FreshInv'
    <2> SUFFICES ASSUME NEW q \in Pools, memory'[q] = "unused"
                 PROVE  /\ latestFree'[q] = 0 /\ nextFreed'[q] = FreshList
                        /\ live'[q] = 0 /\ pins'[q] = 0 /\ ~retirePending'[q] /\ ~detached'[q]
                        /\ prev'[q] = NoPool /\ next'[q] = NoPool
      BY DEF FreshInv, FreshList
    <2>1. q # p /\ memory[q] = "unused"
      BY <1>1 DEF BaseInv, Types, PoolTypes
    <2>2. q # tail
      BY <1>0, <2>1 DEF RankInv, Ends, Attached, Allocated
    <2> QED
      BY <1>0, <1>1, <2>1, <2>2 DEF BaseInv, FreshInv, Allocate, Types, PoolTypes, ListTypes
  <1>16. ResetInv'
    BY <1>0, <1>10 DEF ResetInv
  <1>17. ApartInv'
    <2>1. \A slot \in Taken : slot # <<p, 0>>
      BY <1>6, <1>7
    <2>2. \A u \in Holders : Held(u) # <<p, 0>>
      BY <2>1 DEF Taken
    <2>3. <<p, 0>> \notin used \cup leaked
      BY <2>1 DEF Taken
    <2> QED
      BY <1>0, <1>3, <1>5, <1>6, <1>7, <2>2, <2>3 DEF BaseInv, ApartInv
  <1>18. SlotsInv'
    <2>1. ASSUME NEW q \in Allocated PROVE SlotsAt(q)'
      <3>1. q \in Pools /\ q # p
        BY <1>3 DEF Allocated
      <3>2. \A j \in Indices : <<q, j>> \in Taken' <=> <<q, j>> \in Taken
        BY <1>6, <3>1
      <3> QED
        BY <1>0, <1>1, <3>1, <3>2, SlotsStay DEF BaseInv, SlotsInv, Allocate, Types, ListTypes
    <2> QED
      BY <1>3, <1>8, <2>1 DEF SlotsInv
  <1>19. LiveInv'
    <2>1. \A q \in Attached : q \in Pools /\ q # p
      BY <1>3 DEF Attached, Allocated
    <2>2. \A q \in Attached : live'[q] = live[q]
      BY <1>1, <2>1 DEF Allocate, BaseInv, Types, ListTypes
    <2> QED
      BY <1>0, <1>3, <1>8, <2>2 DEF BaseInv, LiveInv
  <1>20. PICK rks \in [Pools -> Int] :
           /\ \A q \in Attached : rks[q] = rk[q] /\ rks[q] \in Int /\ rks[q] < rks[p]
           /\ rks[p] \in Int
    <2> DEFINE r == [rk EXCEPT ![p] = IF tail = NoPool THEN 0 ELSE rk[tail] + 1]
    <2>1. \A q \in Attached : q \in Pools /\ q # p
      BY <1>3 DEF Attached, Allocated
    <2>2. tail \in Pools \cup {NoPool}
      BY DEF BaseInv, Types, PoolTypes
    <2>3. \A q \in Attached : tail # NoPool /\ rk[q] <= rk[tail]
      BY <1>0 DEF RankInv, Ends
    <2>4. /\ r \in [Pools -> Int] /\ \A q \in Attached : r[q] = rk[q] /\ r[q] < r[p]
      BY <2>1, <2>2, <2>3
    <2> HIDE DEF r
    <2> QED
      BY <2>1, <2>4
  <1>21. /\ tail = NoPool => Attached = {} /\ head = NoPool
         /\ tail # NoPool => tail \in Attached /\ head \in Attached /\ next[tail] = NoPool
    <2>1. ASSUME tail # NoPool PROVE next[tail] = NoPool
      <3>1. tail \in Attached /\ \A q \in Attached : rk[q] <= rk[tail]
        BY <1>0, <2>1 DEF RankInv, Ends
      <3>2. ~ (rk[tail] < rk[next[tail]]) \/ next[tail] \notin Attached
        <4>1. rk[tail] \in Int
          BY <1>20, <3>1
        <4>2. \A q \in Attached : rk[q] \in Int
          BY <1>20
        <4> QED
          BY <3>1, <4>1, <4>2
      <3> QED
        BY <3>1, <3>2 DEF RankInv, Links
    <2> QED
      BY <1>0, <2>1 DEF RankInv, Ends
  <1>22. /\ \A q \in Attached : next'[q] = IF q = tail THEN p ELSE next[q]
         /\ next'[p] = NoPool /\ prev'[p] = tail
         /\ \A q \in Attached : prev'[q] = prev[q]
    <2>1. \A q \in Attached : q \in Pools /\ q # p
      BY <1>3 DEF Attached, Allocated
    <2> QED
      BY <1>1, <1>2, <1>3, <1>21, <2>1 DEF BaseInv, Types, PoolTypes
  <1>23. Links(rks)'
    <2>1. \A q, q2 \in Attached : rk[q] = rk[q2] => q = q2
      BY DEF RankInv, Links
    <2>2. \A q \in Attached :
             \/ next[q] = NoPool /\ \A q2 \in Attached : rk[q2] <= rk[q]
             \/ /\ next[q] \in Attached /\ rk[q] < rk[next[q]]
                /\ \A q2 \in Attached : rk[q2] <= rk[q] \/ rk[q2] >= rk[next[q]]
      BY DEF RankInv, Links
    <2>3. \A q \in Attached : tail # NoPool /\ rk[q] <= rk[tail]
      BY <1>0 DEF RankInv, Ends
    <2>4. ASSUME NEW q \in Attached, q # tail PROVE next[q] # NoPool
      <3>1. tail \in Attached /\ rk[q] <= rk[tail] /\ rk[q] # rk[tail]
        BY <1>21, <2>1, <2>3, <2>4
      <3>2. rk[q] \in Int /\ rk[tail] \in Int
        BY <1>20, <3>1
      <3> QED
        <4>1. NoPool \notin Attached
          BY DEF Attached, Allocated
        <4> QED
          BY <2>2, <3>1, <3>2, <4>1
    <2>5. /\ \A q, q2 \in Attached' : rks[q] = rks[q2] => q = q2
      BY <1>3, <1>20, <2>1
    <2>6. ASSUME NEW q \in Attached'
          PROVE  \/ next'[q] = NoPool /\ \A q2 \in Attached' : rks[q2] <= rks[q]
                 \/ /\ next'[q] \in Attached' /\ rks[q] < rks[next'[q]]
                    /\ \A q2 \in Attached' : rks[q2] <= rks[q] \/ rks[q2] >= rks[next'[q]]
      <3>1. CASE q = p
        BY <1>3, <1>20, <1>22, <3>1
      <3>2. CASE q = tail /\ q # p
        BY <1>3, <1>20, <1>22, <2>3, <3>2
      <3>3. CASE q # tail /\ q # p
        BY <1>3, <1>20, <1>22, <2>2, <2>4, <3>3
      <3> QED
        BY <3>1, <3>2, <3>3
    <2> QED
      BY <2>5, <2>6 DEF Links
  <1>24. Ends(rks)'
    <2>1. NoPool \notin Attached /\ p # NoPool
      BY DEF Attached, Allocated
    <2>2. /\ Attached # {} => /\ head \in Attached /\ tail \in Attached
                        /\ \A q \in Attached : rk[head] <= rk[q] /\ rk[q] <= rk[tail]
          /\ \A q \in Attached :
                /\ prev[q] = NoPool <=> q = head
                /\ prev[q] # NoPool => prev[q] \in Attached /\ next[prev[q]] = q
                /\ next[q] # NoPool => prev[next[q]] = q
      BY <1>0 DEF RankInv, Ends
    <2>3. \A q \in Attached : next[q] # NoPool => next[q] \in Attached
      BY DEF RankInv, Links
    <2>4. /\ head' \in Attached' /\ tail' = p /\ p \in Attached'
          /\ head' = IF tail = NoPool THEN p ELSE head
      BY <1>1, <1>3, <1>21
    <2>5. ASSUME NEW q \in Attached'
          PROVE  rks[head'] <= rks[q] /\ rks[q] <= rks[p]
      BY <1>3, <1>20, <1>21, <2>2, <2>4
    <2>6. ASSUME NEW q \in Attached'
          PROVE  /\ prev'[q] = NoPool <=> q = head'
                 /\ prev'[q] # NoPool => prev'[q] \in Attached' /\ next'[prev'[q]] = q
                 /\ next'[q] # NoPool => prev'[next'[q]] = q
      <3>1. CASE q = p
        BY <1>3, <1>21, <1>22, <2>1, <2>4, <3>1
      <3>2. CASE q \in Attached
        <4>1. prev'[q] = NoPool <=> q = head'
          BY <1>3, <1>21, <1>22, <2>2, <2>4, <3>2
        <4>2. ASSUME prev[q] # NoPool
              PROVE  prev[q] # tail
          <5>1. prev[q] \in Attached /\ next[prev[q]] = q /\ q # NoPool
            BY <2>1, <2>2, <3>2, <4>2
          <5> QED
            BY <1>21, <5>1
        <4>3. prev'[q] # NoPool => prev'[q] \in Attached' /\ next'[prev'[q]] = q
          BY <1>3, <1>22, <2>2, <3>2, <4>2
        <4>4. next'[q] # NoPool => prev'[next'[q]] = q
          BY <1>22, <2>2, <2>3, <3>2
        <4> QED
          BY <4>1, <4>3, <4>4
      <3> QED
        BY <1>3, <3>1, <3>2
    <2>7. head' # NoPool /\ p # NoPool /\ Attached' # {}
      BY <1>3, <2>1, <2>4
    <2> QED
      BY <2>4, <2>5, <2>6, <2>7 DEF Ends
  <1>25. \A u \in Threads : \A q : ~ PinnedBy(rk, u, q) /\ ~ PinnedBy(rks, u, q)'
    BY <1>0, <1>9 DEF PinnedBy, Others
  <1>26. PinsInv(rks)'
    <2>1. \A q \in Attached : pins[q] = 0
      BY <1>0, <1>25 DEF RankInv, PinsInv
    <2> QED
      BY <1>0, <1>2, <1>3, <1>25, <2>1 DEF PinsInv
  <1>27. WalkInv(rks)'
    BY <1>0, <1>9, <1>10 DEF WalkInv, Others
  <1>28. PendingInv(rks)'
    BY <1>0, <1>4, <1>9, <1>10 DEF PendingInv, Others
  <1> QED
    BY <1>11, <1>12, <1>13, <1>14, <1>15, <1>16, <1>17, <1>18, <1>19, <1>20, <1>23, <1>24,
       <1>26, <1>27, <1>28 DEF BaseInv, RankInv

-----------------------------------------------------------------------------
(* A slot comes back to the front of the free list.                        *)
LEMMA ListGiven ==
  ASSUME Types, NEW p \in Pools, NEW i \in Busy(p), SlotsAt(p), GiveBack(p, i),
         Taken' = Taken \ {<<p, i>>}
  PROVE  /\ SlotsAt(p)' /\ live[p] >= 1
         /\ nextFreed' = [nextFreed EXCEPT ![p][i] = latestFree[p]]
         /\ latestFree' = [latestFree EXCEPT ![p] = i]
         /\ live' = [live EXCEPT ![p] = @ - 1] /\ ListTypes'
         /\ live'[p] = live[p] - 1
  <1>0. i \in Indices /\ i \notin Unused(p) /\ live[p] \in 0 .. Capacity
    BY DEF Busy, Unused, Types, ListTypes
  <1>1. PICK r \in [Indices -> Int] : ListAt(p, r)
    BY DEF SlotsAt
  <1>2. live[p] >= 1 /\ live[p] = Cardinality(Busy(p))
    BY <1>0, BusyFinite, FS_EmptySet, FS_CardinalityType DEF SlotsAt
  <1>3. /\ nextFreed' = [nextFreed EXCEPT ![p][i] = latestFree[p]]
        /\ latestFree' = [latestFree EXCEPT ![p] = i]
        /\ live' = [live EXCEPT ![p] = @ - 1]
    BY <1>2 DEF GiveBack
  <1>4. /\ latestFree'[p] = i /\ live'[p] = live[p] - 1
        /\ nextFreed'[p][i] = latestFree[p]
        /\ \A j \in Indices \ {i} : nextFreed'[p][j] = nextFreed[p][j]
    BY <1>0, <1>3 DEF Types, ListTypes
  <1>5. ListTypes'
    <2>1. live' \in [Pools -> 0 .. Capacity]
      <3>1. live[p] - 1 \in 0 .. Capacity
        BY <1>0, <1>2, ChainAssumption
      <3>2. live \in [Pools -> 0 .. Capacity]
        BY DEF Types, ListTypes
      <3> QED
        BY <1>3, <3>1, <3>2
    <2>2. latestFree' \in [Pools -> 0 .. Capacity]
      BY <1>0, <1>3 DEF Types, ListTypes
    <2>3. nextFreed' \in [Pools -> [Indices -> 0 .. Capacity]]
      BY <1>0, <1>3 DEF Types, ListTypes
    <2> QED
      BY <2>1, <2>2, <2>3 DEF ListTypes
  <1>6. Busy(p)' = Busy(p) \ {i} /\ Unused(p)' = Unused(p) \cup {i}
    BY <1>0 DEF Busy, Unused
  <1>7. live'[p] = Cardinality(Busy(p)')
    BY <1>2, <1>4, <1>6, BusyFinite, FS_RemoveElement
  <1>8. PICK s \in [Indices -> Int] :
          /\ \A j \in Unused(p) : s[j] = r[j] /\ s[i] < s[j] /\ r[j] \in Int
          /\ s[i] \in Int
    <2> DEFINE s == [r EXCEPT ![i] = IF latestFree[p] = Capacity
                                       THEN 0 ELSE r[latestFree[p]] - 1]
    <2>1. latestFree[p] # Capacity => latestFree[p] \in Indices
      BY <1>1 DEF ListAt, Unused
    <2>2. latestFree[p] = Capacity => Unused(p) = {}
      BY <1>1 DEF ListAt
    <2>3. \A j \in Unused(p) : j \in Indices /\ j # i
      BY <1>0 DEF Unused
    <2>4. \A j \in Unused(p) : r[j] \in Int /\ r[latestFree[p]] <= r[j]
      BY <1>1, <2>2, <2>3 DEF ListAt
    <2>5. s \in [Indices -> Int] /\ s[i] \in Int
      BY <1>0, <2>1
    <2>6. \A j \in Unused(p) : s[j] = r[j] /\ s[i] < s[j]
      <3> SUFFICES ASSUME NEW j \in Unused(p) PROVE s[j] = r[j] /\ s[i] < s[j]
        OBVIOUS
      <3>1. s[i] = r[latestFree[p]] - 1 /\ latestFree[p] \in Indices
        BY <1>0, <2>1, <2>2
      <3>2. r[latestFree[p]] \in Int
        BY <3>1
      <3> QED
        BY <2>3, <2>4, <3>1, <3>2
    <2> QED
      BY <2>4, <2>5, <2>6
  <1>9. ListAt(p, s)'
    <2>1. /\ \A j, k \in Unused(p) : r[j] = r[k] => j = k
          /\ latestFree[p] \in Unused(p) \cup {Capacity}
          /\ latestFree[p] = Capacity => Unused(p) = {}
          /\ latestFree[p] # Capacity => \A j \in Unused(p) : r[latestFree[p]] <= r[j]
          /\ \A j \in Unused(p) :
               \/ nextFreed[p][j] = Capacity /\ \A k \in Unused(p) : r[k] <= r[j]
               \/ /\ nextFreed[p][j] \in Unused(p) /\ r[j] < r[nextFreed[p][j]]
                  /\ \A k \in Unused(p) : r[k] <= r[j] \/ r[k] >= r[nextFreed[p][j]]
      BY <1>1 DEF ListAt
    <2>2. i # Capacity /\ Capacity \notin Unused(p)
      BY <1>0 DEF Unused
    <2>3. \A j \in Unused(p)' : s[i] <= s[j] /\ s[j] \in Int
      BY <1>6, <1>8
    <2>4. \A j, k \in Unused(p)' : s[j] = s[k] => j = k
      BY <1>6, <1>8, <2>1
    <2>5. ASSUME NEW j \in Unused(p)'
          PROVE  \/ nextFreed'[p][j] = Capacity /\ \A k \in Unused(p)' : s[k] <= s[j]
                 \/ /\ nextFreed'[p][j] \in Unused(p)' /\ s[j] < s[nextFreed'[p][j]]
                    /\ \A k \in Unused(p)' : s[k] <= s[j] \/ s[k] >= s[nextFreed'[p][j]]
      <3>1. CASE j = i /\ latestFree[p] = Capacity
        BY <1>4, <1>6, <1>8, <2>1, <3>1
      <3>2. CASE j = i /\ latestFree[p] # Capacity
        <4> PICK q : q = latestFree[p]
          OBVIOUS
        <4>1. q \in Unused(p) /\ q \in Unused(p)' /\ nextFreed'[p][j] = q
          BY <1>4, <1>6, <2>1, <3>2
        <4>2. s[j] < s[q] /\ s[q] = r[q]
          BY <1>8, <3>2, <4>1
        <4>3. \A k \in Unused(p) : s[k] = r[k] /\ r[q] <= r[k]
          BY <1>8, <2>1, <3>2
        <4>4. \A k \in Unused(p)' : s[k] <= s[j] \/ s[k] >= s[q]
          BY <1>6, <2>3, <3>2, <4>2, <4>3
        <4> QED
          BY <4>1, <4>2, <4>4
      <3>3. CASE j # i
        <4>1. PICK q : q = nextFreed[p][j]
          OBVIOUS
        <4>2. /\ j \in Unused(p) /\ nextFreed'[p][j] = q
              /\ s[j] = r[j] /\ s[i] < s[j]
          BY <1>4, <1>6, <1>8, <3>3, <4>1 DEF Unused
        <4>3. CASE q = Capacity
          <5>1. \A k \in Unused(p) : r[k] <= r[j]
            <6>1. nextFreed[p][j] \notin Unused(p)
              BY <2>2, <4>1, <4>3
            <6> QED
              BY <2>1, <4>2, <6>1
          <5>2. \A k \in Unused(p)' : s[k] <= s[j]
            BY <1>6, <1>8, <2>3, <4>2, <5>1
          <5> QED
            BY <4>2, <4>3, <5>2
        <4>4. CASE q # Capacity
          <5>1. /\ q \in Unused(p) /\ r[j] < r[q]
                /\ \A k \in Unused(p) : r[k] <= r[j] \/ r[k] >= r[q]
            BY <2>1, <4>1, <4>2, <4>4
          <5>2. q \in Unused(p)' /\ s[q] = r[q]
            BY <1>6, <1>8, <5>1
          <5>3. \A k \in Unused(p)' : s[k] <= s[j] \/ s[k] >= s[q]
            BY <1>6, <1>8, <2>3, <4>2, <5>1, <5>2
          <5> QED
            BY <4>2, <5>1, <5>2, <5>3
        <4> QED
          BY <4>3, <4>4
      <3> QED
        BY <3>1, <3>2, <3>3
    <2> QED
      BY <1>4, <1>6, <2>2, <2>3, <2>4, <2>5 DEF ListAt
  <1> QED
    BY <1>2, <1>3, <1>4, <1>5, <1>7, <1>9 DEF SlotsAt

(* The return of a slot that leaves its pool on the chain, and the return  *)
(* that takes it off.                                                      *)
Keeps(t) ==
    /\ ~ (live[pool[t]] = 1 /\ pins[pool[t]] = 0)
    /\ retirePending' = [retirePending EXCEPT ![pool[t]] = @ \/ live[pool[t]] = 1]
    /\ UNCHANGED <<detached, chainVars>>
    /\ pc' = [pc EXCEPT ![t] = IF pc[t] = "rollback" THEN "unlock" ELSE Back(t)]
    /\ pool' = [pool EXCEPT ![t] = NoPool] /\ index' = [index EXCEPT ![t] = 0]
Empties(t) ==
    /\ live[pool[t]] = 1 /\ pins[pool[t]] = 0
    /\ retirePending' = [retirePending EXCEPT ![pool[t]] = FALSE]
    /\ detached' = [detached EXCEPT ![pool[t]] = TRUE]
    /\ Unlinked(pool[t], next[pool[t]])
    /\ pc' = [pc EXCEPT ![t] = IF pc[t] = "rollback" THEN "freeRolled" ELSE "freeReturned"]
    /\ UNCHANGED <<pool, index>>

(* A slot that is given back is one of an attached pool, and is taken      *)
(* until then.                                                             *)
LEMMA ReturnFacts ==
  ASSUME BaseInv, NEW t \in Threads, Returns(t)
  PROVE  /\ InService /\ Step(t) /\ Others(t)
         /\ pc[t] \in {"rollback", "returnSlot"} /\ chainLock = NoThread
         /\ pool[t] \in Attached /\ pool[t] \in Pools /\ pool[t] \in Allocated
         /\ index[t] \in Busy(pool[t]) /\ index[t] \in Indices
         /\ detached[pool[t]] = FALSE
         /\ Holders' = Holders \ {t} /\ t \in Holders
         /\ \A u \in Holders' : Held(u)' = Held(u)
         /\ Taken' = Taken \ {Held(t)}
         /\ GiveBack(pool[t], index[t])
         /\ UNCHANGED <<memory, pins, lockVars, used, flushVars, scopeVars, cursor>>
         /\ Keeps(t) \/ Empties(t)
  <1>1. pc[t] \in {"rollback", "returnSlot"} /\ chainLock = NoThread /\ Step(t)
    BY DEF Returns, Rollback, ReturnSlot, Return, Step
  <1>2. /\ InService /\ t \in Holders /\ Held(t) \in Taken
        /\ pool[t] \in Attached /\ index[t] \in Busy(pool[t])
    BY <1>1, HolderFacts
  <1>3. pool[t] \in Pools /\ pool[t] \in Allocated /\ detached[pool[t]] = FALSE
    BY <1>2 DEF Attached, Allocated, BaseInv, Types, PoolTypes
  <1>4. Others(t)
    BY <1>1, OthersStay DEF BaseInv, Types
  <1>5. /\ GiveBack(pool[t], index[t])
        /\ UNCHANGED <<memory, pins, lockVars, used, flushVars, scopeVars, cursor>>
        /\ Keeps(t) \/ Empties(t)
    <2>1. CASE Rollback(t)
      BY <1>3, <2>1 DEF Rollback, Return, Keeps, Empties, Goto, Forget
    <2>2. CASE ReturnSlot(t)
      BY <1>3, <2>2 DEF ReturnSlot, Return, Keeps, Empties, Goto, Forget
    <2> QED
      BY <2>1, <2>2 DEF Returns
  <1>6. Holders' = Holders \ {t} /\ \A u \in Holders' : Held(u)' = Held(u)
    <2>1. pc'[t] \notin {"store", "rollback", "returnSlot"}
      BY <1>5 DEF Keeps, Empties, Back, BaseInv, Types, ThreadTypes
    <2> QED
      BY <1>4, <2>1 DEF Holders, Held, Others
  <1>7. Taken' = Taken \ {Held(t)}
    BY <1>2, <1>5, <1>6 DEF Taken, BaseInv, ApartInv
  <1>8. index[t] \in Indices
    BY <1>2 DEF Busy
  <1> QED
    BY <1>1, <1>2, <1>3, <1>4, <1>5, <1>6, <1>7, <1>8

(* After it is given back it is on the free list, and the count is right.  *)
LEMMA ReturnBase ==
  ASSUME BaseInv, NEW t \in Threads, Returns(t), InService'
  PROVE  /\ ListTypes' /\ \A q \in Allocated : SlotsAt(q)'
         /\ live'[pool[t]] = live[pool[t]] - 1 /\ live[pool[t]] >= 1
         /\ \A q \in Pools \ {pool[t]} : /\ live'[q] = live[q]
                                         /\ latestFree'[q] = latestFree[q]
                                         /\ nextFreed'[q] = nextFreed[q]
         /\ \A u, v \in Holders' : Held(u)' = Held(v)' => u = v
         /\ \A u \in Holders' : Held(u)' \notin used' \cup leaked'
         /\ used' \cap leaked' = {}
  <1>a. PICK p, i : p = pool[t] /\ i = index[t]
    OBVIOUS
  <1>0. /\ InService /\ p \in Pools /\ p \in Allocated /\ i \in Busy(p) /\ i \in Indices
        /\ GiveBack(p, i) /\ Taken' = Taken \ {<<p, i>>} /\ Types
        /\ used' = used /\ leaked' = leaked
    BY <1>a, ReturnFacts DEF Held, BaseInv
  <1>1. SlotsAt(p)
    BY <1>0 DEF BaseInv, SlotsInv
  <1>2. /\ SlotsAt(p)' /\ live[p] >= 1
        /\ nextFreed' = [nextFreed EXCEPT ![p][i] = latestFree[p]]
        /\ latestFree' = [latestFree EXCEPT ![p] = i]
        /\ live' = [live EXCEPT ![p] = @ - 1] /\ ListTypes'
        /\ live'[p] = live[p] - 1
    BY <1>0, <1>1, ListGiven
  <1>3. \A q \in Pools \ {p} : /\ live'[q] = live[q] /\ latestFree'[q] = latestFree[q]
                               /\ nextFreed'[q] = nextFreed[q]
    BY <1>2 DEF BaseInv, Types, ListTypes
  <1>4. ASSUME NEW q \in Allocated \ {p} PROVE SlotsAt(q)'
    <2>1. q \in Pools \ {p}
      BY DEF Allocated
    <2>2. \A j \in Indices : <<q, j>> \in Taken' <=> <<q, j>> \in Taken
      BY <1>0, <2>1
    <2> QED
      BY <1>0, <1>3, <2>1, <2>2, SlotsStay DEF BaseInv, SlotsInv
  <1>5. /\ Holders' \subseteq Holders /\ \A u \in Holders' : Held(u)' = Held(u)
    BY ReturnFacts
  <1>6. /\ \A u, v \in Holders' : Held(u)' = Held(v)' => u = v
        /\ \A u \in Holders' : Held(u)' \notin used' \cup leaked'
        /\ used' \cap leaked' = {}
    BY <1>0, <1>5 DEF BaseInv, ApartInv
  <1> QED
    BY <1>a, <1>2, <1>3, <1>4, <1>6

-----------------------------------------------------------------------------
(* A pool that is taken off the chain.                                     *)
LEMMA RankFacts ==
  ASSUME Types, NEW rk \in [Pools -> Int], Links(rk)
  PROVE  /\ NoPool \notin Attached /\ Attached \subseteq Pools
         /\ \A q \in Attached : rk[q] \in Int
         /\ \A q, q2 \in Attached : rk[q] = rk[q2] => q = q2
         /\ \A q \in Attached : next[q] # NoPool => next[q] \in Attached /\ rk[q] < rk[next[q]]
         /\ \A q \in Attached : next[q] = NoPool => \A q2 \in Attached : rk[q2] <= rk[q]
         /\ \A q, q2 \in Attached : next[q] # NoPool =>
               rk[q2] <= rk[q] \/ rk[q2] >= rk[next[q]]
  <1>1. NoPool \notin Attached /\ Attached \subseteq Pools
    BY DEF Attached, Allocated
  <1> QED
    BY <1>1 DEF Links

(* The ends and the two directions of the chain, from the ranks.           *)
LEMMA EndFacts ==
  ASSUME Types, NEW rk \in [Pools -> Int], Links(rk), Ends(rk), InService
  PROVE  /\ Attached # {} => /\ head \in Attached /\ tail \in Attached
                             /\ \A q \in Attached : rk[head] <= rk[q] /\ rk[q] <= rk[tail]
         /\ \A q \in Attached : /\ prev[q] = NoPool <=> q = head
                                /\ next[q] = NoPool <=> q = tail
         /\ \A q \in Attached : prev[q] # NoPool =>
               prev[q] \in Attached /\ next[prev[q]] = q /\ rk[prev[q]] < rk[q]
         /\ \A q \in Attached : next[q] # NoPool => prev[next[q]] = q
  <1>1. /\ Attached # {} => /\ head \in Attached /\ tail \in Attached
                            /\ \A q \in Attached : rk[head] <= rk[q] /\ rk[q] <= rk[tail]
        /\ \A q \in Attached : prev[q] = NoPool <=> q = head
        /\ \A q \in Attached : prev[q] # NoPool => prev[q] \in Attached /\ next[prev[q]] = q
        /\ \A q \in Attached : next[q] # NoPool => prev[next[q]] = q
    BY DEF Ends
  <1>2. \A q \in Attached : next[q] = NoPool <=> q = tail
    <2> SUFFICES ASSUME NEW q \in Attached PROVE next[q] = NoPool <=> q = tail
      OBVIOUS
    <2>1. tail \in Attached /\ rk[q] \in Int /\ rk[tail] \in Int /\ rk[q] <= rk[tail]
      BY <1>1, RankFacts
    <2>2. ASSUME next[q] = NoPool PROVE q = tail
      <3>1. rk[tail] <= rk[q]
        BY <2>1, <2>2, RankFacts
      <3> QED
        BY <2>1, <3>1, RankFacts
    <2>3. ASSUME q = tail, next[q] # NoPool PROVE FALSE
      <3>1. next[q] \in Attached /\ rk[q] < rk[next[q]] /\ rk[next[q]] \in Int
        BY <2>3, RankFacts
      <3>2. rk[next[q]] <= rk[q]
        BY <1>1, <2>3, <3>1
      <3> QED
        BY <2>1, <3>1, <3>2
    <2> QED
      BY <2>2, <2>3
  <1>3. \A q \in Attached : prev[q] # NoPool => rk[prev[q]] < rk[q]
    BY <1>1, RankFacts
  <1> QED
    BY <1>1, <1>2, <1>3

(* Without p, the chain is linked in the same order.                       *)
LEMMA ChainUnlinked ==
  ASSUME Types, NEW rk \in [Pools -> Int], Links(rk), Ends(rk), InService,
         NEW p \in Attached, NEW rest, Attached' = Attached \ {p}, Unlinked(p, rest)
  PROVE  /\ Links(rk)' /\ Ends(rk)'
         /\ next'[p] = rest
         /\ \A q \in Pools : q # p /\ q \notin Attached => next'[q] = next[q]
         /\ \A q \in Pools : q \notin Attached => prev'[q] = prev[q]
  <1> DEFINE A == Attached
  <1>1. /\ NoPool \notin A /\ A \subseteq Pools /\ p \in Pools /\ p \in A
        /\ \A q \in A : rk[q] \in Int
        /\ \A q, q2 \in A : rk[q] = rk[q2] => q = q2
        /\ \A q \in A : next[q] # NoPool => next[q] \in A /\ rk[q] < rk[next[q]]
        /\ \A q \in A : next[q] = NoPool => \A q2 \in A : rk[q2] <= rk[q]
        /\ \A q, q2 \in A : next[q] # NoPool => rk[q2] <= rk[q] \/ rk[q2] >= rk[next[q]]
    BY RankFacts
  <1>2. /\ head \in A /\ tail \in A
        /\ \A q \in A : rk[head] <= rk[q] /\ rk[q] <= rk[tail]
        /\ \A q \in A : prev[q] = NoPool <=> q = head
        /\ \A q \in A : next[q] = NoPool <=> q = tail
        /\ \A q \in A : prev[q] # NoPool =>
              prev[q] \in A /\ next[prev[q]] = q /\ rk[prev[q]] < rk[q]
        /\ \A q \in A : next[q] # NoPool => prev[next[q]] = q
    BY EndFacts
  <1>3. prev[p] # p /\ next[p] # p
    BY <1>1, <1>2
  <1>4. /\ next'[p] = rest
        /\ prev[p] # NoPool => next'[prev[p]] = next[p]
        /\ \A q \in Pools : q # p /\ q # prev[p] => next'[q] = next[q]
    BY <1>1, <1>2, <1>3 DEF Unlinked
  <1>5. /\ next[p] # NoPool => prev'[next[p]] = prev[p]
        /\ \A q \in Pools : q # next[p] => prev'[q] = prev[q]
    BY <1>1 DEF Unlinked, Types, PoolTypes
  <1>6. /\ head' = IF p = head THEN next[p] ELSE head
        /\ tail' = IF p = tail THEN prev[p] ELSE tail
    BY <1>2 DEF Unlinked
  <1>7. A' = A \ {p}
    OBVIOUS
  <1> HIDE DEF A
  <1>8. ASSUME NEW q \in A \ {p}
        PROVE  \/ next'[q] = NoPool /\ \A q2 \in A \ {p} : rk[q2] <= rk[q]
               \/ /\ next'[q] \in A \ {p} /\ rk[q] < rk[next'[q]]
                  /\ \A q2 \in A \ {p} : rk[q2] <= rk[q] \/ rk[q2] >= rk[next'[q]]
    <2>1. CASE q = prev[p]
      <3>1. next[q] = p /\ next'[q] = next[p] /\ rk[q] < rk[p] /\ rk[q] \in Int /\ rk[p] \in Int
        BY <1>1, <1>2, <1>4, <2>1
      <3>2. ASSUME NEW q2 \in A \ {p} PROVE rk[q2] \in Int /\ (rk[q2] <= rk[q] \/ rk[q2] > rk[p])
        <4>1. rk[q2] \in Int /\ rk[q2] # rk[p] /\ (rk[q2] <= rk[q] \/ rk[q2] >= rk[p])
          BY <1>1, <2>1, <3>1
        <4> QED
          BY <3>1, <4>1
      <3>3. CASE next[p] = NoPool
        <4>1. \A q2 \in A \ {p} : rk[q2] <= rk[p]
          BY <1>1, <3>3
        <4> QED
          BY <3>1, <3>2, <3>3, <4>1
      <3>4. CASE next[p] # NoPool
        <4>1. /\ next[p] \in A \ {p} /\ rk[p] < rk[next[p]] /\ rk[next[p]] \in Int
              /\ \A q2 \in A \ {p} : rk[q2] <= rk[p] \/ rk[q2] >= rk[next[p]]
          BY <1>1, <1>3, <3>4
        <4> QED
          BY <3>1, <3>2, <4>1
      <3> QED
        BY <3>3, <3>4
    <2>2. CASE q # prev[p]
      <3>1. next'[q] = next[q]
        BY <1>1, <1>4, <2>2
      <3>2. next[q] # p
        BY <1>1, <1>2, <2>2
      <3> QED
        BY <1>1, <3>1, <3>2
    <2> QED
      BY <2>1, <2>2
  <1>9. Links(rk)'
    <2>1. \A q, q2 \in A \ {p} : rk[q] = rk[q2] => q = q2
      BY <1>1
    <2>2. Attached' = A \ {p}
      BY DEF A
    <2> QED
      BY <1>8, <2>1, <2>2 DEF Links
  <1>10. ASSUME A \ {p} # {}
         PROVE  /\ head' \in A \ {p} /\ tail' \in A \ {p}
                /\ \A q \in A \ {p} : rk[head'] <= rk[q] /\ rk[q] <= rk[tail']
    <2>1. PICK q0 \in A \ {p} : TRUE
      BY <1>10
    <2>2. /\ head' \in A \ {p} /\ \A q \in A \ {p} : rk[head'] <= rk[q]
      <3>1. CASE p = head
        <4>1. next[p] # NoPool
          <5>1. rk[q0] # rk[p] /\ rk[head] <= rk[q0] /\ rk[q0] \in Int /\ rk[p] \in Int
            BY <1>1, <1>2, <2>1
          <5> QED
            BY <1>1, <2>1, <3>1, <5>1
        <4>2. ASSUME NEW q \in A \ {p} PROVE rk[next[p]] <= rk[q]
          <5>1. /\ rk[q] # rk[p] /\ rk[p] <= rk[q] /\ rk[q] \in Int /\ rk[p] \in Int
                /\ rk[next[p]] \in Int /\ (rk[q] <= rk[p] \/ rk[q] >= rk[next[p]])
            BY <1>1, <1>2, <3>1, <4>1
          <5> QED
            BY <5>1
        <4> QED
          BY <1>1, <1>3, <1>6, <3>1, <4>1, <4>2
      <3>2. CASE p # head
        BY <1>2, <1>6, <3>2
      <3> QED
        BY <3>1, <3>2
    <2>3. /\ tail' \in A \ {p} /\ \A q \in A \ {p} : rk[q] <= rk[tail']
      <3>1. CASE p = tail
        <4>1. prev[p] # NoPool
          <5>1. rk[q0] # rk[p] /\ rk[q0] <= rk[tail] /\ rk[q0] \in Int /\ rk[p] \in Int
            BY <1>1, <1>2, <2>1
          <5>2. p # head
            BY <1>2, <2>1, <3>1, <5>1
          <5> QED
            BY <1>1, <1>2, <5>2
        <4>2. ASSUME NEW q \in A \ {p} PROVE rk[q] <= rk[prev[p]]
          <5>1. prev[p] \in A /\ next[prev[p]] = p /\ p # NoPool
            BY <1>1, <1>2, <4>1
          <5>2. /\ rk[q] # rk[p] /\ rk[q] <= rk[p] /\ rk[q] \in Int /\ rk[p] \in Int
                /\ rk[prev[p]] \in Int /\ (rk[q] <= rk[prev[p]] \/ rk[q] >= rk[p])
            BY <1>1, <1>2, <3>1, <5>1
          <5> QED
            BY <5>2
        <4> QED
          BY <1>2, <1>3, <1>6, <3>1, <4>1, <4>2
      <3>2. CASE p # tail
        BY <1>2, <1>6, <3>2
      <3> QED
        BY <3>1, <3>2
    <2> QED
      BY <2>2, <2>3
  <1>11. ASSUME A \ {p} = {}
         PROVE  head' = NoPool /\ tail' = NoPool
    <2>1. head = p /\ tail = p
      BY <1>2, <1>11
    <2>2. next[p] = NoPool /\ prev[p] = NoPool
      BY <1>2, <2>1, <1>1
    <2> QED
      BY <1>6, <2>1, <2>2
  <1>12. ASSUME NEW q \in A \ {p}
         PROVE  /\ prev'[q] = NoPool <=> q = head'
                /\ prev'[q] # NoPool => prev'[q] \in A \ {p} /\ next'[prev'[q]] = q
                /\ next'[q] # NoPool => prev'[next'[q]] = q
    <2>0. q \in Pools /\ p # NoPool
      BY <1>1
    <2>1. CASE q = next[p]
      <3>1. prev[q] = p /\ prev'[q] = prev[p] /\ q # head /\ q # NoPool
        BY <1>1, <1>2, <1>5, <2>0, <2>1
      <3>2. prev'[q] = NoPool <=> q = head'
        BY <1>2, <1>6, <2>1, <3>1
      <3>3. prev'[q] # NoPool => prev'[q] \in A \ {p} /\ next'[prev'[q]] = q
        BY <1>2, <1>3, <1>4, <2>1, <3>1
      <3> QED
        BY <3>2, <3>3, <1>8, <2>1, <3>1, <1>1, <1>2, <1>4, <1>5
    <2>2. CASE q # next[p]
      <3>1. prev'[q] = prev[q]
        BY <1>5, <2>0, <2>2
      <3>2. prev[q] # p
        BY <1>1, <1>2, <2>0, <2>2
      <3>3. prev'[q] = NoPool <=> q = head'
        BY <1>2, <1>6, <2>2, <3>1
      <3>4. ASSUME prev'[q] # NoPool PROVE prev'[q] \in A \ {p} /\ next'[prev'[q]] = q
        <4>1. prev[q] \in A \ {p} /\ next[prev[q]] = q /\ prev[q] \in Pools
          BY <1>1, <1>2, <3>1, <3>2, <3>4
        <4>2. prev[q] # prev[p]
          BY <1>1, <1>2, <4>1, <2>0
        <4> QED
          BY <1>4, <3>1, <4>1, <4>2
      <3> QED
        BY <3>3, <3>4, <1>1, <1>2, <1>4, <1>5, <2>0
    <2>3. ASSUME next'[q] # NoPool PROVE prev'[next'[q]] = q
      <3>1. CASE q = prev[p]
        BY <1>4, <1>5, <2>3, <3>1, <1>1
      <3>2. CASE q # prev[p]
        <4>1. next'[q] = next[q] /\ next[q] \in A /\ prev[next[q]] = q
          BY <1>1, <1>2, <1>4, <2>0, <2>3, <3>2
        <4>2. next[q] # next[p]
          BY <1>1, <1>2, <4>1, <2>3
        <4> QED
          BY <1>1, <1>5, <4>1, <4>2
      <3> QED
        BY <3>1, <3>2
    <2> QED
      BY <2>1, <2>2, <2>3
  <1>13. Ends(rk)'
    <2>1. Attached' = A \ {p}
      BY DEF A
    <2>2. NoPool \notin A \ {p}
      BY <1>1
    <2> QED
      BY <1>10, <1>11, <1>12, <2>1, <2>2 DEF Ends
  <1>14. \A q \in Pools : q \notin Attached => prev'[q] = prev[q]
    BY <1>1, <1>5 DEF A
  <1>15. \A q \in Pools : q # p /\ q \notin Attached => next'[q] = next[q]
    BY <1>2, <1>4, <1>1 DEF A
  <1> QED
    BY <1>4, <1>9, <1>13, <1>14, <1>15

(* Giving a slot back keeps the invariant, whether or not its pool goes.   *)
LEMMA ReturnKeeps ==
  ASSUME BaseInv, NEW t \in Threads, Returns(t), NEW rk \in [Pools -> Int], RankInv(rk)
  PROVE  BaseInv' /\ RankInv(rk)'
  <1>a. PICK p \in Pools : p = pool[t]
    BY ReturnFacts
  <1>0. /\ InService /\ Step(t) /\ Others(t)
        /\ pc[t] \in {"rollback", "returnSlot"} /\ chainLock = NoThread
        /\ p \in Attached /\ p \in Allocated /\ detached[p] = FALSE
        /\ index[t] \in Indices
        /\ UNCHANGED <<memory, pins, lockVars, used, flushVars, scopeVars, cursor>>
        /\ Keeps(t) \/ Empties(t)
        /\ Taken' = Taken \ {Held(t)} /\ t \in Holders
    BY <1>a, ReturnFacts
  <1>1. pc'[t] \in {"freeRolled", "freeReturned", "unlock", "visit", "idle"}
    BY <1>0 DEF Keeps, Empties, Back, BaseInv, Types, ThreadTypes
  <1>2. InService'
    BY <1>0, <1>1 DEF InService, Others
  <1>3. /\ ListTypes' /\ \A q \in Allocated : SlotsAt(q)'
        /\ live'[p] = live[p] - 1 /\ live[p] >= 1
        /\ \A q \in Pools \ {p} : /\ live'[q] = live[q]
                                  /\ latestFree'[q] = latestFree[q]
                                  /\ nextFreed'[q] = nextFreed[q]
        /\ \A u, v \in Holders' : Held(u)' = Held(v)' => u = v
        /\ \A u \in Holders' : Held(u)' \notin used' \cup leaked'
        /\ used' \cap leaked' = {}
    BY <1>2, <1>a, ReturnBase
  <1>4. Allocated' = Allocated
    BY <1>0 DEF Allocated
  <1>5. Types'
    <2>1. PoolTypes'
      <3>1. CASE Keeps(t)
        BY <1>a, <1>0, <3>1 DEF Keeps, BaseInv, Types, PoolTypes
      <3>2. CASE Empties(t)
        <4>1. /\ head' \in Pools \cup {NoPool} /\ tail' \in Pools \cup {NoPool}
              /\ prev' \in [Pools -> Pools \cup {NoPool}]
              /\ next' \in [Pools -> Pools \cup {NoPool}]
          BY <1>a, <3>2 DEF Empties, Unlinked, BaseInv, Types, PoolTypes
        <4> QED
          BY <1>a, <1>0, <3>2, <4>1 DEF Empties, BaseInv, Types, PoolTypes
      <3> QED
        BY <1>0, <3>1, <3>2
    <2>2. ThreadTypes'
      BY <1>0 DEF Keeps, Empties, Back, BaseInv, Types, ThreadTypes
    <2>3. ScopeTypes'
      BY <1>0 DEF BaseInv, Types, ScopeTypes
    <2> QED
      BY <1>3, <2>1, <2>2, <2>3 DEF Types
  <1>6. LockInv'
    BY <1>0, LockKeeps DEF BaseInv, Types
  <1>7. EndInv'
    BY <1>2 DEF InService, EndInv
  <1>8. ResetInv'
    <2>1. seen' = seen /\ pending' = pending /\ writer' = writer
      BY <1>0
    <2>2. pc[t] \notin {"unpin", "freePending", "unlock"}
      BY <1>0
    <2>3. seen # {} /\ writer = t => pc[t] = "returnSlot"
      BY <1>0, OneFlush DEF BaseInv, ResetInv
    <2>4. pc[t] = "returnSlot" /\ writer = t => pc'[t] \in {"visit", "freeReturned"}
      BY <1>0 DEF Keeps, Empties, Back, BaseInv, Types, ThreadTypes
    <2> QED
      BY <1>0, <2>1, <2>2, <2>3, <2>4 DEF BaseInv, ResetInv, Others
  <1>9. SlotsInv'
    BY <1>3, <1>4 DEF SlotsInv
  <1>10. FreshInv'
    <2> SUFFICES ASSUME NEW q \in Pools, memory'[q] = "unused"
                 PROVE  /\ latestFree'[q] = 0 /\ nextFreed'[q] = FreshList
                        /\ live'[q] = 0 /\ pins'[q] = 0 /\ ~retirePending'[q] /\ ~detached'[q]
                        /\ prev'[q] = NoPool /\ next'[q] = NoPool
      BY DEF FreshInv, FreshList
    <2>1. memory[q] = "unused" /\ q # p /\ q \notin Attached
      BY <1>0 DEF Attached, Allocated
    <2>2. retirePending'[q] = retirePending[q] /\ detached'[q] = detached[q]
      BY <1>a, <1>0, <2>1 DEF Keeps, Empties, BaseInv, Types, PoolTypes
    <2>3. next'[q] = next[q] /\ prev'[q] = prev[q]
      <3>1. CASE Keeps(t)
        BY <3>1 DEF Keeps
      <3>2. CASE Empties(t)
        <4>1. q # prev[p] /\ q # next[p]
          BY <1>0, <2>1, RankFacts, EndFacts DEF BaseInv, RankInv
        <4> QED
          BY <1>a, <2>1, <3>2, <4>1 DEF Empties, Unlinked, BaseInv, Types, PoolTypes
      <3> QED
        BY <1>0, <3>1, <3>2
    <2> QED
      BY <1>0, <1>3, <2>1, <2>2, <2>3 DEF BaseInv, FreshInv
  <1>11. CASE Keeps(t)
    <2>1. /\ Attached' = Attached /\ Detached' = Detached
      BY <1>4, <1>11 DEF Keeps, Attached, Detached
    <2>2. /\ pc[t] \in PlainPcs /\ pc'[t] \in PlainPcs /\ pc[t] # "freeReturned"
          /\ pc'[t] # "freeReturned"
          /\ writer = t => (pc[t] \in ScanPcs <=> pc'[t] \in ScanPcs)
      BY <1>0, <1>11 DEF PlainPcs, Keeps, Back, BaseInv, Types, ThreadTypes
    <2>3. RankInv(rk)' /\ Owners' = Owners
      BY <1>0, <1>11, <2>2, RankStays DEF Keeps
    <2>4. OwnInv'
      <3>1. \A u \in Owners : pool'[u] = pool[u]
        BY <1>0 DEF Owners, Others
      <3> QED
        BY <2>1, <2>3, <3>1 DEF BaseInv, OwnInv
    <2>5. ApartInv'
      BY <1>0, <1>3, <2>1 DEF BaseInv, ApartInv
    <2>6. LiveInv'
      <3> SUFFICES ASSUME NEW q \in Attached, live'[q] = 0
                   PROVE  pins'[q] > 0 /\ retirePending'[q]
        BY <2>1 DEF LiveInv
      <3>1. CASE q = p
        <4>1. live[p] = 1
          BY <1>3, <3>1 DEF BaseInv, Types, ListTypes
        <4> QED
          <5>1. pins'[q] = pins[p] /\ pins[p] \in Nat /\ pins[p] # 0
            BY <1>a, <1>0, <1>11, <3>1, <4>1 DEF Keeps, BaseInv, Types, PoolTypes
          <5>2. retirePending'[q] = TRUE
            BY <1>a, <1>11, <3>1, <4>1 DEF Keeps, BaseInv, Types, PoolTypes
          <5> QED
            BY <5>1, <5>2
      <3>2. CASE q # p
        <4>1. q \in Pools /\ live[q] = 0
          BY <1>3, <3>2 DEF Attached, Allocated
        <4> QED
          BY <1>a, <1>0, <1>11, <3>2, <4>1 DEF Keeps, BaseInv, LiveInv, Types, PoolTypes
      <3> QED
        BY <3>1, <3>2
    <2> QED
      BY <1>5, <1>6, <1>7, <1>8, <1>9, <1>10, <2>3, <2>4, <2>5, <2>6 DEF BaseInv
  <1>12. CASE Empties(t)
    <2>1. /\ Attached' = Attached \ {p} /\ Detached' = Detached \cup {p} /\ p \notin Detached
          /\ detached' = [detached EXCEPT ![p] = TRUE] /\ pins[p] = 0 /\ live[p] = 1
          /\ retirePending' = [retirePending EXCEPT ![p] = FALSE]
          /\ pool' = pool /\ index' = index
      BY <1>a, <1>0, <1>4, <1>12 DEF Empties, Attached, Detached, BaseInv, Types, PoolTypes
    <2>2. /\ pc[t] = "rollback" => pc'[t] = "freeRolled"
          /\ pc[t] = "returnSlot" => pc'[t] = "freeReturned"
      BY <1>12 DEF Empties, BaseInv, Types, ThreadTypes
    <2>3. /\ Owners' = Owners \cup {t} /\ t \notin Owners /\ pool[t] = p
          /\ Pending' = Pending
      <3>1. Owners' = Owners \cup {t} /\ t \notin Owners
        BY <1>0, <2>2 DEF Owners, Others
      <3> QED
        BY <1>a, <2>1, <3>1 DEF Pending
    <2>4. OwnInv'
      BY <2>1, <2>3 DEF BaseInv, OwnInv
    <2>5. ApartInv'
      <3>1. \A slot \in Taken : slot \in Attached \X Indices
        BY <1>0 DEF BaseInv, ApartInv
      <3>2. \A slot \in Taken' : slot[1] # p
        <4> SUFFICES ASSUME NEW slot \in Taken', slot[1] = p PROVE FALSE
          OBVIOUS
        <4>1. slot \in Taken /\ slot # Held(t) /\ slot[2] \in Indices /\ slot = <<p, slot[2]>>
          BY <1>0, <3>1
        <4>2. slot[2] \in Busy(p)' /\ Busy(p)' \subseteq Indices
          BY <4>1 DEF Busy
        <4>3. live'[p] = 0 /\ live'[p] = Cardinality(Busy(p)')
          BY <1>0, <1>3, <2>1 DEF SlotsAt
        <4>4. IsFiniteSet(Busy(p)')
          BY <4>2, BusyFinite, FS_Subset
        <4> QED
          BY <4>2, <4>3, <4>4, FS_EmptySet
      <3> QED
        BY <1>0, <1>3, <2>1, <3>1, <3>2 DEF ApartInv
    <2>6. LiveInv'
      <3>1. \A q \in Attached \ {p} : q \in Pools
        BY DEF Attached, Allocated
      <3> QED
        BY <1>0, <1>3, <2>1, <3>1 DEF BaseInv, LiveInv, Types, PoolTypes
    <2>7. /\ Links(rk)' /\ Ends(rk)'
          /\ \A q \in Pools : q # p /\ q \notin Attached => next'[q] = next[q]
      <3>1. PICK rest : rest = next[p]
        OBVIOUS
      <3>2. Unlinked(p, rest)
        BY <1>a, <1>12, <3>1 DEF Empties, Unlinked
      <3> QED
        BY <1>0, <2>1, <3>2, ChainUnlinked DEF BaseInv, RankInv
    <2>8. \A u \in Threads : ~ PinnedBy(rk, u, p)
      BY <1>0, <2>1 DEF RankInv, PinsInv
    <2>9. \A u \in Threads : /\ pc[u] \notin {"pin", "unpin", "scanHead", "unpinHead"}
                             /\ ~ (writer = u /\ pc[u] \in ScanPcs)
      <3>1. \A u \in Threads : pc[u] \notin {"pin", "unpin"}
        <4>1. \A u \in Threads : chainLock # u
          BY <1>0
        <4> QED
          BY <4>1 DEF BaseInv, LockInv
      <3>2. \A u \in Threads : pc[u] \in {"scanHead", "unpinHead"} => writer = u
        BY DEF BaseInv, LockInv
      <3> QED
        BY <2>8, <3>1, <3>2 DEF PinnedBy
    <2>10. \A u \in Threads : /\ pc'[u] \notin {"pin", "unpin", "scanHead", "unpinHead"}
                              /\ ~ (writer' = u /\ pc'[u] \in ScanPcs)
      BY <1>0, <2>2, <2>9 DEF Others
    <2>11. PinsInv(rk)'
      <3>1. \A u \in Threads, q \in Attached : ~ PinnedBy(rk, u, q) /\ ~ PinnedBy(rk, u, q)'
        BY <2>9, <2>10 DEF PinnedBy
      <3> QED
        BY <1>0, <2>1, <3>1 DEF RankInv, PinsInv
    <2>12. WalkInv(rk)'
      <3>1. \A u \in Threads : /\ pc[u] \notin {"freeAll", "ended"}
                               /\ pc'[u] \notin {"freeAll", "ended"}
        BY <1>0, <1>2 DEF InService
      <3>2. \A u \in Threads :
               /\ cursor'[u] = cursor[u]
               /\ cursor[u] # NoPool => pc[u] = "freePending" /\ cursor[u] \in Pending
        BY <1>0, <2>9, <3>1 DEF RankInv, WalkInv
      <3>3. pc[t] # "freePending"
        BY <1>0
      <3> QED
        BY <1>0, <2>3, <2>10, <3>1, <3>2, <3>3 DEF WalkInv, Others
    <2>13. PendingInv(rk)'
      <3>1. \A q \in Pending : next'[q] = next[q]
        <4>1. \A q \in Pending : q \in Pools /\ q # p /\ q \notin Attached
          BY <2>1 DEF Pending, Detached, Attached, Allocated
        <4> QED
          BY <2>7, <4>1
      <3>2. pc[t] \notin {"unpin", "freePending"} /\ pc'[t] \notin {"unpin", "freePending"}
        BY <1>0, <1>1
      <3> QED
        BY <1>0, <2>3, <3>1, <3>2 DEF RankInv, PendingInv, Others
    <2> QED
      BY <1>5, <1>6, <1>7, <1>8, <1>9, <1>10, <2>4, <2>5, <2>6, <2>7, <2>11, <2>12, <2>13
         DEF BaseInv, RankInv
  <1> QED
    BY <1>0, <1>11, <1>12

-----------------------------------------------------------------------------
(* A walk passes one pool at a time.                                       *)
LEMMA PassedNext ==
  ASSUME Types, NEW rk \in [Pools -> Int], Links(rk), NEW c \in Attached
  PROVE  Passed(rk, next[c]) = Passed(rk, c) \cup {c} /\ c \notin Passed(rk, c)
  <1>1. c # NoPool /\ rk[c] \in Int /\ c \in Pools
    BY RankFacts
  <1>2. CASE next[c] = NoPool
    <2>1. \A q \in Attached : q = c \/ rk[q] < rk[c]
      <3> SUFFICES ASSUME NEW q \in Attached, q # c PROVE rk[q] < rk[c]
        OBVIOUS
      <3>1. rk[q] <= rk[c] /\ rk[q] # rk[c] /\ rk[q] \in Int
        BY <1>2, RankFacts
      <3> QED
        BY <1>1, <3>1
    <2> QED
      BY <1>1, <1>2, <2>1 DEF Passed
  <1>3. CASE next[c] # NoPool
    <2>1. next[c] \in Attached /\ rk[c] < rk[next[c]] /\ rk[next[c]] \in Int
      BY <1>3, RankFacts
    <2>2. \A q \in Attached : rk[q] < rk[next[c]] <=> q = c \/ rk[q] < rk[c]
      <3> SUFFICES ASSUME NEW q \in Attached
                   PROVE  rk[q] < rk[next[c]] <=> q = c \/ rk[q] < rk[c]
        OBVIOUS
      <3>1. /\ rk[q] \in Int /\ (rk[q] = rk[c] => q = c)
            /\ rk[q] <= rk[c] \/ rk[q] >= rk[next[c]]
        BY <1>3, RankFacts
      <3> QED
        BY <1>1, <2>1, <3>1
    <2> QED
      BY <1>1, <1>3, <2>2 DEF Passed
  <1> QED
    BY <1>2, <1>3

(* Who walks with the chain locked is alone with the flush.                *)
LEMMA WalkerAlone ==
  ASSUME BaseInv, NEW t \in Threads, pc[t] \in {"pin", "unpin"}
  PROVE  /\ InService /\ writer = t
         /\ \A u \in Threads \ {t} : /\ writer # u /\ pc[u] \notin OwnPcs
  BY DEF BaseInv, LockInv, EndInv, InService

(* Pinning the next pool keeps the invariant.                              *)
LEMMA PinKeeps ==
  ASSUME BaseInv, NEW t \in Threads, Pin(t), NEW rk \in [Pools -> Int], RankInv(rk)
  PROVE  BaseInv' /\ RankInv(rk)'
  <1>a. PICK p : p = cursor[t]
    OBVIOUS
  <1>0. /\ pc[t] = "pin" /\ InService /\ writer = t /\ Step(t) /\ Others(t)
        /\ \A u \in Threads \ {t} : writer # u /\ pc[u] \notin OwnPcs
        /\ pins' = [pins EXCEPT ![p] = @ + 1]
        /\ cursor' = [cursor EXCEPT ![t] = next[p]]
        /\ UNCHANGED <<memory, chainVars, slotVars, retirePending, detached,
                       lockVars, used, pc, pool, index, flushVars, scopeVars>>
    BY <1>a, WalkerAlone, OthersStay DEF Pin, Advance, Step, BaseInv, Types
  <1>1. p \in Attached /\ p \in Pools
    BY <1>a, <1>0 DEF RankInv, WalkInv, Pin, Attached, Allocated
  <1>2. /\ Allocated' = Allocated /\ Attached' = Attached /\ Detached' = Detached
        /\ Owners' = Owners /\ Pending' = Pending /\ Holders' = Holders /\ Taken' = Taken
        /\ (InService' <=> InService)
    BY <1>0 DEF Allocated, Attached, Detached, Owners, Pending, Holders, Taken, Held, InService
  <1>3. cursor'[t] = next[p] /\ (next[p] = NoPool \/ next[p] \in Attached)
        /\ next[p] \in Pools \cup {NoPool}
    BY <1>0, <1>1, RankFacts DEF BaseInv, RankInv, Types, ThreadTypes, PoolTypes
  <1>4. Types'
    <2>1. PoolTypes' /\ ThreadTypes'
      BY <1>0, <1>1, <1>3 DEF BaseInv, Types, PoolTypes, ThreadTypes
    <2>2. ListTypes' /\ ScopeTypes'
      BY <1>0 DEF BaseInv, Types, ListTypes, ScopeTypes
    <2> QED
      BY <2>1, <2>2 DEF Types
  <1>5. LockInv' /\ OwnInv' /\ EndInv' /\ ResetInv' /\ ApartInv'
    <2>1. LockInv' /\ EndInv' /\ ResetInv'
      BY <1>0, <1>2 DEF BaseInv, LockInv, EndInv, ResetInv
    <2>2. OwnInv' /\ ApartInv'
      BY <1>0, <1>2 DEF BaseInv, OwnInv, ApartInv, Held
    <2> QED
      BY <2>1, <2>2
  <1>6. FreshInv'
    BY <1>0, <1>1 DEF BaseInv, FreshInv, FreshList, Attached, Allocated, Types, PoolTypes
  <1>7. SlotsInv'
    BY <1>0, <1>2, SlotsStay DEF BaseInv, SlotsInv
  <1>8. LiveInv'
    <2>1. \A q \in Attached : q \in Pools /\ (pins[q] > 0 => pins'[q] > 0)
      BY <1>0, <1>1 DEF BaseInv, Types, PoolTypes, Attached, Allocated
    <2> QED
      BY <1>0, <1>2, <2>1 DEF BaseInv, LiveInv
  <1>9. Links(rk)' /\ Ends(rk)'
    BY <1>0, <1>2 DEF RankInv, Links, Ends
  <1>10. /\ \A c : Passed(rk, c)' = Passed(rk, c)
         /\ Passed(rk, next[p]) = Passed(rk, p) \cup {p} /\ p \notin Passed(rk, p)
    BY <1>1, <1>2, PassedNext DEF Passed, BaseInv, RankInv
  <1>11. PinsInv(rk)'
    <2> SUFFICES ASSUME NEW q \in Attached
                 PROVE  /\ pins'[q] \in {0, 1}
                        /\ pins'[q] = 1 <=> \E u \in Threads : PinnedBy(rk, u, q)'
      BY <1>2 DEF PinsInv
    <2>1. \A u \in Threads \ {t} : ~ PinnedBy(rk, u, q) /\ ~ PinnedBy(rk, u, q)'
      BY <1>0 DEF PinnedBy, Others
    <2>2. PinnedBy(rk, t, q) <=> q \in Passed(rk, p)
      BY <1>a, <1>0 DEF PinnedBy
    <2>3. PinnedBy(rk, t, q)' <=> q \in Passed(rk, p) \cup {p}
      <3>1. pc'[t] = "pin"
        BY <1>0
      <3> QED
        BY <1>3, <1>10, <3>1 DEF PinnedBy
    <2>4. pins[q] \in {0, 1} /\ (pins[q] = 1 <=> \E u \in Threads : PinnedBy(rk, u, q))
      BY <1>0 DEF RankInv, PinsInv
    <2>5. pins'[q] = IF q = p THEN pins[q] + 1 ELSE pins[q]
      BY <1>0, <1>1 DEF BaseInv, Types, PoolTypes, Attached, Allocated
    <2> QED
      BY <1>10, <2>1, <2>2, <2>3, <2>4, <2>5
  <1>12. WalkInv(rk)'
    BY <1>0, <1>2, <1>3, <1>10 DEF RankInv, WalkInv, Others
  <1>13. PendingInv(rk)'
    BY <1>0, <1>2 DEF RankInv, PendingInv, Others
  <1> QED
    BY <1>4, <1>5, <1>6, <1>7, <1>8, <1>9, <1>11, <1>12, <1>13 DEF BaseInv, RankInv

-----------------------------------------------------------------------------
(* The step back of a pin, which may take an empty pool off the chain.     *)
LEMMA UnpinFacts ==
  ASSUME BaseInv, NEW t \in Threads, Unpin(t), NEW rk \in [Pools -> Int], RankInv(rk)
  PROVE  /\ pc[t] = "unpin" /\ InService /\ writer = t /\ Step(t) /\ Others(t)
         /\ \A u \in Threads \ {t} : writer # u /\ pc[u] \notin OwnPcs
         /\ cursor[t] \in Attached /\ cursor[t] \in Pools /\ cursor[t] \in Allocated
         /\ pins[cursor[t]] = 1 /\ detached[cursor[t]] = FALSE
         /\ pins' = [pins EXCEPT ![cursor[t]] = @ - 1]
         /\ retirePending' = [retirePending EXCEPT ![cursor[t]] = FALSE]
         /\ cursor' = [cursor EXCEPT ![t] = next[cursor[t]]]
         /\ cursor'[t] = next[cursor[t]]
         /\ UNCHANGED <<memory, slotVars, lockVars, used, pc, pool, index, seen, scopeVars>>
         /\ \/ /\ live[cursor[t]] = 0
               /\ detached' = [detached EXCEPT ![cursor[t]] = TRUE]
               /\ Unlinked(cursor[t], pending) /\ pending' = cursor[t]
            \/ live[cursor[t]] # 0 /\ UNCHANGED <<detached, chainVars, pending>>
  <1>1. /\ pc[t] = "unpin" /\ InService /\ writer = t /\ Step(t) /\ Others(t)
        /\ \A u \in Threads \ {t} : writer # u /\ pc[u] \notin OwnPcs
    BY WalkerAlone, OthersStay DEF Unpin, Step, BaseInv, Types
  <1>2. cursor[t] \in Attached /\ cursor[t] \in Pools /\ cursor[t] \in Allocated
    BY <1>1 DEF RankInv, WalkInv, Unpin, Attached, Allocated
  <1>3. pins[cursor[t]] = 1
    <2>1. cursor[t] \notin Passed(rk, cursor[t])
      BY <1>2, PassedNext DEF BaseInv, RankInv
    <2>2. PinnedBy(rk, t, cursor[t])
      BY <1>1, <2>1 DEF PinnedBy
    <2> QED
      BY <1>1, <1>2, <2>2 DEF RankInv, PinsInv
  <1>4. detached[cursor[t]] = FALSE
    BY <1>2 DEF Attached, BaseInv, Types, PoolTypes
  <1>5. /\ retirePending' = [retirePending EXCEPT ![cursor[t]] = FALSE]
        /\ pins' = [pins EXCEPT ![cursor[t]] = @ - 1]
        /\ cursor' = [cursor EXCEPT ![t] = next[cursor[t]]]
        /\ UNCHANGED <<memory, slotVars, lockVars, used, pc, pool, index, seen, scopeVars>>
    BY <1>3, <1>4 DEF Unpin, Advance
  <1>6. \/ /\ live[cursor[t]] = 0
           /\ detached' = [detached EXCEPT ![cursor[t]] = TRUE]
           /\ Unlinked(cursor[t], pending) /\ pending' = cursor[t]
        \/ live[cursor[t]] # 0 /\ UNCHANGED <<detached, chainVars, pending>>
    BY <1>3, <1>4 DEF Unpin
  <1>7. cursor'[t] = next[cursor[t]]
    BY <1>5 DEF BaseInv, Types, ThreadTypes
  <1> QED
    BY <1>1, <1>2, <1>3, <1>4, <1>5, <1>6, <1>7

(* Unpinning a pool keeps the invariant: the pool stays, or goes to those  *)
(* to free with a rank above theirs.                                       *)
LEMMA UnpinKeeps ==
  ASSUME BaseInv, NEW t \in Threads, Unpin(t), NEW rk \in [Pools -> Int], RankInv(rk)
  PROVE  BaseInv' /\ RankInv(rk)'
  <1>a. PICK p \in Pools : p = cursor[t]
    BY UnpinFacts
  <1>b. PICK n : n = next[p]
    OBVIOUS
  <1>c. PICK rest : rest = pending
    OBVIOUS
  <1>0. /\ pc[t] = "unpin" /\ InService /\ writer = t /\ Step(t) /\ Others(t)
        /\ \A u \in Threads \ {t} : writer # u /\ pc[u] \notin OwnPcs
        /\ p \in Attached /\ p \in Allocated
        /\ pins[p] = 1 /\ detached[p] = FALSE
        /\ pins' = [pins EXCEPT ![p] = @ - 1]
        /\ retirePending' = [retirePending EXCEPT ![p] = FALSE]
        /\ cursor' = [cursor EXCEPT ![t] = n]
        /\ cursor'[t] = n /\ cursor[t] = p
        /\ UNCHANGED <<memory, slotVars, lockVars, used, pc, pool, index, seen, scopeVars>>
    BY <1>a, <1>b, UnpinFacts
  <1>1. \/ /\ live[p] = 0 /\ detached' = [detached EXCEPT ![p] = TRUE]
           /\ Unlinked(p, rest) /\ pending' = p
        \/ live[p] # 0 /\ UNCHANGED <<detached, chainVars, pending>>
    <2>1. \/ /\ live[cursor[t]] = 0
             /\ detached' = [detached EXCEPT ![cursor[t]] = TRUE]
             /\ Unlinked(cursor[t], pending) /\ pending' = cursor[t]
          \/ live[cursor[t]] # 0 /\ UNCHANGED <<detached, chainVars, pending>>
      BY UnpinFacts
    <2>2. CASE live[p] = 0
      <3>1. Unlinked(cursor[t], pending)
        BY <1>a, <2>1, <2>2
      <3>2. Unlinked(p, rest)
        BY <1>a, <1>c, <3>1 DEF Unlinked
      <3> QED
        BY <1>a, <2>1, <2>2, <3>2
    <2>3. CASE live[p] # 0
      BY <1>a, <2>1, <2>3
    <2> QED
      BY <2>2, <2>3
  <1>2. /\ Allocated' = Allocated /\ Owners' = Owners /\ Holders' = Holders /\ Taken' = Taken
        /\ (InService' <=> InService)
    BY <1>0 DEF Allocated, Owners, Holders, Taken, Held, InService
  <1>3. /\ n \in Pools \cup {NoPool} /\ rest \in Pools \cup {NoPool}
        /\ n # NoPool => n \in Attached /\ rk[p] < rk[n] /\ rk[n] \in Int /\ n # p
        /\ rk[p] \in Int /\ p \in Attached
    BY <1>b, <1>c, <1>0, RankFacts DEF BaseInv, RankInv, Types, PoolTypes
  <1>4. Types'
    <2>1. PoolTypes'
      <3>1. CASE live[p] = 0
        <4>1. /\ head' \in Pools \cup {NoPool} /\ tail' \in Pools \cup {NoPool}
              /\ prev' \in [Pools -> Pools \cup {NoPool}]
              /\ next' \in [Pools -> Pools \cup {NoPool}]
          <5>1. Unlinked(p, rest) /\ rest \in Pools \cup {NoPool}
            BY <1>1, <1>3, <3>1
          <5> QED
            BY <5>1 DEF Unlinked, BaseInv, Types, PoolTypes
        <4>2. pending' = p /\ detached' = [detached EXCEPT ![p] = TRUE]
          BY <1>1, <3>1
        <4> QED
          BY <1>0, <4>1, <4>2 DEF BaseInv, Types, PoolTypes
      <3>2. CASE live[p] # 0
        BY <1>0, <1>1, <3>2 DEF BaseInv, Types, PoolTypes
      <3> QED
        BY <3>1, <3>2
    <2>2. ThreadTypes'
      BY <1>0, <1>3 DEF BaseInv, Types, ThreadTypes
    <2>3. ListTypes' /\ ScopeTypes'
      BY <1>0 DEF BaseInv, Types, ListTypes, ScopeTypes
    <2> QED
      BY <2>1, <2>2, <2>3 DEF Types
  <1>5. LockInv' /\ ResetInv'
    <2>1. LockInv'
      BY <1>0 DEF BaseInv, LockInv
    <2>2. ResetInv'
      <3>1. pc'[t] = "unpin"
        BY <1>0
      <3> QED
        BY <1>0, <3>1 DEF ResetInv
    <2> QED
      BY <2>1, <2>2
  <1>6. EndInv'
    BY <1>0, <1>2 DEF InService, EndInv
  <1>7. SlotsInv'
    BY <1>0, <1>2, SlotsStay DEF BaseInv, SlotsInv
  <1>8. /\ \A c : \A A : A = Attached' => Passed(rk, c)' = {q \in A : c = NoPool \/ rk[q] < rk[c]}
        /\ Passed(rk, n) = Passed(rk, p) \cup {p} /\ p \notin Passed(rk, p)
    BY <1>b, <1>0, PassedNext DEF Passed, BaseInv, RankInv
  <1>9. FreshInv'
    <2> SUFFICES ASSUME NEW q \in Pools, memory'[q] = "unused"
                 PROVE  /\ latestFree'[q] = 0 /\ nextFreed'[q] = FreshList
                        /\ live'[q] = 0 /\ pins'[q] = 0 /\ ~retirePending'[q] /\ ~detached'[q]
                        /\ prev'[q] = NoPool /\ next'[q] = NoPool
      BY DEF FreshInv, FreshList
    <2>1. memory[q] = "unused" /\ q # p /\ q \notin Attached
      BY <1>0 DEF Attached, Allocated
    <2>2. /\ retirePending'[q] = retirePending[q] /\ detached'[q] = detached[q]
          /\ pins'[q] = pins[q]
      BY <1>0, <1>1, <2>1 DEF BaseInv, Types, PoolTypes
    <2>3. next'[q] = next[q] /\ prev'[q] = prev[q]
      <3>1. CASE live[p] = 0
        <4>1. q # prev[p] /\ q # next[p]
          BY <1>0, <2>1, RankFacts, EndFacts DEF BaseInv, RankInv
        <4> QED
          BY <1>1, <2>1, <3>1, <4>1 DEF Unlinked, BaseInv, Types, PoolTypes
      <3>2. CASE live[p] # 0
        BY <1>1, <3>2
      <3> QED
        BY <3>1, <3>2
    <2> QED
      BY <1>0, <2>1, <2>2, <2>3 DEF BaseInv, FreshInv
  <1>10. \A u \in Threads \ {t} : \A q : ~ PinnedBy(rk, u, q) /\ ~ PinnedBy(rk, u, q)'
    BY <1>0 DEF PinnedBy, Others
  <1>11. pc'[t] = "unpin" /\ writer' = t
    BY <1>0
  <1>12. PinsInv(rk)' /\ (live[p] # 0 => Attached' = Attached)
         /\ (live[p] = 0 => Attached' = Attached \ {p})
    <2>1. /\ live[p] # 0 => Attached' = Attached
          /\ live[p] = 0 => Attached' = Attached \ {p}
      <3>1. CASE live[p] # 0
        BY <1>1, <1>2, <3>1 DEF Attached
      <3>2. CASE live[p] = 0
        <4>1. detached' = [detached EXCEPT ![p] = TRUE]
          BY <1>1, <3>2
        <4> QED
          BY <1>2, <3>2, <4>1 DEF Attached, Allocated, BaseInv, Types, PoolTypes
      <3> QED
        BY <3>1, <3>2
    <2> SUFFICES ASSUME NEW q \in Attached'
                 PROVE  /\ pins'[q] \in {0, 1}
                        /\ pins'[q] = 1 <=> \E u \in Threads : PinnedBy(rk, u, q)'
      BY <2>1 DEF PinsInv
    <2>2. q \in Attached /\ q \in Pools
      BY <2>1 DEF Attached, Allocated
    <2>3. PinnedBy(rk, t, q) <=> q \notin Passed(rk, p)
      BY <1>0 DEF PinnedBy
    <2>4. PinnedBy(rk, t, q)' <=> q \notin Passed(rk, n)
      <3>1. PinnedBy(rk, t, q)' <=> q \notin Passed(rk, n)'
        BY <1>0, <1>11 DEF PinnedBy
      <3>2. q \in Passed(rk, n)' <=> q \in Passed(rk, n)
        BY <2>2 DEF Passed
      <3> QED
        BY <3>1, <3>2
    <2>5. pins[q] \in {0, 1} /\ (pins[q] = 1 <=> \E u \in Threads : PinnedBy(rk, u, q))
      BY <1>0, <2>2 DEF RankInv, PinsInv
    <2>6. pins'[q] = IF q = p THEN pins[q] - 1 ELSE pins[q]
      BY <1>0, <2>2 DEF BaseInv, Types, PoolTypes
    <2> QED
      BY <1>8, <1>10, <2>1, <2>3, <2>4, <2>5, <2>6
  <1>13. LiveInv'
    <2> SUFFICES ASSUME NEW q \in Attached', live'[q] = 0
                 PROVE  pins'[q] > 0 /\ retirePending'[q]
      BY DEF LiveInv
    <2>1. q \in Attached /\ q # p /\ q \in Pools /\ live[q] = 0
      BY <1>0, <1>12 DEF Attached, Allocated
    <2> QED
      BY <1>0, <2>1 DEF BaseInv, LiveInv, Types, PoolTypes
  <1>14. CASE live[p] # 0
    <2>1. UNCHANGED <<detached, chainVars, pending>> /\ Attached' = Attached
      BY <1>1, <1>12, <1>14
    <2>2. Detached' = Detached /\ Pending' = Pending
      BY <1>0, <1>2, <2>1 DEF Detached, Pending
    <2>3. OwnInv' /\ ApartInv'
      BY <1>0, <1>2, <2>1, <2>2 DEF BaseInv, OwnInv, ApartInv, Held
    <2>4. Links(rk)' /\ Ends(rk)'
      BY <1>0, <1>2, <2>1 DEF RankInv, Links, Ends
    <2>5. WalkInv(rk)'
      BY <1>0, <1>3, <1>11, <2>1, <2>2 DEF RankInv, WalkInv, Others
    <2>6. PendingInv(rk)'
      <3>1. /\ pending = NoPool => Pending = {}
            /\ pending # NoPool => pending \in Pending
            /\ \A q \in Pending : rk[q] <= rk[pending] /\ rk[q] < rk[p]
        BY <1>0, <1>a DEF RankInv, PendingInv
      <3>2. \A q \in Pending : n # NoPool => rk[q] < rk[n]
        <4>1. \A q \in Pending : rk[q] \in Int
          BY DEF Pending, Detached, Allocated
        <4> QED
          BY <1>3, <3>1, <4>1
      <3> QED
        BY <1>0, <1>11, <2>1, <2>2, <3>1, <3>2 DEF RankInv, PendingInv, Others
    <2> QED
      BY <1>4, <1>5, <1>6, <1>7, <1>9, <1>12, <1>13, <2>3, <2>4, <2>5, <2>6 DEF BaseInv, RankInv
  <1>15. CASE live[p] = 0
    <2>1. /\ detached' = [detached EXCEPT ![p] = TRUE] /\ Unlinked(p, rest) /\ pending' = p
          /\ Attached' = Attached \ {p}
      BY <1>1, <1>12, <1>15
    <2>2. Detached' = Detached \cup {p} /\ p \notin Detached
      BY <1>0, <1>2, <2>1 DEF Detached, BaseInv, Types, PoolTypes
    <2>3. Pending' = Pending \cup {p} /\ p \notin Pending
      <3>1. \A u \in Owners : pool[u] # p
        BY <2>2 DEF BaseInv, OwnInv
      <3> QED
        BY <1>0, <1>2, <2>2, <3>1 DEF Pending
    <2>4. OwnInv'
      BY <1>0, <1>2, <2>2 DEF BaseInv, OwnInv
    <2>5. ApartInv'
      <3>1. Busy(p) = {}
        <4>1. SlotsAt(p)
          BY <1>0 DEF BaseInv, SlotsInv
        <4> QED
          BY <1>15, <4>1, BusyFinite, FS_EmptySet DEF SlotsAt
      <3>2. \A slot \in Taken : slot \in Attached \X Indices /\ slot[1] # p
        <4>1. \A slot \in Taken : slot \in Attached \X Indices
          BY <1>0 DEF BaseInv, ApartInv
        <4> QED
          BY <3>1, <4>1 DEF Busy
      <3> QED
        BY <1>0, <1>2, <2>1, <3>2 DEF BaseInv, ApartInv, Held
    <2>6. /\ Links(rk)' /\ Ends(rk)' /\ next'[p] = rest
          /\ \A q \in Pools : q # p /\ q \notin Attached => next'[q] = next[q]
      BY <1>0, <2>1, ChainUnlinked DEF BaseInv, RankInv
    <2>7. WalkInv(rk)'
      <3>1. \A u \in Threads \ {t} : cursor'[u] = NoPool /\ pc'[u] \notin OwnPcs /\ writer' # u
        BY <1>0 DEF RankInv, WalkInv, Others
      <3>2. n # NoPool => n \in Attached'
        BY <1>3, <2>1
      <3> QED
        BY <1>0, <1>11, <3>1, <3>2 DEF WalkInv
    <2>8. PendingInv(rk)'
      <3>1. /\ rest = NoPool => Pending = {}
            /\ rest # NoPool => rest \in Pending
            /\ \A q \in Pending : rk[q] <= rk[rest] /\ rk[q] < rk[p]
        BY <1>0, <1>a, <1>c DEF RankInv, PendingInv
      <3>2. \A q \in Pending : rk[q] \in Int /\ q \in Pools /\ q \notin Attached
        BY DEF Pending, Detached, Allocated, Attached
      <3>3. \A q \in Pending' : rk[q] <= rk[p] /\ (n # NoPool => rk[q] < rk[n])
        BY <1>3, <2>3, <3>1, <3>2
      <3>4. \A q \in Pending : next'[q] = next[q] /\ q # p
        BY <2>3, <2>6, <3>2
      <3>5. /\ \A q, q2 \in Pending : rk[q] = rk[q2] => q = q2
            /\ \A q \in Pending :
                 \/ next[q] = NoPool /\ \A q2 \in Pending : rk[q2] >= rk[q]
                 \/ /\ next[q] \in Pending /\ rk[next[q]] < rk[q]
                    /\ \A q2 \in Pending : rk[q2] >= rk[q] \/ rk[q2] <= rk[next[q]]
        BY DEF RankInv, PendingInv
      <3>6. \A q, q2 \in Pending' : rk[q] = rk[q2] => q = q2
        BY <1>3, <2>3, <3>1, <3>2, <3>5
      <3>7. ASSUME NEW q \in Pending'
            PROVE  \/ next'[q] = NoPool /\ \A q2 \in Pending' : rk[q2] >= rk[q]
                   \/ /\ next'[q] \in Pending' /\ rk[next'[q]] < rk[q]
                      /\ \A q2 \in Pending' : rk[q2] >= rk[q] \/ rk[q2] <= rk[next'[q]]
        <4>1. CASE q = p
          <5>1. CASE rest = NoPool
            <6>1. Pending' = {p} /\ next'[p] = NoPool /\ rk[p] >= rk[p]
              BY <1>3, <2>3, <2>6, <3>1, <5>1
            <6> QED
              BY <4>1, <6>1
          <5>2. CASE rest # NoPool
            <6>1. /\ rest \in Pending' /\ next'[p] = rest /\ rk[rest] < rk[p]
                  /\ \A q2 \in Pending : rk[q2] <= rk[rest]
              BY <2>3, <2>6, <3>1, <5>2
            <6>2. rk[p] >= rk[p]
              BY <1>3
            <6> QED
              BY <2>3, <4>1, <6>1, <6>2
          <5> QED
            BY <5>1, <5>2
        <4>2. CASE q # p
          <5>1. q \in Pending /\ next'[q] = next[q] /\ rk[q] < rk[p]
            BY <2>3, <3>1, <3>4, <4>2
          <5> QED
            BY <1>3, <2>3, <3>2, <3>5, <5>1
        <4> QED
          BY <4>1, <4>2
      <3>8. p # NoPool /\ p \in Pending'
        BY <2>3
      <3>9. \A u \in Threads : u # t => pc'[u] \notin {"unpin", "freePending"}
        BY <1>0
      <3> QED
        BY <1>0, <1>11, <2>1, <3>3, <3>6, <3>7, <3>8, <3>9 DEF PendingInv
    <2> QED
      BY <1>4, <1>5, <1>6, <1>7, <1>9, <1>12, <1>13, <2>4, <2>5, <2>6, <2>7, <2>8
         DEF BaseInv, RankInv
  <1> QED
    BY <1>14, <1>15

-----------------------------------------------------------------------------
(* A pool that is freed.                                                   *)
LEMMA DeallocFacts ==
  ASSUME Types, FreshInv, NEW p \in Allocated, Dealloc(p)
  PROVE  /\ Allocated' = Allocated \ {p} /\ Attached' = Attached \ {p}
         /\ Detached' = Detached \ {p} /\ UNCHANGED <<head, tail>>
         /\ FreshInv' /\ ListTypes'
         /\ prev' \in [Pools -> Pools \cup {NoPool}]
         /\ next' \in [Pools -> Pools \cup {NoPool}]
         /\ memory' \in [Pools -> {"unused", "allocated", "freed"}]
         /\ pins' \in [Pools -> Nat] /\ retirePending' \in [Pools -> BOOLEAN]
         /\ detached' \in [Pools -> BOOLEAN]
         /\ \A q \in Pools \ {p} :
              /\ next'[q] = next[q] /\ prev'[q] = prev[q] /\ live'[q] = live[q]
              /\ latestFree'[q] = latestFree[q] /\ nextFreed'[q] = nextFreed[q]
              /\ pins'[q] = pins[q] /\ retirePending'[q] = retirePending[q]
  <1>0. p \in Pools
    BY DEF Allocated
  <1>1. /\ memory' = [memory EXCEPT ![p] = "freed"]
        /\ detached' = [detached EXCEPT ![p] = FALSE]
        /\ UNCHANGED <<head, tail>>
    BY DEF Dealloc
  <1>2. /\ Allocated' = Allocated \ {p} /\ Attached' = Attached \ {p}
        /\ Detached' = Detached \ {p}
    BY <1>0, <1>1 DEF Allocated, Attached, Detached, Types, PoolTypes
  <1>3. /\ latestFree' \in [Pools -> 0 .. Capacity] /\ live' \in [Pools -> 0 .. Capacity]
        /\ nextFreed' \in [Pools -> [Indices -> 0 .. Capacity]]
    <2>1. FreshList \in [Indices -> 0 .. Capacity]
      BY DEF FreshList
    <2>2. /\ latestFree \in [Pools -> 0 .. Capacity]
          /\ live \in [Pools -> 0 .. Capacity]
          /\ nextFreed \in [Pools -> [Indices -> 0 .. Capacity]]
      BY DEF Types, ListTypes
    <2>3. 0 \in 0 .. Capacity
      BY ChainAssumption
    <2>4. latestFree' \in [Pools -> 0 .. Capacity]
      BY <2>2, <2>3 DEF Dealloc
    <2>5. live' \in [Pools -> 0 .. Capacity]
      BY <2>2, <2>3 DEF Dealloc
    <2>6. nextFreed' \in [Pools -> [Indices -> 0 .. Capacity]]
      BY <2>1, <2>2 DEF Dealloc
    <2> QED
      BY <2>4, <2>5, <2>6
  <1>4. /\ prev' \in [Pools -> Pools \cup {NoPool}] /\ next' \in [Pools -> Pools \cup {NoPool}]
        /\ memory' \in [Pools -> {"unused", "allocated", "freed"}]
        /\ pins' \in [Pools -> Nat] /\ retirePending' \in [Pools -> BOOLEAN]
        /\ detached' \in [Pools -> BOOLEAN]
    BY <1>0 DEF Dealloc, Types, PoolTypes
  <1>5. \A q \in Pools \ {p} :
              /\ next'[q] = next[q] /\ prev'[q] = prev[q] /\ live'[q] = live[q]
              /\ latestFree'[q] = latestFree[q] /\ nextFreed'[q] = nextFreed[q]
              /\ pins'[q] = pins[q] /\ retirePending'[q] = retirePending[q]
              /\ detached'[q] = detached[q] /\ memory'[q] = memory[q]
    BY <1>0 DEF Dealloc, Types, PoolTypes, ListTypes
  <1>6. FreshInv'
    <2>1. \A q \in Pools : memory'[q] = "unused" => q # p
      BY <1>0, <1>1 DEF Types, PoolTypes
    <2>2. FreshList' = FreshList
      BY DEF FreshList
    <2> QED
      BY <1>5, <2>1, <2>2 DEF FreshInv
  <1> QED
    BY <1>1, <1>2, <1>3, <1>4, <1>5, <1>6 DEF ListTypes

(* A pool off the chain is freed by the thread that emptied it.            *)
LEMMA FreeOwnKeeps ==
  ASSUME BaseInv, NEW t \in Threads, FreeRolled(t) \/ FreeReturned(t),
         NEW rk \in [Pools -> Int], RankInv(rk)
  PROVE  BaseInv' /\ RankInv(rk)'
  <1>a. PICK p : p = pool[t]
    OBVIOUS
  <1>0. /\ pc[t] \in {"freeRolled", "freeReturned"} /\ t \in Owners
        /\ Dealloc(p) /\ Step(t) /\ Others(t)
        /\ UNCHANGED <<lockVars, used, flushVars, scopeVars, cursor>>
        /\ pc' = [pc EXCEPT ![t] = IF pc[t] = "freeRolled" THEN "unlock" ELSE Back(t)]
        /\ \/ UNCHANGED <<pool, index>>
           \/ pool' = [pool EXCEPT ![t] = NoPool] /\ index' = [index EXCEPT ![t] = 0]
    <2>1. Step(t)
      BY DEF Step, Frees
    <2> QED
      BY <1>a, <2>1, OthersStay DEF FreeRolled, FreeReturned, Goto, Forget, Owners, BaseInv, Types
  <1>1. p \in Detached /\ p \in Pools /\ p \in Allocated /\ p \notin Attached /\ p \notin Pending
    BY <1>a, <1>0 DEF BaseInv, OwnInv, Detached, Attached, Allocated, Pending
  <1>2. /\ Allocated' = Allocated \ {p} /\ Attached' = Attached
        /\ Detached' = Detached \ {p} /\ UNCHANGED <<head, tail>>
        /\ FreshInv' /\ ListTypes'
        /\ prev' \in [Pools -> Pools \cup {NoPool}] /\ next' \in [Pools -> Pools \cup {NoPool}]
        /\ memory' \in [Pools -> {"unused", "allocated", "freed"}]
        /\ pins' \in [Pools -> Nat] /\ retirePending' \in [Pools -> BOOLEAN]
        /\ detached' \in [Pools -> BOOLEAN]
        /\ \A q \in Pools \ {p} :
              /\ next'[q] = next[q] /\ prev'[q] = prev[q] /\ live'[q] = live[q]
              /\ latestFree'[q] = latestFree[q] /\ nextFreed'[q] = nextFreed[q]
              /\ pins'[q] = pins[q] /\ retirePending'[q] = retirePending[q]
    <2>1. Types /\ FreshInv
      BY DEF BaseInv
    <2>2. Attached' = Attached
      <3>1. Attached' = Attached \ {p}
        BY <1>0, <1>1, <2>1, DeallocFacts
      <3> QED
        BY <1>1, <3>1
    <2>3. /\ Allocated' = Allocated \ {p} /\ Detached' = Detached \ {p}
          /\ UNCHANGED <<head, tail>> /\ FreshInv' /\ ListTypes'
          /\ prev' \in [Pools -> Pools \cup {NoPool}] /\ next' \in [Pools -> Pools \cup {NoPool}]
          /\ memory' \in [Pools -> {"unused", "allocated", "freed"}]
          /\ pins' \in [Pools -> Nat] /\ retirePending' \in [Pools -> BOOLEAN]
          /\ detached' \in [Pools -> BOOLEAN]
          /\ \A q \in Pools \ {p} :
                /\ next'[q] = next[q] /\ prev'[q] = prev[q] /\ live'[q] = live[q]
                /\ latestFree'[q] = latestFree[q] /\ nextFreed'[q] = nextFreed[q]
                /\ pins'[q] = pins[q] /\ retirePending'[q] = retirePending[q]
      BY <1>0, <1>1, <2>1, DeallocFacts
    <2> QED
      BY <2>2, <2>3
  <1>3. /\ pc'[t] \in {"unlock", "visit", "idle"}
        /\ writer = t => (pc[t] \in ScanPcs <=> pc'[t] \in ScanPcs)
        /\ pc[t] = "freeReturned" /\ writer = t => pc'[t] = "visit"
        /\ pc[t] = "freeRolled" => pc'[t] = "unlock" /\ writer = t
        /\ pc'[t] = "visit" => writer = t
    BY <1>0 DEF Back, BaseInv, LockInv, Types, ThreadTypes
  <1>4. InService /\ InService'
    <2>1. InService
      BY <1>0 DEF BaseInv, EndInv, InService
    <2> QED
      BY <1>0, <1>3, <2>1 DEF InService, Others
  <1>5. /\ Owners' = Owners \ {t} /\ \A u \in Owners' : pool'[u] = pool[u]
        /\ Holders' = Holders /\ \A u \in Holders : Held(u)' = Held(u)
    BY <1>0, <1>3 DEF Owners, Holders, Held, Others
  <1>6. Taken' = Taken
    BY <1>0, <1>5 DEF Taken
  <1>7. Pending' = Pending
    <2>1. \A u \in Owners : pool[u] = p => u = t
      BY <1>a, <1>0 DEF BaseInv, OwnInv
    <2> QED
      BY <1>a, <1>0, <1>1, <1>2, <1>5, <2>1 DEF Pending
  <1>8. Types'
    <2>1. PoolTypes'
      BY <1>0, <1>2 DEF BaseInv, Types, PoolTypes
    <2>2. ThreadTypes'
      BY <1>0 DEF Back, BaseInv, Types, ThreadTypes
    <2>3. ScopeTypes'
      BY <1>0 DEF BaseInv, Types, ScopeTypes
    <2> QED
      BY <1>2, <2>1, <2>2, <2>3 DEF Types
  <1>9. LockInv' /\ EndInv'
    BY <1>0, <1>4, LockKeeps DEF BaseInv, Types, InService, EndInv
  <1>10. OwnInv'
    <2>1. \A u \in Owners' : pool[u] # p
      BY <1>a, <1>0, <1>5 DEF BaseInv, OwnInv
    <2> QED
      BY <1>2, <1>5, <2>1 DEF BaseInv, OwnInv
  <1>11. ResetInv'
    <2>1. seen # {} /\ writer = t => pc[t] = "freeReturned"
      BY <1>0, OneFlush DEF BaseInv, ResetInv
    <2> QED
      BY <1>0, <1>3, <2>1 DEF BaseInv, ResetInv, Others
  <1>12. ApartInv'
    BY <1>0, <1>2, <1>4, <1>5, <1>6 DEF BaseInv, ApartInv
  <1>13. SlotsInv'
    <2>1. \A q \in Allocated' : q \in Pools \ {p} /\ q \in Allocated
      BY <1>2 DEF Allocated
    <2> QED
      BY <1>2, <1>4, <1>6, <2>1, SlotsStay DEF BaseInv, SlotsInv
  <1>14. \A q \in Attached : q \in Pools \ {p}
    BY <1>1 DEF Attached, Allocated
  <1>15. LiveInv'
    BY <1>2, <1>4, <1>14 DEF BaseInv, LiveInv
  <1>16. Links(rk)'
    BY <1>2, <1>14 DEF RankInv, Links
  <1>17. Ends(rk)'
    <2>1. \A q \in Attached : next[q] # NoPool => next[q] \in Attached
      BY DEF RankInv, Links
    <2>2. \A q \in Attached : prev[q] # NoPool => prev[q] \in Attached
      BY <1>4 DEF RankInv, Ends
    <2> QED
      BY <1>2, <1>4, <1>14, <2>1, <2>2 DEF RankInv, Ends
  <1>18. \A c : Passed(rk, c)' = Passed(rk, c)
    BY <1>2 DEF Passed
  <1>19. PinsInv(rk)'
    <2>1. pc[t] \notin {"pin", "unpin", "scanHead", "unpinHead"}
      BY <1>0
    <2>2. \A u \in Threads : \A q : PinnedBy(rk, u, q)' <=> PinnedBy(rk, u, q)
      BY <1>0, <1>3, <1>18, <2>1 DEF PinnedBy, Others
    <2> QED
      BY <1>2, <1>4, <1>14, <2>2 DEF RankInv, PinsInv
  <1>20. WalkInv(rk)'
    <2>1. pc[t] \notin {"pin", "unpin", "scanHead", "unpinHead", "freePending", "freeAll", "ended"}
      BY <1>0
    <2> QED
      BY <1>0, <1>2, <1>3, <1>7, <1>18, <2>1 DEF RankInv, WalkInv, Others
  <1>21. PendingInv(rk)'
    <2>1. \A q \in Pending : q \in Pools \ {p}
      BY <1>1 DEF Pending, Detached, Allocated
    <2>2. pc[t] \notin {"unpin", "freePending"}
      BY <1>0
    <2> QED
      BY <1>0, <1>2, <1>3, <1>7, <2>1, <2>2 DEF RankInv, PendingInv, Others
  <1> QED
    BY <1>2, <1>8, <1>9, <1>10, <1>11, <1>12, <1>13, <1>15, <1>16, <1>17, <1>19, <1>20, <1>21
       DEF BaseInv, RankInv

(* The flush frees the pools it has taken off; the end frees the chain.    *)
LEMMA FreePendingKeeps ==
  ASSUME BaseInv, NEW t \in Threads, FreePending(t), NEW rk \in [Pools -> Int], RankInv(rk)
  PROVE  BaseInv' /\ RankInv(rk)'
  <1>a. PICK p : p = cursor[t]
    OBVIOUS
  <1>b. PICK n : n = next[p]
    OBVIOUS
  <1>0. /\ pc[t] \in {"freePending", "freeAll"} /\ p # NoPool
        /\ Dealloc(p) /\ Step(t) /\ Others(t) /\ writer = t
        /\ UNCHANGED <<lockVars, used, flushVars, scopeVars, pc, pool, index>>
        /\ cursor' = [cursor EXCEPT ![t] = n]
    <2>1. Step(t)
      BY DEF Step, Frees
    <2> QED
      BY <1>a, <1>b, <2>1, OthersStay DEF FreePending, Advance, BaseInv, Types, LockInv
  <1>1. /\ p \in Pools /\ p \in Allocated /\ cursor'[t] = n /\ n \in Pools \cup {NoPool}
        /\ pc[t] = "freePending" => p \in Pending
        /\ pc[t] = "freeAll" => p \in Attached
    <2>1. /\ pc[t] = "freePending" => p \in Pending
          /\ pc[t] = "freeAll" => p \in Attached
      BY <1>a, <1>0 DEF RankInv, WalkInv
    <2>2. p \in Pools /\ p \in Allocated
      BY <1>0, <2>1 DEF Pending, Detached, Attached, Allocated
    <2>3. cursor'[t] = n /\ n \in Pools \cup {NoPool}
      BY <1>b, <1>0, <2>2 DEF BaseInv, Types, PoolTypes, ThreadTypes
    <2> QED
      BY <2>1, <2>2, <2>3
  <1>2. /\ Allocated' = Allocated \ {p} /\ Attached' = Attached \ {p}
        /\ Detached' = Detached \ {p} /\ UNCHANGED <<head, tail>>
        /\ FreshInv' /\ ListTypes'
        /\ prev' \in [Pools -> Pools \cup {NoPool}] /\ next' \in [Pools -> Pools \cup {NoPool}]
        /\ memory' \in [Pools -> {"unused", "allocated", "freed"}]
        /\ pins' \in [Pools -> Nat] /\ retirePending' \in [Pools -> BOOLEAN]
        /\ detached' \in [Pools -> BOOLEAN]
        /\ \A q \in Pools \ {p} :
              /\ next'[q] = next[q] /\ prev'[q] = prev[q] /\ live'[q] = live[q]
              /\ latestFree'[q] = latestFree[q] /\ nextFreed'[q] = nextFreed[q]
              /\ pins'[q] = pins[q] /\ retirePending'[q] = retirePending[q]
    <2>1. Types /\ FreshInv
      BY DEF BaseInv
    <2> QED
      BY <1>0, <1>1, <2>1, DeallocFacts
  <1>3. /\ Owners' = Owners /\ Holders' = Holders /\ Taken' = Taken
        /\ (InService' <=> InService)
    BY <1>0 DEF Owners, Holders, Taken, Held, InService
  <1>4. Pending' = Pending \ {p}
    BY <1>0, <1>2, <1>3 DEF Pending
  <1>5. Types'
    <2>1. PoolTypes'
      BY <1>0, <1>2 DEF BaseInv, Types, PoolTypes
    <2>2. ThreadTypes'
      BY <1>0, <1>1 DEF BaseInv, Types, ThreadTypes
    <2>3. ScopeTypes'
      BY <1>0 DEF BaseInv, Types, ScopeTypes
    <2> QED
      BY <1>2, <2>1, <2>2, <2>3 DEF Types
  <1>6. LockInv' /\ ResetInv'
    BY <1>0 DEF BaseInv, LockInv, ResetInv
  <1>7. EndInv'
    BY <1>0, <1>2 DEF BaseInv, EndInv
  <1>8. OwnInv'
    <2>1. \A u \in Owners : pool[u] # p
      <3>1. CASE pc[t] = "freePending"
        BY <1>1, <3>1 DEF Pending
      <3>2. CASE pc[t] = "freeAll"
        BY <3>2 DEF BaseInv, EndInv, Owners
      <3> QED
        BY <1>0, <3>1, <3>2
    <2> QED
      BY <1>0, <1>2, <1>3, <2>1 DEF BaseInv, OwnInv
  <1>9. InService => pc[t] = "freePending" /\ Attached' = Attached
    BY <1>0, <1>1, <1>2 DEF InService, Pending, Detached, Attached
  <1>10. ApartInv'
    BY <1>0, <1>3, <1>9 DEF BaseInv, ApartInv, Held
  <1>11. SlotsInv'
    <2>1. \A q \in Allocated' : q \in Pools \ {p} /\ q \in Allocated
      BY <1>2 DEF Allocated
    <2> QED
      BY <1>2, <1>3, <2>1, SlotsStay DEF BaseInv, SlotsInv
  <1>12. \A q \in Attached' : q \in Pools \ {p} /\ q \in Attached
    BY <1>2 DEF Attached, Allocated
  <1>13. LiveInv'
    BY <1>2, <1>3, <1>9, <1>12 DEF BaseInv, LiveInv
  <1>14. Links(rk)'
    <2>1. \A q \in Attached' : next[q] # p
      <3>1. CASE pc[t] = "freePending"
        <4>1. p \notin Attached /\ p # NoPool
          BY <1>0, <1>1, <3>1 DEF Pending, Detached, Attached
        <4> QED
          BY <1>12, <4>1, RankFacts DEF BaseInv, RankInv
      <3>2. CASE pc[t] = "freeAll"
        <4>1. \A q \in Attached : rk[p] <= rk[q]
          BY <1>a, <3>2 DEF RankInv, WalkInv
        <4>2. ASSUME NEW q \in Attached, next[q] = p PROVE FALSE
          <5>1. rk[q] < rk[p] /\ rk[q] \in Int /\ rk[p] \in Int
            BY <1>0, <1>1, <3>2, <4>2, RankFacts DEF BaseInv, RankInv
          <5> QED
            BY <4>1, <5>1
        <4> QED
          BY <1>12, <4>2
      <3> QED
        BY <1>0, <3>1, <3>2
    <2>2. /\ \A q, q2 \in Attached : rk[q] = rk[q2] => q = q2
          /\ \A q \in Attached :
                \/ next[q] = NoPool /\ \A q2 \in Attached : rk[q2] <= rk[q]
                \/ /\ next[q] \in Attached /\ rk[q] < rk[next[q]]
                   /\ \A q2 \in Attached : rk[q2] <= rk[q] \/ rk[q2] >= rk[next[q]]
      BY DEF RankInv, Links
    <2>3. \A q \in Attached' : next'[q] = next[q]
      BY <1>2, <1>12
    <2>4. ASSUME NEW q \in Attached'
          PROVE  \/ next'[q] = NoPool /\ \A q2 \in Attached' : rk[q2] <= rk[q]
                 \/ /\ next'[q] \in Attached' /\ rk[q] < rk[next'[q]]
                    /\ \A q2 \in Attached' : rk[q2] <= rk[q] \/ rk[q2] >= rk[next'[q]]
      BY <1>2, <1>12, <2>1, <2>2, <2>3
    <2> QED
      BY <1>12, <2>2, <2>4 DEF Links
  <1>15. Ends(rk)'
    <2> SUFFICES ASSUME InService PROVE Ends(rk)'
      BY <1>3 DEF Ends
    <2>1. \A q \in Attached : next[q] # NoPool => next[q] \in Attached
      BY DEF RankInv, Links
    <2>2. \A q \in Attached : prev[q] # NoPool => prev[q] \in Attached
      BY DEF RankInv, Ends
    <2> QED
      BY <1>2, <1>9, <1>12, <2>1, <2>2 DEF RankInv, Ends
  <1>16. InService => \A c : Passed(rk, c)' = Passed(rk, c)
    BY <1>9 DEF Passed
  <1>17. PinsInv(rk)'
    <2> SUFFICES ASSUME InService PROVE PinsInv(rk)'
      BY <1>3 DEF PinsInv
    <2>1. \A u \in Threads : \A q : PinnedBy(rk, u, q)' <=> PinnedBy(rk, u, q)
      BY <1>0, <1>16 DEF PinnedBy, Others
    <2> QED
      BY <1>2, <1>9, <1>12, <2>1 DEF RankInv, PinsInv
  <1>18. \A u \in Threads \ {t} : /\ pc'[u] \notin OwnPcs /\ writer' # u /\ cursor'[u] = NoPool
                                  /\ pc[u] \notin OwnPcs /\ cursor[u] = NoPool
    <2>1. \A u \in Threads \ {t} : pc[u] \notin OwnPcs /\ writer # u
      BY <1>0 DEF BaseInv, LockInv
    <2> QED
      BY <1>0, <2>1 DEF RankInv, WalkInv, Others
  <1>19. CASE pc[t] = "freePending"
    <2>1. /\ \A q \in Pending : rk[q] <= rk[p] /\ rk[q] \in Int
          /\ \A q, q2 \in Pending : rk[q] = rk[q2] => q = q2
          /\ \A q \in Pending :
                 \/ next[q] = NoPool /\ \A q2 \in Pending : rk[q2] >= rk[q]
                 \/ /\ next[q] \in Pending /\ rk[next[q]] < rk[q]
                    /\ \A q2 \in Pending : rk[q2] >= rk[q] \/ rk[q2] <= rk[next[q]]
      BY <1>a, <1>19 DEF RankInv, PendingInv, Pending, Detached, Allocated
    <2>2. p \in Pending /\ p # NoPool /\ NoPool \notin Pending
      BY <1>0, <1>1, <1>19 DEF Pending, Detached, Allocated
    <2>3. /\ n # NoPool => n \in Pending \ {p}
          /\ n = NoPool => Pending \ {p} = {}
          /\ \A q \in Pending \ {p} : rk[q] <= rk[n]
      <3>1. CASE n = NoPool
        <4>1. \A q \in Pending : rk[q] = rk[p]
          <5> SUFFICES ASSUME NEW q \in Pending PROVE rk[q] = rk[p]
            OBVIOUS
          <5>1. rk[q] >= rk[p] /\ rk[q] <= rk[p] /\ rk[q] \in Int /\ rk[p] \in Int
            BY <1>b, <2>1, <2>2, <3>1
          <5> QED
            BY <5>1
        <4> QED
          BY <2>1, <2>2, <3>1, <4>1
      <3>2. CASE n # NoPool
        <4>1. /\ n \in Pending /\ rk[n] < rk[p] /\ rk[n] \in Int /\ rk[p] \in Int
              /\ \A q \in Pending : rk[q] >= rk[p] \/ rk[q] <= rk[n]
          BY <1>b, <2>1, <2>2, <3>2
        <4>2. ASSUME NEW q \in Pending \ {p} PROVE rk[q] <= rk[n]
          <5>1. rk[q] \in Int /\ rk[q] # rk[p] /\ rk[q] <= rk[p]
            BY <2>1, <2>2
          <5> QED
            BY <4>1, <5>1
        <4> QED
          BY <3>2, <4>1, <4>2
      <3> QED
        BY <3>1, <3>2
    <2>4. \A q \in Pending \ {p} : next'[q] = next[q] /\ next[q] # p
      <3>1. \A q \in Pending \ {p} : q \in Pools \ {p}
        BY DEF Pending, Detached, Allocated
      <3>2. ASSUME NEW q \in Pending \ {p}, next[q] = p PROVE FALSE
        <4>1. rk[p] < rk[q] /\ rk[q] <= rk[p] /\ rk[p] \in Int /\ rk[q] \in Int
          BY <2>1, <2>2, <3>2
        <4> QED
          BY <4>1
      <3> QED
        BY <1>2, <3>1, <3>2
    <2>5. PendingInv(rk)'
      <3>1. \A q, q2 \in Pending' : rk[q] = rk[q2] => q = q2
        BY <1>4, <2>1
      <3>2. ASSUME NEW q \in Pending'
            PROVE  \/ next'[q] = NoPool /\ \A q2 \in Pending' : rk[q2] >= rk[q]
                   \/ /\ next'[q] \in Pending' /\ rk[next'[q]] < rk[q]
                      /\ \A q2 \in Pending' : rk[q2] >= rk[q] \/ rk[q2] <= rk[next'[q]]
        BY <1>4, <2>1, <2>4
      <3>3. pc'[t] = "freePending"
        BY <1>0, <1>19
      <3> QED
        BY <1>1, <1>4, <1>18, <2>3, <3>1, <3>2, <3>3 DEF PendingInv
    <2>6. WalkInv(rk)'
      <3>1. pc'[t] = "freePending"
        BY <1>0, <1>19
      <3> QED
        BY <1>1, <1>4, <1>18, <2>3, <3>1 DEF WalkInv
    <2> QED
      BY <1>2, <1>5, <1>6, <1>7, <1>8, <1>10, <1>11, <1>13, <1>14, <1>15, <1>17, <2>5, <2>6
         DEF BaseInv, RankInv
  <1>20. CASE pc[t] = "freeAll"
    <2>1. /\ p \in Attached /\ \A q \in Attached : rk[p] <= rk[q]
      BY <1>a, <1>1, <1>20 DEF RankInv, WalkInv
    <2>2. /\ n # NoPool => n \in Attached \ {p}
          /\ n = NoPool => Attached \ {p} = {}
          /\ \A q \in Attached \ {p} : rk[n] <= rk[q]
      <3>0. rk[p] \in Int /\ \A q \in Attached : rk[q] \in Int /\ (rk[q] = rk[p] => q = p)
        BY <2>1, RankFacts DEF BaseInv, RankInv
      <3>1. CASE n = NoPool
        <4>1. ASSUME NEW q \in Attached PROVE q = p
          <5>1. rk[q] <= rk[p] /\ rk[p] <= rk[q] /\ rk[q] \in Int
            BY <1>b, <2>1, <3>0, <3>1, RankFacts DEF BaseInv, RankInv
          <5> QED
            BY <3>0, <5>1
        <4> QED
          BY <3>1, <4>1
      <3>2. CASE n # NoPool
        <4>1. /\ n \in Attached /\ rk[p] < rk[n] /\ rk[n] \in Int
              /\ \A q \in Attached : rk[q] <= rk[p] \/ rk[q] >= rk[n]
          BY <1>b, <2>1, <3>0, <3>2, RankFacts DEF BaseInv, RankInv
        <4>2. ASSUME NEW q \in Attached \ {p} PROVE rk[n] <= rk[q]
          <5>1. rk[q] \in Int /\ rk[q] # rk[p] /\ rk[p] <= rk[q]
            BY <2>1, <3>0
          <5> QED
            BY <3>0, <4>1, <5>1
        <4> QED
          BY <3>0, <3>2, <4>1, <4>2
      <3> QED
        BY <3>1, <3>2
    <2>3. Pending = {} /\ pc'[t] = "freeAll"
      BY <1>0, <1>20 DEF BaseInv, EndInv, Pending
    <2>4. WalkInv(rk)'
      BY <1>1, <1>2, <1>18, <2>2, <2>3 DEF WalkInv
    <2>5. PendingInv(rk)'
      BY <1>4, <1>18, <2>3 DEF PendingInv
    <2> QED
      BY <1>2, <1>5, <1>6, <1>7, <1>8, <1>10, <1>11, <1>13, <1>14, <1>15, <1>17, <2>4, <2>5
         DEF BaseInv, RankInv
  <1> QED
    BY <1>0, <1>19, <1>20

-----------------------------------------------------------------------------
(* The chain is taken down when everybody is idle.                         *)
LEMMA TakeAllKeeps ==
  ASSUME BaseInv, NEW t \in Threads, TakeAll(t), NEW rk \in [Pools -> Int], RankInv(rk)
  PROVE  BaseInv' /\ RankInv(rk)'
  <1>0. /\ \A u \in Threads : pc[u] = "idle"
        /\ closed /\ head' = NoPool /\ tail' = NoPool
        /\ cursor' = [cursor EXCEPT ![t] = head] /\ writer' = t /\ used' = {}
        /\ pc' = [pc EXCEPT ![t] = "freeAll"] /\ Step(t) /\ Others(t)
        /\ UNCHANGED <<memory, prev, next, slotVars, statusVars, chainLock, pool, index,
                       flushVars, scopeVars>>
    BY OthersStay DEF TakeAll, Goto, Step, BaseInv, Types
  <1>1. /\ pc'[t] = "freeAll" /\ cursor'[t] = head
        /\ \A u \in Threads \ {t} : pc'[u] = "idle" /\ writer # u
        /\ InService /\ ~ InService'
    BY <1>0 DEF BaseInv, LockInv, Types, ThreadTypes, Others, InService
  <1>2. /\ Allocated' = Allocated /\ Attached' = Attached /\ Detached' = Detached
        /\ Owners = {} /\ Owners' = {} /\ Pending' = Pending
    <2>1. Allocated' = Allocated /\ Attached' = Attached /\ Detached' = Detached
      BY <1>0 DEF Allocated, Attached, Detached
    <2>2. Owners = {} /\ Owners' = {}
      BY <1>0, <1>1 DEF Owners
    <2> QED
      BY <2>1, <2>2 DEF Pending
  <1>3. Pending = {} /\ Detached = {} /\ seen = {} /\ pending = NoPool
    <2>1. Pending = {}
      BY <1>0 DEF RankInv, PendingInv
    <2>2. seen = {} /\ pending = NoPool
      BY <1>0 DEF BaseInv, ResetInv
    <2> QED
      BY <1>2, <2>1, <2>2 DEF Pending
  <1>4. /\ head # NoPool => head \in Attached
        /\ head = NoPool => Attached = {}
        /\ \A q \in Attached : rk[head] <= rk[q]
    BY <1>1 DEF RankInv, Ends
  <1>5. Types'
    <2>1. PoolTypes' /\ ListTypes'
      BY <1>0 DEF BaseInv, Types, PoolTypes, ListTypes
    <2>2. ThreadTypes'
      BY <1>0 DEF BaseInv, Types, ThreadTypes, PoolTypes
    <2>3. ScopeTypes'
      BY <1>0 DEF BaseInv, Types, ScopeTypes
    <2> QED
      BY <2>1, <2>2, <2>3 DEF Types
  <1>6. LockInv' /\ OwnInv' /\ ResetInv'
    BY <1>0, <1>2, <1>3, LockKeeps DEF BaseInv, Types, OwnInv, ResetInv
  <1>7. EndInv'
    BY <1>0, <1>1, <1>2, <1>3 DEF EndInv
  <1>8. FreshInv'
    BY <1>0 DEF BaseInv, FreshInv, FreshList
  <1>9. ApartInv' /\ SlotsInv' /\ LiveInv' /\ Ends(rk)' /\ PinsInv(rk)'
    BY <1>1 DEF ApartInv, SlotsInv, LiveInv, Ends, PinsInv
  <1>10. Links(rk)'
    BY <1>0, <1>2 DEF RankInv, Links
  <1>11. \A u \in Threads \ {t} : cursor'[u] = NoPool /\ writer' # u
    <2>1. \A u \in Threads : cursor[u] = NoPool
      BY <1>0 DEF RankInv, WalkInv
    <2> QED
      BY <1>0, <2>1 DEF Others
  <1>12. WalkInv(rk)'
    BY <1>0, <1>1, <1>2, <1>4, <1>11 DEF WalkInv
  <1>13. PendingInv(rk)'
    BY <1>1, <1>2, <1>3 DEF PendingInv
  <1> QED
    BY <1>5, <1>6, <1>7, <1>8, <1>9, <1>10, <1>12, <1>13 DEF BaseInv, RankInv

(* A step that changes nothing keeps the invariant.                        *)
LEMMA NothingKeeps ==
  ASSUME BaseInv, NEW rk \in [Pools -> Int], RankInv(rk), UNCHANGED vars
  PROVE  BaseInv' /\ RankInv(rk)'
  <1>1. /\ Allocated' = Allocated /\ Attached' = Attached /\ Detached' = Detached
        /\ Owners' = Owners /\ Pending' = Pending /\ Holders' = Holders /\ Taken' = Taken
        /\ (InService' <=> InService)
        /\ \A u : Held(u)' = Held(u)
    BY DEF vars, Allocated, Attached, Detached, Owners, Pending, Holders, Taken, Held, InService
  <1>2. Types' /\ LockInv' /\ OwnInv' /\ EndInv' /\ ResetInv' /\ LiveInv'
    <2>1. PoolTypes' /\ ListTypes' /\ ThreadTypes' /\ ScopeTypes'
      BY DEF vars, BaseInv, Types, PoolTypes, ListTypes, ThreadTypes, ScopeTypes
    <2>2. LockInv' /\ OwnInv' /\ EndInv' /\ ResetInv' /\ LiveInv'
      BY <1>1 DEF vars, BaseInv, LockInv, OwnInv, EndInv, ResetInv, LiveInv
    <2> QED
      BY <2>1, <2>2 DEF Types
  <1>3. FreshInv' /\ ApartInv'
    BY <1>1 DEF vars, BaseInv, FreshInv, FreshList, ApartInv
  <1>4. SlotsInv'
    BY <1>1, SlotsStay DEF vars, BaseInv, SlotsInv
  <1>5. \A c : Passed(rk, c)' = Passed(rk, c)
    BY <1>1 DEF Passed
  <1>6. Links(rk)' /\ Ends(rk)'
    BY <1>1 DEF vars, RankInv, Links, Ends
  <1>7. PinsInv(rk)'
    <2>1. \A u \in Threads : \A q : PinnedBy(rk, u, q)' <=> PinnedBy(rk, u, q)
      BY <1>5 DEF vars, PinnedBy
    <2> QED
      BY <1>1, <2>1 DEF vars, RankInv, PinsInv
  <1>8. WalkInv(rk)' /\ PendingInv(rk)'
    BY <1>1, <1>5 DEF vars, RankInv, WalkInv, PendingInv
  <1> QED
    BY <1>2, <1>3, <1>4, <1>6, <1>7, <1>8 DEF BaseInv, RankInv

(* No pool, no thread at work: the invariant holds at the start.           *)
LEMMA InitHolds == Init => ChainInv
  <1> SUFFICES ASSUME Init PROVE ChainInv
    OBVIOUS
  <1>1. /\ Allocated = {} /\ Attached = {} /\ Detached = {} /\ Pending = {} /\ Owners = {}
        /\ Holders = {} /\ Taken = {} /\ InService
    BY DEF Init, Allocated, Attached, Detached, Pending, Owners, Holders, Taken, InService
  <1>2. Types
    <2>1. FreshList \in [Indices -> 0 .. Capacity]
      BY DEF FreshList
    <2>2. PoolTypes
      BY DEF Init, PoolTypes
    <2>3. ListTypes
      BY <2>1 DEF Init, ListTypes
    <2>4. ThreadTypes
      BY DEF Init, ThreadTypes
    <2>5. ScopeTypes
      BY DEF Init, ScopeTypes
    <2> QED
      BY <2>2, <2>3, <2>4, <2>5 DEF Types
  <1>3. BaseInv
    <2>1. LockInv /\ OwnInv /\ EndInv /\ ResetInv
      BY <1>1 DEF Init, LockInv, OwnInv, EndInv, ResetInv
    <2>2. FreshInv
      BY DEF Init, FreshInv
    <2>3. ApartInv /\ SlotsInv /\ LiveInv
      BY <1>1 DEF Init, ApartInv, SlotsInv, LiveInv
    <2> QED
      BY <1>2, <2>1, <2>2, <2>3 DEF BaseInv
  <1> DEFINE rk == [p \in Pools |-> 0]
  <1>4. RankInv(rk)
    <2> HIDE DEF rk
    <2>1. Links(rk) /\ Ends(rk) /\ PinsInv(rk)
      BY <1>1 DEF Init, Links, Ends, PinsInv
    <2>2. WalkInv(rk) /\ PendingInv(rk)
      BY <1>1 DEF Init, WalkInv, PendingInv
    <2> QED
      BY <2>1, <2>2 DEF RankInv
  <1>5. rk \in [Pools -> Int]
    OBVIOUS
  <1> QED
    BY <1>3, <1>4, <1>5 DEF ChainInv

(* Every step keeps the invariant, with the ranks the step calls for.      *)
LEMMA StepKeeps == ChainInv /\ [Next]_vars => ChainInv'
  <1> SUFFICES ASSUME ChainInv, [Next]_vars PROVE ChainInv'
    OBVIOUS
  <1>0. BaseInv
    BY DEF ChainInv
  <1>1. PICK rk \in [Pools -> Int] : RankInv(rk)
    BY DEF ChainInv
  <1>2. CASE UNCHANGED vars
    BY <1>0, <1>1, <1>2, NothingKeeps DEF ChainInv
  <1>3. CASE Next
    <2>1. PICK t \in Threads : Step(t)
      BY <1>3, NextIsStep
    <2>2. CASE Calm(t)
      BY <1>0, <1>1, <2>2, CalmKeeps DEF ChainInv
    <2>3. CASE TakeSlot(t)
      BY <1>0, <1>1, <2>3, TakeSlotKeeps DEF ChainInv
    <2>4. CASE OpenPool(t)
      BY <1>0, <1>1, <2>4, OpenPoolKeeps DEF ChainInv
    <2>5. CASE Returns(t)
      BY <1>0, <1>1, <2>5, ReturnKeeps DEF ChainInv
    <2>6. CASE Pin(t)
      BY <1>0, <1>1, <2>6, PinKeeps DEF ChainInv
    <2>7. CASE Unpin(t)
      BY <1>0, <1>1, <2>7, UnpinKeeps DEF ChainInv
    <2>8. CASE Frees(t)
      BY <1>0, <1>1, <2>8, FreeOwnKeeps, FreePendingKeeps DEF ChainInv, Frees
    <2>9. CASE TakeAll(t)
      BY <1>0, <1>1, <2>9, TakeAllKeeps DEF ChainInv
    <2> QED
      BY <2>1, <2>2, <2>3, <2>4, <2>5, <2>6, <2>7, <2>8, <2>9 DEF Step
  <1> QED
    BY <1>2, <1>3

(* The strengthening that the following theorems rest on.                  *)
THEOREM ChainInvHolds == Spec => []ChainInv
  BY InitHolds, StepKeeps, PTL DEF Spec

-----------------------------------------------------------------------------
(* Every variable has the type that the code gives it.                     *)
THEOREM ChainTypeCorrect == Spec => []TypeOK
  <1>1. ChainInv => TypeOK
    BY DEF ChainInv, BaseInv, Types, PoolTypes, ListTypes, ThreadTypes, ScopeTypes, TypeOK
  <1> QED
    BY <1>1, ChainInvHolds, PTL

(* No pool is freed under a walker, a user of a slot or an object, whatever*)
(* puts, returns and flushes interleave (pool_.rs, flush_.rs).             *)
THEOREM NoPoolFreedInUse == Spec => []PoolsOutliveUse
  <1>1. ChainInv => PoolsOutliveUse
    <2> SUFFICES ASSUME ChainInv PROVE PoolsOutliveUse
      OBVIOUS
    <2>0. BaseInv
      BY DEF ChainInv
    <2>1. PICK rk \in [Pools -> Int] : RankInv(rk)
      BY DEF ChainInv
    <2>2. Attached \subseteq Allocated /\ Detached \subseteq Allocated
      BY DEF Attached, Detached
    <2>3. ASSUME NEW t \in Threads PROVE Touched(t) \subseteq Allocated
      <3>1. CASE pc[t] \in {"store", "rollback", "returnSlot"}
        BY <2>0, <2>2, <3>1, HolderFacts DEF Touched
      <3>2. CASE pc[t] \in {"freeRolled", "freeReturned"}
        BY <2>0, <2>2, <3>2 DEF Touched, BaseInv, OwnInv, Owners
      <3>3. CASE pc[t] = "visit"
        <4>1. seen = Passed(rk, cursor[t])
          BY <2>0, <2>1, <3>3 DEF BaseInv, LockInv, RankInv, WalkInv
        <4> QED
          BY <2>2, <3>3, <4>1 DEF Touched, Passed
      <3>4. CASE pc[t] \notin (PutPcs \ {"wait", "takeSlot"}) \cup ReturnPcs \cup {"visit"}
        <4>1. Touched(t) = {cursor[t]} \ {NoPool}
          BY <3>4 DEF Touched
        <4>2. cursor[t] # NoPool => cursor[t] \in Allocated
          BY <2>1, <2>2 DEF RankInv, WalkInv, Pending
        <4> QED
          BY <4>1, <4>2
      <3> QED
        BY <3>1, <3>2, <3>3, <3>4
    <2>4. CASE InService
      <3>1. \A slot \in used : slot[1] \in Attached
        BY <2>0, <2>4 DEF BaseInv, ApartInv, Taken
      <3>2. {head, tail} \subseteq Allocated \cup {NoPool}
        BY <2>1, <2>2, <2>4 DEF RankInv, Ends
      <3> QED
        BY <2>2, <2>3, <3>1, <3>2 DEF PoolsOutliveUse
    <2>5. CASE ~ InService
      <3>1. used = {} /\ head = NoPool /\ tail = NoPool
        BY <2>0, <2>5 DEF BaseInv, EndInv, InService
      <3> QED
        BY <2>3, <3>1 DEF PoolsOutliveUse
    <2> QED
      BY <2>4, <2>5
  <1> QED
    BY <1>1, ChainInvHolds, PTL

(* The flush has walked every pool of the chain when it turns to unpin it, *)
(* whatever slots were returned meanwhile (flush_data_).                   *)
THEOREM FlushMeetsEveryPool == Spec => []FlushWalksAll
  <1>1. ChainInv => FlushWalksAll
    BY DEF ChainInv, RankInv, WalkInv, FlushWalksAll
  <1> QED
    BY <1>1, ChainInvHolds, PTL

(* A pool that has become empty stays only while it is pinned, and when    *)
(* all is quiet no pool is left but those of a constructor that panicked   *)
(* (try_mark_detached_, try_claim_after_unpin_, free_all_weak_pools_).     *)
THEOREM EmptyPoolsGo == Spec => []NoPoolLeaks
  <1>1. ChainInv => NoPoolLeaks
    <2> SUFFICES ASSUME ChainInv PROVE NoPoolLeaks
      OBVIOUS
    <2>0. BaseInv
      BY DEF ChainInv
    <2>1. PICK rk \in [Pools -> Int] : RankInv(rk)
      BY DEF ChainInv
    <2>2. InService => \A p \in Attached : live[p] = 0 => pins[p] > 0 /\ retirePending[p]
      BY <2>0 DEF BaseInv, LiveInv
    <2>3. ASSUME \A t \in Threads : pc[t] \in {"idle", "wait", "ended"}, used = {}
          PROVE  Allocated = IF InService THEN {slot[1] : slot \in leaked} ELSE {}
      <3>1. Owners = {} /\ Holders = {}
        BY <2>3 DEF Owners, Holders
      <3>2. Detached = {}
        BY <2>1, <2>3, <3>1 DEF RankInv, PendingInv, Pending
      <3>3. Allocated = Attached
        BY <3>2 DEF Attached, Detached
      <3>4. CASE InService
        <4>1. ASSUME NEW p \in Attached PROVE \E slot \in leaked : slot[1] = p
          <5>1. pins[p] # 1
            <6>1. \A t \in Threads : ~ PinnedBy(rk, t, p)
              BY <2>3 DEF PinnedBy
            <6> QED
              BY <2>1, <3>4, <6>1 DEF RankInv, PinsInv
          <5>2. pins[p] = 0
            BY <2>1, <3>4, <5>1 DEF RankInv, PinsInv
          <5>3. live[p] # 0
            BY <2>2, <3>4, <5>2
          <5>4. SlotsAt(p)
            BY <2>0, <3>3, <3>4 DEF BaseInv, SlotsInv
          <5>5. Busy(p) # {}
            BY <5>3, <5>4, FS_EmptySet DEF SlotsAt
          <5>6. PICK i \in Indices : <<p, i>> \in Taken
            BY <5>5 DEF Busy
          <5>7. <<p, i>> \in leaked
            BY <2>3, <3>1, <5>6 DEF Taken
          <5> QED
            BY <5>7
        <4>2. \A slot \in leaked : slot[1] \in Attached
          BY <2>0, <3>4 DEF BaseInv, ApartInv, Taken
        <4> QED
          BY <3>3, <3>4, <4>1, <4>2
      <3>5. CASE ~ InService
        <4>1. Attached = {}
          BY <2>1, <2>3, <3>5 DEF InService, RankInv, WalkInv
        <4> QED
          BY <3>3, <3>5, <4>1
      <3> QED
        BY <3>4, <3>5
    <2> QED
      BY <2>2, <2>3 DEF NoPoolLeaks
  <1> QED
    BY <1>1, ChainInvHolds, PTL

-----------------------------------------------------------------------------
(* Nth follows the chain from its head, and stays at its end.              *)
LEMMA NthFollows ==
  ASSUME PoolTypes
  PROVE  /\ Nth[0] = head
         /\ \A n \in Nat : Nth[n] # NoPool => Nth[n + 1] = next[Nth[n]]
         /\ \A n \in Nat : Nth[n] = NoPool => Nth[n + 1] = NoPool
  <1> DEFINE N == [p \in Pools \cup {NoPool} |-> IF p = NoPool THEN NoPool ELSE next[p]]
  <1>0. PICK f : Iterates(f, head, N)
    <2> HIDE DEF N
    <2> QED
      BY Iterate
  <1>1. /\ f = [n \in Nat |-> IF n = 0 THEN head ELSE N[f[n - 1]]]
        /\ f[0] = head /\ \A n \in Nat : f[n + 1] = N[f[n]]
    <2> HIDE DEF N
    <2> QED
      BY <1>0 DEF Iterates
  <1>2. \A n \in Nat : f[n] \in Pools \cup {NoPool}
    <2> DEFINE S == {n \in Nat : f[n] \in Pools \cup {NoPool}}
    <2>1. 0 \in S
      BY <1>1 DEF PoolTypes
    <2>2. ASSUME NEW n \in Nat, n \in S PROVE n + 1 \in S
      <3>1. f[n] \in Pools \cup {NoPool} /\ f[n + 1] = N[f[n]]
        BY <1>1, <2>2
      <3>2. N[f[n]] \in Pools \cup {NoPool}
        <4> HIDE DEF S
        <4> QED
          BY <3>1 DEF PoolTypes
      <3> QED
        BY <3>1, <3>2
    <2> HIDE DEF S
    <2>3. Nat \subseteq S
      BY <2>1, <2>2, SetInduction
    <2> QED
      BY <2>3 DEF S
  <1> DEFINE E(g) == [n \in Nat |-> IF n = 0 THEN head
                        ELSE LET p == g[n - 1] IN IF p = NoPool THEN NoPool ELSE next[p]]
  <1>3. f = E(f)
    <2>1. \A n \in Nat : (IF n = 0 THEN head ELSE N[f[n - 1]]) =
             IF n = 0 THEN head
                ELSE LET p == f[n - 1] IN IF p = NoPool THEN NoPool ELSE next[p]
      <3> SUFFICES ASSUME NEW n \in Nat, n # 0
                   PROVE  N[f[n - 1]] = LET p == f[n - 1] IN IF p = NoPool THEN NoPool ELSE next[p]
        OBVIOUS
      <3>1. f[n - 1] \in Pools \cup {NoPool}
        BY <1>2
      <3> QED
        BY <3>1
    <2> HIDE DEF N
    <2> QED
      BY <1>1, <2>1
  <1>4. Nth = CHOOSE g : g = E(g)
    BY DEF Nth
  <1>5. Nth = E(Nth)
    <2> HIDE DEF E
    <2> QED
      BY <1>3, <1>4
  <1> HIDE DEF N
  <1>6. Nth[0] = head
    BY <1>5
  <1>7. ASSUME NEW n \in Nat
        PROVE  Nth[n + 1] = IF Nth[n] = NoPool THEN NoPool ELSE next[Nth[n]]
    <2>1. n + 1 \in Nat /\ n + 1 # 0 /\ (n + 1) - 1 = n
      OBVIOUS
    <2> QED
      BY <1>5, <2>1
  <1> QED
    BY <1>6, <1>7

(* The chain is what ChainLinked says it is.                               *)
LEMMA LinkedFromInv ==
  ASSUME ChainInv
  PROVE  ChainLinked
  <1> SUFFICES ASSUME InService PROVE
        /\ Attached = {Nth[n] : n \in 0 .. Cardinality(Pools)} \ {NoPool}
        /\ (head = NoPool) = (tail = NoPool)
        /\ \A p \in Attached : /\ (next[p] = NoPool) = (p = tail)
                               /\ (prev[p] = NoPool) = (p = head)
                               /\ next[p] # NoPool => prev[next[p]] = p
    BY DEF ChainLinked
  <1>1. PICK rk \in [Pools -> Int] : RankInv(rk)
    BY DEF ChainInv
  <1>2. Links(rk) /\ Ends(rk)
    BY <1>1 DEF RankInv
  <1>3. PoolTypes
    BY DEF ChainInv, BaseInv, Types
  <1>4. Attached \subseteq Pools /\ IsFiniteSet(Attached)
    <2>1. Attached \subseteq Pools
      BY DEF Attached, Allocated
    <2> QED
      BY <2>1, FS_Subset
  <1>5. Ranked(Attached, rk)
    BY <1>2, <1>4 DEF Ranked, Links
  <1>6. Listed(Attached, rk, head, next, NoPool)
    <2>1. NoPool \notin Attached
      BY <1>4
    <2>2. /\ head \in Attached \cup {NoPool}
          /\ head = NoPool => Attached = {}
          /\ head # NoPool => \A p \in Attached : rk[head] <= rk[p]
      BY <1>2 DEF Ends
    <2>3. \A p \in Attached :
             \/ next[p] = NoPool /\ \A q \in Attached : rk[q] <= rk[p]
             \/ /\ next[p] \in Attached /\ rk[p] < rk[next[p]]
                /\ \A q \in Attached : rk[q] <= rk[p] \/ rk[q] >= rk[next[p]]
      BY <1>2 DEF Links
    <2> QED
      BY <2>1, <2>2, <2>3 DEF Listed
  <1> DEFINE size == Cardinality(Attached)
  <1>7. size \in Nat /\ Cardinality(Pools) \in Nat /\ size <= Cardinality(Pools)
    BY <1>4, FS_Subset, FS_CardinalityType
  <1>8. /\ {Nth[n] : n \in 0 .. size - 1} = Attached
        /\ Nth[size] = NoPool
    <2>1. /\ Nth[0] = head
          /\ \A n \in Nat : Nth[n] # NoPool => Nth[n + 1] = next[Nth[n]]
      BY <1>3, NthFollows
    <2> QED
      BY <1>5, <1>6, <2>1, ListVisits
  <1>9. \A n \in Nat : n >= size => Nth[n] = NoPool
    <2> HIDE DEF size
    <2> DEFINE S == {n \in Nat : n >= size => Nth[n] = NoPool}
    <2>1. 0 \in S
      BY <1>7, <1>8
    <2>2. ASSUME NEW n \in Nat, n \in S PROVE n + 1 \in S
      <3>1. CASE n >= size
        BY <1>3, <2>2, <3>1, NthFollows
      <3>2. CASE n + 1 = size
        BY <1>8, <3>2
      <3> QED
        BY <1>7, <3>1, <3>2
    <2> HIDE DEF S
    <2>3. Nat \subseteq S
      BY <2>1, <2>2, SetInduction
    <2> QED
      BY <2>3 DEF S
  <1>10. Attached = {Nth[n] : n \in 0 .. Cardinality(Pools)} \ {NoPool}
    <2> HIDE DEF size
    <2>1. ASSUME NEW p \in Attached
          PROVE  p \in {Nth[n] : n \in 0 .. Cardinality(Pools)} \ {NoPool}
      <3>1. PICK n \in 0 .. size - 1 : p = Nth[n]
        BY <1>8
      <3>2. n \in 0 .. Cardinality(Pools)
        BY <1>7
      <3>3. p # NoPool
        BY <1>4
      <3> QED
        BY <3>1, <3>2, <3>3
    <2>2. ASSUME NEW n \in 0 .. Cardinality(Pools), Nth[n] # NoPool
          PROVE  Nth[n] \in Attached
      <3>1. n \in 0 .. size - 1
        BY <1>7, <1>9, <2>2
      <3> QED
        BY <1>8, <3>1
    <2> QED
      BY <2>1, <2>2
  <1>11. (head = NoPool) = (tail = NoPool)
    BY <1>2 DEF Ends
  <1>12. ASSUME NEW p \in Attached
         PROVE  /\ (next[p] = NoPool) = (p = tail)
                /\ (prev[p] = NoPool) = (p = head)
                /\ next[p] # NoPool => prev[next[p]] = p
    <2>1. /\ tail \in Attached /\ rk[p] <= rk[tail]
          /\ prev[p] = NoPool <=> p = head
          /\ next[p] # NoPool => prev[next[p]] = p
      BY <1>2 DEF Ends
    <2>2. next[p] = NoPool => p = tail
      <3> SUFFICES ASSUME next[p] = NoPool PROVE p = tail
        OBVIOUS
      <3>1. rk[tail] <= rk[p]
        BY <1>2, <1>4, <2>1 DEF Links
      <3>2. rk[tail] = rk[p]
        BY <1>4, <2>1, <3>1
      <3> QED
        BY <1>2, <2>1, <3>2 DEF Links
    <2>3. p = tail => next[p] = NoPool
      <3> SUFFICES ASSUME p = tail, next[p] # NoPool PROVE FALSE
        OBVIOUS
      <3>1. next[p] \in Attached /\ rk[p] < rk[next[p]]
        BY <1>2 DEF Links
      <3>2. rk[next[p]] <= rk[tail]
        BY <1>2, <3>1 DEF Ends
      <3>3. rk[next[p]] \in Int /\ rk[p] \in Int
        BY <1>4, <3>1
      <3> QED
        BY <3>1, <3>2, <3>3
    <2> QED
      BY <2>1, <2>2, <2>3
  <1> QED
    BY <1>10, <1>11, <1>12

(* The chain is a doubly linked list of exactly the attached pools, however*)
(* long it is.                                                             *)
THEOREM ChainStaysLinked == Spec => []ChainLinked
  BY ChainInvHolds, LinkedFromInv, PTL

-----------------------------------------------------------------------------
(* FreeNth follows the free list of a pool from its first slot.            *)
LEMMA FreeNthFollows ==
  ASSUME NEW p \in Pools
  PROVE  /\ FreeNth(p)[0] = latestFree[p]
         /\ \A n \in Nat : FreeNth(p)[n + 1] = nextFreed[p][FreeNth(p)[n]]
  <1> DEFINE E(g) == [n \in Nat |-> IF n = 0 THEN latestFree[p] ELSE nextFreed[p][g[n - 1]]]
  <1>1. PICK f : Iterates(f, latestFree[p], nextFreed[p])
    BY Iterate
  <1>2. f = E(f)
    BY <1>1 DEF Iterates
  <1>3. FreeNth(p) = CHOOSE g : g = E(g)
    BY DEF FreeNth
  <1>4. FreeNth(p) = E(FreeNth(p))
    <2> HIDE DEF E
    <2> QED
      BY <1>2, <1>3
  <1>5. FreeNth(p)[0] = latestFree[p]
    BY <1>4
  <1>6. ASSUME NEW n \in Nat
        PROVE  FreeNth(p)[n + 1] = nextFreed[p][FreeNth(p)[n]]
    <2>1. n + 1 \in Nat /\ n + 1 # 0 /\ (n + 1) - 1 = n
      OBVIOUS
    <2> QED
      BY <1>4, <2>1
  <1> QED
    BY <1>5, <1>6

(* Of a pool of the chain, the free list has the slots that are not in use,*)
(* and live counts the others.                                             *)
LEMMA FreeListOfPool ==
  ASSUME Types, ApartInv, InService, NEW p \in Pools, SlotsAt(p)
  PROVE  /\ {FreeNth(p)[n] : n \in 0 .. Capacity - live[p] - 1} = Indices \ InUse(p)
         /\ Cardinality(InUse(p)) = live[p]
         /\ FreeNth(p)[Capacity - live[p]] = Capacity
  <1>1. InUse(p) = Busy(p)
    <2>1. \A slot \in used \cup leaked : slot \in Pools \X Indices
      BY DEF Types, ScopeTypes
    <2>2. \A t \in Holders : index[t] \in Indices
      BY DEF Types, ThreadTypes, Holders
    <2>3. ASSUME NEW i \in InUse(p) PROVE i \in Busy(p)
      <3>1. CASE \E slot \in used \cup leaked : slot[1] = p /\ i = slot[2]
        <4>1. PICK slot \in used \cup leaked : slot[1] = p /\ i = slot[2]
          BY <3>1
        <4>2. slot = <<p, i>> /\ i \in Indices
          BY <2>1, <4>1
        <4> QED
          BY <4>1, <4>2 DEF Busy, Taken
      <3>2. CASE \E t \in Holders : pool[t] = p /\ i = index[t]
        BY <2>2, <3>2 DEF Busy, Taken, Held
      <3> QED
        BY <2>3, <3>1, <3>2 DEF InUse
    <2>4. ASSUME NEW i \in Busy(p) PROVE i \in InUse(p)
      <3>1. CASE <<p, i>> \in used \cup leaked
        <4>1. <<p, i>>[1] = p /\ <<p, i>>[2] = i
          OBVIOUS
        <4> QED
          BY <3>1, <4>1 DEF InUse
      <3>2. CASE \E t \in Holders : <<p, i>> = Held(t)
        BY <3>2 DEF InUse, Held
      <3> QED
        BY <2>4, <3>1, <3>2 DEF Busy, Taken
    <2> QED
      BY <2>3, <2>4
  <1>2. Busy(p) \subseteq Indices /\ Unused(p) = Indices \ Busy(p)
    BY DEF Busy, Unused
  <1>3. IsFiniteSet(Indices) /\ Cardinality(Indices) = Capacity
    <2>1. Capacity \in Int /\ Capacity > 0
      OBVIOUS
    <2>2. IsFiniteSet(0 .. Capacity - 1) /\ Cardinality(0 .. Capacity - 1) = Capacity
      BY <2>1, FS_Interval
    <2> QED
      BY <2>2
  <1>4. live[p] = Cardinality(Busy(p)) /\ \E r \in [Indices -> Int] : ListAt(p, r)
    BY DEF SlotsAt
  <1>5. IsFiniteSet(Unused(p)) /\ Cardinality(Unused(p)) = Capacity - live[p]
    <2> HIDE DEF Indices
    <2>1. Indices \cap Busy(p) = Busy(p)
      BY <1>2
    <2>2. /\ IsFiniteSet(Indices \ Busy(p))
          /\ Cardinality(Indices \ Busy(p))
                = Cardinality(Indices) - Cardinality(Indices \cap Busy(p))
      BY <1>3, FS_Difference
    <2> QED
      BY <1>2, <1>3, <1>4, <2>1, <2>2
  <1>6. PICK r \in [Indices -> Int] : ListAt(p, r)
    BY <1>4
  <1>7. Ranked(Unused(p), r)
    BY <1>2, <1>5, <1>6 DEF Ranked, ListAt
  <1>8. Listed(Unused(p), r, latestFree[p], nextFreed[p], Capacity)
    <2>1. Capacity \notin Unused(p)
      BY DEF Unused
    <2> QED
      BY <1>6, <2>1 DEF Listed, ListAt
  <1>9. /\ {FreeNth(p)[n] : n \in 0 .. Cardinality(Unused(p)) - 1} = Unused(p)
        /\ FreeNth(p)[Cardinality(Unused(p))] = Capacity
    <2>1. /\ FreeNth(p)[0] = latestFree[p]
          /\ \A n \in Nat : FreeNth(p)[n] # Capacity =>
                              FreeNth(p)[n + 1] = nextFreed[p][FreeNth(p)[n]]
      BY FreeNthFollows
    <2> DEFINE F == Unused(p)  f == FreeNth(p)  first == latestFree[p]  N == nextFreed[p]
    <2>2. Ranked(F, r) /\ Listed(F, r, first, N, Capacity)
      BY <1>7, <1>8
    <2>3. f[0] = first /\ \A n \in Nat : f[n] # Capacity => f[n + 1] = N[f[n]]
      BY <2>1
    <2> HIDE DEF F, f, first, N
    <2>4. {f[n] : n \in 0 .. Cardinality(F) - 1} = F /\ f[Cardinality(F)] = Capacity
      BY <2>2, <2>3, ListVisits
    <2> QED
      BY <2>4 DEF F, f
  <1> QED
    BY <1>1, <1>2, <1>4, <1>5, <1>9

(* The slots are where FreeListExact says they are.                        *)
LEMMA FreeListFromInv ==
  ASSUME ChainInv
  PROVE  FreeListExact
  <1> SUFFICES ASSUME InService
      PROVE /\ \A p \in Allocated :
                 LET free  == Capacity - live[p]
                     inUse == InUse(p)
                 IN  /\ {FreeNth(p)[n] : n \in 0 .. free - 1} = Indices \ inUse
                     /\ Cardinality(inUse) = live[p]
                     /\ FreeNth(p)[free] = Capacity
            /\ \A t, u \in Holders : t # u => Held(t) # Held(u)
            /\ \A t \in Holders : Held(t) \notin used
    BY DEF FreeListExact
  <1>1. Types /\ ApartInv /\ \A p \in Allocated : SlotsAt(p)
    BY DEF ChainInv, BaseInv, SlotsInv
  <1>2. ASSUME NEW p \in Allocated
        PROVE  /\ {FreeNth(p)[n] : n \in 0 .. Capacity - live[p] - 1} = Indices \ InUse(p)
               /\ Cardinality(InUse(p)) = live[p]
               /\ FreeNth(p)[Capacity - live[p]] = Capacity
    BY <1>1, FreeListOfPool DEF Allocated
  <1>3. /\ \A t, u \in Holders : t # u => Held(t) # Held(u)
        /\ \A t \in Holders : Held(t) \notin used
    BY <1>1 DEF ApartInv
  <1> QED
    BY <1>2, <1>3

(* No slot is given to two objects and none is lost, however many slots a  *)
(* pool has.                                                               *)
THEOREM NoSlotTwiceNorLost == Spec => []FreeListExact
  BY ChainInvHolds, FreeListFromInv, PTL

-----------------------------------------------------------------------------
(* The traversal of the live slots. What the ranks say of the chain:       *)
LEMMA ChainRanked ==
  ASSUME ChainInv, InService, NEW rk \in [Pools -> Int], RankInv(rk)
  PROVE  /\ Attached \subseteq Pools /\ NoPool \notin Attached
         /\ Ranked(Attached, rk)
         /\ Attached # {} => head \in Attached /\ tail \in Attached
         /\ \A p \in Attached :
              /\ rk[head] <= rk[p] /\ rk[p] <= rk[tail]
              /\ next[p] = NoPool <=> p = tail
              /\ next[p] # NoPool =>
                   /\ next[p] \in Attached /\ rk[p] < rk[next[p]]
                   /\ \A q \in Attached : rk[q] <= rk[p] \/ rk[q] >= rk[next[p]]
              /\ prev[p] = NoPool <=> p = head
              /\ prev[p] # NoPool =>
                   /\ prev[p] \in Attached /\ rk[prev[p]] < rk[p]
                   /\ \A q \in Attached : rk[q] <= rk[prev[p]] \/ rk[q] >= rk[p]
  <1>1. Links(rk) /\ Ends(rk)
    BY DEF RankInv
  <1>2. Attached \subseteq Pools /\ NoPool \notin Attached
    BY DEF Attached, Allocated
  <1>3. Ranked(Attached, rk)
    <2>1. IsFiniteSet(Attached)
      BY <1>2, FS_Subset
    <2> QED
      BY <1>1, <1>2, <2>1 DEF Ranked, Links
  <1>4. \A p \in Attached : rk[p] \in Int
    BY <1>2
  <1>5. Attached # {} => head \in Attached /\ tail \in Attached
    BY <1>1 DEF Ends
  <1>6. \A p \in Attached : /\ rk[head] <= rk[p] /\ rk[p] <= rk[tail]
                            /\ prev[p] = NoPool <=> p = head
                            /\ prev[p] # NoPool => /\ prev[p] \in Attached
                                                   /\ next[prev[p]] = p
    BY <1>1 DEF Ends
  <1>7. \A p \in Attached : next[p] # NoPool =>
            /\ next[p] \in Attached /\ rk[p] < rk[next[p]]
            /\ \A q \in Attached : rk[q] <= rk[p] \/ rk[q] >= rk[next[p]]
    BY <1>1 DEF Links
  <1>8. ASSUME NEW p \in Attached PROVE next[p] = NoPool <=> p = tail
    <2>1. next[p] = NoPool => p = tail
      <3> SUFFICES ASSUME next[p] = NoPool PROVE p = tail
        OBVIOUS
      <3>1. rk[tail] <= rk[p] /\ rk[p] <= rk[tail] /\ tail \in Attached
        BY <1>1, <1>2, <1>5, <1>6 DEF Links
      <3>2. rk[tail] = rk[p]
        BY <1>4, <3>1
      <3> QED
        BY <1>3, <3>1, <3>2 DEF Ranked
    <2>2. p = tail => next[p] = NoPool
      <3> SUFFICES ASSUME p = tail, next[p] # NoPool PROVE FALSE
        OBVIOUS
      <3>1. next[p] \in Attached /\ rk[p] < rk[next[p]] /\ rk[next[p]] <= rk[p]
        BY <1>6, <1>7
      <3> QED
        BY <1>4, <3>1
    <2> QED
      BY <2>1, <2>2
  <1>9. \A p \in Attached : prev[p] # NoPool =>
            /\ rk[prev[p]] < rk[p]
            /\ \A q \in Attached : rk[q] <= rk[prev[p]] \/ rk[q] >= rk[p]
    <2> SUFFICES ASSUME NEW p \in Attached, prev[p] # NoPool
                 PROVE  /\ rk[prev[p]] < rk[p]
                        /\ \A q \in Attached : rk[q] <= rk[prev[p]] \/ rk[q] >= rk[p]
      OBVIOUS
    <2>1. PICK q \in Attached : q = prev[p] /\ next[q] = p /\ p # NoPool
      BY <1>2, <1>6
    <2> QED
      BY <1>7, <2>1
  <1> QED
    BY <1>2, <1>3, <1>5, <1>6, <1>7, <1>8, <1>9

(* From any pool, the walks to the ends come to tail and head.             *)
LEMMA LastIsTail ==
  ASSUME ChainInv, InService
  PROVE  \A p \in Attached : LastOf[p] = tail
  <1>1. PICK rk \in [Pools -> Int] : RankInv(rk)
    BY DEF ChainInv
  <1> DEFINE E(g) == [p \in Attached |-> IF next[p] = NoPool THEN p ELSE g[next[p]]]
             f == [p \in Attached |-> tail]
  <1>2. /\ Ranked(Attached, rk)
        /\ \A p \in Attached :
             /\ next[p] = NoPool => p = tail
             /\ next[p] # NoPool => next[p] \in Attached /\ rk[p] < rk[next[p]]
    BY <1>1, ChainRanked
  <1>3. f = E(f)
    BY <1>2
  <1>4. LastOf = CHOOSE g : g = E(g)
    BY DEF LastOf
  <1>5. LastOf = E(LastOf)
    <2> HIDE DEF E, f
    <2> QED
      BY <1>3, <1>4
  <1>6. \A p \in Attached :
            LastOf[p] = IF next[p] = NoPool THEN p ELSE LastOf[next[p]]
    BY <1>5
  <1> DEFINE T == {p \in Attached : LastOf[p] = tail}
  <1>7. ASSUME NEW p \in Attached, \A q \in Attached : rk[q] > rk[p] => q \in T
        PROVE  p \in T
    <2>1. CASE next[p] = NoPool
      BY <1>2, <1>6, <2>1
    <2>2. CASE next[p] # NoPool
      <3>1. next[p] \in Attached /\ rk[next[p]] > rk[p]
        <4>1. rk[next[p]] \in Int /\ rk[p] \in Int
          BY <1>2, <2>2 DEF Ranked
        <4> QED
          BY <1>2, <2>2, <4>1
      <3> QED
        BY <1>6, <1>7, <2>2, <3>1
    <2> QED
      BY <2>1, <2>2
  <1> HIDE DEF T
  <1>8. Attached \subseteq T
    BY <1>2, <1>7, RankedInductionDown
  <1> QED
    BY <1>8 DEF T

LEMMA FirstIsHead ==
  ASSUME ChainInv, InService
  PROVE  \A p \in Attached : FirstOf[p] = head
  <1>1. PICK rk \in [Pools -> Int] : RankInv(rk)
    BY DEF ChainInv
  <1> DEFINE E(g) == [p \in Attached |-> IF prev[p] = NoPool THEN p ELSE g[prev[p]]]
             f == [p \in Attached |-> head]
  <1>2. /\ Ranked(Attached, rk)
        /\ \A p \in Attached :
             /\ prev[p] = NoPool => p = head
             /\ prev[p] # NoPool => prev[p] \in Attached /\ rk[prev[p]] < rk[p]
    BY <1>1, ChainRanked
  <1>3. f = E(f)
    BY <1>2
  <1>4. FirstOf = CHOOSE g : g = E(g)
    BY DEF FirstOf
  <1>5. FirstOf = E(FirstOf)
    <2> HIDE DEF E, f
    <2> QED
      BY <1>3, <1>4
  <1>6. \A p \in Attached :
            FirstOf[p] = IF prev[p] = NoPool THEN p ELSE FirstOf[prev[p]]
    BY <1>5
  <1> DEFINE T == {p \in Attached : FirstOf[p] = head}
  <1>7. ASSUME NEW p \in Attached, \A q \in Attached : rk[q] < rk[p] => q \in T
        PROVE  p \in T
    BY <1>2, <1>6, <1>7
  <1> HIDE DEF T
  <1>8. Attached \subseteq T
    BY <1>2, <1>7, RankedInduction
  <1> QED
    BY <1>8 DEF T

(* Before counts the pools that come before.                               *)
LEMMA BeforeCounts ==
  ASSUME ChainInv, InService, NEW rk \in [Pools -> Int], RankInv(rk)
  PROVE  \A p \in Attached : Before[p] = Cardinality(Below(Attached, rk, p))
  <1> DEFINE B(p) == Cardinality(Below(Attached, rk, p))
             E(g) == [p \in Attached |-> IF prev[p] = NoPool THEN 0 ELSE 1 + g[prev[p]]]
             f == [p \in Attached |-> B(p)]
  <1>2. /\ Ranked(Attached, rk)
        /\ \A p \in Attached :
             /\ prev[p] = NoPool => \A q \in Attached : rk[p] <= rk[q]
             /\ prev[p] # NoPool =>
                   /\ prev[p] \in Attached /\ rk[prev[p]] < rk[p]
                   /\ \A q \in Attached : rk[q] <= rk[prev[p]] \/ rk[q] >= rk[p]
    BY ChainRanked
  <1>3. ASSUME NEW p \in Attached
        PROVE  /\ prev[p] = NoPool => B(p) = 0
               /\ prev[p] # NoPool => B(p) = 1 + B(prev[p])
    <2>1. CASE prev[p] = NoPool
      <3>1. Below(Attached, rk, p) = {}
        BY <1>2, <2>1 DEF Below, Ranked
      <3> QED
        BY <2>1, <3>1, FS_EmptySet
    <2>2. CASE prev[p] # NoPool
      <3>1. PICK q \in Attached : q = prev[p]
        BY <1>2, <2>2
      <3>2. B(p) = B(q) + 1
        BY <1>2, <2>2, <3>1, BelowNext
      <3>3. B(q) \in Nat
        BY <1>2, BelowSize
      <3> HIDE DEF B
      <3> QED
        BY <2>2, <3>1, <3>2, <3>3
    <2> QED
      BY <2>1, <2>2
  <1> HIDE DEF B
  <1>4. f = E(f)
    BY <1>2, <1>3
  <1>5. Before = CHOOSE g : g = E(g)
    BY DEF Before
  <1>6. Before = E(Before)
    <2> HIDE DEF E, f
    <2> QED
      BY <1>4, <1>5
  <1>7. \A p \in Attached :
            Before[p] = IF prev[p] = NoPool THEN 0 ELSE 1 + Before[prev[p]]
    BY <1>6
  <1> DEFINE T == {p \in Attached : Before[p] = B(p)}
  <1>8. ASSUME NEW p \in Attached, \A q \in Attached : rk[q] < rk[p] => q \in T
        PROVE  p \in T
    BY <1>2, <1>3, <1>7, <1>8
  <1> HIDE DEF T
  <1>9. Attached \subseteq T
    BY <1>2, <1>8, RankedInduction
  <1> QED
    BY <1>9 DEF T, B

(* The place of a slot in the order of the pools and their slots.          *)
PlaceOf == [slot \in Attached \X Indices |-> Before[slot[1]] * Capacity + slot[2]]

LEMMA TimesCapacity ==
  ASSUME NEW m \in Nat, NEW n \in Nat, m < n
  PROVE  m * Capacity + Capacity <= n * Capacity
  <1>1. PICK d \in Nat : n = m + 1 + d
    <2>1. n - m - 1 \in Nat /\ n = m + 1 + (n - m - 1)
      OBVIOUS
    <2> QED
      BY <2>1
  <1>2. n * Capacity = m * Capacity + Capacity + d * Capacity
    BY <1>1
  <1>3. d * Capacity \in Nat /\ m * Capacity \in Nat
    OBVIOUS
  <1> QED
    BY <1>2, <1>3

LEMMA PlacesOrdered ==
  ASSUME ChainInv, InService, NEW rk \in [Pools -> Int], RankInv(rk)
  PROVE  /\ \A p \in Attached : \A i, j \in Indices :
                i < j => PlaceOf[<<p, i>>] < PlaceOf[<<p, j>>]
         /\ \A p, q \in Attached : \A i, j \in Indices :
                rk[p] < rk[q] => PlaceOf[<<p, i>>] < PlaceOf[<<q, j>>]
         /\ \A p \in Attached : \A i \in Indices : PlaceOf[<<p, i>>] \in Int
  <1>1. Ranked(Attached, rk)
    BY ChainRanked
  <1>2. \A p \in Attached : Before[p] \in Nat
    BY <1>1, BelowSize, BeforeCounts
  <1>3. \A p, q \in Attached : rk[p] < rk[q] => Before[p] < Before[q]
    BY <1>1, BelowGrows, BeforeCounts
  <1>4. \A p \in Attached : \A i \in Indices :
            PlaceOf[<<p, i>>] = Before[p] * Capacity + i
    BY DEF PlaceOf
  <1>5. \A p \in Attached : Before[p] * Capacity \in Nat
    BY <1>2
  <1>6. ASSUME NEW p \in Attached, NEW q \in Attached, rk[p] < rk[q],
               NEW i \in Indices, NEW j \in Indices
        PROVE  PlaceOf[<<p, i>>] < PlaceOf[<<q, j>>]
    <2>1. Before[p] * Capacity + Capacity <= Before[q] * Capacity
      BY <1>2, <1>3, <1>6, TimesCapacity
    <2>2. PICK m \in Nat, n \in Nat : m = Before[p] * Capacity /\ n = Before[q] * Capacity
      BY <1>5
    <2>3. m + i < n + j
      BY <2>1, <2>2
    <2> QED
      BY <1>4, <2>2, <2>3
  <1>7. ASSUME NEW p \in Attached, NEW i \in Indices, NEW j \in Indices, i < j
        PROVE  PlaceOf[<<p, i>>] < PlaceOf[<<p, j>>]
    <2>1. PICK m \in Nat : m = Before[p] * Capacity
      BY <1>5
    <2> QED
      BY <1>4, <1>7, <2>1
  <1>8. ASSUME NEW p \in Attached, NEW i \in Indices
        PROVE  PlaceOf[<<p, i>>] \in Int
    <2>1. PICK m \in Nat : m = Before[p] * Capacity
      BY <1>5
    <2> QED
      BY <1>4, <2>1
  <1> QED
    BY <1>6, <1>7, <1>8

(* The live slots of p from one index to before another.                   *)
LiveIn(p, from, to) == {slot \in {p} \X (from .. to - 1) : ~IsFree(slot)}

(* visit_live_range_ meets them, one after the other.                      *)
LEMMA RangeFollows ==
  ASSUME NEW p \in Pools, NEW from \in 0 .. Capacity, NEW to \in 0 .. Capacity,
         from <= to
  PROVE  \E met : /\ LiveRange(p, from, to) = met[to]
                  /\ \A i \in from .. to : met[i] = LiveSince(p, from, i, met)
  <1> DEFINE F == from .. to
             X == Seq({p} \X Indices)
             E(g) == [i \in F |-> LiveSince(p, from, i, g)]
             N == [g \in [F -> X] |-> E(g)]
  <1>1. PICK neg : neg = [i \in F |-> -i]
    OBVIOUS
  <1>2. /\ \A i \in F : i \in Int /\ neg[i] = -i
        /\ \A i, j \in F : neg[j] > neg[i] <=> j < i
    BY <1>1
  <1>3. Ranked(F, neg)
    <2>1. IsFiniteSet(F)
      BY FS_Interval
    <2>2. \A i, j \in F : neg[i] = neg[j] => i = j
      BY <1>2
    <2> HIDE DEF F
    <2> QED
      BY <1>2, <2>1, <2>2 DEF Ranked
  <1>4. \A i \in F : i # from => i - 1 \in F /\ i - 1 \in Indices /\ neg[i - 1] > neg[i]
    BY <1>2
  <1>5. <<>> \in X
    OBVIOUS
  <1>6. ASSUME NEW g \in [F -> X], NEW i \in F
        PROVE  LiveSince(p, from, i, g) \in X
    <2>1. CASE i = from
      BY <1>5, <2>1 DEF LiveSince
    <2>2. CASE i # from
      <3>1. g[i - 1] \in X /\ <<p, i - 1>> \in {p} \X Indices
        BY <1>4, <2>2
      <3>2. Append(g[i - 1], <<p, i - 1>>) \in X
        BY <3>1, AppendProperties
      <3> QED
        BY <2>2, <3>1, <3>2 DEF LiveSince
    <2> QED
      BY <2>1, <2>2
  <1>7. \A g, h \in [F -> X] : \A i \in F :
            (\A j \in F : neg[j] > neg[i] => g[j] = h[j]) =>
                LiveSince(p, from, i, g) = LiveSince(p, from, i, h)
    <2> SUFFICES ASSUME NEW g \in [F -> X], NEW h \in [F -> X], NEW i \in F,
                        \A j \in F : neg[j] > neg[i] => g[j] = h[j]
                 PROVE  LiveSince(p, from, i, g) = LiveSince(p, from, i, h)
      OBVIOUS
    <2>1. i # from => g[i - 1] = h[i - 1]
      BY <1>4
    <2> QED
      BY <2>1 DEF LiveSince
  <1> HIDE DEF F, X
  <1>8. N \in [[F -> X] -> [F -> X]]
    BY <1>6
  <1>9. \A g, h \in [F -> X] : \A i \in F :
            (\A j \in F : neg[j] > neg[i] => g[j] = h[j]) => N[g][i] = N[h][i]
    BY <1>7
  <1>10. \E g \in [F -> X] : g = N[g]
    <2> HIDE DEF N
    <2>1. LooksAhead(N, F, neg, X)
      BY <1>8, <1>9 DEF LooksAhead
    <2>2. X # {}
      BY <1>5
    <2> QED
      BY <1>3, <2>1, <2>2, RankedRecursion
  <1>11. \E g : g = E(g)
    BY <1>10
  <1>12. LiveRange(p, from, to) = (CHOOSE g : g = E(g))[to]
    BY DEF LiveRange, F
  <1> DEFINE met == CHOOSE g : g = E(g)
  <1>13. met = E(met)
    <2> HIDE DEF E
    <2> QED
      BY <1>11
  <1> HIDE DEF met
  <1>14. \A i \in F : met[i] = LiveSince(p, from, i, met)
    BY <1>13
  <1> QED
    BY <1>12, <1>14 DEF met, F

LEMMA RangeSorted ==
  ASSUME NEW p \in Pools, NEW from \in 0 .. Capacity, NEW to \in 0 .. Capacity,
         from <= to, NEW v,
         \A i, j \in Indices : i < j => v[<<p, i>>] < v[<<p, j>>]
  PROVE  Sorted(LiveRange(p, from, to), LiveIn(p, from, to), v)
  <1>1. PICK met : /\ LiveRange(p, from, to) = met[to]
                   /\ \A i \in from .. to : met[i] = LiveSince(p, from, i, met)
    BY RangeFollows
  <1> DEFINE S == {n \in Nat : from + n <= to =>
                      Sorted(met[from + n], LiveIn(p, from, from + n), v)}
  <1>2. 0 \in S
    <2>1. met[from + 0] = <<>>
      <3>1. from + 0 = from /\ from \in from .. to
        OBVIOUS
      <3> QED
        BY <1>1, <3>1 DEF LiveSince
    <2>2. LiveIn(p, from, from + 0) = {}
      BY DEF LiveIn
    <2> QED
      BY <2>1, <2>2, SortedEmpty
  <1>3. ASSUME NEW n \in Nat, n \in S PROVE n + 1 \in S
    <2> SUFFICES ASSUME from + (n + 1) <= to
                 PROVE  Sorted(met[from + (n + 1)], LiveIn(p, from, from + (n + 1)), v)
      OBVIOUS
    <2>1. PICK i \in from .. to : i = from + (n + 1) /\ i # from /\ i - 1 = from + n
      OBVIOUS
    <2>2. /\ i - 1 \in Indices /\ i - 1 \in Int
          /\ from .. i - 1 = (from .. (i - 1) - 1) \cup {i - 1}
      BY <2>1
    <2>3. Sorted(met[i - 1], LiveIn(p, from, i - 1), v)
      BY <1>3, <2>1
    <2>4. met[i] = IF IsFree(<<p, i - 1>>) THEN met[i - 1]
                   ELSE Append(met[i - 1], <<p, i - 1>>)
      BY <1>1, <2>1 DEF LiveSince
    <2>5. LiveIn(p, from, i) = LiveIn(p, from, i - 1)
                                 \cup (IF IsFree(<<p, i - 1>>) THEN {} ELSE {<<p, i - 1>>})
      BY <2>2 DEF LiveIn
    <2>6. \A slot \in LiveIn(p, from, i - 1) : v[slot] < v[<<p, i - 1>>]
      <3> SUFFICES ASSUME NEW slot \in LiveIn(p, from, i - 1)
                   PROVE  v[slot] < v[<<p, i - 1>>]
        OBVIOUS
      <3>1. PICK j \in from .. (i - 1) - 1 : slot = <<p, j>>
        BY DEF LiveIn
      <3>2. j \in Indices /\ j < i - 1
        BY <2>2, <3>1
      <3> QED
        BY <2>2, <3>1, <3>2
    <2>7. Sorted(met[i], LiveIn(p, from, i), v)
      <3>1. CASE IsFree(<<p, i - 1>>)
        BY <2>3, <2>4, <2>5, <3>1
      <3>2. CASE ~IsFree(<<p, i - 1>>)
        BY <2>3, <2>4, <2>5, <2>6, <3>2, SortedAppend DEF Precedes
      <3> QED
        BY <3>1, <3>2
    <2> QED
      BY <2>1, <2>7
  <1> HIDE DEF S
  <1>4. Nat \subseteq S
    BY <1>2, <1>3, SetInduction
  <1>5. to - from \in S /\ from + (to - from) = to
    BY <1>4
  <1> QED
    BY <1>1, <1>5 DEF S

(* The live slots of the pools from p on to before the tail.               *)
LiveFromOn(rk, p) ==
    {slot \in Attached \X Indices :
        /\ ~IsFree(slot)
        /\ rk[p] <= rk[slot[1]] /\ slot[1] # tail}

(* Of each pool, what comes before the tail is what the pool has and then  *)
(* what comes from the next one on.                                        *)
LEMMA UntilFollows ==
  ASSUME ChainInv, InService
  PROVE  \A p \in Attached : LiveUntil(tail)[p] =
             IF p = tail THEN <<>>
             ELSE LiveRange(p, 0, Capacity) \o LiveUntil(tail)[next[p]]
  <1>1. PICK rk \in [Pools -> Int] : RankInv(rk)
    BY DEF ChainInv
  <1> DEFINE F == Attached
             X == Seq(Attached \X Indices)
             E(g) == [p \in F |-> IF p = tail THEN <<>>
                                  ELSE LiveRange(p, 0, Capacity) \o g[next[p]]]
             N == [g \in [F -> X] |-> E(g)]
  <1>2. /\ F \subseteq Pools /\ Ranked(F, rk)
        /\ \A p \in F : p # tail => next[p] \in F /\ rk[next[p]] > rk[p]
    <2>1. /\ F \subseteq Pools /\ Ranked(F, rk)
          /\ \A p \in F : p # tail => next[p] \in F /\ rk[p] < rk[next[p]]
      BY <1>1, ChainRanked
    <2>2. \A p \in F : rk[p] \in Int
      BY <2>1
    <2> QED
      BY <2>1, <2>2
  <1>3. <<>> \in X
    OBVIOUS
  <1>4. \A p \in F : LiveRange(p, 0, Capacity) \in X
    <2> SUFFICES ASSUME NEW p \in F PROVE LiveRange(p, 0, Capacity) \in X
      OBVIOUS
    <2>1. \A i, j \in Indices : i < j => PlaceOf[<<p, i>>] < PlaceOf[<<p, j>>]
      BY <1>1, PlacesOrdered
    <2>2. Sorted(LiveRange(p, 0, Capacity), LiveIn(p, 0, Capacity), PlaceOf)
      <3>1. PICK v : v = PlaceOf
        OBVIOUS
      <3>2. Sorted(LiveRange(p, 0, Capacity), LiveIn(p, 0, Capacity), v)
        BY <1>2, <2>1, <3>1, RangeSorted
      <3> QED
        BY <3>1, <3>2
    <2>3. LiveRange(p, 0, Capacity) \in Seq(LiveIn(p, 0, Capacity))
      BY <2>2 DEF Sorted
    <2>4. LiveIn(p, 0, Capacity) \subseteq Attached \X Indices
      BY DEF LiveIn
    <2> QED
      BY <2>3, <2>4, SeqMonotonic
  <1>5. ASSUME NEW g \in [F -> X], NEW p \in F
        PROVE  (IF p = tail THEN <<>> ELSE LiveRange(p, 0, Capacity) \o g[next[p]]) \in X
    <2>1. CASE p = tail
      BY <1>3, <2>1
    <2>2. CASE p # tail
      <3>1. g[next[p]] \in X /\ LiveRange(p, 0, Capacity) \in X
        BY <1>2, <1>4, <2>2
      <3> QED
        BY <2>2, <3>1, ConcatProperties
    <2> QED
      BY <2>1, <2>2
  <1> HIDE DEF F, X
  <1>6. N \in [[F -> X] -> [F -> X]]
    BY <1>5
  <1>7. \A g, h \in [F -> X] : \A p \in F :
            (\A q \in F : rk[q] > rk[p] => g[q] = h[q]) => N[g][p] = N[h][p]
    BY <1>2
  <1>8. \E g \in [F -> X] : g = N[g]
    <2>1. LooksAhead(N, F, rk, X)
      <3> HIDE DEF N
      <3> QED
        BY <1>6, <1>7 DEF LooksAhead
    <2>2. X # {} /\ Ranked(F, rk)
      BY <1>2, <1>3
    <2> HIDE DEF N
    <2> QED
      BY <2>1, <2>2, RankedRecursion
  <1>9. \E g : g = E(g)
    BY <1>8
  <1>10. LiveUntil(tail) = CHOOSE g : g = E(g)
    BY DEF LiveUntil, F
  <1>11. LiveUntil(tail) = E(LiveUntil(tail))
    <2> HIDE DEF E
    <2> QED
      BY <1>9, <1>10
  <1> QED
    BY <1>11 DEF F

LEMMA UntilSorted ==
  ASSUME ChainInv, InService, NEW rk \in [Pools -> Int], RankInv(rk), NEW v,
         v = PlaceOf
  PROVE  \A p \in Attached : Sorted(LiveUntil(tail)[p], LiveFromOn(rk, p), v)
  <1> DEFINE T == {p \in Attached : Sorted(LiveUntil(tail)[p], LiveFromOn(rk, p), v)}
  <1>1. /\ Attached \subseteq Pools /\ Ranked(Attached, rk)
        /\ \A p \in Attached : rk[p] \in Int /\ rk[p] <= rk[tail]
        /\ \A p \in Attached : p # tail =>
             /\ next[p] \in Attached /\ rk[p] < rk[next[p]]
             /\ \A q \in Attached : rk[q] <= rk[p] \/ rk[q] >= rk[next[p]]
    <2>1. Attached \subseteq Pools
      BY DEF Attached, Allocated
    <2> QED
      BY <2>1, ChainRanked
  <1>2. ASSUME NEW p \in Attached, \A q \in Attached : rk[q] > rk[p] => q \in T
        PROVE  p \in T
    <2>1. CASE p = tail
      <3>1. LiveFromOn(rk, p) = {}
        <4> SUFFICES ASSUME NEW q \in Attached, rk[tail] <= rk[q], q # tail PROVE FALSE
          BY <2>1 DEF LiveFromOn
        <4>1. rk[q] = rk[tail] /\ tail \in Attached
          BY <1>1, <2>1
        <4> QED
          BY <1>1, <4>1 DEF Ranked
      <3>2. LiveUntil(tail)[p] = <<>>
        BY <2>1, UntilFollows
      <3> QED
        BY <3>1, <3>2, SortedEmpty
    <2>2. CASE p # tail
      <3>1. PICK n \in Attached : n = next[p]
        BY <1>1, <2>2
      <3>2. /\ rk[p] < rk[n]
            /\ \A q \in Attached : rk[q] <= rk[p] \/ rk[q] >= rk[n]
        BY <1>1, <2>2, <3>1
      <3>3. Sorted(LiveUntil(tail)[n], LiveFromOn(rk, n), v)
        BY <1>1, <1>2, <3>2
      <3>4. Sorted(LiveRange(p, 0, Capacity), LiveIn(p, 0, Capacity), v)
        <4>1. \A i, j \in Indices : i < j => v[<<p, i>>] < v[<<p, j>>]
          BY PlacesOrdered
        <4> QED
          BY <1>1, <4>1, RangeSorted
      <3>5. \A x \in LiveIn(p, 0, Capacity) : \A y \in LiveFromOn(rk, n) : v[x] < v[y]
        <4> SUFFICES ASSUME NEW x \in LiveIn(p, 0, Capacity), NEW y \in LiveFromOn(rk, n)
                     PROVE  v[x] < v[y]
          OBVIOUS
        <4>1. PICK i \in Indices : x = <<p, i>>
          BY DEF LiveIn
        <4>2. PICK q \in Attached, j \in Indices : y = <<q, j>> /\ rk[n] <= rk[q]
          BY DEF LiveFromOn
        <4>3. rk[p] < rk[q]
          BY <1>1, <3>2, <4>2
        <4> QED
          BY <4>1, <4>2, <4>3, PlacesOrdered
      <3>6. LiveFromOn(rk, p) = LiveIn(p, 0, Capacity) \cup LiveFromOn(rk, n)
        <4>1. ASSUME NEW q \in Attached
              PROVE  rk[p] <= rk[q] /\ q # tail <=>
                         q = p \/ (rk[n] <= rk[q] /\ q # tail)
          <5>1. rk[p] <= rk[q] => q = p \/ rk[n] <= rk[q]
            BY <1>1, <3>2 DEF Ranked
          <5>2. rk[n] <= rk[q] => rk[p] <= rk[q]
            BY <1>1, <3>2
          <5> QED
            BY <1>1, <2>2, <5>1, <5>2
        <4>2. ASSUME NEW q \in Attached, NEW i \in Indices
              PROVE  <<q, i>> \in LiveFromOn(rk, p) <=>
                       \/ <<q, i>> \in LiveIn(p, 0, Capacity)
                       \/ <<q, i>> \in LiveFromOn(rk, n)
          BY <4>1 DEF LiveFromOn, LiveIn
        <4>3. /\ LiveFromOn(rk, p) \subseteq Attached \X Indices
              /\ LiveFromOn(rk, n) \subseteq Attached \X Indices
              /\ LiveIn(p, 0, Capacity) \subseteq Attached \X Indices
          BY DEF LiveFromOn, LiveIn
        <4> QED
          BY <4>2, <4>3
      <3>7. LiveUntil(tail)[p] = LiveRange(p, 0, Capacity) \o LiveUntil(tail)[n]
        BY <2>2, <3>1, UntilFollows
      <3> QED
        <4>1. PICK s, t, S, U : /\ s = LiveRange(p, 0, Capacity)
                                /\ t = LiveUntil(tail)[n]
                                /\ S = LiveIn(p, 0, Capacity)
                                /\ U = LiveFromOn(rk, n)
          OBVIOUS
        <4>2. Sorted(s \o t, S \cup U, v)
          <5>1. /\ Sorted(s, S, v) /\ Sorted(t, U, v)
                /\ Precedes(S, U, v)
            BY <3>3, <3>4, <3>5, <4>1 DEF Precedes
          <5> QED
            BY <5>1, SortedConcat
        <4> QED
          BY <3>6, <3>7, <4>1, <4>2
    <2> QED
      BY <2>1, <2>2
  <1> HIDE DEF T
  <1>3. Attached \subseteq T
    BY <1>1, <1>2, RankedInductionDown
  <1> QED
    BY <1>3 DEF T

(* The last free slot is one of the pool's, or the first slot stands in.   *)
LEMMA LastFreeInPool ==
  ASSUME NEW p
  PROVE  LastFree(p) \in 0 .. Capacity
  <1> DEFINE free == {i \in Indices : IsFree(<<p, i>>)}
  <1>1. CASE free = {}
    BY <1>1 DEF LastFree
  <1>2. CASE free # {}
    <2> DEFINE M == {Capacity - i : i \in free}
    <2>1. M \subseteq Nat /\ M # {}
      <3>1. \A i \in free : i \in Indices
        OBVIOUS
      <3>2. \A i \in free : Capacity - i \in Nat
        BY <3>1
      <3> HIDE DEF free
      <3> QED
        BY <1>2, <3>2
    <2>2. PICK n \in M : \A m \in M : n <= m
      <3> HIDE DEF M
      <3> QED
        BY <2>1, LeastOfSet
    <2>3. PICK i \in free : n = Capacity - i
      BY <2>2
    <2>4. \A j \in free : j \in Int /\ i \in Int /\ Capacity - i <= Capacity - j
      BY <2>2, <2>3
    <2>5. \A j \in free : i >= j
      BY <2>4
    <2> HIDE DEF free
    <2>6. Max(free) \in free
      BY <2>5 DEF Max
    <2> QED
      BY <1>2, <2>6 DEF LastFree, free
  <1> QED
    BY <1>1, <1>2

(* The traversal is what TraversalMeetsAll says it is.                     *)
LEMMA TraversalFromInv ==
  ASSUME ChainInv
  PROVE  TraversalMeetsAll
  <1> SUFFICES ASSUME InService, NEW p \in Attached
               PROVE
        LET met  == LiveFrom(p)
            rank == [k \in DOMAIN met |-> Before[met[k][1]] * Capacity + met[k][2]]
        IN  /\ {met[k] : k \in DOMAIN met}
                  = {slot \in Attached \X Indices : ~IsFree(slot)}
            /\ Cardinality({k \in DOMAIN met :
                               rank[k] >= rank[(k % Len(met)) + 1]}) <= 1
    BY DEF TraversalMeetsAll
  <1>1. PICK rk \in [Pools -> Int] : RankInv(rk)
    BY DEF ChainInv
  <1>2. PICK v : v = PlaceOf
    OBVIOUS
  <1>3. PICK lf \in 0 .. Capacity : lf = LastFree(tail)
    BY LastFreeInPool
  <1>4. PICK a, b, c : /\ a = LiveRange(tail, lf, Capacity)
                       /\ b = LiveUntil(tail)[head]
                       /\ c = LiveRange(tail, 0, lf)
    OBVIOUS
  <1>5. LiveFrom(p) = (a \o b) \o c
    <2>1. LastOf[p] = tail /\ FirstOf[p] = head
      BY LastIsTail, FirstIsHead
    <2> QED
      BY <1>3, <1>4, <2>1 DEF LiveFrom
  <1>6. /\ Attached \subseteq Pools /\ Ranked(Attached, rk)
        /\ head \in Attached /\ tail \in Attached
        /\ \A q \in Attached : /\ rk[head] <= rk[q] /\ rk[q] <= rk[tail]
                               /\ rk[q] \in Int
    <2>1. Attached \subseteq Pools
      BY DEF Attached, Allocated
    <2> QED
      BY <1>1, <2>1, ChainRanked
  <1>7. /\ \A q \in Attached : \A i, j \in Indices :
              i < j => v[<<q, i>>] < v[<<q, j>>]
        /\ \A q, r \in Attached : \A i, j \in Indices :
              rk[q] < rk[r] => v[<<q, i>>] < v[<<r, j>>]
        /\ \A q \in Attached : \A i \in Indices : v[<<q, i>>] \in Int
    BY <1>1, <1>2, PlacesOrdered
  <1>8. PICK A, B, C : /\ A = LiveIn(tail, lf, Capacity)
                       /\ B = LiveFromOn(rk, head)
                       /\ C = LiveIn(tail, 0, lf)
    OBVIOUS
  <1>9. Sorted(a, A, v) /\ Sorted(b, B, v) /\ Sorted(c, C, v)
    <2>1. tail \in Pools /\ 0 \in 0 .. Capacity /\ Capacity \in 0 .. Capacity
          /\ lf <= Capacity /\ 0 <= lf
      BY <1>6
    <2>2. \A i, j \in Indices : i < j => v[<<tail, i>>] < v[<<tail, j>>]
      BY <1>6, <1>7
    <2>3. Sorted(a, A, v)
      BY <1>4, <1>8, <2>1, <2>2, RangeSorted
    <2>4. Sorted(c, C, v)
      BY <1>4, <1>8, <2>1, <2>2, RangeSorted
    <2>5. Sorted(b, B, v)
      BY <1>1, <1>2, <1>4, <1>6, <1>8, UntilSorted
    <2> QED
      BY <2>3, <2>4, <2>5
  <1>10. /\ \A x \in A : \E i \in Indices : x = <<tail, i>> /\ lf <= i
         /\ \A x \in C : \E i \in Indices : x = <<tail, i>> /\ i < lf
         /\ \A x \in B : \E q \in Attached : \E i \in Indices :
                            x = <<q, i>> /\ rk[q] < rk[tail]
    <2>1. \A x \in A : \E i \in Indices : x = <<tail, i>> /\ lf <= i
      BY <1>8 DEF LiveIn
    <2>2. \A x \in C : \E i \in Indices : x = <<tail, i>> /\ i < lf
      BY <1>8 DEF LiveIn
    <2>3. ASSUME NEW x \in B
          PROVE  \E q \in Attached : \E i \in Indices : x = <<q, i>> /\ rk[q] < rk[tail]
      <3>1. PICK q \in Attached, i \in Indices : x = <<q, i>> /\ q # tail
        BY <1>8 DEF LiveFromOn
      <3>2. rk[q] < rk[tail]
        BY <1>6, <3>1 DEF Ranked
      <3> QED
        BY <3>1, <3>2
    <2> QED
      BY <2>1, <2>2, <2>3
  <1>11. \A x \in B : \A y \in C : v[x] < v[y]
    BY <1>6, <1>7, <1>10
  <1>12. \A x \in A : \A y \in B \cup C : v[y] < v[x]
    <2>1. ASSUME NEW x \in A, NEW y \in B PROVE v[y] < v[x]
      BY <1>6, <1>7, <1>10
    <2>2. ASSUME NEW x \in A, NEW y \in C PROVE v[y] < v[x]
      <3>1. PICK i \in Indices : x = <<tail, i>> /\ lf <= i
        BY <1>10
      <3>2. PICK j \in Indices : y = <<tail, j>> /\ j < lf
        BY <1>10
      <3>3. j < i
        BY <3>1, <3>2
      <3> QED
        BY <1>6, <1>7, <3>1, <3>2, <3>3
    <2> QED
      BY <2>1, <2>2
  <1>13. \A x \in A \cup (B \cup C) : v[x] \in Int
    BY <1>6, <1>7, <1>10
  <1>14. Sorted(b \o c, B \cup C, v)
    BY <1>9, <1>11, SortedConcat DEF Precedes
  <1>15. PICK m : m = a \o (b \o c)
    OBVIOUS
  <1>16. /\ m \in Seq(A \cup (B \cup C))
         /\ Range(m) = A \cup (B \cup C)
         /\ Cardinality(Descents(m, v)) <= 1
    <2>1. PICK t, T : t = b \o c /\ T = B \cup C
      OBVIOUS
    <2>2. /\ Sorted(a, A, v) /\ Sorted(t, T, v)
          /\ IntValued(A \cup T, v) /\ Precedes(T, A, v)
      BY <1>9, <1>12, <1>13, <1>14, <2>1 DEF Precedes, IntValued
    <2>3. ListedInCycle(a \o t, A \cup T, v)
      BY <2>2, SortedCycle
    <2> QED
      BY <1>15, <2>1, <2>3 DEF ListedInCycle
  <1>17. LiveFrom(p) = m
    <2>1. OfOneSet(a, b, c)
      <3>1. a \in Seq(A) /\ b \in Seq(B) /\ c \in Seq(C)
        BY <1>9 DEF Sorted
      <3>2. PICK U : A \subseteq U /\ B \subseteq U /\ C \subseteq U
        <4> WITNESS A \cup (B \cup C)
        <4> QED
          OBVIOUS
      <3>3. a \in Seq(U) /\ b \in Seq(U) /\ c \in Seq(U)
        BY <3>1, <3>2, SeqMonotonic
      <3> QED
        BY <3>3 DEF OfOneSet
    <2> QED
      BY <1>5, <1>15, <2>1, Regrouped
  <1>18. A \cup (B \cup C) = {slot \in Attached \X Indices : ~IsFree(slot)}
    <2>1. ASSUME NEW q \in Attached, NEW i \in Indices
          PROVE  <<q, i>> \in A \cup (B \cup C) <=> ~IsFree(<<q, i>>)
      <3>1. CASE q = tail
        <4>1. <<q, i>> \notin B
          BY <1>8, <3>1 DEF LiveFromOn
        <4>2. <<q, i>> \in A \cup C <=> ~IsFree(<<q, i>>)
          BY <1>8, <3>1 DEF LiveIn
        <4> QED
          BY <4>1, <4>2
      <3>2. CASE q # tail
        <4>1. <<q, i>> \notin A \cup C
          BY <1>8, <3>2 DEF LiveIn
        <4>2. <<q, i>> \in B <=> ~IsFree(<<q, i>>)
          BY <1>6, <1>8, <3>2 DEF LiveFromOn
        <4> QED
          BY <4>1, <4>2
      <3> QED
        BY <3>1, <3>2
    <2>2. A \cup (B \cup C) \subseteq Attached \X Indices
      BY <1>6, <1>10
    <2> QED
      BY <2>1, <2>2
  <1>19. DOMAIN m = 1 .. Len(m) /\ Len(m) \in Nat
    BY <1>16, LenProperties
  <1>20. PICK rank : rank = [k \in DOMAIN m |-> Before[m[k][1]] * Capacity + m[k][2]]
    OBVIOUS
  <1>21. \A k \in 1 .. Len(m) : rank[k] = v[m[k]]
    <2> SUFFICES ASSUME NEW k \in 1 .. Len(m) PROVE rank[k] = v[m[k]]
      OBVIOUS
    <2>1. m[k] \in Attached \X Indices
      BY <1>16, <1>18
    <2> QED
      BY <1>2, <1>19, <1>20, <2>1 DEF PlaceOf
  <1>22. \A k \in 1 .. Len(m) : Around(Len(m), k) \in 1 .. Len(m)
    <2>1. \A k \in 1 .. Len(m) : Around(Len(m), k) = IF k = Len(m) THEN 1 ELSE k + 1
      BY <1>19, NextInCycle
    <2>2. PICK n \in Nat : n = Len(m)
      BY <1>19
    <2>3. \A k \in 1 .. n : (IF k = n THEN 1 ELSE k + 1) \in 1 .. n
      OBVIOUS
    <2> QED
      BY <2>1, <2>2, <2>3
  <1>23. {k \in DOMAIN m : rank[k] >= rank[Around(Len(m), k)]} = Descents(m, v)
    BY <1>19, <1>21, <1>22 DEF Descents
  <1>24. {m[k] : k \in DOMAIN m} = {slot \in Attached \X Indices : ~IsFree(slot)}
    BY <1>16, <1>18 DEF Range
  <1>25. Cardinality({k \in DOMAIN m : rank[k] >= rank[(k % Len(m)) + 1]}) <= 1
    BY <1>16, <1>23 DEF Around
  <1> QED
    BY <1>17, <1>20, <1>24, <1>25

(* From whichever pool it starts, the traversal meets every live slot once,*)
(* in the order of the pools and their slots but for the one place where   *)
(* it wraps around, however many pools there are and however large.        *)
THEOREM TraversalIsComplete == Spec => []TraversalMeetsAll
  BY ChainInvHolds, TraversalFromInv, PTL
=============================================================================
