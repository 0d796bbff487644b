------------------------------ MODULE SlotLife ------------------------------
(***************************************************************************)
(* The life of one weak slot and of the objects that occupy it in turn:    *)
(* the slot's atomic word (DataState and weak count), the strong count and *)
(* the memory of the chunk, the Retain handles, the Owning and Sharing     *)
(* views borrowed from them, the handles of the scope, its flush and its   *)
(* retirement.                                                             *)
(*                                                                         *)
(* Every atomic access of the Rust code is a step of its own; a thread is  *)
(* inside at most one operation, and pc says which access comes next.      *)
(* What the operations do to the pools and to the scope's registration is  *)
(* left to the modules about those; whether the scope's other slots keep   *)
(* its chain of weak pools from being empty is left open.                  *)
(***************************************************************************)
EXTENDS Naturals, FiniteSets

CONSTANTS
    Threads,     \* the threads that use the object
    Retains,     \* identities of Retain handles
    Views,       \* identities of Owning and Sharing views
    WeakMod,     \* the weak count is kept modulo this (2^28 in the code)
    MaxObjects,  \* bound: objects put into the slot, one after the other
    MaxHandles,  \* bound: Scope handles that exist at one time
    NoRetain, NoView, NoThread

ASSUME ConstantsAssumption ==
    /\ IsFiniteSet(Retains) /\ IsFiniteSet(Views)
    /\ WeakMod \in Nat \ {0}
    /\ MaxObjects \in Nat /\ MaxHandles \in Nat \ {0}
    /\ NoRetain \notin Retains /\ NoView \notin Views /\ NoThread \notin Threads

VARIABLES
    dataState,    \* the DataState bits of the slot word
    weakCount,    \* the weak count bits of the slot word
    strongCount,  \* the strong count in the chunk header
    strongChunk,  \* the slot points to a chunk
    chunkMemory,  \* the memory of the object's chunk is not reclaimed yet
    retained,     \* the Retain handles that exist
    owning,       \* the Owning views that exist
    sharing,      \* the Sharing views that exist
    lender,       \* the Retain a view borrows from; NoRetain once leaked
    handles,      \* the Scope handles, but for those inside Scope::close
    closing,      \* the threads inside Scope::close, each with its handle
    closed,       \* the scope has been asked to close
    writer,       \* the thread inside the scope's write lock
    allDead,      \* the flush's all_dead
    destructions, \* how often the object's destructor ran
    objects,      \* how many objects the slot has held
    overtaken,    \* a drop's CAS from Sharing to Created came after a join
    pc,           \* the next access of each thread
    borrow,       \* the Retain that a thread's operation borrows
    view          \* the view that a thread's upgrade will return

slotVars   == <<dataState, weakCount, strongCount, strongChunk, chunkMemory>>
handleVars == <<retained, owning, sharing, lender>>
scopeVars  == <<handles, closing, closed, writer, allDead>>
ghostVars  == <<destructions, objects, overtaken>>
threadVars == <<pc, borrow, view>>
vars == <<slotVars, handleVars, scopeVars, ghostVars, threadVars>>

DataStates == {"Reclaimed", "Created", "Owning", "Sharing",
               "Destroying", "Destroyed"}
IsDataAlive(s) == s \in {"Created", "Owning", "Sharing"}

(* Wrong: two claims of one object; a claim under a view.                  *)
ClaimsTwice(s)    == s \in {"Created", "Destroying"}
ClaimsAnyAlive(s) == IsDataAlive(s)
IsClaimable(s) == s = "Created"

UpgradePcs == {"tryOwning", "trySharing", "readSharing", "incrStrong"}
ClaimPcs   == {"claim", "loadChunk", "runDrop", "markDestroyed"}
FlushPcs   == {"locked", "scan", "reread", "reclaim"}
RetirePcs  == {"readHandles", "readChain", "reclaimRest", "unlock"}
Pcs == UpgradePcs \cup ClaimPcs \cup FlushPcs \cup RetirePcs
         \cup {"idle", "put", "sharingBack", "readWeak", "readState",
               "tryRelease", "returnSlot", "seeUnheld", "readAlive",
               "tryWrite", "tryRetire", "dropHandle"}

-----------------------------------------------------------------------------
(* The slot is free, its scope new and nobody is busy.                     *)
Init ==
    /\ dataState = "Reclaimed" /\ weakCount = 0 /\ strongCount = 0
    /\ strongChunk = FALSE /\ chunkMemory = FALSE
    /\ retained = {} /\ owning = {} /\ sharing = {}
    /\ lender = [v \in Views |-> NoRetain]
    /\ handles = 1 /\ closing = {} /\ closed = FALSE
    /\ writer = NoThread /\ allDead = FALSE
    /\ destructions = 0 /\ objects = 0 /\ overtaken = FALSE
    /\ pc = [t \in Threads |-> "idle"]
    /\ borrow = [t \in Threads |-> NoRetain]
    /\ view = [t \in Threads |-> NoView]

Goto(t, label) == pc' = [pc EXCEPT ![t] = label]
Proceed(t, label) == Goto(t, label) /\ UNCHANGED <<borrow, view>>

(* The operation returns: what it borrowed is free again.                  *)
Return(t) ==
    /\ Goto(t, "idle")
    /\ borrow' = [borrow EXCEPT ![t] = NoRetain]
    /\ view' = [view EXCEPT ![t] = NoView]

(* The weak count wraps silently inside its bits.                          *)
Incr(c) == IF c + 1 = WeakMod THEN 0 ELSE c + 1
Decr(c) == IF c = 0 THEN WeakMod - 1 ELSE c - 1

UnusedView(v) == v \notin owning \cup sharing /\ \A t \in Threads : view[t] # v

(* The borrow checker: no view and no running call borrows from r.         *)
Unborrowed(r) == /\ \A v \in owning \cup sharing : lender[v] # r
                 /\ \A t \in Threads : borrow[t] # r

-----------------------------------------------------------------------------
(* Scope::put_async borrows a handle: the closed check, then the await of  *)
(* the write lock, then the object. The await may be cancelled, the        *)
(* allocation may fail, or the pool may hand out another slot.             *)
PutCheck(t) ==
    /\ pc[t] = "idle" /\ handles > 0 /\ ~closed
    /\ Proceed(t, "put")
    /\ UNCHANGED <<slotVars, handleVars, scopeVars, ghostVars>>

Put(t) ==
    /\ pc[t] = "put" /\ writer = NoThread /\ dataState = "Reclaimed"
    /\ objects < MaxObjects
    /\ \E r \in Retains : retained' = {r}
    /\ dataState' = "Created" /\ weakCount' = Incr(0) /\ strongCount' = 0
    /\ strongChunk' = TRUE /\ chunkMemory' = TRUE
    /\ destructions' = 0 /\ objects' = objects + 1
    /\ Return(t)
    /\ UNCHANGED <<owning, sharing, lender, scopeVars, overtaken>>

PutElsewhere(t) ==
    /\ pc[t] = "put"
    /\ Return(t)
    /\ UNCHANGED <<slotVars, handleVars, scopeVars, ghostVars>>

-----------------------------------------------------------------------------
(* Retain::clone: one atomic update of the weak count.                     *)
CloneRetain(t) ==
    /\ pc[t] = "idle" /\ retained # {}
    /\ \E r \in Retains \ retained : retained' = retained \cup {r}
    /\ weakCount' = Incr(weakCount)
    /\ UNCHANGED <<dataState, strongCount, strongChunk, chunkMemory, owning,
                   sharing, lender, scopeVars, ghostVars, threadVars>>

(* Retain::try_owning and try_sharing start by loading strong_chunk; a     *)
(* null pointer ends the call at once and changes nothing.                 *)
StartUpgrade(t, label) ==
    /\ pc[t] = "idle" /\ strongChunk
    /\ \E r \in retained, v \in Views :
         /\ UnusedView(v)
         /\ borrow' = [borrow EXCEPT ![t] = r]
         /\ view' = [view EXCEPT ![t] = v]
    /\ Goto(t, label)
    /\ UNCHANGED <<slotVars, handleVars, scopeVars, ghostVars>>

StartOwning(t)  == StartUpgrade(t, "tryOwning")
StartSharing(t) == StartUpgrade(t, "trySharing")

(* Wrong: upgrades whenever no view is there.                              *)
OwnsUnviewed(t) ==
    /\ pc[t] = "tryOwning"
    /\ IF dataState \notin {"Owning", "Sharing"}
         THEN /\ dataState' = "Owning"
              /\ owning' = owning \cup {view[t]}
              /\ lender' = [lender EXCEPT ![view[t]] = borrow[t]]
         ELSE UNCHANGED <<dataState, owning, lender>>
    /\ Return(t)
    /\ UNCHANGED <<weakCount, strongCount, strongChunk, chunkMemory, retained,
                   sharing, scopeVars, ghostVars>>

(* The CAS from Created to Owning decides an owning upgrade.               *)
TryOwning(t) ==
    /\ pc[t] = "tryOwning"
    /\ IF dataState = "Created"
         THEN /\ dataState' = "Owning"
              /\ owning' = owning \cup {view[t]}
              /\ lender' = [lender EXCEPT ![view[t]] = borrow[t]]
         ELSE UNCHANGED <<dataState, owning, lender>>
    /\ Return(t)
    /\ UNCHANGED <<weakCount, strongCount, strongChunk, chunkMemory, retained,
                   sharing, scopeVars, ghostVars>>

(* The loop of try_sharing: the CAS from Created to Sharing, the read of   *)
(* the state when it fails, and the increment of the strong count.         *)
TrySharing(t) ==
    /\ pc[t] = "trySharing"
    /\ IF dataState = "Created"
         THEN dataState' = "Sharing" /\ Proceed(t, "incrStrong")
         ELSE UNCHANGED dataState /\ Proceed(t, "readSharing")
    /\ UNCHANGED <<weakCount, strongCount, strongChunk, chunkMemory,
                   handleVars, scopeVars, ghostVars>>

ReadSharing(t) ==
    /\ pc[t] = "readSharing"
    /\ \/ dataState = "Sharing" /\ Proceed(t, "incrStrong")
       \/ dataState = "Created" /\ Proceed(t, "trySharing")
       \/ dataState \notin {"Sharing", "Created"} /\ Return(t)
    /\ UNCHANGED <<slotVars, handleVars, scopeVars, ghostVars>>

IncrStrong(t) ==
    /\ pc[t] = "incrStrong"
    /\ strongCount' = strongCount + 1
    /\ sharing' = sharing \cup {view[t]}
    /\ lender' = [lender EXCEPT ![view[t]] = borrow[t]]
    /\ Return(t)
    /\ UNCHANGED <<dataState, weakCount, strongChunk, chunkMemory, retained,
                   owning, scopeVars, ghostVars>>

(* Sharing::clone. The clone borrows from the same Retain.                 *)
CloneSharing(t) ==
    /\ pc[t] = "idle"
    /\ \E v \in sharing, w \in Views :
         /\ lender[v] # NoRetain /\ UnusedView(w)
         /\ sharing' = sharing \cup {w}
         /\ lender' = [lender EXCEPT ![w] = lender[v]]
    /\ strongCount' = strongCount + 1
    /\ UNCHANGED <<dataState, weakCount, strongChunk, chunkMemory, retained,
                   owning, scopeVars, ghostVars, threadVars>>

(* mem::forget of a view: the borrow ends and no destructor runs.          *)
LeakView(t) ==
    /\ pc[t] = "idle"
    /\ \E v \in owning \cup sharing :
         /\ lender[v] # NoRetain
         /\ lender' = [lender EXCEPT ![v] = NoRetain]
    /\ UNCHANGED <<slotVars, retained, owning, sharing, scopeVars, ghostVars,
                   threadVars>>

-----------------------------------------------------------------------------
(* Owning::drop: the CAS back to Created, the check for an unreachable     *)
(* object, and the retry of a delayed flush. The borrow lasts until drop   *)
(* returns.                                                                *)
DropOwning(t) ==
    /\ pc[t] = "idle"
    /\ \E v \in owning :
         /\ lender[v] # NoRetain
         /\ owning' = owning \ {v}
         /\ lender' = [lender EXCEPT ![v] = NoRetain]
         /\ borrow' = [borrow EXCEPT ![t] = lender[v]]
    /\ dataState' = IF dataState = "Owning" THEN "Created" ELSE dataState
    /\ Goto(t, "readWeak")
    /\ UNCHANGED <<weakCount, strongCount, strongChunk, chunkMemory, retained,
                   sharing, scopeVars, ghostVars, view>>

(* Sharing::drop: the decrement of the strong count; whoever reaches zero  *)
(* moves the state back to Created in a second step.                       *)
(* Wrong: any drop of a Sharing view ends the sharing.                     *)
DropEndsSharing(t) ==
    /\ pc[t] = "idle"
    /\ \E v \in sharing :
         /\ lender[v] # NoRetain
         /\ sharing' = sharing \ {v}
         /\ lender' = [lender EXCEPT ![v] = NoRetain]
         /\ borrow' = [borrow EXCEPT ![t] = lender[v]]
    /\ strongCount' = strongCount - 1
    /\ Goto(t, "sharingBack")
    /\ UNCHANGED <<dataState, weakCount, strongChunk, chunkMemory, retained,
                   owning, scopeVars, ghostVars, view>>

DropSharing(t) ==
    /\ pc[t] = "idle"
    /\ \E v \in sharing :
         /\ lender[v] # NoRetain
         /\ sharing' = sharing \ {v}
         /\ lender' = [lender EXCEPT ![v] = NoRetain]
         /\ borrow' = [borrow EXCEPT ![t] = lender[v]]
    /\ strongCount' = strongCount - 1
    /\ Goto(t, IF strongCount = 1 THEN "sharingBack" ELSE "tryWrite")
    /\ UNCHANGED <<dataState, weakCount, strongChunk, chunkMemory, retained,
                   owning, scopeVars, ghostVars, view>>

(* The CAS does not look at the count again: whoever joined in between is  *)
(* overtaken.                                                              *)
Joined == sharing # {} \/ \E t \in Threads : pc[t] = "incrStrong"

SharingBack(t) ==
    /\ pc[t] = "sharingBack"
    /\ dataState' = IF dataState = "Sharing" THEN "Created" ELSE dataState
    /\ overtaken' = (overtaken \/ (dataState = "Sharing" /\ Joined))
    /\ Proceed(t, "readWeak")
    /\ UNCHANGED <<weakCount, strongCount, strongChunk, chunkMemory,
                   handleVars, scopeVars, destructions, objects>>

(* Retain::drop: the decrement; only the drop that reaches zero goes on.   *)
DropRetain(t) ==
    /\ pc[t] = "idle"
    /\ \E r \in retained : Unborrowed(r) /\ retained' = retained \ {r}
    /\ weakCount' = Decr(weakCount)
    /\ Goto(t, IF Decr(weakCount) # 0 THEN "idle" ELSE "readWeak")
    /\ UNCHANGED <<dataState, strongCount, strongChunk, chunkMemory, owning,
                   sharing, lender, scopeVars, ghostVars, borrow, view>>

-----------------------------------------------------------------------------
(* The destruction that the view drops, the last Retain drop and the flush *)
(* share. Where the caller goes on depends on who it is: the flush rereads *)
(* the slot, a view drop retries the flush, the last Retain drop looks     *)
(* whether the slot can be returned.                                       *)
(* Wrong: the last Retain drop does not try the release.                   *)
NeverReleases(t) == IF writer = t THEN "reread"
                    ELSE IF borrow[t] # NoRetain THEN "tryWrite"
                    ELSE "readAlive"

AfterClaim(t) == IF writer = t THEN "reread"
                 ELSE IF borrow[t] # NoRetain THEN "tryWrite"
                 ELSE "tryRelease"

(* Wrong: a view drop destroys the object though Retains are left.         *)
ReadsNoCount(t) ==
    /\ pc[t] = "readWeak"
    /\ Proceed(t, "readState")
    /\ UNCHANGED <<slotVars, handleVars, scopeVars, ghostVars>>

(* claim_and_destroy_if_unreachable_ reads the count, then the state.      *)
ReadWeak(t) ==
    /\ pc[t] = "readWeak"
    /\ Proceed(t, IF weakCount # 0 THEN AfterClaim(t) ELSE "readState")
    /\ UNCHANGED <<slotVars, handleVars, scopeVars, ghostVars>>

ReadState(t) ==
    /\ pc[t] = "readState"
    /\ Proceed(t, IF dataState # "Created" THEN AfterClaim(t) ELSE "claim")
    /\ UNCHANGED <<slotVars, handleVars, scopeVars, ghostVars>>

(* Wrong: claims straight to Destroyed.                                    *)
ClaimAsDestroyed(t) ==
    /\ pc[t] = "claim"
    /\ IF IsClaimable(dataState)
         THEN dataState' = "Destroyed" /\ Proceed(t, "loadChunk")
         ELSE UNCHANGED dataState /\ Proceed(t, AfterClaim(t))
    /\ UNCHANGED <<weakCount, strongCount, strongChunk, chunkMemory,
                   handleVars, scopeVars, ghostVars>>

(* try_claim_destroy: the one place where a destruction is decided.        *)
Claim(t) ==
    /\ pc[t] = "claim"
    /\ IF IsClaimable(dataState)
         THEN dataState' = "Destroying" /\ Proceed(t, "loadChunk")
         ELSE UNCHANGED dataState /\ Proceed(t, AfterClaim(t))
    /\ UNCHANGED <<weakCount, strongCount, strongChunk, chunkMemory,
                   handleVars, scopeVars, ghostVars>>

(* finish_destroy_: without a chunk no destructor is found.                *)
LoadChunk(t) ==
    /\ pc[t] = "loadChunk"
    /\ Proceed(t, IF strongChunk THEN "runDrop" ELSE "markDestroyed")
    /\ UNCHANGED <<slotVars, handleVars, scopeVars, ghostVars>>

(* The predrop hook and the destructor, in the chunk's memory.             *)
RunDrop(t) ==
    /\ pc[t] = "runDrop"
    /\ destructions' = destructions + 1
    /\ Proceed(t, "markDestroyed")
    /\ UNCHANGED <<slotVars, handleVars, scopeVars, objects, overtaken>>

MarkDestroyed(t) ==
    /\ pc[t] = "markDestroyed"
    /\ dataState' = IF dataState = "Destroying" THEN "Destroyed" ELSE dataState
    /\ Proceed(t, AfterClaim(t))
    /\ UNCHANGED <<weakCount, strongCount, strongChunk, chunkMemory,
                   handleVars, scopeVars, ghostVars>>

(* Wrong: releases a slot whose destruction is still going on.             *)
ReleaseUndestroyed(t) ==
    /\ pc[t] = "tryRelease"
    /\ Proceed(t, IF weakCount = 0 /\ ~IsDataAlive(dataState)
                    THEN "returnSlot" ELSE "readAlive")
    /\ UNCHANGED <<slotVars, handleVars, scopeVars, ghostVars>>

(* try_release_dead_slot_: a dead slot goes back to its pool.              *)
TryRelease(t) ==
    /\ pc[t] = "tryRelease"
    /\ Proceed(t, IF weakCount = 0 /\ dataState = "Destroyed"
                    THEN "returnSlot" ELSE "readAlive")
    /\ UNCHANGED <<slotVars, handleVars, scopeVars, ghostVars>>

(* release_slot_, in the lock of the chain of weak pools: if this was the  *)
(* last slot in use, the chain is empty now and the scope may retire.      *)
ReturnSlot(t) ==
    /\ pc[t] = "returnSlot"
    /\ dataState' = "Reclaimed" /\ weakCount' = 0 /\ strongChunk' = FALSE
    /\ Return(t) \/ Proceed(t, "seeUnheld")
    /\ UNCHANGED <<strongCount, chunkMemory, handleVars, scopeVars, ghostVars>>

(* handle_count_: the handle of close counts until close drops it.         *)
Unheld == handles = 0 /\ closing = {}

SeeUnheld(t) ==
    /\ pc[t] = "seeUnheld"
    /\ IF Unheld THEN Proceed(t, "tryRetire") ELSE Return(t)
    /\ UNCHANGED <<slotVars, handleVars, scopeVars, ghostVars>>

(* The slot was kept: a flush is worth a try only while the data lives.    *)
ReadAlive(t) ==
    /\ pc[t] = "readAlive"
    /\ IF IsDataAlive(dataState) THEN Proceed(t, "tryWrite") ELSE Return(t)
    /\ UNCHANGED <<slotVars, handleVars, scopeVars, ghostVars>>

-----------------------------------------------------------------------------
(* Scope::clone, and the drop of a handle that no put borrows.             *)
CloneScope(t) ==
    /\ pc[t] = "idle" /\ handles \in 1 .. MaxHandles - 1
    /\ handles' = handles + 1
    /\ UNCHANGED <<slotVars, handleVars, closing, closed, writer, allDead,
                   ghostVars, threadVars>>

GiveHandle ==
    /\ handles > IF \E t \in Threads : pc[t] = "put" THEN 1 ELSE 0
    /\ handles' = handles - 1

DropScope(t) ==
    /\ pc[t] = "idle" /\ GiveHandle
    /\ Proceed(t, "tryWrite")
    /\ UNCHANGED <<slotVars, handleVars, closing, closed, writer, allDead,
                   ghostVars>>

(* Scope::close asks for the close, flushes and drops its handle; every    *)
(* drop of a handle tries a flush, so that close tries twice.              *)
CloseScope(t) ==
    /\ pc[t] = "idle" /\ GiveHandle
    /\ closed' = TRUE /\ closing' = closing \cup {t}
    /\ Proceed(t, "tryWrite")
    /\ UNCHANGED <<slotVars, handleVars, writer, allDead, ghostVars>>

DropHandle(t) ==
    /\ pc[t] = "dropHandle"
    /\ closing' = closing \ {t}
    /\ Proceed(t, "tryWrite")
    /\ UNCHANGED <<slotVars, handleVars, handles, closed, writer, allDead,
                   ghostVars>>

(* The flush is over, done or given up.                                    *)
EndFlush(t) == IF t \in closing THEN Proceed(t, "dropHandle") ELSE Return(t)

(* try_enter_write_: whoever finds the lock taken gives up. After the      *)
(* return of a slot there is nothing to flush.                             *)
TryWrite(t) ==
    /\ pc[t] = "tryWrite"
    /\ IF writer = NoThread
         THEN writer' = t /\ Proceed(t, "locked")
         ELSE UNCHANGED writer /\ EndFlush(t)
    /\ UNCHANGED <<slotVars, handleVars, handles, closing, closed, allDead,
                   ghostVars>>

TryRetire(t) ==
    /\ pc[t] = "tryRetire"
    /\ IF writer = NoThread
         THEN writer' = t /\ Proceed(t, "readHandles")
         ELSE UNCHANGED writer /\ Return(t)
    /\ UNCHANGED <<slotVars, handleVars, handles, closing, closed, allDead,
                   ghostVars>>

BeginFlush(t) ==
    /\ pc[t] = "locked"
    /\ allDead' = TRUE
    /\ Proceed(t, IF closed THEN "scan" ELSE "readHandles")
    /\ UNCHANGED <<slotVars, handleVars, handles, closing, closed, writer,
                   ghostVars>>

(* Wrong: takes a Sharing object for a dead one.                           *)
ScansPastSharing(t) ==
    /\ pc[t] = "scan"
    /\ allDead' = (allDead /\ dataState \notin {"Owning", "Destroying"})
    /\ Proceed(t, CASE dataState = "Created"   -> "claim"
                    [] dataState = "Destroyed" -> "reread"
                    [] OTHER                   -> "reclaim")
    /\ UNCHANGED <<slotVars, handleVars, handles, closing, closed, writer,
                   ghostVars>>

(* flush_data_ looks at the slot twice: once to decide whether to destroy, *)
(* and once afterwards, to see whether the data is gone.                   *)
ScanSlot(t) ==
    /\ pc[t] = "scan"
    /\ allDead' = (allDead /\ dataState \notin {"Owning", "Sharing",
                                              "Destroying"})
    /\ Proceed(t, CASE dataState = "Created"   -> "claim"
                    [] dataState = "Destroyed" -> "reread"
                    [] OTHER                   -> "reclaim")
    /\ UNCHANGED <<slotVars, handleVars, handles, closing, closed, writer,
                   ghostVars>>

RereadSlot(t) ==
    /\ pc[t] = "reread"
    /\ IF IsDataAlive(dataState)
         THEN allDead' = FALSE /\ UNCHANGED strongChunk
         ELSE strongChunk' = FALSE /\ UNCHANGED allDead
    /\ Proceed(t, "reclaim")
    /\ UNCHANGED <<dataState, weakCount, strongCount, chunkMemory, handleVars,
                   handles, closing, closed, writer, ghostVars>>

(* flush_data_, once all objects are dead, gives the strong pools back.    *)
ReclaimStrong(t) ==
    /\ pc[t] = "reclaim"
    /\ chunkMemory' = (chunkMemory /\ ~allDead)
    /\ Proceed(t, "readHandles")
    /\ UNCHANGED <<dataState, weakCount, strongCount, strongChunk, handleVars,
                   scopeVars, ghostVars>>

(* try_retire_: without a handle and without a slot in use, the strong     *)
(* pools are given back too, close or no close. This slot must be back in  *)
(* its pool; whether another one keeps the chain is open.                  *)
ReadHandles(t) ==
    /\ pc[t] = "readHandles"
    /\ Proceed(t, IF Unheld THEN "readChain" ELSE "unlock")
    /\ UNCHANGED <<slotVars, handleVars, scopeVars, ghostVars>>

(* Wrong: takes a scope without live data for one without slots in use.    *)
RetiresLifeless(t) ==
    /\ pc[t] = "readChain"
    /\ \/ ~IsDataAlive(dataState) /\ Proceed(t, "reclaimRest")
       \/ Proceed(t, "unlock")
    /\ UNCHANGED <<slotVars, handleVars, scopeVars, ghostVars>>

ReadChain(t) ==
    /\ pc[t] = "readChain"
    /\ \/ dataState = "Reclaimed" /\ Proceed(t, "reclaimRest")
       \/ Proceed(t, "unlock")
    /\ UNCHANGED <<slotVars, handleVars, scopeVars, ghostVars>>

ReclaimRest(t) ==
    /\ pc[t] = "reclaimRest"
    /\ chunkMemory' = FALSE
    /\ Proceed(t, "unlock")
    /\ UNCHANGED <<dataState, weakCount, strongCount, strongChunk, handleVars,
                   scopeVars, ghostVars>>

Unlock(t) ==
    /\ pc[t] = "unlock"
    /\ writer' = NoThread
    /\ EndFlush(t)
    /\ UNCHANGED <<slotVars, handleVars, handles, closing, closed, allDead,
                   ghostVars>>

-----------------------------------------------------------------------------
(* What a thread may begin, and what it must go on with once begun.        *)
Begin(t) ==
    \/ PutCheck(t) \/ CloneRetain(t) \/ StartOwning(t) \/ StartSharing(t)
    \/ CloneSharing(t) \/ LeakView(t) \/ DropOwning(t) \/ DropSharing(t)
    \/ DropRetain(t) \/ CloneScope(t) \/ CloseScope(t) \/ DropScope(t)

Continue(t) ==
    \/ Put(t) \/ PutElsewhere(t) \/ TryOwning(t) \/ TrySharing(t)
    \/ ReadSharing(t) \/ IncrStrong(t) \/ SharingBack(t) \/ ReadWeak(t)
    \/ ReadState(t) \/ Claim(t) \/ LoadChunk(t) \/ RunDrop(t)
    \/ MarkDestroyed(t) \/ TryRelease(t) \/ ReturnSlot(t) \/ SeeUnheld(t)
    \/ ReadAlive(t) \/ DropHandle(t) \/ TryWrite(t) \/ TryRetire(t)
    \/ BeginFlush(t) \/ ScanSlot(t) \/ RereadSlot(t) \/ ReclaimStrong(t)
    \/ ReadHandles(t) \/ ReadChain(t) \/ ReclaimRest(t) \/ Unlock(t)

Next == \E t \in Threads : Begin(t) \/ Continue(t)

Spec == Init /\ [][Next]_vars

-----------------------------------------------------------------------------
(* Every variable has the type that the code gives it.                     *)
TypeOK ==
    /\ dataState \in DataStates
    /\ weakCount \in 0 .. WeakMod - 1 /\ strongCount \in Nat
    /\ strongChunk \in BOOLEAN /\ chunkMemory \in BOOLEAN
    /\ retained \subseteq Retains
    /\ owning \subseteq Views /\ sharing \subseteq Views
    /\ lender \in [Views -> Retains \cup {NoRetain}]
    /\ handles \in Nat /\ closing \subseteq Threads /\ closed \in BOOLEAN
    /\ writer \in Threads \cup {NoThread}
    /\ allDead \in BOOLEAN
    /\ destructions \in Nat /\ objects \in Nat /\ overtaken \in BOOLEAN
    /\ pc \in [Threads -> Pcs]
    /\ borrow \in [Threads -> Retains \cup {NoRetain}]
    /\ view \in [Threads -> Views \cup {NoView}]

(* No object is destroyed twice, whichever of the last Retain drop, the    *)
(* view drops and the flush compete for it (try_claim_destroy).            *)
DestroyedOnce == destructions <= 1

(* A slot goes back to its pool only when no Retain is left and nobody is  *)
(* between two accesses to it; the flush alone may still come with a claim *)
(* it decided on before, and that claim fails (try_release_dead_slot_).    *)
UsesSlot(t) ==
    \/ pc[t] \in UpgradePcs \cup {"sharingBack", "readWeak", "readState",
                                 "tryRelease", "returnSlot", "readAlive"}
    \/ pc[t] \in ClaimPcs /\ ~(pc[t] = "claim" /\ writer = t)

NoUseAfterReturn ==
    dataState = "Reclaimed" => /\ retained = {}
                               /\ \A t \in Threads : ~UsesSlot(t)

(* An Owning view excludes every other view of the object (the safety      *)
(* comment of Send for Owning, index_.rs:60).                              *)
ViewsExclusive ==
    \A v \in owning : owning = {v} /\ sharing = {}

(* The data under a view is neither destroyed nor about to be, and its     *)
(* chunk is not given back (is_claimable; flush_data_ skips views).        *)
Intact == chunkMemory /\ destructions = 0

ViewDataIntact ==
    owning \cup sharing # {} => dataState \in {"Owning", "Sharing"} /\ Intact

(* Whatever the Sharing views do, there is one Owning view at most, and    *)
(* the object under it is intact, closed scope or not (try_owning,         *)
(* Owning::drop, flush_data_).                                             *)
OwningIntact ==
    \A v \in owning : owning = {v} /\ dataState = "Owning" /\ Intact

(* As long as the scope is open, the object under any view that is still   *)
(* in use is intact: a Retain is borrowed (claim_and_destroy_if_           *)
(* unreachable_ reads the weak count).                                     *)
InUse(v) == v \in owning \cup sharing /\ lender[v] # NoRetain

OpenViewDataIntact ==
    ~closed /\ (\E v \in Views : InUse(v)) => IsDataAlive(dataState) /\ Intact

(* Nothing but the CAS that ends the sharing under a thread that joined    *)
(* (Sharing::drop, index_.rs:211) breaks the promises about views.         *)
ViewsKeptUntilOvertaken == ~overtaken => ViewsExclusive /\ ViewDataIntact

(* The destructor runs in the memory of the chunk, so the strong pools     *)
(* must not be reclaimed meanwhile (flush_data_, teardown_.rs:62).         *)
DestructorOnLiveChunk ==
    \A t \in Threads : pc[t] = "runDrop" => chunkMemory

(* When everybody has returned and no Retain is left, a dead slot is not   *)
(* left behind: it went back to its pool (slot_.rs:41-43).                 *)
AtRest == \A t \in Threads : pc[t] \in {"idle", "put"}

DeadSlotIsReturned == retained = {} /\ AtRest => dataState # "Destroyed"

(* As long as nobody has asked for the close, destructors run in live      *)
(* memory, though the strong pools of a scope without handles are given    *)
(* back as soon as no slot is in use (try_retire_, inner_.rs:336).         *)
OpenDestructorOnLiveChunk == ~closed => DestructorOnLiveChunk

(* As long as the scope is open and everybody has returned, the slot that  *)
(* no Retain refers to is free again, unless a leaked view keeps the       *)
(* object: no drop leaves the last step to a thread that does not do it    *)
(* (source (a) of Retain::drop).                                           *)
OpenSlotIsFreed ==
    ~closed /\ retained = {} /\ AtRest =>
        \/ dataState = "Reclaimed"
        \/ dataState = "Owning" /\ owning # {}
        \/ dataState = "Sharing" /\ sharing # {}

(* As long as the scope is open, no destructor is skipped: the chunk that  *)
(* finish_destroy_ looks for is there.                                     *)
OpenDestroyedExactlyOnce ==
    ~closed /\ dataState = "Destroyed" => destructions = 1

(* No step revives data that somebody has claimed for destruction: until   *)
(* the slot is reused, upgrades fail and view drops change nothing.        *)
NoRevival ==
    [][~IsDataAlive(dataState) /\ dataState # "Reclaimed"
           => ~IsDataAlive(dataState')]_vars
=============================================================================
