------------------------------ MODULE RootLife ------------------------------
(***************************************************************************)
(* How a tree of scopes ends. Threads drop Scope handles, Retains and      *)
(* views, close scopes and close the root; scopes retire one by one, and   *)
(* whoever finishes the last one frees the root and all it owns.           *)
(*                                                                         *)
(* A scope is its handle word, its users count, its write lock and the     *)
(* weak pool chain, which is empty or not; its objects are counted. The    *)
(* root is its flag word and its three counters. Each atomic access is a   *)
(* step. What happens to one object is left to SlotLife, and what happens  *)
(* inside the chain to WeakChain.                                          *)
(***************************************************************************)
EXTENDS Integers, FiniteSets

CONSTANTS
    Threads, Scopes,
    Overlap,     \* operations on one scope may overlap
    MaxHandles,  \* bound: handles of one scope at a time
    MaxSlots,    \* bound: objects of one scope at a time
    NoThread, NoScope

ASSUME RootAssumption ==
    /\ NoThread \notin Threads /\ NoScope \notin Scopes
    /\ IsFiniteSet(Threads) /\ IsFiniteSet(Scopes)
    /\ Overlap \in BOOLEAN /\ MaxHandles \in Nat /\ MaxSlots \in Nat

VARIABLES
    held, retains,           \* Scope handles and Retains nobody is dropping
    handles, closed, requested, retired,      \* the scope's handle word
    users, writer,           \* threads inside the scope; its write lock
    slots, chain, pinned, strong,  \* its taken slots, weak and strong pools
    closing, elected, finalizing,  \* the root's flag word
    liveScopes, inflight, active,  \* the root's counters
    entities, published, rootAlive,  \* memory, and the publication slot
    closeCalled,             \* RootScope::close is called once at most
    pc, scope, call, leased, won,  \* the threads
    early    \* history: a retiring thread was elected over live scopes

userVars   == <<held, retains>>
wordVars   == <<handles, closed, requested, retired>>
poolVars   == <<slots, chain, pinned, strong>>
flagVars   == <<closing, elected, finalizing>>
countVars  == <<liveScopes, inflight, active>>
memoryVars == <<entities, published, rootAlive>>
scopeVars  == <<wordVars, users, writer, poolVars>>
rootVars   == <<flagVars, countVars, memoryVars, closeCalled, early>>
threadVars == <<pc, scope, call, leased, won>>
vars == <<userVars, scopeVars, rootVars, threadVars>>

LeasePcs    == {"seeFinalizing", "incrActive", "confirmLease"}
FlushPcs    == {"flush", "unpin", "seeHandles", "seeChain", "seeUsers",
                "markRetired", "decrLive", "seeClosing", "electLast", "unlock"}
ScopePcs    == {"incrUser", "decrHandle", "release", "seeUnheld", "beginFlush",
                "tryWrite", "endFlush", "decrUser", "lockPut", "unlockPut"}
ElectPcs    == {"anyElected", "anyClosing", "anyLive", "anyInflight",
                "anyActive", "elect"}
ClosePcs    == {"setClosing", "loopElected", "loopLive", "loopInflight",
                "loopElect"}
FinalizePcs == {"setFinalizing", "awaitActive", "awaitInflight",
                "flushEntities", "unpublish", "freeRoot"}
Pcs == LeasePcs \cup FlushPcs \cup ScopePcs \cup ElectPcs \cup ClosePcs
         \cup FinalizePcs \cup {"idle", "dropLease"}
Calls == {"none", "drop", "close", "retain", "view", "put", "root"}

-----------------------------------------------------------------------------
(* The root has just been published; it has no scope yet.                  *)
Init ==
    /\ held = [s \in Scopes |-> 0] /\ retains = [s \in Scopes |-> 0]
    /\ handles = [s \in Scopes |-> 0]
    /\ closed = [s \in Scopes |-> FALSE]
    /\ requested = [s \in Scopes |-> FALSE]
    /\ retired = [s \in Scopes |-> FALSE]
    /\ users = [s \in Scopes |-> 0]
    /\ writer = [s \in Scopes |-> NoThread]
    /\ slots = [s \in Scopes |-> 0] /\ chain = [s \in Scopes |-> FALSE]
    /\ pinned = [s \in Scopes |-> FALSE] /\ strong = [s \in Scopes |-> FALSE]
    /\ closing = FALSE /\ elected = FALSE /\ finalizing = FALSE
    /\ liveScopes = 0 /\ inflight = 0 /\ active = 0
    /\ entities = {} /\ published = TRUE /\ rootAlive = TRUE
    /\ closeCalled = FALSE /\ early = FALSE
    /\ pc = [t \in Threads |-> "idle"]
    /\ scope = [t \in Threads |-> NoScope]
    /\ call = [t \in Threads |-> "none"]
    /\ leased = [t \in Threads |-> FALSE]
    /\ won = [t \in Threads |-> FALSE]

Goto(t, label) == pc' = [pc EXCEPT ![t] = label]
Proceed(t, label) == Goto(t, label) /\ UNCHANGED <<scope, call, leased, won>>

Enter(t, s, op, label) ==
    /\ Goto(t, label)
    /\ scope' = [scope EXCEPT ![t] = s]
    /\ call' = [call EXCEPT ![t] = op]
    /\ UNCHANGED <<leased, won>>

Return(t) ==
    /\ Goto(t, "idle")
    /\ scope' = [scope EXCEPT ![t] = NoScope]
    /\ call' = [call EXCEPT ![t] = "none"]
    /\ leased' = [leased EXCEPT ![t] = FALSE]
    /\ won' = [won EXCEPT ![t] = FALSE]

Plus(f, s)  == [f EXCEPT ![s] = @ + 1]
Minus(f, s) == [f EXCEPT ![s] = @ - 1]
Set(f, s)   == [f EXCEPT ![s] = TRUE]

(* A load decides where to go on.                                          *)
See(t, at, condition, yes, no) ==
    /\ pc[t] = at
    /\ Proceed(t, IF condition THEN yes ELSE no)
    /\ UNCHANGED <<userVars, scopeVars, rootVars>>

(* t may begin an operation on s.                                          *)
Ready(t, s) ==
    /\ pc[t] = "idle"
    /\ Overlap \/ \A u \in Threads : scope[u] # s

-----------------------------------------------------------------------------
(* Wrong: the new scope is not counted.                                    *)
NewScopeUncounted(t) ==
    /\ pc[t] = "idle" /\ rootAlive /\ ~closing
    /\ \E s \in Scopes \ entities :
         /\ entities' = entities \cup {s}
         /\ handles' = Plus(handles, s) /\ held' = Plus(held, s)
    /\ UNCHANGED <<retains, closed, requested, retired, users, writer,
                   poolVars, flagVars, countVars, published, rootAlive,
                   closeCalled, early, threadVars>>

(* Wrong: creates scopes under a closing root.                             *)
NewScopeAnyTime(t) ==
    /\ pc[t] = "idle" /\ rootAlive
    /\ \E s \in Scopes \ entities :
         /\ entities' = entities \cup {s}
         /\ handles' = Plus(handles, s) /\ held' = Plus(held, s)
    /\ liveScopes' = liveScopes + 1
    /\ UNCHANGED <<retains, closed, requested, retired, users, writer,
                   poolVars, flagVars, inflight, active, published, rootAlive,
                   closeCalled, early, threadVars>>

(* Scope::new_in: under the lock of the entity pool, unless the root is    *)
(* closing.                                                                *)
NewScope(t) ==
    /\ pc[t] = "idle" /\ rootAlive /\ ~closing
    /\ \E s \in Scopes \ entities :
         /\ entities' = entities \cup {s}
         /\ handles' = Plus(handles, s) /\ held' = Plus(held, s)
    /\ liveScopes' = liveScopes + 1
    /\ UNCHANGED <<retains, closed, requested, retired, users, writer,
                   poolVars, flagVars, inflight, active, published, rootAlive,
                   closeCalled, early, threadVars>>

(* Scope::clone; after close no handle may be used but for its drop.       *)
CloneScope(t) ==
    /\ \E s \in Scopes :
         /\ Ready(t, s) /\ held[s] > 0 /\ handles[s] < MaxHandles /\ ~closing
         /\ handles' = Plus(handles, s) /\ held' = Plus(held, s)
    /\ UNCHANGED <<retains, closed, requested, retired, users, writer,
                   poolVars, rootVars, threadVars>>

(* Scope::put: the closed check, the await of the write lock, the object.  *)
(* The handle is borrowed meanwhile.                                       *)
StartPut(t) ==
    /\ \E s \in Scopes :
         /\ Ready(t, s) /\ held[s] > 0 /\ slots[s] < MaxSlots
         /\ ~closed[s] /\ ~closing
         /\ held' = Minus(held, s)
         /\ Enter(t, s, "put", "lockPut")
    /\ UNCHANGED <<retains, scopeVars, rootVars>>

LockPut(t) ==
    LET s == scope[t] IN
    /\ pc[t] = "lockPut" /\ writer[s] = NoThread
    /\ writer' = [writer EXCEPT ![s] = t]
    /\ slots' = Plus(slots, s) /\ chain' = Set(chain, s)
    /\ strong' = Set(strong, s)
    /\ retains' = Plus(retains, s)
    /\ Proceed(t, "unlockPut")
    /\ UNCHANGED <<held, wordVars, users, pinned, rootVars>>

UnlockPut(t) ==
    LET s == scope[t] IN
    /\ pc[t] = "unlockPut"
    /\ writer' = [writer EXCEPT ![s] = NoThread]
    /\ held' = Plus(held, s)
    /\ Return(t)
    /\ UNCHANGED <<retains, wordVars, users, poolVars, rootVars>>

-----------------------------------------------------------------------------
(* The operations that may end a scope: the drop of a Scope handle,        *)
(* Scope::close, the drop of an object's last Retain, the drop of a view.  *)
StartDrop(t) ==
    /\ \E s \in Scopes :
         /\ Ready(t, s) /\ held[s] > 0
         /\ held' = Minus(held, s)
         /\ Enter(t, s, "drop", "seeFinalizing")
    /\ UNCHANGED <<retains, scopeVars, rootVars>>

StartClose(t) ==
    /\ \E s \in Scopes :
         /\ Ready(t, s) /\ held[s] > 0
         /\ held' = Minus(held, s)
         /\ closed' = Set(closed, s) /\ requested' = Set(requested, s)
         /\ Enter(t, s, "close", "beginFlush")
    /\ UNCHANGED <<retains, handles, retired, users, writer, poolVars, rootVars>>

StartRetainDrop(t) ==
    /\ \E s \in Scopes :
         /\ Ready(t, s) /\ retains[s] > 0
         /\ retains' = Minus(retains, s)
         /\ Enter(t, s, "retain", "incrUser")
    /\ UNCHANGED <<held, scopeVars, rootVars>>

(* A view borrows its Retain until its drop returns.                       *)
StartViewDrop(t) ==
    /\ \E s \in Scopes :
         /\ Ready(t, s) /\ retains[s] > 0
         /\ retains' = Minus(retains, s)
         /\ Enter(t, s, "view", "beginFlush")
    /\ UNCHANGED <<held, scopeVars, rootVars>>

(* RootScope::close: its callers see to it that it is called once.         *)
StartRootClose(t) ==
    /\ pc[t] = "idle" /\ published /\ ~closeCalled
    /\ closeCalled' = TRUE
    /\ Enter(t, NoScope, "root", "seeFinalizing")
    /\ UNCHANGED <<userVars, scopeVars, flagVars, countVars, memoryVars, early>>

-----------------------------------------------------------------------------
(* RootLease::enter_: the count of leases, between two looks at the flag.  *)
AfterLease(t, granted) ==
    CASE call[t] = "drop"   -> "incrUser"
      [] call[t] = "retain" -> "release"
      [] OTHER              -> IF granted THEN "setClosing" ELSE "dropLease"

SeeFinalizing(t) ==
    See(t, "seeFinalizing", finalizing, AfterLease(t, FALSE), "incrActive")

IncrActive(t) ==
    /\ pc[t] = "incrActive"
    /\ active' = active + 1
    /\ Proceed(t, "confirmLease")
    /\ UNCHANGED <<userVars, scopeVars, flagVars, liveScopes, inflight,
                   memoryVars, closeCalled, early>>

ConfirmLease(t) ==
    /\ pc[t] = "confirmLease"
    /\ leased' = [leased EXCEPT ![t] = ~finalizing]
    /\ active' = IF finalizing THEN active - 1 ELSE active
    /\ Goto(t, AfterLease(t, ~finalizing))
    /\ UNCHANGED <<scope, call, won, userVars, scopeVars, flagVars, liveScopes,
                   inflight, memoryVars, closeCalled, early>>

(* incr_user_: the scope must not retire while this thread is inside.      *)
IncrUser(t) ==
    /\ pc[t] = "incrUser"
    /\ users' = Plus(users, scope[t])
    /\ Proceed(t, IF call[t] = "retain" THEN "seeFinalizing" ELSE "decrHandle")
    /\ UNCHANGED <<userVars, wordVars, writer, poolVars, rootVars>>

(* decr_handle_: the last handle closes the scope in the same CAS.         *)
DecrHandle(t) ==
    LET s == scope[t] IN
    /\ pc[t] = "decrHandle"
    /\ handles' = Minus(handles, s)
    /\ closed' = IF handles[s] = 1 THEN Set(closed, s) ELSE closed
    /\ Proceed(t, "beginFlush")
    /\ UNCHANGED <<userVars, requested, retired, users, writer, poolVars,
                   rootVars>>

(* release_slot_: the last slot takes the pool off the chain, unless the   *)
(* flush has pinned it.                                                    *)
Release(t) ==
    LET s == scope[t]
        emptied == slots[s] = 1 /\ ~pinned[s] IN
    /\ pc[t] = "release"
    /\ slots' = Minus(slots, s)
    /\ chain' = [chain EXCEPT ![s] = @ /\ ~emptied]
    /\ Proceed(t, IF emptied THEN "seeUnheld" ELSE "decrUser")
    /\ UNCHANGED <<userVars, wordVars, users, writer, pinned, strong, rootVars>>

SeeUnheld(t) ==
    See(t, "seeUnheld", handles[scope[t]] = 0 /\ ~retired[scope[t]],
        "beginFlush", "decrUser")

-----------------------------------------------------------------------------
(* Wrong: the flush is not counted.                                        *)
BeginFlushUncounted(t) == See(t, "beginFlush", TRUE, "tryWrite", "tryWrite")

(* try_flush_ and try_retire_only_: counted in the root, under the write   *)
(* lock of the scope or not at all.                                        *)
BeginFlush(t) ==
    /\ pc[t] = "beginFlush"
    /\ inflight' = inflight + 1
    /\ Proceed(t, "tryWrite")
    /\ UNCHANGED <<userVars, scopeVars, flagVars, liveScopes, active,
                   memoryVars, closeCalled, early>>

TryWrite(t) ==
    LET s == scope[t] IN
    /\ pc[t] = "tryWrite"
    /\ IF writer[s] = NoThread
         THEN /\ writer' = [writer EXCEPT ![s] = t]
              /\ Proceed(t, IF call[t] = "retain" THEN "seeHandles" ELSE "flush")
         ELSE UNCHANGED writer /\ Proceed(t, "endFlush")
    /\ UNCHANGED <<userVars, wordVars, users, poolVars, rootVars>>

(* flush_data_, when the close was requested: pin the chain, destroy what  *)
(* can be destroyed, unpin the chain and take the empty pools off it. A    *)
(* view keeps the strong pools.                                            *)
Flush(t) ==
    LET s == scope[t] IN
    /\ pc[t] = "flush"
    /\ IF requested[s]
         THEN pinned' = Set(pinned, s) /\ Proceed(t, "unpin")
         ELSE UNCHANGED pinned /\ Proceed(t, "seeHandles")
    /\ UNCHANGED <<userVars, wordVars, users, writer, slots, chain, strong,
                   rootVars>>

Unpin(t) ==
    LET s == scope[t] IN
    /\ pc[t] = "unpin"
    /\ pinned' = [pinned EXCEPT ![s] = FALSE]
    /\ chain' = [chain EXCEPT ![s] = @ /\ slots[s] > 0]
    /\ \E allDead \in BOOLEAN : strong' = [strong EXCEPT ![s] = @ /\ ~allDead]
    /\ Proceed(t, "seeHandles")
    /\ UNCHANGED <<userVars, wordVars, users, writer, slots, rootVars>>

(* try_retire_: no handle, no slot, nobody else inside. Dead strong pools  *)
(* are given back on the way.                                              *)
SeeHandles(t) ==
    See(t, "seeHandles", handles[scope[t]] = 0, "seeChain", "unlock")

SeeChain(t) ==
    LET s == scope[t] IN
    /\ pc[t] = "seeChain"
    /\ strong' = [strong EXCEPT ![s] = @ /\ chain[s]]
    /\ Proceed(t, IF chain[s] THEN "unlock" ELSE "seeUsers")
    /\ UNCHANGED <<userVars, wordVars, users, writer, slots, chain, pinned,
                   rootVars>>

(* Wrong: retires under other threads.                                     *)
RetiresUnderUsers(t) == See(t, "seeUsers", TRUE, "markRetired", "unlock")

SeeUsers(t) ==
    See(t, "seeUsers", users[scope[t]] = 1, "markRetired", "unlock")

MarkRetired(t) ==
    LET s == scope[t] IN
    /\ pc[t] = "markRetired"
    /\ retired' = Set(retired, s)
    /\ Proceed(t, IF retired[s] THEN "unlock" ELSE "decrLive")
    /\ UNCHANGED <<userVars, handles, closed, requested, users, writer,
                   poolVars, rootVars>>

DecrLive(t) ==
    /\ pc[t] = "decrLive"
    /\ liveScopes' = liveScopes - 1
    /\ Proceed(t, IF liveScopes = 1 THEN "seeClosing" ELSE "unlock")
    /\ UNCHANGED <<userVars, scopeVars, flagVars, inflight, active, memoryVars,
                   closeCalled, early>>

SeeClosing(t) == See(t, "seeClosing", closing, "electLast", "unlock")

(* Wrong: sets the bit, whoever has set it before.                         *)
ElectBlindly(t, at, next) ==
    /\ pc[t] = at
    /\ elected' = TRUE
    /\ won' = [won EXCEPT ![t] = TRUE]
    /\ Goto(t, next)
    /\ UNCHANGED <<scope, call, leased, userVars, scopeVars, closing,
                   finalizing, countVars, memoryVars, closeCalled>>

(* try_elect_root_finalize_: one CAS decides who finalizes.                *)
Elect(t, at, next) ==
    /\ pc[t] = at
    /\ elected' = (elected \/ ~finalizing)
    /\ won' = [won EXCEPT ![t] = ~elected /\ ~finalizing]
    /\ Goto(t, next)
    /\ UNCHANGED <<scope, call, leased, userVars, scopeVars, closing,
                   finalizing, countVars, memoryVars, closeCalled>>

(* The retiring thread does not look at live_scopes_ again, and a scope    *)
(* may have been created since it counted the last one out.                *)
ElectLast(t) ==
    /\ Elect(t, "electLast", "unlock")
    /\ early' = (early \/ (won'[t] /\ liveScopes # 0))

Unlock(t) ==
    /\ pc[t] = "unlock"
    /\ writer' = [writer EXCEPT ![scope[t]] = NoThread]
    /\ Proceed(t, "endFlush")
    /\ UNCHANGED <<userVars, wordVars, users, poolVars, rootVars>>

(* close discards the result and goes on to drop its handle; the view drop *)
(* gives back what it borrowed.                                            *)
EndFlush(t) ==
    /\ pc[t] = "endFlush"
    /\ inflight' = inflight - 1
    /\ \/ /\ call[t] = "close"
          /\ Enter(t, scope[t], "drop", "seeFinalizing")
          /\ UNCHANGED retains
       \/ /\ call[t] = "view"
          /\ retains' = Plus(retains, scope[t])
          /\ IF won[t] THEN Proceed(t, "setFinalizing") ELSE Return(t)
       \/ /\ call[t] \in {"drop", "retain"}
          /\ Proceed(t, "decrUser")
          /\ UNCHANGED retains
    /\ UNCHANGED <<held, scopeVars, flagVars, liveScopes, active, memoryVars,
                   closeCalled, early>>

-----------------------------------------------------------------------------
(* The way out of a drop: who did not win the election looks once more     *)
(* whether to finalize, then gives the lease back.                         *)
DecrUser(t) ==
    /\ pc[t] = "decrUser"
    /\ users' = Minus(users, scope[t])
    /\ won' = [won EXCEPT ![t] = @ /\ leased[t]]
    /\ Goto(t, IF leased[t] /\ ~won[t] THEN "anyElected" ELSE "dropLease")
    /\ UNCHANGED <<scope, call, leased, userVars, wordVars, writer, poolVars,
                   rootVars>>

AnyElected(t) ==
    See(t, "anyElected", elected \/ finalizing, "dropLease", "anyClosing")
AnyClosing(t) == See(t, "anyClosing", closing, "anyLive", "dropLease")
AnyLive(t) == See(t, "anyLive", liveScopes = 0, "anyInflight", "dropLease")
AnyInflight(t) == See(t, "anyInflight", inflight = 0, "anyActive", "dropLease")
AnyActive(t) == See(t, "anyActive", active = 1, "elect", "dropLease")
ElectSelf(t) == Elect(t, "elect", "dropLease") /\ UNCHANGED early

DropLease(t) ==
    /\ pc[t] = "dropLease"
    /\ active' = IF leased[t] THEN active - 1 ELSE active
    /\ IF won[t] THEN Goto(t, "setFinalizing")
                      /\ leased' = [leased EXCEPT ![t] = FALSE]
                      /\ UNCHANGED <<scope, call, won>>
                 ELSE Return(t)
    /\ UNCHANGED <<userVars, scopeVars, flagVars, liveScopes, inflight,
                   memoryVars, closeCalled, early>>

-----------------------------------------------------------------------------
(* RootScope::close goes on: the closing flag, under the lock of the       *)
(* entity pool; then it finalizes when no scope is left, and spins while   *)
(* somebody is still on his way out of a flush.                            *)
SetClosing(t) ==
    /\ pc[t] = "setClosing"
    /\ closing' = TRUE
    /\ Proceed(t, "loopElected")
    /\ UNCHANGED <<userVars, scopeVars, elected, finalizing, countVars,
                   memoryVars, closeCalled, early>>

(* Wrong: finalizes over live scopes, or gives up instead of waiting.      *)
CloseAtOnce(t) == See(t, "loopLive", TRUE, "loopInflight", "dropLease")
CloseGivesUp(t) == See(t, "loopInflight", inflight # 0, "dropLease", "loopElect")

LoopElected(t) == See(t, "loopElected", elected, "dropLease", "loopLive")
LoopLive(t) == See(t, "loopLive", liveScopes # 0, "dropLease", "loopInflight")
LoopInflight(t) ==
    See(t, "loopInflight", inflight # 0, "loopElected", "loopElect")
LoopElect(t) == Elect(t, "loopElect", "dropLease") /\ UNCHANGED early

(* finalize_: no new lease, no old one, no flush; then the entities, the   *)
(* publication slot and the root's own memory.                             *)
SetFinalizing(t) ==
    /\ pc[t] = "setFinalizing"
    /\ finalizing' = TRUE
    /\ Proceed(t, "awaitActive")
    /\ UNCHANGED <<userVars, scopeVars, closing, elected, countVars,
                   memoryVars, closeCalled, early>>

(* Wrong: does not wait for the leases.                                    *)
AwaitNobody(t) == See(t, "awaitActive", TRUE, "awaitInflight", "awaitActive")

AwaitActive(t) ==
    active = 0 /\ See(t, "awaitActive", TRUE, "awaitInflight", "awaitActive")
AwaitInflight(t) ==
    See(t, "awaitInflight", inflight = 0, "flushEntities", "awaitActive")

FlushEntities(t) ==
    /\ pc[t] = "flushEntities"
    /\ entities' = {}
    /\ Proceed(t, "unpublish")
    /\ UNCHANGED <<userVars, scopeVars, flagVars, countVars, published,
                   rootAlive, closeCalled, early>>

Unpublish(t) ==
    /\ pc[t] = "unpublish"
    /\ published' = FALSE
    /\ Proceed(t, "freeRoot")
    /\ UNCHANGED <<userVars, scopeVars, flagVars, countVars, entities,
                   rootAlive, closeCalled, early>>

FreeRoot(t) ==
    /\ pc[t] = "freeRoot"
    /\ rootAlive' = FALSE
    /\ Return(t)
    /\ UNCHANGED <<userVars, scopeVars, flagVars, countVars, entities,
                   published, closeCalled, early>>

-----------------------------------------------------------------------------
(* What a thread may begin, and what it must go on with once begun.        *)
Begin(t) ==
    \/ NewScope(t) \/ CloneScope(t) \/ StartPut(t) \/ StartDrop(t)
    \/ StartClose(t) \/ StartRetainDrop(t) \/ StartViewDrop(t)
    \/ StartRootClose(t)

Continue(t) ==
    \/ LockPut(t) \/ UnlockPut(t) \/ SeeFinalizing(t) \/ IncrActive(t)
    \/ ConfirmLease(t) \/ IncrUser(t) \/ DecrHandle(t) \/ Release(t)
    \/ SeeUnheld(t) \/ BeginFlush(t) \/ TryWrite(t) \/ Flush(t) \/ Unpin(t)
    \/ SeeHandles(t) \/ SeeChain(t) \/ SeeUsers(t) \/ MarkRetired(t)
    \/ DecrLive(t) \/ SeeClosing(t) \/ ElectLast(t) \/ Unlock(t)
    \/ EndFlush(t) \/ DecrUser(t) \/ AnyElected(t) \/ AnyClosing(t)
    \/ AnyLive(t) \/ AnyInflight(t) \/ AnyActive(t) \/ ElectSelf(t)
    \/ DropLease(t) \/ SetClosing(t) \/ LoopElected(t) \/ LoopLive(t)
    \/ LoopInflight(t) \/ LoopElect(t) \/ SetFinalizing(t) \/ AwaitActive(t)
    \/ AwaitInflight(t) \/ FlushEntities(t) \/ Unpublish(t) \/ FreeRoot(t)

Next == \E t \in Threads : Begin(t) \/ Continue(t)

(* A thread inside an operation is scheduled until it returns.             *)
Fairness == \A t \in Threads : WF_vars(Continue(t))

Spec == Init /\ [][Next]_vars
FairSpec == Spec /\ Fairness
-----------------------------------------------------------------------------
(* Every variable has the type that the code gives it.                     *)
TypeOK ==
    /\ held \in [Scopes -> Nat] /\ retains \in [Scopes -> Nat]
    /\ handles \in [Scopes -> Nat]
    /\ closed \in [Scopes -> BOOLEAN] /\ requested \in [Scopes -> BOOLEAN]
    /\ retired \in [Scopes -> BOOLEAN]
    /\ users \in [Scopes -> Nat] /\ writer \in [Scopes -> Threads \cup {NoThread}]
    /\ slots \in [Scopes -> Nat] /\ chain \in [Scopes -> BOOLEAN]
    /\ pinned \in [Scopes -> BOOLEAN] /\ strong \in [Scopes -> BOOLEAN]
    /\ closing \in BOOLEAN /\ elected \in BOOLEAN /\ finalizing \in BOOLEAN
    /\ liveScopes \in Nat /\ inflight \in Nat /\ active \in Nat
    /\ entities \subseteq Scopes
    /\ published \in BOOLEAN /\ rootAlive \in BOOLEAN
    /\ closeCalled \in BOOLEAN /\ early \in BOOLEAN
    /\ pc \in [Threads -> Pcs]
    /\ scope \in [Threads -> Scopes \cup {NoScope}]
    /\ call \in [Threads -> Calls]
    /\ leased \in [Threads -> BOOLEAN] /\ won \in [Threads -> BOOLEAN]

(* Threads that may still access the entity of their scope.                *)
InScope(t) ==
    \/ pc[t] \in FlushPcs \cup ScopePcs
    \/ pc[t] \in LeasePcs /\ call[t] # "root"

(* No scope is freed while a handle, a Retain or a running operation may   *)
(* reach it, and the root outlives every operation (finalize_'s contract). *)
NoUseAfterFree ==
    /\ \A t \in Threads : /\ InScope(t) => scope[t] \in entities
                          /\ pc[t] # "idle" => rootAlive
    /\ \A s \in Scopes : held[s] + retains[s] > 0 => s \in entities

(* A retired scope is empty, and nobody but the thread that retired it is  *)
(* inside (the comment on users_, inner_.rs:154-160).                      *)
RetiredIsQuiet ==
    \A s \in Scopes : retired[s] =>
        /\ handles[s] = 0 /\ slots[s] = 0 /\ ~chain[s] /\ ~strong[s]
        /\ \A t, u \in Threads :
             InScope(t) /\ InScope(u) /\ scope[t] = s /\ scope[u] = s => t = u

(* The scopes that were created and have not retired: their handle words   *)
(* say so, whoever owns their memory.                                      *)
Live == {s \in Scopes : (handles[s] > 0 \/ closed[s]) /\ ~retired[s]}

(* live_scopes_ counts the scopes that have not retired, and those whose   *)
(* retirement is on its way from the handle word to the count (the claim   *)
(* of root_.rs:269).                                                       *)
LiveScopesCounted ==
    liveScopes = Cardinality(Live)
                   + Cardinality({t \in Threads : pc[t] = "decrLive"})

(* One thread at most finalizes the root, and once (root_.rs:551-554).     *)
Finalizes(t) == won[t] \/ pc[t] \in FinalizePcs

FinalizedByOne ==
    \A t, u \in Threads : Finalizes(t) /\ Finalizes(u) => t = u /\ rootAlive

(* The root behaves as TreeLife promises: it is freed after it was closed  *)
(* and all its scopes have retired, and then it is freed in the end        *)
(* (root_.rs:17-35). Only the early election of a retiring thread breaks   *)
(* the promise, and it breaks the order of the steps alone.                *)
Tree == INSTANCE TreeLife WITH
    tree  <- IF ~rootAlive THEN "gone" ELSE IF closing THEN "closing" ELSE "open",
    live  <- Live,
    ended <- {s \in Scopes : retired[s]}

TreeStepsKept == Tree!Init /\ [][early' \/ Tree!Next]_(Tree!vars)
TreeKept == TreeStepsKept /\ Tree!Fairness

(* Once the root is closed and every handle and Retain is gone, the root   *)
(* is freed: whoever is last does it (root_.rs:25-31).                     *)
Abandoned == closing /\ \A s \in Scopes : handles[s] = 0 /\ slots[s] = 0
RootIsFreed == Abandoned ~> ~rootAlive

(* No lease is refused to an operation that asks for one: its handle or    *)
(* Retain keeps the root from being finalized.                             *)
LeaseIsGranted ==
    \A t \in Threads : pc[t] \in LeasePcs => ~finalizing

(* The early election is the one way to break the last promise, and that   *)
(* of NoUseAfterFree: scopes may come and go while others retire and the   *)
(* root is closed, in any other order (root_.rs:730, inner_.rs:357-362).   *)
SafeUntilEarly == ~early => NoUseAfterFree /\ LeaseIsGranted
=============================================================================
