--------------------------- MODULE RootCountProofs ---------------------------
(***************************************************************************)
(* What the counters of RootLife count, for any number of threads and      *)
(* scopes: each is the size of the set of those who may still decrease it. *)
(* The handle word counts the handles held and those being dropped, the    *)
(* slots the Retains, users_ the threads inside the scope, inflight_ the   *)
(* flushes, active_ the leases. And one thread at most finalizes the root, *)
(* once.                                                                   *)
(***************************************************************************)
EXTENDS RootLife, FiniteSetTheorems, TLAPS

FlushRun == FlushPcs \cup {"beginFlush", "tryWrite", "endFlush"}
OutPcs   == {"decrUser", "dropLease"} \cup ElectPcs \cup FinalizePcs

(* Where a thread may be, by the operation it runs.                        *)
PathInv ==
    /\ pc \in [Threads -> Pcs] /\ call \in [Threads -> Calls]
    /\ scope \in [Threads -> Scopes \cup {NoScope}]
    /\ leased \in [Threads -> BOOLEAN] /\ won \in [Threads -> BOOLEAN]
    /\ \A t \in Threads :
         /\ call[t] \notin {"none", "root"} => scope[t] \in Scopes
         /\ call[t] = "none" => /\ pc[t] = "idle" /\ scope[t] = NoScope
                                /\ ~leased[t] /\ ~won[t]
         /\ call[t] = "put"   => pc[t] \in {"lockPut", "unlockPut"}
         /\ call[t] = "close" => pc[t] \in FlushRun
         /\ call[t] = "view"  => pc[t] \in FlushRun \cup FinalizePcs
         /\ call[t] = "drop"
              => pc[t] \in LeasePcs \cup {"incrUser", "decrHandle"}
                             \cup FlushRun \cup OutPcs
         /\ call[t] = "retain"
              => pc[t] \in LeasePcs \cup {"incrUser", "release", "seeUnheld"}
                             \cup FlushRun \cup OutPcs
         /\ call[t] = "root"
              => /\ scope[t] = NoScope
                 /\ pc[t] \in LeasePcs \cup ClosePcs \cup {"dropLease"}
                                \cup FinalizePcs
         /\ leased[t] => /\ pc[t] \notin LeasePcs \cup FinalizePcs
                         /\ call[t] \notin {"put", "close", "view"}
                         /\ ~(call[t] = "retain" /\ pc[t] = "incrUser")

(* Who is counted where. A close keeps its handle for the drop that ends   *)
(* it, a view gives its Retain back.                                       *)
KeepsHandle(t, s) ==
    /\ scope[t] = s
    /\ \/ call[t] \in {"put", "close"}
       \/ call[t] = "drop" /\ pc[t] \in LeasePcs \cup {"incrUser", "decrHandle"}
KeepsSlot(t, s) ==
    /\ scope[t] = s
    /\ \/ call[t] = "view" /\ pc[t] \in FlushRun
       \/ call[t] = "retain" /\ pc[t] \in LeasePcs \cup {"incrUser", "release"}
IsInside(t, s) ==
    /\ scope[t] = s
    /\ \/ call[t] = "retain" /\ pc[t] \in LeasePcs \cup {"release", "seeUnheld"}
       \/ call[t] = "drop" /\ pc[t] = "decrHandle"
       \/ call[t] \in {"drop", "retain"} /\ pc[t] \in FlushRun \cup {"decrUser"}
IsFlushing(t) == pc[t] \in FlushRun \ {"beginFlush"}
HasLease(t)   == leased[t] \/ pc[t] = "confirmLease"

HandleKeepers(s) == {t \in Threads : KeepsHandle(t, s)}
SlotKeepers(s)   == {t \in Threads : KeepsSlot(t, s)}
Insiders(s)      == {t \in Threads : IsInside(t, s)}
Flushing         == {t \in Threads : IsFlushing(t)}
Leaseholders     == {t \in Threads : HasLease(t)}

HandlesInv ==
    /\ held \in [Scopes -> Nat] /\ handles \in [Scopes -> Nat]
    /\ \A s \in Scopes : handles[s] = held[s] + Cardinality(HandleKeepers(s))
SlotsInv ==
    /\ retains \in [Scopes -> Nat] /\ slots \in [Scopes -> Nat]
    /\ \A s \in Scopes : slots[s] = retains[s] + Cardinality(SlotKeepers(s))
UsersInv ==
    /\ users \in [Scopes -> Nat]
    /\ \A s \in Scopes : users[s] = Cardinality(Insiders(s))
InflightInv == inflight \in Nat /\ inflight = Cardinality(Flushing)
ActiveInv   == active \in Nat /\ active = Cardinality(Leaseholders)

CountInv == PathInv /\ HandlesInv /\ SlotsInv /\ UsersInv /\ InflightInv /\ ActiveInv

USE RootAssumption
    DEF Pcs, LeasePcs, FlushPcs, ScopePcs, ElectPcs, ClosePcs, FinalizePcs,
        Calls, FlushRun, OutPcs,
        userVars, wordVars, poolVars, flagVars, countVars, memoryVars,
        scopeVars, rootVars, threadVars,
        Goto, Proceed, Enter, Return, Plus, Minus, Set, See, Ready, AfterLease,
        Elect
-----------------------------------------------------------------------------
(* The path of a thread.                                                   *)
LEMMA ReturnKeepsPath ==
  ASSUME PathInv, NEW t \in Threads, Return(t)
  PROVE  PathInv'
  BY DEF PathInv

LEMMA EndFlushKeepsPath ==
  ASSUME PathInv, NEW t \in Threads, EndFlush(t)
  PROVE  PathInv'
  <1>1. CASE call[t] = "view"
    <2>1. CASE won[t]
      <3>1. Proceed(t, "setFinalizing")
        BY <1>1, <2>1, Zenon DEF EndFlush
      <3> QED
        BY <1>1, <3>1 DEF PathInv, EndFlush
    <2>2. CASE ~won[t]
      <3>1. Return(t)
        BY <1>1, <2>2, Zenon DEF EndFlush
      <3> QED
        BY <3>1, ReturnKeepsPath
    <2> QED
      BY <2>1, <2>2
  <1>2. CASE call[t] # "view"
    BY <1>2 DEF PathInv, EndFlush
  <1> QED
    BY <1>1, <1>2

LEMMA DropLeaseKeepsPath ==
  ASSUME PathInv, NEW t \in Threads, DropLease(t)
  PROVE  PathInv'
  <1>1. CASE won[t]
    <2>1. /\ Goto(t, "setFinalizing")
          /\ leased' = [leased EXCEPT ![t] = FALSE]
          /\ UNCHANGED <<scope, call, won>>
      BY <1>1, Zenon DEF DropLease
    <2> QED
      BY <2>1 DEF PathInv, DropLease
  <1>2. CASE ~won[t]
    <2>1. Return(t)
      BY <1>2, Zenon DEF DropLease
    <2> QED
      BY <2>1, ReturnKeepsPath
  <1> QED
    BY <1>1, <1>2

LEMMA StepKeepsPath ==
  ASSUME PathInv, NEW t \in Threads, Begin(t) \/ Continue(t)
  PROVE  PathInv'
  <1>1. CASE NewScope(t)
    BY <1>1 DEF NewScope, PathInv
  <1>2. CASE CloneScope(t)
    BY <1>2 DEF CloneScope, PathInv
  <1>3. CASE StartPut(t)
    BY <1>3 DEF StartPut, PathInv
  <1>4. CASE StartDrop(t)
    BY <1>4 DEF StartDrop, PathInv
  <1>5. CASE StartClose(t)
    BY <1>5 DEF StartClose, PathInv
  <1>6. CASE StartRetainDrop(t)
    BY <1>6 DEF StartRetainDrop, PathInv
  <1>7. CASE StartViewDrop(t)
    BY <1>7 DEF StartViewDrop, PathInv
  <1>8. CASE StartRootClose(t)
    BY <1>8 DEF StartRootClose, PathInv
  <1>9. CASE LockPut(t)
    BY <1>9 DEF LockPut, PathInv
  <1>10. CASE UnlockPut(t)
    BY <1>10 DEF UnlockPut, PathInv
  <1>11. CASE SeeFinalizing(t)
    BY <1>11 DEF SeeFinalizing, PathInv
  <1>12. CASE IncrActive(t)
    BY <1>12 DEF IncrActive, PathInv
  <1>13. CASE ConfirmLease(t)
    BY <1>13 DEF ConfirmLease, PathInv
  <1>14. CASE IncrUser(t)
    BY <1>14 DEF IncrUser, PathInv
  <1>15. CASE DecrHandle(t)
    BY <1>15 DEF DecrHandle, PathInv
  <1>16. CASE Release(t)
    BY <1>16 DEF Release, PathInv
  <1>17. CASE SeeUnheld(t)
    BY <1>17 DEF SeeUnheld, PathInv
  <1>18. CASE BeginFlush(t)
    BY <1>18 DEF BeginFlush, PathInv
  <1>19. CASE TryWrite(t)
    BY <1>19 DEF TryWrite, PathInv
  <1>20. CASE Flush(t)
    BY <1>20 DEF Flush, PathInv
  <1>21. CASE Unpin(t)
    BY <1>21 DEF Unpin, PathInv
  <1>22. CASE SeeHandles(t)
    BY <1>22 DEF SeeHandles, PathInv
  <1>23. CASE SeeChain(t)
    BY <1>23 DEF SeeChain, PathInv
  <1>24. CASE SeeUsers(t)
    BY <1>24 DEF SeeUsers, PathInv
  <1>25. CASE MarkRetired(t)
    BY <1>25 DEF MarkRetired, PathInv
  <1>26. CASE DecrLive(t)
    BY <1>26 DEF DecrLive, PathInv
  <1>27. CASE SeeClosing(t)
    BY <1>27 DEF SeeClosing, PathInv
  <1>28. CASE ElectLast(t)
    BY <1>28 DEF ElectLast, PathInv
  <1>29. CASE Unlock(t)
    BY <1>29 DEF Unlock, PathInv
  <1>30. CASE DecrUser(t)
    BY <1>30 DEF DecrUser, PathInv
  <1>31. CASE AnyElected(t)
    BY <1>31 DEF AnyElected, PathInv
  <1>32. CASE AnyClosing(t)
    BY <1>32 DEF AnyClosing, PathInv
  <1>33. CASE AnyLive(t)
    BY <1>33 DEF AnyLive, PathInv
  <1>34. CASE AnyInflight(t)
    BY <1>34 DEF AnyInflight, PathInv
  <1>35. CASE AnyActive(t)
    BY <1>35 DEF AnyActive, PathInv
  <1>36. CASE ElectSelf(t)
    BY <1>36 DEF ElectSelf, PathInv
  <1>37. CASE SetClosing(t)
    BY <1>37 DEF SetClosing, PathInv
  <1>38. CASE LoopElected(t)
    BY <1>38 DEF LoopElected, PathInv
  <1>39. CASE LoopLive(t)
    BY <1>39 DEF LoopLive, PathInv
  <1>40. CASE LoopInflight(t)
    BY <1>40 DEF LoopInflight, PathInv
  <1>41. CASE LoopElect(t)
    BY <1>41 DEF LoopElect, PathInv
  <1>42. CASE SetFinalizing(t)
    BY <1>42 DEF SetFinalizing, PathInv
  <1>43. CASE AwaitActive(t)
    BY <1>43 DEF AwaitActive, PathInv
  <1>44. CASE AwaitInflight(t)
    BY <1>44 DEF AwaitInflight, PathInv
  <1>45. CASE FlushEntities(t)
    BY <1>45 DEF FlushEntities, PathInv
  <1>46. CASE Unpublish(t)
    BY <1>46 DEF Unpublish, PathInv
  <1>47. CASE FreeRoot(t)
    BY <1>47 DEF FreeRoot, PathInv
  <1> QED
    BY <1>1, <1>2, <1>3, <1>4, <1>5, <1>6, <1>7, <1>8, <1>9, <1>10, <1>11,
       <1>12, <1>13, <1>14, <1>15, <1>16, <1>17, <1>18, <1>19, <1>20, <1>21,
       <1>22, <1>23, <1>24, <1>25, <1>26, <1>27, <1>28, <1>29, <1>30, <1>31,
       <1>32, <1>33, <1>34, <1>35, <1>36, <1>37, <1>38, <1>39, <1>40, <1>41,
       <1>42, <1>43, <1>44, <1>45, <1>46, <1>47, EndFlushKeepsPath,
       DropLeaseKeepsPath
       DEF Begin, Continue

-----------------------------------------------------------------------------
(* A step of t is a step of no other thread.                               *)
Others(t) == \A u \in Threads \ {t} :
    /\ pc'[u] = pc[u] /\ scope'[u] = scope[u] /\ call'[u] = call[u]
    /\ leased'[u] = leased[u] /\ won'[u] = won[u]

LEMMA OthersStay ==
  ASSUME PathInv, NEW t \in Threads, Begin(t) \/ Continue(t)
  PROVE  Others(t)
  BY SMTT(60) DEF Begin, Continue, PathInv, Others, NewScope, CloneScope,
         StartPut, StartDrop, StartClose, StartRetainDrop, StartViewDrop,
         StartRootClose, LockPut, UnlockPut, SeeFinalizing, IncrActive,
         ConfirmLease, IncrUser, DecrHandle, Release, SeeUnheld, BeginFlush,
         TryWrite, Flush, Unpin, SeeHandles, SeeChain, SeeUsers, MarkRetired,
         DecrLive, SeeClosing, ElectLast, Unlock, EndFlush, DecrUser,
         AnyElected, AnyClosing, AnyLive, AnyInflight, AnyActive, ElectSelf,
         DropLease, SetClosing, LoopElected, LoopLive, LoopInflight,
         LoopElect, SetFinalizing, AwaitActive, AwaitInflight, FlushEntities,
         Unpublish, FreeRoot

(* So each set gains or loses t, or stays as it is.                        *)
One(b) == IF b THEN 1 ELSE 0
Moved(A, B, before, after) ==
    /\ Cardinality(A) \in Nat /\ Cardinality(B) \in Nat
    /\ Cardinality(B) = Cardinality(A) - One(before) + One(after)

LEMMA CardMoves ==
  ASSUME NEW S, IsFiniteSet(S), NEW A \in SUBSET S, NEW B \in SUBSET S,
         NEW t \in S, \A u \in S \ {t} : u \in A <=> u \in B
  PROVE  Moved(A, B, t \in A, t \in B)
  <1>1. IsFiniteSet(A) /\ IsFiniteSet(B)
    BY FS_Subset
  <1>2. Cardinality(A) \in Nat /\ Cardinality(B) \in Nat
    BY <1>1, FS_CardinalityType
  <1>3. CASE t \in A /\ t \notin B
    <2>1. B = A \ {t}
      BY <1>3
    <2> QED
      BY <1>1, <1>2, <1>3, <2>1, FS_RemoveElement DEF One, Moved
  <1>4. CASE t \notin A /\ t \in B
    <2>1. B = A \cup {t}
      BY <1>4
    <2> QED
      BY <1>1, <1>2, <1>4, <2>1, FS_AddElement DEF One, Moved
  <1>5. CASE t \in A <=> t \in B
    <2>1. A = B
      BY <1>5
    <2> QED
      BY <1>2, <2>1 DEF One, Moved
  <1> QED
    BY <1>3, <1>4, <1>5

LEMMA CountMoves ==
  ASSUME NEW t \in Threads, Others(t)
  PROVE  /\ \A s \in Scopes :
              /\ Moved(HandleKeepers(s), HandleKeepers(s)',
                       KeepsHandle(t, s), KeepsHandle(t, s)')
              /\ Moved(SlotKeepers(s), SlotKeepers(s)',
                       KeepsSlot(t, s), KeepsSlot(t, s)')
              /\ Moved(Insiders(s), Insiders(s)',
                       IsInside(t, s), IsInside(t, s)')
         /\ Moved(Flushing, Flushing', IsFlushing(t), IsFlushing(t)')
         /\ Moved(Leaseholders, Leaseholders', HasLease(t), HasLease(t)')
  <1>1. ASSUME NEW s \in Scopes
        PROVE  Moved(HandleKeepers(s), HandleKeepers(s)',
                     KeepsHandle(t, s), KeepsHandle(t, s)')
    <2>1. \A u \in Threads \ {t} : KeepsHandle(u, s) <=> KeepsHandle(u, s)'
      BY DEF Others, KeepsHandle
    <2>2. Moved(HandleKeepers(s), HandleKeepers(s)',
                t \in HandleKeepers(s), t \in HandleKeepers(s)')
      BY <2>1, CardMoves DEF HandleKeepers
    <2> QED
      BY <2>2 DEF HandleKeepers, Moved, One
  <1>2. ASSUME NEW s \in Scopes
        PROVE  Moved(SlotKeepers(s), SlotKeepers(s)',
                     KeepsSlot(t, s), KeepsSlot(t, s)')
    <2>1. \A u \in Threads \ {t} : KeepsSlot(u, s) <=> KeepsSlot(u, s)'
      BY DEF Others, KeepsSlot
    <2>2. Moved(SlotKeepers(s), SlotKeepers(s)',
                t \in SlotKeepers(s), t \in SlotKeepers(s)')
      BY <2>1, CardMoves DEF SlotKeepers
    <2> QED
      BY <2>2 DEF SlotKeepers, Moved, One
  <1>3. ASSUME NEW s \in Scopes
        PROVE  Moved(Insiders(s), Insiders(s)',
                     IsInside(t, s), IsInside(t, s)')
    <2>1. \A u \in Threads \ {t} : IsInside(u, s) <=> IsInside(u, s)'
      BY DEF Others, IsInside
    <2>2. Moved(Insiders(s), Insiders(s)',
                t \in Insiders(s), t \in Insiders(s)')
      BY <2>1, CardMoves DEF Insiders
    <2> QED
      BY <2>2 DEF Insiders, Moved, One
  <1>4. Moved(Flushing, Flushing', IsFlushing(t), IsFlushing(t)')
    <2>1. \A u \in Threads \ {t} : IsFlushing(u) <=> IsFlushing(u)'
      BY DEF Others, IsFlushing
    <2>2. Moved(Flushing, Flushing', t \in Flushing, t \in Flushing')
      BY <2>1, CardMoves DEF Flushing
    <2> QED
      BY <2>2 DEF Flushing, Moved, One
  <1>5. Moved(Leaseholders, Leaseholders', HasLease(t), HasLease(t)')
    <2>1. \A u \in Threads \ {t} : HasLease(u) <=> HasLease(u)'
      BY DEF Others, HasLease
    <2>2. Moved(Leaseholders, Leaseholders', t \in Leaseholders, t \in Leaseholders')
      BY <2>1, CardMoves DEF Leaseholders
    <2> QED
      BY <2>2 DEF Leaseholders, Moved, One
  <1> QED
    BY <1>1, <1>2, <1>3, <1>4, <1>5

-----------------------------------------------------------------------------
(* Handles: created, cloned, borrowed by a put or a close, dropped.        *)
LEMMA StepKeepsHandles ==
  ASSUME PathInv, HandlesInv, NEW t \in Threads, Begin(t) \/ Continue(t)
  PROVE  HandlesInv'
  <1>1. \A s \in Scopes :
           Moved(HandleKeepers(s), HandleKeepers(s)',
                 KeepsHandle(t, s), KeepsHandle(t, s)')
    BY OthersStay, CountMoves
  <1>2. ASSUME \/ StartRetainDrop(t) \/ StartViewDrop(t) \/ StartRootClose(t)
               \/ LockPut(t) \/ SeeFinalizing(t) \/ IncrActive(t)
               \/ ConfirmLease(t) \/ IncrUser(t) \/ Release(t)
               \/ SeeUnheld(t) \/ BeginFlush(t) \/ TryWrite(t) \/ Flush(t)
               \/ Unpin(t) \/ SeeHandles(t) \/ SeeChain(t) \/ SeeUsers(t)
               \/ MarkRetired(t) \/ DecrLive(t) \/ SeeClosing(t)
               \/ ElectLast(t) \/ Unlock(t) \/ DecrUser(t) \/ AnyElected(t)
               \/ AnyClosing(t) \/ AnyLive(t) \/ AnyInflight(t)
               \/ AnyActive(t) \/ ElectSelf(t) \/ DropLease(t)
               \/ SetClosing(t) \/ LoopElected(t) \/ LoopLive(t)
               \/ LoopInflight(t) \/ LoopElect(t) \/ SetFinalizing(t)
               \/ AwaitActive(t) \/ AwaitInflight(t) \/ FlushEntities(t)
               \/ Unpublish(t) \/ FreeRoot(t)
        PROVE  HandlesInv'
    <2>1. /\ UNCHANGED <<held, handles>>
          /\ \A s \in Scopes : KeepsHandle(t, s) <=> KeepsHandle(t, s)'
      BY <1>2, SMTT(60) DEF KeepsHandle, PathInv, StartRetainDrop, StartViewDrop,
         StartRootClose, LockPut, SeeFinalizing, IncrActive, ConfirmLease,
         IncrUser, Release, SeeUnheld, BeginFlush, TryWrite, Flush, Unpin,
         SeeHandles, SeeChain, SeeUsers, MarkRetired, DecrLive, SeeClosing,
         ElectLast, Unlock, DecrUser, AnyElected, AnyClosing, AnyLive,
         AnyInflight, AnyActive, ElectSelf, DropLease, SetClosing,
         LoopElected, LoopLive, LoopInflight, LoopElect, SetFinalizing,
         AwaitActive, AwaitInflight, FlushEntities, Unpublish, FreeRoot
    <2> QED
      BY <1>1, <2>1 DEF HandlesInv, Moved, One
  <1>3. CASE NewScope(t)
    BY <1>1, <1>3 DEF NewScope, PathInv, HandlesInv, Moved, One, KeepsHandle
  <1>4. CASE CloneScope(t)
    <2>1. PICK r \in Scopes : handles' = Plus(handles, r) /\ held' = Plus(held, r)
      BY <1>4 DEF CloneScope
    <2>2. \A s \in Scopes : KeepsHandle(t, s) <=> KeepsHandle(t, s)'
      BY <1>4 DEF CloneScope, KeepsHandle
    <2> QED
      BY <1>1, <2>1, <2>2 DEF HandlesInv, Moved, One
  <1>5. CASE StartPut(t)
    <2>1. PICK r \in Scopes :
               /\ pc[t] = "idle" /\ Enter(t, r, "put", "lockPut")
               /\ held[r] > 0 /\ held' = Minus(held, r) /\ handles' = handles
      BY <1>5 DEF StartPut
    <2>2. \A s \in Scopes : ~KeepsHandle(t, s) /\ (KeepsHandle(t, s)' <=> s = r)
      BY <2>1 DEF PathInv, KeepsHandle
    <2>3. held[r] > 0 /\ held' = Minus(held, r) /\ handles' = handles
      BY <2>1
    <2> QED
      BY <1>1, <2>2, <2>3 DEF HandlesInv, Moved, One
  <1>6. CASE UnlockPut(t)
    BY <1>1, <1>6 DEF UnlockPut, PathInv, HandlesInv, Moved, One, KeepsHandle
  <1>7. CASE StartDrop(t)
    <2>1. PICK r \in Scopes :
               /\ pc[t] = "idle" /\ Enter(t, r, "drop", "seeFinalizing")
               /\ held[r] > 0 /\ held' = Minus(held, r) /\ handles' = handles
      BY <1>7 DEF StartDrop
    <2>2. \A s \in Scopes : ~KeepsHandle(t, s) /\ (KeepsHandle(t, s)' <=> s = r)
      BY <2>1 DEF PathInv, KeepsHandle
    <2>3. held[r] > 0 /\ held' = Minus(held, r) /\ handles' = handles
      BY <2>1
    <2> QED
      BY <1>1, <2>2, <2>3 DEF HandlesInv, Moved, One
  <1>8. CASE StartClose(t)
    <2>1. PICK r \in Scopes :
               /\ pc[t] = "idle" /\ Enter(t, r, "close", "beginFlush")
               /\ held[r] > 0 /\ held' = Minus(held, r) /\ handles' = handles
      BY <1>8 DEF StartClose
    <2>2. \A s \in Scopes : ~KeepsHandle(t, s) /\ (KeepsHandle(t, s)' <=> s = r)
      BY <2>1 DEF PathInv, KeepsHandle
    <2>3. held[r] > 0 /\ held' = Minus(held, r) /\ handles' = handles
      BY <2>1
    <2> QED
      BY <1>1, <2>2, <2>3 DEF HandlesInv, Moved, One
  <1>9. CASE EndFlush(t)
    BY <1>1, <1>9 DEF EndFlush, PathInv, HandlesInv, Moved, One, KeepsHandle
  <1>10. CASE DecrHandle(t)
    <2>1. /\ scope[t] \in Scopes /\ handles' = Minus(handles, scope[t]) /\ held' = held
          /\ \A s \in Scopes : (KeepsHandle(t, s) <=> s = scope[t]) /\ ~KeepsHandle(t, s)'
      BY <1>10 DEF DecrHandle, PathInv, KeepsHandle
    <2> QED
      BY <1>1, <2>1 DEF HandlesInv, Moved, One
  <1> QED
    BY <1>2, <1>3, <1>4, <1>5, <1>6, <1>7, <1>8, <1>9, <1>10 DEF Begin, Continue

(* Slots: taken by a put, released by the drop of a Retain.                *)
LEMMA StepKeepsSlots ==
  ASSUME PathInv, SlotsInv, NEW t \in Threads, Begin(t) \/ Continue(t)
  PROVE  SlotsInv'
  <1>1. \A s \in Scopes :
           Moved(SlotKeepers(s), SlotKeepers(s)',
                 KeepsSlot(t, s), KeepsSlot(t, s)')
    BY OthersStay, CountMoves
  <1>2. ASSUME \/ NewScope(t) \/ CloneScope(t) \/ StartPut(t) \/ StartDrop(t)
               \/ StartClose(t) \/ StartRootClose(t) \/ UnlockPut(t)
               \/ SeeFinalizing(t) \/ IncrActive(t) \/ ConfirmLease(t)
               \/ IncrUser(t) \/ DecrHandle(t) \/ SeeUnheld(t)
               \/ BeginFlush(t) \/ TryWrite(t) \/ Flush(t) \/ Unpin(t)
               \/ SeeHandles(t) \/ SeeChain(t) \/ SeeUsers(t)
               \/ MarkRetired(t) \/ DecrLive(t) \/ SeeClosing(t)
               \/ ElectLast(t) \/ Unlock(t) \/ DecrUser(t) \/ AnyElected(t)
               \/ AnyClosing(t) \/ AnyLive(t) \/ AnyInflight(t)
               \/ AnyActive(t) \/ ElectSelf(t) \/ DropLease(t)
               \/ SetClosing(t) \/ LoopElected(t) \/ LoopLive(t)
               \/ LoopInflight(t) \/ LoopElect(t) \/ SetFinalizing(t)
               \/ AwaitActive(t) \/ AwaitInflight(t) \/ FlushEntities(t)
               \/ Unpublish(t) \/ FreeRoot(t)
        PROVE  SlotsInv'
    <2>1. /\ UNCHANGED <<retains, slots>>
          /\ \A s \in Scopes : KeepsSlot(t, s) <=> KeepsSlot(t, s)'
      BY <1>2, SMTT(60) DEF KeepsSlot, PathInv, NewScope, CloneScope, StartPut,
         StartDrop, StartClose, StartRootClose, UnlockPut, SeeFinalizing,
         IncrActive, ConfirmLease, IncrUser, DecrHandle, SeeUnheld,
         BeginFlush, TryWrite, Flush, Unpin, SeeHandles, SeeChain, SeeUsers,
         MarkRetired, DecrLive, SeeClosing, ElectLast, Unlock, DecrUser,
         AnyElected, AnyClosing, AnyLive, AnyInflight, AnyActive, ElectSelf,
         DropLease, SetClosing, LoopElected, LoopLive, LoopInflight,
         LoopElect, SetFinalizing, AwaitActive, AwaitInflight, FlushEntities,
         Unpublish, FreeRoot
    <2> QED
      BY <1>1, <2>1 DEF SlotsInv, Moved, One
  <1>3. CASE LockPut(t)
    BY <1>1, <1>3 DEF LockPut, PathInv, SlotsInv, Moved, One, KeepsSlot
  <1>4. CASE StartRetainDrop(t)
    <2>0. PICK r \in Scopes :
            /\ retains[r] > 0 /\ retains' = Minus(retains, r)
            /\ pc[t] = "idle" /\ Enter(t, r, "retain", "incrUser")
      BY <1>4 DEF StartRetainDrop
    <2>1. /\ retains[r] > 0 /\ retains' = Minus(retains, r) /\ slots' = slots
          /\ \A s \in Scopes : ~KeepsSlot(t, s) /\ (KeepsSlot(t, s)' <=> s = r)
      <3>1. slots' = slots
        BY <1>4 DEF StartRetainDrop
      <3>2. scope'[t] = r /\ call'[t] = "retain" /\ pc'[t] = "incrUser"
        BY <2>0 DEF PathInv
      <3>3. \A s \in Scopes : ~KeepsSlot(t, s)
        BY <2>0 DEF PathInv, KeepsSlot
      <3> QED
        BY <2>0, <3>1, <3>2, <3>3 DEF KeepsSlot
    <2>2. retains' \in [Scopes -> Nat] /\ slots' \in [Scopes -> Nat]
      <3>1. retains[r] - 1 \in Nat
        BY <2>1 DEF SlotsInv
      <3> QED
        BY <2>1, <3>1 DEF SlotsInv
    <2>3. \A s \in Scopes : retains'[s] = retains[s] - One(s = r)
      BY <2>1 DEF SlotsInv, One
    <2>4. ASSUME NEW s \in Scopes
          PROVE  slots'[s] = retains'[s] + Cardinality(SlotKeepers(s)')
      <3>1. Moved(SlotKeepers(s), SlotKeepers(s)', FALSE, s = r)
        BY <1>1, <2>1 DEF Moved, One
      <3> QED
        BY <2>1, <2>3, <3>1 DEF SlotsInv, Moved, One
    <2> QED
      BY <2>2, <2>4 DEF SlotsInv
  <1>5. CASE StartViewDrop(t)
    <2>0. PICK r \in Scopes :
            /\ retains[r] > 0 /\ retains' = Minus(retains, r)
            /\ pc[t] = "idle" /\ Enter(t, r, "view", "beginFlush")
      BY <1>5 DEF StartViewDrop
    <2>1. /\ retains[r] > 0 /\ retains' = Minus(retains, r) /\ slots' = slots
          /\ \A s \in Scopes : ~KeepsSlot(t, s) /\ (KeepsSlot(t, s)' <=> s = r)
      <3>1. slots' = slots
        BY <1>5 DEF StartViewDrop
      <3>2. scope'[t] = r /\ call'[t] = "view" /\ pc'[t] = "beginFlush"
        BY <2>0 DEF PathInv
      <3>3. \A s \in Scopes : ~KeepsSlot(t, s)
        BY <2>0 DEF PathInv, KeepsSlot
      <3> QED
        BY <2>0, <3>1, <3>2, <3>3 DEF KeepsSlot
    <2>2. retains' \in [Scopes -> Nat] /\ slots' \in [Scopes -> Nat]
      <3>1. retains[r] - 1 \in Nat
        BY <2>1 DEF SlotsInv
      <3> QED
        BY <2>1, <3>1 DEF SlotsInv
    <2>3. \A s \in Scopes : retains'[s] = retains[s] - One(s = r)
      BY <2>1 DEF SlotsInv, One
    <2>4. ASSUME NEW s \in Scopes
          PROVE  slots'[s] = retains'[s] + Cardinality(SlotKeepers(s)')
      <3>1. Moved(SlotKeepers(s), SlotKeepers(s)', FALSE, s = r)
        BY <1>1, <2>1 DEF Moved, One
      <3> QED
        BY <2>1, <2>3, <3>1 DEF SlotsInv, Moved, One
    <2> QED
      BY <2>2, <2>4 DEF SlotsInv
  <1>6. CASE Release(t)
    <2>1. /\ scope[t] \in Scopes /\ slots' = Minus(slots, scope[t]) /\ retains' = retains
          /\ \A s \in Scopes : (KeepsSlot(t, s) <=> s = scope[t]) /\ ~KeepsSlot(t, s)'
      BY <1>6 DEF Release, PathInv, KeepsSlot
    <2> QED
      BY <1>1, <2>1 DEF SlotsInv, Moved, One
  <1>7. CASE EndFlush(t)
    BY <1>1, <1>7 DEF EndFlush, PathInv, SlotsInv, Moved, One, KeepsSlot
  <1> QED
    BY <1>2, <1>3, <1>4, <1>5, <1>6, <1>7 DEF Begin, Continue

(* users_: a drop enters and leaves.                                       *)
LEMMA StepKeepsUsers ==
  ASSUME PathInv, UsersInv, NEW t \in Threads, Begin(t) \/ Continue(t)
  PROVE  UsersInv'
  <1>1. \A s \in Scopes :
           Moved(Insiders(s), Insiders(s)',
                 IsInside(t, s), IsInside(t, s)')
    BY OthersStay, CountMoves
  <1>2. ASSUME \/ NewScope(t) \/ CloneScope(t) \/ StartPut(t) \/ StartDrop(t)
               \/ StartClose(t) \/ StartRetainDrop(t) \/ StartViewDrop(t)
               \/ StartRootClose(t) \/ LockPut(t) \/ UnlockPut(t)
               \/ SeeFinalizing(t) \/ IncrActive(t) \/ ConfirmLease(t)
               \/ DecrHandle(t) \/ Release(t) \/ SeeUnheld(t)
               \/ BeginFlush(t) \/ TryWrite(t) \/ Flush(t) \/ Unpin(t)
               \/ SeeHandles(t) \/ SeeChain(t) \/ SeeUsers(t)
               \/ MarkRetired(t) \/ DecrLive(t) \/ SeeClosing(t)
               \/ ElectLast(t) \/ Unlock(t) \/ EndFlush(t) \/ AnyElected(t)
               \/ AnyClosing(t) \/ AnyLive(t) \/ AnyInflight(t)
               \/ AnyActive(t) \/ ElectSelf(t) \/ DropLease(t)
               \/ SetClosing(t) \/ LoopElected(t) \/ LoopLive(t)
               \/ LoopInflight(t) \/ LoopElect(t) \/ SetFinalizing(t)
               \/ AwaitActive(t) \/ AwaitInflight(t) \/ FlushEntities(t)
               \/ Unpublish(t) \/ FreeRoot(t)
        PROVE  UsersInv'
    <2>1. /\ UNCHANGED <<users>>
          /\ \A s \in Scopes : IsInside(t, s) <=> IsInside(t, s)'
      BY <1>2, SMTT(60)
         DEF IsInside, PathInv, NewScope, CloneScope, StartPut, StartDrop,
         StartClose, StartRetainDrop, StartViewDrop,
         StartRootClose, LockPut, UnlockPut, SeeFinalizing, IncrActive,
         ConfirmLease, DecrHandle, Release, SeeUnheld, BeginFlush, TryWrite,
         Flush, Unpin, SeeHandles, SeeChain, SeeUsers, MarkRetired, DecrLive,
         SeeClosing, ElectLast, Unlock, EndFlush, AnyElected, AnyClosing,
         AnyLive, AnyInflight, AnyActive, ElectSelf, DropLease, SetClosing,
         LoopElected, LoopLive, LoopInflight, LoopElect, SetFinalizing,
         AwaitActive, AwaitInflight, FlushEntities, Unpublish, FreeRoot
    <2> QED
      BY <1>1, <2>1 DEF UsersInv, Moved, One
  <1>3. CASE IncrUser(t)
    BY <1>1, <1>3 DEF IncrUser, PathInv, UsersInv, Moved, One, IsInside
  <1>4. CASE DecrUser(t)
    BY <1>1, <1>4 DEF DecrUser, PathInv, UsersInv, Moved, One, IsInside
  <1> QED
    BY <1>2, <1>3, <1>4 DEF Begin, Continue

(* inflight_: around every flush.                                          *)
LEMMA StepKeepsInflight ==
  ASSUME PathInv, InflightInv, NEW t \in Threads, Begin(t) \/ Continue(t)
  PROVE  InflightInv'
  <1>1. Moved(Flushing, Flushing', IsFlushing(t), IsFlushing(t)')
    BY OthersStay, CountMoves
  <1>2. ASSUME \/ NewScope(t) \/ CloneScope(t) \/ StartPut(t) \/ StartDrop(t)
               \/ StartClose(t) \/ StartRetainDrop(t) \/ StartViewDrop(t)
               \/ StartRootClose(t) \/ LockPut(t) \/ UnlockPut(t)
               \/ SeeFinalizing(t) \/ IncrActive(t) \/ ConfirmLease(t)
               \/ IncrUser(t) \/ DecrHandle(t) \/ Release(t) \/ SeeUnheld(t)
               \/ TryWrite(t) \/ Flush(t) \/ Unpin(t) \/ SeeHandles(t)
               \/ SeeChain(t) \/ SeeUsers(t) \/ MarkRetired(t) \/ DecrLive(t)
               \/ SeeClosing(t) \/ ElectLast(t) \/ Unlock(t) \/ DecrUser(t)
               \/ AnyElected(t) \/ AnyClosing(t) \/ AnyLive(t)
               \/ AnyInflight(t) \/ AnyActive(t) \/ ElectSelf(t)
               \/ DropLease(t) \/ SetClosing(t) \/ LoopElected(t)
               \/ LoopLive(t) \/ LoopInflight(t) \/ LoopElect(t)
               \/ SetFinalizing(t) \/ AwaitActive(t) \/ AwaitInflight(t)
               \/ FlushEntities(t) \/ Unpublish(t) \/ FreeRoot(t)
        PROVE  InflightInv'
    <2>1. /\ UNCHANGED <<inflight>>
          /\ IsFlushing(t) <=> IsFlushing(t)'
      BY <1>2, SMTT(60) DEF IsFlushing, PathInv, NewScope, CloneScope, StartPut,
         StartDrop, StartClose, StartRetainDrop, StartViewDrop,
         StartRootClose, LockPut, UnlockPut, SeeFinalizing, IncrActive,
         ConfirmLease, IncrUser, DecrHandle, Release, SeeUnheld, TryWrite,
         Flush, Unpin, SeeHandles, SeeChain, SeeUsers, MarkRetired, DecrLive,
         SeeClosing, ElectLast, Unlock, DecrUser, AnyElected, AnyClosing,
         AnyLive, AnyInflight, AnyActive, ElectSelf, DropLease, SetClosing,
         LoopElected, LoopLive, LoopInflight, LoopElect, SetFinalizing,
         AwaitActive, AwaitInflight, FlushEntities, Unpublish, FreeRoot
    <2> QED
      BY <1>1, <2>1 DEF InflightInv, Moved, One
  <1>3. CASE BeginFlush(t)
    BY <1>1, <1>3 DEF BeginFlush, PathInv, InflightInv, Moved, One, IsFlushing
  <1>4. CASE EndFlush(t)
    BY <1>1, <1>4 DEF EndFlush, PathInv, InflightInv, Moved, One, IsFlushing
  <1> QED
    BY <1>2, <1>3, <1>4 DEF Begin, Continue

(* active_: a lease is counted before it is confirmed.                     *)
LEMMA StepKeepsActive ==
  ASSUME PathInv, ActiveInv, NEW t \in Threads, Begin(t) \/ Continue(t)
  PROVE  ActiveInv'
  <1>1. Moved(Leaseholders, Leaseholders', HasLease(t), HasLease(t)')
    BY OthersStay, CountMoves
  <1>2. ASSUME \/ NewScope(t) \/ CloneScope(t) \/ StartPut(t) \/ StartDrop(t)
               \/ StartClose(t) \/ StartRetainDrop(t) \/ StartViewDrop(t)
               \/ StartRootClose(t) \/ LockPut(t) \/ UnlockPut(t)
               \/ SeeFinalizing(t) \/ IncrUser(t) \/ DecrHandle(t)
               \/ Release(t) \/ SeeUnheld(t) \/ BeginFlush(t) \/ TryWrite(t)
               \/ Flush(t) \/ Unpin(t) \/ SeeHandles(t) \/ SeeChain(t)
               \/ SeeUsers(t) \/ MarkRetired(t) \/ DecrLive(t)
               \/ SeeClosing(t) \/ ElectLast(t) \/ Unlock(t) \/ EndFlush(t)
               \/ DecrUser(t) \/ AnyElected(t) \/ AnyClosing(t) \/ AnyLive(t)
               \/ AnyInflight(t) \/ AnyActive(t) \/ ElectSelf(t)
               \/ SetClosing(t) \/ LoopElected(t) \/ LoopLive(t)
               \/ LoopInflight(t) \/ LoopElect(t) \/ SetFinalizing(t)
               \/ AwaitActive(t) \/ AwaitInflight(t) \/ FlushEntities(t)
               \/ Unpublish(t) \/ FreeRoot(t)
        PROVE  ActiveInv'
    <2>1. /\ UNCHANGED <<active>>
          /\ HasLease(t) <=> HasLease(t)'
      BY <1>2, SMTT(60) DEF HasLease, PathInv, NewScope, CloneScope, StartPut,
         StartDrop, StartClose, StartRetainDrop, StartViewDrop,
         StartRootClose, LockPut, UnlockPut, SeeFinalizing, IncrUser,
         DecrHandle, Release, SeeUnheld, BeginFlush, TryWrite, Flush, Unpin,
         SeeHandles, SeeChain, SeeUsers, MarkRetired, DecrLive, SeeClosing,
         ElectLast, Unlock, EndFlush, DecrUser, AnyElected, AnyClosing,
         AnyLive, AnyInflight, AnyActive, ElectSelf, SetClosing, LoopElected,
         LoopLive, LoopInflight, LoopElect, SetFinalizing, AwaitActive,
         AwaitInflight, FlushEntities, Unpublish, FreeRoot
    <2> QED
      BY <1>1, <2>1 DEF ActiveInv, Moved, One
  <1>3. CASE IncrActive(t)
    BY <1>1, <1>3 DEF IncrActive, PathInv, ActiveInv, Moved, One, HasLease
  <1>4. CASE ConfirmLease(t)
    <2>1. CASE finalizing
      <3>1. active' = active - 1 /\ ~leased[t] /\ ~HasLease(t)' /\ HasLease(t)
        BY <1>4, <2>1 DEF ConfirmLease, PathInv, HasLease
      <3> QED
        BY <1>1, <3>1 DEF ActiveInv, Moved, One
    <2>2. CASE ~finalizing
      <3>1. active' = active /\ HasLease(t)' /\ HasLease(t)
        BY <1>4, <2>2 DEF ConfirmLease, PathInv, HasLease
      <3> QED
        BY <1>1, <3>1 DEF ActiveInv, Moved, One
    <2> QED
      BY <2>1, <2>2
  <1>5. CASE DropLease(t)
    BY <1>1, <1>5 DEF DropLease, PathInv, ActiveInv, Moved, One, HasLease
  <1> QED
    BY <1>2, <1>3, <1>4, <1>5 DEF Begin, Continue

-----------------------------------------------------------------------------
LEMMA InitCountInv == Init => CountInv
  <1> SUFFICES ASSUME Init PROVE CountInv
    OBVIOUS
  <1>1. /\ \A s \in Scopes : /\ HandleKeepers(s) = {} /\ SlotKeepers(s) = {}
                             /\ Insiders(s) = {}
        /\ Flushing = {} /\ Leaseholders = {}
    BY DEF Init, HandleKeepers, KeepsHandle, SlotKeepers, KeepsSlot, Insiders,
           IsInside, Flushing, IsFlushing, Leaseholders, HasLease
  <1>2. PathInv
    BY DEF Init, PathInv
  <1>3. /\ \A s \in Scopes : /\ Cardinality(HandleKeepers(s)) = 0
                             /\ Cardinality(SlotKeepers(s)) = 0
                             /\ Cardinality(Insiders(s)) = 0
        /\ Cardinality(Flushing) = 0 /\ Cardinality(Leaseholders) = 0
    BY <1>1, FS_EmptySet
  <1>4. HandlesInv
    BY <1>3 DEF Init, HandlesInv
  <1>5. SlotsInv
    BY <1>3 DEF Init, SlotsInv
  <1>6. UsersInv
    BY <1>3 DEF Init, UsersInv
  <1>7. InflightInv /\ ActiveInv
    BY <1>3 DEF Init, InflightInv, ActiveInv
  <1> QED
    BY <1>2, <1>4, <1>5, <1>6, <1>7 DEF CountInv

LEMMA NextCountInv == CountInv /\ [Next]_vars => CountInv'
  <1> SUFFICES ASSUME CountInv, [Next]_vars PROVE CountInv'
    OBVIOUS
  <1>1. CASE UNCHANGED vars
    BY <1>1
       DEF vars, CountInv, PathInv, HandlesInv, SlotsInv, UsersInv, InflightInv,
           ActiveInv, HandleKeepers, KeepsHandle, SlotKeepers, KeepsSlot, Insiders,
           IsInside, Flushing, IsFlushing, Leaseholders, HasLease
  <1>2. ASSUME NEW t \in Threads, Begin(t) \/ Continue(t) PROVE CountInv'
    BY <1>2, StepKeepsPath, StepKeepsHandles, StepKeepsSlots, StepKeepsUsers,
       StepKeepsInflight, StepKeepsActive DEF CountInv
  <1> QED
    BY <1>1, <1>2 DEF Next

(* Every counter is the number of those it counts: no decrement is lost    *)
(* and none is made twice (inner_.rs, root_.rs).                           *)
THEOREM CountersExact == Spec => []CountInv
  BY InitCountInv, NextCountInv, PTL DEF Spec

-----------------------------------------------------------------------------
(* Who finalizes has won the election, of which there is one; and the root *)
(* is there until he frees it.                                             *)
FinalizerInv ==
    /\ pc \in [Threads -> Pcs] /\ won \in [Threads -> BOOLEAN]
    /\ elected \in BOOLEAN /\ finalizing \in BOOLEAN
    /\ leased \in [Threads -> BOOLEAN]
    /\ elected \/ rootAlive
    /\ \A t \in Threads : Finalizes(t) => elected
    /\ FinalizedByOne

-----------------------------------------------------------------------------
USE DEF Pcs, LeasePcs, FlushPcs, ScopePcs, ElectPcs, ClosePcs, FinalizePcs,
        userVars, wordVars, poolVars, flagVars, countVars, memoryVars,
        scopeVars, rootVars, threadVars,
        Goto, Proceed, Enter, Return, See, Elect, AfterLease,
        FinalizerInv, Finalizes, FinalizedByOne

(* At the start nobody finalizes.                                          *)
LEMMA FinalizerInit == Init => FinalizerInv
  <1> SUFFICES ASSUME Init PROVE FinalizerInv
    OBVIOUS
  <1>1. /\ pc \in [Threads -> Pcs] /\ won \in [Threads -> BOOLEAN]
        /\ leased \in [Threads -> BOOLEAN]
    BY DEF Init
  <1>2. elected = FALSE /\ finalizing = FALSE /\ rootAlive = TRUE
    BY DEF Init
  <1>3. \A t \in Threads : ~Finalizes(t)
    BY DEF Init
  <1> QED
    BY <1>1, <1>2, <1>3

(* A thread that returns without finalizing leaves the election as it is.  *)
LEMMA FinalizerReturn ==
  ASSUME FinalizerInv, NEW t \in Threads, Return(t),
         UNCHANGED <<elected, finalizing, rootAlive>>
  PROVE  FinalizerInv'
  OBVIOUS

(* No step of a thread lets two finalize.                                  *)
LEMMA FinalizerStep == FinalizerInv /\ [Next]_vars => FinalizerInv'
  <1> SUFFICES ASSUME FinalizerInv, [Next]_vars PROVE FinalizerInv'
    OBVIOUS
  <1>1. CASE UNCHANGED vars
    BY <1>1 DEF vars
  <1>2. ASSUME NEW t \in Threads, Begin(t) PROVE FinalizerInv'
    BY <1>2 DEF Begin, NewScope, CloneScope, StartPut, StartDrop, StartClose, StartRetainDrop, StartViewDrop, StartRootClose
  <1>3. ASSUME NEW t \in Threads, Continue(t) PROVE FinalizerInv'
    <2>1. CASE LockPut(t)
      BY <2>1 DEF LockPut
    <2>2. CASE UnlockPut(t)
      BY <2>2 DEF UnlockPut
    <2>3. CASE SeeFinalizing(t)
      BY <2>3 DEF SeeFinalizing
    <2>4. CASE IncrActive(t)
      BY <2>4 DEF IncrActive
    <2>5. CASE ConfirmLease(t)
      BY <2>5 DEF ConfirmLease
    <2>6. CASE IncrUser(t)
      BY <2>6 DEF IncrUser
    <2>7. CASE DecrHandle(t)
      BY <2>7 DEF DecrHandle
    <2>8. CASE Release(t)
      BY <2>8 DEF Release
    <2>9. CASE SeeUnheld(t)
      BY <2>9 DEF SeeUnheld
    <2>10. CASE BeginFlush(t)
      BY <2>10 DEF BeginFlush
    <2>11. CASE TryWrite(t)
      BY <2>11 DEF TryWrite
    <2>12. CASE Flush(t)
      BY <2>12 DEF Flush
    <2>13. CASE Unpin(t)
      BY <2>13 DEF Unpin
    <2>14. CASE SeeHandles(t)
      BY <2>14 DEF SeeHandles
    <2>15. CASE SeeChain(t)
      BY <2>15 DEF SeeChain
    <2>16. CASE SeeUsers(t)
      BY <2>16 DEF SeeUsers
    <2>17. CASE MarkRetired(t)
      BY <2>17 DEF MarkRetired
    <2>18. CASE DecrLive(t)
      BY <2>18 DEF DecrLive
    <2>19. CASE SeeClosing(t)
      BY <2>19 DEF SeeClosing
    <2>20. CASE ElectLast(t)
      BY <2>20 DEF ElectLast
    <2>21. CASE Unlock(t)
      BY <2>21 DEF Unlock
    <2>22. CASE EndFlush(t)
      <3>1. CASE call[t] = "close"
        BY <2>22, <3>1 DEF EndFlush
      <3>2. CASE call[t] = "view" /\ won[t]
        BY <2>22, <3>2 DEF EndFlush
      <3>3. CASE call[t] = "view" /\ ~won[t]
        <4>1. Return(t)
          BY <2>22, <3>3, Zenon DEF EndFlush
        <4>2. QED
          BY <2>22, <4>1, FinalizerReturn DEF EndFlush
      <3>4. CASE call[t] \in {"drop", "retain"}
        BY <2>22, <3>4 DEF EndFlush
      <3>5. QED
        BY <2>22, <3>1, <3>2, <3>3, <3>4 DEF EndFlush
    <2>23. CASE DecrUser(t)
      <3>1. (won[t] /\ leased[t]) \in BOOLEAN
        BY Zenon
      <3>2. won' \in [Threads -> BOOLEAN]
        BY <2>23, <3>1 DEF DecrUser
      <3>3. QED
        BY <2>23, <3>2 DEF DecrUser
    <2>24. CASE AnyElected(t)
      BY <2>24 DEF AnyElected
    <2>25. CASE AnyClosing(t)
      BY <2>25 DEF AnyClosing
    <2>26. CASE AnyLive(t)
      BY <2>26 DEF AnyLive
    <2>27. CASE AnyInflight(t)
      BY <2>27 DEF AnyInflight
    <2>28. CASE AnyActive(t)
      BY <2>28 DEF AnyActive
    <2>29. CASE ElectSelf(t)
      BY <2>29 DEF ElectSelf
    <2>30. CASE DropLease(t)
      <3>1. CASE won[t]
        <4>1. /\ pc' = [pc EXCEPT ![t] = "setFinalizing"]
              /\ won' = won
          BY <2>30, <3>1, Zenon DEF DropLease
        <4>2. UNCHANGED <<elected, finalizing, rootAlive>>
          BY <2>30 DEF DropLease
        <4>3. leased' \in [Threads -> BOOLEAN]
          BY <2>30, <3>1 DEF DropLease
        <4>4. QED
          BY <3>1, <4>1, <4>2, <4>3
      <3>2. CASE ~won[t]
        <4>1. Return(t)
          BY <2>30, <3>2, Zenon DEF DropLease
        <4>2. QED
          BY <2>30, <4>1, FinalizerReturn DEF DropLease
      <3>3. QED
        BY <3>1, <3>2
    <2>31. CASE SetClosing(t)
      BY <2>31 DEF SetClosing
    <2>32. CASE LoopElected(t)
      BY <2>32 DEF LoopElected
    <2>33. CASE LoopLive(t)
      BY <2>33 DEF LoopLive
    <2>34. CASE LoopInflight(t)
      BY <2>34 DEF LoopInflight
    <2>35. CASE LoopElect(t)
      BY <2>35 DEF LoopElect
    <2>36. CASE SetFinalizing(t)
      BY <2>36 DEF SetFinalizing
    <2>37. CASE AwaitActive(t)
      BY <2>37 DEF AwaitActive
    <2>38. CASE AwaitInflight(t)
      BY <2>38 DEF AwaitInflight
    <2>39. CASE FlushEntities(t)
      BY <2>39 DEF FlushEntities
    <2>40. CASE Unpublish(t)
      BY <2>40 DEF Unpublish
    <2>41. CASE FreeRoot(t)
      BY <2>41 DEF FreeRoot
    <2>42. QED
      BY <1>3, <2>1, <2>2, <2>3, <2>4, <2>5, <2>6, <2>7, <2>8, <2>9, <2>10, <2>11, <2>12, <2>13, <2>14, <2>15, <2>16, <2>17, <2>18, <2>19, <2>20, <2>21, <2>22, <2>23, <2>24, <2>25, <2>26, <2>27, <2>28, <2>29, <2>30, <2>31, <2>32, <2>33, <2>34, <2>35, <2>36, <2>37, <2>38, <2>39, <2>40, <2>41 DEF Continue
  <1>4. QED
    BY <1>1, <1>2, <1>3 DEF Next

(* At most one thread finalizes the root, which is still there: its memory *)
(* is given back once (try_elect_root_finalize_, root_.rs:548-563).        *)
THEOREM RootFinalizedByOne == Spec => []FinalizedByOne
  <1>1. FinalizerInv => FinalizedByOne
    OBVIOUS
  <1>2. QED
    BY FinalizerInit, FinalizerStep, <1>1, PTL DEF Spec
=============================================================================
