--------------------------- MODULE RootTreeProofs ---------------------------
(***************************************************************************)
(* How the tree of scopes ends, for any number of threads and scopes,      *)
(* overlapping or not: a retired scope is quiet and the live count is      *)
(* right; and, until a retiring thread is elected over a scope it has not  *)
(* seen, no lease is refused, nothing is freed under a user, and the root  *)
(* is freed only after it was closed and every scope of it has retired.    *)
(*                                                                         *)
(* A scope retires under its write lock, without handle, slot or another   *)
(* thread; none of these comes back, so it stays quiet. The root finalizes *)
(* closed and without live scopes; so nobody is in a scope but on the way  *)
(* out of it, under a lease, and the finalizer waits for the leases.       *)
(***************************************************************************)
EXTENDS RootCountProofs

(* What the exact counts say when they are small.                          *)
CountFacts ==
    /\ held \in [Scopes -> Nat] /\ retains \in [Scopes -> Nat]
    /\ handles \in [Scopes -> Nat] /\ slots \in [Scopes -> Nat]
    /\ \A s \in Scopes :
         /\ handles[s] = 0 => held[s] = 0 /\ \A t \in Threads : ~KeepsHandle(t, s)
         /\ slots[s] = 0 => retains[s] = 0 /\ \A t \in Threads : ~KeepsSlot(t, s)
         /\ users[s] = 1 => \A t, u \in Threads :
                               IsInside(t, s) /\ IsInside(u, s) => t = u
    /\ active = 0 => \A t \in Threads : ~HasLease(t)
LiveFacts ==
    /\ liveScopes \in Nat
    /\ liveScopes = 0 => /\ \A s \in entities : retired[s]
                         /\ \A t \in Threads : pc[t] # "decrLive"

(* The flags of the scopes and of the root.                                *)
FlagInv ==
    /\ closed \in [Scopes -> BOOLEAN] /\ requested \in [Scopes -> BOOLEAN]
    /\ retired \in [Scopes -> BOOLEAN]
    /\ writer \in [Scopes -> Threads \cup {NoThread}]
    /\ chain \in [Scopes -> BOOLEAN] /\ pinned \in [Scopes -> BOOLEAN]
    /\ strong \in [Scopes -> BOOLEAN]
    /\ closing \in BOOLEAN /\ elected \in BOOLEAN /\ finalizing \in BOOLEAN
    /\ entities \subseteq Scopes
    /\ published \in BOOLEAN /\ rootAlive \in BOOLEAN /\ closeCalled \in BOOLEAN
    /\ early \in BOOLEAN

(* The root is closed by one call, and nothing of its end comes before.    *)
ClosingInv ==
    /\ closing => closeCalled
    /\ elected => closing
    /\ finalizing => elected
    /\ \A t \in Threads :
         /\ call[t] = "root" => closeCalled
         /\ call[t] = "root" /\ pc[t] \in LeasePcs \cup {"setClosing"} => ~closing
         /\ pc[t] \in {"anyLive", "anyInflight", "anyActive", "elect", "electLast",
                       "loopElected", "loopLive", "loopInflight", "loopElect"}
              => closing
         /\ Finalizes(t) => elected
         /\ pc[t] \in FinalizePcs \ {"setFinalizing"} => finalizing
    /\ \A t, u \in Threads : call[t] = "root" /\ call[u] = "root" => t = u

(* Until the root is closed, a scope is fresh or there.                    *)
EntityInv ==
    /\ closing \/ rootAlive
    /\ \A s \in Scopes \ entities : closing \/
         /\ handles[s] = 0 /\ slots[s] = 0
         /\ ~retired[s] /\ ~closed[s] /\ ~chain[s]
         /\ \A t \in Threads : scope[t] # s
    /\ \A s \in entities : handles[s] > 0 \/ closed[s]

(* Only a scope that was created has a slot or a thread.                   *)
Created(s) == handles[s] > 0 \/ closed[s]
CreatedInv ==
    /\ \A s \in Scopes : slots[s] > 0 => Created(s)
    /\ \A t \in Threads : scope[t] # NoScope => Created(scope[t])

(* A flush holds the write lock of its scope.                              *)
LockInv == \A t \in Threads :
    pc[t] \in FlushPcs \cup {"unlockPut"} => writer[scope[t]] = t

(* What a retiring thread has seen stays so.                               *)
EmptyPcs  == {"seeUsers", "markRetired", "decrLive", "seeClosing", "electLast"}
UnheldPcs == EmptyPcs \cup {"seeChain"}
GonePcs   == {"decrLive", "seeClosing", "electLast", "unlock", "endFlush", "decrUser"}
ScopeInv ==
    /\ \A s \in Scopes : /\ slots[s] > 0 => chain[s]
                         /\ retired[s] => handles[s] = 0 /\ ~chain[s] /\ ~strong[s]
    /\ \A t \in Threads :
         /\ pc[t] \in UnheldPcs => handles[scope[t]] = 0
         /\ pc[t] \in EmptyPcs => ~chain[scope[t]] /\ ~strong[scope[t]]
         /\ pc[t] \in {"decrLive", "seeClosing", "electLast"} => retired[scope[t]]
         /\ InScope(t) /\ retired[scope[t]] => pc[t] \in GonePcs
    /\ \A t, u \in Threads :
         InScope(t) /\ InScope(u) /\ t # u /\ scope[t] = scope[u]
           => ~retired[scope[t]] /\ pc[t] # "markRetired"

RetireInv ==
    CountInv /\ FlagInv /\ ClosingInv /\ EntityInv /\ CreatedInv /\ LockInv /\ ScopeInv

LiveInv == liveScopes \in Nat /\ LiveScopesCounted

(* Who elects has seen that no live scope is left, and none is made under  *)
(* a closing root; but who retired the last scope looked before.           *)
EmptyInv ==
    /\ elected => liveScopes = 0
    /\ \A t \in Threads :
         pc[t] \in {"anyInflight", "anyActive", "elect", "loopInflight", "loopElect"}
           => liveScopes = 0

(* Who has been in a scope has a lease until he leaves.                    *)
LeaseInv == \A t \in Threads :
    leased[t] \/ \/ call[t] \in {"none", "put", "close", "view"}
                 \/ call[t] = "retain" /\ pc[t] = "incrUser"
                 \/ pc[t] \in LeasePcs \cup FinalizePcs

(* What is used is there.                                                  *)
UseInv ==
    /\ \A s \in Scopes :
         /\ handles[s] > 0 \/ slots[s] > 0 => s \in entities
         /\ closed[s] => s \in entities \/ retired[s]
    /\ \A t \in Threads : InScope(t) => scope[t] \in entities

(* Once the finalizer has seen no lease, everybody else is out.            *)
QuietInv ==
    /\ \A t \in Threads :
         /\ pc[t] \in FinalizePcs \ {"setFinalizing", "awaitActive"} => active = 0
         /\ pc[t] \in {"unpublish", "freeRoot"} => entities = {}
    /\ ~rootAlive => elected /\ entities = {} /\ \A t \in Threads : pc[t] = "idle"

SafeInv == EmptyInv /\ LeaseInv /\ UseInv /\ QuietInv
EndInv  == LiveInv /\ (early \/ SafeInv)

USE RootAssumption
    DEF Pcs, LeasePcs, FlushPcs, ScopePcs, ElectPcs, ClosePcs, FinalizePcs,
        Calls, FlushRun, OutPcs,
        userVars, wordVars, poolVars, flagVars, countVars, memoryVars,
        scopeVars, rootVars, threadVars,
        Goto, Proceed, Enter, Return, Plus, Minus, Set, See, Ready, AfterLease,
        Elect
-----------------------------------------------------------------------------
(* A set without members has size 0, a set of one member size 1.           *)
LEMMA CountsAreFacts ==
  ASSUME CountInv
  PROVE  CountFacts
  <1>1. /\ \A s \in Scopes : /\ IsFiniteSet(HandleKeepers(s))
                             /\ IsFiniteSet(SlotKeepers(s))
                             /\ IsFiniteSet(Insiders(s))
        /\ IsFiniteSet(Leaseholders)
    <2>1. /\ \A s \in Scopes : /\ HandleKeepers(s) \in SUBSET Threads
                               /\ SlotKeepers(s) \in SUBSET Threads
                               /\ Insiders(s) \in SUBSET Threads
          /\ Leaseholders \in SUBSET Threads
      BY DEF HandleKeepers, SlotKeepers, Insiders, Leaseholders
    <2> QED
      BY <2>1, FS_Subset
  <1>2. ASSUME NEW s \in Scopes, handles[s] = 0
        PROVE  held[s] = 0 /\ \A t \in Threads : ~KeepsHandle(t, s)
    <2>1. Cardinality(HandleKeepers(s)) \in Nat
      BY <1>1, FS_CardinalityType
    <2>2. held[s] = 0 /\ Cardinality(HandleKeepers(s)) = 0
      BY <1>2, <2>1 DEF CountInv, HandlesInv
    <2>3. HandleKeepers(s) = {}
      BY <1>1, <2>2, FS_EmptySet
    <2> QED
      BY <2>2, <2>3 DEF HandleKeepers
  <1>3. ASSUME NEW s \in Scopes, slots[s] = 0
        PROVE  retains[s] = 0 /\ \A t \in Threads : ~KeepsSlot(t, s)
    <2>1. Cardinality(SlotKeepers(s)) \in Nat
      BY <1>1, FS_CardinalityType
    <2>2. retains[s] = 0 /\ Cardinality(SlotKeepers(s)) = 0
      BY <1>3, <2>1 DEF CountInv, SlotsInv
    <2>3. SlotKeepers(s) = {}
      BY <1>1, <2>2, FS_EmptySet
    <2> QED
      BY <2>2, <2>3 DEF SlotKeepers
  <1>4. ASSUME NEW s \in Scopes, users[s] = 1,
               NEW t \in Threads, NEW u \in Threads, IsInside(t, s), IsInside(u, s)
        PROVE  t = u
    <2>1. Cardinality(Insiders(s)) = 1
      BY <1>4 DEF CountInv, UsersInv
    <2>2. PICK x : Insiders(s) = {x}
      BY <1>1, <2>1, FS_Singleton
    <2> QED
      BY <1>4, <2>2 DEF Insiders
  <1>5. ASSUME active = 0 PROVE \A t \in Threads : ~HasLease(t)
    <2>1. Leaseholders = {}
      BY <1>1, <1>5, FS_EmptySet DEF CountInv, ActiveInv
    <2> QED
      BY <2>1 DEF Leaseholders
  <1> QED
    BY <1>2, <1>3, <1>4, <1>5 DEF CountFacts, CountInv, HandlesInv, SlotsInv

(* The two sets that the live count adds up: Live and Retiring.            *)
Retiring  == {t \in Threads : pc[t] = "decrLive"}

LEMMA LiveSets ==
  /\ LiveScopesCounted <=> liveScopes = Cardinality(Live) + Cardinality(Retiring)
  /\ Live \in SUBSET Scopes /\ Retiring \in SUBSET Threads
  /\ IsFiniteSet(Live) /\ IsFiniteSet(Retiring)
  /\ Cardinality(Live) \in Nat /\ Cardinality(Retiring) \in Nat
  <1>1. Live \in SUBSET Scopes /\ Retiring \in SUBSET Threads
    BY DEF Live, Retiring
  <1>2. IsFiniteSet(Live) /\ IsFiniteSet(Retiring)
    BY <1>1, FS_Subset
  <1>3. Cardinality(Live) \in Nat /\ Cardinality(Retiring) \in Nat
    BY <1>2, FS_CardinalityType
  <1> QED
    BY <1>1, <1>2, <1>3 DEF LiveScopesCounted, Retiring

LEMMA LiveIsFacts ==
  ASSUME FlagInv, EntityInv, LiveInv
  PROVE  LiveFacts
  <1>1. liveScopes = 0 => Cardinality(Live) = 0 /\ Cardinality(Retiring) = 0
    BY LiveSets DEF LiveInv
  <1>2. liveScopes = 0 => Live = {} /\ Retiring = {}
    BY <1>1, LiveSets, FS_EmptySet
  <1>3. \A s \in entities : s \in Live \/ retired[s]
    BY DEF FlagInv, EntityInv, Live
  <1> QED
    BY <1>2, <1>3 DEF LiveInv, LiveFacts, Retiring

-----------------------------------------------------------------------------
(* Flags.                                                                  *)
LEMMA FlushKeepsFlags ==
  ASSUME PathInv, FlagInv, NEW t \in Threads, Flush(t)
  PROVE  FlagInv'
  <1>1. UNCHANGED <<closed, requested, retired, writer, chain, strong, rootVars>>
    BY DEF Flush
  <1>2. pinned' \in [Scopes -> BOOLEAN]
    <2>1. CASE requested[scope[t]]
      <3>1. pinned' = Set(pinned, scope[t])
        BY <2>1, Zenon DEF Flush
      <3> QED
        BY <3>1 DEF FlagInv
    <2>2. CASE ~requested[scope[t]]
      <3>1. pinned' = pinned
        BY <2>2, Zenon DEF Flush
      <3> QED
        BY <3>1 DEF FlagInv
    <2> QED
      BY <2>1, <2>2
  <1> QED
    BY <1>1, <1>2 DEF FlagInv

LEMMA StepKeepsFlags ==
  ASSUME PathInv, FlagInv, NEW t \in Threads, Begin(t) \/ Continue(t)
  PROVE  FlagInv'
  <1> USE DEF PathInv, FlagInv
  <1>1. CASE NewScope(t)
    BY <1>1 DEF NewScope
  <1>2. CASE CloneScope(t)
    BY <1>2 DEF CloneScope
  <1>3. CASE StartPut(t)
    BY <1>3 DEF StartPut
  <1>4. CASE StartDrop(t)
    BY <1>4 DEF StartDrop
  <1>5. CASE StartClose(t)
    BY <1>5 DEF StartClose
  <1>6. CASE StartRetainDrop(t)
    BY <1>6 DEF StartRetainDrop
  <1>7. CASE StartViewDrop(t)
    BY <1>7 DEF StartViewDrop
  <1>8. CASE StartRootClose(t)
    BY <1>8 DEF StartRootClose
  <1>9. CASE LockPut(t)
    BY <1>9 DEF LockPut
  <1>10. CASE UnlockPut(t)
    BY <1>10 DEF UnlockPut
  <1>11. CASE SeeFinalizing(t)
    BY <1>11 DEF SeeFinalizing
  <1>12. CASE IncrActive(t)
    BY <1>12 DEF IncrActive
  <1>13. CASE ConfirmLease(t)
    BY <1>13 DEF ConfirmLease
  <1>14. CASE IncrUser(t)
    BY <1>14 DEF IncrUser
  <1>15. CASE DecrHandle(t)
    BY <1>15 DEF DecrHandle
  <1>16. CASE Release(t)
    BY <1>16 DEF Release
  <1>17. CASE SeeUnheld(t)
    BY <1>17 DEF SeeUnheld
  <1>18. CASE BeginFlush(t)
    BY <1>18 DEF BeginFlush
  <1>19. CASE TryWrite(t)
    BY <1>19 DEF TryWrite
  <1>20. CASE Unpin(t)
    BY <1>20 DEF Unpin
  <1>21. CASE SeeHandles(t)
    BY <1>21 DEF SeeHandles
  <1>22. CASE SeeChain(t)
    BY <1>22 DEF SeeChain
  <1>23. CASE SeeUsers(t)
    BY <1>23 DEF SeeUsers
  <1>24. CASE MarkRetired(t)
    BY <1>24 DEF MarkRetired
  <1>25. CASE DecrLive(t)
    BY <1>25 DEF DecrLive
  <1>26. CASE SeeClosing(t)
    BY <1>26 DEF SeeClosing
  <1>27. CASE ElectLast(t)
    BY <1>27 DEF ElectLast
  <1>28. CASE Unlock(t)
    BY <1>28 DEF Unlock
  <1>29. CASE EndFlush(t)
    BY <1>29 DEF EndFlush
  <1>30. CASE DecrUser(t)
    BY <1>30 DEF DecrUser
  <1>31. CASE AnyElected(t)
    BY <1>31 DEF AnyElected
  <1>32. CASE AnyClosing(t)
    BY <1>32 DEF AnyClosing
  <1>33. CASE AnyLive(t)
    BY <1>33 DEF AnyLive
  <1>34. CASE AnyInflight(t)
    BY <1>34 DEF AnyInflight
  <1>35. CASE AnyActive(t)
    BY <1>35 DEF AnyActive
  <1>36. CASE ElectSelf(t)
    BY <1>36 DEF ElectSelf
  <1>37. CASE DropLease(t)
    BY <1>37 DEF DropLease
  <1>38. CASE SetClosing(t)
    BY <1>38 DEF SetClosing
  <1>39. CASE LoopElected(t)
    BY <1>39 DEF LoopElected
  <1>40. CASE LoopLive(t)
    BY <1>40 DEF LoopLive
  <1>41. CASE LoopInflight(t)
    BY <1>41 DEF LoopInflight
  <1>42. CASE LoopElect(t)
    BY <1>42 DEF LoopElect
  <1>43. CASE SetFinalizing(t)
    BY <1>43 DEF SetFinalizing
  <1>44. CASE AwaitActive(t)
    BY <1>44 DEF AwaitActive
  <1>45. CASE AwaitInflight(t)
    BY <1>45 DEF AwaitInflight
  <1>46. CASE FlushEntities(t)
    BY <1>46 DEF FlushEntities
  <1>47. CASE Unpublish(t)
    BY <1>47 DEF Unpublish
  <1>48. CASE FreeRoot(t)
    BY <1>48 DEF FreeRoot
  <1> HIDE DEF PathInv, FlagInv
  <1> QED
    BY <1>1, <1>2, <1>3, <1>4, <1>5, <1>6, <1>7, <1>8, <1>9, <1>10, <1>11,
       <1>12, <1>13, <1>14, <1>15, <1>16, <1>17, <1>18, <1>19, <1>20, <1>21,
       <1>22, <1>23, <1>24, <1>25, <1>26, <1>27, <1>28, <1>29, <1>30, <1>31,
       <1>32, <1>33, <1>34, <1>35, <1>36, <1>37, <1>38, <1>39, <1>40, <1>41,
       <1>42, <1>43, <1>44, <1>45, <1>46, <1>47, <1>48, FlushKeepsFlags
       DEF Begin, Continue

(* The close of the root.                                                  *)
LEMMA StepKeepsClosing ==
  ASSUME PathInv, FlagInv, ClosingInv, NEW t \in Threads,
         Begin(t) \/ Continue(t)
  PROVE  ClosingInv'
  <1> USE DEF PathInv, FlagInv, ClosingInv, Finalizes
  <1>1. CASE NewScope(t)
    BY <1>1 DEF NewScope
  <1>2. CASE CloneScope(t)
    BY <1>2 DEF CloneScope
  <1>3. CASE StartPut(t)
    BY <1>3 DEF StartPut
  <1>4. CASE StartDrop(t)
    BY <1>4 DEF StartDrop
  <1>5. CASE StartClose(t)
    BY <1>5 DEF StartClose
  <1>6. CASE StartRetainDrop(t)
    BY <1>6 DEF StartRetainDrop
  <1>7. CASE StartViewDrop(t)
    BY <1>7 DEF StartViewDrop
  <1>8. CASE StartRootClose(t)
    BY <1>8 DEF StartRootClose
  <1>9. CASE LockPut(t)
    BY <1>9 DEF LockPut
  <1>10. CASE UnlockPut(t)
    BY <1>10 DEF UnlockPut
  <1>11. CASE SeeFinalizing(t)
    BY <1>11 DEF SeeFinalizing
  <1>12. CASE IncrActive(t)
    BY <1>12 DEF IncrActive
  <1>13. CASE ConfirmLease(t)
    BY <1>13 DEF ConfirmLease
  <1>14. CASE IncrUser(t)
    BY <1>14 DEF IncrUser
  <1>15. CASE DecrHandle(t)
    BY <1>15 DEF DecrHandle
  <1>16. CASE Release(t)
    BY <1>16 DEF Release
  <1>17. CASE SeeUnheld(t)
    BY <1>17 DEF SeeUnheld
  <1>18. CASE BeginFlush(t)
    BY <1>18 DEF BeginFlush
  <1>19. CASE TryWrite(t)
    BY <1>19 DEF TryWrite
  <1>20. CASE Flush(t)
    BY <1>20 DEF Flush
  <1>21. CASE Unpin(t)
    BY <1>21 DEF Unpin
  <1>22. CASE SeeHandles(t)
    BY <1>22 DEF SeeHandles
  <1>23. CASE SeeChain(t)
    BY <1>23 DEF SeeChain
  <1>24. CASE SeeUsers(t)
    BY <1>24 DEF SeeUsers
  <1>25. CASE MarkRetired(t)
    BY <1>25 DEF MarkRetired
  <1>26. CASE DecrLive(t)
    BY <1>26 DEF DecrLive
  <1>27. CASE SeeClosing(t)
    BY <1>27 DEF SeeClosing
  <1>28. CASE ElectLast(t)
    BY <1>28 DEF ElectLast
  <1>29. CASE Unlock(t)
    BY <1>29 DEF Unlock
  <1>30. CASE EndFlush(t)
    BY <1>30 DEF EndFlush
  <1>31. CASE DecrUser(t)
    BY <1>31 DEF DecrUser
  <1>32. CASE AnyElected(t)
    BY <1>32 DEF AnyElected
  <1>33. CASE AnyClosing(t)
    BY <1>33 DEF AnyClosing
  <1>34. CASE AnyLive(t)
    BY <1>34 DEF AnyLive
  <1>35. CASE AnyInflight(t)
    BY <1>35 DEF AnyInflight
  <1>36. CASE AnyActive(t)
    BY <1>36 DEF AnyActive
  <1>37. CASE ElectSelf(t)
    BY <1>37 DEF ElectSelf
  <1>38. CASE DropLease(t)
    BY <1>38 DEF DropLease
  <1>39. CASE SetClosing(t)
    BY <1>39 DEF SetClosing
  <1>40. CASE LoopElected(t)
    BY <1>40 DEF LoopElected
  <1>41. CASE LoopLive(t)
    BY <1>41 DEF LoopLive
  <1>42. CASE LoopInflight(t)
    BY <1>42 DEF LoopInflight
  <1>43. CASE LoopElect(t)
    BY <1>43 DEF LoopElect
  <1>44. CASE SetFinalizing(t)
    BY <1>44 DEF SetFinalizing
  <1>45. CASE AwaitActive(t)
    BY <1>45 DEF AwaitActive
  <1>46. CASE AwaitInflight(t)
    BY <1>46 DEF AwaitInflight
  <1>47. CASE FlushEntities(t)
    BY <1>47 DEF FlushEntities
  <1>48. CASE Unpublish(t)
    BY <1>48 DEF Unpublish
  <1>49. CASE FreeRoot(t)
    BY <1>49 DEF FreeRoot
  <1> HIDE DEF PathInv, FlagInv, ClosingInv, Finalizes
  <1> QED
    BY <1>1, <1>2, <1>3, <1>4, <1>5, <1>6, <1>7, <1>8, <1>9, <1>10, <1>11,
       <1>12, <1>13, <1>14, <1>15, <1>16, <1>17, <1>18, <1>19, <1>20, <1>21,
       <1>22, <1>23, <1>24, <1>25, <1>26, <1>27, <1>28, <1>29, <1>30, <1>31,
       <1>32, <1>33, <1>34, <1>35, <1>36, <1>37, <1>38, <1>39, <1>40, <1>41,
       <1>42, <1>43, <1>44, <1>45, <1>46, <1>47, <1>48, <1>49
       DEF Begin, Continue

(* The entities.                                                           *)
LEMMA StepKeepsEntities ==
  ASSUME PathInv, CountFacts, FlagInv, ClosingInv, EntityInv,
         NEW t \in Threads, Begin(t) \/ Continue(t)
  PROVE  EntityInv'
  <1> USE DEF PathInv, CountFacts, FlagInv, ClosingInv, Finalizes, EntityInv,
              KeepsHandle, KeepsSlot
  <1>1. CASE NewScope(t)
    BY <1>1 DEF NewScope
  <1>2. CASE CloneScope(t)
    BY <1>2 DEF CloneScope
  <1>3. CASE StartPut(t)
    BY <1>3 DEF StartPut
  <1>4. CASE StartDrop(t)
    BY <1>4 DEF StartDrop
  <1>5. CASE StartClose(t)
    BY <1>5 DEF StartClose
  <1>6. CASE StartRetainDrop(t)
    BY <1>6 DEF StartRetainDrop
  <1>7. CASE StartViewDrop(t)
    BY <1>7 DEF StartViewDrop
  <1>8. CASE StartRootClose(t)
    BY <1>8 DEF StartRootClose
  <1>9. CASE LockPut(t)
    BY <1>9 DEF LockPut
  <1>10. CASE UnlockPut(t)
    BY <1>10 DEF UnlockPut
  <1>11. CASE SeeFinalizing(t)
    BY <1>11 DEF SeeFinalizing
  <1>12. CASE IncrActive(t)
    BY <1>12 DEF IncrActive
  <1>13. CASE ConfirmLease(t)
    BY <1>13 DEF ConfirmLease
  <1>14. CASE IncrUser(t)
    BY <1>14 DEF IncrUser
  <1>15. CASE DecrHandle(t)
    BY <1>15 DEF DecrHandle
  <1>16. CASE Release(t)
    BY <1>16 DEF Release
  <1>17. CASE SeeUnheld(t)
    BY <1>17 DEF SeeUnheld
  <1>18. CASE BeginFlush(t)
    BY <1>18 DEF BeginFlush
  <1>19. CASE TryWrite(t)
    BY <1>19 DEF TryWrite
  <1>20. CASE Flush(t)
    BY <1>20 DEF Flush
  <1>21. CASE Unpin(t)
    BY <1>21 DEF Unpin
  <1>22. CASE SeeHandles(t)
    BY <1>22 DEF SeeHandles
  <1>23. CASE SeeChain(t)
    BY <1>23 DEF SeeChain
  <1>24. CASE SeeUsers(t)
    BY <1>24 DEF SeeUsers
  <1>25. CASE MarkRetired(t)
    BY <1>25 DEF MarkRetired
  <1>26. CASE DecrLive(t)
    BY <1>26 DEF DecrLive
  <1>27. CASE SeeClosing(t)
    BY <1>27 DEF SeeClosing
  <1>28. CASE ElectLast(t)
    BY <1>28 DEF ElectLast
  <1>29. CASE Unlock(t)
    BY <1>29 DEF Unlock
  <1>30. CASE EndFlush(t)
    BY <1>30 DEF EndFlush
  <1>31. CASE DecrUser(t)
    BY <1>31 DEF DecrUser
  <1>32. CASE AnyElected(t)
    BY <1>32 DEF AnyElected
  <1>33. CASE AnyClosing(t)
    BY <1>33 DEF AnyClosing
  <1>34. CASE AnyLive(t)
    BY <1>34 DEF AnyLive
  <1>35. CASE AnyInflight(t)
    BY <1>35 DEF AnyInflight
  <1>36. CASE AnyActive(t)
    BY <1>36 DEF AnyActive
  <1>37. CASE ElectSelf(t)
    BY <1>37 DEF ElectSelf
  <1>38. CASE DropLease(t)
    BY <1>38 DEF DropLease
  <1>39. CASE SetClosing(t)
    BY <1>39 DEF SetClosing
  <1>40. CASE LoopElected(t)
    BY <1>40 DEF LoopElected
  <1>41. CASE LoopLive(t)
    BY <1>41 DEF LoopLive
  <1>42. CASE LoopInflight(t)
    BY <1>42 DEF LoopInflight
  <1>43. CASE LoopElect(t)
    BY <1>43 DEF LoopElect
  <1>44. CASE SetFinalizing(t)
    BY <1>44 DEF SetFinalizing
  <1>45. CASE AwaitActive(t)
    BY <1>45 DEF AwaitActive
  <1>46. CASE AwaitInflight(t)
    BY <1>46 DEF AwaitInflight
  <1>47. CASE FlushEntities(t)
    BY <1>47 DEF FlushEntities
  <1>48. CASE Unpublish(t)
    BY <1>48 DEF Unpublish
  <1>49. CASE FreeRoot(t)
    BY <1>49 DEF FreeRoot
  <1> HIDE DEF PathInv, CountFacts, FlagInv, ClosingInv, Finalizes, EntityInv,
               KeepsHandle, KeepsSlot
  <1> QED
    BY <1>1, <1>2, <1>3, <1>4, <1>5, <1>6, <1>7, <1>8, <1>9, <1>10, <1>11,
       <1>12, <1>13, <1>14, <1>15, <1>16, <1>17, <1>18, <1>19, <1>20, <1>21,
       <1>22, <1>23, <1>24, <1>25, <1>26, <1>27, <1>28, <1>29, <1>30, <1>31,
       <1>32, <1>33, <1>34, <1>35, <1>36, <1>37, <1>38, <1>39, <1>40, <1>41,
       <1>42, <1>43, <1>44, <1>45, <1>46, <1>47, <1>48, <1>49
       DEF Begin, Continue

(* The handle word of a scope that was created says so for good.           *)
LEMMA HandlesKeepCreated ==
  ASSUME PathInv, CountFacts, FlagInv, NEW t \in Threads,
         CloneScope(t) \/ StartClose(t) \/ DecrHandle(t)
  PROVE  \A s \in Scopes : Created(s) <=> Created(s)'
  <1>1. CASE CloneScope(t)
    <2>1. PICK r \in Scopes : held[r] > 0 /\ handles' = Plus(handles, r)
      BY <1>1 DEF CloneScope
    <2>2. handles[r] > 0
      BY <2>1 DEF CountFacts
    <2>3. UNCHANGED closed
      BY <1>1 DEF CloneScope
    <2> QED
      BY <2>1, <2>2, <2>3 DEF CountFacts, Created
  <1>2. CASE StartClose(t)
    <2>1. PICK r \in Scopes : held[r] > 0 /\ closed' = Set(closed, r)
      BY <1>2 DEF StartClose
    <2>2. handles[r] > 0
      BY <2>1 DEF CountFacts
    <2>3. UNCHANGED handles
      BY <1>2 DEF StartClose
    <2> QED
      BY <2>1, <2>2, <2>3 DEF FlagInv, Created
  <1>3. CASE DecrHandle(t)
    <2> DEFINE r == scope[t]
    <2>1. /\ handles' = Minus(handles, r) /\ r \in Scopes
          /\ closed' = IF handles[r] = 1 THEN Set(closed, r) ELSE closed
      BY <1>3 DEF DecrHandle, PathInv
    <2>2. handles[r] > 0
      BY <1>3 DEF DecrHandle, PathInv, CountFacts, KeepsHandle
    <2> QED
      BY <2>1, <2>2 DEF FlagInv, CountFacts, Created
  <1> QED
    BY <1>1, <1>2, <1>3

LEMMA CreatedStays ==
  ASSUME PathInv, CountFacts, FlagInv, NEW t \in Threads, Begin(t) \/ Continue(t)
  PROVE  \A s \in Scopes : Created(s) => Created(s)'
  <1>1. CASE CloneScope(t) \/ StartClose(t) \/ DecrHandle(t)
    BY <1>1, HandlesKeepCreated
  <1>2. CASE NewScope(t)
    BY <1>2 DEF NewScope, CountFacts, Created
  <1>3. ASSUME \/ StartPut(t) \/ StartDrop(t) \/ StartRetainDrop(t)
               \/ StartViewDrop(t) \/ StartRootClose(t) \/ LockPut(t)
               \/ UnlockPut(t) \/ SeeFinalizing(t) \/ IncrActive(t)
               \/ ConfirmLease(t) \/ IncrUser(t) \/ Release(t) \/ SeeUnheld(t)
               \/ BeginFlush(t) \/ TryWrite(t) \/ Flush(t) \/ Unpin(t)
               \/ SeeHandles(t) \/ SeeChain(t) \/ SeeUsers(t) \/ MarkRetired(t)
               \/ DecrLive(t) \/ SeeClosing(t) \/ ElectLast(t) \/ Unlock(t)
               \/ EndFlush(t) \/ DecrUser(t) \/ AnyElected(t)
               \/ AnyClosing(t) \/ AnyLive(t) \/ AnyInflight(t) \/ AnyActive(t)
               \/ ElectSelf(t) \/ DropLease(t) \/ SetClosing(t)
               \/ LoopElected(t) \/ LoopLive(t) \/ LoopInflight(t)
               \/ LoopElect(t) \/ SetFinalizing(t) \/ AwaitActive(t)
               \/ AwaitInflight(t) \/ FlushEntities(t) \/ Unpublish(t)
               \/ FreeRoot(t)
        PROVE  UNCHANGED <<handles, closed>>
    BY <1>3 DEF StartPut, StartDrop, StartRetainDrop, StartViewDrop,
           StartRootClose, LockPut, UnlockPut, SeeFinalizing, IncrActive,
           ConfirmLease, IncrUser, Release, SeeUnheld, BeginFlush, TryWrite,
           Flush, Unpin, SeeHandles, SeeChain, SeeUsers, MarkRetired,
           DecrLive, SeeClosing, ElectLast, Unlock, EndFlush, DecrUser,
           AnyElected, AnyClosing, AnyLive, AnyInflight, AnyActive,
           ElectSelf, DropLease, SetClosing, LoopElected, LoopLive,
           LoopInflight, LoopElect, SetFinalizing, AwaitActive,
           AwaitInflight, FlushEntities, Unpublish, FreeRoot
  <1> QED
    BY <1>1, <1>2, <1>3 DEF Begin, Continue, Created

LEMMA StepKeepsCreated ==
  ASSUME PathInv, CountFacts, FlagInv, CreatedInv, NEW t \in Threads,
         Begin(t) \/ Continue(t)
  PROVE  CreatedInv'
  <1>1. \A s \in Scopes : Created(s) => Created(s)'
    BY CreatedStays
  <1>2. \A s \in Scopes : slots'[s] > 0 => Created(s)
    <2>1. CASE LockPut(t)
      BY <2>1 DEF LockPut, PathInv, CountFacts, CreatedInv
    <2>2. CASE Release(t)
      BY <2>2 DEF Release, PathInv, CountFacts, CreatedInv
    <2>3. ASSUME \/ NewScope(t) \/ CloneScope(t) \/ StartPut(t)
                 \/ StartDrop(t) \/ StartClose(t) \/ StartRetainDrop(t)
                 \/ StartViewDrop(t) \/ StartRootClose(t) \/ UnlockPut(t)
                 \/ SeeFinalizing(t) \/ IncrActive(t) \/ ConfirmLease(t)
                 \/ IncrUser(t) \/ DecrHandle(t) \/ SeeUnheld(t)
                 \/ BeginFlush(t) \/ TryWrite(t) \/ Flush(t) \/ Unpin(t)
                 \/ SeeHandles(t) \/ SeeChain(t) \/ SeeUsers(t)
                 \/ MarkRetired(t) \/ DecrLive(t) \/ SeeClosing(t)
                 \/ ElectLast(t) \/ Unlock(t) \/ EndFlush(t) \/ DecrUser(t)
                 \/ AnyElected(t) \/ AnyClosing(t) \/ AnyLive(t)
                 \/ AnyInflight(t) \/ AnyActive(t) \/ ElectSelf(t)
                 \/ DropLease(t) \/ SetClosing(t) \/ LoopElected(t)
                 \/ LoopLive(t) \/ LoopInflight(t) \/ LoopElect(t)
                 \/ SetFinalizing(t) \/ AwaitActive(t) \/ AwaitInflight(t)
                 \/ FlushEntities(t) \/ Unpublish(t) \/ FreeRoot(t)
          PROVE  UNCHANGED slots
      BY <2>3 DEF NewScope, CloneScope, StartPut, StartDrop, StartClose,
             StartRetainDrop, StartViewDrop, StartRootClose, UnlockPut,
             SeeFinalizing, IncrActive, ConfirmLease, IncrUser, DecrHandle,
             SeeUnheld, BeginFlush, TryWrite, Flush, Unpin, SeeHandles,
             SeeChain, SeeUsers, MarkRetired, DecrLive, SeeClosing,
             ElectLast, Unlock, EndFlush, DecrUser, AnyElected, AnyClosing,
             AnyLive, AnyInflight, AnyActive, ElectSelf, DropLease,
             SetClosing, LoopElected, LoopLive, LoopInflight, LoopElect,
             SetFinalizing, AwaitActive, AwaitInflight, FlushEntities,
             Unpublish, FreeRoot
    <2> QED
      BY <2>1, <2>2, <2>3 DEF Begin, Continue, CreatedInv
  <1>3. ASSUME scope'[t] # NoScope, scope'[t] # scope[t]
        PROVE  scope'[t] \in Scopes /\ Created(scope'[t])
    <2>1. CASE StartPut(t) \/ StartDrop(t) \/ StartClose(t)
      <3>1. PICK s \in Scopes : held[s] > 0 /\ scope' = [scope EXCEPT ![t] = s]
        BY <2>1 DEF StartPut, StartDrop, StartClose
      <3>2. Created(s) /\ scope'[t] = s
        BY <3>1 DEF CountFacts, PathInv, Created
      <3> QED
        BY <3>2
    <2>2. CASE StartRetainDrop(t) \/ StartViewDrop(t)
      <3>1. PICK s \in Scopes : retains[s] > 0 /\ scope' = [scope EXCEPT ![t] = s]
        BY <2>2 DEF StartRetainDrop, StartViewDrop
      <3>2. Created(s) /\ scope'[t] = s
        BY <3>1 DEF CountFacts, PathInv, CreatedInv
      <3> QED
        BY <3>2
    <2>3. ASSUME \/ NewScope(t) \/ CloneScope(t) \/ StartRootClose(t)
                 \/ LockPut(t) \/ UnlockPut(t) \/ SeeFinalizing(t)
                 \/ IncrActive(t) \/ ConfirmLease(t) \/ IncrUser(t)
                 \/ DecrHandle(t) \/ Release(t) \/ SeeUnheld(t) \/ BeginFlush(t)
                 \/ TryWrite(t) \/ Flush(t) \/ Unpin(t) \/ SeeHandles(t)
                 \/ SeeChain(t) \/ SeeUsers(t) \/ MarkRetired(t) \/ DecrLive(t)
                 \/ SeeClosing(t) \/ ElectLast(t) \/ Unlock(t) \/ EndFlush(t)
                 \/ DecrUser(t) \/ AnyElected(t) \/ AnyClosing(t)
                 \/ AnyLive(t) \/ AnyInflight(t) \/ AnyActive(t) \/ ElectSelf(t)
                 \/ DropLease(t) \/ SetClosing(t) \/ LoopElected(t)
                 \/ LoopLive(t) \/ LoopInflight(t) \/ LoopElect(t)
                 \/ SetFinalizing(t) \/ AwaitActive(t) \/ AwaitInflight(t)
                 \/ FlushEntities(t) \/ Unpublish(t) \/ FreeRoot(t)
          PROVE  FALSE
      BY <1>3, <2>3 DEF PathInv, NewScope, CloneScope, StartRootClose,
             LockPut, UnlockPut, SeeFinalizing, IncrActive, ConfirmLease,
             IncrUser, DecrHandle, Release, SeeUnheld, BeginFlush, TryWrite,
             Flush, Unpin, SeeHandles, SeeChain, SeeUsers, MarkRetired,
             DecrLive, SeeClosing, ElectLast, Unlock, EndFlush, DecrUser,
             AnyElected, AnyClosing, AnyLive, AnyInflight, AnyActive,
             ElectSelf, DropLease, SetClosing, LoopElected, LoopLive,
             LoopInflight, LoopElect, SetFinalizing, AwaitActive,
             AwaitInflight, FlushEntities, Unpublish, FreeRoot
    <2> QED
      BY <2>1, <2>2, <2>3 DEF Begin, Continue
  <1>4. ASSUME NEW u \in Threads, scope'[u] # NoScope
        PROVE  Created(scope[u])' /\ scope'[u] \in Scopes
    <2>1. CASE scope'[u] = scope[u]
      BY <1>1, <1>4, <2>1 DEF CreatedInv, PathInv, Created
    <2>2. CASE scope'[u] # scope[u]
      <3>1. u = t
        BY <2>2, OthersStay DEF Others
      <3> QED
        BY <1>1, <1>3, <1>4, <2>2, <3>1 DEF Created
    <2> QED
      BY <2>1, <2>2
  <1> QED
    BY <1>1, <1>2, <1>4 DEF CreatedInv

(* The write locks.                                                        *)
LEMMA StepKeepsLocks ==
  ASSUME PathInv, FlagInv, LockInv, NEW t \in Threads, Begin(t) \/ Continue(t)
  PROVE  LockInv'
  <1> USE DEF PathInv, FlagInv, LockInv
  <1>1. CASE NewScope(t)
    BY <1>1 DEF NewScope
  <1>2. CASE CloneScope(t)
    BY <1>2 DEF CloneScope
  <1>3. CASE StartPut(t)
    BY <1>3 DEF StartPut
  <1>4. CASE StartDrop(t)
    BY <1>4 DEF StartDrop
  <1>5. CASE StartClose(t)
    BY <1>5 DEF StartClose
  <1>6. CASE StartRetainDrop(t)
    BY <1>6 DEF StartRetainDrop
  <1>7. CASE StartViewDrop(t)
    BY <1>7 DEF StartViewDrop
  <1>8. CASE StartRootClose(t)
    BY <1>8 DEF StartRootClose
  <1>9. CASE LockPut(t)
    BY <1>9 DEF LockPut
  <1>10. CASE UnlockPut(t)
    BY <1>10 DEF UnlockPut
  <1>11. CASE SeeFinalizing(t)
    BY <1>11 DEF SeeFinalizing
  <1>12. CASE IncrActive(t)
    BY <1>12 DEF IncrActive
  <1>13. CASE ConfirmLease(t)
    BY <1>13 DEF ConfirmLease
  <1>14. CASE IncrUser(t)
    BY <1>14 DEF IncrUser
  <1>15. CASE DecrHandle(t)
    BY <1>15 DEF DecrHandle
  <1>16. CASE Release(t)
    BY <1>16 DEF Release
  <1>17. CASE SeeUnheld(t)
    BY <1>17 DEF SeeUnheld
  <1>18. CASE BeginFlush(t)
    BY <1>18 DEF BeginFlush
  <1>19. CASE TryWrite(t)
    BY <1>19 DEF TryWrite
  <1>20. CASE Flush(t)
    BY <1>20 DEF Flush
  <1>21. CASE Unpin(t)
    BY <1>21 DEF Unpin
  <1>22. CASE SeeHandles(t)
    BY <1>22 DEF SeeHandles
  <1>23. CASE SeeChain(t)
    BY <1>23 DEF SeeChain
  <1>24. CASE SeeUsers(t)
    BY <1>24 DEF SeeUsers
  <1>25. CASE MarkRetired(t)
    BY <1>25 DEF MarkRetired
  <1>26. CASE DecrLive(t)
    BY <1>26 DEF DecrLive
  <1>27. CASE SeeClosing(t)
    BY <1>27 DEF SeeClosing
  <1>28. CASE ElectLast(t)
    BY <1>28 DEF ElectLast
  <1>29. CASE Unlock(t)
    BY <1>29 DEF Unlock
  <1>30. CASE EndFlush(t)
    BY <1>30 DEF EndFlush
  <1>31. CASE DecrUser(t)
    BY <1>31 DEF DecrUser
  <1>32. CASE AnyElected(t)
    BY <1>32 DEF AnyElected
  <1>33. CASE AnyClosing(t)
    BY <1>33 DEF AnyClosing
  <1>34. CASE AnyLive(t)
    BY <1>34 DEF AnyLive
  <1>35. CASE AnyInflight(t)
    BY <1>35 DEF AnyInflight
  <1>36. CASE AnyActive(t)
    BY <1>36 DEF AnyActive
  <1>37. CASE ElectSelf(t)
    BY <1>37 DEF ElectSelf
  <1>38. CASE DropLease(t)
    BY <1>38 DEF DropLease
  <1>39. CASE SetClosing(t)
    BY <1>39 DEF SetClosing
  <1>40. CASE LoopElected(t)
    BY <1>40 DEF LoopElected
  <1>41. CASE LoopLive(t)
    BY <1>41 DEF LoopLive
  <1>42. CASE LoopInflight(t)
    BY <1>42 DEF LoopInflight
  <1>43. CASE LoopElect(t)
    BY <1>43 DEF LoopElect
  <1>44. CASE SetFinalizing(t)
    BY <1>44 DEF SetFinalizing
  <1>45. CASE AwaitActive(t)
    BY <1>45 DEF AwaitActive
  <1>46. CASE AwaitInflight(t)
    BY <1>46 DEF AwaitInflight
  <1>47. CASE FlushEntities(t)
    BY <1>47 DEF FlushEntities
  <1>48. CASE Unpublish(t)
    BY <1>48 DEF Unpublish
  <1>49. CASE FreeRoot(t)
    BY <1>49 DEF FreeRoot
  <1> HIDE DEF PathInv, FlagInv, LockInv
  <1> QED
    BY <1>1, <1>2, <1>3, <1>4, <1>5, <1>6, <1>7, <1>8, <1>9, <1>10, <1>11,
       <1>12, <1>13, <1>14, <1>15, <1>16, <1>17, <1>18, <1>19, <1>20, <1>21,
       <1>22, <1>23, <1>24, <1>25, <1>26, <1>27, <1>28, <1>29, <1>30, <1>31,
       <1>32, <1>33, <1>34, <1>35, <1>36, <1>37, <1>38, <1>39, <1>40, <1>41,
       <1>42, <1>43, <1>44, <1>45, <1>46, <1>47, <1>48, <1>49
       DEF Begin, Continue

(* The scopes, retired or retiring.                                        *)
LEMMA TryWriteKeepsScopes ==
  ASSUME PathInv, CountFacts, FlagInv, EntityInv, LockInv, ScopeInv,
         NEW t \in Threads, TryWrite(t)
  PROVE  ScopeInv'
  <1> USE DEF PathInv, FlagInv, ScopeInv, UnheldPcs, EmptyPcs, GonePcs, InScope
  <1>1. CASE writer[scope[t]] = NoThread
    BY <1>1 DEF TryWrite
  <1>2. CASE writer[scope[t]] # NoThread
    <2>1. Proceed(t, "endFlush") /\ UNCHANGED <<handles, retired, poolVars>>
      BY <1>2, Zenon DEF TryWrite, wordVars
    <2> QED
      BY <1>2, <2>1 DEF TryWrite
  <1> QED
    BY <1>1, <1>2

LEMMA SeeUsersKeepsScopes ==
  ASSUME PathInv, CountFacts, FlagInv, EntityInv, LockInv, ScopeInv,
         NEW t \in Threads, SeeUsers(t)
  PROVE  ScopeInv'
  <1>1. CASE users[scope[t]] # 1
    BY <1>1
       DEF SeeUsers, PathInv, FlagInv, ScopeInv, UnheldPcs, EmptyPcs, GonePcs,
           InScope
  <1>2. CASE users[scope[t]] = 1
    <2>1. /\ pc[t] = "seeUsers" /\ pc' = [pc EXCEPT ![t] = "markRetired"]
          /\ UNCHANGED <<scope, call, scopeVars>> /\ scope[t] \in Scopes
      BY <1>2 DEF SeeUsers, PathInv
    <2>2. handles[scope[t]] = 0 /\ slots[scope[t]] = 0 /\ ~retired[scope[t]]
      BY <2>1 DEF ScopeInv, UnheldPcs, EmptyPcs, GonePcs, InScope, CountFacts
    <2>3. \A u \in Threads : InScope(u) /\ scope[u] = scope[t] => IsInside(u, scope[t])
      BY <2>1, <2>2
         DEF PathInv, CountFacts, KeepsHandle, KeepsSlot, IsInside, InScope
    <2>4. InScope(t)
      BY <2>1 DEF InScope
    <2>5. \A u \in Threads : InScope(u) /\ scope[u] = scope[t] => u = t
      BY <1>2, <2>1, <2>3, <2>4 DEF CountFacts
    <2> QED
      BY <2>1, <2>5
         DEF PathInv, FlagInv, ScopeInv, UnheldPcs, EmptyPcs, GonePcs, InScope
  <1> QED
    BY <1>1, <1>2

LEMMA MarkRetiredKeepsScopes ==
  ASSUME PathInv, CountFacts, FlagInv, EntityInv, LockInv, ScopeInv,
         NEW t \in Threads, MarkRetired(t)
  PROVE  ScopeInv'
  <1> DEFINE s == scope[t]
  <1>1. /\ pc[t] = "markRetired" /\ s \in Scopes
        /\ retired' = [retired EXCEPT ![s] = TRUE]
        /\ UNCHANGED <<scope, call, handles, slots, chain, strong>>
    BY DEF MarkRetired, PathInv
  <1>2. ~retired[s]
    BY <1>1 DEF ScopeInv, GonePcs, InScope
  <1>3. pc' = [pc EXCEPT ![t] = "decrLive"]
    BY <1>2 DEF MarkRetired
  <1>4. \A u \in Threads : InScope(u) /\ scope[u] = s => u = t
    BY <1>1 DEF ScopeInv, InScope
  <1>5. handles[s] = 0 /\ ~chain[s] /\ ~strong[s]
    BY <1>1 DEF ScopeInv, UnheldPcs, EmptyPcs
  <1>6. \A u \in Threads : /\ u # t => pc'[u] = pc[u]
                           /\ InScope(u)' <=> InScope(u)
    BY <1>1, <1>3 DEF PathInv, InScope
  <1> QED
    BY <1>1, <1>3, <1>4, <1>5, <1>6
       DEF PathInv, FlagInv, ScopeInv, UnheldPcs, EmptyPcs, GonePcs

LEMMA DecrHandleKeepsScopes ==
  ASSUME PathInv, CountFacts, FlagInv, EntityInv, LockInv, ScopeInv,
         NEW t \in Threads, DecrHandle(t)
  PROVE  ScopeInv'
  <1>1. /\ pc[t] = "decrHandle" /\ pc' = [pc EXCEPT ![t] = "beginFlush"]
        /\ handles' = [handles EXCEPT ![scope[t]] = @ - 1]
        /\ UNCHANGED <<scope, call, retired, poolVars>>
        /\ scope[t] \in Scopes /\ call[t] = "drop"
    BY DEF DecrHandle, PathInv
  <1>2. handles[scope[t]] > 0
    BY <1>1 DEF CountFacts, KeepsHandle
  <1>3. \A u \in Threads : InScope(u)' <=> InScope(u)
    BY <1>1 DEF PathInv, InScope
  <1> QED
    BY <1>1, <1>2, <1>3
       DEF PathInv, CountFacts, FlagInv, ScopeInv, UnheldPcs, EmptyPcs,
           GonePcs

(* A thread that only moves on, or out of its scope.                       *)
LEMMA MoveKeepsScopes ==
  ASSUME PathInv, ScopeInv, NEW t \in Threads, Others(t),
         UNCHANGED <<handles, slots, chain, strong, retired>>,
         pc'[t] \notin UnheldPcs,
         InScope(t)' => InScope(t) /\ scope'[t] = scope[t],
         InScope(t)' /\ retired[scope[t]] => pc'[t] \in GonePcs
  PROVE  ScopeInv'
  <1>1. \A u \in Threads \ {t} : (InScope(u)' <=> InScope(u)) /\ scope'[u] = scope[u]
                                /\ pc'[u] = pc[u]
    BY DEF Others, InScope
  <1>2. \A u \in Threads : InScope(u)' => InScope(u) /\ scope'[u] = scope[u]
    BY <1>1
  <1>3. pc'[t] # "markRetired"
    BY DEF UnheldPcs, EmptyPcs
  <1>4. ASSUME NEW u \in Threads
        PROVE  /\ pc'[u] \in UnheldPcs => handles[scope'[u]] = 0
               /\ pc'[u] \in EmptyPcs => ~chain[scope'[u]] /\ ~strong[scope'[u]]
               /\ pc'[u] \in {"decrLive", "seeClosing", "electLast"}
                    => retired[scope'[u]]
               /\ InScope(u)' /\ retired[scope'[u]] => pc'[u] \in GonePcs
    <2>1. CASE u = t
      BY <2>1 DEF UnheldPcs, EmptyPcs
    <2>2. CASE u # t
      BY <1>1, <2>2 DEF ScopeInv
    <2> QED
      BY <2>1, <2>2
  <1>5. ASSUME NEW u \in Threads, NEW v \in Threads, InScope(u)', InScope(v)',
               u # v, scope'[u] = scope'[v]
        PROVE  ~retired[scope'[u]] /\ pc'[u] # "markRetired"
    BY <1>1, <1>2, <1>3, <1>5 DEF ScopeInv
  <1> QED
    BY <1>4, <1>5 DEF ScopeInv

LEMMA EndFlushKeepsScopes ==
  ASSUME PathInv, CountFacts, ScopeInv, NEW t \in Threads, EndFlush(t)
  PROVE  ScopeInv'
  <1>1. Others(t)
    BY OthersStay DEF Continue
  <1>2. /\ pc[t] = "endFlush" /\ InScope(t)
        /\ UNCHANGED <<handles, slots, chain, strong, retired>>
    BY DEF EndFlush, InScope
  <1>3. CASE call[t] = "close"
    <2>1. pc'[t] = "seeFinalizing" /\ scope'[t] = scope[t]
      BY <1>3 DEF EndFlush, PathInv
    <2>2. scope[t] \in Scopes /\ KeepsHandle(t, scope[t])
      BY <1>3 DEF PathInv, KeepsHandle
    <2>3. ~retired[scope[t]]
      BY <2>2 DEF CountFacts, ScopeInv
    <2> QED
      BY <1>1, <1>2, <2>1, <2>3, MoveKeepsScopes DEF UnheldPcs, EmptyPcs
  <1>4. CASE call[t] = "view"
    <2>1. CASE won[t]
      <3>1. Proceed(t, "setFinalizing")
        BY <1>4, <2>1, Zenon DEF EndFlush
      <3>2. pc'[t] = "setFinalizing" /\ ~InScope(t)'
        BY <3>1 DEF PathInv, InScope
      <3> QED
        BY <1>1, <1>2, <3>2, MoveKeepsScopes DEF UnheldPcs, EmptyPcs
    <2>2. CASE ~won[t]
      <3>1. Return(t)
        BY <1>4, <2>2, Zenon DEF EndFlush
      <3>2. pc'[t] = "idle" /\ ~InScope(t)'
        BY <3>1 DEF PathInv, InScope
      <3> QED
        BY <1>1, <1>2, <3>2, MoveKeepsScopes DEF UnheldPcs, EmptyPcs
    <2> QED
      BY <2>1, <2>2
  <1>5. CASE call[t] \in {"drop", "retain"}
    <2>1. pc'[t] = "decrUser" /\ scope'[t] = scope[t]
      BY <1>5 DEF EndFlush, PathInv
    <2> QED
      BY <1>1, <1>2, <2>1, MoveKeepsScopes DEF UnheldPcs, EmptyPcs, GonePcs
  <1> QED
    BY <1>2, <1>3, <1>4, <1>5 DEF PathInv

LEMMA DropLeaseKeepsScopes ==
  ASSUME PathInv, ScopeInv, NEW t \in Threads, DropLease(t)
  PROVE  ScopeInv'
  <1>1. Others(t)
    BY OthersStay DEF Continue
  <1>2. UNCHANGED <<handles, slots, chain, strong, retired>>
    BY DEF DropLease
  <1>3. pc'[t] \in {"setFinalizing", "idle"}
    <2>1. CASE won[t]
      <3>1. Goto(t, "setFinalizing")
        BY <2>1, Zenon DEF DropLease
      <3> QED
        BY <3>1 DEF PathInv
    <2>2. CASE ~won[t]
      <3>1. Return(t)
        BY <2>2, Zenon DEF DropLease
      <3> QED
        BY <3>1 DEF PathInv
    <2> QED
      BY <2>1, <2>2
  <1> QED
    BY <1>1, <1>2, <1>3, MoveKeepsScopes DEF UnheldPcs, EmptyPcs, InScope

LEMMA SeeChainKeepsScopes ==
  ASSUME PathInv, CountFacts, FlagInv, ScopeInv, NEW t \in Threads, SeeChain(t)
  PROVE  ScopeInv'
  <1> DEFINE s == scope[t]
  <1>1. /\ pc[t] = "seeChain" /\ s \in Scopes /\ InScope(t)
        /\ strong' = [strong EXCEPT ![s] = @ /\ chain[s]]
        /\ pc' = [pc EXCEPT ![t] = IF chain[s] THEN "unlock" ELSE "seeUsers"]
        /\ UNCHANGED <<scope, call, handles, slots, chain, retired>>
    BY DEF SeeChain, PathInv, InScope
  <1>2. handles[s] = 0 /\ ~retired[s]
    BY <1>1 DEF ScopeInv, UnheldPcs, GonePcs
  <1>3. \A r \in Scopes : ~strong[r] => ~strong'[r]
    BY <1>1 DEF FlagInv
  <1>4. ~chain[s] => ~strong'[s]
    BY <1>1 DEF FlagInv
  <1>5. \A u \in Threads : InScope(u)' <=> InScope(u)
    BY <1>1 DEF PathInv, InScope
  <1>6. \A u \in Threads \ {t} : pc'[u] = pc[u]
    BY <1>1 DEF PathInv
  <1>7. CASE chain[s]
    <2>1. pc'[t] = "unlock"
      BY <1>1, <1>7 DEF PathInv
    <2> QED
      BY <1>1, <1>2, <1>3, <1>5, <1>6, <2>1
         DEF PathInv, ScopeInv, UnheldPcs, EmptyPcs, GonePcs, InScope
  <1>8. CASE ~chain[s]
    <2>1. pc'[t] = "seeUsers"
      BY <1>1, <1>8 DEF PathInv
    <2> QED
      BY <1>1, <1>2, <1>3, <1>4, <1>5, <1>6, <1>8, <2>1
         DEF PathInv, ScopeInv, UnheldPcs, EmptyPcs, GonePcs, InScope
  <1> QED
    BY <1>7, <1>8

LEMMA StepKeepsScopes ==
  ASSUME PathInv, CountFacts, FlagInv, EntityInv, LockInv, ScopeInv,
         NEW t \in Threads, Begin(t) \/ Continue(t)
  PROVE  ScopeInv'
  <1> USE DEF PathInv, CountFacts, FlagInv, EntityInv, LockInv, ScopeInv,
              UnheldPcs, EmptyPcs, GonePcs, InScope, KeepsHandle, KeepsSlot,
              IsInside
  <1>1. CASE NewScope(t)
    BY <1>1 DEF NewScope
  <1>2. CASE CloneScope(t)
    BY <1>2 DEF CloneScope
  <1>3. CASE StartPut(t)
    BY <1>3 DEF StartPut
  <1>4. CASE StartDrop(t)
    BY <1>4 DEF StartDrop
  <1>5. CASE StartClose(t)
    BY <1>5 DEF StartClose
  <1>6. CASE StartRetainDrop(t)
    BY <1>6 DEF StartRetainDrop
  <1>7. CASE StartViewDrop(t)
    BY <1>7 DEF StartViewDrop
  <1>8. CASE StartRootClose(t)
    BY <1>8 DEF StartRootClose
  <1>9. CASE LockPut(t)
    BY <1>9 DEF LockPut
  <1>10. CASE UnlockPut(t)
    BY <1>10 DEF UnlockPut
  <1>11. CASE SeeFinalizing(t)
    BY <1>11 DEF SeeFinalizing
  <1>12. CASE IncrActive(t)
    BY <1>12 DEF IncrActive
  <1>13. CASE ConfirmLease(t)
    BY <1>13 DEF ConfirmLease
  <1>14. CASE IncrUser(t)
    BY <1>14 DEF IncrUser
  <1>15. CASE Release(t)
    BY <1>15 DEF Release
  <1>16. CASE SeeUnheld(t)
    BY <1>16 DEF SeeUnheld
  <1>17. CASE BeginFlush(t)
    BY <1>17 DEF BeginFlush
  <1>18. CASE Flush(t)
    BY <1>18 DEF Flush
  <1>19. CASE Unpin(t)
    BY <1>19 DEF Unpin
  <1>20. CASE SeeHandles(t)
    BY <1>20 DEF SeeHandles
  <1>21. CASE SeeChain(t)
    BY <1>21, SeeChainKeepsScopes
  <1>22. CASE DecrLive(t)
    BY <1>22 DEF DecrLive
  <1>23. CASE SeeClosing(t)
    BY <1>23 DEF SeeClosing
  <1>24. CASE ElectLast(t)
    BY <1>24 DEF ElectLast
  <1>25. CASE Unlock(t)
    BY <1>25 DEF Unlock
  <1>26. CASE EndFlush(t)
    BY <1>26, EndFlushKeepsScopes
  <1>27. CASE DecrUser(t)
    BY <1>27 DEF DecrUser
  <1>28. CASE AnyElected(t)
    BY <1>28 DEF AnyElected
  <1>29. CASE AnyClosing(t)
    BY <1>29 DEF AnyClosing
  <1>30. CASE AnyLive(t)
    BY <1>30 DEF AnyLive
  <1>31. CASE AnyInflight(t)
    BY <1>31 DEF AnyInflight
  <1>32. CASE AnyActive(t)
    BY <1>32 DEF AnyActive
  <1>33. CASE ElectSelf(t)
    BY <1>33 DEF ElectSelf
  <1>34. CASE DropLease(t)
    BY <1>34, DropLeaseKeepsScopes
  <1>35. CASE SetClosing(t)
    BY <1>35 DEF SetClosing
  <1>36. CASE LoopElected(t)
    BY <1>36 DEF LoopElected
  <1>37. CASE LoopLive(t)
    BY <1>37 DEF LoopLive
  <1>38. CASE LoopInflight(t)
    BY <1>38 DEF LoopInflight
  <1>39. CASE LoopElect(t)
    BY <1>39 DEF LoopElect
  <1>40. CASE SetFinalizing(t)
    BY <1>40 DEF SetFinalizing
  <1>41. CASE AwaitActive(t)
    BY <1>41 DEF AwaitActive
  <1>42. CASE AwaitInflight(t)
    BY <1>42 DEF AwaitInflight
  <1>43. CASE FlushEntities(t)
    BY <1>43 DEF FlushEntities
  <1>44. CASE Unpublish(t)
    BY <1>44 DEF Unpublish
  <1>45. CASE FreeRoot(t)
    BY <1>45 DEF FreeRoot
  <1> HIDE DEF PathInv, CountFacts, FlagInv, EntityInv, LockInv, ScopeInv,
               UnheldPcs, EmptyPcs, GonePcs, InScope, KeepsHandle, KeepsSlot,
               IsInside
  <1> QED
    BY <1>1, <1>2, <1>3, <1>4, <1>5, <1>6, <1>7, <1>8, <1>9, <1>10, <1>11,
       <1>12, <1>13, <1>14, <1>15, <1>16, <1>17, <1>18, <1>19, <1>20, <1>21,
       <1>22, <1>23, <1>24, <1>25, <1>26, <1>27, <1>28, <1>29, <1>30, <1>31,
       <1>32, <1>33, <1>34, <1>35, <1>36, <1>37, <1>38, <1>39, <1>40, <1>41,
       <1>42, <1>43, <1>44, <1>45, TryWriteKeepsScopes, SeeUsersKeepsScopes,
       MarkRetiredKeepsScopes, DecrHandleKeepsScopes
       DEF Begin, Continue

-----------------------------------------------------------------------------
LEMMA InitRetireInv == Init => RetireInv
  <1> SUFFICES ASSUME Init PROVE RetireInv
    OBVIOUS
  <1>1. FlagInv /\ ClosingInv /\ EntityInv
    BY DEF Init, FlagInv, ClosingInv, EntityInv, Finalizes
  <1>3. CreatedInv
    BY DEF Init, CreatedInv
  <1>2. LockInv /\ ScopeInv
    BY DEF Init, LockInv, ScopeInv, UnheldPcs, EmptyPcs, GonePcs, InScope
  <1> QED
    BY <1>1, <1>2, <1>3, InitCountInv DEF RetireInv

LEMMA NextRetireInv == RetireInv /\ [Next]_vars => RetireInv'
  <1> SUFFICES ASSUME RetireInv, [Next]_vars PROVE RetireInv'
    OBVIOUS
  <1>1. CountInv'
    BY NextCountInv DEF RetireInv
  <1>2. CASE UNCHANGED vars
    <2>1. FlagInv' /\ ClosingInv' /\ EntityInv' /\ CreatedInv' /\ LockInv' /\ ScopeInv'
      BY <1>2
         DEF vars, RetireInv, FlagInv, ClosingInv, EntityInv, CreatedInv, Created, LockInv,
             ScopeInv, UnheldPcs, EmptyPcs, GonePcs, InScope, Finalizes
    <2> QED
      BY <1>1, <2>1 DEF RetireInv
  <1>3. ASSUME NEW t \in Threads, Begin(t) \/ Continue(t)
        PROVE  RetireInv'
    <2>1. PathInv /\ CountFacts
      BY CountsAreFacts DEF RetireInv, CountInv
    <2> QED
      BY <1>1, <1>3, <2>1, StepKeepsFlags, StepKeepsClosing, StepKeepsEntities,
         StepKeepsCreated, StepKeepsLocks, StepKeepsScopes DEF RetireInv
  <1> QED
    BY <1>2, <1>3 DEF Next

(* The invariant of the retirement of scopes.                              *)
THEOREM RetireInvariant == Spec => []RetireInv
  BY InitRetireInv, NextRetireInv, PTL DEF Spec

(* A retired scope is empty and nobody but the thread that retired it is   *)
(* inside (try_retire_, inner_.rs).                                        *)
THEOREM RetiredIsQuietHolds == Spec => []RetiredIsQuiet
  <1>1. RetireInv => RetiredIsQuiet
    BY CountsAreFacts DEF RetireInv, ScopeInv, CountFacts, RetiredIsQuiet
  <1> QED
    BY <1>1, RetireInvariant, PTL

-----------------------------------------------------------------------------
(* No lease is refused: who asks for one keeps a scope that is not retired.*)
LEMMA Granted ==
  ASSUME RetireInv, LiveFacts, EmptyInv, UseInv
  PROVE  LeaseIsGranted
  <1> SUFFICES ASSUME NEW t \in Threads, pc[t] \in LeasePcs, finalizing PROVE FALSE
    BY DEF LeaseIsGranted
  <1> USE DEF RetireInv, CountInv
  <1>1. closing /\ \A s \in entities : retired[s]
    BY DEF ClosingInv, EmptyInv, LiveFacts
  <1>2. call[t] # "root"
    BY <1>1 DEF ClosingInv
  <1>3. call[t] \in {"drop", "retain"} /\ scope[t] \in Scopes
    BY <1>2 DEF PathInv
  <1>4. scope[t] \in entities
    BY <1>2 DEF UseInv, InScope
  <1>5. retired[scope[t]]
    BY <1>1, <1>4
  <1>6. CountFacts
    BY CountsAreFacts
  <1>7. handles[scope[t]] = 0 /\ slots[scope[t]] = 0
    BY <1>3, <1>5, <1>6 DEF ScopeInv, CountFacts
  <1> QED
    BY <1>3, <1>6, <1>7 DEF CountFacts, KeepsHandle, KeepsSlot

(* Without leases nobody is in a scope of a root that finalizes: who is in *)
(* a retired scope is on his way out, and has a lease.                     *)
LEMMA NoneInside ==
  ASSUME RetireInv, LiveFacts, EmptyInv, LeaseInv, UseInv,
         elected, active = 0, NEW u \in Threads, InScope(u)
  PROVE  FALSE
  <1>0. PathInv /\ CountFacts
    BY CountsAreFacts DEF RetireInv, CountInv
  <1>1. retired[scope[u]] /\ scope[u] \in Scopes
    BY DEF RetireInv, FlagInv, LiveFacts, EmptyInv, UseInv
  <1>2. pc[u] \in GonePcs /\ handles[scope[u]] = 0 /\ slots[scope[u]] = 0
    BY <1>0, <1>1 DEF RetireInv, ScopeInv, CountFacts
  <1>3. call[u] \in {"drop", "retain"}
    BY <1>0, <1>1, <1>2 DEF PathInv, CountFacts, KeepsHandle, KeepsSlot, GonePcs
  <1>4. leased[u]
    BY <1>2, <1>3 DEF LeaseInv, GonePcs
  <1> QED
    BY <1>0, <1>4 DEF CountFacts, HasLease

(* The live count: a scope is made, it retires, the count follows.         *)
LEMMA StepKeepsLive ==
  ASSUME PathInv, CountFacts, FlagInv, EntityInv, CreatedInv, LiveInv,
         NEW t \in Threads, Begin(t) \/ Continue(t)
  PROVE  LiveInv'
  <1>1. Moved(Retiring, Retiring', pc[t] = "decrLive", pc'[t] = "decrLive")
    <2>1. /\ Retiring \in SUBSET Threads /\ Retiring' \in SUBSET Threads
          /\ \A u \in Threads \ {t} : u \in Retiring <=> u \in Retiring'
      BY OthersStay DEF Others, Retiring
    <2>2. Moved(Retiring, Retiring', t \in Retiring, t \in Retiring')
      BY <2>1, CardMoves
    <2> QED
      BY <2>2 DEF Retiring, Moved, One
  <1>2. LiveInv' <=> /\ liveScopes' \in Nat
                     /\ liveScopes' = Cardinality(Live') + Cardinality(Retiring')
    <2>1. LiveScopesCounted' <=>
            liveScopes' = Cardinality(Live') + Cardinality(Retiring')
      BY DEF LiveScopesCounted, Retiring
    <2> QED
      BY <2>1 DEF LiveInv
  <1>3. /\ liveScopes \in Nat
        /\ liveScopes = Cardinality(Live) + Cardinality(Retiring)
        /\ Cardinality(Live) \in Nat
    BY LiveSets DEF LiveInv
  <1>4. ASSUME \/ StartPut(t) \/ StartDrop(t)
               \/ StartRetainDrop(t) \/ StartViewDrop(t)
               \/ StartRootClose(t) \/ LockPut(t) \/ UnlockPut(t)
               \/ SeeFinalizing(t) \/ IncrActive(t) \/ ConfirmLease(t)
               \/ IncrUser(t) \/ Release(t) \/ SeeUnheld(t)
               \/ BeginFlush(t) \/ TryWrite(t) \/ Flush(t) \/ Unpin(t)
               \/ SeeHandles(t) \/ SeeChain(t) \/ SeeUsers(t)
               \/ SeeClosing(t) \/ ElectLast(t) \/ Unlock(t) \/ EndFlush(t)
               \/ DecrUser(t) \/ AnyElected(t) \/ AnyClosing(t) \/ AnyLive(t)
               \/ AnyInflight(t) \/ AnyActive(t) \/ ElectSelf(t)
               \/ DropLease(t) \/ SetClosing(t) \/ LoopElected(t)
               \/ LoopLive(t) \/ LoopInflight(t) \/ LoopElect(t)
               \/ SetFinalizing(t) \/ AwaitActive(t) \/ AwaitInflight(t)
               \/ FlushEntities(t) \/ Unpublish(t) \/ FreeRoot(t)
        PROVE  LiveInv'
    <2>1. /\ UNCHANGED <<liveScopes, handles, closed, retired>>
          /\ pc[t] = "decrLive" <=> pc'[t] = "decrLive"
      BY <1>4 DEF PathInv, StartPut, StartDrop,
         StartRetainDrop, StartViewDrop, StartRootClose, LockPut, UnlockPut,
         SeeFinalizing, IncrActive, ConfirmLease, IncrUser,
         Release, SeeUnheld, BeginFlush, TryWrite, Flush, Unpin, SeeHandles,
         SeeChain, SeeUsers, SeeClosing, ElectLast, Unlock, EndFlush,
         DecrUser, AnyElected, AnyClosing, AnyLive, AnyInflight, AnyActive,
         ElectSelf, DropLease, SetClosing, LoopElected, LoopLive,
         LoopInflight, LoopElect, SetFinalizing, AwaitActive, AwaitInflight,
         FlushEntities, Unpublish, FreeRoot
    <2>2. Live' = Live
      BY <2>1 DEF Live
    <2> QED
      BY <1>1, <1>2, <1>3, <2>1, <2>2 DEF Moved, One
  <1>5. CASE CloneScope(t) \/ StartClose(t) \/ DecrHandle(t)
    <2>1. \A s \in Scopes : Created(s) <=> Created(s)'
      BY <1>5, HandlesKeepCreated
    <2>2. UNCHANGED <<liveScopes, retired>>
      BY <1>5 DEF CloneScope, StartClose, DecrHandle
    <2>3. pc[t] # "decrLive" /\ pc'[t] # "decrLive"
      BY <1>5 DEF PathInv, CloneScope, StartClose, DecrHandle
    <2>4. Live' = Live
      BY <2>1, <2>2 DEF Live, Created
    <2> QED
      BY <1>1, <1>2, <1>3, <2>2, <2>3, <2>4 DEF Moved, One
  <1>6. CASE NewScope(t)
    <2>1. PICK s \in Scopes \ entities : handles' = Plus(handles, s)
      BY <1>6 DEF NewScope
    <2>2. /\ UNCHANGED <<closed, retired, pc>> /\ liveScopes' = liveScopes + 1
          /\ handles[s] = 0 /\ ~closed[s] /\ ~retired[s]
      BY <1>6 DEF NewScope, EntityInv
    <2>3. Live' = Live \cup {s} /\ s \notin Live
      BY <2>1, <2>2 DEF CountFacts, Live
    <2>4. Cardinality(Live') = Cardinality(Live) + 1
      BY <2>3, LiveSets, FS_AddElement
    <2> QED
      BY <1>1, <1>2, <1>3, <2>2, <2>4 DEF Moved, One
  <1>7. CASE MarkRetired(t)
    <2> DEFINE s == scope[t]
    <2>1. /\ pc[t] = "markRetired" /\ retired' = Set(retired, s)
          /\ pc' = [pc EXCEPT ![t] = IF retired[s] THEN "unlock" ELSE "decrLive"]
          /\ UNCHANGED <<liveScopes, handles, closed>> /\ s \in Scopes
      BY <1>7 DEF MarkRetired, PathInv
    <2>2. CASE retired[s]
      <3>1. Live' = Live
        BY <2>1, <2>2 DEF FlagInv, Live
      <3>2. pc'[t] = "unlock"
        BY <2>1, <2>2 DEF PathInv
      <3> QED
        BY <1>1, <1>2, <1>3, <2>1, <3>1, <3>2 DEF Moved, One
    <2>3. CASE ~retired[s]
      <3>1. Created(s)
        BY <2>1 DEF CreatedInv
      <3>2. /\ \A r \in Scopes : retired'[r] <=> retired[r] \/ r = s
            /\ s \in Live
        BY <2>1, <2>3, <3>1 DEF FlagInv, Live, Created
      <3>5. Live' = Live \ {s}
        BY <2>1, <3>2 DEF Live
      <3>3. Cardinality(Live') = Cardinality(Live) - 1
        BY <3>2, <3>5, LiveSets, FS_RemoveElement
      <3>4. pc'[t] = "decrLive"
        BY <2>1, <2>3 DEF PathInv
      <3> QED
        BY <1>1, <1>2, <1>3, <2>1, <3>3, <3>4 DEF Moved, One
    <2> QED
      BY <2>2, <2>3
  <1>8. CASE DecrLive(t)
    <2>1. /\ pc[t] = "decrLive" /\ liveScopes' = liveScopes - 1
          /\ UNCHANGED <<handles, closed, retired>> /\ pc'[t] # "decrLive"
      BY <1>8 DEF DecrLive, PathInv
    <2>2. Live' = Live
      BY <2>1 DEF Live
    <2> QED
      BY <1>1, <1>2, <1>3, <2>1, <2>2 DEF Moved, One
  <1> QED
    BY <1>4, <1>5, <1>6, <1>7, <1>8 DEF Begin, Continue

(* Nobody elects while a scope lives, but a retiring thread, early.        *)
LEMMA StepKeepsEmpty ==
  ASSUME PathInv, FlagInv, ClosingInv, LiveFacts, EmptyInv, ~early',
         NEW t \in Threads, Begin(t) \/ Continue(t)
  PROVE  EmptyInv'
  <1> USE DEF PathInv, FlagInv, ClosingInv, LiveFacts, EmptyInv
  <1>1. CASE NewScope(t)
    BY <1>1 DEF NewScope
  <1>2. CASE CloneScope(t)
    BY <1>2 DEF CloneScope
  <1>3. CASE StartPut(t)
    BY <1>3 DEF StartPut
  <1>4. CASE StartDrop(t)
    BY <1>4 DEF StartDrop
  <1>5. CASE StartClose(t)
    BY <1>5 DEF StartClose
  <1>6. CASE StartRetainDrop(t)
    BY <1>6 DEF StartRetainDrop
  <1>7. CASE StartViewDrop(t)
    BY <1>7 DEF StartViewDrop
  <1>8. CASE StartRootClose(t)
    BY <1>8 DEF StartRootClose
  <1>9. CASE LockPut(t)
    BY <1>9 DEF LockPut
  <1>10. CASE UnlockPut(t)
    BY <1>10 DEF UnlockPut
  <1>11. CASE SeeFinalizing(t)
    BY <1>11 DEF SeeFinalizing
  <1>12. CASE IncrActive(t)
    BY <1>12 DEF IncrActive
  <1>13. CASE ConfirmLease(t)
    BY <1>13 DEF ConfirmLease
  <1>14. CASE IncrUser(t)
    BY <1>14 DEF IncrUser
  <1>15. CASE DecrHandle(t)
    BY <1>15 DEF DecrHandle
  <1>16. CASE Release(t)
    BY <1>16 DEF Release
  <1>17. CASE SeeUnheld(t)
    BY <1>17 DEF SeeUnheld
  <1>18. CASE BeginFlush(t)
    BY <1>18 DEF BeginFlush
  <1>19. CASE TryWrite(t)
    BY <1>19 DEF TryWrite
  <1>20. CASE Flush(t)
    BY <1>20 DEF Flush
  <1>21. CASE Unpin(t)
    BY <1>21 DEF Unpin
  <1>22. CASE SeeHandles(t)
    BY <1>22 DEF SeeHandles
  <1>23. CASE SeeChain(t)
    BY <1>23 DEF SeeChain
  <1>24. CASE SeeUsers(t)
    BY <1>24 DEF SeeUsers
  <1>25. CASE MarkRetired(t)
    BY <1>25 DEF MarkRetired
  <1>26. CASE DecrLive(t)
    BY <1>26 DEF DecrLive
  <1>27. CASE SeeClosing(t)
    BY <1>27 DEF SeeClosing
  <1>28. CASE ElectLast(t)
    BY <1>28 DEF ElectLast
  <1>29. CASE Unlock(t)
    BY <1>29 DEF Unlock
  <1>30. CASE EndFlush(t)
    BY <1>30 DEF EndFlush
  <1>31. CASE DecrUser(t)
    BY <1>31 DEF DecrUser
  <1>32. CASE AnyElected(t)
    BY <1>32 DEF AnyElected
  <1>33. CASE AnyClosing(t)
    BY <1>33 DEF AnyClosing
  <1>34. CASE AnyLive(t)
    BY <1>34 DEF AnyLive
  <1>35. CASE AnyInflight(t)
    BY <1>35 DEF AnyInflight
  <1>36. CASE AnyActive(t)
    BY <1>36 DEF AnyActive
  <1>37. CASE ElectSelf(t)
    BY <1>37 DEF ElectSelf
  <1>38. CASE DropLease(t)
    BY <1>38 DEF DropLease
  <1>39. CASE SetClosing(t)
    BY <1>39 DEF SetClosing
  <1>40. CASE LoopElected(t)
    BY <1>40 DEF LoopElected
  <1>41. CASE LoopLive(t)
    BY <1>41 DEF LoopLive
  <1>42. CASE LoopInflight(t)
    BY <1>42 DEF LoopInflight
  <1>43. CASE LoopElect(t)
    BY <1>43 DEF LoopElect
  <1>44. CASE SetFinalizing(t)
    BY <1>44 DEF SetFinalizing
  <1>45. CASE AwaitActive(t)
    BY <1>45 DEF AwaitActive
  <1>46. CASE AwaitInflight(t)
    BY <1>46 DEF AwaitInflight
  <1>47. CASE FlushEntities(t)
    BY <1>47 DEF FlushEntities
  <1>48. CASE Unpublish(t)
    BY <1>48 DEF Unpublish
  <1>49. CASE FreeRoot(t)
    BY <1>49 DEF FreeRoot
  <1> HIDE DEF PathInv, FlagInv, ClosingInv, LiveFacts, EmptyInv
  <1> QED
    BY <1>1, <1>2, <1>3, <1>4, <1>5, <1>6, <1>7, <1>8, <1>9, <1>10, <1>11,
       <1>12, <1>13, <1>14, <1>15, <1>16, <1>17, <1>18, <1>19, <1>20, <1>21,
       <1>22, <1>23, <1>24, <1>25, <1>26, <1>27, <1>28, <1>29, <1>30, <1>31,
       <1>32, <1>33, <1>34, <1>35, <1>36, <1>37, <1>38, <1>39, <1>40, <1>41,
       <1>42, <1>43, <1>44, <1>45, <1>46, <1>47, <1>48, <1>49
       DEF Begin, Continue

(* The leases.                                                             *)
LEMMA StepKeepsLeases ==
  ASSUME PathInv, LeaseIsGranted, LeaseInv, NEW t \in Threads,
         Begin(t) \/ Continue(t)
  PROVE  LeaseInv'
  <1> USE DEF PathInv, LeaseIsGranted, LeaseInv
  <1>1. CASE NewScope(t)
    BY <1>1 DEF NewScope
  <1>2. CASE CloneScope(t)
    BY <1>2 DEF CloneScope
  <1>3. CASE StartPut(t)
    BY <1>3 DEF StartPut
  <1>4. CASE StartDrop(t)
    BY <1>4 DEF StartDrop
  <1>5. CASE StartClose(t)
    BY <1>5 DEF StartClose
  <1>6. CASE StartRetainDrop(t)
    BY <1>6 DEF StartRetainDrop
  <1>7. CASE StartViewDrop(t)
    BY <1>7 DEF StartViewDrop
  <1>8. CASE StartRootClose(t)
    BY <1>8 DEF StartRootClose
  <1>9. CASE LockPut(t)
    BY <1>9 DEF LockPut
  <1>10. CASE UnlockPut(t)
    BY <1>10 DEF UnlockPut
  <1>11. CASE SeeFinalizing(t)
    BY <1>11 DEF SeeFinalizing
  <1>12. CASE IncrActive(t)
    BY <1>12 DEF IncrActive
  <1>13. CASE ConfirmLease(t)
    <2>1. ~finalizing
      BY <1>13 DEF ConfirmLease
    <2>2. leased'[t]
      BY <1>13, <2>1 DEF ConfirmLease
    <2>3. \A u \in Threads \ {t} : /\ pc'[u] = pc[u] /\ call'[u] = call[u]
                                  /\ leased'[u] = leased[u]
      BY OthersStay DEF Others
    <2> QED
      BY <2>2, <2>3
  <1>14. CASE IncrUser(t)
    BY <1>14 DEF IncrUser
  <1>15. CASE DecrHandle(t)
    BY <1>15 DEF DecrHandle
  <1>16. CASE Release(t)
    BY <1>16 DEF Release
  <1>17. CASE SeeUnheld(t)
    BY <1>17 DEF SeeUnheld
  <1>18. CASE BeginFlush(t)
    BY <1>18 DEF BeginFlush
  <1>19. CASE TryWrite(t)
    BY <1>19 DEF TryWrite
  <1>20. CASE Flush(t)
    BY <1>20 DEF Flush
  <1>21. CASE Unpin(t)
    BY <1>21 DEF Unpin
  <1>22. CASE SeeHandles(t)
    BY <1>22 DEF SeeHandles
  <1>23. CASE SeeChain(t)
    BY <1>23 DEF SeeChain
  <1>24. CASE SeeUsers(t)
    BY <1>24 DEF SeeUsers
  <1>25. CASE MarkRetired(t)
    BY <1>25 DEF MarkRetired
  <1>26. CASE DecrLive(t)
    BY <1>26 DEF DecrLive
  <1>27. CASE SeeClosing(t)
    BY <1>27 DEF SeeClosing
  <1>28. CASE ElectLast(t)
    BY <1>28 DEF ElectLast
  <1>29. CASE Unlock(t)
    BY <1>29 DEF Unlock
  <1>30. CASE EndFlush(t)
    BY <1>30 DEF EndFlush
  <1>31. CASE DecrUser(t)
    BY <1>31 DEF DecrUser
  <1>32. CASE AnyElected(t)
    BY <1>32 DEF AnyElected
  <1>33. CASE AnyClosing(t)
    BY <1>33 DEF AnyClosing
  <1>34. CASE AnyLive(t)
    BY <1>34 DEF AnyLive
  <1>35. CASE AnyInflight(t)
    BY <1>35 DEF AnyInflight
  <1>36. CASE AnyActive(t)
    BY <1>36 DEF AnyActive
  <1>37. CASE ElectSelf(t)
    BY <1>37 DEF ElectSelf
  <1>38. CASE DropLease(t)
    BY <1>38 DEF DropLease
  <1>39. CASE SetClosing(t)
    BY <1>39 DEF SetClosing
  <1>40. CASE LoopElected(t)
    BY <1>40 DEF LoopElected
  <1>41. CASE LoopLive(t)
    BY <1>41 DEF LoopLive
  <1>42. CASE LoopInflight(t)
    BY <1>42 DEF LoopInflight
  <1>43. CASE LoopElect(t)
    BY <1>43 DEF LoopElect
  <1>44. CASE SetFinalizing(t)
    BY <1>44 DEF SetFinalizing
  <1>45. CASE AwaitActive(t)
    BY <1>45 DEF AwaitActive
  <1>46. CASE AwaitInflight(t)
    BY <1>46 DEF AwaitInflight
  <1>47. CASE FlushEntities(t)
    BY <1>47 DEF FlushEntities
  <1>48. CASE Unpublish(t)
    BY <1>48 DEF Unpublish
  <1>49. CASE FreeRoot(t)
    BY <1>49 DEF FreeRoot
  <1> HIDE DEF PathInv, LeaseIsGranted, LeaseInv
  <1> QED
    BY <1>1, <1>2, <1>3, <1>4, <1>5, <1>6, <1>7, <1>8, <1>9, <1>10, <1>11,
       <1>12, <1>13, <1>14, <1>15, <1>16, <1>17, <1>18, <1>19, <1>20, <1>21,
       <1>22, <1>23, <1>24, <1>25, <1>26, <1>27, <1>28, <1>29, <1>30, <1>31,
       <1>32, <1>33, <1>34, <1>35, <1>36, <1>37, <1>38, <1>39, <1>40, <1>41,
       <1>42, <1>43, <1>44, <1>45, <1>46, <1>47, <1>48, <1>49
       DEF Begin, Continue

(* What is used.                                                           *)
LEMMA FlushEntitiesKeepsUses ==
  ASSUME RetireInv, PathInv, CountFacts, FlagInv, ClosingInv, LiveFacts,
         EmptyInv, LeaseInv, UseInv, QuietInv, NEW t \in Threads,
         FlushEntities(t)
  PROVE  UseInv'
  <1>1. /\ pc[t] = "flushEntities" /\ entities' = {}
        /\ UNCHANGED <<handles, slots, closed, retired, scope, call>>
        /\ pc' = [pc EXCEPT ![t] = "unpublish"]
    BY DEF FlushEntities
  <1>2. elected /\ active = 0
    BY <1>1 DEF RetireInv, ClosingInv, QuietInv, Finalizes
  <1>3. \A u \in Threads : ~InScope(u)
    BY <1>2, NoneInside
  <1>4. \A s \in Scopes : s \in entities => retired[s] /\ handles[s] = 0 /\ slots[s] = 0
    BY <1>2, CountsAreFacts
       DEF RetireInv, CountFacts, ScopeInv, EmptyInv, LiveFacts
  <1>5. \A u \in Threads : ~InScope(u)'
    BY <1>1, <1>3 DEF RetireInv, CountInv, PathInv, InScope
  <1> QED
    BY <1>1, <1>4, <1>5, CountsAreFacts DEF RetireInv, CountFacts, UseInv

LEMMA StepKeepsUses ==
  ASSUME RetireInv, PathInv, CountFacts, FlagInv, ClosingInv, LiveFacts,
         EmptyInv, LeaseInv, UseInv, QuietInv, NEW t \in Threads,
         Begin(t) \/ Continue(t)
  PROVE  UseInv'
  <1> USE DEF PathInv, CountFacts, FlagInv, ClosingInv, Finalizes, UseInv,
              InScope, KeepsHandle, KeepsSlot
  <1>1. CASE NewScope(t)
    BY <1>1 DEF NewScope
  <1>2. CASE CloneScope(t)
    BY <1>2 DEF CloneScope
  <1>3. CASE StartPut(t)
    BY <1>3 DEF StartPut
  <1>4. CASE StartDrop(t)
    BY <1>4 DEF StartDrop
  <1>5. CASE StartClose(t)
    BY <1>5 DEF StartClose
  <1>6. CASE StartRetainDrop(t)
    BY <1>6 DEF StartRetainDrop
  <1>7. CASE StartViewDrop(t)
    BY <1>7 DEF StartViewDrop
  <1>8. CASE StartRootClose(t)
    BY <1>8 DEF StartRootClose
  <1>9. CASE LockPut(t)
    BY <1>9 DEF LockPut
  <1>10. CASE UnlockPut(t)
    BY <1>10 DEF UnlockPut
  <1>11. CASE SeeFinalizing(t)
    BY <1>11 DEF SeeFinalizing
  <1>12. CASE IncrActive(t)
    BY <1>12 DEF IncrActive
  <1>13. CASE ConfirmLease(t)
    BY <1>13 DEF ConfirmLease
  <1>14. CASE IncrUser(t)
    BY <1>14 DEF IncrUser
  <1>15. CASE DecrHandle(t)
    BY <1>15 DEF DecrHandle
  <1>16. CASE Release(t)
    BY <1>16 DEF Release
  <1>17. CASE SeeUnheld(t)
    BY <1>17 DEF SeeUnheld
  <1>18. CASE BeginFlush(t)
    BY <1>18 DEF BeginFlush
  <1>19. CASE TryWrite(t)
    BY <1>19 DEF TryWrite
  <1>20. CASE Flush(t)
    BY <1>20 DEF Flush
  <1>21. CASE Unpin(t)
    BY <1>21 DEF Unpin
  <1>22. CASE SeeHandles(t)
    BY <1>22 DEF SeeHandles
  <1>23. CASE SeeChain(t)
    BY <1>23 DEF SeeChain
  <1>24. CASE SeeUsers(t)
    BY <1>24 DEF SeeUsers
  <1>25. CASE MarkRetired(t)
    BY <1>25 DEF MarkRetired
  <1>26. CASE DecrLive(t)
    BY <1>26 DEF DecrLive
  <1>27. CASE SeeClosing(t)
    BY <1>27 DEF SeeClosing
  <1>28. CASE ElectLast(t)
    BY <1>28 DEF ElectLast
  <1>29. CASE Unlock(t)
    BY <1>29 DEF Unlock
  <1>30. CASE EndFlush(t)
    BY <1>30 DEF EndFlush
  <1>31. CASE DecrUser(t)
    BY <1>31 DEF DecrUser
  <1>32. CASE AnyElected(t)
    BY <1>32 DEF AnyElected
  <1>33. CASE AnyClosing(t)
    BY <1>33 DEF AnyClosing
  <1>34. CASE AnyLive(t)
    BY <1>34 DEF AnyLive
  <1>35. CASE AnyInflight(t)
    BY <1>35 DEF AnyInflight
  <1>36. CASE AnyActive(t)
    BY <1>36 DEF AnyActive
  <1>37. CASE ElectSelf(t)
    BY <1>37 DEF ElectSelf
  <1>38. CASE DropLease(t)
    BY <1>38 DEF DropLease
  <1>39. CASE SetClosing(t)
    BY <1>39 DEF SetClosing
  <1>40. CASE LoopElected(t)
    BY <1>40 DEF LoopElected
  <1>41. CASE LoopLive(t)
    BY <1>41 DEF LoopLive
  <1>42. CASE LoopInflight(t)
    BY <1>42 DEF LoopInflight
  <1>43. CASE LoopElect(t)
    BY <1>43 DEF LoopElect
  <1>44. CASE SetFinalizing(t)
    BY <1>44 DEF SetFinalizing
  <1>45. CASE AwaitActive(t)
    BY <1>45 DEF AwaitActive
  <1>46. CASE AwaitInflight(t)
    BY <1>46 DEF AwaitInflight
  <1>47. CASE Unpublish(t)
    BY <1>47 DEF Unpublish
  <1>48. CASE FreeRoot(t)
    BY <1>48 DEF FreeRoot
  <1> HIDE DEF PathInv, CountFacts, FlagInv, ClosingInv, Finalizes, UseInv,
               InScope, KeepsHandle, KeepsSlot
  <1> QED
    BY <1>1, <1>2, <1>3, <1>4, <1>5, <1>6, <1>7, <1>8, <1>9, <1>10, <1>11,
       <1>12, <1>13, <1>14, <1>15, <1>16, <1>17, <1>18, <1>19, <1>20, <1>21,
       <1>22, <1>23, <1>24, <1>25, <1>26, <1>27, <1>28, <1>29, <1>30, <1>31,
       <1>32, <1>33, <1>34, <1>35, <1>36, <1>37, <1>38, <1>39, <1>40, <1>41,
       <1>42, <1>43, <1>44, <1>45, <1>46, <1>47, <1>48, FlushEntitiesKeepsUses
       DEF Begin, Continue

(* The end.                                                                *)
LEMMA StepKeepsQuiet ==
  ASSUME PathInv, CountFacts, FlagInv, ClosingInv, LeaseIsGranted,
         FinalizedByOne, LeaseInv, UseInv, QuietInv, NEW t \in Threads,
         Begin(t) \/ Continue(t)
  PROVE  QuietInv'
  <1> USE DEF PathInv, CountFacts, FlagInv, ClosingInv, Finalizes,
              FinalizedByOne, LeaseIsGranted, LeaseInv, UseInv, InScope,
              QuietInv, HasLease
  <1>1. CASE NewScope(t)
    BY <1>1 DEF NewScope
  <1>2. CASE CloneScope(t)
    BY <1>2 DEF CloneScope
  <1>3. CASE StartPut(t)
    BY <1>3 DEF StartPut
  <1>4. CASE StartDrop(t)
    BY <1>4 DEF StartDrop
  <1>5. CASE StartClose(t)
    BY <1>5 DEF StartClose
  <1>6. CASE StartRetainDrop(t)
    BY <1>6 DEF StartRetainDrop
  <1>7. CASE StartViewDrop(t)
    BY <1>7 DEF StartViewDrop
  <1>8. CASE StartRootClose(t)
    BY <1>8 DEF StartRootClose
  <1>9. CASE LockPut(t)
    BY <1>9 DEF LockPut
  <1>10. CASE UnlockPut(t)
    BY <1>10 DEF UnlockPut
  <1>11. CASE SeeFinalizing(t)
    BY <1>11 DEF SeeFinalizing
  <1>12. CASE IncrActive(t)
    BY <1>12 DEF IncrActive
  <1>13. CASE ConfirmLease(t)
    BY <1>13 DEF ConfirmLease
  <1>14. CASE IncrUser(t)
    BY <1>14 DEF IncrUser
  <1>15. CASE DecrHandle(t)
    BY <1>15 DEF DecrHandle
  <1>16. CASE Release(t)
    BY <1>16 DEF Release
  <1>17. CASE SeeUnheld(t)
    BY <1>17 DEF SeeUnheld
  <1>18. CASE BeginFlush(t)
    BY <1>18 DEF BeginFlush
  <1>19. CASE TryWrite(t)
    BY <1>19 DEF TryWrite
  <1>20. CASE Flush(t)
    BY <1>20 DEF Flush
  <1>21. CASE Unpin(t)
    BY <1>21 DEF Unpin
  <1>22. CASE SeeHandles(t)
    BY <1>22 DEF SeeHandles
  <1>23. CASE SeeChain(t)
    BY <1>23 DEF SeeChain
  <1>24. CASE SeeUsers(t)
    BY <1>24 DEF SeeUsers
  <1>25. CASE MarkRetired(t)
    BY <1>25 DEF MarkRetired
  <1>26. CASE DecrLive(t)
    BY <1>26 DEF DecrLive
  <1>27. CASE SeeClosing(t)
    BY <1>27 DEF SeeClosing
  <1>28. CASE ElectLast(t)
    BY <1>28 DEF ElectLast
  <1>29. CASE Unlock(t)
    BY <1>29 DEF Unlock
  <1>30. CASE EndFlush(t)
    BY <1>30 DEF EndFlush
  <1>31. CASE DecrUser(t)
    BY <1>31 DEF DecrUser
  <1>32. CASE AnyElected(t)
    BY <1>32 DEF AnyElected
  <1>33. CASE AnyClosing(t)
    BY <1>33 DEF AnyClosing
  <1>34. CASE AnyLive(t)
    BY <1>34 DEF AnyLive
  <1>35. CASE AnyInflight(t)
    BY <1>35 DEF AnyInflight
  <1>36. CASE AnyActive(t)
    BY <1>36 DEF AnyActive
  <1>37. CASE ElectSelf(t)
    BY <1>37 DEF ElectSelf
  <1>38. CASE DropLease(t)
    BY <1>38 DEF DropLease
  <1>39. CASE SetClosing(t)
    BY <1>39 DEF SetClosing
  <1>40. CASE LoopElected(t)
    BY <1>40 DEF LoopElected
  <1>41. CASE LoopLive(t)
    BY <1>41 DEF LoopLive
  <1>42. CASE LoopInflight(t)
    BY <1>42 DEF LoopInflight
  <1>43. CASE LoopElect(t)
    BY <1>43 DEF LoopElect
  <1>44. CASE SetFinalizing(t)
    BY <1>44 DEF SetFinalizing
  <1>45. CASE AwaitActive(t)
    BY <1>45 DEF AwaitActive
  <1>46. CASE AwaitInflight(t)
    BY <1>46 DEF AwaitInflight
  <1>47. CASE FlushEntities(t)
    BY <1>47 DEF FlushEntities
  <1>48. CASE Unpublish(t)
    BY <1>48 DEF Unpublish
  <1>49. CASE FreeRoot(t)
    BY <1>49 DEF FreeRoot
  <1> HIDE DEF PathInv, CountFacts, FlagInv, ClosingInv, Finalizes,
               FinalizedByOne, LeaseIsGranted, LeaseInv, UseInv, InScope,
               QuietInv, HasLease
  <1> QED
    BY <1>1, <1>2, <1>3, <1>4, <1>5, <1>6, <1>7, <1>8, <1>9, <1>10, <1>11,
       <1>12, <1>13, <1>14, <1>15, <1>16, <1>17, <1>18, <1>19, <1>20, <1>21,
       <1>22, <1>23, <1>24, <1>25, <1>26, <1>27, <1>28, <1>29, <1>30, <1>31,
       <1>32, <1>33, <1>34, <1>35, <1>36, <1>37, <1>38, <1>39, <1>40, <1>41,
       <1>42, <1>43, <1>44, <1>45, <1>46, <1>47, <1>48, <1>49
       DEF Begin, Continue

-----------------------------------------------------------------------------
LEMMA InitEndInv == Init => EndInv
  <1> SUFFICES ASSUME Init PROVE EndInv
    OBVIOUS
  <1>1. Live = {} /\ Retiring = {}
    BY DEF Init, Live, Retiring
  <1>2. LiveInv
    BY <1>1, LiveSets, FS_EmptySet DEF Init, LiveInv
  <1>3. EmptyInv /\ LeaseInv /\ UseInv /\ QuietInv
    BY DEF Init, EmptyInv, LeaseInv, UseInv, QuietInv, InScope
  <1> QED
    BY <1>2, <1>3 DEF EndInv, SafeInv

(* An early election is not forgotten.                                     *)
LEMMA EarlyStays ==
  ASSUME early, NEW t \in Threads, Begin(t) \/ Continue(t)
  PROVE  early'
  <1>1. CASE ElectLast(t)
    BY <1>1, Zenon DEF ElectLast
  <1>2. ASSUME \/ NewScope(t) \/ CloneScope(t) \/ StartPut(t) \/ StartDrop(t)
               \/ StartClose(t) \/ StartRetainDrop(t) \/ StartViewDrop(t)
               \/ StartRootClose(t) \/ LockPut(t) \/ UnlockPut(t)
               \/ SeeFinalizing(t) \/ IncrActive(t) \/ ConfirmLease(t)
               \/ IncrUser(t) \/ DecrHandle(t) \/ Release(t) \/ SeeUnheld(t)
               \/ BeginFlush(t) \/ TryWrite(t) \/ Flush(t) \/ Unpin(t)
               \/ SeeHandles(t) \/ SeeChain(t) \/ SeeUsers(t) \/ MarkRetired(t)
               \/ DecrLive(t) \/ SeeClosing(t) \/ Unlock(t) \/ EndFlush(t)
               \/ DecrUser(t) \/ AnyElected(t) \/ AnyClosing(t) \/ AnyLive(t)
               \/ AnyInflight(t) \/ AnyActive(t) \/ ElectSelf(t) \/ DropLease(t)
               \/ SetClosing(t) \/ LoopElected(t) \/ LoopLive(t)
               \/ LoopInflight(t) \/ LoopElect(t) \/ SetFinalizing(t)
               \/ AwaitActive(t) \/ AwaitInflight(t) \/ FlushEntities(t)
               \/ Unpublish(t) \/ FreeRoot(t)
        PROVE  UNCHANGED early
    BY <1>2 DEF NewScope, CloneScope, StartPut, StartDrop, StartClose,
           StartRetainDrop, StartViewDrop, StartRootClose, LockPut,
           UnlockPut, SeeFinalizing, IncrActive, ConfirmLease, IncrUser,
           DecrHandle, Release, SeeUnheld, BeginFlush, TryWrite, Flush,
           Unpin, SeeHandles, SeeChain, SeeUsers, MarkRetired, DecrLive,
           SeeClosing, Unlock, EndFlush, DecrUser, AnyElected, AnyClosing,
           AnyLive, AnyInflight, AnyActive, ElectSelf, DropLease, SetClosing,
           LoopElected, LoopLive, LoopInflight, LoopElect, SetFinalizing,
           AwaitActive, AwaitInflight, FlushEntities, Unpublish, FreeRoot
  <1> QED
    BY <1>1, <1>2 DEF Begin, Continue

LEMMA EndStep ==
  ASSUME RetireInv, FinalizedByOne, EndInv, NEW t \in Threads,
         Begin(t) \/ Continue(t)
  PROVE  EndInv'
  <1> USE DEF RetireInv, CountInv
  <1>1. CountFacts /\ LiveFacts /\ LiveInv
    BY CountsAreFacts, LiveIsFacts DEF EndInv
  <1>2. LiveInv'
    BY <1>1, StepKeepsLive
  <1>3. ASSUME ~early' PROVE SafeInv'
    <2>1. SafeInv
      BY <1>3, EarlyStays DEF EndInv
    <2> USE <2>1 DEF SafeInv
    <2>2. LeaseIsGranted
      BY <1>1, Granted
    <2>3. EmptyInv'
      BY <1>1, <1>3, StepKeepsEmpty
    <2>4. LeaseInv' /\ UseInv'
      BY <1>1, <2>2, StepKeepsLeases, StepKeepsUses
    <2>5. QuietInv'
      BY <1>1, <2>2, StepKeepsQuiet
    <2> QED
      BY <2>3, <2>4, <2>5
  <1> QED
    BY <1>2, <1>3 DEF EndInv

LEMMA NextEndInv ==
  ASSUME RetireInv, FinalizedByOne, EndInv, [Next]_vars
  PROVE  EndInv'
  <1>1. CASE UNCHANGED vars
    BY <1>1 DEF vars, EndInv, SafeInv, LiveInv, LiveScopesCounted, Live,
                EmptyInv, LeaseInv, UseInv, QuietInv, InScope
  <1> QED
    BY <1>1, EndStep DEF Next

(* The invariant of the end of the root.                                   *)
THEOREM EndInvariant == Spec => [](RetireInv /\ FinalizedByOne /\ EndInv)
  <1>1. RetireInv /\ FinalizedByOne /\ EndInv /\ [Next]_vars => EndInv'
    BY NextEndInv
  <1> QED
    BY <1>1, InitEndInv, RetireInvariant, RootFinalizedByOne, PTL DEF Spec

(* live_scopes_ is the number of scopes that have not retired, and of those*)
(* whose retirement is on its way to the count (root_.rs).                 *)
THEOREM LiveScopesCountedHolds == Spec => []LiveScopesCounted
  <1>1. EndInv => LiveScopesCounted
    BY DEF EndInv, LiveInv
  <1> QED
    BY <1>1, EndInvariant, PTL

(* No scope is freed under a handle, a Retain or an operation, the root    *)
(* outlives every operation (the contract of finalize_, root_.rs), and no  *)
(* lease is refused to a drop or to the close of the root, since whoever   *)
(* asks keeps the root from being finalized (RootLease::enter_), unless    *)
(* the thread that retires the last scope is elected over another that was *)
(* created since (inner_.rs:357-362).                                      *)
THEOREM SafeUntilEarlyHolds == Spec => []SafeUntilEarly
  <1>1. ASSUME RetireInv, EndInv, ~early PROVE NoUseAfterFree
    <2>1. CountFacts
      BY <1>1, CountsAreFacts DEF RetireInv
    <2>2. \A s \in Scopes : held[s] + retains[s] > 0 => handles[s] > 0 \/ slots[s] > 0
      BY <2>1 DEF CountFacts
    <2> QED
      BY <1>1, <2>2
         DEF RetireInv, FlagInv, EndInv, SafeInv, UseInv, QuietInv, NoUseAfterFree
  <1>2. ASSUME RetireInv, EndInv, ~early PROVE LeaseIsGranted
    BY <1>2, Granted, LiveIsFacts DEF EndInv, SafeInv, RetireInv
  <1>3. RetireInv /\ EndInv => SafeUntilEarly
    BY <1>1, <1>2 DEF SafeUntilEarly
  <1> QED
    BY <1>3, EndInvariant, PTL

(* Every variable keeps its type; no counter drops below zero.             *)
THEOREM TreeTypeCorrect == Spec => []TypeOK
  <1>1. RetireInv /\ EndInv => TypeOK
    BY DEF RetireInv, CountInv, PathInv, HandlesInv, SlotsInv, UsersInv,
       InflightInv,
           ActiveInv, FlagInv, EndInv, LiveInv, TypeOK
  <1> QED
    BY <1>1, EndInvariant, PTL

-----------------------------------------------------------------------------
(* RootLife takes the steps of TreeLife: a scope is created, it retires,   *)
(* the root is closed, the root is freed.                                  *)
LEMMA TreeStutters ==
  ASSUME UNCHANGED <<rootAlive, closing, retired>>,
         \A s \in Scopes : (handles[s] > 0 \/ closed[s]) <=> (handles[s] > 0 \/ closed[s])'
  PROVE  UNCHANGED Tree!vars
  BY DEF Live, Tree!vars

LEMMA TreeStep ==
  ASSUME RetireInv, EndInv, ~early, NEW t \in Threads, Begin(t) \/ Continue(t)
  PROVE  [Tree!Next]_(Tree!vars)
  <1>0. PathInv /\ CountFacts /\ FlagInv /\ LiveFacts
    BY CountsAreFacts, LiveIsFacts DEF RetireInv, CountInv, EndInv
  <1>1. ASSUME \/ StartPut(t) \/ StartDrop(t) \/ StartRetainDrop(t)
               \/ StartViewDrop(t) \/ StartRootClose(t) \/ LockPut(t)
               \/ UnlockPut(t) \/ SeeFinalizing(t) \/ IncrActive(t)
               \/ ConfirmLease(t) \/ IncrUser(t) \/ Release(t)
               \/ SeeUnheld(t) \/ BeginFlush(t) \/ TryWrite(t) \/ Flush(t)
               \/ Unpin(t) \/ SeeHandles(t) \/ SeeChain(t) \/ SeeUsers(t)
               \/ DecrLive(t) \/ SeeClosing(t) \/ ElectLast(t) \/ Unlock(t)
               \/ EndFlush(t) \/ DecrUser(t) \/ AnyElected(t)
               \/ AnyClosing(t) \/ AnyLive(t) \/ AnyInflight(t)
               \/ AnyActive(t) \/ ElectSelf(t) \/ DropLease(t)
               \/ LoopElected(t) \/ LoopLive(t) \/ LoopInflight(t)
               \/ LoopElect(t) \/ SetFinalizing(t) \/ AwaitActive(t)
               \/ AwaitInflight(t) \/ FlushEntities(t) \/ Unpublish(t)
        PROVE  [Tree!Next]_(Tree!vars)
    <2>1. UNCHANGED <<handles, closed, retired, rootAlive, closing>>
      BY <1>1 DEF StartPut, StartDrop, StartRetainDrop, StartViewDrop,
         StartRootClose, LockPut, UnlockPut, SeeFinalizing, IncrActive,
         ConfirmLease, IncrUser, Release, SeeUnheld, BeginFlush, TryWrite,
         Flush, Unpin, SeeHandles, SeeChain, SeeUsers, DecrLive, SeeClosing,
         ElectLast, Unlock, EndFlush, DecrUser, AnyElected, AnyClosing,
         AnyLive, AnyInflight, AnyActive, ElectSelf, DropLease, LoopElected,
         LoopLive, LoopInflight, LoopElect, SetFinalizing, AwaitActive,
         AwaitInflight, FlushEntities, Unpublish
    <2> QED
      BY <2>1, TreeStutters
  <1>2. CASE CloneScope(t) \/ StartClose(t) \/ DecrHandle(t)
    <2>1. \A s \in Scopes : Created(s) <=> Created(s)'
      BY <1>0, <1>2, HandlesKeepCreated
    <2>2. UNCHANGED <<rootAlive, closing, retired>>
      BY <1>2 DEF CloneScope, StartClose, DecrHandle
    <2> QED
      BY <2>1, <2>2, TreeStutters DEF Created
  <1>3. CASE NewScope(t)
    <2>1. PICK s \in Scopes \ entities : handles' = Plus(handles, s)
      BY <1>3 DEF NewScope
    <2>2. rootAlive /\ ~closing /\ UNCHANGED <<rootAlive, closing, retired, closed>>
      BY <1>3 DEF NewScope
    <2>3. handles[s] = 0 /\ ~closed[s] /\ ~retired[s]
      BY <2>2 DEF RetireInv, EntityInv
    <2>4. \A r \in Scopes : handles'[r] > 0 <=> handles[r] > 0 \/ r = s
      BY <1>0, <2>1, <2>3 DEF CountFacts
    <2>5. Tree!Create(s)
      BY <2>2, <2>3, <2>4 DEF Live, Tree!Create
    <2> QED
      BY <2>5 DEF Tree!Next
  <1>4. CASE MarkRetired(t)
    <2>0. PICK s \in Scopes : s = scope[t]
      BY <1>0, <1>4 DEF MarkRetired, PathInv
    <2>1. /\ retired' = Set(retired, s) /\ s \in entities
          /\ UNCHANGED <<rootAlive, closing, handles, closed>> /\ pc[t] # "idle"
      BY <1>0, <1>4, <2>0 DEF MarkRetired, PathInv, EndInv, SafeInv, UseInv, InScope
    <2>2. handles[s] > 0 \/ closed[s]
      BY <2>1 DEF RetireInv, EntityInv
    <2>3. rootAlive
      BY <2>1 DEF EndInv, SafeInv, QuietInv
    <2>4. CASE retired[s]
      <3>1. retired' = retired
        BY <1>0, <2>1, <2>4 DEF FlagInv
      <3> QED
        BY <2>1, <3>1, TreeStutters
    <2>5. CASE ~retired[s]
      <3>1. \A r \in Scopes : retired'[r] <=> retired[r] \/ r = s
        BY <1>0, <2>1 DEF FlagInv
      <3>2. Tree!Retire(s)
        BY <2>1, <2>2, <2>3, <2>5, <3>1 DEF Live, Tree!Retire
      <3> QED
        BY <3>2 DEF Tree!Next
    <2> QED
      BY <2>4, <2>5
  <1>5. CASE SetClosing(t)
    <2>1. /\ pc[t] = "setClosing" /\ closing' = TRUE
          /\ UNCHANGED <<rootAlive, handles, closed, retired>>
      BY <1>5 DEF SetClosing
    <2>2. rootAlive /\ ~closing
      BY <1>0, <2>1 DEF EndInv, SafeInv, QuietInv, RetireInv, ClosingInv, PathInv
    <2>3. Tree!Close
      BY <2>1, <2>2 DEF Live, Tree!Close
    <2> QED
      BY <2>3 DEF Tree!Next
  <1>6. CASE FreeRoot(t)
    <2>1. /\ pc[t] = "freeRoot" /\ rootAlive' = FALSE
          /\ UNCHANGED <<closing, handles, closed, retired>>
      BY <1>6 DEF FreeRoot
    <2>2. rootAlive /\ closing /\ entities = {}
      BY <2>1 DEF EndInv, SafeInv, QuietInv, RetireInv, ClosingInv, Finalizes
    <2>3. \A s \in Scopes : handles[s] > 0 \/ closed[s] => retired[s]
      BY <1>0, <2>2 DEF EndInv, SafeInv, UseInv, CountFacts
    <2>4. Tree!Free
      BY <2>1, <2>2, <2>3 DEF Live, Tree!Free
    <2> QED
      BY <2>4 DEF Tree!Next
  <1> QED
    BY <1>1, <1>2, <1>3, <1>4, <1>5, <1>6 DEF Begin, Continue

(* The root is freed only after it was closed and every scope of it has    *)
(* retired, for good, and no scope is created once it is closed: the       *)
(* safety part of TreeLife (root_.rs:17-35), up to the step in which a     *)
(* retiring thread is elected over a new scope.                            *)
THEOREM TreeIsKept == Spec => TreeStepsKept
  <1>1. Init => Tree!Init
    BY DEF Init, Live, Tree!Init
  <1>2. RetireInv /\ EndInv /\ [Next]_vars => [early' \/ Tree!Next]_(Tree!vars)
    <2> SUFFICES ASSUME RetireInv, EndInv, [Next]_vars
                 PROVE  [early' \/ Tree!Next]_(Tree!vars)
      OBVIOUS
    <2>1. CASE UNCHANGED vars
      BY <2>1, TreeStutters DEF vars
    <2>2. ASSUME NEW t \in Threads, Begin(t) \/ Continue(t)
          PROVE  [early' \/ Tree!Next]_(Tree!vars)
      BY <2>2, TreeStep, EarlyStays
    <2> QED
      BY <2>1, <2>2 DEF Next
  <1> QED
    BY <1>1, <1>2, EndInvariant, PTL DEF Spec, TreeStepsKept
=============================================================================
