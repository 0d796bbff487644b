--------------------------- MODULE SlotLifeProofs ---------------------------
(***************************************************************************)
(* Theorems about SlotLife for any number of threads, handles and objects. *)
(* All of them need only that the weak count does not wrap.                *)
(***************************************************************************)
EXTENDS SlotLife, FiniteSetTheorems, TLAPS

(* The weak count can count every Retain there may be at one time.         *)
RetainsFit == Cardinality(Retains) < WeakMod

-----------------------------------------------------------------------------
(* The inductive invariant, in parts.                                      *)

(* The write lock is held by the thread that flushes or retires the scope. *)
LockInv ==
    \A t \in Threads :
        /\ pc[t] \in FlushPcs \cup RetirePcs => writer = t
        /\ writer = t => pc[t] \in FlushPcs \cup RetirePcs \cup ClaimPcs

(* What is borrowed exists, and upgrades and view drops do borrow.         *)
BorrowInv ==
    /\ \A t \in Threads :
         /\ borrow[t] \in retained \cup {NoRetain}
         /\ pc[t] \in UpgradePcs \cup {"sharingBack"} => borrow[t] # NoRetain
    /\ \A v \in owning \cup sharing : lender[v] \in retained \cup {NoRetain}

(* The view an upgrade will return is nobody else's.                       *)
ViewInv ==
    /\ \A t \in Threads :
         /\ pc[t] \in UpgradePcs => view[t] \in Views
         /\ view[t] \notin owning \cup sharing
         /\ \A u \in Threads : u # t /\ view[t] \in Views => view[u] # view[t]
    /\ owning \cap sharing = {}

(* The strong count covers the Sharing views that can still be dropped.    *)
Lent == {v \in sharing : lender[v] # NoRetain}
StrongInv == Cardinality(Lent) <= strongCount

(* The weak count is the number of Retains.                                *)
CountInv == weakCount = Cardinality(retained)

(* The drop of the last Retain owns the slot until it returns.             *)
LastDropper(t) ==
    /\ pc[t] \in ClaimPcs \cup {"readWeak", "readState", "tryRelease",
                             "returnSlot", "readAlive"}
    /\ writer # t /\ borrow[t] = NoRetain

DropInv ==
    /\ \A t \in Threads :
         LastDropper(t) => /\ retained = {} /\ dataState # "Reclaimed"
                           /\ \A u \in Threads : LastDropper(u) => u = t
    /\ \A t \in Threads :
         /\ pc[t] \in {"tryRelease", "returnSlot"} => borrow[t] = NoRetain
         /\ pc[t] = "returnSlot" => dataState = "Destroyed"
    /\ retained # {} => dataState # "Reclaimed"

(* Whoever won the claim is alone until the object is marked destroyed.    *)
Claimed(t) == pc[t] \in {"loadChunk", "runDrop", "markDestroyed"}

ClaimInv ==
    /\ \A t \in Threads :
         Claimed(t) => /\ dataState = "Destroying"
                       /\ \A u \in Threads : Claimed(u) => u = t
                       /\ pc[t] # "markDestroyed" => destructions = 0
    /\ IsDataAlive(dataState) => destructions = 0
    /\ destructions <= 1

(* The strong pools are given back when the object in the slot is dead, or *)
(* when no object can come any more.                                       *)
MemoryInv ==
    /\ \A t \in Threads :
         /\ pc[t] = "put" => handles > 0
         /\ pc[t] = "reclaim" /\ allDead => ~IsDataAlive(dataState)
         /\ pc[t] = "readChain" => handles = 0
         /\ pc[t] = "reclaimRest" => handles = 0 /\ dataState = "Reclaimed"
    /\ IsDataAlive(dataState) => chunkMemory

(* One Owning view at most, and the state says that it is there.           *)
OwningInv ==
    /\ \A v, w \in owning : v = w
    /\ owning # {} => dataState = "Owning"

(* So does the state for the Sharing views, until a drop overtakes a join. *)
SharingInv ==
    ~overtaken =>
        /\ \A t \in Threads : pc[t] = "incrStrong" => dataState = "Sharing"
        /\ sharing # {} => dataState = "Sharing"

Rest == TypeOK /\ LockInv /\ BorrowInv /\ ViewInv /\ DropInv /\ ClaimInv
ObjectInv == MemoryInv /\ OwningInv /\ SharingInv
IInv == Rest /\ ObjectInv /\ StrongInv /\ CountInv

(* As long as the scope is open, only the last Retain drop destroys, and   *)
(* it stays with the object until the slot is returned.                    *)
OpenInv ==
    ~closed =>
        /\ \A t \in Threads :
             /\ pc[t] \notin {"scan", "reread", "reclaim"}
             /\ pc[t] \in ClaimPcs \cup {"readState", "tryRelease", "returnSlot"}
                    => LastDropper(t)
             /\ pc[t] = "markDestroyed" => destructions = 1
        /\ dataState # "Reclaimed" => strongChunk /\ chunkMemory
        /\ dataState = "Destroying" => \E t \in Threads : Claimed(t)
        /\ dataState = "Destroyed" =>
             /\ destructions = 1
             /\ \E t \in Threads : pc[t] \in {"tryRelease", "returnSlot"}

-----------------------------------------------------------------------------
(* A set gains one element at most, so its cardinality grows by one at     *)
(* most: CloneRetain and IncrStrong add one handle each.                   *)
LEMMA AtMostOneMore ==
    ASSUME NEW S, IsFiniteSet(S), NEW x, NEW T, T \subseteq S \cup {x}
    PROVE  IsFiniteSet(T) /\ Cardinality(T) <= Cardinality(S) + 1
<1>. /\ Cardinality(S) \in Nat
     /\ Cardinality(S \cup {x}) \in Nat
     /\ IsFiniteSet(S \cup {x})
  BY FS_AddElement, FS_CardinalityType
<1>1. Cardinality(S \cup {x}) <= Cardinality(S) + 1
  BY FS_AddElement
<1>2. IsFiniteSet(T) /\ Cardinality(T) <= Cardinality(S \cup {x})
  BY FS_Subset
<1>. QED  BY <1>1, <1>2, FS_CardinalityType

(* A set loses one element at least: the drops of Retains and views.       *)
LEMMA AtLeastOneLess ==
    ASSUME NEW S, IsFiniteSet(S), NEW x \in S, NEW T, T \subseteq S \ {x}
    PROVE  IsFiniteSet(T) /\ Cardinality(T) + 1 <= Cardinality(S)
<1>1. /\ IsFiniteSet(S \ {x})
      /\ Cardinality(S \ {x}) = Cardinality(S) - 1
  BY FS_RemoveElement
<1>2. IsFiniteSet(T) /\ Cardinality(T) <= Cardinality(S \ {x})
  BY <1>1, FS_Subset
<1>. QED  BY <1>1, <1>2, FS_CardinalityType

USE ConstantsAssumption
    DEF ConstantsAssumption, slotVars, handleVars, scopeVars, ghostVars,
        threadVars, Goto, Proceed, Return, EndFlush, DataStates, IsDataAlive,
        IsClaimable, Pcs, UpgradePcs, ClaimPcs, FlushPcs,
        RetirePcs, GiveHandle, Unheld

(* The sets that are counted are finite.                                   *)
LEMMA Counted ==
    ASSUME TypeOK
    PROVE  /\ IsFiniteSet(retained) /\ Cardinality(retained) \in Nat
           /\ Cardinality(retained) <= Cardinality(Retains)
           /\ IsFiniteSet(Lent) /\ Cardinality(Lent) \in Nat
<1>1. retained \subseteq Retains /\ Lent \subseteq Views
  BY DEF TypeOK, Lent
<1>. QED  BY <1>1, FS_Subset, FS_CardinalityType

(* No Retain is left exactly when the weak count is zero.                  *)
LEMMA CountIsZero ==
    ASSUME TypeOK, CountInv
    PROVE  weakCount = 0 <=> retained = {}
  BY Counted, FS_EmptySet DEF CountInv

(* The free slot that nobody knows yet satisfies the invariant.            *)
LEMMA InitIInv == Init => IInv
<1>. SUFFICES ASSUME Init PROVE IInv
  OBVIOUS
<1>1. Lent = {}
  BY DEF Init, Lent
<1>2. TypeOK
  <2>1. /\ strongChunk \in BOOLEAN /\ chunkMemory \in BOOLEAN
        /\ closed \in BOOLEAN /\ allDead \in BOOLEAN /\ overtaken \in BOOLEAN
    BY Zenon DEF Init
  <2>. QED  BY <2>1 DEF Init, TypeOK
<1>3. StrongInv /\ CountInv
  BY <1>1, FS_EmptySet DEF Init, StrongInv, CountInv
<1>4. LockInv /\ BorrowInv /\ ViewInv
  BY DEF Init, LockInv, BorrowInv, ViewInv
<1>5. DropInv /\ ClaimInv
  BY DEF Init, DropInv, LastDropper, ClaimInv, Claimed
<1>6. MemoryInv /\ OwningInv /\ SharingInv
  BY DEF Init, MemoryInv, OwningInv, SharingInv
<1>. QED  BY <1>2, <1>3, <1>4, <1>5, <1>6 DEF IInv, Rest, ObjectInv

(* The weak count stays the number of Retains.                             *)
LEMMA CountStep ==
    ASSUME RetainsFit, IInv, [Next]_vars
    PROVE  CountInv'
<1>. USE Counted DEF IInv, Rest, CountInv
<1>1. ASSUME NEW t \in Threads, Put(t) PROVE CountInv'
  <2>1. PICK r \in Retains : retained' = {r}
    BY <1>1 DEF Put
  <2>2. Cardinality({r}) = 1
    BY FS_Singleton
  <2>3. Cardinality({r}) <= Cardinality(Retains)
    BY FS_Subset
  <2>4. Cardinality(Retains) \in Nat
    BY FS_CardinalityType
  <2>5. 0 + 1 # WeakMod
    BY <2>2, <2>3, <2>4 DEF RetainsFit
  <2>6. weakCount' = 1
    BY <1>1, <2>5 DEF Put, Incr
  <2>. QED  BY <2>1, <2>2, <2>6
<1>2. ASSUME NEW t \in Threads, CloneRetain(t) PROVE CountInv'
  <2>1. PICK r \in Retains \ retained : retained' = retained \cup {r}
    BY <1>2 DEF CloneRetain
  <2>2. Cardinality(retained') = Cardinality(retained) + 1
    BY <2>1, FS_AddElement
  <2>3. Cardinality(retained') <= Cardinality(Retains)
    BY <2>1, FS_Subset DEF TypeOK
  <2>4. weakCount + 1 # WeakMod
    BY <2>2, <2>3, FS_CardinalityType DEF RetainsFit
  <2>. QED  BY <1>2, <2>2, <2>4 DEF CloneRetain, Incr
<1>3. ASSUME NEW t \in Threads, DropRetain(t) PROVE CountInv'
  <2>1. PICK r \in retained : retained' = retained \ {r}
    BY <1>3 DEF DropRetain
  <2>2. Cardinality(retained') = Cardinality(retained) - 1
    BY <2>1, FS_RemoveElement
  <2>. QED  BY <1>3, <2>1, <2>2, CountIsZero DEF DropRetain, Decr
<1>4. ASSUME NEW t \in Threads, ReturnSlot(t) PROVE CountInv'
  <2>1. retained = {}
    BY <1>4 DEF ReturnSlot, LockInv, DropInv, LastDropper
  <2>2. retained' = {} /\ weakCount' = 0
    BY <1>4, <2>1 DEF ReturnSlot
  <2>. QED  BY <2>2, FS_EmptySet
<1>5. CASE UNCHANGED <<weakCount, retained>>
  BY <1>5
<1>. QED
  BY <1>1, <1>2, <1>3, <1>4, <1>5
     DEF vars, Next, Begin, Continue, PutCheck, StartOwning, StartSharing,
         StartUpgrade, CloneSharing, LeakView, DropOwning, DropSharing,
         CloneScope, DropScope, CloseScope, PutElsewhere, TryOwning,
         TrySharing, ReadSharing, IncrStrong, SharingBack, ReadWeak,
         ReadState, Claim, LoadChunk, RunDrop, MarkDestroyed, TryRelease,
         SeeUnheld, ReadAlive, DropHandle, TryWrite, TryRetire, BeginFlush,
         ScanSlot, RereadSlot, ReclaimStrong, ReadHandles, ReadChain,
         ReclaimRest, Unlock

(* The strong count stays enough for the Sharing views that may be dropped. *)
LEMMA StrongStep ==
    ASSUME IInv, [Next]_vars
    PROVE  StrongInv'
<1>. USE Counted DEF IInv, Rest, TypeOK, StrongInv
<1>1. ASSUME NEW t \in Threads, Put(t) PROVE StrongInv'
  <2>1. Lent = {}
    BY <1>1 DEF Put, Lent, BorrowInv, DropInv
  <2>2. Lent' = Lent
    BY <1>1 DEF Put, Lent
  <2>. QED  BY <1>1, <2>1, <2>2, FS_EmptySet DEF Put
<1>2. ASSUME NEW t \in Threads, IncrStrong(t) PROVE StrongInv'
  <2>1. Lent' \subseteq Lent \cup {view[t]}
    BY <1>2 DEF IncrStrong, Lent, ViewInv
  <2>2. Cardinality(Lent') <= Cardinality(Lent) + 1 /\ Cardinality(Lent') \in Nat
    BY <2>1, AtMostOneMore, FS_CardinalityType
  <2>. QED  BY <1>2, <2>2 DEF IncrStrong
<1>3. ASSUME NEW t \in Threads, CloneSharing(t) PROVE StrongInv'
  <2>1. PICK w \in Views : Lent' \subseteq Lent \cup {w}
    BY <1>3 DEF CloneSharing, Lent
  <2>2. Cardinality(Lent') <= Cardinality(Lent) + 1 /\ Cardinality(Lent') \in Nat
    BY <2>1, AtMostOneMore, FS_CardinalityType
  <2>. QED  BY <1>3, <2>2 DEF CloneSharing
<1>4. ASSUME NEW t \in Threads, DropSharing(t) PROVE StrongInv'
  <2>1. PICK v \in Lent : Lent' \subseteq Lent \ {v}
    BY <1>4 DEF DropSharing, Lent
  <2>2. Cardinality(Lent') + 1 <= Cardinality(Lent) /\ Cardinality(Lent') \in Nat
    BY <2>1, AtLeastOneLess, FS_CardinalityType
  <2>. QED  BY <1>4, <2>2 DEF DropSharing
<1>5. ASSUME NEW t \in Threads, TryOwning(t) \/ LeakView(t) \/ DropOwning(t)
      PROVE  StrongInv'
  <2>1. Lent' \subseteq Lent /\ strongCount' = strongCount
    BY <1>5 DEF TryOwning, LeakView, DropOwning, Lent, ViewInv
  <2>2. Cardinality(Lent') <= Cardinality(Lent) /\ Cardinality(Lent') \in Nat
    BY <2>1, FS_Subset, FS_CardinalityType
  <2>. QED  BY <2>1, <2>2
<1>6. CASE UNCHANGED <<strongCount, sharing, lender>>
  BY <1>6 DEF Lent
<1>. QED
  BY <1>1, <1>2, <1>3, <1>4, <1>5, <1>6
     DEF vars, Next, Begin, Continue, PutCheck, CloneRetain, StartOwning,
         StartSharing, StartUpgrade, DropRetain, CloneScope, DropScope,
         CloseScope, PutElsewhere, TrySharing, ReadSharing, SharingBack,
         ReadWeak, ReadState, Claim, LoadChunk, RunDrop, MarkDestroyed,
         TryRelease, ReturnSlot, SeeUnheld, ReadAlive, DropHandle, TryWrite,
         TryRetire, BeginFlush, ScanSlot, RereadSlot, ReclaimStrong,
         ReadHandles, ReadChain, ReclaimRest, Unlock

(* A Sharing view that can still be dropped has been counted.              *)
LEMMA LentIsCounted ==
    ASSUME TypeOK, StrongInv, Lent # {}
    PROVE  strongCount - 1 \in Nat
  BY Counted, FS_EmptySet DEF TypeOK, StrongInv

(* Every step preserves the rest of the invariant.                         *)
LEMMA RestStep ==
    ASSUME RetainsFit, IInv, [Next]_vars
    PROVE  Rest'
<1>1. CountInv'
  BY CountStep
<1>. USE <1>1 DEF IInv, Rest, TypeOK, LockInv, BorrowInv, ViewInv, DropInv,
                  LastDropper, ClaimInv, Claimed
<1>2. ASSUME NEW t \in Threads, PutCheck(t) PROVE Rest'
  BY <1>2 DEF PutCheck
<1>3. ASSUME NEW t \in Threads, CloneRetain(t) PROVE Rest'
  BY <1>3 DEF CloneRetain, Incr
<1>4. ASSUME NEW t \in Threads, StartOwning(t) PROVE Rest'
  BY <1>4 DEF StartOwning, StartUpgrade, UnusedView
<1>5. ASSUME NEW t \in Threads, StartSharing(t) PROVE Rest'
  BY <1>5 DEF StartSharing, StartUpgrade, UnusedView
<1>6. ASSUME NEW t \in Threads, CloneSharing(t) PROVE Rest'
  BY <1>6 DEF CloneSharing, UnusedView
<1>7. ASSUME NEW t \in Threads, LeakView(t) PROVE Rest'
  BY <1>7 DEF LeakView
<1>8. ASSUME NEW t \in Threads, DropOwning(t) PROVE Rest'
  BY <1>8 DEF DropOwning
<1>9. ASSUME NEW t \in Threads, DropSharing(t) PROVE Rest'
  <2>1. strongCount' \in Nat
    BY <1>9, LentIsCounted DEF DropSharing, Lent
  <2>. QED  BY <1>9, <2>1 DEF DropSharing
<1>10. ASSUME NEW t \in Threads, DropRetain(t) PROVE Rest'
  <2>1. weakCount' = 0 => retained' = {}
    BY Counted, FS_Subset, FS_EmptySet, <1>10 DEF DropRetain, CountInv
  <2>. QED  BY <1>10, <2>1 DEF DropRetain, Decr, Unborrowed
<1>11. ASSUME NEW t \in Threads, CloneScope(t) PROVE Rest'
  BY <1>11 DEF CloneScope
<1>12. ASSUME NEW t \in Threads, DropScope(t) PROVE Rest'
  BY <1>12 DEF DropScope
<1>13. ASSUME NEW t \in Threads, CloseScope(t) PROVE Rest'
  BY <1>13 DEF CloseScope
<1>14. ASSUME NEW t \in Threads, Put(t) PROVE Rest'
  <2>1. strongChunk' \in BOOLEAN /\ chunkMemory' \in BOOLEAN
    BY <1>14, Zenon DEF Put
  <2>. QED  BY <1>14, <2>1 DEF Put, Incr
<1>15. ASSUME NEW t \in Threads, PutElsewhere(t) PROVE Rest'
  BY <1>15 DEF PutElsewhere
<1>16. ASSUME NEW t \in Threads, TryOwning(t) PROVE Rest'
  BY <1>16 DEF TryOwning
<1>17. ASSUME NEW t \in Threads, TrySharing(t) PROVE Rest'
  BY <1>17 DEF TrySharing
<1>18. ASSUME NEW t \in Threads, ReadSharing(t) PROVE Rest'
  BY <1>18 DEF ReadSharing
<1>19. ASSUME NEW t \in Threads, IncrStrong(t) PROVE Rest'
  BY <1>19 DEF IncrStrong
<1>20. ASSUME NEW t \in Threads, SharingBack(t) PROVE Rest'
  <2>1. overtaken' \in BOOLEAN
    BY <1>20, Zenon DEF SharingBack
  <2>. QED  BY <1>20, <2>1 DEF SharingBack
<1>21. ASSUME NEW t \in Threads, ReadWeak(t) PROVE Rest'
  BY <1>21 DEF ReadWeak, AfterClaim
<1>22. ASSUME NEW t \in Threads, ReadState(t) PROVE Rest'
  BY <1>22 DEF ReadState, AfterClaim
<1>23. ASSUME NEW t \in Threads, Claim(t) PROVE Rest'
  BY <1>23 DEF Claim, AfterClaim
<1>24. ASSUME NEW t \in Threads, LoadChunk(t) PROVE Rest'
  BY <1>24 DEF LoadChunk
<1>25. ASSUME NEW t \in Threads, RunDrop(t) PROVE Rest'
  BY <1>25 DEF RunDrop
<1>26. ASSUME NEW t \in Threads, MarkDestroyed(t) PROVE Rest'
  BY <1>26 DEF MarkDestroyed, AfterClaim
<1>27. ASSUME NEW t \in Threads, TryRelease(t) PROVE Rest'
  BY <1>27, CountIsZero DEF TryRelease
<1>28. ASSUME NEW t \in Threads, ReturnSlot(t) PROVE Rest'
  <2>1. strongChunk' \in BOOLEAN
    BY <1>28, Zenon DEF ReturnSlot
  <2>. QED  BY <1>28, <2>1 DEF ReturnSlot
<1>29. ASSUME NEW t \in Threads, SeeUnheld(t) PROVE Rest'
  BY <1>29 DEF SeeUnheld
<1>30. ASSUME NEW t \in Threads, ReadAlive(t) PROVE Rest'
  BY <1>30 DEF ReadAlive
<1>31. ASSUME NEW t \in Threads, DropHandle(t) PROVE Rest'
  BY <1>31 DEF DropHandle
<1>32. ASSUME NEW t \in Threads, TryWrite(t) PROVE Rest'
  BY <1>32 DEF TryWrite
<1>33. ASSUME NEW t \in Threads, TryRetire(t) PROVE Rest'
  BY <1>33 DEF TryRetire
<1>34. ASSUME NEW t \in Threads, BeginFlush(t) PROVE Rest'
  <2>1. allDead' \in BOOLEAN
    BY <1>34, Zenon DEF BeginFlush
  <2>. QED  BY <1>34, <2>1 DEF BeginFlush
<1>35. ASSUME NEW t \in Threads, ScanSlot(t) PROVE Rest'
  <2>1. allDead' \in BOOLEAN
    BY <1>35, Zenon DEF ScanSlot
  <2>. QED  BY <1>35, <2>1 DEF ScanSlot
<1>36. ASSUME NEW t \in Threads, RereadSlot(t) PROVE Rest'
  <2>1. strongChunk' \in BOOLEAN /\ allDead' \in BOOLEAN
    BY <1>36, Zenon DEF RereadSlot
  <2>. QED  BY <1>36, <2>1 DEF RereadSlot
<1>37. ASSUME NEW t \in Threads, ReclaimStrong(t) PROVE Rest'
  <2>1. chunkMemory' \in BOOLEAN
    BY <1>37, Zenon DEF ReclaimStrong
  <2>. QED  BY <1>37, <2>1 DEF ReclaimStrong
<1>38. ASSUME NEW t \in Threads, ReadHandles(t) PROVE Rest'
  BY <1>38 DEF ReadHandles
<1>39. ASSUME NEW t \in Threads, ReadChain(t) PROVE Rest'
  BY <1>39 DEF ReadChain
<1>40. ASSUME NEW t \in Threads, ReclaimRest(t) PROVE Rest'
  <2>1. chunkMemory' \in BOOLEAN
    BY <1>40, Zenon DEF ReclaimRest
  <2>. QED  BY <1>40, <2>1 DEF ReclaimRest
<1>41. ASSUME NEW t \in Threads, Unlock(t) PROVE Rest'
  BY <1>41 DEF Unlock
<1>42. CASE UNCHANGED vars
  BY <1>42 DEF vars
<1>. QED
  BY <1>2, <1>3, <1>4, <1>5, <1>6, <1>7, <1>8, <1>9, <1>10, <1>11, <1>12,
     <1>13, <1>14, <1>15, <1>16, <1>17, <1>18, <1>19, <1>20, <1>21, <1>22,
     <1>23, <1>24, <1>25, <1>26, <1>27, <1>28, <1>29, <1>30, <1>31, <1>32,
     <1>33, <1>34, <1>35, <1>36, <1>37, <1>38, <1>39, <1>40, <1>41, <1>42
     DEF Next, Begin, Continue

(* Every step preserves what the states, the views and the memory say of   *)
(* one another.                                                            *)
LEMMA ObjectStep ==
    ASSUME IInv, [Next]_vars
    PROVE  ObjectInv'
<1>. USE DEF IInv, Rest, TypeOK, LockInv, BorrowInv, ViewInv, DropInv,
             LastDropper, ObjectInv, MemoryInv, OwningInv, SharingInv
<1>1. ASSUME NEW t \in Threads, PutCheck(t) PROVE ObjectInv'
  BY <1>1 DEF PutCheck
<1>2. ASSUME NEW t \in Threads, CloneRetain(t) PROVE ObjectInv'
  BY <1>2 DEF CloneRetain, Incr
<1>3. ASSUME NEW t \in Threads, StartOwning(t) PROVE ObjectInv'
  BY <1>3 DEF StartOwning, StartUpgrade, UnusedView
<1>4. ASSUME NEW t \in Threads, StartSharing(t) PROVE ObjectInv'
  BY <1>4 DEF StartSharing, StartUpgrade, UnusedView
<1>5. ASSUME NEW t \in Threads, CloneSharing(t) PROVE ObjectInv'
  BY <1>5 DEF CloneSharing, UnusedView
<1>6. ASSUME NEW t \in Threads, LeakView(t) PROVE ObjectInv'
  BY <1>6 DEF LeakView
<1>7. ASSUME NEW t \in Threads, DropOwning(t) PROVE ObjectInv'
  BY <1>7 DEF DropOwning
<1>8. ASSUME NEW t \in Threads, DropSharing(t) PROVE ObjectInv'
  BY <1>8 DEF DropSharing
<1>9. ASSUME NEW t \in Threads, DropRetain(t) PROVE ObjectInv'
  BY <1>9 DEF DropRetain, Decr, Unborrowed
<1>10. ASSUME NEW t \in Threads, CloneScope(t) PROVE ObjectInv'
  BY <1>10 DEF CloneScope
<1>11. ASSUME NEW t \in Threads, DropScope(t) PROVE ObjectInv'
  BY <1>11 DEF DropScope
<1>12. ASSUME NEW t \in Threads, CloseScope(t) PROVE ObjectInv'
  BY <1>12 DEF CloseScope
<1>13. ASSUME NEW t \in Threads, Put(t) PROVE ObjectInv'
  BY <1>13 DEF Put, Incr
<1>14. ASSUME NEW t \in Threads, PutElsewhere(t) PROVE ObjectInv'
  BY <1>14 DEF PutElsewhere
<1>15. ASSUME NEW t \in Threads, TryOwning(t) PROVE ObjectInv'
  BY <1>15 DEF TryOwning
<1>16. ASSUME NEW t \in Threads, TrySharing(t) PROVE ObjectInv'
  BY <1>16 DEF TrySharing
<1>17. ASSUME NEW t \in Threads, ReadSharing(t) PROVE ObjectInv'
  BY <1>17 DEF ReadSharing
<1>18. ASSUME NEW t \in Threads, IncrStrong(t) PROVE ObjectInv'
  BY <1>18 DEF IncrStrong
<1>19. ASSUME NEW t \in Threads, SharingBack(t) PROVE ObjectInv'
  BY <1>19 DEF SharingBack, Joined
<1>20. ASSUME NEW t \in Threads, ReadWeak(t) PROVE ObjectInv'
  BY <1>20 DEF ReadWeak, AfterClaim
<1>21. ASSUME NEW t \in Threads, ReadState(t) PROVE ObjectInv'
  BY <1>21 DEF ReadState, AfterClaim
<1>22. ASSUME NEW t \in Threads, Claim(t) PROVE ObjectInv'
  BY <1>22 DEF Claim, AfterClaim
<1>23. ASSUME NEW t \in Threads, LoadChunk(t) PROVE ObjectInv'
  BY <1>23 DEF LoadChunk
<1>24. ASSUME NEW t \in Threads, RunDrop(t) PROVE ObjectInv'
  BY <1>24 DEF RunDrop
<1>25. ASSUME NEW t \in Threads, MarkDestroyed(t) PROVE ObjectInv'
  BY <1>25 DEF MarkDestroyed, AfterClaim
<1>26. ASSUME NEW t \in Threads, TryRelease(t) PROVE ObjectInv'
  BY <1>26 DEF TryRelease
<1>27. ASSUME NEW t \in Threads, ReturnSlot(t) PROVE ObjectInv'
  BY <1>27 DEF ReturnSlot
<1>28. ASSUME NEW t \in Threads, SeeUnheld(t) PROVE ObjectInv'
  BY <1>28 DEF SeeUnheld
<1>29. ASSUME NEW t \in Threads, ReadAlive(t) PROVE ObjectInv'
  BY <1>29 DEF ReadAlive
<1>30. ASSUME NEW t \in Threads, DropHandle(t) PROVE ObjectInv'
  BY <1>30 DEF DropHandle
<1>31. ASSUME NEW t \in Threads, TryWrite(t) PROVE ObjectInv'
  BY <1>31 DEF TryWrite
<1>32. ASSUME NEW t \in Threads, TryRetire(t) PROVE ObjectInv'
  BY <1>32 DEF TryRetire
<1>33. ASSUME NEW t \in Threads, BeginFlush(t) PROVE ObjectInv'
  BY <1>33 DEF BeginFlush
<1>34. ASSUME NEW t \in Threads, ScanSlot(t) PROVE ObjectInv'
  <2>1. allDead' => dataState \notin {"Owning", "Sharing"}
    BY <1>34, Zenon DEF ScanSlot
  <2>2. pc'[t] = "reclaim" => dataState # "Created"
    BY <1>34 DEF ScanSlot
  <2>. QED  BY <1>34, <2>1, <2>2 DEF ScanSlot
<1>35. ASSUME NEW t \in Threads, RereadSlot(t) PROVE ObjectInv'
  BY <1>35 DEF RereadSlot
<1>36. ASSUME NEW t \in Threads, ReclaimStrong(t) PROVE ObjectInv'
  BY <1>36 DEF ReclaimStrong
<1>37. ASSUME NEW t \in Threads, ReadHandles(t) PROVE ObjectInv'
  BY <1>37 DEF ReadHandles
<1>38. ASSUME NEW t \in Threads, ReadChain(t) PROVE ObjectInv'
  BY <1>38 DEF ReadChain
<1>39. ASSUME NEW t \in Threads, ReclaimRest(t) PROVE ObjectInv'
  BY <1>39 DEF ReclaimRest
<1>40. ASSUME NEW t \in Threads, Unlock(t) PROVE ObjectInv'
  BY <1>40 DEF Unlock
<1>41. CASE UNCHANGED vars
  BY <1>41 DEF vars
<1>. QED
  BY <1>1, <1>2, <1>3, <1>4, <1>5, <1>6, <1>7, <1>8, <1>9, <1>10, <1>11,
     <1>12, <1>13, <1>14, <1>15, <1>16, <1>17, <1>18, <1>19, <1>20, <1>21,
     <1>22, <1>23, <1>24, <1>25, <1>26, <1>27, <1>28, <1>29, <1>30, <1>31,
     <1>32, <1>33, <1>34, <1>35, <1>36, <1>37, <1>38, <1>39, <1>40, <1>41
     DEF Next, Begin, Continue

(* The invariant holds in every behaviour.                                 *)
THEOREM Invariance ==
    ASSUME RetainsFit
    PROVE  Spec => []IInv
<1>1. Init => IInv
  BY InitIInv
<1>2. IInv /\ [Next]_vars => IInv'
  BY CountStep, StrongStep, RestStep, ObjectStep DEF IInv
<1>. QED  BY <1>1, <1>2, PTL DEF Spec

(* The variables keep their types; the strong count does not underflow.    *)
THEOREM TypeCorrect ==
    ASSUME RetainsFit
    PROVE  Spec => []TypeOK
<1>1. IInv => TypeOK
  BY DEF IInv, Rest
<1>. QED  BY <1>1, Invariance, PTL

(* No object is destroyed twice, however many threads drop views and       *)
(* Retains and flush at the same time.                                     *)
THEOREM DestroyedOnceHolds ==
    ASSUME RetainsFit
    PROVE  Spec => []DestroyedOnce
<1>1. IInv => DestroyedOnce
  BY DEF IInv, Rest, ClaimInv, DestroyedOnce
<1>. QED  BY <1>1, Invariance, PTL

(* A slot that went back to its pool is used by nobody, as long as the     *)
(* weak count has room for every Retain.                                   *)
THEOREM NoUseAfterReturnHolds ==
    ASSUME RetainsFit
    PROVE  Spec => []NoUseAfterReturn
<1>1. IInv => NoUseAfterReturn
  BY DEF IInv, Rest, LockInv, BorrowInv, DropInv, LastDropper, ClaimInv,
         Claimed, UsesSlot, NoUseAfterReturn
<1>. QED  BY <1>1, Invariance, PTL

(* A claimed object stays claimed until the slot is reused.                *)
THEOREM NoRevivalHolds == Spec => NoRevival
<1>1. [Next]_vars =>
        [~IsDataAlive(dataState) /\ dataState # "Reclaimed"
            => ~IsDataAlive(dataState')]_vars
  BY DEF vars, Next, Begin, Continue, PutCheck, CloneRetain, StartOwning,
         StartSharing, StartUpgrade, CloneSharing, LeakView, DropOwning,
         DropSharing, DropRetain, CloneScope, DropScope, CloseScope, Put,
         PutElsewhere, TryOwning, TrySharing, ReadSharing, IncrStrong,
         SharingBack, ReadWeak, ReadState, Claim, LoadChunk, RunDrop,
         MarkDestroyed, TryRelease, ReturnSlot, SeeUnheld, ReadAlive,
         DropHandle, TryWrite, TryRetire, BeginFlush, ScanSlot, RereadSlot,
         ReclaimStrong, ReadHandles, ReadChain, ReclaimRest, Unlock
<1>. QED  BY <1>1, PTL DEF Spec, NoRevival

-----------------------------------------------------------------------------
(* Whatever the Sharing views do, an Owning view is the only one of its    *)
(* kind, and its object is intact though the scope be closed.              *)
THEOREM OwningIntactHolds ==
    ASSUME RetainsFit
    PROVE  Spec => []OwningIntact
<1>1. IInv => OwningIntact
  BY DEF IInv, Rest, TypeOK, ClaimInv, ObjectInv, MemoryInv, OwningInv,
         OwningIntact, Intact
<1>. QED  BY <1>1, Invariance, PTL

(* Only the CAS of Sharing::drop that overtakes a join can put an Owning   *)
(* view beside another view, or expose the object under a view to a        *)
(* closing scope.                                                          *)
THEOREM ViewsKeptUntilOvertakenHolds ==
    ASSUME RetainsFit
    PROVE  Spec => []ViewsKeptUntilOvertaken
<1>1. IInv /\ ~overtaken => ViewsExclusive
  BY DEF IInv, ObjectInv, OwningInv, SharingInv, ViewsExclusive
<1>2. IInv /\ ~overtaken => ViewDataIntact
  BY DEF IInv, Rest, ClaimInv, ObjectInv, MemoryInv, OwningInv, SharingInv,
         ViewDataIntact, Intact
<1>3. IInv => ViewsKeptUntilOvertaken
  BY <1>1, <1>2 DEF ViewsKeptUntilOvertaken
<1>. QED  BY <1>3, Invariance, PTL

-----------------------------------------------------------------------------
(* Until the scope is closed, every step preserves that no flush scans and *)
(* that the dead object has its last dropper.                              *)
LEMMA OpenStep ==
    ASSUME IInv, OpenInv, [Next]_vars
    PROVE  OpenInv'
<1>. USE CountIsZero DEF IInv, Rest, TypeOK, LockInv, BorrowInv,
         DropInv, LastDropper, ClaimInv, Claimed, ObjectInv, MemoryInv,
         OpenInv
<1>1. ASSUME NEW t \in Threads, PutCheck(t) PROVE OpenInv'
  BY <1>1 DEF PutCheck
<1>2. ASSUME NEW t \in Threads, CloneRetain(t) PROVE OpenInv'
  BY <1>2 DEF CloneRetain, Incr
<1>3. ASSUME NEW t \in Threads, StartOwning(t) PROVE OpenInv'
  BY <1>3 DEF StartOwning, StartUpgrade, UnusedView
<1>4. ASSUME NEW t \in Threads, StartSharing(t) PROVE OpenInv'
  BY <1>4 DEF StartSharing, StartUpgrade, UnusedView
<1>5. ASSUME NEW t \in Threads, CloneSharing(t) PROVE OpenInv'
  BY <1>5 DEF CloneSharing, UnusedView
<1>6. ASSUME NEW t \in Threads, LeakView(t) PROVE OpenInv'
  BY <1>6 DEF LeakView
<1>7. ASSUME NEW t \in Threads, DropOwning(t) PROVE OpenInv'
  BY <1>7 DEF DropOwning
<1>8. ASSUME NEW t \in Threads, DropSharing(t) PROVE OpenInv'
  BY <1>8 DEF DropSharing
<1>9. ASSUME NEW t \in Threads, DropRetain(t) PROVE OpenInv'
  BY <1>9 DEF DropRetain, Decr, Unborrowed
<1>10. ASSUME NEW t \in Threads, CloneScope(t) PROVE OpenInv'
  BY <1>10 DEF CloneScope
<1>11. ASSUME NEW t \in Threads, DropScope(t) PROVE OpenInv'
  BY <1>11 DEF DropScope
<1>12. ASSUME NEW t \in Threads, CloseScope(t) PROVE OpenInv'
  BY <1>12 DEF CloseScope
<1>13. ASSUME NEW t \in Threads, Put(t) PROVE OpenInv'
  BY <1>13 DEF Put, Incr
<1>14. ASSUME NEW t \in Threads, PutElsewhere(t) PROVE OpenInv'
  BY <1>14 DEF PutElsewhere
<1>15. ASSUME NEW t \in Threads, TryOwning(t) PROVE OpenInv'
  BY <1>15 DEF TryOwning
<1>16. ASSUME NEW t \in Threads, TrySharing(t) PROVE OpenInv'
  BY <1>16 DEF TrySharing
<1>17. ASSUME NEW t \in Threads, ReadSharing(t) PROVE OpenInv'
  BY <1>17 DEF ReadSharing
<1>18. ASSUME NEW t \in Threads, IncrStrong(t) PROVE OpenInv'
  BY <1>18 DEF IncrStrong
<1>19. ASSUME NEW t \in Threads, SharingBack(t) PROVE OpenInv'
  BY <1>19 DEF SharingBack, Joined
<1>20. ASSUME NEW t \in Threads, ReadWeak(t) PROVE OpenInv'
  BY <1>20 DEF ReadWeak, AfterClaim
<1>21. ASSUME NEW t \in Threads, ReadState(t) PROVE OpenInv'
  BY <1>21 DEF ReadState, AfterClaim
<1>22. ASSUME NEW t \in Threads, Claim(t) PROVE OpenInv'
  BY <1>22 DEF Claim, AfterClaim
<1>23. ASSUME NEW t \in Threads, LoadChunk(t) PROVE OpenInv'
  BY <1>23 DEF LoadChunk
<1>24. ASSUME NEW t \in Threads, RunDrop(t) PROVE OpenInv'
  BY <1>24 DEF RunDrop
<1>25. ASSUME NEW t \in Threads, MarkDestroyed(t) PROVE OpenInv'
  BY <1>25 DEF MarkDestroyed, AfterClaim
<1>26. ASSUME NEW t \in Threads, TryRelease(t) PROVE OpenInv'
  BY <1>26 DEF TryRelease
<1>27. ASSUME NEW t \in Threads, ReturnSlot(t) PROVE OpenInv'
  BY <1>27 DEF ReturnSlot
<1>28. ASSUME NEW t \in Threads, SeeUnheld(t) PROVE OpenInv'
  BY <1>28 DEF SeeUnheld
<1>29. ASSUME NEW t \in Threads, ReadAlive(t) PROVE OpenInv'
  BY <1>29 DEF ReadAlive
<1>30. ASSUME NEW t \in Threads, DropHandle(t) PROVE OpenInv'
  BY <1>30 DEF DropHandle
<1>31. ASSUME NEW t \in Threads, TryWrite(t) PROVE OpenInv'
  BY <1>31 DEF TryWrite
<1>32. ASSUME NEW t \in Threads, TryRetire(t) PROVE OpenInv'
  BY <1>32 DEF TryRetire
<1>33. ASSUME NEW t \in Threads, BeginFlush(t) PROVE OpenInv'
  BY <1>33 DEF BeginFlush
<1>34. ASSUME NEW t \in Threads, ScanSlot(t) PROVE OpenInv'
  BY <1>34 DEF ScanSlot
<1>35. ASSUME NEW t \in Threads, RereadSlot(t) PROVE OpenInv'
  BY <1>35 DEF RereadSlot
<1>36. ASSUME NEW t \in Threads, ReclaimStrong(t) PROVE OpenInv'
  BY <1>36 DEF ReclaimStrong
<1>37. ASSUME NEW t \in Threads, ReadHandles(t) PROVE OpenInv'
  BY <1>37 DEF ReadHandles
<1>38. ASSUME NEW t \in Threads, ReadChain(t) PROVE OpenInv'
  BY <1>38 DEF ReadChain
<1>39. ASSUME NEW t \in Threads, ReclaimRest(t) PROVE OpenInv'
  BY <1>39 DEF ReclaimRest
<1>40. ASSUME NEW t \in Threads, Unlock(t) PROVE OpenInv'
  BY <1>40 DEF Unlock
<1>41. CASE UNCHANGED vars
  BY <1>41 DEF vars
<1>. QED
  BY <1>1, <1>2, <1>3, <1>4, <1>5, <1>6, <1>7, <1>8, <1>9, <1>10, <1>11,
     <1>12, <1>13, <1>14, <1>15, <1>16, <1>17, <1>18, <1>19, <1>20, <1>21,
     <1>22, <1>23, <1>24, <1>25, <1>26, <1>27, <1>28, <1>29, <1>30, <1>31,
     <1>32, <1>33, <1>34, <1>35, <1>36, <1>37, <1>38, <1>39, <1>40, <1>41
     DEF Next, Begin, Continue

(* The invariant of an open scope holds in every behaviour.                *)
THEOREM OpenInvariance ==
    ASSUME RetainsFit
    PROVE  Spec => []OpenInv
<1>1. Init => OpenInv
  BY DEF Init, OpenInv
<1>2. IInv /\ OpenInv /\ [Next]_vars => OpenInv'
  BY OpenStep
<1>. QED  BY <1>1, <1>2, Invariance, PTL DEF Spec

(* As long as the scope is open, a destructor runs in the memory of its    *)
(* chunk.                                                                  *)
THEOREM OpenDestructorOnLiveChunkHolds ==
    ASSUME RetainsFit
    PROVE  Spec => []OpenDestructorOnLiveChunk
<1>1. IInv /\ OpenInv => OpenDestructorOnLiveChunk
  BY DEF IInv, Rest, ClaimInv, Claimed, OpenInv, OpenDestructorOnLiveChunk,
         DestructorOnLiveChunk
<1>. QED  BY <1>1, Invariance, OpenInvariance, PTL

(* As long as the scope is open, the object under a view that is in use is *)
(* intact, overtaken joins or not.                                         *)
THEOREM OpenViewDataIntactHolds ==
    ASSUME RetainsFit
    PROVE  Spec => []OpenViewDataIntact
<1>1. IInv /\ OpenInv => OpenViewDataIntact
  <2>. SUFFICES ASSUME IInv, OpenInv, ~closed, NEW v \in Views, InUse(v)
               PROVE  IsDataAlive(dataState) /\ Intact
    BY DEF OpenViewDataIntact
  <2>1. retained # {}
    BY DEF InUse, IInv, Rest, TypeOK, BorrowInv
  <2>2. dataState # "Reclaimed"
    BY <2>1 DEF IInv, Rest, DropInv
  <2>3. \A t \in Threads : ~LastDropper(t)
    BY <2>1 DEF IInv, Rest, DropInv
  <2>4. dataState \notin {"Destroying", "Destroyed"}
    BY <2>3 DEF OpenInv, Claimed
  <2>. QED
    BY <2>2, <2>4
       DEF IInv, Rest, TypeOK, ClaimInv, ObjectInv, MemoryInv, Intact
<1>. QED  BY <1>1, Invariance, OpenInvariance, PTL

(* As long as the scope is open, no destructor is skipped.                 *)
THEOREM OpenDestroyedExactlyOnceHolds ==
    ASSUME RetainsFit
    PROVE  Spec => []OpenDestroyedExactlyOnce
<1>1. OpenInv => OpenDestroyedExactlyOnce
  BY DEF OpenInv, OpenDestroyedExactlyOnce
<1>. QED  BY <1>1, OpenInvariance, PTL

-----------------------------------------------------------------------------
(* Each count of a Sharing view has its view, though it may be leaked.     *)
ShareInv == strongCount <= Cardinality(sharing)

(* An object is kept by a view or by somebody who will go on: the state    *)
(* Owning has its view, Sharing its count or a thread on its way to or     *)
(* from it, and without a Retain there is one who is about to claim.       *)
KeepInv ==
    /\ dataState = "Owning" => owning # {}
    /\ dataState = "Sharing" /\ strongCount = 0
         => \E t \in Threads : pc[t] \in {"incrStrong", "sharingBack"}
    /\ ~closed /\ retained = {} /\ dataState = "Created"
         => \E t \in Threads : pc[t] \in {"readWeak", "readState", "claim"}

(* A view comes with each increment and goes with each decrement.          *)
LEMMA ShareStep ==
    ASSUME IInv, ShareInv, [Next]_vars
    PROVE  ShareInv'
<1>. USE DEF IInv, Rest, TypeOK, ShareInv
<1>1. IsFiniteSet(sharing) /\ Cardinality(sharing) \in Nat
  BY FS_Subset, FS_CardinalityType
<1>2. ASSUME NEW w, w \notin sharing, sharing' = sharing \cup {w},
             strongCount' = strongCount + 1
      PROVE  ShareInv'
  <2>1. Cardinality(sharing') = Cardinality(sharing) + 1
    BY <1>1, <1>2, FS_AddElement
  <2>. QED  BY <1>1, <1>2, <2>1
<1>3. ASSUME NEW t \in Threads, IncrStrong(t) PROVE ShareInv'
  BY <1>2, <1>3 DEF IncrStrong, ViewInv
<1>4. ASSUME NEW t \in Threads, CloneSharing(t) PROVE ShareInv'
  <2>1. PICK w \in Views : UnusedView(w) /\ sharing' = sharing \cup {w}
    BY <1>4 DEF CloneSharing
  <2>. QED  BY <1>2, <1>4, <2>1 DEF CloneSharing, UnusedView
<1>5. ASSUME NEW t \in Threads, DropSharing(t) PROVE ShareInv'
  <2>1. PICK v \in sharing : sharing' = sharing \ {v}
    BY <1>5 DEF DropSharing
  <2>2. Cardinality(sharing') = Cardinality(sharing) - 1
    BY <1>1, <2>1, FS_RemoveElement
  <2>. QED  BY <1>1, <1>5, <2>2 DEF DropSharing
<1>6. ASSUME NEW t \in Threads, Put(t) PROVE ShareInv'
  BY <1>1, <1>6 DEF Put
<1>7. CASE UNCHANGED <<strongCount, sharing>>
  BY <1>7
<1>. QED
  BY <1>3, <1>4, <1>5, <1>6, <1>7
     DEF vars, Next, Begin, Continue, PutCheck, CloneRetain, StartOwning,
         StartSharing, StartUpgrade, LeakView, DropOwning, DropRetain,
         CloneScope, DropScope, CloseScope, PutElsewhere, TryOwning,
         TrySharing, ReadSharing, SharingBack, ReadWeak, ReadState, Claim,
         LoadChunk, RunDrop, MarkDestroyed, TryRelease, ReturnSlot,
         SeeUnheld, ReadAlive, DropHandle, TryWrite, TryRetire, BeginFlush,
         ScanSlot, RereadSlot, ReclaimStrong, ReadHandles, ReadChain,
         ReclaimRest, Unlock

(* Whoever leaves an object leaves it to somebody.                         *)
LEMMA KeepStep ==
    ASSUME RetainsFit, IInv, KeepInv, [Next]_vars
    PROVE  KeepInv'
<1>0. retained' = {} => weakCount' = 0
  BY CountStep, FS_EmptySet DEF CountInv
<1>. USE CountIsZero DEF IInv, Rest, TypeOK, LockInv, BorrowInv, DropInv,
         LastDropper, OwningInv, ObjectInv, KeepInv
<1>1. ASSUME NEW t \in Threads, PutCheck(t) PROVE KeepInv'
  BY <1>1 DEF PutCheck
<1>2. ASSUME NEW t \in Threads, CloneRetain(t) PROVE KeepInv'
  BY <1>2 DEF CloneRetain, Incr
<1>3. ASSUME NEW t \in Threads, StartOwning(t) PROVE KeepInv'
  BY <1>3 DEF StartOwning, StartUpgrade
<1>4. ASSUME NEW t \in Threads, StartSharing(t) PROVE KeepInv'
  BY <1>4 DEF StartSharing, StartUpgrade
<1>5. ASSUME NEW t \in Threads, CloneSharing(t) PROVE KeepInv'
  BY <1>5 DEF CloneSharing
<1>6. ASSUME NEW t \in Threads, LeakView(t) PROVE KeepInv'
  BY <1>6 DEF LeakView
<1>7. ASSUME NEW t \in Threads, DropOwning(t) PROVE KeepInv'
  BY <1>7 DEF DropOwning
<1>8. ASSUME NEW t \in Threads, DropSharing(t) PROVE KeepInv'
  BY <1>8 DEF DropSharing
<1>9. ASSUME NEW t \in Threads, DropRetain(t) PROVE KeepInv'
  BY <1>0, <1>9 DEF DropRetain
<1>10. ASSUME NEW t \in Threads, CloneScope(t) PROVE KeepInv'
  BY <1>10 DEF CloneScope
<1>11. ASSUME NEW t \in Threads, DropScope(t) PROVE KeepInv'
  BY <1>11 DEF DropScope
<1>12. ASSUME NEW t \in Threads, CloseScope(t) PROVE KeepInv'
  BY <1>12 DEF CloseScope
<1>13. ASSUME NEW t \in Threads, Put(t) PROVE KeepInv'
  BY <1>13 DEF Put, Incr
<1>14. ASSUME NEW t \in Threads, PutElsewhere(t) PROVE KeepInv'
  BY <1>14 DEF PutElsewhere
<1>15. ASSUME NEW t \in Threads, TryOwning(t) PROVE KeepInv'
  BY <1>15 DEF TryOwning
<1>16. ASSUME NEW t \in Threads, TrySharing(t) PROVE KeepInv'
  BY <1>16 DEF TrySharing
<1>17. ASSUME NEW t \in Threads, ReadSharing(t) PROVE KeepInv'
  BY <1>17 DEF ReadSharing
<1>18. ASSUME NEW t \in Threads, IncrStrong(t) PROVE KeepInv'
  BY <1>18 DEF IncrStrong
<1>19. ASSUME NEW t \in Threads, SharingBack(t) PROVE KeepInv'
  BY <1>19 DEF SharingBack, Joined
<1>20. ASSUME NEW t \in Threads, ReadWeak(t) PROVE KeepInv'
  BY <1>20 DEF ReadWeak, AfterClaim
<1>21. ASSUME NEW t \in Threads, ReadState(t) PROVE KeepInv'
  BY <1>21 DEF ReadState, AfterClaim
<1>22. ASSUME NEW t \in Threads, Claim(t) PROVE KeepInv'
  BY <1>22 DEF Claim, AfterClaim
<1>23. ASSUME NEW t \in Threads, LoadChunk(t) PROVE KeepInv'
  BY <1>23 DEF LoadChunk
<1>24. ASSUME NEW t \in Threads, RunDrop(t) PROVE KeepInv'
  BY <1>24 DEF RunDrop
<1>25. ASSUME NEW t \in Threads, MarkDestroyed(t) PROVE KeepInv'
  BY <1>25 DEF MarkDestroyed, AfterClaim
<1>26. ASSUME NEW t \in Threads, TryRelease(t) PROVE KeepInv'
  BY <1>26 DEF TryRelease
<1>27. ASSUME NEW t \in Threads, ReturnSlot(t) PROVE KeepInv'
  BY <1>27 DEF ReturnSlot
<1>28. ASSUME NEW t \in Threads, SeeUnheld(t) PROVE KeepInv'
  BY <1>28 DEF SeeUnheld
<1>29. ASSUME NEW t \in Threads, ReadAlive(t) PROVE KeepInv'
  BY <1>29 DEF ReadAlive
<1>30. ASSUME NEW t \in Threads, DropHandle(t) PROVE KeepInv'
  BY <1>30 DEF DropHandle
<1>31. ASSUME NEW t \in Threads, TryWrite(t) PROVE KeepInv'
  BY <1>31 DEF TryWrite
<1>32. ASSUME NEW t \in Threads, TryRetire(t) PROVE KeepInv'
  BY <1>32 DEF TryRetire
<1>33. ASSUME NEW t \in Threads, BeginFlush(t) PROVE KeepInv'
  BY <1>33 DEF BeginFlush
<1>34. ASSUME NEW t \in Threads, ScanSlot(t) PROVE KeepInv'
  BY <1>34 DEF ScanSlot
<1>35. ASSUME NEW t \in Threads, RereadSlot(t) PROVE KeepInv'
  BY <1>35 DEF RereadSlot
<1>36. ASSUME NEW t \in Threads, ReclaimStrong(t) PROVE KeepInv'
  BY <1>36 DEF ReclaimStrong
<1>37. ASSUME NEW t \in Threads, ReadHandles(t) PROVE KeepInv'
  BY <1>37 DEF ReadHandles
<1>38. ASSUME NEW t \in Threads, ReadChain(t) PROVE KeepInv'
  BY <1>38 DEF ReadChain
<1>39. ASSUME NEW t \in Threads, ReclaimRest(t) PROVE KeepInv'
  BY <1>39 DEF ReclaimRest
<1>40. ASSUME NEW t \in Threads, Unlock(t) PROVE KeepInv'
  BY <1>40 DEF Unlock
<1>41. CASE UNCHANGED vars
  BY <1>41 DEF vars
<1>. QED
  BY <1>1, <1>2, <1>3, <1>4, <1>5, <1>6, <1>7, <1>8, <1>9, <1>10, <1>11,
     <1>12, <1>13, <1>14, <1>15, <1>16, <1>17, <1>18, <1>19, <1>20, <1>21,
     <1>22, <1>23, <1>24, <1>25, <1>26, <1>27, <1>28, <1>29, <1>30, <1>31,
     <1>32, <1>33, <1>34, <1>35, <1>36, <1>37, <1>38, <1>39, <1>40, <1>41
     DEF Next, Begin, Continue

(* As long as the scope is open and everybody has returned, a slot without *)
(* Retains is free, or keeps an object under a leaked view.                *)
THEOREM OpenSlotIsFreedHolds ==
    ASSUME RetainsFit
    PROVE  Spec => []OpenSlotIsFreed
<1>1. Init => ShareInv /\ KeepInv
  BY FS_EmptySet DEF Init, ShareInv, KeepInv
<1>2. IInv /\ ShareInv /\ KeepInv /\ [Next]_vars => ShareInv' /\ KeepInv'
  BY ShareStep, KeepStep
<1>3. ASSUME IInv, OpenInv, ShareInv, KeepInv PROVE OpenSlotIsFreed
  <2>1. sharing = {} => strongCount = 0
    BY <1>3, FS_EmptySet DEF IInv, Rest, TypeOK, ShareInv
  <2>. QED
    BY <1>3, <2>1
       DEF IInv, Rest, TypeOK, OpenInv, Claimed, KeepInv, OpenSlotIsFreed, AtRest
<1>. QED  BY <1>1, <1>2, <1>3, Invariance, OpenInvariance, PTL DEF Spec
=============================================================================
