--------------------------- MODULE RootSlotProofs ---------------------------
(***************************************************************************)
(* One thread at a time sets a root up, a published root is complete, and  *)
(* a finalisation takes no root but its own out of the slot: for any       *)
(* number of threads, roots, objects and types.                            *)
(*                                                                         *)
(* The slot tells who owns the root in it. A root that is not in the slot  *)
(* belongs to the thread that makes it or frees it (mine); the one in the  *)
(* slot to its references, its scopes, or the one thread that finalises it,*)
(* and that thread exists only when the root is closing and has neither a  *)
(* scope left nor one on its way.                                          *)
(***************************************************************************)
EXTENDS RootSlot, SequenceTheorems, TLAPS

MakingPcs     == {"register", "create"}
DestroyingPcs == {"lookup", "hook", "drop"}

(* The part of the type invariant that this needs.                         *)
Typed ==
    /\ slot \in Roots \cup {Null, Sentinel}
    /\ storage \in [Roots -> {"unused", "raw", "ready", "freed"}]
    /\ hasTable \subseteq Roots /\ closing \subseteq Roots
    /\ got \in [Threads -> Roots \cup {NoRoot}]
    /\ container \in [Objects -> Roots \cup Objects \cup {NoRoot}]
    /\ type \in [Objects -> Types]
    /\ life \in [Objects -> {"unused", "placed", "live", "dying", "dead"}]
    /\ retired \subseteq Objects
    /\ pc \in [Threads -> Pcs]
    /\ mine \in [Threads -> Roots \cup {NoRoot}]
    /\ object \in [Threads -> Objects \cup {NoObject}]

(* Each object that is being made or destroyed has one thread that does it.*)
WorkInv ==
    /\ \A t \in Threads :
         /\ object[t] # NoObject <=> pc[t] \in MakingPcs \cup DestroyingPcs
         /\ pc[t] \in MakingPcs => life[object[t]] = "placed"
         /\ pc[t] \in DestroyingPcs => life[object[t]] = "dying"
    /\ \A t, u \in Threads : object[t] = object[u] => t = u \/ object[t] = NoObject

(* The root that a thread makes or finalises is its own.                   *)
Unfinished(r) == \E o \in Objects : /\ type[o] = EntityType /\ life[o] = "live"
                                    /\ o \notin retired /\ container[o] = r

MineInv ==
    /\ \A t \in Threads :
         /\ mine[t] # NoRoot => pc[t] \in {"makeTable", "publish", "rollBack"}
                                            \cup FinalizePcs \cup DestroyingPcs
         /\ pc[t] \in {"makeTable", "publish"} \cup FinalizePcs => mine[t] # NoRoot
         /\ pc[t] = "makeTable" => storage[mine[t]] = "raw"
         /\ mine[t] # NoRoot /\ pc[t] = "rollBack" => storage[mine[t]] = "freed"
         /\ mine[t] # NoRoot /\ pc[t] \notin {"makeTable", "rollBack"}
              => storage[mine[t]] = "ready"
         /\ pc[t] = "publish" => mine[t] \in hasTable
         /\ mine[t] # NoRoot /\ pc[t] \in (FinalizePcs \ {"free"}) \cup DestroyingPcs
              => slot = mine[t] /\ mine[t] \in closing /\ ~Unfinished(mine[t])
         /\ pc[t] = "free" => slot # mine[t]
    /\ \A t, u \in Threads : mine[t] = mine[u] => t = u \/ mine[t] = NoRoot

(* The root in the slot is the one that is used.                           *)
ScopeInv ==
    /\ slot \in Roots \ closing => slot \in hasTable
    /\ \A o \in Objects :
         type[o] = EntityType /\ life[o] = "live" /\ o \notin retired
           => container[o] \in Roots /\ slot = container[o]
    /\ \A t \in Threads : pc[t] \in MakingPcs =>
         /\ container[object[t]] \notin closing
         /\ type[object[t]] = EntityType
              => container[object[t]] \in Roots /\ slot = container[object[t]]

SlotInv == /\ Typed /\ WorkInv /\ MineInv /\ ScopeInv
           /\ OneInitialiser /\ PublishedIsReady /\ NoRootLost

USE RootSlotAssumption DEF InitPcs, SetupPcs, FinalizePcs, Pcs, MakingPcs,
                           DestroyingPcs
-----------------------------------------------------------------------------
(* Initialising: the sentinel decides who does it.                         *)
LEMMA StartInitKeeps == ASSUME SlotInv, NEW t \in Threads, StartInit(t) PROVE SlotInv'
  <1> USE DEF SlotInv, StartInit, Proceed, Goto, rootVars, objectVars,
              threadVars
  <1>0. \A r : Unfinished(r)' => Unfinished(r)
    BY DEF Typed, WorkInv, Unfinished
  <1>1. Typed'
    BY DEF Typed
  <1>2. WorkInv'
    BY DEF Typed, WorkInv
  <1>3. MineInv'
    BY <1>0 DEF Typed, MineInv
  <1>4. ScopeInv'
    BY DEF Typed, ScopeInv
  <1>5. OneInitialiser'
    BY DEF Typed, OneInitialiser
  <1>6. PublishedIsReady'
    BY DEF Typed, PublishedIsReady
  <1>7. NoRootLost'
    BY DEF Typed, NoRootLost
  <1> QED
    BY <1>1, <1>2, <1>3, <1>4, <1>5, <1>6, <1>7

LEMMA LoadSlotKeeps == ASSUME SlotInv, NEW t \in Threads, LoadSlot(t) PROVE SlotInv'
  <1> USE DEF SlotInv, LoadSlot, Proceed, Goto, Return, Spinning, rootVars,
              objectVars, threadVars
  <1>0. \A r : Unfinished(r)' => Unfinished(r)
    BY DEF Typed, WorkInv, Unfinished
  <1>1. Typed'
    BY DEF Typed
  <1>2. WorkInv'
    BY DEF Typed, WorkInv
  <1>3. MineInv'
    BY <1>0 DEF Typed, MineInv
  <1>4. ScopeInv'
    BY DEF Typed, ScopeInv
  <1>5. OneInitialiser'
    BY DEF Typed, OneInitialiser
  <1>6. PublishedIsReady'
    BY DEF Typed, WorkInv, ScopeInv, PublishedIsReady
  <1>7. NoRootLost'
    BY DEF Typed, NoRootLost
  <1> QED
    BY <1>1, <1>2, <1>3, <1>4, <1>5, <1>6, <1>7

LEMMA CasSlotKeeps == ASSUME SlotInv, NEW t \in Threads, CasSlot(t) PROVE SlotInv'
  <1> USE DEF SlotInv, CasSlot, Proceed, Goto, objectVars, rootVars,
              threadVars
  <1>0. \A r : Unfinished(r)' => Unfinished(r)
    BY DEF Typed, WorkInv, Unfinished
  <1>1. Typed'
    BY DEF Typed
  <1>2. WorkInv'
    BY DEF Typed, WorkInv
  <1>3. MineInv'
    BY <1>0 DEF Typed, MineInv
  <1>4. ScopeInv'
    BY DEF Typed, ScopeInv
  <1>5. OneInitialiser'
    BY DEF Typed, OneInitialiser
  <1>6. PublishedIsReady'
    BY DEF Typed, PublishedIsReady
  <1>7. NoRootLost'
    BY DEF Typed, NoRootLost
  <1> QED
    BY <1>1, <1>2, <1>3, <1>4, <1>5, <1>6, <1>7

LEMMA AllocateKeeps == ASSUME SlotInv, NEW t \in Threads, Allocate(t) PROVE SlotInv'
  <1> USE DEF SlotInv, Allocate, Goto, Proceed, objectVars, rootVars,
              threadVars
  <1>0. \A r : Unfinished(r)' => Unfinished(r)
    BY DEF Typed, WorkInv, Unfinished
  <1>1. Typed'
    BY DEF Typed
  <1>2. WorkInv'
    BY DEF Typed, WorkInv
  <1>3. MineInv'
    BY <1>0 DEF Typed, MineInv
  <1>4. ScopeInv'
    BY DEF Typed, ScopeInv
  <1>5. OneInitialiser'
    BY DEF Typed, OneInitialiser
  <1>6. PublishedIsReady'
    BY DEF Typed, PublishedIsReady
  <1>7. NoRootLost'
    BY DEF Typed, NoRootLost
  <1> QED
    BY <1>1, <1>2, <1>3, <1>4, <1>5, <1>6, <1>7

LEMMA MakeTableKeeps == ASSUME SlotInv, NEW t \in Threads, MakeTable(t) PROVE SlotInv'
  <1> USE DEF SlotInv, MakeTable, Proceed, Goto, objectVars, rootVars,
              threadVars
  <1>0. \A r : Unfinished(r)' => Unfinished(r)
    BY DEF Typed, WorkInv, Unfinished
  <1>1. Typed'
    BY DEF Typed, MineInv
  <1>2. WorkInv'
    BY DEF Typed, WorkInv
  <1>3. MineInv'
    BY <1>0 DEF Typed, MineInv
  <1>4. ScopeInv'
    BY DEF Typed, ScopeInv
  <1>5. OneInitialiser'
    BY DEF Typed, OneInitialiser
  <1>6. PublishedIsReady'
    BY DEF Typed, MineInv, PublishedIsReady
  <1>7. NoRootLost'
    BY DEF Typed, NoRootLost
  <1> QED
    BY <1>1, <1>2, <1>3, <1>4, <1>5, <1>6, <1>7

LEMMA PublishKeeps == ASSUME SlotInv, NEW t \in Threads, Publish(t) PROVE SlotInv'
  <1> USE DEF SlotInv, Publish, Return, Goto, objectVars, rootVars, threadVars
  <1>0. \A r : Unfinished(r)' => Unfinished(r)
    BY DEF Typed, WorkInv, Unfinished
  <1>1. Typed'
    BY DEF Typed, MineInv
  <1>2. WorkInv'
    BY DEF Typed, WorkInv
  <1>3. MineInv'
    BY <1>0 DEF Typed, MineInv, OneInitialiser, PublishedIsReady
  <1>4. ScopeInv'
    BY DEF Typed, MineInv, OneInitialiser, PublishedIsReady, ScopeInv
  <1>5. OneInitialiser'
    BY DEF Typed, MineInv, OneInitialiser
  <1>6. PublishedIsReady'
    BY DEF Typed, MineInv, OneInitialiser, PublishedIsReady
  <1>7. NoRootLost'
    BY DEF Typed, MineInv, OneInitialiser, PublishedIsReady, NoRootLost
  <1> QED
    BY <1>1, <1>2, <1>3, <1>4, <1>5, <1>6, <1>7

LEMMA RollBackKeeps == ASSUME SlotInv, NEW t \in Threads, RollBack(t) PROVE SlotInv'
  <1> USE DEF SlotInv, RollBack, Return, Goto, objectVars, rootVars,
              threadVars
  <1>0. \A r : Unfinished(r)' => Unfinished(r)
    BY DEF Typed, WorkInv, Unfinished
  <1>1. Typed'
    BY DEF Typed
  <1>2. WorkInv'
    BY DEF Typed, WorkInv
  <1>3. MineInv'
    BY <1>0 DEF Typed, MineInv, OneInitialiser, PublishedIsReady
  <1>4. ScopeInv'
    BY DEF Typed, MineInv, OneInitialiser, PublishedIsReady, ScopeInv
  <1>5. OneInitialiser'
    BY DEF Typed, OneInitialiser
  <1>6. PublishedIsReady'
    BY DEF Typed, MineInv, OneInitialiser, PublishedIsReady
  <1>7. NoRootLost'
    BY DEF Typed, MineInv, OneInitialiser, PublishedIsReady, NoRootLost
  <1> QED
    BY <1>1, <1>2, <1>3, <1>4, <1>5, <1>6, <1>7

-----------------------------------------------------------------------------
(* Getting and putting away references.                                    *)
LEMMA StartGetKeeps == ASSUME SlotInv, NEW t \in Threads, StartGet(t) PROVE SlotInv'
  <1> USE DEF SlotInv, StartGet, Proceed, Goto, rootVars, objectVars,
              threadVars
  <1>0. \A r : Unfinished(r)' => Unfinished(r)
    BY DEF Typed, WorkInv, Unfinished
  <1>1. Typed'
    BY DEF Typed
  <1>2. WorkInv'
    BY DEF Typed, WorkInv
  <1>3. MineInv'
    BY <1>0 DEF Typed, MineInv
  <1>4. ScopeInv'
    BY DEF Typed, ScopeInv
  <1>5. OneInitialiser'
    BY DEF Typed, OneInitialiser
  <1>6. PublishedIsReady'
    BY DEF Typed, PublishedIsReady
  <1>7. NoRootLost'
    BY DEF Typed, NoRootLost
  <1> QED
    BY <1>1, <1>2, <1>3, <1>4, <1>5, <1>6, <1>7

LEMMA LoadGetKeeps == ASSUME SlotInv, NEW t \in Threads, LoadGet(t) PROVE SlotInv'
  <1> USE DEF SlotInv, LoadGet, Return, Goto, Spinning, rootVars, objectVars,
              threadVars
  <1>0. \A r : Unfinished(r)' => Unfinished(r)
    BY DEF Typed, WorkInv, Unfinished
  <1>1. Typed'
    BY DEF Typed
  <1>2. WorkInv'
    BY DEF Typed, WorkInv
  <1>3. MineInv'
    BY <1>0 DEF Typed, MineInv
  <1>4. ScopeInv'
    BY DEF Typed, ScopeInv
  <1>5. OneInitialiser'
    BY DEF Typed, OneInitialiser
  <1>6. PublishedIsReady'
    BY DEF Typed, WorkInv, ScopeInv, PublishedIsReady
  <1>7. NoRootLost'
    BY DEF Typed, NoRootLost
  <1> QED
    BY <1>1, <1>2, <1>3, <1>4, <1>5, <1>6, <1>7

LEMMA PutAwayKeeps == ASSUME SlotInv, NEW t \in Threads, PutAway(t) PROVE SlotInv'
  <1> USE DEF SlotInv, PutAway, rootVars, objectVars, threadVars
  <1>0. \A r : Unfinished(r)' => Unfinished(r)
    BY DEF Typed, WorkInv, Unfinished
  <1>1. Typed'
    BY DEF Typed
  <1>2. WorkInv'
    BY DEF Typed, WorkInv
  <1>3. MineInv'
    BY <1>0 DEF Typed, MineInv
  <1>4. ScopeInv'
    BY DEF Typed, ScopeInv
  <1>5. OneInitialiser'
    BY DEF Typed, OneInitialiser
  <1>6. PublishedIsReady'
    BY DEF Typed, PublishedIsReady
  <1>7. NoRootLost'
    BY DEF Typed, NoRootLost
  <1> QED
    BY <1>1, <1>2, <1>3, <1>4, <1>5, <1>6, <1>7

-----------------------------------------------------------------------------
(* Making objects, each by a thread of its own.                            *)
LEMMA PlaceScopeKeeps == ASSUME SlotInv, NEW t \in Threads, PlaceScope(t) PROVE SlotInv'
  <1> USE DEF SlotInv, PlaceScope, Place, Goto, Filling, rootVars
  <1>0. \A r : Unfinished(r)' => Unfinished(r)
    BY DEF Typed, WorkInv, Unfinished
  <1>1. Typed'
    BY DEF Typed, EntityType, Types, UserTypes
  <1>2. WorkInv'
    BY DEF Typed, WorkInv
  <1>3. MineInv'
    BY <1>0 DEF Typed, MineInv
  <1>4. ScopeInv'
    BY DEF Typed, MineInv, OneInitialiser, PublishedIsReady, ScopeInv
  <1>5. OneInitialiser'
    BY DEF Typed, OneInitialiser
  <1>6. PublishedIsReady'
    BY DEF Typed, PublishedIsReady
  <1>7. NoRootLost'
    BY DEF Typed, NoRootLost
  <1> QED
    BY <1>1, <1>2, <1>3, <1>4, <1>5, <1>6, <1>7

LEMMA PlaceObjectKeeps == ASSUME SlotInv, NEW t \in Threads, PlaceObject(t) PROVE SlotInv'
  <1> USE DEF SlotInv, PlaceObject, Scopes, Place, Goto, Filling, rootVars
  <1>0. \A r : Unfinished(r)' => Unfinished(r)
    BY DEF Typed, WorkInv, Unfinished
  <1>1. Typed'
    BY DEF Typed, EntityType, Types, UserTypes
  <1>2. WorkInv'
    BY DEF Typed, WorkInv
  <1>3. MineInv'
    BY <1>0 DEF Typed, MineInv
  <1>4. ScopeInv'
    <2>1. PICK s \in Scopes, o \in Objects, ty \in UserTypes : Place(t, o, s, ty)
      OBVIOUS
    <2>2. ty # EntityType /\ s \in Objects /\ s \notin Roots /\ life[o] = "unused"
      BY <2>1 DEF EntityType, UserTypes
    <2>3. \A u \in Threads \ {t} : pc[u] \in MakingPcs => object[u] \in Objects \ {o}
      BY <2>2 DEF Typed, WorkInv
    <2> QED
      BY <2>1, <2>2, <2>3 DEF Typed, ScopeInv, Types
  <1>5. OneInitialiser'
    BY DEF Typed, OneInitialiser
  <1>6. PublishedIsReady'
    BY DEF Typed, PublishedIsReady
  <1>7. NoRootLost'
    BY DEF Typed, NoRootLost
  <1> QED
    BY <1>1, <1>2, <1>3, <1>4, <1>5, <1>6, <1>7

LEMMA RegisterKeeps == ASSUME SlotInv, NEW t \in Threads, Register(t) PROVE SlotInv'
  <1> USE DEF SlotInv, Register, Proceed, Goto, objectVars, rootVars,
              threadVars
  <1>0. \A r : Unfinished(r)' => Unfinished(r)
    BY DEF Typed, WorkInv, Unfinished
  <1>1. Typed'
    BY DEF Typed
  <1>2. WorkInv'
    BY DEF Typed, WorkInv
  <1>3. MineInv'
    BY <1>0 DEF Typed, MineInv
  <1>4. ScopeInv'
    BY DEF Typed, ScopeInv
  <1>5. OneInitialiser'
    BY DEF Typed, OneInitialiser
  <1>6. PublishedIsReady'
    BY DEF Typed, PublishedIsReady
  <1>7. NoRootLost'
    BY DEF Typed, NoRootLost
  <1> QED
    BY <1>1, <1>2, <1>3, <1>4, <1>5, <1>6, <1>7

LEMMA CreateKeeps == ASSUME SlotInv, NEW t \in Threads, Create(t) PROVE SlotInv'
  <1> USE DEF SlotInv, Create, Return, Goto, rootVars
  <1>1. Typed'
    BY DEF Typed
  <1>2. WorkInv'
    BY DEF Typed, WorkInv
  <1>3. MineInv'
    BY DEF Typed, WorkInv, ScopeInv, MineInv, Unfinished
  <1>4. ScopeInv'
    BY DEF Typed, ScopeInv
  <1>5. OneInitialiser'
    BY DEF Typed, OneInitialiser
  <1>6. PublishedIsReady'
    BY DEF Typed, PublishedIsReady
  <1>7. NoRootLost'
    BY DEF Typed, NoRootLost
  <1> QED
    BY <1>1, <1>2, <1>3, <1>4, <1>5, <1>6, <1>7

-----------------------------------------------------------------------------
(* Destroying objects.                                                     *)
LEMMA ClaimKeeps == ASSUME SlotInv, NEW t \in Threads, Claim(t) PROVE SlotInv'
  <1> USE DEF SlotInv, Claim, Goto, rootVars
  <1>0. \A r : Unfinished(r)' => Unfinished(r)
    BY DEF Typed, WorkInv, Unfinished
  <1>1. Typed'
    BY DEF Typed
  <1>2. WorkInv'
    BY DEF Typed, WorkInv
  <1>3. MineInv'
    BY <1>0 DEF Typed, MineInv
  <1>4. ScopeInv'
    BY DEF Typed, ScopeInv
  <1>5. OneInitialiser'
    BY DEF Typed, OneInitialiser
  <1>6. PublishedIsReady'
    BY DEF Typed, PublishedIsReady
  <1>7. NoRootLost'
    BY DEF Typed, NoRootLost
  <1> QED
    BY <1>1, <1>2, <1>3, <1>4, <1>5, <1>6, <1>7

LEMMA LookupKeeps == ASSUME SlotInv, NEW t \in Threads, Lookup(t) PROVE SlotInv'
  <1> USE DEF SlotInv, Lookup, Goto, AfterDestroy, Return, rootVars
  <1>8. /\ pc[t] = "lookup"
        /\ \/ /\ Goto(t, "hook") \/ Goto(t, "drop")
              /\ UNCHANGED <<mine, object, life>>
           \/ life' = [life EXCEPT ![object[t]] = "dead"] /\ AfterDestroy(t)
        /\ UNCHANGED <<rootVars, container, type, retired, got>>
    OBVIOUS
  <1> HIDE DEF Lookup
  <1>0. \A r : Unfinished(r)' => Unfinished(r)
    BY <1>8 DEF Typed, WorkInv, Unfinished
  <1>1. Typed'
    BY <1>8 DEF Typed
  <1>2. WorkInv'
    BY <1>8 DEF Typed, WorkInv
  <1>3. MineInv'
    BY <1>8, <1>0 DEF Typed, MineInv
  <1>4. ScopeInv'
    BY <1>8 DEF Typed, ScopeInv
  <1>5. OneInitialiser'
    BY <1>8 DEF Typed, OneInitialiser
  <1>6. PublishedIsReady'
    BY <1>8 DEF Typed, PublishedIsReady
  <1>7. NoRootLost'
    BY <1>8 DEF Typed, NoRootLost
  <1> QED
    BY <1>1, <1>2, <1>3, <1>4, <1>5, <1>6, <1>7

LEMMA RunHookKeeps == ASSUME SlotInv, NEW t \in Threads, RunHook(t) PROVE SlotInv'
  <1> USE DEF SlotInv, RunHook, Proceed, Goto, rootVars
  <1>0. \A r : Unfinished(r)' => Unfinished(r)
    BY DEF Typed, WorkInv, Unfinished
  <1>1. Typed'
    BY DEF Typed
  <1>2. WorkInv'
    BY DEF Typed, WorkInv
  <1>3. MineInv'
    BY <1>0 DEF Typed, MineInv
  <1>4. ScopeInv'
    BY DEF Typed, ScopeInv
  <1>5. OneInitialiser'
    BY DEF Typed, OneInitialiser
  <1>6. PublishedIsReady'
    BY DEF Typed, PublishedIsReady
  <1>7. NoRootLost'
    BY DEF Typed, NoRootLost
  <1> QED
    BY <1>1, <1>2, <1>3, <1>4, <1>5, <1>6, <1>7

LEMMA RunDropKeeps == ASSUME SlotInv, NEW t \in Threads, RunDrop(t) PROVE SlotInv'
  <1> USE DEF SlotInv, RunDrop, AfterDestroy, Goto, Return, rootVars
  <1>0. \A r : Unfinished(r)' => Unfinished(r)
    BY DEF Typed, WorkInv, Unfinished
  <1>1. Typed'
    BY DEF Typed
  <1>2. WorkInv'
    BY DEF Typed, WorkInv
  <1>3. MineInv'
    BY <1>0 DEF Typed, MineInv
  <1>4. ScopeInv'
    BY DEF Typed, ScopeInv
  <1>5. OneInitialiser'
    BY DEF Typed, OneInitialiser
  <1>6. PublishedIsReady'
    BY DEF Typed, PublishedIsReady
  <1>7. NoRootLost'
    BY DEF Typed, NoRootLost
  <1> QED
    BY <1>1, <1>2, <1>3, <1>4, <1>5, <1>6, <1>7

-----------------------------------------------------------------------------
(* The end of a root: one thread takes it over, and only when it is closing.*)
(* No scope is left in it, and none is on its way.                         *)
LEMMA RetireKeeps == ASSUME SlotInv, NEW t \in Threads, Retire(t) PROVE SlotInv'
  <1> USE DEF SlotInv, Retire, Finalize, Goto, LastOf, Scopes, Filling,
              rootVars, threadVars, objectVars
  <1>0. \A r : Unfinished(r)' => Unfinished(r)
    BY DEF Typed, WorkInv, Unfinished
  <1>9. ASSUME pc'[t] # "idle"
        PROVE  /\ slot \in Roots \cap closing /\ Unfinished(slot) /\ ~Unfinished(slot)'
               /\ mine' = [mine EXCEPT ![t] = slot] /\ pc' = [pc EXCEPT ![t] = "flush"]
    BY <1>9 DEF Typed, ScopeInv, Unfinished
  <1>1. Typed'
    BY DEF Typed
  <1>2. WorkInv'
    BY DEF Typed, WorkInv
  <1>3. MineInv'
    BY <1>0, <1>9 DEF Typed, MineInv, OneInitialiser, PublishedIsReady
  <1>4. ScopeInv'
    BY DEF Typed, ScopeInv
  <1>5. OneInitialiser'
    BY DEF Typed, OneInitialiser
  <1>6. PublishedIsReady'
    BY DEF Typed, PublishedIsReady
  <1>7. NoRootLost'
    BY DEF Typed, NoRootLost
  <1> QED
    BY <1>1, <1>2, <1>3, <1>4, <1>5, <1>6, <1>7

LEMMA StartCloseKeeps == ASSUME SlotInv, NEW t \in Threads, StartClose(t) PROVE SlotInv'
  <1> USE DEF SlotInv, StartClose, Proceed, Goto, rootVars, objectVars,
              threadVars
  <1>0. \A r : Unfinished(r)' => Unfinished(r)
    BY DEF Typed, WorkInv, Unfinished
  <1>1. Typed'
    BY DEF Typed
  <1>2. WorkInv'
    BY DEF Typed, WorkInv
  <1>3. MineInv'
    BY <1>0 DEF Typed, MineInv
  <1>4. ScopeInv'
    BY DEF Typed, ScopeInv
  <1>5. OneInitialiser'
    BY DEF Typed, OneInitialiser
  <1>6. PublishedIsReady'
    BY DEF Typed, PublishedIsReady
  <1>7. NoRootLost'
    BY DEF Typed, NoRootLost
  <1> QED
    BY <1>1, <1>2, <1>3, <1>4, <1>5, <1>6, <1>7

LEMMA CloseKeeps == ASSUME SlotInv, NEW t \in Threads, Close(t) PROVE SlotInv'
  <1> USE DEF SlotInv, Close, Return, Goto, Spinning, Finalize, LastOf,
              Scopes, Filling, objectVars, rootVars, threadVars
  <1>0. \A r : Unfinished(r)' => Unfinished(r)
    BY DEF Typed, WorkInv, Unfinished
  <1>1. Typed'
    BY DEF Typed
  <1>2. WorkInv'
    BY DEF Typed, WorkInv
  <1>3. MineInv'
    <2>1. CASE slot \in Roots \ closing /\ LastOf(slot, {})
      <3>1. ~Unfinished(slot)'
        BY <2>1 DEF Typed, Unfinished
      <3>2. \A u \in Threads : mine[u] # slot
        BY <2>1 DEF Typed, MineInv, OneInitialiser, PublishedIsReady
      <3> QED
        BY <1>0, <2>1, <3>1, <3>2 DEF Typed, MineInv, PublishedIsReady
    <2>2. CASE ~(slot \in Roots \ closing /\ LastOf(slot, {}))
      BY <1>0, <2>2 DEF Typed, MineInv
    <2> QED
      BY <2>1, <2>2
  <1>4. ScopeInv'
    BY DEF Typed, ScopeInv
  <1>5. OneInitialiser'
    BY DEF Typed, OneInitialiser
  <1>6. PublishedIsReady'
    BY DEF Typed, PublishedIsReady
  <1>7. NoRootLost'
    BY DEF Typed, NoRootLost
  <1> QED
    BY <1>1, <1>2, <1>3, <1>4, <1>5, <1>6, <1>7

LEMMA FlushEntityKeeps == ASSUME SlotInv, NEW t \in Threads, FlushEntity(t) PROVE SlotInv'
  <1> USE DEF SlotInv, FlushEntity, Goto, rootVars
  <1>0. \A r : Unfinished(r)' => Unfinished(r)
    BY DEF Typed, WorkInv, Unfinished
  <1>1. Typed'
    BY DEF Typed
  <1>2. WorkInv'
    BY DEF Typed, WorkInv
  <1>3. MineInv'
    BY <1>0 DEF Typed, MineInv
  <1>4. ScopeInv'
    BY DEF Typed, ScopeInv
  <1>5. OneInitialiser'
    BY DEF Typed, OneInitialiser
  <1>6. PublishedIsReady'
    BY DEF Typed, PublishedIsReady
  <1>7. NoRootLost'
    BY DEF Typed, NoRootLost
  <1> QED
    BY <1>1, <1>2, <1>3, <1>4, <1>5, <1>6, <1>7

LEMMA FlushDoneKeeps == ASSUME SlotInv, NEW t \in Threads, FlushDone(t) PROVE SlotInv'
  <1> USE DEF SlotInv, FlushDone, Proceed, Goto, rootVars, objectVars,
              threadVars
  <1>0. \A r : Unfinished(r)' => Unfinished(r)
    BY DEF Typed, WorkInv, Unfinished
  <1>1. Typed'
    BY DEF Typed
  <1>2. WorkInv'
    BY DEF Typed, WorkInv
  <1>3. MineInv'
    BY <1>0 DEF Typed, MineInv
  <1>4. ScopeInv'
    BY DEF Typed, ScopeInv
  <1>5. OneInitialiser'
    BY DEF Typed, OneInitialiser
  <1>6. PublishedIsReady'
    BY DEF Typed, PublishedIsReady
  <1>7. NoRootLost'
    BY DEF Typed, NoRootLost
  <1> QED
    BY <1>1, <1>2, <1>3, <1>4, <1>5, <1>6, <1>7

LEMMA DropTableKeeps == ASSUME SlotInv, NEW t \in Threads, DropTable(t) PROVE SlotInv'
  <1> USE DEF SlotInv, DropTable, Proceed, Goto, objectVars, rootVars,
              threadVars
  <1>0. \A r : Unfinished(r)' => Unfinished(r)
    BY DEF Typed, WorkInv, Unfinished
  <1>1. Typed'
    BY DEF Typed
  <1>2. WorkInv'
    BY DEF Typed, WorkInv
  <1>3. MineInv'
    BY <1>0 DEF Typed, MineInv
  <1>4. ScopeInv'
    BY DEF Typed, MineInv, ScopeInv
  <1>5. OneInitialiser'
    BY DEF Typed, OneInitialiser
  <1>6. PublishedIsReady'
    BY DEF Typed, MineInv, PublishedIsReady
  <1>7. NoRootLost'
    BY DEF Typed, NoRootLost
  <1> QED
    BY <1>1, <1>2, <1>3, <1>4, <1>5, <1>6, <1>7

LEMMA ClearSlotKeeps == ASSUME SlotInv, NEW t \in Threads, ClearSlot(t) PROVE SlotInv'
  <1> USE DEF SlotInv, ClearSlot, Proceed, Goto, objectVars, rootVars,
              threadVars
  <1>0. \A r : Unfinished(r)' => Unfinished(r)
    BY DEF Typed, WorkInv, Unfinished
  <1>1. Typed'
    BY DEF Typed
  <1>2. WorkInv'
    BY DEF Typed, WorkInv
  <1>3. MineInv'
    BY <1>0 DEF Typed, MineInv
  <1>4. ScopeInv'
    <2>1. slot = mine[t] /\ mine[t] \in Roots \cap closing /\ ~Unfinished(mine[t])
      BY DEF Typed, MineInv
    <2>2. \A o \in Objects : type[o] = EntityType /\ life[o] = "live" => o \in retired
      BY <2>1 DEF ScopeInv, Unfinished
    <2> QED
      BY <2>1, <2>2 DEF Typed, WorkInv, ScopeInv
  <1>5. OneInitialiser'
    BY DEF Typed, MineInv, OneInitialiser
  <1>6. PublishedIsReady'
    BY DEF Typed, MineInv, PublishedIsReady
  <1>7. NoRootLost'
    BY DEF Typed, MineInv, NoRootLost
  <1> QED
    BY <1>1, <1>2, <1>3, <1>4, <1>5, <1>6, <1>7

LEMMA FreeRootKeeps == ASSUME SlotInv, NEW t \in Threads, FreeRoot(t) PROVE SlotInv'
  <1> USE DEF SlotInv, FreeRoot, Return, Goto, objectVars, rootVars,
              threadVars
  <1>0. \A r : Unfinished(r)' => Unfinished(r)
    BY DEF Typed, WorkInv, Unfinished
  <1>1. Typed'
    BY DEF Typed
  <1>2. WorkInv'
    BY DEF Typed, WorkInv
  <1>3. MineInv'
    BY <1>0 DEF Typed, MineInv
  <1>4. ScopeInv'
    BY DEF Typed, ScopeInv
  <1>5. OneInitialiser'
    BY DEF Typed, OneInitialiser
  <1>6. PublishedIsReady'
    BY DEF Typed, MineInv, PublishedIsReady
  <1>7. NoRootLost'
    BY DEF Typed, NoRootLost
  <1> QED
    BY <1>1, <1>2, <1>3, <1>4, <1>5, <1>6, <1>7

-----------------------------------------------------------------------------
LEMMA InitSlotInv == Init => SlotInv
  BY DEF Init, SlotInv, Typed, WorkInv, MineInv, ScopeInv, OneInitialiser,
         PublishedIsReady, NoRootLost, Unfinished, Types

LEMMA NextSlotInv == SlotInv /\ [Next]_vars => SlotInv'
  <1> SUFFICES ASSUME SlotInv, [Next]_vars PROVE SlotInv'
    OBVIOUS
  <1>1. CASE UNCHANGED vars
    BY <1>1 DEF vars, rootVars, objectVars, threadVars, SlotInv, Typed, WorkInv,
           MineInv, ScopeInv, OneInitialiser, PublishedIsReady, NoRootLost,
           Unfinished
  <1>2. ASSUME NEW t \in Threads, Begin(t) PROVE SlotInv'
    BY <1>2, StartInitKeeps, StartGetKeeps, PutAwayKeeps, PlaceScopeKeeps,
       PlaceObjectKeeps, ClaimKeeps, RetireKeeps, StartCloseKeeps DEF Begin
  <1>3. ASSUME NEW t \in Threads, Continue(t) PROVE SlotInv'
    BY <1>3, LoadSlotKeeps, CasSlotKeeps, AllocateKeeps, MakeTableKeeps,
       PublishKeeps, RollBackKeeps, LoadGetKeeps, RegisterKeeps, CreateKeeps,
       LookupKeeps, RunHookKeeps, RunDropKeeps, CloseKeeps, FlushEntityKeeps,
       FlushDoneKeeps, DropTableKeeps, ClearSlotKeeps, FreeRootKeeps
       DEF Continue
  <1> QED
    BY <1>1, <1>2, <1>3 DEF Next

(* The invariant of the slot: who owns each root, and what a thread that   *)
(* is in the middle of a call has made sure of.                            *)
THEOREM SlotInvariant == Spec => []SlotInv
  BY InitSlotInv, NextSlotInv, PTL DEF Spec

(* One thread sets a root up at a time, and it is the one the sentinel in  *)
(* the slot stands for (try_init_in).                                      *)
THEOREM OneThreadInitialises == Spec => []OneInitialiser
  <1>1. SlotInv => OneInitialiser
    BY DEF SlotInv
  <1> QED
    BY <1>1, SlotInvariant, PTL

(* A published root is complete, and so is one that somebody has got and   *)
(* nobody has closed (get).                                                *)
THEOREM PublishedRootIsReady == Spec => []PublishedIsReady
  <1>1. SlotInv => PublishedIsReady
    BY DEF SlotInv
  <1> QED
    BY <1>1, SlotInvariant, PTL

(* A finalisation takes no root but its own out of the slot, and no memory *)
(* of a root is lost (finalize_, try_init_in).                             *)
THEOREM NoRootIsLost == Spec => []NoRootLost
  <1>1. SlotInv => NoRootLost
    BY DEF SlotInv
  <1> QED
    BY <1>1, SlotInvariant, PTL

-----------------------------------------------------------------------------
(***************************************************************************)
(* Every object is destroyed once, by the destructors of its own type, and *)
(* before the memory of its root goes.                                     *)
(*                                                                         *)
(* Whatever is alive is in the root that the slot holds: a user object     *)
(* keeps its scope from retiring, a scope its root from being finalised.   *)
(* So its type is still registered when its destruction looks it up, and   *)
(* the entry found is that of its type, since the key is the type.         *)
(***************************************************************************)
Alive == {"live", "dying"}
Entries == {EntryOf(ty) : ty \in Types}

(* Where the objects are, and who is at work on them.                      *)
HomeInv ==
    /\ \A o \in Objects :
         /\ life[o] \in Alive /\ type[o] = EntityType
              => container[o] \in Roots /\ slot = container[o]
         /\ life[o] \in Alive \cup {"placed"} /\ type[o] # EntityType
              => container[o] \in Scopes
         /\ life[o] = "placed"
              => \E t \in Threads : pc[t] \in MakingPcs /\ object[t] = o
         /\ life[o] = "dying"
              => \E t \in Threads : pc[t] \in DestroyingPcs /\ object[t] = o
    /\ \A t \in Threads :
         /\ pc[t] \in DestroyingPcs /\ type[object[t]] = EntityType
              => mine[t] = container[object[t]]
         /\ pc[t] \in {"dropTable", "clearSlot"}
              => \A o \in Objects : life[o] \notin Alive

(* What is registered: the entry of each type under that type, and the     *)
(* type of all that can be destroyed.                                      *)
Rows == {[id |-> TypeId(ty), entry |-> EntryOf(ty)] : ty \in Types}
TableInv ==
    /\ table \in [Roots -> SUBSET Rows]
    /\ \A o \in Objects : life[o] \in Alive => Found(slot, type[o]) # {}
    /\ \A t \in Threads : pc[t] = "create" => Found(slot, type[object[t]]) # {}

(* What has been called so far, of what there is to call.                  *)
Names == DataTypes \cup Hooks \cup {Entity}
First(ty) == IF ty[2] = NoHook THEN <<>> ELSE <<ty[2]>>
CallInv ==
    /\ destroyed \in [Objects -> Seq(Names)]
    /\ entry \in [Threads -> Entries \cup {NoEntry}]
    /\ \A o \in Objects :
         /\ life[o] \in {"unused", "placed", "live"} => destroyed[o] = <<>>
         /\ life[o] = "dead" => destroyed[o] = EntryOf(type[o])
    /\ \A t \in Threads :
         /\ pc[t] \in {"hook", "drop"} => entry[t] = EntryOf(type[object[t]])
         /\ pc[t] = "hook" => type[object[t]][2] # NoHook
         /\ pc[t] \in {"lookup", "hook"} => destroyed[object[t]] = <<>>
         /\ pc[t] = "drop" => destroyed[object[t]] = First(type[object[t]])

ObjectInv == HomeInv /\ TableInv /\ CallInv

-----------------------------------------------------------------------------
(* What is alive or being made is in the root that the slot holds.         *)
LEMMA HomeIsSlot ==
  ASSUME SlotInv, HomeInv, NEW o \in Objects,
         \/ life[o] \in Alive
         \/ \E t \in Threads : pc[t] \in MakingPcs /\ object[t] = o
  PROVE  slot \in Roots /\ RootOf(o) = slot
  <1>1. life[o] \in Alive \cup {"placed"}
    BY DEF SlotInv, WorkInv, Alive
  <1>2. CASE type[o] = EntityType
    BY <1>1, <1>2 DEF SlotInv, Typed, ScopeInv, WorkInv, HomeInv, Alive, RootOf
  <1>3. CASE type[o] # EntityType
    <2>1. container[o] \in Scopes
      BY <1>1, <1>3 DEF HomeInv
    <2> QED
      BY <2>1, <1>3 DEF SlotInv, ScopeInv, Scopes, RootOf
  <1> QED
    BY <1>2, <1>3

(* Nothing is being made in a root that is finalised.                       *)
LEMMA NoneIsMade ==
  ASSUME SlotInv, HomeInv, NEW t \in Threads, pc[t] \in FinalizePcs \ {"free"}
  PROVE  \A u \in Threads : pc[u] \notin MakingPcs
  <1> SUFFICES ASSUME NEW u \in Threads, pc[u] \in MakingPcs PROVE FALSE
    OBVIOUS
  <1>1. object[u] \in Objects /\ life[object[u]] = "placed"
    BY DEF SlotInv, Typed, WorkInv
  <1>2. slot \in closing /\ ~Unfinished(slot)
    BY DEF SlotInv, Typed, MineInv
  <1>3. type[object[u]] # EntityType
    BY <1>2 DEF SlotInv, ScopeInv
  <1>4. container[object[u]] \in Scopes
    BY <1>1, <1>3 DEF HomeInv
  <1> QED
    BY <1>2, <1>4 DEF SlotInv, ScopeInv, Scopes, Unfinished

-----------------------------------------------------------------------------
(* Homes: a destruction or a retirement takes out what it is about.        *)

(* What a thread does that has nothing to do with an object.               *)
LEMMA HomeUndisturbed ==
  ASSUME SlotInv, HomeInv, NEW t \in Threads,
         UNCHANGED objectVars, slot \notin Roots \/ UNCHANGED slot,
         pc[t] \notin MakingPcs \cup DestroyingPcs,
         pc'[t] \notin MakingPcs \cup DestroyingPcs
                   \cup {"dropTable", "clearSlot"},
         \A u \in Threads \ {t} :
            pc'[u] = pc[u] /\ mine'[u] = mine[u] /\ object'[u] = object[u]
  PROVE  HomeInv'
  <1>1. UNCHANGED <<container, type, life, Scopes>>
    BY DEF objectVars, Scopes
  <1>2. \A o \in Objects : life[o] \in Alive => slot' = slot
    BY HomeIsSlot
  <1> QED
    BY <1>1, <1>2 DEF HomeInv, Alive

LEMMA RegisterKeepsHome ==
  ASSUME SlotInv, HomeInv, NEW t \in Threads, Register(t)
  PROVE  HomeInv'
  <1> USE DEF SlotInv, Typed, Register, Proceed, Goto, Return, rootVars,
              objectVars
  <1>1. Scopes' = Scopes
    BY DEF Scopes
  <1> QED
    BY <1>1 DEF WorkInv, HomeInv, Alive

LEMMA CreateKeepsHome ==
  ASSUME SlotInv, HomeInv, NEW t \in Threads, Create(t)
  PROVE  HomeInv'
  <1> USE DEF SlotInv, Typed, Create, Goto, Return, rootVars
  <1>0. object[t] \in Objects /\ life[object[t]] = "placed"
    BY DEF WorkInv
  <1>1. Scopes \subseteq Scopes'
    BY DEF Scopes
  <1>2. \A u \in Threads : pc[u] \notin {"dropTable", "clearSlot"}
    BY NoneIsMade
  <1> QED
    BY <1>0, <1>1, <1>2 DEF WorkInv, ScopeInv, HomeInv, Alive

LEMMA LookupKeepsHome ==
  ASSUME SlotInv, HomeInv, NEW t \in Threads, Lookup(t)
  PROVE  HomeInv'
  <1>0. /\ pc[t] = "lookup" /\ UNCHANGED <<slot, container, type, retired>>
        /\ \/ /\ Goto(t, "hook") \/ Goto(t, "drop")
              /\ UNCHANGED <<mine, object, life>>
           \/ life' = [life EXCEPT ![object[t]] = "dead"] /\ AfterDestroy(t)
    BY DEF Lookup, rootVars
  <1>1. object[t] \in Objects /\ life[object[t]] = "dying"
    BY <1>0 DEF SlotInv, Typed, WorkInv
  <1>2. Scopes' = Scopes
    BY <1>0, <1>1 DEF SlotInv, Typed, Scopes
  <1> QED
    BY <1>0, <1>1, <1>2
       DEF SlotInv, Typed, WorkInv, HomeInv, Alive, Goto, Return, AfterDestroy

LEMMA RunHookKeepsHome ==
  ASSUME SlotInv, HomeInv, NEW t \in Threads, RunHook(t)
  PROVE  HomeInv'
  <1> USE DEF SlotInv, Typed, RunHook, Proceed, Goto, Return, rootVars,
              objectVars
  <1>1. Scopes' = Scopes
    BY DEF Scopes
  <1> QED
    BY <1>1 DEF WorkInv, HomeInv, Alive

LEMMA RunDropKeepsHome ==
  ASSUME SlotInv, HomeInv, NEW t \in Threads, RunDrop(t)
  PROVE  HomeInv'
  <1>0. /\ pc[t] = "drop" /\ UNCHANGED <<slot, container, type, retired>>
        /\ life' = [life EXCEPT ![object[t]] = "dead"] /\ AfterDestroy(t)
    BY DEF RunDrop, rootVars
  <1>1. object[t] \in Objects /\ life[object[t]] = "dying"
    BY <1>0 DEF SlotInv, Typed, WorkInv
  <1>2. Scopes' = Scopes
    BY <1>0, <1>1 DEF SlotInv, Typed, Scopes
  <1> QED
    BY <1>0, <1>1, <1>2
       DEF SlotInv, Typed, WorkInv, HomeInv, Alive, Goto, Return, AfterDestroy

LEMMA FlushEntityKeepsHome ==
  ASSUME SlotInv, HomeInv, NEW t \in Threads, FlushEntity(t)
  PROVE  HomeInv'
  <1> USE DEF SlotInv, Typed
  <1>1. PICK o \in Objects :
             /\ container[o] = mine[t] /\ life[o] = "live"
             /\ life' = [life EXCEPT ![o] = "dying"]
             /\ object' = [object EXCEPT ![t] = o]
    BY DEF FlushEntity
  <1>2. /\ pc[t] = "flush" /\ pc' = [pc EXCEPT ![t] = "lookup"]
        /\ UNCHANGED <<slot, container, type, retired, mine>>
    BY DEF FlushEntity, Goto, rootVars
  <1>3. mine[t] \in Roots /\ ~Unfinished(mine[t])
    BY <1>2 DEF MineInv
  <1>4. type[o] = EntityType
    BY <1>1, <1>3 DEF HomeInv, Scopes, Alive
  <1>5. o \notin Scopes /\ Scopes' = Scopes
    BY <1>1, <1>2, <1>3, <1>4 DEF Scopes, Unfinished
  <1>6. \A u \in Threads : u # t => pc'[u] = pc[u] /\ object'[u] = object[u]
    BY <1>1, <1>2
  <1> QED
    BY <1>1, <1>2, <1>4, <1>5, <1>6 DEF HomeInv, Alive

LEMMA FlushDoneKeepsHome ==
  ASSUME SlotInv, HomeInv, NEW t \in Threads, FlushDone(t)
  PROVE  HomeInv'
  <1> USE DEF SlotInv, Typed, FlushDone, Proceed, Goto, rootVars, objectVars
  <1>0. mine[t] # NoRoot /\ slot = mine[t] /\ ~Unfinished(mine[t])
    BY DEF MineInv
  <1>1. Scopes' = Scopes
    BY DEF Scopes
  <1>2. ASSUME NEW o \in Objects, life[o] \in Alive PROVE FALSE
    <2>1. CASE type[o] = EntityType
      BY <1>0, <1>2, <2>1 DEF HomeInv, MineInv, Alive
    <2>2. CASE type[o] # EntityType
      BY <1>0, <1>2, <2>2 DEF HomeInv, ScopeInv, Scopes, Unfinished
    <2> QED
      BY <2>1, <2>2
  <1> QED
    BY <1>1, <1>2 DEF WorkInv, HomeInv, Alive

LEMMA ClearSlotKeepsHome ==
  ASSUME SlotInv, HomeInv, NEW t \in Threads, ClearSlot(t)
  PROVE  HomeInv'
  <1> USE DEF SlotInv, Typed, ClearSlot, Proceed, Goto, rootVars, objectVars
  <1>1. Scopes' = Scopes
    BY DEF Scopes
  <1>2. \A o \in Objects : life[o] \notin Alive
    BY DEF HomeInv
  <1> QED
    BY <1>1, <1>2 DEF WorkInv, HomeInv, Alive

LEMMA StepKeepsHome ==
  ASSUME SlotInv, HomeInv, NEW t \in Threads, Begin(t) \/ Continue(t)
  PROVE  HomeInv'
  <1>1. CASE StartInit(t)
    BY <1>1, HomeUndisturbed DEF StartInit, Proceed, Goto, rootVars,
         objectVars, threadVars, SlotInv, Typed
  <1>2. CASE LoadSlot(t)
    BY <1>2, HomeUndisturbed DEF LoadSlot, Proceed, Goto, Return, Spinning,
         rootVars, objectVars, threadVars, SlotInv, Typed
  <1>3. CASE CasSlot(t)
    BY <1>3, HomeUndisturbed DEF CasSlot, Proceed, Goto, objectVars, rootVars,
         threadVars, SlotInv, Typed
  <1>4. CASE Allocate(t)
    BY <1>4, HomeUndisturbed DEF Allocate, Goto, Proceed, objectVars,
         rootVars, threadVars, SlotInv, Typed
  <1>5. CASE MakeTable(t)
    BY <1>5, HomeUndisturbed DEF MakeTable, Proceed, Goto, objectVars,
         rootVars, threadVars, SlotInv, Typed
  <1>6. CASE Publish(t)
    BY <1>6, HomeUndisturbed DEF Publish, Return, Goto, objectVars, rootVars,
         threadVars, SlotInv, Typed, OneInitialiser
  <1>7. CASE RollBack(t)
    BY <1>7, HomeUndisturbed DEF RollBack, Return, Goto, objectVars, rootVars,
         threadVars, SlotInv, Typed, OneInitialiser
  <1>8. CASE StartGet(t)
    BY <1>8, HomeUndisturbed DEF StartGet, Proceed, Goto, rootVars,
         objectVars, threadVars, SlotInv, Typed
  <1>9. CASE LoadGet(t)
    BY <1>9, HomeUndisturbed DEF LoadGet, Return, Goto, Spinning, rootVars,
         objectVars, threadVars, SlotInv, Typed
  <1>10. CASE PutAway(t)
    BY <1>10, HomeUndisturbed DEF PutAway, rootVars, objectVars, threadVars,
         SlotInv, Typed
  <1>11. CASE PlaceScope(t)
    BY <1>11 DEF PlaceScope, Place, Goto, Filling, rootVars, WorkInv, SlotInv,
         Typed, HomeInv, Scopes, Alive
  <1>12. CASE PlaceObject(t)
    BY <1>12 DEF PlaceObject, Place, Goto, Filling, rootVars, WorkInv,
         SlotInv, Typed, HomeInv, Scopes, Alive
  <1>13. CASE Claim(t)
    BY <1>13 DEF Claim, Goto, rootVars, SlotInv, Typed, HomeInv, Scopes, Alive
  <1>14. CASE Retire(t)
    BY <1>14 DEF Retire, Finalize, Goto, LastOf, Filling, rootVars,
         threadVars, objectVars, SlotInv, Typed, HomeInv, Scopes, Alive
  <1>15. CASE StartClose(t)
    BY <1>15, HomeUndisturbed DEF StartClose, Proceed, Goto, rootVars,
         objectVars, threadVars, SlotInv, Typed
  <1>16. CASE Close(t)
    BY <1>16, HomeUndisturbed DEF Close, Return, Goto, Spinning, Finalize,
         LastOf, Filling, objectVars, rootVars, threadVars, SlotInv, Typed
  <1>17. CASE DropTable(t)
    BY <1>17 DEF DropTable, Proceed, Goto, objectVars, rootVars, threadVars,
         SlotInv, Typed, HomeInv, Scopes, Alive
  <1>18. CASE FreeRoot(t)
    BY <1>18, HomeUndisturbed DEF FreeRoot, Return, Goto, objectVars,
         rootVars, threadVars, SlotInv, Typed
  <1> QED
    BY <1>1, <1>2, <1>3, <1>4, <1>5, <1>6, <1>7, <1>8, <1>9, <1>10, <1>11,
       <1>12, <1>13, <1>14, <1>15, <1>16, <1>17, <1>18, RegisterKeepsHome,
       CreateKeepsHome, LookupKeepsHome, RunHookKeepsHome, RunDropKeepsHome,
       FlushEntityKeepsHome, FlushDoneKeepsHome, ClearSlotKeepsHome
       DEF Begin, Continue

-----------------------------------------------------------------------------
(* The table: what is alive stays registered until DropTable.              *)
(* The slot changes only while nothing is alive.                           *)
LEMMA SlotChangeKeepsTable ==
  ASSUME SlotInv, HomeInv, TableInv, NEW t \in Threads,
         CasSlot(t) \/ Publish(t) \/ RollBack(t)
  PROVE  TableInv'
  <1> USE DEF SlotInv, Typed, CasSlot, Publish, RollBack, Proceed, Goto, Return,
              rootVars, objectVars
  <1>1. slot \notin Roots \/ UNCHANGED slot
    BY DEF OneInitialiser
  <1>2. \A o \in Objects : life[o] \in Alive => slot' = slot
    BY <1>1, HomeIsSlot
  <1>3. \A u \in Threads : pc[u] = "create" =>
           slot' = slot /\ object[u] = object'[u] /\ object[u] \in Objects
    BY <1>1, HomeIsSlot DEF WorkInv
  <1>4. \A u \in Threads : pc'[u] = "create" => pc[u] = "create"
    OBVIOUS
  <1> QED
    BY <1>2, <1>3, <1>4 DEF TableInv, Found

LEMMA RegisterKeepsTable ==
  ASSUME SlotInv, HomeInv, TableInv, NEW t \in Threads, Register(t)
  PROVE  TableInv'
  <1> USE DEF SlotInv, Typed, Register, Proceed, Goto, objectVars
  <1> DEFINE o == object[t]
             row == [id |-> TypeId(type[o]), entry |-> EntryOf(type[o])]
  <1>1. o \in Objects /\ slot \in Roots /\ RootOf(o) = slot /\ slot' = slot
    BY HomeIsSlot DEF WorkInv
  <1>2. row \in Rows /\ row.id = TypeId(type[o])
    BY <1>1 DEF Rows
  <1>3. \/ Found(slot, type[o]) # {} /\ table' = table
        \/ table' = [table EXCEPT ![slot] = @ \cup {row}]
    BY <1>1
  <1> HIDE DEF row
  <1>4. table' \in [Roots -> SUBSET Rows]
    BY <1>1, <1>2, <1>3 DEF TableInv
  <1>5. /\ table[slot] \subseteq table'[slot]
        /\ \E x \in table'[slot] : x.id = TypeId(type[o])
    BY <1>1, <1>2, <1>3 DEF TableInv, Found
  <1>6. \A ty : Found(slot, ty) # {} => Found(slot, ty)' # {}
    BY <1>1, <1>5 DEF Found
  <1>7. \A u \in Threads : pc'[u] = "create" => pc[u] = "create" \/ u = t
    OBVIOUS
  <1>8. Found(slot, type[o])' # {}
    BY <1>1, <1>5 DEF Found
  <1> QED
    BY <1>1, <1>4, <1>6, <1>7, <1>8 DEF TableInv, Alive

LEMMA DropTableKeepsTable ==
  ASSUME SlotInv, HomeInv, TableInv, NEW t \in Threads, DropTable(t)
  PROVE  TableInv'
  <1> USE DEF SlotInv, Typed, DropTable, Proceed, Goto, objectVars
  <1>1. \A o \in Objects : life[o] \notin Alive
    BY DEF HomeInv
  <1>2. \A u \in Threads : pc[u] # "create"
    BY NoneIsMade
  <1> QED
    BY <1>1, <1>2 DEF TableInv

LEMMA ClearSlotKeepsTable ==
  ASSUME SlotInv, HomeInv, TableInv, NEW t \in Threads, ClearSlot(t)
  PROVE  TableInv'
  <1> USE DEF SlotInv, Typed, ClearSlot, Proceed, Goto, rootVars, objectVars
  <1>1. \A o \in Objects : life[o] \notin Alive
    BY DEF HomeInv
  <1>2. \A u \in Threads : pc[u] # "create"
    BY NoneIsMade
  <1> QED
    BY <1>1, <1>2 DEF TableInv

LEMMA StepKeepsTable ==
  ASSUME SlotInv, HomeInv, TableInv, NEW t \in Threads, Begin(t) \/ Continue(t)
  PROVE  TableInv'
  <1> USE DEF SlotInv, Typed, TableInv, Found, Alive
  <1>1. CASE StartInit(t)
    BY <1>1 DEF StartInit, Proceed, Goto, rootVars, objectVars, threadVars
  <1>2. CASE LoadSlot(t)
    BY <1>2 DEF LoadSlot, Proceed, Goto, Return, Spinning, rootVars,
         objectVars, threadVars
  <1>3. CASE Allocate(t)
    BY <1>3 DEF Allocate, Goto, Proceed, objectVars, rootVars, threadVars
  <1>4. CASE MakeTable(t)
    BY <1>4 DEF MakeTable, Proceed, Goto, objectVars, rootVars, threadVars
  <1>5. CASE StartGet(t)
    BY <1>5 DEF StartGet, Proceed, Goto, rootVars, objectVars, threadVars
  <1>6. CASE LoadGet(t)
    BY <1>6 DEF LoadGet, Return, Goto, Spinning, rootVars, objectVars,
         threadVars
  <1>7. CASE PutAway(t)
    BY <1>7 DEF PutAway, rootVars, objectVars, threadVars
  <1>8. CASE PlaceScope(t)
    BY <1>8 DEF PlaceScope, Place, Goto, Filling, rootVars, WorkInv
  <1>9. CASE PlaceObject(t)
    BY <1>9 DEF PlaceObject, Place, Goto, Filling, rootVars, WorkInv
  <1>10. CASE Create(t)
    BY <1>10 DEF Create, Return, Goto, rootVars
  <1>11. CASE Claim(t)
    BY <1>11 DEF Claim, Goto, rootVars
  <1>12. CASE Lookup(t)
    BY <1>12 DEF Lookup, Goto, AfterDestroy, Return, rootVars
  <1>13. CASE RunHook(t)
    BY <1>13 DEF RunHook, Proceed, Goto, rootVars
  <1>14. CASE RunDrop(t)
    BY <1>14 DEF RunDrop, AfterDestroy, Goto, Return, rootVars
  <1>15. CASE Retire(t)
    BY <1>15 DEF Retire, Finalize, Goto, LastOf, Filling, rootVars,
         threadVars, objectVars
  <1>16. CASE StartClose(t)
    BY <1>16 DEF StartClose, Proceed, Goto, rootVars, objectVars, threadVars
  <1>17. CASE Close(t)
    BY <1>17 DEF Close, Return, Goto, Spinning, Finalize, LastOf, Filling,
         objectVars, rootVars, threadVars
  <1>18. CASE FlushEntity(t)
    BY <1>18 DEF FlushEntity, Goto, rootVars
  <1>19. CASE FlushDone(t)
    BY <1>19 DEF FlushDone, Proceed, Goto, rootVars, objectVars, threadVars
  <1>20. CASE FreeRoot(t)
    BY <1>20 DEF FreeRoot, Return, Goto, objectVars, rootVars, threadVars
  <1> HIDE DEF SlotInv, Typed, TableInv, Found, Alive
  <1> QED
    BY <1>1, <1>2, <1>3, <1>4, <1>5, <1>6, <1>7, <1>8, <1>9, <1>10, <1>11,
       <1>12, <1>13, <1>14, <1>15, <1>16, <1>17, <1>18, <1>19, <1>20,
       SlotChangeKeepsTable, RegisterKeepsTable, DropTableKeepsTable, ClearSlotKeepsTable
       DEF Begin, Continue

-----------------------------------------------------------------------------
(* The calls for a type, as sequences.                                     *)
LEMMA AppendPair ==
  ASSUME NEW S, NEW a \in S, NEW b \in S PROVE Append(<<a>>, b) = <<a, b>>
  <1> DEFINE s == Append(<<a>>, b)
             u == <<a, b>>
  <1>1. u \in Seq(S) /\ Len(u) = 2 /\ u[1] = a /\ u[2] = b
    OBVIOUS
  <1>2. <<a>> \in Seq(S) /\ Len(<<a>>) = 1 /\ <<a>>[1] = a
    OBVIOUS
  <1>3. s \in Seq(S) /\ Len(s) = 2 /\ s[1] = a /\ s[2] = b
    BY <1>2, AppendProperties
  <1> HIDE DEF s, u
  <1>4. \A i \in 1 .. Len(s) : s[i] = u[i]
    BY <1>1, <1>3
  <1>5. s = u
    BY <1>1, <1>3, <1>4, SeqEqual
  <1> QED
    BY <1>5 DEF s, u

LEMMA FrontOfPair ==
  ASSUME NEW S, NEW a \in S, NEW b \in S PROVE SubSeq(<<a, b>>, 1, 1) = <<a>>
  <1> DEFINE s == SubSeq(<<a, b>>, 1, 1)
             u == <<a>>
  <1>1. u \in Seq(S) /\ Len(u) = 1 /\ u[1] = a
    OBVIOUS
  <1>2. \A i \in 1 .. 1 : <<a, b>>[i] \in S
    OBVIOUS
  <1>3. s \in Seq(S) /\ Len(s) = 1 /\ s[1] = a
    BY <1>2, SubSeqProperties
  <1> HIDE DEF s, u
  <1>4. \A i \in 1 .. Len(s) : s[i] = u[i]
    BY <1>1, <1>3
  <1>5. s = u
    BY <1>1, <1>3, <1>4, SeqEqual
  <1> QED
    BY <1>5 DEF s, u

(* First is all but the last call of EntryOf.                              *)
LEMMA Calls ==
  ASSUME NEW ty \in Types
  PROVE  /\ EntryOf(ty) \in Seq(Names)
         /\ First(ty) = SubSeq(EntryOf(ty), 1, Len(EntryOf(ty)) - 1)
         /\ First(ty) \in Seq(Names)
         /\ Append(First(ty), EntryOf(ty)[Len(EntryOf(ty))]) = EntryOf(ty)
         /\ Len(EntryOf(ty)) = IF ty[2] = NoHook THEN 1 ELSE 2
         /\ ty[2] # NoHook => Append(<<>>, EntryOf(ty)[1]) = First(ty)
  <1>1. ty[1] \in Names /\ ty[2] \in Hooks \cup {NoHook}
    BY DEF Types, UserTypes, EntityType, Names
  <1>2. CASE ty[2] = NoHook
    <2>1. EntryOf(ty) = <<ty[1]>> /\ First(ty) = <<>>
      BY <1>2 DEF EntryOf, First
    <2> QED
      BY <1>1, <1>2, <2>1
  <1>3. CASE ty[2] # NoHook
    <2>1. ty[2] \in Names
      BY <1>1, <1>3 DEF Names
    <2>2. EntryOf(ty) = <<ty[2], ty[1]>> /\ First(ty) = <<ty[2]>>
      BY <1>3 DEF EntryOf, First
    <2>3. Append(<<ty[2]>>, ty[1]) = <<ty[2], ty[1]>>
      BY <1>1, <2>1, AppendPair
    <2>4. SubSeq(<<ty[2], ty[1]>>, 1, 1) = <<ty[2]>>
      BY <1>1, <2>1, FrontOfPair
    <2> QED
      BY <1>1, <1>3, <2>1, <2>2, <2>3, <2>4
  <1> QED
    BY <1>2, <1>3

-----------------------------------------------------------------------------
(* The calls: a thread that destroys an object makes them in order.        *)
LEMMA LoadSlotKeepsCall ==
  ASSUME SlotInv, HomeInv, TableInv, CallInv, NEW t \in Threads, LoadSlot(t)
  PROVE  CallInv'
  <1> USE DEF SlotInv, Typed, LoadSlot, Proceed, Goto, Return, rootVars,
              objectVars
  <1>1. \A u \in Threads : u # t =>
           pc'[u] = pc[u] /\ object'[u] = object[u] /\ entry'[u] = entry[u]
    BY DEF CallInv, threadVars
  <1>2. /\ pc'[t] \in {"cas", "idle"}
        /\ entry' \in [Threads -> Entries \cup {NoEntry}]
    BY DEF CallInv
  <1> QED
    BY <1>1, <1>2 DEF CallInv

LEMMA LookupKeepsCall ==
  ASSUME SlotInv, HomeInv, TableInv, CallInv, NEW t \in Threads, Lookup(t)
  PROVE  CallInv'
  <1> USE DEF SlotInv, Typed
  <1> DEFINE o == object[t]
             found == Found(RootOf(o), type[o])
  <1>1. pc[t] = "lookup" /\ o \in Objects /\ life[o] = "dying"
    BY DEF Lookup, WorkInv
  <1>2. slot \in Roots /\ found # {}
    BY <1>1, HomeIsSlot DEF TableInv, Alive
  <1>3. ASSUME NEW row \in found PROVE row.entry = EntryOf(type[o])
    BY <1>1, <1>2, HomeIsSlot DEF TableInv, Found, Rows, TypeId, Alive
  <1>4. /\ Goto(t, IF Len(EntryOf(type[o])) = 2 THEN "hook" ELSE "drop")
        /\ entry' = [entry EXCEPT ![t] = EntryOf(type[o])]
        /\ UNCHANGED <<object, life, type, destroyed>>
    BY <1>2, <1>3 DEF Lookup
  <1>5. type[o] \in Types
    BY <1>1
  <1>6. /\ pc'[t] = IF type[o][2] = NoHook THEN "drop" ELSE "hook"
        /\ \A u \in Threads : u # t => pc'[u] = pc[u] /\ entry'[u] = entry[u]
    <2>1. Len(EntryOf(type[o])) = IF type[o][2] = NoHook THEN 1 ELSE 2
      BY <1>5, Calls
    <2>2. Len(EntryOf(type[o])) = 2 <=> type[o][2] # NoHook
      BY <2>1
    <2>3. pc' = [pc EXCEPT ![t] = IF Len(EntryOf(type[o])) = 2
                                    THEN "hook" ELSE "drop"]
      BY <1>4 DEF Goto
    <2> QED
      BY <1>4, <2>2, <2>3 DEF CallInv
  <1>7. entry' \in [Threads -> Entries \cup {NoEntry}]
    BY <1>4, <1>5 DEF CallInv, Entries
  <1>8. entry'[t] = EntryOf(type[o]) /\ destroyed[o] = <<>>
    BY <1>1, <1>4 DEF CallInv
  <1> QED
    BY <1>4, <1>6, <1>7, <1>8 DEF CallInv, First

LEMMA RunHookKeepsCall ==
  ASSUME SlotInv, HomeInv, TableInv, CallInv, NEW t \in Threads, RunHook(t)
  PROVE  CallInv'
  <1> USE DEF SlotInv, Typed
  <1> DEFINE o == object[t]
  <1>1. /\ pc[t] = "hook" /\ o \in Objects
        /\ life[o] = "dying" /\ type[o] \in Types
    BY DEF RunHook, WorkInv
  <1>2. /\ destroyed' = [destroyed EXCEPT ![o] = Append(@, entry[t][1])]
        /\ pc' = [pc EXCEPT ![t] = "drop"]
        /\ UNCHANGED <<object, entry, life, type>>
    BY DEF RunHook, Proceed, Goto
  <1>3. /\ destroyed[o] = <<>>
        /\ entry[t] = EntryOf(type[o]) /\ type[o][2] # NoHook
    BY <1>1 DEF CallInv
  <1>4. Append(destroyed[o], entry[t][1]) = First(type[o])
    BY <1>1, <1>3, Calls
  <1>5. destroyed' = [destroyed EXCEPT ![o] = First(type[o])]
    BY <1>2, <1>4
  <1>6. \A u \in Threads : u # t /\ pc[u] \in DestroyingPcs => object[u] # o
    BY <1>1 DEF WorkInv
  <1>7. destroyed' \in [Objects -> Seq(Names)]
    BY <1>1, <1>5, Calls DEF CallInv
  <1>8. \A x \in Objects : x # o => destroyed'[x] = destroyed[x]
    BY <1>5 DEF CallInv
  <1>9. destroyed'[o] = First(type[o])
    BY <1>1, <1>5 DEF CallInv
  <1>10. \A u \in Threads : u # t => pc'[u] = pc[u]
    BY <1>2
  <1>11. /\ pc'[t] = "drop"
         /\ entry' = entry /\ object' = object /\ life' = life /\ type' = type
    BY <1>2
  <1>12. \A u \in Threads : u # t /\ pc[u] \in DestroyingPcs
            => destroyed'[object[u]] = destroyed[object[u]]
    BY <1>6, <1>8 DEF WorkInv
  <1> QED
    BY <1>1, <1>3, <1>7, <1>8, <1>9, <1>10, <1>11, <1>12 DEF CallInv

LEMMA RunDropKeepsCall ==
  ASSUME SlotInv, HomeInv, TableInv, CallInv, NEW t \in Threads, RunDrop(t)
  PROVE  CallInv'
  <1> USE DEF SlotInv, Typed
  <1> DEFINE o == object[t]
  <1>1. /\ pc[t] = "drop" /\ o \in Objects
        /\ life[o] = "dying" /\ type[o] \in Types
    BY DEF RunDrop, WorkInv
  <1>2. /\ destroyed' = [destroyed EXCEPT ![o] =
                              Append(@, entry[t][Len(entry[t])])]
        /\ life' = [life EXCEPT ![o] = "dead"] /\ UNCHANGED type
    BY DEF RunDrop
  <1>3. /\ pc'[t] \in {"idle", "flush"}
        /\ entry' = [entry EXCEPT ![t] = NoEntry]
        /\ \A u \in Threads : u # t => pc'[u] = pc[u] /\ object'[u] = object[u]
    BY DEF RunDrop, AfterDestroy, Goto, Return
  <1>4. destroyed[o] = First(type[o]) /\ entry[t] = EntryOf(type[o])
    BY <1>1 DEF CallInv
  <1>5. Append(destroyed[o], entry[t][Len(entry[t])]) = EntryOf(type[o])
    BY <1>1, <1>4, Calls
  <1>6. destroyed' = [destroyed EXCEPT ![o] = EntryOf(type[o])]
    BY <1>2, <1>5
  <1>7. \A u \in Threads : u # t /\ pc[u] \in DestroyingPcs => object[u] # o
    BY <1>1 DEF WorkInv
  <1>8. /\ destroyed' \in [Objects -> Seq(Names)]
        /\ entry' \in [Threads -> Entries \cup {NoEntry}]
    BY <1>1, <1>3, <1>6, Calls DEF CallInv
  <1> QED
    BY <1>1, <1>2, <1>3, <1>6, <1>7, <1>8 DEF CallInv

LEMMA CloseKeepsCall ==
  ASSUME SlotInv, HomeInv, TableInv, CallInv, NEW t \in Threads, Close(t)
  PROVE  CallInv'
  <1> USE DEF SlotInv, Typed, Close, Goto, Return, Finalize, rootVars,
              objectVars
  <1>0. life' = life /\ type' = type /\ destroyed' = destroyed
    OBVIOUS
  <1>1. \A u \in Threads : u # t =>
           pc'[u] = pc[u] /\ object'[u] = object[u] /\ entry'[u] = entry[u]
    BY DEF CallInv, threadVars
  <1>2. /\ pc'[t] \in {"flush", "idle"}
        /\ entry' \in [Threads -> Entries \cup {NoEntry}]
    BY DEF CallInv
  <1> HIDE DEF SlotInv, Typed, Close, Goto, Return, Finalize, rootVars,
               objectVars, threadVars
  <1> QED
    BY <1>0, <1>1, <1>2 DEF CallInv

LEMMA StepKeepsCall ==
  ASSUME SlotInv, HomeInv, TableInv, CallInv,
         NEW t \in Threads, Begin(t) \/ Continue(t)
  PROVE  CallInv'
  <1> USE DEF SlotInv, Typed, CallInv
  <1>1. CASE StartInit(t)
    BY <1>1 DEF StartInit, Proceed, Goto, rootVars, objectVars, threadVars
  <1>2. CASE CasSlot(t)
    BY <1>2 DEF CasSlot, Proceed, Goto, objectVars, rootVars, threadVars
  <1>3. CASE Allocate(t)
    BY <1>3 DEF Allocate, Goto, Proceed, objectVars, rootVars, threadVars
  <1>4. CASE MakeTable(t)
    BY <1>4 DEF MakeTable, Proceed, Goto, objectVars, rootVars, threadVars
  <1>5. CASE Publish(t)
    BY <1>5 DEF Publish, Return, Goto, objectVars, rootVars, threadVars
  <1>6. CASE RollBack(t)
    BY <1>6 DEF RollBack, Return, Goto, objectVars, rootVars, threadVars
  <1>7. CASE StartGet(t)
    BY <1>7 DEF StartGet, Proceed, Goto, rootVars, objectVars, threadVars
  <1>8. CASE LoadGet(t)
    BY <1>8 DEF LoadGet, Return, Goto, Spinning, rootVars, objectVars,
         threadVars
  <1>9. CASE PutAway(t)
    BY <1>9 DEF PutAway, rootVars, objectVars, threadVars
  <1>10. CASE PlaceScope(t)
    BY <1>10 DEF PlaceScope, Place, Goto, Filling, rootVars, WorkInv
  <1>11. CASE PlaceObject(t)
    BY <1>11 DEF PlaceObject, Place, Goto, Filling, rootVars, WorkInv
  <1>12. CASE Register(t)
    BY <1>12 DEF Register, Proceed, Goto, objectVars, rootVars, threadVars
  <1>13. CASE Create(t)
    BY <1>13 DEF Create, Return, Goto, rootVars, WorkInv
  <1>14. CASE Claim(t)
    BY <1>14 DEF Claim, Goto, rootVars
  <1>15. CASE Retire(t)
    BY <1>15 DEF Retire, Finalize, Goto, LastOf, Filling, rootVars,
         threadVars, objectVars
  <1>16. CASE StartClose(t)
    BY <1>16 DEF StartClose, Proceed, Goto, rootVars, objectVars, threadVars
  <1>17. CASE FlushEntity(t)
    BY <1>17 DEF FlushEntity, Goto, rootVars
  <1>18. CASE FlushDone(t)
    BY <1>18 DEF FlushDone, Proceed, Goto, rootVars, objectVars, threadVars
  <1>19. CASE DropTable(t)
    BY <1>19 DEF DropTable, Proceed, Goto, objectVars, rootVars, threadVars
  <1>20. CASE ClearSlot(t)
    BY <1>20 DEF ClearSlot, Proceed, Goto, objectVars, rootVars, threadVars
  <1>21. CASE FreeRoot(t)
    BY <1>21 DEF FreeRoot, Return, Goto, objectVars, rootVars, threadVars
  <1> HIDE DEF SlotInv, Typed, CallInv
  <1> QED
    BY <1>1, <1>2, <1>3, <1>4, <1>5, <1>6, <1>7, <1>8, <1>9, <1>10, <1>11,
       <1>12, <1>13, <1>14, <1>15, <1>16, <1>17, <1>18, <1>19, <1>20, <1>21,
       LoadSlotKeepsCall, LookupKeepsCall, RunHookKeepsCall, RunDropKeepsCall,
       CloseKeepsCall
       DEF Begin, Continue

-----------------------------------------------------------------------------
LEMMA InitObjectInv == Init => ObjectInv
  BY DEF Init, ObjectInv, HomeInv, TableInv, CallInv, Alive, Names

LEMMA NextObjectInv == SlotInv /\ ObjectInv /\ [Next]_vars => ObjectInv'
  <1> SUFFICES ASSUME SlotInv, ObjectInv, [Next]_vars PROVE ObjectInv'
    OBVIOUS
  <1>1. CASE UNCHANGED vars
    BY <1>1 DEF vars, rootVars, objectVars, threadVars, ObjectInv, HomeInv,
           TableInv, CallInv, Scopes, Found
  <1>2. ASSUME NEW t \in Threads, Begin(t) \/ Continue(t) PROVE ObjectInv'
    BY <1>2, StepKeepsHome, StepKeepsTable, StepKeepsCall DEF ObjectInv
  <1> QED
    BY <1>1, <1>2 DEF Next

(* The invariant of the objects: where they are, that their types are      *)
(* registered, and which destructors have been called.                     *)
THEOREM ObjectInvariant == Spec => []ObjectInv
  BY InitObjectInv, NextObjectInv, SlotInvariant, PTL DEF Spec

(* Each object is destroyed by the destructors of its own type, hook first,*)
(* once, in a root whose memory is there (finish_destroy_, finalize_).     *)
THEOREM DestroyedByOwnType == Spec => []AllDestroyedOnce
  <1>1. ASSUME SlotInv, ObjectInv PROVE AllDestroyedOnce
    <2> SUFFICES ASSUME NEW o \in Objects
                 PROVE  LET calls == EntryOf(type[o])
                        IN  CASE life[o] \in {"unused", "placed", "live"} ->
                                   /\ destroyed[o] = <<>>
                                   /\ life[o] = "live"
                                        => storage[RootOf(o)] = "ready"
                              [] life[o] = "dying" ->
                                   /\ destroyed[o] \in
                                        {<<>>, SubSeq(calls, 1, Len(calls) - 1)}
                                   /\ storage[RootOf(o)] = "ready"
                              [] life[o] = "dead" -> destroyed[o] = calls
      BY <1>1 DEF AllDestroyedOnce
    <2>1. /\ life[o] \in {"unused", "placed", "live", "dying", "dead"}
          /\ type[o] \in Types
      BY <1>1 DEF SlotInv, Typed
    <2>2. life[o] \in {"live", "dying"} => storage[RootOf(o)] = "ready"
      BY <1>1, HomeIsSlot DEF ObjectInv, SlotInv, PublishedIsReady, Alive
    <2>3. life[o] = "dying" => destroyed[o] \in {<<>>, First(type[o])}
      BY <1>1 DEF ObjectInv, HomeInv, CallInv
    <2>4. First(type[o])
            = SubSeq(EntryOf(type[o]), 1, Len(EntryOf(type[o])) - 1)
      BY <2>1, Calls
    <2>5. /\ life[o] \in {"unused", "placed", "live"} => destroyed[o] = <<>>
          /\ life[o] = "dead" => destroyed[o] = EntryOf(type[o])
      BY <1>1 DEF ObjectInv, CallInv
    <2> QED
      BY <2>1, <2>2, <2>3, <2>4, <2>5
  <1> QED
    BY <1>1, SlotInvariant, ObjectInvariant, PTL

(* Every variable has its type, and the table holds entries made by        *)
(* AnyTypeVTable::of, under the keys of their types only.                  *)
THEOREM RootTypeCorrect == Spec => []TypeOK
  <1>1. SlotInv /\ ObjectInv => TypeOK
    BY DEF SlotInv, Typed, ObjectInv, TableInv, CallInv, TypeOK, Rows, Names,
           Entries
  <1> QED
    BY <1>1, SlotInvariant, ObjectInvariant, PTL
=============================================================================
