------------------------------ MODULE RootSlot ------------------------------
(***************************************************************************)
(* The static slot that a root is published in, and the type table that    *)
(* goes with each root: who initialises a root while others spin on the    *)
(* sentinel, who gets it, how types are registered when objects and scopes *)
(* are created, what is looked up and called when they are destroyed, and  *)
(* in which order the finalisation takes it all apart while the slot is    *)
(* used again.                                                             *)
(*                                                                         *)
(* Who finalises is decided in one step here; RootLife is about that.      *)
(***************************************************************************)
EXTENDS Naturals, FiniteSets, Sequences

CONSTANTS
    Threads,
    Roots,    \* bound: root storages, one for each attempt to initialise
    Objects,  \* bound: scopes and user objects created
    DataTypes, Hooks,  \* the types of user objects, and of their hooks
    Entity,   \* the type of a scope's entity
    Null, Sentinel, NoRoot, NoObject, NoHook, NoEntry

ASSUME RootSlotAssumption ==
    /\ Entity \notin DataTypes /\ NoHook \notin Hooks
    /\ Null \notin Roots /\ Sentinel \notin Roots \cup {Null}
    /\ NoRoot \notin Roots \cup Objects /\ NoObject \notin Objects
    /\ Roots \cap Objects = {}

VARIABLES
    slot,       \* the published pointer, null or the sentinel
    storage,    \* the memory of each root
    table,      \* what is registered in each root: [id, entry]
    hasTable,   \* the roots whose table is not dropped
    closing,    \* the roots that have been told to close
    got,        \* the reference that a thread has from try_init_in or get
    container,  \* the root of a scope, the scope of a user object
    type,       \* the types of each object and its hook
    life,       \* how far each object has come
    destroyed,  \* the calls of a destructor, the hook's and the data's
    retired,    \* the scopes that have retired
    pc, mine, object, entry  \* each thread: next step, its root, its
                             \* object and the entry it has copied

rootVars   == <<slot, storage, table, hasTable, closing>>
objectVars == <<container, type, life, destroyed, retired>>
threadVars == <<pc, mine, object, entry>>
vars == <<rootVars, objectVars, got, threadVars>>

InitPcs     == {"load", "cas"}
SetupPcs    == {"allocate", "makeTable", "publish", "rollBack"}
FinalizePcs == {"flush", "dropTable", "clearSlot", "free"}
Pcs == InitPcs \cup SetupPcs \cup FinalizePcs
         \cup {"idle", "get", "close", "register", "create", "lookup",
               "hook", "drop"}

(* A type of chunk, the T and P of StrongChunk<T, P>.                      *)
EntityType == <<Entity, NoHook>>
UserTypes  == DataTypes \X (Hooks \cup {NoHook})
Types      == UserTypes \cup {EntityType}

(* Wrong: leaves the hook out of the key.                                  *)
IdOfData(ty) == ty[1]

(* StrongChunk::type_id_, the key of the table, is of both together.       *)
TypeId(ty) == ty

(* AnyTypeVTable::of: what the destructor calls, the hook only if there is *)
(* one.                                                                    *)
EntryOf(ty) == IF ty[2] = NoHook THEN <<ty[1]>> ELSE <<ty[2], ty[1]>>

Init ==
    /\ slot = Null
    /\ storage = [r \in Roots |-> "unused"]
    /\ table = [r \in Roots |-> {}] /\ hasTable = {}
    /\ closing = {}
    /\ got = [t \in Threads |-> NoRoot]
    /\ container = [o \in Objects |-> NoRoot]
    /\ type = [o \in Objects |-> EntityType]
    /\ life = [o \in Objects |-> "unused"]
    /\ destroyed = [o \in Objects |-> <<>>]
    /\ retired = {}
    /\ pc = [t \in Threads |-> "idle"]
    /\ mine = [t \in Threads |-> NoRoot]
    /\ object = [t \in Threads |-> NoObject]
    /\ entry = [t \in Threads |-> NoEntry]

Goto(t, label) == pc' = [pc EXCEPT ![t] = label]
Proceed(t, label) == Goto(t, label) /\ UNCHANGED <<mine, object, entry>>
Return(t) ==
    /\ Goto(t, "idle")
    /\ mine' = [mine EXCEPT ![t] = NoRoot]
    /\ object' = [object EXCEPT ![t] = NoObject]
    /\ entry' = [entry EXCEPT ![t] = NoEntry]

(* The scope that a slot's pool belongs to, and the root of that scope.    *)
RootOf(o) == IF type[o] = EntityType THEN container[o] ELSE container[container[o]]

-----------------------------------------------------------------------------
(* The address of the slot itself, in the slot, makes everybody wait.      *)
Spinning == slot = Sentinel

(* RootScope::try_init_in. While the sentinel is there it spins.           *)
Spare == Cardinality({r \in Roots : storage[r] = "unused"})
           - Cardinality({t \in Threads : pc[t] \in InitPcs \cup {"allocate"}})

StartInit(t) ==
    /\ pc[t] = "idle" /\ got[t] = NoRoot /\ Spare > 0
    /\ Proceed(t, "load")
    /\ UNCHANGED <<rootVars, objectVars, got>>

LoadSlot(t) ==
    /\ pc[t] = "load"
    /\ ~Spinning
    /\ \/ slot = Null /\ Proceed(t, "cas") /\ UNCHANGED got
       \/ slot # Null /\ Return(t) /\ got' = [got EXCEPT ![t] = slot]
    /\ UNCHANGED <<rootVars, objectVars>>

(* Wrong: two threads may take the slot.                                   *)
TakesAnyway(t) ==
    /\ pc[t] = "cas"
    /\ slot' = Sentinel /\ Proceed(t, "allocate")
    /\ UNCHANGED <<storage, table, hasTable, closing, objectVars, got>>

(* Wrong: after a lost exchange it does not look at the slot again.        *)
RetriesForever(t) ==
    /\ pc[t] = "cas"
    /\ IF slot = Null THEN slot' = Sentinel /\ Proceed(t, "allocate")
                      ELSE UNCHANGED <<slot, threadVars>>
    /\ UNCHANGED <<storage, table, hasTable, closing, objectVars, got>>

CasSlot(t) ==
    /\ pc[t] = "cas"
    /\ IF slot = Null THEN slot' = Sentinel /\ Proceed(t, "allocate")
                      ELSE UNCHANGED slot /\ Proceed(t, "load")
    /\ UNCHANGED <<storage, table, hasTable, closing, objectVars, got>>

(* alloc_storage_: the memory, then the tree of the type table. Both may   *)
(* fail; without a tree the memory goes back first.                        *)
Allocate(t) ==
    /\ pc[t] = "allocate"
    /\ \E r \in Roots :
         /\ storage[r] = "unused"
         /\ \/ /\ storage' = [storage EXCEPT ![r] = "raw"]
               /\ mine' = [mine EXCEPT ![t] = r]
               /\ Goto(t, "makeTable") /\ UNCHANGED <<object, entry>>
            \/ /\ storage' = [storage EXCEPT ![r] = "freed"]
               /\ Proceed(t, "rollBack")
    /\ UNCHANGED <<slot, table, hasTable, closing, objectVars, got>>

(* Wrong: without a tree the memory is forgotten.                          *)
ForgetsMemory(t) ==
    /\ pc[t] = "makeTable"
    /\ \/ /\ storage' = [storage EXCEPT ![mine[t]] = "ready"]
          /\ hasTable' = hasTable \cup {mine[t]}
          /\ Proceed(t, "publish")
       \/ UNCHANGED <<storage, hasTable>> /\ Proceed(t, "rollBack")
    /\ UNCHANGED <<slot, table, closing, objectVars, got>>

MakeTable(t) ==
    /\ pc[t] = "makeTable"
    /\ \/ /\ storage' = [storage EXCEPT ![mine[t]] = "ready"]
          /\ hasTable' = hasTable \cup {mine[t]}
          /\ Proceed(t, "publish")
       \/ /\ storage' = [storage EXCEPT ![mine[t]] = "freed"]
          /\ UNCHANGED hasTable
          /\ Proceed(t, "rollBack")
    /\ UNCHANGED <<slot, table, closing, objectVars, got>>

Publish(t) ==
    /\ pc[t] = "publish"
    /\ slot' = mine[t]
    /\ got' = [got EXCEPT ![t] = mine[t]]
    /\ Return(t)
    /\ UNCHANGED <<storage, table, hasTable, closing, objectVars>>

(* The failed attempt takes its sentinel away and panics.                  *)
RollBack(t) ==
    /\ pc[t] = "rollBack"
    /\ slot' = Null
    /\ Return(t)
    /\ UNCHANGED <<storage, table, hasTable, closing, objectVars, got>>

-----------------------------------------------------------------------------
(* RootScope::get spins on the sentinel too.                               *)
StartGet(t) ==
    /\ pc[t] = "idle" /\ got[t] = NoRoot
    /\ Proceed(t, "get")
    /\ UNCHANGED <<rootVars, objectVars, got>>

LoadGet(t) ==
    /\ pc[t] = "get" /\ ~Spinning
    /\ got' = [got EXCEPT ![t] = IF slot = Null THEN NoRoot ELSE slot]
    /\ Return(t)
    /\ UNCHANGED <<rootVars, objectVars>>

(* A reference goes out of use.                                            *)
PutAway(t) ==
    /\ pc[t] = "idle" /\ got[t] # NoRoot
    /\ got' = [got EXCEPT ![t] = NoRoot]
    /\ UNCHANGED <<rootVars, objectVars, threadVars>>

-----------------------------------------------------------------------------
(* Objects. A scope is created under the lock of the root's entity pool, a *)
(* user object under the write lock of its scope: one at a time in each    *)
(* container. What fails on the way there is left to WeakChain.            *)
Filling(c) == \E t \in Threads :
                  pc[t] \in {"register", "create"} /\ container[object[t]] = c

Scopes == {o \in Objects : type[o] = EntityType /\ life[o] = "live"} \ retired

Place(t, o, c, ty) ==
    /\ pc[t] = "idle" /\ life[o] = "unused" /\ ~Filling(c)
    /\ container' = [container EXCEPT ![o] = c]
    /\ type' = [type EXCEPT ![o] = ty]
    /\ life' = [life EXCEPT ![o] = "placed"]
    /\ Goto(t, "register")
    /\ object' = [object EXCEPT ![t] = o]
    /\ UNCHANGED <<rootVars, destroyed, retired, got, mine, entry>>

(* RootScope::new_scope_in_, on a root that nobody has closed.             *)
PlaceScope(t) ==
    /\ got[t] \in Roots \ closing
    /\ \E o \in Objects : Place(t, o, got[t], EntityType)

(* Scope::put: whoever has a handle of the scope.                          *)
PlaceObject(t) ==
    \E s \in Scopes, o \in Objects, ty \in UserTypes : Place(t, o, s, ty)

(* ensure_chunk_meta_: look up and insert under one lock of the table; an  *)
(* entry that is there stays.                                              *)
Found(r, ty) == {row \in table[r] : row.id = TypeId(ty)}

Register(t) ==
    /\ pc[t] = "register"
    /\ LET r == RootOf(object[t])
           ty == type[object[t]]
       IN  table' = IF Found(r, ty) # {} THEN table
                    ELSE [table EXCEPT ![r] =
                              @ \cup {[id |-> TypeId(ty),
                                       entry |-> EntryOf(ty)]}]
    /\ Proceed(t, "create")
    /\ UNCHANGED <<slot, storage, hasTable, closing, objectVars, got>>

(* init_slot_created_: from here on the object can be destroyed.           *)
Create(t) ==
    /\ pc[t] = "create"
    /\ life' = [life EXCEPT ![object[t]] = "live"]
    /\ Return(t)
    /\ UNCHANGED <<rootVars, container, type, destroyed, retired, got>>

(* The claim of a user object by the drop of its last Retain.              *)
Claim(t) ==
    /\ pc[t] = "idle"
    /\ \E o \in Objects :
         /\ type[o] # EntityType /\ life[o] = "live"
         /\ life' = [life EXCEPT ![o] = "dying"]
         /\ object' = [object EXCEPT ![t] = o]
    /\ Goto(t, "lookup")
    /\ UNCHANGED <<rootVars, container, type, destroyed, retired, got, mine, entry>>

(* finish_destroy_: the entry is copied out under the table's lock, then   *)
(* the hook runs, which the chunk holds, then the data's destructor; the   *)
(* object is marked destroyed even when there is no entry.                 *)
AfterDestroy(t) ==
    IF mine[t] = NoRoot THEN Return(t)
    ELSE /\ Goto(t, "flush") /\ UNCHANGED mine
         /\ object' = [object EXCEPT ![t] = NoObject]
         /\ entry' = [entry EXCEPT ![t] = NoEntry]

Lookup(t) ==
    /\ pc[t] = "lookup"
    /\ LET found == Found(RootOf(object[t]), type[object[t]])
       IN  \/ \E row \in found :
                 /\ Goto(t, IF Len(row.entry) = 2 THEN "hook" ELSE "drop")
                 /\ entry' = [entry EXCEPT ![t] = row.entry]
                 /\ UNCHANGED <<mine, object, life>>
           \/ /\ found = {}
              /\ life' = [life EXCEPT ![object[t]] = "dead"]
              /\ AfterDestroy(t)
    /\ UNCHANGED <<rootVars, container, type, destroyed, retired, got>>

(* The hook is consumed; it is given the data while that is still alive.   *)
RunHook(t) ==
    /\ pc[t] = "hook"
    /\ destroyed' = [destroyed EXCEPT ![object[t]] = Append(@, entry[t][1])]
    /\ Proceed(t, "drop")
    /\ UNCHANGED <<rootVars, container, type, life, retired, got>>

RunDrop(t) ==
    /\ pc[t] = "drop"
    /\ destroyed' = [destroyed EXCEPT ![object[t]] =
                         Append(@, entry[t][Len(entry[t])])]
    /\ life' = [life EXCEPT ![object[t]] = "dead"]
    /\ AfterDestroy(t)
    /\ UNCHANGED <<rootVars, container, type, retired, got>>

-----------------------------------------------------------------------------
(* The end of a root, by its last scope or by close.                       *)
Finalize(t, r) ==
    /\ Goto(t, "flush")
    /\ mine' = [mine EXCEPT ![t] = r]
    /\ UNCHANGED <<object, entry>>

LastOf(r, s) == \A u \in Scopes \ s : container[u] # r

(* A scope retires when none of its objects is left.                       *)
Retire(t) ==
    /\ pc[t] = "idle"
    /\ \E s \in Scopes :
         /\ ~Filling(s)
         /\ \A o \in Objects : container[o] = s => life[o] = "dead"
         /\ retired' = retired \cup {s}
         /\ IF container[s] \in closing /\ LastOf(container[s], {s})
              THEN Finalize(t, container[s])
              ELSE UNCHANGED threadVars
    /\ UNCHANGED <<rootVars, container, type, life, destroyed, got>>

(* RootScope::close finds the root as get does. Its contract: nobody else  *)
(* uses a reference to the root, or closes it.                             *)
StartClose(t) ==
    /\ pc[t] = "idle" /\ got[t] = NoRoot
    /\ \A u \in Threads \ {t} : pc[u] # "close"
    /\ Proceed(t, "close")
    /\ UNCHANGED <<rootVars, objectVars, got>>

Close(t) ==
    /\ pc[t] = "close" /\ ~Spinning
    /\ IF slot \in Roots \ closing
         THEN /\ \A u \in Threads : got[u] # slot /\ ~Filling(slot)
              /\ closing' = closing \cup {slot}
              /\ IF LastOf(slot, {}) THEN Finalize(t, slot) ELSE Return(t)
         ELSE UNCHANGED closing /\ Return(t)
    /\ UNCHANGED <<slot, storage, table, hasTable, objectVars, got>>

(* finalize_: the entities are destroyed like the objects of a scope; then *)
(* go the table, the published pointer and the memory.                     *)
FlushEntity(t) ==
    /\ pc[t] = "flush"
    /\ \E o \in Objects :
         /\ container[o] = mine[t] /\ life[o] = "live"
         /\ life' = [life EXCEPT ![o] = "dying"]
         /\ object' = [object EXCEPT ![t] = o]
    /\ Goto(t, "lookup")
    /\ UNCHANGED <<rootVars, container, type, destroyed, retired, got, mine, entry>>

FlushDone(t) ==
    /\ pc[t] = "flush"
    /\ \A o \in Objects : container[o] = mine[t] => life[o] # "live"
    /\ Proceed(t, "dropTable")
    /\ UNCHANGED <<rootVars, objectVars, got>>

(* Wrong: the memory goes before the published pointer.                    *)
FreesFirst(t) ==
    /\ pc[t] = "dropTable"
    /\ table' = [table EXCEPT ![mine[t]] = {}]
    /\ hasTable' = hasTable \ {mine[t]}
    /\ storage' = [storage EXCEPT ![mine[t]] = "freed"]
    /\ Proceed(t, "clearSlot")
    /\ UNCHANGED <<slot, closing, objectVars, got>>

DropTable(t) ==
    /\ pc[t] = "dropTable"
    /\ table' = [table EXCEPT ![mine[t]] = {}]
    /\ hasTable' = hasTable \ {mine[t]}
    /\ Proceed(t, "clearSlot")
    /\ UNCHANGED <<slot, storage, closing, objectVars, got>>

ClearSlot(t) ==
    /\ pc[t] = "clearSlot"
    /\ slot' = Null
    /\ Proceed(t, "free")
    /\ UNCHANGED <<storage, table, hasTable, closing, objectVars, got>>

FreeRoot(t) ==
    /\ pc[t] = "free"
    /\ storage' = [storage EXCEPT ![mine[t]] = "freed"]
    /\ Return(t)
    /\ UNCHANGED <<slot, table, hasTable, closing, objectVars, got>>

-----------------------------------------------------------------------------
Begin(t) ==
    \/ StartInit(t) \/ StartGet(t) \/ PutAway(t) \/ PlaceScope(t)
    \/ PlaceObject(t) \/ Claim(t) \/ Retire(t) \/ StartClose(t)

Continue(t) ==
    \/ LoadSlot(t) \/ CasSlot(t) \/ Allocate(t) \/ MakeTable(t) \/ Publish(t)
    \/ RollBack(t) \/ LoadGet(t) \/ Register(t) \/ Create(t) \/ Lookup(t)
    \/ RunHook(t) \/ RunDrop(t) \/ Close(t) \/ FlushEntity(t) \/ FlushDone(t)
    \/ DropTable(t) \/ ClearSlot(t) \/ FreeRoot(t)

Next == \E t \in Threads : Begin(t) \/ Continue(t)

Spec == Init /\ [][Next]_vars
(* A thread inside a call is scheduled until it returns.                   *)
FairSpec == Spec /\ \A t \in Threads : WF_vars(Continue(t))
-----------------------------------------------------------------------------
(* Every variable has the type that the code gives it.                     *)
TypeOK ==
    /\ slot \in Roots \cup {Null, Sentinel}
    /\ storage \in [Roots -> {"unused", "raw", "ready", "freed"}]
    /\ \A r \in Roots : \A row \in table[r] :
          \E ty \in Types : row = [id |-> TypeId(ty), entry |-> EntryOf(ty)]
    /\ hasTable \subseteq Roots /\ closing \subseteq Roots
    /\ got \in [Threads -> Roots \cup {NoRoot}]
    /\ container \in [Objects -> Roots \cup Objects \cup {NoRoot}]
    /\ type \in [Objects -> Types]
    /\ life \in [Objects -> {"unused", "placed", "live", "dying", "dead"}]
    /\ destroyed \in [Objects -> Seq(DataTypes \cup Hooks \cup {Entity})]
    /\ retired \subseteq Objects
    /\ pc \in [Threads -> Pcs]
    /\ mine \in [Threads -> Roots \cup {NoRoot}]
    /\ object \in [Threads -> Objects \cup {NoObject}]
    /\ entry \in [Threads -> {EntryOf(ty) : ty \in Types} \cup {NoEntry}]

(* The sentinel stands for exactly one thread that sets a root up; others  *)
(* neither overwrite it nor initialise beside it (root_.rs:324).           *)
OneInitialiser ==
    /\ \A t, u \in Threads : pc[t] \in SetupPcs /\ pc[u] \in SetupPcs => t = u
    /\ slot = Sentinel <=> \E t \in Threads : pc[t] \in SetupPcs

(* A published root is complete and its memory is there; whoever gets it   *)
(* may use it until it is closed (root_.rs:360, root_.rs:391).             *)
PublishedIsReady ==
    /\ slot \in Roots => storage[slot] = "ready"
    /\ \A t \in Threads : got[t] # NoRoot /\ got[t] \notin closing =>
          got[t] = slot /\ got[t] \in hasTable

(* Finalising a root removes that root from the slot and no other one that *)
(* was published meanwhile: a complete root is published until its own     *)
(* finaliser clears the slot, and no memory is lost.                       *)
NoRootLost ==
    \A r \in Roots : storage[r] \in {"raw", "ready"} =>
        \/ slot = r
        \/ \E t \in Threads : /\ mine[t] = r
                              /\ pc[t] \in {"makeTable", "publish", "free"}

(* Each object is destroyed by the destructors of its own type: its hook   *)
(* once, if it has one, and then its data, once, whatever other types of   *)
(* hook the same type of data is stored with (root_.rs:676); and when the  *)
(* memory of a root goes, this is done for all that was created in it.     *)
AllDestroyedOnce ==
    \A o \in Objects :
        LET calls == EntryOf(type[o])
        IN  CASE life[o] \in {"unused", "placed", "live"} ->
                     /\ destroyed[o] = <<>>
                     /\ life[o] = "live" => storage[RootOf(o)] = "ready"
              [] life[o] = "dying" ->
                     /\ destroyed[o] \in {<<>>, SubSeq(calls, 1, Len(calls) - 1)}
                     /\ storage[RootOf(o)] = "ready"
              [] life[o] = "dead" -> destroyed[o] = calls

(* Nobody spins on the sentinel for ever: the thread that set it publishes *)
(* a root or takes the sentinel away (root_.rs:382).                       *)
CallsReturn ==
    \A t \in Threads :
        pc[t] \in InitPcs \cup {"get"} ~> pc[t] = "idle"
=============================================================================
