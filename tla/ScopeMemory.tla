---------------------------- MODULE ScopeMemory ----------------------------
(***************************************************************************)
(* The memory of one scope, all from the same allocator: strong pools with *)
(* the chunks of the objects, weak pools with their slots.                 *)
(*                                                                         *)
(* A strong pool is a header and an array of cells that are given out from *)
(* front to back and never reused. A chunk holds an object: a header, the  *)
(* word of metadata of an unsized type, the object's hook, and its data.   *)
(* Three computations have to agree: the layout the chunk is allocated by, *)
(* the offsets its parts are written at, and the offsets they are found at *)
(* later, from the header. A weak pool is a header, rounded up to slots,   *)
(* and its slots; a slot leads back to its pool.                           *)
(*                                                                         *)
(* Objects are stored under the scope's write lock, weak pools are opened  *)
(* and freed under the lock of their chain, so a step is a whole call.     *)
(* Addresses and sizes are in bytes, on a machine of 8 byte words. Which   *)
(* slots are in use, and when a weak pool is freed, is up to WeakChain.    *)
(***************************************************************************)
EXTENDS Integers, FiniteSets

CONSTANTS
    Shapes,     \* what is stored: [meta, hook : [present, size, align], size, align]
    Bases,      \* the addresses the allocator may answer with
    PageSize,   \* bytes: a strong pool has at least so many, a weak one at most
    WeakHeader, \* bytes of a WeakPool; 48, and 56 in tests
    MaxIndex,   \* the largest PoolIndex; 2^16 - 1 in the code
    NoPool, NoIndex

ASSUME MemoryAssumption ==
    /\ PageSize \in Nat /\ MaxIndex \in Nat /\ WeakHeader \in Nat
    /\ \A b \in Bases : b \in Nat \ {0} /\ b % 8 = 0
    /\ NoPool \notin Bases /\ NoIndex \notin Nat
    /\ \A s \in Shapes :
         /\ s.meta \in BOOLEAN /\ s.hook.present \in BOOLEAN
         /\ s.size \in Nat /\ s.hook.size \in Nat
         /\ {s.align, s.hook.align} \subseteq Nat \ {0}
         \* alignments are powers of two, and that of a word is 8
         /\ \A a, b \in {8, s.align, s.hook.align} : a <= b => b % a = 0

VARIABLES
    pools,       \* of the base of a strong pool: [prev, cells, used]
    head, tail,  \* the oldest and the newest strong pool
    chunks,      \* the chunks in use: [pool, at, order, dat, flags, shape]
    weakPools,   \* the bases of the weak pools
    result       \* what the last store came to

vars == <<pools, head, tail, chunks, weakPools, result>>

Word       == 8
Cell       == Word
PoolHeader == 2 * Word    \* prev_pool_, cell_count_ and used_count_, padded
Header     == [size |-> 3 * Word, align |-> Word]
Meta       == [size |-> Word, align |-> Word]

AlignUp(n, a) == ((n + a - 1) \div a) * a
Larger(m, n)  == IF m < n THEN n ELSE m
AsIndex(n)    == n % (MaxIndex + 1)

-----------------------------------------------------------------------------
(* What the kinds of put ask memory for: a value that a factory has made,  *)
(* the bytes of a string, a slice that stays uninitialised. The metadata   *)
(* of the last two is their length.                                        *)
Value(hook, size, align) ==
    [meta |-> FALSE, hook |-> hook, size |-> size, align |-> align]
Str(hook, length) ==
    [meta |-> TRUE, hook |-> hook, size |-> length, align |-> 1]
Slice(hook, length, size, align) ==
    [meta |-> TRUE, hook |-> hook, size |-> length * size, align |-> align]

(* The layout of a chunk, part after part.                                 *)
Extend(layout, part) ==
    [size  |-> AlignUp(layout.size, part.align) + part.size,
     align |-> Larger(layout.align, part.align)]

BeforeData(s) ==
    LET described == IF s.meta THEN Extend(Header, Meta) ELSE Header
    IN  IF s.hook.present THEN Extend(described, s.hook) ELSE described

DataOffset(s) == AlignUp(AlignUp(BeforeData(s).size, s.align), Word)

ChunkLayout(s) == [size  |-> DataOffset(s) + s.size,
                   align |-> Larger(BeforeData(s).align, s.align)]

(* Wrong: the hook is looked for right behind the header.                  *)
PredropNoMeta(hook, hasMeta) == AlignUp(Header.size, hook.align)

(* Where the hook is written and read: computed anew, without the layout.  *)
PredropOffset(hook, hasMeta) ==
    AlignUp(Header.size + (IF hasMeta THEN Word ELSE 0), hook.align)

(* Wrong: a chunk with a hook does not say that it has metadata.           *)
FlagsOfHook(s) == IF s.hook.present THEN {"predrop"}
                  ELSE IF s.meta THEN {"meta"} ELSE {}

(* The bits of refc_ that say which parts there are.                       *)
FlagsOf(s) == (IF s.meta THEN {"meta"} ELSE {})
                \cup (IF s.hook.present THEN {"predrop"} ELSE {})

(* The parts of a chunk. Whether there is a hook the type says, whether    *)
(* there is metadata is said by the type when the chunk is filled and by   *)
(* its flags when it is read.                                              *)
HeaderOf(c)  == [at |-> c.at, size |-> Header.size, align |-> Header.align]
MetaOf(c)    == [at |-> c.at + Header.size, size |-> Word, align |-> Word]
PredropOf(c, hasMeta) ==
    [at |-> c.at + PredropOffset(c.shape.hook, hasMeta),
     size |-> c.shape.hook.size, align |-> c.shape.hook.align]
DataOf(c)    == [at |-> c.at + c.dat * Word,
                 size |-> c.shape.size, align |-> c.shape.align]

Parts(c, hasMeta) ==
    {HeaderOf(c), DataOf(c)}
      \cup (IF hasMeta THEN {MetaOf(c)} ELSE {})
      \cup (IF c.shape.hook.present THEN {PredropOf(c, hasMeta)} ELSE {})

Written(c)  == Parts(c, c.shape.meta)
ReadBack(c) == Parts(c, "meta" \in c.flags)

-----------------------------------------------------------------------------
(* The pools. Every operator takes the pools it looks at, for a call that  *)
(* opens a pool goes on with the new one.                                  *)
CellsAt(b)   == b + PoolHeader
CellsEnd(ps, b)  == CellsAt(b) + ps[b].cells * Cell
FreeAt(ps, b)    == CellsAt(b) + ps[b].used * Cell
Start(ps, b, l)  == AlignUp(FreeAt(ps, b), l.align)
Fits(ps, b, l)   == Start(ps, b, l) + l.size <= CellsEnd(ps, b)
(* Wrong: the order of the first free cell, before alignment.              *)
OrderOfFree(ps, b, l) == AsIndex(ps[b].used)
Order(ps, b, l)  == AsIndex((Start(ps, b, l) - CellsAt(b)) \div Cell)
(* Wrong: a cell used in part is not counted.                              *)
UsedWhole(ps, b, l) ==
    AsIndex((Start(ps, b, l) + l.size - CellsAt(b)) \div Cell)
UsedBy(ps, b, l) ==
    AsIndex(AlignUp(Start(ps, b, l) + l.size - CellsAt(b), Cell) \div Cell)

(* of_chunk_: the pool of a chunk, from its address and its order alone.   *)
OfChunk(c) == c.at - (PoolHeader + c.order * Cell)

(* Wrong: no cells for the padding.                                        *)
NeedUnpadded(l) == Larger(AlignUp(l.size, Cell) \div Cell, 1)
NeedCells(l) == Larger(AlignUp(l.size + l.align - 1, Cell) \div Cell, 1)
CellCount(l) == Larger(NeedCells(l), Larger(PageSize, Cell) \div Cell)

Apart(p, q) == p.at + p.size <= q.at \/ q.at + q.size <= p.at

Block(b, cells) == [at |-> b, size |-> PoolHeader + cells * Cell]

-----------------------------------------------------------------------------
(* The weak pools, all of one size: as many slots as the page has room for.*)
SlotSize == 2 * Word  \* the state word with its indices, and a pointer

(* Wrong: an incomplete slot at the end of the header is given away.       *)
HeaderSlotsDown == WeakHeader \div SlotSize
HeaderSlots     == AlignUp(WeakHeader, SlotSize) \div SlotSize
HeaderBytes     == HeaderSlots * SlotSize
MaxCount        == IF PageSize <= HeaderBytes THEN 0
                   ELSE (PageSize - HeaderBytes) \div SlotSize

WeakBlock(b) == [at |-> b, size |-> HeaderBytes + MaxCount * SlotSize]

(* A slot knows its index, and no more.                                    *)
SlotAt(b, i) == [at |-> b + HeaderBytes + i * SlotSize, order |-> AsIndex(i)]

(* of_slot_: the pool of a slot, from its address and its index alone.     *)
OfSlot(slot) == slot.at - (HeaderBytes + slot.order * SlotSize)

(* index_of_ asks a pool whether an address is that of one of its slots.   *)
IndexOf(b, slot) ==
    LET start == b + HeaderBytes
    IN  IF \/ slot.at < start
           \/ slot.at >= start + MaxCount * SlotSize
           \/ (slot.at - start) % SlotSize # 0
        THEN NoIndex
        ELSE AsIndex((slot.at - start) \div SlotSize)

-----------------------------------------------------------------------------
(* The allocator: any block that overlaps none of those it gave out.       *)
Allocatable(block) ==
    /\ \A o \in DOMAIN pools : Apart(block, Block(o, pools[o].cells))
    /\ \A o \in weakPools : Apart(block, WeakBlock(o))

(* The pools from b on back, as reclaim_strong_pools_ walks them.          *)
Chain[b \in DOMAIN pools \cup {NoPool}] ==
    IF b = NoPool THEN {} ELSE {b} \cup Chain[pools[b].prev]

-----------------------------------------------------------------------------
Init ==
    /\ pools = [b \in {} |-> {}] /\ chunks = {} /\ weakPools = {}
    /\ head = NoPool /\ tail = NoPool
    /\ result = "none"

NewChunk(ps, b, s) ==
    LET l == ChunkLayout(s)
    IN  [pool |-> b, at |-> Start(ps, b, l), order |-> Order(ps, b, l),
         dat |-> AsIndex(DataOffset(s) \div Word),
         flags |-> FlagsOf(s), shape |-> s]

(* allocate_with_order_ and the filling of the chunk; if the pool is full  *)
(* it stays as it is.                                                      *)
Place(ps, b, s) ==
    LET l == ChunkLayout(s)
    IN  IF Fits(ps, b, l)
        THEN /\ pools'  = [ps EXCEPT ![b].used = UsedBy(ps, b, l)]
             /\ chunks' = chunks \cup {NewChunk(ps, b, s)}
             /\ result' = "stored"
        ELSE /\ pools' = ps /\ chunks' = chunks /\ result' = "refused"

TailTakes(s) == tail # NoPool /\ Fits(pools, tail, ChunkLayout(s))

StoreInTail(s) ==
    /\ TailTakes(s)
    /\ Place(pools, tail, s)
    /\ UNCHANGED <<head, tail, weakPools>>

(* Wrong: the new pool is not linked to the one before.                    *)
NewUnlinked(cells) == [prev |-> NoPool, cells |-> AsIndex(cells), used |-> 0]
NewPool(cells) == [prev |-> tail, cells |-> AsIndex(cells), used |-> 0]

WithPool(b, cells) ==
    [o \in DOMAIN pools \cup {b} |-> IF o = b THEN NewPool(cells) ELSE pools[o]]

StoreInNew(s) ==
    LET cells == CellCount(ChunkLayout(s))
    IN  /\ ~TailTakes(s)
        /\ cells <= MaxIndex
        /\ \E b \in Bases :
             /\ Allocatable(Block(b, cells))
             /\ Place(WithPool(b, cells), b, s)
             /\ head' = IF head = NoPool THEN b ELSE head
             /\ tail' = b
        /\ UNCHANGED weakPools

(* More cells than an index can count, or the allocator has no block: the  *)
(* call fails and leaves no trace.                                         *)
Refuse(s) ==
    /\ ~TailTakes(s)
    /\ result' = "refused"
    /\ UNCHANGED <<pools, head, tail, chunks, weakPools>>

(* The flush found every object dead: all pools go at once.                *)
Reclaim ==
    /\ pools' = [b \in DOMAIN pools \ Chain[tail] |-> pools[b]]
    /\ head' = NoPool /\ tail' = NoPool
    /\ chunks' = {}
    /\ result' = "none"
    /\ UNCHANGED weakPools

(* A page without room for one slot, or with room for more than an index   *)
(* can count, opens no weak pool.                                          *)
OpenWeakPool ==
    /\ MaxCount \in 1 .. MaxIndex
    /\ \E b \in Bases :
         /\ Allocatable(WeakBlock(b))
         /\ weakPools' = weakPools \cup {b}
    /\ UNCHANGED <<pools, head, tail, chunks, result>>

FreeWeakPool ==
    /\ \E b \in weakPools : weakPools' = weakPools \ {b}
    /\ UNCHANGED <<pools, head, tail, chunks, result>>

Next == \/ \E s \in Shapes : StoreInTail(s) \/ StoreInNew(s) \/ Refuse(s)
        \/ Reclaim \/ OpenWeakPool \/ FreeWeakPool

Spec == Init /\ [][Next]_vars

-----------------------------------------------------------------------------
(* Counts stay in a PoolIndex, no pool gives out more than it has, and all *)
(* pools are on the chain from the tail back that is walked to free them.  *)
TypeOK ==
    /\ {head, tail} \subseteq DOMAIN pools \cup {NoPool}
    /\ DOMAIN pools = Chain[tail]
    /\ \A b \in DOMAIN pools :
         /\ pools[b].prev \in DOMAIN pools \cup {NoPool}
         /\ pools[b].cells \in 1 .. MaxIndex
         /\ pools[b].used \in 0 .. pools[b].cells
    /\ \A c \in chunks : c.pool \in DOMAIN pools /\ c.shape \in Shapes
    /\ weakPools \subseteq Bases
    /\ result \in {"none", "stored", "refused"}

(* Bytes a chunk was allocated with.                                       *)
Extent(c) == [at |-> c.at, size |-> ChunkLayout(c.shape).size]

(* A position once given out is not given to another object (pool_.rs:26): *)
(* the chunks lie in the cells of their pools and do not overlap, whatever *)
(* sizes and alignments came before, and none reaches into the padding of  *)
(* another.                                                                *)
ChunksApart ==
    \A c \in chunks :
        /\ c.at >= CellsAt(c.pool)
        /\ c.at + ChunkLayout(c.shape).size <= CellsEnd(pools, c.pool)
        /\ \A d \in chunks \ {c} : Apart(Extent(c), Extent(d))

(* The parts of a chunk, at the offsets init_with, predrop_offset_ and     *)
(* data_ptr use, lie inside what layout_with asked for and not on top of   *)
(* one another: emplace_value_with_ writes the data before the header, and *)
(* neither may write over the other. In particular the data offset, kept   *)
(* in 16 bits, is not cut off in any chunk that could be allocated.        *)
PartsApart ==
    \A c \in chunks : \A p \in Written(c) :
        /\ p.at >= c.at
        /\ p.at + p.size <= c.at + ChunkLayout(c.shape).size
        /\ \A q \in Written(c) \ {p} : Apart(p, q)

(* What destroys or reads an object, which goes by the flags in the header *)
(* (chunk_.rs:413, chunk_.rs:582), finds each part where it was written,   *)
(* aligned as its type wants it, though the pool itself is only aligned to *)
(* a cell and the hook's place is computed apart from the layout.          *)
FoundWhereWritten ==
    \A c \in chunks : /\ ReadBack(c) = Written(c)
                      /\ \A p \in Written(c) : p.at % p.align = 0

(* The order in a chunk's header leads back to its pool (pool_.rs:104-110),*)
(* also for a chunk that alignment moved away from the first free cell.    *)
OrderFindsPool == \A c \in chunks : OfChunk(c) = c.pool

(* A pool that is opened for a chunk takes it: the cells that allocate_    *)
(* counts include enough padding wherever the allocator puts the pool, so  *)
(* its last map_err is never taken and no call leaves an unused pool.      *)
FreshPoolFits == [][tail' \notin {tail, NoPool} => result' = "stored"]_vars

(* A slot leads back to its own pool, which knows its index, and no other  *)
(* pool claims it; it lies behind the header, inside the block, and within *)
(* nobody else's memory (pool_.rs:507, slot_.rs:346).                      *)
SlotsFindPool ==
    \A b \in weakPools : \A i \in 0 .. MaxCount - 1 :
        LET slot == SlotAt(b, i)
            bytes == [at |-> slot.at, size |-> SlotSize]
        IN  /\ OfSlot(slot) = b
            /\ \A o \in weakPools :
                   IndexOf(o, slot) = IF o = b THEN i ELSE NoIndex
            /\ slot.at >= b + WeakHeader
            /\ slot.at + SlotSize <= b + WeakBlock(b).size
            /\ \A o \in weakPools \ {b} : Apart(bytes, WeakBlock(o))
            /\ \A o \in DOMAIN pools :
                   Apart(bytes, Block(o, pools[o].cells))
=============================================================================
