------------------------- MODULE ScopeMemoryProofs -------------------------
(***************************************************************************)
(* Where chunks and slots lie, for every shape of object, every address    *)
(* the allocator may answer with, every page size and index width.         *)
(***************************************************************************)
EXTENDS ScopeMemory, Lists

(* n is so many times a.                                                   *)
MultipleOf(n, a) == \E k \in Int : n = a * k

(* What is known of a chunk: it lies in the used cells of its pool, at its *)
(* alignment, its order counts the cells before it, its data offset was    *)
(* not cut off, and its flags say of which parts it is.                    *)
ChunkKept(c) ==
    /\ c.pool \in DOMAIN pools /\ c.shape \in Shapes
    /\ c.at \in Int /\ c.order \in Int /\ c.dat \in Int
    /\ c.at >= CellsAt(c.pool)
    /\ c.at + ChunkLayout(c.shape).size <= FreeAt(pools, c.pool)
    /\ c.at = CellsAt(c.pool) + c.order * 8
    /\ c.dat * 8 = DataOffset(c.shape)
    /\ MultipleOf(c.at, ChunkLayout(c.shape).align)
    /\ c.flags = FlagsOf(c.shape)

(* The pools given as ps have their counts in range.                       *)
Counted(ps) ==
    \A b \in DOMAIN ps :
        /\ ps[b] \in [prev : Bases \cup {NoPool}, cells : 0 .. MaxIndex,
                      used : 0 .. MaxIndex]
        /\ ps[b].used <= ps[b].cells

(* No two blocks of the allocator overlap.                                 *)
StrongApart(ps) ==
    \A b \in DOMAIN ps : \A o \in DOMAIN ps \ {b} :
        Apart(Block(b, ps[b].cells), Block(o, ps[o].cells))

BlocksApart ==
    /\ StrongApart(pools)
    /\ \A b \in weakPools :
           /\ \A o \in weakPools \ {b} : Apart(WeakBlock(b), WeakBlock(o))
           /\ \A o \in DOMAIN pools : Apart(WeakBlock(b), Block(o, pools[o].cells))

ExtentsApart == \A c \in chunks : \A d \in chunks \ {c} : Apart(Extent(c), Extent(d))

MemInv ==
    /\ DOMAIN pools \subseteq Bases /\ weakPools \subseteq Bases
    /\ tail \in DOMAIN pools \cup {NoPool}
    /\ Counted(pools)
    /\ weakPools # {} => MaxCount \in 1 .. MaxIndex
    /\ BlocksApart
    /\ \A c \in chunks : ChunkKept(c)
    /\ ExtentsApart

-----------------------------------------------------------------------------
(* Arithmetic. Rounding up reaches a multiple and stays below the next.    *)
LEMMA RoundUp == ASSUME NEW n \in Int, NEW a \in Nat \ {0}
                 PROVE  /\ AlignUp(n, a) \in Int
                        /\ n <= AlignUp(n, a) /\ AlignUp(n, a) < n + a
  <1> DEFINE q == (n + a - 1) \div a
             r == (n + a - 1) % a
  <1>1. q \in Int /\ r \in Int /\ 0 <= r /\ r < a /\ n + a - 1 = a * q + r
    OBVIOUS
  <1>2. q * a = a * q /\ a * q \in Int
    BY <1>1
  <1> QED
    BY <1>1, <1>2 DEF AlignUp

(* Rounded up to a multiple of a word, a number is a multiple of it.       *)
LEMMA RoundWord == ASSUME NEW n \in Int, NEW a \in Nat \ {0}, a % 8 = 0
                   PROVE  AlignUp(n, a) % 8 = 0
  <1>1. PICK k \in Int : a = 8 * k
    <2>1. a = 8 * (a \div 8)
      OBVIOUS
    <2> QED
      BY <2>1
  <1> DEFINE q == (n + a - 1) \div a
  <1>2. q \in Int
    OBVIOUS
  <1>3. q * a = 8 * (q * k) /\ q * k \in Int
    BY <1>1, <1>2
  <1>4. \A m \in Int : (8 * m) % 8 = 0
    OBVIOUS
  <1>5. (q * a) % 8 = 0
    BY <1>3, <1>4
  <1> QED
    BY <1>5 DEF AlignUp

(* A number grows with its factor.                                         *)
LEMMA TimesGrows ==
  ASSUME NEW a \in Nat \ {0}, NEW d \in Int, 1 <= d
  PROVE  a <= a * d
  <1>1. a * (d - 1) >= 0
    OBVIOUS
  <1>2. a * (d - 1) = a * d - a
    OBVIOUS
  <1>3. a * d \in Int
    OBVIOUS
  <1> QED
    BY <1>1, <1>2, <1>3

(* A number is a multiple of a when nothing remains of a division by a.    *)
LEMMA MultipleMod ==
  ASSUME NEW n \in Int, NEW a \in Nat \ {0}
  PROVE  n % a = 0 <=> MultipleOf(n, a)
  <1> PICK q \in Int, r \in Int : q = n \div a /\ r = n % a
    OBVIOUS
  <1>1. n = a * q + r /\ 0 <= r /\ r < a
    OBVIOUS
  <1>2. ASSUME n % a = 0 PROVE MultipleOf(n, a)
    BY <1>1, <1>2 DEF MultipleOf
  <1>3. ASSUME MultipleOf(n, a) PROVE r = 0
    <2>1. PICK k \in Int : n = a * k
      BY <1>3 DEF MultipleOf
    <2>2. a * (k - q) = r /\ a * (q - k) = - r
      BY <1>1, <2>1
    <2>3. ~ (1 <= k - q)
      BY <1>1, <2>2, TimesGrows
    <2>4. ~ (1 <= q - k)
      BY <1>1, <2>2, TimesGrows
    <2>5. k = q
      BY <2>3, <2>4
    <2> QED
      BY <2>2, <2>5
  <1> QED
    BY <1>2, <1>3

(* Sums of multiples,                                                      *)
LEMMA MultipleSum ==
  ASSUME NEW m \in Int, NEW n \in Int, NEW a \in Int, MultipleOf(m, a), MultipleOf(n, a)
  PROVE  MultipleOf(m + n, a)
  <1>1. PICK j \in Int, k \in Int : m = a * j /\ n = a * k
    BY DEF MultipleOf
  <1>2. a * (j + k) = a * j + a * k
    OBVIOUS
  <1>3. m + n = a * (j + k) /\ j + k \in Int
    BY <1>1, <1>2
  <1> QED
    BY <1>3 DEF MultipleOf

(* and multiples of multiples.                                             *)
LEMMA MultipleTrans ==
  ASSUME NEW n \in Int, NEW a \in Int, NEW b \in Int, MultipleOf(n, b), MultipleOf(b, a)
  PROVE  MultipleOf(n, a)
  <1>1. PICK j \in Int, k \in Int : n = b * j /\ b = a * k
    BY DEF MultipleOf
  <1>2. n = a * (k * j) /\ k * j \in Int
    BY <1>1
  <1> QED
    BY <1>2 DEF MultipleOf

(* What is rounded up to a is a multiple of a.                             *)
LEMMA RoundMultiple ==
  ASSUME NEW n \in Int, NEW a \in Nat \ {0}
  PROVE  MultipleOf(AlignUp(n, a), a)
  <1>1. (n + a - 1) \div a \in Int
    OBVIOUS
  <1>2. AlignUp(n, a) = a * ((n + a - 1) \div a)
    BY <1>1 DEF AlignUp
  <1> QED
    BY <1>1, <1>2 DEF MultipleOf

(* A number that an index can count is itself as an index.                 *)
LEMMA IndexKeeps == ASSUME NEW n \in Nat, n <= MaxIndex
                    PROVE  AsIndex(n) = n
  BY MemoryAssumption DEF AsIndex

(* Alignments are 1, 2, 4 or whole words.                                  *)
LEMMA Alignments ==
  ASSUME NEW s \in Shapes, NEW a \in {s.align, s.hook.align}
  PROVE  a \in Nat \ {0} /\ (a \in {1, 2, 4} \/ a % 8 = 0)
  <1>1. a \in Nat \ {0} /\ (a <= 8 => 8 % a = 0) /\ (8 <= a => a % 8 = 0)
    BY MemoryAssumption
  <1>2. a <= 8 => a \in 1 .. 8
    BY <1>1
  <1>3. a \in 1 .. 8 /\ 8 % a = 0 => a \in {1, 2, 4, 8}
    OBVIOUS
  <1>4. 8 % 8 = 0
    OBVIOUS
  <1> QED
    BY <1>1, <1>2, <1>3, <1>4

(* The layout of a chunk: the data lie behind all that is before them, at  *)
(* a whole word, and the whole wants a whole word's alignment or more.     *)
LEMMA LayoutFacts ==
    ASSUME NEW s \in Shapes
    PROVE  /\ BeforeData(s).size \in Int /\ Header.size <= BeforeData(s).size
           /\ DataOffset(s) \in Int /\ BeforeData(s).size <= DataOffset(s)
           /\ DataOffset(s) % 8 = 0
           /\ ChunkLayout(s).size \in Int
           /\ ChunkLayout(s).size = DataOffset(s) + s.size
           /\ ChunkLayout(s).align \in Nat \ {0}
           /\ ChunkLayout(s).align % 8 = 0
  <1> DEFINE d == IF s.meta THEN Extend(Header, Meta) ELSE Header
  <1>1. /\ s.size \in Nat /\ s.align \in Nat \ {0}
        /\ s.hook.size \in Nat /\ s.hook.align \in Nat \ {0}
        /\ s.align \in {1, 2, 4} \/ s.align % 8 = 0
        /\ s.hook.align \in {1, 2, 4} \/ s.hook.align % 8 = 0
        /\ s.meta \in BOOLEAN /\ s.hook.present \in BOOLEAN
    BY MemoryAssumption, Alignments
  <1>2. /\ d.size \in Int /\ d.size \in {24, 32} /\ d.align = 8
    BY <1>1 DEF Extend, Header, Meta, Word, AlignUp, Larger
  <1>3. /\ BeforeData(s).size \in Int /\ 24 <= BeforeData(s).size
        /\ BeforeData(s).align \in Nat \ {0} /\ BeforeData(s).align % 8 = 0
    <2>1. CASE ~s.hook.present
      BY <1>2, <2>1 DEF BeforeData
    <2>2. CASE s.hook.present
      <3>1. BeforeData(s) = [size |-> AlignUp(d.size, s.hook.align) + s.hook.size,
                             align |-> Larger(d.align, s.hook.align)]
        BY <2>2 DEF BeforeData, Extend
      <3>2. AlignUp(d.size, s.hook.align) \in Int /\ d.size <= AlignUp(d.size, s.hook.align)
        BY <1>1, <1>2, RoundUp
      <3>3. Larger(d.align, s.hook.align) \in Nat \ {0} /\ Larger(d.align, s.hook.align) % 8 = 0
        BY <1>1, <1>2 DEF Larger
      <3> QED
        BY <1>1, <1>2, <3>1, <3>2, <3>3
    <2> QED
      BY <1>1, <2>1, <2>2
  <1>4. /\ AlignUp(BeforeData(s).size, s.align) \in Int
        /\ BeforeData(s).size <= AlignUp(BeforeData(s).size, s.align)
    BY <1>1, <1>3, RoundUp
  <1>5. /\ DataOffset(s) \in Int /\ BeforeData(s).size <= DataOffset(s)
        /\ DataOffset(s) % 8 = 0
    <2> DEFINE n == AlignUp(BeforeData(s).size, s.align)
    <2>1. 8 \in Nat \ {0} /\ 8 % 8 = 0
      OBVIOUS
    <2>2. AlignUp(n, 8) \in Int /\ n <= AlignUp(n, 8)
      BY <1>4, <2>1, RoundUp
    <2>3. AlignUp(n, 8) % 8 = 0
      BY <1>4, <2>1, RoundWord
    <2>4. DataOffset(s) = AlignUp(n, 8)
      BY DEF DataOffset, Word
    <2> QED
      BY <1>3, <1>4, <2>2, <2>3, <2>4
  <1>6. /\ ChunkLayout(s).size = DataOffset(s) + s.size
        /\ ChunkLayout(s).align = Larger(BeforeData(s).align, s.align)
    BY DEF ChunkLayout
  <1>7. /\ Larger(BeforeData(s).align, s.align) \in Nat \ {0}
        /\ Larger(BeforeData(s).align, s.align) % 8 = 0
    BY <1>1, <1>3 DEF Larger
  <1> QED
    BY <1>1, <1>3, <1>5, <1>6, <1>7 DEF Header, Word
-----------------------------------------------------------------------------
(* Strong pools, given as ps, and the pool b among them.                   *)

(* A chunk that fits lies behind what was used before, at a whole cell,    *)
(* and what is used afterwards covers it.                                  *)
LEMMA PlaceFacts ==
    ASSUME NEW ps, NEW b \in DOMAIN ps, NEW s \in Shapes,
           b \in Bases, Counted(ps), Fits(ps, b, ChunkLayout(s))
    PROVE  LET l == ChunkLayout(s) IN
           /\ Start(ps, b, l) \in Int
           /\ FreeAt(ps, b) <= Start(ps, b, l)
           /\ Start(ps, b, l) = CellsAt(b) + Order(ps, b, l) * 8
           /\ Order(ps, b, l) \in Int
           /\ UsedBy(ps, b, l) \in Nat /\ UsedBy(ps, b, l) <= ps[b].cells
           /\ ps[b].used <= UsedBy(ps, b, l)
           /\ Start(ps, b, l) + l.size <= CellsAt(b) + UsedBy(ps, b, l) * 8
           /\ DataOffset(s) <= MaxIndex * 8
           /\ MultipleOf(Start(ps, b, l), l.align)
  <1> DEFINE l == ChunkLayout(s)
             st == Start(ps, b, l)
             end == st + l.size - CellsAt(b)
  <1>1. /\ b \in Nat /\ b % 8 = 0 /\ MaxIndex \in Nat
        /\ ps[b].cells \in Nat /\ ps[b].cells <= MaxIndex
        /\ ps[b].used \in Nat /\ ps[b].used <= ps[b].cells
    BY MemoryAssumption DEF Counted
  <1>2. /\ l.size \in Int /\ 24 <= l.size /\ DataOffset(s) <= l.size
        /\ l.align \in Nat \ {0} /\ l.align % 8 = 0
    <2>1. s.size \in Nat
      BY MemoryAssumption
    <2> QED
      BY <2>1, LayoutFacts DEF Header, Word
  <1>3. /\ CellsAt(b) = b + 16
        /\ FreeAt(ps, b) = b + 16 + ps[b].used * 8
        /\ CellsEnd(ps, b) = b + 16 + ps[b].cells * 8
    BY DEF CellsAt, FreeAt, CellsEnd, PoolHeader, Word, Cell
  <1>4. st \in Int /\ FreeAt(ps, b) <= st /\ st % 8 = 0
    <2>1. FreeAt(ps, b) \in Int
      BY <1>1, <1>3
    <2>2. st = AlignUp(FreeAt(ps, b), l.align)
      BY DEF Start
    <2>3. st \in Int /\ FreeAt(ps, b) <= st
      BY <1>2, <2>1, <2>2, RoundUp
    <2>4. AlignUp(FreeAt(ps, b), l.align) % 8 = 0
      BY <1>2, <2>1, RoundWord
    <2> QED
      BY <2>2, <2>3, <2>4
  <1>5. st + l.size <= b + 16 + ps[b].cells * 8
    BY <1>3 DEF Fits
  <1>6. /\ AlignUp(end, 8) \in Int /\ end <= AlignUp(end, 8)
        /\ AlignUp(end, 8) < end + 8 /\ AlignUp(end, 8) % 8 = 0
    <2>1. end \in Int /\ 8 \in Nat \ {0} /\ 8 % 8 = 0
      BY <1>1, <1>2, <1>3, <1>4
    <2> HIDE DEF end
    <2> QED
      BY <2>1, RoundUp, RoundWord
  <1>7. /\ Order(ps, b, l) \in Int
        /\ st = CellsAt(b) + Order(ps, b, l) * 8
    <2> DEFINE k == (st - CellsAt(b)) \div 8
    <2>1. k \in Nat /\ k <= MaxIndex /\ st = CellsAt(b) + k * 8
      BY <1>1, <1>2, <1>3, <1>4, <1>5
    <2>2. Order(ps, b, l) = AsIndex(k)
      BY DEF Order, Cell, Word
    <2> QED
      BY <2>1, <2>2, IndexKeeps
  <1>8. /\ UsedBy(ps, b, l) \in Nat /\ UsedBy(ps, b, l) <= ps[b].cells
        /\ ps[b].used <= UsedBy(ps, b, l)
        /\ st + l.size <= CellsAt(b) + UsedBy(ps, b, l) * 8
    <2> DEFINE k == AlignUp(end, 8) \div 8
    <2>1. /\ k \in Nat /\ k <= ps[b].cells /\ ps[b].used <= k
          /\ st + l.size <= CellsAt(b) + k * 8
      BY <1>1, <1>2, <1>3, <1>4, <1>5, <1>6
    <2>2. UsedBy(ps, b, l) = AsIndex(k)
      BY DEF UsedBy, Cell, Word
    <2>3. AsIndex(k) = k
      BY <1>1, <2>1, IndexKeeps
    <2> QED
      BY <2>1, <2>2, <2>3
  <1>9. DataOffset(s) \in Int /\ DataOffset(s) <= MaxIndex * 8
    BY <1>1, <1>2, <1>3, <1>4, <1>5, LayoutFacts
  <1>10. MultipleOf(st, l.align)
    <2>1. FreeAt(ps, b) \in Int /\ st = AlignUp(FreeAt(ps, b), l.align)
      BY <1>1, <1>3 DEF Start
    <2> QED
      BY <1>2, <2>1, RoundMultiple
  <1> QED
    BY <1>4, <1>7, <1>8, <1>9, <1>10

(* Whatever the pools were before, if the chunks lay in them as they       *)
(* should, they do so after another one is placed in pool b.               *)
LEMMA PlaceKeeps ==
    ASSUME MemInv, NEW ps, NEW b \in DOMAIN ps, NEW s \in Shapes,
           DOMAIN pools \subseteq DOMAIN ps, DOMAIN ps \subseteq Bases,
           \A o \in DOMAIN pools : ps[o] = pools[o],
           Counted(ps), StrongApart(ps), Place(ps, b, s)
    PROVE  /\ DOMAIN pools' = DOMAIN ps
           /\ \A o \in DOMAIN ps : pools'[o].cells = ps[o].cells
           /\ Counted(pools)'
           /\ \A c \in chunks' : ChunkKept(c)'
           /\ ExtentsApart'
  <1> DEFINE l == ChunkLayout(s)
  <1>0. \A o \in DOMAIN ps :
           /\ o \in Nat /\ CellsAt(o) = o + 16
           /\ FreeAt(ps, o) = o + 16 + ps[o].used * 8
           /\ ps[o].used \in Nat /\ ps[o].cells \in Nat /\ ps[o].used <= ps[o].cells
    BY MemoryAssumption DEF Counted, CellsAt, FreeAt, PoolHeader, Word, Cell
  <1>1. CASE ~Fits(ps, b, l)
    <2>1. pools' = ps /\ chunks' = chunks
      BY <1>1 DEF Place
    <2>2. \A c \in chunks : ChunkKept(c)'
      BY <2>1 DEF MemInv, ChunkKept, FreeAt
    <2> QED
      BY <2>1, <2>2 DEF MemInv, Counted, ExtentsApart
  <1>2. CASE Fits(ps, b, l)
    <2> DEFINE n == NewChunk(ps, b, s)
               u == UsedBy(ps, b, l)
    <2>1. pools' = [ps EXCEPT ![b].used = u] /\ chunks' = chunks \cup {n}
      BY <1>2 DEF Place
    <2>2. /\ Start(ps, b, l) \in Int
          /\ FreeAt(ps, b) <= Start(ps, b, l)
          /\ Start(ps, b, l) = CellsAt(b) + Order(ps, b, l) * 8
          /\ Order(ps, b, l) \in Int
          /\ u \in Nat /\ u <= ps[b].cells /\ ps[b].used <= u
          /\ Start(ps, b, l) + l.size <= CellsAt(b) + u * 8
          /\ DataOffset(s) <= MaxIndex * 8
          /\ MultipleOf(Start(ps, b, l), l.align)
      BY <1>2, PlaceFacts
    <2>3. /\ DOMAIN pools' = DOMAIN ps
          /\ \A o \in DOMAIN ps : pools'[o].cells = ps[o].cells
          /\ \A o \in DOMAIN ps : pools'[o].used = IF o = b THEN u ELSE ps[o].used
      <3>1. \A o \in DOMAIN ps : pools'[o] = IF o = b THEN [ps[b] EXCEPT !.used = u] ELSE ps[o]
        BY <2>1
      <3>2. ps[b] \in [prev : Bases \cup {NoPool}, cells : 0 .. MaxIndex, used : 0 .. MaxIndex]
        BY DEF Counted
      <3>3. /\ [ps[b] EXCEPT !.used = u].cells = ps[b].cells
            /\ [ps[b] EXCEPT !.used = u].used = u
            /\ [ps[b] EXCEPT !.used = u].prev = ps[b].prev
        BY <3>2
      <3> QED
        BY <2>1, <3>1, <3>3
    <2>4. Counted(pools)'
      <3> SUFFICES ASSUME NEW o \in DOMAIN ps
                   PROVE  /\ pools'[o] \in [prev : Bases \cup {NoPool},
                                cells : 0 .. MaxIndex, used : 0 .. MaxIndex]
                          /\ pools'[o].used <= pools'[o].cells
        BY <2>3 DEF Counted
      <3>1. u \in 0 .. MaxIndex
        BY <2>2, MemoryAssumption DEF Counted
      <3> HIDE DEF u
      <3>2. CASE o = b
        BY <2>1, <2>2, <2>3, <3>1, <3>2 DEF Counted
      <3>3. CASE o # b
        BY <2>1, <3>3 DEF Counted
      <3> QED
        BY <3>2, <3>3
    <2>5. \A c \in chunks : ChunkKept(c)'
      <3> SUFFICES ASSUME NEW c \in chunks
                   PROVE  ChunkKept(c)'
        OBVIOUS
      <3>1. ChunkKept(c)
        BY DEF MemInv
      <3>2. ps[c.pool].used <= pools'[c.pool].used /\ pools'[c.pool].used \in Nat
        BY <1>0, <2>2, <2>3, <3>1 DEF ChunkKept
      <3>3. FreeAt(pools, c.pool) <= FreeAt(pools, c.pool)'
        <4>1. c.pool \in DOMAIN pools /\ c.pool \in DOMAIN ps /\ ps[c.pool] = pools[c.pool]
          BY <3>1 DEF ChunkKept
        <4> QED
          BY <1>0, <3>2, <4>1 DEF FreeAt, CellsAt, PoolHeader, Word, Cell
      <3>4. ChunkLayout(c.shape).size \in Int
        BY <3>1, LayoutFacts DEF ChunkKept
      <3>5. FreeAt(pools, c.pool) \in Int /\ FreeAt(pools, c.pool)' \in Int
        BY <1>0, <3>1, <3>2 DEF ChunkKept, FreeAt, CellsAt, PoolHeader, Word, Cell
      <3>6. c.pool \in DOMAIN pools'
        BY <2>3, <3>1 DEF ChunkKept
      <3> QED
        BY <3>1, <3>3, <3>4, <3>5, <3>6 DEF ChunkKept
    <2>6. /\ n.pool = b /\ n.shape = s /\ n.at = Start(ps, b, l)
          /\ n.flags = FlagsOf(s)
          /\ n.order = Order(ps, b, l) /\ n.dat = DataOffset(s) \div 8
          /\ n.dat \in Nat /\ n.dat * 8 = DataOffset(s)
      <3>1. /\ DataOffset(s) \in Int /\ 24 <= DataOffset(s) /\ DataOffset(s) % 8 = 0
        BY LayoutFacts DEF Header, Word
      <3>2. /\ DataOffset(s) \div 8 \in Nat /\ DataOffset(s) \div 8 <= MaxIndex
            /\ (DataOffset(s) \div 8) * 8 = DataOffset(s)
        BY <2>2, <3>1, MemoryAssumption
      <3>3. n.dat = AsIndex(DataOffset(s) \div 8)
        BY DEF NewChunk, Word
      <3> QED
        BY <3>2, <3>3, IndexKeeps DEF NewChunk
    <2>7. ChunkKept(n)'
      <3>1. FreeAt(pools, b)' = CellsAt(b) + u * 8
        BY <2>3 DEF FreeAt, Cell, Word
      <3>2. FreeAt(ps, b) >= CellsAt(b) /\ CellsAt(b) \in Int /\ FreeAt(ps, b) \in Int
        BY <1>0
      <3>3. ChunkLayout(s).size \in Int
        BY LayoutFacts
      <3> HIDE DEF n, u
      <3> QED
        BY <2>2, <2>3, <2>6, <3>1, <3>2, <3>3 DEF ChunkKept
    <2>8. \A c \in chunks : Apart(Extent(c), Extent(n)) /\ Apart(Extent(n), Extent(c))
      <3> SUFFICES ASSUME NEW c \in chunks
                   PROVE  Apart(Extent(c), Extent(n)) /\ Apart(Extent(n), Extent(c))
        OBVIOUS
      <3> DEFINE csize == ChunkLayout(c.shape).size
                 p == c.pool
      <3>1. ChunkKept(c)
        BY DEF MemInv
      <3>2. /\ p \in DOMAIN ps /\ c.at \in Int /\ csize \in Int /\ 0 <= csize
            /\ CellsAt(p) <= c.at /\ c.at + csize <= FreeAt(ps, p)
        <4>1. 24 <= csize /\ csize \in Int
          BY <3>1, LayoutFacts, MemoryAssumption DEF ChunkKept, Header, Word
        <4>2. p \in DOMAIN pools /\ p \in DOMAIN ps /\ ps[p] = pools[p]
          BY <3>1 DEF ChunkKept
        <4>3. FreeAt(ps, p) = FreeAt(pools, p)
          BY <4>2 DEF FreeAt
        <4> QED
          BY <3>1, <4>1, <4>2, <4>3 DEF ChunkKept
      <3>3. l.size \in Int /\ n.at \in Int /\ 0 <= l.size
        BY <2>2, <2>6, LayoutFacts, MemoryAssumption DEF Header, Word
      <3>4. /\ Extent(c) = [at |-> c.at, size |-> csize]
            /\ Extent(n) = [at |-> n.at, size |-> l.size]
        BY <2>6 DEF Extent
      <3>5. c.at + csize <= n.at \/ n.at + l.size <= c.at
        <4> HIDE DEF n, l, csize, u
        <4>1. CASE p = b
          BY <1>0, <2>2, <2>6, <3>2, <3>3, <4>1
        <4>2. CASE p # b
          <5>1. p + 16 + ps[p].cells * 8 <= b \/ b + 16 + ps[b].cells * 8 <= p
            <6>1. Apart(Block(p, ps[p].cells), Block(b, ps[b].cells))
              BY <3>2, <4>2 DEF StrongApart
            <6>2. p \in Nat /\ ps[p].cells \in Nat /\ b \in Nat /\ ps[b].cells \in Nat
              BY <1>0, <3>2
            <6> HIDE DEF p
            <6> QED
              BY <6>1, <6>2 DEF Apart, Block, PoolHeader, Word, Cell
          <5>2. /\ p + 16 <= c.at /\ c.at + csize <= p + 16 + ps[p].cells * 8
            BY <1>0, <3>2
          <5>3. /\ b + 16 <= n.at /\ n.at + l.size <= b + 16 + ps[b].cells * 8
            BY <1>0, <2>2, <2>6, <3>3 DEF l, u
          <5> QED
            BY <1>0, <3>2, <3>3, <5>1, <5>2, <5>3
        <4> QED
          BY <4>1, <4>2
      <3> QED
        BY <3>4, <3>5 DEF Apart
    <2>9. ExtentsApart'
      BY <2>1, <2>8 DEF ExtentsApart, MemInv
    <2> QED
      BY <2>1, <2>3, <2>4, <2>5, <2>7, <2>9
  <1> QED
    BY <1>1, <1>2

-----------------------------------------------------------------------------
(* The weak pools: all are of one size, and that is positive once there is *)
(* one of them.                                                            *)
LEMMA WeakSizes ==
    /\ HeaderBytes \in Nat /\ WeakHeader <= HeaderBytes /\ HeaderBytes % 16 = 0
    /\ MaxCount \in Nat
    /\ \A b \in Bases : WeakBlock(b) = [at |-> b, size |-> HeaderBytes + MaxCount * 16]
  BY MemoryAssumption
     DEF HeaderBytes, HeaderSlots, MaxCount, WeakBlock, SlotSize, AlignUp, Word

(* A new block that overlaps none of the others has an address of its own. *)
LEMMA NewBase == ASSUME NEW b \in Bases, NEW size \in Int, size > 0, MemInv,
                        Allocatable([at |-> b, size |-> size])
                 PROVE  b \notin DOMAIN pools /\ (MaxCount > 0 => b \notin weakPools)
  <1>1. ASSUME b \in DOMAIN pools PROVE FALSE
    <2>1. /\ b \in Nat /\ pools[b].cells \in Nat
      BY <1>1, MemoryAssumption DEF MemInv, Counted
    <2>2. Apart([at |-> b, size |-> size], Block(b, pools[b].cells))
      BY <1>1 DEF Allocatable
    <2> QED
      BY <2>1, <2>2 DEF Apart, Block, PoolHeader, Cell, Word
  <1>2. ASSUME b \in weakPools, MaxCount > 0 PROVE FALSE
    <2>1. Apart([at |-> b, size |-> size], WeakBlock(b))
      BY <1>2 DEF Allocatable
    <2> QED
      BY <1>2, <2>1, WeakSizes, MemoryAssumption DEF Apart
  <1> QED
    BY <1>1, <1>2

(* A chunk asks for one cell at least.                                     *)
LEMMA CellsNeeded ==
  ASSUME NEW s \in Shapes
  PROVE  CellCount(ChunkLayout(s)) \in Nat /\ 1 <= CellCount(ChunkLayout(s))
  <1> DEFINE l == ChunkLayout(s)
  <1>1. l.size \in Int /\ l.align \in Int
    BY LayoutFacts
  <1> HIDE DEF l
  <1>2. NeedCells(l) \in Int /\ 1 <= NeedCells(l)
    BY <1>1 DEF NeedCells, Larger, AlignUp, Cell, Word
  <1>3. PICK page : page \in Int /\ page = Larger(PageSize, Cell) \div Cell
    BY MemoryAssumption DEF Larger, Cell, Word
  <1>4. CellCount(l) \in Int /\ 1 <= CellCount(l)
    BY <1>2, <1>3 DEF CellCount, Larger
  <1> QED
    BY <1>4 DEF l

(* The pool that a store opens has an address of its own, the cells that   *)
(* were counted, and points to the tail.                                   *)
LEMMA PoolOpened ==
  ASSUME MemInv, NEW b \in Bases, NEW cells \in 1 .. MaxIndex,
         Allocatable(Block(b, cells))
  PROVE  /\ b \notin DOMAIN pools
         /\ DOMAIN WithPool(b, cells) = DOMAIN pools \cup {b}
         /\ WithPool(b, cells)[b] = [prev |-> tail, cells |-> cells, used |-> 0]
         /\ \A o \in DOMAIN pools : WithPool(b, cells)[o] = pools[o]
         /\ Counted(WithPool(b, cells))
  <1>1. cells \in Nat /\ 1 <= cells /\ cells <= MaxIndex
    BY MemoryAssumption
  <1>2. b \notin DOMAIN pools
    <2>1. Block(b, cells) = [at |-> b, size |-> 16 + cells * 8]
      BY DEF Block, PoolHeader, Cell, Word
    <2> QED
      BY <1>1, <2>1, NewBase
  <1> DEFINE ps == WithPool(b, cells)
  <1>3. /\ DOMAIN ps = DOMAIN pools \cup {b}
        /\ ps[b] = [prev |-> tail, cells |-> cells, used |-> 0]
        /\ \A o \in DOMAIN pools : ps[o] = pools[o]
    <2>1. AsIndex(cells) = cells
      BY <1>1, IndexKeeps
    <2> QED
      BY <1>2, <2>1 DEF WithPool, NewPool
  <1>4. Counted(ps)
    <2>1. tail \in Bases \cup {NoPool} /\ Counted(pools)
      BY DEF MemInv
    <2> HIDE DEF ps
    <2> QED
      BY <1>1, <1>3, <2>1, MemoryAssumption DEF Counted
  <1> QED
    BY <1>2, <1>3, <1>4

(* A store into pool b of ps, all of which lie apart from the weak pools.  *)
LEMMA StoreKeeps ==
    ASSUME MemInv, NEW ps, NEW b \in DOMAIN ps, NEW s \in Shapes,
           DOMAIN pools \subseteq DOMAIN ps, DOMAIN ps \subseteq Bases,
           \A o \in DOMAIN pools : ps[o] = pools[o],
           Counted(ps), StrongApart(ps), Place(ps, b, s),
           \A w \in weakPools : \A o \in DOMAIN ps :
               Apart(WeakBlock(w), Block(o, ps[o].cells)),
           tail' = b, weakPools' = weakPools
    PROVE  MemInv'
  <1>1. /\ DOMAIN pools' = DOMAIN ps
        /\ \A o \in DOMAIN ps : pools'[o].cells = ps[o].cells
        /\ Counted(pools)'
        /\ \A c \in chunks' : ChunkKept(c)'
        /\ ExtentsApart'
    BY PlaceKeeps
  <1>2. StrongApart(pools)'
    BY <1>1 DEF StrongApart
  <1>3. BlocksApart'
    BY <1>1, <1>2 DEF BlocksApart, MemInv
  <1> QED
    BY <1>1, <1>3 DEF MemInv

LEMMA InitMem == Init => MemInv
  BY DEF Init, MemInv, Counted, BlocksApart, StrongApart, ExtentsApart

LEMMA NextMem == MemInv /\ [Next]_vars => MemInv'
  <1> SUFFICES ASSUME MemInv, [Next]_vars
               PROVE  MemInv'
    OBVIOUS
  <1>1. ASSUME NEW s \in Shapes, StoreInTail(s) PROVE MemInv'
    <2>1. tail \in DOMAIN pools /\ Place(pools, tail, s) /\ tail' = tail /\ weakPools' = weakPools
      BY <1>1 DEF StoreInTail, TailTakes, MemInv
    <2>2. /\ DOMAIN pools \subseteq Bases /\ Counted(pools) /\ StrongApart(pools)
          /\ \A w \in weakPools : \A o \in DOMAIN pools :
                 Apart(WeakBlock(w), Block(o, pools[o].cells))
      BY DEF MemInv, BlocksApart
    <2> QED
      BY <2>1, <2>2, StoreKeeps
  <1>2. ASSUME NEW s \in Shapes, StoreInNew(s) PROVE MemInv'
    <2> DEFINE cells == CellCount(ChunkLayout(s))
    <2>1. PICK b \in Bases : /\ Allocatable(Block(b, cells))
                             /\ Place(WithPool(b, cells), b, s)
                             /\ tail' = b
      BY <1>2 DEF StoreInNew
    <2>2. cells \in 1 .. MaxIndex
      BY <1>2, CellsNeeded, MemoryAssumption DEF StoreInNew
    <2> DEFINE ps == WithPool(b, cells)
    <2>4. /\ DOMAIN ps = DOMAIN pools \cup {b}
          /\ ps[b] = [prev |-> tail, cells |-> cells, used |-> 0]
          /\ \A o \in DOMAIN pools : ps[o] = pools[o]
          /\ Counted(ps)
      <3> HIDE DEF cells
      <3> QED
        BY <2>1, <2>2, PoolOpened
    <2>6. \A o \in DOMAIN pools : /\ Apart(Block(b, cells), Block(o, pools[o].cells))
                                  /\ Apart(Block(o, pools[o].cells), Block(b, cells))
      BY <2>1 DEF Allocatable, Apart
    <2>7. StrongApart(ps)
      <3> SUFFICES ASSUME NEW o \in DOMAIN ps, NEW r \in DOMAIN ps \ {o}
                   PROVE  Apart(Block(o, ps[o].cells), Block(r, ps[r].cells))
        BY DEF StrongApart
      <3> HIDE DEF cells, ps
      <3>1. CASE o = b
        BY <2>4, <2>6, <3>1
      <3>2. CASE r = b
        BY <2>4, <2>6, <3>2
      <3>3. CASE o # b /\ r # b
        BY <2>4, <3>3 DEF MemInv, BlocksApart, StrongApart
      <3> QED
        BY <3>1, <3>2, <3>3
    <2>8. \A w \in weakPools : \A o \in DOMAIN ps :
              Apart(WeakBlock(w), Block(o, ps[o].cells))
      <3> SUFFICES ASSUME NEW w \in weakPools, NEW o \in DOMAIN ps
                   PROVE  Apart(WeakBlock(w), Block(o, ps[o].cells))
        OBVIOUS
      <3> HIDE DEF cells, ps
      <3>1. CASE o = b
        BY <2>1, <2>4, <3>1 DEF Allocatable, Apart
      <3>2. CASE o # b
        BY <2>4, <3>2 DEF MemInv, BlocksApart
      <3> QED
        BY <3>1, <3>2
    <2>9. DOMAIN ps \subseteq Bases /\ weakPools' = weakPools /\ Place(ps, b, s)
      BY <1>2, <2>1, <2>4 DEF MemInv, StoreInNew
    <2> HIDE DEF ps
    <2> QED
      BY <2>1, <2>4, <2>7, <2>8, <2>9, StoreKeeps
  <1>3. ASSUME NEW s \in Shapes, Refuse(s) PROVE MemInv'
    BY <1>3 DEF Refuse, MemInv, Counted, BlocksApart, StrongApart, ExtentsApart, ChunkKept, FreeAt
  <1>4. CASE Reclaim
    <2>1. /\ DOMAIN pools' \subseteq DOMAIN pools
          /\ \A b \in DOMAIN pools' : pools'[b] = pools[b]
          /\ tail' = NoPool /\ chunks' = {} /\ weakPools' = weakPools
      BY <1>4 DEF Reclaim
    <2> QED
      BY <2>1 DEF MemInv, Counted, BlocksApart, StrongApart, ExtentsApart
  <1>5. CASE OpenWeakPool
    <2>1. PICK b \in Bases : Allocatable(WeakBlock(b)) /\ weakPools' = weakPools \cup {b}
      BY <1>5 DEF OpenWeakPool
    <2>2. /\ MaxCount \in 1 .. MaxIndex /\ MaxCount' = MaxCount
          /\ UNCHANGED <<pools, tail, chunks>>
      BY <1>5 DEF OpenWeakPool
    <2>3. /\ \A o \in weakPools : /\ Apart(WeakBlock(b), WeakBlock(o))
                                   /\ Apart(WeakBlock(o), WeakBlock(b))
          /\ \A o \in DOMAIN pools : Apart(WeakBlock(b), Block(o, pools[o].cells))
      BY <2>1 DEF Allocatable, Apart
    <2>4. BlocksApart'
      BY <2>1, <2>2, <2>3 DEF BlocksApart, MemInv
    <2> QED
      BY <2>1, <2>2, <2>4 DEF MemInv, Counted, ExtentsApart, ChunkKept, FreeAt
  <1>6. CASE FreeWeakPool
    BY <1>6 DEF FreeWeakPool, MemInv, Counted, BlocksApart, StrongApart, ExtentsApart, ChunkKept, FreeAt
  <1>7. CASE UNCHANGED vars
    BY <1>7 DEF vars, MemInv, Counted, BlocksApart, StrongApart, ExtentsApart, ChunkKept, FreeAt
  <1> QED
    BY <1>1, <1>2, <1>3, <1>4, <1>5, <1>6, <1>7 DEF Next

(* The invariant of the memory: what is counted, where the blocks are, and *)
(* where each chunk lies in its pool.                                      *)
THEOREM MemInvariant == Spec => []MemInv
  <1> QED
    BY InitMem, NextMem, PTL DEF Spec

(* A position once given out is not given to another object: chunks lie in *)
(* the cells of their pools and do not overlap, whatever their alignments  *)
(* are and wherever the allocator puts the pools.                          *)
THEOREM NoChunksOverlap == Spec => []ChunksApart
  <1>1. MemInv => ChunksApart
    <2> SUFFICES ASSUME MemInv, NEW c \in chunks
                 PROVE  /\ c.at >= CellsAt(c.pool)
                        /\ c.at + ChunkLayout(c.shape).size <= CellsEnd(pools, c.pool)
                        /\ \A d \in chunks \ {c} : Apart(Extent(c), Extent(d))
      BY DEF ChunksApart
    <2>1. ChunkKept(c)
      BY DEF MemInv
    <2>2. /\ FreeAt(pools, c.pool) \in Int /\ CellsEnd(pools, c.pool) \in Int
          /\ FreeAt(pools, c.pool) <= CellsEnd(pools, c.pool)
      BY <2>1, MemoryAssumption
         DEF MemInv, ChunkKept, Counted, FreeAt, CellsEnd, CellsAt, PoolHeader, Word, Cell
    <2>3. ChunkLayout(c.shape).size \in Int
      BY <2>1, LayoutFacts DEF ChunkKept
    <2> QED
      BY <2>1, <2>2, <2>3 DEF ChunkKept, ExtentsApart, MemInv
  <1> QED
    BY <1>1, MemInvariant, PTL

(* The order in a chunk's header leads back to the pool it was taken from, *)
(* so that the chunk's lease is returned to the right one.                 *)
THEOREM OrderIsEnough == Spec => []OrderFindsPool
  <1>1. MemInv => OrderFindsPool
    <2> SUFFICES ASSUME MemInv, NEW c \in chunks
                 PROVE  OfChunk(c) = c.pool
      BY DEF OrderFindsPool
    <2>1. ChunkKept(c) /\ c.pool \in Nat
      BY MemoryAssumption DEF MemInv, ChunkKept
    <2> QED
      BY <2>1 DEF ChunkKept, OfChunk, CellsAt, PoolHeader, Cell, Word
  <1> QED
    BY <1>1, MemInvariant, PTL

(* Header, metadata, hook and data of an object lie inside the memory that *)
(* was asked for and not on top of one another, at whatever size and       *)
(* alignment of the type and its hook.                                     *)
THEOREM NoPartsOverlap == Spec => []PartsApart
  <1>1. MemInv => PartsApart
    <2> SUFFICES ASSUME MemInv, NEW c \in chunks
                 PROVE  \A p \in Written(c) :
                            /\ p.at >= c.at
                            /\ p.at + p.size <= c.at + ChunkLayout(c.shape).size
                            /\ \A q \in Written(c) \ {p} : Apart(p, q)
      BY DEF PartsApart
    <2> DEFINE s == c.shape
               off == PredropOffset(s.hook, s.meta)
               total == ChunkLayout(s).size
    <2>1. ChunkKept(c) /\ s \in Shapes /\ c.at \in Int
      BY DEF MemInv, ChunkKept
    <2>2. /\ s.meta \in BOOLEAN /\ s.hook.present \in BOOLEAN /\ s.size \in Nat
          /\ s.hook.size \in Nat /\ s.hook.align \in Nat \ {0}
      BY <2>1, MemoryAssumption
    <2>3. /\ BeforeData(s).size \in Int /\ 24 <= BeforeData(s).size
          /\ DataOffset(s) \in Int /\ BeforeData(s).size <= DataOffset(s)
          /\ total \in Int /\ total = DataOffset(s) + s.size
      BY <2>1, LayoutFacts DEF Header, Word
    <2> HIDE DEF s
    <2>4. /\ off \in Int /\ 24 <= off /\ (s.meta => 32 <= off)
      <3>1. CASE s.meta
        <4>1. off = AlignUp(32, s.hook.align)
          BY <3>1 DEF PredropOffset, Header, Word
        <4>2. AlignUp(32, s.hook.align) \in Int /\ 32 <= AlignUp(32, s.hook.align)
          <5>1. 32 \in Int /\ s.hook.align \in Nat \ {0}
            BY <2>2
          <5> QED
            BY <5>1, RoundUp, Zenon
        <4> HIDE DEF off
        <4> QED
          BY <4>1, <4>2
      <3>2. CASE ~s.meta
        <4>1. off = AlignUp(24, s.hook.align)
          BY <3>2 DEF PredropOffset, Header, Word
        <4>2. AlignUp(24, s.hook.align) \in Int /\ 24 <= AlignUp(24, s.hook.align)
          <5>1. 24 \in Int /\ s.hook.align \in Nat \ {0}
            BY <2>2
          <5> QED
            BY <5>1, RoundUp, Zenon
        <4> HIDE DEF off
        <4> QED
          BY <3>2, <4>1, <4>2
      <3> QED
        BY <3>1, <3>2
    <2>5. /\ s.meta => 32 <= BeforeData(s).size
          /\ s.hook.present => off + s.hook.size <= BeforeData(s).size
      <3> DEFINE d == IF s.meta THEN Extend(Header, Meta) ELSE Header
      <3>1. d.size = 24 + (IF s.meta THEN 8 ELSE 0)
        BY <2>2 DEF Extend, Header, Meta, Word, AlignUp, Larger
      <3>2. CASE ~s.hook.present
        BY <2>2, <2>3, <3>1, <3>2 DEF BeforeData
      <3>3. CASE s.hook.present
        <4>1. BeforeData(s).size = AlignUp(d.size, s.hook.align) + s.hook.size
          BY <3>3 DEF BeforeData, Extend
        <4>2. AlignUp(d.size, s.hook.align) = off
          BY <2>2, <3>1 DEF PredropOffset, Header, Word
        <4> QED
          BY <2>2, <2>4, <4>1, <4>2
      <3> QED
        BY <2>2, <3>2, <3>3
    <2>6. /\ HeaderOf(c) = [at |-> c.at, size |-> 24, align |-> 8]
          /\ MetaOf(c) = [at |-> c.at + 24, size |-> 8, align |-> 8]
          /\ PredropOf(c, s.meta) = [at |-> c.at + off, size |-> s.hook.size,
                                     align |-> s.hook.align]
          /\ DataOf(c) = [at |-> c.at + DataOffset(s), size |-> s.size,
                          align |-> s.align]
      BY <2>1 DEF s, HeaderOf, MetaOf, PredropOf, DataOf, Header, Word, ChunkKept
    <2>7. \A p \in Written(c) :
              \/ p = HeaderOf(c)
              \/ s.meta /\ p = MetaOf(c)
              \/ s.hook.present /\ p = PredropOf(c, s.meta)
              \/ p = DataOf(c)
      BY <2>2 DEF s, Written, Parts
    <2> HIDE DEF off, total
    <2>8. \A p \in Written(c) : p.at >= c.at /\ p.at + p.size <= c.at + total
      BY <2>1, <2>2, <2>3, <2>4, <2>5, <2>6, <2>7
    <2>9. \A p, q \in Written(c) : p # q => Apart(p, q)
      BY <2>1, <2>2, <2>3, <2>4, <2>5, <2>6, <2>7 DEF Apart
    <2> QED
      BY <2>8, <2>9 DEF s, total
  <1> QED
    BY <1>1, MemInvariant, PTL

(* A slot leads back to its own pool, from its address and its index, no   *)
(* other pool claims it, and it lies within nobody else's memory.          *)
THEOREM SlotsAreFound == Spec => []SlotsFindPool
  <1>1. MemInv => SlotsFindPool
    <2> SUFFICES ASSUME MemInv, NEW b \in weakPools, NEW i \in 0 .. MaxCount - 1
                 PROVE  LET slot == SlotAt(b, i)
                            bytes == [at |-> slot.at, size |-> SlotSize]
                        IN  /\ OfSlot(slot) = b
                            /\ \A o \in weakPools :
                                   IndexOf(o, slot) = IF o = b THEN i ELSE NoIndex
                            /\ slot.at >= b + WeakHeader
                            /\ slot.at + SlotSize <= b + WeakBlock(b).size
                            /\ \A o \in weakPools \ {b} : Apart(bytes, WeakBlock(o))
                            /\ \A o \in DOMAIN pools :
                                   Apart(bytes, Block(o, pools[o].cells))
      BY DEF SlotsFindPool
    <2> DEFINE slot == SlotAt(b, i)
               bytes == [at |-> slot.at, size |-> SlotSize]
    <2>1. /\ \A o \in weakPools : o \in Nat /\ o \in Bases
          /\ HeaderBytes \in Nat /\ WeakHeader <= HeaderBytes /\ WeakHeader \in Nat
          /\ MaxCount \in Nat /\ MaxCount <= MaxIndex /\ MaxIndex \in Nat
          /\ i \in Nat /\ i < MaxCount
          /\ \A o \in weakPools :
                 WeakBlock(o) = [at |-> o, size |-> HeaderBytes + MaxCount * 16]
      BY WeakSizes, MemoryAssumption DEF MemInv
    <2>2. slot = [at |-> b + HeaderBytes + i * 16, order |-> i]
      BY <2>1, IndexKeeps DEF SlotAt, SlotSize, Word
    <2>3. OfSlot(slot) = b
      BY <2>1, <2>2 DEF OfSlot, SlotSize, Word
    <2>4. \A o \in weakPools \ {b} :
              o + HeaderBytes + MaxCount * 16 <= b \/ b + HeaderBytes + MaxCount * 16 <= o
      <3> SUFFICES ASSUME NEW o \in weakPools \ {b}
                   PROVE  o + HeaderBytes + MaxCount * 16 <= b
                            \/ b + HeaderBytes + MaxCount * 16 <= o
        OBVIOUS
      <3>1. Apart(WeakBlock(b), WeakBlock(o))
        BY DEF MemInv, BlocksApart
      <3>2. o \in Nat /\ b \in Nat
        BY <2>1
      <3> QED
        BY <2>1, <3>1, <3>2 DEF Apart
    <2>5. \A o \in weakPools : IndexOf(o, slot) = IF o = b THEN i ELSE NoIndex
      <3> SUFFICES ASSUME NEW o \in weakPools
                   PROVE  IndexOf(o, slot) = IF o = b THEN i ELSE NoIndex
        OBVIOUS
      <3>1. CASE o = b
        <4>1. /\ ~(slot.at < b + HeaderBytes)
              /\ ~(slot.at >= b + HeaderBytes + MaxCount * 16)
              /\ slot.at - (b + HeaderBytes) = 16 * i
          BY <2>1, <2>2
        <4>2. (16 * i) % 16 = 0 /\ (16 * i) \div 16 = i /\ AsIndex(i) = i
          BY <2>1, IndexKeeps
        <4> HIDE DEF slot
        <4> QED
          BY <3>1, <4>1, <4>2 DEF IndexOf, SlotSize, Word
      <3>2. CASE o # b
        <4>1. slot.at < o + HeaderBytes \/ slot.at >= o + HeaderBytes + MaxCount * 16
          BY <2>1, <2>2, <2>4, <3>2
        <4> HIDE DEF slot
        <4> QED
          BY <3>2, <4>1 DEF IndexOf, SlotSize, Word
      <3> QED
        BY <3>1, <3>2
    <2>6. /\ slot.at >= b + WeakHeader
          /\ slot.at + SlotSize <= b + WeakBlock(b).size
      BY <2>1, <2>2 DEF SlotSize, Word
    <2>7. \A o \in weakPools \ {b} : Apart(bytes, WeakBlock(o))
      <3> SUFFICES ASSUME NEW o \in weakPools \ {b}
                   PROVE  Apart(bytes, WeakBlock(o))
        OBVIOUS
      <3>1. bytes.at + 16 <= o \/ o + HeaderBytes + MaxCount * 16 <= bytes.at
        BY <2>1, <2>2, <2>4
      <3>2. bytes.size = 16
        BY DEF SlotSize, Word
      <3> QED
        BY <2>1, <3>1, <3>2 DEF Apart
    <2>8. \A o \in DOMAIN pools : Apart(bytes, Block(o, pools[o].cells))
      <3> SUFFICES ASSUME NEW o \in DOMAIN pools
                   PROVE  Apart(bytes, Block(o, pools[o].cells))
        OBVIOUS
      <3>1. Apart(WeakBlock(b), Block(o, pools[o].cells))
        BY DEF MemInv, BlocksApart
      <3>2. /\ o \in Nat /\ pools[o].cells \in Nat /\ b \in Nat
            /\ Block(o, pools[o].cells) = [at |-> o, size |-> 16 + pools[o].cells * 8]
        BY <2>1, MemoryAssumption DEF MemInv, Counted, Block, PoolHeader, Word, Cell
      <3>3. \/ b + HeaderBytes + MaxCount * 16 <= o
            \/ o + 16 + pools[o].cells * 8 <= b
        BY <2>1, <3>1, <3>2 DEF Apart
      <3>4. /\ bytes.size = 16 /\ bytes.at = b + HeaderBytes + i * 16
        BY <2>2 DEF SlotSize, Word
      <3> QED
        BY <2>1, <3>2, <3>3, <3>4 DEF Apart
    <2> QED
      BY <2>3, <2>5, <2>6, <2>7, <2>8
  <1> QED
    BY <1>1, MemInvariant, PTL

-----------------------------------------------------------------------------
(* A chunk is aligned as each of its parts wants it,                       *)
LEMMA LayoutAligned ==
  ASSUME NEW s \in Shapes
  PROVE  /\ ChunkLayout(s).align \in Nat \ {0}
         /\ MultipleOf(ChunkLayout(s).align, 8)
         /\ MultipleOf(ChunkLayout(s).align, s.align)
         /\ s.hook.present => MultipleOf(ChunkLayout(s).align, s.hook.align)
  <1> DEFINE l == ChunkLayout(s).align
  <1>1. BeforeData(s).align = IF s.hook.present THEN Larger(8, s.hook.align) ELSE 8
    BY DEF BeforeData, Extend, Header, Meta, Word, Larger
  <1>2. l = Larger(BeforeData(s).align, s.align)
    BY DEF ChunkLayout
  <1>3. /\ s.align \in Nat \ {0} /\ s.hook.align \in Nat \ {0}
        /\ \A a, b \in {8, s.align, s.hook.align} : a <= b => b % a = 0
    BY MemoryAssumption
  <1>4. /\ l \in {8, s.align, s.hook.align} /\ 8 <= l /\ s.align <= l
        /\ s.hook.present => s.hook.align <= l
    <2> HIDE DEF l
    <2> QED
      BY <1>1, <1>2, <1>3 DEF Larger
  <1> HIDE DEF l
  <1>5. l \in Int /\ 8 \in Nat \ {0}
    BY <1>3, <1>4
  <1>6. MultipleOf(l, 8)
    BY <1>3, <1>4, <1>5, MultipleMod
  <1>7. MultipleOf(l, s.align)
    BY <1>3, <1>4, <1>5, MultipleMod
  <1>8. s.hook.present => MultipleOf(l, s.hook.align)
    BY <1>3, <1>4, <1>5, MultipleMod
  <1> QED
    BY <1>3, <1>4, <1>6, <1>7, <1>8 DEF l

(* and so is the offset of the data, although it is rounded up once more.  *)
LEMMA DataAligned ==
  ASSUME NEW s \in Shapes
  PROVE  MultipleOf(DataOffset(s), s.align)
  <1> DEFINE n == AlignUp(BeforeData(s).size, s.align)
  <1>1. /\ s.align \in Nat \ {0} /\ BeforeData(s).size \in Int
        /\ s.align <= 8 => 8 % s.align = 0
        /\ s.align \in {1, 2, 4} \/ s.align % 8 = 0
    BY MemoryAssumption, LayoutFacts, Alignments
  <1>2. n \in Int /\ MultipleOf(n, s.align)
    BY <1>1, RoundUp, RoundMultiple
  <1>3. DataOffset(s) = AlignUp(n, 8) /\ DataOffset(s) \in Int
    BY LayoutFacts DEF DataOffset, Word
  <1> HIDE DEF n
  <1>4. CASE s.align \in {1, 2, 4}
    <2>1. MultipleOf(8, s.align) /\ MultipleOf(DataOffset(s), 8)
      <3>1. 8 % s.align = 0 /\ 8 \in Int /\ 8 \in Nat \ {0}
        BY <1>1, <1>4
      <3> QED
        BY <1>1, <1>2, <1>3, <3>1, MultipleMod, RoundMultiple
    <2> QED
      BY <1>1, <1>3, <2>1, MultipleTrans
  <1>5. CASE s.align % 8 = 0
    <2>1. MultipleOf(n, 8)
      <3>1. MultipleOf(s.align, 8)
        BY <1>1, <1>5, MultipleMod
      <3> QED
        BY <1>1, <1>2, <3>1, MultipleTrans
    <2>2. n % 8 = 0
      BY <1>2, <2>1, MultipleMod
    <2>3. AlignUp(n, 8) = n
      BY <1>2, <2>2 DEF AlignUp
    <2> QED
      BY <1>2, <1>3, <2>3
  <1> QED
    BY <1>1, <1>4, <1>5

(* Who goes by the flags finds each part where it was written, and aligned *)
(* as its type wants it: for every size and alignment of types and hooks.  *)
THEOREM PartsAreFound == Spec => []FoundWhereWritten
  <1>1. MemInv => FoundWhereWritten
    <2> SUFFICES ASSUME MemInv, NEW c \in chunks
                 PROVE  /\ ReadBack(c) = Written(c)
                        /\ \A p \in Written(c) : p.at % p.align = 0
      BY DEF FoundWhereWritten
    <2> DEFINE s == c.shape
               off == PredropOffset(s.hook, s.meta)
    <2>1. ChunkKept(c) /\ s \in Shapes /\ c.at \in Int
      BY DEF MemInv, ChunkKept
    <2>2. /\ s.meta \in BOOLEAN /\ s.hook.present \in BOOLEAN
          /\ s.align \in Nat \ {0} /\ s.hook.align \in Nat \ {0}
          /\ DataOffset(s) \in Int
      BY <2>1, MemoryAssumption, LayoutFacts
    <2>3. ("meta" \in c.flags) = s.meta
      BY <2>1, <2>2 DEF ChunkKept, FlagsOf
    <2>4. ReadBack(c) = Written(c)
      BY <2>3 DEF ReadBack, Written
    <2>5. /\ MultipleOf(c.at, 8) /\ MultipleOf(c.at, s.align)
          /\ s.hook.present => MultipleOf(c.at, s.hook.align)
      <3>1. MultipleOf(c.at, ChunkLayout(s).align)
        BY <2>1 DEF ChunkKept
      <3>2. /\ ChunkLayout(s).align \in Int
            /\ MultipleOf(ChunkLayout(s).align, 8)
            /\ MultipleOf(ChunkLayout(s).align, s.align)
            /\ s.hook.present => MultipleOf(ChunkLayout(s).align, s.hook.align)
        BY <2>1, LayoutAligned
      <3> HIDE DEF s
      <3> QED
        BY <2>1, <2>2, <3>1, <3>2, MultipleTrans
    <2>6. off \in Int /\ MultipleOf(off, s.hook.align)
      <3> DEFINE n == Header.size + (IF s.meta THEN Word ELSE 0)
      <3>1. n \in Int
        BY DEF Header, Word
      <3>2. off = AlignUp(n, s.hook.align)
        BY DEF PredropOffset
      <3> HIDE DEF n, s, off
      <3> QED
        BY <2>2, <3>1, <3>2, RoundUp, RoundMultiple
    <2>7. /\ HeaderOf(c) = [at |-> c.at, size |-> 24, align |-> 8]
          /\ MetaOf(c) = [at |-> c.at + 24, size |-> 8, align |-> 8]
          /\ PredropOf(c, s.meta) = [at |-> c.at + off, size |-> s.hook.size,
                                     align |-> s.hook.align]
          /\ DataOf(c) = [at |-> c.at + DataOffset(s), size |-> s.size,
                          align |-> s.align]
      BY <2>1 DEF HeaderOf, MetaOf, PredropOf, DataOf, Header, Word, ChunkKept
    <2>8. \A p \in Written(c) :
              \/ p = HeaderOf(c)
              \/ p = MetaOf(c)
              \/ s.hook.present /\ p = PredropOf(c, s.meta)
              \/ p = DataOf(c)
      BY <2>2 DEF Written, Parts
    <2> HIDE DEF off, s
    <2>9. c.at % 8 = 0 /\ (c.at + 24) % 8 = 0
      <3>1. c.at % 8 = 0
        BY <2>1, <2>5, MultipleMod
      <3> QED
        BY <2>1, <3>1
    <2>10. s.hook.present => (c.at + off) % s.hook.align = 0
      <3> SUFFICES ASSUME s.hook.present PROVE (c.at + off) % s.hook.align = 0
        OBVIOUS
      <3>0. PICK x \in Int, a \in Nat \ {0} : x = c.at /\ a = s.hook.align
        BY <2>1, <2>2
      <3>1. MultipleOf(c.at + off, s.hook.align) /\ c.at + off \in Int
        <4>1. MultipleOf(x, a) /\ MultipleOf(off, a) /\ a \in Int /\ off \in Int
          BY <2>5, <2>6, <3>0
        <4>2. MultipleOf(x + off, a)
          BY <4>1, MultipleSum
        <4> QED
          BY <3>0, <4>1, <4>2
      <3> QED
        BY <2>2, <3>1, MultipleMod
    <2>11. (c.at + DataOffset(s)) % s.align = 0
      <3>1. MultipleOf(DataOffset(s), s.align)
        BY <2>1, DataAligned
      <3>0. PICK x \in Int, d \in Int, a \in Nat \ {0} :
              x = c.at /\ d = DataOffset(s) /\ a = s.align
        BY <2>1, <2>2
      <3>2. MultipleOf(c.at + DataOffset(s), s.align) /\ c.at + DataOffset(s) \in Int
        <4>1. MultipleOf(x, a) /\ MultipleOf(d, a) /\ a \in Int
          BY <2>5, <3>0, <3>1
        <4>2. MultipleOf(x + d, a)
          BY <4>1, MultipleSum
        <4> QED
          BY <3>0, <4>2
      <3> QED
        BY <2>2, <3>2, MultipleMod
    <2>12. \A p \in Written(c) : p.at % p.align = 0
      BY <2>7, <2>8, <2>9, <2>10, <2>11
    <2> QED
      BY <2>4, <2>12
  <1> QED
    BY <1>1, MemInvariant, PTL

-----------------------------------------------------------------------------
(* The chain of the strong pools: the ranks rk put them in the order they  *)
(* were opened in. Each points to the one right before it, the first to    *)
(* none, and tail is the last.                                             *)
ChainOrder(rk) ==
    /\ \A b, o \in DOMAIN pools : rk[b] = rk[o] => b = o
    /\ tail = NoPool => DOMAIN pools = {}
    /\ tail # NoPool => \A o \in DOMAIN pools : rk[o] <= rk[tail]
    /\ \A b \in DOMAIN pools : pools[b].prev = NoPool =>
           \A o \in DOMAIN pools : rk[b] <= rk[o]
    /\ \A b \in DOMAIN pools : pools[b].prev # NoPool =>
           /\ pools[b].prev \in DOMAIN pools
           /\ \A o \in DOMAIN pools : rk[o] < rk[b] <=> rk[o] <= rk[pools[b].prev]

PoolInv ==
    /\ head \in DOMAIN pools \cup {NoPool}
    /\ \A b \in DOMAIN pools : 1 <= pools[b].cells
    /\ result \in {"none", "stored", "refused"}
    /\ \E rk \in [Bases -> Nat] : ChainOrder(rk)

(* A function that satisfies the equation of Chain has, for each pool, the *)
(* pools that are not younger: by induction along the ranks.               *)
LEMMA ChainValue ==
  ASSUME MemInv, NEW rk \in [Bases -> Nat], ChainOrder(rk), NEW g,
         \A b \in DOMAIN pools \cup {NoPool} :
             g[b] = IF b = NoPool THEN {} ELSE {b} \cup g[pools[b].prev]
  PROVE  \A b \in DOMAIN pools : g[b] = {o \in DOMAIN pools : rk[o] <= rk[b]}
  <1> DEFINE f(b) == {o \in DOMAIN pools : rk[o] <= rk[b]}
             S == {n \in Nat : \A b \in DOMAIN pools : rk[b] < n => g[b] = f(b)}
  <1>1. \A b \in DOMAIN pools : b \in Bases /\ b # NoPool /\ rk[b] \in Nat
    BY MemoryAssumption DEF MemInv
  <1>2. 0 \in S
    BY <1>1
  <1>3. ASSUME NEW n \in Nat, n \in S PROVE n + 1 \in S
    <2> SUFFICES ASSUME NEW b \in DOMAIN pools, rk[b] < n + 1
                 PROVE  g[b] = f(b)
      OBVIOUS
    <2> DEFINE p == pools[b].prev
    <2>1. g[b] = {b} \cup g[p]
      BY <1>1
    <2>2. CASE p = NoPool
      <3>1. g[p] = {}
        BY <2>2
      <3>2. \A o \in DOMAIN pools : rk[b] <= rk[o]
        BY <2>2 DEF ChainOrder
      <3>3. \A o \in f(b) : o = b
        BY <1>1, <3>2 DEF ChainOrder
      <3>4. b \in f(b)
        BY <1>1
      <3> HIDE DEF f
      <3> QED
        BY <2>1, <3>1, <3>3, <3>4
    <2>3. CASE p # NoPool
      <3>1. /\ p \in DOMAIN pools
            /\ \A o \in DOMAIN pools : rk[o] < rk[b] <=> rk[o] <= rk[p]
        BY <2>3 DEF ChainOrder
      <3>2. rk[p] < n
        BY <1>1, <3>1
      <3>3. g[p] = f(p)
        BY <1>3, <3>1, <3>2
      <3>4. \A o \in DOMAIN pools : o \in f(b) <=> o = b \/ o \in f(p)
        BY <1>1, <3>1 DEF ChainOrder
      <3>5. \A o \in f(b) \cup f(p) \cup {b} : o \in DOMAIN pools
        OBVIOUS
      <3> HIDE DEF f
      <3> QED
        BY <2>1, <3>3, <3>4, <3>5
    <2> QED
      BY <2>2, <2>3
  <1>4. Nat \subseteq S
    <2> HIDE DEF S
    <2> QED
      BY <1>2, <1>3, SetInduction
  <1> SUFFICES ASSUME NEW b \in DOMAIN pools PROVE g[b] = f(b)
    OBVIOUS
  <1>5. rk[b] + 1 \in S /\ rk[b] < rk[b] + 1
    BY <1>1, <1>4
  <1> QED
    BY <1>5

(* So the walk from the tail back meets every pool.                        *)
LEMMA ChainIsAll == MemInv /\ PoolInv => Chain[tail] = DOMAIN pools
  <1> SUFFICES ASSUME MemInv, PoolInv PROVE Chain[tail] = DOMAIN pools
    OBVIOUS
  <1>1. PICK rk \in [Bases -> Nat] : ChainOrder(rk)
    BY DEF PoolInv
  <1> DEFINE D == DOMAIN pools \cup {NoPool}
             Of(g) == [b \in D |-> IF b = NoPool THEN {}
                                   ELSE {b} \cup g[pools[b].prev]]
             f == [b \in D |-> IF b = NoPool THEN {}
                               ELSE {o \in DOMAIN pools : rk[o] <= rk[b]}]
  <1>2. \A b \in DOMAIN pools : b \in Bases /\ b # NoPool /\ rk[b] \in Nat
    BY MemoryAssumption DEF MemInv
  <1>3. f = Of(f)
    <2> SUFFICES ASSUME NEW b \in DOMAIN pools
                 PROVE  {o \in DOMAIN pools : rk[o] <= rk[b]}
                            = {b} \cup f[pools[b].prev]
      BY <1>2
    <2> DEFINE p == pools[b].prev
    <2>1. CASE p = NoPool
      <3>1. f[p] = {}
        BY <2>1
      <3>2. \A o \in DOMAIN pools : rk[b] <= rk[o]
        BY <1>1, <2>1 DEF ChainOrder
      <3>3. \A o \in DOMAIN pools : rk[o] <= rk[b] <=> o = b
        BY <1>1, <1>2, <3>2 DEF ChainOrder
      <3> QED
        BY <3>1, <3>3
    <2>2. CASE p # NoPool
      <3>1. /\ p \in DOMAIN pools
            /\ \A o \in DOMAIN pools : rk[o] < rk[b] <=> rk[o] <= rk[p]
        BY <1>1, <2>2 DEF ChainOrder
      <3>2. f[p] = {o \in DOMAIN pools : rk[o] <= rk[p]}
        BY <2>2, <3>1
      <3>3. \A o \in DOMAIN pools : rk[o] <= rk[b] <=> o = b \/ rk[o] <= rk[p]
        BY <1>1, <1>2, <3>1 DEF ChainOrder
      <3> QED
        BY <3>2, <3>3
    <2> QED
      BY <2>1, <2>2
  <1>4. Chain = CHOOSE g : g = Of(g)
    BY DEF Chain
  <1>5. Chain = Of(Chain)
    <2> HIDE DEF f, Of
    <2> QED
      BY <1>3, <1>4
  <1>6. \A b \in D : Chain[b] = IF b = NoPool THEN {} ELSE {b} \cup Chain[pools[b].prev]
    BY <1>5
  <1>7. \A b \in DOMAIN pools : Chain[b] = {o \in DOMAIN pools : rk[o] <= rk[b]}
    BY <1>1, <1>6, ChainValue
  <1>8. CASE tail = NoPool
    BY <1>1, <1>6, <1>8 DEF ChainOrder
  <1>9. CASE tail # NoPool
    <2>1. tail \in DOMAIN pools /\ \A o \in DOMAIN pools : rk[o] <= rk[tail]
      BY <1>1, <1>9 DEF ChainOrder, MemInv
    <2> QED
      BY <1>7, <2>1
  <1> QED
    BY <1>8, <1>9

(* A store into a new pool puts it behind the tail; the others keep their  *)
(* ranks.                                                                  *)
LEMMA LinkedBehind ==
  ASSUME MemInv, PoolInv, NEW b \in Bases, b \notin DOMAIN pools,
         DOMAIN pools' = DOMAIN pools \cup {b},
         pools'[b].prev = tail,
         \A o \in DOMAIN pools : pools'[o].prev = pools[o].prev,
         tail' = b
  PROVE  \E rk \in [Bases -> Nat] : ChainOrder(rk)'
  <1>1. PICK rk \in [Bases -> Nat] : ChainOrder(rk)
    BY DEF PoolInv
  <1>2. \A o \in DOMAIN pools : o \in Bases /\ o # NoPool /\ o # b /\ rk[o] \in Nat
    BY MemoryAssumption DEF MemInv
  <1>3. tail \in DOMAIN pools \cup {NoPool} /\ b # NoPool
    BY MemoryAssumption DEF MemInv
  <1> DEFINE n == IF tail = NoPool THEN 0 ELSE rk[tail] + 1
  <1>0. PICK top \in Nat, new \in [Bases -> Nat] :
            top = n /\ new = [rk EXCEPT ![b] = top]
    <2>1. n \in Nat /\ [rk EXCEPT ![b] = n] \in [Bases -> Nat]
      BY <1>2, <1>3
    <2> HIDE DEF n
    <2> QED
      BY <2>1
  <1>4. /\ top \in Nat /\ new \in [Bases -> Nat] /\ new[b] = top
        /\ \A o \in DOMAIN pools : new[o] = rk[o]
    BY <1>0, <1>2, <1>3
  <1>5. \A o \in DOMAIN pools : rk[o] < top
    BY <1>0, <1>1, <1>2, <1>3 DEF ChainOrder
  <1> HIDE DEF n
  <1>6. \A o, q \in DOMAIN pools' : new[o] = new[q] => o = q
    <2>1. \A o, q \in DOMAIN pools : new[o] = new[q] => o = q
      BY <1>1, <1>4 DEF ChainOrder
    <2>2. \A o \in DOMAIN pools : new[o] # new[b]
      BY <1>2, <1>4, <1>5
    <2> QED
      BY <2>1, <2>2
  <1>7. \A o \in DOMAIN pools' : new[o] <= new[b]
    BY <1>2, <1>4, <1>5
  <1>8. ASSUME NEW q \in DOMAIN pools', pools'[q].prev = NoPool
        PROVE  \A o \in DOMAIN pools' : new[q] <= new[o]
    <2>1. CASE q = b
      BY <1>1, <1>4, <1>8, <2>1 DEF ChainOrder
    <2>2. CASE q \in DOMAIN pools
      <3>1. \A o \in DOMAIN pools : rk[q] <= rk[o]
        BY <1>1, <1>8, <2>2 DEF ChainOrder
      <3> QED
        BY <1>2, <1>4, <1>5, <2>2, <3>1
    <2> QED
      BY <2>1, <2>2
  <1>9. ASSUME NEW q \in DOMAIN pools', pools'[q].prev # NoPool
        PROVE  /\ pools'[q].prev \in DOMAIN pools'
               /\ \A o \in DOMAIN pools' : new[o] < new[q] <=> new[o] <= new[pools'[q].prev]
    <2>1. CASE q = b
      <3>1. /\ tail \in DOMAIN pools /\ top = rk[tail] + 1
            /\ \A o \in DOMAIN pools : rk[o] <= rk[tail]
        BY <1>0, <1>1, <1>3, <1>9, <2>1 DEF ChainOrder, n
      <3> QED
        BY <1>2, <1>4, <2>1, <3>1
    <2>2. CASE q \in DOMAIN pools
      <3> DEFINE p == pools[q].prev
      <3>1. /\ p \in DOMAIN pools /\ pools'[q].prev = p
            /\ \A o \in DOMAIN pools : rk[o] < rk[q] <=> rk[o] <= rk[p]
        BY <1>1, <1>9, <2>2 DEF ChainOrder
      <3> HIDE DEF p
      <3>2. ~ (new[b] < new[q]) /\ ~ (new[b] <= new[p])
        BY <1>2, <1>4, <1>5, <2>2, <3>1
      <3> QED
        BY <1>4, <2>2, <3>1, <3>2
    <2> QED
      BY <2>1, <2>2
  <1>10. ChainOrder(new)'
    BY <1>3, <1>6, <1>7, <1>8, <1>9 DEF ChainOrder
  <1> QED
    BY <1>4, <1>10

(* A step that leaves pools and tail alone leaves the order.               *)
LEMMA OrderKept ==
  ASSUME NEW rk, ChainOrder(rk), DOMAIN pools' = DOMAIN pools,
         \A o \in DOMAIN pools : pools'[o].prev = pools[o].prev,
         tail' = tail
  PROVE  ChainOrder(rk)'
  BY DEF ChainOrder

(* What Place does to the pools: the counts of used cells change.          *)
LEMMA PlaceLinks ==
  ASSUME NEW ps, NEW b \in DOMAIN ps, NEW s \in Shapes, Place(ps, b, s),
         Counted(ps)
  PROVE  /\ DOMAIN pools' = DOMAIN ps
         /\ \A o \in DOMAIN ps : /\ pools'[o].prev = ps[o].prev
                                 /\ pools'[o].cells = ps[o].cells
         /\ result' \in {"stored", "refused"}
  <1> DEFINE l == ChunkLayout(s)
  <1>1. CASE Fits(ps, b, l)
    <2>1. pools' = [ps EXCEPT ![b].used = UsedBy(ps, b, l)] /\ result' = "stored"
      BY <1>1 DEF Place
    <2>2. ps[b] \in [prev : Bases \cup {NoPool}, cells : 0 .. MaxIndex,
                     used : 0 .. MaxIndex]
      BY DEF Counted
    <2>3. \A o \in DOMAIN ps : o # b => pools'[o] = ps[o]
      BY <2>1
    <2>4. pools'[b].prev = ps[b].prev /\ pools'[b].cells = ps[b].cells
      BY <2>1, <2>2
    <2> QED
      BY <2>1, <2>3, <2>4
  <1>2. CASE ~Fits(ps, b, l)
    BY <1>2 DEF Place
  <1> QED
    BY <1>1, <1>2

LEMMA InitPool == Init => PoolInv
  <1> SUFFICES ASSUME Init PROVE PoolInv
    OBVIOUS
  <1> DEFINE rk == [b \in Bases |-> 0]
  <1>1. rk \in [Bases -> Nat] /\ ChainOrder(rk)
    BY DEF Init, ChainOrder
  <1> HIDE DEF rk
  <1> QED
    BY <1>1 DEF Init, PoolInv

LEMMA NextPool == MemInv /\ PoolInv /\ [Next]_vars => PoolInv'
  <1> SUFFICES ASSUME MemInv, PoolInv, [Next]_vars
               PROVE  PoolInv'
    OBVIOUS
  <1> USE DEF PoolInv
  <1>1. PICK rk \in [Bases -> Nat] : ChainOrder(rk)
    OBVIOUS
  <1>2. ASSUME NEW s \in Shapes, StoreInTail(s) PROVE PoolInv'
    <2>1. /\ tail \in DOMAIN pools /\ Place(pools, tail, s) /\ Counted(pools)
          /\ tail' = tail /\ head' = head
      BY <1>2 DEF StoreInTail, TailTakes, MemInv
    <2>2. /\ DOMAIN pools' = DOMAIN pools
          /\ \A o \in DOMAIN pools : /\ pools'[o].prev = pools[o].prev
                                     /\ pools'[o].cells = pools[o].cells
          /\ result' \in {"stored", "refused"}
      BY <2>1, PlaceLinks
    <2>3. ChainOrder(rk)'
      BY <1>1, <2>1, <2>2, OrderKept
    <2> QED
      BY <2>1, <2>2, <2>3
  <1>3. ASSUME NEW s \in Shapes, StoreInNew(s) PROVE PoolInv'
    <2>1. PICK cells : cells = CellCount(ChunkLayout(s))
      OBVIOUS
    <2>2. PICK b \in Bases : /\ Allocatable(Block(b, cells))
                             /\ Place(WithPool(b, cells), b, s)
                             /\ head' = IF head = NoPool THEN b ELSE head
                             /\ tail' = b
      BY <1>3, <2>1 DEF StoreInNew
    <2>3. PICK ps : ps = WithPool(b, cells)
      OBVIOUS
    <2>4. /\ b \notin DOMAIN pools
          /\ DOMAIN ps = DOMAIN pools \cup {b}
          /\ ps[b] = [prev |-> tail, cells |-> cells, used |-> 0]
          /\ \A o \in DOMAIN pools : ps[o] = pools[o]
          /\ Counted(ps)
      <3>1. cells \in 1 .. MaxIndex
        BY <1>3, <2>1, CellsNeeded, MemoryAssumption DEF StoreInNew
      <3>2. /\ b \notin DOMAIN pools
            /\ DOMAIN WithPool(b, cells) = DOMAIN pools \cup {b}
            /\ WithPool(b, cells)[b] = [prev |-> tail, cells |-> cells, used |-> 0]
            /\ \A o \in DOMAIN pools : WithPool(b, cells)[o] = pools[o]
            /\ Counted(WithPool(b, cells))
        BY <2>2, <3>1, PoolOpened
      <3> QED
        BY <2>3, <3>2
    <2>5. /\ DOMAIN pools' = DOMAIN ps
          /\ \A o \in DOMAIN ps : /\ pools'[o].prev = ps[o].prev
                                  /\ pools'[o].cells = ps[o].cells
          /\ result' \in {"stored", "refused"}
      BY <2>2, <2>3, <2>4, PlaceLinks
    <2>6. /\ DOMAIN pools' = DOMAIN pools \cup {b}
          /\ pools'[b].prev = tail
          /\ \A o \in DOMAIN pools : pools'[o].prev = pools[o].prev
      BY <2>4, <2>5
    <2>7. \E order \in [Bases -> Nat] : ChainOrder(order)'
      BY <2>2, <2>4, <2>6, LinkedBehind
    <2>8. \A o \in DOMAIN pools' : 1 <= pools'[o].cells
      <3>1. 1 <= cells
        BY <2>1, CellsNeeded
      <3> QED
        BY <2>4, <2>5, <3>1
    <2> QED
      BY <2>2, <2>5, <2>6, <2>7, <2>8
  <1>4. ASSUME NEW s \in Shapes, Refuse(s) PROVE PoolInv'
    BY <1>1, <1>4, OrderKept DEF Refuse
  <1>5. CASE Reclaim
    <2>1. DOMAIN pools' = {} /\ head' = NoPool /\ tail' = NoPool /\ result' = "none"
      BY <1>5, ChainIsAll DEF Reclaim
    <2>2. ChainOrder(rk)'
      BY <2>1 DEF ChainOrder
    <2> QED
      BY <2>1, <2>2
  <1>6. CASE OpenWeakPool
    BY <1>1, <1>6, OrderKept DEF OpenWeakPool
  <1>7. CASE FreeWeakPool
    BY <1>1, <1>7, OrderKept DEF FreeWeakPool
  <1>8. CASE UNCHANGED vars
    BY <1>1, <1>8, OrderKept DEF vars
  <1> QED
    BY <1>2, <1>3, <1>4, <1>5, <1>6, <1>7, <1>8 DEF Next

(* Counts stay in a PoolIndex, no pool gives out more than it has, and the *)
(* walk from the tail back that frees the pools misses none, however many  *)
(* were opened.                                                            *)
THEOREM MemoryTypeCorrect == Spec => []TypeOK
  <1>1. MemInv /\ PoolInv => TypeOK
    <2> SUFFICES ASSUME MemInv, PoolInv PROVE TypeOK
      OBVIOUS
    <2>1. {head, tail} \subseteq DOMAIN pools \cup {NoPool}
      BY DEF MemInv, PoolInv
    <2>2. \A b \in DOMAIN pools : pools[b].prev \in DOMAIN pools \cup {NoPool}
      BY DEF PoolInv, ChainOrder
    <2>3. \A b \in DOMAIN pools : /\ pools[b].cells \in 1 .. MaxIndex
                                  /\ pools[b].used \in 0 .. pools[b].cells
      <3> SUFFICES ASSUME NEW b \in DOMAIN pools
                   PROVE  /\ pools[b].cells \in 1 .. MaxIndex
                          /\ pools[b].used \in 0 .. pools[b].cells
        OBVIOUS
      <3>1. /\ pools[b].cells \in 0 .. MaxIndex /\ pools[b].used \in 0 .. MaxIndex
            /\ pools[b].used <= pools[b].cells
        BY DEF MemInv, Counted
      <3>2. 1 <= pools[b].cells /\ MaxIndex \in Nat
        BY MemoryAssumption DEF PoolInv
      <3> QED
        BY <3>1, <3>2
    <2> QED
      BY <2>1, <2>2, <2>3, ChainIsAll DEF TypeOK, MemInv, PoolInv, ChunkKept
  <1> QED
    BY <1>1, InitMem, NextMem, InitPool, NextPool, PTL DEF Spec

(* A chunk fits into an empty pool of as many cells as were counted for    *)
(* it: aligning it skips less than one alignment.                          *)
LEMMA EmptyFits ==
  ASSUME NEW s \in Shapes, NEW b \in Bases, NEW ps, b \in DOMAIN ps,
         ps[b] = [prev |-> tail, cells |-> CellCount(ChunkLayout(s)), used |-> 0]
  PROVE  Fits(ps, b, ChunkLayout(s))
  <1> DEFINE l == ChunkLayout(s)
             padded == l.size + l.align - 1
  <1>1. /\ b \in Nat /\ l.size \in Int /\ l.align \in Nat \ {0}
    BY MemoryAssumption, LayoutFacts
  <1> HIDE DEF l
  <1>2. /\ FreeAt(ps, b) = b + 16 /\ b + 16 \in Int
        /\ CellsEnd(ps, b) = b + 16 + CellCount(l) * 8
    BY <1>1 DEF FreeAt, CellsEnd, CellsAt, PoolHeader, Cell, Word, l
  <1>3. Start(ps, b, l) \in Int /\ Start(ps, b, l) < b + 16 + l.align
    BY <1>1, <1>2, RoundUp DEF Start
  <1>4. CellCount(l) \in Int /\ padded <= CellCount(l) * 8
    <2>1. padded \in Int /\ 8 \in Nat \ {0} /\ 8 % 8 = 0
      BY <1>1
    <2> HIDE DEF padded
    <2>2. /\ AlignUp(padded, 8) \in Int /\ padded <= AlignUp(padded, 8)
          /\ AlignUp(padded, 8) % 8 = 0
      BY <2>1, RoundUp, RoundWord
    <2>3. PICK n \in Int : n = AlignUp(padded, 8)
      BY <2>2
    <2>4. n \div 8 \in Int /\ n = (n \div 8) * 8
      BY <2>2, <2>3
    <2>5. NeedCells(l) = Larger(n \div 8, 1)
      BY <2>3 DEF NeedCells, Cell, Word, padded
    <2>6. NeedCells(l) \in Int /\ n \div 8 <= NeedCells(l)
      BY <2>4, <2>5 DEF Larger
    <2>7. CellCount(l) \in Int /\ NeedCells(l) <= CellCount(l)
      BY <2>6, MemoryAssumption DEF CellCount, Larger, Cell, Word
    <2> QED
      BY <2>1, <2>2, <2>3, <2>4, <2>6, <2>7
  <1>5. Start(ps, b, l) + l.size <= CellsEnd(ps, b)
    BY <1>1, <1>2, <1>3, <1>4
  <1> QED
    BY <1>5 DEF Fits, l

(* A pool that is opened for a chunk takes it, wherever the allocator puts *)
(* the pool: the last map_err of allocate_ is never taken.                 *)
THEOREM OpenedPoolTakesIt == Spec => FreshPoolFits
  <1> DEFINE Fresh == tail' \notin {tail, NoPool} => result' = "stored"
  <1>1. MemInv /\ [Next]_vars => [Fresh]_vars
    <2> SUFFICES ASSUME MemInv, Next, tail' \notin {tail, NoPool}
                 PROVE  result' = "stored"
      BY Zenon DEF vars
    <2>1. PICK s \in Shapes : StoreInNew(s)
      BY DEF Next, StoreInTail, Refuse, Reclaim, OpenWeakPool, FreeWeakPool
    <2>2. PICK cells : cells = CellCount(ChunkLayout(s))
      OBVIOUS
    <2>3. PICK b \in Bases : /\ Allocatable(Block(b, cells))
                             /\ Place(WithPool(b, cells), b, s)
      BY <2>1, <2>2 DEF StoreInNew
    <2>4. /\ b \in DOMAIN WithPool(b, cells)
          /\ WithPool(b, cells)[b] = [prev |-> tail, cells |-> cells, used |-> 0]
      <3>1. cells \in 1 .. MaxIndex
        BY <2>1, <2>2, CellsNeeded, MemoryAssumption DEF StoreInNew
      <3>2. /\ DOMAIN WithPool(b, cells) = DOMAIN pools \cup {b}
            /\ WithPool(b, cells)[b] = [prev |-> tail, cells |-> cells, used |-> 0]
        BY <2>3, <3>1, PoolOpened
      <3> QED
        BY <3>2
    <2>5. Fits(WithPool(b, cells), b, ChunkLayout(s))
      <3>1. PICK ps : ps = WithPool(b, cells)
        OBVIOUS
      <3> QED
        BY <2>2, <2>4, <3>1, EmptyFits
    <2> QED
      BY <2>3, <2>5 DEF Place
  <1> QED
    BY <1>1, MemInvariant, PTL DEF Spec, FreshPoolFits
=============================================================================
