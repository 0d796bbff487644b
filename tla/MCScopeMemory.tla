--------------------------- MODULE MCScopeMemory ---------------------------
(* Small pools and the shapes at the edges of the arithmetic: with and     *)
(* without metadata and hook, sizes that are no multiple of a word, data   *)
(* and hooks that want more alignment than a cell, and data whose offset   *)
(* does not fit an index of four bits.                                     *)
EXTENDS ScopeMemory

NoHook == [present |-> FALSE, size |-> 0, align |-> 1]
Hook(size, align) == [present |-> TRUE, size |-> size, align |-> align]

MCShapes ==
    {Value(NoHook, 0, 1),       Value(NoHook, 8, 8),
     Value(NoHook, 16, 16),     Value(NoHook, 0, 32),
     Value(Hook(1, 1), 2, 2),   Value(Hook(0, 32), 1, 1),
     Value(Hook(1, 1), 8, 128), Str(NoHook, 3),
     Str(Hook(16, 16), 1),      Slice(Hook(3, 1), 1, 4, 4)}

MCBases == {8, 16, 24, 32, 168, 328}
=============================================================================
