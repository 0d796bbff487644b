------------------------------- MODULE Lists --------------------------------
(***************************************************************************)
(* Induction over the natural numbers, stated of a set instead of a        *)
(* predicate, and what follows from it for definitions by recursion and    *)
(* for linked lists: of a list whose members are ranked, in the order of   *)
(* the ranks, following the links meets each member once.                  *)
(***************************************************************************)
EXTENDS Integers, FiniteSetTheorems, SequenceTheorems, WellFoundedInduction, TLAPS

(* The relation by which the induction goes.                               *)
NatLess == {mn \in Nat \X Nat : mn[1] < mn[2]}

(* A set of numbers that is not empty has a least member: < is well-       *)
(* founded.                                                                *)
LEMMA LeastOfSet ==
  ASSUME NEW S, S \subseteq Nat, S # {}
  PROVE  \E n \in S : \A m \in S : n <= m
  <1>1. IsWellFoundedOn(NatLess, Nat)
    <2>1. OpToRel(<, Nat) = NatLess
      BY Zenon DEF OpToRel, NatLess
    <2> QED
      BY Zenon, <2>1, NatLessThanWellFounded
  <1>2. PICK n \in S : \A m \in S : ~ (<<m, n>> \in NatLess)
    BY <1>1, WFMin
  <1>3. ASSUME NEW m \in S PROVE n <= m
    <2>1. m \in Nat /\ n \in Nat
      OBVIOUS
    <2>2. ~ (<<m, n>> \in NatLess)
      BY <1>2, <1>3
    <2> QED
      BY <2>1, <2>2 DEF NatLess
  <1> QED
    BY <1>3

(* A set that has 0, and n + 1 with every n, has every number. Its         *)
(* instances are the inductions of this module.                            *)
LEMMA SetInduction ==
  ASSUME NEW S, 0 \in S, \A n \in Nat : n \in S => n + 1 \in S
  PROVE  Nat \subseteq S
  <1> SUFFICES ASSUME Nat \ S # {} PROVE FALSE
    OBVIOUS
  <1>1. PICK n \in Nat \ S : \A m \in Nat \ S : n <= m
    BY LeastOfSet
  <1>2. n # 0 /\ n - 1 \in Nat
    BY <1>1
  <1>3. n - 1 \in S
    BY <1>1, <1>2
  <1> QED
    BY <1>1, <1>2, <1>3

-----------------------------------------------------------------------------
(* The first n values of a sequence that starts with a and goes on by N.   *)
Upto(g, a, N, n) ==
    /\ g = [i \in 0 .. n |-> g[i]]
    /\ g[0] = a
    /\ \A i \in 0 .. n - 1 : g[i + 1] = N[g[i]]

(* By induction: such a sequence exists to any length.                     *)
LEMMA IterateUpto ==
  ASSUME NEW a, NEW N
  PROVE  \A n \in Nat : \E g : Upto(g, a, N, n)
  <1> DEFINE S == {n \in Nat : \E g : Upto(g, a, N, n)}
  <1>1. 0 \in S
    <2> DEFINE g == [i \in 0 .. 0 |-> a]
    <2>1. g = [i \in 0 .. 0 |-> g[i]] /\ g[0] = a
      OBVIOUS
    <2>2. Upto(g, a, N, 0)
      <3> HIDE DEF g
      <3> QED
        BY <2>1 DEF Upto
    <2> QED
      BY <2>2
  <1>2. ASSUME NEW n \in Nat, n \in S PROVE n + 1 \in S
    <2>1. PICK g : Upto(g, a, N, n)
      BY <1>2
    <2>2. PICK k \in Nat : k = n + 1
      OBVIOUS
    <2> DEFINE h == [i \in 0 .. k |-> IF i = k THEN N[g[n]] ELSE g[i]]
    <2>3. \A i \in 0 .. k : h[i] = IF i = k THEN N[g[n]] ELSE g[i]
      OBVIOUS
    <2>4. h = [i \in 0 .. k |-> h[i]]
      OBVIOUS
    <2> HIDE DEF h
    <2>5. h[0] = a
      <3>1. g[0] = a
        BY <2>1 DEF Upto
      <3>2. 0 \in 0 .. k /\ 0 # k
        BY <2>2
      <3> QED
        BY <2>3, <3>1, <3>2
    <2>6. ASSUME NEW i \in 0 .. k - 1 PROVE h[i + 1] = N[h[i]]
      <3>1. CASE i = n
        BY <2>2, <2>3, <3>1
      <3>2. CASE i # n
        <4>1. /\ i \in 0 .. n - 1 /\ i + 1 # k /\ i # k
              /\ i \in 0 .. k /\ i + 1 \in 0 .. k
          BY <2>2, <3>2
        <4>2. g[i + 1] = N[g[i]]
          BY <2>1, <4>1 DEF Upto
        <4> QED
          BY <2>3, <4>1, <4>2
      <3> QED
        BY <3>1, <3>2
    <2>7. \A i \in 0 .. k - 1 : h[i + 1] = N[h[i]]
      BY <2>6
    <2>8. Upto(h, a, N, k)
      BY <2>4, <2>5, <2>7 DEF Upto
    <2> QED
      BY <2>2, <2>8
  <1> HIDE DEF S
  <1>3. Nat \subseteq S
    BY <1>1, <1>2, SetInduction
  <1> QED
    BY <1>3 DEF S

(* By induction: two of them agree as far as the shorter one goes.         *)
LEMMA UptoAgree ==
  ASSUME NEW a, NEW N, NEW n \in Nat, NEW m \in Nat, n <= m, NEW g, NEW h,
         Upto(g, a, N, n), Upto(h, a, N, m)
  PROVE  g[n] = h[n]
  <1> DEFINE S == {i \in Nat : i <= n => g[i] = h[i]}
  <1>1. 0 \in S
    BY DEF Upto
  <1>2. ASSUME NEW i \in Nat, i \in S PROVE i + 1 \in S
    <2> SUFFICES ASSUME i + 1 <= n PROVE g[i + 1] = h[i + 1]
      OBVIOUS
    <2>1. i \in 0 .. n - 1 /\ i \in 0 .. m - 1 /\ g[i] = h[i]
      BY <1>2
    <2> QED
      BY <2>1 DEF Upto
  <1> HIDE DEF S
  <1>3. Nat \subseteq S
    BY <1>1, <1>2, SetInduction
  <1> QED
    BY <1>3 DEF S

Iterates(f, a, N) ==
    /\ f = [n \in Nat |-> IF n = 0 THEN a ELSE N[f[n - 1]]]
    /\ f[0] = a
    /\ \A n \in Nat : f[n + 1] = N[f[n]]

(* So the values of the single sequences make one function.                *)
LEMMA Iterate ==
  ASSUME NEW a, NEW N
  PROVE  \E f : Iterates(f, a, N)
  <1> DEFINE G(n) == CHOOSE g : Upto(g, a, N, n)
             f == [n \in Nat |-> G(n)[n]]
  <1>1. \A n \in Nat : Upto(G(n), a, N, n)
    BY IterateUpto
  <1> HIDE DEF G
  <1>2. f[0] = a
    BY <1>1 DEF Upto
  <1>3. ASSUME NEW n \in Nat PROVE f[n + 1] = N[f[n]]
    <2>1. G(n)[n] = G(n + 1)[n]
      BY <1>1, UptoAgree
    <2>2. G(n + 1)[n + 1] = N[G(n + 1)[n]]
      <3>1. Upto(G(n + 1), a, N, n + 1) /\ n \in 0 .. (n + 1) - 1
        BY <1>1
      <3> QED
        BY <3>1 DEF Upto
    <2> QED
      BY <2>1, <2>2
  <1>4. f = [n \in Nat |-> IF n = 0 THEN a ELSE N[f[n - 1]]]
    <2>1. \A n \in Nat : f[n] = IF n = 0 THEN a ELSE N[f[n - 1]]
      <3> SUFFICES ASSUME NEW n \in Nat, n # 0 PROVE f[n] = N[f[n - 1]]
        BY <1>2
      <3>1. n - 1 \in Nat /\ (n - 1) + 1 = n
        OBVIOUS
      <3> HIDE DEF f
      <3> QED
        BY <1>3, <3>1
    <2>2. f = [n \in Nat |-> f[n]]
      OBVIOUS
    <2> HIDE DEF f
    <2> QED
      BY <2>1, <2>2
  <1> HIDE DEF f
  <1>5. Iterates(f, a, N)
    BY <1>2, <1>3, <1>4 DEF Iterates
  <1> QED
    BY <1>5

-----------------------------------------------------------------------------
(* The members of F that come before p.                                    *)
Below(F, rk, p) == {q \in F : rk[q] < rk[p]}

(* Distinct members of a finite set F, in the order of their ranks rk.     *)
Ranked(F, rk) ==
    /\ IsFiniteSet(F)
    /\ \A p \in F : rk[p] \in Int
    /\ \A p, q \in F : rk[p] = rk[q] => p = q

(* p itself does not come before p, so fewer than all do.                  *)
LEMMA BelowSize ==
  ASSUME NEW F, NEW rk, Ranked(F, rk), NEW p \in F
  PROVE  /\ IsFiniteSet(Below(F, rk, p))
         /\ Cardinality(Below(F, rk, p)) \in Nat
         /\ Cardinality(Below(F, rk, p)) < Cardinality(F)
  <1>1. Below(F, rk, p) \subseteq F \ {p}
    BY DEF Below, Ranked
  <1>2. IsFiniteSet(F \ {p}) /\ Cardinality(F \ {p}) = Cardinality(F) - 1
    BY FS_RemoveElement DEF Ranked
  <1>3. IsFiniteSet(Below(F, rk, p)) /\ Cardinality(Below(F, rk, p)) <= Cardinality(F) - 1
    BY <1>1, <1>2, FS_Subset
  <1>4. Cardinality(Below(F, rk, p)) \in Nat /\ Cardinality(F) \in Nat
    BY <1>3, FS_CardinalityType DEF Ranked
  <1> QED
    BY <1>3, <1>4

(* More members come before a later one.                                   *)
LEMMA BelowGrows ==
  ASSUME NEW F, NEW rk, Ranked(F, rk), NEW p \in F, NEW q \in F, rk[p] < rk[q]
  PROVE  Cardinality(Below(F, rk, p)) < Cardinality(Below(F, rk, q))
  <1>1. Below(F, rk, p) \cup {p} \subseteq Below(F, rk, q)
    BY DEF Below, Ranked
  <1>2. p \notin Below(F, rk, p)
    BY DEF Below, Ranked
  <1>3. Cardinality(Below(F, rk, p) \cup {p}) = Cardinality(Below(F, rk, p)) + 1
    BY <1>2, BelowSize, FS_AddElement
  <1>4. Cardinality(Below(F, rk, p) \cup {p}) <= Cardinality(Below(F, rk, q))
    BY <1>1, BelowSize, FS_Subset
  <1>5. Cardinality(Below(F, rk, p)) \in Nat /\ Cardinality(Below(F, rk, q)) \in Nat
    BY BelowSize
  <1> QED
    BY <1>3, <1>4, <1>5

(* Of a list that goes through F in the order of the ranks: it starts at   *)
(* first, s leads on, and end is its end.                                  *)
Listed(F, rk, first, s, end) ==
    /\ end \notin F
    /\ first \in F \cup {end}
    /\ first = end => F = {}
    /\ first # end => \A p \in F : rk[first] <= rk[p]
    /\ \A p \in F :
         \/ s[p] = end /\ \A q \in F : rk[q] <= rk[p]
         \/ /\ s[p] \in F /\ rk[p] < rk[s[p]]
            /\ \A q \in F : rk[q] <= rk[p] \/ rk[q] >= rk[s[p]]

(* One more member comes before q than before p, if q is next after p.     *)
LEMMA BelowNext ==
  ASSUME NEW F, NEW rk, Ranked(F, rk), NEW p \in F, NEW q \in F, rk[p] < rk[q],
         \A u \in F : rk[u] <= rk[p] \/ rk[u] >= rk[q]
  PROVE  Cardinality(Below(F, rk, q)) = Cardinality(Below(F, rk, p)) + 1
  <1>1. Below(F, rk, q) = Below(F, rk, p) \cup {p}
    BY DEF Below, Ranked
  <1>2. p \notin Below(F, rk, p)
    BY DEF Below, Ranked
  <1> QED
    BY <1>1, <1>2, BelowSize, FS_AddElement

(* All the others come before the last one.                                *)
LEMMA BelowLast ==
  ASSUME NEW F, NEW rk, Ranked(F, rk), NEW p \in F, \A q \in F : rk[q] <= rk[p]
  PROVE  Cardinality(Below(F, rk, p)) + 1 = Cardinality(F)
  <1>1. F = Below(F, rk, p) \cup {p}
    BY DEF Below, Ranked
  <1>2. p \notin Below(F, rk, p)
    BY DEF Below, Ranked
  <1> QED
    BY <1>1, <1>2, BelowSize, FS_AddElement

(* Following such a list from its start meets every member of F, one per   *)
(* step, and then the end.                                                 *)
LEMMA ListVisits ==
  ASSUME NEW F, NEW rk, Ranked(F, rk), NEW first, NEW s, NEW end,
         Listed(F, rk, first, s, end),
         NEW f, f[0] = first, \A n \in Nat : f[n] # end => f[n + 1] = s[f[n]]
  PROVE  /\ {f[n] : n \in 0 .. Cardinality(F) - 1} = F
         /\ f[Cardinality(F)] = end
  <1> DEFINE size == Cardinality(F)
             B(p) == Cardinality(Below(F, rk, p))
             S == {n \in Nat : n < size => f[n] \in F /\ B(f[n]) = n}
  <1>0. size \in Nat /\ \A p \in F : B(p) \in Nat /\ B(p) < size
    BY BelowSize, FS_CardinalityType DEF Ranked
  <1>1. 0 \in S
    <2> SUFFICES ASSUME 0 < size PROVE f[0] \in F /\ B(f[0]) = 0
      OBVIOUS
    <2>1. F # {}
      BY FS_EmptySet
    <2>2. first \in F /\ Below(F, rk, first) = {}
      BY <2>1 DEF Listed, Below, Ranked
    <2> QED
      BY <2>2, FS_EmptySet
  <1>2. ASSUME NEW n \in Nat, n \in S PROVE n + 1 \in S
    <2> SUFFICES ASSUME n + 1 < size PROVE f[n + 1] \in F /\ B(f[n + 1]) = n + 1
      OBVIOUS
    <2>1. f[n] \in F /\ B(f[n]) = n
      BY <1>0, <1>2
    <2>2. f[n + 1] = s[f[n]]
      BY <2>1 DEF Listed
    <2>3. ~ \A q \in F : rk[q] <= rk[f[n]]
      <3> SUFFICES ASSUME \A q \in F : rk[q] <= rk[f[n]] PROVE FALSE
        OBVIOUS
      <3>1. B(f[n]) + 1 = size
        BY <2>1, BelowLast
      <3> HIDE DEF B, size
      <3> QED
        BY <1>0, <2>1, <3>1
    <2>4. /\ s[f[n]] \in F /\ rk[f[n]] < rk[s[f[n]]]
          /\ \A q \in F : rk[q] <= rk[f[n]] \/ rk[q] >= rk[s[f[n]]]
      BY <2>1, <2>3 DEF Listed
    <2>5. B(s[f[n]]) = B(f[n]) + 1
      BY <2>1, <2>4, BelowNext
    <2> QED
      BY <2>1, <2>2, <2>4, <2>5
  <1>3. Nat \subseteq S
    <2> HIDE DEF S
    <2> QED
      BY <1>1, <1>2, SetInduction
  <1>4. \A n \in 0 .. size - 1 : f[n] \in F /\ B(f[n]) = n
    <2> HIDE DEF B, size
    <2> QED
      BY <1>0, <1>3
  <1>5. ASSUME NEW p \in F PROVE \E n \in 0 .. size - 1 : f[n] = p
    <2>1. B(p) \in 0 .. size - 1
      <3> HIDE DEF B, size
      <3> QED
        BY <1>0
    <2>2. f[B(p)] \in F /\ B(f[B(p)]) = B(p)
      BY <1>4, <2>1
    <2>3. ASSUME NEW q \in F, B(q) = B(p) PROVE q = p
      <3>1. ~ (rk[p] < rk[q]) /\ ~ (rk[q] < rk[p])
        <4>1. rk[p] < rk[q] => B(p) < B(q)
          BY BelowGrows
        <4>2. rk[q] < rk[p] => B(q) < B(p)
          BY BelowGrows
        <4> HIDE DEF B, size
        <4> QED
          BY <1>0, <2>3, <4>1, <4>2
      <3> QED
        BY <3>1 DEF Ranked
    <2> QED
      BY <2>1, <2>2, <2>3
  <1>6. f[size] = end
    <2>1. CASE size = 0
      <3>1. F = {}
        BY <2>1, FS_EmptySet DEF Ranked
      <3> QED
        BY <2>1, <3>1 DEF Listed
    <2>2. CASE size # 0
      <3>1. /\ size - 1 \in Nat /\ (size - 1) + 1 = size
            /\ size - 1 \in 0 .. size - 1
        <4> HIDE DEF size
        <4> QED
          BY <1>0, <2>2
      <3> PICK m \in Nat : m = size - 1
        BY <3>1
      <3>2. f[m] \in F /\ B(f[m]) = m /\ f[m + 1] = f[size]
        BY <1>4, <3>1
      <3>3. f[size] = s[f[m]]
        BY <3>2 DEF Listed
      <3>4. CASE s[f[m]] \in F /\ B(s[f[m]]) = B(f[m]) + 1
        <4> HIDE DEF B, size
        <4> QED
          BY <1>0, <3>1, <3>2, <3>4
      <3>5. CASE s[f[m]] = end
        BY <3>3, <3>5
      <3>6. s[f[m]] = end \/ (s[f[m]] \in F /\ B(s[f[m]]) = B(f[m]) + 1)
        BY <3>2, BelowNext DEF Listed
      <3> QED
        BY <3>4, <3>5, <3>6
    <2> QED
      BY <2>1, <2>2
  <1>7. {f[n] : n \in 0 .. size - 1} = F
    BY <1>4, <1>5
  <1> QED
    BY <1>6, <1>7
-----------------------------------------------------------------------------
(* What holds of a member when it holds of all that come before it, holds  *)
(* of every member;                                                        *)
LEMMA RankedInduction ==
  ASSUME NEW F, NEW rk, Ranked(F, rk), NEW T,
         \A p \in F : (\A q \in F : rk[q] < rk[p] => q \in T) => p \in T
  PROVE  F \subseteq T
  <1> DEFINE B(p) == Cardinality(Below(F, rk, p))
             S == {n \in Nat : \A p \in F : B(p) < n => p \in T}
  <1>1. \A p \in F : B(p) \in Nat
    BY BelowSize
  <1>2. \A p, q \in F : rk[q] < rk[p] => B(q) < B(p)
    BY BelowGrows
  <1> HIDE DEF B
  <1>3. 0 \in S
    BY <1>1
  <1>4. ASSUME NEW n \in Nat, n \in S PROVE n + 1 \in S
    <2> SUFFICES ASSUME NEW p \in F, B(p) < n + 1 PROVE p \in T
      OBVIOUS
    <2>1. ASSUME NEW q \in F, rk[q] < rk[p] PROVE q \in T
      <3>1. B(q) < B(p) /\ B(q) \in Nat /\ B(p) \in Nat
        BY <1>1, <1>2, <2>1
      <3>2. B(q) < n
        BY <3>1
      <3> QED
        BY <1>4, <3>2
    <2> QED
      BY <2>1
  <1> HIDE DEF S
  <1>5. Nat \subseteq S
    BY <1>3, <1>4, SetInduction
  <1> SUFFICES ASSUME NEW p \in F PROVE p \in T
    OBVIOUS
  <1>6. B(p) + 1 \in S /\ B(p) < B(p) + 1
    BY <1>1, <1>5
  <1> QED
    BY <1>6 DEF S

(* and so does what holds when it holds of all that come after.            *)
LEMMA RankedInductionDown ==
  ASSUME NEW F, NEW rk, Ranked(F, rk), NEW T,
         \A p \in F : (\A q \in F : rk[q] > rk[p] => q \in T) => p \in T
  PROVE  F \subseteq T
  <1>1. PICK neg : neg = [p \in F |-> -rk[p]]
    OBVIOUS
  <1>2. \A p \in F : neg[p] = -rk[p] /\ rk[p] \in Int
    BY <1>1 DEF Ranked
  <1>3. \A p, q \in F : neg[q] < neg[p] <=> rk[q] > rk[p]
    BY <1>2
  <1>4. Ranked(F, neg)
    <2>1. \A p, q \in F : neg[p] = neg[q] => rk[p] = rk[q]
      BY <1>2
    <2>2. \A p \in F : neg[p] \in Int
      BY <1>2
    <2> QED
      BY <2>1, <2>2 DEF Ranked
  <1>5. ASSUME NEW p \in F, \A q \in F : neg[q] < neg[p] => q \in T PROVE p \in T
    BY <1>3, <1>5
  <1> QED
    BY <1>4, <1>5, RankedInduction

(* The value that N gives for a member of F depends on the values of those *)
(* alone that come after.                                                  *)
LooksAhead(N, F, rk, X) ==
    /\ N \in [[F -> X] -> [F -> X]]
    /\ \A g, h \in [F -> X] : \A p \in F :
           (\A q \in F : rk[q] > rk[p] => g[q] = h[q]) => N[g][p] = N[h][p]

(* A definition by such recursion has a solution: a function that N leaves *)
(* as it is.                                                               *)
LEMMA RankedRecursion ==
  ASSUME NEW F, NEW rk, Ranked(F, rk), NEW X, X # {}, NEW N, LooksAhead(N, F, rk, X)
  PROVE  \E g \in [F -> X] : g = N[g]
  <1>0. PICK x : x \in X
    OBVIOUS
  <1> USE DEF LooksAhead
  <1> DEFINE a == [p \in F |-> x]
  <1>1. PICK f : Iterates(f, a, N)
    BY Iterate
  <1>2. f[0] = a /\ \A n \in Nat : f[n + 1] = N[f[n]]
    BY <1>1 DEF Iterates
  <1>3. \A n \in Nat : f[n] \in [F -> X]
    <2> DEFINE S == {n \in Nat : f[n] \in [F -> X]}
    <2>1. 0 \in S
      BY <1>0, <1>2
    <2>2. ASSUME NEW n \in Nat, n \in S PROVE n + 1 \in S
      BY <1>2, <2>2
    <2> HIDE DEF S
    <2>3. Nat \subseteq S
      BY <2>1, <2>2, SetInduction
    <2> QED
      BY <2>3 DEF S
  <1> DEFINE size == Cardinality(F)
             B(p) == Cardinality(Below(F, rk, p))
             Stable(n) == \A p \in F : size - B(p) <= n => f[n + 1][p] = f[n][p]
             S == {n \in Nat : Stable(n)}
  <1>4. size \in Nat /\ \A p \in F : B(p) \in Nat /\ B(p) < size
    BY BelowSize, FS_CardinalityType DEF Ranked
  <1>5. \A p, q \in F : rk[p] < rk[q] => B(p) < B(q)
    BY BelowGrows
  <1> HIDE DEF size, B, a
  <1>6. 0 \in S
    BY <1>4
  <1>7. ASSUME NEW n \in Nat, n \in S PROVE n + 1 \in S
    <2> SUFFICES ASSUME NEW p \in F, size - B(p) <= n + 1
                 PROVE  f[(n + 1) + 1][p] = f[n + 1][p]
      OBVIOUS
    <2>1. PICK g \in [F -> X], h \in [F -> X] : g = f[n + 1] /\ h = f[n]
      BY <1>3
    <2>2. ASSUME NEW q \in F, rk[q] > rk[p] PROVE g[q] = h[q]
      <3>1. rk[q] \in Int /\ rk[p] \in Int
        BY DEF Ranked
      <3>2. B(p) < B(q)
        BY <1>5, <2>2, <3>1
      <3>3. size - B(q) <= n
        BY <1>4, <3>2
      <3> QED
        BY <1>7, <2>1, <3>3
    <2>3. N[g][p] = N[h][p]
      BY <2>2
    <2>4. f[(n + 1) + 1] = N[g] /\ f[n + 1] = N[h]
      BY <1>2, <2>1
    <2> QED
      BY <2>3, <2>4
  <1>8. Nat \subseteq S
    <2> HIDE DEF S
    <2> QED
      BY <1>6, <1>7, SetInduction
  <1>9. \A p \in F : f[size + 1][p] = f[size][p]
    <2> SUFFICES ASSUME NEW p \in F PROVE f[size + 1][p] = f[size][p]
      OBVIOUS
    <2>1. size \in S /\ size - B(p) <= size
      BY <1>4, <1>8
    <2> QED
      BY <2>1
  <1>10. f[size + 1] \in [F -> X] /\ f[size] \in [F -> X] /\ f[size + 1] = N[f[size]]
    BY <1>2, <1>3, <1>4
  <1>11. f[size + 1] = f[size]
    BY <1>9, <1>10
  <1> QED
    BY <1>10, <1>11

-----------------------------------------------------------------------------
(* The sequence s lists the set S in the order of the values v.            *)
Sorted(s, S, v) ==
    /\ s \in Seq(S)
    /\ \A x \in S : \E k \in 1 .. Len(s) : s[k] = x
    /\ \A j, k \in 1 .. Len(s) : j < k => v[s[j]] < v[s[k]]

(* Nothing lists nothing;                                                  *)
LEMMA SortedEmpty ==
  ASSUME NEW v
  PROVE  Sorted(<<>>, {}, v)
  BY DEF Sorted

(* and a sequence its members, all of them.                                *)
LEMMA SortedMembers ==
  ASSUME NEW S, NEW v, NEW s, Sorted(s, S, v)
  PROVE  /\ s \in Seq(S) /\ Len(s) \in Nat
         /\ {s[k] : k \in 1 .. Len(s)} = S
  <1>1. s \in Seq(S) /\ Len(s) \in Nat /\ \A k \in 1 .. Len(s) : s[k] \in S
    BY LenProperties, ElementOfSeq DEF Sorted
  <1> QED
    BY <1>1 DEF Sorted

(* All of S comes before all of T.                                         *)
Precedes(S, T, v) == \A x \in S : \A y \in T : v[x] < v[y]

(* Two that follow one another list both sets,                             *)
LEMMA SortedConcat ==
  ASSUME NEW S, NEW T, NEW v, NEW s, NEW t, Sorted(s, S, v), Sorted(t, T, v),
         Precedes(S, T, v)
  PROVE  Sorted(s \o t, S \cup T, v)
  <1> USE DEF Precedes
  <1> DEFINE U == S \cup T
             st == s \o t
  <1>1. s \in Seq(S) /\ t \in Seq(T) /\ Len(s) \in Nat /\ Len(t) \in Nat
    BY SortedMembers
  <1>2. s \in Seq(U) /\ t \in Seq(U)
    BY <1>1, SeqMonotonic
  <1>3. /\ st \in Seq(U) /\ Len(st) = Len(s) + Len(t)
        /\ \A i \in 1 .. Len(st) : st[i] = IF i <= Len(s) THEN s[i] ELSE t[i - Len(s)]
    BY <1>2, ConcatProperties
  <1> HIDE DEF st
  <1>4. /\ \A k \in 1 .. Len(s) : k \in 1 .. Len(st) /\ st[k] = s[k] /\ s[k] \in S
        /\ \A k \in 1 .. Len(t) : /\ k + Len(s) \in 1 .. Len(st)
                                  /\ st[k + Len(s)] = t[k]
                                  /\ t[k] \in T
    <2>1. /\ \A k \in 1 .. Len(s) : k \in 1 .. Len(st) /\ k <= Len(s)
          /\ \A k \in 1 .. Len(t) : /\ k + Len(s) \in 1 .. Len(st)
                                    /\ ~ (k + Len(s) <= Len(s))
                                    /\ (k + Len(s)) - Len(s) = k
      BY <1>1, <1>3
    <2>2. /\ \A k \in 1 .. Len(s) : s[k] \in S
          /\ \A k \in 1 .. Len(t) : t[k] \in T
      BY <1>1, ElementOfSeq
    <2> QED
      BY <1>3, <2>1, <2>2
  <1>5. ASSUME NEW x \in U PROVE \E k \in 1 .. Len(st) : st[k] = x
    <2>1. CASE x \in S
      <3>1. PICK k \in 1 .. Len(s) : s[k] = x
        BY <2>1 DEF Sorted
      <3> QED
        BY <1>4, <3>1
    <2>2. CASE x \in T
      <3>1. PICK k \in 1 .. Len(t) : t[k] = x
        BY <2>2 DEF Sorted
      <3> QED
        BY <1>4, <3>1
    <2> QED
      BY <2>1, <2>2
  <1>6. ASSUME NEW j \in 1 .. Len(st), NEW k \in 1 .. Len(st), j < k
        PROVE  v[st[j]] < v[st[k]]
    <2>1. CASE k <= Len(s)
      <3>1. j \in 1 .. Len(s) /\ k \in 1 .. Len(s)
        BY <1>1, <1>6, <2>1
      <3> QED
        BY <1>4, <1>6, <3>1 DEF Sorted
    <2>2. CASE Len(s) < j
      <3>1. PICK m \in 1 .. Len(t), n \in 1 .. Len(t) :
                m = j - Len(s) /\ n = k - Len(s) /\ m < n
        BY <1>1, <1>3, <1>6, <2>2
      <3>2. st[j] = t[m] /\ st[k] = t[n]
        BY <1>1, <1>3, <1>6, <2>2, <3>1
      <3> QED
        BY <3>1, <3>2 DEF Sorted
    <2>3. CASE j <= Len(s) /\ Len(s) < k
      <3>1. j \in 1 .. Len(s) /\ k - Len(s) \in 1 .. Len(t)
        BY <1>1, <1>3, <2>3
      <3>2. st[j] = s[j] /\ st[k] = t[k - Len(s)]
        BY <1>1, <1>3, <2>3
      <3>3. s[j] \in S /\ t[k - Len(s)] \in T
        BY <1>4, <3>1
      <3> QED
        BY <3>2, <3>3
    <2> QED
      BY <1>1, <2>1, <2>2, <2>3
  <1> QED
    BY <1>3, <1>5, <1>6 DEF Sorted, st

(* and one more member may come last.                                      *)
LEMMA SortedAppend ==
  ASSUME NEW S, NEW v, NEW s, Sorted(s, S, v), NEW x, Precedes(S, {x}, v)
  PROVE  Sorted(Append(s, x), S \cup {x}, v)
  <1>1. <<x>> \in Seq({x}) /\ Len(<<x>>) = 1 /\ <<x>>[1] = x
    OBVIOUS
  <1>2. Sorted(<<x>>, {x}, v)
    <2>1. \A k \in 1 .. 1 : k = 1
      OBVIOUS
    <2> QED
      BY <1>1, <2>1 DEF Sorted
  <1>3. s \in Seq(S \cup {x})
    BY SortedMembers, SeqMonotonic
  <1>4. Append(s, x) = s \o <<x>>
    BY <1>3, AppendIsConcat
  <1> QED
    BY <1>2, <1>4, SortedConcat

(* In a cycle of n, the place after k is k + 1, and after the last the     *)
(* first.                                                                  *)
Around(n, k) == (k % n) + 1

LEMMA NextInCycle ==
  ASSUME NEW n \in Nat, NEW k \in 1 .. n
  PROVE  Around(n, k) = IF k = n THEN 1 ELSE k + 1
  <1> USE DEF Around
  <1>1. CASE k = n
    BY <1>1
  <1>2. CASE k # n
    <2>1. k \in 0 .. n - 1 /\ n \in Nat \ {0}
      BY <1>2
    <2>2. k % n = k
      BY <2>1
    <2> QED
      BY <1>2, <2>2
  <1> QED
    BY <1>1, <1>2

(* The places in such a cycle where the values do not rise.                *)
Descents(m, v) == {k \in 1 .. Len(m) : v[m[k]] >= v[m[Around(Len(m), k)]]}

(* Three lists in a row, over one set: how they are grouped is the same.   *)
OfOneSet(s, t, u) == \E S : s \in Seq(S) /\ t \in Seq(S) /\ u \in Seq(S)

LEMMA Regrouped ==
  ASSUME NEW s, NEW t, NEW u, OfOneSet(s, t, u)
  PROVE  (s \o t) \o u = s \o (t \o u)
  <1>1. PICK S : s \in Seq(S) /\ t \in Seq(S) /\ u \in Seq(S)
    BY DEF OfOneSet
  <1> QED
    BY <1>1, ConcatAssociative

(* The values of a set are integers.                                       *)
IntValued(S, v) == \A x \in S : v[x] \in Int

(* The list m names each of a set, in a cycle with at most one step down.  *)
ListedInCycle(m, S, v) ==
    /\ m \in Seq(S)
    /\ Range(m) = S
    /\ Cardinality(Descents(m, v)) <= 1

(* Of two of which the second would come first, one after the other: they  *)
(* list both sets, in a cycle, with one step down.                         *)
LEMMA SortedCycle ==
  ASSUME NEW S, NEW T, NEW v, NEW s, NEW t, Sorted(s, S, v), Sorted(t, T, v),
         IntValued(S \cup T, v), Precedes(T, S, v)
  PROVE  ListedInCycle(s \o t, S \cup T, v)
  <1> USE DEF Precedes, IntValued
  <1> SUFFICES ASSUME NEW m, m = s \o t
               PROVE  /\ m \in Seq(S \cup T)
                      /\ Range(m) = S \cup T
                      /\ Cardinality(Descents(m, v)) <= 1
    BY DEF ListedInCycle
  <1> DEFINE U == S \cup T
  <1>1. s \in Seq(S) /\ t \in Seq(T) /\ Len(s) \in Nat /\ Len(t) \in Nat
    BY SortedMembers
  <1>2. s \in Seq(U) /\ t \in Seq(U)
    BY <1>1, SeqMonotonic
  <1>3. /\ m \in Seq(U) /\ Len(m) = Len(s) + Len(t)
        /\ \A i \in 1 .. Len(m) : m[i] = IF i <= Len(s) THEN s[i] ELSE t[i - Len(s)]
    BY <1>2, ConcatProperties
  <1>4. Range(m) = U
    <2>0. DOMAIN m = 1 .. Len(m)
      BY <1>3, LenProperties
    <2>1. /\ \A x \in S : \E k \in 1 .. Len(s) : s[k] = x
          /\ \A x \in T : \E k \in 1 .. Len(t) : t[k] = x
      BY DEF Sorted
    <2>2. ASSUME NEW k \in 1 .. Len(m) PROVE m[k] \in U
      BY <1>3, ElementOfSeq
    <2>3. ASSUME NEW x \in S PROVE \E k \in 1 .. Len(m) : m[k] = x
      <3>1. PICK k \in 1 .. Len(s) : s[k] = x
        BY <2>1
      <3>2. k \in 1 .. Len(m) /\ m[k] = x
        BY <1>1, <1>3, <3>1
      <3> QED
        BY <3>2
    <2>4. ASSUME NEW x \in T PROVE \E k \in 1 .. Len(m) : m[k] = x
      <3>1. PICK k \in 1 .. Len(t) : t[k] = x
        BY <2>1
      <3>2. k + Len(s) \in 1 .. Len(m) /\ (k + Len(s)) - Len(s) = k /\ ~(k + Len(s) <= Len(s))
        BY <1>1, <1>3
      <3>3. m[k + Len(s)] = x
        BY <1>3, <3>1, <3>2
      <3> QED
        BY <3>2, <3>3
    <2> QED
      BY <2>0, <2>2, <2>3, <2>4 DEF Range
  <1>0. \A k \in 1 .. Len(m) : Around(Len(m), k) = IF k = Len(m) THEN 1 ELSE k + 1
    <2>1. Len(m) \in Nat
      BY <1>1, <1>3
    <2> QED
      BY <2>1, NextInCycle
  <1> DEFINE turn == IF Len(s) = 0 THEN Len(m) ELSE Len(s)
  <1>5. Descents(m, v) \subseteq {turn}
    <2> SUFFICES ASSUME NEW k \in 1 .. Len(m), k # turn
                 PROVE  v[m[k]] < v[m[Around(Len(m), k)]]
      <3>1. \A k \in 1 .. Len(m) : Around(Len(m), k) \in 1 .. Len(m)
        BY <1>0, <1>1, <1>3
      <3>2. \A k \in 1 .. Len(m) : v[m[k]] \in Int
        BY <1>3, ElementOfSeq
      <3> HIDE DEF turn
      <3>3. ASSUME NEW k \in 1 .. Len(m)
            PROVE  v[m[k]] >= v[m[Around(Len(m), k)]] =>
                       ~ (v[m[k]] < v[m[Around(Len(m), k)]])
        <4>1. PICK i \in 1 .. Len(m) : i = Around(Len(m), k)
          BY <3>1
        <4>2. PICK x \in Int, y \in Int : x = v[m[k]] /\ y = v[m[i]]
          BY <3>2
        <4> QED
          BY <4>1, <4>2
      <3> QED
        BY <3>3 DEF Descents
    <2>1. CASE k = Len(m)
      <3>1. Len(m) \in Nat /\ Len(m) > 0 /\ Around(Len(m), k) = 1
        BY <1>0, <1>1, <1>3, <2>1
      <3>2. Len(s) # 0 /\ Len(t) # 0
        BY <1>1, <1>3, <2>1
      <3>3. m[k] = t[Len(t)] /\ m[Around(Len(m), k)] = s[1]
        BY <1>1, <1>3, <2>1, <3>1, <3>2
      <3>4. t[Len(t)] \in T /\ s[1] \in S
        BY <1>1, <3>2, ElementOfSeq
      <3> QED
        BY <3>3, <3>4
    <2>2. CASE k # Len(m)
      <3>1. Around(Len(m), k) = k + 1 /\ k + 1 \in 1 .. Len(m)
        BY <1>0, <1>1, <1>3, <2>2
      <3>2. CASE k < Len(s)
        <4>1. /\ m[k] = s[k] /\ m[k + 1] = s[k + 1]
              /\ k \in 1 .. Len(s) /\ k + 1 \in 1 .. Len(s) /\ k < k + 1
          BY <1>1, <1>3, <3>1, <3>2
        <4> QED
          BY <3>1, <4>1 DEF Sorted
      <3>3. CASE Len(s) < k
        <4>1. PICK i \in 1 .. Len(t), j \in 1 .. Len(t) :
                  i = k - Len(s) /\ j = (k + 1) - Len(s) /\ i < j
          <5>1. k - Len(s) \in 1 .. Len(t) /\ (k + 1) - Len(s) \in 1 .. Len(t)
            BY <1>1, <1>3, <3>1, <3>3
          <5>2. k - Len(s) < (k + 1) - Len(s)
            BY <1>1
          <5> QED
            BY <5>1, <5>2
        <4>2. m[k] = t[i] /\ m[k + 1] = t[j]
          BY <1>1, <1>3, <3>1, <3>3, <4>1
        <4> QED
          BY <3>1, <4>1, <4>2 DEF Sorted
      <3>4. k < Len(s) \/ Len(s) < k
        BY <1>1, <1>3, <2>2
      <3> QED
        BY <3>2, <3>3, <3>4
    <2> QED
      BY <2>1, <2>2
  <1>6. Cardinality(Descents(m, v)) <= 1
    <2> HIDE DEF turn
    <2>1. IsFiniteSet({turn}) /\ Cardinality({turn}) = 1
      BY FS_Singleton
    <2> QED
      BY <1>5, <2>1, FS_Subset
  <1> QED
    BY <1>3, <1>4, <1>6
=============================================================================
