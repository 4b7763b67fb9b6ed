----------------------------- MODULE FiniteFacts -----------------------------
(***************************************************************************)
(* Facts about finite sets that the proofs of several modules rest on:     *)
(* induction, the places of an order, and sums.  The induction principles  *)
(* are about a set of the things that have a property, not about the       *)
(* property.                                                               *)
(***************************************************************************)
EXTENDS Filtering, FiniteSetsExt, FiniteSetTheorems, FunctionTheorems, SequenceTheorems, TLAPS

----------------------------------------------------------------------------
(* Induction. *)

\* A set of naturals that is not empty has a least element.
LEMMA LeastNatural ==
  ASSUME NEW T, T \subseteq Nat, T # {}
  PROVE \E x \in T : \A y \in T : x <= y
<1>1. PICK x \in T : \A y \in T : ~ (<<y, x>> \in OpToRel(<, Nat))
  BY WFMin, NatLessThanWellFounded
<1>2. \A y \in T : ~ (y < x)
  BY <1>1 DEF OpToRel
<1> QED
  BY <1>2

\* A set that holds zero and the successor of each natural in it holds every natural.
LEMMA NaturalsByInduction ==
  ASSUME NEW G, 0 \in G, \A n \in Nat : n \in G => n + 1 \in G
  PROVE Nat \subseteq G
<1> SUFFICES ASSUME Nat \ G # {} PROVE FALSE
  OBVIOUS
<1>1. PICK m \in Nat \ G : \A n \in Nat \ G : m <= n
  BY LeastNatural
<1>2. m - 1 \in Nat /\ m - 1 \in G
  BY <1>1
<1> QED
  BY <1>2

\* A set that holds the empty set, and with each set one larger by an element, holds every
\* finite set of those elements.
LEMMA SetsByInduction ==
  ASSUME NEW S, IsFiniteSet(S), NEW G, {} \in G,
         \A T \in SUBSET S : \A x \in S \ T : T \in G => T \union {x} \in G
  PROVE SUBSET S \subseteq G
<1> DEFINE N == {n \in Nat : \A T \in SUBSET S : Cardinality(T) = n => T \in G}
<1>1. 0 \in N
  <2>1. \A T \in SUBSET S : Cardinality(T) = 0 => T = {}
    BY FS_Subset, FS_EmptySet
  <2> QED
    BY <2>1
<1>2. ASSUME NEW n \in Nat, n \in N PROVE n + 1 \in N
  <2> SUFFICES ASSUME NEW T \in SUBSET S, Cardinality(T) = n + 1 PROVE T \in G
    OBVIOUS
  <2>1. IsFiniteSet(T) /\ T # {}
    BY FS_Subset, FS_EmptySet
  <2>2. PICK x \in T : TRUE
    BY <2>1
  <2>3. Cardinality(T \ {x}) = n
    <3>1. Cardinality(T \ {x}) = Cardinality(T) - 1
      BY <2>1, FS_RemoveElement
    <3> QED
      BY <3>1
  <2>4. T \ {x} \in G
    BY <1>2, <2>3
  <2>5. (T \ {x}) \union {x} \in G
    BY <2>4
  <2> QED
    BY <2>5, (T \ {x}) \union {x} = T
<1>3. Nat \subseteq N
  <2> HIDE DEF N
  <2> QED
    BY <1>1, <1>2, NaturalsByInduction
<1> QED
  BY <1>3, FS_Subset, FS_CardinalityType

----------------------------------------------------------------------------
(* Places. *)

\* R is a strict order of all of S.
IsLinear(R, S) ==
  /\ \A x \in S : <<x, x>> \notin R
  /\ \A x, y, z \in S : <<x, y>> \in R /\ <<y, z>> \in R => <<x, z>> \in R
  /\ \A x, y \in S : x # y => <<x, y>> \in R \/ <<y, x>> \in R

\* Those of S before x.
BeforeIn(R, S, x) == {y \in S : <<y, x>> \in R}

\* In an order of a finite set, the members and the places 0, 1, ... fall together.
LEMMA EachHasItsPlace ==
  ASSUME NEW S, IsFiniteSet(S), NEW R, IsLinear(R, S)
  PROVE [x \in S |-> Cardinality(BeforeIn(R, S, x))] \in Bijection(S, 0..(Cardinality(S) - 1))
<1> DEFINE place == [x \in S |-> Cardinality(BeforeIn(R, S, x))]
           n == Cardinality(S)
<1>1. n \in Nat
  BY FS_CardinalityType
<1>2. ASSUME NEW x \in S
      PROVE IsFiniteSet(BeforeIn(R, S, x)) /\ Cardinality(BeforeIn(R, S, x)) \in 0..(n - 1)
  <2>1. BeforeIn(R, S, x) \in SUBSET S /\ x \notin BeforeIn(R, S, x)
    BY DEF BeforeIn, IsLinear
  <2>2. IsFiniteSet(BeforeIn(R, S, x)) /\ Cardinality(BeforeIn(R, S, x)) <= n
        /\ Cardinality(BeforeIn(R, S, x)) # n
    BY <2>1, FS_Subset
  <2> QED
    BY <2>2, <1>1, FS_CardinalityType
<1>3. ASSUME NEW x \in S, NEW y \in S, <<x, y>> \in R PROVE place[x] < place[y]
  <2>1. BeforeIn(R, S, x) \in SUBSET BeforeIn(R, S, y)
    BY <1>3 DEF BeforeIn, IsLinear
  <2>2. x \in BeforeIn(R, S, y) /\ x \notin BeforeIn(R, S, x)
    BY <1>3 DEF BeforeIn, IsLinear
  <2>3. /\ Cardinality(BeforeIn(R, S, x)) <= Cardinality(BeforeIn(R, S, y))
        /\ Cardinality(BeforeIn(R, S, x)) # Cardinality(BeforeIn(R, S, y))
    BY <1>2, <2>1, <2>2, FS_Subset
  <2> QED
    BY <1>2, <2>3
<1>4. place \in [S -> 0..(n - 1)]
  BY <1>2
<1>5. ASSUME NEW x \in S, NEW y \in S, place[x] = place[y] PROVE x = y
  <2>1. place[x] \in 0..(n - 1) /\ ~(place[x] < place[y]) /\ ~(place[y] < place[x])
    <3> HIDE DEF place
    <3> QED
      BY <1>1, <1>4, <1>5
  <2>2. <<x, y>> \notin R /\ <<y, x>> \notin R
    BY <2>1, <1>3
  <2> QED
    BY <2>2 DEF IsLinear
<1>6. place \in Injection(S, 0..(n - 1))
  BY <1>4, <1>5 DEF Injection, IsInjective
<1>7. IsFiniteSet(0..(n - 1)) /\ Cardinality(0..(n - 1)) = n
  BY <1>1, FS_Interval
<1>8. place \in Surjection(S, 0..(n - 1))
  BY <1>6, <1>7, FS_Injection
<1> QED
  BY <1>6, <1>8 DEF Bijection

\* The first m of an order: as many of them.
FirstIn(R, S, m) == {x \in S : Cardinality(BeforeIn(R, S, x)) < m}

LEMMA TheFirst ==
  ASSUME NEW S, IsFiniteSet(S), NEW R, IsLinear(R, S), NEW m \in 0..Cardinality(S)
  PROVE Cardinality(FirstIn(R, S, m)) = m
<1> DEFINE place == [x \in S |-> Cardinality(BeforeIn(R, S, x))]
           First == FirstIn(R, S, m)
<1>1. /\ place \in [S -> 0..(Cardinality(S) - 1)]
      /\ \A x, y \in S : place[x] = place[y] => x = y
      /\ \A t \in 0..(Cardinality(S) - 1) : \E x \in S : place[x] = t
  <2>1. place \in Bijection(S, 0..(Cardinality(S) - 1))
    BY EachHasItsPlace
  <2> HIDE DEF place
  <2> QED
    BY <2>1 DEF Bijection, Injection, Surjection, IsInjective
<1>2. Cardinality(S) \in Nat
  BY FS_CardinalityType
<1>3. First = {x \in S : place[x] < m}
  BY DEF FirstIn
<1>4. [x \in First |-> place[x]] \in Bijection(First, 0..(m - 1))
  <2> HIDE DEF First, place
  <2>1. [x \in First |-> place[x]] \in [First -> 0..(m - 1)]
    BY <1>1, <1>2, <1>3
  <2>2. \A x, y \in First : place[x] = place[y] => x = y
    BY <1>1, <1>3
  <2>3. \A t \in 0..(m - 1) : \E x \in First : place[x] = t
    BY <1>1, <1>2, <1>3
  <2> QED
    BY <2>1, <2>2, <2>3 DEF Bijection, Injection, Surjection, IsInjective
<1>5. ExistsBijection(First, 0..(m - 1))
  BY <1>4 DEF ExistsBijection
<1>6. IsFiniteSet(First)
  BY FS_Subset DEF FirstIn
<1>7. Cardinality(0..(m - 1)) = m
  BY FS_Interval
<1> QED
  BY <1>5, <1>6, <1>7, FS_Bijection

\* What a function takes for values on a finite set is finite.
LEMMA ImageIsFinite ==
  ASSUME NEW f, NEW S, IsFiniteSet(S), NEW T, T = {f[x] : x \in S}
  PROVE IsFiniteSet(T)
<1> DEFINE h == [x \in S |-> f[x]]
<1>1. h \in Surjection(S, T)
  BY DEF Surjection
<1> QED
  BY <1>1, FS_Surjection

----------------------------------------------------------------------------
(* Filtered sequences. *)

\* A filtered sequence goes through the places it keeps one by one.
LEMMA FilteredGoesThrough ==
  ASSUME NEW X, NEW seq \in Seq(X), NEW S
  PROVE /\ IsFiniteSet(Kept(seq, S)) /\ Cardinality(Kept(seq, S)) \in Nat
        /\ \E nth \in Bijection(1..Cardinality(Kept(seq, S)), Kept(seq, S)) :
             Filtered(seq, S) = [n \in 1..Cardinality(Kept(seq, S)) |-> seq[nth[n]]]
<1> DEFINE kept == Kept(seq, S)
           R == {p \in Nat \X Nat : p[1] < p[2]}
           c == Cardinality(kept)
           Nth(n) == CHOOSE i \in kept : Cardinality({j \in kept : j < i}) = n - 1
           place == [i \in kept |-> Cardinality(BeforeIn(R, kept, i))]
<1>1. kept \in SUBSET (1..Len(seq)) /\ Len(seq) \in Nat
  BY DEF Kept
<1>2. IsFiniteSet(kept) /\ c \in Nat
  <2>1. IsFiniteSet(1..Len(seq))
    BY <1>1, FS_Interval
  <2>2. IsFiniteSet(kept)
    BY <1>1, <2>1, FS_Subset
  <2> QED
    BY <2>2, FS_CardinalityType
<1>3. IsLinear(R, kept)
  BY <1>1 DEF IsLinear
<1>4. \A i \in kept : BeforeIn(R, kept, i) = {j \in kept : j < i}
  BY <1>1 DEF BeforeIn
<1>5. /\ place \in [kept -> 0..(c - 1)]
      /\ \A i, j \in kept : place[i] = place[j] => i = j
      /\ \A t \in 0..(c - 1) : \E i \in kept : place[i] = t
  <2>1. place \in Bijection(kept, 0..(c - 1))
    BY <1>2, <1>3, EachHasItsPlace
  <2> HIDE DEF place, c
  <2> QED
    BY <2>1 DEF Bijection, Injection, Surjection, IsInjective
<1>6. \A i \in kept : place[i] = Cardinality({j \in kept : j < i})
  BY <1>4
<1>7. \A n \in 1..c : Nth(n) \in kept /\ place[Nth(n)] = n - 1
  <2> SUFFICES ASSUME NEW n \in 1..c PROVE Nth(n) \in kept /\ place[Nth(n)] = n - 1
    OBVIOUS
  <2>1. \E i \in kept : Cardinality({j \in kept : j < i}) = n - 1
    <3>1. n - 1 \in 0..(c - 1)
      BY <1>2
    <3> HIDE DEF place
    <3> QED
      BY <1>5, <1>6, <3>1
  <2>2. Nth(n) \in kept /\ Cardinality({j \in kept : j < Nth(n)}) = n - 1
    BY <2>1
  <2> HIDE DEF Nth, place
  <2> QED
    BY <1>6, <2>2
<1> DEFINE nth == [n \in 1..c |-> Nth(n)]
<1>8. nth \in Bijection(1..c, kept)
  <2> HIDE DEF Nth, place, c
  <2>1. nth \in [1..c -> kept]
    BY <1>7
  <2>2. \A m, n \in 1..c : nth[m] = nth[n] => m = n
    BY <1>7
  <2>3. \A i \in kept : \E n \in 1..c : nth[n] = i
    <3> SUFFICES ASSUME NEW i \in kept PROVE \E n \in 1..c : nth[n] = i
      OBVIOUS
    <3>1. place[i] + 1 \in 1..c /\ place[i] \in Int
      BY <1>2, <1>5
    <3>2. Nth(place[i] + 1) \in kept /\ place[Nth(place[i] + 1)] = place[i]
      BY <1>7, <3>1
    <3>3. Nth(place[i] + 1) = i
      BY <1>5, <3>2
    <3> QED
      BY <3>1, <3>3
  <2> QED
    BY <2>1, <2>2, <2>3 DEF Bijection, Injection, Surjection, IsInjective
<1>9. Filtered(seq, S) = [n \in 1..c |-> seq[nth[n]]]
  <2>1. Filtered(seq, S) = [n \in 1..c |-> seq[Nth(n)]]
    BY DEF Filtered, Kept
  <2> HIDE DEF Nth
  <2> QED
    BY <2>1
<1> HIDE DEF nth
<1> QED
  BY <1>2, <1>8, <1>9

\* It holds what is in the set and nothing else, and no member twice that was not.
LEMMA FilteredHolds ==
  ASSUME NEW X, NEW seq \in Seq(X), NEW S
  PROVE /\ Filtered(seq, S) \in Seq(S \intersect X)
        /\ \A i \in DOMAIN seq : seq[i] \in S => \E n \in DOMAIN Filtered(seq, S) :
                                                    Filtered(seq, S)[n] = seq[i]
        /\ (\A i, j \in DOMAIN seq : seq[i] = seq[j] => i = j)
             => \A m, n \in DOMAIN Filtered(seq, S) :
                  Filtered(seq, S)[m] = Filtered(seq, S)[n] => m = n
<1> DEFINE kept == Kept(seq, S)
           c == Cardinality(kept)
<1>1. PICK nth \in Bijection(1..c, kept) : Filtered(seq, S) = [n \in 1..c |-> seq[nth[n]]]
  BY FilteredGoesThrough
<1>2. c \in Nat
  BY FilteredGoesThrough
<1>3. /\ nth \in [1..c -> kept]
      /\ \A m, n \in 1..c : nth[m] = nth[n] => m = n
      /\ \A i \in kept : \E n \in 1..c : nth[n] = i
  <2> HIDE DEF kept, c
  <2> QED
    BY <1>1 DEF Bijection, Injection, Surjection, IsInjective
<1>4. \A n \in 1..c : nth[n] \in DOMAIN seq /\ seq[nth[n]] \in S \intersect X
  BY <1>3 DEF Kept
<1>5. DOMAIN Filtered(seq, S) = 1..c /\ \A n \in 1..c : Filtered(seq, S)[n] = seq[nth[n]]
  BY <1>1
<1>6. Filtered(seq, S) \in Seq(S \intersect X)
  <2> HIDE DEF kept, c
  <2> QED
    BY <1>1, <1>2, <1>4
<1>7. \A i \in DOMAIN seq : seq[i] \in S =>
        \E n \in DOMAIN Filtered(seq, S) : Filtered(seq, S)[n] = seq[i]
  BY <1>3, <1>5 DEF Kept
<1> QED
  <2> HIDE DEF c
  <2> QED
    BY <1>3, <1>4, <1>5, <1>6, <1>7

----------------------------------------------------------------------------
(* Sums: SumFunctionOnSet(f, S), of f[x] for x in S. *)

\* What the definition of a sum over S unfolds to: the total of every part of S, taking one
\* element off at a time.
Any(T) == CHOOSE x \in T : TRUE

Totals(f, S, total) ==
  total = [T \in SUBSET S |-> IF T = {} THEN 0 ELSE f[Any(T)] + total[T \ {Any(T)}]]

LEMMA SumByTotals ==
  ASSUME NEW f, NEW S
  PROVE SumFunctionOnSet(f, S) = (CHOOSE total : Totals(f, S, total))[S]
BY DEF SumFunctionOnSet, FoldFunctionOnSet, MapThenFoldSet, Totals, Any

\* One taken off a finite set leaves one less.
LEMMA OneLess ==
  ASSUME NEW T, IsFiniteSet(T), T # {}
  PROVE /\ Any(T) \in T
        /\ IsFiniteSet(T \ {Any(T)})
        /\ Cardinality(T) \in Nat /\ Cardinality(T \ {Any(T)}) \in Nat
        /\ Cardinality(T \ {Any(T)}) = Cardinality(T) - 1
<1>1. Any(T) \in T
  BY DEF Any
<1>2. IsFiniteSet(T \ {Any(T)}) /\ Cardinality(T \ {Any(T)}) = Cardinality(T) - 1
  BY <1>1, FS_RemoveElement
<1>3. Cardinality(T) \in Nat /\ Cardinality(T \ {Any(T)}) \in Nat
  BY <1>2, FS_CardinalityType
<1> QED
  BY <1>1, <1>2, <1>3

\* There is such a function: it is built up by the size of the parts.
LEMMA TotalsExist ==
  ASSUME NEW f, NEW S, IsFiniteSet(S)
  PROVE \E total : Totals(f, S, total)
<1> DEFINE Small(n) == {T \in SUBSET S : Cardinality(T) <= n}
           Upto(n, g) == g = [T \in Small(n) |->
                                IF T = {} THEN 0 ELSE f[Any(T)] + g[T \ {Any(T)}]]
           N == {n \in Nat : \E g : Upto(n, g)}
<1>1. \A T \in SUBSET S : IsFiniteSet(T) /\ Cardinality(T) \in Nat
  BY FS_Subset, FS_CardinalityType
<1>2. 0 \in N
  <2>1. \A T \in Small(0) : T = {}
    BY <1>1, FS_EmptySet
  <2>2. Upto(0, [T \in Small(0) |-> 0])
    BY <2>1
  <2> HIDE DEF Upto
  <2> QED
    BY <2>2
<1>3. ASSUME NEW n \in Nat, n \in N PROVE n + 1 \in N
  <2>1. PICK g : Upto(n, g)
    BY <1>3
  <2> DEFINE h == [T \in Small(n + 1) |->
                     IF T = {} THEN 0 ELSE f[Any(T)] + g[T \ {Any(T)}]]
  <2>2. \A T \in Small(n) : T \in Small(n + 1) /\ h[T] = g[T]
    <3>1. \A T \in Small(n) : T \in Small(n + 1)
      BY <1>1
    <3>2. \A T \in Small(n) : g[T] = IF T = {} THEN 0 ELSE f[Any(T)] + g[T \ {Any(T)}]
      <4> HIDE DEF Small
      <4> QED
        BY <2>1
    <3> HIDE DEF Small
    <3> QED
      BY <3>1, <3>2
  <2>3. \A T \in Small(n + 1) : T # {} => T \ {Any(T)} \in Small(n)
    BY <1>1, OneLess
  <2>4. Upto(n + 1, h)
    <3> HIDE DEF Small
    <3> QED
      BY <2>2, <2>3
  <2> HIDE DEF Upto, h
  <2> QED
    BY <2>4
<1>4. Cardinality(S) \in N
  <2>1. Nat \subseteq N
    <3> HIDE DEF N
    <3> QED
      BY <1>2, <1>3, NaturalsByInduction
  <2> QED
    BY <1>1, <2>1
<1>5. Small(Cardinality(S)) = SUBSET S
  BY FS_Subset
<1>6. PICK g : Upto(Cardinality(S), g)
  BY <1>4
<1>7. Totals(f, S, g)
  <2> HIDE DEF Small
  <2> QED
    BY <1>5, <1>6 DEF Totals
<1> QED
  BY <1>7

\* And only one value for each part, whatever it is a part of.
LEMMA TotalsAgree ==
  ASSUME NEW f, NEW S, IsFiniteSet(S), NEW T \in SUBSET S,
         NEW one, Totals(f, S, one), NEW other, Totals(f, T, other)
  PROVE one[T] = other[T]
<1> DEFINE N == {n \in Nat : \A U \in SUBSET T : Cardinality(U) = n => one[U] = other[U]}
<1>1. ASSUME NEW U \in SUBSET T
      PROVE /\ IsFiniteSet(U) /\ Cardinality(U) \in Nat
            /\ one[U] = (IF U = {} THEN 0 ELSE f[Any(U)] + one[U \ {Any(U)}])
            /\ other[U] = (IF U = {} THEN 0 ELSE f[Any(U)] + other[U \ {Any(U)}])
  <2>1. U \in SUBSET S
    OBVIOUS
  <2>2. IsFiniteSet(U) /\ Cardinality(U) \in Nat
    BY <2>1, FS_Subset, FS_CardinalityType
  <2> QED
    BY <2>1, <2>2 DEF Totals
<1>2. 0 \in N
  BY <1>1, FS_EmptySet
<1>3. ASSUME NEW n \in Nat, n \in N PROVE n + 1 \in N
  <2> SUFFICES ASSUME NEW U \in SUBSET T, Cardinality(U) = n + 1 PROVE one[U] = other[U]
    OBVIOUS
  <2>1. U # {}
    BY FS_EmptySet
  <2>2. U \ {Any(U)} \in SUBSET T /\ Cardinality(U \ {Any(U)}) = n
    <3>1. IsFiniteSet(U)
      BY <1>1
    <3> QED
      BY <2>1, <3>1, OneLess
  <2>3. one[U \ {Any(U)}] = other[U \ {Any(U)}]
    BY <1>3, <2>2
  <2> QED
    BY <1>1, <2>1, <2>3
<1>4. Nat \subseteq N
  <2> HIDE DEF N
  <2> QED
    BY <1>2, <1>3, NaturalsByInduction
<1> QED
  BY <1>1, <1>4

\* The sum of nothing is zero; any other is that of one element and the rest.
LEMMA SumTakesOne ==
  ASSUME NEW f, NEW S, IsFiniteSet(S)
  PROVE SumFunctionOnSet(f, S) =
          IF S = {} THEN 0 ELSE f[Any(S)] + SumFunctionOnSet(f, S \ {Any(S)})
<1>1. ASSUME NEW T \in SUBSET S
      PROVE \E total : Totals(f, T, total) /\ SumFunctionOnSet(f, T) = total[T]
  <2>1. \E total : Totals(f, T, total)
    BY FS_Subset, TotalsExist
  <2> QED
    BY <2>1, SumByTotals
<1>2. PICK all : Totals(f, S, all) /\ SumFunctionOnSet(f, S) = all[S]
  BY <1>1
<1>3. \A T \in SUBSET S : SumFunctionOnSet(f, T) = all[T]
  BY <1>1, <1>2, TotalsAgree
<1>4. all[S] = IF S = {} THEN 0 ELSE f[Any(S)] + all[S \ {Any(S)}]
  BY <1>2 DEF Totals
<1> QED
  BY <1>3, <1>4

LEMMA SumOfNone ==
  ASSUME NEW f
  PROVE SumFunctionOnSet(f, {}) = 0
BY SumTakesOne, FS_EmptySet

LEMMA SumIsInt ==
  ASSUME NEW S, IsFiniteSet(S), NEW f, \A x \in S : f[x] \in Int
  PROVE SumFunctionOnSet(f, S) \in Int
<1> DEFINE N == {n \in Nat : \A T \in SUBSET S : Cardinality(T) = n => SumFunctionOnSet(f, T) \in Int}
<1>1. 0 \in N
  BY FS_Subset, FS_EmptySet, SumOfNone
<1>2. ASSUME NEW n \in Nat, n \in N PROVE n + 1 \in N
  <2> SUFFICES ASSUME NEW T \in SUBSET S, Cardinality(T) = n + 1
               PROVE SumFunctionOnSet(f, T) \in Int
    OBVIOUS
  <2>1. IsFiniteSet(T) /\ T # {}
    BY FS_Subset, FS_EmptySet
  <2>2. Any(T) \in S /\ T \ {Any(T)} \in SUBSET S /\ Cardinality(T \ {Any(T)}) = n
    BY <2>1, OneLess
  <2>3. SumFunctionOnSet(f, T \ {Any(T)}) \in Int /\ f[Any(T)] \in Int
    BY <1>2, <2>2
  <2> QED
    BY <2>1, <2>3, SumTakesOne
<1>3. Nat \subseteq N
  <2> HIDE DEF N
  <2> QED
    BY <1>1, <1>2, NaturalsByInduction
<1> QED
  BY <1>3, FS_CardinalityType

\* It does not matter which element is taken first.
LEMMA SumWithout ==
  ASSUME NEW S, IsFiniteSet(S), NEW f, \A x \in S : f[x] \in Int, NEW x \in S
  PROVE SumFunctionOnSet(f, S) = f[x] + SumFunctionOnSet(f, S \ {x})
<1> DEFINE Sum(T) == SumFunctionOnSet(f, T)
           N == {n \in Nat : \A T \in SUBSET S : \A y \in T :
                               Cardinality(T) = n => Sum(T) = f[y] + Sum(T \ {y})}
<1>1. \A T \in SUBSET S : IsFiniteSet(T) /\ Cardinality(T) \in Nat /\ Sum(T) \in Int
  BY FS_Subset, FS_CardinalityType, SumIsInt
<1>2. 0 \in N
  BY <1>1, FS_EmptySet
<1>3. ASSUME NEW n \in Nat, n \in N PROVE n + 1 \in N
  <2> SUFFICES ASSUME NEW T \in SUBSET S, NEW y \in T, Cardinality(T) = n + 1
               PROVE Sum(T) = f[y] + Sum(T \ {y})
    OBVIOUS
  <2> DEFINE a == Any(T)
  <2>1. /\ a \in T /\ T \ {a} \in SUBSET S /\ T \ {y} \in SUBSET S
        /\ Cardinality(T \ {a}) = n /\ Cardinality(T \ {y}) = n
        /\ (T \ {a}) \ {y} = (T \ {y}) \ {a} /\ (T \ {a}) \ {y} \in SUBSET S
        /\ f[a] \in Int /\ f[y] \in Int
    <3>1. IsFiniteSet(T) /\ T # {}
      BY <1>1
    <3>2. a \in T /\ Cardinality(T \ {a}) = Cardinality(T) - 1
      BY <3>1, OneLess
    <3>3. Cardinality(T \ {y}) = Cardinality(T) - 1
      BY <3>1, FS_RemoveElement
    <3> HIDE DEF a
    <3> QED
      BY <3>2, <3>3
  <2>2. Sum(T) = f[a] + Sum(T \ {a})
    BY <1>1, SumTakesOne
  <2>3. CASE y = a
    BY <2>2, <2>3
  <2>4. CASE y # a
    <3> HIDE DEF a, Sum
    <3>1. Sum(T \ {a}) = f[y] + Sum((T \ {a}) \ {y})
      BY <1>3, <2>1, <2>4
    <3>2. Sum(T \ {y}) = f[a] + Sum((T \ {a}) \ {y})
      BY <1>3, <2>1, <2>4
    <3>3. Sum((T \ {a}) \ {y}) \in Int
      BY <1>1, <2>1
    <3> QED
      BY <2>1, <2>2, <3>1, <3>2, <3>3
  <2> QED
    BY <2>3, <2>4
<1>4. Nat \subseteq N
  <2> HIDE DEF N
  <2> QED
    BY <1>2, <1>3, NaturalsByInduction
<1> QED
  BY <1>1, <1>4

\* And one more element adds what it is worth.
LEMMA SumWith ==
  ASSUME NEW S, IsFiniteSet(S), NEW f, NEW x, x \notin S, \A y \in S \union {x} : f[y] \in Int
  PROVE SumFunctionOnSet(f, S \union {x}) = f[x] + SumFunctionOnSet(f, S)
<1>1. IsFiniteSet(S \union {x}) /\ (S \union {x}) \ {x} = S
  BY FS_AddElement
<1> QED
  BY <1>1, SumWithout

\* Values that agree have the same sum.
LEMMA SumOfSame ==
  ASSUME NEW S, IsFiniteSet(S), NEW f, NEW g, \A x \in S : f[x] = g[x]
  PROVE SumFunctionOnSet(f, S) = SumFunctionOnSet(g, S)
<1> DEFINE G == {T \in SUBSET S : SumFunctionOnSet(f, T) = SumFunctionOnSet(g, T)}
           N == {n \in Nat : \A T \in SUBSET S : Cardinality(T) = n => T \in G}
<1>1. 0 \in N
  BY FS_Subset, FS_EmptySet, SumOfNone
<1>2. ASSUME NEW n \in Nat, n \in N PROVE n + 1 \in N
  <2> SUFFICES ASSUME NEW T \in SUBSET S, Cardinality(T) = n + 1 PROVE T \in G
    OBVIOUS
  <2>1. IsFiniteSet(T) /\ T # {}
    BY FS_Subset, FS_EmptySet
  <2>2. Any(T) \in S /\ T \ {Any(T)} \in SUBSET S /\ Cardinality(T \ {Any(T)}) = n
    BY <2>1, OneLess
  <2>3. T \ {Any(T)} \in G /\ f[Any(T)] = g[Any(T)]
    BY <1>2, <2>2
  <2> QED
    BY <2>1, <2>3, SumTakesOne
<1>3. Nat \subseteq N
  <2> HIDE DEF N
  <2> QED
    BY <1>1, <1>2, NaturalsByInduction
<1> QED
  BY <1>3, FS_CardinalityType

\* Values that are no smaller have no smaller a sum.
LEMMA SumIsMonotone ==
  ASSUME NEW S, IsFiniteSet(S), NEW f, NEW g,
         \A x \in S : f[x] \in Int /\ g[x] \in Int /\ f[x] <= g[x]
  PROVE SumFunctionOnSet(f, S) <= SumFunctionOnSet(g, S)
<1> DEFINE G == {T \in SUBSET S : SumFunctionOnSet(f, T) <= SumFunctionOnSet(g, T)}
<1>1. \A T \in SUBSET S : IsFiniteSet(T) /\ SumFunctionOnSet(f, T) \in Int
                          /\ SumFunctionOnSet(g, T) \in Int
  BY FS_Subset, SumIsInt
<1>2. {} \in G
  BY SumOfNone
<1>3. ASSUME NEW T \in SUBSET S, NEW x \in S \ T, T \in G PROVE T \union {x} \in G
  <2>1. /\ SumFunctionOnSet(f, T \union {x}) = f[x] + SumFunctionOnSet(f, T)
        /\ SumFunctionOnSet(g, T \union {x}) = g[x] + SumFunctionOnSet(g, T)
    BY <1>1, SumWith
  <2> QED
    BY <1>1, <1>3, <2>1
<1>4. SUBSET S \subseteq G
  <2> HIDE DEF G
  <2> QED
    BY <1>2, <1>3, SetsByInduction
<1> QED
  BY <1>4

\* The sum of two sets that share nothing.
LEMMA SumOfUnion ==
  ASSUME NEW S, NEW U, IsFiniteSet(S), IsFiniteSet(U), S \intersect U = {},
         NEW f, \A x \in S \union U : f[x] \in Int
  PROVE SumFunctionOnSet(f, S \union U) = SumFunctionOnSet(f, S) + SumFunctionOnSet(f, U)
<1> DEFINE Sum(T) == SumFunctionOnSet(f, T)
           G == {T \in SUBSET S : Sum(T \union U) = Sum(T) + Sum(U)}
<1>1. \A T \in SUBSET S : /\ IsFiniteSet(T) /\ IsFiniteSet(T \union U)
                          /\ Sum(T) \in Int /\ Sum(T \union U) \in Int
  BY FS_Subset, FS_Union, SumIsInt
<1>2. Sum(U) \in Int
  BY SumIsInt
<1>3. {} \in G
  BY <1>2, SumOfNone
<1>4. ASSUME NEW T \in SUBSET S, NEW x \in S \ T, T \in G PROVE T \union {x} \in G
  <2>1. x \notin T \union U /\ (T \union {x}) \union U = (T \union U) \union {x}
    OBVIOUS
  <2>2. Sum(T \union {x}) = f[x] + Sum(T)
    BY <1>1, SumWith
  <2>3. Sum((T \union U) \union {x}) = f[x] + Sum(T \union U)
    BY <1>1, <2>1, SumWith
  <2>4. Sum(T \union U) = Sum(T) + Sum(U)
    BY <1>4
  <2>5. Sum((T \union {x}) \union U) = Sum(T \union {x}) + Sum(U)
    <3>1. Sum(T) \in Int /\ Sum(U) \in Int /\ f[x] \in Int
      BY <1>1, <1>2
    <3>2. Sum((T \union {x}) \union U) = Sum((T \union U) \union {x})
      BY <2>1
    <3> HIDE DEF Sum
    <3> QED
      BY <2>2, <2>3, <2>4, <3>1, <3>2
  <2> QED
    BY <2>5
<1>5. SUBSET S \subseteq G
  <2> HIDE DEF G
  <2> QED
    BY <1>3, <1>4, SetsByInduction
<1> QED
  BY <1>5

\* Nothing is negative: neither is the sum, and a part sums to no more than the whole.
LEMMA SumOfPart ==
  ASSUME NEW S, IsFiniteSet(S), NEW f, \A x \in S : f[x] \in Nat, NEW T \in SUBSET S
  PROVE /\ SumFunctionOnSet(f, S) \in Nat /\ SumFunctionOnSet(f, T) \in Nat
        /\ SumFunctionOnSet(f, T) <= SumFunctionOnSet(f, S)
<1> DEFINE G == {U \in SUBSET S : SumFunctionOnSet(f, U) \in Nat}
<1>1. \A U \in SUBSET S : IsFiniteSet(U)
  BY FS_Subset
<1>2. {} \in G
  BY SumOfNone
<1>3. ASSUME NEW U \in SUBSET S, NEW x \in S \ U, U \in G PROVE U \union {x} \in G
  <2>1. SumFunctionOnSet(f, U \union {x}) = f[x] + SumFunctionOnSet(f, U)
    <3>1. IsFiniteSet(U) /\ x \notin U /\ \A y \in U \union {x} : f[y] \in Int
      BY <1>1
    <3> HIDE DEF G
    <3> QED
      BY <3>1, SumWith
  <2> QED
    BY <1>3, <2>1
<1>4. SUBSET S \subseteq G
  <2> HIDE DEF G
  <2> QED
    BY <1>2, <1>3, SetsByInduction
<1>5. SumFunctionOnSet(f, T \union (S \ T))
        = SumFunctionOnSet(f, T) + SumFunctionOnSet(f, S \ T)
  BY <1>1, SumOfUnion
<1>6. T \union (S \ T) = S
  OBVIOUS
<1> QED
  BY <1>4, <1>5, <1>6

\* What is worth nothing does not count.
LEMMA SumOfZeros ==
  ASSUME NEW S, IsFiniteSet(S), NEW f, \A x \in S : f[x] = 0
  PROVE SumFunctionOnSet(f, S) = 0
<1> DEFINE G == {U \in SUBSET S : SumFunctionOnSet(f, U) = 0}
<1>1. \A U \in SUBSET S : IsFiniteSet(U)
  BY FS_Subset
<1>2. {} \in G
  BY SumOfNone
<1>3. ASSUME NEW U \in SUBSET S, NEW x \in S \ U, U \in G PROVE U \union {x} \in G
  <2>1. SumFunctionOnSet(f, U \union {x}) = f[x] + SumFunctionOnSet(f, U)
    <3>1. IsFiniteSet(U) /\ x \notin U /\ \A y \in U \union {x} : f[y] \in Int
      BY <1>1
    <3> HIDE DEF G
    <3> QED
      BY <3>1, SumWith
  <2> QED
    BY <1>3, <2>1
<1>4. SUBSET S \subseteq G
  <2> HIDE DEF G
  <2> QED
    BY <1>2, <1>3, SetsByInduction
<1> QED
  BY <1>4

\* The same values under other names.
LEMMA SumRenamed ==
  ASSUME NEW S, IsFiniteSet(S), NEW U, NEW h \in Bijection(S, U), NEW f, NEW g,
         \A x \in S : f[x] \in Int /\ f[x] = g[h[x]]
  PROVE IsFiniteSet(U) /\ SumFunctionOnSet(f, S) = SumFunctionOnSet(g, U)
<1> DEFINE Image(T) == {h[x] : x \in T}
           G == {T \in SUBSET S : SumFunctionOnSet(f, T) = SumFunctionOnSet(g, Image(T))}
<1>1. /\ h \in [S -> U]
      /\ \A x, y \in S : h[x] = h[y] => x = y
      /\ \A u \in U : \E x \in S : h[x] = u
  BY DEF Bijection, Injection, Surjection, IsInjective
<1>2. IsFiniteSet(U)
  BY FS_Bijection DEF ExistsBijection
<1>3. \A T \in SUBSET S : IsFiniteSet(T) /\ Image(T) \in SUBSET U /\ IsFiniteSet(Image(T))
  BY <1>1, <1>2, FS_Subset
<1>4. {} \in G
  BY SumOfNone
<1>5. ASSUME NEW T \in SUBSET S, NEW x \in S \ T, T \in G PROVE T \union {x} \in G
  <2>1. Image(T \union {x}) = Image(T) \union {h[x]} /\ h[x] \notin Image(T)
    BY <1>1
  <2>2. SumFunctionOnSet(f, T \union {x}) = f[x] + SumFunctionOnSet(f, T)
    BY <1>3, SumWith
  <2>3. \A y \in Image(T) \union {h[x]} : g[y] \in Int
    OBVIOUS
  <2>4. SumFunctionOnSet(g, Image(T) \union {h[x]}) = g[h[x]] + SumFunctionOnSet(g, Image(T))
    <3> HIDE DEF Image
    <3> QED
      BY <1>3, <2>1, <2>3, SumWith
  <2> QED
    BY <1>5, <2>1, <2>2, <2>4
<1>6. SUBSET S \subseteq G
  <2> HIDE DEF G
  <2> QED
    BY <1>4, <1>5, SetsByInduction
<1>7. Image(S) = U
  BY <1>1
<1> QED
  BY <1>2, <1>6, <1>7

\* A sum is that of the sums of its classes.
LEMMA SumByClass ==
  ASSUME NEW S, IsFiniteSet(S), NEW f, \A x \in S : f[x] \in Int,
         NEW C, IsFiniteSet(C), NEW class, \A x \in S : class[x] \in C
  PROVE SumFunctionOnSet(f, S)
          = SumFunctionOnSet([c \in C |-> SumFunctionOnSet(f, {x \in S : class[x] = c})], C)
<1> DEFINE Of(D) == {x \in S : class[x] \in D}
           One(c) == {x \in S : class[x] = c}
           sums == [c \in C |-> SumFunctionOnSet(f, One(c))]
           G == {D \in SUBSET C : SumFunctionOnSet(f, Of(D)) = SumFunctionOnSet(sums, D)}
<1>1. ASSUME NEW D PROVE IsFiniteSet(Of(D)) /\ Of(D) \subseteq S
  BY FS_Subset
<1>2. ASSUME NEW c PROVE IsFiniteSet(One(c)) /\ One(c) \subseteq S
  BY FS_Subset
<1>3. \A c \in C : sums[c] = SumFunctionOnSet(f, One(c)) /\ sums[c] \in Int
  <2>1. ASSUME NEW c \in C PROVE SumFunctionOnSet(f, One(c)) \in Int
    <3> HIDE DEF One
    <3> QED
      BY <1>2, SumIsInt
  <2> HIDE DEF One
  <2> QED
    BY <2>1
<1>4. {} \in G
  <2>1. Of({}) = {}
    OBVIOUS
  <2> HIDE DEF Of, sums
  <2> QED
    BY <2>1, SumOfNone
<1>5. ASSUME NEW D \in SUBSET C, NEW c \in C \ D, D \in G PROVE D \union {c} \in G
  <2>1. Of(D \union {c}) = Of(D) \union One(c) /\ Of(D) \intersect One(c) = {}
    OBVIOUS
  <2>2. SumFunctionOnSet(f, Of(D) \union One(c))
          = SumFunctionOnSet(f, Of(D)) + SumFunctionOnSet(f, One(c))
    <3>1. \A x \in Of(D) \union One(c) : f[x] \in Int
      OBVIOUS
    <3> HIDE DEF Of, One
    <3> QED
      BY <1>1, <1>2, <2>1, <3>1, SumOfUnion
  <2>3. SumFunctionOnSet(sums, D \union {c}) = sums[c] + SumFunctionOnSet(sums, D)
    <3>1. IsFiniteSet(D) /\ c \notin D /\ \A d \in D \union {c} : sums[d] \in Int
      BY <1>3, FS_Subset
    <3> HIDE DEF sums
    <3> QED
      BY <3>1, SumWith
  <2>4. /\ SumFunctionOnSet(f, Of(D)) = SumFunctionOnSet(sums, D)
        /\ SumFunctionOnSet(sums, D) \in Int
    <3>1. IsFiniteSet(D) /\ \A d \in D : sums[d] \in Int
      BY <1>3, FS_Subset
    <3> HIDE DEF sums, Of
    <3> QED
      BY <1>5, <3>1, SumIsInt
  <2>5. SumFunctionOnSet(f, Of(D \union {c})) = SumFunctionOnSet(sums, D \union {c})
    <3>1. SumFunctionOnSet(f, Of(D \union {c})) = SumFunctionOnSet(f, Of(D) \union One(c))
      BY <2>1
    <3>2. sums[c] = SumFunctionOnSet(f, One(c)) /\ sums[c] \in Int
      BY <1>3
    <3> HIDE DEF Of, One, sums
    <3> QED
      BY <2>2, <2>3, <2>4, <3>1, <3>2
  <2> HIDE DEF Of, sums
  <2> QED
    BY <2>5
<1>6. SUBSET C \subseteq G
  <2> HIDE DEF G
  <2> QED
    BY <1>4, <1>5, SetsByInduction
<1>7. Of(C) = S
  OBVIOUS
<1>8. SumFunctionOnSet(f, Of(C)) = SumFunctionOnSet(sums, C)
  <2> HIDE DEF Of, sums
  <2> QED
    BY <1>6
<1> QED
  BY <1>7, <1>8

\* A sum of ones counts.
LEMMA SumOfOnes ==
  ASSUME NEW S, IsFiniteSet(S), NEW f, \A x \in S : f[x] = 1
  PROVE SumFunctionOnSet(f, S) = Cardinality(S) /\ Cardinality(S) \in Nat
<1> DEFINE G == {T \in SUBSET S : SumFunctionOnSet(f, T) = Cardinality(T)}
<1>1. {} \in G
  BY SumOfNone, FS_EmptySet
<1>2. ASSUME NEW T \in SUBSET S, NEW x \in S \ T, T \in G PROVE T \union {x} \in G
  <2>1. IsFiniteSet(T) /\ Cardinality(T) \in Nat
    BY FS_Subset, FS_CardinalityType
  <2>2. Cardinality(T \union {x}) = Cardinality(T) + 1
    BY <2>1, FS_AddElement
  <2>3. SumFunctionOnSet(f, T \union {x}) = f[x] + SumFunctionOnSet(f, T)
    <3>1. x \notin T /\ \A y \in T \union {x} : f[y] \in Int
      OBVIOUS
    <3> QED
      BY <2>1, <3>1, SumWith
  <2> QED
    BY <1>2, <2>1, <2>2, <2>3
<1>3. SUBSET S \subseteq G
  <2> HIDE DEF G
  <2> QED
    BY <1>1, <1>2, SetsByInduction
<1> QED
  BY <1>3, FS_CardinalityType

\* The members of one class.
OfClass(S, class, c) == {x \in S : class[x] = c}

\* A finite set has as many members as its classes together.
LEMMA CountByClass ==
  ASSUME NEW S, IsFiniteSet(S), NEW C, IsFiniteSet(C), NEW class, \A x \in S : class[x] \in C,
         NEW count, \A c \in C : count[c] = Cardinality(OfClass(S, class, c))
  PROVE Cardinality(S) = SumFunctionOnSet(count, C)
<1> DEFINE one == [x \in S |-> 1]
           Of(c) == {x \in S : class[x] = c}
           sums == [c \in C |-> SumFunctionOnSet(one, Of(c))]
<1>1. SumFunctionOnSet(one, S) = Cardinality(S)
  <2>1. \A x \in S : one[x] = 1
    OBVIOUS
  <2> HIDE DEF one
  <2> QED
    BY <2>1, SumOfOnes
<1>2. SumFunctionOnSet(one, S) = SumFunctionOnSet(sums, C)
  <2>1. \A x \in S : one[x] \in Int
    OBVIOUS
  <2> HIDE DEF one
  <2> QED
    BY <2>1, SumByClass
<1>3. \A c \in C : sums[c] = count[c]
  <2> SUFFICES ASSUME NEW c \in C PROVE SumFunctionOnSet(one, Of(c)) = Cardinality(Of(c))
    BY DEF OfClass
  <2>1. IsFiniteSet(Of(c)) /\ \A x \in Of(c) : one[x] = 1
    BY FS_Subset
  <2> HIDE DEF one, Of
  <2> QED
    BY <2>1, SumOfOnes
<1> HIDE DEF sums, one
<1> QED
  BY <1>1, <1>2, <1>3, SumOfSame

\* Two sums over one set are one sum.
LEMMA SumOfTwo ==
  ASSUME NEW S, IsFiniteSet(S), NEW f, NEW g, NEW h,
         \A x \in S : f[x] \in Int /\ g[x] \in Int /\ h[x] = f[x] + g[x]
  PROVE SumFunctionOnSet(h, S) = SumFunctionOnSet(f, S) + SumFunctionOnSet(g, S)
<1> DEFINE G == {T \in SUBSET S :
                   SumFunctionOnSet(h, T) = SumFunctionOnSet(f, T) + SumFunctionOnSet(g, T)}
<1>1. {} \in G
  BY SumOfNone
<1>2. ASSUME NEW T \in SUBSET S, NEW x \in S \ T, T \in G PROVE T \union {x} \in G
  <2>1. IsFiniteSet(T) /\ x \notin T
    BY FS_Subset
  <2>2. \A y \in T \union {x} : f[y] \in Int /\ g[y] \in Int /\ h[y] \in Int
    OBVIOUS
  <2>3. /\ SumFunctionOnSet(f, T \union {x}) = f[x] + SumFunctionOnSet(f, T)
        /\ SumFunctionOnSet(g, T \union {x}) = g[x] + SumFunctionOnSet(g, T)
        /\ SumFunctionOnSet(h, T \union {x}) = h[x] + SumFunctionOnSet(h, T)
    BY <2>1, <2>2, SumWith
  <2>4. SumFunctionOnSet(f, T) \in Int /\ SumFunctionOnSet(g, T) \in Int
    BY <2>1, <2>2, SumIsInt
  <2>5. f[x] \in Int /\ g[x] \in Int /\ h[x] = f[x] + g[x]
    OBVIOUS
  <2>6. SumFunctionOnSet(h, T) = SumFunctionOnSet(f, T) + SumFunctionOnSet(g, T)
    BY <1>2
  <2>7. SumFunctionOnSet(h, T \union {x})
          = SumFunctionOnSet(f, T \union {x}) + SumFunctionOnSet(g, T \union {x})
    BY ONLY <2>3, <2>4, <2>5, <2>6
  <2> QED
    BY <2>7
<1>3. SUBSET S \subseteq G
  <2> HIDE DEF G
  <2> QED
    BY <1>1, <1>2, SetsByInduction
<1> QED
  BY <1>3

\* A factor common to all the terms is one of the sum.
LEMMA SumScaled ==
  ASSUME NEW S, IsFiniteSet(S), NEW c \in Int, NEW f, NEW g,
         \A x \in S : f[x] \in Int /\ g[x] = f[x] * c
  PROVE SumFunctionOnSet(g, S) = SumFunctionOnSet(f, S) * c
<1> DEFINE G == {T \in SUBSET S : SumFunctionOnSet(g, T) = SumFunctionOnSet(f, T) * c}
<1>1. {} \in G
  BY SumOfNone
<1>2. ASSUME NEW T \in SUBSET S, NEW x \in S \ T, T \in G PROVE T \union {x} \in G
  <2>1. IsFiniteSet(T) /\ x \notin T
    BY FS_Subset
  <2>2. \A y \in T \union {x} : f[y] \in Int /\ g[y] \in Int
    OBVIOUS
  <2>3. /\ SumFunctionOnSet(f, T \union {x}) = f[x] + SumFunctionOnSet(f, T)
        /\ SumFunctionOnSet(g, T \union {x}) = g[x] + SumFunctionOnSet(g, T)
    BY <2>1, <2>2, SumWith
  <2>4. SumFunctionOnSet(f, T) \in Int
    BY <2>1, <2>2, SumIsInt
  <2>5. f[x] \in Int /\ g[x] = f[x] * c
    OBVIOUS
  <2>6. SumFunctionOnSet(g, T) = SumFunctionOnSet(f, T) * c
    BY <1>2
  <2>7. \A a, b \in Int : a * c + b * c = (a + b) * c
    OBVIOUS
  <2>8. SumFunctionOnSet(g, T \union {x}) = SumFunctionOnSet(f, T \union {x}) * c
    BY ONLY <2>3, <2>4, <2>5, <2>6, <2>7
  <2> QED
    BY <2>8
<1>3. SUBSET S \subseteq G
  <2> HIDE DEF G
  <2> QED
    BY <1>1, <1>2, SetsByInduction
<1> QED
  BY <1>3

\* No more than n terms, none above m: no more than n times m.
LEMMA SumIsWithin ==
  ASSUME NEW S, IsFiniteSet(S), NEW f, NEW m \in Nat, \A x \in S : f[x] \in Int /\ f[x] <= m,
         NEW n \in Nat, Cardinality(S) <= n
  PROVE SumFunctionOnSet(f, S) <= n * m
<1> DEFINE one == [x \in S |-> 1]
           cap == [x \in S |-> m]
<1>1. \A x \in S : one[x] = 1 /\ cap[x] = m /\ cap[x] = one[x] * m
  OBVIOUS
<1> HIDE DEF one, cap
<1>2. SumFunctionOnSet(one, S) = Cardinality(S) /\ Cardinality(S) \in Nat
  BY <1>1, SumOfOnes
<1>3. SumFunctionOnSet(cap, S) = SumFunctionOnSet(one, S) * m
  <2>1. \A x \in S : one[x] \in Int /\ cap[x] = one[x] * m
    BY <1>1
  <2> QED
    BY <2>1, SumScaled
<1>4. SumFunctionOnSet(f, S) <= SumFunctionOnSet(cap, S) /\ SumFunctionOnSet(f, S) \in Int
  <2>1. \A x \in S : f[x] \in Int /\ cap[x] \in Int /\ f[x] <= cap[x]
    BY <1>1
  <2> QED
    BY <2>1, SumIsMonotone, SumIsInt
<1>5. \A c, d, e \in Nat : c <= d => c * e <= d * e
  OBVIOUS
<1>6. SumFunctionOnSet(f, S) <= Cardinality(S) * m /\ Cardinality(S) * m <= n * m
  BY <1>2, <1>3, <1>4, <1>5
<1>7. Cardinality(S) * m \in Int /\ n * m \in Int
  BY <1>2
<1> QED
  BY <1>4, <1>6, <1>7
=============================================================================
