-------------------------------- MODULE Split --------------------------------
(***************************************************************************)
(* The stratified split of the dataset (_assign_pool_or_test in            *)
(* evals/dataset/generate.py): which exceptions the seeded generator may   *)
(* put in the held-out test set.                                           *)
(***************************************************************************)
EXTENDS Integers, Sequences, FiniteSetsExt, Functions

CONSTANTS
  Dataset,     \* the scenarios, in file order
  TestSetSize  \* TEST_SET_SIZE

Scenario == DOMAIN Dataset
NoCustomer == "none"

ASSUME SplitAssumption ==
  /\ Dataset \in Seq([exception : BOOLEAN, kind : STRING, customer : STRING, occurrence : Nat])
  /\ TestSetSize \in Nat

Exceptions == {s \in Scenario : Dataset[s].exception}
Customers == {Dataset[s].customer : s \in Exceptions} \ {NoCustomer}

----------------------------------------------------------------------------
(* The counterparty classes, by customer. *)

Sightings(c) == {s \in Exceptions : Dataset[s].customer = c}
SeenBefore(s, t) ==
  \/ Dataset[s].occurrence < Dataset[t].occurrence
  \/ Dataset[s].occurrence = Dataset[t].occurrence /\ s < t
FirstSighting(c) == CHOOSE s \in Sightings(c) : \A t \in Sightings(c) \ {s} : SeenBefore(s, t)

\* A mutated form: any sighting may be held out.
AnySighting(c) == Sightings(c)

\* The first sighting stays in the pool.
Later(c) == Sightings(c) \ {FirstSighting(c)}

\* Half of the later sightings, and at least one where there is one.
Take(c) == IF Later(c) = {} THEN 0 ELSE Max({1, Cardinality(Later(c)) \div 2})
Taken == SumFunction([c \in Customers |-> Take(c)])

----------------------------------------------------------------------------
(* Everything else, in proportion to its kind. *)

Others == {s \in Exceptions : Dataset[s].customer = NoCustomer}
Kinds == {Dataset[s].kind : s \in Others}
OfKind(k) == {s \in Others : Dataset[s].kind = k}

Slots == TestSetSize - Taken

\* CLASS_COUNTS is such that the customers leave places, and no more than the rest can fill.
ASSUME SlotsAssumption == Slots \in 0..Cardinality(Others)

Floor(k) == (Cardinality(OfKind(k)) * Slots) \div Cardinality(Others)
Fraction(k) == (Cardinality(OfKind(k)) * Slots) % Cardinality(Others)
Remainder == Slots - SumFunction([k \in Kinds |-> Floor(k)])

\* sorted by fraction, the greatest first, and by first appearance where two are equal.
Ahead(k, l) ==
  \/ Fraction(k) > Fraction(l)
  \/ Fraction(k) = Fraction(l) /\ Min(OfKind(k)) < Min(OfKind(l))

\* The largest fractions get the places left by rounding down.
Places(k) ==
  Floor(k) + IF Cardinality({l \in Kinds \ {k} : Ahead(l, k)}) < Remainder THEN 1 ELSE 0

\* The test sets the generator may draw: which sightings and which cases of a kind is its
\* choice, how many is not.
TestSets ==
  {T \in SUBSET Exceptions :
     /\ \A c \in Customers :
          Cardinality(T \intersect Sightings(c)) = Take(c) /\ T \intersect Sightings(c) \subseteq Later(c)
     /\ \A k \in Kinds :
          Cardinality(T \intersect OfKind(k)) = Min({Places(k), Cardinality(OfKind(k))})}
=============================================================================
