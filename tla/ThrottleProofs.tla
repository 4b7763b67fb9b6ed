---------------------------- MODULE ThrottleProofs ----------------------------
(***************************************************************************)
(* What holds of Throttle for any prompts, estimates, budget, window and   *)
(* number of attempts.  With one worker the youngest charge is that of the *)
(* request on the wire, until it is answered; the answer puts what was     *)
(* billed in place of the estimate, in the very tick the bill is dated to. *)
(* So tick by tick the charges cover the bill, and so do their sums.       *)
(***************************************************************************)
EXTENDS Throttle, FiniteFacts

Tokens(charges) == [i \in DOMAIN charges |-> charges[i].tokens]

\* Of the first n charges, those made so many ticks ago.
Aged(charges, n, age) == {i \in 1..n : charges[i].age = age}

\* What they come to.
ChargedIn(charges, n, age) == SumFunctionOnSet(Tokens(charges), Aged(charges, n, age))

\* The charges that have their answer: all but the youngest while a request is on the wire.
Settled == IF \E t \in Calls : pc[t] = "posted" THEN Len(spent) - 1 ELSE Len(spent)

\* A prompt is sent again only while it has attempts left.
AttemptsFit ==
  \A t \in Calls : /\ pc[t] \in {"queued", "waiting"} => attempt[t] = 0
                   /\ pc[t] = "backoff" => attempt[t] < MaxAttempts

\* One worker has one prompt in hand.
OneAtATime == workers = 1 => \A t, u \in InProgress : t = u

\* The youngest charge is that of the request on the wire.
ChargedAsSent ==
  Alone => \A t \in Calls :
    /\ pc[t] # "backoff"
    /\ pc[t] = "posted" =>
         spent # <<>> /\ spent[Len(spent)] = [age |-> since[t], tokens |-> Estimate[t]]

\* What was billed for the requests of a tick is covered by the answered charges of that tick.
EachTickIsCovered ==
  Alone => \A a \in Ages : real[a] <= ChargedIn(spent, Settled, a)

IInv == TypeOK /\ AttemptsFit /\ OneAtATime /\ ChargedAsSent /\ EachTickIsCovered

----------------------------------------------------------------------------
(* The window. *)

Charge == [age : 0..W, tokens : Nat]

LEMMA WindowAssumption ==
  /\ Budget \in Nat \ {0} /\ W \in Nat \ {0} /\ MaxAttempts \in Nat \ {0} /\ MaxWorkers \in Nat \ {0}
  /\ MaxNap \in Nat /\ Estimate \in [Calls -> Nat] /\ Usage \subseteq Nat
  /\ Ages = 0..(W - 1) /\ Clients \subseteq Kinds
BY ThrottleAssumption DEF Ages

LEMMA LongestNap ==
  Max({W, MaxNap}) \in Nat /\ Max({W, MaxNap}) >= W /\ Max({W, MaxNap}) >= MaxNap
<1>1. \E x \in {W, MaxNap} : \A y \in {W, MaxNap} : x >= y
  BY WindowAssumption
<1>2. Max({W, MaxNap}) \in {W, MaxNap} /\ \A y \in {W, MaxNap} : Max({W, MaxNap}) >= y
  BY <1>1 DEF Max
<1> QED
  BY <1>2, WindowAssumption

LEMMA ChargeTypes ==
  ASSUME NEW charges \in Seq(Charge)
  PROVE /\ DOMAIN charges = 1..Len(charges) /\ Len(charges) \in Nat
        /\ \A i \in 1..Len(charges) :
             /\ Tokens(charges)[i] = charges[i].tokens
             /\ charges[i].tokens \in Nat /\ charges[i].age \in 0..W
<1>1. DOMAIN charges = 1..Len(charges) /\ Len(charges) \in Nat
  BY LenProperties
<1>2. \A i \in 1..Len(charges) : charges[i] \in Charge
  BY ElementOfSeq
<1> QED
  BY <1>1, <1>2 DEF Tokens, Charge

\* The sum of one tick is of numbers, over finitely many charges.
LEMMA AgedTypes ==
  ASSUME NEW charges \in Seq(Charge), NEW n \in 0..Len(charges), NEW a
  PROVE /\ Aged(charges, n, a) \subseteq 1..Len(charges)
        /\ IsFiniteSet(Aged(charges, n, a))
        /\ SumFunctionOnSet(Tokens(charges), Aged(charges, n, a)) \in Nat
<1>1. Len(charges) \in Nat
  BY ChargeTypes
<1>2. Aged(charges, n, a) \in SUBSET (1..n) /\ 1..n \subseteq 1..Len(charges)
  BY <1>1 DEF Aged
<1>3. IsFiniteSet(1..n)
  BY <1>1, FS_Interval
<1>4. IsFiniteSet(Aged(charges, n, a))
  BY <1>2, <1>3, FS_Subset
<1>5. \A i \in Aged(charges, n, a) : Tokens(charges)[i] \in Nat
  BY <1>2, ChargeTypes
<1>6. SumFunctionOnSet(Tokens(charges), Aged(charges, n, a)) \in Nat
  BY <1>4, <1>5, SumOfPart
<1> QED
  BY <1>2, <1>4, <1>6

\* Pruning keeps what was charged in each tick of the window.
LEMMA PrunedKeepsTicks ==
  ASSUME NEW charges \in Seq(Charge)
  PROVE /\ Pruned(charges) \in Seq([age : Ages, tokens : Nat]) /\ Pruned(charges) \in Seq(Charge)
        /\ \A a \in Ages :
             SumFunctionOnSet(Tokens(Pruned(charges)), Aged(Pruned(charges), Len(Pruned(charges)), a))
               = SumFunctionOnSet(Tokens(charges), Aged(charges, Len(charges), a))
<1> USE WindowAssumption
<1> DEFINE Young == [age : Ages, tokens : Nat]
           P == Pruned(charges)
           kept == Kept(charges, Young)
<1>1. Young \subseteq Charge
  BY DEF Charge
<1>2. P = Filtered(charges, Young)
  BY DEF Pruned
<1>3. P \in Seq(Young) /\ P \in Seq(Charge)
  <2> HIDE DEF Young, P
  <2>1. P \in Seq(Young \intersect Charge)
    BY <1>2, FilteredHolds
  <2> QED
    BY <1>1, <2>1, SeqMonotonic
<1>4. PICK nth \in Bijection(1..Cardinality(kept), kept) :
        P = [n \in 1..Cardinality(kept) |-> charges[nth[n]]]
  <2> HIDE DEF Young, P
  <2> QED
    BY <1>2, FilteredGoesThrough
<1>5. Cardinality(kept) \in Nat
  BY FilteredGoesThrough
<1>6. Len(P) = Cardinality(kept) /\ \A n \in 1..Len(P) : P[n] = charges[nth[n]]
  <2> HIDE DEF P, kept
  <2> QED
    BY <1>4, <1>5
<1>7. /\ \A n \in 1..Len(P) : nth[n] \in kept
      /\ \A m, n \in 1..Len(P) : nth[m] = nth[n] => m = n
      /\ \A i \in kept : \E n \in 1..Len(P) : nth[n] = i
  <2> HIDE DEF P, kept
  <2> QED
    BY <1>4, <1>6 DEF Bijection, Injection, Surjection, IsInjective
<1>8. DOMAIN charges = 1..Len(charges) /\ Len(charges) \in Nat /\ Len(P) \in Nat
      /\ DOMAIN P = 1..Len(P)
  BY <1>3, LenProperties
<1>9. ASSUME NEW a \in Ages
      PROVE SumFunctionOnSet(Tokens(P), Aged(P, Len(P), a))
              = SumFunctionOnSet(Tokens(charges), Aged(charges, Len(charges), a))
  <2> DEFINE here == Aged(P, Len(P), a)
             there == Aged(charges, Len(charges), a)
             h == [n \in here |-> nth[n]]
  <2>1. here = {n \in 1..Len(P) : charges[nth[n]].age = a}
    BY <1>6 DEF Aged
  <2>2. there \subseteq kept
    <3>1. \A i \in 1..Len(charges) : charges[i] \in Charge
      BY ElementOfSeq
    <3> QED
      BY <1>8, <3>1 DEF Aged, Charge, Kept
  <2>3. kept \subseteq 1..Len(charges)
    BY <1>8 DEF Kept
  <2>4. h \in Bijection(here, there)
    <3> HIDE DEF P, kept
    <3>1. h \in [here -> there]
      BY <1>7, <2>1, <2>3 DEF Aged
    <3>2. \A m, n \in here : h[m] = h[n] => m = n
      BY <1>7, <2>1
    <3>3. \A i \in there : \E n \in here : h[n] = i
      <4> SUFFICES ASSUME NEW i \in there PROVE \E n \in here : h[n] = i
        OBVIOUS
      <4>1. PICK n \in 1..Len(P) : nth[n] = i
        BY <1>7, <2>2
      <4>2. n \in here
        BY <2>1, <4>1 DEF Aged
      <4> QED
        BY <4>1, <4>2
    <3> QED
      BY <3>1, <3>2, <3>3 DEF Bijection, Injection, Surjection, IsInjective
  <2>5. IsFiniteSet(here)
    BY <1>3, <1>8, AgedTypes
  <2>6. \A n \in here : Tokens(P)[n] \in Int /\ Tokens(P)[n] = Tokens(charges)[h[n]]
    <3> HIDE DEF P, kept
    <3>1. \A n \in 1..Len(P) : Tokens(P)[n] = P[n].tokens /\ P[n].tokens \in Nat
      BY <1>3, ChargeTypes
    <3>2. \A i \in 1..Len(charges) : Tokens(charges)[i] = charges[i].tokens
      BY ChargeTypes
    <3>3. \A n \in here : n \in 1..Len(P) /\ h[n] = nth[n] /\ nth[n] \in 1..Len(charges)
      BY <1>7, <2>1, <2>3
    <3> HIDE DEF here, h
    <3> QED
      BY <1>6, <3>1, <3>2, <3>3
  <2> HIDE DEF P, kept, h
  <2> QED
    BY <2>4, <2>5, <2>6, SumRenamed
<1> QED
  BY <1>3, <1>9

\* Reconciling touches the youngest charge alone, and not its age.
LEMMA CorrectedTypes ==
  ASSUME NEW charges \in Seq(Charge), NEW estimated \in Nat, NEW actual \in Nat
  PROVE /\ Corrected(charges, estimated, actual) \in Seq(Charge)
        /\ Len(Corrected(charges, estimated, actual)) = Len(charges)
        /\ \A i \in 1..Len(charges) :
             /\ Corrected(charges, estimated, actual)[i].age = charges[i].age
             /\ i # Len(charges) => Corrected(charges, estimated, actual)[i] = charges[i]
             /\ i = Len(charges) /\ charges[i].tokens = estimated
                  => Corrected(charges, estimated, actual)[i].tokens = actual
<1>1. CASE charges = <<>>
  BY <1>1 DEF Corrected
<1>2. CASE charges # <<>>
  <2> DEFINE n == Len(charges)
             last == charges[n].tokens
             new == [charges[n] EXCEPT !.tokens =
                       IF last + actual < estimated THEN 0 ELSE (last + actual) - estimated]
  <2>1. n \in Nat \ {0} /\ n \in 1..n /\ DOMAIN charges = 1..n
    BY <1>2, EmptySeq, LenProperties
  <2>2. charges[n] \in Charge
    BY <2>1, ElementOfSeq
  <2>3. last \in Nat /\ charges[n].age \in 0..W
    BY <2>2 DEF Charge
  <2>4. new \in Charge /\ new.age = charges[n].age
        /\ (last = estimated => new.tokens = actual)
    <3>1. (IF last + actual < estimated THEN 0 ELSE (last + actual) - estimated) \in Nat
      BY <2>3
    <3>2. last = estimated =>
            (IF last + actual < estimated THEN 0 ELSE (last + actual) - estimated) = actual
      BY <2>3
    <3> QED
      BY <2>2, <3>1, <3>2 DEF Charge
  <2>5. Corrected(charges, estimated, actual) = [charges EXCEPT ![n] = new]
    BY <1>2, <2>1 DEF Corrected
  <2> HIDE DEF new, n
  <2>6. /\ [charges EXCEPT ![n] = new] \in Seq(Charge)
        /\ Len([charges EXCEPT ![n] = new]) = n
        /\ \A i \in 1..n : [charges EXCEPT ![n] = new][i] = IF i = n THEN new ELSE charges[i]
    BY <2>1, <2>4, ExceptSeq DEF n
  <2> QED
    BY <2>4, <2>5, <2>6 DEF n
<1> QED
  BY <1>1, <1>2

\* One tick later.
LEMMA OneTickLater ==
  ASSUME NEW k \in 0..W
  PROVE Min({W, k + 1}) = IF k = W THEN W ELSE k + 1
<1> USE WindowAssumption
<1>1. \E x \in {W, k + 1} : \A y \in {W, k + 1} : x <= y
  OBVIOUS
<1>2. Min({W, k + 1}) \in {W, k + 1} /\ \A y \in {W, k + 1} : Min({W, k + 1}) <= y
  BY <1>1 DEF Min
<1> QED
  BY <1>2

\* A tick moves every charge by one, until it has left the window.
LEMMA OlderTypes ==
  ASSUME NEW charges \in Seq(Charge)
  PROVE /\ Older(charges) \in Seq(Charge)
        /\ Len(Older(charges)) = Len(charges)
        /\ \A i \in 1..Len(charges) :
             /\ Older(charges)[i].tokens = charges[i].tokens
             /\ Older(charges)[i].age = IF charges[i].age = W THEN W ELSE charges[i].age + 1
<1> USE WindowAssumption
<1>1. DOMAIN charges = 1..Len(charges) /\ Len(charges) \in Nat
  BY LenProperties
<1>2. \A i \in 1..Len(charges) : charges[i] \in Charge
  BY ElementOfSeq
<1>3. \A k \in 0..W : Min({W, k + 1}) = IF k = W THEN W ELSE k + 1
  BY OneTickLater
<1>4. \A i \in 1..Len(charges) :
        /\ Older(charges)[i] = [charges[i] EXCEPT !.age = Min({W, charges[i].age + 1})]
        /\ charges[i].age \in 0..W
  BY <1>1, <1>2 DEF Older, Charge
<1>5. \A i \in 1..Len(charges) :
        /\ Older(charges)[i] \in Charge
        /\ Older(charges)[i].tokens = charges[i].tokens
        /\ Older(charges)[i].age = IF charges[i].age = W THEN W ELSE charges[i].age + 1
  <2> SUFFICES ASSUME NEW i \in 1..Len(charges)
               PROVE /\ Older(charges)[i] \in Charge
                     /\ Older(charges)[i].tokens = charges[i].tokens
                     /\ Older(charges)[i].age = IF charges[i].age = W THEN W ELSE charges[i].age + 1
    OBVIOUS
  <2>1. PICK k \in 0..W, tokens \in Nat : charges[i] = [age |-> k, tokens |-> tokens]
    BY <1>2 DEF Charge
  <2>2. Older(charges)[i] = [age |-> Min({W, k + 1}), tokens |-> tokens]
    <3>1. charges[i].age = k
      BY <2>1
    <3>2. Older(charges)[i] = [[age |-> k, tokens |-> tokens] EXCEPT !.age = Min({W, k + 1})]
      BY <1>4, <2>1, <3>1
    <3>3. \A m : [[age |-> k, tokens |-> tokens] EXCEPT !.age = m] = [age |-> m, tokens |-> tokens]
      OBVIOUS
    <3> QED
      BY <3>2, <3>3
  <2>3. Older(charges)[i] = [age |-> IF k = W THEN W ELSE k + 1, tokens |-> tokens]
    BY <1>3, <2>2
  <2>4. (IF k = W THEN W ELSE k + 1) \in 0..W
    OBVIOUS
  <2> QED
    BY <2>1, <2>3, <2>4 DEF Charge
<1>6. Older(charges) = [i \in 1..Len(charges) |-> Older(charges)[i]]
  BY <1>1 DEF Older
<1>7. Older(charges) \in Seq(Charge) /\ Len(Older(charges)) = Len(charges)
  BY <1>1, <1>5, <1>6
<1> QED
  BY <1>5, <1>7

----------------------------------------------------------------------------
(* What was charged in a tick. *)

\* More charges come to as much or more.
LEMMA ChargedTypes ==
  ASSUME NEW charges \in Seq(Charge), NEW n \in 0..Len(charges), NEW m \in 0..n, NEW a
  PROVE /\ ChargedIn(charges, n, a) \in Nat /\ ChargedIn(charges, m, a) \in Nat
        /\ ChargedIn(charges, m, a) <= ChargedIn(charges, n, a)
<1>1. Len(charges) \in Nat /\ m \in 0..Len(charges)
  BY ChargeTypes
<1>2. Aged(charges, n, a) \subseteq 1..Len(charges) /\ IsFiniteSet(Aged(charges, n, a))
  BY AgedTypes
<1>3. Aged(charges, m, a) \in SUBSET Aged(charges, n, a)
  BY <1>1 DEF Aged
<1>4. \A i \in Aged(charges, n, a) : Tokens(charges)[i] \in Nat
  BY <1>2, ChargeTypes
<1> QED
  BY <1>2, <1>3, <1>4, SumOfPart DEF ChargedIn

\* It depends on those charges alone.
LEMMA ChargedInSame ==
  ASSUME NEW charges \in Seq(Charge), NEW others \in Seq(Charge),
         NEW n \in 0..Len(charges), n <= Len(others), NEW a, NEW b,
         \A i \in 1..n : /\ charges[i].tokens = others[i].tokens
                         /\ charges[i].age = a <=> others[i].age = b
  PROVE ChargedIn(charges, n, a) = ChargedIn(others, n, b)
<1>1. Len(charges) \in Nat /\ Len(others) \in Nat
  BY ChargeTypes
<1>2. Aged(charges, n, a) = Aged(others, n, b)
  BY DEF Aged
<1>3. IsFiniteSet(Aged(charges, n, a))
  BY AgedTypes
<1>4. \A i \in 1..n : Tokens(charges)[i] = Tokens(others)[i]
  <2>1. \A i \in 1..n : i \in 1..Len(charges) /\ i \in 1..Len(others)
    BY <1>1
  <2> QED
    BY <2>1, ChargeTypes
<1>5. \A i \in Aged(charges, n, a) : Tokens(charges)[i] = Tokens(others)[i]
  BY <1>4 DEF Aged
<1> QED
  BY <1>2, <1>3, <1>5, SumOfSame DEF ChargedIn

\* One more charge counts in its own tick.
LEMMA ChargedOneMore ==
  ASSUME NEW charges \in Seq(Charge), NEW n \in 1..Len(charges), NEW a
  PROVE ChargedIn(charges, n, a) =
          ChargedIn(charges, n - 1, a) + IF charges[n].age = a THEN charges[n].tokens ELSE 0
<1>1. Len(charges) \in Nat /\ n - 1 \in 0..Len(charges) /\ n \in 0..Len(charges)
  BY ChargeTypes
<1>2. /\ IsFiniteSet(Aged(charges, n - 1, a)) /\ Aged(charges, n - 1, a) \subseteq 1..Len(charges)
      /\ ChargedIn(charges, n - 1, a) \in Nat
  BY <1>1, AgedTypes DEF ChargedIn
<1>3. CASE charges[n].age # a
  <2>1. Aged(charges, n, a) = Aged(charges, n - 1, a)
    BY <1>1, <1>3 DEF Aged
  <2> QED
    BY <1>2, <1>3, <2>1 DEF ChargedIn
<1>4. CASE charges[n].age = a
  <2>1. Aged(charges, n, a) = Aged(charges, n - 1, a) \union {n} /\ n \notin Aged(charges, n - 1, a)
    BY <1>1, <1>4 DEF Aged
  <2>2. \A i \in Aged(charges, n - 1, a) \union {n} : Tokens(charges)[i] \in Int
    BY <1>2, ChargeTypes
  <2>3. SumFunctionOnSet(Tokens(charges), Aged(charges, n - 1, a) \union {n})
          = Tokens(charges)[n] + SumFunctionOnSet(Tokens(charges), Aged(charges, n - 1, a))
    BY <1>2, <2>1, <2>2, SumWith
  <2>4. Tokens(charges)[n] = charges[n].tokens /\ charges[n].tokens \in Nat
    BY ChargeTypes
  <2> QED
    BY <1>2, <1>4, <2>1, <2>3, <2>4 DEF ChargedIn
<1> QED
  BY <1>3, <1>4

----------------------------------------------------------------------------
(* The invariant. *)

Types == TypeOK /\ AttemptsFit

LEMMA InitTypes == Init => Types
<1> SUFFICES ASSUME Init PROVE Types
  OBVIOUS
<1>1. 0 \in 0..Max({W, MaxNap})
  BY LongestNap
<1>2. TypeOK
  BY <1>1, WindowAssumption DEF Init, TypeOK, Places, Outcomes
<1>3. AttemptsFit
  BY DEF Init, AttemptsFit
<1> QED
  BY <1>2, <1>3 DEF Types

\* A request goes out from a place that has an attempt left.
LEMMA PostTypes ==
  ASSUME Types, NEW t \in Calls, Post(t), pc[t] \in {"waiting", "backoff"}
  PROVE /\ pc' \in [Calls -> Places] /\ since' \in [Calls -> 0..W]
        /\ attempt' \in [Calls -> 0..MaxAttempts] /\ AttemptsFit'
<1>1. /\ pc \in [Calls -> Places] /\ since \in [Calls -> 0..W]
      /\ attempt \in [Calls -> 0..MaxAttempts] /\ attempt[t] + 1 \in 0..MaxAttempts
  BY WindowAssumption DEF Types, TypeOK, AttemptsFit
<1>2. pc' = [pc EXCEPT ![t] = "posted"] /\ since' = [since EXCEPT ![t] = 0]
      /\ attempt' = [attempt EXCEPT ![t] = attempt[t] + 1]
  BY DEF Post, Goto
<1>3. "posted" \in Places /\ 0 \in 0..W
  BY WindowAssumption DEF Places
<1>4. AttemptsFit'
  BY <1>1, <1>2 DEF Types, AttemptsFit
<1> QED
  BY <1>1, <1>2, <1>3, <1>4

\* Each action keeps the types of what it changes.
LEMMA TypesKept == Types /\ [Next]_vars => Types'
<1> SUFFICES ASSUME Types, [Next]_vars PROVE Types'
  OBVIOUS
<1> USE WindowAssumption
<1>0. PICK M \in Nat : M = Max({W, MaxNap}) /\ M >= W /\ M >= MaxNap
  BY LongestNap
<1>1. /\ client \in Clients /\ workers \in 1..MaxWorkers /\ spent \in Seq(Charge)
      /\ pc \in [Calls -> Places] /\ nap \in [Calls -> 0..M]
      /\ since \in [Calls -> 0..W] /\ attempt \in [Calls -> 0..MaxAttempts]
      /\ outcome \in [Calls -> Outcomes] /\ real \in [Ages -> Nat] /\ told \in BOOLEAN
      /\ AttemptsFit
  BY <1>0 DEF Types, TypeOK, Charge
<1> DEFINE Goal ==
        /\ UNCHANGED rigid /\ spent' \in Seq(Charge)
        /\ pc' \in [Calls -> Places] /\ nap' \in [Calls -> 0..M]
        /\ since' \in [Calls -> 0..W] /\ attempt' \in [Calls -> 0..MaxAttempts]
        /\ outcome' \in [Calls -> Outcomes] /\ real' \in [Ages -> Nat] /\ told' \in BOOLEAN
        /\ AttemptsFit'
<1>2. SUFFICES Goal
  BY <1>0, <1>1 DEF Types, TypeOK, Charge, rigid
<1>3. ASSUME NEW t \in Calls, Start(t) PROVE Goal
  BY <1>1, <1>3 DEF Start, End, Goto, AttemptsFit, billing, Places, Outcomes
<1>4. ASSUME NEW t \in Calls, SendUnpaced(t) PROVE Goal
  BY <1>1, <1>4, PostTypes DEF SendUnpaced, billing
<1>5. ASSUME NEW t \in Calls, Acquire(t) PROVE Goal
  <2>1. spent' \in Seq(Charge)
    <3>1. Pruned(spent) \in Seq(Charge)
      BY <1>1, PrunedKeepsTicks
    <3>2. [age |-> 0, tokens |-> Estimate[t]] \in Charge
      BY DEF Charge
    <3> QED
      BY <1>5, <3>1, <3>2, AppendProperties DEF Acquire
  <2> QED
    BY <1>1, <1>5, <2>1, PostTypes DEF Acquire, billing
<1>6. ASSUME NEW t \in Calls, Wait(t) PROVE Goal
  <2>1. Pruned(spent) \in Seq([age : Ages, tokens : Nat]) /\ Pruned(spent) \in Seq(Charge)
    BY <1>1, PrunedKeepsTicks
  <2>2. Pruned(spent) # <<>>
    BY <1>6 DEF Wait, Admits
  <2>3. Head(Pruned(spent)) \in [age : Ages, tokens : Nat]
    BY <2>1, <2>2, HeadTailProperties
  <2>4. W - Head(Pruned(spent)).age \in 0..M
    BY <1>0, <2>3
  <2>5. nap' = [nap EXCEPT ![t] = W - Head(Pruned(spent)).age] /\ spent' = Pruned(spent)
    BY <1>6 DEF Wait
  <2>6. nap' \in [Calls -> 0..M]
    BY <1>1, <2>4, <2>5
  <2> QED
    BY <1>1, <1>6, <2>1, <2>5, <2>6 DEF Wait, AttemptsFit, billing
<1>7. ASSUME NEW t \in Calls, Retry(t) PROVE Goal
  BY <1>1, <1>7, PostTypes DEF Retry, billing
<1>8. ASSUME NEW t \in Calls, NEW tokens \in Nat, NEW known \in BOOLEAN, Bill(t, tokens, known)
      PROVE real' \in [Ages -> Nat] /\ told' \in BOOLEAN
  BY <1>1, <1>8 DEF Bill
<1>9. ASSUME NEW t \in Calls, Body(t) PROVE Goal
  <2>1. PICK u \in Usage : \E total \in {u, Estimate[t]} :
           /\ Bill(t, u, total = u)
           /\ spent' = IF Throttled THEN Corrected(spent, Estimate[t], total) ELSE spent
    BY <1>9 DEF Body
  <2>2. PICK total \in {u, Estimate[t]} :
           /\ Bill(t, u, total = u)
           /\ spent' = IF Throttled THEN Corrected(spent, Estimate[t], total) ELSE spent
    BY <2>1
  <2>3. u \in Nat /\ total \in Nat /\ Estimate[t] \in Nat
    OBVIOUS
  <2>4. real' \in [Ages -> Nat] /\ told' \in BOOLEAN
    BY <1>8, <2>2, <2>3
  <2>5. spent' \in Seq(Charge)
    BY <1>1, <2>2, <2>3, CorrectedTypes
  <2>6. UNCHANGED <<rigid, nap, since, attempt>>
    BY <1>9 DEF Body
  <2>7. pc' = [pc EXCEPT ![t] = "done"] /\ outcome' \in [Calls -> Outcomes]
    BY <1>1, <1>9 DEF Body, End, Goto
  <2> QED
    BY <1>1, <2>4, <2>5, <2>6, <2>7 DEF AttemptsFit, Places
<1>10. ASSUME NEW t \in Calls, Unreadable(t) PROVE Goal
  <2>1. real' \in [Ages -> Nat] /\ told' \in BOOLEAN
    BY <1>8, <1>10 DEF Unreadable
  <2> QED
    BY <1>1, <1>10, <2>1 DEF Unreadable, End, Goto, AttemptsFit, Places, Outcomes
<1>11. ASSUME NEW t \in Calls, Refusal(t) PROVE Goal
  BY <1>1, <1>11 DEF Refusal, End, Goto, AttemptsFit, billing, Places, Outcomes
<1>12. ASSUME NEW t \in Calls, Transient(t) PROVE Goal
  <2>1. real' \in [Ages -> Nat] /\ told' \in BOOLEAN
    BY <1>8, <1>12 DEF Transient
  <2>2. UNCHANGED <<rigid, spent, since, attempt>>
    BY <1>12 DEF Transient
  <2>3. CASE attempt[t] = MaxAttempts /\ End(t, "unavailable") /\ UNCHANGED nap
    BY <1>1, <2>1, <2>2, <2>3 DEF End, Goto, AttemptsFit, Places, Outcomes
  <2>4. CASE /\ attempt[t] < MaxAttempts
             /\ Goto(t, "backoff")
             /\ \E n \in 0..MaxNap : nap' = [nap EXCEPT ![t] = n]
             /\ UNCHANGED outcome
    <3>1. PICK n \in 0..MaxNap : nap' = [nap EXCEPT ![t] = n]
      BY <2>4
    <3>2. nap' \in [Calls -> 0..M]
      <4>1. n \in 0..M
        BY <1>0
      <4> QED
        BY <1>1, <3>1, <4>1
    <3>3. pc' = [pc EXCEPT ![t] = "backoff"]
      BY <2>4 DEF Goto
    <3> QED
      BY <1>1, <2>1, <2>2, <2>4, <3>2, <3>3 DEF AttemptsFit, Places
  <2> QED
    BY <1>12, <2>3, <2>4 DEF Transient
<1>13. ASSUME Tick PROVE Goal
  <2>1. spent' \in Seq(Charge)
    BY <1>1, <1>13, OlderTypes DEF Tick
  <2>2. nap' \in [Calls -> 0..M]
    BY <1>1, <1>13 DEF Tick
  <2>3. since' \in [Calls -> 0..W]
    <3>1. \A k \in 0..W : Min({W, k + 1}) \in 0..W
      BY OneTickLater
    <3> QED
      BY <1>1, <1>13, <3>1 DEF Tick
  <2>4. real' \in [Ages -> Nat]
    BY <1>1, <1>13 DEF Tick
  <2> QED
    BY <1>1, <1>13, <2>1, <2>2, <2>3, <2>4 DEF Tick, AttemptsFit
<1>14. ASSUME UNCHANGED vars PROVE Goal
  BY <1>1, <1>14 DEF vars, rigid, AttemptsFit
<1> HIDE DEF Goal
<1>15. ASSUME NEW t \in Calls, Client(t) PROVE Goal
  BY ONLY <1>3, <1>4, <1>5, <1>6, <1>7, <1>15 DEF Client
<1>16. ASSUME NEW t \in Calls, Provider(t) PROVE Goal
  BY ONLY <1>9, <1>10, <1>11, <1>12, <1>16 DEF Provider
<1> QED
  BY <1>13, <1>14, <1>15, <1>16 DEF Next

\* Only the pool starts a prompt, and a pool of one waits for the last one to end.
LEMMA OneIsKept == Types /\ OneAtATime /\ [Next]_vars => OneAtATime'
<1> SUFFICES ASSUME Types, OneAtATime, [Next]_vars, workers' = 1
             PROVE \A t, u \in InProgress' : t = u
  BY DEF OneAtATime
<1>1. workers = 1 /\ pc \in [Calls -> Places] /\ \A t, u \in InProgress : t = u
  BY DEF OneAtATime, Types, TypeOK, Next, vars, Tick, Client, Provider, Start, SendUnpaced,
         Acquire, Wait, Retry, Body, Unreadable, Refusal, Transient, rigid
<1>2. ASSUME NEW t \in Calls, pc[t] \notin {"queued", "done"}, NEW place, pc' = [pc EXCEPT ![t] = place]
      PROVE InProgress' \subseteq InProgress
  BY <1>1, <1>2 DEF InProgress
<1>3. ASSUME NEW t \in Calls, Start(t) PROVE \A u, v \in InProgress' : u = v
  <2>1. InProgress = {}
    <3>1. Cardinality(InProgress) < 1
      BY <1>1, <1>3 DEF Start
    <3> SUFFICES ASSUME NEW u \in InProgress PROVE FALSE
      OBVIOUS
    <3>2. InProgress = {u}
      BY <1>1
    <3> QED
      BY <3>1, <3>2, FS_Singleton
  <2>2. PICK place : pc' = [pc EXCEPT ![t] = place]
    BY <1>3 DEF Start, End, Goto
  <2> QED
    BY <1>1, <2>1, <2>2 DEF InProgress
<1>4. ASSUME NEW t \in Calls, Client(t), ~Start(t) PROVE InProgress' \subseteq InProgress
  <2>1. CASE Wait(t)
    BY <2>1 DEF Wait, InProgress
  <2>2. CASE SendUnpaced(t) \/ Acquire(t) \/ Retry(t)
    BY <1>2, <2>2 DEF SendUnpaced, Acquire, Retry, Post, Goto
  <2> QED
    BY <1>4, <2>1, <2>2 DEF Client
<1>5. ASSUME NEW t \in Calls, Provider(t) PROVE InProgress' \subseteq InProgress
  <2>1. pc[t] = "posted" /\ \E place : pc' = [pc EXCEPT ![t] = place]
    BY <1>5 DEF Provider, Body, Unreadable, Refusal, Transient, End, Goto
  <2> QED
    BY <1>2, <2>1
<1>6. CASE Tick
  BY <1>1, <1>6 DEF Tick, InProgress
<1>7. CASE UNCHANGED vars
  BY <1>1, <1>7 DEF vars, InProgress
<1> QED
  BY <1>1, <1>3, <1>4, <1>5, <1>6, <1>7 DEF Next

\* Pruning the window takes nothing from what was charged in its ticks.
LEMMA PrunedCharges ==
  ASSUME NEW charges \in Seq(Charge), NEW a \in Ages
  PROVE ChargedIn(Pruned(charges), Len(Pruned(charges)), a) = ChargedIn(charges, Len(charges), a)
BY PrunedKeepsTicks DEF ChargedIn

\* What a lone worker does keeps the charges in step with the bill.
LEMMA AccountsKept ==
  ASSUME IInv, [Next]_vars, Alone, Alone'
  PROVE ChargedAsSent' /\ EachTickIsCovered'
<1> USE WindowAssumption
<1>1. /\ spent \in Seq(Charge) /\ pc \in [Calls -> Places] /\ since \in [Calls -> 0..W]
      /\ real \in [Ages -> Nat] /\ Len(spent) \in Nat
  BY ChargeTypes DEF IInv, TypeOK, Charge
<1>2. spent' \in Seq(Charge) /\ Len(spent') \in Nat
  <2>1. Types'
    BY TypesKept DEF IInv, Types
  <2> QED
    BY <2>1, LenProperties DEF Types, TypeOK, Charge
<1>3. /\ \A t, u \in Calls : pc[t] \in {"waiting", "posted", "backoff"} /\ u # t => pc[u] \in {"queued", "done"}
      /\ \A t \in Calls : pc[t] # "backoff"
      /\ \A t \in Calls : pc[t] = "posted" =>
           spent # <<>> /\ spent[Len(spent)] = [age |-> since[t], tokens |-> Estimate[t]]
      /\ \A a \in Ages : real[a] <= ChargedIn(spent, Settled, a)
  BY <1>1 DEF IInv, Alone, OneAtATime, InProgress, ChargedAsSent, EachTickIsCovered, Places
<1> DEFINE Goal ==
      /\ \A t \in Calls :
           /\ pc'[t] # "backoff"
           /\ pc'[t] = "posted" =>
                spent' # <<>> /\ spent'[Len(spent')] = [age |-> since'[t], tokens |-> Estimate[t]]
      /\ \A a \in Ages : real'[a] <= ChargedIn(spent', Settled', a)
<1>4. SUFFICES Goal
  BY DEF ChargedAsSent, EachTickIsCovered
<1>5. ASSUME NEW t \in Calls, Start(t) PROVE Goal
  <2>1. UNCHANGED <<spent, since, real>> /\ pc' = [pc EXCEPT ![t] = "waiting"]
    BY <1>5 DEF Start, Goto, billing, Alone, Throttled
  <2>2. pc[t] = "queued"
    BY <1>5 DEF Start
  <2>3. \A u \in Calls : pc'[u] = "posted" <=> pc[u] = "posted"
    BY <1>1, <2>1, <2>2
  <2>4. Settled' = Settled
    BY <2>1, <2>3 DEF Settled
  <2> QED
    BY <1>1, <1>3, <2>1, <2>3, <2>4
<1>6. ASSUME NEW t \in Calls, Acquire(t) PROVE Goal
  <2> DEFINE P == Pruned(spent)
             charge == [age |-> 0, tokens |-> Estimate[t]]
  <2>1. /\ spent' = Append(P, charge) /\ real' = real /\ pc[t] = "waiting"
        /\ pc' = [pc EXCEPT ![t] = "posted"] /\ since' = [since EXCEPT ![t] = 0]
    BY <1>6 DEF Acquire, Post, Goto, billing
  <2>2. P \in Seq(Charge) /\ Len(P) \in Nat /\ charge \in Charge
    <3>1. P \in Seq(Charge)
      BY <1>1, PrunedKeepsTicks
    <3>2. charge \in Charge
      BY DEF Charge
    <3> HIDE DEF P
    <3> QED
      BY <3>1, <3>2, LenProperties
  <2>3. /\ Len(spent') = Len(P) + 1 /\ spent'[Len(P) + 1] = charge
        /\ \A i \in 1..Len(P) : spent'[i] = P[i]
    <3> HIDE DEF P, charge
    <3> QED
      BY <2>1, <2>2, AppendProperties
  <2>4. Settled = Len(spent) /\ Settled' = Len(P)
    <3>1. \A u \in Calls : pc[u] # "posted"
      BY <1>3, <2>1
    <3>2. pc'[t] = "posted"
      BY <1>1, <2>1
    <3> HIDE DEF P
    <3> QED
      BY <2>2, <2>3, <3>1, <3>2 DEF Settled
  <2>5. \A u \in Calls : pc'[u] = "posted" => u = t
    BY <1>1, <1>3, <2>1
  <2>6. \A u \in Calls : pc'[u] # "backoff"
    BY <1>1, <1>3, <2>1
  <2>7. spent' # <<>> /\ spent'[Len(spent')] = [age |-> since'[t], tokens |-> Estimate[t]]
    <3>1. since'[t] = 0
      BY <1>1, <2>1
    <3>2. spent' # <<>> /\ spent'[Len(spent')] = charge
      <4> HIDE DEF P, charge
      <4> QED
        BY <2>2, <2>3, EmptySeq, <1>2
    <3> QED
      BY <3>1, <3>2
  <2>8. \A a \in Ages : ChargedIn(spent', Len(P), a) = ChargedIn(P, Len(P), a)
    <3> HIDE DEF P, charge
    <3>1. /\ spent' \in Seq(Charge) /\ P \in Seq(Charge)
          /\ Len(P) \in 0..Len(spent') /\ Len(P) <= Len(P)
      BY <1>2, <2>2, <2>3
    <3>2. ASSUME NEW a \in Ages PROVE ChargedIn(spent', Len(P), a) = ChargedIn(P, Len(P), a)
      <4>1. \A i \in 1..Len(P) : /\ spent'[i].tokens = P[i].tokens
                                 /\ spent'[i].age = a <=> P[i].age = a
        BY <2>3
      <4> QED
        BY ONLY <3>1, <4>1, ChargedInSame
    <3> QED
      BY <3>2
  <2>9. \A a \in Ages : real'[a] <= ChargedIn(spent', Settled', a)
    BY <1>1, <1>3, <2>1, <2>4, <2>8, PrunedCharges
  <2> QED
    BY <2>5, <2>6, <2>7, <2>9
<1>7. ASSUME NEW t \in Calls, Wait(t) PROVE Goal
  <2>1. spent' = Pruned(spent) /\ UNCHANGED <<pc, since, real>> /\ pc[t] = "waiting"
    BY <1>7 DEF Wait, billing
  <2>2. \A u \in Calls : pc[u] # "posted"
    BY <1>3, <2>1
  <2>3. Settled = Len(spent) /\ Settled' = Len(spent')
    BY <2>1, <2>2 DEF Settled
  <2> QED
    BY <1>1, <1>3, <2>1, <2>2, <2>3, PrunedCharges
<1>8. ASSUME NEW t \in Calls, Body(t) PROVE Goal
  <2>1. PICK u \in Usage : \E total \in {u, Estimate[t]} :
           /\ Bill(t, u, total = u)
           /\ spent' = IF Throttled THEN Corrected(spent, Estimate[t], total) ELSE spent
    BY <1>8 DEF Body
  <2>1a. PICK total \in {u, Estimate[t]} :
           /\ Bill(t, u, total = u)
           /\ spent' = IF Throttled THEN Corrected(spent, Estimate[t], total) ELSE spent
    BY <2>1
  <2>2. total = u /\ told' /\ spent' = Corrected(spent, Estimate[t], u)
    BY <2>1a DEF Bill, Alone
  <2>3. \A a \in Ages : real'[a] = real[a] + IF a = since[t] THEN u ELSE 0
    <3>1. real' = [a \in Ages |-> IF a = since[t] THEN real[a] + u ELSE real[a]]
      BY <2>1a, <2>2 DEF Bill, Alone
    <3> QED
      BY <1>1, <3>1
  <2>4. pc[t] = "posted" /\ pc' = [pc EXCEPT ![t] = "done"] /\ since' = since
    BY <1>8 DEF Body, End, Goto
  <2>5. u \in Nat /\ Estimate[t] \in Nat
    OBVIOUS
  <2>6. Len(spent) \in Nat \ {0} /\ spent[Len(spent)] = [age |-> since[t], tokens |-> Estimate[t]]
    BY <1>1, <1>3, <2>4, EmptySeq
  <2> DEFINE n == Len(spent)
  <2>7. /\ Len(spent') = n /\ \A i \in 1..(n - 1) : spent'[i] = spent[i]
        /\ spent'[n].age = since[t] /\ spent'[n].tokens = u
    <3>1. n \in 1..n /\ \A i \in 1..(n - 1) : i \in 1..n /\ i # n
      BY <2>6
    <3>2. spent[n].age = since[t] /\ spent[n].tokens = Estimate[t]
      BY <2>6
    <3> DEFINE new == Corrected(spent, Estimate[t], u)
    <3>3. /\ Len(new) = n
          /\ \A i \in 1..n :
               /\ new[i].age = spent[i].age
               /\ i # n => new[i] = spent[i]
               /\ i = n /\ spent[i].tokens = Estimate[t] => new[i].tokens = u
      <4>1. spent \in Seq(Charge)
        BY <1>1
      <4> QED
        BY ONLY <4>1, <2>5, CorrectedTypes
    <3> HIDE DEF n, new
    <3>4. spent' = new
      BY <2>2 DEF new
    <3> QED
      BY ONLY <3>1, <3>2, <3>3, <3>4
  <2>8. \A v \in Calls : pc'[v] \in {"queued", "done"}
    BY <1>1, <1>3, <2>4
  <2>9. Settled = n - 1 /\ Settled' = n
    BY <2>4, <2>7, <2>8 DEF Settled
  <2>10. ASSUME NEW a \in Ages PROVE real'[a] <= ChargedIn(spent', Settled', a)
    <3>1. ChargedIn(spent', n, a) = ChargedIn(spent', n - 1, a) + IF since[t] = a THEN u ELSE 0
      <4>1. n \in 1..Len(spent')
        BY <2>6, <2>7
      <4> HIDE DEF n
      <4> QED
        BY <1>2, <2>7, <4>1, ChargedOneMore
    <3>2. ChargedIn(spent', n - 1, a) = ChargedIn(spent, n - 1, a)
      <4>1. PICK m \in Nat : m = n - 1
        BY <2>6
      <4>2. m \in 0..Len(spent') /\ m <= Len(spent)
        BY <2>6, <2>7, <4>1
      <4>3. \A i \in 1..m : /\ spent'[i].tokens = spent[i].tokens
                            /\ spent'[i].age = a <=> spent[i].age = a
        BY <2>7, <4>1
      <4> HIDE DEF n
      <4>4. ChargedIn(spent', m, a) = ChargedIn(spent, m, a)
        <5>1. spent \in Seq(Charge) /\ spent' \in Seq(Charge)
          BY <1>1, <1>2
        <5> QED
          BY ONLY <5>1, <4>2, <4>3, ChargedInSame
      <4> QED
        BY <4>1, <4>4
    <3>3. real[a] <= ChargedIn(spent, n - 1, a) /\ real[a] \in Nat /\ ChargedIn(spent, n - 1, a) \in Nat
      <4>1. n - 1 \in 0..Len(spent) /\ 0 \in 0..(n - 1)
        BY <2>6
      <4> QED
        BY <1>1, <1>3, <2>9, <4>1, ChargedTypes
    <3> HIDE DEF n
    <3> QED
      BY <2>3, <2>5, <2>9, <3>1, <3>2, <3>3
  <2> HIDE DEF n
  <2> QED
    BY <2>8, <2>10
<1>9. ASSUME NEW t \in Calls, Refusal(t) PROVE Goal
  <2>1. UNCHANGED <<spent, since, real>> /\ pc' = [pc EXCEPT ![t] = "done"] /\ pc[t] = "posted"
    BY <1>9 DEF Refusal, End, Goto, billing
  <2>2. \A u \in Calls : pc'[u] \in {"queued", "done"}
    BY <1>1, <1>3, <2>1
  <2>3. Len(spent) \in Nat \ {0}
    BY <1>1, <1>3, <2>1, EmptySeq
  <2>4. Settled = Len(spent) - 1 /\ Settled' = Len(spent)
    BY <2>1, <2>2 DEF Settled
  <2>5. ASSUME NEW a \in Ages PROVE real'[a] <= ChargedIn(spent', Settled', a)
    <3>1. Len(spent) - 1 \in 0..Len(spent) /\ Len(spent) \in 0..Len(spent)
      BY <2>3
    <3>2. /\ ChargedIn(spent, Settled, a) <= ChargedIn(spent, Settled', a)
          /\ ChargedIn(spent, Settled, a) \in Nat /\ ChargedIn(spent, Settled', a) \in Nat
      BY <1>1, <2>3, <2>4, <3>1, ChargedTypes
    <3>3. real[a] \in Nat /\ real[a] <= ChargedIn(spent, Settled, a)
      BY <1>1, <1>3
    <3> QED
      BY <2>1, <3>2, <3>3
  <2> QED
    BY <2>2, <2>5
<1>10. ASSUME NEW t \in Calls, SendUnpaced(t) \/ Retry(t) \/ Unreadable(t) \/ Transient(t)
       PROVE FALSE
  BY <1>3, <1>10 DEF SendUnpaced, Retry, Unreadable, Transient, Bill, Alone
<1>11. CASE Tick
  <2>1. spent' = Older(spent) /\ UNCHANGED pc
    BY <1>11 DEF Tick
  <2>2. /\ Len(spent') = Len(spent)
        /\ \A i \in 1..Len(spent) :
             /\ spent'[i].tokens = spent[i].tokens
             /\ spent'[i].age = IF spent[i].age = W THEN W ELSE spent[i].age + 1
    BY <1>1, <2>1, OlderTypes
  <2>3. Settled' = Settled
    BY <2>1, <2>2 DEF Settled
  <2>4. Settled \in 0..Len(spent)
    <3>1. (\E t \in Calls : pc[t] = "posted") => Len(spent) \in Nat \ {0}
      BY <1>1, <1>3, EmptySeq
    <3> QED
      BY <1>1, <3>1 DEF Settled
  <2>5. ASSUME NEW t \in Calls, pc[t] = "posted"
        PROVE spent' # <<>> /\ spent'[Len(spent')] = [age |-> since'[t], tokens |-> Estimate[t]]
    <3>1. Len(spent) \in Nat \ {0} /\ spent[Len(spent)] = [age |-> since[t], tokens |-> Estimate[t]]
      BY <1>1, <1>3, <2>5, EmptySeq
    <3>2. since'[t] = IF since[t] = W THEN W ELSE since[t] + 1
      <4>1. since'[t] = Min({W, since[t] + 1}) /\ since[t] \in 0..W
        BY <1>1, <1>11 DEF Tick
      <4> QED
        BY <4>1, OneTickLater
    <3>3. spent' # <<>> /\ Len(spent') \in 1..Len(spent')
      BY <1>2, <2>2, <3>1, EmptySeq
    <3>4. /\ spent'[Len(spent')].tokens = Estimate[t]
          /\ spent'[Len(spent')].age = since'[t]
      BY <2>2, <3>1, <3>2
    <3>5. spent'[Len(spent')] \in Charge
      BY <1>2, <3>3, ElementOfSeq
    <3> QED
      BY <3>3, <3>4, <3>5 DEF Charge
  <2>6. ASSUME NEW a \in Ages PROVE real'[a] <= ChargedIn(spent', Settled, a)
    <3>1. CASE a = 0
      <4>1. real'[a] = 0
        BY <1>11, <3>1 DEF Tick
      <4>2. ChargedIn(spent', Settled, a) \in Nat
        BY <1>2, <2>2, <2>4, ChargedTypes
      <4> QED
        BY <4>1, <4>2
    <3>2. CASE a # 0
      <4>1. a - 1 \in Ages /\ real'[a] = real[a - 1]
        BY <1>11, <3>2 DEF Tick
      <4>2. \A i \in 1..Settled : spent[i].age = a - 1 <=> spent'[i].age = a
        <5>1. \A i \in 1..Settled : i \in 1..Len(spent)
          BY <1>1, <2>4
        <5>2. \A i \in 1..Settled : spent[i].age \in 0..W
          BY <1>1, <5>1, ChargeTypes
        <5> SUFFICES ASSUME NEW i \in 1..Settled
                     PROVE spent[i].age = a - 1 <=> spent'[i].age = a
          OBVIOUS
        <5>3. spent'[i].age = IF spent[i].age = W THEN W ELSE spent[i].age + 1
          BY <2>2, <5>1
        <5>4. a \in 0..(W - 1) /\ spent[i].age \in 0..W
          BY <5>2
        <5> QED
          BY <5>3, <5>4
      <4>3. \A i \in 1..Settled : spent[i].tokens = spent'[i].tokens
        BY <1>1, <2>2, <2>4
      <4>4. ChargedIn(spent, Settled, a - 1) = ChargedIn(spent', Settled, a)
        <5>1. /\ spent \in Seq(Charge) /\ spent' \in Seq(Charge)
              /\ Settled \in 0..Len(spent) /\ Settled <= Len(spent')
          BY <1>1, <1>2, <2>2, <2>4
        <5> QED
          BY ONLY <5>1, <4>2, <4>3, ChargedInSame
      <4> QED
        BY <1>3, <4>1, <4>4
    <3> QED
      BY <3>1, <3>2
  <2> QED
    BY <1>3, <2>1, <2>3, <2>5, <2>6
<1>12. CASE UNCHANGED vars
  BY <1>3, <1>12 DEF vars, Settled
<1> HIDE DEF Goal
<1>13. ASSUME NEW t \in Calls, Client(t) PROVE Goal
  BY ONLY <1>5, <1>6, <1>7, <1>10, <1>13 DEF Client
<1>14. ASSUME NEW t \in Calls, Provider(t) PROVE Goal
  BY ONLY <1>8, <1>9, <1>10, <1>14 DEF Provider
<1> QED
  BY <1>11, <1>12, <1>13, <1>14 DEF Next

LEMMA AloneBefore == [Next]_vars /\ Alone' => Alone
<1> SUFFICES ASSUME [Next]_vars, Alone' PROVE Alone
  OBVIOUS
<1>1. UNCHANGED <<client, workers>>
  BY DEF Next, vars, Tick, Client, Provider, Start, SendUnpaced, Acquire, Wait, Retry, Body,
         Unreadable, Refusal, Transient, rigid
<1>2. told' => told
  BY DEF Next, vars, Tick, Client, Provider, Start, SendUnpaced, Acquire, Wait, Retry, Body,
         Unreadable, Refusal, Transient, Bill, billing
<1> QED
  BY <1>1, <1>2 DEF Alone, Throttled

LEMMA InitAccounts == Init => IInv
<1> SUFFICES ASSUME Init PROVE IInv
  OBVIOUS
<1>1. Types
  BY InitTypes
<1>2. OneAtATime /\ ChargedAsSent
  BY DEF Init, OneAtATime, InProgress, ChargedAsSent
<1>3. EachTickIsCovered
  <2>1. spent \in Seq(Charge) /\ Len(spent) = 0 /\ Settled = 0
    BY DEF Init, Settled
  <2>2. \A a \in Ages : ChargedIn(spent, 0, a) \in Nat
    <3>1. 0 \in 0..Len(spent) /\ 0 \in 0..0
      BY <2>1
    <3> QED
      BY <2>1, <3>1, ChargedTypes
  <2> QED
    BY <2>1, <2>2 DEF EachTickIsCovered, Init
<1> QED
  BY <1>1, <1>2, <1>3 DEF IInv, Types

\* Whatever the prompts, the usage and the budget: one worker is at one prompt, and while
\* every answer brought its usage each tick's bill is covered by that tick's charges.
THEOREM InductiveInvariant == Spec => []IInv
<1>1. Init => IInv
  BY InitAccounts
<1>2. IInv /\ [Next]_vars => IInv'
  <2> SUFFICES ASSUME IInv, [Next]_vars PROVE IInv'
    OBVIOUS
  <2>1. Types' /\ OneAtATime'
    BY TypesKept, OneIsKept DEF IInv, Types
  <2>2. CASE Alone'
    BY <2>1, <2>2, AloneBefore, AccountsKept DEF IInv, Types
  <2>3. CASE ~Alone'
    BY <2>1, <2>3 DEF IInv, Types, ChargedAsSent, EachTickIsCovered
  <2> QED
    BY <2>2, <2>3
<1> QED
  BY <1>1, <1>2, PTL DEF Spec

\* Every variable keeps its type: charges carry an age within the window and a number of tokens.
THEOREM TypeCorrect == Spec => []TypeOK
<1>1. IInv => TypeOK
  BY DEF IInv
<1> QED
  BY <1>1, InductiveInvariant, PTL

----------------------------------------------------------------------------
(* What the invariant is for. *)

\* Summed over the ticks of the window.
LEMMA BillIsCovered ==
  ASSUME IInv, Alone
  PROVE Billed \in Nat /\ Used(Pruned(spent)) \in Nat /\ Billed <= Used(Pruned(spent))
<1> USE WindowAssumption
<1> DEFINE P == Pruned(spent)
           places == 1..Len(P)
           ages == [i \in places |-> P[i].age]
           sums == [c \in Ages |-> SumFunctionOnSet(Tokens(P), {i \in places : ages[i] = c})]
<1>1. spent \in Seq(Charge) /\ real \in [Ages -> Nat] /\ Len(spent) \in Nat
  BY LenProperties DEF IInv, TypeOK, Charge
<1>2. P \in Seq(Charge) /\ P \in Seq([age : Ages, tokens : Nat])
  BY <1>1, PrunedKeepsTicks
<1>3. Len(P) \in Nat /\ DOMAIN P = places
  <2> HIDE DEF P
  <2> QED
    BY <1>2, LenProperties
<1>4. \A i \in places : Tokens(P)[i] \in Nat /\ P[i].age \in Ages
  <2> HIDE DEF P
  <2>1. \A i \in places : P[i] \in [age : Ages, tokens : Nat]
    BY <1>2, ElementOfSeq
  <2> QED
    BY <1>2, <2>1, ChargeTypes
<1>5. IsFiniteSet(places) /\ IsFiniteSet(Ages)
  BY <1>3, FS_Interval
<1>6. Used(P) = SumFunctionOnSet(Tokens(P), places)
  BY <1>3 DEF Used, Tokens, SumFunction
<1>7. SumFunctionOnSet(Tokens(P), places) = SumFunctionOnSet(sums, Ages)
  <2>1. \A i \in places : Tokens(P)[i] \in Int /\ ages[i] \in Ages
    BY <1>4
  <2> HIDE DEF P, places, ages
  <2> QED
    BY ONLY <1>5, <2>1, SumByClass
<1>8. \A a \in Ages : sums[a] = ChargedIn(P, Len(P), a)
  BY DEF ChargedIn, Aged
<1>9. ASSUME NEW a \in Ages PROVE sums[a] \in Nat /\ real[a] \in Nat /\ real[a] <= sums[a]
  <2>1. Settled \in 0..Len(spent) /\ Len(spent) \in 0..Len(spent)
    <3>1. (\E t \in Calls : pc[t] = "posted") => Len(spent) \in Nat \ {0}
      BY <1>1, EmptySeq DEF IInv, ChargedAsSent
    <3> QED
      BY <1>1, <3>1 DEF Settled
  <2>2. /\ ChargedIn(spent, Settled, a) \in Nat /\ ChargedIn(spent, Len(spent), a) \in Nat
        /\ ChargedIn(spent, Settled, a) <= ChargedIn(spent, Len(spent), a)
    BY <1>1, <2>1, ChargedTypes
  <2>3. real[a] <= ChargedIn(spent, Settled, a)
    BY DEF IInv, EachTickIsCovered
  <2>4. sums[a] = ChargedIn(spent, Len(spent), a)
    BY <1>1, <1>8, PrunedCharges
  <2> HIDE DEF sums
  <2> QED
    BY <1>1, <2>2, <2>3, <2>4
<1>10. Billed = SumFunctionOnSet(real, Ages)
  BY <1>1 DEF Billed, SumFunction
<1> HIDE DEF sums
<1>11. SumFunctionOnSet(real, Ages) <= SumFunctionOnSet(sums, Ages)
  BY <1>5, <1>9, SumIsMonotone
<1>12. SumFunctionOnSet(real, Ages) \in Nat /\ SumFunctionOnSet(sums, Ages) \in Nat
  BY <1>5, <1>9, SumOfPart
<1> QED
  BY <1>6, <1>7, <1>10, <1>11, <1>12

\* With one worker the charges still in the window cover what was billed inside it, whatever
\* the usage turned out to be and however long the window.
THEOREM SpendIsCovered == Spec => []ChargesCoverTheBill
<1>1. IInv => ChargesCoverTheBill
  BY BillIsCovered DEF ChargesCoverTheBill
<1> QED
  BY <1>1, InductiveInvariant, PTL

\* With one worker a prompt goes out only where the bill of the window leaves it room, or is
\* nothing at all.
THEOREM LonePace == Spec => PaceIsKept
<1> DEFINE A == \A t \in Calls : Alone /\ attempt'[t] > attempt[t] =>
                   Billed + Estimate[t] <= Budget \/ Billed = 0
<1>1. IInv /\ [Next]_vars => A
  <2> USE WindowAssumption
  <2> SUFFICES ASSUME IInv, [Next]_vars, Alone, NEW t \in Calls, attempt'[t] > attempt[t]
               PROVE Billed + Estimate[t] <= Budget \/ Billed = 0
    OBVIOUS
  <2>1. attempt \in [Calls -> 0..MaxAttempts] /\ \A u \in Calls : pc[u] # "backoff"
    BY DEF IInv, TypeOK, ChargedAsSent
  <2>2. attempt' # attempt
    BY <2>1
  <2>3. PICK u \in Calls : SendUnpaced(u) \/ Acquire(u) \/ Retry(u)
    BY <2>2 DEF Next, vars, Tick, Client, Provider, Start, Wait, Body, Unreadable, Refusal, Transient
  <2>4. Acquire(u)
    BY <2>1, <2>3 DEF SendUnpaced, Retry, Alone
  <2>5. u = t
    BY <2>1, <2>4 DEF Acquire, Post
  <2>6. Used(Pruned(spent)) + Estimate[t] <= Budget \/ Pruned(spent) = <<>>
    BY <2>4, <2>5 DEF Acquire, Admits
  <2>7. Billed \in Nat /\ Used(Pruned(spent)) \in Nat /\ Billed <= Used(Pruned(spent))
    BY BillIsCovered
  <2>8. Pruned(spent) = <<>> => Used(Pruned(spent)) = 0
    <3>1. DOMAIN [i \in DOMAIN <<>> |-> <<>>[i].tokens] = {}
      OBVIOUS
    <3>2. Used(<<>>) = SumFunctionOnSet([i \in DOMAIN <<>> |-> <<>>[i].tokens], {})
      BY <3>1 DEF Used, SumFunction
    <3> QED
      BY <3>2, SumOfNone
  <2>9. Estimate[t] \in Nat /\ Budget \in Nat
    OBVIOUS
  <2> QED
    BY <2>6, <2>7, <2>8, <2>9
<1>2. [][A]_vars => PaceIsKept
  BY PTL DEF PaceIsKept
<1> QED
  BY <1>1, <1>2, InductiveInvariant, PTL DEF Spec
=============================================================================
