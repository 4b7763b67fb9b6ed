---------------------------- MODULE MatchingProofs ----------------------------
(***************************************************************************)
(* What match_batch returns for every batch.  The payment an entry may be  *)
(* matched with depends on its order only, so the entries of one order     *)
(* agree on which payments are duplicates; and since consumed lines are    *)
(* never available again, what is unclaimed in the end was so all along.   *)
(*                                                                         *)
(* Then what becomes of the labelled scenarios, for every amount, rate and *)
(* day their builders may draw: rules resolve those they should, and the   *)
(* others show the evidence and the hint that go with their gold code.     *)
(***************************************************************************)
EXTENDS Dataset, FiniteFacts

Looked == 1..(next - 1)

\* A match settles an entry already looked at with the earliest payment of its order.
MatchInv ==
  \A m \in matches : /\ m.entry \in Looked
                     /\ Candidates(m.entry) # {}
                     /\ m.payment = Primary(m.entry)

\* The line fits the payment and the entry under the code of the match.
FitInv == \A m \in matches : m.line \in Eligible(m.code, m.entry, Credits)

\* Of the orders already looked at, the duplicates are rejected, and the payments left
\* unresolved are those neither matched nor rejected.
RejectInv ==
  /\ \A e \in Looked : Rejected(e) \subseteq exceptions
  /\ \A p \in Payments :
       p \in unresolved <=> ~Matched(p) /\ \A e \in Looked : p \notin Duplicates(e)

\* Until the result is returned, every exception is a rejected duplicate or an entry without
\* a payment.
ExceptionInv ==
  \A x \in exceptions : ~done =>
    \/ \E e \in Looked : x \in Rejected(e)
    \/ /\ x.entry \in Looked /\ Candidates(x.entry) = {}
       /\ x.payment = 0 /\ x.line = 0

\* What the result reports is nothing else, but for the payments no match has and the credits
\* nothing claimed.
ReportInv ==
  done => \A x \in exceptions :
    \/ \E e \in Looked : x \in Rejected(e)
    \/ x.entry \in Looked /\ Candidates(x.entry) = {}
    \/ x.payment \in Payments /\ ~Matched(x.payment)
    \/ x.line \in Available

\* An entry without a payment has been reported.
OrphanInv ==
  \A e \in Looked : Candidates(e) = {} => Reported({0}, {0}, {e})

\* No line still available could have settled an entry looked at better than it was.
GreedyInv ==
  \A e \in Looked, code \in MatchCodes, l \in Available :
    Candidates(e) # {} /\ l \in Eligible(code, e, Credits) =>
      \E m \in matches : m.entry = e /\ m.code \in Before(code) \union {code}

\* The result is returned when every entry has been looked at.
DoneInv == done => Looked = Entries

IInv ==
  TypeOK /\ DoneInv /\ MatchInv /\ RejectInv /\ ExceptionInv /\ OrphanInv /\ GreedyInv
         /\ ConsumedOnce /\ EverythingAccounted /\ FitInv /\ ReportInv

----------------------------------------------------------------------------
(* Choosing a payment and a line. *)

\* The positions of a batch are naturals, and its payments have their fields.
LEMMA Positions ==
  ASSUME TypeOK
  PROVE /\ Payments \subseteq Nat \ {0} /\ Lines \subseteq Nat \ {0}
        /\ Entries = 1..Len(batch.entries) /\ Len(batch.entries) \in Nat
        /\ \A p \in Payments : batch.payments[p].at \in Nat
<1>1. /\ batch.payments \in Seq(Payment) /\ batch.lines \in Seq(BankLine)
      /\ batch.entries \in Seq(LedgerEntry)
  BY MatchingAssumption DEF TypeOK
<1>2. \A p \in Payments : batch.payments[p] \in Payment
  BY <1>1 DEF Payments
<1>3. /\ Payments = 1..Len(batch.payments) /\ Len(batch.payments) \in Nat
      /\ Lines = 1..Len(batch.lines) /\ Len(batch.lines) \in Nat
      /\ Entries = 1..Len(batch.entries) /\ Len(batch.entries) \in Nat
  BY <1>1 DEF Payments, Lines, Entries
<1> QED
  BY <1>2, <1>3 DEF Payment

\* An order with a payment has an earliest one.
LEMMA PrimaryLeads ==
  ASSUME TypeOK, NEW e, Candidates(e) # {}
  PROVE /\ Primary(e) \in Candidates(e)
        /\ \A q \in Candidates(e) : Leads(Primary(e), q)
<1> DEFINE times == {batch.payments[p].at : p \in Candidates(e)}
           first(t) == {p \in Candidates(e) : batch.payments[p].at = t}
<1>1. Candidates(e) \subseteq Payments
  BY DEF Candidates
<1>2. times \subseteq Nat /\ times # {}
  BY <1>1, Positions
<1>3. PICK t \in times : \A u \in times : t <= u
  BY <1>2, LeastNatural
<1>4. first(t) \subseteq Nat /\ first(t) # {}
  BY <1>1, Positions
<1>5. PICK p \in first(t) : \A q \in first(t) : p <= q
  BY <1>4, LeastNatural
<1>6. \A q \in Candidates(e) : Leads(p, q)
  <2> TAKE q \in Candidates(e)
  <2>1. t <= batch.payments[q].at /\ t \in Nat /\ batch.payments[q].at \in Nat
    BY <1>1, <1>2, <1>3, Positions
  <2>2. batch.payments[p].at = t
    BY <1>5
  <2> QED
    BY <2>1, <2>2, <1>5 DEF Leads
<1> QED
  BY <1>5, <1>6 DEF Primary

\* The line chosen is one of the eligible ones.
LEMMA LineChosen ==
  ASSUME TypeOK, NEW code, NEW e, Eligible(code, e, Available) # {}
  PROVE Min(Eligible(code, e, Available)) \in Eligible(code, e, Available)
<1>1. Eligible(code, e, Available) \subseteq Nat
  BY Positions DEF Eligible, Available, Credits
<1> QED
  BY <1>1, LeastNatural DEF Min

----------------------------------------------------------------------------
(* The inductive invariant. *)

\* Before the first entry the invariant holds.
LEMMA InitInv == Init => IInv
<1> SUFFICES ASSUME Init PROVE IInv
  OBVIOUS
<1>1. Len(batch.entries) \in Nat
  <2>1. batch.entries \in Seq(LedgerEntry)
    BY MatchingAssumption DEF Init
  <2> QED
    BY <2>1
<1>2. TypeOK
  <2>1. next \in 1..(Len(batch.entries) + 1) /\ batch \in Batches
    BY <1>1 DEF Init
  <2>2. matches = {} /\ exceptions = {} /\ unresolved = Payments /\ done \in BOOLEAN
    BY DEF Init
  <2> QED
    BY <2>1, <2>2 DEF TypeOK
<1>3. Looked = {}
  BY DEF Init, Looked
<1>4. matches = {} /\ exceptions = {} /\ unresolved = Payments /\ done = FALSE
  BY DEF Init
<1>5. MatchInv /\ ExceptionInv /\ ConsumedOnce /\ FitInv /\ ReportInv
  BY <1>4 DEF MatchInv, ExceptionInv, ConsumedOnce, FitInv, ReportInv
<1>6. RejectInv
  BY <1>3, <1>4 DEF RejectInv, Matched
<1>7. OrphanInv /\ GreedyInv
  BY <1>3 DEF OrphanInv, GreedyInv
<1>8. DoneInv /\ EverythingAccounted
  BY <1>4 DEF DoneInv, EverythingAccounted
<1> QED
  BY <1>2, <1>5, <1>6, <1>7, <1>8 DEF IInv

\* Every step keeps the types.
LEMMA TypeStep == TypeOK /\ [Next]_vars => TypeOK'
<1> SUFFICES ASSUME TypeOK, [Next]_vars PROVE TypeOK'
  OBVIOUS
<1>1. batch' = batch
  BY DEF Next, NoPayment, Match, NoLine, ReportRest, Advance, vars
<1>2. \A e : Candidates(e) \subseteq Payments
  BY DEF Candidates
<1>3. \A e \in Entries :
        Rejected(e) \subseteq [code : ExceptionCodes, payment : Payments \union {0},
                               line : Credits \union {0}, entry : Entries \union {0}]
  BY <1>2 DEF Rejected, Duplicates, Exception, ExceptionCodes
<1>4. CASE UNCHANGED vars
  BY <1>4 DEF vars, TypeOK, Payments, Credits, Lines, Entries
<1>5. CASE NoPayment
  BY <1>1, <1>5, Positions
  DEF NoPayment, Look, Advance, TypeOK, Payments, Credits, Lines, Entries, Exception, ExceptionCodes
<1>6. CASE Match
  <2>1. PICK code \in MatchCodes :
          /\ Eligible(code, next, Available) # {}
          /\ matches' = matches \union
               {[code |-> code, payment |-> Primary(next),
                 line |-> Min(Eligible(code, next, Available)), entry |-> next]}
    BY <1>6 DEF Match
  <2>2. Primary(next) \in Payments
    BY <1>2, <1>6, PrimaryLeads DEF Match
  <2>3. Min(Eligible(code, next, Available)) \in Credits
    BY <2>1, LineChosen DEF Eligible, Available
  <2>4. matches' \subseteq
          [code : MatchCodes, payment : Payments, line : Credits, entry : Entries]
    BY <1>6, <2>1, <2>2, <2>3 DEF Match, Look, TypeOK
  <2> QED
    BY <1>1, <1>3, <1>6, <2>4, Positions
    DEF Match, Look, Advance, TypeOK, Payments, Credits, Lines, Entries
<1>7. CASE NoLine
  BY <1>1, <1>3, <1>7, Positions
  DEF NoLine, Look, Advance, TypeOK, Payments, Credits, Lines, Entries
<1>8. CASE ReportRest
  BY <1>1, <1>8
  DEF ReportRest, TypeOK, Payments, Credits, Lines, Entries, Exception, ExceptionCodes, Available
<1> QED
  BY <1>4, <1>5, <1>6, <1>7, <1>8 DEF Next

\* The batch never changes, nor what is read off it.
LEMMA SameBatch ==
  ASSUME [Next]_vars
  PROVE /\ Payments' = Payments /\ Credits' = Credits /\ Entries' = Entries
        /\ \A e : /\ Candidates(e)' = Candidates(e)
                 /\ Primary(e)' = Primary(e)
                 /\ Duplicates(e)' = Duplicates(e)
                 /\ Rejected(e)' = Rejected(e)
        /\ \A code, e : Eligible(code, e, Credits)' = Eligible(code, e, Credits)
<1>1. batch' = batch
  BY DEF Next, NoPayment, Match, NoLine, ReportRest, Advance, vars
<1>2. Payments' = Payments /\ Credits' = Credits /\ Entries' = Entries
  BY <1>1 DEF Payments, Credits, Lines, Entries
<1>3. \A e : Candidates(e)' = Candidates(e)
  BY <1>1, <1>2 DEF Candidates
<1>4. \A e : Primary(e)' = Primary(e)
  BY <1>1, <1>3 DEF Primary, Leads
<1>5. \A e : Duplicates(e)' = Duplicates(e)
  BY <1>3, <1>4 DEF Duplicates
<1>6. \A e : Rejected(e)' = Rejected(e)
  BY <1>5 DEF Rejected
<1>7. \A code, e : Eligible(code, e, Credits)' = Eligible(code, e, Credits)
  BY <1>1, <1>2, <1>4 DEF Eligible
<1> QED
  BY <1>2, <1>3, <1>4, <1>5, <1>6, <1>7

\* Entries that share a payment share an order, and so their payments and the earliest of
\* them.
LEMMA OneOrder ==
  ASSUME NEW e, NEW f, NEW p, p \in Candidates(e), p \in Candidates(f)
  PROVE Candidates(e) = Candidates(f) /\ Primary(e) = Primary(f)
<1>1. Candidates(e) = Candidates(f)
  BY DEF Candidates
<1> QED
  BY <1>1 DEF Primary

\* What a match does to the state.
LEMMA MatchMakes ==
  ASSUME TypeOK, Match
  PROVE \E m : /\ m.code \in MatchCodes /\ m.line \in Eligible(m.code, next, Available)
               /\ m.payment = Primary(next) /\ m.entry = next
               /\ \A better \in Before(m.code) : Eligible(better, next, Available) = {}
               /\ matches' = matches \union {m}
<1>1. PICK code \in MatchCodes :
        /\ Eligible(code, next, Available) # {}
        /\ \A better \in Before(code) : Eligible(better, next, Available) = {}
        /\ matches' = matches \union
             {[code |-> code, payment |-> Primary(next),
               line |-> Min(Eligible(code, next, Available)), entry |-> next]}
  BY DEF Match
<1>2. Min(Eligible(code, next, Available)) \in Eligible(code, next, Available)
  BY <1>1, LineChosen
<1> DEFINE m == [code |-> code, payment |-> Primary(next),
                 line |-> Min(Eligible(code, next, Available)), entry |-> next]
<1>3. /\ m.code = code /\ m.payment = Primary(next) /\ m.entry = next
      /\ m.line = Min(Eligible(code, next, Available))
  OBVIOUS
<1>4. matches' = matches \union {m}
  BY <1>1
<1> QED
  BY <1>1, <1>2, <1>3, <1>4

\* After a look at an entry it has been looked at, and nothing else has.
LEMMA LookAdvances ==
  ASSUME TypeOK, Look, Advance
  PROVE /\ next \in Looked' /\ next \notin Looked
        /\ \A e : e \in Looked' <=> e \in Looked \/ e = next
        /\ ~done' /\ ~done
<1>1. next \in Nat \ {0} /\ next' = next + 1
  BY Positions DEF Look, Advance
<1> QED
  BY <1>1 DEF Looked, Look, Advance

\* The result is returned after the last entry.
LEMMA DoneStep == TypeOK /\ DoneInv /\ [Next]_vars => DoneInv'
<1> SUFFICES ASSUME TypeOK, DoneInv, [Next]_vars PROVE DoneInv'
  OBVIOUS
<1>1. Entries' = Entries
  BY SameBatch
<1>2. CASE UNCHANGED vars
  BY <1>1, <1>2 DEF vars, DoneInv, Looked
<1>3. CASE NoPayment \/ Match \/ NoLine
  BY <1>3, LookAdvances DEF NoPayment, Match, NoLine, DoneInv
<1>4. CASE ReportRest
  <2>1. next = Len(batch.entries) + 1
    BY <1>4, Positions DEF ReportRest, TypeOK
  <2>2. Looked = Entries
    BY <2>1, Positions DEF Looked
  <2> QED
    BY <1>1, <1>4, <2>2 DEF ReportRest, DoneInv, Looked
<1> QED
  BY <1>2, <1>3, <1>4 DEF Next

\* Every match is of an entry looked at, with the earliest payment of its order.
LEMMA MatchStep == TypeOK /\ MatchInv /\ [Next]_vars => MatchInv'
<1> SUFFICES ASSUME TypeOK, MatchInv, [Next]_vars PROVE MatchInv'
  OBVIOUS
<1>1. \A e : Candidates(e)' = Candidates(e) /\ Primary(e)' = Primary(e)
  BY SameBatch
<1>2. CASE UNCHANGED vars
  BY <1>1, <1>2 DEF vars, MatchInv, Looked
<1>3. CASE NoPayment \/ NoLine
  BY <1>1, <1>3, LookAdvances DEF NoPayment, NoLine, MatchInv
<1>4. CASE Match
  <2>1. PICK m : m.payment = Primary(next) /\ m.entry = next /\ matches' = matches \union {m}
    BY <1>4, MatchMakes
  <2>2. next \in Looked' /\ Looked \subseteq Looked' /\ Candidates(next) # {}
    BY <1>4, LookAdvances DEF Match
  <2> QED
    BY <1>1, <2>1, <2>2 DEF MatchInv
<1>5. CASE ReportRest
  BY <1>1, <1>5 DEF ReportRest, MatchInv, Looked
<1> QED
  BY <1>2, <1>3, <1>4, <1>5 DEF Next

\* The duplicates of an order looked at are rejected, and the payments left unresolved are
\* the others that no match has.
LEMMA RejectStep == TypeOK /\ RejectInv /\ [Next]_vars => RejectInv'
<1> SUFFICES ASSUME TypeOK, RejectInv, [Next]_vars PROVE RejectInv'
  OBVIOUS
<1>1. /\ Payments' = Payments
      /\ \A e : Duplicates(e)' = Duplicates(e) /\ Rejected(e)' = Rejected(e)
  BY SameBatch
<1>2. CASE UNCHANGED vars
  BY <1>1, <1>2 DEF vars, RejectInv, Matched, Looked
<1>3. CASE NoPayment
  <2>1. Rejected(next) = {} /\ Duplicates(next) = {}
    BY <1>3 DEF NoPayment, Rejected, Duplicates
  <2>2. \A e : e \in Looked' <=> e \in Looked \/ e = next
    BY <1>3, LookAdvances DEF NoPayment
  <2>3. exceptions \subseteq exceptions' /\ matches' = matches /\ unresolved' = unresolved
    BY <1>3 DEF NoPayment
  <2> QED
    BY <1>1, <2>1, <2>2, <2>3 DEF RejectInv, Matched
<1>4. CASE Match
  <2>1. \A e : e \in Looked' <=> e \in Looked \/ e = next
    BY <1>4, LookAdvances DEF Match
  <2>2. PICK m : m.payment = Primary(next) /\ matches' = matches \union {m}
    BY <1>4, MatchMakes
  <2>3. \A p : Matched(p)' <=> Matched(p) \/ p = Primary(next)
    BY <2>2 DEF Matched
  <2>4. Primary(next) \in Candidates(next)
    BY <1>4, PrimaryLeads DEF Match
  <2>5. \A p : p \in Candidates(next) <=> p = Primary(next) \/ p \in Duplicates(next)
    BY <2>4 DEF Duplicates
  <2>6. /\ exceptions' = exceptions \union Rejected(next)
        /\ unresolved' = unresolved \ Candidates(next)
    BY <1>4 DEF Match
  <2>7. \A e \in Looked' : Rejected(e) \subseteq exceptions'
    BY <2>1, <2>6 DEF RejectInv
  <2>8. \A p \in Payments :
          p \in unresolved' <=> ~Matched(p)' /\ \A e \in Looked' : p \notin Duplicates(e)
    BY <2>1, <2>3, <2>5, <2>6 DEF RejectInv
  <2> QED
    BY <1>1, <2>7, <2>8 DEF RejectInv
<1>5. CASE NoLine
  <2>1. \A e : e \in Looked' <=> e \in Looked \/ e = next
    BY <1>5, LookAdvances DEF NoLine
  <2>2. /\ exceptions' = exceptions \union Rejected(next) /\ matches' = matches
        /\ unresolved' = unresolved \ Duplicates(next)
    BY <1>5 DEF NoLine
  <2> QED
    BY <1>1, <2>1, <2>2 DEF RejectInv, Matched
<1>6. CASE ReportRest
  BY <1>1, <1>6 DEF ReportRest, RejectInv, Matched, Looked
<1> QED
  BY <1>2, <1>3, <1>4, <1>5, <1>6 DEF Next

\* Until the result is returned, every exception is a rejected duplicate or an entry without
\* a payment.
LEMMA ExceptionStep == TypeOK /\ ExceptionInv /\ [Next]_vars => ExceptionInv'
<1> SUFFICES ASSUME TypeOK, ExceptionInv, [Next]_vars PROVE ExceptionInv'
  OBVIOUS
<1>1. \A e : Candidates(e)' = Candidates(e) /\ Rejected(e)' = Rejected(e)
  BY SameBatch
<1>2. CASE UNCHANGED vars
  BY <1>1, <1>2 DEF vars, ExceptionInv, Looked
<1>3. CASE NoPayment
  <2>1. next \in Looked' /\ Looked \subseteq Looked' /\ ~done
    BY <1>3, LookAdvances DEF NoPayment
  <2>2. /\ exceptions' = exceptions \union
             {[code |-> "unmatchable_no_counterpart", payment |-> 0, line |-> 0, entry |-> next]}
        /\ Candidates(next) = {}
    BY <1>3 DEF NoPayment, Exception
  <2> QED
    BY <1>1, <2>1, <2>2 DEF ExceptionInv
<1>4. CASE Match \/ NoLine
  <2>1. next \in Looked' /\ Looked \subseteq Looked' /\ ~done
    BY <1>4, LookAdvances DEF Match, NoLine
  <2>2. exceptions' = exceptions \union Rejected(next)
    BY <1>4 DEF Match, NoLine
  <2> QED
    BY <1>1, <2>1, <2>2 DEF ExceptionInv
<1>5. CASE ReportRest
  BY <1>5 DEF ReportRest, ExceptionInv
<1> QED
  BY <1>2, <1>3, <1>4, <1>5 DEF Next

\* An entry without a payment is reported when it is looked at.
LEMMA OrphanStep == TypeOK /\ OrphanInv /\ [Next]_vars => OrphanInv'
<1> SUFFICES ASSUME TypeOK, OrphanInv, [Next]_vars PROVE OrphanInv'
  OBVIOUS
<1>1. \A e : Candidates(e)' = Candidates(e)
  BY SameBatch
<1>2. exceptions \subseteq exceptions'
  BY DEF Next, NoPayment, Match, NoLine, ReportRest, vars
<1>3. CASE UNCHANGED vars \/ ReportRest
  <2>1. Looked' = Looked
    BY <1>3 DEF vars, ReportRest, Looked
  <2> QED
    BY <1>1, <1>2, <2>1 DEF OrphanInv, Reported
<1>4. CASE NoPayment
  <2>1. \A e : e \in Looked' <=> e \in Looked \/ e = next
    BY <1>4, LookAdvances DEF NoPayment
  <2>2. [code |-> "unmatchable_no_counterpart", payment |-> 0, line |-> 0, entry |-> next]
          \in exceptions'
    BY <1>4 DEF NoPayment, Exception
  <2> QED
    BY <1>1, <1>2, <2>1, <2>2 DEF OrphanInv, Reported
<1>5. CASE Match \/ NoLine
  <2>1. \A e : e \in Looked' <=> e \in Looked \/ e = next
    BY <1>5, LookAdvances DEF Match, NoLine
  <2>2. Candidates(next) # {}
    BY <1>5 DEF Match, NoLine
  <2> QED
    BY <1>1, <1>2, <2>1, <2>2 DEF OrphanInv, Reported
<1> QED
  BY <1>3, <1>4, <1>5 DEF Next

\* A line that is eligible among the credits and available is eligible among those available.
LEMMA StillEligible ==
  ASSUME NEW code, NEW e, NEW l \in Available
  PROVE l \in Eligible(code, e, Credits) => l \in Eligible(code, e, Available)
BY DEF Eligible, Available

\* The codes are tried in a fixed order.
LEMMA CodesOrdered ==
  ASSUME NEW code \in MatchCodes, NEW other \in MatchCodes
  PROVE code \in Before(other) \/ other \in Before(code) \/ code = other
BY DEF MatchCodes, Before

\* What is left available could have served no entry looked at better than it was served.
LEMMA GreedyStep == TypeOK /\ GreedyInv /\ [Next]_vars => GreedyInv'
<1> SUFFICES ASSUME TypeOK, GreedyInv, [Next]_vars PROVE GreedyInv'
  OBVIOUS
<1>1. /\ Credits' = Credits
      /\ \A e : Candidates(e)' = Candidates(e)
      /\ \A code, e : Eligible(code, e, Credits)' = Eligible(code, e, Credits)
  BY SameBatch
<1>2. matches \subseteq matches'
  BY DEF Next, NoPayment, Match, NoLine, ReportRest, vars
<1>3. Available' \subseteq Available
  BY <1>1, <1>2 DEF Available, Consumed
<1>4. SUFFICES ASSUME NEW e \in Looked', NEW code \in MatchCodes, NEW l \in Available',
                      Candidates(e) # {}, l \in Eligible(code, e, Credits)
               PROVE \E m \in matches' : m.entry = e /\ m.code \in Before(code) \union {code}
  BY <1>1 DEF GreedyInv
<1>5. CASE e \in Looked
  BY <1>2, <1>3, <1>4, <1>5 DEF GreedyInv
<1>6. CASE e \notin Looked
  <2>1. CASE UNCHANGED vars \/ ReportRest
    BY <1>6, <2>1 DEF vars, ReportRest, Looked
  <2>2. CASE NoPayment
    <3>1. e = next
      BY <1>6, <2>2, LookAdvances DEF NoPayment
    <3> QED
      BY <1>4, <2>2, <3>1 DEF NoPayment
  <2>3. CASE NoLine
    <3>1. e = next
      BY <1>6, <2>3, LookAdvances DEF NoLine
    <3> QED
      BY <1>3, <1>4, <2>3, <3>1, StillEligible DEF NoLine
  <2>4. CASE Match
    <3>1. e = next
      BY <1>6, <2>4, LookAdvances DEF Match
    <3>2. PICK m : /\ m.code \in MatchCodes /\ m.entry = next /\ matches' = matches \union {m}
                   /\ \A better \in Before(m.code) : Eligible(better, next, Available) = {}
      BY <2>4, MatchMakes
    <3>3. code \notin Before(m.code)
      BY <1>3, <1>4, <3>1, <3>2, StillEligible
    <3> QED
      BY <3>1, <3>2, <3>3, CodesOrdered
  <2> QED
    BY <2>1, <2>2, <2>3, <2>4 DEF Next
<1> QED
  BY <1>5, <1>6

\* A line or an entry already consumed is not consumed again.
LEMMA ConsumedStep ==
  TypeOK /\ MatchInv /\ ConsumedOnce /\ [Next]_vars => ConsumedOnce'
<1> SUFFICES ASSUME TypeOK, MatchInv, ConsumedOnce, [Next]_vars PROVE ConsumedOnce'
  OBVIOUS
<1>1. CASE UNCHANGED vars \/ NoPayment \/ NoLine \/ ReportRest
  BY <1>1 DEF vars, NoPayment, NoLine, ReportRest, ConsumedOnce
<1>2. CASE Match
  <2>1. PICK m : /\ m.line \in Eligible(m.code, next, Available) /\ m.entry = next
                 /\ matches' = matches \union {m}
    BY <1>2, MatchMakes
  <2>2. \A n \in matches : n.line # m.line
    BY <2>1 DEF Eligible, Available, Consumed
  <2>3. \A n \in matches : n.entry # m.entry
    BY <1>2, <2>1, LookAdvances DEF MatchInv, Match
  <2> QED
    BY <2>1, <2>2, <2>3 DEF ConsumedOnce
<1> QED
  BY <1>1, <1>2 DEF Next

\* A payment that is matched is no order's duplicate.
LEMMA MatchedIsPrimary ==
  ASSUME TypeOK, MatchInv, NEW p, Matched(p), NEW e
  PROVE p \notin Duplicates(e)
<1> SUFFICES ASSUME p \in Duplicates(e) PROVE FALSE
  OBVIOUS
<1>1. PICK m \in matches : m.payment = p
  BY DEF Matched
<1>2. Candidates(m.entry) # {} /\ p = Primary(m.entry)
  BY <1>1 DEF MatchInv
<1>3. p \in Candidates(m.entry)
  BY <1>2, PrimaryLeads
<1>4. p \in Candidates(e) /\ p # Primary(e)
  BY DEF Duplicates
<1> QED
  BY <1>2, <1>3, <1>4, OneOrder

\* What the result reports, when it is returned.
LEMMA RestReported ==
  ASSUME TypeOK, ExceptionInv, ReportRest, NEW x \in exceptions'
  PROVE \/ \E e \in Looked : x \in Rejected(e)
        \/ x.entry \in Looked /\ Candidates(x.entry) = {} /\ x.payment = 0 /\ x.line = 0
        \/ x.payment \in unresolved /\ x.line = 0 /\ x.entry = 0
        \/ x.payment = 0 /\ x.line \in Available /\ x.entry = 0
<1>1. CASE x \in exceptions
  BY <1>1 DEF ReportRest, ExceptionInv
<1>2. CASE \E p \in unresolved : x = Exception("unmatchable_no_counterpart", p, 0, 0)
  BY <1>2 DEF Exception
<1>3. CASE \E l \in Available : x = Exception("unmatchable_no_counterpart", 0, l, 0)
  BY <1>3 DEF Exception
<1> QED
  BY <1>1, <1>2, <1>3 DEF ReportRest

\* The result leaves no payment, credit or entry without a match or an exception.
LEMMA AccountedAtEnd ==
  ASSUME TypeOK, MatchInv, RejectInv, ExceptionInv, OrphanInv, ReportRest
  PROVE EverythingAccounted'
<1>1. /\ Payments' = Payments /\ Credits' = Credits /\ Entries' = Entries
      /\ \A e : Candidates(e)' = Candidates(e)
      /\ matches' = matches
  BY SameBatch DEF Next, ReportRest
<1>2. Looked = Entries
  <2>1. next = Len(batch.entries) + 1
    BY Positions DEF ReportRest, TypeOK
  <2> QED
    BY <2>1, Positions DEF Looked
<1>3. \A e : \A x \in Rejected(e) :
        x.payment \in Duplicates(e) /\ x.line = 0 /\ x.entry = e
  BY DEF Rejected, Exception
<1>4. \A e : Duplicates(e) \subseteq Payments
  BY DEF Duplicates, Candidates
<1>5. 0 \notin Payments /\ 0 \notin Credits /\ 0 \notin Entries
  BY Positions DEF Credits
<1>6. ASSUME NEW p \in Payments
      PROVE Matched(p) <=> ~ (\E x \in exceptions' : x.payment = p /\ x.line = 0
                                                     /\ x.entry \in Entries \union {0})
  <2>1. CASE Matched(p)
    <3> SUFFICES ASSUME NEW x \in exceptions', x.payment = p PROVE FALSE
      BY <2>1
    <3>1. \A e : p \notin Duplicates(e)
      BY <2>1, MatchedIsPrimary
    <3>2. p \notin unresolved
      BY <2>1 DEF RejectInv
    <3> QED
      BY <1>3, <1>5, <3>1, <3>2, RestReported
  <2>2. CASE ~Matched(p) /\ p \in unresolved
    <3>1. Exception("unmatchable_no_counterpart", p, 0, 0) \in exceptions'
      BY <2>2 DEF ReportRest
    <3> QED
      BY <2>2, <3>1 DEF Exception
  <2>3. CASE ~Matched(p) /\ p \notin unresolved
    <3>1. PICK e \in Looked : p \in Duplicates(e)
      BY <2>3 DEF RejectInv
    <3>2. Exception("duplicate_payment_rejected", p, 0, e) \in exceptions'
      BY <3>1 DEF RejectInv, Rejected, ReportRest
    <3> QED
      BY <1>2, <2>3, <3>1, <3>2 DEF Exception
  <2> QED
    BY <2>1, <2>2, <2>3
<1>7. ASSUME NEW l \in Credits
      PROVE l \in Consumed <=> ~ (\E x \in exceptions' : x.payment = 0 /\ x.line = l
                                                         /\ x.entry = 0)
  <2>1. CASE l \in Consumed
    <3>1. l \notin Available
      BY <2>1 DEF Available
    <3> QED
      BY <1>3, <1>4, <1>5, <2>1, <3>1, RestReported
  <2>2. CASE l \notin Consumed
    <3>1. Exception("unmatchable_no_counterpart", 0, l, 0) \in exceptions'
      BY <2>2 DEF ReportRest, Available
    <3> QED
      BY <2>2, <3>1 DEF Exception
  <2> QED
    BY <2>1, <2>2
<1>8. ASSUME NEW e \in Entries
      PROVE Candidates(e) = {} <=> \E x \in exceptions' : x.payment = 0 /\ x.line = 0
                                                          /\ x.entry = e
  <2>1. CASE Candidates(e) = {}
    BY <1>2, <2>1 DEF OrphanInv, Reported, ReportRest
  <2>2. ASSUME NEW x \in exceptions', x.payment = 0, x.line = 0, x.entry = e
        PROVE Candidates(e) = {}
    <3>1. \A f : x \notin Rejected(f)
      BY <1>3, <1>4, <1>5, <2>2
    <3> QED
      BY <1>5, <2>2, <3>1, RestReported
  <2> QED
    BY <2>1, <2>2
<1>9. \A p : Matched(p)' <=> Matched(p)
  BY <1>1 DEF Matched
<1>10. Consumed' = Consumed
  BY <1>1 DEF Consumed
<1> QED
  BY <1>1, <1>6, <1>7, <1>8, <1>9, <1>10 DEF EverythingAccounted, Reported

\* The result accounts for everything, in every state.
LEMMA AccountedStep ==
  IInv /\ [Next]_vars => EverythingAccounted'
<1> SUFFICES ASSUME IInv, [Next]_vars PROVE EverythingAccounted'
  OBVIOUS
<1>1. CASE ReportRest
  BY <1>1, AccountedAtEnd DEF IInv
<1>2. CASE NoPayment \/ Match \/ NoLine
  <2>1. ~done'
    BY <1>2, LookAdvances DEF IInv, NoPayment, Match, NoLine
  <2> QED
    BY <2>1 DEF EverythingAccounted
<1>3. CASE UNCHANGED vars
  <2>1. /\ Payments' = Payments /\ Credits' = Credits /\ Entries' = Entries
        /\ \A e : Candidates(e)' = Candidates(e)
    BY SameBatch
  <2>2. EverythingAccounted
    BY DEF IInv
  <2> QED
    BY <1>3, <2>1, <2>2
    DEF vars, EverythingAccounted, Matched, Reported, Consumed
<1> QED
  BY <1>1, <1>2, <1>3 DEF Next

\* A match is made with a line that fits.
LEMMA FitStep == TypeOK /\ FitInv /\ [Next]_vars => FitInv'
<1> SUFFICES ASSUME TypeOK, FitInv, [Next]_vars PROVE FitInv'
  OBVIOUS
<1>1. Credits' = Credits /\ \A code, e : Eligible(code, e, Credits)' = Eligible(code, e, Credits)
  BY SameBatch
<1>2. CASE UNCHANGED vars \/ NoPayment \/ NoLine \/ ReportRest
  BY <1>1, <1>2 DEF vars, NoPayment, NoLine, ReportRest, FitInv
<1>3. CASE Match
  <2>1. PICK m : /\ m.line \in Eligible(m.code, next, Available) /\ m.entry = next
                 /\ matches' = matches \union {m}
    BY <1>3, MatchMakes
  <2>2. m.line \in Eligible(m.code, m.entry, Credits)
    BY <2>1 DEF Eligible, Available
  <2> QED
    BY <1>1, <2>1, <2>2 DEF FitInv
<1> QED
  BY <1>2, <1>3 DEF Next

\* The result reports what the rules found and what they left.
LEMMA ReportStep == IInv /\ [Next]_vars => ReportInv'
<1> SUFFICES ASSUME IInv, [Next]_vars, done' PROVE ReportInv'
  BY DEF ReportInv
<1>1. /\ Payments' = Payments /\ Credits' = Credits
      /\ \A e : Candidates(e)' = Candidates(e) /\ Rejected(e)' = Rejected(e)
  BY SameBatch
<1>2. CASE NoPayment \/ Match \/ NoLine
  BY <1>2, LookAdvances DEF IInv, NoPayment, Match, NoLine
<1>3. CASE UNCHANGED vars
  <2>1. Looked' = Looked /\ Available' = Available /\ done /\ exceptions' = exceptions
    BY <1>1, <1>3 DEF vars, Looked, Available, Consumed
  <2>2. \A p : Matched(p)' <=> Matched(p)
    BY <1>3 DEF vars, Matched
  <2> QED
    BY <1>1, <2>1, <2>2 DEF IInv, ReportInv
<1>4. CASE ReportRest
  <2>1. Looked' = Looked /\ Available' = Available /\ matches' = matches
    BY <1>1, <1>4 DEF ReportRest, Looked, Available, Consumed
  <2>2. \A p : Matched(p)' <=> Matched(p)
    BY <2>1 DEF Matched
  <2>3. \A p \in unresolved : p \in Payments /\ ~Matched(p)
    BY DEF IInv, TypeOK, RejectInv
  <2> SUFFICES ASSUME NEW x \in exceptions'
               PROVE \/ \E e \in Looked : x \in Rejected(e)
                     \/ x.entry \in Looked /\ Candidates(x.entry) = {}
                     \/ x.payment \in Payments /\ ~Matched(x.payment)
                     \/ x.line \in Available
    BY <1>1, <2>1, <2>2 DEF ReportInv
  <2> QED
    BY <1>4, <2>3, RestReported DEF IInv
<1> QED
  BY <1>2, <1>3, <1>4 DEF Next

----------------------------------------------------------------------------
(* What holds of every run, for every batch. *)

\* Every step keeps the invariant.
LEMMA StepInv == IInv /\ [Next]_vars => IInv'
<1> SUFFICES ASSUME IInv, [Next]_vars PROVE IInv'
  OBVIOUS
<1>1. TypeOK' /\ DoneInv' /\ MatchInv' /\ RejectInv'
  BY TypeStep, DoneStep, MatchStep, RejectStep DEF IInv
<1>2. ExceptionInv' /\ OrphanInv' /\ GreedyInv' /\ ConsumedOnce'
  BY ExceptionStep, OrphanStep, GreedyStep, ConsumedStep DEF IInv
<1>3. EverythingAccounted' /\ FitInv' /\ ReportInv'
  BY AccountedStep, FitStep, ReportStep DEF IInv
<1> QED
  BY <1>1, <1>2, <1>3 DEF IInv

\* The invariant above is inductive: every property of the matcher follows from it.
THEOREM InductiveInvariant == Spec => []IInv
BY InitInv, StepInv, PTL DEF Spec

\* match_batch returns matches and exceptions over the records of the batch it was given.
THEOREM TypeCorrect == Spec => []TypeOK
<1>1. IInv => TypeOK
  BY DEF IInv
<1> QED
  BY <1>1, InductiveInvariant, PTL

\* Each bank line and each ledger entry is consumed by at most one match
\* (consumed_bank_line_ids, matching.py 180 to 206).
THEOREM LinesAndEntriesConsumedOnce == Spec => []ConsumedOnce
<1>1. IInv => ConsumedOnce
  BY DEF IInv
<1> QED
  BY <1>1, InductiveInvariant, PTL

\* When match_batch returns, every payment and every credit is either matched or reported and
\* never both, and every entry without a payment is reported (FR-2.6).
THEOREM NothingSilent == Spec => []EverythingAccounted
<1>1. IInv => EverythingAccounted
  BY DEF IInv
<1> QED
  BY <1>1, InductiveInvariant, PTL

\* Of the payments of one order only the earliest is matched, whichever entries name that
\* order, and the others are rejected as its duplicates (FR-2.5).
THEOREM DuplicatesRejected == Spec => []LaterPaymentsRejected
<1>1. IInv => LaterPaymentsRejected
  <2> SUFFICES ASSUME IInv, NEW m \in matches, NEW p \in Payments \ {m.payment},
                      batch.payments[p].order = batch.payments[m.payment].order
               PROVE /\ batch.payments[m.payment].at <= batch.payments[p].at
                     /\ ~Matched(p)
                     /\ Exception("duplicate_payment_rejected", p, 0, m.entry) \in exceptions
    BY DEF LaterPaymentsRejected
  <2>1. m.entry \in Looked /\ Candidates(m.entry) # {} /\ m.payment = Primary(m.entry)
    BY DEF IInv, MatchInv
  <2>2. /\ m.payment \in Candidates(m.entry)
        /\ \A q \in Candidates(m.entry) : Leads(m.payment, q)
    BY <2>1, PrimaryLeads DEF IInv
  <2>3. p \in Candidates(m.entry)
    BY <2>2 DEF Candidates
  <2>4. p \in Duplicates(m.entry)
    BY <2>1, <2>3 DEF Duplicates
  <2>5. batch.payments[m.payment].at <= batch.payments[p].at
    <3>1. batch.payments[m.payment].at \in Nat /\ batch.payments[p].at \in Nat
      BY <2>2, Positions DEF Candidates, IInv
    <3> QED
      BY <2>2, <2>3, <3>1 DEF Leads
  <2>6. ~Matched(p)
    BY <2>4, MatchedIsPrimary DEF IInv
  <2>7. Exception("duplicate_payment_rejected", p, 0, m.entry) \in exceptions
    BY <2>1, <2>4 DEF IInv, RejectInv, Rejected
  <2> QED
    BY <2>5, <2>6, <2>7
<1> QED
  BY <1>1, InductiveInvariant, PTL

\* A credit left unclaimed could have settled no entry under the code it was matched under or
\* an earlier one (the priority order of _find_single_payment_match).
THEOREM GreedyIsEnough == Spec => []NoBetterLineLeft
<1>1. IInv => NoBetterLineLeft
  BY DEF IInv, DoneInv, GreedyInv, NoBetterLineLeft
<1> QED
  BY <1>1, InductiveInvariant, PTL

----------------------------------------------------------------------------
(* The labelled scenarios: the arithmetic of their builders. *)

\* Rounding half a paisa up.
LEMMA RoundedIs ==
  ASSUME NEW n \in Nat, NEW d \in Nat \ {0}
  PROVE /\ Rounded(n, d) \in Nat
        /\ 2 * d * Rounded(n, d) <= 2 * n + d
        /\ 2 * n + d < 2 * d * Rounded(n, d) + 2 * d
<1> DEFINE a == 2 * n + d
           b == 2 * d
<1>1. a \in Nat /\ b \in Nat \ {0}
  OBVIOUS
<1> HIDE DEF a, b
<1>2. /\ a \div b \in Nat /\ b * (a \div b) <= a /\ a < b * (a \div b) + b
  BY <1>1
<1> QED
  BY <1>2 DEF Rounded, a, b

\* A rate of an amount is one ten-thousandth of their product, to the nearest paisa.
LEMMA RateIs ==
  ASSUME NEW amount \in Nat, NEW rate \in Nat
  PROVE /\ ApplyRate(amount, rate) \in Nat
        /\ 20000 * ApplyRate(amount, rate) <= 2 * (amount * rate) + 10000
        /\ 2 * (amount * rate) + 10000 < 20000 * ApplyRate(amount, rate) + 20000
<1>1. amount * rate \in Nat
  OBVIOUS
<1> QED
  BY <1>1, RoundedIs DEF ApplyRate

\* What is deducted from any amount drawn is more than rules tolerate.
LEMMA DeductionShows ==
  ASSUME NEW amount \in Nat, amount >= 9900, NEW rate \in Nat, rate >= 150
  PROVE ApplyRate(amount, rate) \in Nat /\ ApplyRate(amount, rate) > 100
<1> DEFINE product == amount * rate
<1>1. product \in Nat /\ product >= 1485000
  <2>1. amount * rate >= 9900 * rate /\ amount * rate \in Nat
    OBVIOUS
  <2> QED
    BY <2>1
<1>2. ApplyRate(amount, rate) \in Nat /\ 2 * product + 10000 < 20000 * ApplyRate(amount, rate) + 20000
  BY RateIs
<1> HIDE DEF product
<1> QED
  BY <1>1, <1>2

\* And so is what an amount received is grossed up by.
LEMMA GrossUpShows ==
  ASSUME NEW net \in Nat, net >= 9900, NEW rate \in TdsRates
  PROVE /\ rate \in Nat /\ rate >= 150 /\ rate <= 2000
        /\ Rounded(net * rate, 10000 - rate) \in Nat
        /\ Rounded(net * rate, 10000 - rate) > 100
<1>1. rate \in Nat /\ rate >= 150 /\ rate <= 2000
  BY DatasetAssumption DEF RoundRates
<1> DEFINE d == 10000 - rate
           product == net * rate
           q == Rounded(product, d)
<1>2. d \in Nat \ {0} /\ d <= 9850 /\ product \in Nat /\ product >= 1485000
  <2>1. net * rate >= 9900 * rate /\ net * rate \in Nat
    BY <1>1
  <2> QED
    BY <1>1, <2>1
<1> HIDE DEF d, product
<1>3. q \in Nat /\ 2 * product + d < 2 * d * q + 2 * d
  BY <1>2, RoundedIs
<1> HIDE DEF q
<1>4. q > 100
  <2> SUFFICES ASSUME q <= 100 PROVE FALSE
    BY <1>3
  <2>1. d * q <= d * 100 /\ d * q \in Int /\ 2 * d * q = 2 * (d * q)
    BY <1>2, <1>3
  <2> QED
    BY <1>2, <1>3, <2>1
<1> QED
  BY <1>1, <1>3, <1>4 DEF q, d, product

\* An advance is never taken for less than it is.
LEMMA AdvanceShows ==
  ASSUME NEW advance \in Advances, NEW invoice \in Int
  PROVE AdvanceClear(advance, invoice) \in Nat /\ AdvanceClear(advance, invoice) > 100
<1> DEFINE Stepped(i) == advance + 500 * i
           Below == {i \in 0..39 : \A j \in 0..i : Stepped(j) < invoice}
           Clear == {i \in Below : ClearOfRound(Stepped(i), invoice)}
<1>1. AdvanceClear(advance, invoice) = IF Clear = {} THEN advance ELSE Stepped(Min(Clear))
  BY DEF AdvanceClear
<1>2. advance \in Nat /\ advance >= 25000
  BY DatasetAssumption
<1>3. Clear \subseteq Nat
  OBVIOUS
<1> HIDE DEF Clear
<1>4. CASE Clear # {}
  <2>1. Min(Clear) \in Nat
    BY <1>3, <1>4, LeastNatural DEF Min
  <2> QED
    BY <1>1, <1>2, <1>4, <2>1
<1> QED
  BY <1>1, <1>2, <1>4

----------------------------------------------------------------------------
(* The labelled scenarios: what their builders put into them. *)

\* A batch of records has records in it.
LEMMA RecordsOf ==
  ASSUME NEW b \in Batches
  PROVE /\ \A i \in DOMAIN b.payments : b.payments[i] \in Payment
        /\ \A i \in DOMAIN b.lines : b.lines[i] \in BankLine
        /\ \A i \in DOMAIN b.entries : b.entries[i] \in LedgerEntry
<1>1. /\ b.payments \in Seq(Payment) /\ b.lines \in Seq(BankLine)
      /\ b.entries \in Seq(LedgerEntry)
  BY MatchingAssumption
<1> QED
  BY <1>1

\* One payment for an invoice, which has arrived.
IsPaid(s, p, invoice) ==
  /\ s.batch.payments = <<p>>
  /\ s.batch.entries = <<Open(p.order, invoice)>>
  /\ \E lag \in Lags : s.batch.lines = <<Landed(p, lag)>>
  /\ p \in Payment /\ invoice \in Int

LEMMA PaidIs ==
  ASSUME NEW kind, NEW gold, NEW p, NEW invoice, NEW s \in Paid(kind, gold, p, invoice),
         s.batch \in Batches
  PROVE s.kind = kind /\ s.gold = gold /\ IsPaid(s, p, invoice)
<1>1. PICK lag \in Lags :
        s = Scenario(kind, gold, <<p>>, <<Landed(p, lag)>>, <<Open(p.order, invoice)>>)
  BY DEF Paid, Settles
<1>2. /\ s.kind = kind /\ s.gold = gold
      /\ s.batch.payments = <<p>> /\ s.batch.lines = <<Landed(p, lag)>>
      /\ s.batch.entries = <<Open(p.order, invoice)>>
  BY <1>1 DEF Scenario
<1>3. s.batch.payments[1] \in Payment /\ s.batch.entries[1] \in LedgerEntry
  BY <1>2, RecordsOf
<1>4. p \in Payment /\ Open(p.order, invoice) \in LedgerEntry
  BY <1>2, <1>3
<1>5. invoice \in Int
  BY <1>4 DEF Open, LedgerEntry
<1> QED
  BY <1>2, <1>4, <1>5 DEF IsPaid

\* What is drawn is as much as was asked for.
LEMMA DrawnIs ==
  ASSUME NEW order, NEW amounts, NEW p \in Drawn(order, amounts)
  PROVE p.order = order /\ p.amount \in amounts /\ p = Synthetic(order, p.amount, p.at)
        /\ p.at \in Times
BY DEF Drawn, Synthetic

\* A deduction is a rate of the invoice.
LEMMA DeductedIs ==
  ASSUME NEW kind, NEW gold, NEW invoice, NEW rate, NEW s \in Deducted(kind, gold, invoice, rate),
         s.batch \in Batches
  PROVE /\ s.kind = kind /\ s.gold = gold
        /\ \E p \in Payment : IsPaid(s, p, invoice) /\ p.amount = NetOfTds(invoice, rate)
<1>1. PICK p \in Drawn(1, {NetOfTds(invoice, rate)}) : s \in Paid(kind, gold, p, invoice)
  BY DEF Deducted
<1>2. p.amount = NetOfTds(invoice, rate)
  BY <1>1, DrawnIs
<1>3. s.kind = kind /\ s.gold = gold /\ IsPaid(s, p, invoice)
  BY <1>1, PaidIs
<1> QED
  BY <1>2, <1>3 DEF IsPaid

\* A withholding is one of the invoice, or the invoice the payment grossed up by it.
LEMMA TdsIs ==
  ASSUME NEW s \in TdsShortPayment, s.batch \in Batches
  PROVE /\ s.kind = "tds_short_payment" /\ s.gold = "tds_short_payment"
        /\ \E p \in Payment, invoice \in Int, rate \in TdsRates :
             /\ IsPaid(s, p, invoice)
             /\ \/ invoice \in Amounts /\ p.amount = NetOfTds(invoice, rate)
                \/ p.amount >= 9900 /\ invoice = GrossBeforeTds(p.amount, rate)
<1>1. CASE s \in WithheldFromDrawn
  <2>1. PICK invoice \in Amounts, rate \in TdsRates :
             s \in Deducted("tds_short_payment", "tds_short_payment", invoice, rate)
    BY <1>1 DEF WithheldFromDrawn
  <2>2. /\ s.kind = "tds_short_payment" /\ s.gold = "tds_short_payment"
        /\ \E p \in Payment : IsPaid(s, p, invoice) /\ p.amount = NetOfTds(invoice, rate)
    BY <2>1, DeductedIs
  <2>3. PICK p \in Payment : IsPaid(s, p, invoice) /\ p.amount = NetOfTds(invoice, rate)
    BY <2>2
  <2>4. invoice \in Int
    BY <2>3 DEF IsPaid
  <2> QED
    BY <2>2, <2>3, <2>4
<1>2. CASE s \in GrossedUp
  <2>1. PICK p \in Real["tds_short_payment"], rate \in TdsRates :
             s \in Paid("tds_short_payment", "tds_short_payment", p, GrossBeforeTds(p.amount, rate))
    BY <1>2 DEF GrossedUp
  <2>2. /\ s.kind = "tds_short_payment" /\ s.gold = "tds_short_payment"
        /\ IsPaid(s, p, GrossBeforeTds(p.amount, rate))
    BY <2>1, PaidIs
  <2>3. p \in Payment /\ GrossBeforeTds(p.amount, rate) \in Int
    BY <2>2 DEF IsPaid
  <2>4. p.amount >= 9900
    BY <2>1, DatasetAssumption
  <2> QED
    BY <2>2, <2>3, <2>4
<1> QED
  BY <1>1, <1>2 DEF TdsShortPayment

\* A rebate is a rate of the invoice.
LEMMA RebateIs ==
  ASSUME NEW s \in NegotiatedRebate, s.batch \in Batches
  PROVE /\ s.kind = "negotiated_rebate" /\ s.gold = "negotiated_rebate"
        /\ \E p \in Payment, invoice \in Amounts, rate \in RebateRates :
             IsPaid(s, p, invoice) /\ p.amount = NetOfTds(invoice, rate)
<1>1. PICK invoice \in Amounts, rate \in RebateRates :
           s \in Deducted("negotiated_rebate", "negotiated_rebate", invoice, rate)
  BY DEF NegotiatedRebate
<1> QED
  BY <1>1, DeductedIs

\* An advance is one of the customer's, moved clear of every round rate of the invoice.
LEMMA AdvanceIs ==
  ASSUME NEW s \in AdvanceAdjusted, s.batch \in Batches
  PROVE /\ s.kind = "advance_adjusted" /\ s.gold = "advance_adjusted"
        /\ \E p \in Payment, invoice \in Nat, advance \in Advances :
             /\ IsPaid(s, p, invoice) /\ 209900 <= invoice /\ invoice <= 699900
             /\ p.amount = invoice - AdvanceClear(advance, invoice)
<1>1. PICK amount \in Amounts, advance \in Advances : s \in NetOfAdvance(amount + 200000, advance)
  BY DEF AdvanceAdjusted
<1> DEFINE invoice == amount + 200000
<1>2. invoice \in Nat /\ 209900 <= invoice /\ invoice <= 699900
  BY DatasetAssumption
<1>3. s \in NetOfAdvance(invoice, advance)
  BY <1>1
<1> HIDE DEF invoice
<1>4. PICK p \in Drawn(1, {invoice - AdvanceClear(advance, invoice)}) :
          s \in Paid("advance_adjusted", "advance_adjusted", p, invoice)
  BY <1>3 DEF NetOfAdvance
<1>5. p.amount = invoice - AdvanceClear(advance, invoice)
  BY <1>4, DrawnIs
<1>6. /\ s.kind = "advance_adjusted" /\ s.gold = "advance_adjusted"
      /\ IsPaid(s, p, invoice)
  BY <1>4, PaidIs
<1> QED
  BY <1>2, <1>5, <1>6 DEF IsPaid

\* Whatever falls short does so by more than rules tolerate.
LEMMA ShortShows ==
  ASSUME NEW s \in TdsShortPayment \union NegotiatedRebate \union AdvanceAdjusted,
         s.batch \in Batches
  PROVE \E p \in Payment, invoice \in Int : IsPaid(s, p, invoice) /\ invoice - p.amount > 100
<1>1. CASE s \in TdsShortPayment
  <2>1. PICK p \in Payment, invoice \in Int, rate \in TdsRates :
             /\ IsPaid(s, p, invoice)
             /\ \/ invoice \in Amounts /\ p.amount = NetOfTds(invoice, rate)
                \/ p.amount >= 9900 /\ invoice = GrossBeforeTds(p.amount, rate)
    BY <1>1, TdsIs
  <2>2. p.amount \in Int
    BY DEF Payment
  <2>3. CASE invoice \in Amounts /\ p.amount = NetOfTds(invoice, rate)
    <3>1. invoice \in Nat /\ invoice >= 9900 /\ rate \in Nat /\ rate >= 150
      BY <2>3, DatasetAssumption DEF RoundRates
    <3>2. ApplyRate(invoice, rate) \in Nat /\ ApplyRate(invoice, rate) > 100
      BY ONLY <3>1, DeductionShows
    <3>3. invoice - p.amount > 100
      BY <2>3, <3>1, <3>2 DEF NetOfTds
    <3> QED
      BY <2>1, <3>3
  <2>4. CASE p.amount >= 9900 /\ invoice = GrossBeforeTds(p.amount, rate)
    <3>1. p.amount \in Nat
      BY <2>2, <2>4
    <3>2. /\ Rounded(p.amount * rate, 10000 - rate) \in Nat
          /\ Rounded(p.amount * rate, 10000 - rate) > 100
      BY <2>4, <3>1, GrossUpShows
    <3>3. invoice - p.amount > 100
      BY <2>4, <3>1, <3>2 DEF GrossBeforeTds
    <3> QED
      BY <2>1, <3>3
  <2> QED
    BY <2>1, <2>3, <2>4
<1>2. CASE s \in NegotiatedRebate
  <2>1. PICK p \in Payment, invoice \in Amounts, rate \in RebateRates :
             IsPaid(s, p, invoice) /\ p.amount = NetOfTds(invoice, rate)
    BY <1>2, RebateIs
  <2>2. invoice \in Nat /\ invoice >= 9900 /\ rate \in Nat /\ rate >= 150
    BY DatasetAssumption
  <2>3. ApplyRate(invoice, rate) \in Nat /\ ApplyRate(invoice, rate) > 100
    BY ONLY <2>2, DeductionShows
  <2>4. invoice - p.amount > 100 /\ invoice \in Int
    BY <2>1, <2>2, <2>3 DEF NetOfTds
  <2> QED
    BY <2>1, <2>4
<1>3. CASE s \in AdvanceAdjusted
  <2>1. PICK p \in Payment, invoice \in Nat, advance \in Advances :
             /\ IsPaid(s, p, invoice)
             /\ p.amount = invoice - AdvanceClear(advance, invoice)
    BY <1>3, AdvanceIs
  <2>2. AdvanceClear(advance, invoice) \in Nat /\ AdvanceClear(advance, invoice) > 100
    BY AdvanceShows
  <2>3. invoice - p.amount > 100
    BY <2>1, <2>2
  <2> QED
    BY <2>1, <2>3
<1> QED
  BY <1>1, <1>2, <1>3

----------------------------------------------------------------------------
(* The labelled scenarios: what rules make of them. *)

LabelInv == Labelled => scenario \in Scenarios /\ batch = scenario.batch

\* The baseline is the matcher on the batches it may be called with, each with its scenario.
LEMMA RunnerInductive == RunnerSpec => [](IInv /\ LabelInv)
<1>1. RunnerInit => IInv /\ LabelInv
  BY InitInv DEF RunnerInit, LabelInv, Labelled
<1>2. IInv /\ LabelInv /\ [RunnerNext]_runnerVars => (IInv /\ LabelInv)'
  <2> SUFFICES ASSUME IInv, LabelInv, [RunnerNext]_runnerVars PROVE IInv' /\ LabelInv'
    OBVIOUS
  <2>1. [Next]_vars /\ scenario' = scenario
    BY DEF RunnerNext, runnerVars
  <2>2. batch' = batch
    BY <2>1 DEF Next, NoPayment, Match, NoLine, ReportRest, Advance, vars
  <2>3. IInv'
    BY <2>1, StepInv
  <2> QED
    BY <2>1, <2>2, <2>3 DEF LabelInv, Labelled
<1> QED
  BY <1>1, <1>2, PTL DEF RunnerSpec

\* What is matched agrees with its line and its entry to within the tolerance.
LEMMA MatchedIsNear ==
  ASSUME IInv, NEW m \in matches
  PROVE /\ m.payment \in Payments /\ m.line \in Lines /\ m.entry \in Entries
        /\ Near(batch.lines[m.line].amount, Net(batch.payments[m.payment]), Tolerance)
        /\ Near(batch.entries[m.entry].expected, batch.payments[m.payment].amount, Tolerance)
<1>1. /\ m.payment \in Payments /\ m.line \in Lines /\ m.entry \in Entries
      /\ m.code \in MatchCodes
  BY DEF IInv, TypeOK, Credits
<1> DEFINE p == batch.payments[m.payment]
           l == batch.lines[m.line]
           e == batch.entries[m.entry]
<1>2. Fits(m.code, p, l, e)
  <2>1. m.line \in Eligible(m.code, m.entry, Credits) /\ m.payment = Primary(m.entry)
    BY DEF IInv, FitInv, MatchInv
  <2> QED
    BY <2>1 DEF Eligible
<1>3. p.amount \in Int /\ p.fees \in Int /\ l.amount \in Int /\ e.expected \in Int
  <2>1. p \in Payment /\ l \in BankLine /\ e \in LedgerEntry
    BY <1>1, RecordsOf DEF IInv, TypeOK, Payments, Lines, Entries
  <2> HIDE DEF p, l, e
  <2> QED
    BY <2>1 DEF Payment, BankLine, LedgerEntry
<1> HIDE DEF p, l, e
<1>4. Near(l.amount, Net(p), Tolerance) /\ Near(e.expected, p.amount, Tolerance)
  <2>1. Exact(p, l, e) \/ Tolerable(p, l, e)
    BY <1>1, <1>2 DEF Fits, MatchCodes
  <2> QED
    BY <1>3, <2>1, MatchingAssumption DEF Exact, Tolerable, Near, Net
<1> QED
  BY <1>1, <1>4 DEF p, l, e

\* A payment that rules settle alone has a line and an entry near it.
LEMMA SoleSettled ==
  ASSUME IInv, ResolvedByRules, NEW p, batch.payments = <<p>>
  PROVE \E l \in Lines, e \in Entries :
          /\ Near(batch.lines[l].amount, Net(p), Tolerance)
          /\ Near(batch.entries[e].expected, p.amount, Tolerance)
<1>1. Payments = {1} /\ batch.payments[1] = p
  BY DEF Payments
<1>2. PICK m \in matches : m.payment = 1
  BY <1>1 DEF ResolvedByRules
<1> QED
  BY <1>1, <1>2, MatchedIsNear

\* One line settles one payment.
LEMMA OneLineOnePayment ==
  ASSUME IInv, ResolvedByRules, NEW line, batch.lines = <<line>>,
         NEW p \in Payments, NEW q \in Payments
  PROVE p = q
<1>1. Lines = {1}
  BY DEF Lines
<1>2. PICK m \in matches : m.payment = p
  BY DEF ResolvedByRules
<1>3. PICK n \in matches : n.payment = q
  BY DEF ResolvedByRules
<1>4. m.line = n.line
  BY <1>1, MatchedIsNear
<1> QED
  BY <1>2, <1>3, <1>4 DEF IInv, ConsumedOnce

\* What arrived in time, to within the tolerance of its entry, rules resolve.
LEMMA ArrivedIsResolved ==
  ASSUME IInv, done, NEW p \in Payment, NEW lag \in Lags, NEW expected \in Int,
         Near(expected, p.amount, Tolerance),
         batch.payments = <<p>>, batch.lines = <<Landed(p, lag)>>,
         batch.entries = <<Open(p.order, expected)>>
  PROVE ResolvedByRules
<1>1. /\ Payments = {1} /\ Lines = {1} /\ Entries = {1}
      /\ batch.payments[1] = p /\ batch.lines[1] = Landed(p, lag)
      /\ batch.entries[1] = Open(p.order, expected)
  BY DEF Payments, Lines, Entries
<1>2. Credits = {1}
  BY <1>1 DEF Credits, Landed, Credit
<1>3. Candidates(1) = {1}
  BY <1>1 DEF Candidates, Open
<1>4. Primary(1) = 1 /\ Duplicates(1) = {}
  BY <1>3, PrimaryLeads DEF IInv, Duplicates
<1>5. 1 \in Eligible("tolerance_rounding", 1, Credits)
  <2>1. p.amount \in Int /\ p.fees \in Int /\ p.at \in Nat
    BY DEF Payment
  <2>2. /\ Landed(p, lag).credit /\ Landed(p, lag).amount = Net(p)
        /\ Landed(p, lag).at = p.at \div 24 + lag
        /\ Open(p.order, expected).order = p.order
        /\ Open(p.order, expected).expected = expected
    BY DEF Landed, Credit, Open
  <2>3. Near(Landed(p, lag).amount, Net(p), Tolerance)
    BY <2>1, <2>2, MatchingAssumption DEF Near, Net
  <2>4. Within(Narrow, p, Landed(p, lag))
    <3>1. p.at \div 24 \in Int
      BY <2>1
    <3>2. (p.at \div 24 + lag) - p.at \div 24 = lag /\ p.at \div 24 - (p.at \div 24 + lag) = -lag
      BY <3>1 DEF Lags
    <3>3. lag <= Narrow /\ -lag <= Narrow
      BY DatasetAssumption, MatchingAssumption DEF Lags
    <3> QED
      BY <2>2, <3>2, <3>3 DEF Within, Near
  <2>5. Fits("tolerance_rounding", p, Landed(p, lag), Open(p.order, expected))
    BY <2>2, <2>3, <2>4 DEF Fits, Tolerable
  <2> QED
    BY <1>1, <1>2, <1>4, <2>5 DEF Eligible
<1>6. Looked = {1}
  BY <1>1 DEF IInv, DoneInv
<1>7. \A m \in matches : m.payment = 1 /\ m.line = 1
  BY <1>1, MatchedIsNear
<1>8. matches # {}
  <2> SUFFICES ASSUME matches = {} PROVE FALSE
    OBVIOUS
  <2>1. 1 \in Available
    BY <1>2 DEF Available, Consumed
  <2>2. "tolerance_rounding" \in MatchCodes
    BY DEF MatchCodes
  <2> QED
    BY <1>3, <1>5, <1>6, <2>1, <2>2 DEF IInv, GreedyInv
<1>9. Matched(1) /\ Available = {}
  BY <1>2, <1>7, <1>8 DEF Matched, Available, Consumed
<1>10. exceptions = {}
  <2> SUFFICES ASSUME NEW x \in exceptions PROVE FALSE
    OBVIOUS
  <2>1. Rejected(1) = {}
    BY <1>4 DEF Rejected
  <2> QED
    BY <1>1, <1>3, <1>6, <1>9, <2>1 DEF IInv, ReportInv
<1>11. {m.payment : m \in matches} = {1}
  BY <1>7, <1>8
<1> QED
  BY <1>1, <1>10, <1>11 DEF ResolvedByRules

\* What is clean, or off by a rounding, has arrived.
LEMMA ArrivedIs ==
  ASSUME NEW s \in CleanMatch \union RoundingDelta, s.batch \in Batches
  PROVE /\ ~IsException(s)
        /\ \E p \in Payment, expected \in Int :
             IsPaid(s, p, expected) /\ Near(expected, p.amount, Tolerance)
<1>1. CASE s \in CleanMatch
  <2>1. PICK p \in PaymentsOf("clean_match") : s \in Paid("clean_match", "exact_match", p, p.amount)
    BY <1>1 DEF CleanMatch
  <2>2. s.kind = "clean_match" /\ IsPaid(s, p, p.amount)
    BY <2>1, PaidIs
  <2>3. Near(p.amount, p.amount, Tolerance)
    BY <2>2, MatchingAssumption DEF IsPaid, Near
  <2> QED
    BY <2>2, <2>3 DEF IsException, IsPaid
<1>2. CASE s \in RoundingDelta
  <2>1. PICK p \in PaymentsOf("rounding_delta"), delta \in RoundingDeltas :
          s \in Paid("rounding_delta", "tolerance_rounding", p, p.amount + delta)
    BY <1>2 DEF RoundingDelta
  <2>2. s.kind = "rounding_delta" /\ IsPaid(s, p, p.amount + delta)
    BY <2>1, PaidIs
  <2>3. Near(p.amount + delta, p.amount, Tolerance)
    <3>1. p.amount \in Int
      BY <2>2 DEF IsPaid, Payment
    <3>2. delta \in -Tolerance..Tolerance /\ Tolerance \in Nat
      BY DatasetAssumption, MatchingAssumption
    <3> QED
      BY <3>1, <3>2 DEF Near
  <2> QED
    BY <2>2, <2>3 DEF IsException, IsPaid
<1> QED
  BY <1>1, <1>2

\* One credit for several payments leaves all but one of them.
LEMMA SeveralResist ==
  ASSUME IInv, NEW s \in NettedSettlement \union DuplicatePayment, batch = s.batch
  PROVE IsException(s) /\ ~ResolvedByRules
<1>1. /\ IsException(s) /\ 1 \in DOMAIN s.batch.payments /\ 2 \in DOMAIN s.batch.payments
      /\ \E line : s.batch.lines = <<line>>
  <2>1. CASE s \in NettedSettlement
    <3>1. PICK group \in Groups : s \in Netted(group)
      BY <2>1 DEF NettedSettlement
    <3>2. \E line, entries :
             s = Scenario("netted_settlement", "netted_settlement", group, <<line>>, entries)
      BY <3>1 DEF Netted
    <3>3. 1 \in DOMAIN group /\ 2 \in DOMAIN group
      BY DEF Groups
    <3> QED
      BY <3>2, <3>3 DEF Scenario, IsException
  <2>2. CASE s \in DuplicatePayment
    <3>1. PICK p \in Drawn(1, Amounts), late \in {0, 1} : s \in Repeated(p, late)
      BY <2>2 DEF DuplicatePayment
    <3>2. PICK lag \in Lags :
             s = Scenario("duplicate_payment", "duplicate_payment_rejected",
                          <<p, [p EXCEPT !.at = @ + late]>>, <<Landed(p, lag)>>,
                          <<Open(p.order, p.amount)>>)
      BY <3>1 DEF Repeated, Settles
    <3> QED
      BY <3>2 DEF Scenario, IsException
  <2> QED
    BY <2>1, <2>2
<1>2. 1 \in Payments /\ 2 \in Payments
  BY <1>1 DEF Payments
<1>3. PICK line : batch.lines = <<line>>
  BY <1>1
<1>4. ResolvedByRules => 1 = 2
  BY <1>2, <1>3, OneLineOnePayment
<1> QED
  BY <1>1, <1>4

\* An invoice no payment came for is reported.
LEMMA BypassResists ==
  ASSUME IInv, done, NEW s \in DirectNeftBypass, batch = s.batch
  PROVE IsException(s) /\ ~ResolvedByRules
<1>1. PICK amount \in Amounts, at \in Times : s = Bypass(amount, at \div 24)
  BY DEF DirectNeftBypass
<1>2. IsException(s) /\ s.batch.payments = <<>> /\ \E entry : s.batch.entries = <<entry>>
  BY <1>1 DEF Bypass, Scenario, IsException
<1>3. 1 \in Entries /\ Candidates(1) = {}
  BY <1>2 DEF Entries, Candidates, Payments
<1>4. Reported({0}, {0}, {1})
  BY <1>3 DEF IInv, EverythingAccounted
<1> QED
  BY <1>2, <1>4 DEF Reported, ResolvedByRules

\* A payment that never arrived is not matched.
LEMMA UnmatchableResists ==
  ASSUME IInv, NEW s \in Unmatchable, batch = s.batch
  PROVE IsException(s) /\ ~ResolvedByRules
<1>1. \E p : s = Scenario("unmatchable", "unmatchable_no_counterpart", <<p>>, <<>>, <<>>)
  BY DEF Unmatchable
<1>2. IsException(s) /\ s.batch.lines = <<>> /\ \E p : s.batch.payments = <<p>>
  BY <1>1 DEF Scenario, IsException
<1>3. Lines = {}
  BY <1>2 DEF Lines
<1> QED
  BY <1>2, <1>3, SoleSettled

\* What falls short does so by more than the tolerance.
LEMMA ShortResists ==
  ASSUME IInv, NEW s \in TdsShortPayment \union NegotiatedRebate \union AdvanceAdjusted,
         batch = s.batch
  PROVE IsException(s) /\ ~ResolvedByRules
<1>1. s.batch \in Batches
  BY DEF IInv, TypeOK
<1>2. IsException(s)
  BY <1>1, TdsIs, RebateIs, AdvanceIs DEF IsException
<1>3. PICK p \in Payment, invoice \in Int : IsPaid(s, p, invoice) /\ invoice - p.amount > 100
  BY <1>1, ShortShows
<1>4. batch.payments = <<p>> /\ batch.entries = <<Open(p.order, invoice)>>
  BY <1>3 DEF IsPaid
<1>5. ~Near(invoice, p.amount, Tolerance)
  <2>1. p.amount \in Int /\ Tolerance \in Nat /\ Tolerance <= 100
    BY MatchingAssumption, DatasetAssumption DEF Payment
  <2> QED
    BY <1>3, <2>1 DEF Near
<1>6. \A e \in Entries : batch.entries[e].expected = invoice
  BY <1>4 DEF Entries, Open
<1> QED
  BY <1>2, <1>4, <1>5, <1>6, SoleSettled

\* Neither share of a split is near the whole.
LEMMA SplitResists ==
  ASSUME IInv, NEW s \in SplitPayment, batch = s.batch
  PROVE IsException(s) /\ ~ResolvedByRules
<1>1. PICK a \in Amounts, b \in Amounts : s \in Shared(a, b)
  BY DEF SplitPayment
<1>2. PICK p \in Drawn(1, {a + b}) :
        s \in Settles("split_payment", "split_payment", p, <<p>>,
                       <<Open(p.order, a), Open(p.order, b)>>)
  BY <1>1 DEF Shared
<1>3. /\ IsException(s) /\ batch.payments = <<p>>
      /\ batch.entries = <<Open(p.order, a), Open(p.order, b)>>
  BY <1>2 DEF Settles, Scenario, IsException
<1>4. p.amount = a + b
  BY DrawnIs
<1>5. \A e \in Entries : batch.entries[e].expected \in {a, b}
  BY <1>3 DEF Entries, Open
<1>6. /\ a \in Nat /\ b \in Nat /\ a >= 9900 /\ b >= 9900
      /\ Tolerance \in Nat /\ Tolerance <= 100
  BY MatchingAssumption, DatasetAssumption
<1>7. ~Near(a, a + b, Tolerance) /\ ~Near(b, a + b, Tolerance)
  BY <1>6 DEF Near
<1> QED
  BY <1>3, <1>4, <1>5, <1>7, SoleSettled

\* What comes off a credit is more than rules tolerate.
LEMMA RefundIs ==
  ASSUME NEW s \in RefundNetted, s.batch \in Batches
  PROVE \E p, taken, day :
          /\ taken \in 0..(Net(p) - 1) /\ taken >= 150
          /\ s = Scenario("refund_netted", "refund_netted", <<p>>,
                          <<Credit(Net(p) - taken, day)>>, <<Open(p.order, p.amount)>>)
<1>1. PICK p, refund : s \in Refunded(p, refund) /\ refund \in {p.amount \div 4, Net(p) \div 3}
  <2>1. CASE s \in RefundOfDrawn
    <3>1. PICK p \in Drawn(1, Amounts) : s \in Refunded(p, p.amount \div 4)
      BY <2>1 DEF RefundOfDrawn
    <3> QED
      BY <3>1
  <2>2. CASE s \in RefundOfReal
    <3>1. PICK p \in Real["refund_netted"] : s \in Refunded(p, Net(p) \div 3)
      BY <2>2 DEF RefundOfReal
    <3> QED
      BY <3>1
  <2> QED
    BY <2>1, <2>2 DEF RefundNetted
<1>2. PICK taken \in {Max({150, refund})} \intersect 0..(Net(p) - 1) :
        s = Scenario("refund_netted", "refund_netted", <<p>>,
                     <<Credit(Net(p) - taken, p.at \div 24 + 2)>>, <<Open(p.order, p.amount)>>)
  BY <1>1 DEF Refunded
<1>3. refund \in Int
  <2>1. s.batch.payments = <<p>>
    BY <1>2 DEF Scenario
  <2>2. s.batch.payments[1] \in Payment
    BY <2>1, RecordsOf
  <2>3. p \in Payment
    BY <2>1, <2>2
  <2>4. p.amount \in Int /\ p.fees \in Int
    BY <2>3 DEF Payment
  <2>5. Net(p) \in Int
    BY <2>4 DEF Net
  <2> QED
    BY <1>1, <2>4, <2>5
<1>4. taken >= 150
  <2>1. taken = Max({150, refund})
    BY <1>2
  <2>2. Max({150, refund}) = IF refund <= 150 THEN 150 ELSE refund
    BY <1>3 DEF Max
  <2> QED
    BY <1>3, <2>1, <2>2
<1> QED
  BY <1>2, <1>4

\* A refund comes off the credit for more than the tolerance.
LEMMA RefundResists ==
  ASSUME IInv, NEW s \in RefundNetted, batch = s.batch
  PROVE IsException(s) /\ ~ResolvedByRules
<1>1. s.batch \in Batches
  BY DEF IInv, TypeOK
<1>2. PICK p, taken, day :
        /\ taken \in 0..(Net(p) - 1) /\ taken >= 150
        /\ s = Scenario("refund_netted", "refund_netted", <<p>>,
                        <<Credit(Net(p) - taken, day)>>, <<Open(p.order, p.amount)>>)
  BY <1>1, RefundIs
<1>3. /\ IsException(s) /\ batch.payments = <<p>>
      /\ batch.lines = <<Credit(Net(p) - taken, day)>>
  BY <1>2 DEF Scenario, IsException
<1>4. Net(p) \in Int
  <2>1. s.batch.payments[1] \in Payment
    BY <1>1, <1>3, RecordsOf
  <2>2. p \in Payment
    BY <1>3, <2>1
  <2> QED
    BY <2>2 DEF Payment, Net
<1>5. ~Near(Net(p) - taken, Net(p), Tolerance)
  <2>1. Tolerance \in Nat /\ Tolerance <= 100
    BY MatchingAssumption, DatasetAssumption
  <2> QED
    BY <1>2, <1>4, <2>1 DEF Near
<1>6. \A l \in Lines : batch.lines[l].amount = Net(p) - taken
  BY <1>3 DEF Lines, Credit
<1> QED
  BY <1>3, <1>5, <1>6, SoleSettled

\* Whatever amounts, rates and days a scenario is drawn with, rules resolve it when its label
\* says they may and never otherwise (gold_matcher_agreement, runner.py 61).
THEOREM RulesAgree == RunnerSpec => []RulesAgreeWithGold
<1>1. IInv /\ LabelInv => RulesAgreeWithGold
  <2> SUFFICES ASSUME IInv, LabelInv, done, Labelled
               PROVE ResolvedByRules <=> ~IsException(scenario)
    BY DEF RulesAgreeWithGold
  <2>1. scenario \in Scenarios /\ batch = scenario.batch /\ scenario.batch \in Batches
    BY DEF LabelInv, IInv, TypeOK
  <2>2. CASE scenario \in CleanMatch \union RoundingDelta
    <3>1. ~IsException(scenario)
      BY <2>1, <2>2, ArrivedIs
    <3>2. PICK p \in Payment, expected \in Int :
             IsPaid(scenario, p, expected) /\ Near(expected, p.amount, Tolerance)
      BY <2>1, <2>2, ArrivedIs
    <3>3. PICK lag \in Lags : batch.lines = <<Landed(p, lag)>>
      BY <2>1, <3>2 DEF IsPaid
    <3>4. batch.payments = <<p>> /\ batch.entries = <<Open(p.order, expected)>>
      BY <2>1, <3>2 DEF IsPaid
    <3> QED
      BY <3>1, <3>2, <3>3, <3>4, ArrivedIsResolved
  <2>3. CASE scenario \notin CleanMatch \union RoundingDelta
    <3>1. IsException(scenario) /\ ~ResolvedByRules
      BY <2>1, <2>3, SeveralResist, BypassResists, UnmatchableResists, ShortResists,
         SplitResists, RefundResists DEF Scenarios
    <3> QED
      BY <3>1
  <2> QED
    BY <2>2, <2>3
<1> QED
  BY <1>1, RunnerInductive, PTL

----------------------------------------------------------------------------
(* The labelled scenarios: the cases the agent gets of them. *)

\* Sums of one and of two amounts, and of none.
LEMMA SumOfFew ==
  ASSUME NEW f
  PROVE /\ DOMAIN f = {} => SumFunction(f) = 0
        /\ DOMAIN f = {1} /\ f[1] \in Int => SumFunction(f) = f[1]
        /\ DOMAIN f = {1, 2} /\ f[1] \in Int /\ f[2] \in Int => SumFunction(f) = f[1] + f[2]
<1>1. SumFunction(f) = SumFunctionOnSet(f, DOMAIN f)
  BY DEF SumFunction, SumFunctionOnSet
<1>2. SumFunctionOnSet(f, {}) = 0
  BY SumOfNone
<1>3. ASSUME f[1] \in Int PROVE SumFunctionOnSet(f, {1}) = f[1]
  <2>1. IsFiniteSet({1}) /\ {1} \ {1} = {} /\ 1 \in {1}
    BY FS_Singleton
  <2>2. SumFunctionOnSet(f, {1}) = f[1] + SumFunctionOnSet(f, {1} \ {1})
    BY <1>3, <2>1, SumWithout
  <2> QED
    BY <1>2, <1>3, <2>1, <2>2
<1>4. ASSUME f[1] \in Int, f[2] \in Int PROVE SumFunctionOnSet(f, {1, 2}) = f[1] + f[2]
  <2>1. IsFiniteSet({1})
    BY FS_Singleton
  <2>2. \A y \in {1} \union {2} : f[y] \in Int
    BY <1>4
  <2>3. SumFunctionOnSet(f, {1} \union {2}) = f[2] + SumFunctionOnSet(f, {1})
    <3>1. 2 \notin {1}
      OBVIOUS
    <3> QED
      BY ONLY <2>1, <2>2, <3>1, SumWith
  <2>4. {1} \union {2} = {1, 2}
    OBVIOUS
  <2>5. SumFunctionOnSet(f, {1, 2}) = f[2] + SumFunctionOnSet(f, {1})
    BY ONLY <2>3, <2>4
  <2>6. SumFunctionOnSet(f, {1}) = f[1]
    BY <1>3, <1>4
  <2> QED
    BY ONLY <1>4, <2>5, <2>6
<1> QED
  BY <1>1, <1>2, <1>3, <1>4

\* The case of a batch with one credit, or with no line.
LEMMA CreditsOf ==
  ASSUME NEW b \in Batches
  PROVE /\ \A line : b.lines = <<line>> /\ line.credit => CaseOf(b).credits = <<line.amount>>
        /\ b.lines = <<>> => CaseOf(b).credits = <<>>
        /\ CaseOf(b).payments = b.payments /\ CaseOf(b).entries = b.entries
<1> DEFINE kept == {l \in Range(b.lines) : l.credit}
           lines == Filtered(b.lines, kept)
<1>1. /\ CaseOf(b).credits = [i \in DOMAIN lines |-> lines[i].amount]
      /\ CaseOf(b).payments = b.payments /\ CaseOf(b).entries = b.entries
  BY DEF CaseOf
<1>2. b.lines \in Seq(BankLine)
  BY MatchingAssumption
<1> HIDE DEF kept
<1>3. PICK nth \in Bijection(1..Cardinality(Kept(b.lines, kept)), Kept(b.lines, kept)) :
        Filtered(b.lines, kept) = [n \in 1..Cardinality(Kept(b.lines, kept)) |-> b.lines[nth[n]]]
  <2> DEFINE seq == b.lines
  <2>1. seq \in Seq(BankLine)
    BY <1>2
  <2> HIDE DEF seq
  <2>2. \E nth \in Bijection(1..Cardinality(Kept(seq, kept)), Kept(seq, kept)) :
          Filtered(seq, kept) = [n \in 1..Cardinality(Kept(seq, kept)) |-> seq[nth[n]]]
    BY ONLY <2>1, FilteredGoesThrough
  <2> QED
    BY <2>2 DEF seq
<1>4. ASSUME NEW line, b.lines = <<line>>, line.credit PROVE lines = <<line>>
  <2>1. Kept(b.lines, kept) = {1}
    BY <1>4 DEF kept, Kept, Range
  <2>2. Cardinality({1}) = 1
    BY FS_Singleton
  <2>3. nth[1] = 1
    BY <1>3, <2>1, <2>2 DEF Bijection, Injection, Surjection
  <2>4. lines = [n \in 1..1 |-> b.lines[nth[n]]]
    BY <1>3, <2>1, <2>2
  <2> HIDE DEF lines
  <2>5. lines = [n \in 1..1 |-> line]
    BY <1>4, <2>3, <2>4
  <2> QED
    BY <2>5
<1>5. ASSUME b.lines = <<>> PROVE lines = <<>>
  <2>1. Kept(b.lines, kept) = {}
    BY <1>5 DEF Kept
  <2>2. Cardinality({}) = 0
    BY FS_EmptySet
  <2>3. lines = [n \in 1..0 |-> b.lines[nth[n]]]
    BY <1>3, <2>1, <2>2
  <2> QED
    BY <2>3
<1> HIDE DEF lines
<1> QED
  BY <1>1, <1>4, <1>5

\* What each observation that names a class says of a case.
LEMMA SeenIs ==
  ASSUME NEW c
  PROVE /\ "no_payment" \in Observations(c) <=> c.payments = <<>> /\ c.credits # <<>>
        /\ "payments_share_order" \in Observations(c) <=> DuplicatedOrder(c)
        /\ "many_orders_one_credit" \in Observations(c) <=>
             Len(c.payments) > 1 /\ Cardinality(Orders(c)) > 1 /\ Len(c.credits) = 1
        /\ "entries_share_order" \in Observations(c) <=>
             Len(c.entries) > 1 /\ Cardinality(EntryOrders(c)) = 1
        /\ "round_proportion" \in Observations(c) =>
             c.payments # <<>> /\ Withheld(c) # 0 /\ IsRound(c) /\ ~(Expected(c) <= 0)
        /\ (c.payments # <<>> /\ ~(Expected(c) <= 0) /\ ~DuplicatedOrder(c) /\ Withheld(c) > 0
              /\ Withheld(c) \in Int /\ IsRound(c)) => "round_proportion" \in Observations(c)
        /\ "something_further" \in Observations(c) <=>
             /\ c.payments # <<>> /\ c.credits # <<>> /\ ~DuplicatedOrder(c)
             /\ Unexplained(c) # 0 /\ Unexplained(c) > 0
        /\ "no_line" \in Observations(c) <=> c.payments # <<>> /\ c.credits = <<>>
        /\ "no_entry" \in Observations(c) <=> c.entries = <<>> /\ c.payments # <<>>
<1>1. \A fact : fact \in Observations(c) <=>
        fact \in Present(c) \/ fact \in Invoiced(c) \/ fact \in Arrived(c)
  BY DEF Observations
<1>2. \A fact \in Invoiced(c) :
        fact \in {"paid_in_full", "round_proportion", "under_a_rupee", "neither"}
  BY DEF Invoiced
<1>3. \A fact \in Arrived(c) : fact \in {"nothing_else_taken", "something_further", "more_arrived"}
  BY DEF Arrived
<1>4. /\ "no_payment" \in Present(c) <=> c.payments = <<>> /\ c.credits # <<>>
      /\ "payments_share_order" \in Present(c) <=> DuplicatedOrder(c)
      /\ "many_orders_one_credit" \in Present(c) <=>
             Len(c.payments) > 1 /\ Cardinality(Orders(c)) > 1 /\ Len(c.credits) = 1
      /\ "entries_share_order" \in Present(c) <=>
             Len(c.entries) > 1 /\ Cardinality(EntryOrders(c)) = 1
      /\ "no_line" \in Present(c) <=> c.payments # <<>> /\ c.credits = <<>>
      /\ "no_entry" \in Present(c) <=> c.entries = <<>> /\ c.payments # <<>>
      /\ "round_proportion" \notin Present(c) /\ "something_further" \notin Present(c)
  BY DEF Present
<1>5. "round_proportion" \in Invoiced(c) =>
        c.payments # <<>> /\ Withheld(c) # 0 /\ IsRound(c) /\ ~(Expected(c) <= 0)
  BY DEF Invoiced
<1>6. (c.payments # <<>> /\ ~(Expected(c) <= 0) /\ ~DuplicatedOrder(c) /\ Withheld(c) > 0
         /\ Withheld(c) \in Int /\ IsRound(c)) => "round_proportion" \in Invoiced(c)
  BY DEF Invoiced
<1>7. "something_further" \in Arrived(c) <=>
        /\ c.payments # <<>> /\ c.credits # <<>> /\ ~DuplicatedOrder(c)
        /\ Unexplained(c) # 0 /\ Unexplained(c) > 0
  BY DEF Arrived
<1> QED
  BY <1>1, <1>2, <1>3, <1>4, <1>5, <1>6, <1>7

\* The hint is that of the first observation known.
LEMMA HintIs ==
  ASSUME NEW c
  PROVE /\ \A i \in DOMAIN Known :
             Known[i] \in Observations(c) /\ (\A j \in 1..(i - 1) : Known[j] \notin Observations(c))
               => ClassifyKind(c) = HintFor[i]
        /\ (\A i \in DOMAIN Known : Known[i] \notin Observations(c))
               => ClassifyKind(c) = "unclassified"
<1> DEFINE seen == {i \in DOMAIN Known : Known[i] \in Observations(c)}
<1>1. ClassifyKind(c) = IF seen = {} THEN "unclassified" ELSE HintFor[Min(seen)]
  BY DEF ClassifyKind
<1>2. DOMAIN Known = 1..8
  BY DEF Known
<1>3. ASSUME NEW i \in DOMAIN Known, Known[i] \in Observations(c),
             \A j \in 1..(i - 1) : Known[j] \notin Observations(c)
      PROVE ClassifyKind(c) = HintFor[i]
  <2>1. i \in seen /\ \A k \in seen : i <= k
    BY <1>2, <1>3
  <2>2. seen \subseteq Nat
    BY <1>2
  <2> HIDE DEF seen
  <2>3. Min(seen) = i
    BY <2>1, <2>2 DEF Min
  <2> QED
    BY <1>1, <2>1, <2>3
<1>4. ASSUME \A i \in DOMAIN Known : Known[i] \notin Observations(c)
      PROVE ClassifyKind(c) = "unclassified"
  BY <1>1, <1>4
<1> QED
  BY <1>3, <1>4

\* The case of one payment.
LEMMA OnePayment ==
  ASSUME NEW b \in Batches, NEW p, b.payments = <<p>>
  PROVE /\ p \in Payment /\ p.amount \in Int /\ Net(p) \in Int
        /\ CaseOf(b).payments = <<p>>
        /\ Settled(CaseOf(b)) = Net(p) /\ GrossPaid(CaseOf(b)) = p.amount
        /\ Len(CaseOf(b).payments) = 1 /\ CaseOf(b).payments # <<>>
        /\ ~DuplicatedOrder(CaseOf(b))
<1> DEFINE c == CaseOf(b)
           nets == [i \in DOMAIN c.payments |-> c.payments[i].amount - c.payments[i].fees]
           amounts == [i \in DOMAIN c.payments |-> c.payments[i].amount]
<1>1. p \in Payment
  <2>1. b.payments[1] \in Payment
    BY RecordsOf
  <2> QED
    BY <2>1
<1>2. p.amount \in Int /\ p.fees \in Int
  BY <1>1 DEF Payment
<1>3. c.payments = <<p>>
  BY CreditsOf
<1>4. Settled(c) = SumFunction(nets) /\ GrossPaid(c) = SumFunction(amounts)
  BY DEF Settled, GrossPaid
<1> HIDE DEF c
<1>5. DOMAIN nets = {1} /\ nets[1] = p.amount - p.fees /\ DOMAIN amounts = {1} /\ amounts[1] = p.amount
  BY <1>3
<1> HIDE DEF nets, amounts
<1>6. SumFunction(nets) = p.amount - p.fees /\ SumFunction(amounts) = p.amount
  BY <1>2, <1>5, SumOfFew
<1>7. Len(c.payments) = 1 /\ c.payments # <<>>
  BY <1>3
<1> QED
  BY <1>1, <1>2, <1>3, <1>4, <1>6, <1>7 DEF Net, DuplicatedOrder, c

\* The case of one credit.
LEMMA OneCredit ==
  ASSUME NEW b \in Batches, NEW line, b.lines = <<line>>, line.credit
  PROVE /\ line.amount \in Int /\ CaseOf(b).credits = <<line.amount>>
        /\ Credited(CaseOf(b)) = line.amount
        /\ Len(CaseOf(b).credits) = 1 /\ CaseOf(b).credits # <<>>
<1>1. line.amount \in Int
  <2>1. b.lines[1] \in BankLine
    BY RecordsOf
  <2> QED
    BY <2>1 DEF BankLine
<1>2. CaseOf(b).credits = <<line.amount>>
  BY CreditsOf
<1>3. SumFunction(<<line.amount>>) = line.amount
  <2> DEFINE credits == <<line.amount>>
  <2>1. DOMAIN credits = {1} /\ credits[1] = line.amount
    OBVIOUS
  <2> HIDE DEF credits
  <2>2. SumFunction(credits) = line.amount
    BY <1>1, <2>1, SumOfFew
  <2> QED
    BY <2>2 DEF credits
<1> QED
  BY <1>1, <1>2, <1>3 DEF Credited

\* The case of one invoice.
LEMMA OneInvoice ==
  ASSUME NEW b \in Batches, NEW order, NEW invoice, b.entries = <<Open(order, invoice)>>
  PROVE /\ invoice \in Int /\ Expected(CaseOf(b)) = invoice
        /\ Len(CaseOf(b).entries) = 1 /\ CaseOf(b).entries # <<>>
<1>1. invoice \in Int
  <2>1. b.entries[1] \in LedgerEntry
    BY RecordsOf
  <2> QED
    BY <2>1 DEF LedgerEntry, Open
<1>2. CaseOf(b).entries = <<Open(order, invoice)>>
  BY CreditsOf
<1> DEFINE entries == CaseOf(b).entries
           amounts == [i \in DOMAIN entries |-> entries[i].expected]
<1>3. Expected(CaseOf(b)) = SumFunction(amounts)
  BY DEF Expected
<1>4. Len(entries) = 1 /\ entries # <<>>
  BY <1>2
<1>5. DOMAIN amounts = {1} /\ amounts[1] = invoice
  BY <1>2 DEF Open
<1> HIDE DEF amounts
<1>6. SumFunction(amounts) = invoice
  BY <1>1, <1>5, SumOfFew
<1> QED
  BY <1>1, <1>3, <1>4, <1>6

\* A processor keeps less than it processes.
LEMMA FeesAreLess ==
  ASSUME NEW order, NEW amount \in Nat, amount >= 100, NEW at
  PROVE Net(Synthetic(order, amount, at)) > 0
<1> DEFINE fee == ApplyRate(amount, FeeRate)
           tax == ApplyRate(fee, TaxRate)
           ofAmount == amount * FeeRate
           ofFee == fee * TaxRate
<1>1. FeeRate \in Nat /\ FeeRate <= 1000 /\ TaxRate \in Nat /\ TaxRate <= 5000
  BY DatasetAssumption
<1>2. ofAmount \in Nat /\ ofAmount <= 1000 * amount
  <2>1. amount * FeeRate <= amount * 1000 /\ amount * FeeRate \in Nat
    BY <1>1
  <2> QED
    BY <2>1
<1>3. fee \in Nat /\ 20000 * fee <= 2 * ofAmount + 10000
  BY <1>1, RateIs
<1>4. Net(Synthetic(order, amount, at)) = amount - (fee + tax)
  BY DEF Net, Synthetic
<1> HIDE DEF fee
<1>5. ofFee \in Nat /\ ofFee <= 5000 * fee
  <2>1. fee * TaxRate <= fee * 5000 /\ fee * TaxRate \in Nat
    BY <1>1, <1>3
  <2> QED
    BY <1>3, <2>1
<1>6. tax \in Nat /\ 20000 * tax <= 2 * ofFee + 10000
  BY <1>1, <1>3, RateIs
<1> HIDE DEF tax, ofAmount, ofFee
<1>7. amount - (fee + tax) > 0
  BY <1>2, <1>3, <1>5, <1>6
<1> QED
  BY <1>4, <1>7
\* The hint by what has been seen.
LEMMA HintBy ==
  ASSUME NEW c
  PROVE /\ "no_payment" \in Observations(c) => ClassifyKind(c) = "credit_without_payment"
        /\ ("no_payment" \notin Observations(c) /\ "payments_share_order" \in Observations(c))
             => ClassifyKind(c) = "repeated_payment_on_one_order"
        /\ ({"no_payment", "payments_share_order"} \intersect Observations(c) = {}
               /\ "many_orders_one_credit" \in Observations(c))
             => ClassifyKind(c) = "many_payments_one_credit"
        /\ ({"no_payment", "payments_share_order", "many_orders_one_credit"}
                 \intersect Observations(c) = {}
               /\ "entries_share_order" \in Observations(c))
             => ClassifyKind(c) = "one_credit_many_invoices"
        /\ {"no_payment", "payments_share_order", "many_orders_one_credit", "entries_share_order"}
                 \intersect Observations(c) = {} =>
             /\ "round_proportion" \in Observations(c) => ClassifyKind(c) = "proportional_shortfall"
             /\ ("round_proportion" \notin Observations(c) /\ "something_further" \in Observations(c))
                  => ClassifyKind(c) = "unexplained_shortfall"
             /\ ({"round_proportion", "something_further"} \intersect Observations(c) = {}
                    /\ "no_line" \in Observations(c))
                  => ClassifyKind(c) = "missing_counterpart"
             /\ {"round_proportion", "something_further", "no_line", "no_entry"}
                    \intersect Observations(c) = {}
                  => ClassifyKind(c) = "unclassified"
<1> DEFINE O == Observations(c)
           hint == ClassifyKind(c)
<1>1. /\ \A i \in DOMAIN Known : Known[i] \in O /\ (\A j \in 1..(i - 1) : Known[j] \notin O)
             => hint = HintFor[i]
      /\ (\A i \in DOMAIN Known : Known[i] \notin O) => hint = "unclassified"
  BY HintIs
<1>2. /\ DOMAIN Known = 1..8
      /\ Known[1] = "no_payment" /\ Known[2] = "payments_share_order"
      /\ Known[3] = "many_orders_one_credit" /\ Known[4] = "entries_share_order"
      /\ Known[5] = "round_proportion" /\ Known[6] = "something_further"
      /\ Known[7] = "no_line" /\ Known[8] = "no_entry"
  BY DEF Known
<1>3. /\ HintFor[1] = "credit_without_payment" /\ HintFor[2] = "repeated_payment_on_one_order"
      /\ HintFor[3] = "many_payments_one_credit" /\ HintFor[4] = "one_credit_many_invoices"
      /\ HintFor[5] = "proportional_shortfall" /\ HintFor[6] = "unexplained_shortfall"
      /\ HintFor[7] = "missing_counterpart"
  BY DEF HintFor
<1> HIDE DEF O, hint
<1>4. /\ \A j \in 1..(1 - 1) : FALSE
      /\ \A j \in 1..(2 - 1) : j = 1
      /\ \A j \in 1..(3 - 1) : j = 1 \/ j = 2
      /\ \A j \in 1..(4 - 1) : j = 1 \/ j = 2 \/ j = 3
      /\ \A j \in 1..(5 - 1) : j = 1 \/ j = 2 \/ j = 3 \/ j = 4
      /\ \A j \in 1..(6 - 1) : j = 1 \/ j = 2 \/ j = 3 \/ j = 4 \/ j = 5
      /\ \A j \in 1..(7 - 1) : j = 1 \/ j = 2 \/ j = 3 \/ j = 4 \/ j = 5 \/ j = 6
      /\ \A j \in 1..8 : j = 1 \/ j = 2 \/ j = 3 \/ j = 4 \/ j = 5 \/ j = 6 \/ j = 7 \/ j = 8
  OBVIOUS
<1>5. "no_payment" \in O => hint = "credit_without_payment"
  BY <1>1, <1>2, <1>3, <1>4
<1>6. ("no_payment" \notin O /\ "payments_share_order" \in O)
        => hint = "repeated_payment_on_one_order"
  BY <1>1, <1>2, <1>3, <1>4
<1>7. ({"no_payment", "payments_share_order"} \intersect O = {} /\ "many_orders_one_credit" \in O)
        => hint = "many_payments_one_credit"
  BY <1>1, <1>2, <1>3, <1>4
<1>8. ({"no_payment", "payments_share_order", "many_orders_one_credit"} \intersect O = {}
         /\ "entries_share_order" \in O) => hint = "one_credit_many_invoices"
  BY <1>1, <1>2, <1>3, <1>4
<1>9. ASSUME {"no_payment", "payments_share_order", "many_orders_one_credit", "entries_share_order"}
               \intersect O = {}
      PROVE /\ "round_proportion" \in O => hint = "proportional_shortfall"
            /\ ("round_proportion" \notin O /\ "something_further" \in O)
                  => hint = "unexplained_shortfall"
            /\ ({"round_proportion", "something_further"} \intersect O = {} /\ "no_line" \in O)
                  => hint = "missing_counterpart"
            /\ {"round_proportion", "something_further", "no_line", "no_entry"} \intersect O = {}
                  => hint = "unclassified"
  <2>1. \A j \in 1..(5 - 1) : Known[j] \notin O
    BY <1>2, <1>4, <1>9
  <2>2. "round_proportion" \in O => hint = "proportional_shortfall"
    BY <1>1, <1>2, <1>3, <2>1
  <2>3. ("round_proportion" \notin O /\ "something_further" \in O)
           => hint = "unexplained_shortfall"
    BY <1>1, <1>2, <1>3, <1>4, <1>9
  <2>4. ({"round_proportion", "something_further"} \intersect O = {} /\ "no_line" \in O)
           => hint = "missing_counterpart"
    BY <1>1, <1>2, <1>3, <1>4, <1>9
  <2>5. {"round_proportion", "something_further", "no_line", "no_entry"} \intersect O = {}
           => hint = "unclassified"
    BY <1>1, <1>2, <1>4, <1>9
  <2> QED
    BY <2>2, <2>3, <2>4, <2>5
<1> QED
  BY <1>5, <1>6, <1>7, <1>8, <1>9 DEF O, hint

\* The case of one payment for one invoice: nothing else is seen than that it falls short.
LEMMA PaidCase ==
  ASSUME NEW s, s.batch \in Batches, NEW p, NEW invoice, IsPaid(s, p, invoice)
  PROVE LET c == CaseOf(s.batch)
        IN  /\ p.amount \in Int /\ invoice \in Int
            /\ c.payments = <<p>>
            /\ Withheld(c) = invoice - p.amount /\ Expected(c) = invoice /\ GrossPaid(c) = p.amount
            /\ Settled(c) = Credited(c) /\ Settled(c) - Credited(c) = 0 /\ Shortfall(c) = 0
            /\ Len(c.entries) = 1
            /\ ClassifyKind(c) \in {"unclassified", "proportional_shortfall"}
            /\ ~IsRound(c) => ClassifyKind(c) = "unclassified"
            /\ IsRound(c) /\ invoice > 0 /\ invoice - p.amount > 0
                 => ClassifyKind(c) = "proportional_shortfall"
<1> DEFINE b == s.batch
           c == CaseOf(b)
<1>1. /\ b \in Batches /\ b.payments = <<p>> /\ b.entries = <<Open(p.order, invoice)>>
      /\ \E lag \in Lags : b.lines = <<Landed(p, lag)>>
  BY DEF IsPaid
<1>2. PICK lag \in Lags : b.lines = <<Landed(p, lag)>>
  BY <1>1
<1>3. Landed(p, lag).credit /\ Landed(p, lag).amount = Net(p)
  BY DEF Landed, Credit
<1> HIDE DEF b
<1>4. /\ p.amount \in Int /\ Net(p) \in Int
      /\ c.payments = <<p>> /\ Settled(c) = Net(p) /\ GrossPaid(c) = p.amount
      /\ Len(c.payments) = 1 /\ c.payments # <<>> /\ ~DuplicatedOrder(c)
  BY <1>1, OnePayment
<1>5. Credited(c) = Net(p) /\ c.credits # <<>>
  BY <1>1, <1>2, <1>3, OneCredit
<1>6. invoice \in Int /\ Expected(c) = invoice /\ Len(c.entries) = 1 /\ c.entries # <<>>
  BY <1>1, OneInvoice
<1> HIDE DEF c
<1>7. Withheld(c) = invoice - p.amount /\ Unexplained(c) = 0
  BY <1>4, <1>5, <1>6 DEF Withheld, Unexplained
<1>8. Settled(c) = Credited(c) /\ Settled(c) - Credited(c) = 0 /\ Shortfall(c) = 0
  BY <1>4, <1>5, <1>7 DEF Shortfall
<1>9. {"no_payment", "payments_share_order", "many_orders_one_credit", "entries_share_order",
       "something_further", "no_line", "no_entry"} \intersect Observations(c) = {}
  <2>1. "no_payment" \notin Observations(c)
    BY <1>4, SeenIs
  <2>2. "payments_share_order" \notin Observations(c)
    BY <1>4, SeenIs
  <2>0. ~(Len(c.payments) > 1) /\ ~(Len(c.entries) > 1)
    BY <1>4, <1>6
  <2>3. "many_orders_one_credit" \notin Observations(c)
    BY <2>0, SeenIs
  <2>4. "entries_share_order" \notin Observations(c)
    BY <2>0, SeenIs
  <2>5. "something_further" \notin Observations(c)
    BY <1>7, SeenIs
  <2>6. "no_line" \notin Observations(c) /\ "no_entry" \notin Observations(c)
    BY <1>5, <1>6, SeenIs
  <2> QED
    BY <2>1, <2>2, <2>3, <2>4, <2>5, <2>6
<1>10. {"no_payment", "payments_share_order", "many_orders_one_credit", "entries_share_order"}
         \intersect Observations(c) = {}
  BY <1>9
<1>11. "round_proportion" \in Observations(c) => ClassifyKind(c) = "proportional_shortfall"
  BY <1>10, HintBy
<1>12. "round_proportion" \notin Observations(c) => ClassifyKind(c) = "unclassified"
  <2>1. "round_proportion" \notin Observations(c) =>
          {"round_proportion", "something_further", "no_line", "no_entry"}
            \intersect Observations(c) = {}
    BY <1>9
  <2> QED
    BY <1>10, <2>1, HintBy
<1>13. "round_proportion" \in Observations(c) => IsRound(c)
  BY SeenIs
<1>14. IsRound(c) /\ invoice > 0 /\ invoice - p.amount > 0 => "round_proportion" \in Observations(c)
  BY <1>4, <1>6, <1>7, SeenIs
<1> QED
  BY <1>4, <1>6, <1>7, <1>8, <1>11, <1>12, <1>13, <1>14 DEF c, b

\* What is withheld is that rate of the invoice, to within the tolerance of an observation.
LEMMA NetIsRound ==
  ASSUME NEW invoice \in Nat, invoice >= 9900, NEW rate \in Nat
  PROVE IsRateOf(ApplyRate(invoice, rate), invoice, rate, RoundRateTolerance)
<1> DEFINE w == ApplyRate(invoice, rate)
           product == invoice * rate
<1>1. product \in Nat /\ rate * invoice = product
  OBVIOUS
<1>2. w \in Nat /\ 20000 * w <= 2 * product + 10000 /\ 2 * product + 10000 < 20000 * w + 20000
  BY RateIs
<1> HIDE DEF w, product
<1>3. Apart(10000 * w, product) <= 15 * invoice
  BY <1>1, <1>2 DEF Apart
<1> QED
  BY <1>1, <1>3 DEF IsRateOf, RoundRateTolerance, w

\* Grossing up adds what is that rate of the whole.
LEMMA GrossIsRound ==
  ASSUME NEW net \in Nat, net >= 9900, NEW rate \in TdsRates
  PROVE IsRateOf(GrossBeforeTds(net, rate) - net, GrossBeforeTds(net, rate), rate, RoundRateTolerance)
<1>1. rate \in Nat /\ rate <= 2000
  BY GrossUpShows
<1> DEFINE d == 10000 - rate
           product == net * rate
           q == Rounded(product, d)
           whole == net + q
<1>2. d \in Nat \ {0} /\ d <= 10000 /\ product \in Nat
  BY <1>1
<1>3. q \in Nat /\ 2 * d * q <= 2 * product + d /\ 2 * product + d < 2 * d * q + 2 * d
  <2> HIDE DEF d, product
  <2> QED
    BY <1>2, RoundedIs
<1>4. GrossBeforeTds(net, rate) = whole
  BY DEF GrossBeforeTds
<1> DEFINE part == rate * q
<1> HIDE DEF q
<1>5. part \in Int /\ 2 * d * q = 20000 * q - 2 * part /\ rate * whole = product + part
  BY <1>1, <1>3
<1>6. whole - net = q /\ whole \in Nat /\ whole >= 9900
  BY <1>3
<1> HIDE DEF d, product, part, whole
<1>7. Apart(10000 * q, product + part) <= 15 * whole
  BY <1>2, <1>3, <1>5, <1>6 DEF Apart
<1> QED
  BY <1>4, <1>5, <1>6, <1>7 DEF IsRateOf, RoundRateTolerance

\* Grossing up what was left comes back to the invoice, give or take a paisa.
LEMMA NetGrossesUp ==
  ASSUME NEW invoice \in Nat, NEW rate \in TdsRates
  PROVE /\ invoice - GrossBeforeTds(NetOfTds(invoice, rate), rate) \in Int
        /\ invoice - GrossBeforeTds(NetOfTds(invoice, rate), rate) <= 1
        /\ -1 <= invoice - GrossBeforeTds(NetOfTds(invoice, rate), rate)
<1>1. rate \in Nat /\ rate >= 150 /\ rate <= 2000
  BY DatasetAssumption DEF RoundRates
<1> DEFINE w == ApplyRate(invoice, rate)
           ofInvoice == invoice * rate
           net == invoice - w
           d == 10000 - rate
           q == Rounded(net * rate, d)
           ofW == w * rate
<1>2. ofInvoice \in Nat /\ ofInvoice <= 2000 * invoice
  <2>1. invoice * rate <= invoice * 2000 /\ invoice * rate \in Nat
    BY <1>1
  <2> QED
    BY <2>1
<1>3. w \in Nat /\ 20000 * w <= 2 * ofInvoice + 10000 /\ 2 * ofInvoice + 10000 < 20000 * w + 20000
  <2>1. w = Rounded(ofInvoice, 10000)
    BY DEF ApplyRate
  <2> HIDE DEF w, ofInvoice
  <2> QED
    BY <1>2, <2>1, RoundedIs
<1> HIDE DEF w
<1>4. net \in Nat
  <2> HIDE DEF ofInvoice
  <2> QED
    BY <1>2, <1>3
<1>5. ofW \in Nat /\ net * rate = ofInvoice - ofW /\ net * rate \in Nat
  BY <1>1, <1>3, <1>4
<1>6. d \in Nat \ {0} /\ d >= 8000 /\ d <= 10000
  BY <1>1
<1>7. /\ q \in Nat /\ 2 * d * q <= 2 * (ofInvoice - ofW) + d
      /\ 2 * (ofInvoice - ofW) + d < 2 * d * q + 2 * d
  <2> DEFINE product == net * rate
  <2>1. product \in Nat /\ product = ofInvoice - ofW
    BY <1>5
  <2> HIDE DEF product, d
  <2>2. /\ Rounded(product, d) \in Nat /\ 2 * d * Rounded(product, d) <= 2 * product + d
        /\ 2 * product + d < 2 * d * Rounded(product, d) + 2 * d
    <3>1. product \in Nat /\ d \in Nat \ {0}
      BY <1>6, <2>1
    <3> QED
      BY ONLY <3>1, RoundedIs
  <2> QED
    BY <2>1, <2>2 DEF product
<1>8. invoice - GrossBeforeTds(NetOfTds(invoice, rate), rate) = w - q
  <2>1. NetOfTds(invoice, rate) = net
    BY DEF NetOfTds, w
  <2>2. GrossBeforeTds(NetOfTds(invoice, rate), rate) = net + q
    BY <2>1 DEF GrossBeforeTds
  <2> HIDE DEF q
  <2> QED
    BY <1>3, <1>7, <2>2
<1> HIDE DEF q
<1> DEFINE dq == d * q
           dw == d * w
<1>9. dq \in Int /\ dw \in Int /\ 2 * d * q = 2 * dq /\ 2 * dw = 20000 * w - 2 * ofW
      /\ d * (w - q) = dw - dq
  BY <1>1, <1>3, <1>6, <1>7
<1> DEFINE x == w - q
<1>10. x \in Int
  BY <1>3, <1>7
<1> HIDE DEF x, d, dq, dw, ofW, ofInvoice
<1>11. 2 * (d * x) < 10000 + d /\ -(10000 + d) < 2 * (d * x)
  BY <1>2, <1>3, <1>5, <1>6, <1>7, <1>9 DEF x
<1>12. x <= 1
  <2> SUFFICES ASSUME x >= 2 PROVE FALSE
    BY <1>10
  <2>1. d * x >= d * 2 /\ d * x \in Int
    BY <1>6, <1>10
  <2> QED
    BY <1>6, <1>11, <2>1
<1>13. -1 <= x
  <2> SUFFICES ASSUME x <= -2 PROVE FALSE
    BY <1>10
  <2>1. d * x <= d * (-2) /\ d * x \in Int
    BY <1>6, <1>10
  <2> QED
    BY <1>6, <1>11, <2>1
<1> QED
  BY <1>8, <1>10, <1>12, <1>13 DEF x

\* Between the bands around the round rates an amount is clear of them all; the lowest two an
\* advance cannot reach.
LEMMA BetweenBands ==
  ASSUME NEW part \in Nat, NEW whole \in Nat, part >= 25000, whole <= 699900,
         \/ 10000 * part < 460 * whole
         \/ 540 * whole < 10000 * part /\ 10000 * part < 710 * whole
         \/ 790 * whole < 10000 * part /\ 10000 * part < 960 * whole
         \/ 1040 * whole < 10000 * part /\ 10000 * part < 1960 * whole
         \/ 2040 * whole < 10000 * part
  PROVE ClearOfRound(part, whole)
<1> SUFFICES ASSUME NEW rate \in RoundRates PROVE ~IsRateOf(part, whole, rate, 40)
  BY DEF ClearOfRound
<1> DEFINE scaled == 10000 * part
<1>1. scaled \in Nat /\ scaled > 240 * whole
  OBVIOUS
<1>2. \/ scaled < 460 * whole
      \/ 540 * whole < scaled /\ scaled < 710 * whole
      \/ 790 * whole < scaled /\ scaled < 960 * whole
      \/ 1040 * whole < scaled /\ scaled < 1960 * whole
      \/ 2040 * whole < scaled
  OBVIOUS
<1> HIDE DEF scaled
<1>3. ~(Apart(scaled, rate * whole) <= 40 * whole)
  <2>1. CASE rate \in {100, 200}
    BY <1>1, <2>1 DEF Apart
  <2>2. CASE rate = 500
    BY <1>1, <1>2, <2>2 DEF Apart
  <2>3. CASE rate = 750
    BY <1>1, <1>2, <2>3 DEF Apart
  <2>4. CASE rate = 1000
    BY <1>1, <1>2, <2>4 DEF Apart
  <2>5. CASE rate = 2000
    BY <1>1, <1>2, <2>5 DEF Apart
  <2> QED
    BY <2>1, <2>2, <2>3, <2>4, <2>5 DEF RoundRates
<1> QED
  BY <1>3 DEF IsRateOf, scaled

\* A few steps of five rupees go just past any distance no longer than a band.
LEMMA StepPast ==
  ASSUME NEW distance \in Nat, distance <= 55992000
  PROVE \E k \in 0..39 : 5000000 * k > distance /\ 5000000 * k <= distance + 5000000
<1> DEFINE k == distance \div 5000000 + 1
<1>1. /\ distance \div 5000000 \in Nat
      /\ 5000000 * (distance \div 5000000) <= distance
      /\ distance < 5000000 * (distance \div 5000000) + 5000000
  OBVIOUS
<1>2. k \in 0..39 /\ 5000000 * k > distance /\ 5000000 * k <= distance + 5000000
  BY <1>1
<1> QED
  BY <1>2

\* Some step up from an advance is clear of the round rates of its invoice.
LEMMA ClearStepExists ==
  ASSUME NEW advance \in Nat, advance >= 25000, NEW invoice \in Nat,
         209900 <= invoice, invoice <= 699900
  PROVE \E k \in 0..39 : ClearOfRound(advance + 500 * k, invoice)
<1> DEFINE scaled == 10000 * advance
<1>1. scaled \in Nat
  OBVIOUS
<1>2. ASSUME NEW r \in {500, 750, 1000, 2000},
             (r - 40) * invoice <= scaled, scaled <= (r + 40) * invoice
      PROVE \E k \in 0..39 : ClearOfRound(advance + 500 * k, invoice)
  <2>1. r \in Nat /\ (r + 40) * invoice - (r - 40) * invoice = 80 * invoice
    BY <1>2
  <2> DEFINE distance == (r + 40) * invoice - scaled
  <2>2. distance \in Nat /\ distance <= 55992000
    <3>1. (r + 40) * invoice \in Int /\ (r - 40) * invoice \in Int
      BY <2>1
    <3> HIDE DEF scaled
    <3> QED
      BY <1>1, <1>2, <2>1, <3>1
  <2>3. PICK k \in 0..39 : 5000000 * k > distance /\ 5000000 * k <= distance + 5000000
    <3> HIDE DEF distance
    <3> QED
      BY <2>2, StepPast
  <2> DEFINE part == advance + 500 * k
  <2>4. part \in Nat /\ part >= 25000 /\ 10000 * part = scaled + 5000000 * k
    BY <2>3
  <2>5. /\ (r + 40) * invoice < 10000 * part
        /\ 10000 * part <= (r + 40) * invoice + 5000000
    <3>1. (r + 40) * invoice \in Int
      BY <2>1
    <3> HIDE DEF scaled, part
    <3> QED
      BY <1>1, <2>3, <2>4, <3>1
  <2> HIDE DEF part, scaled, distance
  <2>6. \/ 540 * invoice < 10000 * part /\ 10000 * part < 710 * invoice
        \/ 790 * invoice < 10000 * part /\ 10000 * part < 960 * invoice
        \/ 1040 * invoice < 10000 * part /\ 10000 * part < 1960 * invoice
        \/ 2040 * invoice < 10000 * part
    BY <2>4, <2>5
  <2>7. ClearOfRound(part, invoice)
    BY <2>4, <2>6, BetweenBands
  <2> QED
    BY <2>7 DEF part
<1>3. ASSUME \A r \in {500, 750, 1000, 2000} :
               ~((r - 40) * invoice <= scaled /\ scaled <= (r + 40) * invoice)
      PROVE \E k \in 0..39 : ClearOfRound(advance + 500 * k, invoice)
  <2>1. /\ ~(460 * invoice <= scaled /\ scaled <= 540 * invoice)
        /\ ~(710 * invoice <= scaled /\ scaled <= 790 * invoice)
        /\ ~(960 * invoice <= scaled /\ scaled <= 1040 * invoice)
        /\ ~(1960 * invoice <= scaled /\ scaled <= 2040 * invoice)
    <3> HIDE DEF scaled
    <3>1. /\ 500 - 40 = 460 /\ 500 + 40 = 540 /\ 750 - 40 = 710 /\ 750 + 40 = 790
          /\ 1000 - 40 = 960 /\ 1000 + 40 = 1040 /\ 2000 - 40 = 1960 /\ 2000 + 40 = 2040
      OBVIOUS
    <3> QED
      BY <1>3, <3>1
  <2>2. \/ scaled < 460 * invoice
        \/ 540 * invoice < scaled /\ scaled < 710 * invoice
        \/ 790 * invoice < scaled /\ scaled < 960 * invoice
        \/ 1040 * invoice < scaled /\ scaled < 1960 * invoice
        \/ 2040 * invoice < scaled
    <3> HIDE DEF scaled
    <3> QED
      BY <1>1, <2>1
  <2>3. ClearOfRound(advance, invoice)
    BY <2>2, BetweenBands
  <2>4. 0 \in 0..39 /\ advance + 500 * 0 = advance
    OBVIOUS
  <2> QED
    BY <2>3, <2>4
<1> QED
  BY <1>2, <1>3

\* An advance is moved clear of the round rates of its invoice.
LEMMA AdvanceIsClear ==
  ASSUME NEW advance \in Advances, NEW invoice \in Nat, 209900 <= invoice, invoice <= 699900
  PROVE ClearOfRound(AdvanceClear(advance, invoice), invoice)
<1> DEFINE Stepped(i) == advance + 500 * i
           Below == {i \in 0..39 : \A j \in 0..i : Stepped(j) < invoice}
           Clear == {i \in Below : ClearOfRound(Stepped(i), invoice)}
<1>1. AdvanceClear(advance, invoice) = IF Clear = {} THEN advance ELSE Stepped(Min(Clear))
  BY DEF AdvanceClear
<1>2. advance \in Nat /\ advance >= 25000 /\ advance <= 90000
  BY DatasetAssumption
<1>3. PICK k \in 0..39 : ClearOfRound(Stepped(k), invoice)
  BY <1>2, ClearStepExists
<1>4. \A j \in 0..k : Stepped(j) < invoice
  <2> SUFFICES ASSUME NEW j \in 0..k PROVE Stepped(j) < invoice
    OBVIOUS
  <2>1. j \in Nat /\ j <= 39
    OBVIOUS
  <2> QED
    BY <1>2, <2>1
<1> HIDE DEF Stepped
<1>5. k \in Clear
  BY <1>3, <1>4
<1>6. Clear \subseteq Nat /\ \A i \in Clear : ClearOfRound(Stepped(i), invoice)
  OBVIOUS
<1> USE DEF Stepped
<1> HIDE DEF Clear
<1>7. Min(Clear) \in Clear
  <2>1. \E x \in Clear : \A y \in Clear : x <= y
    BY ONLY <1>5, <1>6, LeastNatural
  <2> QED
    BY ONLY <2>1 DEF Min
<1>8. AdvanceClear(advance, invoice) = Stepped(Min(Clear))
  BY ONLY <1>1, <1>5
<1>9. ClearOfRound(Stepped(Min(Clear)), invoice)
  BY ONLY <1>6, <1>7
<1> QED
  BY ONLY <1>8, <1>9

\* What GoldIsBorneOut says of a scenario.
Borne(s) ==
  LET c == CaseOf(s.batch)
  IN  /\ ClaimHolds(c, s.gold)
      /\ s.kind = "tds_short_payment" => \E rate \in TdsRates : MatchesAtRate(c, rate)
      /\ s.kind = "netted_settlement" => \A i \in DOMAIN c.credits : NetToCredit(c, c.credits[i])
      /\ Shortfall(c) > 0 <=> s.kind \in {"refund_netted", "duplicate_payment", "unmatchable"}

\* The hint a scenario's case is given.
Hint(s) == ClassifyKind(CaseOf(s.batch))

\* A paisa, or nothing, is within the tolerance.
LEMMA PaisaTolerated ==
  ASSUME NEW gap \in Int, -1 <= gap, gap <= 1
  PROVE WithinTolerance(gap)
BY MatchingAssumption, DatasetAssumption DEF WithinTolerance

\* What is paid in full, or to within a rounding, is borne out as such.
LEMMA ArrivedBorne ==
  ASSUME NEW s \in CleanMatch \union RoundingDelta, s.batch \in Batches
  PROVE Borne(s)
<1>1. PICK p, invoice : IsPaid(s, p, invoice)
  BY ArrivedIs
<1>2. \/ s.kind = "clean_match" /\ s.gold = "exact_match"
      \/ s.kind = "rounding_delta" /\ s.gold = "tolerance_rounding"
  <2>1. CASE s \in CleanMatch
    <3>1. PICK q \in PaymentsOf("clean_match") : s \in Paid("clean_match", "exact_match", q, q.amount)
      BY <2>1 DEF CleanMatch
    <3> QED
      BY <3>1, PaidIs
  <2>2. CASE s \in RoundingDelta
    <3>1. PICK q \in PaymentsOf("rounding_delta"), delta \in RoundingDeltas :
            s \in Paid("rounding_delta", "tolerance_rounding", q, q.amount + delta)
      BY <2>2 DEF RoundingDelta
    <3> QED
      BY <3>1, PaidIs
  <2> QED
    BY <2>1, <2>2
<1> DEFINE c == CaseOf(s.batch)
<1>3. Settled(c) - Credited(c) = 0 /\ Len(c.entries) = 1 /\ Shortfall(c) = 0
  BY <1>1, PaidCase
<1> HIDE DEF c
<1>4. WithinTolerance(Settled(c) - Credited(c)) /\ Len(c.entries) <= 1 /\ ~(Shortfall(c) > 0)
  BY <1>3, PaisaTolerated
<1>5. ClaimHolds(c, s.gold)
  BY <1>2, <1>4 DEF ClaimHolds
<1> QED
  BY <1>2, <1>4, <1>5 DEF Borne, c

\* A withholding shows as a round proportion, and is the withheld rate to within a paisa.
LEMMA TdsBorne ==
  ASSUME NEW s \in TdsShortPayment, s.batch \in Batches
  PROVE s.kind = "tds_short_payment" /\ Hint(s) = "proportional_shortfall" /\ Borne(s)
<1>1. s.kind = "tds_short_payment" /\ s.gold = "tds_short_payment"
  BY TdsIs
<1>2. PICK p \in Payment, invoice \in Int, rate \in TdsRates :
        /\ IsPaid(s, p, invoice)
        /\ \/ invoice \in Amounts /\ p.amount = NetOfTds(invoice, rate)
           \/ p.amount >= 9900 /\ invoice = GrossBeforeTds(p.amount, rate)
  BY TdsIs
<1> DEFINE c == CaseOf(s.batch)
<1>3. /\ p.amount \in Int /\ c.payments = <<p>>
      /\ Withheld(c) = invoice - p.amount /\ Expected(c) = invoice /\ GrossPaid(c) = p.amount
      /\ Shortfall(c) = 0
      /\ IsRound(c) /\ invoice > 0 /\ invoice - p.amount > 0
           => ClassifyKind(c) = "proportional_shortfall"
  BY <1>2, PaidCase
<1> HIDE DEF c
<1>4. rate \in Nat /\ rate >= 150 /\ rate \in RoundRates
  BY DatasetAssumption DEF RoundRates
<1>5. /\ invoice > 0 /\ invoice - p.amount > 0
      /\ IsRateOf(invoice - p.amount, invoice, rate, RoundRateTolerance)
      /\ WithinTolerance(invoice - GrossBeforeTds(p.amount, rate))
  <2>1. CASE invoice \in Amounts /\ p.amount = NetOfTds(invoice, rate)
    <3>1. invoice \in Nat /\ invoice >= 9900 /\ rate \in Nat /\ rate >= 150
      BY <1>4, <2>1, DatasetAssumption
    <3>2. ApplyRate(invoice, rate) \in Nat /\ ApplyRate(invoice, rate) > 100
      BY ONLY <3>1, DeductionShows
    <3>3. invoice - p.amount = ApplyRate(invoice, rate)
      BY <2>1, <3>1, <3>2 DEF NetOfTds
    <3>4. IsRateOf(ApplyRate(invoice, rate), invoice, rate, RoundRateTolerance)
      BY ONLY <3>1, NetIsRound
    <3>5. WithinTolerance(invoice - GrossBeforeTds(NetOfTds(invoice, rate), rate))
      BY <3>1, NetGrossesUp, PaisaTolerated
    <3> QED
      BY <2>1, <3>1, <3>2, <3>3, <3>4, <3>5
  <2>2. CASE p.amount >= 9900 /\ invoice = GrossBeforeTds(p.amount, rate)
    <3>1. p.amount \in Nat /\ p.amount >= 9900
      BY <1>3, <2>2
    <3>2. /\ Rounded(p.amount * rate, 10000 - rate) \in Nat
          /\ Rounded(p.amount * rate, 10000 - rate) > 100
      BY <3>1, GrossUpShows
    <3>3. invoice > 0 /\ invoice - p.amount > 0
      BY <2>2, <3>1, <3>2 DEF GrossBeforeTds
    <3>4. IsRateOf(invoice - p.amount, invoice, rate, RoundRateTolerance)
      BY <2>2, <3>1, GrossIsRound
    <3>5. invoice - GrossBeforeTds(p.amount, rate) = 0
      BY <2>2
    <3>6. WithinTolerance(0)
      BY PaisaTolerated
    <3> QED
      BY <3>3, <3>4, <3>5, <3>6
  <2> QED
    BY <1>2, <2>1, <2>2
<1>6. IsRound(c)
  BY <1>3, <1>4, <1>5 DEF IsRound
<1>7. Expected(c) > GrossPaid(c) /\ ~(Shortfall(c) > 0)
  BY <1>3, <1>5
<1>8. ClaimHolds(c, "tds_short_payment")
  BY <1>7 DEF ClaimHolds, Closing
<1>9. MatchesAtRate(c, rate)
  <2> DEFINE grossed == [i \in DOMAIN c.payments |-> GrossBeforeTds(c.payments[i].amount, rate)]
  <2>1. DOMAIN grossed = {1} /\ grossed[1] = GrossBeforeTds(p.amount, rate)
    BY <1>3
  <2>2. GrossBeforeTds(p.amount, rate) \in Int
    <3>1. 10000 - rate \in Nat \ {0}
      BY GrossUpShows, <1>4, DatasetAssumption DEF RoundRates
    <3> QED
      BY <1>3, <1>4, <3>1 DEF GrossBeforeTds, Rounded
  <2> HIDE DEF grossed
  <2>3. SumFunction(grossed) = GrossBeforeTds(p.amount, rate)
    BY <2>1, <2>2, SumOfFew
  <2> QED
    BY <1>3, <1>5, <2>3 DEF MatchesAtRate, grossed
<1> QED
  BY <1>1, <1>3, <1>5, <1>6, <1>7, <1>8, <1>9 DEF Borne, Hint, c

\* A rebate may pass for a round proportion, and nothing is short.
LEMMA RebateBorne ==
  ASSUME NEW s \in NegotiatedRebate, s.batch \in Batches
  PROVE /\ s.kind = "negotiated_rebate" /\ Hint(s) \in {"unclassified", "proportional_shortfall"}
        /\ Borne(s)
<1>1. s.kind = "negotiated_rebate" /\ s.gold = "negotiated_rebate"
  BY RebateIs
<1>2. PICK p, invoice : IsPaid(s, p, invoice)
  BY RebateIs
<1>3. /\ Shortfall(CaseOf(s.batch)) = 0
      /\ ClassifyKind(CaseOf(s.batch)) \in {"unclassified", "proportional_shortfall"}
  BY <1>2, PaidCase
<1> QED
  BY <1>1, <1>3 DEF Borne, Hint, ClaimHolds, Closing

\* An advance is like no round rate of the invoice: nothing tells it from a rebate.
LEMMA AdvanceBorne ==
  ASSUME NEW s \in AdvanceAdjusted, s.batch \in Batches
  PROVE s.kind = "advance_adjusted" /\ Hint(s) = "unclassified" /\ Borne(s)
<1>1. s.kind = "advance_adjusted" /\ s.gold = "advance_adjusted"
  BY AdvanceIs
<1>2. PICK p \in Payment, invoice \in Nat, advance \in Advances :
        /\ IsPaid(s, p, invoice) /\ 209900 <= invoice /\ invoice <= 699900
        /\ p.amount = invoice - AdvanceClear(advance, invoice)
  BY AdvanceIs
<1> DEFINE c == CaseOf(s.batch)
           part == AdvanceClear(advance, invoice)
<1>3. /\ p.amount \in Int
      /\ Withheld(c) = invoice - p.amount /\ Expected(c) = invoice /\ Shortfall(c) = 0
      /\ ~IsRound(c) => ClassifyKind(c) = "unclassified"
  BY <1>2, PaidCase
<1>4. part \in Nat
  BY AdvanceShows
<1>5. ClearOfRound(part, invoice)
  BY <1>2, AdvanceIsClear
<1> HIDE DEF c, part
<1>6. Withheld(c) = part
  BY <1>2, <1>3, <1>4 DEF part
<1>7. ~IsRound(c)
  <2> SUFFICES ASSUME NEW rate \in RoundRates,
                      IsRateOf(part, invoice, rate, RoundRateTolerance)
               PROVE FALSE
    BY <1>3, <1>6 DEF IsRound
  <2>1. ~(Apart(10000 * part, rate * invoice) <= 40 * invoice)
    BY <1>5 DEF ClearOfRound, IsRateOf
  <2>2. Apart(10000 * part, rate * invoice) <= 15 * invoice
    BY DEF IsRateOf, RoundRateTolerance
  <2> DEFINE apart == Apart(10000 * part, rate * invoice)
  <2>3. apart \in Int
    BY <1>4 DEF Apart, RoundRates
  <2> HIDE DEF apart
  <2>4. ~(apart <= 40 * invoice) /\ apart <= 15 * invoice
    BY <2>1, <2>2 DEF apart
  <2> QED
    BY ONLY <2>3, <2>4, invoice \in Nat
<1> QED
  BY <1>1, <1>3, <1>7 DEF Borne, Hint, ClaimHolds, Closing, c

\* Payments of two orders are not of one.
LEMMA TwoAreNotOne ==
  ASSUME NEW S, IsFiniteSet(S), NEW x \in S, NEW y \in S, x # y
  PROVE Cardinality(S) > 1 /\ Cardinality(S) # 1
<1>1. Cardinality(S) \in Nat
  BY FS_CardinalityType
<1>2. Cardinality(S) # 0
  BY FS_EmptySet
<1>3. Cardinality(S) # 1
  BY FS_Singleton
<1> QED
  BY <1>1, <1>2, <1>3

\* A netting is of several orders in one credit, and the payments net to it.
LEMMA NettedBorne ==
  ASSUME NEW s \in NettedSettlement, s.batch \in Batches
  PROVE s.kind = "netted_settlement" /\ Hint(s) = "many_payments_one_credit" /\ Borne(s)
<1> DEFINE b == s.batch
           c == CaseOf(b)
<1>1. PICK group \in Groups : s \in Netted(group)
  BY DEF NettedSettlement
<1> DEFINE nets == [i \in DOMAIN group |-> Net(group[i])]
<1>2. PICK day, entries :
        s = Scenario("netted_settlement", "netted_settlement", group,
                     <<Credit(SumFunction(nets), day)>>, entries)
  BY <1>1 DEF Netted
<1>3. /\ s.kind = "netted_settlement" /\ s.gold = "netted_settlement"
      /\ b.payments = group /\ b.lines = <<Credit(SumFunction(nets), day)>>
  BY <1>2 DEF Scenario
<1>4. b \in Batches
  OBVIOUS
<1> HIDE DEF b
<1>5. /\ Credit(SumFunction(nets), day).credit
      /\ Credit(SumFunction(nets), day).amount = SumFunction(nets)
  BY DEF Credit
<1>6. /\ SumFunction(nets) \in Int /\ c.credits = <<SumFunction(nets)>>
      /\ Credited(c) = SumFunction(nets) /\ Len(c.credits) = 1 /\ c.credits # <<>>
  BY <1>3, <1>4, <1>5, OneCredit
<1>7. c.payments = group
  BY <1>3, <1>4, CreditsOf
<1>8. Settled(c) = SumFunction(nets)
  BY <1>7 DEF Settled, Net
<1> HIDE DEF nets, c
<1>9. Settled(c) - Credited(c) = 0 /\ Unexplained(c) = 0 /\ WithinTolerance(0)
  BY <1>6, <1>8, PaisaTolerated DEF Unexplained
<1>10. Shortfall(c) = 0
  BY <1>9 DEF Shortfall
<1>11. Len(c.payments) > 1 /\ Cardinality(Orders(c)) > 1 /\ ~DuplicatedOrder(c)
  <2>1. /\ 1 \in DOMAIN group /\ 2 \in DOMAIN group
        /\ group[1].order = 1 /\ group[2].order = 2
    <3>1. /\ 1 \in DOMAIN group /\ 2 \in DOMAIN group
          /\ group[1] \in Drawn(1, Amounts) /\ group[2] \in Drawn(2, Amounts)
      BY DEF Groups
    <3> QED
      BY <3>1, DrawnIs
  <2>2. c.payments \in Seq(Payment)
    BY <1>3, <1>4, <1>7, MatchingAssumption
  <2>3. Len(c.payments) \in Nat /\ DOMAIN c.payments = 1..Len(c.payments)
    BY <2>2
  <2>4. Len(c.payments) > 1
    BY <1>7, <2>1, <2>3
  <2>5. IsFiniteSet(Orders(c))
    <3> DEFINE order == [i \in DOMAIN c.payments |-> c.payments[i].order]
    <3>1. IsFiniteSet(DOMAIN c.payments)
      BY <2>3, FS_Interval
    <3>2. Orders(c) = {order[i] : i \in DOMAIN c.payments}
      BY DEF Orders
    <3> HIDE DEF order
    <3> QED
      BY <3>1, <3>2, ImageIsFinite
  <2>6. 1 \in Orders(c) /\ 2 \in Orders(c)
    BY <1>7, <2>1 DEF Orders
  <2>7. Cardinality(Orders(c)) > 1 /\ Cardinality(Orders(c)) # 1
    BY <2>5, <2>6, TwoAreNotOne
  <2> QED
    BY <2>4, <2>7 DEF DuplicatedOrder
<1>12. c.payments # <<>>
  BY <1>11
<1>13. "no_payment" \notin Observations(c) /\ "payments_share_order" \notin Observations(c)
  BY <1>11, <1>12, SeenIs
<1>14. "many_orders_one_credit" \in Observations(c)
  BY <1>6, <1>11, SeenIs
<1>15. ClassifyKind(c) = "many_payments_one_credit"
  <2>1. {"no_payment", "payments_share_order"} \intersect Observations(c) = {}
    BY <1>13
  <2> QED
    BY <1>14, <2>1, HintBy
<1>16. ClaimHolds(c, "netted_settlement")
  BY <1>9 DEF ClaimHolds
<1>17. \A i \in DOMAIN c.credits : NetToCredit(c, c.credits[i])
  <2>1. \A i \in DOMAIN c.credits : c.credits[i] = SumFunction(nets)
    BY <1>6
  <2>2. Settled(c) - SumFunction(nets) = 0
    BY <1>6, <1>8
  <2> QED
    BY <1>9, <2>1, <2>2 DEF NetToCredit
<1>18. ~(Shortfall(c) > 0)
  BY <1>10
<1> QED
  BY <1>3, <1>15, <1>16, <1>17, <1>18 DEF Borne, Hint, b, c

\* Money that came without a payment is seen as such, and more arrived than settled.
LEMMA BypassBorne ==
  ASSUME NEW s \in DirectNeftBypass, s.batch \in Batches
  PROVE s.kind = "direct_neft_bypass" /\ Hint(s) = "credit_without_payment" /\ Borne(s)
<1> DEFINE b == s.batch
           c == CaseOf(b)
<1>1. PICK amount \in Amounts, at \in Times : s = Bypass(amount, at \div 24)
  BY DEF DirectNeftBypass
<1>2. /\ s.kind = "direct_neft_bypass" /\ s.gold = "direct_neft_bypass"
      /\ b.payments = <<>> /\ b.lines = <<Credit(amount, at \div 24)>>
  BY <1>1 DEF Bypass, Scenario
<1>3. b \in Batches
  OBVIOUS
<1> HIDE DEF b
<1>4. Credit(amount, at \div 24).credit /\ Credit(amount, at \div 24).amount = amount
  BY DEF Credit
<1>5. Credited(c) = amount /\ c.credits # <<>> /\ c.payments = <<>>
  BY <1>2, <1>3, <1>4, OneCredit, CreditsOf
<1>6. amount \in Nat /\ amount > 0
  BY DatasetAssumption
<1> HIDE DEF c
<1>7. Settled(c) = 0
  <2> DEFINE nets == [i \in DOMAIN c.payments |-> c.payments[i].amount - c.payments[i].fees]
  <2>1. DOMAIN nets = {}
    BY <1>5
  <2>2. Settled(c) = SumFunction(nets)
    BY DEF Settled
  <2> HIDE DEF nets
  <2> QED
    BY <2>1, <2>2, SumOfFew
<1>8. ~(Shortfall(c) > 0)
  BY <1>5, <1>6, <1>7 DEF Shortfall, Unexplained
<1>9. ClassifyKind(c) = "credit_without_payment"
  BY <1>5, SeenIs, HintBy
<1>10. ClaimHolds(c, "direct_neft_bypass")
  BY <1>5 DEF ClaimHolds, Closing
<1> QED
  BY <1>2, <1>8, <1>9, <1>10 DEF Borne, Hint, b, c

\* A split is one credit for several invoices of one order.
LEMMA SplitBorne ==
  ASSUME NEW s \in SplitPayment, s.batch \in Batches
  PROVE s.kind = "split_payment" /\ Hint(s) = "one_credit_many_invoices" /\ Borne(s)
<1> DEFINE b == s.batch
           c == CaseOf(b)
<1>1. PICK one \in Amounts, two \in Amounts : s \in Shared(one, two)
  BY DEF SplitPayment
<1>2. PICK p \in Drawn(1, {one + two}) :
        s \in Settles("split_payment", "split_payment", p, <<p>>,
                       <<Open(p.order, one), Open(p.order, two)>>)
  BY <1>1 DEF Shared
<1>3. PICK lag \in Lags :
        s = Scenario("split_payment", "split_payment", <<p>>, <<Landed(p, lag)>>,
                     <<Open(p.order, one), Open(p.order, two)>>)
  BY <1>2 DEF Settles
<1>4. /\ s.kind = "split_payment" /\ s.gold = "split_payment"
      /\ b.payments = <<p>> /\ b.lines = <<Landed(p, lag)>>
      /\ b.entries = <<Open(p.order, one), Open(p.order, two)>>
  BY <1>3 DEF Scenario
<1>5. b \in Batches
  OBVIOUS
<1> HIDE DEF b
<1>6. Landed(p, lag).credit /\ Landed(p, lag).amount = Net(p)
  BY DEF Landed, Credit
<1>7. /\ Net(p) \in Int /\ Settled(c) = Net(p) /\ Len(c.payments) = 1 /\ c.payments # <<>>
      /\ ~DuplicatedOrder(c)
  BY <1>4, <1>5, OnePayment
<1>8. Credited(c) = Net(p)
  BY <1>4, <1>5, <1>6, OneCredit
<1>9. c.entries = <<Open(p.order, one), Open(p.order, two)>>
  BY <1>4, <1>5, CreditsOf
<1> HIDE DEF c
<1>10. Settled(c) - Credited(c) = 0 /\ WithinTolerance(0) /\ Unexplained(c) = 0
  BY <1>7, <1>8, PaisaTolerated DEF Unexplained
<1>11. ~(Shortfall(c) > 0)
  BY <1>10 DEF Shortfall
<1>12. Len(c.entries) > 1 /\ Cardinality(EntryOrders(c)) = 1
  <2>1. EntryOrders(c) = {p.order}
    BY <1>9 DEF EntryOrders, Open
  <2>2. Len(c.entries) = 2
    BY <1>9
  <2>3. Cardinality({p.order}) = 1
    BY FS_Singleton
  <2> QED
    BY ONLY <2>1, <2>2, <2>3
<1>13. "entries_share_order" \in Observations(c)
  BY <1>12, SeenIs
<1>14. ~(Len(c.payments) > 1)
  BY <1>7
<1>15. {"no_payment", "payments_share_order", "many_orders_one_credit"}
          \intersect Observations(c) = {}
  BY <1>7, <1>14, SeenIs
<1>16. ClassifyKind(c) = "one_credit_many_invoices"
  BY <1>13, <1>15, HintBy
<1>17. ClaimHolds(c, "split_payment")
  BY <1>10 DEF ClaimHolds
<1> QED
  BY <1>4, <1>11, <1>16, <1>17 DEF Borne, Hint, b, c

\* A refund shows as money that did not arrive, on an invoice paid in full.
LEMMA RefundBorne ==
  ASSUME NEW s \in RefundNetted, s.batch \in Batches
  PROVE s.kind = "refund_netted" /\ Hint(s) = "unexplained_shortfall" /\ Borne(s)
<1> DEFINE b == s.batch
           c == CaseOf(b)
<1>1. PICK p, taken, day :
        /\ taken \in 0..(Net(p) - 1) /\ taken >= 150
        /\ s = Scenario("refund_netted", "refund_netted", <<p>>,
                        <<Credit(Net(p) - taken, day)>>, <<Open(p.order, p.amount)>>)
  BY RefundIs
<1>2. /\ s.kind = "refund_netted" /\ s.gold = "refund_netted"
      /\ b.payments = <<p>> /\ b.lines = <<Credit(Net(p) - taken, day)>>
      /\ b.entries = <<Open(p.order, p.amount)>>
  BY <1>1 DEF Scenario
<1>3. b \in Batches
  OBVIOUS
<1> HIDE DEF b
<1>4. Credit(Net(p) - taken, day).credit /\ Credit(Net(p) - taken, day).amount = Net(p) - taken
  BY DEF Credit
<1>5. /\ Net(p) \in Int /\ p.amount \in Int /\ Settled(c) = Net(p) /\ GrossPaid(c) = p.amount
      /\ Len(c.payments) = 1 /\ c.payments # <<>> /\ ~DuplicatedOrder(c)
  BY <1>2, <1>3, OnePayment
<1>6. Credited(c) = Net(p) - taken /\ c.credits # <<>>
  BY <1>2, <1>3, <1>4, OneCredit
<1>7. Expected(c) = p.amount /\ Len(c.entries) = 1
  BY <1>2, <1>3, OneInvoice
<1> HIDE DEF c
<1>8. taken \in Int
  BY <1>1, <1>5
<1>9. Unexplained(c) = taken /\ Settled(c) > Credited(c)
  BY <1>1, <1>5, <1>6, <1>8 DEF Unexplained
<1>10. Unexplained(c) > 0 /\ Unexplained(c) # 0 /\ Shortfall(c) > 0
  BY <1>1, <1>8, <1>9 DEF Shortfall
<1>11. Withheld(c) = 0
  BY <1>5, <1>7 DEF Withheld
<1>12. "something_further" \in Observations(c)
  BY <1>5, <1>6, <1>10, SeenIs
<1>13. "round_proportion" \notin Observations(c)
  BY <1>11, SeenIs
<1>14. ~(Len(c.payments) > 1) /\ ~(Len(c.entries) > 1)
  BY <1>5, <1>7
<1>15. {"no_payment", "payments_share_order", "many_orders_one_credit", "entries_share_order"}
          \intersect Observations(c) = {}
  BY <1>5, <1>14, SeenIs
<1>16. ClassifyKind(c) = "unexplained_shortfall"
  BY <1>12, <1>13, <1>15, HintBy
<1>17. ClaimHolds(c, "refund_netted")
  BY <1>9 DEF ClaimHolds, Closing
<1> QED
  BY <1>2, <1>10, <1>16, <1>17 DEF Borne, Hint, b, c

\* What is drawn settles to something.
LEMMA DrawnSettles ==
  ASSUME NEW order, NEW p \in Drawn(order, Amounts)
  PROVE Net(p) > 0
<1>1. p.amount \in Nat /\ p.amount >= 9900 /\ p = Synthetic(order, p.amount, p.at)
  BY DrawnIs, DatasetAssumption
<1> DEFINE amount == p.amount
           at == p.at
<1>2. amount \in Nat /\ amount >= 100 /\ p = Synthetic(order, amount, at)
  BY <1>1
<1> HIDE DEF amount, at
<1> QED
  BY <1>2, FeesAreLess

\* A double payment is one of one order, and only half of it arrived.
LEMMA DuplicateBorne ==
  ASSUME NEW s \in DuplicatePayment, s.batch \in Batches
  PROVE s.kind = "duplicate_payment" /\ Hint(s) = "repeated_payment_on_one_order" /\ Borne(s)
<1> DEFINE b == s.batch
           c == CaseOf(b)
<1>1. PICK p \in Drawn(1, Amounts), late \in {0, 1} : s \in Repeated(p, late)
  BY DEF DuplicatePayment
<1> DEFINE q == [p EXCEPT !.at = @ + late]
<1>2. PICK lag \in Lags :
        s = Scenario("duplicate_payment", "duplicate_payment_rejected", <<p, q>>,
                     <<Landed(p, lag)>>, <<Open(p.order, p.amount)>>)
  BY <1>1 DEF Repeated, Settles
<1>3. /\ s.kind = "duplicate_payment" /\ s.gold = "duplicate_payment_rejected"
      /\ b.payments = <<p, q>> /\ b.lines = <<Landed(p, lag)>>
  BY <1>2 DEF Scenario
<1>4. q.order = p.order /\ q.amount = p.amount /\ q.fees = p.fees
  <2>1. p = Synthetic(1, p.amount, p.at)
    BY DrawnIs
  <2> QED
    BY <2>1 DEF Synthetic
<1>5. b \in Batches
  OBVIOUS
<1> HIDE DEF b, q
<1>6. p.amount \in Int /\ p.fees \in Int
  <2>1. b.payments[1] \in Payment
    BY <1>3, <1>5, RecordsOf
  <2>2. p \in Payment
    BY <1>3, <2>1
  <2> QED
    BY <2>2 DEF Payment
<1>7. Landed(p, lag).credit /\ Landed(p, lag).amount = Net(p)
  BY DEF Landed, Credit
<1>8. Credited(c) = Net(p) /\ c.payments = <<p, q>>
  BY <1>3, <1>5, <1>7, OneCredit, CreditsOf
<1> HIDE DEF c
<1>9. Net(p) \in Int /\ Net(p) > 0
  BY <1>6, DrawnSettles DEF Net
<1>10. Settled(c) = Net(p) + Net(p)
  <2> DEFINE nets == [i \in DOMAIN c.payments |-> c.payments[i].amount - c.payments[i].fees]
  <2>1. Settled(c) = SumFunction(nets)
    BY DEF Settled
  <2>2. DOMAIN nets = {1, 2} /\ nets[1] = Net(p) /\ nets[2] = Net(p)
    BY <1>4, <1>8 DEF Net
  <2> HIDE DEF nets
  <2> QED
    BY <1>9, <2>1, <2>2, SumOfFew
<1>11. Shortfall(c) > 0
  BY <1>8, <1>9, <1>10 DEF Shortfall, Unexplained
<1>12. Len(c.payments) = 2 /\ c.payments # <<>> /\ Cardinality(Orders(c)) = 1
  <2>1. Orders(c) = {p.order}
    BY <1>4, <1>8 DEF Orders
  <2>2. Len(c.payments) = 2 /\ c.payments # <<>>
    BY <1>8
  <2>3. Cardinality({p.order}) = 1
    BY FS_Singleton
  <2> QED
    BY <2>1, <2>2, <2>3
<1>13. DuplicatedOrder(c)
  BY <1>12 DEF DuplicatedOrder
<1>14. ClassifyKind(c) = "repeated_payment_on_one_order"
  BY <1>12, <1>13, SeenIs, HintBy
<1>15. ClaimHolds(c, "duplicate_payment_rejected")
  BY <1>12 DEF ClaimHolds, Closing
<1> QED
  BY <1>3, <1>11, <1>14, <1>15 DEF Borne, Hint, b, c

\* A payment without a counterpart is short of all it should have settled to.
LEMMA UnmatchableBorne ==
  ASSUME NEW s \in Unmatchable, s.batch \in Batches
  PROVE s.kind = "unmatchable" /\ Hint(s) = "missing_counterpart" /\ Borne(s)
<1> DEFINE b == s.batch
           c == CaseOf(b)
<1>1. PICK p \in Drawn(1, Amounts) :
        s = Scenario("unmatchable", "unmatchable_no_counterpart", <<p>>, <<>>, <<>>)
  BY DEF Unmatchable
<1>2. /\ s.kind = "unmatchable" /\ s.gold = "unmatchable_no_counterpart"
      /\ b.payments = <<p>> /\ b.lines = <<>> /\ b.entries = <<>>
  BY <1>1 DEF Scenario
<1>3. b \in Batches
  OBVIOUS
<1> HIDE DEF b
<1>4. /\ Net(p) \in Int /\ Settled(c) = Net(p) /\ Len(c.payments) = 1 /\ c.payments # <<>>
      /\ ~DuplicatedOrder(c)
  BY <1>2, <1>3, OnePayment
<1>5. c.credits = <<>> /\ c.entries = <<>>
  BY <1>2, <1>3, CreditsOf
<1> HIDE DEF c
<1>6. Credited(c) = 0
  <2> DEFINE none == <<>>
  <2>1. DOMAIN none = {} /\ Credited(c) = SumFunction(none)
    BY <1>5 DEF Credited
  <2> HIDE DEF none
  <2> QED
    BY <2>1, SumOfFew
<1>7. Expected(c) = 0
  <2> DEFINE amounts == [i \in DOMAIN c.entries |-> c.entries[i].expected]
  <2>1. DOMAIN amounts = {} /\ Expected(c) = SumFunction(amounts)
    BY <1>5 DEF Expected
  <2> HIDE DEF amounts
  <2> QED
    BY <2>1, SumOfFew
<1>8. Net(p) > 0
  BY DrawnSettles
<1>9. Shortfall(c) > 0
  BY <1>4, <1>6, <1>8 DEF Shortfall, Unexplained
<1>10. ~(Len(c.payments) > 1) /\ ~(Len(c.entries) > 1) /\ Expected(c) <= 0
  BY <1>4, <1>5, <1>7
<1>11. {"no_payment", "payments_share_order", "many_orders_one_credit", "entries_share_order"}
          \intersect Observations(c) = {}
  BY <1>4, <1>10, SeenIs
<1>12. {"round_proportion", "something_further"} \intersect Observations(c) = {}
  BY <1>5, <1>10, SeenIs
<1>13. "no_line" \in Observations(c)
  BY <1>4, <1>5, SeenIs
<1>14. ClassifyKind(c) = "missing_counterpart"
  BY <1>11, <1>12, <1>13, HintBy
<1>15. ClaimHolds(c, "unmatchable_no_counterpart")
  BY DEF ClaimHolds, Closing
<1> QED
  BY <1>2, <1>9, <1>14, <1>15 DEF Borne, Hint, b, c

\* Every labelled scenario with its hint.
LEMMA ScenarioBorne ==
  ASSUME NEW s \in Scenarios, s.batch \in Batches
  PROVE /\ Borne(s)
        /\ \/ ~IsException(s)
           \/ s.kind = "netted_settlement" /\ Hint(s) = "many_payments_one_credit"
           \/ s.kind = "direct_neft_bypass" /\ Hint(s) = "credit_without_payment"
           \/ s.kind = "tds_short_payment" /\ Hint(s) = "proportional_shortfall"
           \/ s.kind = "split_payment" /\ Hint(s) = "one_credit_many_invoices"
           \/ s.kind = "refund_netted" /\ Hint(s) = "unexplained_shortfall"
           \/ s.kind = "duplicate_payment" /\ Hint(s) = "repeated_payment_on_one_order"
           \/ s.kind = "unmatchable" /\ Hint(s) = "missing_counterpart"
           \/ s.kind = "negotiated_rebate" /\ Hint(s) \in {"unclassified", "proportional_shortfall"}
           \/ s.kind = "advance_adjusted" /\ Hint(s) = "unclassified"
<1>1. CASE s \in CleanMatch \union RoundingDelta
  BY <1>1, ArrivedIs, ArrivedBorne
<1>2. CASE s \in NettedSettlement
  BY <1>2, NettedBorne
<1>3. CASE s \in DirectNeftBypass
  BY <1>3, BypassBorne
<1>4. CASE s \in TdsShortPayment
  BY <1>4, TdsBorne
<1>5. CASE s \in SplitPayment
  BY <1>5, SplitBorne
<1>6. CASE s \in RefundNetted
  BY <1>6, RefundBorne
<1>7. CASE s \in DuplicatePayment
  BY <1>7, DuplicateBorne
<1>8. CASE s \in Unmatchable
  BY <1>8, UnmatchableBorne
<1>9. CASE s \in NegotiatedRebate
  BY <1>9, RebateBorne
<1>10. CASE s \in AdvanceAdjusted
  BY <1>10, AdvanceBorne
<1> QED
  BY <1>1, <1>2, <1>3, <1>4, <1>5, <1>6, <1>7, <1>8, <1>9, <1>10 DEF Scenarios

\* Whatever a scenario is drawn with, the hint its case is retrieved by is that of its class
\* (classify_kind over the builders' records).
THEOREM HintsAreRight == RunnerSpec => []HintNamesTheClass
<1>1. IInv /\ LabelInv => HintNamesTheClass
  <2> SUFFICES ASSUME IInv, LabelInv, Labelled, IsException(scenario) PROVE HintNamesTheClass
    BY DEF HintNamesTheClass
  <2>1. scenario \in Scenarios /\ batch = scenario.batch /\ scenario.batch \in Batches
    BY DEF LabelInv, IInv, TypeOK
  <2>2. Hint(scenario) = ClassifyKind(CaseOf(batch))
    BY <2>1 DEF Hint
  <2> QED
    BY <2>1, <2>2, ScenarioBorne DEF HintNamesTheClass
<1> QED
  BY <1>1, RunnerInductive, PTL

\* Whatever a scenario is drawn with, its gold code passes the arithmetic of verify, and the
\* tools find the evidence for it.
THEOREM GoldHolds == RunnerSpec => []GoldIsBorneOut
<1>1. IInv /\ LabelInv => GoldIsBorneOut
  <2> SUFFICES ASSUME IInv, LabelInv, Labelled PROVE GoldIsBorneOut
    BY DEF GoldIsBorneOut
  <2>1. scenario \in Scenarios /\ batch = scenario.batch /\ scenario.batch \in Batches
    BY DEF LabelInv, IInv, TypeOK
  <2>2. Borne(scenario)
    BY <2>1, ScenarioBorne
  <2> QED
    BY <2>1, <2>2 DEF GoldIsBorneOut, Borne
<1> QED
  BY <1>1, RunnerInductive, PTL
=============================================================================
