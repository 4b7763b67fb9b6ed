------------------------------- MODULE Matching -------------------------------
(***************************************************************************)
(* match_batch, the deterministic matcher (domain/matching.py): one step   *)
(* per ledger entry, in the order given, then what is left over becomes    *)
(* exceptions.  Payments, bank lines and ledger entries are known by their *)
(* position in the batch.                                                  *)
(***************************************************************************)
EXTENDS Integers, Sequences, FiniteSetsExt

CONSTANTS
  Order,      \* order ids
  Batches,    \* the batches match_batch may be called with
  Tolerance,  \* ROUNDING_TOLERANCE_PAISE
  Narrow,     \* NARROW_WINDOW_DAYS
  Wide        \* WIDE_WINDOW_DAYS

\* captured_at counts hours and value_date days; a payment's fees are its fee and tax.
Payment == [order : Order, amount : Int, fees : Int, at : Nat]
BankLine == [amount : Int, at : Nat, credit : BOOLEAN]
LedgerEntry == [order : Order, expected : Int]

ASSUME MatchingAssumption ==
  /\ Batches \subseteq
       [payments : Seq(Payment), lines : Seq(BankLine), entries : Seq(LedgerEntry)]
  /\ Tolerance \in Nat /\ Narrow \in Nat /\ Wide \in Nat

VARIABLES
  batch,       \* the batch being matched
  next,        \* the ledger entry to look at next
  matches,     \* the matches made
  exceptions,  \* the exceptions raised
  unresolved,  \* the payments neither matched nor rejected
  done         \* whether the result has been returned

vars == <<batch, next, matches, exceptions, unresolved, done>>

Payments == DOMAIN batch.payments
Lines == DOMAIN batch.lines
Entries == DOMAIN batch.entries
Credits == {l \in Lines : batch.lines[l].credit}

MatchCodes == {"exact_match", "date_window_timing", "tolerance_rounding"}
ExceptionCodes == {"unmatchable_no_counterpart", "duplicate_payment_rejected"}

\* The records of a batch an exception names; 0 where it names none.
Exception(code, p, l, e) == [code |-> code, payment |-> p, line |-> l, entry |-> e]

TypeOK ==
  /\ batch \in Batches
  /\ next \in 1..(Len(batch.entries) + 1)
  /\ matches \subseteq [code : MatchCodes, payment : Payments, line : Credits, entry : Entries]
  /\ exceptions \subseteq [code : ExceptionCodes, payment : Payments \union {0},
                           line : Credits \union {0}, entry : Entries \union {0}]
  /\ unresolved \subseteq Payments
  /\ done \in BOOLEAN

Init ==
  /\ batch \in Batches
  /\ next = 1
  /\ matches = {}
  /\ exceptions = {}
  /\ unresolved = Payments
  /\ done = FALSE

----------------------------------------------------------------------------
(* Which lines may settle a payment against an entry, by the records alone. *)

Near(a, b, distance) == a - b <= distance /\ b - a <= distance

Net(p) == p.amount - p.fees

Exact(p, l, e) ==
  l.credit /\ e.order = p.order /\ l.amount = Net(p) /\ e.expected = p.amount

\* A mutated form: the ledger's amount is not compared.
TolerableAtTheBank(p, l, e) ==
  l.credit /\ e.order = p.order /\ Near(l.amount, Net(p), Tolerance)

Tolerable(p, l, e) ==
  /\ l.credit /\ e.order = p.order
  /\ Near(l.amount, Net(p), Tolerance) /\ Near(e.expected, p.amount, Tolerance)

\* is_within_date_window: the time of day a payment was captured at does not count.
Within(days, p, l) == Near(l.at, p.at \div 24, days)

\* What makes a line eligible under each code.
Fits(code, p, l, e) ==
  CASE code = "exact_match"        -> Exact(p, l, e) /\ Within(Narrow, p, l)
    [] code = "date_window_timing" -> Exact(p, l, e) /\ Within(Wide, p, l)
    [] code = "tolerance_rounding" -> Tolerable(p, l, e) /\ Within(Narrow, p, l)

\* The codes tried before a code.
Before(code) ==
  CASE code = "exact_match"        -> {}
    [] code = "date_window_timing" -> {"exact_match"}
    [] code = "tolerance_rounding" -> {"exact_match", "date_window_timing"}

----------------------------------------------------------------------------
(* One ledger entry. *)

Candidates(e) == {p \in Payments : batch.payments[p].order = batch.entries[e].order}

\* A mutated form: the latest payment leads.
LatestLeads(p, q) ==
  \/ batch.payments[p].at > batch.payments[q].at
  \/ batch.payments[p].at = batch.payments[q].at /\ p <= q

\* sorted by captured_at, stably: of payments captured at once the first in the batch leads.
Leads(p, q) ==
  \/ batch.payments[p].at < batch.payments[q].at
  \/ batch.payments[p].at = batch.payments[q].at /\ p <= q

Primary(e) == CHOOSE p \in Candidates(e) : \A q \in Candidates(e) : Leads(p, q)
Duplicates(e) == Candidates(e) \ {Primary(e)}

\* A mutated form: only the last match made is remembered.
ConsumedLast == {m.line : m \in {x \in matches : x.entry = next - 1}}

\* consumed_bank_line_ids.
Consumed == {m.line : m \in matches}

\* The credit lines no match has consumed.
Available == Credits \ Consumed

Eligible(code, e, lines) ==
  {l \in lines : Fits(code, batch.payments[Primary(e)], batch.lines[l], batch.entries[e])}

Rejected(e) == {Exception("duplicate_payment_rejected", p, 0, e) : p \in Duplicates(e)}

Look == ~done /\ next \in Entries
Advance == next' = next + 1 /\ UNCHANGED <<batch, done>>

\* No payment ever came in for the order.
NoPayment ==
  /\ Look
  /\ Candidates(next) = {}
  /\ exceptions' =
       exceptions \union {Exception("unmatchable_no_counterpart", 0, 0, next)}
  /\ UNCHANGED <<matches, unresolved>>
  /\ Advance

\* A mutated form: the payment matched is not taken off the unresolved ones.
MatchUnpopped ==
  /\ Look
  /\ Candidates(next) # {}
  /\ \E code \in MatchCodes :
       /\ Eligible(code, next, Available) # {}
       /\ \A better \in Before(code) : Eligible(better, next, Available) = {}
       /\ matches' = matches \union
            {[code |-> code, payment |-> Primary(next),
              line |-> Min(Eligible(code, next, Available)), entry |-> next]}
  /\ exceptions' = exceptions \union Rejected(next)
  /\ unresolved' = unresolved \ Duplicates(next)
  /\ Advance

\* A mutated form: one pass over the lines, trying every code on each.
MatchInOnePass ==
  /\ Look
  /\ Candidates(next) # {}
  /\ LET fitting == UNION {Eligible(code, next, Available) : code \in MatchCodes}
     IN  /\ fitting # {}
         /\ \E code \in MatchCodes :
              /\ Min(fitting) \in Eligible(code, next, Available)
              /\ \A better \in Before(code) : Min(fitting) \notin Eligible(better, next, Available)
              /\ matches' = matches \union
                   {[code |-> code, payment |-> Primary(next),
                     line |-> Min(fitting), entry |-> next]}
  /\ exceptions' = exceptions \union Rejected(next)
  /\ unresolved' = unresolved \ Candidates(next)
  /\ Advance

\* The first line of the first code that has one settles the earliest payment; the other
\* payments on the order are rejected.
Match ==
  /\ Look
  /\ Candidates(next) # {}
  /\ \E code \in MatchCodes :
       /\ Eligible(code, next, Available) # {}
       /\ \A better \in Before(code) : Eligible(better, next, Available) = {}
       /\ matches' = matches \union
            {[code |-> code, payment |-> Primary(next),
              line |-> Min(Eligible(code, next, Available)), entry |-> next]}
  /\ exceptions' = exceptions \union Rejected(next)
  /\ unresolved' = unresolved \ Candidates(next)
  /\ Advance

\* No line settles it: the duplicates are rejected all the same.
NoLine ==
  /\ Look
  /\ Candidates(next) # {}
  /\ \A code \in MatchCodes : Eligible(code, next, Available) = {}
  /\ exceptions' = exceptions \union Rejected(next)
  /\ unresolved' = unresolved \ Duplicates(next)
  /\ UNCHANGED matches
  /\ Advance

\* What nothing claimed is reported, and the result returned.
ReportRest ==
  /\ ~done
  /\ next \notin Entries
  /\ exceptions' = exceptions
       \union {Exception("unmatchable_no_counterpart", p, 0, 0) : p \in unresolved}
       \union {Exception("unmatchable_no_counterpart", 0, l, 0) : l \in Available}
  /\ done' = TRUE
  /\ UNCHANGED <<batch, next, matches, unresolved>>

Next == NoPayment \/ Match \/ NoLine \/ ReportRest

Spec == Init /\ [][Next]_vars

----------------------------------------------------------------------------
(* Properties *)

\* No bank line settles two payments and no ledger entry is settled twice, whatever the
\* batch: the docstring of match_batch, for lines and entries.
ConsumedOnce ==
  \A m, n \in matches : m.line = n.line \/ m.entry = n.entry => m = n

Matched(p) == \E m \in matches : m.payment = p
Reported(p, l, e) ==
  \E x \in exceptions : x.payment \in p /\ x.line \in l /\ x.entry \in e

\* In the result every payment is either matched or reported and never both, however many
\* entries share its order; so is every credit; and an entry without a payment is reported.
EverythingAccounted ==
  done =>
    /\ \A p \in Payments : Matched(p) <=> ~Reported({p}, {0}, Entries \union {0})
    /\ \A l \in Credits : l \in Consumed <=> ~Reported({0}, {l}, {0})
    /\ \A e \in Entries : Candidates(e) = {} <=> Reported({0}, {0}, {e})

\* Of the payments on one order only the earliest is ever matched, and each later one is
\* rejected as its duplicate (FR-2.5).
LaterPaymentsRejected ==
  \A m \in matches : \A p \in Payments \ {m.payment} :
    batch.payments[p].order = batch.payments[m.payment].order =>
      /\ batch.payments[m.payment].at <= batch.payments[p].at
      /\ ~Matched(p)
      /\ Exception("duplicate_payment_rejected", p, 0, m.entry) \in exceptions

\* Taking lines greedily leaves no better one behind: a credit that ends unclaimed could not
\* have settled any entry under the code it was matched under, or an earlier one.
NoBetterLineLeft ==
  done =>
    \A e \in Entries, code \in MatchCodes, l \in Available :
      Candidates(e) # {} /\ l \in Eligible(code, e, Credits) =>
        \E m \in matches : m.entry = e /\ m.code \in Before(code) \union {code}

----------------------------------------------------------------------------
(* A statement of the repository that the code does not keep *)

\* match_batch: "One payment, one bank line, and one ledger entry are each consumed by at
\* most one match."
PaymentConsumedOnce == \A m, n \in matches : m.payment = n.payment => m = n
=============================================================================
