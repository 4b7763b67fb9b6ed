------------------------- MODULE ReconciliationCase -------------------------
(***************************************************************************)
(* The arithmetic of one case (domain/case.py), what the graph's tools     *)
(* report of it (graph/tools.py) and what verify accepts (graph/nodes.py). *)
(* A case is its payments, the amounts of its credit lines and its ledger  *)
(* entries.  All amounts are paise; a rate counts ten-thousandths.         *)
(***************************************************************************)
EXTENDS Integers, FiniteSetsExt, Sequences, Functions

CONSTANT
  RoundingTolerance  \* ROUNDING_TOLERANCE_PAISE

Closing == {"exact_match", "netted_settlement", "split_payment"}

\* A mutated form: the processor's fees are not taken off.
SettledGross(c) == SumFunction([i \in DOMAIN c.payments |-> c.payments[i].amount])

\* net_settlement_paise, credited_paise, expected_paise, and the gross the customer paid.
Settled(c) == SumFunction([i \in DOMAIN c.payments |-> c.payments[i].amount - c.payments[i].fees])
Credited(c) == SumFunction(c.credits)
Expected(c) == SumFunction([i \in DOMAIN c.entries |-> c.entries[i].expected])
GrossPaid(c) == SumFunction([i \in DOMAIN c.payments |-> c.payments[i].amount])
Orders(c) == {c.payments[i].order : i \in DOMAIN c.payments}
EntryOrders(c) == {c.entries[i].order : i \in DOMAIN c.entries}

WithinTolerance(gap) == -RoundingTolerance <= gap /\ gap <= RoundingTolerance

\* The arithmetic and the shape of the case bear the claim out.
ClaimHolds(c, claim) ==
  /\ claim \in Closing => WithinTolerance(Settled(c) - Credited(c))
  /\ claim = "exact_match" => Len(c.entries) <= 1
  /\ claim = "tds_short_payment" => Expected(c) > GrossPaid(c)
  /\ claim = "refund_netted" => Settled(c) > Credited(c)
  /\ claim = "duplicate_payment_rejected" =>
       Len(c.payments) >= 2 /\ Cardinality(Orders(c)) = 1
  /\ claim = "direct_neft_bypass" => Len(c.payments) = 0

----------------------------------------------------------------------------
(* Rates: domain/money.py rounds half a paisa up. *)

Rounded(numerator, denominator) == (2 * numerator + denominator) \div (2 * denominator)

\* apply_rate_paise, net_of_tds_paise and gross_before_tds_paise.
ApplyRate(amount, rate) == Rounded(amount * rate, 10000)
NetOfTds(gross, rate) == gross - ApplyRate(gross, rate)
GrossBeforeTds(net, rate) == net + Rounded(net * rate, 10000 - rate)

Apart(a, b) == IF a > b THEN a - b ELSE b - a

\* Whether one amount is a rate of another, give or take a tolerance on the rate.
IsRateOf(part, whole, rate, tolerance) == Apart(10000 * part, rate * whole) <= tolerance * whole

RoundRates == {100, 200, 500, 750, 1000, 2000}
RoundRateTolerance == 15

----------------------------------------------------------------------------
(* What observations() states of a case. *)

Withheld(c) == Expected(c) - GrossPaid(c)
Unexplained(c) == Settled(c) - Credited(c)
IsRound(c) == \E rate \in RoundRates : IsRateOf(Withheld(c), Expected(c), rate, RoundRateTolerance)
DuplicatedOrder(c) == Len(c.payments) > 1 /\ Cardinality(Orders(c)) = 1

Present(c) ==
  {fact \in {"payments_share_order", "many_orders_one_credit", "entries_share_order",
             "no_payment", "no_line", "no_entry", "invoice_alone"} :
     CASE fact = "payments_share_order" -> DuplicatedOrder(c)
       [] fact = "many_orders_one_credit" ->
            Len(c.payments) > 1 /\ Cardinality(Orders(c)) > 1 /\ Len(c.credits) = 1
       [] fact = "entries_share_order" ->
            Len(c.entries) > 1 /\ Cardinality(EntryOrders(c)) = 1
       [] fact = "no_payment" -> c.payments = <<>> /\ c.credits # <<>>
       [] fact = "no_line" -> c.payments # <<>> /\ c.credits = <<>>
       [] fact = "no_entry" -> c.entries = <<>> /\ c.payments # <<>>
       [] fact = "invoice_alone" ->
            c.entries # <<>> /\ c.payments = <<>> /\ c.credits = <<>>}

\* Invoice against payment.
Invoiced(c) ==
  IF c.payments = <<>> \/ Expected(c) <= 0 \/ DuplicatedOrder(c) \/ Withheld(c) < 0 THEN {}
  ELSE CASE Withheld(c) = 0              -> {"paid_in_full"}
         [] Withheld(c) > 0 /\ IsRound(c) -> {"round_proportion"}
         [] Withheld(c) > 0 /\ ~IsRound(c) /\ Withheld(c) < 100 -> {"under_a_rupee"}
         [] OTHER -> {"neither"}

\* Payment against bank.
Arrived(c) ==
  IF c.payments = <<>> \/ c.credits = <<>> \/ DuplicatedOrder(c) THEN {}
  ELSE CASE Unexplained(c) = 0 -> {"nothing_else_taken"}
         [] Unexplained(c) > 0 -> {"something_further"}
         [] OTHER              -> {"more_arrived"}

Observations(c) == Present(c) \union Invoiced(c) \union Arrived(c)

\* classify_kind: the first observation it knows, in this order.
Known == <<"no_payment", "payments_share_order", "many_orders_one_credit", "entries_share_order",
           "round_proportion", "something_further", "no_line", "no_entry">>
HintFor == <<"credit_without_payment", "repeated_payment_on_one_order", "many_payments_one_credit",
             "one_credit_many_invoices", "proportional_shortfall", "unexplained_shortfall",
             "missing_counterpart", "missing_counterpart">>

ClassifyKind(c) ==
  LET seen == {i \in DOMAIN Known : Known[i] \in Observations(c)}
  IN  IF seen = {} THEN "unclassified" ELSE HintFor[Min(seen)]

----------------------------------------------------------------------------
(* The tools that compute (graph/tools.py). *)

\* compute_expected_amount with a deduction rate: do the payments, grossed up one by one, come
\* to what the ledger expects?
MatchesAtRate(c, rate) ==
  WithinTolerance(Expected(c) -
    SumFunction([i \in DOMAIN c.payments |-> GrossBeforeTds(c.payments[i].amount, rate)]))

\* search_prior_resolutions: do all the payments together net to this credit?
NetToCredit(c, credit) == WithinTolerance(Settled(c) - credit)

\* fetch_refunds: what did not arrive.
Shortfall(c) == IF Unexplained(c) > 0 THEN Unexplained(c) ELSE 0

=============================================================================
