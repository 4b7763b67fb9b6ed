------------------------------- MODULE Dataset -------------------------------
(***************************************************************************)
(* The labelled scenarios of the evaluation dataset (evals/dataset/), one  *)
(* builder per exception class, and the rules-alone baseline over them     *)
(* (evals/runner.py): each scenario's records are a batch of their own for *)
(* match_batch, and its gold label says whether rules may resolve it.      *)
(***************************************************************************)
EXTENDS Matching, ReconciliationCase, Filtering

CONSTANTS
  Amounts,        \* what random_amount_paise may draw
  Times,          \* what random_captured_at may draw
  FeeRate,        \* the processor's fee and the tax on it, in ten-thousandths, as
  TaxRate,        \*   calibrate_fee_model measures them
  Real,           \* Real[kind]: the real payments a class is anchored on
  RoundingDeltas, \* the paise a rounding_delta ledger entry may be off by
  TdsRates,       \* the withholding rates of tds_short_payment
  RebateRates,    \* NEGOTIATED_RATES
  Advances        \* the advances customers hold

\* The measured fee is a small part of a payment and the tax a part of the fee; a credit lags
\* by a day or two; every real payment a withholding is anchored on is larger than the least
\* amount drawn.  What is off by the tolerance, or by less, rules may match.
ASSUME DatasetAssumption ==
  /\ Tolerance = RoundingTolerance /\ 1 <= Tolerance /\ Tolerance <= 100 /\ Narrow >= 2
  /\ \A amount \in Amounts : amount \in Nat /\ 9900 <= amount /\ amount <= 499900
  /\ Times \subseteq Nat
  /\ FeeRate \in Nat /\ FeeRate <= 1000 /\ TaxRate \in Nat /\ TaxRate <= 5000
  /\ \A kind \in DOMAIN Real : Real[kind] \subseteq Payment
  /\ \A p \in Real["tds_short_payment"] : p.amount >= 9900
  /\ RoundingDeltas \subseteq -Tolerance..Tolerance
  /\ \A rate \in TdsRates : rate \in RoundRates /\ rate >= 150
  /\ \A rate \in RebateRates : rate \in Nat /\ 150 <= rate /\ rate < 10000
  /\ \A advance \in Advances : advance \in Nat /\ 25000 <= advance /\ advance <= 90000

VARIABLE scenario  \* the scenario whose records are being matched

runnerVars == <<scenario, vars>>

\* No round rate is near: a wider berth than an observation needs.
ClearOfRound(advance, invoice) ==
  \A rate \in RoundRates : ~IsRateOf(advance, invoice, rate, 40)

Scenario(kind, gold, payments, lines, entries) ==
  [kind |-> kind, gold |-> gold,
   batch |-> [payments |-> payments, lines |-> lines, entries |-> entries]]

\* A batch that comes from no builder.
Unlabelled == Scenario("unlabelled", "none", <<>>, <<>>, <<>>)

IsException(s) == s.kind \notin {"clean_match", "rounding_delta"}

----------------------------------------------------------------------------
(* Records: generators.py and synthetic_payments.py. *)

\* generate_synthetic_payment: the tax is on the fee.
Synthetic(order, amount, at) ==
  LET fee == ApplyRate(amount, FeeRate)
  IN  [order |-> order, amount |-> amount, fees |-> fee + ApplyRate(fee, TaxRate), at |-> at]

Drawn(order, amounts) == {Synthetic(order, amount, at) : amount \in amounts, at \in Times}

Credit(amount, day) == [amount |-> amount, at |-> day, credit |-> TRUE]
Open(order, expected) == [order |-> order, expected |-> expected]

\* generate_bank_line_for_payment: net, a day or two after capture.
Lags == {1, 2}
Landed(p, lag) == Credit(Net(p), p.at \div 24 + lag)

PaymentsOf(kind) == Drawn(1, Amounts) \union Real[kind]

----------------------------------------------------------------------------
(* The builders, each as the scenarios it may return. *)

\* What a payment settles to lands as one credit, a day or two after it.
Settles(kind, gold, p, payments, entries) ==
  {Scenario(kind, gold, payments, <<Landed(p, lag)>>, entries) : lag \in Lags}

\* One payment and one invoice.
Paid(kind, gold, p, invoice) == Settles(kind, gold, p, <<p>>, <<Open(p.order, invoice)>>)

CleanMatch ==
  UNION {Paid("clean_match", "exact_match", p, p.amount) : p \in PaymentsOf("clean_match")}

RoundingDelta ==
  UNION {Paid("rounding_delta", "tolerance_rounding", p, p.amount + delta) :
           p \in PaymentsOf("rounding_delta"), delta \in RoundingDeltas}

\* Two or three payments on orders of their own land as one credit.
Groups ==
  Drawn(1, Amounts) \X Drawn(2, Amounts)
    \union Drawn(1, Amounts) \X Drawn(2, Amounts) \X Drawn(3, Amounts)

Netted(group) ==
  LET Total == SumFunction([i \in DOMAIN group |-> Net(group[i])])
      LastDay == Max({group[i].at \div 24 : i \in DOMAIN group})
  IN  {Scenario("netted_settlement", "netted_settlement", group,
                <<Credit(Total, LastDay + lag)>>,
                [i \in DOMAIN group |-> Open(group[i].order, group[i].amount)]) : lag \in Lags}

NettedSettlement == UNION {Netted(group) : group \in Groups}

Bypass(amount, day) ==
  Scenario("direct_neft_bypass", "direct_neft_bypass", <<>>, <<Credit(amount, day)>>,
           <<Open(1, amount)>>)

DirectNeftBypass == {Bypass(amount, at \div 24) : amount \in Amounts, at \in Times}

\* The payment is what the invoice comes to net of a rate.
Deducted(kind, gold, invoice, rate) ==
  UNION {Paid(kind, gold, p, invoice) : p \in Drawn(1, {NetOfTds(invoice, rate)})}

\* The invoice is drawn and the payment derived from it, or the other way round for a real one.
WithheldFromDrawn ==
  UNION {Deducted("tds_short_payment", "tds_short_payment", invoice, rate) :
           invoice \in Amounts, rate \in TdsRates}

GrossedUp ==
  UNION {Paid("tds_short_payment", "tds_short_payment", p, GrossBeforeTds(p.amount, rate)) :
           p \in Real["tds_short_payment"], rate \in TdsRates}

TdsShortPayment == WithheldFromDrawn \union GrossedUp

\* One payment of both shares.
Shared(a, b) ==
  UNION {Settles("split_payment", "split_payment", p, <<p>>,
                 <<Open(p.order, a), Open(p.order, b)>>) : p \in Drawn(1, {a + b})}

SplitPayment == UNION {Shared(a, b) : a \in Amounts, b \in Amounts}

\* A refund smaller than what the payment settles to comes off its credit; the ledger does not
\* know of it.
Refunded(p, refund) ==
  {Scenario("refund_netted", "refund_netted", <<p>>,
            <<Credit(Net(p) - taken, p.at \div 24 + 2)>>, <<Open(p.order, p.amount)>>) :
     taken \in {Max({150, refund})} \intersect 0..(Net(p) - 1)}

RefundOfDrawn == UNION {Refunded(p, p.amount \div 4) : p \in Drawn(1, Amounts)}
RefundOfReal == UNION {Refunded(p, Net(p) \div 3) : p \in Real["refund_netted"]}
RefundNetted == RefundOfDrawn \union RefundOfReal

\* The second payment comes minutes later: within the hour or in the next.
Repeated(p, late) ==
  Settles("duplicate_payment", "duplicate_payment_rejected", p,
          <<p, [p EXCEPT !.at = @ + late]>>, <<Open(p.order, p.amount)>>)

DuplicatePayment == UNION {Repeated(p, late) : p \in Drawn(1, Amounts), late \in {0, 1}}

Unmatchable ==
  {Scenario("unmatchable", "unmatchable_no_counterpart", <<p>>, <<>>, <<>>) :
     p \in Drawn(1, Amounts)}

NegotiatedRebate ==
  UNION {Deducted("negotiated_rebate", "negotiated_rebate", invoice, rate) :
           invoice \in Amounts, rate \in RebateRates}

\* A mutated form: the advance is taken as it stands.
AsItStands(advance, invoice) == advance

\* _advance_clear_of_round_rates: the first step up that is like no round rate of the invoice.
AdvanceClear(advance, invoice) ==
  LET Stepped(i) == advance + 500 * i
      Below == {i \in 0..39 : \A j \in 0..i : Stepped(j) < invoice}
      Clear == {i \in Below : ClearOfRound(Stepped(i), invoice)}
  IN  IF Clear = {} THEN advance ELSE Stepped(Min(Clear))

NetOfAdvance(invoice, advance) ==
  UNION {Paid("advance_adjusted", "advance_adjusted", p, invoice) :
           p \in Drawn(1, {invoice - AdvanceClear(advance, invoice)})}

AdvanceAdjusted ==
  UNION {NetOfAdvance(amount + 200000, advance) : amount \in Amounts, advance \in Advances}

Scenarios ==
  CleanMatch \union RoundingDelta \union NettedSettlement \union DirectNeftBypass
    \union TdsShortPayment \union SplitPayment \union RefundNetted \union DuplicatePayment
    \union Unmatchable \union NegotiatedRebate \union AdvanceAdjusted

----------------------------------------------------------------------------
(* The matcher on a labelled batch, or on any other. *)

RunnerInit ==
  /\ \/ scenario = Unlabelled
     \/ \E s \in Scenarios : scenario = s /\ batch = s.batch
  /\ Init

RunnerNext == Next /\ UNCHANGED scenario

RunnerSpec == RunnerInit /\ [][RunnerNext]_runnerVars

\* scenario_to_case: the records as the agent gets them.
CaseOf(b) ==
  [payments |-> b.payments, entries |-> b.entries,
   credits |-> LET lines == Filtered(b.lines, {l \in Range(b.lines) : l.credit})
               IN  [i \in DOMAIN lines |-> lines[i].amount]]

\* _scenario_resolved_by_rules: every payment matched, and nothing reported.
ResolvedByRules == exceptions = {} /\ {m.payment : m \in matches} = Payments

----------------------------------------------------------------------------
(* Properties *)

Labelled == scenario # Unlabelled

\* Rules resolve a scenario when its label says they may and never otherwise: what the builders
\* leave for the agent resists every tier of the matcher, whatever amounts are drawn (the
\* baseline's gold_matcher_agreement, runner.py:61).
RulesAgreeWithGold ==
  done /\ Labelled => (ResolvedByRules <=> ~IsException(scenario))

\* The hint the graph retrieves by tells the classes apart as far as evidence can: each
\* derivable class has its own, and those that only knowing the customer decides have none.
\* A rebate may pass for a proportion; RebatesLookArbitrary is about that.
HintNamesTheClass ==
  Labelled /\ IsException(scenario) =>
    LET hint == ClassifyKind(CaseOf(batch))
    IN  CASE scenario.kind = "direct_neft_bypass" -> hint = "credit_without_payment"
          [] scenario.kind = "duplicate_payment"  -> hint = "repeated_payment_on_one_order"
          [] scenario.kind = "netted_settlement"  -> hint = "many_payments_one_credit"
          [] scenario.kind = "split_payment"      -> hint = "one_credit_many_invoices"
          [] scenario.kind = "tds_short_payment"  -> hint = "proportional_shortfall"
          [] scenario.kind = "refund_netted"      -> hint = "unexplained_shortfall"
          [] scenario.kind = "unmatchable"        -> hint = "missing_counterpart"
          [] scenario.kind = "advance_adjusted"   -> hint = "unclassified"
          [] scenario.kind = "negotiated_rebate"  -> hint \in {"unclassified", "proportional_shortfall"}

\* The gold code of every scenario passes the arithmetic verify would hold a proposal of it to,
\* and the tools find the evidence for it: the withheld rate for a withholding, the one group
\* for a netting, money missing for a refund.  Right answers are not escalated.
GoldIsBorneOut ==
  Labelled =>
    LET c == CaseOf(batch)
    IN  /\ ClaimHolds(c, scenario.gold)
        /\ scenario.kind = "tds_short_payment" => \E rate \in TdsRates : MatchesAtRate(c, rate)
        /\ scenario.kind = "netted_settlement" =>
             \A i \in DOMAIN c.credits : NetToCredit(c, c.credits[i])
        /\ Shortfall(c) > 0 <=> scenario.kind \in {"refund_netted", "duplicate_payment", "unmatchable"}

----------------------------------------------------------------------------
(* A statement of the repository that the code does not keep *)

\* builders.py, of the negotiated rates: "Rates no statute produces. Deliberately not 2%, 5% or
\* 10%".  No case of one should be described as a round proportion.
RebatesLookArbitrary ==
  scenario.kind = "negotiated_rebate" => "round_proportion" \notin Observations(CaseOf(batch))
=============================================================================
