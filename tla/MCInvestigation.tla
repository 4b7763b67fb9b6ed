--------------------------- MODULE MCInvestigation ---------------------------
(***************************************************************************)
(* Instances of Investigation for TLC: cases of four shapes, each of which *)
(* bears out some resolution codes and not others.                         *)
(***************************************************************************)
EXTENDS Investigation

Payment(order, amount, fees) == [order |-> order, amount |-> amount, fees |-> fees]
Entry(expected) == [order |-> 1, expected |-> expected]

\* One payment settles to the credit and meets its invoice, or would leave a second one open.
Clean == [payments |-> <<Payment(1, 500, 10)>>, credits |-> <<490>>, entries |-> <<Entry(500)>>]
Split == [Clean EXCEPT !.entries = <<Entry(300), Entry(200)>>]

\* Two payments on one order, one of them credited: the credit falls short.
Duplicate ==
  [payments |-> <<Payment(1, 500, 10), Payment(1, 500, 10)>>, credits |-> <<490>>,
   entries |-> <<Entry(500)>>]

\* A credit without a payment, short of its invoice.
Bypass == [payments |-> <<>>, credits |-> <<500>>, entries |-> <<Entry(600)>>]

MCCases == {Clean, Split, Duplicate, Bypass}

MCPrecedentId == {"p1", "p2"}
MCCodeOf == [p1 |-> "exact_match", p2 |-> "duplicate_payment_rejected"]
=============================================================================
