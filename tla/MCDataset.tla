------------------------------ MODULE MCDataset ------------------------------
(***************************************************************************)
(* Every sequence of up to three of a few telling records, and the         *)
(* scenarios of every builder over amounts from each bucket, with some of  *)
(* the real payments of real_payments.json, the one of a rupee among them. *)
(***************************************************************************)
EXTENDS Dataset

MCOrder == {1, 2, 3}

\* Two payments of one order captured on one day, hours apart, and one of another order a day
\* later; a record may come twice, captured at once.
PaymentRecords ==
  {[order |-> 1, amount |-> 500, fees |-> 10, at |-> 1],
   [order |-> 1, amount |-> 500, fees |-> 10, at |-> 20],
   [order |-> 2, amount |-> 500, fees |-> 10, at |-> 30]}

\* A credit in time, a late one, one within the rounding tolerance, and a debit.
LineRecords ==
  {[amount |-> 490, at |-> 1, credit |-> TRUE],
   [amount |-> 490, at |-> 4, credit |-> TRUE],
   [amount |-> 590, at |-> 2, credit |-> TRUE],
   [amount |-> 490, at |-> 1, credit |-> FALSE]}

\* An entry for each order, and one off by the tolerance.
EntryRecords ==
  {[order |-> 1, expected |-> 500], [order |-> 2, expected |-> 500],
   [order |-> 1, expected |-> 400]}

UpTo(n, S) == UNION {[1..m -> S] : m \in 0..n}

SmallBatches ==
  [payments : UpTo(3, PaymentRecords), lines : UpTo(3, LineRecords),
   entries : UpTo(3, EntryRecords)]

\* 99, 200, 999, 3333 and 4999 rupees, in the morning of a day or an hour before midnight.
MCAmounts == {9900, 20000, 99900, 333300, 499900}
MCTimes == {34, 47}

RealPayment(amount, fees) == [order |-> 1, amount |-> amount, fees |-> fees, at |-> 40]

MCReal ==
  [clean_match       |-> {RealPayment(100, 2), RealPayment(45600, 1240)},
   rounding_delta    |-> {RealPayment(23200, 632)},
   tds_short_payment |-> {RealPayment(34600, 940), RealPayment(455800, 12396)},
   refund_netted     |-> {RealPayment(20800, 564)}]

MCRoundingDeltas == {-97, -55, -23, 1, 40, 88, 100}
MCRebateRates == {325, 175, 435, 265, 385, 215, 475, 295, 155, 415}
MCAdvances == {25000, 50000, 75000, 40000, 60000, 35000, 90000, 55000}

MCBatches == SmallBatches \union {s.batch : s \in Scenarios}
=============================================================================
