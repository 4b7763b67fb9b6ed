---------------------------- MODULE MCRemediation ----------------------------
(***************************************************************************)
(* Instances of Remediation for TLC.                                       *)
(***************************************************************************)
EXTENDS Remediation, TLC

CONSTANTS q1, q2, q3, q4, r1, r2, r3, r4

\* Two requests for one refund (a double submission, or a retry), a third for another.
ThreeRequests == {q1, q2, q3}
TwoResolutions == {r1, r2}
TwoForR1 == q1 :> r1 @@ q2 :> r1 @@ q3 :> r2
TwoAmounts == r1 :> 2 @@ r2 :> 3

\* Four interchangeable refunds, enough to run past a ceiling of 2 refunds and 4 paise.
FourRequests == {q1, q2, q3, q4}
FourResolutions == {r1, r2, r3, r4}
OneEach == q1 :> r1 @@ q2 :> r2 @@ q3 :> r3 @@ q4 :> r4
FourAmounts == [r \in FourResolutions |-> 2]
Interchangeable == {f \in Permutations(FourRequests \union FourResolutions) :
  \A q \in FourRequests : f[q] \in FourRequests /\ f[OneEach[q]] = OneEach[f[q]]}
=============================================================================
