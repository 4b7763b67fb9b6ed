----------------------------- MODULE MCReviewGate -----------------------------
(***************************************************************************)
(* Instances of ReviewGate for TLC: two operators on one case, a third     *)
(* decision on another.                                                    *)
(***************************************************************************)
EXTENDS ReviewGate, TLC

CONSTANTS q1, q2, q3, r1, r2

ThreeRequests == {q1, q2, q3}
TwoResolutions == {r1, r2}
TwoOnR1 == q1 :> r1 @@ q2 :> r1 @@ q3 :> r2
BothRoutes == {"screen", "api"}
=============================================================================
