------------------------------- MODULE MCService -------------------------------
(***************************************************************************)
(* Instances of Service for TLC: two operators on one case, over either    *)
(* route; an event delivered twice, signed and not, and a delivery with    *)
(* nothing to store.                                                       *)
(***************************************************************************)
EXTENDS Service, TLC

CONSTANTS q1, q2, r1, e1, d1, d2, d3

TwoRequests == {q1, q2}
OneResolution == {r1}
BothOnR1 == q1 :> r1 @@ q2 :> r1
BothRoutes == {"screen", "api"}

OneEvent == {e1}
ThreeDeliveries == {d1, d2, d3}
AllOfE1 == [d \in ThreeDeliveries |-> e1]
=============================================================================
