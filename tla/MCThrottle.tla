------------------------------ MODULE MCThrottle ------------------------------
(***************************************************************************)
(* Instances of Throttle for TLC: two prompts that fit the budget          *)
(* together, and one larger than the whole of it.                          *)
(***************************************************************************)
EXTENDS Throttle, TLC

CONSTANTS t1, t2, t3

ThreeCalls == {t1, t2, t3}
OneOversize == t1 :> 2 @@ t2 :> 2 @@ t3 :> 5
LessAndMore == {1, 3}
=============================================================================
