--------------------------- MODULE MCResponseCache ---------------------------
(***************************************************************************)
(* Instances of ResponseCache for TLC: three runs ask one question, one of *)
(* them without the cache, and one run asks a second question as well.     *)
(***************************************************************************)
EXTENDS ResponseCache, TLC

CONSTANTS k1, k2, t1, t2, t3, t4, t5, p1, p2, p3

TwoKeys == {k1, k2}
FiveTasks == {t1, t2, t3, t4, t5}
TheKeys == t1 :> k1 @@ t2 :> k1 @@ t3 :> k2 @@ t4 :> k1 @@ t5 :> k2
TheProcesses == t1 :> p1 @@ t2 :> p2 @@ t3 :> p1 @@ t4 :> p3 @@ t5 :> p2
ThreeProcesses == {p1, p2, p3}
=============================================================================
