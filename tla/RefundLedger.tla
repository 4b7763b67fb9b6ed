---------------------------- MODULE RefundLedger ----------------------------
(***************************************************************************)
(* What the refund path promises about one resolved duplicate charge,      *)
(* whatever requests, crashes and lost answers it went through.  A refund  *)
(* intent is claimed before money can move, the money moves only under the *)
(* claim, and the claim is given back only when the money certainly did    *)
(* not move.  usecases/remediate.py states this in prose ("Reserve, then   *)
(* call.  Never the other way round"); Remediation implements it.          *)
(***************************************************************************)

CONSTANT Intent    \* the refunds that may be asked for

VARIABLES
  claim,           \* claim[i]: "free", "held" (outcome unknown) or "spent"
  moved            \* the intents whose money has left

ledgerVars == <<claim, moved>>

LedgerTypeOK ==
  /\ claim \in [Intent -> {"free", "held", "spent"}]
  /\ moved \subseteq Intent

LedgerInit ==
  /\ claim = [i \in Intent |-> "free"]
  /\ moved = {}

Claim(i) ==
  /\ claim[i] = "free"
  /\ claim' = [claim EXCEPT ![i] = "held"]
  /\ UNCHANGED moved

Move(i) ==
  /\ claim[i] = "held"
  /\ moved' = moved \union {i}
  /\ UNCHANGED claim

Confirm(i) ==
  /\ claim[i] = "held"
  /\ i \in moved
  /\ claim' = [claim EXCEPT ![i] = "spent"]
  /\ UNCHANGED moved

Release(i) ==
  /\ claim[i] = "held"
  /\ i \notin moved
  /\ claim' = [claim EXCEPT ![i] = "free"]
  /\ UNCHANGED moved

LedgerNext == \E i \in Intent : Claim(i) \/ Move(i) \/ Confirm(i) \/ Release(i)

LedgerSpec == LedgerInit /\ [][LedgerNext]_ledgerVars
=============================================================================
