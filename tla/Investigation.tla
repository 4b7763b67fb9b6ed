---------------------------- MODULE Investigation ----------------------------
(***************************************************************************)
(* The investigation graph of one case (graph/): retrieve, gather evidence *)
(* with tools, propose, verify, revise, and finish at the human gate, as   *)
(* an auto-resolution, or escalated.                                       *)
(*                                                                         *)
(* LangGraph runs the nodes one after another and saves a checkpoint after *)
(* each, so a node is one action; only the tool loop inside investigate is *)
(* spread over several, because the process can die between its model      *)
(* calls.  What the loop gathered is in the process until the node ends.   *)
(* A gated graph keeps its checkpoints on disk (durable_graph); one without *)
(* the gate keeps them in memory (run_investigation).                      *)
(***************************************************************************)
EXTENDS ReconciliationCase

CONSTANTS
  Cases,             \* the cases that may be investigated, each with its records
  PrecedentId,       \* the precedents of the corpus
  CodeOf,            \* CodeOf[i]: the reason code precedent i concludes
  MaxToolCalls,      \* MAX_TOOL_CALLS
  MaxRevisions,      \* MAX_REVISIONS
  MaxInvocations     \* bound: how often a case that did not finish is invoked again

\* The codes verify has a rule for, and one that stands for all those without.
ResolutionCodes ==
  Closing \union {"tds_short_payment", "refund_netted", "duplicate_payment_rejected",
                  "direct_neft_bypass", "negotiated_rebate"}
ModelFailures == {"escalated_model_unavailable", "escalated_parse_failure"}
EscalationCodes == ModelFailures \union {"escalated_low_confidence", "escalated_verify_failed"}
ReasonCodes == ResolutionCodes \union EscalationCodes
HumanActions == {"confirmed", "corrected", "rejected"}

\* What a model may answer: any resolution code, with a confidence above the threshold or
\* below it, citing any precedents, retrieved or not.  It may not escalate itself.
Proposals == [code : ResolutionCodes, confident : BOOLEAN, cites : SUBSET PrecedentId]
NoProposal == [code |-> "none", confident |-> FALSE, cites |-> {}]

ASSUME InvestigationAssumption ==
  /\ CodeOf \in [PrecedentId -> ReasonCodes]
  /\ MaxToolCalls \in Nat \ {0}
  /\ MaxRevisions \in Nat
  /\ MaxInvocations \in Nat

VARIABLES
  case,         \* the case under investigation
  gated,        \* whether the graph was built with the gate
  run,          \* how the last invocation stands or ended
  node,         \* the node the checkpoint says is next; "start" when there is none
  st,           \* the checkpointed InvestigationState
  newCalls,     \* tool calls made in the running investigate node
  calls,        \* model calls made by the last invocation (kept for the properties only)
  invocations   \* invocations so far

vars == <<case, gated, run, node, st, newCalls, calls, invocations>>

Nodes == {"retrieve_precedents", "investigate", "propose_resolution", "verify", "revise",
          "finalize", "escalate", "gate"}
Runs == {"idle", "active", "returned", "raised", "died"}

States ==
  [precedents : SUBSET PrecedentId, tools : Nat, proposal : Proposals \union {NoProposal},
   revisions : Nat, verified : BOOLEAN, escalated : BOOLEAN,
   code : ReasonCodes \union {"none"}, human : HumanActions \union {"none"}]

Blank ==
  [precedents |-> {}, tools |-> 0, proposal |-> NoProposal, revisions |-> 0,
   verified |-> FALSE, escalated |-> FALSE, code |-> "none", human |-> "none"]

\* The budget of model calls, and their count, which goes no further than one beyond it.
CallBudget == MaxToolCalls + 1 + MaxRevisions
Counted == IF calls > CallBudget THEN calls ELSE calls + 1

TypeOK ==
  /\ case \in Cases
  /\ gated \in BOOLEAN
  /\ run \in Runs
  /\ node \in Nodes \union {"start", "waiting", "end"}
  /\ st \in States
  /\ newCalls \in 0..MaxToolCalls
  /\ calls \in 0..(CallBudget + 1)
  /\ invocations \in 0..MaxInvocations

Init ==
  /\ case \in Cases
  /\ gated \in BOOLEAN
  /\ run = "idle"
  /\ node = "start"
  /\ st = Blank
  /\ newCalls = 0
  /\ calls = 0
  /\ invocations = 0

----------------------------------------------------------------------------
\* Every citation was retrieved, and concludes what is proposed.
CitationsHold(p, precedents) == \A i \in p.cites : i \in precedents /\ CodeOf[i] = p.code

Sound(p, precedents) == ClaimHolds(case, p.code) /\ CitationsHold(p, precedents)

----------------------------------------------------------------------------
At(n) == run = "active" /\ node = n
Return(n) == run' = "returned" /\ node' = n
Step(n) == node' = n /\ UNCHANGED run
Unmoved == UNCHANGED <<case, gated, invocations>>

\* initial_state, merged into what the thread already holds: tool_calls has an appending
\* reducer, and precedents, reason_code and human_action are not in it.
Restarted == [st EXCEPT !.proposal = NoProposal, !.revisions = 0, !.verified = FALSE,
                        !.escalated = FALSE]

\* compiled.invoke(initial_state(...)) on a new case, or again on one whose invocation did
\* not finish.  classify_kind only sets a hint nothing reads, so the graph starts at
\* retrieve_precedents.
Invoke ==
  /\ run \in {"idle", "raised", "died"}
  /\ invocations < MaxInvocations
  /\ invocations' = invocations + 1
  /\ run' = "active"
  /\ node' = "retrieve_precedents"
  /\ st' = Restarted
  /\ calls' = 0
  /\ UNCHANGED <<case, gated, newCalls>>

\* The retriever returns some precedents, or there is no retriever.
RetrievePrecedents ==
  /\ At("retrieve_precedents")
  /\ \E hits \in SUBSET PrecedentId : st' = [st EXCEPT !.precedents = hits]
  /\ Step("investigate")
  /\ UNCHANGED <<newCalls, calls>> /\ Unmoved

\* A mutated form: the cap is checked against what the checkpoint holds only.
CallToolUncapped ==
  /\ At("investigate")
  /\ st.tools < MaxToolCalls
  /\ newCalls' = newCalls + 1
  /\ calls' = Counted
  /\ UNCHANGED <<run, node, st>> /\ Unmoved

\* The model asks for a tool: it runs, fails, or does not exist, and is recorded either way.
CallTool ==
  /\ At("investigate")
  /\ newCalls < MaxToolCalls
  /\ newCalls' = newCalls + 1
  /\ calls' = Counted
  /\ UNCHANGED <<run, node, st>> /\ Unmoved

\* The loop ends: the model is done, unavailable or unintelligible, or the cap is reached.
FinishInvestigation ==
  /\ At("investigate")
  /\ \/ newCalls < MaxToolCalls /\ calls' = Counted
     \/ newCalls = MaxToolCalls /\ UNCHANGED calls
  /\ st' = [st EXCEPT !.tools = @ + newCalls]
  /\ newCalls' = 0
  /\ Step("propose_resolution")
  /\ Unmoved

\* A mutated form: the counter starts afresh each time through the cycle.
RevisedLocally == IF node = "revise" THEN 1 ELSE 0

Revised == IF node = "revise" THEN st.revisions + 1 ELSE st.revisions

Proposing == run = "active" /\ node \in {"propose_resolution", "revise"}

\* propose_resolution and revise: the model's answer parses.
Propose ==
  /\ Proposing
  /\ \E p \in Proposals :
       st' = [st EXCEPT !.proposal = p, !.revisions = Revised]
  /\ calls' = Counted
  /\ Step("verify")
  /\ UNCHANGED newCalls /\ Unmoved

\* The model is unavailable, or what it says is not a resolution.
ProposeFails ==
  /\ Proposing
  /\ \E code \in ModelFailures :
       st' = [st EXCEPT !.proposal = NoProposal, !.code = code, !.escalated = TRUE,
                        !.revisions = Revised]
  /\ calls' = Counted
  /\ Step("verify")
  /\ UNCHANGED newCalls /\ Unmoved

\* route_after_verify, on the state verify has just written.
Route(s) ==
  CASE s.escalated                                                 -> "escalate"
    [] ~s.escalated /\ s.verified                                  -> "finalize"
    [] ~s.escalated /\ ~s.verified /\ s.revisions >= MaxRevisions -> "escalate"
    [] OTHER                                                       -> "revise"

\* A mutated form: a revised proposal is taken on trust.
VerifyTrusting ==
  /\ At("verify")
  /\ st' = [st EXCEPT !.verified = \/ st.revisions > 0
                                   \/ /\ st.proposal # NoProposal
                                      /\ Sound(st.proposal, st.precedents)]
  /\ Step(Route(st'))
  /\ UNCHANGED <<newCalls, calls>> /\ Unmoved

\* verify and the conditional edge behind it.
Verify ==
  /\ At("verify")
  /\ st' = [st EXCEPT !.verified = /\ st.proposal # NoProposal
                                   /\ Sound(st.proposal, st.precedents)]
  /\ Step(Route(st'))
  /\ UNCHANGED <<newCalls, calls>> /\ Unmoved

\* finalize and the edge behind it: a confident proposal goes to the gate if there is one.
Finalize ==
  /\ At("finalize")
  /\ UNCHANGED <<newCalls, calls>> /\ Unmoved
  /\ \/ /\ st.proposal.confident
        /\ st' = [st EXCEPT !.code = st.proposal.code, !.escalated = FALSE]
        /\ IF gated THEN Step("gate") ELSE Return("end")
     \/ /\ ~st.proposal.confident
        /\ st' = [st EXCEPT !.code = "escalated_low_confidence", !.escalated = TRUE]
        /\ Return("end")

\* A mutated form: whatever code the thread holds is taken for this invocation's.
EscalateStale ==
  /\ At("escalate")
  /\ IF st.code # "none"
       THEN st' = [st EXCEPT !.escalated = TRUE]
       ELSE st' = [st EXCEPT !.code = "escalated_verify_failed", !.escalated = TRUE]
  /\ Return("end")
  /\ UNCHANGED <<newCalls, calls>> /\ Unmoved

\* escalate keeps the code of a failing model call; otherwise verification failed for good.
Escalate ==
  /\ At("escalate")
  /\ IF st.escalated /\ st.code # "none"
       THEN UNCHANGED st
       ELSE st' = [st EXCEPT !.code = "escalated_verify_failed", !.escalated = TRUE]
  /\ Return("end")
  /\ UNCHANGED <<newCalls, calls>> /\ Unmoved

\* The gate interrupts: the invocation returns, and the case waits for a human.
Pause ==
  /\ At("gate")
  /\ Return("waiting")
  /\ UNCHANGED <<st, newCalls, calls>> /\ Unmoved

\* resume_gate with a decision it accepts; a correction carries a reason code and replaces
\* the proposed one.  A decision it refuses, or a code the gate cannot read, raises and
\* leaves the case waiting.
Resume ==
  /\ run = "returned" /\ node = "waiting"
  /\ \/ \E action \in {"confirmed", "rejected"} : st' = [st EXCEPT !.human = action]
     \/ \E code \in ReasonCodes : st' = [st EXCEPT !.human = "corrected", !.code = code]
  /\ node' = "end"
  /\ UNCHANGED <<run, newCalls, calls>> /\ Unmoved

\* What an invocation that does not finish leaves behind: a checkpoint on disk, or nothing.
Abandon(how) ==
  /\ run' = how
  /\ newCalls' = 0
  /\ IF gated THEN UNCHANGED <<node, st>> ELSE node' = "start" /\ st' = Blank
  /\ UNCHANGED calls /\ Unmoved

\* The tool decision is JSON but not an object, or names a tool by something unhashable:
\* an exception nothing catches.
InvestigateRaises ==
  /\ At("investigate")
  /\ newCalls < MaxToolCalls
  /\ Abandon("raised")

\* The process dies in the middle of an invocation.
Crash == run = "active" /\ Abandon("died")

----------------------------------------------------------------------------
GraphStep ==
  \/ RetrievePrecedents \/ CallTool \/ FinishInvestigation \/ Propose \/ ProposeFails
  \/ Verify \/ Finalize \/ Escalate \/ Pause \/ InvestigateRaises

Next == Invoke \/ GraphStep \/ Resume \/ Crash

\* The process runs the graph on: every model call ends, since the client times out.
Fairness == WF_vars(GraphStep)

Spec == Init /\ [][Next]_vars

FairSpec == Spec /\ Fairness

----------------------------------------------------------------------------
(* Properties *)

Returned(n) == run = "returned" /\ node = n
Accepted == Returned("waiting") \/ (Returned("end") /\ ~st.escalated)

\* However often a case is invoked again on what an earlier invocation left, no invocation
\* takes more tool calls than its cap, and one that returns made "between two and eight"
\* model calls (investigation.py, run_investigation).
Budgets ==
  /\ st.tools + newCalls <= MaxToolCalls * invocations
  /\ calls <= CallBudget
  /\ run = "returned" => calls >= 2

\* What reaches the gate, or counts as resolved without one, is the current proposal, sure
\* enough, borne out by the records of the case and by precedents retrieved for it; only a
\* correction puts another code in its place.
AcceptedIsVerified ==
  Accepted =>
    /\ st.proposal \in Proposals
    /\ st.proposal.confident
    /\ Sound(st.proposal, st.precedents)
    /\ st.human # "corrected" => st.code = st.proposal.code

\* An escalation says why: its code is the one of what went wrong in this invocation, never
\* one that an invocation before it left in the thread.
EscalationsNameTheirCause ==
  Returned("end") /\ st.escalated =>
    \/ st.code \in ModelFailures /\ st.proposal = NoProposal
    \/ /\ st.code = "escalated_low_confidence"
       /\ st.proposal \in Proposals /\ ~st.proposal.confident
       /\ Sound(st.proposal, st.precedents)
    \/ /\ st.code = "escalated_verify_failed"
       /\ st.proposal \in Proposals /\ ~Sound(st.proposal, st.precedents)
       /\ st.revisions = MaxRevisions

\* Every invocation ends, whatever the model answers: the tool loop and the cycle of verify
\* and revise run out.
InvocationsEnd == run = "active" ~> run # "active"

----------------------------------------------------------------------------
(* A statement of the repository that the code does not keep *)

\* nodes.py: "No node raises."
NoNodeRaises == run # "raised"
=============================================================================
