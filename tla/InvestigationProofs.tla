------------------------- MODULE InvestigationProofs -------------------------
(***************************************************************************)
(* What holds of Investigation for every case, corpus, cap and number of   *)
(* invocations.  The budgets follow from where in the graph the calls were *)
(* made; that an accepted proposal is a verified one, and that an          *)
(* escalation names its cause, follow from what each node may find when it *)
(* is entered, whatever an earlier invocation left in the thread.          *)
(***************************************************************************)
EXTENDS Investigation, TLAPS

Active(n) == run = "active" /\ node = n

\* Before the tool loop has been booked, the thread holds the tool calls of earlier
\* invocations only.
Gathering == run = "active" /\ node \in {"retrieve_precedents", "investigate"}

ToolInv ==
  /\ st.tools <= MaxToolCalls * (IF Gathering THEN invocations - 1 ELSE invocations)
  /\ Gathering => invocations >= 1
  /\ ~Active("investigate") => newCalls = 0

\* Where the invocation stands bounds the model calls it has made.
CallInv ==
  /\ Active("retrieve_precedents") => calls = 0
  /\ Active("investigate") => calls = newCalls
  /\ Active("propose_resolution") => calls \in 1..MaxToolCalls /\ st.revisions = 0
  /\ Gathering => st.revisions = 0
  /\ \/ run = "active" /\ node \in {"verify", "revise", "finalize", "escalate", "gate"}
     \/ run = "returned"
     => /\ calls \in 2..(MaxToolCalls + 1 + st.revisions)
        /\ st.revisions <= MaxRevisions
  /\ Active("revise") => st.revisions < MaxRevisions
  /\ calls <= CallBudget

\* What a node may find in the state.
Failed == st.escalated /\ st.code \in ModelFailures /\ st.proposal = NoProposal
Proposed == ~st.escalated /\ st.proposal \in Proposals
Supported == Proposed /\ Sound(st.proposal, st.precedents)

FlowInv ==
  /\ run = "active" => node \in Nodes
  /\ run = "idle" => node = "start"
  /\ run = "returned" => node \in {"waiting", "end"}
  /\ node = "waiting" =>
       run = "returned" /\ ~st.escalated /\ st.code = st.proposal.code
  /\ Gathering \/ Active("propose_resolution") => ~st.escalated
  /\ Active("verify") => Failed \/ Proposed
  /\ Active("revise") => Proposed
  /\ Active("finalize") => Supported
  /\ Active("gate") => Supported /\ st.proposal.confident /\ st.code = st.proposal.code
  /\ Active("escalate") =>
       \/ Failed
       \/ /\ Proposed /\ ~Sound(st.proposal, st.precedents)
          /\ st.revisions >= MaxRevisions

IInv == TypeOK /\ ToolInv /\ CallInv /\ FlowInv /\ AcceptedIsVerified /\ EscalationsNameTheirCause

----------------------------------------------------------------------------
\* The blank thread satisfies the invariant.
LEMMA InitInv == Init => IInv
<1> SUFFICES ASSUME Init PROVE IInv
  OBVIOUS
<1>1. TypeOK
  BY InvestigationAssumption
  DEF Init, TypeOK, Runs, States, Blank, NoProposal, CallBudget
<1>2. ToolInv /\ CallInv
  BY InvestigationAssumption DEF Init, ToolInv, CallInv, Gathering, Active, CallBudget, Blank
<1> QED
  BY <1>1, <1>2
  DEF Init, IInv, FlowInv, Gathering, Active, AcceptedIsVerified, Accepted, Returned,
      EscalationsNameTheirCause

\* NoProposal is not something a model can propose.
LEMMA NoProposalIsNone == NoProposal \notin Proposals
BY DEF NoProposal, Proposals, ResolutionCodes, Closing

----------------------------------------------------------------------------
(* Types. *)

\* Every step keeps the types.
LEMMA TypeStep == TypeOK /\ [Next]_vars => TypeOK'
<1> SUFFICES ASSUME TypeOK, [Next]_vars PROVE TypeOK'
  OBVIOUS
<1> USE InvestigationAssumption
<1>1. CASE UNCHANGED vars
  BY <1>1 DEF TypeOK, vars, CallBudget
<1>2. CASE Invoke
  <2>1. st' \in States
    BY <1>2 DEF Invoke, Restarted, TypeOK, States
  <2> QED
    BY <1>2, <2>1 DEF Invoke, TypeOK, Runs, Nodes, CallBudget
<1>3. CASE RetrievePrecedents
  <2>1. st' \in States
    BY <1>3 DEF RetrievePrecedents, TypeOK, States
  <2> QED
    BY <1>3, <2>1 DEF RetrievePrecedents, At, Step, Unmoved, TypeOK, Nodes, CallBudget
<1>4. CASE CallTool
  BY <1>4 DEF CallTool, At, Unmoved, TypeOK, Counted, CallBudget
<1>5. CASE FinishInvestigation
  <2>1. st' \in States
    BY <1>5 DEF FinishInvestigation, TypeOK, States
  <2> QED
    BY <1>5, <2>1
    DEF FinishInvestigation, At, Step, Unmoved, TypeOK, Nodes, Counted, CallBudget
<1>6. CASE Propose
  <2>1. Revised \in Nat
    BY DEF TypeOK, States, Revised
  <2>2. st' \in States
    BY <1>6, <2>1 DEF Propose, TypeOK, States
  <2> QED
    BY <1>6, <2>2 DEF Propose, Proposing, Step, Unmoved, TypeOK, Nodes, Counted, CallBudget
<1>7. CASE ProposeFails
  <2>1. Revised \in Nat
    BY DEF TypeOK, States, Revised
  <2>2. st' \in States
    <3>1. PICK code \in ModelFailures :
             st' = [st EXCEPT !.proposal = NoProposal, !.code = code, !.escalated = TRUE,
                              !.revisions = Revised]
      BY <1>7 DEF ProposeFails
    <3>2. code \in ReasonCodes \union {"none"}
      BY DEF ReasonCodes, EscalationCodes
    <3>3. st \in States
      BY DEF TypeOK
    <3> QED
      BY <2>1, <3>1, <3>2, <3>3 DEF States
  <2> QED
    BY <1>7, <2>2
    DEF ProposeFails, Proposing, Step, Unmoved, TypeOK, Nodes, Counted, CallBudget
<1>8. CASE Verify
  <2>1. st' \in States /\ Route(st') \in Nodes
    BY <1>8 DEF Verify, TypeOK, States, Route, Nodes
  <2> QED
    BY <1>8, <2>1 DEF Verify, At, Step, Unmoved, TypeOK, CallBudget
<1>9. CASE Finalize
  <2>1. st.proposal.code \in ReasonCodes \union {"none"}
    <3>1. NoProposal.code = "none"
      BY DEF NoProposal
    <3>2. \A p \in Proposals : p.code \in ReasonCodes
      BY DEF Proposals, ReasonCodes
    <3> QED
      BY <3>1, <3>2 DEF TypeOK, States
  <2>2. "escalated_low_confidence" \in ReasonCodes
    BY DEF ReasonCodes, EscalationCodes
  <2>3. st' \in States
    BY <1>9, <2>1, <2>2 DEF Finalize, TypeOK, States
  <2> QED
    BY <1>9, <2>3 DEF Finalize, Step, Return, Unmoved, TypeOK, Nodes, Runs, CallBudget
<1>10. CASE Escalate
  <2>1. "escalated_verify_failed" \in ReasonCodes
    BY DEF ReasonCodes, EscalationCodes
  <2>2. st' \in States
    BY <1>10, <2>1 DEF Escalate, TypeOK, States
  <2> QED
    BY <1>10, <2>2 DEF Escalate, Return, Unmoved, TypeOK, Runs, CallBudget
<1>11. CASE Pause
  BY <1>11 DEF Pause, Return, Unmoved, TypeOK, Runs, CallBudget
<1>12. CASE InvestigateRaises \/ Crash
  <2>1. Blank \in States
    BY DEF Blank, States
  <2>2. st' \in States
    BY <1>12, <2>1 DEF InvestigateRaises, Crash, Abandon, TypeOK
  <2> QED
    BY <1>12, <2>2 DEF InvestigateRaises, Crash, Abandon, Unmoved, TypeOK, Runs, CallBudget
<1>13. CASE Resume
  <2>1. st' \in States
    BY <1>13 DEF Resume, TypeOK, States, HumanActions
  <2> QED
    BY <1>13, <2>1 DEF Resume, Unmoved, TypeOK, CallBudget
<1> QED
  BY <1>1, <1>2, <1>3, <1>4, <1>5, <1>6, <1>7, <1>8, <1>9, <1>10, <1>11, <1>12, <1>13
  DEF Next, GraphStep
----------------------------------------------------------------------------
(* The budgets. *)

\* One invocation more is one cap of tool calls more.
LEMMA OneMoreCap ==
  ASSUME NEW n \in Int
  PROVE MaxToolCalls * (n + 1) = MaxToolCalls * n + MaxToolCalls
BY InvestigationAssumption

\* The tool calls on the thread stay within one cap per invocation.
LEMMA ToolStep == IInv /\ [Next]_vars => ToolInv'
<1> SUFFICES ASSUME IInv, [Next]_vars PROVE ToolInv'
  OBVIOUS
<1> USE InvestigationAssumption DEF IInv, TypeOK, ToolInv, Gathering, Active
<1>1. st \in States
  OBVIOUS
<1>2. CASE UNCHANGED vars
  BY <1>2 DEF vars
<1>3. CASE Invoke
  <2>1. st'.tools = st.tools
    BY <1>3, <1>1 DEF Invoke, Restarted, States
  <2>2. ~Gathering
    BY <1>3 DEF Invoke
  <2> QED
    BY <1>3, <2>1, <2>2 DEF Invoke
<1>4. CASE RetrievePrecedents
  <2>1. st'.tools = st.tools
    BY <1>4, <1>1 DEF RetrievePrecedents, States
  <2> QED
    BY <1>4, <2>1 DEF RetrievePrecedents, At, Step, Unmoved
<1>5. CASE CallTool
  BY <1>5 DEF CallTool, At, Unmoved
<1>6. CASE FinishInvestigation
  <2>1. st'.tools = st.tools + newCalls /\ st.tools \in Nat
    BY <1>6, <1>1 DEF FinishInvestigation, States
  <2>2. MaxToolCalls * invocations = MaxToolCalls * (invocations - 1) + MaxToolCalls
    BY OneMoreCap
  <2>3. st.tools + newCalls <= MaxToolCalls * invocations
    <3> DEFINE before == MaxToolCalls * (invocations - 1)
    <3>1. before \in Int /\ st.tools <= before
      BY <1>6 DEF FinishInvestigation, At
    <3>2. newCalls \in Nat /\ newCalls <= MaxToolCalls
      OBVIOUS
    <3> HIDE DEF before
    <3> QED
      BY <2>1, <2>2, <3>1, <3>2 DEF before
  <2> QED
    BY <1>6, <2>1, <2>3 DEF FinishInvestigation, At, Step, Unmoved
<1>7. CASE Propose \/ ProposeFails
  <2>1. st'.tools = st.tools
    BY <1>7, <1>1 DEF Propose, ProposeFails, States
  <2> QED
    BY <1>7, <2>1 DEF Propose, ProposeFails, Proposing, Step, Unmoved
<1>8. CASE Verify
  <2>1. st'.tools = st.tools /\ Route(st') \notin {"retrieve_precedents", "investigate"}
    BY <1>8, <1>1 DEF Verify, States, Route
  <2> QED
    BY <1>8, <2>1 DEF Verify, At, Step, Unmoved
<1>9. CASE Finalize \/ Escalate \/ Pause \/ Resume
  <2>1. st'.tools = st.tools
    BY <1>9, <1>1 DEF Finalize, Escalate, Pause, Resume, States
  <2> QED
    BY <1>9, <2>1
    DEF Finalize, Escalate, Pause, Resume, At, Step, Return, Unmoved
<1>10. CASE InvestigateRaises \/ Crash
  <2>1. MaxToolCalls * invocations \in Nat
    OBVIOUS
  <2>2. st.tools <= MaxToolCalls * invocations
    <3>1. CASE Gathering
      <4>1. MaxToolCalls * invocations = MaxToolCalls * (invocations - 1) + MaxToolCalls
        BY OneMoreCap
      <4> DEFINE before == MaxToolCalls * (invocations - 1)
      <4>2. before \in Int /\ st.tools <= before /\ st.tools \in Nat
        BY <3>1, <1>1 DEF States
      <4> HIDE DEF before
      <4> QED
        BY <4>1, <4>2 DEF before
    <3>2. CASE ~Gathering
      BY <3>2
    <3> QED
      BY <3>1, <3>2
  <2> QED
    BY <1>10, <2>1, <2>2 DEF InvestigateRaises, Crash, Abandon, Unmoved, Blank
<1> QED
  BY <1>2, <1>3, <1>4, <1>5, <1>6, <1>7, <1>8, <1>9, <1>10 DEF Next, GraphStep

\* A proposal is one model call more, and a revision makes room for it.
LEMMA ProposalCalls ==
  ASSUME CallInv, Proposing, st.revisions \in Nat,
         run' = "active", node' = "verify", calls' = Counted, st'.revisions = Revised
  PROVE CallInv'
<1> USE InvestigationAssumption DEF Active
<1>1. calls \in Nat /\ calls' = calls + 1
  BY DEF CallInv, Proposing, Counted, CallBudget
<1>2. CASE node = "propose_resolution"
  <2>1. calls \in 1..MaxToolCalls /\ st'.revisions = 0
    BY <1>2 DEF CallInv, Proposing, Revised
  <2> QED
    BY <1>1, <2>1 DEF CallInv, Gathering, CallBudget
<1>3. CASE node = "revise"
  <2>1. /\ calls \in 2..(MaxToolCalls + 1 + st.revisions)
        /\ st.revisions < MaxRevisions /\ st'.revisions = st.revisions + 1
    BY <1>3 DEF CallInv, Proposing, Revised
  <2> QED
    BY <1>1, <2>1 DEF CallInv, Gathering, CallBudget
<1> QED
  BY <1>2, <1>3 DEF Proposing

\* Every place of the graph keeps to its share of the model calls.
LEMMA CallStep == IInv /\ [Next]_vars => CallInv'
<1> SUFFICES ASSUME IInv, [Next]_vars PROVE CallInv'
  OBVIOUS
<1> USE InvestigationAssumption DEF IInv, TypeOK, CallInv, Gathering, Active, CallBudget, Counted
<1>1. st \in States
  OBVIOUS
<1>2. CASE UNCHANGED vars
  BY <1>2 DEF vars
<1>3. CASE Invoke
  <2>1. st'.revisions = 0
    BY <1>3, <1>1 DEF Invoke, Restarted, States
  <2> QED
    BY <1>3, <2>1 DEF Invoke, ToolInv
<1>4. CASE RetrievePrecedents
  <2>1. st'.revisions = st.revisions
    BY <1>4, <1>1 DEF RetrievePrecedents, States
  <2> QED
    BY <1>4, <2>1 DEF RetrievePrecedents, At, Step, Unmoved, ToolInv
<1>5. CASE CallTool
  BY <1>5 DEF CallTool, At, Unmoved
<1>6. CASE FinishInvestigation
  <2>1. st'.revisions = st.revisions
    BY <1>6, <1>1 DEF FinishInvestigation, States
  <2> QED
    BY <1>6, <2>1 DEF FinishInvestigation, At, Step, Unmoved
<1>7. CASE Propose \/ ProposeFails
  <2>1. st'.revisions = Revised
    BY <1>7, <1>1 DEF Propose, ProposeFails, States
  <2>2. st.revisions \in Nat
    BY <1>1 DEF States
  <2>3. Proposing /\ run' = "active" /\ node' = "verify" /\ calls' = Counted
    BY <1>7 DEF Propose, ProposeFails, Proposing, Step
  <2>4. CallInv
    OBVIOUS
  <2> HIDE DEF CallInv, Active, Counted, CallBudget, IInv, Gathering, TypeOK
  <2> QED
    BY <2>1, <2>2, <2>3, <2>4, ProposalCalls
<1>8. CASE Verify
  <2>1. st'.revisions = st.revisions /\ st.revisions \in Nat
    BY <1>8, <1>1 DEF Verify, States
  <2>2. Route(st') \in {"finalize", "escalate", "revise"}
    BY DEF Route
  <2>3. Route(st') = "revise" => st'.revisions < MaxRevisions
    BY <2>1, <1>8, <1>1 DEF Route, Verify, States
  <2> QED
    BY <1>8, <2>1, <2>2, <2>3 DEF Verify, At, Step, Unmoved
<1>9. CASE Finalize \/ Escalate \/ Pause \/ Resume
  <2>1. st'.revisions = st.revisions
    BY <1>9, <1>1 DEF Finalize, Escalate, Pause, Resume, States
  <2> QED
    BY <1>9, <2>1
    DEF Finalize, Escalate, Pause, Resume, At, Step, Return, Unmoved
<1>10. CASE InvestigateRaises \/ Crash
  BY <1>10 DEF InvestigateRaises, Crash, Abandon, Unmoved
<1> QED
  BY <1>2, <1>3, <1>4, <1>5, <1>6, <1>7, <1>8, <1>9, <1>10 DEF Next, GraphStep
----------------------------------------------------------------------------
(* What each node finds, and what comes of it. *)

\* Every node finds in the state what it may find there, and what it returns is verified or
\* says why it is not.
LEMMA FlowStep ==
  IInv /\ [Next]_vars => FlowInv' /\ AcceptedIsVerified' /\ EscalationsNameTheirCause'
<1> DEFINE Goal == FlowInv' /\ AcceptedIsVerified' /\ EscalationsNameTheirCause'
<1> SUFFICES ASSUME IInv, [Next]_vars PROVE Goal
  OBVIOUS
<1> USE DEF IInv, FlowInv, Gathering, Active, AcceptedIsVerified, Accepted, Returned,
            EscalationsNameTheirCause, Failed, Proposed, Supported
<1>1. st \in States
  BY DEF TypeOK
<1>2. CASE UNCHANGED vars
  BY <1>2 DEF vars, Sound
<1>3. CASE Invoke
  <2>1. ~st'.escalated
    BY <1>3, <1>1 DEF Invoke, Restarted, States
  <2> QED
    BY <1>3, <2>1 DEF Invoke, Nodes
<1>4. CASE RetrievePrecedents
  <2>1. st'.escalated = st.escalated
    BY <1>4, <1>1 DEF RetrievePrecedents, States
  <2> QED
    BY <1>4, <2>1 DEF RetrievePrecedents, At, Step, Unmoved, Nodes
<1>5. CASE CallTool
  BY <1>5 DEF CallTool, At, Unmoved
<1>6. CASE FinishInvestigation
  <2>1. st'.escalated = st.escalated
    BY <1>6, <1>1 DEF FinishInvestigation, States
  <2> QED
    BY <1>6, <2>1 DEF FinishInvestigation, At, Step, Unmoved, Nodes
<1>7. CASE Propose
  <2>1. st'.escalated = st.escalated /\ st'.proposal \in Proposals
    BY <1>7, <1>1 DEF Propose, States
  <2> QED
    BY <1>7, <2>1 DEF Propose, Proposing, Step, Unmoved, Nodes
<1>8. CASE ProposeFails
  <2>1. st'.escalated /\ st'.proposal = NoProposal /\ st'.code \in ModelFailures
    BY <1>8, <1>1 DEF ProposeFails, States
  <2> QED
    BY <1>8, <2>1 DEF ProposeFails, Proposing, Step, Unmoved, Nodes
<1>9. CASE Verify
  <2>1. /\ st'.escalated = st.escalated
        /\ st'.proposal = st.proposal
        /\ st'.precedents = st.precedents
        /\ st'.code = st.code
        /\ st'.revisions = st.revisions
        /\ st'.verified <=> st.proposal # NoProposal /\ Sound(st.proposal, st.precedents)
    BY <1>9, <1>1 DEF Verify, States
  <2>2. Sound(st.proposal, st.precedents)' = Sound(st.proposal, st.precedents)
    BY <1>9, <2>1 DEF Verify, Unmoved, Sound
  <2>3. run' = "active" /\ node' = Route(st')
    BY <1>9 DEF Verify, At, Step
  <2>4. CASE st.escalated
    <3>1. Route(st') = "escalate"
      BY <2>1, <2>4 DEF Route
    <3> QED
      BY <1>9, <2>1, <2>3, <2>4, <3>1 DEF Verify, At, Nodes
  <2>5. CASE ~st.escalated /\ st'.verified
    <3>1. Route(st') = "finalize"
      BY <2>1, <2>5 DEF Route
    <3> QED
      BY <1>9, <2>1, <2>2, <2>3, <2>5, <3>1 DEF Verify, At, Nodes
  <2>6. CASE ~st.escalated /\ ~st'.verified
    <3>1. st.proposal \in Proposals /\ ~Sound(st.proposal, st.precedents)
      BY <1>9, <2>1, <2>6, NoProposalIsNone DEF Verify, At
    <3>2. \/ Route(st') = "escalate" /\ st.revisions >= MaxRevisions
          \/ Route(st') = "revise"
      BY <2>1, <2>6 DEF Route
    <3> QED
      BY <1>9, <2>1, <2>2, <2>3, <2>6, <3>1, <3>2 DEF Verify, At, Nodes
  <2> QED
    BY <2>4, <2>5, <2>6
<1>10. CASE Finalize
  <2>1. st'.proposal = st.proposal /\ st'.precedents = st.precedents
    BY <1>10, <1>1 DEF Finalize, States
  <2>2. Sound(st.proposal, st.precedents)' = Sound(st.proposal, st.precedents)
    BY <1>10, <2>1 DEF Finalize, Unmoved, Sound
  <2>3. CASE st.proposal.confident
    <3>1. ~st'.escalated /\ st'.code = st.proposal.code
      BY <1>10, <2>3, <1>1 DEF Finalize, States
    <3> QED
      BY <1>10, <2>1, <2>2, <2>3, <3>1 DEF Finalize, At, Step, Return, Nodes
  <2>4. CASE ~st.proposal.confident
    <3>1. st'.escalated /\ st'.code = "escalated_low_confidence"
      BY <1>10, <2>4, <1>1 DEF Finalize, States
    <3> QED
      BY <1>10, <2>1, <2>2, <2>4, <3>1 DEF Finalize, At, Return
  <2> QED
    BY <2>3, <2>4
<1>11. CASE Escalate
  <2>1. st'.proposal = st.proposal /\ st'.precedents = st.precedents /\ st'.revisions = st.revisions
    BY <1>11, <1>1 DEF Escalate, States
  <2>2. Sound(st.proposal, st.precedents)' = Sound(st.proposal, st.precedents)
    BY <1>11, <2>1 DEF Escalate, Unmoved, Sound
  <2>3. CASE st.escalated
    <3>1. st' = st
      BY <1>11, <2>3 DEF Escalate, At, ModelFailures
    <3> QED
      BY <1>11, <2>3, <3>1 DEF Escalate, At, Return
  <2>4. CASE ~st.escalated
    <3>1. st'.escalated /\ st'.code = "escalated_verify_failed"
      BY <1>11, <2>4, <1>1 DEF Escalate, States
    <3>2. st.revisions = MaxRevisions
      BY <1>11, <2>4, <1>1, InvestigationAssumption DEF Escalate, At, CallInv, States
    <3> QED
      BY <1>11, <2>1, <2>2, <2>4, <3>1, <3>2 DEF Escalate, At, Return
  <2> QED
    BY <2>3, <2>4
<1>12. CASE Pause
  BY <1>12 DEF Pause, At, Return, Unmoved, Sound
<1>13. CASE Resume
  <2>1. /\ st'.proposal = st.proposal
        /\ st'.precedents = st.precedents
        /\ st'.escalated = st.escalated
        /\ st'.human # "corrected" => st'.code = st.code
    BY <1>13, <1>1 DEF Resume, States
  <2> QED
    BY <1>13, <2>1 DEF Resume, Unmoved, Sound
<1>14. CASE InvestigateRaises \/ Crash
  BY <1>14 DEF InvestigateRaises, Crash, At, Abandon, Nodes
<1> HIDE DEF Goal, IInv, FlowInv, AcceptedIsVerified, EscalationsNameTheirCause
<1> QED
  BY <1>2, <1>3, <1>4, <1>5, <1>6, <1>7, <1>8, <1>9, <1>10, <1>11, <1>12, <1>13, <1>14
  DEF Next, GraphStep

----------------------------------------------------------------------------
(* The theorems. *)

\* IInv holds in every reachable state.
THEOREM InductiveInvariant == Spec => []IInv
<1>1. IInv /\ [Next]_vars => IInv'
  BY TypeStep, ToolStep, CallStep, FlowStep DEF IInv
<1> QED
  BY InitInv, <1>1, PTL DEF Spec

\* Every variable keeps its type: a checkpoint is always a state a node can read.
THEOREM TypeCorrect == Spec => []TypeOK
BY InductiveInvariant, PTL DEF IInv

\* For every cap, and however often a case is invoked again, tool and model calls stay
\* within what investigate and the cycle of verify and revise allow.
THEOREM BudgetsHold == Spec => []Budgets
<1>1. IInv => Budgets
  <2> SUFFICES ASSUME IInv PROVE Budgets
    OBVIOUS
  <2> USE InvestigationAssumption DEF IInv, TypeOK, States
  <2>1. st.tools + newCalls <= MaxToolCalls * invocations
    <3>1. MaxToolCalls * invocations = MaxToolCalls * (invocations - 1) + MaxToolCalls
      BY OneMoreCap
    <3> DEFINE before == MaxToolCalls * (invocations - 1)
               after == MaxToolCalls * invocations
    <3>2. before \in Int /\ after \in Int /\ after = before + MaxToolCalls
      BY <3>1
    <3>3. Gathering => st.tools <= before
      BY DEF ToolInv
    <3>4. ~Gathering => st.tools <= after /\ newCalls = 0
      BY DEF ToolInv, Gathering, Active
    <3> HIDE DEF before, after
    <3>5. st.tools + newCalls <= after
      BY <3>2, <3>3, <3>4
    <3> QED
      BY <3>5 DEF after
  <2> QED
    BY <2>1 DEF Budgets, CallInv
<1> QED
  BY InductiveInvariant, <1>1, PTL

\* What the gate or the caller is given as resolved was verified against the case and the
\* precedents retrieved for it, for every case and corpus.
THEOREM OnlyVerifiedAccepted == Spec => []AcceptedIsVerified
BY InductiveInvariant, PTL DEF IInv

\* An escalation names what went wrong in its own invocation, whatever an earlier one left.
THEOREM EscalationsExplained == Spec => []EscalationsNameTheirCause
BY InductiveInvariant, PTL DEF IInv
=============================================================================
