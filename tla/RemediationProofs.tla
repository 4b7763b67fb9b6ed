-------------------------- MODULE RemediationProofs --------------------------
(***************************************************************************)
(* What holds of Remediation for every set of requests, every ceiling and  *)
(* every number of workers.  The argument is one inductive invariant: how  *)
(* the place of a handler, the row it wrote and the fate of its call go    *)
(* together (RequestFits), that a refund that was made has a call to show  *)
(* for it (MovedByACall), and that a key has one live row (OneLiveClaim).  *)
(***************************************************************************)
EXTENDS Remediation, FiniteFacts

BeforeTheCall == {"idle", "lookup", "ceiling", "refuse", "reserve", "refusal_open"}

\* The row, the call and the place of one request.
RowFits(q) ==
  /\ pc[q] \in BeforeTheCall => rows[q] = "absent"
  /\ pc[q] \in {"send", "await", "refund_open"} => rows[q] = "approved"
  /\ pc[q] \in BeforeTheCall \union {"send"} => net[q] = "none"
  /\ pc[q] = "refund_open" => net[q] = "ok"
  /\ rows[q] \in {"absent", "refused"} => net[q] = "none"
  /\ rows[q] = "failed" => net[q] = "rejected"
  /\ rows[q] = "executed" => net[q] = "ok"
  /\ net[q] = "ok" => IntentOf[q] \in moved

\* What the operator was told, and what it was told on.
AnswerFits(q) ==
  /\ pc[q] \in {"idle"} \union Inside => answer[q] = "none"
  /\ answer[q] = "refunded" => net[q] = "ok"
  /\ answer[q] = "replayed" => IntentOf[q] \in moved
  /\ answer[q] \in {"rejected", "refused", "blocked", "not_proposed"}
       => net[q] \in {"none", "rejected"}

RequestFits == \A q \in Req : RowFits(q) /\ AnswerFits(q)

MovedByACall ==
  \A r \in moved : \E q \in Req : IntentOf[q] = r /\ net[q] \in {"ok", "error"}

IInv == TypeOK /\ RequestFits /\ MovedByACall /\ OneLiveClaim

----------------------------------------------------------------------------
(* The state stays well typed. *)

\* The empty table is well typed.
LEMMA TypeInit == Init => TypeOK
  BY RequestAssumption DEF Init, TypeOK, Decisions, Statuses, Places, Calls, Answers

\* Every action keeps the types.
LEMMA TypeStep == TypeOK /\ [Next]_vars => TypeOK'
<1> SUFFICES ASSUME TypeOK, [Next]_vars PROVE TypeOK'
  OBVIOUS
<1> USE RequestAssumption
    DEF TypeOK, Decisions, Statuses, Places, Inside, Open, Calls, Answers, durable, Goto, Tell, End
<1>1. CASE Review
  BY <1>1 DEF Review, BeginReview, AbandonReview, CommitReview
<1>2. CASE Crash
  BY <1>2 DEF Crash
<1>3. ASSUME NEW q \in Req, NEW action \in {"approved", "refused"}, Propose(q, action)
      PROVE TypeOK'
  BY <1>3 DEF Propose
<1>4. ASSUME NEW q \in Req, Handler(q) PROVE TypeOK'
  <2>1. CASE Lookup(q)
    BY <2>1 DEF Lookup
  <2>2. CASE CheckCeiling(q)
    BY <2>2 DEF CheckCeiling
  <2>3. CASE Refuse(q)
    BY <2>3 DEF Refuse
  <2>4. CASE Reserve(q)
    BY <2>4 DEF Reserve
  <2>5. CASE Send(q)
    BY <2>5 DEF Send
  <2>6. CASE OnSuccess(q)
    BY <2>6 DEF OnSuccess
  <2>7. CASE OnUnreadableAnswer(q)
    BY <2>7 DEF OnUnreadableAnswer
  <2>8. CASE OnRejected(q)
    BY <2>8 DEF OnRejected
  <2>9. CASE OnUnknown(q)
    BY <2>9 DEF OnUnknown
  <2>10. CASE LockTimeout(q)
    BY <2>10 DEF LockTimeout
  <2>11. CASE CommitRequest(q)
    BY <2>11 DEF CommitRequest
  <2> QED
    BY <1>4, <2>1, <2>2, <2>3, <2>4, <2>5, <2>6, <2>7, <2>8, <2>9, <2>10, <2>11 DEF Handler
<1>5. ASSUME NEW q \in Req, Provider(q) PROVE TypeOK'
  BY <1>5 DEF Provider, ProviderRefunds, ProviderRejects, ProviderConflicts, ProviderFails
<1>6. CASE UNCHANGED vars
  BY <1>6 DEF vars
<1> QED
  BY <1>1, <1>2, <1>3, <1>4, <1>5, <1>6 DEF Next

\* Every variable keeps to the values the schema, the handlers and the client can give it.
THEOREM TypeCorrect == Spec => []TypeOK
  BY TypeInit, TypeStep, PTL DEF Spec
----------------------------------------------------------------------------
(* The row, the call and the answer of every request stay in step. *)

\* The empty table satisfies the invariant.
LEMMA FitsInit == Init => IInv
  BY TypeInit, RequestAssumption
  DEF Init, IInv, RequestFits, RowFits, AnswerFits, MovedByACall, OneLiveClaim, Live,
      BeforeTheCall, Inside

\* No step takes row, call, place and answer of a request out of step.
LEMMA FitsStep == IInv /\ [Next]_vars => RequestFits'
<1> SUFFICES ASSUME IInv, [Next]_vars, TypeOK', NEW p \in Req
             PROVE (RowFits(p) /\ AnswerFits(p))'
  BY TypeStep DEF IInv, RequestFits
<1> RowFits(p) /\ AnswerFits(p) /\ TypeOK
  BY DEF IInv, RequestFits
<1> USE RequestAssumption
    DEF RowFits, AnswerFits, TypeOK, BeforeTheCall, Inside, Open, durable, Goto, Tell, End
<1>1. CASE Review
  BY <1>1 DEF Review, BeginReview, AbandonReview, CommitReview
<1>2. CASE Crash
  BY <1>2 DEF Crash
<1>3. ASSUME NEW q \in Req, NEW action \in {"approved", "refused"}, Propose(q, action)
      PROVE (RowFits(p) /\ AnswerFits(p))'
  BY <1>3 DEF Propose
<1>4. ASSUME NEW q \in Req, Handler(q) PROVE (RowFits(p) /\ AnswerFits(p))'
  <2>1. CASE Lookup(q)
    <3>1. ASSUME NEW c \in LiveClaims(IntentOf[q]), rows[c] = "executed"
          PROVE IntentOf[q] \in moved
      <4>1. c \in Req /\ IntentOf[c] = IntentOf[q]
        BY <3>1 DEF LiveClaims, Live
      <4>2. RowFits(c)
        BY <4>1 DEF IInv, RequestFits
      <4> QED
        BY <3>1, <4>1, <4>2
    <3> QED
      BY <2>1, <3>1 DEF Lookup
  <2>2. CASE CheckCeiling(q)
    BY <2>2 DEF CheckCeiling
  <2>3. CASE Refuse(q)
    BY <2>3 DEF Refuse
  <2>4. CASE Reserve(q)
    BY <2>4 DEF Reserve
  <2>5. CASE Send(q)
    BY <2>5 DEF Send
  <2>6. CASE OnSuccess(q)
    BY <2>6 DEF OnSuccess
  <2>7. CASE OnUnreadableAnswer(q)
    BY <2>7 DEF OnUnreadableAnswer
  <2>8. CASE OnRejected(q)
    BY <2>8 DEF OnRejected
  <2>9. CASE OnUnknown(q)
    BY <2>9 DEF OnUnknown
  <2>10. CASE LockTimeout(q)
    BY <2>10 DEF LockTimeout, NeedsLock
  <2>11. CASE CommitRequest(q)
    BY <2>11 DEF CommitRequest
  <2> QED
    BY <1>4, <2>1, <2>2, <2>3, <2>4, <2>5, <2>6, <2>7, <2>8, <2>9, <2>10, <2>11 DEF Handler
<1>5. ASSUME NEW q \in Req, Provider(q) PROVE (RowFits(p) /\ AnswerFits(p))'
  <2>1. CASE ProviderRefunds(q)
    BY <2>1 DEF ProviderRefunds
  <2>2. CASE ProviderRejects(q)
    BY <2>2 DEF ProviderRejects
  <2>3. CASE ProviderConflicts(q)
    BY <2>3 DEF ProviderConflicts
  <2>4. ASSUME NEW made \in BOOLEAN, ProviderFails(q, made)
        PROVE (RowFits(p) /\ AnswerFits(p))'
    BY <2>4 DEF ProviderFails
  <2> QED
    BY <1>5, <2>1, <2>2, <2>3, <2>4 DEF Provider
<1>6. CASE UNCHANGED vars
  BY <1>6 DEF vars
<1> QED
  BY <1>1, <1>2, <1>3, <1>4, <1>5, <1>6 DEF Next
----------------------------------------------------------------------------
(* A refund that was made has its call, and a key has one live row. *)

\* A refund the provider makes leaves its call behind, and no call is forgotten.
LEMMA MovedStep == IInv /\ [Next]_vars => MovedByACall'
<1> SUFFICES ASSUME IInv, [Next]_vars PROVE MovedByACall'
  OBVIOUS
<1> USE DEF IInv, MovedByACall, TypeOK, durable
<1>1. CASE UNCHANGED <<net, moved>>
  BY <1>1
<1>2. ASSUME NEW q \in Req, Send(q) PROVE MovedByACall'
  \* the call that leaves is a first call: no refund rests on its previous answer
  <2>1. net[q] = "none"
    BY <1>2 DEF Send, RequestFits, RowFits, BeforeTheCall
  <2> QED
    BY <1>2, <2>1 DEF Send
<1>3. ASSUME NEW q \in Req, Provider(q) PROVE MovedByACall'
  BY <1>3, RequestAssumption
  DEF Provider, ProviderRefunds, ProviderRejects, ProviderConflicts, ProviderFails
<1>4. ASSUME NEW q \in Req, Handler(q), ~Send(q) PROVE UNCHANGED <<net, moved>>
  BY <1>4 DEF Handler, Lookup, CheckCeiling, Refuse, Reserve, OnSuccess, OnUnreadableAnswer,
              OnRejected, OnUnknown, LockTimeout, CommitRequest
<1>5. CASE Review \/ Crash \/ UNCHANGED vars
  BY <1>1, <1>5 DEF Review, BeginReview, AbandonReview, CommitReview, Crash, vars
<1>6. ASSUME NEW q \in Req, NEW action \in {"approved", "refused"}, Propose(q, action)
      PROVE MovedByACall'
  BY <1>1, <1>6 DEF Propose
<1> QED
  BY <1>1, <1>2, <1>3, <1>4, <1>5, <1>6 DEF Next

\* The live rows of a step: only a reservation adds one, and only where the key was free.
LEMMA LiveStep ==
  ASSUME IInv, [Next]_vars
  PROVE \/ Live' \subseteq Live
        \/ \E q \in Req : /\ Reserve(q)
                         /\ LiveClaims(IntentOf[q]) = {}
                         /\ Live' = Live \union {q}
<1> USE DEF IInv, TypeOK, Live, durable
<1>1. CASE UNCHANGED rows
  BY <1>1
<1>2. ASSUME NEW q \in Req, Reserve(q), LiveClaims(IntentOf[q]) = {}
      PROVE Live' = Live \union {q}
  BY <1>2 DEF Reserve
<1>3. ASSUME NEW q \in Req, Reserve(q), LiveClaims(IntentOf[q]) # {} PROVE UNCHANGED rows
  BY <1>3 DEF Reserve
<1>4. ASSUME NEW q \in Req, OnRejected(q) PROVE Live' \subseteq Live
  BY <1>4 DEF OnRejected
<1>5. ASSUME NEW q \in Req, CommitRequest(q) PROVE Live' \subseteq Live
  BY <1>5 DEF CommitRequest, Open, RequestFits, RowFits
<1>6. ASSUME NEW q \in Req, Handler(q), ~Reserve(q), ~OnRejected(q), ~CommitRequest(q)
      PROVE UNCHANGED rows
  BY <1>6 DEF Handler, Lookup, CheckCeiling, Refuse, Send, OnSuccess, OnUnreadableAnswer,
              OnUnknown, LockTimeout
<1>7. ASSUME NEW q \in Req, Provider(q) PROVE UNCHANGED rows
  BY <1>7 DEF Provider, ProviderRefunds, ProviderRejects, ProviderConflicts, ProviderFails
<1>8. ASSUME NEW q \in Req, NEW action \in {"approved", "refused"}, Propose(q, action)
      PROVE UNCHANGED rows
  BY <1>8 DEF Propose
<1>9. CASE Review \/ Crash \/ UNCHANGED vars
  BY <1>1, <1>9 DEF Review, BeginReview, AbandonReview, CommitReview, Crash, vars
<1>10. CASE \E q \in Req : Handler(q)
  <2> SUFFICES ASSUME NEW q \in Req, Handler(q)
               PROVE \/ Live' \subseteq Live
                     \/ Reserve(q) /\ LiveClaims(IntentOf[q]) = {} /\ Live' = Live \union {q}
    BY <1>10
  <2>1. UNCHANGED rows => Live' \subseteq Live
    BY <1>1
  <2> QED
    BY ONLY <1>2, <1>3, <1>4, <1>5, <1>6, <2>1, q \in Req, Handler(q)
<1>11. CASE \E q \in Req : Provider(q) \/ \E action \in {"approved", "refused"} : Propose(q, action)
  BY ONLY <1>1, <1>7, <1>8, <1>11
<1> QED
  BY ONLY <1>9, <1>10, <1>11, [Next]_vars DEF Next

\* A reservation goes in only where its key has no live row.
LEMMA OneClaimStep == IInv /\ [Next]_vars => OneLiveClaim'
<1> SUFFICES ASSUME IInv, [Next]_vars PROVE OneLiveClaim'
  OBVIOUS
<1>1. CASE Live' \subseteq Live
  BY <1>1 DEF IInv, OneLiveClaim
<1>2. ASSUME NEW q \in Req, LiveClaims(IntentOf[q]) = {}, Live' = Live \union {q}
      PROVE OneLiveClaim'
  BY <1>2 DEF IInv, OneLiveClaim, LiveClaims
<1> QED
  BY <1>1, <1>2, LiveStep

\* Row, call, place and answer of every request stay in step; every refund made has its
\* call; every key has at most one live row.
THEOREM InductiveInvariant == Spec => []IInv
<1>1. IInv /\ [Next]_vars => IInv'
  BY TypeStep, FitsStep, MovedStep, OneClaimStep DEF IInv
<1> QED
  BY <1>1, FitsInit, PTL DEF Spec
----------------------------------------------------------------------------
(* The safety properties the runs check. *)

\* No money moves without a committed row that counts against the ceiling: a call on the
\* wire still has its reservation, and a refund that was made has kept its live row.
THEOREM ReservationPrecedesMoney == Spec => []MoneyIsReserved
<1>1. IInv => MoneyIsReserved
  BY DEF IInv, TypeOK, Statuses, RequestFits, RowFits, MovedByACall, MoneyIsReserved, Live,
         LiveClaims
<1> QED
  BY <1>1, InductiveInvariant, PTL

\* One intent has at most one call whose outcome is not a definite rejection: the calls
\* that are not rejected have live rows, and a key has one.
THEOREM NoSecondCall == Spec => []NeverSentTwice
<1>1. IInv => NeverSentTwice
  BY DEF IInv, TypeOK, Statuses, RequestFits, RowFits, OneLiveClaim, NeverSentTwice, Live
<1> QED
  BY <1>1, InductiveInvariant, PTL

\* What an operator was told about the money is never contradicted later, although a
\* "refunded" goes out before its commit and the process may die in between.
THEOREM ToldTheTruth == Spec => []AnswersStayTrue
<1>1. IInv => AnswersStayTrue
  BY DEF IInv, RequestFits, RowFits, AnswerFits, AnswersStayTrue
<1> QED
  BY <1>1, InductiveInvariant, PTL

----------------------------------------------------------------------------
(* No refund call without the first gate. *)

\* A request that was never let past the first gate stands at its door or has ended.
NeverLetIn(q) == pc[q] \in {"idle", "done", "dead"} /\ net[q] = "none"

\* Without a reviewed duplicate charge a request is turned away at the door.
LEMMA NotLetInStep ==
  ASSUME NEW q \in Req, TypeOK, NeverLetIn(q), decision[IntentOf[q]] # "duplicate", [Next]_vars
  PROVE NeverLetIn(q)'
<1> USE DEF TypeOK, NeverLetIn, durable, Goto, End, Tell
<1>1. ASSUME NEW p \in Req, Handler(p) PROVE NeverLetIn(q)'
  BY <1>1 DEF Handler, Lookup, CheckCeiling, Refuse, Reserve, Send, OnSuccess,
              OnUnreadableAnswer, OnRejected, OnUnknown, LockTimeout, NeedsLock,
              CommitRequest, Open
<1>2. ASSUME NEW p \in Req, Provider(p) PROVE NeverLetIn(q)'
  BY <1>2 DEF Provider, ProviderRefunds, ProviderRejects, ProviderConflicts, ProviderFails
<1>3. ASSUME NEW p \in Req, NEW action \in {"approved", "refused"}, Propose(p, action)
      PROVE NeverLetIn(q)'
  BY <1>3 DEF Propose
<1>4. CASE Review
  BY <1>4 DEF Review, BeginReview, AbandonReview, CommitReview
<1>5. CASE Crash
  BY <1>5 DEF Crash, Inside, Open
<1>6. CASE UNCHANGED vars
  BY <1>6 DEF vars
<1> QED
  BY <1>1, <1>2, <1>3, <1>4, <1>5, <1>6 DEF Next

\* The second gate never opens on its own: as long as a resolution is not a confirmed or
\* corrected duplicate charge, no request for it has sent a refund call.
THEOREM NoCallWithoutReview == Spec => FirstGateFirst
<1> SUFFICES ASSUME NEW q \in Req
             PROVE Spec => ([](decision[IntentOf[q]] # "duplicate") => [](net[q] = "none"))
  BY DEF FirstGateFirst
<1>1. Init => NeverLetIn(q)
  BY DEF Init, NeverLetIn
<1>2. TypeOK /\ NeverLetIn(q) /\ decision[IntentOf[q]] # "duplicate" /\ [Next]_vars
        => NeverLetIn(q)'
  BY NotLetInStep
<1>3. NeverLetIn(q) => net[q] = "none"
  BY DEF NeverLetIn
<1> QED
  BY <1>1, <1>2, <1>3, TypeCorrect, PTL DEF Spec
----------------------------------------------------------------------------
(* The table and the provider implement the refund ledger. *)

\* With one live row a key, the claim of a resolution is read off that row.
ClaimIsItsRow ==
  \A r \in Resolution :
    /\ ClaimOf(r) = "free" <=> LiveClaims(r) = {}
    /\ \A q \in LiveClaims(r) :
         ClaimOf(r) = IF rows[q] = "executed" THEN "spent" ELSE "held"

\* One live row a key, so the row decides the claim.
LEMMA ClaimByRow == IInv => ClaimIsItsRow
<1> SUFFICES ASSUME IInv, NEW r \in Resolution
             PROVE /\ ClaimOf(r) = "free" <=> LiveClaims(r) = {}
                   /\ \A q \in LiveClaims(r) :
                        ClaimOf(r) = IF rows[q] = "executed" THEN "spent" ELSE "held"
  BY DEF ClaimIsItsRow
<1>1. \A p, q \in LiveClaims(r) : p = q
  BY DEF IInv, OneLiveClaim, LiveClaims
<1>2. \A q \in LiveClaims(r) : rows[q] \in {"approved", "executed"}
  BY DEF LiveClaims, Live
<1> QED
  BY <1>1, <1>2 DEF ClaimOf

\* The same after a step.
LEMMA ClaimByRowNext == ASSUME IInv' PROVE ClaimIsItsRow'
  BY ClaimByRow, PTL

\* The ledger stands still where neither the rows nor the money change.
LEMMA LedgerStutters ==
  UNCHANGED <<rows, moved>> => UNCHANGED Ledger!ledgerVars
  BY DEF Ledger!ledgerVars, ClaimOf, LiveClaims, Live

\* The empty table is the empty ledger.
LEMMA LedgerInitially == Init => Ledger!LedgerInit
  BY DEF Init, Ledger!LedgerInit, ClaimOf, LiveClaims, Live

\* A step that changes rows or money changes them for one resolution.
LEMMA ClaimUntouched ==
  ASSUME IInv, IInv', NEW q \in Req, NEW r \in Resolution, r # IntentOf[q],
         NEW s \in Statuses, rows' = [rows EXCEPT ![q] = s]
  PROVE ClaimOf(r)' = ClaimOf(r)
<1>1. \A p \in LiveClaims(r) \union LiveClaims(r)' : p # q
  BY DEF LiveClaims
<1>2. \A p \in Req : p # q => rows'[p] = rows[p]
  BY DEF IInv, TypeOK
<1>3. LiveClaims(r)' = LiveClaims(r)
  BY <1>1, <1>2 DEF LiveClaims, Live
<1>4. \A p \in LiveClaims(r) : p \in Req /\ rows'[p] = rows[p]
  BY <1>1, <1>2 DEF LiveClaims, Live
<1> QED
  BY <1>3, <1>4 DEF ClaimOf
(* The four steps that do something to the ledger. *)

\* A reservation claims its intent, unless the unique index refuses it.
LEMMA ReserveClaims ==
  ASSUME IInv, IInv', NEW q \in Req, Reserve(q)
  PROVE Ledger!Claim(IntentOf[q]) \/ UNCHANGED Ledger!ledgerVars
<1> DEFINE r == IntentOf[q]
<1>1. r \in Resolution
  BY RequestAssumption
<1>2. CASE LiveClaims(r) # {}
  BY <1>2, LedgerStutters DEF Reserve
<1>3. CASE LiveClaims(r) = {}
  <2>1. rows' = [rows EXCEPT ![q] = "approved"] /\ moved' = moved
    BY <1>3 DEF Reserve
  <2>2. q \in LiveClaims(r)' /\ rows'[q] = "approved"
    BY <2>1 DEF IInv, TypeOK, LiveClaims, Live
  <2>3. ClaimOf(r) = "free" /\ ClaimOf(r)' = "held"
    BY <1>1, <1>3, <2>2, ClaimByRow, ClaimByRowNext DEF ClaimIsItsRow
  <2>4. \A s \in Resolution : s # r => ClaimOf(s)' = ClaimOf(s)
    BY <2>1, ClaimUntouched DEF Statuses
  <2> QED
    BY <1>1, <2>1, <2>3, <2>4 DEF Ledger!Claim
<1> QED
  BY <1>2, <1>3

\* A refund moves money under a held claim, at most once.
LEMMA ProviderMoves ==
  ASSUME IInv, NEW q \in Req, Provider(q)
  PROVE Ledger!Move(IntentOf[q]) \/ UNCHANGED Ledger!ledgerVars
<1> DEFINE r == IntentOf[q]
<1>1. r \in Resolution
  BY RequestAssumption
<1>2. rows' = rows /\ (moved' = moved \/ moved' = moved \union {r}) /\ net[q] = "wire"
  BY DEF Provider, ProviderRefunds, ProviderRejects, ProviderConflicts, ProviderFails, durable
<1>3. \A s \in Resolution : ClaimOf(s)' = ClaimOf(s)
  BY <1>2 DEF ClaimOf, LiveClaims, Live
<1>4. rows[q] = "approved" /\ q \in LiveClaims(r)
  BY <1>2 DEF IInv, TypeOK, Statuses, RequestFits, RowFits, LiveClaims, Live
<1>5. ClaimOf(r) = "held"
  BY <1>1, <1>4, ClaimByRow DEF ClaimIsItsRow
<1> QED
  BY <1>1, <1>2, <1>3, <1>5, LedgerStutters DEF Ledger!Move

\* A rejection releases the claim, and no money has moved under it.
LEMMA RejectionReleases ==
  ASSUME IInv, IInv', NEW q \in Req, OnRejected(q)
  PROVE Ledger!Release(IntentOf[q])
<1> DEFINE r == IntentOf[q]
<1>1. r \in Resolution
  BY RequestAssumption
<1>2. /\ rows' = [rows EXCEPT ![q] = "failed"] /\ moved' = moved
      /\ pc[q] = "await" /\ net[q] = "rejected"
  BY DEF OnRejected
<1>3. rows[q] = "approved" /\ q \in LiveClaims(r)
  BY <1>2 DEF IInv, RequestFits, RowFits, LiveClaims, Live
<1>4. LiveClaims(r)' = {}
  BY <1>2, <1>3 DEF IInv, TypeOK, OneLiveClaim, LiveClaims, Live
<1>5. ClaimOf(r) = "held" /\ ClaimOf(r)' = "free"
  BY <1>1, <1>3, <1>4, ClaimByRow, ClaimByRowNext DEF ClaimIsItsRow
<1>6. r \notin moved
  \* the call that would have moved it has a live row too, so it is the rejected one
  <2> SUFFICES ASSUME r \in moved PROVE FALSE
    OBVIOUS
  <2>1. PICK p \in Req : IntentOf[p] = r /\ net[p] \in {"ok", "error"}
    BY DEF IInv, MovedByACall
  <2>2. p \in Live /\ q \in Live
    BY <1>3, <2>1 DEF IInv, TypeOK, Statuses, RequestFits, RowFits, Live
  <2>3. p = q
    BY <2>1, <2>2 DEF IInv, OneLiveClaim
  <2> QED
    BY <1>2, <2>1, <2>3
<1>7. \A s \in Resolution : s # r => ClaimOf(s)' = ClaimOf(s)
  BY <1>2, ClaimUntouched DEF Statuses
<1> QED
  BY <1>1, <1>2, <1>5, <1>6, <1>7 DEF Ledger!Release

\* Booking a refund spends the claim; booking a refusal touches none.
LEMMA CommitConfirms ==
  ASSUME IInv, IInv', NEW q \in Req, CommitRequest(q)
  PROVE Ledger!Confirm(IntentOf[q]) \/ UNCHANGED Ledger!ledgerVars
<1> DEFINE r == IntentOf[q]
<1>1. r \in Resolution
  BY RequestAssumption
<1>2. CASE pc[q] = "refund_open"
  <2>1. rows' = [rows EXCEPT ![q] = "executed"] /\ moved' = moved
    BY <1>2 DEF CommitRequest
  <2>2. rows[q] = "approved" /\ q \in LiveClaims(r) /\ r \in moved
    BY <1>2 DEF IInv, RequestFits, RowFits, LiveClaims, Live
  <2>3. rows'[q] = "executed" /\ q \in LiveClaims(r)'
    BY <2>1 DEF IInv, TypeOK, LiveClaims, Live
  <2>4. ClaimOf(r) = "held" /\ ClaimOf(r)' = "spent"
    BY <1>1, <2>2, <2>3, ClaimByRow, ClaimByRowNext DEF ClaimIsItsRow
  <2>5. \A s \in Resolution : s # r => ClaimOf(s)' = ClaimOf(s)
    BY <2>1, ClaimUntouched DEF Statuses
  <2> QED
    BY <1>1, <2>1, <2>2, <2>4, <2>5 DEF Ledger!Confirm
<1>3. CASE pc[q] = "refusal_open"
  <2>1. rows' = [rows EXCEPT ![q] = "refused"] /\ moved' = moved /\ rows[q] = "absent"
    BY <1>3 DEF CommitRequest, IInv, RequestFits, RowFits, BeforeTheCall
  <2>2. Live' = Live /\ \A p \in Live : rows'[p] = rows[p]
    BY <2>1 DEF IInv, TypeOK, Live
  <2>3. \A s \in Resolution : ClaimOf(s)' = ClaimOf(s)
    BY <2>2 DEF ClaimOf, LiveClaims
  <2> QED
    BY <2>1, <2>3 DEF Ledger!ledgerVars
<1> QED
  BY <1>2, <1>3 DEF CommitRequest, Open
\* Every step of the refund path is a step of the ledger or a stutter.
LEMMA LedgerStep == IInv /\ IInv' /\ [Next]_vars => [Ledger!LedgerNext]_(Ledger!ledgerVars)
<1> SUFFICES ASSUME IInv, IInv', [Next]_vars
             PROVE Ledger!LedgerNext \/ UNCHANGED Ledger!ledgerVars
  OBVIOUS
<1> USE DEF durable
<1>1. ASSUME NEW q \in Req, Reserve(q) \/ Provider(q) \/ OnRejected(q) \/ CommitRequest(q)
      PROVE Ledger!LedgerNext \/ UNCHANGED Ledger!ledgerVars
  <2>1. IntentOf[q] \in Resolution
    BY RequestAssumption
  <2> QED
    BY <1>1, <2>1, ReserveClaims, ProviderMoves, RejectionReleases, CommitConfirms
    DEF Ledger!LedgerNext
<1>2. ASSUME NEW q \in Req, Handler(q), ~Reserve(q), ~OnRejected(q), ~CommitRequest(q)
      PROVE UNCHANGED <<rows, moved>>
  BY <1>2 DEF Handler, Lookup, CheckCeiling, Refuse, Send, OnSuccess, OnUnreadableAnswer,
              OnUnknown, LockTimeout
<1>3. ASSUME NEW q \in Req, NEW action \in {"approved", "refused"}, Propose(q, action)
      PROVE UNCHANGED <<rows, moved>>
  BY <1>3 DEF Propose
<1>4. CASE Review \/ Crash \/ UNCHANGED vars
  BY <1>4, LedgerStutters
  DEF Review, BeginReview, AbandonReview, CommitReview, Crash, vars
<1> QED
  BY <1>1, <1>2, <1>3, <1>4, LedgerStutters DEF Next

\* Remediation implements RefundLedger: the claim precedes the money, is given back only
\* where the money certainly did not move, and is spent only where it did.
THEOREM LedgerImplemented == Spec => ImplementsLedger
  BY LedgerInitially, LedgerStep, InductiveInvariant, PTL DEF Spec, ImplementsLedger, Ledger!LedgerSpec
----------------------------------------------------------------------------
(* How far concurrent approvals overrun the ceiling, in refunds and in money. *)

\* The live rows and the requests that have passed the ceiling and have none yet.
Passed == {q \in Req : pc[q] = "reserve"}

CountInv ==
  /\ Cardinality(Running) <= Workers
  /\ Cardinality(Live \union Passed) <= MaxRefunds + Workers - 1

\* Sizes of sets of requests.
LEMMA FiniteSets ==
  /\ \A S \in SUBSET Req : IsFiniteSet(S) /\ Cardinality(S) \in Nat
  /\ \A S, T \in SUBSET Req : S \subseteq T => Cardinality(S) <= Cardinality(T)
  /\ \A S, T \in SUBSET Req : Cardinality(S \union T) <= Cardinality(S) + Cardinality(T)
<1>1. \A S \in SUBSET Req : IsFiniteSet(S) /\ Cardinality(S) \in Nat
  BY RequestAssumption, FS_Subset, FS_CardinalityType
<1>2. ASSUME NEW S \in SUBSET Req, NEW T \in SUBSET Req, S \subseteq T
      PROVE Cardinality(S) <= Cardinality(T)
  <2>1. S \in SUBSET T
    BY <1>2
  <2> QED
    BY <1>1, <2>1, FS_Subset
<1>3. ASSUME NEW S \in SUBSET Req, NEW T \in SUBSET Req
      PROVE Cardinality(S \union T) <= Cardinality(S) + Cardinality(T)
  <2>1. Cardinality(S \union T) = Cardinality(S) + Cardinality(T) - Cardinality(S \cap T)
    BY <1>1, FS_Union
  <2>2. /\ Cardinality(S) \in Nat /\ Cardinality(T) \in Nat
        /\ Cardinality(S \cap T) \in Nat
    BY <1>1
  <2> QED
    BY <2>1, <2>2
<1> QED
  BY <1>1, <1>2, <1>3

\* Nobody has passed the ceiling of an empty table.
LEMMA CountInit == Init => CountInv
<1> SUFFICES ASSUME Init PROVE CountInv
  OBVIOUS
<1>1. Running = {} /\ Live \union Passed = {}
  BY DEF Init, Running, Live, Passed, Inside
<1> QED
  BY <1>1, FS_EmptySet, CeilingAssumption DEF CountInv

\* A handler enters the pool only through Propose, and only where a worker is free.
LEMMA RunningStep ==
  ASSUME TypeOK, [Next]_vars
  PROVE \/ Running' \subseteq Running
        \/ /\ Cardinality(Running) < Workers
           /\ \E q \in Req : Running' \subseteq Running \union {q}
<1> USE DEF TypeOK, Running, Inside, Open, durable, Goto, End
<1>1. ASSUME NEW q \in Req, Handler(q) PROVE Running' \subseteq Running
  BY <1>1 DEF Handler, Lookup, CheckCeiling, Refuse, Reserve, Send, OnSuccess,
              OnUnreadableAnswer, OnRejected, OnUnknown, LockTimeout, CommitRequest
<1>2. ASSUME NEW q \in Req, NEW action \in {"approved", "refused"}, Propose(q, action)
      PROVE Running' \subseteq Running \union {q} /\ Cardinality(Running) < Workers
  BY <1>2 DEF Propose
<1>3. ASSUME NEW q \in Req, Provider(q) PROVE Running' \subseteq Running
  BY <1>3 DEF Provider, ProviderRefunds, ProviderRejects, ProviderConflicts, ProviderFails
<1>4. CASE Review \/ UNCHANGED vars
  BY <1>4 DEF Review, BeginReview, AbandonReview, CommitReview, vars
<1>5. CASE Crash
  BY <1>5 DEF Crash
<1> QED
  BY <1>1, <1>2, <1>3, <1>4, <1>5 DEF Next

\* A request joins the live rows and those about to be only by passing the ceiling.
LEMMA PassedStep ==
  ASSUME IInv, [Next]_vars
  PROVE \/ (Live \union Passed)' \subseteq Live \union Passed
        \/ \E q \in Req : CheckCeiling(q) /\ WithinCeiling(Amount[IntentOf[q]]) /\ Live' = Live
<1> USE DEF IInv, TypeOK, Live, Passed, Inside, Open, durable, Goto, End
<1>1. ASSUME NEW q \in Req, CheckCeiling(q), WithinCeiling(Amount[IntentOf[q]])
      PROVE Live' = Live
  BY <1>1 DEF CheckCeiling
<1>2. ASSUME NEW q \in Req, CheckCeiling(q), ~WithinCeiling(Amount[IntentOf[q]])
      PROVE (Live \union Passed)' \subseteq Live \union Passed
  BY <1>2 DEF CheckCeiling
<1>3. ASSUME NEW q \in Req, Handler(q), ~CheckCeiling(q)
      PROVE (Live \union Passed)' \subseteq Live \union Passed
  BY <1>3 DEF Handler, Lookup, Refuse, Reserve, Send, OnSuccess, OnUnreadableAnswer,
              OnRejected, OnUnknown, LockTimeout, CommitRequest, RequestFits, RowFits
<1>4. ASSUME NEW q \in Req, NEW action \in {"approved", "refused"}, Propose(q, action)
      PROVE (Live \union Passed)' \subseteq Live \union Passed
  BY <1>4 DEF Propose
<1>5. ASSUME NEW q \in Req, Provider(q)
      PROVE (Live \union Passed)' \subseteq Live \union Passed
  BY <1>5 DEF Provider, ProviderRefunds, ProviderRejects, ProviderConflicts, ProviderFails
<1>6. CASE Review \/ UNCHANGED vars
  BY <1>6 DEF Review, BeginReview, AbandonReview, CommitReview, vars
<1>7. CASE Crash
  BY <1>7 DEF Crash
<1> QED
  BY <1>1, <1>2, <1>3, <1>4, <1>5, <1>6, <1>7 DEF Next

\* A request passes the ceiling seeing fewer than MaxRefunds live rows, and those past it
\* with it are handlers at work.
LEMMA CountStep == IInv /\ CountInv /\ [Next]_vars => CountInv'
<1> SUFFICES ASSUME IInv, CountInv, [Next]_vars PROVE CountInv'
  OBVIOUS
<1>1. /\ Running \in SUBSET Req /\ Running' \in SUBSET Req
      /\ Live \in SUBSET Req /\ Live' \in SUBSET Req
      /\ Passed \in SUBSET Req /\ Passed' \in SUBSET Req
  BY DEF Running, Live, Passed
<1>2. Cardinality(Running') <= Workers
  <2>1. CASE Running' \subseteq Running
    <3>1. Cardinality(Running') <= Cardinality(Running)
      BY <1>1, <2>1, FiniteSets
    <3> QED
      BY <1>1, <3>1, FiniteSets, CeilingAssumption DEF CountInv
  <2>2. ASSUME Cardinality(Running) < Workers, NEW q \in Req,
               Running' \subseteq Running \union {q}
        PROVE Cardinality(Running') <= Workers
    <3>1. Cardinality(Running') <= Cardinality(Running \union {q})
      BY <1>1, <2>2, FiniteSets
    <3>2. Cardinality(Running \union {q}) <= Cardinality(Running) + 1
      BY <1>1, FiniteSets, FS_AddElement
    <3>3. /\ Cardinality(Running') \in Nat /\ Cardinality(Running) \in Nat
          /\ Cardinality(Running \union {q}) \in Nat
      BY <1>1, FiniteSets
    <3> QED
      BY <2>2, <3>1, <3>2, <3>3, CeilingAssumption
  <2> QED
    BY <2>1, <2>2, RunningStep DEF IInv
<1>3. Cardinality((Live \union Passed)') <= MaxRefunds + Workers - 1
  <2>1. CASE (Live \union Passed)' \subseteq Live \union Passed
    <3>1. Cardinality((Live \union Passed)') <= Cardinality(Live \union Passed)
      BY <1>1, <2>1, FiniteSets
    <3>2. Cardinality((Live \union Passed)') \in Nat /\ Cardinality(Live \union Passed) \in Nat
      BY <1>1, FiniteSets
    <3> QED
      BY <3>1, <3>2, CeilingAssumption DEF CountInv
  <2>2. ASSUME NEW q \in Req, WithinCeiling(Amount[IntentOf[q]]), Live' = Live
        PROVE Cardinality((Live \union Passed)') <= MaxRefunds + Workers - 1
    <3>1. Cardinality(Live) < MaxRefunds
      BY <2>2 DEF WithinCeiling
    <3>2. Cardinality(Passed') <= Cardinality(Running')
      <4>1. Passed' \subseteq Running'
        BY DEF Passed, Running, Inside
      <4> QED
        BY <1>1, <4>1, FiniteSets
    <3>3. Cardinality(Live' \union Passed') <= Cardinality(Live) + Cardinality(Passed')
      BY <1>1, <2>2, FiniteSets
    <3>4. /\ Cardinality(Live) \in Nat /\ Cardinality(Passed') \in Nat
          /\ Cardinality(Running') \in Nat /\ Cardinality(Live' \union Passed') \in Nat
      BY <1>1, FiniteSets
    <3> QED
      BY <1>2, <3>1, <3>2, <3>3, <3>4, CeilingAssumption
  <2> QED
    BY <2>1, <2>2, PassedStep
<1> QED
  BY <1>2, <1>3 DEF CountInv

\* What the live rows and those about to be are worth, and that none of the latter is worth
\* more than one call may be.
MoneyInv ==
  /\ \A q \in Passed : AmountOf[q] <= MaxSingle
  /\ SumOfAmounts(Live \union Passed) <= MaxTotal + (Workers - 1) * MaxSingle

\* Amounts are positive, so fewer requests are worth no more.
LEMMA AmountsOfSets ==
  /\ \A q \in Req : AmountOf[q] \in Nat /\ AmountOf[q] = Amount[IntentOf[q]]
  /\ \A S \in SUBSET Req : SumOfAmounts(S) \in Nat
  /\ \A S, T \in SUBSET Req : S \subseteq T => SumOfAmounts(S) <= SumOfAmounts(T)
<1>1. \A q \in Req : AmountOf[q] \in Nat /\ AmountOf[q] = Amount[IntentOf[q]]
  BY RequestAssumption DEF AmountOf
<1>2. ASSUME NEW T \in SUBSET Req, NEW S \in SUBSET T
      PROVE SumOfAmounts(S) \in Nat /\ SumOfAmounts(S) <= SumOfAmounts(T)
  <2>1. IsFiniteSet(T) /\ \A q \in T : AmountOf[q] \in Nat
    BY <1>1, FiniteSets
  <2> QED
    BY <2>1, SumOfPart DEF SumOfAmounts
<1> QED
  BY <1>1, <1>2

\* Two sets are worth together no more than each.
LEMMA AmountsOfUnion ==
  ASSUME NEW S \in SUBSET Req, NEW T \in SUBSET Req
  PROVE SumOfAmounts(S \union T) <= SumOfAmounts(S) + SumOfAmounts(T)
<1> DEFINE rest == T \ S
<1>1. IsFiniteSet(S) /\ IsFiniteSet(rest) /\ S \intersect rest = {} /\ S \union rest = S \union T
  BY FiniteSets
<1>2. \A q \in S \union rest : AmountOf[q] \in Int
  BY AmountsOfSets
<1>3. rest \in SUBSET Req /\ rest \subseteq T
  OBVIOUS
<1> HIDE DEF rest
<1>4. SumOfAmounts(S \union rest) = SumOfAmounts(S) + SumOfAmounts(rest)
  BY <1>1, <1>2, SumOfUnion DEF SumOfAmounts
<1>5. SumOfAmounts(rest) <= SumOfAmounts(T)
  BY <1>3, AmountsOfSets
<1>6. SumOfAmounts(S) \in Nat /\ SumOfAmounts(rest) \in Nat /\ SumOfAmounts(T) \in Nat
  BY <1>3, AmountsOfSets
<1>7. SumOfAmounts(S \union T) = SumOfAmounts(S \union rest)
  BY <1>1
<1> QED
  BY ONLY <1>4, <1>5, <1>6, <1>7

\* Nobody has passed the ceiling of an empty table.
LEMMA MoneyInit == Init => MoneyInv
<1> SUFFICES ASSUME Init PROVE MoneyInv
  OBVIOUS
<1>1. Passed = {} /\ Live \union Passed = {}
  BY DEF Init, Passed, Live
<1>2. SumOfAmounts({}) = 0
  BY SumOfNone DEF SumOfAmounts
<1>3. (Workers - 1) * MaxSingle \in Nat /\ MaxTotal \in Nat
  <2>1. Workers - 1 \in Nat /\ MaxSingle \in Nat
    BY CeilingAssumption
  <2> QED
    BY <2>1, CeilingAssumption
<1>4. SumOfAmounts(Live \union Passed) = 0
  BY <1>1, <1>2
<1>5. 0 <= MaxTotal + (Workers - 1) * MaxSingle
  BY <1>3
<1> QED
  BY <1>1, <1>4, <1>5 DEF MoneyInv

\* Passing the ceiling is the only way to "reserve", on an amount within the cap of a call.
LEMMA PassedWithinCap ==
  ASSUME IInv, [Next]_vars, NEW p \in Passed'
  PROVE p \in Passed \/ (CheckCeiling(p) /\ WithinCeiling(Amount[IntentOf[p]]))
<1> USE DEF IInv, TypeOK, Passed, Inside, Open, durable, Goto, End
<1>1. ASSUME NEW q \in Req, CheckCeiling(q)
      PROVE p \in Passed \/ (CheckCeiling(p) /\ WithinCeiling(Amount[IntentOf[p]]))
  BY <1>1 DEF CheckCeiling
<1>2. ASSUME NEW q \in Req, Handler(q), ~CheckCeiling(q) PROVE p \in Passed
  BY <1>2 DEF Handler, Lookup, Refuse, Reserve, Send, OnSuccess, OnUnreadableAnswer,
              OnRejected, OnUnknown, LockTimeout, CommitRequest
<1>3. ASSUME NEW q \in Req, NEW action \in {"approved", "refused"}, Propose(q, action)
      PROVE p \in Passed
  BY <1>3 DEF Propose
<1>4. ASSUME NEW q \in Req, Provider(q) PROVE p \in Passed
  BY <1>4 DEF Provider, ProviderRefunds, ProviderRejects, ProviderConflicts, ProviderFails
<1>5. CASE Review \/ UNCHANGED vars
  BY <1>5 DEF Review, BeginReview, AbandonReview, CommitReview, vars
<1>6. CASE Crash
  BY <1>6 DEF Crash
<1> QED
  BY <1>1, <1>2, <1>3, <1>4, <1>5, <1>6 DEF Next

\* A request passes the ceiling where the live rows leave room for its amount; the others
\* past it are worth at most one cap each.
LEMMA MoneyStep == IInv /\ CountInv /\ MoneyInv /\ [Next]_vars => MoneyInv'
<1> SUFFICES ASSUME IInv, CountInv, MoneyInv, [Next]_vars PROVE MoneyInv'
  OBVIOUS
<1>1. /\ Live \in SUBSET Req /\ Live' \in SUBSET Req
      /\ Passed \in SUBSET Req /\ Passed' \in SUBSET Req
      /\ Running' \in SUBSET Req /\ Passed' \subseteq Running'
  BY DEF Live, Passed, Running, Inside
<1>2. \A p \in Passed' : AmountOf[p] <= MaxSingle
  <2> SUFFICES ASSUME NEW p \in Passed' PROVE AmountOf[p] <= MaxSingle
    OBVIOUS
  <2>1. CASE p \in Passed
    BY <2>1 DEF MoneyInv
  <2>2. CASE WithinCeiling(Amount[IntentOf[p]])
    BY <1>1, <2>2, AmountsOfSets DEF WithinCeiling
  <2> QED
    BY <2>1, <2>2, PassedWithinCap
<1>3. SumOfAmounts((Live \union Passed)') <= MaxTotal + (Workers - 1) * MaxSingle
  <2>1. Workers - 1 \in Nat /\ MaxSingle \in Nat /\ MaxTotal \in Nat
    BY CeilingAssumption
  <2>2. (Workers - 1) * MaxSingle \in Nat
    BY <2>1
  <2>3. CASE (Live \union Passed)' \subseteq Live \union Passed
    <3>1. SumOfAmounts((Live \union Passed)') <= SumOfAmounts(Live \union Passed)
      BY <1>1, <2>3, AmountsOfSets
    <3>2. SumOfAmounts((Live \union Passed)') \in Nat /\ SumOfAmounts(Live \union Passed) \in Nat
      BY <1>1, AmountsOfSets
    <3>3. SumOfAmounts(Live \union Passed) <= MaxTotal + (Workers - 1) * MaxSingle
      BY DEF MoneyInv
    <3> QED
      BY <2>1, <2>2, <3>1, <3>2, <3>3
  <2>4. ASSUME NEW q \in Req, CheckCeiling(q), WithinCeiling(Amount[IntentOf[q]]), Live' = Live
        PROVE SumOfAmounts((Live \union Passed)') <= MaxTotal + (Workers - 1) * MaxSingle
    <3> DEFINE others == Passed' \ {q}
    <3>1. others \in SUBSET Req /\ (Live \union Passed)' \subseteq (Live \union {q}) \union others
      BY <1>1, <2>4
    <3>2. Cardinality(others) <= Workers - 1
      <4>1. q \in Passed'
        BY <2>4 DEF CheckCeiling, Passed, Goto, IInv, TypeOK
      <4>2. Cardinality(Passed') <= Cardinality(Running') /\ Cardinality(Running') <= Workers
        BY <1>1, FiniteSets, CountStep DEF CountInv
      <4>3. Cardinality(others) = Cardinality(Passed') - 1
        BY <1>1, <4>1, FiniteSets, FS_RemoveElement
      <4>4. Cardinality(Passed') \in Nat /\ Cardinality(Running') \in Nat
        BY <1>1, FiniteSets
      <4> QED
        BY <4>2, <4>3, <4>4, CeilingAssumption
    <3>3. \A p \in others : AmountOf[p] \in Int /\ AmountOf[p] <= MaxSingle
      BY <1>1, <1>2, AmountsOfSets
    <3>4. IsFiniteSet(others)
      BY <3>1, FiniteSets
    <3> HIDE DEF others
    <3>5. SumOfAmounts(others) <= (Workers - 1) * MaxSingle
      BY <2>1, <3>2, <3>3, <3>4, SumIsWithin DEF SumOfAmounts
    <3>6. SumOfAmounts(Live \union {q}) <= MaxTotal
      <4>1. SumOfAmounts(Live) + AmountOf[q] <= MaxTotal
        BY <2>4, AmountsOfSets DEF WithinCeiling
      <4>2. SumOfAmounts({q}) = AmountOf[q]
        <5>1. IsFiniteSet({}) /\ q \notin {} /\ \A y \in {} \union {q} : AmountOf[y] \in Int
          BY FS_EmptySet, AmountsOfSets
        <5>2. SumFunctionOnSet(AmountOf, {} \union {q}) = AmountOf[q] + SumFunctionOnSet(AmountOf, {})
          BY <5>1, SumWith
        <5>3. {} \union {q} = {q} /\ SumFunctionOnSet(AmountOf, {}) = 0 /\ AmountOf[q] \in Nat
          BY SumOfNone, AmountsOfSets
        <5> QED
          BY <5>2, <5>3 DEF SumOfAmounts
      <4>3. SumOfAmounts(Live \union {q}) <= SumOfAmounts(Live) + SumOfAmounts({q})
        BY <1>1, AmountsOfUnion
      <4>4. /\ SumOfAmounts(Live \union {q}) \in Nat /\ SumOfAmounts(Live) \in Nat
            /\ SumOfAmounts({q}) \in Nat
        BY <1>1, AmountsOfSets
      <4> QED
        BY <2>1, <4>1, <4>2, <4>3, <4>4
    <3>7. SumOfAmounts((Live \union Passed)') <= SumOfAmounts((Live \union {q}) \union others)
      BY <1>1, <3>1, AmountsOfSets
    <3>8. SumOfAmounts((Live \union {q}) \union others)
            <= SumOfAmounts(Live \union {q}) + SumOfAmounts(others)
      BY <1>1, <3>1, AmountsOfUnion
    <3>9. /\ SumOfAmounts((Live \union Passed)') \in Nat
          /\ SumOfAmounts((Live \union {q}) \union others) \in Nat
          /\ SumOfAmounts(Live \union {q}) \in Nat /\ SumOfAmounts(others) \in Nat
      BY <1>1, <3>1, AmountsOfSets
    <3> QED
      BY <2>1, <2>2, <3>5, <3>6, <3>7, <3>8, <3>9
  <2> QED
    BY <2>3, <2>4, PassedStep
<1> QED
  BY <1>2, <1>3 DEF MoneyInv, SumOfAmounts, AmountOf

\* The check of the ceiling is made on a reading that up to Workers - 1 other requests
\* share, so the ceiling can be overrun by that many refunds, of one cap each, and by no more.
THEOREM OvershootBounded == Spec => []OvershootIsBounded
<1>1. IInv /\ CountInv /\ MoneyInv => OvershootIsBounded
  <2> SUFFICES ASSUME CountInv, MoneyInv PROVE OvershootIsBounded
    OBVIOUS
  <2>1. Live \in SUBSET Req /\ Passed \in SUBSET Req /\ Live \subseteq Live \union Passed
    BY DEF Live, Passed
  <2>2. CountOvershoot
    <3>1. /\ Cardinality(Live) <= Cardinality(Live \union Passed)
          /\ Cardinality(Live) \in Nat /\ Cardinality(Live \union Passed) \in Nat
      BY <2>1, FiniteSets
    <3> QED
      BY <3>1, CeilingAssumption DEF CountInv, CountOvershoot
  <2>3. TotalOvershoot
    <3>1. /\ SumOfAmounts(Live) <= SumOfAmounts(Live \union Passed)
          /\ SumOfAmounts(Live) \in Nat /\ SumOfAmounts(Live \union Passed) \in Nat
      BY <2>1, AmountsOfSets
    <3>2. Workers - 1 \in Nat /\ MaxSingle \in Nat /\ MaxTotal \in Nat
      BY CeilingAssumption
    <3>3. MaxTotal + (Workers - 1) * MaxSingle \in Nat
      BY <3>2
    <3> QED
      BY <3>1, <3>3 DEF MoneyInv, TotalOvershoot
  <2> QED
    BY <2>2, <2>3 DEF OvershootIsBounded
<1> QED
  BY <1>1, CountInit, CountStep, MoneyInit, MoneyStep, InductiveInvariant, PTL DEF Spec
=============================================================================
