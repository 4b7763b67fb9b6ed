----------------------------- MODULE Remediation -----------------------------
(***************************************************************************)
(* The second gate: POST /remediation/{id} and its HTML twin, down to the  *)
(* refund call.  Every request runs execute_remediation on a thread of its *)
(* own, over its own SQLite connection; what the requests share is the     *)
(* remediations table, the database's single write lock, and the payment   *)
(* provider, which may answer late, never, or after the process died.      *)
(*                                                                         *)
(* A transaction that opens and commits without waiting for anything is    *)
(* one action.  The two transactions that stay open past the handler (the  *)
(* refusal row and mark_executed, committed by api.deps only after the     *)
(* response has been sent) are an opening action and a CommitRequest.      *)
(***************************************************************************)
EXTENDS Naturals, FiniteSets, FiniteSetsExt, Functions

CONSTANTS
  Req,          \* the requests; each inserts at most one row, so they also name the rows
  Resolution,   \* the resolutions a refund may be asked for
  IntentOf,     \* IntentOf[q]: the resolution in the path of request q
  Amount,       \* Amount[r]: paise of the later capture of r's duplicate pair
  MaxRefunds, MaxTotal, MaxSingle,   \* RemediationCeiling
  Workers       \* handlers the thread pool runs at once

ASSUME RequestAssumption ==
  /\ IntentOf \in [Req -> Resolution]
  /\ Amount \in [Resolution -> Nat \ {0}]
  /\ {"free", "review"} \cap Req = {}
  /\ IsFiniteSet(Req)

ASSUME CeilingAssumption ==
  /\ MaxRefunds \in Nat
  /\ MaxTotal \in Nat
  /\ MaxSingle \in 0..MaxTotal
  /\ Workers \in Nat \ {0}

VARIABLES
  decision,  \* decision[r]: what the first gate recorded, as far as a refund cares
  rows,      \* rows[q]: committed status of the remediations row q inserted
  audited,   \* the requests with a committed audit row
  lock,      \* the SQLite write lock: "free", "review", or the request holding it
  pc,        \* pc[q]: where the handler of q stands
  net,       \* net[q]: the refund call of q, from the wire to the answer that comes back
  moved,     \* the intents the provider has refunded
  answer     \* answer[q]: what the operator was told

durable == <<decision, rows, audited>>
vars == <<decision, rows, audited, lock, pc, net, moved, answer>>

\* "duplicate": confirmed or corrected, governed by duplicate_payment_rejected, pair found.
\* "other": undecided, rejected, or explained by any other code; no refund is proposed.
Decisions == {"other", "duplicate"}
Statuses == {"absent", "approved", "executed", "refused", "failed"}
Inside == {"lookup", "ceiling", "refuse", "reserve", "send", "await"}
Open == {"refusal_open", "refund_open"}
Places == {"idle", "done", "dead"} \union Inside \union Open
Calls == {"none", "wire", "ok", "rejected", "conflict", "error"}
Answers == {"none", "not_proposed", "refused", "replayed", "blocked", "refunded",
            "rejected", "unavailable", "conflict", "error"}

TypeOK ==
  /\ decision \in [Resolution -> Decisions]
  /\ rows \in [Req -> Statuses]
  /\ audited \subseteq Req
  /\ lock \in Req \union {"free", "review"}
  /\ pc \in [Req -> Places]
  /\ net \in [Req -> Calls]
  /\ moved \subseteq Resolution
  /\ answer \in [Req -> Answers]

Init ==
  /\ decision = [r \in Resolution |-> "other"]
  /\ rows = [q \in Req |-> "absent"]
  /\ audited = {}
  /\ lock = "free"
  /\ pc = [q \in Req |-> "idle"]
  /\ net = [q \in Req |-> "none"]
  /\ moved = {}
  /\ answer = [q \in Req |-> "none"]

----------------------------------------------------------------------------
(* What a request reads *)

Running == {q \in Req : pc[q] \in Inside}

\* Rows that hold their key and their amount: the two statuses of usage() and of the
\* partial unique index.
Live == {q \in Req : rows[q] \in {"approved", "executed"}}

LiveClaims(r) == {q \in Live : IntentOf[q] = r}

AmountOf == [q \in Req |-> Amount[IntentOf[q]]]

SumOfAmounts(S) == SumFunctionOnSet(AmountOf, S)

\* A mutated form: usage() counting only the refunds known to have landed.
WithinCeilingConfirmedOnly(amount) ==
  LET confirmed == {q \in Req : rows[q] = "executed"} IN
  /\ Cardinality(confirmed) < MaxRefunds
  /\ amount <= MaxSingle
  /\ SumOfAmounts(confirmed) + amount <= MaxTotal

WithinCeiling(amount) ==
  /\ Cardinality(Live) < MaxRefunds
  /\ amount <= MaxSingle
  /\ SumOfAmounts(Live) + amount <= MaxTotal

Goto(q, place) == pc' = [pc EXCEPT ![q] = place]
Tell(q, what) == answer' = [answer EXCEPT ![q] = what]
End(q, what) == Goto(q, "done") /\ Tell(q, what)

----------------------------------------------------------------------------
(* The first gate, as far as this one sees it.  The review of a case takes *)
(* the write lock before it calls the model and keeps it until it commits. *)
(* It looked at the recorded decision before it waited for the lock, so    *)
(* what it commits may overwrite another decision (ReviewGate).            *)

BeginReview ==
  /\ lock = "free"
  /\ lock' = "review"
  /\ UNCHANGED <<durable, pc, net, moved, answer>>

CommitReview(r, d) ==
  /\ lock = "review"
  /\ decision' = [decision EXCEPT ![r] = d]
  /\ lock' = "free"
  /\ UNCHANGED <<rows, audited, pc, net, moved, answer>>

\* The model failed in a way the deposit does not catch: the request rolls back.
AbandonReview ==
  /\ lock = "review"
  /\ lock' = "free"
  /\ UNCHANGED <<durable, pc, net, moved, answer>>

----------------------------------------------------------------------------
(* The request *)

\* A mutated form: the first gate is not asked.
ProposeUnreviewed(q, action) ==
  /\ pc[q] = "idle"
  /\ Cardinality(Running) < Workers
  /\ Goto(q, IF action = "approved" THEN "lookup" ELSE "refuse")
  /\ UNCHANGED <<durable, lock, net, moved, answer>>

\* The handler starts: propose_remediation, then the operator's answer at this gate.
Propose(q, action) ==
  /\ pc[q] = "idle"
  /\ Cardinality(Running) < Workers
  /\ \/ /\ decision[IntentOf[q]] # "duplicate"
        /\ End(q, "not_proposed")
     \/ /\ decision[IntentOf[q]] = "duplicate"
        /\ Goto(q, IF action = "approved" THEN "lookup" ELSE "refuse")
        /\ UNCHANGED answer
  /\ UNCHANGED <<durable, lock, net, moved>>

\* Local idempotency: the committed live claim on the key, if there is one.
Lookup(q) ==
  /\ pc[q] = "lookup"
  /\ \/ /\ LiveClaims(IntentOf[q]) = {}
        /\ Goto(q, "ceiling")
        /\ UNCHANGED answer
     \/ \E p \in LiveClaims(IntentOf[q]) :
          End(q, IF rows[p] = "executed" THEN "replayed" ELSE "blocked")
  /\ UNCHANGED <<durable, lock, net, moved>>

\* usage() and check_ceiling: a read of committed rows, outside any transaction.
CheckCeiling(q) ==
  /\ pc[q] = "ceiling"
  /\ Goto(q, IF WithinCeiling(Amount[IntentOf[q]]) THEN "reserve" ELSE "refuse")
  /\ UNCHANGED <<durable, lock, net, moved, answer>>

\* Refused by the operator or by the ceiling: a 'refused' row and its audit row, in the
\* transaction the request's dependency commits after the answer has gone out.
Refuse(q) ==
  /\ pc[q] = "refuse"
  /\ lock = "free"
  /\ lock' = q
  /\ Goto(q, "refusal_open")
  /\ Tell(q, "refused")
  /\ UNCHANGED <<durable, net, moved>>

\* A mutated form: no unique index, the lookup is trusted.
ReserveUnindexed(q) ==
  /\ pc[q] = "reserve"
  /\ lock = "free"
  /\ rows' = [rows EXCEPT ![q] = "approved"]
  /\ Goto(q, "send")
  /\ UNCHANGED <<decision, audited, lock, net, moved, answer>>

\* A mutated form: the reservation is left to the request's own transaction, which a call
\* that fails would roll back.
ReserveUncommitted(q) ==
  /\ pc[q] = "reserve"
  /\ lock = "free"
  /\ lock' = q
  /\ Goto(q, "send")
  /\ UNCHANGED <<durable, net, moved, answer>>

\* The reservation, committed before the call.  The partial unique index is the only
\* check made under the write lock: a second live row for the key fails the INSERT.
Reserve(q) ==
  /\ pc[q] = "reserve"
  /\ lock = "free"
  /\ \/ /\ LiveClaims(IntentOf[q]) = {}
        /\ rows' = [rows EXCEPT ![q] = "approved"]
        /\ Goto(q, "send")
        /\ UNCHANGED answer
     \/ /\ LiveClaims(IntentOf[q]) # {}
        /\ End(q, "error")
        /\ UNCHANGED rows
  /\ UNCHANGED <<decision, audited, lock, net, moved>>

Send(q) ==
  /\ pc[q] = "send"
  /\ net' = [net EXCEPT ![q] = "wire"]
  /\ Goto(q, "await")
  /\ UNCHANGED <<durable, lock, moved, answer>>

----------------------------------------------------------------------------
(* The provider, by the behaviour the probe in adapters/razorpay/refunds.py *)
(* recorded: the idempotency key makes a repeated intent one refund.        *)

ProviderRefunds(q) ==
  /\ net[q] = "wire"
  /\ moved' = moved \union {IntentOf[q]}
  /\ net' = [net EXCEPT ![q] = "ok"]
  /\ UNCHANGED <<durable, lock, pc, answer>>

ProviderRejects(q) ==
  /\ net[q] = "wire"
  /\ net' = [net EXCEPT ![q] = "rejected"]
  /\ UNCHANGED <<durable, lock, pc, moved, answer>>

ProviderConflicts(q) ==
  /\ net[q] = "wire"
  /\ net' = [net EXCEPT ![q] = "conflict"]
  /\ UNCHANGED <<durable, lock, pc, moved, answer>>

\* A 5xx or a broken connection; the refund may have been made all the same.
ProviderFails(q, made) ==
  /\ net[q] = "wire"
  /\ moved' = IF made THEN moved \union {IntentOf[q]} ELSE moved
  /\ net' = [net EXCEPT ![q] = "error"]
  /\ UNCHANGED <<durable, lock, pc, answer>>

----------------------------------------------------------------------------
(* The answer *)

\* mark_executed and its audit row are written, the operator is told, and the
\* transaction is still open.
OnSuccess(q) ==
  /\ pc[q] = "await"
  /\ net[q] = "ok"
  /\ lock = "free"
  /\ lock' = q
  /\ Goto(q, "refund_open")
  /\ Tell(q, "refunded")
  /\ UNCHANGED <<durable, net, moved>>

\* A body create_refund cannot read, of a 2xx, or JSON that is no object where _describe
\* words an error: the exception is none of the three caught.
OnUnreadableAnswer(q) ==
  /\ pc[q] = "await"
  /\ net[q] \in {"ok", "rejected", "conflict", "error"}
  /\ End(q, "error")
  /\ UNCHANGED <<durable, lock, net, moved>>

\* RefundRejected: the API said no, the reservation is released.
OnRejected(q) ==
  /\ pc[q] = "await"
  /\ net[q] = "rejected"
  /\ lock = "free"
  /\ rows' = [rows EXCEPT ![q] = "failed"]
  /\ audited' = audited \union {q}
  /\ End(q, "rejected")
  /\ UNCHANGED <<decision, lock, net, moved>>

\* A mutated form: the HTTP client has no timeout.
UnknownWithoutTimeout(q) == net[q] \in {"error", "conflict"}

\* The handler gives up on a call still on the wire, or learns nothing from its answer.
Unknown(q) == net[q] \in {"wire", "error", "conflict"}

\* A mutated form: a timeout treated as a failure, and the reservation released on a maybe.
OnUnknownReleasing(q) ==
  /\ pc[q] = "await"
  /\ Unknown(q)
  /\ lock = "free"
  /\ rows' = [rows EXCEPT ![q] = "failed"]
  /\ audited' = audited \union {q}
  /\ End(q, IF net[q] = "conflict" THEN "conflict" ELSE "unavailable")
  /\ UNCHANGED <<decision, lock, net, moved>>

\* RefundUnavailable (httpx timeout, transport error, 5xx) and RefundConflict: the
\* reservation is held, only the audit row is committed.
OnUnknown(q) ==
  /\ pc[q] = "await"
  /\ Unknown(q)
  /\ lock = "free"
  /\ audited' = audited \union {q}
  /\ End(q, IF net[q] = "conflict" THEN "conflict" ELSE "unavailable")
  /\ UNCHANGED <<decision, rows, lock, net, moved>>

\* The places from which the next statement of the handler writes to the database.
NeedsLock(q) == pc[q] \in {"refuse", "reserve", "await"}

\* A mutated form: the lock error swallowed and reported as the provider's answer.
LockTimeoutSwallowed(q) ==
  /\ NeedsLock(q)
  /\ lock # "free"
  /\ End(q, IF pc[q] = "await" THEN "rejected" ELSE "error")
  /\ UNCHANGED <<durable, lock, net, moved>>

\* "database is locked": the write waits for the lock in vain, the exception is not
\* caught, the request rolls back whatever it had open and answers 500.
LockTimeout(q) ==
  /\ NeedsLock(q)
  /\ lock # "free"
  /\ End(q, "error")
  /\ UNCHANGED <<durable, lock, net, moved>>

\* A mutated form: the dependency closes the connection without committing.
CommitForgotten(q) ==
  /\ pc[q] \in Open
  /\ lock' = "free"
  /\ Goto(q, "done")
  /\ UNCHANGED <<durable, net, moved, answer>>

\* get_connection commits what the handler left open, after the response.
CommitRequest(q) ==
  /\ pc[q] \in Open
  /\ lock' = "free"
  /\ rows' = [rows EXCEPT ![q] = IF pc[q] = "refund_open" THEN "executed" ELSE "refused"]
  /\ audited' = audited \union {q}
  /\ Goto(q, "done")
  /\ UNCHANGED <<decision, net, moved, answer>>

\* The process dies with every request and every open transaction it held; rows, calls
\* on the wire and answers already given survive.
Crash ==
  /\ lock # "free" \/ Running # {}
  /\ pc' = [q \in Req |-> IF pc[q] \in Inside \union Open THEN "dead" ELSE pc[q]]
  /\ lock' = "free"
  /\ UNCHANGED <<durable, net, moved, answer>>

----------------------------------------------------------------------------
Handler(q) ==
  \/ Lookup(q)    \/ CheckCeiling(q) \/ Refuse(q)             \/ Reserve(q)
  \/ Send(q)      \/ OnSuccess(q)    \/ OnUnreadableAnswer(q) \/ OnRejected(q)
  \/ OnUnknown(q) \/ LockTimeout(q)  \/ CommitRequest(q)

Provider(q) ==
  \/ ProviderRefunds(q) \/ ProviderRejects(q) \/ ProviderConflicts(q)
  \/ \E made \in BOOLEAN : ProviderFails(q, made)

Review ==
  \/ BeginReview
  \/ AbandonReview
  \/ \E r \in Resolution, d \in Decisions : CommitReview(r, d)

Next ==
  \/ Review
  \/ Crash
  \/ \E q \in Req :
       \/ \E action \in {"approved", "refused"} : Propose(q, action)
       \/ Handler(q)
       \/ Provider(q)

\* A thread of the pool runs until its handler returns: the refund client and the
\* database both time out, so no step of it waits for ever.  Operators, reviewers and
\* the provider promise nothing.
Fairness == \A q \in Req : WF_vars(Handler(q))

Spec == Init /\ [][Next]_vars

FairSpec == Spec /\ Fairness
----------------------------------------------------------------------------
(* Properties *)

Settled(q) == pc[q] \in {"done", "dead"}

\* No money moves, or can still move, without a committed row that counts against the
\* ceiling: the reservation precedes the call, and neither a timeout, a crash, a lost lock
\* nor a second request releases it (remediate.py "Reserve, then call").
MoneyIsReserved ==
  /\ \A q \in Req : net[q] = "wire" => q \in Live
  /\ \A r \in moved : LiveClaims(r) # {}

\* The key is claimed once: two requests that both passed the lookup cannot both hold a
\* live row, whatever happened in between (idx_remediations_live_key).
OneLiveClaim == \A p, q \in Live : IntentOf[p] = IntentOf[q] => p = q

\* Across all the requests ever made for an intent, at most one refund call has an outcome
\* that is not a definite rejection: a call whose fate is unknown is never followed by a
\* second one (test_an_unresolved_earlier_attempt_blocks_rather_than_retries).
NeverSentTwice ==
  \A p, q \in Req :
    /\ IntentOf[p] = IntentOf[q]
    /\ net[p] \notin {"none", "rejected"}
    /\ net[q] \notin {"none", "rejected"}
    => p = q

\* What the operator is told stays true for ever, even when the answer was sent before
\* the commit and the process died in between: "refunded" and "replayed" mean the money
\* moved; a rejection or a refusal means this request moved none and never will.
AnswersStayTrue ==
  \A q \in Req :
    /\ answer[q] \in {"refunded", "replayed"} => IntentOf[q] \in moved
    /\ answer[q] \in {"rejected", "refused", "blocked", "not_proposed"}
         => net[q] \in {"none", "rejected"}
    /\ rows[q] = "executed" => IntentOf[q] \in moved

\* Money moves only behind both gates: no call leaves for a resolution that was never
\* confirmed or corrected into a duplicate charge.
FirstGateFirst ==
  \A q \in Req :
    [](decision[IntentOf[q]] # "duplicate") => [](net[q] = "none")

\* How far the unlocked check lets concurrent approvals run past the count ceiling: each
\* other worker can have passed it on the same reading.  With one worker it is the ceiling.
CountOvershoot == Cardinality(Live) <= MaxRefunds + Workers - 1

\* The same for the money: at most one per-call cap for each other worker.
TotalOvershoot == SumOfAmounts(Live) <= MaxTotal + (Workers - 1) * MaxSingle

\* Both together: what the ceiling is worth where approvals overlap.
OvershootIsBounded == CountOvershoot /\ TotalOvershoot

\* Every request that passed the first gate is answered or dies with the process, and an
\* answered refund is booked unless the process died before the commit: no request waits
\* for the lock, the provider or another request for ever.
RequestsEnd == \A q \in Req : pc[q] \in Inside \union Open ~> Settled(q)

RefundsAreBooked ==
  \A q \in Req : answer[q] = "refunded" ~> rows[q] = "executed" \/ pc[q] = "dead"

\* The table and the provider together implement the refund ledger.
ClaimOf(r) ==
  CASE \E q \in LiveClaims(r) : rows[q] = "executed" -> "spent"
    [] \E q \in LiveClaims(r) : rows[q] = "approved"
       /\ \A p \in LiveClaims(r) : rows[p] # "executed" -> "held"
    [] OTHER -> "free"

Ledger == INSTANCE RefundLedger
            WITH Intent <- Resolution,
                 claim <- [r \in Resolution |-> ClaimOf(r)],
                 moved <- moved

ImplementsLedger == Ledger!LedgerSpec

----------------------------------------------------------------------------
(* Statements of the repository that the code does not keep *)

\* test_remediate.py: "assert total <= ceiling.max_total_paise and count <=
\* ceiling.max_refunds", the stopping rule driven to exhaustion.
CeilingRespected ==
  /\ Cardinality(Live) <= MaxRefunds
  /\ SumOfAmounts(Live) <= MaxTotal

\* api/remediation.py: "503, because the client may retry - and must, under the same
\* derived key": a retry after a 503 is sent again, not refused.
RetryAfter503IsSent ==
  [][\A p, q \in Req :
       /\ answer[p] = "unavailable"
       /\ IntentOf[p] = IntentOf[q]
       /\ pc[q] = "lookup"
       => answer'[q] # "blocked"]_vars

\* test_remediate.py: "A refund with no audit row is money that moved for no recorded
\* reason" (NFR-5), under a test named "every terminal path leaves an audit row": once its handler
\* has ended, crashes aside, a refund that was made has one.
RefundsAreAudited ==
  \A q \in Req :
    /\ pc[q] = "done"
    /\ rows[q] \in {"approved", "executed"}
    /\ IntentOf[q] \in moved
    => q \in audited
=============================================================================
