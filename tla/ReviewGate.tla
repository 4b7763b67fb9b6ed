------------------------------ MODULE ReviewGate ------------------------------
(***************************************************************************)
(* The first gate: an operator confirms, corrects or rejects a proposed    *)
(* resolution, over the screen (api/ui.py decide, which also authors the   *)
(* precedent the decision teaches) or over the API (api/approvals.py       *)
(* decide, which only records it).                                         *)
(*                                                                         *)
(* Both handlers read the resolution outside any transaction and write it  *)
(* later without looking again.  On the screen's path the UPDATE takes the *)
(* database's write lock and the model is called while it is held; on the  *)
(* API's path the response goes out before the dependency commits.         *)
(***************************************************************************)
EXTENDS Naturals, FiniteSets, FiniteSetsExt

CONSTANTS
  Req,         \* the decisions posted
  Resolution,
  About,       \* About[q]: the resolution in the path of request q
  Routes       \* the handlers in use: a subset of {"screen", "api"}

ASSUME ReviewAssumption ==
  /\ About \in [Req -> Resolution]
  /\ Routes \subseteq {"screen", "api"}
  /\ "free" \notin Req

VARIABLES
  review,      \* review[r]: the committed human_action of r
  corpus,      \* the committed precedents, the seed corpus (version 0) apart
  audited,     \* the requests with a committed "deposited" audit row
  lock,        \* the write lock: "free" or the request holding it
  pc,          \* pc[q]: where the handler of q stands
  act,         \* act[q]: the action the operator posted
  answer       \* answer[q]: what the operator was shown

durable == <<review, corpus, audited>>
vars == <<review, corpus, audited, lock, pc, act, answer>>

Depositing == {"confirmed", "corrected"}
HumanActions == Depositing \union {"rejected"}
Working == {"screen", "api"}            \* the guard was passed, the write is to come
Holding == {"authoring", "open"}        \* a transaction is open
Places == {"idle", "done", "dead"} \union Working \union Holding
Answers == {"none", "already", "not_recorded", "recorded", "deposits", "deposited",
            "nothing_deposited", "error"}
Precedents == [version : Nat \ {0}, from : Resolution, by : Req]

TypeOK ==
  /\ review \in [Resolution -> HumanActions \union {"none"}]
  /\ corpus \subseteq Precedents
  /\ audited \subseteq Req
  /\ lock \in Req \union {"free"}
  /\ pc \in [Req -> Places]
  /\ act \in [Req -> HumanActions \union {"none"}]
  /\ answer \in [Req -> Answers]

Init ==
  /\ review = [r \in Resolution |-> "none"]
  /\ corpus = {}
  /\ audited = {}
  /\ lock = "free"
  /\ pc = [q \in Req |-> "idle"]
  /\ act = [q \in Req |-> "none"]
  /\ answer = [q \in Req |-> "none"]

----------------------------------------------------------------------------
Versions == {p.version : p \in corpus}

\* Mutated forms: the version already in use once there is one; a count that a failed
\* authoring advances too.
VersionReused == Max(Versions \union {1})
VersionByAuditRows == Cardinality(audited) + 1

\* MAX(corpus_version) + 1, read under the write lock.
NextCorpusVersion == Max(Versions \union {0}) + 1

\* list_as_of_corpus_version(n): the corpus a replay sees after n deposits.
AsOf(n) == {p \in corpus : p.version <= n}

Goto(q, place) == pc' = [pc EXCEPT ![q] = place]
Tell(q, what) == answer' = [answer EXCEPT ![q] = what]
End(q, what) == Goto(q, "done") /\ Tell(q, what)

----------------------------------------------------------------------------
\* A mutated form: the decision already recorded is not looked at.
OpenUnguarded(q, route, action) ==
  /\ pc[q] = "idle"
  /\ act' = [act EXCEPT ![q] = action]
  /\ Goto(q, route)
  /\ UNCHANGED <<durable, lock, answer>>

\* The handler reads the resolution, refuses one that is already decided, and goes on.
Open(q, route, action) ==
  /\ pc[q] = "idle"
  /\ act' = [act EXCEPT ![q] = action]
  /\ \/ /\ review[About[q]] # "none"
        /\ End(q, "already")
     \/ /\ review[About[q]] = "none"
        /\ Goto(q, route)
        /\ UNCHANGED answer
  /\ UNCHANGED <<durable, lock>>

\* No model is configured, or the case has no storable reason code: the screen says the
\* decision was not recorded.  A rejection needs neither.
CannotDeposit(q) ==
  /\ pc[q] = "screen"
  /\ act[q] \in Depositing
  /\ End(q, "not_recorded")
  /\ UNCHANGED <<durable, lock, act>>

\* record_and_deposit up to the model call: the UPDATE is made, not committed.
RecordAction(q) ==
  /\ pc[q] = "screen"
  /\ act[q] \in Depositing
  /\ lock = "free"
  /\ lock' = q
  /\ Goto(q, "authoring")
  /\ UNCHANGED <<durable, act, answer>>

\* record_and_deposit of a rejection: recorded and committed, nothing else written.
RecordRejection(q) ==
  /\ pc[q] = "screen"
  /\ act[q] = "rejected"
  /\ lock = "free"
  /\ review' = [review EXCEPT ![About[q]] = "rejected"]
  /\ End(q, "recorded")
  /\ UNCHANGED <<corpus, audited, lock, act>>

\* A mutated form: the precedent and the review are committed one after the other, and the
\* review is forgotten when the second commit does not come.
DepositAlone(q) ==
  /\ pc[q] = "authoring"
  /\ corpus' = corpus \union {[version |-> NextCorpusVersion, from |-> About[q], by |-> q]}
  /\ audited' = audited \union {q}
  /\ lock' = "free"
  /\ End(q, "deposited")
  /\ UNCHANGED <<review, act>>

\* The model wrote a usable precedent: review, precedent and audit row commit together.
Deposit(q) ==
  /\ pc[q] = "authoring"
  /\ review' = [review EXCEPT ![About[q]] = act[q]]
  /\ corpus' = corpus \union {[version |-> NextCorpusVersion, from |-> About[q], by |-> q]}
  /\ audited' = audited \union {q}
  /\ lock' = "free"
  /\ End(q, "deposited")
  /\ UNCHANGED act

\* Mutated forms: the failure is answered as a deposit; it sends the handler back to try
\* again, without end.
DepositFailsSilently(q) ==
  /\ pc[q] = "authoring"
  /\ review' = [review EXCEPT ![About[q]] = act[q]]
  /\ audited' = audited \union {q}
  /\ lock' = "free"
  /\ End(q, "deposited")
  /\ UNCHANGED <<corpus, act>>

AuthoringRetried(q) ==
  /\ pc[q] = "authoring"
  /\ lock' = "free"
  /\ Goto(q, "screen")
  /\ UNCHANGED <<durable, act, answer>>

\* The model was unavailable or its text unusable: deposit_precedent swallows the error,
\* and the transaction commits the review with an audit row and no precedent.
DepositFails(q) ==
  /\ pc[q] = "authoring"
  /\ review' = [review EXCEPT ![About[q]] = act[q]]
  /\ audited' = audited \union {q}
  /\ lock' = "free"
  /\ End(q, "nothing_deposited")
  /\ UNCHANGED <<corpus, act>>

\* The model's text is JSON but not an object: author_precedent raises a TypeError that
\* nothing catches, and everything rolls back.
AuthoringRaises(q) ==
  /\ pc[q] = "authoring"
  /\ lock' = "free"
  /\ End(q, "error")
  /\ UNCHANGED <<durable, act>>

\* approvals.decide: the UPDATE is made and the answer sent, with the transaction open.
ApiRecord(q) ==
  /\ pc[q] = "api"
  /\ lock = "free"
  /\ lock' = q
  /\ Goto(q, "open")
  /\ Tell(q, IF act[q] \in Depositing THEN "deposits" ELSE "recorded")
  /\ UNCHANGED <<durable, act>>

\* get_connection commits after the response.
ApiCommit(q) ==
  /\ pc[q] = "open"
  /\ review' = [review EXCEPT ![About[q]] = act[q]]
  /\ lock' = "free"
  /\ Goto(q, "done")
  /\ UNCHANGED <<corpus, audited, act, answer>>

\* "database is locked": another writer (a decision, a refund, a webhook delivery) kept the
\* lock past the busy timeout.
LockTimeout(q) ==
  /\ pc[q] \in Working
  /\ End(q, "error")
  /\ UNCHANGED <<durable, lock, act>>

\* The process dies; SQLite rolls the open transaction back.
Crash ==
  /\ \E q \in Req : pc[q] \in Working \union Holding
  /\ pc' = [q \in Req |-> IF pc[q] \in Working \union Holding THEN "dead" ELSE pc[q]]
  /\ lock' = "free"
  /\ UNCHANGED <<durable, act, answer>>

----------------------------------------------------------------------------
Handler(q) ==
  \/ CannotDeposit(q) \/ RecordAction(q) \/ RecordRejection(q) \/ Deposit(q)
  \/ DepositFails(q)  \/ AuthoringRaises(q) \/ ApiRecord(q)    \/ ApiCommit(q)
  \/ LockTimeout(q)

Next ==
  \/ Crash
  \/ \E q \in Req :
       \/ \E route \in Routes, action \in HumanActions : Open(q, route, action)
       \/ Handler(q)

\* A handler that runs gets to its next step: the model client and the database time out.
Fairness == \A q \in Req : WF_vars(Handler(q))

Spec == Init /\ [][Next]_vars

FairSpec == Spec /\ Fairness

----------------------------------------------------------------------------
(* Properties *)

\* The version of the last deposit is the number of deposits, and no two deposits share
\* one, whatever decisions raced, failed or were rolled back (next_corpus_version: "the
\* count of deposits is the version number").
CorpusIsDense ==
  /\ Versions = 1..Cardinality(corpus)
  /\ Cardinality(Versions) = Cardinality(corpus)

\* A snapshot of the corpus never changes once its version exists: a later deposit cannot
\* slip under an earlier version, so a replay at n always sees the same precedents.
SnapshotsNeverChange == [][\A n \in 0..Max(Versions \union {0}) : AsOf(n)' = AsOf(n)]_vars

\* Every precedent comes from a reviewed resolution and has its audit row, after any crash,
\* lock loss or failed authoring: the half of FR-7.5 the transaction does keep.
PrecedentsAreReviewed ==
  \A p \in corpus : review[p.from] # "none" /\ p.by \in audited

\* A recorded decision can be overwritten only by a handler that read the resolution before
\* it was decided: once none is left running, it is final, whatever is posted later.
Quiet(r) == \A q \in Req : About[q] = r => pc[q] \notin Working \union Holding

FinalOnceQuiet ==
  \A r \in Resolution, d \in HumanActions :
    [](review[r] = d /\ Quiet(r) => [](review[r] = d))

\* What the screen says of a deposit, and every refusal, error and plain "recorded", matches the
\* store: "deposited" has its precedent, "nothing_deposited" has none, both have their audit row,
\* and the rest left neither.  The API's "deposits" is DepositsAreMade, below.
AnswersMatchTheStore ==
  \A q \in Req :
    /\ answer[q] = "deposited" => \E p \in corpus : p.by = q
    /\ answer[q] = "nothing_deposited" => \A p \in corpus : p.by # q
    /\ answer[q] \in {"deposited", "nothing_deposited"} => q \in audited
    /\ answer[q] \in {"already", "not_recorded", "error", "recorded"}
         => q \notin audited /\ \A p \in corpus : p.by # q

\* No decision waits for ever: every handler that read an open resolution ends, those that
\* wait for the write lock another holds across a model call included.
ReviewsEnd ==
  \A q \in Req : pc[q] \in Working \union Holding ~> pc[q] \in {"done", "dead"}

----------------------------------------------------------------------------
(* Statements of the repository that the code does not keep *)

\* api/ui.py decide: "a precedent whose resolution was never reviewed, a review with no
\* precedent behind it - are unreachable rather than merely unlikely (FR-7.5)".
ReviewsHavePrecedents ==
  \A r \in Resolution : review[r] \in Depositing => \E p \in corpus : p.from = r

\* test_approvals.py: test_confirming_records_the_action_and_signals_a_deposit, of the answer
\* `deposits: true` of api/approvals.py decide.  Once it is sent and the handler is done, the
\* deposit it signals is there.
DepositsAreMade ==
  \A q \in Req : answer[q] = "deposits" /\ pc[q] = "done" => \E p \in corpus : p.by = q

\* api/ui.py decide: "A resolution is decided once."
DecidedOnce ==
  [][\A r \in Resolution : review[r] # "none" => review'[r] = review[r]]_vars
=============================================================================
