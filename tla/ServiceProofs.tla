----------------------------- MODULE ServiceProofs -----------------------------
(***************************************************************************)
(* What holds of ReviewGate and of Service, the process around it, for any *)
(* number of decisions on any number of resolutions, of deliveries and of  *)
(* events.                                                                 *)
(*                                                                         *)
(* The gate: deposits are numbered one after the other because each takes  *)
(* one more than the largest version it sees and nothing else adds a       *)
(* precedent; what was answered rests on whether a handler got as far as a *)
(* deposit; and a decision can be overwritten only by a handler already    *)
(* past the guard.                                                         *)
(*                                                                         *)
(* The process: each of its steps is a step of ReviewGate or leaves its    *)
(* variables alone, so that all that is shown of the gate holds in it; and *)
(* only the end of a delivery's transaction writes to webhook_events.      *)
(***************************************************************************)
EXTENDS Service, FiniteSetTheorems, TLAPS

----------------------------------------------------------------------------
(* The gate's invariant. *)

Active == Working \union Holding

\* A handler at work has a decision to record, one that deposits if it is authoring.
ActionKnown ==
  \A q \in Req : /\ pc[q] \in Active => act[q] \in HumanActions
                 /\ pc[q] = "authoring" => act[q] \in Depositing

\* The request has left neither precedent nor audit row.
Unwritten(q) == q \notin audited /\ \A p \in corpus : p.by # q

AnswerFits(q) ==
  /\ pc[q] \in Active \union {"idle"} => Unwritten(q)
  /\ pc[q] \in Working \union {"idle", "authoring"} => answer[q] = "none"
  /\ answer[q] \in {"already", "not_recorded", "error", "recorded"} => Unwritten(q)
  /\ answer[q] = "deposited" => \E p \in corpus : p.by = q
  /\ answer[q] = "nothing_deposited" => \A p \in corpus : p.by # q
  /\ answer[q] \in {"deposited", "nothing_deposited"} => q \in audited

AnswerInv == \A q \in Req : AnswerFits(q)

DenseInv == IsFiniteSet(corpus) /\ Versions = 1..Cardinality(corpus)

IInv == TypeOK /\ ActionKnown /\ AnswerInv /\ DenseInv /\ PrecedentsAreReviewed

----------------------------------------------------------------------------
(* The largest version. *)

\* The largest of the versions 0 to n is n.
LEMMA MaxOfVersions ==
  ASSUME NEW n \in Nat PROVE Max((1..n) \union {0}) = n
<1>1. \A x \in (1..n) \union {0} : (\A y \in (1..n) \union {0} : x >= y) <=> x = n
  OBVIOUS
<1>2. n \in (1..n) \union {0}
  OBVIOUS
<1> QED
  BY <1>1, <1>2 DEF Max

\* With dense versions the next one is one more than the number of deposits.
LEMMA NextVersion ==
  ASSUME DenseInv
  PROVE /\ Cardinality(corpus) \in Nat
        /\ NextCorpusVersion = Cardinality(corpus) + 1
        /\ Max(Versions \union {0}) = Cardinality(corpus)
<1>1. Cardinality(corpus) \in Nat
  BY FS_CardinalityType DEF DenseInv
<1>2. Max(Versions \union {0}) = Cardinality(corpus)
  BY <1>1, MaxOfVersions DEF DenseInv
<1> QED
  BY <1>1, <1>2 DEF NextCorpusVersion

----------------------------------------------------------------------------
(* The inductive invariant. *)

\* The empty store satisfies the invariant.
LEMMA InitInv == Init => IInv
<1> SUFFICES ASSUME Init PROVE IInv
  OBVIOUS
<1>1. TypeOK
  BY ReviewAssumption DEF Init, TypeOK, Places, Answers
<1>2. DenseInv
  BY FS_EmptySet DEF Init, DenseInv, Versions
<1> QED
  BY <1>1, <1>2
  DEF Init, IInv, ActionKnown, AnswerInv, AnswerFits, Unwritten, PrecedentsAreReviewed, Active, Working, Holding

\* One step of one request, or of none; and how little of the store it may change.
LEMMA StoreStep ==
  ASSUME [Next]_vars
  PROVE \/ UNCHANGED <<corpus, audited>>
        \/ \E q \in Req : DepositFails(q)
        \/ \E q \in Req : Deposit(q)
<1> USE DEF durable
<1>1. ASSUME NEW q \in Req, Handler(q), ~Deposit(q), ~DepositFails(q)
      PROVE UNCHANGED <<corpus, audited>>
  BY <1>1 DEF Handler, CannotDeposit, RecordAction, RecordRejection, AuthoringRaises,
              ApiRecord, ApiCommit, LockTimeout
<1>2. ASSUME NEW q \in Req, NEW route \in Routes, NEW action \in HumanActions,
             Open(q, route, action)
      PROVE UNCHANGED <<corpus, audited>>
  BY <1>2 DEF Open
<1>3. CASE Crash \/ UNCHANGED vars
  BY <1>3 DEF Crash, vars
<1> QED
  BY <1>1, <1>2, <1>3 DEF Next

\* A deposit extends the versions by exactly one; nothing else touches them.
LEMMA DenseStep == IInv /\ [Next]_vars => DenseInv'
<1> SUFFICES ASSUME IInv, [Next]_vars PROVE DenseInv'
  OBVIOUS
<1>1. CASE UNCHANGED corpus
  BY <1>1 DEF IInv, DenseInv, Versions
<1>2. ASSUME NEW q \in Req, Deposit(q) PROVE DenseInv'
  <2> DEFINE n == Cardinality(corpus)
             new == [version |-> NextCorpusVersion, from |-> About[q], by |-> q]
  <2>1. n \in Nat /\ NextCorpusVersion = n + 1 /\ Versions = 1..n /\ IsFiniteSet(corpus)
    BY NextVersion DEF IInv, DenseInv
  <2>2. corpus' = corpus \union {new}
    BY <1>2 DEF Deposit
  <2>3. new \notin corpus
    <3> SUFFICES ASSUME new \in corpus PROVE FALSE
      OBVIOUS
    <3>1. new.version \in Versions
      BY DEF Versions
    <3> QED
      BY <2>1, <3>1
  <2>4. IsFiniteSet(corpus') /\ Cardinality(corpus') = n + 1
    BY <2>1, <2>2, <2>3, FS_AddElement
  <2>5. Versions' = Versions \union {n + 1}
    <3>1. new.version = n + 1
      BY <2>1
    <3> HIDE DEF new
    <3> QED
      BY <2>2, <3>1 DEF Versions
  <2> QED
    BY <2>1, <2>4, <2>5 DEF DenseInv
<1> QED
  BY <1>1, <1>2, StoreStep DEF DepositFails

\* The action of a handler is fixed when it opens, and only a confirmation or a
\* correction goes on to author.
LEMMA ActionStep == IInv /\ [Next]_vars => ActionKnown'
<1> SUFFICES ASSUME IInv, [Next]_vars PROVE ActionKnown'
  OBVIOUS
<1> USE DEF IInv, TypeOK, ActionKnown, Active, Working, Holding, HumanActions, Depositing,
            durable, Goto, End
<1>1. ASSUME NEW q \in Req, Handler(q) PROVE ActionKnown'
  BY <1>1 DEF Handler, CannotDeposit, RecordAction, RecordRejection, Deposit, DepositFails,
              AuthoringRaises, ApiRecord, ApiCommit, LockTimeout
<1>2. ASSUME NEW q \in Req, NEW route \in Routes, NEW action \in HumanActions,
             Open(q, route, action)
      PROVE ActionKnown'
  BY <1>2, ReviewAssumption DEF Open
<1>3. CASE Crash
  BY <1>3 DEF Crash
<1>4. CASE UNCHANGED vars
  BY <1>4 DEF vars
<1> QED
  BY <1>1, <1>2, <1>3, <1>4 DEF Next

\* Steps keep the types; only a deposit needs more than the types themselves.
LEMMA TypeStep == IInv /\ [Next]_vars => TypeOK'
<1> SUFFICES ASSUME IInv, [Next]_vars PROVE TypeOK'
  OBVIOUS
<1> USE ReviewAssumption
    DEF IInv, TypeOK, ActionKnown, Active, Working, Holding, HumanActions, Depositing, Places,
        Answers, durable, Goto, Tell, End
<1>1. ASSUME NEW q \in Req, Deposit(q) PROVE TypeOK'
  <2>1. NextCorpusVersion \in Nat \ {0}
    BY NextVersion
  <2>2. [version |-> NextCorpusVersion, from |-> About[q], by |-> q] \in Precedents
    BY <2>1 DEF Precedents
  <2>3. corpus' \subseteq Precedents
    BY <1>1, <2>2 DEF Deposit
  <2> QED
    BY <1>1, <2>3 DEF Deposit
<1>2. ASSUME NEW q \in Req, Handler(q), ~Deposit(q) PROVE TypeOK'
  BY <1>2 DEF Handler, CannotDeposit, RecordAction, RecordRejection, DepositFails,
              AuthoringRaises, ApiRecord, ApiCommit, LockTimeout
<1>3. ASSUME NEW q \in Req, NEW route \in Routes, NEW action \in HumanActions,
             Open(q, route, action)
      PROVE TypeOK'
  BY <1>3 DEF Open
<1>4. CASE Crash
  BY <1>4 DEF Crash
<1>5. CASE UNCHANGED vars
  BY <1>5 DEF vars
<1> QED
  BY <1>1, <1>2, <1>3, <1>4, <1>5 DEF Next

\* An answer that denies a deposit is given by a handler that ends without one.
LEMMA AnswerStep == IInv /\ [Next]_vars => AnswerInv'
<1> SUFFICES ASSUME IInv, [Next]_vars, NEW p \in Req PROVE AnswerFits(p)'
  BY DEF AnswerInv
<1> AnswerFits(p) /\ TypeOK
  BY DEF IInv, AnswerInv
<1> USE DEF TypeOK, AnswerFits, Unwritten, Active, Working, Holding, durable, Goto, Tell, End
<1>1. ASSUME NEW q \in Req, Deposit(q) PROVE AnswerFits(p)'
  <2> DEFINE new == [version |-> NextCorpusVersion, from |-> About[q], by |-> q]
  <2>1. corpus' = corpus \union {new} /\ new.by = q /\ audited' = audited \union {q}
    BY <1>1 DEF Deposit
  <2>2. pc[q] = "authoring" /\ pc' = [pc EXCEPT ![q] = "done"]
        /\ answer' = [answer EXCEPT ![q] = "deposited"]
    BY <1>1 DEF Deposit
  <2> HIDE DEF new
  <2>3. CASE p = q
    BY <2>1, <2>2, <2>3
  <2>4. CASE p # q
    BY <2>1, <2>2, <2>4
  <2> QED
    BY <2>3, <2>4
<1>2. ASSUME NEW q \in Req, Handler(q), ~Deposit(q) PROVE AnswerFits(p)'
  <2>1. CASE CannotDeposit(q)
    BY <2>1 DEF CannotDeposit
  <2>2. CASE RecordAction(q)
    BY <2>2 DEF RecordAction
  <2>3. CASE RecordRejection(q)
    BY <2>3 DEF RecordRejection
  <2>4. CASE DepositFails(q)
    BY <2>4 DEF DepositFails
  <2>5. CASE AuthoringRaises(q)
    BY <2>5 DEF AuthoringRaises
  <2>6. CASE ApiRecord(q)
    BY <2>6 DEF ApiRecord
  <2>7. CASE ApiCommit(q)
    BY <2>7 DEF ApiCommit
  <2>8. CASE LockTimeout(q)
    BY <2>8 DEF LockTimeout
  <2> QED
    BY <1>2, <2>1, <2>2, <2>3, <2>4, <2>5, <2>6, <2>7, <2>8 DEF Handler
<1>3. ASSUME NEW q \in Req, NEW route \in Routes, NEW action \in HumanActions,
             Open(q, route, action)
      PROVE AnswerFits(p)'
  BY <1>3, ReviewAssumption DEF Open
<1>4. CASE Crash
  BY <1>4 DEF Crash
<1>5. CASE UNCHANGED vars
  BY <1>5 DEF vars
<1> QED
  BY <1>1, <1>2, <1>3, <1>4, <1>5 DEF Next

\* A recorded decision is replaced by another, never erased.
LEMMA ReviewStep ==
  ASSUME IInv, [Next]_vars, NEW r \in Resolution, review[r] # "none"
  PROVE review'[r] # "none"
<1> USE DEF IInv, TypeOK, ActionKnown, Active, Working, Holding, HumanActions, Depositing, durable
<1>1. ASSUME NEW q \in Req, Handler(q) PROVE review'[r] # "none"
  BY <1>1 DEF Handler, CannotDeposit, RecordAction, RecordRejection, Deposit, DepositFails,
              AuthoringRaises, ApiRecord, ApiCommit, LockTimeout
<1>2. ASSUME NEW q \in Req, NEW route \in Routes, NEW action \in HumanActions,
             Open(q, route, action)
      PROVE review'[r] # "none"
  BY <1>2 DEF Open
<1>3. CASE Crash \/ UNCHANGED vars
  BY <1>3 DEF Crash, vars
<1> QED
  BY <1>1, <1>2, <1>3 DEF Next

\* A deposit commits review, precedent and audit row in one step.
LEMMA ReviewedStep == IInv /\ [Next]_vars => PrecedentsAreReviewed'
<1> SUFFICES ASSUME IInv, [Next]_vars, NEW p \in corpus'
             PROVE review'[p.from] # "none" /\ p.by \in audited'
  BY DEF PrecedentsAreReviewed
<1>1. CASE p \in corpus
  <2>1. review[p.from] # "none" /\ p.by \in audited /\ p.from \in Resolution
    BY <1>1 DEF IInv, PrecedentsAreReviewed, TypeOK, Precedents
  <2>2. audited \subseteq audited'
    BY StoreStep DEF Deposit, DepositFails
  <2> QED
    BY <2>1, <2>2, ReviewStep
<1>2. ASSUME NEW q \in Req, Deposit(q), p \notin corpus
      PROVE review'[p.from] # "none" /\ p.by \in audited'
  <2>1. p.from = About[q] /\ p.by = q
    BY <1>2 DEF Deposit
  <2>2. act[q] \in Depositing /\ About[q] \in Resolution
    BY <1>2, ReviewAssumption DEF IInv, ActionKnown, Deposit
  <2> QED
    BY <1>2, <2>1, <2>2 DEF Deposit, IInv, TypeOK, Depositing
<1> QED
  BY <1>1, <1>2, StoreStep DEF DepositFails

\* Types, actions, answers, dense versions and reviewed precedents hold together.
THEOREM InductiveInvariant == Spec => []IInv
<1>1. IInv /\ [Next]_vars => IInv'
  BY TypeStep, ActionStep, AnswerStep, DenseStep, ReviewedStep DEF IInv
<1> QED
  BY <1>1, InitInv, PTL DEF Spec

----------------------------------------------------------------------------
(* The properties the run checks. *)

\* Every variable keeps to the values the schema and the handlers can give it.
THEOREM TypeCorrect == Spec => []TypeOK
<1>1. IInv => TypeOK
  BY DEF IInv
<1> QED
  BY <1>1, InductiveInvariant, PTL

\* The version of the last deposit is the number of deposits, and no two share one.
THEOREM DenseCorpus == Spec => []CorpusIsDense
<1>1. IInv => CorpusIsDense
  <2> SUFFICES ASSUME DenseInv PROVE CorpusIsDense
    BY DEF IInv
  <2>1. Cardinality(corpus) \in Nat /\ Versions = 1..Cardinality(corpus)
    BY NextVersion DEF DenseInv
  <2>2. Cardinality(Versions) = Cardinality(corpus)
    BY <2>1, FS_Interval
  <2> QED
    BY <2>1, <2>2 DEF CorpusIsDense
<1> QED
  BY <1>1, InductiveInvariant, PTL

\* Every precedent has a reviewed resolution and an audit row behind it.
THEOREM ReviewedPrecedents == Spec => []PrecedentsAreReviewed
<1>1. IInv => PrecedentsAreReviewed
  BY DEF IInv
<1> QED
  BY <1>1, InductiveInvariant, PTL

\* What the screen said of a deposit, and what a refusal, an error or a plain "recorded" denied
\* on either route, agrees with what the store holds, then and later.
THEOREM ShownTheTruth == Spec => []AnswersMatchTheStore
<1>1. IInv => AnswersMatchTheStore
  BY DEF IInv, AnswerInv, AnswerFits, Unwritten, AnswersMatchTheStore
<1> QED
  BY <1>1, InductiveInvariant, PTL

\* A deposit goes on top of every existing version: replays at a version always agree.
THEOREM StableSnapshots == Spec => SnapshotsNeverChange
<1>1. IInv /\ [Next]_vars
        => [\A n \in 0..Max(Versions \union {0}) : AsOf(n)' = AsOf(n)]_vars
  <2> SUFFICES ASSUME IInv, [Next]_vars, NEW n \in 0..Max(Versions \union {0})
               PROVE AsOf(n)' = AsOf(n)
    OBVIOUS
  <2>1. CASE UNCHANGED corpus
    BY <2>1 DEF AsOf
  <2>2. ASSUME NEW q \in Req, Deposit(q) PROVE AsOf(n)' = AsOf(n)
    <3> DEFINE new == [version |-> NextCorpusVersion, from |-> About[q], by |-> q]
    <3>1. corpus' = corpus \union {new}
      BY <2>2 DEF Deposit
    <3>2. ~(new.version <= n)
      <4>1. /\ Cardinality(corpus) \in Nat /\ n \in 0..Cardinality(corpus)
            /\ new.version = Cardinality(corpus) + 1
        BY NextVersion DEF IInv
      <4> QED
        BY <4>1
    <3> HIDE DEF new
    <3> QED
      BY <3>1, <3>2 DEF AsOf
  <2> QED
    BY <2>1, <2>2, StoreStep DEF DepositFails
<1> QED
  BY <1>1, InductiveInvariant, PTL DEF Spec, SnapshotsNeverChange

\* Only a handler that had read the resolution as undecided can overwrite its decision.
THEOREM FinalDecision == Spec => FinalOnceQuiet
<1> SUFFICES ASSUME NEW r \in Resolution, NEW d \in HumanActions
             PROVE Spec => [](review[r] = d /\ Quiet(r) => [](review[r] = d))
  BY DEF FinalOnceQuiet
<1>1. IInv /\ review[r] = d /\ Quiet(r) /\ [Next]_vars => (review[r] = d /\ Quiet(r))'
  <2> SUFFICES ASSUME IInv, review[r] = d, Quiet(r), [Next]_vars
               PROVE (review[r] = d /\ Quiet(r))'
    OBVIOUS
  <2> USE DEF IInv, TypeOK, Quiet, Working, Holding, HumanActions, Depositing, durable, Goto, End
  <2>1. ASSUME NEW q \in Req, Handler(q) PROVE (review[r] = d /\ Quiet(r))'
    BY <2>1 DEF Handler, CannotDeposit, RecordAction, RecordRejection, Deposit, DepositFails,
                AuthoringRaises, ApiRecord, ApiCommit, LockTimeout
  <2>2. ASSUME NEW q \in Req, NEW route \in Routes, NEW action \in HumanActions,
               Open(q, route, action)
        PROVE (review[r] = d /\ Quiet(r))'
    BY <2>2 DEF Open
  <2>3. CASE Crash
    BY <2>3 DEF Crash
  <2>4. CASE UNCHANGED vars
    BY <2>4 DEF vars
  <2> QED
    BY <2>1, <2>2, <2>3, <2>4 DEF Next
<1> QED
  BY <1>1, InductiveInvariant, PTL DEF Spec

----------------------------------------------------------------------------
(* The process. *)

\* An open delivery is to be stored; one that was acked is stored, or will be unless the
\* process dies.
DeliveryKept(d) ==
  /\ hook[d] \in {"blocked", "open"} => Storable(d)
  /\ d \in acked /\ Storable(d) => hook[d] = "open" \/ events[EventOf[d]] # "none" \/ crashed

\* The kinds of rows, the stages, and what has become of every delivery.
ServiceInv ==
  /\ events \in [Event -> {"none", "signed", "unsigned"}]
  /\ hook \in [Delivery -> Stages]
  /\ loop \in Delivery => hook[loop] = "blocked"
  /\ \A d \in Delivery : DeliveryKept(d)

\* Without a crash, an acked delivery that is over has its row: what the docstring of
\* api/webhooks.py promises holds up to the crash between the 200 and the commit.
AckedUnlessCrashed ==
  \A d \in Delivery :
    Storable(d) /\ d \in acked /\ hook[d] = "away" => events[EventOf[d]] # "none" \/ crashed

----------------------------------------------------------------------------
(* The gate inside the process. *)

\* A step of the process is a step of the gate, or none of its business.
LEMMA GateStep == [ServiceNext]_allvars => [Next]_vars
<1> SUFFICES ASSUME [ServiceNext]_allvars PROVE [Next]_vars
  OBVIOUS
<1>1. CASE Die
  BY <1>1 DEF Die, gate, Next
<1>2. ASSUME NEW q \in Req, OpenRequest(q) PROVE Next
  BY <1>2 DEF OpenRequest, Next
<1>3. ASSUME NEW q \in Req, Decide(q) PROVE Next
  <2>1. Handler(q)
    BY <1>3 DEF Decide, RunOnThread, TakeLock, EndApiRequest, Handler
  <2> QED
    BY <2>1 DEF Next
<1>4. ASSUME NEW q \in Req, Unlock(q) PROVE UNCHANGED vars
  BY <1>4 DEF Unlock, gate
<1>5. ASSUME NEW d \in Delivery, Deliver(d) \/ Receive(d) PROVE UNCHANGED vars
  BY <1>5 DEF Deliver, Receive, Dismiss, Record, Block, Unblock, Insert, InsertTimeout,
              CommitDelivery, gate
<1>6. CASE UNCHANGED allvars
  BY <1>6 DEF allvars
<1> QED
  BY <1>1, <1>2, <1>3, <1>4, <1>5, <1>6 DEF ServiceNext

\* Whatever deliveries, crashes and locked browsers it meets, the process keeps to the
\* specification of the first gate.
THEOREM ServiceImplementsGate == ServiceSpec => GateSpec
<1>1. ServiceInit => Init
  BY DEF ServiceInit
<1> QED
  BY <1>1, GateStep, PTL DEF ServiceSpec, GateSpec, Spec

\* So does all that was proved of the gate: the deposits are numbered without gaps, every
\* precedent has its review and its audit row, and the operators were told the truth.
THEOREM GateInvariants ==
  ServiceSpec => [](CorpusIsDense /\ PrecedentsAreReviewed /\ AnswersMatchTheStore)
BY ServiceImplementsGate, DenseCorpus, ReviewedPrecedents, ShownTheTruth, PTL DEF GateSpec

\* And a snapshot of the corpus never changes, nor does a decision once it is quiet.
THEOREM GateSteps == ServiceSpec => SnapshotsNeverChange /\ FinalOnceQuiet
BY ServiceImplementsGate, StableSnapshots, FinalDecision DEF GateSpec

----------------------------------------------------------------------------
(* The receiver. *)

\* Nothing is delivered at first.
LEMMA InitService == ServiceInit => ServiceInv
BY ServiceAssumption DEF ServiceInit, ServiceInv, DeliveryKept, Stages

\* A step that leaves the receiver alone and is no crash.
LEMMA OtherStep ==
  ASSUME ServiceInv, UNCHANGED <<hooks, crashed>> PROVE ServiceInv'
BY DEF ServiceInv, DeliveryKept, Storable, hooks

\* Only the end of a delivery's transaction writes a row, and only where there was none.
LEMMA RowsStand ==
  ASSUME ServiceInv, [ServiceNext]_allvars, NEW e \in Event, events[e] # "none"
  PROVE events'[e] = events[e]
<1>1. ASSUME NEW d \in Delivery, CommitDelivery(d) PROVE events'[e] = events[e]
  BY <1>1 DEF CommitDelivery, ServiceInv
<1>2. UNCHANGED events \/ \E d \in Delivery : CommitDelivery(d)
  BY DEF ServiceNext, Die, OpenRequest, Decide, RunOnThread, TakeLock, EndApiRequest, Unlock,
         Deliver, Receive, Dismiss, Record, Block, Unblock, Insert, InsertTimeout, hooks,
         allvars
<1> QED
  BY <1>1, <1>2

\* Each step of a delivery keeps what has become of it and of the others.
LEMMA ReceiveStep ==
  ASSUME ServiceInv, NEW d \in Delivery, Deliver(d) \/ Receive(d)
  PROVE ServiceInv'
<1> USE ServiceAssumption DEF ServiceInv, DeliveryKept, Stages, Storable, At
<1>1. CASE Deliver(d)
  BY <1>1 DEF Deliver
<1>2. CASE Dismiss(d)
  BY <1>2 DEF Dismiss
<1>3. CASE Record(d)
  BY <1>3 DEF Record, Insert
<1>4. CASE Block(d)
  BY <1>4 DEF Block
<1>5. CASE Unblock(d)
  BY <1>5 DEF Unblock, Insert
<1>6. CASE InsertTimeout(d)
  BY <1>6 DEF InsertTimeout
<1>7. CASE CommitDelivery(d)
  <2>1. EventOf[d] \in Event /\ events[EventOf[d]] \in {"none", "signed", "unsigned"}
    BY <1>7 DEF CommitDelivery
  <2>2. /\ events' \in [Event -> {"none", "signed", "unsigned"}]
        /\ events'[EventOf[d]] # "none"
        /\ \A e \in Event : events[e] # "none" => events'[e] = events[e]
    BY <1>7, <2>1 DEF CommitDelivery
  <2>3. /\ hook[d] = "open" /\ hook' = [hook EXCEPT ![d] = "away"]
        /\ loop = "free" /\ UNCHANGED <<loop, acked, crashed>>
    BY <1>7 DEF CommitDelivery
  <2> QED
    BY <2>1, <2>2, <2>3
<1> QED
  BY <1>1, <1>2, <1>3, <1>4, <1>5, <1>6, <1>7 DEF Receive

\* Deliveries keep to their course.
THEOREM DeliveriesKept == ServiceSpec => []ServiceInv
<1>1. ServiceInv /\ [ServiceNext]_allvars => ServiceInv'
  <2> SUFFICES ASSUME ServiceInv, [ServiceNext]_allvars PROVE ServiceInv'
    OBVIOUS
  <2>1. CASE Die
    BY <2>1, ServiceAssumption DEF Die, ServiceInv, DeliveryKept, Stages, Storable
  <2>2. ASSUME NEW q \in Req, OpenRequest(q) \/ Decide(q) \/ Unlock(q)
        PROVE UNCHANGED <<hooks, crashed>>
    BY <2>2 DEF OpenRequest, Decide, RunOnThread, TakeLock, EndApiRequest, Unlock
  <2>3. CASE UNCHANGED allvars
    BY <2>3, OtherStep DEF allvars
  <2> QED
    BY <2>1, <2>2, <2>3, OtherStep, ReceiveStep DEF ServiceNext, allvars
<1> QED
  BY <1>1, InitService, PTL DEF ServiceSpec

\* The row of an event is the one its first copy wrote, for ever.
THEOREM FirstCopyKept == ServiceSpec => FirstCopyStands
<1>1. ServiceInv /\ [ServiceNext]_allvars
        => [\A e \in Event : events[e] # "none" => events'[e] = events[e]]_allvars
  BY RowsStand
<1> QED
  BY <1>1, DeliveriesKept, PTL DEF ServiceSpec, FirstCopyStands

\* A delivery that was acked and is over has its row, unless the process has died.
THEOREM AckedHasItsRow == ServiceSpec => []AckedUnlessCrashed
<1>1. ServiceInv => AckedUnlessCrashed
  BY DEF ServiceInv, DeliveryKept, AckedUnlessCrashed
<1> QED
  BY <1>1, DeliveriesKept, PTL
=============================================================================
