------------------------------- MODULE Throttle -------------------------------
(***************************************************************************)
(* The model clients of a batch: complete() of openai_compatible.py        *)
(* (paced by a TokenRateThrottle for Groq, unpaced for NVIDIA) and of      *)
(* gemini.py, called by a pool of worker threads that share one client.    *)
(*                                                                         *)
(* The clock is relative: every charge, post and sleep carries its age or  *)
(* what is left of it, and Tick moves them all.  One tick is one W-th of   *)
(* WINDOW_SECONDS.                                                         *)
(***************************************************************************)
EXTENDS Filtering, FiniteSetsExt, Functions

CONSTANTS
  Calls,        \* the prompts of the batch
  Estimate,     \* Estimate[t]: estimate_tokens of the prompt
  Usage,        \* the token counts the provider may report
  Budget,       \* tokens_per_minute times the safety margin
  W,            \* WINDOW_SECONDS
  MaxAttempts,  \* max_attempts of the client
  MaxNap,       \* MAX_BACKOFF_SECONDS
  MaxWorkers,   \* the pool sizes explored
  Clients       \* the clients explored: a subset of Kinds

Kinds == {"paced", "unpaced", "gemini", "keyless"}

ASSUME ThrottleAssumption ==
  /\ Estimate \in [Calls -> Nat]
  /\ Usage \subseteq Nat
  /\ {Budget, W, MaxAttempts, MaxWorkers} \subseteq Nat \ {0}
  /\ MaxNap \in Nat
  /\ Clients \subseteq Kinds

VARIABLES
  client,       \* the client the batch uses
  workers,      \* the threads of the pool
  spent,        \* `_spent`: the charges, oldest first
  pc,           \* pc[t]: where complete() stands for prompt t
  nap,          \* nap[t]: what is left of its sleep
  since,        \* since[t]: how long ago its request went out, W at most
  attempt,      \* attempt[t]: the requests sent so far
  outcome,      \* outcome[t]: what complete() returned or raised
  told,         \* whether every request so far was answered at once, with its usage
  real          \* real[a]: what was billed for the requests sent a ticks ago, while told

vars == <<client, workers, spent, pc, nap, since, attempt, outcome, told, real>>
rigid == <<client, workers>>
billing == <<told, real>>

Ages == 0..(W - 1)
Places == {"queued", "waiting", "posted", "backoff", "done"}
Outcomes == {"none", "answered", "unavailable", "raised"}

TypeOK ==
  /\ client \in Clients
  /\ workers \in 1..MaxWorkers
  /\ spent \in Seq([age : 0..W, tokens : Nat])
  /\ pc \in [Calls -> Places]
  /\ nap \in [Calls -> 0..Max({W, MaxNap})]
  /\ since \in [Calls -> 0..W]
  /\ attempt \in [Calls -> 0..MaxAttempts]
  /\ outcome \in [Calls -> Outcomes]
  /\ real \in [Ages -> Nat]
  /\ told \in BOOLEAN

Init ==
  /\ client \in Clients
  /\ workers \in 1..MaxWorkers
  /\ spent = <<>>
  /\ pc = [t \in Calls |-> "queued"]
  /\ nap = [t \in Calls |-> 0]
  /\ since = [t \in Calls |-> W]
  /\ attempt = [t \in Calls |-> 0]
  /\ outcome = [t \in Calls |-> "none"]
  /\ real = [a \in Ages |-> 0]
  /\ told = TRUE

----------------------------------------------------------------------------
(* The window *)

\* A mutated form: charges are never forgotten.
NeverPruned(charges) == charges

\* _prune: the charges younger than the window.
Pruned(charges) == Filtered(charges, [age : Ages, tokens : Nat])

Used(charges) == SumFunction([i \in DOMAIN charges |-> charges[i].tokens])

\* A mutated form: the prompt itself is not counted.
AdmitsOneMore(charges, tokens) == Used(charges) < Budget \/ charges = <<>>

\* Whether acquire lets a prompt through.
Admits(charges, tokens) == Used(charges) + tokens <= Budget \/ charges = <<>>

\* A mutated form: usage above the estimate is not charged.
CorrectedDownOnly(charges, estimated, actual) ==
  IF actual >= estimated \/ charges = <<>> THEN charges
  ELSE [charges EXCEPT ![Len(charges)].tokens =
          Max({0, (@ + actual) - estimated})]

\* reconcile: the youngest charge is corrected, whoever made it, and never below zero.
Corrected(charges, estimated, actual) ==
  IF charges = <<>> THEN charges
  ELSE [charges EXCEPT ![Len(charges)].tokens =
          IF @ + actual < estimated THEN 0 ELSE (@ + actual) - estimated]

----------------------------------------------------------------------------
Throttled == client = "paced"
InProgress == {t \in Calls : pc[t] \notin {"queued", "done"}}

Goto(t, place) == pc' = [pc EXCEPT ![t] = place]
End(t, what) == Goto(t, "done") /\ outcome' = [outcome EXCEPT ![t] = what]

\* The provider bills the request; `known` says whether complete() learns how much.
Bill(t, tokens, known) ==
  /\ told' = (told /\ known)
  /\ real' = [a \in Ages |-> IF told' /\ Throttled /\ a = since[t] THEN real[a] + tokens
                             ELSE IF told' THEN real[a] ELSE 0]

Post(t) ==
  /\ Goto(t, "posted")
  /\ since' = [since EXCEPT ![t] = 0]
  /\ attempt' = [attempt EXCEPT ![t] = @ + 1]

\* A thread of the pool takes the next prompt.  Without a key nothing is sent.
Start(t) ==
  /\ pc[t] = "queued"
  /\ Cardinality(InProgress) < workers
  /\ \/ client = "keyless" /\ End(t, "unavailable")
     \/ client # "keyless" /\ Goto(t, "waiting") /\ UNCHANGED outcome
  /\ UNCHANGED <<rigid, spent, nap, since, attempt, billing>>

\* An unpaced client sends at once.
SendUnpaced(t) ==
  /\ pc[t] = "waiting"
  /\ ~Throttled
  /\ Post(t)
  /\ UNCHANGED <<rigid, spent, nap, outcome, billing>>

\* acquire finds room and charges the estimate; the request goes out.
Acquire(t) ==
  /\ pc[t] = "waiting"
  /\ nap[t] = 0
  /\ Throttled
  /\ Admits(Pruned(spent), Estimate[t])
  /\ spent' = Append(Pruned(spent), [age |-> 0, tokens |-> Estimate[t]])
  /\ Post(t)
  /\ UNCHANGED <<rigid, nap, outcome, billing>>

\* acquire finds none: it prunes the window and sleeps until the oldest charge leaves it.
Wait(t) ==
  /\ pc[t] = "waiting"
  /\ nap[t] = 0
  /\ Throttled
  /\ ~Admits(Pruned(spent), Estimate[t])
  /\ spent' = Pruned(spent)
  /\ nap' = [nap EXCEPT ![t] = W - Head(spent').age]
  /\ UNCHANGED <<rigid, pc, since, attempt, outcome, billing>>

----------------------------------------------------------------------------
(* What comes back *)

\* A body: its usage, when reported, corrects the window; then its message is looked at.  A
\* text is returned, a choice without one is unavailable, and a message that is not an
\* object escapes as an AttributeError.
Body(t) ==
  /\ pc[t] = "posted"
  /\ \E u \in Usage :
       \E total \in {u, Estimate[t]} :
         /\ Bill(t, u, total = u)
         /\ spent' = IF Throttled THEN Corrected(spent, Estimate[t], total) ELSE spent
  /\ \E what \in Outcomes \ {"none"} : End(t, what)
  /\ UNCHANGED <<rigid, nap, since, attempt>>

\* A success whose body is not JSON, or JSON but not an object: it was served, and nothing
\* is corrected.  The OpenAI-compatible client fails on the latter with an AttributeError.
Unreadable(t) ==
  /\ pc[t] = "posted"
  /\ Bill(t, 0, FALSE)
  /\ \/ End(t, "unavailable")
     \/ client # "gemini" /\ End(t, "raised")
  /\ UNCHANGED <<rigid, spent, nap, since, attempt>>

\* 401, 403, a 429 whose text names a daily quota (looked at before the retryable statuses,
\* of which 429 is one), or any status that is not retryable.
Refusal(t) ==
  /\ pc[t] = "posted"
  /\ End(t, "unavailable")
  /\ UNCHANGED <<rigid, spent, nap, since, attempt, billing>>

\* A retryable status, or a transport failure after which the provider may still have
\* served the request: back off, or give up after the last attempt.  Nothing is charged.
Transient(t) ==
  /\ pc[t] = "posted"
  /\ Bill(t, 0, FALSE)
  /\ \/ /\ attempt[t] < MaxAttempts
        /\ Goto(t, "backoff")
        /\ \E n \in 0..MaxNap : nap' = [nap EXCEPT ![t] = n]
        /\ UNCHANGED outcome
     \/ /\ attempt[t] = MaxAttempts
        /\ End(t, "unavailable")
        /\ UNCHANGED nap
  /\ UNCHANGED <<rigid, spent, since, attempt>>

\* The sleep is over: the request goes out again, without asking the throttle.
Retry(t) ==
  /\ pc[t] = "backoff"
  /\ nap[t] = 0
  /\ Post(t)
  /\ UNCHANGED <<rigid, spent, nap, outcome, billing>>

\* Time passes.
Older(charges) == [i \in DOMAIN charges |-> [charges[i] EXCEPT !.age = Min({W, @ + 1})]]

Tick ==
  /\ spent' = Older(spent)
  /\ nap' = [t \in Calls |-> IF nap[t] = 0 THEN 0 ELSE nap[t] - 1]
  /\ since' = [t \in Calls |-> Min({W, since[t] + 1})]
  /\ real' = [a \in Ages |-> IF a = 0 THEN 0 ELSE real[a - 1]]
  /\ UNCHANGED <<rigid, pc, attempt, outcome, told>>

----------------------------------------------------------------------------
Client(t) == Start(t) \/ SendUnpaced(t) \/ Acquire(t) \/ Wait(t) \/ Retry(t)

Provider(t) ==
  Body(t) \/ Unreadable(t) \/ Refusal(t) \/ Transient(t)

Next == Tick \/ \E t \in Calls : Client(t) \/ Provider(t)

\* The threads run, the provider answers or the request times out, and time passes.
Fairness == WF_vars(Tick) /\ \A t \in Calls : WF_vars(Client(t)) /\ WF_vars(Provider(t))

Spec == Init /\ [][Next]_vars

FairSpec == Spec /\ Fairness

----------------------------------------------------------------------------
(* Properties *)

\* The tokens billed to the requests of the last window.
Billed == SumFunction(real)

\* One thread, and every request it sent answered at once with its usage.
Alone == Throttled /\ workers = 1 /\ told

\* With one worker the charges still in the window cover what the provider has billed
\* inside it, whatever the usage turned out to be (acquire, reconcile).
ChargesCoverTheBill == Alone => Billed <= Used(Pruned(spent))

\* With one worker a prompt goes out only when what was really billed inside the window
\* leaves room for it, or nothing was: the promise of the class, "keeps token spend within
\* `tokens_per_minute` over a rolling window", where the code can keep it.
PaceIsKept ==
  [][\A t \in Calls : Alone /\ attempt'[t] > attempt[t] =>
       Billed + Estimate[t] <= Budget \/ Billed = 0]_vars

\* Every prompt of the batch gets its outcome: a worker that finds no room is admitted in the
\* end, even with a prompt larger than the whole budget, and no retry goes on for ever.
CallsEnd == \A t \in Calls : <>(pc[t] = "done")

----------------------------------------------------------------------------
(* A statement of the repository that the code does not keep *)

\* throttle.py, TokenRateThrottle: "Keeps token spend within `tokens_per_minute` over a
\* rolling window. / Thread-safe: the ablation runs several workers against one client".
SpendStaysWithinBudget ==
  [][\A t \in Calls : Throttled /\ told /\ attempt'[t] > attempt[t] =>
       Billed + Estimate[t] <= Budget \/ Billed = 0]_vars
=============================================================================
