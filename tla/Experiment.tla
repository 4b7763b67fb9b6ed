----------------------------- MODULE Experiment -----------------------------
(***************************************************************************)
(* The two experiments (evals/replay.py, evals/ablation.py) as runs of one *)
(* process.  A replay first works the pool exceptions in the deposit order *)
(* and authors a precedent for each one its simulated reviewer signs off;  *)
(* then it measures every held-out case on each snapshot of the corpus,    *)
(* with retrieval and with the random control.  An ablation measures the   *)
(* pool exceptions in three arms on the seed corpus.  Both spread the      *)
(* cases over a thread pool, give up when too many never reached the       *)
(* model, and write one result at the very end; a run that died is started *)
(* again on what the response cache kept.                                  *)
(***************************************************************************)
EXTENDS Split, Filtering

CONSTANTS
  Seeds,           \* the ids of the seed precedents, none of them a scenario's
  Relevance,       \* Relevance[p][s]: what BM25 scores the precedent of p for the case of s
  K,               \* how many precedents a case is given
  Shuffle,         \* the order DEPOSIT_ORDER_SEED puts them in
  Jobs,            \* what a run may be asked for; runs bounds how often it is started
  Rejected,        \* the scenarios the reviewer's seeded draw declines
  Workers,         \* max_workers of the thread pool
  MaxToolCalls,    \* MAX_TOOL_CALLS of an investigation
  WrongCodes,      \* the reason codes an agent may propose where they are not the gold one
  MinUnavailable,  \* MIN_UNAVAILABLE_TO_ABORT
  MaxShare         \* MAX_UNAVAILABLE_SHARE, in cases of a hundred

Job == [kind : {"replay", "ablation"}, reviewed : BOOLEAN, snapshots : Seq(Nat), limit : Nat,
        runs : Nat \ {0}]

ASSUME ExperimentAssumption ==
  /\ Seeds \subseteq Int \ Scenario /\ IsFiniteSet(Seeds)
  /\ Relevance \in [Seeds \union Scenario -> [Scenario -> Nat]]
  /\ K \in Nat \ {0}
  /\ Shuffle \in Seq(Scenario)
  /\ \A i, j \in DOMAIN Shuffle : Shuffle[i] = Shuffle[j] => i = j
  /\ \A s \in Scenario : \E i \in DOMAIN Shuffle : Shuffle[i] = s
  /\ Jobs \subseteq Job
  /\ Rejected \subseteq Scenario
  /\ Workers \in Nat \ {0} /\ MaxToolCalls \in Nat /\ MinUnavailable \in Nat /\ MaxShare \in Nat
  /\ WrongCodes \intersect {"right", "escalated", "unreachable", "none"} = {}

VARIABLES
  job,       \* what was asked for
  held,      \* the held-out test set of the dataset
  ordered,   \* `ordered`: the cases to work for the corpus, in the order of the deposits
  cases,     \* the cases every arm measures, in file order
  phase,     \* where the run is
  entry,     \* the deposit sequence: the entry of each position
  arm,       \* the arm being measured, counted over all snapshots
  attempt,   \* where each case of that arm is
  results,   \* the arms measured
  cache,     \* what the model answered to the prompts of a scenario, on disk
  previous,  \* the deposit sequence of the run before
  runs       \* how many runs have been started

rigid == <<job, held, ordered, cases>>
vars == <<rigid, phase, entry, arm, attempt, results, cache, previous, runs>>

\* What an investigation proposes, against the gold code, and what authoring a precedent of it
\* ends in.
Proposals == {"right", "escalated"} \union WrongCodes
Authorings == {"authored", "unreadable"}
NoAnswer == "none"

\* How much evidence a proposal may be made on, and how the tool loop can end: the model is
\* done with it, it loses the model, or it raises.
Evidence == 0..MaxToolCalls
LoopEnds == {"stops", "cut", "raises"}

\* The prompts of a scenario, with their answers: each tool decision follows from the ones
\* before it, a proposal from the evidence, an authoring from the reviewer's note.
Unasked ==
  [loop |-> [calls |-> 0, end |-> "open"],
   said |-> [n \in Evidence |-> NoAnswer],
   authored |-> [note \in Proposals \union {NoAnswer} |-> NoAnswer]]

Ended == {"written", "printed", "aborted", "raised"}
Blank == [at |-> "waiting", calls |-> 0, cut |-> FALSE, said |-> NoAnswer, outcome |-> NoAnswer,
          version |-> 0]

Pool == Exceptions \ held

FileOrder == [i \in DOMAIN Dataset |-> i]

\* A mutated form: every exception of the dataset is worked and deposited.
DepositOrderUnsplit == Filtered(Shuffle, Exceptions)

\* deposit_order, cut to the job's limit where it has one.
DepositOrder == Filtered(Shuffle, Pool)

Limited(order, limit) == IF limit = 0 THEN order ELSE SubSeq(order, 1, Min({limit, Len(order)}))

\* What a run works before it measures: an ablation nothing.
Ordered == IF job.kind = "ablation" THEN <<>> ELSE Limited(DepositOrder, job.limit)
Positions == DOMAIN ordered

\* The cases measured: the held-out ones, or for an ablation the pool.
Cases ==
  IF job.kind = "replay" THEN Filtered(FileOrder, held)
  ELSE Limited(Filtered(FileOrder, Pool), job.limit)

\* The arms to measure, each as the deposits its corpus holds and its name.
Plan ==
  IF job.kind = "ablation"
  THEN <<[deposits |-> 0, name |-> "zero_shot"], [deposits |-> 0, name |-> "grounded"],
         [deposits |-> 0, name |-> "random_control"]>>
  ELSE LET reached == Filtered(job.snapshots, 0..Len(ordered))
       IN  [a \in 1..(2 * Len(reached)) |->
              [deposits |-> reached[(a + 1) \div 2],
               name |-> IF a % 2 = 1 THEN "retrieved" ELSE "random_control"]]

\* Where a call of author is while a thread works on it.
InHand == {"investigating", "proposing", "authoring"}

TypeOK ==
  /\ job \in Jobs
  /\ held \in TestSets
  /\ ordered = Ordered /\ cases = Cases
  /\ phase \in {"depositing", "measuring", "killed"} \union Ended
  /\ entry \in [Positions -> [at : {"waiting", "done", "raised"} \union InHand,
                              calls : Evidence, cut : BOOLEAN,
                              said : Proposals \union {"unreachable", NoAnswer},
                              outcome : Authorings \union {"rejected", "unreachable", NoAnswer},
                              version : Nat]]
  /\ arm \in 1..(Len(Plan) + 1)
  /\ attempt \in [DOMAIN cases -> {"waiting", "running", "answered", "unreachable", "raised"}]
  /\ runs \in 1..job.runs

FirstPhase(kind) == IF kind = "replay" THEN "depositing" ELSE "measuring"

Init ==
  /\ job \in Jobs
  /\ held \in TestSets
  /\ ordered = Ordered /\ cases = Cases
  /\ phase = FirstPhase(job.kind)
  /\ arm = 1 /\ results = <<>>
  /\ entry = [i \in Positions |-> Blank]
  /\ attempt = [c \in DOMAIN cases |-> "waiting"]
  /\ cache = [s \in Scenario |-> Unasked]
  /\ previous = entry
  /\ runs = 1

----------------------------------------------------------------------------
(* The deposit sequence: author, one call of it per position.              *)

\* The thread pool starts the calls in order, no more than its workers at a time.
NextUp(state, i, idle, busy) ==
  /\ state[i] = idle
  /\ \A j \in DOMAIN state : j < i => state[j] # idle
  /\ Cardinality({j \in DOMAIN state : state[j] \in busy}) < Workers

\* A mutated form: the corpus version is the number of calls finished so far.
VersionByCompletion(i) == Cardinality({j \in Positions : entry[j].at = "done"}) + 1

\* Where a position's precedent stands in the corpus: enumerate(ordered, start=1).
VersionOf(i) == i

\* A mutated form: one stream of draws serves the cases as they come.
RejectsByCallOrder(i) ==
  Cardinality({j \in Positions : entry[j].outcome # NoAnswer \/ entry[j].at = "authoring"}) + 1
    \in Rejected

\* SimulatedReviewer._rejects draws from a hash of the scenario's id.
Rejects(i) == ordered[i] \in Rejected

\* The note a correction carries, and so the prompt it is authored from, tells an escalation
\* from a wrong proposal, but not why the agent escalated.
NoteOf(said) == IF said = "unreachable" THEN "escalated" ELSE said

\* The call of a position begins; with a reviewer, the agent works the case first.
Begin(i) ==
  /\ phase = "depositing"
  /\ NextUp([j \in Positions |-> entry[j].at], i, "waiting", InHand)
  /\ entry' = [entry EXCEPT ![i].at = IF job.reviewed THEN "investigating" ELSE "authoring"]
  /\ UNCHANGED <<rigid, phase, arm, attempt, results, cache, previous, runs>>

\* The tool loop of run_investigation.  It goes as far as its cached decisions lead, and ends
\* there if they end it, also by raising on one that is no object; after that the model is
\* asked.  An outage only ends the loop, with what it has gathered; it is not cached.
Gather(i, calls, end) ==
  LET s == ordered[i]
      known == cache[s].loop
  IN
  /\ phase = "depositing" /\ entry[i].at = "investigating"
  /\ known.calls <= calls
  /\ known.end # "open" => calls = known.calls /\ end = known.end
  /\ calls = MaxToolCalls => end = "stops"
  /\ cache' = [cache EXCEPT ![s].loop =
                  [calls |-> calls, end |-> IF end = "cut" THEN "open" ELSE end]]
  /\ entry' = [entry EXCEPT ![i] =
       IF end = "raises" THEN [Blank EXCEPT !.at = "raised"]
       ELSE [Blank EXCEPT !.at = "proposing", !.calls = calls, !.cut = end = "cut"]]
  /\ UNCHANGED <<rigid, phase, arm, attempt, results, previous, runs>>

\* The proposal with its revisions, and the reviewer's decision on it.  The prompt is made of
\* the evidence; a model not reached at any of them is an escalation, and what it would have
\* said stays open.
Propose(i, said) ==
  LET s == ordered[i]
      evidence == entry[i].calls
  IN
  /\ phase = "depositing" /\ entry[i].at = "proposing"
  /\ cache[s].said[evidence] # NoAnswer => said = cache[s].said[evidence]
  /\ cache' = IF said = "unreachable" THEN cache ELSE [cache EXCEPT ![s].said[evidence] = said]
  /\ entry' = [entry EXCEPT ![i].said = said,
                            ![i].at = IF Rejects(i) THEN "done" ELSE "authoring",
                            ![i].outcome = IF Rejects(i) THEN "rejected" ELSE NoAnswer]
  /\ UNCHANGED <<rigid, phase, arm, attempt, results, previous, runs>>

\* author_precedent returns a precedent, or raises: an entry without a record either way keeps
\* its place in the sequence.
Author(i, outcome) ==
  LET s == ordered[i]
      note == NoteOf(entry[i].said)
  IN
  /\ phase = "depositing" /\ entry[i].at = "authoring"
  /\ cache[s].authored[note] # NoAnswer => outcome = cache[s].authored[note]
  /\ cache' = IF outcome = "unreachable" THEN cache
              ELSE [cache EXCEPT ![s].authored[note] = outcome]
  /\ entry' = [entry EXCEPT ![i].at = "done", ![i].outcome = outcome,
                            ![i].version = IF outcome = "authored" THEN VersionOf(i) ELSE 0]
  /\ UNCHANGED <<rigid, phase, arm, attempt, results, previous, runs>>

\* list(pool.map(...)) meets the results in order: it raises at the first call that did.
DepositingEnds ==
  /\ phase = "depositing"
  /\ \/ /\ \A i \in Positions : entry[i].at = "done"
        /\ phase' = "measuring"
     \/ /\ \E i \in Positions :
             /\ entry[i].at = "raised"
             /\ \A j \in Positions : j < i => entry[j].at = "done"
        /\ \A i \in Positions : entry[i].at \notin InHand
        /\ phase' = "raised"
  /\ UNCHANGED <<rigid, entry, arm, attempt, results, cache, previous, runs>>

----------------------------------------------------------------------------
(* The arms: replay_test_set and _run_arm.                                 *)

\* corpus_at: what the first entries of the sequence deposited.
CorpusAt(deposits) ==
  {[scenario |-> ordered[i], version |-> entry[i].version] :
     i \in {j \in Positions : j <= deposits /\ entry[j].version # 0}}

\* The order of the precedent ids: deposits by their position, then the seeds.
IdBefore(p, q) ==
  IF p.version = 0 THEN q.version = 0 /\ p.scenario < q.scenario
  ELSE q.version = 0 \/ p.version < q.version

\* sorted by score and, where it is the same, by precedent_id.
RanksAbove(p, q, s) ==
  LET score(r) == Relevance[r.scenario][s]
  IN  score(p) > score(q) \/ (score(p) = score(q) /\ IdBefore(p, q))

\* A mutated form: a precedent that shares no term with the case is not returned.
Bm25MatchesOnly(S, s) ==
  {p \in S : Relevance[p.scenario][s] > 0 /\ Cardinality({q \in S \ {p} : RanksAbove(q, p, s)}) < K}

\* BM25Retriever.retrieve: the first k.
Bm25(S, s) == {p \in S : Cardinality({q \in S \ {p} : RanksAbove(q, p, s)}) < K}

\* RandomRetriever.retrieve: one seeded sample, whatever the case.
Sample(S) == CHOOSE T \in SUBSET S : Cardinality(T) = Min({K, Cardinality(S)})

\* build_retriever and replay_test_set: what a case is given in an arm.
Hits(name, S, s) ==
  CASE name = "zero_shot"                -> {}
    [] name \in {"grounded", "retrieved"} -> Bm25(S, s)
    [] name = "random_control"           -> Sample(S)

\* What an arm leaves behind once it is scored.
Result(name, deposits, unreachable) ==
  LET grown == CorpusAt(deposits)
      corpus == grown \union {[scenario |-> p, version |-> 0] : p \in Seeds}
  IN  [name |-> name, deposits |-> deposits, corpus |-> grown, unreachable |-> unreachable,
       hits |-> [s \in {cases[c] : c \in DOMAIN cases} |-> Hits(name, corpus, s)]]

\* A mutated form: a run is never given up.
NeverDegraded(unreachable, total) == unreachable > total

\* More than a few cases and more than their share never reached the model.
Degraded(unreachable, total) ==
  unreachable > MinUnavailable /\ 100 * unreachable > MaxShare * total

BeginCase(c) ==
  /\ phase = "measuring" /\ arm <= Len(Plan)
  /\ NextUp(attempt, c, "waiting", {"running"})
  /\ attempt' = [attempt EXCEPT ![c] = "running"]
  /\ UNCHANGED <<rigid, phase, entry, arm, results, cache, previous, runs>>

\* attempt returns an outcome, the escalation of a model not reached for a proposal among them,
\* or raises.
EndCase(c) ==
  /\ phase = "measuring" /\ attempt[c] = "running"
  /\ \E how \in {"answered", "unreachable", "raised"} : attempt' = [attempt EXCEPT ![c] = how]
  /\ UNCHANGED <<rigid, phase, entry, arm, results, cache, previous, runs>>

\* A mutated form: a degraded arm is measured again.
ArmEndsOrRetries ==
  LET unreachable == Cardinality({c \in DOMAIN cases : attempt[c] = "unreachable"}) IN
  /\ phase = "measuring" /\ arm <= Len(Plan)
  /\ \A c \in DOMAIN cases : attempt[c] \in {"answered", "unreachable"}
  /\ \/ Degraded(unreachable, Len(cases)) /\ UNCHANGED <<arm, results>>
     \/ /\ ~Degraded(unreachable, Len(cases))
        /\ results' = Append(results, Result(Plan[arm].name, Plan[arm].deposits, unreachable))
        /\ arm' = arm + 1
  /\ attempt' = [c \in DOMAIN cases |-> "waiting"]
  /\ UNCHANGED <<rigid, phase, entry, cache, previous, runs>>

\* The arm's outcomes are in: it is scored, or the whole run is given up.
ArmEnds ==
  LET unreachable == Cardinality({c \in DOMAIN cases : attempt[c] = "unreachable"}) IN
  /\ phase = "measuring" /\ arm <= Len(Plan)
  /\ \A c \in DOMAIN cases : attempt[c] \in {"answered", "unreachable"}
  /\ \/ /\ Degraded(unreachable, Len(cases))
        /\ phase' = "aborted"
        /\ UNCHANGED <<arm, attempt, results>>
     \/ /\ ~Degraded(unreachable, Len(cases))
        /\ results' = Append(results, Result(Plan[arm].name, Plan[arm].deposits, unreachable))
        /\ arm' = arm + 1
        /\ attempt' = [c \in DOMAIN cases |-> "waiting"]
        /\ UNCHANGED phase
  /\ UNCHANGED <<rigid, entry, cache, previous, runs>>

ArmRaises ==
  /\ phase = "measuring"
  /\ \E c \in DOMAIN cases :
       attempt[c] = "raised" /\ \A d \in DOMAIN cases : d < c => attempt[d] \in {"answered", "unreachable"}
  /\ \A c \in DOMAIN cases : attempt[c] # "running"
  /\ phase' = "raised"
  /\ UNCHANGED <<rigid, entry, arm, attempt, results, cache, previous, runs>>

\* The report is printed, then the result is written, but for a limited ablation's;
\* print_report takes the curve's last point, and raises on a curve that has none.
Write ==
  /\ phase = "measuring" /\ arm = Len(Plan) + 1
  /\ phase' = IF Plan = <<>> THEN "raised"
              ELSE IF job.kind = "ablation" /\ job.limit # 0 THEN "printed" ELSE "written"
  /\ UNCHANGED <<rigid, entry, arm, attempt, results, cache, previous, runs>>

----------------------------------------------------------------------------
\* The process is killed: what it held in memory is lost.
Kill ==
  /\ phase \in {"depositing", "measuring"}
  /\ phase' = "killed"
  /\ arm' = 1 /\ results' = <<>>
  /\ attempt' = [c \in DOMAIN cases |-> "waiting"]
  /\ UNCHANGED <<rigid, entry, cache, previous, runs>>

\* A run that wrote nothing is started again, on the cache it left.
Rerun ==
  /\ phase \in {"aborted", "raised", "killed"} /\ runs < job.runs
  /\ runs' = runs + 1
  /\ phase' = FirstPhase(job.kind)
  /\ arm' = 1 /\ results' = <<>>
  /\ previous' = entry
  /\ entry' = [i \in Positions |-> Blank]
  /\ attempt' = [c \in DOMAIN cases |-> "waiting"]
  /\ UNCHANGED <<rigid, cache>>

Worker ==
  \/ \E i \in Positions :
       \/ Begin(i)
       \/ \E calls \in Evidence, end \in LoopEnds : Gather(i, calls, end)
       \/ \E said \in Proposals \union {"unreachable"} : Propose(i, said)
       \/ \E outcome \in Authorings \union {"unreachable"} : Author(i, outcome)
  \/ DepositingEnds
  \/ \E c \in DOMAIN cases : BeginCase(c) \/ EndCase(c)
  \/ ArmEnds \/ ArmRaises \/ Write

Next == Worker \/ Kill \/ Rerun

Spec == Init /\ [][Next]_vars

\* The pool's threads go on and every model call returns or raises: the process runs until it
\* ends or is killed.
FairSpec == Spec /\ WF_vars(Worker)

----------------------------------------------------------------------------
(* The corpus an arm was measured on holds exactly the precedents whose    *)
(* corpus version its snapshot had reached, whatever order the pool's      *)
(* threads finished in: the two arms of a snapshot share it, and no later  *)
(* deposit is in it (corpus_at, replay.py:161).                            *)
SnapshotsAreVersions ==
  \A a \in DOMAIN results :
    results[a].corpus =
      {[scenario |-> ordered[i], version |-> entry[i].version] :
         i \in {j \in Positions : entry[j].version \in 1..results[a].deposits}}

(* No case an arm measures was ever deposited in the corpus it is measured *)
(* on ("never_deposited": True, replay.py:341).                            *)
HeldOut ==
  \A a \in DOMAIN results :
    DOMAIN results[a].hits \intersect {d.scenario : d \in results[a].corpus} = {}

(* The arms of one corpus differ in nothing but which precedents they give *)
(* a case: the random control gives every case the same ones, and as many  *)
(* as retrieval does (random_control.py:7).                                *)
ControlDiffersInContent ==
  \A a, b \in DOMAIN results :
    /\ results[a].name \in {"grounded", "retrieved"} /\ results[b].name = "random_control"
    /\ results[a].deposits = results[b].deposits
    => \A s, t \in DOMAIN results[a].hits :
         /\ Cardinality(results[a].hits[s]) = Cardinality(results[b].hits[s])
         /\ results[b].hits[s] = results[b].hits[t]

(* A curve over the whole pool can show what deposits teach: the test set  *)
(* has its fixed size, and every customer seen more than once is measured, *)
(* after their first case was worked for the corpus (generate.py:107).     *)
CustomersAreLearnable ==
  phase = "written" /\ job.kind = "replay" /\ job.limit = 0 =>
    /\ Cardinality(DOMAIN results[1].hits) = TestSetSize
    /\ \A c \in Customers :
         Cardinality(Sightings(c)) > 1 =>
           /\ Sightings(c) \intersect DOMAIN results[1].hits # {}
           /\ \E i \in Positions : ordered[i] = FirstSighting(c)

(* A result is written only when every arm of the plan was measured, each  *)
(* over the same cases and with no more of them unreachable than the       *)
(* breaker lets pass: no partial and no degraded curve is on disk.         *)
WrittenIsMeasured ==
  phase = "written" =>
    /\ results # <<>> /\ Len(results) = Len(Plan)
    /\ \A a \in DOMAIN results :
         /\ results[a].deposits = Plan[a].deposits /\ results[a].name = Plan[a].name
         /\ DOMAIN results[a].hits = DOMAIN results[1].hits
         /\ \/ results[a].unreachable <= MinUnavailable
            \/ 100 * results[a].unreachable <= MaxShare * Len(cases)

(* Where two runs work one position, the reviewer declines it in both or   *)
(* in neither (human.py:57).  If neither lost the model in the tool loop,  *)
(* both gathered the same; and on the same evidence they come to the same  *)
(* proposal, outcome and version, unless one did not reach the model for   *)
(* them.  Thread scheduling and the restart change nothing in that.        *)
Reproduced ==
  \A i \in DOMAIN entry \intersect DOMAIN previous :
    LET e == entry[i]
        p == previous[i]
    IN  e.at = "done" /\ p.at = "done" =>
          /\ e.outcome = "rejected" <=> p.outcome = "rejected"
          /\ ~e.cut /\ ~p.cut => e.calls = p.calls
          /\ e.calls = p.calls /\ "unreachable" \notin {e.said, p.said} => e.said = p.said
          /\ /\ e.calls = p.calls
             /\ "unreachable" \notin {e.said, p.said, e.outcome, p.outcome}
             => e.outcome = p.outcome /\ e.version = p.version

(* Every run that is not killed ends: with its result, with an abort, or   *)
(* with an error.                                                          *)
RunsEnd == <>[](phase \in Ended \union {"killed"})

----------------------------------------------------------------------------
(* A statement of the repository that the code does not keep               *)

(* "fixing the seed makes every snapshot reproducible rather than a        *)
(* different corpus each run" (replay.py:63).  An outage in the tool loop  *)
(* is swallowed and the proposal made on less evidence; the run after it   *)
(* gathers more, proposes something else, and authors another precedent.   *)
SnapshotsReproduce ==
  \A i \in DOMAIN entry \intersect DOMAIN previous :
    /\ entry[i].version # 0 /\ previous[i].version # 0
    /\ "unreachable" \notin {entry[i].said, previous[i].said}
    => entry[i].said = previous[i].said
=============================================================================
