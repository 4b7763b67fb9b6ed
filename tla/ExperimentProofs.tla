--------------------------- MODULE ExperimentProofs ---------------------------
(***************************************************************************)
(* What holds of Experiment for every dataset and split, every ranking,    *)
(* every plan of snapshots and any number of workers and runs.  An arm's   *)
(* result is a function of the deposit sequence, which no longer moves     *)
(* once arms are measured; and an entry of that sequence is a function of  *)
(* its position, the reviewer's draw, the evidence its tool loop came to   *)
(* and what the cache holds of its prompts, which only grows.              *)
(***************************************************************************)
EXTENDS Experiment, FiniteFacts

\* What the cache holds of a scenario: its tool loop, a proposal by evidence, a precedent by note.
CacheTypes ==
  cache \in [Scenario -> [loop : [calls : Evidence, end : {"open"} \union (LoopEnds \ {"cut"})],
                          said : [Evidence -> Proposals \union {NoAnswer}],
                          authored : [Proposals \union {NoAnswer} -> Authorings \union {NoAnswer}]]]

\* The results the a-th arm of the plan can leave, the deposit sequence being what it is.
Measured(a) ==
  {Result(Plan[a].name, Plan[a].deposits, u) : u \in {n \in Nat : ~Degraded(n, Len(cases))}}

\* Arms are measured in the order of the plan, and only when the deposit sequence is complete.
ResultsFit ==
  /\ results \in Seq(UNION {Measured(a) : a \in DOMAIN Plan})
  /\ Len(results) = arm - 1
  /\ \A a \in DOMAIN results : results[a] \in Measured(a)
  /\ phase = "depositing" => results = <<>>
  /\ phase = "written" => arm = Len(Plan) + 1 /\ Plan # <<>>

\* A tool loop that kept the model is the cached one; without a reviewer there is none.
LoopFits(e, i) ==
  IF job.reviewed
  THEN ~e.cut => cache[ordered[i]].loop = [calls |-> e.calls, end |-> "stops"]
  ELSE e.calls = 0 /\ ~e.cut

\* The agent's proposal on record is the one cached for its evidence, or there is none.
SaidFits(e, i) ==
  IF job.reviewed
  THEN e.said = "unreachable" \/ (e.said \in Proposals /\ cache[ordered[i]].said[e.calls] = e.said)
  ELSE e.said = NoAnswer

\* What an entry in place i of the sequence says, given the cache.
EntryFits(e, i) ==
  /\ e.at = "waiting" => e = Blank
  /\ e.at = "investigating" => e = [Blank EXCEPT !.at = "investigating"] /\ job.reviewed
  /\ e.at = "proposing" =>
       /\ e = [Blank EXCEPT !.at = "proposing", !.calls = e.calls, !.cut = e.cut]
       /\ job.reviewed /\ LoopFits(e, i)
  /\ e.at = "authoring" =>
       /\ e = [Blank EXCEPT !.at = "authoring", !.calls = e.calls, !.cut = e.cut, !.said = e.said]
       /\ LoopFits(e, i) /\ SaidFits(e, i) /\ (job.reviewed => ~Rejects(i))
  /\ e.at = "raised" => e.version = 0
  /\ e.at = "done" =>
       /\ LoopFits(e, i) /\ SaidFits(e, i)
       /\ e.version = IF e.outcome = "authored" THEN i ELSE 0
       /\ IF job.reviewed /\ Rejects(i) THEN e.outcome = "rejected"
          ELSE \/ e.outcome = "unreachable"
               \/ /\ e.outcome \in Authorings
                  /\ cache[ordered[i]].authored[NoteOf(e.said)] = e.outcome

\* Both sequences, of this run and of the one before, are what the cache makes of them.
EntriesFit == \A i \in Positions : EntryFits(entry[i], i) /\ EntryFits(previous[i], i)

\* The sequence of the run before is one of the same positions.
EntryRecord == [at : {"waiting", "done", "raised"} \union InHand,
                calls : Evidence, cut : BOOLEAN,
                said : Proposals \union {"unreachable", NoAnswer},
                outcome : Authorings \union {"rejected", "unreachable", NoAnswer},
                version : Nat]

PreviousTypes == previous \in [Positions -> EntryRecord]

IInv == TypeOK /\ CacheTypes /\ PreviousTypes /\ ResultsFit /\ EntriesFit

----------------------------------------------------------------------------
(* What is worked and what is measured. *)

\* The first of a sequence, all of it where there is no limit.
LEMMA LimitedHolds ==
  ASSUME NEW X, NEW order \in Seq(X), NEW limit \in Nat
  PROVE /\ Limited(order, limit) \in Seq(X)
        /\ Limited(order, limit) = order \/ limit # 0
<1>1. CASE limit = 0
  BY <1>1 DEF Limited
<1>2. CASE limit # 0
  <2> DEFINE m == Min({limit, Len(order)})
  <2>1. m \in 0..Len(order)
    BY DEF Min
  <2>2. \A i \in 1..m : order[i] \in X
    BY <2>1
  <2>3. SubSeq(order, 1, m) \in Seq(X)
    <3> HIDE DEF m
    <3> QED
      BY <2>1, <2>2, SubSeqProperties
  <2> QED
    BY <1>2, <2>3 DEF Limited
<1> QED
  BY <1>1, <1>2

LEMMA WorkedAndMeasured ==
  ASSUME job \in Jobs, held \in TestSets
  PROVE /\ held \subseteq Exceptions /\ Exceptions \subseteq Scenario
        /\ Ordered \in Seq(Pool)
        /\ Cases \in Seq(Exceptions)
        /\ job.kind = "replay" => Cases \in Seq(held)
        /\ job.kind # "replay" => Ordered = <<>>
<1> USE ExperimentAssumption, SplitAssumption
<1>1. held \subseteq Exceptions /\ Exceptions \subseteq Scenario
  BY DEF TestSets, Exceptions
<1>2. job.kind \in {"replay", "ablation"} /\ job.limit \in Nat
  BY DEF Job
<1>3. FileOrder \in Seq(Scenario)
  BY DEF FileOrder, Scenario
<1>4. DepositOrder \in Seq(Pool)
  <2>1. DepositOrder \in Seq(Pool \intersect Scenario)
    BY FilteredHolds DEF DepositOrder
  <2> QED
    BY <2>1, SeqMonotonic
<1>5. Filtered(FileOrder, held) \in Seq(held) /\ Filtered(FileOrder, Pool) \in Seq(Pool)
  <2>1. /\ Filtered(FileOrder, held) \in Seq(held \intersect Scenario)
        /\ Filtered(FileOrder, Pool) \in Seq(Pool \intersect Scenario)
    BY <1>3, FilteredHolds
  <2> QED
    BY <2>1, SeqMonotonic
<1>6. Ordered \in Seq(Pool) /\ (job.kind # "replay" => Ordered = <<>>)
  <2>1. CASE job.kind = "ablation"
    BY <2>1 DEF Ordered
  <2>2. CASE job.kind # "ablation"
    <3>1. Limited(DepositOrder, job.limit) \in Seq(Pool)
      BY <1>2, <1>4, LimitedHolds
    <3> QED
      BY <1>2, <2>2, <3>1 DEF Ordered
  <2> QED
    BY <2>1, <2>2
<1>7. Cases \in Seq(Exceptions) /\ (job.kind = "replay" => Cases \in Seq(held))
  <2>1. CASE job.kind = "replay"
    BY <1>1, <1>5, <2>1, SeqMonotonic DEF Cases
  <2>2. CASE job.kind # "replay"
    <3>1. Limited(Filtered(FileOrder, Pool), job.limit) \in Seq(Pool)
      BY <1>2, <1>5, LimitedHolds
    <3> QED
      BY <2>2, <3>1, SeqMonotonic DEF Cases, Pool
  <2> QED
    BY <2>1, <2>2
<1> QED
  BY <1>1, <1>6, <1>7

\* Snapshots are numbers, whatever was asked for.
LEMMA PlanTypes ==
  ASSUME job \in Jobs, held \in TestSets, ordered = Ordered
  PROVE /\ Len(Plan) \in Nat
        /\ DOMAIN Plan = 1..Len(Plan)
        /\ \A a \in DOMAIN Plan : Plan[a].deposits \in Nat
<1> USE ExperimentAssumption
<1>1. Len(ordered) \in Nat
  BY WorkedAndMeasured
<1>2. job.snapshots \in Seq(Nat)
  BY DEF Job
<1> DEFINE reached == Filtered(job.snapshots, 0..Len(ordered))
<1>3. reached \in Seq(Nat)
  <2>1. reached \in Seq((0..Len(ordered)) \intersect Nat)
    BY <1>2, FilteredHolds
  <2> QED
    BY <2>1, SeqMonotonic
<1>4. CASE job.kind = "ablation"
  <2>1. Plan = <<[deposits |-> 0, name |-> "zero_shot"], [deposits |-> 0, name |-> "grounded"],
                 [deposits |-> 0, name |-> "random_control"]>>
    BY <1>4 DEF Plan
  <2>2. Len(Plan) = 3 /\ DOMAIN Plan = 1..3
    BY <2>1
  <2>3. Plan[1].deposits = 0 /\ Plan[2].deposits = 0 /\ Plan[3].deposits = 0
    BY <2>1
  <2>4. \A a \in 1..3 : a = 1 \/ a = 2 \/ a = 3
    OBVIOUS
  <2> QED
    BY <2>2, <2>3, <2>4
<1>5. CASE job.kind # "ablation"
  <2>1. Plan = [a \in 1..(2 * Len(reached)) |->
                  [deposits |-> reached[(a + 1) \div 2],
                   name |-> IF a % 2 = 1 THEN "retrieved" ELSE "random_control"]]
    BY <1>5 DEF Plan
  <2>2. Len(reached) \in Nat /\ \A i \in 1..Len(reached) : reached[i] \in Nat
    BY <1>3
  <2>3. \A a \in 1..(2 * Len(reached)) : (a + 1) \div 2 \in 1..Len(reached)
    BY <2>2
  <2>4. 2 * Len(reached) \in Nat
    BY <2>2
  <2>5. Len(Plan) = 2 * Len(reached) /\ DOMAIN Plan = 1..(2 * Len(reached))
    BY <2>1, <2>4
  <2>6. ASSUME NEW a \in 1..(2 * Len(reached)) PROVE Plan[a].deposits \in Nat
    <3>1. Plan[a].deposits = reached[(a + 1) \div 2]
      BY <2>1
    <3> QED
      BY <2>2, <2>3, <3>1
  <2> QED
    BY <2>4, <2>5, <2>6
<1> QED
  BY <1>4, <1>5

----------------------------------------------------------------------------
(* The invariant. *)

\* What was asked for and drawn does not change, nor what follows from it.
LEMMA RigidKept ==
  ASSUME IInv, UNCHANGED rigid
  PROVE /\ job' \in Jobs /\ held' \in TestSets /\ ordered' = Ordered' /\ cases' = Cases'
        /\ job' = job /\ ordered' = ordered /\ cases' = cases
        /\ Positions' = Positions /\ Plan' = Plan
<1>1. job' = job /\ held' = held /\ ordered' = ordered /\ cases' = cases
  BY DEF rigid
<1>2. ordered = Ordered /\ cases = Cases /\ job \in Jobs /\ held \in TestSets
  BY DEF IInv, TypeOK
<1>3. Pool' = Pool
  BY <1>1 DEF Pool
<1>4. DepositOrder' = DepositOrder
  BY <1>3 DEF DepositOrder
<1>5. Ordered' = Ordered
  BY <1>1, <1>4 DEF Ordered
<1>6. Cases' = Cases
  BY <1>1, <1>3 DEF Cases
<1>7. Positions' = Positions
  BY <1>1 DEF Positions
<1>8. Plan' = Plan
  BY <1>1 DEF Plan
<1> QED
  BY <1>1, <1>2, <1>5, <1>6, <1>7, <1>8

\* Nor what an arm can leave, once the sequence stands still.
LEMMA MeasuredKept ==
  ASSUME IInv, UNCHANGED <<rigid, entry>>, NEW a
  PROVE Measured(a)' = Measured(a)
<1>1. /\ ordered' = ordered /\ cases' = cases /\ Positions' = Positions /\ Plan' = Plan
      /\ entry' = entry
  BY RigidKept
<1>2. ASSUME NEW d PROVE CorpusAt(d)' = CorpusAt(d)
  BY <1>1 DEF CorpusAt
<1>3. ASSUME NEW n, NEW d, NEW u PROVE Result(n, d, u)' = Result(n, d, u)
  BY <1>1, <1>2 DEF Result
<1> QED
  BY <1>1, <1>3 DEF Measured

\* What every step after the deposits leaves as it is.
LEMMA SequenceStands ==
  ASSUME IInv, UNCHANGED <<rigid, entry, cache, previous>>
  PROVE /\ CacheTypes' /\ PreviousTypes' /\ EntriesFit'
        /\ entry' \in [Positions' -> EntryRecord]
        /\ \A a : Measured(a)' = Measured(a)
<1>1. /\ job' = job /\ ordered' = ordered /\ Positions' = Positions
      /\ entry' = entry /\ cache' = cache /\ previous' = previous
  BY RigidKept
<1>2. CacheTypes'
  BY <1>1 DEF IInv, CacheTypes
<1>3. PreviousTypes' /\ entry' \in [Positions' -> EntryRecord]
  BY <1>1 DEF IInv, TypeOK, PreviousTypes, EntryRecord
<1>4. ASSUME NEW e, NEW i PROVE EntryFits(e, i)' = EntryFits(e, i)
  BY <1>1 DEF EntryFits, LoopFits, SaidFits, Rejects
<1>5. EntriesFit'
  BY <1>1, <1>4 DEF IInv, EntriesFit
<1> QED
  BY <1>2, <1>3, <1>5, MeasuredKept

\* What the cache answered it goes on answering.
CacheGrows ==
  \A s \in Scenario :
    /\ cache[s].loop.end # "open" => cache'[s].loop = cache[s].loop
    /\ \A n \in Evidence :
         cache[s].said[n] # NoAnswer => cache'[s].said[n] = cache[s].said[n]
    /\ \A p \in Proposals \union {NoAnswer} :
         cache[s].authored[p] # NoAnswer => cache'[s].authored[p] = cache[s].authored[p]

\* So an entry that was what the cache made of it still is.
LEMMA EntryStaysFit ==
  ASSUME IInv, UNCHANGED rigid, CacheGrows, NEW i \in Positions, NEW e \in EntryRecord,
         EntryFits(e, i)
  PROVE EntryFits(e, i)'
<1>1. job' = job /\ ordered' = ordered
  BY RigidKept
<1>2. ordered[i] \in Scenario
  <2>1. ordered \in Seq(Pool) /\ Pool \subseteq Scenario
    BY WorkedAndMeasured DEF IInv, TypeOK, Pool
  <2> QED
    BY <2>1 DEF Positions
<1>3. SaidFits(e, i) => SaidFits(e, i)'
  <2>1. e.calls \in Evidence /\ NoAnswer \notin Proposals
    BY ExperimentAssumption DEF EntryRecord, Proposals, NoAnswer
  <2> QED
    BY <1>1, <1>2, <2>1 DEF SaidFits, CacheGrows
<1>4. Rejects(i)' = Rejects(i)
  BY <1>1 DEF Rejects
<1>5. NoteOf(e.said) \in Proposals \union {NoAnswer}
  BY DEF NoteOf, EntryRecord, Proposals, NoAnswer
<1>6. ASSUME e.outcome \in Authorings,
             cache[ordered[i]].authored[NoteOf(e.said)] = e.outcome
      PROVE cache'[ordered'[i]].authored[NoteOf(e.said)] = e.outcome
  BY <1>1, <1>2, <1>5, <1>6 DEF CacheGrows, Authorings, NoAnswer
<1>7. LoopFits(e, i) => LoopFits(e, i)'
  BY <1>1, <1>2 DEF LoopFits, CacheGrows
<1> QED
  BY <1>1, <1>3, <1>4, <1>6, <1>7 DEF EntryFits

\* A call that said nothing yet is an entry, wherever it is.
LEMMA SilentEntries ==
  ASSUME NEW place \in {"waiting", "done", "raised"} \union InHand,
         NEW calls \in Evidence, NEW cut \in BOOLEAN
  PROVE /\ Blank \in EntryRecord /\ 0 \in Evidence
        /\ [Blank EXCEPT !.at = place] \in EntryRecord
        /\ [Blank EXCEPT !.at = place, !.calls = calls, !.cut = cut] \in EntryRecord
<1>1. 0 \in Evidence
  BY ExperimentAssumption DEF Evidence
<1>2. Blank \in EntryRecord
  BY <1>1 DEF Blank, EntryRecord
<1>3. [Blank EXCEPT !.at = place] \in EntryRecord
  BY <1>2 DEF EntryRecord
<1>4. [Blank EXCEPT !.at = place, !.calls = calls, !.cut = cut] \in EntryRecord
  BY <1>2 DEF EntryRecord
<1> QED
  BY <1>1, <1>2, <1>3, <1>4

\* A run starts with nothing worked or measured.
LEMMA InitInv == Init => IInv
<1> SUFFICES ASSUME Init PROVE IInv
  OBVIOUS
<1> USE ExperimentAssumption DEF Init
<1>1. job.kind \in {"replay", "ablation"} /\ job.runs \in Nat \ {0}
  BY DEF Job
<1>2. Len(Plan) \in Nat
  BY PlanTypes
<1>3. entry \in [Positions -> EntryRecord] /\ \A i \in Positions : entry[i] = Blank
  BY DEF Blank, EntryRecord, Evidence, NoAnswer
<1>4. TypeOK
  BY <1>1, <1>2, <1>3 DEF TypeOK, EntryRecord, FirstPhase
<1>5. CacheTypes /\ PreviousTypes
  BY <1>3 DEF CacheTypes, PreviousTypes, Unasked, Evidence
<1>6. ResultsFit
  BY <1>1 DEF ResultsFit, FirstPhase
<1>7. EntriesFit
  <2>1. \A i \in Positions : EntryFits(Blank, i)
    BY DEF EntryFits, Blank
  <2> QED
    BY <1>3, <2>1 DEF EntriesFit
<1> QED
  BY <1>4, <1>5, <1>6, <1>7 DEF IInv

\* While the sequence is worked there are no results, and one entry changes at a time.
LEMMA EntryStep ==
  ASSUME IInv, phase = "depositing", NEW i \in Positions, NEW e \in EntryRecord,
         entry' = [entry EXCEPT ![i] = e], CacheGrows, CacheTypes', EntryFits(e, i)',
         UNCHANGED <<rigid, phase, arm, attempt, results, previous, runs>>
  PROVE IInv'
<1>1. /\ job' \in Jobs /\ held' \in TestSets /\ ordered' = Ordered' /\ cases' = Cases'
      /\ job' = job /\ ordered' = ordered /\ cases' = cases
      /\ Positions' = Positions /\ Plan' = Plan
  BY RigidKept
<1>2. entry \in [Positions -> EntryRecord] /\ entry' \in [Positions -> EntryRecord]
  BY DEF IInv, TypeOK, EntryRecord
<1>3. TypeOK'
  BY <1>1, <1>2 DEF IInv, TypeOK, EntryRecord
<1>4. PreviousTypes'
  BY <1>1 DEF IInv, PreviousTypes
<1>5. ResultsFit'
  <2>1. results' = <<>> /\ arm' = 1 /\ phase' = "depositing"
    BY DEF IInv, TypeOK, ResultsFit
  <2> QED
    BY <2>1 DEF ResultsFit
<1>6. EntriesFit'
  <2>1. \A j \in Positions : /\ previous[j] \in EntryRecord /\ EntryFits(previous[j], j)
                             /\ entry[j] \in EntryRecord /\ EntryFits(entry[j], j)
    BY <1>2 DEF IInv, PreviousTypes, EntriesFit
  <2>2. ASSUME NEW j \in Positions PROVE EntryFits(previous[j], j)' /\ EntryFits(entry[j], j)'
    <3>1. \A r \in EntryRecord : EntryFits(r, j) => EntryFits(r, j)'
      BY EntryStaysFit
    <3>2. previous' = previous /\ entry'[j] = IF j = i THEN e ELSE entry[j]
      BY <1>2
    <3>3. EntryFits(previous[j], j)'
      BY <2>1, <3>1, <3>2
    <3>4. CASE j = i
      BY <3>2, <3>3, <3>4
    <3>5. CASE j # i
      BY <2>1, <3>1, <3>2, <3>5
    <3> QED
      BY <3>3, <3>4, <3>5
  <2> QED
    BY <1>1, <2>2 DEF EntriesFit
<1> QED
  BY <1>3, <1>4, <1>5, <1>6 DEF IInv

\* A call begins: with the agent where there is a reviewer, with the authoring otherwise.
LEMMA BeginKeeps ==
  ASSUME IInv, NEW i \in Positions, Begin(i)
  PROVE IInv'
<1>1. PICK e \in EntryRecord :
        e = [Blank EXCEPT !.at = IF job.reviewed THEN "investigating" ELSE "authoring"]
  <2>1. \A place \in {"investigating", "authoring"} : [Blank EXCEPT !.at = place] \in EntryRecord
    <3>1. 0 \in Evidence /\ FALSE \in BOOLEAN
      BY ExperimentAssumption DEF Evidence
    <3> QED
      BY <3>1, SilentEntries DEF InHand
  <2> QED
    BY <2>1
<1>2. entry \in [Positions -> EntryRecord] /\ job.reviewed \in BOOLEAN
  BY ExperimentAssumption DEF IInv, TypeOK, EntryRecord, Job
<1>3. entry[i] = Blank
  BY <1>2 DEF Begin, NextUp, IInv, EntriesFit, EntryFits
<1>4. entry' = [entry EXCEPT ![i] = e]
  BY <1>1, <1>2, <1>3 DEF Begin
<1>5. CacheGrows /\ CacheTypes'
  BY DEF Begin, CacheGrows, IInv, CacheTypes
<1>6. EntryFits(e, i)'
  <2>1. job' = job
    BY DEF Begin, rigid
  <2> QED
    BY <1>1, <1>2, <2>1 DEF EntryFits, LoopFits, SaidFits, Blank
<1>7. phase = "depositing" /\ UNCHANGED <<rigid, phase, arm, attempt, results, previous, runs>>
  BY DEF Begin
<1> QED
  BY <1>4, <1>5, <1>6, <1>7, EntryStep

\* A tool loop that keeps the model is the cached one, or becomes it.
LEMMA GatherKeeps ==
  ASSUME IInv, NEW i \in Positions, NEW calls \in Evidence, NEW end \in LoopEnds,
         Gather(i, calls, end)
  PROVE IInv'
<1> DEFINE s == ordered[i]
           kept == IF end = "cut" THEN "open" ELSE end
<1>1. PICK e \in EntryRecord :
        e = IF end = "raises" THEN [Blank EXCEPT !.at = "raised"]
            ELSE [Blank EXCEPT !.at = "proposing", !.calls = calls, !.cut = end = "cut"]
  <2>1. /\ [Blank EXCEPT !.at = "raised"] \in EntryRecord
        /\ [Blank EXCEPT !.at = "proposing", !.calls = calls, !.cut = end = "cut"] \in EntryRecord
    BY SilentEntries DEF InHand
  <2> QED
    BY <2>1
<1>2. entry \in [Positions -> EntryRecord] /\ job.reviewed \in BOOLEAN /\ CacheTypes
  BY ExperimentAssumption DEF IInv, TypeOK, EntryRecord, Job
<1>3. s \in Scenario
  <2>1. ordered \in Seq(Pool) /\ Pool \subseteq Scenario
    BY WorkedAndMeasured DEF IInv, TypeOK, Pool
  <2> QED
    BY <2>1 DEF Positions
<1>4. entry' = [entry EXCEPT ![i] = e]
  BY <1>1 DEF Gather
<1>5. /\ CacheGrows /\ CacheTypes'
      /\ cache'[s].loop = [calls |-> calls, end |-> kept]
  <2>1. /\ cache[s].loop.end # "open" => calls = cache[s].loop.calls /\ end = cache[s].loop.end
        /\ cache' = [cache EXCEPT ![s].loop = [calls |-> calls, end |-> kept]]
        /\ kept \in {"open"} \union (LoopEnds \ {"cut"})
    BY DEF Gather, LoopEnds
  <2>2. cache[s].loop \in [calls : Evidence, end : {"open"} \union (LoopEnds \ {"cut"})]
    BY <1>2, <1>3 DEF CacheTypes
  <2>3. cache[s].loop.end # "open" => [calls |-> calls, end |-> kept] = cache[s].loop
    BY <2>1, <2>2 DEF LoopEnds
  <2> HIDE DEF s, kept
  <2> QED
    BY <1>2, <1>3, <2>1, <2>3 DEF CacheGrows, CacheTypes
<1>6. EntryFits(e, i)'
  <2>1. job' = job /\ ordered' = ordered /\ job.reviewed
    BY <1>2 DEF Gather, rigid, IInv, EntriesFit, EntryFits
  <2>2. CASE end = "raises"
    BY <1>1, <2>2 DEF EntryFits, Blank
  <2>3. CASE end # "raises"
    <3>1. e = [Blank EXCEPT !.at = "proposing", !.calls = calls, !.cut = end = "cut"]
      BY <1>1, <2>3
    <3>2. e.at = "proposing" /\ e.calls = calls /\ e.cut = (end = "cut")
      BY <3>1 DEF Blank
    <3>3. ~e.cut => kept = "stops"
      BY <2>3, <3>2 DEF LoopEnds
    <3>4. LoopFits(e, i)'
      BY <1>5, <2>1, <3>2, <3>3 DEF LoopFits
    <3>5. e = [Blank EXCEPT !.at = "proposing", !.calls = e.calls, !.cut = e.cut]
      BY <3>1, <3>2
    <3> QED
      BY <2>1, <3>2, <3>4, <3>5 DEF EntryFits
  <2> QED
    BY <2>2, <2>3
<1>7. phase = "depositing" /\ UNCHANGED <<rigid, phase, arm, attempt, results, previous, runs>>
  BY DEF Gather
<1> HIDE DEF s, kept
<1> QED
  BY <1>4, <1>5, <1>6, <1>7, EntryStep

\* The agent's proposal is the one cached for its evidence, or becomes it.
LEMMA ProposeKeeps ==
  ASSUME IInv, NEW i \in Positions, NEW said \in Proposals \union {"unreachable"},
         Propose(i, said)
  PROVE IInv'
<1> DEFINE s == ordered[i]
           evidence == entry[i].calls
<1>1. /\ entry \in [Positions -> EntryRecord] /\ job.reviewed \in BOOLEAN /\ CacheTypes
      /\ NoAnswer \notin Proposals
  BY ExperimentAssumption DEF IInv, TypeOK, EntryRecord, Job, Proposals, NoAnswer
<1>2. s \in Scenario /\ evidence \in Evidence
  <2>1. ordered \in Seq(Pool) /\ Pool \subseteq Scenario
    BY WorkedAndMeasured DEF IInv, TypeOK, Pool
  <2> QED
    BY <1>1, <2>1 DEF Positions, EntryRecord
<1>3. PICK e \in EntryRecord :
        e = [entry[i] EXCEPT !.said = said,
                             !.at = IF Rejects(i) THEN "done" ELSE "authoring",
                             !.outcome = IF Rejects(i) THEN "rejected" ELSE NoAnswer]
  BY <1>1 DEF EntryRecord, InHand
<1>4. entry' = [entry EXCEPT ![i] = e]
  BY <1>1, <1>3 DEF Propose
<1>5. /\ CacheGrows /\ CacheTypes'
      /\ said # "unreachable" => cache'[s].said[evidence] = said
      /\ cache'[s].loop = cache[s].loop
  <2>1. /\ cache[s].said[evidence] # NoAnswer => said = cache[s].said[evidence]
        /\ cache' = IF said = "unreachable" THEN cache
                    ELSE [cache EXCEPT ![s].said[evidence] = said]
    BY DEF Propose
  <2> HIDE DEF s, evidence
  <2> QED
    BY <1>1, <1>2, <2>1 DEF CacheGrows, CacheTypes
<1>6. EntryFits(e, i)'
  <2>1. /\ entry[i] = [Blank EXCEPT !.at = "proposing", !.calls = entry[i].calls, !.cut = entry[i].cut]
        /\ job.reviewed /\ LoopFits(entry[i], i)
    BY DEF Propose, IInv, EntriesFit, EntryFits
  <2>2. job' = job /\ ordered' = ordered
    BY DEF Propose, rigid
  <2>3. Rejects(i)' = Rejects(i)
    BY <2>2 DEF Rejects
  <2>4. /\ e.calls = evidence /\ e.cut = entry[i].cut /\ e.said = said
        /\ e.at = (IF Rejects(i) THEN "done" ELSE "authoring")
        /\ e.outcome = (IF Rejects(i) THEN "rejected" ELSE NoAnswer)
        /\ e.version = 0
    BY <1>1, <1>3, <2>1 DEF EntryRecord, Blank
  <2>5. LoopFits(e, i)'
    BY <1>5, <2>1, <2>2, <2>4 DEF LoopFits
  <2>6. SaidFits(e, i)'
    BY <1>1, <1>5, <2>1, <2>2, <2>4 DEF SaidFits
  <2>7. CASE Rejects(i)
    BY <2>1, <2>2, <2>3, <2>4, <2>5, <2>6, <2>7 DEF EntryFits
  <2>8. CASE ~Rejects(i)
    <3>1. e = [Blank EXCEPT !.at = "authoring", !.calls = e.calls, !.cut = e.cut, !.said = e.said]
      <4> DEFINE calls == entry[i].calls
                 cut == entry[i].cut
      <4>1. entry[i] = [Blank EXCEPT !.at = "proposing", !.calls = calls, !.cut = cut]
        BY <2>1
      <4>2. e = [entry[i] EXCEPT !.said = said, !.at = "authoring", !.outcome = NoAnswer]
        BY <1>3, <2>8
      <4> HIDE DEF calls, cut
      <4>3. e = [Blank EXCEPT !.at = "authoring", !.calls = calls, !.cut = cut, !.said = said]
        BY ONLY <4>1, <4>2 DEF Blank
      <4> QED
        BY <2>4, <4>3 DEF calls, cut
    <3>2. e.at = "authoring"
      BY <2>4, <2>8
    <3> HIDE DEF evidence
    <3> QED
      BY <2>3, <2>5, <2>6, <2>8, <3>1, <3>2 DEF EntryFits
  <2> QED
    BY <2>7, <2>8
<1>7. phase = "depositing" /\ UNCHANGED <<rigid, phase, arm, attempt, results, previous, runs>>
  BY DEF Propose
<1> HIDE DEF s, evidence
<1> QED
  BY <1>4, <1>5, <1>6, <1>7, EntryStep

\* The authored precedent is the cached one, or becomes it, and takes its place's version.
LEMMA AuthorKeeps ==
  ASSUME IInv, NEW i \in Positions, NEW outcome \in Authorings \union {"unreachable"},
         Author(i, outcome)
  PROVE IInv'
<1> DEFINE s == ordered[i]
           note == NoteOf(entry[i].said)
<1>1. entry \in [Positions -> EntryRecord] /\ job.reviewed \in BOOLEAN /\ CacheTypes
  BY ExperimentAssumption DEF IInv, TypeOK, EntryRecord, Job
<1>2. s \in Scenario /\ i \in Nat
  <2>1. ordered \in Seq(Pool) /\ Pool \subseteq Scenario
    BY WorkedAndMeasured DEF IInv, TypeOK, Pool
  <2> QED
    BY <2>1 DEF Positions
<1>3. PICK e \in EntryRecord :
        e = [entry[i] EXCEPT !.at = "done", !.outcome = outcome,
                             !.version = IF outcome = "authored" THEN i ELSE 0]
  BY <1>1, <1>2 DEF EntryRecord
<1>4. entry' = [entry EXCEPT ![i] = e]
  BY <1>3, <1>1, <1>2 DEF Author, VersionOf
<1>5. note \in Proposals \union {NoAnswer}
  BY <1>1 DEF NoteOf, EntryRecord, Proposals, NoAnswer
<1>6. /\ CacheGrows /\ CacheTypes'
      /\ outcome # "unreachable" => cache'[s].authored[note] = outcome
  <2>1. /\ cache[s].authored[note] # NoAnswer => outcome = cache[s].authored[note]
        /\ cache' = IF outcome = "unreachable" THEN cache
                    ELSE [cache EXCEPT ![s].authored[note] = outcome]
    BY DEF Author
  <2> HIDE DEF note, s
  <2> QED
    BY <1>1, <1>2, <1>5, <2>1 DEF CacheGrows, CacheTypes
<1>7. EntryFits(e, i)'
  <2>1. job' = job /\ ordered' = ordered
    BY DEF Author, rigid
  <2>2. LoopFits(entry[i], i) /\ SaidFits(entry[i], i) /\ (job.reviewed => ~Rejects(i))
    BY DEF Author, IInv, EntriesFit, EntryFits
  <2>3. Rejects(i)' = Rejects(i)
    BY <2>1 DEF Rejects
  <2>4. e.said = entry[i].said /\ e.calls = entry[i].calls /\ e.cut = entry[i].cut
        /\ e.at = "done" /\ e.outcome = outcome
        /\ e.version = IF outcome = "authored" THEN i ELSE 0
    BY <1>3, <1>1 DEF EntryRecord
  <2>5. SaidFits(e, i)'
    <3>1. cache[s].said[e.calls] # NoAnswer => cache'[s].said[e.calls] = cache[s].said[e.calls]
      BY <1>2, <1>6 DEF CacheGrows, EntryRecord
    <3>2. NoAnswer \notin Proposals
      BY ExperimentAssumption DEF Proposals, NoAnswer
    <3> QED
      BY <2>1, <2>2, <2>4, <3>1, <3>2 DEF SaidFits
  <2>6. LoopFits(e, i)'
    BY <1>2, <1>6, <2>1, <2>2, <2>4 DEF LoopFits, CacheGrows
  <2> QED
    BY <1>6, <2>1, <2>2, <2>3, <2>4, <2>5, <2>6 DEF EntryFits
<1>8. phase = "depositing" /\ UNCHANGED <<rigid, phase, arm, attempt, results, previous, runs>>
  BY DEF Author
<1> HIDE DEF s, note
<1> QED
  BY <1>4, <1>6, <1>7, <1>8, EntryStep

Attempts == {"waiting", "running", "answered", "unreachable", "raised"}

\* A step that leaves sequence and results alone.
LEMMA StandsStill ==
  ASSUME IInv, UNCHANGED <<rigid, entry, arm, results, cache, previous, runs>>,
         attempt' \in [DOMAIN cases -> Attempts],
         phase' \in {"measuring", "printed", "aborted", "raised"} \/ phase' = phase
         \/ (phase' = "written" /\ arm = Len(Plan) + 1 /\ Plan # <<>>)
  PROVE IInv'
<1>1. /\ job' \in Jobs /\ held' \in TestSets /\ ordered' = Ordered' /\ cases' = Cases'
      /\ job' = job /\ ordered' = ordered /\ cases' = cases
      /\ Positions' = Positions /\ Plan' = Plan
  BY RigidKept
<1>2. /\ CacheTypes' /\ PreviousTypes' /\ EntriesFit'
      /\ entry' \in [Positions' -> EntryRecord]
      /\ \A a : Measured(a)' = Measured(a)
  BY SequenceStands
<1>3. TypeOK'
  BY <1>1, <1>2 DEF IInv, TypeOK, EntryRecord, Ended, Attempts
<1>4. ResultsFit'
  <2>1. results' = results /\ arm' = arm
    OBVIOUS
  <2>2. UNION {Measured(a)' : a \in DOMAIN Plan} = UNION {Measured(a) : a \in DOMAIN Plan}
    BY <1>2
  <2> QED
    BY <1>1, <1>2, <2>1, <2>2 DEF IInv, TypeOK, ResultsFit
<1> QED
  BY <1>2, <1>3, <1>4 DEF IInv

\* A run that died or is started again holds no results.
LEMMA ForgetsResults ==
  ASSUME IInv, UNCHANGED <<rigid, cache>>, arm' = 1, results' = <<>>,
         attempt' = [c \in DOMAIN cases |-> "waiting"],
         phase' \in {"depositing", "measuring", "killed"}, runs' \in 1..job.runs,
         PreviousTypes', EntriesFit', entry' \in [Positions -> EntryRecord]
  PROVE IInv'
<1>1. /\ job' \in Jobs /\ held' \in TestSets /\ ordered' = Ordered' /\ cases' = Cases'
      /\ job' = job /\ ordered' = ordered /\ cases' = cases
      /\ Positions' = Positions /\ Plan' = Plan
  BY RigidKept
<1>2. TypeOK'
  <2>1. arm' \in 1..(Len(Plan) + 1)
    BY PlanTypes DEF IInv, TypeOK
  <2> QED
    BY <1>1, <2>1 DEF IInv, TypeOK, EntryRecord, Ended
<1>3. CacheTypes'
  BY DEF IInv, CacheTypes
<1>4. ResultsFit'
  BY DEF ResultsFit
<1> QED
  BY <1>2, <1>3, <1>4 DEF IInv

\* An arm that is not given up leaves its result, and the next arm begins.
LEMMA ArmEndsKeeps ==
  ASSUME IInv, ArmEnds
  PROVE IInv'
<1> DEFINE unreachable == Cardinality({c \in DOMAIN cases : attempt[c] = "unreachable"})
<1>1. UNCHANGED <<rigid, entry, cache, previous, runs>> /\ phase = "measuring" /\ arm <= Len(Plan)
  BY DEF ArmEnds
<1>2. Len(Plan) \in Nat /\ arm \in 1..(Len(Plan) + 1) /\ DOMAIN Plan = 1..Len(Plan)
  BY PlanTypes DEF IInv, TypeOK
<1>3. CASE Degraded(unreachable, Len(cases)) /\ phase' = "aborted" /\ UNCHANGED <<arm, attempt, results>>
  BY <1>1, <1>3, StandsStill DEF IInv, TypeOK, Attempts
<1>4. CASE /\ ~Degraded(unreachable, Len(cases))
           /\ results' = Append(results, Result(Plan[arm].name, Plan[arm].deposits, unreachable))
           /\ arm' = arm + 1
           /\ attempt' = [c \in DOMAIN cases |-> "waiting"]
           /\ UNCHANGED phase
  <2>1. /\ job' \in Jobs /\ held' \in TestSets /\ ordered' = Ordered' /\ cases' = Cases'
        /\ job' = job /\ ordered' = ordered /\ cases' = cases
        /\ Positions' = Positions /\ Plan' = Plan
    BY <1>1, RigidKept
  <2>2. /\ CacheTypes' /\ PreviousTypes' /\ EntriesFit'
        /\ entry' \in [Positions' -> EntryRecord]
        /\ \A a : Measured(a)' = Measured(a)
    BY <1>1, SequenceStands
  <2>3. TypeOK'
    BY <1>1, <1>2, <1>4, <2>1, <2>2 DEF IInv, TypeOK, EntryRecord
  <2>4. unreachable \in Nat
    <3>1. IsFiniteSet(DOMAIN cases)
      <4>1. cases \in Seq(Exceptions)
        BY WorkedAndMeasured DEF IInv, TypeOK
      <4>2. DOMAIN cases = 1..Len(cases) /\ Len(cases) \in Nat
        BY <4>1
      <4> QED
        BY <4>2, FS_Interval
    <3>2. {c \in DOMAIN cases : attempt[c] = "unreachable"} \in SUBSET DOMAIN cases
      OBVIOUS
    <3> QED
      BY <3>1, <3>2, FS_Subset, FS_CardinalityType
  <2> DEFINE r == Result(Plan[arm].name, Plan[arm].deposits, unreachable)
             All == UNION {Measured(a) : a \in DOMAIN Plan}
  <2>5. r \in Measured(arm) /\ r \in All
    <3>1. r \in Measured(arm)
      <4> HIDE DEF unreachable
      <4> QED
        BY <1>4, <2>4 DEF Measured
    <3>2. arm \in DOMAIN Plan
      BY <1>1, <1>2
    <3> HIDE DEF r
    <3> QED
      BY <3>1, <3>2
  <2>6. /\ results \in Seq(All) /\ Len(results) = arm - 1
        /\ \A a \in DOMAIN results : results[a] \in Measured(a)
    BY DEF IInv, ResultsFit
  <2>7. /\ results' \in Seq(All) /\ Len(results') = arm' - 1
        /\ \A a \in DOMAIN results' : results'[a] \in Measured(a)
    <3>1. results' = Append(results, r) /\ arm' = arm + 1
      BY <1>4
    <3> HIDE DEF r, All
    <3>2. /\ results' \in Seq(All) /\ Len(results') = Len(results) + 1
          /\ \A a \in 1..Len(results) : results'[a] = results[a]
          /\ results'[Len(results) + 1] = r
      BY <2>5, <2>6, <3>1, AppendProperties
    <3>3. Len(results) \in Nat /\ DOMAIN results = 1..Len(results)
          /\ DOMAIN results' = 1..(Len(results) + 1)
      BY <2>6, <3>2, LenProperties
    <3>4. \A a \in 1..(Len(results) + 1) : a \in 1..Len(results) \/ a = arm
      BY <1>2, <2>6, <3>3
    <3>5. \A a \in DOMAIN results' : results'[a] \in Measured(a)
      BY <1>2, <2>5, <2>6, <3>2, <3>3, <3>4
    <3> QED
      BY <1>2, <2>6, <3>1, <3>2, <3>5
  <2>8. UNION {Measured(a)' : a \in DOMAIN Plan} = All
    BY <2>2
  <2>9. ResultsFit'
    <3> HIDE DEF All
    <3> QED
      BY <1>1, <1>4, <2>1, <2>2, <2>7, <2>8 DEF ResultsFit
  <2> QED
    BY <2>2, <2>3, <2>9 DEF IInv
<1> QED
  BY <1>3, <1>4 DEF ArmEnds

\* Every other step of a worker.
LEMMA OtherWorkKeeps ==
  ASSUME IInv,
         DepositingEnds \/ (\E c \in DOMAIN cases : BeginCase(c) \/ EndCase(c)) \/ ArmRaises \/ Write
  PROVE IInv'
<1>1. attempt \in [DOMAIN cases -> Attempts]
  BY DEF IInv, TypeOK, Attempts
<1>2. CASE DepositingEnds
  BY <1>1, <1>2, StandsStill DEF DepositingEnds
<1>3. ASSUME NEW c \in DOMAIN cases, BeginCase(c) PROVE IInv'
  <2>1. attempt' \in [DOMAIN cases -> Attempts]
    BY <1>1, <1>3 DEF BeginCase, Attempts
  <2> QED
    BY <1>3, <2>1, StandsStill DEF BeginCase
<1>4. ASSUME NEW c \in DOMAIN cases, EndCase(c) PROVE IInv'
  <2>1. attempt' \in [DOMAIN cases -> Attempts]
    BY <1>1, <1>4 DEF EndCase, Attempts
  <2> QED
    BY <1>4, <2>1, StandsStill DEF EndCase
<1>5. CASE ArmRaises
  BY <1>1, <1>5, StandsStill DEF ArmRaises
<1>6. CASE Write
  BY <1>1, <1>6, StandsStill DEF Write
<1> QED
  BY <1>2, <1>3, <1>4, <1>5, <1>6

LEMMA KillKeeps ==
  ASSUME IInv, Kill
  PROVE IInv'
<1>1. PreviousTypes' /\ EntriesFit' /\ entry' \in [Positions -> EntryRecord]
  <2>1. UNCHANGED <<rigid, entry, cache, previous>>
    BY DEF Kill
  <2> QED
    BY <2>1, RigidKept, SequenceStands
<1>2. runs' \in 1..job.runs
  BY DEF Kill, IInv, TypeOK
<1> QED
  BY <1>1, <1>2, ForgetsResults DEF Kill

LEMMA RerunKeeps ==
  ASSUME IInv, Rerun
  PROVE IInv'
<1>1. UNCHANGED <<rigid, cache>>
  BY DEF Rerun
<1>2. Positions' = Positions /\ job' = job /\ ordered' = ordered
  BY <1>1, RigidKept
<1>3. entry \in [Positions -> EntryRecord] /\ Blank \in EntryRecord
  <2>1. 0 \in Evidence /\ FALSE \in BOOLEAN
    BY ExperimentAssumption DEF Evidence
  <2> QED
    BY <2>1, SilentEntries DEF IInv, TypeOK, EntryRecord
<1>4. PreviousTypes' /\ entry' \in [Positions -> EntryRecord]
  BY <1>2, <1>3 DEF Rerun, PreviousTypes
<1>5. EntriesFit'
  <2>1. ASSUME NEW i \in Positions PROVE EntryFits(entry[i], i)' /\ EntryFits(previous[i], i)'
    <3>1. previous'[i] = entry[i] /\ entry'[i] = Blank
      BY DEF Rerun
    <3>2. EntryFits(Blank, i)'
      BY DEF EntryFits, Blank
    <3>3. \A r \in EntryRecord : EntryFits(r, i) => EntryFits(r, i)'
      BY <1>1, EntryStaysFit DEF CacheGrows
    <3>4. entry[i] \in EntryRecord /\ EntryFits(entry[i], i)
      BY <1>3 DEF IInv, EntriesFit
    <3> QED
      BY <3>1, <3>2, <3>3, <3>4
  <2> QED
    BY <1>2, <2>1 DEF EntriesFit
<1>6. runs' \in 1..job.runs
  BY ExperimentAssumption DEF Rerun, IInv, TypeOK, Job
<1>7. phase' \in {"depositing", "measuring"}
  BY DEF Rerun, FirstPhase
<1> QED
  BY <1>1, <1>4, <1>5, <1>6, <1>7, ForgetsResults DEF Rerun

LEMMA StepKeeps == IInv /\ [Next]_vars => IInv'
<1> SUFFICES ASSUME IInv, [Next]_vars PROVE IInv'
  OBVIOUS
<1>1. ASSUME NEW i \in Positions,
             \/ Begin(i)
             \/ \E calls \in Evidence, end \in LoopEnds : Gather(i, calls, end)
             \/ \E said \in Proposals \union {"unreachable"} : Propose(i, said)
             \/ \E outcome \in Authorings \union {"unreachable"} : Author(i, outcome)
      PROVE IInv'
  BY <1>1, BeginKeeps, GatherKeeps, ProposeKeeps, AuthorKeeps
<1>2. CASE ArmEnds
  BY <1>2, ArmEndsKeeps
<1>3. CASE DepositingEnds \/ (\E c \in DOMAIN cases : BeginCase(c) \/ EndCase(c)) \/ ArmRaises \/ Write
  BY <1>3, OtherWorkKeeps
<1>4. CASE Kill
  BY <1>4, KillKeeps
<1>5. CASE Rerun
  BY <1>5, RerunKeeps
<1>6. CASE UNCHANGED vars
  <2>1. UNCHANGED <<rigid, entry, arm, results, cache, previous, runs, attempt, phase>>
    BY <1>6 DEF vars
  <2>2. attempt \in [DOMAIN cases -> Attempts]
    BY DEF IInv, TypeOK, Attempts
  <2> QED
    BY <2>1, <2>2, StandsStill
<1> QED
  BY <1>1, <1>2, <1>3, <1>4, <1>5, <1>6 DEF Next, Worker

\* The types, and with them the invariant, hold in every state.
THEOREM InductiveInvariant == Spec => []IInv
<1>1. IInv /\ [Next]_vars => IInv'
  BY StepKeeps
<1> QED
  BY <1>1, InitInv, PTL DEF Spec

\* Every variable keeps its type: entries are records of an attempt, results of an arm.
THEOREM TypeCorrect == Spec => []TypeOK
<1>1. IInv => TypeOK
  BY DEF IInv
<1> QED
  BY <1>1, InductiveInvariant, PTL

----------------------------------------------------------------------------
(* What the invariant says of results and entries. *)

\* A result is what retrieval and the deposits make of its arm.
LEMMA ResultOfArm ==
  ASSUME IInv, NEW a \in DOMAIN results
  PROVE /\ a \in DOMAIN Plan /\ a \in 1..(arm - 1) /\ Plan[a].deposits \in Nat
        /\ results[a].name = Plan[a].name /\ results[a].deposits = Plan[a].deposits
        /\ results[a].corpus = CorpusAt(Plan[a].deposits)
        /\ results[a].unreachable \in Nat /\ ~Degraded(results[a].unreachable, Len(cases))
        /\ results[a].hits =
             [s \in {cases[c] : c \in DOMAIN cases} |->
                Hits(Plan[a].name,
                     CorpusAt(Plan[a].deposits) \union {[scenario |-> p, version |-> 0] : p \in Seeds},
                     s)]
<1>1. Len(Plan) \in Nat /\ arm \in 1..(Len(Plan) + 1) /\ DOMAIN Plan = 1..Len(Plan)
      /\ \A b \in DOMAIN Plan : Plan[b].deposits \in Nat
  BY PlanTypes DEF IInv, TypeOK
<1>2. DOMAIN results = 1..(arm - 1) /\ results[a] \in Measured(a)
  BY LenProperties DEF IInv, ResultsFit
<1>3. a \in DOMAIN Plan /\ a \in 1..(arm - 1)
  BY <1>1, <1>2
<1>4. PICK u \in Nat : /\ ~Degraded(u, Len(cases))
                       /\ results[a] = Result(Plan[a].name, Plan[a].deposits, u)
  BY <1>2 DEF Measured
<1> QED
  BY <1>1, <1>3, <1>4 DEF Result

\* A precedent has its place as its version, or none.
LEMMA VersionsArePlaces ==
  ASSUME IInv, NEW i \in Positions
  PROVE i \in Nat \ {0} /\ entry[i].version \in {0, i} /\ ordered[i] \in Pool
<1>1. ordered \in Seq(Pool)
  BY WorkedAndMeasured DEF IInv, TypeOK
<1>2. i \in Nat \ {0} /\ ordered[i] \in Pool
  BY <1>1 DEF Positions
<1>3. entry[i] \in EntryRecord /\ EntryFits(entry[i], i)
  BY DEF IInv, TypeOK, EntryRecord, EntriesFit
<1>4. entry[i].at \in {"waiting", "investigating", "proposing", "authoring", "done", "raised"}
  BY <1>3 DEF EntryRecord, InHand
<1>5. entry[i].version \in {0, i}
  <2>1. CASE entry[i].at = "waiting"
    BY <1>3, <2>1 DEF EntryFits, Blank
  <2>2. CASE entry[i].at = "investigating"
    BY <1>3, <2>2 DEF EntryFits, Blank
  <2>3. CASE entry[i].at = "authoring"
    BY <1>3, <2>3 DEF EntryFits, Blank
  <2>4. CASE entry[i].at = "raised"
    BY <1>3, <2>4 DEF EntryFits
  <2>5. CASE entry[i].at = "done"
    BY <1>3, <2>5 DEF EntryFits
  <2>6. CASE entry[i].at = "proposing"
    BY <1>3, <2>6 DEF EntryFits, Blank
  <2> QED
    BY <1>4, <2>1, <2>2, <2>3, <2>4, <2>5, <2>6
<1> QED
  BY <1>2, <1>5

\* The corpus of a snapshot is finite, and a precedent is known by version or, a seed, by name.
LEMMA CorpusTypes ==
  ASSUME IInv, NEW d \in Nat
  PROVE /\ IsFiniteSet(CorpusAt(d))
        /\ \A p \in CorpusAt(d) : \E i \in Positions :
             /\ p = [scenario |-> ordered[i], version |-> i]
             /\ i <= d /\ i \in Nat \ {0} /\ ordered[i] \in Pool
<1> DEFINE Reached == {j \in Positions : j <= d /\ entry[j].version # 0}
           deposit == [i \in Reached |-> [scenario |-> ordered[i], version |-> entry[i].version]]
<1>1. IsFiniteSet(Reached)
  <2>1. Positions = 1..Len(ordered) /\ Len(ordered) \in Nat
    BY WorkedAndMeasured DEF IInv, TypeOK, Positions
  <2>2. IsFiniteSet(Positions)
    BY <2>1, FS_Interval
  <2> QED
    BY <2>2, FS_Subset
<1>2. CorpusAt(d) = {deposit[i] : i \in Reached}
  BY DEF CorpusAt
<1>3. deposit \in Surjection(Reached, CorpusAt(d))
  <2> HIDE DEF Reached
  <2> QED
    BY <1>2 DEF Surjection
<1>4. IsFiniteSet(CorpusAt(d))
  BY <1>1, <1>3, FS_Surjection
<1>5. ASSUME NEW p \in CorpusAt(d)
      PROVE \E i \in Positions : /\ p = [scenario |-> ordered[i], version |-> i]
                                 /\ i <= d /\ i \in Nat \ {0} /\ ordered[i] \in Pool
  <2>1. PICK i \in Reached : p = [scenario |-> ordered[i], version |-> entry[i].version]
    BY DEF CorpusAt
  <2>2. entry[i].version = i /\ i \in Nat \ {0} /\ ordered[i] \in Pool
    BY VersionsArePlaces
  <2> QED
    BY <2>1, <2>2
<1> QED
  BY <1>4, <1>5

----------------------------------------------------------------------------
(* The corpus an arm was measured on holds exactly the precedents whose    *)
(* version its snapshot had reached, whatever order the threads finished   *)
(* in (corpus_at).                                                         *)
THEOREM CorporaAreSnapshots == Spec => []SnapshotsAreVersions
<1>1. IInv => SnapshotsAreVersions
  <2> SUFFICES ASSUME IInv, NEW a \in DOMAIN results
               PROVE results[a].corpus =
                       {[scenario |-> ordered[i], version |-> entry[i].version] :
                          i \in {j \in Positions : entry[j].version \in 1..results[a].deposits}}
    BY DEF SnapshotsAreVersions
  <2> DEFINE d == results[a].deposits
  <2>1. d \in Nat /\ results[a].corpus = CorpusAt(d)
    BY ResultOfArm
  <2>2. {j \in Positions : entry[j].version \in 1..d}
          = {j \in Positions : j <= d /\ entry[j].version # 0}
    BY <2>1, VersionsArePlaces
  <2> HIDE DEF d
  <2> QED
    BY <2>1, <2>2 DEF CorpusAt, d
<1> QED
  BY <1>1, InductiveInvariant, PTL

(* No case an arm measures was ever deposited in the corpus it is measured *)
(* on: the deposits are drawn from the pool, the measured cases of a       *)
(* replay from the test set, and an ablation deposits nothing.             *)
THEOREM TestCasesAreHeldOut == Spec => []HeldOut
<1>1. IInv => HeldOut
  <2> SUFFICES ASSUME IInv, NEW a \in DOMAIN results
               PROVE DOMAIN results[a].hits
                       \intersect {d.scenario : d \in results[a].corpus} = {}
    BY DEF HeldOut
  <2>1. /\ DOMAIN results[a].hits = {cases[c] : c \in DOMAIN cases}
        /\ results[a].corpus = CorpusAt(Plan[a].deposits) /\ Plan[a].deposits \in Nat
    BY ResultOfArm
  <2>2. \A p \in results[a].corpus : p.scenario \in Pool /\ Positions # {}
    BY <2>1, CorpusTypes
  <2>3. CASE job.kind = "replay"
    <3>1. cases \in Seq(held)
      BY <2>3, WorkedAndMeasured DEF IInv, TypeOK
    <3>2. \A c \in DOMAIN cases : cases[c] \in held
      BY <3>1
    <3> QED
      BY <2>1, <2>2, <3>2 DEF Pool
  <2>4. CASE job.kind # "replay"
    <3>1. ordered = <<>>
      BY <2>4, WorkedAndMeasured DEF IInv, TypeOK
    <3> QED
      BY <2>2, <3>1 DEF Positions
  <2> QED
    BY <2>3, <2>4
<1> QED
  BY <1>1, InductiveInvariant, PTL

(* A result is written only when every arm of the plan was measured over   *)
(* the same cases, with no more of them unreachable than the breaker lets  *)
(* pass: no partial and no degraded curve is on disk.                      *)
THEOREM OnlyWholeCurves == Spec => []WrittenIsMeasured
<1>1. IInv => WrittenIsMeasured
  <2> SUFFICES ASSUME IInv, phase = "written"
               PROVE /\ results # <<>> /\ Len(results) = Len(Plan)
                     /\ \A a \in DOMAIN results :
                          /\ results[a].deposits = Plan[a].deposits
                          /\ results[a].name = Plan[a].name
                          /\ DOMAIN results[a].hits = DOMAIN results[1].hits
                          /\ \/ results[a].unreachable <= MinUnavailable
                             \/ 100 * results[a].unreachable <= MaxShare * Len(cases)
    BY DEF WrittenIsMeasured
  <2>1. Len(Plan) \in Nat /\ (Len(Plan) = 0 => Plan = <<>>)
    <3>1. Len(Plan) \in Nat /\ DOMAIN Plan = 1..Len(Plan)
      BY PlanTypes DEF IInv, TypeOK
    <3> QED
      BY <3>1
  <2>2. Len(results) = Len(Plan) /\ Len(Plan) # 0
        /\ DOMAIN results = 1..Len(results)
    BY <2>1, LenProperties DEF IInv, TypeOK, ResultsFit
  <2>3. results # <<>> /\ 1 \in DOMAIN results
    BY <2>1, <2>2
  <2>4. Len(cases) \in Nat
    BY WorkedAndMeasured DEF IInv, TypeOK
  <2>5. ASSUME NEW a \in DOMAIN results
        PROVE \/ results[a].unreachable <= MinUnavailable
              \/ 100 * results[a].unreachable <= MaxShare * Len(cases)
    <3>1. results[a].unreachable \in Nat /\ ~Degraded(results[a].unreachable, Len(cases))
      BY ResultOfArm
    <3>2. 100 * results[a].unreachable \in Nat /\ MaxShare * Len(cases) \in Nat
      BY <2>4, <3>1, ExperimentAssumption
    <3> QED
      BY <2>4, <3>1, <3>2, ExperimentAssumption DEF Degraded
  <2> QED
    BY <2>2, <2>3, <2>5, ResultOfArm
<1> QED
  BY <1>1, InductiveInvariant, PTL

(* Where two runs worked one position, the reviewer declined it in both or *)
(* in neither; tool loops that kept the model gathered the same; and what  *)
(* was come to on the same evidence is the same, however the threads were  *)
(* scheduled and wherever the first run died: the draw is a function of    *)
(* the scenario, the version of the place, and an answer of its prompt,    *)
(* which the cache keeps (human.py, evals/cache.py).                       *)
THEOREM RunsReproduce == Spec => []Reproduced
<1>1. IInv => Reproduced
  <2> SUFFICES ASSUME IInv, NEW i \in DOMAIN entry \intersect DOMAIN previous,
                      entry[i].at = "done", previous[i].at = "done"
               PROVE /\ entry[i].outcome = "rejected" <=> previous[i].outcome = "rejected"
                     /\ ~entry[i].cut /\ ~previous[i].cut => entry[i].calls = previous[i].calls
                     /\ /\ entry[i].calls = previous[i].calls
                        /\ "unreachable" \notin {entry[i].said, previous[i].said}
                        => entry[i].said = previous[i].said
                     /\ /\ entry[i].calls = previous[i].calls
                        /\ "unreachable" \notin {entry[i].said, previous[i].said,
                                                 entry[i].outcome, previous[i].outcome}
                        => /\ entry[i].outcome = previous[i].outcome
                           /\ entry[i].version = previous[i].version
    BY DEF Reproduced
  <2>1. /\ i \in Positions /\ entry[i] \in EntryRecord /\ previous[i] \in EntryRecord
        /\ EntryFits(entry[i], i) /\ EntryFits(previous[i], i)
    BY DEF IInv, TypeOK, EntryRecord, PreviousTypes, EntriesFit
  <2>2. entry[i].outcome = "rejected" <=> previous[i].outcome = "rejected"
    BY <2>1 DEF EntryFits, Authorings
  <2>3. ~entry[i].cut /\ ~previous[i].cut => entry[i].calls = previous[i].calls
    BY <2>1 DEF EntryFits, LoopFits
  <2>4. ASSUME entry[i].calls = previous[i].calls,
               "unreachable" \notin {entry[i].said, previous[i].said}
        PROVE entry[i].said = previous[i].said
    BY <2>1, <2>4 DEF EntryFits, SaidFits
  <2>5. ASSUME entry[i].said = previous[i].said,
               "unreachable" \notin {entry[i].outcome, previous[i].outcome}
        PROVE entry[i].outcome = previous[i].outcome /\ entry[i].version = previous[i].version
    BY <2>1, <2>5 DEF EntryFits
  <2> QED
    BY <2>2, <2>3, <2>4, <2>5
<1> QED
  BY <1>1, InductiveInvariant, PTL

----------------------------------------------------------------------------
(* Retrieval. *)

SeedRecords == {[scenario |-> p, version |-> 0] : p \in Seeds}

\* What a corpus is made of, as far as ranking is concerned.
LEMMA Ranked ==
  ASSUME IInv, NEW d \in Nat, NEW S, S = CorpusAt(d) \union SeedRecords
  PROVE /\ IsFiniteSet(S) /\ Cardinality(S) \in Nat
        /\ \A p \in S : /\ p.scenario \in Seeds \union Scenario
                        /\ p.version = 0 => p.scenario \in Int
                        /\ p.version \in Nat
        /\ \A p, q \in S : p # q =>
             \/ p.version # q.version
             \/ p.version = 0 /\ q.version = 0 /\ p.scenario # q.scenario
<1>1. IsFiniteSet(CorpusAt(d))
  BY CorpusTypes
<1>2. IsFiniteSet(SeedRecords)
  <2> DEFINE record == [p \in Seeds |-> [scenario |-> p, version |-> 0]]
  <2>1. record \in Surjection(Seeds, SeedRecords)
    BY DEF SeedRecords, Surjection
  <2> QED
    BY <2>1, ExperimentAssumption, FS_Surjection
<1>3. IsFiniteSet(S) /\ Cardinality(S) \in Nat
  BY <1>1, <1>2, FS_Union, FS_CardinalityType
<1>4. \A p \in SeedRecords : p = [scenario |-> p.scenario, version |-> 0] /\ p.scenario \in Seeds
  BY DEF SeedRecords
<1>5. \A p \in CorpusAt(d) : /\ p = [scenario |-> ordered[p.version], version |-> p.version]
                             /\ p.version \in Nat \ {0} /\ p.scenario \in Scenario
  <2> SUFFICES ASSUME NEW p \in CorpusAt(d)
               PROVE /\ p = [scenario |-> ordered[p.version], version |-> p.version]
                     /\ p.version \in Nat \ {0} /\ p.scenario \in Scenario
    OBVIOUS
  <2>1. PICK i \in Positions : /\ p = [scenario |-> ordered[i], version |-> i]
                               /\ i \in Nat \ {0} /\ ordered[i] \in Pool
    BY CorpusTypes
  <2>2. Pool \subseteq Scenario
    BY DEF Pool, Exceptions
  <2> QED
    BY <2>1, <2>2
<1>6. ASSUME NEW p \in S, NEW q \in S, p # q
      PROVE \/ p.version # q.version
            \/ p.version = 0 /\ q.version = 0 /\ p.scenario # q.scenario
  BY <1>4, <1>5, <1>6
<1>7. ASSUME NEW p \in S
      PROVE /\ p.scenario \in Seeds \union Scenario
            /\ p.version = 0 => p.scenario \in Int
            /\ p.version \in Nat
  BY <1>4, <1>5, ExperimentAssumption
<1> QED
  BY <1>3, <1>6, <1>7

\* Score and identifier order every corpus, for every case.
LEMMA RankingOrders ==
  ASSUME IInv, NEW d \in Nat, NEW S, S = CorpusAt(d) \union SeedRecords, NEW s \in Scenario
  PROVE IsLinear({r \in S \X S : RanksAbove(r[1], r[2], s)}, S)
<1> DEFINE R == {r \in S \X S : RanksAbove(r[1], r[2], s)}
           score(p) == Relevance[p.scenario][s]
<1>1. /\ \A p \in S : /\ p.scenario \in Seeds \union Scenario
                      /\ p.version = 0 => p.scenario \in Int
                      /\ p.version \in Nat
      /\ \A p, q \in S : p # q =>
           \/ p.version # q.version
           \/ p.version = 0 /\ q.version = 0 /\ p.scenario # q.scenario
  BY Ranked
<1>2. \A p \in S : score(p) \in Nat
  BY <1>1, ExperimentAssumption
<1>3. \A p, q \in S : <<p, q>> \in R <=>
        score(p) > score(q) \/ (score(p) = score(q) /\ IdBefore(p, q))
  BY DEF RanksAbove
<1>4. \A p \in S : ~IdBefore(p, p)
  BY <1>1 DEF IdBefore
<1>5. \A p, q, r \in S : IdBefore(p, q) /\ IdBefore(q, r) => IdBefore(p, r)
  BY <1>1 DEF IdBefore
<1>6. \A p, q \in S : p # q => IdBefore(p, q) \/ IdBefore(q, p)
  BY <1>1 DEF IdBefore
<1> HIDE DEF R, score
<1>7. \A p \in S : <<p, p>> \notin R
  BY <1>2, <1>3, <1>4
<1>8. \A p, q, r \in S : <<p, q>> \in R /\ <<q, r>> \in R => <<p, r>> \in R
  BY <1>2, <1>3, <1>5
<1>9. \A p, q \in S : p # q => <<p, q>> \in R \/ <<q, p>> \in R
  BY <1>2, <1>3, <1>6
<1>10. IsLinear(R, S)
  BY <1>7, <1>8, <1>9 DEF IsLinear
<1> QED
  BY <1>10 DEF R

\* Retrieval gives as many precedents as it may, and the control as many.
LEMMA AsManyHits ==
  ASSUME IInv, NEW d \in Nat, NEW S, S = CorpusAt(d) \union SeedRecords, NEW s \in Scenario
  PROVE Cardinality(Bm25(S, s)) = Cardinality(Sample(S))
<1> DEFINE R == {r \in S \X S : RanksAbove(r[1], r[2], s)}
           m == Min({K, Cardinality(S)})
<1>1. IsLinear(R, S) /\ IsFiniteSet(S) /\ Cardinality(S) \in Nat
  BY RankingOrders, Ranked
<1>2. K \in Nat /\ K # 0
  BY ExperimentAssumption
<1>3. m \in Nat /\ m <= K /\ m <= Cardinality(S) /\ (m = K \/ m = Cardinality(S))
  <2>1. \E x \in {K, Cardinality(S)} : \A y \in {K, Cardinality(S)} : x <= y
    BY <1>1, <1>2
  <2>2. m \in {K, Cardinality(S)} /\ \A y \in {K, Cardinality(S)} : m <= y
    BY <2>1 DEF Min
  <2> HIDE DEF m
  <2> QED
    BY <1>1, <1>2, <2>2
<1>4. \A p \in S : {q \in S \ {p} : RanksAbove(q, p, s)} = BeforeIn(R, S, p)
  BY <1>1 DEF BeforeIn, IsLinear
<1>5. \A p \in S : Cardinality(BeforeIn(R, S, p)) \in 0..(Cardinality(S) - 1)
  <2> DEFINE place == [p \in S |-> Cardinality(BeforeIn(R, S, p))]
  <2>1. place \in [S -> 0..(Cardinality(S) - 1)]
    <3>1. place \in Bijection(S, 0..(Cardinality(S) - 1))
      <4> HIDE DEF R
      <4> QED
        BY <1>1, EachHasItsPlace
    <3> HIDE DEF place
    <3> QED
      BY <3>1 DEF Bijection, Injection
  <2> QED
    BY <2>1
<1>6. Bm25(S, s) = FirstIn(R, S, K)
  <2> HIDE DEF R
  <2> QED
    BY <1>4 DEF Bm25, FirstIn
<1> HIDE DEF R, m
<1>7. Bm25(S, s) = FirstIn(R, S, m)
  BY <1>1, <1>2, <1>3, <1>5, <1>6 DEF FirstIn
<1>8. Bm25(S, s) \in SUBSET S /\ Cardinality(Bm25(S, s)) = m
  <2>1. m \in 0..Cardinality(S)
    BY <1>1, <1>3
  <2>2. Cardinality(FirstIn(R, S, m)) = m
    BY <1>1, <2>1, TheFirst
  <2> QED
    BY <1>7, <2>2 DEF FirstIn
<1>9. Cardinality(Sample(S)) = m
  BY <1>8 DEF Sample, m
<1> QED
  BY <1>8, <1>9

\* The arms of one corpus differ in nothing but which precedents they give a case: the random
\* control gives every case the same ones, and as many as retrieval gives it.
THEOREM ControlIsMatched == Spec => []ControlDiffersInContent
<1>1. IInv => ControlDiffersInContent
  <2> SUFFICES ASSUME IInv, NEW a \in DOMAIN results, NEW b \in DOMAIN results,
                      results[a].name \in {"grounded", "retrieved"},
                      results[b].name = "random_control",
                      results[a].deposits = results[b].deposits,
                      NEW s \in DOMAIN results[a].hits, NEW t \in DOMAIN results[a].hits
               PROVE /\ Cardinality(results[a].hits[s]) = Cardinality(results[b].hits[s])
                     /\ results[b].hits[s] = results[b].hits[t]
    BY DEF ControlDiffersInContent
  <2> DEFINE d == results[a].deposits
             S == CorpusAt(d) \union SeedRecords
             Asked == {cases[c] : c \in DOMAIN cases}
  <2>1. /\ d \in Nat
        /\ results[a].hits = [x \in Asked |-> Hits(results[a].name, S, x)]
        /\ results[b].hits = [x \in Asked |-> Hits(results[b].name, S, x)]
    <3>1. \A e \in DOMAIN results :
            /\ results[e].deposits \in Nat
            /\ results[e].hits =
                 [x \in Asked |-> Hits(results[e].name, CorpusAt(results[e].deposits) \union SeedRecords, x)]
      BY ResultOfArm DEF SeedRecords
    <3> HIDE DEF Asked
    <3> QED
      BY <3>1
  <2>2. s \in Asked /\ t \in Asked
    BY <2>1
  <2>3. results[a].hits[s] = Hits(results[a].name, S, s)
        /\ results[b].hits[s] = Hits(results[b].name, S, s)
        /\ results[b].hits[t] = Hits(results[b].name, S, t)
    BY <2>1, <2>2
  <2>4. /\ Hits(results[a].name, S, s) = Bm25(S, s)
        /\ \A x : Hits(results[b].name, S, x) = Sample(S)
    BY DEF Hits
  <2>5. s \in Scenario
    <3>1. cases \in Seq(Exceptions) /\ Exceptions \subseteq Scenario
      BY WorkedAndMeasured DEF IInv, TypeOK
    <3> QED
      BY <2>2, <3>1
  <2>6. Cardinality(Bm25(S, s)) = Cardinality(Sample(S))
    <3> HIDE DEF d
    <3> QED
      BY <2>1, <2>5, AsManyHits
  <2> QED
    BY <2>3, <2>4, <2>6
<1> QED
  BY <1>1, InductiveInvariant, PTL

----------------------------------------------------------------------------
(* The split. *)

LEMMA SplitFinite ==
  /\ Scenario \subseteq Nat \ {0} /\ IsFiniteSet(Scenario) /\ IsFiniteSet(Exceptions)
  /\ IsFiniteSet(Others) /\ IsFiniteSet(Customers) /\ IsFiniteSet(Kinds)
  /\ \A c : Sightings(c) \subseteq Exceptions /\ IsFiniteSet(Sightings(c))
  /\ \A k : OfKind(k) \subseteq Others /\ IsFiniteSet(OfKind(k))
  /\ \A s \in Scenario : Dataset[s].occurrence \in Nat
<1>1. /\ Scenario = 1..Len(Dataset) /\ Len(Dataset) \in Nat
      /\ \A s \in Scenario : Dataset[s].occurrence \in Nat
  <2> DEFINE Case == [exception : BOOLEAN, kind : STRING, customer : STRING, occurrence : Nat]
  <2>1. Dataset \in Seq(Case)
    BY SplitAssumption
  <2>2. \A s \in Case : s.occurrence \in Nat
    OBVIOUS
  <2> HIDE DEF Case
  <2>3. Scenario = 1..Len(Dataset) /\ Len(Dataset) \in Nat
    BY <2>1, LenProperties DEF Scenario
  <2>4. \A s \in Scenario : Dataset[s] \in Case
    BY <2>1, <2>3, ElementOfSeq
  <2> QED
    BY <2>2, <2>3, <2>4
<1>2. IsFiniteSet(Scenario) /\ Scenario \subseteq Nat \ {0}
  <2>1. IsFiniteSet(1..Len(Dataset))
    BY <1>1, FS_Interval
  <2> QED
    BY <1>1, <2>1
<1>3. Exceptions \subseteq Scenario /\ Others \subseteq Exceptions
      /\ (\A c : Sightings(c) \subseteq Exceptions) /\ (\A k : OfKind(k) \subseteq Others)
  BY DEF Exceptions, Others, Sightings, OfKind
<1>4. IsFiniteSet(Exceptions) /\ IsFiniteSet(Others)
  BY <1>2, <1>3, FS_Subset
<1>5. IsFiniteSet(Kinds)
  <2> DEFINE kind == [s \in Others |-> Dataset[s].kind]
  <2>1. Kinds = {kind[s] : s \in Others}
    BY DEF Kinds
  <2> QED
    BY <1>4, <2>1, ImageIsFinite
<1>6. IsFiniteSet(Customers)
  <2> DEFINE customer == [s \in Exceptions |-> Dataset[s].customer]
             All == {customer[s] : s \in Exceptions}
  <2>1. IsFiniteSet(All)
    BY <1>4, ImageIsFinite
  <2>2. Customers \in SUBSET All
    BY DEF Customers
  <2> QED
    BY <2>1, <2>2, FS_Subset
<1>7. (\A c : IsFiniteSet(Sightings(c))) /\ (\A k : IsFiniteSet(OfKind(k)))
  BY <1>3, <1>4, FS_Subset
<1> QED
  BY <1>1, <1>2, <1>3, <1>4, <1>5, <1>6, <1>7

\* A customer who was seen was seen first once.
LEMMA FirstIsSeen ==
  ASSUME NEW c, Sightings(c) # {}
  PROVE FirstSighting(c) \in Sightings(c)
<1> DEFINE S == Sightings(c)
           occurrences == {Dataset[s].occurrence : s \in S}
<1>1. S \subseteq Nat /\ \A s \in S : Dataset[s].occurrence \in Nat
  BY SplitFinite DEF Exceptions
<1>2. PICK o \in occurrences : \A p \in occurrences : o <= p
  <2>1. occurrences \subseteq Nat /\ occurrences # {}
    BY <1>1
  <2> HIDE DEF occurrences
  <2> QED
    BY <2>1, LeastNatural
<1> DEFINE earliest == {s \in S : Dataset[s].occurrence = o}
<1>3. PICK m \in earliest : \A s \in earliest : m <= s
  <2>1. earliest \subseteq Nat /\ earliest # {}
    BY <1>1, <1>2
  <2> HIDE DEF earliest
  <2> QED
    BY <2>1, LeastNatural
<1>4. \A t \in S \ {m} : SeenBefore(m, t)
  <2> SUFFICES ASSUME NEW t \in S \ {m} PROVE SeenBefore(m, t)
    OBVIOUS
  <2>1. Dataset[t].occurrence \in occurrences /\ Dataset[m].occurrence = o /\ m \in S
    BY <1>3
  <2>2. o <= Dataset[t].occurrence /\ o \in Nat /\ Dataset[t].occurrence \in Nat /\ m \in Nat /\ t \in Nat
    BY <1>1, <1>2, <2>1
  <2>3. CASE Dataset[t].occurrence = o
    <3>1. m <= t
      BY <1>3, <2>3
    <3> QED
      BY <2>1, <2>2, <2>3, <3>1 DEF SeenBefore
  <2>4. CASE Dataset[t].occurrence # o
    BY <2>1, <2>2, <2>4 DEF SeenBefore
  <2> QED
    BY <2>3, <2>4
<1>5. \E s \in Sightings(c) : \A t \in Sightings(c) \ {s} : SeenBefore(s, t)
  BY <1>3, <1>4
<1> QED
  BY <1>5 DEF FirstSighting

\* The larger of two.
LEMMA LargerOfTwo ==
  ASSUME NEW m \in Nat, NEW n \in Nat
  PROVE Max({m, n}) \in Nat /\ Max({m, n}) >= m
<1>1. \E x \in {m, n} : \A y \in {m, n} : x >= y
  OBVIOUS
<1>2. Max({m, n}) \in {m, n} /\ \A y \in {m, n} : Max({m, n}) >= y
  BY <1>1 DEF Max
<1> QED
  BY <1>2

\* How many of a customer's sightings are held out: one at least, where there is a later one.
LEMMA TakeIsSome ==
  ASSUME NEW c \in Customers
  PROVE Take(c) \in Nat /\ (Later(c) # {} => Take(c) >= 1)
<1>1. IsFiniteSet(Later(c))
  BY SplitFinite, FS_Subset DEF Later
<1>2. Cardinality(Later(c)) \in Nat
  BY <1>1, FS_CardinalityType
<1>3. Cardinality(Later(c)) \div 2 \in Nat
  BY <1>2
<1> QED
  BY <1>3, LargerOfTwo DEF Take

\* A test set holds some of the later sightings of each customer, and not the first.
LEMMA CustomersOnBothSides ==
  ASSUME NEW T \in TestSets, NEW c \in Customers, Cardinality(Sightings(c)) > 1
  PROVE /\ T \intersect Sightings(c) # {}
        /\ FirstSighting(c) \in Exceptions \ T
<1>1. Cardinality(T \intersect Sightings(c)) = Take(c) /\ T \intersect Sightings(c) \subseteq Later(c)
  BY DEF TestSets
<1>2. Sightings(c) # {} /\ IsFiniteSet(Sightings(c))
  BY SplitFinite, FS_EmptySet
<1>3. FirstSighting(c) \in Sightings(c)
  BY <1>2, FirstIsSeen
<1>4. FirstSighting(c) \notin T
  BY <1>1, <1>3 DEF Later
<1>5. Later(c) # {}
  <2>1. Cardinality(Sightings(c) \ {FirstSighting(c)}) = Cardinality(Sightings(c)) - 1
    BY <1>2, <1>3, FS_RemoveElement
  <2>2. Cardinality(Later(c)) > 0
    BY <1>2, <2>1, FS_CardinalityType DEF Later
  <2> QED
    BY <2>2, FS_EmptySet
<1>6. Take(c) >= 1
  BY <1>5, TakeIsSome
<1>7. T \intersect Sightings(c) # {}
  BY <1>1, <1>6, FS_EmptySet
<1> QED
  BY <1>3, <1>4, <1>7, SplitFinite

----------------------------------------------------------------------------
(* The places of the kinds. *)

LEMMA Dividing ==
  ASSUME NEW x \in Nat, NEW n \in Nat \ {0}
  PROVE x = n * (x \div n) + (x % n) /\ x % n \in 0..(n - 1) /\ x \div n \in Nat
OBVIOUS

\* Of m in n, s places in n give m no more than itself, and one more only if s falls short of n.
LEMMA ShareFits ==
  ASSUME NEW n \in Nat \ {0}, NEW m \in Nat, NEW s \in 0..n, NEW q \in Nat, NEW f \in 0..(n - 1),
         m * s = n * q + f
  PROVE q <= m /\ (s < n /\ m > 0 => q < m) /\ (s = n => f = 0)
OBVIOUS

LEMMA QuotientFits ==
  ASSUME NEW n \in Nat \ {0}, NEW r \in Int, NEW k \in Nat, n * r >= 0, n * r <= n * k
  PROVE r \in 0..k
OBVIOUS

\* A kind has its cases, its floor and its fraction.
LEMMA KindCounts ==
  ASSUME NEW k \in Kinds
  PROVE /\ Cardinality(Others) \in Nat \ {0} /\ Cardinality(OfKind(k)) \in Nat \ {0}
        /\ Slots \in 0..Cardinality(Others)
        /\ Floor(k) \in Nat /\ Fraction(k) \in 0..(Cardinality(Others) - 1)
        /\ Cardinality(OfKind(k)) * Slots = Cardinality(Others) * Floor(k) + Fraction(k)
        /\ Min(OfKind(k)) \in OfKind(k) /\ \A s \in OfKind(k) : Min(OfKind(k)) <= s
<1>1. OfKind(k) # {} /\ OfKind(k) \subseteq Others /\ OfKind(k) \subseteq Nat
  BY SplitFinite DEF Kinds, OfKind, Others, Exceptions
<1>2. Cardinality(Others) \in Nat \ {0} /\ Cardinality(OfKind(k)) \in Nat \ {0}
  <2>1. Others # {} /\ IsFiniteSet(Others) /\ IsFiniteSet(OfKind(k))
    BY <1>1, SplitFinite
  <2> QED
    BY <1>1, <2>1, FS_EmptySet, FS_CardinalityType
<1>3. Slots \in 0..Cardinality(Others) /\ Slots \in Nat
  BY <1>2, SlotsAssumption
<1>4. Cardinality(OfKind(k)) * Slots \in Nat
  BY <1>2, <1>3
<1>5. /\ Floor(k) \in Nat /\ Fraction(k) \in 0..(Cardinality(Others) - 1)
      /\ Cardinality(OfKind(k)) * Slots = Cardinality(Others) * Floor(k) + Fraction(k)
  BY <1>2, <1>4, Dividing DEF Floor, Fraction
<1>6. \E x \in OfKind(k) : \A s \in OfKind(k) : x <= s
  BY <1>1, LeastNatural
<1>7. Min(OfKind(k)) \in OfKind(k) /\ \A s \in OfKind(k) : Min(OfKind(k)) <= s
  BY <1>6 DEF Min
<1> QED
  BY <1>2, <1>3, <1>5, <1>7

AheadPairs == {p \in Kinds \X Kinds : Ahead(p[1], p[2])}

\* The kinds stand in one order: by fraction, then by their first case.
LEMMA KindsAreOrdered == IsLinear(AheadPairs, Kinds)
<1>1. \A k \in Kinds : Fraction(k) \in Nat /\ Min(OfKind(k)) \in Nat /\ Min(OfKind(k)) \in OfKind(k)
  <2> SUFFICES ASSUME NEW k \in Kinds
               PROVE Fraction(k) \in Nat /\ Min(OfKind(k)) \in Nat /\ Min(OfKind(k)) \in OfKind(k)
    OBVIOUS
  <2>1. Fraction(k) \in Nat /\ Min(OfKind(k)) \in OfKind(k)
    BY KindCounts
  <2> QED
    BY <2>1, SplitFinite DEF OfKind, Others, Exceptions
<1>2. \A k, l \in Kinds : Min(OfKind(k)) = Min(OfKind(l)) => k = l
  BY <1>1 DEF OfKind
<1>3. \A k, l \in Kinds : <<k, l>> \in AheadPairs <=> Ahead(k, l)
  BY DEF AheadPairs
<1>4. \A k \in Kinds : ~Ahead(k, k)
  BY <1>1 DEF Ahead
<1>5. \A k, l, m \in Kinds : Ahead(k, l) /\ Ahead(l, m) => Ahead(k, m)
  BY <1>1 DEF Ahead
<1>6. \A k, l \in Kinds : k # l => Ahead(k, l) \/ Ahead(l, k)
  BY <1>1, <1>2 DEF Ahead
<1> QED
  BY <1>3, <1>4, <1>5, <1>6 DEF IsLinear

FloorOf == [k \in Kinds |-> Floor(k)]
FractionOf == [k \in Kinds |-> Fraction(k)]

\* What rounding down leaves over is no more than one place for each kind.
LEMMA RemainderFits == Remainder \in 0..Cardinality(Kinds) /\ Remainder = Slots - SumFunctionOnSet(FloorOf, Kinds)
<1> DEFINE N == Cardinality(Others)
           size == [k \in Kinds |-> Cardinality(OfKind(k))]
           share == [k \in Kinds |-> size[k] * Slots]
           whole == [k \in Kinds |-> FloorOf[k] * N]
           most == [k \in Kinds |-> 1]
           mostOf == [k \in Kinds |-> most[k] * N]
<1>1. Remainder = Slots - SumFunctionOnSet(FloorOf, Kinds)
  BY DEF Remainder, SumFunction, FloorOf
<1>2. N \in Nat /\ Slots \in 0..N
  BY SplitFinite, FS_CardinalityType, SlotsAssumption
<1>3. CASE Kinds = {}
  <2>1. Others = {}
    BY <1>3 DEF Kinds
  <2> QED
    BY <1>1, <1>2, <1>3, <2>1, SumOfNone, FS_EmptySet
<1>4. CASE Kinds # {}
  <2>1. N \in Nat \ {0}
    BY <1>4, KindCounts
  <2>2. N = SumFunctionOnSet(size, Kinds)
    <3> DEFINE class == [s \in Others |-> Dataset[s].kind]
    <3>1. \A s \in Others : class[s] \in Kinds
      BY DEF Kinds
    <3>2. \A k \in Kinds : size[k] = Cardinality(OfClass(Others, class, k))
      <4>1. \A k \in Kinds : OfKind(k) = OfClass(Others, class, k)
        BY DEF OfKind, OfClass
      <4> QED
        BY <4>1
    <3>3. IsFiniteSet(Others) /\ IsFiniteSet(Kinds)
      BY SplitFinite
    <3> HIDE DEF class, size
    <3>4. Cardinality(Others) = SumFunctionOnSet(size, Kinds)
      BY ONLY <3>1, <3>2, <3>3, CountByClass
    <3> QED
      BY <3>4
  <2>3. \A k \in Kinds : /\ size[k] \in Nat /\ FloorOf[k] \in Nat /\ FractionOf[k] \in 0..(N - 1)
                         /\ size[k] * Slots = N * FloorOf[k] + FractionOf[k]
    BY KindCounts DEF FloorOf, FractionOf
  <2>4. SumFunctionOnSet(share, Kinds) = N * Slots
    <3>1. \A k \in Kinds : size[k] \in Int /\ share[k] = size[k] * Slots
      BY <2>3
    <3>2. Slots \in Int
      BY <1>2
    <3> HIDE DEF size, share, N
    <3> QED
      BY <2>2, <3>1, <3>2, SplitFinite, SumScaled
  <2>5. SumFunctionOnSet(whole, Kinds) = SumFunctionOnSet(FloorOf, Kinds) * N
    <3>1. \A k \in Kinds : FloorOf[k] \in Int /\ whole[k] = FloorOf[k] * N
      BY <2>3
    <3>2. N \in Int
      BY <1>2
    <3> HIDE DEF whole, N
    <3> QED
      BY <3>1, <3>2, SplitFinite, SumScaled
  <2>6. SumFunctionOnSet(share, Kinds)
          = SumFunctionOnSet(whole, Kinds) + SumFunctionOnSet(FractionOf, Kinds)
    <3>1. \A k \in Kinds : /\ whole[k] \in Int /\ FractionOf[k] \in Int
                           /\ share[k] = whole[k] + FractionOf[k]
      <4> SUFFICES ASSUME NEW k \in Kinds
                   PROVE /\ whole[k] \in Int /\ FractionOf[k] \in Int
                         /\ share[k] = whole[k] + FractionOf[k]
        OBVIOUS
      <4>1. whole[k] = FloorOf[k] * N /\ share[k] = size[k] * Slots
        OBVIOUS
      <4>2. /\ FloorOf[k] \in Nat /\ FractionOf[k] \in 0..(N - 1)
            /\ size[k] * Slots = N * FloorOf[k] + FractionOf[k]
        BY <2>3
      <4> HIDE DEF whole, share, N, size
      <4> QED
        BY <1>2, <4>1, <4>2
    <3> HIDE DEF whole, share
    <3> QED
      BY <3>1, SplitFinite, SumOfTwo
  <2>7. SumFunctionOnSet(FractionOf, Kinds) \in Nat
    <3>1. \A k \in Kinds : FractionOf[k] \in Nat
      BY <2>3
    <3> QED
      BY <3>1, SplitFinite, SumOfPart
  <2>8. SumFunctionOnSet(FractionOf, Kinds) <= N * Cardinality(Kinds)
    <3>1. \A k \in Kinds : FractionOf[k] \in Int /\ mostOf[k] \in Int /\ FractionOf[k] <= mostOf[k]
      BY <1>2, <2>3
    <3>2. SumFunctionOnSet(most, Kinds) = Cardinality(Kinds) /\ Cardinality(Kinds) \in Nat
      <4>1. \A k \in Kinds : most[k] = 1
        OBVIOUS
      <4> HIDE DEF most
      <4> QED
        BY <4>1, SplitFinite, SumOfOnes
    <3>3. SumFunctionOnSet(mostOf, Kinds) = SumFunctionOnSet(most, Kinds) * N
      <4>1. \A k \in Kinds : most[k] \in Int /\ mostOf[k] = most[k] * N
        OBVIOUS
      <4>2. N \in Int
        BY <1>2
      <4> HIDE DEF most, mostOf, N
      <4> QED
        BY <4>1, <4>2, SplitFinite, SumScaled
    <3>4. SumFunctionOnSet(FractionOf, Kinds) <= SumFunctionOnSet(mostOf, Kinds)
      <4> HIDE DEF mostOf
      <4> QED
        BY <3>1, SplitFinite, SumIsMonotone
    <3> HIDE DEF N, mostOf, most
    <3> QED
      BY <1>2, <3>2, <3>3, <3>4
  <2>9. SumFunctionOnSet(FloorOf, Kinds) \in Int /\ Cardinality(Kinds) \in Nat
    <3>1. \A k \in Kinds : FloorOf[k] \in Int
      BY <2>3
    <3> QED
      BY <3>1, SplitFinite, SumIsInt, FS_CardinalityType
  <2>10. N * Remainder = SumFunctionOnSet(FractionOf, Kinds) /\ Remainder \in Int
    <3> HIDE DEF N, share, whole
    <3>1. N * Slots = SumFunctionOnSet(FloorOf, Kinds) * N + SumFunctionOnSet(FractionOf, Kinds)
      BY <2>4, <2>5, <2>6
    <3>2. Slots \in Int
      BY <1>2
    <3> QED
      BY <1>1, <2>1, <2>7, <2>9, <3>1, <3>2
  <2>11. Remainder \in 0..Cardinality(Kinds)
    <3> HIDE DEF N
    <3> QED
      BY <2>1, <2>7, <2>8, <2>9, <2>10, QuotientFits
  <2> QED
    BY <1>1, <2>11
<1> QED
  BY <1>3, <1>4

PlacesOf == [k \in Kinds |-> Places(k)]

\* No kind gets more places than it has cases.
LEMMA PlacesFit ==
  ASSUME NEW k \in Kinds
  PROVE Places(k) \in Nat /\ Places(k) <= Cardinality(OfKind(k))
<1>1. /\ Cardinality(Others) \in Nat \ {0} /\ Cardinality(OfKind(k)) \in Nat \ {0}
      /\ Slots \in 0..Cardinality(Others) /\ Floor(k) \in Nat
  BY KindCounts
<1>2. /\ Floor(k) <= Cardinality(OfKind(k))
      /\ Slots < Cardinality(Others) => Floor(k) < Cardinality(OfKind(k))
  <2> DEFINE N == Cardinality(Others)
             m == Cardinality(OfKind(k))
  <2>1. Fraction(k) \in 0..(N - 1) /\ m * Slots = N * Floor(k) + Fraction(k)
    BY KindCounts
  <2>2. N \in Nat \ {0} /\ m \in Nat /\ m > 0 /\ Slots \in 0..N
    BY <1>1
  <2> HIDE DEF N, m
  <2>3. Floor(k) <= m /\ (Slots < N /\ m > 0 => Floor(k) < m)
    BY ONLY <1>1, <2>1, <2>2, ShareFits
  <2> QED
    BY <2>2, <2>3 DEF N, m
<1>3. Places(k) = Floor(k) + 1 => Slots < Cardinality(Others)
  <2> SUFFICES ASSUME Slots = Cardinality(Others), Places(k) = Floor(k) + 1 PROVE FALSE
    BY <1>1
  <2>1. \A l \in Kinds : Fraction(l) = 0 /\ Floor(l) = Cardinality(OfKind(l))
    <3> SUFFICES ASSUME NEW l \in Kinds PROVE Fraction(l) = 0 /\ Floor(l) = Cardinality(OfKind(l))
      OBVIOUS
    <3> DEFINE N == Cardinality(Others)
               m == Cardinality(OfKind(l))
    <3>1. /\ N \in Nat \ {0} /\ m \in Nat /\ Floor(l) \in Nat /\ Fraction(l) \in 0..(N - 1)
          /\ m * Slots = N * Floor(l) + Fraction(l) /\ Slots \in 0..N /\ Slots = N
      BY KindCounts
    <3> HIDE DEF N, m
    <3>2. Fraction(l) = 0
      BY ONLY <3>1, ShareFits
    <3>3. N * m = N * Floor(l)
      BY ONLY <3>1, <3>2
    <3>4. m = Floor(l)
      BY ONLY <3>1, <3>3
    <3> QED
      BY <3>2, <3>4 DEF m
  <2>2. SumFunctionOnSet(FloorOf, Kinds) = Cardinality(Others)
    <3> DEFINE class == [s \in Others |-> Dataset[s].kind]
    <3>1. \A s \in Others : class[s] \in Kinds
      BY DEF Kinds
    <3>2. \A l \in Kinds : OfKind(l) = OfClass(Others, class, l)
      BY DEF OfKind, OfClass
    <3>3. \A l \in Kinds : FloorOf[l] = Cardinality(OfClass(Others, class, l))
      BY <2>1, <3>2 DEF FloorOf
    <3>4. IsFiniteSet(Others) /\ IsFiniteSet(Kinds)
      BY SplitFinite
    <3> HIDE DEF class
    <3> QED
      BY ONLY <3>1, <3>3, <3>4, CountByClass
  <2>3. Remainder = 0
    BY <1>1, <2>2, RemainderFits
  <2>4. Cardinality({l \in Kinds \ {k} : Ahead(l, k)}) \in Nat
    <3>1. {l \in Kinds \ {k} : Ahead(l, k)} \in SUBSET Kinds
      OBVIOUS
    <3> QED
      BY <3>1, SplitFinite, FS_Subset, FS_CardinalityType
  <2> QED
    BY <1>1, <2>3, <2>4 DEF Places
<1>4. Places(k) = Floor(k) \/ Places(k) = Floor(k) + 1
  BY <1>1 DEF Places
<1> QED
  BY <1>1, <1>2, <1>3, <1>4

\* The kinds get all the places there are for them.
LEMMA AllPlacesGiven == SumFunctionOnSet(PlacesOf, Kinds) = Slots
<1> DEFINE extra == [k \in Kinds |-> Places(k) - Floor(k)]
           lucky == FirstIn(AheadPairs, Kinds, Remainder)
           luck == [k \in lucky |-> 1]
<1>1. \A k \in Kinds : Floor(k) \in Nat /\ Places(k) \in Nat
  BY KindCounts, PlacesFit
<1>2. \A k \in Kinds : BeforeIn(AheadPairs, Kinds, k) = {l \in Kinds \ {k} : Ahead(l, k)}
  BY KindsAreOrdered DEF BeforeIn, AheadPairs, IsLinear
<1>3. \A k \in Kinds : extra[k] = IF k \in lucky THEN 1 ELSE 0
  <2> SUFFICES ASSUME NEW k \in Kinds PROVE extra[k] = IF k \in lucky THEN 1 ELSE 0
    OBVIOUS
  <2>1. k \in lucky <=> Cardinality({l \in Kinds \ {k} : Ahead(l, k)}) < Remainder
    BY <1>2 DEF FirstIn
  <2> HIDE DEF lucky
  <2> QED
    BY <1>1, <2>1 DEF Places
<1>4. lucky \in SUBSET Kinds /\ IsFiniteSet(lucky) /\ Cardinality(lucky) = Remainder
  <2>1. lucky \in SUBSET Kinds
    BY DEF FirstIn
  <2>2. Cardinality(lucky) = Remainder
    BY KindsAreOrdered, RemainderFits, SplitFinite, TheFirst
  <2> HIDE DEF lucky
  <2> QED
    BY <2>1, <2>2, SplitFinite, FS_Subset
<1>5. SumFunctionOnSet(extra, Kinds) = Remainder
  <2> HIDE DEF extra, lucky
  <2>1. SumFunctionOnSet(extra, lucky) = Cardinality(lucky)
    BY <1>3, <1>4, SumOfOnes
  <2>2. SumFunctionOnSet(extra, Kinds \ lucky) = 0
    <3>1. IsFiniteSet(Kinds \ lucky) /\ \A k \in Kinds \ lucky : extra[k] = 0
      BY <1>3, SplitFinite, FS_Subset
    <3> QED
      BY <3>1, SumOfZeros
  <2>3. SumFunctionOnSet(extra, lucky \union (Kinds \ lucky))
          = SumFunctionOnSet(extra, lucky) + SumFunctionOnSet(extra, Kinds \ lucky)
    <3>1. IsFiniteSet(lucky) /\ IsFiniteSet(Kinds \ lucky) /\ lucky \intersect (Kinds \ lucky) = {}
      BY <1>4, SplitFinite, FS_Subset
    <3>2. \A k \in lucky \union (Kinds \ lucky) : extra[k] \in Int
      BY <1>3, <1>4
    <3> QED
      BY ONLY <3>1, <3>2, SumOfUnion
  <2>4. lucky \union (Kinds \ lucky) = Kinds
    BY <1>4
  <2>5. Remainder \in Int
    BY RemainderFits, SplitFinite, FS_CardinalityType
  <2> QED
    BY <1>4, <2>1, <2>2, <2>3, <2>4, <2>5
<1>6. SumFunctionOnSet(PlacesOf, Kinds)
        = SumFunctionOnSet(FloorOf, Kinds) + SumFunctionOnSet(extra, Kinds)
  <2>1. \A k \in Kinds : /\ FloorOf[k] \in Int /\ extra[k] \in Int
                         /\ PlacesOf[k] = FloorOf[k] + extra[k]
    BY <1>1 DEF FloorOf, PlacesOf
  <2> HIDE DEF extra
  <2> QED
    BY <2>1, SplitFinite, SumOfTwo
<1>7. SumFunctionOnSet(FloorOf, Kinds) \in Int /\ Slots \in Int
  <2>1. \A k \in Kinds : FloorOf[k] \in Int
    BY <1>1 DEF FloorOf
  <2> QED
    BY <2>1, SplitFinite, SumIsInt, SlotsAssumption, FS_CardinalityType
<1> HIDE DEF extra
<1> QED
  BY <1>5, <1>6, <1>7, RemainderFits

\* A test set has the size it is meant to have.
LEMMA TestSetSized ==
  ASSUME NEW T \in TestSets
  PROVE Cardinality(T) = TestSetSize /\ T \subseteq Exceptions
<1> DEFINE known == T \ Others
           other == T \intersect Others
           take == [c \in Customers |-> Take(c)]
           byCustomer == [s \in T |-> Dataset[s].customer]
           byKind == [s \in T |-> Dataset[s].kind]
<1>1. /\ T \subseteq Exceptions
      /\ \A c \in Customers : Cardinality(T \intersect Sightings(c)) = Take(c)
      /\ \A k \in Kinds : Cardinality(T \intersect OfKind(k)) = Min({Places(k), Cardinality(OfKind(k))})
  BY DEF TestSets
<1>2. IsFiniteSet(T) /\ IsFiniteSet(known) /\ IsFiniteSet(other)
  <2>1. IsFiniteSet(T)
    BY <1>1, SplitFinite, FS_Subset
  <2> QED
    BY <2>1, FS_Subset
<1>3. Cardinality(known) = Taken
  <2>1. \A s \in known : byCustomer[s] \in Customers
    BY <1>1 DEF Customers, Others
  <2>2. \A c \in Customers : T \intersect Sightings(c) = OfClass(known, byCustomer, c)
    BY <1>1 DEF Sightings, OfClass, Others, Customers
  <2>3. \A c \in Customers : take[c] = Cardinality(OfClass(known, byCustomer, c))
    BY <1>1, <2>2
  <2>4. IsFiniteSet(Customers)
    BY SplitFinite
  <2> HIDE DEF known, byCustomer, take
  <2>5. Cardinality(known) = SumFunctionOnSet(take, Customers)
    BY ONLY <1>2, <2>1, <2>3, <2>4, CountByClass
  <2> QED
    BY <2>5 DEF Taken, SumFunction, take
<1>4. Cardinality(other) = Slots
  <2>1. \A s \in other : byKind[s] \in Kinds
    BY DEF Kinds
  <2>2. \A k \in Kinds : T \intersect OfKind(k) = OfClass(other, byKind, k)
    BY DEF OfKind, OfClass
  <2>3. \A k \in Kinds : PlacesOf[k] = Cardinality(OfClass(other, byKind, k))
    <3> SUFFICES ASSUME NEW k \in Kinds PROVE Places(k) = Cardinality(T \intersect OfKind(k))
      BY <2>2 DEF PlacesOf
    <3>1. Places(k) \in Nat /\ Cardinality(OfKind(k)) \in Nat /\ Places(k) <= Cardinality(OfKind(k))
      BY PlacesFit, KindCounts
    <3>2. Min({Places(k), Cardinality(OfKind(k))}) = Places(k)
      BY <3>1 DEF Min
    <3> QED
      BY <1>1, <3>2
  <2>4. IsFiniteSet(Kinds)
    BY SplitFinite
  <2> HIDE DEF other, byKind
  <2>5. Cardinality(other) = SumFunctionOnSet(PlacesOf, Kinds)
    BY ONLY <1>2, <2>1, <2>3, <2>4, CountByClass
  <2> QED
    BY <2>5, AllPlacesGiven
<1>5. Cardinality(known \union other) = Cardinality(known) + Cardinality(other)
  <2>1. known \intersect other = {}
    OBVIOUS
  <2>2. Cardinality(known \intersect other) = 0
    BY <2>1, FS_EmptySet
  <2> HIDE DEF known, other
  <2>3. Cardinality(known \union other) =
          Cardinality(known) + Cardinality(other) - Cardinality(known \intersect other)
    BY <1>2, FS_Union
  <2>4. Cardinality(known) \in Nat /\ Cardinality(other) \in Nat
    BY <1>2, FS_CardinalityType
  <2> QED
    BY <2>2, <2>3, <2>4
<1>6. known \union other = T
  OBVIOUS
<1>7. Taken \in Int /\ TestSetSize \in Nat
  BY <1>2, <1>3, FS_CardinalityType, SplitAssumption
<1> HIDE DEF known, other
<1> QED
  BY <1>1, <1>3, <1>4, <1>5, <1>6, <1>7 DEF Slots

\* The cases of a replay are the held-out ones, and no others.
LEMMA CasesAreHeld ==
  ASSUME held \in SUBSET Scenario, job.kind = "replay", cases = Cases
  PROVE {cases[c] : c \in DOMAIN cases} = held
<1>1. FileOrder \in Seq(Scenario) /\ DOMAIN FileOrder = Scenario /\ \A s \in Scenario : FileOrder[s] = s
  BY SplitAssumption DEF FileOrder, Scenario
<1>2. cases = Filtered(FileOrder, held)
  BY DEF Cases
<1>3. /\ cases \in Seq(held \intersect Scenario)
      /\ \A s \in DOMAIN FileOrder : FileOrder[s] \in held => \E c \in DOMAIN cases : cases[c] = FileOrder[s]
  BY <1>1, <1>2, FilteredHolds
<1>4. \A c \in DOMAIN cases : cases[c] \in held
  BY <1>3
<1> QED
  BY <1>1, <1>3, <1>4

\* The whole pool is worked where there is no limit.
LEMMA PoolIsWorked ==
  ASSUME held \in SUBSET Exceptions, job.kind = "replay", job.limit = 0, ordered = Ordered, NEW s \in Pool
  PROVE \E i \in Positions : ordered[i] = s
<1>1. Shuffle \in Seq(Scenario) /\ \E i \in DOMAIN Shuffle : Shuffle[i] = s
  BY ExperimentAssumption DEF Pool, Exceptions
<1>2. ordered = Filtered(Shuffle, Pool)
  BY DEF Ordered, Limited, DepositOrder
<1>3. /\ ordered \in Seq(Pool \intersect Scenario)
      /\ \A i \in DOMAIN Shuffle : Shuffle[i] \in Pool => \E n \in DOMAIN ordered : ordered[n] = Shuffle[i]
  <2> DEFINE pool == Pool
  <2>1. ordered = Filtered(Shuffle, pool)
    BY <1>2
  <2> HIDE DEF pool
  <2>2. /\ ordered \in Seq(pool \intersect Scenario)
        /\ \A i \in DOMAIN Shuffle : Shuffle[i] \in pool => \E n \in DOMAIN ordered : ordered[n] = Shuffle[i]
    BY <1>1, <2>1, FilteredHolds
  <2> QED
    BY <2>2 DEF pool
<1> QED
  BY <1>1, <1>3 DEF Positions

\* For every dataset whose customers leave places enough, a curve over the whole pool is
\* measured on as many cases as it is meant to be, a later sighting of every customer who came
\* back among them, with their first sighting worked for the corpus.
THEOREM CustomersOnBothSidesOfACurve == Spec => []CustomersAreLearnable
<1>1. IInv => CustomersAreLearnable
  <2> SUFFICES ASSUME IInv, phase = "written", job.kind = "replay", job.limit = 0
               PROVE /\ Cardinality(DOMAIN results[1].hits) = TestSetSize
                     /\ \A c \in Customers :
                          Cardinality(Sightings(c)) > 1 =>
                            /\ Sightings(c) \intersect DOMAIN results[1].hits # {}
                            /\ \E i \in Positions : ordered[i] = FirstSighting(c)
    BY DEF CustomersAreLearnable
  <2>1. held \in TestSets /\ ordered = Ordered /\ cases = Cases
    BY DEF IInv, TypeOK
  <2>2. Cardinality(held) = TestSetSize /\ held \subseteq Exceptions
    BY <2>1, TestSetSized
  <2>3. 1 \in DOMAIN results
    <3>1. Len(results) = arm - 1 /\ arm = Len(Plan) + 1 /\ Plan # <<>> /\ results \in Seq(UNION {Measured(a) : a \in DOMAIN Plan})
      BY DEF IInv, ResultsFit
    <3>2. Len(Plan) \in Nat \ {0}
      BY <3>1, PlanTypes, EmptySeq DEF IInv, TypeOK
    <3>3. DOMAIN results = 1..Len(results) /\ Len(results) = Len(Plan)
      BY <3>1, <3>2, LenProperties
    <3> QED
      BY <3>2, <3>3
  <2>4. DOMAIN results[1].hits = {cases[c] : c \in DOMAIN cases}
    BY <2>3, ResultOfArm
  <2>5. DOMAIN results[1].hits = held
    BY <2>1, <2>2, <2>4, CasesAreHeld DEF Exceptions
  <2>6. ASSUME NEW c \in Customers, Cardinality(Sightings(c)) > 1
        PROVE /\ Sightings(c) \intersect held # {}
              /\ \E i \in Positions : ordered[i] = FirstSighting(c)
    <3>1. held \intersect Sightings(c) # {} /\ FirstSighting(c) \in Pool
      BY <2>1, <2>6, CustomersOnBothSides DEF Pool
    <3> QED
      BY <2>1, <2>2, <3>1, PoolIsWorked
  <2> QED
    BY <2>2, <2>5, <2>6
<1> QED
  BY <1>1, InductiveInvariant, PTL
=============================================================================
