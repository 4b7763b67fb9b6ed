---------------------------- MODULE MCExperiment ----------------------------
(***************************************************************************)
(* Five exceptions, two of them sightings of one customer, two of a kind;  *)
(* two are held out and three worked by two threads.                       *)
(***************************************************************************)
EXTENDS Experiment

Case(kind, customer, occurrence) ==
  [exception |-> TRUE, kind |-> kind, customer |-> customer, occurrence |-> occurrence]

MCDataset ==
  <<Case("split_payment", NoCustomer, 0), Case("negotiated_rebate", "Kavery", 2),
    [Case("clean_match", NoCustomer, 0) EXCEPT !.exception = FALSE],
    Case("negotiated_rebate", "Kavery", 1), Case("unmatchable", NoCustomer, 0),
    Case("split_payment", NoCustomer, 0)>>

MCShuffle == <<6, 2, 1, 4, 3, 5>>

MCSeeds == {-1}

\* A precedent shares terms with the cases of its kind, and the seed with none.
MCRelevance ==
  [p \in MCSeeds \union DOMAIN MCDataset |->
     [s \in DOMAIN MCDataset |->
        IF p \in DOMAIN MCDataset /\ MCDataset[p].kind = MCDataset[s].kind THEN 1 ELSE 0]]

\* A reviewed replay of two cases, the second declined, started twice with its one snapshot out
\* of reach; runs of the other kinds, with a limit and without.
MCJobs ==
  {[kind |-> "replay", reviewed |-> TRUE, snapshots |-> <<3>>, limit |-> 2, runs |-> 2],
   [kind |-> "replay", reviewed |-> TRUE, snapshots |-> <<0, 1>>, limit |-> 1, runs |-> 1],
   [kind |-> "replay", reviewed |-> FALSE, snapshots |-> <<1, 3>>, limit |-> 0, runs |-> 1],
   [kind |-> "ablation", reviewed |-> FALSE, snapshots |-> <<>>, limit |-> 0, runs |-> 2],
   [kind |-> "ablation", reviewed |-> FALSE, snapshots |-> <<>>, limit |-> 1, runs |-> 1]}
=============================================================================
