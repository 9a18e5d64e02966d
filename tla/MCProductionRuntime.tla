------------------------ MODULE MCProductionRuntime ------------------------
(***************************************************************************)
(* ProductionRuntime on small instances, with the history variable that    *)
(* the drain property needs: the jobs on disk when drain() was called.     *)
(***************************************************************************)
EXTENDS ProductionRuntime, TLC

CONSTANT Batch   \* bound: jobs that are under way together

ASSUME BatchAssumption == Batch \in Nat \ {0}

VARIABLE due

MCInit == Init /\ due = {}

Unsettled == Present(queue) \cup Present(running)

\* Jobs come in batches: the first one of a batch is submitted when all jobs of
\* the last batch have left queue/ and running/, and no job of an older batch is
\* cancelled any more.
BatchOf(j) == (j - 1) \div Batch
CallsInBatches ==
  \A c \in Clients : cpc[c] = "idle" =>
    /\ (cpc'[c] = "submit_lookup" /\ BatchOf(nextId) # BatchOf(nextId - 1)) =>
         Unsettled = {}
    /\ cpc'[c] \in {"cancel_rename", "cancel_mark"} =>
         BatchOf(cjob'[c]) = BatchOf(nextId - 1)

MCNext ==
  /\ Next
  /\ CallsInBatches
  /\ due' = IF mpc = "ready" /\ mpc' = "drain" THEN Unsettled ELSE due

MCSpec == MCInit /\ [][MCNext]_<<vars, due>>

\* drain() returns only when every job that was on disk when it was called is
\* settled, although each worker stops on its own stale listing and a retry can
\* put a job back after another worker has stopped.
DrainLeavesNothingBehind ==
  mpc = "prune" => \A j \in due : ~InQueue(j) /\ ~InRunning(j)

\* Callers and workers are interchangeable; jobs are not, their ids are sorted.
Symmetry == Permutations(Workers) \cup Permutations(Clients)
============================================================================
