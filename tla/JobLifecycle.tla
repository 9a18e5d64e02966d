--------------------------- MODULE JobLifecycle ---------------------------
(***************************************************************************)
(* What the durable runtime promises about a job, without files, workers   *)
(* or callers: the states a job goes through, who may move it while the    *)
(* process is up, what a restart may do to it, and how its attempts are    *)
(* counted.  ProductionRuntime implements it.                              *)
(***************************************************************************)
EXTENDS Integers

CONSTANTS Jobs, Keys, MaxAttempts, None

Final == {"succeeded", "failed", "cancelled"}

VARIABLES
  up,     \* the process is open for callers and workers
  job,    \* job[j]: state; while queued or running also attempts and key
  cache   \* keys with a stored result

vars == <<up, job, cache>>

Live(s, n, k) == [state |-> s, attempts |-> n, key |-> k]
Ended(s) == Live(s, 0, None)

Is(j, s) == job[j].state = s
Become(j, r) == job' = [job EXCEPT ![j] = r]

Init ==
  /\ up = TRUE
  /\ job = [j \in Jobs |-> Ended("absent")]
  /\ cache = {}

Submit(j, k) ==
  /\ up /\ Is(j, "absent")
  /\ Become(j, Live("queued", 0, k))
  /\ UNCHANGED <<up, cache>>

\* A submission that finds its result is born succeeded.
SubmitCached(j, k) ==
  /\ up /\ Is(j, "absent") /\ k \in cache
  /\ Become(j, Ended("succeeded"))
  /\ UNCHANGED <<up, cache>>

Claim(j) ==
  /\ up /\ Is(j, "queued")
  /\ Become(j, Live("running", job[j].attempts + 1, job[j].key))
  /\ UNCHANGED <<up, cache>>

\* Only a job that has attempts left goes back while the process is up.
Retry(j) ==
  /\ up /\ Is(j, "running") /\ job[j].attempts < MaxAttempts
  /\ Become(j, Live("queued", job[j].attempts, job[j].key))
  /\ UNCHANGED <<up, cache>>

\* Results come only from running jobs.
StoreResult(j) ==
  /\ up /\ Is(j, "running")
  /\ cache' = cache \cup {job[j].key}
  /\ UNCHANGED <<up, job>>

Finish(j, s) ==
  /\ up /\ Is(j, "running")
  /\ s = "succeeded" => job[j].key \in cache
  /\ Become(j, Ended(s))
  /\ UNCHANGED <<up, cache>>

\* A queued job is withdrawn first and recorded as cancelled afterwards; its
\* record may be pruned in between.
Withdraw(j) ==
  /\ up /\ Is(j, "queued")
  /\ Become(j, Ended("withdrawn"))
  /\ UNCHANGED <<up, cache>>

Record(j) ==
  /\ up /\ Is(j, "withdrawn")
  /\ \E s \in {"cancelled", "absent"} : Become(j, Ended(s))
  /\ UNCHANGED <<up, cache>>

Forget(j) ==
  /\ job[j].state \in Final \cup {"stuck"}
  /\ Become(j, Ended("absent"))
  /\ UNCHANGED <<up, cache>>

\* A crash loses nothing but the cancellations being recorded: such a job is
\* stuck as withdrawn, or gone if its record was pruned.
Crash ==
  /\ up' = FALSE
  /\ \E lost \in SUBSET Jobs :
       job' = [j \in Jobs |-> IF ~Is(j, "withdrawn") THEN job[j]
                              ELSE Ended(IF j \in lost THEN "absent" ELSE "stuck")]
  /\ UNCHANGED cache

Recover(j) ==
  /\ ~up /\ Is(j, "running")
  /\ Become(j, Live("queued", job[j].attempts, job[j].key))
  /\ UNCHANGED <<up, cache>>

\* Nothing runs on behalf of the process that died.
Open ==
  /\ ~up /\ \A j \in Jobs : ~Is(j, "running")
  /\ up' = TRUE
  /\ UNCHANGED <<job, cache>>

Next ==
  \/ \E j \in Jobs :
       \/ \E k \in Keys : Submit(j, k) \/ SubmitCached(j, k)
       \/ Claim(j) \/ Retry(j) \/ StoreResult(j)
       \/ \E s \in Final : Finish(j, s)
       \/ Withdraw(j) \/ Record(j) \/ Forget(j) \/ Recover(j)
  \/ Crash \/ Open

Spec == Init /\ [][Next]_vars
============================================================================
