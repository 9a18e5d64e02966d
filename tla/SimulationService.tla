------------------------- MODULE SimulationService -------------------------
(***************************************************************************)
(* The in-memory job service of src/src/service.rs: a table of jobs behind *)
(* one mutex, a task per job that waits at a semaphore and runs the        *)
(* simulation in a blocking thread, a cancellation token per job that is   *)
(* read outside the mutex, and a broadcast channel per job from which      *)
(* WebSocket streams are fed.                                              *)
(*                                                                         *)
(* A critical section of the mutex is one step; so is every read of a      *)
(* token outside it.  A snapshot is its status: all writers set result and *)
(* error together with it.                                                 *)
(***************************************************************************)
EXTENDS Integers, Sequences, FiniteSets

CONSTANTS
  MaxJobs,        \* bound: ids that next_job hands out
  Streams,        \* WebSocket connections to /events
  MaxRetained,    \* limits.max_retained_jobs
  MaxConcurrent,  \* limits.max_concurrent_jobs
  Capacity,       \* JOB_EVENT_CAPACITY
  None

\* ServiceLimits::validate; the channel's capacity is a positive constant.
ASSUME LimitsAssumption ==
  /\ MaxJobs \in Nat
  /\ MaxRetained \in Nat \ {0}
  /\ MaxConcurrent \in 1..MaxRetained
  /\ Capacity \in Nat \ {0}

Jobs == 1..MaxJobs
Terminal == {"succeeded", "failed", "cancelled"}
Status == {"queued", "running", "cancelling"} \cup Terminal

ASSUME NoneAssumption == None \notin Status /\ None \notin Jobs

\* What spawn_blocking returns: a result, an engine error, an engine error with
\* the code of a cancellation, or a JoinError because the engine panicked.
Outcomes == {"ok", "error", "cancelled", "panic"}

TaskPC == {"none", "refused", "acquire", "check", "finish_early", "drop_early",
           "start", "execute", "release", "recheck", "finish", "done"}
StreamPC == {"none", "first", "recv", "send", "ended"}

VARIABLES
  entry,      \* entry[j]: status in the job table, None if not in the table
  cancelled,  \* cancelled[j]: the token of j is cancelled
  pc, out,    \* run_job of j: control, outcome of the simulation
  permits,    \* free permits of the gate
  spc, sjob,  \* stream: control, job
  inbox, lag, \* its receiver: events not yet read (the newest Capacity of
              \* them), and whether older ones were overwritten
  event,      \* the snapshot it is about to send
  seen,       \* the last snapshot its client was sent
  lost        \* the client went away

tvars == <<entry, cancelled, pc, out, permits>>
svars == <<spc, sjob, event, seen, lost>>
vars == <<tvars, svars, inbox, lag>>

Table == {j \in Jobs : entry[j] # None}
IsTerminal(j) == entry[j] \in Terminal
Listening(s, j) == spc[s] \in {"first", "recv", "send"} /\ sjob[s] = j

\* publish: every receiver of j's channel gets e; a full one loses its oldest.
Publish(j, e) ==
  /\ inbox' = [s \in Streams |->
       IF ~Listening(s, j) THEN inbox[s]
       ELSE IF Len(inbox[s]) < Capacity THEN Append(inbox[s], e)
       ELSE Append(Tail(inbox[s]), e)]
  /\ lag' = [s \in Streams |->
       lag[s] \/ (Listening(s, j) /\ Len(inbox[s]) = Capacity)]

Unpublished == UNCHANGED <<inbox, lag>>

\* Nothing happens to a job that is not in the table.
SetStatus(j, st) ==
  IF entry[j] = None THEN UNCHANGED entry /\ Unpublished
  ELSE entry' = [entry EXCEPT ![j] = st] /\ Publish(j, st)

Task(j, from, to) == pc[j] = from /\ pc' = [pc EXCEPT ![j] = to]

Stream(s, from, to) == spc[s] = from /\ spc' = [spc EXCEPT ![s] = to]

-----------------------------------------------------------------------------
(* Mutated forms of definitions below, as in ProductionRuntime. *)

\* "let _ = acquire" drops the permit at once.
AcquireDropped(j) ==
  /\ permits > 0
  /\ Task(j, "acquire", "check")
  /\ UNCHANGED <<entry, cancelled, out, permits, svars>> /\ Unpublished

\* A cancelled run returns without recording it.
RecheckForgets(j) ==
  /\ Task(j, "recheck", IF cancelled[j] THEN "done" ELSE "finish")
  /\ UNCHANGED <<entry, cancelled, out, permits, svars>> /\ Unpublished

\* finish_success does not look at the token again.
FinalStale(j) ==
  CASE out[j] = "ok" -> "succeeded"
    [] out[j] = "error" -> IF cancelled[j] THEN "cancelled" ELSE "failed"
    [] out[j] = "cancelled" -> "cancelled"
    [] out[j] = "panic" -> "failed"

\* cancel_job does not publish.
CancelSilently(j) ==
  /\ entry[j] # None /\ ~IsTerminal(j)
  /\ cancelled' = [cancelled EXCEPT ![j] = TRUE]
  /\ entry' = [entry EXCEPT ![j] = "cancelling"]
  /\ UNCHANGED <<pc, out, permits, svars>> /\ Unpublished

\* stream_job ends when its receiver has lagged.
LaggedEnds(s) ==
  /\ lag[s]
  /\ Stream(s, "recv", "ended")
  /\ lag' = [lag EXCEPT ![s] = FALSE]
  /\ UNCHANGED <<tvars, sjob, inbox, event, seen, lost>>

\* stream_job waits for events of a job that is finished already.
SendFirstAndWait(s) ==
  /\ Stream(s, "first", "recv")
  /\ seen' = [seen EXCEPT ![s] = event[s]]
  /\ UNCHANGED <<tvars, sjob, event, lost>> /\ Unpublished

-----------------------------------------------------------------------------
\* prune_terminal_jobs: the oldest finished jobs leave a full table until there
\* is room for one more.
Prunable ==
  LET finished == {j \in Table : IsTerminal(j)}
      excess == Cardinality(Table) - MaxRetained + 1
  IN {j \in finished : Cardinality({i \in finished : i < j}) < excess}

Pruned == [j \in Jobs |-> IF j \in Prunable THEN None ELSE entry[j]]

\* submit_job compares with > .
HasRoomOffByOne == Cardinality(Table \ Prunable) <= MaxRetained

-----------------------------------------------------------------------------
Init ==
  /\ entry = [j \in Jobs |-> None]
  /\ cancelled = [j \in Jobs |-> FALSE]
  /\ pc = [j \in Jobs |-> "none"]
  /\ out = [j \in Jobs |-> None]
  /\ permits = MaxConcurrent
  /\ spc = [s \in Streams |-> "none"]
  /\ sjob = [s \in Streams |-> None]
  /\ inbox = [s \in Streams |-> <<>>]
  /\ lag = [s \in Streams |-> FALSE]
  /\ event = [s \in Streams |-> None]
  /\ seen = [s \in Streams |-> None]
  /\ lost = [s \in Streams |-> FALSE]

-----------------------------------------------------------------------------
(* Requests *)

HasRoom == Cardinality(Table \ Prunable) < MaxRetained

\* submit_job.  The id is taken before the mutex, so that concurrent requests
\* may enter the table in any order of their ids.  A refused request has used
\* its id up.
Submit(j) ==
  /\ pc[j] = "none"
  /\ IF HasRoom
     THEN /\ entry' = [Pruned EXCEPT ![j] = "queued"]
          /\ pc' = [pc EXCEPT ![j] = "acquire"]
     ELSE /\ entry' = Pruned
          /\ pc' = [pc EXCEPT ![j] = "refused"]
  /\ UNCHANGED <<cancelled, out, permits, svars>> /\ Unpublished

\* cancel_job
Cancel(j) ==
  /\ entry[j] # None /\ ~IsTerminal(j)
  /\ cancelled' = [cancelled EXCEPT ![j] = TRUE]
  /\ SetStatus(j, "cancelling")
  /\ UNCHANGED <<pc, out, permits, svars>>

\* subscribe_job: snapshot and receiver are taken in one critical section.
Subscribe(s, j) ==
  /\ entry[j] # None
  /\ Stream(s, "none", "first")
  /\ sjob' = [sjob EXCEPT ![s] = j]
  /\ event' = [event EXCEPT ![s] = entry[j]]
  /\ UNCHANGED <<tvars, seen, lost>> /\ Unpublished

-----------------------------------------------------------------------------
(* run_job *)

Acquire(j) ==
  /\ permits > 0
  /\ Task(j, "acquire", "check")
  /\ permits' = permits - 1
  /\ UNCHANGED <<entry, cancelled, out, svars>> /\ Unpublished

Check(j) ==
  /\ Task(j, "check", IF cancelled[j] THEN "finish_early" ELSE "start")
  /\ UNCHANGED <<entry, cancelled, out, permits, svars>> /\ Unpublished

FinishEarly(j) ==
  /\ Task(j, "finish_early", "drop_early")
  /\ SetStatus(j, "cancelled")
  /\ UNCHANGED <<cancelled, out, permits, svars>>

DropEarly(j) ==
  /\ Task(j, "drop_early", "done")
  /\ permits' = permits + 1
  /\ UNCHANGED <<entry, cancelled, out, svars>> /\ Unpublished

\* update_status(Running), whatever the status has become since the check.
Start(j) ==
  /\ Task(j, "start", "execute")
  /\ SetStatus(j, "running")
  /\ UNCHANGED <<cancelled, out, permits, svars>>

\* The simulation may look at its token or ignore it; only a cancelled token
\* makes it report a cancellation.
Execute(j) ==
  /\ Task(j, "execute", "release")
  /\ \E o \in Outcomes :
       /\ o = "cancelled" => cancelled[j]
       /\ out' = [out EXCEPT ![j] = o]
  /\ UNCHANGED <<entry, cancelled, permits, svars>> /\ Unpublished

Release(j) ==
  /\ Task(j, "release", "recheck")
  /\ permits' = permits + 1
  /\ UNCHANGED <<entry, cancelled, out, svars>> /\ Unpublished

Recheck(j) ==
  /\ Task(j, "recheck", "finish")
  /\ out' = [out EXCEPT ![j] = IF cancelled[j] THEN "cancelled" ELSE @]
  /\ UNCHANGED <<entry, cancelled, permits, svars>> /\ Unpublished

\* finish_success and finish_simulation_failure look at the token once more,
\* in the critical section; finish_worker_failure does not.
Final(j) ==
  CASE out[j] = "ok" -> IF cancelled[j] THEN "cancelled" ELSE "succeeded"
    [] out[j] = "error" -> IF cancelled[j] THEN "cancelled" ELSE "failed"
    [] out[j] = "cancelled" -> "cancelled"
    [] out[j] = "panic" -> "failed"

Finish(j) ==
  /\ Task(j, "finish", "done")
  /\ SetStatus(j, Final(j))
  /\ UNCHANGED <<cancelled, out, permits, svars>>

-----------------------------------------------------------------------------
(* stream_job *)

Sent(s, to) ==
  /\ Stream(s, spc[s], to)
  /\ seen' = [seen EXCEPT ![s] = event[s]]
  /\ UNCHANGED <<tvars, sjob, event, lost>> /\ Unpublished

SendFirst(s) ==
  /\ spc[s] = "first"
  /\ Sent(s, IF event[s] \in Terminal THEN "ended" ELSE "recv")

Send(s) ==
  /\ spc[s] = "send"
  /\ Sent(s, IF event[s] \in Terminal THEN "ended" ELSE "recv")

\* A send fails: the client is gone.
SendFails(s) ==
  /\ spc[s] \in {"first", "send"}
  /\ Stream(s, spc[s], "ended")
  /\ lost' = [lost EXCEPT ![s] = TRUE]
  /\ UNCHANGED <<tvars, sjob, event, seen>> /\ Unpublished

\* RecvError::Lagged is reported once, then reading goes on with the oldest
\* event that is left.
Lagged(s) ==
  /\ lag[s]
  /\ Stream(s, "recv", "recv")
  /\ lag' = [lag EXCEPT ![s] = FALSE]
  /\ UNCHANGED <<tvars, sjob, inbox, event, seen, lost>>

\* The next event, or RecvError::Closed: the sender went with the table entry,
\* and all is read.
Receive(s) ==
  /\ spc[s] = "recv" /\ ~lag[s]
  /\ inbox[s] # <<>> \/ entry[sjob[s]] = None
  /\ IF inbox[s] = <<>>
     THEN Stream(s, "recv", "ended") /\ UNCHANGED <<event, inbox>>
     ELSE /\ Stream(s, "recv", "send")
          /\ event' = [event EXCEPT ![s] = Head(inbox[s])]
          /\ inbox' = [inbox EXCEPT ![s] = Tail(@)]
  /\ UNCHANGED <<tvars, sjob, lag, seen, lost>>

-----------------------------------------------------------------------------
RunJob(j) ==
  \/ Acquire(j) \/ Check(j) \/ FinishEarly(j) \/ DropEarly(j) \/ Start(j)
  \/ Execute(j) \/ Release(j) \/ Recheck(j) \/ Finish(j)

StreamJob(s) ==
  SendFirst(s) \/ Send(s) \/ SendFails(s) \/ Lagged(s) \/ Receive(s)

Request ==
  \E j \in Jobs : Submit(j) \/ Cancel(j) \/ \E s \in Streams : Subscribe(s, j)

Next ==
  \/ Request
  \/ \E j \in Jobs : RunJob(j)
  \/ \E s \in Streams : StreamJob(s)

Spec == Init /\ [][Next]_vars

\* tokio polls every task that can go on; simulations end, because the execution
\* policy bounds their time; a client reads or its connection fails.
Fairness ==
  /\ \A j \in Jobs : WF_vars(RunJob(j))
  /\ \A s \in Streams : WF_vars(StreamJob(s))

FairSpec == Spec /\ Fairness
-----------------------------------------------------------------------------
(* Types *)

\* The field types, and the bounds of the channel.
TypeOK ==
  /\ entry \in [Jobs -> Status \cup {None}]
  /\ cancelled \in [Jobs -> BOOLEAN]
  /\ pc \in [Jobs -> TaskPC]
  /\ out \in [Jobs -> Outcomes \cup {None}]
  /\ permits \in 0..MaxConcurrent
  /\ spc \in [Streams -> StreamPC]
  /\ sjob \in [Streams -> Jobs \cup {None}]
  /\ inbox \in [Streams -> Seq(Status)]
  /\ lag \in [Streams -> BOOLEAN]
  /\ event \in [Streams -> Status \cup {None}]
  /\ seen \in [Streams -> Status \cup {None}]
  /\ lost \in [Streams -> BOOLEAN]

-----------------------------------------------------------------------------
(* Safety *)

\* The tasks that hold a permit.
Holding == {"check", "finish_early", "drop_early", "start", "execute", "release"}

\* "Concurrent blocking jobs are bounded": permits are neither lost nor doubled
\* on the two ways out of run_job, so that at most max_concurrent_jobs execute.
PermitsConserved ==
  permits + Cardinality({j \in Jobs : pc[j] \in Holding}) = MaxConcurrent

\* "Retained job count is bounded": the table never holds more than
\* max_retained_jobs, whatever mix of finished and active jobs is in it.
RetentionBounded == Cardinality(Table) <= MaxRetained

\* Retention never takes away the entry of a job whose task still has to record
\* its end there, and the entry of a finished task says so.
ActiveJobsRetained ==
  \A j \in Jobs :
    /\ pc[j] \notin {"none", "refused", "drop_early", "done"} =>
         entry[j] # None /\ ~IsTerminal(j)
    /\ pc[j] \in {"drop_early", "done"} => entry[j] = None \/ IsTerminal(j)

\* Once DELETE has answered "cancelling" the job never ends as succeeded, and as
\* failed only if its engine panicked, however the token races with the end; and
\* no job ends as cancelled unasked.
CancelWins ==
  \A j \in Jobs :
    /\ cancelled[j] /\ IsTerminal(j) =>
         entry[j] = "cancelled" \/ (entry[j] = "failed" /\ out[j] = "panic")
    /\ entry[j] = "cancelled" => cancelled[j]

\* A finished job keeps its status until retention removes it, and never enters
\* the table again.
TerminalOnce ==
  [][\A j \in Jobs :
       /\ IsTerminal(j) => entry'[j] \in {entry[j], None}
       /\ (pc[j] # "none" /\ entry[j] = None) => entry'[j] = None]_vars

\* A stream that has read all its events knows the current status, and one that
\* has not will find it last in its channel: nothing happens between snapshot
\* and subscription, no change is left unpublished, no lag loses the last event.
Newest(s) ==
  IF inbox[s] # <<>> THEN inbox[s][Len(inbox[s])]
  ELSE IF spc[s] \in {"first", "send"} THEN event[s] ELSE seen[s]
StreamCaughtUp ==
  \A s \in Streams : spc[s] \in {"first", "recv", "send"} =>
    \/ Newest(s) = entry[sjob[s]]
    \/ entry[sjob[s]] = None /\ Newest(s) \in Terminal

\* "closes after a terminal event": a stream the client has not left ends with a
\* terminal snapshot sent, also if it lagged or the job was pruned meanwhile.
StreamEndsWithTerminal ==
  \A s \in Streams : spc[s] = "ended" => lost[s] \/ seen[s] \in Terminal

-----------------------------------------------------------------------------
(* Liveness *)

\* Every accepted job comes to a terminal status.
JobSettles ==
  \A j \in Jobs : pc[j] = "acquire" ~> (IsTerminal(j) \/ entry[j] = None)

\* Every stream ends.
StreamEnds == \A s \in Streams : spc[s] = "first" ~> spc[s] = "ended"
============================================================================
