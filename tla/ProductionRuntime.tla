------------------------- MODULE ProductionRuntime -------------------------
(***************************************************************************)
(* The durable job runtime of src/src/runtime.rs: one process owns a root  *)
(* directory whose sub-directories queue/, running/ and terminal/ hold one *)
(* file per job.  Jobs move between them by rename; drain() runs a pool of *)
(* workers that claim, execute and settle jobs while clients submit and    *)
(* cancel.  The process may crash between any two file operations and is   *)
(* then reopened on the same root.                                         *)
(*                                                                         *)
(* Every file-system call (directory listing, existence test, read, atomic *)
(* write, rename, remove) and every critical section of the `active` lock  *)
(* is a step of its own.  write_json_atomic is one step: the temporary     *)
(* file it renames has no .json extension and no other code looks at it.   *)
(***************************************************************************)
EXTENDS Integers, FiniteSets

CONSTANTS
  Clients,      \* concurrent callers of submit and cancel
  Workers,      \* the tasks drain() spawns, max_parallel_workers of them
  Keys,         \* cache keys (ReproducibilityManifest.cache_key_sha256)
  MaxQueued,    \* limits.max_queued_jobs
  MaxRetained,  \* limits.max_retained_terminal_jobs
  MaxAttempts,  \* limits.max_attempts
  MaxJobs,      \* bound: ids that new_job_id hands out
  MaxCrashes,   \* bound: process crashes
  None          \* no file at a path, and no key or record in a local variable

\* ProductionRuntimeLimits::validate refuses a zero limit; the last conjunct
\* only says that a missing file is not mistaken for a record.
ASSUME LimitsAssumption ==
  /\ MaxQueued \in Nat \ {0}
  /\ MaxRetained \in Nat \ {0}
  /\ MaxAttempts \in Nat \ {0}
  /\ MaxJobs \in Nat
  /\ MaxCrashes \in Nat
  /\ Clients # {} /\ IsFiniteSet(Clients)
  /\ Workers # {} /\ IsFiniteSet(Workers)

Jobs == 1..MaxJobs      \* ids sort in the order new_job_id creates them
NoJob == 0

TerminalStatus == {"succeeded", "failed", "cancelled"}
Status == {"queued", "running"} \cup TerminalStatus
Record == [key : Keys, status : Status, attempts : Nat,
           result : BOOLEAN, error : BOOLEAN]

ASSUME NoneAssumption == None \notin Record /\ None \notin Keys

\* What RuntimeExecutor::execute returns: a result, a retryable engine error, an
\* error with the code of a cancellation, or another error (or a panic, which
\* run_next settles in the same way).
Outcomes == {"ok", "retryable", "cancelled", "fatal"}

ClientPC == {"idle", "submit_lookup", "submit_queue", "submit_hit", "prune",
             "prune_remove", "cancel_rename", "cancel_read", "cancel_write",
             "cancel_mark", "cancel_signal", "get_look", "get_read",
             "cancel_unmark"}
WorkerPC == {"idle", "scan", "claim", "claimed", "lookup", "register",
             "check", "execute", "unregister", "decide", "store", "publish",
             "move", "unmark", "done"}
MainPC == {"down", "recover", "recover_move", "conflict", "open_prune",
           "open_remove", "ready", "drain", "prune", "prune_remove"}

VARIABLES
  queue,     \* queue[j]    : content of queue/<j>.json
  running,   \* running[j]  : content of running/<j>.json
  terminal,  \* terminal[j] : content of terminal/<j>.json
  marker,    \* jobs with a file under cancel/
  cache,     \* keys with a result under cache/sha256/
  active,    \* in memory: active[w] iff w's token is registered for its job
  token,     \* in memory: token[w] iff the token of w's run is cancelled
  wpc, wjob, wrec, wlist, wout,  \* workers: control, claimed job, its local
                                 \* StoredJob, listing, outcome of the run
  cpc, cjob, crec, clist, cdir,  \* clients: control, job, local record, prune
                                 \* list, directory a get is looking at
  mpc, mlist,                    \* open()/drain(): control, remaining files
  nextId,                        \* next id new_job_id hands out
  crashes

files == <<queue, running, terminal>>
disk == <<files, marker, cache>>
shared == <<queue, terminal, marker, token>>    \* what clients may change
memory == <<active, token>>
wvars == <<wpc, wjob, wrec, wlist, wout>>
cvars == <<cpc, cjob, crec, clist, cdir>>
mvars == <<mpc, mlist>>
vars == <<disk, memory, wvars, cvars, mvars, nextId, crashes>>

-----------------------------------------------------------------------------
Present(dir) == {j \in Jobs : dir[j] # None}
Oldest(S) == CHOOSE j \in S : \A i \in S : j <= i
Up == mpc \in {"ready", "drain", "prune", "prune_remove"}
Paths == <<queue, running, terminal>>   \* the order in which get() looks

NewRecord(k) == [key |-> k, status |-> "queued", attempts |-> 0,
                 result |-> FALSE, error |-> FALSE]

Succeeded(r) == [r EXCEPT !.status = "succeeded", !.result = TRUE,
                          !.error = FALSE]

ClientAt(c, pc, j, r) ==
  /\ cpc' = [cpc EXCEPT ![c] = pc]
  /\ cjob' = [cjob EXCEPT ![c] = j]
  /\ crec' = [crec EXCEPT ![c] = r]

ClientReturns(c) == ClientAt(c, "idle", NoJob, None)

WorkerAt(w, pc, j, r, o) ==
  /\ wpc' = [wpc EXCEPT ![w] = pc]
  /\ wjob' = [wjob EXCEPT ![w] = j]
  /\ wrec' = [wrec EXCEPT ![w] = r]
  /\ wout' = [wout EXCEPT ![w] = o]

\* run_next returned Ok(true): the worker calls it again.
WorkerAgain(w) == WorkerAt(w, "scan", NoJob, None, "none")

-----------------------------------------------------------------------------
(* Mutated forms of definitions below: plausible mistakes that the          *)
(* properties have to notice.  No specification uses them.                  *)

\* claim_next copies the file instead of renaming it.
ClaimCopy(w) ==
  LET j == Oldest(wlist[w]) IN
  /\ wpc[w] = "claim" /\ queue[j] # None
  /\ running' = [running EXCEPT ![j] = queue[j]]
  /\ WorkerAt(w, "claimed", j, None, "none")
  /\ wlist' = [wlist EXCEPT ![w] = {}]
  /\ UNCHANGED <<queue, terminal, marker, cache, memory>>

\* claim_next forgets to count the attempt.
ClaimWriteUncounted(w) ==
  LET r == [running[wjob[w]] EXCEPT !.status = "running", !.error = FALSE] IN
  /\ wpc[w] = "claimed"
  /\ running' = [running EXCEPT ![wjob[w]] = r]
  /\ WorkerAt(w, "lookup", wjob[w], r, "none")
  /\ UNCHANGED <<queue, terminal, marker, cache, memory, wlist>>

\* run_next does not look at the marker again after the execution.
CancelSeenTokenOnly(w) == token[w]

\* The result is not stored before the job is recorded as succeeded.
WriteCacheSkipped(w) ==
  /\ wpc[w] = "store"
  /\ WorkerAt(w, "publish", wjob[w], Succeeded(wrec[w]), "none")
  /\ UNCHANGED <<disk, memory, wlist>>

\* run_next reports a requeued job as "nothing left to do".
RequeueThenStop(w) ==
  LET j == wjob[w] IN
  /\ wpc[w] = "move" /\ wrec[w].status = "queued"
  /\ queue' = [queue EXCEPT ![j] = running[j]]
  /\ running' = [running EXCEPT ![j] = None]
  /\ WorkerAt(w, "done", NoJob, None, "none")
  /\ UNCHANGED <<terminal, marker, cache, memory, wlist>>

\* cancel() takes a failed rename for a successful one.
CancelRenameIgnored(c) ==
  /\ cpc[c] = "cancel_rename" /\ queue[cjob[c]] = None
  /\ cpc' = [cpc EXCEPT ![c] = "cancel_read"]
  /\ UNCHANGED <<shared, cjob, crec, clist, cdir, nextId>>

\* prune_terminal removes as many files as its listing had beyond the limit, each
\* time the one that is the oldest by then.
RemoveOldestNow(S) ==
  LET j == Oldest(Present(terminal)) IN terminal' = [terminal EXCEPT ![j] = None]

\* open() does not recover.
OpenListNothing ==
  /\ mpc = "down"
  /\ mlist' = {} /\ mpc' = "open_prune"
  /\ UNCHANGED <<files, wvars>>

\* recover_incomplete resets the status only.
RecoverWriteKeepsResult ==
  LET j == Oldest(mlist) IN
  /\ mpc = "recover"
  /\ running' = [running EXCEPT ![j].status = "queued"]
  /\ mpc' = "recover_move"
  /\ UNCHANGED <<queue, terminal, wvars, mlist>>

\* recover_incomplete leaves the file in running/ as well.
RecoverMoveCopy ==
  LET j == Oldest(mlist) IN
  /\ mpc = "recover_move"
  /\ queue' = [queue EXCEPT ![j] = running[j]]
  /\ mlist' = mlist \ {j}
  /\ mpc' = IF mlist = {j} THEN "open_prune" ELSE "recover"
  /\ UNCHANGED <<running, terminal, wvars>>

-----------------------------------------------------------------------------
\* The files prune_terminal removes: the oldest ones beyond the limit.
Victims ==
  {j \in Present(terminal) :
     Cardinality({i \in Present(terminal) : i > j}) >= MaxRetained}

\* remove_file on the oldest file of a prune's list S.  It fails when another
\* prune was faster; the rest of the list then stays where it is.
RemoveOldest(S) == terminal' = [terminal EXCEPT ![Oldest(S)] = None]
StillToRemove(S) == IF terminal[Oldest(S)] = None THEN {} ELSE S \ {Oldest(S)}

Cancelled(r) == [r EXCEPT !.status = "cancelled", !.result = FALSE,
                          !.error = FALSE]

Init ==
  /\ queue = [j \in Jobs |-> None]
  /\ running = [j \in Jobs |-> None]
  /\ terminal = [j \in Jobs |-> None]
  /\ marker = {} /\ cache = {}
  /\ active = [w \in Workers |-> FALSE]
  /\ token = [w \in Workers |-> FALSE]
  /\ wpc = [w \in Workers |-> "idle"]
  /\ wjob = [w \in Workers |-> NoJob]
  /\ wrec = [w \in Workers |-> None]
  /\ wlist = [w \in Workers |-> {}]
  /\ wout = [w \in Workers |-> "none"]
  /\ cpc = [c \in Clients |-> "idle"]
  /\ cjob = [c \in Clients |-> NoJob]
  /\ crec = [c \in Clients |-> None]
  /\ clist = [c \in Clients |-> {}]
  /\ cdir = [c \in Clients |-> 1]
  /\ mpc = "ready" /\ mlist = {}
  /\ nextId = 1
  /\ crashes = 0
-----------------------------------------------------------------------------
(* submit(): the limit is read first, the id comes after the cache lookup. *)

SubmitCheck(c, k) ==
  /\ Up /\ cpc[c] = "idle"
  /\ Cardinality(Present(queue)) < MaxQueued
  /\ ClientAt(c, "submit_lookup", NoJob, NewRecord(k))
  /\ UNCHANGED <<shared, clist, cdir, nextId>>

SubmitLookup(c) ==
  /\ cpc[c] = "submit_lookup"
  /\ nextId \in Jobs                                      \* bound: MaxJobs
  /\ nextId' = nextId + 1
  /\ IF crec[c].key \in cache
     THEN ClientAt(c, "submit_hit", nextId, Succeeded(crec[c]))
     ELSE ClientAt(c, "submit_queue", nextId, crec[c])
  /\ UNCHANGED <<shared, clist, cdir>>

SubmitQueue(c) ==
  /\ cpc[c] = "submit_queue"
  /\ queue' = [queue EXCEPT ![cjob[c]] = crec[c]]
  /\ ClientReturns(c)
  /\ UNCHANGED <<terminal, marker, token, clist, cdir, nextId>>

SubmitHit(c) ==
  /\ cpc[c] = "submit_hit"
  /\ terminal' = [terminal EXCEPT ![cjob[c]] = crec[c]]
  /\ ClientAt(c, "prune", NoJob, None)
  /\ UNCHANGED <<queue, marker, token, clist, cdir, nextId>>

SubmitPrune(c) ==
  /\ cpc[c] = "prune"
  /\ clist' = [clist EXCEPT ![c] = Victims]
  /\ cpc' = [cpc EXCEPT ![c] = IF Victims = {} THEN "idle" ELSE "prune_remove"]
  /\ UNCHANGED <<shared, cjob, crec, cdir, nextId>>

SubmitPruneRemove(c) ==
  /\ cpc[c] = "prune_remove"
  /\ RemoveOldest(clist[c])
  /\ clist' = [clist EXCEPT ![c] = StillToRemove(@)]
  /\ cpc' = [cpc EXCEPT ![c] = IF StillToRemove(clist[c]) = {}
                               THEN "idle" ELSE "prune_remove"]
  /\ UNCHANGED <<queue, marker, token, cjob, crec, cdir, nextId>>

-----------------------------------------------------------------------------
(* cancel(): a queued job is renamed into terminal/ and then rewritten;    *)
(* any other job gets a marker, a signal to its token, and a get().        *)

\* Ids a caller can name: handed out, and not by a submit still in progress.
Known(j) ==
  /\ j < nextId
  /\ \A c \in Clients :
       cpc[c] \in {"submit_queue", "submit_hit"} => cjob[c] # j

CancelCheck(c, j) ==
  /\ Up /\ cpc[c] = "idle" /\ Known(j)
  /\ ClientAt(c, IF queue[j] # None THEN "cancel_rename" ELSE "cancel_mark",
              j, None)
  /\ UNCHANGED <<shared, clist, cdir, nextId>>

CancelRename(c) ==
  LET j == cjob[c] IN
  /\ cpc[c] = "cancel_rename"
  /\ queue[j] # None
  /\ terminal' = [terminal EXCEPT ![j] = queue[j]]
  /\ queue' = [queue EXCEPT ![j] = None]
  /\ ClientAt(c, "cancel_read", j, None)
  /\ UNCHANGED <<marker, token, clist, cdir, nextId>>

\* NotFound: a worker, or another cancel, renamed the file first.
CancelRenameMissed(c) ==
  /\ cpc[c] = "cancel_rename"
  /\ queue[cjob[c]] = None
  /\ cpc' = [cpc EXCEPT ![c] = "cancel_mark"]
  /\ UNCHANGED <<shared, cjob, crec, clist, cdir, nextId>>

\* If the record is pruned already, cancel returns the I/O error.
CancelRead(c) ==
  /\ cpc[c] = "cancel_read"
  /\ IF terminal[cjob[c]] = None
     THEN ClientReturns(c)
     ELSE ClientAt(c, "cancel_write", cjob[c], Cancelled(terminal[cjob[c]]))
  /\ UNCHANGED <<shared, clist, cdir, nextId>>

CancelWrite(c) ==
  /\ cpc[c] = "cancel_write"
  /\ terminal' = [terminal EXCEPT ![cjob[c]] = crec[c]]
  /\ ClientReturns(c)
  /\ UNCHANGED <<queue, marker, token, clist, cdir, nextId>>

CancelMark(c) ==
  /\ cpc[c] = "cancel_mark"
  /\ marker' = marker \cup {cjob[c]}
  /\ cpc' = [cpc EXCEPT ![c] = "cancel_signal"]
  /\ UNCHANGED <<queue, terminal, token, cjob, crec, clist, cdir, nextId>>

\* The token is looked up and cancelled while the `active` lock is held.
CancelSignal(c) ==
  /\ cpc[c] = "cancel_signal"
  /\ token' = [w \in Workers |->
                 token[w] \/ (active[w] /\ wjob[w] = cjob[c])]
  /\ cpc' = [cpc EXCEPT ![c] = "get_look"]
  /\ UNCHANGED <<queue, terminal, marker, cjob, crec, clist, cdir, nextId>>

\* get(): an existence test per directory; after the last one, not found.
GetLook(c) ==
  /\ cpc[c] = "get_look"
  /\ IF Paths[cdir[c]][cjob[c]] # None
     THEN /\ ClientAt(c, "get_read", cjob[c], None)
          /\ UNCHANGED cdir
     ELSE IF cdir[c] < 3
     THEN /\ cdir' = [cdir EXCEPT ![c] = @ + 1]
          /\ UNCHANGED <<cpc, cjob, crec>>
     ELSE /\ ClientReturns(c)
          /\ cdir' = [cdir EXCEPT ![c] = 1]
  /\ UNCHANGED <<shared, clist, nextId>>

\* get()'s read, which fails if the file moved after the test, and the
\* marker cancel() leaves in place unless the record it read is terminal.
GetRead(c) ==
  LET r == Paths[cdir[c]][cjob[c]] IN
  /\ cpc[c] = "get_read"
  /\ IF r # None /\ r.status \in TerminalStatus
     THEN ClientAt(c, "cancel_unmark", cjob[c], None)
     ELSE ClientReturns(c)
  /\ cdir' = [cdir EXCEPT ![c] = 1]
  /\ UNCHANGED <<shared, clist, nextId>>

CancelUnmark(c) ==
  /\ cpc[c] = "cancel_unmark"
  /\ marker' = marker \ {cjob[c]}
  /\ ClientReturns(c)
  /\ UNCHANGED <<queue, terminal, token, clist, cdir, nextId>>

-----------------------------------------------------------------------------
(* run_next(), one call after another in each worker of drain().           *)

\* claim_next's listing of queue/; when it is empty the worker is done.
ClaimScan(w) ==
  /\ wpc[w] = "scan"
  /\ wlist' = [wlist EXCEPT ![w] = Present(queue)]
  /\ wpc' = [wpc EXCEPT ![w] = IF Present(queue) = {} THEN "done" ELSE "claim"]
  /\ UNCHANGED <<disk, memory, wjob, wrec, wout>>

ClaimRename(w) ==
  LET j == Oldest(wlist[w]) IN
  /\ wpc[w] = "claim"
  /\ queue[j] # None
  /\ running' = [running EXCEPT ![j] = queue[j]]
  /\ queue' = [queue EXCEPT ![j] = None]
  /\ WorkerAt(w, "claimed", j, None, "none")
  /\ wlist' = [wlist EXCEPT ![w] = {}]
  /\ UNCHANGED <<terminal, marker, cache, memory>>

\* NotFound: another worker or a cancel was faster; try the next entry.
ClaimRenameMissed(w) ==
  LET j == Oldest(wlist[w]) IN
  /\ wpc[w] = "claim"
  /\ queue[j] = None
  /\ wlist' = [wlist EXCEPT ![w] = @ \ {j}]
  /\ wpc' = [wpc EXCEPT ![w] = IF wlist[w] = {j} THEN "done" ELSE "claim"]
  /\ UNCHANGED <<disk, memory, wjob, wrec, wout>>

\* Reading the claimed file and writing it back as running; nobody else
\* writes a claimed file in between.
ClaimWrite(w) ==
  LET r == [running[wjob[w]] EXCEPT !.status = "running", !.error = FALSE,
                                    !.attempts = @ + 1] IN
  /\ wpc[w] = "claimed"
  /\ running' = [running EXCEPT ![wjob[w]] = r]
  /\ WorkerAt(w, "lookup", wjob[w], r, "none")
  /\ UNCHANGED <<queue, terminal, marker, cache, memory, wlist>>

LookupHit(w) ==
  /\ wpc[w] = "lookup"
  /\ wrec[w].key \in cache
  /\ WorkerAt(w, "publish", wjob[w], Succeeded(wrec[w]), "none")
  /\ UNCHANGED <<disk, memory, wlist>>

LookupMiss(w) ==
  /\ wpc[w] = "lookup"
  /\ wrec[w].key \notin cache
  /\ wpc' = [wpc EXCEPT ![w] = "register"]
  /\ UNCHANGED <<disk, memory, wjob, wrec, wlist, wout>>

Register(w) ==
  /\ wpc[w] = "register"
  /\ active' = [active EXCEPT ![w] = TRUE]
  /\ token' = [token EXCEPT ![w] = FALSE]
  /\ wpc' = [wpc EXCEPT ![w] = "check"]
  /\ UNCHANGED <<disk, wjob, wrec, wlist, wout>>

CheckMarker(w) ==
  /\ wpc[w] = "check"
  /\ token' = [token EXCEPT ![w] = @ \/ wjob[w] \in marker]
  /\ wpc' = [wpc EXCEPT ![w] = "execute"]
  /\ UNCHANGED <<disk, active, wjob, wrec, wlist, wout>>

\* The executor may look at its token or ignore it.
Execute(w) ==
  /\ wpc[w] = "execute"
  /\ \E o \in Outcomes : WorkerAt(w, "unregister", wjob[w], wrec[w], o)
  /\ UNCHANGED <<disk, memory, wlist>>

Unregister(w) ==
  /\ wpc[w] = "unregister"
  /\ active' = [active EXCEPT ![w] = FALSE]
  /\ wpc' = [wpc EXCEPT ![w] = "decide"]
  /\ UNCHANGED <<disk, token, wjob, wrec, wlist, wout>>

\* The second look at the marker, and what run_next makes of the outcome.
CancelSeen(w) == token[w] \/ wjob[w] \in marker

DecideCancelled(w) ==
  /\ wpc[w] = "decide" /\ CancelSeen(w)
  /\ token' = [token EXCEPT ![w] = TRUE]
  /\ WorkerAt(w, "publish", wjob[w], Cancelled(wrec[w]), "none")
  /\ UNCHANGED <<disk, active, wlist>>

MayRetry(w) == wout[w] = "retryable" /\ wrec[w].attempts < MaxAttempts

DecideOutcome(w) ==
  LET r == wrec[w]
      ended == CASE wout[w] = "ok" -> r
                 [] MayRetry(w) -> [r EXCEPT !.status = "queued", !.error = TRUE]
                 [] wout[w] = "cancelled" ->
                      [r EXCEPT !.status = "cancelled", !.error = FALSE]
                 [] OTHER -> [r EXCEPT !.status = "failed", !.error = TRUE]
  IN
  /\ wpc[w] = "decide" /\ ~CancelSeen(w)
  /\ WorkerAt(w, IF wout[w] = "ok" THEN "store" ELSE "publish", wjob[w], ended,
              "none")
  /\ UNCHANGED <<disk, memory, wlist>>

WriteCache(w) ==
  /\ wpc[w] = "store"
  /\ cache' = cache \cup {wrec[w].key}
  /\ WorkerAt(w, "publish", wjob[w], Succeeded(wrec[w]), "none")
  /\ UNCHANGED <<files, marker, memory, wlist>>

\* finish_job and requeue_job: the new record is written in running/ ...
Publish(w) ==
  /\ wpc[w] = "publish"
  /\ running' = [running EXCEPT ![wjob[w]] = wrec[w]]
  /\ wpc' = [wpc EXCEPT ![w] = "move"]
  /\ UNCHANGED <<queue, terminal, marker, cache, memory, wjob, wrec, wlist, wout>>

\* ... and the file renamed afterwards, by requeue_job into queue/,
Requeue(w) ==
  LET j == wjob[w] IN
  /\ wpc[w] = "move" /\ wrec[w].status = "queued"
  /\ queue' = [queue EXCEPT ![j] = running[j]]
  /\ running' = [running EXCEPT ![j] = None]
  /\ WorkerAgain(w)
  /\ UNCHANGED <<terminal, marker, cache, memory, wlist>>

\* by finish_job into terminal/.
Finish(w) ==
  LET j == wjob[w] IN
  /\ wpc[w] = "move" /\ wrec[w].status # "queued"
  /\ terminal' = [terminal EXCEPT ![j] = running[j]]
  /\ running' = [running EXCEPT ![j] = None]
  /\ IF token[w]
     THEN WorkerAt(w, "unmark", j, None, "none")
     ELSE WorkerAgain(w)
  /\ UNCHANGED <<queue, marker, cache, memory, wlist>>

Unmark(w) ==
  /\ wpc[w] = "unmark"
  /\ marker' = marker \ {wjob[w]}
  /\ token' = [token EXCEPT ![w] = FALSE]         \* the token is dropped
  /\ WorkerAgain(w)
  /\ UNCHANGED <<files, cache, active, wlist>>

-----------------------------------------------------------------------------
(* drain() and open(), the crash in between.                               *)

StartDrain ==
  /\ mpc = "ready"
  /\ mpc' = "drain"
  /\ wpc' = [w \in Workers |-> "scan"]
  /\ UNCHANGED <<files, wjob, wrec, wlist, wout, mlist>>

DrainJoin ==
  /\ mpc = "drain" /\ \A w \in Workers : wpc[w] = "done"
  /\ mpc' = "prune"
  /\ wpc' = [w \in Workers |-> "idle"]
  /\ UNCHANGED <<files, wjob, wrec, wlist, wout, mlist>>

Crash ==
  /\ crashes < MaxCrashes                               \* bound: MaxCrashes
  /\ crashes' = crashes + 1
  /\ mpc' = "down" /\ mlist' = {}
  /\ active' = [w \in Workers |-> FALSE]
  /\ token' = [w \in Workers |-> FALSE]
  /\ wpc' = [w \in Workers |-> "idle"]
  /\ wjob' = [w \in Workers |-> NoJob]
  /\ wrec' = [w \in Workers |-> None]
  /\ wlist' = [w \in Workers |-> {}]
  /\ wout' = [w \in Workers |-> "none"]
  /\ cpc' = [c \in Clients |-> "idle"]
  /\ cjob' = [c \in Clients |-> NoJob]
  /\ crec' = [c \in Clients |-> None]
  /\ clist' = [c \in Clients |-> {}]
  /\ cdir' = [c \in Clients |-> 1]
  /\ UNCHANGED <<disk, nextId>>

\* open() lists running/ for recover_incomplete.
OpenList ==
  /\ mpc = "down"
  /\ mlist' = Present(running)
  /\ mpc' = IF Present(running) = {} THEN "open_prune" ELSE "recover"
  /\ UNCHANGED <<files, wvars>>

RecoverWrite ==
  LET j == Oldest(mlist) IN
  /\ mpc = "recover"
  /\ running' = [running EXCEPT ![j].status = "queued", ![j].result = FALSE]
  /\ mpc' = IF queue[j] # None THEN "conflict" ELSE "recover_move"
  /\ UNCHANGED <<queue, terminal, wvars, mlist>>

RecoverMove ==
  LET j == Oldest(mlist) IN
  /\ mpc = "recover_move"
  /\ queue' = [queue EXCEPT ![j] = running[j]]
  /\ running' = [running EXCEPT ![j] = None]
  /\ mlist' = mlist \ {j}
  /\ mpc' = IF mlist = {j} THEN "open_prune" ELSE "recover"
  /\ UNCHANGED <<terminal, wvars>>

\* prune_terminal at the end of open() and of drain().
MainPrune ==
  /\ mpc \in {"open_prune", "prune"}
  /\ mlist' = Victims
  /\ mpc' = IF Victims = {} THEN "ready"
             ELSE IF mpc = "open_prune" THEN "open_remove" ELSE "prune_remove"
  /\ UNCHANGED <<files, wvars>>

MainPruneRemove ==
  /\ mpc \in {"open_remove", "prune_remove"}
  /\ RemoveOldest(mlist)
  /\ mlist' = StillToRemove(mlist)
  /\ mpc' = IF StillToRemove(mlist) = {} THEN "ready" ELSE mpc
  /\ UNCHANGED <<queue, running, wvars>>

-----------------------------------------------------------------------------
ClientStep(c) ==
  /\ \/ SubmitLookup(c) \/ SubmitQueue(c) \/ SubmitHit(c)
     \/ SubmitPrune(c) \/ SubmitPruneRemove(c)
     \/ CancelRename(c) \/ CancelRenameMissed(c) \/ CancelRead(c)
     \/ CancelWrite(c) \/ CancelMark(c) \/ CancelSignal(c)
     \/ GetLook(c) \/ GetRead(c) \/ CancelUnmark(c)
  /\ UNCHANGED <<running, cache, active, wvars, mvars, crashes>>

Call(c) ==
  /\ \/ \E k \in Keys : SubmitCheck(c, k)
     \/ \E j \in Jobs : CancelCheck(c, j)
  /\ UNCHANGED <<running, cache, active, wvars, mvars, crashes>>

WorkerStep(w) ==
  /\ \/ ClaimScan(w) \/ ClaimRename(w) \/ ClaimRenameMissed(w) \/ ClaimWrite(w)
     \/ LookupHit(w) \/ LookupMiss(w)
     \/ Register(w) \/ CheckMarker(w) \/ Execute(w) \/ Unregister(w)
     \/ DecideCancelled(w) \/ DecideOutcome(w) \/ WriteCache(w)
     \/ Publish(w) \/ Requeue(w) \/ Finish(w) \/ Unmark(w)
  /\ UNCHANGED <<cvars, mvars, nextId, crashes>>

Drain == StartDrain \/ DrainJoin
Open == OpenList \/ RecoverWrite \/ RecoverMove
Prune == MainPrune \/ MainPruneRemove
MainStep ==
  /\ Drain \/ Open \/ Prune
  /\ UNCHANGED <<marker, cache, memory, cvars, nextId, crashes>>

Next ==
  \/ \E c \in Clients : Call(c) \/ ClientStep(c)
  \/ \E w \in Workers : WorkerStep(w)
  \/ MainStep
  \/ Crash

Spec == Init /\ [][Next]_vars

\* Callers may stop calling; everything else that is under way goes on: tasks
\* and blocking threads are scheduled, executions end (the execution policy
\* bounds their time), the owner keeps draining and reopens after a crash.
Fairness ==
  /\ \A c \in Clients : WF_vars(ClientStep(c))
  /\ \A w \in Workers : WF_vars(WorkerStep(w))
  /\ WF_vars(MainStep)

FairSpec == Spec /\ Fairness
-----------------------------------------------------------------------------
(* Types *)

\* Every file holds a record with a legal key and status, every local variable
\* a value of its kind: what read_job (serde) and the field types guarantee.
TypeOK ==
  /\ queue \in [Jobs -> Record \cup {None}]
  /\ running \in [Jobs -> Record \cup {None}]
  /\ terminal \in [Jobs -> Record \cup {None}]
  /\ marker \in SUBSET Jobs
  /\ cache \in SUBSET Keys
  /\ active \in [Workers -> BOOLEAN]
  /\ token \in [Workers -> BOOLEAN]
  /\ wpc \in [Workers -> WorkerPC]
  /\ wjob \in [Workers -> Jobs \cup {NoJob}]
  /\ wrec \in [Workers -> Record \cup {None}]
  /\ wlist \in [Workers -> SUBSET Jobs]
  /\ wout \in [Workers -> Outcomes \cup {"none"}]
  /\ cpc \in [Clients -> ClientPC]
  /\ cjob \in [Clients -> Jobs \cup {NoJob}]
  /\ crec \in [Clients -> Record \cup {None}]
  /\ clist \in [Clients -> SUBSET Jobs]
  /\ cdir \in [Clients -> 1..3]
  /\ mpc \in MainPC
  /\ mlist \in SUBSET Jobs
  /\ nextId \in 1..(MaxJobs + 1)
  /\ crashes \in 0..MaxCrashes

-----------------------------------------------------------------------------
(* Safety *)

\* The states of a job as the files show them, and the workers that own one.
InQueue(j) == queue[j] # None
InRunning(j) == running[j] # None
InTerminal(j) == terminal[j] # None
Claiming == {"claimed", "lookup", "register", "check", "execute", "unregister",
             "decide", "store", "publish", "move"}
Owns(w, j) == wpc[w] \in Claiming /\ wjob[w] = j

\* The three renames (claim_next, finish_job and requeue_job, cancel), recovery
\* and the late rewrite of cancel() never leave one job in two directories: it
\* could be run twice, and get() would answer from whichever comes first.
OneFilePerJob ==
  \A j \in Jobs :
    /\ ~(InQueue(j) /\ InRunning(j))
    /\ ~(InQueue(j) /\ InTerminal(j))
    /\ ~(InRunning(j) /\ InTerminal(j))

\* Renaming a file is the only lock there is: however listings, claims, cancels,
\* retries and recovery interleave, a claimed job has one owner, the owner's
\* file is still in running/, and nothing is recovered under a live owner.
ExclusiveClaim ==
  \A w \in Workers : wpc[w] \in Claiming =>
    /\ InRunning(wjob[w])
    /\ mpc = "drain"
    /\ \A v \in Workers \ {w} : ~Owns(v, wjob[w])

\* The branch of recover_incomplete that gives up ("both queued and running state
\* exist") is never taken: a crash between any two file operations leaves no job
\* in both directories, so open() always succeeds in recovering.
NoRecoveryConflict == mpc # "conflict"

\* Status, result and error of every stored snapshot fit together although
\* retry, recovery, cancellation and settlement each reset only some of them.
Coherent(r) ==
  /\ r.result <=> r.status = "succeeded"
  /\ r.status = "failed" => r.error
  /\ r.status \in {"running", "succeeded", "cancelled"} => ~r.error
SnapshotCoherent ==
  \A j \in Jobs : \A r \in {queue[j], running[j], terminal[j]} \ {None} :
    Coherent(r)

\* A succeeded snapshot always has its result in the cache, also right after a
\* crash: write_cache comes before the record, and no path skips it.
SucceededIsCached ==
  \A j \in Jobs : \A r \in {queue[j], running[j], terminal[j]} \ {None} :
    r.status = "succeeded" => r.key \in cache

\* claim_next counts every attempt and never looks at the limit; still a job is
\* claimed at most MaxAttempts times, plus once per crash that interrupted it.
AttemptsBounded ==
  \A j \in Jobs : \A r \in {queue[j], running[j], terminal[j]} \ {None} :
    r.attempts <= MaxAttempts + crashes

\* A job once settled in terminal/ keeps its status until it is pruned, is never
\* claimed again and never comes back: not by a crash, not by a late cancel.
SettledIsFinal ==
  [][\A j \in Jobs :
       (InTerminal(j) /\ terminal[j].status \in TerminalStatus) =>
         /\ terminal'[j] \in {terminal[j], None}
         /\ queue'[j] = None /\ running'[j] = None]_vars

\* What get() answers for j: the first of the three files that exists.
Visible(j) == IF InQueue(j) THEN queue[j].status
              ELSE IF InRunning(j) THEN running[j].status
              ELSE IF InTerminal(j) THEN terminal[j].status ELSE "absent"

\* A caller that has seen a terminal status never sees another one later.
\* finish_job makes it visible in running/, before the rename that settles it.
VisibleTerminalIsFinal ==
  [][\A j \in Jobs : Visible(j) \in TerminalStatus =>
       Visible(j)' \in {Visible(j), "absent"}]_vars

\* Two prunes working from different listings never remove the newest records:
\* a removal leaves at least max_retained_terminal_jobs of them.
PruneKeepsRetained ==
  [][\A j \in Jobs : (InTerminal(j) /\ ~InTerminal(j)') =>
       Cardinality(Present(terminal)') >= MaxRetained]_vars

\* A job that is completed from the cache, before its token is registered, has
\* no cancellation marker: "the marker closes the claim->registration race".
MarkerClosesClaimRace ==
  [][\A w \in Workers :
       (wpc[w] = "lookup" /\ wpc[w]' = "publish") => wjob[w] \notin marker]_vars

\* Outside a running cancel(), a file in terminal/ holds a terminal status.
TerminalDirIsTerminal ==
  \A j \in Jobs :
    \/ ~InTerminal(j) \/ terminal[j].status \in TerminalStatus
    \/ \E c \in Clients :
         cpc[c] \in {"cancel_read", "cancel_write"} /\ cjob[c] = j

-----------------------------------------------------------------------------
(* Liveness *)

\* A submitted job leaves queue/ and running/ for good: retries are bounded, a
\* crash is recovered, and a worker that stops never strands a requeued job.
EventuallySettled ==
  \A j \in Jobs : InQueue(j) ~> (~InQueue(j) /\ ~InRunning(j))

\* A cancel whose marker is on disk while the job's run has not yet looked at
\* it for the last time ends the job as cancelled.
CancelTakesEffect ==
  \A j \in Jobs :
    (/\ j \in marker
     /\ \E w \in Workers : wjob[w] = j /\ wpc[w] \in
          {"register", "check", "execute", "unregister", "decide"})
    ~> (Visible(j) = "cancelled" \/ crashes > 0)

-----------------------------------------------------------------------------
(* Refinement of JobLifecycle *)

\* A file in running/ stands for a running job once claim_next has rewritten it,
\* until finish_job or recovery gives it back; a file in terminal/ whose status
\* is not terminal belongs to a cancel(), or to one that a crash interrupted.
Withdrawing(j) ==
  \E c \in Clients :
    cpc[c] \in {"cancel_read", "cancel_write"} /\ cjob[c] = j

AbstractJob ==
  LET live(s, r) == [state |-> s, attempts |-> r.attempts, key |-> r.key]
      ended(s) == [state |-> s, attempts |-> 0, key |-> None]
  IN [j \in Jobs |->
        IF InQueue(j) THEN live("queued", queue[j])
        ELSE IF InRunning(j) /\ running[j].status = "queued"
        THEN live("queued", running[j])
        ELSE IF InRunning(j) THEN live("running", running[j])
        ELSE IF Withdrawing(j) THEN ended("withdrawn")
        ELSE IF ~InTerminal(j) THEN ended("absent")
        ELSE IF terminal[j].status \in TerminalStatus
        THEN ended(terminal[j].status)
        ELSE ended("stuck")]

Recovered == mpc \notin {"down", "recover", "recover_move", "conflict"}

Lifecycle == INSTANCE JobLifecycle WITH up <- Recovered, job <- AbstractJob

\* The file protocol implements the abstract life cycle of a job.
ImplementsLifecycle == Lifecycle!Spec
=============================================================================
