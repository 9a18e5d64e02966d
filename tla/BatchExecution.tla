--------------------------- MODULE BatchExecution ---------------------------
(* One run of a process-backed engine, or of the isolated worker, under an    *)
(* ExecutionControl: child processes are started in a temporary directory,    *)
(* polled for exit, cancellation, timeout and file sizes, and judged when     *)
(* they have exited.  The child, the canceller and the clock act between any  *)
(* two looks of the polling loop.                                             *)
EXTENDS Naturals, Sequences

CONSTANTS Engines,  \* the process-backed engines of this run
          Limit,    \* max_log_bytes and max_output_bytes, in units of output
          MaxSize   \* bound on a file a child writes

AllEngines == {"isolated", "ngspice", "xspice", "mixed", "verilator", "renode"}
ASSUME EnginesAssumption == Engines \subseteq AllEngines
ASSUME LimitAssumption == Limit \in Nat \ {0} /\ MaxSize \in Nat

VARIABLES engine,    \* whose run() this is
          wanted,    \* the result files the request's probes ask for
          limited,   \* timeout_ms # 0
          step,      \* where run() is in its plan
          phase,     \* where it is inside that step
          child,     \* the child process of the current step
          size,      \* bytes in each file the child writes
          runDir,    \* the temporary directory exists
          cancelled, \* the cancellation token
          expired,   \* the timeout has elapsed since the first child started
          outcome    \* what run() returns

vars == <<engine, wanted, limited, step, phase, child, size, runDir, cancelled, expired, outcome>>

Files == {"log", "result", "digital"}
Polling == {"exit", "cancel", "clock", "files"}
Phases == {"start", "begin", "judge", "probing", "stuck", "drop_child", "drop_dir", "returned"}
            \cup Polling
Codes == {"none", "ok", "execution_cancelled", "execution_timeout",
          "execution_resource_limit", "failed"}

------------------------------------------------------------------------------
(* What each run() does in order: compile with Verilator, run a solver, ask   *)
(* an executable for its version (info(), whose Command::output() waits       *)
(* without a limit; Renode asks before its solver runs).                      *)
IsolatedPlan  == <<"run">>
NgSpicePlan   == <<"run", "probe">>
XSpicePlan    == <<"run", "probe">>
MixedPlan     == <<"run", "probe">>
VerilatorPlan == <<"build", "run", "probe">>
RenodePlan    == <<"probe", "run">>

Plan == CASE engine = "isolated"  -> IsolatedPlan
          [] engine = "ngspice"   -> NgSpicePlan
          [] engine = "xspice"    -> XSpicePlan
          [] engine = "mixed"     -> MixedPlan
          [] engine = "verilator" -> VerilatorPlan
          [] engine = "renode"    -> RenodePlan

TypeOK ==
    /\ engine \in Engines /\ wanted \in SUBSET Files
    /\ limited \in BOOLEAN /\ cancelled \in BOOLEAN /\ expired \in BOOLEAN
    /\ step \in 1 .. Len(Plan) /\ phase \in Phases
    /\ child \in {"none", "running", "success", "failure", "killed"}
    /\ size \in [Files -> 0 .. MaxSize] /\ runDir \in BOOLEAN
    /\ outcome \in [code : Codes, retryable : BOOLEAN]

\* The files each polling loop watches while its child runs.
IsolatedWatch  == {"log"}
\* wait_for_child_with_files; MixedSignalEngine names its analog table when
\* there is one and its event file otherwise.
WithFilesWatch == {"log", IF "result" \in wanted THEN "result" ELSE "digital"}
VerilatorWatch == {"log"} \cup (IF Plan[step] = "run" THEN {"result"} ELSE {})
RenodeWatch    == {"log"}

Watched == CASE engine = "isolated"  -> IsolatedWatch
             [] engine = "verilator" -> VerilatorWatch
             [] engine = "renode"    -> RenodeWatch
             [] OTHER                -> WithFilesWatch

Over(files) == \E f \in files : size[f] > Limit

------------------------------------------------------------------------------
\* The verdicts run() may reach once its child has exited.  A result file that
\* does not parse fails the run; which one does is the solver's business.
Parsed == {"ok", "failed"}

\* Status first, then the response file; the worker's log is not looked at.
IsolatedJudges == IF child = "failure" THEN {"failed"}
                  ELSE IF Over({"result"}) THEN {"execution_resource_limit"}
                  ELSE Parsed

\* Mutant: the log is not read again once the solver has exited.
NgSpiceForgetsLog == IF child = "failure" THEN {"failed"}
                     ELSE IF Over({"result"}) THEN {"execution_resource_limit"}
                     ELSE Parsed

\* Log size, then status, then the table.
NgSpiceJudges == IF Over({"log"}) THEN {"execution_resource_limit"}
                 ELSE IF child = "failure" THEN {"failed"}
                 ELSE IF Over({"result"}) THEN {"execution_resource_limit"}
                 ELSE Parsed

\* As ngspice, with a look into the log for missing code models (part of
\* Parsed: what the log says is the solver's business too).
XSpiceJudges == IF Over({"log"}) THEN {"execution_resource_limit"}
                ELSE IF child = "failure" THEN {"failed"}
                ELSE IF Over({"result"}) THEN {"execution_resource_limit", "failed"}
                ELSE Parsed

\* Each wanted file alone, then all of them together.
MixedJudges ==
    LET total == (IF "result" \in wanted THEN size["result"] ELSE 0)
                   + (IF "digital" \in wanted THEN size["digital"] ELSE 0)
    IN  IF Over({"log"}) THEN {"execution_resource_limit"}
        ELSE IF child = "failure" THEN {"failed"}
        ELSE IF Over(wanted) \/ total > Limit THEN {"execution_resource_limit", "failed"}
        ELSE Parsed

\* The build log, the status, the binary (it may be missing).
VerilatorBuildJudges == IF Over({"log"}) THEN {"execution_resource_limit"}
                        ELSE IF child = "failure" THEN {"failed"}
                        ELSE Parsed

VerilatorRunJudges == IF Over({"log"}) THEN {"execution_resource_limit"}
                      ELSE IF child = "failure" THEN {"failed"}
                      ELSE IF Over({"result"}) THEN {"execution_resource_limit"}
                      ELSE Parsed

\* Renode's samples are lines of its log.
RenodeJudges == IF Over({"log"}) THEN {"execution_resource_limit"}
                ELSE IF child = "failure" THEN {"failed"}
                ELSE Parsed

Judged == CASE engine = "isolated" -> IsolatedJudges
            [] engine = "ngspice"  -> NgSpiceJudges
            [] engine = "xspice"   -> XSpiceJudges
            [] engine = "mixed"    -> MixedJudges
            [] engine = "renode"   -> RenodeJudges
            [] engine = "verilator" /\ Plan[step] = "build" -> VerilatorBuildJudges
            [] engine = "verilator" /\ Plan[step] = "run"   -> VerilatorRunJudges

(* The retryable bit an outcome may carry.  Engines set it for a timeout only; *)
(* the isolated executor also turns every RuntimeError, a size over its limit *)
(* included, into a retryable one (worker_simulation_error), and hands on the *)
(* bit of an error the worker reports.                                        *)
RetryBits(code) ==
    CASE code = "execution_timeout"                               -> {TRUE}
      [] engine = "isolated" /\ code = "execution_resource_limit" -> {TRUE}
      [] engine = "isolated" /\ code = "failed"                   -> BOOLEAN
      [] OTHER                                                    -> {FALSE}

------------------------------------------------------------------------------
Init ==
    /\ engine \in Engines
    /\ wanted \in CASE engine = "mixed"  -> (SUBSET {"result", "digital"}) \ {{}}
                    [] engine = "renode" -> {{"log"}}
                    [] OTHER             -> {{"result"}}
    /\ limited \in BOOLEAN
    /\ step = 1 /\ phase = "start" /\ child = "none"
    /\ size = [f \in Files |-> 0] /\ runDir = FALSE
    /\ cancelled = FALSE /\ expired = FALSE
    /\ outcome = [code |-> "none", retryable |-> FALSE]

\* run() decides to return: the guards are dropped first.
Finish(code) ==
    /\ \E bit \in RetryBits(code) : outcome' = [code |-> code, retryable |-> bit]
    /\ phase' = "drop_child"

given == <<engine, wanted, limited>>

\* The policy, the token, the compiled input and its size, before a directory
\* is made; then the directory and the files in it.
Start ==
    /\ phase = "start"
    /\ \/ /\ cancelled /\ Finish("execution_cancelled") /\ UNCHANGED runDir
       \/ /\ ~cancelled /\ Finish("failed") /\ runDir' \in BOOLEAN
       \/ /\ ~cancelled /\ phase' = "begin" /\ runDir' = TRUE /\ UNCHANGED outcome
    /\ UNCHANGED <<given, step, child, size, cancelled, expired>>

\* The next child, or the next version probe.
Begin ==
    /\ phase = "begin"
    /\ \/ /\ Plan[step] = "probe" /\ phase' = "probing" /\ UNCHANGED <<child, size, outcome>>
       \/ /\ Plan[step] # "probe" /\ phase' = "exit" /\ child' = "running"
          /\ size' = [size EXCEPT !["log"] = 0] /\ UNCHANGED outcome
       \/ /\ Plan[step] # "probe" /\ Finish("failed") /\ UNCHANGED <<child, size>>
    /\ UNCHANGED <<given, step, runDir, cancelled, expired>>

\* After the last step run() returns a result, before it the next one begins.
Succeed == IF step = Len(Plan) THEN Finish("ok") /\ UNCHANGED step
           ELSE phase' = "begin" /\ step' = step + 1 /\ UNCHANGED outcome

ProbeAnswers ==
    /\ phase = "probing" /\ Succeed
    /\ UNCHANGED <<given, child, size, runDir, cancelled, expired>>

ProbeHangs ==
    /\ phase = "probing" /\ phase' = "stuck"
    /\ UNCHANGED <<given, step, child, size, runDir, cancelled, expired, outcome>>

------------------------------------------------------------------------------
\* One round of the polling loop, look by look.
LookForExit ==
    /\ phase = "exit"
    /\ phase' = IF child = "running" THEN "cancel" ELSE "judge"
    /\ UNCHANGED <<given, step, child, size, runDir, cancelled, expired, outcome>>

LookForCancellation ==
    /\ phase = "cancel"
    /\ IF cancelled THEN Finish("execution_cancelled")
                    ELSE phase' = "clock" /\ UNCHANGED outcome
    /\ UNCHANGED <<given, step, child, size, runDir, cancelled, expired>>

\* Mutant: only the exit of the child ends the loop.
ClockIgnored ==
    /\ phase = "clock" /\ phase' = "files"
    /\ UNCHANGED <<given, step, child, size, runDir, cancelled, expired, outcome>>

LookAtClock ==
    /\ phase = "clock"
    /\ IF limited /\ expired THEN Finish("execution_timeout")
                             ELSE phase' = "files" /\ UNCHANGED outcome
    /\ UNCHANGED <<given, step, child, size, runDir, cancelled, expired>>

LookAtFiles ==
    /\ phase = "files"
    /\ IF Over(Watched) THEN Finish("execution_resource_limit")
                        ELSE phase' = "exit" /\ UNCHANGED outcome
    /\ UNCHANGED <<given, step, child, size, runDir, cancelled, expired>>

Judge ==
    /\ phase = "judge"
    /\ \E verdict \in Judged :
          IF verdict = "ok" THEN Succeed ELSE Finish(verdict) /\ UNCHANGED step
    /\ UNCHANGED <<given, child, size, runDir, cancelled, expired>>

\* Mutant: the guard does not kill.
ChildLetGo ==
    /\ phase = "drop_child" /\ phase' = "drop_dir"
    /\ UNCHANGED <<given, step, child, size, runDir, cancelled, expired, outcome>>

\* ChildGuard's drop (the isolated executor kills by hand and then disarms it).
DropChild ==
    /\ phase = "drop_child" /\ phase' = "drop_dir"
    /\ child' = IF child = "running" THEN "killed" ELSE child
    /\ UNCHANGED <<given, step, size, runDir, cancelled, expired, outcome>>

\* TempRunDir's drop, or the executor's remove_dir_all after execute_in_dir.
DropDir ==
    /\ phase = "drop_dir" /\ phase' = "returned" /\ runDir' = FALSE
    /\ UNCHANGED <<given, step, child, size, cancelled, expired, outcome>>

------------------------------------------------------------------------------
\* The child writes and exits as it likes, the token is set, time passes.
ChildWrites(f) ==
    /\ child = "running" /\ size[f] < MaxSize
    /\ size' = [size EXCEPT ![f] = @ + 1]
    /\ UNCHANGED <<given, step, phase, child, runDir, cancelled, expired, outcome>>

ChildExits ==
    /\ child = "running" /\ child' \in {"success", "failure"}
    /\ UNCHANGED <<given, step, phase, size, runDir, cancelled, expired, outcome>>

Cancel ==
    /\ ~cancelled /\ cancelled' = TRUE /\ phase # "returned"
    /\ UNCHANGED <<given, step, phase, child, size, runDir, expired, outcome>>

Expire ==
    /\ ~expired /\ expired' = TRUE /\ child # "none" /\ phase # "returned"
    /\ UNCHANGED <<given, step, phase, child, size, runDir, cancelled, outcome>>

Run == \/ Start \/ Begin \/ ProbeAnswers \/ Judge
       \/ LookForExit \/ LookForCancellation \/ LookAtClock \/ LookAtFiles
       \/ DropChild \/ DropDir

Next == Run \/ ProbeHangs \/ Cancel \/ Expire
          \/ ChildExits \/ \E f \in Files : ChildWrites(f)

\* The thread of run() keeps polling and time passes; a child need not exit.
Fairness == WF_vars(Run) /\ WF_vars(Expire)

Spec == Init /\ [][Next]_vars /\ Fairness

------------------------------------------------------------------------------
(* The directory outlives the child that works in it, and neither is left     *)
(* behind when run() returns, on any of its error paths.                      *)
NothingLeftBehind ==
    /\ child = "running" => runDir
    /\ phase = "returned" => child # "running" /\ ~runDir

(* An outcome means what it says: a result needs a child that succeeded, every *)
(* result file inside the limit and, but for the isolated executor, a log      *)
(* inside its limit even when it grew after the last poll; a cancellation      *)
(* needs somebody who cancelled, a timeout an elapsed one.  A cancelled run is *)
(* never retryable, so that the runtime cannot run a cancelled job once more.  *)
OutcomesAreEarned ==
    /\ outcome.code = "ok" =>
          child = "success" /\ ~Over(wanted) /\ (engine # "isolated" => ~Over({"log"}))
    /\ outcome.code = "execution_cancelled" => cancelled /\ ~outcome.retryable
    /\ outcome.code = "execution_timeout" => limited /\ expired /\ outcome.retryable

(* docs/production-runtime.md:25 for the isolated executor: "Existing         *)
(* wall-clock timeout, cooperative cancellation and input/output/log limits   *)
(* remain enforced by ExecutionPolicy".                                       *)
WorkerLogIsBounded == outcome.code = "ok" => ~Over({"log"})

(* A run that has a time limit or is cancelled returns, whatever its child    *)
(* does, unless a version probe hangs: no limit reaches those.                *)
RunReturns ==
    (child = "running" /\ (limited \/ cancelled)) ~> (phase \in {"returned", "stuck"})
=============================================================================
