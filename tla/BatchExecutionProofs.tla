------------------------ MODULE BatchExecutionProofs ------------------------
(* What BatchExecution promises for every set of engines, every limit and     *)
(* every size: types, no child and no directory left behind, and outcomes     *)
(* that mean what they say.                                                   *)
EXTENDS BatchExecution, TLAPS

\* The files a request may want from an engine.
WantedFits ==
    wanted \subseteq {"result", "digital", "log"} /\
    (engine \notin {"mixed", "renode"} => wanted = {"result"}) /\
    (engine = "mixed" => wanted \subseteq {"result", "digital"}) /\
    (engine = "renode" => wanted = {"log"})

\* What a result needs: a child that succeeded, and every limit kept.
Earned ==
    /\ child = "success" /\ ~Over(wanted)
    /\ engine # "isolated" => ~Over({"log"})

\* Where run() is says what it has in its hands.
PhasesHold ==
    /\ phase = "start" => child = "none" /\ ~runDir /\ step = 1
    /\ phase \in {"begin", "judge", "probing", "stuck"} \cup Polling => runDir
    /\ phase \in {"begin", "judge", "probing", "stuck", "drop_dir", "returned"} => child # "running"
    /\ phase = "judge" => child \in {"success", "failure"} /\ Plan[step] # "probe"
    /\ phase \in Polling => child \in {"running", "success", "failure"} /\ Plan[step] # "probe"
    /\ phase \in {"probing", "stuck"} => Plan[step] = "probe"
    /\ phase = "returned" => ~runDir

\* A result has been earned before the version probe that comes last, and the
\* outcome is there from the moment run() has decided to return.
OutcomesHold ==
    /\ phase \in {"begin", "probing", "stuck"} /\ Plan[step] = "probe" /\ step = Len(Plan) => Earned
    /\ phase \notin {"drop_child", "drop_dir", "returned"} => outcome.code = "none"
    /\ outcome.code = "ok" => Earned
    /\ outcome.code = "execution_cancelled" => cancelled /\ ~outcome.retryable
    /\ outcome.code = "execution_timeout" => limited /\ expired /\ outcome.retryable

Inv == /\ TypeOK /\ WantedFits
       /\ (child = "running" => runDir)
       /\ PhasesHold /\ OutcomesHold

------------------------------------------------------------------------------
LEMMA PlansAreSequences ==
    ASSUME engine \in AllEngines
    PROVE  /\ Plan \in Seq({"build", "run", "probe"}) /\ Len(Plan) \in 1 .. 3
           /\ Plan[1] = "probe" => Len(Plan) = 2 /\ engine = "renode"
<1> USE DEF Plan
<1>1. CASE engine = "isolated"
  BY <1>1 DEF IsolatedPlan
<1>2. CASE engine = "ngspice"
  BY <1>2 DEF NgSpicePlan
<1>3. CASE engine = "xspice"
  BY <1>3 DEF XSpicePlan
<1>4. CASE engine = "mixed"
  BY <1>4 DEF MixedPlan
<1>5. CASE engine = "verilator"
  BY <1>5 DEF VerilatorPlan
<1>6. CASE engine = "renode"
  BY <1>6 DEF RenodePlan
<1> QED BY <1>1, <1>2, <1>3, <1>4, <1>5, <1>6 DEF AllEngines

\* The code that Finish puts into the outcome, and the bit that comes with it.
LEMMA FinishOutcome ==
    ASSUME NEW code \in Codes, Finish(code)
    PROVE  /\ phase' = "drop_child" /\ outcome' \in [code : Codes, retryable : BOOLEAN]
           /\ outcome'.code = code
           /\ code = "execution_cancelled" => ~outcome'.retryable
           /\ code = "execution_timeout" => outcome'.retryable
<1>1. RetryBits(code) \subseteq BOOLEAN
  BY DEF RetryBits
<1>2. code = "execution_cancelled" => RetryBits(code) = {FALSE}
  BY DEF RetryBits
<1>3. code = "execution_timeout" => RetryBits(code) = {TRUE}
  BY DEF RetryBits
<1>4. PICK bit \in RetryBits(code) : outcome' = [code |-> code, retryable |-> bit]
  BY DEF Finish
<1> QED BY <1>1, <1>2, <1>3, <1>4 DEF Finish

LEMMA JudgedCodes ==
    ASSUME engine \in AllEngines, Plan[step] # "probe", NEW verdict \in Judged,
           step \in 1 .. Len(Plan)
    PROVE  verdict \in {"ok", "failed", "execution_resource_limit"}
<1>1. engine = "verilator" => Plan[step] \in {"build", "run"}
  BY DEF Plan, VerilatorPlan
<1> QED BY <1>1 DEF Judged, AllEngines, IsolatedJudges, NgSpiceJudges, XSpiceJudges, MixedJudges,
            VerilatorBuildJudges, VerilatorRunJudges, RenodeJudges, Parsed

\* A good verdict on a solver's run earns the result.
LEMMA GoodVerdict ==
    ASSUME TypeOK, WantedFits, engine \in AllEngines, Plan[step] = "run",
           child \in {"success", "failure"}, "ok" \in Judged
    PROVE  Earned
<1> USE DEF Earned, Over
<1>1. CASE engine = "isolated"
  BY <1>1 DEF Judged, IsolatedJudges, Parsed, WantedFits
<1>2. CASE engine = "ngspice"
  BY <1>2 DEF Judged, NgSpiceJudges, Parsed, WantedFits
<1>3. CASE engine = "xspice"
  BY <1>3 DEF Judged, XSpiceJudges, Parsed, WantedFits
<1>4. CASE engine = "mixed"
  <2>1. ~Over({"log"}) /\ child # "failure" /\ ~Over(wanted)
    BY <1>4 DEF Judged, MixedJudges, Parsed
  <2> QED BY <1>4, <2>1
<1>5. CASE engine = "renode"
  BY <1>5 DEF Judged, RenodeJudges, Parsed, WantedFits
<1>6. CASE engine = "verilator"
  BY <1>6 DEF Judged, VerilatorRunJudges, Parsed, WantedFits
<1> QED BY <1>1, <1>2, <1>3, <1>4, <1>5, <1>6 DEF AllEngines

------------------------------------------------------------------------------
LEMMA InitHolds == Init => Inv
<1> SUFFICES ASSUME Init PROVE Inv
  OBVIOUS
<1>1. engine \in AllEngines /\ Len(Plan) >= 1
  BY EnginesAssumption, PlansAreSequences DEF Init
<1>2. TypeOK
  <2>1. wanted \in SUBSET Files
    BY DEF Init, Files
  <2>2. step \in 1 .. Len(Plan)
    BY <1>1, PlansAreSequences DEF Init
  <2>3. size \in [Files -> 0 .. MaxSize] /\ outcome \in [code : Codes, retryable : BOOLEAN]
    BY LimitAssumption DEF Init, Codes
  <2> QED BY <2>1, <2>2, <2>3 DEF Init, TypeOK, Phases
<1>3. WantedFits
  BY DEF Init, WantedFits
<1> QED BY <1>1, <1>2, <1>3 DEF Init, Inv, PhasesHold, OutcomesHold, Polling

\* What every action keeps: the plan, its place in the engines.
LEMMA KeepsGiven ==
    ASSUME Inv, UNCHANGED given
    PROVE  engine' = engine /\ wanted' = wanted /\ limited' = limited /\ Plan' = Plan
           /\ engine \in AllEngines /\ WantedFits'
BY EnginesAssumption DEF given, Inv, TypeOK, Plan, IsolatedPlan, NgSpicePlan, XSpicePlan, MixedPlan,
    VerilatorPlan, RenodePlan, WantedFits

LEMMA StartKeeps == ASSUME Inv, Start PROVE Inv'
<1> USE DEF Inv, Start, given, TypeOK, Phases, Polling, Codes
<1>0. engine' = engine /\ Plan' = Plan /\ WantedFits'
  BY KeepsGiven
<1>1. CASE cancelled /\ Finish("execution_cancelled") /\ UNCHANGED runDir
  BY <1>0, <1>1, FinishOutcome DEF PhasesHold, OutcomesHold
<1>2. CASE ~cancelled /\ Finish("failed") /\ runDir' \in BOOLEAN
  BY <1>0, <1>2, FinishOutcome DEF PhasesHold, OutcomesHold
<1>3. CASE ~cancelled /\ phase' = "begin" /\ runDir' = TRUE /\ UNCHANGED outcome
  <2>1. step = 1 /\ ~(Plan[1] = "probe" /\ 1 = Len(Plan))
    BY PlansAreSequences, KeepsGiven DEF PhasesHold
  <2> QED BY <1>0, <1>3, <2>1 DEF PhasesHold, OutcomesHold
<1> QED BY <1>1, <1>2, <1>3

LEMMA BeginKeeps == ASSUME Inv, Begin PROVE Inv'
<1> USE DEF Inv, Begin, given, TypeOK, Phases, Polling, Codes
<1>0. engine' = engine /\ Plan' = Plan /\ WantedFits' /\ step' = step
  BY KeepsGiven
<1>1. CASE Plan[step] = "probe" /\ phase' = "probing" /\ UNCHANGED <<child, size, outcome>>
  BY <1>0, <1>1 DEF PhasesHold, OutcomesHold, Earned, Over
<1>2. CASE /\ Plan[step] # "probe" /\ phase' = "exit" /\ child' = "running"
           /\ size' = [size EXCEPT !["log"] = 0] /\ UNCHANGED outcome
  <2>1. size' \in [Files -> 0 .. MaxSize]
    BY <1>2, LimitAssumption DEF Files
  <2> QED BY <1>0, <1>2, <2>1 DEF PhasesHold, OutcomesHold
<1>3. CASE Plan[step] # "probe" /\ Finish("failed") /\ UNCHANGED <<child, size>>
  BY <1>0, <1>3, FinishOutcome DEF PhasesHold, OutcomesHold
<1> QED BY <1>1, <1>2, <1>3

\* Success ends the plan with a result that was earned, or goes on with it.
LEMMA SucceedKeeps ==
    ASSUME Inv, Succeed, phase \in {"probing", "judge"}, step = Len(Plan) => Earned,
           step + 1 = Len(Plan) /\ Plan[step + 1] = "probe" => Earned,
           UNCHANGED <<given, child, size, runDir, cancelled, expired>>
    PROVE  Inv'
<1> USE DEF Inv, Succeed, given, TypeOK, Phases, Polling, Codes
<1>0. /\ engine' = engine /\ Plan' = Plan /\ WantedFits' /\ engine \in AllEngines
      /\ Len(Plan) \in 1 .. 3 /\ (Earned => Earned')
  BY KeepsGiven, PlansAreSequences DEF Earned, Over
<1>1. CASE step = Len(Plan) /\ Finish("ok") /\ UNCHANGED step
  BY <1>0, <1>1, FinishOutcome DEF PhasesHold, OutcomesHold
<1>2. CASE step # Len(Plan) /\ phase' = "begin" /\ step' = step + 1 /\ UNCHANGED outcome
  <2>1. step' \in 1 .. Len(Plan)
    BY <1>0, <1>2
  <2> QED BY <1>0, <1>2, <2>1 DEF PhasesHold, OutcomesHold
<1> QED BY <1>1, <1>2

LEMMA ProbeAnswersKeeps == ASSUME Inv, ProbeAnswers PROVE Inv'
<1>1. Plan[step] = "probe" /\ step \in 1 .. Len(Plan) /\ engine \in AllEngines
  BY KeepsGiven, EnginesAssumption DEF Inv, ProbeAnswers, PhasesHold, TypeOK
<1>2. step + 1 = Len(Plan) => Plan[step + 1] # "probe"
  <2> USE DEF Plan, IsolatedPlan, NgSpicePlan, XSpicePlan, MixedPlan, VerilatorPlan, RenodePlan
  <2> QED BY <1>1 DEF AllEngines
<1>3. step = Len(Plan) => Earned
  BY <1>1 DEF Inv, OutcomesHold, ProbeAnswers
<1> QED BY <1>2, <1>3, SucceedKeeps DEF ProbeAnswers

LEMMA JudgeKeeps == ASSUME Inv, Judge PROVE Inv'
<1>0. /\ engine' = engine /\ Plan' = Plan /\ WantedFits' /\ engine \in AllEngines
      /\ step \in 1 .. Len(Plan) /\ Plan[step] # "probe" /\ child \in {"success", "failure"}
  BY KeepsGiven, EnginesAssumption DEF Inv, Judge, PhasesHold, TypeOK, given
<1>1. PICK verdict \in Judged : IF verdict = "ok" THEN Succeed ELSE Finish(verdict) /\ UNCHANGED step
  BY DEF Judge
<1>2. CASE verdict = "ok"
  <2>1. Plan[step] = "run" => Earned
    BY <1>0, <1>2, GoodVerdict DEF Inv
  <2>2. Plan[step] # "run" => engine = "verilator" /\ step = 1
    BY <1>0, PlansAreSequences
       DEF AllEngines, Plan, IsolatedPlan, NgSpicePlan, XSpicePlan, MixedPlan, VerilatorPlan, RenodePlan
  <2>3. engine = "verilator" => Len(Plan) = 3 /\ Plan[2] = "run"
    BY DEF Plan, VerilatorPlan
  <2> QED BY <1>0, <1>1, <1>2, <2>1, <2>2, <2>3, SucceedKeeps DEF Judge
<1>3. CASE verdict # "ok"
  <2>1. verdict \in {"failed", "execution_resource_limit"}
    BY <1>0, <1>3, JudgedCodes
  <2>2. verdict \in Codes /\ Finish(verdict) /\ UNCHANGED step
    BY <1>1, <1>3, <2>1 DEF Codes
  <2> QED BY <1>0, <2>1, <2>2, FinishOutcome
          DEF Inv, Judge, given, TypeOK, Phases, Polling, PhasesHold, OutcomesHold
<1> QED BY <1>2, <1>3

\* One round of the polling loop, and the drops.
LEMMA LooksKeep ==
    ASSUME Inv, LookForExit \/ LookForCancellation \/ LookAtClock \/ LookAtFiles
    PROVE  Inv'
<1> USE DEF Inv, given, TypeOK, Phases, Polling, Codes, PhasesHold, OutcomesHold
<1>0. engine' = engine /\ Plan' = Plan /\ WantedFits'
  BY KeepsGiven DEF LookForExit, LookForCancellation, LookAtClock, LookAtFiles
<1>1. CASE LookForExit
  BY <1>0, <1>1 DEF LookForExit
<1>2. CASE LookForCancellation
  BY <1>0, <1>2, FinishOutcome DEF LookForCancellation
<1>3. CASE LookAtClock
  BY <1>0, <1>3, FinishOutcome DEF LookAtClock
<1>4. CASE LookAtFiles
  BY <1>0, <1>4, FinishOutcome DEF LookAtFiles
<1> QED BY <1>1, <1>2, <1>3, <1>4

LEMMA RestKeeps ==
    ASSUME Inv, ProbeHangs \/ DropChild \/ DropDir \/ ChildExits \/ Cancel \/ Expire
                  \/ (\E f \in Files : ChildWrites(f)) \/ UNCHANGED vars
    PROVE  Inv'
<1> USE DEF Inv, given, TypeOK, Phases, Polling, Codes, PhasesHold, OutcomesHold, Earned, Over
<1>0. engine' = engine /\ Plan' = Plan /\ WantedFits'
  BY KeepsGiven DEF ProbeHangs, DropChild, DropDir, ChildExits, Cancel, Expire, ChildWrites, vars
<1>1. CASE ProbeHangs
  BY <1>0, <1>1 DEF ProbeHangs
<1>2. CASE DropChild
  BY <1>0, <1>2 DEF DropChild
<1>3. CASE DropDir
  BY <1>0, <1>3 DEF DropDir
<1>4. CASE ChildExits
  BY <1>0, <1>4 DEF ChildExits
<1>5. CASE Cancel
  BY <1>0, <1>5 DEF Cancel
<1>6. CASE Expire
  BY <1>0, <1>6 DEF Expire
<1>7. ASSUME NEW f \in Files, ChildWrites(f) PROVE Inv'
  <2>1. size' \in [Files -> 0 .. MaxSize]
    BY <1>7, LimitAssumption DEF ChildWrites
  <2> QED BY <1>0, <1>7, <2>1 DEF ChildWrites
<1>8. CASE UNCHANGED vars
  BY <1>0, <1>8 DEF vars
<1> QED BY <1>1, <1>2, <1>3, <1>4, <1>5, <1>6, <1>7, <1>8

LEMMA Invariance == Spec => []Inv
<1>1. Inv /\ [Next]_vars => Inv'
  BY StartKeeps, BeginKeeps, ProbeAnswersKeeps, JudgeKeeps, LooksKeep, RestKeeps DEF Next, Run
<1> QED BY <1>1, InitHolds, PTL DEF Spec

------------------------------------------------------------------------------
(* Every variable has its type, whatever the children, the canceller and the  *)
(* clock do between two looks of the polling loop.                            *)
THEOREM TypeCorrect == Spec => []TypeOK
<1>1. Inv => TypeOK
  BY DEF Inv
<1> QED BY <1>1, Invariance, PTL

(* Neither a running child nor its directory outlives a run of any engine     *)
(* (NothingLeftBehind).                                                       *)
THEOREM NothingIsLeftBehind == Spec => []NothingLeftBehind
<1>1. Inv => NothingLeftBehind
  BY DEF Inv, PhasesHold, NothingLeftBehind
<1> QED BY <1>1, Invariance, PTL

(* Results, cancellations and timeouts are what they say                      *)
(* (OutcomesAreEarned), for all limits and sizes of files.                    *)
THEOREM EveryOutcomeIsEarned == Spec => []OutcomesAreEarned
<1>1. Inv => OutcomesAreEarned
  BY DEF Inv, OutcomesHold, Earned, OutcomesAreEarned
<1> QED BY <1>1, Invariance, PTL
=============================================================================
