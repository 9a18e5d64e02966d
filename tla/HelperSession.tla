---------------------------- MODULE HelperSession ---------------------------
(* One external co-simulation participant: the scheduler's calls, the session *)
(* record, the pipes, and the helper process at the other end.  The three     *)
(* backends differ in what they check, remember and wait for; the choice is   *)
(* made in the initial state and stays.                                       *)
(*                                                                            *)
(* The caller is CoSimulationScheduler::run (src/cosim.rs): it initializes,   *)
(* writes at the current time, advances forward, checks current_time after    *)
(* every call, and gives the run up at the first error.  A later run calls    *)
(* initialize again on the same participant.                                  *)
EXTENDS RenodeCoSimulation, NgSpiceCoSimulation, VerilatorCoSimulation,
        Sequences

CONSTANTS Quantum,    \* RenodeCoSimulationConfig::quantum
          MaxSpawns,  \* bound on the helper processes started
          Faults      \* what a broken helper may do to its answers

ASSUME QuantumAssumption == Quantum \in Nat \ {0} /\ Quantum % NsTicks = 0
ASSUME SpawnsAssumption == MaxSpawns \in Nat \ {0}
ASSUME FaultsAssumption == Faults \subseteq {"malformed", "time", "next"}

VARIABLES backend,   \* which of the three participants this is
          caller,    \* what the scheduler is doing with it
          session,   \* the participant's session: its helper (0: none) and mirror
          helper,    \* the helper processes and the newest one's pipes
          device,    \* the simulated device behind the newest helper
          cancelled  \* the run's cancellation token

vars == <<backend, caller, session, helper, device, cancelled>>

\* No call in flight; the outcome of the last one is kept.
Idle == [op |-> "idle"]

Calls == {Idle, [op |-> "spawn"], [op |-> "connect"]}
           \cup [op : {"advance"}, target : Times]
           \cup UNION {[op : {"write"}, port : Written(b), value : Levels] : b \in Backends}

Helpers == [newest : 0 .. MaxSpawns, alive : SUBSET (1 .. MaxSpawns),
            connected : BOOLEAN, hung : BOOLEAN, lied : BOOLEAN,
            stdin : Seq(Commands(backend)), stdout : Seq(Lines(backend))]

TypeOK ==
    /\ backend \in Backends
    /\ caller \in [call : Calls, outcome : {"none", "ok", "failed"}]
    /\ session \in [helper : 0 .. MaxSpawns, mirror : Mirrors(backend)]
    /\ helper \in Helpers
    /\ device \in Devices(backend)
    /\ cancelled \in BOOLEAN

Ready  == caller.call = Idle /\ caller.outcome = "ok"
InCall == caller.call # Idle
\* Waiting in read_state for a line of the newest helper.
Waiting == caller.call.op \in {"connect", "advance", "write"}

Running == helper.newest \in helper.alive

------------------------------------------------------------------------------
\* How a call of the scheduler ends.
Return(outcome) == caller' = [call |-> Idle, outcome |-> outcome]
Fails == Return("failed")

Init ==
    /\ backend \in Backends
    /\ caller = [call |-> Idle, outcome |-> "none"]
    /\ session = [helper |-> 0, mirror |-> BlankMirror(backend)]
    /\ helper = [newest |-> 0, alive |-> {}, connected |-> FALSE, hung |-> FALSE,
                 lied |-> FALSE, stdin |-> <<>>, stdout |-> <<>>]
    /\ device = [time |-> 0, driven |-> [p \in Written(backend) |-> 0],
                 level |-> [p \in Shown(backend) |-> 0], next |-> NoEvent, started |-> FALSE]
    /\ cancelled = FALSE

\* Drop of a session: QUIT, then kill and wait unless it has exited already.
DropSession(alive, g) == alive \ {g}

\* Mutant: a helper that still runs serves the next run too.
HelperReused ==
    /\ ~InCall /\ helper.newest < MaxSpawns
    /\ cancelled' = FALSE
    /\ IF session.helper \in helper.alive THEN Return("ok")
                                         ELSE caller' = [caller EXCEPT !.call = [op |-> "spawn"]]
    /\ UNCHANGED <<backend, session, helper, device>>

(* initialize: a new run brings a new token; the session of the last run is   *)
(* still there and is replaced only when the new one has answered.            *)
Initialize ==
    /\ ~InCall /\ helper.newest < MaxSpawns
    /\ cancelled' = FALSE
    /\ caller' = [caller EXCEPT !.call = [op |-> "spawn"]]
    /\ UNCHANGED <<backend, session, helper, device>>

\* The control is checked before anything is started.
SpawnCancelled ==
    /\ caller.call.op = "spawn" /\ cancelled
    /\ Fails /\ UNCHANGED <<backend, session, helper, device, cancelled>>

\* Command::spawn succeeds; the pipes are new and empty.
Spawn ==
    /\ caller.call.op = "spawn"
    /\ helper' = [newest |-> helper.newest + 1, alive |-> helper.alive \cup {helper.newest + 1},
                  connected |-> FALSE, hung |-> FALSE, lied |-> FALSE,
                  stdin |-> <<>>, stdout |-> <<>>]
    /\ caller' = [caller EXCEPT !.call = [op |-> "connect"]]
    /\ UNCHANGED <<backend, session, device, cancelled>>

(* A transient error (ETXTBSY, EAGAIN, EINTR) is retried, by Renode only, so  *)
(* that the call stays where it is; this is how the retries end.  For the     *)
(* other two, and for a permanent error, the first failure ends the call.     *)
SpawnGivesUp ==
    /\ caller.call.op = "spawn"
    /\ Fails /\ UNCHANGED <<backend, session, helper, device, cancelled>>

------------------------------------------------------------------------------
\* What the participant does with a call before it talks to the helper.
Decision(call) ==
    IF call.op = "advance"
    THEN CASE backend = "renode"    -> RenodeAdvance(session.mirror, call.target)
           [] backend = "ngspice"   -> NgSpiceAdvance(session.mirror, call.target)
           [] backend = "verilator" -> VerilatorAdvance(session.mirror, call.target)
    ELSE CASE backend = "renode"    -> RenodeWrite(session.mirror, call.port, call.value)
           [] backend = "ngspice"   -> NgSpiceWrite(session.mirror, call.port, call.value)
           [] backend = "verilator" -> VerilatorWrite(session.mirror, call.port, call.value)

CommandOf(call) ==
    IF call.op = "advance" THEN [op |-> "ADV", target |-> call.target]
                           ELSE [op |-> "SET", port |-> call.port, value |-> call.value]

(* advance_to and write_input up to the wait: the decision, the control, and  *)
(* the write into the helper's stdin, which fails once the helper is gone.    *)
Begin(call) ==
    LET sent == Decision(call) = "send" /\ ~cancelled /\ Running
    IN  /\ IF sent THEN caller' = [caller EXCEPT !.call = call]
                   ELSE Return(IF Decision(call) = "done" THEN "ok" ELSE "failed")
        /\ helper' = IF sent THEN [helper EXCEPT !.stdin = Append(@, CommandOf(call))]
                             ELSE helper
        /\ UNCHANGED <<backend, session, device, cancelled>>

\* The next event the participant reports, which the scheduler never passes.
NextEvent ==
    CASE backend = "renode"    -> RenodeNextEvent(session.mirror, Quantum)
      [] backend = "ngspice"   -> NoEvent
      [] backend = "verilator" -> session.mirror.next

(* Verilator's session looks at the token a second time, after its write and  *)
(* before the read that blocks: the command is on its way and the call over.  *)
CancelledInBetween(call) ==
    /\ backend = "verilator" /\ Decision(call) = "send" /\ ~cancelled /\ Running
    /\ cancelled' = TRUE /\ Fails
    /\ helper' = [helper EXCEPT !.stdin = Append(@, CommandOf(call))]
    /\ UNCHANGED <<backend, session, device>>

AdvanceTo(target) ==
    LET call == [op |-> "advance", target |-> target] IN
    /\ Ready /\ target > session.mirror.time
    /\ NextEvent = NoEvent \/ target <= NextEvent
    /\ Begin(call) \/ CancelledInBetween(call)

WriteInput(port, value) ==
    LET call == [op |-> "write", port |-> port, value |-> value] IN
    Ready /\ (Begin(call) \/ CancelledInBetween(call))

------------------------------------------------------------------------------
ReadState(line, mirror) ==
    CASE backend = "renode"    -> RenodeReadState(mirror, line)
      [] backend = "ngspice"   -> NgSpiceReadState(mirror, line)
      [] backend = "verilator" -> VerilatorReadState(mirror, line)

\* A successful set_input records the level, except in Renode's session.
Accepted(mirror, call) ==
    CASE backend = "renode"    -> mirror
      [] backend = "ngspice"   -> NgSpiceAccepted(mirror, call.port, call.value)
      [] backend = "verilator" -> VerilatorAccepted(mirror, call.port, call.value)

(* The answer to the new helper's start.  Renode's participant installs the   *)
(* session first and takes it away again when its time is not zero; ngspice's *)
(* refuses a time that is not zero while it still holds the old session;      *)
(* Verilator's does not look, and the scheduler does (cosim.rs:315).          *)
Connected(line) ==
    LET read    == ReadState(line, BlankMirror(backend))
        atZero  == read.mirror.time = 0
        keepOld == ~read.ok \/ (backend = "ngspice" /\ ~atZero)
        noneLeft == backend = "renode" /\ ~atZero
    IN  /\ Return(IF read.ok /\ atZero THEN "ok" ELSE "failed")
        /\ session' = IF keepOld THEN session
                      ELSE IF noneLeft THEN [helper |-> 0, mirror |-> BlankMirror(backend)]
                      ELSE [helper |-> helper.newest, mirror |-> read.mirror]
        /\ helper' = [helper EXCEPT
             !.stdout = Tail(@),
             !.alive = LET kept == IF keepOld THEN @ ELSE DropSession(@, session.helper)
                       IN  IF keepOld \/ noneLeft THEN DropSession(kept, helper.newest) ELSE kept]

\* Mutant: an advance may land anywhere.
AnsweredAnyTime(line) ==
    LET read == ReadState(line, session.mirror)
    IN  /\ Return(IF read.ok THEN "ok" ELSE "failed")
        /\ session' = [session EXCEPT !.mirror =
             IF read.ok /\ caller.call.op = "write" THEN Accepted(read.mirror, caller.call)
                                                   ELSE read.mirror]
        /\ helper' = [helper EXCEPT !.stdout = Tail(@)]

(* The answer to a command.  An advance must land on its target; the          *)
(* scheduler checks that a write has not moved the time (cosim.rs:554).       *)
Answered(line) ==
    LET call == caller.call
        read == ReadState(line, session.mirror)
        exact == read.mirror.time =
                   (IF call.op = "advance" THEN call.target ELSE session.mirror.time)
    IN  /\ Return(IF read.ok /\ exact THEN "ok" ELSE "failed")
        /\ session' = [session EXCEPT !.mirror =
             IF read.ok /\ call.op = "write" THEN Accepted(read.mirror, call) ELSE read.mirror]
        /\ helper' = [helper EXCEPT !.stdout = Tail(@)]

\* read_state with a line to read.
Receive ==
    /\ Waiting /\ helper.stdout # <<>>
    /\ IF caller.call.op = "connect" THEN Connected(Head(helper.stdout))
                                     ELSE Answered(Head(helper.stdout))
    /\ UNCHANGED <<backend, device, cancelled>>

\* Mutant: the child of a session that never came up is not killed.
FailWaitingLeaks == Fails /\ UNCHANGED <<backend, session, helper, device, cancelled>>

\* A call that fails while a session is being spawned drops that session; the
\* one of the last run stays.
FailWaiting ==
    /\ Fails
    /\ helper' = IF caller.call.op = "connect"
                 THEN [helper EXCEPT !.alive = DropSession(@, helper.newest)] ELSE helper
    /\ UNCHANGED <<backend, session, device, cancelled>>

\* End of file: every line was read and the helper is gone.
HelperExited == Waiting /\ helper.stdout = <<>> /\ ~Running /\ FailWaiting

\* Mutant: ngspice's session reads its pipe with a blocking call.
OnlyRenodePolls == backend = "renode"

\* recv_cosim_protocol_line looks at the token and at the clock between two
\* polls; Verilator's session reads its pipe with a blocking call.
Polls == backend \in {"renode", "ngspice"}
ReadCancelled == Waiting /\ Polls /\ cancelled /\ FailWaiting
ReadTimesOut  == Waiting /\ Polls /\ FailWaiting

Cancel ==
    /\ ~cancelled /\ cancelled' = TRUE
    /\ UNCHANGED <<backend, caller, session, helper, device>>

------------------------------------------------------------------------------
(* The newest helper.  Renode's External Control server (external) serves one *)
(* client at a time and keeps its machine from one client to the next; the    *)
(* other two start from nothing.                                              *)
CanConnect == backend # "renode" \/ helper.alive = {helper.newest}

FirstDevices ==
    CASE backend = "renode"    -> RenodeConnected(device)
      [] backend = "ngspice"   -> NgSpiceConnected
      [] backend = "verilator" -> VerilatorConnected

DevicesAfter(command) ==
    CASE backend = "renode"    -> RenodeHelper(device, command)
      [] backend = "ngspice"   -> NgSpiceHelper(device, command)
      [] backend = "verilator" -> VerilatorHelper(device, command)

\* The lines a helper may print for a device: the right one, or under a fault
\* a line that is no STATE, lacks fields, or carries a wrong time or event.
Printed(d) ==
    LET right == StateLine(d)
    IN  {right}
        \cup (IF "malformed" \in Faults
              THEN {[right EXCEPT !.tag = "other"], [right EXCEPT !.level = <<>>]} ELSE {})
        \cup (IF "time" \in Faults THEN {[right EXCEPT !.time = t] : t \in Times} ELSE {})
        \cup (IF "next" \in Faults THEN {[right EXCEPT !.next = d.time]} ELSE {})

Prints(d) ==
    /\ device' = d
    /\ \E line \in Printed(d) : helper' = [helper EXCEPT !.stdout = Append(@, line),
            !.connected = TRUE, !.lied = @ \/ line # StateLine(d), !.stdin = IF helper.connected THEN Tail(@) ELSE @]

HelperConnects ==
    /\ Running /\ ~helper.connected /\ ~helper.hung /\ CanConnect
    /\ \E d \in FirstDevices : Prints(d)
    /\ UNCHANGED <<backend, caller, session, cancelled>>

HelperAnswers ==
    /\ Running /\ helper.connected /\ ~helper.hung /\ helper.stdin # <<>>
    /\ \E d \in DevicesAfter(Head(helper.stdin)) : Prints(d)
    /\ UNCHANGED <<backend, caller, session, cancelled>>

\* A command it refuses kills the helper, and so may anything else.
HelperDies ==
    /\ \E g \in helper.alive : helper' = [helper EXCEPT !.alive = @ \ {g}]
    /\ UNCHANGED <<backend, caller, session, device, cancelled>>

HelperHangs ==
    /\ Running /\ ~helper.hung
    /\ helper' = [helper EXCEPT !.hung = TRUE]
    /\ UNCHANGED <<backend, caller, session, device, cancelled>>

------------------------------------------------------------------------------
Next ==
    \/ Initialize \/ SpawnCancelled \/ Spawn \/ SpawnGivesUp
    \/ \E t \in Times : AdvanceTo(t)
    \/ \E p \in Written(backend), v \in Levels : WriteInput(p, v)
    \/ Receive \/ HelperExited \/ ReadCancelled \/ ReadTimesOut
    \/ HelperConnects \/ HelperAnswers \/ HelperDies \/ HelperHangs
    \/ Cancel

(* The participant's thread runs; a timeout is configured (timeout_ms # 0),   *)
(* so spawning ends one way or the other and a polled wait runs out; a helper *)
(* that neither hung nor died answers.                                        *)
Fairness ==
    /\ WF_vars(Spawn \/ SpawnCancelled \/ SpawnGivesUp)
    /\ WF_vars(Receive) /\ WF_vars(HelperExited) /\ WF_vars(ReadTimesOut)
    /\ WF_vars(HelperConnects \/ HelperAnswers)

Spec == Init /\ [][Next]_vars /\ Fairness

------------------------------------------------------------------------------
(* After a call that succeeded nothing is left in the pipes, and the session  *)
(* holds what the device shows and was given: an answer is never taken for    *)
(* the answer to another command, not even after a timeout, a cancellation    *)
(* and a new run.  A well-formed line that lies about its time is excepted.   *)
AnswersBelongToCommands ==
    (Ready /\ ~helper.lied) =>
        /\ helper.stdin = <<>> /\ helper.stdout = <<>>
        /\ session.helper = helper.newest
        /\ session.mirror.time = device.time
        /\ session.mirror.values = device.level
        /\ session.mirror.next = device.next

(* The level a session compares the next write with is the level its helper   *)
(* was given, so a write is skipped only when it would change nothing.  A     *)
(* bidirectional Renode pad is compared with what the pad shows instead.      *)
SkippedWritesAreRedundant ==
    Ready => \A p \in InPorts :
        device.driven[p] = (IF backend = "renode" THEN session.mirror.values
                                                  ELSE session.mirror.inputs)[p]

(* Every helper that runs belongs to the session the participant holds or to  *)
(* the one being connected: a failed or replaced session takes its helper     *)
(* with it.                                                                   *)
NoStrayHelper ==
    helper.alive \subseteq ({session.helper} \cup
        (IF caller.call.op = "connect" THEN {helper.newest} ELSE {}))

(* The participant keeps the contract the scheduler was written against,      *)
(* whatever its helper prints.                                                *)
Contract == INSTANCE ParticipantContract
    WITH status <- CASE caller.outcome = "none" -> "none"
                     [] caller.outcome = "ok" -> "ready"
                     [] caller.outcome = "failed" -> "failed",
         time <- session.mirror.time
KeepsContract == Contract!ContractSpec

(* A call returns: a hung helper costs a Renode or ngspice caller its         *)
(* timeout.  Verilator's blocking read returns only if the harness prints a   *)
(* line or exits.                                                             *)
CallReturns ==
    InCall ~> (~InCall \/ (backend = "verilator" /\ helper.hung))
=============================================================================
