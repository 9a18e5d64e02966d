# Verification of sim-core

TLA+ specifications of the stateful parts of the sim-core crate (`src/src`), TLC
configurations that check them on small instances, and TLAPS proofs of theorems
about them. Each definition is translated from the source; `PROJECT.json` maps it
to the lines it stands for.

## 1. The system and its components

| component | source | state | operations | hard behaviour |
|---|---|---|---|---|
| `ProductionRuntime` | `runtime.rs` 604-1011 | files under `queue/`, `running/`, `terminal/`, `cancel/`, `cache/`; the in-memory `active` map of cancellation tokens | `open`, `submit`, `get`, `cancel`, `drain`/`run_next`, `recover_incomplete`, `prune_terminal` | several workers and callers on one directory tree; crash between any two file operations; retry; retention |
| `IsolatedProcessExecutor` and the `run` of the process-backed engines | `runtime.rs` 465-601, `ngspice.rs`, `xspice.rs`, `mixed.rs`, `renode.rs`, `verilator.rs` | one child process at a time, temp directory | `execute`, `run` | exit, cancellation, timeout and file limits race in one polling loop |
| `ContentAddressedStore` | `runtime.rs` 1013-1065 | immutable files by digest | `put`, `get` | none: immutable content |
| `SimulationService` | `service.rs` | map of jobs behind a mutex, a semaphore, a broadcast channel per job | submit, get, cancel, stream | cancellation against start and end of a run, slow subscribers, retention |
| `CoSimulationScheduler`, `WaveformRecorder` | `cosim.rs` | participants, links, current time, traces | `add_participant`, `connect`, `run` | delta cycles, next-time selection, misbehaving participants |
| DAC and ADC bridges | `cosim_bridge.rs` | last value | `write_input`, `read_output` | hysteresis |
| `DigitalEngine`, `DigitalCoSimulationParticipant` | `digital.rs` | event queue, driver and net values, register state | `execute`, `advance_to`, `write_input` | same-time events, feedback, resolution of several drivers |
| Renode, ngspice and Verilator participants | `renode.rs`, `ngspice.rs`, `verilator.rs`, `native/*.c` | helper process, pipe, last state | STATE/SET/ADV/QUIT line protocol | timeouts and late answers, spawn retries, blocking reads |
| `Simulator`, `EngineRegistry`, validation | `engine.rs`, `validation.rs` | the registered engines | validate, select, compile | names compared in different ways by different parts |
| compilation of circuits | `compile_request` of the six engines | none | a circuit to nodes, wires and GPIO sources | which endpoints end up on one node |
| data types, binaries | `circuit.rs`, `model.rs`, `analysis.rs`, `firmware.rs`, `units.rs`, `waveform.rs`, `bin/` | plain data | constructors, `main` | none |

How they interact: a `SimulationService` or a `ProductionRuntime` owns jobs and
calls an executor or a `Simulator` in a blocking thread, handing it a
`CancellationToken` that any caller may set; engines run batch programs or, for
co-simulation, are participants that the scheduler advances in lock step and
connects by links through bridges; three of the participants speak a line
protocol with a helper process.

What makes each component correct: *runtime* - a job is in one place, has one
owner, is never lost, ends once, and a cancel or a crash at any point keeps it
so; *service* - a job ends once, a cancel wins if it comes first, a subscriber
sees the end, the table and the permits stay within limits; *scheduler* - time
is common and monotone, links are settled before time moves, a run ends;
*digital engine* - operators agree with the four-state reference, events are
processed in time order; *helper sessions* - an answer belongs to the command
it is taken for, no helper outlives its session, and the session is the participant
the scheduler was written against; *process-backed runs* - nothing is left behind and an
outcome means what it says; *validation and compilation* - what an engine solves is the
circuit that was submitted, and which engine that is does not depend on chance.

## 2. Modules

| module | what it is |
|---|---|
| `ProductionRuntime` | the runtime, one step per file operation or critical section |
| `JobLifecycle` | the abstract specification of a job that `ProductionRuntime` implements |
| `MCProductionRuntime` | the history variable, the bound on jobs under way and the symmetry set of the run `pool` |
| `ProductionRuntimeProofs` | theorems about where the files of `ProductionRuntime` are |
| `ProductionRuntimeRecordProofs` | theorems about what the records in them say |
| `SimulationService` | the in-memory job service and its event streams |
| `SimulationServiceProofs` | theorems about `SimulationService` |
| `CoSimulationScheduler` | the co-simulation master, its recorder, the bridges, and backends that may do all their trait allows |
| `MCCoSimulationScheduler` | the network of participants for its run |
| `CoSimulationSchedulerProofs` | theorems about `CoSimulationScheduler` |
| `DigitalPrimitives` | the four-state operators, the resolution of a net, and the evaluation of every digital component |
| `DigitalSimulation` | the event queue of `DigitalEngine` and of the co-simulation session, on any circuit |
| `MCDigitalSimulation` | two circuits for its runs |
| `DigitalSimulationProofs` | theorems about both |
| `HelperProtocol` | commands, lines, devices and mirrors that the three co-simulation sessions share |
| `RenodeCoSimulation`, `NgSpiceCoSimulation`, `VerilatorCoSimulation` | what is particular to each session and to its helper |
| `HelperSession` | a participant, its pipes and its helper process, as the scheduler calls it |
| `ParticipantContract` | the abstract specification of a participant that `HelperSession` implements |
| `HelperSessionProofs` | theorems about `HelperSession` |
| `BatchExecution` | one `run` of a process-backed engine or of the isolated worker |
| `BatchExecutionProofs` | theorems about it |
| `CircuitValidation` | `validate_circuit` as a predicate on circuits |
| `EngineCompilation` | which circuits the six engines accept, and on which node they put each endpoint |
| `SimulationRequests` | `Simulator::simulate_with_control`: validation, selection, compilation |
| `MCSimulationRequests` | the boards for its run |
| `SimulationRequestsProofs` | theorems about the three |

`ProductionRuntime` and `SimulationService` are two ways to run jobs and share no state;
both treat an execution as one call with any outcome. What such a call may return is
`BatchExecution` for one child process, and `SimulationRequests` for what happens to a
request before an engine runs. `CoSimulationScheduler` is what an execution does for a
co-simulation; it composes the master with its participants, whose faults are a constant
of it. The participants themselves are `DigitalSimulation` and `HelperSession`, each with a
caller that does what the master does. `ParticipantContract` is what lies between: the trait's
promise, which `HelperSession` implements for its three backends whatever their helpers
print (`KeepsContract`, `ContractKept`). For the digital participant `NextEventIsFuture` is
what the master asks of `next_event_time`.

### ProductionRuntime

State: `queue[j]`, `running[j]`, `terminal[j]` are the contents of the three files
a job can have (`None`: no file); `marker` and `cache` are the files under
`cancel/` and `cache/sha256/`; `active` and `token` are the in-memory tokens. Each
caller `c` and each worker `w` has a program counter and the local variables of the
Rust function it is in; `mpc` is the control of `open()` and `drain()`. A record keeps
the cache key, status, attempts, and whether a result and an error are present.

Actions, in the order of the source: `SubmitCheck .. SubmitPruneRemove` (`submit`
and its `prune_terminal`); `CancelCheck .. CancelUnmark` (`cancel` with the `get` at
its end; a plain `get` is `GetLook`/`GetRead` without effects and needs no actions of
its own); `ClaimScan .. ClaimWrite` (`claim_next`); `LookupHit .. Unmark` (the rest of
`run_next`, with `finish_job` and `requeue_job` as `Publish` followed by `Finish` or
`Requeue`); `StartDrain`, `DrainJoin` (`drain`); `Crash`; `OpenList .. RecoverMove`
(`recover_incomplete`); `MainPrune*` (`prune_terminal` in `open` and `drain`). The mutated
forms near the top of the module are plausible mistakes that the properties were
tried against (comments call them mutants); no specification uses them.

What is abstracted:
- a directory listing is one step, and so is `write_json_atomic`: its temporary
  file has no `.json` extension, so that no listing sees it;
- `CancelSignal` is the critical section of `active` together with `token.cancel()`;
- an existence test followed by a read is one step in `read_cache`, whose files are
  never removed, and two in `get` (`GetLook`, `GetRead`), whose files move;
- request, manifest, result and error texts and the `cache_hit` flag are dropped;
  the executor is the set `Outcomes`, and may look at its token or ignore it;
- I/O errors other than those of a lost race (NotFound of a rename, read or
  remove) do not happen. In the code such an error ends the worker and leaves its
  job in `running/` until the next `open()`;
- one process per root directory and one `drain()` at a time: the code documents a
  single-host store and `open()` itself assumes that files in `running/` are stale;
- job ids are numbers in creation order. In the code an id starts with the wall
  clock, so that this holds as long as the clock does not go backwards.

Behaviour of the code that the model shows and no property forbids: `get()` may
report a job as not found while it is requeued under its three tests; a prune that
is overtaken by another one fails with NotFound, even inside a `submit()` that
stored its job; a marker that arrives after the second look is left behind.

### JobLifecycle

A job is absent, queued, running, withdrawn, or one of the final states; a crash
can only turn a withdrawn job into a stuck one or an absent one; a retry needs an
attempt left; a success needs its result in the cache. The refinement mapping
(`AbstractJob`, `Recovered`) shows which steps of the file protocol are the real
ones: a claimed file becomes a running job when `claim_next` has rewritten it, and a
job ends at the rename into `terminal/`, not when `finish_job` writes its status.

### SimulationService

State: `entry[j]` is the status of job `j` in the table (`None`: no entry); result and
error are always set together with it, so that the status stands for the snapshot.
`cancelled[j]` is the token; `pc[j]` and `out[j]` are the task of `run_job`; `permits` are
the free permits of the gate. Each stream has its control `spc`, the job `sjob`, the
unread events `inbox` (the newest `Capacity` of them) with `lag` for the overwritten
ones, the snapshot it is about to send, the last one its client got, and whether the
client went away.

Actions: `Submit` (with `prune_terminal_jobs`), `Cancel` and `Subscribe` are one critical
section of the mutex each; `Acquire .. Finish` are the steps of `run_job` between which
other tasks can run: the two looks at the token outside the mutex (`Check`,
`Recheck`) are steps of their own. `SendFirst .. Receive` are the steps of `stream_job`.

What is abstracted: HTTP and JSON, and `get`, which changes nothing. An id is taken
before the mutex, so jobs may enter the table in any order of their ids; `MaxJobs`
bounds them. An outcome is chosen when the simulation ends; it is a cancellation
only if the token is cancelled. A JoinError counts as a panic of the engine.

Behaviour of the code that the model shows and no property forbids: a cancel between
`Check` and `Start` is answered with cancelling and then shown as running again until
the job ends as cancelled; a panic of the engine ends a cancelled job as failed if the
cancel comes after `Recheck`; more entries than `max_concurrent_jobs` can show
running, because the permit is returned before the result is recorded. The arm for
`RecvError::Closed` in `stream_job` is dead code: `StreamCaughtUp` implies that a stream
has sent a terminal event before its channel closes.

### CoSimulationScheduler

Participants and ports are numbers, in the order in which the code's maps keep their
names, so that `<` is the order of the loops and of the sorted links. The network
(`Owner`, `Direction`, `Domain`, `Unit`, `Kind`) is a parameter, and so is the set of link
lists a caller may have built with `connect`, valid or not.

State: `clock`, `value` and `event` are what the participants answer to `current_time`,
`read_output` (for an input: the value it holds) and `next_event_time`; they outlive a
run. `phase` and `todo` say where `run` is in its loops over participants and links;
`target`, `now`, `macroSteps`, `cycle` (`changed_cycles`), `reads` (`deliveries`), `changed` and
`waveform` (the recorder) are its locals. `cancelled` and `expired` are the two conditions
of `check_control`.

Actions: `Run` is the start of `run` with `validated_links`; `Initialize(p)` and `Advance(p)` are
one iteration of the two loops over participants, with the clock check; `ReadSources`,
`Deliver(l)` and `EndCycle` are the parts of `settle_links`, one step per write, and
`EndCycle` records (`Sample`) when a round changed nothing; `Step` is the head of the main
loop with `next_time`. `CancelRun` and `TimeOut` may come between any two of them.

A bridge does what `cosim_bridge.rs` says. A backend may show any values of the right
domain and announce any event in its future. What it may do against the contract of
the trait is the constant `Faults`: fail, miss the time it was sent to, announce an event
that is not in the future, show a NaN.

What is abstracted:
- numbers stand for voltages and comparisons are exact; -0.0 is not told from 0.0;
- `Seconds` rounds times as the conversion to f64 does beyond 2^52 ps, where `Exact` stands
  for that limit; `MaxTime` is the largest time, at which `saturating_add` stops;
- the errors of `validated_links` are one `links_invalid`, those of participants one
  `participant_error`, those of `validate` and of the domain checks one `cosim_value_invalid`;
- a backend holds what was last written to an input. Renode compares with the level its
  helper reads back, which may differ; a bidirectional port, which only Renode has, is
  compared in that way in the model too;
- the input ports of a backend are independent: the digital participant lets two of them
  drive one net (Section 5);
- `add_participant` and `connect`, which only build the network, the counters of the report,
  and the order of signals in it.

Behaviour of the code that the model shows and no property forbids: `settle_links` needs one
round without a change to stop, so that links which settle in exactly `max_delta_cycles` rounds
are refused with a message that they did not (`cosim.rs:572`), feedback or not.

The branch `cosim_time_stalled` of `run` is dead code: `TimeMoves` in the proofs shows that
every candidate for the next time is later than the present one.

### DigitalPrimitives and DigitalSimulation

`DigitalPrimitives` has no variables: `Resolve`, the gates, what a component without state
drives (`Driven`), and what one with state stores (`Stored`, `AtEdge`) and drives (`Outputs`).
`evaluate` writes the same cases once per component; they are grouped here by what the
components share (set and reset first, then the enable or the edge).

A compiled circuit is a parameter of `DigitalSimulation`. State: `nets`, `drivers` and `state`
are `net_values`, `driver_values` and `runtime_states`; `queue[d]` holds the pending events of
one driver in order of time and sequence number, since the order between drivers
inside one time has no effect; `scheduled` is the event count; `histories` are the waveforms,
which only the engine keeps. `mode` says which of the two drivers of the queue this is, and
`phase`, `at`, `affected`, `target` where it is; `clock` is the session's `current_time`.

Actions: `Run` and `Initialize` schedule the first events; `Bucket` takes all events of the
first time, sets drivers and nets and finds the components to evaluate; `Evaluate`
evaluates them and schedules their outputs; `Finish` ends the loop. `Advance(t)` and
`Write(n, v)` are the calls of the co-simulation master. `Interrupt` is a cancel or a timeout
wherever `check_execution` looks. Engine and session share the loop in the model, as their
two copies of it in the code do what the other does, except for the histories, the limit
of time (`Limit`) and the places where they look for a cancel.

What is abstracted:
- event times are integers in units of `1 / Scale` ps; rounding of f64 sums is left out, and with it the
  last lines of `next_event_time` (`digital.rs:1377`), which only matter when a product of f64 is rounded down;
- `compile` (which circuits it accepts is in `EngineCompilation`), the bindings of ports, and probes;
- `write_external` evaluates a component twice that reads the net at two pins. The second
  evaluation changes nothing, and its outputs and their count are left out;
- `processed_events` never exceeds `scheduled_events`, so that its limit is dead code;
- after an error the session is not used: the master returns and `initialize` builds a
  new one. `MaxTransitions` is `max_output_bytes` divided by the size of a transition.

Behaviour of the code that the model shows and no property forbids: a component whose
inputs are X from the start is not evaluated and its output counts as Z, so that another
driver of the same net wins although `docs/digital.md:56` lets unknown drivers win; a net whose drivers were
never active is X and not Z; a history may repeat a value after a net changed twice at
one time; an unknown reset leaves a register or counter alone but makes a flip-flop X.

### HelperSession and its three backends

State: `backend` says which participant this is. `caller` is the scheduler's call in flight
and the outcome of the last one; `session` is the participant's `Option<Session>` with its
helper and its mirror (last time, levels read, levels written, next event); `helper` holds the
processes that are alive, and of the newest one its two pipes, whether it has connected or
hangs, and whether it ever printed a line that lies; `device` is the simulated circuit or chip behind
it; `cancelled` is the token of the run.

Actions: `Initialize`, `SpawnCancelled`, `Spawn`, `SpawnGivesUp` are `initialize` up to the wait
for the first line; `AdvanceTo` and `WriteInput` the two calls up to theirs (`Begin`, with the
decision of each backend: refuse, return at once, or send); `Receive` is `read_state` with the checks
behind it; `HelperExited`, `ReadCancelled` and `ReadTimesOut` are the other ends of a wait, which
Verilator's blocking read has only the first of; `CancelledInBetween` is the look at the token that Verilator takes
between its write and that read. `HelperConnects`, `HelperAnswers`,
`HelperDies` and `HelperHangs` are the process at the other end: the C helpers of
`native/` and the harness that `generate_cosim_harness` writes. A broken helper may print a line
that is no STATE, lacks fields, or carries a wrong time or event (`Faults`).

The caller is the scheduler: it initializes, writes at the present time, advances up to the
next event, checks `current_time` after every call (`cosim.rs:315`, `362`, `554`), and asks nothing
but a new `initialize` after an error.

What is abstracted:
- one line or command is one message; its text is cut into fields;
- a level stands for a bit or a voltage, and the properties only tell levels apart;
- a picosecond clock of a few ticks; Renode's helper moves in whole nanoseconds (`NsTicks`);
- external: libngspice, the user's HDL, and Renode, whose External Control server
  is taken to serve one client at a time and to keep its machine from one to the next;
- the checks of bindings and configuration in the constructors, and temporary directories;
- Verilator's build is the spawn; `BatchExecution` has its polling loop.

Behaviour that the model shows and no property forbids: a bidirectional pad of Renode is
compared with the level read back (`renode.rs:1401`), so that an unchanged write may be sent or
skipped; a Verilator helper that hangs blocks its caller for good, which the exception in
`CallReturns` names.

### BatchExecution

State: `engine`, the probed files `wanted` and whether there is a time limit (`limited`)
stay as chosen; `step` is the place in the engine's plan (build, run, version probe), `phase`
the place in that step; `child` and `size` are the process and its files; `runDir` is the temporary
directory; `cancelled` and `expired` are what the polling loop looks at.

Actions: `Start` is everything up to the directory and its files; `Begin` starts a child or
a probe; `LookForExit .. LookAtFiles` are the looks of one round of the polling loop, in the order
of the code; `Judge` is what happens after an exit, different for each engine; `DropChild`
and `DropDir` are the two guards. The child writes and exits, the token is set and the clock runs
out between any two of them.

What is abstracted: contents of files (a result parses or does not), sizes in units, the
error codes that are not a cancellation, a timeout or a limit (`failed`). In a version probe
`Command::output()` waits without limit (`ProbeHangs`). XSPICE tries its solver out on a netlist of its own
(`xspice.rs:1208`); the directory and the child of that trial belong to it alone and are not `runDir` and `child`.

### CircuitValidation, EngineCompilation and SimulationRequests

`CircuitValidation` is every error of `validate_circuit`. A name is a string that may carry
blanks (`Padded` maps it to its bare form), because the code compares some names trimmed and some as
written; legal port and GPIO mappings are named with what they mean (`HdlPort`, `GpioPin`), because the
code compares some by text and some by meaning. `EngineCompilation` has, for each engine, the
circuits its `compile_request` accepts and the node, wire or GPIO it gives each endpoint.

`SimulationRequests` holds a request and a registration order. `Validate`, `Select` and `Compile`
are the three calls of `simulate_with_control`; `outcome` is the error it returns, if any.

What is abstracted: parameters are good, crossed (an empty bridge window), unknown (X or Z), falling (a clock
edge, which XSPICE refuses), broken, or unfit: accepted by validation and refused by every engine that asks, such as a resistance
of zero or a negative delay. A SPICE source declares an entry that fits one kind of component, by its
device type or its five ports, or none; other source is good or not; the kinds of components are grouped by what the code asks of them,
and `mux2` stands for all that only the built-in engine has; warnings; the text that is generated.
Renode's firmware is taken to target some microcontroller of the circuit, whichever `renode.rs:323` is configured for.

Behaviour of the code that the model shows and no property forbids: circuits are validated by
`Simulator` only, an engine called directly compiles what it is given; an endpoint on two nets is not
a validation error, and Renode, which does not refuse it either, shows the last of the two
(`renode.rs:523`); a two-pin analogue element may declare its pins digital (`ngspice.rs:870`,
`mixed.rs:397`), since no engine asks.

## 3. Runs

| run | instance | shows |
|---|---|---|
| `pool` | 2 workers, 1 caller, 3 jobs in batches of 2, queue limit 1, retention 1, 2 attempts | `ExclusiveClaim`, `DrainLeavesNothingBehind`, `PruneKeepsRetained`, `VisibleTerminalIsFinal` |
| `crash` | 1 caller, 1 worker, 2 jobs, 2 attempts, 2 crashes, fairness | `OneFilePerJob`, `SnapshotCoherent`, `SucceededIsCached`, `ImplementsLifecycle`, `EventuallySettled`, `CancelTakesEffect` |
| `claim_race` | 2 workers, 1 caller, 2 jobs | `MarkerClosesClaimRace` is violated |
| `torn_cancel` | 1 caller, 1 worker, 1 job, 1 crash | `TerminalDirIsTerminal` is violated |
| `service` | 2 jobs, table of 1, 1 permit, 1 stream, channel of 2, fairness | `PermitsConserved`, `RetentionBounded`, `CancelWins`, `StreamCaughtUp`, `StreamEndsWithTerminal`, `JobSettles`, `StreamEnds` |
| `cosim_loop` | ADC, DAC, a digital and a SPICE backend in a closed loop, good and bad link lists; stop at 2 with a stride of 2, 3 delta cycles, 2 macro steps; all faults, cancels and timeouts; fairness | `LockStep`, `InputsAreAccepted`, `EventsAreNeverPassed`, `SettledWhenSampled`, `BridgesConvert`, `RunReturns` |
| `digital_board` | clock, flip-flop with reset, NAND gate on itself, tri-state buffer and inverter on one bus, counter; 3 ps of 2 units, 24 events, 20 transitions; fairness | `NoEdgeIsMissed`, `ChangesPropagate`, `NextEventIsFuture`, `HistoriesFollowNets`, `OperationReturns` |
| `digital_fractions` | an AND gate behind a clock with edges every 1.25 ps | `ChangesPropagate` is violated |
| `sessions` | each of the three backends; an input, an output and a pad; 4 ps, 2 of them a nanosecond, stop at 3; 2 helpers; all faults; fairness | `AnswersBelongToCommands`, `SkippedWritesAreRedundant`, `NoStrayHelper`, `KeepsContract`, `CallReturns` |
| `engines` | all five engines and the worker; files of up to 2 units with a limit of 1; fairness | `NothingLeftBehind`, `OutcomesAreEarned`, `RunReturns` |
| `worker_log` | the worker | `WorkerLogIsBounded` is violated |
| `requests` | 29 boards of one to three components, at most three nets, every way to connect them, two registration orders | `NodesFollowNets`, `DomainsMeetInBridges`, `HdlRoutingIgnoresOrder`, `PortsHaveOneDriver` |

Bounds. `MaxJobs` bounds the ids handed out and `MaxCrashes` the crashes; everything
else is a limit of the code. Two jobs and two workers are enough for a worker to
work from a listing that another one has emptied and for a retry to come back while
the other worker stops. A third job is what makes prunes differ: with a retention of one, `drain()` is about
to remove job 1 by the listing {1, 2} when the caller's third job hits the cache and its prune, by the listing
{1, 2, 3}, removes jobs 1 and 2. Prunes that overlap in the other order, or more than two of them, are in `PruneRetains`
only. `pool` reaches that in batches (`CallsInBatches`): the third job is submitted when the first
two have left `queue/` and `running/`, while their prunes may still be under way, and jobs of the first batch are
not cancelled any more then; three jobs that all run at once are in the theorems only (`DrainSettles` holds for
every `Batch`). Two crashes put a crash at every step, recovery included, with a whole recovery and a second
drain after it. One cache key lets every later job hit the cache. In the service, a second job is what a full table of one has to
make room for or refuse; a channel of two is overrun by repeated cancels of one job,
and a table of one prunes the job of a stream that still reads. The service may stop
when all ids are used and all streams ended, so that deadlock is not checked there. Deadlock is
checked for the runtime: callers can always cancel a known job, and the owner can always drain.

In the co-simulation, some changes settle along the loop of four links within three
delta cycles and a backend that answers every change with another one does not; two time
units with a stride of two make a stride end early at an event, at the stop time and at its full
length, and two macro steps are one too few for some event patterns. `Exact` is 1, so that
neighbouring times already share a number of seconds. There is one run (`MaxRuns`): a second one from
every state in which the first can fail is in the theorems, which have no such bound, and
`HelperSession` restarts each session. A voltage at, between and beyond the thresholds each
occurs. A master that has returned for the last time may stop, so that deadlock is not
checked there.

In the digital runs the first clock edges fall on times that a master may or may not stop at;
the NAND gate settles while `en` is 0 and oscillates without delay when it is 1, until 24
events are counted, which the other components need fewer of; 20 transitions are
exceeded by some runs of the engine. The inverter's delay of one picosecond and the
buffer's of none meet on the bus, with contention, release and hand-off. A failed or finished
simulation stops, so that deadlock is not checked there.

In `sessions`, two helpers make a second run begin from every state in which the first one can
end, with a helper that still lives, hangs or has died and a line still in its pipe. Four ticks hold
an advance below, at and above a nanosecond (two ticks) and ngspice's stop time (three) with one tick beyond it. The scheduler
may stop calling, so that deadlock is not checked. In `engines`, a limit of one and files of
up to two units put every file below, at and above the limit; a run ends once. In `requests`, boards have
at most three components and three nets, which is what it takes to join, split or ground a
node and to put a bridge between two nets; `twice` lists an endpoint on two nets or one that does not exist. A
request returns or is compiled and then stops.

Fairness (`FairSpec`): weak fairness of each caller's call in progress, of each
worker and of the owner. Callers need not call. A task or blocking thread that can run
is scheduled eventually by tokio and the operating system; executions end
because the execution policy bounds their time; that the owner drains again and
reopens after a crash is the assumption under which a durable queue promises
anything.

In the service, the task of every accepted job and every stream are weakly fair:
tokio polls what can go on, its semaphore is first come first served and its permits
do come back, simulations end because the execution policy bounds them, and a client
reads or its connection fails.

In the co-simulation only the master is fair: each of its steps is a call on a participant,
and these return. For the in-process participants and the bridges that is plain from
their code (`OperationReturns` for the digital one); the sessions of Renode and ngspice wait with a timeout; Verilator's read has
none, so that there the assumption rests on the simulated model. Cancelling is not fair.

In `sessions`, the thread of the call goes on, a read that polls ends by its
timeout, which is configured, and a helper that has neither hung nor died connects and answers
(WF of `Spawn` and its failures, `Receive`, `HelperExited`, `ReadTimesOut`, and of the helper's
answers). Helpers need not stay alive, and cancelling is not fair. In `engines`, the thread
of `run` keeps polling and time passes; a child need not exit.

In the digital simulation the thread inside an operation goes on (`Operation`); a master
need not call again, and cancels are not fair.

Deviations found:
- `claim_race`: the comment at `runtime.rs:728` says that the cancellation marker
  closes the race between claim and registration. A job whose key is cached is
  completed by `run_next` (line 803) before it registers and without looking at the
  marker: a cancel in that window has no effect, and its marker stays.
- `torn_cancel`: `cancel()` renames the file into `terminal/` and rewrites it
  afterwards. A crash in between leaves a record with status queued that `open()`
  does not recover: the job is neither cancelled nor run. `JobLifecycle` calls this
  state stuck, so that the refinement documents it.
- `digital_fractions`: `docs/digital.md:47` promises that every logical change is propagated
  after the delay. A session processes an event up to half a picosecond after the time it
  was sent to (`digital.rs:1266`), but schedules writes from that time itself. An output of a
  gate that is computed from a clock edge at 1.25 ps before a write at 1 ps arrives after the output
  of the write and stays, although it belongs to the old input. Periods that are no multiple of a
  picosecond (48 MHz, say) have such edges.
- `worker_log`: `docs/production-runtime.md:25` says that log limits remain enforced for
  the isolated worker. `execute` compares `worker.log` with its limit between two polls only
  (`runtime.rs:577`): what a worker writes after the last poll and before it exits is not measured,
  and its result is returned. All five engines look at their logs once more.

## 4. Theorems

All theorems hold for every value of the modules' constants: any number of callers,
workers, keys, jobs, streams and crashes, any network or circuit, any ports, faults and limits.
Where one has a hypothesis of its own, it is part of the statement below.

`ProductionRuntimeProofs`, about where the files are:

- `TypeCorrect`: `Spec => []TypeOK`
- `FilesExclusive`: `Spec => []OneFilePerJob`
- `ClaimsExclusive`: `Spec => []ExclusiveClaim`
- `RecoveryNeverConflicts`: `Spec => []NoRecoveryConflict`

None of the four is inductive. Even the types are not: that `running[j]` is a record
when its owner reads it depends on nobody else moving it. `IInv` adds what the
argument needs: local variables are defined where they are used (`LocalsDefined`); an
id has no file before its own submission stores one (`IdsAreFresh`); a job that a
`cancel()` has renamed does not come back (`WithdrawnForGood`), so that its late
rewrite cannot create a second file; a claimed job has one owner and its file
(`ClaimsHeld`); recovery works on files that exist and only while nobody else does
(`RecoveryListed`). `Init => IInv` and `IInv /\ [Next]_vars => IInv'` are `InitInv` and
`StepInv`; the latter has one lemma per actor and part of the invariant.

- `PruneRetains`: `Spec => []PruneKeepsRetained`

A prune works by a listing that gets old while others prune too. `PrunesBeyond` says what
makes that harmless: behind every file that is still on a list stand `MaxRetained` newer ones, and it stays
so, because another prune only removes a file that has as many behind itself (`MoreFiles`
does the counting).

`ProductionRuntimeRecordProofs`, about what the files say:

- `SnapshotsCoherent`: `Spec => []SnapshotCoherent`
- `SuccessesCached`: `Spec => []SucceededIsCached`
- `AttemptsAreBounded`: `Spec => []AttemptsBounded`
- `SettledJobsStay`: `Spec => SettledIsFinal`

The argument: a record is *sound* if its fields fit together, a success is cached and
its attempts are within the limit, and *claimable* if one more attempt may be counted.
`RecordInv` says that every record in `queue/` is claimable, every other stored one
sound, and what the local records of workers and callers are at each point of their
control; after a crash every running record has an attempt left, which is why the
bound is `MaxAttempts + crashes` and no less. A settled job stays because a withdrawn
record is not yet terminal and has one withdrawer, who alone rewrites it. The first
section of the module shows what each record update of the code preserves; the rest
uses only that.

- `LifecycleImplemented`: `Spec => ImplementsLifecycle`, the refinement of `JobLifecycle`
- `VisibleEndsStay`: `MaxCrashes = 0 /\ Spec => VisibleTerminalIsFinal`
- `VisibleUntilRecovery`: the same property while recovery is not at work, for any number of crashes
- `DrainSettles`: `MCSpec => []DrainLeavesNothingBehind`

The refinement is a simulation of steps: `Entry(j)` is what the files say of job `j`, and every
step changes the entry of one job by one move of `JobLifecycle`, or no entry at all
(`LifeStutters`, `JobBecomes`). `ClientLife`, `WorkerLife`, `MainLife` and `CrashLife` are the
cases, one per actor. They need three more things, which with the above make up `LifeInv`: a file in
`running/` has a worker or the recovery that will take it back (`RunningOwned`); callers are under
way in an open process only (`CallersUp`); and the copies that workers and callers are about to write differ
from the files by the change of the code and nothing else (`RunsShown`, `CallersShow`).

An end that a caller sees is one that `finish_job` has published in `running/` or one in
`terminal/`. Without a crash the first becomes the second. After a crash between the two, recovery
puts the job back into the queue, and it is seen as queued again: `VisibleTerminalIsFinal` is
false then, which is why its theorem has the hypothesis and `VisibleUntilRecovery` says
what is left in general. The run `pool` has no crashes either.

`DrainLeavesNothingBehind` is about `due`, the jobs on disk when `drain()` was called. `DueWatched`
says that each of them that is in the queue has a worker that will still look at it (it is on
the worker's listing, or the worker will list again), and that no submission brings one back.

`SimulationServiceProofs`: all safety properties of the service, `TypeCorrect`,
`PermitsAreConserved`, `RetentionIsBounded`, `ActiveJobsAreRetained`, `CancelsWin`,
`StreamsCatchUp`, `StreamsEndWithTerminal` (invariants) and `TerminalIsFinal` (the action
property `TerminalOnce`). Together with two statements about local variables they
are inductive (`IInv` there): the table part first, then the cardinalities of permits
and table, then the channels, whose last event is all that matters.

TLC agreed that `IInv` and `RecordInv` are invariants of small instances of the runtime, and
that the service's `IInv` is one of two jobs with one stream, before the proofs were written.

`CoSimulationSchedulerProofs`, for any network, links, limits, faults and number of runs:

- `SharedTime`: `Spec => []LockStep`
- `SamplesAreSettled`: `Spec => []SettledWhenSampled`
- `NoEventIsPassed`: `Spec => []EventsAreNeverPassed`
- `DeliveriesAreAccepted`: `Spec => []InputsAreAccepted`
- `ConversionsAreSettled`: `Spec => []BridgesConvert`
- `WaveformsStayOrdered`: `Spec => []WaveformsAreOrdered`
- `TypeCorrect`: `Spec => []TypeOK`

`Inv` holds what the first three need: the types of participants and locals; the counters
in each phase (`ControlInv`); that the stride ends before the next event of all participants
that are still to make it (`StrideInv`); and, the heart of it, that as long as a round has
changed nothing the sources still show what was read and the targets written so far hold
it (`RoundInv`), from which a round without a change proves the links settled. `PortsInv`
adds that a port is sound for its participant: inputs are accepted, and the output of a
bridge is the conversion of its input; the settled links then give the conversion across
the bridge. `WaveInv` adds that the last recorded time of a signal is before the time to
be recorded, up to the rounding of `Seconds`, which is shown to be monotone. TLC agreed that
the three are invariants of closed loops and of a network with all faults and two runs.

The assumptions are `GraphAssumption` and `ConfigAssumption`, which `validate_ports` and
`CoSimulationConfig::validate` enforce, and `BridgeAssumption`: the ports and the order of
voltages and thresholds that the constructors of the bridges establish.

`DigitalSimulationProofs`, for any circuit, delays and limits:

- `TypeCorrect`: `Spec => []TypeOK`
- `NextEventsAreFuture`: `Spec => []NextEventIsFuture`
- `HistoriesFollow`: `Spec => []HistoriesFollowNets`
- `ChangesArrive`: `WholePicoseconds /\ Spec => []ChangesPropagate`
- `NoEdgeIsMissedAlways`: `Spec => []NoEdgeIsMissed`. Inductive form (`ClocksFollow`): a clocked
  component has stored the level of its clock net or waits in `affected`; a bucket or a write
  that changes the net puts it there, and every evaluation stores the level, whatever set,
  reset or enable do.
- `CombinationalNeverGuesses`: the combinational components are monotone in what is known of
  their inputs. A lemma per kind of gate, then one case per component.

The first three come from `DigitalInv`: each driver's queue is in order of time and not before the
operation's present (`QueuesAhead`), a session stays within its stop time (`WithinStop`), what components store
and drive has the shape of their outputs (`StatesOK`), and histories ascend; the engine's end with the
value of their net, at a time that is not later than the bucket at work (`HistoriesAscend`). A session may be half
a picosecond ahead of the master; that this is less than one is what `NextEventsAreFuture` turns on.

`ChangesArrive` adds to it that all times are whole picoseconds (`WholeTimes`), that a
session is not ahead of the master then and no driver has an event later than an
evaluation of now would schedule (`InTime`), that a net is what its drivers resolve to
(`NetsResolved`), and that a gate waits in `affected` or its last event, or else its driver, has the value of
the present inputs (`OutputsFollow`); the last two leave out drivers that were never active and gates
whose inputs are all X, as `ChangesPropagate` does. The hypothesis `WholePicoseconds` says that every delay and every
level of a clock is a whole number of picoseconds. It is needed: `digital_fractions`
is a circuit without it where the property is false. `digital_board` has it.

Their assumptions are `CircuitAssumption`, `TimeAssumption` and `PinsAssumption`. `compile` and
`compile_component` establish the first and the last: widths of sources and registers are positive, a
register has as many inputs as bits, and no component drives more pins than it evaluates.

`BatchExecutionProofs`, for any engines, limits and file sizes:

- `TypeCorrect`: `Spec => []TypeOK`
- `NothingIsLeftBehind`: `Spec => []NothingLeftBehind`
- `EveryOutcomeIsEarned`: `Spec => []OutcomesAreEarned`

The inductive `Inv` adds what `run` has in its hands in each phase (`PhasesHold`), and that a result
has been earned before the version probe that comes last (`OutcomesHold`): from `Judge` on, no
child can touch a file any more.

`HelperSessionProofs`, for any ports, times, quanta and faults:

- `TypeCorrect`: `Spec => []TypeOK`
- `AnswersBelong`: `Spec => []AnswersBelongToCommands`
- `SkipsAreRedundant`: `Spec => []SkippedWritesAreRedundant`
- `HelpersAreOwned`: `Spec => []NoStrayHelper`
- `ContractKept`: `Spec => KeepsContract`, the refinement of `ParticipantContract`

`Inv` follows the one message that is under way: a participant that may be used holds the newest
helper (`CallsHold`), its pipes are empty, and a call that waits has either its command or one
line in them (`PipesHold`), which describes the device unless it lies (`LinesHold`); what the device
was given is what the session remembers, with or without the write that is under way
(`InputsHold`, `MirrorHolds`). It is inductive because a failed call leaves a participant that no call but
`initialize` reaches, and `initialize` brings a new helper with new pipes. `ContractKept` maps every step to
a step of the contract or a stutter.

`SimulationRequestsProofs`, for any boards and registration orders:

- `HdlRouting`: `Spec => []HdlRoutingIgnoresOrder`
- `PortsOneDriver`: `Spec => []PortsHaveOneDriver`
- `NodesFollow`: `Spec => []NodesFollowNets`
- `DomainsMeet`: `Spec => []DomainsMeetInBridges`

The first from: the selected engine supports the request (`SelectedSupports`), at most one engine
supports a request with an HDL module (`HdlEngine`), and Renode compiles nothing beside its
microcontroller (`RenodeParts`). The last two from `CircuitInv`: from validation on the
circuit is a valid one. Then names of nets differ (`NetIdsDiffer`), an endpoint is on one net for all engines but
Renode (`OneNet`), and each engine's node is a function of that net that tells nets apart (`NodeTogether`);
Renode, which takes the last net of a GPIO, shows a GPIO on a net of the endpoint
(`RenodeShows`). In a mixed circuit each pin of a bridge declares its domain
(`PinDeclares`), and `classify_nets` has put its net on that side (`SideOfPin`).

Their assumptions are `RegistriesAssumption`, the orders are orders of the same engines, and
`BoardsAssumption`, nets and pins are in vectors. The proof of `NodesFollow` corrected the model: an
endpoint without a GPIO had a node that a pin named `none` would share, and the statement about
Renode said less than it does now, which is about pins of the microcontroller.

For runtime and service the assumptions are the modules' `LimitsAssumption` (`ProductionRuntimeLimits::validate`
and `ServiceLimits::validate` refuse zero limits) and `NoneAssumption` (a missing file or
entry is not mistaken for a record). Those of the helper sessions are the disjoint port names
and the positive resolution of time that the constructors check.

Proved and not run, because they add nothing to what the runs show: the type invariants,
`NoRecoveryConflict`, `AttemptsBounded`, `SettledIsFinal`, `VisibleUntilRecovery`,
`ActiveJobsRetained`, `TerminalOnce`, `WaveformsAreOrdered` and `CombinationalNeverGuesses`.

Model-checked only: the liveness properties `EventuallySettled`, `CancelTakesEffect`, `JobSettles`,
`StreamEnds`, `RunReturns` (of `cosim_loop` and of `engines`), `OperationReturns` and `CallReturns`. They rest on
fairness, hence on ENABLED, which the prover does not support. Every other property of a run that
passes has a theorem above, two of them under the hypotheses named there.

## 5. Not modelled

What is left out, and why:

- **Text.** Netlists, HDL harnesses, Renode scripts, tables, VCD and logs that the engines write and read back.
  They are functions of strings without state; what matters of them, which endpoint is which node and which
  file decides the outcome, is in `EngineCompilation` and `BatchExecution`.
- **Numbers.** Parameter values and units, rounding of f64. Events of the digital engine are batched by the bits of their time
  (`digital.rs:632`), so that times added up along different paths may miss each other; TLC and the
  provers have no floating point. `digital_fractions` shows what is left with exact numbers.
- **`ContentAddressedStore`** and the request key: their point is SHA-256.
- **`SimulatorExecutor`**, the data types and the two binaries keep no state of their own.
- **I/O errors** other than those of a lost race. One inside `run_next` (`runtime.rs:938`) leaves its job
  in `running/` until the next `open()`.
- **Two processes on one root.** `recover_incomplete` is public and `open()` runs it too (`runtime.rs:750`): on a live
  root it takes running jobs away from their workers. The docs describe one host process.

Further hazards of the code that no property is about: two links that write into one participant
do so in the order of their names (`cosim.rs:545`), and two input ports of a digital participant may share a
net (`digital.rs:884`); nothing says which of the two should win. `settle_links` needs a round without a
change to stop (`cosim.rs:512`). The queue may exceed its limit by one job for each caller inside
`submit()` and by the claimed jobs that come back (`runtime.rs:644`).

What is worth proving next: lemmas about `Resolve` and `Stored` like those about the gates, and
the bound of the queue in the presence of requeued jobs.
