------------------------ MODULE DigitalSimulation ------------------------
(***************************************************************************)
(* The two drivers of the event queue of digital.rs: DigitalEngine::run,   *)
(* which simulates a circuit to its end, and the session of a              *)
(* DigitalCoSimulationParticipant, which a co-simulation master advances   *)
(* and writes to.  A step is what happens between two looks at the         *)
(* cancellation token.                                                     *)
(*                                                                         *)
(* The master's time is in picoseconds; events have times of their own, in *)
(* units of which Scale make a picosecond.                                 *)
(***************************************************************************)
EXTENDS DigitalPrimitives, FiniteSets

CONSTANTS
  Nets,
  External,       \* nets that input ports are bound to
  Delay,          \* the delay of a component, in units
  Low, High,      \* the durations of the levels of a clock, in units
  Scale,
  Stop,           \* the end of the analysis, in units
  MaxEvents,      \* MAX_DIGITAL_EVENTS
  MaxTransitions  \* what max_output_bytes allows a result to hold

ASSUME CircuitAssumption ==
  /\ Components \subseteq Nat /\ IsFiniteSet(Components)
  /\ Kind \in [Components -> Kinds]
  /\ \A c \in Components :
       /\ \A pin \in DOMAIN In[c] : In[c][pin] \in Nets
       /\ Out[c] \in Seq(Nets \ External)
       /\ Delay[c] \in Nat /\ (Kind[c] \in Sources => Delay[c] = 0)
       /\ Kind[c] \in Clocked => "clk" \in DOMAIN In[c]
  /\ External \subseteq Nets
  /\ None \notin Logic

(* compile_component: the output pins that a component of each kind may    *)
(* have, and its initial bits.                                             *)
OutputPins(c) ==
  CASE Kind[c] \in Vectors -> Len(Initial[c])
    [] Kind[c] \in Latches \cup FlipFlops \cup {"demux2"} -> 2
    [] Kind[c] = "decoder2_to_4" -> 4
    [] Kind[c] = "logic_output" -> 0
    [] OTHER -> 1

ASSUME PinsAssumption ==
  \A c \in Components :
    /\ Kind[c] \in Sources \cup Sequential => Initial[c] \in Seq(Logic) \ {<<>>}
    /\ Kind[c] = "register" => Data[c] \in [DOMAIN Initial[c] -> Nets]
    /\ Len(Out[c]) <= OutputPins(c)

ASSUME TimeAssumption ==
  /\ Scale \in Nat \ {0} /\ Scale % 2 = 0 /\ Stop \in Nat \ {0}
  /\ MaxEvents \in Nat /\ MaxTransitions \in Nat
  /\ \A c \in Components : Kind[c] = "digital_clock" =>
       Low[c] \in Nat \ {0} /\ High[c] \in Nat \ {0} /\ Known(Initial[c][1])

VARIABLES
  mode,       \* "none", "session" or "engine"
  phase,      \* "idle", "process" or "evaluate"; "done" or "failed" at the end
  clock,      \* DigitalParticipantSession::current_time
  target,     \* the time an operation of the session goes to
  nets, drivers, state,
  queue,      \* the pending events of each driver, in their order
  scheduled,
  at, affected,  \* of the present bucket: its time, the components to evaluate
  histories

vars == <<mode, phase, clock, target, nets, drivers, state, queue, scheduled, at, affected, histories>>
circuitVars == <<nets, drivers, state, queue, scheduled, at, affected, histories>>

---------------------------------------------------------------------------
(* The circuit. *)

Drivers == {d \in Components \X (1 .. 64) : d[2] \in DOMAIN Out[d[1]]}
NetOf(d) == Out[d[1]][d[2]]
DriversOf(n) == {d \in Drivers : NetOf(d) = n}
InputNets(c) ==
  {In[c][pin] : pin \in DOMAIN In[c]}
    \cup (IF Kind[c] = "register" THEN {Data[c][i] : i \in DOMAIN Data[c]} ELSE {})
Dependents(n) == {c \in Components : n \in InputNets(c)}

Event(t, v) == [time |-> t, value |-> v]

(* The levels of a clock up to the stop time. *)
ClockEvents(c) ==
  LET first == IF Initial[c][1] = "0" THEN Low[c] ELSE High[c]
      time(i) == (i \div 2) * (Low[c] + High[c]) + (IF i % 2 = 0 THEN 0 ELSE first)
      level(i) == IF i % 2 = 0 THEN Initial[c][1] ELSE Not(Initial[c][1]) IN
  [i \in 1 .. Cardinality({n \in 0 .. Stop : time(n) <= Stop}) |-> Event(time(i - 1), level(i - 1))]

InitialState(c) == [bits |-> IF Kind[c] \in Sequential THEN Initial[c] ELSE <<>>, clk |-> "X"]
InitialEvents(d) ==
  LET c == d[1] IN
  CASE Kind[c] = "logic_input" -> <<Event(0, Initial[c][1])>>
    [] Kind[c] = "digital_clock" -> ClockEvents(c)
    [] Kind[c] \in Sequential -> <<Event(0, StateOutputs(c, InitialState(c))[d[2]])>>
    [] OTHER -> <<>>

(* An event goes behind those of its driver that are not later. *)
Insert(q, e) ==
  LET n == Cardinality({i \in DOMAIN q : q[i].time <= e.time}) IN
  SubSeq(q, 1, n) \o <<e>> \o SubSeq(q, n + 1, Len(q))

---------------------------------------------------------------------------
(* A bucket: all events of one time. *)

Heads == {queue[d][1].time : d \in {e \in Drivers : queue[e] # <<>>}}
Due(d, t) == {i \in DOMAIN queue[d] : queue[d][i].time = t}
NewDrivers(t) ==
  [d \in Drivers |-> IF Due(d, t) = {} THEN drivers[d] ELSE queue[d][Cardinality(Due(d, t))].value]
Touched(t) == {NetOf(d) : d \in {e \in Drivers : \E i \in Due(e, t) : queue[e][i].value # drivers[e]}}
NewNetsUnresolved(t) ==
  [n \in Nets |->
     IF \E d \in DriversOf(n) : Due(d, t) # {}
     THEN NewDrivers(t)[CHOOSE d \in DriversOf(n) : Due(d, t) # {}] ELSE nets[n]]
NewNets(t) ==
  [n \in Nets |-> IF n \in Touched(t) THEN Resolve({NewDrivers(t)[d] : d \in DriversOf(n)}) ELSE nets[n]]

(* push_transition: one transition per time, and none without a change. *)
Latest(h) == h[Len(h)]
PushOnce(h, t, v) == IF Latest(h).time = t \/ Latest(h).value = v THEN h ELSE Append(h, Event(t, v))
Push(h, t, v) ==
  IF Latest(h).time = t THEN [h EXCEPT ![Len(h)].value = v]
  ELSE IF Latest(h).value = v THEN h ELSE Append(h, Event(t, v))
NewHistories(t) ==
  [n \in Nets |-> IF mode = "engine" /\ NewNets(t)[n] # nets[n]
                  THEN Push(histories[n], t, NewNets(t)[n]) ELSE histories[n]]

(* enforce_transition_budget, which adds up the transitions of all nets. *)
Transitions(t) == UNION {{n} \X (1 .. Len(NewHistories(t)[n])) : n \in Nets}

---------------------------------------------------------------------------
(* The operations. *)

Nothing ==
  /\ nets = [n \in Nets |-> "X"] /\ drivers = [d \in Drivers |-> "Z"]
  /\ state = [c \in Components |-> InitialState(c)]
  /\ queue = [d \in Drivers |-> <<>>] /\ scheduled = 0
  /\ at = 0 /\ affected = {}
  /\ histories = [n \in Nets |-> <<Event(0, "X")>>]

Init == mode = "none" /\ phase = "idle" /\ clock = 0 /\ target = 0 /\ Nothing

(* The first events of all components.  Too many of them fail the run. *)
FirstEvents == UNION {{d} \X (1 .. Len(InitialEvents(d))) : d \in Drivers}
Begin(m) ==
  /\ mode = "none" /\ phase = "idle"
  /\ mode' = m
  /\ queue' = [d \in Drivers |-> InitialEvents(d)]
  /\ scheduled' = Cardinality(FirstEvents)
  /\ phase' = IF scheduled' > MaxEvents THEN "failed" ELSE "process"
  /\ UNCHANGED <<clock, target, nets, drivers, state, at, affected, histories>>

(* DigitalEngine::run, and initialize of the participant, which advances   *)
(* the new session to time zero.                                           *)
Run == Begin("engine")
Initialize == Begin("session")

(* advance_to, within the stop time of the circuit. *)
Advance(t) ==
  /\ mode = "session" /\ phase = "idle"
  /\ t >= clock /\ t * Scale <= Stop + Scale \div 2
  /\ target' = t /\ phase' = "process"
  /\ UNCHANGED <<mode, clock, circuitVars>>

(* write_input: a new value of an input net at the present time. *)
Write(n, v) ==
  /\ mode = "session" /\ phase = "idle" /\ nets[n] # v
  /\ nets' = [nets EXCEPT ![n] = v]
  /\ at' = clock * Scale /\ affected' = Dependents(n) /\ phase' = "evaluate"
  /\ UNCHANGED <<mode, clock, target, drivers, state, queue, scheduled, histories>>

(* The end of process_until or of run, when no event is left up to its     *)
(* target, in a session half a picosecond more.                            *)
LimitExclusive == IF mode = "session" THEN target * Scale - 1 ELSE Stop
Limit == IF mode = "session" THEN target * Scale + Scale \div 2 ELSE Stop
Finish ==
  /\ phase = "process" /\ \A t \in Heads : t > Limit
  /\ clock' = target
  /\ phase' = IF mode = "session" THEN "idle" ELSE "done"
  /\ UNCHANGED <<mode, target, circuitVars>>

(* The first bucket of events: the drivers take their values, the nets are *)
(* resolved, and what reads a net that changed is to be evaluated.         *)
Bucket ==
  /\ phase = "process"
  /\ \E t \in Heads :
       /\ \A u \in Heads : t <= u
       /\ t <= Limit
       /\ drivers' = NewDrivers(t) /\ nets' = NewNets(t) /\ histories' = NewHistories(t)
       /\ queue' = [d \in Drivers |-> SubSeq(queue[d], Cardinality(Due(d, t)) + 1, Len(queue[d]))]
       /\ affected' = {c \in Components : \E n \in InputNets(c) : NewNets(t)[n] # nets[n]}
       /\ at' = t
       /\ phase' = IF mode = "engine" /\ NewNets(t) # nets /\ Cardinality(Transitions(t)) > MaxTransitions
                   THEN "failed" ELSE "evaluate"
  /\ UNCHANGED <<mode, clock, target, state, scheduled>>

(* The components are evaluated, all on the nets of the bucket; outputs    *)
(* beyond the stop time are dropped.  One event too many fails the run,    *)
(* after which nothing looks at the state again.                           *)
Evaluated == {c \in affected : Kind[c] \in Combinational \cup Sequential}
Result(c) == NextState(c, nets, state[c])
Emits(d) == d[1] \in Evaluated /\ at + Delay[d[1]] <= Stop
EvaluateAll ==
  /\ phase = "evaluate"
  /\ state' = [c \in Components |-> IF c \in Evaluated THEN Result(c) ELSE state[c]]
  /\ queue' = [d \in Drivers |->
       IF Emits(d)
       THEN Insert(queue[d], Event(at + Delay[d[1]], Outputs(d[1], nets, Result(d[1]))[d[2]]))
       ELSE queue[d]]
  /\ affected' = {}
  /\ UNCHANGED <<mode, clock, target, nets, drivers, at, histories>>
EvaluateUncounted == EvaluateAll /\ phase' = "process" /\ UNCHANGED scheduled
Evaluate ==
  /\ EvaluateAll
  /\ scheduled' = scheduled + Cardinality({d \in Drivers : Emits(d)})
  /\ phase' = IF scheduled' > MaxEvents THEN "failed" ELSE "process"

(* Cancelled or out of time: the engine looks before each bucket, a        *)
(* session also at the end and between the nets and the components.        *)
Interrupt ==
  /\ IF mode = "session" THEN phase \in {"process", "evaluate"} ELSE phase = "process" /\ Heads # {}
  /\ phase' = "failed"
  /\ UNCHANGED <<mode, clock, target, circuitVars>>

Operation == Finish \/ Bucket \/ Evaluate
Next ==
  \/ Run \/ Initialize
  \/ \E t \in 1 .. Stop : Advance(t)
  \/ \E n \in External, v \in Logic : Write(n, v)
  \/ Operation \/ Interrupt

(* The thread that runs an operation goes on. *)
Spec == Init /\ [][Next]_vars /\ WF_vars(Operation)

---------------------------------------------------------------------------
(* Properties. *)

TypeOK ==
  /\ mode \in {"none", "session", "engine"}
  /\ phase \in {"idle", "process", "evaluate", "done", "failed"}
  /\ clock \in Nat /\ target \in Nat /\ at \in 0 .. Stop + Scale /\ scheduled \in Nat
  /\ phase # "failed" => scheduled <= MaxEvents
  /\ nets \in [Nets -> Logic] /\ drivers \in [Drivers -> Logic]
  /\ \A c \in Components : state[c].bits \in Seq(Logic) /\ state[c].clk \in Logic
  /\ queue \in [Drivers -> Seq([time : 0 .. Stop, value : Logic])]
  /\ affected \subseteq Components
  /\ histories \in [Nets -> Seq([time : 0 .. Stop, value : Logic])]

(* The clock level a flip-flop, register or counter compares with is that  *)
(* of the net, whatever forced or disabled it in between: no edge is seen  *)
(* twice and none is missed (digital.rs:275).                              *)
NoEdgeIsMissed ==
  phase \in {"idle", "process", "done"} =>
    \A c \in Components : Kind[c] \in Clocked => state[c].clk = ClockIn(c, nets)

(* Every logical change is propagated after the delay (docs/digital.md:47):*)
(* a net is the resolution of its drivers once one of them has driven it,  *)
(* and the last value on its way to an output is that of the present       *)
(* inputs, once one of them was known, unless it would be too late for the *)
(* analysis.  It holds as long as all events fall on whole picoseconds.    *)
ChangesPropagate ==
  phase \in {"idle", "process", "done"} =>
    /\ \A n \in Nets : DriversOf(n) # {} =>
         LET vs == {drivers[d] : d \in DriversOf(n)} IN nets[n] = Resolve(vs) \/ (vs = {"Z"} /\ nets[n] = "X")
    /\ \A d \in Drivers : (Kind[d[1]] \in Combinational /\ at + Scale + Delay[d[1]] <= Stop) =>
         LET last == IF queue[d] = <<>> THEN drivers[d] ELSE Latest(queue[d]).value IN
         \/ last = Driven(d[1], nets)[d[2]]
         \/ last = "Z" /\ \A n \in InputNets(d[1]) : nets[n] = "X"

(* next_event_time as the trait demands it: after each operation of the    *)
(* session what is left lies in the future of the master's clock, rounded  *)
(* to it as digital_seconds_to_future_cosim_time does (digital.rs:1359).   *)
NextEventTime(t) == (t + Scale - 1) \div Scale
NextEventIsFuture ==
  (mode = "session" /\ phase = "idle") => \A t \in Heads : NextEventTime(t) > clock

(* The waveform of a net in a result moves forward in time and ends, for   *)
(* each time, with the final state of the net (docs/digital.md:46).        *)
HistoriesFollowNets ==
  mode = "engine" => \A n \in Nets :
    LET h == histories[n] IN
    /\ Latest(h).value = nets[n]
    /\ \A i \in 1 .. Len(h) - 1 : h[i].time < h[i + 1].time

(* An operation returns, also on a circuit that oscillates without delay:  *)
(* the event count stops it (docs/digital.md:50).                          *)
OperationReturns == phase \in {"process", "evaluate"} ~> phase \notin {"process", "evaluate"}
==========================================================================
