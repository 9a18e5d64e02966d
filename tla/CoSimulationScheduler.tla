---------------------- MODULE CoSimulationScheduler ----------------------
(***************************************************************************)
(* The co-simulation master of cosim.rs (CoSimulationScheduler::run and    *)
(* the WaveformRecorder) over the participants it drives: the DAC and ADC  *)
(* bridges of cosim_bridge.rs and backends, which may do anything the      *)
(* CoSimulationParticipant trait lets them do.  The master is one thread;  *)
(* each call it makes on a participant is a step, and between two steps    *)
(* another thread may cancel the run or its time may run out.              *)
(*                                                                         *)
(* Participants and ports are numbers, in the order of the BTreeMap and of *)
(* (participant, port) names, so that < is the order the code sorts by.    *)
(***************************************************************************)
EXTENDS Integers, Sequences, FiniteSets

CONSTANTS
  None,
  Participants, Ports,
  Owner,          \* the participant of a port
  Direction,      \* "in", "out" or "inout"
  Domain, Unit,   \* "digital" or "analog", and the unit of an analog port
  Kind,           \* "dac", "adc", "events" (digital engine, Verilator,
                  \* Renode) or "sampled" (ngspice: reports no events)
  Logic, Voltages,
  LowVoltage, HighVoltage, LowThreshold, HighThreshold,
  Registrations,  \* the link lists a caller may have connected
  Stop, MaxStep, MaxDeltaCycles, MaxSteps,
  MaxTime,        \* the largest CoSimulationTime
  Exact,          \* times below it are distinct as f64 seconds
  Faults,         \* how backends may break the contract: a subset of
                  \* {"fail", "time", "event", "value"}
  Interrupts,     \* a subset of {"cancel", "timeout"}
  MaxRuns         \* bound on the calls of run

ASSUME GraphAssumption ==
  /\ Participants \subseteq Nat /\ IsFiniteSet(Participants)
  /\ Ports \subseteq Nat /\ IsFiniteSet(Ports)
  /\ Owner \in [Ports -> Participants]
  /\ Direction \in [Ports -> {"in", "out", "inout"}]
  /\ Domain \in [Ports -> {"digital", "analog"}]
  /\ Kind \in [Participants -> {"dac", "adc", "events", "sampled"}]
  /\ Registrations \subseteq Seq(Nat \X Nat)

(* A bridge has one input and one output, of the two domains. *)
ASSUME BridgeAssumption ==
  /\ Voltages \subseteq Int /\ {LowVoltage, HighVoltage, LowThreshold, HighThreshold} \subseteq Int
  /\ LowVoltage < HighVoltage /\ LowThreshold < HighThreshold
  /\ \A p \in Participants : Kind[p] \in {"dac", "adc"} =>
       \E i, o \in Ports :
         /\ {q \in Ports : Owner[q] = p} = {i, o}
         /\ Direction[i] = "in" /\ Direction[o] = "out"
         /\ Domain[i] = IF Kind[p] = "dac" THEN "digital" ELSE "analog"
         /\ Domain[o] = IF Kind[p] = "dac" THEN "analog" ELSE "digital"

ASSUME ConfigAssumption ==
  /\ MaxTime \in Nat /\ Stop \in 1 .. MaxTime
  /\ MaxStep \in Nat \ {0} /\ MaxDeltaCycles \in Nat \ {0}
  /\ MaxSteps \in Nat \ {0} /\ MaxRuns \in Nat /\ Exact \in Nat \ {0}
  /\ None \notin Int \cup {"completed"}

VARIABLES
  registered,   \* CoSimulationScheduler::links
  clock, value, event,   \* current_time, the ports and next_event_time of the participants
  phase, outcome, todo, target, now, macroSteps, cycle, reads, changed, waveform,
  runs,         \* calls of run so far
  cancelled, expired

participantVars == <<clock, value, event>>
controlVars == <<cancelled, expired>>
callVars == <<registered, target, now, macroSteps, waveform, outcome, runs>>
vars == <<registered, clock, value, event, phase, outcome, todo, target, now,
          macroSteps, cycle, reads, changed, waveform, runs, cancelled, expired>>

---------------------------------------------------------------------------
(* Values, ports and links. *)

Digital(v) == <<"digital", v>>
Analog(v) == <<"analog", v>>
Zero == Digital(0)
One == Digital(1)
NaN == Analog(None)
Values == {Digital(v) : v \in Logic \cup {0, 1}}
            \cup {Analog(v) : v \in Voltages \cup {None, 0, LowVoltage, HighVoltage}}

(* CoSimulationValue::validate and the domain check at every read. *)
Accepted(q, v) == v # NaN /\ v[1] = Domain[q]

Writable == {q \in Ports : Direction[q] # "out"}
Readable == {q \in Ports : Direction[q] # "in"}
PortsOf(p) == {q \in Ports : Owner[q] = p}

(* validated_links: every error it can return is one "links_invalid". *)
ValidLink(l) ==
  /\ l[1] \in Readable /\ l[2] \in Writable
  /\ Domain[l[1]] = Domain[l[2]]
  /\ Domain[l[1]] = "analog" => Unit[l[1]] = Unit[l[2]]
ValidLinks(r) ==
  /\ \A i \in DOMAIN r : ValidLink(r[i])
  /\ \A i, j \in DOMAIN r : r[i][2] = r[j][2] => i = j

LinkBefore(l, m) == l[1] < m[1] \/ (l[1] = m[1] /\ l[2] < m[2])
FirstLink(l) == l \in todo /\ \A m \in todo \ {l} : LinkBefore(l, m)
FirstParticipant(p) == p \in todo /\ \A o \in todo : p <= o

---------------------------------------------------------------------------
(* The participants. *)

Bridge(p) == Kind[p] \in {"dac", "adc"}

ClassifyAdcStrict(v, previous) ==
  IF v < LowThreshold THEN 0 ELSE IF v > HighThreshold THEN 1 ELSE previous
ClassifyAdc(v, previous) ==
  IF v <= LowThreshold THEN 0 ELSE IF v >= HighThreshold THEN 1 ELSE previous

(* The outputs of the bridges: the DAC's of its input, the ADC's of its    *)
(* input and its previous output.                                          *)
DacOutput(v) == Analog(IF v = One THEN HighVoltage ELSE LowVoltage)
AdcOutput(v, previous) == Digital(ClassifyAdc(v[2], previous[2]))

(* A new bridge, and one after initialize. *)
DacReset(p) == [q \in PortsOf(p) |-> IF Direction[q] = "in" THEN Zero ELSE Analog(LowVoltage)]
AdcReset(p) == [q \in PortsOf(p) |-> IF Direction[q] = "in" THEN Analog(0) ELSE AdcOutput(Analog(0), Zero)]

(* What a backend may show on a port: a value of its domain or, with the   *)
(* fault "value", one that is not accepted (a NaN stands for those of the  *)
(* other domain too).                                                      *)
Shown(q) ==
  {v \in Values : Accepted(q, v)}
    \cup (IF "value" \in Faults /\ Direction[q] # "in" THEN {NaN} ELSE {})

(* The ports of p after initialize. *)
Initialized(p) ==
  CASE Kind[p] = "dac" -> {DacReset(p)}
    [] Kind[p] = "adc" -> {AdcReset(p)}
    [] OTHER -> {new \in [PortsOf(p) -> Values] : \A q \in PortsOf(p) : new[q] \in Shown(q)}

(* The ports of p after advance_to: a backend keeps its inputs. *)
Advanced(p) ==
  {new \in [PortsOf(p) -> Values] : \A q \in PortsOf(p) :
     IF Bridge(p) \/ Direction[q] = "in" THEN new[q] = value[q] ELSE new[q] \in Shown(q)}

(* The ports of p after write_input put v, a new value, on its port i and  *)
(* settled the outputs at the same time.                                   *)
Written(p, i, v) ==
  {new \in [PortsOf(p) -> Values] : \A q \in PortsOf(p) :
     CASE q = i /\ Direction[q] = "in" -> new[q] = v
       [] q # i /\ Direction[q] = "in" -> new[q] = value[q]
       [] Direction[q] # "in" /\ Kind[p] = "dac" -> new[q] = DacOutput(v)
       [] Direction[q] # "in" /\ Kind[p] = "adc" -> new[q] = AdcOutput(v, value[q])
       [] OTHER -> new[q] \in Shown(q)}

(* The errors write_input returns before it changes anything: the time is  *)
(* not the current one, the value is not for this port, and a DAC takes no *)
(* X or Z.                                                                 *)
WriteRejectedNotX(p, q, v) == clock[p] # target \/ ~Accepted(q, v)
WriteRejected(p, q, v) ==
  \/ clock[p] # target
  \/ ~Accepted(q, v)
  \/ Kind[p] = "dac" /\ v \notin {Zero, One}

(* Any call on a participant may find the run cancelled; a backend with    *)
(* the fault "fail" may fail for reasons of its own.                       *)
CallMayFail(p) == cancelled \/ ("fail" \in Faults /\ ~Bridge(p))

(* Where the clock of p may be after a call that should leave it at t, and *)
(* what it may report as its next event then.                              *)
Clocks(p, t) == IF "time" \in Faults /\ ~Bridge(p) THEN {t, t + 1} ELSE {t}
NextEvents(p, t) ==
  IF Kind[p] # "events" THEN {None}
  ELSE {None} \cup {e \in 1 .. MaxTime : e > t} \cup (IF "event" \in Faults THEN {t} ELSE {})

(* Participant p ends a call with the ports new, its clock at c and a next event e. *)
Becomes(p, new, c, e) ==
  /\ value' = [q \in Ports |-> IF q \in PortsOf(p) THEN new[q] ELSE value[q]]
  /\ clock' = [clock EXCEPT ![p] = c]
  /\ event' = [event EXCEPT ![p] = e]

---------------------------------------------------------------------------
(* The recorder. *)

(* as_seconds: u64 to f64 keeps every other time from Exact on, rounding   *)
(* half to even.                                                           *)
Seconds(t) ==
  IF t < Exact \/ t % 2 = 0 THEN t ELSE IF (t \div 2) % 2 = 0 THEN t - 1 ELSE t + 1

Latest(w) == w[Len(w)]
Recorded(q, t, v) ==
  LET w == waveform[q]
      point == [time |-> Seconds(t), value |-> v] IN
  IF Domain[q] = "digital"
  THEN IF w # <<>> /\ Latest(w).value = v THEN w ELSE Append(w, point)
  ELSE IF w # <<>> /\ Latest(w).time = Seconds(t) THEN [w EXCEPT ![Len(w)] = point] ELSE Append(w, point)

---------------------------------------------------------------------------
(* The master. *)

Links == {registered[i] : i \in DOMAIN registered}
NoWaveform == [q \in Readable |-> <<>>]

Init ==
  /\ registered \in Registrations
  /\ clock = [p \in Participants |-> 0]
  /\ event = [p \in Participants |-> None]
  /\ value = [q \in Ports |-> CASE Kind[Owner[q]] = "dac" -> DacReset(Owner[q])[q]
                                 [] Kind[Owner[q]] = "adc" -> AdcReset(Owner[q])[q]
                                 [] OTHER -> IF Domain[q] = "digital" THEN Zero ELSE Analog(0)]
  /\ phase = "idle" /\ outcome = None
  /\ todo = {} /\ target = 0 /\ now = 0 /\ macroSteps = 0
  /\ cycle = 0 /\ reads = <<>> /\ changed = FALSE
  /\ waveform = NoWaveform
  /\ runs = 0 /\ cancelled = FALSE /\ expired = FALSE

(* check_control: cancellation first. *)
Interrupted == cancelled \/ expired
Interruption == IF cancelled THEN "execution_cancelled" ELSE "execution_timeout"

(* The call of run returns: its locals are dropped, and with an error the  *)
(* recorder too.                                                           *)
Return(result) ==
  /\ phase' = "idle" /\ outcome' = result /\ todo' = {}
  /\ cycle' = 0 /\ reads' = <<>> /\ changed' = FALSE
  /\ waveform' = IF result = "completed" THEN waveform ELSE NoWaveform
  /\ UNCHANGED <<registered, target, now, macroSteps, runs, cancelled, expired>>
ReturnNow(result) == Return(result) /\ UNCHANGED participantVars

(* run, up to the first participant, with a token that may be cancelled    *)
(* already; the time of the run starts now.                                *)
Run ==
  \E stale \in IF "cancel" \in Interrupts THEN BOOLEAN ELSE {FALSE} :
    /\ phase = "idle" /\ runs < MaxRuns
    /\ runs' = runs + 1 /\ cancelled' = stale /\ expired' = FALSE
    /\ target' = 0 /\ now' = 0 /\ macroSteps' = 0 /\ cycle' = 0
    /\ reads' = <<>> /\ changed' = FALSE /\ waveform' = NoWaveform
    /\ IF stale \/ Participants = {} \/ ~ValidLinks(registered)
       THEN /\ phase' = "idle" /\ todo' = {}
            /\ outcome' = IF stale THEN "execution_cancelled" ELSE "links_invalid"
       ELSE phase' = "initialize" /\ todo' = Participants /\ outcome' = None
    /\ UNCHANGED <<registered, participantVars>>

(* Participant p, done with its call, leaves the loop over participants;   *)
(* after the last one the links are settled.                               *)
Done(p) ==
  /\ todo' = todo \ {p}
  /\ phase' = IF todo = {p} THEN "settle" ELSE phase
  /\ cycle' = 0
  /\ UNCHANGED <<callVars, reads, changed, controlVars>>

(* initialize, and the check that it left the clock at zero. *)
Initialize(p) ==
  /\ phase = "initialize" /\ FirstParticipant(p)
  /\ \/ CallMayFail(p) /\ ReturnNow("participant_error")
     \/ /\ ~cancelled
        /\ \E new \in Initialized(p), c \in Clocks(p, 0) : \E e \in NextEvents(p, c) :
             /\ Becomes(p, new, c, e)
             /\ IF c = 0 THEN Done(p) ELSE Return("cosim_participant_time_invalid")

(* One round of settle_links reads the source of every link ... *)
ReadSources ==
  /\ phase = "settle"
  /\ IF cycle = MaxDeltaCycles THEN ReturnNow("cosim_delta_cycle_limit")
     ELSE IF Interrupted THEN ReturnNow(Interruption)
     ELSE IF \E l \in Links : ~Accepted(l[1], value[l[1]]) THEN ReturnNow("cosim_value_invalid")
     ELSE /\ reads' = [l \in Links |-> value[l[1]]]
          /\ todo' = Links /\ changed' = FALSE /\ phase' = "deliver"
          /\ UNCHANGED <<participantVars, callVars, cycle, controlVars>>

(* ... and then writes the targets in the order of the links, ... *)
Deliver(l) ==
  LET p == Owner[l[2]]
      v == reads[l] IN
  /\ phase = "deliver" /\ FirstLink(l)
  /\ \/ (CallMayFail(p) \/ WriteRejected(p, l[2], v)) /\ ReturnNow("participant_error")
     \/ /\ ~(cancelled /\ Bridge(p)) /\ ~WriteRejected(p, l[2], v)
        /\ IF value[l[2]] = v
           THEN todo' = todo \ {l} /\ UNCHANGED <<participantVars, changed>>
                  /\ UNCHANGED <<phase, callVars, cycle, reads, controlVars>>
           ELSE \E new \in Written(p, l[2], v), c \in Clocks(p, target) : \E e \in NextEvents(p, c) :
                  /\ Becomes(p, new, c, e)
                  /\ IF c = target
                     THEN todo' = todo \ {l} /\ changed' = TRUE
                            /\ UNCHANGED <<phase, callVars, cycle, reads, controlVars>>
                     ELSE Return("cosim_participant_time_invalid")

(* Another round. *)
AgainUncounted ==
  /\ phase' = "settle" /\ reads' = <<>> /\ changed' = FALSE
  /\ UNCHANGED <<participantVars, callVars, todo, cycle, controlVars>>
Again ==
  /\ phase' = "settle" /\ cycle' = cycle + 1 /\ reads' = <<>> /\ changed' = FALSE
  /\ UNCHANGED <<participantVars, callVars, todo, controlVars>>

(* The links are settled: the outputs are recorded and the macro step is   *)
(* over.                                                                   *)
Sample ==
  IF \E q \in Readable : ~Accepted(q, value[q]) THEN ReturnNow("cosim_value_invalid")
  ELSE /\ waveform' = [q \in Readable |-> Recorded(q, target, value[q])]
       /\ macroSteps' = IF target = 0 THEN 0 ELSE macroSteps + 1
       /\ now' = target /\ phase' = "step" /\ reads' = <<>> /\ changed' = FALSE /\ cycle' = 0
       /\ UNCHANGED <<registered, participantVars, outcome, todo, target, runs, controlVars>>

(* ... until a round changes nothing. *)
EndCycleEager ==
  phase = "deliver" /\ todo = {} /\ IF changed /\ cycle + 1 < MaxDeltaCycles THEN Again ELSE Sample
EndCycle ==
  phase = "deliver" /\ todo = {} /\ IF changed THEN Again ELSE Sample

(* next_time: the first of a full stride, the stop time and every event. *)
SaturatingAdd(t, d) == IF t + d > MaxTime THEN MaxTime ELSE t + d
Events == {event[p] : p \in Participants} \ {None}
CandidatesNoEvents == {SaturatingAdd(now, MaxStep), Stop}
Candidates == {SaturatingAdd(now, MaxStep), Stop} \cup Events

(* The next macro step begins, or the run is over. *)
Stride ==
  \E t \in Candidates :
    /\ \A c \in Candidates : t <= c
    /\ IF t <= now THEN ReturnNow("cosim_time_stalled")
       ELSE /\ target' = t /\ todo' = Participants /\ phase' = "advance"
            /\ UNCHANGED <<registered, participantVars, outcome, now, macroSteps, cycle, reads,
                           changed, waveform, runs, controlVars>>
Step ==
  /\ phase = "step"
  /\ IF now >= Stop THEN ReturnNow("completed")
     ELSE IF Interrupted THEN ReturnNow(Interruption)
     ELSE IF macroSteps >= MaxSteps THEN ReturnNow("cosim_step_limit")
     ELSE IF \E e \in Events : e <= now THEN ReturnNow("cosim_event_time_invalid")
     ELSE Stride

(* advance_to, and the check that it reached the target. *)
AdvanceUnchecked(p) ==
  /\ phase = "advance" /\ FirstParticipant(p)
  /\ \E new \in Advanced(p), c \in Clocks(p, target) : \E e \in NextEvents(p, c) :
       Becomes(p, new, c, e) /\ Done(p)
Advance(p) ==
  /\ phase = "advance" /\ FirstParticipant(p)
  /\ IF Interrupted THEN ReturnNow(Interruption)
     ELSE \/ CallMayFail(p) /\ ReturnNow("participant_error")
          \/ \E new \in Advanced(p), c \in Clocks(p, target) : \E e \in NextEvents(p, c) :
               /\ Becomes(p, new, c, e)
               /\ IF c = target THEN Done(p) ELSE Return("cosim_participant_time_invalid")

(* Another thread cancels the token; the wall-clock limit passes. *)
CancelRun ==
  /\ "cancel" \in Interrupts /\ phase # "idle" /\ ~cancelled
  /\ cancelled' = TRUE
  /\ UNCHANGED <<participantVars, phase, callVars, todo, cycle, reads, changed, expired>>
TimeOut ==
  /\ "timeout" \in Interrupts /\ phase # "idle" /\ ~expired
  /\ expired' = TRUE
  /\ UNCHANGED <<participantVars, phase, callVars, todo, cycle, reads, changed, cancelled>>

(* The thread that called run. *)
Master ==
  \/ ReadSources \/ EndCycle \/ Step
  \/ \E p \in Participants : Initialize(p) \/ Advance(p)
  \/ \E l \in Links : Deliver(l)
Next == Run \/ Master \/ CancelRun \/ TimeOut

(* Every call on a participant returns, so the thread goes on. *)
Spec == Init /\ [][Next]_vars /\ WF_vars(Master)

---------------------------------------------------------------------------
(* Properties. *)

TypeOK ==
  /\ registered \in Registrations
  /\ clock \in [Participants -> Nat]
  /\ value \in [Ports -> Values]
  /\ event \in [Participants -> Nat \cup {None}]
  /\ phase \in {"idle", "initialize", "settle", "deliver", "step", "advance"}
  /\ todo \subseteq IF phase = "deliver" THEN Links ELSE Participants
  /\ target \in 0 .. MaxTime /\ now \in 0 .. MaxTime
  /\ macroSteps \in 0 .. MaxSteps /\ cycle \in 0 .. MaxDeltaCycles
  /\ phase = "deliver" => reads \in [Links -> Values]
  /\ changed \in BOOLEAN /\ cancelled \in BOOLEAN /\ expired \in BOOLEAN
  /\ waveform \in [Readable -> Seq([time : Nat, value : Values])]

(* While a run goes on the participants keep one time: all of them are at  *)
(* the time of the last settled sample, or, of those still to be advanced  *)
(* and those already advanced, each group at its own end of the stride;    *)
(* whatever a participant does to its clock (cosim.rs:315, 362, 554).      *)
LockStep ==
  /\ phase \in {"settle", "deliver"} => \A p \in Participants : clock[p] = target
  /\ phase = "step" => \A p \in Participants : clock[p] = now
  /\ phase = "advance" =>
       /\ now < target /\ target <= Stop
       /\ \A p \in Participants : clock[p] = IF p \in todo THEN now ELSE target
  /\ phase = "initialize" => \A p \in Participants \ todo : clock[p] = 0

(* No participant is taken past an event that another one, or it itself,   *)
(* has announced for its future: the stride of every participant ends at   *)
(* the first event of any of them (cosim.rs:483).                          *)
EventsAreNeverPassed ==
  phase \in {"settle", "deliver", "step", "advance"} =>
    \A p, o \in Participants :
      (event[o] # None /\ event[o] > clock[o]) => clock[p] <= event[o]

(* When a time has been settled and sampled, every input holds what its    *)
(* source shows: the last round read, delivered and changed nothing        *)
(* (cosim.rs:505).                                                         *)
SettledWhenSampled ==
  phase = "step" => \A l \in Links : value[l[2]] = value[l[1]]

(* A value never crosses domains through a link, a NaN is never delivered, *)
(* and a DAC never holds an X: validated_links and the checks at each read *)
(* and write stop it whatever a backend shows.                             *)
InputsAreAccepted ==
  \A q \in Ports : Direction[q] = "in" =>
    /\ Accepted(q, value[q])
    /\ Kind[Owner[q]] = "dac" => value[q] \in {Zero, One}

(* Across the bridges: when a time is settled, the voltage of a DAC is     *)
(* that of the bit linked to it, and the bit an ADC delivers is that of    *)
(* the voltage linked to it unless that lies between the thresholds.       *)
BridgesConvert ==
  phase = "step" => \A l, m \in Links : Owner[l[2]] = Owner[m[1]] =>
    LET from == value[l[1]]
        to == value[m[2]] IN
    /\ Kind[Owner[l[2]]] = "dac" =>
         to = IF from = One THEN Analog(HighVoltage) ELSE Analog(LowVoltage)
    /\ Kind[Owner[l[2]]] = "adc" =>
         /\ from[2] <= LowThreshold => to = Zero
         /\ from[2] >= HighThreshold => to = One

(* The waveforms of a report: the times of an analog one increase and      *)
(* those of a digital one do not decrease, even where two times are the    *)
(* same number of seconds; a digital one holds only changes; and all start *)
(* at time zero (cosim.rs:761).                                            *)
WaveformsAreOrdered ==
  \A q \in Readable :
    LET w == waveform[q] IN
    /\ phase = "step" \/ outcome = "completed" => w # <<>> /\ w[1].time = 0
    /\ \A i \in 1 .. Len(w) - 1 :
         IF Domain[q] = "digital"
         THEN w[i].time <= w[i + 1].time /\ w[i].value # w[i + 1].value
         ELSE w[i].time < w[i + 1].time

(* A run that starts returns: feedback that does not settle is stopped by  *)
(* max_delta_cycles and time always moves (cosim.rs:333, 512).             *)
RunReturns == phase # "idle" ~> phase = "idle"
==========================================================================
