-------------------- MODULE CoSimulationSchedulerProofs --------------------
(***************************************************************************)
(* What the co-simulation master guarantees for every network of           *)
(* participants, every configuration and every way backends may behave.    *)
(***************************************************************************)
EXTENDS CoSimulationScheduler, TLAPS

(* The type invariant in parts: the participants, and the locals of run. *)
ParticipantTypes ==
  /\ clock \in [Participants -> Nat]
  /\ value \in [Ports -> Values]
  /\ event \in [Participants -> Nat \cup {None}]
RunTypes ==
  /\ registered \in Registrations
  /\ phase \in {"idle", "initialize", "settle", "deliver", "step", "advance"}
  /\ todo \subseteq IF phase = "deliver" THEN Links ELSE Participants
  /\ target \in 0 .. MaxTime /\ now \in 0 .. MaxTime
  /\ macroSteps \in 0 .. MaxSteps /\ cycle \in 0 .. MaxDeltaCycles
  /\ phase = "deliver" => reads \in [Links -> Values]
  /\ changed \in BOOLEAN /\ cancelled \in BOOLEAN /\ expired \in BOOLEAN

(* Where the counters of a run stand in each phase. *)
ControlInv ==
  /\ phase # "idle" => ValidLinks(registered)
  /\ phase = "initialize" => target = 0 /\ now = 0 /\ macroSteps = 0
  /\ phase \in {"settle", "step"} => todo = {}
  /\ phase \in {"settle", "deliver"} =>
       /\ target <= Stop
       /\ IF target = 0 THEN now = 0 /\ macroSteps = 0 ELSE now < target /\ macroSteps < MaxSteps
  /\ phase = "deliver" => cycle < MaxDeltaCycles
  /\ phase = "step" => target = now /\ now <= Stop
  /\ phase = "advance" => macroSteps < MaxSteps

(* The stride ends before the next event of every participant still in it. *)
StrideInv ==
  phase = "advance" => \A p \in todo : event[p] # None => target <= event[p]

(* As long as a round has changed nothing, the sources show what was read  *)
(* and the targets written so far hold it.                                 *)
RoundInv ==
  (phase = "deliver" /\ ~changed) =>
    /\ \A l \in Links : reads[l] = value[l[1]]
    /\ \A l \in Links \ todo : value[l[2]] = reads[l]

Inv ==
  /\ ParticipantTypes /\ RunTypes
  /\ LockStep /\ ControlInv /\ StrideInv /\ RoundInv /\ SettledWhenSampled

---------------------------------------------------------------------------
(* The bridges and the backends stay within the types. *)

(* What a participant shows is a value. *)
LEMMA ResetTypes ==
  ASSUME NEW p \in Participants
  PROVE  Initialized(p) \subseteq [PortsOf(p) -> Values]
<1>1. {Zero, One, Digital(0), Digital(1), Analog(0), Analog(LowVoltage)} \subseteq Values
  BY DEF Values, Zero, One
<1>2. AdcOutput(Analog(0), Zero) \in Values
  BY <1>1 DEF AdcOutput, ClassifyAdc, Zero, Digital, Analog
<1>3. DacReset(p) \in [PortsOf(p) -> Values]
  BY <1>1 DEF DacReset
<1>4. AdcReset(p) \in [PortsOf(p) -> Values]
  BY <1>1, <1>2 DEF AdcReset
<1> QED BY <1>3, <1>4 DEF Initialized

(* Clocks and events are times. *)
LEMMA ClockTypes ==
  ASSUME NEW p \in Participants, NEW t \in Nat
  PROVE  Clocks(p, t) \subseteq Nat /\ NextEvents(p, t) \subseteq Nat \cup {None}
  BY DEF Clocks, NextEvents

(* A call that leaves a participant with ports, a clock and an event of    *)
(* the right types keeps the types of all.                                 *)
LEMMA BecomesTypes ==
  ASSUME ParticipantTypes, NEW p \in Participants, NEW new \in [PortsOf(p) -> Values],
         NEW c \in Nat, NEW e \in Nat \cup {None}, Becomes(p, new, c, e)
  PROVE  ParticipantTypes'
<1>1. value' \in [Ports -> Values]
  BY DEF ParticipantTypes, Becomes, PortsOf
<1> QED BY <1>1 DEF ParticipantTypes, Becomes

(* The links of a validated list join ports of the network. *)
LEMMA LinkTypes ==
  ASSUME ValidLinks(registered), NEW l \in Links
  PROVE  /\ l[1] \in Ports /\ l[2] \in Ports
         /\ Owner[l[1]] \in Participants /\ Owner[l[2]] \in Participants
  BY GraphAssumption DEF ValidLinks, ValidLink, Links, Readable, Writable

(* Returning from run needs no more than participants of the right types. *)
LEMMA ReturnKeeps ==
  ASSUME Inv, NEW result, Return(result), ParticipantTypes'
  PROVE  Inv'
<1>1. phase' = "idle" /\ todo' = {} /\ cycle' = 0 /\ changed' = FALSE
  BY DEF Return
<1>2. /\ registered' = registered /\ target' = target /\ now' = now /\ macroSteps' = macroSteps
      /\ cancelled' = cancelled /\ expired' = expired
  BY DEF Return
<1>3. todo' \subseteq IF phase' = "deliver" THEN Links' ELSE Participants
  BY <1>1
<1>4. cycle' \in 0 .. MaxDeltaCycles /\ ~(phase' = "deliver")
  BY <1>1, ConfigAssumption
<1>5. RunTypes'
  BY <1>1, <1>2, <1>3, <1>4 DEF Inv, RunTypes
<1> QED BY <1>1, <1>5 DEF Inv, Return, LockStep, ControlInv, StrideInv, RoundInv, SettledWhenSampled

LEMMA ReturnNowKeeps ==
  ASSUME Inv, NEW result, ReturnNow(result)
  PROVE  Inv'
  BY ReturnKeeps DEF Inv, ReturnNow, participantVars, ParticipantTypes

---------------------------------------------------------------------------
(* Run: every participant is still to be initialized. *)
LEMMA RunKeeps == ASSUME Inv, Run PROVE Inv'
<1>1. ParticipantTypes'
  BY DEF Inv, ParticipantTypes, Run, participantVars
<1>2. /\ phase' \in {"idle", "initialize"} /\ (phase' = "idle" => todo' = {})
      /\ (phase' = "initialize" => todo' = Participants /\ ValidLinks(registered))
      /\ target' = 0 /\ now' = 0 /\ macroSteps' = 0 /\ cycle' = 0 /\ changed' = FALSE
      /\ expired' = FALSE /\ registered' = registered
  BY DEF Run
<1>3. cancelled' \in BOOLEAN
  BY DEF Run
<1>4. RunTypes'
  <2>1. todo' \subseteq IF phase' = "deliver" THEN Links' ELSE Participants
    BY <1>2
  <2>2. 0 \in 0 .. MaxTime /\ 0 \in 0 .. MaxSteps /\ 0 \in 0 .. MaxDeltaCycles
    BY ConfigAssumption
  <2> QED BY <1>2, <1>3, <2>1, <2>2 DEF Inv, RunTypes
<1>5. LockStep' /\ StrideInv' /\ RoundInv' /\ SettledWhenSampled'
  BY <1>2 DEF LockStep, StrideInv, RoundInv, SettledWhenSampled
<1>6. ControlInv'
  BY <1>2 DEF ControlInv, ValidLinks
<1> QED BY <1>1, <1>4, <1>5, <1>6 DEF Inv

(* Initialize: the participant has its clock at zero or the run ends. *)
LEMMA InitializeKeeps == ASSUME Inv, NEW p \in Participants, Initialize(p) PROVE Inv'
<1>1. CASE ReturnNow("participant_error")
  BY <1>1, ReturnNowKeeps
<1>2. ASSUME NEW new \in Initialized(p), NEW c \in Clocks(p, 0), NEW e \in NextEvents(p, c),
             Becomes(p, new, c, e),
             IF c = 0 THEN Done(p) ELSE Return("cosim_participant_time_invalid")
      PROVE  Inv'
  <2>1. /\ new \in [PortsOf(p) -> Values] /\ c \in Nat /\ e \in Nat \cup {None}
    BY ResetTypes, ClockTypes
  <2>2. ParticipantTypes'
    BY <1>2, <2>1, BecomesTypes DEF Inv
  <2>3. CASE c # 0
    BY <1>2, <2>2, <2>3, ReturnKeeps
  <2>4. CASE c = 0
    <3>1. phase = "initialize" /\ p \in todo /\ target = 0 /\ now = 0 /\ macroSteps = 0
      BY DEF Initialize, FirstParticipant, Inv, ControlInv
    <3>2. /\ todo' = todo \ {p} /\ phase' = (IF todo = {p} THEN "settle" ELSE "initialize")
          /\ cycle' = 0 /\ registered' = registered /\ target' = 0 /\ now' = 0 /\ macroSteps' = 0
          /\ changed' = changed /\ cancelled' = cancelled /\ expired' = expired
      BY <1>2, <2>4, <3>1 DEF Done, callVars, controlVars
    <3>3. clock' = [clock EXCEPT ![p] = 0]
      BY <1>2, <2>4 DEF Becomes
    <3>4. RunTypes'
      BY <3>1, <3>2, ConfigAssumption DEF Inv, RunTypes
    <3>5. LockStep'
      BY <3>1, <3>2, <3>3 DEF Inv, LockStep, ParticipantTypes
    <3>6. ControlInv'
      BY <3>1, <3>2, ConfigAssumption DEF Inv, ControlInv, ValidLinks
    <3>7. StrideInv' /\ RoundInv' /\ SettledWhenSampled'
      BY <3>2 DEF StrideInv, RoundInv, SettledWhenSampled
    <3> QED BY <2>2, <3>4, <3>5, <3>6, <3>7 DEF Inv
  <2> QED BY <2>3, <2>4
<1> QED BY <1>1, <1>2 DEF Initialize

(* ReadSources: a round begins with what the sources show. *)
LEMMA ReadSourcesKeeps == ASSUME Inv, ReadSources PROVE Inv'
<1>1. CASE \E result : ReturnNow(result)
  BY <1>1, ReturnNowKeeps
<1>2. CASE /\ cycle # MaxDeltaCycles
           /\ reads' = [l \in Links |-> value[l[1]]]
           /\ todo' = Links /\ changed' = FALSE /\ phase' = "deliver"
           /\ UNCHANGED <<participantVars, callVars, cycle, controlVars>>
  <2>1. ParticipantTypes' /\ value' = value /\ clock' = clock /\ registered' = registered /\ Links' = Links
    BY <1>2 DEF Inv, ParticipantTypes, participantVars, callVars, Links
  <2>2. /\ target' = target /\ now' = now /\ macroSteps' = macroSteps /\ cycle' = cycle
        /\ cancelled' = cancelled /\ expired' = expired
    BY <1>2 DEF callVars, controlVars
  <2>3. phase = "settle" /\ ValidLinks(registered)
    BY DEF ReadSources, Inv, ControlInv
  <2>4. reads' \in [Links -> Values]
    BY <1>2, <2>3, LinkTypes DEF Inv, ParticipantTypes
  <2>5. RunTypes'
    BY <1>2, <2>1, <2>2, <2>4 DEF Inv, RunTypes
  <2>6. LockStep'
    BY <1>2, <2>1, <2>2, <2>3 DEF Inv, LockStep
  <2>7. ControlInv'
    BY <1>2, <2>1, <2>2, <2>3, ConfigAssumption DEF Inv, ControlInv, ValidLinks, RunTypes
  <2>8. RoundInv'
    BY <1>2, <2>1 DEF RoundInv
  <2>9. StrideInv' /\ SettledWhenSampled'
    BY <1>2 DEF StrideInv, SettledWhenSampled
  <2> QED BY <2>1, <2>5, <2>6, <2>7, <2>8, <2>9 DEF Inv
<1> QED BY <1>1, <1>2 DEF ReadSources

(* Deliver: a write that changes nothing adds its link to those settled in *)
(* this round; any other asks for another round.                           *)
LEMMA DeliverKeeps == ASSUME Inv, NEW l \in Links, Deliver(l) PROVE Inv'
<1> DEFINE p == Owner[l[2]]
           v == reads[l]
<1>1. phase = "deliver" /\ l \in todo /\ ValidLinks(registered)
  BY DEF Deliver, FirstLink, Inv, ControlInv
<1>2. p \in Participants /\ l[1] \in Ports /\ l[2] \in Ports
  BY <1>1, LinkTypes
<1>3. CASE ReturnNow("participant_error")
  BY <1>3, ReturnNowKeeps
<1>4. ASSUME todo' = todo \ {l}, UNCHANGED <<phase, callVars, cycle, reads, controlVars>>,
             ParticipantTypes', clock' = clock, changed' \in BOOLEAN,
             ~changed' => ~changed /\ value' = value /\ value[l[2]] = v
      PROVE  Inv'
  <2>1. /\ phase' = "deliver" /\ registered' = registered /\ Links' = Links /\ cycle' = cycle
        /\ target' = target /\ now' = now /\ macroSteps' = macroSteps /\ reads' = reads
        /\ cancelled' = cancelled /\ expired' = expired
    BY <1>1, <1>4 DEF callVars, controlVars, Links
  <2>2. RunTypes'
    BY <1>1, <1>4, <2>1 DEF Inv, RunTypes
  <2>3. LockStep'
    BY <1>1, <1>4, <2>1 DEF Inv, LockStep
  <2>4. ControlInv'
    BY <1>1, <1>4, <2>1 DEF Inv, ControlInv, ValidLinks
  <2>5. RoundInv'
    BY <1>1, <1>4, <2>1 DEF Inv, RoundInv
  <2>6. StrideInv' /\ SettledWhenSampled'
    BY <2>1 DEF StrideInv, SettledWhenSampled
  <2> QED BY <1>4, <2>2, <2>3, <2>4, <2>5, <2>6 DEF Inv
<1>5. CASE /\ value[l[2]] = v
           /\ todo' = todo \ {l} /\ UNCHANGED <<participantVars, changed>>
           /\ UNCHANGED <<phase, callVars, cycle, reads, controlVars>>
  BY <1>4, <1>5 DEF Inv, RunTypes, ParticipantTypes, participantVars
<1>6. ASSUME NEW new \in Written(p, l[2], v), NEW c \in Clocks(p, target), NEW e \in NextEvents(p, c),
             Becomes(p, new, c, e),
             IF c = target
             THEN todo' = todo \ {l} /\ changed' = TRUE /\ UNCHANGED <<phase, callVars, cycle, reads, controlVars>>
             ELSE Return("cosim_participant_time_invalid")
      PROVE  Inv'
  <2>1. target \in Nat /\ clock[p] = target
    BY <1>1, <1>2, ConfigAssumption DEF Inv, RunTypes, LockStep
  <2>2. new \in [PortsOf(p) -> Values] /\ c \in Nat /\ e \in Nat \cup {None}
    BY <1>2, <2>1, ClockTypes DEF Written
  <2>3. ParticipantTypes'
    BY <1>2, <1>6, <2>2, BecomesTypes DEF Inv
  <2>4. CASE c # target
    BY <1>6, <2>3, <2>4, ReturnKeeps
  <2>5. CASE c = target
    <3>1. clock' = clock
      BY <1>2, <1>6, <2>1, <2>5 DEF Becomes, Inv, ParticipantTypes
    <3> QED BY <1>4, <1>6, <2>3, <2>5, <3>1
  <2> QED BY <2>4, <2>5
<1> QED BY <1>3, <1>5, <1>6 DEF Deliver

(* EndCycle: another round, while the limit allows one, or the sample of   *)
(* links that are settled.                                                 *)
LEMMA EndCycleKeeps == ASSUME Inv, EndCycle PROVE Inv'
<1>1. phase = "deliver" /\ todo = {} /\ ValidLinks(registered)
  BY DEF EndCycle, Inv, ControlInv
<1>2. CASE \E result : ReturnNow(result)
  BY <1>2, ReturnNowKeeps
<1>3. CASE Again
  <2>1. /\ ParticipantTypes' /\ clock' = clock /\ registered' = registered /\ Links' = Links
        /\ phase' = "settle" /\ cycle' = cycle + 1 /\ changed' = FALSE /\ todo' = {}
        /\ target' = target /\ now' = now /\ macroSteps' = macroSteps
        /\ cancelled' = cancelled /\ expired' = expired
    BY <1>1, <1>3 DEF Again, Inv, ParticipantTypes, participantVars, callVars, controlVars, Links
  <2>2. cycle' \in 0 .. MaxDeltaCycles
    BY <1>1, <2>1, ConfigAssumption DEF Inv, ControlInv, RunTypes
  <2>3. RunTypes'
    BY <2>1, <2>2 DEF Inv, RunTypes
  <2>4. LockStep'
    BY <1>1, <2>1 DEF Inv, LockStep
  <2>5. ControlInv'
    BY <1>1, <2>1 DEF Inv, ControlInv, ValidLinks
  <2>6. StrideInv' /\ RoundInv' /\ SettledWhenSampled'
    BY <2>1 DEF StrideInv, RoundInv, SettledWhenSampled
  <2> QED BY <2>1, <2>3, <2>4, <2>5, <2>6 DEF Inv
<1>4. CASE /\ ~changed
           /\ macroSteps' = IF target = 0 THEN 0 ELSE macroSteps + 1
           /\ now' = target /\ phase' = "step" /\ changed' = FALSE /\ cycle' = 0
           /\ UNCHANGED <<registered, participantVars, outcome, todo, target, runs, controlVars>>
  <2>1. /\ ParticipantTypes' /\ clock' = clock /\ value' = value /\ registered' = registered /\ Links' = Links
        /\ phase' = "step" /\ cycle' = 0 /\ changed' = FALSE /\ todo' = {}
        /\ target' = target /\ now' = target
        /\ cancelled' = cancelled /\ expired' = expired
    BY <1>1, <1>4 DEF Inv, ParticipantTypes, participantVars, controlVars, Links
  <2>2. macroSteps' \in 0 .. MaxSteps
    BY <1>1, <1>4, ConfigAssumption DEF Inv, ControlInv, RunTypes
  <2>3. RunTypes'
    <3>1. 0 \in 0 .. MaxDeltaCycles
      BY ConfigAssumption
    <3>2. todo' \subseteq IF phase' = "deliver" THEN Links' ELSE Participants
      BY <2>1
    <3> QED BY <2>1, <2>2, <3>1, <3>2 DEF Inv, RunTypes
  <2>4. LockStep'
    BY <1>1, <2>1 DEF Inv, LockStep
  <2>5. ControlInv'
    BY <1>1, <2>1 DEF Inv, ControlInv, ValidLinks
  <2>6. SettledWhenSampled'
    BY <1>1, <1>4, <2>1 DEF Inv, RoundInv, SettledWhenSampled
  <2>7. StrideInv' /\ RoundInv'
    BY <2>1 DEF StrideInv, RoundInv
  <2> QED BY <2>1, <2>3, <2>4, <2>5, <2>6, <2>7 DEF Inv
<1> QED BY <1>2, <1>3, <1>4 DEF EndCycle, Sample

(* next_time is later than now: the code's check for a stalled time never  *)
(* fires.                                                                  *)
LEMMA TimeMoves ==
  ASSUME Inv, phase = "step", now < Stop, \A e \in Events : ~(e <= now), NEW t \in Candidates
  PROVE  (t \in 0 .. MaxTime \/ t \in Events) /\ now < t
<1>1. now \in Nat /\ MaxTime \in Nat /\ Stop \in Nat /\ Stop <= MaxTime /\ MaxStep \in Nat /\ MaxStep # 0
  BY ConfigAssumption DEF Inv, RunTypes
<1>2. SaturatingAdd(now, MaxStep) \in 0 .. MaxTime /\ now < SaturatingAdd(now, MaxStep)
  BY <1>1 DEF SaturatingAdd
<1>3. \A e \in Events : e \in Nat
  BY DEF Inv, ParticipantTypes, Events
<1> QED BY <1>1, <1>2, <1>3 DEF Candidates

(* Step: the stride begins with every participant at now, and ends no      *)
(* later than the next event of any.                                       *)
LEMMA StepKeeps == ASSUME Inv, Step PROVE Inv'
<1>1. CASE \E result : ReturnNow(result)
  BY <1>1, ReturnNowKeeps
<1>2. ASSUME now < Stop, macroSteps < MaxSteps, \A e \in Events : ~(e <= now),
             NEW t \in Candidates, \A c \in Candidates : t <= c,
             target' = t, todo' = Participants, phase' = "advance",
             UNCHANGED <<registered, participantVars, outcome, now, macroSteps, cycle, reads,
                         changed, waveform, runs, controlVars>>
      PROVE  Inv'
  <2>1. phase = "step" /\ target = now /\ ValidLinks(registered)
    BY DEF Step, Inv, ControlInv
  <2>2. Stop \in Candidates /\ Events \subseteq Candidates
    BY DEF Candidates
  <2>3. now < t /\ t <= Stop /\ t \in 0 .. MaxTime
    <3>1. now < t /\ t <= Stop
      BY <1>2, <2>1, <2>2, TimeMoves
    <3>2. t \in Nat
      BY <1>2, <2>1, TimeMoves DEF Inv, ParticipantTypes, Events
    <3>3. Stop \in Nat /\ MaxTime \in Nat /\ Stop <= MaxTime
      BY ConfigAssumption
    <3> QED BY <3>1, <3>2, <3>3
  <2>4. /\ ParticipantTypes' /\ clock' = clock /\ event' = event /\ registered' = registered /\ Links' = Links
        /\ now' = now /\ macroSteps' = macroSteps /\ cycle' = cycle /\ changed' = changed
        /\ cancelled' = cancelled /\ expired' = expired
    BY <1>2 DEF Inv, ParticipantTypes, participantVars, controlVars, Links
  <2>5. RunTypes'
    BY <1>2, <2>3, <2>4 DEF Inv, RunTypes
  <2>6. LockStep'
    BY <1>2, <2>1, <2>3, <2>4 DEF Inv, LockStep
  <2>7. ControlInv'
    BY <1>2, <2>1, <2>4 DEF Inv, ControlInv, ValidLinks
  <2>8. StrideInv'
    BY <1>2, <2>2, <2>4 DEF StrideInv, Events
  <2>9. RoundInv' /\ SettledWhenSampled'
    BY <1>2 DEF RoundInv, SettledWhenSampled
  <2> QED BY <2>4, <2>5, <2>6, <2>7, <2>8, <2>9 DEF Inv
<1>3. now \in Int /\ Stop \in Int /\ macroSteps \in Int /\ MaxSteps \in Int
  BY ConfigAssumption DEF Inv, RunTypes
<1> QED BY <1>1, <1>2, <1>3 DEF Step, Stride

(* Advance: the participant reaches the target or the run ends. *)
LEMMA AdvanceKeeps == ASSUME Inv, NEW p \in Participants, Advance(p) PROVE Inv'
<1>1. CASE \E result : ReturnNow(result)
  BY <1>1, ReturnNowKeeps
<1>2. ASSUME NEW new \in Advanced(p), NEW c \in Clocks(p, target), NEW e \in NextEvents(p, c),
             Becomes(p, new, c, e),
             IF c = target THEN Done(p) ELSE Return("cosim_participant_time_invalid")
      PROVE  Inv'
  <2>1. phase = "advance" /\ p \in todo /\ target \in Nat /\ target # 0 /\ ValidLinks(registered)
    BY ConfigAssumption DEF Advance, FirstParticipant, Inv, ControlInv, LockStep, RunTypes
  <2>2. new \in [PortsOf(p) -> Values] /\ c \in Nat /\ e \in Nat \cup {None}
    BY <2>1, ClockTypes DEF Advanced
  <2>3. ParticipantTypes'
    BY <1>2, <2>2, BecomesTypes DEF Inv
  <2>4. CASE c # target
    BY <1>2, <2>3, <2>4, ReturnKeeps
  <2>5. CASE c = target
    <3>1. /\ todo' = todo \ {p} /\ phase' = (IF todo = {p} THEN "settle" ELSE "advance")
          /\ cycle' = 0 /\ registered' = registered /\ target' = target /\ now' = now
          /\ macroSteps' = macroSteps /\ changed' = changed /\ cancelled' = cancelled /\ expired' = expired
      BY <1>2, <2>1, <2>5 DEF Done, callVars, controlVars
    <3>2. clock' = [clock EXCEPT ![p] = target] /\ event' = [event EXCEPT ![p] = e]
      BY <1>2, <2>5 DEF Becomes
    <3>3. RunTypes'
      BY <2>1, <3>1, ConfigAssumption DEF Inv, RunTypes
    <3>4. LockStep'
      BY <2>1, <3>1, <3>2 DEF Inv, LockStep, ParticipantTypes
    <3>5. ControlInv'
      BY <2>1, <3>1, ConfigAssumption DEF Inv, ControlInv, ValidLinks, LockStep, RunTypes
    <3>6. StrideInv'
      BY <2>1, <3>1, <3>2 DEF Inv, StrideInv, ParticipantTypes, RunTypes
    <3>7. RoundInv' /\ SettledWhenSampled'
      BY <3>1 DEF RoundInv, SettledWhenSampled
    <3> QED BY <2>3, <3>3, <3>4, <3>5, <3>6, <3>7 DEF Inv
  <2> QED BY <2>4, <2>5
<1> QED BY <1>1, <1>2 DEF Advance

---------------------------------------------------------------------------
(* Inv is an invariant. *)

LEMMA InitInv == Init => Inv
<1> SUFFICES ASSUME Init PROVE Inv
  OBVIOUS
<1>1. {Zero, One, Analog(0), Analog(LowVoltage)} \subseteq Values
  BY DEF Values, Zero, One
<1>2. AdcOutput(Analog(0), Zero) \in Values
  BY <1>1 DEF AdcOutput, ClassifyAdc, Zero, Digital, Analog, Values
<1>3. \A q \in Ports : q \in PortsOf(Owner[q])
  BY DEF PortsOf
<1>4. value \in [Ports -> Values]
  BY <1>1, <1>2, <1>3 DEF Init, DacReset, AdcReset
<1>5. ParticipantTypes
  BY <1>4 DEF Init, ParticipantTypes
<1>6. RunTypes
  <2>1. 0 \in 0 .. MaxTime /\ 0 \in 0 .. MaxSteps /\ 0 \in 0 .. MaxDeltaCycles
    BY ConfigAssumption
  <2>2. todo \subseteq IF phase = "deliver" THEN Links ELSE Participants
    BY DEF Init
  <2> QED BY <2>1, <2>2 DEF Init, RunTypes
<1> QED BY <1>5, <1>6 DEF Init, Inv, LockStep, ControlInv, StrideInv, RoundInv, SettledWhenSampled

LEMMA NextInv == Inv /\ [Next]_vars => Inv'
<1> SUFFICES ASSUME Inv, [Next]_vars PROVE Inv'
  OBVIOUS
<1>1. CASE Run
  BY <1>1, RunKeeps
<1>2. CASE Master
  BY <1>2, ReadSourcesKeeps, EndCycleKeeps, StepKeeps, InitializeKeeps, AdvanceKeeps, DeliverKeeps DEF Master
<1>3. CASE CancelRun \/ TimeOut \/ UNCHANGED vars
  <2>1. UNCHANGED <<participantVars, phase, callVars, todo, cycle, reads, changed>>
        /\ cancelled' \in BOOLEAN /\ expired' \in BOOLEAN
    BY <1>3 DEF CancelRun, TimeOut, vars, participantVars, callVars, Inv, RunTypes
  <2> QED BY <2>1 DEF Inv, ParticipantTypes, RunTypes, LockStep, ControlInv, StrideInv, RoundInv,
                      SettledWhenSampled, participantVars, callVars, Links, ValidLinks
<1> QED BY <1>1, <1>2, <1>3 DEF Next

LEMMA Invariance == Spec => []Inv
  BY InitInv, NextInv, PTL DEF Spec

---------------------------------------------------------------------------
(* The theorems. *)

(* All participants share one time: no step of a run leaves one behind or  *)
(* lets one run ahead, however backends move their clocks (LockStep).      *)
THEOREM SharedTime == Spec => []LockStep
<1>1. Inv => LockStep
  BY DEF Inv
<1> QED BY <1>1, Invariance, PTL

(* What is sampled is settled, for any network, any number of delta cycles *)
(* and any backends (SettledWhenSampled).                                  *)
THEOREM SamplesAreSettled == Spec => []SettledWhenSampled
<1>1. Inv => SettledWhenSampled
  BY DEF Inv
<1> QED BY <1>1, Invariance, PTL

(* No participant passes an event another one has announced, for any       *)
(* events and strides (EventsAreNeverPassed).                              *)
THEOREM NoEventIsPassed == Spec => []EventsAreNeverPassed
<1>1. Inv => EventsAreNeverPassed
  <2> SUFFICES ASSUME Inv, NEW p \in Participants, NEW o \in Participants,
                      phase \in {"settle", "deliver", "step", "advance"},
                      event[o] # None, event[o] > clock[o]
               PROVE  clock[p] <= event[o]
    BY DEF EventsAreNeverPassed
  <2>1. clock[p] \in Nat /\ clock[o] \in Nat /\ event[o] \in Nat /\ now \in Nat /\ target \in Nat
    BY ConfigAssumption DEF Inv, ParticipantTypes, RunTypes
  <2>2. CASE phase # "advance"
    BY <2>1, <2>2 DEF Inv, LockStep
  <2>3. CASE phase = "advance"
    BY <2>1, <2>3 DEF Inv, LockStep, StrideInv
  <2> QED BY <2>2, <2>3
<1> QED BY <1>1, Invariance, PTL

---------------------------------------------------------------------------
(* The bridges: what holds of the ports of a DAC and of an ADC at any      *)
(* moment, and of the inputs of all.                                       *)
DacPorts(p, ports) ==
  \A i, o \in PortsOf(p) : (Direction[i] = "in" /\ Direction[o] # "in") =>
    ports[i] \in {Zero, One} /\ ports[o] = DacOutput(ports[i])
AdcPorts(p, ports) ==
  \A i, o \in PortsOf(p) : (Direction[i] = "in" /\ Direction[o] # "in") =>
    /\ ports[i][2] \in Int /\ ports[o] \in {Zero, One}
    /\ ports[i][2] <= LowThreshold => ports[o] = Zero
    /\ ports[i][2] >= HighThreshold => ports[o] = One
InputPorts(p, ports) == \A i \in PortsOf(p) : Direction[i] = "in" => Accepted(i, ports[i])

(* The ports of one participant, as a bridge and as a holder of inputs. *)
Sound(p, ports) ==
  /\ Kind[p] = "dac" => DacPorts(p, ports)
  /\ Kind[p] = "adc" => AdcPorts(p, ports)
  /\ InputPorts(p, ports)
PortsInv == \A p \in Participants : Sound(p, [q \in PortsOf(p) |-> value[q]])

(* Values that are accepted on a port carry a number. *)
LEMMA AcceptedNumbers ==
  ASSUME NEW q \in Ports, NEW v \in Values, Accepted(q, v)
  PROVE  v[2] \in Int \/ Domain[q] = "digital"
<1>1. ASSUME NEW x \in Voltages \cup {None, 0, LowVoltage, HighVoltage}, v = Analog(x)
      PROVE  v[2] \in Int
  BY <1>1, BridgeAssumption DEF Accepted, NaN, Analog
<1>2. ASSUME NEW x \in Logic \cup {0, 1}, v = Digital(x)
      PROVE  Domain[q] = "digital"
  BY <1>2 DEF Accepted, Digital
<1> QED BY <1>1, <1>2 DEF Values

(* The ADC classifies as its thresholds say. *)
LEMMA AdcClassifies ==
  ASSUME NEW v, v[2] \in Int, NEW previous \in {Zero, One}
  PROVE  /\ AdcOutput(v, previous) \in {Zero, One}
         /\ v[2] <= LowThreshold => AdcOutput(v, previous) = Zero
         /\ v[2] >= HighThreshold => AdcOutput(v, previous) = One
  BY BridgeAssumption DEF AdcOutput, ClassifyAdc, Zero, One, Digital

LEMMA ZeroAccepted ==
  ASSUME NEW q \in Ports
  PROVE  Accepted(q, IF Domain[q] = "digital" THEN Zero ELSE Analog(0))
  BY GraphAssumption, ConfigAssumption DEF Accepted, NaN, Zero, Analog, Digital

(* A port of a bridge is its input, of one domain, or its output. *)
LEMMA BridgePorts ==
  ASSUME NEW p \in Participants, Bridge(p), NEW i \in PortsOf(p), Direction[i] = "in"
  PROVE  Domain[i] = IF Kind[p] = "dac" THEN "digital" ELSE "analog"
  BY BridgeAssumption DEF Bridge, PortsOf

LEMMA DacResetSound ==
  ASSUME NEW p \in Participants, Kind[p] = "dac"
  PROVE  Sound(p, DacReset(p))
<1>1. DacPorts(p, DacReset(p))
  BY DEF DacReset, DacPorts, DacOutput, Zero, One, Digital
<1>2. InputPorts(p, DacReset(p))
  BY BridgePorts, ZeroAccepted DEF InputPorts, DacReset, Bridge, PortsOf
<1> QED BY <1>1, <1>2 DEF Sound

LEMMA AdcResetSound ==
  ASSUME NEW p \in Participants, Kind[p] = "adc"
  PROVE  Sound(p, AdcReset(p))
<1>1. Analog(0)[2] = 0
  BY DEF Analog
<1>2. AdcPorts(p, AdcReset(p))
  BY <1>1, AdcClassifies DEF AdcReset, AdcPorts
<1>3. InputPorts(p, AdcReset(p))
  BY BridgePorts, ZeroAccepted DEF InputPorts, AdcReset, Bridge, PortsOf
<1> QED BY <1>2, <1>3 DEF Sound

(* Every call leaves the ports of its participant sound. *)
LEMMA InitializedSound ==
  ASSUME NEW p \in Participants, NEW new \in Initialized(p)
  PROVE  Sound(p, new)
<1>1. CASE Kind[p] \in {"dac", "adc"}
  BY <1>1, DacResetSound, AdcResetSound DEF Initialized
<1>2. CASE Kind[p] \notin {"dac", "adc"}
  <2>1. \A i \in PortsOf(p) : Direction[i] = "in" => Accepted(i, new[i])
    BY <1>2 DEF Initialized, Shown
  <2> QED BY <1>2, <2>1 DEF Sound, InputPorts
<1> QED BY <1>1, <1>2

LEMMA AdvancedSound ==
  ASSUME PortsInv, NEW p \in Participants, NEW new \in Advanced(p)
  PROVE  Sound(p, new)
<1> DEFINE old == [q \in PortsOf(p) |-> value[q]]
<1>1. Sound(p, old)
  BY DEF PortsInv
<1>2. CASE Bridge(p)
  <2>1. new = old
    BY <1>2 DEF Advanced
  <2> QED BY <1>1, <2>1
<1>3. CASE ~Bridge(p)
  <2>1. \A i \in PortsOf(p) : Direction[i] = "in" => new[i] = old[i]
    BY DEF Advanced
  <2> QED BY <1>1, <1>3, <2>1 DEF Sound, InputPorts, Bridge
<1> QED BY <1>2, <1>3

LEMMA WrittenSound ==
  ASSUME PortsInv, NEW p \in Participants, NEW i \in PortsOf(p), Direction[i] # "out",
         NEW v \in Values, ~WriteRejected(p, i, v), NEW new \in Written(p, i, v)
  PROVE  Sound(p, new)
<1> DEFINE old == [q \in PortsOf(p) |-> value[q]]
<1>1. Sound(p, old) /\ Accepted(i, v)
  BY DEF PortsInv, WriteRejected
<1>2. \A q \in PortsOf(p) : Direction[q] = "in" => new[q] = IF q = i THEN v ELSE old[q]
  BY DEF Written
<1>3. InputPorts(p, new)
  BY <1>1, <1>2 DEF Sound, InputPorts
<1>4. CASE Bridge(p)
  <2>1. Direction[i] = "in" /\ \A q \in PortsOf(p) : Direction[q] = "in" => q = i
    BY <1>4, BridgeAssumption DEF Bridge, PortsOf
  <2>2. CASE Kind[p] = "dac"
    <3>1. \A q \in PortsOf(p) : Direction[q] # "in" => new[q] = DacOutput(v)
      BY <2>2 DEF Written
    <3> QED BY <1>2, <1>3, <2>1, <2>2, <3>1 DEF Sound, DacPorts, WriteRejected
  <2>3. CASE Kind[p] = "adc"
    <3>1. \A q \in PortsOf(p) : Direction[q] # "in" => new[q] = AdcOutput(v, old[q])
      BY <2>3 DEF Written
    <3>2. \A q \in PortsOf(p) : Direction[q] # "in" => old[q] \in {Zero, One}
      BY <1>1, <2>1, <2>3 DEF Sound, AdcPorts
    <3>3. i \in Ports /\ Domain[i] = "analog"
      BY <1>4, <2>1, <2>3, BridgePorts DEF PortsOf
    <3>4. v[2] \in Int
      BY <1>1, <3>3, AcceptedNumbers
    <3>5. AdcPorts(p, new)
      BY <1>2, <2>1, <3>1, <3>2, <3>4, AdcClassifies DEF AdcPorts
    <3> QED BY <1>3, <2>3, <3>5 DEF Sound
  <2> QED BY <1>4, <2>2, <2>3 DEF Bridge
<1>5. CASE ~Bridge(p)
  BY <1>3, <1>5 DEF Sound, Bridge
<1> QED BY <1>4, <1>5

LEMMA BecomesSound ==
  ASSUME PortsInv, NEW p \in Participants, NEW new \in [PortsOf(p) -> Values], Sound(p, new),
         NEW c, NEW e, Becomes(p, new, c, e)
  PROVE  PortsInv'
<1> SUFFICES ASSUME NEW o \in Participants PROVE Sound(o, [q \in PortsOf(o) |-> value'[q]])
  BY DEF PortsInv
<1>1. CASE o = p
  <2>1. [q \in PortsOf(p) |-> value'[q]] = new
    BY DEF Becomes, PortsOf
  <2> QED BY <1>1, <2>1
<1>2. CASE o # p
  <2>1. [q \in PortsOf(o) |-> value'[q]] = [q \in PortsOf(o) |-> value[q]]
    BY <1>2 DEF Becomes, PortsOf
  <2> QED BY <2>1 DEF PortsInv
<1> QED BY <1>1, <1>2

LEMMA PortsStep == Inv /\ PortsInv /\ [Next]_vars => PortsInv'
<1> SUFFICES ASSUME Inv, PortsInv, [Next]_vars PROVE PortsInv'
  OBVIOUS
<1>1. CASE value' = value
  BY <1>1 DEF PortsInv
<1>2. ASSUME NEW p \in Participants, Initialize(p), value' # value PROVE PortsInv'
  <2>1. PICK new \in Initialized(p), c \in Clocks(p, 0) : \E e \in NextEvents(p, c) : Becomes(p, new, c, e)
    BY <1>2 DEF Initialize, ReturnNow, participantVars
  <2> QED BY <2>1, ResetTypes, InitializedSound, BecomesSound
<1>3. ASSUME NEW p \in Participants, Advance(p), value' # value PROVE PortsInv'
  <2>1. PICK new \in Advanced(p), c \in Clocks(p, target) : \E e \in NextEvents(p, c) : Becomes(p, new, c, e)
    BY <1>3 DEF Advance, ReturnNow, participantVars
  <2>2. new \in [PortsOf(p) -> Values]
    BY DEF Advanced
  <2> QED BY <2>1, <2>2, AdvancedSound, BecomesSound
<1>4. ASSUME NEW l \in Links, Deliver(l), value' # value PROVE PortsInv'
  <2> DEFINE p == Owner[l[2]]
             v == reads[l]
  <2>1. phase = "deliver" /\ ~WriteRejected(p, l[2], v)
        /\ \E new \in Written(p, l[2], v), c \in Clocks(p, target) : \E e \in NextEvents(p, c) : Becomes(p, new, c, e)
    BY <1>4 DEF Deliver, ReturnNow, participantVars
  <2>2. PICK new \in Written(p, l[2], v), c \in Clocks(p, target) : \E e \in NextEvents(p, c) : Becomes(p, new, c, e)
    BY <2>1
  <2>3. ValidLinks(registered)
    BY <2>1 DEF Inv, ControlInv
  <2>4. p \in Participants /\ l[2] \in PortsOf(p) /\ Direction[l[2]] # "out"
    BY <2>3, LinkTypes DEF PortsOf, ValidLinks, ValidLink, Links, Writable
  <2>5. v \in Values /\ new \in [PortsOf(p) -> Values]
    BY <2>1 DEF Inv, RunTypes, Written
  <2> QED BY <2>1, <2>2, <2>4, <2>5, WrittenSound, BecomesSound
<1>5. CASE Run \/ ReadSources \/ EndCycle \/ Step \/ CancelRun \/ TimeOut \/ UNCHANGED vars
  BY <1>1, <1>5 DEF Run, ReadSources, EndCycle, Again, Sample, Step, Stride, CancelRun, TimeOut, vars,
                    ReturnNow, participantVars
<1> QED BY <1>1, <1>2, <1>3, <1>4, <1>5 DEF Next, Master

LEMMA PortsInit == Init => PortsInv
<1> SUFFICES ASSUME Init, NEW p \in Participants PROVE Sound(p, [q \in PortsOf(p) |-> value[q]])
  BY DEF PortsInv
<1>1. \A q \in PortsOf(p) : q \in Ports /\ Owner[q] = p
  BY DEF PortsOf
<1>2. CASE Kind[p] = "dac"
  <2>1. [q \in PortsOf(p) |-> value[q]] = DacReset(p)
    BY <1>1, <1>2 DEF Init, DacReset
  <2> QED BY <1>2, <2>1, DacResetSound
<1>3. CASE Kind[p] = "adc"
  <2>1. [q \in PortsOf(p) |-> value[q]] = AdcReset(p)
    BY <1>1, <1>3 DEF Init, AdcReset
  <2> QED BY <1>3, <2>1, AdcResetSound
<1>4. CASE Kind[p] \notin {"dac", "adc"}
  <2>1. \A q \in PortsOf(p) : value[q] = IF Domain[q] = "digital" THEN Zero ELSE Analog(0)
    BY <1>1, <1>4 DEF Init
  <2>2. InputPorts(p, [q \in PortsOf(p) |-> value[q]])
    BY <1>1, <2>1, ZeroAccepted DEF InputPorts
  <2> QED BY <1>4, <2>2 DEF Sound
<1> QED BY <1>2, <1>3, <1>4

LEMMA PortsInvariance == Spec => [](Inv /\ PortsInv)
<1>1. Init => Inv /\ PortsInv
  BY InitInv, PortsInit
<1>2. (Inv /\ PortsInv) /\ [Next]_vars => (Inv /\ PortsInv)'
  BY NextInv, PortsStep
<1> QED BY <1>1, <1>2, PTL DEF Spec

(* No value crosses domains, no NaN is delivered and no X reaches a DAC,   *)
(* whatever backends show (InputsAreAccepted).                             *)
THEOREM DeliveriesAreAccepted == Spec => []InputsAreAccepted
<1>1. PortsInv => InputsAreAccepted
  <2> SUFFICES ASSUME PortsInv, NEW q \in Ports, Direction[q] = "in"
               PROVE  Accepted(q, value[q]) /\ (Kind[Owner[q]] = "dac" => value[q] \in {Zero, One})
    BY DEF InputsAreAccepted
  <2> DEFINE p == Owner[q]
  <2>1. p \in Participants /\ q \in PortsOf(p)
    BY GraphAssumption DEF PortsOf
  <2>2. Sound(p, [r \in PortsOf(p) |-> value[r]])
    BY <2>1 DEF PortsInv
  <2>3. Accepted(q, value[q])
    BY <2>1, <2>2 DEF Sound, InputPorts
  <2>4. ASSUME Kind[p] = "dac" PROVE value[q] \in {Zero, One}
    <3>1. \E o \in PortsOf(p) : Direction[o] # "in"
      BY <2>1, <2>4, BridgeAssumption DEF PortsOf
    <3> QED BY <2>1, <2>2, <2>4, <3>1 DEF Sound, DacPorts
  <2> QED BY <2>3, <2>4
<1> QED BY <1>1, PortsInvariance, PTL

(* Every settled time shows a DAC the voltage of its source's bit and what *)
(* an ADC classified from its source's voltage, at the other end of the    *)
(* bridge (BridgesConvert).                                                *)
THEOREM ConversionsAreSettled == Spec => []BridgesConvert
<1>1. Inv /\ PortsInv => BridgesConvert
  <2> SUFFICES ASSUME Inv, PortsInv, phase = "step", NEW l \in Links, NEW m \in Links,
                      Owner[l[2]] = Owner[m[1]]
               PROVE  LET from == value[l[1]]
                          to == value[m[2]] IN
                      /\ Kind[Owner[l[2]]] = "dac" =>
                           to = IF from = One THEN Analog(HighVoltage) ELSE Analog(LowVoltage)
                      /\ Kind[Owner[l[2]]] = "adc" =>
                           /\ from[2] <= LowThreshold => to = Zero
                           /\ from[2] >= HighThreshold => to = One
    BY DEF BridgesConvert
  <2> DEFINE p == Owner[l[2]]
  <2>1. ValidLinks(registered) /\ value[l[2]] = value[l[1]] /\ value[m[2]] = value[m[1]]
    BY DEF Inv, ControlInv, SettledWhenSampled
  <2>2. p \in Participants /\ l[2] \in PortsOf(p) /\ m[1] \in PortsOf(p)
    BY <2>1, LinkTypes DEF PortsOf
  <2>3. Direction[l[2]] # "out" /\ Direction[m[1]] # "in"
    BY <2>1 DEF ValidLinks, ValidLink, Links, Writable, Readable
  <2>4. Sound(p, [q \in PortsOf(p) |-> value[q]])
    BY <2>2 DEF PortsInv
  <2>5. Kind[p] \in {"dac", "adc"} => Direction[l[2]] = "in"
    BY <2>2, <2>3, BridgeAssumption DEF PortsOf
  <2>6. CASE Kind[p] = "dac"
    BY <2>1, <2>2, <2>3, <2>4, <2>5, <2>6 DEF Sound, DacPorts, DacOutput
  <2>7. CASE Kind[p] = "adc"
    BY <2>1, <2>2, <2>3, <2>4, <2>5, <2>7 DEF Sound, AdcPorts
  <2> QED BY <2>6, <2>7
<1> QED BY <1>1, PortsInvariance, PTL

---------------------------------------------------------------------------
(* The recorder. *)

Point == [time : Nat, value : Values]
Ordered(q, w) ==
  \A i \in 1 .. Len(w) - 1 :
    IF Domain[q] = "digital"
    THEN w[i].time <= w[i + 1].time /\ w[i].value # w[i + 1].value
    ELSE w[i].time < w[i + 1].time

(* f64 seconds keep the order of times. *)
LEMMA SecondsMonotone ==
  ASSUME NEW n \in Nat, NEW t \in Nat, n <= t
  PROVE  Seconds(n) \in Nat /\ Seconds(t) \in Nat /\ Seconds(n) <= Seconds(t) /\ Seconds(0) = 0
  BY ConfigAssumption DEF Seconds

(* One more sample keeps a waveform ordered. *)
LEMMA RecordedOrdered ==
  ASSUME NEW q \in Readable, NEW t \in Nat, NEW v \in Values,
         waveform[q] \in Seq(Point), Ordered(q, waveform[q]),
         waveform[q] # <<>> => Latest(waveform[q]).time <= Seconds(t)
  PROVE  LET r == Recorded(q, t, v) IN
         /\ r \in Seq(Point) /\ Ordered(q, r)
         /\ r # <<>> /\ Latest(r).time <= Seconds(t)
         /\ r[1].time = IF waveform[q] = <<>> THEN Seconds(t) ELSE waveform[q][1].time
<1> DEFINE w == waveform[q]
           point == [time |-> Seconds(t), value |-> v]
           r == Recorded(q, t, v)
<1>1. Seconds(t) \in Nat /\ point \in Point /\ point.time = Seconds(t) /\ point.value = v
  BY SecondsMonotone DEF Point
<1>2. w \in Seq(Point) /\ Len(w) \in Nat /\ (w # <<>> => Len(w) >= 1 /\ Latest(w) \in Point)
  BY DEF Latest
<1>3. \A i \in 1 .. Len(w) : w[i].time \in Nat
  <2>1. \A i \in 1 .. Len(w) : w[i] \in Point
    BY <1>2
  <2> QED BY <2>1 DEF Point
<1>4. CASE r = w /\ w # <<>>
  BY <1>2, <1>4
<1>5. CASE /\ r = Append(w, point)
           /\ w # <<>> => IF Domain[q] = "digital" THEN Latest(w).value # v ELSE Latest(w).time # Seconds(t)
  <2>1. /\ r \in Seq(Point) /\ Len(r) = Len(w) + 1 /\ r # <<>> /\ r[Len(r)] = point
        /\ \A i \in 1 .. Len(w) : r[i] = w[i]
    BY <1>1, <1>2, <1>5
  <2>2. Ordered(q, r)
    <3> SUFFICES ASSUME NEW i \in 1 .. Len(w)
                 PROVE  IF Domain[q] = "digital"
                        THEN r[i].time <= r[i + 1].time /\ r[i].value # r[i + 1].value
                        ELSE r[i].time < r[i + 1].time
      BY <1>2, <2>1 DEF Ordered
    <3>1. CASE i < Len(w)
      <4>1. i \in 1 .. Len(w) - 1 /\ r[i] = w[i] /\ r[i + 1] = w[i + 1]
        BY <1>2, <2>1, <3>1
      <4> QED BY <4>1 DEF Ordered
    <3>2. CASE i = Len(w)
      <4>1. w # <<>> /\ r[i] = Latest(w) /\ r[i + 1] = point
        BY <1>2, <2>1, <3>2 DEF Latest
      <4>2. Latest(w).time \in Nat /\ Latest(w).time <= Seconds(t)
        BY <1>2, <1>3, <4>1 DEF Latest
      <4> QED BY <1>1, <1>5, <4>1, <4>2
    <3> QED BY <1>2, <3>1, <3>2
  <2>3. Latest(r).time <= Seconds(t)
    BY <1>1, <2>1 DEF Latest
  <2>4. r[1].time = IF w = <<>> THEN Seconds(t) ELSE w[1].time
    BY <1>1, <1>2, <2>1
  <2> QED BY <2>1, <2>2, <2>3, <2>4
<1>6. CASE /\ r = [w EXCEPT ![Len(w)] = point] /\ w # <<>> /\ Domain[q] # "digital"
           /\ Latest(w).time = Seconds(t)
  <2>1. /\ r \in Seq(Point) /\ Len(r) = Len(w) /\ r # <<>> /\ r[Len(r)] = point
        /\ \A i \in 1 .. Len(w) : r[i].time = w[i].time
    BY <1>1, <1>2, <1>6 DEF Latest
  <2>2. Ordered(q, r)
    BY <1>2, <1>6, <2>1 DEF Ordered
  <2> QED BY <1>1, <1>2, <1>6, <2>1, <2>2 DEF Latest
<1> QED BY <1>4, <1>5, <1>6 DEF Recorded

(* The run has recorded its first sample. *)
Sampled == phase \in {"step", "advance"} \/ (phase \in {"settle", "deliver"} /\ target # 0)

(* While a run goes on the waveforms are empty or start at zero and end no *)
(* later than now; those of a report have a first point.                   *)
WaveInv ==
  /\ waveform \in [Readable -> Seq(Point)]
  /\ \A q \in Readable : Ordered(q, waveform[q])
  /\ phase # "idle" =>
       /\ outcome = None
       /\ \A q \in Readable :
            IF Sampled
            THEN waveform[q] # <<>> /\ waveform[q][1].time = 0 /\ Latest(waveform[q]).time <= Seconds(now)
            ELSE waveform[q] = <<>>
  /\ outcome = "completed" => \A q \in Readable : waveform[q] # <<>> /\ waveform[q][1].time = 0

LEMMA EmptyWaves ==
  /\ NoWaveform \in [Readable -> Seq(Point)]
  /\ \A q \in Readable : NoWaveform[q] = <<>> /\ Ordered(q, NoWaveform[q])
<1>1. \A q \in Readable : NoWaveform[q] = <<>>
  BY DEF NoWaveform
<1>2. <<>> \in Seq(Point) /\ Len(<<>>) = 0
  OBVIOUS
<1> QED BY <1>1, <1>2 DEF NoWaveform, Ordered

LEMMA ReturnWaves ==
  ASSUME WaveInv, NEW result, Return(result), result = "completed" => phase = "step"
  PROVE  WaveInv'
<1>1. CASE result # "completed"
  BY <1>1, EmptyWaves DEF Return, WaveInv
<1>2. CASE result = "completed"
  BY <1>2 DEF Return, WaveInv, Sampled
<1> QED BY <1>1, <1>2

(* A step of a run that records nothing. *)
LEMMA SilentWaves ==
  ASSUME WaveInv, phase # "idle", phase' # "idle", Sampled' = Sampled, waveform' = waveform,
         outcome' = outcome, now' = now
  PROVE  WaveInv'
  BY DEF WaveInv

LEMMA SampleWaves ==
  ASSUME Inv, WaveInv, EndCycle, ~changed,
         waveform' = [q \in Readable |-> Recorded(q, target, value[q])],
         now' = target, phase' = "step", outcome' = outcome
  PROVE  WaveInv'
<1>1. phase = "deliver" /\ target \in Nat /\ now \in Nat /\ outcome = None
  BY ConfigAssumption DEF EndCycle, Inv, RunTypes, WaveInv
<1>2. now <= target
  BY <1>1 DEF Inv, ControlInv
<1>3. Seconds(now) \in Nat /\ Seconds(target) \in Nat /\ Seconds(now) <= Seconds(target) /\ Seconds(0) = 0
  BY <1>1, <1>2, SecondsMonotone
<1>4. ASSUME NEW q \in Readable
      PROVE  LET r == Recorded(q, target, value[q]) IN
             /\ r \in Seq(Point) /\ Ordered(q, r)
             /\ r # <<>> /\ r[1].time = 0 /\ Latest(r).time <= Seconds(target)
  <2>1. waveform[q] \in Seq(Point) /\ Ordered(q, waveform[q])
    BY <1>4 DEF WaveInv
  <2>2. value[q] \in Values
    BY <1>4 DEF Inv, ParticipantTypes, Readable
  <2>3. CASE target = 0
    <3>1. waveform[q] = <<>>
      BY <1>1, <1>4, <2>3 DEF WaveInv, Sampled
    <3> QED BY <1>1, <1>3, <1>4, <2>1, <2>2, <2>3, <3>1, RecordedOrdered
  <2>4. CASE target # 0
    <3>1. waveform[q] # <<>> /\ waveform[q][1].time = 0 /\ Latest(waveform[q]).time <= Seconds(now)
      BY <1>1, <1>4, <2>4 DEF WaveInv, Sampled
    <3>2. Latest(waveform[q]).time \in Nat
      <4>1. waveform[q][Len(waveform[q])] \in Point
        BY <2>1, <3>1
      <4> QED BY <4>1 DEF Latest, Point
    <3>3. Latest(waveform[q]).time <= Seconds(target)
      BY <1>3, <3>1, <3>2
    <3> QED BY <1>1, <1>4, <2>1, <2>2, <3>1, <3>3, RecordedOrdered
  <2> QED BY <2>3, <2>4
<1>5. waveform' \in [Readable -> Seq(Point)]
  BY <1>4
<1>6. \A q \in Readable :
        /\ Ordered(q, waveform'[q])
        /\ waveform'[q] # <<>> /\ waveform'[q][1].time = 0
        /\ Latest(waveform'[q]).time <= Seconds(now')
  BY <1>4
<1>7. Sampled' /\ phase' # "idle" /\ outcome' = None
  BY <1>1 DEF Sampled
<1> QED BY <1>5, <1>6, <1>7, ConfigAssumption DEF WaveInv

LEMMA WavesStep == Inv /\ WaveInv /\ [Next]_vars => WaveInv'
<1> SUFFICES ASSUME Inv, WaveInv, [Next]_vars PROVE WaveInv'
  OBVIOUS
<1>1. CASE \E result : Return(result) /\ (result = "completed" => phase = "step")
  BY <1>1, ReturnWaves
<1>2. CASE Run
  <2>1. /\ waveform' = NoWaveform /\ target' = 0 /\ phase' \in {"idle", "initialize"}
        /\ outcome' # "completed" /\ (phase' # "idle" => outcome' = None)
    BY <1>2, ConfigAssumption DEF Run
  <2> QED BY <2>1, EmptyWaves DEF WaveInv, Sampled
<1>3. ASSUME NEW p \in Participants, Initialize(p) \/ Advance(p), Done(p) PROVE WaveInv'
  <2>1. /\ phase \in {"initialize", "advance"} /\ phase' \in {phase, "settle"}
        /\ waveform' = waveform /\ outcome' = outcome /\ now' = now /\ target' = target
    BY <1>3 DEF Initialize, Advance, Done, callVars
  <2>2. IF phase = "initialize" THEN target = 0 ELSE target # 0
    BY <2>1, ConfigAssumption DEF Inv, ControlInv, LockStep, RunTypes
  <2>3. Sampled' = Sampled
    BY <2>1, <2>2 DEF Sampled
  <2> QED BY <2>1, <2>3, SilentWaves
<1>4. ASSUME phase' \in {"settle", "deliver"}, phase \in {"settle", "deliver"}, UNCHANGED callVars PROVE WaveInv'
  <2>1. Sampled' = Sampled
    BY <1>4 DEF Sampled, callVars
  <2> QED BY <1>4, <2>1, SilentWaves DEF callVars
<1>5. CASE Step
  <2>1. CASE phase' = "advance" /\ UNCHANGED <<outcome, now, waveform>>
    BY <1>5, <2>1, SilentWaves DEF Step, Sampled
  <2>2. CASE \E result : ReturnNow(result)
    BY <1>1, <1>5, <2>2 DEF ReturnNow, Step
  <2> QED BY <1>5, <2>1, <2>2 DEF Step, Stride
<1>6. CASE EndCycle
  <2>1. CASE ReturnNow("cosim_value_invalid")
    BY <1>1, <2>1 DEF ReturnNow
  <2>2. CASE Again
    BY <1>4, <1>6, <2>2 DEF Again, EndCycle
  <2> QED BY <1>6, <2>1, <2>2, SampleWaves DEF EndCycle, Sample
<1>7. CASE ReadSources
  BY <1>1, <1>4, <1>7 DEF ReadSources, ReturnNow, Interruption
<1>8. ASSUME NEW l \in Links, Deliver(l) PROVE WaveInv'
  BY <1>1, <1>4, <1>8 DEF Deliver, ReturnNow
<1>9. ASSUME NEW p \in Participants, Initialize(p) \/ Advance(p) PROVE WaveInv'
  BY <1>1, <1>3, <1>9 DEF Initialize, Advance, ReturnNow, Interruption
<1>10. CASE CancelRun \/ TimeOut \/ UNCHANGED vars
  BY <1>10 DEF CancelRun, TimeOut, vars, callVars, WaveInv, Sampled
<1> QED BY <1>2, <1>5, <1>6, <1>7, <1>8, <1>9, <1>10 DEF Next, Master

LEMMA WavesInvariance == Spec => [](Inv /\ WaveInv)
<1>1. Init => Inv /\ WaveInv
  BY InitInv, EmptyWaves, ConfigAssumption DEF Init, WaveInv, Sampled
<1>2. (Inv /\ WaveInv) /\ [Next]_vars => (Inv /\ WaveInv)'
  BY NextInv, WavesStep
<1> QED BY <1>1, <1>2, PTL DEF Spec

(* The waveforms of a report, and those recorded so far, start at zero and *)
(* are in the order of time for any rounding of times to seconds           *)
(* (WaveformsAreOrdered).                                                  *)
THEOREM WaveformsStayOrdered == Spec => []WaveformsAreOrdered
<1>1. Inv /\ WaveInv => WaveformsAreOrdered
  BY DEF WaveInv, Sampled, WaveformsAreOrdered, Ordered
<1> QED BY <1>1, WavesInvariance, PTL

(* Types: the counters stay within their limits, so that no run makes more *)
(* macro steps or delta cycles than its configuration allows (TypeOK).     *)
THEOREM TypeCorrect == Spec => []TypeOK
<1>1. Inv /\ WaveInv => TypeOK
  BY DEF Inv, WaveInv, ParticipantTypes, RunTypes, Point, TypeOK
<1> QED BY <1>1, WavesInvariance, PTL
============================================================================
