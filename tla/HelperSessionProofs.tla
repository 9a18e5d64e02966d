------------------------- MODULE HelperSessionProofs ------------------------
(* What HelperSession promises for every set of ports, every bound on times   *)
(* and helpers and every fault: types, answers that belong to their commands, *)
(* writes that are skipped for a reason, no stray helper, and the safety part *)
(* of the contract with the scheduler.                                        *)
EXTENDS HelperSession, SequenceTheorems, TLAPS

\* A call that has sent a command and waits for its answer.
Serving == caller.call.op \in {"advance", "write"}

\* Who is connected to whom.
CallsHold ==
    /\ Ready \/ Serving => session.helper = helper.newest /\ helper.connected
    /\ Serving => caller.outcome = "ok"
    /\ caller.call.op = "advance" => caller.call.target > session.mirror.time
    /\ caller.call.op = "write" => caller.call.port \in Written(backend)

\* A helper is started only while the bound allows one more.
SpawnsHold == caller.call.op = "spawn" => helper.newest < MaxSpawns

\* One command or one answer is in the pipes, while a call waits for it.
PipesHold ==
    /\ Ready => helper.stdin = <<>> /\ helper.stdout = <<>>
    /\ caller.call.op = "connect" =>
          /\ helper.stdin = <<>>
          /\ IF helper.connected THEN Len(helper.stdout) = 1 ELSE helper.stdout = <<>>
    /\ Serving =>
          \/ helper.stdin = <<CommandOf(caller.call)>> /\ helper.stdout = <<>>
          \/ helper.stdin = <<>> /\ Len(helper.stdout) = 1

\* The answer in the pipe describes the device, unless it is ill-formed or lies.
LinesHold ==
    Waiting /\ helper.stdout # <<>> =>
        LET line == Head(helper.stdout) IN
        /\ line.tag = "STATE" /\ DOMAIN line.level = Shown(backend) => line.level = device.level
        /\ ~helper.lied => line = StateLine(device)

\* Only Verilator announces events, and an input of Renode shows its level.
DeviceHolds ==
    /\ backend # "verilator" => device.next = NoEvent /\ session.mirror.next = NoEvent
    /\ backend = "renode" => \A p \in InPorts : device.level[p] = device.driven[p]

\* The levels the device has been given, as far as the session knows.
InputsHold ==
    backend # "renode" =>
        /\ Ready \/ (Serving /\ helper.stdout = <<>>) => device.driven = session.mirror.inputs
        /\ caller.call.op = "advance" => device.driven = session.mirror.inputs
        /\ caller.call.op = "write" /\ helper.stdout # <<>> =>
              device.driven = [session.mirror.inputs EXCEPT ![caller.call.port] = caller.call.value]
        /\ caller.call.op = "connect" /\ helper.connected =>
              device.driven = BlankMirror(backend).inputs

\* What the session shows once a call has succeeded.
MirrorHolds ==
    Ready => /\ session.mirror.values = device.level
             /\ ~helper.lied => /\ session.mirror.time = device.time
                                /\ session.mirror.next = device.next

Inv == /\ TypeOK /\ NoStrayHelper /\ SpawnsHold /\ CallsHold /\ PipesHold
       /\ LinesHold /\ DeviceHolds /\ InputsHold /\ MirrorHolds

------------------------------------------------------------------------------
\* What reading a line does to a mirror, for each of the three sessions.
Reads(read, line, mirror) ==
    /\ read.ok \in BOOLEAN /\ read.mirror \in Mirrors(backend)
    /\ read.mirror.inputs = mirror.inputs
    /\ backend # "verilator" => read.mirror.next = mirror.next
    /\ read.ok => /\ line.tag = "STATE" /\ DOMAIN line.level = Shown(backend)
                  /\ read.mirror.values = line.level /\ read.mirror.time = line.time
                  /\ backend = "verilator" => read.mirror.next = line.next

LEMMA LevelsOfLines ==
    ASSUME NEW b \in Backends, NEW line \in Lines(b)
    PROVE  /\ line.time \in Times /\ line.next \in Times
           /\ DOMAIN line.level \subseteq Shown(b)
           /\ line.level = [p \in DOMAIN line.level |-> line.level[p]]
           /\ \A p \in DOMAIN line.level : line.level[p] \in Levels
           /\ DOMAIN line.level = Shown(b) => line.level \in [Shown(b) -> Levels]
<1>1. PICK S \in SUBSET Shown(b) : line.level \in [S -> Levels]
  BY DEF Lines
<1> QED BY <1>1 DEF Lines

LEMMA ReadStateReads ==
    ASSUME backend \in Backends, NEW line \in Lines(backend), NEW mirror \in Mirrors(backend)
    PROVE  Reads(ReadState(line, mirror), line, mirror)
<1> USE LevelsOfLines DEF Reads
<1>1. CASE backend = "renode"
  <2>1. ReadState(line, mirror) = RenodeReadState(mirror, line)
    BY <1>1 DEF ReadState
  <2>2. CASE line.tag = "STATE" /\ DOMAIN line.level = Shown("renode")
    <3>1. line.level \in [Shown(backend) -> Levels]
      BY <1>1, <2>2
    <3> DEFINE after == [mirror EXCEPT !.time = line.time, !.values = line.level]
    <3>2. /\ after \in Mirrors(backend) /\ after.inputs = mirror.inputs /\ after.next = mirror.next
          /\ after.values = line.level /\ after.time = line.time
      BY <3>1 DEF Mirrors
    <3>3. ReadState(line, mirror) = [ok |-> TRUE, mirror |-> after]
      BY <2>1, <2>2 DEF RenodeReadState
    <3> HIDE DEF after
    <3> QED BY <1>1, <2>2, <3>2, <3>3
  <2>3. CASE ~(line.tag = "STATE" /\ DOMAIN line.level = Shown("renode"))
    BY <1>1, <2>1, <2>3 DEF RenodeReadState
  <2> QED BY <2>2, <2>3
<1>2. CASE backend = "ngspice"
  <2>1. ReadState(line, mirror) = NgSpiceReadState(mirror, line)
    BY <1>2 DEF ReadState
  <2>2. CASE line.tag = "STATE" /\ DOMAIN line.level = Shown("ngspice")
    <3>1. line.level \in [Shown(backend) -> Levels]
      BY <1>2, <2>2
    <3> DEFINE after == [mirror EXCEPT !.time = line.time, !.values = line.level]
    <3>2. /\ after \in Mirrors(backend) /\ after.inputs = mirror.inputs /\ after.next = mirror.next
          /\ after.values = line.level /\ after.time = line.time
      BY <3>1 DEF Mirrors
    <3>3. ReadState(line, mirror) = [ok |-> TRUE, mirror |-> after]
      BY <2>1, <2>2 DEF NgSpiceReadState
    <3> HIDE DEF after
    <3> QED BY <1>2, <2>2, <3>2, <3>3
  <2>3. CASE ~(line.tag = "STATE" /\ DOMAIN line.level = Shown("ngspice"))
    BY <1>2, <2>1, <2>3 DEF NgSpiceReadState
  <2> QED BY <2>2, <2>3
<1>3. CASE backend = "verilator"
  <2> DEFINE values   == [p \in OutPorts |-> IF p \in DOMAIN line.level THEN line.level[p]
                                                                     ELSE mirror.values[p]]
             outputs  == [mirror EXCEPT !.values = values]
             timed    == [outputs EXCEPT !.time = line.time]
             complete == DOMAIN line.level = OutPorts
             future   == line.next = NoEvent \/ line.next > line.time
  <2>1. ReadState(line, mirror) =
            IF line.tag # "STATE" THEN [ok |-> FALSE, mirror |-> mirror]
            ELSE IF ~complete     THEN [ok |-> FALSE, mirror |-> outputs]
            ELSE IF ~future       THEN [ok |-> FALSE, mirror |-> timed]
            ELSE [ok |-> TRUE, mirror |-> [timed EXCEPT !.next = line.next]]
    BY <1>3 DEF ReadState, VerilatorReadState
  <2>2. Shown(backend) = OutPorts
    BY <1>3 DEF Shown
  <2>3. values \in [Shown(backend) -> Levels]
    BY <2>2 DEF Mirrors
  <2>4. complete => values = line.level
    BY <2>2, <2>3
  <2>5. mirror \in [time : Times, values : [Shown(backend) -> Levels],
                    inputs : [Written(backend) -> Levels], next : Times]
    BY DEF Mirrors
  <2> HIDE DEF values
  <2>6. /\ outputs \in Mirrors(backend) /\ outputs.inputs = mirror.inputs /\ outputs.values = values
        /\ timed \in Mirrors(backend) /\ timed.inputs = mirror.inputs /\ timed.values = values
        /\ timed.time = line.time
    BY <2>3, <2>5 DEF Mirrors
  <2>7. /\ [timed EXCEPT !.next = line.next] \in Mirrors(backend)
        /\ [timed EXCEPT !.next = line.next].inputs = mirror.inputs
        /\ [timed EXCEPT !.next = line.next].values = values
        /\ [timed EXCEPT !.next = line.next].time = line.time
        /\ [timed EXCEPT !.next = line.next].next = line.next
    BY <2>3, <2>5 DEF Mirrors
  <2> HIDE DEF outputs, timed, future
  <2> QED BY <1>3, <2>1, <2>2, <2>4, <2>6, <2>7
<1> QED BY <1>1, <1>2, <1>3 DEF Backends

LEMMA BlankMirrorTyped ==
    ASSUME backend \in Backends
    PROVE  BlankMirror(backend) \in Mirrors(backend) /\ BlankMirror(backend).next = NoEvent
BY TimesAssumption DEF BlankMirror, Mirrors, Times, Levels, NoEvent

LEMMA EvalKeepsInputs ==
    ASSUME backend = "verilator", NEW given \in Devices(backend), NEW d \in VerilatorEval(given)
    PROVE  d \in Devices(backend) /\ d.driven = given.driven
<1>1. PICK n \in {NoEvent} \cup {t \in Times : t > given.time} :
        d \in {[given EXCEPT !.level = l, !.next = n] : l \in [OutPorts -> Levels]}
  BY Zenon DEF VerilatorEval
<1>3. PICK l \in [OutPorts -> Levels] : d = [given EXCEPT !.level = l, !.next = n]
  BY <1>1
<1>2. n \in Times
  BY TimesAssumption DEF Times, NoEvent
<1> QED BY <1>2, <1>3 DEF Devices, Shown

\* What a command may leave of the device behind it.
LEMMA DevicesAfterCommand ==
    ASSUME backend \in Backends, device \in Devices(backend),
           NEW command \in Commands(backend), NEW d \in DevicesAfter(command)
    PROVE  /\ d \in Devices(backend)
           /\ d.driven = IF command.op = "SET"
                         THEN [device.driven EXCEPT ![command.port] = command.value]
                         ELSE device.driven
           /\ backend # "verilator" => d.next = device.next
<1> USE DEF Devices
<1>0. /\ command.op = "SET" => command.port \in Written(backend) /\ command.value \in Levels
      /\ command.op # "SET" => command.target \in Times
  BY DEF Commands
<1>1. CASE backend = "renode"
  <2>1. d \in RenodeHelper(device, command)
    BY <1>1 DEF DevicesAfter
  <2>2. CASE command.op = "SET"
    <3>1. PICK shown \in Levels :
            d = [device EXCEPT !.driven[command.port] = command.value, !.level[command.port] = shown]
      BY <1>0, <1>1, <2>1, <2>2 DEF RenodeHelper, RenodeHelperSet
    <3> QED BY <1>0, <1>1, <2>2, <3>1
  <2>3. CASE command.op # "SET"
    <3>1. CASE command.target = device.time
      BY <1>0, <1>1, <2>1, <2>3, <3>1 DEF RenodeHelper, RenodeHelperAdvance
    <3>2. CASE command.target # device.time
      <4>1. PICK l \in [OutPorts \cup PadPorts -> Levels] :
              d = [device EXCEPT !.time = command.target, !.started = TRUE,
                      !.level = [p \in Shown("renode") |-> IF p \in InPorts THEN device.driven[p] ELSE l[p]]]
        BY <1>0, <1>1, <2>1, <2>3, <3>2 DEF RenodeHelper, RenodeHelperAdvance
      <4>2. [p \in Shown("renode") |-> IF p \in InPorts THEN device.driven[p] ELSE l[p]]
              \in [Shown(backend) -> Levels]
        BY <1>1 DEF Shown, Written
      <4> QED BY <1>0, <1>1, <2>3, <4>1, <4>2
    <3> QED BY <3>1, <3>2
  <2> QED BY <2>2, <2>3
<1>2. CASE backend = "ngspice"
  <2>1. d \in NgSpiceHelper(device, command)
    BY <1>2 DEF DevicesAfter
  <2>2. CASE command.op = "SET"
    <3>1. PICK l \in [OutPorts -> Levels] :
            d = [device EXCEPT !.driven[command.port] = command.value, !.level = l]
      BY <1>0, <1>2, <2>1, <2>2 DEF NgSpiceHelper, NgSpiceHelperSet, Shown
    <3> QED BY <1>0, <1>2, <2>2, <3>1 DEF Shown
  <2>3. CASE command.op # "SET"
    <3>1. CASE command.target = device.time
      BY <1>0, <1>2, <2>1, <2>3, <3>1 DEF NgSpiceHelper
    <3>2. CASE command.target # device.time
      <4>1. PICK l \in [OutPorts -> Levels] :
              d = [device EXCEPT !.time = command.target, !.started = TRUE, !.level = l]
        BY <1>0, <1>2, <2>1, <2>3, <3>2 DEF NgSpiceHelper, NgSpiceHelperAdvance
      <4> QED BY <1>0, <1>2, <2>3, <4>1 DEF Shown
    <3> QED BY <3>1, <3>2
  <2> QED BY <2>2, <2>3
<1>3. CASE backend = "verilator"
  <2>1. d \in VerilatorHelper(device, command)
    BY <1>3 DEF DevicesAfter
  <2>2. CASE command.op = "SET"
    <3> DEFINE given == [device EXCEPT !.driven[command.port] = command.value]
    <3>1. given \in Devices(backend) /\ given.driven = [device.driven EXCEPT ![command.port] = command.value]
      BY <1>0, <2>2
    <3>2. d \in VerilatorEval(given)
      BY <2>1, <2>2 DEF VerilatorHelper, VerilatorHelperSet
    <3> QED BY <1>3, <2>2, <3>1, <3>2, EvalKeepsInputs
  <2>3. CASE command.op # "SET"
    <3> DEFINE moved == [device EXCEPT !.time = command.target, !.started = TRUE]
    <3>1. moved \in Devices(backend) /\ moved.driven = device.driven
      BY <1>0, <2>3
    <3>2. d \in VerilatorEval(moved)
      BY <2>1, <2>3 DEF VerilatorHelper, VerilatorHelperAdvance
    <3> QED BY <1>3, <2>3, <3>1, <3>2, EvalKeepsInputs
  <2> QED BY <2>2, <2>3
<1> QED BY <1>1, <1>2, <1>3 DEF Backends

\* An input of Renode shows its level again after every command.
LEMMA RenodeInputsFollow ==
    ASSUME backend = "renode", device \in Devices(backend),
           \A p \in InPorts : device.level[p] = device.driven[p],
           NEW command \in Commands(backend), NEW d \in DevicesAfter(command)
    PROVE  \A p \in InPorts : d.level[p] = d.driven[p]
<1> USE DEF Devices
<1>0. /\ command.op = "SET" => command.port \in Written(backend) /\ command.value \in Levels
      /\ InPorts \subseteq Shown(backend) /\ InPorts \subseteq Written(backend)
      /\ Written(backend) \subseteq Shown(backend)
  BY DEF Commands, Shown, Written
<1>1. d \in RenodeHelper(device, command)
  BY DEF DevicesAfter
<1>2. CASE command.op = "SET"
  <2>1. PICK shown \in IF command.port \in PadPorts THEN Levels ELSE {command.value} :
          d = [device EXCEPT !.driven[command.port] = command.value, !.level[command.port] = shown]
    BY <1>1, <1>2 DEF RenodeHelper, RenodeHelperSet
  <2>2. command.port \in InPorts => shown = command.value
    BY <2>1, PortsAssumption
  <2> QED BY <1>0, <1>2, <2>1, <2>2
<1>3. CASE command.op # "SET"
  <2>1. CASE command.target = device.time
    BY <1>1, <1>3, <2>1 DEF RenodeHelper, RenodeHelperAdvance
  <2>2. CASE command.target # device.time
    <3>1. PICK l \in [OutPorts \cup PadPorts -> Levels] :
            d = [device EXCEPT !.time = command.target, !.started = TRUE,
                    !.level = [p \in Shown("renode") |-> IF p \in InPorts THEN device.driven[p] ELSE l[p]]]
      BY <1>1, <1>3, <2>2 DEF RenodeHelper, RenodeHelperAdvance
    <3> QED BY <1>0, <3>1
  <2> QED BY <2>1, <2>2
<1> QED BY <1>2, <1>3

LEMMA FirstDevice ==
    ASSUME backend \in Backends, device \in Devices(backend), NEW d \in FirstDevices
    PROVE  /\ d \in Devices(backend)
           /\ backend = "renode" => d = device
           /\ backend = "ngspice" => d.next = NoEvent
           /\ backend # "renode" => d.driven = BlankMirror(backend).inputs
<1>0. NoEvent \in Times /\ 0 \in Levels /\ 0 \in Times
  BY TimesAssumption DEF NoEvent, Times, Levels
<1>1. CASE backend = "renode"
  BY <1>1 DEF FirstDevices, RenodeConnected
<1>2. CASE backend = "ngspice"
  <2>1. PICK l \in [OutPorts -> Levels] :
          d = [time |-> 0, driven |-> [p \in InPorts |-> 0], level |-> l, next |-> NoEvent,
               started |-> FALSE]
    BY <1>2 DEF FirstDevices, NgSpiceConnected
  <2> QED BY <1>0, <1>2, <2>1 DEF Devices, Shown, Written, BlankMirror
<1>3. CASE backend = "verilator"
  <2> DEFINE blank == [time |-> 0, driven |-> [p \in InPorts |-> 0],
                       level |-> [p \in OutPorts |-> 0], next |-> NoEvent, started |-> FALSE]
  <2>1. blank \in Devices(backend) /\ blank.driven = BlankMirror(backend).inputs
    BY <1>0, <1>3 DEF Devices, Shown, Written, BlankMirror
  <2>2. d \in VerilatorEval(blank)
    BY <1>3 DEF FirstDevices, VerilatorConnected
  <2> QED BY <1>3, <2>1, <2>2, EvalKeepsInputs
<1> QED BY <1>1, <1>2, <1>3 DEF Backends

LEMMA EmptyLine == <<>> \in [{} -> Levels]
OBVIOUS

\* What a helper prints for a device.
LEMMA PrintedLines ==
    ASSUME backend \in Backends, NEW d \in Devices(backend), NEW line \in Printed(d)
    PROVE  /\ line \in Lines(backend)
           /\ line.tag = "STATE" /\ DOMAIN line.level = Shown(backend) => line.level = d.level
<1>1. StateLine(d) \in Lines(backend) /\ StateLine(d).level = d.level
  BY DEF StateLine, Lines, Devices
<1>2. CASE line = StateLine(d)
  BY <1>1, <1>2
<1>3. CASE line = [StateLine(d) EXCEPT !.tag = "other"]
  BY <1>1, <1>3 DEF Lines
<1>4. CASE line = [StateLine(d) EXCEPT !.level = <<>>]
  <2>1. line.level = <<>> /\ DOMAIN line.level = {}
    BY <1>1, <1>4, EmptyLine DEF Lines, StateLine
  <2>2. line \in Lines(backend)
    BY <1>1, <1>4, EmptyLine DEF Lines
  <2>3. Shown(backend) = {} => d.level = <<>>
    BY EmptyLine DEF Devices
  <2> QED BY <2>1, <2>2, <2>3
<1>5. CASE \E t \in Times : line = [StateLine(d) EXCEPT !.time = t]
  BY <1>1, <1>5 DEF Lines
<1>6. CASE line = [StateLine(d) EXCEPT !.next = d.time]
  BY <1>1, <1>6 DEF Lines, Devices
<1> QED BY <1>2, <1>3, <1>4, <1>5, <1>6 DEF Printed

------------------------------------------------------------------------------
LEMMA CallShapes ==
    ASSUME TypeOK
    PROVE  /\ caller.call.op \in {"idle", "spawn", "connect", "advance", "write"}
           /\ caller.call = Idle <=> caller.call.op = "idle"
           /\ caller.call.op = "advance" => caller.call.target \in Times
           /\ caller.call.op = "write" => caller.call.value \in Levels
BY DEF TypeOK, Calls, Idle

LEMMA InitInv == Init => Inv
<1> SUFFICES ASSUME Init PROVE Inv
  OBVIOUS
<1>1. backend \in Backends /\ caller.call = Idle /\ caller.call.op = "idle" /\ caller.outcome = "none"
  BY DEF Init, Idle
<1>2. NoEvent \in Times /\ 0 \in Levels /\ 0 \in Times /\ 0 \in 0 .. MaxSpawns
  BY TimesAssumption, SpawnsAssumption DEF NoEvent, Times, Levels
<1>3. TypeOK
  <2>1. caller \in [call : Calls, outcome : {"none", "ok", "failed"}]
    BY DEF Init, Calls
  <2>2. session \in [helper : 0 .. MaxSpawns, mirror : Mirrors(backend)]
    BY <1>1, <1>2, BlankMirrorTyped DEF Init
  <2>3. device \in Devices(backend)
    BY <1>2 DEF Init, Devices
  <2>4. helper \in Helpers
    BY <1>2 DEF Init, Helpers
  <2> QED BY <1>1, <2>1, <2>2, <2>3, <2>4 DEF TypeOK, Init
<1>4. NoStrayHelper
  BY DEF Init, NoStrayHelper
<1>5. CallsHold /\ PipesHold /\ LinesHold /\ MirrorHolds
  BY <1>1 DEF CallsHold, PipesHold, LinesHold, MirrorHolds, Ready, Serving, Waiting
<1>8. SpawnsHold
  BY <1>1 DEF SpawnsHold
<1>6. DeviceHolds
  BY <1>1, BlankMirrorTyped DEF Init, DeviceHolds, Shown, Written
<1>7. InputsHold
  BY <1>1 DEF InputsHold, Ready, Serving
<1> QED BY <1>3, <1>4, <1>5, <1>6, <1>7, <1>8 DEF Inv

\* While nobody waits and no call has just succeeded the pipes may hold anything.
LEMMA Unheard ==
    ASSUME ~Ready', ~Waiting'
    PROVE  CallsHold' /\ PipesHold' /\ LinesHold' /\ InputsHold' /\ MirrorHolds'
BY DEF Waiting, Serving, CallsHold, PipesHold, LinesHold, InputsHold, MirrorHolds

LEMMA InitializeInv == Inv /\ Initialize => Inv'
<1> SUFFICES ASSUME Inv, Initialize PROVE Inv'
  OBVIOUS
<1>1. caller' = [caller EXCEPT !.call = [op |-> "spawn"]] /\ UNCHANGED <<backend, session, helper, device>>
  BY DEF Initialize
<1>2. caller' \in [call : Calls, outcome : {"none", "ok", "failed"}] /\ caller'.call.op = "spawn"
  BY <1>1 DEF Inv, TypeOK, Calls
<1>3. ~Ready' /\ ~Waiting'
  BY <1>2 DEF Ready, Waiting, Idle
<1>4. TypeOK'
  BY <1>1, <1>2 DEF Inv, TypeOK, Initialize, Helpers
<1>5. NoStrayHelper'
  <2>1. caller.call = Idle
    BY DEF Initialize, InCall
  <2> QED BY <1>1, <1>2, <2>1 DEF Inv, NoStrayHelper, Idle
<1>6. DeviceHolds' /\ SpawnsHold'
  BY <1>1 DEF Inv, DeviceHolds, SpawnsHold, Initialize
<1> QED BY <1>3, <1>4, <1>5, <1>6, Unheard DEF Inv

LEMMA SpawnFailsInv == Inv /\ (SpawnCancelled \/ SpawnGivesUp) => Inv'
<1> SUFFICES ASSUME Inv, SpawnCancelled \/ SpawnGivesUp PROVE Inv'
  OBVIOUS
<1>1. /\ caller.call.op = "spawn" /\ caller' = [call |-> Idle, outcome |-> "failed"]
      /\ UNCHANGED <<backend, session, helper, device, cancelled>>
  BY DEF SpawnCancelled, SpawnGivesUp, Fails, Return
<1>2. ~Ready' /\ ~Waiting'
  BY <1>1 DEF Ready, Waiting, Idle
<1>3. TypeOK'
  BY <1>1 DEF Inv, TypeOK, Calls, Helpers
<1>4. NoStrayHelper' /\ DeviceHolds' /\ SpawnsHold'
  BY <1>1 DEF Inv, NoStrayHelper, DeviceHolds, SpawnsHold, Idle
<1> QED BY <1>2, <1>3, <1>4, Unheard DEF Inv

LEMMA SpawnInv == Inv /\ Spawn => Inv'
<1> SUFFICES ASSUME Inv, Spawn PROVE Inv'
  OBVIOUS
<1>1. /\ caller.call.op = "spawn" /\ caller' = [caller EXCEPT !.call = [op |-> "connect"]]
      /\ helper.newest < MaxSpawns
      /\ UNCHANGED <<backend, session, device, cancelled>>
  BY DEF Spawn, Inv, SpawnsHold
<1>2. caller' \in [call : Calls, outcome : {"none", "ok", "failed"}] /\ caller'.call.op = "connect"
  BY <1>1 DEF Inv, TypeOK, Calls
<1>3. helper' = [newest |-> helper.newest + 1, alive |-> helper.alive \cup {helper.newest + 1},
                 connected |-> FALSE, hung |-> FALSE, lied |-> FALSE, stdin |-> <<>>, stdout |-> <<>>]
  BY DEF Spawn
<1>4. TypeOK'
  <2>1. helper.newest + 1 \in 1 .. MaxSpawns
    BY <1>1, SpawnsAssumption DEF Inv, TypeOK, Helpers
  <2>2. helper' \in Helpers'
    BY <1>3, <2>1 DEF Inv, TypeOK, Helpers
  <2> QED BY <1>1, <1>2, <2>2 DEF Inv, TypeOK
<1>5. NoStrayHelper'
  BY <1>1, <1>2, <1>3 DEF Inv, NoStrayHelper
<1>6. DeviceHolds' /\ SpawnsHold'
  BY <1>1, <1>2 DEF Inv, DeviceHolds, SpawnsHold
<1>7. CallsHold' /\ PipesHold' /\ LinesHold' /\ InputsHold' /\ MirrorHolds'
  BY <1>2, <1>3 DEF CallsHold, PipesHold, LinesHold, InputsHold, MirrorHolds, Ready, Serving, Waiting, Idle
<1> QED BY <1>4, <1>5, <1>6, <1>7 DEF Inv

------------------------------------------------------------------------------
LEMMA BeginInv ==
    ASSUME Inv, Ready, NEW call \in Calls, Begin(call),
           call.op \in {"advance", "write"},
           call.op = "advance" => call.target \in Times /\ call.target > session.mirror.time,
           call.op = "write" => call.port \in Written(backend) /\ call.value \in Levels
    PROVE  Inv'
<1> DEFINE sent == Decision(call) = "send" /\ ~cancelled /\ Running
<1>1. caller.call.op = "idle" /\ caller.outcome = "ok" /\ UNCHANGED <<backend, session, device, cancelled>>
  BY DEF Begin, Ready, Idle
<1>2. CASE sent
  <2>1. caller' = [caller EXCEPT !.call = call] /\ helper' = [helper EXCEPT !.stdin = Append(@, CommandOf(call))]
    BY <1>2 DEF Begin
  <2>2. caller' \in [call : Calls, outcome : {"none", "ok", "failed"}] /\ caller'.call = call
        /\ caller'.outcome = "ok"
    BY <1>1, <2>1 DEF Inv, TypeOK
  <2>3. CommandOf(call) \in Commands(backend)
    BY DEF CommandOf, Commands
  <2>4. /\ helper.stdin = <<>> /\ helper.stdout = <<>> /\ helper.connected /\ session.helper = helper.newest
        /\ helper.newest \in 0 .. MaxSpawns
    BY DEF Inv, PipesHold, CallsHold, TypeOK, Helpers
  <2>5. Append(helper.stdin, CommandOf(call)) = <<CommandOf(call)>>
        /\ <<CommandOf(call)>> \in Seq(Commands(backend))
    BY <2>3, <2>4
  <2>6. /\ helper' \in Helpers'
        /\ helper'.stdin = <<CommandOf(call)>> /\ helper'.stdout = <<>> /\ helper'.connected
        /\ helper'.newest = helper.newest /\ helper'.alive = helper.alive
    BY <1>1, <2>1, <2>4, <2>5 DEF Inv, TypeOK, Helpers
  <2>7. ~Ready' /\ Serving'
    BY <2>2 DEF Ready, Serving, Idle
  <2>8. TypeOK'
    BY <1>1, <2>2, <2>6 DEF Inv, TypeOK
  <2>9. NoStrayHelper' /\ SpawnsHold' /\ DeviceHolds'
    BY <1>1, <2>2, <2>6 DEF Inv, NoStrayHelper, SpawnsHold, DeviceHolds
  <2>10. CallsHold'
    BY <1>1, <2>2, <2>4, <2>6, <2>7 DEF CallsHold
  <2>11. PipesHold' /\ LinesHold' /\ MirrorHolds'
    BY <1>1, <2>2, <2>6, <2>7 DEF PipesHold, LinesHold, MirrorHolds, CommandOf
  <2>12. InputsHold'
    BY <1>1, <2>2, <2>6, <2>7 DEF Inv, InputsHold
  <2> QED BY <2>8, <2>9, <2>10, <2>11, <2>12 DEF Inv
<1>3. CASE ~sent
  <2>1. caller' \in {[call |-> Idle, outcome |-> "ok"], [call |-> Idle, outcome |-> "failed"]} /\ helper' = helper
    BY <1>3 DEF Begin, Return
  <2>2. TypeOK' /\ NoStrayHelper' /\ SpawnsHold' /\ DeviceHolds'
    BY <1>1, <2>1 DEF Inv, TypeOK, NoStrayHelper, SpawnsHold, DeviceHolds, Calls, Idle, Helpers
  <2>3. CASE caller' = [call |-> Idle, outcome |-> "failed"]
    <3>1. ~Ready' /\ ~Waiting'
      BY <2>3 DEF Ready, Waiting, Idle
    <3> QED BY <2>2, <3>1, Unheard DEF Inv
  <2>4. CASE caller' = [call |-> Idle, outcome |-> "ok"]
    <3>1. Ready' /\ ~Serving' /\ ~Waiting' /\ caller'.call.op = "idle"
      BY <2>4 DEF Ready, Serving, Waiting, Idle
    <3>2. CallsHold' /\ PipesHold' /\ LinesHold' /\ MirrorHolds'
      BY <1>1, <2>1, <3>1 DEF Inv, CallsHold, PipesHold, LinesHold, MirrorHolds
    <3>3. InputsHold'
      BY <1>1, <2>1, <3>1 DEF Inv, InputsHold
    <3> QED BY <2>2, <3>2, <3>3 DEF Inv
  <2> QED BY <2>1, <2>3, <2>4
<1> QED BY <1>2, <1>3

LEMMA InBetweenInv ==
    ASSUME Inv, Ready, NEW call \in Calls, CancelledInBetween(call),
           call.op \in {"advance", "write"},
           call.op = "advance" => call.target \in Times,
           call.op = "write" => call.port \in Written(backend) /\ call.value \in Levels
    PROVE  Inv'
<1>1. /\ caller.call.op = "idle" /\ caller' = [call |-> Idle, outcome |-> "failed"]
      /\ cancelled' = TRUE /\ UNCHANGED <<backend, session, device>>
  BY DEF CancelledInBetween, Fails, Return, Ready, Idle
<1>2. CommandOf(call) \in Commands(backend) /\ helper.stdin = <<>>
  BY DEF CommandOf, Commands, Inv, PipesHold
<1>3. Append(helper.stdin, CommandOf(call)) \in Seq(Commands(backend))
  BY <1>2
<1>4. /\ helper' \in Helpers'
      /\ helper'.newest = helper.newest /\ helper'.alive = helper.alive /\ helper'.connected = helper.connected
  BY <1>1, <1>3 DEF CancelledInBetween, Inv, TypeOK, Helpers
<1>5. ~Ready' /\ ~Waiting' /\ caller'.call.op = "idle"
  BY <1>1 DEF Ready, Waiting, Idle
<1>6. TypeOK'
  BY <1>1, <1>4 DEF Inv, TypeOK, Calls
<1>7. NoStrayHelper' /\ SpawnsHold' /\ DeviceHolds'
  BY <1>1, <1>4, <1>5 DEF Inv, NoStrayHelper, SpawnsHold, DeviceHolds
<1> QED BY <1>5, <1>6, <1>7, Unheard DEF Inv

LEMMA AdvanceToInv == \A t \in Times : Inv /\ AdvanceTo(t) => Inv'
<1> SUFFICES ASSUME NEW t \in Times, Inv, AdvanceTo(t) PROVE Inv'
  OBVIOUS
<1> DEFINE call == [op |-> "advance", target |-> t]
<1>1. Ready /\ t > session.mirror.time /\ (Begin(call) \/ CancelledInBetween(call))
  BY DEF AdvanceTo
<1>2. call \in Calls
  BY DEF Calls
<1>3. call.op = "advance" /\ call.target = t
  OBVIOUS
<1> HIDE DEF call
<1> QED BY <1>1, <1>2, <1>3, BeginInv, InBetweenInv

LEMMA WriteInputInv ==
    \A p \in Written(backend), v \in Levels : Inv /\ WriteInput(p, v) => Inv'
<1> SUFFICES ASSUME NEW p \in Written(backend), NEW v \in Levels, Inv, WriteInput(p, v) PROVE Inv'
  OBVIOUS
<1> DEFINE call == [op |-> "write", port |-> p, value |-> v]
<1>1. Ready /\ (Begin(call) \/ CancelledInBetween(call))
  BY DEF WriteInput
<1>2. call \in Calls
  BY DEF Calls, Inv, TypeOK
<1>3. call.op = "write" /\ call.port = p /\ call.value = v
  OBVIOUS
<1> HIDE DEF call
<1> QED BY <1>1, <1>2, <1>3, BeginInv, InBetweenInv

LEMMA FailWaitingInv == Inv /\ Waiting /\ FailWaiting => Inv'
<1> SUFFICES ASSUME Inv, Waiting, FailWaiting PROVE Inv'
  OBVIOUS
<1>1. caller' = [call |-> Idle, outcome |-> "failed"] /\ UNCHANGED <<backend, session, device, cancelled>>
  BY DEF FailWaiting, Fails, Return
<1>2. ~Ready' /\ ~Waiting' /\ caller'.call.op = "idle"
  BY <1>1 DEF Ready, Waiting, Idle
<1>3. /\ helper' \in Helpers'
      /\ helper'.alive = IF caller.call.op = "connect" THEN helper.alive \ {helper.newest} ELSE helper.alive
  BY <1>1 DEF FailWaiting, DropSession, Inv, TypeOK, Helpers
<1>4. TypeOK'
  BY <1>1, <1>3 DEF Inv, TypeOK, Calls
<1>5. NoStrayHelper' /\ DeviceHolds' /\ SpawnsHold'
  BY <1>1, <1>2, <1>3 DEF Inv, NoStrayHelper, DeviceHolds, SpawnsHold
<1> QED BY <1>2, <1>4, <1>5, Unheard DEF Inv

LEMMA CancelInv == Inv /\ Cancel => Inv'
BY DEF Cancel, Inv, TypeOK, Helpers, NoStrayHelper, SpawnsHold, CallsHold, PipesHold, LinesHold,
       DeviceHolds, InputsHold, MirrorHolds, Ready, Serving, Waiting

LEMMA HelperGoneInv == Inv /\ (HelperDies \/ HelperHangs) => Inv'
<1> SUFFICES ASSUME Inv, HelperDies \/ HelperHangs PROVE Inv'
  OBVIOUS
<1>1. UNCHANGED <<backend, caller, session, device, cancelled>>
  BY DEF HelperDies, HelperHangs
<1>2. /\ helper' \in Helpers'
      /\ helper'.alive \subseteq helper.alive
      /\ helper'.newest = helper.newest /\ helper'.connected = helper.connected
      /\ helper'.stdin = helper.stdin /\ helper'.stdout = helper.stdout /\ helper'.lied = helper.lied
  <2>1. CASE HelperDies
    <3>1. PICK g \in helper.alive : helper' = [helper EXCEPT !.alive = @ \ {g}]
      BY <2>1 DEF HelperDies
    <3>2. helper \in Helpers /\ Helpers' = Helpers
      BY <1>1 DEF Inv, TypeOK, Helpers
    <3> QED BY <3>1, <3>2 DEF Helpers
  <2>2. CASE HelperHangs
    <3>1. helper' = [helper EXCEPT !.hung = TRUE]
      BY <2>2 DEF HelperHangs
    <3>2. helper \in Helpers /\ Helpers' = Helpers
      BY <1>1 DEF Inv, TypeOK, Helpers
    <3> QED BY <3>1, <3>2 DEF Helpers
  <2> QED BY <2>1, <2>2
<1>3. TypeOK' /\ NoStrayHelper' /\ SpawnsHold' /\ DeviceHolds'
  BY <1>1, <1>2 DEF Inv, TypeOK, NoStrayHelper, SpawnsHold, DeviceHolds
<1>4. CallsHold' /\ PipesHold' /\ LinesHold' /\ InputsHold' /\ MirrorHolds'
  BY <1>1, <1>2 DEF Inv, CallsHold, PipesHold, LinesHold, InputsHold, MirrorHolds, Ready, Serving, Waiting
<1> QED BY <1>3, <1>4 DEF Inv

------------------------------------------------------------------------------
LEMMA OneLine ==
    ASSUME NEW S, NEW s \in Seq(S), s # <<>>
    PROVE  Head(s) \in S /\ Tail(s) \in Seq(S) /\ (Len(s) = 1 => Tail(s) = <<>>)
<1>1. Head(s) \in S /\ Tail(s) \in Seq(S) /\ Len(Tail(s)) = Len(s) - 1
  BY HeadTailProperties
<1>2. ASSUME Len(s) = 1 PROVE Tail(s) = <<>>
  <2>1. Len(Tail(s)) = 0
    BY <1>1, <1>2
  <2> QED BY <1>1, <2>1, EmptySeq
<1> QED BY <1>1, <1>2

LEMMA AnsweredInv == Inv /\ Serving /\ Receive => Inv'
<1> SUFFICES ASSUME Inv, Serving, Receive PROVE Inv'
  OBVIOUS
<1> DEFINE line == Head(helper.stdout)
           call == caller.call
           read == ReadState(line, session.mirror)
           exact == read.mirror.time =
                      (IF call.op = "advance" THEN call.target ELSE session.mirror.time)
           after == IF read.ok /\ call.op = "write" THEN Accepted(read.mirror, call) ELSE read.mirror
<1>1. /\ caller' = [call |-> Idle, outcome |-> IF read.ok /\ exact THEN "ok" ELSE "failed"]
      /\ session' = [session EXCEPT !.mirror = after]
      /\ helper' = [helper EXCEPT !.stdout = Tail(@)]
      /\ UNCHANGED <<backend, device, cancelled>>
  BY DEF Receive, Answered, Return, Serving
<1>2. /\ helper.stdin = <<>> /\ Len(helper.stdout) = 1 /\ helper.stdout # <<>>
      /\ session.helper = helper.newest /\ helper.connected
  BY DEF Inv, PipesHold, CallsHold, Receive
<1>3. line \in Lines(backend) /\ Tail(helper.stdout) = <<>>
  BY <1>2, OneLine DEF Inv, TypeOK, Helpers
<1>4. Reads(read, line, session.mirror)
  BY <1>3, ReadStateReads DEF Inv, TypeOK
<1>5. /\ line.tag = "STATE" /\ DOMAIN line.level = Shown(backend) => line.level = device.level
      /\ ~helper.lied => line = StateLine(device)
  BY <1>2 DEF Inv, LinesHold, Serving, Waiting
<1>6. /\ after \in Mirrors(backend)
      /\ after.time = read.mirror.time /\ after.values = read.mirror.values /\ after.next = read.mirror.next
      /\ after.inputs = IF backend # "renode" /\ read.ok /\ call.op = "write"
                        THEN [session.mirror.inputs EXCEPT ![call.port] = call.value]
                        ELSE session.mirror.inputs
  <2>1. CASE ~(read.ok /\ call.op = "write")
    BY <1>4, <2>1 DEF Reads
  <2>2. CASE read.ok /\ call.op = "write"
    <3>1. call.port \in Written(backend) /\ call.value \in Levels
      BY <2>2, CallShapes DEF Inv, CallsHold
    <3>2. CASE backend = "renode"
      BY <1>4, <2>2, <3>2 DEF Reads, Accepted
    <3>3. CASE backend = "ngspice"
      <4>1. after = [read.mirror EXCEPT !.inputs[call.port] = call.value]
        BY <2>2, <3>3 DEF Accepted, NgSpiceAccepted
      <4> QED BY <1>4, <2>2, <3>1, <3>3, <4>1 DEF Reads, Mirrors
    <3>4. CASE backend = "verilator"
      <4>1. after = [read.mirror EXCEPT !.inputs[call.port] = call.value]
        BY <2>2, <3>4 DEF Accepted, VerilatorAccepted
      <4> QED BY <1>4, <2>2, <3>1, <3>4, <4>1 DEF Reads, Mirrors
    <3> QED BY <3>2, <3>3, <3>4 DEF Backends, Inv, TypeOK
  <2> QED BY <2>1, <2>2
<1> HIDE DEF after, read, exact
<1>7. /\ helper' \in Helpers' /\ helper'.stdin = <<>> /\ helper'.stdout = <<>>
      /\ helper'.newest = helper.newest /\ helper'.connected = helper.connected
      /\ helper'.alive = helper.alive /\ helper'.lied = helper.lied
  <2>1. helper \in Helpers /\ Helpers' = Helpers /\ helper' = [helper EXCEPT !.stdout = <<>>]
        /\ <<>> \in Seq(Lines(backend))
    BY <1>1, <1>3, EmptySeq DEF Inv, TypeOK, Helpers
  <2> QED BY <1>2, <2>1 DEF Helpers
<1>8. /\ session' \in [helper : 0 .. MaxSpawns, mirror : Mirrors(backend)]
      /\ session'.helper = session.helper /\ session'.mirror = after
  BY <1>1, <1>6 DEF Inv, TypeOK
<1>9. caller'.call = Idle /\ caller'.call.op = "idle"
      /\ (caller'.outcome = "ok" <=> read.ok /\ exact) /\ caller'.outcome \in {"ok", "failed"}
  BY <1>1 DEF Idle
<1>10. TypeOK'
  BY <1>1, <1>7, <1>8 DEF Inv, TypeOK, Calls
<1>11. NoStrayHelper' /\ SpawnsHold'
  BY <1>7, <1>8, <1>9 DEF Inv, NoStrayHelper, SpawnsHold, Serving
<1>12. DeviceHolds'
  BY <1>1, <1>4, <1>6, <1>8 DEF Inv, DeviceHolds, Reads
<1>13. ~Waiting' /\ ~Serving' /\ (Ready' <=> read.ok /\ exact)
  BY <1>9 DEF Ready, Waiting, Serving
<1>14. CallsHold' /\ PipesHold' /\ LinesHold'
  BY <1>2, <1>7, <1>8, <1>9, <1>13 DEF CallsHold, PipesHold, LinesHold
<1>15. InputsHold'
  <2> SUFFICES ASSUME backend # "renode", read.ok PROVE device.driven = after.inputs
    BY <1>1, <1>8, <1>9, <1>13 DEF InputsHold
  <2>1. CASE call.op = "advance"
    BY <1>6, <2>1 DEF Inv, InputsHold
  <2>2. CASE call.op = "write"
    BY <1>2, <1>6, <2>2 DEF Inv, InputsHold
  <2> QED BY <2>1, <2>2 DEF Serving
<1>16. MirrorHolds'
  <2> SUFFICES ASSUME read.ok
               PROVE  /\ after.values = device.level
                      /\ ~helper.lied => after.time = device.time /\ after.next = device.next
    BY <1>1, <1>7, <1>8, <1>13 DEF MirrorHolds
  <2>1. line.level = device.level /\ read.mirror.values = line.level
    BY <1>4, <1>5 DEF Reads
  <2>2. ASSUME ~helper.lied PROVE line.time = device.time /\ line.next = device.next
    BY <1>5, <2>2 DEF StateLine
  <2>3. CASE backend = "verilator"
    BY <1>4, <1>6, <2>1, <2>2, <2>3 DEF Reads
  <2>4. CASE backend # "verilator"
    BY <1>4, <1>6, <2>1, <2>2, <2>4 DEF Reads, Inv, DeviceHolds
  <2> QED BY <2>3, <2>4
<1> QED BY <1>10, <1>11, <1>12, <1>14, <1>15, <1>16 DEF Inv

LEMMA ConnectedInv == Inv /\ caller.call.op = "connect" /\ Receive => Inv'
<1> SUFFICES ASSUME Inv, caller.call.op = "connect", Receive PROVE Inv'
  OBVIOUS
<1> DEFINE line == Head(helper.stdout)
           blank == BlankMirror(backend)
           read == ReadState(line, blank)
           atZero == read.mirror.time = 0
           keepOld == ~read.ok \/ (backend = "ngspice" /\ ~atZero)
           noneLeft == backend = "renode" /\ ~atZero
           next == IF keepOld THEN session
                   ELSE IF noneLeft THEN [helper |-> 0, mirror |-> blank]
                   ELSE [helper |-> helper.newest, mirror |-> read.mirror]
           kept == IF keepOld THEN helper.alive ELSE helper.alive \ {session.helper}
           left == IF keepOld \/ noneLeft THEN kept \ {helper.newest} ELSE kept
<1>1. /\ caller' = [call |-> Idle, outcome |-> IF read.ok /\ atZero THEN "ok" ELSE "failed"]
      /\ session' = next
      /\ helper' = [helper EXCEPT !.stdout = Tail(@), !.alive = left]
      /\ UNCHANGED <<backend, device, cancelled>>
  BY DEF Receive, Connected, Return, DropSession
<1>2. /\ helper.stdin = <<>> /\ Len(helper.stdout) = 1 /\ helper.stdout # <<>> /\ helper.connected
  BY DEF Inv, PipesHold, Receive
<1>3. line \in Lines(backend) /\ Tail(helper.stdout) = <<>>
  BY <1>2, OneLine DEF Inv, TypeOK, Helpers
<1>4. blank \in Mirrors(backend) /\ blank.next = NoEvent /\ backend \in Backends
  BY BlankMirrorTyped DEF Inv, TypeOK
<1> HIDE DEF blank
<1>5. Reads(read, line, blank)
  BY <1>3, <1>4, ReadStateReads
<1>6. /\ line.tag = "STATE" /\ DOMAIN line.level = Shown(backend) => line.level = device.level
      /\ ~helper.lied => line = StateLine(device)
  BY <1>2 DEF Inv, LinesHold, Waiting
<1> HIDE DEF read, line
<1>7. /\ helper' \in Helpers' /\ helper'.stdin = <<>> /\ helper'.stdout = <<>>
      /\ helper'.newest = helper.newest /\ helper'.connected
      /\ helper'.alive = left /\ helper'.lied = helper.lied
  <2>1. helper \in Helpers /\ Helpers' = Helpers /\ helper' = [helper EXCEPT !.stdout = <<>>, !.alive = left]
        /\ <<>> \in Seq(Lines(backend))
    BY <1>1, <1>3, EmptySeq DEF Inv, TypeOK, Helpers
  <2>2. left \in SUBSET (1 .. MaxSpawns)
    BY <2>1 DEF Helpers
  <2> HIDE DEF left
  <2> QED BY <1>2, <2>1, <2>2 DEF Helpers
<1>8. session' \in [helper : 0 .. MaxSpawns, mirror : Mirrors(backend)]
  BY <1>1, <1>4, <1>5, SpawnsAssumption DEF Inv, TypeOK, Helpers, Reads
<1>9. caller'.call = Idle /\ caller'.call.op = "idle"
      /\ (caller'.outcome = "ok" <=> read.ok /\ atZero) /\ caller'.outcome \in {"ok", "failed"}
  BY <1>1 DEF Idle
<1>10. TypeOK'
  BY <1>1, <1>7, <1>8 DEF Inv, TypeOK, Calls
<1>11. NoStrayHelper' /\ SpawnsHold'
  <2>1. helper.alive \subseteq {session.helper, helper.newest}
    BY DEF Inv, NoStrayHelper
  <2>2. left \subseteq {next.helper}
    BY <2>1
  <2> QED BY <1>1, <1>7, <1>9, <2>2 DEF NoStrayHelper, SpawnsHold
<1>12. DeviceHolds'
  BY <1>1, <1>4, <1>5 DEF Inv, DeviceHolds, Reads
<1>13. ~Waiting' /\ ~Serving' /\ (Ready' <=> read.ok /\ atZero)
  BY <1>9 DEF Ready, Waiting, Serving
<1>14. ASSUME Ready' PROVE session' = [helper |-> helper.newest, mirror |-> read.mirror]
  BY <1>1, <1>13, <1>14
<1>15. CallsHold' /\ PipesHold' /\ LinesHold'
  BY <1>7, <1>9, <1>13, <1>14 DEF CallsHold, PipesHold, LinesHold
<1>16. InputsHold'
  <2> SUFFICES ASSUME backend # "renode", Ready' PROVE device.driven = session'.mirror.inputs
    BY <1>1, <1>9, <1>13 DEF InputsHold
  <2>1. device.driven = blank.inputs
    BY <1>2 DEF Inv, InputsHold, blank
  <2> QED BY <1>5, <1>14, <2>1 DEF Reads
<1>17. MirrorHolds'
  <2> SUFFICES ASSUME Ready'
               PROVE  /\ session'.mirror.values = device.level
                      /\ ~helper.lied => /\ session'.mirror.time = device.time
                                         /\ session'.mirror.next = device.next
    BY <1>1, <1>7 DEF MirrorHolds
  <2>1. line.level = device.level /\ read.mirror.values = line.level /\ session'.mirror = read.mirror
    BY <1>5, <1>6, <1>13, <1>14 DEF Reads
  <2>2. ASSUME ~helper.lied PROVE line.time = device.time /\ line.next = device.next
    BY <1>6, <2>2 DEF StateLine
  <2>3. CASE backend = "verilator"
    BY <1>5, <1>13, <2>1, <2>2, <2>3 DEF Reads
  <2>4. CASE backend # "verilator"
    BY <1>4, <1>5, <1>13, <2>1, <2>2, <2>4 DEF Reads, Inv, DeviceHolds
  <2> QED BY <2>3, <2>4
<1> QED BY <1>10, <1>11, <1>12, <1>15, <1>16, <1>17 DEF Inv

LEMMA HelperConnectsInv == Inv /\ HelperConnects => Inv'
<1> SUFFICES ASSUME Inv, HelperConnects PROVE Inv'
  OBVIOUS
<1>1. ~helper.connected /\ UNCHANGED <<backend, caller, session, cancelled>>
  BY DEF HelperConnects
<1>2. PICK d \in FirstDevices : Prints(d)
  BY DEF HelperConnects
<1>3. PICK line \in Printed(d) :
        helper' = [helper EXCEPT !.stdout = Append(helper.stdout, line), !.connected = TRUE,
                                 !.lied = helper.lied \/ line # StateLine(d), !.stdin = helper.stdin]
  BY <1>1, <1>2 DEF Prints
<1>4. /\ device' = d /\ d \in Devices(backend)
      /\ backend = "renode" => d = device
      /\ backend = "ngspice" => d.next = NoEvent
      /\ backend # "renode" => d.driven = BlankMirror(backend).inputs
  BY <1>2, FirstDevice DEF Prints, Inv, TypeOK
<1>5. /\ line \in Lines(backend)
      /\ line.tag = "STATE" /\ DOMAIN line.level = Shown(backend) => line.level = d.level
  BY <1>3, <1>4, PrintedLines DEF Inv, TypeOK
<1>6. helper \in Helpers /\ Helpers' = Helpers /\ Append(helper.stdout, line) \in Seq(Lines(backend))
  BY <1>1, <1>5, AppendProperties DEF Inv, TypeOK, Helpers
<1>7. /\ helper' \in Helpers' /\ helper'.stdout = Append(helper.stdout, line) /\ helper'.stdin = helper.stdin
      /\ helper'.connected /\ helper'.newest = helper.newest /\ helper'.alive = helper.alive
      /\ helper'.lied = (helper.lied \/ line # StateLine(d))
  BY <1>3, <1>6 DEF Helpers
<1>8. TypeOK' /\ NoStrayHelper' /\ SpawnsHold' /\ DeviceHolds'
  BY <1>1, <1>4, <1>7 DEF Inv, TypeOK, NoStrayHelper, SpawnsHold, DeviceHolds, Backends
<1>9. ~Ready' /\ ~Serving'
  BY <1>1 DEF Inv, CallsHold, Ready, Serving
<1>10. CASE caller.call.op # "connect"
  <2>1. ~Waiting'
    BY <1>1, <1>9, <1>10 DEF Waiting, Serving
  <2> QED BY <1>8, <1>9, <2>1, Unheard DEF Inv
<1>11. CASE caller.call.op = "connect"
  <2>1. helper.stdin = <<>> /\ helper.stdout = <<>>
    BY <1>1, <1>11 DEF Inv, PipesHold
  <2>2. Len(helper'.stdout) = 1 /\ helper'.stdout # <<>> /\ Head(helper'.stdout) = line
    BY <1>5, <1>7, <2>1
  <2>3. CallsHold' /\ PipesHold' /\ MirrorHolds'
    BY <1>1, <1>7, <1>9, <1>11, <2>1, <2>2 DEF CallsHold, PipesHold, MirrorHolds, Serving
  <2>4. LinesHold'
    BY <1>1, <1>4, <1>5, <1>7, <2>2 DEF LinesHold
  <2>5. InputsHold'
    BY <1>1, <1>4, <1>9, <1>11 DEF InputsHold, Serving
  <2> QED BY <1>8, <2>3, <2>4, <2>5 DEF Inv
<1> QED BY <1>10, <1>11

LEMMA HelperAnswersInv == Inv /\ HelperAnswers => Inv'
<1> SUFFICES ASSUME Inv, HelperAnswers PROVE Inv'
  OBVIOUS
<1> DEFINE command == Head(helper.stdin)
<1>1. helper.connected /\ helper.stdin # <<>> /\ UNCHANGED <<backend, caller, session, cancelled>>
  BY DEF HelperAnswers
<1>2. PICK d \in DevicesAfter(command) : Prints(d)
  BY DEF HelperAnswers
<1>3. PICK line \in Printed(d) :
        helper' = [helper EXCEPT !.stdout = Append(helper.stdout, line), !.connected = TRUE,
                                 !.lied = helper.lied \/ line # StateLine(d), !.stdin = Tail(helper.stdin)]
  BY <1>1, <1>2 DEF Prints
<1>4. command \in Commands(backend) /\ Tail(helper.stdin) \in Seq(Commands(backend))
      /\ (Len(helper.stdin) = 1 => Tail(helper.stdin) = <<>>)
  BY <1>1, OneLine DEF Inv, TypeOK, Helpers
<1>5. /\ device' = d /\ d \in Devices(backend)
      /\ d.driven = IF command.op = "SET" THEN [device.driven EXCEPT ![command.port] = command.value]
                                          ELSE device.driven
      /\ backend # "verilator" => d.next = device.next
  BY <1>2, <1>4, DevicesAfterCommand DEF Prints, Inv, TypeOK
<1>6. backend = "renode" => \A p \in InPorts : d.level[p] = d.driven[p]
  BY <1>2, <1>4, RenodeInputsFollow DEF Inv, TypeOK, DeviceHolds
<1>7. /\ line \in Lines(backend)
      /\ line.tag = "STATE" /\ DOMAIN line.level = Shown(backend) => line.level = d.level
  BY <1>3, <1>5, PrintedLines DEF Inv, TypeOK
<1>8. helper \in Helpers /\ Helpers' = Helpers /\ Append(helper.stdout, line) \in Seq(Lines(backend))
  BY <1>1, <1>7, AppendProperties DEF Inv, TypeOK, Helpers
<1>9. /\ helper' \in Helpers' /\ helper'.stdout = Append(helper.stdout, line)
      /\ helper'.stdin = Tail(helper.stdin)
      /\ helper'.connected /\ helper'.newest = helper.newest /\ helper'.alive = helper.alive
      /\ helper'.lied = (helper.lied \/ line # StateLine(d))
  BY <1>3, <1>4, <1>8 DEF Helpers
<1>10. TypeOK' /\ NoStrayHelper' /\ SpawnsHold' /\ DeviceHolds'
  BY <1>1, <1>5, <1>6, <1>9 DEF Inv, TypeOK, NoStrayHelper, SpawnsHold, DeviceHolds
<1>11. ~Ready' /\ caller.call.op # "connect"
  BY <1>1 DEF Inv, PipesHold, Ready
<1>12. CASE ~Serving
  <2>1. ~Waiting'
    BY <1>1, <1>11, <1>12 DEF Waiting, Serving
  <2> QED BY <1>10, <1>11, <2>1, Unheard DEF Inv
<1>13. CASE Serving
  <2>1. helper.stdin = <<CommandOf(caller.call)>> /\ helper.stdout = <<>>
    BY <1>1, <1>13 DEF Inv, PipesHold
  <2>2. command = CommandOf(caller.call) /\ Len(helper.stdin) = 1
    BY <2>1
  <2>3. helper'.stdin = <<>> /\ Len(helper'.stdout) = 1 /\ helper'.stdout # <<>> /\ Head(helper'.stdout) = line
    BY <1>4, <1>7, <1>9, <2>1, <2>2
  <2>4. CallsHold' /\ PipesHold' /\ MirrorHolds'
    BY <1>1, <1>9, <1>11, <1>13, <2>3 DEF Inv, CallsHold, PipesHold, MirrorHolds, Serving
  <2>5. LinesHold'
    BY <1>1, <1>5, <1>7, <1>9, <2>3 DEF LinesHold
  <2>6. InputsHold'
    <3> SUFFICES ASSUME backend # "renode"
                 PROVE  d.driven = IF caller.call.op = "advance" THEN session.mirror.inputs
                                   ELSE [session.mirror.inputs EXCEPT ![caller.call.port] = caller.call.value]
      BY <1>1, <1>5, <1>11, <1>13, <2>3 DEF InputsHold, Serving
    <3>1. device.driven = session.mirror.inputs
      BY <1>13, <2>1 DEF Inv, InputsHold
    <3> QED BY <1>5, <1>13, <2>2, <3>1 DEF CommandOf, Serving
  <2> QED BY <1>10, <2>4, <2>5, <2>6 DEF Inv
<1> QED BY <1>12, <1>13

------------------------------------------------------------------------------
LEMMA StepInv == Inv /\ [Next]_vars => Inv'
<1> SUFFICES ASSUME Inv, [Next]_vars PROVE Inv'
  OBVIOUS
<1>1. CASE Initialize
  BY <1>1, InitializeInv
<1>2. CASE SpawnCancelled \/ SpawnGivesUp
  BY <1>2, SpawnFailsInv
<1>3. CASE Spawn
  BY <1>3, SpawnInv
<1>4. CASE \E t \in Times : AdvanceTo(t)
  BY <1>4, AdvanceToInv
<1>5. CASE \E p \in Written(backend), v \in Levels : WriteInput(p, v)
  BY <1>5, WriteInputInv
<1>6. CASE Receive
  <2>1. Serving \/ caller.call.op = "connect"
    BY <1>6 DEF Receive, Waiting, Serving
  <2> QED BY <1>6, <2>1, AnsweredInv, ConnectedInv
<1>7. CASE HelperExited \/ ReadCancelled \/ ReadTimesOut
  BY <1>7, FailWaitingInv DEF HelperExited, ReadCancelled, ReadTimesOut
<1>8. CASE HelperConnects
  BY <1>8, HelperConnectsInv
<1>9. CASE HelperAnswers
  BY <1>9, HelperAnswersInv
<1>10. CASE HelperDies \/ HelperHangs
  BY <1>10, HelperGoneInv
<1>11. CASE Cancel
  BY <1>11, CancelInv
<1>12. CASE UNCHANGED vars
  BY <1>12 DEF vars, Inv, TypeOK, Helpers, NoStrayHelper, SpawnsHold, CallsHold, PipesHold, LinesHold,
       DeviceHolds, InputsHold, MirrorHolds, Ready, Serving, Waiting
<1> QED BY <1>1, <1>2, <1>3, <1>4, <1>5, <1>6, <1>7, <1>8, <1>9, <1>10, <1>11, <1>12 DEF Next

LEMMA Invariant == Spec => []Inv
BY InitInv, StepInv, PTL DEF Spec

\* The types of participant, pipes, helpers and devices, whatever the helper
\* prints into its pipe.
THEOREM TypeCorrect == Spec => []TypeOK
<1>1. Inv => TypeOK
  BY DEF Inv
<1> QED BY <1>1, Invariant, PTL

\* No sequence of timeouts, cancellations, crashes and restarts leaves an old
\* answer to be taken for the answer to a later command.
THEOREM AnswersBelong == Spec => []AnswersBelongToCommands
<1>1. Inv => AnswersBelongToCommands
  BY DEF Inv, CallsHold, PipesHold, MirrorHolds, AnswersBelongToCommands
<1> QED BY <1>1, Invariant, PTL

\* A write is skipped only when the helper already has the level.
THEOREM SkipsAreRedundant == Spec => []SkippedWritesAreRedundant
<1>1. Inv => SkippedWritesAreRedundant
  BY DEF Inv, InputsHold, MirrorHolds, DeviceHolds, SkippedWritesAreRedundant
<1> QED BY <1>1, Invariant, PTL

\* A helper that runs belongs to the session held or to the one being connected.
THEOREM HelpersAreOwned == Spec => []NoStrayHelper
<1>1. Inv => NoStrayHelper
  BY DEF Inv
<1> QED BY <1>1, Invariant, PTL

------------------------------------------------------------------------------
\* What a step may do to the outcome of the last call, which is the status
\* the scheduler sees, and to current_time.
Kept     == UNCHANGED <<caller.outcome, session.mirror.time>>
Came     == caller'.outcome = "ok" /\ session'.mirror.time = 0
Advances == /\ caller.outcome = "ok" /\ caller'.outcome = "ok"
            /\ session'.mirror.time > session.mirror.time
Gone     == caller'.outcome = "failed"

LEMMA ReceiveSteps == Inv /\ Receive => Kept \/ Came \/ Advances \/ Gone
<1> SUFFICES ASSUME Inv, Receive, caller'.outcome # "failed" PROVE Kept \/ Came \/ Advances
  BY DEF Gone
<1> DEFINE line == Head(helper.stdout)
<1>1. line \in Lines(backend)
  BY OneLine DEF Inv, TypeOK, Helpers, Receive
<1>2. CASE caller.call.op = "connect"
  <2> DEFINE read == ReadState(line, BlankMirror(backend))
  <2>1. caller' = [call |-> Idle, outcome |-> IF read.ok /\ read.mirror.time = 0 THEN "ok" ELSE "failed"]
    BY <1>2 DEF Receive, Connected, Return
  <2>2. read.ok /\ read.mirror.time = 0 /\ caller'.outcome = "ok"
    BY <2>1
  <2>3. session' = [helper |-> helper.newest, mirror |-> read.mirror]
    BY <1>2, <2>2 DEF Receive, Connected
  <2> QED BY <2>2, <2>3 DEF Came
<1>3. CASE caller.call.op # "connect"
  <2> DEFINE call == caller.call
             read == ReadState(line, session.mirror)
             exact == read.mirror.time =
                        (IF call.op = "advance" THEN call.target ELSE session.mirror.time)
             after == IF read.ok /\ call.op = "write" THEN Accepted(read.mirror, call) ELSE read.mirror
  <2>1. /\ caller' = [call |-> Idle, outcome |-> IF read.ok /\ exact THEN "ok" ELSE "failed"]
        /\ session' = [session EXCEPT !.mirror = after]
        /\ Serving
    BY <1>3 DEF Receive, Answered, Return, Serving, Waiting
  <2>2. read.ok /\ exact /\ caller'.outcome = "ok" /\ caller.outcome = "ok"
    BY <2>1 DEF Inv, CallsHold
  <2>3. read.mirror \in Mirrors(backend) /\ backend \in Backends
    BY <1>1, ReadStateReads DEF Inv, TypeOK, Reads
  <2>4. after.time = read.mirror.time
    <3>1. Accepted(read.mirror, call).time = read.mirror.time
      BY <2>3 DEF Accepted, NgSpiceAccepted, VerilatorAccepted, Mirrors, Backends
    <3> QED BY <3>1
  <2>5. session'.mirror = after
    BY <2>1 DEF Inv, TypeOK
  <2>6. CASE call.op = "advance"
    BY <2>2, <2>4, <2>5, <2>6 DEF Inv, CallsHold, Advances
  <2>7. CASE call.op # "advance"
    BY <2>2, <2>4, <2>5, <2>7 DEF Kept
  <2> QED BY <2>6, <2>7
<1> QED BY <1>2, <1>3

LEMMA BeginSteps ==
    ASSUME Inv, Ready, NEW call \in Calls, Begin(call) \/ CancelledInBetween(call)
    PROVE  Kept \/ Gone
BY DEF Inv, TypeOK, Begin, CancelledInBetween, Fails, Return, Ready, Kept, Gone

LEMMA Steps == Inv /\ [Next]_vars => Kept \/ Came \/ Advances \/ Gone
<1> SUFFICES ASSUME Inv, [Next]_vars PROVE Kept \/ Came \/ Advances \/ Gone
  OBVIOUS
<1>1. CASE Initialize \/ Spawn
  BY <1>1 DEF Initialize, Spawn, Inv, TypeOK, Kept
<1>2. CASE SpawnCancelled \/ SpawnGivesUp \/ HelperExited \/ ReadCancelled \/ ReadTimesOut
  BY <1>2 DEF SpawnCancelled, SpawnGivesUp, HelperExited, ReadCancelled, ReadTimesOut, FailWaiting,
              Fails, Return, Gone
<1>3. CASE \E t \in Times : AdvanceTo(t)
  <2>1. PICK t \in Times : AdvanceTo(t)
    BY <1>3
  <2>2. [op |-> "advance", target |-> t] \in Calls
    BY DEF Calls
  <2> QED BY <2>1, <2>2, BeginSteps DEF AdvanceTo
<1>4. CASE \E p \in Written(backend), v \in Levels : WriteInput(p, v)
  <2>1. PICK p \in Written(backend), v \in Levels : WriteInput(p, v)
    BY <1>4
  <2>2. [op |-> "write", port |-> p, value |-> v] \in Calls
    BY DEF Calls, Inv, TypeOK
  <2> QED BY <2>1, <2>2, BeginSteps DEF WriteInput
<1>5. CASE Receive
  BY <1>5, ReceiveSteps
<1>6. CASE HelperConnects \/ HelperAnswers \/ HelperDies \/ HelperHangs \/ Cancel \/ UNCHANGED vars
  BY <1>6 DEF HelperConnects, HelperAnswers, HelperDies, HelperHangs, Cancel, vars, Kept
<1> QED BY <1>1, <1>2, <1>3, <1>4, <1>5, <1>6 DEF Next

LEMMA StepContract ==
    Inv /\ Inv' /\ [Next]_vars => [Contract!ContractNext]_(Contract!contractVars)
<1> SUFFICES ASSUME Inv, Inv', [Next]_vars
             PROVE  [Contract!ContractNext]_(Contract!contractVars)
  OBVIOUS
<1> USE DEF Contract!ContractNext, Contract!contractVars
<1>1. session'.mirror.time \in Nat /\ caller'.outcome \in {"none", "ok", "failed"}
  BY TimesAssumption DEF Inv, TypeOK, Mirrors, Times
<1>2. CASE Kept
  BY <1>2 DEF Kept
<1>3. CASE Came
  BY <1>3 DEF Came, Contract!Initialized
<1>4. CASE Advances
  BY <1>1, <1>4 DEF Advances, Contract!Advanced
<1>5. CASE Gone
  BY <1>1, <1>5 DEF Gone, Contract!Failed
<1> QED BY <1>2, <1>3, <1>4, <1>5, Steps

\* The participant implements the contract the scheduler was written against:
\* a successful initialize is at time zero, time moves in a successful advance
\* only and forward, and after an error only initialize succeeds.
THEOREM ContractKept == Spec => KeepsContract
<1>1. Init => Contract!ContractInit
  BY DEF Init, BlankMirror, Contract!ContractInit
<1> QED BY <1>1, Invariant, StepContract, PTL DEF Spec, KeepsContract, Contract!ContractSpec
=============================================================================
