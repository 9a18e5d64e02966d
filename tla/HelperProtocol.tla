--------------------------- MODULE HelperProtocol ---------------------------
(* What the three co-simulation sessions share: a participant process writes  *)
(* SET and ADV commands to a helper process and reads one STATE line for each *)
(* (docs/co-simulation.md, "R9.3 native helper boundary").  A level stands    *)
(* for a GPIO bit, a two-state net or a voltage: the properties only tell     *)
(* equal levels from different ones.                                          *)
EXTENDS Naturals

CONSTANTS InPorts,   \* ports the scheduler writes
          OutPorts,  \* ports the scheduler reads
          PadPorts,  \* bidirectional GPIO bindings, which only Renode has
          MaxTime,   \* bound on the picosecond clock
          NsTicks,   \* clock ticks of one nanosecond, Renode's resolution
          StopTime   \* NgSpiceCoSimulationConfig::stop

ASSUME PortsAssumption ==
    /\ InPorts \cap OutPorts = {} /\ PadPorts \cap (InPorts \cup OutPorts) = {}
ASSUME TimesAssumption ==
    /\ MaxTime \in Nat \ {0} /\ NsTicks \in Nat \ {0} /\ StopTime \in 0 .. MaxTime

Backends == {"renode", "ngspice", "verilator"}
Levels == {0, 1}
Times == 0 .. MaxTime
\* NEXT=- in a Verilator line: no event is pending (a real one is never at 0).
NoEvent == 0

\* The ports one STATE line reports, and the ports a SET may name.
Shown(b)   == IF b = "renode" THEN InPorts \cup OutPorts \cup PadPorts ELSE OutPorts
Written(b) == IF b = "renode" THEN InPorts \cup PadPorts ELSE InPorts

\* One line of the helper's standard output, cut into its fields.
Lines(b) == [tag : {"STATE", "other"}, time : Times, next : Times,
             level : UNION {[S -> Levels] : S \in SUBSET Shown(b)}]

Commands(b) == [op : {"SET"}, port : Written(b), value : Levels]
                 \cup [op : {"ADV"}, target : Times]

\* The simulated device behind a helper: its clock, the levels driven into
\* it, the levels it shows, its next internal event, whether time has run.
Devices(b) == [time : Times, driven : [Written(b) -> Levels],
               level : [Shown(b) -> Levels], next : Times, started : BOOLEAN]

StateLine(d) == [tag |-> "STATE", time |-> d.time, next |-> d.next, level |-> d.level]

\* What a participant's session remembers of its helper.
Mirrors(b) == [time : Times, values : [Shown(b) -> Levels],
               inputs : [Written(b) -> Levels], next : Times]

BlankMirror(b) == [time |-> 0, values |-> [p \in Shown(b) |-> 0],
                   inputs |-> [p \in Written(b) |-> 0], next |-> NoEvent]

(* Every set_input and advance_to decides one of three things before it talks *)
(* to the helper: refuse with an error, return at once, or send a command.    *)
AdvanceDecision(s, target) ==
    IF target < s.time THEN "refuse" ELSE IF target = s.time THEN "done" ELSE "send"
=============================================================================
