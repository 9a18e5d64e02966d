------------------------- MODULE NgSpiceCoSimulation ------------------------
(* NgSpiceCoSimulationSession (src/ngspice.rs) and the SharedSpice helper it  *)
(* talks to (native/ngspice-cosim-helper.c).                                  *)
EXTENDS HelperProtocol

\* A target past the configured stop is refused (ngspice.rs:1969); then the
\* session's own checks apply (2234-2242).
NgSpiceAdvance(s, target) ==
    IF target > StopTime THEN "refuse" ELSE AdvanceDecision(s, target)

\* The last voltage the helper accepted, compared bit for bit (2214-2222).
NgSpiceWrite(s, port, value) == IF s.inputs[port] = value THEN "done" ELSE "send"

\* read_state: a STATE tag, a time, and exactly one finite voltage per output,
\* stored together or not at all (2290-2333).
NgSpiceReadState(s, line) ==
    IF line.tag = "STATE" /\ DOMAIN line.level = Shown("ngspice")
    THEN [ok |-> TRUE, mirror |-> [s EXCEPT !.time = line.time, !.values = line.level]]
    ELSE [ok |-> FALSE, mirror |-> s]

\* Mutant: the level that was written is not recorded.
NgSpiceForgets(s, port, value) == s

\* set_input records the voltage only after the helper's answer (2223-2225).
NgSpiceAccepted(s, port, value) == [s EXCEPT !.inputs[port] = value]

\* SET in the helper: the operating point is solved again only while the
\* transient has not started; later the vectors keep their last sample.
NgSpiceHelperSet(d, port, value) ==
    {[d EXCEPT !.driven[port] = value, !.level = l] :
         l \in IF d.started \/ d.time # 0 THEN {d.level} ELSE [OutPorts -> Levels]}

\* advance_to in the helper: set a stop point, run or resume, wait for the
\* background thread, and report the target itself as the time reached.
NgSpiceHelperAdvance(d, target) ==
    {[d EXCEPT !.time = target, !.started = TRUE, !.level = l] : l \in [OutPorts -> Levels]}

\* The helper's command loop: the past kills it, the present is answered at
\* once (native/ngspice-cosim-helper.c:331-366).
NgSpiceHelper(d, command) ==
    IF command.op = "SET" THEN NgSpiceHelperSet(d, command.port, command.value)
    ELSE IF command.target < d.time THEN {}
    ELSE IF command.target = d.time THEN {d}
    ELSE NgSpiceHelperAdvance(d, command.target)

\* Up to the first line: all sources at zero, the operating point solved.
NgSpiceConnected ==
    {[time |-> 0, driven |-> [p \in InPorts |-> 0], level |-> l, next |-> NoEvent,
      started |-> FALSE] : l \in [OutPorts -> Levels]}
=============================================================================
