------------------------- MODULE RenodeCoSimulation -------------------------
(* RenodeCoSimulationSession (src/renode.rs) and the helper it talks to       *)
(* (native/renode-cosim-helper.c).  Virtual time and GPIO levels live in the  *)
(* External Control server, so they outlast one helper.                       *)
EXTENDS HelperProtocol

\* A target between two nanoseconds is refused before the session is asked
\* (renode.rs:1262); then the session's own checks apply (1416-1425).
RenodeAdvance(s, target) ==
    IF target % NsTicks # 0 THEN "refuse" ELSE AdvanceDecision(s, target)

\* The last level READ BACK decides whether a write changes anything
\* (renode.rs:1401): there is no record of the last level written.
RenodeWrite(s, port, value) == IF s.values[port] = value THEN "done" ELSE "send"

\* read_state: the tag, the time and exactly one bit per binding are checked
\* first; time and values are stored together or not at all (1471-1509).
RenodeReadState(s, line) ==
    IF line.tag = "STATE" /\ DOMAIN line.level = Shown("renode")
    THEN [ok |-> TRUE, mirror |-> [s EXCEPT !.time = line.time, !.values = line.level]]
    ELSE [ok |-> FALSE, mirror |-> s]

\* next_event_time: one quantum ahead of the last time read (1247-1255).
RenodeNextEvent(s, quantum) == s.time + quantum

\* SET in the helper: the level is driven; an input pin then shows it, a
\* bidirectional pad may be held by the firmware, outputs do not move because
\* no virtual time passes.
RenodeHelperSet(d, port, value) ==
    {[d EXCEPT !.driven[port] = value, !.level[port] = shown] :
         shown \in IF port \in PadPorts THEN Levels ELSE {value}}

\* ADV in the helper: dies on a fraction of a nanosecond or on a time in the
\* past (no result), else runs the machine for the difference.  The firmware
\* may leave every output and every pad at any level.
RenodeHelperAdvance(d, target) ==
    IF target % NsTicks # 0 \/ target < d.time THEN {}
    ELSE IF target = d.time THEN {d}
    ELSE {[d EXCEPT !.time = target, !.started = TRUE,
                    !.level = [p \in Shown("renode") |->
                                 IF p \in InPorts THEN d.driven[p] ELSE l[p]]] :
            l \in [OutPorts \cup PadPorts -> Levels]}

\* The helper's command loop: the devices an accepted command may leave
\* behind; an empty set means that the helper exits without an answer.
RenodeHelper(d, command) ==
    IF command.op = "SET" THEN RenodeHelperSet(d, command.port, command.value)
                          ELSE RenodeHelperAdvance(d, command.target)

\* write_state after renode_connect: whatever the server's machine shows now.
RenodeConnected(d) == {d}
=============================================================================
