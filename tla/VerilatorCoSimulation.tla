------------------------ MODULE VerilatorCoSimulation -----------------------
(* VerilatorCoSimulationSession (src/verilator.rs) and the C++ harness it     *)
(* generates, compiles and runs (generate_cosim_harness).                     *)
EXTENDS HelperProtocol

VerilatorAdvance(s, target) == AdvanceDecision(s, target)

\* The last bit the harness accepted, zero before the first (789-796).
VerilatorWrite(s, port, value) == IF s.inputs[port] = value THEN "done" ELSE "send"

\* parse_cosim_state_line: the outputs a line names are stored one by one
\* BEFORE the line is known to be complete, the time before NEXT is checked;
\* a failed parse therefore leaves a mixture behind (1061-1114).
VerilatorReadState(s, line) ==
    LET outputs  == [s EXCEPT !.values = [p \in OutPorts |->
                       IF p \in DOMAIN line.level THEN line.level[p] ELSE @[p]]]
        timed    == [outputs EXCEPT !.time = line.time]
        complete == DOMAIN line.level = OutPorts
        future   == line.next = NoEvent \/ line.next > line.time
    IN  IF line.tag # "STATE" THEN [ok |-> FALSE, mirror |-> s]
        ELSE IF ~complete     THEN [ok |-> FALSE, mirror |-> outputs]
        ELSE IF ~future       THEN [ok |-> FALSE, mirror |-> timed]
        ELSE [ok |-> TRUE, mirror |-> [timed EXCEPT !.next = line.next]]

VerilatorAccepted(s, port, value) == [s EXCEPT !.inputs[port] = value]

\* eval() settles the model at the current time and may schedule events after
\* it; which outputs follow is the user's HDL.
VerilatorEval(d) ==
    UNION {{[d EXCEPT !.level = l, !.next = n] : l \in [OutPorts -> Levels]} :
               n \in {NoEvent} \cup {t \in Times : t > d.time}}

VerilatorHelperSet(d, port, value) == VerilatorEval([d EXCEPT !.driven[port] = value])

\* ADV visits every pending event up to the target before the target itself;
\* its result is an evaluation at the target (the loop of 1016-1023).
VerilatorHelperAdvance(d, target) ==
    VerilatorEval([d EXCEPT !.time = target, !.started = TRUE])

VerilatorHelper(d, command) ==
    IF command.op = "SET" THEN VerilatorHelperSet(d, command.port, command.value)
    ELSE IF command.target < d.time THEN {}
    ELSE VerilatorHelperAdvance(d, command.target)

\* Up to the first line: every input zero, one eval() at time zero.
VerilatorConnected ==
    VerilatorEval([time |-> 0, driven |-> [p \in InPorts |-> 0],
                   level |-> [p \in OutPorts |-> 0], next |-> NoEvent, started |-> FALSE])
=============================================================================
