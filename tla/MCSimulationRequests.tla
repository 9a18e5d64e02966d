----------------------- MODULE MCSimulationRequests ------------------------
(* Boards of a few components for SimulationRequests, with every way to put   *)
(* each endpoint on one of a few nets or on none, one of them perhaps on net  *)
(* 1 as well, and with net ids that differ, repeat or differ in blanks.       *)
EXTENDS SimulationRequests, TLC

MCPadded == (" r1" :> "r1") @@ (" a" :> "a")
MCHdlPort == ("d[0]" :> <<"d", 0>>) @@ ("d[00]" :> <<"d", 0>>) @@ ("d[1]" :> <<"d", 1>>) @@ ("q" :> <<"q">>)
MCGpioPin == ("pa@1" :> <<"pa", 1>>) @@ ("pa@01" :> <<"pa", 1>>) @@ ("pa@2" :> <<"pa", 2>>)

Worker == <<"digital", "ngspice", "xspice", "mixed", "verilator", "renode">>
MCRegistries == {Worker, <<"renode", "verilator", "mixed", "xspice", "ngspice", "digital">>}

P(id, domain, direction, map) == [id |-> id, domain |-> domain, direction |-> direction, map |-> map]
In(id) == P(id, "digital", "input", "")
Out(id) == P(id, "digital", "output", "")
Wire(id) == P(id, "analog", "passive", "")
C(id, kind, pins, model, parameters) ==
    [id |-> id, kind |-> kind, pins |-> pins, model |-> model, parameters |-> parameters]
Plain(id, kind, pins) == C(id, kind, pins, "", "good")
M(id, kind, language, text) == [id |-> id, kind |-> kind, language |-> language, text |-> text]

Ground == Plain("g", "ground", <<P("gnd", "reference", "passive", "")>>)
R(id, parameters) == C(id, "resistor", <<Wire("p"), Wire("n")>>, "", parameters)
Resistor(id) == R(id, "good")
Diode == C("x", "diode", <<Wire("anode"), Wire("cathode")>>, "m", "good")
Adc(parameters) ==
    C("adc", "adc_bridge", <<P("analog_in", "analog", "input", ""), Out("digital_out")>>, "", parameters)
Dac == Plain("dac", "dac_bridge", <<In("digital_in"), P("analog_out", "analog", "output", "")>>)
Source(level) == C("in1", "logic_input", <<Out("out")>>, "", level)
Sink == Plain("out1", "logic_output", <<In("in")>>)
Buffer(pin) == Plain("buf", "buffer", <<pin, Out("out")>>)
Mux == Plain("mux", "mux2", <<In("a"), In("b"), In("sel"), Out("out")>>)
Latch(controls, edge) == C("l", "d_latch", <<In("d"), In("enable"), Out("q")>> \o controls, "", edge)
Clock(initial) == C("clk", "digital_clock", <<Out("out")>>, "", initial)
Module(low, high) ==
    C("u", "hdl_module", <<P("x", "digital", "input", low), P("y", "digital", "input", high), P("z", "digital", "output", "q")>>, "m", "good")
Mcu(first, second) ==
    Plain("mcu", "mcu", <<P("p0", "digital", "output", first), P("p1", "digital", "output", second)>>)

\* Endpoints as a user writes them: without the blanks, if there are any.
RECURSIVE Spots(_)
Spots(parts) ==
    IF parts = <<>> THEN <<>>
    ELSE [i \in DOMAIN Head(parts).pins |-> <<Trimmed(Head(parts).id), Head(parts).pins[i].id>>]
            \o Spots(Tail(parts))

B(analysis, width, models, parts) ==
    LET spots == Spots(parts) IN
    [analysis |-> analysis, models |-> models, components |-> parts, spots |-> spots,
     ids |-> {SubSeq(<<"a", "b", "c">>, 1, width), SubSeq(<<"a", "a", "c">>, 1, width),
              SubSeq(<<"a", " a", "c">>, 1, width)},
     twice |-> {<<>>, <<spots[1]>>, <<<<"ghost", "p">>>>},
     probes |-> {{}, {spots[1]}}]
MCBoards ==
    {B("analog", 3, <<>>, <<Ground, Resistor("r1")>>), B("analog", 2, <<>>, <<Ground, Resistor(" r1")>>),
     B("analog", 2, <<>>, <<Ground, R("r1", "unfit")>>),
     B("analog", 2, <<M("m", "device", "spice", "diode")>>, <<Ground, Diode>>),
     B("analog", 2, <<M("m", "device", "spice", "bjt")>>, <<Ground, Diode>>),
     B("analog", 2, <<M("m", "module", "verilog", "good")>>, <<Ground, Diode>>),
     B("analog", 2, <<M("m", "device", "spice", "diode"), M("m", "device", "spice", "diode")>>, <<Ground, Diode>>),
     B("mixed", 3, <<>>, <<Ground, Adc("good"), Sink>>), B("mixed", 3, <<>>, <<Ground, Dac, Source("unknown")>>),
     B("mixed", 2, <<>>, <<Ground, Adc("crossed"), Sink>>),
     B("mixed", 3, <<>>, <<Ground, Adc("good"), Plain("r1", "resistor", <<Wire("p"), P("n", "mixed", "passive", "")>>)>>),
     B("mixed", 3, <<>>, <<Plain("g", "ground", <<Out("gnd")>>), Adc("good"), Sink>>),
     B("mixed", 3, <<>>, <<Ground, Adc("good"), Buffer(P("in", "analog", "input", ""))>>),
     B("digital", 2, <<>>, <<Source("unknown"), Buffer(In("in")), Sink>>),
     B("digital", 2, <<>>, <<Source("good"), Buffer(P("in", "analog", "input", ""))>>), B("digital", 2, <<>>, <<Mux>>),
     B("digital", 2, <<>>, <<Latch(<<>>, "good"), Source("broken")>>), B("digital", 2, <<>>, <<Latch(<<In("set")>>, "good")>>),
     B("digital", 2, <<>>, <<Latch(<<In("set"), In("reset"), Out("nq")>>, "falling")>>),
     B("digital", 2, <<>>, <<Clock("unknown"), Sink>>), B("digital", 2, <<>>, <<Clock("unfit"), Sink>>),
     B("digital", 2, <<M("m", "module", "verilog", "good")>>, <<Module("d[0]", "d[1]"), Source("good")>>),
     B("digital", 2, <<M("m", "module", "verilog", "unsafe")>>, <<Module("d[0]", "d[1]"), Source("good")>>),
     B("digital", 2, <<M("m", "module", "verilog", "good")>>, <<Module("d[0]", "d[00]"), Source("unknown")>>),
     B("digital", 2, <<M("m", "module", "verilog", "good")>>, <<Module("d[0]", "d[1]"), Resistor("r1")>>),
     B("firmware", 3, <<>>, <<Mcu("pa@1", "pa@2"), Sink>>), B("firmware", 2, <<>>, <<Mcu("pa@1", "pa@01"), Sink>>),
     B("firmware", 2, <<>>, <<Sink>>),
     B("firmware", 2, <<M("m", "module", "verilog", "good")>>, <<Plain("mcu", "mcu", <<P("p0", "digital", "output", "pa@1")>>), Module("d[0]", "d[1]")>>)}
=============================================================================
