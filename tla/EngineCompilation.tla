------------------------- MODULE EngineCompilation -------------------------
(* How the six engines translate a circuit: which circuits they refuse, and   *)
(* on which node of the solver (wire, source) each endpoint ends up.  Engines *)
(* look names up as they are written.                                         *)
EXTENDS CircuitValidation

Indexes(c) == DOMAIN c.nets
Ends(c) == UNION {{c.nets[n].ends[i] : i \in DOMAIN c.nets[n].ends} : n \in Indexes(c)}
NetsWith(c, end) == {n \in Indexes(c) : \E i \in DOMAIN c.nets[n].ends : c.nets[n].ends[i] = end}
Kinds(c) == {c.components[i].kind : i \in DOMAIN c.components}

\* Maps from endpoints to nets refuse to insert an endpoint twice.
EndsOnOneNet(c) ==
    \A n, m \in Indexes(c) : \A i \in DOMAIN c.nets[n].ends, j \in DOMAIN c.nets[m].ends :
        c.nets[n].ends[i] = c.nets[m].ends[j] => n = m /\ i = j

\* Maps from net ids keep the last net of that id.
LastNet(c, id) == CHOOSE n \in Indexes(c) :
                  c.nets[n].id = id /\ \A m \in Indexes(c) : c.nets[m].id = id => m <= n

Connected(c, component, pins) == \A pin \in pins : <<component.id, pin>> \in Ends(c)
PinIds(component) == {component.pins[i].id : i \in DOMAIN component.pins}
ProbesAreConnected(r) == r.probes \subseteq Ends(r.circuit)

------------------------------------------------------------------------------
(* Analogue circuits: ngspice.                                                *)

TwoPinKinds == {"resistor", "capacitor", "inductor", "voltage_source", "current_source"}
NamedPins == [diode  |-> {"anode", "cathode"},
              bjt    |-> {"collector", "base", "emitter"},
              mosfet |-> {"drain", "gate", "source", "bulk"},
              op_amp |-> {"non_inverting", "inverting", "positive_supply", "negative_supply", "output"}]

Grounds(c) == {c.components[i] : i \in {k \in DOMAIN c.components : c.components[k].kind = "ground"}}
GroundNets(c) ==
    {c.nets[n].id : n \in UNION {NetsWith(c, <<g.id, g.pins[1].id>>) : g \in {h \in Grounds(c) : h.pins # <<>>}}}
IsGrounded(c) == (\A g \in Grounds(c) : Len(g.pins) = 1) /\ GroundNets(c) # {}

\* The element an inline SPICE source declares its entry for: by the device type,
\* or as a subcircuit of five ports; "other" has another type or count.
SpiceEntries == {"diode", "bjt", "mosfet", "op_amp", "other"}

\* compile_models: inline SPICE, unique ids, an entry that the source declares.
SpiceModelsCompile(c) ==
    /\ \A i \in DOMAIN c.models : c.models[i].language = "spice" /\ c.models[i].text \in SpiceEntries
    /\ Pairwise(c.models, LAMBDA m, n : m.id # n.id)

HasSpiceModel(c, component, kind) ==
    \E i \in DOMAIN c.models :
        /\ c.models[i].id = Trimmed(component.model) /\ c.models[i].kind = kind
        /\ component.kind # "subcircuit" => c.models[i].text = component.kind

AnalogComponentCompiles(c, component) ==
    /\ component.parameters # "unfit"
    /\ \/ component.kind \in TwoPinKinds /\ Len(component.pins) = 2
       \/ /\ component.kind \in DOMAIN NamedPins
          /\ NamedPins[component.kind] \subseteq PinIds(component)
          /\ HasSpiceModel(c, component, IF component.kind = "op_amp" THEN "subcircuit" ELSE "device")
       \/ /\ component.kind = "subcircuit" /\ component.pins # <<>>
          /\ HasSpiceModel(c, component, "subcircuit")
    /\ Connected(c, component, IF component.kind \in DOMAIN NamedPins THEN NamedPins[component.kind]
                               ELSE PinIds(component))

NgSpiceNode(c, n) ==
    IF c.nets[n].id \in GroundNets(c) THEN <<"0", 0>> ELSE <<"n", LastNet(c, c.nets[n].id)>>

NgSpiceCompiles(r) ==
    LET c == r.circuit IN
    /\ IsGrounded(c) /\ EndsOnOneNet(c) /\ SpiceModelsCompile(c)
    /\ \A i \in DOMAIN c.components :
          c.components[i].kind = "ground" \/ AnalogComponentCompiles(c, c.components[i])
    /\ ProbesAreConnected(r)
    /\ r.probes = {} => \E n \in Indexes(c) : NgSpiceNode(c, n) # <<"0", 0>>

------------------------------------------------------------------------------
(* Digital circuits: the built-in engine and XSPICE.  mux2 stands for the     *)
(* kinds only the built-in engine has.                                        *)

UnaryGates == {"buffer", "not_gate"}
BinaryGates == {"and_gate", "or_gate", "xor_gate", "nand_gate", "nor_gate", "xnor_gate"}
Sequential == {"d_flip_flop", "jk_flip_flop", "t_flip_flop", "sr_flip_flop", "d_latch"}
XSpiceKinds == {"logic_input", "digital_clock", "logic_output", "tri_state_buffer"}
                  \cup UnaryGates \cup BinaryGates \cup Sequential
DigitalKinds == XSpiceKinds \cup {"mux2"}

InputPins(kind) ==
    CASE kind \in {"logic_input", "digital_clock"}     -> {}
      [] kind \in UnaryGates \cup {"logic_output"}     -> {"in"}
      [] kind \in BinaryGates                          -> {"a", "b"}
      [] kind = "tri_state_buffer"                     -> {"in", "enable"}
      [] kind = "mux2"                                 -> {"a", "b", "sel"}
      [] kind = "d_latch"                              -> {"d", "enable"}
      [] kind = "d_flip_flop"                          -> {"d", "clk"}
      [] kind = "jk_flip_flop"                         -> {"j", "k", "clk"}
      [] kind = "t_flip_flop"                          -> {"t", "clk"}
      [] kind = "sr_flip_flop"                         -> {"s", "r", "clk"}
OutputPins(kind) == CASE kind = "logic_output" -> {} [] kind \in Sequential -> {"q"} [] OTHER -> {"out"}

\* Controls that the built-in engine uses if they are there and XSPICE needs.
ControlPins(kind) == IF kind \in Sequential THEN {"set", "reset", "nq"} ELSE {}
Used(component) ==
    InputPins(component.kind) \cup OutputPins(component.kind)
      \cup (ControlPins(component.kind) \cap PinIds(component))

\* Mutant: the domain of a pin is not asked for.
PinDirectionOnly(c, component, pin) ==
    /\ HasPin(component, pin) /\ Connected(c, component, {pin})
    /\ Pin(component, pin).direction =
          IF pin \in OutputPins(component.kind) \cup {"nq"} THEN "output" ELSE "input"

\* require_pin and connected_node.
PinCompiles(c, component, pin) ==
    /\ PinIs(component, pin, "digital",
             IF pin \in OutputPins(component.kind) \cup {"nq"} THEN "output" ELSE "input")
    /\ Connected(c, component, {pin})

\* A clock that starts with X or Z is refused here or when its edges are scheduled.
LogicCompiles(c, component) ==
    /\ component.parameters # "unfit"
    /\ component.kind = "digital_clock" => component.parameters # "unknown"
    /\ \A pin \in Used(component) : PinCompiles(c, component, pin)

\* XSPICE's flip-flops have a rising edge and all controls, its latch as well.
XSpiceLogicCompiles(c, component) ==
    /\ LogicCompiles(c, component)
    /\ component.kind \in Sequential => component.parameters # "falling"
    /\ ControlPins(component.kind) \subseteq PinIds(component)

DigitalNode(c, n) == <<c.nets[n].id, 0>>
DigitalCompiles(r) ==
    LET c == r.circuit IN
    /\ EndsOnOneNet(c) /\ c.nets # <<>> /\ ProbesAreConnected(r)
    /\ \A i \in DOMAIN c.components :
          c.components[i].kind \in DigitalKinds /\ LogicCompiles(c, c.components[i])

XSpiceNode(c, n) == <<"d", LastNet(c, c.nets[n].id)>>
XSpiceCompiles(r) ==
    LET c == r.circuit IN
    /\ EndsOnOneNet(c) /\ c.nets # <<>> /\ ProbesAreConnected(r)
    /\ \A i \in DOMAIN c.components :
          c.components[i].kind \in XSpiceKinds /\ XSpiceLogicCompiles(c, c.components[i])

------------------------------------------------------------------------------
(* Mixed circuits.                                                            *)

\* endpoint_domains: the last pin written like the endpoint.
DeclaredDomains(c, end) ==
    UNION {LET same == {p \in DOMAIN c.components[i].pins : c.components[i].pins[p].id = end[2]}
           IN  {c.components[i].pins[p].domain : p \in {q \in same : \A o \in same : o <= q}} :
           i \in {k \in DOMAIN c.components : c.components[k].id = end[1]}}
NetDomains(c, n) == UNION {DeclaredDomains(c, c.nets[n].ends[i]) : i \in DOMAIN c.nets[n].ends}

NetsAreClassified(c) ==
    \A n \in Indexes(c) :
        /\ \A i \in DOMAIN c.nets[n].ends : DeclaredDomains(c, c.nets[n].ends[i]) # {}
        /\ "mixed" \notin NetDomains(c, n)
        /\ ~("digital" \in NetDomains(c, n) /\ NetDomains(c, n) \cap Analogue # {})

IsDigital(c, id) == "digital" \in NetDomains(c, LastNet(c, id))
MixedNode(c, n) ==
    LET id == c.nets[n].id IN
    IF id \in GroundNets(c) THEN <<"0", 0>>
    ELSE <<IF IsDigital(c, id) THEN "d" ELSE "n", LastNet(c, id)>>

BridgeCompiles(c, component) ==
    BridgeIsValid(component) /\
    Connected(c, component, IF component.kind = "adc_bridge" THEN {"analog_in", "digital_out"}
                                                              ELSE {"digital_in", "analog_out"})

MixedComponentCompiles(c, component) ==
    \/ component.kind = "ground"
    \/ AnalogComponentCompiles(c, component)
    \/ component.kind \in XSpiceKinds /\ XSpiceLogicCompiles(c, component)
    \/ component.kind \in {"adc_bridge", "dac_bridge"} /\ BridgeCompiles(c, component)

MixedCompiles(r) ==
    LET c == r.circuit IN
    /\ NetsAreClassified(c) /\ IsGrounded(c) /\ EndsOnOneNet(c) /\ SpiceModelsCompile(c)
    /\ \A id \in GroundNets(c) : ~IsDigital(c, id)
    /\ \A i \in DOMAIN c.components : MixedComponentCompiles(c, c.components[i])
    /\ Kinds(c) \cap {"adc_bridge", "dac_bridge"} # {}
    /\ ProbesAreConnected(r)
    /\ r.probes = {} => \E n \in Indexes(c) : MixedNode(c, n) # <<"0", 0>>

------------------------------------------------------------------------------
(* HDL modules: Verilator.  A driver writes its wire directly, so that inputs *)
(* must be known; pins that share a port must be its bits.                    *)

VerilatorKinds == {"hdl_module", "logic_input", "digital_clock", "logic_output"}

\* Mutant: mappings are compared as they are spelled.
PortsSpeltApart(component, port) == Pairwise(component.pins, LAMBDA p, q : p.map # q.map)

PortsAreDistinct(component, port) ==
    Pairwise(component.pins, LAMBDA p, q : port[p.map] # port[q.map])

\* A port is mapped as a scalar or by every bit from 0 on.
PortsAreWhole(component) ==
    \A i \in DOMAIN component.pins :
        LET p == HdlPort[component.pins[i].map] IN
        /\ \A j \in DOMAIN component.pins :
              LET q == HdlPort[component.pins[j].map] IN p[1] = q[1] => Len(p) = Len(q)
        /\ Len(p) = 2 /\ p[2] > 0 =>
              \E j \in DOMAIN component.pins : HdlPort[component.pins[j].map] = <<p[1], p[2] - 1>>

HdlModels(c) == {c.models[i] : i \in {k \in DOMAIN c.models : c.models[k].kind = "module" /\ c.models[k].language = "verilog"}}

HdlModuleCompiles(c, component) ==
    /\ component.parameters # "unfit" /\ \E m \in HdlModels(c) : m.id = component.model
    /\ PortsAreValid(component, {"input", "output"}, HdlPort)
    /\ PortsAreDistinct(component, HdlPort) /\ PortsAreWhole(component)
    /\ Connected(c, component, PinIds(component))

StimulusCompiles(c, component) ==
    LET pin == IF component.kind = "logic_output" THEN "in" ELSE "out" IN
    /\ HasPin(component, pin) /\ Connected(c, component, {pin})
    /\ component.kind # "logic_output" => component.parameters \notin {"unknown", "unfit"}

VerilatorNode(n) == <<"ox_n", n>>
VerilatorCompiles(r) ==
    LET c == r.circuit IN
    /\ EndsOnOneNet(c) /\ ProbesAreConnected(r)
    /\ "hdl_module" \in Kinds(c) /\ Kinds(c) \subseteq VerilatorKinds
    /\ \A m \in HdlModels(c) : m.text = "good"
    /\ \A i \in DOMAIN c.components :
          IF c.components[i].kind = "hdl_module" THEN HdlModuleCompiles(c, c.components[i])
                                                 ELSE StimulusCompiles(c, c.components[i])

------------------------------------------------------------------------------
(* Firmware: Renode reads the GPIOs of one microcontroller; an endpoint shows *)
(* the GPIO of the last net it shares with one.  It does not ask whether an   *)
(* endpoint is on two nets.                                                   *)

Mcus(c) == {c.components[i] : i \in {k \in DOMAIN c.components : c.components[k].kind = "mcu"}}
Gpios(c, n, mcu) == {pin \in PinIds(mcu) : n \in NetsWith(c, <<mcu.id, pin>>)}

RenodeNode(c, end) ==
    LET mcu == CHOOSE m \in Mcus(c) : TRUE
        driven == {n \in NetsWith(c, end) : Gpios(c, n, mcu) # {}}
        last == CHOOSE n \in driven : \A m \in driven : m <= n
    IN  IF driven = {} THEN <<"none", 1>> ELSE <<CHOOSE pin \in Gpios(c, last, mcu) : TRUE, 0>>

RenodeCompiles(r) ==
    LET c == r.circuit IN
    \E mcu \in Mcus(c) :
        /\ \A i \in DOMAIN c.components :
              c.components[i] = mcu \/ c.components[i].kind = "logic_output"
        /\ PortsAreValid(mcu, {"output"}, GpioPin) /\ PortsAreDistinct(mcu, GpioPin)
        /\ \A n \in Indexes(c), p, q \in PinIds(mcu) : {p, q} \subseteq Gpios(c, n, mcu) => p = q
        /\ \A end \in r.probes :
              \/ end[1] = mcu.id /\ end[2] \in PinIds(mcu)
              \/ \E n \in NetsWith(c, end) : Gpios(c, n, mcu) # {}
=============================================================================
