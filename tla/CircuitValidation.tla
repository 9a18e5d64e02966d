------------------------- MODULE CircuitValidation -------------------------
(* validation.rs: the circuits that Simulator hands to an engine.  A circuit  *)
(* is valid when its report holds no error; warnings do not count.            *)
(*                                                                            *)
(* Names are strings that may carry blanks around them.  Validation compares  *)
(* the names of models, components, pins and nets without them, an endpoint   *)
(* and a model reference as they are written.                                 *)
(*                                                                            *)
(*   model     [id, kind, language, text]  text: what entry and source hold   *)
(*   component [id, kind, pins, model, parameters]  parameters: "good", or    *)
(*             "crossed" (the window of a bridge), "unknown" (X or Z where a  *)
(*             logic value is asked for), "falling" (the clock edge),         *)
(*             "broken" (no name, not finite), "unfit" (valid, but missing or *)
(*             out of range for the engines that ask for it)                  *)
(*   pin       [id, domain, direction, map]  map: Pin.name                    *)
(*   net       [id, ends]  ends: its endpoints <<component, pin>> in order    *)
EXTENDS Naturals, Sequences

CONSTANTS Padded,   \* names with blanks around them, each with its bare form
          HdlPort,  \* what each legal Pin.name maps to: <<port>> or <<port, bit>>,
          GpioPin   \* and <<peripheral, pin>>; spellings may differ

Trimmed(name) == IF name \in DOMAIN Padded THEN Padded[name] ELSE name

Pairwise(s, Apart(_, _)) ==
    \A i, j \in DOMAIN s : i # j => Apart(s[i], s[j])

Analogue == {"analog", "reference"}

------------------------------------------------------------------------------
\* Ids are named and unique, text is not empty, the language fits the kind.
ModelsAreValid(c) ==
    /\ Pairwise(c.models, LAMBDA m, n : Trimmed(m.id) # Trimmed(n.id))
    /\ \A i \in DOMAIN c.models :
          LET m == c.models[i] IN
          /\ Trimmed(m.id) # "" /\ m.text # "empty"
          /\ IF m.kind = "module" THEN m.language = "verilog" ELSE m.language = "spice"

ModelIsDeclared(c, component, kind) ==
    /\ Trimmed(component.model) # ""
    /\ \E i \in DOMAIN c.models : /\ Trimmed(c.models[i].id) = component.model
                                  /\ c.models[i].kind = kind

ModelReferenceIsValid(c, component) ==
    /\ component.kind \in {"diode", "bjt", "mosfet"} => ModelIsDeclared(c, component, "device")
    /\ component.kind \in {"op_amp", "subcircuit"} => ModelIsDeclared(c, component, "subcircuit")

\* The first pin whose id is written like that.
HasPin(component, id) == \E i \in DOMAIN component.pins : component.pins[i].id = id
Pin(component, id) ==
    component.pins[CHOOSE i \in DOMAIN component.pins :
                      /\ component.pins[i].id = id
                      /\ \A j \in 1 .. i - 1 : component.pins[j].id # id]

PinIs(component, id, domain, direction) ==
    /\ HasPin(component, id)
    /\ Pin(component, id).domain = domain /\ Pin(component, id).direction = direction

\* A bridge has its two pins, and a window whose lower end is below the other.
BridgeIsValid(component) ==
    /\ component.kind = "adc_bridge" =>
          /\ PinIs(component, "analog_in", "analog", "input")
          /\ PinIs(component, "digital_out", "digital", "output")
    /\ component.kind = "dac_bridge" =>
          /\ PinIs(component, "digital_in", "digital", "input")
          /\ PinIs(component, "analog_out", "analog", "output")
    /\ component.kind \in {"adc_bridge", "dac_bridge"} => component.parameters # "crossed"

\* The pins of a module or a microcontroller are digital and map to ports; two
\* mappings are told apart by their text.
PortsAreValid(component, directions, port) ==
    /\ component.pins # <<>>
    /\ \A i \in DOMAIN component.pins :
          LET pin == component.pins[i] IN
          pin.domain = "digital" /\ pin.direction \in directions /\ pin.map \in DOMAIN port
    /\ Pairwise(component.pins, LAMBDA p, q : p.map # q.map)

HdlModuleIsValid(c, component) ==
    component.kind = "hdl_module" =>
        /\ ModelIsDeclared(c, component, "module")
        /\ PortsAreValid(component, {"input", "output"}, HdlPort)

McuIsValid(component) == component.kind = "mcu" => PortsAreValid(component, {"output"}, GpioPin)

ComponentsAreValid(c) ==
    /\ Pairwise(c.components, LAMBDA a, b : Trimmed(a.id) # Trimmed(b.id))
    /\ \A i \in DOMAIN c.components :
          LET component == c.components[i] IN
          /\ Trimmed(component.id) # "" /\ component.kind # "" /\ component.parameters # "broken"
          /\ \A p \in DOMAIN component.pins : Trimmed(component.pins[p].id) # ""
          /\ Pairwise(component.pins, LAMBDA p, q : Trimmed(p.id) # Trimmed(q.id))
          /\ ModelReferenceIsValid(c, component)
          /\ BridgeIsValid(component)
          /\ HdlModuleIsValid(c, component)
          /\ McuIsValid(component)

------------------------------------------------------------------------------
\* The pins an endpoint names: looked up, as it is written, among bare names.
PinsNamed(component, id) ==
    {component.pins[p] : p \in {q \in DOMAIN component.pins : Trimmed(component.pins[q].id) = id}}
PinsAt(c, end) ==
    UNION {PinsNamed(c.components[i], end[2]) :
              i \in {k \in DOMAIN c.components : Trimmed(c.components[k].id) = end[1]}}

DomainsOf(c, net) ==
    {pin.domain : pin \in UNION {PinsAt(c, net.ends[i]) : i \in DOMAIN net.ends}}

NetIsValid(c, net) ==
    /\ Trimmed(net.id) # ""
    /\ Pairwise(net.ends, LAMBDA e, f : e # f)
    /\ \A i \in DOMAIN net.ends : PinsAt(c, net.ends[i]) # {}
    /\ "digital" \in DomainsOf(c, net) => DomainsOf(c, net) \cap Analogue = {}

\* Mutant: nets may share an id.
NetIdsUnchecked(c) == \A i \in DOMAIN c.nets : NetIsValid(c, c.nets[i])

NetsAreValid(c) ==
    /\ Pairwise(c.nets, LAMBDA n, m : Trimmed(n.id) # Trimmed(m.id))
    /\ \A i \in DOMAIN c.nets : NetIsValid(c, c.nets[i])

ValidCircuit(c) == ModelsAreValid(c) /\ ComponentsAreValid(c) /\ NetsAreValid(c)
=============================================================================
