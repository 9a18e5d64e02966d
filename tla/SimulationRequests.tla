------------------------ MODULE SimulationRequests -------------------------
(* Simulator::simulate_with_control: a request is validated, an engine is     *)
(* selected from the registry and the engine compiles the circuit.            *)
EXTENDS EngineCompilation, FiniteSets

CONSTANTS Registries, \* orders in which engines may have been registered
          Boards      \* [analysis, models, components, spots, ids, twice, probes]:
                      \* a request but for its nets

AllEngines == {"digital", "ngspice", "xspice", "mixed", "verilator", "renode"}
\* The orders are orders of the same engines.
ASSUME RegistriesAssumption ==
    /\ \A reg \in Registries : reg \in Seq(AllEngines)
    /\ \A reg, other \in Registries :
          {reg[i] : i \in DOMAIN reg} = {other[i] : i \in DOMAIN other}
\* Nets and pins are in vectors.
ASSUME BoardsAssumption ==
    \A board \in Boards :
        /\ \A ids \in board.ids : ids \in Seq(STRING)
        /\ \A i \in DOMAIN board.components :
              board.components[i].pins \in
                  Seq([id : STRING, domain : STRING, direction : STRING, map : STRING])

VARIABLES registry, request, stage, engine, outcome

vars == <<registry, request, stage, engine, outcome>>

circuit == request.circuit
HasHdl(r) == "hdl_module" \in Kinds(r.circuit)

------------------------------------------------------------------------------
\* supports_request of each engine.
NgSpiceSupports(r) == r.analysis = "analog" /\ ~HasHdl(r)
DigitalSupports(r) == r.analysis = "digital" /\ ~HasHdl(r)
\* Mutant: XSPICE takes any digital request.
XSpiceTakesAll(r) == r.analysis = "digital"

XSpiceSupports(r) == r.analysis = "digital" /\ ~HasHdl(r)
MixedSupports(r) == r.analysis = "mixed" /\ ~HasHdl(r)
VerilatorSupports(r) ==
    r.analysis = "digital" /\ HasHdl(r) /\ Kinds(r.circuit) \subseteq VerilatorKinds
RenodeSupports(r) == r.analysis = "firmware" /\ Mcus(r.circuit) # {}

Supports(e, r) == CASE e = "ngspice"   -> NgSpiceSupports(r)
                    [] e = "digital"   -> DigitalSupports(r)
                    [] e = "xspice"    -> XSpiceSupports(r)
                    [] e = "mixed"     -> MixedSupports(r)
                    [] e = "verilator" -> VerilatorSupports(r)
                    [] e = "renode"    -> RenodeSupports(r)

\* select_request: the first registered engine that supports the request.
Selected(reg, r) ==
    LET able == {i \in DOMAIN reg : Supports(reg[i], r)}
    IN  IF able = {} THEN "none" ELSE reg[CHOOSE i \in able : \A j \in able : i <= j]

Compiles(e, r) == CASE e = "ngspice"   -> NgSpiceCompiles(r)
                    [] e = "digital"   -> DigitalCompiles(r)
                    [] e = "xspice"    -> XSpiceCompiles(r)
                    [] e = "mixed"     -> MixedCompiles(r)
                    [] e = "verilator" -> VerilatorCompiles(r)
                    [] e = "renode"    -> RenodeCompiles(r)

\* Where an endpoint of a compiled circuit is, seen by its engine.
Node(end) ==
    LET n == CHOOSE m \in NetsWith(circuit, end) : TRUE
    IN  CASE engine = "ngspice"   -> NgSpiceNode(circuit, n)
          [] engine = "digital"   -> DigitalNode(circuit, n)
          [] engine = "xspice"    -> XSpiceNode(circuit, n)
          [] engine = "mixed"     -> MixedNode(circuit, n)
          [] engine = "verilator" -> VerilatorNode(n)
          [] engine = "renode"    -> RenodeNode(circuit, end)

------------------------------------------------------------------------------
\* The board with net ids[n] joining the spots i with place[i] = n; its first
\* net has further endpoints.
Wired(board, ids, place, twice) ==
    LET At(n) == {i \in DOMAIN place : place[i] = n}
        Among(n) == [k \in 1 .. Cardinality(At(n)) |->
                        board.spots[CHOOSE i \in At(n) : Cardinality({j \in At(n) : j <= i}) = k]]
    IN  [models |-> board.models, components |-> board.components,
         nets |-> [n \in DOMAIN ids |->
                     [id |-> ids[n], ends |-> Among(n) \o (IF n = 1 THEN twice ELSE <<>>)]]]

Init ==
    /\ registry \in Registries
    /\ \E board \in Boards : \E ids \in board.ids, twice \in board.twice, probes \in board.probes :
          \E place \in [DOMAIN board.spots -> 0 .. Len(ids)] :
             request = [circuit |-> Wired(board, ids, place, twice),
                        analysis |-> board.analysis, probes |-> probes]
    /\ stage = "submitted" /\ engine = "none" /\ outcome = "none"

Validate ==
    /\ stage = "submitted"
    /\ IF ValidCircuit(circuit) THEN stage' = "valid" /\ UNCHANGED outcome
                                ELSE stage' = "returned" /\ outcome' = "invalid_circuit"
    /\ UNCHANGED <<registry, request, engine>>

Select ==
    /\ stage = "valid" /\ engine' = Selected(registry, request)
    /\ IF engine' # "none" THEN stage' = "selected" /\ UNCHANGED outcome
                           ELSE stage' = "returned" /\ outcome' = "no_compatible_engine"
    /\ UNCHANGED <<registry, request>>

Compile ==
    /\ stage = "selected"
    /\ IF Compiles(engine, request) THEN stage' = "compiled" /\ UNCHANGED outcome
                                    ELSE stage' = "returned" /\ outcome' = "engine_error"
    /\ UNCHANGED <<registry, request, engine>>

Next == Validate \/ Select \/ Compile

Spec == Init /\ [][Next]_vars

------------------------------------------------------------------------------
(* What an engine solves is the circuit that was submitted: two endpoints are *)
(* on one node exactly if they share a net or are both grounded.  Engines key *)
(* nodes by the written ids of nets and find an endpoint's net by its written *)
(* name, validation has compared trimmed ones.  A GPIO that Renode shows for  *)
(* an endpoint shares a net with it (an endpoint on two nets is not refused   *)
(* there, so that the converse does not hold).                                *)
Together(e, f) == NetsWith(circuit, e) \cap NetsWith(circuit, f) # {}
Grounded(e) ==
    engine \in {"ngspice", "mixed"} /\ \E g \in Grounds(circuit) : Together(e, <<g.id, g.pins[1].id>>)
NodesFollowNets ==
    stage = "compiled" =>
        IF engine = "renode"
        THEN \A e \in Ends(circuit), mcu \in Mcus(circuit) : \A pin \in PinIds(mcu) :
                Node(e) = <<pin, 0>> => Together(e, <<mcu.id, pin>>)
        ELSE \A e, f \in Ends(circuit) :
                Node(e) = Node(f) <=> Together(e, f) \/ (Grounded(e) /\ Grounded(f))

(* Analogue and digital parts meet in bridges only: whatever pins declare and *)
(* nets join, in a compiled mixed circuit the pins of logic are on event      *)
(* nodes, those of a bridge one on each side, and an analogue pin never on an *)
(* event node.  Analogue elements with pins declared digital are left out:    *)
(* no engine asks for their domain.                                           *)
OnEvents(component, pin) == Node(<<component.id, pin>>)[1] = "d"
DomainsMeetInBridges ==
    stage = "compiled" /\ engine = "mixed" =>
        \A i \in DOMAIN circuit.components :
            LET part == circuit.components[i] IN
            CASE part.kind \in XSpiceKinds  -> \A pin \in Used(part) : OnEvents(part, pin)
              [] part.kind = "adc_bridge" -> OnEvents(part, "digital_out") /\ ~OnEvents(part, "analog_in")
              [] part.kind = "dac_bridge" -> OnEvents(part, "digital_in") /\ ~OnEvents(part, "analog_out")
              [] OTHER -> \A p \in DOMAIN part.pins :
                    part.pins[p].domain \in Analogue /\ <<part.id, part.pins[p].id>> \in Ends(circuit)
                        => ~OnEvents(part, part.pins[p].id)

(* docs/public-contracts.md:148, "HDL routing does not depend on registration *)
(* order": an HDL module is simulated by Verilator and by no other engine (a  *)
(* firmware request with one is given to Renode, which refuses it), and the   *)
(* same engine is selected in whatever order they were registered.            *)
HdlRoutingIgnoresOrder ==
    /\ stage = "compiled" => (HasHdl(request) <=> engine = "verilator")
    /\ stage \in {"selected", "compiled"} /\ HasHdl(request) =>
          \A reg \in Registries : Selected(reg, request) = engine

(* No two pins of a module that is run drive or read one port bit, nor two of *)
(* a microcontroller one GPIO, however their mappings are spelled.            *)
PortsHaveOneDriver ==
    stage = "compiled" =>
        \A i \in DOMAIN circuit.components :
            LET part == circuit.components[i]
                port == IF part.kind = "mcu" THEN GpioPin ELSE HdlPort
            IN  part.kind \in {"mcu", "hdl_module"} =>
                    \A p, q \in DOMAIN part.pins : p # q => port[part.pins[p].map] # port[part.pins[q].map]
=============================================================================
