---------------------- MODULE SimulationRequestsProofs ----------------------
(* What Simulator's selection and the engines' compilation promise for every  *)
(* request and every set of registries, not only for small boards.            *)
EXTENDS SimulationRequests, WellFoundedInduction, TLAPS

\* What is known of a request at each stage of simulate_with_control.
Inv ==
    /\ registry \in Registries
    /\ stage \in {"submitted", "valid", "selected", "compiled", "returned"}
    /\ stage \in {"selected", "compiled"} =>
          engine = Selected(registry, request) /\ engine # "none"
    /\ stage = "compiled" => Compiles(engine, request)

LEMMA InitInv == Init => Inv
BY DEF Init, Inv

LEMMA StepInv == Inv /\ [Next]_vars => Inv'
<1> SUFFICES ASSUME Inv, [Next]_vars PROVE Inv'
  OBVIOUS
<1>1. CASE Validate
  BY <1>1 DEF Validate, Inv
<1>2. CASE Select
  <2>1. Selected(registry, request)' = Selected(registry, request) /\ engine' = Selected(registry, request)
    BY <1>2 DEF Select, Selected
  <2> HIDE DEF Selected
  <2> QED BY <1>2, <2>1 DEF Select, Inv
<1>3. CASE Compile
  <2>1. registry' = registry /\ request' = request /\ engine' = engine
    BY <1>3 DEF Compile
  <2> QED BY <1>3, <2>1 DEF Compile, Inv
<1>4. CASE UNCHANGED vars
  BY <1>4 DEF vars, Inv
<1> QED BY <1>1, <1>2, <1>3, <1>4 DEF Next

LEMMA Invariant == Spec => []Inv
BY InitInv, StepInv, PTL DEF Spec

------------------------------------------------------------------------------
\* select_request finds an engine that supports the request, if there is one.
LEMMA SelectedSupports ==
    ASSUME NEW reg \in Registries, NEW r
    PROVE  /\ Selected(reg, r) = "none" \/
                 \E i \in DOMAIN reg : Selected(reg, r) = reg[i] /\ Supports(reg[i], r)
           /\ (\E i \in DOMAIN reg : Supports(reg[i], r)) => Selected(reg, r) # "none"
<1> DEFINE able == {i \in DOMAIN reg : Supports(reg[i], r)}
<1>1. reg \in Seq(AllEngines)
  BY RegistriesAssumption
<1>2. Selected(reg, r) = IF able = {} THEN "none"
                         ELSE reg[CHOOSE i \in able : \A j \in able : i <= j]
  BY DEF Selected
<1>3. CASE able = {}
  BY <1>2, <1>3
<1>4. CASE able # {}
  <2>1. able \subseteq Nat
    BY <1>1
  <2>2. \E i \in able : \A j \in able : i <= j
    <3>1. PICK i \in able : \A j \in able : <<j, i>> \notin OpToRel(<, Nat)
      <4> HIDE DEF able
      <4> QED BY <1>4, <2>1, WFMin, NatLessThanWellFounded
    <3>2. \A j \in able : ~(j < i)
      <4> HIDE DEF able
      <4> QED BY <2>1, <3>1 DEF OpToRel
    <3> QED BY <2>1, <3>2
  <2>3. (CHOOSE i \in able : \A j \in able : i <= j) \in able
    BY <2>2
  <2>4. \A i \in able : reg[i] \in AllEngines /\ reg[i] # "none"
    BY <1>1 DEF AllEngines
  <2> QED BY <1>2, <1>4, <2>3, <2>4
<1> QED BY <1>3, <1>4

\* At most one engine supports a request with an HDL module.
LEMMA HdlEngine ==
    ASSUME NEW r, HasHdl(r), NEW e \in AllEngines, Supports(e, r)
    PROVE  e = IF r.analysis = "digital" THEN "verilator" ELSE "renode"
BY DEF AllEngines, Supports, NgSpiceSupports, DigitalSupports, XSpiceSupports, MixedSupports,
       VerilatorSupports, RenodeSupports

\* Renode accepts nothing but its microcontroller and outputs.
LEMMA RenodeParts ==
    ASSUME NEW r, RenodeCompiles(r)
    PROVE  \E mcu : /\ mcu.kind = "mcu" /\ PortsAreDistinct(mcu, GpioPin)
                    /\ \A i \in DOMAIN r.circuit.components :
                          \/ r.circuit.components[i] = mcu
                          \/ r.circuit.components[i].kind = "logic_output"
<1>1. PICK mcu \in Mcus(r.circuit) :
         /\ \A i \in DOMAIN r.circuit.components :
               r.circuit.components[i] = mcu \/ r.circuit.components[i].kind = "logic_output"
         /\ PortsAreDistinct(mcu, GpioPin)
  BY DEF RenodeCompiles
<1>2. mcu.kind = "mcu"
  BY DEF Mcus
<1> QED BY <1>1, <1>2

\* What a state with a selected engine knows of it.
LEMMA EngineSupports ==
    ASSUME Inv, stage \in {"selected", "compiled"}
    PROVE  engine \in AllEngines /\ Supports(engine, request)
<1>1. registry \in Registries /\ engine = Selected(registry, request) /\ engine # "none"
  BY DEF Inv
<1>2. \E i \in DOMAIN registry : engine = registry[i] /\ Supports(registry[i], request)
  BY <1>1, SelectedSupports
<1>3. registry \in Seq(AllEngines)
  BY <1>1, RegistriesAssumption
<1> QED BY <1>2, <1>3

\* An HDL module is run by Verilator and by no other engine, and the engine of a
\* request with one is the same for every order of registration (select_request,
\* supports_request of the engines and the compilation of Renode).
THEOREM HdlRouting == Spec => []HdlRoutingIgnoresOrder
<1>1. Inv => HdlRoutingIgnoresOrder
  <2> SUFFICES ASSUME Inv PROVE HdlRoutingIgnoresOrder
    OBVIOUS
  <2>1. ASSUME stage = "compiled" PROVE HasHdl(request) <=> engine = "verilator"
    <3>1. engine \in AllEngines /\ Supports(engine, request) /\ Compiles(engine, request)
      BY <2>1, EngineSupports DEF Inv
    <3>2. engine = "verilator" => HasHdl(request)
      BY <3>1 DEF Supports, VerilatorSupports
    <3>3. engine = "renode" => ~HasHdl(request)
      <4> SUFFICES ASSUME engine = "renode" PROVE ~HasHdl(request)
        OBVIOUS
      <4>1. RenodeCompiles(request)
        BY <3>1 DEF Compiles
      <4>2. \A i \in DOMAIN request.circuit.components :
               request.circuit.components[i].kind \in {"mcu", "logic_output"}
        BY <4>1, RenodeParts
      <4> QED BY <4>2 DEF HasHdl, Kinds
    <3> QED BY <3>1, <3>2, <3>3, HdlEngine
  <2>2. ASSUME stage \in {"selected", "compiled"}, HasHdl(request), NEW reg \in Registries
        PROVE  Selected(reg, request) = engine
    <3>1. engine \in AllEngines /\ Supports(engine, request)
      BY <2>2, EngineSupports
    <3>2. registry \in Registries /\ engine = Selected(registry, request) /\ engine # "none"
      BY <2>2 DEF Inv
    <3>3. PICK i \in DOMAIN registry : engine = registry[i]
      BY <3>2, SelectedSupports
    <3>4. \E j \in DOMAIN reg : reg[j] = engine
      <4>1. {reg[j] : j \in DOMAIN reg} = {registry[j] : j \in DOMAIN registry}
        BY <3>2, RegistriesAssumption
      <4> QED BY <3>3, <4>1
    <3>5. Selected(reg, request) # "none"
      BY <3>1, <3>4, SelectedSupports
    <3>6. PICK k \in DOMAIN reg : Selected(reg, request) = reg[k] /\ Supports(reg[k], request)
      BY <3>5, SelectedSupports
    <3>7. reg[k] \in AllEngines
      BY RegistriesAssumption
    <3> QED BY <2>2, <3>1, <3>6, <3>7, HdlEngine
  <2> QED BY <2>1, <2>2 DEF HdlRoutingIgnoresOrder
<1> QED BY <1>1, Invariant, PTL

------------------------------------------------------------------------------
\* Only Renode runs a microcontroller.
LEMMA McuEngine ==
    ASSUME NEW r, NEW e \in AllEngines, Compiles(e, r),
           NEW i \in DOMAIN r.circuit.components, r.circuit.components[i].kind = "mcu"
    PROVE  e = "renode"
<1> DEFINE part == r.circuit.components[i]
<1>1. "mcu" \notin DOMAIN NamedPins
  BY DEF NamedPins
<1>2. ~AnalogComponentCompiles(r.circuit, part)
  BY <1>1 DEF AnalogComponentCompiles, TwoPinKinds
<1>3. "mcu" \notin DigitalKinds /\ "mcu" \notin XSpiceKinds
  BY DEF DigitalKinds, XSpiceKinds, UnaryGates, BinaryGates, Sequential
<1>4. e # "ngspice"
  BY <1>2 DEF Compiles, NgSpiceCompiles
<1>5. e # "digital" /\ e # "xspice"
  BY <1>3 DEF Compiles, DigitalCompiles, XSpiceCompiles
<1>6. e # "mixed"
  BY <1>2, <1>3 DEF Compiles, MixedCompiles, MixedComponentCompiles
<1>7. e # "verilator"
  BY DEF Compiles, VerilatorCompiles, VerilatorKinds, Kinds
<1> QED BY <1>4, <1>5, <1>6, <1>7 DEF AllEngines

\* No two pins of a module that is run share a port bit, nor two of a microcontroller
\* a GPIO, however their mappings are spelled (compile of Verilator and Renode).
THEOREM PortsOneDriver == Spec => []PortsHaveOneDriver
<1>1. Inv => PortsHaveOneDriver
  <2> SUFFICES ASSUME Inv, stage = "compiled", NEW i \in DOMAIN circuit.components,
                      circuit.components[i].kind \in {"mcu", "hdl_module"}
               PROVE  PortsAreDistinct(circuit.components[i],
                          IF circuit.components[i].kind = "mcu" THEN GpioPin ELSE HdlPort)
    BY DEF PortsHaveOneDriver, PortsAreDistinct, Pairwise
  <2>1. engine \in AllEngines /\ Compiles(engine, request) /\ Supports(engine, request)
    BY EngineSupports DEF Inv
  <2>2. CASE circuit.components[i].kind = "mcu"
    <3>1. engine = "renode"
      BY <2>1, <2>2, McuEngine DEF circuit
    <3>2. RenodeCompiles(request)
      BY <2>1, <3>1 DEF Compiles
    <3> QED BY <2>2, <3>2, RenodeParts DEF circuit
  <2>3. CASE circuit.components[i].kind = "hdl_module"
    <3>1. HasHdl(request)
      BY <2>3 DEF HasHdl, Kinds, circuit
    <3>2. engine = "verilator" \/ engine = "renode"
      BY <2>1, <3>1, HdlEngine
    <3>3. engine # "renode"
      <4> SUFFICES ASSUME engine = "renode" PROVE FALSE
        OBVIOUS
      <4>1. RenodeCompiles(request)
        BY <2>1 DEF Compiles
      <4> QED BY <2>3, <4>1, RenodeParts DEF circuit
    <3>4. VerilatorCompiles(request)
      BY <2>1, <3>2, <3>3 DEF Compiles
    <3> QED BY <2>3, <3>4 DEF VerilatorCompiles, HdlModuleCompiles, circuit
  <2> QED BY <2>2, <2>3
<1> QED BY <1>1, Invariant, PTL

------------------------------------------------------------------------------
(* Nodes follow nets. *)

\* Nets and pins of a request are in vectors, and one that got beyond validation is
\* valid.
Shaped(c) ==
    /\ \E n \in Nat : Indexes(c) = 1 .. n
    /\ \A i \in DOMAIN c.components : \E n \in Nat : DOMAIN c.components[i].pins = 1 .. n
CircuitInv ==
    /\ Inv
    /\ Shaped(circuit)
    /\ stage \in {"valid", "selected", "compiled"} => ValidCircuit(circuit)

LEMMA CircuitInvariant == Spec => []CircuitInv
<1>1. Init => CircuitInv
  <2> SUFFICES ASSUME Init PROVE CircuitInv
    OBVIOUS
  <2>1. PICK board \in Boards : \E ids \in board.ids, twice \in board.twice, probes \in board.probes :
            \E place \in [DOMAIN board.spots -> 0 .. Len(ids)] :
               request = [circuit |-> Wired(board, ids, place, twice),
                          analysis |-> board.analysis, probes |-> probes]
    BY DEF Init
  <2>2. PICK ids \in board.ids : \E twice, place : circuit = Wired(board, ids, place, twice)
    BY <2>1 DEF circuit
  <2>3. circuit.components = board.components /\ DOMAIN circuit.nets = DOMAIN ids
    BY <2>2 DEF Wired
  <2>4. ids \in Seq(STRING)
    BY BoardsAssumption
  <2>5. Len(ids) \in Nat /\ Indexes(circuit) = 1 .. Len(ids)
    BY <2>3, <2>4 DEF Indexes
  <2>6. ASSUME NEW i \in DOMAIN circuit.components
        PROVE  \E n \in Nat : DOMAIN circuit.components[i].pins = 1 .. n
    <3> DEFINE pins == circuit.components[i].pins
               T == [id : STRING, domain : STRING, direction : STRING, map : STRING]
    <3>1. pins \in Seq(T)
      BY <2>3, BoardsAssumption
    <3> HIDE DEF pins, T
    <3>2. Len(pins) \in Nat /\ DOMAIN pins = 1 .. Len(pins)
      BY <3>1
    <3> QED BY <3>2 DEF pins
  <2> QED BY <2>5, <2>6, InitInv DEF CircuitInv, Shaped, Init
<1>2. CircuitInv /\ [Next]_vars => CircuitInv'
  <2> SUFFICES ASSUME CircuitInv, [Next]_vars PROVE CircuitInv'
    OBVIOUS
  <2>1. Inv'
    BY StepInv DEF CircuitInv
  <2>2. circuit' = circuit
    BY DEF Next, Validate, Select, Compile, vars, circuit
  <2>3. stage' \in {"valid", "selected", "compiled"} => ValidCircuit(circuit)
    BY DEF Next, Validate, Select, Compile, vars, CircuitInv
  <2>4. Shaped(circuit)' /\ (ValidCircuit(circuit) => ValidCircuit(circuit)')
    BY <2>2 DEF CircuitInv
  <2> QED BY <2>1, <2>3, <2>4 DEF CircuitInv
<1> QED BY <1>1, <1>2, PTL DEF Spec

\* The written ids of the nets of a valid circuit differ, so that maps keep them all.
LEMMA NetIdsDiffer ==
    ASSUME NEW c, ValidCircuit(c), Shaped(c)
    PROVE  /\ \A n, m \in Indexes(c) : c.nets[n].id = c.nets[m].id => n = m
           /\ \A n \in Indexes(c) : LastNet(c, c.nets[n].id) = n
<1>1. \A n, m \in Indexes(c) : c.nets[n].id = c.nets[m].id => n = m
  BY DEF ValidCircuit, NetsAreValid, Pairwise, Indexes
<1>2. \A n \in Indexes(c) : n <= n
  BY DEF Shaped
<1>3. ASSUME NEW n \in Indexes(c) PROVE LastNet(c, c.nets[n].id) = n
  <2> DEFINE P(k) == c.nets[k].id = c.nets[n].id /\ \A m \in Indexes(c) : c.nets[m].id = c.nets[n].id => m <= k
  <2>1. P(n)
    BY <1>1, <1>2
  <2>2. \A k \in Indexes(c) : P(k) => k = n
    BY <1>1
  <2>3. LastNet(c, c.nets[n].id) = CHOOSE k \in Indexes(c) : P(k)
    BY DEF LastNet
  <2> HIDE DEF P
  <2> QED BY <2>1, <2>2, <2>3
<1> QED BY <1>1, <1>3

\* An endpoint that maps accept is on one net.
NetAt(c, end) == CHOOSE m \in NetsWith(c, end) : TRUE
LEMMA OneNet ==
    ASSUME NEW c, EndsOnOneNet(c), NEW end \in Ends(c)
    PROVE  NetAt(c, end) \in Indexes(c) /\ NetsWith(c, end) = {NetAt(c, end)}
<1>1. NetsWith(c, end) # {} /\ NetsWith(c, end) \subseteq Indexes(c)
  BY DEF NetsWith, Ends
<1>2. \A n, m \in NetsWith(c, end) : n = m
  BY DEF NetsWith, EndsOnOneNet
<1>3. NetAt(c, end) \in NetsWith(c, end)
  BY <1>1 DEF NetAt
<1> QED BY <1>1, <1>2, <1>3

\* The nets that engines name ground are those of the ground pins.
LEMMA OnGround ==
    ASSUME CircuitInv, ValidCircuit(circuit), EndsOnOneNet(circuit), IsGrounded(circuit), engine \in {"ngspice", "mixed"},
           NEW e \in Ends(circuit)
    PROVE  circuit.nets[NetAt(circuit, e)].id \in GroundNets(circuit) <=> Grounded(e)
<1> DEFINE c == circuit
           n == NetAt(c, e)
<1>1. n \in Indexes(c) /\ NetsWith(c, e) = {n}
  BY OneNet
<1>2. \A g \in Grounds(c) : g.pins # <<>>
  BY DEF IsGrounded
<1>3. GroundNets(c) = {c.nets[m].id : m \in UNION {NetsWith(c, <<g.id, g.pins[1].id>>) : g \in Grounds(c)}}
  BY <1>2 DEF GroundNets
<1>4. \A g \in Grounds(c) : NetsWith(c, <<g.id, g.pins[1].id>>) \subseteq Indexes(c)
  BY DEF NetsWith
<1>5. \A m \in Indexes(c) : c.nets[m].id = c.nets[n].id => m = n
  BY <1>1, NetIdsDiffer DEF CircuitInv
<1>6. Grounded(e) <=> \E g \in Grounds(c) : n \in NetsWith(c, <<g.id, g.pins[1].id>>)
  BY <1>1 DEF Grounded, Together
<1> HIDE DEF n, c
<1>7. c.nets[n].id \in GroundNets(c) <=> \E g \in Grounds(c) : n \in NetsWith(c, <<g.id, g.pins[1].id>>)
  BY <1>1, <1>3, <1>4, <1>5
<1> QED BY <1>6, <1>7 DEF n, c

\* The largest of some indexes.
LEMMA LastExists ==
    ASSUME NEW n \in Nat, NEW S \in SUBSET (1 .. n), S # {}
    PROVE  \E k \in S : \A m \in S : m <= k
<1> DEFINE R == {n - k : k \in S}
<1>1. R # {} /\ R \subseteq Nat
  <2>1. \A k \in S : n - k \in Nat
    OBVIOUS
  <2> QED BY <2>1
<1>2. PICK r \in R : \A q \in R : <<q, r>> \notin OpToRel(<, Nat)
  <2> HIDE DEF R
  <2> QED BY <1>1, WFMin, NatLessThanWellFounded
<1>3. \A q \in R : ~(q < r)
  <2> HIDE DEF R
  <2> QED BY <1>1, <1>2 DEF OpToRel
<1>4. PICK k \in S : r = n - k
  OBVIOUS
<1>5. ASSUME NEW m \in S PROVE m <= k
  <2>1. ~(n - m < n - k)
    BY <1>3, <1>4
  <2> QED BY <2>1
<1> QED BY <1>5

\* Two endpoints of a compiled circuit have one node or two, as their nets say.
LEMMA NodeTogether ==
    ASSUME CircuitInv, stage = "compiled", engine # "renode",
           NEW e \in Ends(circuit), NEW f \in Ends(circuit)
    PROVE  Node(e) = Node(f) <=> Together(e, f) \/ (Grounded(e) /\ Grounded(f))
<1> DEFINE c == circuit
           n == NetAt(c, e)
           m == NetAt(c, f)
<1>1. engine \in AllEngines /\ Compiles(engine, request) /\ ValidCircuit(c) /\ Shaped(c)
  BY EngineSupports DEF CircuitInv, Inv
<1>2. EndsOnOneNet(c)
  BY <1>1 DEF AllEngines, Compiles, NgSpiceCompiles, DigitalCompiles, XSpiceCompiles, MixedCompiles,
     VerilatorCompiles, circuit
<1>3. n \in Indexes(c) /\ m \in Indexes(c) /\ (Together(e, f) <=> n = m)
  BY <1>2, OneNet DEF Together
<1>4. (c.nets[n].id = c.nets[m].id => n = m) /\ LastNet(c, c.nets[n].id) = n /\ LastNet(c, c.nets[m].id) = m
  BY <1>1, <1>3, NetIdsDiffer
<1>5. CASE engine \in {"digital", "xspice", "verilator"}
  <2>1. ~Grounded(e)
    BY <1>5 DEF Grounded
  <2>2. CASE engine = "digital"
    <3>1. Node(e) = <<c.nets[n].id, 0>> /\ Node(f) = <<c.nets[m].id, 0>>
      BY <2>2 DEF Node, DigitalNode, NetAt
    <3> QED BY <1>3, <1>4, <2>1, <3>1
  <2>3. CASE engine = "xspice"
    <3>1. Node(e) = <<"d", n>> /\ Node(f) = <<"d", m>>
      BY <1>4, <2>3 DEF Node, XSpiceNode, NetAt
    <3> QED BY <1>3, <2>1, <3>1
  <2>4. CASE engine = "verilator"
    <3>1. Node(e) = <<"ox_n", n>> /\ Node(f) = <<"ox_n", m>>
      BY <2>4 DEF Node, VerilatorNode, NetAt
    <3> QED BY <1>3, <2>1, <3>1
  <2> QED BY <1>5, <2>2, <2>3, <2>4
<1>6. CASE engine \in {"ngspice", "mixed"}
  <2>1. IsGrounded(c)
    BY <1>1, <1>6 DEF Compiles, NgSpiceCompiles, MixedCompiles, circuit
  <2>2. /\ c.nets[n].id \in GroundNets(c) <=> Grounded(e)
        /\ c.nets[m].id \in GroundNets(c) <=> Grounded(f)
    BY <1>1, <1>2, <1>6, <2>1, OnGround
  <2>3. \E x, y \in {"n", "d"} :
           /\ n = m => x = y
           /\ Node(e) = IF Grounded(e) THEN <<"0", 0>> ELSE <<x, n>>
           /\ Node(f) = IF Grounded(f) THEN <<"0", 0>> ELSE <<y, m>>
    <3>1. CASE engine = "ngspice"
      <4>1. /\ Node(e) = IF Grounded(e) THEN <<"0", 0>> ELSE <<"n", n>>
            /\ Node(f) = IF Grounded(f) THEN <<"0", 0>> ELSE <<"n", m>>
        BY <1>4, <2>2, <3>1 DEF Node, NgSpiceNode, NetAt
      <4> QED BY <4>1
    <3>2. CASE engine = "mixed"
      <4> DEFINE side(k) == IF IsDigital(c, c.nets[k].id) THEN "d" ELSE "n"
      <4>1. /\ Node(e) = IF Grounded(e) THEN <<"0", 0>> ELSE <<side(n), n>>
            /\ Node(f) = IF Grounded(f) THEN <<"0", 0>> ELSE <<side(m), m>>
        BY <1>4, <2>2, <3>2 DEF Node, MixedNode, NetAt
      <4>2. \A k : side(k) \in {"n", "d"}
        OBVIOUS
      <4> HIDE DEF side
      <4> QED BY <4>1, <4>2
    <3> QED BY <1>6, <3>1, <3>2
  <2>4. n = m => (Grounded(e) <=> Grounded(f))
    BY <2>2
  <2> HIDE DEF n, m, c
  <2> QED BY <1>3, <2>3, <2>4
<1> QED BY <1>1, <1>5, <1>6 DEF AllEngines

\* What Renode shows for an endpoint is a GPIO on one of its nets.
LEMMA RenodeShows ==
    ASSUME CircuitInv, stage = "compiled", engine = "renode",
           NEW e \in Ends(circuit), NEW mcu \in Mcus(circuit), NEW pin \in PinIds(mcu), Node(e) = <<pin, 0>>
    PROVE  Together(e, <<mcu.id, pin>>)
<1> DEFINE c == circuit
           driven == {n \in NetsWith(c, e) : Gpios(c, n, mcu) # {}}
           last == CHOOSE n \in driven : \A m \in driven : m <= n
<1>1. RenodeCompiles(request) /\ Shaped(c)
  BY EngineSupports DEF CircuitInv, Inv, Compiles
<1>2. \A m \in Mcus(c) : m = mcu
  <2>1. PICK it \in Mcus(c) : \A i \in DOMAIN c.components :
                                 c.components[i] = it \/ c.components[i].kind = "logic_output"
    BY <1>1 DEF RenodeCompiles, circuit
  <2>2. \A m \in Mcus(c) : m = it
    BY <2>1 DEF Mcus
  <2> QED BY <2>2
<1>3. (CHOOSE m \in Mcus(c) : TRUE) = mcu
  BY <1>2
<1>4. Node(e) = IF driven = {} THEN <<"none", 1>> ELSE <<CHOOSE p \in Gpios(c, last, mcu) : TRUE, 0>>
  BY <1>3 DEF Node, RenodeNode
<1>5. driven # {} /\ pin = CHOOSE p \in Gpios(c, last, mcu) : TRUE
  <2> HIDE DEF driven, last
  <2> QED BY <1>4
<1>6. last \in driven
  <2>1. PICK n \in Nat : Indexes(c) = 1 .. n
    BY <1>1 DEF Shaped
  <2>2. driven \in SUBSET (1 .. n)
    BY <2>1 DEF NetsWith
  <2> HIDE DEF driven
  <2> QED BY <1>5, <2>2, LastExists
<1>7. last \in NetsWith(c, e) /\ Gpios(c, last, mcu) # {}
  <2> HIDE DEF last
  <2> QED BY <1>6
<1>8. pin \in Gpios(c, last, mcu)
  <2> HIDE DEF last
  <2> QED BY <1>5, <1>7
<1>9. last \in NetsWith(c, <<mcu.id, pin>>)
  <2> HIDE DEF last
  <2> QED BY <1>8 DEF Gpios
<1> HIDE DEF last
<1> QED BY <1>7, <1>9 DEF Together

\* What any engine solves is the circuit that was submitted, whatever the circuit and
\* the order of the engines: its nodes join two endpoints exactly if a net of the
\* circuit does or both are grounded, although maps of written net ids keep only the
\* last net of an id; validation lets no two nets have one (build_nodes of mixed.rs and
\* of the other engines, build_endpoint_source_map of renode.rs).
THEOREM NodesFollow == Spec => []NodesFollowNets
<1>1. CircuitInv => NodesFollowNets
  BY NodeTogether, RenodeShows DEF NodesFollowNets
<1> QED BY <1>1, CircuitInvariant, PTL

------------------------------------------------------------------------------
(* The domains of a mixed circuit. *)

\* What a pin declares counts for the endpoint written like it.
LEMMA PinDeclares ==
    ASSUME NEW c, ValidCircuit(c), Shaped(c), NEW i \in DOMAIN c.components,
           NEW p \in DOMAIN c.components[i].pins
    PROVE  c.components[i].pins[p].domain \in DeclaredDomains(c, <<c.components[i].id, c.components[i].pins[p].id>>)
<1> DEFINE part == c.components[i]
           same == {q \in DOMAIN part.pins : part.pins[q].id = part.pins[p].id}
<1>1. same = {p}
  <2>1. Pairwise(part.pins, LAMBDA q, o : Trimmed(q.id) # Trimmed(o.id))
    BY DEF ValidCircuit, ComponentsAreValid
  <2> QED BY <2>1 DEF Pairwise
<1>2. p <= p
  BY DEF Shaped
<1>3. p \in {q \in same : \A o \in same : o <= q}
  BY <1>1, <1>2
<1> QED BY <1>3 DEF DeclaredDomains

\* The solver's side of an endpoint is the one that its pin declares.
LEMMA SideOfPin ==
    ASSUME CircuitInv, stage = "compiled", engine = "mixed", NEW i \in DOMAIN circuit.components,
           NEW p \in DOMAIN circuit.components[i].pins,
           <<circuit.components[i].id, circuit.components[i].pins[p].id>> \in Ends(circuit)
    PROVE  LET part == circuit.components[i] IN
           /\ part.pins[p].domain = "digital" => OnEvents(part, part.pins[p].id)
           /\ part.pins[p].domain \in Analogue => ~OnEvents(part, part.pins[p].id)
<1> DEFINE c == circuit
           part == c.components[i]
           end == <<part.id, part.pins[p].id>>
           n == NetAt(c, end)
<1>1. MixedCompiles(request) /\ ValidCircuit(c) /\ Shaped(c)
  BY EngineSupports DEF CircuitInv, Inv, Compiles
<1>2. NetsAreClassified(c) /\ EndsOnOneNet(c) /\ \A id \in GroundNets(c) : ~IsDigital(c, id)
  BY <1>1 DEF MixedCompiles, circuit
<1>3. n \in Indexes(c) /\ NetsWith(c, end) = {n}
  BY <1>2, OneNet
<1>4. PICK k \in DOMAIN c.nets[n].ends : c.nets[n].ends[k] = end
  BY <1>3 DEF NetsWith
<1>5. part.pins[p].domain \in NetDomains(c, n)
  BY <1>1, <1>4, PinDeclares DEF NetDomains
<1>6. IsDigital(c, c.nets[n].id) <=> "digital" \in NetDomains(c, n)
  BY <1>1, <1>3, NetIdsDiffer DEF IsDigital
<1>7. Node(end) = MixedNode(c, n)
  BY DEF Node, NetAt
<1>8. ~("digital" \in NetDomains(c, n) /\ NetDomains(c, n) \cap Analogue # {})
  BY <1>2, <1>3 DEF NetsAreClassified
<1> HIDE DEF n
<1>9. part.pins[p].domain = "digital" => Node(end)[1] = "d"
  BY <1>2, <1>5, <1>6, <1>7 DEF MixedNode
<1>10. part.pins[p].domain \in Analogue => Node(end)[1] # "d"
  BY <1>5, <1>6, <1>7, <1>8 DEF MixedNode
<1> QED BY <1>9, <1>10 DEF OnEvents

\* A pin that a component finds by its id.
LEMMA PinFound ==
    ASSUME NEW c, Shaped(c), ValidCircuit(c), NEW i \in DOMAIN c.components, NEW id, HasPin(c.components[i], id)
    PROVE  \E p \in DOMAIN c.components[i].pins :
              c.components[i].pins[p].id = id /\ Pin(c.components[i], id) = c.components[i].pins[p]
<1> DEFINE pins == c.components[i].pins
<1>1. PICK p \in DOMAIN pins : pins[p].id = id
  BY DEF HasPin
<1>2. \A q \in DOMAIN pins : pins[q].id = id => q = p
  <2>1. Pairwise(pins, LAMBDA q, o : Trimmed(q.id) # Trimmed(o.id))
    BY DEF ValidCircuit, ComponentsAreValid
  <2> QED BY <1>1, <2>1 DEF Pairwise
<1>3. PICK k \in Nat : DOMAIN pins = 1 .. k
  BY DEF Shaped
<1> DEFINE First(q) == pins[q].id = id /\ \A j \in 1 .. q - 1 : pins[j].id # id
<1>4. First(p)
  <2>1. \A j \in 1 .. p - 1 : j \in DOMAIN pins /\ j # p
    BY <1>3
  <2> QED BY <1>1, <1>2, <2>1
<1>5. \A q \in DOMAIN pins : First(q) => q = p
  BY <1>2
<1>6. Pin(c.components[i], id) = pins[CHOOSE q \in DOMAIN pins : First(q)]
  BY DEF Pin
<1> HIDE DEF First
<1>7. (CHOOSE q \in DOMAIN pins : First(q)) = p
  BY <1>4, <1>5
<1> QED BY <1>1, <1>6, <1>7

\* A connected pin with the domain that its component asks for.
LEMMA SideOfFound ==
    ASSUME CircuitInv, stage = "compiled", engine = "mixed", NEW i \in DOMAIN circuit.components,
           NEW id, HasPin(circuit.components[i], id), Connected(circuit, circuit.components[i], {id})
    PROVE  LET part == circuit.components[i] IN
           /\ Pin(part, id).domain = "digital" => OnEvents(part, id)
           /\ Pin(part, id).domain \in Analogue => ~OnEvents(part, id)
<1> DEFINE part == circuit.components[i]
<1>1. ValidCircuit(circuit) /\ Shaped(circuit)
  BY DEF CircuitInv
<1>2. PICK p \in DOMAIN part.pins : part.pins[p].id = id /\ Pin(part, id) = part.pins[p]
  BY <1>1, PinFound
<1>3. <<part.id, part.pins[p].id>> \in Ends(circuit)
  BY <1>2 DEF Connected
<1> QED BY <1>2, <1>3, SideOfPin

\* In every mixed circuit that compiles, the pins of logic are on event nodes, those of
\* a bridge one on each side, and no analogue pin is on an event node (build_nodes and
\* classification of mixed.rs).
THEOREM DomainsMeet == Spec => []DomainsMeetInBridges
<1>1. CircuitInv => DomainsMeetInBridges
  <2> SUFFICES ASSUME CircuitInv, stage = "compiled", engine = "mixed", NEW i \in DOMAIN circuit.components
               PROVE  LET part == circuit.components[i] IN
                      CASE part.kind \in XSpiceKinds  -> \A pin \in Used(part) : OnEvents(part, pin)
                        [] part.kind = "adc_bridge" -> OnEvents(part, "digital_out") /\ ~OnEvents(part, "analog_in")
                        [] part.kind = "dac_bridge" -> OnEvents(part, "digital_in") /\ ~OnEvents(part, "analog_out")
                        [] OTHER -> \A p \in DOMAIN part.pins :
                              part.pins[p].domain \in Analogue /\ <<part.id, part.pins[p].id>> \in Ends(circuit)
                                  => ~OnEvents(part, part.pins[p].id)
    BY DEF DomainsMeetInBridges
  <2> DEFINE part == circuit.components[i]
  <2>1. MixedComponentCompiles(circuit, part)
    <3>1. MixedCompiles(request)
      BY EngineSupports DEF CircuitInv, Inv, Compiles
    <3> QED BY <3>1 DEF MixedCompiles, circuit
  <2>2. "analog" \in Analogue
    BY DEF Analogue
  <2>3. CASE part.kind \in XSpiceKinds
    <3>1. part.kind \notin {"ground", "adc_bridge", "dac_bridge", "subcircuit"} \cup TwoPinKinds \cup DOMAIN NamedPins
      BY <2>3 DEF XSpiceKinds, UnaryGates, BinaryGates, Sequential, TwoPinKinds, NamedPins
    <3>2. XSpiceLogicCompiles(circuit, part)
      BY <2>1, <3>1 DEF MixedComponentCompiles, AnalogComponentCompiles
    <3>3. \A pin \in Used(part) : PinCompiles(circuit, part, pin)
      BY <3>2 DEF XSpiceLogicCompiles, LogicCompiles
    <3>4. \A pin \in Used(part) : OnEvents(part, pin)
      BY <3>3, SideOfFound DEF PinCompiles, PinIs
    <3> QED BY <2>3, <3>1, <3>4
  <2>4. CASE part.kind = "adc_bridge"
    <3>1. BridgeCompiles(circuit, part) /\ part.kind \notin XSpiceKinds
      BY <2>1, <2>4 DEF MixedComponentCompiles, AnalogComponentCompiles, XSpiceKinds, UnaryGates, BinaryGates,
         Sequential, TwoPinKinds, NamedPins
    <3>2. /\ PinIs(part, "analog_in", "analog", "input") /\ PinIs(part, "digital_out", "digital", "output")
          /\ Connected(circuit, part, {"analog_in"}) /\ Connected(circuit, part, {"digital_out"})
      BY <2>4, <3>1 DEF BridgeCompiles, BridgeIsValid, Connected
    <3>3. OnEvents(part, "digital_out") /\ ~OnEvents(part, "analog_in")
      BY <2>2, <3>2, SideOfFound DEF PinIs
    <3> QED BY <2>4, <3>1, <3>3
  <2>5. CASE part.kind = "dac_bridge"
    <3>1. BridgeCompiles(circuit, part) /\ part.kind \notin XSpiceKinds
      BY <2>1, <2>5 DEF MixedComponentCompiles, AnalogComponentCompiles, XSpiceKinds, UnaryGates, BinaryGates,
         Sequential, TwoPinKinds, NamedPins
    <3>2. /\ PinIs(part, "digital_in", "digital", "input") /\ PinIs(part, "analog_out", "analog", "output")
          /\ Connected(circuit, part, {"digital_in"}) /\ Connected(circuit, part, {"analog_out"})
      BY <2>5, <3>1 DEF BridgeCompiles, BridgeIsValid, Connected
    <3>3. OnEvents(part, "digital_in") /\ ~OnEvents(part, "analog_out")
      BY <2>2, <3>2, SideOfFound DEF PinIs
    <3> QED BY <2>5, <3>1, <3>3
  <2>6. CASE part.kind \notin XSpiceKinds \cup {"adc_bridge", "dac_bridge"}
    BY <2>6, SideOfPin
  <2> QED BY <2>3, <2>4, <2>5, <2>6
<1> QED BY <1>1, CircuitInvariant, PTL
=============================================================================
