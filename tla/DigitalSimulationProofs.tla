--------------------- MODULE DigitalSimulationProofs ---------------------
(***************************************************************************)
(* What digital.rs does for every circuit: no clock edge is missed, the    *)
(* combinational components never guess, waveforms and the next event time *)
(* move forward, and changes propagate.                                    *)
(***************************************************************************)
EXTENDS DigitalSimulation, FiniteSetTheorems, SequenceTheorems, WellFoundedInduction, TLAPS

---------------------------------------------------------------------------
(* Clock edges. *)

(* A net has a logic value, whatever the drivers do. *)
NetsOK == nets \in [Nets -> Logic]

(* The inductive form of NoEdgeIsMissed: between the change of a clock net *)
(* and the evaluation, the component waits in affected.                    *)
ClocksFollow ==
  \A c \in Components : Kind[c] \in Clocked =>
    \/ phase = "failed"
    \/ phase = "evaluate" /\ c \in affected
    \/ state[c].clk = ClockIn(c, nets)

LEMMA ResolveLogic == ASSUME NEW vs PROVE Resolve(vs) \in Logic
BY DEF Resolve, Logic

(* What a clocked component stores of its clock when it is evaluated. *)
LEMMA ResultClock ==
  ASSUME NEW c \in Components, Kind[c] \in Clocked PROVE Result(c).clk = ClockIn(c, nets)
BY DEF Result, NextState

(* The clock pin is connected, so a circuit in which no net that the       *)
(* component reads has changed shows it the same level.                    *)
LEMMA ClockPin ==
  ASSUME NEW c \in Components, Kind[c] \in Clocked
  PROVE  /\ "clk" \in DOMAIN In[c] /\ In[c]["clk"] \in Nets
         /\ In[c]["clk"] \in InputNets(c)
BY CircuitAssumption DEF CircuitAssumption, InputNets

LEMMA SameClock ==
  ASSUME NEW c \in Components, Kind[c] \in Clocked, NEW before, NEW after,
         \A n \in InputNets(c) : after[n] = before[n]
  PROVE  ClockIn(c, after) = ClockIn(c, before)
<1>1. after[In[c]["clk"]] = before[In[c]["clk"]]
  BY ClockPin
<1> QED
  BY <1>1, ClockPin DEF ClockIn, Input

LEMMA ClocksInit == Init => NetsOK /\ ClocksFollow
<1> SUFFICES ASSUME Init PROVE NetsOK /\ ClocksFollow
  OBVIOUS
<1>1. nets = [n \in Nets |-> "X"] /\ state = [c \in Components |-> InitialState(c)]
  BY DEF Init, Nothing
<1>2. NetsOK
  BY <1>1 DEF NetsOK, Logic
<1>3. ASSUME NEW c \in Components, Kind[c] \in Clocked PROVE state[c].clk = ClockIn(c, nets)
  <2>1. state[c].clk = "X"
    BY <1>1 DEF InitialState
  <2>2. ClockIn(c, nets) = "X"
    BY <1>1, <1>3, ClockPin DEF ClockIn, Input, Buffer, Known
  <2> QED
    BY <2>1, <2>2
<1> QED
  BY <1>2, <1>3 DEF ClocksFollow

LEMMA ClocksWrite ==
  ASSUME NetsOK, ClocksFollow, NEW n \in External, NEW v \in Logic, Write(n, v)
  PROVE  NetsOK' /\ ClocksFollow'
<1>1. nets' = [nets EXCEPT ![n] = v] /\ affected' = Dependents(n)
      /\ phase = "idle" /\ phase' = "evaluate" /\ state' = state
  BY DEF Write
<1>2. NetsOK'
  BY <1>1 DEF NetsOK
<1>3. ASSUME NEW c \in Components, Kind[c] \in Clocked, c \notin affected'
      PROVE  state'[c].clk = ClockIn(c, nets')
  <2>1. n \notin InputNets(c)
    BY <1>1, <1>3 DEF Dependents
  <2>2. nets'[In[c]["clk"]] = nets[In[c]["clk"]]
    BY <1>1, <1>3, <2>1, ClockPin DEF NetsOK
  <2>3. ClockIn(c, nets') = ClockIn(c, nets)
    BY <1>3, <2>2, ClockPin DEF ClockIn, Input
  <2> QED
    BY <1>1, <1>3, <2>3 DEF ClocksFollow
<1> QED
  BY <1>1, <1>2, <1>3 DEF ClocksFollow

LEMMA ClocksBucket ==
  ASSUME NetsOK, ClocksFollow, Bucket PROVE NetsOK' /\ ClocksFollow'
<1>1. PICK t \in Heads :
        /\ nets' = NewNets(t)
        /\ affected' = {c \in Components : \E n \in InputNets(c) : NewNets(t)[n] # nets[n]}
        /\ phase' \in {"failed", "evaluate"}
  BY DEF Bucket
<1>2. phase = "process" /\ state' = state
  BY DEF Bucket
<1>3. NetsOK'
  BY <1>1, ResolveLogic DEF NetsOK, NewNets
<1>4. ASSUME NEW c \in Components, Kind[c] \in Clocked, c \notin affected'
      PROVE  state'[c].clk = ClockIn(c, nets')
  <2>1. \A n \in InputNets(c) : nets'[n] = nets[n]
    BY <1>1, <1>4
  <2>2. ClockIn(c, nets') = ClockIn(c, nets)
    BY <1>4, <2>1, SameClock
  <2> QED
    BY <1>2, <1>4, <2>2 DEF ClocksFollow
<1> QED
  BY <1>1, <1>3, <1>4 DEF ClocksFollow

LEMMA ClocksEvaluate ==
  ASSUME NetsOK, ClocksFollow, Evaluate PROVE NetsOK' /\ ClocksFollow'
<1>1. phase = "evaluate" /\ nets' = nets
      /\ state' = [c \in Components |-> IF c \in Evaluated THEN Result(c) ELSE state[c]]
  BY DEF Evaluate, EvaluateAll
<1>2. ASSUME NEW c \in Components, Kind[c] \in Clocked PROVE state'[c].clk = ClockIn(c, nets')
  <2>1. CASE c \in affected
    <3>1. c \in Evaluated
      BY <1>2, <2>1 DEF Evaluated, Sequential
    <3> QED
      BY <1>1, <1>2, <3>1, ResultClock
  <2>2. CASE c \notin affected
    <3>1. c \notin Evaluated
      BY <2>2 DEF Evaluated
    <3>2. state[c].clk = ClockIn(c, nets)
      BY <1>1, <1>2, <2>2 DEF ClocksFollow
    <3> QED
      BY <1>1, <3>1, <3>2
  <2> QED
    BY <2>1, <2>2
<1> QED
  BY <1>1, <1>2 DEF NetsOK, ClocksFollow

(* The other steps leave nets and states alone, and start where nobody     *)
(* waits or end the run.                                                   *)
LEMMA ClocksOther ==
  ASSUME NetsOK, ClocksFollow,
         Run \/ Initialize \/ (\E t \in 1 .. Stop : Advance(t)) \/ Finish \/ Interrupt
  PROVE  NetsOK' /\ ClocksFollow'
<1>1. nets' = nets /\ state' = state
  BY DEF Run, Initialize, Begin, Advance, Finish, Interrupt, circuitVars
<1>2. phase \in {"idle", "process"} \/ phase' = "failed"
  BY DEF Run, Initialize, Begin, Advance, Finish, Interrupt
<1> QED
  BY <1>1, <1>2 DEF NetsOK, ClocksFollow

(* No flip-flop, register or counter of any circuit sees an edge twice or  *)
(* misses one: whenever an operation looks for its next event, the level   *)
(* that each compares with is that of its clock net (digital.rs:275).      *)
THEOREM NoEdgeIsMissedAlways == Spec => []NoEdgeIsMissed
<1>1. Init => NetsOK /\ ClocksFollow
  BY ClocksInit
<1>2. NetsOK /\ ClocksFollow /\ [Next]_vars => (NetsOK /\ ClocksFollow)'
  <2> SUFFICES ASSUME NetsOK, ClocksFollow, [Next]_vars PROVE (NetsOK /\ ClocksFollow)'
    OBVIOUS
  <2>1. CASE \E n \in External, v \in Logic : Write(n, v)
    BY <2>1, ClocksWrite
  <2>2. CASE Bucket
    BY <2>2, ClocksBucket
  <2>3. CASE Evaluate
    BY <2>3, ClocksEvaluate
  <2>4. CASE Run \/ Initialize \/ (\E t \in 1 .. Stop : Advance(t)) \/ Finish \/ Interrupt
    BY <2>4, ClocksOther
  <2>5. CASE UNCHANGED vars
    BY <2>5 DEF vars, NetsOK, ClocksFollow
  <2> QED
    BY <2>1, <2>2, <2>3, <2>4, <2>5 DEF Next, Operation
<1>3. NetsOK /\ ClocksFollow => NoEdgeIsMissed
  BY DEF ClocksFollow, NoEdgeIsMissed
<1> QED
  BY <1>1, <1>2, <1>3, PTL DEF Spec

---------------------------------------------------------------------------
(* Unknown values. *)

(* What a component knows of an input or promises of an output: X is less  *)
(* than any value.                                                         *)
Below(v, w) == v = "X" \/ v = w
KnownBelow(v, w) == v \in Logic /\ w \in Logic /\ Below(Buffer(v), Buffer(w))

LEMMA InputBelow ==
  ASSUME NEW c \in Components, NEW less \in [Nets -> Logic], NEW more \in [Nets -> Logic],
         \A n \in Nets : KnownBelow(less[n], more[n]), NEW pin
  PROVE  KnownBelow(Input(c, pin, less), Input(c, pin, more))
<1>1. CASE pin \in DOMAIN In[c]
  <2>1. In[c][pin] \in Nets
    BY <1>1, CircuitAssumption DEF CircuitAssumption
  <2> QED
    BY <1>1, <2>1 DEF Input
<1>2. CASE pin \notin DOMAIN In[c]
  BY <1>2 DEF Input, KnownBelow, Below, Logic
<1> QED
  BY <1>1, <1>2

LEMMA BufferBelow ==
  ASSUME NEW a, NEW v, KnownBelow(a, v)
  PROVE  Below(Buffer(a), Buffer(v)) /\ Below(Not(Buffer(a)), Not(Buffer(v)))
BY DEF KnownBelow, Below, Buffer, Known, Logic, Not

LEMMA GatesBelow ==
  ASSUME NEW a, NEW b, NEW v, NEW w, KnownBelow(a, v), KnownBelow(b, w)
  PROVE  /\ Below(And(a, b), And(v, w)) /\ Below(Or(a, b), Or(v, w)) /\ Below(Xor(a, b), Xor(v, w))
         /\ Below(Not(And(a, b)), Not(And(v, w))) /\ Below(Not(Or(a, b)), Not(Or(v, w)))
         /\ Below(Not(Xor(a, b)), Not(Xor(v, w)))
<1> USE DEF KnownBelow, Below, Buffer, Known, Logic
<1>1. Below(And(a, b), And(v, w)) /\ Below(Not(And(a, b)), Not(And(v, w)))
  BY DEF And, Not
<1>2. Below(Or(a, b), Or(v, w)) /\ Below(Not(Or(a, b)), Not(Or(v, w)))
  BY DEF Or, Not
<1>3. Below(Xor(a, b), Xor(v, w)) /\ Below(Not(Xor(a, b)), Not(Xor(v, w)))
  BY DEF Xor, Not
<1> QED
  BY <1>1, <1>2, <1>3

(* The combinational components never guess: what one drives with inputs   *)
(* that are unknown or released is X or what it drives whatever known      *)
(* values they get, so a known output of a circuit that is not yet         *)
(* initialised does not change when it is (digital.rs:163).                *)
THEOREM CombinationalNeverGuesses ==
  ASSUME NEW c \in Components, Kind[c] \in Combinational,
         NEW less \in [Nets -> Logic], NEW more \in [Nets -> Logic],
         \A n \in Nets : KnownBelow(less[n], more[n])
  PROVE  /\ DOMAIN Driven(c, less) = DOMAIN Driven(c, more)
         /\ \A i \in DOMAIN Driven(c, less) : Below(Driven(c, less)[i], Driven(c, more)[i])
<1>1. \A pin : KnownBelow(Input(c, pin, less), Input(c, pin, more))
  BY InputBelow
<1>2. CASE Kind[c] \in {"buffer", "not_gate"}
  <2>1. KnownBelow(Input(c, "in", less), Input(c, "in", more))
    BY <1>1
  <2>2. CASE Kind[c] = "buffer"
    BY <2>1, <2>2, BufferBelow DEF Driven
  <2>3. CASE Kind[c] = "not_gate"
    BY <2>1, <2>3, BufferBelow DEF Driven
  <2> QED
    BY <1>2, <2>2, <2>3
<1>3. CASE Kind[c] \in {"and_gate", "or_gate", "xor_gate", "nand_gate", "nor_gate", "xnor_gate"}
  <2>1. /\ KnownBelow(Input(c, "a", less), Input(c, "a", more))
        /\ KnownBelow(Input(c, "b", less), Input(c, "b", more))
    BY <1>1
  <2>2. CASE Kind[c] \in {"and_gate", "nand_gate"}
    BY <2>1, <2>2, GatesBelow DEF Driven
  <2>3. CASE Kind[c] \in {"or_gate", "nor_gate"}
    BY <2>1, <2>3, GatesBelow DEF Driven
  <2>4. CASE Kind[c] \in {"xor_gate", "xnor_gate"}
    BY <2>1, <2>4, GatesBelow DEF Driven
  <2> QED
    BY <1>3, <2>2, <2>3, <2>4
<1>4. CASE Kind[c] = "tri_state_buffer"
  <2>1. /\ KnownBelow(Input(c, "in", less), Input(c, "in", more))
        /\ KnownBelow(Input(c, "enable", less), Input(c, "enable", more))
    BY <1>1
  <2> QED
    BY <1>4, <2>1 DEF Driven, KnownBelow, Below, Buffer, Known, Logic
<1>5. CASE Kind[c] = "mux2"
  <2>1. /\ KnownBelow(Input(c, "a", less), Input(c, "a", more))
        /\ KnownBelow(Input(c, "b", less), Input(c, "b", more))
        /\ KnownBelow(Input(c, "sel", less), Input(c, "sel", more))
    BY <1>1
  <2> QED
    BY <1>5, <2>1 DEF Driven, KnownBelow, Below, Buffer, Known, Logic
<1>6. CASE Kind[c] = "demux2"
  <2>1. /\ KnownBelow(Input(c, "in", less), Input(c, "in", more))
        /\ KnownBelow(Input(c, "sel", less), Input(c, "sel", more))
    BY <1>1
  <2> QED
    BY <1>6, <2>1 DEF Driven, KnownBelow, Below, Buffer, Known, Logic
<1>7. CASE Kind[c] = "decoder2_to_4"
  <2>1. /\ KnownBelow(Input(c, "a", less), Input(c, "a", more))
        /\ KnownBelow(Input(c, "b", less), Input(c, "b", more))
        /\ KnownBelow(Input(c, "enable", less), Input(c, "enable", more))
    BY <1>1
  <2>2. DOMAIN Driven(c, less) = 1 .. 4 /\ DOMAIN Driven(c, more) = 1 .. 4
    BY <1>7 DEF Driven
  <2> QED
    BY <1>7, <2>1, <2>2 DEF Driven, KnownBelow, Below, Buffer, Known, Logic
<1> QED
  BY <1>2, <1>3, <1>4, <1>5, <1>6, <1>7 DEF Combinational

---------------------------------------------------------------------------
(* Queues. *)

Pending == [time : 0 .. Stop, value : Logic]
InOrder(q) == \A i, j \in DOMAIN q : i <= j => q[i].time <= q[j].time

(* A set of indices that contains, with an index, all smaller ones, is an  *)
(* interval, and its cardinality tells its end.                            *)
LEMMA LowerIndices ==
  ASSUME NEW a \in Nat, NEW n \in Nat, NEW I \in SUBSET (a .. a + n - 1),
         \A i \in I, j \in a .. a + n - 1 : j <= i => j \in I
  PROVE  I = a .. a + Cardinality(I) - 1 /\ Cardinality(I) \in 0 .. n
<1>1. \E m \in 0 .. n : I = a .. a + m - 1
  <2>1. CASE I = a .. a + n - 1
    BY <2>1
  <2>2. CASE I # a .. a + n - 1
    <3> DEFINE R == (a .. a + n - 1) \ I
    <3>1. \E k \in a .. a + n - 1 : k \notin I
      BY <2>2, Zenon
    <3>2. R # {} /\ R \subseteq Nat
      BY <3>1
    <3> HIDE DEF R
    <3>3. PICK k \in R : \A j \in R : <<j, k>> \notin OpToRel(<, Nat)
      BY <3>2, NatLessThanWellFounded, WFMin, Zenon
    <3>4. \A j \in R : ~(j < k)
      BY <3>2, <3>3, Zenon DEF OpToRel
    <3> USE DEF R
    <3>5. \A j \in a .. a + n - 1 : j \in I <=> j < k
      BY <3>4
    <3>6. k \in a .. a + n - 1 /\ k - a \in 0 .. n /\ a + (k - a) - 1 = k - 1
      OBVIOUS
    <3>7. \A j : j \in a .. a + n - 1 /\ j < k <=> j \in a .. k - 1
      BY <3>6
    <3>8. I = a .. k - 1
      BY <3>5, <3>7, Zenon
    <3> QED
      BY <3>6, <3>8
  <2> QED
    BY <2>1, <2>2
<1>2. PICK m \in 0 .. n : I = a .. a + m - 1
  BY <1>1
<1>3. Cardinality(a .. a + m - 1) = m
  BY FS_Interval
<1> QED
  BY <1>2, <1>3

\* Events have times up to the stop time.
LEMMA PendingTimes ==
  /\ \A e \in Pending : e.time \in Nat /\ e.time <= Stop
  /\ \A q \in Seq(Pending) :
       /\ DOMAIN q = 1 .. Len(q) /\ Len(q) \in Nat
       /\ \A i \in DOMAIN q : q[i] \in Pending /\ q[i].time \in Nat /\ q[i].time <= Stop
<1>1. \A e \in Pending : e.time \in Nat /\ e.time <= Stop
  <2>1. \A e \in Pending : e.time \in 0 .. Stop
    BY DEF Pending
  <2> QED
    BY <2>1, TimeAssumption DEF TimeAssumption
<1>2. \A q \in Seq(Pending) :
        /\ DOMAIN q = 1 .. Len(q) /\ Len(q) \in Nat
        /\ \A i \in DOMAIN q : q[i] \in Pending
  OBVIOUS
<1> QED
  BY <1>1, <1>2

(* The events of a queue in order that are not later than t come first. *)
LEMMA NotLater ==
  ASSUME NEW q \in Seq(Pending), InOrder(q), NEW t \in Nat
  PROVE  LET I == {i \in DOMAIN q : q[i].time <= t} IN
         /\ Cardinality(I) \in 0 .. Len(q)
         /\ \A i \in DOMAIN q : i <= Cardinality(I) <=> q[i].time <= t
<1> DEFINE I == {i \in DOMAIN q : q[i].time <= t}
<1>1. DOMAIN q = 1 .. Len(q) /\ Len(q) \in Nat /\ \A i \in DOMAIN q : q[i].time \in Nat
  BY PendingTimes
<1> DEFINE L == Len(q)
<1>2. I \in SUBSET (1 .. L) /\ \A i \in I, j \in 1 .. L : j <= i => j \in I
  BY <1>1 DEF InOrder
<1>3. L \in Nat /\ \A i : i \in DOMAIN q <=> i \in 1 .. L
  BY <1>1
<1> HIDE DEF L, I
<1>4. 1 + L - 1 = L
  BY <1>3
<1>5. I = 1 .. 1 + Cardinality(I) - 1 /\ Cardinality(I) \in 0 .. L
  BY <1>2, <1>3, <1>4, LowerIndices
<1>6. \A i \in DOMAIN q : i <= Cardinality(I) <=> i \in I
  BY <1>3, <1>5
<1> QED
  BY <1>1, <1>5, <1>6 DEF I, L

(* Insert puts an event into its place, the last one if no other is later. *)
LEMMA InsertInOrder ==
  ASSUME NEW q \in Seq(Pending), InOrder(q), NEW e \in Pending
  PROVE  LET r == Insert(q, e) IN
         /\ r \in Seq(Pending) /\ InOrder(r) /\ Len(r) = Len(q) + 1
         /\ \A i \in DOMAIN r : r[i] = e \/ \E j \in DOMAIN q : r[i] = q[j]
         /\ (\A i \in DOMAIN q : q[i].time <= e.time) => r[Len(r)] = e
<1> DEFINE n == Cardinality({i \in DOMAIN q : q[i].time <= e.time})
           before == SubSeq(q, 1, n)
           after == SubSeq(q, n + 1, Len(q))
           r == Insert(q, e)
<1>1. e.time \in Nat /\ \A i \in DOMAIN q : q[i] \in Pending /\ q[i].time \in Nat
  BY PendingTimes
<1>2. n \in 0 .. Len(q) /\ \A i \in DOMAIN q : i <= n <=> q[i].time <= e.time
  BY <1>1, NotLater
<1>3. r = (before \o <<e>>) \o after
  BY DEF Insert
<1> HIDE DEF n
<1>4. Len(q) \in Nat /\ n \in Nat /\ n <= Len(q)
  BY <1>2, LenProperties
<1>5. \A i : i \in DOMAIN q <=> i \in 1 .. Len(q)
  BY LenProperties
<1>6. /\ before \in Seq(Pending) /\ Len(before) = n
      /\ \A i \in 1 .. n : before[i] = q[i]
  <2>1. \A i \in 1 .. n : q[i] \in Pending
    BY <1>5, <1>1, <1>2, <1>4
  <2> QED
    BY <1>2, <1>4, <2>1, SubSeqProperties
<1>7. /\ after \in Seq(Pending) /\ Len(after) = Len(q) - n
      /\ \A i \in 1 .. Len(q) - n : after[i] = q[n + i]
  <2>1. \A i \in n + 1 .. Len(q) : q[i] \in Pending
    BY <1>5, <1>1, <1>2, <1>4
  <2>2. /\ after \in Seq(Pending)
        /\ Len(after) = IF n + 1 <= Len(q) THEN Len(q) - (n + 1) + 1 ELSE 0
        /\ \A i \in 1 .. Len(q) - (n + 1) + 1 : after[i] = q[n + 1 + i - 1]
    BY <1>4, <2>1, SubSeqProperties
  <2>3. n <= Len(q) /\ 0 <= n
    BY <1>2, <1>4
  <2>4. Len(after) = Len(q) - n
    BY <1>4, <2>2, <2>3
  <2>5. \A i \in 1 .. Len(q) - n : n + 1 + i - 1 = n + i /\ i \in 1 .. Len(q) - (n + 1) + 1
    BY <1>5, <1>4
  <2> QED
    BY <2>2, <2>4, <2>5
<1> DEFINE front == before \o <<e>>
<1> HIDE DEF before, after, r
<1>8. /\ front \in Seq(Pending) /\ Len(front) = n + 1
      /\ \A i \in 1 .. n : front[i] = q[i]
      /\ front[n + 1] = e
  <2>1. <<e>> \in Seq(Pending) /\ Len(<<e>>) = 1 /\ <<e>>[1] = e
    OBVIOUS
  <2>2. /\ front \in Seq(Pending) /\ Len(front) = n + 1
        /\ \A i \in 1 .. n + 1 : front[i] = IF i <= n THEN before[i] ELSE <<e>>[i - n]
    BY <1>4, <1>6, <2>1, ConcatProperties
  <2>3. n + 1 \in 1 .. n + 1 /\ ~(n + 1 <= n) /\ n + 1 - n = 1
    BY <1>4
  <2>4. \A i \in 1 .. n : i \in 1 .. n + 1 /\ i <= n
    BY <1>4
  <2> QED
    BY <1>6, <2>1, <2>2, <2>3, <2>4
<1> HIDE DEF front
<1>9. /\ r \in Seq(Pending) /\ Len(r) = Len(q) + 1
      /\ \A i \in 1 .. n : r[i] = q[i]
      /\ r[n + 1] = e
      /\ \A i \in n + 1 .. Len(q) : r[i + 1] = q[i]
  <2>1. /\ r \in Seq(Pending) /\ Len(r) = Len(front) + Len(after)
        /\ \A i \in 1 .. Len(front) + Len(after) :
             r[i] = IF i <= Len(front) THEN front[i] ELSE after[i - Len(front)]
    <3>1. r = front \o after
      BY <1>3 DEF front
    <3> QED
      BY <1>7, <1>8, <3>1, ConcatProperties
  <2>2. Len(front) = n + 1 /\ Len(front) + Len(after) = Len(q) + 1
    BY <1>4, <1>7, <1>8
  <2>3. \A i \in 1 .. n + 1 : i \in 1 .. Len(q) + 1 /\ i <= n + 1
    BY <1>4
  <2>4. \A i \in n + 1 .. Len(q) :
          /\ i + 1 \in 1 .. Len(q) + 1 /\ ~(i + 1 <= n + 1)
          /\ i + 1 - (n + 1) \in 1 .. Len(q) - n /\ n + (i + 1 - (n + 1)) = i
    BY <1>4
  <2>5. ASSUME NEW i \in n + 1 .. Len(q) PROVE r[i + 1] = q[i]
    <3> DEFINE k == i + 1 - (n + 1)
    <3>1. r[i + 1] = after[k]
      BY <2>1, <2>2, <2>4
    <3>2. k \in 1 .. Len(q) - n /\ n + k = i
      BY <2>4
    <3> QED
      BY <1>7, <3>1, <3>2
  <2>6. \A i \in 1 .. n : i \in 1 .. n + 1
    BY <1>4
  <2>7. n + 1 \in 1 .. n + 1
    BY <1>4
  <2>8. \A i \in 1 .. n + 1 : r[i] = front[i]
    BY <2>1, <2>2, <2>3
  <2> QED
    BY <1>8, <2>1, <2>2, <2>5, <2>6, <2>7, <2>8
<1>10. \A i : i \in DOMAIN r <=> i \in 1 .. Len(q) + 1
  BY <1>9, LenProperties
<1>11. \A i \in 1 .. Len(q) + 1 :
         \/ i \in 1 .. n
         \/ i = n + 1
         \/ i - 1 \in n + 1 .. Len(q) /\ i = i - 1 + 1
  BY <1>4
<1>12. \A i \in 1 .. Len(q) + 1 :
         \/ i \in 1 .. n /\ r[i] = q[i]
         \/ i = n + 1 /\ r[i] = e
         \/ i - 1 \in n + 1 .. Len(q) /\ r[i] = q[i - 1]
  BY <1>9, <1>11
<1>13. InOrder(r)
  <2> SUFFICES ASSUME NEW i \in 1 .. Len(q) + 1, NEW j \in 1 .. Len(q) + 1, i <= j
               PROVE  r[i].time <= r[j].time
    BY <1>10 DEF InOrder
  <2>1. \A k, l : (k \in 1 .. Len(q) /\ l \in 1 .. Len(q) /\ k <= l) => q[k].time <= q[l].time
    BY <1>5 DEF InOrder
  <2>2. \A k \in 1 .. n : k \in 1 .. Len(q) /\ q[k].time <= e.time
    BY <1>5, <1>2, <1>4
  <2>3. \A k \in n + 1 .. Len(q) : k \in 1 .. Len(q) /\ e.time <= q[k].time
    <3> SUFFICES ASSUME NEW k \in n + 1 .. Len(q) PROVE k \in 1 .. Len(q) /\ e.time <= q[k].time
      OBVIOUS
    <3>1. k \in 1 .. Len(q) /\ ~(k <= n)
      BY <1>4
    <3>2. ~(q[k].time <= e.time) /\ q[k].time \in Nat /\ e.time \in Nat
      BY <1>5, <1>1, <1>2, <3>1
    <3> QED
      BY <3>1, <3>2
  <2>4. CASE i \in 1 .. n /\ r[i] = q[i]
    <3>1. CASE j \in 1 .. n /\ r[j] = q[j]
      BY <2>1, <2>2, <2>4, <3>1
    <3>2. CASE j = n + 1 /\ r[j] = e
      BY <2>2, <2>4, <3>2
    <3>3. CASE j - 1 \in n + 1 .. Len(q) /\ r[j] = q[j - 1]
      <4>1. i <= j - 1
        BY <1>4, <2>4, <3>3
      <4> QED
        BY <2>1, <2>2, <2>3, <2>4, <3>3, <4>1
    <3> QED
      BY <1>12, <3>1, <3>2, <3>3
  <2>5. CASE i = n + 1 /\ r[i] = e
    <3>1. CASE j = n + 1 /\ r[j] = e
      BY <1>1, <2>5, <3>1
    <3>2. CASE j - 1 \in n + 1 .. Len(q) /\ r[j] = q[j - 1]
      BY <2>3, <2>5, <3>2
    <3> QED
      BY <1>4, <1>12, <2>5, <3>1, <3>2
  <2>6. CASE i - 1 \in n + 1 .. Len(q) /\ r[i] = q[i - 1]
    <3>1. j - 1 \in n + 1 .. Len(q) /\ r[j] = q[j - 1]
      BY <1>4, <1>12, <2>6
    <3>2. i - 1 <= j - 1
      BY <1>4
    <3> QED
      BY <2>1, <2>3, <2>6, <3>1, <3>2
  <2> QED
    BY <1>12, <2>4, <2>5, <2>6
<1>14. \A i \in DOMAIN r : r[i] = e \/ \E j \in DOMAIN q : r[i] = q[j]
  <2>1. \A i \in 1 .. n : i \in DOMAIN q
    BY <1>5, <1>4
  <2>2. \A i \in n + 1 .. Len(q) : i \in DOMAIN q
    BY <1>5, <1>4
  <2> QED
    BY <1>10, <1>12, <2>1, <2>2
<1>15. ASSUME \A i \in DOMAIN q : q[i].time <= e.time
       PROVE  r[Len(r)] = e
  <2>1. n = Len(q)
    <3>1. Len(q) > 0 => Len(q) \in DOMAIN q
      BY <1>5, <1>4
    <3>2. Len(q) > 0 => Len(q) <= n
      BY <1>2, <1>15, <3>1
    <3>3. n \in Int /\ 0 <= n /\ n <= Len(q)
      BY <1>2, <1>4
    <3> QED
      BY <1>4, <3>2, <3>3
  <2> QED
    BY <1>4, <1>9, <2>1
<1> QED
  BY <1>9, <1>13, <1>14, <1>15 DEF r

---------------------------------------------------------------------------
(* Values. *)

\* A component with state has bits, a register or counter as many as outputs.
BitsOK(c, bits) ==
  bits \in Seq(Logic) \ {<<>>} /\ (Kind[c] \in Vectors => Len(bits) = Len(Initial[c]))

\* The operators of LogicValue.
LEMMA GatesLogic ==
  \A v, w : /\ Buffer(v) \in Logic /\ Not(v) \in Logic
            /\ And(v, w) \in Logic /\ Or(v, w) \in Logic /\ Xor(v, w) \in Logic
BY DEF Buffer, Known, Not, And, Or, Xor, Logic

LEMMA InputLogic ==
  ASSUME NEW c \in Components, NEW m \in [Nets -> Logic], NEW pin
  PROVE  Input(c, pin, m) \in Logic
<1>1. pin \in DOMAIN In[c] => In[c][pin] \in Nets
  BY CircuitAssumption DEF CircuitAssumption
<1> QED
  BY <1>1 DEF Input, Logic

\* A driver is one of the output pins of its component.
LEMMA OutputIndices ==
  ASSUME NEW d \in Drivers
  PROVE  /\ d[1] \in Components /\ d[2] \in 1 .. 64 /\ d[2] \in DOMAIN Out[d[1]]
         /\ d[2] <= OutputPins(d[1]) /\ NetOf(d) \in Nets \ External
<1>1. d[1] \in Components /\ d[2] \in 1 .. 64 /\ d[2] \in DOMAIN Out[d[1]]
  BY DEF Drivers
<1>2. Out[d[1]] \in Seq(Nets \ External)
  BY <1>1, CircuitAssumption DEF CircuitAssumption
<1>3. d[2] \in 1 .. Len(Out[d[1]]) /\ NetOf(d) \in Nets \ External
  BY <1>1, <1>2 DEF NetOf
<1>4. Len(Out[d[1]]) <= OutputPins(d[1])
  BY <1>1, PinsAssumption DEF PinsAssumption
<1>5. OutputPins(d[1]) \in Int
  <2>1. Kind[d[1]] \in Vectors => Initial[d[1]] \in Seq(Logic)
    BY <1>1, PinsAssumption DEF PinsAssumption, Sequential, Clocked
  <2> QED
    BY <2>1 DEF OutputPins
<1> QED
  BY <1>1, <1>2, <1>3, <1>4, <1>5

\* A component without state has a value for each of its outputs,
LEMMA DrivenBits ==
  ASSUME NEW c \in Components, Kind[c] \in Combinational, NEW m \in [Nets -> Logic],
         NEW i \in 1 .. 64, i <= OutputPins(c)
  PROVE  Driven(c, m)[i] \in Logic
<1> USE DEF Vectors, Latches, FlipFlops
<1>1. \A pin : Input(c, pin, m) \in Logic
  BY InputLogic
<1>2. CASE Kind[c] \in {"buffer", "not_gate"}
  <2>1. OutputPins(c) = 1
    BY <1>2 DEF OutputPins
  <2>2. i = 1
    BY <2>1
  <2> QED
    BY <1>2, <2>2, GatesLogic DEF Driven
<1>3. CASE Kind[c] \in {"and_gate", "or_gate", "xor_gate", "nand_gate", "nor_gate", "xnor_gate"}
  <2>1. OutputPins(c) = 1
    BY <1>3 DEF OutputPins
  <2>2. i = 1
    BY <2>1
  <2> QED
    BY <1>3, <2>2, GatesLogic DEF Driven
<1>4. CASE Kind[c] \in {"tri_state_buffer", "mux2"}
  <2>1. OutputPins(c) = 1
    BY <1>4 DEF OutputPins
  <2>2. i = 1
    BY <2>1
  <2> QED
    BY <1>4, <2>2, GatesLogic DEF Driven, Logic
<1>5. CASE Kind[c] = "demux2"
  <2>1. OutputPins(c) = 2
    BY <1>5 DEF OutputPins
  <2>2. i \in {1, 2}
    BY <2>1
  <2> QED
    BY <1>5, <2>2, GatesLogic DEF Driven, Logic
<1>6. CASE Kind[c] = "decoder2_to_4"
  <2>1. OutputPins(c) = 4
    BY <1>6 DEF OutputPins
  <2>2. i \in 1 .. 4
    BY <2>1
  <2> QED
    BY <1>6, <2>2 DEF Driven, Logic
<1> QED
  BY <1>2, <1>3, <1>4, <1>5, <1>6 DEF Combinational

\* and so has one with state.
LEMMA StateBits ==
  ASSUME NEW c \in Components, Kind[c] \in Sequential, NEW s, BitsOK(c, s.bits),
         NEW i \in 1 .. 64, i <= OutputPins(c)
  PROVE  StateOutputs(c, s)[i] \in Logic
<1>1. CASE Kind[c] \in Vectors
  <2>1. OutputPins(c) = Len(Initial[c])
    BY <1>1 DEF OutputPins, Vectors, Latches, FlipFlops
  <2>2. Len(Initial[c]) = Len(s.bits) /\ s.bits \in Seq(Logic)
    BY <1>1 DEF BitsOK
  <2> QED
    BY <1>1, <2>1, <2>2 DEF StateOutputs
<1>2. CASE Kind[c] \notin Vectors
  <2>1. OutputPins(c) = 2
    BY <1>2 DEF OutputPins, Sequential, Clocked, Latches, FlipFlops, Vectors
  <2>2. i \in {1, 2}
    BY <2>1
  <2>3. s.bits[1] \in Logic
    BY DEF BitsOK
  <2> QED
    BY <1>2, <2>2, <2>3, GatesLogic DEF StateOutputs
<1> QED
  BY <1>1, <1>2

\* What an output shows is a logic value.
LEMMA OutputsLogic ==
  ASSUME NEW d \in Drivers
  PROVE  /\ \A m \in [Nets -> Logic] : Kind[d[1]] \in Combinational => Driven(d[1], m)[d[2]] \in Logic
         /\ \A s : Kind[d[1]] \in Sequential /\ BitsOK(d[1], s.bits) => StateOutputs(d[1], s)[d[2]] \in Logic
BY OutputIndices, DrivenBits, StateBits

LEMMA SrNextLogic == \A q \in Logic : \A v, w : SrNext(q, v, w) \in Logic
BY DEF SrNext, Logic

LEMMA SingleBit ==
  ASSUME NEW c, Kind[c] \notin Vectors, NEW v \in Logic PROVE BitsOK(c, <<v>>)
BY DEF BitsOK

\* The vectors keep their width.
LEMMA VectorBits ==
  ASSUME NEW c \in Components, NEW m \in [Nets -> Logic], NEW q, BitsOK(c, q)
  PROVE  /\ BitsOK(c, Unknown(q)) /\ BitsOK(c, Cleared(q)) /\ BitsOK(c, Increment(q))
         /\ Kind[c] = "register" => BitsOK(c, [n \in DOMAIN q |-> Buffer(m[Data[c][n]])])
<1>1. q \in Seq(Logic) /\ Len(q) \in Nat \ {0} /\ DOMAIN q = 1 .. Len(q)
      /\ \A i \in DOMAIN q : q[i] \in Logic
  BY EmptySeq, LenProperties DEF BitsOK
<1>2. ASSUME NEW f \in [DOMAIN q -> Logic] PROVE BitsOK(c, f)
  <2>1. f \in Seq(Logic) /\ Len(f) = Len(q)
    BY <1>1, <1>2
  <2> QED
    BY <1>1, <2>1 DEF BitsOK
<1>3. Unknown(q) \in [DOMAIN q -> Logic] /\ Cleared(q) \in [DOMAIN q -> Logic]
  BY DEF Unknown, Cleared, Logic
<1>4. Increment(q) \in [DOMAIN q -> Logic]
  BY <1>1, <1>3, GatesLogic DEF Increment
<1>5. [n \in DOMAIN q |-> Buffer(m[Data[c][n]])] \in [DOMAIN q -> Logic]
  BY GatesLogic
<1> QED
  BY <1>2, <1>3, <1>4, <1>5

\* A clock edge leaves well-formed bits,
LEMMA EdgeBits ==
  ASSUME NEW c \in Components, Kind[c] \in Clocked, NEW m \in [Nets -> Logic], NEW q, BitsOK(c, q)
  PROVE  BitsOK(c, AtEdge(c, m, q))
<1>1. q[1] \in Logic /\ \A x, y, z, v : (y \in Logic /\ z \in Logic /\ v \in Logic) => Enabled(x, y, z, v) \in Logic
  BY DEF BitsOK, Enabled
<1>2. CASE Kind[c] \in FlipFlops
  <2>1. Kind[c] \notin Vectors
    BY <1>2 DEF FlipFlops, Vectors
  <2>2. "X" \in Logic
    BY DEF Logic
  <2>3. \E v \in Logic : AtEdge(c, m, q) = <<v>>
    <3>1. CASE Kind[c] = "d_flip_flop"
      BY <3>1, GatesLogic DEF AtEdge
    <3>2. CASE Kind[c] = "jk_flip_flop"
      BY <1>1, <2>2, <3>2, GatesLogic, SrNextLogic DEF AtEdge
    <3>3. CASE Kind[c] = "t_flip_flop"
      BY <1>1, <2>2, <3>3, GatesLogic DEF AtEdge
    <3>4. CASE Kind[c] = "sr_flip_flop"
      BY <1>1, <3>4, SrNextLogic DEF AtEdge
    <3> QED
      BY <1>2, <3>1, <3>2, <3>3, <3>4 DEF FlipFlops
  <2> QED
    BY <2>1, <2>3, SingleBit
<1>3. CASE Kind[c] \in Vectors
  BY <1>3, VectorBits DEF AtEdge, Enabled, Vectors
<1> QED
  BY <1>2, <1>3 DEF Clocked

\* and so does every evaluation.
LEMMA StoredBits ==
  ASSUME NEW c \in Components, Kind[c] \in Sequential, NEW m \in [Nets -> Logic],
         NEW s, BitsOK(c, s.bits)
  PROVE  BitsOK(c, Stored(c, m, s))
<1>1. s.bits[1] \in Logic /\ "X" \in Logic /\ "0" \in Logic /\ "1" \in Logic
  BY DEF BitsOK, Logic
<1>2. CASE Kind[c] \in Latches \cup FlipFlops /\ AsyncSetReset(c, m) # None
  <2>1. AsyncSetReset(c, m) \in Logic
    BY <1>1, <1>2 DEF AsyncSetReset
  <2>2. Kind[c] \notin Vectors
    BY <1>2 DEF FlipFlops, Latches, Vectors
  <2> QED
    BY <1>2, <2>1, <2>2, SingleBit DEF Stored
<1>3. CASE Kind[c] \in Vectors /\ Input(c, "reset", m) = "1"
  <2>1. Kind[c] \notin Latches \cup FlipFlops
    BY <1>3 DEF FlipFlops, Latches, Vectors
  <2> QED
    BY <1>3, <2>1, VectorBits DEF Stored
<1>4. CASE ~(Kind[c] \in Latches \cup FlipFlops /\ AsyncSetReset(c, m) # None)
           /\ ~(Kind[c] \in Vectors /\ Input(c, "reset", m) = "1")
  <2>1. CASE Kind[c] = "d_latch"
    <3>1. Kind[c] \notin Vectors
      BY <2>1 DEF Vectors
    <3>2. BitsOK(c, <<Buffer(Input(c, "d", m))>>) /\ BitsOK(c, <<"X">>)
      BY <1>1, <3>1, SingleBit, GatesLogic
    <3>3. Stored(c, m, s) = Enabled(Input(c, "enable", m), s.bits, <<Buffer(Input(c, "d", m))>>, <<"X">>)
      BY <1>4, <2>1 DEF Stored, Clocked, FlipFlops, Vectors
    <3> QED
      BY <3>2, <3>3 DEF Enabled
  <2>2. CASE Kind[c] = "sr_latch"
    <3>1. Kind[c] \notin Vectors
      BY <2>2 DEF Vectors
    <3>2. BitsOK(c, <<SrNext(s.bits[1], Input(c, "s", m), Input(c, "r", m))>>)
      BY <1>1, <3>1, SingleBit, SrNextLogic
    <3> QED
      BY <1>4, <2>2, <3>2 DEF Stored, Clocked, FlipFlops, Vectors
  <2>3. CASE Kind[c] \in Clocked
    <3>1. Kind[c] = "d_flip_flop" => BitsOK(c, <<Buffer(s.bits[1])>>)
      BY SingleBit, GatesLogic DEF Vectors
    <3>2. Kind[c] \notin {"d_latch", "sr_latch"}
      BY <2>3 DEF Clocked, FlipFlops, Vectors
    <3> QED
      BY <1>4, <2>3, <3>1, <3>2, EdgeBits DEF Stored
  <2> QED
    BY <2>1, <2>2, <2>3 DEF Sequential, Latches
<1> QED
  BY <1>2, <1>3, <1>4

---------------------------------------------------------------------------
(* The first events. *)

LEMMA MoreProduct ==
  ASSUME NEW a \in Nat, NEW b \in Nat, NEW p \in Nat, a < b
  PROVE  a * p + p <= b * p
<1>1. PICK k \in Nat : b = a + 1 + k
  <2>1. b - (a + 1) \in Nat /\ b = a + 1 + (b - (a + 1))
    OBVIOUS
  <2> QED
    BY <2>1
<1>2. b * p = a * p + p + k * p /\ k * p >= 0
  BY <1>1
<1>3. a * p \in Int /\ b * p \in Int /\ k * p \in Int
  OBVIOUS
<1> QED
  BY <1>2, <1>3

\* The levels of a clock move forward in time, and end at the stop time.
LEMMA ClockInOrder ==
  ASSUME NEW c \in Components, Kind[c] = "digital_clock"
  PROVE  ClockEvents(c) \in Seq(Pending) /\ InOrder(ClockEvents(c)) /\ Len(ClockEvents(c)) <= Stop + 1
<1> DEFINE first == IF Initial[c][1] = "0" THEN Low[c] ELSE High[c]
           period == Low[c] + High[c]
           offset(i) == IF i % 2 = 0 THEN 0 ELSE first
           half(i) == i \div 2
           time(i) == half(i) * period + offset(i)
           level(i) == IF i % 2 = 0 THEN Initial[c][1] ELSE Not(Initial[c][1])
           N == {n \in 0 .. Stop : time(n) <= Stop}
           m == Cardinality(N)
<1>1. first \in Nat /\ period \in Nat /\ first <= period /\ Stop \in Nat /\ Known(Initial[c][1])
  BY TimeAssumption DEF TimeAssumption
<1>2. ClockEvents(c) = [i \in 1 .. m |-> Event(time(i - 1), level(i - 1))]
  BY DEF ClockEvents
<1> HIDE DEF first, period
<1>3. \A i \in Nat : half(i) \in Nat /\ offset(i) \in Nat /\ offset(i) <= period
  BY <1>1
<1>4. \A i, j \in Nat : i <= j => half(i) < half(j) \/ (half(i) = half(j) /\ offset(i) <= offset(j))
  BY <1>1
<1> HIDE DEF half, offset
<1>5. \A i \in Nat : time(i) \in Nat
  BY <1>1, <1>3
<1>6. ASSUME NEW i \in Nat, NEW j \in Nat, i <= j PROVE time(i) <= time(j)
  <2>1. CASE half(i) < half(j)
    <3> DEFINE x == half(i) * period
               y == half(j) * period
    <3>1. x + period <= y /\ x \in Int /\ y \in Int
      BY <1>1, <1>3, <2>1, MoreProduct
    <3> HIDE DEF x, y
    <3>2. x + offset(i) <= y + offset(j)
      BY <1>1, <1>3, <3>1
    <3> QED
      BY <3>2 DEF x, y
  <2>2. CASE half(i) = half(j) /\ offset(i) <= offset(j)
    <3> DEFINE x == half(i) * period
    <3>1. x \in Int
      BY <1>1, <1>3
    <3> HIDE DEF x
    <3>2. x + offset(i) <= x + offset(j)
      BY <1>3, <2>2, <3>1
    <3> QED
      BY <2>2, <3>2 DEF x
  <2> QED
    BY <1>4, <1>6, <2>1, <2>2
<1> HIDE DEF time
<1>7. N = 0 .. m - 1 /\ m \in 0 .. Stop + 1
  <2>1. 0 + (Stop + 1) - 1 = Stop /\ Stop + 1 \in Nat
    BY <1>1
  <2>2. N \in SUBSET (0 .. Stop)
    OBVIOUS
  <2>3. ASSUME NEW i \in N, NEW j \in 0 .. Stop, j <= i PROVE j \in N
    <3>1. i \in Nat /\ j \in Nat /\ time(i) <= Stop
      BY <1>1, <2>3
    <3>2. time(j) <= time(i) /\ time(i) \in Nat /\ time(j) \in Nat
      BY <1>5, <1>6, <2>3, <3>1
    <3> QED
      BY <1>1, <3>1, <3>2
  <2> HIDE DEF N
  <2>4. N = 0 .. 0 + Cardinality(N) - 1 /\ Cardinality(N) \in 0 .. Stop + 1
    BY <2>1, <2>2, <2>3, LowerIndices
  <2> QED
    BY <2>4
<1>8. \A i \in 1 .. m : i - 1 \in Nat /\ time(i - 1) \in 0 .. Stop
  <2>1. \A n \in N : n \in Nat /\ time(n) \in 0 .. Stop
    BY <1>1, <1>5
  <2> HIDE DEF N, m
  <2>2. \A i \in 1 .. m : i - 1 \in N
    BY <1>7
  <2> QED
    BY <2>1, <2>2
<1> HIDE DEF N, m
<1>9. \A i \in 1 .. m : level(i - 1) \in Logic
  BY <1>1, GatesLogic DEF Known, Logic
<1>10. \A i \in 1 .. m : Event(time(i - 1), level(i - 1)) \in Pending
  BY <1>8, <1>9 DEF Event, Pending
<1> HIDE DEF level
<1>11. m \in Nat /\ ClockEvents(c) \in [1 .. m -> Pending]
  BY <1>1, <1>2, <1>7, <1>10
<1>12. ClockEvents(c) \in Seq(Pending) /\ Len(ClockEvents(c)) = m
  BY <1>11
<1>13. InOrder(ClockEvents(c))
  <2> SUFFICES ASSUME NEW i \in 1 .. m, NEW j \in 1 .. m, i <= j
               PROVE  time(i - 1) <= time(j - 1)
    BY <1>2 DEF InOrder, Event
  <2>1. i - 1 <= j - 1
    BY <1>11
  <2> QED
    BY <1>6, <1>8, <2>1
<1> QED
  BY <1>1, <1>7, <1>12, <1>13

\* The first events of a driver are few and in order; gates have none.
LEMMA InitialInOrder ==
  ASSUME NEW d \in Drivers
  PROVE  /\ InitialEvents(d) \in Seq(Pending) /\ InOrder(InitialEvents(d))
         /\ Len(InitialEvents(d)) <= Stop + 1
         /\ Kind[d[1]] \in Combinational => InitialEvents(d) = <<>>
<1>1. d[1] \in Components /\ Stop \in Nat
  BY OutputIndices, TimeAssumption DEF TimeAssumption
<1>2. ASSUME NEW v \in Logic
      PROVE  /\ <<Event(0, v)>> \in Seq(Pending) /\ InOrder(<<Event(0, v)>>)
             /\ Len(<<Event(0, v)>>) <= Stop + 1
  <2>1. Event(0, v) \in Pending
    BY <1>1 DEF Event, Pending
  <2>2. InOrder(<<Event(0, v)>>)
    BY DEF InOrder, Event
  <2> QED
    BY <1>1, <2>1, <2>2
<1>3. CASE Kind[d[1]] = "logic_input"
  <2>1. Initial[d[1]][1] \in Logic
    BY <1>1, <1>3, PinsAssumption DEF PinsAssumption, Sources
  <2> QED
    BY <1>2, <1>3, <2>1 DEF InitialEvents, Combinational, Sequential, Clocked, Latches, FlipFlops,
       Vectors
<1>4. CASE Kind[d[1]] = "digital_clock"
  <2>1. InitialEvents(d) = ClockEvents(d[1])
    BY <1>4 DEF InitialEvents, Sequential, Clocked, Latches, FlipFlops, Vectors
  <2> QED
    BY <1>1, <1>4, <2>1, ClockInOrder DEF Combinational
<1>5. CASE Kind[d[1]] \in Sequential
  <2>1. BitsOK(d[1], InitialState(d[1]).bits)
    BY <1>1, <1>5, PinsAssumption DEF PinsAssumption, BitsOK, InitialState
  <2>2. StateOutputs(d[1], InitialState(d[1]))[d[2]] \in Logic
    BY <1>5, <2>1, OutputsLogic
  <2>3. InitialEvents(d) = <<Event(0, StateOutputs(d[1], InitialState(d[1]))[d[2]])>>
    BY <1>5 DEF InitialEvents, Sequential, Clocked, Latches, FlipFlops, Vectors
  <2>4. Kind[d[1]] \notin Combinational
    BY <1>5 DEF Combinational, Sequential, Clocked, Latches, FlipFlops, Vectors
  <2> QED
    BY <1>2, <2>2, <2>3, <2>4
<1>6. CASE Kind[d[1]] \notin {"logic_input", "digital_clock"} \cup Sequential
  <2>1. InitialEvents(d) = <<>>
    BY <1>6 DEF InitialEvents
  <2> QED
    BY <1>1, <2>1 DEF InOrder
<1> QED
  BY <1>3, <1>4, <1>5, <1>6

\* What scheduled counts is finite.
LEMMA DriversFinite == IsFiniteSet(Drivers) /\ IsFiniteSet(FirstEvents)
<1>1. IsFiniteSet(Components) /\ IsFiniteSet(1 .. 64) /\ IsFiniteSet(1 .. Stop + 1)
  <2>1. IsFiniteSet(Components) /\ Stop + 1 \in Int
    BY CircuitAssumption, TimeAssumption DEF CircuitAssumption, TimeAssumption
  <2>2. 1 \in Int /\ 64 \in Int
    OBVIOUS
  <2> QED
    BY <2>1, <2>2, FS_Interval
<1>2. IsFiniteSet(Drivers)
  <2>1. IsFiniteSet(Components \X (1 .. 64))
    BY <1>1, FS_Product
  <2> QED
    BY <2>1, FS_Subset DEF Drivers
<1>3. FirstEvents \subseteq Drivers \X (1 .. Stop + 1)
  <2> SUFFICES ASSUME NEW d \in Drivers, NEW i \in 1 .. Len(InitialEvents(d))
               PROVE  i \in 1 .. Stop + 1
    BY DEF FirstEvents
  <2>1. Len(InitialEvents(d)) \in Nat /\ Len(InitialEvents(d)) <= Stop + 1
    BY InitialInOrder, LenProperties
  <2> QED
    BY <2>1, TimeAssumption DEF TimeAssumption
<1>4. IsFiniteSet(Drivers \X (1 .. Stop + 1))
  BY <1>1, <1>2, FS_Product
<1> QED
  BY <1>2, <1>3, <1>4, FS_Subset

---------------------------------------------------------------------------
(* Buckets. *)

\* The events of the first bucket are at the front of their queues.
LEMMA DueFirst ==
  ASSUME queue \in [Drivers -> Seq(Pending)], \A e \in Drivers : InOrder(queue[e]),
         NEW t \in Heads, \A u \in Heads : t <= u, NEW d \in Drivers
  PROVE  LET q == queue[d]
             n == Cardinality(Due(d, t))
             rest == SubSeq(q, n + 1, Len(q)) IN
         /\ n \in 0 .. Len(q) /\ (Due(d, t) = {} <=> n = 0) /\ (n # 0 => n \in Due(d, t))
         /\ rest \in Seq(Pending) /\ InOrder(rest) /\ Len(rest) = Len(q) - n
         /\ \A i \in DOMAIN rest : n + i \in DOMAIN q /\ rest[i] = q[n + i] /\ rest[i].time > t
<1> DEFINE q == queue[d]
           n == Cardinality(Due(d, t))
           rest == SubSeq(q, n + 1, Len(q))
<1>1. q \in Seq(Pending) /\ InOrder(q)
  OBVIOUS
<1>2. t \in Nat
  <2>1. PICK e \in Drivers : queue[e] # <<>> /\ t = queue[e][1].time
    BY DEF Heads
  <2>2. queue[e] \in Seq(Pending) /\ 1 \in DOMAIN queue[e]
    BY <2>1
  <2> QED
    BY <2>1, <2>2, PendingTimes
<1>3. \A i \in DOMAIN q : q[i].time \in Nat /\ t <= q[i].time
  <2> SUFFICES ASSUME NEW i \in DOMAIN q PROVE q[i].time \in Nat /\ t <= q[i].time
    OBVIOUS
  <2>1. q # <<>> /\ 1 \in DOMAIN q /\ 1 <= i
    BY <1>1
  <2>2. q[1].time \in Heads
    BY <2>1 DEF Heads
  <2>3. q[1].time \in Nat /\ q[i].time \in Nat /\ q[1].time <= q[i].time
    BY <1>1, <2>1, PendingTimes DEF InOrder
  <2> QED
    BY <1>2, <2>2, <2>3
<1>4. Due(d, t) = {i \in DOMAIN q : q[i].time <= t}
  BY <1>2, <1>3 DEF Due
<1> HIDE DEF q
<1>5. n \in 0 .. Len(q) /\ \A i \in DOMAIN q : i <= n <=> q[i].time <= t
  BY <1>1, <1>2, <1>4, NotLater
<1> HIDE DEF n
<1>6. Len(q) \in Nat /\ n \in Nat /\ n <= Len(q) /\ \A i : i \in DOMAIN q <=> i \in 1 .. Len(q)
  BY <1>1, <1>5, LenProperties
<1>7. (Due(d, t) = {} <=> n = 0) /\ (n # 0 => n \in Due(d, t))
  <2>1. Due(d, t) = {i \in DOMAIN q : i <= n}
    BY <1>4, <1>5
  <2>2. n # 0 => n \in DOMAIN q /\ n <= n
    BY <1>6
  <2>3. n > 0 => 1 \in DOMAIN q /\ 1 <= n
    BY <1>6
  <2>4. \A i \in DOMAIN q : i >= 1
    BY <1>6
  <2> QED
    BY <1>6, <2>1, <2>3, <2>4, <2>2
<1>8. \A i \in n + 1 .. Len(q) : i \in DOMAIN q /\ q[i] \in Pending
  <2>1. \A i \in n + 1 .. Len(q) : i \in 1 .. Len(q)
    BY <1>6
  <2> QED
    BY <1>1, <1>6, <2>1, ElementOfSeq
<1>9. /\ rest \in Seq(Pending)
      /\ Len(rest) = IF n + 1 <= Len(q) THEN Len(q) - (n + 1) + 1 ELSE 0
      /\ \A i \in 1 .. Len(q) - (n + 1) + 1 : rest[i] = q[n + 1 + i - 1]
  BY <1>6, <1>8, SubSeqProperties
<1> HIDE DEF rest
<1>10. Len(rest) = Len(q) - n /\ \A i : i \in DOMAIN rest <=> i \in 1 .. Len(q) - n
  <2>1. Len(rest) = Len(q) - n
    BY <1>6, <1>9
  <2> QED
    BY <1>9, <2>1, LenProperties
<1>11. ASSUME NEW i \in DOMAIN rest
       PROVE  n + i \in DOMAIN q /\ rest[i] = q[n + i] /\ rest[i].time > t
  <2>1. i \in 1 .. Len(q) - (n + 1) + 1 /\ n + 1 + i - 1 = n + i /\ n + i \in 1 .. Len(q) /\ ~(n + i <= n)
    BY <1>6, <1>10, <1>11
  <2>2. n + i \in DOMAIN q /\ rest[i] = q[n + i]
    BY <1>6, <1>9, <2>1
  <2>3. ~(q[n + i].time <= t) /\ q[n + i].time \in Nat
    BY <1>3, <1>5, <2>1, <2>2 DEF q
  <2> QED
    BY <1>2, <2>2, <2>3
<1>12. InOrder(rest)
  <2> SUFFICES ASSUME NEW i \in DOMAIN rest, NEW j \in DOMAIN rest, i <= j
               PROVE  rest[i].time <= rest[j].time
    BY DEF InOrder
  <2>1. n + i <= n + j
    BY <1>6, <1>10
  <2> QED
    BY <1>1, <1>11, <2>1 DEF InOrder
<1> QED
  BY <1>5, <1>7, <1>9, <1>10, <1>11, <1>12 DEF rest, n, q

---------------------------------------------------------------------------
(* Histories. *)

\* The transitions of a net move forward in time.
Ascending(h) == \A i \in 1 .. Len(h) - 1 : h[i].time < h[i + 1].time

\* push_transition keeps a history ascending and ends it with the value.
LEMMA PushAscends ==
  ASSUME NEW h \in Seq(Pending), h # <<>>, Ascending(h),
         NEW t \in 0 .. Stop, Latest(h).time <= t, NEW v \in Logic
  PROVE  LET p == Push(h, t, v) IN
         /\ p \in Seq(Pending) /\ p # <<>> /\ Ascending(p)
         /\ Latest(p).value = v /\ Latest(p).time <= t
<1> DEFINE L == Len(h)
<1>1. L \in Nat \ {0} /\ L \in 1 .. L /\ \A i \in 1 .. L : h[i] \in Pending /\ h[i].time \in Nat
  <2>1. Len(h) \in Nat \ {0}
    BY EmptySeq
  <2>2. \A i \in 1 .. Len(h) : i \in DOMAIN h
    BY LenProperties
  <2> QED
    BY <2>1, <2>2, PendingTimes
<1>2. t \in Nat
  BY TimeAssumption DEF TimeAssumption
<1>3. CASE Latest(h).time = t
  <2> DEFINE e == [h[L] EXCEPT !.value = v]
             p == [h EXCEPT ![L] = e]
  <2>1. e \in Pending /\ e.time = h[L].time /\ e.value = v
    BY <1>1 DEF Pending
  <2> HIDE DEF e
  <2>2. p \in Seq(Pending) /\ Len(p) = L /\ \A i \in 1 .. L : p[i] = IF i = L THEN e ELSE h[i]
    BY <1>1, <2>1, ExceptSeq
  <2>3. Push(h, t, v) = p
    BY <1>3 DEF Push, e
  <2> HIDE DEF p
  <2>4. \A i \in 1 .. L : p[i].time = h[i].time
    BY <2>1, <2>2
  <2>5. Ascending(p)
    <3>1. \A i \in 1 .. L - 1 : i \in 1 .. L /\ i + 1 \in 1 .. L
      BY <1>1
    <3> QED
      BY <2>2, <2>4, <3>1 DEF Ascending
  <2>6. p # <<>> /\ Latest(p) = e
    BY <1>1, <2>2 DEF Latest
  <2> QED
    BY <1>3, <2>1, <2>2, <2>3, <2>5, <2>6 DEF Latest
<1>4. CASE Latest(h).time # t /\ Latest(h).value = v
  BY <1>4 DEF Push
<1>5. CASE Latest(h).time # t /\ Latest(h).value # v
  <2> DEFINE e == Event(t, v)
             p == Append(h, e)
  <2>1. e \in Pending /\ e.time = t /\ e.value = v
    BY DEF Event, Pending
  <2> HIDE DEF e
  <2>2. /\ p \in Seq(Pending) /\ p # <<>> /\ Len(p) = L + 1
        /\ \A i \in 1 .. L : p[i] = h[i]
        /\ p[L + 1] = e
    BY <2>1, AppendProperties
  <2>3. Push(h, t, v) = p
    BY <1>5 DEF Push, e
  <2> HIDE DEF p
  <2>4. Ascending(p)
    <3> SUFFICES ASSUME NEW i \in 1 .. L PROVE p[i].time < p[i + 1].time
      BY <1>1, <2>2 DEF Ascending
    <3>1. CASE i = L
      BY <1>1, <1>2, <1>5, <2>1, <2>2, <3>1 DEF Latest
    <3>2. CASE i # L
      <4>1. i \in 1 .. L - 1 /\ i + 1 \in 1 .. L
        BY <1>1, <3>2
      <4> QED
        BY <2>2, <4>1 DEF Ascending
    <3> QED
      BY <3>1, <3>2
  <2>5. Latest(p) = e
    BY <2>2 DEF Latest
  <2> QED
    BY <1>2, <2>1, <2>2, <2>3, <2>4, <2>5
<1> QED
  BY <1>3, <1>4, <1>5

---------------------------------------------------------------------------
(* The inductive invariant. *)

\* The master's clock does not pass the stop time by more than half a picosecond.
WithinStop ==
  /\ clock * Scale <= Stop + Scale \div 2
  /\ target * Scale <= Stop + Scale \div 2

\* What is pending does not lie in the past, and nothing in an idle session is
\* due within half a picosecond.
QueuesAhead ==
  /\ \A d \in Drivers : InOrder(queue[d]) /\ \A i \in DOMAIN queue[d] : queue[d][i].time >= at
  /\ mode = "none" => phase = "idle" /\ at = 0
  /\ (mode = "session" /\ phase = "idle") =>
       clock = target /\ \A t \in Heads : t > clock * Scale + Scale \div 2

StatesOK == \A c \in Components : Kind[c] \in Sequential => BitsOK(c, state[c].bits)

HistoriesAscend ==
  \A n \in Nets :
    /\ histories[n] # <<>> /\ Ascending(histories[n])
    /\ mode # "session" => Latest(histories[n]).value = nets[n] /\ Latest(histories[n]).time <= at

DigitalInv == TypeOK /\ WithinStop /\ QueuesAhead /\ StatesOK /\ HistoriesAscend

\* Half a picosecond is something, and less than one.
LEMMA Units ==
  /\ Scale \in Nat /\ Stop \in Nat /\ Scale \div 2 \in Nat
  /\ 0 < Scale \div 2 /\ Scale \div 2 < Scale
  BY TimeAssumption DEF TimeAssumption

LEMMA DigitalInit == Init => DigitalInv
<1> SUFFICES ASSUME Init PROVE DigitalInv
  OBVIOUS
<1> USE DEF Init, Nothing
<1>1. WithinStop
  BY Units DEF WithinStop
<1>2. QueuesAhead
  BY DEF QueuesAhead, InOrder
<1>3. StatesOK
  BY PinsAssumption DEF PinsAssumption, StatesOK, BitsOK, InitialState
<1>4. Event(0, "X") \in Pending /\ <<Event(0, "X")>> \in Seq(Pending)
  BY Units DEF Event, Pending, Logic
<1>5. HistoriesAscend
  BY DEF HistoriesAscend, Ascending, Latest, Event
<1>6. \A c \in Components : state[c].bits \in Seq(Logic) /\ state[c].clk \in Logic
  <2>1. "X" \in Logic /\ <<>> \in Seq(Logic)
    BY DEF Logic
  <2>2. \A c \in Components : Kind[c] \in Sequential => Initial[c] \in Seq(Logic)
    BY PinsAssumption DEF PinsAssumption
  <2> QED
    BY <2>1, <2>2 DEF InitialState
<1>7. TypeOK
  BY <1>4, <1>6, Units, TimeAssumption DEF TypeOK, Pending, Logic, TimeAssumption
<1> QED
  BY <1>1, <1>2, <1>3, <1>5, <1>7 DEF DigitalInv

LEMMA DigitalBegin ==
  ASSUME DigitalInv, NEW m \in {"session", "engine"}, Begin(m)
  PROVE  DigitalInv'
<1> USE DEF DigitalInv, Begin
<1>1. \A d \in Drivers : /\ queue'[d] \in Seq(Pending) /\ InOrder(queue'[d])
                         /\ \A i \in DOMAIN queue'[d] : queue'[d][i].time \in Nat
  BY InitialInOrder, PendingTimes
<1>2. scheduled' \in Nat
  BY DriversFinite, FS_CardinalityType
<1>3. TypeOK'
  <2>1. queue' \in [Drivers -> Seq(Pending)]
    BY <1>1
  <2>2. mode' \in {"session", "engine"} /\ phase' \in {"failed", "process"}
        /\ (phase' # "failed" => scheduled' <= MaxEvents)
    BY <1>2, TimeAssumption DEF TimeAssumption
  <2>3. UNCHANGED <<clock, target, nets, drivers, state, at, affected, histories>>
    OBVIOUS
  <2> QED
    BY <1>2, <2>1, <2>2, <2>3 DEF TypeOK, Pending
<1>4. QueuesAhead'
  BY <1>1 DEF QueuesAhead
<1>5. WithinStop' /\ StatesOK' /\ HistoriesAscend'
  BY DEF WithinStop, StatesOK, HistoriesAscend
<1> QED
  BY <1>3, <1>4, <1>5

LEMMA DigitalAdvance ==
  ASSUME DigitalInv, NEW t \in 1 .. Stop, Advance(t)
  PROVE  DigitalInv'
<1> USE DEF DigitalInv
<1>0. /\ mode = "session" /\ phase = "idle" /\ mode' = mode /\ clock' = clock
      /\ target' = t /\ phase' = "process" /\ t * Scale <= Stop + Scale \div 2
  BY DEF Advance
<1>4. UNCHANGED circuitVars
  BY DEF Advance
<1> USE DEF circuitVars
<1>1. TypeOK'
  <2>1. target' \in Nat /\ phase' \in {"idle", "process", "evaluate", "done", "failed"}
    BY <1>0, Units
  <2>2. phase # "failed" /\ phase' # "failed"
    BY <1>0
  <2>3. UNCHANGED <<mode, clock, nets, drivers, state, queue, scheduled, at, affected, histories>>
    BY <1>0, <1>4
  <2> QED
    BY <2>1, <2>2, <2>3 DEF TypeOK
<1>3. WithinStop'
  BY <1>0 DEF WithinStop
<1>2. QueuesAhead' /\ StatesOK' /\ HistoriesAscend'
  BY <1>0, <1>4 DEF QueuesAhead, StatesOK, HistoriesAscend
<1> QED
  BY <1>1, <1>2, <1>3

\* A write takes the session to the time of the master, which its queue is beyond.
LEMMA DigitalWrite ==
  ASSUME DigitalInv, NEW n \in External, NEW v \in Logic, Write(n, v)
  PROVE  DigitalInv'
<1> USE DEF DigitalInv, Write
<1> DEFINE now == clock * Scale
<1>1. now \in Nat /\ now <= Stop + Scale \div 2
  BY Units DEF TypeOK, WithinStop
<1>2. ASSUME NEW d \in Drivers, NEW i \in DOMAIN queue[d] PROVE queue[d][i].time >= now
  <2>0. queue[d] \in Seq(Pending)
    BY DEF TypeOK, Pending
  <2>1. queue[d] # <<>> /\ 1 \in DOMAIN queue[d] /\ 1 <= i
    BY <1>2, <2>0
  <2>2. queue[d][1].time \in Heads
    BY <2>1 DEF Heads
  <2>3. queue[d][1].time <= queue[d][i].time /\ queue[d][1].time \in Nat /\ queue[d][i].time \in Nat
    BY <1>2, <2>0, <2>1, PendingTimes DEF QueuesAhead, InOrder
  <2>4. queue[d][1].time > now + Scale \div 2
    BY <2>2 DEF QueuesAhead
  <2> HIDE DEF now
  <2> QED
    BY <1>1, <2>3, <2>4, Units
<1>3. at' = now
  OBVIOUS
<1> HIDE DEF now
<1>4. TypeOK'
  <2>1. at' \in 0 .. Stop + Scale
    BY <1>1, <1>3, Units
  <2>2. affected' \subseteq Components
    BY DEF Dependents
  <2>3. nets' \in [Nets -> Logic]
    BY DEF TypeOK
  <2> QED
    BY <2>1, <2>2, <2>3 DEF TypeOK
<1>5. QueuesAhead'
  BY <1>2, <1>3 DEF QueuesAhead
<1>6. WithinStop' /\ StatesOK' /\ HistoriesAscend'
  BY DEF WithinStop, StatesOK, HistoriesAscend
<1> QED
  BY <1>4, <1>5, <1>6

LEMMA DigitalFinish ==
  ASSUME DigitalInv, Finish
  PROVE  DigitalInv'
<1> USE DEF DigitalInv, Finish, circuitVars
<1>1. TypeOK' /\ WithinStop'
  BY DEF TypeOK, WithinStop
<1>2. QueuesAhead'
  BY DEF QueuesAhead, Heads, Limit
<1>3. StatesOK' /\ HistoriesAscend'
  BY DEF StatesOK, HistoriesAscend
<1> QED
  BY <1>1, <1>2, <1>3

LEMMA DigitalInterrupt ==
  ASSUME DigitalInv, Interrupt
  PROVE  DigitalInv'
<1> USE DEF DigitalInv, Interrupt, circuitVars
<1>1. TypeOK' /\ WithinStop'
  BY DEF TypeOK, WithinStop
<1>2. QueuesAhead' /\ StatesOK' /\ HistoriesAscend'
  BY DEF QueuesAhead, StatesOK, HistoriesAscend
<1> QED
  BY <1>1, <1>2

\* The bucket takes the due events, which are the first ones, from the queues.
LEMMA DigitalBucket ==
  ASSUME DigitalInv, Bucket
  PROVE  DigitalInv'
<1> USE DEF DigitalInv
<1>1. PICK t \in Heads :
        /\ \A u \in Heads : t <= u
        /\ drivers' = NewDrivers(t) /\ nets' = NewNets(t) /\ histories' = NewHistories(t)
        /\ queue' = [d \in Drivers |-> SubSeq(queue[d], Cardinality(Due(d, t)) + 1, Len(queue[d]))]
        /\ affected' \subseteq Components
        /\ at' = t
        /\ phase' \in {"failed", "evaluate"}
  BY DEF Bucket
<1>2. phase = "process" /\ UNCHANGED <<mode, clock, target, state, scheduled>>
  BY DEF Bucket
<1>3. t \in 0 .. Stop /\ t \in Nat /\ at <= t
  <2>1. PICK d \in Drivers : queue[d] # <<>> /\ t = queue[d][1].time
    BY DEF Heads
  <2>2. queue[d] \in Seq(Pending)
    BY DEF TypeOK, Pending
  <2>3. 1 \in DOMAIN queue[d]
    BY <2>1, <2>2
  <2>4. t \in Nat /\ t <= Stop
    BY <2>1, <2>2, <2>3, PendingTimes
  <2> QED
    BY <2>1, <2>3, <2>4, Units DEF QueuesAhead, TypeOK
<1>4. \A d \in Drivers :
        LET n == Cardinality(Due(d, t)) IN
        /\ n \in 0 .. Len(queue[d]) /\ (Due(d, t) = {} <=> n = 0)
        /\ queue'[d] \in Seq(Pending) /\ InOrder(queue'[d])
        /\ \A i \in DOMAIN queue'[d] : queue'[d][i].time > t
  BY <1>1, DueFirst DEF TypeOK, Pending, QueuesAhead
<1>5. QueuesAhead'
  <2>1. \A d \in Drivers : \A i \in DOMAIN queue'[d] : queue'[d][i].time >= t
    <3> SUFFICES ASSUME NEW d \in Drivers, NEW i \in DOMAIN queue'[d] PROVE queue'[d][i].time >= t
      OBVIOUS
    <3>1. queue'[d] \in Seq(Pending) /\ queue'[d][i].time > t
      BY <1>4
    <3>2. queue'[d][i].time \in Nat
      BY <3>1, PendingTimes
    <3> QED
      BY <1>3, <3>1, <3>2
  <2>2. mode' # "none" /\ phase' # "idle"
    BY <1>1, <1>2 DEF QueuesAhead
  <2> QED
    BY <1>1, <1>4, <2>1, <2>2 DEF QueuesAhead
<1>6. drivers' \in [Drivers -> Logic] /\ nets' \in [Nets -> Logic]
  <2>1. ASSUME NEW d \in Drivers PROVE NewDrivers(t)[d] \in Logic
    <3>1. CASE Due(d, t) = {}
      BY <3>1 DEF NewDrivers, TypeOK
    <3>2. CASE Due(d, t) # {}
      <4> DEFINE n == Cardinality(Due(d, t))
      <4>1. queue[d] \in Seq(Pending) /\ n \in 1 .. Len(queue[d])
        <5>1. queue[d] \in Seq(Pending)
          BY DEF TypeOK, Pending
        <5>2. n \in 0 .. Len(queue[d]) /\ n # 0
          BY <1>4, <3>2
        <5> HIDE DEF n
        <5> QED
          BY <5>1, <5>2
      <4>2. queue[d][n] \in Pending
        BY <4>1, ElementOfSeq
      <4> QED
        BY <3>2, <4>2 DEF NewDrivers, Pending
    <3> QED
      BY <3>1, <3>2
  <2> QED
    BY <1>1, <2>1, ResolveLogic DEF NewDrivers, NewNets, TypeOK
<1>7. ASSUME NEW n \in Nets
      PROVE  /\ histories'[n] \in Seq(Pending) /\ histories'[n] # <<>> /\ Ascending(histories'[n])
             /\ mode # "session" =>
                  Latest(histories'[n]).value = nets'[n] /\ Latest(histories'[n]).time <= t
  <2>1. histories[n] \in Seq(Pending) /\ histories[n] # <<>> /\ Ascending(histories[n])
    BY DEF TypeOK, Pending, HistoriesAscend
  <2>2. Latest(histories[n]).time \in Nat
    <3>1. Len(histories[n]) \in DOMAIN histories[n]
      BY <2>1
    <3> QED
      BY <2>1, <3>1, PendingTimes DEF Latest
  <2>3. at \in Nat
    BY Units DEF TypeOK
  <2>4. mode # "session" => Latest(histories[n]).value = nets[n] /\ Latest(histories[n]).time <= t
    BY <1>3, <2>2, <2>3 DEF HistoriesAscend
  <2>5. CASE mode = "engine" /\ NewNets(t)[n] # nets[n]
    <3>1. histories'[n] = Push(histories[n], t, nets'[n]) /\ nets'[n] \in Logic
      BY <1>1, <1>6, <2>5 DEF NewHistories
    <3> QED
      BY <1>3, <2>1, <2>4, <2>5, <3>1, PushAscends
  <2>6. CASE ~(mode = "engine" /\ NewNets(t)[n] # nets[n])
    <3>1. histories'[n] = histories[n]
      BY <1>1, <2>6 DEF NewHistories
    <3>2. mode # "session" => nets'[n] = nets[n]
      BY <1>1, <1>2, <2>6 DEF TypeOK, QueuesAhead
    <3> QED
      BY <2>1, <2>4, <3>1, <3>2
  <2> QED
    BY <2>5, <2>6
<1>8. HistoriesAscend'
  BY <1>1, <1>2, <1>7 DEF HistoriesAscend
<1>9. TypeOK'
  <2>1. histories' \in [Nets -> Seq(Pending)] /\ queue' \in [Drivers -> Seq(Pending)]
    BY <1>1, <1>4, <1>7 DEF NewHistories
  <2>2. at' \in 0 .. Stop + Scale
    BY <1>1, <1>3, Units
  <2> QED
    BY <1>1, <1>2, <1>6, <2>1, <2>2 DEF TypeOK, Pending
<1>10. WithinStop' /\ StatesOK'
  BY <1>2 DEF WithinStop, StatesOK
<1> QED
  BY <1>5, <1>8, <1>9, <1>10

\* What a component is found to hold is well formed.
LEMMA ResultOK ==
  ASSUME DigitalInv, NEW c \in Evaluated
  PROVE  /\ Result(c).bits \in Seq(Logic) /\ Result(c).clk \in Logic
         /\ Kind[c] \in Sequential => BitsOK(c, Result(c).bits)
<1>1. c \in Components /\ nets \in [Nets -> Logic] /\ state[c].bits \in Seq(Logic)
  BY DEF Evaluated, DigitalInv, TypeOK
<1>2. Result(c).bits = Stored(c, nets, state[c]) /\ Result(c).clk \in Logic
  <2>1. ClockIn(c, nets) \in Logic /\ state[c].clk \in Logic
    BY <1>1, GatesLogic DEF ClockIn, DigitalInv, TypeOK
  <2> QED
    BY <2>1 DEF Result, NextState
<1>3. CASE Kind[c] \in Sequential
  <2>1. BitsOK(c, state[c].bits)
    BY <1>1, <1>3 DEF DigitalInv, StatesOK
  <2>2. BitsOK(c, Stored(c, nets, state[c]))
    BY <1>1, <1>3, <2>1, StoredBits
  <2> QED
    BY <1>2, <2>2 DEF BitsOK
<1>4. CASE Kind[c] \notin Sequential
  <2>1. Stored(c, nets, state[c]) = state[c].bits
    BY <1>4 DEF Stored, Sequential, Latches, FlipFlops, Vectors, Clocked
  <2> QED
    BY <1>1, <1>2, <1>4, <2>1
<1> QED
  BY <1>3, <1>4

\* What an evaluation puts on its way to an output.
Emitted(d) == Event(at + Delay[d[1]], Outputs(d[1], nets, Result(d[1]))[d[2]])

\* It is an event of the future, or of now if there is no delay.
LEMMA EmittedPending ==
  ASSUME DigitalInv, NEW d \in Drivers, Emits(d)
  PROVE  Emitted(d) \in Pending /\ Emitted(d).time >= at
<1>1. d[1] \in Evaluated /\ at + Delay[d[1]] <= Stop
  BY DEF Emits
<1>2. Delay[d[1]] \in Nat /\ at \in Nat
  <2>1. d[1] \in Components
    BY <1>1 DEF Evaluated, DigitalInv, TypeOK
  <2>2. at \in Nat
    BY Units DEF DigitalInv, TypeOK
  <2> QED
    BY <2>1, <2>2, CircuitAssumption DEF CircuitAssumption
<1>3. Outputs(d[1], nets, Result(d[1]))[d[2]] \in Logic
  <2>1. nets \in [Nets -> Logic]
    BY DEF DigitalInv, TypeOK
  <2>2. CASE Kind[d[1]] \in Sequential
    <3>1. Kind[d[1]] \notin Combinational
      BY <2>2 DEF Sequential, Combinational, Latches, FlipFlops, Vectors, Clocked
    <3> QED
      BY <1>1, <2>2, <3>1, ResultOK, OutputsLogic DEF Outputs
  <2>3. CASE Kind[d[1]] \in Combinational
    <3>1. Kind[d[1]] \notin Sequential
      BY <2>3 DEF Sequential, Combinational, Latches, FlipFlops, Vectors, Clocked
    <3> QED
      BY <2>1, <2>3, <3>1, OutputsLogic DEF Outputs
  <2> QED
    BY <1>1, <2>2, <2>3 DEF Evaluated
<1> HIDE DEF Emitted
<1>4. Emitted(d).time = at + Delay[d[1]] /\ Emitted(d) \in Pending
  BY <1>1, <1>2, <1>3, Units DEF Emitted, Event, Pending
<1> QED
  BY <1>2, <1>4

\* An evaluation inserts what it emits in order.
LEMMA DigitalEvaluate ==
  ASSUME DigitalInv, Evaluate
  PROVE  DigitalInv'
<1> USE DEF DigitalInv
<1>1. /\ phase = "evaluate" /\ EvaluateAll
      /\ scheduled' = scheduled + Cardinality({d \in Drivers : Emits(d)})
      /\ phase' = IF scheduled' > MaxEvents THEN "failed" ELSE "process"
  BY DEF Evaluate, EvaluateAll
<1>2. /\ state' = [c \in Components |-> IF c \in Evaluated THEN Result(c) ELSE state[c]]
      /\ queue' = [d \in Drivers |-> IF Emits(d) THEN Insert(queue[d], Emitted(d)) ELSE queue[d]]
      /\ affected' = {}
      /\ UNCHANGED <<mode, clock, target, nets, drivers, at, histories>>
  BY <1>1 DEF EvaluateAll, Emitted
<1>3. ASSUME NEW d \in Drivers
      PROVE  /\ queue'[d] \in Seq(Pending) /\ InOrder(queue'[d])
             /\ \A i \in DOMAIN queue'[d] : queue'[d][i].time >= at
  <2>1. queue[d] \in Seq(Pending) /\ InOrder(queue[d]) /\ \A i \in DOMAIN queue[d] : queue[d][i].time >= at
    BY DEF TypeOK, Pending, QueuesAhead
  <2>2. CASE Emits(d)
    <3>1. Emitted(d) \in Pending /\ Emitted(d).time >= at
      BY <2>2, EmittedPending
    <3>2. queue'[d] = Insert(queue[d], Emitted(d))
      BY <1>2, <2>2
    <3>3. /\ queue'[d] \in Seq(Pending) /\ InOrder(queue'[d])
          /\ \A i \in DOMAIN queue'[d] : queue'[d][i] = Emitted(d) \/ \E j \in DOMAIN queue[d] : queue'[d][i] = queue[d][j]
      BY <2>1, <3>1, <3>2, InsertInOrder
    <3> QED
      BY <2>1, <3>1, <3>3
  <2>3. CASE ~Emits(d)
    BY <1>2, <2>1, <2>3
  <2> QED
    BY <2>2, <2>3
<1>4. StatesOK'
  BY <1>2, ResultOK DEF StatesOK
<1>5. TypeOK'
  <2>1. queue' \in [Drivers -> Seq(Pending)]
    BY <1>2, <1>3
  <2>2. \A c \in Components : state'[c].bits \in Seq(Logic) /\ state'[c].clk \in Logic
    BY <1>2, ResultOK DEF TypeOK
  <2>3. scheduled' \in Nat
    <3>1. IsFiniteSet({d \in Drivers : Emits(d)})
      BY DriversFinite, FS_Subset
    <3>2. Cardinality({d \in Drivers : Emits(d)}) \in Nat
      BY <3>1, FS_CardinalityType
    <3> QED
      BY <1>1, <3>2 DEF TypeOK
  <2>4. phase' \in {"process", "failed"} /\ (phase' # "failed" => scheduled' <= MaxEvents)
    BY <1>1, <2>3, TimeAssumption DEF TimeAssumption
  <2>5. affected' \subseteq Components
    BY <1>2
  <2> QED
    BY <1>2, <2>1, <2>2, <2>3, <2>4, <2>5 DEF TypeOK, Pending
<1>6. QueuesAhead'
  <2>1. phase' \in {"process", "failed"} /\ mode' # "none"
    BY <1>1, <1>2 DEF QueuesAhead
  <2> QED
    BY <1>2, <1>3, <2>1 DEF QueuesAhead
<1>7. WithinStop' /\ HistoriesAscend'
  BY <1>2 DEF WithinStop, HistoriesAscend
<1> QED
  BY <1>4, <1>5, <1>6, <1>7

LEMMA DigitalStutter ==
  ASSUME DigitalInv, UNCHANGED vars
  PROVE  DigitalInv'
BY DEF DigitalInv, vars, TypeOK, WithinStop, QueuesAhead, Heads, StatesOK, HistoriesAscend

LEMMA DigitalInvariant == Spec => []DigitalInv
<1>1. ASSUME DigitalInv, [Next]_vars PROVE DigitalInv'
  BY <1>1, DigitalBegin, DigitalAdvance, DigitalWrite, DigitalFinish, DigitalBucket, DigitalEvaluate,
     DigitalInterrupt, DigitalStutter DEF Next, Run, Initialize, Operation
<1> QED
  BY <1>1, DigitalInit, PTL DEF Spec

(* Whatever the circuit is, its nets and drivers have logic values, the    *)
(* events that are pending and the transitions of a result lie within the  *)
(* analysis, and a run that goes on has not counted too many events        *)
(* (DigitalEngine::run, process_until and MAX_DIGITAL_EVENTS).             *)
THEOREM TypeCorrect == Spec => []TypeOK
<1>1. DigitalInv => TypeOK
  BY DEF DigitalInv
<1> QED
  BY <1>1, DigitalInvariant, PTL

(* In a result of any circuit the waveform of each net moves strictly      *)
(* forward in time and ends with the final state of the net, also when it  *)
(* changes several times at one time (push_transition, digital.rs).        *)
THEOREM HistoriesFollow == Spec => []HistoriesFollowNets
<1>1. DigitalInv => HistoriesFollowNets
  BY DEF DigitalInv, HistoriesAscend, HistoriesFollowNets, Ascending
<1> QED
  BY <1>1, DigitalInvariant, PTL

\* A time beyond a picosecond is rounded to a later one.
LEMMA RoundedUp ==
  ASSUME NEW t \in Nat, NEW c \in Nat, t > c * Scale
  PROVE  NextEventTime(t) > c
<1> DEFINE x == t + Scale - 1
           y == c * Scale
           q == x \div Scale
<1>1. x \in Nat /\ y \in Nat /\ x >= y + Scale /\ Scale \in Nat /\ Scale > 0
  BY Units
<1>2. q \in Nat /\ x < q * Scale + Scale
  <2> HIDE DEF x
  <2>1. x = Scale * (x \div Scale) + (x % Scale) /\ (x % Scale) < Scale /\ (x % Scale) \in Nat /\ x \div Scale \in Nat
    BY <1>1
  <2> QED
    BY <1>1, <2>1
<1>3. q * Scale > y
  <2> HIDE DEF x, y, q
  <2> QED
    BY <1>1, <1>2
<1>4. ASSUME ~(q > c) PROVE FALSE
  <2>1. q <= c
    BY <1>2, <1>4
  <2>2. q * Scale <= c * Scale
    <3> HIDE DEF q
    <3>1. CASE q = c
      BY <3>1, <1>1, <1>2
    <3>2. CASE q < c
      <4>1. q * Scale + Scale <= c * Scale
        BY <1>1, <1>2, <3>2, MoreProduct
      <4> QED
        BY <4>1, <1>1, <1>2
    <3> QED
      BY <1>2, <2>1, <3>1, <3>2
  <2> HIDE DEF q, y
  <2>3. q * Scale \in Nat
    BY <1>1, <1>2
  <2> QED
    BY <1>1, <1>3, <2>2, <2>3 DEF y
<1> QED
  BY <1>4 DEF NextEventTime

(* After every operation of a session, for every circuit and whatever the  *)
(* master advanced and wrote, the next event time that the participant     *)
(* reports lies beyond the present time of the master (digital.rs:1359).   *)
(* Nothing is pending within half a picosecond of that time, which is why  *)
(* rounding a time up never gives the present.                             *)
THEOREM NextEventsAreFuture == Spec => []NextEventIsFuture
<1>1. DigitalInv => NextEventIsFuture
  <2> SUFFICES ASSUME DigitalInv, mode = "session", phase = "idle", NEW t \in Heads
               PROVE  NextEventTime(t) > clock
    BY DEF NextEventIsFuture
  <2>1. t \in Nat
    <3>1. PICK d \in Drivers : queue[d] # <<>> /\ t = queue[d][1].time
      BY DEF Heads
    <3>2. queue[d] \in Seq(Pending)
      BY DEF DigitalInv, TypeOK, Pending
    <3>3. 1 \in DOMAIN queue[d]
      BY <3>1, <3>2
    <3> QED
      BY <3>1, <3>2, <3>3, PendingTimes
  <2>2. clock \in Nat /\ t > clock * Scale + Scale \div 2
    BY DEF DigitalInv, TypeOK, QueuesAhead
  <2> DEFINE y == clock * Scale
  <2>3. y \in Nat
    BY <2>2, Units
  <2>4. t > y
    <3> HIDE DEF y
    <3>1. t > y + Scale \div 2
      BY <2>2 DEF y
    <3> QED
      BY <2>1, <2>3, <3>1, Units
  <2> QED
    BY <2>1, <2>2, <2>4, RoundedUp
<1> QED
  BY <1>1, DigitalInvariant, PTL

---------------------------------------------------------------------------
(* Changes propagate. *)

\* A time that is a whole number of picoseconds.
Whole(t) == \E k \in Int : t = k * Scale

(* All events of a circuit whose delays and levels are of whole            *)
(* picoseconds fall on whole picoseconds.                                  *)
WholePicoseconds ==
  \A c \in Components : Whole(Delay[c]) /\ (Kind[c] = "digital_clock" => Whole(Low[c]) /\ Whole(High[c]))

WholeTimes ==
  /\ Whole(at)
  /\ \A d \in Drivers : \A i \in DOMAIN queue[d] : Whole(queue[d][i].time)

(* A session has not gone beyond the master's clock, and a component has   *)
(* nothing under way that would come after an evaluation of now.           *)
InTime ==
  /\ mode = "session" /\ phase # "failed" => at <= target * Scale
  /\ \A d \in Drivers : Kind[d[1]] \in Combinational =>
       \A i \in DOMAIN queue[d] : queue[d][i].time <= at + Delay[d[1]]

NetsResolved ==
  \A n \in Nets : DriversOf(n) # {} =>
    LET vs == {drivers[d] : d \in DriversOf(n)} IN nets[n] = Resolve(vs) \/ (vs = {"Z"} /\ nets[n] = "X")

\* The value that an output ends with if nothing is evaluated again.
Last(d) == IF queue[d] = <<>> THEN drivers[d] ELSE Latest(queue[d]).value
Agrees(d) ==
  \/ Last(d) = Driven(d[1], nets)[d[2]]
  \/ Last(d) = "Z" /\ \A n \in InputNets(d[1]) : nets[n] = "X"

OutputsFollow ==
  \A d \in Drivers : (Kind[d[1]] \in Combinational /\ at + Scale + Delay[d[1]] <= Stop) =>
    phase = "failed" \/ (phase = "evaluate" /\ d[1] \in affected) \/ Agrees(d)

\* The inductive form of ChangesPropagate: before its evaluation, a component
\* whose inputs changed waits in affected.
PropagateInv ==
  /\ DigitalInv
  /\ mode = "none" => queue = [d \in Drivers |-> <<>>]
  /\ WholeTimes /\ InTime /\ NetsResolved /\ OutputsFollow

LEMMA WholeSums ==
  /\ Whole(0) /\ \A x, y : Whole(x) /\ Whole(y) => Whole(x + y)
  /\ \A n \in Int : \A x : Whole(x) => Whole(n * x)
  /\ \A n \in Int : Whole(n * Scale)
<1>0. Scale \in Int
  BY Units
<1>1. Whole(0)
  BY <1>0 DEF Whole
<1>2. ASSUME NEW x, NEW y, Whole(x), Whole(y) PROVE Whole(x + y)
  <2>1. PICK j \in Int : x = j * Scale
    BY <1>2 DEF Whole
  <2>2. PICK k \in Int : y = k * Scale
    BY <1>2 DEF Whole
  <2>3. x + y = (j + k) * Scale /\ j + k \in Int
    BY <1>0, <2>1, <2>2
  <2> QED
    BY <2>3 DEF Whole
<1>3. ASSUME NEW n \in Int, NEW x, Whole(x) PROVE Whole(n * x)
  <2>1. PICK j \in Int : x = j * Scale
    BY <1>3 DEF Whole
  <2>2. n * x = (n * j) * Scale /\ n * j \in Int
    BY <1>0, <2>1
  <2> QED
    BY <2>2 DEF Whole
<1>4. \A n \in Int : Whole(n * Scale)
  BY DEF Whole
<1> QED
  BY <1>1, <1>2, <1>3, <1>4

\* Between two multiples of Scale there is nothing within half of it.
LEMMA WholeBound ==
  ASSUME NEW t \in Nat, Whole(t), NEW c \in Nat, t <= c * Scale + Scale \div 2
  PROVE  t <= c * Scale
<1>1. PICK k \in Int : t = k * Scale
  BY DEF Whole
<1>2. k \in Nat
  <2>1. CASE k < 0
    <3>1. k + 1 <= 0 /\ -k - 1 \in Nat
      BY <2>1
    <3>2. (-k - 1) * Scale \in Nat /\ (-k - 1) * Scale = -t - Scale
      BY <1>1, <3>1, Units
    <3> QED
      BY <3>2, Units
  <2> QED
    BY <2>1
<1>3. CASE k <= c
  <2>1. CASE k = c
    BY <1>1, <2>1
  <2>2. CASE k < c
    <3> DEFINE x == k * Scale
               y == c * Scale
    <3>1. x + Scale <= y /\ x \in Nat /\ y \in Nat /\ Scale \in Nat
      BY <1>2, <2>2, Units, MoreProduct
    <3> HIDE DEF x, y
    <3>2. x <= y
      BY <3>1
    <3> QED
      BY <1>1, <3>2 DEF x, y
  <2> QED
    BY <1>2, <1>3, <2>1, <2>2
<1>4. CASE c < k
  <2> DEFINE x == k * Scale
             y == c * Scale
  <2>1. y + Scale <= x /\ x \in Nat /\ y \in Nat
    BY <1>2, <1>4, Units, MoreProduct
  <2>2. x <= y + Scale \div 2
    BY <1>1
  <2> HIDE DEF x, y
  <2> QED
    BY <2>1, <2>2, Units
<1> QED
  BY <1>2, <1>3, <1>4

\* A clock of whole levels changes at whole times.
LEMMA InitialWhole ==
  ASSUME WholePicoseconds, NEW d \in Drivers, NEW i \in DOMAIN InitialEvents(d)
  PROVE  Whole(InitialEvents(d)[i].time)
<1>1. d[1] \in Components
  BY OutputIndices
<1>2. CASE Kind[d[1]] = "digital_clock"
  <2> DEFINE c == d[1]
             first == IF Initial[c][1] = "0" THEN Low[c] ELSE High[c]
             period == Low[c] + High[c]
             offset(j) == IF j % 2 = 0 THEN 0 ELSE first
             half(j) == j \div 2
             m == Cardinality({n \in 0 .. Stop : half(n) * period + offset(n) <= Stop})
             level(j) == IF j % 2 = 0 THEN Initial[c][1] ELSE Not(Initial[c][1])
  <2>1. InitialEvents(d) = ClockEvents(c)
    BY <1>2 DEF InitialEvents, Sequential, Clocked, Latches, FlipFlops, Vectors
  <2>2. ClockEvents(c) = [j \in 1 .. m |-> Event(half(j - 1) * period + offset(j - 1), level(j - 1))]
    BY DEF ClockEvents
  <2>3. Whole(first) /\ Whole(period)
    BY <1>1, <1>2, WholeSums DEF WholePicoseconds
  <2> HIDE DEF first, period, m, level
  <2>4. \A j \in Int : Whole(offset(j)) /\ half(j) \in Int
    BY <2>3, WholeSums
  <2> HIDE DEF offset, half
  <2>5. i - 1 \in Int
    BY <2>1, <2>2
  <2>6. Whole(half(i - 1) * period + offset(i - 1))
    BY <2>3, <2>4, <2>5, WholeSums
  <2> QED
    BY <2>1, <2>2, <2>6 DEF Event
<1>3. CASE Kind[d[1]] # "digital_clock"
  BY <1>3, WholeSums DEF InitialEvents, Event
<1> QED
  BY <1>2, <1>3

\* What a component drives depends on the nets that it reads.
LEMMA SameInputs ==
  ASSUME NEW c, Kind[c] \in Combinational, NEW before, NEW after,
         \A n \in InputNets(c) : after[n] = before[n]
  PROVE  Driven(c, after) = Driven(c, before)
<1>1. \A pin : Input(c, pin, after) = Input(c, pin, before)
  BY DEF Input, InputNets
<1> QED
  BY <1>1 DEF Driven, Combinational

LEMMA InputsInCircuit == ASSUME NEW c \in Components PROVE InputNets(c) \subseteq Nets
<1>1. {In[c][pin] : pin \in DOMAIN In[c]} \subseteq Nets
  BY CircuitAssumption DEF CircuitAssumption
<1>2. Kind[c] = "register" => {Data[c][i] : i \in DOMAIN Data[c]} \subseteq Nets
  BY PinsAssumption DEF PinsAssumption
<1> QED
  BY <1>1, <1>2 DEF InputNets

LEMMA PropagateInit == ASSUME Init PROVE PropagateInv
<1> USE DEF Init, Nothing
<1>1. WholeTimes
  BY WholeSums DEF WholeTimes
<1>2. InTime
  BY DEF InTime
<1>3. NetsResolved
  BY DEF NetsResolved, DriversOf
<1>4. OutputsFollow
  <2> SUFFICES ASSUME NEW d \in Drivers PROVE Agrees(d)
    BY DEF OutputsFollow
  <2>1. InputNets(d[1]) \subseteq Nets
    BY OutputIndices, InputsInCircuit
  <2> QED
    BY <2>1 DEF Agrees, Last
<1> QED
  BY <1>1, <1>2, <1>3, <1>4, DigitalInit DEF PropagateInv

LEMMA PropagateBegin ==
  ASSUME WholePicoseconds, PropagateInv, NEW m \in {"session", "engine"}, Begin(m)
  PROVE  PropagateInv'
<1> USE DEF PropagateInv
<1>1. /\ mode = "none" /\ phase = "idle" /\ mode' = m
      /\ queue' = [d \in Drivers |-> InitialEvents(d)] /\ queue = [d \in Drivers |-> <<>>]
      /\ UNCHANGED <<clock, target, nets, drivers, state, at, affected, histories>>
  BY DEF Begin
<1>2. WholeTimes'
  BY <1>1, InitialWhole DEF WholeTimes
<1>3. InTime'
  <2>1. at' = 0 /\ 0 <= target * Scale /\ target' = target
    BY <1>1, Units DEF DigitalInv, TypeOK, QueuesAhead
  <2>2. \A d \in Drivers : Kind[d[1]] \in Combinational => queue'[d] = <<>>
    BY <1>1, InitialInOrder
  <2> QED
    BY <2>1, <2>2 DEF InTime
<1>4. NetsResolved'
  BY <1>1 DEF NetsResolved
<1>5. OutputsFollow'
  <2> SUFFICES ASSUME NEW d \in Drivers, Kind[d[1]] \in Combinational, at + Scale + Delay[d[1]] <= Stop
               PROVE  Agrees(d)'
    BY <1>1 DEF OutputsFollow
  <2>1. Agrees(d)
    BY <1>1 DEF OutputsFollow
  <2>2. queue[d] = <<>> /\ queue'[d] = <<>>
    BY <1>1, InitialInOrder
  <2> QED
    BY <1>1, <2>1, <2>2 DEF Agrees, Last
<1>6. DigitalInv'
  BY DigitalBegin
<1> QED
  BY <1>1, <1>2, <1>3, <1>4, <1>5, <1>6

LEMMA PropagateAdvance ==
  ASSUME PropagateInv, NEW t \in 1 .. Stop, Advance(t)
  PROVE  PropagateInv'
<1> USE DEF PropagateInv
<1>1. /\ mode = "session" /\ phase = "idle" /\ t >= clock /\ target' = t
      /\ UNCHANGED <<mode, clock, nets, drivers, state, queue, scheduled, at, affected, histories>>
  BY DEF Advance, circuitVars
<1>2. InTime'
  <2>1. at <= clock * Scale /\ clock \in Nat /\ at \in Nat
    <3>1. clock = target /\ clock \in Nat /\ at \in Nat
      BY <1>1, Units DEF DigitalInv, QueuesAhead, TypeOK
    <3> QED
      BY <1>1, <3>1 DEF InTime
  <2>2. at <= t * Scale
    <3> DEFINE x == clock * Scale
               y == t * Scale
    <3>1. x \in Nat /\ y \in Nat /\ (clock < t => x + Scale <= y) /\ t \in Nat
      BY <2>1, Units, MoreProduct
    <3>2. x = y \/ clock < t
      BY <1>1, <2>1, <3>1
    <3> HIDE DEF x, y
    <3>3. at <= x
      BY <2>1 DEF x
    <3>4. at <= y
      BY <2>1, <3>1, <3>2, <3>3, Units
    <3> QED
      BY <3>4 DEF y
  <2> QED
    BY <1>1, <2>2 DEF InTime
<1>3. WholeTimes' /\ NetsResolved'
  BY <1>1 DEF WholeTimes, NetsResolved
<1>4. OutputsFollow'
  <2> SUFFICES ASSUME NEW d \in Drivers, Kind[d[1]] \in Combinational, at + Scale + Delay[d[1]] <= Stop
               PROVE  Agrees(d)'
    BY <1>1 DEF OutputsFollow
  <2>1. Agrees(d)
    BY <1>1 DEF OutputsFollow
  <2> QED
    BY <1>1, <2>1 DEF Agrees, Last
<1>5. DigitalInv'
  BY DigitalAdvance
<1> QED
  BY <1>1, <1>2, <1>3, <1>4, <1>5

\* A write is not earlier than what the session did, and schedules nothing.
LEMMA PropagateWrite ==
  ASSUME PropagateInv, NEW n \in External, NEW v \in Logic, Write(n, v)
  PROVE  PropagateInv'
<1> USE DEF PropagateInv
<1>1. /\ mode = "session" /\ phase = "idle" /\ nets' = [nets EXCEPT ![n] = v]
      /\ at' = clock * Scale /\ affected' = Dependents(n) /\ phase' = "evaluate"
      /\ UNCHANGED <<mode, clock, target, drivers, state, queue, scheduled, histories>>
  BY DEF Write
<1>2. at <= at' /\ at \in Nat /\ at' \in Nat /\ clock = target /\ clock \in Nat
  <2>1. clock = target /\ clock \in Nat /\ at \in Nat
    BY <1>1, Units DEF DigitalInv, QueuesAhead, TypeOK
  <2>2. clock * Scale \in Nat
    BY <2>1, Units
  <2> QED
    BY <1>1, <2>1, <2>2 DEF InTime
<1>3. \A d \in Drivers : Delay[d[1]] \in Nat
  BY OutputIndices, CircuitAssumption DEF CircuitAssumption
<1>4. WholeTimes'
  BY <1>1, <1>2, WholeSums DEF WholeTimes
<1>5. InTime'
  <2>1. ASSUME NEW d \in Drivers, Kind[d[1]] \in Combinational, NEW i \in DOMAIN queue[d]
        PROVE  queue[d][i].time <= at' + Delay[d[1]]
    <3>1. queue[d] \in Seq(Pending)
      BY DEF DigitalInv, TypeOK, Pending
    <3>2. queue[d][i].time \in Nat /\ queue[d][i].time <= at + Delay[d[1]]
      BY <2>1, <3>1, PendingTimes DEF InTime
    <3> QED
      BY <1>2, <1>3, <3>2
  <2>2. at' <= target' * Scale
    BY <1>1, <1>2, Units
  <2> QED
    BY <1>1, <2>1, <2>2 DEF InTime
<1>6. NetsResolved'
  <2>1. \A w \in Nets : DriversOf(w) # {} => w # n
    BY OutputIndices DEF DriversOf
  <2>2. \A w \in Nets : w # n => nets'[w] = nets[w]
    BY <1>1 DEF DigitalInv, TypeOK
  <2> SUFFICES ASSUME NEW w \in Nets, DriversOf(w) # {}
               PROVE  LET vs == {drivers'[d] : d \in DriversOf(w)} IN
                      nets'[w] = Resolve(vs) \/ (vs = {"Z"} /\ nets'[w] = "X")
    BY DEF NetsResolved
  <2>3. nets'[w] = nets[w] /\ drivers' = drivers
    BY <1>1, <2>1, <2>2
  <2>4. {drivers'[d] : d \in DriversOf(w)} = {drivers[d] : d \in DriversOf(w)}
    BY <2>3
  <2> QED
    BY <2>3, <2>4 DEF NetsResolved
<1>7. OutputsFollow'
  <2> SUFFICES ASSUME NEW d \in Drivers, Kind[d[1]] \in Combinational, at' + Scale + Delay[d[1]] <= Stop,
                      d[1] \notin affected'
               PROVE  Agrees(d)'
    BY <1>1 DEF OutputsFollow
  <2>1. at + Scale + Delay[d[1]] <= Stop
    BY <1>2, <1>3, Units
  <2>2. Agrees(d)
    BY <1>1, <2>1 DEF OutputsFollow
  <2>3. \A w \in InputNets(d[1]) : nets'[w] = nets[w]
    <3>1. n \notin InputNets(d[1]) /\ InputNets(d[1]) \subseteq Nets
      BY <1>1, OutputIndices, InputsInCircuit DEF Dependents
    <3> QED
      BY <1>1, <3>1 DEF DigitalInv, TypeOK
  <2>4. Driven(d[1], nets') = Driven(d[1], nets)
    BY <2>3, SameInputs
  <2> QED
    BY <1>1, <2>2, <2>3, <2>4 DEF Agrees, Last
<1>8. DigitalInv'
  BY DigitalWrite
<1> QED
  BY <1>1, <1>4, <1>5, <1>6, <1>7, <1>8

\* Steps that leave the circuit alone.
LEMMA PropagateStands ==
  ASSUME PropagateInv, DigitalInv',
         UNCHANGED <<mode, nets, drivers, queue, at, target>>,
         phase' = "failed" \/ (phase = "process" /\ phase' \in {"idle", "done"}) \/ UNCHANGED <<phase, affected>>
  PROVE  PropagateInv'
<1> USE DEF PropagateInv
<1>1. WholeTimes' /\ InTime' /\ NetsResolved'
  BY DEF WholeTimes, InTime, NetsResolved
<1>2. OutputsFollow'
  <2> SUFFICES ASSUME NEW d \in Drivers, Kind[d[1]] \in Combinational, at + Scale + Delay[d[1]] <= Stop,
                      phase' # "failed", ~(phase' = "evaluate" /\ d[1] \in affected')
               PROVE  Agrees(d)'
    BY DEF OutputsFollow
  <2>1. Agrees(d)
    BY DEF OutputsFollow
  <2> QED
    BY <2>1 DEF Agrees, Last
<1> QED
  BY <1>1, <1>2

\* The bucket of time t does not change what the queue of an output ends with.
LEMMA BucketKeepsLast ==
  ASSUME DigitalInv, NEW t \in Heads, \A u \in Heads : t <= u, NEW d \in Drivers,
         drivers' = NewDrivers(t),
         queue' = [e \in Drivers |-> SubSeq(queue[e], Cardinality(Due(e, t)) + 1, Len(queue[e]))]
  PROVE  /\ Last(d)' = Last(d)
         /\ queue'[d] \in Seq(Pending)
         /\ \A i \in DOMAIN queue'[d] : \E j \in DOMAIN queue[d] : queue'[d][i] = queue[d][j]
<1> DEFINE q == queue[d]
           n == Cardinality(Due(d, t))
           rest == SubSeq(q, n + 1, Len(q))
<1>1. q \in Seq(Pending) /\ rest = queue'[d]
  BY DEF DigitalInv, TypeOK, Pending
<1>2. /\ n \in 0 .. Len(q) /\ (Due(d, t) = {} <=> n = 0)
      /\ rest \in Seq(Pending) /\ Len(rest) = Len(q) - n
      /\ \A i \in DOMAIN rest : n + i \in DOMAIN q /\ rest[i] = q[n + i]
  BY DueFirst DEF DigitalInv, TypeOK, Pending, QueuesAhead
<1>3. drivers'[d] = IF n = 0 THEN drivers[d] ELSE q[n].value
  BY <1>2 DEF NewDrivers
<1>4. /\ Last(d) = IF q = <<>> THEN drivers[d] ELSE q[Len(q)].value
      /\ Last(d)' = IF rest = <<>> THEN drivers'[d] ELSE rest[Len(rest)].value
  BY <1>1 DEF Last, Latest
<1> HIDE DEF q, n, rest
<1>5. Len(q) \in Nat /\ n \in Nat /\ n <= Len(q) /\ (q = <<>> <=> Len(q) = 0) /\ (rest = <<>> <=> Len(rest) = 0)
  <2>1. Len(q) \in Nat /\ (q = <<>> <=> Len(q) = 0)
    BY <1>1, EmptySeq, LenProperties
  <2>2. rest = <<>> <=> Len(rest) = 0
    BY <1>2, EmptySeq
  <2> QED
    BY <1>2, <2>1, <2>2
<1>6. Last(d)' = Last(d)
  <2>1. CASE rest = <<>>
    <3>1. n = Len(q)
      BY <1>2, <1>5, <2>1
    <3> QED
      BY <1>3, <1>5, <1>4, <2>1, <3>1
  <2>2. CASE rest # <<>>
    <3>1. Len(rest) \in DOMAIN rest /\ n + Len(rest) = Len(q) /\ q # <<>>
      <4>1. Len(rest) \in 1 .. Len(rest)
        BY <1>2, <1>5, <2>2
      <4> QED
        BY <1>2, <1>5, <2>2, <4>1, LenProperties
    <3>2. rest[Len(rest)] = q[Len(q)]
      BY <1>2, <3>1
    <3> QED
      BY <1>4, <2>2, <3>1, <3>2
  <2> QED
    BY <2>1, <2>2
<1> QED
  BY <1>1, <1>2, <1>6 DEF n, q, rest

\* A bucket makes its drivers and nets agree; who reads a change is affected.
LEMMA PropagateBucket ==
  ASSUME PropagateInv, Bucket
  PROVE  PropagateInv'
<1> USE DEF PropagateInv
<1>1. PICK t \in Heads :
        /\ \A u \in Heads : t <= u
        /\ t <= Limit
        /\ drivers' = NewDrivers(t) /\ nets' = NewNets(t)
        /\ queue' = [d \in Drivers |-> SubSeq(queue[d], Cardinality(Due(d, t)) + 1, Len(queue[d]))]
        /\ affected' = {c \in Components : \E n \in InputNets(c) : NewNets(t)[n] # nets[n]}
        /\ at' = t
        /\ phase' \in {"failed", "evaluate"}
  BY DEF Bucket
<1>2. phase = "process" /\ UNCHANGED <<mode, clock, target, state, scheduled>>
  BY DEF Bucket
<1>3. t \in Nat /\ at \in Nat /\ at <= t /\ Whole(t) /\ mode # "none"
  <2>1. PICK d \in Drivers : queue[d] # <<>> /\ t = queue[d][1].time
    BY DEF Heads
  <2>2. queue[d] \in Seq(Pending)
    BY DEF DigitalInv, TypeOK, Pending
  <2>3. 1 \in DOMAIN queue[d]
    BY <2>1, <2>2
  <2>4. t \in Nat /\ at \in Nat
    BY <2>1, <2>2, <2>3, PendingTimes, Units DEF DigitalInv, TypeOK
  <2> QED
    BY <1>2, <2>1, <2>3, <2>4 DEF DigitalInv, QueuesAhead, WholeTimes
<1>4. \A d \in Drivers :
        /\ Last(d)' = Last(d)
        /\ queue'[d] \in Seq(Pending)
        /\ \A i \in DOMAIN queue'[d] : \E j \in DOMAIN queue[d] : queue'[d][i] = queue[d][j]
  BY <1>1, BucketKeepsLast
<1>5. \A d \in Drivers : Delay[d[1]] \in Nat
  BY OutputIndices, CircuitAssumption DEF CircuitAssumption
<1>6. WholeTimes'
  BY <1>1, <1>3, <1>4 DEF WholeTimes
<1>7. InTime'
  <2>1. ASSUME NEW d \in Drivers, Kind[d[1]] \in Combinational, NEW i \in DOMAIN queue'[d]
        PROVE  queue'[d][i].time <= t + Delay[d[1]]
    <3>1. PICK j \in DOMAIN queue[d] : queue'[d][i] = queue[d][j]
      BY <1>4, <2>1
    <3>2. queue[d] \in Seq(Pending)
      BY DEF DigitalInv, TypeOK, Pending
    <3>3. queue[d][j].time \in Nat /\ queue[d][j].time <= at + Delay[d[1]]
      BY <2>1, <3>2, PendingTimes DEF InTime
    <3> QED
      BY <1>3, <1>5, <3>1, <3>3
  <2>2. mode = "session" => t <= target * Scale
    <3>1. target \in Nat
      BY DEF DigitalInv, TypeOK
    <3>2. mode = "session" => t <= target * Scale + Scale \div 2
      BY <1>1 DEF Limit
    <3> QED
      BY <1>3, <3>1, <3>2, WholeBound
  <2> QED
    BY <1>1, <1>2, <2>1, <2>2 DEF InTime
<1>8. NetsResolved'
  <2> SUFFICES ASSUME NEW n \in Nets, DriversOf(n) # {}
               PROVE  LET vs == {drivers'[d] : d \in DriversOf(n)} IN
                      nets'[n] = Resolve(vs) \/ (vs = {"Z"} /\ nets'[n] = "X")
    BY DEF NetsResolved
  <2>1. CASE n \in Touched(t)
    BY <1>1, <2>1 DEF NewNets
  <2>2. CASE n \notin Touched(t)
    <3>1. nets'[n] = nets[n]
      BY <1>1, <2>2 DEF NewNets
    <3>2. ASSUME NEW d \in DriversOf(n) PROVE drivers'[d] = drivers[d]
      <4>1. d \in Drivers /\ NetOf(d) = n
        BY DEF DriversOf
      <4>2. \A i \in Due(d, t) : queue[d][i].value = drivers[d]
        BY <2>2, <4>1 DEF Touched
      <4>3. CASE Due(d, t) = {}
        BY <1>1, <4>1, <4>3 DEF NewDrivers
      <4>4. CASE Due(d, t) # {}
        <5> DEFINE k == Cardinality(Due(d, t))
        <5>1. k \in Due(d, t)
          BY <1>1, <4>1, <4>4, DueFirst DEF DigitalInv, TypeOK, Pending, QueuesAhead
        <5> QED
          BY <1>1, <4>1, <4>2, <4>4, <5>1 DEF NewDrivers
      <4> QED
        BY <4>3, <4>4
    <3>3. {drivers'[d] : d \in DriversOf(n)} = {drivers[d] : d \in DriversOf(n)}
      BY <3>2
    <3> QED
      BY <3>1, <3>3 DEF NetsResolved
  <2> QED
    BY <2>1, <2>2
<1>9. OutputsFollow'
  <2> SUFFICES ASSUME NEW d \in Drivers, Kind[d[1]] \in Combinational, t + Scale + Delay[d[1]] <= Stop,
                      d[1] \notin affected', phase' = "evaluate"
               PROVE  Agrees(d)'
    BY <1>1 DEF OutputsFollow
  <2>1. at + Scale + Delay[d[1]] <= Stop
    BY <1>3, <1>5, Units
  <2>2. Agrees(d)
    BY <1>2, <2>1 DEF OutputsFollow
  <2>3. \A w \in InputNets(d[1]) : nets'[w] = nets[w]
    BY <1>1, OutputIndices
  <2>4. Driven(d[1], nets') = Driven(d[1], nets)
    BY <2>3, SameInputs
  <2> QED
    BY <1>4, <2>2, <2>3, <2>4 DEF Agrees
<1>10. DigitalInv'
  BY DigitalBucket
<1> QED
  BY <1>2, <1>3, <1>6, <1>7, <1>8, <1>9, <1>10

\* What is emitted comes last in its queue, since nothing in it is later.
LEMMA PropagateEvaluate ==
  ASSUME WholePicoseconds, PropagateInv, Evaluate
  PROVE  PropagateInv'
<1> USE DEF PropagateInv
<1>1. /\ phase = "evaluate" /\ phase' \in {"failed", "process"}
      /\ queue' = [d \in Drivers |-> IF Emits(d) THEN Insert(queue[d], Emitted(d)) ELSE queue[d]]
      /\ UNCHANGED <<mode, clock, target, nets, drivers, at, histories>>
  BY DEF Evaluate, EvaluateAll, Emitted
<1>2. mode # "none" /\ at \in Nat
  BY <1>1, Units DEF DigitalInv, QueuesAhead, TypeOK
<1>3. \A d \in Drivers : queue[d] \in Seq(Pending) /\ InOrder(queue[d])
  BY DEF DigitalInv, TypeOK, Pending, QueuesAhead
<1>4. \A d \in Drivers : d[1] \in Components /\ Delay[d[1]] \in Nat
  BY OutputIndices, CircuitAssumption DEF CircuitAssumption
<1>5. \A d \in Drivers : Emitted(d).time = at + Delay[d[1]]
  BY DEF Emitted, Event
<1>6. ASSUME NEW d \in Drivers, NEW i \in DOMAIN queue'[d]
      PROVE  queue'[d][i].time = at + Delay[d[1]] \/ \E j \in DOMAIN queue[d] : queue'[d][i] = queue[d][j]
  <2>1. CASE Emits(d)
    <3>1. Emitted(d) \in Pending /\ queue'[d] = Insert(queue[d], Emitted(d))
      BY <1>1, <2>1, EmittedPending
    <3>2. queue'[d][i] = Emitted(d) \/ \E j \in DOMAIN queue[d] : queue'[d][i] = queue[d][j]
      BY <1>3, <1>6, <3>1, InsertInOrder
    <3> QED
      BY <1>5, <3>2
  <2>2. CASE ~Emits(d)
    BY <1>1, <1>6, <2>2
  <2> QED
    BY <2>1, <2>2
<1>7. WholeTimes'
  <2>1. \A d \in Drivers : Whole(at + Delay[d[1]])
    BY <1>4, WholeSums DEF WholeTimes, WholePicoseconds
  <2> QED
    BY <1>1, <1>6, <2>1 DEF WholeTimes
<1>8. InTime'
  <2>1. ASSUME NEW d \in Drivers, Kind[d[1]] \in Combinational, NEW i \in DOMAIN queue'[d]
        PROVE  queue'[d][i].time <= at + Delay[d[1]]
    <3>1. at + Delay[d[1]] <= at + Delay[d[1]]
      BY <1>2, <1>4
    <3> QED
      BY <1>6, <2>1, <3>1 DEF InTime
  <2> QED
    BY <1>1, <2>1 DEF InTime
<1>9. NetsResolved'
  BY <1>1 DEF NetsResolved
<1>10. OutputsFollow'
  <2> SUFFICES ASSUME NEW d \in Drivers, Kind[d[1]] \in Combinational, at + Scale + Delay[d[1]] <= Stop
               PROVE  Agrees(d)'
    BY <1>1 DEF OutputsFollow
  <2>1. CASE d[1] \in affected
    <3>1. Emits(d)
      BY <1>2, <1>4, <2>1, Units DEF Emits, Evaluated
    <3>2. Emitted(d) \in Pending /\ queue'[d] = Insert(queue[d], Emitted(d))
      BY <1>1, <3>1, EmittedPending
    <3>3. \A i \in DOMAIN queue[d] : queue[d][i].time <= Emitted(d).time
      BY <1>5 DEF InTime
    <3>4. Len(queue'[d]) = Len(queue[d]) + 1 /\ queue'[d][Len(queue'[d])] = Emitted(d) /\ queue'[d] \in Seq(Pending)
      BY <1>3, <3>2, <3>3, InsertInOrder
    <3>5. queue'[d] # <<>>
      BY <1>3, <3>4
    <3>6. Emitted(d).value = Driven(d[1], nets)[d[2]]
      BY DEF Emitted, Event, Outputs
    <3> QED
      BY <1>1, <3>4, <3>5, <3>6 DEF Agrees, Last, Latest
  <2>2. CASE d[1] \notin affected
    <3>1. ~Emits(d)
      BY <2>2 DEF Emits, Evaluated
    <3>2. Agrees(d) /\ queue'[d] = queue[d]
      BY <1>1, <2>2, <3>1 DEF OutputsFollow
    <3> QED
      BY <1>1, <3>2 DEF Agrees, Last
  <2> QED
    BY <2>1, <2>2
<1>11. DigitalInv'
  BY DigitalEvaluate
<1> QED
  BY <1>1, <1>2, <1>7, <1>8, <1>9, <1>10, <1>11

LEMMA PropagateOther ==
  ASSUME PropagateInv, Finish \/ Interrupt \/ UNCHANGED vars
  PROVE  PropagateInv'
<1>1. DigitalInv'
  BY DigitalFinish, DigitalInterrupt, DigitalStutter DEF PropagateInv
<1>2. /\ UNCHANGED <<mode, nets, drivers, queue, at, target>>
      /\ \/ phase' = "failed" \/ (phase = "process" /\ phase' \in {"idle", "done"}) \/ UNCHANGED <<phase, affected>>
  BY DEF Finish, Interrupt, circuitVars, vars
<1> QED
  BY <1>1, <1>2, PropagateStands

(* In every circuit whose delays and clock levels are whole picoseconds,   *)
(* every net is the resolution of its drivers once one of them has driven  *)
(* it, and what is on its way to the output of a gate ends with the value  *)
(* of the present inputs (docs/digital.md:47).  Without the hypothesis a   *)
(* write can put an earlier event behind a later one, since the session may *)
(* have gone half a picosecond beyond the master: the fractions run shows  *)
(* it.                                                                     *)
THEOREM ChangesArrive ==
  ASSUME WholePicoseconds
  PROVE  Spec => []ChangesPropagate
<1>1. ASSUME PropagateInv, [Next]_vars PROVE PropagateInv'
  BY <1>1, PropagateBegin, PropagateAdvance, PropagateWrite, PropagateBucket, PropagateEvaluate, PropagateOther
     DEF Next, Run, Initialize, Operation
<1>2. PropagateInv => ChangesPropagate
  <2> SUFFICES ASSUME PropagateInv, phase \in {"idle", "process", "done"} PROVE ChangesPropagate
    BY DEF ChangesPropagate
  <2>1. \A d \in Drivers : (Kind[d[1]] \in Combinational /\ at + Scale + Delay[d[1]] <= Stop) => Agrees(d)
    BY DEF PropagateInv, OutputsFollow
  <2> QED
    BY <2>1 DEF PropagateInv, NetsResolved, ChangesPropagate, Agrees, Last
<1> QED
  BY <1>1, <1>2, PropagateInit, PTL DEF Spec
==========================================================================
