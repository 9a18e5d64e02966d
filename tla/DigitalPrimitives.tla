------------------------ MODULE DigitalPrimitives ------------------------
(***************************************************************************)
(* The four-state logic of digital.rs: the operators of LogicValue, the    *)
(* resolution of a net, and what a component drives and stores when it is  *)
(* evaluated.                                                              *)
(***************************************************************************)
EXTENDS Integers, Sequences

CONSTANTS
  None,
  Components,
  Kind,      \* the component kind as the circuit names it
  In, Out,   \* the net of each input pin, by name, and of each output, in order
  Data,      \* the nets of d0, d1, ... of a register
  Edge,      \* "rising" or "falling", for components with a clock
  Initial    \* the initial bits of a component with state, the lowest first

Logic == {"0", "1", "X", "Z"}

Known(v) == v \in {"0", "1"}
Buffer(v) == IF Known(v) THEN v ELSE "X"
Not(v) == CASE v = "0" -> "1" [] v = "1" -> "0" [] OTHER -> "X"
And(v, w) == IF "0" \in {v, w} THEN "0" ELSE IF {v, w} = {"1"} THEN "1" ELSE "X"
Or(v, w) == IF "1" \in {v, w} THEN "1" ELSE IF {v, w} = {"0"} THEN "0" ELSE "X"
Xor(v, w) == IF ~(Known(v) /\ Known(w)) THEN "X" ELSE IF v = w THEN "0" ELSE "1"

(* A net with the set vs of driver values: Z releases it, an unknown       *)
(* driver or two that differ make it unknown, and without drivers it is X. *)
Resolve(vs) ==
  IF vs = {} \/ "X" \in vs \/ {"0", "1"} \subseteq vs THEN "X"
  ELSE IF "0" \in vs THEN "0" ELSE IF "1" \in vs THEN "1" ELSE "Z"

---------------------------------------------------------------------------
(* Components. *)

Latches == {"d_latch", "sr_latch"}
FlipFlops == {"d_flip_flop", "jk_flip_flop", "t_flip_flop", "sr_flip_flop"}
Vectors == {"register", "counter"}
Clocked == FlipFlops \cup Vectors
Sequential == Latches \cup Clocked
Sources == {"logic_input", "digital_clock"}
Combinational ==
  {"buffer", "not_gate", "and_gate", "or_gate", "xor_gate", "nand_gate", "nor_gate", "xnor_gate",
   "tri_state_buffer", "mux2", "demux2", "decoder2_to_4"}
Kinds == Sequential \cup Sources \cup Combinational \cup {"logic_output"}

(* An optional pin that is not there reads zero. *)
Input(c, pin, nets) == IF pin \in DOMAIN In[c] THEN nets[In[c][pin]] ELSE "0"

(* What a component without state drives. *)
Driven(c, nets) ==
  LET i(pin) == Input(c, pin, nets)
      a == i("a")
      b == i("b")
      sel == Buffer(i("sel"))
      enable == Buffer(i("enable"))
      in == Buffer(i("in")) IN
  CASE Kind[c] = "buffer" -> <<in>>
    [] Kind[c] = "not_gate" -> <<Not(in)>>
    [] Kind[c] = "and_gate" -> <<And(a, b)>>
    [] Kind[c] = "or_gate" -> <<Or(a, b)>>
    [] Kind[c] = "xor_gate" -> <<Xor(a, b)>>
    [] Kind[c] = "nand_gate" -> <<Not(And(a, b))>>
    [] Kind[c] = "nor_gate" -> <<Not(Or(a, b))>>
    [] Kind[c] = "xnor_gate" -> <<Not(Xor(a, b))>>
    [] Kind[c] = "tri_state_buffer" ->
         <<CASE enable = "0" -> "Z" [] enable = "1" -> in [] OTHER -> "X">>
    [] Kind[c] = "mux2" ->
         <<CASE sel = "0" -> Buffer(a) [] sel = "1" -> Buffer(b)
             [] OTHER -> IF Buffer(a) = Buffer(b) THEN Buffer(a) ELSE "X">>
    [] Kind[c] = "demux2" ->
         CASE sel = "0" -> <<in, "0">> [] sel = "1" -> <<"0", in>> [] OTHER -> <<"X", "X">>
    [] Kind[c] = "decoder2_to_4" ->
         [y \in 1 .. 4 |->
            CASE enable = "0" -> "0"
              [] enable = "1" /\ Known(a) /\ Known(b) ->
                   IF y = 1 + (IF a = "1" THEN 1 ELSE 0) + (IF b = "1" THEN 2 ELSE 0) THEN "1" ELSE "0"
              [] OTHER -> "X"]

(* The value that set and reset force on a latch or flip-flop, if any: an  *)
(* unknown one, or both, make it unknown.                                  *)
AsyncSetReset(c, nets) ==
  LET set == Buffer(Input(c, "set", nets))
      reset == Buffer(Input(c, "reset", nets)) IN
  CASE set = "0" /\ reset = "0" -> None
    [] set = "1" /\ reset = "0" -> "1"
    [] set = "0" /\ reset = "1" -> "0"
    [] OTHER -> "X"

SrNext(q, set, reset) ==
  CASE Buffer(set) = "0" /\ Buffer(reset) = "0" -> q
    [] Buffer(set) = "1" /\ Buffer(reset) = "0" -> "1"
    [] Buffer(set) = "0" /\ Buffer(reset) = "1" -> "0"
    [] OTHER -> "X"

(* A value x of an enable: keep, take the new one, or lose the value. *)
Enabled(x, old, new, unknown) ==
  CASE Buffer(x) = "0" -> old [] Buffer(x) = "1" -> new [] OTHER -> unknown

Unknown(bits) == [i \in DOMAIN bits |-> "X"]
Cleared(bits) == [i \in DOMAIN bits |-> "0"]

(* One more, modulo 2 to the width: a bit flips when all below it are one. *)
Increment(bits) ==
  IF \E i \in DOMAIN bits : ~Known(bits[i]) THEN Unknown(bits)
  ELSE [i \in DOMAIN bits |-> IF \A j \in 1 .. i - 1 : bits[j] = "1" THEN Not(bits[i]) ELSE bits[i]]

ClockIn(c, nets) == Buffer(Input(c, "clk", nets))
IsEdge(c, previous, clk) ==
  IF Edge[c] = "rising" THEN previous = "0" /\ clk = "1" ELSE previous = "1" /\ clk = "0"

(* The bits after the edge of the clock. *)
AtEdge(c, nets, q) ==
  LET i(pin) == Input(c, pin, nets)
      enable == IF "enable" \in DOMAIN In[c] THEN i("enable") ELSE "1" IN
  CASE Kind[c] = "d_flip_flop" -> <<Buffer(i("d"))>>
    [] Kind[c] = "jk_flip_flop" ->
         <<IF Known(i("j")) /\ i("j") = i("k")
           THEN Enabled(i("j"), q[1], Not(q[1]), "X") ELSE SrNext(q[1], i("j"), i("k"))>>
    [] Kind[c] = "t_flip_flop" -> <<Enabled(i("t"), q[1], Not(q[1]), "X")>>
    [] Kind[c] = "sr_flip_flop" -> <<SrNext(q[1], i("s"), i("r"))>>
    [] Kind[c] = "register" ->
         Enabled(enable, q, [n \in DOMAIN q |-> Buffer(nets[Data[c][n]])], Unknown(q))
    [] Kind[c] = "counter" -> Enabled(enable, q, Increment(q), Unknown(q))

(* The bits after an evaluation: set and reset first, then enable or edge. *)
Stored(c, nets, s) ==
  LET i(pin) == Input(c, pin, nets)
      async == AsyncSetReset(c, nets) IN
  IF Kind[c] \in Latches \cup FlipFlops /\ async # None THEN <<async>>
  ELSE IF Kind[c] \in Vectors /\ i("reset") = "1" THEN Cleared(s.bits)
  ELSE CASE Kind[c] = "d_latch" -> Enabled(i("enable"), s.bits, <<Buffer(i("d"))>>, <<"X">>)
         [] Kind[c] = "sr_latch" -> <<SrNext(s.bits[1], i("s"), i("r"))>>
         [] Kind[c] \in Clocked /\ IsEdge(c, s.clk, ClockIn(c, nets)) -> AtEdge(c, nets, s.bits)
         [] Kind[c] = "d_flip_flop" /\ ClockIn(c, nets) = "X" -> <<Buffer(s.bits[1])>>
         [] OTHER -> s.bits

(* CompiledDigitalComponent::evaluate: the state it leaves and the outputs. *)
NextStateForgetful(c, nets, s) ==
  [bits |-> Stored(c, nets, s),
   clk |-> IF Kind[c] \in Clocked /\ AsyncSetReset(c, nets) = None THEN ClockIn(c, nets) ELSE s.clk]
NextState(c, nets, s) ==
  [bits |-> Stored(c, nets, s), clk |-> IF Kind[c] \in Clocked THEN ClockIn(c, nets) ELSE s.clk]
StateOutputs(c, s) == IF Kind[c] \in Vectors THEN s.bits ELSE <<s.bits[1], Not(s.bits[1])>>
Outputs(c, nets, s) == IF Kind[c] \in Combinational THEN Driven(c, nets) ELSE StateOutputs(c, s)
==========================================================================
