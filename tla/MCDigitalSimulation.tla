----------------------- MODULE MCDigitalSimulation -----------------------
(***************************************************************************)
(* Two circuits for DigitalSimulation.                                     *)
(*                                                                         *)
(* The board: a clock (1), a flip-flop with a reset (2), a gate without    *)
(* delay that feeds back on itself (3), and a tri-state buffer (4) and an  *)
(* inverter (5) that share a bus with a counter (6) behind it.             *)
(***************************************************************************)
EXTENDS DigitalSimulation

BoardNets == {"clk", "d", "en", "q", "fb", "bus", "n"}
BoardKind ==
  <<"digital_clock", "d_flip_flop", "nand_gate", "tri_state_buffer", "not_gate", "counter">>
BoardIn ==
  <<<<>>, [d |-> "d", clk |-> "clk", reset |-> "en"], [a |-> "en", b |-> "fb"],
    [in |-> "q", enable |-> "d"], [in |-> "q"], [clk |-> "bus"]>>
BoardOut == <<<<"clk">>, <<"q">>, <<"fb">>, <<"bus">>, <<"bus">>, <<"n">>>>
BoardEdge == <<None, "rising", None, None, None, "falling">>
BoardInitial == <<<<"0">>, <<"X">>, None, None, None, <<"0">>>>
BoardDelay == <<0, 0, 0, 0, 2, 0>>
BoardLevels == <<2, 0, 0, 0, 0, 0>>
NoData == <<<<>>, <<>>, <<>>, <<>>, <<>>, <<>>>>

(***************************************************************************)
(* A gate that gates a clock whose edges fall between picoseconds.         *)
(***************************************************************************)
GatedNets == {"clk", "d", "out"}
GatedKind == <<"digital_clock", "and_gate">>
GatedIn == <<<<>>, [a |-> "clk", b |-> "d"]>>
GatedOut == <<<<"clk">>, <<"out">>>>
GatedInitial == <<<<"0">>, None>>
GatedDelay == <<0, 4>>
GatedLevels == <<5, 0>>
==========================================================================
