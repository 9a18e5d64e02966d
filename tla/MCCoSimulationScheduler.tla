---------------------- MODULE MCCoSimulationScheduler ----------------------
(***************************************************************************)
(* A closed loop for CoSimulationScheduler: an ADC (1) and a DAC (2)       *)
(* between a digital backend (3) and a SPICE backend (4); ports 2 -> 5,    *)
(* 6 -> 3, 4 -> 7 and 8 -> 1.  The other link lists are refused: they      *)
(* cross domains, read an input, and drive a target twice.                 *)
(***************************************************************************)
EXTENDS CoSimulationScheduler

LoopOwner == <<1, 1, 2, 2, 3, 3, 4, 4>>
LoopDirection == <<"in", "out", "in", "out", "in", "inout", "in", "out">>
LoopDomain == <<"analog", "digital", "digital", "analog", "digital", "digital", "analog", "analog">>
LoopUnit == <<"V", None, None, "V", None, None, "V", "V">>
LoopKind == <<"adc", "dac", "events", "sampled">>
LoopRegistrations ==
  {<<<<8, 1>>, <<2, 5>>, <<4, 7>>, <<6, 3>>>>,
   <<<<6, 7>>>>, <<<<5, 3>>>>, <<<<2, 3>>, <<6, 3>>>>}
============================================================================
