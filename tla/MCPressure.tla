------------------------------- MODULE MCPressure -------------------------------
(* Pressure on one signal and two sampling intervals of which the longer looks  *)
(* like a gap to the shorter.                                                   *)
EXTENDS Pressure
CONSTANTS cpu

MCSignals  == {cpu}
MCCadences == {2, 5}
=============================================================================
