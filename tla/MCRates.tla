--------------------------------- MODULE MCRates ---------------------------------
(* Rates of three devices, one of them the loopback interface, in a table of two.  *)
EXTENDS Rates, TLC
CONSTANTS lo, eth, usb
MCKeys == {lo, eth, usb}
Devices == Permutations({eth, usb})
=============================================================================
