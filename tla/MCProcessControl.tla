---------------------------- MODULE MCProcessControl ----------------------------
(* ProcessControl on one or two PIDs; a run chooses the keys it explores.       *)
EXTENDS ProcessControl
CONSTANTS p, q
OnePid  == {p}
TwoPids == {p, q}
Symmetry == Permutations(TwoPids)

ActionKeys  == {"Select", "Inspect", "Propose", "Cancel", "Pause"}
TableKeys   == {"Select", "Follow", "Pin", "Pause", "Rearrange"}
=============================================================================
