-------------------------------- MODULE MCDebugLog --------------------------------
(* Two programs that log to one path.                                            *)
EXTENDS DebugLog, TLC
CONSTANTS w1, w2, f1, f2, f3, f4
MCWriters   == {w1, w2}
MCFiles     == {f1, f2, f3, f4}
Identical   == Permutations(MCWriters) \cup Permutations(MCFiles)
MCLengths   == {2, 4}
=============================================================================
