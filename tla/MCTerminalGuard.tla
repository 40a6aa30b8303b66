---------------------------- MODULE MCTerminalGuard ----------------------------
(* TerminalGuard with two workers that can panic at the same time.             *)
EXTENDS TerminalGuard, TLC
CONSTANTS w1, w2
MCWorkers == {w1, w2}
Symmetry  == Permutations(MCWorkers)
=============================================================================
