------------------------------- MODULE MCTimeLens -------------------------------
(* TimeLens on a ring of one to three samples. *)
EXTENDS TimeLens
MCIntervals == {1, 2, 3}   \* 3 is out of range
MCDurations == {2, 4}
MCSteps     == {1, 2}
=============================================================================
