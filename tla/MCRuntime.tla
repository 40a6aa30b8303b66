------------------------------- MODULE MCRuntime -------------------------------
(* Runtime on two processes and one or two sampling intervals; a run chooses   *)
(* the keys it explores.                                                       *)
EXTENDS Runtime
CONSTANTS p1, p2, none

Press(keys, values) == [key : keys, value : values]

MCProcesses  == {p1, p2}
OneInterval  == {1}
TwoIntervals == {1, 2}

ServiceKeys  == Press({"Inspect"}, MCProcesses) \cup Press({"Refresh", "Reload"}, {none})
TurnKeys     == Press({"Interval"}, {2}) \cup Press({"Reload", "OpenBattery", "OpenOther", "Quit"},
                                               {none})
=============================================================================
