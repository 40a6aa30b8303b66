------------------------------ MODULE MCProcessTree -------------------------------
(* Three PIDs, one of them seen with two processes.                              *)
EXTENDS ProcessTree
CONSTANT Unavailable
P(pid, start) == [pid |-> pid, start |-> start]
MCIdentities == {P(1, 1), P(2, 1), P(2, 2), P(3, 1)}
MCParents    == 0..3
MCMetric     == P(1, 1) :> [value |-> 5, age |-> 0] @@ P(2, 1) :> Unavailable
                @@ P(2, 2) :> [value |-> 7, age |-> 0] @@ P(3, 1) :> [value |-> 5, age |-> 1]
MCFilters    == {{}, {P(2, 1), P(3, 1)}}
MCFollowable == {P(3, 1)}
=============================================================================
