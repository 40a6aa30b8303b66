------------------------------ MODULE SampleWindow ------------------------------
(***************************************************************************)
(* What the history ring and its cursor promise the rest of the program.   *)
(* Recorded samples get consecutive absolute indices.  An index names the  *)
(* same sample for as long as it is retained, samples are dropped only     *)
(* from the old end and only when one is recorded, and nothing but a       *)
(* request of the user moves the cursor.                                   *)
(***************************************************************************)
EXTENDS Integers

CONSTANTS Samples, Following

VARIABLES
  next,    \* the absolute index the next sample will get
  window,  \* the retained samples, by absolute index
  cursor   \* Following, or the absolute index it is pinned to

Empty == [index \in {} |-> Following]

Init == next = 0 /\ window = Empty /\ cursor = Following

\* A sample newer than every retained one is added; old ones may be dropped.
Add ==
  \E sample \in Samples, oldest \in 0..next :
    /\ \A index \in DOMAIN window :
         /\ window[index].sequence < sample.sequence
         /\ window[index].offset <= sample.offset
    /\ oldest..(next - 1) \subseteq DOMAIN window
    /\ window' = [index \in oldest..next |->
                    IF index = next THEN sample ELSE window[index]]
    /\ next' = next + 1
    /\ UNCHANGED cursor

\* The user pins or moves the cursor: always onto a retained sample.
Pin ==
  /\ cursor' \in DOMAIN window
  /\ UNCHANGED <<next, window>>

Follow ==
  /\ cursor' = Following
  /\ UNCHANGED <<next, window>>

\* A new ring: nothing retained, and no index of the old one survives.
Restart == next' = 0 /\ window' = Empty /\ cursor' = Following

Next == Add \/ Pin \/ Follow \/ Restart

Spec == Init /\ [][Next]_<<next, window, cursor>>
=============================================================================
