-------------------------------- MODULE EventFeed --------------------------------
(***************************************************************************)
(* What the way from a thread to the application state promises for the    *)
(* numbered events of one kind.  An event is lost before it is accepted or *)
(* not at all, unless its kind is replaceable: then an accepted one may    *)
(* still give way to a newer one that waits, but the newest never does.    *)
(* Those that are left are taken once each, in order.                      *)
(***************************************************************************)
EXTENDS Integers

CONSTANT Replaceable  \* whether a newer event stands for an older one

VARIABLES
  offered,  \* the number of the last event offered
  waiting,  \* the numbers of the accepted events that nobody took
  taken     \* the number of the last event taken

Init == offered = 0 /\ waiting = {} /\ taken = 0

\* A new event is accepted, or there is no room for it.
Offer ==
  /\ offered' > offered
  /\ waiting' \in {waiting, waiting \cup {offered'}}
  /\ UNCHANGED taken

\* The oldest is taken.
Take ==
  /\ taken' \in waiting
  /\ \A number \in waiting : taken' <= number
  /\ waiting' = waiting \ {taken'}
  /\ UNCHANGED offered

\* An older one gives way to a newer one.
Supersede ==
  /\ Replaceable
  /\ \E older, newer \in waiting : older < newer /\ waiting' = waiting \ {older}
  /\ UNCHANGED <<offered, taken>>

Next == Offer \/ Take \/ Supersede

Spec == Init /\ [][Next]_<<offered, waiting, taken>>
=============================================================================
