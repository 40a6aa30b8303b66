---------------------------------- MODULE Rates ----------------------------------
(***************************************************************************)
(* Cumulative counters turned into rates: one counter and its baseline     *)
(* (rates/counter.rs), the bounded table of baselines (rates/keyed.rs),    *)
(* and the two collectors that feed such tables with interfaces and disks, *)
(* pass after pass (common/collector.rs, linux/enrich.rs).                 *)
(*                                                                         *)
(* A behaviour is that of one table.  What the machine did since the last  *)
(* refresh is chosen at the refresh: a counter moved on, started again, or *)
(* its device is gone.  A pass in which the native layer reads nothing, or *)
(* fails to, leaves its tables alone.                                      *)
(***************************************************************************)
EXTENDS Integers, FiniteSets

CONSTANTS
  Keys,        \* devices that may be listed
  Loopback,    \* the interface that always is
  None,
  Modulus,     \* CounterWidth::modulus
  MaxTracked,  \* the cap of the table
  MaxIdle      \* bound: passes since a key was observed are told apart up to here

Values  == 0..(Modulus - 1)
Entries == [value : Values, idle : 0..MaxIdle, moved : Values, restarted : BOOLEAN,
            left : BOOLEAN]

ASSUME RatesAssumption ==
  /\ Loopback \in Keys /\ IsFiniteSet(Keys)
  /\ Modulus \in Nat \ {0} /\ MaxTracked \in Nat \ {0} /\ MaxIdle \in Nat \ {0}
  /\ None \notin Int /\ None \notin Entries

VARIABLES
  table,      \* which table this is: of which collector, of what, of known width or not
  listed,     \* the counter of each device of the last refresh, or None
  entries,    \* KeyedTrackers::entries, or None
  todo,       \* the devices the pass has still to observe
  measuring,  \* a pass is under way
  published   \* what the pass under way made of the devices it has observed, or None

vars == <<table, listed, entries, todo, measuring, published>>

Tables == [by : {"common", "linux"}, of : {"interfaces", "disks"}, known : BOOLEAN]

Listed  == {k \in Keys : listed[k] # None}
Tracked == {k \in Keys : entries[k] # None}

Lesser(a, b) == IF a < b THEN a ELSE b

-----------------------------------------------------------------------------
(* One counter *)

\* Mutant: whichever way round is the shorter, a counter of known width has wrapped.
AlwaysWrapped(previous, current, known) ==
  IF current >= previous THEN current - previous
  ELSE IF known THEN Modulus - (previous - current) ELSE None

\* forward_delta: a backwards move is a wrap if the way through the ceiling is the
\* shorter one, and nothing explains it otherwise.  The guard against readings beyond the
\* declared width is not here: Values are below the modulus.
ForwardDelta(previous, current, known) ==
  IF current >= previous THEN current - previous
  ELSE IF known /\ Modulus - (previous - current) < previous - current
         THEN Modulus - (previous - current)
         ELSE None

WarmingUp == [state |-> "WarmingUp"]

\* CounterTracker::observe and CounterDelta::rate, of the last accepted reading and a
\* new one; a delta of None is CounterReset.  What happened between the two is kept as
\* history.
Rate(entry, value) ==
  [state     |-> IF ForwardDelta(entry.value, value, table.known) = None
                   THEN "CounterReset" ELSE "Available",
   delta     |-> ForwardDelta(entry.value, value, table.known),
   moved     |-> entry.moved,
   restarted |-> entry.restarted,
   left      |-> entry.left]

\* A reading that is the baseline of the next one.  moved and restarted are history: how
\* far the device went since, and whether its counter started again meanwhile; left says
\* that a refresh since did not list the device.
Baseline(value) ==
  [value |-> value, idle |-> 0, moved |-> 0, restarted |-> FALSE, left |-> FALSE]

-----------------------------------------------------------------------------
(* The table *)

\* Mutant: whatever entry comes first makes room.
AnyVictim == Tracked

\* evict_oldest: the entries that were observed longest ago.
Victims == {k \in Tracked : \A other \in Tracked : entries[other].idle <= entries[k].idle}

\* What is left of the entries when one more key needs a place.
WithRoom ==
  IF Cardinality(Tracked) >= MaxTracked
    THEN {[entries EXCEPT ![victim] = None] : victim \in Victims}
    ELSE {entries}

\* KeyedTrackers::observe, for one of the devices the loop of a pass goes through.
Observe(key) ==
  /\ key \in todo
  /\ todo' = todo \ {key}
  /\ IF key \in Tracked
       THEN /\ published' = [published EXCEPT ![key] = Rate(entries[key], listed[key])]
            /\ entries' = [entries EXCEPT ![key] = Baseline(listed[key])]
       ELSE /\ published' = [published EXCEPT ![key] = WarmingUp]
            /\ \E room \in WithRoom :
                 entries' = [room EXCEPT ![key] = Baseline(listed[key])]
  /\ UNCHANGED <<table, listed, measuring>>

\* Mutant: what is gone keeps its baseline.
KeptForEver == entries

\* retain: only the devices of this pass keep a baseline.  The disks of the common
\* collector have no such step.
Retained ==
  IF table.by = "common" /\ table.of = "disks"
    THEN entries
    ELSE [k \in Keys |-> IF k \in Listed THEN entries[k] ELSE None]

\* The end of the loop.
Finish ==
  /\ measuring /\ todo = {}
  /\ entries' = Retained
  /\ measuring' = FALSE
  /\ published' = [k \in Keys |-> None]
  /\ UNCHANGED <<table, listed, todo>>

-----------------------------------------------------------------------------
(* The passes *)

\* The counter of a device as it was read last.
LastReading(key) ==
  IF listed[key] # None THEN listed[key]
  ELSE IF entries[key] # None THEN entries[key].value
  ELSE None

Wrapped(value) == IF value < Modulus THEN value ELSE value - Modulus

\* What a device that is listed may have done: its counter moved on, or started again from
\* zero because the device was re-created or its driver reset.  The counter of a device
\* that no one remembers may be anything.
Moves(key) ==
  {[value |-> n, moved |-> n, restarted |-> TRUE] : n \in Values}
    \cup (IF LastReading(key) = None THEN {}
          ELSE {[value |-> Wrapped(LastReading(key) + n), moved |-> n, restarted |-> FALSE] :
                  n \in Values})

Gone == [value |-> None]

\* An entry at a refresh in which its device made this move.
Aged(entry, move) ==
  IF entry = None THEN None
  ELSE IF move = Gone
    THEN [entry EXCEPT !.idle = Lesser(@ + 1, MaxIdle), !.left = TRUE]
    ELSE [entry EXCEPT !.idle = Lesser(@ + 1, MaxIdle), !.moved = move.moved,
                       !.restarted = move.restarted]

\* A pass that reads the devices.  The loopback interface is always among them; the
\* native layer returns early from a list without any.
Refresh ==
  /\ ~measuring
  /\ \E moves \in [Keys -> UNION {Moves(k) : k \in Keys} \cup {Gone}] :
       /\ \A k \in Keys : moves[k] \in Moves(k) \cup {Gone}
       /\ table.of = "interfaces" => moves[Loopback] # Gone
       /\ table.by = "linux" => \E k \in Keys : moves[k] # Gone
       /\ listed' = [k \in Keys |-> moves[k].value]
       /\ entries' = [k \in Keys |-> Aged(entries[k], moves[k])]
       /\ todo' = {k \in Keys : moves[k] # Gone}
  /\ measuring' = TRUE
  /\ UNCHANGED <<table, published>>

\* A pass of the common collector that is not of the fast tier observes what the last
\* refresh listed once more.
Repeat ==
  /\ ~measuring
  /\ table.by = "common"
  /\ entries' = [k \in Keys |->
                   IF entries[k] = None THEN None
                   ELSE [entries[k] EXCEPT !.idle = Lesser(@ + 1, MaxIdle)]]
  /\ todo' = Listed
  /\ measuring' = TRUE
  /\ UNCHANGED <<table, listed, published>>

-----------------------------------------------------------------------------

Init ==
  /\ table \in Tables
  /\ listed = [k \in Keys |-> None] /\ entries = listed
  /\ todo = {} /\ measuring = FALSE /\ published = listed

Next == Refresh \/ Repeat \/ (\E key \in Keys : Observe(key)) \/ Finish

Spec == Init /\ [][Next]_vars

-----------------------------------------------------------------------------
(* Properties *)

Results == {None, WarmingUp}
             \cup [state : {"CounterReset", "Available"}, delta : Values \cup {None},
                   moved : Values, restarted : BOOLEAN, left : BOOLEAN]

\* Every variable holds a value of its kind.
TypeOK ==
  /\ table \in Tables
  /\ listed \in [Keys -> Values \cup {None}]
  /\ entries \in [Keys -> Entries \cup {None}]
  /\ todo \subseteq Listed /\ measuring \in BOOLEAN
  /\ published \in [Keys -> Results]

\* What may be published of a move.  One of less than half the width, of a counter that did
\* not start again, appears as it was, or as a reset if the width is unknown; more than what
\* moved appears only for a counter of known width that started again, and then it is less
\* than half the width.
Truthful(result, known) ==
  /\ ~result.restarted /\ 2 * result.moved < Modulus =>
       \/ result.delta = result.moved
       \/ result.state = "CounterReset" /\ ~known
  /\ result.state = "Available" /\ result.delta > result.moved =>
       known /\ result.restarted /\ 2 * result.delta < Modulus

\* Whatever wraps, starts again or was evicted between two readings, what the table makes
\* of a backwards move is the shorter way round (rates/counter.rs:76-86): it takes no small
\* wrap for a reset, and where it takes a reset for a wrap it invents less than half the
\* width of traffic, and none with an unknown width.
DeltaIsMovement ==
  \A k \in Keys :
    published[k] # None /\ published[k] # WarmingUp => Truthful(published[k], table.known)

\* The two readings behind the rate of an interface were taken while it was there all the
\* time, as far as any refresh saw (rates/keyed.rs:6-8): there is no delta over a gap.
NoDeltaOverGap ==
  table.of = "interfaces" =>
    \A k \in Keys :
      published[k] # None /\ published[k].state = "Available" => ~published[k].left

\* After a pass the table holds the devices of that pass, if they fit: to make room for
\* one of them an entry goes that the pass is not about, or has yet to observe again; and
\* at no time does the table outgrow its cap.
TableHoldsTheLive ==
  /\ Cardinality(Tracked) <= MaxTracked
  /\ ~measuring /\ Cardinality(Listed) <= MaxTracked => Listed \subseteq Tracked
=============================================================================
