------------------------------ MODULE RatesProofs ------------------------------
(***************************************************************************)
(* A backwards move is the shorter way round, no delta spans a gap and the *)
(* table keeps the live devices, for any devices, counter width and cap.   *)
(* The argument follows one pass: an entry still to be observed explains   *)
(* the counter that was read, an entry that was observed equals it, and    *)
(* whatever else is in the table is older than both.                       *)
(***************************************************************************)
EXTENDS Rates, FiniteSetTheorems, TLAPS

Seen == Listed \ todo

\* The counter of a device still to be observed is what its entry and its move make it.
Explained ==
  \A k \in todo \cap Tracked :
    /\ entries[k].restarted => listed[k] = entries[k].moved
    /\ ~entries[k].restarted => listed[k] = Wrapped(entries[k].value + entries[k].moved)

\* The entry of a device that was observed is its last reading, and nothing else yet.
UpToDate ==
  \A k \in Seen \cap Tracked :
    /\ entries[k].value = listed[k] /\ entries[k].moved = 0
    /\ ~entries[k].restarted /\ ~entries[k].left

\* During a pass every entry but those it has observed is at least one pass old.
OthersAreOlder ==
  /\ ~measuring => todo = {}
  /\ measuring => \A k \in Tracked : entries[k].idle = 0 <=> k \in Seen

\* The devices observed so far are in the table, if it has room for all of them.
SeenAreHeld ==
  /\ Cardinality(Tracked) <= MaxTracked
  /\ Cardinality(Listed) <= MaxTracked => Seen \subseteq Tracked

\* No entry of an interface outlives the pass in which the interface is not listed.
NoneOutlives ==
  table.of = "interfaces" =>
    /\ ~measuring => Tracked \subseteq Listed
    /\ \A k \in todo \cap Tracked : ~entries[k].left

IInv ==
  /\ TypeOK
  /\ Explained
  /\ UpToDate
  /\ OthersAreOlder
  /\ SeenAreHeld
  /\ NoneOutlives
  /\ DeltaIsMovement
  /\ NoDeltaOverGap

-----------------------------------------------------------------------------
(* One counter *)

LEMMA WrappedType ==
  ASSUME NEW a \in Values, NEW b \in Values
  PROVE  Wrapped(a + b) \in Values
BY RatesAssumption DEF Values, Wrapped

LEMMA BaselineType ==
  ASSUME NEW value \in Values
  PROVE  /\ Baseline(value) \in Entries /\ Baseline(value) # None
         /\ Baseline(value).value = value /\ Baseline(value).idle = 0
         /\ Baseline(value).moved = 0
         /\ ~Baseline(value).restarted /\ ~Baseline(value).left
<1>1. Baseline(value) \in Entries
  BY RatesAssumption DEF Baseline, Entries, Values
<1> QED BY <1>1, RatesAssumption DEF Baseline

\* A rate of an entry that explains the reading tells what moved.
LEMMA RateIsTrue ==
  ASSUME NEW entry \in Entries, NEW value \in Values, table \in Tables,
         entry.restarted => value = entry.moved,
         ~entry.restarted => value = Wrapped(entry.value + entry.moved)
  PROVE  /\ Rate(entry, value) \in Results /\ Rate(entry, value) # WarmingUp
         /\ Rate(entry, value).left = entry.left
         /\ Truthful(Rate(entry, value), table.known)
<1> DEFINE delta  == ForwardDelta(entry.value, value, table.known)
           result == Rate(entry, value)
<1>1. /\ entry.value \in Nat /\ entry.value < Modulus /\ entry.moved \in Nat
      /\ entry.moved < Modulus /\ value \in Nat /\ value < Modulus
      /\ Modulus \in Nat \ {0} /\ None \notin Int /\ table.known \in BOOLEAN
      /\ entry.restarted \in BOOLEAN /\ entry.left \in BOOLEAN /\ entry.moved \in Values
  BY RatesAssumption DEF Entries, Values, Tables
<1>2. /\ delta = None \/ delta \in Values
      /\ None \notin Values
  BY <1>1 DEF ForwardDelta, Values
<1>3. ~entry.restarted /\ 2 * entry.moved < Modulus =>
        delta = entry.moved \/ (delta = None /\ ~table.known)
  BY <1>1 DEF ForwardDelta, Wrapped
<1>4. delta # None /\ delta > entry.moved =>
        table.known /\ entry.restarted /\ 2 * delta < Modulus
  BY <1>1 DEF ForwardDelta, Wrapped
<1> HIDE DEF delta
<1>5. result = [state |-> IF delta = None THEN "CounterReset" ELSE "Available",
                delta |-> delta, moved |-> entry.moved,
                restarted |-> entry.restarted, left |-> entry.left]
  BY DEF Rate, delta
<1> HIDE DEF result
<1>6. /\ result.state = IF delta = None THEN "CounterReset" ELSE "Available"
      /\ result.delta = delta /\ result.moved = entry.moved
      /\ result.restarted = entry.restarted /\ result.left = entry.left
  BY <1>5
<1>7. Truthful(result, table.known)
  BY <1>3, <1>4, <1>6 DEF Truthful
<1>8. result \in Results
  BY <1>1, <1>2, <1>5 DEF Results
<1>9. result # WarmingUp
  BY <1>6, <1>5 DEF WarmingUp
<1> QED BY <1>6, <1>7, <1>8, <1>9 DEF result

-----------------------------------------------------------------------------
(* The table *)

LEMMA SetsAreFinite ==
  ASSUME TypeOK
  PROVE  /\ IsFiniteSet(Tracked) /\ Cardinality(Tracked) \in Nat
         /\ IsFiniteSet(Listed) /\ Cardinality(Listed) \in Nat
<1>1. Tracked \subseteq Keys /\ Listed \subseteq Keys
  BY DEF Tracked, Listed
<1> QED BY <1>1, RatesAssumption, FS_Subset, FS_CardinalityType

\* In a full table that has room for the devices of the pass, some entry has not been
\* observed in it, so that the victim is none of those that were.
LEMMA VictimIsNotSeen ==
  ASSUME IInv, measuring, NEW key \in todo, key \notin Tracked,
         Cardinality(Tracked) >= MaxTracked, Cardinality(Listed) <= MaxTracked,
         NEW victim \in Victims
  PROVE  victim \notin Seen
<1>1. /\ IsFiniteSet(Listed) /\ Cardinality(Listed) \in Nat /\ Cardinality(Tracked) \in Nat
      /\ MaxTracked \in Nat
  BY SetsAreFinite, RatesAssumption DEF IInv
<1>2. key \in Listed /\ key \notin Seen
  BY DEF IInv, TypeOK, Seen
<1>3. Cardinality(Listed \ {key}) = Cardinality(Listed) - 1 /\ IsFiniteSet(Listed \ {key})
  BY <1>1, <1>2, FS_RemoveElement
<1>4. PICK other \in Tracked : other \notin Listed \ {key}
  <2>1. CASE Tracked \subseteq Listed \ {key}
    <3>1. Cardinality(Tracked) <= Cardinality(Listed \ {key})
      BY <1>3, <2>1, FS_Subset
    <3> QED BY <1>1, <1>3, <3>1
  <2> QED BY <2>1
<1>5. other \notin Seen
  BY <1>2, <1>4 DEF Seen
<1>6. /\ victim \in Tracked /\ entries[other].idle <= entries[victim].idle
      /\ entries[other].idle \in Nat /\ entries[victim].idle \in Nat
  BY <1>4 DEF Victims, IInv, TypeOK, Tracked, Entries
<1>7. entries[other].idle # 0
  BY <1>4, <1>5 DEF IInv, OthersAreOlder
<1> QED BY <1>6, <1>7 DEF IInv, OthersAreOlder

\* What making room leaves.
LEMMA RoomIsMade ==
  ASSUME IInv, measuring, NEW key \in todo, key \notin Tracked, NEW room \in WithRoom
  PROVE  /\ room \in [Keys -> Entries \cup {None}]
         /\ \A k \in Keys : room[k] = entries[k] \/ room[k] = None
         /\ Cardinality({k \in Keys : room[k] # None}) + 1 <= MaxTracked
         /\ IsFiniteSet({k \in Keys : room[k] # None})
         /\ Cardinality(Listed) <= MaxTracked => \A k \in Seen : room[k] # None
<1>1. /\ IsFiniteSet(Tracked) /\ Cardinality(Tracked) \in Nat /\ MaxTracked \in Nat \ {0}
      /\ entries \in [Keys -> Entries \cup {None}] /\ Cardinality(Tracked) <= MaxTracked
      /\ Cardinality(Listed) <= MaxTracked => Seen \subseteq Tracked
  BY SetsAreFinite, RatesAssumption DEF IInv, TypeOK, SeenAreHeld
<1>2. CASE Cardinality(Tracked) >= MaxTracked
  <2>1. PICK victim \in Victims : room = [entries EXCEPT ![victim] = None]
    BY <1>2 DEF WithRoom
  <2>2. victim \in Tracked /\ victim \in Keys
    BY DEF Victims, Tracked
  <2>3. {k \in Keys : room[k] # None} = Tracked \ {victim}
    BY <1>1, <2>1, <2>2 DEF Tracked
  <2>4. /\ Cardinality(Tracked \ {victim}) = Cardinality(Tracked) - 1
        /\ IsFiniteSet(Tracked \ {victim})
    BY <1>1, <2>2, FS_RemoveElement
  <2>5. Cardinality(Listed) <= MaxTracked => victim \notin Seen
    BY <1>2, VictimIsNotSeen
  <2>6. room \in [Keys -> Entries \cup {None}]
        /\ \A k \in Keys : room[k] = entries[k] \/ room[k] = None
    BY <1>1, <2>1
  <2>7. Cardinality(Listed) <= MaxTracked => \A k \in Seen : room[k] # None
    BY <1>1, <2>3, <2>5
  <2>8. Cardinality(Tracked \ {victim}) + 1 <= MaxTracked
    BY <1>1, <2>4
  <2>9. /\ Cardinality({k \in Keys : room[k] # None}) + 1 <= MaxTracked
        /\ IsFiniteSet({k \in Keys : room[k] # None})
    BY <2>3, <2>4, <2>8
  <2> QED BY <2>6, <2>7, <2>9
<1>3. CASE ~(Cardinality(Tracked) >= MaxTracked)
  <2>1. room = entries /\ {k \in Keys : room[k] # None} = Tracked
    BY <1>3 DEF WithRoom, Tracked
  <2> QED BY <1>1, <1>3, <2>1 DEF Tracked
<1> QED BY <1>2, <1>3

-----------------------------------------------------------------------------
(* The steps *)

LEMMA InitHolds == Init => IInv
<1> SUFFICES ASSUME Init PROVE IInv
  OBVIOUS
<1>1. /\ Listed = {} /\ Tracked = {} /\ todo = {} /\ ~measuring
      /\ \A k \in Keys : published[k] = None /\ listed[k] = None /\ entries[k] = None
  BY DEF Init, Listed, Tracked
<1>2. TypeOK
  BY <1>1 DEF Init, TypeOK, Results
<1>3. Cardinality({}) = 0
  BY FS_EmptySet
<1>4. /\ Explained /\ UpToDate /\ OthersAreOlder /\ SeenAreHeld /\ NoneOutlives
  BY <1>1, <1>3, RatesAssumption
     DEF Explained, UpToDate, OthersAreOlder, SeenAreHeld, NoneOutlives, Seen
<1>5. DeltaIsMovement /\ NoDeltaOverGap
  BY <1>1 DEF DeltaIsMovement, NoDeltaOverGap
<1> QED BY <1>2, <1>4, <1>5 DEF IInv

\* One device is observed.
LEMMA ObserveKeeps == ASSUME IInv, NEW key \in Keys, Observe(key) PROVE IInv'
<1>1. /\ key \in todo /\ todo' = todo \ {key} /\ table' = table /\ listed' = listed
      /\ measuring' = measuring /\ measuring
      /\ key \in Listed /\ listed[key] \in Values
      /\ Listed' = Listed /\ Seen' = Seen \cup {key}
  BY DEF Observe, IInv, TypeOK, OthersAreOlder, Listed, Seen
<1>2. /\ entries' \in [Keys -> Entries \cup {None}]
      /\ entries'[key] = Baseline(listed[key])
      /\ \A k \in Keys \ {key} : entries'[k] = entries[k] \/ entries'[k] = None
      /\ Cardinality(Tracked') <= MaxTracked
      /\ Cardinality(Listed) <= MaxTracked => Seen' \subseteq Tracked'
  <2>1. CASE key \in Tracked
    <3>1. entries' = [entries EXCEPT ![key] = Baseline(listed[key])]
      BY <2>1 DEF Observe
    <3>2. Tracked' = Tracked
      BY <1>1, <2>1, <3>1, BaselineType DEF Tracked, IInv, TypeOK
    <3> QED BY <1>1, <2>1, <3>1, <3>2, BaselineType DEF IInv, TypeOK, SeenAreHeld
  <2>2. CASE key \notin Tracked
    <3>1. PICK room \in WithRoom : entries' = [room EXCEPT ![key] = Baseline(listed[key])]
      BY <2>2 DEF Observe
    <3> DEFINE held == {k \in Keys : room[k] # None}
    <3>2. /\ room \in [Keys -> Entries \cup {None}]
          /\ \A k \in Keys : room[k] = entries[k] \/ room[k] = None
          /\ Cardinality(held) + 1 <= MaxTracked /\ IsFiniteSet(held)
          /\ Cardinality(Listed) <= MaxTracked => \A k \in Seen : room[k] # None
      BY <1>1, <2>2, RoomIsMade
    <3>3. Tracked' = held \cup {key}
      BY <1>1, <3>1, <3>2, BaselineType DEF Tracked
    <3> HIDE DEF held
    <3>4. Cardinality(Tracked') <= MaxTracked
      <4>1. Cardinality(held) \in Nat /\ MaxTracked \in Nat
        BY <3>2, FS_CardinalityType, RatesAssumption
      <4>2. Cardinality(held \cup {key}) \in {Cardinality(held), Cardinality(held) + 1}
        BY <3>2, FS_AddElement
      <4> QED BY <3>2, <3>3, <4>1, <4>2
    <3>5. Cardinality(Listed) <= MaxTracked => Seen' \subseteq Tracked'
      BY <1>1, <3>2, <3>3 DEF held, Seen, Listed
    <3>6. /\ entries' \in [Keys -> Entries \cup {None}]
          /\ entries'[key] = Baseline(listed[key])
          /\ \A k \in Keys \ {key} : entries'[k] = entries[k] \/ entries'[k] = None
      BY <1>1, <3>1, <3>2, BaselineType
    <3> QED BY <3>4, <3>5, <3>6
  <2> QED BY <2>1, <2>2
<1>3. \A k \in Keys \ {key} : k \in Tracked' => k \in Tracked /\ entries'[k] = entries[k]
  BY <1>2 DEF Tracked
<1>4. published' = [published EXCEPT ![key] = IF key \in Tracked
                                                THEN Rate(entries[key], listed[key])
                                                ELSE WarmingUp]
  BY DEF Observe
<1>5. key \in Tracked =>
        /\ Rate(entries[key], listed[key]) \in Results
        /\ Rate(entries[key], listed[key]).left = entries[key].left
        /\ Truthful(Rate(entries[key], listed[key]), table.known)
  <2> SUFFICES ASSUME key \in Tracked
               PROVE  /\ entries[key] \in Entries /\ table \in Tables
                      /\ entries[key].restarted => listed[key] = entries[key].moved
                      /\ ~entries[key].restarted =>
                           listed[key] = Wrapped(entries[key].value + entries[key].moved)
    BY <1>1, RateIsTrue
  <2> QED BY <1>1 DEF IInv, TypeOK, Explained, Tracked
<1>6. published'[key] \in Results /\ \A k \in Keys \ {key} : published'[k] = published[k]
  BY <1>4, <1>5 DEF IInv, TypeOK, Results
<1>7. TypeOK'
  BY <1>1, <1>2, <1>4, <1>6 DEF IInv, TypeOK
<1>8. Explained' /\ NoneOutlives'
  BY <1>1, <1>3 DEF IInv, TypeOK, Explained, NoneOutlives, Listed
<1>9. UpToDate' /\ OthersAreOlder'
  <2>1. /\ entries'[key].value = listed[key] /\ entries'[key].moved = 0
        /\ entries'[key].idle = 0 /\ ~entries'[key].restarted /\ ~entries'[key].left
    BY <1>1, <1>2, BaselineType
  <2> QED BY <1>1, <1>3, <2>1 DEF IInv, TypeOK, UpToDate, OthersAreOlder, Seen, Listed, Tracked
<1>10. SeenAreHeld'
  BY <1>1, <1>2 DEF SeenAreHeld
<1>11. published'[key] # WarmingUp \/ published'[key].state = "Available" =>
         key \in Tracked /\ published'[key] = Rate(entries[key], listed[key])
  BY <1>4 DEF WarmingUp, IInv, TypeOK
<1>12. DeltaIsMovement'
  <2>1. published'[key] # WarmingUp => Truthful(published'[key], table.known)
    BY <1>5, <1>11
  <2> QED BY <1>1, <1>6, <2>1 DEF IInv, DeltaIsMovement
<1>13. NoDeltaOverGap'
  BY <1>1, <1>5, <1>6, <1>11 DEF IInv, NoDeltaOverGap, NoneOutlives
<1> QED BY <1>7, <1>8, <1>9, <1>10, <1>12, <1>13 DEF IInv

LEMMA FinishKeeps == ASSUME IInv, Finish PROVE IInv'
<1>1. /\ measuring /\ todo = {} /\ todo' = todo /\ ~measuring' /\ table' = table
      /\ listed' = listed /\ Listed' = Listed /\ Seen = Listed /\ Seen' = Listed
      /\ published' = [k \in Keys |-> None] /\ entries' = Retained
  BY DEF Finish, Listed, Seen
<1>2. /\ entries' \in [Keys -> Entries \cup {None}]
      /\ \A k \in Keys : entries'[k] = entries[k] \/ (entries'[k] = None /\ k \notin Listed)
      /\ table.of = "interfaces" => \A k \in Keys : k \notin Listed => entries'[k] = None
  BY <1>1 DEF Retained, IInv, TypeOK, Tables
<1>3. Tracked' \subseteq Tracked /\ Tracked \cap Listed \subseteq Tracked'
      /\ \A k \in Tracked' : entries'[k] = entries[k]
  BY <1>2 DEF Tracked
<1>4. TypeOK'
  <2>1. published' \in [Keys -> Results]
    BY <1>1 DEF Results
  <2>2. todo' \subseteq Listed' /\ measuring' \in BOOLEAN
    BY <1>1 DEF Finish
  <2> QED BY <1>1, <1>2, <2>1, <2>2 DEF IInv, TypeOK
<1>5. Explained' /\ UpToDate' /\ OthersAreOlder' /\ NoneOutlives'
  BY <1>1, <1>2, <1>3 DEF IInv, Explained, UpToDate, OthersAreOlder, NoneOutlives, Tracked
<1>6. SeenAreHeld'
  <2>1. /\ IsFiniteSet(Tracked) /\ Cardinality(Tracked') <= Cardinality(Tracked)
        /\ Cardinality(Tracked') \in Nat /\ Cardinality(Tracked) \in Nat
    BY <1>3, SetsAreFinite, FS_Subset, FS_CardinalityType DEF IInv
  <2> QED BY <1>1, <1>3, <2>1, RatesAssumption DEF IInv, SeenAreHeld
<1>7. DeltaIsMovement' /\ NoDeltaOverGap'
  BY <1>1 DEF DeltaIsMovement, NoDeltaOverGap
<1> QED BY <1>4, <1>5, <1>6, <1>7 DEF IInv

\* What a listed device may have done since its last reading.
LEMMA MovesType ==
  ASSUME IInv, NEW k \in Keys, NEW move \in Moves(k)
  PROVE  /\ move.value \in Values /\ move.moved \in Values /\ move.restarted \in BOOLEAN
         /\ move.restarted => move.value = move.moved
         /\ ~move.restarted => /\ LastReading(k) # None
                               /\ move.value = Wrapped(LastReading(k) + move.moved)
<1>1. LastReading(k) \in Values \cup {None}
  BY DEF IInv, TypeOK, LastReading, Entries
<1>2. CASE move \in {[value |-> n, moved |-> n, restarted |-> TRUE] : n \in Values}
  <2>1. PICK n \in Values : move = [value |-> n, moved |-> n, restarted |-> TRUE]
    BY <1>2
  <2> QED BY <2>1
<1>3. CASE /\ LastReading(k) # None
           /\ move \in {[value |-> Wrapped(LastReading(k) + n), moved |-> n,
                         restarted |-> FALSE] : n \in Values}
  <2>1. PICK n \in Values :
          move = [value |-> Wrapped(LastReading(k) + n), moved |-> n, restarted |-> FALSE]
    BY <1>3
  <2>2. Wrapped(LastReading(k) + n) \in Values
    BY <1>1, <1>3, WrappedType
  <2> QED BY <1>3, <2>1, <2>2
<1> QED BY <1>2, <1>3 DEF Moves

LEMMA RefreshKeeps == ASSUME IInv, Refresh PROVE IInv'
<1>1. PICK moves \in [Keys -> UNION {Moves(k) : k \in Keys} \cup {Gone}] :
        /\ \A k \in Keys : moves[k] \in Moves(k) \cup {Gone}
        /\ listed' = [k \in Keys |-> moves[k].value]
        /\ entries' = [k \in Keys |-> Aged(entries[k], moves[k])]
        /\ todo' = {k \in Keys : moves[k] # Gone}
  BY DEF Refresh
<1>2. /\ ~measuring /\ todo = {} /\ measuring' /\ table' = table /\ published' = published
      /\ Seen = Listed
  BY DEF Refresh, IInv, OthersAreOlder, Seen
<1>3. \A k \in Keys :
        /\ moves[k] = Gone => listed'[k] = None
        /\ moves[k] # Gone =>
             /\ listed'[k] \in Values /\ listed'[k] # None
             /\ moves[k].moved \in Values /\ moves[k].restarted \in BOOLEAN
             /\ moves[k].restarted => listed'[k] = moves[k].moved
             /\ ~moves[k].restarted => listed'[k] = Wrapped(LastReading(k) + moves[k].moved)
  BY <1>1, MovesType, RatesAssumption DEF Gone, Values
<1>4. Listed' = todo' /\ Seen' = {}
  BY <1>1, <1>3 DEF Listed, Seen
<1>5. \A k \in Tracked : entries[k] \in Entries /\ entries[k].value = LastReading(k)
  BY <1>2 DEF IInv, TypeOK, UpToDate, Tracked, LastReading, Listed
<1>6. \A k \in Keys :
        /\ k \notin Tracked => entries'[k] = None
        /\ k \in Tracked =>
             /\ entries'[k] \in Entries /\ entries'[k] # None
             /\ entries'[k].value = LastReading(k) /\ entries'[k].idle # 0
             /\ moves[k] # Gone => /\ entries'[k].moved = moves[k].moved
                                   /\ entries'[k].restarted = moves[k].restarted
                                   /\ entries'[k].left = entries[k].left
  <2> TAKE k \in Keys
  <2>1. entries'[k] = Aged(entries[k], moves[k])
    BY <1>1
  <2>2. CASE k \notin Tracked
    BY <2>1, <2>2 DEF Tracked, Aged
  <2>3. CASE k \in Tracked
    <3>1. entries[k] # None /\ entries[k] \in Entries /\ entries[k].value = LastReading(k)
      BY <1>5, <2>3 DEF Tracked
    <3>2. /\ Lesser(entries[k].idle + 1, MaxIdle) \in 0..MaxIdle
          /\ Lesser(entries[k].idle + 1, MaxIdle) # 0
      BY <3>1, RatesAssumption DEF Entries, Lesser
    <3>3. CASE moves[k] = Gone
      <4>1. entries'[k] = [entries[k] EXCEPT !.idle = Lesser(entries[k].idle + 1, MaxIdle),
                                             !.left = TRUE]
        BY <2>1, <3>1, <3>3 DEF Aged
      <4>2. entries'[k] \in Entries
        BY <3>1, <3>2, <4>1 DEF Entries
      <4> QED BY <2>3, <3>1, <3>2, <3>3, <4>1, <4>2, RatesAssumption DEF Entries
    <3>4. CASE moves[k] # Gone
      <4>1. entries'[k] = [entries[k] EXCEPT !.idle = Lesser(entries[k].idle + 1, MaxIdle),
                                             !.moved = moves[k].moved,
                                             !.restarted = moves[k].restarted]
        BY <2>1, <3>1, <3>4 DEF Aged
      <4>2. entries'[k] \in Entries
        BY <1>3, <3>1, <3>2, <3>4, <4>1 DEF Entries
      <4> QED BY <2>3, <3>1, <3>2, <3>4, <4>1, <4>2, RatesAssumption DEF Entries
    <3> QED BY <3>3, <3>4
  <2> QED BY <2>2, <2>3
<1>7. Tracked' = Tracked
  BY <1>6 DEF Tracked
<1>8. TypeOK'
  BY <1>1, <1>2, <1>3, <1>4, <1>6 DEF IInv, TypeOK
<1>9. Explained'
  BY <1>1, <1>3, <1>6, <1>7 DEF Explained, Tracked
<1>10. UpToDate' /\ OthersAreOlder'
  BY <1>2, <1>4, <1>6, <1>7 DEF UpToDate, OthersAreOlder, Tracked
<1>11. SeenAreHeld'
  BY <1>4, <1>7 DEF IInv, SeenAreHeld
<1>12. NoneOutlives'
  BY <1>1, <1>2, <1>6, <1>7 DEF IInv, NoneOutlives, UpToDate, Tracked
<1>13. DeltaIsMovement' /\ NoDeltaOverGap'
  BY <1>2 DEF IInv, DeltaIsMovement, NoDeltaOverGap
<1> QED BY <1>8, <1>9, <1>10, <1>11, <1>12, <1>13 DEF IInv

LEMMA RepeatKeeps == ASSUME IInv, Repeat PROVE IInv'
<1>1. /\ ~measuring /\ todo = {} /\ measuring' /\ table' = table /\ published' = published
      /\ listed' = listed /\ todo' = Listed /\ Listed' = Listed /\ Seen = Listed /\ Seen' = {}
      /\ entries' = [k \in Keys |->
                       IF entries[k] = None THEN None
                       ELSE [entries[k] EXCEPT !.idle = Lesser(@ + 1, MaxIdle)]]
  BY DEF Repeat, IInv, OthersAreOlder, Seen, Listed
<1>2. \A k \in Keys :
        /\ k \notin Tracked => entries'[k] = None
        /\ k \in Tracked =>
             /\ entries'[k] \in Entries /\ entries'[k] # None
             /\ entries'[k].idle # 0 /\ entries'[k].value = entries[k].value
             /\ entries'[k].moved = entries[k].moved
             /\ entries'[k].restarted = entries[k].restarted
             /\ entries'[k].left = entries[k].left
  <2> TAKE k \in Keys
  <2>1. CASE k \notin Tracked
    BY <1>1, <2>1 DEF Tracked
  <2>2. CASE k \in Tracked
    <3>1. /\ entries[k] \in Entries
          /\ entries'[k] = [entries[k] EXCEPT !.idle = Lesser(entries[k].idle + 1, MaxIdle)]
      BY <1>1, <2>2 DEF Tracked, IInv, TypeOK
    <3>2. /\ Lesser(entries[k].idle + 1, MaxIdle) \in 0..MaxIdle
          /\ Lesser(entries[k].idle + 1, MaxIdle) # 0
      BY <3>1, RatesAssumption DEF Entries, Lesser
    <3>3. entries'[k] \in Entries
      BY <3>1, <3>2 DEF Entries
    <3> QED BY <2>2, <3>1, <3>2, <3>3, RatesAssumption DEF Entries
  <2> QED BY <2>1, <2>2
<1>3. Tracked' = Tracked
  BY <1>2 DEF Tracked
<1>4. TypeOK'
  BY <1>1, <1>2 DEF IInv, TypeOK
<1>5. Explained'
  <2> SUFFICES ASSUME NEW k \in Listed \cap Tracked
               PROVE  /\ ~entries'[k].restarted
                      /\ listed[k] = Wrapped(entries'[k].value + entries'[k].moved)
    BY <1>1, <1>3 DEF Explained
  <2>1. /\ k \in Keys /\ entries[k].value = listed[k] /\ entries[k].moved = 0
        /\ ~entries[k].restarted /\ listed[k] \in Values
    BY <1>1 DEF IInv, TypeOK, UpToDate, Tracked, Listed
  <2> QED BY <1>2, <2>1, RatesAssumption DEF Wrapped, Values
<1>6. UpToDate' /\ OthersAreOlder'
  BY <1>1, <1>2, <1>3 DEF UpToDate, OthersAreOlder, Tracked
<1>7. SeenAreHeld'
  BY <1>1, <1>3 DEF IInv, SeenAreHeld
<1>8. NoneOutlives'
  BY <1>1, <1>2, <1>3 DEF IInv, NoneOutlives, UpToDate, Tracked
<1>9. DeltaIsMovement' /\ NoDeltaOverGap'
  BY <1>1 DEF IInv, DeltaIsMovement, NoDeltaOverGap
<1> QED BY <1>4, <1>5, <1>6, <1>7, <1>8, <1>9 DEF IInv

LEMMA StepKeeps == IInv /\ [Next]_vars => IInv'
<1> SUFFICES ASSUME IInv, [Next]_vars PROVE IInv'
  OBVIOUS
<1>1. CASE UNCHANGED vars
  BY <1>1 DEF vars, IInv, TypeOK, Explained, UpToDate, OthersAreOlder, SeenAreHeld,
     NoneOutlives, DeltaIsMovement, NoDeltaOverGap, Seen, Listed, Tracked
<1>2. CASE Refresh
  BY <1>2, RefreshKeeps
<1>3. CASE Repeat
  BY <1>3, RepeatKeeps
<1>4. ASSUME NEW key \in Keys, Observe(key) PROVE IInv'
  BY <1>4, ObserveKeeps
<1>5. CASE Finish
  BY <1>5, FinishKeeps
<1> QED BY <1>1, <1>2, <1>3, <1>4, <1>5 DEF Next

LEMMA Inductive == Spec => []IInv
<1> QED BY InitHolds, StepKeeps, PTL DEF Spec

-----------------------------------------------------------------------------
(* The theorems *)

\* Every variable keeps a value of its kind.
THEOREM TypeSafety == Spec => []TypeOK
<1>1. IInv => TypeOK
  BY DEF IInv
<1> QED BY <1>1, Inductive, PTL

\* A wrap and a reset are told apart by the shorter way round, for every width and whatever
\* wraps, resets, evictions and repeated passes come between two readings: a small movement
\* is counted as it was, and a reset taken for a wrap invents less than half the width.
THEOREM RatesAreReal == Spec => []DeltaIsMovement
<1>1. IInv => DeltaIsMovement
  BY DEF IInv
<1> QED BY <1>1, Inductive, PTL

\* No rate of an interface spans a refresh that did not list it.
THEOREM GapsAreNotBridged == Spec => []NoDeltaOverGap
<1>1. IInv => NoDeltaOverGap
  BY DEF IInv
<1> QED BY <1>1, Inductive, PTL

\* The table keeps its cap and, if they fit, every device of the last pass, however many
\* that are gone compete for the room.
THEOREM LiveAreTracked == Spec => []TableHoldsTheLive
<1>1. IInv => TableHoldsTheLive
  BY DEF IInv, SeenAreHeld, OthersAreOlder, Seen, TableHoldsTheLive
<1> QED BY <1>1, Inductive, PTL
=============================================================================
