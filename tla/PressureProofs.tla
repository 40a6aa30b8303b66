----------------------------- MODULE PressureProofs -----------------------------
(***************************************************************************)
(* What the radar shows is supported by its window, no window joins what   *)
(* was read on the two sides of a break, a refresh is not taken for one,   *)
(* and the bell rings once for every critical episode: for any number of   *)
(* signals, any window and any cadence.                                    *)
(***************************************************************************)
EXTENDS Pressure, FiniteSetTheorems, WellFoundedInduction, TLAPS

\* What the watch remembers: of a signal whose radar was not lost, what the radar shows;
\* and of one that has rung, that it is critical.
WatchRemembers ==
  /\ \A s \in Signals \ missed : last[s] = shown[s]
  /\ \A s \in rang : last[s] = Critical /\ shown[s] = Critical

RungUnlessMissed == \A s \in Signals \ missed : shown[s] = Critical => s \in rang

IInv ==
  /\ TypeOK
  /\ ShownIsSupported
  /\ WatchRemembers
  /\ RungUnlessMissed

States == Levels \cup {Unknown}

-----------------------------------------------------------------------------
(* Windows *)

\* A bounded sequence keeps its kind and its bound.
LEMMA SlidType ==
  ASSUME NEW S, NEW values \in Seq(S), NEW value \in S, NEW size \in Nat \ {0},
         Len(values) <= size
  PROVE  Slid(values, value, size) \in Seq(S) /\ Len(Slid(values, value, size)) <= size
BY DEF Slid

LEMMA ObservedType ==
  ASSUME NEW window \in Seq(Levels), NEW reading \in States, Len(window) <= Window
  PROVE  Observed(window, reading) \in Seq(Levels) /\ Len(Observed(window, reading)) <= Window
<1>1. CASE reading = Unknown
  BY <1>1, PressureAssumption DEF Observed
<1>2. CASE reading # Unknown
  <2>1. reading \in Levels /\ Window \in Nat \ {0}
    BY <1>2, PressureAssumption DEF States
  <2> QED BY <1>2, <2>1, SlidType DEF Observed
<1> QED BY <1>1, <1>2

LEMMA AtLeastType ==
  ASSUME NEW window \in Seq(Levels), NEW level \in Levels
  PROVE  AtLeast(level, window) \in Nat
<1>1. IsFiniteSet(1..Len(window))
  BY FS_Interval
<1>2. {i \in 1..Len(window) : window[i] >= level} \subseteq 1..Len(window)
  OBVIOUS
<1>3. IsFiniteSet({i \in 1..Len(window) : window[i] >= level})
  BY <1>1, <1>2, FS_Subset
<1> QED BY <1>3, FS_CardinalityType DEF AtLeast

\* The state a window escalates to: the highest that is sustained in it.
LEMMA TargetIsHighest ==
  ASSUME NEW window \in Seq(Levels)
  PROVE  /\ Target(window) \in Levels
         /\ Target(window) = Normal \/ AtLeast(Target(window), window) >= Required
         /\ \A level \in Levels : AtLeast(level, window) >= Required => level <= Target(window)
<1> DEFINE Highest(level) ==
             /\ level = Normal \/ AtLeast(level, window) >= Required
             /\ \A higher \in Levels : higher > level => AtLeast(higher, window) < Required
<1>1. \A level \in Levels : AtLeast(level, window) \in Nat
  BY AtLeastType
<1>2. Required \in Nat
  BY PressureAssumption
<1>3. \E level \in Levels : Highest(level)
  <2>1. CASE AtLeast(2, window) >= Required
    BY <1>1, <1>2, <2>1 DEF Levels, Normal
  <2>2. CASE ~(AtLeast(2, window) >= Required) /\ AtLeast(1, window) >= Required
    BY <1>1, <1>2, <2>2 DEF Levels, Normal
  <2>3. CASE ~(AtLeast(2, window) >= Required) /\ ~(AtLeast(1, window) >= Required)
    BY <1>1, <1>2, <2>3 DEF Levels, Normal
  <2> QED BY <2>1, <2>2, <2>3
<1>4. Target(window) \in Levels /\ Highest(Target(window))
  <2>1. Target(window) = CHOOSE level \in Levels : Highest(level)
    BY DEF Target
  <2> HIDE DEF Highest
  <2> QED BY <1>3, <2>1
<1>5. \A level \in Levels : AtLeast(level, window) >= Required => level <= Target(window)
  BY <1>1, <1>2, <1>4 DEF Levels
<1> QED BY <1>4, <1>5

\* What a signal settles on is a level, and if the window is long enough it is supported
\* there and nothing above it is sustained.
LEMMA SettledIsSupported ==
  ASSUME NEW window \in Seq(Levels), NEW state \in Levels
  PROVE  /\ Settled(state, window) \in Levels
         /\ Len(window) >= Required =>
              /\ Settled(state, window) # Normal => AtLeast(Settled(state, window), window) > 0
              /\ \A level \in Levels :
                   AtLeast(level, window) >= Required => level <= Settled(state, window)
<1>1. Required \in Nat \ {0} /\ \A level \in Levels : AtLeast(level, window) \in Nat
  BY PressureAssumption, AtLeastType
<1>2. CASE Len(window) < Required
  BY <1>1, <1>2 DEF Settled
<1>3. CASE ~(Len(window) < Required)
  <2>1. Settled(state, window) = Held(state, window)
    BY <1>3 DEF Settled
  <2>2. CASE Target(window) > state \/ AtLeast(state, window) = 0
    BY <1>1, <2>1, <2>2, TargetIsHighest DEF Held
  <2>3. CASE ~(Target(window) > state \/ AtLeast(state, window) = 0)
    <3>1. Target(window) <= state /\ AtLeast(state, window) > 0
      BY <1>1, <2>3, TargetIsHighest DEF Levels
    <3>2. \A level \in Levels : AtLeast(level, window) >= Required => level <= state
      BY <3>1, TargetIsHighest DEF Levels
    <3> QED BY <2>1, <2>3, <3>1, <3>2 DEF Held
  <2> QED BY <2>2, <2>3
<1> QED BY <1>2, <1>3

-----------------------------------------------------------------------------
(* The steps *)

\* What an observation makes of the engine.
LEMMA ObserveType ==
  ASSUME TypeOK, NEW cleared \in BOOLEAN, NEW elapsed \in Nat, NEW readings \in [Signals -> States],
         Observe(cleared, elapsed, readings)
  PROVE  /\ recent' \in Seq(Nat) /\ Len(recent') <= RecentIntervals
         /\ windows' \in [Signals -> Seq(Levels)]
         /\ \A s \in Signals : Len(windows'[s]) <= Window
         /\ states' \in [Signals -> Levels] /\ shown' \in [Signals -> States]
         /\ ShownIsSupported'
<1> DEFINE fresh     == cleared \/ Discontinuity(elapsed)
           before(s) == IF fresh THEN <<>> ELSE windows[s]
           window(s) == Observed(before(s), readings[s])
           state(s)  == IF fresh \/ readings[s] = Unknown THEN Normal ELSE states[s]
<1>1. /\ recent'  = Slid(recent, elapsed, RecentIntervals)
      /\ windows' = [s \in Signals |-> window(s)]
      /\ states'  = [s \in Signals |-> Settled(state(s), window(s))]
      /\ shown'   = [s \in Signals |-> Radar(states'[s], window(s))]
  BY DEF Observe
<1>2. \A s \in Signals : before(s) \in Seq(Levels) /\ Len(before(s)) <= Window
  BY PressureAssumption DEF TypeOK
<1>3. \A s \in Signals : state(s) \in Levels
  BY DEF TypeOK, Levels, Normal
<1> HIDE DEF before, state
<1>4. \A s \in Signals : window(s) \in Seq(Levels) /\ Len(window(s)) <= Window
  BY <1>2, ObservedType
<1> HIDE DEF window
<1>5. RecentIntervals \in Nat \ {0} /\ recent \in Seq(Nat) /\ Len(recent) <= RecentIntervals
  BY PressureAssumption DEF TypeOK
<1>6. recent' \in Seq(Nat) /\ Len(recent') <= RecentIntervals
  BY <1>1, <1>5, SlidType
<1>7. windows' \in [Signals -> Seq(Levels)] /\ \A s \in Signals : Len(windows'[s]) <= Window
  BY <1>1, <1>4
<1>8. states' \in [Signals -> Levels]
  BY <1>1, <1>3, <1>4, SettledIsSupported
<1>9. shown' \in [Signals -> States]
  BY <1>1, <1>8 DEF Radar, States
<1>10. ShownIsSupported'
  <2>1. ASSUME NEW s \in Signals, Len(windows'[s]) >= Required
        PROVE  /\ states'[s] # Normal => AtLeast(states'[s], windows'[s]) > 0
               /\ \A level \in Levels :
                    AtLeast(level, windows'[s]) >= Required => level <= states'[s]
    <3>1. windows'[s] = window(s) /\ states'[s] = Settled(state(s), window(s))
      BY <1>1
    <3>2. window(s) \in Seq(Levels) /\ state(s) \in Levels /\ Len(window(s)) >= Required
      BY <1>3, <1>4, <2>1, <3>1
    <3>3. /\ Settled(state(s), window(s)) # Normal =>
               AtLeast(Settled(state(s), window(s)), window(s)) > 0
          /\ \A level \in Levels :
               AtLeast(level, window(s)) >= Required => level <= Settled(state(s), window(s))
      BY <3>2, SettledIsSupported
    <3> QED BY <3>1, <3>3
  <2> QED BY <2>1 DEF ShownIsSupported, AtLeast
<1> QED BY <1>6, <1>7, <1>8, <1>9, <1>10

\* What a pass without an observation makes of the engine.
LEMMA ObserveNothingType ==
  ASSUME TypeOK, ShownIsSupported, NEW cleared \in BOOLEAN, ObserveNothing(cleared)
  PROVE  /\ recent' \in Seq(Nat) /\ Len(recent') <= RecentIntervals
         /\ windows' \in [Signals -> Seq(Levels)]
         /\ \A s \in Signals : Len(windows'[s]) <= Window
         /\ states' \in [Signals -> Levels]
         /\ ShownIsSupported'
<1>1. CASE cleared
  <2>1. /\ windows' = [s \in Signals |-> <<>>] /\ states' = [s \in Signals |-> Normal]
        /\ recent' = recent
    BY <1>1 DEF ObserveNothing, Nowhere
  <2>2. Normal \in Levels /\ <<>> \in Seq(Levels) /\ Len(<<>>) = 0
    BY DEF Normal, Levels
  <2>3. 0 < Required /\ 0 <= Window /\ Required \in Nat
    BY PressureAssumption
  <2>4. \A s \in Signals : windows'[s] = <<>> /\ Len(windows'[s]) = 0
    BY <2>1
  <2>5. ShownIsSupported'
    BY <2>3, <2>4 DEF ShownIsSupported
  <2>6. windows' \in [Signals -> Seq(Levels)] /\ states' \in [Signals -> Levels]
    BY <2>1, <2>2
  <2> QED BY <2>1, <2>3, <2>4, <2>5, <2>6 DEF TypeOK
<1>2. CASE ~cleared
  BY <1>2 DEF ObserveNothing, TypeOK, ShownIsSupported, AtLeast
<1> QED BY <1>1, <1>2

\* The watch, of a radar that arrives or is lost.
LEMMA PublishKeeps ==
  ASSUME TypeOK, WatchRemembers, RungUnlessMissed, shown' \in [Signals -> States], Publish
  PROVE  /\ last' \in [Signals -> States] /\ bell' \subseteq Signals
         /\ rang' \subseteq Signals /\ missed' \subseteq Signals
         /\ WatchRemembers' /\ RungUnlessMissed'
         /\ bell' \cap rang = {}
<1>1. rang' = {s \in Signals : shown'[s] = Critical /\ (s \in rang \/ s \in bell')}
  BY DEF Publish
<1>2. CASE Watch(shown')
  <2>1. /\ last' = shown'
        /\ bell' = {s \in Signals : shown'[s] = Critical /\ last[s] # Critical}
        /\ missed' = {s \in missed : shown'[s] = Critical}
    BY <1>2 DEF Watch, Announced
  <2> QED BY <1>1, <2>1 DEF TypeOK, WatchRemembers, RungUnlessMissed
<1>3. CASE Lose
  <2>1. bell' = {} /\ missed' = Signals /\ last' = last
    BY <1>3 DEF Lose
  <2> QED BY <1>1, <2>1 DEF TypeOK, WatchRemembers, RungUnlessMissed, States
<1> QED BY <1>2, <1>3 DEF Publish

\* What a signal has read since its stream broke off is bounded like its window.
LEMMA SinceType ==
  ASSUME TypeOK, NEW cleared \in BOOLEAN, NEW elapsed \in Nat, NEW readings \in [Signals -> States]
  PROVE  /\ Since(cleared, elapsed, readings) \in [Signals -> Seq(Levels)]
         /\ \A s \in Signals : Len(Since(cleared, elapsed, readings)[s]) <= Window
<1> DEFINE before(s) == IF cleared \/ Slept(elapsed) THEN <<>> ELSE since[s]
<1>1. \A s \in Signals : before(s) \in Seq(Levels) /\ Len(before(s)) <= Window
  BY PressureAssumption DEF TypeOK
<1>2. Since(cleared, elapsed, readings) = [s \in Signals |-> Observed(before(s), readings[s])]
  BY DEF Since
<1> HIDE DEF before
<1> QED BY <1>1, <1>2, ObservedType

LEMMA CollectKeeps ==
  ASSUME IInv, NEW to \in Cadences, NEW policy \in Policies, NEW elapsed \in Nat,
         NEW readings \in Readings, Collect(to, policy, elapsed, readings)
  PROVE  IInv' /\ bell' \cap rang = {}
<1>1. /\ started' = started /\ interval' = to
      /\ enabled' \in BOOLEAN /\ Cleared(to, policy) \in BOOLEAN
      /\ readings \in [Signals -> States] /\ TypeOK /\ ShownIsSupported
  BY DEF Collect, Adopt, Cleared, IInv, TypeOK, Readings, States
<1>2. CASE /\ Observe(Cleared(to, policy), elapsed, readings)
           /\ since' = Since(Cleared(to, policy), elapsed, readings)
           /\ pass' = [elapsed |-> elapsed, gap |-> Discontinuity(elapsed)]
  <2>1. pass'.elapsed \in Nat /\ pass'.gap \in BOOLEAN
    BY <1>2 DEF Discontinuity
  <2>2. /\ since' \in [Signals -> Seq(Levels)]
        /\ \A s \in Signals : Len(since'[s]) <= Window
    BY <1>1, <1>2, SinceType
  <2>3. /\ recent' \in Seq(Nat) /\ Len(recent') <= RecentIntervals
        /\ windows' \in [Signals -> Seq(Levels)]
        /\ \A s \in Signals : Len(windows'[s]) <= Window
        /\ states' \in [Signals -> Levels] /\ shown' \in [Signals -> States]
        /\ ShownIsSupported'
    BY <1>1, <1>2, ObserveType
  <2>4. /\ last' \in [Signals -> States] /\ bell' \subseteq Signals
        /\ rang' \subseteq Signals /\ missed' \subseteq Signals
        /\ WatchRemembers' /\ RungUnlessMissed' /\ bell' \cap rang = {}
    BY <2>3, PublishKeeps DEF IInv, Collect
  <2> QED BY <1>1, <2>1, <2>2, <2>3, <2>4 DEF IInv, TypeOK, States
<1>3. CASE /\ ObserveNothing(Cleared(to, policy))
           /\ shown' = [s \in Signals |-> Unknown]
           /\ since' = (IF Cleared(to, policy) THEN Nowhere ELSE since)
           /\ pass' = [elapsed |-> elapsed, gap |-> FALSE]
  <2>1. shown' \in [Signals -> States]
    BY <1>3 DEF States
  <2>2. /\ since' \in [Signals -> Seq(Levels)]
        /\ \A s \in Signals : Len(since'[s]) <= Window
    BY <1>3, <1>1, PressureAssumption DEF Nowhere, TypeOK
  <2>3. /\ recent' \in Seq(Nat) /\ Len(recent') <= RecentIntervals
        /\ windows' \in [Signals -> Seq(Levels)]
        /\ \A s \in Signals : Len(windows'[s]) <= Window
        /\ states' \in [Signals -> Levels] /\ ShownIsSupported'
    BY <1>1, <1>3, ObserveNothingType
  <2>4. /\ last' \in [Signals -> States] /\ bell' \subseteq Signals
        /\ rang' \subseteq Signals /\ missed' \subseteq Signals
        /\ WatchRemembers' /\ RungUnlessMissed' /\ bell' \cap rang = {}
    BY <2>1, PublishKeeps DEF IInv, Collect
  <2> QED BY <1>1, <1>3, <2>1, <2>2, <2>3, <2>4 DEF IInv, TypeOK, States
<1> QED BY <1>2, <1>3 DEF Collect

LEMMA FirstCollectKeeps ==
  ASSUME IInv, FirstCollect
  PROVE  IInv' /\ bell' \cap rang = {}
<1>1. /\ started' /\ enabled' = enabled /\ interval' = interval /\ since' = since
      /\ pass' = Unmeasured /\ shown' = [s \in Signals |-> Unknown]
      /\ ObserveNothing(FALSE) /\ Publish
      /\ TypeOK /\ ShownIsSupported /\ WatchRemembers /\ RungUnlessMissed
  BY DEF FirstCollect, IInv
<1>2. shown' \in [Signals -> States]
  BY <1>1 DEF States
<1>3. /\ recent' \in Seq(Nat) /\ Len(recent') <= RecentIntervals
      /\ windows' \in [Signals -> Seq(Levels)]
      /\ \A s \in Signals : Len(windows'[s]) <= Window
      /\ states' \in [Signals -> Levels] /\ ShownIsSupported'
  BY <1>1, ObserveNothingType
<1>4. /\ last' \in [Signals -> States] /\ bell' \subseteq Signals
      /\ rang' \subseteq Signals /\ missed' \subseteq Signals
      /\ WatchRemembers' /\ RungUnlessMissed' /\ bell' \cap rang = {}
  BY <1>1, <1>2, PublishKeeps
<1> QED BY <1>1, <1>2, <1>3, <1>4 DEF IInv, TypeOK, States, Unmeasured

LEMMA FailedCollectKeeps ==
  ASSUME IInv, NEW to \in Cadences, NEW policy \in Policies, FailedCollect(to, policy)
  PROVE  IInv' /\ bell' \cap rang = {}
<1>1. /\ started' /\ interval' = to /\ enabled' \in BOOLEAN
      /\ ObserveNothing(Cleared(to, policy)) /\ Cleared(to, policy) \in BOOLEAN
      /\ since' = (IF Cleared(to, policy) THEN Nowhere ELSE since)
      /\ pass' = Unmeasured /\ bell' = {}
      /\ last' = last /\ shown' = shown /\ rang' = rang /\ missed' = missed
      /\ TypeOK /\ ShownIsSupported /\ WatchRemembers /\ RungUnlessMissed
  BY DEF FailedCollect, Adopt, Cleared, IInv, TypeOK
<1>2. /\ since' \in [Signals -> Seq(Levels)]
      /\ \A s \in Signals : Len(since'[s]) <= Window
  BY <1>1, PressureAssumption DEF Nowhere, TypeOK
<1>3. /\ recent' \in Seq(Nat) /\ Len(recent') <= RecentIntervals
      /\ windows' \in [Signals -> Seq(Levels)]
      /\ \A s \in Signals : Len(windows'[s]) <= Window
      /\ states' \in [Signals -> Levels] /\ ShownIsSupported'
  BY <1>1, ObserveNothingType
<1>4. WatchRemembers' /\ RungUnlessMissed'
  BY <1>1 DEF WatchRemembers, RungUnlessMissed
<1> QED BY <1>1, <1>2, <1>3, <1>4 DEF IInv, TypeOK, Unmeasured

LEMMA StepKeeps ==
  IInv /\ [Next]_vars => IInv' /\ (UNCHANGED vars \/ bell' \cap rang = {})
<1> SUFFICES ASSUME IInv, [Next]_vars
             PROVE  IInv' /\ (UNCHANGED vars \/ bell' \cap rang = {})
  OBVIOUS
<1>1. CASE UNCHANGED vars
  BY <1>1 DEF vars, engine, IInv, TypeOK, ShownIsSupported, AtLeast, WatchRemembers,
     RungUnlessMissed
<1>2. ASSUME NEW to \in Cadences, NEW policy \in Policies, FailedCollect(to, policy)
      PROVE  IInv' /\ bell' \cap rang = {}
  BY <1>2, FailedCollectKeeps
<1>3. ASSUME NEW to \in Cadences, NEW policy \in Policies,
             NEW elapsed \in {Short, interval, Gap}, NEW readings \in Readings,
             Collect(to, policy, elapsed, readings)
      PROVE  IInv' /\ bell' \cap rang = {}
  <2>1. elapsed \in Nat
    BY PressureAssumption DEF IInv, TypeOK
  <2> QED BY <1>3, <2>1, CollectKeeps
<1>4. CASE FirstCollect
  BY <1>4, FirstCollectKeeps
<1> QED BY <1>1, <1>2, <1>3, <1>4 DEF Next

LEMMA InitHolds == Init => IInv
<1> SUFFICES ASSUME Init PROVE IInv
  OBVIOUS
<1>1. TypeOK
  <2>1. /\ recent = <<>> /\ windows = [s \in Signals |-> <<>>] /\ since = windows
        /\ states = [s \in Signals |-> Normal] /\ last = [s \in Signals |-> Unknown]
        /\ shown = last /\ enabled \in BOOLEAN /\ started \in BOOLEAN /\ interval \in Cadences
        /\ bell = {} /\ rang = {} /\ missed = {}
    BY DEF Init, Nowhere
  <2>2. pass.elapsed \in Nat /\ pass.gap \in BOOLEAN
    BY DEF Init, Unmeasured
  <2>3. <<>> \in Seq(Nat) /\ <<>> \in Seq(Levels) /\ Len(<<>>) = 0 /\ Normal \in Levels
    BY DEF Levels, Normal
  <2>4. windows \in [Signals -> Seq(Levels)] /\ states \in [Signals -> Levels]
    BY <2>1, <2>3
  <2>5. \A s \in Signals : Len(windows[s]) <= Window /\ Len(since[s]) <= Window
    BY <2>1, <2>3, PressureAssumption
  <2>6. Len(recent) <= RecentIntervals
    BY <2>1, <2>3, PressureAssumption
  <2> QED BY <2>1, <2>2, <2>3, <2>4, <2>5, <2>6 DEF TypeOK
<1>2. ShownIsSupported
  <2>1. \A s \in Signals : windows[s] = <<>>
    BY DEF Init, Nowhere
  <2> QED BY <2>1, PressureAssumption DEF ShownIsSupported
<1>3. WatchRemembers /\ RungUnlessMissed
  BY PressureAssumption DEF Init, WatchRemembers, RungUnlessMissed, Levels, Critical
<1> QED BY <1>1, <1>2, <1>3 DEF IInv

LEMMA Inductive == Spec => []IInv
<1>1. IInv /\ [Next]_vars => IInv'
  BY StepKeeps
<1> QED BY <1>1, InitHolds, PTL DEF Spec

-----------------------------------------------------------------------------
(* The reference interval *)

LEMMA LeastExists ==
  ASSUME NEW T, T \subseteq Nat, T # {}
  PROVE  \E least \in T : \A other \in T : least <= other
<1>1. PICK least \in T : \A other \in T : <<other, least>> \notin OpToRel(<, Nat)
  BY NatLessThanWellFounded, WFMin
<1>2. \A other \in T : ~(other < least)
  BY <1>1 DEF OpToRel
<1> QED BY <1>2

\* The indices of the intervals that are not longer than a length.
Upto(values, length) == {i \in 1..Len(values) : values[i] <= length}

LEMMA UptoFinite ==
  ASSUME NEW values \in Seq(Nat), NEW length \in Nat
  PROVE  /\ IsFiniteSet(Upto(values, length))
         /\ Cardinality(Upto(values, length)) \in 0..Len(values)
<1>1. IsFiniteSet(1..Len(values)) /\ Cardinality(1..Len(values)) = Len(values)
  <2>1. Len(values) \in Nat
    OBVIOUS
  <2>2. /\ IsFiniteSet(1..Len(values))
        /\ Cardinality(1..Len(values)) = IF 1 > Len(values) THEN 0 ELSE Len(values) - 1 + 1
    BY <2>1, FS_Interval
  <2> QED BY <2>1, <2>2
<1>2. Upto(values, length) \subseteq 1..Len(values)
  BY DEF Upto
<1>3. /\ IsFiniteSet(Upto(values, length))
      /\ Cardinality(Upto(values, length)) <= Cardinality(1..Len(values))
  BY <1>1, <1>2, FS_Subset
<1> QED BY <1>1, <1>3, FS_CardinalityType

LEMMA GreatestExists ==
  ASSUME NEW values \in Seq(Nat), NEW W, W # {}, W \subseteq {values[i] : i \in 1..Len(values)}
  PROVE  \E greatest \in W : \A other \in W : other <= greatest
<1> DEFINE beyond(w) == Len(values) - Cardinality(Upto(values, w))
<1>1. W \subseteq Nat
  OBVIOUS
<1>2. \A w \in W : beyond(w) \in Nat
  <2>1. ASSUME NEW w \in W PROVE beyond(w) \in Nat
    <3>1. Cardinality(Upto(values, w)) \in 0..Len(values) /\ Len(values) \in Nat
      BY <1>1, UptoFinite
    <3> QED BY <3>1
  <2> QED BY <2>1
<1>3. PICK greatest \in W : \A other \in W : beyond(greatest) <= beyond(other)
  <2> DEFINE B == {beyond(w) : w \in W}
  <2>1. B \subseteq Nat /\ B # {}
    BY <1>2
  <2> HIDE DEF beyond
  <2>2. PICK least \in B : \A b \in B : least <= b
    <3> HIDE DEF B
    <3> QED BY <2>1, LeastExists
  <2> QED BY <2>2
<1>4. ASSUME NEW other \in W, other > greatest
      PROVE  FALSE
  <2>1. greatest \in Nat /\ other \in Nat
    BY <1>1
  <2>2. Upto(values, greatest) \subseteq Upto(values, other)
    BY <1>4, <2>1 DEF Upto
  <2>3. PICK i \in 1..Len(values) : values[i] = other
    OBVIOUS
  <2>4. i \in Upto(values, other) /\ i \notin Upto(values, greatest)
    BY <1>4, <2>1, <2>3 DEF Upto
  <2>5. /\ Cardinality(Upto(values, greatest)) <= Cardinality(Upto(values, other))
        /\ Cardinality(Upto(values, greatest)) # Cardinality(Upto(values, other))
    BY <2>1, <2>2, <2>4, UptoFinite, FS_Subset
  <2>6. beyond(greatest) <= beyond(other)
    BY <1>3
  <2>7. /\ Cardinality(Upto(values, greatest)) \in 0..Len(values)
        /\ Cardinality(Upto(values, other)) \in 0..Len(values)
        /\ Len(values) \in Nat
    BY <2>1, UptoFinite
  <2> QED BY <2>5, <2>6, <2>7
<1> QED BY <1>1, <1>4

\* A list that is not empty has a middle element.
LEMMA MedianExists ==
  ASSUME NEW values \in Seq(Nat), Len(values) >= 1
  PROVE  \E length \in {values[i] : i \in 1..Len(values)} :
           /\ Cardinality({i \in 1..Len(values) : values[i] < length}) <= Len(values) \div 2
           /\ Cardinality({i \in 1..Len(values) : values[i] <= length}) > Len(values) \div 2
<1> DEFINE V == {values[i] : i \in 1..Len(values)}
           n == Len(values)
           T == {v \in V : Cardinality(Upto(values, v)) > n \div 2}
<1>1. V \subseteq Nat /\ V # {} /\ n \in Nat /\ n >= 1
  <2>1. values[1] \in V
    OBVIOUS
  <2> QED BY <2>1
<1>2. n \div 2 \in Nat /\ n \div 2 < n
  BY <1>1
<1>3. T # {}
  <2>1. PICK top \in V : \A other \in V : other <= top
    BY <1>1, GreatestExists
  <2>2. Upto(values, top) = 1..n
    BY <2>1 DEF Upto
  <2>3. Cardinality(1..n) = n
    BY <1>1, FS_Interval
  <2> QED BY <1>2, <2>1, <2>2, <2>3
<1>4. PICK length \in T : \A other \in T : length <= other
  <2>1. T \subseteq Nat
    BY <1>1
  <2> HIDE DEF T
  <2> QED BY <1>3, <2>1, LeastExists
<1>5. length \in V /\ length \in Nat /\ Cardinality(Upto(values, length)) > n \div 2
  BY <1>1, <1>4
<1> DEFINE below == {i \in 1..n : values[i] < length}
           W == {values[i] : i \in below}
<1>6. Cardinality(below) <= n \div 2
  <2>1. CASE below = {}
    <3>1. Cardinality(below) = 0
      BY <2>1, FS_EmptySet
    <3> HIDE DEF below
    <3> QED BY <1>2, <3>1
  <2>2. CASE below # {}
    <3>1. W # {} /\ W \subseteq V
      BY <2>2
    <3>2. PICK w \in W : \A other \in W : other <= w
      <4> HIDE DEF W
      <4> QED BY <3>1, GreatestExists
    <3>3. w \in Nat /\ w < length /\ w \in V
      BY <1>1, <1>5, <3>2
    <3>4. below = Upto(values, w)
      BY <1>5, <3>2, <3>3 DEF Upto
    <3>5. w \notin T
      BY <1>1, <1>4, <1>5, <3>3
    <3>6. Cardinality(Upto(values, w)) \in Nat
      BY <3>3, UptoFinite
    <3>7. ~(Cardinality(Upto(values, w)) > n \div 2)
      BY <3>3, <3>5
    <3> HIDE DEF below
    <3> QED BY <1>2, <3>4, <3>6, <3>7
  <2> QED BY <2>1, <2>2
<1> QED BY <1>5, <1>6 DEF Upto

LEMMA ReferenceIsMedian ==
  ASSUME recent \in Seq(Nat), Len(recent) >= 1
  PROVE  /\ Reference \in Nat
         /\ Cardinality({i \in 1..Len(recent) : recent[i] < Reference}) <= Len(recent) \div 2
         /\ Cardinality({i \in 1..Len(recent) : recent[i] <= Reference}) > Len(recent) \div 2
<1> DEFINE V == {recent[i] : i \in 1..Len(recent)}
           Middle(length) ==
             /\ Cardinality({i \in 1..Len(recent) : recent[i] < length}) <= Len(recent) \div 2
             /\ Cardinality({i \in 1..Len(recent) : recent[i] <= length}) > Len(recent) \div 2
<1>1. \E length \in V : Middle(length)
  BY MedianExists
<1>2. Reference = CHOOSE length \in V : Middle(length)
  BY DEF Reference
<1>3. V \subseteq Nat
  OBVIOUS
<1>4. Reference \in V /\ Middle(Reference)
  <2> HIDE DEF V, Middle
  <2> QED BY <1>1, <1>2
<1> QED BY <1>3, <1>4

LEMMA FewerBelow ==
  ASSUME NEW values \in Seq(Nat), NEW S, NEW T, S \subseteq T, T \subseteq 1..Len(values)
  PROVE  /\ Cardinality(S) \in Nat /\ Cardinality(T) \in Nat
         /\ Cardinality(S) <= Cardinality(T)
<1>1. IsFiniteSet(1..Len(values))
  BY FS_Interval
<1>2. IsFiniteSet(T)
  BY <1>1, FS_Subset
<1> QED BY <1>2, FS_Subset, FS_CardinalityType

\* A sleep is a discontinuity: when most intervals are no longer than the cadence, neither
\* is the reference.
LEMMA SleepIsGap ==
  ASSUME TypeOK, NEW elapsed \in Nat, Slept(elapsed)
  PROVE  Discontinuity(elapsed)
<1>1. /\ recent \in Seq(Nat) /\ Len(recent) >= 2 /\ interval \in Nat /\ Multiple \in Nat \ {0}
      /\ elapsed > Multiple * interval
      /\ 2 * Cardinality({i \in 1..Len(recent) : recent[i] <= interval}) > Len(recent)
  BY PressureAssumption DEF TypeOK, Slept, Ordinary
<1>2. Reference \in Nat
      /\ Cardinality({i \in 1..Len(recent) : recent[i] < Reference}) <= Len(recent) \div 2
  BY <1>1, ReferenceIsMedian
<1>3. Reference <= interval
  <2>1. SUFFICES ASSUME Reference > interval PROVE FALSE
    BY <1>1, <1>2
  <2> DEFINE S == {i \in 1..Len(recent) : recent[i] <= interval}
             T == {i \in 1..Len(recent) : recent[i] < Reference}
  <2>2. S \subseteq T
    BY <1>1, <1>2, <2>1
  <2>3. /\ Cardinality(S) \in Nat /\ Cardinality(T) \in Nat
        /\ Cardinality(S) <= Cardinality(T)
    BY <1>1, <2>2, FewerBelow
  <2>4. 2 * Cardinality(S) > Len(recent) /\ Cardinality(T) <= Len(recent) \div 2
    BY <1>1, <1>2
  <2> HIDE DEF S, T
  <2> QED BY <1>1, <2>3, <2>4
<1>4. Multiple * Reference <= Multiple * interval
  BY <1>1, <1>2, <1>3
<1>5. Multiple * Reference \in Nat /\ Multiple * interval \in Nat
  BY <1>1, <1>2
<1>6. elapsed > Multiple * Reference
  BY <1>1, <1>4, <1>5
<1> QED BY <1>1, <1>6 DEF Discontinuity

-----------------------------------------------------------------------------
(* Windows against what was read *)

\* A suffix stays one when the same value is added to both sequences, and when the oldest
\* value of both, or of the longer one, goes.
LEMMA AppendSuffix ==
  ASSUME NEW S, NEW window \in Seq(S), NEW values \in Seq(S), NEW value \in S,
         IsSuffix(window, values)
  PROVE  IsSuffix(Append(window, value), Append(values, value))
<1>1. /\ Len(window) <= Len(values) /\ Len(window) \in Nat /\ Len(values) \in Nat
      /\ \A i \in 1..Len(window) : window[i] = values[i + Len(values) - Len(window)]
  BY DEF IsSuffix
<1>2. /\ Len(Append(window, value)) = Len(window) + 1
      /\ Len(Append(values, value)) = Len(values) + 1
      /\ \A j \in 1..Len(window) : Append(window, value)[j] = window[j]
      /\ \A j \in 1..Len(values) : Append(values, value)[j] = values[j]
  OBVIOUS
<1>3. ASSUME NEW i \in 1..(Len(window) + 1)
      PROVE  Append(window, value)[i] = Append(values, value)[i + Len(values) - Len(window)]
  <2>1. CASE i = Len(window) + 1
    <3>1. i + Len(values) - Len(window) = Len(values) + 1
      BY <1>1, <2>1
    <3> QED BY <2>1, <3>1
  <2>2. CASE i \in 1..Len(window)
    <3>1. i + Len(values) - Len(window) \in 1..Len(values)
      BY <1>1, <2>2
    <3>2. window[i] = values[i + Len(values) - Len(window)]
      BY <1>1, <2>2
    <3>3. Append(window, value)[i] = window[i]
      BY <1>2, <2>2
    <3>4. Append(values, value)[i + Len(values) - Len(window)] =
            values[i + Len(values) - Len(window)]
      BY <1>2, <3>1
    <3> QED BY <3>2, <3>3, <3>4
  <2>3. Len(window) \in Nat
    OBVIOUS
  <2>4. i = Len(window) + 1 \/ i \in 1..Len(window)
    BY <2>3
  <2> QED BY <2>1, <2>2, <2>4
<1>4. \A i \in 1..Len(Append(window, value)) :
        Append(window, value)[i] =
          Append(values, value)[i + Len(Append(values, value)) - Len(Append(window, value))]
  <2>1. ASSUME NEW i \in 1..(Len(window) + 1)
        PROVE  i + (Len(values) + 1) - (Len(window) + 1) = i + Len(values) - Len(window)
    BY <1>1
  <2> QED BY <1>2, <1>3, <2>1
<1>5. Len(Append(window, value)) <= Len(Append(values, value))
  BY <1>1, <1>2
<1> QED BY <1>4, <1>5 DEF IsSuffix

LEMMA TailSuffix ==
  ASSUME NEW S, NEW window \in Seq(S), NEW values \in Seq(S), IsSuffix(window, values)
  PROVE  /\ Len(window) < Len(values) => IsSuffix(window, Tail(values))
         /\ Len(window) = Len(values) /\ window # <<>> => IsSuffix(Tail(window), Tail(values))
<1>1. /\ Len(window) <= Len(values) /\ Len(window) \in Nat /\ Len(values) \in Nat
      /\ \A i \in 1..Len(window) : window[i] = values[i + Len(values) - Len(window)]
  BY DEF IsSuffix
<1>2. ASSUME Len(window) < Len(values)
      PROVE  IsSuffix(window, Tail(values))
  <2>1. /\ Len(Tail(values)) = Len(values) - 1
        /\ \A j \in 1..(Len(values) - 1) : Tail(values)[j] = values[j + 1]
    BY <1>1, <1>2
  <2>2. ASSUME NEW i \in 1..Len(window)
        PROVE  window[i] = Tail(values)[i + (Len(values) - 1) - Len(window)]
    <3>1. i + (Len(values) - 1) - Len(window) \in 1..(Len(values) - 1)
      BY <1>1, <1>2
    <3>2. (i + (Len(values) - 1) - Len(window)) + 1 = i + Len(values) - Len(window)
      BY <1>1
    <3> QED BY <1>1, <2>1, <3>1, <3>2
  <2>3. Len(window) <= Len(values) - 1
    BY <1>1, <1>2
  <2> QED BY <2>1, <2>2, <2>3 DEF IsSuffix
<1>3. ASSUME Len(window) = Len(values), window # <<>>
      PROVE  IsSuffix(Tail(window), Tail(values))
  <2>1. /\ Len(Tail(window)) = Len(window) - 1 /\ Len(Tail(values)) = Len(values) - 1
        /\ \A j \in 1..(Len(window) - 1) : Tail(window)[j] = window[j + 1]
        /\ \A j \in 1..(Len(values) - 1) : Tail(values)[j] = values[j + 1]
    BY <1>1, <1>3
  <2>2. \A i \in 1..Len(window) : window[i] = values[i]
    BY <1>1, <1>3
  <2>3. \A j \in 1..(Len(window) - 1) : Tail(window)[j] = Tail(values)[j]
    BY <1>1, <1>3, <2>1, <2>2
  <2> QED BY <1>1, <1>3, <2>1, <2>3 DEF IsSuffix
<1> QED BY <1>2, <1>3

LEMMA SlidSuffix ==
  ASSUME NEW S, NEW window \in Seq(S), NEW values \in Seq(S), NEW value \in S,
         Window \in Nat \ {0}, Len(window) <= Window, Len(values) <= Window,
         IsSuffix(window, values)
  PROVE  IsSuffix(Slid(window, value, Window), Slid(values, value, Window))
<1>1. Len(window) \in Nat /\ Len(values) \in Nat /\ Len(window) <= Len(values)
  BY DEF IsSuffix
<1>2. CASE Len(values) < Window
  <2>1. /\ Slid(window, value, Window) = Append(window, value)
        /\ Slid(values, value, Window) = Append(values, value)
    BY <1>1, <1>2 DEF Slid
  <2> QED BY <2>1, AppendSuffix
<1>3. CASE Len(values) = Window /\ Len(window) < Window
  <2>1. /\ Slid(window, value, Window) = Append(window, value)
        /\ Slid(values, value, Window) = Append(Tail(values), value)
    BY <1>1, <1>3 DEF Slid
  <2>2. Tail(values) \in Seq(S) /\ IsSuffix(window, Tail(values))
    BY <1>1, <1>3, TailSuffix
  <2> QED BY <2>1, <2>2, AppendSuffix
<1>4. CASE Len(values) = Window /\ Len(window) = Window
  <2>1. /\ Slid(window, value, Window) = Append(Tail(window), value)
        /\ Slid(values, value, Window) = Append(Tail(values), value)
    BY <1>1, <1>4 DEF Slid
  <2>2. /\ Tail(window) \in Seq(S) /\ Tail(values) \in Seq(S)
        /\ IsSuffix(Tail(window), Tail(values))
    BY <1>1, <1>4, TailSuffix
  <2> QED BY <2>1, <2>2, AppendSuffix
<1> QED BY <1>1, <1>2, <1>3, <1>4

LEMMA EmptySuffix == IsSuffix(<<>>, <<>>)
BY DEF IsSuffix

LEMMA ObservedSuffix ==
  ASSUME NEW window \in Seq(Levels), NEW values \in Seq(Levels), NEW reading \in States,
         Len(window) <= Window, Len(values) <= Window, IsSuffix(window, values)
  PROVE  IsSuffix(Observed(window, reading), Observed(values, reading))
<1>1. CASE reading = Unknown
  BY <1>1 DEF Observed, IsSuffix
<1>2. CASE reading # Unknown
  <2>1. reading \in Levels /\ Window \in Nat \ {0}
    BY <1>2, PressureAssumption DEF States
  <2> QED BY <1>2, <2>1, SlidSuffix DEF Observed
<1> QED BY <1>1, <1>2

LEMMA CollectStitchesNothing ==
  ASSUME TypeOK, NothingStitched, NEW to \in Cadences, NEW policy \in Policies,
         NEW elapsed \in Nat, NEW readings \in Readings, Collect(to, policy, elapsed, readings)
  PROVE  NothingStitched'
<1> DEFINE cleared == Cleared(to, policy)
<1>1. \A s \in Signals : readings[s] \in States
  BY DEF Readings, States
<1>2. \A s \in Signals :
        /\ windows[s] \in Seq(Levels) /\ Len(windows[s]) <= Window
        /\ since[s] \in Seq(Levels) /\ Len(since[s]) <= Window
        /\ IsSuffix(windows[s], since[s])
  BY DEF TypeOK, NothingStitched
<1>3. CASE Observe(cleared, elapsed, readings) /\ since' = Since(cleared, elapsed, readings)
  <2> DEFINE fresh     == cleared \/ Discontinuity(elapsed)
             before(s) == IF fresh THEN <<>> ELSE windows[s]
             read(s)   == IF cleared \/ Slept(elapsed) THEN <<>> ELSE since[s]
  <2>1. /\ windows' = [s \in Signals |-> Observed(before(s), readings[s])]
        /\ since' = [s \in Signals |-> Observed(read(s), readings[s])]
    BY <1>3 DEF Observe, Since
  <2>2. \A s \in Signals :
          /\ before(s) \in Seq(Levels) /\ Len(before(s)) <= Window
          /\ read(s) \in Seq(Levels) /\ Len(read(s)) <= Window
    BY <1>2, PressureAssumption
  <2>3. ASSUME NEW s \in Signals PROVE IsSuffix(before(s), read(s))
    <3>1. CASE fresh
      <4>1. before(s) = <<>> /\ read(s) \in Seq(Levels)
        BY <2>2, <3>1
      <4> HIDE DEF before, read
      <4> QED BY <4>1 DEF IsSuffix
    <3>2. CASE ~fresh
      <4>1. ~Slept(elapsed)
        BY <3>2, SleepIsGap
      <4> QED BY <1>2, <3>2, <4>1
    <3> QED BY <3>1, <3>2
  <2> HIDE DEF before, read
  <2>4. \A s \in Signals :
          IsSuffix(Observed(before(s), readings[s]), Observed(read(s), readings[s]))
    BY <1>1, <2>2, <2>3, ObservedSuffix
  <2>5. \A s \in Signals : IsSuffix(windows'[s], since'[s])
    BY <2>1, <2>4
  <2> QED BY <2>5 DEF NothingStitched, IsSuffix
<1>4. CASE ObserveNothing(cleared) /\ since' = (IF cleared THEN Nowhere ELSE since)
  <2>1. \A s \in Signals :
          \/ windows'[s] = <<>> /\ since'[s] = <<>>
          \/ windows'[s] = windows[s] /\ since'[s] = since[s]
    BY <1>4 DEF ObserveNothing, Nowhere
  <2>2. \A s \in Signals : IsSuffix(windows'[s], since'[s])
    BY <1>2, <2>1, EmptySuffix
  <2> QED BY <2>2 DEF NothingStitched, IsSuffix
<1> QED BY <1>3, <1>4 DEF Collect

\* A pass that observes nothing clears a window only together with its history.
LEMMA OthersStitchNothing ==
  ASSUME TypeOK, NothingStitched,
         \/ FirstCollect
         \/ \E to \in Cadences, policy \in Policies : FailedCollect(to, policy)
         \/ UNCHANGED vars
  PROVE  NothingStitched'
<1>1. \A s \in Signals :
        \/ windows'[s] = <<>> /\ since'[s] = <<>>
        \/ windows'[s] = windows[s] /\ since'[s] = since[s]
  <2>1. CASE FirstCollect
    BY <2>1 DEF FirstCollect, ObserveNothing
  <2>2. CASE \E to \in Cadences, policy \in Policies : FailedCollect(to, policy)
    BY <2>2 DEF FailedCollect, ObserveNothing, Nowhere
  <2>3. CASE UNCHANGED vars
    BY <2>3 DEF vars, engine
  <2> QED BY <2>1, <2>2, <2>3
<1>2. \A s \in Signals : IsSuffix(windows'[s], since'[s])
  BY <1>1, EmptySuffix DEF NothingStitched
<1> QED BY <1>2 DEF NothingStitched, IsSuffix

LEMMA StepStitchesNothing ==
  TypeOK /\ NothingStitched /\ [Next]_vars => NothingStitched'
<1> SUFFICES ASSUME TypeOK, NothingStitched, [Next]_vars PROVE NothingStitched'
  OBVIOUS
<1>1. ASSUME NEW to \in Cadences, NEW policy \in Policies,
             NEW elapsed \in {Short, interval, Gap}, NEW readings \in Readings,
             Collect(to, policy, elapsed, readings)
      PROVE  NothingStitched'
  <2>1. elapsed \in Nat
    BY PressureAssumption DEF TypeOK
  <2> QED BY <1>1, <2>1, CollectStitchesNothing
<1> QED BY <1>1, OthersStitchNothing DEF Next

-----------------------------------------------------------------------------
(* Gaps *)

\* A gap of the current length needs a reference that is shorter, and so are most
\* intervals.
LEMMA GapIsLonger ==
  ASSUME TypeOK, NEW elapsed \in Nat, elapsed = interval, Discontinuity(elapsed)
  PROVE  2 * Cardinality({i \in 1..Len(recent) : recent[i] < interval}) > Len(recent)
<1>1. /\ recent \in Seq(Nat) /\ Len(recent) >= 2 /\ interval \in Nat
      /\ Multiple \in Nat \ {0} /\ interval > Multiple * Reference
  BY PressureAssumption DEF TypeOK, Discontinuity
<1>2. /\ Reference \in Nat
      /\ Cardinality({i \in 1..Len(recent) : recent[i] <= Reference}) > Len(recent) \div 2
  BY <1>1, ReferenceIsMedian
<1>3. Reference < interval
  <2>1. Multiple * Reference >= Reference /\ Multiple * Reference \in Nat
    BY <1>1, <1>2
  <2> QED BY <1>1, <1>2, <2>1
<1> DEFINE S == {i \in 1..Len(recent) : recent[i] <= Reference}
           T == {i \in 1..Len(recent) : recent[i] < interval}
<1>4. S \subseteq T
  BY <1>1, <1>2, <1>3
<1>5. Cardinality(S) \in Nat /\ Cardinality(T) \in Nat /\ Cardinality(S) <= Cardinality(T)
  BY <1>1, <1>4, FewerBelow
<1>6. Cardinality(S) > Len(recent) \div 2
  BY <1>2
<1>7. 2 * Cardinality(T) > Len(recent)
  <2> HIDE DEF S, T
  <2> QED BY <1>1, <1>5, <1>6
<1> QED BY <1>7

MostAreShorter ==
  pass'.gap /\ pass'.elapsed = interval =>
    2 * Cardinality({i \in 1..Len(recent) : recent[i] < interval}) > Len(recent)

LEMMA StepRefreshIsNoGap ==
  ASSUME TypeOK, Next
  PROVE  MostAreShorter
<1>1. ASSUME NEW to \in Cadences, NEW policy \in Policies,
             NEW elapsed \in {Short, interval, Gap}, NEW readings \in Readings,
             Collect(to, policy, elapsed, readings)
      PROVE  MostAreShorter
  <2>1. elapsed \in Nat
    BY PressureAssumption DEF TypeOK
  <2>2. CASE pass' = [elapsed |-> elapsed, gap |-> Discontinuity(elapsed)]
    <3>1. pass'.gap = Discontinuity(elapsed) /\ pass'.elapsed = elapsed
      BY <2>2
    <3> QED BY <2>1, <3>1, GapIsLonger DEF MostAreShorter
  <2>3. CASE pass' = [elapsed |-> elapsed, gap |-> FALSE]
    BY <2>3 DEF MostAreShorter
  <2> QED BY <1>1, <2>2, <2>3 DEF Collect
<1>2. ASSUME pass' = Unmeasured
      PROVE  MostAreShorter
  BY <1>2 DEF MostAreShorter, Unmeasured
<1>3. CASE FirstCollect
  BY <1>2, <1>3 DEF FirstCollect
<1>4. CASE \E to \in Cadences, policy \in Policies : FailedCollect(to, policy)
  BY <1>2, <1>4 DEF FailedCollect
<1> QED BY <1>1, <1>3, <1>4 DEF Next

-----------------------------------------------------------------------------
(* The theorems *)

\* Every variable keeps a value of its kind, and the windows, the intervals and the
\* histories keep their bounds.
THEOREM TypeSafety == Spec => []TypeOK
<1>1. IInv => TypeOK
  BY DEF IInv
<1> QED BY <1>1, Inductive, PTL

\* The radar holds on to no state that its window no longer supports, and shows the
\* highest one that is sustained there.
THEOREM RadarIsSupported == Spec => []ShownIsSupported
<1>1. IInv => ShownIsSupported
  BY DEF IInv
<1> QED BY <1>1, Inductive, PTL

\* A critical episode rings once however many of its snapshots are lost, and does ring
\* when none of them is.
THEOREM OneBellAnEpisode == Spec => BellOncePerEpisode
<1>1. IInv => \A s \in Signals \ missed : shown[s] = Critical => s \in rang
  BY DEF IInv, RungUnlessMissed
<1>2. IInv /\ [Next]_vars => [bell' \cap rang = {}]_vars
  <2>1. IInv /\ [Next]_vars => UNCHANGED vars \/ bell' \cap rang = {}
    BY StepKeeps
  <2> QED BY <2>1
<1> QED BY <1>1, <1>2, Inductive, PTL DEF Spec, BellOncePerEpisode

\* The window of a signal holds only what was read since its stream broke off, since the
\* engine takes every sleep for a discontinuity: its reference is a median, which is no
\* longer than the cadence when most intervals are not.
THEOREM NothingIsStitched == Spec => []NothingStitched
<1>1. Init => NothingStitched
  BY EmptySuffix DEF Init, Nowhere, NothingStitched
<1>2. TypeOK /\ NothingStitched /\ [Next]_vars => NothingStitched'
  BY StepStitchesNothing
<1> QED BY <1>1, <1>2, TypeSafety, PTL DEF Spec

\* A pass of the current length is a discontinuity only when most intervals were shorter.
THEOREM RefreshesAreNoGap == Spec => RefreshIsNoGap
<1>1. TypeOK /\ [Next]_vars => [MostAreShorter]_vars
  BY StepRefreshIsNoGap
<1>2. [MostAreShorter]_vars =>
        [pass'.gap /\ pass'.elapsed = interval =>
           2 * Cardinality({i \in 1..Len(recent) : recent[i] < interval}) > Len(recent)]_vars
  BY DEF MostAreShorter
<1> QED BY <1>1, <1>2, TypeSafety, PTL DEF Spec, RefreshIsNoGap
=============================================================================
