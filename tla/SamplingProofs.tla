----------------------------- MODULE SamplingProofs -----------------------------
(***************************************************************************)
(* The sampler wakes in time and keeps the cadence of the sensors, for     *)
(* every set of intervals, every factor between the tiers and every        *)
(* length of a collection.                                                 *)
(***************************************************************************)
EXTENDS Sampling, TLAPS

\* While it collects the sampler does not sleep.
CollectingIsAwake == tick # Idle => sleep = 0

\* The scheduler and the collector agree on when the sensors were read, unless a failed
\* pass was marked as a reading.
AgesAgree == ~lapsed /\ age["sensors"] # Never => readAge = age["sensors"]

\* Once the battery view is in sight the sensors stay due until a pass is to read them.
OpenedIsDue == opened /\ ~lapsed => age["sensors"] = Never

IInv ==
  /\ TypeOK
  /\ CollectingIsAwake
  /\ AgesAgree
  /\ OpenedIsDue
  /\ WakesInTime
  /\ SensorsKeepCadence

Pass == [due : SUBSET Groups, since : 0..MaxCollect, carried : Ages]

-----------------------------------------------------------------------------
(* The scheduler *)

\* A cadence is a positive number for every group; the slowest fits the bound.
LEMMA CadenceType ==
  ASSUME NEW fast \in Intervals, NEW interested \in BOOLEAN, NEW group \in Groups
  PROVE  CadenceOf(fast, interested)[group] \in Nat \ {0}
<1>1. /\ fast \in Nat \ {0} /\ MediumFactor \in Nat \ {0} /\ SlowFactor \in Nat \ {0}
  BY SamplingAssumption
<1>2. /\ MediumFactor * fast \in Nat \ {0} /\ SlowFactor * fast \in Nat \ {0}
  BY <1>1
<1> QED BY <1>1, <1>2 DEF CadenceOf, Groups

\* When no group is due, each has run, and has some time left.
LEMMA NothingDue ==
  ASSUME NEW ages \in [Groups -> Ages], NEW cadence \in [Groups -> Nat],
         DueAt(ages, cadence) = {}, NEW group \in Groups
  PROVE  /\ ages[group] # Never /\ ages[group] \in Nat
         /\ ages[group] < cadence[group]
         /\ Remaining(group, ages, cadence) = cadence[group] - ages[group]
BY SamplingAssumption DEF DueAt, IsDue, Remaining, Ages

\* The time until the next deadline is positive and within that of every group.
LEMMA NextDeadline ==
  ASSUME NEW ages \in [Groups -> Ages], NEW cadence \in [Groups -> Nat],
         DueAt(ages, cadence) = {}
  PROVE  /\ TimeUntilNext(ages, cadence) \in Nat \ {0}
         /\ \A group \in Groups :
              ages[group] + TimeUntilNext(ages, cadence) <= cadence[group]
<1> DEFINE left(group) == Remaining(group, ages, cadence)
<1>1. \A group \in Groups : /\ left(group) = cadence[group] - ages[group]
                            /\ left(group) \in Nat \ {0} /\ ages[group] \in Nat
  BY NothingDue
<1> HIDE DEF left
<1>2. /\ left("fast") \in Int /\ left("medium") \in Int
      /\ left("slow") \in Int /\ left("sensors") \in Int
  BY <1>1 DEF Groups
<1> DEFINE all   == {left("fast"), left("medium"), left("slow"), left("sensors")}
           least == Min(all)
<1>3. TimeUntilNext(ages, cadence) = least
  <2>1. {Remaining(group, ages, cadence) : group \in Groups}
          = {left("fast"), left("medium"), left("slow"), left("sensors")}
    BY DEF Groups, left
  <2> QED BY <2>1 DEF TimeUntilNext
<1>4. least \in all /\ \A x \in all : least <= x
  <2>1. \E x \in all : \A y \in all : x <= y
    BY <1>2
  <2> HIDE DEF all
  <2> QED BY <2>1 DEF Min
<1> HIDE DEF least
<1>5. /\ \E group \in Groups : least = left(group)
      /\ \A group \in Groups : least <= left(group)
  BY <1>4 DEF Groups
<1> QED BY <1>1, <1>3, <1>5

-----------------------------------------------------------------------------

LEMMA InitHolds == Init => IInv
<1> SUFFICES ASSUME Init PROVE IInv
  OBVIOUS
<1>1. TypeOK
  BY DEF Init, TypeOK, Rebuilt, Ages
<1>2. /\ CollectingIsAwake /\ AgesAgree /\ OpenedIsDue /\ WakesInTime
      /\ SensorsKeepCadence
  BY SamplingAssumption DEF Init, CollectingIsAwake, AgesAgree, OpenedIsDue, WakesInTime,
     SensorsKeepCadence, Rebuilt, Groups
<1> QED BY <1>1, <1>2 DEF IInv

\* A flag that the UI thread sets is no part of what the sampler relies on.
LEMMA FlagKeeps ==
  ASSUME IInv, interval' \in Intervals, wanted' \in BOOLEAN, forced' \in BOOLEAN,
         UNCHANGED <<scheduler, sleep, tick, readAge, opened, lapsed>>
  PROVE  IInv'
BY DEF IInv, scheduler, TypeOK, CollectingIsAwake, AgesAgree, OpenedIsDue, WakesInTime,
   SensorsKeepCadence

LEMMA LookKeeps == ASSUME IInv, Look PROVE IInv'
<1> DEFINE fresh   == interval # adopted
           ages    == Interested(IF fresh THEN Rebuilt ELSE age, ~fresh /\ interest, wanted)
           cadence == CadenceOf(interval, wanted)
           due     == IF forced THEN Groups ELSE DueAt(ages, cadence)
<1>1. /\ tick = Idle /\ sleep = 0 /\ age' = ages
      /\ IF due # {}
           THEN tick' = [due |-> due, since |-> 0, carried |-> readAge] /\ sleep' = sleep
           ELSE /\ sleep' = Larger(1, Lesser(TimeUntilNext(ages, cadence), Slice))
                /\ tick' = tick
      /\ adopted' = interval /\ interest' = wanted /\ interval' = interval /\ wanted' = wanted
      /\ opened' = (wanted /\ (opened \/ ~interest)) /\ forced' = FALSE
      /\ readAge' = readAge /\ lapsed' = lapsed
  BY DEF Look
<1>2. ages \in [Groups -> Ages]
  BY DEF IInv, TypeOK, Interested, Rebuilt, Ages
<1>3. cadence \in [Groups -> Nat]
  <2>1. DOMAIN cadence = Groups /\ cadence = [g \in Groups |-> cadence[g]]
    BY DEF CadenceOf, Groups
  <2> QED BY <2>1, CadenceType DEF IInv, TypeOK
<1>4. due \subseteq Groups
  BY DEF DueAt
<1>5. sleep' \in Nat /\ sleep' <= Slice /\ (sleep' > 0 => due = {})
  <2>1. CASE due # {}
    BY <1>1, <2>1, SamplingAssumption
  <2>2. CASE due = {}
    <3>1. DueAt(ages, cadence) = {}
      BY <2>2 DEF Groups
    <3>2. TimeUntilNext(ages, cadence) \in Nat \ {0}
      BY <1>2, <1>3, <3>1, NextDeadline
    <3> HIDE DEF ages, cadence
    <3> QED BY <1>1, <2>2, <3>2, SamplingAssumption DEF Larger, Lesser
  <2> QED BY <2>1, <2>2
<1>6. TypeOK'
  <2>1. tick' \in {Idle} \cup Pass
    BY <1>1, <1>4, SamplingAssumption DEF IInv, TypeOK, Pass
  <2> HIDE DEF ages, cadence, due
  <2> QED BY <1>1, <1>2, <1>5, <2>1 DEF IInv, TypeOK, Pass
<1>7. CollectingIsAwake'
  <2> HIDE DEF ages, cadence, due
  <2> QED BY <1>1, <1>5 DEF CollectingIsAwake
<1>8. ages["sensors"] # Never => /\ age["sensors"] = ages["sensors"] /\ ~fresh
                                 /\ ~(wanted /\ ~interest)
  BY DEF Interested, Rebuilt, Groups, IInv, TypeOK
<1>9. AgesAgree' /\ OpenedIsDue'
  <2> HIDE DEF ages, cadence, due
  <2> QED BY <1>1, <1>8 DEF IInv, AgesAgree, OpenedIsDue
<1>10. WakesInTime'
  <2>1. ASSUME sleep' > 0, NEW group \in Groups
        PROVE  age'[group] # Never /\ age'[group] + sleep' <= cadence[group]
    <3>1. due = {} /\ DueAt(ages, cadence) = {}
      BY <1>5, <2>1 DEF Groups
    <3>2. /\ TimeUntilNext(ages, cadence) \in Nat \ {0}
          /\ ages[group] + TimeUntilNext(ages, cadence) <= cadence[group]
          /\ ages[group] # Never /\ ages[group] \in Nat /\ cadence[group] \in Nat
      BY <1>2, <1>3, <3>1, NextDeadline, NothingDue
    <3>3. sleep' = Larger(1, Lesser(TimeUntilNext(ages, cadence), Slice))
      BY <1>1, <3>1
    <3> HIDE DEF ages, cadence, due
    <3> QED BY <1>1, <3>2, <3>3, SamplingAssumption DEF Larger, Lesser
  <2>2. cadence = CadenceOf(adopted', interest')
    BY <1>1
  <2> HIDE DEF ages, cadence, due
  <2> QED BY <1>5, <2>1, <2>2 DEF WakesInTime
<1>11. SensorsKeepCadence'
  <2> SUFFICES ASSUME tick' # Idle, "sensors" \notin tick'.due, ~lapsed
               PROVE  /\ tick'.carried # Never
                      /\ tick'.carried < cadence["sensors"] /\ ~opened'
    BY <1>1 DEF SensorsKeepCadence
  <2>1. tick' = [due |-> due, since |-> 0, carried |-> readAge]
    BY <1>1
  <2>2. ~IsDue("sensors", ages, cadence)
    BY <2>1 DEF DueAt, Groups
  <2>3. ages["sensors"] # Never /\ ages["sensors"] < cadence["sensors"]
    <3>1. ages["sensors"] \in Ages /\ cadence["sensors"] \in Nat
      BY <1>2, <1>3 DEF Groups
    <3> QED BY <2>2, <3>1, SamplingAssumption DEF IsDue, Ages
  <2>4. readAge = ages["sensors"] /\ ~opened'
    BY <1>1, <1>8, <2>3 DEF IInv, AgesAgree, OpenedIsDue
  <2> QED BY <2>1, <2>3, <2>4
<1> QED BY <1>6, <1>7, <1>9, <1>10, <1>11 DEF IInv

LEMMA PublishKeeps == ASSUME IInv, Publish PROVE IInv'
<1>1. /\ tick \in Pass /\ tick # Idle /\ sleep = 0 /\ tick' = Idle /\ sleep' = sleep
      /\ readAge' = (IF "sensors" \in tick.due THEN tick.since ELSE readAge)
      /\ lapsed' = (lapsed /\ "sensors" \notin tick.due)
      /\ age' = [g \in Groups |-> IF g \in tick.due THEN tick.since ELSE age[g]]
      /\ opened' = FALSE
      /\ interval' = interval /\ wanted' = wanted /\ forced' = forced
      /\ adopted' = adopted /\ interest' = interest
  BY DEF IInv, TypeOK, CollectingIsAwake, Publish, MarkCompleted, control, Pass
<1>2. tick.since \in Nat /\ tick.since \in Ages
  BY <1>1, SamplingAssumption DEF Pass, Ages
<1>3. TypeOK'
  BY <1>1, <1>2 DEF IInv, TypeOK
<1>4. age'["sensors"] = IF "sensors" \in tick.due THEN tick.since ELSE age["sensors"]
  BY <1>1 DEF Groups
<1>5. CollectingIsAwake' /\ AgesAgree' /\ OpenedIsDue'
  BY <1>1, <1>4 DEF IInv, CollectingIsAwake, AgesAgree, OpenedIsDue
<1>6. WakesInTime' /\ SensorsKeepCadence'
  BY <1>1, SamplingAssumption DEF WakesInTime, SensorsKeepCadence
<1> QED BY <1>3, <1>5, <1>6 DEF IInv

LEMMA FailKeeps == ASSUME IInv, Fail PROVE IInv'
<1>1. /\ tick \in Pass /\ tick # Idle /\ sleep = 0 /\ tick' = Idle /\ sleep' = sleep
      /\ readAge' = readAge /\ lapsed' = (lapsed \/ "sensors" \in tick.due)
      /\ age' = [g \in Groups |-> IF g \in tick.due THEN tick.since ELSE age[g]]
      /\ opened' = opened
      /\ interval' = interval /\ wanted' = wanted /\ forced' = forced
      /\ adopted' = adopted /\ interest' = interest
  BY DEF IInv, TypeOK, CollectingIsAwake, Fail, MarkCompleted, control, Pass
<1>2. tick.since \in Nat /\ tick.since \in Ages
  BY <1>1, SamplingAssumption DEF Pass, Ages
<1>3. TypeOK'
  BY <1>1, <1>2 DEF IInv, TypeOK
<1>4. age'["sensors"] = IF "sensors" \in tick.due THEN tick.since ELSE age["sensors"]
  BY <1>1 DEF Groups
<1>5. CollectingIsAwake' /\ AgesAgree' /\ OpenedIsDue'
  BY <1>1, <1>4 DEF IInv, CollectingIsAwake, AgesAgree, OpenedIsDue
<1>6. WakesInTime' /\ SensorsKeepCadence'
  BY <1>1, SamplingAssumption DEF WakesInTime, SensorsKeepCadence
<1> QED BY <1>3, <1>5, <1>6 DEF IInv

LEMMA ElapseKeeps == ASSUME IInv, Elapse PROVE IInv'
<1>1. /\ age' = [g \in Groups |-> Older(age[g])] /\ readAge' = Older(readAge)
      /\ sleep' = Larger(sleep - 1, 0)
      /\ tick # Idle => tick.since < MaxCollect
      /\ tick' = (IF tick = Idle THEN Idle ELSE [tick EXCEPT !.since = @ + 1])
      /\ opened' = opened /\ lapsed' = lapsed
      /\ interval' = interval /\ wanted' = wanted /\ forced' = forced
      /\ adopted' = adopted /\ interest' = interest
  BY DEF Elapse, control
<1>2. \A length \in Ages : /\ Older(length) \in Ages
                           /\ Older(length) = Never <=> length = Never
                           /\ length # Never => Older(length) \in Nat /\ Older(length) <= length + 1
  BY SamplingAssumption DEF Ages, Older, Lesser
<1>3. sleep \in Nat /\ sleep' \in Nat /\ (sleep' > 0 => sleep' = sleep - 1) /\ sleep' <= sleep
  BY <1>1 DEF IInv, TypeOK, Larger
<1>4. \/ tick = Idle /\ tick' = Idle
      \/ /\ tick \in Pass /\ tick # Idle /\ tick' \in Pass
         /\ tick'.due = tick.due /\ tick'.carried = tick.carried
  BY <1>1, SamplingAssumption DEF IInv, TypeOK, Pass
<1>5. TypeOK'
  BY <1>1, <1>2, <1>3, <1>4 DEF IInv, TypeOK, Pass
<1>6. CollectingIsAwake'
  BY <1>1, <1>3 DEF IInv, CollectingIsAwake
<1>7. age["sensors"] \in Ages /\ readAge \in Ages /\ age'["sensors"] = Older(age["sensors"])
  BY <1>1 DEF IInv, TypeOK, Groups
<1>8. AgesAgree' /\ OpenedIsDue'
  BY <1>1, <1>2, <1>7 DEF IInv, AgesAgree, OpenedIsDue
<1>9. WakesInTime'
  <2>1. ASSUME sleep' > 0, NEW group \in Groups
        PROVE  age'[group] # Never
                 /\ age'[group] + sleep' <= CadenceOf(adopted, interest)[group]
    <3>1. sleep > 0
      BY <1>3, <2>1
    <3>2. /\ age[group] # Never /\ age[group] \in Nat
          /\ age[group] + sleep <= CadenceOf(adopted, interest)[group]
      BY <3>1, SamplingAssumption DEF IInv, WakesInTime, TypeOK, Ages
    <3>3. CadenceOf(adopted, interest)[group] \in Nat
      BY CadenceType DEF IInv, TypeOK
    <3>4. age'[group] = Older(age[group]) /\ age[group] \in Ages
      BY <1>1 DEF IInv, TypeOK
    <3>5. age'[group] # Never /\ age'[group] \in Nat /\ age'[group] <= age[group] + 1
      BY <1>2, <3>2, <3>4
    <3> QED BY <1>3, <2>1, <3>2, <3>3, <3>5
  <2>2. sleep' <= Slice
    BY <1>3, SamplingAssumption DEF IInv, WakesInTime
  <2> QED BY <1>1, <2>1, <2>2 DEF WakesInTime
<1>10. SensorsKeepCadence'
  BY <1>1, <1>4 DEF IInv, SensorsKeepCadence
<1> QED BY <1>5, <1>6, <1>8, <1>9, <1>10 DEF IInv

LEMMA StepKeeps == IInv /\ [Next]_vars => IInv'
<1> SUFFICES ASSUME IInv, [Next]_vars PROVE IInv'
  OBVIOUS
<1>1. CASE UNCHANGED vars
  BY <1>1, FlagKeeps DEF vars, control, scheduler, IInv, TypeOK
<1>2. CASE \/ \E to \in Intervals : SetInterval(to)
           \/ \E shown \in BOOLEAN : ShowBattery(shown)
           \/ Refresh
  BY <1>2, FlagKeeps DEF SetInterval, ShowBattery, Refresh, IInv, TypeOK
<1>3. CASE Look
  BY <1>3, LookKeeps
<1>4. CASE Publish
  BY <1>4, PublishKeeps
<1>5. CASE Fail
  BY <1>5, FailKeeps
<1>6. CASE Elapse
  BY <1>6, ElapseKeeps
<1> QED BY <1>1, <1>2, <1>3, <1>4, <1>5, <1>6 DEF Next

LEMMA Inductive == Spec => []IInv
<1> QED BY InitHolds, StepKeeps, PTL DEF Spec

-----------------------------------------------------------------------------
(* The theorems *)

\* Every variable keeps a value of its kind.
THEOREM TypeSafety == Spec => []TypeOK
<1>1. IInv => TypeOK
  BY DEF IInv
<1> QED BY <1>1, Inductive, PTL

\* The sampler sleeps past no deadline, whatever was rebuilt, forced or opened before.
THEOREM NoDeadlineIsSlept == Spec => []WakesInTime
<1>1. IInv => WakesInTime
  BY DEF IInv
<1> QED BY <1>1, Inductive, PTL

\* No snapshot carries sensors older than their cadence, nor, as the first one after the
\* battery view came into sight, any that were read before, unless their reading failed.
THEOREM CarriedSensorsAreFresh == Spec => []SensorsKeepCadence
<1>1. IInv => SensorsKeepCadence
  BY DEF IInv
<1> QED BY <1>1, Inductive, PTL
=============================================================================
