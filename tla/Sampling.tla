--------------------------------- MODULE Sampling ---------------------------------
(***************************************************************************)
(* The sampler thread: the tiers with their deadlines (collectors/tier.rs),*)
(* the loop that rebuilds, asks and marks them (monitrs/runtime.rs), and   *)
(* how old the sensors are that a snapshot keeps when they were not due    *)
(* (common/collector.rs).                                                  *)
(*                                                                         *)
(* An Instant is kept as how long ago it was, up to MaxAge: deadlines and  *)
(* ages only ever compare it with an interval.  A thread may be late by any*)
(* amount, since a sleep ends no earlier than asked and no other promise   *)
(* is made.  Runtime models the channel behind Publish and the flags in    *)
(* front of Look.                                                          *)
(***************************************************************************)
EXTENDS Integers, FiniteSetsExt

CONSTANTS
  Never,         \* no Instant
  Intervals,     \* sampling intervals a command or a file may set
  MediumFactor,  \* medium interval by fast interval, 5 in the code
  SlowFactor,    \* slow interval by fast interval, 30 in the code
  Slice,         \* SHUTDOWN_SLICE
  MaxAge,        \* bound: ages are told apart up to here
  MaxCollect     \* bound: how long a collection lasts

ASSUME SamplingAssumption ==
  /\ Intervals \subseteq Nat \ {0}
  /\ MediumFactor \in Nat \ {0} /\ SlowFactor \in Nat /\ SlowFactor >= MediumFactor
  /\ Slice \in Nat \ {0} /\ MaxCollect \in Nat
  /\ MaxAge \in Nat /\ MaxAge >= MaxCollect /\ \A i \in Intervals : SlowFactor * i <= MaxAge
  /\ Never \notin Int

VARIABLES
  interval,    \* SamplingControl::interval_millis
  wanted,      \* SensorInterest: the battery view is shown
  forced,      \* SampleRequest
  adopted,     \* the sampler's copy of the interval, which its scheduler is built for
  age,         \* how long ago each group last ran: last_fast, last_medium, ...
  interest,    \* TierScheduler::sensor_interest
  sleep,       \* what is left of the sampler's sleep
  tick,        \* SampleTick of the pass under way, or Idle between passes
  readAge,     \* how long ago sensors_read_at was
  opened,      \* history: the view came into sight after the last snapshot
  lapsed       \* history: the sensors were marked as read by a pass that failed

control   == <<interval, wanted, forced>>
scheduler == <<adopted, age, interest>>
vars == <<control, scheduler, sleep, tick, readAge, opened, lapsed>>

Groups  == {"fast", "medium", "slow", "sensors"}
Ages    == 0..MaxAge \cup {Never}
Idle    == [due |-> {}]

Lesser(a, b) == IF a < b THEN a ELSE b
Larger(a, b) == IF a > b THEN a ELSE b

-----------------------------------------------------------------------------
(* TierScheduler *)

\* derived_from and sensor_interval.
CadenceOf(fast, interested) ==
  [fast    |-> fast,
   medium  |-> MediumFactor * fast,
   slow    |-> SlowFactor * fast,
   sensors |-> IF interested THEN MediumFactor * fast ELSE SlowFactor * fast]

IsDue(group, ages, cadence) == ages[group] = Never \/ ages[group] >= cadence[group]

\* due_at
DueAt(ages, cadence) == {group \in Groups : IsDue(group, ages, cadence)}

\* Mutant: a pass counts for every group, read or not.
MarkAll(pass, ages) == [group \in Groups |-> pass.since]

\* mark_completed, as of the instant the pass looked
MarkCompleted(pass, ages) ==
  [group \in Groups |-> IF group \in pass.due THEN pass.since ELSE ages[group]]

Remaining(group, ages, cadence) ==
  IF IsDue(group, ages, cadence) THEN 0 ELSE cadence[group] - ages[group]

\* Mutant: the sensors are left out of the sleep.
UntilNextTier(ages, cadence) ==
  Min({Remaining(group, ages, cadence) : group \in Groups \ {"sensors"}})

\* time_until_next
TimeUntilNext(ages, cadence) == Min({Remaining(group, ages, cadence) : group \in Groups})

\* A rebuilt scheduler has every group due and no interest.
Rebuilt == [group \in Groups |-> Never]

\* Mutant: the view that comes into sight clears no deadline.
InterestedQuietly(ages, before, after) == ages

\* set_sensor_interest: a rising edge clears the deadline of the sensors.
Interested(ages, before, after) ==
  IF after /\ ~before THEN [ages EXCEPT !["sensors"] = Never] ELSE ages

-----------------------------------------------------------------------------
(* The flags, which the UI thread may set at any moment *)

SetInterval(to) ==
  /\ interval' = to
  /\ UNCHANGED <<wanted, forced, scheduler, sleep, tick, readAge, opened, lapsed>>

ShowBattery(shown) ==
  /\ wanted' = shown
  /\ UNCHANGED <<interval, forced, scheduler, sleep, tick, readAge, opened, lapsed>>

Refresh ==
  /\ forced' = TRUE
  /\ UNCHANGED <<interval, wanted, scheduler, sleep, tick, readAge, opened, lapsed>>

-----------------------------------------------------------------------------
(* The sampler *)

\* One look at the flags and the deadlines.  A new interval rebuilds the scheduler,
\* a refresh makes everything due, and the instant of the look is the instant of the
\* pass it starts.  If nothing is due the sampler sleeps for at least a moment.
Look ==
  /\ tick = Idle /\ sleep = 0
  /\ LET fresh   == interval # adopted
         ages    == Interested(IF fresh THEN Rebuilt ELSE age,
                               ~fresh /\ interest, wanted)
         cadence == CadenceOf(interval, wanted)
         due     == IF forced THEN Groups ELSE DueAt(ages, cadence)
     IN  /\ age' = ages
         /\ IF due # {}
            THEN tick' = [due |-> due, since |-> 0, carried |-> readAge] /\ UNCHANGED sleep
            ELSE /\ sleep' = Larger(1, Lesser(TimeUntilNext(ages, cadence), Slice))
                 /\ UNCHANGED tick
  /\ adopted' = interval /\ interest' = wanted
  /\ opened' = (wanted /\ (opened \/ ~interest))
  /\ forced' = FALSE
  /\ UNCHANGED <<interval, wanted, readAge, lapsed>>

\* The collection succeeds.  The collector reads what is due and republishes the
\* rest: sensors with the age of their reading.
Publish ==
  /\ tick # Idle
  /\ LET read == "sensors" \in tick.due
     IN  /\ readAge' = IF read THEN tick.since ELSE readAge
         /\ lapsed' = (lapsed /\ ~read)
  /\ age' = MarkCompleted(tick, age)
  /\ opened' = FALSE
  /\ tick' = Idle
  /\ UNCHANGED <<control, adopted, interest, sleep>>

\* The collection fails, for this once: its groups are marked all the same.
Fail ==
  /\ tick # Idle
  /\ lapsed' = (lapsed \/ "sensors" \in tick.due)
  /\ age' = MarkCompleted(tick, age)
  /\ tick' = Idle
  /\ UNCHANGED <<control, adopted, interest, sleep, readAge, opened>>

Older(length) == IF length = Never THEN Never ELSE Lesser(length + 1, MaxAge)

\* Time passes while the sampler sleeps, is late, or collects.
Elapse ==
  /\ tick # Idle => tick.since < MaxCollect
  /\ age' = [group \in Groups |-> Older(age[group])]
  /\ readAge' = Older(readAge)
  /\ sleep' = Larger(sleep - 1, 0)
  /\ tick' = IF tick = Idle THEN Idle ELSE [tick EXCEPT !.since = @ + 1]
  /\ UNCHANGED <<control, adopted, interest, opened, lapsed>>

-----------------------------------------------------------------------------

Init ==
  /\ interval \in Intervals /\ adopted = interval
  /\ wanted = FALSE /\ forced = FALSE /\ interest = FALSE
  /\ age = Rebuilt /\ readAge = Never
  /\ sleep = 0 /\ tick = Idle
  /\ opened = FALSE /\ lapsed = FALSE

Next ==
  \/ \E to \in Intervals : SetInterval(to)
  \/ \E shown \in BOOLEAN : ShowBattery(shown)
  \/ Refresh
  \/ Look
  \/ Publish
  \/ Fail
  \/ Elapse

\* Time goes on, and the operating system schedules the sampler, whose collections
\* end one way or the other.
Fairness == WF_vars(Elapse) /\ WF_vars(Look) /\ WF_vars(Publish \/ Fail)

Spec     == Init /\ [][Next]_vars
FairSpec == Spec /\ Fairness

-----------------------------------------------------------------------------
(* Properties *)

\* Every variable holds a value of its kind.
TypeOK ==
  /\ {interval, adopted} \subseteq Intervals
  /\ {wanted, forced, interest, opened, lapsed} \subseteq BOOLEAN
  /\ age \in [Groups -> Ages] /\ readAge \in Ages /\ sleep \in Nat
  /\ tick \in {Idle} \cup [due : SUBSET Groups, since : 0..MaxCollect, carried : Ages]

\* The sampler never sleeps past a deadline of the schedule it adopted, nor longer
\* than it may go without seeing a flag: rebuilds, edges of interest, refreshes and
\* failures between its looks leave no group without a wake-up.
WakesInTime ==
  /\ sleep <= Slice
  /\ sleep > 0 => \A group \in Groups :
       age[group] # Never /\ age[group] + sleep <= CadenceOf(adopted, interest)[group]

\* The sensors that the snapshot under way carries over from an earlier pass are
\* younger than the cadence of their group, and it is not the first snapshot since
\* the battery view came into sight, whatever rebuilds and refreshes come between.  A
\* pass that was to read them and failed is the exception: the sampler marks them as
\* read and carries the old ones for another period.
SensorsKeepCadence ==
  tick # Idle /\ "sensors" \notin tick.due /\ ~lapsed =>
    /\ tick.carried # Never
    /\ tick.carried < CadenceOf(adopted, interest)["sensors"]
    /\ ~opened

\* No group starves: whatever the user refreshes, opens and changes, and however
\* late the sampler runs, each group is collected again and again.
NoTierStarves == \A group \in Groups : []<>(tick # Idle /\ group \in tick.due)
=============================================================================
