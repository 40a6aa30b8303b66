--------------------------------- MODULE Pressure ---------------------------------
(***************************************************************************)
(* The Pressure Radar, from a pass of the sampler to the bell: the engine  *)
(* with its trackers and its reference interval (diagnostics/engine.rs,    *)
(* diagnostics/hysteresis.rs), what the sampler loop does to it            *)
(* (monitrs/runtime.rs), and the watch of the reducer that announces       *)
(* transitions (app/pressure.rs).                                          *)
(*                                                                         *)
(* A reading is the level a rule derives from one signal's input, or       *)
(* Unknown when the input is not fresh.  Intervals are lengths of time.    *)
(* The watch changes nothing that the engine reads and Runtime shows that  *)
(* snapshots arrive in order, so a snapshot is lost or applied within the  *)
(* step that publishes it.                                                 *)
(***************************************************************************)
EXTENDS Integers, Sequences, FiniteSets

CONSTANTS
  Signals,          \* PressureId::DISPLAY_ORDER
  Unknown,          \* no fresh state
  Window, Required, \* sanitized sustained_window and sustained_samples
  RecentIntervals,  \* RECENT_INTERVALS
  Multiple,         \* discontinuity_intervals
  Cadences,         \* sampling intervals a command or a file may set
  Short,            \* the interval a refresh leaves behind
  Gap               \* the interval a sleep leaves behind

Normal   == 0
Critical == 2
Levels   == 0..2

ASSUME PressureAssumption ==
  /\ Unknown \notin Levels
  /\ Required \in 1..Window /\ Window \in Nat
  /\ RecentIntervals \in Nat \ {0, 1} /\ Multiple \in Nat \ {0}
  /\ Cadences # {} /\ Cadences \subseteq Nat \ {0}
  /\ Short \in Nat \ {0} /\ Gap \in Nat \ {0}

VARIABLES
  enabled,   \* Thresholds::enabled
  interval,  \* the sampler's copy of the sampling interval
  started,   \* the sampler has a previous pass to measure from
  recent,    \* recent_intervals, oldest first
  windows,   \* Hysteresis::observations of each signal
  states,    \* Hysteresis::state
  last,      \* PressureWatch::last
  shown,     \* history: the radar of the last snapshot published
  since,     \* history: what each signal read since its stream last broke off
  pass,      \* history: the last pass, its length and whether it counted as a gap
  bell,      \* history: the signals that reached critical in the last radar applied
  rang,      \* history: the signals that rang since the radar has them critical
  missed     \* history: the signals that may have turned critical in a radar that was lost

engine == <<enabled, interval, started, recent, windows, states>>
vars == <<engine, last, shown, since, pass, bell, rang, missed>>

Nowhere == [s \in Signals |-> <<>>]

\* A sequence that holds the newest of at most size values.
Slid(values, value, size) ==
  Append(IF Len(values) >= size THEN Tail(values) ELSE values, value)

-----------------------------------------------------------------------------
(* Hysteresis *)

AtLeast(level, window) == Cardinality({i \in 1..Len(window) : window[i] >= level})

\* escalation_target: the highest state observed often enough.
Target(window) ==
  CHOOSE level \in Levels :
    /\ level = Normal \/ AtLeast(level, window) >= Required
    /\ \A higher \in Levels : higher > level => AtLeast(higher, window) < Required

\* Mutant: a state is left once nothing in the window is out of the ordinary.
HeldUntilQuiet(state, window) ==
  IF Target(window) > state \/ AtLeast(Normal + 1, window) = 0 THEN Target(window) ELSE state

\* A higher state is reached once it is sustained; the state held is left once no
\* observation of the window supports it.
Held(state, window) ==
  IF Target(window) > state \/ AtLeast(state, window) = 0 THEN Target(window) ELSE state

\* Hysteresis::observe: the state a signal settles on, if it has one yet.
Settled(state, window) ==
  IF Len(window) < Required THEN state ELSE Held(state, window)
Radar(state, window) == IF Len(window) < Required THEN Unknown ELSE state

-----------------------------------------------------------------------------
(* The engine *)

\* Mutant: the shortest interval, as an earlier version had it.
ReferenceShortest ==
  CHOOSE length \in {recent[i] : i \in 1..Len(recent)} :
    \A i \in 1..Len(recent) : length <= recent[i]

\* Mutant: the longest interval.
ReferenceLongest ==
  CHOOSE length \in {recent[i] : i \in 1..Len(recent)} :
    \A i \in 1..Len(recent) : length >= recent[i]

\* The element in the middle of the sorted intervals.
Reference ==
  CHOOSE length \in {recent[i] : i \in 1..Len(recent)} :
    /\ Cardinality({i \in 1..Len(recent) : recent[i] < length}) <= Len(recent) \div 2
    /\ Cardinality({i \in 1..Len(recent) : recent[i] <= length}) > Len(recent) \div 2

\* is_discontinuity: no reference before there are two intervals.
Discontinuity(elapsed) == Len(recent) >= 2 /\ elapsed > Multiple * Reference

\* The window of one signal after a reading: an unavailable input drops it.
Observed(window, reading) ==
  IF reading = Unknown THEN <<>> ELSE Slid(window, reading, Window)

\* PressureEngine::observe, of a snapshot with a measured interval, on trackers
\* that a new interval or a new policy may have cleared before.
Observe(cleared, elapsed, readings) ==
  LET fresh      == cleared \/ Discontinuity(elapsed)
      window(s)  == Observed(IF fresh THEN <<>> ELSE windows[s], readings[s])
      state(s)   == IF fresh \/ readings[s] = Unknown THEN Normal ELSE states[s]
  IN  /\ recent'  = Slid(recent, elapsed, RecentIntervals)
      /\ windows' = [s \in Signals |-> window(s)]
      /\ states'  = [s \in Signals |-> Settled(state(s), window(s))]
      /\ shown'   = [s \in Signals |-> Radar(states'[s], window(s))]

\* Trackers that no observation reaches: diagnostics are off, the snapshot has no
\* measured interval, or the collection failed.
ObserveNothing(cleared) ==
  /\ windows' = IF cleared THEN Nowhere ELSE windows
  /\ states'  = IF cleared THEN [s \in Signals |-> Normal] ELSE states
  /\ UNCHANGED recent

-----------------------------------------------------------------------------
(* The watch *)

\* Mutant: a signal that is critical is announced, news or not.
AnnouncedAgain(remembered, state) == state = Critical

\* alert_for: the transition that rings, from the state that is remembered.
Announced(remembered, state) == state = Critical /\ remembered # Critical

\* PressureWatch::observe, of the radar just published.
Watch(radar) ==
  /\ last' = radar
  /\ bell' = {s \in Signals : Announced(last[s], radar[s])}
  /\ missed' = {s \in missed : radar[s] = Critical}

\* The snapshot is superseded in the drain or turned away by a full channel.
Lose ==
  /\ bell' = {}
  /\ missed' = Signals
  /\ UNCHANGED last

-----------------------------------------------------------------------------
(* The sampler *)

\* What the user would call a break: the machine slept, measured by intervals of
\* which most are not longer than the cadence.
Ordinary == 2 * Cardinality({i \in 1..Len(recent) : recent[i] <= interval}) > Len(recent)
Slept(elapsed) == Len(recent) >= 2 /\ Ordinary /\ elapsed > Multiple * interval

Since(cleared, elapsed, readings) ==
  [s \in Signals |->
     Observed(IF cleared \/ Slept(elapsed) THEN <<>> ELSE since[s], readings[s])]

\* The pass adopts a new interval or a new policy, either of which clears the trackers.
Adopt(to, policy) ==
  /\ interval' = to
  /\ enabled' = IF policy = "keep" THEN enabled ELSE policy = "on"
Cleared(to, policy) == to # interval \/ policy # "keep"

\* The radar reaches the reducer, or its snapshot is lost on the way.
Publish ==
  /\ Watch(shown') \/ Lose
  /\ rang' = {s \in Signals : shown'[s] = Critical /\ (s \in rang \/ s \in bell')}

Unmeasured == [elapsed |-> 0, gap |-> FALSE]

\* A pass that collects a snapshot.
Collect(to, policy, elapsed, readings) ==
  /\ started
  /\ Adopt(to, policy)
  /\ LET cleared == Cleared(to, policy)
     IN  \/ /\ enabled'
            /\ Observe(cleared, elapsed, readings)
            /\ since' = Since(cleared, elapsed, readings)
            /\ pass' = [elapsed |-> elapsed, gap |-> Discontinuity(elapsed)]
         \/ /\ ~enabled'
            /\ ObserveNothing(cleared)
            /\ shown' = [s \in Signals |-> Unknown]
            /\ since' = IF cleared THEN Nowhere ELSE since
            /\ pass' = [elapsed |-> elapsed, gap |-> FALSE]
  /\ Publish
  /\ UNCHANGED started

\* The first pass measures no interval, so its snapshot supports no state.
FirstCollect ==
  /\ ~started
  /\ started' = TRUE
  /\ ObserveNothing(FALSE)
  /\ shown' = [s \in Signals |-> Unknown]
  /\ Publish
  /\ pass' = Unmeasured
  /\ UNCHANGED <<enabled, interval, since>>

\* A pass whose collection fails: the next interval is measured from here.
FailedCollect(to, policy) ==
  /\ started' = TRUE
  /\ Adopt(to, policy)
  /\ ObserveNothing(Cleared(to, policy))
  /\ since' = IF Cleared(to, policy) THEN Nowhere ELSE since
  /\ pass' = Unmeasured /\ bell' = {}
  /\ UNCHANGED <<last, shown, rang, missed>>

Init ==
  /\ enabled \in BOOLEAN /\ interval \in Cadences /\ started = FALSE
  /\ recent = <<>> /\ windows = Nowhere /\ states = [s \in Signals |-> Normal]
  /\ last = [s \in Signals |-> Unknown] /\ shown = last
  /\ since = Nowhere /\ pass = Unmeasured
  /\ bell = {} /\ rang = {} /\ missed = {}

Policies == {"keep", "on", "off"}
Readings == [Signals -> Levels \cup {Unknown}]

Next ==
  \/ \E to \in Cadences, policy \in Policies :
       \/ FailedCollect(to, policy)
       \/ \E elapsed \in {Short, interval, Gap}, readings \in Readings :
            Collect(to, policy, elapsed, readings)
  \/ FirstCollect

Spec == Init /\ [][Next]_vars

-----------------------------------------------------------------------------
(* Properties *)

\* Every variable holds a value of its kind, and no memory outgrows its bound.
TypeOK ==
  /\ enabled \in BOOLEAN /\ started \in BOOLEAN
  /\ interval \in Cadences
  /\ recent \in Seq(Nat) /\ Len(recent) <= RecentIntervals
  /\ windows \in [Signals -> Seq(Levels)] /\ since \in [Signals -> Seq(Levels)]
  /\ \A s \in Signals : Len(windows[s]) <= Window /\ Len(since[s]) <= Window
  /\ states \in [Signals -> Levels]
  /\ last \in [Signals -> Levels \cup {Unknown}] /\ shown \in [Signals -> Levels \cup {Unknown}]
  /\ bell \subseteq Signals /\ rang \subseteq Signals /\ missed \subseteq Signals
  /\ pass.elapsed \in Nat /\ pass.gap \in BOOLEAN

IsSuffix(window, values) ==
  /\ Len(window) <= Len(values)
  /\ \A i \in 1..Len(window) : window[i] = values[i + Len(values) - Len(window)]

\* The window of a signal holds only what it read since its stream last broke off:
\* by a sleep, an unavailable input, a new interval or a new policy.  No sustained
\* state is put together from the two sides of a break.
NothingStitched == \A s \in Signals : IsSuffix(windows[s], since[s])

\* The state a signal settled on is supported by an observation of its window, and
\* no higher one is sustained there: the radar neither holds on to a state that is
\* over nor misses one that lasts.
ShownIsSupported ==
  \A s \in Signals : Len(windows[s]) >= Required =>
    /\ states[s] # Normal => AtLeast(states[s], windows[s]) > 0
    /\ \A level \in Levels : AtLeast(level, windows[s]) >= Required => level <= states[s]

\* An interval of the current length clears no window, unless most of those the
\* engine remembers were shorter: refreshes, each of which leaves a short interval
\* behind, do not keep the radar warming up.
RefreshIsNoGap ==
  [][pass'.gap /\ pass'.elapsed = interval =>
       2 * Cardinality({i \in 1..Len(recent) : recent[i] < interval}) > Len(recent)]_vars

\* The bell rings at most once while the radar has a signal critical, whatever
\* snapshots are lost in between, and it does ring if none was lost.
BellOncePerEpisode ==
  /\ [][bell' \cap rang = {}]_vars
  /\ [](\A s \in Signals \ missed : shown[s] = Critical => s \in rang)

=============================================================================
