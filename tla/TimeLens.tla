-------------------------------- MODULE TimeLens --------------------------------
(***************************************************************************)
(* The Time Lens of the interactive program: the history ring, the cursor, *)
(* the paused and scrubbed flags (app/timeline.rs), and the two snapshots  *)
(* the application holds, the newest received and the one on screen, as    *)
(* the handlers of app/reducer.rs and AppState::reconfigure change them.   *)
(*                                                                         *)
(* The sampler and the clock are the environment: samples are produced in  *)
(* order, each stamped with the time it was captured, and reach the        *)
(* reducer late, again, out of order or never.                             *)
(***************************************************************************)
EXTENDS HistoryRing

CONSTANTS
  Intervals, Durations,  \* what a command or a configuration file may ask for
  Steps,                 \* distances of a seek
  MaxSamples,            \* bound: snapshots the sampler produces
  MaxTime                \* bound: the monotonic clock

ASSUME TimeLensAssumption ==
  /\ Intervals \subseteq Nat /\ Intervals # {}
  /\ Durations \subseteq Nat /\ Durations # {}
  /\ Steps \subseteq Nat \ {0}
  /\ MaxSamples \in Nat /\ MaxTime \in Nat

VARIABLES
  now,        \* the monotonic clock
  produced,   \* capture time of every snapshot the sampler made, by sequence
  clock,      \* AppState::clock
  ring,       \* AppState::history
  config,     \* AppState::history_config
  interval,   \* AppState::sample_interval
  view,       \* Timeline::view
  paused,     \* Timeline::paused
  scrubbed,   \* Timeline::scrubbed
  lastSeek,   \* Timeline::last_seek
  latest,     \* sequence of AppState::latest, 0 for None
  displayed   \* sequence of AppState::displayed, 0 for None

environment == <<now, produced>>
timeline    == <<view, paused, scrubbed, lastSeek>>
settings    == <<config, interval>>
vars == <<environment, clock, ring, settings, timeline, latest, displayed>>

Configs == [interval : Intervals, duration : Durations]
None    == "None"

Snapshot(sequence) == [sequence |-> sequence, captured |-> produced[sequence]]

IsLive == ~paused /\ ~scrubbed

\* AppState::advance_clock: never backwards.
AdvanceClock(time) == clock' = Greater(clock, time)

GoLive ==
  /\ view' = Live /\ paused' = FALSE /\ scrubbed' = FALSE /\ lastSeek' = None

-----------------------------------------------------------------------------
(* Environment *)

PassTime ==
  /\ now < MaxTime
  /\ now' = now + 1
  /\ UNCHANGED <<produced, clock, ring, settings, timeline, latest, displayed>>

Produce ==
  /\ Len(produced) < MaxSamples
  /\ produced' = Append(produced, now)
  /\ UNCHANGED <<now, clock, ring, settings, timeline, latest, displayed>>

\* A tick, or a drawn frame: the clock moves to a time at which it was sent.
Ticked ==
  /\ \E time \in 0..now : AdvanceClock(time)
  /\ UNCHANGED <<environment, ring, settings, timeline, latest, displayed>>

-----------------------------------------------------------------------------
(* Handlers *)

\* Mutant: a scrubbed view that is not paused is refreshed.
SnapshotArrivedScrubbed(sequence) ==
  /\ sequence > latest
  /\ AdvanceClock(produced[sequence])
  /\ ring' = Record(ring, Snapshot(sequence))
  /\ latest' = sequence
  /\ displayed' = IF ~paused \/ displayed = 0 THEN sequence ELSE displayed
  /\ UNCHANGED <<environment, settings, timeline>>

SnapshotArrived(sequence) ==
  /\ sequence > latest
  /\ AdvanceClock(produced[sequence])
  /\ ring' = Record(ring, Snapshot(sequence))
  /\ latest' = sequence
  /\ displayed' = IF IsLive \/ displayed = 0 THEN sequence ELSE displayed
  /\ UNCHANGED <<environment, settings, timeline>>

\* Space on a live view: pins the newest sample, when there is one.
Pause ==
  /\ IsLive
  /\ paused' = TRUE
  /\ view' = IF ring.samples = <<>> THEN view ELSE StepBack(view, ring, 0).view
  /\ UNCHANGED <<environment, clock, ring, settings, scrubbed, lastSeek, latest, displayed>>

\* L, and Space on a view that is not live.
ReturnLive ==
  /\ ~(IsLive /\ view = Live)
  /\ GoLive
  /\ displayed' = latest
  /\ UNCHANGED <<environment, clock, ring, settings, latest>>

\* Any of the seeks; on an empty ring nothing changes.
Seek(moved) ==
  /\ ring.samples # <<>>
  /\ view' = moved.view
  /\ lastSeek' = moved.outcome
  /\ scrubbed' = TRUE
  /\ UNCHANGED <<environment, clock, ring, settings, paused, latest, displayed>>

SeekHistory ==
  \E steps \in Steps \cup {StepMax} :
    \/ Seek(StepBack(view, ring, steps))
    \/ Seek(StepForward(view, ring, steps))

\* Mutant: the lens goes live over the snapshot it showed.
RebuildUnderDisplay(newConfig) ==
  /\ config' = newConfig
  /\ ring' = NewRing(newConfig, clock)
  /\ GoLive
  /\ UNCHANGED <<environment, clock, latest, displayed>>

\* A ring cannot be resized: a new one starts empty, and the lens goes live.
RebuildHistory(newConfig) ==
  /\ config' = newConfig
  /\ ring' = NewRing(newConfig, clock)
  /\ GoLive
  /\ displayed' = latest
  /\ UNCHANGED <<environment, clock, latest>>

\* The command "interval": nothing happens when the interval stays the same.
SetInterval(requested) ==
  LET clamped == Clamp(requested, MinInterval, MaxInterval)
  IN  /\ interval # clamped
      /\ interval' = clamped
      /\ RebuildHistory([config EXCEPT !.interval = clamped])

\* The command "history": always rebuilds.
SetHistorySpan(duration) ==
  /\ RebuildHistory([config EXCEPT !.duration = duration])
  /\ UNCHANGED interval

\* A reloaded configuration file: rebuilds only when the history keys changed.
Reconfigure(newConfig) ==
  /\ interval' = newConfig.interval
  /\ IF config # newConfig
     THEN RebuildHistory(newConfig)
     ELSE UNCHANGED <<environment, clock, ring, config, timeline, latest, displayed>>

-----------------------------------------------------------------------------

Init ==
  /\ now = 0 /\ produced = <<>> /\ clock = 0
  /\ \E initial \in Configs :
       /\ MinInterval <= initial.interval /\ initial.interval <= MaxInterval
       /\ config = initial /\ interval = initial.interval
       /\ ring = NewRing(initial, 0)
  /\ view = Live /\ paused = FALSE /\ scrubbed = FALSE /\ lastSeek = None
  /\ latest = 0 /\ displayed = 0

\* A file whose interval is out of range does not validate, so it is not loaded.
LoadableConfigs ==
  {file \in Configs : MinInterval <= file.interval /\ file.interval <= MaxInterval}

Next ==
  \/ PassTime
  \/ Produce
  \/ Ticked
  \/ \E sequence \in 1..Len(produced) : SnapshotArrived(sequence)
  \/ Pause
  \/ ReturnLive
  \/ SeekHistory
  \/ \E requested \in Intervals : SetInterval(requested)
  \/ \E duration \in Durations : SetHistorySpan(duration)
  \/ \E file \in LoadableConfigs : Reconfigure(file)

Spec == Init /\ [][Next]_vars
-----------------------------------------------------------------------------
(* Properties *)

Sample == [sequence : Nat, offset : Nat]

\* The values every variable ranges over.
TypeOK ==
  /\ now \in Nat /\ clock \in Nat
  /\ produced \in Seq(Nat)
  /\ ring \in [capacity : Nat \ {0}, start : Nat, samples : Seq(Sample),
              total : Nat, evicted : Nat]
  /\ config \in [interval : Nat, duration : Nat] /\ interval \in Nat
  /\ view \in [kind : {"live", "selected"}, absolute : Nat]
  /\ paused \in BOOLEAN /\ scrubbed \in BOOLEAN
  /\ lastSeek \in {None, "Moved", "ClampedAtOldest", "ClampedAtNewest"}
  /\ latest \in 0..Len(produced) /\ displayed \in 0..Len(produced)

\* The binary search and the seek need a sorted ring: however snapshots are
\* delayed or reordered, and whenever the ring is rebuilt with some still on
\* their way, sequences rise strictly and offsets never fall.
RingSorted ==
  \A i, j \in 1..Len(ring.samples) : i < j =>
    /\ ring.samples[i].sequence < ring.samples[j].sequence
    /\ ring.samples[i].offset <= ring.samples[j].offset

\* The ring never outgrows the capacity its configuration resolves to, and its
\* counters account for every sample it ever took.
RingAccounted ==
  /\ ring.capacity = ResolveCapacity(config)
  /\ Len(ring.samples) <= ring.capacity
  /\ ring.total = ring.evicted + Len(ring.samples)

\* A view that says LIVE shows the newest snapshot received, and its cursor
\* follows: no path through pausing, seeking, rebuilding and reloading leaves an
\* older table on screen under a live header, where process actions are allowed.
LiveShowsLatest ==
  /\ IsLive => displayed = latest /\ view = Live
  /\ displayed = 0 <=> latest = 0

\* A frozen view keeps showing what it froze until it goes live again: newer
\* snapshots are kept aside.
FrozenViewHolds ==
  [][~IsLive /\ ~IsLive' /\ displayed # 0 => displayed' = displayed]_vars

\* The snapshot on screen never goes back to an older one.
DisplayNeverRegresses == [][displayed' >= displayed]_vars

\* A scrubbed view shows a sample that really is retained, and the marker of a
\* clamped seek never outlives the scrub it belongs to.
ScrubSelectsSample ==
  /\ scrubbed => view # Live /\ ring.samples # <<>>
  /\ (lastSeek # None) <=> scrubbed

\* A cursor the user pinned resolves to the same sample after a snapshot
\* arrives, until the ring drops that sample; then it is the oldest retained.
PinnedSampleHolds ==
  [][view # Live /\ view' = view /\ ring' # ring /\ ring.samples # <<>> =>
       SelectedSample(view, ring)' =
         IF SelectedSample(view, ring).sequence < ring'.samples[1].sequence
         THEN ring'.samples[1]
         ELSE SelectedSample(view, ring)]_vars

\* What index_at_or_before_offset is for: the last sample no later than offset.
SearchFindsLast ==
  \A offset \in 0..MaxTime :
    LET found == IndexAtOrBefore(ring, offset)
    IN  \A i \in 1..Len(ring.samples) : ring.samples[i].offset <= offset <=> i <= found

\* A comparison is made with an earlier sample, at least lookback older than the
\* selected one, and no later sample would do.
BaselineIsEarlier ==
  \A lookback \in 1..MaxTime :
    ring.samples # <<>> =>
      LET selected == SelectedSample(view, ring)
          old(i)   == ring.samples[i].offset + lookback <= selected.offset
          baseline == ElapsedBaseline(view, ring, lookback)
      IN  IF baseline = 0
          THEN \A i \in 1..Len(ring.samples) : ~old(i)
          ELSE /\ old(baseline)
               /\ ring.samples[baseline].sequence < selected.sequence
               /\ \A i \in (baseline + 1)..Len(ring.samples) : ~old(i)

\* Both searches of the Time Lens are exact, at every offset and look-back: a seek
\* lands on the last sample that is no later, a comparison on the last that is old
\* enough, and neither on one beyond the ends of the ring.
SearchesAreExact == SearchFindsLast /\ BaselineIsEarlier

\* The interval the sampler is told and the one the ring is sized for agree,
\* whichever of the command line, a command or a reload set them last.
IntervalAgrees == config.interval = interval

\* The ring and its cursor implement the window of samples they promise.
Window == INSTANCE SampleWindow WITH
  Samples   <- [sequence : 1..MaxSamples, offset : 0..MaxTime],
  Following <- -1,
  next      <- ring.total,
  window    <- [absolute \in Retained(ring) |-> GetAbsolute(ring, absolute)],
  cursor    <- IF view = Live THEN -1 ELSE view.absolute

ImplementsWindow == Window!Spec
=============================================================================
