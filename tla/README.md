# monitrs in TLA+

TLA+ models of monitrs, a terminal monitor for Linux and macOS: what they model, what TLC checks on
small instances, and what TLAPS proves for all of them. Paths are relative to `src/crates/`;
`PROJECT.json` maps every definition to the lines it stands for.

## 1. The system

monitrs samples the machine about once a second and shows the samples in a terminal. Its control is
in four crates: `monitrs` (threads and effects), `monitrs-tui` (the reducer and the state of the
interface), `monitrs-core` (history, rates, diagnostics) and `monitrs-collectors` (reading the
system).

```
 input ──keys──┐                                     ┌─ forced, interval, sensor interest ─► sampler
 tick ──ticks──┤                                     │
 sampler ─snapshots─┤► event channel (64) ─► UI loop ─┼─ detail request channel (4) ─► detail worker
 detail ─answers────┘   drain, reduce, execute, draw  │
 signals ──► shutdown flag ◄─────────────────────────┴─ kill / setpriority, by PID
```

| Component | State | Operations | Talks to others by | What makes it correct |
|---|---|---|---|---|
| History ring and cursor (`history/ring.rs`, `history/view.rs`) | bounded queue of samples, counters, a live or absolute cursor | record, resolve limits, search, step, compare | called by the reducer | sorted; counters account for every sample; an absolute index names one sample while it is retained |
| Timeline (`app/timeline.rs`, `app/reducer.rs`) | cursor, `paused`, `scrubbed`, last seek, `latest`, `displayed` | snapshot, pause, seek, return live, rebuild | events, commands, reloads | live shows the newest; frozen stays frozen; one interval everywhere |
| Channels and workers (`runtime.rs`) | two bounded channels, atomic flags, five threads | send or coalesce, drain, adopt, collect, fetch | the channels and flags | order kept, losses counted, requests served, everybody stops |
| UI loop and effects (`interactive.rs`) | the batch, the effects, the terminal | draw, receive, drain, reduce, execute, close down | reads the event channel, writes the flags | the flags agree with the state; the terminal is always given back |
| Table and selection (`app/rows.rs`, `app/selection.rs`) | rows, selected identity and position | rebuild, resync, move, pin, follow | every handler that changes what is shown | the cursor stays on the chosen process |
| Overlays and process control (`app/overlay.rs`, `app/reducer.rs`, `signals.rs`, `linux/signal.rs`, `renice.rs`) | overlay stack, detail request, confirmed action | inspect, propose, confirm, revalidate, deliver | detail channel, effects, system calls by PID | an action reaches the confirmed process or none |
| Tier scheduler and sampler loop (`tier.rs`, `runtime.rs`) | when each group last ran, the interest in sensors | due, mark, rebuild, sleep | flags from the UI thread, snapshots to it | no deadline slept through, no group starved, no old reading carried on |
| Pressure Radar (`diagnostics/engine.rs`, `hysteresis.rs`, `app/pressure.rs`) | windows of observations, recent intervals, the states last announced | observe, reset, alert | inside the sampler; snapshots to the reducer | no state from both sides of a gap; one bell per episode |
| Rates (`rates/counter.rs`, `rates/keyed.rs`, both collectors) | a bounded table of counter baselines | observe, evict, retain | inside the collectors | a delta is what moved, or the shorter way round; none over a gap |
| Key resolver (`keymap.rs`) | first key of a sequence and its time | resolve, poll | keys and ticks | each key has its meaning in its turn, none in the wrong mode |
| Terminal guard (`terminal.rs`) | steps applied, a registry shared with the panic hook | apply, take, restore | any thread that panics | each step undone once |
| Process tree (`process/tree.rs`, `sort.rs`, `subtree.rs`, `filter.rs`) | the rows | sort, cut cycles, find shown ancestors, emit, sum a subtree | called at every resync | each process once, in its place, the same at every refresh |
| Debug log (`logging.rs`) | two files, a handle, a byte count | open, write, rotate | the queue of the log worker | bounded, lines whole |
| Notices, frame timing (`app/notice.rs`, `app/timing.rs`) | bounded log; ring of durations | push, most severe; record, percentile | pushed by any handler or effect | no loss uncounted; an exact percentile |
| Text entry (`app/text.rs`, `app/command.rs`) | text, byte cursor, marked suggestion | edit, move, complete, submit | keys; the filter goes to the table | cursor on a character |
| Collectors, contributors, rules, rendering, export, configuration | input, output and pure functions | | | |

The hard behaviours: five threads that share bounded channels and relaxed flags; senders that drop or
wait 100 ms; a UI thread that sends to itself; a drain that reorders; shutdown from three sides with
workers that may hang; processes that exit, become zombies and give their PID to another process
between any two steps; a ring that evicts under a cursor, and is rebuilt under a frozen view; parent links read
while they change. Only the debug log outlives a run, and only there does a crash leave something to go on
from. `PROJECT.json` lists the hazards line by line.

## 2. Modules

| Module | Models | State |
|---|---|---|
| `HistoryRing` | the ring and the cursor as operators on values | none |
| `TimeLens` | ring, timeline, settings and the snapshots on display; extends `HistoryRing` | 12 variables |
| `SampleWindow` | abstract: what ring and cursor promise | 3 variables |
| `Runtime` | threads, channels, UI loop, shutdown | 28 variables |
| `EventFeed` | abstract: what the way of the events of one kind to the state promises | 3 variables |
| `ProcessControl` | samples, table, overlays, detail requests, confirmed actions, PIDs | 18 variables |
| `Sampling` | the tier scheduler, the loop that drives it, what a pass carries over | 11 variables |
| `Pressure` | hysteresis, reference interval, engine and watch, from a pass to the bell | 13 variables |
| `Rates` | one table of counter baselines, pass after pass | 6 variables |
| `KeyInput` | key map, resolver, modes, overlays and focus | 6 variables |
| `TerminalGuard` | terminal modes, guard, step registry, panic hook | 10 variables |
| `ProcessTree` | filter, sort, tree, subtree and the rows they make | 6 variables |
| `DebugLog` | the log file, its previous generation, rotation | 8 variables |
| `TimeLensProofs`, `RuntimeProofs`, `ProcessControlProofs`, `SamplingProofs`, `PressureProofs`, `RatesProofs`, `ProcessTreeProofs`, `TerminalProofs` | theorems about those modules; `TerminalProofs` also about `KeyInput` and `DebugLog` | |
| `MC...` | values of the constants for TLC | |

The modules meet where the code hands over values: `Runtime` delivers, in order, the snapshots that
`TimeLens`, `ProcessControl` and `Pressure` receive; its sampler pass is the one that `Sampling` times;
the readings of that pass are `Pressure`'s and `Rates`' input; the confirmed actions and the detail
requests of `ProcessControl` are effects of `Runtime`; the actions that `KeyInput` resolves are the keys
of the other modules; `TerminalGuard` is the `restore` step of `Runtime`, taken apart; `ProcessTree`
computes the order and the subset that `ProcessControl` allows to be any. `DebugLog` meets the others
nowhere: its worker takes lines from a queue and answers nobody.

Definitions under the comment `Mutant:` are not part of a model. Each is a plausible error in the
definition that follows it; put in its place it makes TLC report a property violated. `PROJECT.json`
pairs every property of a passing run with one.

### HistoryRing and TimeLens

A snapshot is its sequence number and capture time; a sample adds nothing but its offset from the start
of the ring. Metrics and contributors do not steer anything. `ring` holds the fields of `HistoryRing`
that do: capacity, start, samples, `total_recorded`, `evicted`. The position of the cursor is a record,
`Live` or `Selected(absolute)`.

The environment lets time pass (`PassTime`) and captures snapshots (`Produce`). `SnapshotArrived(s)`
may deliver any snapshot produced so far, any number of times and in any order: the reducer and the
ring each have a guard against repeated and late ones, and in this module these guards are all there is
(in `Runtime` the channel turns out to keep the order). `Ticked` covers ticks and drawn frames: each
moves the state's clock to some time that has been, never backwards. `SnapshotArrived`, `Pause`,
`ReturnLive`, `SeekHistory`, `SetInterval`, `SetHistorySpan` and `Reconfigure` are the handlers. The last
three go through `RebuildHistory`, which starts a ring at the state's clock, so that a snapshot
captured before the rebuild may still arrive after it (`SampleOf` saturates, as the code does).

`SampleWindow` states the promise: recorded samples get consecutive indices, an index names the same
sample while it is retained, samples leave only from the old end and only when one is recorded, and only
the user moves the cursor. The refinement maps the ring to the function from retained indices to samples.

### Runtime

One variable per shared object: `queue`, `detailQueue`, `health`, `shutdown`, `forced`,
`sensorInterest`, `controlInterval`. A worker is at `work` between the head of its loop and the end of
its blocking call, at `busy` in a collection or a detail read, or `done`. An event whose sender found
the channel full and may not drop it is in `sending[thread]`; `FinishSend` is the end of `send_timeout`,
by room or by timeout. The UI thread's program counter `ui` names the phases of the loop: `draw`,
`receive`, `drain`, `reduce`, `execute`, and on the way out `close`, `restore`, `join`. One `Drain` step is one
`try_recv`, one `Reduce` one event, one `Execute` one effect, so that every other thread may run between
them. `ReloadConfig` sends `ConfigReloaded` from the UI thread into its own channel, with the wait this
may cost.

Of the application state the module keeps what the loop depends on; of the keys, those with effects. Left
out: the thresholds (a struct behind a mutex, replaced in one step), the bell, the export, mouse and
resize events (events like any key), and the disconnected channel (the UI thread owns a sender and the
receiver until the process ends). `sent`, `reduced`, `published`, `lastPress` and `turnedAway` (the last detail
request found its channel full) are history variables. `Incidents` says which of a signal, a failing input and a
failing draw a run explores.

The tiers are abstracted: a pass of the sampler finds a tier due or not (`Sampling` says when).
`SampleDone` has the three outcomes of a collection: a snapshot, a failure of this attempt, and a fatal one
that ends the thread.

`EventFeed` states what a thread may count on for events that are numbered: an `Offer` is accepted or finds no
room, a `Take` gets the oldest that waits, and where newer events stand for older ones (`Replaceable`) an older
one may give way to a newer one (`Supersede`). `Runtime` instantiates it twice, as `Keys` and as `Snapshots`: what waits are the
numbers of that kind in the channel and in the batch; a key whose sender is blocked is not offered yet.

### ProcessControl

`system` maps each PID to the process it belongs to now: a start key, and whether it can be signalled (a
zombie cannot). `Spawn` and `Exit` are the operating system. A sample is a set of identities with that
flag. `sampled` is the snapshot under way (one at a time: a newer one supersedes it), `asked` the detail
request channel, `answer` the detail result under way.

The table is any order of any subset of the displayed sample, which covers every filter, sort and tree;
if the followed process is gone it is empty. `Resynced` is `Selection::resync` line by line. The overlay
stack holds details and action dialogs; help, palette, filter and sort overlays name no process. A
confirmed action waits in `effect`, `Recheck` reads the identity again and `Act` makes the system
call by PID; between the two only the operating system and the other threads move, because the UI thread
is inside the executor. `Keys` restricts a run to the keys it explores.

### Sampling

Time is how long ago each group (fast, medium, slow, sensors) last ran; `Elapse` lets it pass while the
sampler sleeps, is late or collects. `Look` is the head of the loop: adopt the interval and rebuild the
scheduler if it changed, note the interest in sensors, take the refresh, and either start a pass for what
is due or sleep. `Publish` and `Fail` end a pass; both mark its groups as of the instant of the look, as
the code does. `SetInterval`, `ShowBattery` and `Refresh` are the flags the UI thread sets at any moment.
Of the collectors the module keeps what a pass carries over from earlier ones: the sensors, with the age
of their reading.

### Pressure

One step is one pass of the sampler with whatever it adopts first: a new interval or a new policy clears
the trackers, an unavailable input drops one window, a discontinuity drops them all. The level that the
rules derive is any level. `Reference` is the median of the rotating window of intervals, which a reset
does not clear. The radar then reaches `PressureWatch`, or its snapshot is lost on the way and the watch
keeps what it remembered. `since`, `pass`, `rang` and `missed` are history variables: what was read since
the last break, how the pass was taken, and for which signals the bell rang or may have been missed.

### Rates

A behaviour is that of one table: interfaces or disks, of the portable baseline or the Linux layer, with
counters of known or unknown width. What the machine did between two passes is chosen when a pass reads
it: a counter moved on and perhaps wrapped, started again, or the device is gone. The pass then observes
the devices one by one (`Observe`), evicting from a full table, and `Finish` retains what is listed where
the code does. A pass of another tier observes the old reading once more (`Repeat`).

### KeyInput

`Bindings` holds one binding for each thing a key can do to the input mode, with `g` and `gg`, the only
first key that is an action of its own. `Resolved` and `Polled` are the resolver: what the waiting key
means, what the new one means, and which key waits now; `Follow` applies the two in order. `Outcomes` is what an
action leaves of overlays and focus, all possible outcomes where the rest of the state decides. The clock
that times a sequence is the reducer's: it moves with ticks and snapshots, not with keys, and a tick may
be older than it. A change of mode by a snapshot, a detail or a resize resets the resolver; a reload
builds a new one at the end of the turn. `pressed` and `answered` are history variables: each key with what it
means alone in the mode in which it was pressed, and what came of it, which is `Prefix` for the first key of a
completed sequence and `Dropped` for a key that was forgotten, with whether the mode or the key map had been
changed under it.

### TerminalGuard

`modes` is the terminal itself. A thread claims steps from the registry (`Restore`, `Panic`) and then undoes
them one at a time, so that a panic on another thread may come between any two. Entering and leaving may
report an error and still have had its effect. The UI thread waits for its workers on the regular way out and for
none when it fails.

### ProcessTree

A snapshot is a sequence of processes, each an identity and the parent PID it reports. Identities with
the same PID, a missing parent, a parent that is the process itself and cycles of any length all occur, in
any order of reading. `ParentLinks`, `Broken`, `Nearest`, `Emitted` and `Descendants` are the passes of
`ProcessTree::build_filtered`, one after the other; `Climb` is the walk up a chain that two of them share.
Each loop is a function of the number of its rounds (`CycleWalk`, `NearestWalk`, `Resolve`, `Emit`, `Take`,
`Fill`, `Visit` are single rounds) and gets as many rounds as it can need, so that a loop that would not end
shows as a result that is not finished.
`Subtree` is the other algorithm, of `SubtreeUsage`. The filter is any set of hidden processes, the sorted
column any metric with its age. Every action ends in `ResyncRows`, as every handler does. The
properties define ancestors as the least closed set, so that no walk of the code is checked against
another walk.

### DebugLog

A file is what handles refer to, apart from the names `path` and `path.1`; it is gone with its last name
and last handle. A line is its length. `Rename`, `Reopen`, `ReopenFails` and `Truncate` are the steps of
`rotate`, apart because another program may run between them, and because each may fail; `Write` is one
call with its test, and may write a part of the line. `Stop` is the end of the program at any point.

## 3. Runs

| Run | Question | Instance |
|---|---|---|
| `TimeLens` | do ring, cursor, display and settings stay consistent, and implement `SampleWindow`? | 4 snapshots, clock to 2, capacities 1 to 3, intervals 1 to 3 of which 3 is out of range |
| `RuntimeTurns` | do the flags follow the state, do keys implement `EventFeed`, and does shutdown complete? | event channel of 2, request channel of 1, 2 keys, 1 scheduled sample, 2 intervals |
| `RuntimeService` | what is lost, do snapshots implement `EventFeed`, and are refreshes and detail requests served? | event channel of 1, request channel of 2, 3 keys (inspect, refresh, reload), 1 tick, no signal |
| `ProcessActions` | does an action reach the confirmed process only? | 1 PID with 3 processes in turn, a request channel of 1 |
| `ProcessTable` | does the cursor stay on its process, does following end with it? | 2 PIDs, 3 processes, 1 pin, symmetric PIDs |
| `Sampling` | does the sampler wake in time, keep the sensors fresh, and starve no group? | intervals 1 and 2, factors 2 and 3, slices of 2, collections of up to 1 |
| `Pressure` | is the radar supported by what was read since the last break, and does the bell ring once? | 1 signal, window 3 of which 2, 3 intervals remembered, cadences 2 and 5, refreshes of 1, sleeps of 20 |
| `Rates` | is every delta the shorter way round, and does the table keep the live devices? | 3 devices of which one is always there, counters modulo 4, a table of 2 |
| `KeyInput` | does every key get its meaning, in order and in its mode? | 4 keys, a timeout of 2 |
| `Terminal` | is each mode left once, and none left behind? | 2 workers, symmetric |
| `ProcessTree` | is every process shown once, in its place, whatever parents are reported, and do both subtree algorithms agree? | 4 identities over 3 PIDs, tables of 4, a filter of two, flat and tree |
| `DebugLog` | do the files stay bounded and the lines whole? | 2 writers, 4 files, a cap of 3, lines of 2 and 4, symmetric |

**Why the bounds are enough.** Four snapshots overflow every capacity (1, 2, 3), so each ring evicts
while a cursor is pinned, is rebuilt with snapshots of the old ring under way, and a pinned sample is
dropped under the cursor; two units of time give samples of equal, adjacent and distant offsets. An
event channel of one place makes every sender meet a full channel, and both ends of `send_timeout`
occur; with two places and two keys behind a snapshot, one drain takes several events. Three requests of two
processes overflow a request channel of two before the worker takes the first, in the order p1, p2, p1 too; a
signal only ends a run early, and is in `RuntimeTurns`. Three processes on one PID are what it takes to exit, be replaced, and be replaced again while
the first is still on a dialog. In the channel nothing counts beyond full, empty and order, so a larger
one adds interleavings of the same kind. The scheduler compares ages with cadences, of which the longest
is 6: `MaxAge` saturates there, and no behaviour is cut short; a collection of 1 is as long as the
shortest interval. With intervals 2 and 5 and a multiple of 2, the longer cadence looks like a gap to the
shorter; three remembered intervals let one or two of them be refreshes; the signals do not influence
each other but through the shared reset, so that one is enough, and the theorems cover several. Modulo 4 a
counter can go less, exactly and more than half way round; three devices overflow a table of two, and the
loop of a pass may evict a device it has yet to observe. Four keys are two `g` in a row with a key before
and one after, or a palette that is opened, submitted and followed by a key. Two workers and the UI thread
are the three threads that may claim the registry; a third worker could only find it empty. Four processes
over three PIDs make cycles of one to three, a chain into a cycle, a duplicate PID inside either, and a
chain of which two are hidden. A cap of 3 with lines of 2 and 4 gives lines that fit, that fill the file
with a second one, and that never fit; four files are two handles and two names.

**Bounds by name.** `MaxSamples` and `MaxTime` (`TimeLens`), `MaxPresses`, `MaxTicks`, `MaxScheduled`
and `Incidents` (`Runtime`; refreshes are bounded by the keys), `MaxBirths` (`ProcessControl`), `MaxAge` and `MaxCollect`
(`Sampling`), `MaxIdle` (`Rates`), `MaxKeys` (`KeyInput`), `MaxProcesses` (`ProcessTree`). `Pressure`,
`TerminalGuard` and `DebugLog` have none.
`EventCapacity`, `DetailCapacity`, `MaxPins`, `MaxTracked`, `Modulus`, `MemoryBudget`, `BytesPerSample`, `Slice`,
`MediumFactor`, `SlowFactor`, `Window`, `Required`, `RecentIntervals`, `Multiple`, `Timeout` and `MaxBytes` are
constants of the program, made small. `StepMax` stands for `usize::MAX`. The `Runtime` and `Terminal` runs set
`CHECK_DEADLOCK FALSE` because the program ends.

**Fairness.** `Runtime`'s `Fairness` is weak fairness of each thread: the operating system schedules every
thread, every blocking call of the loops has a timeout or is sliced (`poll`, `sleep`, `recv_timeout`,
`send_timeout`), the signal iterator ends once it is closed, and a collection or a detail read ends. Nothing
is assumed of the user, of the signals, of the input thread beyond its stopping, or of which outcome a send
has. `UiFairSpec` keeps only the UI thread going: `TerminalReleased` has to hold though a worker hangs in a
collection for ever. `ShutdownCompletes` and `IntervalReachesSampler` are checked in the same run with the
full fairness as their hypothesis. The UI thread blocked in a write to a terminal nobody reads is outside
all of this, as `runtime.rs:455-458` says. In `Sampling` time goes on, the sampler is scheduled, and a
collection ends, successfully or not; in `KeyInput` later ticks keep arriving, since the tick thread sends
one every 100 ms and a full channel drops some, not all.

### What the runs show

*Time Lens.* `LiveShowsLatest`: no path through pausing, seeking, rebuilding and reloading leaves
an old table under a live header, where process actions are allowed. `FrozenViewHolds` and
`ImplementsWindow` say what a user who froze or scrubbed the view sees while the ring moves under the
cursor. `SearchesAreExact` compares the binary searches with what they are for, on every ring the run
reaches: however snapshots are repeated, reordered or left over from an earlier ring, it stays sorted.
Proved and in no run: `RingSorted`, `RingAccounted`, `ScrubSelectsSample`, `IntervalAgrees`,
`DisplayNeverRegresses` and `PinnedSampleHolds` (section 4).

*Runtime.* `LossesAccounted` balances events sent against events applied, waiting and counted, across all
senders and the drain. `KeysAreFed` and `SnapshotsAreFed` say that the way from a thread to the state, with
blocked senders, a channel, a drain that puts snapshots first and a reducer, implements `EventFeed`: a key
that the channel accepted is applied once and in its turn, a snapshot as well unless a newer one that waits
takes its place, so that the loop never hands the reducer a snapshot it refuses. With a channel of one place and
with one of two the runs reach every action of `EventFeed`, offers without room included.
`TurnPublishesState` is about batches in which commands and reloads set the interval in both places.
`RefreshServed`, `AwaitedDetailArrives`, `IntervalReachesSampler`, `TerminalReleased` and
`ShutdownCompletes` are the progress properties. `AwaitedDetailArrives` excepts two losses,
after which nothing asks again and the overlay waits until it is closed: a request that finds its channel full is
turned away, uncounted (`interactive.rs:395`), and an answer that finds the event channel full for 100 ms is dropped
and counted (`runtime.rs:707`). Both occur in the run, and the property fails without either exception. A request
the channel took is answered, although the worker skips what was asked before it.

*Process control.* `ActsOnConfirmed` is the safety of the confirmation chain: the process an action
reaches is the one that was confirmed, unless the PID changed hands after the executor read the
identity. That window, between reading `/proc/<pid>/stat` and `kill`, is real and is in the model; a
property without the exception fails. `DialogIsCurrent`, `RequestHasOverlay`, `FollowedIsAlive`
and `IdentityWins` relate dialogs, requests, scope and cursor to the samples that
move under them; `CursorOnShownProcess` is proved and in no run. `IdentityWins` excepts the release of a followed process (see below).

*Sampling.* `WakesInTime`: a sleep computed before an edge of interest, a refresh or a rebuild never runs past
a deadline of the schedule the sampler adopted. `SensorsKeepCadence`: cached sensors are younger than their cadence
whatever comes between, and opening the battery view reads them. It excepts a pass that failed, which the
code marks as a reading: the old sensors are then carried for another period. `NoTierStarves` is its
progress counterpart, and holds even if every collection fails.

*Pressure.* `NothingStitched`: no sustained state is put together from the two sides of a sleep, an
unavailable input, a new interval or a new policy. `RefreshIsNoGap` is the opposite error: refreshes, which
leave short intervals in the reference, make the regular cadence look like a gap only when most of the
remembered intervals are short. `ShownIsSupported` bounds the radar from both sides. `BellOncePerEpisode` follows a
critical episode across lost snapshots.

*Rates.* `DeltaIsMovement` compares each published delta with what the device moved, which the model
knows, and pins the decision about a counter that went backwards from both sides: a move of less than half the width
is no reset, and a reset that is taken for a wrap, which a known width cannot rule out, shows less than half the width.
The collectors declare no width (`CounterWidth::Unknown`); for them nothing above the movement is ever shown. The
guard against a reading beyond the declared width (`counter.rs:92-96`) is left out, since `Values` are below the modulus.
`NoDeltaOverGap` holds of interfaces; disks of the portable baseline keep their baseline over an
absence, and so does the Linux table when a pass finds no disk at all. `TableHoldsTheLive`: eviction in the middle of a pass
takes no device the pass needs if they fit.

*Keys.* `AnswersInOrder`: each key is part of a completed sequence or means what it meant alone when it was pressed,
in the order of the presses. Only a key that waits may come to nothing, and only if before the next key something
other than a key changed the mode, or a reload replaced the key map. `PendingInMode` keeps a half-typed sequence
out of another mode. `EveryKeyAnswered` says that waiting ends, by ticks alone; that it ends with the key's own
meaning is what `AnswersInOrder` says.

*Terminal.* `UndoneOnce` and `GivenBack` hold for panics of all three threads at any point, with steps that
fail. `GivenBack` has an exception in its second conjunct: when the UI thread fails or panics the process
ends without joining the workers, and a mode that a worker's hook had claimed may stay.

*Tree.* `OneCutPerCycle` and `NearestSurvivor` compare the walks of the code, memoized and in
the order of the table, with what they are for: one link is cut in each cycle and none elsewhere, and each
process is shown once, under its nearest shown ancestor. `RowsFormTrees` is what the renderer relies on for
branches, though descendants are counted from depths alone. `NoReshuffle` holds with a duplicate PID too.
`SubtreesAgree` is restricted to snapshots without duplicate PIDs, with which the algorithms differ (see below).

*Debug log.* `LinesStayWhole`: only the first write of a line may rotate if the line fits under the cap; a longer line
is torn by the rotation its second write starts. `FilesBounded` has to allow for each writer that shares the path.

### Disagreements met while modelling, without a run

- *Time Lens.* Pausing on an empty ring, which every rebuild leaves, pins nothing, and the attribution panel
  then moves under `PAUSED` (`timeline.rs:193-206`).
- *Runtime.* `docs/architecture.md:137` says the newest snapshot supersedes older ones in the channel, while
  `send` drops the newest when the channel is full (`runtime.rs:283-288`). The comment on `is_coalescable`
  (`event.rs:532-537`) says input, detail results and config reloads may not be dropped by a full queue,
  while they are after 100 ms (`runtime.rs:292-296`). The detail request a full channel drops is the newest,
  which an overlay may be waiting for, while `interactive.rs:393-394` and `runtime.rs:713-715` call it obsolete: with
  room for two and a worker that takes none yet, inspecting p1, p2 and p1 again loses the second p1, p2 is fetched,
  and the overlay on p1 waits for ever. The counters of `ChannelHealth` are logged but never reach the
  health panel. `set_interval` says zero is refused and turns it into one millisecond (`runtime.rs:164-173`).
  The comment at `runtime.rs:590` says a refresh collects the fast tier while it makes all tiers due.
- *Process control.* A late answer for the selected process replaces the detail of the overlay that is open on
  another (`reducer.rs:1277-1285`). An action proposed in a detail overlay takes the selected process, not
  the inspected one (`keymap.rs:196-197`, `reducer.rs:1110`). Pins of exited processes cannot be removed and
  may fill the list (`reducer.rs:777-782`). When the followed process exits the cursor leaves a chosen process
  that stays in the table (`selection.rs:8-11`, `reducer.rs:336`).
- *Identity of processes.* `macos/collector.rs:521-526` says the identity scheme may not flip between
  consecutive frames. The Linux layer reads native start times with the fast tier only and republishes nothing,
  so a medium, slow or sensors-only pass publishes the baseline's whole-second start keys
  (`linux/collector.rs:122`, `common/collector.rs:764`), and everything that names a process misses it for one
  snapshot.
- *Sampling.* Tiers do not align periodically as `tier.rs:66-70` says, because each deadline counts from a
  look that may come late. `source.rs:32` calls the interval the one since the previous fast collection; it is
  the one since the previous pass of any kind. `tier.rs:261-262` keeps
  marking apart so that a failed collection need not count; the sampler marks it all the same.
- *Pressure.* A failed pass moves the instant from which the next interval is measured, so a run of failures
  is no gap. With two remembered intervals one sleep is the reference and hides the next, which the median was
  to prevent (`engine.rs:60-66`). `runtime.rs:569-573` says that without the reset the engine would judge a new
  cadence by the old one; the reset keeps the remembered intervals, so it still does.
- *Rates.* A pass without the fast tier republishes unchanged counters as a rate of zero, and the next fast
  pass divides the whole delta by a shorter time. `evict_oldest` may take a live device that the pass has yet to observe while entries
  of devices that are gone remain.
- *Keys and terminal.* Keys are timed with a clock that moves with ticks and snapshots only. A `:reload`
  forgets a `g` that was pressed after it in the same batch. A worker's panic restores the terminal while the
  UI loop keeps drawing on it, and its message may still print on the alternate screen if another
  thread is undoing.
- *Tree.* `subtree.rs:172-174` says two processes with one PID cannot happen, `tree.rs:290-293` handles them:
  with a duplicate the subtree that is summed hangs the children under both, the tree under one. `sum_percent`
  (`subtree.rs:283`) drops the age of stale values that its comment says travels with them.
- *Debug log.* When the rename succeeds and the new file cannot be opened (`logging.rs:422`), the handle stays
  on what is now the previous generation, and the next rotation empties it (`logging.rs:426`), although
  `logging.rs:415` says the live file is truncated and `logging.rs:51` that one generation is kept.
- *Notices.* `notice.rs:238` says ties go to the newest; `max_by_key` over the reversed list (`notice.rs:244-245`)
  gives them to the oldest. The module's doc says the most recent notices are kept (`notice.rs:10-14`), while a
  repeated one keeps its old place and is dropped as the oldest. `views/mod.rs:841` calls the notice of the status
  line the newest; it is the most severe.
- *Text.* Completing a suggestion with Enter (`reducer.rs:947`) leaves the highlight, which `reducer.rs:892-893`
  resets on every other change of the text; it then points past the list. A word is said to take the spaces
  before it (`text.rs`, `delete_word_backward`); the code takes those after it. A filter from the configuration may
  be longer than `MAX_INPUT_CHARS`; `/` and Enter then cut it.

## 4. Proofs

Eight modules hold the theorems, for all values of the constants under the named `ASSUME`s of the modelled
modules; they hold the bounds too, so that no theorem depends on one being small. `IInv` is the inductive
invariant of a module (`KeysInv`, `LogInv` and `SharedInv` for the keys and the log in `TerminalProofs`, `RowsAreItsOwn` in
`ProcessTreeProofs`), with one lemma for each action that has work to do. `PROJECT.json` lists the
theorems and the properties they state.

**`TimeLensProofs`.** `IInv` is the conjunction of `TypeOK`, `RingSorted`, `RingAccounted`,
`LiveShowsLatest`, `ScrubSelectsSample` and `IntervalAgrees`, strengthened by two facts none of them
implies: `DisplayedIsReceived` (`displayed <= latest`, without which `DisplayNeverRegresses` fails when the
view goes live) and `CursorInRange` (a pinned cursor belongs to a ring that holds samples and lies below
`total`, without which the refinement has no sample to map it to). Operators first
(`CapacityIsPositive`, `NewRingType`, `Slide`, `RecordTakes`, `CursorOnRing`, `StepsStayOnRing`, and for the
binary search what its bounds keep between them, of which `SearchesLandOnLast` is the end), then
the induction (`SnapshotPreserves`, `PausePreserves`, `SeekPreserves`, `RebuildPreserves`), then the
action properties (`FrozenViewIsKept`, `DisplayOnlyAdvances`, and `PinnedCursorHolds` from
`RecordKeepsPinned`), and the refinement `RingImplementsWindow`: `RecordAdds`, `RebuildRestarts` and
`PinnedIsRetained` map each step to one of `SampleWindow` or to a stutter.

**`RuntimeProofs`.** Order is a fact about a *line*: what the state has applied, what the batch, the channel
and the blocked senders hold, one after the other. `SnapshotLine` and `KeyLine` say that each kind of event is
sorted along it; `Shape` and `SendersWait` say where an event may be, `TurnShape` what the batch and the
effects hold in each phase. The hard case is the drain, which moves a snapshot to the front of the
batch past keys and past the snapshot it replaces (`TakeBehind`, `ApplyFirst`). `SensorsPending` and `IntervalTold` follow the
two flags: the last effect on a flag in the turn tells the value of the state, or there is none and the flag
already has it. For `EventFeed`, `Numbers` turns a sequence of events into the set of numbers of a kind: appending adds one
(`NumbersAppended`), taking the first removes it (`NumbersTaken`), and by the line it is below all the others. So
`SendFeeds` and `FinishSendFeeds` map a send to an offer, `TakingFeeds` a drain to a stutter or to a snapshot that
supersedes an older one, `ReduceFeeds` a reduction to a take, and `StepFeeds` every step of the runtime to
one of these or to a stutter. `LossesAreCounted` follows each kind of event by itself: what was sent is what was
applied, what is on the line and what is counted. Theorems: `SnapshotOrder`, `KeyOrder`, `FlagsFollowTheState`, `LossesAreCounted`,
`KeysAreDelivered`, `SnapshotsAreDelivered`, `TypeSafety`.

**`ProcessControlProofs`.** `IInv` is one conjunct for each part of the state, and `Frames` carries over
those that a step leaves alone. Three of them are stronger than the properties. `CheckedIsRead`: what the executor
read still holds of the PID, or the PID is free, or belongs to a process younger than the reading.
`TableHolds`: rows and cursor agree with the displayed sample, which is the newest one when the view is live, and
that is why an action proposed from a row names a process of the newest sample. `StackHolds`:
the stack is `Tidy`, one overlay of a kind with a dialog only on top, which is what makes `remove` (lemma `WithoutKeeps`)
forget exactly the vanished process's overlay in `RequestsHaveOverlays`. Theorems: `ConfirmedIsReached`,
`DialogsAreCurrent`, `RequestsHaveOverlays`, `CursorsAreOnRows`, `FollowedAreAlive`, `IdentitiesWin`, `TypeSafety`.

**`SamplingProofs`.** `WakesInTime` and `SensorsKeepCadence` need `CollectingIsAwake`, `AgesAgree` (the scheduler
and the collector agree on when the sensors were read, unless a pass failed) and `OpenedIsDue`.

**`PressureProofs`.** `RadarIsSupported` and `OneBellAnEpisode` need `WatchRemembers` and `RungUnlessMissed`:
what the watch remembers differs from the radar only after a loss. `NothingIsStitched` needs that the
engine sees every sleep. The median of a sequence exists and splits it (`MedianExists`,
`ReferenceIsMedian`); when most intervals are not longer than the cadence the median is not either
(`FewerBelow`), so that whatever exceeds a multiple of the cadence exceeds that multiple of the median
(`SleepIsGap`). The window is then a suffix of what was read since, and stays one when both get a value or
lose their oldest (`ObservedSuffix`). `RefreshesAreNoGap` is the same argument the other way (`GapIsLonger`).

**`RatesProofs`.** The argument follows one pass: an entry still to be observed explains the counter that was read
(`Explained`), an observed one equals it (`UpToDate`), every other entry is older than both (`OthersAreOlder`), so
that eviction takes an observed one only if the devices do not fit (`SeenAreHeld`), and no entry of an
interface outlives the pass that does not list it (`NoneOutlives`).

**`ProcessTreeProofs`.** The rows are a function of the snapshot and the settings (`RowsAreItsOwn`, the invariant of
the module: the table is one, and the rows on display are `Build` of it); the work is in what the passes compute.
A loop is a function of the number of its rounds, and what each round keeps holds of all of them
(`Loop`, `Rounds`, `Stays`: by the least round that has it not, because the induction theorems of the library
cannot be used here). The loops end because each round uses up a process.
*Cycles* (`CyclesLoseOneLink`): what is done holds the parents of its processes (`IsWalked`), so that a chain that runs
out of parents or into what is done has no cycle, and one that runs into itself has exactly one, all of whose
processes are above each other (`OneCycleOnClosedChain`).
*Nearest survivor* (`SurvivorsAreShown`): without cycles the processes above one are its parent and those above the
parent (`UpOneLink`); a chain is resolved from the top with what it inherits (`NextOnWayDown`). The stack machine
keeps that the processes which wait or have a row are those whose survivor has a row (`IsEmission`); with an
empty stack these are all, or one left out with the fewest processes above it would have a survivor left out
(`EveryoneIsEmitted`).
*Branches* (`BranchesAreDrawn`): what is emitted followed by the stack is a table in which a row comes after its parent
with nothing but descendants of the parent in between (`Planted`), and children inserted below the row that is emitted leave it one
(`ChildrenInserted`). In such a table the descendants of a row are the deeper rows right below it
(`BelowIsDeeper`), which is what `fill_descendants` counts: its stack is a sequence of adjacent blocks of rows, each of a
row and the deeper ones behind it (`IsStack`).
*Subtrees* (`SubtreesAreTheRows`): the walk of `subtree.rs` visits each process below its root once, and the links it counts are
those of the visited processes but the ones it went down (`IsVisit`). When PIDs are unique, what it visits is what has
the root above it (`BelowIsUnder`, by `OneTop`); exactly one link of a cycle leads back to its root. The rows below a row
in the tree are its descendants by the links that were not cut (`RowsFollowLinks`, `BlockIsUnder`).
*Order* (`OrderDecidesNothing`): a table with the same processes in other places is a move of the first (`IsMove`). What the passes
compute is determined by the processes and not by their places, so it moves with them: who owns a PID, what is above a
process, where a cycle is cut (`CutsMove`), who survives a filter, the nearest survivor (`NearestMoves`) and the order of siblings (`SortedMoves`).
Emission then runs in step for both tables (`EmissionsMatch`), and the rows show the same (`PicturesMatch`).

**`TerminalProofs`** has three parts. *Modes*: the registry is claimed whole: at most one thread ever has steps to undo,
and while it has, the registry is empty (`ClaimedOnce`). `ReverseOrder` adds that the modes are left in the reverse of
the order they were entered, whichever threads leave them. *Keys* (of `KeyInput`): what came of the keys, and the
key that waits, account for what was pressed (`Account`), so that each key has its meaning in its turn (`KeysKeepOrder`),
and a key waits only in the mode of the screen (`KeysWaitInMode`), because every event that can change the mode settles
the resolver. The second is needed for the first: a key that waited in the mode of the screen is released with the
meaning it had when it was pressed (`ReleaseSettles`). Nor is the last thing that came ever a prefix (`LastIsNoPrefix`),
so that a prefix is followed by the key that completes it. *Log* (of `DebugLog`): `LinesStayWhole` needs
to know of the line in hand that what is left of it and what was already written are its length, and that what was
written is part of the count (`WholeLines`). For `FilesStayBounded` the count of a program says too little: others write
to the same file, and its own file may be renamed under it. So every program has an allowance for each file, as many bytes as
the cap or the longest line, and what is `Spent` of them all is at least the size (`WithinAllowance`): a program that
writes a file has not spent what it has not counted yet, and one that renamed the live file has spent nothing on the
next, of which it will read the size, or which is empty. Only a write adds to a file, and it spends bytes of its own
allowance that were not spent (`WriteSpends`).

**Only model-checked.** The liveness properties `IntervalReachesSampler`, `ShutdownCompletes`, `RefreshServed`,
`AwaitedDetailArrives`, `NoTierStarves`, `TerminalReleased` and `EveryKeyAnswered`: fairness and `ENABLED` are out of the
prover's reach. Every other property of the runs is stated by a theorem.

## 5. Not modelled

- *Diagnostic rules, contributors, filter predicates, text columns of the sort.* Pure functions of a sample; the
  modules that use their results allow any result of the right kind.
- *Collectors.* Parsing of `/proc`, `/sys` and the libraries is input. What they keep between passes is modelled in
  `Rates` and `Sampling`; the macOS layer's caches, CPU time shares (`rates/cpu.rs`) and the totals since
  launch are not.
- *Rendering, export, configuration, command line, units.* Output, input and conversions,
  whose control is in the effects of `Runtime` and the settings of `TimeLens`. The terminal's own state is in
  `TerminalGuard`.
- *Overhead report.* Nothing outside its tests uses `overhead.rs`.
- *Text entry and the grammar of commands.* One line and one thread; submitting and leaving it is in `KeyInput`, and what
  a command does is in the module it concerns.
- *Notices, findings, frame timing.* What is reported to the user; no control depends on it.
- Within the modelled parts: `HistoryView::seek_to_offset` (a benchmark calls it), the unused operations of
  `KeyedTrackers`, the exchange of thresholds under its mutex (one step), mouse events, key bindings a user
  overrides, and what `join_all` reports of a worker that panicked (`TerminalGuard` has the panic, `Runtime` has
  not).

## 6. Plan

| State | Module | Composes or implements | Runs | Theorems |
|---|---|---|---|---|
| done | `HistoryRing`, `TimeLens`, `SampleWindow` | `TimeLens` implements `SampleWindow` | `TimeLens` | all safety |
| done | `Runtime`, `EventFeed` | what feeds the other modules; its keys and its snapshots each implement `EventFeed` | two | all safety |
| done | `ProcessControl` | effects that `Runtime` executes | two | all its properties |
| done | `Sampling` | the pass of `Runtime`'s sampler | one | all its safety |
| done | `Pressure` | what a pass derives, what the reducer announces | one | all its properties |
| done | `Rates` | the counters behind a pass | one | all its properties |
| done | `KeyInput` | the keys of `Runtime` and `ProcessControl` | one | all safety |
| done | `TerminalGuard` | the release step of `Runtime` | one | all its properties |
| done | `ProcessTree` | the rows of `ProcessControl` | one | all its properties |
| done | `DebugLog` | | one | its safety |

Worth adding: a confirmation chain (propose, confirm, act) that `ProcessControl` implements; text entry, with its
bytes and offsets, as a refinement of a one-line editor; the notice log; the selection of contributors with its
coverage; and runs for the disagreements of section 3.
