--------------------------------- MODULE Runtime ---------------------------------
(***************************************************************************)
(* The threads of the interactive program, the bounded channels between    *)
(* them, the loop of the UI thread and the way out: monitrs/runtime.rs and *)
(* run and execute of monitrs/interactive.rs.                              *)
(*                                                                         *)
(* Four workers feed one bounded event channel that the UI thread reads; a *)
(* fifth waits for a termination signal.  A snapshot is its sequence       *)
(* number, a process an element of Processes.  Of the application state    *)
(* this module keeps what the loop and the effects depend on; TimeLens and *)
(* ProcessControl hold the rest.                                           *)
(***************************************************************************)
EXTENDS Integers, Sequences, FiniteSets

CONSTANTS
  EventCapacity,   \* EVENT_CHANNEL_CAPACITY
  DetailCapacity,  \* capacity of detail_channel
  Processes, NoProcess,
  Intervals,       \* sampling intervals a command or a file may set
  Presses,         \* what the user may press, a set of [key, value]
  Incidents,       \* what may befall the program: "Signal", "InputFails", "DrawFails"
  MaxPresses,      \* bound: keys pressed
  MaxTicks,        \* bound: ticks sent
  MaxScheduled     \* bound: samples taken on schedule, refreshes apart

ASSUME RuntimeAssumption ==
  /\ EventCapacity \in Nat \ {0} /\ DetailCapacity \in Nat \ {0}
  /\ NoProcess \notin Processes
  /\ Intervals \subseteq Nat \ {0} /\ Intervals # {}
  /\ \A press \in Presses :
       \/ press.key = "Inspect" /\ press.value \in Processes
       \/ press.key = "Interval" /\ press.value \in Intervals
       \/ press.key \in {"Refresh", "CloseDetail", "OpenBattery", "OpenOther", "Reload", "Quit"}
  /\ Incidents \subseteq {"Signal", "InputFails", "DrawFails"}
  /\ MaxPresses \in Nat /\ MaxTicks \in Nat /\ MaxScheduled \in Nat

VARIABLES
  queue,            \* the event channel
  detailQueue,      \* the detail request channel
  health,           \* ChannelHealth: coalesced and dropped
  shutdown,         \* Shutdown
  forced,           \* SampleRequest
  sensorInterest,   \* SensorInterest
  controlInterval,  \* SamplingControl::interval_millis
  signalsClosed,    \* the signal iterator's handle was closed
  pc,               \* where each worker is in its loop
  sending,          \* the event a thread waits to send in send_timeout
  sequence,         \* the sampler's sequence: attempts made
  samplerInterval,  \* the sampler's own copy of the interval
  fetching,         \* the process the detail worker reads
  ui,               \* where the UI thread is in its loop
  batch,            \* events it took from the channel, in the order it applies them
  effects,          \* effects it still has to execute
  terminal,         \* "raw" or "restored"
  latest,           \* sequence of AppState::latest, 0 for None
  unrendered,       \* AppState::unrendered_snapshot
  displayedLag,     \* AppState::health.coalesced_samples
  sensorView,       \* the battery view is shown
  sampleInterval,   \* AppState::sample_interval
  detailRequest,    \* AppState::detail_request
  shouldQuit,       \* AppState::should_quit
  sent, reduced,    \* history: events sent, and applied, of each kind
  published,        \* history: the sequence of the last snapshot sent
  lastPress,        \* history: the number of the last key press applied
  turnedAway        \* history: the last request found no room in its channel

channels == <<queue, detailQueue, health>>
flags    == <<shutdown, forced, sensorInterest, controlInterval, signalsClosed>>
sampler  == <<sequence, samplerInterval>>
loop     == <<ui, batch, effects, terminal>>
app      == <<latest, unrendered, displayedLag, sensorView, sampleInterval,
              detailRequest, shouldQuit>>
history  == <<sent, reduced, published, lastPress, turnedAway>>
vars == <<channels, flags, pc, sending, sampler, fetching, loop, app, history>>

Workers == {"input", "signals", "tick", "sampler", "detail"}
Threads == Workers \cup {"ui"}
Kinds   == {"Key", "Snapshot", "Detail", "Tick", "ConfigReloaded"}

\* value is the press of a Key and the process of a Detail; number the sequence
\* of a Snapshot, and the order of a Key among the keys pressed.
Event(kind, value, number) == [kind |-> kind, value |-> value, number |-> number]
Plain(kind) == Event(kind, NoProcess, 0)
Nothing     == Plain("Nothing")
Effect(kind, value) == [kind |-> kind, value |-> value]

\* Mutant: detail results are taken for replaceable too.
CoalescableDetail(event) == event.kind \in {"Snapshot", "Tick", "Detail"}

Coalescable(event) == event.kind \in {"Snapshot", "Tick"}

Count(tally, kind) == [tally EXCEPT ![kind] = @ + 1]

\* The process is gone.
Ended == ui \in {"exited", "failed"}

\* The process is there, and thread is not inside a blocking send.
Sending(thread) == sending[thread].kind # "Nothing"
Free(thread)    == ~Ended /\ ~Sending(thread)

-----------------------------------------------------------------------------
(* Sending *)

\* EventSender::send up to the point where it must wait for room.
Send(thread, event) ==
  \/ /\ Len(queue) < EventCapacity
     /\ queue' = Append(queue, event)
     /\ sent' = Count(sent, event.kind)
     /\ UNCHANGED <<health, sending>>
  \/ /\ Len(queue) = EventCapacity
     /\ Coalescable(event)
     /\ health' = [health EXCEPT !.coalesced = @ + 1]
     /\ sent' = Count(sent, event.kind)
     /\ UNCHANGED <<queue, sending>>
  \/ /\ Len(queue) = EventCapacity
     /\ ~Coalescable(event)
     /\ sending' = [sending EXCEPT ![thread] = event]
     /\ UNCHANGED <<queue, health, sent>>

\* The end of send_timeout: room was made in time, or the event is dropped.
FinishSend(thread) ==
  /\ ~Ended
  /\ Sending(thread)
  /\ \/ /\ Len(queue) < EventCapacity
        /\ queue' = Append(queue, sending[thread])
        /\ UNCHANGED health
     \/ /\ Len(queue) = EventCapacity
        /\ health' = [health EXCEPT !.dropped = @ + 1]
        /\ UNCHANGED queue
  /\ sent' = Count(sent, sending[thread].kind)
  /\ sending' = [sending EXCEPT ![thread] = Nothing]
  /\ UNCHANGED <<detailQueue, flags, pc, sampler, fetching, loop, app, reduced,
                 published, lastPress, turnedAway>>

-----------------------------------------------------------------------------
(* Workers *)

At(worker, place) == Free(worker) /\ pc[worker] = place
Goto(worker, place) == pc' = [pc EXCEPT ![worker] = place]

\* The end of a pass: the head of the loop sees a shutdown that came before it.
Resume(worker) == Goto(worker, IF shutdown THEN "done" ELSE "work")

\* A worker at "work" is between the head of its loop and the end of its blocking
\* call, so that a shutdown may find it before the check, after it, or waiting:
\* the call times out, or is sliced, and the check follows.
Leave(worker) ==
  /\ worker # "signals"
  /\ At(worker, "work")
  /\ shutdown
  /\ Goto(worker, "done")
  /\ UNCHANGED <<channels, flags, sending, sampler, fetching, loop, app, history>>

\* A key is read and forwarded.
PressKey(press) ==
  /\ At("input", "work")
  /\ sent["Key"] < MaxPresses
  /\ Send("input", Event("Key", press, sent["Key"] + 1))
  /\ Resume("input")
  /\ UNCHANGED <<detailQueue, flags, sampler, fetching, loop, app, reduced, published,
                 lastPress, turnedAway>>

\* The terminal cannot be polled or read: the thread logs it and ends.
InputFails ==
  /\ "InputFails" \in Incidents
  /\ At("input", "work")
  /\ Goto("input", "done")
  /\ UNCHANGED <<channels, flags, sending, sampler, fetching, loop, app, history>>

Tick ==
  /\ At("tick", "work")
  /\ sent["Tick"] < MaxTicks
  /\ Send("tick", Plain("Tick"))
  /\ Resume("tick")
  /\ UNCHANGED <<detailQueue, flags, sampler, fetching, loop, app, reduced, published,
                 lastPress, turnedAway>>

\* Mutant: the interval is read once, when the sampler starts.
AdoptNothing == UNCHANGED samplerInterval

AdoptInterval == samplerInterval' = controlInterval

\* Mutant: the tiers alone decide whether to collect.
ForcedByTiers == FALSE

\* A refresh request makes every tier due.
Forced == forced

\* One pass of the sampler up to the collection: it adopts the published
\* interval, consumes the refresh request, and samples when a tier is due.
SamplerPass ==
  /\ At("sampler", "work")
  /\ AdoptInterval
  /\ forced' = FALSE
  /\ \/ /\ Forced \/ sequence < MaxScheduled
        /\ Goto("sampler", "busy")
     \/ /\ ~Forced
        /\ UNCHANGED pc
  /\ UNCHANGED <<channels, shutdown, sensorInterest, controlInterval, signalsClosed,
                 sending, sequence, fetching, loop, app, history>>

\* The collector succeeds, fails this once, or fails for good.  The sequence
\* names the attempt: the failed one keeps it.
SampleDone ==
  /\ At("sampler", "busy")
  /\ \/ /\ Send("sampler", Event("Snapshot", NoProcess, sequence + 1))
        /\ sequence' = sequence + 1
        /\ published' = sequence'
        /\ Resume("sampler")
     \/ /\ sequence' = sequence + 1
        /\ Resume("sampler")
        /\ UNCHANGED <<queue, health, sending, sent, published>>
     \/ /\ Goto("sampler", "done")
        /\ UNCHANGED <<queue, health, sending, sent, sequence, published>>
  /\ UNCHANGED <<detailQueue, flags, samplerInterval, fetching, loop, app, reduced, lastPress,
                 turnedAway>>

\* Mutant: the request that was made first.
OldestRequest == Head(detailQueue)

NewestRequest == detailQueue[Len(detailQueue)]

\* The detail worker takes the newest request and discards the older ones.
TakeRequest ==
  /\ At("detail", "work")
  /\ detailQueue # <<>>
  /\ fetching' = NewestRequest
  /\ detailQueue' = <<>>
  /\ Goto("detail", "busy")
  /\ UNCHANGED <<queue, health, flags, sending, sampler, loop, app, history>>

\* The details, or the news that the process is gone: either way an answer.
DetailDone ==
  /\ At("detail", "busy")
  /\ Send("detail", Event("Detail", fetching, 0))
  /\ fetching' = NoProcess
  /\ Resume("detail")
  /\ UNCHANGED <<detailQueue, flags, sampler, loop, app, reduced, published, lastPress,
                 turnedAway>>

\* SIGTERM, SIGHUP or SIGINT: the first one is the last this thread waits for.
SignalArrives ==
  /\ "Signal" \in Incidents
  /\ At("signals", "work")
  /\ shutdown' = TRUE
  /\ Goto("signals", "done")
  /\ UNCHANGED <<channels, forced, sensorInterest, controlInterval, signalsClosed,
                 sending, sampler, fetching, loop, app, history>>

SignalsEnd ==
  /\ At("signals", "work")
  /\ signalsClosed
  /\ Goto("signals", "done")
  /\ UNCHANGED <<channels, flags, sending, sampler, fetching, loop, app, history>>

-----------------------------------------------------------------------------
(* The UI thread *)

\* The UI thread is at place in its loop, and not blocked in a send.
UiAt(place) == Free("ui") /\ ui = place

Draw ==
  /\ UiAt("draw")
  /\ unrendered' = FALSE
  /\ ui' = "receive"
  /\ UNCHANGED <<channels, flags, pc, sending, sampler, fetching, batch, effects, terminal,
                 latest, displayedLag, sensorView, sampleInterval, detailRequest,
                 shouldQuit, history>>

\* Drawing fails: run returns at once, the guard restores the terminal as it is
\* dropped, and the process ends with its workers.
DrawFails ==
  /\ "DrawFails" \in Incidents
  /\ UiAt("draw")
  /\ terminal' = "restored"
  /\ ui' = "failed"
  /\ UNCHANGED <<channels, flags, pc, sending, sampler, fetching, batch, effects, app, history>>

\* An event is there.  A snapshot makes the loop drain the channel first.
Receive ==
  /\ UiAt("receive")
  /\ queue # <<>>
  /\ batch' = <<Head(queue)>>
  /\ queue' = Tail(queue)
  /\ ui' = IF Head(queue).kind = "Snapshot" THEN "drain" ELSE "reduce"
  /\ UNCHANGED <<detailQueue, health, flags, pc, sending, sampler, fetching, effects,
                 terminal, app, history>>

\* Nothing came within LOOP_POLL, and the program is to end.
ReceiveTimesOut ==
  /\ UiAt("receive")
  /\ queue = <<>>
  /\ shutdown \/ shouldQuit
  /\ ui' = "close"
  /\ UNCHANGED <<channels, flags, pc, sending, sampler, fetching, batch, effects,
                 terminal, app, history>>

\* Mutant: an older snapshot is kept behind the newer one.
DrainedWithOlder(events, event) ==
  IF event.kind = "Snapshot" THEN <<event>> \o events ELSE Append(events, event)

\* Mutant: each event found goes before those found earlier.
DrainedBackwards(events, event) ==
  IF event.kind = "Snapshot" THEN [events EXCEPT ![1] = event]
  ELSE <<events[1], event>> \o Tail(events)

\* events[1] is the newest snapshot, and the other events wait behind it.
Drained(events, event) ==
  IF event.kind = "Snapshot"
  THEN IF event.number >= events[1].number THEN [events EXCEPT ![1] = event] ELSE events
  ELSE Append(events, event)

\* drain_to_newest_snapshot, one try_recv.
Drain ==
  /\ UiAt("drain")
  /\ queue # <<>>
  /\ batch' = Drained(batch, Head(queue))
  /\ health' = IF Head(queue).kind = "Snapshot"
               THEN [health EXCEPT !.coalesced = @ + 1] ELSE health
  /\ queue' = Tail(queue)
  /\ UNCHANGED <<detailQueue, flags, pc, sending, sampler, fetching, ui, effects,
                 terminal, app, history>>

DrainDone ==
  /\ UiAt("drain")
  /\ queue = <<>>
  /\ ui' = "reduce"
  /\ UNCHANGED <<channels, flags, pc, sending, sampler, fetching, batch, effects,
                 terminal, app, history>>

-----------------------------------------------------------------------------
(* The reducer, as far as the runtime depends on it *)

\* A snapshot that is not newer is dropped; one that supersedes a snapshot no
\* frame has shown is counted.
ReduceSnapshot(number) ==
  /\ IF number > latest
     THEN /\ latest' = number
          /\ unrendered' = TRUE
          /\ displayedLag' = IF unrendered THEN displayedLag + 1 ELSE displayedLag
     ELSE UNCHANGED <<latest, unrendered, displayedLag>>
  /\ UNCHANGED <<effects, sensorView, sampleInterval, detailRequest, shouldQuit>>

ReduceDetail(process) ==
  /\ detailRequest' = IF detailRequest = process THEN NoProcess ELSE detailRequest
  /\ UNCHANGED <<effects, latest, unrendered, displayedLag, sensorView, sampleInterval,
                 shouldQuit>>

\* What a key press asks for, and the effects it leaves to execute.
ReduceKey(press) ==
  /\ CASE press.key = "Refresh" ->
            /\ effects' = Append(effects, Effect("RequestSample", NoProcess))
            /\ UNCHANGED <<sensorView, sampleInterval, detailRequest, shouldQuit>>
       [] press.key = "Inspect" ->
            /\ detailRequest' = press.value
            /\ effects' = Append(effects, Effect("FetchProcessDetail", press.value))
            /\ UNCHANGED <<sensorView, sampleInterval, shouldQuit>>
       [] press.key = "CloseDetail" ->
            /\ detailRequest' = NoProcess
            /\ UNCHANGED <<effects, sensorView, sampleInterval, shouldQuit>>
       [] press.key \in {"OpenBattery", "OpenOther"} ->
            /\ sensorView' = (press.key = "OpenBattery")
            /\ effects' = IF sensorView' # sensorView
                          THEN Append(effects, Effect("SetSensorInterest", sensorView'))
                          ELSE effects
            /\ UNCHANGED <<sampleInterval, detailRequest, shouldQuit>>
       [] press.key = "Interval" ->
            /\ sampleInterval' = press.value
            /\ UNCHANGED <<effects, sensorView, detailRequest, shouldQuit>>
       [] press.key = "Reload" ->
            /\ effects' = Append(effects, Effect("ReloadConfig", NoProcess))
            /\ UNCHANGED <<sensorView, sampleInterval, detailRequest, shouldQuit>>
       [] press.key = "Quit" ->
            /\ shouldQuit' = TRUE
            /\ effects' = Append(effects, Effect("Shutdown", NoProcess))
            /\ UNCHANGED <<sensorView, sampleInterval, detailRequest>>
  /\ UNCHANGED <<latest, unrendered, displayedLag>>

\* apply, for the next event of the batch.
Reduce ==
  /\ UiAt("reduce")
  /\ LET event == Head(batch)
     IN  /\ \/ event.kind = "Snapshot" /\ ReduceSnapshot(event.number)
            \/ event.kind = "Detail" /\ ReduceDetail(event.value)
            \/ event.kind = "Key" /\ ReduceKey(event.value)
            \/ event.kind \in {"Tick", "ConfigReloaded"} /\ UNCHANGED <<effects, app>>
         /\ reduced' = Count(reduced, event.kind)
         /\ lastPress' = IF event.kind = "Key" THEN event.number ELSE lastPress
  /\ batch' = Tail(batch)
  /\ ui' = IF Len(batch) = 1 THEN "execute" ELSE "reduce"
  /\ UNCHANGED <<channels, flags, pc, sending, sampler, fetching, terminal, sent, published,
                 turnedAway>>

-----------------------------------------------------------------------------
(* Effects *)

RequestSample ==
  /\ forced' = TRUE
  /\ UNCHANGED <<channels, shutdown, sensorInterest, controlInterval, sending, sent,
                 sampleInterval, turnedAway>>

SetSensorInterest(interested) ==
  /\ sensorInterest' = interested
  /\ UNCHANGED <<channels, shutdown, forced, controlInterval, sending, sent, sampleInterval,
                 turnedAway>>

\* try_send: a full request channel takes nothing more, and no one is told.
FetchProcessDetail(process) ==
  /\ turnedAway' = (Len(detailQueue) = DetailCapacity)
  /\ detailQueue' = IF turnedAway' THEN detailQueue ELSE Append(detailQueue, process)
  /\ UNCHANGED <<queue, health, shutdown, forced, sensorInterest, controlInterval,
                 sending, sent, sampleInterval>>

\* The file does not load, or it does and its interval replaces the current one
\* in the state and in the control.  The UI thread reports through the channel
\* that it alone reads.
ReloadConfig ==
  /\ \/ UNCHANGED <<sampleInterval, controlInterval>>
     \/ \E interval \in Intervals :
          sampleInterval' = interval /\ controlInterval' = interval
  /\ Send("ui", Plain("ConfigReloaded"))
  /\ UNCHANGED <<detailQueue, shutdown, forced, sensorInterest, turnedAway>>

TriggerShutdown ==
  /\ shutdown' = TRUE
  /\ UNCHANGED <<channels, forced, sensorInterest, controlInterval, sending, sent,
                 sampleInterval, turnedAway>>

\* execute, for the next effect.
Execute ==
  /\ UiAt("execute")
  /\ effects # <<>>
  /\ LET effect == Head(effects)
     IN  \/ effect.kind = "RequestSample" /\ RequestSample
         \/ effect.kind = "SetSensorInterest" /\ SetSensorInterest(effect.value)
         \/ effect.kind = "FetchProcessDetail" /\ FetchProcessDetail(effect.value)
         \/ effect.kind = "ReloadConfig" /\ ReloadConfig
         \/ effect.kind = "Shutdown" /\ TriggerShutdown
  /\ effects' = Tail(effects)
  /\ UNCHANGED <<signalsClosed, pc, sampler, fetching, ui, batch, terminal, latest,
                 unrendered, displayedLag, sensorView, detailRequest, shouldQuit,
                 reduced, published, lastPress>>

\* Mutant: the sampler is not told.
EndTurnSilently ==
  /\ UiAt("execute")
  /\ effects = <<>>
  /\ ui' = IF shouldQuit \/ shutdown THEN "close" ELSE "draw"
  /\ UNCHANGED <<channels, flags, pc, sending, sampler, fetching, batch, effects,
                 terminal, app, history>>

\* The end of one turn: the sampler is told the interval the reducer settled on.
EndTurn ==
  /\ UiAt("execute")
  /\ effects = <<>>
  /\ controlInterval' = sampleInterval
  /\ ui' = IF shouldQuit \/ shutdown THEN "close" ELSE "draw"
  /\ UNCHANGED <<channels, shutdown, forced, sensorInterest, signalsClosed, pc, sending,
                 sampler, fetching, batch, effects, terminal, app, history>>

-----------------------------------------------------------------------------
(* The way out: tell the workers, release the terminal, then join *)

\* Mutant: the thread that waits for signals is not woken.
CloseDownQuietly ==
  /\ UiAt("close")
  /\ shutdown' = TRUE
  /\ ui' = "restore"
  /\ UNCHANGED <<channels, forced, sensorInterest, controlInterval, signalsClosed, pc,
                 sending, sampler, fetching, batch, effects, terminal, app, history>>

CloseDown ==
  /\ UiAt("close")
  /\ shutdown' = TRUE
  /\ signalsClosed' = TRUE
  /\ ui' = "restore"
  /\ UNCHANGED <<channels, forced, sensorInterest, controlInterval, pc, sending, sampler,
                 fetching, batch, effects, terminal, app, history>>

Finished(worker) == pc[worker] = "done" /\ ~Sending(worker)

\* Mutant: the workers are joined before the terminal is released.
RestoreAfterWorkers ==
  /\ UiAt("restore")
  /\ \A worker \in Workers : Finished(worker)
  /\ terminal' = "restored"
  /\ ui' = "join"
  /\ UNCHANGED <<channels, flags, pc, sending, sampler, fetching, batch, effects, app, history>>

Restore ==
  /\ UiAt("restore")
  /\ terminal' = "restored"
  /\ ui' = "join"
  /\ UNCHANGED <<channels, flags, pc, sending, sampler, fetching, batch, effects, app, history>>

JoinAll ==
  /\ UiAt("join")
  /\ \A worker \in Workers : Finished(worker)
  /\ ui' = "exited"
  /\ UNCHANGED <<channels, flags, pc, sending, sampler, fetching, batch, effects,
                 terminal, app, history>>

-----------------------------------------------------------------------------

Init ==
  /\ queue = <<>> /\ detailQueue = <<>> /\ health = [coalesced |-> 0, dropped |-> 0]
  /\ shutdown = FALSE /\ forced = FALSE /\ sensorInterest = FALSE /\ signalsClosed = FALSE
  /\ sampleInterval \in Intervals
  /\ controlInterval = sampleInterval /\ samplerInterval = sampleInterval
  /\ pc = [worker \in Workers |-> "work"]
  /\ sending = [thread \in Threads |-> Nothing]
  /\ sequence = 0 /\ fetching = NoProcess
  /\ ui = "draw" /\ batch = <<>> /\ effects = <<>> /\ terminal = "raw"
  /\ latest = 0 /\ unrendered = FALSE /\ displayedLag = 0 /\ sensorView = FALSE
  /\ detailRequest = NoProcess /\ shouldQuit = FALSE
  /\ sent = [kind \in Kinds |-> 0] /\ reduced = [kind \in Kinds |-> 0] /\ published = 0
  /\ lastPress = 0 /\ turnedAway = FALSE

SamplerStep == SamplerPass \/ SampleDone

DetailStep == TakeRequest \/ DetailDone

UiStep ==
  \/ Draw \/ Receive \/ ReceiveTimesOut \/ Drain \/ DrainDone
  \/ Reduce \/ Execute \/ EndTurn \/ CloseDown \/ Restore \/ JoinAll

Next ==
  \/ \E worker \in Workers : Leave(worker)
  \/ \E thread \in Threads : FinishSend(thread)
  \/ \E press \in Presses : PressKey(press)
  \/ InputFails
  \/ Tick
  \/ SamplerStep
  \/ DetailStep
  \/ SignalArrives
  \/ SignalsEnd
  \/ UiStep
  \/ DrawFails

\* Every thread keeps running and every blocking call of the loops returns: the
\* sends and receives have timeouts, and a collection or a detail read ends.
\* Nothing obliges the user to press a key or anyone to send a signal.
Fairness ==
  /\ \A worker \in Workers : WF_vars(Leave(worker))
  /\ \A thread \in Threads : WF_vars(FinishSend(thread))
  /\ WF_vars(SamplerStep) /\ WF_vars(DetailStep)
  /\ WF_vars(SignalsEnd) /\ WF_vars(UiStep)

Spec       == Init /\ [][Next]_vars
FairSpec   == Spec /\ Fairness

\* Only the UI thread is sure to run.
UiFairSpec == Spec /\ WF_vars(UiStep) /\ WF_vars(FinishSend("ui"))

-----------------------------------------------------------------------------
(* Properties *)

\* Every variable holds a value of its kind.
TypeOK ==
  /\ Len(queue) <= EventCapacity /\ Len(detailQueue) <= DetailCapacity
  /\ detailQueue \in Seq(Processes)
  /\ health \in [coalesced : Nat, dropped : Nat]
  /\ shutdown \in BOOLEAN /\ forced \in BOOLEAN /\ sensorInterest \in BOOLEAN
  /\ signalsClosed \in BOOLEAN
  /\ controlInterval \in Nat \ {0} /\ samplerInterval \in Nat \ {0}
  /\ pc \in [Workers -> {"work", "busy", "done"}]
  /\ \A thread \in Threads : sending[thread].kind \in Kinds \cup {"Nothing"}
  /\ sequence \in Nat /\ published \in 0..sequence /\ latest \in 0..published
  /\ fetching \in Processes \cup {NoProcess}
  /\ detailRequest \in Processes \cup {NoProcess}
  /\ ui \in {"draw", "receive", "drain", "reduce", "execute", "close", "restore", "join",
             "exited", "failed"}
  /\ terminal \in {"raw", "restored"}
  /\ \A i \in 1..Len(batch) : batch[i].kind \in Kinds
  /\ unrendered \in BOOLEAN /\ sensorView \in BOOLEAN /\ shouldQuit \in BOOLEAN
  /\ displayedLag \in Nat /\ sampleInterval \in Nat \ {0} /\ lastPress \in Nat
  /\ turnedAway \in BOOLEAN
  /\ sent \in [Kinds -> Nat] /\ reduced \in [Kinds -> Nat]

\* The kinds the channel may drop silently, and those it may not.
Replaceable == {"Snapshot", "Tick"}
Lasting     == Kinds \ Replaceable

Held(kinds, events) == Cardinality({i \in DOMAIN events : events[i].kind \in kinds})

\* Events of these kinds that were sent and may still be applied.
Waiting(kinds) == Held(kinds, queue) + Held(kinds, batch)

AllReplaceable(tally) == tally["Snapshot"] + tally["Tick"]
AllLasting(tally)     == tally["Key"] + tally["Detail"] + tally["ConfigReloaded"]

\* Every event that was sent is applied, in the channel, in the loop's hands, or
\* counted: a snapshot or a tick in coalesced, anything else in dropped.  The
\* counters are written by every sender and by the drain of the UI thread.
LossesAccounted ==
  /\ AllReplaceable(sent) = AllReplaceable(reduced) + Waiting(Replaceable) + health.coalesced
  /\ AllLasting(sent) = AllLasting(reduced) + Waiting(Lasting) + health.dropped

\* The numbers of the events of a kind that were accepted and wait to be applied.
Numbers(kind, events) == {events[i].number : i \in {j \in DOMAIN events : events[j].kind = kind}}
Accepted(kind)        == Numbers(kind, batch) \cup Numbers(kind, queue)

Keys == INSTANCE EventFeed WITH
  Replaceable <- FALSE, offered <- sent["Key"], waiting <- Accepted("Key"), taken <- lastPress

Snapshots == INSTANCE EventFeed WITH
  Replaceable <- TRUE, offered <- published, waiting <- Accepted("Snapshot"), taken <- latest

\* A key that the channel accepted is applied, once and in the order it was pressed,
\* whatever threads delay, drain or drop: only one that found no room in time is lost.
KeysAreFed == Keys!Spec

\* A snapshot that the channel accepted is applied, once and in the order of capture, or
\* is drained away by a newer one: the drain never costs the newest.
SnapshotsAreFed == Snapshots!Spec

\* Between two turns the flag the sampler reads says whether the battery view is
\* shown, and the interval it reads is the one the state holds, however many
\* commands and reloads one batch of events executed.
TurnPublishesState ==
  ui \in {"draw", "receive"} =>
    sensorInterest = sensorView /\ controlInterval = sampleInterval

\* A quit, a signal or a failed frame ends the process: no worker keeps waiting
\* for a key, a tick, a request, a signal or room in the channel.
ShutdownCompletes == Fairness => ((shutdown \/ shouldQuit) ~> Ended)

\* Even if no worker ever runs again, a shutdown gives the terminal back.
TerminalReleased == (shutdown \/ shouldQuit) ~> (terminal = "restored")

SamplerGone == pc["sampler"] = "done" \/ Ended

\* A refresh request is consumed by a collection that starts after it was made.
RefreshServed == forced ~> (~forced /\ pc["sampler"] = "busy") \/ SamplerGone

\* The interval the reducer settles on reaches the sampler's own copy, unless it
\* is changed again first.
IntervalReachesSampler ==
  Fairness =>
    \A interval \in Intervals :
      (ui = "draw" /\ sampleInterval = interval)
        ~> (samplerInterval = interval \/ sampleInterval # interval \/ SamplerGone)

\* The details an overlay waits for arrive, unless it is closed or asks for another
\* process first, if the channel took the request (runtime.rs:695-709): the worker may skip
\* only what was asked before, however often one process and another were inspected.  Two
\* losses leave the overlay waiting, since nothing asks again: a request that finds its
\* channel full is turned away, the newest and the one that is awaited (interactive.rs:395),
\* and the answer is dropped and counted if the event channel stays full.
AwaitedDetailArrives ==
  \A process \in Processes :
    (ui = "draw" /\ detailRequest = process /\ ~turnedAway)
      ~> (detailRequest # process \/ health.dropped > 0 \/ shutdown \/ Ended)

=============================================================================
