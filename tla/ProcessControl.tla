----------------------------- MODULE ProcessControl -----------------------------
(***************************************************************************)
(* Selecting, inspecting, following, pinning, signalling and renicing      *)
(* processes: the handlers of app/reducer.rs with the overlay stack and    *)
(* the selection they change, the detail worker, and the executor that     *)
(* reads the identity again before it acts (monitrs/signals.rs,            *)
(* linux/signal.rs, renice.rs).                                            *)
(*                                                                         *)
(* The operating system starts, ends and reaps processes at any moment and *)
(* gives their PIDs to new ones; samples and details describe a moment that*)
(* has passed.  The rows of the table are any order of any part of the     *)
(* displayed processes: the filter, the sort and the tree decide which.    *)
(* Help, text entry and the sort selector are left out: they open over the *)
(* table only and neither cover nor are covered by the overlays below.     *)
(***************************************************************************)
EXTENDS Naturals, FiniteSets, SequencesExt

CONSTANTS
  Pids,
  None,       \* no process, no sample, no effect
  Keys,            \* the keys a run explores, by the action that handles them
  MaxPins,         \* MAX_PINNED_PROCESSES
  DetailCapacity,  \* capacity of detail_channel
  MaxBirths        \* bound: processes the system starts

Identities == [pid : Pids, key : 1..MaxBirths]

ASSUME ProcessControlAssumption ==
  /\ IsFiniteSet(Pids) /\ None \notin Identities
  /\ MaxPins \in Nat /\ DetailCapacity \in Nat \ {0} /\ MaxBirths \in Nat

VARIABLES
  births,         \* processes started so far: the start key of the newest
  system,         \* the process each PID belongs to now
  sampled,        \* the sample on its way to the UI thread
  latest,         \* AppState::latest, as its processes
  displayed,      \* AppState::displayed
  live,           \* Timeline::is_live
  rows,           \* AppState::rows
  selection,      \* AppState::selection
  overlays,       \* AppState::overlays
  detail,         \* AppState::detail, as the process it describes
  detailRequest,  \* AppState::detail_request
  followed,       \* AppState::followed
  pins,           \* AppState::pins
  asked,          \* the detail request channel
  answer,         \* the detail result on its way to the UI thread
  effect,         \* the confirmed action the executor has yet to perform, one at most
  checked,        \* the action whose identity the executor has just read again
  acted           \* history: the last signal or priority change that took place

environment == <<births, system>>
messages    == <<sampled, asked, answer>>
samples     == <<latest, displayed, live>>
table       == <<rows, selection>>
details     == <<detail, detailRequest>>
executor    == <<effect, checked, acted>>
vars == <<environment, messages, samples, table, overlays, details, followed, pins, executor>>

Requests   == {"Term", "Kill", "Renice"}
Absent     == [key |-> 0, signalable |-> FALSE]

Identity(pid) == [pid |-> pid, key |-> system[pid].key]

\* The processes of a sample: those that can be signalled, and the zombies.
Observed ==
  {[identity |-> Identity(pid), signalable |-> system[pid].signalable] :
     pid \in {pid \in Pids : system[pid] # Absent}}

IdentitiesOf(sample) ==
  IF sample = None THEN {} ELSE {process.identity : process \in sample}

\* The UI thread is not in the middle of an action on a process.
Idle == checked = None

-----------------------------------------------------------------------------
(* The table and its cursor *)

\* The table is scoped to the followed process and its descendants, which it
\* contains no more than the sample does once that process is gone.
RowsOf(sample, root) ==
  IF sample # None /\ root # None /\ root \notin IdentitiesOf(sample) THEN {<<>>}
  ELSE {<<>>} \cup SetToAllKPermutations(IdentitiesOf(sample))

Lesser(a, b) == IF a < b THEN a ELSE b
RowOf(identity, order) == CHOOSE row \in 1..Len(order) : order[row] = identity

\* Mutant: the position decides.
ResyncedByPosition(cursor, order) ==
  IF order = <<>> THEN [cursor EXCEPT !.identity = None]
  ELSE LET row == Lesser(cursor.row, Len(order))
       IN  [cursor EXCEPT !.row = row, !.identity = order[row]]

\* Selection::resync: the identity wins, then the position.
Resynced(cursor, order) ==
  LET at(row) == [cursor EXCEPT !.row = row, !.identity = order[row]]
  IN  IF order = <<>> THEN [cursor EXCEPT !.identity = None]
      ELSE IF ~cursor.chosen THEN at(1)
      ELSE IF cursor.identity # None /\ Contains(order, cursor.identity)
           THEN at(RowOf(cursor.identity, order))
           ELSE at(Lesser(cursor.row, Len(order)))

\* resync_rows, with the cursor as the caller left it.
ResyncRows(sample, root, cursor) ==
  \E order \in RowsOf(sample, root) :
    rows' = order /\ selection' = Resynced(cursor, order)

Chosen == [selection EXCEPT !.chosen = TRUE]

-----------------------------------------------------------------------------
(* The overlay stack *)

DetailOf(identity) == [kind |-> "Detail", identity |-> identity]
ActionOn(identity, request, stage) ==
  [kind |-> "Action", identity |-> identity, request |-> request, stage |-> stage]

Overlay(stack, kind) == {overlay \in ToSet(stack) : overlay.kind = kind}

\* remove and push: a stack holds one overlay of a kind at most.
Position(stack, kind) == CHOOSE i \in DOMAIN stack : stack[i].kind = kind
Without(stack, kind) ==
  IF Overlay(stack, kind) = {} THEN stack ELSE RemoveAt(stack, Position(stack, kind))
Push(stack, overlay) == Append(Without(stack, overlay.kind), overlay)

\* InputMode, as the top of the stack implies it.
Mode == IF overlays = <<>> THEN "Normal" ELSE Last(overlays).kind
Press(key, modes) == Idle /\ key \in Keys /\ Mode \in modes

\* Mutant: a process is known by its PID.
RevalidatedByPid(stack, sample) ==
  IF /\ sample # None
     /\ \E action \in Overlay(stack, "Action") :
          \A identity \in IdentitiesOf(sample) : identity.pid # action.identity.pid
  THEN Without(stack, "Action") ELSE stack

\* revalidate_pending: a dialog goes when the newest sample lost its process.
Revalidated(stack, sample) ==
  IF /\ sample # None
     /\ \E action \in Overlay(stack, "Action") : action.identity \notin IdentitiesOf(sample)
  THEN Without(stack, "Action") ELSE stack

-----------------------------------------------------------------------------
(* The operating system *)

Spawn(pid) ==
  /\ births < MaxBirths
  /\ system[pid] = Absent
  /\ births' = births + 1
  /\ system' = [system EXCEPT ![pid] = [key |-> births', signalable |-> TRUE]]
  /\ UNCHANGED <<messages, samples, table, overlays, details, followed, pins, executor>>

\* A process becomes a zombie, or a zombie is reaped.
Exit(pid) ==
  /\ system[pid] # Absent
  /\ system' = [system EXCEPT ![pid] =
       IF @.signalable THEN [@ EXCEPT !.signalable = FALSE] ELSE Absent]
  /\ UNCHANGED <<births, messages, samples, table, overlays, details, followed, pins, executor>>

-----------------------------------------------------------------------------
(* The sampler and the detail worker *)

Collect ==
  /\ sampled = None
  /\ sampled' = Observed
  /\ UNCHANGED <<environment, asked, answer, samples, table, overlays, details, followed,
                 pins, executor>>

\* The worker takes the newest request and discards the older ones.  Its answer:
\* the details, or that nothing of that identity is there any more.
ReadDetail ==
  /\ asked # <<>> /\ answer = None
  /\ LET identity == Last(asked)
     IN  answer' = [identity |-> identity, loaded |-> Identity(identity.pid) = identity]
  /\ asked' = <<>>
  /\ UNCHANGED <<environment, sampled, samples, table, overlays, details, followed, pins,
                 executor>>

\* The event channel stayed full: the answer is dropped.
LoseAnswer ==
  /\ answer # None
  /\ answer' = None
  /\ UNCHANGED <<environment, sampled, asked, samples, table, overlays, details, followed,
                 pins, executor>>

-----------------------------------------------------------------------------
(* Events *)

\* release_followed_root, after the newest sample is sample.
ReleaseFollowed(sample, shown, order, cursor) ==
  IF followed # None /\ followed \notin IdentitiesOf(sample)
  THEN followed' = None /\ ResyncRows(shown, None, cursor)
  ELSE rows' = order /\ selection' = cursor /\ UNCHANGED followed

\* The drain puts the snapshot ahead of the other events of its turn, so no
\* confirmed action waits when it is applied.
SnapshotArrived ==
  /\ Idle /\ effect = None /\ sampled # None
  /\ sampled' = None
  /\ latest' = sampled
  /\ IF live \/ displayed = None
     THEN /\ displayed' = sampled
          /\ \E order \in RowsOf(sampled, followed) :
               ReleaseFollowed(sampled, sampled, order, Resynced(selection, order))
     ELSE /\ UNCHANGED displayed
          /\ ReleaseFollowed(sampled, displayed, rows, selection)
  /\ overlays' = Revalidated(overlays, sampled)
  /\ UNCHANGED <<environment, asked, answer, live, details, pins, executor>>

Awaited(identity) ==
  \/ detailRequest = identity
  \/ selection.identity = identity
  \/ \E open \in Overlay(overlays, "Detail") : open.identity = identity

DetailArrived ==
  /\ Idle /\ answer # None
  /\ answer' = None
  /\ LET identity  == answer.identity
         forgotten == IF DetailOf(identity) \in ToSet(overlays)
                      THEN Without(overlays, "Detail") ELSE overlays
     IN  IF answer.loaded
         THEN /\ detailRequest' = IF detailRequest = identity THEN None ELSE detailRequest
              /\ detail' = IF Awaited(identity) THEN identity ELSE detail
              /\ UNCHANGED overlays
         ELSE /\ detailRequest' = IF detailRequest = identity THEN None ELSE detailRequest
              /\ detail' = IF detail = identity THEN None ELSE detail
              /\ overlays' = Revalidated(forgotten, latest)
  /\ UNCHANGED <<environment, sampled, asked, samples, table, followed, pins, executor>>

-----------------------------------------------------------------------------
(* Keys and commands *)

\* Pausing, or scrubbing: the view no longer is live.
Freeze ==
  /\ Press("Pause", {"Normal"}) /\ live
  /\ live' = FALSE
  /\ UNCHANGED <<environment, messages, latest, displayed, table, overlays, details,
                 followed, pins, executor>>

\* Resuming, returning to live, or a history that a command or a reload rebuilds;
\* the reload runs at the end of the turn, when any overlay may have been opened.
GoLive ==
  /\ Idle /\ ~live
  /\ live' = TRUE
  /\ displayed' = latest
  /\ ResyncRows(latest, followed, selection)
  /\ UNCHANGED <<environment, messages, latest, overlays, details, followed, pins, executor>>

\* A filter, a sort, the tree or a reloaded file rebuilds the rows.
Rearrange ==
  /\ Idle /\ "Rearrange" \in Keys
  /\ ResyncRows(displayed, followed, selection)
  /\ UNCHANGED <<environment, messages, samples, overlays, details, followed, pins, executor>>

\* move_cursor, jump and search: some row, chosen.
SelectRow(row) ==
  /\ Press("Select", {"Normal"})
  /\ selection' = [identity |-> rows[row], row |-> row, chosen |-> TRUE]
  /\ UNCHANGED <<environment, messages, samples, rows, overlays, details, followed, pins,
                 executor>>

\* try_send: a full request channel takes nothing more.
Asked(identity) ==
  IF Len(asked) < DetailCapacity THEN Append(asked, identity) ELSE asked

InspectSelected ==
  /\ Press("Inspect", {"Normal"}) /\ selection.identity # None
  /\ LET identity == selection.identity
     IN  /\ overlays' = Push(overlays, DetailOf(identity))
         /\ detailRequest' = identity
         /\ detail' = IF detail # identity THEN None ELSE detail
         /\ asked' = Asked(identity)
  /\ selection' = Chosen
  /\ UNCHANGED <<environment, sampled, answer, samples, rows, followed, pins, executor>>

PinSelected ==
  /\ Press("Pin", {"Normal"}) /\ selection.identity # None
  /\ LET identity == selection.identity
     IN  pins' = IF identity \in pins THEN pins \ {identity}
                 ELSE IF Cardinality(pins) < MaxPins THEN pins \cup {identity} ELSE pins
  /\ selection' = Chosen
  /\ UNCHANGED <<environment, messages, samples, rows, overlays, details, followed, executor>>

\* Mutant: a process that has exited is followed.
FollowAny(identity, cursor) == followed' = identity /\ ResyncRows(displayed, identity, cursor)

\* toggle_follow, of a process that is not followed already.
Follow(identity, cursor) ==
  IF latest # None /\ identity \notin IdentitiesOf(latest)
  THEN selection' = cursor /\ UNCHANGED <<rows, followed>>
  ELSE followed' = identity /\ ResyncRows(displayed, identity, cursor)

Unfollow(cursor) == followed' = None /\ ResyncRows(displayed, None, cursor)

FollowSelected ==
  /\ Press("Follow", {"Normal"})
  /\ selection.identity # None
  /\ IF selection.identity # followed
     THEN Follow(selection.identity, Chosen)
     ELSE Unfollow(Chosen)
  /\ UNCHANGED <<environment, messages, samples, overlays, details, pins, executor>>

\* The follow command names a PID of the newest sample.
FollowPid ==
  /\ Press("Follow", {"Normal"})
  /\ \E identity \in IdentitiesOf(latest) \ {followed} : Follow(identity, selection)
  /\ UNCHANGED <<environment, messages, samples, overlays, details, pins, executor>>

StopFollowing ==
  /\ Press("Follow", {"Normal"}) /\ followed # None
  /\ Unfollow(selection)
  /\ UNCHANGED <<environment, messages, samples, overlays, details, pins, executor>>

\* action_target: the selected row of the displayed sample, when the view is live.
\* Both choosing and proposing start here, from the table or from a detail.
ProposeAction(request, stage) ==
  /\ Press("Propose", {"Normal", "Detail"}) /\ live
  /\ displayed # None /\ selection.identity # None
  /\ \E process \in displayed :
       /\ process.identity = selection.identity
       /\ overlays' = IF process.signalable
                      THEN Push(overlays, ActionOn(process.identity, request, stage))
                      ELSE overlays
  /\ selection' = Chosen
  /\ UNCHANGED <<environment, messages, samples, rows, details, followed, pins, executor>>

OpenSignalDialog == ProposeAction("Term", "choose")
ProposeRenice    == ProposeAction("Renice", "choose")
ProposeSignal(signal) == ProposeAction(signal, "confirm")

\* The cursor of the signal list.
StepChoice(signal) ==
  /\ Press("Propose", {"Action"}) /\ live
  /\ Last(overlays).stage = "choose" /\ Last(overlays).request \in {"Term", "Kill"}
  /\ overlays' = [overlays EXCEPT ![Len(overlays)].request = signal]
  /\ UNCHANGED <<environment, messages, samples, table, details, followed, pins, executor>>

\* confirm, by the ordinary key or by the forceful one.
Confirm(forceful) ==
  /\ Press("Propose", {"Action"}) /\ live /\ effect = None
  /\ LET action == Last(overlays)
     IN  \/ /\ action.stage = "choose"
            /\ overlays' = Push(overlays, [action EXCEPT !.stage = "confirm"])
            /\ UNCHANGED effect
         \/ /\ action.stage = "confirm"
            /\ action.request = "Kill" => forceful
            /\ latest # None
            /\ overlays' = Without(overlays, "Action")
            /\ effect' = IF action.identity \in IdentitiesOf(latest)
                         THEN [identity |-> action.identity, request |-> action.request]
                         ELSE None
  /\ UNCHANGED <<environment, messages, samples, table, details, followed, pins, checked, acted>>

\* Mutant: closing the detail overlay leaves the request pending.
CancelOverlayOnly ==
  /\ Press("Cancel", {"Detail", "Action"})
  /\ overlays' = Front(overlays)
  /\ UNCHANGED <<environment, messages, samples, table, details, followed, pins, executor>>

Cancel ==
  /\ Press("Cancel", {"Detail", "Action"})
  /\ overlays' = Front(overlays)
  /\ detailRequest' = IF Mode = "Detail" THEN None ELSE detailRequest
  /\ UNCHANGED <<environment, messages, samples, table, detail, followed, pins, executor>>

-----------------------------------------------------------------------------
(* The executor *)

\* Mutant: the process is looked up by its PID.
PidRuns(identity) == system[identity.pid].signalable

\* The process is there under the same start key, and not a zombie.
StillRuns(identity) ==
  system[identity.pid].key = identity.key /\ system[identity.pid].signalable

\* The identity is read again.  A new priority also needs the newest sample to hold it.
Recheck ==
  /\ Idle /\ effect # None
  /\ LET known == \E seen \in latest : seen.identity = effect.identity /\ seen.signalable
     IN  checked' = IF /\ StillRuns(effect.identity)
                       /\ effect.request = "Renice" => known
                    THEN [identity |-> effect.identity, request |-> effect.request,
                          read |-> births]
                    ELSE None
  /\ effect' = None
  /\ acted' = None
  /\ UNCHANGED <<environment, messages, samples, table, overlays, details, followed, pins>>

\* kill or setpriority, by PID.
Act ==
  /\ ~Idle
  /\ acted' = IF system[checked.identity.pid] = Absent THEN None
              ELSE [identity |-> checked.identity, request |-> checked.request,
                    read |-> checked.read, actual |-> system[checked.identity.pid].key]
  /\ checked' = None
  /\ UNCHANGED <<environment, messages, samples, table, overlays, details, followed, pins, effect>>

-----------------------------------------------------------------------------

Init ==
  /\ births = 0 /\ system = [pid \in Pids |-> Absent]
  /\ sampled = None /\ latest = None /\ displayed = None /\ live = TRUE
  /\ rows = <<>> /\ selection = [identity |-> None, row |-> 1, chosen |-> FALSE]
  /\ overlays = <<>> /\ detail = None /\ detailRequest = None
  /\ followed = None /\ pins = {} /\ asked = <<>> /\ answer = None
  /\ effect = None /\ checked = None /\ acted = None

Next ==
  \/ \E pid \in Pids : Spawn(pid) \/ Exit(pid)
  \/ Collect
  \/ ReadDetail
  \/ LoseAnswer
  \/ SnapshotArrived
  \/ DetailArrived
  \/ Freeze
  \/ GoLive
  \/ Rearrange
  \/ \E row \in 1..Len(rows) : SelectRow(row)
  \/ InspectSelected
  \/ PinSelected
  \/ FollowSelected
  \/ FollowPid
  \/ StopFollowing
  \/ OpenSignalDialog
  \/ ProposeRenice
  \/ \E signal \in {"Term", "Kill"} : ProposeSignal(signal) \/ StepChoice(signal)
  \/ \E forceful \in BOOLEAN : Confirm(forceful)
  \/ Cancel
  \/ Recheck
  \/ Act

Spec == Init /\ [][Next]_vars

-----------------------------------------------------------------------------
(* Properties *)

Samples == SUBSET [identity : Identities, signalable : BOOLEAN]
Details == [kind : {"Detail"}, identity : Identities]
Actions == [kind : {"Action"}, identity : Identities, request : Requests,
            stage : {"choose", "confirm"}]

\* Every variable holds a value of its kind, and no more processes are pinned
\* than the table shows.
TypeOK ==
  /\ births \in 0..MaxBirths
  /\ system \in [Pids -> [key : 0..births, signalable : BOOLEAN]]
  /\ {sampled, latest, displayed} \subseteq {None} \cup Samples
  /\ live \in BOOLEAN
  /\ rows \in Seq(Identities)
  /\ selection \in [identity : Identities \cup {None}, row : Nat \ {0}, chosen : BOOLEAN]
  /\ overlays \in Seq(Details \cup Actions)
  /\ {detail, detailRequest, followed} \subseteq Identities \cup {None}
  /\ pins \subseteq Identities /\ IsFiniteSet(pins) /\ Cardinality(pins) <= MaxPins
  /\ asked \in Seq(Identities) /\ Len(asked) <= DetailCapacity
  /\ answer \in {None} \cup [identity : Identities, loaded : BOOLEAN]
  /\ effect \in {None} \cup [identity : Identities, request : Requests]
  /\ checked \in {None} \cup [identity : Identities, request : Requests, read : Nat]

\* A dialog names a process of the newest sample, so that a process that exits
\* takes its dialog along whichever event brings the news; the view is live while
\* a dialog is open, and the dialog is the overlay the keys reach.
DialogIsCurrent ==
  \A i \in 1..Len(overlays) : overlays[i].kind = "Action" =>
    /\ live
    /\ overlays[i].identity \in IdentitiesOf(latest)
    /\ i = Len(overlays)

\* A signal or a priority change that was confirmed for a process reaches another
\* one only if the PID changed hands after the executor read the identity again,
\* however long the dialog stood open and whatever ran in between.
ActsOnConfirmed ==
  acted # None => acted.actual = acted.identity.key \/ acted.actual > acted.read

\* The cursor is on a row of the table that shows its process, and the table shows
\* processes of the displayed sample only, paused or live.
CursorOnShownProcess ==
  /\ ToSet(rows) \subseteq IdentitiesOf(displayed)
  /\ selection.identity = None <=> rows = <<>>
  /\ selection.identity # None =>
       selection.row <= Len(rows) /\ rows[selection.row] = selection.identity

Kept(identity) ==
  /\ selection.chosen /\ identity # None
  /\ Contains(rows', identity)
  /\ rows' # rows \/ displayed' # displayed

\* The followed process is gone from the sample that just arrived.
Released == followed # None /\ latest' # latest /\ followed' = None

\* A process that the user chose stays selected through every refresh, filter,
\* sort and change of scope that keeps it in the table, and only choosing another
\* row leaves it.  The exit of the followed process is the exception.
IdentityWins ==
  [][Kept(selection.identity) /\ ~Released => selection'.identity = selection.identity]_vars

\* What is followed is in the newest sample, though the view may show an older one
\* and the command may name any PID.
FollowedIsAlive == followed # None /\ latest # None => followed \in IdentitiesOf(latest)

\* A detail request is pending only for the overlay that shows it, so that no
\* answer or request is left over from an overlay that a key, an exit or another
\* inspection closed.
RequestHasOverlay ==
  detailRequest # None =>
    \E open \in Overlay(overlays, "Detail") : open.identity = detailRequest
=============================================================================
