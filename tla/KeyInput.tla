--------------------------------- MODULE KeyInput ---------------------------------
(***************************************************************************)
(* From key presses to actions: the key map and the resolver of            *)
(* monitrs-tui keymap.rs, and the way app/reducer.rs uses them, with the   *)
(* overlays and the focus that decide the input mode.                      *)
(*                                                                         *)
(* g is both an action of its own and the first key of gg, so it waits for *)
(* the next key, for a tick that comes late enough, or for a change of     *)
(* mode.  The other keys are one for each thing a key can do to the mode.  *)
(* Time is the clock of the application state, counted since the waiting   *)
(* key; it moves with ticks and snapshots, not with keys.                  *)
(***************************************************************************)
EXTENDS Integers, Sequences, SequencesExt

CONSTANTS
  Timeout,  \* the sequence timeout, in steps of the clock
  MaxKeys   \* bound: keys pressed

ASSUME KeyInputAssumption == Timeout \in Nat \ {0} /\ MaxKeys \in Nat

VARIABLES
  screen,     \* the stack of overlays, outermost first, and the focused panel
  pending,    \* KeyResolver::pending
  age,        \* the clock less the time pending started at, at most Timeout
  reloading,  \* Effect::ReloadConfig was returned and is not executed yet
  pressed,    \* history: the keys, in the order the UI thread took them
  answered    \* history: what came of them, in the order it was applied

keyVars == <<screen, pending, age, reloading, pressed, answered>>

Modes == {"Normal", "FilterEdit", "CommandPalette", "ConfirmProcessAction", "Help",
          "ProcessDetail", "TimeLens"}
Views == {"Normal", "TimeLens"}
Lists == {"Normal", "Help", "ProcessDetail"}
Texts == {"FilterEdit", "CommandPalette"}

Panels == {"Processes", "History", "Summary"}

Bound(keys, modes, action) == [keys |-> keys, modes |-> modes, action |-> action]

\* Keymap::builtin, of the keys in use; gg is the one sequence.
Bindings ==
  { Bound(<<"Esc">>,    Modes,                      "CancelOverlay"),
    Bound(<<"?">>,      Views,                      "ToggleHelp"),
    Bound(<<"?">>,      {"Help"},                   "CancelOverlay"),
    Bound(<<"Tab">>,    {"Normal"},                 "NextPanel"),
    Bound(<<":">>,      Views,                      "OpenCommandPalette"),
    Bound(<<"g">>,      Views,                      "CycleGlyphMode"),
    Bound(<<"j">>,      Lists,                      "SelectNext"),
    Bound(<<"g", "g">>, Lists,                      "SelectFirst"),
    Bound(<<"Enter">>,  {"Normal"},                 "InspectSelected"),
    Bound(<<"/">>,      {"Normal"},                 "BeginFilterEdit"),
    Bound(<<"s">>,      {"Normal"},                 "OpenSortSelector"),
    Bound(<<"T">>,      {"Normal", "ProcessDetail"}, "ProposeSignal"),
    Bound(<<"Enter">>,  {"ConfirmProcessAction"},   "ConfirmPendingAction"),
    Bound(<<"Enter">>,  Texts,                      "SubmitInput") }

Keys      == UNION {{b.keys[i] : i \in DOMAIN b.keys} : b \in Bindings}
Printable == Keys \ {"Esc", "Tab", "Enter"}

\* Keymap::standalone, sequence and starts_sequence.
Binding(mode, keys) == {b \in Bindings : b.keys = keys /\ mode \in b.modes}
StartsSequence(mode, key) ==
  \E b \in Bindings : mode \in b.modes /\ Len(b.keys) = 2 /\ b.keys[1] = key

ActionOf(bindings) == IF bindings = {} THEN "Unbound" ELSE (CHOOSE b \in bindings : TRUE).action

\* A key by itself: its binding, else what it types.
Alone(mode, key) ==
  IF Binding(mode, <<key>>) = {} /\ mode \in Texts /\ key \in Printable
    THEN "InsertChar"
    ELSE ActionOf(Binding(mode, <<key>>))

-----------------------------------------------------------------------------
(* The resolver *)

\* What came of keys; of no key, nothing.
Answer(keys, action) == [keys |-> keys, as |-> action]
Nothing              == Answer(<<>>, "Unbound")

Waiting(mode, key) == [mode |-> mode, key |-> key]

\* No key waits.
None == Waiting("none", "none")

\* The key that waited is forgotten: nothing comes of it.
Forgotten(waiting) == IF waiting = None THEN Nothing ELSE Answer(<<waiting.key>>, "Dropped")

\* Mutant: a key that will not be completed is forgotten.
ReleasedToNothing(waiting, mode) == Forgotten(waiting)

\* The key that waited will not be completed.  It gets its own meaning, unless the mode is
\* not the one it was pressed in.
Released(waiting, mode) ==
  IF waiting = None \/ waiting.mode # mode
    THEN Forgotten(waiting)
    ELSE Answer(<<waiting.key>>, Alone(mode, waiting.key))

Completes(waiting, elapsed, mode, key) ==
  /\ waiting # None
  /\ waiting.mode = mode
  /\ elapsed < Timeout
  /\ Binding(mode, <<waiting.key, key>>) # {}

Completed(waiting, mode, key) ==
  Answer(<<waiting.key, key>>, ActionOf(Binding(mode, <<waiting.key, key>>)))

Resolution(carried, fresh, waiting) ==
  [carried |-> carried, fresh |-> fresh, pending |-> waiting]

\* Mutant: a new first key takes the place of the one that waits.
ResolvedReplacing(waiting, elapsed, mode, key) ==
  IF Completes(waiting, elapsed, mode, key)
    THEN Resolution(Nothing, Completed(waiting, mode, key), None)
  ELSE IF StartsSequence(mode, key)
    THEN Resolution(Nothing, Nothing, Waiting(mode, key))
    ELSE Resolution(Released(waiting, mode), Answer(<<key>>, Alone(mode, key)), None)

\* KeyResolver::resolve: what is carried over from the key that waited, what the new one
\* means, and whether it waits in its turn.
Resolved(waiting, elapsed, mode, key) ==
  IF Completes(waiting, elapsed, mode, key)
    THEN Resolution(Nothing, Completed(waiting, mode, key), None)
  ELSE IF StartsSequence(mode, key)
    THEN Resolution(Released(waiting, mode), Nothing, Waiting(mode, key))
    ELSE Resolution(Released(waiting, mode), Answer(<<key>>, Alone(mode, key)), None)

\* Mutant: ticks only notice a change of mode.
PolledForMode(waiting, elapsed, mode) ==
  IF waiting = None \/ waiting.mode = mode
    THEN Resolution(Nothing, Nothing, waiting)
    ELSE Resolution(Forgotten(waiting), Nothing, None)

\* KeyResolver::poll_timeout
Polled(waiting, elapsed, mode) ==
  IF waiting # None /\ waiting.mode = mode /\ elapsed < Timeout
    THEN Resolution(Nothing, Nothing, waiting)
    ELSE Resolution(Released(waiting, mode), Nothing, None)

-----------------------------------------------------------------------------
(* Overlays, focus and mode *)

Transient(kind) == kind = "SortSelector"

Without(stack, kind) == SelectSeq(stack, LAMBDA open : open # kind)

\* OverlayStack::push
Pushed(stack, kind) ==
  LET others == Without(stack, kind)
  IN  Append(IF others # <<>> /\ Transient(Last(others)) THEN Front(others) ELSE others,
             kind)

Top(s) == IF s.overlays = <<>> THEN "none" ELSE Last(s.overlays)

\* AppState::input_mode, with OverlayKind::input_mode
Mode(s) ==
  CASE Top(s) = "SortSelector"  -> "Normal"
    [] Top(s) = "ProcessAction" -> "ConfirmProcessAction"
    [] Top(s) = "none"          -> IF s.focus = "History" THEN "TimeLens" ELSE "Normal"
    [] OTHER                    -> Top(s)

Open(s, kind)  == [s EXCEPT !.overlays = Pushed(@, kind)]
Close(s, kind) == [s EXCEPT !.overlays = Without(@, kind)]

\* What an action may leave of the screen.  Whether a process is selected and alive, and
\* what was typed, is not in this module, so the outcomes these decide are all here.
Outcomes(action, s) ==
  CASE action = "CancelOverlay" ->
         {IF s.overlays # <<>> THEN [s EXCEPT !.overlays = Front(@)]
                               ELSE [s EXCEPT !.focus = "Processes"]}
    [] action = "ToggleHelp" ->
         {IF Contains(s.overlays, "Help") THEN Close(s, "Help") ELSE Open(s, "Help")}
    [] action = "NextPanel"          -> {[s EXCEPT !.focus = panel] : panel \in Panels}
    [] action = "OpenCommandPalette" -> {Open(s, "CommandPalette")}
    [] action = "BeginFilterEdit"    -> {Open(s, "FilterEdit")}
    [] action = "OpenSortSelector" ->
         {IF Top(s) = "SortSelector" THEN Close(s, "SortSelector")
                                     ELSE Open(s, "SortSelector")}
    [] action = "InspectSelected" ->
         IF Top(s) = "SortSelector" THEN {Close(s, "SortSelector")}
                                    ELSE {s, Open(s, "ProcessDetail")}
    [] action = "ProposeSignal"        -> {s, Open(s, "ProcessAction")}
    [] action = "ConfirmPendingAction" -> {s, Close(s, "ProcessAction")}
    [] action = "SubmitInput" ->
         IF Top(s) = "FilterEdit" THEN {Close(s, "FilterEdit")}
                                  ELSE {s, Close(s, "CommandPalette")}
    [] OTHER -> {s}

\* What came of each of the keys of an answer, and whether something disturbed them: a
\* change of mode without a key, or a new key map.  The first key of a sequence is its prefix.
Came(answer, disturbed) ==
  [i \in DOMAIN answer.keys |->
     [key       |-> answer.keys[i],
      as        |-> IF i < Len(answer.keys) THEN "Prefix" ELSE answer.as,
      disturbed |-> disturbed]]

\* The actions of a resolution, applied one after the other.
Follow(resolution) ==
  /\ pending' = resolution.pending
  /\ answered' = answered \o Came(resolution.carried, FALSE) \o Came(resolution.fresh, FALSE)
  /\ \E between \in Outcomes(resolution.carried.as, screen) :
       screen' \in Outcomes(resolution.fresh.as, between)

-----------------------------------------------------------------------------
(* Events *)

\* A key as it is pressed, and what it means alone in the mode of the screen.
Press(key) == [key |-> key, alone |-> Alone(Mode(screen), key)]

\* key_pressed.  A submitted line may be the command that reloads the configuration.
KeyPressed(key) ==
  /\ Len(pressed) < MaxKeys
  /\ Follow(Resolved(pending, age, Mode(screen), key))
  /\ age' = 0
  /\ pressed' = Append(pressed, Press(key))
  /\ reloading' \in {reloading,
                     reloading \/ (Mode(screen) = "CommandPalette" /\ key = "Enter"
                                   /\ screen' # screen)}

\* Mutant: only the events that report on a process reset the resolver.
SettledUnlessResized(waiting, before, after) ==
  IF Mode(before) # Mode(after) /\ before.focus = after.focus THEN None ELSE waiting

\* apply, after an event that is not a key: a change of mode resets the resolver.
Settled(waiting, before, after) ==
  IF Mode(before) # Mode(after) THEN None ELSE waiting

\* The end of such an event, which left the screen as after and the clock at elapsed.
Settle(after, elapsed) ==
  /\ screen' = after
  /\ pending' = Settled(pending, screen, after)
  /\ answered' = IF pending' = None
                   THEN answered \o Came(Forgotten(pending), Mode(after) # Mode(screen))
                   ELSE answered
  /\ age' = IF pending' = None THEN 0 ELSE elapsed
  /\ UNCHANGED <<reloading, pressed>>

\* The clock, which never goes back, after an event of the time elapsed.
Later(elapsed) == IF elapsed > age THEN elapsed ELSE age

\* snapshot_arrived: the dialog of a process that is gone is closed.
SnapshotArrived ==
  \E elapsed \in 0..Timeout, after \in {screen, Close(screen, "ProcessAction")} :
    Settle(after, IF pending = None THEN 0 ELSE Later(elapsed))

\* detail_arrived with Vanished or Reused: the overlay of that process is closed, and the
\* dialog of a process that is gone.
DetailArrived ==
  \E shown \in {screen, Close(screen, "ProcessDetail")} :
    \E after \in {shown, Close(shown, "ProcessAction")} : Settle(after, age)

\* resized: a panel that is not drawn any more loses the focus to one that is.  Which ones
\* a size leaves is not in this module; Summary stands for the panels without a mode.
Resized ==
  \E panel \in Panels : Settle([screen EXCEPT !.focus = panel], age)

\* ticked, for a tick sent at the time elapsed, which may be earlier than the clock.
Ticked(elapsed) ==
  /\ Follow(Polled(pending, elapsed, Mode(screen)))
  /\ age' = IF pending' = None THEN 0 ELSE Later(elapsed)
  /\ UNCHANGED <<reloading, pressed>>

\* The next ticks carry later times.
LateTick == \E elapsed \in age..Timeout : (elapsed > age \/ age = Timeout) /\ Ticked(elapsed)
Tick     == \E elapsed \in 0..Timeout : Ticked(elapsed)

\* apply_settings, executed at the end of the turn of the UI loop: the keys of the same
\* turn have been applied before it, and the new resolver knows none of them.
Reloaded ==
  /\ reloading
  /\ reloading' = FALSE
  /\ pending' = None
  /\ answered' = answered \o Came(Forgotten(pending), TRUE)
  /\ age' = 0
  /\ UNCHANGED <<screen, pressed>>

-----------------------------------------------------------------------------

KeyInit ==
  /\ screen = [overlays |-> <<>>, focus |-> "Processes"]
  /\ pending = None /\ age = 0
  /\ reloading = FALSE
  /\ pressed = <<>> /\ answered = <<>>

KeyNext ==
  \/ \E key \in Keys : KeyPressed(key)
  \/ SnapshotArrived \/ DetailArrived \/ Resized
  \/ Tick
  \/ Reloaded

\* The tick thread sends a tick every 100 ms for as long as the program runs, and the UI
\* thread takes what is sent; a tick the full channel drops is followed by others.
KeySpec == KeyInit /\ [][KeyNext]_keyVars /\ WF_keyVars(LateTick)

-----------------------------------------------------------------------------
(* Properties *)

\* The keys something came of, followed by the one that waits, are the keys pressed.
InTurn ==
  /\ Len(answered) + (IF pending = None THEN 0 ELSE 1) = Len(pressed)
  /\ pending # None => pending.key = pressed[Len(pressed)].key
  /\ \A i \in DOMAIN answered : answered[i].key = pressed[i].key

\* The second key of a sequence is applied with the first.
FollowsPrefix(came, i) == i > 1 /\ came[i - 1].as = "Prefix"

\* A key is the second one of a sequence, or the first with the second right behind it, or
\* means what it meant alone when it was pressed; or it was forgotten, for a cause.
HasMeaning(keys, came, i) ==
  IF FollowsPrefix(came, i)
    THEN \E b \in Bindings : /\ b.keys = <<keys[i - 1].key, keys[i].key>>
                              /\ b.action = came[i].as
    ELSE \/ came[i].as = keys[i].alone
         \/ came[i].as = "Prefix" /\ i < Len(came)
         \/ came[i].as = "Dropped" /\ came[i].disturbed

\* No key is applied twice, overtaken or lost without a cause (keymap.rs:1330-1391): in the
\* order of the presses each gets the meaning it has in its mode, alone or in a sequence.
\* Only one that waits is ever forgotten, and only if before the next key something else
\* changed the mode (reducer.rs:66-73) or replaced the key map.
AnswersInOrder == InTurn /\ \A i \in DOMAIN answered : HasMeaning(pressed, answered, i)

\* A key waits only in the mode it was pressed in, whatever closed or opened an overlay or
\* moved the focus since (reducer.rs:65-73): a half-typed g can not complete against
\* another mode's table.
PendingInMode == pending # None => pending.mode = Mode(screen)

\* A g that nothing follows does not wait for ever (reducer.rs:431-434): every key pressed is
\* settled in the end, without another key.  How, is AnswersInOrder's: with its meaning, or
\* forgotten where that is allowed.
EveryKeyAnswered ==
  \A n \in 1..MaxKeys : (Len(pressed) >= n) ~> (Len(answered) >= n)
=============================================================================
