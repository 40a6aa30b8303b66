------------------------------ MODULE TerminalGuard ------------------------------
(***************************************************************************)
(* The modes of the terminal, the guard of the UI thread that enters and   *)
(* leaves them, and the panic hook that any thread may run: monitrs-tui    *)
(* terminal.rs, with the parts of monitrs/interactive.rs and of            *)
(* monitrs/runtime.rs that install the guard, start the workers and leave. *)
(*                                                                         *)
(* The terminal itself is modes.  A mode whose entering or leaving         *)
(* reported an error may or may not be in effect; failed names those.      *)
(***************************************************************************)
EXTENDS Naturals, Sequences

CONSTANTS
  Workers,  \* the worker threads
  main      \* the thread that runs the UI

ASSUME WorkersAssumption == main \notin Workers

VARIABLES
  settings,   \* TerminalSettings::steps
  modes,      \* the modes in effect in the terminal
  registry,   \* TERMINAL_STEPS
  applied,    \* TerminalGuard::applied
  restored,   \* TerminalGuard::restored
  owed,       \* the steps each thread took from the registry and has still to undo
  pc,         \* where each thread is
  failed,     \* history: steps whose apply or undo reported an error
  entered,    \* history: steps whose apply succeeded
  undone      \* history: how often each step was undone

guard   == <<applied, restored>>
history == <<failed, entered, undone>>
vars    == <<settings, modes, registry, guard, owed, pc, history>>

Threads == Workers \cup {main}

SetupOrder == <<"RawMode", "AlternateScreen", "MouseCapture", "HiddenCursor">>
Steps == {SetupOrder[i] : i \in 1..4}

\* step comes no later than other in the order of setup.
NoLater(step, other) ==
  \E i, j \in 1..4 : i <= j /\ SetupOrder[i] = step /\ SetupOrder[j] = other

\* iter_restore_order and iter_setup_order: the step either would give first.
NextUndone(steps) == {s \in steps : \A t \in steps : NoLater(t, s)}
NextEntered(steps) == {s \in steps : \A t \in steps : NoLater(s, t)}

\* Mutant: the guard undoes what it applied, whatever the registry says.
TakeAnyway(wanted, registered) == wanted

\* StepRegistry::take: what was registered of wanted, which leaves the registry.
Taken(wanted, registered) == wanted \cap registered

Running == pc[main] \notin {"exited", "failed"}
Goto(thread, place) == pc' = [pc EXCEPT ![thread] = place]

-----------------------------------------------------------------------------
(* The guard of the UI thread *)

\* One round of the loop of install that succeeds.
Enter ==
  /\ pc[main] = "install"
  /\ \E step \in NextEntered(settings \ applied) :
       /\ modes' = modes \cup {step}
       /\ applied' = applied \cup {step}
       /\ registry' = registry \cup {step}
       /\ entered' = entered \cup {step}
       /\ IF settings = applied \cup {step} THEN Goto(main, "start") ELSE UNCHANGED pc
  /\ UNCHANGED <<settings, restored, owed, failed, undone>>

\* A round whose apply reports an error: install returns and drops the guard.
EnterFails ==
  /\ pc[main] = "install"
  /\ \E step \in NextEntered(settings \ applied) :
       /\ modes' \in {modes, modes \cup {step}}
       /\ failed' = failed \cup {step}
  /\ Goto(main, "failing")
  /\ UNCHANGED <<settings, registry, guard, owed, entered, undone>>

\* Mutant: a failed start returns before the guard can drop.
StartFailsUnguarded ==
  /\ pc[main] = "start"
  /\ Goto(main, "failed")
  /\ UNCHANGED <<settings, modes, registry, guard, owed, history>>

\* create_terminal, the size of the screen or a spawn reports an error, or later the
\* drawing of a frame: run returns with ?, and the guard drops.
StartFails ==
  /\ pc[main] = "start"
  /\ Goto(main, "failing")
  /\ UNCHANGED <<settings, modes, registry, guard, owed, history>>

DrawFails ==
  /\ pc[main] = "loop"
  /\ Goto(main, "failing")
  /\ UNCHANGED <<settings, modes, registry, guard, owed, history>>

\* The loop is left, by a key or by a signal; the shutdown is triggered.
LeaveLoop ==
  /\ pc[main] = "loop"
  /\ Goto(main, "leaving")
  /\ UNCHANGED <<settings, modes, registry, guard, owed, history>>

\* TerminalGuard::restore up to the claim: called on the way out, or by Drop when run
\* returns early or unwinds.
Restore ==
  /\ pc[main] \in {"leaving", "failing"}
  /\ ~restored
  /\ restored' = TRUE
  /\ owed' = [owed EXCEPT ![main] = Taken(applied, registry)]
  /\ registry' = registry \ applied
  /\ applied' = {}
  /\ UNCHANGED <<settings, modes, pc, history>>

\* run returns: after join_all, or at once when it failed, and the process ends with it.
Exit ==
  /\ restored /\ owed[main] = {}
  /\ \/ /\ pc[main] = "leaving"
        /\ \A w \in Workers : pc[w] \in {"none", "done", "dead"}
        /\ Goto(main, "exited")
     \/ /\ pc[main] = "failing"
        /\ Goto(main, "failed")
  /\ UNCHANGED <<settings, modes, registry, guard, owed, history>>

-----------------------------------------------------------------------------
(* Workers and the panic hook *)

Spawn(worker) ==
  /\ pc[main] = "start" /\ pc[worker] = "none"
  /\ Goto(worker, "running")
  /\ UNCHANGED <<settings, modes, registry, guard, owed, history>>

\* Every worker is there, and the loop begins.
Start ==
  /\ pc[main] = "start"
  /\ \A w \in Workers : pc[w] # "none"
  /\ Goto(main, "loop")
  /\ UNCHANGED <<settings, modes, registry, guard, owed, history>>

\* A worker's function returns: the shutdown was triggered, or it gave up before.
Finish(worker) ==
  /\ Running /\ pc[worker] = "running"
  /\ Goto(worker, "done")
  /\ UNCHANGED <<settings, modes, registry, guard, owed, history>>

MayPanic(thread) ==
  IF thread = main THEN pc[main] \in {"install", "start", "loop"}
                   ELSE pc[thread] = "running"

\* emergency_restore, which the hook calls first, up to its claim.
Panic(thread) ==
  /\ Running /\ MayPanic(thread)
  /\ Goto(thread, "hook")
  /\ owed' = [owed EXCEPT ![thread] = Taken(Steps, registry)]
  /\ registry' = registry \ Steps
  /\ UNCHANGED <<settings, modes, guard, history>>

\* One round of restore_steps, on any thread; an error does not end the loop.
Undo(thread) ==
  /\ Running
  /\ \E step \in NextUndone(owed[thread]) :
       /\ owed' = [owed EXCEPT ![thread] = @ \ {step}]
       /\ undone' = [undone EXCEPT ![step] = @ + 1]
       /\ \/ /\ modes' = modes \ {step}
             /\ UNCHANGED failed
          \/ /\ modes' \in {modes, modes \ {step}}
             /\ failed' = failed \cup {step}
  /\ UNCHANGED <<settings, registry, guard, pc, entered>>

\* The previous hook prints the message; then the thread unwinds, which ends a worker
\* and makes the UI thread drop its guard.
Unwind(thread) ==
  /\ Running /\ pc[thread] = "hook" /\ owed[thread] = {}
  /\ Goto(thread, IF thread = main THEN "failing" ELSE "dead")
  /\ UNCHANGED <<settings, modes, registry, guard, owed, history>>

-----------------------------------------------------------------------------

\* mouse capture is a setting; the other three modes are always asked for.
Init ==
  /\ settings \in {Steps, Steps \ {"MouseCapture"}}
  /\ modes = {} /\ registry = {} /\ applied = {} /\ restored = FALSE
  /\ owed = [t \in Threads |-> {}]
  /\ pc = [t \in Threads |-> IF t = main THEN "install" ELSE "none"]
  /\ failed = {} /\ entered = {} /\ undone = [s \in Steps |-> 0]

Next ==
  \/ Enter \/ EnterFails \/ Start \/ StartFails \/ LeaveLoop \/ DrawFails
  \/ Restore \/ Exit
  \/ \E w \in Workers : Spawn(w) \/ Finish(w)
  \/ \E t \in Threads : Panic(t) \/ Undo(t) \/ Unwind(t)

Spec == Init /\ [][Next]_vars

-----------------------------------------------------------------------------
(* Properties *)

TypeOK ==
  /\ settings \subseteq Steps /\ modes \subseteq Steps /\ registry \subseteq Steps
  /\ applied \subseteq Steps /\ failed \subseteq Steps /\ entered \subseteq Steps
  /\ restored \in BOOLEAN
  /\ owed \in [Threads -> SUBSET Steps]
  /\ pc \in [Threads -> {"install", "start", "loop", "leaving", "failing", "exited",
                         "failed", "none", "running", "done", "hook", "dead"}]
  /\ undone \in [Steps -> Nat]

\* The restoration is done exactly once whoever does it (terminal.rs:302-309): a step is
\* undone only after it was entered and by one thread only, though the hook of any
\* thread, the guard's restore and its Drop may all try.  A second LeaveAlternateScreen
\* would move the cursor over the message of the panic.
UndoneOnce == \A s \in Steps : undone[s] <= (IF s \in entered THEN 1 ELSE 0)

\* What the terminal was given is given back (terminal.rs:363-369): when run has
\* returned after the workers were joined, no mode is in effect but one that reported
\* an error; when it returned early and waited for no one, what is left is what the
\* hook of a worker had claimed and was cut off from undoing.
GivenBack ==
  /\ pc[main] = "exited" => modes \subseteq failed
  /\ pc[main] = "failed" => modes \subseteq failed \cup UNION {owed[w] : w \in Workers}

\* Why GivenBack holds: a mode in effect that reported no error is recorded in the
\* registry or among the steps some thread has claimed and will undo.
ModesAreOwed == modes \subseteq failed \cup registry \cup UNION {owed[t] : t \in Threads}

\* The modes are left in the reverse of the order in which they were entered, whichever
\* threads leave them: while a mode is in effect so is every one entered before it, but
\* for those that reported an error (terminal.rs:62-67).
LeftInReverse ==
  \A s \in modes \ failed, t \in entered : NoLater(t, s) => t \in modes \cup failed
=============================================================================
