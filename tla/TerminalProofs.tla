----------------------------- MODULE TerminalProofs -----------------------------
(***************************************************************************)
(* What monitrs owes the terminal, the person at it and the log that takes *)
(* what must not reach the terminal.                                       *)
(*                                                                         *)
(* Its modes: every one is left once and none is left behind, for any      *)
(* number of worker threads.  The argument is that the registry is claimed *)
(* whole: at most one thread ever has steps to undo, and while it has the  *)
(* registry is empty.                                                      *)
(*                                                                         *)
(* Its keys: every one has its meaning, in its turn and in its mode, for   *)
(* any number of keys and any timeout; only one that waits is ever         *)
(* forgotten.  The argument is that only g ever waits, whose own meaning   *)
(* leaves the screen as it is, so that the mode is still the one in which  *)
(* the key was pressed.                                                    *)
(*                                                                         *)
(* Its log: lines stay whole, and no file grows past the cap for each of   *)
(* the programs that write it, for any number of them.  The argument is    *)
(* that every program has an allowance for a file, and what it has not     *)
(* counted yet is not spent.                                               *)
(***************************************************************************)
EXTENDS TerminalGuard, KeyInput, DebugLog, FiniteSetTheorems, WellFoundedInduction, TLAPS

\* What has been entered and not yet undone is in the registry or claimed by one thread.
ClaimedOnce ==
  /\ registry \subseteq entered
  /\ \A t \in Threads : owed[t] \subseteq entered
  /\ \A t \in Threads : owed[t] # {} =>
       /\ registry = {}
       /\ \A u \in Threads \ {t} : owed[u] = {}
  /\ \A s \in Steps : undone[s] > 0 => /\ s \in entered \ registry
                                       /\ \A t \in Threads : s \notin owed[t]

\* Who may still have steps to undo.
ClaimantsAreUndoing ==
  /\ \A w \in Workers : owed[w] # {} => pc[w] = "hook"
  /\ owed[main] # {} => pc[main] = "hook" \/ restored

\* What the guard has recorded, before and after its restoration.
GuardRecords ==
  /\ pc[main] \in {"install", "start", "loop", "hook", "leaving", "failing", "exited", "failed"}
  /\ restored => registry = {} /\ pc[main] \in {"leaving", "failing", "exited", "failed"}
  /\ ~restored => registry \subseteq applied
  /\ pc[main] = "install" =>
       /\ applied = entered
       /\ \A w \in Workers : pc[w] = "none"

\* What holds once run has returned.
ReturnedClean ==
  /\ pc[main] \in {"exited", "failed"} => restored /\ owed[main] = {}
  /\ pc[main] = "exited" => \A w \in Workers : owed[w] = {}

IInv ==
  /\ TypeOK
  /\ UndoneOnce
  /\ ClaimedOnce
  /\ ClaimantsAreUndoing
  /\ GuardRecords
  /\ ReturnedClean
  /\ ModesAreOwed

USE DEF Threads

-----------------------------------------------------------------------------

LEMMA NextEnteredIsAStep ==
  ASSUME NEW S \in SUBSET Steps
  PROVE  NextEntered(S) \subseteq S /\ NextUndone(S) \subseteq S
BY DEF NextEntered, NextUndone

LEMMA InitHolds == Init => IInv
<1> SUFFICES ASSUME Init PROVE IInv
  OBVIOUS
<1> USE WorkersAssumption DEF Init
<1>1. TypeOK
  BY DEF TypeOK
<1>2. UndoneOnce /\ ClaimedOnce /\ ClaimantsAreUndoing /\ ReturnedClean
  BY DEF UndoneOnce, ClaimedOnce, ClaimantsAreUndoing, ReturnedClean
<1>3. GuardRecords /\ ModesAreOwed
  BY DEF GuardRecords, ModesAreOwed
<1> QED BY <1>1, <1>2, <1>3 DEF IInv

LEMMA EnterKeeps == ASSUME IInv, Enter PROVE IInv'
<1> USE WorkersAssumption
<1>1. PICK step \in NextEntered(settings \ applied) :
        /\ modes' = modes \cup {step}
        /\ applied' = applied \cup {step}
        /\ registry' = registry \cup {step}
        /\ entered' = entered \cup {step}
        /\ IF settings = applied \cup {step} THEN Goto(main, "start") ELSE UNCHANGED pc
  BY DEF Enter
<1>2. step \in Steps /\ step \notin applied
  BY NextEnteredIsAStep DEF IInv, TypeOK
<1>3. /\ pc[main] = "install" /\ applied = entered /\ ~restored
      /\ \A t \in Threads : owed[t] = {}
      /\ undone' = undone /\ owed' = owed /\ restored' = restored
      /\ settings' = settings /\ failed' = failed
  BY DEF IInv, Enter, GuardRecords, ClaimantsAreUndoing
<1>4. undone[step] = 0
  BY <1>2, <1>3 DEF IInv, TypeOK, ClaimedOnce
<1>5. /\ pc' \in [Threads -> {"install", "start", "loop", "leaving", "failing", "exited",
                              "failed", "none", "running", "done", "hook", "dead"}]
      /\ pc'[main] \in {"install", "start"}
      /\ \A w \in Workers : pc'[w] = pc[w]
  BY <1>1, <1>3 DEF IInv, TypeOK, Goto
<1>6. TypeOK'
  BY <1>1, <1>2, <1>3, <1>5 DEF IInv, TypeOK
<1>7. UndoneOnce'
  BY <1>1, <1>2, <1>3 DEF IInv, UndoneOnce, TypeOK
<1>8. ClaimedOnce'
  BY <1>1, <1>2, <1>3, <1>4 DEF IInv, ClaimedOnce, TypeOK
<1>9. ClaimantsAreUndoing' /\ ReturnedClean'
  BY <1>3, <1>5 DEF ClaimantsAreUndoing, ReturnedClean
<1>10. GuardRecords'
  BY <1>1, <1>3, <1>5 DEF IInv, GuardRecords
<1>11. ModesAreOwed'
  BY <1>1, <1>3 DEF IInv, ModesAreOwed
<1> QED BY <1>6, <1>7, <1>8, <1>9, <1>10, <1>11 DEF IInv

\* A step that only moves a thread on, and claims, enters and undoes nothing.
LEMMA MoveKeeps ==
  ASSUME IInv, NEW thread \in Threads, NEW place, Goto(thread, place),
         UNCHANGED <<settings, modes, registry, guard, owed, history>>,
         thread = main =>
           /\ pc[main] # place
           /\ \/ place = "loop" /\ pc[main] = "start"
              \/ place = "leaving" /\ pc[main] = "loop"
              \/ place = "failing" /\ (pc[main] \in {"start", "loop"} \/ owed[main] = {})
              \/ /\ place \in {"exited", "failed"} /\ restored /\ owed[main] = {}
                 /\ place = "exited" => \A w \in Workers : pc[w] # "hook",
         thread # main =>
           /\ place \in {"running", "done", "dead"} /\ owed[thread] = {}
           /\ pc[main] # "install"
  PROVE  IInv'
<1> USE WorkersAssumption
<1>1. /\ settings' = settings /\ modes' = modes /\ registry' = registry
      /\ applied' = applied /\ restored' = restored /\ owed' = owed
      /\ failed' = failed /\ entered' = entered /\ undone' = undone
  BY DEF guard, history
<1>2. /\ pc' = [pc EXCEPT ![thread] = place]
      /\ pc'[thread] = place
      /\ \A t \in Threads \ {thread} : pc'[t] = pc[t]
  BY DEF Goto, IInv, TypeOK
<1>3. TypeOK'
  BY <1>1, <1>2 DEF IInv, TypeOK
<1>4. UndoneOnce' /\ ClaimedOnce' /\ ModesAreOwed'
  BY <1>1 DEF IInv, UndoneOnce, ClaimedOnce, ModesAreOwed
<1>5. CASE thread = main
  <2>1. ClaimantsAreUndoing'
    BY <1>1, <1>2, <1>5 DEF IInv, ClaimantsAreUndoing, GuardRecords
  <2>2. GuardRecords'
    BY <1>1, <1>2, <1>5 DEF IInv, GuardRecords
  <2>3. ReturnedClean'
    BY <1>1, <1>2, <1>5 DEF IInv, ReturnedClean, ClaimantsAreUndoing
  <2> QED BY <1>3, <1>4, <2>1, <2>2, <2>3 DEF IInv
<1>6. CASE thread # main
  BY <1>1, <1>2, <1>3, <1>4, <1>6
     DEF IInv, ClaimantsAreUndoing, GuardRecords, ReturnedClean
<1> QED BY <1>5, <1>6

LEMMA RestoreKeeps == ASSUME IInv, Restore PROVE IInv'
<1> USE WorkersAssumption
<1>1. /\ pc[main] \in {"leaving", "failing"} /\ ~restored /\ restored'
      /\ owed' = [owed EXCEPT ![main] = applied \cap registry]
      /\ registry' = registry \ applied /\ applied' = {}
      /\ settings' = settings /\ modes' = modes /\ pc' = pc /\ failed' = failed
      /\ entered' = entered /\ undone' = undone
  BY DEF Restore, Taken, history
<1>2. /\ owed[main] = {} /\ registry' = {}
      /\ owed'[main] = registry
      /\ \A w \in Workers : owed'[w] = owed[w]
  BY <1>1 DEF IInv, TypeOK, ClaimantsAreUndoing, GuardRecords
<1>3. TypeOK'
  BY <1>1, <1>2 DEF IInv, TypeOK
<1>4. UndoneOnce'
  BY <1>1 DEF IInv, UndoneOnce
<1>5. ClaimedOnce'
  BY <1>1, <1>2 DEF IInv, ClaimedOnce
<1>6. ClaimantsAreUndoing' /\ GuardRecords' /\ ReturnedClean'
  BY <1>1, <1>2 DEF IInv, ClaimantsAreUndoing, GuardRecords, ReturnedClean
<1>7. ModesAreOwed'
  BY <1>1, <1>2 DEF IInv, ModesAreOwed
<1> QED BY <1>3, <1>4, <1>5, <1>6, <1>7 DEF IInv

LEMMA PanicKeeps == ASSUME IInv, NEW thread \in Threads, Panic(thread) PROVE IInv'
<1> USE WorkersAssumption
<1>1. /\ owed' = [owed EXCEPT ![thread] = Steps \cap registry]
      /\ pc' = [pc EXCEPT ![thread] = "hook"]
      /\ registry' = registry \ Steps /\ applied' = applied /\ restored' = restored
      /\ settings' = settings /\ modes' = modes /\ failed' = failed
      /\ entered' = entered /\ undone' = undone
      /\ Running /\ MayPanic(thread)
  BY DEF Panic, Goto, Taken, guard, history
<1>2. /\ owed[thread] = {} /\ registry' = {}
      /\ owed'[thread] = registry /\ pc'[thread] = "hook"
      /\ \A t \in Threads \ {thread} : owed'[t] = owed[t] /\ pc'[t] = pc[t]
  BY <1>1 DEF IInv, TypeOK, ClaimantsAreUndoing, GuardRecords, MayPanic
<1>3. TypeOK'
  BY <1>1, <1>2 DEF IInv, TypeOK
<1>4. UndoneOnce'
  BY <1>1 DEF IInv, UndoneOnce
<1>5. ClaimedOnce'
  BY <1>1, <1>2 DEF IInv, ClaimedOnce
<1>6. ClaimantsAreUndoing'
  BY <1>1, <1>2 DEF IInv, ClaimantsAreUndoing
<1>7. GuardRecords'
  BY <1>1, <1>2 DEF IInv, GuardRecords, MayPanic
<1>8. ReturnedClean'
  BY <1>1, <1>2 DEF IInv, ReturnedClean, MayPanic, Running, GuardRecords
<1>9. ModesAreOwed'
  BY <1>1, <1>2 DEF IInv, ModesAreOwed
<1> QED BY <1>3, <1>4, <1>5, <1>6, <1>7, <1>8, <1>9 DEF IInv

LEMMA UndoKeeps == ASSUME IInv, NEW thread \in Threads, Undo(thread) PROVE IInv'
<1> USE WorkersAssumption
<1>1. PICK step \in NextUndone(owed[thread]) :
        /\ owed' = [owed EXCEPT ![thread] = @ \ {step}]
        /\ undone' = [undone EXCEPT ![step] = @ + 1]
        /\ \/ modes' = modes \ {step} /\ failed' = failed
           \/ modes' \in {modes, modes \ {step}} /\ failed' = failed \cup {step}
  BY DEF Undo
<1>2. /\ step \in owed[thread] /\ step \in Steps /\ owed[thread] # {}
      /\ settings' = settings /\ registry' = registry /\ applied' = applied
      /\ restored' = restored /\ pc' = pc /\ entered' = entered /\ Running
  BY <1>1, NextEnteredIsAStep DEF IInv, TypeOK, Undo, guard
<1>3. /\ owed'[thread] = owed[thread] \ {step}
      /\ \A t \in Threads \ {thread} : owed'[t] = owed[t] /\ owed[t] = {}
      /\ registry = {} /\ step \in entered
  BY <1>1, <1>2 DEF IInv, TypeOK, ClaimedOnce
<1>4. /\ undone[step] = 0 /\ undone'[step] = 1
      /\ \A s \in Steps \ {step} : undone'[s] = undone[s]
  BY <1>1, <1>2, <1>3 DEF IInv, TypeOK, ClaimedOnce
<1>5. TypeOK'
  BY <1>1, <1>2, <1>3, <1>4 DEF IInv, TypeOK
<1>6. UndoneOnce'
  BY <1>2, <1>3, <1>4 DEF IInv, UndoneOnce
<1>7. ClaimedOnce'
  BY <1>2, <1>3, <1>4 DEF IInv, ClaimedOnce
<1>8. ClaimantsAreUndoing' /\ GuardRecords' /\ ReturnedClean'
  BY <1>2, <1>3 DEF IInv, ClaimantsAreUndoing, GuardRecords, ReturnedClean, Running
<1>9. ModesAreOwed'
  BY <1>1, <1>3 DEF IInv, ModesAreOwed
<1> QED BY <1>5, <1>6, <1>7, <1>8, <1>9 DEF IInv

LEMMA EnterFailsKeeps == ASSUME IInv, EnterFails PROVE IInv'
<1> USE WorkersAssumption
<1>1. PICK step \in NextEntered(settings \ applied) :
        modes' \in {modes, modes \cup {step}} /\ failed' = failed \cup {step}
  BY DEF EnterFails
<1>2. /\ step \in Steps /\ pc[main] = "install"
      /\ settings' = settings /\ registry' = registry /\ applied' = applied
      /\ restored' = restored /\ owed' = owed /\ entered' = entered /\ undone' = undone
      /\ pc' = [pc EXCEPT ![main] = "failing"]
  BY NextEnteredIsAStep DEF IInv, TypeOK, EnterFails, guard, Goto
<1>3. pc'[main] = "failing" /\ \A w \in Workers : pc'[w] = pc[w]
  BY <1>2 DEF IInv, TypeOK
<1>4. TypeOK'
  BY <1>1, <1>2 DEF IInv, TypeOK
<1>5. UndoneOnce' /\ ClaimedOnce'
  BY <1>2 DEF IInv, UndoneOnce, ClaimedOnce
<1>6. ClaimantsAreUndoing' /\ GuardRecords' /\ ReturnedClean'
  BY <1>2, <1>3 DEF IInv, ClaimantsAreUndoing, GuardRecords, ReturnedClean
<1>7. ModesAreOwed'
  BY <1>1, <1>2 DEF IInv, ModesAreOwed
<1> QED BY <1>4, <1>5, <1>6, <1>7 DEF IInv

LEMMA StepKeeps == IInv /\ [Next]_vars => IInv'
<1> SUFFICES ASSUME IInv, [Next]_vars PROVE IInv'
  OBVIOUS
<1> USE WorkersAssumption
<1>1. CASE UNCHANGED vars
  BY <1>1 DEF vars, guard, history, IInv, TypeOK, UndoneOnce, ClaimedOnce,
     ClaimantsAreUndoing, GuardRecords, ReturnedClean, ModesAreOwed
<1>2. CASE Enter
  BY <1>2, EnterKeeps
<1>3. CASE EnterFails
  BY <1>3, EnterFailsKeeps
<1>4. CASE Start
  BY <1>4, MoveKeeps, main \in Threads DEF Start
<1>5. CASE StartFails \/ DrawFails
  BY <1>5, MoveKeeps, main \in Threads DEF StartFails, DrawFails
<1>6. CASE LeaveLoop
  BY <1>6, MoveKeeps, main \in Threads DEF LeaveLoop
<1>7. CASE Restore
  BY <1>7, RestoreKeeps
<1>8. CASE Exit
  <2>1. CASE pc[main] = "leaving"
    BY <1>8, <2>1, MoveKeeps, main \in Threads DEF Exit
  <2>2. CASE pc[main] = "failing"
    BY <1>8, <2>2, MoveKeeps, main \in Threads DEF Exit
  <2> QED BY <1>8, <2>1, <2>2 DEF Exit
<1>9. ASSUME NEW w \in Workers, Spawn(w) \/ Finish(w) PROVE IInv'
  <2>1. w # main /\ w \in Threads /\ owed[w] = {} /\ pc[main] # "install"
    BY <1>9 DEF IInv, Spawn, Finish, ClaimantsAreUndoing, GuardRecords
  <2> QED BY <1>9, <2>1, MoveKeeps DEF Spawn, Finish
<1>10. ASSUME NEW t \in Threads, Panic(t) \/ Undo(t) PROVE IInv'
  BY <1>10, PanicKeeps, UndoKeeps
<1>11. ASSUME NEW t \in Threads, Unwind(t) PROVE IInv'
  <2>1. t # main => pc[main] # "install"
    BY <1>11 DEF Unwind, IInv, GuardRecords
  <2> QED BY <1>11, <2>1, MoveKeeps DEF Unwind
<1> QED BY <1>1, <1>2, <1>3, <1>4, <1>5, <1>6, <1>7, <1>8, <1>9, <1>10, <1>11 DEF Next

LEMMA Inductive == Spec => []IInv
<1> QED BY InitHolds, StepKeeps, PTL DEF Spec

-----------------------------------------------------------------------------
(* The order *)

LEMMA OrderIsAntisymmetric ==
  ASSUME NEW s \in Steps, NEW t \in Steps, NoLater(s, t), NoLater(t, s)
  PROVE  s = t
BY DEF NoLater, SetupOrder, Steps

\* While the guard enters modes none of them has been left.
EnteringLeavesNone == pc[main] = "install" => entered \subseteq modes

LEMMA OrderStart == Init => EnteringLeavesNone /\ LeftInReverse
BY DEF Init, EnteringLeavesNone, LeftInReverse

LEMMA OrderKeeps ==
  IInv /\ EnteringLeavesNone /\ LeftInReverse /\ [Next]_vars
    => EnteringLeavesNone' /\ LeftInReverse'
<1> SUFFICES ASSUME IInv, EnteringLeavesNone, LeftInReverse, [Next]_vars
             PROVE  EnteringLeavesNone' /\ LeftInReverse'
  OBVIOUS
<1> USE WorkersAssumption
<1>1. CASE Enter
  <2>1. PICK step \in NextEntered(settings \ applied) :
          modes' = modes \cup {step} /\ entered' = entered \cup {step}
    BY <1>1 DEF Enter
  <2>2. failed' = failed /\ entered \subseteq modes
    BY <1>1 DEF Enter, EnteringLeavesNone
  <2> QED BY <2>1, <2>2 DEF EnteringLeavesNone, LeftInReverse
<1>2. CASE EnterFails
  <2>1. PICK step \in NextEntered(settings \ applied) :
          modes' \in {modes, modes \cup {step}} /\ failed' = failed \cup {step}
    BY <1>2 DEF EnterFails
  <2>2. entered' = entered /\ entered \subseteq modes
    BY <1>2 DEF EnterFails, EnteringLeavesNone
  <2> QED BY <2>1, <2>2 DEF EnteringLeavesNone, LeftInReverse
<1>3. ASSUME NEW thread \in Threads, Undo(thread)
      PROVE  EnteringLeavesNone' /\ LeftInReverse'
  <2>1. PICK step \in NextUndone(owed[thread]) :
          \/ modes' = modes \ {step} /\ failed' = failed
          \/ modes' \in {modes, modes \ {step}} /\ failed' = failed \cup {step}
    BY <1>3 DEF Undo
  <2>2. /\ entered' = entered /\ pc' = pc /\ owed[thread] # {}
        /\ step \in owed[thread] /\ step \in Steps
        /\ \A s \in owed[thread] : NoLater(s, step)
    BY <1>3, <2>1 DEF Undo, NextUndone, IInv, TypeOK
  <2>3. modes \subseteq failed \cup owed[thread] /\ pc[main] # "install"
    BY <2>2 DEF IInv, ClaimedOnce, ModesAreOwed, GuardRecords, ClaimantsAreUndoing
  <2>4. ASSUME NEW s \in modes \ failed, NoLater(step, s) PROVE s = step
    BY <2>2, <2>3, <2>4, OrderIsAntisymmetric DEF IInv, TypeOK
  <2> QED BY <2>1, <2>2, <2>3, <2>4 DEF EnteringLeavesNone, LeftInReverse
<1>4. CASE \/ Start \/ StartFails \/ DrawFails \/ LeaveLoop \/ Restore \/ Exit
           \/ UNCHANGED vars
           \/ \E w \in Workers : Spawn(w) \/ Finish(w)
           \/ \E t \in Threads : Panic(t) \/ Unwind(t)
  <2>1. UNCHANGED <<modes, failed, entered>>
    BY <1>4 DEF Start, StartFails, DrawFails, LeaveLoop, Restore, Exit, Spawn, Finish,
       Panic, Unwind, vars, history
  <2>2. pc'[main] = "install" => pc[main] = "install"
    BY <1>4 DEF Start, StartFails, DrawFails, LeaveLoop, Restore, Exit, Spawn, Finish,
       Panic, Unwind, vars, Goto, IInv, TypeOK
  <2> QED BY <2>1, <2>2 DEF EnteringLeavesNone, LeftInReverse
<1> QED BY <1>1, <1>2, <1>3, <1>4 DEF Next

-----------------------------------------------------------------------------
(* The theorems *)

\* Every variable keeps a value of its kind.
THEOREM TypeSafety == Spec => []TypeOK
<1>1. IInv => TypeOK
  BY DEF IInv
<1> QED BY <1>1, Inductive, PTL

\* No mode is left twice, nor left without having been entered, however many threads
\* panic while the guard restores: whoever takes the registry takes all of it.
THEOREM LeftOnce == Spec => []UndoneOnce
<1>1. IInv => UndoneOnce
  BY DEF IInv
<1> QED BY <1>1, Inductive, PTL

\* When run has returned, the terminal has every mode back but those that reported an
\* error, or that the hook of a worker was cut off from leaving.
THEOREM TerminalIsGivenBack == Spec => []GivenBack
<1>1. IInv => GivenBack
  BY DEF IInv, ModesAreOwed, GuardRecords, ReturnedClean, GivenBack
<1> QED BY <1>1, Inductive, PTL

\* A mode that is in effect is recorded: the registry or a claim names it.
THEOREM NoModeIsForgotten == Spec => []ModesAreOwed
<1>1. IInv => ModesAreOwed
  BY DEF IInv
<1> QED BY <1>1, Inductive, PTL

\* Modes are left in the reverse of the order of entering, by the guard, by one panic
\* hook, or by two of them: the claim is undone by the thread that made it.
THEOREM ReverseOrder == Spec => []LeftInReverse
<1> QED BY Inductive, OrderStart, OrderKeeps, PTL DEF Spec

-----------------------------------------------------------------------------
(* Its keys *)

\* What a key can mean by itself or with another.
Meanings == {b.action : b \in Bindings} \cup {"InsertChar", "Unbound"}

Presses == [key : Keys, alone : Meanings]
Ends    == [key : Keys, as : Meanings \cup {"Prefix", "Dropped"}, disturbed : BOOLEAN]

End(key, as, disturbed) == [key |-> key, as |-> as, disturbed |-> disturbed]

InOrder(keys, came) ==
  \A i \in DOMAIN came : came[i].key = keys[i].key /\ HasMeaning(keys, came, i)

\* The keys, what came of them, and the last one, if it waits, account for each other.
Account(keys, came, waiting) ==
  /\ keys \in Seq(Presses)
  /\ came \in Seq(Ends)
  /\ Len(came) + (IF waiting = None THEN 0 ELSE 1) = Len(keys)
  /\ waiting # None =>
       keys[Len(keys)] = [key |-> waiting.key, alone |-> Alone(waiting.mode, waiting.key)]
  /\ InOrder(keys, came)

\* Only g waits, and only where a list has a first row.
OnlyFirstKeysWait ==
  pending # None => pending \in [mode : Lists, key : Keys \cap {"g"}]

KeysInv == Account(pressed, answered, pending) /\ OnlyFirstKeysWait /\ PendingInMode

LEMMA MeaningIsPlain == "Prefix" \notin Meanings /\ "Dropped" \notin Meanings
BY DEF Meanings, Bindings, Bound

LEMMA AloneHasMeaning ==
  ASSUME NEW mode, NEW key
  PROVE  Alone(mode, key) \in Meanings
<1>1. ASSUME NEW bindings \in SUBSET Bindings
      PROVE  ActionOf(bindings) \in Meanings
  <2>1. CASE bindings = {}
    BY <2>1 DEF ActionOf, Meanings
  <2>2. CASE bindings # {}
    <3>1. (CHOOSE b \in bindings : TRUE) \in Bindings
      BY <2>2
    <3>2. QED
      BY <2>2, <3>1, Zenon DEF ActionOf, Meanings
  <2>3. QED
    BY <2>1, <2>2
<1>2. Binding(mode, <<key>>) \in SUBSET Bindings
  BY DEF Binding
<1>3. CASE Binding(mode, <<key>>) = {} /\ mode \in Texts /\ key \in Printable
  BY <1>3 DEF Alone, Meanings
<1>4. CASE ~(Binding(mode, <<key>>) = {} /\ mode \in Texts /\ key \in Printable)
  <2>1. Alone(mode, key) = ActionOf(Binding(mode, <<key>>))
    BY <1>4 DEF Alone
  <2>2. QED
    BY <1>1, <1>2, <2>1, Zenon
<1>5. QED
  BY <1>3, <1>4

\* The last thing that came is never the prefix of what has not come.
LEMMA LastIsNoPrefix ==
  ASSUME NEW keys \in Seq(Presses), NEW came \in Seq(Ends),
         Len(came) <= Len(keys), InOrder(keys, came), came # <<>>
  PROVE  came[Len(came)].as # "Prefix"
<1> DEFINE n == Len(came)
<1>1. n \in DOMAIN came /\ n \in DOMAIN keys
  OBVIOUS
<1>2. HasMeaning(keys, came, n)
  BY <1>1 DEF InOrder
<1>3. keys[n].alone \in Meanings
  <2>1. keys[n] \in Presses
    BY <1>1
  <2>2. QED
    BY <2>1, Zenon DEF Presses
<1>4. \A b \in Bindings : b.action \in Meanings
  BY DEF Meanings
<1>5. QED
  BY <1>2, <1>3, <1>4, MeaningIsPlain DEF HasMeaning

\* A key that is pressed changes nothing of what came of the others.
LEMMA KeyAdded ==
  ASSUME NEW keys \in Seq(Presses), NEW came \in Seq(Ends), NEW press \in Presses,
         Len(came) <= Len(keys), InOrder(keys, came)
  PROVE  InOrder(Append(keys, press), came)
<1> DEFINE more == Append(keys, press)
<1> SUFFICES ASSUME NEW i \in DOMAIN came
             PROVE  came[i].key = more[i].key /\ HasMeaning(more, came, i)
  BY DEF InOrder
<1>1. i \in DOMAIN keys /\ more[i] = keys[i]
  OBVIOUS
<1>2. i > 1 => more[i - 1] = keys[i - 1]
  OBVIOUS
<1>3. came[i].key = keys[i].key /\ HasMeaning(keys, came, i)
  BY DEF InOrder
<1> HIDE DEF more
<1>4. HasMeaning(more, came, i)
  BY <1>1, <1>2, <1>3 DEF HasMeaning, FollowsPrefix
<1>5. QED
  BY <1>1, <1>3, <1>4

\* What comes of the next key changes nothing of what came before.
LEMMA EndsKept ==
  ASSUME NEW keys \in Seq(Presses), NEW came \in Seq(Ends), NEW end \in Ends,
         InOrder(keys, came),
         NEW i \in DOMAIN came
  PROVE  LET more == Append(came, end)
         IN  more[i].key = keys[i].key /\ HasMeaning(keys, more, i)
<1> DEFINE more == Append(came, end)
<1>1. more[i] = came[i] /\ (i > 1 => more[i - 1] = came[i - 1]) /\ Len(came) < Len(more)
  OBVIOUS
<1>2. came[i].key = keys[i].key /\ HasMeaning(keys, came, i)
  BY DEF InOrder
<1>3. Len(came) \in Nat /\ Len(more) \in Nat /\ i \in Nat
  OBVIOUS
<1> HIDE DEF more
<1>4. HasMeaning(keys, more, i)
  BY <1>1, <1>2, <1>3 DEF HasMeaning, FollowsPrefix
<1>5. QED
  BY <1>1, <1>2, <1>4 DEF more

LEMMA EndAdded ==
  ASSUME NEW keys \in Seq(Presses), NEW came \in Seq(Ends), NEW end \in Ends,
         Len(came) < Len(keys), InOrder(keys, came),
         end.key = keys[Len(came) + 1].key,
         \/ end.as = keys[Len(came) + 1].alone
         \/ end.as = "Dropped" /\ end.disturbed
  PROVE  InOrder(keys, Append(came, end))
<1> DEFINE more == Append(came, end)
           n    == Len(came) + 1
<1>1. ASSUME NEW i \in DOMAIN came
      PROVE  more[i].key = keys[i].key /\ HasMeaning(keys, more, i)
  BY EndsKept
<1>2. more[n] = end /\ DOMAIN more = DOMAIN came \cup {n}
  OBVIOUS
<1>3. ~FollowsPrefix(more, n)
  <2>1. CASE came = <<>>
    BY <2>1 DEF FollowsPrefix
  <2>2. CASE came # <<>>
    <3>1. came[Len(came)].as # "Prefix"
      BY <2>2, LastIsNoPrefix
    <3>2. more[n - 1] = came[Len(came)]
      BY <2>2
    <3>3. QED
      BY <3>1, <3>2 DEF FollowsPrefix
  <2>3. QED
    BY <2>1, <2>2
<1> HIDE DEF more, n
<1>4. more[n].key = keys[n].key /\ HasMeaning(keys, more, n)
  BY <1>2, <1>3 DEF HasMeaning, n
<1>5. InOrder(keys, more)
  BY <1>1, <1>2, <1>4 DEF InOrder
<1>6. QED
  BY <1>5 DEF more

LEMMA SequenceAdded ==
  ASSUME NEW keys \in Seq(Presses), NEW came \in Seq(Ends), NEW b \in Bindings,
         NEW first \in Ends, NEW second \in Ends,
         Len(came) + 2 = Len(keys), InOrder(keys, came),
         b.keys = <<keys[Len(came) + 1].key, keys[Len(came) + 2].key>>,
         first.key = keys[Len(came) + 1].key, first.as = "Prefix",
         second.key = keys[Len(came) + 2].key, second.as = b.action
  PROVE  InOrder(keys, Append(Append(came, first), second))
<1> DEFINE one == Append(came, first)
           two == Append(one, second)
           n   == Len(came) + 1
<1>1. one \in Seq(Ends) /\ Len(one) = n /\ DOMAIN one = DOMAIN came \cup {n}
  OBVIOUS
<1>2. /\ two[n] = first /\ two[n + 1] = second
      /\ DOMAIN two = DOMAIN came \cup {n, n + 1}
      /\ Len(two) = n + 1
  OBVIOUS
<1>3. ASSUME NEW i \in DOMAIN came
      PROVE  two[i].key = keys[i].key /\ HasMeaning(keys, two, i)
  <2>1. /\ two[i] = came[i] /\ (i > 1 => two[i - 1] = came[i - 1])
        /\ Len(came) < Len(two)
    OBVIOUS
  <2>2. came[i].key = keys[i].key /\ HasMeaning(keys, came, i)
    BY DEF InOrder
  <2>3. Len(came) \in Nat /\ Len(two) \in Nat /\ i \in Nat
    OBVIOUS
  <2> HIDE DEF two
  <2>4. HasMeaning(keys, two, i)
    BY <2>1, <2>2, <2>3 DEF HasMeaning, FollowsPrefix
  <2>5. QED
    BY <2>1, <2>2, <2>4
<1>4. ~FollowsPrefix(two, n)
  <2>1. CASE came = <<>>
    BY <2>1 DEF FollowsPrefix
  <2>2. CASE came # <<>>
    <3>1. came[Len(came)].as # "Prefix"
      BY <2>2, LastIsNoPrefix
    <3>2. two[n - 1] = came[Len(came)]
      BY <2>2
    <3>3. QED
      BY <3>1, <3>2 DEF FollowsPrefix
  <2>3. QED
    BY <2>1, <2>2
<1>5. n \in Nat \ {0} /\ Len(keys) = n + 1
  OBVIOUS
<1>6. /\ b.keys = <<keys[n].key, keys[n + 1].key>>
      /\ first.key = keys[n].key /\ second.key = keys[n + 1].key
  OBVIOUS
<1> HIDE DEF two, n
<1>7. two[n].key = keys[n].key /\ HasMeaning(keys, two, n)
  BY <1>2, <1>4, <1>5, <1>6 DEF HasMeaning
<1>8. two[n + 1].key = keys[n + 1].key /\ HasMeaning(keys, two, n + 1)
  <2>1. FollowsPrefix(two, n + 1)
    BY <1>2, <1>5 DEF FollowsPrefix
  <2>2. (n + 1) - 1 = n
    BY <1>5
  <2>3. \E c \in Bindings : /\ c.keys = <<keys[(n + 1) - 1].key, keys[n + 1].key>>
                            /\ c.action = two[n + 1].as
    BY <1>2, <1>6, <2>2
  <2>4. HasMeaning(keys, two, n + 1)
    BY <2>1, <2>3, Zenon DEF HasMeaning
  <2>5. QED
    BY <1>2, <1>6, <2>4
<1>9. InOrder(keys, two)
  BY <1>2, <1>3, <1>7, <1>8 DEF InOrder
<1>10. QED
  BY <1>9 DEF two

LEMMA NothingCame ==
  ASSUME NEW disturbed
  PROVE  Came(Nothing, disturbed) = <<>>
BY DEF Came, Nothing, Answer

LEMMA OneCame ==
  ASSUME NEW key, NEW as, NEW disturbed
  PROVE  Came(Answer(<<key>>, as), disturbed) =
           <<End(key, as, disturbed)>>
<1> DEFINE end  == End(key, as, disturbed)
           came == Came(Answer(<<key>>, as), disturbed)
<1>1. DOMAIN <<key>> = {1} /\ Len(<<key>>) = 1 /\ <<key>>[1] = key
  OBVIOUS
<1>2. Answer(<<key>>, as).keys = <<key>> /\ Answer(<<key>>, as).as = as
  BY DEF Answer
<1>3. DOMAIN came = {1}
  BY <1>1, <1>2 DEF Came
<1>4. came[1] = [key       |-> key,
                 as        |-> IF 1 < 1 THEN "Prefix" ELSE as,
                 disturbed |-> disturbed]
  BY <1>1, <1>2 DEF Came
<1>5. came[1] = end
  <2>1. (IF 1 < 1 THEN "Prefix" ELSE as) = as
    OBVIOUS
  <2>2. QED
    BY <1>4, <2>1, Zenon DEF End
<1>6. came = [i \in DOMAIN came |-> came[i]]
  BY DEF Came
<1> HIDE DEF came, end
<1>7. came = <<end>>
  BY <1>3, <1>5, <1>6
<1>8. QED
  BY <1>7, Zenon DEF came, end

LEMMA TwoCame ==
  ASSUME NEW first, NEW key, NEW as, NEW disturbed
  PROVE  Came(Answer(<<first, key>>, as), disturbed) =
           <<End(first, "Prefix", disturbed),
             End(key, as, disturbed)>>
<1> DEFINE one  == End(first, "Prefix", disturbed)
           two  == End(key, as, disturbed)
           came == Came(Answer(<<first, key>>, as), disturbed)
<1>1. /\ DOMAIN <<first, key>> = {1, 2} /\ Len(<<first, key>>) = 2
      /\ <<first, key>>[1] = first /\ <<first, key>>[2] = key
  OBVIOUS
<1>2. Answer(<<first, key>>, as).keys = <<first, key>> /\ Answer(<<first, key>>, as).as = as
  BY DEF Answer
<1>3. DOMAIN came = {1, 2}
  BY <1>1, <1>2 DEF Came
<1>4. /\ came[1] = [key       |-> first,
                    as        |-> IF 1 < 2 THEN "Prefix" ELSE as,
                    disturbed |-> disturbed]
      /\ came[2] = [key       |-> key,
                    as        |-> IF 2 < 2 THEN "Prefix" ELSE as,
                    disturbed |-> disturbed]
  BY <1>1, <1>2 DEF Came
<1>5. came[1] = one /\ came[2] = two
  <2>1. (IF 1 < 2 THEN "Prefix" ELSE as) = "Prefix" /\ (IF 2 < 2 THEN "Prefix" ELSE as) = as
    OBVIOUS
  <2>2. QED
    BY <1>4, <2>1, Zenon DEF End
<1>6. came = [i \in DOMAIN came |-> came[i]]
  BY DEF Came
<1> HIDE DEF came, one, two
<1>7. came = <<one, two>>
  BY <1>3, <1>5, <1>6
<1>8. QED
  BY <1>7, Zenon DEF came, one, two

LEMMA CompletedCame ==
  ASSUME NEW waiting, NEW mode, NEW key, NEW disturbed
  PROVE  LET action == ActionOf(Binding(mode, <<waiting.key, key>>))
         IN  Came(Completed(waiting, mode, key), disturbed) =
               <<End(waiting.key, "Prefix", disturbed), End(key, action, disturbed)>>
<1> DEFINE first  == waiting.key
           action == ActionOf(Binding(mode, <<first, key>>))
<1>1. Completed(waiting, mode, key) = Answer(<<first, key>>, action)
  BY Zenon DEF Completed
<1> HIDE DEF first, action
<1>2. Came(Answer(<<first, key>>, action), disturbed) =
        <<End(first, "Prefix", disturbed), End(key, action, disturbed)>>
  BY TwoCame
<1>3. QED
  BY <1>1, <1>2, Zenon DEF first, action

\* The key that waits gets its own meaning, or is forgotten for a cause.
LEMMA HeldSettled ==
  ASSUME NEW keys, NEW came, NEW waiting, Account(keys, came, waiting), waiting # None,
         NEW as, NEW disturbed \in BOOLEAN,
         as = Alone(waiting.mode, waiting.key) \/ (as = "Dropped" /\ disturbed)
  PROVE  Account(keys, came \o Came(Answer(<<waiting.key>>, as), disturbed), None)
<1> DEFINE end == End(waiting.key, as, disturbed)
           n   == Len(came) + 1
<1>1. keys \in Seq(Presses) /\ came \in Seq(Ends) /\ n = Len(keys) /\ InOrder(keys, came)
  BY DEF Account
<1>2. keys[n] = [key |-> waiting.key, alone |-> Alone(waiting.mode, waiting.key)]
  BY <1>1 DEF Account
<1>3. keys[n] \in Presses
  BY <1>1
<1>4. waiting.key \in Keys
  BY <1>2, <1>3 DEF Presses
<1>5. Alone(waiting.mode, waiting.key) \in Meanings
  BY AloneHasMeaning
<1>6. end \in Ends
  BY <1>4, <1>5 DEF End, Ends
<1>7. end.key = keys[n].key /\ (end.as = keys[n].alone \/ (end.as = "Dropped" /\ end.disturbed))
  <2>1. end.key = waiting.key /\ end.as = as /\ end.disturbed = disturbed
    BY Zenon DEF End
  <2>2. keys[n].key = waiting.key /\ keys[n].alone = Alone(waiting.mode, waiting.key)
    BY <1>2
  <2>3. QED
    BY <2>1, <2>2, Zenon
<1>8. Came(Answer(<<waiting.key>>, as), disturbed) = <<end>>
  BY OneCame, Zenon
<1> HIDE DEF end
<1>9. came \o <<end>> = Append(came, end)
  BY <1>1, <1>6
<1>10. Append(came, end) \in Seq(Ends) /\ Len(Append(came, end)) = Len(keys)
  BY <1>1, <1>6
<1>11. Len(came) < Len(keys)
  BY <1>1
<1>12. InOrder(keys, Append(came, end))
  BY <1>1, <1>6, <1>7, <1>11, EndAdded
<1>13. Len(keys) + 0 = Len(keys)
  BY <1>1
<1>14. QED
  BY <1>1, <1>8, <1>9, <1>10, <1>12, <1>13 DEF Account

\* A key is pressed and waits.
LEMMA KeyWaits ==
  ASSUME NEW keys, NEW came, Account(keys, came, None),
         NEW mode, NEW key \in Keys
  PROVE  Account(Append(keys, [key |-> key, alone |-> Alone(mode, key)]), came,
                 Waiting(mode, key))
<1> DEFINE press == [key |-> key, alone |-> Alone(mode, key)]
           more  == Append(keys, press)
<1>1. keys \in Seq(Presses) /\ came \in Seq(Ends) /\ Len(came) = Len(keys)
      /\ InOrder(keys, came)
  BY DEF Account
<1>2. press \in Presses
  BY AloneHasMeaning DEF Presses
<1>3. key # "none"
  BY DEF Keys, Bindings, Bound
<1>4. /\ Waiting(mode, key) # None
      /\ Waiting(mode, key).key = key /\ Waiting(mode, key).mode = mode
  BY <1>3 DEF Waiting, None
<1> HIDE DEF press
<1>5. /\ more \in Seq(Presses) /\ Len(more) = Len(keys) + 1 /\ more[Len(more)] = press
  BY <1>1, <1>2
<1>6. InOrder(more, came)
  <2>1. Len(came) <= Len(keys)
    BY <1>1
  <2>2. QED
    BY <1>1, <1>2, <2>1, KeyAdded
<1> HIDE DEF more
<1>7. Account(more, came, Waiting(mode, key))
  BY <1>1, <1>4, <1>5, <1>6 DEF Account, press
<1>8. QED
  BY <1>7 DEF more, press

LEMMA KeyTakesPlace ==
  ASSUME NEW keys, NEW came, Account(keys, came, None),
         NEW mode, NEW key \in Keys
  PROVE  Account(Append(keys, [key |-> key, alone |-> Alone(mode, key)]),
                 came \o Came(Answer(<<key>>, Alone(mode, key)), FALSE), None)
<1>1. key # "none"
  BY DEF Keys, Bindings, Bound
<1>2. /\ Waiting(mode, key) # None
      /\ Waiting(mode, key).key = key /\ Waiting(mode, key).mode = mode
  BY <1>1 DEF Waiting, None
<1>3. Account(Append(keys, [key |-> key, alone |-> Alone(mode, key)]), came,
              Waiting(mode, key))
  BY KeyWaits
<1>4. QED
  BY <1>2, <1>3, HeldSettled

\* A key completes the sequence of the one that waits.
LEMMA SequenceCompletes ==
  ASSUME NEW keys, NEW came, NEW waiting, Account(keys, came, waiting), waiting # None,
         NEW mode, NEW key \in Keys, Binding(mode, <<waiting.key, key>>) # {},
         NEW disturbed \in BOOLEAN
  PROVE  Account(Append(keys, [key |-> key, alone |-> Alone(mode, key)]),
                 came \o Came(Completed(waiting, mode, key), disturbed), None)
<1> DEFINE press    == [key |-> key, alone |-> Alone(mode, key)]
           more     == Append(keys, press)
           bindings == Binding(mode, <<waiting.key, key>>)
           b        == CHOOSE c \in bindings : TRUE
           first    == End(waiting.key, "Prefix", disturbed)
           second   == End(key, b.action, disturbed)
           n        == Len(came)
<1>1. keys \in Seq(Presses) /\ came \in Seq(Ends) /\ n + 1 = Len(keys)
      /\ InOrder(keys, came) /\ keys[Len(keys)].key = waiting.key
  BY DEF Account
<1>2. press \in Presses /\ press.key = key
  BY AloneHasMeaning DEF Presses
<1>3. waiting.key \in Keys
  <2>1. keys[Len(keys)] \in Presses
    BY <1>1
  <2>2. QED
    BY <1>1, <2>1 DEF Presses
<1>4. b \in Bindings /\ b.keys = <<waiting.key, key>>
  <2>1. b \in bindings
    BY Zenon
  <2>2. QED
    BY <2>1 DEF Binding
<1>5. Came(Completed(waiting, mode, key), disturbed) = <<first, second>>
  <2>1. b.action = ActionOf(Binding(mode, <<waiting.key, key>>))
    BY DEF ActionOf
  <2>2. QED
    BY <2>1, CompletedCame
<1> HIDE DEF b, bindings
<1>6. b.action \in Meanings
  BY <1>4 DEF Meanings
<1>7. first \in Ends /\ second \in Ends
  BY <1>3, <1>6 DEF End, Ends
<1>8. /\ first.key = waiting.key /\ first.as = "Prefix"
      /\ second.key = key /\ second.as = b.action
  BY Zenon DEF End
<1> HIDE DEF press, first, second
<1>9. /\ more \in Seq(Presses) /\ Len(more) = n + 2
      /\ more[n + 1].key = waiting.key /\ more[n + 2] = press
  BY <1>1, <1>2
<1>10. InOrder(more, came)
  <2>1. Len(came) <= Len(keys)
    BY <1>1
  <2>2. QED
    BY <1>1, <1>2, <2>1, KeyAdded
<1>11. came \o <<first, second>> = Append(Append(came, first), second)
       /\ Append(Append(came, first), second) \in Seq(Ends)
       /\ Len(Append(Append(came, first), second)) = n + 2
  BY <1>1, <1>7
<1> HIDE DEF more
<1>12. InOrder(more, Append(Append(came, first), second))
  <2>1. n + 2 = Len(more)
    BY <1>9
  <2>2. /\ b.keys = <<more[n + 1].key, more[n + 2].key>>
        /\ first.key = more[n + 1].key /\ second.key = more[n + 2].key
    BY <1>2, <1>4, <1>8, <1>9
  <2>3. QED
    BY <1>1, <1>4, <1>7, <1>8, <1>9, <1>10, <2>1, <2>2, SequenceAdded
<1>13. Len(came \o <<first, second>>) + 0 = Len(more)
  BY <1>1, <1>9, <1>11
<1>14. Account(more, came \o <<first, second>>, None)
  BY <1>9, <1>11, <1>12, <1>13 DEF Account
<1>15. QED
  BY <1>5, <1>14 DEF more, press

\* A key that waited in the mode of the screen and will not be completed.
LEMMA ReleaseSettles ==
  ASSUME NEW keys, NEW came, NEW waiting, Account(keys, came, waiting),
         NEW mode, waiting # None => waiting.mode = mode
  PROVE  Account(keys, came \o Came(Released(waiting, mode), FALSE), None)
<1>1. came \in Seq(Ends)
  BY DEF Account
<1>2. CASE waiting = None
  <2>1. Came(Released(waiting, mode), FALSE) = <<>>
    BY <1>2, NothingCame DEF Released, Forgotten
  <2>2. came \o <<>> = came
    BY <1>1
  <2>3. QED
    BY <1>2, <2>1, <2>2
<1>3. CASE waiting # None
  <2>1. Released(waiting, mode) = Answer(<<waiting.key>>, Alone(waiting.mode, waiting.key))
    BY <1>3 DEF Released
  <2>2. QED
    BY <1>3, <2>1, HeldSettled
<1>4. QED
  BY <1>2, <1>3

\* A key that waited and is forgotten for a cause.
LEMMA ForgettingSettles ==
  ASSUME NEW keys, NEW came, NEW waiting, Account(keys, came, waiting),
         NEW disturbed \in BOOLEAN, waiting # None => disturbed
  PROVE  Account(keys, came \o Came(Forgotten(waiting), disturbed), None)
<1>1. came \in Seq(Ends)
  BY DEF Account
<1>2. CASE waiting = None
  <2>1. Came(Forgotten(waiting), disturbed) = <<>>
    BY <1>2, NothingCame DEF Forgotten
  <2>2. came \o <<>> = came
    BY <1>1
  <2>3. QED
    BY <1>2, <2>1, <2>2
<1>3. CASE waiting # None
  <2>1. Forgotten(waiting) = Answer(<<waiting.key>>, "Dropped")
    BY <1>3 DEF Forgotten
  <2>2. QED
    BY <1>3, <2>1, HeldSettled
<1>4. QED
  BY <1>2, <1>3

LEMMA FirstKeys ==
  ASSUME NEW mode, NEW key, StartsSequence(mode, key)
  PROVE  key = "g" /\ mode \in Lists
<1>1. PICK b \in Bindings : mode \in b.modes /\ Len(b.keys) = 2 /\ b.keys[1] = key
  BY DEF StartsSequence
<1>2. b = Bound(<<"g", "g">>, Lists, "SelectFirst")
  BY <1>1 DEF Bindings, Bound
<1>3. QED
  BY <1>1, <1>2 DEF Bound

\* What g means by itself changes no overlay and moves no focus.
LEMMA ReleasedHarmlessly ==
  ASSUME NEW mode \in Lists
  PROVE  Alone(mode, "g") \in {"CycleGlyphMode", "Unbound"}
<1>1. mode \notin Texts
  BY DEF Lists, Texts
<1>2. \A b \in Binding(mode, <<"g">>) : b.action = "CycleGlyphMode"
  <2> SUFFICES ASSUME NEW b \in Bindings, b.keys = <<"g">>
               PROVE  b.action = "CycleGlyphMode"
    BY DEF Binding
  <2>1. Len(b.keys) = 1 /\ b.keys[1] = "g"
    OBVIOUS
  <2>2. QED
    BY <2>1 DEF Bindings, Bound
<1>3. Alone(mode, "g") = ActionOf(Binding(mode, <<"g">>))
  BY <1>1 DEF Alone
<1>4. QED
  BY <1>2, <1>3 DEF ActionOf

LEMMA HarmlessOutcomes ==
  ASSUME NEW s, NEW action \in {"CycleGlyphMode", "Unbound", "Dropped"}
  PROVE  Outcomes(action, s) = {s}
BY DEF Outcomes

\* To release the key that waits changes nothing on the screen.
LEMMA ReleasedLeavesScreen ==
  ASSUME OnlyFirstKeysWait, NEW mode
  PROVE  Outcomes(Released(pending, mode).as, screen) = {screen}
<1>1. Released(pending, mode).as \in {"CycleGlyphMode", "Unbound", "Dropped"}
  <2>1. CASE pending = None \/ pending.mode # mode
    BY <2>1 DEF Released, Forgotten, Nothing, Answer
  <2>2. CASE ~(pending = None \/ pending.mode # mode)
    <3>1. mode \in Lists /\ pending.key = "g"
      BY <2>2 DEF OnlyFirstKeysWait
    <3>2. Released(pending, mode).as = Alone(mode, "g")
      BY <2>2, <3>1 DEF Released, Answer
    <3>3. QED
      BY <3>1, <3>2, ReleasedHarmlessly
  <2>3. QED
    BY <2>1, <2>2
<1>2. QED
  BY <1>1, HarmlessOutcomes

LEMMA NothingLeavesScreen ==
  ASSUME NEW s
  PROVE  Outcomes(Nothing.as, s) = {s}
<1>1. Nothing.as = "Unbound"
  BY DEF Nothing, Answer
<1>2. QED
  BY <1>1, HarmlessOutcomes

LEMMA KeysInvInit == KeyInit => KeysInv
<1> SUFFICES ASSUME KeyInit PROVE KeysInv
  OBVIOUS
<1>1. pending = None /\ pressed = <<>> /\ answered = <<>>
  BY DEF KeyInit
<1>2. QED
  BY <1>1 DEF KeysInv, Account, InOrder, OnlyFirstKeysWait, PendingInMode

\* After an event no key waits, or one does in the mode of the screen.
LEMMA NoneWaits ==
  ASSUME Account(pressed', answered', None), pending' = None
  PROVE  KeysInv'
BY DEF KeysInv, OnlyFirstKeysWait, PendingInMode

LEMMA WaitsStill ==
  ASSUME Account(pressed', answered', pending'),
         pending' \in [mode : Lists, key : Keys \cap {"g"}],
         Mode(screen)' = Mode(screen), pending'.mode = Mode(screen)
  PROVE  KeysInv'
BY DEF KeysInv, OnlyFirstKeysWait, PendingInMode

LEMMA KeysAreInOrder == KeysInv => AnswersInOrder
<1> SUFFICES ASSUME KeysInv PROVE AnswersInOrder
  OBVIOUS
<1>1. Account(pressed, answered, pending)
  BY DEF KeysInv
<1>2. InTurn
  BY <1>1 DEF Account, InOrder, InTurn
<1>3. \A i \in DOMAIN answered : HasMeaning(pressed, answered, i)
  BY <1>1 DEF Account, InOrder
<1>4. QED
  BY <1>2, <1>3 DEF AnswersInOrder

LEMMA KeyPressedPreserves ==
  ASSUME KeysInv, NEW key \in Keys, KeyPressed(key)
  PROVE  KeysInv'
<1> DEFINE mode     == Mode(screen)
           resolved == Resolved(pending, age, mode, key)
           released == Released(pending, mode)
           press    == [key |-> key, alone |-> Alone(mode, key)]
           settled  == answered \o Came(released, FALSE)
<1>1. pressed' = Append(pressed, press)
  BY DEF KeyPressed, Press
<1>2. /\ pending' = resolved.pending
      /\ answered' = answered \o Came(resolved.carried, FALSE) \o Came(resolved.fresh, FALSE)
      /\ \E between \in Outcomes(resolved.carried.as, screen) :
           screen' \in Outcomes(resolved.fresh.as, between)
  BY DEF KeyPressed, Follow
<1>3. Account(pressed, answered, pending) /\ (pending # None => pending.mode = mode)
  BY DEF KeysInv, PendingInMode
<1>4. Account(pressed, settled, None)
  BY <1>3, ReleaseSettles
<1>5. answered \in Seq(Ends) /\ settled \in Seq(Ends)
  BY <1>3, <1>4 DEF Account
<1>6. Came(Nothing, FALSE) = <<>>
  BY NothingCame
<1> HIDE DEF mode
<1>7. CASE Completes(pending, age, mode, key)
  <2>1. /\ resolved.pending = None
        /\ resolved.carried = Nothing
        /\ resolved.fresh = Completed(pending, mode, key)
    BY <1>7 DEF Resolved, Resolution
  <2>2. pending # None /\ Binding(mode, <<pending.key, key>>) # {}
    BY <1>7 DEF Completes
  <2>3. answered \o <<>> = answered
    BY <1>5
  <2>4. answered' = answered \o Came(Completed(pending, mode, key), FALSE)
    BY <1>2, <1>6, <2>1, <2>3
  <2>5. Account(pressed', answered', None)
    BY <1>1, <1>3, <2>2, <2>4, SequenceCompletes
  <2>6. QED
    BY <1>2, <2>1, <2>5, NoneWaits
<1>8. CASE ~Completes(pending, age, mode, key) /\ StartsSequence(mode, key)
  <2>1. /\ resolved.pending = Waiting(mode, key)
        /\ resolved.carried = released
        /\ resolved.fresh = Nothing
    BY <1>8 DEF Resolved, Resolution
  <2>2. key = "g" /\ mode \in Lists
    BY <1>8, FirstKeys
  <2>3. screen' = screen
    BY <1>2, <2>1, ReleasedLeavesScreen, NothingLeavesScreen DEF KeysInv
  <2>4. answered' = settled
    <3>1. settled \o <<>> = settled
      BY <1>5
    <3>2. QED
      BY <1>2, <1>6, <2>1, <3>1
  <2>5. pending' = Waiting(mode, key)
    BY <1>2, <2>1
  <2>6. Account(pressed', answered', pending')
    BY <1>1, <1>4, <2>4, <2>5, KeyWaits
  <2>7. pending' \in [mode : Lists, key : Keys \cap {"g"}]
    BY <2>2, <2>5 DEF Waiting
  <2>8. Mode(screen)' = Mode(screen)
    BY <2>3 DEF Mode, Top
  <2>9. pending'.mode = Mode(screen)
    BY <2>5 DEF Waiting, mode
  <2>10. QED
    BY <2>6, <2>7, <2>8, <2>9, WaitsStill
<1>9. CASE ~Completes(pending, age, mode, key) /\ ~StartsSequence(mode, key)
  <2>1. /\ resolved.pending = None
        /\ resolved.carried = released
        /\ resolved.fresh = Answer(<<key>>, Alone(mode, key))
    BY <1>9 DEF Resolved, Resolution
  <2>2. answered' = settled \o Came(Answer(<<key>>, Alone(mode, key)), FALSE)
    BY <1>2, <2>1
  <2>3. Account(pressed', answered', None)
    BY <1>1, <1>4, <2>2, KeyTakesPlace
  <2>4. QED
    BY <1>2, <2>1, <2>3, NoneWaits
<1>10. QED
  BY <1>7, <1>8, <1>9

\* An event that is not a key leaves the key that waits, if the mode is still the same, or
\* forgets it for the change of mode.
LEMMA SettlePreserves ==
  ASSUME KeysInv, NEW after, NEW elapsed, Settle(after, elapsed)
  PROVE  KeysInv'
<1> DEFINE changed == Mode(after) # Mode(screen)
<1>1. /\ screen' = after
      /\ pending' = Settled(pending, screen, after)
      /\ answered' = IF pending' = None THEN answered \o Came(Forgotten(pending), changed)
                                        ELSE answered
      /\ pressed' = pressed
  BY DEF Settle
<1>2. Account(pressed, answered, pending)
  BY DEF KeysInv
<1>3. CASE pending' = None
  <2>1. pending # None => changed
    BY <1>1, <1>3 DEF Settled
  <2>2. Account(pressed, answered \o Came(Forgotten(pending), changed), None)
    <3>1. changed \in BOOLEAN
      OBVIOUS
    <3> HIDE DEF changed
    <3>2. QED
      BY <1>2, <2>1, <3>1, ForgettingSettles
  <2>3. Account(pressed', answered', None)
    BY <1>1, <1>3, <2>2
  <2>4. QED
    BY <1>3, <2>3, NoneWaits
<1>4. CASE pending' # None
  <2>1. pending' = pending /\ answered' = answered /\ Mode(after) = Mode(screen)
    BY <1>1, <1>4 DEF Settled
  <2>2. Mode(screen)' = Mode(screen)
    BY <1>1, <2>1 DEF Mode, Top
  <2>3. Account(pressed', answered', pending')
    BY <1>1, <1>2, <2>1
  <2>4. pending' \in [mode : Lists, key : Keys \cap {"g"}] /\ pending'.mode = Mode(screen)
    BY <1>4, <2>1 DEF KeysInv, OnlyFirstKeysWait, PendingInMode
  <2>5. QED
    BY <2>2, <2>3, <2>4, WaitsStill
<1>5. QED
  BY <1>3, <1>4

LEMMA TickedPreserves ==
  ASSUME KeysInv, NEW elapsed, Ticked(elapsed)
  PROVE  KeysInv'
<1> DEFINE mode     == Mode(screen)
           polled   == Polled(pending, elapsed, mode)
           released == Released(pending, mode)
<1>1. /\ pending' = polled.pending
      /\ answered' = answered \o Came(polled.carried, FALSE) \o Came(polled.fresh, FALSE)
      /\ \E between \in Outcomes(polled.carried.as, screen) :
           screen' \in Outcomes(polled.fresh.as, between)
      /\ pressed' = pressed
  BY DEF Ticked, Follow
<1>2. Account(pressed, answered, pending) /\ (pending # None => pending.mode = mode)
  BY DEF KeysInv, PendingInMode
<1>3. Account(pressed, answered \o Came(released, FALSE), None)
  BY <1>2, ReleaseSettles
<1>4. Came(Nothing, FALSE) = <<>>
  BY NothingCame
<1>5. /\ answered \o <<>> = answered
      /\ answered \o <<>> \o <<>> = answered
      /\ answered \o Came(released, FALSE) \o <<>> = answered \o Came(released, FALSE)
  BY <1>2, <1>3 DEF Account
<1> HIDE DEF mode
<1>6. CASE pending # None /\ pending.mode = mode /\ elapsed < Timeout
  <2>1. polled = Resolution(Nothing, Nothing, pending)
    BY <1>6 DEF Polled
  <2>2. /\ polled.pending = pending
        /\ polled.carried = Nothing /\ polled.fresh = Nothing
    BY <2>1 DEF Resolution
  <2>3. pending' = pending /\ answered' = answered
    BY <1>1, <1>4, <1>5, <2>2
  <2>4. screen' = screen
    BY <1>1, <2>2, NothingLeavesScreen
  <2>5. Mode(screen)' = Mode(screen)
    BY <2>4 DEF Mode, Top
  <2>6. Account(pressed', answered', pending')
    BY <1>1, <1>2, <2>3
  <2>7. pending' \in [mode : Lists, key : Keys \cap {"g"}] /\ pending'.mode = Mode(screen)
    BY <1>6, <2>3 DEF KeysInv, OnlyFirstKeysWait, mode
  <2>8. QED
    BY <2>5, <2>6, <2>7, WaitsStill
<1>7. CASE ~(pending # None /\ pending.mode = mode /\ elapsed < Timeout)
  <2>1. polled = Resolution(released, Nothing, None)
    BY <1>7 DEF Polled
  <2>2. /\ polled.pending = None
        /\ polled.carried = released /\ polled.fresh = Nothing
    BY <2>1 DEF Resolution
  <2>3. Account(pressed', answered', None)
    BY <1>1, <1>3, <1>4, <1>5, <2>2
  <2>4. QED
    BY <1>1, <2>2, <2>3, NoneWaits
<1>8. QED
  BY <1>6, <1>7

LEMMA ReloadedPreserves ==
  ASSUME KeysInv, Reloaded
  PROVE  KeysInv'
<1>1. /\ pending' = None /\ pressed' = pressed
      /\ answered' = answered \o Came(Forgotten(pending), TRUE)
  BY DEF Reloaded
<1>2. Account(pressed, answered \o Came(Forgotten(pending), TRUE), None)
  BY ForgettingSettles DEF KeysInv
<1>3. Account(pressed', answered', None)
  BY <1>1, <1>2
<1>4. QED
  BY <1>1, <1>3, NoneWaits

LEMMA KeysInvPreserved == KeysInv /\ [KeyNext]_keyVars => KeysInv'
<1> SUFFICES ASSUME KeysInv, [KeyNext]_keyVars PROVE KeysInv'
  OBVIOUS
<1>1. CASE \E key \in Keys : KeyPressed(key)
  BY <1>1, KeyPressedPreserves
<1>2. CASE SnapshotArrived
  BY <1>2, SettlePreserves DEF SnapshotArrived
<1>3. CASE DetailArrived
  BY <1>3, SettlePreserves DEF DetailArrived
<1>4. CASE Resized
  BY <1>4, SettlePreserves DEF Resized
<1>5. CASE Tick
  BY <1>5, TickedPreserves DEF Tick
<1>6. CASE Reloaded
  BY <1>6, ReloadedPreserves
<1>7. CASE UNCHANGED keyVars
  BY <1>7 DEF KeysInv, OnlyFirstKeysWait, PendingInMode, keyVars, Mode, Top
<1>8. QED
  BY <1>1, <1>2, <1>3, <1>4, <1>5, <1>6, <1>7 DEF KeyNext

\* Every key pressed gets the meaning it has, alone or in a sequence, in its turn
\* (keymap.rs resolve, poll_timeout and reset); one that waits may only be forgotten when
\* something that is no key changed the mode, or a new key map was loaded.
THEOREM KeysKeepOrder == KeySpec => []AnswersInOrder
<1>1. KeysInv => AnswersInOrder
  BY KeysAreInOrder
<1>2. QED
  BY <1>1, KeysInvInit, KeysInvPreserved, PTL DEF KeySpec

\* The key that waits was pressed in the mode of the screen as it is (reducer.rs apply): it
\* is never completed against the table of another.
THEOREM KeysWaitInMode == KeySpec => []PendingInMode
<1>1. KeysInv => PendingInMode
  BY DEF KeysInv
<1>2. QED
  BY <1>1, KeysInvInit, KeysInvPreserved, PTL DEF KeySpec

-----------------------------------------------------------------------------
(* Its log *)

\* What a line in hand looks like.
LineInHand == \A w \in Writers : left[w] <= length[w] /\ (left[w] > 0 => length[w] \in LineLengths)

\* Only a program that runs has a line in hand or a rotation under way.
IdleIsIdle == \A w \in Writers : handle[w] = NoFile => left[w] = 0 /\ ~moved[w]

LogInv == LogTypeOK /\ LineInHand /\ IdleIsIdle /\ LinesStayWhole

\* What a file may hold is shared out: every program may write as much as the cap, or as the
\* longest line, before it looks at what the file holds.
Bytes     == LineLengths \cup {MaxBytes}
Most      == CHOOSE b \in Bytes : \A c \in Bytes : c <= b
Allowance == Writers \X (1..Most)

\* What of it was used for a file: not what a program that writes the file has not counted
\* yet, and nothing of one that will open the live file anew.
Spent(f) ==
  {c \in Allowance : /\ handle[c[1]] = f => c[2] <= written[c[1]]
                     /\ moved[c[1]] => live # f}

WithinAllowance == \A f \in Files : size[f] <= Cardinality(Spent(f))

\* The file that a program renamed is not the live one.
MovedAway == \A w \in Writers : moved[w] => handle[w] # NoFile /\ handle[w] # live

\* What nothing refers to is empty.
EmptyWhenFree == \A f \in Free : size[f] = 0

SharedInv == LogInv /\ MovedAway /\ EmptyWhenFree /\ WithinAllowance
-----------------------------------------------------------------------------

\* Every action gives a file bytes that are not negative, and leaves a line what it was.
LEMMA LogPreserves == LogInv /\ [LogNext]_logVars => LogInv'
<1> USE DebugLogAssumption DEF DebugLogAssumption
<1> SUFFICES ASSUME LogInv, [LogNext]_logVars PROVE LogInv'
  OBVIOUS
<1>0. CASE UNCHANGED logVars
  BY <1>0 DEF LogInv, LogTypeOK, LineInHand, IdleIsIdle, LinesStayWhole, MustRotate,
    logVars, names, line
<1>1. ASSUME NEW w \in Writers, OpenLog(w) PROVE LogInv'
  <2>1. LogTypeOK'
    BY <1>1 DEF LogInv, LogTypeOK, OpenLog, OpenAppend, Keep, Free, line
  <2>2. LineInHand' /\ LinesStayWhole'
    BY <1>1 DEF LogInv, LogTypeOK, LineInHand, IdleIsIdle, LinesStayWhole, MustRotate,
      OpenLog, line
  <2>3. IdleIsIdle'
    BY <1>1 DEF LogInv, LogTypeOK, IdleIsIdle, OpenLog, OpenAppend, line
  <2> QED BY <2>1, <2>2, <2>3 DEF LogInv
<1>2. ASSUME NEW w \in Writers, Stop(w) PROVE LogInv'
  <2>1. LogTypeOK'
    BY <1>2 DEF LogInv, LogTypeOK, Stop, EndLine, Keep, names
  <2>2. LineInHand' /\ LinesStayWhole' /\ IdleIsIdle'
    BY <1>2 DEF LogInv, LogTypeOK, LineInHand, IdleIsIdle, LinesStayWhole, MustRotate,
      Stop, EndLine
  <2> QED BY <2>1, <2>2 DEF LogInv
<1>3. ASSUME NEW w \in Writers, TakeLine(w) PROVE LogInv'
  BY <1>3 DEF LogInv, LogTypeOK, LineInHand, IdleIsIdle, LinesStayWhole, MustRotate,
    TakeLine, names
<1>4. ASSUME NEW w \in Writers, Rename(w) PROVE LogInv'
  BY <1>4 DEF LogInv, LogTypeOK, LineInHand, IdleIsIdle, LinesStayWhole, MustRotate,
    Rename, Writing, Keep, line
<1>5. ASSUME NEW w \in Writers, Reopen(w) PROVE LogInv'
  <2>1. LogTypeOK'
    BY <1>5 DEF LogInv, LogTypeOK, Reopen, OpenAppend, Keep, Free, line
  <2>2. LineInHand' /\ LinesStayWhole' /\ IdleIsIdle'
    BY <1>5 DEF LogInv, LogTypeOK, LineInHand, IdleIsIdle, LinesStayWhole, MustRotate,
      Reopen, OpenAppend, line
  <2> QED BY <2>1, <2>2 DEF LogInv
<1>6. ASSUME NEW w \in Writers, ReopenFails(w) PROVE LogInv'
  BY <1>6 DEF LogInv, LogTypeOK, LineInHand, IdleIsIdle, LinesStayWhole, MustRotate,
    ReopenFails, EndLine, names
<1>7. ASSUME NEW w \in Writers, Truncate(w) PROVE LogInv'
  BY <1>7 DEF LogInv, LogTypeOK, LineInHand, IdleIsIdle, LinesStayWhole, MustRotate,
    Truncate, Writing, names, line
<1>8. ASSUME NEW w \in Writers, WriteFails(w) PROVE LogInv'
  BY <1>8 DEF LogInv, LogTypeOK, LineInHand, IdleIsIdle, LinesStayWhole, MustRotate,
    WriteFails, Writing, EndLine, names
<1>9. ASSUME NEW w \in Writers, Write(w) PROVE LogInv'
  <2>1. PICK n \in 1..left[w] :
          /\ size' = [size EXCEPT ![handle[w]] = @ + n]
          /\ written' = [written EXCEPT ![w] = @ + n]
          /\ left' = [left EXCEPT ![w] = @ - n]
          /\ length' = [length EXCEPT ![w] = IF left[w] = n THEN 0 ELSE @]
    BY <1>9 DEF Write
  <2>2. UNCHANGED <<live, previous, handle, moved>> /\ ~MustRotate(w) /\ Writing(w)
    BY <1>9 DEF Write, names
  <2>3. LogTypeOK'
    BY <2>1, <2>2 DEF LogInv, LogTypeOK, Writing
  <2>4. LineInHand'
    BY <2>1, <2>2 DEF LogInv, LogTypeOK, LineInHand
  <2>5. IdleIsIdle'
    BY <2>1, <2>2 DEF LogInv, LogTypeOK, IdleIsIdle, Writing
  <2>6. LinesStayWhole'
    BY <2>1, <2>2 DEF LogInv, LogTypeOK, LineInHand, LinesStayWhole, MustRotate
  <2> QED BY <2>3, <2>4, <2>5, <2>6 DEF LogInv
<1> QED
  BY <1>0, <1>1, <1>2, <1>3, <1>4, <1>5, <1>6, <1>7, <1>8, <1>9 DEF LogNext, Work

LEMMA LogInductive == LogSpec => []LogInv
<1>1. LogInit => LogInv
  BY DebugLogAssumption DEF DebugLogAssumption, LogInit, LogInv, LogTypeOK, LineInHand, IdleIsIdle,
    LinesStayWhole
<1> QED
  BY <1>1, LogPreserves, PTL DEF LogSpec

\* However many programs log to one path, and whatever fails, a line that the cap has room
\* for is not torn apart by a rotation: BoundedLogFile::write rotates before its first byte.
THEOREM WholeLines == LogSpec => []LinesStayWhole
BY LogInductive, PTL DEF LogInv

\* Sizes and counters are natural numbers, and no file is the live one and the previous
\* generation at once.
THEOREM LogTypeSafety == LogSpec => []LogTypeOK
BY LogInductive, PTL DEF LogInv
-----------------------------------------------------------------------------

\* A finite set of natural numbers has a greatest member.
LEMMA Greatest ==
  ASSUME NEW S, S \subseteq Nat, IsFiniteSet(S), S # {}
  PROVE  \E b \in S : \A c \in S : c <= b
<1> DEFINE Unbounded(A) == A # {} /\ ~\E b \in A : \A c \in A : c <= b
           Bad == {A \in FiniteSubsetsOf(S) : Unbounded(A)}
<1>1. SUFFICES ASSUME Bad # {} PROVE FALSE
  <2>1. S \in FiniteSubsetsOf(S)
    BY FS_FiniteSubsetsOfFinite
  <2> QED BY <1>1, <2>1
<1>2. PICK A \in Bad : \A B \in Bad : ~(<<B, A>> \in StrictSubsetOrdering(S))
  <2>1. IsWellFoundedOn(StrictSubsetOrdering(S), FiniteSubsetsOf(S))
    BY FS_StrictSubsetOrderingWellFounded
  <2>2. Bad \subseteq FiniteSubsetsOf(S)
    OBVIOUS
  <2> HIDE DEF Bad
  <2> QED BY <1>1, <2>1, <2>2, WFMin, Zenon
<1>3. A \in SUBSET S /\ IsFiniteSet(A) /\ A # {} /\ ~\E b \in A : \A c \in A : c <= b
  BY DEF FiniteSubsetsOf
<1>4. PICK x \in A : TRUE
  BY <1>3
<1> DEFINE B == A \ {x}
<1>5. CASE B = {}
  BY <1>3, <1>4, <1>5
<1>6. CASE B # {}
  <2>1. B \in FiniteSubsetsOf(S) /\ <<B, A>> \in StrictSubsetOrdering(S)
    <3>1. IsFiniteSet(B) /\ B \in SUBSET S /\ B \subseteq A /\ B # A
      BY <1>3, <1>4, FS_Subset
    <3> QED BY <1>3, <3>1 DEF FiniteSubsetsOf, StrictSubsetOrdering
  <2>2. ~Unbounded(B)
    BY <1>2, <2>1
  <2>3. PICK b \in B : \A c \in B : c <= b
    BY <1>6, <2>2
  <2>4. \A c \in A : c \in Nat
    BY <1>3
  <2>5. CASE x <= b
    BY <1>3, <2>3, <2>5
  <2>6. CASE ~(x <= b)
    <3>1. \A c \in A : c <= x
      BY <1>4, <2>3, <2>4, <2>6
    <3> QED BY <1>3, <1>4, <3>1
  <2> QED BY <2>5, <2>6
<1> QED BY <1>5, <1>6

\* What the programs may write to a file together is finite.
LEMMA MostIsGreatest ==
  /\ Most \in Bytes /\ Most \in Nat /\ \A c \in Bytes : c <= Most
  /\ IsFiniteSet(Allowance) /\ Cardinality(Allowance) = Cardinality(Writers) * Most
<1>1. /\ Bytes \subseteq Nat /\ IsFiniteSet(Bytes) /\ Bytes # {} /\ IsFiniteSet(Writers)
  <2>1. LineLengths \subseteq Nat /\ IsFiniteSet(LineLengths) /\ MaxBytes \in Nat /\ IsFiniteSet(Writers)
    BY DebugLogAssumption DEF DebugLogAssumption
  <2> QED BY <2>1, FS_AddElement DEF Bytes
<1>2. \E b \in Bytes : \A c \in Bytes : c <= b
  BY <1>1, Greatest
<1>3. Most \in Bytes /\ \A c \in Bytes : c <= Most
  BY <1>2 DEF Most
<1>4. Most \in Nat
  BY <1>1, <1>3
<1>5. \A n \in Nat : IsFiniteSet(1..n) /\ Cardinality(1..n) = n
  <2>1. SUFFICES ASSUME NEW n \in Nat PROVE IsFiniteSet(1..n) /\ Cardinality(1..n) = n
    OBVIOUS
  <2>2. IsFiniteSet(1..n) /\ Cardinality(1..n) = IF 1 > n THEN 0 ELSE n - 1 + 1
    BY FS_Interval
  <2> QED BY <2>2
<1> HIDE DEF Most
<1>6. IsFiniteSet(1..Most) /\ Cardinality(1..Most) = Most
  BY <1>4, <1>5
<1>7. /\ IsFiniteSet(Writers \X (1..Most))
      /\ Cardinality(Writers \X (1..Most)) = Cardinality(Writers) * Cardinality(1..Most)
  BY <1>1, <1>6, FS_Product
<1> QED BY <1>3, <1>4, <1>6, <1>7 DEF Allowance

LEMMA SpentIsCounted ==
  \A S \in SUBSET Allowance :
    /\ IsFiniteSet(S) /\ Cardinality(S) \in Nat /\ Cardinality(S) <= Cardinality(Allowance)
    /\ \A T \in SUBSET S : Cardinality(T) <= Cardinality(S)
<1>1. SUFFICES ASSUME NEW S \in SUBSET Allowance
               PROVE  /\ IsFiniteSet(S) /\ Cardinality(S) \in Nat
                      /\ Cardinality(S) <= Cardinality(Allowance)
                      /\ \A T \in SUBSET S : Cardinality(T) <= Cardinality(S)
  OBVIOUS
<1>2. IsFiniteSet(Allowance)
  BY MostIsGreatest
<1>3. IsFiniteSet(S) /\ Cardinality(S) <= Cardinality(Allowance)
  BY <1>2, FS_Subset
<1>4. Cardinality(S) \in Nat /\ \A T \in SUBSET S : Cardinality(T) <= Cardinality(S)
  BY <1>3, FS_Subset, FS_CardinalityType
<1> QED BY <1>3, <1>4

\* A file that is emptied, or keeps its size while nothing that was spent on it is given back.
LEMMA NothingGivenBack ==
  ASSUME LogTypeOK, WithinAllowance,
         \A f \in Files : size'[f] = 0 \/ (size'[f] = size[f] /\ Spent(f) \subseteq Spent(f)')
  PROVE  WithinAllowance'
<1>1. ASSUME NEW f \in Files PROVE size'[f] <= Cardinality(Spent(f)')
  <2>1. Spent(f) \in SUBSET Allowance /\ Spent(f)' \in SUBSET Allowance
    BY DEF Spent, Allowance
  <2>2. Cardinality(Spent(f)) \in Nat /\ Cardinality(Spent(f)') \in Nat
    BY <2>1, SpentIsCounted
  <2>3. CASE size'[f] = 0
    BY <2>2, <2>3
  <2>4. CASE size'[f] = size[f] /\ Spent(f) \subseteq Spent(f)'
    <3>1. Cardinality(Spent(f)) <= Cardinality(Spent(f)')
      BY <2>1, <2>4, SpentIsCounted
    <3>2. size[f] <= Cardinality(Spent(f)) /\ size[f] \in Nat
      BY DEF WithinAllowance, LogTypeOK
    <3> QED BY <2>2, <2>4, <3>1, <3>2
  <2> QED BY <2>3, <2>4
<1> QED BY <1>1 DEF WithinAllowance

\* A program that opens a file starts from what the file holds.
LEMMA OpenLogSpends ==
  ASSUME SharedInv, NEW w \in Writers, OpenLog(w)
  PROVE  WithinAllowance'
<1>1. LogTypeOK /\ WithinAllowance /\ handle[w] = NoFile /\ ~moved[w] /\ EmptyWhenFree
  BY DEF SharedInv, LogInv, IdleIsIdle, OpenLog
<1>2. PICK f \in Files : /\ IF live = NoFile THEN f \in Free ELSE f = live
                         /\ live' = f /\ handle' = [handle EXCEPT ![w] = f]
  BY DEF OpenLog, OpenAppend
<1>3. /\ written' = [written EXCEPT ![w] = IF live = NoFile THEN 0 ELSE size[live]]
      /\ moved' = moved /\ \A g \in Files : size'[g] = 0 \/ size'[g] = size[g]
  BY DEF OpenLog, Keep
<1>4. NoFile \notin Files /\ handle \in [Writers -> Files \cup {NoFile}]
      /\ written \in [Writers -> Nat] /\ size \in [Files -> Nat]
  BY <1>1, DebugLogAssumption DEF DebugLogAssumption, LogTypeOK
<1>5. ASSUME NEW g \in Files, g # f PROVE Spent(g) \subseteq Spent(g)'
  BY <1>2, <1>3, <1>4, <1>5 DEF Spent, Allowance
<1>6. CASE live = NoFile
  <2>1. size'[f] = 0
    BY <1>1, <1>2, <1>3, <1>6 DEF EmptyWhenFree
  <2> QED BY <1>1, <1>3, <1>5, <2>1, NothingGivenBack
<1>7. CASE live # NoFile
  <2> DEFINE s == size[f]
  <2>1. live = f /\ written'[w] = s /\ s \in Nat /\ handle'[w] = f
    BY <1>2, <1>3, <1>4, <1>7
  <2>2. \A x \in Writers \ {w} : handle'[x] = handle[x] /\ written'[x] = written[x]
    BY <1>2, <1>3, <1>4
  <2>3. CASE s >= Most
    <3>1. Spent(f) \subseteq Spent(f)'
      <4>1. \A k \in 1..Most : k <= s
        BY <2>1, <2>3, MostIsGreatest
      <4> HIDE DEF s
      <4> QED BY <1>2, <1>3, <2>1, <2>2, <4>1 DEF Spent, Allowance
    <3> QED BY <1>1, <1>3, <1>5, <3>1, NothingGivenBack
  <2>4. CASE ~(s >= Most)
    <3> DEFINE Own == {w} \X (1..s)
    <3>1. Own \subseteq Spent(f)'
      <4>1. \A k \in 1..s : k \in 1..Most /\ k <= s
        BY <2>1, <2>4, MostIsGreatest
      <4> HIDE DEF s
      <4> QED BY <1>1, <1>3, <2>1, <4>1 DEF Spent, Allowance
    <3>2. Cardinality(Own) = s
      <4>1. IsFiniteSet({w}) /\ Cardinality({w}) = 1
        BY FS_Singleton
      <4>2. IsFiniteSet(1..s) /\ Cardinality(1..s) = IF 1 > s THEN 0 ELSE s - 1 + 1
        BY <2>1, FS_Interval
      <4>3. Cardinality(Own) = Cardinality({w}) * Cardinality(1..s)
        BY <4>1, <4>2, FS_Product
      <4> HIDE DEF s, Own
      <4>4. Cardinality(1..s) = s
        BY <2>1, <4>2
      <4> QED BY <2>1, <4>1, <4>3, <4>4
    <3>3. Spent(f)' \in SUBSET Allowance
      BY DEF Spent, Allowance
    <3>4. s <= Cardinality(Spent(f)') /\ Cardinality(Spent(f)') \in Nat
      <4> HIDE DEF Own
      <4> QED BY <3>1, <3>2, <3>3, SpentIsCounted
    <3>5. ASSUME NEW g \in Files PROVE size'[g] <= Cardinality(Spent(g)')
      <4>1. CASE g = f
        BY <1>3, <2>1, <3>4, <4>1
      <4>2. CASE g # f
        <5>1. Spent(g) \subseteq Spent(g)' /\ Spent(g)' \in SUBSET Allowance
          BY <1>5, <4>2 DEF Spent, Allowance
        <5>2. /\ Cardinality(Spent(g)) <= Cardinality(Spent(g)')
              /\ Cardinality(Spent(g)) \in Nat /\ Cardinality(Spent(g)') \in Nat
          BY <5>1, SpentIsCounted
        <5>3. size[g] <= Cardinality(Spent(g)) /\ size[g] \in Nat
          BY <1>1, <1>4 DEF WithinAllowance
        <5> QED BY <1>3, <5>2, <5>3
      <4> QED BY <4>1, <4>2
    <3> QED BY <3>5 DEF WithinAllowance
  <2> QED BY <2>3, <2>4
<1> QED BY <1>6, <1>7

\* A program that writes spends its own.
LEMMA WriteSpends ==
  ASSUME SharedInv, NEW w \in Writers, Write(w)
  PROVE  WithinAllowance'
<1>1. LogTypeOK /\ WithinAllowance /\ LineInHand
  BY DEF SharedInv, LogInv
<1>f. PICK f \in Files : f = handle[w]
  BY <1>1 DEF Write, Writing, LogTypeOK
<1>m. PICK m \in Nat : m = written[w]
  BY <1>1 DEF LogTypeOK
<1>2. /\ f = handle[w] /\ m = written[w] /\ f \in Files /\ m \in Nat /\ left[w] \in Nat /\ left[w] > 0 /\ ~moved[w] /\ ~MustRotate(w)
      /\ size \in [Files -> Nat] /\ written \in [Writers -> Nat] /\ UNCHANGED <<live, handle, moved>>
  BY <1>1, <1>f, <1>m DEF Write, Writing, LogTypeOK, names
<1>3. PICK n \in 1..left[w] : /\ size' = [size EXCEPT ![f] = @ + n]
                              /\ written' = [written EXCEPT ![w] = @ + n]
  BY <1>f DEF Write
<1>4. n \in Nat /\ n > 0 /\ n <= left[w]
  BY <1>2
<1>5. m + n <= Most
  <2>1. left[w] <= length[w] /\ length[w] \in LineLengths
    BY <1>1, <1>2 DEF LineInHand
  <2>2. length[w] \in Nat /\ length[w] <= Most /\ MaxBytes \in Nat /\ MaxBytes <= Most /\ Most \in Nat
    BY <2>1, MostIsGreatest, DebugLogAssumption DEF DebugLogAssumption, Bytes
  <2>3. m = 0 \/ m + left[w] <= MaxBytes
    BY <1>2, <2>2 DEF MustRotate
  <2> QED BY <1>2, <1>4, <2>1, <2>2, <2>3
<1>6. /\ size'[f] = size[f] + n /\ written'[w] = m + n /\ size[f] \in Nat
      /\ \A g \in Files \ {f} : size'[g] = size[g]
      /\ \A x \in Writers \ {w} : written'[x] = written[x]
  BY <1>2, <1>3
<1> DEFINE Own == {w} \X (m + 1..m + n)
<1>7. Spent(f) \cup Own \subseteq Spent(f)' /\ Spent(f) \cap Own = {}
  <2>1. \A k \in m + 1..m + n : k \in 1..Most /\ k <= m + n /\ ~(k <= m)
    BY <1>2, <1>4, <1>5, MostIsGreatest
  <2>2. \A k \in 1..Most : k <= m => k <= m + n
    BY <1>2, <1>4, MostIsGreatest
  <2>3. Own \subseteq Spent(f)'
    BY <1>2, <1>6, <2>1 DEF Spent, Allowance
  <2>4. ASSUME NEW c \in Spent(f) PROVE c \in Spent(f)'
    <3>1. c \in Allowance /\ c[1] \in Writers /\ c[2] \in 1..Most
      BY DEF Spent, Allowance
    <3>2. CASE c[1] = w
      <4>1. handle[c[1]] = f => c[2] <= written[c[1]]
        BY DEF Spent
      <4>2. c[2] <= written'[c[1]]
        BY <1>2, <1>6, <2>2, <3>1, <3>2, <4>1
      <4>3. ~moved'[c[1]]
        BY <1>2, <3>2
      <4>4. c \in Allowance' /\ (handle'[c[1]] = f => c[2] <= written'[c[1]])
        BY <3>1, <4>2 DEF Allowance
      <4> QED BY <4>3, <4>4 DEF Spent
    <3>3. CASE c[1] # w
      <4>1. written'[c[1]] = written[c[1]]
        BY <1>6, <3>1, <3>3
      <4> QED BY <1>2, <3>1, <4>1 DEF Spent, Allowance
    <3> QED BY <3>2, <3>3
  <2>5. Spent(f) \cap Own = {}
    BY <1>2, <2>1 DEF Spent, Allowance
  <2> QED BY <2>3, <2>4, <2>5
<1>8. IsFiniteSet(Own) /\ Cardinality(Own) = n
  <2>1. IsFiniteSet({w}) /\ Cardinality({w}) = 1
    BY FS_Singleton
  <2>2. IsFiniteSet(m + 1..m + n) /\ Cardinality(m + 1..m + n) = n
    <3>1. m + 1 \in Int /\ m + n \in Int
      BY <1>2, <1>4
    <3>2. /\ IsFiniteSet(m + 1..m + n)
          /\ Cardinality(m + 1..m + n) = IF m + 1 > m + n THEN 0 ELSE (m + n) - (m + 1) + 1
      BY <3>1, FS_Interval
    <3> QED BY <1>2, <1>4, <3>2
  <2>3. IsFiniteSet(Own) /\ Cardinality(Own) = Cardinality({w}) * Cardinality(m + 1..m + n)
    BY <2>1, <2>2, FS_Product
  <2> HIDE DEF Own
  <2> QED BY <1>4, <2>1, <2>2, <2>3
<1> HIDE DEF Own
<1>9. ASSUME NEW g \in Files PROVE size'[g] <= Cardinality(Spent(g)')
  <2>1. Spent(g) \in SUBSET Allowance /\ Spent(g)' \in SUBSET Allowance
    BY DEF Spent, Allowance
  <2>2. IsFiniteSet(Spent(g)) /\ Cardinality(Spent(g)) \in Nat /\ Cardinality(Spent(g)') \in Nat
    BY <2>1, SpentIsCounted
  <2>3. size[g] <= Cardinality(Spent(g)) /\ size[g] \in Nat
    BY <1>1, <1>2 DEF WithinAllowance
  <2>4. CASE g = f
    <3>1. Cardinality(Spent(g) \cup Own) = Cardinality(Spent(g)) + n
      <4>1. /\ Cardinality(Spent(g) \cup Own)
                 = Cardinality(Spent(g)) + Cardinality(Own) - Cardinality(Spent(g) \cap Own)
        BY <1>8, <2>2, FS_Union
      <4>2. Spent(g) \cap Own = {} /\ Cardinality({}) = 0
        BY <1>7, <2>4, FS_EmptySet
      <4> QED BY <1>4, <1>8, <2>2, <4>1, <4>2
    <3>2. Cardinality(Spent(g) \cup Own) <= Cardinality(Spent(g)')
      <4>1. Spent(g) \cup Own \in SUBSET (Spent(g)')
        BY <1>7, <2>4
      <4> QED BY <2>1, <4>1, SpentIsCounted
    <3>3. size'[g] = size[g] + n
      BY <1>6, <2>4
    <3> QED BY <1>4, <2>2, <2>3, <3>1, <3>2, <3>3
  <2>5. CASE g # f
    <3>1. Spent(g) \subseteq Spent(g)'
      BY <1>2, <1>6, <2>5 DEF Spent, Allowance
    <3>2. Cardinality(Spent(g)) <= Cardinality(Spent(g)')
      BY <2>1, <3>1, SpentIsCounted
    <3>3. size'[g] = size[g]
      BY <1>6, <2>5
    <3> QED BY <2>2, <2>3, <3>2, <3>3
  <2> QED BY <2>4, <2>5
<1> QED BY <1>9 DEF WithinAllowance

\* No step lets the programs spend more than their allowances.
LEMMA SharedPreserves ==
  ASSUME SharedInv, LogInv', [LogNext]_logVars
  PROVE  SharedInv'
<1>t. /\ LogTypeOK /\ WithinAllowance /\ MovedAway /\ EmptyWhenFree
      /\ \A w \in Writers : handle[w] = NoFile => ~moved[w]
  BY DEF SharedInv, LogInv, IdleIsIdle
<1>f. /\ handle \in [Writers -> Files \cup {NoFile}] /\ written \in [Writers -> Nat]
      /\ moved \in [Writers -> BOOLEAN] /\ size \in [Files -> Nat]
      /\ live \in Files \cup {NoFile} /\ NoFile \notin Files
  BY <1>t, DebugLogAssumption DEF DebugLogAssumption, LogTypeOK
<1>g. SUFFICES MovedAway' /\ EmptyWhenFree' /\ WithinAllowance'
  BY DEF SharedInv
<1>k. ASSUME Keep(size)
      PROVE  EmptyWhenFree' /\ \A f \in Files : size'[f] = 0 \/ size'[f] = size[f]
  BY <1>k DEF Keep, EmptyWhenFree, Free
<1>s. ASSUME UNCHANGED <<live, previous, handle>>, \A f \in Files : size'[f] = 0 \/ size'[f] = size[f]
      PROVE  EmptyWhenFree'
  BY <1>t, <1>s DEF EmptyWhenFree, Free, Held
<1>0. CASE UNCHANGED logVars
  BY <1>0, <1>t DEF logVars, names, line, MovedAway, EmptyWhenFree, Free, Held, WithinAllowance, Spent
<1>1. ASSUME NEW w \in Writers, OpenLog(w) PROVE MovedAway' /\ EmptyWhenFree' /\ WithinAllowance'
  <2>1. PICK f \in Files : /\ IF live = NoFile THEN f \in Free ELSE f = live
                           /\ live' = f /\ handle' = [handle EXCEPT ![w] = f]
    BY <1>1 DEF OpenLog, OpenAppend
  <2>2. moved' = moved /\ ~moved[w] /\ Keep(size)
    BY <1>1, <1>t DEF OpenLog
  <2>3. \A x \in Writers : handle[x] # f \/ live = f
    BY <2>1 DEF Free, Held
  <2>4. MovedAway'
    BY <1>f, <1>t, <2>1, <2>2, <2>3 DEF MovedAway
  <2> QED BY <1>1, <1>k, <2>2, <2>4, OpenLogSpends
<1>2. ASSUME NEW w \in Writers, Stop(w) PROVE MovedAway' /\ EmptyWhenFree' /\ WithinAllowance'
  <2>1. /\ handle' = [handle EXCEPT ![w] = NoFile] /\ written' = [written EXCEPT ![w] = 0]
        /\ moved' = [moved EXCEPT ![w] = FALSE] /\ live' = live /\ Keep(size)
    BY <1>2 DEF Stop, names
  <2>2. MovedAway'
    BY <1>f, <1>t, <2>1 DEF MovedAway
  <2>3. \A f \in Files : Spent(f) \subseteq Spent(f)'
    BY <1>f, <2>1 DEF Spent, Allowance
  <2>4. WithinAllowance'
    BY <1>k, <1>t, <2>1, <2>3, NothingGivenBack
  <2> QED BY <1>k, <2>1, <2>2, <2>4
<1>3. ASSUME NEW w \in Writers, TakeLine(w) PROVE MovedAway' /\ EmptyWhenFree' /\ WithinAllowance'
  BY <1>3, <1>t DEF TakeLine, names, MovedAway, EmptyWhenFree, Free, Held, WithinAllowance, Spent
<1>4. ASSUME NEW w \in Writers, Rename(w) PROVE MovedAway' /\ EmptyWhenFree' /\ WithinAllowance'
  <2>1. /\ live' = NoFile /\ moved' = [moved EXCEPT ![w] = TRUE] /\ handle[w] # NoFile
        /\ UNCHANGED <<handle, written>> /\ Keep(size)
    BY <1>4 DEF Rename, Writing
  <2>2. MovedAway'
    BY <1>f, <1>t, <2>1 DEF MovedAway
  <2>3. \A f \in Files : Spent(f) \subseteq Spent(f)'
    BY <1>f, <2>1 DEF Spent, Allowance
  <2>4. WithinAllowance'
    BY <1>k, <1>t, <2>1, <2>3, NothingGivenBack
  <2> QED BY <1>k, <2>1, <2>2, <2>4
<1>5. ASSUME NEW w \in Writers, Reopen(w) PROVE MovedAway' /\ EmptyWhenFree' /\ WithinAllowance'
  <2>1. PICK f \in Files : /\ IF live = NoFile THEN f \in Free ELSE f = live
                           /\ live' = f /\ handle' = [handle EXCEPT ![w] = f]
    BY <1>5 DEF Reopen, OpenAppend
  <2>2. /\ written' = [written EXCEPT ![w] = 0] /\ moved' = [moved EXCEPT ![w] = FALSE]
        /\ moved[w] /\ Keep(size)
    BY <1>5 DEF Reopen
  <2>3. \A x \in Writers : handle[x] # f \/ live = f
    BY <2>1 DEF Free, Held
  <2>4. MovedAway'
    BY <1>f, <1>t, <2>1, <2>2, <2>3 DEF MovedAway
  <2>5. ASSUME NEW g \in Files, g # f PROVE Spent(g) \subseteq Spent(g)'
    BY <1>f, <2>1, <2>2, <2>5 DEF Spent, Allowance
  <2>6. size'[f] = 0 \/ (size'[f] = size[f] /\ Spent(f) \subseteq Spent(f)')
    <3>1. CASE live = NoFile
      BY <1>k, <1>t, <2>1, <2>2, <3>1 DEF EmptyWhenFree
    <3>2. CASE live # NoFile
      <4>1. Spent(f) \subseteq Spent(f)'
        BY <1>f, <2>1, <2>2, <3>2 DEF Spent, Allowance
      <4> QED BY <1>k, <2>2, <4>1
    <3> QED BY <3>1, <3>2
  <2>7. WithinAllowance'
    BY <1>k, <1>t, <2>2, <2>5, <2>6, NothingGivenBack
  <2> QED BY <1>k, <2>2, <2>4, <2>7
<1>6. ASSUME NEW w \in Writers, ReopenFails(w) PROVE MovedAway' /\ EmptyWhenFree' /\ WithinAllowance'
  <2>1. /\ moved' = [moved EXCEPT ![w] = FALSE]
        /\ UNCHANGED <<live, previous, size, handle, written>>
    BY <1>6 DEF ReopenFails, names
  <2>2. MovedAway'
    BY <1>f, <1>t, <2>1 DEF MovedAway
  <2>3. \A f \in Files : Spent(f) \subseteq Spent(f)'
    BY <1>f, <2>1 DEF Spent, Allowance
  <2>4. WithinAllowance'
    BY <1>t, <2>1, <2>3, NothingGivenBack
  <2> QED BY <1>s, <2>1, <2>2, <2>4
<1>7. ASSUME NEW w \in Writers, Truncate(w) PROVE MovedAway' /\ EmptyWhenFree' /\ WithinAllowance'
  <2>1. /\ size' = [size EXCEPT ![handle[w]] = 0] /\ written' = [written EXCEPT ![w] = 0]
        /\ UNCHANGED <<live, previous, handle, moved>>
    BY <1>7 DEF Truncate, names
  <2>2. MovedAway'
    BY <1>t, <2>1 DEF MovedAway
  <2>3. \A f \in Files : size'[f] = 0 \/ (size'[f] = size[f] /\ f # handle[w])
    BY <1>f, <2>1
  <2>4. ASSUME NEW f \in Files, f # handle[w] PROVE Spent(f) \subseteq Spent(f)'
    BY <1>f, <2>1, <2>4 DEF Spent, Allowance
  <2>5. WithinAllowance'
    BY <1>t, <2>3, <2>4, NothingGivenBack
  <2> QED BY <1>s, <2>1, <2>2, <2>3, <2>5
<1>8. ASSUME NEW w \in Writers, WriteFails(w) PROVE MovedAway' /\ EmptyWhenFree' /\ WithinAllowance'
  BY <1>8, <1>t DEF WriteFails, names, MovedAway, EmptyWhenFree, Free, Held, WithinAllowance, Spent
<1>9. ASSUME NEW w \in Writers, Write(w) PROVE MovedAway' /\ EmptyWhenFree' /\ WithinAllowance'
  <2>1. UNCHANGED <<live, previous, handle, moved>> /\ handle[w] # NoFile
    BY <1>9 DEF Write, names, Writing
  <2>2. PICK n \in 1..left[w] : size' = [size EXCEPT ![handle[w]] = @ + n]
    BY <1>9 DEF Write
  <2>3. \A f \in Files : f \in Free => size'[f] = size[f]
    BY <1>f, <2>2 DEF Free, Held
  <2>4. MovedAway' /\ EmptyWhenFree'
    BY <1>t, <2>1, <2>3 DEF MovedAway, EmptyWhenFree, Free, Held
  <2> QED BY <1>9, <2>4, WriteSpends
<1> QED
  BY <1>0, <1>1, <1>2, <1>3, <1>4, <1>5, <1>6, <1>7, <1>8, <1>9 DEF LogNext, Work

\* However many programs log to one path, whichever renames and opens fail and however often
\* programs start again, no file grows past what its programs may each add to it.
THEOREM FilesStayBounded == LogSpec => []FilesBounded
<1>1. LogInit => SharedInv
  <2> SUFFICES ASSUME LogInit PROVE SharedInv
    OBVIOUS
  <2>2. LogInv
    BY DebugLogAssumption DEF DebugLogAssumption, LogInit, LogInv, LogTypeOK, LineInHand, IdleIsIdle,
      LinesStayWhole
  <2>3. MovedAway /\ EmptyWhenFree
    BY DEF LogInit, MovedAway, EmptyWhenFree, Free
  <2>4. ASSUME NEW f \in Files PROVE size[f] <= Cardinality(Spent(f))
    <3>1. Spent(f) \in SUBSET Allowance
      BY DEF Spent, Allowance
    <3>2. Cardinality(Spent(f)) \in Nat
      BY <3>1, SpentIsCounted
    <3>3. size[f] = 0
      BY DEF LogInit
    <3> QED BY <3>2, <3>3
  <2> QED BY <2>2, <2>3, <2>4 DEF SharedInv, WithinAllowance
<1>2. SharedInv /\ [LogNext]_logVars => SharedInv'
  <2>1. SharedInv => LogInv
    BY DEF SharedInv
  <2> QED BY <2>1, LogPreserves, SharedPreserves
<1>3. SharedInv => FilesBounded
  <2>1. SUFFICES ASSUME SharedInv, NEW f \in Files PROVE size[f] <= Cardinality(Writers) * Most
    BY <2>1, MostIsGreatest DEF FilesBounded, Bytes
  <2>2. size[f] <= Cardinality(Spent(f)) /\ size[f] \in Nat
    BY <2>1 DEF SharedInv, WithinAllowance, LogInv, LogTypeOK
  <2>3. Spent(f) \in SUBSET Allowance
    BY DEF Spent, Allowance
  <2>4. Cardinality(Spent(f)) \in Nat /\ Cardinality(Spent(f)) <= Cardinality(Allowance)
    BY <2>3, SpentIsCounted
  <2>5. Allowance \in SUBSET Allowance
    OBVIOUS
  <2>6. Cardinality(Allowance) \in Nat
    BY <2>5, SpentIsCounted
  <2>7. size[f] <= Cardinality(Allowance)
    BY <2>2, <2>4, <2>6
  <2> QED BY <2>7, MostIsGreatest
<1> QED
  BY <1>1, <1>2, <1>3, PTL DEF LogSpec
=============================================================================
