-------------------------- MODULE ProcessControlProofs --------------------------
(***************************************************************************)
(* The chain from the cursor over the dialog to the system call: what is   *)
(* shown, selected, followed and asked about stays a process of the sample *)
(* it comes from, and an action reaches the process it was confirmed for,  *)
(* for any number of PIDs, of processes that use them and of requests.     *)
(***************************************************************************)
EXTENDS ProcessControl, SequenceTheorems, FiniteSetTheorems, TLAPS

Overlays == Details \cup Actions
Cursors  == [identity : Identities \cup {None}, row : Nat \ {0}, chosen : BOOLEAN]
Seen     == {None} \cup Samples

OneOfAKind(stack) ==
  \A i, j \in 1..Len(stack) : stack[i].kind = stack[j].kind => i = j

\* What push and remove keep of a stack: one overlay of a kind, and a dialog on top.
Tidy(stack) ==
  /\ stack \in Seq(Overlays)
  /\ OneOfAKind(stack)
  /\ \A i \in 1..Len(stack) : stack[i].kind = "Action" => i = Len(stack)

OnRow(cursor, order) ==
  /\ cursor.identity = None <=> order = <<>>
  /\ cursor.identity # None =>
       cursor.row <= Len(order) /\ order[cursor.row] = cursor.identity

-----------------------------------------------------------------------------
(* The invariant, by the part of the state it is about *)

\* A PID that belongs to a process belongs to one that was started.
EnvironmentHolds ==
  /\ births \in 0..MaxBirths
  /\ system \in [Pids -> [key : 0..births, signalable : BOOLEAN]]
  /\ \A pid \in Pids : system[pid] = Absent \/ system[pid].key >= 1

\* What the executor has read of a process still holds, or its PID changed hands since.
CheckedIsRead ==
  checked # None =>
    /\ checked.read <= births
    /\ \/ system[checked.identity.pid] = Absent
       \/ system[checked.identity.pid].key = checked.identity.key
       \/ system[checked.identity.pid].key > checked.read

ExecutorHolds ==
  /\ effect \in {None} \cup [identity : Identities, request : Requests]
  /\ checked \in {None} \cup [identity : Identities, request : Requests, read : Nat]
  /\ CheckedIsRead
  /\ ActsOnConfirmed

MailHolds ==
  /\ sampled \in Seen
  /\ asked \in Seq(Identities) /\ Len(asked) <= DetailCapacity
  /\ answer \in {None} \cup [identity : Identities, loaded : BOOLEAN]

TableHolds ==
  /\ latest \in Seen /\ displayed \in Seen /\ live \in BOOLEAN
  /\ live => displayed = latest
  /\ rows \in Seq(Identities) /\ ToSet(rows) \subseteq IdentitiesOf(displayed)
  /\ selection \in Cursors /\ OnRow(selection, rows)

ScopeHolds ==
  /\ followed \in Identities \cup {None}
  /\ FollowedIsAlive

StackHolds ==
  /\ Tidy(overlays)
  /\ \A action \in Overlay(overlays, "Action") :
       live /\ action.identity \in IdentitiesOf(latest)

DetailHolds ==
  /\ detail \in Identities \cup {None} /\ detailRequest \in Identities \cup {None}
  /\ RequestHasOverlay

PinsHold == pins \subseteq Identities /\ IsFiniteSet(pins) /\ Cardinality(pins) <= MaxPins

IInv ==
  /\ EnvironmentHolds
  /\ ExecutorHolds
  /\ MailHolds
  /\ TableHolds
  /\ ScopeHolds
  /\ StackHolds
  /\ DetailHolds
  /\ PinsHold

\* A part that a step leaves alone still holds.
LEMMA Frames ==
  /\ EnvironmentHolds /\ UNCHANGED environment => EnvironmentHolds'
  /\ ExecutorHolds /\ UNCHANGED <<environment, executor>> => ExecutorHolds'
  /\ MailHolds /\ UNCHANGED messages => MailHolds'
  /\ TableHolds /\ UNCHANGED <<samples, table>> => TableHolds'
  /\ ScopeHolds /\ UNCHANGED <<samples, followed>> => ScopeHolds'
  /\ StackHolds /\ UNCHANGED <<samples, overlays>> => StackHolds'
  /\ DetailHolds /\ UNCHANGED <<overlays, details>> => DetailHolds'
  /\ PinsHold /\ UNCHANGED pins => PinsHold'
<1>1. EnvironmentHolds /\ UNCHANGED environment => EnvironmentHolds'
  BY DEF EnvironmentHolds, environment
<1>2. ExecutorHolds /\ UNCHANGED <<environment, executor>> => ExecutorHolds'
  BY DEF ExecutorHolds, CheckedIsRead, ActsOnConfirmed, environment, executor
<1>3. MailHolds /\ UNCHANGED messages => MailHolds'
  BY DEF MailHolds, messages
<1>4. TableHolds /\ UNCHANGED <<samples, table>> => TableHolds'
  BY DEF TableHolds, OnRow, IdentitiesOf, samples, table
<1>5. ScopeHolds /\ UNCHANGED <<samples, followed>> => ScopeHolds'
  BY DEF ScopeHolds, FollowedIsAlive, IdentitiesOf, samples
<1>6. StackHolds /\ UNCHANGED <<samples, overlays>> => StackHolds'
  <2> SUFFICES ASSUME StackHolds, overlays' = overlays, live' = live, latest' = latest
               PROVE  StackHolds'
    BY DEF samples
  <2>1. Tidy(overlays)'
    BY DEF StackHolds, Tidy, OneOfAKind
  <2>2. Overlay(overlays, "Action")' = Overlay(overlays, "Action")
    BY DEF Overlay, ToSet
  <2>3. IdentitiesOf(latest)' = IdentitiesOf(latest)
    BY DEF IdentitiesOf
  <2> QED BY <2>1, <2>2, <2>3 DEF StackHolds
<1>7. DetailHolds /\ UNCHANGED <<overlays, details>> => DetailHolds'
  BY DEF DetailHolds, RequestHasOverlay, Overlay, ToSet, details
<1>8. PinsHold /\ UNCHANGED pins => PinsHold'
  BY DEF PinsHold
<1> QED BY <1>1, <1>2, <1>3, <1>4, <1>5, <1>6, <1>7, <1>8

-----------------------------------------------------------------------------
(* The table and its cursor *)

LEMMA FinitelyMany == IsFiniteSet(Identities)
<1> DEFINE pairs == Pids \X (1..MaxBirths)
           name  == [pair \in pairs |-> [pid |-> pair[1], key |-> pair[2]]]
<1>1. IsFiniteSet(pairs)
  <2>1. IsFiniteSet(1..MaxBirths)
    BY ProcessControlAssumption, FS_Interval
  <2> QED BY <2>1, ProcessControlAssumption, FS_Product
<1>2. name \in [pairs -> Identities]
  BY DEF Identities
<1>3. \A identity \in Identities : \E pair \in pairs : name[pair] = identity
  <2> TAKE identity \in Identities
  <2>1. <<identity.pid, identity.key>> \in pairs
    BY DEF Identities
  <2>2. name[<<identity.pid, identity.key>>] = identity
    BY <2>1 DEF Identities
  <2> QED BY <2>1, <2>2
<1>4. name \in Surjection(pairs, Identities)
  BY <1>2, <1>3 DEF Surjection
<1> QED BY <1>1, <1>4, FS_Surjection

LEMMA SeenIdentities ==
  ASSUME NEW sample \in Seen
  PROVE  IdentitiesOf(sample) \subseteq Identities
BY DEF Seen, Samples, IdentitiesOf

\* The rows of a sample are a list of its processes.
LEMMA RowsAreSeen ==
  ASSUME NEW sample \in Seen, NEW root, NEW order \in RowsOf(sample, root)
  PROVE  order \in Seq(Identities) /\ ToSet(order) \subseteq IdentitiesOf(sample)
<1>1. CASE order = <<>>
  BY <1>1 DEF ToSet
<1>2. CASE order # <<>>
  <2>1. order \in SetToAllKPermutations(IdentitiesOf(sample))
    BY <1>2 DEF RowsOf
  <2>2. PICK part \in SUBSET IdentitiesOf(sample) : order \in SetToSeqs(part)
    BY <2>1 DEF SetToAllKPermutations
  <2>3. order \in [1..Cardinality(part) -> part]
    BY <2>2 DEF SetToSeqs
  <2>4. part \subseteq Identities
    BY SeenIdentities
  <2>5. Cardinality(part) \in Nat
    BY <2>4, FinitelyMany, FS_Subset, FS_CardinalityType
  <2>6. order \in Seq(part)
    BY <2>3, <2>5, SeqDef
  <2>7. order \in Seq(Identities)
    BY <2>4, <2>6, SeqMonotonic
  <2>8. ToSet(order) \subseteq part
    BY <2>3 DEF ToSet
  <2> QED BY <2>7, <2>8
<1> QED BY <1>1, <1>2

LEMMA PlacedOnRow ==
  ASSUME NEW cursor \in Cursors, NEW order \in Seq(Identities), NEW row \in 1..Len(order)
  PROVE  LET after == [cursor EXCEPT !.row = row, !.identity = order[row]]
         IN  /\ after \in Cursors /\ OnRow(after, order)
             /\ after.identity = order[row] /\ after.chosen = cursor.chosen
<1>1. order[row] \in Identities /\ order[row] # None /\ order # <<>> /\ row \in Nat \ {0}
  BY ProcessControlAssumption
<1> DEFINE after == [cursor EXCEPT !.row = row, !.identity = order[row]]
<1>2. /\ after.row = row /\ after.identity = order[row] /\ after.chosen = cursor.chosen
      /\ after \in Cursors
  BY <1>1 DEF Cursors
<1> HIDE DEF after
<1>3. OnRow(after, order)
  BY <1>1, <1>2 DEF OnRow
<1> QED BY <1>2, <1>3 DEF after

\* resync puts the cursor on a row that exists, and on the chosen process if it is there.
LEMMA ResyncedOnRow ==
  ASSUME NEW cursor \in Cursors, NEW order \in Seq(Identities)
  PROVE  /\ Resynced(cursor, order) \in Cursors
         /\ OnRow(Resynced(cursor, order), order)
         /\ cursor.chosen /\ cursor.identity # None /\ Contains(order, cursor.identity) =>
              Resynced(cursor, order).identity = cursor.identity
<1> DEFINE at(row) == [cursor EXCEPT !.row = row, !.identity = order[row]]
<1>1. CASE order = <<>>
  <2>1. Resynced(cursor, order) = [cursor EXCEPT !.identity = None]
    BY <1>1 DEF Resynced
  <2>2. ~Contains(order, cursor.identity)
    BY <1>1 DEF Contains
  <2> QED BY <1>1, <2>1, <2>2 DEF Cursors, OnRow
<1>2. CASE order # <<>>
  <2>1. Len(order) \in Nat \ {0}
    BY <1>2
  <2>2. \A row \in 1..Len(order) :
          /\ at(row) \in Cursors /\ OnRow(at(row), order) /\ at(row).identity = order[row]
    BY PlacedOnRow
  <2>3. CASE ~cursor.chosen
    <3>1. Resynced(cursor, order) = at(1)
      BY <1>2, <2>3 DEF Resynced
    <3> HIDE DEF at
    <3> QED BY <2>1, <2>2, <2>3, <3>1
  <2>4. CASE cursor.chosen /\ cursor.identity # None /\ Contains(order, cursor.identity)
    <3>1. Resynced(cursor, order) = at(RowOf(cursor.identity, order))
      BY <1>2, <2>4 DEF Resynced
    <3>2. /\ RowOf(cursor.identity, order) \in 1..Len(order)
          /\ order[RowOf(cursor.identity, order)] = cursor.identity
      BY <2>4 DEF Contains, RowOf
    <3> HIDE DEF at
    <3> QED BY <2>2, <3>1, <3>2
  <2>5. CASE cursor.chosen /\ ~(cursor.identity # None /\ Contains(order, cursor.identity))
    <3>1. Resynced(cursor, order) = at(Lesser(cursor.row, Len(order)))
      BY <1>2, <2>5 DEF Resynced
    <3>2. cursor.row \in Nat \ {0}
      BY DEF Cursors
    <3>3. Lesser(cursor.row, Len(order)) \in 1..Len(order)
      BY <2>1, <3>2 DEF Lesser
    <3> HIDE DEF at
    <3> QED BY <2>2, <2>5, <3>1, <3>3
  <2> QED BY <2>3, <2>4, <2>5
<1> QED BY <1>1, <1>2

LEMMA ResyncKeeps ==
  ASSUME NEW sample \in Seen, NEW root, NEW cursor \in Cursors, ResyncRows(sample, root, cursor)
  PROVE  /\ rows' \in Seq(Identities) /\ ToSet(rows') \subseteq IdentitiesOf(sample)
         /\ selection' \in Cursors /\ OnRow(selection', rows')
         /\ cursor.chosen /\ cursor.identity # None /\ Contains(rows', cursor.identity) =>
              selection'.identity = cursor.identity
<1>1. PICK order \in RowsOf(sample, root) : rows' = order /\ selection' = Resynced(cursor, order)
  BY DEF ResyncRows
<1>2. order \in Seq(Identities) /\ ToSet(order) \subseteq IdentitiesOf(sample)
  BY RowsAreSeen
<1> QED BY <1>1, <1>2, ResyncedOnRow

LEMMA ChosenCursor ==
  ASSUME TableHolds
  PROVE  /\ Chosen \in Cursors /\ OnRow(Chosen, rows)
         /\ Chosen.identity = selection.identity /\ Chosen.chosen
<1>1. /\ Chosen.identity = selection.identity /\ Chosen.chosen /\ Chosen.row = selection.row
      /\ Chosen \in Cursors
  BY DEF TableHolds, Chosen, Cursors
<1> QED BY <1>1 DEF TableHolds, OnRow

-----------------------------------------------------------------------------
(* The overlay stack *)

LEMMA OverlaysOf ==
  ASSUME NEW stack \in Seq(Overlays)
  PROVE  /\ Len(stack) \in Nat /\ DOMAIN stack = 1..Len(stack)
         /\ \A i \in 1..Len(stack) : stack[i] \in Overlays /\ stack[i].kind \in {"Detail", "Action"}
         /\ \A overlay : overlay \in ToSet(stack) <=> \E i \in 1..Len(stack) : stack[i] = overlay
<1>1. Len(stack) \in Nat /\ DOMAIN stack = 1..Len(stack)
  BY LenProperties
<1>2. \A i \in 1..Len(stack) : stack[i] \in Overlays
  BY ElementOfSeq
<1>3. \A overlay \in Overlays : overlay.kind \in {"Detail", "Action"}
  BY DEF Overlays, Details, Actions
<1> QED BY <1>1, <1>2, <1>3 DEF ToSet

\* A sequence without one of its elements.
LEMMA Removed ==
  ASSUME NEW S, NEW stack \in Seq(S), NEW p \in 1..Len(stack)
  PROVE  LET rest == RemoveAt(stack, p)
         IN  /\ rest \in Seq(S) /\ Len(rest) = Len(stack) - 1
             /\ \A j \in 1..(Len(stack) - 1) :
                  rest[j] = IF j < p THEN stack[j] ELSE stack[j + 1]
<1>1. Len(stack) \in Nat /\ Len(stack) >= 1 /\ p \in Nat /\ p >= 1 /\ p <= Len(stack)
  OBVIOUS
<1> DEFINE before == SubSeq(stack, 1, p - 1)
           behind == SubSeq(stack, p + 1, Len(stack))
<1>2. /\ before \in Seq(S) /\ Len(before) = p - 1
      /\ \A j \in 1..(p - 1) : before[j] = stack[j]
  <2>1. p - 1 \in Int /\ \A j \in 1..(p - 1) : j \in 1..Len(stack)
    BY <1>1
  <2>2. Len(before) = p - 1
    BY <1>1
  <2>3. \A j \in 1..(p - 1) : before[j] = stack[j]
    BY <1>1
  <2>4. before \in Seq(S)
    BY <1>1
  <2> QED BY <2>2, <2>3, <2>4
<1>3. /\ behind \in Seq(S) /\ Len(behind) = Len(stack) - p
      /\ \A j \in 1..(Len(stack) - p) : behind[j] = stack[p + j]
  <2>1. Len(behind) = Len(stack) - p
    BY <1>1
  <2>2. \A j \in 1..(Len(stack) - p) : behind[j] = stack[p + j]
    BY <1>1
  <2>3. behind \in Seq(S)
    BY <1>1
  <2> QED BY <2>1, <2>2, <2>3
<1> HIDE DEF before, behind
<1>4. /\ before \o behind \in Seq(S)
      /\ Len(before \o behind) = Len(before) + Len(behind)
      /\ \A j \in 1..(Len(before) + Len(behind)) :
           (before \o behind)[j] =
             IF j <= Len(before) THEN before[j] ELSE behind[j - Len(before)]
  BY <1>2, <1>3, ConcatProperties
<1>5. Len(before) + Len(behind) = Len(stack) - 1
  BY <1>1, <1>2, <1>3
<1>6. ASSUME NEW j \in 1..(Len(stack) - 1)
      PROVE  (before \o behind)[j] = IF j < p THEN stack[j] ELSE stack[j + 1]
  <2>1. CASE j < p
    <3>1. j \in 1..(p - 1) /\ j <= Len(before) /\ j \in 1..(Len(before) + Len(behind))
      BY <1>1, <1>2, <1>5, <2>1
    <3> QED BY <1>2, <1>4, <2>1, <3>1
  <2>2. CASE ~(j < p)
    <3>1. /\ ~(j <= Len(before)) /\ j \in 1..(Len(before) + Len(behind))
          /\ j - Len(before) \in 1..(Len(stack) - p) /\ p + (j - Len(before)) = j + 1
      BY <1>1, <1>2, <1>5, <2>2
    <3> QED BY <1>3, <1>4, <2>2, <3>1
  <2> QED BY <2>1, <2>2
<1> QED BY <1>4, <1>5, <1>6 DEF RemoveAt, before, behind

\* remove takes the overlays of that kind and no other.
LEMMA WithoutKeeps ==
  ASSUME NEW stack, Tidy(stack), NEW kind
  PROVE  /\ Tidy(Without(stack, kind))
         /\ ToSet(Without(stack, kind)) = {overlay \in ToSet(stack) : overlay.kind # kind}
<1>1. stack \in Seq(Overlays) /\ OneOfAKind(stack)
  BY DEF Tidy
<1>2. /\ Len(stack) \in Nat /\ DOMAIN stack = 1..Len(stack)
      /\ \A overlay : overlay \in ToSet(stack) <=> \E i \in 1..Len(stack) : stack[i] = overlay
  BY <1>1, OverlaysOf
<1>3. CASE Overlay(stack, kind) = {}
  BY <1>3 DEF Without, Overlay
<1>4. CASE Overlay(stack, kind) # {}
  <2> DEFINE p    == Position(stack, kind)
             rest == RemoveAt(stack, p)
  <2>1. \E i \in DOMAIN stack : stack[i].kind = kind
    BY <1>2, <1>4 DEF Overlay
  <2>2. p \in 1..Len(stack) /\ stack[p].kind = kind
    BY <1>2, <2>1 DEF Position
  <2> HIDE DEF p
  <2>3. /\ rest \in Seq(Overlays) /\ Len(rest) = Len(stack) - 1
        /\ \A j \in 1..(Len(stack) - 1) : rest[j] = IF j < p THEN stack[j] ELSE stack[j + 1]
    BY <1>1, <2>2, Removed
  <2>4. Without(stack, kind) = rest
    BY <1>4 DEF Without, p
  <2> HIDE DEF rest
  <2> DEFINE from(j) == IF j < p THEN j ELSE j + 1
  <2>5. \A j \in 1..(Len(stack) - 1) :
          from(j) \in 1..Len(stack) /\ from(j) # p /\ rest[j] = stack[from(j)]
    BY <1>2, <2>2, <2>3
  <2>6. \A i, j \in 1..(Len(stack) - 1) : from(i) = from(j) => i = j
    BY <1>2, <2>2
  <2>7. \A j \in 1..(Len(stack) - 1) : from(j) = Len(stack) => j = Len(stack) - 1
    <3> SUFFICES ASSUME NEW j \in 1..(Len(stack) - 1), from(j) = Len(stack)
                 PROVE  j = Len(stack) - 1
      OBVIOUS
    <3> HIDE DEF from
    <3>0. from(j) = IF j < p THEN j ELSE j + 1
      BY DEF from
    <3>1. CASE j < p
      BY <1>2, <2>2, <3>0, <3>1
    <3>2. CASE ~(j < p)
      <4>1. j + 1 = Len(stack) /\ j \in Nat
        BY <3>0, <3>2
      <4> QED BY <1>2, <4>1
    <3> QED BY <3>1, <3>2
  <2>8. \A i \in 1..Len(stack) : i # p => \E j \in 1..(Len(stack) - 1) : from(j) = i
    <3> SUFFICES ASSUME NEW i \in 1..Len(stack), i # p
                 PROVE  \E j \in 1..(Len(stack) - 1) : from(j) = i
      OBVIOUS
    <3>1. CASE i < p
      <4>1. i \in 1..(Len(stack) - 1) /\ from(i) = i
        BY <1>2, <2>2, <3>1
      <4> QED BY <4>1
    <3>2. CASE i > p
      <4>1. i - 1 \in 1..(Len(stack) - 1) /\ from(i - 1) = i
        BY <1>2, <2>2, <3>2
      <4> QED BY <4>1
    <3> QED BY <1>2, <2>2, <3>1, <3>2
  <2> HIDE DEF from
  <2>9. OneOfAKind(rest)
    BY <1>1, <2>3, <2>5, <2>6 DEF OneOfAKind
  <2>10. \A j \in 1..Len(rest) : rest[j].kind = "Action" => j = Len(rest)
    BY <2>3, <2>5, <2>7 DEF Tidy
  <2>11. Tidy(rest)
    BY <2>3, <2>9, <2>10 DEF Tidy
  <2>12. \A overlay : overlay \in ToSet(rest) <=> \E j \in 1..Len(rest) : rest[j] = overlay
    BY <2>3, OverlaysOf
  <2>13. \A i \in 1..Len(stack) : stack[i].kind = kind => i = p
    BY <1>1, <2>2 DEF OneOfAKind
  <2>14. ASSUME NEW overlay, overlay \in ToSet(rest)
         PROVE  overlay \in ToSet(stack) /\ overlay.kind # kind
    <3>1. PICK j \in 1..(Len(stack) - 1) : rest[j] = overlay
      BY <2>3, <2>12, <2>14
    <3> QED BY <1>2, <2>5, <2>13, <3>1
  <2>15. ASSUME NEW overlay, overlay \in ToSet(stack), overlay.kind # kind
         PROVE  overlay \in ToSet(rest)
    <3>1. PICK i \in 1..Len(stack) : stack[i] = overlay
      BY <1>2, <2>15
    <3>2. i # p
      BY <2>2, <2>15, <3>1
    <3>3. PICK j \in 1..(Len(stack) - 1) : from(j) = i
      BY <2>8, <3>2
    <3> QED BY <2>3, <2>5, <2>12, <3>1, <3>3
  <2> QED BY <2>4, <2>11, <2>14, <2>15
<1> QED BY <1>3, <1>4

\* push puts the overlay on top; a detail is never put above a dialog.
LEMMA PushKeeps ==
  ASSUME NEW stack, Tidy(stack), NEW overlay \in Overlays,
         overlay.kind = "Action" \/ Overlay(stack, "Action") = {}
  PROVE  /\ Tidy(Push(stack, overlay))
         /\ ToSet(Push(stack, overlay)) =
              {other \in ToSet(stack) : other.kind # overlay.kind} \cup {overlay}
<1> DEFINE rest  == Without(stack, overlay.kind)
           after == Append(rest, overlay)
<1>1. Tidy(rest) /\ ToSet(rest) = {other \in ToSet(stack) : other.kind # overlay.kind}
  BY WithoutKeeps
<1> HIDE DEF rest
<1>2. /\ rest \in Seq(Overlays) /\ OneOfAKind(rest)
      /\ Len(rest) \in Nat
      /\ \A other : other \in ToSet(rest) <=> \E i \in 1..Len(rest) : rest[i] = other
  BY <1>1, OverlaysOf DEF Tidy
<1>3. /\ after \in Seq(Overlays) /\ Len(after) = Len(rest) + 1
      /\ after[Len(rest) + 1] = overlay
      /\ \A i \in 1..Len(rest) : after[i] = rest[i]
  BY <1>2, AppendProperties
<1> HIDE DEF after
<1>4. \A i \in 1..Len(rest) : rest[i].kind # overlay.kind
  BY <1>1, <1>2
<1>5. \A i \in 1..Len(after) : i \in 1..Len(rest) \/ i = Len(rest) + 1
  BY <1>2, <1>3
<1>6. OneOfAKind(after)
  BY <1>2, <1>3, <1>4, <1>5 DEF OneOfAKind
<1>7. \A i \in 1..Len(after) : after[i].kind = "Action" => i = Len(after)
  <2>1. CASE overlay.kind = "Action"
    BY <1>3, <1>4, <1>5, <2>1
  <2>2. CASE Overlay(stack, "Action") = {}
    <3>1. \A i \in 1..Len(rest) : rest[i].kind # "Action"
      BY <1>1, <1>2, <2>2 DEF Overlay
    <3> QED BY <1>3, <1>5, <3>1
  <2> QED BY <2>1, <2>2
<1>8. Tidy(after)
  BY <1>3, <1>6, <1>7 DEF Tidy
<1>9. \A other : other \in ToSet(after) <=> \E i \in 1..Len(after) : after[i] = other
  BY <1>3, OverlaysOf
<1>10. \A other : other \in ToSet(after) <=> other \in ToSet(rest) \/ other = overlay
  <2>1. Len(rest) + 1 \in 1..Len(after) /\ \A i \in 1..Len(rest) : i \in 1..Len(after)
    BY <1>2, <1>3
  <2> QED BY <1>2, <1>3, <1>5, <1>9, <2>1
<1>11. ToSet(after) = {other \in ToSet(stack) : other.kind # overlay.kind} \cup {overlay}
  BY <1>1, <1>10
<1> QED BY <1>8, <1>11 DEF Push, after, rest

\* close takes the overlay on top.
LEMMA FrontKeeps ==
  ASSUME NEW stack, Tidy(stack), stack # <<>>
  PROVE  /\ Tidy(Front(stack)) /\ ToSet(Front(stack)) \subseteq ToSet(stack)
         /\ ToSet(stack) = ToSet(Front(stack)) \cup {Last(stack)}
<1>1. stack \in Seq(Overlays) /\ OneOfAKind(stack)
  BY DEF Tidy
<1>2. /\ Len(stack) \in Nat \ {0}
      /\ \A other : other \in ToSet(stack) <=> \E i \in 1..Len(stack) : stack[i] = other
  BY <1>1, OverlaysOf
<1> DEFINE front == Front(stack)
<1>3. /\ front \in Seq(Overlays) /\ Len(front) = Len(stack) - 1
      /\ \A i \in 1..(Len(stack) - 1) : front[i] = stack[i]
  <2>1. front = SubSeq(stack, 1, Len(stack) - 1)
    BY DEF Front
  <2>2. Len(stack) - 1 \in Nat
    BY <1>2
  <2>3. Len(front) = Len(stack) - 1
    <3>1. \A i \in 1..(Len(stack) - 1) : stack[i] \in Overlays
      BY <1>1, <1>2
    <3>2. Len(front) = IF 1 <= Len(stack) - 1 THEN Len(stack) - 1 - 1 + 1 ELSE 0
      BY <2>1, <2>2, <3>1, SubSeqProperties
    <3>3. \A n \in Nat \ {0} : (IF 1 <= n - 1 THEN n - 1 - 1 + 1 ELSE 0) = n - 1
      OBVIOUS
    <3> QED BY <1>2, <3>2, <3>3, Zenon
  <2>4. \A i \in 1..(Len(stack) - 1) : front[i] = stack[i]
    BY <1>1, <1>2, <2>1, <2>2
  <2>5. front \in Seq(Overlays)
    BY <1>1, <1>2, <2>1, <2>2
  <2> HIDE DEF front
  <2> QED BY <2>3, <2>4, <2>5
<1> HIDE DEF front
<1>4. /\ \A i \in 1..Len(stack) : i \in 1..(Len(stack) - 1) \/ i = Len(stack)
      /\ \A i \in 1..(Len(stack) - 1) : i \in 1..Len(stack) /\ i # Len(stack)
      /\ Len(stack) \in 1..Len(stack)
  BY <1>2
<1>5. Tidy(front)
  BY <1>1, <1>3, <1>4 DEF Tidy, OneOfAKind
<1>6. \A other : other \in ToSet(front) <=> \E i \in 1..Len(front) : front[i] = other
  BY <1>3, OverlaysOf
<1>7. \A other : other \in ToSet(stack) <=> other \in ToSet(front) \/ other = Last(stack)
  BY <1>2, <1>3, <1>4, <1>6 DEF Last
<1> QED BY <1>5, <1>7 DEF front

\* What the input mode tells of the stack.
LEMMA Modes ==
  ASSUME Tidy(overlays)
  PROVE  /\ Mode = "Normal" <=> overlays = <<>>
         /\ Mode = "Normal" => \A kind : Overlay(overlays, kind) = {}
         /\ Mode # "Normal" => Last(overlays) \in ToSet(overlays) /\ Mode = Last(overlays).kind
         /\ Mode \in {"Normal", "Detail"} => Overlay(overlays, "Action") = {}
<1>1. overlays \in Seq(Overlays)
  BY DEF Tidy
<1>2. /\ Len(overlays) \in Nat
      /\ \A i \in 1..Len(overlays) : overlays[i].kind \in {"Detail", "Action"}
      /\ \A other : other \in ToSet(overlays) <=> \E i \in 1..Len(overlays) : overlays[i] = other
  BY <1>1, OverlaysOf
<1>3. CASE overlays = <<>>
  BY <1>2, <1>3 DEF Mode, Overlay
<1>4. CASE overlays # <<>>
  <2>1. Len(overlays) \in 1..Len(overlays)
    BY <1>1, <1>2, <1>4
  <2>2. Mode = Last(overlays).kind /\ Last(overlays) \in ToSet(overlays) /\ Mode # "Normal"
    BY <1>2, <1>4, <2>1 DEF Mode, Last
  <2>3. Mode = "Detail" => \A other \in ToSet(overlays) : other.kind # "Action"
    BY <1>2, <2>1, <2>2 DEF Tidy, Last
  <2> QED BY <1>4, <2>2, <2>3 DEF Overlay
<1> QED BY <1>3, <1>4

LEMMA RevalidatedKeeps ==
  ASSUME NEW stack, Tidy(stack), NEW sample
  PROVE  LET after == Revalidated(stack, sample)
         IN  /\ Tidy(after) /\ ToSet(after) \subseteq ToSet(stack)
             /\ Overlay(after, "Detail") = Overlay(stack, "Detail")
             /\ sample # None =>
                  \A action \in Overlay(after, "Action") : action.identity \in IdentitiesOf(sample)
<1>1. CASE Revalidated(stack, sample) = stack
  <2>1. sample # None =>
          \A action \in Overlay(stack, "Action") : action.identity \in IdentitiesOf(sample)
    <3> SUFFICES ASSUME sample # None,
                        NEW action \in Overlay(stack, "Action"),
                        action.identity \notin IdentitiesOf(sample)
                 PROVE  FALSE
      OBVIOUS
    <3>1. Revalidated(stack, sample) = Without(stack, "Action")
      BY DEF Revalidated
    <3>2. action \in ToSet(stack) /\ action.kind = "Action"
      BY DEF Overlay
    <3> QED BY <1>1, <3>1, <3>2, WithoutKeeps
  <2> QED BY <1>1, <2>1
<1>2. CASE Revalidated(stack, sample) = Without(stack, "Action")
  <2>1. /\ Tidy(Without(stack, "Action"))
        /\ ToSet(Without(stack, "Action")) = {other \in ToSet(stack) : other.kind # "Action"}
    BY WithoutKeeps
  <2>2. /\ Overlay(Without(stack, "Action"), "Action") = {}
        /\ Overlay(Without(stack, "Action"), "Detail") = Overlay(stack, "Detail")
    BY <2>1 DEF Overlay
  <2> QED BY <1>2, <2>1, <2>2
<1> QED BY <1>1, <1>2 DEF Revalidated

\* Two overlays of a kind are one.
LEMMA OnlyOne ==
  ASSUME NEW stack, Tidy(stack), NEW one \in ToSet(stack), NEW other \in ToSet(stack),
         one.kind = other.kind
  PROVE  one = other
<1>1. stack \in Seq(Overlays)
  BY DEF Tidy
<1>2. PICK i \in 1..Len(stack) : stack[i] = one
  BY <1>1, OverlaysOf
<1>3. PICK j \in 1..Len(stack) : stack[j] = other
  BY <1>1, OverlaysOf
<1> QED BY <1>2, <1>3 DEF Tidy, OneOfAKind

\* Another signal in the dialog on top is no other dialog.
LEMMA RequestKeeps ==
  ASSUME NEW stack, Tidy(stack), stack # <<>>, Last(stack).kind = "Action",
         NEW request \in Requests
  PROVE  LET after == [stack EXCEPT ![Len(stack)].request = request]
         IN  /\ Tidy(after)
             /\ Overlay(after, "Detail") = Overlay(stack, "Detail")
             /\ \A action \in Overlay(after, "Action") :
                  action.identity = Last(stack).identity
<1> DEFINE after == [stack EXCEPT ![Len(stack)].request = request]
           top   == [stack[Len(stack)] EXCEPT !.request = request]
<1>1. stack \in Seq(Overlays) /\ OneOfAKind(stack)
  BY DEF Tidy
<1>2. /\ Len(stack) \in Nat /\ DOMAIN stack = 1..Len(stack) /\ Len(stack) \in 1..Len(stack)
      /\ \A i \in 1..Len(stack) : stack[i] \in Overlays
      /\ \A overlay : overlay \in ToSet(stack) <=> \E i \in 1..Len(stack) : stack[i] = overlay
  <2>1. Len(stack) \in Nat \ {0}
    BY <1>1
  <2>2. Len(stack) \in 1..Len(stack)
    BY <2>1
  <2> QED BY <1>1, <2>1, <2>2, OverlaysOf
<1>3. stack[Len(stack)] \in Actions
  <2>1. \A overlay \in Details : overlay.kind = "Detail"
    BY DEF Details
  <2> QED BY <1>2, <2>1 DEF Overlays, Last
<1>4. /\ top \in Actions /\ top.kind = "Action" /\ top.identity = stack[Len(stack)].identity
      /\ top \in Overlays
  BY <1>3 DEF Actions, Overlays
<1>5. after = [stack EXCEPT ![Len(stack)] = top]
  OBVIOUS
<1> HIDE DEF top
<1>6. after \in Seq(Overlays) /\ Len(after) = Len(stack)
  BY <1>1, <1>2, <1>4, <1>5, ExceptSeq
<1>7. /\ after[Len(stack)] = top
      /\ \A i \in 1..Len(stack) : i # Len(stack) => after[i] = stack[i]
  BY <1>1, <1>2, <1>4, <1>5
<1> HIDE DEF after
<1>8. \A i \in 1..Len(stack) : after[i].kind = stack[i].kind
  BY <1>4, <1>7 DEF Last
<1>9. Tidy(after)
  BY <1>1, <1>6, <1>8 DEF Tidy, OneOfAKind
<1>10. \A overlay : overlay \in ToSet(after) <=> \E i \in 1..Len(stack) : after[i] = overlay
  BY <1>6, OverlaysOf
<1>11. \A i \in 1..Len(stack) : stack[i].kind = "Action" => i = Len(stack)
  BY DEF Tidy
<1>12. Overlay(after, "Detail") = Overlay(stack, "Detail")
  <2>1. stack[Len(stack)].kind = "Action"
    BY DEF Last
  <2>2. \A i \in 1..Len(stack) : stack[i].kind = "Detail" => after[i] = stack[i]
    BY <1>7, <2>1
  <2>3. ASSUME NEW overlay, overlay.kind = "Detail"
        PROVE  overlay \in ToSet(after) <=> overlay \in ToSet(stack)
    BY <1>2, <1>8, <1>10, <2>2, <2>3
  <2> QED BY <2>3 DEF Overlay
<1>13. \A action \in Overlay(after, "Action") : action.identity = Last(stack).identity
  <2> SUFFICES ASSUME NEW action \in Overlay(after, "Action")
               PROVE  action.identity = Last(stack).identity
    OBVIOUS
  <2>1. action \in ToSet(after) /\ action.kind = "Action"
    BY DEF Overlay
  <2>2. PICK i \in 1..Len(stack) : after[i] = action
    BY <1>10, <2>1
  <2>3. i = Len(stack)
    BY <1>8, <1>11, <2>1, <2>2
  <2> QED BY <1>4, <1>7, <2>2, <2>3 DEF Last
<1> QED BY <1>9, <1>12, <1>13 DEF after

-----------------------------------------------------------------------------
(* The operating system and the executor *)

LEMMA SpawnKeeps ==
  ASSUME IInv, NEW pid \in Pids, Spawn(pid)
  PROVE  EnvironmentHolds' /\ ExecutorHolds'
<1>1. /\ births \in 0..MaxBirths /\ MaxBirths \in Nat /\ births < MaxBirths
      /\ births' = births + 1
      /\ system \in [Pids -> [key : 0..births, signalable : BOOLEAN]]
      /\ system' = [system EXCEPT ![pid] = [key |-> births', signalable |-> TRUE]]
  BY ProcessControlAssumption DEF IInv, EnvironmentHolds, Spawn
<1>2. births' \in 0..MaxBirths /\ births' >= 1 /\ births \in Nat /\ births' \in Nat
  BY <1>1
<1>3. /\ system'[pid] = [key |-> births', signalable |-> TRUE]
      /\ \A other \in Pids : other # pid => system'[other] = system[other]
  BY <1>1
<1>4. system' \in [Pids -> [key : 0..births', signalable : BOOLEAN]]
  <2>1. \A other \in Pids : system[other] \in [key : 0..births', signalable : BOOLEAN]
    BY <1>1, <1>2
  <2>2. [key |-> births', signalable |-> TRUE] \in [key : 0..births', signalable : BOOLEAN]
    BY <1>2
  <2> QED BY <1>1, <2>1, <2>2
<1>5. EnvironmentHolds'
  <2>1. \A other \in Pids : system'[other] = Absent \/ system'[other].key >= 1
    BY <1>2, <1>3 DEF IInv, EnvironmentHolds
  <2> QED BY <1>2, <1>4, <2>1 DEF EnvironmentHolds, Absent
<1>6. UNCHANGED executor
  BY DEF Spawn
<1>7. CheckedIsRead'
  <2> SUFFICES ASSUME checked # None
               PROVE  /\ checked.read <= births'
                      /\ \/ system'[checked.identity.pid] = Absent
                         \/ system'[checked.identity.pid].key = checked.identity.key
                         \/ system'[checked.identity.pid].key > checked.read
    BY <1>6 DEF CheckedIsRead, executor, Absent
  <2>1. /\ checked.read \in Nat /\ checked.identity.pid \in Pids
        /\ checked.read <= births
        /\ \/ system[checked.identity.pid] = Absent
           \/ system[checked.identity.pid].key = checked.identity.key
           \/ system[checked.identity.pid].key > checked.read
    BY DEF IInv, ExecutorHolds, CheckedIsRead, Identities
  <2>2. checked.read < births'
    BY <1>1, <1>2, <2>1
  <2>3. CASE checked.identity.pid = pid
    BY <1>2, <1>3, <2>1, <2>2, <2>3
  <2>4. CASE checked.identity.pid # pid
    BY <1>2, <1>3, <2>1, <2>2, <2>4
  <2> QED BY <2>3, <2>4
<1>8. ExecutorHolds'
  BY <1>6, <1>7 DEF IInv, ExecutorHolds, ActsOnConfirmed, executor
<1> QED BY <1>5, <1>8

LEMMA ExitKeeps ==
  ASSUME IInv, NEW pid \in Pids, Exit(pid)
  PROVE  EnvironmentHolds' /\ ExecutorHolds'
<1> DEFINE after == IF system[pid].signalable THEN [system[pid] EXCEPT !.signalable = FALSE]
                    ELSE Absent
<1>1. /\ births' = births /\ births \in Nat /\ system[pid] # Absent
      /\ system \in [Pids -> [key : 0..births, signalable : BOOLEAN]]
      /\ system' = [system EXCEPT ![pid] = after]
      /\ UNCHANGED executor
  BY ProcessControlAssumption DEF IInv, EnvironmentHolds, Exit
<1>2. /\ after \in [key : 0..births, signalable : BOOLEAN]
      /\ after = Absent \/ after.key = system[pid].key
  <2>1. system[pid] \in [key : 0..births, signalable : BOOLEAN]
    BY <1>1
  <2>2. Absent \in [key : 0..births, signalable : BOOLEAN]
    BY <1>1 DEF Absent
  <2>3. CASE system[pid].signalable
    BY <2>1, <2>3
  <2>4. CASE ~system[pid].signalable
    BY <2>2, <2>4
  <2> QED BY <2>3, <2>4
<1> HIDE DEF after
<1>3. system'[pid] = after /\ \A other \in Pids : other # pid => system'[other] = system[other]
  BY <1>1
<1>4. EnvironmentHolds'
  <2>1. system' \in [Pids -> [key : 0..births', signalable : BOOLEAN]]
    BY <1>1, <1>2
  <2>2. \A other \in Pids : system'[other] = Absent \/ system'[other].key >= 1
    BY <1>1, <1>2, <1>3 DEF IInv, EnvironmentHolds
  <2>3. births' \in 0..MaxBirths
    BY <1>1 DEF IInv, EnvironmentHolds
  <2> QED BY <2>1, <2>2, <2>3 DEF EnvironmentHolds, Absent
<1>5. CheckedIsRead'
  <2> SUFFICES ASSUME checked # None
               PROVE  /\ checked.read <= births
                      /\ \/ system'[checked.identity.pid] = Absent
                         \/ system'[checked.identity.pid].key = checked.identity.key
                         \/ system'[checked.identity.pid].key > checked.read
    BY <1>1 DEF CheckedIsRead, executor, Absent
  <2>1. /\ checked.identity.pid \in Pids /\ checked.read <= births
        /\ \/ system[checked.identity.pid] = Absent
           \/ system[checked.identity.pid].key = checked.identity.key
           \/ system[checked.identity.pid].key > checked.read
    BY DEF IInv, ExecutorHolds, CheckedIsRead, Identities
  <2> QED BY <1>1, <1>2, <1>3, <2>1
<1>6. ExecutorHolds'
  BY <1>1, <1>5 DEF IInv, ExecutorHolds, ActsOnConfirmed, executor
<1> QED BY <1>4, <1>6

LEMMA RecheckKeeps ==
  ASSUME IInv, Recheck
  PROVE  ExecutorHolds'
<1>1. /\ effect # None /\ effect' = None /\ acted' = None /\ UNCHANGED <<births, system>>
      /\ checked' = None \/
           /\ StillRuns(effect.identity)
           /\ checked' = [identity |-> effect.identity, request |-> effect.request,
                          read |-> births]
  BY DEF Recheck, environment
<1>2. effect \in [identity : Identities, request : Requests] /\ births \in Nat
  BY <1>1, ProcessControlAssumption DEF IInv, ExecutorHolds, EnvironmentHolds
<1>3. CASE checked' = None
  BY <1>1, <1>3 DEF ExecutorHolds, CheckedIsRead, ActsOnConfirmed
<1>4. CASE /\ StillRuns(effect.identity)
           /\ checked' = [identity |-> effect.identity, request |-> effect.request,
                          read |-> births]
  <2>1. checked' \in [identity : Identities, request : Requests, read : Nat]
    BY <1>2, <1>4
  <2>2. /\ checked'.read = births /\ births <= births
        /\ system[checked'.identity.pid].key = checked'.identity.key
    BY <1>2, <1>4 DEF StillRuns
  <2>3. CheckedIsRead'
    BY <1>1, <2>2 DEF CheckedIsRead
  <2> QED BY <1>1, <2>1, <2>3 DEF ExecutorHolds, ActsOnConfirmed
<1> QED BY <1>1, <1>3, <1>4

LEMMA ActKeeps ==
  ASSUME IInv, Act
  PROVE  ExecutorHolds'
<1>1. checked # None /\ checked' = None /\ effect' = effect
  BY DEF Act, Idle
<1>2. ActsOnConfirmed'
  <2> SUFFICES ASSUME acted' # None
               PROVE  acted'.actual = acted'.identity.key \/ acted'.actual > acted'.read
    BY DEF ActsOnConfirmed
  <2>1. /\ system[checked.identity.pid] # Absent
        /\ acted' = [identity |-> checked.identity, request |-> checked.request,
                     read |-> checked.read, actual |-> system[checked.identity.pid].key]
    BY DEF Act
  <2>2. \/ system[checked.identity.pid].key = checked.identity.key
        \/ system[checked.identity.pid].key > checked.read
    BY <1>1, <2>1 DEF IInv, ExecutorHolds, CheckedIsRead
  <2> QED BY <2>1, <2>2
<1> QED BY <1>1, <1>2 DEF IInv, ExecutorHolds, CheckedIsRead

-----------------------------------------------------------------------------
(* The mail *)

LEMMA CollectKeeps ==
  ASSUME IInv, Collect
  PROVE  MailHolds'
<1>1. \A pid \in Pids : system[pid] # Absent =>
        [identity |-> Identity(pid), signalable |-> system[pid].signalable] \in
          [identity : Identities, signalable : BOOLEAN]
  <2> SUFFICES ASSUME NEW pid \in Pids, system[pid] # Absent
               PROVE  Identity(pid) \in Identities /\ system[pid].signalable \in BOOLEAN
    OBVIOUS
  <2>1. /\ system[pid].key \in 0..births /\ system[pid].key >= 1 /\ births \in 0..MaxBirths
        /\ system[pid].signalable \in BOOLEAN
    BY DEF IInv, EnvironmentHolds
  <2>2. system[pid].key \in 1..MaxBirths
    BY <2>1, ProcessControlAssumption
  <2> QED BY <2>1, <2>2 DEF Identity, Identities
<1>2. Observed \in Seen
  BY <1>1 DEF Observed, Seen, Samples
<1> QED BY <1>2 DEF IInv, MailHolds, Collect, Seen

LEMMA ReadDetailKeeps ==
  ASSUME IInv, ReadDetail
  PROVE  MailHolds'
<1>1. asked \in Seq(Identities) /\ asked # <<>>
  BY DEF IInv, MailHolds, ReadDetail
<1>2. Last(asked) \in Identities
  BY <1>1 DEF Last
<1>3. answer' \in [identity : Identities, loaded : BOOLEAN]
  BY <1>2 DEF ReadDetail
<1>4. asked' \in Seq(Identities) /\ Len(asked') <= DetailCapacity
  BY ProcessControlAssumption DEF ReadDetail
<1>5. sampled' = sampled
  BY DEF ReadDetail
<1> QED BY <1>3, <1>4, <1>5 DEF IInv, MailHolds, Seen

LEMMA LoseAnswerKeeps ==
  ASSUME IInv, LoseAnswer
  PROVE  MailHolds'
BY DEF IInv, MailHolds, LoseAnswer, Seen

-----------------------------------------------------------------------------
(* Events *)

\* What a snapshot leaves of the rows and of the scope.
LEMMA ReleaseKeeps ==
  ASSUME ScopeHolds,
         NEW sample \in Seen, NEW shown \in Seen,
         NEW order \in Seq(Identities), ToSet(order) \subseteq IdentitiesOf(shown),
         NEW cursor \in Cursors, OnRow(cursor, order),
         ReleaseFollowed(sample, shown, order, cursor)
  PROVE  /\ rows' \in Seq(Identities) /\ ToSet(rows') \subseteq IdentitiesOf(shown)
         /\ selection' \in Cursors /\ OnRow(selection', rows')
         /\ followed' \in Identities \cup {None}
         /\ followed' # None => followed' \in IdentitiesOf(sample)
<1>1. CASE followed # None /\ followed \notin IdentitiesOf(sample)
  <2>1. followed' = None /\ ResyncRows(shown, None, cursor)
    BY <1>1 DEF ReleaseFollowed
  <2> QED BY <2>1, ResyncKeeps
<1>2. CASE ~(followed # None /\ followed \notin IdentitiesOf(sample))
  <2>1. rows' = order /\ selection' = cursor /\ followed' = followed
    BY <1>2 DEF ReleaseFollowed
  <2> QED BY <1>2, <2>1 DEF ScopeHolds
<1> QED BY <1>1, <1>2

LEMMA SnapshotKeeps ==
  ASSUME IInv, SnapshotArrived
  PROVE  MailHolds' /\ TableHolds' /\ ScopeHolds' /\ StackHolds' /\ DetailHolds'
<1>1. /\ sampled # None /\ sampled' = None /\ latest' = sampled
      /\ asked' = asked /\ answer' = answer /\ live' = live
      /\ detail' = detail /\ detailRequest' = detailRequest
      /\ overlays' = Revalidated(overlays, sampled)
  BY DEF SnapshotArrived, details
<1>2. /\ sampled \in Seen /\ ScopeHolds /\ TableHolds /\ StackHolds /\ DetailHolds
      /\ Tidy(overlays)
  BY DEF IInv, MailHolds, StackHolds
<1>3. MailHolds'
  BY <1>1 DEF IInv, MailHolds, Seen
<1>4. TableHolds' /\ ScopeHolds'
  <2>1. CASE live \/ displayed = None
    <3>1. PICK order \in RowsOf(sampled, followed) :
            /\ displayed' = sampled
            /\ ReleaseFollowed(sampled, sampled, order, Resynced(selection, order))
      BY <2>1 DEF SnapshotArrived
    <3>2. order \in Seq(Identities) /\ ToSet(order) \subseteq IdentitiesOf(sampled)
      BY <1>2, RowsAreSeen
    <3>3. selection \in Cursors
      BY <1>2 DEF TableHolds
    <3>4. Resynced(selection, order) \in Cursors /\ OnRow(Resynced(selection, order), order)
      BY <3>2, <3>3, ResyncedOnRow
    <3>5. /\ rows' \in Seq(Identities) /\ ToSet(rows') \subseteq IdentitiesOf(sampled)
          /\ selection' \in Cursors /\ OnRow(selection', rows')
          /\ followed' \in Identities \cup {None}
          /\ followed' # None => followed' \in IdentitiesOf(sampled)
      BY <1>2, <3>1, <3>2, <3>4, ReleaseKeeps
    <3>6. IdentitiesOf(displayed)' = IdentitiesOf(sampled) /\ IdentitiesOf(latest)' = IdentitiesOf(sampled)
      BY <1>1, <3>1 DEF IdentitiesOf
    <3> QED
      BY <1>1, <1>2, <3>1, <3>5, <3>6 DEF TableHolds, ScopeHolds, FollowedIsAlive, Seen
  <2>2. CASE ~(live \/ displayed = None)
    <3>1. displayed' = displayed /\ ReleaseFollowed(sampled, displayed, rows, selection)
      BY <2>2 DEF SnapshotArrived
    <3>2. /\ displayed \in Seen /\ rows \in Seq(Identities)
          /\ ToSet(rows) \subseteq IdentitiesOf(displayed)
          /\ selection \in Cursors /\ OnRow(selection, rows)
      BY <1>2 DEF TableHolds
    <3>3. /\ rows' \in Seq(Identities) /\ ToSet(rows') \subseteq IdentitiesOf(displayed)
          /\ selection' \in Cursors /\ OnRow(selection', rows')
          /\ followed' \in Identities \cup {None}
          /\ followed' # None => followed' \in IdentitiesOf(sampled)
      BY <1>2, <3>1, <3>2, ReleaseKeeps
    <3>4. IdentitiesOf(displayed)' = IdentitiesOf(displayed) /\ IdentitiesOf(latest)' = IdentitiesOf(sampled)
      BY <1>1, <3>1 DEF IdentitiesOf
    <3> QED
      BY <1>1, <1>2, <2>2, <3>1, <3>3, <3>4 DEF TableHolds, ScopeHolds, FollowedIsAlive, Seen
  <2> QED BY <2>1, <2>2
<1>5. /\ Tidy(overlays') /\ ToSet(overlays') \subseteq ToSet(overlays)
      /\ Overlay(overlays', "Detail") = Overlay(overlays, "Detail")
      /\ \A action \in Overlay(overlays', "Action") : action.identity \in IdentitiesOf(sampled)
  BY <1>1, <1>2, RevalidatedKeeps
<1>6. StackHolds'
  <2>1. \A action \in Overlay(overlays', "Action") : live'
    BY <1>1, <1>2, <1>5 DEF StackHolds, Overlay
  <2>2. IdentitiesOf(latest') = IdentitiesOf(sampled)
    BY <1>1
  <2> QED BY <1>5, <2>1, <2>2 DEF StackHolds
<1>7. DetailHolds'
  BY <1>1, <1>2, <1>5 DEF DetailHolds, RequestHasOverlay
<1> QED BY <1>3, <1>4, <1>6, <1>7

LEMMA DetailArrivedKeeps ==
  ASSUME IInv, DetailArrived
  PROVE  MailHolds' /\ StackHolds' /\ DetailHolds'
<1> DEFINE identity  == answer.identity
           forgotten == IF DetailOf(identity) \in ToSet(overlays)
                        THEN Without(overlays, "Detail") ELSE overlays
<1>1. /\ answer # None /\ answer' = None /\ sampled' = sampled /\ asked' = asked
      /\ UNCHANGED samples
      /\ detailRequest' = IF detailRequest = identity THEN None ELSE detailRequest
      /\ detail' \in {detail, identity, None}
      /\ overlays' = overlays \/ overlays' = Revalidated(forgotten, latest)
  BY DEF DetailArrived
<1>2. identity \in Identities
  BY <1>1 DEF IInv, MailHolds
<1>3. MailHolds'
  BY <1>1 DEF IInv, MailHolds, Seen
<1>4. StackHolds /\ DetailHolds /\ Tidy(overlays)
  BY DEF IInv, StackHolds
<1>5. /\ Tidy(forgotten) /\ ToSet(forgotten) \subseteq ToSet(overlays)
      /\ \A open \in Overlay(overlays, "Detail") :
           open.identity # identity => open \in Overlay(forgotten, "Detail")
  <2>1. CASE DetailOf(identity) \in ToSet(overlays)
    <3>1. DetailOf(identity).kind = "Detail" /\ DetailOf(identity).identity = identity
      BY DEF DetailOf
    <3>2. forgotten = Without(overlays, "Detail")
      BY <2>1
    <3>3. Tidy(forgotten) /\ ToSet(forgotten) \subseteq ToSet(overlays)
      BY <1>4, <3>2, WithoutKeeps
    <3>4. \A open \in Overlay(overlays, "Detail") : open = DetailOf(identity)
      BY <1>4, <2>1, <3>1, OnlyOne DEF Overlay
    <3> QED BY <3>1, <3>3, <3>4
  <2>2. CASE DetailOf(identity) \notin ToSet(overlays)
    BY <1>4, <2>2
  <2> QED BY <2>1, <2>2
<1> HIDE DEF forgotten
<1>6. /\ Tidy(overlays') /\ ToSet(overlays') \subseteq ToSet(overlays)
      /\ \A open \in Overlay(overlays, "Detail") :
           open.identity # identity => open \in Overlay(overlays', "Detail")
  <2>1. CASE overlays' = overlays
    BY <1>4, <2>1
  <2>2. CASE overlays' = Revalidated(forgotten, latest)
    <3>1. /\ Tidy(overlays') /\ ToSet(overlays') \subseteq ToSet(forgotten)
          /\ Overlay(overlays', "Detail") = Overlay(forgotten, "Detail")
      BY <1>5, <2>2, RevalidatedKeeps
    <3> QED BY <1>5, <3>1
  <2> QED BY <1>1, <2>1, <2>2
<1>7. StackHolds'
  <2>1. \A action \in Overlay(overlays', "Action") :
          live /\ action.identity \in IdentitiesOf(latest)
    BY <1>4, <1>6 DEF StackHolds, Overlay
  <2>2. live' = live /\ IdentitiesOf(latest') = IdentitiesOf(latest)
    BY <1>1 DEF samples
  <2> QED BY <1>6, <2>1, <2>2 DEF StackHolds
<1>8. DetailHolds'
  <2>1. detail' \in Identities \cup {None} /\ detailRequest' \in Identities \cup {None}
    BY <1>1, <1>2, <1>4 DEF DetailHolds
  <2>2. RequestHasOverlay'
    <3> SUFFICES ASSUME detailRequest' # None
                 PROVE  \E open \in Overlay(overlays', "Detail") : open.identity = detailRequest'
      BY DEF RequestHasOverlay
    <3>1. detailRequest' = detailRequest /\ detailRequest # None /\ detailRequest # identity
      BY <1>1
    <3>2. PICK open \in Overlay(overlays, "Detail") : open.identity = detailRequest
      BY <1>4, <3>1 DEF DetailHolds, RequestHasOverlay
    <3> QED BY <1>6, <3>1, <3>2
  <2> QED BY <2>1, <2>2 DEF DetailHolds
<1> QED BY <1>3, <1>7, <1>8

-----------------------------------------------------------------------------
(* Keys and commands: the table *)

\* Whatever rebuilds the rows keeps the table a part of what it shows.
LEMMA RebuiltTable ==
  ASSUME NEW sample \in Seen, NEW root, NEW cursor \in Cursors,
         ResyncRows(sample, root, cursor),
         latest' \in Seen, live' \in BOOLEAN, displayed' = sample,
         live' => displayed' = latest'
  PROVE  TableHolds'
<1>1. /\ rows' \in Seq(Identities) /\ ToSet(rows') \subseteq IdentitiesOf(sample)
      /\ selection' \in Cursors /\ OnRow(selection', rows')
  BY ResyncKeeps
<1>2. IdentitiesOf(displayed') = IdentitiesOf(sample)
  OBVIOUS
<1> QED BY <1>1, <1>2 DEF TableHolds, Seen

\* Choosing what is selected moves nothing.
LEMMA ChosenTable ==
  ASSUME TableHolds, selection' = Chosen, UNCHANGED <<samples, rows>>
  PROVE  TableHolds'
<1>1. latest' = latest /\ displayed' = displayed /\ live' = live /\ rows' = rows
  BY DEF samples
<1>2. selection' \in Cursors /\ OnRow(selection', rows')
  BY <1>1, ChosenCursor
<1>3. IdentitiesOf(displayed') = IdentitiesOf(displayed)
  BY <1>1
<1> QED BY <1>1, <1>2, <1>3 DEF TableHolds, Seen

LEMMA FreezeKeeps ==
  ASSUME IInv, Freeze
  PROVE  TableHolds' /\ StackHolds' /\ ScopeHolds'
<1>1. /\ live' = FALSE /\ latest' = latest /\ displayed' = displayed /\ UNCHANGED table
      /\ overlays' = overlays /\ followed' = followed /\ Mode = "Normal"
  BY DEF Freeze, Press
<1>2. IdentitiesOf(displayed') = IdentitiesOf(displayed) /\ IdentitiesOf(latest') = IdentitiesOf(latest)
  BY <1>1
<1>3. TableHolds'
  BY <1>1, <1>2 DEF IInv, TableHolds, OnRow, Seen, table
<1>4. Tidy(overlays') /\ Overlay(overlays', "Action") = {}
  BY <1>1, Modes DEF IInv, StackHolds
<1>5. ScopeHolds'
  BY <1>1, <1>2 DEF IInv, ScopeHolds, FollowedIsAlive
<1> QED BY <1>3, <1>4, <1>5 DEF StackHolds

LEMMA GoLiveKeeps ==
  ASSUME IInv, GoLive
  PROVE  TableHolds' /\ StackHolds' /\ ScopeHolds'
<1>1. /\ ~live /\ live' = TRUE /\ displayed' = latest /\ latest' = latest
      /\ ResyncRows(latest, followed, selection)
      /\ overlays' = overlays /\ followed' = followed
  BY DEF GoLive
<1>2. latest \in Seen /\ selection \in Cursors
  BY DEF IInv, TableHolds
<1>3. latest' \in Seen /\ live' \in BOOLEAN /\ (live' => displayed' = latest')
  BY <1>1, <1>2
<1>4. TableHolds'
  BY <1>1, <1>2, <1>3, RebuiltTable
<1>5. Tidy(overlays') /\ Overlay(overlays', "Action") = {}
  BY <1>1 DEF IInv, StackHolds
<1>6. ScopeHolds'
  BY <1>1 DEF IInv, ScopeHolds, FollowedIsAlive
<1> QED BY <1>4, <1>5, <1>6 DEF StackHolds

LEMMA RearrangeKeeps ==
  ASSUME IInv, Rearrange
  PROVE  TableHolds'
<1>1. /\ ResyncRows(displayed, followed, selection)
      /\ displayed' = displayed /\ latest' = latest /\ live' = live
  BY DEF Rearrange, samples
<1>2. /\ displayed \in Seen /\ selection \in Cursors
      /\ latest' \in Seen /\ live' \in BOOLEAN /\ (live' => displayed' = latest')
  BY <1>1 DEF IInv, TableHolds
<1> QED BY <1>1, <1>2, RebuiltTable

LEMMA SelectRowKeeps ==
  ASSUME IInv, NEW row \in 1..Len(rows), SelectRow(row)
  PROVE  TableHolds'
<1>1. /\ selection' = [identity |-> rows[row], row |-> row, chosen |-> TRUE]
      /\ displayed' = displayed /\ latest' = latest /\ live' = live /\ rows' = rows
  BY DEF SelectRow, samples
<1>2. rows \in Seq(Identities)
  BY DEF IInv, TableHolds
<1>3. rows[row] \in Identities /\ rows[row] # None /\ rows # <<>> /\ row \in Nat \ {0} /\ row <= Len(rows)
  BY <1>2, ProcessControlAssumption
<1>4. selection' \in Cursors
  BY <1>1, <1>3 DEF Cursors
<1>5. OnRow(selection', rows')
  BY <1>1, <1>3 DEF OnRow
<1>6. IdentitiesOf(displayed') = IdentitiesOf(displayed)
  BY <1>1
<1> QED BY <1>1, <1>4, <1>5, <1>6 DEF IInv, TableHolds, Seen

\* Following a process, by Follow or Unfollow, with the cursor of the caller.
LEMMA ScopeChange ==
  ASSUME IInv, UNCHANGED samples,
         NEW cursor \in Cursors, OnRow(cursor, rows),
         NEW identity \in Identities, Follow(identity, cursor) \/ Unfollow(cursor)
  PROVE  TableHolds' /\ ScopeHolds'
<1>1. latest' = latest /\ displayed' = displayed /\ live' = live
  BY DEF samples
<1>2. /\ displayed \in Seen
      /\ latest' \in Seen /\ live' \in BOOLEAN /\ (live' => displayed' = latest')
  BY <1>1 DEF IInv, TableHolds
<1>3. IdentitiesOf(displayed') = IdentitiesOf(displayed) /\ IdentitiesOf(latest') = IdentitiesOf(latest)
  BY <1>1
<1>4. CASE selection' = cursor /\ rows' = rows /\ followed' = followed
  <2>1. selection' \in Cursors /\ OnRow(selection', rows')
    BY <1>4
  <2> QED BY <1>1, <1>3, <1>4, <2>1 DEF IInv, TableHolds, ScopeHolds, FollowedIsAlive, Seen
<1>5. CASE /\ followed' = identity /\ ResyncRows(displayed, identity, cursor)
           /\ ~(latest # None /\ identity \notin IdentitiesOf(latest))
  <2>1. TableHolds'
    BY <1>1, <1>2, <1>5, RebuiltTable
  <2> QED BY <1>1, <1>3, <1>5, <2>1 DEF ScopeHolds, FollowedIsAlive
<1>6. CASE followed' = None /\ ResyncRows(displayed, None, cursor)
  <2>1. TableHolds'
    BY <1>1, <1>2, <1>6, RebuiltTable
  <2> QED BY <1>6, <2>1 DEF ScopeHolds, FollowedIsAlive
<1> QED BY <1>4, <1>5, <1>6 DEF Follow, Unfollow

LEMMA FollowKeeps ==
  ASSUME IInv, FollowSelected \/ FollowPid \/ StopFollowing
  PROVE  TableHolds' /\ ScopeHolds'
<1>1. /\ selection \in Cursors /\ OnRow(selection, rows)
      /\ Chosen \in Cursors /\ OnRow(Chosen, rows)
      /\ latest \in Seen
  BY ChosenCursor DEF IInv, TableHolds
<1>2. CASE FollowSelected
  <2>1. /\ selection.identity \in Identities /\ UNCHANGED samples
        /\ Follow(selection.identity, Chosen) \/ Unfollow(Chosen)
    BY <1>1, <1>2 DEF FollowSelected, Cursors
  <2> QED BY <1>1, <2>1, ScopeChange
<1>3. CASE FollowPid
  <2>1. PICK identity \in IdentitiesOf(latest) : Follow(identity, selection)
    BY <1>3 DEF FollowPid
  <2>2. identity \in Identities /\ UNCHANGED samples
    BY <1>1, <1>3, <2>1, SeenIdentities DEF FollowPid
  <2> QED BY <1>1, <2>1, <2>2, ScopeChange
<1>4. CASE StopFollowing
  <2>1. followed \in Identities /\ UNCHANGED samples /\ Unfollow(selection)
    BY <1>4 DEF StopFollowing, IInv, ScopeHolds
  <2> QED BY <1>1, <2>1, ScopeChange
<1> QED BY <1>2, <1>3, <1>4

LEMMA PinKeeps ==
  ASSUME IInv, PinSelected
  PROVE  TableHolds' /\ PinsHold'
<1>1. TableHolds'
  BY ChosenTable DEF IInv, PinSelected
<1> DEFINE identity == selection.identity
<1>2. /\ identity \in Identities
      /\ pins \subseteq Identities /\ IsFiniteSet(pins) /\ Cardinality(pins) <= MaxPins
      /\ pins' = IF identity \in pins THEN pins \ {identity}
                 ELSE IF Cardinality(pins) < MaxPins THEN pins \cup {identity} ELSE pins
  BY DEF PinSelected, IInv, PinsHold, TableHolds, Cursors
<1>3. Cardinality(pins) \in Nat /\ MaxPins \in Nat
  BY <1>2, FS_CardinalityType, ProcessControlAssumption
<1> HIDE DEF identity
<1>4. CASE pins' = pins \ {identity} /\ identity \in pins
  <2>1. IsFiniteSet(pins') /\ Cardinality(pins') = Cardinality(pins) - 1
    BY <1>2, <1>4, FS_RemoveElement
  <2> QED BY <1>1, <1>2, <1>3, <1>4, <2>1 DEF PinsHold
<1>5. CASE /\ pins' = pins \cup {identity} /\ identity \notin pins
           /\ Cardinality(pins) < MaxPins
  <2>1. IsFiniteSet(pins') /\ Cardinality(pins') = Cardinality(pins) + 1
    BY <1>2, <1>5, FS_AddElement
  <2> QED BY <1>1, <1>2, <1>3, <1>5, <2>1 DEF PinsHold
<1>6. CASE pins' = pins
  BY <1>1, <1>2, <1>6 DEF PinsHold
<1> QED BY <1>2, <1>4, <1>5, <1>6

-----------------------------------------------------------------------------
(* Keys and commands: overlays *)

LEMMA InspectKeeps ==
  ASSUME IInv, InspectSelected
  PROVE  MailHolds' /\ TableHolds' /\ StackHolds' /\ DetailHolds'
<1> DEFINE identity == selection.identity
<1>1. /\ identity # None /\ Mode = "Normal"
      /\ overlays' = Push(overlays, DetailOf(identity)) /\ detailRequest' = identity
      /\ detail' \in {detail, None} /\ asked' = Asked(identity)
      /\ selection' = Chosen /\ sampled' = sampled /\ answer' = answer
      /\ UNCHANGED <<samples, rows>>
  BY DEF InspectSelected, Press
<1>2. identity \in Identities
  BY <1>1 DEF IInv, TableHolds, Cursors
<1> HIDE DEF identity
<1>3. MailHolds'
  <2>1. asked \in Seq(Identities) /\ Len(asked) <= DetailCapacity /\ Len(asked) \in Nat
    BY DEF IInv, MailHolds
  <2>2. asked' \in Seq(Identities) /\ Len(asked') <= DetailCapacity
    <3>1. CASE Len(asked) < DetailCapacity
      <4>1. asked' = Append(asked, identity)
        BY <1>1, <3>1 DEF Asked
      <4>2. asked' \in Seq(Identities) /\ Len(asked') = Len(asked) + 1
        BY <1>2, <2>1, <4>1, AppendProperties
      <4> QED BY <2>1, <3>1, <4>2, ProcessControlAssumption
    <3>2. CASE ~(Len(asked) < DetailCapacity)
      BY <1>1, <2>1, <3>2 DEF Asked
    <3> QED BY <3>1, <3>2
  <2> QED BY <1>1, <2>2 DEF IInv, MailHolds, Seen
<1>4. TableHolds'
  BY <1>1, ChosenTable DEF IInv
<1>5. /\ Tidy(overlays) /\ Overlay(overlays, "Action") = {}
      /\ DetailOf(identity) \in Overlays /\ DetailOf(identity).kind = "Detail"
      /\ DetailOf(identity).identity = identity
  BY <1>1, <1>2, Modes DEF IInv, StackHolds, DetailOf, Overlays, Details
<1>6. /\ Tidy(overlays')
      /\ ToSet(overlays') = {other \in ToSet(overlays) : other.kind # "Detail"} \cup {DetailOf(identity)}
  BY <1>1, <1>5, PushKeeps
<1>7. /\ Overlay(overlays', "Action") = {} /\ DetailOf(identity) \in Overlay(overlays', "Detail")
  BY <1>5, <1>6 DEF Overlay
<1>8. StackHolds'
  BY <1>6, <1>7 DEF StackHolds
<1>9. DetailHolds'
  <2>1. detail' \in Identities \cup {None} /\ detailRequest' \in Identities \cup {None}
    BY <1>1, <1>2 DEF IInv, DetailHolds
  <2>2. RequestHasOverlay'
    BY <1>1, <1>5, <1>7 DEF RequestHasOverlay
  <2> QED BY <2>1, <2>2 DEF DetailHolds
<1> QED BY <1>3, <1>4, <1>8, <1>9

LEMMA ProposeKeeps ==
  ASSUME IInv, NEW request \in Requests, NEW stage \in {"choose", "confirm"},
         ProposeAction(request, stage)
  PROVE  TableHolds' /\ StackHolds' /\ DetailHolds'
<1>1. PICK process \in displayed :
        /\ process.identity = selection.identity
        /\ overlays' = IF process.signalable
                       THEN Push(overlays, ActionOn(process.identity, request, stage))
                       ELSE overlays
  BY DEF ProposeAction
<1>2. /\ live /\ displayed # None /\ selection' = Chosen /\ selection.identity # None
      /\ UNCHANGED <<samples, rows, details>>
  BY DEF ProposeAction
<1>3. TableHolds'
  BY <1>2, ChosenTable DEF IInv
<1>4. /\ StackHolds /\ DetailHolds /\ Tidy(overlays)
      /\ process.identity \in Identities /\ process.identity \in IdentitiesOf(latest)
  BY <1>1, <1>2 DEF IInv, StackHolds, TableHolds, Cursors, IdentitiesOf
<1>5. /\ Tidy(overlays')
      /\ \A action \in Overlay(overlays', "Action") :
           action \in Overlay(overlays, "Action") \/ action.identity = process.identity
      /\ Overlay(overlays', "Detail") = Overlay(overlays, "Detail")
  <2>1. CASE ~process.signalable
    BY <1>1, <1>4, <2>1
  <2>2. CASE process.signalable
    <3> DEFINE dialog == ActionOn(process.identity, request, stage)
    <3>1. /\ dialog \in Overlays /\ dialog.kind = "Action" /\ dialog.identity = process.identity
      BY <1>4 DEF ActionOn, Overlays, Actions
    <3> HIDE DEF dialog
    <3>2. overlays' = Push(overlays, dialog)
      BY <1>1, <2>2 DEF dialog
    <3>3. /\ Tidy(overlays')
          /\ ToSet(overlays') = {other \in ToSet(overlays) : other.kind # "Action"} \cup {dialog}
      BY <1>4, <3>1, <3>2, PushKeeps
    <3> QED BY <3>1, <3>3 DEF Overlay
  <2> QED BY <2>1, <2>2
<1>6. live' = live /\ IdentitiesOf(latest') = IdentitiesOf(latest)
  BY <1>2 DEF samples
<1>7. StackHolds'
  <2>1. \A action \in Overlay(overlays', "Action") :
          live' /\ action.identity \in IdentitiesOf(latest')
    BY <1>2, <1>4, <1>5, <1>6 DEF StackHolds
  <2> QED BY <1>5, <2>1 DEF StackHolds
<1>8. DetailHolds'
  BY <1>2, <1>4, <1>5 DEF DetailHolds, RequestHasOverlay, details
<1> QED BY <1>3, <1>7, <1>8

LEMMA StepChoiceKeeps ==
  ASSUME IInv, NEW signal \in {"Term", "Kill"}, StepChoice(signal)
  PROVE  StackHolds' /\ DetailHolds'
<1>1. /\ overlays' = [overlays EXCEPT ![Len(overlays)].request = signal]
      /\ Mode = "Action" /\ live' = live /\ latest' = latest /\ UNCHANGED details
  BY DEF StepChoice, Press, samples
<1>2. StackHolds /\ DetailHolds /\ Tidy(overlays) /\ signal \in Requests
  BY DEF IInv, StackHolds, Requests
<1>3. /\ overlays # <<>> /\ Last(overlays).kind = "Action"
      /\ Last(overlays) \in Overlay(overlays, "Action")
  BY <1>1, <1>2, Modes DEF Overlay
<1>4. /\ Tidy(overlays') /\ Overlay(overlays', "Detail") = Overlay(overlays, "Detail")
      /\ \A action \in Overlay(overlays', "Action") : action.identity = Last(overlays).identity
  BY <1>1, <1>2, <1>3, RequestKeeps
<1>5. IdentitiesOf(latest') = IdentitiesOf(latest)
  BY <1>1
<1>6. live /\ Last(overlays).identity \in IdentitiesOf(latest)
  BY <1>2, <1>3 DEF StackHolds
<1>7. StackHolds'
  BY <1>1, <1>4, <1>5, <1>6 DEF StackHolds
<1>8. DetailHolds'
  BY <1>1, <1>2, <1>4 DEF DetailHolds, RequestHasOverlay, details
<1> QED BY <1>7, <1>8

LEMMA ConfirmKeeps ==
  ASSUME IInv, NEW forceful \in BOOLEAN, Confirm(forceful)
  PROVE  StackHolds' /\ DetailHolds' /\ ExecutorHolds'
<1> DEFINE action == Last(overlays)
<1>1. /\ Mode = "Action" /\ live /\ live' = live /\ latest' = latest /\ UNCHANGED details
      /\ checked' = checked /\ acted' = acted /\ births' = births /\ system' = system
  BY DEF Confirm, Press, samples, environment
<1>2. StackHolds /\ DetailHolds /\ Tidy(overlays) /\ ExecutorHolds
  BY DEF IInv, StackHolds
<1>3. /\ action \in Overlay(overlays, "Action") /\ action \in Actions
  <2>1. action \in ToSet(overlays) /\ action.kind = "Action"
    BY <1>1, <1>2, Modes
  <2>2. action \in Overlays
    BY <1>2, <2>1, OverlaysOf DEF Tidy
  <2>3. \A overlay \in Details : overlay.kind = "Detail"
    BY DEF Details
  <2> QED BY <2>1, <2>2, <2>3 DEF Overlay, Overlays
<1>4. /\ action.identity \in IdentitiesOf(latest) /\ action.identity \in Identities
      /\ action.request \in Requests /\ action.kind = "Action"
  BY <1>2, <1>3 DEF StackHolds, Actions
<1>5. IdentitiesOf(latest') = IdentitiesOf(latest)
  BY <1>1
<1>6. CASE /\ overlays' = Push(overlays, [action EXCEPT !.stage = "confirm"])
           /\ UNCHANGED effect
  <2> DEFINE dialog == [action EXCEPT !.stage = "confirm"]
  <2>0. overlays' = Push(overlays, dialog)
    BY <1>6
  <2>1. dialog \in Overlays /\ dialog.kind = "Action" /\ dialog.identity = action.identity
    BY <1>3, <1>4 DEF Actions, Overlays
  <2> HIDE DEF dialog
  <2>2. /\ Tidy(overlays')
        /\ ToSet(overlays') = {other \in ToSet(overlays) : other.kind # "Action"} \cup {dialog}
    BY <1>2, <2>0, <2>1, PushKeeps
  <2>3. /\ Overlay(overlays', "Detail") = Overlay(overlays, "Detail")
        /\ Overlay(overlays', "Action") = {dialog}
    BY <2>1, <2>2 DEF Overlay
  <2>4. StackHolds'
    BY <1>1, <1>4, <1>5, <2>1, <2>2, <2>3 DEF StackHolds
  <2>5. DetailHolds'
    BY <1>1, <1>2, <2>3 DEF DetailHolds, RequestHasOverlay, details
  <2>6. ExecutorHolds'
    BY <1>1, <1>2, <1>6 DEF ExecutorHolds, CheckedIsRead, ActsOnConfirmed, Absent
  <2> QED BY <2>4, <2>5, <2>6
<1>7. CASE /\ overlays' = Without(overlays, "Action")
           /\ effect' = IF action.identity \in IdentitiesOf(latest)
                        THEN [identity |-> action.identity, request |-> action.request]
                        ELSE None
  <2>1. /\ Tidy(overlays')
        /\ ToSet(overlays') = {other \in ToSet(overlays) : other.kind # "Action"}
    BY <1>2, <1>7, WithoutKeeps
  <2>2. /\ Overlay(overlays', "Detail") = Overlay(overlays, "Detail")
        /\ Overlay(overlays', "Action") = {}
    BY <2>1 DEF Overlay
  <2>3. StackHolds'
    BY <2>1, <2>2 DEF StackHolds
  <2>4. DetailHolds'
    BY <1>1, <1>2, <2>2 DEF DetailHolds, RequestHasOverlay, details
  <2>5. effect' \in {None} \cup [identity : Identities, request : Requests]
    BY <1>4, <1>7
  <2>6. ExecutorHolds'
    BY <1>1, <1>2, <2>5 DEF ExecutorHolds, CheckedIsRead, ActsOnConfirmed, Absent
  <2> QED BY <2>3, <2>4, <2>6
<1> QED BY <1>6, <1>7 DEF Confirm

LEMMA CancelKeeps ==
  ASSUME IInv, Cancel
  PROVE  StackHolds' /\ DetailHolds'
<1>1. /\ Mode \in {"Detail", "Action"} /\ overlays' = Front(overlays)
      /\ detailRequest' = IF Mode = "Detail" THEN None ELSE detailRequest
      /\ detail' = detail /\ live' = live /\ latest' = latest
  BY DEF Cancel, Press, samples
<1>2. StackHolds /\ DetailHolds /\ Tidy(overlays)
  BY DEF IInv, StackHolds
<1>3. overlays # <<>> /\ Mode = Last(overlays).kind
  BY <1>1, <1>2, Modes
<1>4. /\ Tidy(overlays') /\ ToSet(overlays') \subseteq ToSet(overlays)
      /\ ToSet(overlays) = ToSet(overlays') \cup {Last(overlays)}
  BY <1>1, <1>2, <1>3, FrontKeeps
<1>5. StackHolds'
  <2>1. \A action \in Overlay(overlays', "Action") :
          live /\ action.identity \in IdentitiesOf(latest)
    BY <1>2, <1>4 DEF StackHolds, Overlay
  <2>2. IdentitiesOf(latest') = IdentitiesOf(latest)
    BY <1>1
  <2> QED BY <1>1, <1>4, <2>1, <2>2 DEF StackHolds
<1>6. DetailHolds'
  <2>1. CASE Mode = "Detail"
    BY <1>1, <1>2, <2>1 DEF DetailHolds, RequestHasOverlay
  <2>2. CASE Mode = "Action"
    <3>1. Overlay(overlays', "Detail") = Overlay(overlays, "Detail")
      BY <1>3, <1>4, <2>2 DEF Overlay
    <3>2. detailRequest' = detailRequest
      BY <1>1, <2>2
    <3> QED BY <1>1, <1>2, <3>1, <3>2 DEF DetailHolds, RequestHasOverlay
  <2> QED BY <1>1, <2>1, <2>2
<1> QED BY <1>5, <1>6

-----------------------------------------------------------------------------
(* The invariant *)

LEMMA Initially == Init => IInv
<1> SUFFICES ASSUME Init
             PROVE  IInv
  OBVIOUS
<1>1. EnvironmentHolds
  <2>1. births \in 0..MaxBirths
    BY ProcessControlAssumption DEF Init
  <2>2. system \in [Pids -> [key : 0..births, signalable : BOOLEAN]]
    BY DEF Init, Absent
  <2> QED BY <2>1, <2>2 DEF Init, EnvironmentHolds
<1>2. ExecutorHolds
  BY DEF Init, ExecutorHolds, CheckedIsRead, ActsOnConfirmed
<1>3. MailHolds
  BY ProcessControlAssumption DEF Init, MailHolds, Seen
<1>4. TableHolds
  <2>1. selection \in Cursors
    BY DEF Init, Cursors
  <2>2. OnRow(selection, rows)
    BY DEF Init, OnRow
  <2>3. rows \in Seq(Identities) /\ ToSet(rows) = {}
    BY DEF Init, ToSet
  <2> QED BY <2>1, <2>2, <2>3 DEF Init, TableHolds, Seen
<1>5. ScopeHolds
  BY DEF Init, ScopeHolds, FollowedIsAlive
<1>6. StackHolds
  <2>1. overlays \in Seq(Overlays) /\ Len(overlays) = 0 /\ ToSet(overlays) = {}
    BY DEF Init, ToSet
  <2> QED BY <2>1 DEF StackHolds, Tidy, OneOfAKind, Overlay
<1>7. DetailHolds
  BY DEF Init, DetailHolds, RequestHasOverlay
<1>8. PinsHold
  <2>1. IsFiniteSet(pins) /\ Cardinality(pins) = 0
    BY FS_EmptySet DEF Init
  <2> QED BY <2>1, ProcessControlAssumption DEF Init, PinsHold
<1> QED BY <1>1, <1>2, <1>3, <1>4, <1>5, <1>6, <1>7, <1>8 DEF IInv

LEMMA Inductive == IInv /\ [Next]_vars => IInv'
<1> SUFFICES ASSUME IInv, [Next]_vars
             PROVE  IInv'
  OBVIOUS
<1> DEFINE unchanged == <<environment, messages, samples, table, overlays, details, followed,
                          pins, executor>>
<1>0. /\ EnvironmentHolds /\ ExecutorHolds /\ MailHolds /\ TableHolds
      /\ ScopeHolds /\ StackHolds /\ DetailHolds /\ PinsHold
  BY DEF IInv
<1>1. ASSUME NEW pid \in Pids, Spawn(pid)
      PROVE  IInv'
  <2>1. UNCHANGED <<messages, samples, table, overlays, details, followed, pins>>
    BY <1>1 DEF Spawn
  <2> QED BY <1>0, <1>1, <2>1, SpawnKeeps, Frames DEF IInv
<1>2. ASSUME NEW pid \in Pids, Exit(pid)
      PROVE  IInv'
  <2>1. UNCHANGED <<messages, samples, table, overlays, details, followed, pins>>
    BY <1>2 DEF Exit
  <2> QED BY <1>0, <1>2, <2>1, ExitKeeps, Frames DEF IInv
<1>3. CASE Collect \/ ReadDetail \/ LoseAnswer
  <2>1. UNCHANGED <<environment, samples, table, overlays, details, followed, pins, executor>>
    BY <1>3 DEF Collect, ReadDetail, LoseAnswer
  <2> QED
    BY <1>0, <1>3, <2>1, CollectKeeps, ReadDetailKeeps, LoseAnswerKeeps, Frames DEF IInv
<1>4. CASE SnapshotArrived
  <2>1. UNCHANGED <<environment, pins, executor>>
    BY <1>4 DEF SnapshotArrived
  <2> QED BY <1>0, <1>4, <2>1, SnapshotKeeps, Frames DEF IInv
<1>5. CASE DetailArrived
  <2>1. UNCHANGED <<environment, samples, table, followed, pins, executor>>
    BY <1>5 DEF DetailArrived
  <2> QED BY <1>0, <1>5, <2>1, DetailArrivedKeeps, Frames DEF IInv
<1>6. CASE Freeze \/ GoLive
  <2>1. UNCHANGED <<environment, messages, overlays, details, pins, executor>>
    BY <1>6 DEF Freeze, GoLive
  <2> QED BY <1>0, <1>6, <2>1, FreezeKeeps, GoLiveKeeps, Frames DEF IInv
<1>7. ASSUME Rearrange \/ \E row \in 1..Len(rows) : SelectRow(row)
      PROVE  IInv'
  <2>1. UNCHANGED <<environment, messages, samples, overlays, details, followed, pins, executor>>
    BY <1>7 DEF Rearrange, SelectRow
  <2> QED BY <1>0, <1>7, <2>1, RearrangeKeeps, SelectRowKeeps, Frames DEF IInv
<1>8. CASE InspectSelected
  <2>1. UNCHANGED <<environment, samples, followed, pins, executor>>
    BY <1>8 DEF InspectSelected
  <2> QED BY <1>0, <1>8, <2>1, InspectKeeps, Frames DEF IInv
<1>9. CASE PinSelected
  <2>1. UNCHANGED <<environment, messages, samples, overlays, details, followed, executor>>
    BY <1>9 DEF PinSelected
  <2> QED BY <1>0, <1>9, <2>1, PinKeeps, Frames DEF IInv
<1>10. CASE FollowSelected \/ FollowPid \/ StopFollowing
  <2>1. UNCHANGED <<environment, messages, samples, overlays, details, pins, executor>>
    BY <1>10 DEF FollowSelected, FollowPid, StopFollowing
  <2> QED BY <1>0, <1>10, <2>1, FollowKeeps, Frames DEF IInv
<1>11. ASSUME NEW request \in Requests, NEW stage \in {"choose", "confirm"},
              ProposeAction(request, stage)
       PROVE  IInv'
  <2>1. UNCHANGED <<environment, messages, samples, followed, pins, executor>>
    BY <1>11 DEF ProposeAction
  <2> QED BY <1>0, <1>11, <2>1, ProposeKeeps, Frames DEF IInv
<1>12. ASSUME NEW signal \in {"Term", "Kill"}, StepChoice(signal)
       PROVE  IInv'
  <2>1. UNCHANGED <<environment, messages, samples, table, followed, pins, executor>>
    BY <1>12 DEF StepChoice
  <2> QED BY <1>0, <1>12, <2>1, StepChoiceKeeps, Frames DEF IInv
<1>13. ASSUME NEW forceful \in BOOLEAN, Confirm(forceful)
       PROVE  IInv'
  <2>1. UNCHANGED <<environment, messages, samples, table, followed, pins>>
    BY <1>13 DEF Confirm
  <2> QED BY <1>0, <1>13, <2>1, ConfirmKeeps, Frames DEF IInv
<1>14. CASE Cancel
  <2>1. UNCHANGED <<environment, messages, samples, table, followed, pins, executor>>
    BY <1>14 DEF Cancel
  <2> QED BY <1>0, <1>14, <2>1, CancelKeeps, Frames DEF IInv
<1>15. CASE Recheck \/ Act
  <2>1. UNCHANGED <<environment, messages, samples, table, overlays, details, followed, pins>>
    BY <1>15 DEF Recheck, Act
  <2> QED BY <1>0, <1>15, <2>1, RecheckKeeps, ActKeeps, Frames DEF IInv
<1>16. CASE UNCHANGED vars
  <2>1. UNCHANGED unchanged
    BY <1>16 DEF vars
  <2> QED BY <1>0, <2>1, Frames DEF IInv
<1>17. CASE OpenSignalDialog \/ ProposeRenice \/ \E signal \in {"Term", "Kill"} : ProposeSignal(signal)
  BY <1>11, <1>17 DEF OpenSignalDialog, ProposeRenice, ProposeSignal, Requests
<1> QED
  BY <1>1, <1>2, <1>3, <1>4, <1>5, <1>6, <1>7, <1>8, <1>9, <1>10, <1>12, <1>13, <1>14, <1>15,
     <1>16, <1>17
  DEF Next

-----------------------------------------------------------------------------
(* The theorems *)

LEMMA Invariant == Spec => []IInv
BY Initially, Inductive, PTL DEF Spec

\* Every variable holds a value of its kind.
THEOREM TypeSafety == Spec => []TypeOK
<1>1. IInv => TypeOK
  BY DEF IInv, EnvironmentHolds, ExecutorHolds, MailHolds, TableHolds, ScopeHolds, StackHolds,
         DetailHolds, PinsHold, Tidy, Cursors, Seen, Overlays, TypeOK
<1> QED BY <1>1, Invariant, PTL

\* A confirmed action reaches the process it was confirmed for, unless the PID changed hands
\* after the executor read the identity again: signals.rs, linux/signal.rs and renice.rs.
THEOREM ConfirmedIsReached == Spec => []ActsOnConfirmed
<1>1. IInv => ActsOnConfirmed
  BY DEF IInv, ExecutorHolds
<1> QED BY <1>1, Invariant, PTL

\* A dialog names a process of the newest sample, over a live view, above everything else:
\* revalidate_pending and every handler that opens, covers or closes an overlay.
THEOREM DialogsAreCurrent == Spec => []DialogIsCurrent
<1>1. IInv => DialogIsCurrent
  <2> SUFFICES ASSUME IInv, NEW i \in 1..Len(overlays), overlays[i].kind = "Action"
               PROVE  live /\ overlays[i].identity \in IdentitiesOf(latest) /\ i = Len(overlays)
    BY DEF DialogIsCurrent
  <2>1. Tidy(overlays) /\ overlays \in Seq(Overlays)
    BY DEF IInv, StackHolds, Tidy
  <2>2. overlays[i] \in Overlay(overlays, "Action")
    BY <2>1, OverlaysOf DEF Overlay
  <2> QED BY <2>1, <2>2 DEF IInv, StackHolds, Tidy
<1> QED BY <1>1, Invariant, PTL

\* A detail request is pending only for the overlay that shows it: reducer.rs forgets it
\* wherever it closes or replaces that overlay.
THEOREM RequestsHaveOverlays == Spec => []RequestHasOverlay
<1>1. IInv => RequestHasOverlay
  BY DEF IInv, DetailHolds
<1> QED BY <1>1, Invariant, PTL

\* The cursor is on a row that shows its process, and the table on processes of the displayed
\* sample: Selection::resync after every change of either.
THEOREM CursorsAreOnRows == Spec => []CursorOnShownProcess
<1>1. IInv => CursorOnShownProcess
  BY DEF IInv, TableHolds, OnRow, CursorOnShownProcess
<1> QED BY <1>1, Invariant, PTL

\* What is followed is in the newest sample: release_followed_root and toggle_follow.
THEOREM FollowedAreAlive == Spec => []FollowedIsAlive
<1>1. IInv => FollowedIsAlive
  BY DEF IInv, ScopeHolds
<1> QED BY <1>1, Invariant, PTL

\* The row of a chosen process moves and its identity stays, whatever rebuilds the table.
LEMMA StepKeepsIdentity ==
  ASSUME IInv, [Next]_vars, Kept(selection.identity), ~Released
  PROVE  selection'.identity = selection.identity
<1> DEFINE identity == selection.identity
<1>1. /\ selection.chosen /\ identity # None /\ Contains(rows', identity)
      /\ rows' # rows \/ displayed' # displayed
  BY DEF Kept
<1>2. /\ selection \in Cursors /\ Chosen \in Cursors /\ Chosen.chosen
      /\ Chosen.identity = identity /\ latest \in Seen /\ displayed \in Seen /\ sampled \in Seen
  BY ChosenCursor DEF IInv, TableHolds, MailHolds
<1>3. ASSUME NEW sample \in Seen, NEW root, ResyncRows(sample, root, selection)
      PROVE  selection'.identity = identity
  BY <1>1, <1>2, <1>3, ResyncKeeps
<1>4. ASSUME NEW sample \in Seen, NEW root, ResyncRows(sample, root, Chosen)
      PROVE  selection'.identity = identity
  <2> HIDE DEF identity
  <2> QED BY <1>1, <1>2, <1>4, ResyncKeeps
<1>5. CASE SnapshotArrived
  <2>1. sampled # None /\ latest' = sampled
    BY <1>5 DEF SnapshotArrived
  <2>2. ~(followed # None /\ followed \notin IdentitiesOf(sampled))
    <3> SUFFICES ASSUME followed # None, followed \notin IdentitiesOf(sampled)
                 PROVE  FALSE
      OBVIOUS
    <3>1. followed' = None
      BY <1>5 DEF SnapshotArrived, ReleaseFollowed
    <3>2. latest' # latest
      BY <2>1 DEF IInv, ScopeHolds, FollowedIsAlive
    <3> QED BY <3>1, <3>2 DEF Released
  <2>3. CASE live \/ displayed = None
    <3>1. PICK order \in RowsOf(sampled, followed) :
            ReleaseFollowed(sampled, sampled, order, Resynced(selection, order))
      BY <1>5, <2>3 DEF SnapshotArrived
    <3>2. rows' = order /\ selection' = Resynced(selection, order)
      BY <2>2, <3>1 DEF ReleaseFollowed
    <3>3. order \in Seq(Identities)
      BY <1>2, <3>1, RowsAreSeen
    <3> QED BY <1>1, <1>2, <3>2, <3>3, ResyncedOnRow
  <2>4. CASE ~(live \/ displayed = None)
    BY <1>5, <2>2, <2>4 DEF SnapshotArrived, ReleaseFollowed
  <2> QED BY <2>3, <2>4
<1>6. CASE GoLive
  BY <1>2, <1>3, <1>6 DEF GoLive
<1>7. CASE Rearrange
  BY <1>2, <1>3, <1>7 DEF Rearrange
<1>8. CASE FollowSelected
  <2>1. selection' = Chosen \/ \E root : ResyncRows(displayed, root, Chosen)
    BY <1>8 DEF FollowSelected, Follow, Unfollow
  <2> QED BY <1>2, <1>4, <2>1
<1>9. CASE FollowPid
  <2>1. selection' = selection \/ \E root : ResyncRows(displayed, root, selection)
    BY <1>9 DEF FollowPid, Follow
  <2> QED BY <1>2, <1>3, <2>1
<1>10. CASE StopFollowing
  BY <1>2, <1>3, <1>10 DEF StopFollowing, Unfollow
<1>11. ASSUME rows' = rows /\ displayed' = displayed
       PROVE  FALSE
  BY <1>1, <1>11
<1>12. ASSUME NEW request, NEW stage, ProposeAction(request, stage)
       PROVE  rows' = rows /\ displayed' = displayed
  BY <1>12 DEF ProposeAction, samples
<1>13. CASE \E signal \in {"Term", "Kill"} : ProposeSignal(signal) \/ StepChoice(signal)
  BY <1>11, <1>12, <1>13 DEF ProposeSignal, StepChoice, samples, table
<1>14. CASE OpenSignalDialog \/ ProposeRenice
  BY <1>11, <1>12, <1>14 DEF OpenSignalDialog, ProposeRenice
<1>15. CASE \/ \E pid \in Pids : Spawn(pid) \/ Exit(pid)
            \/ Collect \/ ReadDetail \/ LoseAnswer \/ DetailArrived
  BY <1>11, <1>15
  DEF Spawn, Exit, Collect, ReadDetail, LoseAnswer, DetailArrived, samples, table
<1>16. CASE \/ Freeze \/ InspectSelected \/ PinSelected
            \/ \E row \in 1..Len(rows) : SelectRow(row)
  BY <1>11, <1>16 DEF Freeze, InspectSelected, PinSelected, SelectRow, samples, table
<1>17. CASE \E forceful \in BOOLEAN : Confirm(forceful)
  BY <1>11, <1>17 DEF Confirm, samples, table
<1>18. CASE Cancel \/ Recheck \/ Act
  BY <1>11, <1>18 DEF Cancel, Recheck, Act, samples, table
<1>19. CASE UNCHANGED vars
  BY <1>11, <1>19 DEF vars, samples, table
<1> QED
  BY <1>5, <1>6, <1>7, <1>8, <1>9, <1>10, <1>13, <1>14, <1>15, <1>16, <1>17, <1>18, <1>19
  DEF Next

\* A chosen process stays selected wherever the table still shows it, unless the process that
\* was followed has just gone: Selection::resync and resync_rows.
THEOREM IdentitiesWin == Spec => IdentityWins
<1>1. IInv /\ [Next]_vars =>
        [Kept(selection.identity) /\ ~Released => selection'.identity = selection.identity]_vars
  BY StepKeepsIdentity
<1> QED BY <1>1, Invariant, PTL DEF Spec, IdentityWins
=============================================================================
