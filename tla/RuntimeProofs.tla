----------------------------- MODULE RuntimeProofs -----------------------------
(***************************************************************************)
(* Snapshots and keys keep their order from the senders through the        *)
(* channel, the drain and the reducer, and every turn of the loop ends     *)
(* with the flags the sampler reads up to date: for every capacity of the  *)
(* channels, every number of events and every set of keys.  The way of     *)
(* the keys and that of the snapshots each implement EventFeed.            *)
(***************************************************************************)
EXTENDS Runtime, SequenceTheorems, FiniteSetTheorems, FunctionTheorems, TLAPS

Events ==
  [kind : {"Key"}, value : Presses, number : Nat]
    \cup [kind : {"Detail"}, value : Processes \cup {NoProcess}, number : Nat]
    \cup [kind : {"Snapshot", "Tick", "ConfigReloaded"}, value : {NoProcess}, number : Nat]

Effects ==
  [kind : {"SetSensorInterest"}, value : BOOLEAN]
    \cup [kind : {"FetchProcessDetail"}, value : Processes]
    \cup [kind : {"RequestSample", "ReloadConfig", "Shutdown"}, value : {NoProcess}]

\* What the sequences hold, which is more than TypeOK says of them.
Shape ==
  /\ queue \in Seq(Events) /\ batch \in Seq(Events) /\ effects \in Seq(Effects)
  /\ sending \in [Threads -> Events \cup {Nothing}]

\* Only a key, a detail or a reload ever waits to be sent, and each for its own thread.
SendersWait ==
  /\ \A thread \in Threads : sending[thread].kind \notin {"Snapshot", "Tick"}
  /\ \A thread \in Threads \ {"input"} : sending[thread].kind # "Key"
  /\ sending["input"].kind = "Key" => sending["input"].number = sent["Key"] + 1

\* What the loop holds where: nothing of a batch or an effect outlives its turn, and what
\* the drain collects stands behind the one snapshot it keeps.
TurnShape ==
  /\ ui \notin {"drain", "reduce"} => batch = <<>>
  /\ ui \notin {"reduce", "execute"} => effects = <<>>
  /\ ui \in {"drain", "reduce"} => batch # <<>>
  /\ ui = "drain" => /\ batch[1].kind = "Snapshot"
                     /\ \A i \in 2..Len(batch) : batch[i].kind # "Snapshot"

-----------------------------------------------------------------------------
(* Events of one kind, in line *)

Ordered(kind, events) ==
  \A i, j \in 1..Len(events) :
    i < j /\ events[i].kind = kind /\ events[j].kind = kind
      => events[i].number < events[j].number

Precedes(kind, events, later) ==
  \A i \in 1..Len(events), j \in 1..Len(later) :
    events[i].kind = kind /\ later[j].kind = kind => events[i].number < later[j].number

Within(kind, events, low, high) ==
  \A i \in 1..Len(events) :
    events[i].kind = kind => low < events[i].number /\ events[i].number <= high

\* The events of a kind that wait are numbered in order, after low and up to high.
Line(kind, held, waiting, low, high) ==
  /\ low <= high
  /\ Ordered(kind, held) /\ Ordered(kind, waiting) /\ Precedes(kind, held, waiting)
  /\ Within(kind, held, low, high) /\ Within(kind, waiting, low, high)

SnapshotLine == Line("Snapshot", batch, queue, latest, published)
KeyLine      == Line("Key", batch, queue, lastPress, sent["Key"])

LEMMA Numbered == \A event \in Events : event.number \in Nat
BY DEF Events

\* One more event joins the end of the line.
LEMMA JoinLine ==
  ASSUME NEW kind, NEW held \in Seq(Events), NEW waiting \in Seq(Events), NEW event \in Events,
         NEW low \in Nat, NEW high \in Nat, NEW top \in Nat,
         Line(kind, held, waiting, low, high), high <= top,
         event.kind = kind => high < event.number /\ event.number <= top
  PROVE  Line(kind, held, Append(waiting, event), low, top)
<1> DEFINE longer == Append(waiting, event)
<1>1. /\ longer \in Seq(Events) /\ Len(longer) = Len(waiting) + 1
      /\ \A i \in 1..Len(waiting) : longer[i] = waiting[i]
      /\ longer[Len(waiting) + 1] = event
  OBVIOUS
<1>2. /\ \A i \in 1..Len(held) : held[i].number \in Nat
      /\ \A i \in 1..Len(waiting) : waiting[i].number \in Nat
      /\ event.number \in Nat /\ Len(waiting) \in Nat
  <2>1. /\ \A i \in 1..Len(held) : held[i] \in Events
        /\ \A i \in 1..Len(waiting) : waiting[i] \in Events
        /\ Len(waiting) \in Nat
    BY ElementOfSeq, LenProperties
  <2> QED BY <2>1, Numbered
<1> HIDE DEF longer
<1>3. Ordered(kind, longer)
  <2> SUFFICES ASSUME NEW i \in 1..Len(longer), NEW j \in 1..Len(longer),
                      i < j, longer[i].kind = kind, longer[j].kind = kind
               PROVE  longer[i].number < longer[j].number
    BY DEF Ordered
  <2>1. i \in 1..Len(waiting) /\ longer[i] = waiting[i]
    BY <1>1, <1>2
  <2>2. CASE j \in 1..Len(waiting)
    BY <1>1, <2>1, <2>2 DEF Line, Ordered
  <2>3. CASE j = Len(waiting) + 1
    <3>1. waiting[i].number <= high /\ high < event.number
      BY <1>1, <2>1, <2>3 DEF Line, Within
    <3> QED BY <1>1, <1>2, <2>1, <2>3, <3>1
  <2>4. j \in 1..Len(waiting) \/ j = Len(waiting) + 1
    BY <1>1, <1>2
  <2> QED BY <2>2, <2>3, <2>4
<1>4. Precedes(kind, held, longer)
  <2> SUFFICES ASSUME NEW i \in 1..Len(held), NEW j \in 1..Len(longer),
                      held[i].kind = kind, longer[j].kind = kind
               PROVE  held[i].number < longer[j].number
    BY DEF Precedes
  <2>1. CASE j \in 1..Len(waiting)
    <3>1. longer[j] = waiting[j]
      BY <1>1, <2>1
    <3> QED BY <2>1, <3>1 DEF Line, Precedes
  <2>2. CASE j = Len(waiting) + 1
    <3>1. longer[j] = event /\ held[i].number <= high
      BY <1>1, <2>2 DEF Line, Within
    <3>2. held[i].number \in Nat /\ high < event.number
      BY <1>2, <3>1
    <3> QED BY <1>2, <3>1, <3>2
  <2> QED BY <1>1, <1>2, <2>1, <2>2
<1>5. Within(kind, longer, low, top)
  <2> SUFFICES ASSUME NEW i \in 1..Len(longer), longer[i].kind = kind
               PROVE  low < longer[i].number /\ longer[i].number <= top
    BY DEF Within
  <2>1. CASE i \in 1..Len(waiting)
    <3>1. longer[i] = waiting[i] /\ longer[i].number \in Nat
      BY <1>1, <1>2, <2>1
    <3>2. low < waiting[i].number /\ waiting[i].number <= high
      BY <2>1, <3>1 DEF Line, Within
    <3> QED BY <3>1, <3>2
  <2>2. CASE i = Len(waiting) + 1
    BY <1>1, <1>2, <2>2 DEF Line
  <2> QED BY <1>1, <1>2, <2>1, <2>2
<1>6. Within(kind, held, low, top)
  BY <1>2 DEF Line, Within
<1>7. low <= top
  BY DEF Line
<1> QED BY <1>3, <1>4, <1>5, <1>6, <1>7 DEF Line, longer

\* The loop takes the first one, with nothing in its hands.
LEMMA TakeFirst ==
  ASSUME NEW kind, NEW waiting \in Seq(Events), waiting # <<>>, NEW low \in Nat, NEW high \in Nat,
         Line(kind, <<>>, waiting, low, high)
  PROVE  Line(kind, <<Head(waiting)>>, Tail(waiting), low, high)
<1>1. /\ Len(Tail(waiting)) = Len(waiting) - 1 /\ Len(waiting) \in Nat \ {0}
      /\ \A i \in 1..Len(Tail(waiting)) : Tail(waiting)[i] = waiting[i + 1]
      /\ Head(waiting) = waiting[1]
  OBVIOUS
<1>2. Len(<<Head(waiting)>>) = 1 /\ <<Head(waiting)>>[1] = waiting[1]
  BY <1>1
<1> QED BY <1>1, <1>2 DEF Line, Ordered, Precedes, Within

\* The next one leaves the line and joins the events in hand.
LEMMA TakeBehind ==
  ASSUME NEW kind, NEW held \in Seq(Events), NEW waiting \in Seq(Events), waiting # <<>>,
         NEW low \in Nat, NEW high \in Nat, Line(kind, held, waiting, low, high)
  PROVE  /\ Line(kind, held, Tail(waiting), low, high)
         /\ Line(kind, Append(held, Head(waiting)), Tail(waiting), low, high)
<1> DEFINE rest == Tail(waiting)
           new  == Append(held, Head(waiting))
<1>1. /\ Len(rest) = Len(waiting) - 1 /\ Len(waiting) \in Nat \ {0} /\ Len(held) \in Nat
      /\ \A i \in 1..Len(rest) : rest[i] = waiting[i + 1]
      /\ Len(new) = Len(held) + 1 /\ new[Len(held) + 1] = waiting[1]
      /\ \A i \in 1..Len(held) : new[i] = held[i]
  OBVIOUS
<1>2. /\ \A i \in 1..Len(waiting) : waiting[i].number \in Nat
      /\ \A i \in 1..Len(held) : held[i].number \in Nat
  <2>1. /\ \A i \in 1..Len(waiting) : waiting[i] \in Events
        /\ \A i \in 1..Len(held) : held[i] \in Events
    BY ElementOfSeq, LenProperties
  <2> QED BY <2>1, Numbered
<1> HIDE DEF rest, new
<1>3. \A i \in 1..Len(rest) : i + 1 \in 1..Len(waiting) /\ 1 \in 1..Len(waiting)
  BY <1>1
<1>4. Ordered(kind, rest)
  <2> SUFFICES ASSUME NEW i \in 1..Len(rest), NEW j \in 1..Len(rest), i < j,
                      waiting[i + 1].kind = kind, waiting[j + 1].kind = kind
               PROVE  waiting[i + 1].number < waiting[j + 1].number
    BY <1>1 DEF Ordered
  <2>1. i + 1 \in 1..Len(waiting) /\ j + 1 \in 1..Len(waiting) /\ i + 1 < j + 1
    BY <1>3
  <2> QED BY <2>1 DEF Line, Ordered
<1>5. Precedes(kind, held, rest)
  <2> SUFFICES ASSUME NEW i \in 1..Len(held), NEW j \in 1..Len(rest),
                      held[i].kind = kind, waiting[j + 1].kind = kind
               PROVE  held[i].number < waiting[j + 1].number
    BY <1>1 DEF Precedes
  <2> QED BY <1>3 DEF Line, Precedes
<1>6. Within(kind, rest, low, high)
  <2> SUFFICES ASSUME NEW i \in 1..Len(rest), waiting[i + 1].kind = kind
               PROVE  low < waiting[i + 1].number /\ waiting[i + 1].number <= high
    BY <1>1 DEF Within
  <2> QED BY <1>3 DEF Line, Within
<1>7. Ordered(kind, new)
  <2> SUFFICES ASSUME NEW i \in 1..Len(new), NEW j \in 1..Len(new), i < j,
                      new[i].kind = kind, new[j].kind = kind
               PROVE  new[i].number < new[j].number
    BY DEF Ordered
  <2>1. i \in 1..Len(held) /\ new[i] = held[i]
    BY <1>1
  <2>2. CASE j \in 1..Len(held)
    BY <1>1, <2>1, <2>2 DEF Line, Ordered
  <2>3. CASE j = Len(held) + 1
    <3>1. new[j] = waiting[1] /\ 1 \in 1..Len(waiting)
      BY <1>1, <2>3
    <3>2. held[i].kind = kind /\ waiting[1].kind = kind
      BY <2>1, <3>1
    <3>3. held[i].number < waiting[1].number
      BY <2>1, <3>1, <3>2 DEF Line, Precedes
    <3> QED BY <2>1, <3>1, <3>3
  <2>4. j \in 1..Len(held) \/ j = Len(held) + 1
    <3>1. Len(held) \in Nat /\ Len(new) = Len(held) + 1
      BY <1>1
    <3> QED BY <3>1
  <2> QED BY <2>2, <2>3, <2>4
<1>8. Precedes(kind, new, rest)
  <2> SUFFICES ASSUME NEW i \in 1..Len(new), NEW j \in 1..Len(rest),
                      new[i].kind = kind, waiting[j + 1].kind = kind
               PROVE  new[i].number < waiting[j + 1].number
    BY <1>1 DEF Precedes
  <2>1. j + 1 \in 1..Len(waiting) /\ 1 \in 1..Len(waiting) /\ 1 < j + 1
    BY <1>3
  <2>2. CASE i \in 1..Len(held)
    <3>1. new[i] = held[i]
      BY <1>1, <2>2
    <3> QED BY <2>1, <2>2, <3>1 DEF Line, Precedes
  <2>3. CASE i = Len(held) + 1
    <3>1. new[i] = waiting[1]
      BY <1>1, <2>3
    <3> QED BY <2>1, <3>1 DEF Line, Ordered
  <2> QED BY <1>1, <2>2, <2>3
<1>9. Within(kind, new, low, high)
  <2> SUFFICES ASSUME NEW i \in 1..Len(new), new[i].kind = kind
               PROVE  low < new[i].number /\ new[i].number <= high
    BY DEF Within
  <2>1. CASE i \in 1..Len(held)
    <3>1. new[i] = held[i]
      BY <1>1, <2>1
    <3> QED BY <2>1, <3>1 DEF Line, Within
  <2>2. CASE i = Len(held) + 1
    <3>1. new[i] = waiting[1] /\ 1 \in 1..Len(waiting)
      BY <1>1, <2>2
    <3> QED BY <3>1 DEF Line, Within
  <2> QED BY <1>1, <2>1, <2>2
<1> QED BY <1>4, <1>5, <1>6, <1>7, <1>8, <1>9 DEF Line, rest, new

\* The next one is a snapshot and takes the place of the one in front, behind which no
\* other stands.
LEMMA TakeInFront ==
  ASSUME NEW kind \in {"Snapshot", "Key"}, NEW held \in Seq(Events), held # <<>>,
         NEW waiting \in Seq(Events), waiting # <<>>, NEW low \in Nat, NEW high \in Nat,
         Line(kind, held, waiting, low, high),
         held[1].kind = "Snapshot", \A i \in 2..Len(held) : held[i].kind # "Snapshot",
         Head(waiting).kind = "Snapshot"
  PROVE  Line(kind, [held EXCEPT ![1] = Head(waiting)], Tail(waiting), low, high)
<1> DEFINE rest == Tail(waiting)
           new  == [held EXCEPT ![1] = Head(waiting)]
<1>1. /\ Len(rest) = Len(waiting) - 1 /\ Len(waiting) \in Nat \ {0} /\ Len(held) \in Nat \ {0}
      /\ \A i \in 1..Len(rest) : rest[i] = waiting[i + 1]
      /\ Len(new) = Len(held) /\ new[1] = waiting[1] /\ waiting[1].kind = "Snapshot"
      /\ \A i \in 2..Len(held) : new[i] = held[i]
  OBVIOUS
<1>2. Line(kind, held, rest, low, high)
  BY TakeBehind
<1> HIDE DEF rest, new
<1>3. CASE kind = "Snapshot"
  <2>1. \A i \in 1..Len(new) : new[i].kind = kind => i = 1 /\ new[i] = waiting[1]
    BY <1>1, <1>3
  <2>2. Ordered(kind, new)
    BY <2>1 DEF Ordered
  <2>3. \A j \in 1..Len(rest) : rest[j] = waiting[j + 1] /\ j + 1 \in 1..Len(waiting)
                                 /\ 1 < j + 1 /\ 1 \in 1..Len(waiting)
    BY <1>1
  <2>4. Precedes(kind, new, rest)
    <3> SUFFICES ASSUME NEW j \in 1..Len(rest), waiting[1].kind = kind, waiting[j + 1].kind = kind
                 PROVE  waiting[1].number < waiting[j + 1].number
      BY <2>1, <2>3 DEF Precedes
    <3> QED BY <2>3 DEF Line, Ordered
  <2>5. Within(kind, new, low, high)
    <3>1. 1 \in 1..Len(waiting)
      BY <1>1
    <3>2. low < waiting[1].number /\ waiting[1].number <= high
      BY <1>1, <1>3, <3>1 DEF Line, Within
    <3> QED BY <2>1, <3>2 DEF Within
  <2> QED BY <1>2, <2>2, <2>4, <2>5 DEF Line, rest, new
<1>4. CASE kind = "Key"
  <2>1. \A i \in 1..Len(new) : new[i].kind = kind => i \in 1..Len(held) /\ new[i] = held[i]
    BY <1>1, <1>4
  <2>2. Ordered(kind, new)
    BY <1>2, <2>1 DEF Line, Ordered
  <2>3. Precedes(kind, new, rest)
    BY <1>2, <2>1 DEF Line, Precedes
  <2>4. Within(kind, new, low, high)
    BY <1>2, <2>1 DEF Line, Within
  <2> QED BY <1>2, <2>2, <2>3, <2>4 DEF Line, rest, new
<1> QED BY <1>3, <1>4

\* The drain takes the next one.
LEMMA TakeNext ==
  ASSUME NEW held \in Seq(Events), held # <<>>, NEW waiting \in Seq(Events), waiting # <<>>,
         held[1].kind = "Snapshot", \A i \in 2..Len(held) : held[i].kind # "Snapshot"
  PROVE  /\ Drained(held, Head(waiting)) \in Seq(Events)
         /\ Drained(held, Head(waiting)) # <<>>
         /\ Drained(held, Head(waiting))[1].kind = "Snapshot"
         /\ \A i \in 2..Len(Drained(held, Head(waiting))) :
              Drained(held, Head(waiting))[i].kind # "Snapshot"
         /\ \A kind \in {"Snapshot", "Key"}, low, high \in Nat :
              Line(kind, held, waiting, low, high)
                => Line(kind, Drained(held, Head(waiting)), Tail(waiting), low, high)
<1> DEFINE event == Head(waiting)
<1>1. event \in Events /\ Len(held) \in Nat \ {0}
  OBVIOUS
<1>2. CASE event.kind = "Snapshot"
  <2> DEFINE new == [held EXCEPT ![1] = event]
  <2>1. /\ new \in Seq(Events) /\ Len(new) = Len(held) /\ new[1] = event /\ new # <<>>
        /\ \A i \in 2..Len(held) : new[i] = held[i]
    BY <1>1
  <2>2. Drained(held, event) \in {held, new}
    BY <1>2 DEF Drained
  <2>3. \A kind \in {"Snapshot", "Key"}, low, high \in Nat :
          Line(kind, held, waiting, low, high)
            => Line(kind, held, Tail(waiting), low, high) /\ Line(kind, new, Tail(waiting), low, high)
    BY <1>2, TakeBehind, TakeInFront
  <2> HIDE DEF new, event
  <2>4. new[1].kind = "Snapshot" /\ \A i \in 2..Len(new) : new[i].kind # "Snapshot"
    BY <1>2, <2>1
  <2> QED BY <2>1, <2>2, <2>3, <2>4 DEF event
<1>3. CASE event.kind # "Snapshot"
  <2> DEFINE new == Append(held, event)
  <2>1. /\ new \in Seq(Events) /\ Len(new) = Len(held) + 1 /\ new[Len(held) + 1] = event
        /\ \A i \in 1..Len(held) : new[i] = held[i]
    BY <1>1
  <2>2. Drained(held, event) = new
    BY <1>3 DEF Drained
  <2>3. \A kind \in {"Snapshot", "Key"}, low, high \in Nat :
          Line(kind, held, waiting, low, high) => Line(kind, new, Tail(waiting), low, high)
    BY TakeBehind
  <2> HIDE DEF new, event
  <2>4. new # <<>> /\ new[1].kind = "Snapshot"
    BY <1>1, <2>1
  <2>5. \A i \in 2..Len(new) : new[i].kind # "Snapshot"
    <3> TAKE i \in 2..Len(new)
    <3>1. i \in 2..Len(held) \/ i = Len(held) + 1
      BY <1>1, <2>1
    <3> QED BY <1>1, <1>3, <2>1, <3>1
  <2> QED BY <2>1, <2>2, <2>3, <2>4, <2>5 DEF event
<1> QED BY <1>2, <1>3

\* The reducer applies the first event in the hands of the loop; one of this kind is
\* newer than all before it, and the others are newer still.
LEMMA ApplyFirst ==
  ASSUME NEW kind, NEW held \in Seq(Events), held # <<>>, NEW waiting \in Seq(Events),
         NEW low \in Nat, NEW high \in Nat, Line(kind, held, waiting, low, high)
  PROVE  /\ Head(held).kind # kind => Line(kind, Tail(held), waiting, low, high)
         /\ Head(held).kind = kind =>
              /\ low < Head(held).number /\ Head(held).number <= high
              /\ Line(kind, Tail(held), waiting, Head(held).number, high)
<1>1. /\ Len(Tail(held)) = Len(held) - 1 /\ Len(held) \in Nat \ {0}
      /\ \A i \in 1..Len(Tail(held)) : Tail(held)[i] = held[i + 1]
      /\ Head(held) = held[1] /\ held[1] \in Events /\ held[1].number \in Nat
  BY Numbered
<1> QED BY <1>1 DEF Line, Ordered, Precedes, Within

-----------------------------------------------------------------------------
(* The effects of a turn *)

\* The sampler was told what the view asks, or one of the effects will tell it: the last
\* of those that tell it anything.
Pending(list, told, view) ==
  /\ (\A i \in 1..Len(list) : list[i].kind # "SetSensorInterest") => told = view
  /\ \A i \in 1..Len(list) :
       /\ list[i].kind = "SetSensorInterest"
       /\ \A j \in 1..Len(list) : j > i => list[j].kind # "SetSensorInterest"
       => list[i].value = view

SensorsPending == Pending(effects, sensorInterest, sensorView)

\* The reducer adds an effect: the one that tells the view it has settled on, or another.
LEMMA AddEffect ==
  ASSUME NEW list \in Seq(Effects), NEW effect \in Effects, NEW told, NEW view, NEW newView,
         Pending(list, told, view),
         \/ effect.kind = "SetSensorInterest" /\ effect.value = newView
         \/ effect.kind # "SetSensorInterest" /\ newView = view
  PROVE  Pending(Append(list, effect), told, newView)
<1> DEFINE longer == Append(list, effect)
<1>1. /\ Len(longer) = Len(list) + 1 /\ Len(list) \in Nat
      /\ \A i \in 1..Len(list) : longer[i] = list[i] /\ i \in 1..Len(longer)
      /\ longer[Len(list) + 1] = effect
      /\ Len(list) + 1 \in 1..Len(longer)
  OBVIOUS
<1> HIDE DEF longer
<1>2. (\A i \in 1..Len(longer) : longer[i].kind # "SetSensorInterest") => told = newView
  BY <1>1 DEF Pending
<1>3. ASSUME NEW i \in 1..Len(longer), longer[i].kind = "SetSensorInterest",
             \A j \in 1..Len(longer) : j > i => longer[j].kind # "SetSensorInterest"
      PROVE  longer[i].value = newView
  <2>1. i \in 1..Len(list) \/ i = Len(list) + 1
    BY <1>1
  <2>2. CASE i = Len(list) + 1
    BY <1>1, <1>3, <2>2
  <2>3. CASE i \in 1..Len(list)
    <3>1. Len(list) + 1 > i
      BY <1>1, <2>3
    <3>2. effect.kind # "SetSensorInterest"
      BY <1>1, <1>3, <3>1
    <3>3. \A j \in 1..Len(list) : j > i => list[j].kind # "SetSensorInterest"
      BY <1>1, <1>3
    <3>4. list[i].kind = "SetSensorInterest"
      BY <1>1, <1>3, <2>3
    <3>5. list[i].value = view
      BY <2>3, <3>3, <3>4 DEF Pending
    <3> QED BY <1>1, <2>3, <3>2, <3>5
  <2> QED BY <2>1, <2>2, <2>3
<1> QED BY <1>2, <1>3 DEF Pending, longer

\* The loop executes the first effect.
LEMMA DoEffect ==
  ASSUME NEW list \in Seq(Effects), list # <<>>, NEW told, NEW newTold, NEW view,
         Pending(list, told, view),
         newTold = IF Head(list).kind = "SetSensorInterest" THEN Head(list).value ELSE told
  PROVE  Pending(Tail(list), newTold, view)
<1> DEFINE rest == Tail(list)
<1>1. /\ Len(rest) = Len(list) - 1 /\ Len(list) \in Nat \ {0} /\ Head(list) = list[1]
      /\ \A i \in 1..Len(rest) : rest[i] = list[i + 1] /\ i + 1 \in 1..Len(list)
      /\ 1 \in 1..Len(list)
  OBVIOUS
<1> HIDE DEF rest
<1>2. \A i \in 2..Len(list) : i - 1 \in 1..Len(rest) /\ list[i] = rest[i - 1]
  <2> TAKE i \in 2..Len(list)
  <2>1. i - 1 \in 1..Len(rest) /\ (i - 1) + 1 = i
    BY <1>1
  <2> QED BY <1>1, <2>1
<1>3. ASSUME \A i \in 1..Len(rest) : rest[i].kind # "SetSensorInterest"
      PROVE  newTold = view
  <2>1. \A i \in 2..Len(list) : list[i].kind # "SetSensorInterest"
    BY <1>2, <1>3
  <2>2. CASE list[1].kind = "SetSensorInterest"
    <3>1. \A j \in 1..Len(list) : j > 1 => list[j].kind # "SetSensorInterest"
      BY <1>1, <2>1
    <3> QED BY <1>1, <2>2, <3>1 DEF Pending
  <2>3. CASE list[1].kind # "SetSensorInterest"
    <3>1. \A i \in 1..Len(list) : i = 1 \/ i \in 2..Len(list)
      BY <1>1
    <3> QED BY <1>1, <2>1, <2>3, <3>1 DEF Pending
  <2> QED BY <2>2, <2>3
<1>4. ASSUME NEW i \in 1..Len(rest), rest[i].kind = "SetSensorInterest",
             \A j \in 1..Len(rest) : j > i => rest[j].kind # "SetSensorInterest"
      PROVE  rest[i].value = view
  <2>1. ASSUME NEW j \in 1..Len(list), j > i + 1
        PROVE  list[j].kind # "SetSensorInterest"
    <3>1. j \in 2..Len(list) /\ j - 1 > i
      BY <1>1, <2>1
    <3> QED BY <1>2, <1>4, <3>1
  <2>2. i + 1 \in 1..Len(list) /\ rest[i] = list[i + 1]
    BY <1>1
  <2> QED BY <1>4, <2>1, <2>2 DEF Pending
<1> QED BY <1>3, <1>4 DEF Pending, rest

IntervalTold == ui \in {"draw", "receive"} => controlInterval = sampleInterval

IInv ==
  /\ TypeOK
  /\ Shape
  /\ SendersWait
  /\ TurnShape
  /\ SnapshotLine
  /\ KeyLine
  /\ SensorsPending
  /\ IntervalTold

Turn  == TurnShape /\ SensorsPending /\ IntervalTold
Lines == SnapshotLine /\ KeyLine

-----------------------------------------------------------------------------
(* Sending *)

LEMMA EventTypes ==
  /\ Nothing.kind = "Nothing"
  /\ Plain("Tick") \in Events /\ Plain("ConfigReloaded") \in Events
  /\ \A press \in Presses, number \in Nat : Event("Key", press, number) \in Events
  /\ \A process \in Processes \cup {NoProcess} : Event("Detail", process, 0) \in Events
  /\ \A number \in Nat : Event("Snapshot", NoProcess, number) \in Events
BY DEF Nothing, Plain, Event, Events

\* A send keeps the order of what waits, if a snapshot is newer than those before it and
\* a key is pressed by the thread that waits for no other.
LEMMA SendKeeps ==
  ASSUME IInv, NEW thread \in Threads, NEW event \in Events, event.kind \in Kinds,
         Send(thread, event), batch' = batch, latest' = latest, lastPress' = lastPress,
         published' \in Nat, published <= published',
         event.kind = "Snapshot" => published < event.number /\ event.number <= published',
         event.kind = "Key" => thread = "input" /\ event.number = sent["Key"] + 1,
         ~Sending(thread)
  PROVE  /\ queue' \in Seq(Events) /\ Len(queue') <= EventCapacity
         /\ sending' \in [Threads -> Events \cup {Nothing}] /\ sent' \in [Kinds -> Nat]
         /\ health' \in [coalesced : Nat, dropped : Nat]
         /\ \A t \in Threads : sending'[t].kind \in Kinds \cup {"Nothing"}
         /\ SendersWait' /\ SnapshotLine' /\ KeyLine'
<1> USE RuntimeAssumption
<1>1. /\ queue \in Seq(Events) /\ batch \in Seq(Events) /\ sending \in [Threads -> Events \cup {Nothing}]
      /\ sent \in [Kinds -> Nat] /\ latest \in Nat /\ lastPress \in Nat /\ published \in Nat
      /\ sent["Key"] \in Nat /\ Len(queue) <= EventCapacity /\ Len(queue) \in Nat
      /\ Line("Snapshot", batch, queue, latest, published)
      /\ Line("Key", batch, queue, lastPress, sent["Key"])
      /\ "input" \in Threads /\ sending[thread].kind = "Nothing"
      /\ health \in [coalesced : Nat, dropped : Nat]
  BY DEF IInv, TypeOK, Shape, SnapshotLine, KeyLine, Kinds, Threads, Workers, Sending
<1>2. /\ Count(sent, event.kind) \in [Kinds -> Nat]
      /\ event.kind = "Key" => Count(sent, event.kind)["Key"] = sent["Key"] + 1
      /\ event.kind # "Key" => Count(sent, event.kind)["Key"] = sent["Key"]
  <2>1. event.kind \in Kinds /\ \A kind \in Kinds : sent[kind] \in Nat /\ sent[kind] + 1 \in Nat
    BY <1>1
  <2>2. "Key" \in Kinds
    BY DEF Kinds
  <2> HIDE DEF Kinds
  <2> QED BY <1>1, <2>1, <2>2 DEF Count
<1>3. Line("Snapshot", batch, queue, latest, published')
  <2>1. \A i \in 1..Len(batch) : batch[i].number \in Nat
    <3>1. \A i \in 1..Len(batch) : batch[i] \in Events
      BY <1>1, ElementOfSeq
    <3> QED BY <3>1, Numbered
  <2>2. \A i \in 1..Len(queue) : queue[i].number \in Nat
    <3>1. \A i \in 1..Len(queue) : queue[i] \in Events
      BY <1>1, ElementOfSeq
    <3> QED BY <3>1, Numbered
  <2>3. Within("Snapshot", batch, latest, published')
    BY <1>1, <2>1 DEF Line, Within
  <2>4. Within("Snapshot", queue, latest, published')
    BY <1>1, <2>2 DEF Line, Within
  <2> QED BY <1>1, <2>3, <2>4 DEF Line
<1>4. CASE /\ Len(queue) < EventCapacity /\ queue' = Append(queue, event)
           /\ sent' = Count(sent, event.kind) /\ health' = health /\ sending' = sending
  <2>1. Line("Snapshot", batch, queue', latest, published')
    <3>1. Line("Snapshot", batch, Append(queue, event), latest, published')
      BY <1>1, JoinLine
    <3> QED BY <1>4, <3>1
  <2>2. Line("Key", batch, queue', lastPress, sent'["Key"])
    <3>1. sent'["Key"] \in Nat /\ sent["Key"] <= sent'["Key"]
          /\ (event.kind = "Key" => sent["Key"] < event.number /\ event.number <= sent'["Key"])
      <4>1. sent["Key"] \in Nat /\ sent' = Count(sent, event.kind)
        BY <1>1, <1>4
      <4>2. CASE event.kind = "Key"
        BY <1>2, <4>1, <4>2
      <4>3. CASE event.kind # "Key"
        BY <1>2, <4>1, <4>3
      <4> QED BY <4>2, <4>3
    <3>2. Line("Key", batch, Append(queue, event), lastPress, sent'["Key"])
      BY <1>1, <3>1, JoinLine
    <3> QED BY <1>4, <3>2
  <2>3. SendersWait'
    BY <1>1, <1>2, <1>4 DEF IInv, SendersWait
  <2>4. queue' \in Seq(Events) /\ Len(queue') <= EventCapacity
    BY <1>1, <1>4
  <2> QED BY <1>1, <1>2, <1>4, <2>1, <2>2, <2>3, <2>4 DEF SnapshotLine, KeyLine, IInv, TypeOK
<1>5. CASE /\ Coalescable(event) /\ health' = [health EXCEPT !.coalesced = @ + 1]
           /\ sent' = Count(sent, event.kind) /\ queue' = queue /\ sending' = sending
  <2>1. event.kind # "Key"
    BY <1>5 DEF Coalescable
  <2>2. SendersWait'
    BY <1>1, <1>2, <1>5, <2>1 DEF IInv, SendersWait
  <2>3. SnapshotLine'
    BY <1>3, <1>5 DEF SnapshotLine
  <2>4. KeyLine'
    BY <1>1, <1>2, <1>5, <2>1 DEF KeyLine
  <2>5. health' \in [coalesced : Nat, dropped : Nat]
    <3>1. health.coalesced + 1 \in Nat /\ health' = [health EXCEPT !.coalesced = health.coalesced + 1]
      <4>1. health \in [coalesced : Nat, dropped : Nat]
        BY <1>1
      <4> QED BY <1>5, <4>1
    <3>2. health \in [coalesced : Nat, dropped : Nat]
      BY <1>1
    <3> QED BY <3>1, <3>2
  <2> QED BY <1>1, <1>2, <1>5, <2>2, <2>3, <2>4, <2>5 DEF IInv, TypeOK
<1>6. CASE /\ ~Coalescable(event) /\ sending' = [sending EXCEPT ![thread] = event]
           /\ queue' = queue /\ health' = health /\ sent' = sent
  <2>1. event.kind \notin {"Snapshot", "Tick"}
    BY <1>6 DEF Coalescable
  <2>2. SendersWait'
    BY <1>1, <1>6, <2>1 DEF IInv, SendersWait
  <2>3. SnapshotLine' /\ KeyLine'
    BY <1>1, <1>3, <1>6 DEF SnapshotLine, KeyLine
  <2> QED BY <1>1, <1>6, <2>2, <2>3 DEF IInv, TypeOK
<1> QED BY <1>4, <1>5, <1>6 DEF Send

\* What an action must leave alone for each part of the invariant to stand.
LEMMA Frame ==
  /\ IInv /\ UNCHANGED <<sending, sent>> => SendersWait'
  /\ IInv /\ UNCHANGED <<ui, batch, effects, sensorInterest, sensorView, controlInterval,
                         sampleInterval>> => Turn'
  /\ IInv /\ UNCHANGED <<queue, batch, latest, lastPress, published, sent>> => Lines'
<1>1. ASSUME IInv, UNCHANGED <<sending, sent>>
      PROVE  SendersWait'
  BY <1>1 DEF IInv, SendersWait
<1>2. ASSUME IInv, UNCHANGED <<ui, batch, effects, sensorInterest, sensorView, controlInterval,
                               sampleInterval>>
      PROVE  Turn'
  BY <1>2 DEF IInv, Turn, TurnShape, SensorsPending, IntervalTold
<1>3. ASSUME IInv, UNCHANGED <<queue, batch, latest, lastPress, published, sent>>
      PROVE  Lines'
  BY <1>3 DEF IInv, Lines, SnapshotLine, KeyLine
<1> QED BY <1>1, <1>2, <1>3

\* A blocked send ends: the event joins the queue after all that was sent before it, or
\* is dropped.
LEMMA FinishSendKeeps ==
  ASSUME IInv, NEW thread \in Threads, FinishSend(thread)
  PROVE  TypeOK' /\ Shape' /\ SendersWait' /\ Turn' /\ Lines'
<1> USE RuntimeAssumption
<1> DEFINE event == sending[thread]
<1>1. /\ event \in Events /\ event.kind \in Kinds
      /\ event.kind \notin {"Snapshot", "Tick"}
      /\ event.kind = "Key" => thread = "input" /\ event.number = sent["Key"] + 1
  <2>1. event \in Events \cup {Nothing} /\ event.kind # "Nothing"
    BY DEF IInv, Shape, FinishSend, Sending
  <2>2. event \in Events
    BY <2>1, EventTypes
  <2>3. event.kind \in Kinds
    BY <2>1 DEF IInv, TypeOK
  <2>4. event.kind = "Key" => thread = "input"
    BY DEF IInv, SendersWait
  <2> QED BY <2>2, <2>3, <2>4 DEF IInv, SendersWait
<1>2. /\ queue \in Seq(Events) /\ batch \in Seq(Events) /\ Len(queue) \in Nat
      /\ sent \in [Kinds -> Nat] /\ latest \in Nat /\ lastPress \in Nat /\ published \in Nat
      /\ sent["Key"] \in Nat /\ Len(queue) <= EventCapacity
      /\ Line("Snapshot", batch, queue, latest, published)
      /\ Line("Key", batch, queue, lastPress, sent["Key"])
      /\ health \in [coalesced : Nat, dropped : Nat]
      /\ "Key" \in Kinds
  BY DEF IInv, TypeOK, Shape, SnapshotLine, KeyLine, Kinds
<1>3. /\ sent' = Count(sent, event.kind) /\ sending' = [sending EXCEPT ![thread] = Nothing]
      /\ UNCHANGED <<batch, latest, lastPress, published, turnedAway>>
      /\ UNCHANGED <<ui, effects, sensorInterest, sensorView, controlInterval, sampleInterval>>
      /\ UNCHANGED <<detailQueue, flags, pc, sampler, fetching, loop, app, reduced>>
      /\ \/ Len(queue) < EventCapacity /\ queue' = Append(queue, event) /\ health' = health
         \/ queue' = queue /\ health' = [health EXCEPT !.dropped = @ + 1]
  BY DEF FinishSend, loop, app, history, flags
<1>4. /\ sent' \in [Kinds -> Nat]
      /\ event.kind = "Key" => sent'["Key"] = sent["Key"] + 1
      /\ event.kind # "Key" => sent'["Key"] = sent["Key"]
  <2>1. \A kind \in Kinds : sent[kind] + 1 \in Nat
    BY <1>2
  <2> HIDE DEF Kinds, event
  <2> QED BY <1>1, <1>2, <1>3, <2>1 DEF Count
<1>5. sent'["Key"] \in Nat /\ sent["Key"] <= sent'["Key"]
  BY <1>2, <1>4
<1> HIDE DEF event
<1>6. /\ sending' \in [Threads -> Events \cup {Nothing}]
      /\ \A t \in Threads : t # thread => sending'[t] = sending[t]
      /\ sending'[thread] = Nothing
      /\ \A t \in Threads : sending'[t].kind \in Kinds \cup {"Nothing"}
  BY <1>3, EventTypes DEF IInv, Shape, TypeOK
<1>7. SendersWait'
  <2>1. sending'["input"].kind = "Key" => sending'["input"].number = sent'["Key"] + 1
    <3>1. CASE thread = "input"
      BY <1>6, <3>1, EventTypes
    <3>2. CASE thread # "input"
      <4>1. "input" \in Threads
        BY DEF Threads, Workers
      <4> QED BY <1>1, <1>4, <1>6, <3>2, <4>1 DEF IInv, SendersWait
    <3> QED BY <3>1, <3>2
  <2> QED BY <1>6, <2>1, EventTypes DEF IInv, SendersWait
<1>8. queue' \in Seq(Events) /\ Len(queue') <= EventCapacity
  <2>1. CASE queue' = queue
    BY <1>2, <2>1
  <2>2. CASE Len(queue) < EventCapacity /\ queue' = Append(queue, event)
    <3>1. Append(queue, event) \in Seq(Events) /\ Len(Append(queue, event)) = Len(queue) + 1
      BY <1>1, <1>2
    <3> QED BY <1>2, <2>2, <3>1
  <2> QED BY <1>3, <2>1, <2>2
<1>9. health' \in [coalesced : Nat, dropped : Nat]
  <2>1. health.dropped + 1 \in Nat
    BY <1>2
  <2> QED BY <1>2, <1>3, <2>1
<1>10. SnapshotLine'
  <2>1. Line("Snapshot", batch, Append(queue, event), latest, published)
    BY <1>1, <1>2, JoinLine
  <2> QED BY <1>2, <1>3, <2>1 DEF SnapshotLine
<1>11. KeyLine'
  <2>1. Line("Key", batch, Append(queue, event), lastPress, sent'["Key"])
    <3>1. event.kind = "Key" => sent["Key"] < event.number /\ event.number <= sent'["Key"]
      BY <1>1, <1>2, <1>4
    <3> QED BY <1>1, <1>2, <1>5, <3>1, JoinLine
  <2>2. Line("Key", batch, queue, lastPress, sent'["Key"])
    <3>1. \A i \in 1..Len(batch) : batch[i].number \in Nat
      BY <1>2 DEF Events
    <3>2. \A i \in 1..Len(queue) : queue[i].number \in Nat
      BY <1>2 DEF Events
    <3>3. Within("Key", batch, lastPress, sent'["Key"])
      BY <1>2, <1>5, <3>1 DEF Line, Within
    <3>4. Within("Key", queue, lastPress, sent'["Key"])
      BY <1>2, <1>5, <3>2 DEF Line, Within
    <3> QED BY <1>2, <1>5, <3>3, <3>4 DEF Line
  <2> QED BY <1>3, <2>1, <2>2 DEF KeyLine
<1>12. Turn'
  BY <1>3, Frame
<1>13. TypeOK'
  <2>1. UNCHANGED <<detailQueue, shutdown, forced, sensorInterest, controlInterval, signalsClosed>>
    BY <1>3 DEF flags
  <2>2. UNCHANGED <<pc, sequence, samplerInterval, fetching, ui, batch, terminal>>
    BY <1>3 DEF sampler, loop
  <2>3. UNCHANGED <<latest, unrendered, displayedLag, sensorView, sampleInterval, detailRequest,
                    shouldQuit, reduced, published, lastPress, turnedAway>>
    BY <1>3 DEF app
  <2> HIDE DEF Kinds
  <2> QED BY <1>4, <1>6, <1>8, <1>9, <2>1, <2>2, <2>3 DEF IInv, TypeOK
<1>14. Shape'
  BY <1>3, <1>6, <1>8 DEF IInv, Shape
<1> QED BY <1>7, <1>10, <1>11, <1>12, <1>13, <1>14 DEF Lines

\* What the sender does besides the send leaves the loop and the state alone.
LEMMA SenderKeeps ==
  ASSUME IInv, NEW thread \in Threads \ {"ui"}, NEW event \in Events, event.kind \in Kinds,
         Send(thread, event), ~Sending(thread),
         UNCHANGED <<loop, app, lastPress, reduced, turnedAway>>,
         sensorInterest' = sensorInterest, controlInterval' = controlInterval,
         published' \in Nat, published <= published',
         event.kind = "Snapshot" => published < event.number /\ event.number <= published',
         event.kind = "Key" => thread = "input" /\ event.number = sent["Key"] + 1,
         detailQueue' = detailQueue, shutdown' = shutdown, forced' = forced,
         signalsClosed' = signalsClosed, samplerInterval' = samplerInterval,
         sequence' \in Nat, published' <= sequence',
         fetching' \in Processes \cup {NoProcess}, pc' \in [Workers -> {"work", "busy", "done"}]
  PROVE  TypeOK' /\ Shape' /\ SendersWait' /\ Turn' /\ Lines'
<1>1. /\ queue' \in Seq(Events) /\ Len(queue') <= EventCapacity
      /\ sending' \in [Threads -> Events \cup {Nothing}] /\ sent' \in [Kinds -> Nat]
      /\ health' \in [coalesced : Nat, dropped : Nat]
      /\ \A t \in Threads : sending'[t].kind \in Kinds \cup {"Nothing"}
      /\ SendersWait' /\ SnapshotLine' /\ KeyLine'
  BY SendKeeps DEF loop, app
<1>2. Turn'
  BY Frame DEF loop, app
<1>3. latest' \in 0..published'
  BY DEF IInv, TypeOK, app
<1>4. TypeOK'
  BY <1>1, <1>3 DEF IInv, TypeOK, loop, app
<1>5. Shape'
  BY <1>1 DEF IInv, Shape, loop
<1> QED BY <1>1, <1>2, <1>4, <1>5 DEF Lines

-----------------------------------------------------------------------------
(* The steps of the workers *)

Kept == TypeOK /\ Shape /\ SendersWait /\ Turn /\ Lines

LEMMA KeptIsIInv == Kept' <=> IInv'
BY DEF Kept, IInv, Turn, Lines

LEMMA WorkerSteps ==
  ASSUME IInv
  PROVE  /\ \A worker \in Workers : Leave(worker) => Kept'
         /\ InputFails => Kept'
         /\ SamplerPass => Kept'
         /\ TakeRequest => Kept'
         /\ SignalArrives => Kept'
         /\ SignalsEnd => Kept'
<1> USE RuntimeAssumption
<1>1. ASSUME UNCHANGED <<queue, health, sending, loop, app, history, sensorInterest,
                         controlInterval, sequence>>,
             pc' \in [Workers -> {"work", "busy", "done"}],
             shutdown' \in BOOLEAN, forced' \in BOOLEAN, signalsClosed' \in BOOLEAN,
             samplerInterval' \in Nat \ {0}, fetching' \in Processes \cup {NoProcess},
             detailQueue' \in Seq(Processes), Len(detailQueue') <= DetailCapacity
      PROVE  Kept'
  <2>1. SendersWait' /\ Turn' /\ Lines'
    BY <1>1, Frame DEF loop, app, history
  <2>2. TypeOK'
    BY <1>1 DEF IInv, TypeOK, loop, app, history
  <2>3. Shape'
    BY <1>1 DEF IInv, Shape, loop
  <2> QED BY <2>1, <2>2, <2>3 DEF Kept
<1>2. /\ detailQueue \in Seq(Processes) /\ Len(detailQueue) <= DetailCapacity
      /\ fetching \in Processes \cup {NoProcess} /\ samplerInterval \in Nat \ {0}
      /\ controlInterval \in Nat \ {0}
      /\ shutdown \in BOOLEAN /\ forced \in BOOLEAN /\ signalsClosed \in BOOLEAN
      /\ pc \in [Workers -> {"work", "busy", "done"}]
  BY DEF IInv, TypeOK
<1>3. \A worker \in Workers, place \in {"work", "busy", "done"} :
        [pc EXCEPT ![worker] = place] \in [Workers -> {"work", "busy", "done"}]
  BY <1>2
<1>4. {"input", "sampler", "detail", "signals"} \subseteq Workers
  BY DEF Workers
<1>5. ASSUME NEW worker \in Workers, Leave(worker)
      PROVE  Kept'
  BY <1>1, <1>2, <1>3, <1>5 DEF Leave, Goto, channels, flags, sampler
<1>6. ASSUME InputFails
      PROVE  Kept'
  BY <1>1, <1>2, <1>3, <1>4, <1>6 DEF InputFails, Goto, channels, flags, sampler
<1>7. ASSUME SamplerPass
      PROVE  Kept'
  BY <1>1, <1>2, <1>3, <1>4, <1>7 DEF SamplerPass, Goto, AdoptInterval, channels
<1>8. ASSUME TakeRequest
      PROVE  Kept'
  <2>1. NewestRequest \in Processes
    <3>1. Len(detailQueue) \in 1..Len(detailQueue)
      BY <1>2, <1>8 DEF TakeRequest
    <3> QED BY <1>2, <3>1 DEF NewestRequest
  <2>2. <<>> \in Seq(Processes) /\ Len(<<>>) <= DetailCapacity
    OBVIOUS
  <2> QED BY <1>1, <1>2, <1>3, <1>4, <1>8, <2>1, <2>2 DEF TakeRequest, Goto, flags, sampler
<1>9. ASSUME SignalArrives
      PROVE  Kept'
  BY <1>1, <1>2, <1>3, <1>4, <1>9 DEF SignalArrives, Goto, channels, sampler
<1>10. ASSUME SignalsEnd
       PROVE  Kept'
  BY <1>1, <1>2, <1>3, <1>4, <1>10 DEF SignalsEnd, Goto, channels, flags, sampler
<1> QED BY <1>5, <1>6, <1>7, <1>8, <1>9, <1>10

LEMMA SenderSteps ==
  ASSUME IInv
  PROVE  /\ \A press \in Presses : PressKey(press) => Kept'
         /\ Tick => Kept'
         /\ SampleDone => Kept'
         /\ DetailDone => Kept'
<1> USE RuntimeAssumption
<1>1. /\ fetching \in Processes \cup {NoProcess} /\ sequence \in Nat
      /\ published \in Nat /\ published <= sequence
      /\ pc \in [Workers -> {"work", "busy", "done"}] /\ sent["Key"] \in Nat
  BY DEF IInv, TypeOK, Kinds
<1>2. \A worker \in Workers : [pc EXCEPT ![worker] = "done"] \in [Workers -> {"work", "busy", "done"}]
                              /\ [pc EXCEPT ![worker] = "work"] \in [Workers -> {"work", "busy", "done"}]
  BY <1>1
<1>3. {"input", "sampler", "detail", "tick"} \subseteq Workers /\ Workers = Threads \ {"ui"}
  BY DEF Workers, Threads
<1>4. {"Key", "Snapshot", "Detail", "Tick"} \subseteq Kinds
  BY DEF Kinds
<1> HIDE DEF Kinds, Workers, Threads
<1>5. ASSUME NEW press \in Presses, PressKey(press)
      PROVE  Kept'
  <2> DEFINE event == Event("Key", press, sent["Key"] + 1)
  <2>1. event \in Events /\ event.kind = "Key" /\ event.number = sent["Key"] + 1
    BY <1>1, EventTypes DEF Event
  <2>2. /\ Send("input", event) /\ ~Sending("input")
        /\ UNCHANGED <<loop, app, lastPress, reduced, turnedAway>>
        /\ UNCHANGED <<detailQueue, flags, sampler, fetching, published>>
        /\ pc' \in [Workers -> {"work", "busy", "done"}]
    BY <1>2, <1>3, <1>5 DEF PressKey, At, Free, Resume, Goto
  <2> HIDE DEF event
  <2>3. UNCHANGED <<shutdown, forced, sensorInterest, controlInterval, signalsClosed,
                    samplerInterval, sequence>>
    BY <2>2 DEF flags, sampler
  <2> QED BY <1>1, <1>3, <1>4, <2>1, <2>2, <2>3, SenderKeeps DEF Kept
<1>6. ASSUME Tick
      PROVE  Kept'
  <2> DEFINE event == Plain("Tick")
  <2>1. event \in Events /\ event.kind = "Tick"
    BY EventTypes DEF Event, Plain
  <2>2. /\ Send("tick", event) /\ ~Sending("tick")
        /\ UNCHANGED <<loop, app, lastPress, reduced, turnedAway>>
        /\ UNCHANGED <<detailQueue, flags, sampler, fetching, published>>
        /\ pc' \in [Workers -> {"work", "busy", "done"}]
    BY <1>2, <1>3, <1>6 DEF Tick, At, Free, Resume, Goto
  <2> HIDE DEF event
  <2>3. UNCHANGED <<shutdown, forced, sensorInterest, controlInterval, signalsClosed,
                    samplerInterval, sequence>>
    BY <2>2 DEF flags, sampler
  <2> QED BY <1>1, <1>3, <1>4, <2>1, <2>2, <2>3, SenderKeeps DEF Kept
<1>7. ASSUME DetailDone
      PROVE  Kept'
  <2> DEFINE event == Event("Detail", fetching, 0)
  <2>1. event \in Events /\ event.kind = "Detail"
    BY <1>1, EventTypes DEF Event
  <2>2. /\ Send("detail", event) /\ ~Sending("detail")
        /\ UNCHANGED <<loop, app, lastPress, reduced, turnedAway>>
        /\ UNCHANGED <<detailQueue, flags, sampler, published>> /\ fetching' = NoProcess
        /\ pc' \in [Workers -> {"work", "busy", "done"}]
    BY <1>2, <1>3, <1>7 DEF DetailDone, At, Free, Resume, Goto
  <2> HIDE DEF event
  <2>3. UNCHANGED <<shutdown, forced, sensorInterest, controlInterval, signalsClosed,
                    samplerInterval, sequence>>
    BY <2>2 DEF flags, sampler
  <2> QED BY <1>1, <1>3, <1>4, <2>1, <2>2, <2>3, SenderKeeps DEF Kept
<1>8. ASSUME SampleDone
      PROVE  Kept'
  <2>1. /\ UNCHANGED <<detailQueue, flags, samplerInterval, fetching, loop, app, reduced, lastPress,
                    turnedAway>>
        /\ UNCHANGED <<shutdown, forced, sensorInterest, controlInterval, signalsClosed>>
        /\ pc' \in [Workers -> {"work", "busy", "done"}] /\ ~Sending("sampler")
    <3>1. UNCHANGED <<detailQueue, flags, samplerInterval, fetching, loop, app, reduced, lastPress,
                    turnedAway>>
      BY <1>8 DEF SampleDone
    <3>2. ~Sending("sampler")
      BY <1>8 DEF SampleDone, At, Free
    <3>3. Resume("sampler") \/ Goto("sampler", "done")
      BY <1>8 DEF SampleDone
    <3>4. pc' \in [Workers -> {"work", "busy", "done"}]
      <4>1. /\ "sampler" \in Workers
            /\ \/ pc' = [pc EXCEPT !["sampler"] = "done"]
               \/ pc' = [pc EXCEPT !["sampler"] = "work"]
        BY <1>3, <3>3 DEF Resume, Goto
      <4> QED BY <1>2, <4>1
    <3> QED BY <3>1, <3>2, <3>4 DEF flags
  <2>2. CASE /\ Send("sampler", Event("Snapshot", NoProcess, sequence + 1))
             /\ sequence' = sequence + 1 /\ published' = sequence'
    <3> DEFINE event == Event("Snapshot", NoProcess, sequence + 1)
    <3>1. event \in Events /\ event.kind = "Snapshot" /\ event.number = sequence + 1
      BY <1>1, EventTypes DEF Event
    <3>2. Send("sampler", event)
      BY <2>2
    <3> HIDE DEF event
    <3>3. /\ published' \in Nat /\ published <= published' /\ published < event.number
          /\ event.number <= published' /\ sequence' \in Nat /\ published' <= sequence'
      BY <1>1, <2>2, <3>1
    <3> QED BY <1>1, <1>3, <1>4, <2>1, <3>1, <3>2, <3>3, SenderKeeps DEF Kept
  <2>3. CASE /\ sequence' \in {sequence, sequence + 1}
             /\ UNCHANGED <<queue, health, sending, sent, published>>
    <3>1. SendersWait' /\ Turn' /\ Lines'
      BY <2>1, <2>3, Frame DEF loop, app
    <3>2. sequence' \in Nat /\ published' \in 0..sequence'
      BY <1>1, <2>3
    <3>3. TypeOK'
      BY <2>1, <2>3, <3>2 DEF IInv, TypeOK, loop, app
    <3>4. Shape'
      BY <2>1, <2>3 DEF IInv, Shape, loop
    <3> QED BY <3>1, <3>3, <3>4 DEF Kept
  <2> QED BY <1>8, <2>2, <2>3 DEF SampleDone
<1> QED BY <1>5, <1>6, <1>7, <1>8

-----------------------------------------------------------------------------
(* The steps of the loop *)

\* The loop moves on with the events and effects it holds.
LEMMA PlainUiSteps ==
  ASSUME IInv
  PROVE  /\ Draw => Kept'
         /\ DrawFails => Kept'
         /\ ReceiveTimesOut => Kept'
         /\ DrainDone => Kept'
         /\ EndTurn => Kept'
         /\ CloseDown => Kept'
         /\ Restore => Kept'
         /\ JoinAll => Kept'
<1>1. ASSUME UNCHANGED <<queue, health, detailQueue, sending, pc, sampler, fetching, batch, effects,
                         latest, displayedLag, sensorView, sampleInterval, detailRequest,
                         shouldQuit, history, sensorInterest, forced>>,
             shutdown' \in BOOLEAN, signalsClosed' \in BOOLEAN, unrendered' \in BOOLEAN,
             terminal' \in {"raw", "restored"},
             ui' \in {"draw", "receive", "reduce", "close", "restore", "join", "exited", "failed"},
             controlInterval' \in Nat \ {0},
             TurnShape', IntervalTold'
      PROVE  Kept'
  <2>1. SendersWait' /\ Lines'
    BY <1>1, Frame DEF history
  <2>2. TypeOK'
    BY <1>1 DEF IInv, TypeOK, sampler, history
  <2>3. Shape'
    BY <1>1 DEF IInv, Shape
  <2>4. SensorsPending'
    BY <1>1 DEF IInv, SensorsPending
  <2> QED BY <1>1, <2>1, <2>2, <2>3, <2>4 DEF Kept, Turn
<1>2. /\ shutdown \in BOOLEAN /\ signalsClosed \in BOOLEAN /\ unrendered \in BOOLEAN
      /\ terminal \in {"raw", "restored"} /\ controlInterval \in Nat \ {0}
      /\ sampleInterval \in Nat \ {0} /\ TurnShape /\ IntervalTold
  BY DEF IInv, TypeOK
<1>3. ASSUME Draw
      PROVE  Kept'
  <2>1. TurnShape' /\ IntervalTold'
    BY <1>2, <1>3 DEF Draw, UiAt, TurnShape, IntervalTold, flags
  <2> QED BY <1>1, <1>2, <1>3, <2>1 DEF Draw, channels, flags
<1>4. ASSUME DrawFails
      PROVE  Kept'
  <2>1. TurnShape' /\ IntervalTold'
    BY <1>2, <1>4 DEF DrawFails, UiAt, TurnShape, IntervalTold, flags
  <2> QED BY <1>1, <1>2, <1>4, <2>1 DEF DrawFails, channels, flags, app
<1>5. ASSUME ReceiveTimesOut
      PROVE  Kept'
  <2>1. TurnShape' /\ IntervalTold'
    BY <1>2, <1>5 DEF ReceiveTimesOut, UiAt, TurnShape, IntervalTold, flags
  <2> QED BY <1>1, <1>2, <1>5, <2>1 DEF ReceiveTimesOut, channels, flags, app
<1>6. ASSUME DrainDone
      PROVE  Kept'
  <2>1. TurnShape' /\ IntervalTold'
    BY <1>2, <1>6 DEF DrainDone, UiAt, TurnShape, IntervalTold, flags
  <2> QED BY <1>1, <1>2, <1>6, <2>1 DEF DrainDone, channels, flags, app
<1>7. ASSUME EndTurn
      PROVE  Kept'
  <2>1. TurnShape' /\ IntervalTold'
    BY <1>2, <1>7 DEF EndTurn, UiAt, TurnShape, IntervalTold, flags, app
  <2> QED BY <1>1, <1>2, <1>7, <2>1 DEF EndTurn, channels, app
<1>8. ASSUME CloseDown
      PROVE  Kept'
  <2>1. TurnShape' /\ IntervalTold'
    BY <1>2, <1>8 DEF CloseDown, UiAt, TurnShape, IntervalTold
  <2> QED BY <1>1, <1>2, <1>8, <2>1 DEF CloseDown, channels, app
<1>9. ASSUME Restore
      PROVE  Kept'
  <2>1. TurnShape' /\ IntervalTold'
    BY <1>2, <1>9 DEF Restore, UiAt, TurnShape, IntervalTold
  <2> QED BY <1>1, <1>2, <1>9, <2>1 DEF Restore, channels, flags, app
<1>10. ASSUME JoinAll
       PROVE  Kept'
  <2>1. TurnShape' /\ IntervalTold'
    BY <1>2, <1>10 DEF JoinAll, UiAt, TurnShape, IntervalTold
  <2> QED BY <1>1, <1>2, <1>10, <2>1 DEF JoinAll, channels, flags, app
<1> QED BY <1>3, <1>4, <1>5, <1>6, <1>7, <1>8, <1>9, <1>10

\* The loop takes an event out of the channel.
LEMMA TakingSteps ==
  ASSUME IInv
  PROVE  /\ Receive => Kept'
         /\ Drain => Kept'
<1> USE RuntimeAssumption
<1>1. /\ queue \in Seq(Events) /\ batch \in Seq(Events) /\ latest \in Nat /\ published \in Nat
      /\ lastPress \in Nat /\ sent["Key"] \in Nat /\ Len(queue) <= EventCapacity
      /\ health \in [coalesced : Nat, dropped : Nat]
      /\ Line("Snapshot", batch, queue, latest, published)
      /\ Line("Key", batch, queue, lastPress, sent["Key"])
  BY DEF IInv, TypeOK, Shape, SnapshotLine, KeyLine, Kinds
<1>2. \A event \in Events : event.kind \in Kinds
  BY DEF Events, Kinds
<1>3. ASSUME queue # <<>>, queue' = Tail(queue), batch' \in Seq(Events),
             health' \in [coalesced : Nat, dropped : Nat],
             ui' \in {"drain", "reduce"}, TurnShape',
             UNCHANGED <<detailQueue, flags, pc, sending, sampler, fetching, effects, terminal,
                         app, history>>,
             SnapshotLine', KeyLine'
      PROVE  Kept'
  <2>1. queue' \in Seq(Events) /\ Len(queue') <= EventCapacity
    BY <1>1, <1>3
  <2>2. \A i \in 1..Len(batch') : batch'[i] \in Events
    BY <1>3
  <2>3. \A i \in 1..Len(batch') : batch'[i].kind \in Kinds
    BY <1>2, <2>2
  <2>4. TypeOK'
    <3> HIDE DEF Kinds
    <3> QED BY <1>3, <2>1, <2>3 DEF IInv, TypeOK, flags, sampler, app, history
  <2>5. Shape'
    BY <1>3, <2>1 DEF IInv, Shape
  <2>6. SendersWait'
    BY <1>3, Frame DEF history
  <2>7. SensorsPending' /\ IntervalTold'
    BY <1>3 DEF IInv, SensorsPending, IntervalTold, flags, app
  <2> QED BY <1>3, <2>4, <2>5, <2>6, <2>7 DEF Kept, Turn, Lines
<1>4. ASSUME Receive
      PROVE  Kept'
  <2>1. /\ queue # <<>> /\ queue' = Tail(queue) /\ batch' = <<Head(queue)>> /\ batch = <<>>
        /\ ui' = IF Head(queue).kind = "Snapshot" THEN "drain" ELSE "reduce"
        /\ effects = <<>> /\ effects' = effects
        /\ UNCHANGED <<detailQueue, health, flags, pc, sending, sampler, fetching, terminal,
                       app, history>>
    BY <1>4 DEF Receive, UiAt, IInv, TurnShape
  <2>2. Head(queue) \in Events
    BY <1>1, <2>1
  <2>3. batch' \in Seq(Events) /\ batch' # <<>> /\ Len(batch') = 1 /\ batch'[1] = Head(queue)
    BY <2>1, <2>2
  <2>4. TurnShape'
    BY <2>1, <2>3 DEF TurnShape
  <2>5. SnapshotLine'
    <3>1. Line("Snapshot", <<Head(queue)>>, Tail(queue), latest, published)
      BY <1>1, <2>1, TakeFirst
    <3> QED BY <2>1, <3>1 DEF SnapshotLine, app, history
  <2>6. KeyLine'
    <3>1. Line("Key", <<Head(queue)>>, Tail(queue), lastPress, sent["Key"])
      BY <1>1, <2>1, TakeFirst
    <3> QED BY <2>1, <3>1 DEF KeyLine, history
  <2> QED BY <1>1, <1>3, <2>1, <2>3, <2>4, <2>5, <2>6
<1>5. ASSUME Drain
      PROVE  Kept'
  <2>1. /\ ui = "drain" /\ ui' = ui
        /\ queue # <<>> /\ queue' = Tail(queue) /\ batch' = Drained(batch, Head(queue))
        /\ batch # <<>> /\ batch[1].kind = "Snapshot"
        /\ \A i \in 2..Len(batch) : batch[i].kind # "Snapshot"
        /\ health' \in {health, [health EXCEPT !.coalesced = @ + 1]}
        /\ effects = <<>> /\ effects' = effects
        /\ UNCHANGED <<detailQueue, flags, pc, sending, sampler, fetching, terminal, app, history>>
    BY <1>5 DEF Drain, UiAt, IInv, TurnShape
  <2>2. health' \in [coalesced : Nat, dropped : Nat]
    <3>1. health.coalesced + 1 \in Nat
      BY <1>1
    <3> QED BY <1>1, <2>1, <3>1
  <2>3. /\ batch' \in Seq(Events) /\ batch' # <<>> /\ batch'[1].kind = "Snapshot"
        /\ \A i \in 2..Len(batch') : batch'[i].kind # "Snapshot"
        /\ Line("Snapshot", batch', Tail(queue), latest, published)
        /\ Line("Key", batch', Tail(queue), lastPress, sent["Key"])
    <3> DEFINE new == Drained(batch, Head(queue))
    <3>1. /\ new \in Seq(Events) /\ new # <<>> /\ new[1].kind = "Snapshot"
          /\ \A i \in 2..Len(new) : new[i].kind # "Snapshot"
          /\ \A kind \in {"Snapshot", "Key"}, low, high \in Nat :
               Line(kind, batch, queue, low, high) => Line(kind, new, Tail(queue), low, high)
      BY <1>1, <2>1, TakeNext
    <3>2. Line("Snapshot", new, Tail(queue), latest, published)
      BY <1>1, <3>1
    <3>3. Line("Key", new, Tail(queue), lastPress, sent["Key"])
      BY <1>1, <3>1
    <3>4. batch' = new
      BY <2>1
    <3> HIDE DEF new
    <3> QED BY <3>1, <3>2, <3>3, <3>4
  <2>4. TurnShape'
    BY <2>1, <2>3 DEF TurnShape
  <2>5. SnapshotLine' /\ KeyLine'
    BY <2>1, <2>3 DEF SnapshotLine, KeyLine, app, history
  <2> QED BY <1>3, <2>1, <2>2, <2>3, <2>4, <2>5
<1> QED BY <1>4, <1>5

\* The reducer applies the next event.
LEMMA ReduceStep ==
  ASSUME IInv, Reduce
  PROVE  Kept'
<1> USE RuntimeAssumption
<1> DEFINE event == Head(batch)
<1>1. /\ queue \in Seq(Events) /\ batch \in Seq(Events) /\ effects \in Seq(Effects)
      /\ latest \in Nat /\ published \in Nat /\ lastPress \in Nat /\ sent["Key"] \in Nat
      /\ Line("Snapshot", batch, queue, latest, published)
      /\ Line("Key", batch, queue, lastPress, sent["Key"])
      /\ reduced \in [Kinds -> Nat] /\ displayedLag \in Nat /\ sampleInterval \in Nat \ {0}
      /\ unrendered \in BOOLEAN /\ sensorView \in BOOLEAN /\ shouldQuit \in BOOLEAN
      /\ detailRequest \in Processes \cup {NoProcess}
      /\ Pending(effects, sensorInterest, sensorView)
  BY DEF IInv, TypeOK, Shape, SnapshotLine, KeyLine, Kinds, SensorsPending
<1>2. /\ ui = "reduce" /\ batch # <<>>
      /\ batch' = Tail(batch) /\ ui' = IF Len(batch) = 1 THEN "execute" ELSE "reduce"
      /\ UNCHANGED <<channels, flags, pc, sending, sampler, fetching, terminal, sent, published>>
      /\ reduced' = Count(reduced, event.kind)
      /\ lastPress' = IF event.kind = "Key" THEN event.number ELSE lastPress
      /\ \/ event.kind = "Snapshot" /\ ReduceSnapshot(event.number)
         \/ event.kind = "Detail" /\ ReduceDetail(event.value)
         \/ event.kind = "Key" /\ ReduceKey(event.value)
         \/ event.kind \in {"Tick", "ConfigReloaded"} /\ UNCHANGED <<effects, app>>
  BY DEF Reduce, UiAt, IInv, TurnShape
<1>3. event \in Events /\ Len(batch) \in Nat /\ batch' \in Seq(Events)
  BY <1>1, <1>2
<1>4. Len(batch) # 1 => batch' # <<>>
  <2>1. Len(Tail(batch)) = Len(batch) - 1 /\ Len(<<>>) = 0
    BY <1>1, <1>2
  <2>2. batch' = Tail(batch) /\ Len(batch) \in Nat
    BY <1>2, <1>3
  <2>3. ASSUME batch' = <<>> PROVE Len(batch) = 1
    <3>1. Len(batch) - 1 = 0
      BY <2>1, <2>2, <2>3
    <3> QED BY <2>2, <3>1
  <2> QED BY <2>3
<1>5. Len(batch) = 1 => batch' = <<>>
  BY <1>1, <1>2
<1> HIDE DEF event
<1>6. /\ event.kind \in Kinds /\ event.number \in Nat
      /\ event.kind = "Key" => event.value \in Presses
  BY <1>3 DEF Events, Kinds
<1>7. TurnShape'
  BY <1>2, <1>4, <1>5 DEF TurnShape
<1>8. IntervalTold'
  BY <1>2 DEF IntervalTold
<1>9. reduced' \in [Kinds -> Nat] /\ lastPress' \in Nat
  <2>1. \A kind \in Kinds : reduced[kind] + 1 \in Nat
    BY <1>1
  <2> HIDE DEF Kinds
  <2> QED BY <1>1, <1>2, <1>6, <2>1 DEF Count
<1>10. /\ UNCHANGED <<queue, detailQueue, health, shutdown, forced, sensorInterest, controlInterval,
                      signalsClosed, sequence, samplerInterval>>
  BY <1>2 DEF channels, flags, sampler
<1>11. latest' = IF event.kind = "Snapshot" /\ event.number > latest THEN event.number ELSE latest
  <2>1. CASE event.kind = "Snapshot"
    BY <1>2, <2>1 DEF ReduceSnapshot
  <2>2. CASE event.kind = "Detail"
    BY <1>2, <2>2 DEF ReduceDetail
  <2>3. CASE event.kind = "Key"
    BY <1>2, <2>3 DEF ReduceKey
  <2>4. CASE event.kind \in {"Tick", "ConfigReloaded"}
    BY <1>2, <2>4 DEF app
  <2> QED BY <1>2, <2>1, <2>2, <2>3, <2>4
<1>12. SnapshotLine' /\ latest' \in Nat /\ latest' <= published
  <2>1. /\ event.kind # "Snapshot" => Line("Snapshot", Tail(batch), queue, latest, published)
        /\ event.kind = "Snapshot" =>
             /\ latest < event.number /\ event.number <= published
             /\ Line("Snapshot", Tail(batch), queue, event.number, published)
    BY <1>1, <1>2, ApplyFirst DEF event
  <2>2. latest <= published
    BY <1>1 DEF Line
  <2> QED BY <1>1, <1>2, <1>6, <1>10, <1>11, <2>1, <2>2 DEF SnapshotLine
<1>13. KeyLine'
  <2>1. /\ event.kind # "Key" => Line("Key", Tail(batch), queue, lastPress, sent["Key"])
        /\ event.kind = "Key" => Line("Key", Tail(batch), queue, event.number, sent["Key"])
    BY <1>1, <1>2, ApplyFirst DEF event
  <2> QED BY <1>2, <1>10, <2>1 DEF KeyLine
<1>14. /\ effects' \in Seq(Effects) /\ SensorsPending'
       /\ unrendered' \in BOOLEAN /\ displayedLag' \in Nat /\ sensorView' \in BOOLEAN
       /\ sampleInterval' \in Nat \ {0} /\ detailRequest' \in Processes \cup {NoProcess}
       /\ shouldQuit' \in BOOLEAN
  <2>1. CASE event.kind = "Snapshot"
    <3>1. ReduceSnapshot(event.number)
      BY <1>2, <2>1
    <3>2. UNCHANGED <<effects, sensorView, sampleInterval, detailRequest, shouldQuit>>
      BY <3>1 DEF ReduceSnapshot
    <3>3. /\ unrendered' \in {TRUE, unrendered}
          /\ displayedLag' \in {displayedLag, displayedLag + 1}
      BY <3>1 DEF ReduceSnapshot
    <3>4. displayedLag' \in Nat /\ unrendered' \in BOOLEAN
      <4>1. displayedLag \in Nat /\ displayedLag + 1 \in Nat
        BY <1>1
      <4>2. displayedLag' \in Nat
        BY <3>3, <4>1
      <4>3. unrendered' \in BOOLEAN
        BY <1>1, <3>3
      <4> QED BY <4>2, <4>3
    <3> QED BY <1>1, <1>10, <3>2, <3>4 DEF SensorsPending
  <2>2. CASE event.kind = "Detail"
    BY <1>1, <1>2, <1>10, <2>2 DEF ReduceDetail, SensorsPending
  <2>3. CASE event.kind = "Key"
    <3> DEFINE press == event.value
    <3>1. press \in Presses /\ ReduceKey(press)
      BY <1>2, <1>6, <2>3
    <3>2. \/ press.key = "Inspect" /\ press.value \in Processes
          \/ press.key = "Interval" /\ press.value \in Intervals
          \/ press.key \in {"Refresh", "CloseDetail", "OpenBattery", "OpenOther", "Reload", "Quit"}
      BY <3>1
    <3> HIDE DEF press
    <3>3. unrendered' = unrendered /\ displayedLag' = displayedLag
      BY <3>1 DEF ReduceKey
    <3>4. CASE \/ press.key \in {"Refresh", "Reload", "Quit"}
               \/ press.key = "Inspect" /\ press.value \in Processes
      <4>1. PICK effect \in Effects : /\ effects' = Append(effects, effect)
                                      /\ effect.kind # "SetSensorInterest"
        <5> DEFINE added == Effect(CASE press.key = "Refresh" -> "RequestSample"
                                     [] press.key = "Reload" -> "ReloadConfig"
                                     [] press.key = "Quit" -> "Shutdown"
                                     [] press.key = "Inspect" -> "FetchProcessDetail",
                                   IF press.key = "Inspect" THEN press.value ELSE NoProcess)
        <5>1. effects' = Append(effects, added)
          BY <3>1, <3>4 DEF ReduceKey
        <5>2. added \in Effects /\ added.kind # "SetSensorInterest"
          BY <3>4 DEF Effect, Effects
        <5> QED BY <5>1, <5>2
      <4>2. /\ sensorView' = sensorView /\ sampleInterval' = sampleInterval
            /\ detailRequest' \in Processes \cup {NoProcess} /\ shouldQuit' \in BOOLEAN
        BY <1>1, <3>1, <3>4 DEF ReduceKey
      <4>3. Pending(Append(effects, effect), sensorInterest, sensorView)
        BY <1>1, <4>1, AddEffect
      <4>4. effects' \in Seq(Effects)
        BY <1>1, <4>1
      <4> QED BY <1>1, <1>10, <3>3, <4>1, <4>2, <4>3, <4>4 DEF SensorsPending
    <3>5. CASE press.key \in {"OpenBattery", "OpenOther"}
      <4>1. /\ sensorView' \in BOOLEAN
            /\ effects' = IF sensorView' # sensorView
                          THEN Append(effects, Effect("SetSensorInterest", sensorView'))
                          ELSE effects
            /\ UNCHANGED <<sampleInterval, detailRequest, shouldQuit>>
        BY <3>1, <3>5 DEF ReduceKey
      <4>2. CASE sensorView' # sensorView
        <5> DEFINE effect == Effect("SetSensorInterest", sensorView')
        <5>1. effect \in Effects /\ effect.kind = "SetSensorInterest" /\ effect.value = sensorView'
          BY <4>1 DEF Effect, Effects
        <5>2. effects' = Append(effects, effect)
          BY <4>1, <4>2
        <5> HIDE DEF effect
        <5>3. Pending(Append(effects, effect), sensorInterest, sensorView')
          BY <1>1, <5>1, AddEffect
        <5>4. effects' \in Seq(Effects)
          BY <1>1, <5>1, <5>2
        <5> QED BY <1>1, <1>10, <3>3, <4>1, <5>2, <5>3, <5>4 DEF SensorsPending
      <4>3. CASE sensorView' = sensorView
        BY <1>1, <1>10, <3>3, <4>1, <4>3 DEF SensorsPending
      <4> QED BY <4>2, <4>3
    <3>6. CASE press.key \in {"CloseDetail", "Interval"}
      <4>1. effects' = effects /\ sensorView' = sensorView /\ shouldQuit' = shouldQuit
        BY <3>1, <3>6 DEF ReduceKey
      <4>2. sampleInterval' \in Nat \ {0} /\ detailRequest' \in Processes \cup {NoProcess}
        BY <1>1, <3>1, <3>2, <3>6 DEF ReduceKey
      <4> QED BY <1>1, <1>10, <3>3, <4>1, <4>2 DEF SensorsPending
    <3> QED BY <3>2, <3>4, <3>5, <3>6
  <2>4. CASE event.kind \in {"Tick", "ConfigReloaded"}
    BY <1>1, <1>2, <1>10, <2>4 DEF app, SensorsPending
  <2> QED BY <1>2, <2>1, <2>2, <2>3, <2>4
<1>15. \A i \in 1..Len(batch') : batch'[i].kind \in Kinds
  <2>1. \A i \in 1..Len(batch') : batch'[i] \in Events
    BY <1>3
  <2> QED BY <2>1 DEF Events, Kinds
<1>16. TypeOK'
  <2>1. ui' \in {"reduce", "execute"} /\ latest' \in 0..published'
    BY <1>2, <1>12
  <2>2. UNCHANGED <<pc, sending, fetching, terminal, sent, published>>
    BY <1>2
  <2>3. turnedAway' = turnedAway
    BY DEF Reduce
  <2> HIDE DEF Kinds
  <2> QED BY <1>9, <1>10, <1>14, <1>15, <2>1, <2>2, <2>3 DEF IInv, TypeOK
<1>17. Shape'
  BY <1>2, <1>3, <1>10, <1>14 DEF IInv, Shape
<1>18. SendersWait'
  BY <1>2, Frame
<1> QED BY <1>7, <1>8, <1>12, <1>13, <1>14, <1>16, <1>17, <1>18 DEF Kept, Turn, Lines

\* The loop executes the next effect.
LEMMA ExecuteStep ==
  ASSUME IInv, Execute
  PROVE  Kept'
<1> USE RuntimeAssumption
<1> DEFINE effect == Head(effects)
<1>1. /\ effects \in Seq(Effects) /\ detailQueue \in Seq(Processes)
      /\ Len(detailQueue) <= DetailCapacity /\ Len(detailQueue) \in Nat
      /\ sampleInterval \in Nat \ {0} /\ controlInterval \in Nat \ {0}
      /\ shutdown \in BOOLEAN /\ forced \in BOOLEAN /\ sensorInterest \in BOOLEAN
      /\ turnedAway \in BOOLEAN
      /\ Pending(effects, sensorInterest, sensorView)
      /\ published \in Nat
  BY DEF IInv, TypeOK, Shape, SensorsPending
<1>2. /\ ui = "execute" /\ ~Sending("ui") /\ effects # <<>> /\ effects' = Tail(effects)
      /\ batch = <<>>
      /\ UNCHANGED <<signalsClosed, pc, sampler, fetching, ui, batch, terminal, latest,
                     unrendered, displayedLag, sensorView, detailRequest, shouldQuit,
                     reduced, published, lastPress>>
      /\ \/ effect.kind = "RequestSample" /\ RequestSample
         \/ effect.kind = "SetSensorInterest" /\ SetSensorInterest(effect.value)
         \/ effect.kind = "FetchProcessDetail" /\ FetchProcessDetail(effect.value)
         \/ effect.kind = "ReloadConfig" /\ ReloadConfig
         \/ effect.kind = "Shutdown" /\ TriggerShutdown
  BY DEF Execute, UiAt, Free, IInv, TurnShape
<1>3. effect \in Effects /\ effects' \in Seq(Effects)
  BY <1>1, <1>2
<1> HIDE DEF effect
<1>4. /\ effect.kind = "SetSensorInterest" => effect.value \in BOOLEAN
      /\ effect.kind = "FetchProcessDetail" => effect.value \in Processes
  BY <1>3 DEF Effects
<1>5. /\ sensorInterest' = IF effect.kind = "SetSensorInterest" THEN effect.value ELSE sensorInterest
      /\ sensorInterest' \in BOOLEAN
  <2>1. CASE effect.kind = "SetSensorInterest"
    BY <1>2, <1>4, <2>1 DEF SetSensorInterest
  <2>2. CASE effect.kind # "SetSensorInterest" /\ effect.kind # "ReloadConfig"
    BY <1>1, <1>2, <2>2 DEF RequestSample, FetchProcessDetail, TriggerShutdown
  <2>3. CASE effect.kind = "ReloadConfig"
    BY <1>1, <1>2, <2>3 DEF ReloadConfig
  <2> QED BY <2>1, <2>2, <2>3
<1>6. SensorsPending'
  <2>1. Pending(Tail(effects), sensorInterest', sensorView)
    BY <1>1, <1>2, <1>5, DoEffect DEF effect
  <2> QED BY <1>2, <2>1 DEF SensorsPending
<1>7. TurnShape' /\ IntervalTold'
  BY <1>2 DEF TurnShape, IntervalTold
<1>8. ASSUME queue' \in Seq(Events), Len(queue') <= EventCapacity,
             sending' \in [Threads -> Events \cup {Nothing}], sent' \in [Kinds -> Nat],
             health' \in [coalesced : Nat, dropped : Nat],
             \A t \in Threads : sending'[t].kind \in Kinds \cup {"Nothing"},
             SendersWait', SnapshotLine', KeyLine',
             detailQueue' \in Seq(Processes), Len(detailQueue') <= DetailCapacity,
             shutdown' \in BOOLEAN, forced' \in BOOLEAN, turnedAway' \in BOOLEAN,
             controlInterval' \in Nat \ {0}, sampleInterval' \in Nat \ {0}
      PROVE  Kept'
  <2>1. TypeOK'
    <3> HIDE DEF Kinds, Threads
    <3> QED BY <1>2, <1>5, <1>8 DEF IInv, TypeOK, sampler
  <2>2. Shape'
    BY <1>2, <1>3, <1>8 DEF IInv, Shape
  <2> QED BY <1>6, <1>7, <1>8, <2>1, <2>2 DEF Kept, Turn, Lines
<1>9. CASE effect.kind = "ReloadConfig"
  <2>1. /\ Send("ui", Plain("ConfigReloaded"))
        /\ UNCHANGED <<detailQueue, shutdown, forced, sensorInterest, turnedAway>>
        /\ \/ UNCHANGED <<sampleInterval, controlInterval>>
           \/ \E interval \in Intervals : sampleInterval' = interval /\ controlInterval' = interval
    BY <1>2, <1>9 DEF ReloadConfig
  <2>2. sampleInterval' \in Nat \ {0} /\ controlInterval' \in Nat \ {0}
    BY <1>1, <2>1
  <2> DEFINE event == Plain("ConfigReloaded")
  <2>3. event \in Events /\ event.kind = "ConfigReloaded" /\ event.kind \in Kinds
    BY EventTypes DEF Plain, Event, Kinds
  <2>4. Send("ui", event) /\ "ui" \in Threads
    BY <2>1 DEF Threads
  <2> HIDE DEF event
  <2>5. /\ queue' \in Seq(Events) /\ Len(queue') <= EventCapacity
        /\ sending' \in [Threads -> Events \cup {Nothing}] /\ sent' \in [Kinds -> Nat]
        /\ health' \in [coalesced : Nat, dropped : Nat]
        /\ \A t \in Threads : sending'[t].kind \in Kinds \cup {"Nothing"}
        /\ SendersWait' /\ SnapshotLine' /\ KeyLine'
    <3>1. /\ batch' = batch /\ latest' = latest /\ lastPress' = lastPress
          /\ published' \in Nat /\ published <= published'
      BY <1>1, <1>2
    <3> QED BY <1>2, <2>3, <2>4, <3>1, SendKeeps
  <2> QED BY <1>1, <1>8, <2>1, <2>2, <2>5
<1>10. ASSUME UNCHANGED <<queue, health, sending, sent, sampleInterval, controlInterval>>,
              shutdown' \in BOOLEAN, forced' \in BOOLEAN, turnedAway' \in BOOLEAN,
              detailQueue' \in Seq(Processes), Len(detailQueue') <= DetailCapacity
       PROVE  Kept'
  <2>1. SendersWait' /\ SnapshotLine' /\ KeyLine'
    BY <1>2, <1>10, Frame DEF Lines
  <2>2. /\ queue' \in Seq(Events) /\ Len(queue') <= EventCapacity
        /\ sending' \in [Threads -> Events \cup {Nothing}] /\ sent' \in [Kinds -> Nat]
        /\ health' \in [coalesced : Nat, dropped : Nat]
        /\ \A t \in Threads : sending'[t].kind \in Kinds \cup {"Nothing"}
    BY <1>10 DEF IInv, TypeOK, Shape
  <2> QED BY <1>1, <1>8, <1>10, <2>1, <2>2
<1>11. CASE effect.kind = "RequestSample"
  BY <1>1, <1>2, <1>10, <1>11 DEF RequestSample, channels
<1>12. CASE effect.kind = "SetSensorInterest"
  BY <1>1, <1>2, <1>10, <1>12 DEF SetSensorInterest, channels
<1>13. CASE effect.kind = "Shutdown"
  BY <1>1, <1>2, <1>10, <1>13 DEF TriggerShutdown, channels
<1>14. CASE effect.kind = "FetchProcessDetail"
  <2>1. /\ FetchProcessDetail(effect.value) /\ effect.value \in Processes
    BY <1>2, <1>4, <1>14
  <2>2. detailQueue' \in Seq(Processes) /\ Len(detailQueue') <= DetailCapacity
    <3>1. /\ Append(detailQueue, effect.value) \in Seq(Processes)
          /\ Len(Append(detailQueue, effect.value)) = Len(detailQueue) + 1
          /\ Len(detailQueue) \in Nat /\ DetailCapacity \in Nat
          /\ Len(detailQueue) <= DetailCapacity
      BY <1>1, <2>1
    <3>2. CASE Len(detailQueue) = DetailCapacity
      BY <1>1, <2>1, <3>2 DEF FetchProcessDetail
    <3>3. CASE Len(detailQueue) # DetailCapacity
      <4>1. detailQueue' = Append(detailQueue, effect.value)
        BY <2>1, <3>3 DEF FetchProcessDetail
      <4> QED BY <3>1, <3>3, <4>1
    <3> QED BY <3>2, <3>3
  <2> QED BY <1>1, <1>10, <2>1, <2>2 DEF FetchProcessDetail
<1> QED BY <1>2, <1>9, <1>11, <1>12, <1>13, <1>14

-----------------------------------------------------------------------------
(* The theorems *)

LEMMA Start == Init => IInv
<1> SUFFICES ASSUME Init PROVE IInv
  OBVIOUS
<1> USE RuntimeAssumption
<1>1. TypeOK
  <2>1. /\ \A thread \in Threads : sending[thread] = Nothing
        /\ sent \in [Kinds -> Nat] /\ reduced \in [Kinds -> Nat]
        /\ pc \in [Workers -> {"work", "busy", "done"}]
    BY DEF Init
  <2>2. /\ <<>> \in Seq(Processes) /\ Len(<<>>) = 0
        /\ [coalesced |-> 0, dropped |-> 0] \in [coalesced : Nat, dropped : Nat]
    OBVIOUS
  <2>3. sampleInterval \in Nat \ {0} /\ controlInterval = sampleInterval
        /\ samplerInterval = sampleInterval
    BY DEF Init
  <2>4. \A thread \in Threads : sending[thread].kind \in Kinds \cup {"Nothing"}
    BY <2>1, EventTypes
  <2>5. /\ sequence \in Nat /\ published \in 0..sequence /\ latest \in 0..published
        /\ displayedLag \in Nat /\ lastPress \in Nat
    BY DEF Init
  <2>6. /\ Len(queue) <= EventCapacity /\ Len(detailQueue) <= DetailCapacity
        /\ detailQueue \in Seq(Processes) /\ health \in [coalesced : Nat, dropped : Nat]
        /\ \A i \in 1..Len(batch) : batch[i].kind \in Kinds
    BY <2>2 DEF Init
  <2> HIDE DEF Threads, Kinds, Workers
  <2> QED BY <2>1, <2>3, <2>4, <2>5, <2>6 DEF Init, TypeOK
<1>2. Shape
  BY DEF Init, Shape
<1>3. SendersWait
  BY EventTypes DEF Init, SendersWait, Threads, Workers
<1>4. TurnShape
  BY DEF Init, TurnShape
<1>5. Len(<<>>) = 0
  OBVIOUS
<1>6. SnapshotLine
  BY <1>5 DEF Init, SnapshotLine, Line, Ordered, Precedes, Within
<1>7. KeyLine
  BY <1>5 DEF Init, KeyLine, Line, Ordered, Precedes, Within, Kinds
<1>8. SensorsPending /\ IntervalTold
  <2>1. effects = <<>> /\ sensorInterest = sensorView /\ controlInterval = sampleInterval
    BY DEF Init
  <2>2. Pending(<<>>, sensorInterest, sensorView)
    BY <1>5, <2>1 DEF Pending
  <2> QED BY <2>1, <2>2 DEF SensorsPending, IntervalTold
<1> QED BY <1>1, <1>2, <1>3, <1>4, <1>6, <1>7, <1>8 DEF IInv

LEMMA Step == IInv /\ [Next]_vars => IInv'
<1> SUFFICES ASSUME IInv, [Next]_vars PROVE IInv'
  OBVIOUS
<1>1. CASE UNCHANGED vars
  <2>1. SendersWait' /\ Turn' /\ Lines'
    BY <1>1, Frame DEF vars, channels, flags, loop, app, history
  <2>2. TypeOK'
    BY <1>1 DEF IInv, TypeOK, vars, channels, flags, sampler, loop, app, history
  <2>3. Shape'
    BY <1>1 DEF IInv, Shape, vars, channels, loop
  <2> QED BY <2>1, <2>2, <2>3, KeptIsIInv DEF Kept
<1>2. ASSUME NEW worker \in Workers, Leave(worker)
      PROVE  IInv'
  BY <1>2, WorkerSteps, KeptIsIInv
<1>3. ASSUME NEW thread \in Threads, FinishSend(thread)
      PROVE  IInv'
  BY <1>3, FinishSendKeeps, KeptIsIInv DEF Kept
<1>4. ASSUME NEW press \in Presses, PressKey(press)
      PROVE  IInv'
  BY <1>4, SenderSteps, KeptIsIInv
<1>5. CASE InputFails \/ SamplerPass \/ TakeRequest \/ SignalArrives \/ SignalsEnd
  BY <1>5, WorkerSteps, KeptIsIInv
<1>6. CASE Tick \/ SampleDone \/ DetailDone
  BY <1>6, SenderSteps, KeptIsIInv
<1>7. CASE UiStep \/ DrawFails
  BY <1>7, PlainUiSteps, TakingSteps, ReduceStep, ExecuteStep, KeptIsIInv DEF UiStep
<1> QED BY <1>1, <1>2, <1>3, <1>4, <1>5, <1>6, <1>7 DEF Next, SamplerStep, DetailStep

LEMMA Inductive == Spec => []IInv
BY Start, Step, PTL DEF Spec

\* Every variable keeps a value of its kind.
THEOREM TypeSafety == Spec => []TypeOK
<1>1. IInv => TypeOK
  BY DEF IInv
<1> QED BY <1>1, Inductive, PTL

\* Through the channel, the drain and the reducer, snapshots stay in the order
\* they were captured: what waits is newer than what is shown, so the loop never
\* hands the reducer a snapshot it refuses.
SnapshotsInOrder ==
  LET waiting == batch \o queue
      snapshots == {i \in 1..Len(waiting) : waiting[i].kind = "Snapshot"}
  IN  /\ \A i, j \in snapshots : i < j => waiting[i].number < waiting[j].number
      /\ \A i \in snapshots : latest < waiting[i].number /\ waiting[i].number <= published

\* Snapshots keep their order from the sampler to the screen, whatever the channel
\* refuses and the drain replaces: runtime.rs, send and drain_to_newest_snapshot.
THEOREM SnapshotOrder == Spec => []SnapshotsInOrder
<1>1. IInv => SnapshotsInOrder
  <2> SUFFICES ASSUME IInv PROVE SnapshotsInOrder
    OBVIOUS
  <2> DEFINE waiting == batch \o queue
  <2>1. /\ queue \in Seq(Events) /\ batch \in Seq(Events)
        /\ Len(queue) \in Nat /\ Len(batch) \in Nat
        /\ Line("Snapshot", batch, queue, latest, published)
    BY DEF IInv, Shape, SnapshotLine
  <2>2. /\ Len(waiting) = Len(batch) + Len(queue)
        /\ \A i \in 1..Len(batch) : waiting[i] = batch[i]
        /\ \A i \in 1..Len(waiting) : i > Len(batch) => waiting[i] = queue[i - Len(batch)]
    BY <2>1
  <2> HIDE DEF waiting
  <2>3. ASSUME NEW i \in 1..Len(waiting)
        PROVE  \/ i \in 1..Len(batch) /\ waiting[i] = batch[i]
               \/ /\ i > Len(batch) /\ i - Len(batch) \in 1..Len(queue)
                  /\ waiting[i] = queue[i - Len(batch)]
    BY <2>1, <2>2
  <2>4. ASSUME NEW i \in 1..Len(waiting), waiting[i].kind = "Snapshot"
        PROVE  latest < waiting[i].number /\ waiting[i].number <= published
    BY <2>1, <2>3, <2>4 DEF Line, Within
  <2>5. ASSUME NEW i \in 1..Len(waiting), NEW j \in 1..Len(waiting), i < j,
               waiting[i].kind = "Snapshot", waiting[j].kind = "Snapshot"
        PROVE  waiting[i].number < waiting[j].number
    <3>1. CASE i \in 1..Len(batch) /\ j \in 1..Len(batch)
      BY <2>1, <2>2, <2>5, <3>1 DEF Line, Ordered
    <3>2. CASE i \in 1..Len(batch) /\ j > Len(batch)
      <4>1. j - Len(batch) \in 1..Len(queue) /\ waiting[j] = queue[j - Len(batch)]
        BY <2>1, <2>2, <3>2
      <4> QED BY <2>1, <2>2, <2>5, <3>2, <4>1 DEF Line, Precedes
    <3>3. CASE i > Len(batch) /\ j > Len(batch)
      <4>1. /\ j - Len(batch) \in 1..Len(queue) /\ waiting[j] = queue[j - Len(batch)]
            /\ i - Len(batch) \in 1..Len(queue) /\ waiting[i] = queue[i - Len(batch)]
            /\ i - Len(batch) < j - Len(batch)
        BY <2>1, <2>2, <2>5, <3>3
      <4> QED BY <2>1, <2>5, <4>1 DEF Line, Ordered
    <3> QED BY <2>1, <2>2, <2>5, <3>1, <3>2, <3>3
  <2> QED BY <2>4, <2>5 DEF SnapshotsInOrder, waiting
<1> QED BY <1>1, Inductive, PTL

\* The loop publishes what the reducer settled on before it waits again, however many
\* effects the turn had: interactive.rs, run and execute.
THEOREM FlagsFollowTheState == Spec => []TurnPublishesState
<1>1. IInv => TurnPublishesState
  <2> SUFFICES ASSUME IInv, ui \in {"draw", "receive"}
               PROVE  sensorInterest = sensorView /\ controlInterval = sampleInterval
    BY DEF TurnPublishesState
  <2>1. effects = <<>> /\ Len(<<>>) = 0
    BY DEF IInv, TurnShape
  <2>2. sensorInterest = sensorView
    BY <2>1 DEF IInv, SensorsPending, Pending
  <2> QED BY <2>2 DEF IInv, IntervalTold
<1> QED BY <1>1, Inductive, PTL

\* Whatever thread delays, drains or drops, the keys that are applied are applied
\* in the order they were pressed.
KeysInOrder == [][lastPress' # lastPress => lastPress' > lastPress]_vars

\* Keys are applied in the order they were pressed: no thread, drain or full channel
\* puts a later one first.
THEOREM KeyOrder == Spec => KeysInOrder
<1>1. IInv /\ [Next]_vars => [lastPress' # lastPress => lastPress' > lastPress]_vars
  <2> SUFFICES ASSUME IInv, Next, lastPress' # lastPress
               PROVE  lastPress' > lastPress
    OBVIOUS
  <2>1. CASE Reduce
    <3>1. batch # <<>>
      BY <2>1 DEF Reduce, UiAt, IInv, TurnShape
    <3>2. Head(batch).kind = "Key" /\ lastPress' = Head(batch).number
      BY <2>1 DEF Reduce
    <3>3. /\ batch \in Seq(Events) /\ queue \in Seq(Events) /\ lastPress \in Nat
          /\ sent["Key"] \in Nat /\ Line("Key", batch, queue, lastPress, sent["Key"])
      BY DEF IInv, TypeOK, Shape, KeyLine, Kinds
    <3>4. lastPress < Head(batch).number
      BY <3>1, <3>2, <3>3, ApplyFirst
    <3>5. Head(batch).number \in Nat
      BY <3>1, <3>3 DEF Events
    <3> QED BY <3>2, <3>3, <3>4, <3>5
  <2>2. CASE ~Reduce
    <3>1. lastPress' = lastPress
      BY <2>2 DEF Next, SamplerStep, DetailStep, UiStep, Leave, FinishSend, PressKey, InputFails,
         Tick, SamplerPass, SampleDone, TakeRequest, DetailDone, SignalArrives, SignalsEnd, Draw,
         DrawFails, Receive, ReceiveTimesOut, Drain, DrainDone, Execute, EndTurn, CloseDown,
         Restore, JoinAll, history
    <3> QED BY <3>1
  <2> QED BY <2>1, <2>2
<1> QED BY <1>1, Inductive, PTL DEF KeysInOrder, Spec
-----------------------------------------------------------------------------
(* What is lost is counted *)

Places(kinds, events) == {i \in DOMAIN events : events[i].kind \in kinds}

One(event, kinds) == IF event.kind \in kinds THEN 1 ELSE 0

LEMMA PlacesFinite ==
  ASSUME NEW kinds, NEW events \in Seq(Events)
  PROVE  /\ IsFiniteSet(Places(kinds, events)) /\ Held(kinds, events) \in Nat
         /\ Held(kinds, events) = Cardinality(Places(kinds, events))
<1>1. DOMAIN events = 1..Len(events) /\ Len(events) \in Nat
  OBVIOUS
<1>2. IsFiniteSet(1..Len(events))
  BY <1>1, FS_Interval
<1>3. Places(kinds, events) \in SUBSET (1..Len(events))
  BY <1>1 DEF Places
<1>4. IsFiniteSet(Places(kinds, events))
  BY <1>2, <1>3, FS_Subset
<1> QED BY <1>4, FS_CardinalityType DEF Held, Places

\* One more event is held.
LEMMA HeldAppended ==
  ASSUME NEW kinds, NEW events \in Seq(Events), NEW event \in Events
  PROVE  Held(kinds, Append(events, event)) = Held(kinds, events) + One(event, kinds)
<1> DEFINE longer == Append(events, event)
<1>1. /\ Len(events) \in Nat /\ DOMAIN events = 1..Len(events)
      /\ longer \in Seq(Events) /\ DOMAIN longer = 1..(Len(events) + 1)
      /\ \A i \in 1..Len(events) : longer[i] = events[i]
      /\ longer[Len(events) + 1] = event
  OBVIOUS
<1> HIDE DEF longer
<1>2. Len(events) + 1 \notin Places(kinds, events)
  BY <1>1 DEF Places
<1>3. /\ IsFiniteSet(Places(kinds, events)) /\ Held(kinds, events) \in Nat
      /\ Held(kinds, events) = Cardinality(Places(kinds, events))
      /\ Held(kinds, longer) = Cardinality(Places(kinds, longer))
  BY <1>1, PlacesFinite
<1>4. CASE event.kind \in kinds
  <2>1. Places(kinds, longer) = Places(kinds, events) \cup {Len(events) + 1}
    BY <1>1, <1>4 DEF Places
  <2>2. Cardinality(Places(kinds, longer)) = Cardinality(Places(kinds, events)) + 1
    BY <1>2, <1>3, <2>1, FS_AddElement
  <2> QED BY <1>3, <1>4, <2>2 DEF One, longer
<1>5. CASE event.kind \notin kinds
  <2>1. Places(kinds, longer) = Places(kinds, events)
    BY <1>1, <1>5 DEF Places
  <2> QED BY <1>3, <1>5, <2>1 DEF One, longer
<1> QED BY <1>4, <1>5

\* The first event is taken.
LEMMA HeldTaken ==
  ASSUME NEW kinds, NEW events \in Seq(Events), events # <<>>
  PROVE  Held(kinds, events) = Held(kinds, Tail(events)) + One(Head(events), kinds)
<1> DEFINE rest  == Tail(events)
           later == Places(kinds, events) \ {1}
           shift == [i \in Places(kinds, rest) |-> i + 1]
<1>1. /\ Len(events) \in Nat \ {0} /\ DOMAIN events = 1..Len(events)
      /\ rest \in Seq(Events) /\ DOMAIN rest = 1..(Len(events) - 1)
      /\ \A i \in 1..(Len(events) - 1) : rest[i] = events[i + 1]
      /\ Head(events) = events[1]
  OBVIOUS
<1> HIDE DEF rest
<1>2. shift \in Bijection(Places(kinds, rest), later)
  <2>1. \A i \in Places(kinds, rest) : i \in Nat /\ i + 1 \in later
    BY <1>1 DEF Places
  <2>2. shift \in Injection(Places(kinds, rest), later)
    <3>1. shift \in [Places(kinds, rest) -> later]
      BY <2>1
    <3>2. \A i, j \in Places(kinds, rest) : shift[i] = shift[j] => i = j
      BY <2>1
    <3> HIDE DEF shift, later
    <3> QED BY <3>1, <3>2, Fun_IsInj
  <2>3. \A j \in later : \E i \in Places(kinds, rest) : shift[i] = j
    <3> TAKE j \in later
    <3>1. j \in 2..Len(events) /\ events[j].kind \in kinds
      BY <1>1 DEF Places
    <3>2. j - 1 \in 1..(Len(events) - 1) /\ (j - 1) + 1 = j
      BY <1>1, <3>1
    <3>3. rest[j - 1] = events[j]
      BY <1>1, <3>2
    <3>4. j - 1 \in Places(kinds, rest)
      BY <1>1, <3>1, <3>2, <3>3 DEF Places
    <3> QED BY <3>2, <3>4
  <2> HIDE DEF shift, later
  <2>4. shift \in Surjection(Places(kinds, rest), later)
    BY <2>2, <2>3, Fun_IsSurj DEF Injection
  <2> QED BY <2>2, <2>4 DEF Bijection
<1> HIDE DEF shift, later
<1>3. Cardinality(later) = Held(kinds, rest) /\ Held(kinds, rest) \in Nat
  <2>1. ExistsBijection(Places(kinds, rest), later)
    BY <1>2 DEF ExistsBijection
  <2> QED BY <1>1, <2>1, PlacesFinite, FS_Bijection
<1>4. Cardinality(later) = IF 1 \in Places(kinds, events) THEN Held(kinds, events) - 1
                           ELSE Held(kinds, events)
  <2>1. /\ IsFiniteSet(Places(kinds, events))
        /\ Held(kinds, events) = Cardinality(Places(kinds, events))
    BY PlacesFinite
  <2> QED BY <2>1, FS_RemoveElement DEF later
<1>5. 1 \in Places(kinds, events) <=> Head(events).kind \in kinds
  BY <1>1 DEF Places
<1> QED BY <1>3, <1>4, <1>5, PlacesFinite DEF One, rest

\* The event in front gives its place to another, both of these kinds or neither.
LEMMA HeldReplaced ==
  ASSUME NEW kinds, NEW events \in Seq(Events), NEW event \in Events,
         event.kind \in kinds <=> events[1].kind \in kinds
  PROVE  Held(kinds, [events EXCEPT ![1] = event]) = Held(kinds, events)
<1>1. Places(kinds, [events EXCEPT ![1] = event]) = Places(kinds, events)
  BY DEF Places
<1> QED BY <1>1 DEF Held, Places

LEMMA HeldNothing == \A kinds : Held(kinds, <<>>) = 0
<1> TAKE kinds
<1>1. Places(kinds, <<>>) = {}
  BY DEF Places
<1> QED BY <1>1, FS_EmptySet DEF Held, Places

LEMMA EventKinds ==
  /\ \A event \in Events : event.kind \in Kinds
  /\ \A event \in Events :
       One(event, Lasting) = 1 - One(event, Replaceable) /\ One(event, Lasting) \in {0, 1}
  /\ \A event \in Events : Coalescable(event) <=> event.kind \in Replaceable
BY DEF Events, Kinds, One, Lasting, Replaceable, Coalescable

LEMMA TallyCounts ==
  ASSUME NEW tally \in [Kinds -> Nat], NEW event \in Events
  PROVE  LET new == Count(tally, event.kind)
         IN  /\ AllReplaceable(new) = AllReplaceable(tally) + One(event, Replaceable)
             /\ AllLasting(new) = AllLasting(tally) + One(event, Lasting)
             /\ AllReplaceable(tally) \in Nat /\ AllLasting(tally) \in Nat
             /\ AllReplaceable(new) \in Nat /\ AllLasting(new) \in Nat
<1>1. event.kind \in Kinds
  BY EventKinds
<1>2. \A kind \in Kinds : tally[kind] \in Nat
  OBVIOUS
<1>3. \A kind \in Kinds : Count(tally, event.kind)[kind] =
                            IF kind = event.kind THEN tally[kind] + 1 ELSE tally[kind]
  BY <1>1 DEF Count
<1> DEFINE new == Count(tally, event.kind)
<1> HIDE DEF new
<1>4. /\ tally["Snapshot"] \in Nat /\ tally["Tick"] \in Nat /\ tally["Key"] \in Nat
      /\ tally["Detail"] \in Nat /\ tally["ConfigReloaded"] \in Nat
  BY <1>2 DEF Kinds
<1>5. /\ new["Snapshot"] = IF event.kind = "Snapshot" THEN tally["Snapshot"] + 1
                                                      ELSE tally["Snapshot"]
      /\ new["Tick"] = IF event.kind = "Tick" THEN tally["Tick"] + 1 ELSE tally["Tick"]
      /\ new["Key"] = IF event.kind = "Key" THEN tally["Key"] + 1 ELSE tally["Key"]
      /\ new["Detail"] = IF event.kind = "Detail" THEN tally["Detail"] + 1 ELSE tally["Detail"]
      /\ new["ConfigReloaded"] = IF event.kind = "ConfigReloaded"
                                   THEN tally["ConfigReloaded"] + 1
                                   ELSE tally["ConfigReloaded"]
  BY <1>3 DEF Kinds, new
<1>6. \/ event.kind \in Replaceable /\ event.kind \notin Lasting
      \/ event.kind \notin Replaceable /\ event.kind \in Lasting
  BY <1>1 DEF Lasting
<1>7. CASE event.kind \in Replaceable
  <2>1. event.kind \in {"Snapshot", "Tick"} /\ One(event, Replaceable) = 1 /\ One(event, Lasting) = 0
    BY <1>6, <1>7 DEF One, Replaceable
  <2> QED BY <1>4, <1>5, <2>1 DEF new, AllReplaceable, AllLasting
<1>8. CASE event.kind \in Lasting
  <2>1. /\ event.kind \in {"Key", "Detail", "ConfigReloaded"}
        /\ One(event, Replaceable) = 0 /\ One(event, Lasting) = 1
    BY <1>6, <1>8 DEF One, Replaceable, Lasting, Kinds
  <2> QED BY <1>4, <1>5, <2>1 DEF new, AllReplaceable, AllLasting
<1> QED BY <1>6, <1>7, <1>8

LEMMA Tallies ==
  ASSUME IInv
  PROVE  /\ queue \in Seq(Events) /\ batch \in Seq(Events)
         /\ sent \in [Kinds -> Nat] /\ reduced \in [Kinds -> Nat]
         /\ health \in [coalesced : Nat, dropped : Nat]
         /\ AllReplaceable(sent) \in Nat /\ AllReplaceable(reduced) \in Nat
         /\ AllLasting(sent) \in Nat /\ AllLasting(reduced) \in Nat
         /\ Held(Replaceable, queue) \in Nat /\ Held(Replaceable, batch) \in Nat
         /\ Held(Lasting, queue) \in Nat /\ Held(Lasting, batch) \in Nat
<1>1. /\ queue \in Seq(Events) /\ batch \in Seq(Events)
      /\ sent \in [Kinds -> Nat] /\ reduced \in [Kinds -> Nat]
      /\ health \in [coalesced : Nat, dropped : Nat]
  BY DEF IInv, TypeOK, Shape
<1>2. Plain("Tick") \in Events
  BY EventTypes
<1> QED BY <1>1, <1>2, PlacesFinite, TallyCounts

\* An event is counted as sent: it joins the queue, or a counter counts it out.
Delivers(event) ==
  /\ sent' = Count(sent, event.kind) /\ reduced' = reduced /\ batch' = batch
  /\ \/ queue' = Append(queue, event) /\ health' = health
     \/ /\ queue' = queue /\ event.kind \in Replaceable
        /\ health' = [health EXCEPT !.coalesced = @ + 1]
     \/ /\ queue' = queue /\ event.kind \notin Replaceable
        /\ health' = [health EXCEPT !.dropped = @ + 1]

LEMMA SentIsCounted ==
  \A event \in Events : IInv /\ LossesAccounted /\ Delivers(event) => LossesAccounted'
<1>0. SUFFICES ASSUME NEW event \in Events, IInv, LossesAccounted, Delivers(event)
               PROVE  LossesAccounted'
  OBVIOUS
<1> DEFINE R == One(event, Replaceable)
           L == One(event, Lasting)
<1>1. R = (IF event.kind \in Replaceable THEN 1 ELSE 0) /\ L = 1 - R
  BY EventKinds DEF One
<1> HIDE DEF R, L
<1>2. /\ AllReplaceable(sent') = AllReplaceable(sent) + R
      /\ AllLasting(sent') = AllLasting(sent) + L
  BY <1>0, Tallies, TallyCounts DEF Delivers, R, L
<1>3. /\ health.coalesced \in Nat /\ health.dropped \in Nat
      /\ Held(Replaceable, queue) \in Nat /\ Held(Lasting, queue) \in Nat
  BY <1>0, Tallies
<1>4. /\ Held(Replaceable, queue') + health'.coalesced
           = Held(Replaceable, queue) + health.coalesced + R
      /\ Held(Lasting, queue') + health'.dropped
           = Held(Lasting, queue) + health.dropped + L
      /\ health'.coalesced \in Nat /\ health'.dropped \in Nat
      /\ Held(Replaceable, queue') \in Nat /\ Held(Lasting, queue') \in Nat
  <2>1. CASE queue' = Append(queue, event) /\ health' = health
    <3>1. /\ Held(Replaceable, Append(queue, event)) = Held(Replaceable, queue) + R
          /\ Held(Lasting, Append(queue, event)) = Held(Lasting, queue) + L
      BY <1>0, Tallies, HeldAppended DEF R, L
    <3>2. /\ Held(Replaceable, queue') = Held(Replaceable, queue) + R
          /\ Held(Lasting, queue') = Held(Lasting, queue) + L
      BY <2>1, <3>1, Zenon
    <3>3. R \in Nat /\ L \in Nat
      BY <1>1
    <3>4. health'.coalesced = health.coalesced /\ health'.dropped = health.dropped
      BY <2>1
    <3> QED BY <1>3, <3>2, <3>3, <3>4
  <2>2. CASE /\ queue' = queue /\ event.kind \in Replaceable
             /\ health' = [health EXCEPT !.coalesced = @ + 1]
    <3>1. health'.coalesced = health.coalesced + 1 /\ health'.dropped = health.dropped
      BY <1>0, <2>2, Tallies
    <3> QED BY <1>1, <1>3, <2>2, <3>1
  <2>3. CASE /\ queue' = queue /\ event.kind \notin Replaceable
             /\ health' = [health EXCEPT !.dropped = @ + 1]
    <3>1. health'.dropped = health.dropped + 1 /\ health'.coalesced = health.coalesced
      BY <1>0, <2>3, Tallies
    <3> QED BY <1>1, <1>3, <2>3, <3>1
  <2> QED BY <1>0, <2>1, <2>2, <2>3 DEF Delivers
<1>5. /\ AllReplaceable(sent') = AllReplaceable(reduced) + (Held(Replaceable, queue')
                                   + Held(Replaceable, batch)) + health'.coalesced
      /\ AllLasting(sent') = AllLasting(reduced) + (Held(Lasting, queue')
                               + Held(Lasting, batch)) + health'.dropped
  <2>1. /\ AllReplaceable(sent) = AllReplaceable(reduced) + (Held(Replaceable, queue)
                                    + Held(Replaceable, batch)) + health.coalesced
        /\ AllLasting(sent) = AllLasting(reduced) + (Held(Lasting, queue)
                                + Held(Lasting, batch)) + health.dropped
    BY <1>0 DEF LossesAccounted, Waiting
  <2>2. /\ AllReplaceable(sent) \in Nat /\ AllReplaceable(reduced) \in Nat
        /\ AllLasting(sent) \in Nat /\ AllLasting(reduced) \in Nat
        /\ Held(Replaceable, batch) \in Nat /\ Held(Lasting, batch) \in Nat
        /\ R \in Int /\ L \in Int
    BY <1>0, <1>1, Tallies
  <2> HIDE DEF R, L
  <2>3. AllReplaceable(sent') \in Nat /\ AllLasting(sent') \in Nat
    BY <1>0, Tallies, TallyCounts DEF Delivers
  <2>4. AllReplaceable(sent') = AllReplaceable(reduced) + (Held(Replaceable, queue') + Held(Replaceable, batch)) + health'.coalesced
    <3> DEFINE all == AllReplaceable(sent)          applied == AllReplaceable(reduced)
               allNow == AllReplaceable(sent')      inHand == Held(Replaceable, batch)
               queued == Held(Replaceable, queue)   queuedNow == Held(Replaceable, queue')
               lost == health.coalesced           lostNow == health'.coalesced
    <3>1. /\ all \in Nat /\ applied \in Nat /\ allNow \in Nat /\ inHand \in Nat
          /\ queued \in Nat /\ queuedNow \in Nat /\ lost \in Nat /\ lostNow \in Nat
      BY <1>3, <1>4, <2>2, <2>3
    <3>2. /\ allNow = all + R /\ queuedNow + lostNow = queued + lost + R
          /\ all = applied + (queued + inHand) + lost /\ R \in Int
      BY <1>2, <1>4, <2>1, <2>2
    <3> HIDE DEF all, applied, allNow, inHand, queued, queuedNow, lost, lostNow
    <3>3. allNow = applied + (queuedNow + inHand) + lostNow
      BY <3>1, <3>2
    <3> QED BY <3>3 DEF allNow, applied, queuedNow, inHand, lostNow
  <2>5. AllLasting(sent') = AllLasting(reduced) + (Held(Lasting, queue') + Held(Lasting, batch)) + health'.dropped
    <3> DEFINE all == AllLasting(sent)          applied == AllLasting(reduced)
               allNow == AllLasting(sent')      inHand == Held(Lasting, batch)
               queued == Held(Lasting, queue)   queuedNow == Held(Lasting, queue')
               lost == health.dropped           lostNow == health'.dropped
    <3>1. /\ all \in Nat /\ applied \in Nat /\ allNow \in Nat /\ inHand \in Nat
          /\ queued \in Nat /\ queuedNow \in Nat /\ lost \in Nat /\ lostNow \in Nat
      BY <1>3, <1>4, <2>2, <2>3
    <3>2. /\ allNow = all + L /\ queuedNow + lostNow = queued + lost + L
          /\ all = applied + (queued + inHand) + lost /\ L \in Int
      BY <1>2, <1>4, <2>1, <2>2
    <3> HIDE DEF all, applied, allNow, inHand, queued, queuedNow, lost, lostNow
    <3>3. allNow = applied + (queuedNow + inHand) + lostNow
      BY <3>1, <3>2
    <3> QED BY <3>3 DEF allNow, applied, queuedNow, inHand, lostNow
  <2> QED BY <2>4, <2>5
<1> QED BY <1>0, <1>5 DEF Delivers, LossesAccounted, Waiting, Replaceable, Lasting, Kinds

\* An event moves from the channel to the hands of the loop; a snapshot may take the
\* place of another, which coalesced counts out.
LEMMA TakenIsCounted == IInv /\ LossesAccounted /\ (Receive \/ Drain) => LossesAccounted'
<1>0. SUFFICES ASSUME IInv, LossesAccounted, Receive \/ Drain
               PROVE  LossesAccounted'
  OBVIOUS
<1> DEFINE event == Head(queue)
           R == One(event, Replaceable)
           L == One(event, Lasting)
           k == health'.coalesced - health.coalesced
<1>1. /\ queue # <<>> /\ queue' = Tail(queue) /\ sent' = sent /\ reduced' = reduced
      /\ queue \in Seq(Events) /\ event \in Events
  BY <1>0, Tallies DEF Receive, Drain, history
<1>2. R = (IF event.kind \in Replaceable THEN 1 ELSE 0) /\ L = 1 - R
  BY <1>1, EventKinds DEF One
<1>3. /\ Held(Replaceable, queue) = Held(Replaceable, queue') + R
      /\ Held(Lasting, queue) = Held(Lasting, queue') + L
      /\ Held(Replaceable, queue') \in Nat /\ Held(Lasting, queue') \in Nat
  <2>1. Tail(queue) \in Seq(Events)
    BY <1>1
  <2>2. /\ Held(Replaceable, queue) = Held(Replaceable, Tail(queue)) + R
        /\ Held(Lasting, queue) = Held(Lasting, Tail(queue)) + L
    BY <1>1, HeldTaken
  <2>3. Held(Replaceable, Tail(queue)) \in Nat /\ Held(Lasting, Tail(queue)) \in Nat
    BY <2>1, PlacesFinite
  <2> QED BY <1>1, <2>2, <2>3, Zenon
<1>4. /\ Held(Replaceable, batch') + k = Held(Replaceable, batch) + R
      /\ Held(Lasting, batch') = Held(Lasting, batch) + L
      /\ Held(Replaceable, batch') \in Nat /\ Held(Lasting, batch') \in Nat
      /\ health'.coalesced \in Nat /\ health'.dropped = health.dropped
  <2> HIDE DEF event
  <2>1. batch \in Seq(Events) /\ health \in [coalesced : Nat, dropped : Nat]
    BY <1>0, Tallies
  <2>2. /\ Held(Replaceable, Append(batch, event)) = Held(Replaceable, batch) + R
        /\ Held(Lasting, Append(batch, event)) = Held(Lasting, batch) + L
        /\ Held(Replaceable, batch) \in Nat /\ Held(Lasting, batch) \in Nat
    BY <1>1, <2>1, HeldAppended, PlacesFinite
  <2> HIDE DEF R, L
  <2>3. CASE Receive
    <3>1. batch = <<>> /\ batch' = <<event>> /\ health' = health
      BY <1>0, <2>3 DEF Receive, UiAt, IInv, TurnShape, event
    <3>2. batch' = Append(batch, event)
      BY <3>1
    <3>3. health.coalesced \in Nat /\ k = 0
      BY <2>1, <3>1
    <3>4. R \in Nat /\ L \in Nat
      BY <1>2
    <3> QED BY <2>2, <3>1, <3>2, <3>3, <3>4
  <2>4. CASE Drain
    <3>1. /\ batch # <<>> /\ batch[1].kind = "Snapshot" /\ batch' = Drained(batch, event)
          /\ health' = IF event.kind = "Snapshot"
                       THEN [health EXCEPT !.coalesced = @ + 1] ELSE health
      BY <1>0, <2>4 DEF Drain, UiAt, IInv, TurnShape, event
    <3>2. CASE event.kind = "Snapshot"
      <4>1. R = 1 /\ L = 0
        BY <1>2, <3>2 DEF Replaceable
      <4>2. /\ event.kind \in Replaceable <=> batch[1].kind \in Replaceable
            /\ event.kind \in Lasting <=> batch[1].kind \in Lasting
        BY <3>1, <3>2
      <4>3. batch' \in {batch, [batch EXCEPT ![1] = event]}
        BY <3>1, <3>2 DEF Drained
      <4>4. /\ Held(Replaceable, batch') = Held(Replaceable, batch)
            /\ Held(Lasting, batch') = Held(Lasting, batch)
        BY <1>1, <2>1, <4>2, <4>3, HeldReplaced
      <4>5. health'.coalesced = health.coalesced + 1 /\ health'.dropped = health.dropped
        BY <2>1, <3>1, <3>2
      <4>6. k = 1 /\ health'.coalesced \in Nat
        BY <2>1, <4>5
      <4> HIDE DEF k
      <4> QED BY <2>2, <4>1, <4>4, <4>5, <4>6
    <3>3. CASE event.kind # "Snapshot"
      <4>1. batch' = Append(batch, event) /\ health' = health
        BY <3>1, <3>3 DEF Drained
      <4>2. health.coalesced \in Nat /\ k = 0
        BY <2>1, <4>1
      <4>3. R \in Nat /\ L \in Nat
        BY <1>2
      <4> QED BY <2>2, <4>1, <4>2, <4>3
    <3> QED BY <3>2, <3>3
  <2> QED BY <1>0, <2>3, <2>4
<1> HIDE DEF R, L
<1>5. /\ Waiting(Replaceable)' + health'.coalesced = Waiting(Replaceable) + health.coalesced
      /\ Waiting(Lasting)' + health'.dropped = Waiting(Lasting) + health.dropped
      /\ Waiting(Replaceable) \in Nat /\ Waiting(Lasting) \in Nat
      /\ Waiting(Replaceable)' \in Nat /\ Waiting(Lasting)' \in Nat
  <2>1. /\ Waiting(Replaceable) = Held(Replaceable, queue) + Held(Replaceable, batch)
        /\ Waiting(Lasting) = Held(Lasting, queue) + Held(Lasting, batch)
        /\ Waiting(Replaceable)' = Held(Replaceable, queue') + Held(Replaceable, batch')
        /\ Waiting(Lasting)' = Held(Lasting, queue') + Held(Lasting, batch')
    BY DEF Waiting, Replaceable, Lasting, Kinds
  <2>2. /\ Held(Replaceable, queue) \in Nat /\ Held(Replaceable, batch) \in Nat
        /\ Held(Lasting, queue) \in Nat /\ Held(Lasting, batch) \in Nat
        /\ R \in Int /\ L \in Int /\ health.coalesced \in Nat /\ health.dropped \in Nat
    BY <1>0, <1>2, Tallies
  <2> QED BY <1>3, <1>4, <2>1, <2>2
<1>6. /\ AllReplaceable(sent) \in Nat /\ AllReplaceable(reduced) \in Nat
      /\ AllLasting(sent) \in Nat /\ AllLasting(reduced) \in Nat
      /\ health.coalesced \in Nat /\ health.dropped \in Nat
      /\ AllReplaceable(sent)' = AllReplaceable(sent)
      /\ AllReplaceable(reduced)' = AllReplaceable(reduced)
      /\ AllLasting(sent)' = AllLasting(sent) /\ AllLasting(reduced)' = AllLasting(reduced)
  BY <1>0, <1>1, Tallies DEF AllReplaceable, AllLasting
<1>7. /\ AllReplaceable(sent)' = AllReplaceable(reduced)' + Waiting(Replaceable)' + health'.coalesced
      /\ AllLasting(sent)' = AllLasting(reduced)' + Waiting(Lasting)' + health'.dropped
  <2>1. /\ AllReplaceable(sent) = AllReplaceable(reduced) + Waiting(Replaceable) + health.coalesced
        /\ AllLasting(sent) = AllLasting(reduced) + Waiting(Lasting) + health.dropped
    BY <1>0 DEF LossesAccounted
  <2>2. AllReplaceable(reduced) + Waiting(Replaceable)' + health'.coalesced
          = AllReplaceable(reduced) + Waiting(Replaceable) + health.coalesced
    BY <1>4, <1>5, <1>6
  <2>3. Waiting(Lasting)' = Waiting(Lasting) /\ health'.dropped = health.dropped
    BY <1>4, <1>5, <1>6
  <2> QED BY <1>6, <2>1, <2>2, <2>3
<1> QED BY <1>7 DEF LossesAccounted

\* An event is applied.
LEMMA AppliedIsCounted == IInv /\ LossesAccounted /\ Reduce => LossesAccounted'
<1>0. SUFFICES ASSUME IInv, LossesAccounted, Reduce
               PROVE  LossesAccounted'
  OBVIOUS
<1> DEFINE event == Head(batch)
           R == One(event, Replaceable)
           L == One(event, Lasting)
<1>1. /\ batch # <<>> /\ batch' = Tail(batch) /\ sent' = sent /\ queue' = queue
      /\ reduced' = Count(reduced, event.kind) /\ health' = health
      /\ batch \in Seq(Events) /\ event \in Events
  <2>1. batch # <<>> /\ batch \in Seq(Events)
    BY <1>0, Tallies DEF Reduce, UiAt, IInv, TurnShape
  <2>2. event \in Events
    BY <2>1
  <2> QED BY <1>0, <2>1, <2>2 DEF Reduce, channels
<1>2. R \in Nat /\ L \in Nat
  BY DEF One
<1>3. /\ Held(Replaceable, batch) = Held(Replaceable, batch') + R
      /\ Held(Lasting, batch) = Held(Lasting, batch') + L
      /\ Held(Replaceable, batch') \in Nat /\ Held(Lasting, batch') \in Nat
  <2>1. Tail(batch) \in Seq(Events)
    BY <1>1
  <2>2. /\ Held(Replaceable, batch) = Held(Replaceable, Tail(batch)) + R
        /\ Held(Lasting, batch) = Held(Lasting, Tail(batch)) + L
    BY <1>1, HeldTaken
  <2>3. Held(Replaceable, Tail(batch)) \in Nat /\ Held(Lasting, Tail(batch)) \in Nat
    BY <2>1, PlacesFinite
  <2> QED BY <1>1, <2>2, <2>3, Zenon
<1>4. /\ AllReplaceable(reduced') = AllReplaceable(reduced) + R
      /\ AllLasting(reduced') = AllLasting(reduced) + L
  BY <1>0, <1>1, Tallies, TallyCounts
<1> HIDE DEF R, L, event
<1>5. /\ Waiting(Replaceable)' + R = Waiting(Replaceable)
      /\ Waiting(Lasting)' + L = Waiting(Lasting)
      /\ Waiting(Replaceable)' \in Nat /\ Waiting(Lasting)' \in Nat
  <2>1. /\ Waiting(Replaceable) = Held(Replaceable, queue) + Held(Replaceable, batch)
        /\ Waiting(Lasting) = Held(Lasting, queue) + Held(Lasting, batch)
        /\ Waiting(Replaceable)' = Held(Replaceable, queue) + Held(Replaceable, batch')
        /\ Waiting(Lasting)' = Held(Lasting, queue) + Held(Lasting, batch')
    BY <1>1 DEF Waiting, Replaceable, Lasting, Kinds
  <2>2. Held(Replaceable, queue) \in Nat /\ Held(Lasting, queue) \in Nat
    BY <1>0, Tallies
  <2> QED BY <1>2, <1>3, <2>1, <2>2
<1>6. /\ AllReplaceable(reduced) \in Nat /\ AllLasting(reduced) \in Nat
      /\ health'.coalesced \in Nat /\ health'.dropped \in Nat
      /\ health'.coalesced = health.coalesced /\ health'.dropped = health.dropped
      /\ AllReplaceable(sent)' = AllReplaceable(sent) /\ AllLasting(sent)' = AllLasting(sent)
      /\ AllReplaceable(reduced)' = AllReplaceable(reduced')
      /\ AllLasting(reduced)' = AllLasting(reduced')
  BY <1>0, <1>1, Tallies DEF AllReplaceable, AllLasting
<1>7. /\ AllReplaceable(sent)' = AllReplaceable(reduced)' + Waiting(Replaceable)' + health'.coalesced
      /\ AllLasting(sent)' = AllLasting(reduced)' + Waiting(Lasting)' + health'.dropped
  BY <1>0, <1>2, <1>4, <1>5, <1>6 DEF LossesAccounted
<1> QED BY <1>7 DEF LossesAccounted

\* A step that neither sends, moves nor applies an event.
LEMMA NothingMoves ==
  LossesAccounted /\ UNCHANGED <<queue, batch, health, sent, reduced>> => LossesAccounted'
BY DEF LossesAccounted, Waiting, AllReplaceable, AllLasting, Replaceable, Lasting, Kinds, Held

\* A send delivers its event, or leaves it to wait, which nothing counts yet.
LEMMA SendIsCounted ==
  \A thread \in Threads, event \in Events :
    IInv /\ LossesAccounted /\ Send(thread, event) /\ batch' = batch /\ reduced' = reduced
      => LossesAccounted'
<1>0. SUFFICES ASSUME NEW thread \in Threads, NEW event \in Events, IInv, LossesAccounted,
                      Send(thread, event), batch' = batch, reduced' = reduced
               PROVE  LossesAccounted'
  OBVIOUS
<1>1. CASE Delivers(event)
  BY <1>0, <1>1, SentIsCounted
<1>2. CASE ~Delivers(event)
  <2>1. UNCHANGED <<queue, health, sent>>
    BY <1>0, <1>2, EventKinds DEF Send, Delivers
  <2> QED BY <1>0, <2>1, NothingMoves
<1> QED BY <1>1, <1>2

LEMMA StepIsCounted == IInv /\ LossesAccounted /\ [Next]_vars => LossesAccounted'
<1>0. SUFFICES ASSUME IInv, LossesAccounted, [Next]_vars PROVE LossesAccounted'
  OBVIOUS
<1>11. {"input", "tick", "sampler", "detail", "ui"} \subseteq Threads
  BY DEF Threads, Workers
<1>1. CASE UNCHANGED vars
  BY <1>0, <1>1, NothingMoves DEF vars, channels, loop, history
<1>2. CASE \/ \E worker \in Workers : Leave(worker)
           \/ InputFails \/ SamplerPass \/ TakeRequest \/ SignalArrives \/ SignalsEnd
           \/ Draw \/ DrawFails \/ ReceiveTimesOut \/ DrainDone \/ EndTurn
           \/ CloseDown \/ Restore \/ JoinAll
  <2>1. UNCHANGED <<queue, batch, health, sent, reduced>>
    BY <1>2 DEF Leave, InputFails, SamplerPass, TakeRequest, SignalArrives, SignalsEnd, Draw,
         DrawFails, ReceiveTimesOut, DrainDone, EndTurn, CloseDown, Restore, JoinAll, channels,
         loop, history
  <2> QED BY <1>0, <2>1, NothingMoves
<1>3. ASSUME NEW thread \in Threads, FinishSend(thread)
      PROVE  LossesAccounted'
  <2>1. /\ sending[thread] \in Events
        /\ sending[thread].kind \notin Replaceable
    BY <1>0, <1>3, EventTypes DEF IInv, Shape, SendersWait, FinishSend, Sending, Replaceable
  <2>2. Delivers(sending[thread])
    BY <1>3, <2>1 DEF FinishSend, Delivers, loop
  <2> QED BY <1>0, <2>1, <2>2, SentIsCounted
<1>4. ASSUME NEW press \in Presses, PressKey(press)
      PROVE  LossesAccounted'
  <2>1. Event("Key", press, sent["Key"] + 1) \in Events
    <3>1. sent \in [Kinds -> Nat] /\ "Key" \in Kinds
      BY <1>0, Tallies DEF Kinds
    <3>2. sent["Key"] + 1 \in Nat
      BY <3>1
    <3> QED BY <3>2, EventTypes
  <2>2. /\ Send("input", Event("Key", press, sent["Key"] + 1))
        /\ batch' = batch /\ reduced' = reduced
    BY <1>4 DEF PressKey, loop
  <2> QED BY <1>0, <1>11, <2>1, <2>2, SendIsCounted, Zenon
<1>5. CASE Tick
  <2>1. Send("tick", Plain("Tick")) /\ batch' = batch /\ reduced' = reduced
    BY <1>5 DEF Tick, loop
  <2> QED BY <1>0, <1>11, <2>1, EventTypes, SendIsCounted, Zenon
<1>6. CASE SampleDone
  <2>1. Event("Snapshot", NoProcess, sequence + 1) \in Events
    <3>1. sequence + 1 \in Nat
      BY <1>0 DEF IInv, TypeOK
    <3> QED BY <3>1, EventTypes
  <2>2. batch' = batch /\ reduced' = reduced
    BY <1>6 DEF SampleDone, loop
  <2>3. CASE Send("sampler", Event("Snapshot", NoProcess, sequence + 1))
    BY <1>0, <1>11, <2>1, <2>2, <2>3, SendIsCounted, Zenon
  <2>4. CASE UNCHANGED <<queue, health, sent>>
    BY <1>0, <2>2, <2>4, NothingMoves
  <2> QED BY <1>6, <2>3, <2>4 DEF SampleDone
<1>7. CASE DetailDone
  <2>1. Event("Detail", fetching, 0) \in Events
    BY <1>0, EventTypes DEF IInv, TypeOK
  <2>2. Send("detail", Event("Detail", fetching, 0)) /\ batch' = batch /\ reduced' = reduced
    BY <1>7 DEF DetailDone, loop
  <2> QED BY <1>0, <1>11, <2>1, <2>2, SendIsCounted, Zenon
<1>8. CASE Receive \/ Drain
  BY <1>0, <1>8, TakenIsCounted
<1>9. CASE Reduce
  BY <1>0, <1>9, AppliedIsCounted
<1>10. CASE Execute
  <2>1. batch' = batch /\ reduced' = reduced
    BY <1>10 DEF Execute
  <2>2. CASE ReloadConfig
    <3>1. Send("ui", Plain("ConfigReloaded"))
      BY <2>2 DEF ReloadConfig
    <3> QED BY <1>0, <1>11, <2>1, <3>1, EventTypes, SendIsCounted, Zenon
  <2>3. CASE ~ReloadConfig
    <3>1. UNCHANGED <<queue, health, sent>>
      BY <1>10, <2>3 DEF Execute, RequestSample, SetSensorInterest, FetchProcessDetail,
         TriggerShutdown, channels
    <3> QED BY <1>0, <2>1, <3>1, NothingMoves
  <2> QED BY <2>2, <2>3
<1> QED BY <1>0, <1>1, <1>2, <1>3, <1>4, <1>5, <1>6, <1>7, <1>8, <1>9, <1>10
        DEF Next, SamplerStep, DetailStep, UiStep

\* No event is lost without being counted, whichever thread sends it and whatever the
\* drain, the full channel and the timeouts do with it.
THEOREM LossesAreCounted == Spec => []LossesAccounted
<1>1. Init => LossesAccounted
  <2> SUFFICES ASSUME Init PROVE LossesAccounted
    OBVIOUS
  <2>1. /\ queue = <<>> /\ batch = <<>> /\ health.coalesced = 0 /\ health.dropped = 0
        /\ AllReplaceable(sent) = 0 /\ AllReplaceable(reduced) = 0
        /\ AllLasting(sent) = 0 /\ AllLasting(reduced) = 0
    BY DEF Init, AllReplaceable, AllLasting, Kinds
  <2>2. Waiting(Replaceable) = 0 /\ Waiting(Lasting) = 0
    BY <2>1, HeldNothing DEF Waiting
  <2> QED BY <2>1, <2>2 DEF LossesAccounted
<1> QED BY <1>1, StepIsCounted, Inductive, PTL DEF Spec

-----------------------------------------------------------------------------
(* What the way to the state implements *)

Offered(kind) == IF kind = "Key" THEN sent["Key"] ELSE published
Taken(kind)   == IF kind = "Key" THEN lastPress ELSE latest

\* The steps of EventFeed, for either kind.
Offers(kind) ==
  /\ Offered(kind)' > Offered(kind)
  /\ Accepted(kind)' \in {Accepted(kind), Accepted(kind) \cup {Offered(kind)'}}
  /\ Taken(kind)' = Taken(kind)

Takes(kind) ==
  /\ Taken(kind)' \in Accepted(kind)
  /\ \A number \in Accepted(kind) : Taken(kind)' <= number
  /\ Accepted(kind)' = Accepted(kind) \ {Taken(kind)'}
  /\ Offered(kind)' = Offered(kind)

Supersedes(kind) ==
  /\ kind = "Snapshot"
  /\ \E older, newer \in Accepted(kind) :
       older < newer /\ Accepted(kind)' = Accepted(kind) \ {older}
  /\ Offered(kind)' = Offered(kind) /\ Taken(kind)' = Taken(kind)

Rests(kind) ==
  /\ Accepted(kind)' = Accepted(kind)
  /\ Offered(kind)' = Offered(kind) /\ Taken(kind)' = Taken(kind)

Feeds(kind) == Offers(kind) \/ Takes(kind) \/ Supersedes(kind) \/ Rests(kind)

\* The number of the event, if it is of the kind.
Of(kind, event) == IF event.kind = kind THEN {event.number} ELSE {}

LEMMA NumbersOf ==
  ASSUME NEW events \in Seq(Events), NEW kind
  PROVE  Numbers(kind, events)
           = {n \in Nat : \E i \in 1..Len(events) : events[i].kind = kind /\ events[i].number = n}
<1>1. DOMAIN events = 1..Len(events) /\ \A i \in 1..Len(events) : events[i] \in Events
  BY LenProperties, ElementOfSeq
<1>2. \A i \in 1..Len(events) : events[i].number \in Nat
  BY <1>1, Numbered
<1> QED BY <1>1, <1>2 DEF Numbers

LEMMA NumbersAreNatural ==
  ASSUME NEW events \in Seq(Events), NEW kind PROVE Numbers(kind, events) \subseteq Nat
<1>1. ASSUME NEW n \in Numbers(kind, events) PROVE n \in Nat
  BY NumbersOf
<1> QED BY <1>1

LEMMA NumbersNone == ASSUME NEW kind PROVE Numbers(kind, <<>>) = {}
BY DEF Numbers

LEMMA NumbersAppended ==
  ASSUME NEW events \in Seq(Events), NEW event \in Events, NEW kind
  PROVE  Numbers(kind, Append(events, event)) = Numbers(kind, events) \cup Of(kind, event)
<1> DEFINE longer == Append(events, event)
<1>1. /\ longer \in Seq(Events) /\ Len(longer) = Len(events) + 1 /\ Len(events) \in Nat
      /\ \A i \in 1..Len(events) : longer[i] = events[i]
      /\ longer[Len(events) + 1] = event
  OBVIOUS
<1> HIDE DEF longer
<1>2. /\ \A i \in 1..Len(longer) : i \in 1..Len(events) \/ i = Len(events) + 1
      /\ \A i \in 1..Len(events) : i \in 1..Len(longer)
      /\ Len(events) + 1 \in 1..Len(longer)
  BY <1>1
<1>3. event.number \in Nat
  BY Numbered
<1>4. \A n \in Nat : n \in Numbers(kind, longer)
                        <=> n \in Numbers(kind, events) \/ n \in Of(kind, event)
  BY <1>1, <1>2, NumbersOf DEF Of
<1>5. Numbers(kind, longer) \subseteq Nat /\ Numbers(kind, events) \subseteq Nat
      /\ Of(kind, event) \subseteq Nat
  <2>1. Numbers(kind, longer) \subseteq Nat /\ Numbers(kind, events) \subseteq Nat
    BY <1>1, NumbersAreNatural, Zenon
  <2>2. Of(kind, event) \subseteq Nat
    BY <1>3 DEF Of
  <2> QED BY <2>1, <2>2
<1> QED BY <1>4, <1>5 DEF longer

LEMMA NumbersTaken ==
  ASSUME NEW events \in Seq(Events), events # <<>>, NEW kind
  PROVE  Numbers(kind, events) = Of(kind, Head(events)) \cup Numbers(kind, Tail(events))
<1> DEFINE rest == Tail(events)
<1>1. /\ rest \in Seq(Events) /\ Len(rest) = Len(events) - 1 /\ Len(events) \in Nat \ {0}
      /\ \A i \in 1..Len(rest) : rest[i] = events[i + 1]
      /\ Head(events) = events[1] /\ events[1] \in Events
  OBVIOUS
<1> HIDE DEF rest
<1>2. /\ \A i \in 1..Len(events) : i = 1 \/ (i - 1 \in 1..Len(rest) /\ rest[i - 1] = events[i])
      /\ \A i \in 1..Len(rest) : i + 1 \in 1..Len(events)
      /\ 1 \in 1..Len(events)
  <2>1. ASSUME NEW i \in 1..Len(events), i # 1
        PROVE  i - 1 \in 1..Len(rest) /\ (i - 1) + 1 = i
    BY <1>1, <2>1
  <2>2. ASSUME NEW i \in 1..Len(events), i # 1
        PROVE  i - 1 \in 1..Len(rest) /\ rest[i - 1] = events[i]
    BY <1>1, <2>1, <2>2
  <2> QED BY <1>1, <2>2
<1>3. events[1].number \in Nat
  BY <1>1, Numbered
<1>4. \A n \in Nat :
        n \in Numbers(kind, events) <=> n \in Of(kind, events[1]) \/ n \in Numbers(kind, rest)
  <2>1. \A n \in Nat : n \in Numbers(kind, rest)
                         <=> \E i \in 1..Len(rest) : rest[i].kind = kind /\ rest[i].number = n
    BY <1>1, NumbersOf
  <2>2. \A n \in Nat : n \in Numbers(kind, events)
                         <=> \E i \in 1..Len(events) : events[i].kind = kind /\ events[i].number = n
    BY NumbersOf
  <2>3. SUFFICES ASSUME NEW n \in Nat
                 PROVE  n \in Numbers(kind, events)
                          <=> n \in Of(kind, events[1]) \/ n \in Numbers(kind, rest)
    OBVIOUS
  <2>4. n \in Of(kind, events[1]) <=> events[1].kind = kind /\ events[1].number = n
    BY DEF Of
  <2>5. ASSUME n \in Numbers(kind, events), n \notin Of(kind, events[1])
        PROVE  n \in Numbers(kind, rest)
    <3>1. PICK i \in 1..Len(events) : events[i].kind = kind /\ events[i].number = n
      BY <2>2, <2>5
    <3>2. i # 1
      BY <2>4, <2>5, <3>1
    <3>3. i - 1 \in 1..Len(rest) /\ rest[i - 1] = events[i]
      BY <1>2, <3>2
    <3> QED BY <2>1, <3>1, <3>3
  <2>6. ASSUME n \in Numbers(kind, rest) PROVE n \in Numbers(kind, events)
    <3>1. PICK i \in 1..Len(rest) : rest[i].kind = kind /\ rest[i].number = n
      BY <2>1, <2>6
    <3>2. i + 1 \in 1..Len(events) /\ events[i + 1] = rest[i]
      BY <1>1, <1>2, <3>1
    <3> QED BY <2>2, <3>1, <3>2
  <2>7. ASSUME n \in Of(kind, events[1]) PROVE n \in Numbers(kind, events)
    BY <1>2, <2>2, <2>4, <2>7
  <2> QED BY <2>5, <2>6, <2>7
<1>5. /\ Numbers(kind, rest) \subseteq Nat /\ Numbers(kind, events) \subseteq Nat
      /\ Of(kind, events[1]) \subseteq Nat
  <2>1. Numbers(kind, rest) \subseteq Nat /\ Numbers(kind, events) \subseteq Nat
    BY <1>1, NumbersAreNatural, Zenon
  <2>2. Of(kind, events[1]) \subseteq Nat
    BY <1>3 DEF Of
  <2> QED BY <2>1, <2>2
<1> QED BY <1>1, <1>4, <1>5 DEF rest

\* The first event is another one.
LEMMA NumbersReplaced ==
  ASSUME NEW events \in Seq(Events), events # <<>>, NEW event \in Events, NEW kind
  PROVE  Numbers(kind, [events EXCEPT ![1] = event])
           = Of(kind, event) \cup Numbers(kind, Tail(events))
<1> DEFINE new == [events EXCEPT ![1] = event]
<1>1. /\ new \in Seq(Events) /\ Len(new) = Len(events) /\ Len(events) \in Nat \ {0}
      /\ new[1] = event /\ \A i \in 2..Len(events) : new[i] = events[i]
  OBVIOUS
<1>2. new # <<>> /\ Head(new) = event
  BY <1>1
<1> HIDE DEF new
<1>3. Tail(new) = Tail(events)
  <2>1. /\ Tail(new) \in Seq(Events) /\ Len(Tail(new)) = Len(events) - 1
        /\ \A i \in 1..Len(Tail(new)) : Tail(new)[i] = new[i + 1]
    BY <1>1, <1>2
  <2>2. /\ Tail(events) \in Seq(Events) /\ Len(Tail(events)) = Len(events) - 1
        /\ \A i \in 1..Len(Tail(events)) : Tail(events)[i] = events[i + 1]
    OBVIOUS
  <2>3. ASSUME NEW i \in 1..(Len(events) - 1) PROVE Tail(new)[i] = Tail(events)[i]
    <3>1. i + 1 \in 2..Len(events)
      BY <1>1
    <3> QED BY <1>1, <2>1, <2>2, <3>1
  <2> QED BY <2>1, <2>2, <2>3, SeqEqual
<1> QED BY <1>1, <1>2, <1>3, NumbersTaken DEF new

\* What waits in line is newer than what was applied, and no newer than what was offered.
LEMMA LineNumbers ==
  ASSUME NEW kind, NEW held \in Seq(Events), NEW events \in Seq(Events), NEW low, NEW high,
         Line(kind, held, events, low, high)
  PROVE  \A n \in Numbers(kind, held) \cup Numbers(kind, events) : low < n /\ n <= high
BY NumbersOf DEF Line, Within

LEMMA IInvLines ==
  ASSUME IInv
  PROVE  /\ queue \in Seq(Events) /\ batch \in Seq(Events) /\ sent \in [Kinds -> Nat]
         /\ sent["Key"] \in Nat /\ published \in Nat /\ latest \in Nat /\ lastPress \in Nat
         /\ Line("Snapshot", batch, queue, latest, published)
         /\ Line("Key", batch, queue, lastPress, sent["Key"])
BY DEF IInv, TypeOK, Shape, SnapshotLine, KeyLine, Kinds

\* A send offers the event, or leaves the thread waiting with it.
LEMMA SendFeeds ==
  ASSUME IInv, NEW thread \in Threads, NEW event \in Events, event.kind \in Kinds,
         Send(thread, event), UNCHANGED <<batch, latest, lastPress>>,
         IF event.kind = "Snapshot" THEN published' = event.number /\ published < event.number
                                    ELSE published' = published,
         event.kind = "Key" => event.number = sent["Key"] + 1,
         NEW kind \in {"Key", "Snapshot"}
  PROVE  Offers(kind) \/ Rests(kind)
<1>1. /\ queue \in Seq(Events) /\ sent \in [Kinds -> Nat] /\ sent["Key"] \in Nat
  BY IInvLines
<1>2. /\ event.kind = "Key" => Count(sent, event.kind)["Key"] = sent["Key"] + 1
      /\ event.kind # "Key" => Count(sent, event.kind)["Key"] = sent["Key"]
  <2>1. "Key" \in Kinds
    BY DEF Kinds
  <2> HIDE DEF Kinds
  <2> QED BY <1>1, <2>1 DEF Count
<1>3. CASE queue' = Append(queue, event) /\ sent' = Count(sent, event.kind)
  <2>1. Accepted(kind)' = Accepted(kind) \cup Of(kind, event)
    BY <1>1, <1>3, NumbersAppended DEF Accepted
  <2>2. CASE event.kind = kind
    <3>1. Of(kind, event) = {event.number}
      BY <2>2 DEF Of
    <3>2. /\ Offered(kind)' = event.number /\ Offered(kind)' > Offered(kind)
          /\ Taken(kind)' = Taken(kind)
      <4>1. CASE kind = "Key"
        BY <1>1, <1>2, <1>3, <2>2, <4>1 DEF Offered, Taken
      <4>2. CASE kind = "Snapshot"
        BY <2>2, <4>2, IInvLines, Numbered DEF Offered, Taken
      <4> QED BY <4>1, <4>2
    <3> QED BY <2>1, <3>1, <3>2 DEF Offers
  <2>3. CASE event.kind # kind
    <3>1. Accepted(kind)' = Accepted(kind)
      BY <2>1, <2>3 DEF Of
    <3>2. Offered(kind)' = Offered(kind) /\ Taken(kind)' = Taken(kind)
      BY <1>2, <1>3, <2>3 DEF Offered, Taken
    <3> QED BY <3>1, <3>2 DEF Rests
  <2> QED BY <2>2, <2>3
<1>4. CASE Coalescable(event) /\ queue' = queue /\ sent' = Count(sent, event.kind)
  <2>1. Accepted(kind)' = Accepted(kind) /\ Taken(kind)' = Taken(kind)
    BY <1>4 DEF Accepted, Taken
  <2>2. event.kind # "Key" /\ sent'["Key"] = sent["Key"]
    BY <1>2, <1>4 DEF Coalescable
  <2>3. CASE event.kind = "Snapshot" /\ kind = "Snapshot"
    <3>1. Offered(kind)' > Offered(kind)
      BY <2>3, IInvLines, Numbered DEF Offered
    <3> QED BY <2>1, <3>1 DEF Offers
  <2>4. CASE ~(event.kind = "Snapshot" /\ kind = "Snapshot")
    <3>1. Offered(kind)' = Offered(kind)
      BY <2>2, <2>4 DEF Offered
    <3> QED BY <2>1, <3>1 DEF Rests
  <2> QED BY <2>3, <2>4
<1>5. CASE ~Coalescable(event) /\ queue' = queue /\ sent' = sent
  <2>1. published' = published
    BY <1>5 DEF Coalescable
  <2> QED BY <1>5, <2>1 DEF Rests, Accepted, Offered, Taken
<1> QED BY <1>3, <1>4, <1>5 DEF Send

\* A blocked send ends: the event is offered only now.
LEMMA FinishSendFeeds ==
  ASSUME IInv, NEW thread \in Threads, FinishSend(thread), NEW kind \in {"Key", "Snapshot"}
  PROVE  Offers(kind) \/ Rests(kind)
<1> DEFINE event == sending[thread]
<1>1. /\ event \in Events /\ event.kind \in Kinds /\ event.kind # "Snapshot"
      /\ event.kind = "Key" => event.number = sent["Key"] + 1
  <2>1. event \in Events \cup {Nothing} /\ event.kind # "Nothing"
    BY DEF IInv, Shape, FinishSend, Sending
  <2>2. event \in Events
    BY <2>1, EventTypes
  <2>3. event.kind \in Kinds
    BY <2>1 DEF IInv, TypeOK
  <2>4. event.kind = "Key" => thread = "input"
    BY DEF IInv, SendersWait
  <2> QED BY <2>2, <2>3, <2>4 DEF IInv, SendersWait
<1>2. /\ sent' = Count(sent, event.kind) /\ queue' \in {queue, Append(queue, event)}
      /\ UNCHANGED <<batch, latest, lastPress, published>>
  BY DEF FinishSend, loop, app
<1>3. queue \in Seq(Events) /\ sent \in [Kinds -> Nat] /\ sent["Key"] \in Nat
  BY IInvLines
<1> HIDE DEF event
<1>4. sent'["Key"] = IF event.kind = "Key" THEN sent["Key"] + 1 ELSE sent["Key"]
  <2>1. "Key" \in Kinds
    BY DEF Kinds
  <2> HIDE DEF Kinds
  <2> QED BY <1>1, <1>2, <1>3, <2>1 DEF Count
<1>5. Accepted(kind)' \in {Accepted(kind), Accepted(kind) \cup Of(kind, event)}
  <2>1. Numbers(kind, Append(queue, event)) = Numbers(kind, queue) \cup Of(kind, event)
    BY <1>1, <1>3, NumbersAppended
  <2>2. Numbers(kind, queue') \in {Numbers(kind, queue), Numbers(kind, queue) \cup Of(kind, event)}
    BY <1>2, <2>1
  <2>3. Accepted(kind)' = Numbers(kind, batch) \cup Numbers(kind, queue')
    BY <1>2 DEF Accepted
  <2> QED BY <2>2, <2>3 DEF Accepted
<1>6. CASE event.kind = kind
  <2>1. kind = "Key" /\ Of(kind, event) = {sent'["Key"]} /\ sent'["Key"] > sent["Key"]
    BY <1>1, <1>3, <1>4, <1>6 DEF Of
  <2> QED BY <1>2, <1>5, <2>1 DEF Offers, Offered, Taken
<1>7. CASE event.kind # kind
  <2>1. Accepted(kind)' = Accepted(kind)
    BY <1>5, <1>7 DEF Of
  <2>2. kind = "Key" => sent'["Key"] = sent["Key"]
    BY <1>4, <1>7
  <2> QED BY <1>2, <2>1, <2>2 DEF Rests, Offered, Taken
<1> QED BY <1>6, <1>7

\* What moves from the channel to the hands of the loop still waits, unless a newer
\* snapshot takes the place of an older one.
LEMMA TakingFeeds ==
  ASSUME IInv, Receive \/ Drain, NEW kind \in {"Key", "Snapshot"}
  PROVE  Supersedes(kind) \/ Rests(kind)
<1>1. /\ queue \in Seq(Events) /\ batch \in Seq(Events) /\ queue # <<>> /\ queue' = Tail(queue)
      /\ Head(queue) \in Events
  BY IInvLines DEF Receive, Drain
<1>2. UNCHANGED <<sent, published, latest, lastPress>>
  BY DEF Receive, Drain, app, history
<1>3. Offered(kind)' = Offered(kind) /\ Taken(kind)' = Taken(kind)
  BY <1>2 DEF Offered, Taken
<1> DEFINE event == Head(queue)
<1>4. /\ Numbers(kind, queue) = Of(kind, event) \cup Numbers(kind, queue')
      /\ Accepted(kind) = Numbers(kind, batch) \cup Of(kind, event) \cup Numbers(kind, queue')
      /\ Accepted(kind)' = Numbers(kind, batch') \cup Numbers(kind, queue')
  BY <1>1, NumbersTaken DEF Accepted
<1> HIDE DEF event
<1>5. CASE Receive
  <2>1. batch = <<>> /\ batch' = <<event>>
    BY <1>5 DEF Receive, UiAt, IInv, TurnShape, event
  <2>2. event \in Events
    BY <1>1 DEF event
  <2>3. Numbers(kind, batch) = {} /\ Numbers(kind, batch') = Of(kind, event)
    <3>1. /\ <<event>> \in Seq(Events) /\ <<event>> # <<>>
          /\ Head(<<event>>) = event /\ Tail(<<event>>) = <<>>
      BY <2>2
    <3> QED BY <2>1, <3>1, NumbersTaken, NumbersNone
  <2> QED BY <1>3, <1>4, <2>3 DEF Rests
<1>6. CASE Drain
  <2>1. /\ batch # <<>> /\ batch' = Drained(batch, event)
        /\ batch[1].kind = "Snapshot" /\ Len(batch) \in Nat \ {0} /\ event \in Events
    BY <1>1, <1>6 DEF Drain, UiAt, IInv, TurnShape, event
  <2>2. CASE event.kind # "Snapshot"
    <3>1. Numbers(kind, batch') = Numbers(kind, batch) \cup Of(kind, event)
      BY <1>1, <2>1, <2>2, NumbersAppended DEF Drained
    <3> QED BY <1>3, <1>4, <3>1 DEF Rests
  <2>3. CASE event.kind = "Snapshot"
    <3>1. Line("Snapshot", batch, queue, latest, published)
      BY IInvLines
    <3>2. 1 \in 1..Len(batch) /\ 1 \in 1..Len(queue) /\ event = queue[1] /\ batch[1] \in Events
          /\ Head(batch) = batch[1]
      BY <1>1, <2>1 DEF event
    <3>3. batch[1].number < event.number
      BY <2>1, <2>3, <3>1, <3>2 DEF Line, Precedes
    <3>4. batch[1].number \in Nat /\ event.number \in Nat
      BY <2>1, <3>2, Numbered
    <3>5. batch' = [batch EXCEPT ![1] = event]
      BY <2>1, <2>3, <3>3, <3>4 DEF Drained
    <3>6. /\ Numbers(kind, batch') = Of(kind, event) \cup Numbers(kind, Tail(batch))
          /\ Numbers(kind, batch) = Of(kind, batch[1]) \cup Numbers(kind, Tail(batch))
      BY <1>1, <2>1, <3>2, <3>5, NumbersReplaced, NumbersTaken
    <3>7. CASE kind = "Key"
      <4>1. Of(kind, event) = {} /\ Of(kind, batch[1]) = {}
        BY <2>1, <2>3, <3>7 DEF Of
      <4> QED BY <1>3, <1>4, <3>6, <4>1 DEF Rests
    <3>8. CASE kind = "Snapshot"
      <4> DEFINE older == batch[1].number
                 newer == event.number
                 rest  == Numbers(kind, Tail(batch)) \cup Numbers(kind, queue')
      <4>1. Of(kind, event) = {newer} /\ Of(kind, batch[1]) = {older}
        BY <2>1, <2>3, <3>8 DEF Of
      <4>2. older \notin rest
        <5>1. Line(kind, Tail(batch), queue, older, published)
          BY <1>1, <2>1, <3>2, <3>8, IInvLines, ApplyFirst
        <5>2. Line(kind, Tail(batch), queue', older, published)
          <6>1. Tail(batch) \in Seq(Events) /\ published \in Nat
            BY <1>1, <2>1, IInvLines
          <6> QED BY <1>1, <3>4, <5>1, <6>1, TakeBehind
        <5>3. \A n \in rest : older < n
          <6>1. Tail(batch) \in Seq(Events) /\ queue' \in Seq(Events)
            BY <1>1, <2>1
          <6> QED BY <5>2, <6>1, LineNumbers
        <5> QED BY <3>4, <5>3
      <4> HIDE DEF older, newer
      <4>3. Accepted(kind) = {older, newer} \cup rest /\ Accepted(kind)' = {newer} \cup rest
        BY <1>4, <3>6, <4>1
      <4>4. older < newer /\ older # newer
        BY <3>3, <3>4 DEF older, newer
      <4> HIDE DEF rest
      <4>5. Accepted(kind)' = Accepted(kind) \ {older}
        BY <4>2, <4>3, <4>4
      <4> QED BY <1>3, <3>8, <4>3, <4>4, <4>5 DEF Supersedes
    <3> QED BY <3>7, <3>8
  <2> QED BY <2>2, <2>3
<1> QED BY <1>5, <1>6

\* The reducer takes the oldest event of its kind, and every snapshot it gets is news.
LEMMA ReduceFeeds ==
  ASSUME IInv, Reduce, NEW kind \in {"Key", "Snapshot"}
  PROVE  Takes(kind) \/ Rests(kind)
<1> DEFINE event == Head(batch)
           low   == Taken(kind)
           high  == Offered(kind)
<1>1. /\ batch \in Seq(Events) /\ batch # <<>> /\ queue \in Seq(Events) /\ event \in Events
      /\ Tail(batch) \in Seq(Events) /\ batch' = Tail(batch) /\ queue' = queue
  <2>1. batch # <<>>
    BY DEF Reduce, UiAt, IInv, TurnShape
  <2> QED BY <2>1, IInvLines DEF Reduce, channels
<1>2. sent' = sent /\ published' = published
  BY DEF Reduce
<1>3. Offered(kind)' = Offered(kind)
  BY <1>2 DEF Offered
<1>4. /\ Accepted(kind) = Of(kind, event) \cup Accepted(kind)'
      /\ Accepted(kind)' = Numbers(kind, Tail(batch)) \cup Numbers(kind, queue)
  BY <1>1, NumbersTaken DEF Accepted
<1>5. low \in Nat /\ high \in Nat /\ Line(kind, batch, queue, low, high)
  BY IInvLines DEF Taken, Offered
<1>6. CASE event.kind # kind
  <2>1. lastPress' = lastPress \/ kind = "Snapshot"
    BY <1>6 DEF Reduce
  <2>2. latest' = latest \/ kind = "Key"
    <3>1. event.kind # "Snapshot" \/ kind = "Key"
      BY <1>6
    <3>2. ReduceDetail(event.value) \/ ReduceKey(event.value) => latest' = latest
      BY DEF ReduceDetail, ReduceKey
    <3>3. UNCHANGED app => latest' = latest
      BY DEF app
    <3> QED BY <3>1, <3>2, <3>3 DEF Reduce
  <2>3. Taken(kind)' = Taken(kind)
    BY <2>1, <2>2 DEF Taken
  <2>4. Of(kind, event) = {}
    BY <1>6 DEF Of
  <2> QED BY <1>3, <1>4, <2>3, <2>4 DEF Rests
<1>7. CASE event.kind = kind
  <2>1. /\ low < event.number /\ event.number <= high
        /\ Line(kind, Tail(batch), queue, event.number, high)
    BY <1>1, <1>5, <1>7, ApplyFirst
  <2>2. Taken(kind)' = event.number
    <3>1. CASE kind = "Key"
      BY <1>7, <3>1 DEF Reduce, Taken
    <3>2. CASE kind = "Snapshot"
      <4>1. latest < event.number /\ latest \in Nat /\ event.number \in Nat
        BY <1>1, <2>1, <3>2, IInvLines, Numbered DEF Taken
      <4>2. ReduceSnapshot(event.number)
        BY <1>7, <3>2 DEF Reduce
      <4> QED BY <3>2, <4>1, <4>2 DEF ReduceSnapshot, Taken
    <3> QED BY <3>1, <3>2
  <2>3. Of(kind, event) = {event.number} /\ event.number \in Nat
    BY <1>1, <1>7, Numbered DEF Of
  <2> HIDE DEF event, low, high
  <2>4. \A n \in Accepted(kind)' : event.number < n /\ n \in Nat
    <3>1. \A n \in Accepted(kind)' : event.number < n
      BY <1>1, <1>4, <2>1, LineNumbers
    <3>2. Accepted(kind)' \subseteq Nat
      <4>1. Numbers(kind, Tail(batch)) \subseteq Nat
        BY <1>1, NumbersAreNatural, Zenon
      <4>2. Numbers(kind, queue) \subseteq Nat
        BY <1>1, NumbersAreNatural, Zenon
      <4> QED BY <1>4, <4>1, <4>2
    <3> QED BY <3>1, <3>2
  <2>5. event.number \notin Accepted(kind)'
    BY <2>3, <2>4
  <2>6. Accepted(kind) = {event.number} \cup Accepted(kind)'
    BY <1>4, <2>3
  <2>7. \A n \in Accepted(kind) : event.number <= n
    BY <2>3, <2>4, <2>6
  <2>8. Accepted(kind)' = Accepted(kind) \ {event.number}
    BY <2>5, <2>6
  <2> QED BY <1>3, <2>2, <2>6, <2>7, <2>8 DEF Takes
<1> QED BY <1>6, <1>7

\* No step does anything else to what waits.
LEMMA StepFeeds == ASSUME IInv, [Next]_vars, NEW kind \in {"Key", "Snapshot"} PROVE Feeds(kind)
<1>r. UNCHANGED <<queue, batch, sent, published, latest, lastPress>> => Rests(kind)
  BY DEF Rests, Accepted, Offered, Taken
<1>0. CASE UNCHANGED vars
  BY <1>0, <1>r DEF vars, channels, loop, app, history, Feeds
<1>1. CASE \E worker \in Workers : Leave(worker)
  BY <1>1, <1>r DEF Leave, channels, loop, app, history, Feeds
<1>2. CASE \E thread \in Threads : FinishSend(thread)
  BY <1>2, FinishSendFeeds DEF Feeds
<1>3. ASSUME NEW press \in Presses, PressKey(press) PROVE Feeds(kind)
  <2> DEFINE event == Event("Key", press, sent["Key"] + 1)
  <2>1. /\ event \in Events /\ event.kind = "Key" /\ event.kind \in Kinds
        /\ event.number = sent["Key"] + 1
    BY IInvLines, EventTypes DEF Event, Kinds
  <2>2. /\ Send("input", event) /\ "input" \in Threads
        /\ UNCHANGED <<batch, latest, lastPress, published>>
    BY <1>3 DEF PressKey, Threads, Workers, loop, app
  <2> HIDE DEF event
  <2> QED BY <2>1, <2>2, SendFeeds DEF Feeds
<1>4. CASE InputFails
  BY <1>4, <1>r DEF InputFails, channels, loop, app, history, Feeds
<1>5. CASE Tick
  <2>1. Plain("Tick") \in Events /\ Plain("Tick").kind = "Tick" /\ "Tick" \in Kinds
    BY EventTypes DEF Plain, Event, Kinds
  <2>2. /\ Send("tick", Plain("Tick")) /\ "tick" \in Threads
        /\ UNCHANGED <<batch, latest, lastPress, published>>
    BY <1>5 DEF Tick, Threads, Workers, loop, app
  <2> QED BY <2>1, <2>2, SendFeeds DEF Feeds
<1>6. CASE SamplerPass
  BY <1>6, <1>r DEF SamplerPass, channels, loop, app, history, Feeds
<1>7. CASE SampleDone
  <2> DEFINE event == Event("Snapshot", NoProcess, sequence + 1)
  <2>1. UNCHANGED <<batch, latest, lastPress>>
    BY <1>7 DEF SampleDone, loop, app
  <2>2. CASE Send("sampler", event) /\ sequence' = sequence + 1 /\ published' = sequence'
    <3>1. sequence \in Nat /\ published \in 0..sequence
      BY DEF IInv, TypeOK
    <3>2. event \in Events /\ event.kind = "Snapshot" /\ event.kind \in Kinds
          /\ published' = event.number /\ published < event.number
      BY <2>2, <3>1, EventTypes DEF Event, Kinds
    <3>3. "sampler" \in Threads
      BY DEF Threads, Workers
    <3> HIDE DEF event
    <3> QED BY <2>1, <2>2, <3>2, <3>3, SendFeeds DEF Feeds
  <2>3. CASE UNCHANGED <<queue, sent, published>>
    BY <1>r, <2>1, <2>3 DEF Feeds
  <2> QED BY <1>7, <2>2, <2>3 DEF SampleDone
<1>8. CASE TakeRequest
  BY <1>8, <1>r DEF TakeRequest, loop, app, history, Feeds
<1>9. CASE DetailDone
  <2> DEFINE event == Event("Detail", fetching, 0)
  <2>1. event \in Events /\ event.kind = "Detail" /\ event.kind \in Kinds
    BY EventTypes DEF IInv, TypeOK, Event, Kinds
  <2>2. /\ Send("detail", event) /\ "detail" \in Threads
        /\ UNCHANGED <<batch, latest, lastPress, published>>
    BY <1>9 DEF DetailDone, Threads, Workers, loop, app
  <2> HIDE DEF event
  <2> QED BY <2>1, <2>2, SendFeeds DEF Feeds
<1>10. CASE SignalArrives \/ SignalsEnd
  BY <1>10, <1>r DEF SignalArrives, SignalsEnd, channels, loop, app, history, Feeds
<1>11. CASE Draw \/ DrawFails
  BY <1>11, <1>r DEF Draw, DrawFails, channels, app, history, Feeds
<1>12. CASE Receive \/ Drain
  BY <1>12, TakingFeeds DEF Feeds
<1>13. CASE ReceiveTimesOut \/ DrainDone
  BY <1>13, <1>r DEF ReceiveTimesOut, DrainDone, channels, app, history, Feeds
<1>14. CASE Reduce
  BY <1>14, ReduceFeeds DEF Feeds
<1>15. CASE Execute
  <2>1. UNCHANGED <<batch, latest, lastPress, published>>
    BY <1>15 DEF Execute
  <2>2. CASE ReloadConfig
    <3>1. Plain("ConfigReloaded") \in Events /\ Plain("ConfigReloaded").kind = "ConfigReloaded"
          /\ "ConfigReloaded" \in Kinds /\ "ui" \in Threads
      BY EventTypes DEF Plain, Event, Kinds, Threads
    <3>2. Send("ui", Plain("ConfigReloaded"))
      BY <2>2 DEF ReloadConfig
    <3> QED BY <2>1, <3>1, <3>2, SendFeeds DEF Feeds
  <2>3. CASE ~ReloadConfig
    <3>1. UNCHANGED <<queue, sent>>
      BY <1>15, <2>3 DEF Execute, RequestSample, SetSensorInterest, FetchProcessDetail,
        TriggerShutdown, channels
    <3> QED BY <1>r, <2>1, <3>1 DEF Feeds
  <2> QED BY <2>2, <2>3
<1>16. CASE EndTurn \/ CloseDown \/ Restore \/ JoinAll
  BY <1>16, <1>r DEF EndTurn, CloseDown, Restore, JoinAll, channels, app, history, Feeds
<1> QED
  BY <1>0, <1>1, <1>2, <1>3, <1>4, <1>5, <1>6, <1>7, <1>8, <1>9, <1>10, <1>11, <1>12, <1>13,
    <1>14, <1>15, <1>16 DEF Next, SamplerStep, DetailStep, UiStep

LEMMA NothingAccepted == Init => Accepted("Key") = {} /\ Accepted("Snapshot") = {}
BY NumbersNone DEF Init, Accepted

\* The way of the keys implements EventFeed: one that the channel accepted (runtime.rs,
\* EventSender::send) is applied, once and in its turn.
THEOREM KeysAreDelivered == Spec => KeysAreFed
<1>1. Init => Keys!Init
  BY NothingAccepted DEF Init, Keys!Init, Kinds
<1>2. IInv /\ [Next]_vars => [Keys!Next]_<<sent["Key"], Accepted("Key"), lastPress>>
  <2> SUFFICES ASSUME IInv, [Next]_vars
               PROVE  Keys!Next \/ UNCHANGED <<sent["Key"], Accepted("Key"), lastPress>>
    OBVIOUS
  <2>1. Feeds("Key")
    BY StepFeeds
  <2>2. Offers("Key") => Keys!Offer
    BY DEF Offers, Offered, Taken, Keys!Offer
  <2>3. Takes("Key") => Keys!Take
    BY DEF Takes, Offered, Taken, Keys!Take
  <2>4. Rests("Key") => UNCHANGED <<sent["Key"], Accepted("Key"), lastPress>>
    BY DEF Rests, Offered, Taken
  <2> QED BY <2>1, <2>2, <2>3, <2>4 DEF Feeds, Supersedes, Keys!Next
<1> QED BY <1>1, <1>2, Inductive, PTL DEF Spec, KeysAreFed, Keys!Spec

\* The way of the snapshots implements it too: one that the channel accepted is applied,
\* or drained away by a newer one that waits (interactive.rs, drain_to_newest_snapshot).
THEOREM SnapshotsAreDelivered == Spec => SnapshotsAreFed
<1>1. Init => Snapshots!Init
  BY NothingAccepted DEF Init, Snapshots!Init
<1>2. IInv /\ [Next]_vars => [Snapshots!Next]_<<published, Accepted("Snapshot"), latest>>
  <2> SUFFICES ASSUME IInv, [Next]_vars
               PROVE  Snapshots!Next \/ UNCHANGED <<published, Accepted("Snapshot"), latest>>
    OBVIOUS
  <2>1. Feeds("Snapshot")
    BY StepFeeds
  <2>2. Offers("Snapshot") => Snapshots!Offer
    BY DEF Offers, Offered, Taken, Snapshots!Offer
  <2>3. Takes("Snapshot") => Snapshots!Take
    BY DEF Takes, Offered, Taken, Snapshots!Take
  <2>4. Supersedes("Snapshot") => Snapshots!Supersede
    BY DEF Supersedes, Offered, Taken, Snapshots!Supersede
  <2>5. Rests("Snapshot") => UNCHANGED <<published, Accepted("Snapshot"), latest>>
    BY DEF Rests, Offered, Taken
  <2> QED BY <2>1, <2>2, <2>3, <2>4, <2>5 DEF Feeds, Snapshots!Next
<1> QED BY <1>1, <1>2, Inductive, PTL DEF Spec, SnapshotsAreFed, Snapshots!Spec

=============================================================================
