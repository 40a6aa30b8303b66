----------------------------- MODULE TimeLensProofs -----------------------------
(***************************************************************************)
(* The safety of the Time Lens for every limit, every ring capacity and    *)
(* any number of snapshots: the inductive invariant of TimeLens, and the   *)
(* properties that follow from it.                                         *)
(***************************************************************************)
EXTENDS TimeLens, SequenceTheorems, WellFoundedInduction, TLAPS

Config == [interval : Nat, duration : Nat]
Ring   == [capacity : Nat \ {0}, start : Nat, samples : Seq(Sample),
           total : Nat, evicted : Nat]
View   == [kind : {"live", "selected"}, absolute : Nat]

\* The snapshot on screen is never newer than the newest one.
DisplayedIsReceived == displayed <= latest

\* A pinned cursor names an index the ring has given out.
CursorInRange == view # Live => ring.samples # <<>> /\ view.absolute < ring.total

\* The properties of states that depend on each other.
IInv ==
  /\ TypeOK
  /\ RingSorted
  /\ RingAccounted
  /\ LiveShowsLatest
  /\ ScrubSelectsSample
  /\ IntervalAgrees
  /\ DisplayedIsReceived
  /\ CursorInRange

-----------------------------------------------------------------------------
(* The ring *)

\* However small the interval or the budget, a ring holds at least one sample.
LEMMA CapacityIsPositive ==
  ASSUME NEW c \in Config
  PROVE  ResolveCapacity(c) \in Nat \ {0}
<1> DEFINE duration == Clamp(c.duration, MinDuration, MaxDuration)
           step     == Clamp(c.interval, MinInterval, MaxInterval)
<1>1. duration \in Nat /\ step \in Nat \ {0}
  BY HistoryAssumption DEF Config, Clamp, Greater, Lesser
<1>2. DeriveCapacity(duration, step) \in Nat \ {0}
  <2>1. (duration + step - 1) \div step \in Int
    BY <1>1
  <2> QED BY <2>1 DEF DeriveCapacity, Greater
<1>3. AffordableCapacity \in Nat \ {0}
  <2>1. MemoryBudget \div BytesPerSample \in Int
    BY HistoryAssumption
  <2> QED BY <2>1 DEF AffordableCapacity, Greater
<1> QED BY <1>2, <1>3 DEF ResolveCapacity, Lesser

\* A new ring is empty and well-formed.
LEMMA NewRingType ==
  ASSUME NEW c \in Config, NEW start \in Nat
  PROVE  /\ NewRing(c, start) \in Ring
         /\ NewRing(c, start).samples = <<>>
         /\ NewRing(c, start).capacity = ResolveCapacity(c)
         /\ NewRing(c, start).total = 0 /\ NewRing(c, start).evicted = 0
BY CapacityIsPositive DEF NewRing, Ring

\* Dropping k elements from the front and adding one at the back.
LEMMA Slide ==
  ASSUME NEW S, NEW seq \in Seq(S), NEW elt \in S, NEW k \in 0..Len(seq)
  PROVE  /\ Append(SubSeq(seq, k + 1, Len(seq)), elt) \in Seq(S)
         /\ Len(Append(SubSeq(seq, k + 1, Len(seq)), elt)) = Len(seq) - k + 1
         /\ \A i \in 1..(Len(seq) - k) :
              Append(SubSeq(seq, k + 1, Len(seq)), elt)[i] = seq[i + k]
         /\ Append(SubSeq(seq, k + 1, Len(seq)), elt)[Len(seq) - k + 1] = elt
<1>1. /\ SubSeq(seq, k + 1, Len(seq)) \in Seq(S)
      /\ Len(SubSeq(seq, k + 1, Len(seq))) = Len(seq) - k
  OBVIOUS
<1>2. \A i \in 1..(Len(seq) - k) : SubSeq(seq, k + 1, Len(seq))[i] = seq[i + k]
  OBVIOUS
<1> QED BY <1>1, <1>2

\* A sample is what its place in the ring expects.
LEMMA SampleOfType ==
  ASSUME NEW r \in Ring, NEW snapshot \in [sequence : Nat, captured : Nat]
  PROVE  SampleOf(r, snapshot) \in Sample
BY DEF SampleOf, Sample, Minus, Ring

\* What record does with a snapshot it takes: the samples that stay move to the
\* front, the new one becomes the last, and the capacity is respected.
LEMMA RecordTakes ==
  ASSUME NEW r \in Ring, NEW snapshot \in [sequence : Nat, captured : Nat],
         Len(r.samples) <= r.capacity, Newer(r, snapshot)
  PROVE  LET k == Overflowing(r)
             s == Record(r, snapshot)
         IN  /\ k \in 0..Len(r.samples)
             /\ s \in Ring
             /\ Len(s.samples) = Len(r.samples) - k + 1
             /\ Len(s.samples) <= s.capacity
             /\ \A i \in 1..(Len(r.samples) - k) : s.samples[i] = r.samples[i + k]
             /\ s.samples[Len(s.samples)] = SampleOf(r, snapshot)
             /\ s.capacity = r.capacity /\ s.start = r.start
             /\ s.evicted = r.evicted + k /\ s.total = r.total + 1
<1> DEFINE k    == Overflowing(r)
           new  == SampleOf(r, snapshot)
           kept == SubSeq(r.samples, k + 1, Len(r.samples))
           s    == Record(r, snapshot)
<1>1. r.samples \in Seq(Sample) /\ r.capacity \in Nat \ {0} /\ Len(r.samples) \in Nat
  BY DEF Ring
<1>2. k \in 0..Len(r.samples) /\ Len(r.samples) - k + 1 <= r.capacity
  BY <1>1 DEF Overflowing, Minus
<1>3. new \in Sample
  BY SampleOfType
<1>5. /\ Append(kept, new) \in Seq(Sample)
      /\ Len(Append(kept, new)) = Len(r.samples) - k + 1
      /\ \A i \in 1..(Len(r.samples) - k) : Append(kept, new)[i] = r.samples[i + k]
      /\ Append(kept, new)[Len(r.samples) - k + 1] = new
  <2> HIDE DEF new, k
  <2>1. k \in 0..Len(r.samples) /\ r.samples \in Seq(Sample)
    BY <1>1, <1>2
  <2> QED BY <2>1, <1>3, Slide
<1>6. s = [r EXCEPT !.samples = Append(kept, new), !.evicted = r.evicted + k,
                    !.total = r.total + 1]
  BY DEF Record
<1>7. /\ s.samples = Append(kept, new) /\ s.evicted = r.evicted + k
      /\ s.total = r.total + 1 /\ s.capacity = r.capacity /\ s.start = r.start
  <2> HIDE DEF kept, new, k, s
  <2> QED BY <1>6 DEF Ring
<1>8. s \in Ring
  <2>1. r.evicted + k \in Nat /\ r.total + 1 \in Nat
    <3> HIDE DEF k
    <3> QED BY <1>1, <1>2 DEF Ring
  <2>2. Append(kept, new) \in Seq(Sample)
    BY <1>5
  <2> HIDE DEF kept, new, k, s
  <2> QED BY <1>6, <2>1, <2>2, Zenon DEF Ring
<1> HIDE DEF kept, new, s, k
<1>9. QED
  BY <1>1, <1>2, <1>5, <1>7, <1>8 DEF k, s, new

-----------------------------------------------------------------------------
(* The cursor *)

\* On a ring that holds a sample the cursor resolves to a retained index, whatever
\* was evicted since it was pinned.
LEMMA CursorOnRing ==
  ASSUME NEW r \in Ring, r.samples # <<>>, r.total = r.evicted + Len(r.samples),
         NEW v \in View
  PROVE  /\ FirstAbsolute(r) = r.evicted
         /\ NewestAbsolute(r) \in Nat /\ r.evicted <= NewestAbsolute(r)
         /\ SelectedAbsolute(v, r) \in r.evicted..NewestAbsolute(r)
<1>1. /\ r.evicted \in Nat /\ r.total \in Nat /\ Len(r.samples) \in Nat \ {0}
      /\ v.absolute \in Nat
  BY DEF Ring, View
<1>2. FirstAbsolute(r) = r.evicted
  BY <1>1 DEF FirstAbsolute, Minus
<1>3. NewestAbsolute(r) \in Nat /\ r.evicted <= NewestAbsolute(r)
  BY <1>1 DEF NewestAbsolute
<1> QED BY <1>1, <1>2, <1>3 DEF SelectedAbsolute, Lesser, Greater

\* A step of any length, in either direction, pins the cursor to a retained index.
LEMMA StepsStayOnRing ==
  ASSUME NEW r \in Ring, r.samples # <<>>, r.total = r.evicted + Len(r.samples),
         NEW v \in View, NEW steps \in Nat
  PROVE  \A moved \in {StepBack(v, r, steps), StepForward(v, r, steps)} :
           /\ moved.view \in View /\ moved.view # Live
           /\ moved.view.absolute \in r.evicted..NewestAbsolute(r)
           /\ moved.outcome \in {"Moved", "ClampedAtOldest", "ClampedAtNewest"}
<1>1. /\ FirstAbsolute(r) = r.evicted /\ r.evicted \in Nat
      /\ NewestAbsolute(r) \in Nat
      /\ SelectedAbsolute(v, r) \in r.evicted..NewestAbsolute(r)
  BY CursorOnRing DEF Ring
<1>2. \A at \in r.evicted..NewestAbsolute(r) :
        /\ Selected(at) \in View /\ Selected(at) # Live
        /\ Selected(at).absolute = at
  BY <1>1 DEF Selected, Live, View
<1>3. SelectedAbsolute(v, r) - Lesser(steps, Minus(SelectedAbsolute(v, r), r.evicted))
        \in r.evicted..NewestAbsolute(r)
  BY <1>1 DEF Lesser, Minus
<1>4. Lesser(SelectedAbsolute(v, r) + steps, NewestAbsolute(r))
        \in r.evicted..NewestAbsolute(r)
  BY <1>1 DEF Lesser
<1>5. /\ StepBack(v, r, steps).view \in View /\ StepBack(v, r, steps).view # Live
      /\ StepBack(v, r, steps).view.absolute \in r.evicted..NewestAbsolute(r)
  BY <1>1, <1>2, <1>3 DEF StepBack
<1>6. /\ StepForward(v, r, steps).view \in View /\ StepForward(v, r, steps).view # Live
      /\ StepForward(v, r, steps).view.absolute \in r.evicted..NewestAbsolute(r)
  BY <1>1, <1>2, <1>4 DEF StepForward
<1>7. /\ StepBack(v, r, steps).outcome \in {"Moved", "ClampedAtOldest"}
      /\ StepForward(v, r, steps).outcome \in {"Moved", "ClampedAtNewest"}
  BY DEF StepBack, StepForward
<1> QED BY <1>5, <1>6, <1>7

-----------------------------------------------------------------------------
(* The inductive invariant *)

\* The program starts with an empty ring and a live view.
LEMMA InitEstablishes == Init => IInv
<1> SUFFICES ASSUME Init PROVE IInv
  OBVIOUS
<1>1. PICK initial \in Configs :
        config = initial /\ interval = initial.interval /\ ring = NewRing(initial, 0)
  BY DEF Init
<1>2. initial \in Config
  BY TimeLensAssumption DEF Configs, Config
<1>3. /\ ring \in Ring /\ ring.samples = <<>> /\ ring.capacity = ResolveCapacity(config)
      /\ ring.total = 0 /\ ring.evicted = 0
  BY <1>1, <1>2, NewRingType
<1>4. TypeOK
  <2>1. config \in Config /\ interval \in Nat
    BY <1>1, <1>2 DEF Config
  <2>2. /\ now \in Nat /\ clock \in Nat /\ produced \in Seq(Nat)
        /\ latest \in 0..Len(produced) /\ displayed \in 0..Len(produced)
    BY DEF Init
  <2>3. /\ view \in View /\ paused \in BOOLEAN /\ scrubbed \in BOOLEAN /\ lastSeek = None
    BY DEF Init, View, Live
  <2> QED BY <1>3, <2>1, <2>2, <2>3 DEF TypeOK, Ring, Config, View
<1>5. RingSorted /\ RingAccounted
  BY <1>3 DEF RingSorted, RingAccounted, Ring
<1>6. LiveShowsLatest /\ ScrubSelectsSample /\ IntervalAgrees
  BY <1>1 DEF Init, LiveShowsLatest, ScrubSelectsSample, IntervalAgrees, IsLive
<1>7. DisplayedIsReceived /\ CursorInRange
  BY DEF Init, DisplayedIsReceived, CursorInRange
<1> QED BY <1>4, <1>5, <1>6, <1>7 DEF IInv

\* A rebuilt ring is empty, and the lens that goes live over it shows the newest
\* snapshot.
LEMMA RebuildPreserves ==
  ASSUME IInv, NEW c \in Config, RebuildHistory(c), interval' = c.interval
  PROVE  IInv'
<1>1. /\ ring' \in Ring /\ ring'.samples = <<>> /\ ring'.capacity = ResolveCapacity(c)
      /\ ring'.total = 0 /\ ring'.evicted = 0
  BY NewRingType DEF RebuildHistory, IInv, TypeOK
<1>2. TypeOK'
  BY <1>1 DEF RebuildHistory, GoLive, IInv, TypeOK, environment, Live, Ring, Config
<1>3. RingSorted' /\ RingAccounted'
  BY <1>1 DEF RebuildHistory, RingSorted, RingAccounted, Ring
<1>4. LiveShowsLatest' /\ ScrubSelectsSample' /\ IntervalAgrees'
  BY DEF RebuildHistory, GoLive, IInv, TypeOK, LiveShowsLatest, ScrubSelectsSample,
         IntervalAgrees, IsLive
<1>5. DisplayedIsReceived' /\ CursorInRange'
  BY DEF RebuildHistory, GoLive, IInv, TypeOK, DisplayedIsReceived, CursorInRange
<1> QED BY <1>2, <1>3, <1>4, <1>5 DEF IInv

\* The newest sample stands for every retained one in the test of record.
LEMMA RetainedAreOlder ==
  ASSUME ring \in Ring, RingSorted,
         NEW snapshot \in [sequence : Nat, captured : Nat], Newer(ring, snapshot),
         NEW i \in 1..Len(ring.samples)
  PROVE  /\ ring.samples[i].sequence < SampleOf(ring, snapshot).sequence
         /\ ring.samples[i].offset <= SampleOf(ring, snapshot).offset
<1> DEFINE last == ring.samples[Len(ring.samples)]
           new  == SampleOf(ring, snapshot)
<1>1. ring.samples \in Seq(Sample) /\ Len(ring.samples) \in Nat /\ ring.samples # <<>>
  BY DEF Ring
<1>2. ring.samples[i] \in Sample /\ last \in Sample
  BY <1>1
<1>3. new \in Sample /\ new.sequence = snapshot.sequence
  BY SampleOfType DEF SampleOf
<1>4. last.sequence < new.sequence /\ last.offset <= new.offset
  BY <1>1, <1>3 DEF Newer, NewestSample
<1>5. /\ ring.samples[i].sequence <= last.sequence
      /\ ring.samples[i].offset <= last.offset
  <2>1. CASE i = Len(ring.samples)
    BY <2>1, <1>2 DEF Sample
  <2>2. CASE i # Len(ring.samples)
    <3>1. Len(ring.samples) \in 1..Len(ring.samples) /\ i < Len(ring.samples)
      BY <1>1, <2>2
    <3>2. /\ ring.samples[i].sequence < last.sequence
          /\ ring.samples[i].offset <= last.offset
      BY <3>1 DEF RingSorted
    <3> QED BY <3>2, <1>2 DEF Sample
  <2> QED BY <2>1, <2>2
<1> HIDE DEF last, new
<1>6. ring.samples[i].sequence < new.sequence /\ ring.samples[i].offset <= new.offset
  BY <1>2, <1>3, <1>4, <1>5 DEF Sample
<1> QED BY <1>6 DEF new

\* The capture times of the snapshots made, and so the snapshots themselves.
LEMMA ProducedTimes ==
  ASSUME TypeOK
  PROVE  Len(produced) \in Nat /\ \A i \in 1..Len(produced) : produced[i] \in Nat
<1>1. produced \in Seq(Nat)
  BY DEF TypeOK
<1> QED BY <1>1, ElementOfSeq, LenProperties

LEMMA SnapshotType ==
  ASSUME TypeOK, NEW sequence \in 1..Len(produced)
  PROVE  Snapshot(sequence) \in [sequence : Nat, captured : Nat]
<1>1. produced[sequence] \in Nat /\ sequence \in Nat
  BY ProducedTimes
<1> QED BY <1>1 DEF Snapshot

\* Snapshots in any order, early, late or repeated.
LEMMA SnapshotPreserves ==
  ASSUME IInv, NEW sequence \in 1..Len(produced), SnapshotArrived(sequence)
  PROVE  IInv'
<1> DEFINE snapshot == Snapshot(sequence)
<1> USE DEF IInv
<1>1. produced[sequence] \in Nat /\ sequence \in Nat
  BY DEF TypeOK
<1>2. snapshot \in [sequence : Nat, captured : Nat]
  BY <1>1 DEF Snapshot
<1>3. ring \in Ring /\ Len(ring.samples) <= ring.capacity
  BY DEF TypeOK, RingAccounted, Ring
<1>4. /\ ring' \in Ring /\ ring'.capacity = ring.capacity
      /\ Len(ring'.samples) <= ring'.capacity
      /\ ring'.total = ring'.evicted + Len(ring'.samples)
      /\ ring.samples # <<>> => ring'.samples # <<>>
  <2>1. CASE Newer(ring, snapshot)
    <3> HIDE DEF snapshot
    <3> DEFINE k == Overflowing(ring)
    <3>1. /\ k \in 0..Len(ring.samples) /\ ring' = Record(ring, snapshot)
          /\ ring' \in Ring
          /\ Len(ring'.samples) = Len(ring.samples) - k + 1
          /\ Len(ring'.samples) <= ring'.capacity
          /\ ring'.capacity = ring.capacity
          /\ ring'.evicted = ring.evicted + k /\ ring'.total = ring.total + 1
      BY <1>2, <1>3, <2>1, RecordTakes DEF SnapshotArrived, snapshot
    <3>2. /\ ring.total = ring.evicted + Len(ring.samples)
          /\ ring.evicted \in Nat /\ Len(ring.samples) \in Nat
      BY <1>3 DEF RingAccounted, Ring
    <3> HIDE DEF k
    <3>3. Len(ring'.samples) > 0 /\ ring'.total = ring'.evicted + Len(ring'.samples)
      BY <3>1, <3>2
    <3> QED BY <3>1, <3>3
  <2>2. CASE ~Newer(ring, snapshot)
    BY <2>2, <1>3 DEF SnapshotArrived, Record, RingAccounted
  <2> QED BY <2>1, <2>2
<1>5. RingSorted'
  <2>1. CASE Newer(ring, snapshot)
    <3> DEFINE k == Overflowing(ring)
               n == Len(ring.samples) - k
    <3>1. /\ k \in 0..Len(ring.samples)
          /\ Len(ring'.samples) = n + 1
          /\ \A i \in 1..n : ring'.samples[i] = ring.samples[i + k]
          /\ ring'.samples[n + 1] = SampleOf(ring, snapshot)
      <4> HIDE DEF snapshot
      <4> QED BY <1>2, <1>3, <2>1, RecordTakes DEF SnapshotArrived, snapshot
    <3>2. \A i \in 1..Len(ring.samples) :
            /\ ring.samples[i].sequence < SampleOf(ring, snapshot).sequence
            /\ ring.samples[i].offset <= SampleOf(ring, snapshot).offset
      <4> HIDE DEF snapshot
      <4> QED BY <1>2, <1>3, <2>1, RetainedAreOlder
    <3>4. Len(ring.samples) \in Nat /\ n \in Nat /\ k \in Nat
      BY <3>1, <1>3 DEF Ring
    <3> HIDE DEF snapshot, k
    <3>5. ASSUME NEW i \in 1..(n + 1), NEW j \in 1..(n + 1), i < j
          PROVE  /\ ring'.samples[i].sequence < ring'.samples[j].sequence
                 /\ ring'.samples[i].offset <= ring'.samples[j].offset
      <4>1. i \in 1..n /\ i + k \in 1..Len(ring.samples)
        BY <3>4, <3>5
      <4>2. CASE j = n + 1
        BY <4>1, <4>2, <3>1, <3>2
      <4>3. CASE j \in 1..n
        <5>1. j + k \in 1..Len(ring.samples) /\ i + k < j + k
          BY <4>1, <4>3, <3>4, <3>5
        <5> QED BY <4>1, <4>3, <5>1, <3>1 DEF RingSorted
      <4> QED BY <4>2, <4>3, <3>4
    <3> QED BY <3>1, <3>5 DEF RingSorted
  <2>2. CASE ~Newer(ring, snapshot)
    BY <2>2 DEF SnapshotArrived, Record, RingSorted
  <2> QED BY <2>1, <2>2
<1>6. TypeOK'
  BY <1>1, <1>4 DEF SnapshotArrived, TypeOK, AdvanceClock, Greater, environment, settings,
                    timeline, Ring
<1>7. RingAccounted' /\ IntervalAgrees'
  BY <1>4 DEF SnapshotArrived, RingAccounted, IntervalAgrees, settings
<1>8. LiveShowsLatest' /\ ScrubSelectsSample'
  <2>1. LiveShowsLatest'
    <3>1. /\ sequence > latest /\ latest' = sequence
          /\ displayed' = IF IsLive \/ displayed = 0 THEN sequence ELSE displayed
          /\ view' = view /\ paused' = paused /\ scrubbed' = scrubbed
      BY <1>1 DEF SnapshotArrived, timeline
    <3>2. IsLive' <=> IsLive
      BY <3>1 DEF IsLive
    <3>3. latest \in Nat /\ displayed \in Nat
      BY DEF TypeOK
    <3>4. sequence # 0 /\ displayed' # 0
      BY <3>1, <3>3
    <3>5. IsLive => displayed = latest /\ view = Live
      BY DEF LiveShowsLatest
    <3>6. IsLive' => displayed' = latest' /\ view' = Live
      BY <3>1, <3>2, <3>5
    <3> QED BY <3>1, <3>4, <3>6 DEF LiveShowsLatest
  <2>2. ring.samples # <<>> => ring'.samples # <<>>
    BY <1>4
  <2>3. scrubbed \in BOOLEAN /\ UNCHANGED timeline
    BY DEF SnapshotArrived, TypeOK
  <2>4. ScrubSelectsSample'
    BY <2>2, <2>3 DEF ScrubSelectsSample, timeline
  <2> QED BY <2>1, <2>4
<1>9. DisplayedIsReceived'
  BY <1>1 DEF SnapshotArrived, DisplayedIsReceived, TypeOK
<1>10. CursorInRange'
  <2>1. ring'.total >= ring.total
    <3>1. CASE Newer(ring, snapshot)
      <4> HIDE DEF snapshot
      <4>1. ring'.total = ring.total + 1 /\ ring.total \in Nat
        BY <1>2, <1>3, <3>1, RecordTakes DEF SnapshotArrived, snapshot, Ring
      <4> QED BY <4>1
    <3>2. CASE ~Newer(ring, snapshot)
      BY <3>2, <1>3 DEF SnapshotArrived, Record, Ring
    <3> QED BY <3>1, <3>2
  <2>2. view' = view /\ view.absolute \in Nat /\ ring.total \in Nat /\ ring'.total \in Nat
    BY <1>3, <1>4 DEF SnapshotArrived, timeline, TypeOK, Ring
  <2> QED BY <2>1, <2>2, <1>4 DEF CursorInRange
<1> QED BY <1>5, <1>6, <1>7, <1>8, <1>9, <1>10

\* Pausing or seeking pins the cursor to a retained sample.
LEMMA PausePreserves == IInv /\ Pause => IInv'
<1> SUFFICES ASSUME IInv, Pause PROVE IInv'
  OBVIOUS
<1> USE DEF IInv
<1>1. ring' = ring /\ latest' = latest /\ displayed' = displayed /\ ~IsLive'
      /\ scrubbed' = scrubbed /\ lastSeek' = lastSeek /\ ~scrubbed
      /\ config' = config /\ interval' = interval
  BY DEF Pause, IsLive, settings
<1>2. view' \in View /\ CursorInRange'
  <2>1. CASE ring.samples = <<>>
    BY <2>1, <1>1 DEF Pause, TypeOK, View, CursorInRange
  <2>2. CASE ring.samples # <<>>
    <3>1. ring \in Ring /\ view \in View /\ ring.total = ring.evicted + Len(ring.samples)
      BY DEF TypeOK, Ring, View, RingAccounted
    <3>2. /\ view' \in View
          /\ view'.absolute \in ring.evicted..NewestAbsolute(ring)
      <4>1. view' = StepBack(view, ring, 0).view
        BY <2>2 DEF Pause
      <4>2. 0 \in Nat
        OBVIOUS
      <4> QED BY <3>1, <4>1, <4>2, <2>2, StepsStayOnRing
    <3> QED BY <3>1, <3>2, <1>1, <2>2 DEF CursorInRange, NewestAbsolute, Ring
  <2> QED BY <2>1, <2>2
<1>3. TypeOK'
  BY <1>1, <1>2 DEF Pause, TypeOK, View, environment
<1> QED BY <1>1, <1>2, <1>3
        DEF RingSorted, RingAccounted, LiveShowsLatest, ScrubSelectsSample, IntervalAgrees,
            DisplayedIsReceived

\* A seek of any distance, in either direction, lands on a retained sample.
LEMMA SeekPreserves ==
  ASSUME IInv, ring.samples # <<>>, NEW steps \in Nat,
         NEW moved \in {StepBack(view, ring, steps), StepForward(view, ring, steps)},
         Seek(moved)
  PROVE  IInv'
<1> USE DEF IInv
<1>1. ring' = ring /\ latest' = latest /\ displayed' = displayed /\ scrubbed' = TRUE
      /\ config' = config /\ interval' = interval
  BY DEF Seek, settings
<1>2. ring \in Ring /\ view \in View /\ ring.total = ring.evicted + Len(ring.samples)
  BY DEF TypeOK, Ring, View, RingAccounted
<1>3. /\ view' \in View /\ view' # Live
      /\ view'.absolute \in ring.evicted..NewestAbsolute(ring)
      /\ lastSeek' \in {"Moved", "ClampedAtOldest", "ClampedAtNewest"}
  BY <1>2, StepsStayOnRing DEF Seek
<1>4. CursorInRange'
  BY <1>1, <1>2, <1>3 DEF CursorInRange, NewestAbsolute, Ring
<1>5. TypeOK'
  BY <1>1, <1>3 DEF Seek, TypeOK, View, environment
<1>6. LiveShowsLatest' /\ ScrubSelectsSample'
  BY <1>1, <1>3 DEF LiveShowsLatest, ScrubSelectsSample, IsLive, None
<1> QED BY <1>1, <1>4, <1>5, <1>6
        DEF RingSorted, RingAccounted, IntervalAgrees, DisplayedIsReceived

\* The invariant is inductive.
LEMMA NextPreserves == IInv /\ [Next]_vars => IInv'
<1> SUFFICES ASSUME IInv, [Next]_vars PROVE IInv'
  OBVIOUS
<1>1. CASE PassTime \/ Produce \/ Ticked \/ UNCHANGED vars
  <2>1. TypeOK'
    <3>1. /\ now' \in Nat /\ clock' \in Nat /\ produced' \in Seq(Nat)
          /\ Len(produced') >= Len(produced)
      <4>1. CASE Ticked
        <5>1. PICK time \in 0..now : clock' = Greater(clock, time)
          BY <4>1 DEF Ticked, AdvanceClock
        <5> QED BY <4>1, <5>1 DEF IInv, TypeOK, Ticked, Greater, environment
      <4>2. CASE PassTime
        BY <4>2 DEF IInv, TypeOK, PassTime
      <4>3. CASE Produce
        BY <4>3 DEF IInv, TypeOK, Produce
      <4>4. CASE UNCHANGED vars
        BY <4>4 DEF IInv, TypeOK, vars, environment
      <4> QED BY <1>1, <4>1, <4>2, <4>3, <4>4
    <3>2. UNCHANGED <<ring, settings, timeline, latest, displayed>>
      BY <1>1 DEF PassTime, Produce, Ticked, vars
    <3>3. latest' \in 0..Len(produced') /\ displayed' \in 0..Len(produced')
      BY <3>1, <3>2 DEF IInv, TypeOK
    <3> QED BY <3>1, <3>2, <3>3 DEF IInv, TypeOK, settings, timeline
  <2> QED BY <1>1, <2>1
          DEF IInv, PassTime, Produce, Ticked, vars, environment, settings, timeline,
              RingSorted, RingAccounted, LiveShowsLatest, ScrubSelectsSample, IntervalAgrees,
              DisplayedIsReceived, CursorInRange, IsLive
<1>2. ASSUME NEW sequence \in 1..Len(produced), SnapshotArrived(sequence)
      PROVE  IInv'
  BY <1>2, SnapshotPreserves
<1>3. CASE Pause
  BY <1>3, PausePreserves
<1>4. CASE ReturnLive
  <2>1. TypeOK'
    BY <1>4 DEF IInv, TypeOK, ReturnLive, GoLive, Live, environment, settings
  <2> QED BY <1>4, <2>1
          DEF IInv, TypeOK, ReturnLive, GoLive, environment, settings, RingSorted,
              RingAccounted, LiveShowsLatest, ScrubSelectsSample, IntervalAgrees,
              DisplayedIsReceived, CursorInRange, IsLive
<1>5. CASE SeekHistory
  <2>1. PICK steps \in Steps \cup {StepMax} :
          \/ Seek(StepBack(view, ring, steps))
          \/ Seek(StepForward(view, ring, steps))
    BY <1>5 DEF SeekHistory
  <2>2. steps \in Nat /\ ring.samples # <<>>
    BY <2>1, HistoryAssumption, TimeLensAssumption DEF Seek
  <2> QED BY <2>1, <2>2, SeekPreserves
<1>6. ASSUME NEW requested \in Intervals, SetInterval(requested)
      PROVE  IInv'
  <2> DEFINE clamped == Clamp(requested, MinInterval, MaxInterval)
             new     == [config EXCEPT !.interval = clamped]
  <2>1. clamped \in Nat
    BY HistoryAssumption, TimeLensAssumption DEF Clamp, Greater, Lesser
  <2>2. new \in Config /\ new.interval = clamped
    BY <2>1 DEF IInv, TypeOK, Config
  <2>3. RebuildHistory(new) /\ interval' = clamped
    BY <1>6 DEF SetInterval
  <2> HIDE DEF new, clamped
  <2> QED BY <2>2, <2>3, RebuildPreserves
<1>7. ASSUME NEW duration \in Durations, SetHistorySpan(duration)
      PROVE  IInv'
  <2> DEFINE new == [config EXCEPT !.duration = duration]
  <2>1. new \in Config /\ new.interval = interval
    BY TimeLensAssumption DEF IInv, TypeOK, Config, IntervalAgrees
  <2>2. RebuildHistory(new) /\ interval' = interval
    BY <1>7 DEF SetHistorySpan
  <2> HIDE DEF new
  <2> QED BY <2>1, <2>2, RebuildPreserves
<1>8. ASSUME NEW file \in LoadableConfigs, Reconfigure(file)
      PROVE  IInv'
  <2>1. file \in Config
    BY TimeLensAssumption DEF LoadableConfigs, Configs, Config
  <2>2. interval' = file.interval
    BY <1>8 DEF Reconfigure
  <2>3. CASE config # file
    BY <1>8, <2>1, <2>2, <2>3, RebuildPreserves DEF Reconfigure
  <2>4. CASE config = file
    <3>1. interval' = interval
      BY <2>2, <2>4 DEF IInv, IntervalAgrees
    <3>2. UNCHANGED vars
      BY <1>8, <2>4, <3>1 DEF Reconfigure, vars, settings
    <3> QED BY <3>2, <1>1
  <2> QED BY <2>3, <2>4
<1> QED BY <1>1, <1>2, <1>3, <1>4, <1>5, <1>6, <1>7, <1>8 DEF Next

\* The state properties of the Time Lens hold whatever the limits, the capacity,
\* the number of snapshots and the order in which they arrive.
THEOREM InvariantHolds == Spec => []IInv
BY InitEstablishes, NextPreserves, PTL DEF Spec

\* Every variable keeps its type.
THEOREM TypeSafety == Spec => []TypeOK
BY InvariantHolds, PTL DEF IInv

\* The ring stays sorted, so that the binary search and the seeks are meaningful.
THEOREM RingIsSorted == Spec => []RingSorted
BY InvariantHolds, PTL DEF IInv

\* The ring stays within its capacity and its counters account for every sample.
THEOREM RingIsAccounted == Spec => []RingAccounted
BY InvariantHolds, PTL DEF IInv

\* A live view shows the newest snapshot received.
THEOREM LiveIsLatest == Spec => []LiveShowsLatest
BY InvariantHolds, PTL DEF IInv

\* A scrubbed view has a sample to show.
THEOREM ScrubHasSample == Spec => []ScrubSelectsSample
BY InvariantHolds, PTL DEF IInv

\* The sampling interval and the interval the ring is sized for agree.
THEOREM IntervalsAgree == Spec => []IntervalAgrees
BY InvariantHolds, PTL DEF IInv

-----------------------------------------------------------------------------
(* The searches *)

\* A set of natural numbers that is not empty has a least element.
LEMMA NatMinimum ==
  ASSUME NEW T, T \subseteq Nat, T # {}
  PROVE  \E x \in T : \A y \in T : x <= y
<1> DEFINE R == {ss \in Nat \X Nat : ss[1] < ss[2]}
<1>1. OpToRel(<, Nat) = R
  BY Zenon DEF OpToRel
<1>2. IsWellFoundedOn(R, Nat)
  BY <1>1, NatLessThanWellFounded, Zenon
<1>3. PICK x \in T : \A y \in T : ~(<<y, x>> \in R)
  <2> HIDE DEF R
  <2> QED BY <1>2, WFMin
<1>4. \A y \in T : <<y, x>> \in Nat \X Nat
  OBVIOUS
<1>5. \A y \in T : ~(y < x)
  BY <1>3, <1>4
<1> QED BY <1>5, <1>3

\* The binary search finds where a prefix ends: any function that its recursion describes
\* does (there is one), by induction on the length of the range left.
LEMMA SearchFindsPrefix ==
  ASSUME NEW len \in Nat, NEW p \in 0..len
  PROVE  PartitionPoint(len, 0..(p - 1)) = p
<1> DEFINE D     == (0..len) \X (0..len)
           Mid(low, high) == low + (high - low) \div 2
           Body(f, low, high) ==
             IF low >= high THEN low
             ELSE IF Mid(low, high) \in 0..(p - 1) THEN f[<<Mid(low, high) + 1, high>>]
             ELSE f[<<low, Mid(low, high)>>]
           Solves(f) == f = [range \in D |-> Body(f, range[1], range[2])]
           search == CHOOSE f : Solves(f)
           point(low, high) ==
             IF p < low \/ high <= low THEN low ELSE IF p > high THEN high ELSE p
           witness == [range \in D |-> point(range[1], range[2])]
<1>1. \A low, high \in 0..len : low < high =>
        Mid(low, high) \in 0..len /\ low <= Mid(low, high) /\ Mid(low, high) < high
  OBVIOUS
<1>2. Solves(witness)
  <2> HIDE DEF Mid
  <2>1. ASSUME NEW low \in 0..len, NEW high \in 0..len
        PROVE  Body(witness, low, high) = point(low, high)
    <3>1. \A l, h \in 0..len : witness[<<l, h>>] = point(l, h)
      OBVIOUS
    <3>2. CASE low >= high
      BY <3>2
    <3>3. CASE low < high
      <4> DEFINE m == Mid(low, high)
      <4> HIDE DEF witness
      <4>1. m \in 0..len /\ m + 1 \in 0..len /\ low <= m /\ m < high
        BY <1>1, <3>3
      <4>2. witness[<<m + 1, high>>] = point(m + 1, high)
            /\ witness[<<low, m>>] = point(low, m)
        <5> HIDE DEF m, point
        <5> QED BY <3>1, <4>1
      <4> HIDE DEF m
      <4>3. Body(witness, low, high) =
              IF m \in 0..(p - 1) THEN point(m + 1, high) ELSE point(low, m)
        BY <3>3, <4>2 DEF m
      <4>4. m \in 0..(p - 1) <=> m < p
        BY <4>1
      <4> HIDE DEF Body
      <4> QED BY <3>3, <4>1, <4>3, <4>4
    <3> QED BY <3>2, <3>3
  <2> QED BY <2>1
<1>3. Solves(search)
  BY <1>2
<1>4. PartitionPoint(len, 0..(p - 1)) = search[<<0, len>>]
  BY DEF PartitionPoint
<1>5. \A low, high \in 0..len : search[<<low, high>>] = Body(search, low, high)
  <2> HIDE DEF search, Body
  <2> QED BY <1>3
<1> HIDE DEF search, Mid
<1>7. ASSUME NEW low \in 0..len, NEW high \in 0..len
      PROVE  /\ low >= high => search[<<low, high>>] = low
             /\ low < high /\ Mid(low, high) < p =>
                  search[<<low, high>>] = search[<<Mid(low, high) + 1, high>>]
             /\ low < high /\ Mid(low, high) >= p =>
                  search[<<low, high>>] = search[<<low, Mid(low, high)>>]
  <2>1. search[<<low, high>>] = Body(search, low, high)
    BY <1>5
  <2>2. CASE low >= high
    BY <2>1, <2>2
  <2>3. CASE low < high
    <3>1. Mid(low, high) \in 0..len
      BY <1>1, <2>3
    <3>2. Mid(low, high) \in 0..(p - 1) <=> Mid(low, high) < p
      BY <3>1
    <3> QED BY <2>1, <2>3, <3>1, <3>2
  <2> QED BY <2>2, <2>3
<1>6. \A low, high \in 0..len : low <= p /\ p <= high => search[<<low, high>>] = p
  <2> DEFINE Bad == {n \in Nat : \E low, high \in 0..len :
                       n = high - low /\ low <= p /\ p <= high /\ search[<<low, high>>] # p}
  <2>1. SUFFICES ASSUME Bad # {} PROVE FALSE
    <3>1. SUFFICES ASSUME NEW low \in 0..len, NEW high \in 0..len, low <= p, p <= high,
                          search[<<low, high>>] # p
                   PROVE FALSE
      OBVIOUS
    <3>2. high - low \in Bad
      BY <3>1
    <3> QED BY <3>2, <2>1
  <2>2. PICK n \in Bad : \A m \in Bad : n <= m
    <3>1. Bad \subseteq Nat
      OBVIOUS
    <3> HIDE DEF Bad
    <3> QED BY <2>1, <3>1, NatMinimum
  <2>3. PICK low \in 0..len, high \in 0..len :
          n = high - low /\ low <= p /\ p <= high /\ search[<<low, high>>] # p
    OBVIOUS
  <2>4. \A l, h \in 0..len : l <= p /\ p <= h /\ h - l < n => search[<<l, h>>] = p
    <3>1. SUFFICES ASSUME NEW l \in 0..len, NEW h \in 0..len, l <= p, p <= h, h - l < n,
                          search[<<l, h>>] # p
                   PROVE FALSE
      OBVIOUS
    <3>2. h - l \in Bad
      BY <3>1
    <3>3. n <= h - l
      BY <3>2, <2>2
    <3> QED BY <3>1, <3>3
  <2>5. CASE low >= high
    <3> HIDE DEF Body, Bad
    <3>1. search[<<low, high>>] = low
      BY <1>7, <2>5
    <3> QED BY <2>3, <2>5, <3>1
  <2>6. CASE low < high
    <3> HIDE DEF Bad, Body
    <3>1. Mid(low, high) \in 0..len /\ low <= Mid(low, high) /\ Mid(low, high) < high
      BY <1>1, <2>6
    <3>2. CASE Mid(low, high) < p
      <4>1. search[<<low, high>>] = search[<<Mid(low, high) + 1, high>>]
        BY <1>7, <2>6, <3>2
      <4> QED BY <2>3, <2>4, <3>1, <3>2, <4>1
    <3>3. CASE Mid(low, high) >= p
      <4>1. search[<<low, high>>] = search[<<low, Mid(low, high)>>]
        BY <1>7, <2>6, <3>3
      <4> QED BY <2>3, <2>4, <3>1, <3>3, <4>1
    <3> QED BY <3>1, <3>2, <3>3
  <2> QED BY <2>5, <2>6
<1> QED BY <1>4, <1>6

LEMMA RingSamples ==
  ASSUME NEW r \in Ring
  PROVE  /\ Len(r.samples) \in Nat
         /\ \A i \in 1..Len(r.samples) :
              r.samples[i].offset \in Nat /\ r.samples[i].sequence \in Nat
<1>1. r.samples \in Seq(Sample)
  BY DEF Ring
<1>2. Len(r.samples) \in Nat /\ \A i \in 1..Len(r.samples) : r.samples[i] \in Sample
  BY <1>1, ElementOfSeq, LenProperties
<1> QED BY <1>2 DEF Sample

\* On a ring whose offsets never fall, it finds the last sample that is no later.
LEMMA SearchIsExact ==
  ASSUME NEW r \in Ring, NEW offset \in Int,
         \A i, j \in 1..Len(r.samples) : i < j => r.samples[i].offset <= r.samples[j].offset
  PROVE  /\ IndexAtOrBefore(r, offset) \in 0..Len(r.samples)
         /\ \A i \in 1..Len(r.samples) :
              r.samples[i].offset <= offset <=> i <= IndexAtOrBefore(r, offset)
<1> DEFINE len     == Len(r.samples)
           holding == {i \in Indices(r) : r.samples[i + 1].offset <= offset}
           ends    == {n \in 0..len : n \notin holding}
<1>1. len \in Nat /\ \A i \in 1..len : r.samples[i].offset \in Nat
  BY RingSamples
<1>2. PICK p \in ends : \A n \in ends : p <= n
  <2>1. len \in ends
    BY <1>1 DEF Indices
  <2>2. ends \subseteq Nat
    BY <1>1
  <2> HIDE DEF ends
  <2> QED BY <2>1, <2>2, NatMinimum
<1>3. \A n \in 0..(p - 1) : n \in holding
  <2> HIDE DEF holding
  <2> QED BY <1>1, <1>2
<1>4. holding = 0..(p - 1)
  <2>1. SUFFICES ASSUME NEW n \in holding PROVE n < p
    BY <1>1, <1>3 DEF Indices
  <2>2. n \in 0..(len - 1) /\ r.samples[n + 1].offset <= offset
    BY DEF Indices
  <2>3. SUFFICES ASSUME p < n PROVE FALSE
    BY <1>1, <1>2, <2>2
  <2>4. p + 1 \in 1..len /\ n + 1 \in 1..len /\ p \in 0..(len - 1)
    BY <1>1, <1>2, <2>2, <2>3
  <2>5. r.samples[p + 1].offset <= r.samples[n + 1].offset
    BY <2>3, <2>4, <2>2, <1>1
  <2>6. r.samples[p + 1].offset <= offset
    BY <1>1, <2>2, <2>4, <2>5
  <2> QED BY <1>2, <2>4, <2>6 DEF Indices
<1>5. IndexAtOrBefore(r, offset) = p
  <2>1. IndexAtOrBefore(r, offset) = PartitionPoint(len, holding)
    BY DEF IndexAtOrBefore
  <2> QED BY <1>1, <1>2, <1>4, <2>1, SearchFindsPrefix
<1>6. ASSUME NEW i \in 1..len PROVE r.samples[i].offset <= offset <=> i <= p
  <2>1. i - 1 \in holding <=> i - 1 < p
    BY <1>1, <1>2, <1>4
  <2>2. i - 1 \in holding <=> r.samples[i].offset <= offset
    BY <1>1 DEF Indices
  <2> QED BY <1>1, <1>2, <2>1, <2>2
<1> QED BY <1>1, <1>2, <1>5, <1>6

\* A seek finds the last sample that is no later than a time.
LEMMA SeeksAreExact == IInv => SearchFindsLast
<1> SUFFICES ASSUME IInv, NEW offset \in 0..MaxTime
             PROVE  \A i \in 1..Len(ring.samples) :
                      ring.samples[i].offset <= offset <=> i <= IndexAtOrBefore(ring, offset)
  BY DEF SearchFindsLast
<1>1. ring \in Ring /\ offset \in Int
  BY TimeLensAssumption DEF IInv, TypeOK, Ring
<1>2. \A i, j \in 1..Len(ring.samples) : i < j =>
        ring.samples[i].offset <= ring.samples[j].offset
  BY DEF IInv, RingSorted
<1> QED BY <1>1, <1>2, SearchIsExact

\* The baseline of a comparison is the last sample that is old enough, and it is an
\* earlier one than the selected: the guard on its sequence never has to act.
LEMMA BaselinesAreExact == IInv => BaselineIsEarlier
<1> SUFFICES ASSUME IInv, NEW lookback \in 1..MaxTime, ring.samples # <<>>
             PROVE  LET selected == SelectedSample(view, ring)
                        old(i)   == ring.samples[i].offset + lookback <= selected.offset
                        baseline == ElapsedBaseline(view, ring, lookback)
                    IN  IF baseline = 0
                        THEN \A i \in 1..Len(ring.samples) : ~old(i)
                        ELSE /\ old(baseline)
                             /\ ring.samples[baseline].sequence < selected.sequence
                             /\ \A i \in (baseline + 1)..Len(ring.samples) : ~old(i)
  BY DEF BaselineIsEarlier
<1> DEFINE len      == Len(ring.samples)
           selected == SelectedSample(view, ring)
           at       == SelectedAbsolute(view, ring) - ring.evicted + 1
           index    == IndexAtOrBefore(ring, selected.offset - lookback)
           old(i)   == ring.samples[i].offset + lookback <= selected.offset
           baseline == ElapsedBaseline(view, ring, lookback)
<1>1. /\ ring \in Ring /\ view \in View /\ ring.total = ring.evicted + len
      /\ len \in Nat /\ ring.evicted \in Nat /\ lookback \in Nat \ {0}
  BY TimeLensAssumption DEF IInv, TypeOK, RingAccounted, Ring, View
<1>2. \A i \in 1..len : ring.samples[i].offset \in Nat /\ ring.samples[i].sequence \in Nat
  BY <1>1, RingSamples
<1>3. \A i, j \in 1..len : i < j =>
        /\ ring.samples[i].sequence < ring.samples[j].sequence
        /\ ring.samples[i].offset <= ring.samples[j].offset
  BY DEF IInv, RingSorted
<1>4. at \in 1..len /\ selected = ring.samples[at]
  <2>1. /\ FirstAbsolute(ring) = ring.evicted
        /\ SelectedAbsolute(view, ring) \in ring.evicted..NewestAbsolute(ring)
    BY <1>1, CursorOnRing
  <2>2. NewestAbsolute(ring) = ring.evicted + len - 1
    BY <1>1 DEF NewestAbsolute
  <2> QED BY <1>1, <2>1, <2>2 DEF SelectedSample, GetAbsolute
<1>5. selected.offset \in Nat /\ selected.sequence \in Nat
  BY <1>2, <1>4
<1> HIDE DEF selected, at
<1>6. /\ index \in 0..len
      /\ \A i \in 1..len : ring.samples[i].offset <= selected.offset - lookback <=> i <= index
  <2>1. selected.offset - lookback \in Int
    BY <1>5
  <2>2. \A i, j \in 1..len : i < j => ring.samples[i].offset <= ring.samples[j].offset
    BY <1>3
  <2> QED BY <1>1, <2>1, <2>2, SearchIsExact, Zenon
<1> HIDE DEF index, len
<1>7. \A i \in 1..len : old(i) <=> i <= index
  BY <1>1, <1>2, <1>5, <1>6
<1>8. ASSUME index # 0
      PROVE  ring.samples[index].sequence < selected.sequence
  <2>1. index \in 1..len /\ ring.samples[index].offset < selected.offset
    BY <1>1, <1>2, <1>5, <1>6, <1>7, <1>8
  <2>2. ~(at <= index)
    BY <1>2, <1>3, <1>4, <2>1
  <2> QED BY <1>3, <1>4, <2>1, <2>2
<1>9. baseline = index
  <2>1. selected.offset < lookback => index = 0
    <3>1. index # 0 => ring.samples[index].offset + lookback <= selected.offset
                       /\ ring.samples[index].offset \in Nat
      BY <1>1, <1>2, <1>6, <1>7
    <3> QED BY <1>1, <1>5, <3>1
  <2>2. index # 0 => Greater(index, 1) = index
    BY <1>1, <1>6 DEF Greater
  <2>3. baseline = IF \/ selected.offset < lookback
                      \/ index = 0
                      \/ ring.samples[Greater(index, 1)].sequence >= selected.sequence
                   THEN 0 ELSE index
    BY DEF ElapsedBaseline, index, selected
  <2>4. index # 0 => ~(ring.samples[index].sequence >= selected.sequence)
    BY <1>2, <1>5, <1>6, <1>8, <1>1
  <2> HIDE DEF baseline
  <2> QED BY <2>1, <2>2, <2>3, <2>4
<1> HIDE DEF baseline
<1>10. CASE index = 0
  <2>1. \A i \in 1..len : ~old(i)
    BY <1>1, <1>7, <1>10
  <2> QED BY <1>9, <1>10, <2>1 DEF baseline, selected, len
<1>11. CASE index # 0
  <2>1. old(index) /\ \A i \in (index + 1)..len : ~old(i)
    BY <1>1, <1>6, <1>7, <1>11
  <2> QED BY <1>8, <1>9, <1>11, <2>1 DEF baseline, selected, len
<1> QED BY <1>10, <1>11

\* Both searches of the Time Lens are exact for every ring the program can hold, which is
\* sorted however snapshots arrived: a seek and a comparison land on the last sample that
\* is early enough.
THEOREM SearchesLandOnLast == Spec => []SearchesAreExact
<1>1. IInv => SearchesAreExact
  BY SeeksAreExact, BaselinesAreExact DEF SearchesAreExact
<1> QED BY <1>1, InvariantHolds, PTL

-----------------------------------------------------------------------------
(* What a step may not do *)

\* A frozen view keeps the snapshot it froze.
THEOREM FrozenViewIsKept == Spec => FrozenViewHolds
<1>1. [Next]_vars => [~IsLive /\ ~IsLive' /\ displayed # 0 => displayed' = displayed]_vars
  BY DEF Next, vars, environment, settings, timeline, IsLive, GoLive, PassTime, Produce,
         Ticked, SnapshotArrived, Pause, ReturnLive, SeekHistory, Seek, SetInterval,
         SetHistorySpan, Reconfigure, RebuildHistory
<1> QED BY <1>1, PTL DEF Spec, FrozenViewHolds

\* The table never goes back in time, because what it shows was never newer than
\* what it may be replaced by.
THEOREM DisplayOnlyAdvances == Spec => DisplayNeverRegresses
<1>1. IInv /\ [Next]_vars => [displayed' >= displayed]_vars
  <2> SUFFICES ASSUME IInv, Next PROVE displayed' >= displayed
    BY DEF vars
  <2>1. /\ latest \in Nat /\ displayed \in Nat /\ displayed <= latest
    BY DEF IInv, TypeOK, DisplayedIsReceived
  <2>2. ASSUME NEW sequence \in 1..Len(produced), SnapshotArrived(sequence)
        PROVE  displayed' >= displayed
    BY <2>1, <2>2 DEF SnapshotArrived, IInv, TypeOK
  <2>3. \/ displayed' = displayed
        \/ displayed' = latest
        \/ \E sequence \in 1..Len(produced) : SnapshotArrived(sequence)
    BY DEF Next, vars, environment, settings, timeline, PassTime, Produce, Ticked, Pause,
           ReturnLive, SeekHistory, Seek, SetInterval, SetHistorySpan, Reconfigure,
           RebuildHistory
  <2> QED BY <2>1, <2>2, <2>3
<1> QED BY <1>1, InvariantHolds, PTL DEF Spec, DisplayNeverRegresses

\* When a snapshot is recorded, a pinned cursor stays on its sample, or moves to
\* the oldest one that is left.
LEMMA RecordKeepsPinned ==
  ASSUME IInv, view # Live, view' = view,
         NEW snapshot \in [sequence : Nat, captured : Nat],
         Newer(ring, snapshot), ring' = Record(ring, snapshot)
  PROVE  SelectedSample(view, ring)' =
           IF SelectedSample(view, ring).sequence < ring'.samples[1].sequence
           THEN ring'.samples[1]
           ELSE SelectedSample(view, ring)
<1> DEFINE k     == Overflowing(ring)
           first == ring.evicted
           n     == Len(ring.samples)
           at    == SelectedAbsolute(view, ring)
           at2   == SelectedAbsolute(view, ring')
<1>1. /\ ring \in Ring /\ ring.total = first + n /\ n <= ring.capacity
      /\ view \in View /\ ring.samples # <<>> /\ view.absolute < ring.total
      /\ view.absolute \in Nat /\ first \in Nat /\ n \in Nat \ {0} /\ ring.total \in Nat
      /\ ring.samples \in Seq(Sample)
  BY DEF IInv, TypeOK, Ring, View, RingAccounted, CursorInRange
<1>2. /\ k \in 0..n /\ ring' \in Ring
      /\ Len(ring'.samples) = n - k + 1
      /\ \A i \in 1..(n - k) : ring'.samples[i] = ring.samples[i + k]
      /\ ring'.samples[Len(ring'.samples)] = SampleOf(ring, snapshot)
      /\ ring'.evicted = first + k /\ ring'.total = ring.total + 1
  BY <1>1, RecordTakes
<1>3. /\ at = Greater(view.absolute, first) /\ at \in first..(first + n - 1)
      /\ FirstAbsolute(ring) = first
  BY <1>1 DEF SelectedAbsolute, FirstAbsolute, NewestAbsolute, Minus, Lesser, Greater
<1> HIDE DEF k
<1>4. /\ at2 = Greater(view.absolute, first + k)
      /\ FirstAbsolute(ring') = first + k
  <2>1. FirstAbsolute(ring') = first + k /\ NewestAbsolute(ring') = first + n
    <3> HIDE DEF first, n
    <3> QED BY <1>1, <1>2 DEF FirstAbsolute, NewestAbsolute, Minus
  <2>2. at2 = Lesser(Greater(view.absolute, first + k), first + n)
    BY <2>1 DEF SelectedAbsolute
  <2>3. view.absolute <= first + n /\ first + k <= first + n
    <3> HIDE DEF first, n
    <3> QED BY <1>1, <1>2
  <2> HIDE DEF first, n, at2
  <2> QED BY <1>1, <1>2, <2>1, <2>2, <2>3 DEF Lesser, Greater
<1>5. /\ SelectedSample(view, ring) = ring.samples[at - first + 1]
      /\ SelectedSample(view, ring)' = ring'.samples[at2 - (first + k) + 1]
  BY <1>3, <1>4 DEF SelectedSample, GetAbsolute
<1>6. \A i \in 1..n : ring.samples[i] \in Sample
  BY <1>1
<1> DEFINE v == view.absolute
<1>9. /\ v \in Nat /\ first \in Nat /\ n \in Nat \ {0} /\ k \in Nat /\ k <= n
      /\ v <= first + n - 1
      /\ at \in Nat /\ (v >= first => at = v) /\ (v < first => at = first)
      /\ at2 \in Nat /\ (v >= first + k => at2 = v) /\ (v < first + k => at2 = first + k)
  <2>1. v \in Nat /\ first \in Nat /\ n \in Nat \ {0} /\ k \in Nat /\ k <= n
    BY <1>1, <1>2
  <2>2. v <= first + n - 1
    BY <1>1
  <2> HIDE DEF first, n, at, at2, v
  <2> QED BY <1>3, <1>4, <2>1, <2>2 DEF Greater, v
<1> HIDE DEF first, n, at, at2, v
<1>7. CASE at >= first + k
  <2> DEFINE i == at - first + 1 - k
  <2>1. /\ at2 - (first + k) + 1 = i /\ i \in 1..(n - k)
        /\ i + k = at - first + 1 /\ i + k \in 1..n /\ k \in Nat
    BY <1>9, <1>7
  <2> HIDE DEF i
  <2>2. ring'.samples[i] = ring.samples[i + k]
    BY <1>2, <2>1
  <2>3. ~(ring.samples[i + k].sequence < ring'.samples[1].sequence)
    <3>1. 1 \in 1..(n - k) /\ 1 + k \in 1..n /\ (1 = i \/ 1 + k < i + k)
      BY <1>1, <2>1
    <3>2. ring'.samples[1] = ring.samples[1 + k]
      BY <1>2, <3>1
    <3>3. \/ ring.samples[1 + k].sequence = ring.samples[i + k].sequence
          \/ ring.samples[1 + k].sequence < ring.samples[i + k].sequence
      BY <2>1, <3>1 DEF IInv, RingSorted, n
    <3>4. ring.samples[1 + k].sequence \in Nat /\ ring.samples[i + k].sequence \in Nat
      BY <1>6, <2>1, <3>1 DEF Sample
    <3> QED BY <3>2, <3>3, <3>4
  <2>4. /\ SelectedSample(view, ring) = ring.samples[i + k]
        /\ SelectedSample(view, ring)' = ring'.samples[i]
    BY <1>5, <2>1, Zenon
  <2> QED BY <2>2, <2>3, <2>4, Zenon
<1>8. CASE at < first + k
  <2> DEFINE i == at - first + 1
  <2>1. /\ at2 - (first + k) + 1 = 1 /\ i \in 1..n /\ i < 1 + k /\ k \in Nat
    BY <1>9, <1>8
  <2> HIDE DEF i
  <2>2. ring.samples[i].sequence < ring'.samples[1].sequence
    <3>1. CASE k < n
      <4>1. 1 \in 1..(n - k) /\ 1 + k \in 1..n
        BY <1>1, <2>1, <3>1
      <4>2. ring'.samples[1] = ring.samples[1 + k]
        BY <1>2, <4>1
      <4> QED BY <4>1, <4>2, <2>1 DEF IInv, RingSorted, n
    <3>2. CASE k = n
      <4>1. Len(ring'.samples) = 1
        BY <1>1, <1>2, <3>2
      <4>2. ring'.samples[1] = SampleOf(ring, snapshot)
        BY <1>2, <4>1
      <4>3. ring.samples[i].sequence < SampleOf(ring, snapshot).sequence
        BY <2>1, <1>1, RetainedAreOlder DEF IInv, n
      <4> QED BY <4>2, <4>3
    <3> QED BY <3>1, <3>2, <1>1, <1>2
  <2>3. /\ SelectedSample(view, ring) = ring.samples[i]
        /\ SelectedSample(view, ring)' = ring'.samples[1]
    BY <1>5, <2>1, Zenon DEF i
  <2> QED BY <2>2, <2>3, Zenon
<1> QED BY <1>7, <1>8, <1>9

\* A pinned cursor resolves to the same sample for as long as it is retained.
THEOREM PinnedCursorHolds == Spec => PinnedSampleHolds
<1> DEFINE Held ==
      view # Live /\ view' = view /\ ring' # ring /\ ring.samples # <<>> =>
       SelectedSample(view, ring)' =
         IF SelectedSample(view, ring).sequence < ring'.samples[1].sequence
         THEN ring'.samples[1]
         ELSE SelectedSample(view, ring)
<1>1. IInv /\ [Next]_vars => [Held]_vars
  <2> SUFFICES ASSUME IInv, Next, view # Live, view' = view, ring' # ring
               PROVE  SelectedSample(view, ring)' =
                        IF SelectedSample(view, ring).sequence < ring'.samples[1].sequence
                        THEN ring'.samples[1]
                        ELSE SelectedSample(view, ring)
    OBVIOUS
  <2>1. PICK sequence \in 1..Len(produced) : SnapshotArrived(sequence)
    BY DEF Next, vars, environment, settings, timeline, PassTime, Produce, Ticked, Pause,
           ReturnLive, GoLive, SeekHistory, Seek, SetInterval, SetHistorySpan, Reconfigure,
           RebuildHistory
  <2>2. Newer(ring, Snapshot(sequence)) /\ ring' = Record(ring, Snapshot(sequence))
    BY <2>1 DEF SnapshotArrived, Record
  <2>3. Snapshot(sequence) \in [sequence : Nat, captured : Nat]
    BY SnapshotType DEF IInv
  <2> QED BY <2>2, <2>3, RecordKeepsPinned
<1> QED BY <1>1, InvariantHolds, PTL DEF Spec, PinnedSampleHolds

-----------------------------------------------------------------------------
(* The ring and its cursor implement the sample window *)

\* The environment stays within its bounds, and nothing is captured in the future.
Bounded ==
  /\ now <= MaxTime /\ Len(produced) <= MaxSamples
  /\ \A i \in 1..Len(produced) : produced[i] <= now

WindowOf(r) == [absolute \in Retained(r) |-> GetAbsolute(r, absolute)]
CursorOf(v) == IF v = Live THEN -1 ELSE v.absolute

\* The bounds of the environment hold, as the samples of the window need.
LEMMA BoundedHolds == Spec => []Bounded
<1>1. Init => Bounded
  BY TimeLensAssumption DEF Init, Bounded
<1>2. IInv /\ Bounded /\ [Next]_vars => Bounded'
  <2> SUFFICES ASSUME IInv, Bounded, [Next]_vars PROVE Bounded'
    OBVIOUS
  <2> USE DEF Bounded
  <2>5. /\ now \in Nat /\ produced \in Seq(Nat) /\ MaxTime \in Nat /\ MaxSamples \in Nat
            /\ Len(produced) \in Nat /\ \A i \in 1..Len(produced) : produced[i] \in Nat
    <3>1. now \in Nat /\ produced \in Seq(Nat)
      BY DEF IInv, TypeOK
    <3>2. MaxTime \in Nat /\ MaxSamples \in Nat
      BY TimeLensAssumption
    <3> QED BY <3>1, <3>2, ProducedTimes DEF IInv
  <2>1. CASE PassTime
    BY <2>5, <2>1 DEF PassTime
  <2>2. CASE Produce
    <3>1. /\ Len(produced') = Len(produced) + 1 /\ produced'[Len(produced) + 1] = now
          /\ \A i \in 1..Len(produced) : produced'[i] = produced[i]
          /\ Len(produced) < MaxSamples /\ now' = now
      BY <2>5, <2>2 DEF Produce
    <3>2. ASSUME NEW i \in 1..(Len(produced) + 1)
          PROVE  produced'[i] <= now
      BY <2>5, <3>1
    <3> QED BY <2>5, <3>1, <3>2
  <2>3. CASE UNCHANGED environment
    BY <2>3 DEF environment
  <2>4. PassTime \/ Produce \/ UNCHANGED environment
    BY DEF Next, vars, environment, Ticked, SnapshotArrived, Pause, ReturnLive, SeekHistory,
           Seek, SetInterval, SetHistorySpan, Reconfigure, RebuildHistory
  <2> QED BY <2>1, <2>2, <2>3, <2>4
<1> QED BY <1>1, <1>2, InvariantHolds, PTL DEF Spec

\* The retained indices run from the number of evicted samples to the newest.
LEMMA RetainedOf ==
  ASSUME NEW r \in Ring, r.total = r.evicted + Len(r.samples)
  PROVE  /\ FirstAbsolute(r) = r.evicted
         /\ Retained(r) = r.evicted..(r.total - 1)
         /\ DOMAIN WindowOf(r) = r.evicted..(r.total - 1)
         /\ \A i \in r.evicted..(r.total - 1) :
              WindowOf(r)[i] = r.samples[i - r.evicted + 1]
<1>1. r.evicted \in Nat /\ r.total \in Nat /\ Len(r.samples) \in Nat
  BY DEF Ring
<1>2. FirstAbsolute(r) = r.evicted
  BY <1>1 DEF FirstAbsolute, Minus
<1>3. Retained(r) = r.evicted..(r.total - 1)
  BY <1>2 DEF Retained, NewestAbsolute
<1> QED BY <1>2, <1>3 DEF WindowOf, GetAbsolute

\* An absolute index and its places before and after k samples were dropped.
LEMMA Places ==
  ASSUME NEW first \in Nat, NEW n \in Nat
  PROVE  /\ \A i \in first..(first + n - 1) : i - first + 1 \in 1..n
         /\ \A k \in 0..n : \A i \in (first + k)..(first + n - 1) :
              /\ i - (first + k) + 1 \in 1..(n - k)
              /\ (i - (first + k) + 1) + k = i - first + 1
              /\ i \in first..(first + n - 1)
OBVIOUS

\* A snapshot that is recorded adds one sample and drops as many as overflow.
LEMMA RecordAdds ==
  ASSUME IInv, Bounded, NEW sequence \in 1..Len(produced), SnapshotArrived(sequence),
         Newer(ring, Snapshot(sequence))
  PROVE  Window!Add
<1> DEFINE snapshot == Snapshot(sequence)
           k   == Overflowing(ring)
           n   == Len(ring.samples)
           new == SampleOf(ring, snapshot)
           oldest == ring.evicted + k
<1>1. /\ ring \in Ring /\ ring.total = ring.evicted + n /\ n \in Nat
      /\ n <= ring.capacity /\ ring.evicted \in Nat /\ ring.total \in Nat
  BY DEF IInv, TypeOK, RingAccounted, Ring
<1>2. snapshot \in [sequence : Nat, captured : Nat]
  BY SnapshotType DEF IInv
<1>3. new \in [sequence : 1..MaxSamples, offset : 0..MaxTime]
  <2>1. /\ produced[sequence] \in 0..MaxTime /\ sequence \in 1..MaxSamples
        /\ ring.start \in Nat
    <3>1. /\ produced[sequence] \in Nat /\ produced[sequence] <= now /\ now \in Nat
          /\ Len(produced) \in Nat /\ Len(produced) <= MaxSamples /\ now <= MaxTime
      <4>1. now \in Nat /\ TypeOK
        BY DEF IInv, TypeOK
      <4> QED BY <4>1, ProducedTimes DEF Bounded
    <3> QED BY <1>1, <3>1, TimeLensAssumption DEF Ring
  <2>2. Minus(produced[sequence], ring.start) \in 0..MaxTime
    BY <2>1, TimeLensAssumption DEF Minus
  <2> QED BY <2>1, <2>2 DEF SampleOf, Snapshot
<1> HIDE DEF snapshot
<1>4. /\ k \in 0..n /\ ring' \in Ring /\ Len(ring'.samples) = n - k + 1
      /\ \A i \in 1..(n - k) : ring'.samples[i] = ring.samples[i + k]
      /\ ring'.samples[Len(ring'.samples)] = new
      /\ ring'.evicted = ring.evicted + k /\ ring'.total = ring.total + 1
  BY <1>1, <1>2, RecordTakes DEF SnapshotArrived, snapshot
<1> HIDE DEF k, new
<1>5. /\ DOMAIN WindowOf(ring) = ring.evicted..(ring.total - 1)
      /\ \A i \in ring.evicted..(ring.total - 1) :
           WindowOf(ring)[i] = ring.samples[i - ring.evicted + 1]
  BY <1>1, RetainedOf
<1>6. /\ Retained(ring') = oldest..ring.total
      /\ \A i \in oldest..ring.total : WindowOf(ring')[i] = ring'.samples[i - oldest + 1]
  <2>1. ring'.total = ring'.evicted + Len(ring'.samples) /\ ring'.total - 1 = ring.total
        /\ ring'.evicted = oldest
    <3>1. /\ ring'.evicted = oldest /\ Len(ring'.samples) = n - k + 1
          /\ ring'.total = ring.total + 1 /\ k \in 0..n
      BY <1>4
    <3>2. ring.total = ring.evicted + n /\ n \in Nat /\ ring.evicted \in Nat
      BY <1>1
    <3> HIDE DEF n
    <3> QED BY <3>1, <3>2
  <2> HIDE DEF oldest
  <2> QED BY <1>4, <2>1, RetainedOf
<1> HIDE DEF n
<1>12. /\ k \in 0..n /\ n \in Nat /\ ring.evicted \in Nat
       /\ oldest = ring.evicted + k /\ ring.total = ring.evicted + n
  BY <1>1, <1>4
<1> HIDE DEF oldest
<1>7. oldest \in 0..ring.total /\ oldest..(ring.total - 1) \subseteq DOMAIN WindowOf(ring)
  BY <1>12, <1>5
<1>8. ASSUME NEW i \in DOMAIN WindowOf(ring)
      PROVE  /\ WindowOf(ring)[i].sequence < new.sequence
             /\ WindowOf(ring)[i].offset <= new.offset
  <2>1. WindowOf(ring)[i] = ring.samples[i - ring.evicted + 1]
    BY <1>5, <1>8
  <2>2. i - ring.evicted + 1 \in 1..n
    <3>1. i \in ring.evicted..(ring.evicted + n - 1)
      BY <1>12, <1>5, <1>8
    <3> QED BY <1>12, <3>1, Places, Zenon
  <2> QED BY <1>1, <1>2, <2>1, <2>2, RetainedAreOlder DEF IInv, new, snapshot, n
<1>9. ASSUME NEW i \in oldest..ring.total
      PROVE  WindowOf(ring')[i] = IF i = ring.total THEN new ELSE WindowOf(ring)[i]
  <2>1. CASE i = ring.total
    <3>1. i - oldest + 1 = Len(ring'.samples)
      BY <1>12, <1>4, <2>1
    <3> QED BY <1>4, <1>6, <3>1, <2>1
  <2>2. CASE i # ring.total
    <3>1. /\ i \in (ring.evicted + k)..(ring.evicted + n - 1)
          /\ ring.evicted..(ring.evicted + n - 1) = ring.evicted..(ring.total - 1)
      BY <1>12, <2>2
    <3>2. /\ i - oldest + 1 \in 1..(n - k) /\ i \in ring.evicted..(ring.total - 1)
          /\ i - oldest + 1 + k = i - ring.evicted + 1
      <4>1. /\ i - (ring.evicted + k) + 1 \in 1..(n - k)
            /\ (i - (ring.evicted + k) + 1) + k = i - ring.evicted + 1
            /\ i \in ring.evicted..(ring.evicted + n - 1)
        BY <1>12, <3>1, Places, Zenon
      <4> QED BY <1>12, <3>1, <4>1, Zenon
    <3>3. WindowOf(ring')[i] = ring'.samples[i - oldest + 1]
      BY <1>6
    <3>4. ring'.samples[i - oldest + 1] = ring.samples[i - oldest + 1 + k]
      BY <1>4, <3>2, Zenon
    <3>5. WindowOf(ring)[i] = ring.samples[i - ring.evicted + 1]
      BY <1>5, <3>2
    <3> QED BY <2>2, <3>2, <3>3, <3>4, <3>5, Zenon
  <2> QED BY <2>1, <2>2
<1>10. WindowOf(ring') =
         [i \in oldest..ring.total |-> IF i = ring.total THEN new ELSE WindowOf(ring)[i]]
  <2>1. WindowOf(ring') = [i \in oldest..ring.total |-> WindowOf(ring')[i]]
    BY <1>6 DEF WindowOf
  <2> QED BY <2>1, <1>9
<1>11. CursorOf(view)' = CursorOf(view)
  BY DEF SnapshotArrived, timeline, CursorOf
<1> QED BY <1>3, <1>4, <1>7, <1>8, <1>10, <1>11, Zenon DEF Window!Add, WindowOf, CursorOf

\* Pinning the cursor to a retained sample.
LEMMA PinnedIsRetained ==
  ASSUME IInv, ring.samples # <<>>, ring' = ring, view' # Live,
         view'.absolute \in ring.evicted..NewestAbsolute(ring)
  PROVE  Window!Pin
<1>1. DOMAIN WindowOf(ring) = ring.evicted..NewestAbsolute(ring)
  BY RetainedOf DEF IInv, TypeOK, Ring, RingAccounted, NewestAbsolute
<1>2. CursorOf(view)' = view'.absolute
  BY DEF CursorOf
<1>3. WindowOf(ring)' = WindowOf(ring) /\ ring'.total = ring.total
  BY DEF WindowOf
<1> QED BY <1>1, <1>2, <1>3, Zenon DEF Window!Pin, WindowOf, CursorOf

\* A new ring: the window is empty and the cursor follows.
LEMMA RebuildRestarts ==
  ASSUME IInv, NEW c \in Config, RebuildHistory(c)
  PROVE  Window!Restart
<1>1. /\ ring' \in Ring /\ ring'.samples = <<>> /\ ring'.total = 0 /\ ring'.evicted = 0
  BY NewRingType DEF RebuildHistory, IInv, TypeOK
<1>2. Retained(ring') = {}
  BY <1>1, RetainedOf
<1>3. WindowOf(ring)' = [index \in {} |-> -1]
  BY <1>2 DEF WindowOf
<1>4. CursorOf(view)' = -1
  BY DEF RebuildHistory, GoLive, CursorOf
<1> QED BY <1>1, <1>3, <1>4, Zenon DEF Window!Restart, Window!Empty, WindowOf, CursorOf

\* The ring, for every capacity and however it is rebuilt, implements the abstract
\* window of samples: what a cursor or a caller holds is an index, and an index
\* keeps its meaning.
THEOREM RingImplementsWindow == Spec => ImplementsWindow
<1> DEFINE abstract == <<ring.total, WindowOf(ring), CursorOf(view)>>
<1>1. Init => Window!Init
  <2> SUFFICES ASSUME Init PROVE Window!Init
    OBVIOUS
  <2>1. IInv
    BY InitEstablishes
  <2>2. PICK initial \in Configs : ring = NewRing(initial, 0)
    BY DEF Init
  <2>3. ring \in Ring /\ ring.samples = <<>> /\ ring.total = 0 /\ ring.evicted = 0
    <3>1. initial \in Config
      BY TimeLensAssumption DEF Configs, Config
    <3> QED BY <2>2, <3>1, NewRingType
  <2>4. Retained(ring) = {}
    BY <2>3, RetainedOf
  <2>5. WindowOf(ring) = [index \in {} |-> -1]
    BY <2>4 DEF WindowOf
  <2>6. CursorOf(view) = -1
    BY DEF Init, CursorOf
  <2> QED BY <2>3, <2>5, <2>6, Zenon DEF Window!Init, Window!Empty, WindowOf, CursorOf
<1>2. ASSUME IInv, Bounded, [Next]_vars
      PROVE  Window!Next \/ UNCHANGED abstract
  <2> USE <1>2
  <2>1. CASE UNCHANGED <<ring, view>>
    BY <2>1 DEF WindowOf, CursorOf
  <2>11. ring \in Ring /\ view \in View /\ ring.total = ring.evicted + Len(ring.samples)
    BY DEF IInv, TypeOK, Ring, View, RingAccounted
  <2>2. CASE UNCHANGED vars \/ PassTime \/ Produce \/ Ticked
    BY <2>1, <2>2 DEF vars, PassTime, Produce, Ticked, timeline
  <2>3. ASSUME NEW sequence \in 1..Len(produced), SnapshotArrived(sequence)
        PROVE  Window!Next \/ UNCHANGED abstract
    <3>1. CASE Newer(ring, Snapshot(sequence))
      BY <2>3, <3>1, RecordAdds DEF Window!Next
    <3>2. CASE ~Newer(ring, Snapshot(sequence))
      BY <2>1, <2>3, <3>2 DEF SnapshotArrived, Record, timeline
    <3> QED BY <3>1, <3>2
  <2>4. CASE Pause
    <3>1. CASE ring.samples = <<>>
      BY <2>1, <2>4, <3>1 DEF Pause
    <3>2. CASE ring.samples # <<>>
      <4>1. ring' = ring /\ view' = StepBack(view, ring, 0).view /\ 0 \in Nat
        BY <2>4, <3>2 DEF Pause
      <4>2. view' # Live /\ view'.absolute \in ring.evicted..NewestAbsolute(ring)
        BY <2>11, <3>2, <4>1, StepsStayOnRing
      <4> QED BY <3>2, <4>1, <4>2, PinnedIsRetained DEF Window!Next
    <3> QED BY <3>1, <3>2
  <2>5. CASE ReturnLive
    <3>1. ring' = ring /\ CursorOf(view)' = -1
      BY <2>5 DEF ReturnLive, GoLive, CursorOf
    <3>2. WindowOf(ring)' = WindowOf(ring) /\ ring'.total = ring.total
      BY <3>1 DEF WindowOf
    <3>3. Window!Follow
      BY <3>1, <3>2, Zenon DEF Window!Follow, WindowOf, CursorOf
    <3> QED BY <3>3 DEF Window!Next
  <2>6. CASE SeekHistory
    <3>1. PICK steps \in Steps \cup {StepMax} :
            \/ Seek(StepBack(view, ring, steps))
            \/ Seek(StepForward(view, ring, steps))
      BY <2>6 DEF SeekHistory
    <3>2. steps \in Nat /\ ring.samples # <<>> /\ ring' = ring
      BY <3>1, HistoryAssumption, TimeLensAssumption DEF Seek
    <3>3. view' # Live /\ view'.absolute \in ring.evicted..NewestAbsolute(ring)
      BY <2>11, <3>1, <3>2, StepsStayOnRing DEF Seek
    <3> QED BY <3>2, <3>3, PinnedIsRetained DEF Window!Next
  <2>7. ASSUME NEW c \in Config, RebuildHistory(c)
        PROVE  Window!Next \/ UNCHANGED abstract
    BY <2>7, RebuildRestarts DEF Window!Next
  <2>8. ASSUME NEW requested \in Intervals, SetInterval(requested)
        PROVE  Window!Next \/ UNCHANGED abstract
    <3> DEFINE new == [config EXCEPT !.interval = Clamp(requested, MinInterval, MaxInterval)]
    <3>1. Clamp(requested, MinInterval, MaxInterval) \in Nat
      BY HistoryAssumption, TimeLensAssumption DEF Clamp, Greater, Lesser
    <3>2. new \in Config
      BY <3>1 DEF IInv, TypeOK, Config
    <3>3. RebuildHistory(new)
      BY <2>8 DEF SetInterval
    <3> HIDE DEF new, abstract
    <3> QED BY <2>7, <3>2, <3>3
  <2>9. ASSUME NEW duration \in Durations, SetHistorySpan(duration)
        PROVE  Window!Next \/ UNCHANGED abstract
    <3> DEFINE new == [config EXCEPT !.duration = duration]
    <3>1. new \in Config
      BY TimeLensAssumption DEF IInv, TypeOK, Config
    <3>2. RebuildHistory(new)
      BY <2>9 DEF SetHistorySpan
    <3> HIDE DEF new, abstract
    <3> QED BY <2>7, <3>1, <3>2
  <2>10. ASSUME NEW file \in LoadableConfigs, Reconfigure(file)
         PROVE  Window!Next \/ UNCHANGED abstract
    <3>1. file \in Config
      BY TimeLensAssumption DEF LoadableConfigs, Configs, Config
    <3>2. CASE config # file
      <4>1. RebuildHistory(file)
        BY <2>10, <3>2 DEF Reconfigure
      <4> HIDE DEF abstract
      <4> QED BY <2>7, <3>1, <4>1
    <3>3. CASE config = file
      BY <2>1, <2>10, <3>3 DEF Reconfigure, timeline
    <3> QED BY <3>2, <3>3
  <2> HIDE DEF abstract
  <2> QED BY <2>2, <2>3, <2>4, <2>5, <2>6, <2>8, <2>9, <2>10 DEF Next
<1>3. IInv /\ Bounded /\ [Next]_vars =>
        [Window!Next]_<<ring.total, [absolute \in Retained(ring) |-> GetAbsolute(ring, absolute)],
                        IF view = Live THEN -1 ELSE view.absolute>>
  BY <1>2 DEF WindowOf, CursorOf
<1> QED BY <1>1, <1>3, InvariantHolds, BoundedHolds, PTL
        DEF Spec, ImplementsWindow, Window!Spec
=============================================================================
