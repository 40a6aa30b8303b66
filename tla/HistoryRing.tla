------------------------------- MODULE HistoryRing -------------------------------
(***************************************************************************)
(* The bounded sample ring of monitrs-core (history/ring.rs) and the       *)
(* cursor over it (history/view.rs), as operators on values.  A ring is a  *)
(* record, a snapshot and a sample are records with a sequence number and  *)
(* a time; metrics and contributors are left out because no control        *)
(* depends on them.                                                        *)
(***************************************************************************)
EXTENDS Integers, Sequences

CONSTANTS
  MinInterval, MaxInterval,  \* accepted sampling intervals
  MinDuration, MaxDuration,  \* accepted history spans
  MemoryBudget,              \* bytes the ring may use
  BytesPerSample,            \* estimated bytes of one sample
  StepMax                    \* usize::MAX, further than any ring is long

ASSUME HistoryAssumption ==
  /\ MinInterval \in Nat \ {0} /\ MaxInterval \in Nat /\ MinInterval <= MaxInterval
  /\ MinDuration \in Nat /\ MaxDuration \in Nat /\ MinDuration <= MaxDuration
  /\ MemoryBudget \in Nat /\ BytesPerSample \in Nat \ {0}
  /\ StepMax \in Nat

Lesser(a, b)  == IF a <= b THEN a ELSE b
Greater(a, b) == IF a >= b THEN a ELSE b

\* Saturating subtraction, of durations and of indices.
Minus(a, b) == IF a >= b THEN a - b ELSE 0

-----------------------------------------------------------------------------
(* Limits *)

Clamp(value, min, max) == Greater(min, Lesser(value, max))

\* Samples that span needs at interval, rounded up, and at least one.
DeriveCapacity(duration, interval) ==
  Greater((duration + interval - 1) \div interval, 1)

AffordableCapacity == Greater(MemoryBudget \div BytesPerSample, 1)

\* HistoryLimits::resolve, down to the capacity the ring is built with.
ResolveCapacity(config) ==
  Lesser(DeriveCapacity(Clamp(config.duration, MinDuration, MaxDuration),
                        Clamp(config.interval, MinInterval, MaxInterval)),
         AffordableCapacity)

-----------------------------------------------------------------------------
(* Ring *)

NewRing(config, start) ==
  [capacity |-> ResolveCapacity(config), start |-> start,
   samples |-> <<>>, total |-> 0, evicted |-> 0]

SampleOf(ring, snapshot) ==
  [sequence |-> snapshot.sequence, offset |-> Minus(snapshot.captured, ring.start)]

NewestSample(ring) == ring.samples[Len(ring.samples)]

\* Whether record takes the snapshot, or answers NotNewer and changes nothing.
Newer(ring, snapshot) ==
  ring.samples # <<>> =>
    /\ snapshot.sequence > NewestSample(ring).sequence
    /\ SampleOf(ring, snapshot).offset >= NewestSample(ring).offset

\* How many samples the eviction loop drops to make room for one more.
Overflowing(ring) == Minus(Len(ring.samples) + 1, ring.capacity)

Record(ring, snapshot) ==
  IF Newer(ring, snapshot)
  THEN [ring EXCEPT
          !.samples = Append(SubSeq(@, Overflowing(ring) + 1, Len(@)),
                             SampleOf(ring, snapshot)),
          !.evicted = @ + Overflowing(ring),
          !.total   = @ + 1]
  ELSE ring

FirstAbsolute(ring)  == Minus(ring.total, Len(ring.samples))
NewestAbsolute(ring) == ring.total - 1   \* of a ring that holds a sample
Retained(ring)       == FirstAbsolute(ring) .. NewestAbsolute(ring)
GetAbsolute(ring, absolute) == ring.samples[absolute - FirstAbsolute(ring) + 1]

\* The binary search of ring.rs: how many of the indices 0..len-1 lead up to the
\* first that is not in holding, when those in it come first.
PartitionPoint(len, holding) ==
  LET search[range \in (0..len) \X (0..len)] ==
        LET low    == range[1]
            high   == range[2]
            middle == low + (high - low) \div 2
        IN  IF low >= high           THEN low
            ELSE IF middle \in holding THEN search[<<middle + 1, high>>]
            ELSE search[<<low, middle>>]
  IN  search[<<0, len>>]

Indices(ring) == 0..(Len(ring.samples) - 1)

\* Mutant: strictly before.
IndexBefore(ring, offset) ==
  PartitionPoint(Len(ring.samples),
                 {i \in Indices(ring) : ring.samples[i + 1].offset < offset})

\* index_at_or_before_offset, counted from one; zero for None.
IndexAtOrBefore(ring, offset) ==
  PartitionPoint(Len(ring.samples),
                 {i \in Indices(ring) : ring.samples[i + 1].offset <= offset})

-----------------------------------------------------------------------------
(* Cursor *)

Live         == [kind |-> "live", absolute |-> 0]
Selected(at) == [kind |-> "selected", absolute |-> at]

\* The absolute index a cursor resolves to on a ring that is not empty.
SelectedAbsolute(view, ring) ==
  IF view = Live THEN NewestAbsolute(ring)
  ELSE Lesser(Greater(view.absolute, FirstAbsolute(ring)), NewestAbsolute(ring))

SelectedSample(view, ring) == GetAbsolute(ring, SelectedAbsolute(view, ring))

\* Movement on a ring that is not empty: the new cursor and the outcome.
StepBack(view, ring, steps) ==
  LET current   == SelectedAbsolute(view, ring)
      available == Minus(current, FirstAbsolute(ring))
  IN  [view    |-> Selected(current - Lesser(steps, available)),
       outcome |-> IF steps > available THEN "ClampedAtOldest" ELSE "Moved"]

\* Mutant: the cursor runs past the newest sample.
StepForwardFreely(view, ring, steps) ==
  [view    |-> Selected(SelectedAbsolute(view, ring) + steps),
   outcome |-> "Moved"]

StepForward(view, ring, steps) ==
  LET requested == SelectedAbsolute(view, ring) + steps
  IN  [view    |-> Selected(Lesser(requested, NewestAbsolute(ring))),
       outcome |-> IF requested > NewestAbsolute(ring) THEN "ClampedAtNewest" ELSE "Moved"]

\* The sample compare measures against, lookback before the selected one: its
\* index counted from one, or zero for None.
ElapsedBaseline(view, ring, lookback) ==
  LET selected == SelectedSample(view, ring)
      index    == IndexAtOrBefore(ring, selected.offset - lookback)
  IN  IF \/ selected.offset < lookback
         \/ index = 0
         \/ ring.samples[Greater(index, 1)].sequence >= selected.sequence
      THEN 0 ELSE index
=============================================================================
