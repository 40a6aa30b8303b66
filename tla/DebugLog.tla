--------------------------------- MODULE DebugLog ---------------------------------
(***************************************************************************)
(* The bounded debug log of logging.rs: a live file, one previous          *)
(* generation, and rotation between them, with the failures it handles.    *)
(*                                                                         *)
(* A writer is the log worker of one running monitrs; nothing stops two of *)
(* them from being given the same path.  A file is what a handle refers    *)
(* to, so it outlives the name it was opened by.  Lines are their lengths. *)
(***************************************************************************)
EXTENDS Integers, FiniteSets

CONSTANTS
  Writers,     \* programs that log to the same path
  Files,       \* what names and handles refer to
  NoFile,
  MaxBytes,    \* BoundedLogFile::max_bytes
  LineLengths

ASSUME DebugLogAssumption ==
  /\ IsFiniteSet(Writers) /\ IsFiniteSet(Files)
  /\ Cardinality(Files) >= Cardinality(Writers) + 2
  /\ NoFile \notin Files
  /\ MaxBytes \in Nat \ {0}
  /\ LineLengths \subseteq Nat \ {0} /\ IsFiniteSet(LineLengths) /\ LineLengths # {}

VARIABLES
  live,      \* the file named path, or NoFile
  previous,  \* the file named path.1, or NoFile
  size,      \* bytes in each file
  handle,    \* BoundedLogFile::file of each writer, NoFile when it does not run
  written,   \* BoundedLogFile::written
  length,    \* of the line being written, 0 for none
  left,      \* bytes of it still to write
  moved      \* the rotation under way has renamed the live file

names   == <<live, previous>>
line    == <<length, left>>
logVars == <<names, size, handle, written, line, moved>>

Held == {handle[w] : w \in Writers}
Free == Files \ ({live, previous} \cup Held)

\* A file is gone with its last name and its last handle.
Keep(sizes) == size' = [f \in Files |-> IF f \in Free' THEN 0 ELSE sizes[f]]

\* Mutant: rotates after the cap was crossed, not before.
CrossedAlready(w) == written[w] > MaxBytes

\* The test at the head of every write.
MustRotate(w) == written[w] > 0 /\ written[w] + left[w] > MaxBytes

Writing(w) == handle[w] # NoFile /\ ~moved[w] /\ left[w] > 0

EndLine(w) == left' = [left EXCEPT ![w] = 0] /\ length' = [length EXCEPT ![w] = 0]

\* open_append: the file of that name, or a new one.
OpenAppend(w) ==
  \E f \in Files :
    /\ IF live = NoFile THEN f \in Free ELSE f = live
    /\ live' = f
    /\ handle' = [handle EXCEPT ![w] = f]
-----------------------------------------------------------------------------

\* BoundedLogFile::open: goes on counting from what an earlier run left behind.
OpenLog(w) ==
  /\ handle[w] = NoFile
  /\ OpenAppend(w)
  /\ written' = [written EXCEPT ![w] = IF live = NoFile THEN 0 ELSE size[live]]
  /\ UNCHANGED <<previous, line, moved>>
  /\ Keep(size)

\* The program ends, or is killed, anywhere.
Stop(w) ==
  /\ handle[w] # NoFile
  /\ handle' = [handle EXCEPT ![w] = NoFile]
  /\ written' = [written EXCEPT ![w] = 0]
  /\ moved' = [moved EXCEPT ![w] = FALSE]
  /\ EndLine(w)
  /\ UNCHANGED names
  /\ Keep(size)

\* The worker takes a line from its queue.
TakeLine(w) ==
  /\ handle[w] # NoFile /\ ~moved[w] /\ left[w] = 0
  /\ \E n \in LineLengths : left' = [left EXCEPT ![w] = n] /\ length' = [length EXCEPT ![w] = n]
  /\ UNCHANGED <<names, size, handle, written, moved>>

\* rotate, when the rename succeeds.
Rename(w) ==
  /\ Writing(w) /\ MustRotate(w)
  /\ live # NoFile
  /\ previous' = live /\ live' = NoFile
  /\ moved' = [moved EXCEPT ![w] = TRUE]
  /\ UNCHANGED <<handle, written, line>>
  /\ Keep(size)

Reopen(w) ==
  /\ moved[w]
  /\ OpenAppend(w)
  /\ written' = [written EXCEPT ![w] = 0]
  /\ moved' = [moved EXCEPT ![w] = FALSE]
  /\ UNCHANGED <<previous, line>>
  /\ Keep(size)

\* The new file cannot be opened: the write fails, and the old handle stays.
ReopenFails(w) ==
  /\ moved[w]
  /\ moved' = [moved EXCEPT ![w] = FALSE]
  /\ EndLine(w)
  /\ UNCHANGED <<names, size, handle, written>>

\* Mutant: the file is left as it is.
TruncateNothing(w) ==
  /\ Writing(w) /\ MustRotate(w)
  /\ written' = [written EXCEPT ![w] = 0]
  /\ UNCHANGED <<names, size, handle, line, moved>>

\* rotate, when the rename fails: the file of the handle is emptied.
Truncate(w) ==
  /\ Writing(w) /\ MustRotate(w)
  /\ size' = [size EXCEPT ![handle[w]] = 0]
  /\ written' = [written EXCEPT ![w] = 0]
  /\ UNCHANGED <<names, handle, line, moved>>

\* Any other failure of a write: the worker drops the rest of the line.
WriteFails(w) ==
  /\ Writing(w)
  /\ EndLine(w)
  /\ UNCHANGED <<names, size, handle, written, moved>>

\* Some of the line is written; the caller comes back with the rest.
Write(w) ==
  /\ Writing(w) /\ ~MustRotate(w)
  /\ \E n \in 1..left[w] :
       /\ size' = [size EXCEPT ![handle[w]] = @ + n]
       /\ written' = [written EXCEPT ![w] = @ + n]
       /\ left' = [left EXCEPT ![w] = @ - n]
       /\ length' = [length EXCEPT ![w] = IF left[w] = n THEN 0 ELSE @]
  /\ UNCHANGED <<names, handle, moved>>
-----------------------------------------------------------------------------

LogInit ==
  /\ live = NoFile /\ previous = NoFile
  /\ size = [f \in Files |-> 0]
  /\ handle = [w \in Writers |-> NoFile]
  /\ written = [w \in Writers |-> 0]
  /\ length = [w \in Writers |-> 0] /\ left = [w \in Writers |-> 0]
  /\ moved = [w \in Writers |-> FALSE]

\* What the worker does with a line in hand.
Work(w) ==
  \/ Rename(w)
  \/ Reopen(w)
  \/ ReopenFails(w)
  \/ Truncate(w)
  \/ WriteFails(w)
  \/ Write(w)

LogNext == \E w \in Writers : OpenLog(w) \/ Stop(w) \/ TakeLine(w) \/ Work(w)

LogSpec == LogInit /\ [][LogNext]_logVars
-----------------------------------------------------------------------------
(* Properties *)

\* The values every variable ranges over; no file is both generations.
LogTypeOK ==
  /\ live \in Files \cup {NoFile} /\ previous \in Files \cup {NoFile}
  /\ size \in [Files -> Nat]
  /\ handle \in [Writers -> Files \cup {NoFile}]
  /\ written \in [Writers -> Nat]
  /\ length \in [Writers -> Nat] /\ left \in [Writers -> Nat]
  /\ moved \in [Writers -> BOOLEAN]
  /\ live # NoFile => live # previous

\* However rotations fail and writers come and go, the live file and the previous
\* generation stay within the cap, or a line longer than it; writers that share
\* the path count for themselves only, and each may add as much.
FilesBounded ==
  \A f \in Files :
    \E bytes \in LineLengths \cup {MaxBytes} : size[f] <= Cardinality(Writers) * bytes

\* A line the cap has room for is never torn apart by a rotation, although it may
\* take several writes and every one of them may rotate.
LinesStayWhole ==
  \A w \in Writers :
    0 < left[w] /\ left[w] < length[w] /\ length[w] <= MaxBytes => ~MustRotate(w)
=============================================================================
