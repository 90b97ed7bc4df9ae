------------------------------ MODULE LocalJSONL ------------------------------
(***************************************************************************)
(* The local trajectory backend (go/pkg/trajectory/backend/local.go), as   *)
(* one rollout sees it: a JSONL file behind a bufio.Writer, written,       *)
(* flushed, finalized and read by concurrent callers, the background       *)
(* flusher, and the death of the server process.                           *)
(*                                                                         *)
(* A step is its line: one unit for each part of its JSON text and one for *)
(* the newline. Each method runs under b.mu and is one action; Read drops  *)
(* the lock between its flush and its copy and is two. What a reader or a  *)
(* crash could find between the system calls of one method, the torn last  *)
(* line, it can also find after the method.                                *)
(***************************************************************************)
EXTENDS Integers, Sequences, SequencesExt

CONSTANTS
  Steps,      \* the trajectory steps of the rollout, each written once
  Size,       \* units of a step's JSON text
  FlushBytes, \* LocalJSONL.FlushBytes, in units
  Readers     \* concurrent GetTrajectory and StreamTrajectory calls

ASSUME SizeAssumption == Size \in [Steps -> Nat \ {0}]
ASSUME FlushBytesAssumption == FlushBytes \in Nat \ {0}

VARIABLES
  disk,     \* the content of the file
  buf,      \* the content of the bufio.Writer
  open,     \* the rollout has an entry in b.files
  closed,   \* b.closed
  up,       \* the process that holds the rollout is alive
  reading,  \* where each reader is
  copied,   \* what it has copied from the file
  floor,    \* history: the steps written when it took the lock
  settled   \* history: the steps written at the last flush asked for

file   == <<disk, buf, open>>
reader == <<reading, copied, floor>>
vars   == <<file, closed, up, reader, settled>>

\* json.Marshal(step) and the newline.
Text(s)    == [k \in 1..Size[s] |-> <<s, k>>]
Newline(s) == <<s, Size[s] + 1>>

\* Where a text has the last brace of a step.
Ends(text) == {i \in DOMAIN text : text[i][2] = Size[text[i][1]]}

\* How many of these positions a position has up to itself.
Rank(ends, i) == Cardinality({j \in ends : j <= i})

\* What json.Decoder finds in a text: the steps that are there to their last
\* brace. A text that breaks off within a step is an error to it.
Lines(text) ==
  LET ends == Ends(text)
  IN  [k \in 1..Cardinality(ends) |-> text[CHOOSE i \in ends : Rank(ends, i) = k][1]]

Written == Lines(disk \o buf)

TypeOK ==
  /\ \A u \in Range(disk \o buf) : u[1] \in Steps /\ u[2] \in 1..Size[u[1]] + 1
  /\ Len(buf) <= FlushBytes
  /\ open \in BOOLEAN /\ closed \in BOOLEAN /\ up \in BOOLEAN
  /\ buf # <<>> => open
  /\ reading \in [Readers -> {"idle", "flushed", "done"}]
  /\ settled \in Seq(Steps)

Init ==
  /\ disk = <<>> /\ buf = <<>> /\ open = FALSE
  /\ closed = FALSE /\ up = TRUE
  /\ reading = [r \in Readers |-> "idle"]
  /\ copied = [r \in Readers |-> <<>>]
  /\ floor = [r \in Readers |-> <<>>]
  /\ settled = <<>>

-----------------------------------------------------------------------------
(* bufio.Writer, on a record of file content and buffer content.           *)

FlushAll(w) == [disk |-> w.disk \o w.buf, buf |-> <<>>]

\* Writer.Write: what does not fit fills the buffer, which is then flushed;
\* what is longer than an empty buffer goes to the file directly.
Put(w, text) ==
  LET room  == FlushBytes - Len(w.buf)
      first == FlushAll([w EXCEPT !.buf = @ \o SubSeq(text, 1, room)])
      rest  == SubSeq(text, room + 1, Len(text))
  IN IF Len(text) <= room THEN [w EXCEPT !.buf = @ \o text]
     ELSE IF w.buf = <<>> THEN [w EXCEPT !.disk = @ \o text]
     ELSE IF Len(rest) > FlushBytes THEN [first EXCEPT !.disk = @ \o rest]
     ELSE [first EXCEPT !.buf = rest]

\* Mutant: the byte is appended to a full buffer.
PutByteOverfull(w, b) == [w EXCEPT !.buf = Append(@, b)]

\* Writer.WriteByte.
PutByte(w, b) ==
  LET ready == IF Len(w.buf) = FlushBytes THEN FlushAll(w) ELSE w
  IN [ready EXCEPT !.buf = Append(@, b)]

Becomes(w) == disk' = w.disk /\ buf' = w.buf
Now        == [disk |-> disk, buf |-> buf]

-----------------------------------------------------------------------------
(* The methods.                                                            *)

\* Mutant: Write does not look at b.closed.
MayWriteClosed == up

MayWrite == up /\ ~closed

\* Opens the file if need be, also one that Finalize has closed.
Write(s) ==
  /\ MayWrite
  /\ s \notin Range(Written)
  /\ open' = TRUE
  /\ Becomes(PutByte(Put(Now, Text(s)), Newline(s)))
  /\ UNCHANGED <<closed, up, reader, settled>>

\* Mutant: the background flusher skips a buffer that still has room.
FlushLoopLazy ==
  /\ up /\ ~closed /\ open /\ Len(buf) = FlushBytes
  /\ Becomes(FlushAll(Now))
  /\ UNCHANGED <<open, closed, up, reader, settled>>

\* One turn of flushLoop.
FlushLoop ==
  /\ up /\ ~closed /\ open
  /\ Becomes(FlushAll(Now))
  /\ UNCHANGED <<open, closed, up, reader, settled>>

\* Flush, for a rollout that is paused.
Flush ==
  /\ up
  /\ Becomes(IF open THEN FlushAll(Now) ELSE Now)
  /\ settled' = Written
  /\ UNCHANGED <<open, closed, up, reader>>

\* Mutant: the file is closed without a flush.
ReleaseUnflushed ==
  /\ disk' = disk /\ buf' = <<>>
  /\ open' = FALSE

\* Flush the buffer, close the file and forget its entry.
Release ==
  /\ Becomes(FlushAll(Now))
  /\ open' = FALSE

\* Finalize, for a rollout whose generation is complete.
Finalize ==
  /\ up
  /\ IF open THEN Release ELSE UNCHANGED file
  /\ settled' = Written
  /\ UNCHANGED <<closed, up, reader>>

\* A second Close returns at once.
Close ==
  /\ up /\ ~closed
  /\ closed' = TRUE
  /\ IF open THEN Release ELSE UNCHANGED file
  /\ settled' = Written
  /\ UNCHANGED <<up, reader>>

\* Mutant: Read does not flush.
ReadAsIs == Now

\* Read flushes so that it observes all completed writes ...
Observable == IF open THEN FlushAll(Now) ELSE Now

ReadFlush(r) ==
  /\ reading[r] = "idle"
  /\ reading' = [reading EXCEPT ![r] = "flushed"]
  /\ floor' = [floor EXCEPT ![r] = Written]
  /\ Becomes(Observable)
  /\ UNCHANGED <<open, closed, up, copied, settled>>

\* ... and copies the file, up to the end it finds, without the lock.
ReadCopy(r) ==
  /\ reading[r] = "flushed"
  /\ reading' = [reading EXCEPT ![r] = "done"]
  /\ copied' = [copied EXCEPT ![r] = disk]
  /\ UNCHANGED <<file, closed, up, floor, settled>>

\* The process dies. The one that follows it knows nothing of the rollout.
Crash ==
  /\ up /\ up' = FALSE
  /\ buf' = <<>> /\ open' = FALSE
  /\ reading' = [r \in Readers |-> "idle"]
  /\ copied' = [r \in Readers |-> <<>>]
  /\ floor' = [r \in Readers |-> <<>>]
  /\ UNCHANGED <<disk, closed, settled>>

-----------------------------------------------------------------------------
Next ==
  \/ \E s \in Steps : Write(s)
  \/ FlushLoop \/ Flush \/ Finalize \/ Close \/ Crash
  \/ \E r \in Readers : ReadFlush(r) \/ ReadCopy(r)

Spec == Init /\ [][Next]_vars

\* The ticker of flushLoop fires again and again.
FairSpec == Spec /\ WF_vars(FlushLoop)

-----------------------------------------------------------------------------
(* Properties.                                                             *)

\* A pause, a completion or a shutdown leaves nothing in memory: whatever had
\* been written by then is in the file, and a crash does not undo it.
SettledSurvives == IsPrefix(settled, Lines(disk))

\* After Close nothing is buffered that nobody will ever flush.
ClosedHoldsNothing == closed => ~open /\ buf = <<>>

\* A step that has been written reaches the file unless the process dies.
EventuallyOnDisk ==
  \A s \in Steps : s \in Range(Written) ~> (s \in Range(Lines(disk)) \/ ~up)

\* The backend is a StepLog: the steps in file and buffer are the log, those
\* in the file are stable, and a reader has what its copy shows.
Store == INSTANCE StepLog WITH
  log     <- Written,
  stable  <- Len(Lines(disk)),
  reading <- [r \in Readers |-> IF reading[r] = "flushed" THEN "reading" ELSE reading[r]],
  low     <- [r \in Readers |-> Len(floor[r])],
  seen    <- [r \in Readers |-> Len(Lines(copied[r]))]

ImplementsStepLog == Store!Spec

=============================================================================
