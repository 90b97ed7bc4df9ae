------------------------------ MODULE TrainingTab ------------------------------
(***************************************************************************)
(* The Training tab of the Code Colosseum dashboard (TrainingMonitor) next *)
(* to the training service of the orchestrator (backend/training.py). The  *)
(* records of the training are lines of a file. The tab draws them from    *)
(* one request for the whole file, whose answer replaces what is drawn,    *)
(* and from a stream that sends the whole file first and then each record  *)
(* that is posted. The trainer writes to the file itself, and tells no one.*)
(*                                                                         *)
(* A record is its step and its line; its values are not told apart from   *)
(* the line. A line that is half written is not decoded, as if it were not *)
(* there yet. Heartbeats change nothing and are left out.                  *)
(***************************************************************************)
EXTENDS Hooks, Naturals, Sequences, SequencesExt

CONSTANTS
  Steps,       \* the steps of the training
  MaxRecords,  \* bound: lines of the file
  MaxBreaks    \* bound: connections that break, requests that fail

ASSUME StepsAssumption == Steps \subseteq Nat
ASSUME BoundAssumption == MaxRecords \in Nat /\ MaxBreaks \in Nat
ASSUME NoneAssumption  == None \notin [step: Steps, line: 1..MaxRecords]

VARIABLES
  file,     \* metrics.jsonl
  posting,  \* the record append has written and not yet told the subscribers
  unposted, \* history: the trainer has written to the file since it was replayed,
            \* or there were posted records to be sent behind its own
  phase,    \* the connection: "none", "asked", "subscribed", "live"
  wire,     \* the queue of the connection, and what of it is on its way
  api,      \* useApi, for the status
  sse,      \* useSSE
  history,  \* TrainingMonitor.history
  missed,   \* history: a record was dropped from the curve since it was sent
  stale,    \* history: the curve ends where an old answer ended
  breaks    \* how many there were so far

server  == <<file, posting, unposted>>
monitor == <<phase, wire, api, sse, history, missed, stale>>
training == <<server, monitor, breaks>>

Path   == "/training/status"
Stream == "/training/stream"

TrainingInit ==
  /\ file = <<>>
  /\ posting = None
  /\ unposted = FALSE
  /\ phase = "none"
  /\ wire = <<>>
  /\ api = Mounted
  /\ sse = Closed
  /\ history = <<>>
  /\ missed = FALSE
  /\ stale = FALSE
  /\ breaks = 0

Break == breaks < MaxBreaks /\ breaks' = breaks + 1

StepsOf(records) == {records[i].step : i \in DOMAIN records}

EndsAs(r, s) == r # <<>> /\ Last(r).step = Last(s).step

-----------------------------------------------------------------------------
(* TrainingService.append, in a thread: the file, then the subscribers.    *)

Line(step) == [step |-> step, line |-> Len(file) + 1]

AddLine(step) ==
  /\ Len(file) < MaxRecords
  /\ file' = Append(file, Line(step))

Post(step) ==
  /\ posting = None
  /\ AddLine(step)
  /\ posting' = Line(step)
  /\ UNCHANGED <<unposted, monitor, breaks>>

Notify ==
  /\ posting # None
  /\ posting' = None
  /\ wire' = IF phase \in {"subscribed", "live"} THEN Append(wire, posting) ELSE wire
  /\ UNCHANGED <<file, unposted, phase, api, sse, history, missed, stale, breaks>>

\* write_metrics of the trainer.
Write(step) ==
  /\ AddLine(step)
  /\ unposted' = TRUE
  /\ UNCHANGED <<posting, monitor, breaks>>

-----------------------------------------------------------------------------
(* stream_training.                                                        *)

\* The queue is subscribed before the file is read.
Subscribe ==
  /\ phase = "asked"
  /\ phase' = "subscribed"
  /\ sse' = OnOpen(sse)
  /\ UNCHANGED <<server, wire, api, history, missed, stale, breaks>>

\* Mutant: only the last record is sent first.
ReplayLatest ==
  /\ phase = "subscribed"
  /\ phase' = "live"
  /\ wire' = (IF file = <<>> THEN <<>> ELSE <<Last(file)>>) \o wire
  /\ missed' = FALSE
  /\ unposted' = (unposted /\ ~(wire = <<>> /\ posting = None))
  /\ UNCHANGED <<file, posting, api, sse, history, stale, breaks>>

\* latest_status and the first part of event_generator.
Replay ==
  /\ phase = "subscribed"
  /\ phase' = "live"
  /\ wire' = file \o wire
  /\ missed' = FALSE
  /\ unposted' = (unposted /\ ~(wire = <<>> /\ posting = None))
  /\ UNCHANGED <<file, posting, api, sse, history, stale, breaks>>

\* The browser opens a broken connection again; all that was queued is lost.
Disconnect ==
  /\ Break
  /\ phase \in {"subscribed", "live"}
  /\ phase' = "asked"
  /\ wire' = <<>>
  /\ sse' = OnError(sse)
  /\ UNCHANGED <<server, api, history, missed, stale>>

\* The orchestrator restarts: the file is kept, the queues are not.
Restart ==
  /\ Break
  /\ posting' = None
  /\ phase' = IF phase = "none" THEN "none" ELSE "asked"
  /\ wire' = <<>>
  /\ sse' = IF phase = "none" THEN sse ELSE OnError(sse)
  /\ UNCHANGED <<file, unposted, api, history, missed, stale>>

-----------------------------------------------------------------------------
(* TrainingMonitor.                                                        *)

Mount ==
  /\ phase' = "asked"
  /\ api' = WrappedLoad(Mounted, Path)
  /\ sse' = Connect(Closed, Stream)
  /\ UNCHANGED <<server, wire, history, missed, stale, breaks>>

Unmount ==
  /\ phase' = "none"
  /\ wire' = <<>>
  /\ api' = Mounted
  /\ sse' = Closed
  /\ history' = <<>>
  /\ missed' = FALSE
  /\ stale' = FALSE
  /\ UNCHANGED <<server, breaks>>

\* get_training_status; the rest of the status tells of the last record.
ServeStatus(s) ==
  /\ api.requests[s].stage = "sent"
  /\ api' = Answer(api, s, file)
  /\ UNCHANGED <<server, phase, wire, sse, history, missed, stale, breaks>>

\* With the effect on [data].
StatusArrives(s) ==
  /\ api.requests[s].stage = "answered"
  /\ api' = Resolve(api, s)
  /\ history' = api.requests[s].answer
  /\ missed' = (missed \/ ~(StepsOf(history) \subseteq StepsOf(history')))
  /\ stale' = (history # <<>> /\ ~EndsAs(history', history))
  /\ UNCHANGED <<server, phase, wire, sse, breaks>>

StatusFails(s) ==
  /\ Break
  /\ api.requests[s].stage = "sent"
  /\ api' = Reject(api, s)
  /\ UNCHANGED <<server, phase, wire, sse, history, missed, stale>>

MessageArrives ==
  /\ phase = "live"
  /\ wire # <<>>
  /\ wire' = Tail(wire)
  /\ sse' = OnMessage(sse, Head(wire))
  /\ missed' = (missed \/ sse.fresh)
  /\ UNCHANGED <<server, phase, api, history, stale, breaks>>

\* Mutant: every record is compared with the first one of the curve.
ExtendHasty(h, record) ==
  IF h # <<>> /\ Head(h).step = record.step THEN h ELSE Append(h, record)

\* A record of the step that the curve ends with is left out.
Extend(h, record) ==
  IF h # <<>> /\ Last(h).step = record.step THEN h ELSE Append(h, record)

\* The effect on [liveEvents].
Render ==
  /\ sse.fresh
  /\ sse' = Rendered(sse)
  /\ history' = Extend(history, sse.latest)
  /\ stale' = FALSE
  /\ UNCHANGED <<server, phase, wire, api, missed, breaks>>

TrainingStep ==
  \/ Notify \/ Subscribe \/ Replay \/ Disconnect \/ Restart
  \/ MessageArrives \/ Render
  \/ \E step \in Steps : Post(step) \/ Write(step)
  \/ \E s \in Slots : ServeStatus(s) \/ StatusArrives(s) \/ StatusFails(s)

-----------------------------------------------------------------------------
(* What TrainingMonitor renders: the badges, the step above the curve, the *)
(* curve. Every record says that the training is running.                  *)

Monitor ==
  IF api.loading THEN [screen |-> "loading"]
  ELSE IF api.error THEN [screen |-> "error"]
  ELSE [screen |-> "curve", live |-> sse.connected, running |-> history # <<>>,
        step |-> IF history = <<>> THEN 0 ELSE Last(history).step, points |-> history]

(* The reward curve of ArenaDashboard, drawn from the file alone.          *)

\* Mutant: the first record of a step stays.
PutFirst(m, record) ==
  IF \E i \in DOMAIN m : m[i].step = record.step THEN m ELSE Append(m, record)

\* Map.set: the place of a key is that of its first insertion.
MapSet(m, record) ==
  IF \E i \in DOMAIN m : m[i].step = record.step
    THEN [i \in DOMAIN m |-> IF m[i].step = record.step THEN record ELSE m[i]]
    ELSE Append(m, record)

\* records.forEach
Seen(records) ==
  LET seen[i \in 0..Len(records)] ==
        IF i = 0 THEN <<>> ELSE MapSet(seen[i - 1], records[i])
  IN  seen[Len(records)]

\* Where a value is in the order of the steps, which are all different.
Place(m, i) == Cardinality({j \in DOMAIN m : m[j].step <= m[i].step})

Sorted(m) == [k \in DOMAIN m |-> m[CHOOSE i \in DOMAIN m : Place(m, i) = k]]

Curve(records) == Sorted(Seen(records))

-----------------------------------------------------------------------------
Records == [step: Steps, line: 1..MaxRecords]

TrainingTypeOK ==
  /\ file \in Seq(Records)
  /\ posting \in Records \cup {None}
  /\ unposted \in BOOLEAN
  /\ phase \in {"none", "asked", "subscribed", "live"}
  /\ wire \in Seq(Records)
  /\ api \in ApiStates({Path}, Seq(Records))
  /\ sse \in StreamStates({Stream}, Records)
  /\ history \in Seq(Records)
  /\ missed \in BOOLEAN
  /\ stale \in BOOLEAN
  /\ breaks \in 0..MaxBreaks

\* Every record has been told to the tab, and the tab has rendered it.
TrainingSettled ==
  /\ phase = "live"
  /\ wire = <<>>
  /\ ~sse.fresh
  /\ InFlight(api) = {}
  /\ posting = None
  /\ ~unposted

\* Once all is delivered the curve has every step of the file, through broken
\* connections, restarts of the orchestrator and requests that fail: whoever
\* subscribes is sent the whole file, and is subscribed before it is read.
\* Not if two records came between two renders, an answer to the request was
\* older than the curve, or the trainer has written since (TrainingMonitor.tsx
\* 21-39, main.py 162-179, training.py 65-75).
CurveComplete ==
  TrainingSettled /\ ~missed => StepsOf(file) \subseteq StepsOf(history)

\* And it ends with the step of the last record, also when records between were
\* not rendered one by one, unless an old answer came last.
CurveEndsWithTheLatest ==
  TrainingSettled /\ ~stale /\ file # <<>> => EndsAs(history, file)

\* The curve of the Command Center has one point for each step, in order, and
\* it is the last record of that step (ArenaDashboard.tsx 85-101).
OnePointPerStep ==
  LET curve == Curve(file)
  IN  /\ StepsOf(curve) = StepsOf(file)
      /\ \A i, j \in DOMAIN curve : i < j => curve[i].step < curve[j].step
      /\ \A i \in DOMAIN curve :
           \A l \in curve[i].line + 1..Len(file) : file[l].step # curve[i].step

=============================================================================
