------------------------------- MODULE StepLog -------------------------------
(***************************************************************************)
(* What a trajectory backend promises for one rollout: an append-only log  *)
(* of steps that loses no stable step when the process dies, and reads     *)
(* that return every step appended before they began, in order, and        *)
(* possibly some of those appended meanwhile.                              *)
(* LocalJSONL implements it (go/pkg/trajectory/backend/backend.go).        *)
(***************************************************************************)
EXTENDS Naturals, Sequences

CONSTANTS
  Steps,   \* trajectory steps
  Readers  \* concurrent calls of Read

VARIABLES
  log,     \* the steps whose Write has returned
  stable,  \* how many of them survive the process
  reading, \* per reader: "idle", "reading" or "done"
  low,     \* per reader: how many steps its result must have
  seen     \* per reader: how many steps its result has

vars == <<log, stable, reading, low, seen>>

Init ==
  /\ log = <<>> /\ stable = 0
  /\ reading = [r \in Readers |-> "idle"]
  /\ low = [r \in Readers |-> 0]
  /\ seen = [r \in Readers |-> 0]

\* A step is appended; older steps may become stable at the same time.
Write(s) ==
  /\ log' = Append(log, s)
  /\ stable' \in stable..Len(log')
  /\ UNCHANGED <<reading, low, seen>>

\* A flush of one kind or another.
Sync ==
  /\ stable' = Len(log)
  /\ UNCHANGED <<log, reading, low, seen>>

BeginRead(r) ==
  /\ reading[r] = "idle"
  /\ reading' = [reading EXCEPT ![r] = "reading"]
  /\ low' = [low EXCEPT ![r] = Len(log)]
  /\ stable' = Len(log)
  /\ UNCHANGED <<log, seen>>

EndRead(r) ==
  /\ reading[r] = "reading"
  /\ reading' = [reading EXCEPT ![r] = "done"]
  /\ \E n \in low[r]..Len(log) : seen' = [seen EXCEPT ![r] = n]
  /\ UNCHANGED <<log, stable, low>>

\* The process dies, and with it its readers.
Crash ==
  /\ log' = SubSeq(log, 1, stable)
  /\ UNCHANGED stable
  /\ reading' = [r \in Readers |-> "idle"]
  /\ low' = [r \in Readers |-> 0]
  /\ seen' = [r \in Readers |-> 0]

Next ==
  \/ \E s \in Steps : Write(s)
  \/ Sync
  \/ \E r \in Readers : BeginRead(r) \/ EndRead(r)
  \/ Crash

Spec == Init /\ [][Next]_vars

=============================================================================
