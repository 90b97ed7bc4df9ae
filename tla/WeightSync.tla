------------------------------ MODULE WeightSync ------------------------------
(***************************************************************************)
(* Weight synchronisation (UpdateWeights in go/pkg/server/server.go over   *)
(* go/pkg/inference/inference.go): callers pause the generation of the     *)
(* shared inference backend, have it load new weights, let it continue and *)
(* record the version, which CreateRollout stamps on new rollouts.         *)
(*                                                                         *)
(* A call to the backend is an HTTP request under the caller's context. It *)
(* may fail before, after or while the backend carries it out, and what an *)
(* abandoned request asked for may be done later; once the context is      *)
(* cancelled no further request is sent.                                   *)
(***************************************************************************)
CONSTANTS
  Callers,   \* goroutines that handle UpdateWeights
  Versions,  \* weight versions the trainer sends
  NoVersion, \* the version before the first update
  Rollouts,  \* CreateRollout calls
  Backend    \* "sglang" or "vllm": which WeightSyncer is configured

ASSUME NoVersionAssumption == NoVersion \notin Versions
ASSUME BackendAssumption == Backend \in {"sglang", "vllm"}

VARIABLES
  pc,        \* where each caller's handler is
  version,   \* the version it has been asked for
  failed,    \* its updateErr is set
  cancelled, \* its context is cancelled
  holder,    \* who holds weightMu, none or one caller
  current,   \* ArenaServer.currentWeightVersion
  paused,    \* the backend does not generate
  served,    \* the version the backend has loaded
  late,      \* abandoned requests the backend may still carry out
  loaded,    \* history: the versions it has ever loaded
  faulted,   \* history: a backend call has failed, or a caller has gone away
  stamp,     \* Rollout.WeightVersion
  stamped    \* the rollouts that have been created

caller  == <<pc, version, failed, cancelled, holder>>
backend == <<paused, served, late, loaded>>
engine  == <<backend, faulted>>
rollout == <<stamp, stamped>>
vars    == <<caller, current, engine, rollout>>

Pcs == {"idle", "lock", "pause", "refit", "continue", "commit"}

AllVersions == Versions \cup {NoVersion}

Pause      == [kind |-> "pause", version |-> NoVersion]
Continue   == [kind |-> "continue", version |-> NoVersion]
Refit(v)   == [kind |-> "refit", version |-> v]
Operations == {Pause, Continue} \cup {Refit(v) : v \in Versions}

TypeOK ==
  /\ pc \in [Callers -> Pcs]
  /\ version \in [Callers -> AllVersions]
  /\ failed \in [Callers -> BOOLEAN]
  /\ cancelled \in [Callers -> BOOLEAN]
  /\ holder \subseteq Callers /\ \A c, d \in holder : c = d
  /\ current \in AllVersions
  /\ paused \in BOOLEAN
  /\ served \in AllVersions
  /\ late \subseteq Operations
  /\ loaded \subseteq Versions
  /\ faulted \in BOOLEAN
  /\ stamp \in [Rollouts -> AllVersions]
  /\ stamped \subseteq Rollouts

Init ==
  /\ pc = [c \in Callers |-> "idle"]
  /\ version = [c \in Callers |-> NoVersion]
  /\ failed = [c \in Callers |-> FALSE]
  /\ cancelled = [c \in Callers |-> FALSE]
  /\ holder = {}
  /\ current = NoVersion
  /\ paused = FALSE /\ served = NoVersion /\ late = {} /\ loaded = {}
  /\ faulted = FALSE
  /\ stamp = [r \in Rollouts |-> NoVersion] /\ stamped = {}

-----------------------------------------------------------------------------
(* The inference backend.                                                  *)

Does(op) ==
  /\ paused' = CASE op.kind = "pause"    -> TRUE
                 [] op.kind = "continue" -> FALSE
                 [] op.kind = "refit"    -> paused
  /\ IF op.kind = "refit"
     THEN served' = op.version /\ loaded' = loaded \cup {op.version}
     ELSE UNCHANGED <<served, loaded>>

\* A request that is answered with success.
Succeeds(c, op) ==
  /\ ~cancelled[c]
  /\ Does(op)
  /\ UNCHANGED <<late, faulted>>

\* A request that is not sent, is refused, is carried out although the answer
\* is lost, or is abandoned while the backend goes on with it.
Fails(c, op) ==
  /\ faulted' = TRUE
  /\ \/ UNCHANGED backend
     \/ ~cancelled[c] /\ Does(op) /\ UNCHANGED late
     \/ ~cancelled[c] /\ late' = late \cup {op} /\ UNCHANGED <<paused, served, loaded>>

\* The backend carries out a request whose caller no longer waits.
DoLate ==
  \E op \in late :
    /\ Does(op)
    /\ late' = late \ {op}
    /\ UNCHANGED <<caller, current, faulted, rollout>>

-----------------------------------------------------------------------------
(* UpdateWeights.                                                          *)

Goto(c, from, to) == pc[c] = from /\ pc' = [pc EXCEPT ![c] = to]

Unlock(c) == holder' = holder \ {c}

Call(c, v) ==
  /\ Goto(c, "idle", "lock")
  /\ version' = [version EXCEPT ![c] = v]
  /\ failed' = [failed EXCEPT ![c] = FALSE]
  /\ cancelled' = [cancelled EXCEPT ![c] = FALSE]
  /\ UNCHANGED <<holder, current, engine, rollout>>

\* The client goes away or its deadline passes.
Cancel(c) ==
  /\ faulted' = TRUE
  /\ pc[c] # "idle"
  /\ cancelled' = [cancelled EXCEPT ![c] = TRUE]
  /\ UNCHANGED <<pc, version, failed, holder, current, backend, rollout>>

\* Mutant: weightMu is not taken.
MayLockAlways == TRUE

MayLock == holder = {}

Lock(c) ==
  /\ MayLock
  /\ Goto(c, "lock", "pause")
  /\ holder' = holder \cup {c}
  /\ UNCHANGED <<version, failed, cancelled, current, engine, rollout>>

PauseGeneration(c) ==
  /\ Goto(c, "pause", "refit")
  /\ Succeeds(c, Pause)
  /\ UNCHANGED <<version, failed, cancelled, holder, current, rollout>>

\* Mutant: the error return forgets the lock.
PauseErrorKeepsLock(c) ==
  /\ Goto(c, "pause", "idle")
  /\ UNCHANGED holder

\* The error is returned at once; the backend is not asked to continue.
PauseError(c) ==
  /\ Goto(c, "pause", "idle")
  /\ Unlock(c)

PauseGenerationFails(c) ==
  /\ PauseError(c)
  /\ Fails(c, Pause)
  /\ UNCHANGED <<version, failed, cancelled, current, rollout>>

UpdateWeightsFromDisk(c) ==
  /\ Backend = "sglang"
  /\ Goto(c, "refit", "continue")
  /\ Succeeds(c, Refit(version[c]))
  /\ UNCHANGED <<version, failed, cancelled, holder, current, rollout>>

\* vLLM has no such call: its syncer always returns an error.
UpdateWeightsFromDiskFails(c) ==
  /\ Goto(c, "refit", "continue")
  /\ IF Backend = "vllm" THEN UNCHANGED engine ELSE Fails(c, Refit(version[c]))
  /\ failed' = [failed EXCEPT ![c] = TRUE]
  /\ UNCHANGED <<version, cancelled, holder, current, rollout>>

\* Mutant: the lock is released before the version is recorded.
RespondEarly(c, error) ==
  /\ Goto(c, "continue", IF error THEN "idle" ELSE "commit")
  /\ Unlock(c)

\* Mutant: a failed refit is recorded as well.
RespondAlways(c, error) ==
  /\ Goto(c, "continue", "commit")
  /\ UNCHANGED holder

\* With an error the handler answers Success: false, else it goes on.
Respond(c, error) ==
  /\ Goto(c, "continue", IF error THEN "idle" ELSE "commit")
  /\ IF error THEN Unlock(c) ELSE UNCHANGED holder

ContinueGeneration(c) ==
  /\ Respond(c, failed[c])
  /\ Succeeds(c, Continue)
  /\ UNCHANGED <<version, failed, cancelled, current, rollout>>

ContinueGenerationFails(c) ==
  /\ Respond(c, TRUE)
  /\ Fails(c, Continue)
  /\ UNCHANGED <<version, failed, cancelled, current, rollout>>

Commit(c) ==
  /\ Goto(c, "commit", "idle")
  /\ current' = version[c]
  /\ Unlock(c)
  /\ UNCHANGED <<version, failed, cancelled, engine, rollout>>

\* CreateRollout reads the version under s.mu, not weightMu, when the agent in
\* the new sandbox already runs.
StampRollout(r) ==
  /\ r \notin stamped
  /\ stamped' = stamped \cup {r}
  /\ stamp' = [stamp EXCEPT ![r] = current]
  /\ UNCHANGED <<caller, current, engine>>

-----------------------------------------------------------------------------
Handler(c) ==
  \/ PauseGeneration(c) \/ PauseGenerationFails(c)
  \/ UpdateWeightsFromDisk(c) \/ UpdateWeightsFromDiskFails(c)
  \/ ContinueGeneration(c) \/ ContinueGenerationFails(c)
  \/ Commit(c)

Next ==
  \/ \E c \in Callers : Lock(c) \/ Handler(c) \/ Cancel(c)
  \/ \E c \in Callers, v \in Versions : Call(c, v)
  \/ DoLate
  \/ \E r \in Rollouts : StampRollout(r)

Spec == Init /\ [][Next]_vars

\* Backend calls time out, and a sync.Mutex starves no one.
FairSpec ==
  Spec /\ \A c \in Callers : WF_vars(Handler(c)) /\ SF_vars(Lock(c))

-----------------------------------------------------------------------------
(* Properties.                                                             *)

Resting == holder = {} /\ late = {}

\* As long as no call has failed and no caller gone away, between updates the
\* recorded version is the one the backend serves and the backend generates,
\* whichever of several concurrent updates came last.
RestingInSync == ~faulted /\ Resting => current = served /\ ~paused

\* As long, the backend changes its weights only while it does not generate.
RefitWhilePaused == [][~faulted /\ served' # served => paused]_vars

\* However calls fail, no version is recorded, and so stamped on a rollout,
\* that the backend has not loaded.
OnlyLoadedVersions ==
  \A v \in {current} \cup {stamp[r] : r \in Rollouts} : v \in loaded \cup {NoVersion}

\* Every caller gets its answer: whatever fails, the lock is passed on.
EventuallyAnswered == \A c \in Callers : pc[c] = "lock" ~> pc[c] = "idle"

=============================================================================
