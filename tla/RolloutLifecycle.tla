-------------------------- MODULE RolloutLifecycle --------------------------
(***************************************************************************)
(* One rollout of the ArenaServer (go/pkg/server/server.go), from the      *)
(* CreateRollout call to the destruction of its sandbox, and the Stop,     *)
(* Pause and Resume handlers that run beside its lifecycle goroutine.      *)
(*                                                                         *)
(* Rollouts share only the lock of the rollouts map and the gauge, so one  *)
(* rollout with an arbitrary set of concurrent callers shows every         *)
(* interleaving a rollout takes part in. A step is what the code does      *)
(* between two points where another goroutine can intervene: a critical    *)
(* section of s.mu, a provider call, a channel operation.                  *)
(***************************************************************************)
EXTENDS Integers

CONSTANTS
  Callers,        \* gRPC handler goroutines that stop, pause and resume it
  Provider,       \* "docker" or "local": which sandbox provider is in use
  ProviderFaults, \* may a provider call report an error although it could work
  SyncVerify,     \* ServerConfig.SyncVerify
  HasVerify,      \* a verify config and a verify runner are present
  Timeout,        \* Rollout.Timeout, in clock ticks
  PauseHorizon,   \* bound: the clock stops here while a pause is open
  MaxDuration     \* largest time.Duration; arithmetic wraps beyond it

ASSUME ProviderAssumption == Provider \in {"docker", "local"}
ASSUME FlagsAssumption ==
  /\ ProviderFaults \in BOOLEAN
  /\ SyncVerify \in BOOLEAN
  /\ HasVerify \in BOOLEAN
ASSUME ClockAssumption ==
  /\ Timeout \in Nat \ {0}
  /\ PauseHorizon \in Nat
  /\ MaxDuration \in Nat
  /\ Timeout + PauseHorizon < MaxDuration

VARIABLES
  create,      \* where the CreateRollout handler is
  gauge,       \* arena_rollouts_active
  registered,  \* the token is in the proxy's rollouts map
  listening,   \* the rollout's ProxyServer accepts connections
  finalized,   \* Finalize has run on the trajectory backend
  sandbox,     \* state of the container or process
  doneFile,    \* the agent has written /sandbox/.arena/done
  status,      \* Rollout.Status
  pausedAt,    \* Rollout.PausedAt
  pausedTotal, \* Rollout.PausedTotal
  finished,    \* Rollout.FinishedAt is set
  report,      \* Rollout.VerificationReport
  stateCh,     \* Rollout.stateCh, a channel of capacity one, holds a token
  lc,          \* where the lifecycle goroutine is
  deadline,    \* when the armed timer of waitForCompletion fires
  cancelled,   \* the lifecycle context is cancelled
  wait,        \* the WaitForDone goroutine and the content of waitErrCh
  timedOut,    \* what waitForCompletion returned
  verdict,     \* the report runVerify returned
  hpc,         \* where each caller's handler is
  now,         \* clock, 0 when the lifecycle goroutine starts
  held,        \* history: ticks that passed while status was not "running"
  overlapped   \* history: a pause or a resume was under way when it finished

record == <<status, pausedAt, pausedTotal, finished, report>>
net    == <<registered, listening, finalized>>
box    == <<sandbox, doneFile>>
loop   == <<deadline, cancelled, wait, timedOut, verdict>>
clock  == <<now, held, overlapped>>
vars   == <<create, gauge, net, box, record, stateCh, lc, loop, hpc, clock>>

ZeroTime == -1                        \* time.Time{}

Durations == -(MaxDuration + 1) .. MaxDuration

CreatePcs  == {"new", "listening", "registered", "created", "started", "recorded",
               "createFailed", "startFailed", "destroy", "close", "failed"}
Paused     == {"enterPaused", "pausedWait"}   \* took the branch without a timer
Timed      == {"enterTimed", "timedWait"}     \* took the branch with a timer
Waiting    == {"loop", "drain"} \cup Paused \cup Timed
Quiescing  == {"unregister", "close", "finalize"}
Completing == {"verify", "mark", "spawn", "stop", "destroy", "apply", "return"}
LcPcs      == {"none", "done"} \cup Waiting \cup Quiescing \cup Completing
HandlerPcs == {"idle", "pauseSignal", "pauseCall", "pauseRollback",
               "resumeCall", "resumeCommit", "signal", "stopCall"}
Changing   == {"pauseSignal", "pauseCall", "pauseRollback", "resumeCall", "resumeCommit"}
SandboxStates == {"absent", "created", "up", "frozen", "exited", "gone"}
Terminal   == {"success", "failed"}   \* what markTerminal can set

TypeOK ==
  /\ create \in CreatePcs
  /\ gauge \in {0, 1}
  /\ registered \in BOOLEAN /\ listening \in BOOLEAN /\ finalized \in BOOLEAN
  /\ sandbox \in SandboxStates
  /\ doneFile \in BOOLEAN
  /\ status \in {"none", "running", "paused", "stopped"} \cup Terminal
  /\ pausedAt \in Nat \cup {ZeroTime}
  /\ pausedTotal \in Durations
  /\ finished \in BOOLEAN
  /\ report \in {"unset", "nil", "scored"}
  /\ stateCh \in BOOLEAN
  /\ lc \in LcPcs
  /\ deadline \in Int
  /\ cancelled \in BOOLEAN
  /\ wait \in {"off", "waiting", "ok", "err"}
  /\ timedOut \in BOOLEAN
  /\ verdict \in {"nil", "scored"}
  /\ hpc \in [Callers -> HandlerPcs]
  /\ now \in Nat
  /\ held \in Nat
  /\ overlapped \in BOOLEAN

Init ==
  /\ create = "new"
  /\ gauge = 0
  /\ registered = FALSE /\ listening = FALSE /\ finalized = FALSE
  /\ sandbox = "absent" /\ doneFile = FALSE
  /\ status = "none"
  /\ pausedAt = ZeroTime /\ pausedTotal = 0
  /\ finished = FALSE /\ report = "unset"
  /\ stateCh = FALSE
  /\ lc = "none"
  /\ deadline = 0 /\ cancelled = FALSE /\ wait = "off"
  /\ timedOut = FALSE /\ verdict = "nil"
  /\ hpc = [c \in Callers |-> "idle"]
  /\ now = 0 /\ held = 0 /\ overlapped = FALSE

-----------------------------------------------------------------------------
(* Arithmetic on time.Duration: 64-bit in the code, 2*(MaxDuration+1) here. *)

Wrap(d) ==
  IF d > MaxDuration THEN d - 2 * (MaxDuration + 1)
  ELSE IF d < -(MaxDuration + 1) THEN d + 2 * (MaxDuration + 1)
  ELSE d

\* time.Since saturates: since the zero time it is the largest duration.
Since(t) == IF t = ZeroTime THEN MaxDuration ELSE now - t

\* Mutant: the paused time is forgotten.
RemainingOfStart == Wrap(Timeout - now)

\* remaining := rollout.Timeout - (time.Since(start) - pausedTotal)
Remaining == Wrap(Timeout - Wrap(now - pausedTotal))

-----------------------------------------------------------------------------
(* CreateRollout.                                                          *)

\* The gauge is raised first; binding the listener may fail.
CreateBegin ==
  /\ create = "new"
  /\ gauge' = gauge + 1
  /\ \/ create' = "listening" /\ listening' = TRUE
     \/ create' = "failed" /\ UNCHANGED listening
  /\ UNCHANGED <<registered, finalized, box, record, stateCh, lc, loop, hpc, clock>>

RegisterRollout ==
  /\ create = "listening"
  /\ create' = "registered"
  /\ registered' = TRUE
  /\ UNCHANGED <<gauge, listening, finalized, box, record, stateCh, lc, loop, hpc, clock>>

\* A docker command that is killed because the client has gone away may have
\* been carried out all the same: a failing call changes the sandbox or not.
CreateSandbox ==
  /\ create = "registered"
  /\ \/ create' = "created" /\ sandbox' = "created"
     \/ create' = "createFailed" /\ sandbox' \in {"absent", "created"}
  /\ UNCHANGED <<gauge, net, doneFile, record, stateCh, lc, loop, hpc, clock>>

StartSandboxFails ==
  /\ create = "created"
  /\ create' = "startFailed"
  /\ sandbox' \in {"created", "up"}
  /\ UNCHANGED <<gauge, net, doneFile, record, stateCh, lc, loop, hpc, clock>>

\* The error paths of Create and of Start: the token, the sandbox (after
\* Start only), the listener. Neither of them lowers the gauge.
UnregisterFailed ==
  /\ create \in {"createFailed", "startFailed"}
  /\ registered' = FALSE
  /\ create' = IF create = "startFailed" THEN "destroy" ELSE "close"
  /\ UNCHANGED <<gauge, listening, finalized, box, record, stateCh, lc, loop, hpc, clock>>

\* Destroy runs with the context of the request, which may be cancelled, and
\* its error is ignored.
DestroyFailed ==
  /\ create = "destroy"
  /\ create' = "close"
  /\ sandbox' \in {"gone", sandbox}
  /\ UNCHANGED <<gauge, net, doneFile, record, stateCh, lc, loop, hpc, clock>>

CloseFailed ==
  /\ create = "close"
  /\ create' = "failed"
  /\ listening' = FALSE
  /\ UNCHANGED <<gauge, registered, finalized, box, record, stateCh, lc, loop, hpc, clock>>

\* Start succeeds: the agent runs before the rollout is recorded.
StartSandbox ==
  /\ create = "created"
  /\ create' = "started"
  /\ sandbox' = "up"
  /\ UNCHANGED <<gauge, net, doneFile, record, stateCh, lc, loop, hpc, clock>>

\* The record enters the map and the lifecycle goroutine starts.
RecordRollout ==
  /\ create = "started"
  /\ create' = "recorded"
  /\ status' = "running"
  /\ lc' = "loop"
  /\ wait' = "waiting"
  /\ UNCHANGED <<gauge, net, box, pausedAt, pausedTotal, finished, report, stateCh,
                 deadline, cancelled, timedOut, verdict, hpc, clock>>

-----------------------------------------------------------------------------
(* The agent in the sandbox, and the provider's WaitForDone.               *)

AgentWritesDone ==
  /\ sandbox = "up" /\ ~doneFile
  /\ doneFile' = TRUE
  /\ UNCHANGED <<create, gauge, net, sandbox, record, stateCh, lc, loop, hpc, clock>>

AgentExits ==
  /\ sandbox = "up"
  /\ sandbox' = "exited"
  /\ UNCHANGED <<create, gauge, net, doneFile, record, stateCh, lc, loop, hpc, clock>>

\* docker wait also sees the container exit; the local provider only polls
\* the done file.
DoneVisible == doneFile \/ (Provider = "docker" /\ sandbox = "exited")

WaitForDoneReturns ==
  /\ wait = "waiting"
  /\ \/ DoneVisible /\ wait' = "ok"
     \/ cancelled /\ wait' = "err"
     \/ Provider = "docker" /\ ProviderFaults /\ wait' = "err"
  /\ UNCHANGED <<create, gauge, net, box, record, stateCh, lc,
                 deadline, cancelled, timedOut, verdict, hpc, clock>>

-----------------------------------------------------------------------------
(* waitForCompletion: the record is read under s.mu (Loop), and the select *)
(* is entered later (EnterSelect); a pause or a resume may fall in between.*)
(* The timer's deadline does not depend on when between the two it is set. *)

Loop ==
  /\ lc = "loop"
  /\ \/ /\ status = "paused"
        /\ lc' = "enterPaused"
        /\ UNCHANGED <<deadline, cancelled, timedOut>>
     \/ /\ status # "paused" /\ Remaining <= 0
        /\ lc' = "drain" /\ cancelled' = TRUE /\ timedOut' = TRUE
        /\ UNCHANGED deadline
     \/ /\ status # "paused" /\ Remaining > 0
        /\ lc' = "enterTimed"
        /\ deadline' = now + Remaining
        /\ UNCHANGED <<cancelled, timedOut>>
  /\ UNCHANGED <<create, gauge, net, box, record, stateCh, wait, verdict, hpc, clock>>

EnterSelect ==
  /\ \/ lc = "enterPaused" /\ lc' = "pausedWait"
     \/ lc = "enterTimed" /\ lc' = "timedWait"
  /\ UNCHANGED <<create, gauge, net, box, record, stateCh, loop, hpc, clock>>

\* case <-stateCh, in either select.
StateSignalled ==
  /\ lc \in {"pausedWait", "timedWait"}
  /\ stateCh
  /\ stateCh' = FALSE
  /\ lc' = "loop"
  /\ UNCHANGED <<create, gauge, net, box, record, loop, hpc, clock>>

\* case err := <-waitErrCh, in either select, and the receive after cancel().
SandboxDone ==
  /\ lc \in {"pausedWait", "timedWait", "drain"}
  /\ wait \in {"ok", "err"}
  /\ lc' = "unregister"
  /\ UNCHANGED <<create, gauge, net, box, record, stateCh, loop, hpc, clock>>

\* case <-timer.C.
TimerFires ==
  /\ lc = "timedWait" /\ now >= deadline
  /\ lc' = "drain" /\ cancelled' = TRUE /\ timedOut' = TRUE
  /\ UNCHANGED <<create, gauge, net, box, record, stateCh, deadline, wait, verdict, hpc, clock>>

\* Bound: time matters only to waitForCompletion, and stops at PauseHorizon
\* while a pause is open, so that a deadline moved by pauses stays in reach.
Tick ==
  /\ lc \in Waiting
  /\ now < IF pausedAt = ZeroTime THEN PauseHorizon + Timeout ELSE PauseHorizon
  /\ now' = now + 1
  /\ held' = IF status = "running" THEN held ELSE held + 1
  /\ UNCHANGED overlapped
  /\ UNCHANGED <<create, gauge, net, box, record, stateCh, lc, loop, hpc>>

-----------------------------------------------------------------------------
(* The rest of runLifecycle. AfterStep is the order of its statements, for *)
(* the inline, the asynchronous and the absent verification.               *)

\* Mutant: asynchronous verification is started only after the clean-up.
AfterStepVerifiesLate(pc) ==
  CASE pc = "unregister" -> "close"
    [] pc = "close"      -> "finalize"
    [] pc = "finalize"   -> IF SyncVerify THEN "stop" ELSE "mark"
    [] pc = "mark"       -> IF SyncVerify THEN "return" ELSE IF HasVerify THEN "spawn" ELSE "stop"
    [] pc = "spawn"      -> "stop"
    [] pc = "stop"       -> "destroy"
    [] pc = "destroy"    -> "verify"
    [] pc = "verify"     -> "apply"
    [] pc = "apply"      -> IF SyncVerify THEN "mark" ELSE IF HasVerify THEN "done" ELSE "return"
    [] pc = "return"     -> "done"

\* Mutant: the rollout is marked before the trajectory is finalized.
AfterStepMarksEarly(pc) ==
  CASE pc = "unregister" -> "close"
    [] pc = "close"      -> "mark"
    [] pc = "mark"       -> "finalize"
    [] pc = "finalize"   -> IF SyncVerify THEN "verify" ELSE IF HasVerify THEN "spawn" ELSE "stop"
    [] pc = "spawn"      -> "verify"
    [] pc = "verify"     -> "stop"
    [] pc = "stop"       -> "destroy"
    [] pc = "destroy"    -> "apply"
    [] pc = "apply"      -> IF HasVerify /\ ~SyncVerify THEN "done" ELSE "return"
    [] pc = "return"     -> "done"

\* Mutant: the verification goroutine lowers the gauge as well.
AfterStepLowersTwice(pc) ==
  CASE pc = "unregister" -> "close"
    [] pc = "close"      -> "finalize"
    [] pc = "finalize"   -> IF SyncVerify THEN "verify" ELSE "mark"
    [] pc = "mark"       -> IF SyncVerify THEN "return" ELSE IF HasVerify THEN "spawn" ELSE "stop"
    [] pc = "spawn"      -> "verify"
    [] pc = "verify"     -> "stop"
    [] pc = "stop"       -> "destroy"
    [] pc = "destroy"    -> "apply"
    [] pc = "apply"      -> IF SyncVerify THEN "mark" ELSE "return"
    [] pc = "return"     -> "done"

AfterStep(pc) ==
  CASE pc = "unregister" -> "close"
    [] pc = "close"      -> "finalize"
    [] pc = "finalize"   -> IF SyncVerify THEN "verify" ELSE "mark"
    [] pc = "mark"       -> IF SyncVerify THEN "return" ELSE IF HasVerify THEN "spawn" ELSE "stop"
    [] pc = "spawn"      -> "verify"
    [] pc = "verify"     -> "stop"
    [] pc = "stop"       -> "destroy"
    [] pc = "destroy"    -> "apply"
    [] pc = "apply"      -> IF SyncVerify THEN "mark" ELSE IF HasVerify THEN "done" ELSE "return"
    [] pc = "return"     -> "done"

At(pc) == lc = pc /\ lc' = AfterStep(pc)

UnregisterRollout ==
  /\ At("unregister")
  /\ registered' = FALSE
  /\ UNCHANGED <<create, gauge, listening, finalized, box, record, stateCh, loop, hpc, clock>>

CloseProxyServer ==
  /\ At("close")
  /\ listening' = FALSE
  /\ UNCHANGED <<create, gauge, registered, finalized, box, record, stateCh, loop, hpc, clock>>

Finalize ==
  /\ At("finalize")
  /\ finalized' = TRUE
  /\ UNCHANGED <<create, gauge, registered, listening, box, record, stateCh, loop, hpc, clock>>

\* runVerify. Every Exec of a verifier fails once the context is cancelled,
\* so a rollout that timed out has no report. No deadline bounds a verifier.
RunVerify ==
  /\ At("verify")
  /\ verdict' \in IF HasVerify /\ ~cancelled THEN {"nil", "scored"} ELSE {"nil"}
  /\ UNCHANGED <<create, gauge, net, box, record, stateCh,
                 deadline, cancelled, wait, timedOut, hpc, clock>>

MarkTerminal ==
  /\ At("mark")
  /\ finished' = TRUE
  /\ status' = IF timedOut \/ wait = "err" THEN "failed" ELSE "success"
  /\ overlapped' = \E c \in Callers : hpc[c] \in Changing
  /\ UNCHANGED <<create, gauge, net, box, pausedAt, pausedTotal, report, stateCh, loop,
                 hpc, now, held>>

\* runLifecycle returns: its deferred statement lowers the gauge, at once
\* when verification goes on in a goroutine of its own.
LowerGauge ==
  /\ At("spawn") \/ At("return")
  /\ gauge' = gauge - 1
  /\ UNCHANGED <<create, net, box, record, stateCh, loop, hpc, clock>>

\* stopSandbox. What Stop does to a sandbox that runs; errors are ignored.
Halted == IF sandbox \in {"up", "frozen"} THEN "exited" ELSE sandbox

StopSandbox ==
  /\ At("stop")
  /\ sandbox' \in IF ProviderFaults THEN {Halted, sandbox} ELSE {Halted}
  /\ UNCHANGED <<create, gauge, net, doneFile, record, stateCh, loop, hpc, clock>>

DestroySandbox ==
  /\ At("destroy")
  /\ sandbox' \in IF ProviderFaults THEN {"gone", sandbox} ELSE {"gone"}
  /\ UNCHANGED <<create, gauge, net, doneFile, record, stateCh, loop, hpc, clock>>

ApplyVerification ==
  /\ At("apply")
  /\ report' = verdict
  /\ UNCHANGED <<create, gauge, net, box, status, pausedAt, pausedTotal, finished,
                 stateCh, loop, hpc, clock>>

-----------------------------------------------------------------------------
(* StopRollout, PauseRollout and ResumeRollout. A caller that finds the    *)
(* rollout in another status returns an error and changes nothing.         *)

Goto(c, from, to) == hpc[c] = from /\ hpc' = [hpc EXCEPT ![c] = to]

StopRollout(c) ==
  /\ create = "recorded"
  /\ Goto(c, "idle", "stopCall")
  /\ status' = "stopped"
  /\ UNCHANGED <<create, gauge, net, box, pausedAt, pausedTotal, finished, report,
                 stateCh, lc, loop, clock>>

StopCall(c) ==
  /\ Goto(c, "stopCall", "idle")
  /\ sandbox' \in IF ProviderFaults THEN {Halted, sandbox} ELSE {Halted}
  /\ UNCHANGED <<create, gauge, net, doneFile, record, stateCh, lc, loop, clock>>

\* Mutant: a rollout that is already paused may be paused again.
PauseRolloutTwice(c) ==
  /\ status \in {"running", "paused"}
  /\ Goto(c, "idle", "pauseSignal")
  /\ status' = "paused"
  /\ pausedAt' = now
  /\ UNCHANGED <<create, gauge, net, box, pausedTotal, finished, report,
                 stateCh, lc, loop, clock>>

PauseRollout(c) ==
  /\ status = "running"
  /\ Goto(c, "idle", "pauseSignal")
  /\ status' = "paused"
  /\ pausedAt' = now
  /\ UNCHANGED <<create, gauge, net, box, pausedTotal, finished, report,
                 stateCh, lc, loop, clock>>

\* Mutant: the send is lost unless the lifecycle goroutine is in its select.
SignalWhenReceiving ==
  stateCh' = (stateCh \/ lc \in {"pausedWait", "timedWait"})

\* signalState: a send that is dropped when a token is already there.
SignalState == stateCh' = TRUE

\* docker pause refuses a container that is not running or already paused;
\* SIGSTOP is delivered to any process that is alive.
CanPause   == sandbox = "up" \/ (Provider = "local" /\ sandbox = "frozen")
CanUnpause == sandbox = "frozen" \/ (Provider = "local" /\ sandbox = "up")

PauseSignal(c) ==
  /\ Goto(c, "pauseSignal", "pauseCall")
  /\ SignalState
  /\ UNCHANGED <<create, gauge, net, box, record, lc, loop, clock>>

\* The flush of the trajectory after it, whose error is only logged, is the
\* Flush of LocalJSONL: it touches no state of this module.
PauseSucceeds(c) ==
  /\ CanPause
  /\ Goto(c, "pauseCall", "idle")
  /\ sandbox' = "frozen"
  /\ UNCHANGED <<create, gauge, net, doneFile, record, stateCh, lc, loop, clock>>

\* With a fault the error may come although the sandbox has been frozen.
PauseFails(c) ==
  /\ Goto(c, "pauseCall", "pauseRollback")
  /\ \/ ~CanPause /\ UNCHANGED sandbox
     \/ ProviderFaults /\ CanPause /\ sandbox' \in {sandbox, "frozen"}
  /\ UNCHANGED <<create, gauge, net, doneFile, record, stateCh, lc, loop, clock>>

PauseRollback(c) ==
  /\ Goto(c, "pauseRollback", "signal")
  /\ status' = "running"
  /\ pausedAt' = ZeroTime
  /\ UNCHANGED <<create, gauge, net, box, pausedTotal, finished, report,
                 stateCh, lc, loop, clock>>

\* Mutant: a rollout is resumed whatever its status.
ResumeRolloutUnchecked(c) ==
  /\ create = "recorded"
  /\ Goto(c, "idle", "resumeCall")
  /\ UNCHANGED <<create, gauge, net, box, record, stateCh, lc, loop, clock>>

ResumeRollout(c) ==
  /\ status = "paused"
  /\ Goto(c, "idle", "resumeCall")
  /\ UNCHANGED <<create, gauge, net, box, record, stateCh, lc, loop, clock>>

UnpauseSucceeds(c) ==
  /\ CanUnpause
  /\ Goto(c, "resumeCall", "resumeCommit")
  /\ sandbox' = "up"
  /\ UNCHANGED <<create, gauge, net, doneFile, record, stateCh, lc, loop, clock>>

UnpauseFails(c) ==
  /\ Goto(c, "resumeCall", "idle")
  /\ \/ ~CanUnpause /\ UNCHANGED sandbox
     \/ ProviderFaults /\ CanUnpause /\ sandbox' \in {sandbox, "up"}
  /\ UNCHANGED <<create, gauge, net, doneFile, record, stateCh, lc, loop, clock>>

\* Mutant: PausedAt is cleared before the pause is credited.
CreditAfterReset ==
  /\ pausedTotal' = Wrap(pausedTotal + Since(ZeroTime))
  /\ pausedAt' = ZeroTime

\* r.PausedTotal += time.Since(r.PausedAt); r.PausedAt = time.Time{}
CreditPause ==
  /\ pausedTotal' = Wrap(pausedTotal + Since(pausedAt))
  /\ pausedAt' = ZeroTime

\* The second critical section does not look at the status again.
ResumeCommit(c) ==
  /\ Goto(c, "resumeCommit", "signal")
  /\ CreditPause
  /\ status' = "running"
  /\ UNCHANGED <<create, gauge, net, box, finished, report, stateCh, lc, loop, clock>>

Signal(c) ==
  /\ Goto(c, "signal", "idle")
  /\ SignalState
  /\ UNCHANGED <<create, gauge, net, box, record, lc, loop, clock>>

-----------------------------------------------------------------------------
Creation ==
  \/ CreateBegin \/ RegisterRollout \/ CreateSandbox
  \/ StartSandbox \/ StartSandboxFails \/ RecordRollout
  \/ UnregisterFailed \/ DestroyFailed \/ CloseFailed

Agent == AgentWritesDone \/ AgentExits

Lifecycle ==
  \/ Loop \/ EnterSelect \/ StateSignalled \/ SandboxDone \/ TimerFires
  \/ UnregisterRollout \/ CloseProxyServer \/ Finalize
  \/ MarkTerminal \/ LowerGauge
  \/ StopSandbox \/ DestroySandbox \/ ApplyVerification

\* What a handler does once it has entered; its provider calls return.
HandlerStep(c) ==
  \/ StopCall(c)
  \/ PauseSignal(c) \/ PauseSucceeds(c) \/ PauseFails(c) \/ PauseRollback(c)
  \/ UnpauseSucceeds(c) \/ UnpauseFails(c) \/ ResumeCommit(c)
  \/ Signal(c)

Request(c) == StopRollout(c) \/ PauseRollout(c) \/ ResumeRollout(c)

Next ==
  \/ Creation
  \/ Agent
  \/ WaitForDoneReturns
  \/ Lifecycle
  \/ RunVerify
  \/ Tick
  \/ \E c \in Callers : Request(c) \/ HandlerStep(c)

Spec == Init /\ [][Next]_vars

\* Goroutines and timers make progress and provider calls return. Nothing
\* obliges a client to call, an agent to finish or a verifier to end.
Fairness ==
  /\ WF_vars(Lifecycle)
  /\ WF_vars(WaitForDoneReturns)
  /\ WF_vars(Tick)
  /\ \A c \in Callers : WF_vars(HandlerStep(c))

FairSpec == Spec /\ Fairness

-----------------------------------------------------------------------------
(* Safety.                                                                 *)

\* A rollout that has a final status takes no more LLM traffic and its
\* trajectory is flushed: nothing runLifecycle must do before markTerminal
\* is still to be done.
TerminalIsQuiescent ==
  finished => /\ ~registered /\ ~listening /\ finalized
              /\ wait \in {"ok", "err"}

\* A verifier never runs against a sandbox the server has destroyed, and
\* while the sandbox is being awaited nobody has destroyed it.
NoWorkOnDestroyedSandbox ==
  lc \in Waiting \cup Quiescing \cup {"verify", "spawn", "stop"} => sandbox # "gone"

\* With SyncVerify a client that sees a final status also sees the report.
SyncRewardVisible == SyncVerify /\ finished => report = verdict /\ lc \in {"return", "done"}

\* Some handler has changed the status and has still to signal it.
Signalling == \E c \in Callers : hpc[c] \in {"pauseSignal", "signal"}

\* The lifecycle goroutine is never left in the select without a timer for
\* a rollout that runs: a resume that falls between its look at the status
\* and its select is not lost. (A stopped rollout is not signalled.)
NoLostWakeup ==
  lc \in Paused /\ status \notin {"paused", "stopped"} => stateCh \/ Signalling

\* The timer of a rollout that has been paused is about to be disarmed.
PauseDisarmsTimer ==
  lc \in Timed /\ status = "paused" => stateCh \/ Signalling

\* An armed timer that nobody is about to reset fires when the rollout has
\* run for its timeout, all the pauses so far excluded.
DeadlineExcludesPauses ==
  lc \in Timed /\ ~stateCh /\ ~Signalling => deadline = Timeout + pausedTotal

\* The server's status agrees with the sandbox once no handler is between
\* its first and its last step: a running rollout is not frozen (its timeout
\* would run against an agent that cannot act), and the agent of a paused
\* rollout does not run (no timeout would ever end it).
Quiet == \A c \in Callers : hpc[c] = "idle"

RunningNotFrozen == lc \in Waiting /\ Quiet /\ status = "running" => sandbox # "frozen"
PausedNotUp      == lc \in Waiting /\ Quiet /\ status = "paused" => sandbox # "up"

StatusMatchesSandbox == RunningNotFrozen /\ PausedNotUp

\* The timeout is never extended by more time than the rollout did not run.
NoPhantomPause == 0 <= pausedTotal /\ pausedTotal <= held

\* The final status stays what it is, but for a Stop, unless a pause or a
\* resume was under way when the rollout finished: a handler that enters later
\* is refused, although resume writes the status without looking at it again
\* and the sandbox of a finished rollout may still be frozen or running.
FinalStatusStays ==
  finished /\ ~overlapped => status \in Terminal \cup {"stopped"}

-----------------------------------------------------------------------------
(* Liveness.                                                               *)

\* A recorded rollout that is not left paused has its sandbox destroyed in
\* the end, unless a verifier never returns: the wait always ends.
EventuallyDestroyed ==
  (create = "recorded" /\ status # "paused")
     ~> (sandbox = "gone" \/ lc = "verify" \/ status = "paused")

-----------------------------------------------------------------------------
(* What the repository says of the program and the program does not do.    *)

\* "Pause/resume works only from running <-> paused": a rollout that has its
\* final status does not go back to running.
FinishedNotReopened == [][finished /\ status' = "running" => status = "running"]_vars

=============================================================================
