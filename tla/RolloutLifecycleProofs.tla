----------------------- MODULE RolloutLifecycleProofs -----------------------
(***************************************************************************)
(* Theorems about RolloutLifecycle, for every set of callers, provider,    *)
(* verification mode, timeout and bound of the clock.                      *)
(***************************************************************************)
EXTENDS RolloutLifecycle, TLAPS

\* The phases of the lifecycle goroutine, and what each of them has behind it.
PhaseInv ==
  /\ lc = "none" <=> create # "recorded"
  /\ lc = "none" => /\ status = "none" /\ ~finished /\ wait = "off"
                    /\ \A c \in Callers : hpc[c] = "idle"
                    /\ pausedAt = ZeroTime /\ pausedTotal = 0 /\ now = 0 /\ held = 0
  /\ lc # "none" => wait # "off"
  /\ lc \in Waiting => status \in {"running", "paused", "stopped"}
  /\ lc \in Waiting \cup Quiescing => ~finished
  /\ lc \notin Waiting \cup {"none"} => wait \in {"ok", "err"}
  /\ lc \in {"close", "finalize", "done"} \cup Completing => ~registered
  /\ lc \in {"finalize", "done"} \cup Completing => ~listening
  /\ lc \in {"done"} \cup Completing => finalized

\* runLifecycle has returned, perhaps leaving verification behind.
Returned ==
  \/ lc = "done"
  \/ ~SyncVerify /\ HasVerify /\ lc \in {"verify", "stop", "destroy", "apply"}

\* The gauge is raised once and lowered once.
GaugeInv ==
  /\ lc = "spawn" => ~SyncVerify /\ HasVerify
  /\ lc = "return" => SyncVerify \/ ~HasVerify
  /\ lc = "verify" => SyncVerify \/ HasVerify
  /\ gauge = IF create = "new" \/ Returned THEN 0 ELSE 1

\* No instant lies in the future, and no duration in the model overflows
\* unless a pause is measured from the zero time.
ClockInv ==
  /\ now <= PauseHorizon + Timeout
  /\ pausedAt <= now
  /\ held <= now

\* Nobody destroys the sandbox before the lifecycle goroutine does.
SandboxInv ==
  /\ create \in {"new", "listening", "registered"} => sandbox = "absent"
  /\ create = "created" => sandbox = "created"
  /\ create = "started" => sandbox \in {"up", "exited"}
  /\ lc \in Waiting \cup Quiescing \cup {"verify", "spawn", "stop", "destroy"}
       => sandbox # "gone"
  /\ lc = "mark" /\ ~SyncVerify => sandbox # "gone"

Inv == TypeOK /\ PhaseInv /\ GaugeInv /\ ClockInv /\ SandboxInv

-----------------------------------------------------------------------------
\* A rollout nobody has asked for satisfies the invariant.
LEMMA InvInit == Init => Inv
<1> SUFFICES ASSUME Init PROVE Inv
  OBVIOUS
<1>1. /\ registered \in BOOLEAN /\ listening \in BOOLEAN /\ finalized \in BOOLEAN
      /\ doneFile \in BOOLEAN /\ finished \in BOOLEAN /\ stateCh \in BOOLEAN
      /\ cancelled \in BOOLEAN /\ timedOut \in BOOLEAN /\ overlapped \in BOOLEAN
  BY Zenon DEF Init
<1>2. TypeOK
  BY <1>1, ClockAssumption
  DEF Init, TypeOK, Durations, CreatePcs, SandboxStates, LcPcs, HandlerPcs, ZeroTime
<1>3. PhaseInv /\ GaugeInv /\ ClockInv /\ SandboxInv
  BY ClockAssumption
  DEF Init, PhaseInv, GaugeInv, ClockInv, SandboxInv, Returned, Waiting, Quiescing,
      Completing, Paused, Timed, ZeroTime
<1>4. QED
  BY <1>2, <1>3 DEF Inv

\* Every step preserves the invariant, whatever the provider does.
LEMMA InvStep == Inv /\ [Next]_vars => Inv'
<1> SUFFICES ASSUME Inv, [Next]_vars PROVE Inv'
  OBVIOUS
<1> USE ProviderAssumption, FlagsAssumption, ClockAssumption
    DEF Inv, TypeOK, PhaseInv, GaugeInv, ClockInv, SandboxInv, Returned, Durations,
        CreatePcs, SandboxStates, LcPcs, HandlerPcs, Waiting, Quiescing, Completing,
        Paused, Timed, Terminal, ZeroTime, net, box, record, loop, clock
<1>1. CASE CreateBegin
  <2>1. listening' \in BOOLEAN
    BY <1>1, Zenon DEF CreateBegin
  <2>2. QED
    BY <1>1, <2>1 DEF CreateBegin
<1>2. CASE RegisterRollout
  BY <1>2 DEF RegisterRollout
<1>3. CASE CreateSandbox
  BY <1>3 DEF CreateSandbox
<1>4. CASE StartSandbox
  BY <1>4 DEF StartSandbox
<1>5. CASE StartSandboxFails \/ UnregisterFailed \/ DestroyFailed \/ CloseFailed
  <2>1. registered' \in BOOLEAN /\ listening' \in BOOLEAN
    BY <1>5, Zenon DEF StartSandboxFails, UnregisterFailed, DestroyFailed, CloseFailed, net
  <2>2. QED
    BY <1>5, <2>1 DEF StartSandboxFails, UnregisterFailed, DestroyFailed, CloseFailed
<1>6. CASE RecordRollout
  BY <1>6 DEF RecordRollout
<1>7. CASE AgentWritesDone
  BY <1>7 DEF AgentWritesDone
<1>8. CASE AgentExits
  BY <1>8 DEF AgentExits
<1>9. CASE WaitForDoneReturns
  BY <1>9 DEF WaitForDoneReturns
<1>10. CASE Loop
  <2>1. cancelled' \in BOOLEAN /\ timedOut' \in BOOLEAN
    BY <1>10, Zenon DEF Loop
  <2>2. deadline' \in Int
    BY <1>10 DEF Loop, Remaining, Wrap
  <2>3. QED
    BY <1>10, <2>1, <2>2 DEF Loop
<1>11. CASE EnterSelect
  BY <1>11 DEF EnterSelect
<1>12. CASE StateSignalled
  <2>1. stateCh' \in BOOLEAN
    BY <1>12, Zenon DEF StateSignalled
  <2>2. QED
    BY <1>12, <2>1 DEF StateSignalled
<1>13. CASE SandboxDone
  BY <1>13 DEF SandboxDone
<1>14. CASE TimerFires
  BY <1>14 DEF TimerFires
<1>15. CASE UnregisterRollout
  <2>1. registered' \in BOOLEAN
    BY <1>15, Zenon DEF UnregisterRollout
  <2>2. QED
    BY <1>15, <2>1 DEF UnregisterRollout, At, AfterStep
<1>16. CASE CloseProxyServer
  <2>1. listening' \in BOOLEAN
    BY <1>16, Zenon DEF CloseProxyServer
  <2>2. QED
    BY <1>16, <2>1 DEF CloseProxyServer, At, AfterStep
<1>17. CASE Finalize
  BY <1>17 DEF Finalize, At, AfterStep
<1>18. CASE MarkTerminal
  BY <1>18 DEF MarkTerminal, At, AfterStep
<1>19. CASE LowerGauge
  BY <1>19 DEF LowerGauge, At, AfterStep
<1>20. CASE StopSandbox
  BY <1>20 DEF StopSandbox, Halted, At, AfterStep
<1>21. CASE DestroySandbox
  BY <1>21 DEF DestroySandbox, At, AfterStep
<1>22. CASE ApplyVerification
  BY <1>22 DEF ApplyVerification, At, AfterStep
<1>23. CASE RunVerify
  BY <1>23 DEF RunVerify, At, AfterStep
<1>24. CASE Tick
  BY <1>24 DEF Tick
<1>25. ASSUME NEW c \in Callers, StopRollout(c)
      PROVE  Inv'
  BY <1>25 DEF StopRollout, Goto
<1>26. ASSUME NEW c \in Callers, PauseRollout(c)
      PROVE  Inv'
  BY <1>26 DEF PauseRollout, Goto
<1>27. ASSUME NEW c \in Callers, ResumeRollout(c)
      PROVE  Inv'
  BY <1>27 DEF ResumeRollout, Goto
<1>28. ASSUME NEW c \in Callers, StopCall(c)
      PROVE  Inv'
  BY <1>28 DEF StopCall, Halted, Goto
<1>29. ASSUME NEW c \in Callers, PauseSignal(c)
      PROVE  Inv'
  BY <1>29 DEF PauseSignal, SignalState, Goto
<1>30. ASSUME NEW c \in Callers, PauseSucceeds(c)
      PROVE  Inv'
  BY <1>30 DEF PauseSucceeds, CanPause, Goto
<1>31. ASSUME NEW c \in Callers, PauseFails(c)
      PROVE  Inv'
  BY <1>31 DEF PauseFails, CanPause, Goto
<1>32. ASSUME NEW c \in Callers, PauseRollback(c)
      PROVE  Inv'
  BY <1>32 DEF PauseRollback, Goto
<1>33. ASSUME NEW c \in Callers, UnpauseSucceeds(c)
      PROVE  Inv'
  BY <1>33 DEF UnpauseSucceeds, CanUnpause, Goto
<1>34. ASSUME NEW c \in Callers, UnpauseFails(c)
      PROVE  Inv'
  BY <1>34 DEF UnpauseFails, CanUnpause, Goto
<1>35. ASSUME NEW c \in Callers, ResumeCommit(c)
      PROVE  Inv'
  BY <1>35 DEF ResumeCommit, CreditPause, Wrap, Since, Goto
<1>36. ASSUME NEW c \in Callers, Signal(c)
      PROVE  Inv'
  BY <1>36 DEF Signal, SignalState, Goto
<1>37. CASE UNCHANGED vars
  BY <1>37 DEF vars
<1>38. QED
  BY <1>1, <1>2, <1>3, <1>4, <1>5, <1>6, <1>7, <1>8, <1>9, <1>10, <1>11,
     <1>12, <1>13, <1>14, <1>15, <1>16, <1>17, <1>18, <1>19, <1>20, <1>21,
     <1>22, <1>23, <1>24, <1>25, <1>26, <1>27, <1>28, <1>29, <1>30, <1>31,
     <1>32, <1>33, <1>34, <1>35, <1>36, <1>37
     DEF Next, Creation, Agent, Lifecycle, Request, HandlerStep

\* The invariant holds in every state of every behaviour.
THEOREM InvInvariant == Spec => []Inv
<1>1. Init => Inv
  BY InvInit
<1>2. Inv /\ [Next]_vars => Inv'
  BY InvStep
<1>3. QED
  BY <1>1, <1>2, PTL DEF Spec

\* Every variable keeps its type. What has to be shown is that the gauge is
\* lowered exactly once (server.go:338 and 369-386) and that the durations
\* of the pause bookkeeping wrap into a time.Duration.
THEOREM TypeCorrect == Spec => []TypeOK
<1>1. Inv => TypeOK
  BY DEF Inv
<1>2. QED
  BY <1>1, InvInvariant, PTL

\* A rollout reported as finished takes no LLM traffic and has its trajectory
\* flushed (server.go:353-361 before markTerminal), in every mode.
THEOREM TerminalQuiescence == Spec => []TerminalIsQuiescent
<1>1. Inv => TerminalIsQuiescent
  BY DEF Inv, TypeOK, PhaseInv, TerminalIsQuiescent, LcPcs, Waiting, Quiescing, Completing,
         Paused, Timed
<1>2. QED
  BY <1>1, InvInvariant, PTL

\* Nobody destroys a sandbox that is awaited or verified, whatever Stop,
\* Pause and Resume do meanwhile and whichever provider calls fail.
THEOREM SandboxOutlivesVerifier == Spec => []NoWorkOnDestroyedSandbox
<1>1. Inv => NoWorkOnDestroyedSandbox
  BY DEF Inv, SandboxInv, NoWorkOnDestroyedSandbox
<1>2. QED
  BY <1>1, InvInvariant, PTL

-----------------------------------------------------------------------------
(* The channel of capacity one between the handlers and the lifecycle      *)
(* goroutine loses no transition that matters.                             *)

WakeInv == NoLostWakeup /\ PauseDisarmsTimer

\* Every step preserves it: whoever changes the status has still to signal it.
LEMMA WakeStep == Inv /\ WakeInv /\ [Next]_vars => WakeInv'
<1> SUFFICES ASSUME Inv, WakeInv, [Next]_vars PROVE WakeInv'
  OBVIOUS
<1> USE DEF Inv, TypeOK, PhaseInv, WakeInv, NoLostWakeup, PauseDisarmsTimer, Signalling,
            LcPcs, HandlerPcs, Waiting, Quiescing, Completing, Paused, Timed, Terminal,
            net, box, record, loop, clock
<1>1. CASE CreateBegin
  BY <1>1 DEF CreateBegin
<1>2. CASE RegisterRollout
  BY <1>2 DEF RegisterRollout
<1>3. CASE CreateSandbox
  BY <1>3 DEF CreateSandbox
<1>4. CASE StartSandbox
  BY <1>4 DEF StartSandbox
<1>5. CASE StartSandboxFails \/ UnregisterFailed \/ DestroyFailed \/ CloseFailed
  BY <1>5 DEF StartSandboxFails, UnregisterFailed, DestroyFailed, CloseFailed
<1>6. CASE RecordRollout
  BY <1>6 DEF RecordRollout
<1>7. CASE AgentWritesDone
  BY <1>7 DEF AgentWritesDone
<1>8. CASE AgentExits
  BY <1>8 DEF AgentExits
<1>9. CASE WaitForDoneReturns
  BY <1>9 DEF WaitForDoneReturns
<1>10. CASE Loop
  BY <1>10 DEF Loop, Remaining, Wrap
<1>11. CASE EnterSelect
  BY <1>11 DEF EnterSelect
<1>12. CASE StateSignalled
  BY <1>12 DEF StateSignalled
<1>13. CASE SandboxDone
  BY <1>13 DEF SandboxDone
<1>14. CASE TimerFires
  BY <1>14 DEF TimerFires
<1>15. CASE UnregisterRollout
  BY <1>15 DEF UnregisterRollout, At, AfterStep
<1>16. CASE CloseProxyServer
  BY <1>16 DEF CloseProxyServer, At, AfterStep
<1>17. CASE Finalize
  BY <1>17 DEF Finalize, At, AfterStep
<1>18. CASE MarkTerminal
  BY <1>18 DEF MarkTerminal, At, AfterStep
<1>19. CASE LowerGauge
  BY <1>19 DEF LowerGauge, At, AfterStep
<1>20. CASE StopSandbox
  BY <1>20 DEF StopSandbox, Halted, At, AfterStep
<1>21. CASE DestroySandbox
  BY <1>21 DEF DestroySandbox, At, AfterStep
<1>22. CASE ApplyVerification
  BY <1>22 DEF ApplyVerification, At, AfterStep
<1>23. CASE RunVerify
  BY <1>23 DEF RunVerify, At, AfterStep
<1>24. CASE Tick
  BY <1>24 DEF Tick
<1>25. ASSUME NEW c \in Callers, StopRollout(c)
      PROVE  WakeInv'
  BY <1>25 DEF StopRollout, Goto
<1>26. ASSUME NEW c \in Callers, PauseRollout(c)
      PROVE  WakeInv'
  BY <1>26 DEF PauseRollout, Goto
<1>27. ASSUME NEW c \in Callers, ResumeRollout(c)
      PROVE  WakeInv'
  BY <1>27 DEF ResumeRollout, Goto
<1>28. ASSUME NEW c \in Callers, StopCall(c)
      PROVE  WakeInv'
  BY <1>28 DEF StopCall, Halted, Goto
<1>29. ASSUME NEW c \in Callers, PauseSignal(c)
      PROVE  WakeInv'
  BY <1>29 DEF PauseSignal, SignalState, Goto
<1>30. ASSUME NEW c \in Callers, PauseSucceeds(c)
      PROVE  WakeInv'
  BY <1>30 DEF PauseSucceeds, CanPause, Goto
<1>31. ASSUME NEW c \in Callers, PauseFails(c)
      PROVE  WakeInv'
  BY <1>31 DEF PauseFails, CanPause, Goto
<1>32. ASSUME NEW c \in Callers, PauseRollback(c)
      PROVE  WakeInv'
  BY <1>32 DEF PauseRollback, Goto
<1>33. ASSUME NEW c \in Callers, UnpauseSucceeds(c)
      PROVE  WakeInv'
  BY <1>33 DEF UnpauseSucceeds, CanUnpause, Goto
<1>34. ASSUME NEW c \in Callers, UnpauseFails(c)
      PROVE  WakeInv'
  BY <1>34 DEF UnpauseFails, CanUnpause, Goto
<1>35. ASSUME NEW c \in Callers, ResumeCommit(c)
      PROVE  WakeInv'
  BY <1>35 DEF ResumeCommit, CreditPause, Wrap, Since, Goto
<1>36. ASSUME NEW c \in Callers, Signal(c)
      PROVE  WakeInv'
  BY <1>36 DEF Signal, SignalState, Goto
<1>37. CASE UNCHANGED vars
  BY <1>37 DEF vars
<1>38. QED
  BY <1>1, <1>2, <1>3, <1>4, <1>5, <1>6, <1>7, <1>8, <1>9, <1>10, <1>11,
     <1>12, <1>13, <1>14, <1>15, <1>16, <1>17, <1>18, <1>19, <1>20, <1>21,
     <1>22, <1>23, <1>24, <1>25, <1>26, <1>27, <1>28, <1>29, <1>30, <1>31,
     <1>32, <1>33, <1>34, <1>35, <1>36, <1>37
     DEF Next, Creation, Agent, Lifecycle, Request, HandlerStep

\* No resume and no pause goes unnoticed by waitForCompletion: after a resume
\* the rollout's timeout is armed again, after a pause it is disarmed
\* (server.go:396-432 against 436-441, 581, 589, 636).
THEOREM NoWakeupLost == Spec => [](NoLostWakeup /\ PauseDisarmsTimer)
<1>1. Init => WakeInv
  BY DEF Init, WakeInv, NoLostWakeup, PauseDisarmsTimer, Paused, Timed
<1>2. Inv /\ WakeInv /\ [Next]_vars => WakeInv'
  BY WakeStep
<1>3. WakeInv => NoLostWakeup /\ PauseDisarmsTimer
  BY DEF WakeInv
<1>4. QED
  BY <1>1, <1>2, <1>3, InvInvariant, PTL DEF Spec

\* Of these, the one about the timer: while the record says paused, a timer
\* that is still armed is about to be disarmed (server.go:395-434, 436-441).
THEOREM PausesDisarmTimers == Spec => []PauseDisarmsTimer
  BY NoWakeupLost, PTL

-----------------------------------------------------------------------------
(* With inline verification the report is in the record before the final   *)
(* status is.                                                              *)

RewardInv ==
  SyncVerify => /\ lc \in {"mark", "return", "done"} => report = verdict
                /\ finished => lc \in {"return", "done"}

\* Every step preserves it: the report is stored before the rollout is marked.
LEMMA RewardStep == Inv /\ RewardInv /\ [Next]_vars => RewardInv'
<1> SUFFICES ASSUME Inv, RewardInv, [Next]_vars PROVE RewardInv'
  OBVIOUS
<1> USE FlagsAssumption
    DEF Inv, TypeOK, PhaseInv, RewardInv, LcPcs, Waiting, Quiescing, Completing, Paused,
        Timed, net, box, record, loop, clock
<1>1. CASE CreateBegin
  BY <1>1 DEF CreateBegin
<1>2. CASE RegisterRollout
  BY <1>2 DEF RegisterRollout
<1>3. CASE CreateSandbox
  BY <1>3 DEF CreateSandbox
<1>4. CASE StartSandbox
  BY <1>4 DEF StartSandbox
<1>5. CASE StartSandboxFails \/ UnregisterFailed \/ DestroyFailed \/ CloseFailed
  BY <1>5 DEF StartSandboxFails, UnregisterFailed, DestroyFailed, CloseFailed
<1>6. CASE RecordRollout
  BY <1>6 DEF RecordRollout
<1>7. CASE AgentWritesDone
  BY <1>7 DEF AgentWritesDone
<1>8. CASE AgentExits
  BY <1>8 DEF AgentExits
<1>9. CASE WaitForDoneReturns
  BY <1>9 DEF WaitForDoneReturns
<1>10. CASE Loop
  BY <1>10 DEF Loop, Remaining, Wrap
<1>11. CASE EnterSelect
  BY <1>11 DEF EnterSelect
<1>12. CASE StateSignalled
  BY <1>12 DEF StateSignalled
<1>13. CASE SandboxDone
  BY <1>13 DEF SandboxDone
<1>14. CASE TimerFires
  BY <1>14 DEF TimerFires
<1>15. CASE UnregisterRollout
  BY <1>15 DEF UnregisterRollout, At, AfterStep
<1>16. CASE CloseProxyServer
  BY <1>16 DEF CloseProxyServer, At, AfterStep
<1>17. CASE Finalize
  BY <1>17 DEF Finalize, At, AfterStep
<1>18. CASE MarkTerminal
  BY <1>18 DEF MarkTerminal, At, AfterStep
<1>19. CASE LowerGauge
  BY <1>19 DEF LowerGauge, At, AfterStep
<1>20. CASE StopSandbox
  BY <1>20 DEF StopSandbox, Halted, At, AfterStep
<1>21. CASE DestroySandbox
  BY <1>21 DEF DestroySandbox, At, AfterStep
<1>22. CASE ApplyVerification
  BY <1>22 DEF ApplyVerification, At, AfterStep
<1>23. CASE RunVerify
  BY <1>23 DEF RunVerify, At, AfterStep
<1>24. CASE Tick
  BY <1>24 DEF Tick
<1>25. ASSUME NEW c \in Callers, StopRollout(c)
      PROVE  RewardInv'
  BY <1>25 DEF StopRollout, Goto
<1>26. ASSUME NEW c \in Callers, PauseRollout(c)
      PROVE  RewardInv'
  BY <1>26 DEF PauseRollout, Goto
<1>27. ASSUME NEW c \in Callers, ResumeRollout(c)
      PROVE  RewardInv'
  BY <1>27 DEF ResumeRollout, Goto
<1>28. ASSUME NEW c \in Callers, StopCall(c)
      PROVE  RewardInv'
  BY <1>28 DEF StopCall, Halted, Goto
<1>29. ASSUME NEW c \in Callers, PauseSignal(c)
      PROVE  RewardInv'
  BY <1>29 DEF PauseSignal, SignalState, Goto
<1>30. ASSUME NEW c \in Callers, PauseSucceeds(c)
      PROVE  RewardInv'
  BY <1>30 DEF PauseSucceeds, CanPause, Goto
<1>31. ASSUME NEW c \in Callers, PauseFails(c)
      PROVE  RewardInv'
  BY <1>31 DEF PauseFails, CanPause, Goto
<1>32. ASSUME NEW c \in Callers, PauseRollback(c)
      PROVE  RewardInv'
  BY <1>32 DEF PauseRollback, Goto
<1>33. ASSUME NEW c \in Callers, UnpauseSucceeds(c)
      PROVE  RewardInv'
  BY <1>33 DEF UnpauseSucceeds, CanUnpause, Goto
<1>34. ASSUME NEW c \in Callers, UnpauseFails(c)
      PROVE  RewardInv'
  BY <1>34 DEF UnpauseFails, CanUnpause, Goto
<1>35. ASSUME NEW c \in Callers, ResumeCommit(c)
      PROVE  RewardInv'
  BY <1>35 DEF ResumeCommit, CreditPause, Wrap, Since, Goto
<1>36. ASSUME NEW c \in Callers, Signal(c)
      PROVE  RewardInv'
  BY <1>36 DEF Signal, SignalState, Goto
<1>37. CASE UNCHANGED vars
  BY <1>37 DEF vars
<1>38. QED
  BY <1>1, <1>2, <1>3, <1>4, <1>5, <1>6, <1>7, <1>8, <1>9, <1>10, <1>11,
     <1>12, <1>13, <1>14, <1>15, <1>16, <1>17, <1>18, <1>19, <1>20, <1>21,
     <1>22, <1>23, <1>24, <1>25, <1>26, <1>27, <1>28, <1>29, <1>30, <1>31,
     <1>32, <1>33, <1>34, <1>35, <1>36, <1>37
     DEF Next, Creation, Agent, Lifecycle, Request, HandlerStep

\* With SyncVerify whoever sees a final status sees the reward as well
\* (server.go:363-370).
THEOREM SyncReward == Spec => []SyncRewardVisible
<1>1. Init => RewardInv
  BY DEF Init, RewardInv
<1>2. Inv /\ RewardInv /\ [Next]_vars => RewardInv'
  BY RewardStep
<1>3. RewardInv => SyncRewardVisible
  BY DEF RewardInv, SyncRewardVisible
<1>4. QED
  BY <1>1, <1>2, <1>3, InvInvariant, PTL DEF Spec

-----------------------------------------------------------------------------
(* Pauses of a docker sandbox whose calls fail only when they must. Who    *)
(* has paused the record and not yet the container, or has unpaused the    *)
(* container and not yet the record, holds the right to change the status: *)
(* the container's own refusal to pause or unpause twice hands it over.    *)

Holds(c) == hpc[c] \in {"pauseSignal", "pauseCall", "pauseRollback", "resumeCommit"}

HandoverInv ==
  /\ \A c, d \in Callers : Holds(c) /\ Holds(d) => c = d
  /\ sandbox = "frozen" => pausedAt # ZeroTime /\ \A c \in Callers : ~Holds(c)
  /\ status = "running" => /\ sandbox # "frozen"
                           /\ pausedAt = ZeroTime
                           /\ \A c \in Callers : ~Holds(c)
  /\ \A c \in Callers : Holds(c) => pausedAt # ZeroTime
  /\ status = "paused" /\ sandbox = "up" => \E c \in Callers : Holds(c)

\* What has been credited and what the open pause will be worth.
CreditInv ==
  /\ 0 <= pausedTotal
  /\ pausedTotal + (IF pausedAt = ZeroTime THEN 0 ELSE now - pausedAt) <= held

\* The provider of the theorem below.
Orderly == Provider = "docker" /\ ~ProviderFaults

\* Every step of such a rollout hands the right to change the status over.
LEMMA HandoverStep ==
  Orderly /\ Inv /\ HandoverInv /\ [Next]_vars => HandoverInv'
<1> SUFFICES ASSUME Orderly, Inv, HandoverInv, [Next]_vars PROVE HandoverInv'
  OBVIOUS
<1> USE DEF Orderly, Inv, TypeOK, PhaseInv, ClockInv, SandboxInv, HandoverInv, Holds,
            LcPcs, HandlerPcs, Waiting, Quiescing, Completing, Paused, Timed, Terminal,
            SandboxStates, ZeroTime, net, box, record, loop, clock
<1>1. CASE CreateBegin
  BY <1>1 DEF CreateBegin
<1>2. CASE RegisterRollout
  BY <1>2 DEF RegisterRollout
<1>3. CASE CreateSandbox
  BY <1>3 DEF CreateSandbox
<1>4. CASE StartSandbox
  BY <1>4 DEF StartSandbox
<1>5. CASE StartSandboxFails \/ UnregisterFailed \/ DestroyFailed \/ CloseFailed
  BY <1>5 DEF StartSandboxFails, UnregisterFailed, DestroyFailed, CloseFailed
<1>6. CASE RecordRollout
  BY <1>6 DEF RecordRollout
<1>7. CASE AgentWritesDone
  BY <1>7 DEF AgentWritesDone
<1>8. CASE AgentExits
  BY <1>8 DEF AgentExits
<1>9. CASE WaitForDoneReturns
  BY <1>9 DEF WaitForDoneReturns
<1>10. CASE Loop
  BY <1>10 DEF Loop, Remaining, Wrap
<1>11. CASE EnterSelect
  BY <1>11 DEF EnterSelect
<1>12. CASE StateSignalled
  BY <1>12 DEF StateSignalled
<1>13. CASE SandboxDone
  BY <1>13 DEF SandboxDone
<1>14. CASE TimerFires
  BY <1>14 DEF TimerFires
<1>15. CASE UnregisterRollout
  BY <1>15 DEF UnregisterRollout, At, AfterStep
<1>16. CASE CloseProxyServer
  BY <1>16 DEF CloseProxyServer, At, AfterStep
<1>17. CASE Finalize
  BY <1>17 DEF Finalize, At, AfterStep
<1>18. CASE MarkTerminal
  BY <1>18 DEF MarkTerminal, At, AfterStep
<1>19. CASE LowerGauge
  BY <1>19 DEF LowerGauge, At, AfterStep
<1>20. CASE StopSandbox
  BY <1>20 DEF StopSandbox, Halted, At, AfterStep
<1>21. CASE DestroySandbox
  BY <1>21 DEF DestroySandbox, At, AfterStep
<1>22. CASE ApplyVerification
  BY <1>22 DEF ApplyVerification, At, AfterStep
<1>23. CASE RunVerify
  BY <1>23 DEF RunVerify, At, AfterStep
<1>24. CASE Tick
  BY <1>24 DEF Tick
<1>25. ASSUME NEW c \in Callers, StopRollout(c)
      PROVE  HandoverInv'
  BY <1>25 DEF StopRollout, Goto
<1>26. ASSUME NEW c \in Callers, PauseRollout(c)
      PROVE  HandoverInv'
  BY <1>26 DEF PauseRollout, Goto
<1>27. ASSUME NEW c \in Callers, ResumeRollout(c)
      PROVE  HandoverInv'
  BY <1>27 DEF ResumeRollout, Goto
<1>28. ASSUME NEW c \in Callers, StopCall(c)
      PROVE  HandoverInv'
  BY <1>28 DEF StopCall, Halted, Goto
<1>29. ASSUME NEW c \in Callers, PauseSignal(c)
      PROVE  HandoverInv'
  BY <1>29 DEF PauseSignal, SignalState, Goto
<1>30. ASSUME NEW c \in Callers, PauseSucceeds(c)
      PROVE  HandoverInv'
  BY <1>30 DEF PauseSucceeds, CanPause, Goto
<1>31. ASSUME NEW c \in Callers, PauseFails(c)
      PROVE  HandoverInv'
  BY <1>31 DEF PauseFails, CanPause, Goto
<1>32. ASSUME NEW c \in Callers, PauseRollback(c)
      PROVE  HandoverInv'
  BY <1>32 DEF PauseRollback, Goto
<1>33. ASSUME NEW c \in Callers, UnpauseSucceeds(c)
      PROVE  HandoverInv'
  BY <1>33 DEF UnpauseSucceeds, CanUnpause, Goto
<1>34. ASSUME NEW c \in Callers, UnpauseFails(c)
      PROVE  HandoverInv'
  BY <1>34 DEF UnpauseFails, CanUnpause, Goto
<1>35. ASSUME NEW c \in Callers, ResumeCommit(c)
      PROVE  HandoverInv'
  BY <1>35 DEF ResumeCommit, CreditPause, Wrap, Since, Goto
<1>36. ASSUME NEW c \in Callers, Signal(c)
      PROVE  HandoverInv'
  BY <1>36 DEF Signal, SignalState, Goto
<1>37. CASE UNCHANGED vars
  BY <1>37 DEF vars
<1>38. QED
  BY <1>1, <1>2, <1>3, <1>4, <1>5, <1>6, <1>7, <1>8, <1>9, <1>10, <1>11,
     <1>12, <1>13, <1>14, <1>15, <1>16, <1>17, <1>18, <1>19, <1>20, <1>21,
     <1>22, <1>23, <1>24, <1>25, <1>26, <1>27, <1>28, <1>29, <1>30, <1>31,
     <1>32, <1>33, <1>34, <1>35, <1>36, <1>37
     DEF Next, Creation, Agent, Lifecycle, Request, HandlerStep

\* Every step preserves it: a pause is credited once, from an instant that is set.
LEMMA CreditStep ==
  Inv /\ HandoverInv /\ CreditInv /\ [Next]_vars => CreditInv'
<1> SUFFICES ASSUME Inv, HandoverInv, CreditInv, [Next]_vars PROVE CreditInv'
  OBVIOUS
<1> USE ClockAssumption
    DEF Inv, TypeOK, PhaseInv, ClockInv, HandoverInv, CreditInv, Holds,
        LcPcs, HandlerPcs, Durations, ZeroTime, net, box, record, loop, clock
<1>1. CASE CreateBegin
  BY <1>1 DEF CreateBegin
<1>2. CASE RegisterRollout
  BY <1>2 DEF RegisterRollout
<1>3. CASE CreateSandbox
  BY <1>3 DEF CreateSandbox
<1>4. CASE StartSandbox
  BY <1>4 DEF StartSandbox
<1>5. CASE StartSandboxFails \/ UnregisterFailed \/ DestroyFailed \/ CloseFailed
  BY <1>5 DEF StartSandboxFails, UnregisterFailed, DestroyFailed, CloseFailed
<1>6. CASE RecordRollout
  BY <1>6 DEF RecordRollout
<1>7. CASE AgentWritesDone
  BY <1>7 DEF AgentWritesDone
<1>8. CASE AgentExits
  BY <1>8 DEF AgentExits
<1>9. CASE WaitForDoneReturns
  BY <1>9 DEF WaitForDoneReturns
<1>10. CASE Loop
  BY <1>10 DEF Loop, Remaining, Wrap
<1>11. CASE EnterSelect
  BY <1>11 DEF EnterSelect
<1>12. CASE StateSignalled
  BY <1>12 DEF StateSignalled
<1>13. CASE SandboxDone
  BY <1>13 DEF SandboxDone
<1>14. CASE TimerFires
  BY <1>14 DEF TimerFires
<1>15. CASE UnregisterRollout
  BY <1>15 DEF UnregisterRollout, At, AfterStep
<1>16. CASE CloseProxyServer
  BY <1>16 DEF CloseProxyServer, At, AfterStep
<1>17. CASE Finalize
  BY <1>17 DEF Finalize, At, AfterStep
<1>18. CASE MarkTerminal
  BY <1>18 DEF MarkTerminal, At, AfterStep
<1>19. CASE LowerGauge
  BY <1>19 DEF LowerGauge, At, AfterStep
<1>20. CASE StopSandbox
  BY <1>20 DEF StopSandbox, Halted, At, AfterStep
<1>21. CASE DestroySandbox
  BY <1>21 DEF DestroySandbox, At, AfterStep
<1>22. CASE ApplyVerification
  BY <1>22 DEF ApplyVerification, At, AfterStep
<1>23. CASE RunVerify
  BY <1>23 DEF RunVerify, At, AfterStep
<1>24. CASE Tick
  BY <1>24 DEF Tick
<1>25. ASSUME NEW c \in Callers, StopRollout(c)
      PROVE  CreditInv'
  BY <1>25 DEF StopRollout, Goto
<1>26. ASSUME NEW c \in Callers, PauseRollout(c)
      PROVE  CreditInv'
  BY <1>26 DEF PauseRollout, Goto
<1>27. ASSUME NEW c \in Callers, ResumeRollout(c)
      PROVE  CreditInv'
  BY <1>27 DEF ResumeRollout, Goto
<1>28. ASSUME NEW c \in Callers, StopCall(c)
      PROVE  CreditInv'
  BY <1>28 DEF StopCall, Halted, Goto
<1>29. ASSUME NEW c \in Callers, PauseSignal(c)
      PROVE  CreditInv'
  BY <1>29 DEF PauseSignal, SignalState, Goto
<1>30. ASSUME NEW c \in Callers, PauseSucceeds(c)
      PROVE  CreditInv'
  BY <1>30 DEF PauseSucceeds, CanPause, Goto
<1>31. ASSUME NEW c \in Callers, PauseFails(c)
      PROVE  CreditInv'
  BY <1>31 DEF PauseFails, CanPause, Goto
<1>32. ASSUME NEW c \in Callers, PauseRollback(c)
      PROVE  CreditInv'
  BY <1>32 DEF PauseRollback, Goto
<1>33. ASSUME NEW c \in Callers, UnpauseSucceeds(c)
      PROVE  CreditInv'
  BY <1>33 DEF UnpauseSucceeds, CanUnpause, Goto
<1>34. ASSUME NEW c \in Callers, UnpauseFails(c)
      PROVE  CreditInv'
  BY <1>34 DEF UnpauseFails, CanUnpause, Goto
<1>35. ASSUME NEW c \in Callers, ResumeCommit(c)
      PROVE  CreditInv'
  BY <1>35 DEF ResumeCommit, CreditPause, Wrap, Since, Goto
<1>36. ASSUME NEW c \in Callers, Signal(c)
      PROVE  CreditInv'
  BY <1>36 DEF Signal, SignalState, Goto
<1>37. CASE UNCHANGED vars
  BY <1>37 DEF vars
<1>38. QED
  BY <1>1, <1>2, <1>3, <1>4, <1>5, <1>6, <1>7, <1>8, <1>9, <1>10, <1>11,
     <1>12, <1>13, <1>14, <1>15, <1>16, <1>17, <1>18, <1>19, <1>20, <1>21,
     <1>22, <1>23, <1>24, <1>25, <1>26, <1>27, <1>28, <1>29, <1>30, <1>31,
     <1>32, <1>33, <1>34, <1>35, <1>36, <1>37
     DEF Next, Creation, Agent, Lifecycle, Request, HandlerStep

\* Every step preserves it: a credit is followed by a signal that re-arms the timer.
LEMMA DeadlineStep ==
  Inv /\ CreditInv /\ DeadlineExcludesPauses /\ [Next]_vars => DeadlineExcludesPauses'
<1> SUFFICES ASSUME Inv, CreditInv, DeadlineExcludesPauses, [Next]_vars
             PROVE  DeadlineExcludesPauses'
  OBVIOUS
<1> USE ClockAssumption
    DEF Inv, TypeOK, PhaseInv, ClockInv, CreditInv, DeadlineExcludesPauses, Signalling,
        LcPcs, HandlerPcs, Waiting, Quiescing, Completing, Paused, Timed,
        Durations, ZeroTime, net, box, record, loop, clock
<1>1. CASE CreateBegin
  BY <1>1 DEF CreateBegin
<1>2. CASE RegisterRollout
  BY <1>2 DEF RegisterRollout
<1>3. CASE CreateSandbox
  BY <1>3 DEF CreateSandbox
<1>4. CASE StartSandbox
  BY <1>4 DEF StartSandbox
<1>5. CASE StartSandboxFails \/ UnregisterFailed \/ DestroyFailed \/ CloseFailed
  BY <1>5 DEF StartSandboxFails, UnregisterFailed, DestroyFailed, CloseFailed
<1>6. CASE RecordRollout
  BY <1>6 DEF RecordRollout
<1>7. CASE AgentWritesDone
  BY <1>7 DEF AgentWritesDone
<1>8. CASE AgentExits
  BY <1>8 DEF AgentExits
<1>9. CASE WaitForDoneReturns
  BY <1>9 DEF WaitForDoneReturns
<1>10. CASE Loop
  BY <1>10 DEF Loop, Remaining, Wrap
<1>11. CASE EnterSelect
  BY <1>11 DEF EnterSelect
<1>12. CASE StateSignalled
  BY <1>12 DEF StateSignalled
<1>13. CASE SandboxDone
  BY <1>13 DEF SandboxDone
<1>14. CASE TimerFires
  BY <1>14 DEF TimerFires
<1>15. CASE UnregisterRollout
  BY <1>15 DEF UnregisterRollout, At, AfterStep
<1>16. CASE CloseProxyServer
  BY <1>16 DEF CloseProxyServer, At, AfterStep
<1>17. CASE Finalize
  BY <1>17 DEF Finalize, At, AfterStep
<1>18. CASE MarkTerminal
  BY <1>18 DEF MarkTerminal, At, AfterStep
<1>19. CASE LowerGauge
  BY <1>19 DEF LowerGauge, At, AfterStep
<1>20. CASE StopSandbox
  BY <1>20 DEF StopSandbox, Halted, At, AfterStep
<1>21. CASE DestroySandbox
  BY <1>21 DEF DestroySandbox, At, AfterStep
<1>22. CASE ApplyVerification
  BY <1>22 DEF ApplyVerification, At, AfterStep
<1>23. CASE RunVerify
  BY <1>23 DEF RunVerify, At, AfterStep
<1>24. CASE Tick
  BY <1>24 DEF Tick
<1>25. ASSUME NEW c \in Callers, StopRollout(c)
      PROVE  DeadlineExcludesPauses'
  BY <1>25 DEF StopRollout, Goto
<1>26. ASSUME NEW c \in Callers, PauseRollout(c)
      PROVE  DeadlineExcludesPauses'
  BY <1>26 DEF PauseRollout, Goto
<1>27. ASSUME NEW c \in Callers, ResumeRollout(c)
      PROVE  DeadlineExcludesPauses'
  BY <1>27 DEF ResumeRollout, Goto
<1>28. ASSUME NEW c \in Callers, StopCall(c)
      PROVE  DeadlineExcludesPauses'
  BY <1>28 DEF StopCall, Halted, Goto
<1>29. ASSUME NEW c \in Callers, PauseSignal(c)
      PROVE  DeadlineExcludesPauses'
  BY <1>29 DEF PauseSignal, SignalState, Goto
<1>30. ASSUME NEW c \in Callers, PauseSucceeds(c)
      PROVE  DeadlineExcludesPauses'
  BY <1>30 DEF PauseSucceeds, CanPause, Goto
<1>31. ASSUME NEW c \in Callers, PauseFails(c)
      PROVE  DeadlineExcludesPauses'
  BY <1>31 DEF PauseFails, CanPause, Goto
<1>32. ASSUME NEW c \in Callers, PauseRollback(c)
      PROVE  DeadlineExcludesPauses'
  BY <1>32 DEF PauseRollback, Goto
<1>33. ASSUME NEW c \in Callers, UnpauseSucceeds(c)
      PROVE  DeadlineExcludesPauses'
  BY <1>33 DEF UnpauseSucceeds, CanUnpause, Goto
<1>34. ASSUME NEW c \in Callers, UnpauseFails(c)
      PROVE  DeadlineExcludesPauses'
  BY <1>34 DEF UnpauseFails, CanUnpause, Goto
<1>35. ASSUME NEW c \in Callers, ResumeCommit(c)
      PROVE  DeadlineExcludesPauses'
  BY <1>35 DEF ResumeCommit, CreditPause, Wrap, Since, Goto
<1>36. ASSUME NEW c \in Callers, Signal(c)
      PROVE  DeadlineExcludesPauses'
  BY <1>36 DEF Signal, SignalState, Goto
<1>37. CASE UNCHANGED vars
  BY <1>37 DEF vars
<1>38. QED
  BY <1>1, <1>2, <1>3, <1>4, <1>5, <1>6, <1>7, <1>8, <1>9, <1>10, <1>11,
     <1>12, <1>13, <1>14, <1>15, <1>16, <1>17, <1>18, <1>19, <1>20, <1>21,
     <1>22, <1>23, <1>24, <1>25, <1>26, <1>27, <1>28, <1>29, <1>30, <1>31,
     <1>32, <1>33, <1>34, <1>35, <1>36, <1>37
     DEF Next, Creation, Agent, Lifecycle, Request, HandlerStep

\* With the docker provider, and short of failing calls, the pause handlers
\* keep the record and the container together although they drop the lock
\* between the two, however many of them race; the timeout is credited with
\* the pauses and with nothing else (server.go:568-636).
THEOREM PausesAccounted ==
  Orderly => (Spec => [](StatusMatchesSandbox /\ NoPhantomPause /\ DeadlineExcludesPauses))
<1> SUFFICES ASSUME Orderly
             PROVE  Spec => [](StatusMatchesSandbox /\ NoPhantomPause /\ DeadlineExcludesPauses)
  OBVIOUS
<1> DEFINE PauseInv == HandoverInv /\ CreditInv /\ DeadlineExcludesPauses
<1>1. Init => PauseInv
  BY DEF Init, HandoverInv, Holds, CreditInv, DeadlineExcludesPauses, Timed, ZeroTime
<1>2. Inv /\ PauseInv /\ [Next]_vars => PauseInv'
  BY HandoverStep, CreditStep, DeadlineStep
<1>3. Inv /\ PauseInv => StatusMatchesSandbox /\ NoPhantomPause /\ DeadlineExcludesPauses
  BY DEF Inv, TypeOK, ClockInv, HandoverInv, Holds, CreditInv, StatusMatchesSandbox,
         RunningNotFrozen, PausedNotUp, Quiet, NoPhantomPause, Durations, ZeroTime
<1> HIDE DEF PauseInv
<1>4. QED
  BY <1>1, <1>2, <1>3, InvInvariant, PTL DEF Spec

\* Of these, the one about the credit: no time is taken off the timeout in which
\* the rollout was not paused (server.go:630-634).
THEOREM CreditsArePauses == Orderly => (Spec => []NoPhantomPause)
<1> SUFFICES ASSUME Orderly PROVE Spec => []NoPhantomPause
  OBVIOUS
<1>1. Spec => [](StatusMatchesSandbox /\ NoPhantomPause /\ DeadlineExcludesPauses)
  BY PausesAccounted
<1>2. QED
  BY <1>1, PTL

\* And the one about the timer: an armed deadline is the timeout later than the
\* start, the pauses not counted (server.go:413-423).
THEOREM DeadlinesExcludePauses == Orderly => (Spec => []DeadlineExcludesPauses)
<1> SUFFICES ASSUME Orderly PROVE Spec => []DeadlineExcludesPauses
  OBVIOUS
<1>1. Spec => [](StatusMatchesSandbox /\ NoPhantomPause /\ DeadlineExcludesPauses)
  BY PausesAccounted
<1>2. QED
  BY <1>1, PTL

-----------------------------------------------------------------------------
(* A final status is overwritten by handlers that were under way only.     *)

\* Of a rollout that finished beside no pause and no resume, none is under way
\* since: their handlers look for the statuses "running" and "paused".
StaysInv ==
  finished /\ ~overlapped => /\ status \in Terminal \cup {"stopped"}
                             /\ \A c \in Callers : hpc[c] \notin Changing

\* Every step preserves it: markTerminal notes who is under way, and nobody
\* enters later.
LEMMA StaysStep == Inv /\ StaysInv /\ [Next]_vars => StaysInv'
<1> SUFFICES ASSUME Inv, StaysInv, [Next]_vars PROVE StaysInv'
  OBVIOUS
<1> USE DEF StaysInv, Terminal, Changing
<1>1. CASE UNCHANGED <<status, finished, overlapped, hpc>>
  BY <1>1
<1>2. CASE RecordRollout
  <2>1. ~finished
    BY <1>2 DEF RecordRollout, Inv, PhaseInv
  <2>2. ~finished'
    BY <1>2, <2>1, Zenon DEF RecordRollout
  <2>3. QED
    BY <2>2
<1>3. CASE MarkTerminal
  <2>1. overlapped' = (\E c \in Callers : hpc[c] \in Changing)
    BY <1>3, Zenon DEF MarkTerminal
  <2>2. hpc' = hpc /\ status' \in Terminal
    BY <1>3 DEF MarkTerminal
  <2>3. QED
    BY <2>1, <2>2
<1>4. ASSUME NEW c \in Callers, Request(c)
      PROVE  StaysInv'
  BY <1>4 DEF Request, StopRollout, PauseRollout, ResumeRollout, Goto, record, clock, Inv,
     TypeOK
<1>5. ASSUME NEW c \in Callers, HandlerStep(c)
      PROVE  StaysInv'
  BY <1>5 DEF HandlerStep, StopCall, PauseSignal, PauseSucceeds, PauseFails, PauseRollback,
     UnpauseSucceeds, UnpauseFails, ResumeCommit, Signal, Goto, record, clock, Inv, TypeOK
<1>6. CASE Creation /\ ~RecordRollout
  BY <1>1, <1>6 DEF Creation, CreateBegin, RegisterRollout, CreateSandbox, StartSandbox,
     StartSandboxFails, UnregisterFailed, DestroyFailed, CloseFailed, record, clock
<1>7. CASE Lifecycle /\ ~MarkTerminal
  BY <1>1, <1>7 DEF Lifecycle, Loop, EnterSelect, StateSignalled, SandboxDone, TimerFires,
     UnregisterRollout, CloseProxyServer, Finalize, LowerGauge, StopSandbox, DestroySandbox,
     ApplyVerification, record, clock
<1>8. CASE Agent \/ WaitForDoneReturns \/ RunVerify \/ Tick \/ UNCHANGED vars
  BY <1>1, <1>8 DEF Agent, AgentWritesDone, AgentExits, WaitForDoneReturns, RunVerify, Tick,
     record, clock, vars
<1>9. QED
  BY <1>2, <1>3, <1>4, <1>5, <1>6, <1>7, <1>8 DEF Next

\* Whoever else pauses, resumes or stops, and whatever fails: the status that
\* markTerminal wrote (server.go:505-518) is replaced by a Stop or by a pause
\* or a resume that was between its critical sections at that moment
\* (server.go:580-590, 622-634), and by nothing else.
THEOREM FinalStatus == Spec => []FinalStatusStays
<1>1. Init => StaysInv
  BY DEF Init, StaysInv
<1>2. Inv /\ StaysInv /\ [Next]_vars => StaysInv'
  BY StaysStep
<1>3. StaysInv => FinalStatusStays
  BY DEF StaysInv, FinalStatusStays
<1>4. QED
  BY <1>1, <1>2, <1>3, InvInvariant, PTL DEF Spec

=============================================================================
