---------------------------- MODULE TrainingProofs ----------------------------
(***************************************************************************)
(* Theorems about what follows a training: the weights it sends to the     *)
(* inference backend (WeightSync), for every number of callers, versions   *)
(* and rollouts; the curve it draws on the Training tab (TrainingTab), for *)
(* every number of records and of broken connections; the curve the        *)
(* Command Center draws from the same file, however long; and the lists of *)
(* the other tabs of the App around that one, for every number of duels.   *)
(* The two specifications share no variable.                               *)
(***************************************************************************)
EXTENDS WeightSync, App, HooksProofs, FiniteSetTheorems, WellFoundedInduction

-----------------------------------------------------------------------------
(* WeightSync.                                                             *)

\* The lock is held exactly from the pause to the answer.
LockInv == \A c \in Callers :
  c \in holder <=> pc[c] \in {"pause", "refit", "continue", "commit"}

\* A caller that will record its version has seen the backend load it.
LoadedInv ==
  /\ \A c \in Callers :
       pc[c] = "commit" \/ (pc[c] = "continue" /\ ~failed[c]) => version[c] \in loaded
  /\ \A c \in Callers : pc[c] # "idle" => version[c] \in Versions
  /\ OnlyLoadedVersions

WeightInv == TypeOK /\ LockInv /\ LoadedInv

-----------------------------------------------------------------------------
\* Before the first update nothing is locked, loaded or recorded.
LEMMA WeightInit == Init => WeightInv
  BY DEF Init, WeightInv, TypeOK, Pcs, AllVersions, LockInv, LoadedInv, OnlyLoadedVersions

EngineOK == /\ paused \in BOOLEAN /\ served \in AllVersions
            /\ late \subseteq Operations /\ loaded \subseteq Versions

\* What the backend does keeps the types of its state and forgets no version
\* it has loaded.
LEMMA DoesEngine ==
  ASSUME TypeOK, NEW op \in Operations, Does(op)
  PROVE  /\ paused' \in BOOLEAN /\ served' \in AllVersions
         /\ loaded' \subseteq Versions /\ loaded \subseteq loaded'
<1> USE DEF TypeOK, Operations, Pause, Continue, Refit, AllVersions, Does
<1>1. CASE op = Pause
  <2>1. paused' = TRUE /\ UNCHANGED <<served, loaded>>
    BY <1>1
  <2>2. paused' \in BOOLEAN
    BY <2>1, Zenon
  <2>3. QED
    BY <2>1, <2>2
<1>2. CASE op = Continue
  <2>1. paused' = FALSE /\ UNCHANGED <<served, loaded>>
    BY <1>2
  <2>2. paused' \in BOOLEAN
    BY <2>1, Zenon
  <2>3. QED
    BY <2>1, <2>2
<1>3. ASSUME NEW v \in Versions, op = Refit(v)
      PROVE  /\ paused' \in BOOLEAN /\ served' \in AllVersions
             /\ loaded' \subseteq Versions /\ loaded \subseteq loaded'
  <2>1. paused' = paused /\ served' = v /\ loaded' = loaded \cup {v}
    BY <1>3
  <2>2. QED
    BY <2>1
<1>4. QED
  BY <1>1, <1>2, <1>3

\* A call that fails does so as well, wherever it failed.
LEMMA FailsEngine ==
  ASSUME TypeOK, NEW op \in Operations, NEW c \in Callers, Fails(c, op)
  PROVE  EngineOK' /\ loaded \subseteq loaded' /\ faulted' \in BOOLEAN
<1> faulted' \in BOOLEAN
  BY Zenon DEF Fails
<1>1. CASE UNCHANGED backend
  BY <1>1 DEF backend, EngineOK, TypeOK
<1>2. CASE Does(op) /\ UNCHANGED late
  BY <1>2, DoesEngine DEF EngineOK, TypeOK
<1>3. CASE late' = late \cup {op} /\ UNCHANGED <<paused, served, loaded>>
  BY <1>3 DEF EngineOK, TypeOK
<1>4. QED
  BY <1>1, <1>2, <1>3 DEF Fails

\* Every step preserves the invariant, also when calls fail or come late.
LEMMA WeightStep == WeightInv /\ [Next]_vars => WeightInv'
<1> SUFFICES ASSUME WeightInv, [Next]_vars PROVE WeightInv'
  OBVIOUS
<1> USE NoVersionAssumption
    DEF WeightInv, TypeOK, Pcs, AllVersions, Operations, Pause, Continue, Refit, LockInv,
        LoadedInv, OnlyLoadedVersions, caller, backend, engine, rollout, Goto, Unlock
<1>1. ASSUME NEW c \in Callers, Lock(c)
      PROVE  WeightInv'
  BY <1>1 DEF Lock, MayLock
<1>2. ASSUME NEW c \in Callers, PauseGeneration(c)
      PROVE  WeightInv'
  BY <1>2 DEF PauseGeneration, Succeeds, Does
<1>3. ASSUME NEW c \in Callers, PauseGenerationFails(c)
      PROVE  WeightInv'
  <2>1. Pause \in Operations
    OBVIOUS
  <2>2. EngineOK' /\ loaded \subseteq loaded' /\ faulted' \in BOOLEAN
    BY <1>3, <2>1, FailsEngine DEF PauseGenerationFails
  <2>3. QED
    BY <1>3, <2>2 DEF EngineOK, PauseGenerationFails, PauseError
<1>4. ASSUME NEW c \in Callers, UpdateWeightsFromDisk(c)
      PROVE  WeightInv'
  BY <1>4 DEF UpdateWeightsFromDisk, Succeeds, Does
<1>5. ASSUME NEW c \in Callers, UpdateWeightsFromDiskFails(c)
      PROVE  WeightInv'
  <2>1. version[c] \in Versions /\ Refit(version[c]) \in Operations
    BY <1>5 DEF UpdateWeightsFromDiskFails
  <2>2. EngineOK' /\ loaded \subseteq loaded' /\ faulted' \in BOOLEAN
    <3>1. CASE UNCHANGED engine
      BY <3>1 DEF EngineOK
    <3>2. CASE Fails(c, Refit(version[c]))
      BY <2>1, <3>2, FailsEngine
    <3>3. QED
      BY <1>5, <3>1, <3>2 DEF UpdateWeightsFromDiskFails
  <2>3. QED
    BY <1>5, <2>2 DEF EngineOK, UpdateWeightsFromDiskFails
<1>6. ASSUME NEW c \in Callers, ContinueGeneration(c)
      PROVE  WeightInv'
  BY <1>6 DEF ContinueGeneration, Respond, Succeeds, Does
<1>7. ASSUME NEW c \in Callers, ContinueGenerationFails(c)
      PROVE  WeightInv'
  <2>1. Continue \in Operations
    OBVIOUS
  <2>2. EngineOK' /\ loaded \subseteq loaded' /\ faulted' \in BOOLEAN
    BY <1>7, <2>1, FailsEngine DEF ContinueGenerationFails
  <2>3. QED
    BY <1>7, <2>2 DEF EngineOK, ContinueGenerationFails, Respond
<1>8. ASSUME NEW c \in Callers, Commit(c)
      PROVE  WeightInv'
  BY <1>8 DEF Commit
<1>9. ASSUME NEW c \in Callers, NEW v \in Versions, Call(c, v)
      PROVE  WeightInv'
  BY <1>9 DEF Call
<1>10. ASSUME NEW c \in Callers, Cancel(c)
       PROVE  WeightInv'
  BY <1>10 DEF Cancel
<1>11. CASE DoLate
  <2>1. PICK op \in late : Does(op) /\ late' = late \ {op}
    BY <1>11 DEF DoLate
  <2>2. /\ paused' \in BOOLEAN /\ served' \in AllVersions
        /\ loaded' \subseteq Versions /\ loaded \subseteq loaded'
    BY <2>1, DoesEngine
  <2>3. UNCHANGED <<caller, current, faulted, rollout>>
    BY <1>11 DEF DoLate
  <2>4. QED
    BY <2>1, <2>2, <2>3
<1>12. ASSUME NEW r \in Rollouts, StampRollout(r)
       PROVE  WeightInv'
  BY <1>12 DEF StampRollout
<1>13. CASE UNCHANGED vars
  BY <1>13 DEF vars
<1>14. QED
  BY <1>1, <1>2, <1>3, <1>4, <1>5, <1>6, <1>7, <1>8, <1>9, <1>10, <1>11, <1>12, <1>13
     DEF Next, Handler

\* The invariant holds in every state of every behaviour.
THEOREM WeightInvariant == Spec => []WeightInv
  BY WeightInit, WeightStep, PTL DEF Spec

\* At most one UpdateWeights is past its lock (server.go:656), and every
\* variable keeps its type.
THEOREM TypeCorrect == Spec => []TypeOK
<1>1. WeightInv => TypeOK
  BY DEF WeightInv
<1>2. QED
  BY <1>1, WeightInvariant, PTL

\* No rollout is ever attributed to weights that the backend has not loaded
\* (server.go:318, 671-677), whichever of the backend calls fail.
THEOREM VersionsLoaded == Spec => []OnlyLoadedVersions
<1>1. WeightInv => OnlyLoadedVersions
  BY DEF WeightInv, LoadedInv
<1>2. QED
  BY <1>1, WeightInvariant, PTL

-----------------------------------------------------------------------------
(* As long as nothing has failed: where the holder of the lock is tells    *)
(* how the backend and the recorded version stand to each other.           *)

SyncInv == ~faulted =>
  /\ late = {}
  /\ holder = {} => current = served /\ ~paused
  /\ \A c \in Callers :
       /\ pc[c] \in {"lock", "pause", "refit"} => ~failed[c]
       /\ pc[c] = "pause" => current = served
       /\ pc[c] = "refit" => current = served /\ paused
       /\ pc[c] = "continue" => /\ paused
                                /\ failed[c] => current = served
                                /\ ~failed[c] => served = version[c]
       /\ pc[c] = "commit" => served = version[c] /\ ~paused

\* A step without a failure preserves it; any other ends what it speaks of.
LEMMA SyncStep == WeightInv /\ SyncInv /\ [Next]_vars => SyncInv'
<1> SUFFICES ASSUME WeightInv, SyncInv, [Next]_vars PROVE SyncInv'
  OBVIOUS
<1> USE DEF WeightInv, TypeOK, Pcs, AllVersions, Pause, Continue, Refit, LockInv, SyncInv,
            caller, backend, engine, rollout, Goto, Unlock
<1>1. ASSUME NEW c \in Callers, Lock(c)
      PROVE  SyncInv'
  BY <1>1 DEF Lock, MayLock
<1>2. ASSUME NEW c \in Callers, PauseGeneration(c)
      PROVE  SyncInv'
  BY <1>2 DEF PauseGeneration, Succeeds, Does
<1>3. ASSUME NEW c \in Callers, PauseGenerationFails(c)
      PROVE  SyncInv'
  BY <1>3 DEF PauseGenerationFails, Fails
<1>4. ASSUME NEW c \in Callers, UpdateWeightsFromDisk(c)
      PROVE  SyncInv'
  <2>1. paused' = paused /\ served' = version[c] /\ UNCHANGED <<late, faulted>>
    BY <1>4 DEF UpdateWeightsFromDisk, Succeeds, Does
  <2>2. /\ pc[c] = "refit" /\ pc' = [pc EXCEPT ![c] = "continue"]
        /\ UNCHANGED <<version, failed, cancelled, holder, current, rollout>>
    BY <1>4 DEF UpdateWeightsFromDisk
  <2>3. \A d \in Callers \ {c} : pc[d] \notin {"pause", "refit", "continue", "commit"}
    BY <2>2
  <2>4. QED
    BY <2>1, <2>2, <2>3
<1>5. ASSUME NEW c \in Callers, UpdateWeightsFromDiskFails(c)
      PROVE  SyncInv'
  BY <1>5 DEF UpdateWeightsFromDiskFails, Fails
<1>6. ASSUME NEW c \in Callers, ContinueGeneration(c)
      PROVE  SyncInv'
  BY <1>6 DEF ContinueGeneration, Respond, Succeeds, Does
<1>7. ASSUME NEW c \in Callers, ContinueGenerationFails(c)
      PROVE  SyncInv'
  BY <1>7 DEF ContinueGenerationFails, Fails
<1>8. ASSUME NEW c \in Callers, Commit(c)
      PROVE  SyncInv'
  BY <1>8 DEF Commit
<1>9. ASSUME NEW c \in Callers, NEW v \in Versions, Call(c, v)
      PROVE  SyncInv'
  BY <1>9 DEF Call
<1>10. ASSUME NEW c \in Callers, Cancel(c)
       PROVE  SyncInv'
  BY <1>10 DEF Cancel
<1>11. CASE DoLate
  BY <1>11 DEF DoLate
<1>12. ASSUME NEW r \in Rollouts, StampRollout(r)
       PROVE  SyncInv'
  BY <1>12 DEF StampRollout
<1>13. CASE UNCHANGED vars
  BY <1>13 DEF vars
<1>14. QED
  BY <1>1, <1>2, <1>3, <1>4, <1>5, <1>6, <1>7, <1>8, <1>9, <1>10, <1>11, <1>12, <1>13
     DEF Next, Handler

\* As long as no call fails, an idle server's version is the one its backend
\* serves, however many updates raced (server.go:656-677).
THEOREM InSync == Spec => []RestingInSync
<1>1. Init => SyncInv
  BY DEF Init, SyncInv
<1>2. SyncInv => RestingInSync
  BY DEF SyncInv, RestingInSync, Resting
<1>3. QED
  BY <1>1, <1>2, SyncStep, WeightInvariant, PTL DEF Spec

\* As long as no call fails, weights are exchanged only while the backend does
\* not generate (server.go:659-662), so no reply mixes two versions.
THEOREM RefitsArePaused == Spec => RefitWhilePaused
<1>1. Init => SyncInv
  BY DEF Init, SyncInv
<1>2. WeightInv /\ SyncInv /\ [Next]_vars => [~faulted /\ served' # served => paused]_vars
  <2> SUFFICES ASSUME WeightInv, SyncInv, [Next]_vars, ~faulted, served' # served
               PROVE  paused
    OBVIOUS
  <2> USE DEF WeightInv, TypeOK, SyncInv, Pause, Continue, Refit, Goto, backend, engine, caller
  <2>1. ASSUME NEW c \in Callers, PauseGeneration(c) \/ ContinueGeneration(c) \/ Commit(c)
        PROVE  FALSE
    BY <2>1 DEF PauseGeneration, ContinueGeneration, Commit, Succeeds, Does
  <2>2. ASSUME NEW c \in Callers,
               UpdateWeightsFromDisk(c) \/ UpdateWeightsFromDiskFails(c)
        PROVE  paused
    BY <2>2 DEF UpdateWeightsFromDisk, UpdateWeightsFromDiskFails
  <2>3. ASSUME NEW c \in Callers, PauseGenerationFails(c) \/ ContinueGenerationFails(c)
        PROVE  FALSE
    BY <2>3 DEF PauseGenerationFails, ContinueGenerationFails, Fails, Does
  <2>4. ASSUME NEW c \in Callers, NEW v \in Versions, Lock(c) \/ Call(c, v) \/ Cancel(c)
        PROVE  FALSE
    BY <2>4 DEF Lock, Call, Cancel
  <2>5. CASE DoLate
    BY <2>5 DEF DoLate
  <2>6. ASSUME NEW r \in Rollouts, StampRollout(r)
        PROVE  FALSE
    BY <2>6 DEF StampRollout
  <2>7. QED
    BY <2>1, <2>2, <2>3, <2>4, <2>5, <2>6 DEF Next, Handler, vars, Lock, Cancel
<1>3. QED
  BY <1>1, <1>2, SyncStep, WeightInvariant, PTL DEF Spec, RefitWhilePaused

-----------------------------------------------------------------------------
(* The curve of the Training tab.                                          *)

\* Sequences of records, and what the hooks hold.
CurveShape ==
  /\ file \in Seq(Records) /\ wire \in Seq(Records) /\ history \in Seq(Records)
  /\ IsHook(api) /\ DOMAIN sse = {"url", "latest", "fresh", "connected"}
  /\ \A s \in Slots :
       api.requests[s].stage = "answered" => api.requests[s].answer \in Seq(Records)
  /\ posting # None => posting \in Records
  /\ sse.fresh => sse.latest \in Records

\* While the tab is not shown it keeps nothing, and nothing is sent to it before
\* it has subscribed. It asks for the whole file once.
Connected ==
  /\ phase # "none" => tab = "training"
  /\ phase = "none" => api = Mounted /\ sse = Closed /\ ~stale
  /\ phase \in {"none", "asked"} => wire = <<>>
  /\ phase \in {"none", "asked", "subscribed", "live"}
  /\ \A s, t \in InFlight(api) : s = t
  /\ InFlight(api) # {} => ~stale

\* A step on its way to the curve: in the stream, taken from it and not yet drawn,
\* or written and not yet told.
OnTheWay(step) ==
  \/ step \in StepsOf(wire)
  \/ sse.fresh /\ step = sse.latest.step
  \/ posting # None /\ step = posting.step

\* What the curve lacks is on its way.
NothingLost ==
  phase = "live" /\ ~missed /\ ~unposted =>
    \A step \in StepsOf(file) : step \in StepsOf(history) \/ OnTheWay(step)

\* The last record of the file is the last one on its way, or the curve ends with
\* its step.
LatestIsLast ==
  ~unposted =>
    /\ posting # None => file # <<>> /\ posting = Last(file)
    /\ posting = None /\ wire # <<>> => file # <<>> /\ EndsAs(wire, file)
    /\ phase = "live" /\ posting = None /\ wire = <<>> /\ file # <<>> =>
         IF sse.fresh THEN sse.latest.step = Last(file).step
         ELSE stale \/ EndsAs(history, file)

CurveInv == CurveShape /\ Connected /\ NothingLost /\ LatestIsLast

-----------------------------------------------------------------------------
\* A record at the end of others.
LEMMA StepsAppend ==
  ASSUME NEW s \in Seq(Records), NEW r \in Records
  PROVE  /\ Append(s, r) \in Seq(Records) /\ Append(s, r) # <<>>
         /\ Last(Append(s, r)) = r
         /\ \A step :
              step \in StepsOf(Append(s, r)) <=> step \in StepsOf(s) \/ step = r.step
<1>1. /\ Append(s, r) \in Seq(Records) /\ Len(s) \in Nat /\ DOMAIN s = 1..Len(s)
      /\ Len(Append(s, r)) = Len(s) + 1 /\ DOMAIN Append(s, r) = 1..(Len(s) + 1)
      /\ \A i \in 1..Len(s) : Append(s, r)[i] = s[i]
      /\ Append(s, r)[Len(s) + 1] = r
  OBVIOUS
<1>2. Len(s) + 1 \in 1..(Len(s) + 1) /\ \A i \in 1..Len(s) : i \in 1..(Len(s) + 1)
  BY <1>1
<1>3. \A i \in 1..(Len(s) + 1) : i \in 1..Len(s) \/ i = Len(s) + 1
  BY <1>1
<1>4. Append(s, r) # <<>>
  <2>1. Len(s) + 1 # 0 /\ Len(<<>>) = 0
    BY <1>1
  <2>2. QED
    BY <1>1, <2>1
<1>5. \A step : step \in StepsOf(Append(s, r)) <=> step \in StepsOf(s) \/ step = r.step
  <2> DEFINE a == Append(s, r)
             n == Len(s)
  <2>1. /\ DOMAIN s = 1..n /\ DOMAIN a = 1..(n + 1) /\ n + 1 \in 1..(n + 1)
        /\ \A i \in 1..n : a[i] = s[i] /\ i \in 1..(n + 1)
        /\ a[n + 1] = r
        /\ \A i \in 1..(n + 1) : i \in 1..n \/ i = n + 1
    BY <1>1, <1>2, <1>3
  <2> HIDE DEF a, n
  <2>2. \A step : step \in StepsOf(a) <=> step \in StepsOf(s) \/ step = r.step
    BY <2>1 DEF StepsOf
  <2>3. QED
    BY <2>2 DEF a
<1>6. QED
  BY <1>1, <1>4, <1>5 DEF Last

\* Records before others.
LEMMA StepsConcat ==
  ASSUME NEW s \in Seq(Records), NEW t \in Seq(Records)
  PROVE  /\ s \o t \in Seq(Records)
         /\ t # <<>> => s \o t # <<>> /\ Last(s \o t) = Last(t)
         /\ t = <<>> => s \o t = s
         /\ \A step :
              step \in StepsOf(s \o t) <=> step \in StepsOf(s) \/ step \in StepsOf(t)
<1> DEFINE c == s \o t
           m == Len(s)
           n == Len(t)
<1>1. /\ c \in Seq(Records) /\ m \in Nat /\ n \in Nat /\ Len(c) = m + n
      /\ DOMAIN s = 1..m /\ DOMAIN t = 1..n /\ DOMAIN c = 1..(m + n)
      /\ \A i \in 1..(m + n) : c[i] = IF i <= m THEN s[i] ELSE t[i - m]
  OBVIOUS
<1>2. t # <<>> => n # 0
  OBVIOUS
<1>3. t = <<>> => c = s
  OBVIOUS
<1> HIDE DEF c, m, n
<1>4. \A i \in 1..m : i \in 1..(m + n) /\ c[i] = s[i]
  BY <1>1
<1>5. \A i \in 1..n : m + i \in 1..(m + n) /\ c[m + i] = t[i]
  <2> TAKE i \in 1..n
  <2>1. m + i \in 1..(m + n) /\ ~(m + i <= m) /\ (m + i) - m = i
    BY <1>1
  <2>2. QED
    BY <1>1, <2>1
<1>6. \A i \in 1..(m + n) : i \in 1..m \/ \E j \in 1..n : i = m + j
  <2> TAKE i \in 1..(m + n)
  <2>1. i \in 1..m \/ (i - m \in 1..n /\ i = m + (i - m))
    BY <1>1
  <2>2. QED
    BY <2>1
<1>7. ASSUME NEW step
      PROVE  step \in StepsOf(c) <=> step \in StepsOf(s) \/ step \in StepsOf(t)
  <2>1. ASSUME NEW i \in 1..(m + n)
        PROVE  c[i].step \in StepsOf(s) \/ c[i].step \in StepsOf(t)
    <3>1. CASE i \in 1..m
      BY <1>1, <1>4, <3>1 DEF StepsOf
    <3>2. CASE \E j \in 1..n : i = m + j
      BY <1>1, <1>5, <3>2 DEF StepsOf
    <3>3. QED
      BY <1>6, <3>1, <3>2
  <2>2. \A i \in 1..m : s[i].step \in StepsOf(c)
    BY <1>1, <1>4 DEF StepsOf
  <2>3. \A i \in 1..n : t[i].step \in StepsOf(c)
    BY <1>1, <1>5 DEF StepsOf
  <2>4. QED
    BY <1>1, <2>1, <2>2, <2>3 DEF StepsOf
<1>8. ASSUME t # <<>>
      PROVE  c # <<>> /\ Last(c) = Last(t)
  <2>1. n \in 1..n /\ m + n # 0
    BY <1>1, <1>2, <1>8
  <2>2. Last(c) = c[m + n] /\ Last(t) = t[n]
    BY <1>1 DEF Last, n
  <2>3. c # <<>>
    BY <1>1, <2>1
  <2>4. QED
    BY <1>5, <2>1, <2>2, <2>3
<1>9. QED
  BY <1>1, <1>3, <1>7, <1>8 DEF c

\* The first of some records is taken.
LEMMA StepsTail ==
  ASSUME NEW s \in Seq(Records), s # <<>>
  PROVE  /\ Head(s) \in Records /\ Tail(s) \in Seq(Records)
         /\ Tail(s) # <<>> => Last(Tail(s)) = Last(s)
         /\ Tail(s) = <<>> => Last(s) = Head(s)
         /\ \A step :
              step \in StepsOf(s) <=> step \in StepsOf(Tail(s)) \/ step = Head(s).step
<1> DEFINE t == Tail(s)
           n == Len(s)
<1>0. n \in Nat /\ n # 0 /\ DOMAIN s = 1..n
  OBVIOUS
<1>a. t \in Seq(Records) /\ Len(t) = n - 1 /\ DOMAIN t = 1..(n - 1)
  BY <1>0
<1>b. Head(s) = s[1] /\ Head(s) \in Records
  BY <1>0
<1>c. \A i \in 1..(n - 1) : t[i] = s[i + 1]
  BY <1>0
<1>d. Len(t) = 0 <=> t = <<>>
  <2>1. \A u \in Seq(Records) : Len(u) = 0 <=> u = <<>>
    OBVIOUS
  <2> HIDE DEF t
  <2>2. QED
    BY <1>a, <2>1
<1>1. /\ n \in Nat \ {0} /\ t \in Seq(Records) /\ Len(t) = n - 1 /\ Head(s) = s[1]
      /\ DOMAIN s = 1..n /\ DOMAIN t = 1..(n - 1) /\ Head(s) \in Records
      /\ \A i \in 1..(n - 1) : t[i] = s[i + 1]
      /\ t = <<>> <=> Len(t) = 0
  BY <1>0, <1>a, <1>b, <1>c, <1>d
<1>2. Last(s) = s[n] /\ Last(t) = t[n - 1]
  BY <1>1 DEF Last
<1> HIDE DEF t, n
<1>3. \A i \in 1..(n - 1) : i + 1 \in 1..n
  BY <1>1
<1>4. ASSUME NEW i \in 1..n
      PROVE  i = 1 \/ \E j \in 1..(n - 1) : i = j + 1
  <2>1. i = 1 \/ (i - 1 \in 1..(n - 1) /\ i = (i - 1) + 1)
    BY <1>1
  <2>2. QED
    BY <2>1
<1>5. ASSUME NEW step
      PROVE  step \in StepsOf(s) <=> step \in StepsOf(t) \/ step = s[1].step
  <2>1. \A i \in 1..n : s[i].step = s[1].step \/ s[i].step \in StepsOf(t)
    <3> TAKE i \in 1..n
    <3>1. CASE i = 1
      BY <3>1
    <3>2. CASE \E j \in 1..(n - 1) : i = j + 1
      BY <1>1, <3>2 DEF StepsOf
    <3>3. QED
      BY <1>4, <3>1, <3>2
  <2>2. \A i \in 1..(n - 1) : t[i].step \in StepsOf(s)
    BY <1>1, <1>3 DEF StepsOf
  <2>3. 1 \in 1..n
    BY <1>1
  <2>4. QED
    BY <1>1, <2>1, <2>2, <2>3 DEF StepsOf
<1>6. t # <<>> => Last(t) = Last(s)
  <2>1. n - 1 # 0 => n - 1 \in 1..(n - 1) /\ (n - 1) + 1 = n
    BY <1>1
  <2>2. QED
    BY <1>1, <1>2, <2>1
<1>7. t = <<>> => n = 1
  BY <1>1
<1>8. QED
  BY <1>1, <1>2, <1>5, <1>6, <1>7 DEF t

\* A record extends the curve, or the curve ends with its step.
LEMMA StepsExtend ==
  ASSUME NEW h \in Seq(Records), NEW r \in Records
  PROVE  /\ Extend(h, r) \in Seq(Records) /\ Extend(h, r) # <<>>
         /\ Last(Extend(h, r)).step = r.step
         /\ \A step :
              step \in StepsOf(Extend(h, r)) <=> step \in StepsOf(h) \/ step = r.step
<1>1. CASE h # <<>> /\ Last(h).step = r.step
  <2>1. Len(h) \in DOMAIN h
    BY <1>1
  <2>2. r.step \in StepsOf(h)
    BY <1>1, <2>1 DEF StepsOf, Last
  <2>3. QED
    BY <1>1, <2>2 DEF Extend
<1>2. CASE ~(h # <<>> /\ Last(h).step = r.step)
  <2>1. Extend(h, r) = Append(h, r)
    BY <1>2 DEF Extend
  <2>2. QED
    BY <2>1, StepsAppend
<1>3. QED
  BY <1>1, <1>2

\* Nothing is written, asked for or drawn.
LEMMA CurveInit == AppInit => CurveInv
<1> SUFFICES ASSUME AppInit PROVE CurveInv
  OBVIOUS
<1>1. <<>> \in Seq(Records)
  OBVIOUS
<1>2. CurveShape
  BY <1>1 DEF AppInit, TrainingInit, CurveShape, IsHook, Mounted, Idle, Closed
<1>3. InFlight(api) = {}
  BY DEF AppInit, TrainingInit, InFlight, Mounted, Idle
<1>4. Connected
  BY <1>3 DEF AppInit, TrainingInit, Connected
<1>5. QED
  BY <1>2, <1>4 DEF CurveInv, NothingLost, LatestIsLast, AppInit, TrainingInit

-----------------------------------------------------------------------------
(* The steps of the service and of its trainer.                            *)

LEMMA LineIsRecord ==
  ASSUME CurveShape, NEW step \in Steps, AddLine(step)
  PROVE  Line(step) \in Records /\ Line(step) # None /\ Line(step).step = step
<1>1. Len(file) \in Nat /\ Len(file) < MaxRecords
  BY DEF CurveShape, AddLine
<1>2. Len(file) + 1 \in 1..MaxRecords
  BY <1>1, BoundAssumption
<1>3. QED
  BY <1>2, NoneAssumption DEF Line, Records

LEMMA PostStep ==
  ASSUME CurveInv, NEW step \in Steps, Post(step), UNCHANGED shell
  PROVE  CurveInv'
<1>0. /\ CurveShape /\ Connected /\ NothingLost /\ LatestIsLast
      /\ Line(step) \in Records /\ Line(step) # None /\ posting = None
      /\ posting' = Line(step) /\ file' = Append(file, Line(step))
      /\ UNCHANGED <<unposted, phase, wire, api, sse, history, missed, stale, tab>>
  BY LineIsRecord DEF CurveInv, Post, AddLine, monitor, shell
<1>1. /\ file' \in Seq(Records) /\ file' # <<>> /\ Last(file') = posting'
      /\ \A s : s \in StepsOf(file') <=> s \in StepsOf(file) \/ s = posting'.step
  BY <1>0, StepsAppend DEF CurveShape
<1>2. CurveShape'
  BY <1>0, <1>1 DEF CurveShape
<1>3. Connected'
  BY <1>0 DEF Connected
<1>4. NothingLost'
  BY <1>0, <1>1 DEF NothingLost, OnTheWay
<1>5. LatestIsLast'
  BY <1>0, <1>1 DEF LatestIsLast
<1>6. QED
  BY <1>2, <1>3, <1>4, <1>5 DEF CurveInv

LEMMA WriteStep ==
  ASSUME CurveInv, NEW step \in Steps, Write(step), UNCHANGED shell
  PROVE  CurveInv'
<1>0. /\ CurveShape /\ Connected /\ Line(step) \in Records
      /\ unposted' /\ file' = Append(file, Line(step))
      /\ UNCHANGED <<posting, phase, wire, api, sse, history, missed, stale, tab>>
  BY LineIsRecord DEF CurveInv, Write, AddLine, monitor, shell
<1>1. file' \in Seq(Records)
  BY <1>0, StepsAppend DEF CurveShape
<1>2. CurveShape'
  BY <1>0, <1>1 DEF CurveShape
<1>3. Connected'
  BY <1>0 DEF Connected
<1>4. NothingLost' /\ LatestIsLast'
  BY <1>0 DEF NothingLost, LatestIsLast
<1>5. QED
  BY <1>2, <1>3, <1>4 DEF CurveInv

LEMMA NotifyStep ==
  ASSUME CurveInv, Notify, UNCHANGED shell
  PROVE  CurveInv'
<1>0. /\ CurveShape /\ Connected /\ NothingLost /\ LatestIsLast
      /\ posting # None /\ posting \in Records /\ posting' = None
      /\ wire' = IF phase \in {"subscribed", "live"} THEN Append(wire, posting) ELSE wire
      /\ UNCHANGED <<file, unposted, phase, api, sse, history, missed, stale, tab>>
  BY DEF CurveInv, CurveShape, Notify, shell
<1>1. phase \in {"subscribed", "live"} =>
        /\ wire' \in Seq(Records) /\ wire' # <<>> /\ Last(wire') = posting
        /\ \A s : s \in StepsOf(wire') <=> s \in StepsOf(wire) \/ s = posting.step
  BY <1>0, StepsAppend DEF CurveShape
<1>2. phase \notin {"subscribed", "live"} => wire' = <<>> /\ wire' \in Seq(Records)
  BY <1>0 DEF Connected, CurveShape
<1>3. CurveShape'
  BY <1>0, <1>1, <1>2 DEF CurveShape
<1>4. Connected'
  BY <1>0, <1>2 DEF Connected
<1>5. NothingLost'
  BY <1>0, <1>1 DEF NothingLost, OnTheWay
<1>6. LatestIsLast'
  <2>1. ~unposted => file # <<>> /\ posting = Last(file)
    BY <1>0 DEF LatestIsLast
  <2>2. QED
    BY <1>0, <1>1, <1>2, <2>1 DEF LatestIsLast, EndsAs
<1>7. QED
  BY <1>3, <1>4, <1>5, <1>6 DEF CurveInv

-----------------------------------------------------------------------------
(* The steps of the connection.                                            *)

LEMMA SubscribeStep ==
  ASSUME CurveInv, Subscribe, UNCHANGED shell
  PROVE  CurveInv'
<1>0. /\ CurveShape /\ Connected /\ NothingLost /\ LatestIsLast
      /\ phase = "asked" /\ phase' = "subscribed" /\ sse' = OnOpen(sse)
      /\ UNCHANGED <<file, posting, unposted, wire, api, history, missed, stale, tab>>
  BY DEF CurveInv, Subscribe, server, shell
<1>1. CurveShape'
  BY <1>0, StreamFields DEF CurveShape
<1>2. Connected'
  BY <1>0 DEF Connected
<1>3. NothingLost' /\ LatestIsLast'
  BY <1>0 DEF NothingLost, LatestIsLast
<1>4. QED
  BY <1>1, <1>2, <1>3 DEF CurveInv

LEMMA ReplayStep ==
  ASSUME CurveInv, Replay, UNCHANGED shell
  PROVE  CurveInv'
<1>0. /\ CurveShape /\ Connected /\ LatestIsLast
      /\ phase = "subscribed" /\ phase' = "live" /\ wire' = file \o wire
      /\ unposted' = (unposted /\ ~(wire = <<>> /\ posting = None))
      /\ UNCHANGED <<file, posting, api, sse, history, stale, tab>>
  BY DEF CurveInv, Replay, shell
<1>1. /\ wire' \in Seq(Records)
      /\ wire # <<>> => wire' # <<>> /\ Last(wire') = Last(wire)
      /\ wire = <<>> => wire' = file
      /\ \A s : s \in StepsOf(wire') <=> s \in StepsOf(file) \/ s \in StepsOf(wire)
  BY <1>0, StepsConcat DEF CurveShape
<1>2. CurveShape'
  BY <1>0, <1>1 DEF CurveShape
<1>3. Connected'
  BY <1>0 DEF Connected
<1>4. NothingLost'
  BY <1>0, <1>1 DEF NothingLost, OnTheWay
<1>5. LatestIsLast'
  <2>1. ~unposted' => ~unposted \/ (wire = <<>> /\ posting = None)
    BY <1>0
  <2>2. posting # None /\ ~unposted' => file # <<>> /\ posting = Last(file)
    BY <1>0, <2>1 DEF LatestIsLast
  <2>3. ASSUME ~unposted', posting = None, wire' # <<>>
        PROVE  file # <<>> /\ EndsAs(wire', file)
    <3>1. CASE wire = <<>>
      BY <1>1, <2>3, <3>1 DEF EndsAs
    <3>2. CASE wire # <<>>
      <4>1. ~unposted /\ file # <<>> /\ EndsAs(wire, file)
        BY <1>0, <2>1, <2>3, <3>2 DEF LatestIsLast
      <4>2. QED
        BY <1>1, <3>2, <4>1 DEF EndsAs
    <3>3. QED
      BY <3>1, <3>2
  <2>4. wire' = <<>> => file = <<>>
    BY <1>1
  <2>5. QED
    BY <1>0, <2>2, <2>3, <2>4 DEF LatestIsLast
<1>6. QED
  BY <1>2, <1>3, <1>4, <1>5 DEF CurveInv

LEMMA DisconnectStep ==
  ASSUME CurveInv, Disconnect, UNCHANGED shell
  PROVE  CurveInv'
<1>0. /\ CurveShape /\ Connected /\ LatestIsLast
      /\ phase # "none" /\ phase' = "asked" /\ wire' = <<>> /\ sse' = OnError(sse)
      /\ UNCHANGED <<file, posting, unposted, api, history, missed, stale, tab>>
  BY DEF CurveInv, Disconnect, server, shell
<1>1. CurveShape'
  <2>1. <<>> \in Seq(Records)
    OBVIOUS
  <2>2. QED
    BY <1>0, <2>1, StreamFields DEF CurveShape
<1>2. Connected'
  BY <1>0 DEF Connected
<1>3. NothingLost' /\ LatestIsLast'
  BY <1>0 DEF NothingLost, LatestIsLast
<1>4. QED
  BY <1>1, <1>2, <1>3 DEF CurveInv

LEMMA RestartStep ==
  ASSUME CurveInv, Restart, UNCHANGED shell
  PROVE  CurveInv'
<1>0. /\ CurveShape /\ Connected
      /\ posting' = None /\ wire' = <<>>
      /\ phase' = IF phase = "none" THEN "none" ELSE "asked"
      /\ sse' = IF phase = "none" THEN sse ELSE OnError(sse)
      /\ UNCHANGED <<file, unposted, api, history, missed, stale, tab>>
  BY DEF CurveInv, Restart, shell
<1>1. CurveShape'
  <2>1. <<>> \in Seq(Records)
    OBVIOUS
  <2>2. QED
    BY <1>0, <2>1, StreamFields DEF CurveShape
<1>2. Connected'
  BY <1>0 DEF Connected
<1>3. NothingLost' /\ LatestIsLast'
  BY <1>0 DEF NothingLost, LatestIsLast
<1>4. QED
  BY <1>1, <1>2, <1>3 DEF CurveInv

-----------------------------------------------------------------------------
(* The steps of the tab.                                                   *)

LEMMA MessageArrivesStep ==
  ASSUME CurveInv, MessageArrives, UNCHANGED shell
  PROVE  CurveInv'
<1>0. /\ CurveShape /\ Connected /\ NothingLost /\ LatestIsLast
      /\ phase = "live" /\ wire # <<>> /\ wire' = Tail(wire)
      /\ sse' = OnMessage(sse, Head(wire)) /\ missed' = (missed \/ sse.fresh)
      /\ UNCHANGED <<file, posting, unposted, phase, api, history, stale, tab>>
  BY DEF CurveInv, MessageArrives, server, shell
<1>1. /\ Head(wire) \in Records /\ wire' \in Seq(Records)
      /\ wire' # <<>> => Last(wire') = Last(wire)
      /\ wire' = <<>> => Last(wire) = Head(wire)
      /\ \A s : s \in StepsOf(wire) <=> s \in StepsOf(wire') \/ s = Head(wire).step
  BY <1>0, StepsTail DEF CurveShape
<1>2. /\ DOMAIN sse' = {"url", "latest", "fresh", "connected"}
      /\ sse'.fresh /\ sse'.latest = Head(wire)
  <2>1. DOMAIN sse = {"url", "latest", "fresh", "connected"}
    BY <1>0 DEF CurveShape
  <2>2. QED
    BY <1>0, <2>1 DEF OnMessage
<1>3. CurveShape'
  BY <1>0, <1>1, <1>2 DEF CurveShape
<1>4. Connected'
  BY <1>0 DEF Connected
<1>5. NothingLost'
  BY <1>0, <1>1, <1>2 DEF NothingLost, OnTheWay
<1>6. LatestIsLast'
  BY <1>0, <1>1, <1>2 DEF LatestIsLast, EndsAs
<1>7. QED
  BY <1>3, <1>4, <1>5, <1>6 DEF CurveInv

LEMMA RenderStep ==
  ASSUME CurveInv, Render, UNCHANGED shell
  PROVE  CurveInv'
<1>0. /\ CurveShape /\ Connected /\ NothingLost /\ LatestIsLast
      /\ sse.fresh /\ sse' = Rendered(sse) /\ history' = Extend(history, sse.latest)
      /\ ~stale'
      /\ UNCHANGED <<file, posting, unposted, phase, wire, api, missed, tab>>
  BY DEF CurveInv, Render, server, shell
<1>1. /\ history' \in Seq(Records) /\ history' # <<>>
      /\ Last(history').step = sse.latest.step
      /\ \A s : s \in StepsOf(history') <=> s \in StepsOf(history) \/ s = sse.latest.step
  BY <1>0, StepsExtend DEF CurveShape
<1>2. DOMAIN sse' = {"url", "latest", "fresh", "connected"} /\ ~sse'.fresh
  BY <1>0, StreamFields DEF CurveShape
<1>3. CurveShape'
  BY <1>0, <1>1, <1>2 DEF CurveShape
<1>4. Connected'
  <2>1. phase # "none"
    BY <1>0 DEF Connected, Closed
  <2>2. QED
    BY <1>0, <2>1 DEF Connected
<1>5. NothingLost'
  BY <1>0, <1>1, <1>2 DEF NothingLost, OnTheWay
<1>6. LatestIsLast'
  BY <1>0, <1>1, <1>2 DEF LatestIsLast, EndsAs
<1>7. QED
  BY <1>3, <1>4, <1>5, <1>6 DEF CurveInv

LEMMA ServeStatusStep ==
  ASSUME CurveInv, NEW s \in Slots, ServeStatus(s), UNCHANGED shell
  PROVE  CurveInv'
<1>0. /\ CurveShape /\ Connected /\ NothingLost /\ LatestIsLast
      /\ api.requests[s].stage = "sent" /\ api' = Answer(api, s, file)
      /\ UNCHANGED <<file, posting, unposted, phase, wire, sse, history, missed, stale, tab>>
  BY DEF CurveInv, ServeStatus, server, shell
<1>1. /\ IsHook(api') /\ InFlight(api') = InFlight(api)
      /\ \A r \in Slots \ {s} : api'.requests[r] = api.requests[r]
      /\ api'.requests[s].answer = file
  BY <1>0, RequestServed DEF CurveShape
<1>2. CurveShape'
  BY <1>0, <1>1 DEF CurveShape
<1>3. Connected'
  <2>1. phase # "none"
    BY <1>0, MountedIdle DEF Connected
  <2>2. QED
    BY <1>0, <1>1, <2>1 DEF Connected
<1>4. NothingLost' /\ LatestIsLast'
  BY <1>0 DEF NothingLost, OnTheWay, LatestIsLast
<1>5. QED
  BY <1>2, <1>3, <1>4 DEF CurveInv

LEMMA StatusFailsStep ==
  ASSUME CurveInv, NEW s \in Slots, StatusFails(s), UNCHANGED shell
  PROVE  CurveInv'
<1>0. /\ CurveShape /\ Connected /\ NothingLost /\ LatestIsLast
      /\ api.requests[s].stage = "sent" /\ api' = Reject(api, s)
      /\ UNCHANGED <<file, posting, unposted, phase, wire, sse, history, missed, stale, tab>>
  BY DEF CurveInv, StatusFails, server, shell
<1>1. /\ IsHook(api') /\ InFlight(api') = InFlight(api) \ {s}
      /\ \A r \in Slots \ {s} : api'.requests[r] = api.requests[r]
      /\ api'.requests[s].stage = "idle"
  BY <1>0, RequestOver DEF CurveShape, Idle
<1>2. CurveShape'
  BY <1>0, <1>1 DEF CurveShape
<1>3. Connected'
  <2>1. phase # "none"
    BY <1>0, MountedIdle DEF Connected
  <2>2. QED
    BY <1>0, <1>1, <2>1 DEF Connected
<1>4. NothingLost' /\ LatestIsLast'
  BY <1>0 DEF NothingLost, OnTheWay, LatestIsLast
<1>5. QED
  BY <1>2, <1>3, <1>4 DEF CurveInv

\* The curve was not stale: the tab asks for the file once.
LEMMA StatusArrivesStep ==
  ASSUME CurveInv, NEW s \in Slots, StatusArrives(s), UNCHANGED shell
  PROVE  CurveInv'
<1>0. /\ CurveShape /\ Connected /\ NothingLost /\ LatestIsLast
      /\ api.requests[s].stage = "answered" /\ api' = Resolve(api, s)
      /\ history' = api.requests[s].answer
      /\ missed' = (missed \/ ~(StepsOf(history) \subseteq StepsOf(history')))
      /\ stale' = (history # <<>> /\ ~EndsAs(history', history))
      /\ UNCHANGED <<file, posting, unposted, phase, wire, sse, tab>>
  BY DEF CurveInv, StatusArrives, server, shell
<1>1. /\ IsHook(api') /\ InFlight(api') = InFlight(api) \ {s}
      /\ \A r \in Slots \ {s} : api'.requests[r] = api.requests[r]
      /\ api'.requests[s].stage = "idle"
  BY <1>0, RequestOver DEF CurveShape, Idle
<1>2. s \in InFlight(api)
  BY <1>0 DEF InFlight
<1>3. ~stale /\ InFlight(api') = {}
  BY <1>0, <1>1, <1>2 DEF Connected
<1>4. CurveShape'
  BY <1>0, <1>1 DEF CurveShape
<1>5. Connected'
  <2>1. phase # "none"
    BY <1>0, MountedIdle DEF Connected
  <2>2. QED
    BY <1>0, <1>3, <2>1 DEF Connected
<1>6. NothingLost'
  <2>1. ~missed' => ~missed /\ StepsOf(history) \subseteq StepsOf(history')
    BY <1>0
  <2>2. QED
    BY <1>0, <2>1 DEF NothingLost, OnTheWay
<1>7. LatestIsLast'
  BY <1>0, <1>3 DEF LatestIsLast, EndsAs
<1>8. QED
  BY <1>4, <1>5, <1>6, <1>7 DEF CurveInv

-----------------------------------------------------------------------------
(* The steps of the App.                                                   *)

LEMMA SetTabStep ==
  ASSUME CurveInv, NEW t \in Tabs, SetTab(t)
  PROVE  CurveInv'
<1>0. CurveShape /\ Connected /\ NothingLost /\ LatestIsLast /\ t # tab /\ tab' = t
  BY DEF CurveInv, SetTab
<1>1. CASE t = "training"
  <2>0. /\ phase = "none" /\ wire = <<>> /\ ~stale /\ phase' = "asked"
        /\ api' = WrappedLoad(Mounted, Path) /\ sse' = Connect(Closed, Stream)
        /\ UNCHANGED <<file, posting, unposted, wire, history, missed, stale>>
    BY <1>0, <1>1 DEF SetTab, Mount, Connected, server
  <2>1. /\ IsHook(api')
        /\ \A s \in Slots : api'.requests[s].stage # "answered"
    <3>1. \A s \in Slots : \/ api'.requests[s] = Mounted.requests[s]
                           \/ NewRequest(api'.requests[s], Path)
      BY <2>0, MountedIdle, WrappedLoadEach
    <3>2. QED
      BY <2>0, <3>1, MountedIdle, WrappedLoadEach DEF NewRequest
  <2>2. \A s, r \in InFlight(api') : s = r
    BY <2>0, MountedIdle, WrappedLoadOne
  <2>3. CurveShape'
    BY <1>0, <2>0, <2>1 DEF CurveShape, Connect, Closed
  <2>4. Connected'
    BY <1>0, <1>1, <2>0, <2>2 DEF Connected
  <2>5. NothingLost' /\ LatestIsLast'
    BY <1>0, <2>0 DEF NothingLost, LatestIsLast
  <2>6. QED
    BY <2>3, <2>4, <2>5 DEF CurveInv
<1>2. CASE t # "training" /\ tab = "training"
  <2>0. /\ phase' = "none" /\ wire' = <<>> /\ api' = Mounted /\ sse' = Closed
        /\ history' = <<>> /\ ~missed' /\ ~stale'
        /\ UNCHANGED <<file, posting, unposted>>
    BY <1>2 DEF SetTab, Unmount, server
  <2>1. CurveShape'
    <3>1. <<>> \in Seq(Records)
      OBVIOUS
    <3>2. QED
      BY <1>0, <2>0, <3>1, MountedIdle DEF CurveShape, Closed
  <2>2. Connected'
    BY <2>0, MountedIdle DEF Connected
  <2>3. NothingLost' /\ LatestIsLast'
    BY <1>0, <2>0 DEF NothingLost, LatestIsLast
  <2>4. QED
    BY <2>1, <2>2, <2>3 DEF CurveInv
<1>3. CASE t # "training" /\ tab # "training"
  <2>1. UNCHANGED <<file, posting, unposted, phase, wire, api, sse, history, missed, stale>>
    BY <1>3 DEF SetTab, training, server, monitor
  <2>2. CurveShape' /\ NothingLost' /\ LatestIsLast'
    BY <1>0, <2>1 DEF CurveShape, NothingLost, OnTheWay, LatestIsLast
  <2>3. Connected'
    BY <1>0, <1>3, <2>1 DEF Connected
  <2>4. QED
    BY <2>2, <2>3 DEF CurveInv
<1>4. QED
  BY <1>1, <1>2, <1>3

LEMMA CurveUnchanged ==
  ASSUME CurveInv, UNCHANGED <<server, monitor, tab>>
  PROVE  CurveInv'
<1>1. UNCHANGED <<file, posting, unposted, phase, wire, api, sse, history, missed, stale, tab>>
  BY DEF server, monitor
<1>2. QED
  BY <1>1 DEF CurveInv, CurveShape, Connected, NothingLost, OnTheWay, LatestIsLast

LEMMA CurveStep == CurveInv /\ [AppNext]_app => CurveInv'
<1> SUFFICES ASSUME CurveInv, [AppNext]_app PROVE CurveInv'
  OBVIOUS
<1>1. CASE TrainingStep /\ UNCHANGED shell
  BY <1>1, NotifyStep, SubscribeStep, ReplayStep, DisconnectStep, RestartStep,
     MessageArrivesStep, RenderStep, PostStep, WriteStep, ServeStatusStep,
     StatusArrivesStep, StatusFailsStep DEF TrainingStep
<1>2. CASE \E t \in Tabs : SetTab(t)
  BY <1>2, SetTabStep
<1>3. ASSUME \E p \in ToSet(Bank) : ChooseProblem(p)
      PROVE  UNCHANGED <<server, monitor, tab>>
  BY <1>3 DEF ChooseProblem, training
<1>4. CASE Submit \/ Create \/ Created \/ SubmitFails \/ DuelOver \/ LoadTrajectory
  <2>1. UNCHANGED <<server, monitor, tab>>
    BY <1>4 DEF Submit, Create, Created, SubmitFails, DuelOver, LoadTrajectory, training
  <2>2. QED
    BY <2>1, CurveUnchanged
<1>5. CASE \E s \in Slots : \/ ServeProblems(s) \/ ProblemsArrive(s) \/ ProblemsFail(s)
                            \/ ServePage(s) \/ PageArrives(s) \/ PageFails(s)
  <2>1. UNCHANGED <<server, monitor, tab>>
    BY <1>5 DEF ServeProblems, ProblemsArrive, ProblemsFail, ServePage, PageArrives,
       PageFails, training
  <2>2. QED
    BY <2>1, CurveUnchanged
<1>6. CASE UNCHANGED app
  BY <1>6, CurveUnchanged DEF app, training, shell
<1>7. QED
  BY <1>1, <1>2, <1>3, <1>4, <1>5, <1>6, CurveUnchanged DEF AppNext

LEMMA CurveInvariant == AppSpec => []CurveInv
BY CurveInit, CurveStep, PTL DEF AppSpec

\* Once all is delivered the curve has every step of the file, for any number of
\* records, broken connections, restarts and requests that fail, unless one was
\* dropped from it (TrainingMonitor.tsx 21-39, main.py 162-179, training.py 65-84).
THEOREM CurveTold == AppSpec => []CurveComplete
<1>1. CurveInv => CurveComplete
  <2>1. wire = <<>> => StepsOf(wire) = {}
    BY DEF StepsOf
  <2>2. QED
    BY <2>1 DEF CurveInv, NothingLost, OnTheWay, CurveComplete, TrainingSettled
<1>2. QED
  BY CurveInvariant, <1>1, PTL

\* And it ends with the step of the last record, also when records between were
\* not drawn, unless an old answer came last (TrainingMonitor.tsx 21-39).
THEOREM CurveEnds == AppSpec => []CurveEndsWithTheLatest
<1>1. CurveInv => CurveEndsWithTheLatest
  BY DEF CurveInv, LatestIsLast, CurveEndsWithTheLatest, TrainingSettled
<1>2. QED
  BY CurveInvariant, <1>1, PTL

-----------------------------------------------------------------------------
(* The lists of the tabs.                                                  *)

\* What a list holds, or is about to: an answer to a request of its own tab, given
\* since that was opened.
ListInv ==
  /\ started \in Nat /\ ranked \in Nat /\ since \in Nat
  /\ IsHook(page)
  /\ tab \notin Lists => \A s \in Slots : page.requests[s].stage = "idle"
  /\ tab \in Lists =>
       /\ since <= Length(tab)
       /\ \A s \in Slots :
            /\ page.requests[s].stage # "idle" => page.requests[s].path = tab
            /\ page.requests[s].stage = "answered" =>
                 page.requests[s].answer \in since..Length(tab)
       /\ ~page.loading /\ ~page.error => page.data \in since..Length(tab)

LEMMA ListInit == AppInit => ListInv
BY MountedIdle DEF AppInit, ListInv, Lists

\* The lists only grow, so what a list has got remains right.
LEMMA ListGrows ==
  ASSUME ListInv, UNCHANGED <<tab, page, since>>,
         started' \in Nat, ranked' \in Nat, started <= started', ranked <= ranked'
  PROVE  ListInv'
<1>1. tab \in Lists => /\ Length(tab) \in Nat /\ Length(tab)' \in Nat
                       /\ Length(tab) <= Length(tab)'
  BY DEF ListInv, Length, DuelRows, PlayerRows, Lists
<1>2. ASSUME NEW n, tab \in Lists, n \in since..Length(tab)
      PROVE  n \in since..Length(tab)'
  BY <1>1, <1>2 DEF ListInv
<1>4. tab \in Lists => since' <= Length(tab)'
  BY <1>1 DEF ListInv
<1>5. QED
  BY <1>2, <1>4 DEF ListInv

LEMMA SetTabLists ==
  ASSUME ListInv, NEW t \in Tabs, SetTab(t)
  PROVE  ListInv'
<1>0. tab' = t /\ UNCHANGED <<started, ranked>>
  BY DEF SetTab, duels
<1>1. CASE t \in Lists
  <2>1. /\ page' = WrappedLoad(Mounted, t) /\ since' = Length(t) /\ Length(t)' = Length(t)
        /\ Length(t) \in Nat
    BY <1>0, <1>1 DEF SetTab, ListInv, Length, DuelRows, PlayerRows, Lists
  <2>2. /\ IsHook(page')
        /\ \A s \in Slots : \/ page'.requests[s] = Mounted.requests[s]
                            \/ NewRequest(page'.requests[s], t)
    BY <2>1, MountedIdle, WrappedLoadEach
  <2>3. page'.loading
    BY <2>1 DEF WrappedLoad, Mounted
  <2>4. QED
    BY <1>0, <1>1, <2>1, <2>2, <2>3, MountedIdle DEF ListInv, NewRequest
<1>2. CASE t \notin Lists
  <2>1. page' = Mounted /\ since' = 0
    BY <1>2 DEF SetTab
  <2>2. QED
    BY <1>0, <1>2, <2>1, MountedIdle DEF ListInv
<1>3. QED
  BY <1>1, <1>2

LEMMA ServePageLists ==
  ASSUME ListInv, NEW s \in Slots, ServePage(s)
  PROVE  ListInv'
<1>0. /\ page.requests[s].stage = "sent"
      /\ page' = Answer(page, s, Length(page.requests[s].path))
      /\ UNCHANGED <<tab, started, ranked, since>>
  BY DEF ServePage, duels
<1>1. tab \in Lists /\ page.requests[s].path = tab
  BY <1>0 DEF ListInv
<1>2. Length(tab) \in since..Length(tab) /\ Length(tab)' = Length(tab)
  BY <1>0, <1>1 DEF ListInv, Length, DuelRows, PlayerRows, Lists
<1>3. /\ IsHook(page')
      /\ \A r \in Slots \ {s} : page'.requests[r] = page.requests[r]
      /\ page'.requests[s].answer = Length(tab) /\ page'.requests[s].path = tab
      /\ page'.loading = page.loading /\ page'.error = page.error /\ page'.data = page.data
  <2> DEFINE n == Length(page.requests[s].path)
  <2>1. page' = Answer(page, s, n) /\ n = Length(tab)
    BY <1>0, <1>1
  <2> HIDE DEF n
  <2>2. QED
    BY <1>0, <1>1, <2>1, RequestServed DEF ListInv
<1>4. QED
  BY <1>0, <1>1, <1>2, <1>3 DEF ListInv

LEMMA PageOverLists ==
  ASSUME ListInv, NEW s \in Slots, PageArrives(s) \/ PageFails(s)
  PROVE  ListInv'
<1>0. /\ page.requests[s].stage # "idle"
      /\ UNCHANGED <<tab, started, ranked, since>>
  BY DEF PageArrives, PageFails, duels
<1>1. tab \in Lists /\ Length(tab)' = Length(tab)
  BY <1>0 DEF ListInv, Length, DuelRows, PlayerRows
<1>2. /\ IsHook(page') /\ page'.requests[s].stage = "idle"
      /\ \A r \in Slots \ {s} : page'.requests[r] = page.requests[r]
  BY RequestOver DEF ListInv, PageArrives, PageFails, Idle
<1>3. ~page'.loading /\ ~page'.error => page'.data \in since..Length(tab)
  <2>1. CASE PageArrives(s)
    <3>1. page.requests[s].stage = "answered" /\ page'.data = page.requests[s].answer
      BY <2>1, RequestOver DEF ListInv, PageArrives
    <3>2. QED
      BY <1>1, <3>1 DEF ListInv
  <2>2. CASE PageFails(s)
    BY <2>2, RequestOver DEF ListInv, PageFails
  <2>3. QED
    BY <2>1, <2>2
<1>4. QED
  BY <1>0, <1>1, <1>2, <1>3 DEF ListInv

LEMMA ListStep == ListInv /\ [AppNext]_app => ListInv'
<1> SUFFICES ASSUME ListInv, [AppNext]_app PROVE ListInv'
  OBVIOUS
<1>0. started \in Nat /\ ranked \in Nat
  BY DEF ListInv
<1>1. CASE (TrainingStep /\ UNCHANGED shell) \/ UNCHANGED app
  BY <1>0, <1>1, ListGrows DEF app, shell
<1>2. CASE \E t \in Tabs : SetTab(t)
  BY <1>2, SetTabLists
<1>3. CASE \E p \in ToSet(Bank) : ChooseProblem(p)
  BY <1>0, <1>3, ListGrows DEF ChooseProblem, duels
<1>4. CASE Submit \/ Create \/ Created \/ SubmitFails \/ DuelOver \/ LoadTrajectory
  <2>1. /\ UNCHANGED <<tab, page, since>>
        /\ started' \in {started, started + 1} /\ ranked' \in ranked..ranked + 2
    BY <1>0, <1>4 DEF Submit, Create, Created, SubmitFails, DuelOver, LoadTrajectory, duels
  <2>2. QED
    BY <1>0, <2>1, ListGrows
<1>5. CASE \E s \in Slots : ServeProblems(s) \/ ProblemsArrive(s) \/ ProblemsFail(s)
  BY <1>0, <1>5, ListGrows DEF ServeProblems, ProblemsArrive, ProblemsFail, duels
<1>6. CASE \E s \in Slots : ServePage(s) \/ PageArrives(s) \/ PageFails(s)
  BY <1>6, ServePageLists, PageOverLists
<1>7. QED
  BY <1>1, <1>2, <1>3, <1>4, <1>5, <1>6 DEF AppNext

\* A list that is shown is not older than its tab, whatever requests fail and
\* however often the tab is changed (Leaderboard.tsx 7-16, DuelHistory.tsx 10-20,
\* useApi.ts 30-51).
THEOREM ListsAreCurrent == AppSpec => []ListNotOlderThanTab
<1>1. ListInv => ListNotOlderThanTab
  <2> SUFFICES ASSUME ListInv, tab \in Lists, List.screen = "list"
               PROVE  List.rows \in since..Length(tab)
    BY DEF ListNotOlderThanTab
  <2>1. ~page.loading /\ ~page.error
    BY DEF List
  <2>2. page.data \in since..Length(tab)
    BY <2>1 DEF ListInv
  <2>3. page.data # None
    <3>1. Length(tab) \in Nat
      BY DEF ListInv, Length, DuelRows, PlayerRows, Lists
    <3>2. page.data \in Nat
      BY <2>2, <3>1 DEF ListInv
    <3>3. QED
      BY <3>2, LengthAssumption
  <2>4. QED
    BY <2>1, <2>2, <2>3 DEF List
<1>2. QED
  BY ListInit, ListStep, <1>1, PTL DEF AppSpec

-----------------------------------------------------------------------------
(* Induction on a number, for a set in the place of a predicate.           *)

\* Numbers have a least one.
LEMMA LeastNumber ==
  ASSUME NEW S \in SUBSET Nat, S # {}
  PROVE  \E x \in S : \A y \in S : x <= y
<1> DEFINE R == OpToRel(<, Nat)
<1>1. IsWellFoundedOn(R, Nat)
  BY NatLessThanWellFounded
<1>2. \A x, y \in Nat : x < y => <<x, y>> \in R
  BY DEF OpToRel
<1> HIDE DEF R
<1>3. \E x \in S : \A y \in S : ~(<<y, x>> \in R)
  BY <1>1, WFMin
<1>4. PICK x \in S : \A y \in S : ~(<<y, x>> \in R)
  BY <1>3
<1>5. \A y \in S : ~(y < x)
  BY <1>2, <1>4
<1>6. \A y \in S : x <= y
  BY <1>5
<1>7. QED
  BY <1>6

\* What has 0, and with a number below n the next one, has all up to n.
LEMMA UpTo ==
  ASSUME NEW n \in Nat, NEW S, 0 \in S, \A i \in 1..n : i - 1 \in S => i \in S
  PROVE  \A i \in 0..n : i \in S
<1> DEFINE T == {i \in 0..n : i \notin S}
<1>1. SUFFICES ASSUME T # {} PROVE FALSE
  OBVIOUS
<1>2. T \in SUBSET Nat
  OBVIOUS
<1>3. PICK x \in T : \A y \in T : x <= y
  BY <1>1, <1>2, LeastNumber
<1>4. x # 0 /\ x \in 1..n /\ x - 1 \in 0..n /\ ~(x <= x - 1)
  BY <1>3
<1>5. x - 1 \in S
  BY <1>3, <1>4
<1>6. QED
  BY <1>3, <1>4, <1>5

-----------------------------------------------------------------------------
(* The curve of the Command Center.                                        *)

\* The records the Map has had, one by one.
IsSeen(f, records, n) ==
  f = [i \in 0..n |-> IF i = 0 THEN <<>> ELSE MapSet(f[i - 1], records[i])]

\* There is such a function, for a file of any length.
LEMMA SeenExists ==
  ASSUME NEW records, NEW n \in Nat
  PROVE  \E f : IsSeen(f, records, n)
<1> DEFINE S == {i \in Nat : \E f : IsSeen(f, records, i)}
<1>1. 0 \in S
  <2>1. IsSeen([i \in 0..0 |-> <<>>], records, 0)
    <3>1. \A i \in 0..0 : i = 0
      OBVIOUS
    <3>2. QED
      BY <3>1 DEF IsSeen
  <2>2. QED
    BY <2>1
<1>2. ASSUME NEW i \in 1..n, i - 1 \in S
      PROVE  i \in S
  <2>1. PICK f : IsSeen(f, records, i - 1)
    BY <1>2
  <2> DEFINE g == [j \in 0..i |-> IF j = i THEN MapSet(f[i - 1], records[i]) ELSE f[j]]
  <2>2. ASSUME NEW j \in 0..i
        PROVE  g[j] = IF j = 0 THEN <<>> ELSE MapSet(g[j - 1], records[j])
    <3>1. CASE j = i
      <4>1. i # 0 /\ i - 1 \in 0..i /\ i - 1 # i
        OBVIOUS
      <4>2. g[i - 1] = f[i - 1] /\ g[j] = MapSet(f[i - 1], records[i])
        BY <3>1, <4>1
      <4>3. QED
        BY <3>1, <4>1, <4>2
    <3>2. CASE j # i
      <4>1. j \in 0..(i - 1) /\ (j # 0 => j - 1 \in 0..i /\ j - 1 # i)
        BY <3>2
      <4>2. g[j] = f[j] /\ (j # 0 => g[j - 1] = f[j - 1])
        BY <3>2, <4>1
      <4>3. f[j] = IF j = 0 THEN <<>> ELSE MapSet(f[j - 1], records[j])
        BY <2>1, <4>1 DEF IsSeen
      <4>4. QED
        BY <4>2, <4>3
    <3>3. QED
      BY <3>1, <3>2
  <2>3. g = [j \in 0..i |-> g[j]]
    OBVIOUS
  <2> HIDE DEF g
  <2>4. g = [j \in 0..i |-> IF j = 0 THEN <<>> ELSE MapSet(g[j - 1], records[j])]
    BY <2>2, <2>3
  <2>5. IsSeen(g, records, i)
    BY <2>4 DEF IsSeen
  <2>6. QED
    BY <2>5
<1> HIDE DEF S
<1>3. \A i \in 0..n : i \in S
  BY <1>1, <1>2, UpTo
<1>4. QED
  BY <1>3 DEF S

\* The Map after the first i records: each step of these once, with the last of
\* its records.
Kept(m, records, i) ==
  /\ m \in Seq(Records)
  /\ \A a, b \in DOMAIN m : m[a].step = m[b].step => a = b
  /\ \A l \in 1..i : \E a \in DOMAIN m : m[a].step = records[l].step
  /\ \A a \in DOMAIN m : \E l \in 1..i :
       m[a] = records[l] /\ \A h \in l + 1..i : records[h].step # m[a].step

LEMMA SetKeeps ==
  ASSUME NEW records \in Seq(Records), NEW i \in 1..Len(records), NEW m,
         Kept(m, records, i - 1)
  PROVE  Kept(MapSet(m, records[i]), records, i)
<1> DEFINE r == records[i]
           w == MapSet(m, r)
           n == Len(m)
<1>0. r \in Records
  OBVIOUS
<1>1. n \in Nat /\ DOMAIN m = 1..n /\ m \in Seq(Records) /\ m \in [1..n -> Records]
  BY DEF Kept
<1>2. /\ \A a, b \in 1..n : m[a].step = m[b].step => a = b
      /\ \A l \in 1..(i - 1) : \E a \in 1..n : m[a].step = records[l].step
      /\ \A a \in 1..n : \E l \in 1..(i - 1) :
           m[a] = records[l] /\ \A h \in l + 1..(i - 1) : records[h].step # m[a].step
  BY <1>1 DEF Kept
<1>3. i \in 1..i /\ \A l \in 1..i : l \in 1..(i - 1) \/ l = i
  OBVIOUS
<1>4. \A l \in 1..(i - 1) : l \in 1..i /\ \A h \in l + 1..i : h \in l + 1..(i - 1) \/ h = i
  OBVIOUS
<1>5. \A h \in i + 1..i : FALSE
  OBVIOUS
<1>6. CASE \E a \in 1..n : m[a].step = r.step
  <2>1. w = [a \in 1..n |-> IF m[a].step = r.step THEN r ELSE m[a]]
    BY <1>1, <1>6 DEF MapSet
  <2>2. w \in [1..n -> Records] /\ DOMAIN w = 1..n
    BY <1>0, <1>1, <2>1
  <2>3. w \in Seq(Records)
    BY <1>1, <2>2
  <2>4. \A a \in 1..n : w[a].step = m[a].step /\ (w[a] = r \/ (w[a] = m[a] /\ m[a].step # r.step))
    BY <2>1
  <2>5. \A a \in 1..n : m[a].step = r.step => w[a] = r
    BY <2>1
  <2> HIDE DEF r, w, n
  <2>6. \A a, b \in 1..n : w[a].step = w[b].step => a = b
    <3>1. \A a \in 1..n : w[a].step = m[a].step
      BY <2>4
    <3>2. \A a, b \in 1..n : m[a].step = m[b].step => a = b
      BY <1>2
    <3>3. QED
      BY <3>1, <3>2
  <2>7. \A l \in 1..i : \E a \in 1..n : w[a].step = records[l].step
    <3>1. \A a \in 1..n : w[a].step = m[a].step
      BY <2>4
    <3>2. ASSUME NEW l \in 1..i
          PROVE  \E a \in 1..n : m[a].step = records[l].step
      <4>1. CASE l \in 1..(i - 1)
        BY <1>2, <4>1
      <4>2. CASE l = i
        BY <1>6, <4>2 DEF r
      <4>3. QED
        BY <1>3, <4>1, <4>2
    <3>3. QED
      BY <3>1, <3>2
  <2>8. ASSUME NEW a \in 1..n
        PROVE  \E l \in 1..i :
                 w[a] = records[l] /\ \A h \in l + 1..i : records[h].step # w[a].step
    <3>1. CASE w[a] = r
      BY <1>3, <1>5, <3>1 DEF r
    <3>2. CASE w[a] = m[a] /\ m[a].step # r.step
      <4>1. PICK l \in 1..(i - 1) :
              m[a] = records[l] /\ \A h \in l + 1..(i - 1) : records[h].step # m[a].step
        BY <1>2
      <4>2. \A h \in l + 1..i : records[h].step # m[a].step
        BY <1>4, <3>2, <4>1 DEF r
      <4>3. QED
        BY <1>4, <3>2, <4>1, <4>2
    <3>3. QED
      BY <2>4, <3>1, <3>2
  <2>9. QED
    BY <2>2, <2>3, <2>6, <2>7, <2>8 DEF Kept, w, r
<1>7. CASE ~\E a \in 1..n : m[a].step = r.step
  <2>1. w = Append(m, r)
    BY <1>1, <1>7 DEF MapSet
  <2>2. /\ w \in Seq(Records) /\ DOMAIN w = 1..(n + 1)
        /\ \A a \in 1..n : w[a] = m[a]
        /\ w[n + 1] = r
    BY <1>0, <1>1, <2>1
  <2>3. n + 1 \in 1..(n + 1) /\ \A a \in 1..n : a \in 1..(n + 1)
    BY <1>1
  <2>4. \A a \in 1..(n + 1) : a \in 1..n \/ a = n + 1
    BY <1>1
  <2> HIDE DEF r, w, n
  <2>5. \A a, b \in 1..(n + 1) : w[a].step = w[b].step => a = b
    BY <1>2, <1>7, <2>2, <2>4
  <2>6. \A l \in 1..i : \E a \in 1..(n + 1) : w[a].step = records[l].step
    BY <1>2, <1>3, <2>2, <2>3 DEF r
  <2>7. ASSUME NEW a \in 1..(n + 1)
        PROVE  \E l \in 1..i :
                 w[a] = records[l] /\ \A h \in l + 1..i : records[h].step # w[a].step
    <3>1. CASE a = n + 1
      BY <1>3, <1>5, <2>2, <3>1 DEF r
    <3>2. CASE a \in 1..n
      <4>1. PICK l \in 1..(i - 1) :
              m[a] = records[l] /\ \A h \in l + 1..(i - 1) : records[h].step # m[a].step
        BY <1>2, <3>2
      <4>2. \A h \in l + 1..i : records[h].step # m[a].step
        BY <1>4, <1>7, <3>2, <4>1 DEF r
      <4>3. QED
        BY <1>4, <2>2, <3>2, <4>1, <4>2
    <3>3. QED
      BY <2>4, <3>1, <3>2
  <2>8. QED
    BY <2>2, <2>5, <2>6, <2>7 DEF Kept, w, r
<1>8. QED
  BY <1>6, <1>7

LEMMA SeenKeeps ==
  ASSUME NEW records \in Seq(Records)
  PROVE  Kept(Seen(records), records, Len(records))
<1> DEFINE n == Len(records)
           f == CHOOSE f : IsSeen(f, records, n)
           S == {i \in 0..n : Kept(f[i], records, i)}
<1>0. n \in Nat
  OBVIOUS
<1>1. IsSeen(f, records, n)
  BY <1>0, SeenExists
<1>2. Seen(records) = f[n]
  BY DEF Seen, IsSeen
<1> HIDE DEF f
<1>3. 0 \in S
  <2>1. f[0] = <<>>
    BY <1>0, <1>1 DEF IsSeen
  <2>2. Kept(<<>>, records, 0)
    <3>1. <<>> \in Seq(Records) /\ DOMAIN <<>> = {} /\ 1..0 = {}
      OBVIOUS
    <3>2. QED
      BY <3>1 DEF Kept
  <2>3. QED
    BY <1>0, <2>1, <2>2
<1>4. ASSUME NEW i \in 1..n, i - 1 \in S
      PROVE  i \in S
  <2>1. f[i] = MapSet(f[i - 1], records[i])
    <3>1. i # 0 /\ i \in 0..n
      BY <1>0
    <3>2. QED
      BY <1>1, <3>1 DEF IsSeen
  <2>2. Kept(f[i - 1], records, i - 1)
    BY <1>4
  <2>3. Kept(f[i], records, i)
    BY <2>1, <2>2, SetKeeps
  <2>4. QED
    BY <1>0, <2>3
<1>5. n \in S
  <2> HIDE DEF S
  <2>1. \A i \in 0..n : i \in S
    BY <1>0, <1>3, <1>4, UpTo
  <2>2. QED
    BY <1>0, <2>1
<1>6. QED
  BY <1>2, <1>5

\* A place is one of the places, and goes with the steps.
LEMMA PlaceOrder ==
  ASSUME NEW m \in Seq(Records)
  PROVE  /\ Len(m) \in Nat /\ DOMAIN m = 1..Len(m)
         /\ \A i \in DOMAIN m : m[i].step \in Nat /\ Place(m, i) \in 1..Len(m)
         /\ \A i, j \in DOMAIN m : m[i].step < m[j].step => Place(m, i) < Place(m, j)
<1> DEFINE n == Len(m)
           upTo(i) == {j \in DOMAIN m : m[j].step <= m[i].step}
<1>1. n \in Nat /\ DOMAIN m = 1..n /\ \A i \in 1..n : m[i] \in Records
  OBVIOUS
<1>2. \A i \in 1..n : m[i].step \in Nat
  BY <1>1, StepsAssumption DEF Records
<1> HIDE DEF n
<1>3. IsFiniteSet(1..n) /\ Cardinality(1..n) = n
  BY <1>1, FS_Interval
<1>4. ASSUME NEW i \in 1..n
      PROVE  IsFiniteSet(upTo(i)) /\ Cardinality(upTo(i)) \in 1..n
  <2>1. upTo(i) \in SUBSET (1..n) /\ i \in upTo(i)
    BY <1>1, <1>2
  <2> HIDE DEF upTo
  <2>2. /\ IsFiniteSet(upTo(i)) /\ Cardinality(upTo(i)) \in Nat
        /\ Cardinality(upTo(i)) <= n
    BY <1>3, <2>1, FS_Subset, FS_CardinalityType
  <2>3. Cardinality(upTo(i)) # 0
    BY <2>1, <2>2, FS_EmptySet
  <2>4. QED
    BY <1>1, <2>2, <2>3
<1>5. ASSUME NEW i \in 1..n, NEW j \in 1..n, m[i].step < m[j].step
      PROVE  Cardinality(upTo(i)) < Cardinality(upTo(j))
  <2>1. upTo(i) \in SUBSET upTo(j) /\ j \in upTo(j) /\ j \notin upTo(i)
    <3>1. \A k \in 1..n : m[k].step <= m[i].step => m[k].step <= m[j].step
      BY <1>2, <1>5
    <3>2. m[j].step <= m[j].step /\ ~(m[j].step <= m[i].step)
      BY <1>2, <1>5
    <3>3. QED
      BY <1>1, <3>1, <3>2
  <2> HIDE DEF upTo
  <2>a. Cardinality(upTo(i)) \in 1..n /\ Cardinality(upTo(j)) \in 1..n /\ IsFiniteSet(upTo(j))
    BY <1>4
  <2>2. IsFiniteSet(upTo(j)) /\ Cardinality(upTo(i)) \in Nat /\ Cardinality(upTo(j)) \in Nat
    BY <1>1, <2>a
  <2>3. Cardinality(upTo(i)) <= Cardinality(upTo(j)) /\ Cardinality(upTo(i)) # Cardinality(upTo(j))
    BY <2>1, <2>2, FS_Subset
  <2>4. QED
    BY <2>2, <2>3
<1>6. \A i \in DOMAIN m : Place(m, i) = Cardinality(upTo(i))
  BY DEF Place
<1> HIDE DEF upTo
<1>7. QED
  BY <1>1, <1>2, <1>4, <1>5, <1>6 DEF n

\* Each place is taken when the steps are different.
LEMMA PlaceTaken ==
  ASSUME NEW m \in Seq(Records), \A a, b \in DOMAIN m : m[a].step = m[b].step => a = b
  PROVE  \A k \in DOMAIN m : \E i \in DOMAIN m : Place(m, i) = k
<1> DEFINE n == Len(m)
           f == [i \in 1..n |-> Place(m, i)]
<1>1. n \in Nat /\ DOMAIN m = 1..n /\ \A i \in 1..n : m[i].step \in Nat /\ Place(m, i) \in 1..n
  BY PlaceOrder
<1>2. \A i, j \in 1..n : m[i].step < m[j].step => Place(m, i) < Place(m, j)
  BY PlaceOrder
<1> HIDE DEF n
<1>3. \A i, j \in 1..n : f[i] = f[j] => i = j
  <2> SUFFICES ASSUME NEW i \in 1..n, NEW j \in 1..n, i # j PROVE f[i] # f[j]
    OBVIOUS
  <2>1. m[i].step # m[j].step
    BY <1>1
  <2>a. m[i].step \in Nat /\ m[j].step \in Nat
    BY <1>1
  <2>2. m[i].step < m[j].step \/ m[j].step < m[i].step
    BY <2>1, <2>a
  <2>3. Place(m, i) < Place(m, j) \/ Place(m, j) < Place(m, i)
    BY <1>2, <2>2
  <2>4. QED
    BY <1>1, <2>3
<1>4. f \in Injection(1..n, 1..n)
  <2>1. f \in [1..n -> 1..n]
    BY <1>1
  <2>2. QED
    BY <1>3, <2>1 DEF Injection, IsInjective
<1>5. IsFiniteSet(1..n)
  BY <1>1, FS_Interval
<1>6. f \in Surjection(1..n, 1..n)
  BY <1>4, <1>5, FS_Injection
<1>7. QED
  BY <1>1, <1>6 DEF Surjection

\* Sorting keeps the values and puts the steps into order.
LEMMA SortedIsSorted ==
  ASSUME NEW m \in Seq(Records), \A a, b \in DOMAIN m : m[a].step = m[b].step => a = b
  PROVE  /\ DOMAIN Sorted(m) = DOMAIN m
         /\ \A k \in DOMAIN m : \E i \in DOMAIN m : Sorted(m)[k] = m[i]
         /\ \A i \in DOMAIN m : \E k \in DOMAIN m : Sorted(m)[k] = m[i]
         /\ \A k, l \in DOMAIN m : k < l => Sorted(m)[k].step < Sorted(m)[l].step
<1> DEFINE at(k) == CHOOSE i \in DOMAIN m : Place(m, i) = k
           n == Len(m)
<1>1. /\ n \in Nat /\ DOMAIN m = 1..n
      /\ \A i \in 1..n : m[i].step \in Nat /\ Place(m, i) \in 1..n
      /\ \A i, j \in 1..n : m[i].step < m[j].step => Place(m, i) < Place(m, j)
  BY PlaceOrder
<1>2. \A k \in 1..n : at(k) \in 1..n /\ Place(m, at(k)) = k
  BY <1>1, PlaceTaken
<1>3. /\ DOMAIN Sorted(m) = 1..n
      /\ \A k \in 1..n : Sorted(m)[k] = m[at(k)]
  BY <1>1 DEF Sorted
<1> HIDE DEF at, n
<1>4. ASSUME NEW i \in 1..n, NEW j \in 1..n, Place(m, i) = Place(m, j)
      PROVE  i = j
  <2>1. ~(m[i].step < m[j].step) /\ ~(m[j].step < m[i].step)
    BY <1>1, <1>4
  <2>2. m[i].step \in Nat /\ m[j].step \in Nat
    BY <1>1
  <2>3. m[i].step = m[j].step
    BY <2>1, <2>2
  <2>4. QED
    BY <1>1, <2>3
<1>5. ASSUME NEW i \in 1..n
      PROVE  \E k \in 1..n : Sorted(m)[k] = m[i]
  <2>1. Place(m, i) \in 1..n /\ at(Place(m, i)) = i
    BY <1>1, <1>2, <1>4
  <2>2. QED
    BY <1>3, <2>1
<1>6. ASSUME NEW k \in 1..n, NEW l \in 1..n, k < l
      PROVE  Sorted(m)[k].step < Sorted(m)[l].step
  <2>1. /\ at(k) \in 1..n /\ at(l) \in 1..n
        /\ Place(m, at(k)) < Place(m, at(l)) /\ at(k) # at(l)
    BY <1>1, <1>2, <1>6
  <2> DEFINE i == at(k)
             j == at(l)
  <2>2. i \in 1..n /\ j \in 1..n /\ i # j /\ Place(m, i) < Place(m, j)
    BY <2>1
  <2> HIDE DEF i, j
  <2>a. /\ m[i].step \in Nat /\ m[j].step \in Nat /\ m[i].step # m[j].step
        /\ Place(m, i) \in 1..n /\ Place(m, j) \in 1..n
    BY <1>1, <2>2
  <2>b. ~(m[j].step < m[i].step)
    <3>1. ~(Place(m, j) < Place(m, i))
      BY <1>1, <2>2, <2>a
    <3>2. QED
      BY <1>1, <2>2, <3>1
  <2>c. m[i].step < m[j].step
    BY <2>a, <2>b
  <2>3. m[at(k)].step < m[at(l)].step
    BY <2>c DEF i, j
  <2>4. QED
    BY <1>3, <2>3
<1>7. QED
  BY <1>1, <1>2, <1>3, <1>5, <1>6

\* The lines of the file are numbered.
Numbered == \A l \in DOMAIN file : file[l].line = l

LEMMA NumberedStep == CurveInv /\ Numbered /\ [AppNext]_app => Numbered'
<1> SUFFICES ASSUME CurveInv, Numbered, [AppNext]_app PROVE Numbered'
  OBVIOUS
<1>1. file' = file \/ \E step \in Steps : AddLine(step)
  <2>1. CASE TrainingStep /\ UNCHANGED shell
    BY <2>1 DEF TrainingStep, Notify, Subscribe, Replay, Disconnect, Restart,
       MessageArrives, Render, Post, Write, ServeStatus, StatusArrives, StatusFails, server
  <2>2. CASE \E t \in Tabs : SetTab(t)
    <3>1. PICK t \in Tabs : SetTab(t)
      BY <2>2
    <3>2. CASE t = "training"
      BY <3>1, <3>2 DEF SetTab, Mount, server
    <3>3. CASE t # "training" /\ tab = "training"
      BY <3>1, <3>3 DEF SetTab, Unmount, server
    <3>4. CASE t # "training" /\ tab # "training"
      BY <3>1, <3>4 DEF SetTab, training, server
    <3>5. QED
      BY <3>2, <3>3, <3>4
  <2>3. CASE \E p \in ToSet(Bank) : ChooseProblem(p)
    BY <2>3 DEF ChooseProblem, training, server
  <2>4. CASE Submit \/ Create \/ Created \/ SubmitFails \/ DuelOver \/ LoadTrajectory
    BY <2>4 DEF Submit, Create, Created, SubmitFails, DuelOver, LoadTrajectory,
       training, server
  <2>5. CASE \E s \in Slots : \/ ServeProblems(s) \/ ProblemsArrive(s) \/ ProblemsFail(s)
                              \/ ServePage(s) \/ PageArrives(s) \/ PageFails(s)
    BY <2>5 DEF ServeProblems, ProblemsArrive, ProblemsFail, ServePage, PageArrives,
       PageFails, training, server
  <2>6. CASE UNCHANGED app
    BY <2>6 DEF app, training, server
  <2>7. QED
    BY <2>1, <2>2, <2>3, <2>4, <2>5, <2>6 DEF AppNext
<1>2. CASE file' = file
  BY <1>2 DEF Numbered
<1>3. ASSUME NEW step \in Steps, AddLine(step)
      PROVE  Numbered'
  <2> DEFINE r == Line(step)
  <2>1. file \in Seq(Records) /\ r \in Records /\ r.line = Len(file) + 1
    BY <1>3, LineIsRecord DEF CurveInv, CurveShape, Line
  <2>2. file' = Append(file, r)
    BY <1>3 DEF AddLine
  <2> HIDE DEF r
  <2>3. /\ Len(file) \in Nat /\ DOMAIN file = 1..Len(file)
        /\ DOMAIN file' = 1..(Len(file) + 1)
        /\ \A l \in 1..Len(file) : file'[l] = file[l]
        /\ file'[Len(file) + 1] = r
    BY <2>1, <2>2
  <2>4. \A l \in 1..(Len(file) + 1) : l \in 1..Len(file) \/ l = Len(file) + 1
    BY <2>3
  <2>5. QED
    BY <2>1, <2>3, <2>4 DEF Numbered
<1>4. QED
  BY <1>1, <1>2, <1>3

\* The curve of the Command Center has one point for each step, in order, and it
\* is the last record of that step (ArenaDashboard.tsx 85-101).
THEOREM PointsAreLatest == AppSpec => []OnePointPerStep
<1>1. CurveInv /\ Numbered => OnePointPerStep
  <2> SUFFICES ASSUME CurveInv, Numbered PROVE OnePointPerStep
    OBVIOUS
  <2> DEFINE m == Seen(file)
             c == Curve(file)
             n == Len(file)
  <2>1. file \in Seq(Records) /\ n \in Nat /\ DOMAIN file = 1..n
    BY DEF CurveInv, CurveShape
  <2>2. Kept(m, file, n)
    BY <2>1, SeenKeeps
  <2>3. c = Sorted(m)
    BY DEF Curve
  <2> HIDE DEF m, c, n
  <2>4. /\ DOMAIN c = DOMAIN m
        /\ \A k \in DOMAIN c : \E i \in DOMAIN m : c[k] = m[i]
        /\ \A i \in DOMAIN m : \E k \in DOMAIN c : c[k] = m[i]
        /\ \A k, l \in DOMAIN c : k < l => c[k].step < c[l].step
    <3>1. m \in Seq(Records) /\ \A a, b \in DOMAIN m : m[a].step = m[b].step => a = b
      BY <2>2 DEF Kept
    <3>2. /\ DOMAIN Sorted(m) = DOMAIN m
          /\ \A k \in DOMAIN Sorted(m) : \E i \in DOMAIN m : Sorted(m)[k] = m[i]
          /\ \A i \in DOMAIN m : \E k \in DOMAIN Sorted(m) : Sorted(m)[k] = m[i]
          /\ \A k, l \in DOMAIN Sorted(m) : k < l => Sorted(m)[k].step < Sorted(m)[l].step
      BY <3>1, SortedIsSorted
    <3>3. QED
      BY <2>3, <3>2
  <2>5. ASSUME NEW k \in DOMAIN c
        PROVE  \E l \in 1..n :
                 c[k] = file[l] /\ \A h \in l + 1..n : file[h].step # c[k].step
    <3>1. PICK i \in DOMAIN m : c[k] = m[i]
      BY <2>4
    <3>2. \E l \in 1..n : m[i] = file[l] /\ \A h \in l + 1..n : file[h].step # m[i].step
      BY <2>2 DEF Kept
    <3>3. QED
      BY <3>1, <3>2
  <2>6. ASSUME NEW l \in 1..n
        PROVE  \E k \in DOMAIN c : c[k].step = file[l].step
    <3>1. PICK i \in DOMAIN m : m[i].step = file[l].step
      BY <2>2 DEF Kept
    <3>2. QED
      BY <2>4, <3>1
  <2>7. StepsOf(c) = StepsOf(file)
    BY <2>1, <2>5, <2>6 DEF StepsOf
  <2>8. \A k \in DOMAIN c : \A h \in c[k].line + 1..n : file[h].step # c[k].step
    BY <2>1, <2>5 DEF Numbered
  <2>9. QED
    BY <2>4, <2>7, <2>8 DEF OnePointPerStep, c, n
<1>2. AppInit => Numbered
  BY DEF AppInit, TrainingInit, Numbered
<1>3. QED
  BY CurveInvariant, NumberedStep, <1>1, <1>2, PTL DEF AppSpec

===============================================================================
