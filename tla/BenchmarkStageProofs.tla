------------------------- MODULE BenchmarkStageProofs -------------------------
(***************************************************************************)
(* The button of the Benchmark tab is given free only when the benchmark   *)
(* is over, the table that stays is of all its runs, and so is the log,    *)
(* for any number of benchmarks, runs and requests in flight.              *)
(***************************************************************************)
EXTENDS BenchmarkStage, HooksProofs, FiniteSetTheorems

Shape ==
  /\ DOMAIN bench = Benchmarks
  /\ \A b \in Benchmarks : DOMAIN bench[b] = {"status", "waiting", "raised", "results"}
  /\ DOMAIN posts = Benchmarks
  /\ IsHook(api)
  /\ runningId \in Benchmarks \cup {None}
  /\ rendered \in Benchmarks \cup {None}

\* A detail of the benchmark b tells that it is over only if it is.
Truthful(d, b) == d.id = b /\ (Over(d.status) => Over(bench[b].status))

\* What is on its way to the stage is about the benchmark last rendered.
Honest(r) ==
  /\ r.stage # "idle" => r.path = rendered /\ rendered # None
  /\ r.stage = "sent" /\ r.answer # None =>
       DOMAIN r.answer = {"id", "status", "summary", "added", "seen"} /\ r.answer.id = r.path
  /\ r.stage = "answered" => Truthful(r.answer, r.path)

AboutRendered ==
  /\ \A s \in Slots : Honest(api.requests[s])
  /\ fresh => rendered # None /\ Truthful(api.data, rendered)

\* While a request to start a benchmark is on its way there is no other one
\* and no benchmark; after that the stage knows of one benchmark at a time.
OneAtATime ==
  ~doubled =>
    /\ \A b, c \in Benchmarks : posts[b] = "mine" /\ posts[c] = "mine" => b = c
    /\ (\E b \in Benchmarks : posts[b] = "mine") => runningId = None /\ rendered = None
    /\ runningId # None => rendered \in {None, runningId}

Inv == Shape /\ AboutRendered /\ OneAtATime

-----------------------------------------------------------------------------
\* Nothing has been asked for.
LEMMA InvInit == Init => Inv
<1> SUFFICES ASSUME Init PROVE Inv
  OBVIOUS
<1>1. Shape
  BY DEF Init, EngineInit, NoBenchmark, Shape, IsHook, Mounted, Idle
<1>2. AboutRendered
  BY DEF Init, AboutRendered, Honest, Mounted, Idle
<1>3. OneAtATime
  BY DEF Init, OneAtATime
<1>4. QED
  BY <1>1, <1>2, <1>3 DEF Inv

\* The engine starts each benchmark once, and one that is over stays so.
LEMMA BenchSteps ==
  ASSUME Shape, NEW b \in Benchmarks,
         \/ EngineStep
         \/ \E c \in Benchmarks : Start(c, asked[c])
  PROVE  /\ DOMAIN bench' = Benchmarks
         /\ DOMAIN bench'[b] = {"status", "waiting", "raised", "results"}
         /\ Over(bench[b].status) => Over(bench'[b].status)
<1> USE DEF Shape, Over
<1>1. ASSUME NEW c \in Benchmarks, Start(c, asked[c])
      PROVE  /\ DOMAIN bench' = Benchmarks
             /\ DOMAIN bench'[b] = {"status", "waiting", "raised", "results"}
             /\ Over(bench[b].status) => Over(bench'[b].status)
  BY <1>1, NoBenchmarkAssumption DEF Start, NoBenchmark
<1>2. ASSUME NEW c \in Benchmarks,
             Begin(c) \/ RunEnds(c) \/ RunRaises(c) \/ Complete(c) \/ Fail(c)
      PROVE  /\ DOMAIN bench' = Benchmarks
             /\ DOMAIN bench'[b] = {"status", "waiting", "raised", "results"}
             /\ Over(bench[b].status) => Over(bench'[b].status)
  <2>1. CASE Begin(c)
    BY <2>1 DEF Begin
  <2>2. CASE RunEnds(c)
    BY <2>2 DEF RunEnds
  <2>3. CASE RunRaises(c)
    BY <2>3 DEF RunRaises
  <2>4. CASE Complete(c)
    BY <2>4 DEF Complete, Finish
  <2>5. CASE Fail(c)
    BY <2>5 DEF Fail, Finish
  <2>6. QED
    BY <1>2, <2>1, <2>2, <2>3, <2>4, <2>5
<1>3. QED
  BY <1>1, <1>2 DEF EngineStep

\* The invariant does not depend on more than this, and not on how far the
\* benchmarks are.
LEMMA InvKept ==
  ASSUME Inv, UNCHANGED <<runningId, rendered, api, fresh>>,
         DOMAIN bench' = Benchmarks,
         \A b \in Benchmarks :
           /\ DOMAIN bench'[b] = {"status", "waiting", "raised", "results"}
           /\ Over(bench[b].status) => Over(bench'[b].status),
         DOMAIN posts' = Benchmarks,
         \A b \in Benchmarks : posts'[b] = "mine" => posts[b] = "mine",
         ~doubled' => ~doubled
  PROVE  Inv'
<1> USE DEF Inv
<1>1. Shape'
  BY DEF Shape, IsHook
<1>2. AboutRendered'
  BY DEF Shape, AboutRendered, Honest, Truthful
<1>3. OneAtATime'
  BY DEF OneAtATime
<1>4. QED
  BY <1>1, <1>2, <1>3

\* Every step keeps what the stage waits for about one benchmark.
LEMMA InvStep == Inv /\ [Next]_vars => Inv'
<1> SUFFICES ASSUME Inv, [Next]_vars PROVE Inv'
  OBVIOUS
<1> USE DEF Inv
<1>1. CASE Leave
  <2>1. Shape'
    BY <1>1 DEF Leave, server, Shape, IsHook, Mounted, Idle
  <2>2. AboutRendered'
    BY <1>1 DEF Leave, AboutRendered, Honest, Mounted, Idle
  <2>3. OneAtATime'
    BY <1>1 DEF Leave, OneAtATime, Shape
  <2>4. QED
    BY <2>1, <2>2, <2>3
<1>2. CASE Render
  <2>1. /\ rendered' = runningId /\ fresh' = FALSE /\ runningId' \in {runningId, None}
        /\ UNCHANGED <<bench, posts, doubled>>
    BY <1>2 DEF Render, server, calls
  <2>2. IsHook(api)'
    BY <1>2, ReloadEach DEF Render, Shape
  <2>3. Shape'
    BY <2>1, <2>2 DEF Shape
  <2>4. AboutRendered'
    <3>1. CASE runningId = rendered
      BY <1>2, <2>1, <3>1 DEF Render, AboutRendered, Honest, Truthful
    <3>2. CASE runningId # rendered
      <4>1. api' = Reload(api, runningId)
        BY <1>2, <3>2 DEF Render
      <4>2. \A s \in Slots : api'.requests[s] = Idle \/ NewRequest(api'.requests[s], rendered')
        BY <2>1, <4>1, ReloadEach DEF Shape
      <4>3. \A s \in Slots : Honest(api.requests[s])'
        BY <4>2 DEF Honest, Idle, NewRequest
      <4>4. QED
        BY <2>1, <4>3 DEF AboutRendered
    <3>3. QED
      BY <3>1, <3>2
  <2>5. OneAtATime'
    BY <2>1 DEF OneAtATime
  <2>6. QED
    BY <2>3, <2>4, <2>5
<1>3. CASE Poll
  <2>1. /\ api' = WrappedLoad(api, rendered)
        /\ UNCHANGED <<bench, posts, doubled, runningId, rendered, fresh>>
    BY <1>3 DEF Poll, server, calls
  <2>2. IsHook(api)' /\ (fresh => api'.data = api.data)
    BY <2>1, WrappedLoadEach DEF Shape
  <2>3. \A s \in Slots : api'.requests[s] = api.requests[s] \/ NewRequest(api'.requests[s], rendered)
    BY <2>1, WrappedLoadEach DEF Shape
  <2>4. \A s \in Slots : Honest(api.requests[s])'
    BY <2>1, <2>3 DEF AboutRendered, Honest, NewRequest, Truthful
  <2>5. AboutRendered'
    BY <2>1, <2>2, <2>4 DEF AboutRendered, Truthful
  <2>6. QED
    BY <2>1, <2>2, <2>5 DEF Shape, OneAtATime
<1>4. ASSUME NEW b \in Benchmarks, Click(b)
      PROVE  Inv'
  <2>1. /\ posts[b] = "none" /\ posts' = [posts EXCEPT ![b] = "mine"]
        /\ UNCHANGED <<bench, runningId, rendered, api, fresh>>
        /\ rendered = None
    <3>1. \E c \in Benchmarks : New(c)
      BY <1>4 DEF Click
    <3>2. New(b)
      BY <1>4, <3>1 DEF Click
    <3>3. QED
      BY <1>4, <3>2 DEF Click, New, Enabled, server, detail
  <2>2. ~doubled' => runningId = None /\ \A c \in Benchmarks : posts[c] # "mine"
    BY <1>4 DEF Click
  <2>3. Shape' /\ AboutRendered'
    BY <2>1 DEF Shape, IsHook, AboutRendered, Honest, Truthful
  <2>4. OneAtATime'
    BY <2>1, <2>2 DEF OneAtATime, Shape
  <2>5. QED
    BY <2>3, <2>4
<1>5. ASSUME NEW b \in Benchmarks, Created(b)
      PROVE  Inv'
  <2>1. /\ posts[b] = "mine" /\ posts' = [posts EXCEPT ![b] = "none"]
        /\ runningId' = b /\ UNCHANGED <<bench, rendered, api, fresh, doubled>>
    BY <1>5 DEF Created, server, detail
  <2>2. Shape' /\ AboutRendered'
    BY <2>1 DEF Shape, IsHook, AboutRendered, Honest, Truthful
  <2>3. OneAtATime'
    BY <2>1 DEF OneAtATime, Shape
  <2>4. QED
    BY <2>2, <2>3
<1>6. ASSUME NEW b \in Benchmarks, Create(b)
      PROVE  Inv'
  <2>1. /\ UNCHANGED <<runningId, rendered, api, fresh, doubled>>
        /\ posts' = [posts EXCEPT ![b] = IF @ = "old" THEN "none" ELSE @]
        /\ Start(b, asked[b])
    BY <1>6 DEF Create, detail
  <2>2. DOMAIN posts' = Benchmarks /\ \A c \in Benchmarks : posts'[c] = "mine" => posts[c] = "mine"
    BY <2>1 DEF Shape
  <2>3. QED
    BY <2>1, <2>2, BenchSteps, InvKept
<1>7. ASSUME NEW b \in Benchmarks, ClickFails(b)
      PROVE  Inv'
  <2>1. /\ UNCHANGED <<bench, runningId, rendered, api, fresh, doubled>>
        /\ posts' = [posts EXCEPT ![b] = "none"] \/ posts' = [posts EXCEPT ![b] = "old"]
    BY <1>7 DEF ClickFails, server, detail
  <2>2. DOMAIN posts' = Benchmarks /\ \A c \in Benchmarks : posts'[c] = "mine" => posts[c] = "mine"
    BY <2>1 DEF Shape
  <2>3. QED
    BY <2>1, <2>2, InvKept DEF Shape
<1>8. ASSUME NEW s \in Slots, ReadSummary(s)
      PROVE  Inv'
  <2> DEFINE r == api.requests[s]
             a == [id |-> r.path, status |-> None,
                   summary |-> Summary(bench[r.path].results),
                   added |-> Len(bench[r.path].results), seen |-> 0]
  <2>1. /\ r.stage = "sent" /\ api' = [api EXCEPT !.requests[s].answer = a]
        /\ UNCHANGED <<bench, posts, runningId, rendered, fresh, doubled>>
    BY <1>8 DEF ReadSummary, server, calls
  <2>2. DOMAIN a = {"id", "status", "summary", "added", "seen"} /\ a.id = r.path
    OBVIOUS
  <2> HIDE DEF a
  <2>3. /\ IsHook(api)' /\ api'.data = api.data
        /\ \A t \in Slots \ {s} : api'.requests[t] = api.requests[t]
        /\ api'.requests[s].stage = "sent" /\ api'.requests[s].path = r.path
        /\ api'.requests[s].answer = a
    BY <2>1 DEF Shape, IsHook
  <2>4. \A t \in Slots : Honest(api.requests[t])'
    BY <2>1, <2>2, <2>3 DEF AboutRendered, Honest, Truthful
  <2>5. QED
    BY <2>1, <2>3, <2>4 DEF Shape, AboutRendered, Truthful, OneAtATime
<1>9. ASSUME NEW s \in Slots, ReadStatus(s)
      PROVE  Inv'
  <2> DEFINE r == api.requests[s]
             seen == Len(bench[r.path].results)
             a == [r.answer EXCEPT !.status = bench[r.path].status, !.seen = seen]
  <2>1. /\ r.stage = "sent" /\ r.answer # None /\ api' = Answer(api, s, a)
        /\ UNCHANGED <<bench, posts, runningId, rendered, fresh, doubled>>
    BY <1>9 DEF ReadStatus, server, calls
  <2>2. DOMAIN r.answer = {"id", "status", "summary", "added", "seen"} /\ r.answer.id = r.path
    BY <2>1 DEF AboutRendered, Honest
  <2>3. a.id = r.path /\ a.status = bench[r.path].status
    BY <2>2
  <2>4. Truthful(a, r.path)
    BY <2>3 DEF Truthful
  <2> HIDE DEF a
  <2>5. /\ IsHook(api)' /\ api'.data = api.data
        /\ \A t \in Slots \ {s} : api'.requests[t] = api.requests[t]
        /\ api'.requests[s].stage = "answered" /\ api'.requests[s].path = r.path
        /\ api'.requests[s].answer = a
    BY <2>1 DEF Shape, IsHook, Answer
  <2>6. \A t \in Slots : Honest(api.requests[t])'
    BY <2>1, <2>4, <2>5 DEF AboutRendered, Honest, Truthful
  <2>7. QED
    BY <2>1, <2>5, <2>6 DEF Shape, AboutRendered, Truthful, OneAtATime
<1>10. ASSUME NEW s \in Slots, DetailArrives(s)
       PROVE  Inv'
  <2>1. /\ api.requests[s].stage = "answered"
        /\ api' = [Resolve(api, s) EXCEPT !.loading = TRUE]
        /\ fresh' /\ UNCHANGED <<bench, posts, runningId, rendered, doubled>>
    BY <1>10 DEF DetailArrives, server, calls
  <2>2. /\ IsHook(api)' /\ api'.data = api.requests[s].answer
        /\ api'.requests = [api.requests EXCEPT ![s] = Idle]
    BY <2>1 DEF Shape, IsHook, Resolve, Idle
  <2>3. \A t \in Slots : Honest(api.requests[t])'
    BY <2>1, <2>2 DEF AboutRendered, Honest, Truthful, Idle, Shape, IsHook
  <2>4. rendered # None /\ Truthful(api.data, rendered)'
    BY <2>1, <2>2 DEF AboutRendered, Honest, Truthful
  <2>5. QED
    BY <2>1, <2>2, <2>3, <2>4 DEF Shape, AboutRendered, OneAtATime
<1>11. ASSUME NEW s \in Slots, DetailFails(s)
       PROVE  Inv'
  <2>1. /\ api' = [Reject(api, s) EXCEPT !.error = FALSE, !.loading = TRUE]
        /\ UNCHANGED <<bench, posts, runningId, rendered, fresh, doubled>>
    BY <1>11 DEF DetailFails, server, calls
  <2>2. /\ IsHook(api)' /\ api'.data = api.data
        /\ api'.requests = [api.requests EXCEPT ![s] = Idle]
    BY <2>1 DEF Shape, IsHook, Reject, Idle
  <2>3. \A t \in Slots : Honest(api.requests[t])'
    BY <2>1, <2>2 DEF AboutRendered, Honest, Truthful, Idle, Shape, IsHook
  <2>4. QED
    BY <2>1, <2>2, <2>3 DEF Shape, AboutRendered, Truthful, OneAtATime
<1>12. CASE EngineStep /\ UNCHANGED stage
  <2>1. UNCHANGED <<runningId, rendered, api, fresh>> /\ UNCHANGED <<posts, doubled>>
    BY <1>12 DEF stage
  <2>2. DOMAIN posts' = Benchmarks /\ \A c \in Benchmarks : posts'[c] = "mine" => posts[c] = "mine"
    BY <2>1 DEF Shape
  <2>3. EngineStep
    BY <1>12
  <2>4. DOMAIN bench' = Benchmarks
    BY <2>3 DEF EngineStep, Begin, RunEnds, RunRaises, Complete, Fail, Finish, Shape
  <2>5. QED
    BY <2>1, <2>2, <2>3, <2>4, BenchSteps, InvKept
<1>13. ASSUME \/ Show \/ Toggle \/ UNCHANGED vars
              \/ \E b \in Benchmarks : MessageArrives(b) \/ EventLost(b)
       PROVE  Inv'
  <2>1. UNCHANGED <<bench, posts, runningId, rendered, api, fresh, doubled>>
    BY <1>13 DEF Show, Toggle, MessageArrives, EventLost, vars, server, stage, calls, detail
  <2>2. QED
    BY <2>1, InvKept DEF Shape
<1>14. QED
  BY <1>1, <1>2, <1>3, <1>4, <1>5, <1>6, <1>7, <1>8, <1>9, <1>10, <1>11, <1>12, <1>13 DEF Next

\* Whoever releases the button has rendered a detail of the benchmark that runs.
LEMMA ReleaseStep ==
  ASSUME Inv, [Next]_vars, here', ~doubled, runningId # None, runningId' = None
  PROVE  Over(bench[runningId].status)
<1>1. Render
  <2>1. ASSUME NEW b \in Benchmarks,
               Click(b) \/ Create(b) \/ ClickFails(b) \/ MessageArrives(b) \/ EventLost(b)
        PROVE  runningId' = runningId
    BY <2>1 DEF Click, Create, ClickFails, MessageArrives, EventLost
  <2>2. ASSUME NEW b \in Benchmarks, Created(b)
        PROVE  runningId' # None
    BY <2>2, NoBenchmarkAssumption DEF Created
  <2>3. ASSUME NEW s \in Slots,
               ReadSummary(s) \/ ReadStatus(s) \/ DetailArrives(s) \/ DetailFails(s)
        PROVE  runningId' = runningId
    BY <2>3 DEF ReadSummary, ReadStatus, DetailArrives, DetailFails
  <2>4. ASSUME Show \/ Toggle \/ Poll \/ (EngineStep /\ UNCHANGED stage) \/ UNCHANGED vars
        PROVE  runningId' = runningId
    BY <2>4 DEF Show, Toggle, Poll, stage, vars
  <2>5. ~Leave
    BY DEF Leave
  <2>6. \/ Render \/ runningId' = runningId
        \/ \E b \in Benchmarks : Created(b)
    BY <2>1, <2>3, <2>4, <2>5 DEF Next
  <2>7. QED
    BY <2>2, <2>6
<1>2. fresh /\ Over(api.data.status)
  BY <1>1 DEF Render, Released
<1>3. Truthful(api.data, runningId)
  BY <1>2 DEF Inv, AboutRendered, OneAtATime
<1>4. QED
  BY <1>2, <1>3 DEF Truthful

\* The button is given free for another benchmark only when the one it was
\* disabled for is over, unless it was clicked twice before the first answer
\* (BenchmarkStage.tsx 17-27, 41-70; benchmark.py 57-131).
THEOREM ReleasedInTime == Spec => ReleasedOnlyWhenOver
<1>1. Inv /\ [Next]_vars =>
        [here' /\ ~doubled /\ runningId # None /\ runningId' = None
           => Over(bench[runningId].status)]_vars
  BY ReleaseStep
<1>2. QED
  BY <1>1, InvInit, InvStep, PTL DEF Spec, ReleasedOnlyWhenOver

-----------------------------------------------------------------------------
(* The table.                                                              *)

IsSeq(s) == \E S : s \in Seq(S)

\* What is put at the end of a sequence.
LEMMA AppendSeq ==
  ASSUME NEW s, IsSeq(s), NEW x
  PROVE  /\ IsSeq(Append(s, x)) /\ Append(s, x) = s \o <<x>>
         /\ Len(s) \in Nat /\ Len(Append(s, x)) = Len(s) + 1
         /\ \A i \in 1..Len(s) : Append(s, x)[i] = s[i]
         /\ Append(s, x)[Len(s) + 1] = x
<1>1. PICK S : s \in Seq(S)
  BY DEF IsSeq
<1>2. s \in Seq(S \cup {x})
  BY <1>1
<1>3. Append(s, x) \in Seq(S \cup {x})
  BY <1>2
<1>4. QED
  BY <1>2, <1>3 DEF IsSeq

\* What has been put at the end does not change the beginning.
LEMMA PrefixKept ==
  ASSUME NEW s, IsSeq(s), NEW x, NEW n \in 0..Len(s)
  PROVE  n \in 0..Len(Append(s, x)) /\ SubSeq(Append(s, x), 1, n) = SubSeq(s, 1, n)
<1>1. PICK S : s \in Seq(S)
  BY DEF IsSeq
<1>2. s \in Seq(S \cup {x}) /\ Append(s, x) \in Seq(S \cup {x})
  BY <1>1
<1>3. /\ Len(s) \in Nat /\ Len(Append(s, x)) = Len(s) + 1
      /\ \A i \in 1..Len(s) : Append(s, x)[i] = s[i]
  BY <1>2
<1>4. n \in Nat /\ n <= Len(s) /\ \A i \in 1..n : Append(s, x)[i] = s[i]
  BY <1>3
<1>5. SubSeq(Append(s, x), 1, n) = SubSeq(s, 1, n)
  BY <1>2, <1>3, <1>4
<1>6. QED
  BY <1>3, <1>4, <1>5

\* The summary of a detail is of the first results of its benchmark.
Begun(d) ==
  /\ d.id \in Benchmarks
  /\ d.added \in 0..Len(bench[d.id].results)
  /\ d.summary = Summary(SubSeq(bench[d.id].results, 1, d.added))

\* A detail that says completed is of a benchmark that is, and whoever read it
\* saw its last result before reading the status.
Conclusive(d) ==
  d.status = "completed" =>
    /\ Begun(d)
    /\ bench[d.id].status = "completed"
    /\ d.seen = Len(bench[d.id].results)

NothingLeft == \A b \in Benchmarks : bench[b].status = "completed" => bench[b].waiting = <<>>

Recorded ==
  \A b \in Benchmarks : /\ IsSeq(bench[b].results)
                        /\ bench[b].status = None => bench[b].results = <<>>

Sound(r) == /\ r.stage = "sent" /\ r.answer # None => Begun(r.answer)
            /\ r.stage = "answered" => Conclusive(r.answer)

Conclusions ==
  /\ \A s \in Slots : Sound(api.requests[s])
  /\ api.data # None => Conclusive(api.data)

TableInv == NothingLeft /\ Recorded /\ Conclusions

\* A benchmark that is completed has no run left that could end or raise.
LEMMA CompletedStays ==
  ASSUME Inv, NothingLeft, NEW b \in Benchmarks,
         \/ EngineStep
         \/ \E c \in Benchmarks : Start(c, asked[c])
  PROVE  /\ bench[b].status = "completed" => bench'[b] = bench[b]
         /\ bench'[b].status = "completed" => bench'[b].waiting = <<>>
<1> USE DEF Inv, Shape, NothingLeft
<1>1. ASSUME NEW c \in Benchmarks, Start(c, asked[c])
      PROVE  /\ bench[b].status = "completed" => bench'[b] = bench[b]
             /\ bench'[b].status = "completed" => bench'[b].waiting = <<>>
  BY <1>1, NoBenchmarkAssumption DEF Start, NoBenchmark
<1>2. ASSUME NEW c \in Benchmarks,
             Begin(c) \/ RunEnds(c) \/ RunRaises(c) \/ Complete(c) \/ Fail(c)
      PROVE  /\ bench[b].status = "completed" => bench'[b] = bench[b]
             /\ bench'[b].status = "completed" => bench'[b].waiting = <<>>
  <2>1. CASE Begin(c)
    BY <2>1 DEF Begin
  <2>2. CASE RunEnds(c) \/ RunRaises(c)
    <3>1. /\ Active(c) # {} /\ bench'[c].status = bench[c].status
          /\ b # c => bench'[b] = bench[b]
      BY <2>2 DEF RunEnds, RunRaises
    <3>2. bench[c].waiting # <<>>
      BY <3>1 DEF Active
    <3>3. QED
      BY <3>1, <3>2
  <2>3. CASE Complete(c)
    BY <2>3 DEF Complete, Finish
  <2>4. CASE Fail(c)
    BY <2>4 DEF Fail, Finish
  <2>5. QED
    BY <1>2, <2>1, <2>2, <2>3, <2>4
<1>3. QED
  BY <1>1, <1>2 DEF EngineStep

\* Results are only added, and none before the benchmark is created.
LEMMA ResultsGrow ==
  ASSUME Inv, Recorded, NEW b \in Benchmarks,
         \/ EngineStep
         \/ \E c \in Benchmarks : Start(c, asked[c])
  PROVE  /\ bench'[b].results = bench[b].results
            \/ \E x : bench'[b].results = Append(bench[b].results, x)
         /\ bench'[b].status = None => bench'[b].results = <<>>
<1> USE DEF Inv, Shape, Recorded
<1>1. ASSUME NEW c \in Benchmarks, Start(c, asked[c])
      PROVE  /\ bench'[b].results = bench[b].results
             /\ bench'[b].status = None => bench'[b].results = <<>>
  BY <1>1, NoBenchmarkAssumption DEF Start, NoBenchmark
<1>2. ASSUME NEW c \in Benchmarks, RunEnds(c)
      PROVE  /\ bench'[b].results = bench[b].results
                \/ \E x : bench'[b].results = Append(bench[b].results, x)
             /\ bench'[b].status = None => bench'[b].results = <<>>
  <2>1. CASE b = c
    <3>1. PICK i \in Active(c) :
            bench' = [bench EXCEPT ![c].waiting = RemoveAt(@, i),
                                   ![c].results = Append(@, bench[c].waiting[i])]
      BY <1>2 DEF RunEnds
    <3>2. bench'[b].results = Append(bench[b].results, bench[c].waiting[i])
          /\ bench'[b].status = bench[b].status
      BY <2>1, <3>1
    <3>3. bench[b].status # None
      BY <2>1, <3>1 DEF Active
    <3>4. QED
      BY <3>2, <3>3
  <2>2. CASE b # c
    BY <1>2, <2>2 DEF RunEnds
  <2>3. QED
    BY <2>1, <2>2
<1>3. ASSUME NEW c \in Benchmarks, Begin(c) \/ RunRaises(c) \/ Complete(c) \/ Fail(c)
      PROVE  /\ bench'[b].results = bench[b].results
             /\ bench'[b].status = None => bench'[b].results = <<>>
  <2>1. CASE Begin(c)
    BY <2>1, NoBenchmarkAssumption DEF Begin
  <2>2. CASE RunRaises(c)
    <3>1. bench'[b].results = bench[b].results /\ bench'[b].status = bench[b].status
      BY <2>2 DEF RunRaises
    <3>2. QED
      BY <3>1
  <2>3. CASE Complete(c) \/ Fail(c)
    BY <2>3, NoBenchmarkAssumption DEF Complete, Fail, Finish
  <2>4. QED
    BY <1>3, <2>1, <2>2, <2>3
<1>4. QED
  BY <1>1, <1>2, <1>3 DEF EngineStep

\* What the results begin with does not change any more.
PrefixesKept ==
  \A b \in Benchmarks : \A n \in 0..Len(bench[b].results) :
    /\ n \in 0..Len(bench'[b].results)
    /\ SubSeq(bench'[b].results, 1, n) = SubSeq(bench[b].results, 1, n)

\* What is concluded stays true while the stage does not act.
LEMMA TableKept ==
  ASSUME TableInv, NothingLeft', Recorded', PrefixesKept,
         \A b \in Benchmarks : bench[b].status = "completed" => bench'[b] = bench[b],
         api'.data = api.data \/ api'.data = None,
         \A s \in Slots : \/ api'.requests[s] = api.requests[s]
                          \/ api'.requests[s].stage # "answered" /\ api'.requests[s].answer = None
  PROVE  TableInv'
<1>1. \A d : Begun(d) => Begun(d)'
  BY DEF Begun, PrefixesKept
<1>2. \A d : Conclusive(d) => Conclusive(d)'
  BY <1>1 DEF Conclusive, Begun
<1>3. ASSUME NEW s \in Slots
      PROVE  Sound(api.requests[s])'
  <2>1. CASE api'.requests[s] = api.requests[s]
    <3>1. Sound(api.requests[s])
      BY DEF TableInv, Conclusions
    <3>2. QED
      BY <1>1, <1>2, <2>1, <3>1 DEF Sound, Conclusive, Begun
  <2>2. CASE api'.requests[s].stage # "answered" /\ api'.requests[s].answer = None
    BY <2>2 DEF Sound
  <2>3. QED
    BY <2>1, <2>2
<1>4. (api.data # None => Conclusive(api.data))'
  BY <1>2 DEF TableInv, Conclusions, Conclusive, Begun
<1>5. QED
  BY <1>3, <1>4 DEF TableInv, Conclusions

\* Every step keeps what the details on their way conclude.
LEMMA TableStep == Inv /\ TableInv /\ [Next]_vars => TableInv'
<1> SUFFICES ASSUME Inv, TableInv, [Next]_vars PROVE TableInv'
  OBVIOUS
<1>1. ASSUME UNCHANGED bench
      PROVE  /\ NothingLeft' /\ Recorded' /\ PrefixesKept
             /\ \A b \in Benchmarks : bench[b].status = "completed" => bench'[b] = bench[b]
             /\ \A d : (Begun(d) => Begun(d)') /\ (Conclusive(d) => Conclusive(d)')
  BY <1>1 DEF TableInv, NothingLeft, Recorded, PrefixesKept, Begun, Conclusive
<1>2. CASE Leave
  <2>1. UNCHANGED bench /\ api'.data = None
        /\ \A s \in Slots : api'.requests[s].stage # "answered" /\ api'.requests[s].answer = None
    BY <1>2 DEF Leave, server, Mounted, Idle
  <2>2. QED
    BY <1>1, <2>1, TableKept
<1>3. CASE Render
  <2>1. UNCHANGED bench /\ api'.data = api.data
        /\ \A s \in Slots :
             \/ api'.requests[s] = api.requests[s]
             \/ api'.requests[s].stage # "answered" /\ api'.requests[s].answer = None
    <3>1. UNCHANGED bench /\ api' \in {api, Reload(api, runningId)}
      BY <1>3 DEF Render, server
    <3>2. IsHook(api)
      BY DEF Inv, Shape
    <3>3. \A s \in Slots : \/ Reload(api, runningId).requests[s] = Idle
                          \/ NewRequest(Reload(api, runningId).requests[s], runningId)
      BY <3>2, ReloadEach
    <3>4. \A s \in Slots : /\ Reload(api, runningId).requests[s].stage # "answered"
                         /\ Reload(api, runningId).requests[s].answer = None
      BY <3>3 DEF Idle, NewRequest
    <3>5. Reload(api, runningId).data = api.data
      BY <3>2, ReloadEach
    <3>6. QED
      BY <3>1, <3>4, <3>5
  <2>2. QED
    BY <1>1, <2>1, TableKept
<1>4. CASE Poll
  <2>1. UNCHANGED bench /\ api'.data = api.data
        /\ \A s \in Slots :
             \/ api'.requests[s] = api.requests[s]
             \/ api'.requests[s].stage # "answered" /\ api'.requests[s].answer = None
    <3>1. UNCHANGED bench /\ api' = WrappedLoad(api, rendered) /\ IsHook(api)
      BY <1>4 DEF Poll, server, Inv, Shape
    <3>2. /\ api'.data = api.data
          /\ \A s \in Slots : \/ api'.requests[s] = api.requests[s]
                              \/ NewRequest(api'.requests[s], rendered)
      BY <3>1, WrappedLoadEach
    <3>3. QED
      BY <3>1, <3>2 DEF NewRequest
  <2>2. QED
    BY <1>1, <2>1, TableKept
<1>5. ASSUME NEW s \in Slots, ReadSummary(s)
      PROVE  TableInv'
  <2> DEFINE r == api.requests[s]
             results == bench[r.path].results
             a == [id |-> r.path, status |-> None, summary |-> Summary(results),
                   added |-> Len(results), seen |-> 0]
  <2>1. /\ r.stage = "sent" /\ api' = [api EXCEPT !.requests[s].answer = a] /\ UNCHANGED bench
    BY <1>5 DEF ReadSummary, server
  <2>2. r.path \in Benchmarks /\ IsSeq(results)
    BY <2>1 DEF Inv, AboutRendered, Honest, Shape, TableInv, Recorded
  <2>3. Begun(a)
    <3>1. a.id = r.path /\ a.added = Len(results) /\ a.summary = Summary(results)
      OBVIOUS
    <3> HIDE DEF a
    <3>2. PICK S : results \in Seq(S)
      BY <2>2 DEF IsSeq
    <3>3. SubSeq(results, 1, Len(results)) = results /\ Len(results) \in 0..Len(results)
      BY <3>2
    <3>4. QED
      BY <2>2, <3>1, <3>3 DEF Begun
  <2> HIDE DEF a
  <2>4. /\ api'.data = api.data /\ api'.requests[s].answer = a
        /\ api'.requests[s].stage = "sent"
        /\ \A t \in Slots \ {s} : api'.requests[t] = api.requests[t]
    BY <2>1 DEF Inv, Shape, IsHook
  <2>5. ASSUME NEW t \in Slots
        PROVE  Sound(api.requests[t])'
    <3>1. CASE t = s
      BY <2>1, <2>3, <2>4, <3>1 DEF Sound, Begun
    <3>2. CASE t # s
      BY <2>1, <2>4, <3>2 DEF TableInv, Conclusions, Sound, Conclusive, Begun
    <3>3. QED
      BY <3>1, <3>2
  <2>6. (api.data # None => Conclusive(api.data))'
    BY <2>1, <2>4 DEF TableInv, Conclusions, Conclusive, Begun
  <2>7. QED
    BY <1>1, <2>1, <2>5, <2>6 DEF TableInv, Conclusions
<1>6. ASSUME NEW s \in Slots, ReadStatus(s)
      PROVE  TableInv'
  <2> DEFINE r == api.requests[s]
             seen == Len(bench[r.path].results)
             a == [r.answer EXCEPT !.status = bench[r.path].status, !.seen = seen]
  <2>1. /\ r.stage = "sent" /\ r.answer # None /\ api' = Answer(api, s, a)
        /\ UNCHANGED bench
    BY <1>6 DEF ReadStatus, server
  <2>2. /\ DOMAIN r.answer = {"id", "status", "summary", "added", "seen"}
        /\ r.answer.id = r.path /\ r.path \in Benchmarks
    BY <2>1 DEF Inv, AboutRendered, Honest, Shape
  <2>3. Begun(r.answer)
    BY <2>1 DEF TableInv, Conclusions, Sound
  <2>4. Conclusive(a)
    <3>1. /\ a.id = r.path /\ a.added = r.answer.added /\ a.summary = r.answer.summary
          /\ a.status = bench[r.path].status /\ a.seen = seen
      BY <2>2
    <3> HIDE DEF a
    <3>2. QED
      BY <2>2, <2>3, <3>1 DEF Conclusive, Begun
  <2> HIDE DEF a
  <2>5. /\ api'.data = api.data /\ api'.requests[s].answer = a
        /\ api'.requests[s].stage = "answered"
        /\ \A t \in Slots \ {s} : api'.requests[t] = api.requests[t]
    BY <2>1 DEF Inv, Shape, IsHook, Answer
  <2>6. QED
    BY <1>1, <2>1, <2>4, <2>5 DEF TableInv, Conclusions, Sound, Conclusive, Begun
<1>7. ASSUME NEW s \in Slots, DetailArrives(s)
      PROVE  TableInv'
  <2>1. /\ api.requests[s].stage = "answered"
        /\ api' = [Resolve(api, s) EXCEPT !.loading = TRUE] /\ UNCHANGED bench
    BY <1>7 DEF DetailArrives, server
  <2>2. /\ api'.data = api.requests[s].answer
        /\ api'.requests = [api.requests EXCEPT ![s] = Idle]
    BY <2>1 DEF Inv, Shape, IsHook, Resolve
  <2>3. api'.requests[s].stage = "idle"
        /\ \A t \in Slots \ {s} : api'.requests[t] = api.requests[t]
    BY <2>2 DEF Inv, Shape, IsHook, Idle
  <2>4. QED
    BY <1>1, <2>1, <2>2, <2>3 DEF TableInv, Conclusions, Sound, Conclusive, Begun
<1>8. ASSUME NEW s \in Slots, DetailFails(s)
      PROVE  TableInv'
  <2>1. api' = [Reject(api, s) EXCEPT !.error = FALSE, !.loading = TRUE] /\ UNCHANGED bench
    BY <1>8 DEF DetailFails, server
  <2>2. api'.data = api.data /\ api'.requests = [api.requests EXCEPT ![s] = Idle]
    BY <2>1 DEF Inv, Shape, IsHook, Reject
  <2>3. \A t \in Slots :
          \/ api'.requests[t] = api.requests[t]
          \/ api'.requests[t].stage # "answered" /\ api'.requests[t].answer = None
    BY <2>2 DEF Inv, Shape, IsHook, Idle
  <2>4. QED
    BY <1>1, <2>1, <2>2, <2>3, TableKept
<1>9. ASSUME \/ EngineStep /\ UNCHANGED stage
             \/ \E b \in Benchmarks : Create(b)
      PROVE  TableInv'
  <2>1. /\ UNCHANGED api
        /\ EngineStep \/ \E c \in Benchmarks : Start(c, asked[c])
    BY <1>9 DEF Create, stage, detail
  <2>2. \A b \in Benchmarks :
          /\ bench[b].status = "completed" => bench'[b] = bench[b]
          /\ bench'[b].status = "completed" => bench'[b].waiting = <<>>
    BY <2>1, CompletedStays DEF TableInv
  <2>3. ASSUME NEW b \in Benchmarks
        PROVE  /\ bench'[b].results = bench[b].results
                  \/ \E x : bench'[b].results = Append(bench[b].results, x)
               /\ bench'[b].status = None => bench'[b].results = <<>>
               /\ IsSeq(bench[b].results)
    <3>1. Recorded
      BY DEF TableInv
    <3>2. /\ bench'[b].results = bench[b].results
             \/ \E x : bench'[b].results = Append(bench[b].results, x)
          /\ bench'[b].status = None => bench'[b].results = <<>>
      BY <2>1, <3>1, ResultsGrow
    <3>3. IsSeq(bench[b].results)
      BY <3>1 DEF Recorded
    <3>4. QED
      BY <3>2, <3>3
  <2>4. Recorded'
    <3>1. ASSUME NEW b \in Benchmarks
          PROVE  IsSeq(bench'[b].results) /\ (bench'[b].status = None => bench'[b].results = <<>>)
      <4>1. \A x : IsSeq(Append(bench[b].results, x))
        BY <2>3, AppendSeq
      <4>2. QED
        BY <2>3, <4>1
    <3>2. QED
      BY <3>1 DEF Recorded
  <2>5. PrefixesKept
    BY <2>3, PrefixKept DEF PrefixesKept
  <2>6. QED
    BY <2>1, <2>2, <2>4, <2>5, TableKept DEF NothingLeft
<1>10. ASSUME \/ Show \/ Toggle \/ UNCHANGED vars
              \/ \E b \in Benchmarks : \/ Click(b) \/ Created(b) \/ ClickFails(b)
                                       \/ MessageArrives(b) \/ EventLost(b)
       PROVE  TableInv'
  <2>1. UNCHANGED <<bench, api>>
    BY <1>10 DEF Show, Toggle, Click, Created, ClickFails, MessageArrives, EventLost, vars,
       server, stage, detail
  <2>2. QED
    BY <1>1, <2>1, TableKept
<1>11. QED
  BY <1>2, <1>3, <1>4, <1>5, <1>6, <1>7, <1>8, <1>9, <1>10 DEF Next

\* There is no benchmark and no detail yet.
LEMMA TableInit == Init => TableInv
<1> SUFFICES ASSUME Init PROVE TableInv
  OBVIOUS
<1>1. NothingLeft /\ Conclusions
  BY NoBenchmarkAssumption
  DEF Init, EngineInit, NoBenchmark, NothingLeft, Conclusions, Sound, Mounted, Idle
<1>2. IsSeq(<<>>)
  <2>1. <<>> \in Seq({})
    OBVIOUS
  <2>2. QED
    BY <2>1 DEF IsSeq
<1>3. Recorded
  BY <1>2 DEF Init, EngineInit, NoBenchmark, Recorded
<1>4. QED
  BY <1>1, <1>3 DEF TableInv

\* What the table of a completed benchmark lacks are the runs that ended while a
\* thread was between the summary and the status, and only those: every run had
\* ended when the status was read, and no later answer and no later step of the
\* engine changes what the table should have (benchmark.py 84-107, 153-204;
\* BenchmarkStage.tsx 125-161).
THEOREM TableLacksOnlyLateRuns == Spec => []TableIsFinal
<1>1. TableInv => TableIsFinal
  BY DEF TableInv, Conclusions, Conclusive, Begun, TableIsFinal, Results
<1>2. QED
  BY <1>1, InvInit, InvStep, TableInit, TableStep, PTL DEF Spec

-----------------------------------------------------------------------------
(* The log.                                                                *)

\* There is a position of every rank up to their number.
LEMMA OneOfEachRank ==
  ASSUME NEW A, IsFiniteSet(A), A \subseteq Nat, NEW k \in 1..Cardinality(A)
  PROVE  \E i \in A : Rank(A, i) = k
<1> DEFINE n == Cardinality(A)
           rank == [i \in A |-> Rank(A, i)]
<1>1. n \in Nat
  BY FS_CardinalityType
<1>2. ASSUME NEW i \in A
      PROVE  /\ IsFiniteSet({j \in A : j <= i}) /\ {j \in A : j <= i} \in SUBSET A
             /\ Rank(A, i) \in 1..n
  <2>1. {j \in A : j <= i} \in SUBSET A
    OBVIOUS
  <2>2. /\ IsFiniteSet({j \in A : j <= i}) /\ Rank(A, i) \in Nat /\ Rank(A, i) <= n
    BY <1>1, <2>1, FS_Subset, FS_CardinalityType DEF Rank
  <2>3. i \in {j \in A : j <= i}
    OBVIOUS
  <2>4. Rank(A, i) # 0
    BY <2>2, <2>3, FS_EmptySet DEF Rank
  <2>5. QED
    BY <1>1, <2>1, <2>2, <2>4
<1>3. ASSUME NEW i \in A, NEW j \in A, i < j
      PROVE  Rank(A, i) # Rank(A, j)
  <2> DEFINE below == {l \in A : l <= i}
             upTo == {l \in A : l <= j}
  <2>1. below \in SUBSET upTo /\ j \in upTo /\ j \notin below
    <3>1. i \in Nat /\ j \in Nat /\ \A l \in A : l \in Nat
      OBVIOUS
    <3>2. \A l \in A : l <= i => l <= j
      BY <1>3, <3>1
    <3>3. j <= j /\ ~(j <= i)
      BY <1>3, <3>1
    <3>4. QED
      BY <3>2, <3>3
  <2>2. IsFiniteSet(upTo)
    BY <1>2
  <2>3. Cardinality(below) # Cardinality(upTo)
    BY <2>1, <2>2, FS_Subset
  <2>4. QED
    BY <2>3 DEF Rank
<1>4. rank \in Injection(A, 1..n)
  <2>1. rank \in [A -> 1..n]
    BY <1>2
  <2>2. \A i \in A, j \in A : rank[i] = rank[j] => i = j
    BY <1>1, <1>3
  <2>3. QED
    BY <2>1, <2>2 DEF Injection, IsInjective
<1>5. IsFiniteSet(1..n) /\ Cardinality(1..n) = n
  BY <1>1, FS_Interval
<1>6. rank \in Surjection(A, 1..n)
  BY <1>4, <1>5, FS_Injection
<1>7. QED
  BY <1>6 DEF Surjection

\* The lines of a benchmark are some of the log's.
LEMMA OwnLines ==
  ASSUME NEW X, NEW lines \in Seq(X), NEW b
  PROVE  /\ LinesOf(lines, b) \subseteq 1..Len(lines) /\ Len(lines) \in Nat
         /\ IsFiniteSet(LinesOf(lines, b)) /\ Cardinality(LinesOf(lines, b)) \in Nat
<1>1. LinesOf(lines, b) \in SUBSET (1..Len(lines)) /\ Len(lines) \in Nat
  BY DEF LinesOf
<1>2. IsFiniteSet(1..Len(lines))
  BY <1>1, FS_Interval
<1>3. IsFiniteSet(LinesOf(lines, b))
  BY <1>1, <1>2, FS_Subset
<1>4. QED
  BY <1>1, <1>3, FS_CardinalityType

\* What is filtered is as long as the lines are many.
LEMMA FilteredLen ==
  ASSUME NEW X, NEW lines \in Seq(X), NEW b
  PROVE  /\ Len(Filtered(lines, b)) = Cardinality(LinesOf(lines, b))
         /\ Len(Filtered(lines, b)) \in Nat
         /\ DOMAIN Filtered(lines, b) = 1..Len(Filtered(lines, b))
<1> DEFINE own == LinesOf(lines, b)
           n == Cardinality(own)
           nth(k) == lines[CHOOSE i \in own : Rank(own, i) = k]
<1>1. n \in Nat
  BY OwnLines
<1>2. Filtered(lines, b) = [k \in 1..n |-> nth(k)]
  BY DEF Filtered
<1> HIDE DEF n, nth
<1>3. Len([k \in 1..n |-> nth(k)]) = n
  BY <1>1
<1>4. QED
  BY <1>1, <1>2, <1>3 DEF n

\* A line of another benchmark is left out, one of this is added.
LEMMA FilteredAppend ==
  ASSUME NEW X, NEW lines \in Seq(X), NEW x \in X, NEW b
  PROVE  /\ x[1] # b => Filtered(Append(lines, x), b) = Filtered(lines, b)
                        /\ LinesOf(Append(lines, x), b) = LinesOf(lines, b)
         /\ x[1] = b =>
              /\ Len(Filtered(Append(lines, x), b)) = Len(Filtered(lines, b)) + 1
              /\ \A k \in 1..Len(Filtered(lines, b)) :
                   Filtered(Append(lines, x), b)[k] = Filtered(lines, b)[k]
              /\ Filtered(Append(lines, x), b)[Len(Filtered(lines, b)) + 1] = x
<1> DEFINE A == LinesOf(lines, b)
           B == LinesOf(Append(lines, x), b)
           n == Len(lines)
           nthA(k) == CHOOSE i \in A : Rank(A, i) = k
           nthB(k) == CHOOSE i \in B : Rank(B, i) = k
<1>1. /\ n \in Nat /\ Append(lines, x) \in Seq(X) /\ Len(Append(lines, x)) = n + 1
      /\ \A i \in 1..n : Append(lines, x)[i] = lines[i]
      /\ Append(lines, x)[n + 1] = x
  OBVIOUS
<1>2. /\ A \subseteq 1..n /\ IsFiniteSet(A) /\ Cardinality(A) \in Nat
      /\ B \subseteq 1..(n + 1)
  BY <1>1, OwnLines
<1>3. /\ Filtered(lines, b) = [k \in 1..Cardinality(A) |-> lines[nthA(k)]]
      /\ Filtered(Append(lines, x), b) = [k \in 1..Cardinality(B) |-> Append(lines, x)[nthB(k)]]
  BY DEF Filtered
<1>4. /\ Len(Filtered(lines, b)) = Cardinality(A)
      /\ Len(Filtered(Append(lines, x), b)) = Cardinality(B)
  BY <1>1, FilteredLen
<1>5. \A k \in 1..Cardinality(A) : nthA(k) \in A /\ Rank(A, nthA(k)) = k
  BY <1>2, OneOfEachRank
<1>6. /\ \A i \in 1..n : i \in B <=> i \in A
      /\ n + 1 \in B <=> x[1] = b
  BY <1>1 DEF LinesOf
<1> HIDE DEF A, B
<1>7. B = IF x[1] = b THEN A \cup {n + 1} ELSE A
  <2>1. \A i \in 1..(n + 1) : i \in 1..n \/ i = n + 1
    BY <1>1
  <2>2. \A i \in B : i \in 1..(n + 1)
    BY <1>2
  <2>3. \A i \in A : i \in 1..n
    BY <1>2
  <2>4. CASE x[1] = b
    <3>1. \A i \in B : i \in A \cup {n + 1}
      BY <1>6, <2>1, <2>2
    <3>2. \A i \in A \cup {n + 1} : i \in B
      BY <1>6, <2>3, <2>4
    <3>3. B = A \cup {n + 1}
      BY <3>1, <3>2
    <3>4. QED
      BY <2>4, <3>3
  <2>5. CASE x[1] # b
    <3>1. \A i \in B : i \in A
      BY <1>6, <2>1, <2>2, <2>5
    <3>2. \A i \in A : i \in B
      BY <1>6, <2>3
    <3>3. B = A
      BY <3>1, <3>2
    <3>4. QED
      BY <2>5, <3>3
  <2>6. QED
    BY <2>4, <2>5
<1>8. CASE x[1] # b
  <2>1. B = A
    BY <1>7, <1>8
  <2>2. \A k \in 1..Cardinality(A) : nthB(k) = nthA(k)
    BY <2>1
  <2> HIDE DEF nthA, nthB
  <2>3. \A k \in 1..Cardinality(A) : Append(lines, x)[nthB(k)] = lines[nthA(k)]
    BY <1>1, <1>2, <1>5, <2>2
  <2>4. Filtered(Append(lines, x), b) = Filtered(lines, b)
    BY <1>3, <2>1, <2>3
  <2>5. QED
    BY <1>8, <2>1, <2>4 DEF A, B
<1>9. CASE x[1] = b
  <2>1. B = A \cup {n + 1} /\ n + 1 \notin A
    BY <1>1, <1>2, <1>7, <1>9
  <2>2. Cardinality(B) = Cardinality(A) + 1
    BY <1>2, <2>1, FS_AddElement
  <2>3. ASSUME NEW i \in A
        PROVE  Rank(B, i) = Rank(A, i) /\ Rank(A, i) # Cardinality(A) + 1
    <3>1. {h \in B : h <= i} = {h \in A : h <= i}
      BY <1>1, <1>2, <2>1
    <3>2. {h \in A : h <= i} \in SUBSET A
      OBVIOUS
    <3>3. Cardinality({h \in A : h <= i}) <= Cardinality(A) /\ Cardinality({h \in A : h <= i}) \in Nat
      BY <1>2, <3>2, FS_Subset, FS_CardinalityType
    <3>4. Rank(A, i) = Cardinality({h \in A : h <= i}) /\ Rank(B, i) = Rank(A, i)
      BY <3>1 DEF Rank
    <3>5. \A r \in Nat : r <= Cardinality(A) => r # Cardinality(A) + 1
      BY <1>2
    <3>6. QED
      BY <3>3, <3>4, <3>5
  <2>4. Rank(B, n + 1) = Cardinality(A) + 1
    <3>1. {h \in B : h <= n + 1} = B
      <4>1. \A h \in 1..(n + 1) : h <= n + 1
        BY <1>1
      <4>2. \A h \in B : h <= n + 1
        BY <1>2, <4>1
      <4>3. QED
        BY <4>2
    <3>2. QED
      BY <2>2, <3>1 DEF Rank
  <2>5. ASSUME NEW k \in 1..Cardinality(A)
        PROVE  nthB(k) = nthA(k)
    <3>1. k # Cardinality(A) + 1
      BY <1>2
    <3>2. ASSUME NEW i
          PROVE  (i \in B /\ Rank(B, i) = k) <=> (i \in A /\ Rank(A, i) = k)
      <4>1. CASE i \in A
        BY <2>1, <2>3, <4>1
      <4>2. CASE i = n + 1
        BY <2>1, <2>4, <3>1, <4>2
      <4>3. CASE i \notin A /\ i # n + 1
        BY <2>1, <4>3
      <4>4. QED
        BY <4>1, <4>2, <4>3
    <3>3. QED
      BY <3>2
  <2>6. nthB(Cardinality(A) + 1) = n + 1
    BY <2>1, <2>3, <2>4
  <2> HIDE DEF nthA, nthB
  <2>7. ASSUME NEW k \in 1..Cardinality(A)
        PROVE  Filtered(Append(lines, x), b)[k] = Filtered(lines, b)[k]
    <3>0. nthA(k) \in 1..n
      BY <1>2, <1>5
    <3>1. k \in 1..Cardinality(B) /\ nthA(k) \in 1..n
      <4>1. k \in 1..(Cardinality(A) + 1)
        BY <1>2
      <4>2. QED
        BY <2>2, <3>0, <4>1
    <3>2. Filtered(Append(lines, x), b)[k] = Append(lines, x)[nthA(k)]
      BY <1>3, <2>5, <3>1
    <3>3. QED
      BY <1>1, <1>3, <3>1, <3>2
  <2>8. Filtered(Append(lines, x), b)[Cardinality(A) + 1] = x
    <3>1. Cardinality(A) + 1 \in 1..Cardinality(B)
      BY <1>2, <2>2
    <3>2. QED
      BY <1>1, <1>3, <2>6, <3>1
  <2>9. QED
    BY <1>4, <1>9, <2>2, <2>7, <2>8 DEF A
<1>10. QED
  BY <1>8, <1>9

\* No lines, nothing filtered.
LEMMA FilteredNone ==
  ASSUME NEW X, NEW lines \in Seq(X), NEW b, LinesOf(lines, b) = {}
  PROVE  Len(Filtered(lines, b)) = 0
  BY FilteredLen, FS_EmptySet

\* How many of the runs of a benchmark the stream still has to tell.
Told(status, str) == IF status = "completed" THEN Len(str) - 1 ELSE Len(str)

\* The lines the log has of a benchmark and the events on their way are its
\* runs, in the order of their ends, and then that it is over.
Fits(b, status, results, str, lines) ==
  status # "failed" =>
    /\ Told(status, str) \in Nat
    /\ Len(results) = Len(lines) + Told(status, str)
    /\ \A k \in 1..Len(lines) : lines[k] = <<b, results[k]>>
    /\ \A i \in 1..Told(status, str) :
         str[i] = [type |-> "run_completed", run |-> results[Len(lines) + i]]
    /\ status = "completed" => str[Told(status, str) + 1].type = "done"

\* What is left when the head is taken.
LEMMA TailSeq ==
  ASSUME NEW s, IsSeq(s), s # <<>>
  PROVE  /\ IsSeq(Tail(s)) /\ Len(s) \in Nat \ {0}
         /\ Len(Tail(s)) = Len(s) - 1
         /\ \A i \in 1..(Len(s) - 1) : Tail(s)[i] = s[i + 1]
         /\ Head(s) = s[1]
<1>1. PICK S : s \in Seq(S)
  BY DEF IsSeq
<1>2. Tail(s) \in Seq(S) /\ Len(s) \in Nat \ {0}
  BY <1>1
<1>3. QED
  BY <1>1, <1>2 DEF IsSeq

\* A run ends: the engine puts it into the stream.
LEMMA FitsRun ==
  ASSUME NEW b, NEW status, NEW results, NEW str, NEW lines, NEW run,
         IsSeq(results), IsSeq(str), Len(lines) \in Nat,
         status # "completed", Fits(b, status, results, str, lines)
  PROVE  Fits(b, status, Append(results, run),
              str \o <<[type |-> "run_completed", run |-> run]>>, lines)
<1> DEFINE e == [type |-> "run_completed", run |-> run]
           r2 == Append(results, run)
           s2 == str \o <<e>>
           m == Len(str)
           n == Len(lines)
<1> HIDE DEF e
<1>1. /\ Len(results) \in Nat /\ Len(r2) = Len(results) + 1
      /\ \A i \in 1..Len(results) : r2[i] = results[i]
      /\ r2[Len(results) + 1] = run
  BY AppendSeq
<1>2. /\ m \in Nat /\ Len(s2) = m + 1
      /\ \A i \in 1..m : s2[i] = str[i]
      /\ s2[m + 1] = e
  BY AppendSeq
<1> HIDE DEF r2, s2, m, n
<1> SUFFICES ASSUME status # "failed"
             PROVE  Fits(b, status, r2, s2, lines)
  BY DEF r2, s2, e, Fits
<1>3. /\ Len(results) = n + m /\ n \in Nat
      /\ \A k \in 1..n : lines[k] = <<b, results[k]>>
      /\ \A i \in 1..m : str[i] = [type |-> "run_completed", run |-> results[n + i]]
  BY DEF Fits, Told, m, n
<1>4. Told(status, s2) = m + 1
  BY <1>2 DEF Told
<1>5. Len(r2) = n + (m + 1)
  BY <1>1, <1>2, <1>3
<1>6. \A k \in 1..n : lines[k] = <<b, r2[k]>>
  <2>1. \A k \in 1..n : k \in 1..Len(results)
    BY <1>2, <1>3
  <2>2. QED
    BY <1>1, <1>3, <2>1
<1>7. ASSUME NEW i \in 1..(m + 1)
      PROVE  s2[i] = [type |-> "run_completed", run |-> r2[n + i]]
  <2>1. CASE i = m + 1
    <3>1. n + i = Len(results) + 1
      BY <1>2, <1>3, <2>1
    <3>2. QED
      BY <1>1, <1>2, <2>1, <3>1 DEF e
  <2>2. CASE i # m + 1
    <3>1. i \in 1..m /\ n + i \in 1..Len(results)
      BY <1>2, <1>3, <2>2
    <3>2. QED
      BY <1>1, <1>2, <1>3, <3>1
  <2>3. QED
    BY <2>1, <2>2
<1>8. QED
  BY <1>2, <1>3, <1>4, <1>5, <1>6, <1>7 DEF Fits, n

\* The benchmark is completed.
LEMMA FitsCompleted ==
  ASSUME NEW b, NEW status, NEW results, NEW str, NEW lines, IsSeq(str),
         status \notin {"completed", "failed"}, Fits(b, status, results, str, lines)
  PROVE  Fits(b, "completed", results, str \o <<[type |-> "done", run |-> None]>>, lines)
<1> DEFINE e == [type |-> "done", run |-> None]
           s2 == str \o <<e>>
           m == Len(str)
<1> HIDE DEF e
<1>1. /\ m \in Nat /\ Len(s2) = m + 1
      /\ \A i \in 1..m : s2[i] = str[i]
      /\ s2[m + 1] = e
  BY AppendSeq
<1> HIDE DEF s2, m
<1>2. Told("completed", s2) = m /\ Told(status, str) = m
  BY <1>1 DEF Told, m
<1>3. s2[m + 1].type = "done"
  BY <1>1 DEF e
<1>4. Fits(b, "completed", results, s2, lines)
  BY <1>1, <1>2, <1>3 DEF Fits
<1>5. QED
  BY <1>4 DEF s2, e

\* An event is taken from the stream: a run, which is added to the log ...
LEMMA FitsMoved ==
  ASSUME NEW b, NEW status, NEW results, NEW str, NEW lines, NEW more,
         IsSeq(results), IsSeq(str), str # <<>>, Len(lines) \in Nat,
         Fits(b, status, results, str, lines), Head(str).type = "run_completed",
         Len(more) = Len(lines) + 1,
         \A k \in 1..Len(lines) : more[k] = lines[k],
         more[Len(lines) + 1] = <<b, Head(str).run>>
  PROVE  Fits(b, status, results, Tail(str), more)
<1> DEFINE s2 == Tail(str)
           m == Told(status, str)
           n == Len(lines)
<1>1. /\ Len(str) \in Nat \ {0} /\ Len(s2) = Len(str) - 1
      /\ \A i \in 1..(Len(str) - 1) : s2[i] = str[i + 1]
      /\ Head(str) = str[1]
  BY TailSeq
<1> HIDE DEF s2, m, n
<1> SUFFICES ASSUME status # "failed"
             PROVE  Fits(b, status, results, s2, more)
  BY DEF s2, Fits
<1>2. /\ m \in Nat /\ Len(results) = n + m /\ n \in Nat
      /\ \A k \in 1..n : lines[k] = <<b, results[k]>>
      /\ \A i \in 1..m : str[i] = [type |-> "run_completed", run |-> results[n + i]]
      /\ status = "completed" => str[m + 1].type = "done"
  BY DEF Fits, m, n
<1>3. m # 0
  <2>1. CASE status = "completed"
    BY <1>1, <1>2, <2>1
  <2>2. CASE status # "completed"
    BY <1>1, <2>2 DEF Told, m
  <2>3. QED
    BY <2>1, <2>2
<1>4. /\ Told(status, s2) = m - 1 /\ m - 1 \in Nat
      /\ m <= Len(str)
      /\ status = "completed" => m = Len(str) - 1
  BY <1>1, <1>2, <1>3 DEF Told, m
<1>5. Len(more) = n + 1 /\ Len(results) = Len(more) + (m - 1)
  BY <1>2 DEF n
<1>6. ASSUME NEW k \in 1..(n + 1)
      PROVE  more[k] = <<b, results[k]>>
  <2>1. CASE k = n + 1
    <3>1. 1 \in 1..m
      BY <1>2, <1>3
    <3>2. str[1] = [type |-> "run_completed", run |-> results[n + 1]]
      BY <1>2, <3>1
    <3>3. QED
      BY <1>1, <2>1, <3>2 DEF n
  <2>2. CASE k # n + 1
    <3>1. k \in 1..n
      BY <1>2, <2>2
    <3>2. QED
      BY <1>2, <3>1 DEF n
  <2>3. QED
    BY <2>1, <2>2
<1>7. ASSUME NEW i \in 1..(m - 1)
      PROVE  s2[i] = [type |-> "run_completed", run |-> results[(n + 1) + i]]
  <2>1. i + 1 \in 1..m /\ n + (i + 1) = (n + 1) + i
    BY <1>2, <1>3
  <2>3. i \in 1..(Len(str) - 1)
    BY <1>1, <1>2, <1>4
  <2>2. QED
    BY <1>1, <1>2, <2>1, <2>3
<1>8. ASSUME status = "completed"
      PROVE  s2[m - 1 + 1].type = "done"
  <2>1. m \in 1..(Len(str) - 1) /\ m - 1 + 1 = m
    BY <1>1, <1>2, <1>3, <1>4, <1>8
  <2>2. QED
    BY <1>1, <1>2, <1>8, <2>1
<1>9. QED
  BY <1>4, <1>5, <1>6, <1>7, <1>8 DEF Fits

\* ... or the end, when the log has all of them.
LEMMA FitsDone ==
  ASSUME NEW b, NEW status, NEW results, NEW str, NEW lines,
         IsSeq(results), IsSeq(str), str # <<>>, Len(lines) \in Nat,
         DOMAIN lines = 1..Len(lines), lines = [k \in 1..Len(lines) |-> lines[k]],
         Fits(b, status, results, str, lines), status # "failed",
         Head(str).type # "run_completed"
  PROVE  /\ status = "completed" /\ Head(str).type = "done"
         /\ lines = [i \in DOMAIN results |-> <<b, results[i]>>]
<1> DEFINE m == Told(status, str)
           n == Len(lines)
<1>1. Len(str) \in Nat \ {0} /\ Head(str) = str[1]
  BY TailSeq
<1>2. /\ m \in Nat /\ Len(results) = n + m
      /\ \A k \in 1..n : lines[k] = <<b, results[k]>>
      /\ \A i \in 1..m : str[i] = [type |-> "run_completed", run |-> results[n + i]]
      /\ status = "completed" => str[m + 1].type = "done"
  BY DEF Fits
<1>3. m = 0
  <2> HIDE DEF m
  <2>1. SUFFICES ASSUME 1 \in 1..m PROVE FALSE
    <3>1. m = 0 \/ 1 \in 1..m
      BY <1>2
    <3>2. QED
      BY <3>1
  <2>2. str[1].type = "run_completed"
    <3>1. str[1] = [type |-> "run_completed", run |-> results[n + 1]]
      BY <1>2, <2>1
    <3>2. QED
      BY <3>1
  <2>3. QED
    BY <1>1, <2>2
<1>4. status = "completed"
  BY <1>1, <1>3 DEF Told
<1>5. DOMAIN results = 1..n
  <2>1. PICK S : results \in Seq(S)
    BY DEF IsSeq
  <2>2. DOMAIN results = 1..Len(results)
    BY <2>1
  <2>3. Len(results) = n
    BY <1>2, <1>3
  <2>4. QED
    BY <2>2, <2>3
<1>6. [k \in 1..n |-> lines[k]] = [i \in DOMAIN results |-> <<b, results[i]>>]
  BY <1>2, <1>5
<1>7. lines = [i \in DOMAIN results |-> <<b, results[i]>>]
  BY <1>6
<1>8. str[1].type = "done"
  <2>1. m + 1 = 1
    BY <1>3
  <2>2. QED
    BY <1>2, <1>4, <2>1
<1>9. QED
  BY <1>1, <1>4, <1>7, <1>8

\* What the log and the streams are made of.
LogShape ==
  /\ DOMAIN stream = Benchmarks /\ DOMAIN sources = Benchmarks
  /\ IsSeq(logs)
  /\ \A b \in Benchmarks :
       /\ IsSeq(stream[b]) /\ IsSeq(bench[b].results)
       /\ bench[b].status = None => bench[b] = NoBenchmark

Follows(b, lines) == Fits(b, bench[b].status, bench[b].results, stream[b], lines)

\* Of a benchmark the stage does not know yet nothing has been told; of one it
\* listens to, the log and the stream together tell all; after that the log
\* does.
Heard(b) ==
  /\ bench[b].status = None \/ posts[b] = "mine" => sources[b] = "none" /\ Follows(b, <<>>)
  /\ sources[b] = "none" => LinesOf(logs, b) = {}
  /\ sources[b] = "open" /\ b \notin gaps => Follows(b, LogOf(b))
  /\ sources[b] = "closed" /\ b \notin gaps /\ bench[b].status # "failed" =>
       /\ bench[b].status = "completed"
       /\ LogOf(b) = [i \in DOMAIN bench[b].results |-> <<b, bench[b].results[i]>>]

LogInv == LogShape /\ \A b \in Benchmarks : Heard(b)

\* There is nothing to tell.
LEMMA LogInit == Init => LogInv
<1> SUFFICES ASSUME Init PROVE LogInv
  OBVIOUS
<1>1. IsSeq(<<>>)
  <2>1. <<>> \in Seq({})
    OBVIOUS
  <2>2. QED
    BY <2>1 DEF IsSeq
<1>2. LogShape
  BY <1>1 DEF Init, EngineInit, NoBenchmark, LogShape
<1>3. ASSUME NEW b \in Benchmarks
      PROVE  Heard(b)
  <2>1. /\ bench[b] = NoBenchmark /\ stream[b] = <<>> /\ sources[b] = "none" /\ logs = <<>>
    BY DEF Init, EngineInit
  <2>2. Len(<<>>) = 0 /\ 1..0 = {}
    OBVIOUS
  <2>3. Follows(b, <<>>)
    BY <2>1, <2>2, NoBenchmarkAssumption DEF Follows, Fits, Told, NoBenchmark
  <2>4. LinesOf(logs, b) = {}
    BY <2>1 DEF LinesOf
  <2>5. QED
    BY <2>1, <2>3, <2>4 DEF Heard
<1>4. QED
  BY <1>2, <1>3 DEF LogInv

\* Steps that neither the log nor the streams see.
LEMMA LogKept ==
  ASSUME LogInv, UNCHANGED <<bench, stream, sources, logs, gaps>>,
         \A b \in Benchmarks : posts'[b] = "mine" => posts[b] = "mine"
  PROVE  LogInv'
<1>1. LogShape'
  BY DEF LogInv, LogShape
<1>2. ASSUME NEW b \in Benchmarks
      PROVE  Heard(b)'
  BY DEF LogInv, Heard, Follows, LogOf
<1>3. QED
  BY <1>1, <1>2 DEF LogInv

\* What the log has of a benchmark is a sequence.
LEMMA OwnLog ==
  ASSUME LogShape, NEW b
  PROVE  /\ Len(LogOf(b)) \in Nat /\ DOMAIN LogOf(b) = 1..Len(LogOf(b))
         /\ LogOf(b) = [k \in 1..Len(LogOf(b)) |-> LogOf(b)[k]]
         /\ LinesOf(logs, b) = {} => Len(LogOf(b)) = 0
<1>1. PICK S : logs \in Seq(S)
  BY DEF LogShape, IsSeq
<1>2. /\ Len(LogOf(b)) \in Nat /\ DOMAIN LogOf(b) = 1..Len(LogOf(b))
  BY <1>1, FilteredLen DEF LogOf
<1>3. LogOf(b) = [k \in DOMAIN LogOf(b) |-> LogOf(b)[k]]
  BY DEF LogOf, Filtered
<1>4. LinesOf(logs, b) = {} => Len(LogOf(b)) = 0
  BY <1>1, FilteredNone DEF LogOf
<1>5. QED
  BY <1>2, <1>3, <1>4

\* The engine: what it adds to the runs it adds to the stream.
LEMMA EngineFits ==
  ASSUME Inv, NothingLeft, LogShape, EngineStep, NEW b \in Benchmarks
  PROVE  /\ DOMAIN stream' = Benchmarks
         /\ IsSeq(stream'[b]) /\ IsSeq(bench'[b].results)
         /\ bench'[b].status = None => bench[b].status = None /\ bench'[b] = bench[b]
         /\ bench[b].status = "failed" => bench'[b].status = "failed"
         /\ \A lines : Len(lines) \in Nat /\ Follows(b, lines) => Follows(b, lines)'
<1>1. PICK c \in Benchmarks :
        Begin(c) \/ RunEnds(c) \/ RunRaises(c) \/ Complete(c) \/ Fail(c)
  BY DEF EngineStep
<1>2. /\ DOMAIN bench = Benchmarks /\ DOMAIN stream = Benchmarks
      /\ DOMAIN bench[c] = {"status", "waiting", "raised", "results"}
      /\ IsSeq(stream[b]) /\ IsSeq(bench[b].results)
  BY DEF Inv, Shape, LogShape
<1>3. CASE b # c
  <2>1. DOMAIN stream' = Benchmarks /\ stream'[b] = stream[b] /\ bench'[b] = bench[b]
    BY <1>1, <1>2, <1>3 DEF Begin, RunEnds, RunRaises, Complete, Fail, Finish, Put
  <2>2. QED
    BY <1>2, <2>1 DEF Follows
<1>4. CASE b = c
  <2>1. CASE Begin(b) \/ RunRaises(b)
    <3>1. /\ stream' = stream /\ bench'[b].results = bench[b].results
          /\ bench[b].status \in {"pending", "running", bench'[b].status}
          /\ bench'[b].status = bench[b].status \/ bench'[b].status = "running"
          /\ bench[b].status \notin {None, "completed"}
      <4>1. CASE Begin(b)
        BY <1>2, <1>4, <4>1, NoBenchmarkAssumption DEF Begin
      <4>2. CASE RunRaises(b)
        <5>1. /\ Active(b) # {} /\ stream' = stream /\ bench'[b].results = bench[b].results
              /\ bench'[b].status = bench[b].status
          BY <1>2, <1>4, <4>2 DEF RunRaises
        <5>2. bench[b].status # None /\ bench[b].waiting # <<>>
          BY <5>1 DEF Active
        <5>3. QED
          BY <5>1, <5>2 DEF NothingLeft
      <4>3. QED
        BY <2>1, <4>1, <4>2
    <3>2. bench[b].status = "failed" => bench'[b].status = "failed"
      BY <3>1
    <3>3. bench'[b].status # "completed" /\ bench'[b].status # None
      BY <3>1, NoBenchmarkAssumption
    <3>4. ASSUME NEW lines, Follows(b, lines)
          PROVE  Follows(b, lines)'
      BY <3>1, <3>2, <3>3, <3>4 DEF Follows, Fits, Told
    <3>5. QED
      BY <1>2, <3>1, <3>2, <3>3, <3>4
  <2>2. CASE RunEnds(b)
    <3>1. PICK i \in Active(b) :
            LET run == bench[b].waiting[i]
            IN  /\ bench' = [bench EXCEPT ![b].waiting = RemoveAt(@, i),
                                          ![b].results = Append(@, run)]
                /\ Put(b, <<[type |-> "run_completed", run |-> run]>>)
      BY <2>2 DEF RunEnds
    <3> DEFINE run == bench[b].waiting[i]
               e == [type |-> "run_completed", run |-> run]
    <3>2. /\ bench'[b].results = Append(bench[b].results, run)
          /\ bench'[b].status = bench[b].status
          /\ stream' = [stream EXCEPT ![b] = @ \o <<e>>]
      BY <1>2, <1>4, <3>1 DEF Put
    <3>3. bench[b].status \notin {None, "completed"}
      <4>1. bench[b].status # None /\ bench[b].waiting # <<>>
        BY <3>1 DEF Active
      <4>2. QED
        BY <4>1 DEF NothingLeft
    <3> HIDE DEF run
    <3>4. stream'[b] = stream[b] \o <<e>> /\ DOMAIN stream' = Benchmarks
      BY <1>2, <3>2
    <3>5. IsSeq(stream'[b]) /\ IsSeq(bench'[b].results)
      <4> HIDE DEF e
      <4>1. IsSeq(stream[b] \o <<e>>) /\ IsSeq(Append(bench[b].results, run))
        BY <1>2, AppendSeq
      <4>2. QED
        BY <3>2, <3>4, <4>1
    <3>6. ASSUME NEW lines, Len(lines) \in Nat, Follows(b, lines)
          PROVE  Follows(b, lines)'
      <4>1. Fits(b, bench[b].status, Append(bench[b].results, run), stream[b] \o <<e>>, lines)
        BY <1>2, <3>3, <3>6, FitsRun DEF Follows
      <4>2. QED
        BY <3>2, <3>4, <4>1 DEF Follows
    <3>7. QED
      BY <3>2, <3>3, <3>4, <3>5, <3>6
  <2>3. CASE Complete(b) \/ Fail(b)
    <3> DEFINE e == [type |-> "done", run |-> None]
    <3>1. /\ bench'[b].results = bench[b].results
          /\ bench[b].status = "running"
          /\ bench'[b].status = "completed" \/ bench'[b].status = "failed"
          /\ stream' = [stream EXCEPT ![b] = @ \o <<e>>]
      BY <1>2, <1>4, <2>3 DEF Complete, Fail, Finish, Put
    <3>2. stream'[b] = stream[b] \o <<e>> /\ DOMAIN stream' = Benchmarks
      BY <1>2, <3>1
    <3>3. IsSeq(stream'[b]) /\ IsSeq(bench'[b].results)
      <4> HIDE DEF e
      <4>1. IsSeq(stream[b] \o <<e>>)
        BY <1>2, AppendSeq
      <4>2. QED
        BY <1>2, <3>1, <3>2, <4>1
    <3>4. ASSUME NEW lines, Len(lines) \in Nat, Follows(b, lines)
          PROVE  Follows(b, lines)'
      <4>1. Fits(b, "completed", bench[b].results, stream[b] \o <<e>>, lines)
        BY <1>2, <3>1, <3>4, FitsCompleted DEF Follows
      <4>2. CASE bench'[b].status = "completed"
        BY <3>1, <3>2, <4>1, <4>2 DEF Follows
      <4>3. CASE bench'[b].status = "failed"
        BY <4>3 DEF Follows, Fits
      <4>4. QED
        BY <3>1, <4>2, <4>3
    <3>5. bench'[b].status # None
      BY <3>1, NoBenchmarkAssumption
    <3>6. QED
      BY <3>1, <3>2, <3>3, <3>4, <3>5
  <2>4. QED
    BY <1>1, <1>4, <2>1, <2>2, <2>3
<1>5. QED
  BY <1>3, <1>4

\* Every step keeps log and stream together.
LEMMA LogStep == Inv /\ TableInv /\ LogInv /\ [Next]_vars => LogInv'
<1> SUFFICES ASSUME Inv, TableInv, LogInv, [Next]_vars PROVE LogInv'
  OBVIOUS
<1>0. /\ DOMAIN bench = Benchmarks /\ DOMAIN stream = Benchmarks /\ DOMAIN posts = Benchmarks
      /\ DOMAIN sources = Benchmarks /\ IsSeq(logs)
      /\ \A b \in Benchmarks :
           /\ DOMAIN bench[b] = {"status", "waiting", "raised", "results"}
           /\ IsSeq(stream[b]) /\ IsSeq(bench[b].results) /\ Heard(b)
           /\ bench[b].status = None => bench[b] = NoBenchmark
      /\ LogShape
  BY DEF Inv, Shape, LogInv, LogShape
<1>1. IsSeq(<<>>) /\ \A b : LinesOf(<<>>, b) = {}
  <2>1. <<>> \in Seq({})
    OBVIOUS
  <2>2. QED
    BY <2>1 DEF IsSeq, LinesOf
<1>2. CASE Leave
  <2>1. /\ UNCHANGED <<bench, stream>> /\ sources' = [b \in Benchmarks |-> "none"] /\ logs' = <<>>
        /\ posts' = [b \in Benchmarks |-> IF posts[b] = "mine" THEN "old" ELSE posts[b]]
    BY <1>2 DEF Leave, server
  <2>2. LogShape'
    BY <1>0, <1>1, <2>1 DEF LogShape
  <2>3. ASSUME NEW b \in Benchmarks
        PROVE  Heard(b)'
    BY <1>0, <1>1, <2>1 DEF Heard, Follows
  <2>4. QED
    BY <2>2, <2>3 DEF LogInv
<1>3. ASSUME NEW c \in Benchmarks, Click(c)
      PROVE  LogInv'
  <2>1. /\ UNCHANGED <<bench, stream, sources>> /\ logs' = <<>>
        /\ gaps' = {b \in Benchmarks : sources[b] # "none"}
        /\ posts' = [posts EXCEPT ![c] = "mine"]
    BY <1>3 DEF Click, server
  <2>2. bench[c].status = None
    <3>1. \E b \in Benchmarks : New(b)
      BY <1>3 DEF Click
    <3>2. New(c)
      BY <1>3, <3>1 DEF Click
    <3>3. QED
      BY <3>2 DEF New
  <2>3. LogShape'
    BY <1>0, <1>1, <2>1 DEF LogShape
  <2>4. ASSUME NEW b \in Benchmarks
        PROVE  Heard(b)'
    BY <1>0, <1>1, <2>1, <2>2 DEF Heard, Follows
  <2>5. QED
    BY <2>3, <2>4 DEF LogInv
<1>4. ASSUME NEW c \in Benchmarks, Create(c)
      PROVE  LogInv'
  <2>1. /\ UNCHANGED <<stream, sources, logs, gaps>>
        /\ bench[c].status = None
        /\ bench' = [bench EXCEPT ![c] =
                       [NoBenchmark EXCEPT !.status = "pending", !.waiting = asked[c]]]
        /\ posts' = [posts EXCEPT ![c] = IF @ = "old" THEN "none" ELSE @]
    BY <1>4 DEF Create, Start, log
  <2>2. /\ bench'[c].status = "pending" /\ bench'[c].results = <<>> /\ bench[c].results = <<>>
        /\ \A b \in Benchmarks \ {c} : bench'[b] = bench[b] /\ posts'[b] = posts[b]
    BY <1>0, <2>1 DEF NoBenchmark
  <2>3. LogShape'
    BY <1>0, <1>1, <2>1, <2>2, NoBenchmarkAssumption DEF LogShape
  <2>4. ASSUME NEW b \in Benchmarks
        PROVE  Heard(b)'
    <3>1. CASE b = c
      <4>1. sources[b] = "none" /\ Follows(b, <<>>) /\ LinesOf(logs, b) = {}
        BY <1>0, <2>1, <3>1 DEF Heard
      <4>2. Follows(b, <<>>)'
        BY <2>1, <2>2, <3>1, <4>1, NoBenchmarkAssumption DEF Follows, Fits, Told
      <4>3. QED
        BY <2>1, <4>1, <4>2 DEF Heard
    <3>2. CASE b # c
      BY <1>0, <2>1, <2>2, <3>2 DEF Heard, Follows, LogOf
    <3>3. QED
      BY <3>1, <3>2
  <2>5. QED
    BY <2>3, <2>4 DEF LogInv
<1>5. ASSUME NEW c \in Benchmarks, Created(c)
      PROVE  LogInv'
  <2>1. /\ UNCHANGED <<bench, stream, logs, gaps>> /\ posts[c] = "mine" /\ bench[c].status # None
        /\ posts' = [posts EXCEPT ![c] = "none"]
        /\ sources' = [sources EXCEPT ![c] = "open"]
    BY <1>5 DEF Created, server
  <2>2. LogShape'
    BY <1>0, <2>1 DEF LogShape
  <2>3. ASSUME NEW b \in Benchmarks
        PROVE  Heard(b)'
    <3>1. CASE b = c
      <4>1. Follows(b, <<>>) /\ LinesOf(logs, b) = {}
        BY <1>0, <2>1, <3>1 DEF Heard
      <4>2. Len(LogOf(b)) = 0 /\ Len(<<>>) = 0 /\ 1..0 = {}
        BY <1>0, <4>1, OwnLog
      <4>3. Follows(b, LogOf(b))
        BY <4>1, <4>2 DEF Follows, Fits
      <4>4. Follows(b, LogOf(b))'
        BY <2>1, <4>3 DEF Follows, LogOf
      <4>5. posts'[b] = "none" /\ sources'[b] = "open" /\ bench'[b].status # None
        BY <1>0, <2>1, <3>1
      <4>6. QED
        BY <4>4, <4>5 DEF Heard
    <3>2. CASE b # c
      BY <1>0, <2>1, <3>2 DEF Heard, Follows, LogOf
    <3>3. QED
      BY <3>1, <3>2
  <2>4. QED
    BY <2>2, <2>3 DEF LogInv
<1>6. ASSUME NEW c \in Benchmarks, MessageArrives(c)
      PROVE  LogInv'
  <2> DEFINE event == Head(stream[c])
             line == <<c, event.run>>
  <2>1. /\ UNCHANGED <<bench, posts, gaps>> /\ sources[c] = "open" /\ stream[c] # <<>>
        /\ logs' = IF event.type = "run_completed" THEN Append(logs, line) ELSE logs
        /\ sources' = [sources EXCEPT ![c] = IF event.type = "done" THEN "closed" ELSE @]
        /\ stream' = [stream EXCEPT ![c] = Tail(@)]
    BY <1>6 DEF MessageArrives, calls
  <2>2. line[1] = c /\ line = <<c, Head(stream[c]).run>>
    OBVIOUS
  <2> HIDE DEF event, line
  <2>3. IsSeq(Append(logs, line)) /\ IsSeq(Tail(stream[c]))
    BY <1>0, <2>1, AppendSeq, TailSeq
  <2>4. PICK S : logs \in Seq(S)
    BY <1>0 DEF IsSeq
  <2>5. logs \in Seq(S \cup {line}) /\ line \in S \cup {line}
    BY <2>4
  <2>6. LogShape'
    BY <1>0, <2>1, <2>3 DEF LogShape
  <2>7. ASSUME NEW b \in Benchmarks, b # c
        PROVE  Heard(b)'
    <3>1. /\ Filtered(Append(logs, line), b) = Filtered(logs, b)
          /\ LinesOf(Append(logs, line), b) = LinesOf(logs, b)
      BY <2>2, <2>5, <2>7, FilteredAppend
    <3>2. LogOf(b)' = LogOf(b) /\ LinesOf(logs, b)' = LinesOf(logs, b)
      BY <2>1, <3>1 DEF LogOf
    <3>3. /\ sources'[b] = sources[b] /\ stream'[b] = stream[b] /\ bench'[b] = bench[b]
          /\ posts'[b] = posts[b] /\ gaps' = gaps
      BY <1>0, <2>1, <2>7
    <3>4. QED
      BY <1>0, <3>2, <3>3 DEF Heard, Follows
  <2>8. Heard(c)'
    <3>1. /\ stream'[c] = Tail(stream[c]) /\ bench'[c] = bench[c] /\ posts'[c] = posts[c]
          /\ sources'[c] = IF event.type = "done" THEN "closed" ELSE "open"
      BY <1>0, <2>1
    <3>2. bench[c].status # None /\ posts[c] # "mine"
      BY <1>0, <2>1 DEF Heard
    <3>3. CASE c \in gaps \/ bench[c].status = "failed"
      BY <2>1, <3>1, <3>2, <3>3 DEF Heard, Follows, Fits
    <3>4. CASE c \notin gaps /\ bench[c].status # "failed"
      <4>1. Fits(c, bench[c].status, bench[c].results, stream[c], LogOf(c))
        BY <1>0, <2>1, <3>4 DEF Heard, Follows
      <4>2. CASE event.type = "run_completed"
        <5>1. /\ Len(Filtered(Append(logs, line), c)) = Len(LogOf(c)) + 1
              /\ \A k \in 1..Len(LogOf(c)) : Filtered(Append(logs, line), c)[k] = LogOf(c)[k]
              /\ Filtered(Append(logs, line), c)[Len(LogOf(c)) + 1] = line
          BY <2>2, <2>5, FilteredAppend DEF LogOf
        <5>2. LogOf(c)' = Filtered(Append(logs, line), c)
          BY <2>1, <4>2 DEF LogOf
        <5>3. Len(LogOf(c)) \in Nat
          BY <1>0, OwnLog
        <5>4. Fits(c, bench[c].status, bench[c].results, Tail(stream[c]),
                   Filtered(Append(logs, line), c))
          BY <1>0, <2>1, <2>2, <4>1, <4>2, <5>1, <5>3, FitsMoved DEF event
        <5>5. Follows(c, LogOf(c))'
          BY <3>1, <5>2, <5>4 DEF Follows
        <5>6. QED
          BY <3>1, <3>2, <4>2, <5>5 DEF Heard
      <4>3. CASE event.type # "run_completed"
        <5>1. /\ bench[c].status = "completed" /\ event.type = "done"
              /\ LogOf(c) = [i \in DOMAIN bench[c].results |-> <<c, bench[c].results[i]>>]
          BY <1>0, <2>1, <3>4, <4>1, <4>3, OwnLog, FitsDone DEF event
        <5>2. LogOf(c)' = LogOf(c)
          BY <2>1, <4>3 DEF LogOf
        <5>3. QED
          BY <3>1, <3>2, <5>1, <5>2 DEF Heard
      <4>4. QED
        BY <4>2, <4>3
    <3>5. QED
      BY <3>3, <3>4
  <2>9. QED
    BY <2>6, <2>7, <2>8 DEF LogInv
<1>7. ASSUME NEW c \in Benchmarks, EventLost(c)
      PROVE  LogInv'
  <2>1. /\ UNCHANGED <<bench, posts, sources, logs>> /\ sources[c] = "open" /\ stream[c] # <<>>
        /\ stream' = [stream EXCEPT ![c] = Tail(@)] /\ gaps' = gaps \cup {c}
    BY <1>7 DEF EventLost, calls
  <2>2. IsSeq(Tail(stream[c]))
    BY <1>0, <2>1, TailSeq
  <2>3. LogShape'
    BY <1>0, <2>1, <2>2 DEF LogShape
  <2>4. ASSUME NEW b \in Benchmarks
        PROVE  Heard(b)'
    <3>1. CASE b = c
      BY <1>0, <2>1, <3>1 DEF Heard
    <3>2. CASE b # c
      BY <1>0, <2>1, <3>2 DEF Heard, Follows, LogOf
    <3>3. QED
      BY <3>1, <3>2
  <2>5. QED
    BY <2>3, <2>4 DEF LogInv
<1>8. CASE EngineStep /\ UNCHANGED stage
  <2>1. UNCHANGED <<posts, sources, logs, gaps>>
    BY <1>8 DEF stage
  <2>2. ASSUME NEW b \in Benchmarks
        PROVE  /\ DOMAIN stream' = Benchmarks
               /\ IsSeq(stream'[b]) /\ IsSeq(bench'[b].results)
               /\ bench'[b].status = None => bench[b].status = None /\ bench'[b] = bench[b]
               /\ bench[b].status = "failed" => bench'[b].status = "failed"
               /\ \A lines : Len(lines) \in Nat /\ Follows(b, lines) => Follows(b, lines)'
    BY <1>0, <1>8, EngineFits DEF TableInv
  <2>3. LogShape'
    <3>1. Benchmarks # {}
      BY <1>8 DEF EngineStep
    <3>2. DOMAIN stream' = Benchmarks
      BY <2>2, <3>1
    <3>3. ASSUME NEW b \in Benchmarks, bench'[b].status = None
          PROVE  bench'[b] = NoBenchmark
      BY <1>0, <2>2, <3>3
    <3>4. QED
      BY <1>0, <2>1, <2>2, <3>2, <3>3 DEF LogShape
  <2>4. ASSUME NEW b \in Benchmarks
        PROVE  Heard(b)'
    <3>1. bench[b].status = "completed" => bench'[b] = bench[b]
      BY <1>8, CompletedStays DEF TableInv
    <3>2. Len(LogOf(b)) \in Nat /\ Len(<<>>) \in Nat /\ LogOf(b)' = LogOf(b)
      BY <1>0, <2>1, OwnLog DEF LogOf
    <3>3. Follows(b, LogOf(b)) => Follows(b, LogOf(b))'
      BY <2>2, <3>2
    <3>4. Follows(b, <<>>) => Follows(b, <<>>)'
      BY <2>2, <3>2
    <3>5. QED
      BY <1>0, <2>1, <2>2, <3>1, <3>2, <3>3, <3>4 DEF Heard
  <2>5. QED
    BY <2>3, <2>4 DEF LogInv
<1>9. ASSUME \/ Show \/ Toggle \/ Render \/ Poll \/ UNCHANGED vars
             \/ \E c \in Benchmarks : ClickFails(c)
             \/ \E s \in Slots : ReadSummary(s) \/ ReadStatus(s) \/ DetailArrives(s) \/ DetailFails(s)
      PROVE  LogInv'
  <2>1. UNCHANGED <<bench, stream, sources, logs, gaps>>
    BY <1>9 DEF Show, Toggle, Render, Poll, ClickFails, ReadSummary, ReadStatus, DetailArrives,
       DetailFails, vars, server, stage, log
  <2>2. \A b \in Benchmarks : posts'[b] = "mine" => posts[b] = "mine"
    BY <1>0, <1>9 DEF Show, Toggle, Render, Poll, ClickFails, ReadSummary, ReadStatus, DetailArrives,
       DetailFails, vars, stage, calls
  <2>3. QED
    BY <2>1, <2>2, LogKept
<1>10. QED
  BY <1>2, <1>3, <1>4, <1>5, <1>6, <1>7, <1>8, <1>9 DEF Next

\* The log of a benchmark whose stream has ended, and lost nothing on the way, has
\* each of its runs in the order of their ends (BenchmarkStage.tsx 41-70).
THEOREM LogTellsAll == Spec => []LogIsComplete
<1>1. LogInv => LogIsComplete
  BY DEF LogInv, Heard, LogIsComplete
<1>2. QED
  BY <1>1, InvInit, TableInit, InvStep, TableStep, LogInit, LogStep, PTL DEF Spec

=============================================================================
