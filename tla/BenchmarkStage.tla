---------------------------- MODULE BenchmarkStage ----------------------------
(***************************************************************************)
(* The Benchmark tab of the Code Colosseum dashboard next to the benchmark *)
(* engine. A click sends a request whose answer sets runningId and opens a *)
(* stream; while runningId is set the button is disabled and the detail is *)
(* polled, until one says that the benchmark is over. Between the change   *)
(* of a state and the render that acts on it other answers may come.       *)
(***************************************************************************)
EXTENDS BenchmarkEngine, Hooks

VARIABLES
  here,      \* the tab is shown
  agents,    \* selectedAgents
  problems,  \* selectedProblems
  posts,     \* POST /benchmarks for a benchmark: from this stage or an old one
  asked,     \* the runs such a request asks for
  runningId, \* runningId, as it will be at the next render
  rendered,  \* runningId at the last render, so of the effect of useApi
  api,       \* useApi for the detail
  fresh,     \* the detail has changed since the last render
  sources,   \* the EventSource of a benchmark
  logs,      \* logs, the runs with their benchmarks
  gaps,      \* history: benchmarks of which the log has not been told all
  doubled    \* history: a second click while a benchmark was on its way

stage == <<here, agents, problems, posts, asked, runningId, rendered,
           api, fresh, sources, logs, gaps, doubled>>
choice == <<agents, problems>>
calls == <<posts, asked>>
detail == <<rendered, api, fresh>>
log == <<sources, logs, gaps>>
vars == <<server, twists, stage>>

Init ==
  /\ EngineInit
  /\ here = FALSE
  /\ agents = Agents
  /\ problems = Problems
  /\ posts = [b \in Benchmarks |-> "none"]
  /\ asked = [b \in Benchmarks |-> <<>>]
  /\ runningId = None
  /\ rendered = None
  /\ api = Mounted
  /\ fresh = FALSE
  /\ sources = [b \in Benchmarks |-> "none"]
  /\ logs = <<>>
  /\ gaps = {}
  /\ doubled = FALSE

\* The tab is opened. App may not have its problems yet: then none is selected,
\* and none will be when they come.
Show ==
  /\ ~here
  /\ here' = TRUE
  /\ problems' \in {Problems, {}}
  /\ UNCHANGED <<server, twists, agents, calls, runningId, detail, log, doubled>>

\* Another tab: the state is lost. The streams stay open, with nobody to read
\* what they bring.
Leave ==
  /\ here
  /\ here' = FALSE
  /\ agents' = Agents
  /\ problems' = Problems
  /\ posts' = [b \in Benchmarks |-> IF posts[b] = "mine" THEN "old" ELSE posts[b]]
  /\ runningId' = None
  /\ rendered' = None
  /\ api' = Mounted
  /\ fresh' = FALSE
  /\ sources' = [b \in Benchmarks |-> "none"]
  /\ logs' = <<>>
  /\ gaps' = {}
  /\ doubled' = FALSE
  /\ UNCHANGED <<server, twists, asked>>

-----------------------------------------------------------------------------
(* The form.                                                               *)

Flip(set, x) == IF x \in set THEN set \ {x} ELSE set \cup {x}

Toggle ==
  /\ here
  /\ Twist
  /\ \/ \E a \in Agents : agents' = Flip(agents, a) /\ UNCHANGED problems
     \/ \E p \in Problems : problems' = Flip(problems, p) /\ UNCHANGED agents
  /\ UNCHANGED <<server, here, calls, runningId, detail, log, doubled>>

New(b) == posts[b] = "none" /\ bench[b].status = None

Enabled == rendered = None /\ agents # {} /\ problems # {}

\* runBenchmark up to its first await. Nothing disables the button before the
\* answer has been rendered. Ids are given in one order: they are random.
Click(b) ==
  /\ here
  /\ Enabled
  /\ \E c \in Benchmarks : New(c)
  /\ b = CHOOSE c \in Benchmarks : New(c)
  /\ posts' = [posts EXCEPT ![b] = "mine"]
  /\ asked' = [asked EXCEPT ![b] = SetToSeq(agents \X problems)]
  /\ logs' = <<>>
  /\ gaps' = {c \in Benchmarks : sources[c] # "none"}
  /\ doubled' = (doubled \/ runningId # None \/ \E c \in Benchmarks : posts[c] = "mine")
  /\ UNCHANGED <<server, twists, here, choice, runningId, detail, sources>>

\* The server takes it up.
Create(b) ==
  /\ posts[b] # "none"
  /\ Start(b, asked[b])
  /\ asked' = [asked EXCEPT ![b] = <<>>]
  /\ posts' = [posts EXCEPT ![b] = IF @ = "old" THEN "none" ELSE @]
  /\ UNCHANGED <<here, choice, runningId, detail, log, doubled>>

\* The rest of runBenchmark.
Created(b) ==
  /\ posts[b] = "mine"
  /\ bench[b].status # None
  /\ posts' = [posts EXCEPT ![b] = "none"]
  /\ runningId' = b
  /\ sources' = [sources EXCEPT ![b] = "open"]
  /\ UNCHANGED <<server, twists, here, choice, asked, detail, logs, gaps, doubled>>

\* An unhandled rejection: the answer is lost, or the request is, or the server
\* will take it up all the same.
ClickFails(b) ==
  /\ Twist
  /\ posts[b] = "mine"
  /\ \/ posts' = [posts EXCEPT ![b] = "none"] /\ asked' = [asked EXCEPT ![b] = <<>>]
     \/ bench[b].status = None /\ posts' = [posts EXCEPT ![b] = "old"] /\ UNCHANGED asked
  /\ UNCHANGED <<server, here, choice, runningId, detail, log, doubled>>

-----------------------------------------------------------------------------
(* The detail.                                                             *)

\* Mutant: whatever is not running is over.
ReleasedLax(status) == status # "running"

Released(status) == Over(status)

\* A render: the effect of useApi when runningId has changed, then the effect
\* on [detailData], which may set runningId for the next render.
Render ==
  /\ fresh \/ runningId # rendered
  /\ rendered' = runningId
  /\ api' = IF runningId = rendered THEN api ELSE Reload(api, runningId)
  /\ fresh' = FALSE
  /\ runningId' = IF fresh /\ Released(api.data.status) THEN None ELSE runningId
  /\ UNCHANGED <<server, twists, here, choice, calls, log, doubled>>

\* The timer of useApi.
Poll ==
  /\ rendered # None
  /\ MayFetch(api)
  /\ api' = WrappedLoad(api, rendered)
  /\ UNCHANGED <<server, twists, here, choice, calls, runningId, rendered, fresh, log, doubled>>

\* get_benchmark_detail, in a thread: the summary first, then the status. added
\* and seen are history fields: how many results there were at either moment.
ReadSummary(s) ==
  LET r == api.requests[s] IN
  /\ r.stage = "sent"
  /\ r.answer = None
  /\ api' = [api EXCEPT !.requests[s].answer =
               [id |-> r.path, status |-> None,
                summary |-> Summary(bench[r.path].results),
                added |-> Len(bench[r.path].results), seen |-> 0]]
  /\ UNCHANGED <<server, twists, here, choice, calls, runningId, rendered, fresh, log, doubled>>

ReadStatus(s) ==
  LET r == api.requests[s] IN
  /\ r.stage = "sent"
  /\ r.answer # None
  /\ api' = Answer(api, s,
              [r.answer EXCEPT !.status = bench[r.path].status,
                               !.seen = Len(bench[r.path].results)])
  /\ UNCHANGED <<server, twists, here, choice, calls, runningId, rendered, fresh, log, doubled>>

DetailArrives(s) ==
  /\ api.requests[s].stage = "answered"
  /\ api' = [Resolve(api, s) EXCEPT !.loading = TRUE]
  /\ fresh' = TRUE
  /\ UNCHANGED <<server, twists, here, choice, calls, runningId, rendered, log, doubled>>

\* Neither error nor loading is looked at.
DetailFails(s) ==
  /\ Twist
  /\ api.requests[s].stage = "sent"
  /\ api' = [Reject(api, s) EXCEPT !.error = FALSE, !.loading = TRUE]
  /\ UNCHANGED <<server, here, choice, calls, runningId, rendered, fresh, log, doubled>>

-----------------------------------------------------------------------------
(* The stream; nothing closes it but "done".                               *)

\* Mutant: closed at the first event.
MessageArrivesHasty(b) ==
  /\ sources[b] = "open"
  /\ stream[b] # <<>>
  /\ LET event == Head(stream[b])
     IN  /\ logs' = IF event.type = "run_completed" THEN Append(logs, <<b, event.run>>) ELSE logs
         /\ sources' = [sources EXCEPT ![b] = "closed"]
  /\ stream' = [stream EXCEPT ![b] = Tail(@)]
  /\ UNCHANGED <<bench, twists, here, choice, calls, runningId, detail, gaps, doubled>>

MessageArrives(b) ==
  /\ sources[b] = "open"
  /\ stream[b] # <<>>
  /\ LET event == Head(stream[b])
     IN  /\ logs' = IF event.type = "run_completed" THEN Append(logs, <<b, event.run>>) ELSE logs
         /\ sources' = [sources EXCEPT ![b] = IF event.type = "done" THEN "closed" ELSE @]
  /\ stream' = [stream EXCEPT ![b] = Tail(@)]
  /\ UNCHANGED <<bench, twists, here, choice, calls, runningId, detail, gaps, doubled>>

\* The connection breaks while an event is on its way; it is opened again.
EventLost(b) ==
  /\ Twist
  /\ sources[b] = "open"
  /\ stream[b] # <<>>
  /\ stream' = [stream EXCEPT ![b] = Tail(@)]
  /\ gaps' = gaps \cup {b}
  /\ UNCHANGED <<bench, here, choice, calls, runningId, detail, sources, logs, doubled>>

Next ==
  \/ Show \/ Leave \/ Toggle \/ Render \/ Poll
  \/ \E b \in Benchmarks : \/ Click(b) \/ Create(b) \/ Created(b) \/ ClickFails(b)
                           \/ MessageArrives(b) \/ EventLost(b)
  \/ \E s \in Slots : \/ ReadSummary(s) \/ ReadStatus(s) \/ DetailArrives(s)
                      \/ DetailFails(s)
  \/ EngineStep /\ UNCHANGED stage

Spec == Init /\ [][Next]_vars

-----------------------------------------------------------------------------
(* What BenchmarkStage renders.                                            *)

Button == IF rendered = None THEN "Run Benchmark" ELSE "Running..."

\* The rows of the table, one for each agent of the summary.
Results == IF api.data = None THEN <<>> ELSE api.data.summary

-----------------------------------------------------------------------------
Details ==
  [id: Benchmarks, status: {None, "pending", "running", "completed", "failed"},
   summary: UNION {[A -> SUBSET Problems] : A \in SUBSET Agents}, added: Nat, seen: Nat]

\* What the variables hold.
TypeOK ==
  /\ BenchTypeOK
  /\ here \in BOOLEAN
  /\ agents \subseteq Agents
  /\ problems \subseteq Problems
  /\ posts \in [Benchmarks -> {"none", "mine", "old"}]
  /\ \A b \in Benchmarks : asked[b] \in Seq(Runs)
  /\ runningId \in Benchmarks \cup {None}
  /\ rendered \in Benchmarks \cup {None}
  /\ api \in ApiStates(Benchmarks, Details)
  /\ api.data # None => api.data.status # None
  /\ fresh \in BOOLEAN
  /\ sources \in [Benchmarks -> {"none", "open", "closed"}]
  /\ logs \in Seq(Benchmarks \X Runs)
  /\ gaps \subseteq Benchmarks
  /\ doubled \in BOOLEAN

\* The button is given free for another benchmark only when the one that runs
\* is over, whatever answers about earlier ones are under way. A second click
\* before the answer to the first can break this: the last detail of one
\* benchmark then releases the other (BenchmarkStage.tsx 17-27, 41-70).
ReleasedOnlyWhenOver ==
  [][here' /\ ~doubled /\ runningId # None /\ runningId' = None
       => Over(bench[runningId].status)]_vars

\* The table that is left when a benchmark is completed is of all its runs but
\* those that ended while the thread that read it was between the summary and
\* the status; no other answer, however late, takes a row from it
\* (BenchmarkStage.tsx 125-161, benchmark.py 84-107, 153-204).
TableIsFinal ==
  api.data # None /\ api.data.status = "completed" =>
    LET results == bench[api.data.id].results
    IN  /\ Results = Summary(SubSeq(results, 1, api.data.added))
        /\ api.data.seen = Len(results)

\* The lines of a benchmark in the log, by their positions.
LinesOf(lines, b) == {i \in DOMAIN lines : lines[i][1] = b}

\* The place of a position among others.
Rank(set, i) == Cardinality({h \in set : h <= i})

Filtered(lines, b) ==
  LET own == LinesOf(lines, b)
  IN  [k \in 1..Cardinality(own) |-> lines[CHOOSE i \in own : Rank(own, i) = k]]

LogOf(b) == Filtered(logs, b)

\* The log of a benchmark whose stream has ended has each of its runs, in the
\* order of their ends, next to the lines of others (BenchmarkStage.tsx 41-70).
LogIsComplete ==
  \A b \in Benchmarks :
    sources[b] = "closed" /\ b \notin gaps /\ bench[b].status = "completed"
      => LogOf(b) = [i \in DOMAIN bench[b].results |-> <<b, bench[b].results[i]>>]

=============================================================================
