---------------------------- MODULE BenchmarkEngine ----------------------------
(***************************************************************************)
(* The benchmark engine of the Code Colosseum orchestrator                 *)
(* (backend/benchmark.py): a benchmark runs every selected agent on every  *)
(* selected problem, a few at a time. The endpoint that returns a          *)
(* benchmark runs in a thread next to the event loop. Of the events, the   *)
(* ones that no client looks at are left out.                              *)
(***************************************************************************)
EXTENDS Null, Naturals, Sequences, SequencesExt

CONSTANTS
  Agents,       \* agent types: those selected when the tab is opened
  Problems,     \* ids, in the order of the problem bank
  Benchmarks,   \* ids
  Concurrency,  \* BenchmarkEngine.max_concurrency
  MaxTwists     \* bound: runs that raise, requests and events that are lost,
                \* changes of the selection

ASSUME ConcurrencyAssumption == Concurrency \in Nat \ {0}
ASSUME TwistAssumption       == MaxTwists \in Nat
ASSUME NoBenchmarkAssumption ==
  None \notin Benchmarks \cup {"pending", "running", "completed", "failed"}

VARIABLES
  bench,   \* BenchmarkEngine.benchmarks, with the runs that have not ended
  stream,  \* BenchmarkRun.events
  twists   \* how many of them there were so far

server == <<bench, stream>>

Runs == Agents \X Problems

NoBenchmark == [status |-> None, waiting |-> <<>>, raised |-> FALSE, results |-> <<>>]

EngineInit ==
  /\ bench = [b \in Benchmarks |-> NoBenchmark]
  /\ stream = [b \in Benchmarks |-> <<>>]
  /\ twists = 0

Twist == twists < MaxTwists /\ twists' = twists + 1

Put(b, s) == stream' = [stream EXCEPT ![b] = @ \o s]

\* start_benchmark and the first part of _run_benchmark; the runs in the order
\* of asyncio.gather, by problem and then by agent.
Start(b, runs) ==
  /\ bench[b].status = None
  /\ bench' = [bench EXCEPT ![b] = [NoBenchmark EXCEPT !.status = "pending", !.waiting = runs]]
  /\ UNCHANGED <<stream, twists>>

Begin(b) ==
  /\ bench[b].status = "pending"
  /\ bench' = [bench EXCEPT ![b].status = "running"]
  /\ UNCHANGED <<stream, twists>>

\* The runs that hold the semaphore are the first of those that have not ended.
Active(b) ==
  IF bench[b].status \in {None, "pending"} THEN {}
  ELSE {i \in DOMAIN bench[b].waiting : i <= Concurrency}

\* run_one returns, also when the benchmark has failed meanwhile.
RunEnds(b) ==
  /\ \E i \in Active(b) :
       LET run == bench[b].waiting[i]
       IN  /\ bench' = [bench EXCEPT ![b].waiting = RemoveAt(@, i),
                                     ![b].results = Append(@, run)]
           /\ Put(b, <<[type |-> "run_completed", run |-> run]>>)
  /\ UNCHANGED twists

\* run_one raises: building the task reads files.
RunRaises(b) ==
  /\ Twist
  /\ \E i \in Active(b) :
       bench' = [bench EXCEPT ![b].waiting = RemoveAt(@, i), ![b].raised = TRUE]
  /\ UNCHANGED stream

Finish(b, status) ==
  /\ bench' = [bench EXCEPT ![b].status = status]
  /\ Put(b, <<[type |-> "done", run |-> None]>>)
  /\ UNCHANGED twists

\* Mutant: finished when the last run has begun.
CompleteEarly(b) ==
  /\ bench[b].status = "running"
  /\ ~bench[b].raised
  /\ Len(bench[b].waiting) <= 1
  /\ Finish(b, "completed")

Complete(b) ==
  /\ bench[b].status = "running"
  /\ ~bench[b].raised
  /\ bench[b].waiting = <<>>
  /\ Finish(b, "completed")

\* gather passes the first exception on; the other runs are not cancelled.
Fail(b) ==
  /\ bench[b].status = "running"
  /\ bench[b].raised
  /\ Finish(b, "failed")

EngineStep ==
  \E b \in Benchmarks : Begin(b) \/ RunEnds(b) \/ RunRaises(b) \/ Complete(b) \/ Fail(b)

\* The summary of get_benchmark_detail: what the runs of an agent add up to is
\* told by which they are.
Summary(results) ==
  [a \in {results[i][1] : i \in DOMAIN results} |->
     {results[i][2] : i \in {j \in DOMAIN results : results[j][1] = a}}]

Over(status) == status \in {"completed", "failed"}

BenchTypeOK ==
  /\ \A b \in Benchmarks :
       /\ bench[b].status \in {None, "pending", "running", "completed", "failed"}
       /\ bench[b].waiting \in Seq(Runs)
       /\ bench[b].raised \in BOOLEAN
       /\ bench[b].results \in Seq(Runs)
       /\ stream[b] \in Seq([type: {"run_completed", "done"},
                             run: Runs \cup {None}])
  /\ twists \in 0..MaxTwists

=============================================================================
