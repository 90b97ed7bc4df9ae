------------------------------ MODULE DuelEngine ------------------------------
(***************************************************************************)
(* The duel engine of the Code Colosseum orchestrator (backend/duel.py).   *)
(*                                                                         *)
(* The coroutines of the duels share one event loop, but the endpoints     *)
(* that list and return duels run in threads: they may read a duel in the  *)
(* middle of a coroutine's assignments. segment is the group of            *)
(* assignments the loop is in, if any; no other coroutine runs meanwhile.  *)
(***************************************************************************)
EXTENDS Null, DuelRecords, Sequences, FiniteSets

CONSTANTS
  Duels,     \* ids
  Finished,  \* the duels that were over, and watched to the end, before the start
  Outcomes,  \* how the rollout of an agent may end
  MaxFaults  \* bound: deadlines, and the faults a module counts with them

\* The groups of assignments of a duel's coroutines: the results of the agents,
\* and those of start_duel and _wait_for_completion.
Parts == Sides \cup {"create", "complete"}

ASSUME NoneAssumption     == None \notin Duels \cup Duel \cup (Duels \X Parts)
ASSUME FinishedAssumption == Finished \subseteq Duels /\ IsFiniteSet(Finished)
ASSUME OutcomeAssumption  == Outcomes \subseteq [status: Over, reward: 0..1]
ASSUME FaultAssumption    == MaxFaults \in Nat

VARIABLES
  duel,     \* DuelEngine.duels; None: there is no such duel
  created,  \* the ids by created_at, newest first
  watching, \* the _watch_agent tasks of a duel that have not ended
  events,   \* Duel.events, the queue that every stream of the duel reads
  segment,  \* what the event loop is assigning: <<duel, part>> or None
  forced,   \* history: the duels ended by their deadline
  faults    \* what has gone wrong so far

healthy == <<duel, created, watching, events, segment, forced>>
engine == <<healthy, faults>>

Existing == {d \in Duels : duel[d] # None}

OldDuel ==
  [status |-> "completed", winner |-> "draw",
   agents |-> [k \in Sides |-> [status |-> "success", reward |-> 1]]]

EngineInit ==
  /\ duel = [d \in Duels |-> IF d \in Finished THEN OldDuel ELSE None]
  /\ \E s \in [1..Cardinality(Finished) -> Finished] :
       /\ \A i, j \in DOMAIN s : s[i] = s[j] => i = j
       /\ created = s
  /\ watching = [d \in Duels |-> {}]
  /\ events = [d \in Duels |-> <<>>]
  /\ segment = None
  /\ forced = {}
  /\ faults = 0

Fault == faults < MaxFaults /\ faults' = faults + 1

Put(d, s) == events' = [events EXCEPT ![d] = @ \o s]

-----------------------------------------------------------------------------
(* DuelEngine.start_duel: creating the two rollouts blocks the loop.       *)

BeginCreate(d) ==
  /\ segment = None
  /\ duel[d] = None
  /\ duel' = [duel EXCEPT ![d] = NewDuel]
  /\ created' = <<d>> \o created
  /\ segment' = <<d, "create">>
  /\ UNCHANGED <<watching, events, forced, faults>>

\* With the first event of each _watch_agent, which does not touch the duel.
EndCreate(d) ==
  /\ segment = <<d, "create">>
  /\ duel' = [duel EXCEPT ![d].status = "running"]
  /\ watching' = [watching EXCEPT ![d] = Sides]
  /\ Put(d, <<Plain("started"), AgentStatus("agent_a", "running"),
              AgentStatus("agent_b", "running")>>)
  /\ segment' = None
  /\ UNCHANGED <<created, forced, faults>>

FailCreate(d) ==
  /\ segment = <<d, "create">>
  /\ duel' = [duel EXCEPT ![d].status = "failed"]
  /\ Put(d, <<Plain("error"), Plain("done")>>)
  /\ segment' = None
  /\ UNCHANGED <<created, watching, forced, faults>>

(* DuelEngine._watch_agent: run_agent has returned; the status first, then *)
(* the reward and the rest, then two events with nothing in between.       *)
(* run_agent makes a "failed" of whatever the calls it makes raise, and a  *)
(* rollout that was created has an id: the branch for one without (duel.py *)
(* 170-175) is not taken. A watcher that never returns is a behaviour too  *)
(* where nothing is fair (ArenaTab).                                       *)

BeginResult(d, k) ==
  /\ segment = None
  /\ k \in watching[d]
  /\ \E o \in Outcomes : duel' = [duel EXCEPT ![d].agents[k].status = o.status]
  /\ segment' = <<d, k>>
  /\ UNCHANGED <<created, watching, events, forced, faults>>

\* Mutant: the event tells the status only, as the one before it does.
EndResultSilent(d, k) ==
  /\ segment = <<d, k>>
  /\ \E o \in Outcomes :
       /\ o.status = duel[d].agents[k].status
       /\ duel' = [duel EXCEPT ![d].agents[k] = o]
       /\ Put(d, <<AgentStatus(k, o.status)>>)
  /\ watching' = [watching EXCEPT ![d] = @ \ {k}]
  /\ segment' = None
  /\ UNCHANGED <<created, forced, faults>>

EndResult(d, k) ==
  /\ segment = <<d, k>>
  /\ \E o \in Outcomes :
       /\ o.status = duel[d].agents[k].status
       /\ duel' = [duel EXCEPT ![d].agents[k] = o]
       /\ Put(d, <<AgentStatus(k, o.status), AgentCompleted(k, o)>>)
  /\ watching' = [watching EXCEPT ![d] = @ \ {k}]
  /\ segment' = None
  /\ UNCHANGED <<created, forced, faults>>

(* DuelEngine._wait_for_completion.                                        *)

BeginComplete(d) ==
  /\ segment = None
  /\ d \in Existing
  /\ duel[d].status = "running"
  /\ BothOver(duel[d])
  /\ duel' = [duel EXCEPT ![d].status = "completed"]
  /\ segment' = <<d, "complete">>
  /\ UNCHANGED <<created, watching, events, forced, faults>>

\* The deadline: what is not over is failed, its watcher runs on.
Deadline(d) ==
  /\ Fault
  /\ segment = None
  /\ d \in Existing
  /\ duel[d].status = "running"
  /\ ~BothOver(duel[d])
  /\ duel' = [duel EXCEPT
       ![d].status = "completed",
       ![d].agents = [k \in Sides |-> IF @[k].status \in Over THEN @[k]
                                      ELSE [@[k] EXCEPT !.status = "failed"]]]
  /\ forced' = forced \cup {d}
  /\ segment' = <<d, "complete">>
  /\ UNCHANGED <<created, watching, events>>

\* Mutant: the event is built before the winner is known.
EndCompleteEarly(d) ==
  /\ segment = <<d, "complete">>
  /\ duel' = [duel EXCEPT ![d].winner = Winner(Rewards(duel[d]))]
  /\ Put(d, <<Completed(duel[d]), Plain("done")>>)
  /\ segment' = None
  /\ UNCHANGED <<created, watching, forced, faults>>

EndComplete(d) ==
  /\ segment = <<d, "complete">>
  /\ LET over == [duel[d] EXCEPT !.winner = Winner(Rewards(duel[d]))]
     IN  /\ duel' = [duel EXCEPT ![d] = over]
         /\ Put(d, <<Completed(over), Plain("done")>>)
  /\ segment' = None
  /\ UNCHANGED <<created, watching, forced, faults>>

-----------------------------------------------------------------------------
(* stream_duel: every stream of a duel takes from the same queue. A stream *)
(* ends after "done" and the browser connects again; the queue waits.      *)

Take(d) ==
  /\ events[d] # <<>>
  /\ events' = [events EXCEPT ![d] = Tail(@)]
  /\ UNCHANGED <<duel, created, watching, segment, forced>>

\* Another browser, or the server for a connection that is closed already.
OtherReaderTakes(d) == Take(d)

EngineStep ==
  \E d \in Duels :
    \/ EndCreate(d) \/ FailCreate(d)
    \/ BeginComplete(d) \/ Deadline(d) \/ EndComplete(d)
    \/ \E k \in Sides : BeginResult(d, k) \/ EndResult(d, k)

\* Every coroutine goes on; a rollout ends by itself or by its timeout.
EngineFairness ==
  \A d \in Duels :
    /\ WF_engine(EndCreate(d) \/ FailCreate(d))
    /\ WF_engine(BeginComplete(d))
    /\ WF_engine(EndComplete(d))
    /\ \A k \in Sides : WF_engine(BeginResult(d, k)) /\ WF_engine(EndResult(d, k))

EngineTypeOK ==
  /\ duel \in [Duels -> Duel \cup {None}]
  /\ created \in Seq(Duels)
  /\ watching \in [Duels -> SUBSET Sides]
  /\ events \in [Duels -> Seq(Events)]
  /\ segment \in (Duels \X Parts) \cup {None}
  /\ forced \subseteq Duels
  /\ faults \in 0..MaxFaults

\* The engine is done with a duel and its events have been taken.
Quiet(d) ==
  /\ d \in Existing
  /\ duel[d].status \in {"completed", "failed"}
  /\ watching[d] = {}
  /\ events[d] = <<>>
  /\ segment = None

=============================================================================
