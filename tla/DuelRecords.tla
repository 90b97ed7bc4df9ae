----------------------------- MODULE DuelRecords -----------------------------
(***************************************************************************)
(* A duel of the Code Colosseum as the orchestrator keeps it               *)
(* (backend/duel.py), the events it sends to its streams, and what the     *)
(* dashboard does with an event: the updater that ArenaStage and           *)
(* ArenaDashboard pass to setLiveDuel. Code, output, usage and cost travel *)
(* with the reward and are not told apart from it. The winner is a side    *)
(* where the code has its name; "none" stands for null.                    *)
(***************************************************************************)
EXTENDS Naturals

Sides == {"agent_a", "agent_b"}

\* "stopped" is treated by everyone as "failed" is.
Over  == {"success", "failed"}

Agents == [status: {"pending", "running"} \cup Over, reward: 0..1]

Duel ==
  [status: {"pending", "running", "completed", "failed"},
   winner: Sides \cup {"draw", "none"}, agents: [Sides -> Agents]]

NewDuel ==
  [status |-> "pending", winner |-> "none",
   agents |-> [k \in Sides |-> [status |-> "pending", reward |-> 0]]]

Rewards(d) == [k \in Sides |-> d.agents[k].reward]

BothOver(d) == \A k \in Sides : d.agents[k].status \in Over

\* Mutant: a draw goes to the first agent.
WinnerLax(r) == IF r["agent_a"] >= r["agent_b"] THEN "agent_a" ELSE "agent_b"

Winner(r) ==
  IF r["agent_a"] > r["agent_b"] THEN "agent_a"
  ELSE IF r["agent_b"] > r["agent_a"] THEN "agent_b" ELSE "draw"

-----------------------------------------------------------------------------
AgentStatus(k, status) == [type |-> "agent_status", agent |-> k, status |-> status]

AgentCompleted(k, a) ==
  [type |-> "agent_completed", agent |-> k, status |-> a.status, reward |-> a.reward]

Completed(d) == [type |-> "completed", winner |-> d.winner, rewards |-> Rewards(d)]

Plain(type) == [type |-> type]

Events ==
  [type: {"started", "error", "done"}]
  \cup [type: {"agent_status"}, agent: Sides, status: {"running"} \cup Over]
  \cup [type: {"agent_completed"}, agent: Sides, status: Over, reward: 0..1]
  \cup [type: {"completed"}, winner: Sides \cup {"draw"}, rewards: [Sides -> 0..1]]

\* The updater of setLiveDuel, for a duel that is not null.
Apply(d, e) ==
  CASE e.type = "agent_status" ->
         [d EXCEPT !.agents[e.agent].status = e.status]
    [] e.type = "agent_completed" ->
         [d EXCEPT !.agents[e.agent] = [status |-> e.status, reward |-> e.reward]]
    [] e.type = "completed" ->
         [status |-> "completed", winner |-> e.winner,
          agents |-> [k \in Sides |-> [d.agents[k] EXCEPT !.reward = e.rewards[k]]]]
    [] OTHER -> d

=============================================================================
