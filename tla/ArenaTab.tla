------------------------------- MODULE ArenaTab -------------------------------
(***************************************************************************)
(* The Arena tab of the Code Colosseum dashboard next to the duel engine:  *)
(* DuelCreator starts a duel, DuelHistory selects one, ArenaStage shows    *)
(* the selected one from one request for its detail and from its stream    *)
(* of events. App keeps the selection while the tab is hidden; the rest is *)
(* lost with the components.                                               *)
(***************************************************************************)
EXTENDS DuelEngine, Hooks

ASSUME SlotsAssumption == Slots # {}

VARIABLES
  open,    \* App.tab is "arena"
  duelId,  \* App.selectedDuelId
  posts,   \* POST /duels for a duel: of this DuelCreator or an old one, or
           \* given up ("lost"), though the server may yet take it up
  listed,  \* the duels DuelHistory lists, None while it is loading
  api,     \* ArenaStage: useApi, for the detail
  sse,     \* ArenaStage: useSSE
  live,    \* ArenaStage.liveDuel, and parts, the duels it is made of
  missed   \* history: what the stage has missed, see below

tab == <<open, duelId, posts, listed, api, sse, live, missed>>
vars == <<engine, tab>>

\* "detail": it has not looked at an event sent after its detail was read.
\* "event": nor at one sent after the event it has yet to look at.
Misses == {"detail", "event"}

NoDuel == [id |-> None, duel |-> None, parts |-> {}]

\* DuelCreator.loading
Starting == \E d \in Duels : posts[d] = "mine"

TabInit ==
  /\ open = FALSE
  /\ duelId = None
  /\ posts = [d \in Duels |-> "none"]
  /\ listed = None
  /\ api = Mounted
  /\ sse = Closed
  /\ live = NoDuel
  /\ missed = {"detail"}

Init == EngineInit /\ TabInit

-----------------------------------------------------------------------------
(* App and DuelHistory.                                                    *)

\* setTab('arena'): the components are mounted with the selection App has.
ShowArena ==
  /\ ~open
  /\ open' = TRUE
  /\ listed' = None
  /\ api' = WrappedLoad(Mounted, duelId)
  /\ sse' = Connect(Closed, duelId)
  /\ UNCHANGED <<engine, duelId, posts, live, missed>>

\* setTab to another tab: the components are unmounted.
LeaveArena ==
  /\ open
  /\ open' = FALSE
  /\ posts' = [d \in Duels |-> IF posts[d] = "mine" THEN "old" ELSE posts[d]]
  /\ listed' = None
  /\ api' = Mounted
  /\ sse' = Closed
  /\ live' = NoDuel
  /\ missed' = {"detail"}
  /\ UNCHANGED <<engine, duelId>>

\* App's setSelectedDuelId; nothing happens when it is the one selected. The
\* render of the change looks at a fresh event first.
Select(d) ==
  /\ duelId' = d
  /\ IF open /\ d # duelId
       THEN /\ ~sse.fresh
            /\ MayFetch(Cleanup(api))
            /\ api' = Reload(api, d)
            /\ sse' = Connect(sse, d)
            /\ missed' = {"detail"}
       ELSE UNCHANGED <<api, sse, missed>>

\* DuelHistory asks once, when it is mounted. What the server answers and when
\* the answer arrives are one step: nothing in between depends on the list. An
\* answer that fails or never comes is one that is not taken.
ListArrives ==
  /\ open
  /\ listed = None
  /\ listed' = Existing
  /\ UNCHANGED <<engine, open, duelId, posts, api, sse, live, missed>>

Pick ==
  /\ open
  /\ listed # None
  /\ \E d \in listed : Select(d)
  /\ UNCHANGED <<engine, open, posts, listed, live>>

-----------------------------------------------------------------------------
(* DuelCreator.handleSubmit. A duel is named when it is asked for.         *)

Submit(d) ==
  /\ open
  /\ ~Starting
  /\ duel[d] = None
  /\ posts[d] = "none"
  /\ posts' = [posts EXCEPT ![d] = "mine"]
  /\ UNCHANGED <<engine, open, duelId, listed, api, sse, live, missed>>

\* The server takes the request up: DuelEngine.start_duel.
Create(d) ==
  /\ posts[d] # "none"
  /\ BeginCreate(d)
  /\ UNCHANGED tab

\* The answer: onCreated, which also a DuelCreator that is gone calls.
OnCreated(d) ==
  /\ posts[d] \in {"mine", "old"}
  /\ d \in Existing
  /\ segment # <<d, "create">>
  /\ posts' = [posts EXCEPT ![d] = "none"]
  /\ Select(d)
  /\ UNCHANGED <<engine, open, listed, live>>

\* The request or its answer is lost; finally only. A request that the browser
\* has given up may still reach the server.
SubmitFails(d) ==
  /\ Fault
  /\ posts[d] \in {"mine", "old"}
  /\ \/ posts' = [posts EXCEPT ![d] = "none"]
     \/ duel[d] = None /\ posts' = [posts EXCEPT ![d] = "lost"]
  /\ UNCHANGED <<healthy, open, duelId, listed, api, sse, live, missed>>

-----------------------------------------------------------------------------
(* ArenaStage: the detail.                                                 *)

\* get_duel, in a thread, whatever the event loop is doing.
ServeDetail(s) ==
  /\ api.requests[s].stage = "sent"
  /\ LET d == api.requests[s].path
     IN  /\ d \in Existing
         /\ api' = Answer(api, s, [id |-> d, duel |-> duel[d]])
  /\ missed' = missed \ {"detail"}
  /\ UNCHANGED <<engine, open, duelId, posts, listed, sse, live>>

\* With the effect on [detail], the only reader of data.
DetailArrives(s) ==
  /\ api.requests[s].stage = "answered"
  /\ api' = [Resolve(api, s) EXCEPT !.data = None]
  /\ LET detail == api.requests[s].answer
     IN  live' = [id |-> detail.id, duel |-> detail.duel, parts |-> {detail.id}]
  /\ UNCHANGED <<engine, open, duelId, posts, listed, sse, missed>>

DetailFails(s) ==
  /\ api.requests[s].stage = "sent"
  /\ Fault
  /\ api' = Reject(api, s)
  /\ UNCHANGED <<healthy, open, duelId, posts, listed, sse, live, missed>>

(* ArenaStage: the events.                                                 *)

MessageArrives ==
  /\ sse.url # None
  /\ Take(sse.url)
  /\ sse' = OnMessage(sse, Head(events[sse.url]))
  /\ missed' = IF sse.fresh THEN {"detail"} ELSE missed
  /\ UNCHANGED <<faults, open, duelId, posts, listed, api, live>>

\* The effect on [events], in the render after they have changed.
Render ==
  /\ sse.fresh
  /\ sse' = Rendered(sse)
  /\ live' = IF live.id = None THEN live
             ELSE [live EXCEPT !.duel = Apply(@, sse.latest), !.parts = @ \cup {sse.url}]
  /\ missed' = IF live.id # duelId \/ Pending(api, duelId) \/ "event" \in missed
               THEN {"detail"} ELSE missed
  /\ UNCHANGED <<engine, open, duelId, posts, listed, api>>

\* Its own connection opens or breaks: nothing of the stage depends on it.
EventLost(d) ==
  /\ Fault
  /\ OtherReaderTakes(d)
  /\ missed' = IF d # duelId THEN missed
               ELSE missed \cup IF sse.fresh THEN Misses ELSE {"detail"}
  /\ UNCHANGED <<open, duelId, posts, listed, api, sse, live>>

Next ==
  \/ ShowArena \/ LeaveArena \/ ListArrives \/ Pick
  \/ MessageArrives \/ Render
  \/ \E d \in Duels : Submit(d) \/ Create(d) \/ OnCreated(d) \/ SubmitFails(d) \/ EventLost(d)
  \/ \E s \in Slots : ServeDetail(s) \/ DetailArrives(s) \/ DetailFails(s)
  \/ EngineStep /\ UNCHANGED tab

Spec == Init /\ [][Next]_vars

-----------------------------------------------------------------------------
(* What ArenaStage renders.                                                *)

Screen ==
  IF duelId = None THEN "idle"
  ELSE IF api.error THEN "error"
  ELSE IF live.id = None THEN "loading" ELSE "duel"

\* The editor has the code of the agent or "waiting for solution".
AgentCard(a) == [status |-> a.status, reward |-> a.reward]

Stage ==
  [badge |-> live.duel.status, banner |-> live.duel.winner,
   cards |-> [k \in Sides |-> AgentCard(live.duel.agents[k])]]

-----------------------------------------------------------------------------
Snapshots == [id: Duels, duel: Duel]

\* What the variables hold.
TypeOK ==
  /\ EngineTypeOK
  /\ open \in BOOLEAN
  /\ duelId \in Duels \cup {None}
  /\ posts \in [Duels -> {"none", "mine", "old", "lost"}]
  /\ listed \in (SUBSET Duels) \cup {None}
  /\ api \in ApiStates(Duels, Snapshots)
  /\ sse \in StreamStates(Duels, Events)
  /\ live \in [id: Duels, duel: Duel, parts: SUBSET Duels] \cup {NoDuel}
  /\ missed \subseteq Misses

\* The stage shows the selected duel, the whole of it and nothing of another
\* one, but while the request for it has no answer: until then it goes on
\* showing the duel before, to which the events of the new one are applied
\* (ArenaStage.tsx 13-52, the cancelled flag of useApi).
OneDuelOnStage ==
  open /\ Screen = "duel" /\ ~Pending(api, duelId)
    => live.id = duelId /\ live.parts = {duelId}

\* The winner on the stage is the side with the higher of the two rewards
\* below it, also when events are missed or a detail is read half assigned.
\* Not so for a duel its deadline ended: an agent that finishes afterwards
\* still changes its reward (duel.py 198-206, 245-276; ArenaStage.tsx 34-49).
BannerMatchesScores ==
  open /\ Screen = "duel" /\ live.parts = {live.id} /\ live.id \notin forced
    => LET scored(k) == Stage.cards[k].reward
       IN  /\ Stage.banner = "agent_a" => scored("agent_a") > scored("agent_b")
           /\ Stage.banner = "agent_b" => scored("agent_b") > scored("agent_a")
           /\ Stage.banner = "draw" => scored("agent_a") = scored("agent_b")

\* Nothing between the engine and the stage is under way.
Settled ==
  /\ open
  /\ duelId # None
  /\ Screen = "duel"
  /\ ~Pending(api, duelId)
  /\ ~sse.fresh
  /\ Quiet(duelId)
  /\ duel[duelId].status = "completed"

StageCurrent ==
  Stage = [badge |-> duel[duelId].status, banner |-> duel[duelId].winner,
           cards |-> [k \in Sides |-> AgentCard(duel[duelId].agents[k])]]

\* When a duel is completed and all is delivered, the stage shows how it ended, if
\* it has looked at every event since the detail was read: what a reader in
\* another thread saw half assigned, an event repairs (duel.py 198-228,
\* 261-299; ArenaStage.tsx 22-52).
StageShowsTheEnd == Settled /\ missed = {} => StageCurrent

\* examples/code-colosseum/README.md 116-118, "Watch the Arena Stage update in
\* real time: Monaco Editor panes show each agent's generated code, test
\* progress appears in the battle log": the same with every event delivered to
\* this stage. Refuted: of two events between two renders only the last is
\* looked at.
StageShowsEveryEnd == Settled /\ faults = 0 => StageCurrent

=============================================================================
