----------------------------- MODULE CommandCenter -----------------------------
(***************************************************************************)
(* The duel on the Command Center tab (useLiveDuel of ArenaDashboard) next *)
(* to the duel engine. Every two seconds it asks for the list of duels,    *)
(* which decides what duel to show, and for the detail of that duel; in    *)
(* between it applies the events of the duel's stream. Answers may come    *)
(* late and in another order than they were asked for.                     *)
(***************************************************************************)
EXTENDS DuelEngine, Hooks

CONSTANT ListSlots  \* bound: requests for the list in flight

L == INSTANCE Hooks WITH Slots <- ListSlots

VARIABLES
  list,   \* useApi for the list of duels; of an answer, what it selects
  sel,    \* selectedDuel.id
  api,    \* useApi for the detail
  sse,    \* useSSE
  live,   \* liveDuel, and parts, the duels it is made of
  seeded  \* history: a detail of the selected duel has arrived

screen == <<list, sel, api, sse, live, seeded>>
vars == <<engine, screen>>

NoDuel == [id |-> None, duel |-> None, parts |-> {}]

\* The first poll of the list is asked for when the tab is shown.
Init ==
  /\ EngineInit
  /\ list = L!Mounted
  /\ sel = None
  /\ api = Mounted
  /\ sse = Closed
  /\ live = NoDuel
  /\ seeded = FALSE

-----------------------------------------------------------------------------
Running == {d \in Existing : duel[d].status = "running"}

\* Mutant: the oldest duel when none is running.
SelectedOldest ==
  IF created = <<>> THEN None
  ELSE IF Running = {} THEN created[Len(created)]
  ELSE created[CHOOSE i \in DOMAIN created :
                 created[i] \in Running /\ \A j \in 1..i - 1 : created[j] \notin Running]

\* list_duels, newest first, and the duel useMemo selects from it.
Selected ==
  IF created = <<>> THEN None
  ELSE IF Running = {} THEN Head(created)
  ELSE created[CHOOSE i \in DOMAIN created :
                 created[i] \in Running /\ \A j \in 1..i - 1 : created[j] \notin Running]

AskList ==
  /\ L!MayFetch(list)
  /\ list' = L!Unread(L!WrappedLoad(list, "/duels"))
  /\ UNCHANGED <<engine, sel, api, sse, live, seeded>>

ServeList(s) ==
  /\ list.requests[s].stage = "sent"
  /\ list' = L!Answer(list, s, Selected)
  /\ UNCHANGED <<engine, sel, api, sse, live, seeded>>

\* Mutant: the effect of useApi depends on nothing, as by default.
ListArrivesOnce(s) ==
  /\ list.requests[s].stage = "answered"
  /\ list' = L!Unread(L!Resolve(list, s))
  /\ sel' = list.requests[s].answer
  /\ IF sel' = sel
       THEN UNCHANGED <<api, sse, seeded>>
       ELSE /\ ~sse.fresh
            /\ api' = IF sel = None THEN Unread(Reload(api, sel')) ELSE api
            /\ sse' = Connect(sse, sel')
            /\ seeded' = FALSE
  /\ UNCHANGED <<engine, live>>

\* Another id: the effects of useApi and useSSE run again, after a fresh event
\* has been looked at.
ListArrives(s) ==
  /\ list.requests[s].stage = "answered"
  /\ list' = L!Unread(L!Resolve(list, s))
  /\ sel' = list.requests[s].answer
  /\ IF sel' = sel
       THEN UNCHANGED <<api, sse, seeded>>
       ELSE /\ ~sse.fresh
            /\ MayFetch(Cleanup(api))
            /\ api' = Unread(Reload(api, sel'))
            /\ sse' = Connect(sse, sel')
            /\ seeded' = FALSE
  /\ UNCHANGED <<engine, live>>

AskDetail ==
  /\ sel # None
  /\ MayFetch(api)
  /\ api' = Unread(WrappedLoad(api, sel))
  /\ UNCHANGED <<engine, list, sel, sse, live, seeded>>

ServeDetail(s) ==
  /\ api.requests[s].stage = "sent"
  /\ LET d == api.requests[s].path
     IN  api' = Answer(api, s, [id |-> d, duel |-> duel[d]])
  /\ UNCHANGED <<engine, list, sel, sse, live, seeded>>

\* With the effect on [detail].
DetailArrives(s) ==
  /\ api.requests[s].stage = "answered"
  /\ api' = Unread(Resolve(api, s))
  /\ LET detail == api.requests[s].answer
     IN  live' = [id |-> detail.id, duel |-> detail.duel, parts |-> {detail.id}]
  /\ seeded' = TRUE
  /\ UNCHANGED <<engine, list, sel, sse>>

\* An error is not looked at; the next poll comes.
ListFails(s) ==
  /\ list.requests[s].stage = "sent"
  /\ list' = L!Unread(L!Reject(list, s))
  /\ UNCHANGED <<engine, sel, api, sse, live, seeded>>

DetailFails(s) ==
  /\ api.requests[s].stage = "sent"
  /\ api' = Unread(Reject(api, s))
  /\ UNCHANGED <<engine, list, sel, sse, live, seeded>>

MessageArrives ==
  /\ sse.url # None
  /\ Take(sse.url)
  /\ sse' = OnMessage(sse, Head(events[sse.url]))
  /\ UNCHANGED <<faults, list, sel, api, live, seeded>>

\* The effect on [events]; an event before the first detail is dropped.
Render ==
  /\ sse.fresh
  /\ sse' = Rendered(sse)
  /\ live' = IF live.id = None THEN live
             ELSE [live EXCEPT !.duel = Apply(@, sse.latest), !.parts = @ \cup {sse.url}]
  /\ UNCHANGED <<engine, list, sel, api, seeded>>

\* A duel is started from an Arena tab.
Create(d) == BeginCreate(d) /\ UNCHANGED screen

EventLost(d) == OtherReaderTakes(d) /\ UNCHANGED <<faults, screen>>

Engine == EngineStep /\ UNCHANGED screen

Next ==
  \/ AskList \/ AskDetail \/ MessageArrives \/ Render \/ Engine
  \/ \E d \in Duels : Create(d) \/ EventLost(d)
  \/ \E s \in ListSlots : ServeList(s) \/ ListArrives(s) \/ ListFails(s)
  \/ \E s \in Slots : ServeDetail(s) \/ DetailArrives(s) \/ DetailFails(s)

\* The timers of the polls go on; not every request fails; what is answered
\* arrives, also the events; React renders.
Fairness ==
  /\ EngineFairness
  /\ WF_vars(AskList) /\ WF_vars(AskDetail)
  /\ WF_vars(MessageArrives) /\ WF_vars(Render)
  /\ \A s \in ListSlots : SF_vars(ServeList(s)) /\ WF_vars(ListArrives(s))
  /\ \A s \in Slots : SF_vars(ServeDetail(s)) /\ WF_vars(DetailArrives(s))

Spec == Init /\ [][Next]_vars /\ Fairness

-----------------------------------------------------------------------------
(* What ArenaDashboard renders of the duel.                                *)

IsLive == live.id # None /\ live.duel.status = "running"

Headline == IF IsLive THEN "LIVE" ELSE "STANDBY"

\* The width of the bar is the reward, cut to the range of 0 to 100.
AgentCard(a) ==
  [status |-> a.status, score |-> a.reward,
   bar |-> LET pct == a.reward * 100 IN IF pct > 100 THEN 100 ELSE IF pct < 0 THEN 0 ELSE pct]

Arena ==
  IF live.id = None THEN [headline |-> Headline, title |-> "Waiting for duel..."]
  ELSE [headline |-> Headline, title |-> live.id,
        badge |-> IF IsLive THEN "FIGHTING" ELSE live.duel.status,
        cards |-> [k \in Sides |-> AgentCard(live.duel.agents[k])]]

-----------------------------------------------------------------------------
Snapshots == [id: Duels, duel: Duel]

\* What the variables hold.
TypeOK ==
  /\ EngineTypeOK
  /\ list \in L!ApiStates({"/duels"}, Duels)
  /\ sel \in Duels \cup {None}
  /\ api \in ApiStates(Duels, Snapshots)
  /\ sse \in StreamStates(Duels, Events)
  /\ live \in [id: Duels, duel: Duel, parts: SUBSET Duels] \cup {NoDuel}
  /\ seeded \in BOOLEAN

\* Once a detail of the selected duel has arrived, what is shown is that duel
\* alone, whatever answers and events of earlier selections come late
\* (ArenaDashboard.tsx 34-75, the cancelled flag of useApi).
OneDuelInArena == seeded => live.id = sel /\ live.parts = {sel}

\* In the end the duels are over, and from then on the tab shows the newest
\* one as the engine has it: events that were lost, overtaken by another before
\* a render, or applied to an older or newer detail, or to another duel, are
\* made up for by the polls (ArenaDashboard.tsx 24-78).
Current ==
  Arena = IF created = <<>> THEN [headline |-> "STANDBY", title |-> "Waiting for duel..."]
          ELSE LET d == Head(created)
               IN  [headline |-> "STANDBY", title |-> d, badge |-> duel[d].status,
                    cards |-> [k \in Sides |-> AgentCard(duel[d].agents[k])]]

EventuallyCurrent == <>[]Current

=============================================================================
