---------------------------- MODULE ArenaTabProofs ----------------------------
(***************************************************************************)
(* For any number of duels and of requests in flight, the stage of the     *)
(* Arena tab never mixes two duels, the banner of a duel that is over      *)
(* agrees with the scores beside it, and a stage that has looked at every  *)
(* event since its detail was read ends as the duel does.                  *)
(***************************************************************************)
EXTENDS ArenaTab, HooksProofs, FiniteSetTheorems

\* The states of the hooks and liveDuel have their fields.
Shape ==
  /\ IsHook(api)
  /\ DOMAIN sse = {"url", "latest", "fresh", "connected"}
  /\ DOMAIN live = {"id", "duel", "parts"}

\* Nothing is left of a stage that is hidden; what is on its way to the one
\* that is shown is about the selected duel.
OnlySelected ==
  /\ ~open => api = Mounted /\ sse = Closed /\ live = NoDuel
  /\ open => RequestsOf(api, duelId) /\ sse.url = duelId

Whole == live.id = duelId /\ live.parts = {duelId}

\* The detail of the selected duel is asked for, has been refused, or is what
\* the stage shows.
Covered == open /\ duelId # None => Pending(api, duelId) \/ api.error \/ Whole

Inv == Shape /\ OnlySelected /\ Covered

Listed == listed # None => listed \subseteq Duels

-----------------------------------------------------------------------------
\* The stage is hidden at first.
LEMMA InvInit == Init => Inv /\ Listed
  BY DEF Listed, Init, TabInit, Inv, Shape, IsHook, OnlySelected, Covered, Mounted, Idle, Closed, NoDuel

\* Every step leaves duels of the engine in the list.
LEMMA ListedStep == Listed /\ [Next]_vars => Listed'
  BY DEF Listed, Next, ShowArena, LeaveArena, ListArrives, Pick, MessageArrives, Render, Submit, Create,
     OnCreated, SubmitFails, EventLost, ServeDetail, DetailArrives, DetailFails, Existing, tab,
     vars

\* Selecting a duel drops what is on its way and asks for the detail of this.
LEMMA SelectStep ==
  ASSUME Inv, NEW d \in Duels, Select(d), UNCHANGED <<open, live>>
  PROVE  Inv'
<1> USE DEF Inv, OnlySelected
<1>1. CASE open /\ d # duelId
  <2>1. /\ duelId' = d /\ api' = Reload(api, d) /\ sse' = Connect(sse, d)
        /\ open' /\ live' = live
    BY <1>1 DEF Select
  <2>2. d # None
    BY NoneAssumption
  <2>3. IsHook(api)' /\ RequestsOf(api, duelId)' /\ Pending(api, duelId)'
    BY <2>1, <2>2, ReloadEach, ReloadRequests, ReloadPending, SlotsAssumption DEF Shape
  <2>4. QED
    BY <2>1, <2>3 DEF Shape, Covered, Connect
<1>2. CASE ~(open /\ d # duelId)
  <2>1. duelId' = d /\ UNCHANGED <<api, sse, open, live>> /\ (open => duelId' = duelId)
    BY <1>2 DEF Select
  <2>2. CASE open
    BY <2>1, <2>2 DEF Shape, IsHook, Covered, Whole, Pending, InFlight, RequestsOf
  <2>3. CASE ~open
    BY <2>1, <2>3 DEF Shape, IsHook, Covered
  <2>4. QED
    BY <2>2, <2>3
<1>3. QED
  BY <1>1, <1>2

\* Every step keeps the detail of the selected duel asked for, refused or
\* shown, and what is shown with it whole.
LEMMA InvStep == Inv /\ Listed /\ [Next]_vars => Inv'
<1> SUFFICES ASSUME Inv, Listed, [Next]_vars PROVE Inv'
  OBVIOUS
<1> USE DEF Inv
<1>1. ASSUME UNCHANGED <<open, duelId, api, sse, live>>
      PROVE  Inv'
  BY <1>1 DEF Shape, IsHook, OnlySelected, Covered, Whole, Pending, InFlight, RequestsOf, Mounted,
     Closed, NoDuel
<1>2. CASE ShowArena
  <2>1. IsHook(Mounted) /\ RequestsOf(Mounted, duelId)
        /\ \A s \in Slots : Mounted.requests[s].stage = "idle"
    BY DEF IsHook, RequestsOf, Mounted, Idle
  <2>2. IsHook(api)' /\ RequestsOf(api, duelId)' /\ (duelId # None => Pending(api, duelId)')
    BY <1>2, <2>1, WrappedLoadEach, WrappedLoadRequests, WrappedLoadPending, SlotsAssumption DEF ShowArena
  <2>3. DOMAIN sse' = {"url", "latest", "fresh", "connected"} /\ sse'.url = duelId
    BY <1>2 DEF ShowArena, Connect, Closed
  <2>4. open' /\ UNCHANGED <<duelId, live>>
    BY <1>2 DEF ShowArena
  <2>5. QED
    BY <2>2, <2>3, <2>4 DEF Shape, OnlySelected, Covered
<1>3. CASE LeaveArena
  <2>1. ~open' /\ api' = Mounted /\ sse' = Closed /\ live' = NoDuel
    BY <1>3 DEF LeaveArena
  <2>2. QED
    BY <2>1 DEF Shape, IsHook, OnlySelected, Covered, Mounted, Idle, Closed, NoDuel
<1>4. CASE Pick
  <2>1. PICK d \in listed : Select(d)
    BY <1>4 DEF Pick
  <2>2. QED
    BY <1>4, <2>1, SelectStep DEF Pick, Listed
<1>5. CASE MessageArrives
  <2>1. /\ DOMAIN sse' = DOMAIN sse /\ sse'.url = sse.url
        /\ open /\ UNCHANGED <<open, duelId, api, live>>
    BY <1>5, NoneAssumption DEF MessageArrives, OnMessage, Shape, OnlySelected, Closed
  <2>2. QED
    BY <2>1 DEF Shape, IsHook, OnlySelected, Covered, Whole, Pending, InFlight, RequestsOf
<1>6. CASE Render
  <2>1. /\ DOMAIN sse' = DOMAIN sse /\ sse'.url = sse.url
        /\ DOMAIN live' = DOMAIN live /\ live'.id = live.id
        /\ live'.parts = live.parts \/ live'.parts = live.parts \cup {sse.url}
        /\ open /\ UNCHANGED <<open, duelId, api>>
    BY <1>6 DEF Render, Rendered, Shape, OnlySelected, Closed
  <2>2. QED
    BY <2>1 DEF Shape, IsHook, OnlySelected, Covered, Whole, Pending, InFlight, RequestsOf
<1>7. ASSUME NEW d \in Duels, OnCreated(d)
      PROVE  Inv'
  BY <1>7, SelectStep DEF OnCreated
<1>8. ASSUME NEW s \in Slots, ServeDetail(s)
      PROVE  Inv'
  <2> DEFINE a == [id |-> api.requests[s].path, duel |-> duel[api.requests[s].path]]
  <2>1. /\ api' = Answer(api, s, a) /\ api.requests[s].stage = "sent"
        /\ UNCHANGED <<open, duelId, sse, live>>
    BY <1>8 DEF ServeDetail
  <2>2. a.id = api.requests[s].path
    OBVIOUS
  <2> HIDE DEF a
  <2>3. open
    BY <2>1 DEF OnlySelected, Mounted, Idle
  <2>4. /\ IsHook(api)' /\ RequestsOf(api, duelId)' /\ api'.error = api.error
        /\ Pending(api, duelId) => Pending(api, duelId)'
    BY <2>1, <2>2, <2>3, AnsweredRequests DEF Shape, OnlySelected
  <2>5. QED
    BY <2>1, <2>3, <2>4 DEF Shape, OnlySelected, Covered, Whole
<1>9. ASSUME NEW s \in Slots, DetailArrives(s)
      PROVE  Inv'
  <2>1. open
    BY <1>9 DEF DetailArrives, OnlySelected, Mounted, Idle
  <2>2. IsHook(Resolve(api, s)) /\ RequestsOf(Resolve(api, s), duelId)
    BY <2>1, ResolvedRequests DEF Shape, OnlySelected
  <2>3. api'.requests = Resolve(api, s).requests /\ DOMAIN api' = DOMAIN Resolve(api, s)
    BY <1>9, <2>2 DEF DetailArrives, IsHook
  <2>4. IsHook(api)' /\ RequestsOf(api, duelId)'
    BY <1>9, <2>2, <2>3 DEF DetailArrives, IsHook, RequestsOf
  <2>5. Whole' /\ DOMAIN live' = {"id", "duel", "parts"}
    BY <1>9, <2>1 DEF DetailArrives, OnlySelected, RequestsOf, Whole
  <2>6. QED
    BY <1>9, <2>1, <2>4, <2>5 DEF DetailArrives, Shape, OnlySelected, Covered
<1>10. ASSUME NEW s \in Slots, DetailFails(s)
       PROVE  Inv'
  <2>1. open
    BY <1>10 DEF DetailFails, OnlySelected, Mounted, Idle
  <2>2. IsHook(api)' /\ RequestsOf(api, duelId)' /\ api'.error
    BY <1>10, <2>1, ResolvedRequests DEF DetailFails, Shape, OnlySelected
  <2>3. QED
    BY <1>10, <2>1, <2>2 DEF DetailFails, Shape, OnlySelected, Covered
<1>11. ASSUME \/ \E d \in Duels : Submit(d) \/ Create(d) \/ SubmitFails(d) \/ EventLost(d)
              \/ EngineStep /\ UNCHANGED tab
              \/ ListArrives
              \/ UNCHANGED vars
       PROVE  UNCHANGED <<open, duelId, api, sse, live>>
  BY <1>11 DEF Submit, Create, SubmitFails, EventLost, ListArrives, tab, vars
<1>12. QED
  BY <1>1, <1>2, <1>3, <1>4, <1>5, <1>6, <1>7, <1>8, <1>9, <1>10, <1>11 DEF Next

\* While no request for the selected duel is on its way and none has failed,
\* the stage shows that duel and no part of another (ArenaStage.tsx 12-52),
\* however often another is selected, the tab is left or an answer is late.
THEOREM NeverTwoDuelsOnStage == Spec => []OneDuelOnStage
<1>1. Inv => OneDuelOnStage
  BY DEF Inv, Covered, Whole, OneDuelOnStage, Screen
<1>2. QED
  BY <1>1, InvInit, InvStep, ListedStep, PTL DEF Spec

-----------------------------------------------------------------------------
(* The banner and the scores.                                              *)

\* x has the winner and the rewards of the record w, which is decided.
Agrees(x, w) ==
  /\ w # None /\ w.winner # "none"
  /\ x.winner = w.winner
  /\ \A k \in Sides : x.agents[k].reward = w.agents[k].reward

\* What a copy x of a duel can say of its record w, unless it was forced.
Final(x, w, late) == x.winner # "none" /\ ~late => Agrees(x, w)

\* What an event can say of the record w of its duel, with these watchers.
Told(e, w, watchers, late) ==
  /\ e \in Events
  /\ e.type = "completed" /\ ~late =>
       /\ w # None /\ w.winner # "none"
       /\ e.winner = w.winner
       /\ \A k \in Sides : e.rewards[k] = w.agents[k].reward
  /\ e.type = "agent_completed" =>
       /\ w # None
       /\ e.agent \notin watchers
       /\ w.agents[e.agent].status \in Over
       /\ e.reward = w.agents[e.agent].reward

EngineTyped ==
  /\ duel \in [Duels -> Duel \cup {None}]
  /\ watching \in [Duels -> SUBSET Sides]
  /\ events \in [Duels -> Seq(Events)]

\* What the coroutines of a duel leave each other: a watcher has not given its
\* result, the winner is named last, and by the rewards.
InOrder(d) ==
  /\ \A k \in Sides : segment = <<d, k>> => k \in watching[d]
  /\ watching[d] # {} => duel[d] # None
  /\ d \notin forced => \A k \in watching[d] :
       /\ duel[d].status = "running"
       /\ duel[d].agents[k].status \in Over => segment = <<d, k>>
  /\ duel[d] # None /\ duel[d].winner # "none" =>
       /\ duel[d].status = "completed" /\ segment # <<d, "complete">>
       /\ d \notin forced => duel[d].winner = Winner(Rewards(duel[d]))
  /\ segment = <<d, "complete">> =>
       duel[d] # None /\ duel[d].status = "completed" /\ duel[d].winner = "none"
  /\ segment = <<d, "create">> =>
       /\ duel[d] # None /\ duel[d].status = "pending" /\ duel[d].winner = "none"
       /\ watching[d] = {}
       /\ \A k \in Sides : duel[d].agents[k].status = "pending"

EngineInv == EngineTyped /\ \A d \in Duels : InOrder(d)

Queued ==
  \A d \in Duels : \A i \in 1..Len(events[d]) :
    Told(events[d][i], duel[d], watching[d], d \in forced)

\* What is on its way to the stage, and what it shows.
Shown ==
  /\ duelId \in Duels \cup {None} /\ sse.url \in Duels \cup {None}
  /\ sse.fresh => sse.url \in Duels
                  /\ Told(sse.latest, duel[sse.url], watching[sse.url], sse.url \in forced)
  /\ \A s \in Slots : api.requests[s].stage = "answered" =>
       LET a == api.requests[s].answer
       IN  a.id \in Duels /\ a.duel \in Duel /\ Final(a.duel, duel[a.id], a.id \in forced)
  /\ live.id # None =>
       /\ live.id \in Duels /\ live.duel \in Duel /\ live.id \in live.parts
       /\ live.parts = {live.id} => Final(live.duel, duel[live.id], live.id \in forced)

BannerInv == EngineInv /\ Queued /\ Shown

\* What holds of the record of d for a copy or an event goes on to hold.
Lasting(d) ==
  /\ \A x : Final(x, duel[d], d \in forced) => Final(x, duel'[d], d \in forced')
  /\ \A e : Told(e, duel[d], watching[d], d \in forced)
            => Told(e, duel'[d], watching'[d], d \in forced')

\* The names of the groups of assignments differ.
LEMMA Segments ==
  ASSUME NEW d \in Duels, NEW k \in Sides
  PROVE  /\ <<d, k>> # None /\ <<d, "create">> # None /\ <<d, "complete">> # None
         /\ k # "create" /\ k # "complete"
<1>1. k \in Parts /\ "create" \in Parts /\ "complete" \in Parts
      /\ k # "create" /\ k # "complete"
  BY DEF Sides, Parts
<1>2. \A t \in Parts : <<d, t>> # None
  BY NoneAssumption
<1>3. QED
  BY <1>1, <1>2

\* The updater of setLiveDuel gives a duel.
LEMMA ApplyTyped ==
  ASSUME NEW x \in Duel, NEW e \in Events
  PROVE  Apply(x, e) \in Duel
<1>1. CASE e.type = "agent_status"
  BY <1>1 DEF Apply, Events, Duel, Agents, Over, Sides
<1>2. CASE e.type = "agent_completed"
  BY <1>2 DEF Apply, Events, Duel, Agents, Over, Sides
<1>3. CASE e.type = "completed"
  BY <1>3 DEF Apply, Events, Duel, Agents, Over, Sides
<1>4. CASE e.type \notin {"agent_status", "agent_completed", "completed"}
  BY <1>4 DEF Apply
<1>5. QED
  BY <1>1, <1>2, <1>3, <1>4

\* A copy that has an event applied says nothing wrong of its record.
LEMMA ApplyFinal ==
  ASSUME NEW x \in Duel, NEW e, NEW w, NEW watchers, NEW late,
         Told(e, w, watchers, late), Final(x, w, late)
  PROVE  Final(Apply(x, e), w, late)
<1>1. CASE e.type = "agent_status"
  BY <1>1 DEF Told, Apply, Events, Duel, Agents, Over, Sides, Final, Agrees
<1>2. CASE e.type = "agent_completed"
  BY <1>2 DEF Told, Apply, Events, Duel, Agents, Over, Sides, Final, Agrees
<1>3. CASE e.type = "completed"
  BY <1>3 DEF Told, Apply, Events, Duel, Agents, Over, Sides, Final, Agrees
<1>4. CASE e.type \notin {"agent_status", "agent_completed", "completed"}
  BY <1>4 DEF Apply
<1>5. QED
  BY <1>1, <1>2, <1>3, <1>4

\* Events are added to the queue of a duel; none of those before becomes wrong.
LEMMA QueueStep ==
  ASSUME EngineTyped, Queued, NEW c \in Duels, NEW s \in Seq(Events), Put(c, s),
         \A d \in Duels : Lasting(d),
         \A j \in 1..Len(s) : Told(s[j], duel'[c], watching'[c], c \in forced')
  PROVE  Queued' /\ events' \in [Duels -> Seq(Events)]
<1>1. events[c] \in Seq(Events)
  BY DEF EngineTyped
<1>2. events' = [events EXCEPT ![c] = events[c] \o s]
  BY DEF Put, EngineTyped
<1>3. events' \in [Duels -> Seq(Events)]
  BY <1>1, <1>2 DEF EngineTyped
<1>4. ASSUME NEW d \in Duels, NEW i \in 1..Len(events'[d])
      PROVE  Told(events'[d][i], duel'[d], watching'[d], d \in forced')
  <2>1. CASE d = c /\ i > Len(events[c])
    <3>1. /\ i - Len(events[c]) \in 1..Len(s)
          /\ events'[d][i] = s[i - Len(events[c])]
      BY <1>1, <1>2, <1>4, <2>1 DEF EngineTyped
    <3>2. QED
      BY <2>1, <3>1
  <2>2. CASE ~(d = c /\ i > Len(events[c]))
    <3>1. i \in 1..Len(events[d]) /\ events'[d][i] = events[d][i]
      BY <1>1, <1>2, <1>4, <2>2 DEF EngineTyped
    <3>2. Lasting(d) /\ Told(events[d][i], duel[d], watching[d], d \in forced)
      BY <3>1 DEF Queued
    <3>3. QED
      BY <3>1, <3>2 DEF Lasting
  <2>3. QED
    BY <2>1, <2>2
<1>5. QED
  BY <1>3, <1>4 DEF Queued

\* Steps of the engine that add no event leave the queues as they are.
LEMMA QueueKept ==
  ASSUME EngineTyped, Queued, UNCHANGED events, \A d \in Duels : Lasting(d)
  PROVE  Queued'
  BY DEF Queued, Lasting

\* A duel whose part of the engine does not change.
LEMMA Elsewhere ==
  ASSUME NEW d \in Duels, InOrder(d), duel'[d] = duel[d],
         watching[d] \subseteq Sides, watching'[d] = watching[d],
         (d \in forced' <=> d \in forced),
         \A t \in Parts : segment' = <<d, t>> <=> segment = <<d, t>>
  PROVE  InOrder(d)' /\ Lasting(d)
<1>1. Sides \subseteq Parts /\ "create" \in Parts /\ "complete" \in Parts
  BY DEF Parts
<1>2. \A k \in Sides : segment' = <<d, k>> <=> segment = <<d, k>>
  BY <1>1
<1>3. /\ segment' = <<d, "create">> <=> segment = <<d, "create">>
      /\ segment' = <<d, "complete">> <=> segment = <<d, "complete">>
  BY <1>1
<1>4. Lasting(d)
  BY DEF Lasting
<1>5. InOrder(d)'
  <2>1. \A k \in Sides : segment' = <<d, k>> => k \in watching'[d]
    BY <1>2 DEF InOrder
  <2>2. watching'[d] # {} => duel'[d] # None
    BY DEF InOrder
  <2>3. d \notin forced' => \A k \in watching'[d] :
          /\ duel'[d].status = "running"
          /\ duel'[d].agents[k].status \in Over => segment' = <<d, k>>
    BY <1>2, watching[d] \subseteq Sides DEF InOrder
  <2>4. duel'[d] # None /\ duel'[d].winner # "none" =>
          /\ duel'[d].status = "completed" /\ segment' # <<d, "complete">>
          /\ d \notin forced' => duel'[d].winner = Winner(Rewards(duel'[d]))
    BY <1>3 DEF InOrder
  <2>5. QED
    BY <1>3, <2>1, <2>2, <2>3, <2>4 DEF InOrder
<1>6. QED
  BY <1>4, <1>5

\* A step of the engine is about one duel.
Only(c) ==
  /\ \A d \in Duels : d # c =>
       duel'[d] = duel[d] /\ watching'[d] = watching[d] /\ (d \in forced' <=> d \in forced)
  /\ segment = None \/ \E t \in Parts : segment = <<c, t>>
  /\ segment' = None \/ \E t \in Parts : segment' = <<c, t>>

LEMMA OnlyOne ==
  ASSUME EngineInv, NEW c \in Duels, Only(c), InOrder(c)', Lasting(c)
  PROVE  \A d \in Duels : InOrder(d)' /\ Lasting(d)
<1> SUFFICES ASSUME NEW d \in Duels, d # c PROVE InOrder(d)' /\ Lasting(d)
  OBVIOUS
<1>1. \A t \in Parts : segment' # <<d, t>> /\ segment # <<d, t>>
  BY NoneAssumption DEF Only
<1>2. InOrder(d) /\ watching[d] \subseteq Sides
  BY DEF EngineInv, EngineTyped
<1>3. /\ duel'[d] = duel[d] /\ watching'[d] = watching[d]
      /\ (d \in forced' <=> d \in forced)
  BY DEF Only
<1>4. QED
  BY <1>1, <1>2, <1>3, Elsewhere

\* A record whose winner and rewards stay, and whose agents stay over.
LEMMA SameVerdict ==
  ASSUME NEW c \in Duels, duel'[c] \in Duel, duel'[c].winner = duel[c].winner,
         \A j \in Sides : /\ duel'[c].agents[j].reward = duel[c].agents[j].reward
                          /\ duel[c].agents[j].status \in Over =>
                               duel'[c].agents[j].status \in Over,
         watching'[c] = watching[c],
         c \in forced => c \in forced'
  PROVE  Lasting(c)
<1>1. duel'[c] # None
  BY NoneAssumption
<1>2. ASSUME NEW x, Final(x, duel[c], c \in forced)
      PROVE  Final(x, duel'[c], c \in forced')
  <2>1. CASE x.winner # "none" /\ c \notin forced'
    BY <1>1, <1>2, <2>1 DEF Final, Agrees
  <2>2. CASE ~(x.winner # "none" /\ c \notin forced')
    BY <2>2 DEF Final
  <2>3. QED
    BY <2>1, <2>2
<1>3. ASSUME NEW e, Told(e, duel[c], watching[c], c \in forced)
      PROVE  Told(e, duel'[c], watching'[c], c \in forced')
  <2>1. e.type = "agent_completed" => e.agent \in Sides
    BY <1>3 DEF Told, Events
  <2>2. e.type = "agent_completed" =>
          /\ e.agent \notin watching'[c]
          /\ duel'[c].agents[e.agent].status \in Over
          /\ e.reward = duel'[c].agents[e.agent].reward
    BY <1>3, <2>1 DEF Told
  <2>3. e.type = "completed" /\ c \notin forced' =>
          /\ duel'[c].winner # "none"
          /\ e.winner = duel'[c].winner
          /\ \A k \in Sides : e.rewards[k] = duel'[c].agents[k].reward
    BY <1>3 DEF Told
  <2>4. e \in Events
    BY <1>3 DEF Told
  <2>5. QED
    BY <1>1, <2>2, <2>3, <2>4 DEF Told
<1>4. QED
  BY <1>2, <1>3 DEF Lasting

\* start_duel.
LEMMA CreateStep ==
  ASSUME EngineInv, Queued, NEW c \in Duels, BeginCreate(c)
  PROVE  EngineInv' /\ Queued' /\ \A d \in Duels : Lasting(d)
<1>1. /\ segment = None /\ duel[c] = None /\ duel' = [duel EXCEPT ![c] = NewDuel]
      /\ segment' = <<c, "create">> /\ UNCHANGED <<watching, events, forced>>
  BY DEF BeginCreate
<1>2. NewDuel \in Duel /\ NewDuel.winner = "none" /\ NewDuel.status = "pending"
      /\ \A k \in Sides : NewDuel.agents[k].status = "pending"
  BY DEF NewDuel, Duel, Agents, Over
<1> HIDE DEF NewDuel
<1>3. EngineTyped'
  BY <1>1, <1>2 DEF EngineInv, EngineTyped
<1>4. duel'[c] = NewDuel /\ watching'[c] = {} /\ NewDuel # None
  BY <1>1, <1>2, NoneAssumption DEF EngineInv, EngineTyped, InOrder
<1>5. InOrder(c)'
  BY <1>1, <1>2, <1>4, Segments DEF InOrder, Sides
<1>6. Lasting(c)
  BY <1>1, <1>4 DEF Lasting, Final, Agrees, Told
<1>7. Only(c)
  BY <1>1 DEF Only, Parts, EngineInv, EngineTyped
<1>8. QED
  BY <1>1, <1>3, <1>5, <1>6, <1>7, OnlyOne, QueueKept DEF EngineInv

\* The second half of a creation, which adds the agents' starts.
LEMMA EndCreateStep ==
  ASSUME EngineInv, Queued, NEW c \in Duels, EndCreate(c) \/ FailCreate(c)
  PROVE  EngineInv' /\ Queued' /\ \A d \in Duels : Lasting(d)
<1> DEFINE new == <<Plain("started"), AgentStatus("agent_a", "running"),
                    AgentStatus("agent_b", "running")>>
<1>1. /\ duel[c] \in Duel /\ duel[c].winner = "none" /\ watching[c] = {}
      /\ \A k \in Sides : duel[c].agents[k].status = "pending"
      /\ segment = <<c, "create">> /\ segment' = None /\ UNCHANGED forced
  BY DEF EngineInv, EngineTyped, InOrder, EndCreate, FailCreate
<1>2. \/ /\ duel' = [duel EXCEPT ![c].status = "running"]
         /\ watching' = [watching EXCEPT ![c] = Sides]
      \/ duel' = [duel EXCEPT ![c].status = "failed"] /\ watching' = watching
  BY DEF EndCreate, FailCreate
<1>3. /\ duel'[c] \in Duel /\ duel'[c].winner = "none"
      /\ duel'[c].agents = duel[c].agents
      /\ \/ watching'[c] = {}
         \/ duel'[c].status = "running" /\ watching'[c] = Sides
  BY <1>1, <1>2 DEF EngineInv, EngineTyped, Duel
<1>4. InOrder(c)'
  BY <1>1, <1>3, Segments, NoneAssumption DEF InOrder, Sides, Over
<1>5. Lasting(c)
  BY <1>1, <1>3 DEF Lasting, Final, Agrees, Told, Over, Events
<1>6. Only(c)
  BY <1>1, <1>2 DEF Only, Parts, EngineInv, EngineTyped
<1>7. \A d \in Duels : InOrder(d)' /\ Lasting(d)
  BY <1>4, <1>5, <1>6, OnlyOne
<1>8. duel' \in [Duels -> Duel \cup {None}] /\ watching' \in [Duels -> SUBSET Sides]
  BY <1>2, <1>3 DEF EngineInv, EngineTyped
<1>9. CASE EndCreate(c)
  <2>1. Put(c, new)
    BY <1>9 DEF EndCreate
  <2>2. /\ Plain("started") \in Events
        /\ \A k \in Sides : AgentStatus(k, "running") \in Events
    BY DEF Plain, AgentStatus, Events, Sides
  <2>3. new \in Seq(Events) /\ \A j \in 1..Len(new) :
          new[j] \in Events /\ new[j].type \notin {"completed", "agent_completed"}
    BY <2>2 DEF Plain, AgentStatus, Sides
  <2> HIDE DEF new
  <2>4. \A j \in 1..Len(new) : Told(new[j], duel'[c], watching'[c], c \in forced')
    BY <2>3 DEF Told
  <2>5. QED
    BY <1>7, <1>8, <2>1, <2>3, <2>4, QueueStep DEF EngineInv, EngineTyped
<1>10. CASE FailCreate(c)
  <2> DEFINE last == <<Plain("error"), Plain("done")>>
  <2>1. Put(c, last)
    BY <1>10 DEF FailCreate
  <2>2. last \in Seq(Events) /\ \A j \in 1..Len(last) :
          last[j] \in Events /\ last[j].type \notin {"completed", "agent_completed"}
    BY DEF Plain, Events
  <2> HIDE DEF last
  <2>3. \A j \in 1..Len(last) : Told(last[j], duel'[c], watching'[c], c \in forced')
    BY <2>2 DEF Told
  <2>4. QED
    BY <1>7, <1>8, <2>1, <2>2, <2>3, QueueStep DEF EngineInv, EngineTyped
<1>11. QED
  BY <1>9, <1>10

\* _watch_agent: the status first, then the rest and two events.
LEMMA BeginResultStep ==
  ASSUME EngineInv, Queued, NEW c \in Duels, NEW k \in Sides, BeginResult(c, k)
  PROVE  EngineInv' /\ Queued' /\ \A d \in Duels : Lasting(d)
<1>1. PICK o \in Outcomes : duel' = [duel EXCEPT ![c].agents[k].status = o.status]
  BY DEF BeginResult
<1>2. /\ segment = None /\ k \in watching[c] /\ segment' = <<c, k>>
      /\ UNCHANGED <<watching, events, forced>> /\ o.status \in Over
  BY OutcomeAssumption DEF BeginResult
<1>3. duel[c] \in Duel /\ InOrder(c) /\ watching[c] \subseteq Sides
  BY <1>2 DEF EngineInv, EngineTyped, InOrder
<1> DEFINE f == [duel[c].agents EXCEPT ![k].status = o.status]
<1>4. /\ duel'[c] \in Duel /\ duel'[c].winner = duel[c].winner
      /\ duel'[c].status = duel[c].status
      /\ duel'[c].agents[k].status = o.status
      /\ \A j \in Sides : /\ duel'[c].agents[j].reward = duel[c].agents[j].reward
                          /\ j # k => duel'[c].agents[j] = duel[c].agents[j]
  <2>1. duel'[c] = [duel[c] EXCEPT !.agents = f]
    BY <1>1, <1>3 DEF EngineInv, EngineTyped, Duel
  <2>2. duel[c].agents \in [Sides -> Agents]
    BY <1>3 DEF Duel
  <2>3. /\ f \in [Sides -> Agents] /\ f[k].status = o.status
        /\ \A j \in Sides : /\ f[j].reward = duel[c].agents[j].reward
                            /\ j # k => f[j] = duel[c].agents[j]
    BY <1>2, <2>2 DEF Agents
  <2> HIDE DEF f
  <2>4. QED
    BY <1>3, <2>1, <2>3 DEF Duel
<1> HIDE DEF f
<1>5. Rewards(duel'[c]) = Rewards(duel[c])
  BY <1>4 DEF Rewards
<1>6. InOrder(c)'
  <2>1. \A j \in Sides : segment' = <<c, j>> => j \in watching'[c]
    BY <1>2
  <2>2. c \notin forced' => \A j \in watching'[c] :
          /\ duel'[c].status = "running"
          /\ duel'[c].agents[j].status \in Over => segment' = <<c, j>>
    <3>1. \A j \in watching[c] : j \in Sides /\ segment # <<c, j>>
      BY <1>2, <1>3, Segments
    <3>2. c \notin forced => \A j \in watching[c] :
            duel[c].status = "running" /\ duel[c].agents[j].status \notin Over
      BY <1>3, <3>1 DEF InOrder
    <3>3. \A j \in watching[c] : j = k \/ duel'[c].agents[j] = duel[c].agents[j]
      BY <1>4, <3>1
    <3>4. QED
      BY <1>2, <1>4, <3>2, <3>3
  <2>3. /\ segment' # <<c, "complete">> /\ segment' # <<c, "create">>
        /\ duel'[c] # None
    BY <1>2, <1>4, Segments, NoneAssumption
  <2>4. duel'[c].winner # "none" =>
          /\ duel'[c].status = "completed"
          /\ c \notin forced' => duel'[c].winner = Winner(Rewards(duel'[c]))
    BY <1>2, <1>3, <1>4, <1>5, NoneAssumption DEF InOrder
  <2>5. QED
    BY <2>1, <2>2, <2>3, <2>4 DEF InOrder
<1>7. Lasting(c)
  BY <1>2, <1>4, SameVerdict
<1>8. Only(c)
  BY <1>1, <1>2 DEF Only, Parts, EngineInv, EngineTyped
<1>9. EngineTyped'
  BY <1>1, <1>2, <1>4 DEF EngineInv, EngineTyped
<1>10. QED
  BY <1>2, <1>6, <1>7, <1>8, <1>9, OnlyOne, QueueKept DEF EngineInv

\* The second half of a result: the status that goes with the score.
LEMMA EndResultStep ==
  ASSUME EngineInv, Queued, NEW c \in Duels, NEW k \in Sides, EndResult(c, k)
  PROVE  EngineInv' /\ Queued' /\ \A d \in Duels : Lasting(d)
<1>1. PICK o \in Outcomes :
        /\ o.status = duel[c].agents[k].status
        /\ duel' = [duel EXCEPT ![c].agents[k] = o]
        /\ Put(c, <<AgentStatus(k, o.status), AgentCompleted(k, o)>>)
  BY DEF EndResult
<1>2. /\ segment = <<c, k>> /\ segment' = None /\ UNCHANGED forced
      /\ watching' = [watching EXCEPT ![c] = @ \ {k}]
      /\ o.status \in Over /\ o.reward \in 0..1 /\ o \in Agents
  BY OutcomeAssumption DEF EndResult, Agents
<1>3. /\ duel[c] \in Duel /\ InOrder(c) /\ watching[c] \subseteq Sides
      /\ k \in watching[c]
  BY <1>2 DEF EngineInv, EngineTyped, InOrder
<1>4. /\ duel'[c] \in Duel /\ duel'[c].winner = duel[c].winner
      /\ duel'[c].status = duel[c].status
      /\ duel'[c].agents[k] = o
      /\ \A j \in Sides : j # k => duel'[c].agents[j] = duel[c].agents[j]
      /\ watching'[c] = watching[c] \ {k}
  BY <1>1, <1>2, <1>3 DEF EngineInv, EngineTyped, Duel
<1>5. c \notin forced => duel[c].winner = "none"
  BY <1>3, NoneAssumption DEF InOrder
<1>6. InOrder(c)'
  <2>1. \A t \in Parts : segment' # <<c, t>>
    BY <1>2, NoneAssumption
  <2>2. \A j \in Sides : segment' # <<c, j>> /\ segment' # <<c, "complete">>
                        /\ segment' # <<c, "create">>
    BY <2>1 DEF Parts
  <2>3. c \notin forced' => \A j \in watching'[c] :
          /\ duel'[c].status = "running"
          /\ duel'[c].agents[j].status \notin Over
    <3>1. \A j \in watching'[c] : j \in Sides /\ j # k /\ segment # <<c, j>>
      BY <1>2, <1>3, <1>4
    <3>2. QED
      BY <1>2, <1>3, <1>4, <3>1 DEF InOrder
  <2>4. duel'[c] # None
    BY <1>4, NoneAssumption
  <2>5. duel'[c].winner # "none" => duel'[c].status = "completed" /\ c \in forced'
    BY <1>2, <1>3, <1>4, <1>5, NoneAssumption DEF InOrder
  <2>6. QED
    BY <2>2, <2>3, <2>4, <2>5 DEF InOrder, Sides
<1>7. Lasting(c)
  <2>1. \A x : Final(x, duel[c], c \in forced) => Final(x, duel'[c], c \in forced')
    BY <1>2, <1>5 DEF Final, Agrees
  <2>2. ASSUME NEW e, Told(e, duel[c], watching[c], c \in forced)
        PROVE  Told(e, duel'[c], watching'[c], c \in forced')
    <3>1. e.type = "agent_completed" => e.agent \in Sides /\ e.agent # k
      BY <1>3, <2>2 DEF Told, Events
    <3>2. QED
      BY <1>2, <1>4, <1>5, <2>2, <3>1, NoneAssumption DEF Told
  <2>3. QED
    BY <2>1, <2>2 DEF Lasting
<1>8. Only(c)
  BY <1>1, <1>2 DEF Only, Parts, EngineInv, EngineTyped
<1>9. \A d \in Duels : InOrder(d)' /\ Lasting(d)
  BY <1>6, <1>7, <1>8, OnlyOne
<1>10. duel' \in [Duels -> Duel \cup {None}] /\ watching' \in [Duels -> SUBSET Sides]
  BY <1>1, <1>2, <1>4 DEF EngineInv, EngineTyped
<1> DEFINE new == <<AgentStatus(k, o.status), AgentCompleted(k, o)>>
<1>11. AgentStatus(k, o.status) \in Events /\ AgentCompleted(k, o) \in Events
  BY <1>2 DEF AgentStatus, AgentCompleted, Events, Over
<1>12. new \in Seq(Events) /\ Len(new) = 2
  BY <1>11
<1>13. /\ Told(AgentStatus(k, o.status), duel'[c], watching'[c], c \in forced')
       /\ Told(AgentCompleted(k, o), duel'[c], watching'[c], c \in forced')
  BY <1>2, <1>4, <1>11, NoneAssumption DEF Told, AgentStatus, AgentCompleted
<1>14. \A j \in 1..Len(new) : Told(new[j], duel'[c], watching'[c], c \in forced')
  BY <1>12, <1>13
<1>15. Put(c, new)
  BY <1>1
<1> HIDE DEF new
<1>16. QED
  BY <1>9, <1>10, <1>12, <1>14, <1>15, QueueStep DEF EngineInv, EngineTyped

\* _wait_for_completion: the agents are over, or the deadline has come.
LEMMA BeginCompleteStep ==
  ASSUME EngineInv, Queued, NEW c \in Duels, BeginComplete(c) \/ Deadline(c)
  PROVE  EngineInv' /\ Queued' /\ \A d \in Duels : Lasting(d)
<1>1. /\ segment = None /\ duel[c] \in Duel /\ duel[c].status = "running"
      /\ segment' = <<c, "complete">> /\ UNCHANGED <<watching, events>>
      /\ InOrder(c) /\ watching[c] \subseteq Sides
  BY DEF BeginComplete, Deadline, Existing, EngineInv, EngineTyped
<1>2. duel[c].winner = "none"
  BY <1>1, NoneAssumption DEF InOrder
<1>3. /\ duel'[c] \in Duel /\ duel'[c].status = "completed" /\ duel'[c].winner = "none"
      /\ \A j \in Sides : /\ duel'[c].agents[j].reward = duel[c].agents[j].reward
                          /\ duel[c].agents[j].status \in Over =>
                               duel'[c].agents[j].status \in Over
      /\ duel' \in [Duels -> Duel \cup {None}]
      /\ \A d \in Duels : d # c => duel'[d] = duel[d] /\ (d \in forced' <=> d \in forced)
      /\ c \in forced => c \in forced'
  <2>1. CASE BeginComplete(c)
    BY <1>1, <1>2, <2>1 DEF BeginComplete, EngineInv, EngineTyped, Duel
  <2>2. CASE Deadline(c)
    <3> DEFINE f == [k \in Sides |-> IF duel[c].agents[k].status \in Over
                                     THEN duel[c].agents[k]
                                     ELSE [duel[c].agents[k] EXCEPT !.status = "failed"]]
    <3>1. duel' = [duel EXCEPT ![c] = [duel[c] EXCEPT !.status = "completed", !.agents = f]]
      BY <2>2 DEF Deadline, EngineInv, EngineTyped
    <3>2. /\ f \in [Sides -> Agents]
          /\ \A j \in Sides : /\ f[j].reward = duel[c].agents[j].reward
                              /\ f[j].status \in Over
      BY <1>1 DEF Duel, Agents, Over
    <3> HIDE DEF f
    <3>3. /\ duel'[c] = [duel[c] EXCEPT !.status = "completed", !.agents = f]
          /\ \A d \in Duels : d # c => duel'[d] = duel[d]
      BY <3>1 DEF EngineInv, EngineTyped
    <3>4. /\ duel'[c] \in Duel /\ duel'[c].agents = f
          /\ duel'[c].status = "completed" /\ duel'[c].winner = "none"
      BY <1>1, <1>2, <3>2, <3>3 DEF Duel
    <3>5. duel' \in [Duels -> Duel \cup {None}]
      BY <3>1, <3>3, <3>4 DEF EngineInv, EngineTyped
    <3>6. forced' = forced \cup {c}
      BY <2>2 DEF Deadline
    <3>7. QED
      BY <3>2, <3>3, <3>4, <3>5, <3>6
  <2>3. QED
    BY <2>1, <2>2
<1>4. c \notin forced' => watching[c] = {}
  <2>1. CASE BeginComplete(c)
    <3>1. BothOver(duel[c]) /\ forced' = forced
      BY <2>1 DEF BeginComplete
    <3>2. \A j \in watching[c] : j \in Sides /\ segment # <<c, j>>
      BY <1>1, Segments
    <3>3. QED
      BY <1>1, <3>1, <3>2 DEF BothOver, InOrder
  <2>2. CASE Deadline(c)
    BY <2>2 DEF Deadline
  <2>3. QED
    BY <2>1, <2>2
<1>5. InOrder(c)'
  BY <1>1, <1>3, <1>4, Segments, NoneAssumption DEF InOrder, Sides
<1>6. Lasting(c)
  BY <1>1, <1>2, <1>3, SameVerdict
<1>7. Only(c)
  BY <1>1, <1>3 DEF Only, Parts
<1>8. EngineTyped'
  BY <1>1, <1>3 DEF EngineInv, EngineTyped
<1>9. QED
  BY <1>1, <1>5, <1>6, <1>7, <1>8, OnlyOne, QueueKept DEF EngineInv

\* The second half of the conclusion: the winner is sent and the streams end.
LEMMA EndCompleteStep ==
  ASSUME EngineInv, Queued, NEW c \in Duels, EndComplete(c)
  PROVE  EngineInv' /\ Queued' /\ \A d \in Duels : Lasting(d)
<1> DEFINE over == [duel[c] EXCEPT !.winner = Winner(Rewards(duel[c]))]
<1>1. /\ segment = <<c, "complete">> /\ segment' = None /\ UNCHANGED <<watching, forced>>
      /\ duel' = [duel EXCEPT ![c] = over] /\ Put(c, <<Completed(over), Plain("done")>>)
  BY DEF EndComplete
<1>2. /\ duel[c] \in Duel /\ duel[c].winner = "none" /\ duel[c].status = "completed"
      /\ InOrder(c) /\ watching[c] \subseteq Sides
  BY <1>1 DEF EngineInv, EngineTyped, InOrder
<1>3. Winner(Rewards(duel[c])) \in Sides \cup {"draw"}
  BY DEF Winner, Sides
<1>4. /\ over \in Duel /\ over.winner = Winner(Rewards(duel[c]))
      /\ over.winner \in Sides \cup {"draw"}
      /\ over.status = "completed" /\ over.agents = duel[c].agents
  BY <1>2, <1>3 DEF Duel
<1> HIDE DEF over
<1>5. duel'[c] = over /\ Rewards(over) = Rewards(duel[c]) /\ over.winner # "none"
  BY <1>1, <1>4 DEF EngineInv, EngineTyped, Rewards, Sides
<1>6. InOrder(c)'
  <2>1. \A j \in Sides : segment' # <<c, j>> /\ segment' # <<c, "complete">>
                        /\ segment' # <<c, "create">>
    BY <1>1, Segments
  <2>2. c \notin forced => watching[c] = {}
    BY <1>2 DEF InOrder
  <2>3. QED
    BY <1>1, <1>4, <1>5, <2>1, <2>2, NoneAssumption DEF InOrder, Sides
<1>7. Lasting(c)
  BY <1>1, <1>2, <1>4, <1>5, NoneAssumption DEF Lasting, Final, Agrees, Told
<1>8. Only(c)
  BY <1>1 DEF Only, Parts, EngineInv, EngineTyped
<1>9. \A d \in Duels : InOrder(d)' /\ Lasting(d)
  BY <1>6, <1>7, <1>8, OnlyOne
<1>10. duel' \in [Duels -> Duel \cup {None}] /\ watching' \in [Duels -> SUBSET Sides]
  BY <1>1, <1>4 DEF EngineInv, EngineTyped
<1> DEFINE new == <<Completed(over), Plain("done")>>
<1>11. Rewards(over) \in [Sides -> 0..1]
  BY <1>4 DEF Rewards, Duel, Agents
<1>12. Completed(over) \in Events /\ Plain("done") \in Events
  BY <1>4, <1>11 DEF Completed, Plain, Events
<1>13. new \in Seq(Events) /\ Len(new) = 2
  BY <1>12
<1>14. /\ Told(Completed(over), duel'[c], watching'[c], c \in forced')
       /\ Told(Plain("done"), duel'[c], watching'[c], c \in forced')
  BY <1>4, <1>5, <1>12, NoneAssumption DEF Told, Completed, Plain, Rewards
<1>15. \A j \in 1..Len(new) : Told(new[j], duel'[c], watching'[c], c \in forced')
  BY <1>13, <1>14
<1>16. Put(c, new)
  BY <1>1
<1> HIDE DEF new
<1>17. QED
  BY <1>9, <1>10, <1>13, <1>15, <1>16, QueueStep DEF EngineInv, EngineTyped

\* Any step of the engine, whichever duel it is about.
LEMMA EngineStepKeeps ==
  ASSUME EngineInv, Queued, EngineStep \/ \E c \in Duels : BeginCreate(c)
  PROVE  EngineInv' /\ Queued' /\ \A d \in Duels : Lasting(d)
<1>1. \E c \in Duels : BeginCreate(c) \/ EndCreate(c) \/ FailCreate(c)
                       \/ BeginComplete(c) \/ Deadline(c) \/ EndComplete(c)
                       \/ \E k \in Sides : BeginResult(c, k) \/ EndResult(c, k)
  BY DEF EngineStep
<1>2. QED
  BY <1>1, CreateStep, EndCreateStep, BeginResultStep, EndResultStep, BeginCompleteStep,
     EndCompleteStep

\* An event is taken off its queue: what it says is true.
LEMMA TakeStep ==
  ASSUME EngineInv, Queued, NEW c \in Duels, Take(c)
  PROVE  /\ EngineInv' /\ Queued'
         /\ Told(Head(events[c]), duel[c], watching[c], c \in forced)
<1>1. /\ events[c] \in Seq(Events) /\ events[c] # <<>>
      /\ events' = [events EXCEPT ![c] = Tail(events[c])]
      /\ UNCHANGED <<duel, watching, segment, forced>>
  BY DEF Take, EngineInv, EngineTyped
<1>2. Head(events[c]) = events[c][1] /\ 1 \in 1..Len(events[c])
  BY <1>1
<1>3. /\ Tail(events[c]) \in Seq(Events)
      /\ \A i \in 1..Len(Tail(events[c])) :
           i + 1 \in 1..Len(events[c]) /\ Tail(events[c])[i] = events[c][i + 1]
  BY <1>1
<1>4. EngineInv'
  BY <1>1, <1>3 DEF EngineInv, EngineTyped, InOrder
<1>5. Queued'
  BY <1>1, <1>3 DEF Queued, EngineInv, EngineTyped
<1>6. QED
  BY <1>2, <1>4, <1>5 DEF Queued

\* The engine does not move.
LEMMA EngineKept ==
  ASSUME EngineInv, Queued, UNCHANGED healthy
  PROVE  EngineInv' /\ Queued' /\ \A d \in Duels : Lasting(d)
  BY DEF healthy, EngineInv, EngineTyped, InOrder, Queued, Lasting

\* What is shown and on its way stays true while the tab does not move.
LEMMA ShownKept ==
  ASSUME Shown, \A d \in Duels : Lasting(d), UNCHANGED <<duelId, api, sse, live>>
  PROVE  Shown'
<1>1. sse'.fresh => /\ sse'.url \in Duels
                    /\ Told(sse'.latest, duel'[sse'.url], watching'[sse'.url], sse'.url \in forced')
  BY DEF Shown, Lasting
<1>2. ASSUME NEW s \in Slots, api'.requests[s].stage = "answered"
      PROVE  LET a == api'.requests[s].answer
             IN  a.id \in Duels /\ a.duel \in Duel /\ Final(a.duel, duel'[a.id], a.id \in forced')
  BY <1>2 DEF Shown, Lasting
<1>3. live'.id # None =>
        /\ live'.id \in Duels /\ live'.duel \in Duel /\ live'.id \in live'.parts
        /\ live'.parts = {live'.id} => Final(live'.duel, duel'[live'.id], live'.id \in forced')
  BY DEF Shown, Lasting
<1>4. QED
  BY <1>1, <1>2, <1>3 DEF Shown

\* Nothing on its way any more, while what is shown stays.
LEMMA ShownFresh ==
  ASSUME Shown, UNCHANGED healthy, live' \in {live, NoDuel},
         duelId' \in Duels \cup {None}, sse'.url \in Duels \cup {None}, ~sse'.fresh,
         \A s \in Slots : api'.requests[s].stage # "answered"
  PROVE  Shown'
  BY DEF Shown, healthy, NoDuel

\* Selecting a duel.
LEMMA SelectShown ==
  ASSUME Inv, Shown, NEW d \in Duels, Select(d), UNCHANGED <<healthy, open, live>>
  PROVE  Shown'
<1>1. CASE open /\ d # duelId
  <2>1. api' = Reload(api, d) /\ sse' = Connect(sse, d) /\ duelId' = d
    BY <1>1 DEF Select
  <2>2. \A s \in Slots : api'.requests[s].stage # "answered"
    <3>1. \A s \in Slots : api'.requests[s] = Idle \/ NewRequest(api'.requests[s], d)
      BY <2>1, ReloadEach DEF Inv, Shape
    <3>2. QED
      BY <3>1 DEF Idle, NewRequest
  <2>3. sse'.url = d /\ ~sse'.fresh
    BY <2>1 DEF Connect, Inv, Shape
  <2>4. QED
    BY <2>1, <2>2, <2>3, ShownFresh
<1>2. CASE ~(open /\ d # duelId)
  <2>1. UNCHANGED <<api, sse, live>> /\ duelId' = d
    BY <1>2 DEF Select
  <2>2. QED
    BY <2>1 DEF Shown, healthy
<1>3. QED
  BY <1>1, <1>2

\* Every step keeps what the stage shows in agreement with the engine.
LEMMA BannerStep == Inv /\ Listed /\ BannerInv /\ [Next]_vars => BannerInv'
<1> SUFFICES ASSUME Inv, Listed, BannerInv, [Next]_vars PROVE BannerInv'
  OBVIOUS
<1> USE DEF BannerInv
<1>1. ASSUME UNCHANGED healthy, Shown'
      PROVE  BannerInv'
  BY <1>1, EngineKept
<1>2. CASE ShowArena
  <2>1. /\ api' = WrappedLoad(Mounted, duelId) /\ sse' = Connect(Closed, duelId)
        /\ UNCHANGED <<healthy, duelId, live>>
    BY <1>2 DEF ShowArena, engine
  <2>2. IsHook(Mounted) /\ \A s \in Slots : Mounted.requests[s] = Idle
    BY DEF IsHook, Mounted, Idle
  <2>3. \A s \in Slots : api'.requests[s].stage # "answered"
    <3>1. \A s \in Slots : api'.requests[s] = Idle \/ NewRequest(api'.requests[s], duelId)
      BY <2>1, <2>2, WrappedLoadEach
    <3>2. QED
      BY <3>1 DEF Idle, NewRequest
  <2>4. sse'.url = duelId /\ ~sse'.fresh
    BY <2>1 DEF Connect, Closed
  <2>5. QED
    BY <1>1, <2>1, <2>3, <2>4, ShownFresh DEF Shown
<1>3. CASE LeaveArena
  <2>1. /\ api' = Mounted /\ sse' = Closed /\ live' = NoDuel
        /\ UNCHANGED <<healthy, duelId>>
    BY <1>3 DEF LeaveArena, engine
  <2>2. QED
    BY <1>1, <2>1, ShownFresh DEF Shown, Mounted, Idle, Closed
<1>4. CASE Pick
  <2>1. PICK d \in listed : Select(d)
    BY <1>4 DEF Pick
  <2>2. UNCHANGED <<healthy, open, live>> /\ d \in Duels
    BY <1>4 DEF Pick, engine, Listed
  <2>3. QED
    BY <1>1, <2>1, <2>2, SelectShown
<1>5. ASSUME NEW d \in Duels, OnCreated(d)
      PROVE  BannerInv'
  <2>1. Select(d) /\ UNCHANGED <<healthy, open, live>>
    BY <1>5 DEF OnCreated, engine
  <2>2. QED
    BY <1>1, <2>1, SelectShown
<1>6. ASSUME NEW s \in Slots, ServeDetail(s)
      PROVE  BannerInv'
  <2> DEFINE d == api.requests[s].path
             a == [id |-> d, duel |-> duel[d]]
  <2>1. /\ d \in Existing /\ api' = Answer(api, s, a)
        /\ UNCHANGED <<healthy, duelId, sse, live>>
    BY <1>6 DEF ServeDetail, engine
  <2>2. d \in Duels /\ duel[d] \in Duel
    BY <2>1 DEF Existing, EngineInv, EngineTyped
  <2>3. a.id \in Duels /\ a.duel \in Duel /\ Final(a.duel, duel[a.id], a.id \in forced)
    BY <2>2, NoneAssumption DEF Final, Agrees
  <2> HIDE DEF a
  <2>4. /\ api'.requests[s].answer = a
        /\ \A t \in Slots \ {s} : api'.requests[t] = api.requests[t]
    BY <2>1 DEF Answer, Inv, Shape, IsHook
  <2>5. Shown'
    BY <2>1, <2>3, <2>4 DEF Shown, healthy
  <2>6. QED
    BY <1>1, <2>1, <2>5
<1>7. ASSUME NEW s \in Slots, DetailArrives(s)
      PROVE  BannerInv'
  <2> DEFINE a == api.requests[s].answer
  <2>1. /\ api.requests[s].stage = "answered"
        /\ api' = [Resolve(api, s) EXCEPT !.data = None]
        /\ live' = [id |-> a.id, duel |-> a.duel, parts |-> {a.id}]
        /\ UNCHANGED <<healthy, duelId, sse>>
    BY <1>7 DEF DetailArrives, engine
  <2>2. a.id \in Duels /\ a.duel \in Duel /\ Final(a.duel, duel[a.id], a.id \in forced)
    BY <2>1 DEF Shown
  <2> HIDE DEF a
  <2>3. api'.requests = [api.requests EXCEPT ![s] = Idle]
    BY <2>1 DEF Resolve, Inv, Shape, IsHook
  <2>4. /\ api'.requests[s].stage # "answered"
        /\ \A t \in Slots \ {s} : api'.requests[t] = api.requests[t]
    BY <2>3 DEF Inv, Shape, IsHook, Idle
  <2>5. /\ live'.id \in Duels /\ live'.duel \in Duel /\ live'.id \in live'.parts
        /\ Final(live'.duel, duel[live'.id], live'.id \in forced)
    BY <2>1, <2>2
  <2>6. Shown'
    BY <2>1, <2>4, <2>5 DEF Shown, healthy
  <2>7. QED
    BY <1>1, <2>1, <2>6
<1>8. ASSUME NEW s \in Slots, DetailFails(s)
      PROVE  BannerInv'
  <2>1. api' = Reject(api, s) /\ UNCHANGED <<healthy, duelId, sse, live>>
    BY <1>8 DEF DetailFails
  <2>2. \A t \in Slots : api'.requests[t] = api.requests[t] \/ api'.requests[t].stage # "answered"
    BY <2>1 DEF Reject, Inv, Shape, IsHook, Idle
  <2>3. Shown'
    BY <2>1, <2>2 DEF Shown, healthy
  <2>4. QED
    BY <1>1, <2>1, <2>3
<1>9. CASE Render
  <2>1. /\ sse.fresh /\ sse' = Rendered(sse) /\ UNCHANGED <<healthy, duelId, api>>
    BY <1>9 DEF Render, engine
  <2>2. /\ sse.url \in Duels
        /\ Told(sse.latest, duel[sse.url], watching[sse.url], sse.url \in forced)
        /\ sse.latest \in Events
    BY <2>1 DEF Shown, Told
  <2>3. sse'.url = sse.url /\ ~sse'.fresh
    BY <2>1 DEF Rendered, Inv, Shape
  <2>4. CASE live.id = None
    <3>1. live' = live
      BY <1>9, <2>4 DEF Render
    <3>2. Shown'
      BY <2>1, <2>3, <3>1 DEF Shown, healthy
    <3>3. QED
      BY <1>1, <2>1, <3>2
  <2>5. CASE live.id # None
    <3>1. /\ live'.id = live.id /\ live'.duel = Apply(live.duel, sse.latest)
          /\ live'.parts = live.parts \cup {sse.url}
      BY <1>9, <2>5 DEF Render, Inv, Shape
    <3>2. live.id \in Duels /\ live.duel \in Duel /\ live.id \in live.parts
      BY <2>5 DEF Shown
    <3>3. Apply(live.duel, sse.latest) \in Duel
      BY <2>2, <3>2, ApplyTyped
    <3>4. ASSUME live'.parts = {live.id}
          PROVE  Final(live'.duel, duel[live.id], live.id \in forced)
      <4>1. sse.url = live.id /\ live.parts = {live.id}
        BY <3>1, <3>2, <3>4
      <4>2. Final(live.duel, duel[live.id], live.id \in forced)
        BY <2>5, <4>1 DEF Shown
      <4>3. Told(sse.latest, duel[live.id], watching[live.id], live.id \in forced)
        BY <2>2, <4>1
      <4>4. QED
        BY <3>1, <3>2, <4>2, <4>3, ApplyFinal
    <3>5. Shown'
      BY <2>1, <2>3, <3>1, <3>2, <3>3, <3>4 DEF Shown, healthy
    <3>6. QED
      BY <1>1, <2>1, <3>5
  <2>6. QED
    BY <2>4, <2>5
<1>10. CASE MessageArrives
  <2>1. /\ sse.url \in Duels /\ Take(sse.url)
        /\ sse' = OnMessage(sse, Head(events[sse.url]))
        /\ UNCHANGED <<duelId, api, live>>
    BY <1>10 DEF MessageArrives, Shown
  <2>2. /\ EngineInv' /\ Queued'
        /\ Told(Head(events[sse.url]), duel[sse.url], watching[sse.url], sse.url \in forced)
    BY <2>1, TakeStep
  <2>3. UNCHANGED <<duel, watching, forced>>
    BY <2>1 DEF Take
  <2>4. sse'.url = sse.url /\ sse'.latest = Head(events[sse.url])
    BY <2>1 DEF OnMessage, Inv, Shape
  <2>5. Shown'
    BY <2>1, <2>2, <2>3, <2>4 DEF Shown
  <2>6. QED
    BY <2>2, <2>5
<1>11. ASSUME NEW d \in Duels, EventLost(d)
       PROVE  BannerInv'
  <2>1. Take(d) /\ UNCHANGED <<duelId, api, sse, live>>
    BY <1>11 DEF EventLost, OtherReaderTakes
  <2>2. EngineInv' /\ Queued'
    BY <2>1, TakeStep
  <2>3. UNCHANGED <<duel, watching, forced>>
    BY <2>1 DEF Take
  <2>4. \A c \in Duels : Lasting(c)
    BY <2>3 DEF Lasting
  <2>5. QED
    BY <2>1, <2>2, <2>4, ShownKept
<1>12. ASSUME \/ EngineStep /\ UNCHANGED tab
              \/ \E d \in Duels : Create(d)
       PROVE  BannerInv'
  <2>1. /\ EngineStep \/ \E d \in Duels : BeginCreate(d)
        /\ UNCHANGED <<duelId, api, sse, live>>
    BY <1>12 DEF Create, tab
  <2>2. QED
    BY <2>1, EngineStepKeeps, ShownKept
<1>13. ASSUME \/ \E d \in Duels : Submit(d) \/ SubmitFails(d)
              \/ ListArrives
              \/ UNCHANGED vars
       PROVE  BannerInv'
  <2>1. UNCHANGED healthy /\ UNCHANGED <<duelId, api, sse, live>>
    BY <1>13 DEF Submit, SubmitFails, ListArrives, vars, engine, tab
  <2>2. QED
    BY <2>1, EngineKept, ShownKept
<1>14. QED
  BY <1>2, <1>3, <1>4, <1>5, <1>6, <1>7, <1>8, <1>9, <1>10, <1>11, <1>12, <1>13 DEF Next

\* At first the engine knows of duels that are over, and the tab of none.
LEMMA BannerInit == Init => BannerInv
<1> SUFFICES ASSUME Init PROVE BannerInv
  OBVIOUS
<1>1. /\ OldDuel \in Duel /\ OldDuel.status = "completed"
      /\ OldDuel.winner = Winner(Rewards(OldDuel)) /\ OldDuel # None
  BY NoneAssumption DEF OldDuel, Duel, Agents, Over, Sides, Winner, Rewards
<1> HIDE DEF OldDuel
<1>2. EngineTyped
  BY <1>1 DEF Init, EngineInit, EngineTyped
<1>3. ASSUME NEW d \in Duels
      PROVE  InOrder(d)
  <2>1. /\ duel[d] \in {OldDuel, None} /\ watching[d] = {} /\ segment = None
    BY DEF Init, EngineInit
  <2>2. \A k \in Sides : /\ segment # <<d, k>> /\ segment # <<d, "create">>
                         /\ segment # <<d, "complete">>
    BY <2>1, Segments
  <2>3. QED
    BY <1>1, <2>1, <2>2 DEF InOrder, Sides
<1>4. Queued
  BY DEF Init, EngineInit, Queued
<1>5. Shown
  BY DEF Init, TabInit, Shown, Closed, Mounted, Idle, NoDuel
<1>6. QED
  BY <1>2, <1>3, <1>4, <1>5 DEF BannerInv, EngineInv

\* The winner on the stage is the side with the higher reward below it, for any
\* number of duels, whatever events are lost or come twice as a detail and as an
\* event, unless the duel was ended by its deadline (duel.py 198-228, 261-299;
\* ArenaStage.tsx 22-52, 129-159).
THEOREM BannerIsRight == Spec => []BannerMatchesScores
<1>1. BannerInv => BannerMatchesScores
  <2> SUFFICES ASSUME BannerInv, open, Screen = "duel", live.parts = {live.id},
                      live.id \notin forced, live.duel.winner # "none"
               PROVE  live.duel.winner = Winner(Rewards(live.duel)) /\ live.duel \in Duel
    BY DEF BannerMatchesScores, Stage, AgentCard, Winner, Rewards, Duel, Agents, Sides
  <2>1. live.id # None
    BY DEF Screen
  <2>2. /\ live.id \in Duels /\ live.duel \in Duel
        /\ Agrees(live.duel, duel[live.id])
    BY <2>1 DEF BannerInv, Shown, Final
  <2>3. duel[live.id].winner = Winner(Rewards(duel[live.id]))
    BY <2>2 DEF BannerInv, EngineInv, InOrder, Agrees
  <2>4. Rewards(duel[live.id]) = Rewards(live.duel)
    BY <2>2 DEF Agrees, Rewards
  <2>5. QED
    BY <2>2, <2>3, <2>4 DEF Agrees
<1>2. QED
  BY <1>1, InvInit, InvStep, ListedStep, BannerInit, BannerStep, PTL DEF Spec

-----------------------------------------------------------------------------
(* How a duel ended. The stage shows a copy of the record, to which events *)
(* are still to be applied: field by field, either the last event that     *)
(* tells the field tells what the record says, or none does and the copy   *)
(* has it already.                                                         *)

Fields == {"badge", "banner", "status", "reward"} \X Sides

Of(x, f) ==
  CASE f[1] = "badge"  -> x.status
    [] f[1] = "banner" -> x.winner
    [] f[1] = "status" -> x.agents[f[2]].status
    [] f[1] = "reward" -> x.agents[f[2]].reward

\* The events that tell a field, and what they say of it.
Touches(e, f) ==
  \/ e.type = "completed" /\ f[1] # "status"
  \/ e.type \in {"agent_status", "agent_completed"} /\ e.agent = f[2] /\ f[1] = "status"
  \/ e.type = "agent_completed" /\ e.agent = f[2] /\ f[1] = "reward"

Says(e, f) ==
  CASE f[1] = "badge"  -> "completed"
    [] f[1] = "banner" -> e.winner
    [] f[1] = "status" -> e.status
    [] f[1] = "reward" -> IF e.type = "completed" THEN e.rewards[f[2]] ELSE e.reward

Right(e, w, f) == Touches(e, f) => Says(e, f) = Of(w, f)

\* The copy x has the field f of the record w once the events q are applied.
Heals(x, q, w, f) ==
  \E i \in 0..Len(q) :
    /\ IF i = 0 THEN Of(x, f) = Of(w, f) ELSE Touches(q[i], f)
    /\ \A j \in 1..Len(q) : i <= j => Right(q[j], w, f)

\* The events s tell the field f, and the last of them as the record w has it.
Settles(s, w, f) ==
  \E i \in 1..Len(s) :
    Touches(s[i], f) /\ \A j \in 1..Len(s) : i <= j => Right(s[j], w, f)

\* The fields of a duel that its coroutines have still to tell.
Moving(d) ==
  {f \in Fields : IF f[1] \in {"badge", "banner"}
                  THEN duel[d].status # "completed" \/ segment = <<d, "complete">>
                  ELSE f[2] \in watching[d]}

\* The copy x of d ends as the record, but for what is still to be told.
Ends(x, q, d) == \A f \in Fields \ Moving(d) : Heals(x, q, duel[d], f)

\* The updater of setLiveDuel, field by field.
LEMMA ApplyField ==
  ASSUME NEW x \in Duel, NEW e \in Events, NEW f \in Fields
  PROVE  Of(Apply(x, e), f) = IF Touches(e, f) THEN Says(e, f) ELSE Of(x, f)
<1>1. PICK t \in {"badge", "banner", "status", "reward"}, k \in Sides : f = <<t, k>>
  BY DEF Fields
<1>2. f[1] = t /\ f[2] = k
  BY <1>1
<1>3. x.agents \in [Sides -> Agents]
  BY DEF Duel
<1>4. CASE e.type = "agent_status"
  <2>1. e.agent \in Sides
    BY <1>4 DEF Events
  <2>2. /\ Apply(x, e).status = x.status /\ Apply(x, e).winner = x.winner
        /\ Apply(x, e).agents = [x.agents EXCEPT ![e.agent].status = e.status]
    BY <1>4 DEF Apply, Duel
  <2>3. /\ Apply(x, e).agents[k].status = IF e.agent = k THEN e.status ELSE x.agents[k].status
        /\ Apply(x, e).agents[k].reward = x.agents[k].reward
    BY <1>3, <2>1, <2>2 DEF Agents
  <2>4. QED
    BY <1>2, <1>4, <2>2, <2>3 DEF Of, Touches, Says
<1>5. CASE e.type = "agent_completed"
  <2>1. e.agent \in Sides
    BY <1>5 DEF Events
  <2>2. /\ Apply(x, e).status = x.status /\ Apply(x, e).winner = x.winner
        /\ Apply(x, e).agents =
             [x.agents EXCEPT ![e.agent] = [status |-> e.status, reward |-> e.reward]]
    BY <1>5 DEF Apply, Duel
  <2>3. /\ Apply(x, e).agents[k].status = IF e.agent = k THEN e.status ELSE x.agents[k].status
        /\ Apply(x, e).agents[k].reward = IF e.agent = k THEN e.reward ELSE x.agents[k].reward
    BY <1>3, <2>1, <2>2 DEF Agents
  <2>4. QED
    BY <1>2, <1>5, <2>2, <2>3 DEF Of, Touches, Says
<1>6. CASE e.type = "completed"
  <2>1. /\ Apply(x, e).status = "completed" /\ Apply(x, e).winner = e.winner
        /\ Apply(x, e).agents[k] = [x.agents[k] EXCEPT !.reward = e.rewards[k]]
    BY <1>6 DEF Apply
  <2>2. /\ Apply(x, e).agents[k].status = x.agents[k].status
        /\ Apply(x, e).agents[k].reward = e.rewards[k]
    BY <1>3, <2>1 DEF Agents
  <2>3. QED
    BY <1>2, <1>6, <2>1, <2>2 DEF Of, Touches, Says
<1>7. CASE e.type \notin {"agent_status", "agent_completed", "completed"}
  BY <1>7 DEF Apply, Touches
<1>8. QED
  BY <1>4, <1>5, <1>6, <1>7

\* An event tells the field, and none after it tells it otherwise.
LEMMA HealsFrom ==
  ASSUME NEW x, NEW q, NEW w, NEW f, NEW n \in Nat \ {0}, n <= Len(q), Len(q) \in Nat,
         Touches(q[n], f), \A j \in 1..Len(q) : n <= j => Right(q[j], w, f)
  PROVE  Heals(x, q, w, f)
<1>1. n \in 0..Len(q) /\ n # 0
  OBVIOUS
<1>2. QED
  BY <1>1 DEF Heals

\* Applied to the copy, the first event is no longer needed.
LEMMA HealsApply ==
  ASSUME NEW x \in Duel, NEW q \in Seq(Events), NEW w, NEW f \in Fields, q # <<>>,
         Heals(x, q, w, f)
  PROVE  Heals(Apply(x, Head(q)), Tail(q), w, f)
<1> DEFINE y == Apply(x, Head(q))
<1>1. /\ Head(q) = q[1] /\ Head(q) \in Events /\ Len(q) \in Nat /\ Len(q) > 0
      /\ Tail(q) \in Seq(Events) /\ Len(Tail(q)) = Len(q) - 1
      /\ \A j \in 1..(Len(q) - 1) : Tail(q)[j] = q[j + 1]
  OBVIOUS
<1>2. Of(y, f) = IF Touches(q[1], f) THEN Says(q[1], f) ELSE Of(x, f)
  BY <1>1, ApplyField
<1> HIDE DEF y
<1>3. PICK i \in 0..Len(q) :
        /\ IF i = 0 THEN Of(x, f) = Of(w, f) ELSE Touches(q[i], f)
        /\ \A j \in 1..Len(q) : i <= j => Right(q[j], w, f)
  BY DEF Heals
<1>4. CASE i <= 1
  <2>1. \A j \in 1..Len(q) : Right(q[j], w, f)
    BY <1>3, <1>4
  <2>2. Right(q[1], w, f)
    BY <1>1, <2>1
  <2>3. Of(y, f) = Of(w, f)
    BY <1>2, <1>3, <1>4, <2>2 DEF Right
  <2>4. ASSUME NEW j \in 1..Len(Tail(q))
        PROVE  Right(Tail(q)[j], w, f)
    <3>1. j + 1 \in 1..Len(q) /\ Tail(q)[j] = q[j + 1]
      BY <1>1
    <3>2. QED
      BY <2>1, <3>1
  <2>5. 0 \in 0..Len(Tail(q))
    BY <1>1
  <2>6. Heals(y, Tail(q), w, f)
    BY <2>3, <2>4, <2>5 DEF Heals
  <2>7. QED
    BY <2>6 DEF y
<1>5. CASE i > 1
  <2>1. i - 1 \in 0..Len(Tail(q)) /\ i - 1 # 0 /\ Tail(q)[i - 1] = q[i]
    BY <1>1, <1>5
  <2>2. \A j \in 1..Len(Tail(q)) : i - 1 <= j => Right(Tail(q)[j], w, f)
    BY <1>1, <1>3, <1>5
  <2>3. Touches(Tail(q)[i - 1], f) /\ i - 1 \in Nat \ {0} /\ i - 1 <= Len(Tail(q))
    BY <1>1, <1>3, <1>5, <2>1
  <2> DEFINE r == Tail(q)
             n == i - 1
  <2>4. /\ \A j \in 1..Len(r) : n <= j => Right(r[j], w, f)
        /\ Touches(r[n], f) /\ n \in Nat \ {0} /\ n <= Len(r) /\ Len(r) \in Nat
    BY <1>1, <2>2, <2>3
  <2> HIDE DEF r, n
  <2>5. Heals(y, r, w, f)
    BY <2>4, HealsFrom
  <2>6. QED
    BY <2>5 DEF y, r
<1>6. QED
  BY <1>4, <1>5

\* What a reader of the record would miss of its queue, it would not need.
LEMMA HealsDrop ==
  ASSUME NEW w, NEW q \in Seq(Events), NEW f, q # <<>>, Heals(w, q, w, f)
  PROVE  Heals(w, Tail(q), w, f)
<1>1. /\ Len(q) \in Nat /\ Len(q) > 0 /\ Len(Tail(q)) = Len(q) - 1
      /\ \A j \in 1..(Len(q) - 1) : Tail(q)[j] = q[j + 1]
  OBVIOUS
<1>2. PICK i \in 0..Len(q) :
        /\ IF i = 0 THEN Of(w, f) = Of(w, f) ELSE Touches(q[i], f)
        /\ \A j \in 1..Len(q) : i <= j => Right(q[j], w, f)
  BY DEF Heals
<1>3. CASE i <= 1
  <2>1. 0 \in 0..Len(Tail(q))
    BY <1>1
  <2>2. ASSUME NEW j \in 1..Len(Tail(q))
        PROVE  Right(Tail(q)[j], w, f)
    <3>1. j + 1 \in 1..Len(q) /\ Tail(q)[j] = q[j + 1] /\ i <= j + 1
      BY <1>1, <1>3
    <3>2. QED
      BY <1>2, <3>1
  <2>3. QED
    BY <2>1, <2>2 DEF Heals
<1>4. CASE i > 1
  <2>1. /\ i - 1 \in 0..Len(Tail(q)) /\ i - 1 # 0 /\ Tail(q)[i - 1] = q[i]
        /\ \A j \in 1..Len(Tail(q)) : i - 1 <= j => Right(Tail(q)[j], w, f)
    BY <1>1, <1>2, <1>4
  <2>2. Touches(Tail(q)[i - 1], f) /\ i - 1 \in Nat \ {0} /\ i - 1 <= Len(Tail(q))
    BY <1>1, <1>2, <1>4, <2>1
  <2> DEFINE r == Tail(q)
             n == i - 1
  <2>3. /\ \A j \in 1..Len(r) : n <= j => Right(r[j], w, f)
        /\ Touches(r[n], f) /\ n \in Nat \ {0} /\ n <= Len(r) /\ Len(r) \in Nat
    BY <1>1, <2>1, <2>2
  <2> HIDE DEF r, n
  <2>4. Heals(w, r, w, f)
    BY <2>3, HealsFrom
  <2>5. QED
    BY <2>4 DEF r
<1>5. QED
  BY <1>3, <1>4

\* What heals a copy heals the record itself.
LEMMA HealsSelf ==
  ASSUME NEW x, NEW q, NEW w, NEW f, Heals(x, q, w, f)
  PROVE  Heals(w, q, w, f)
  BY DEF Heals

LEMMA HealsNothing ==
  ASSUME NEW x, NEW w, NEW f
  PROVE  Heals(x, <<>>, w, f) <=> Of(x, f) = Of(w, f)
  BY DEF Heals

\* Events are added that are right about a field that has not changed.
LEMMA HealsAppend ==
  ASSUME NEW x, NEW q \in Seq(Events), NEW s \in Seq(Events), NEW w, NEW v, NEW f,
         Heals(x, q, w, f), Of(v, f) = Of(w, f),
         \A j \in 1..Len(s) : Right(s[j], v, f)
  PROVE  Heals(x, q \o s, v, f)
<1>1. /\ Len(q) \in Nat /\ Len(s) \in Nat /\ Len(q \o s) = Len(q) + Len(s)
      /\ \A j \in 1..Len(q) : (q \o s)[j] = q[j]
      /\ \A j \in 1..(Len(q) + Len(s)) : j > Len(q) =>
           (q \o s)[j] = s[j - Len(q)] /\ j - Len(q) \in 1..Len(s)
  OBVIOUS
<1>2. PICK i \in 0..Len(q) :
        /\ IF i = 0 THEN Of(x, f) = Of(w, f) ELSE Touches(q[i], f)
        /\ \A j \in 1..Len(q) : i <= j => Right(q[j], w, f)
  BY DEF Heals
<1> DEFINE r == q \o s
<1> HIDE DEF r
<1>3. \A j \in 1..Len(r) : i <= j => Right(r[j], v, f)
  <2> SUFFICES ASSUME NEW j \in 1..Len(r), i <= j PROVE Right(r[j], v, f)
    OBVIOUS
  <2>1. CASE j <= Len(q)
    BY <1>1, <1>2, <2>1 DEF r, Right
  <2>2. CASE j > Len(q)
    BY <1>1, <2>2 DEF r
  <2>3. QED
    BY <1>1, <2>1, <2>2 DEF r
<1>4. i \in 0..Len(r) /\ (i # 0 => r[i] = q[i])
  BY <1>1 DEF r
<1>5. Heals(x, r, v, f)
  BY <1>2, <1>3, <1>4 DEF Heals
<1>6. QED
  BY <1>5 DEF r

\* Events are added that tell the field.
LEMMA HealsSettle ==
  ASSUME NEW x, NEW q \in Seq(Events), NEW s \in Seq(Events), NEW v, NEW f,
         Settles(s, v, f)
  PROVE  Heals(x, q \o s, v, f)
<1>1. /\ Len(q) \in Nat /\ Len(s) \in Nat /\ Len(q \o s) = Len(q) + Len(s)
      /\ \A j \in 1..(Len(q) + Len(s)) : j > Len(q) =>
           (q \o s)[j] = s[j - Len(q)] /\ j - Len(q) \in 1..Len(s)
  OBVIOUS
<1>2. PICK i \in 1..Len(s) :
        Touches(s[i], f) /\ \A j \in 1..Len(s) : i <= j => Right(s[j], v, f)
  BY DEF Settles
<1> DEFINE r == q \o s
           n == Len(q) + i
<1> HIDE DEF r
<1>3. n \in 1..Len(r) /\ r[n] = s[i]
  BY <1>1 DEF r
<1>4. ASSUME NEW j \in 1..Len(r), n <= j
      PROVE  Right(r[j], v, f)
  <2>1. j - Len(q) \in 1..Len(s) /\ i <= j - Len(q) /\ r[j] = s[j - Len(q)]
    BY <1>1, <1>4 DEF r
  <2>2. QED
    BY <1>2, <2>1
<1>5. Heals(x, r, v, f)
  BY <1>2, <1>3, <1>4 DEF Heals
<1>6. QED
  BY <1>5 DEF r

-----------------------------------------------------------------------------
\* What the engine still owes a duel: the agents without a watcher are over, and
\* no event is sent of a duel there is not.
Owed(d) ==
  /\ duel[d] = None => events[d] = <<>>
  /\ duel[d] # None /\ duel[d].status = "running" =>
       \A k \in Sides \ watching[d] : duel[d].agents[k].status \in Over

\* A step of the engine sends the events s of a duel, which tell what it changes
\* of the fields that are not to be told later.
Sends(d, s) ==
  /\ events'[d] = events[d] \o s
  /\ duel'[d] # None
  /\ \A f \in Fields \ Moving(d)' :
       \/ Settles(s, duel'[d], f)
       \/ /\ f \notin Moving(d)
          /\ Of(duel'[d], f) = Of(duel[d], f)
          /\ \A j \in 1..Len(s) : Right(s[j], duel'[d], f)

Moves(d) ==
  /\ Owed(d)'
  /\ duel[d] = None => events'[d] = events[d]
  /\ duel[d] # None => \E s \in Seq(Events) : Sends(d, s)

\* The duels a step is not about.
LEMMA OthersMove ==
  ASSUME EngineInv, NEW c \in Duels, Only(c), \A d \in Duels : Owed(d),
         \A d \in Duels \ {c} : events'[d] = events[d], Moves(c)
  PROVE  \A d \in Duels : Moves(d)
<1> SUFFICES ASSUME NEW d \in Duels, d # c PROVE Moves(d)
  OBVIOUS
<1>1. /\ duel'[d] = duel[d] /\ watching'[d] = watching[d] /\ events'[d] = events[d]
      /\ events[d] \in Seq(Events)
  BY DEF Only, EngineInv, EngineTyped
<1>2. segment # <<d, "complete">> /\ segment' # <<d, "complete">>
  BY NoneAssumption DEF Only, Parts
<1>3. Moving(d)' = Moving(d)
  BY <1>1, <1>2 DEF Moving
<1>4. Owed(d)'
  BY <1>1 DEF Owed
<1>5. duel[d] # None => Sends(d, <<>>)
  <2>1. events[d] \o <<>> = events[d]
    BY <1>1
  <2>2. \A f \in Fields \ Moving(d)' :
          /\ f \notin Moving(d) /\ Of(duel'[d], f) = Of(duel[d], f)
          /\ \A j \in 1..Len(<<>>) : Right(<<>>[j], duel'[d], f)
    BY <1>1, <1>3
  <2>3. QED
    BY <1>1, <2>1, <2>2 DEF Sends
<1>6. <<>> \in Seq(Events)
  OBVIOUS
<1>7. QED
  BY <1>1, <1>4, <1>5, <1>6 DEF Moves

\* Two records that are alike in the agents are alike in their fields.
LEMMA SameFields ==
  ASSUME NEW x, NEW y, NEW f \in Fields,
         f[1] = "badge" => x.status = y.status,
         f[1] = "banner" => x.winner = y.winner,
         f[1] \in {"status", "reward"} => x.agents[f[2]] = y.agents[f[2]]
  PROVE  Of(x, f) = Of(y, f)
<1>1. PICK t \in {"badge", "banner", "status", "reward"}, k \in Sides : f = <<t, k>>
  BY DEF Fields
<1>2. f[1] = t
  BY <1>1
<1>3. QED
  BY <1>2 DEF Of

\* Which fields are still to be told.
LEMMA MovingIs ==
  ASSUME NEW d, NEW f \in Fields
  PROVE  /\ f[2] \in Sides /\ f[1] \in {"badge", "banner", "status", "reward"}
         /\ f[1] \in {"badge", "banner"} =>
              (f \in Moving(d) <=> duel[d].status # "completed" \/ segment = <<d, "complete">>)
         /\ f[1] \in {"status", "reward"} => (f \in Moving(d) <=> f[2] \in watching[d])
<1>1. PICK t \in {"badge", "banner", "status", "reward"}, k \in Sides : f = <<t, k>>
  BY DEF Fields
<1>2. f[1] = t /\ f[2] = k
  BY <1>1
<1>3. QED
  BY <1>2 DEF Moving

\* A step that sends nothing and leaves what it has told.
LEMMA SendsNothing ==
  ASSUME EngineInv, NEW c \in Duels, duel'[c] # None, UNCHANGED events,
         \A f \in Fields \ Moving(c)' : f \notin Moving(c) /\ Of(duel'[c], f) = Of(duel[c], f)
  PROVE  \E s \in Seq(Events) : Sends(c, s)
<1>1. events[c] \in Seq(Events) /\ events[c] \o <<>> = events[c] /\ <<>> \in Seq(Events)
  BY DEF EngineInv, EngineTyped
<1>2. Sends(c, <<>>)
  BY <1>1 DEF Sends
<1>3. QED
  BY <1>1, <1>2

LEMMA CreateMoves ==
  ASSUME EngineInv, Queued, \A d \in Duels : Owed(d), NEW c \in Duels, BeginCreate(c)
  PROVE  \A d \in Duels : Moves(d)
<1>1. /\ segment = None /\ duel[c] = None /\ duel' = [duel EXCEPT ![c] = NewDuel]
      /\ segment' = <<c, "create">> /\ UNCHANGED <<watching, events, forced>>
  BY DEF BeginCreate
<1>2. NewDuel \in Duel /\ NewDuel.status = "pending"
  BY DEF NewDuel, Duel, Agents, Over
<1> HIDE DEF NewDuel
<1>3. duel'[c] = NewDuel /\ NewDuel # None
  BY <1>1, <1>2, NoneAssumption DEF EngineInv, EngineTyped
<1>4. Moves(c)
  BY <1>1, <1>2, <1>3 DEF Moves, Owed
<1>5. Only(c)
  BY <1>1 DEF Only, Parts, EngineInv, EngineTyped
<1>6. QED
  BY <1>1, <1>4, <1>5, OthersMove

LEMMA PutMoves ==
  ASSUME EngineInv, NEW c \in Duels, NEW s \in Seq(Events), Put(c, s)
  PROVE  /\ events'[c] = events[c] \o s
         /\ \A d \in Duels \ {c} : events'[d] = events[d]
  BY DEF Put, EngineInv, EngineTyped

LEMMA EndCreateMoves ==
  ASSUME EngineInv, Queued, \A d \in Duels : Owed(d), NEW c \in Duels,
         EndCreate(c) \/ FailCreate(c)
  PROVE  \A d \in Duels : Moves(d)
<1>1. /\ duel[c] \in Duel /\ duel[c] # None /\ watching[c] = {}
      /\ segment = <<c, "create">> /\ segment' = None /\ UNCHANGED forced
  BY DEF EngineInv, EngineTyped, InOrder, EndCreate, FailCreate
<1>2. CASE EndCreate(c)
  <2> DEFINE new == <<Plain("started"), AgentStatus("agent_a", "running"),
                      AgentStatus("agent_b", "running")>>
  <2>1. /\ duel' = [duel EXCEPT ![c].status = "running"]
        /\ watching' = [watching EXCEPT ![c] = Sides] /\ Put(c, new)
    BY <1>2 DEF EndCreate
  <2>2. new \in Seq(Events)
    BY DEF Plain, AgentStatus, Events, Sides
  <2> HIDE DEF new
  <2>3. /\ duel'[c] = [duel[c] EXCEPT !.status = "running"] /\ watching'[c] = Sides
    BY <2>1 DEF EngineInv, EngineTyped
  <2>4. duel'[c] \in Duel /\ duel'[c].status = "running"
    BY <1>1, <2>3 DEF Duel
  <2>5. \A f \in Fields : f \in Moving(c)'
    BY <2>3, <2>4 DEF Moving, Fields
  <2>6. Sends(c, new)
    BY <2>1, <2>2, <2>4, <2>5, PutMoves, NoneAssumption DEF Sends
  <2>7. Owed(c)'
    BY <2>3, <2>4, NoneAssumption DEF Owed
  <2>8. Only(c)
    BY <1>1, <2>1 DEF Only, Parts, EngineInv, EngineTyped
  <2>9. QED
    BY <1>1, <2>1, <2>2, <2>6, <2>7, <2>8, PutMoves, OthersMove DEF Moves
<1>3. CASE FailCreate(c)
  <2> DEFINE last == <<Plain("error"), Plain("done")>>
  <2>1. /\ duel' = [duel EXCEPT ![c].status = "failed"] /\ watching' = watching
        /\ Put(c, last)
    BY <1>3 DEF FailCreate
  <2>2. /\ last \in Seq(Events)
        /\ \A w, f : \A j \in 1..Len(last) : Right(last[j], w, f)
    BY DEF Plain, Events, Right, Touches
  <2> HIDE DEF last
  <2>3. /\ duel'[c] = [duel[c] EXCEPT !.status = "failed"] /\ watching'[c] = {}
    BY <1>1, <2>1 DEF EngineInv, EngineTyped
  <2>4. /\ duel'[c] \in Duel /\ duel'[c].status = "failed"
        /\ duel'[c].agents = duel[c].agents
    BY <1>1, <2>3 DEF Duel
  <2>5. ASSUME NEW f \in Fields \ Moving(c)'
        PROVE  f \notin Moving(c) /\ Of(duel'[c], f) = Of(duel[c], f)
    <3>1. f[1] \in {"status", "reward"}
      BY <2>4, MovingIs DEF Moving, Fields
    <3>2. f \notin Moving(c)
      BY <1>1, <3>1, MovingIs
    <3>3. QED
      BY <2>4, <3>1, <3>2, SameFields
  <2>6. Sends(c, last)
    BY <2>1, <2>2, <2>4, <2>5, PutMoves, NoneAssumption DEF Sends
  <2>7. Owed(c)'
    BY <2>4, NoneAssumption DEF Owed
  <2>8. Only(c)
    BY <1>1, <2>1 DEF Only, Parts, EngineInv, EngineTyped
  <2>9. QED
    BY <1>1, <2>1, <2>2, <2>6, <2>7, <2>8, PutMoves, OthersMove DEF Moves
<1>4. QED
  BY <1>2, <1>3

LEMMA BeginResultMoves ==
  ASSUME EngineInv, Queued, \A d \in Duels : Owed(d), NEW c \in Duels, NEW k \in Sides,
         BeginResult(c, k)
  PROVE  \A d \in Duels : Moves(d)
<1>1. PICK o \in Outcomes : duel' = [duel EXCEPT ![c].agents[k].status = o.status]
  BY DEF BeginResult
<1>2. /\ segment = None /\ k \in watching[c] /\ segment' = <<c, k>>
      /\ UNCHANGED <<watching, events, forced>> /\ o.status \in Over
  BY OutcomeAssumption DEF BeginResult
<1>3. duel[c] \in Duel /\ duel[c] # None
  BY <1>2 DEF EngineInv, EngineTyped, InOrder
<1> DEFINE g == [duel[c].agents EXCEPT ![k].status = o.status]
<1>4. /\ duel'[c] \in Duel /\ duel'[c].winner = duel[c].winner
      /\ duel'[c].status = duel[c].status
      /\ \A j \in Sides : j # k => duel'[c].agents[j] = duel[c].agents[j]
  <2>1. duel'[c] = [duel[c] EXCEPT !.agents = g]
    BY <1>1, <1>3 DEF EngineInv, EngineTyped, Duel
  <2>2. duel[c].agents \in [Sides -> Agents]
    BY <1>3 DEF Duel
  <2>3. /\ g \in [Sides -> Agents]
        /\ \A j \in Sides : j # k => g[j] = duel[c].agents[j]
    BY <1>2, <2>2 DEF Agents
  <2> HIDE DEF g
  <2>4. QED
    BY <1>3, <2>1, <2>3 DEF Duel
<1> HIDE DEF g
<1>5. segment # <<c, "complete">> /\ segment' # <<c, "complete">> /\ duel'[c] # None
  BY <1>2, <1>4, Segments, NoneAssumption
<1>6. ASSUME NEW f \in Fields \ Moving(c)'
      PROVE  f \notin Moving(c) /\ Of(duel'[c], f) = Of(duel[c], f)
  <2>1. Moving(c)' = Moving(c)
    BY <1>2, <1>4, <1>5 DEF Moving
  <2>2. f[2] \in Sides /\ (f[1] \in {"status", "reward"} => f[2] # k)
    BY <1>2, <2>1, MovingIs
  <2>3. QED
    BY <1>4, <2>1, <2>2, SameFields
<1>7. Owed(c)'
  BY <1>2, <1>3, <1>4, <1>5 DEF Owed
<1>8. Only(c)
  BY <1>1, <1>2 DEF Only, Parts, EngineInv, EngineTyped
<1>9. \E s \in Seq(Events) : Sends(c, s)
  BY <1>2, <1>5, <1>6, SendsNothing
<1>10. QED
  BY <1>2, <1>3, <1>7, <1>8, <1>9, OthersMove DEF Moves

\* Two events that tell the fields of one agent, and nothing of another.
LEMMA ResultSettles ==
  ASSUME NEW k \in Sides, NEW o \in Agents, NEW w, w.agents[k] = o, NEW f \in Fields,
         NEW s, s = <<AgentStatus(k, o.status), AgentCompleted(k, o)>>
  PROVE  IF f[1] \in {"status", "reward"} /\ f[2] = k THEN Settles(s, w, f)
         ELSE \A j \in 1..Len(s) : Right(s[j], w, f)
<1>1. /\ Len(s) = 2 /\ s[1] = AgentStatus(k, o.status) /\ s[2] = AgentCompleted(k, o)
  OBVIOUS
<1>2. /\ s[1].type = "agent_status" /\ s[1].agent = k /\ s[1].status = o.status
      /\ s[2].type = "agent_completed" /\ s[2].agent = k /\ s[2].status = o.status
      /\ s[2].reward = o.reward
  BY <1>1 DEF AgentStatus, AgentCompleted
<1>3. \A j \in 1..Len(s) : j = 1 \/ j = 2
  BY <1>1
<1>4. CASE f[1] = "status" /\ f[2] = k
  <2>1. Of(w, f) = o.status
    BY <1>4 DEF Of
  <2>2. Touches(s[1], f) /\ Right(s[1], w, f) /\ Right(s[2], w, f)
    BY <1>2, <1>4, <2>1 DEF Touches, Right, Says
  <2>3. 1 \in 1..Len(s) /\ \A j \in 1..Len(s) : Right(s[j], w, f)
    BY <1>1, <1>3, <2>2
  <2>4. QED
    BY <1>4, <2>2, <2>3 DEF Settles
<1>5. CASE f[1] = "reward" /\ f[2] = k
  <2>1. Of(w, f) = o.reward
    BY <1>5 DEF Of
  <2>2. Touches(s[2], f) /\ Right(s[1], w, f) /\ Right(s[2], w, f)
    BY <1>2, <1>5, <2>1 DEF Touches, Right, Says
  <2>3. 2 \in 1..Len(s) /\ \A j \in 1..Len(s) : Right(s[j], w, f)
    BY <1>1, <1>3, <2>2
  <2>4. QED
    BY <1>5, <2>2, <2>3 DEF Settles
<1>6. CASE ~(f[1] \in {"status", "reward"} /\ f[2] = k)
  <2>1. ~Touches(s[1], f) /\ ~Touches(s[2], f)
    BY <1>2, <1>6 DEF Touches
  <2>2. QED
    BY <1>3, <1>6, <2>1 DEF Right
<1>7. QED
  BY <1>4, <1>5, <1>6

LEMMA EndResultMoves ==
  ASSUME EngineInv, Queued, \A d \in Duels : Owed(d), NEW c \in Duels, NEW k \in Sides,
         EndResult(c, k)
  PROVE  \A d \in Duels : Moves(d)
<1>1. PICK o \in Outcomes :
        /\ duel' = [duel EXCEPT ![c].agents[k] = o]
        /\ Put(c, <<AgentStatus(k, o.status), AgentCompleted(k, o)>>)
  BY DEF EndResult
<1> DEFINE new == <<AgentStatus(k, o.status), AgentCompleted(k, o)>>
<1>2. /\ segment = <<c, k>> /\ segment' = None /\ UNCHANGED forced
      /\ watching' = [watching EXCEPT ![c] = @ \ {k}]
      /\ o.status \in Over /\ o.reward \in 0..1 /\ o \in Agents
  BY OutcomeAssumption DEF EndResult, Agents
<1>3. /\ duel[c] \in Duel /\ duel[c] # None /\ watching[c] \subseteq Sides
      /\ k \in watching[c]
  BY <1>2, NoneAssumption DEF EngineInv, EngineTyped, InOrder
<1>4. /\ duel'[c] \in Duel /\ duel'[c].winner = duel[c].winner
      /\ duel'[c].status = duel[c].status
      /\ duel'[c].agents[k] = o
      /\ \A j \in Sides : j # k => duel'[c].agents[j] = duel[c].agents[j]
      /\ watching'[c] = watching[c] \ {k}
  BY <1>1, <1>2, <1>3 DEF EngineInv, EngineTyped, Duel
<1>5. segment # <<c, "complete">> /\ segment' # <<c, "complete">> /\ duel'[c] # None
  BY <1>2, <1>4, Segments, NoneAssumption DEF Parts
<1>6. AgentStatus(k, o.status) \in Events /\ AgentCompleted(k, o) \in Events
  BY <1>2 DEF AgentStatus, AgentCompleted, Events, Over
<1>7. new \in Seq(Events) /\ Put(c, new)
  BY <1>1, <1>6
<1>8. ASSUME NEW f \in Fields \ Moving(c)'
      PROVE  \/ Settles(new, duel'[c], f)
             \/ /\ f \notin Moving(c)
                /\ Of(duel'[c], f) = Of(duel[c], f)
                /\ \A j \in 1..Len(new) : Right(new[j], duel'[c], f)
  <2>1. CASE f[1] \in {"status", "reward"} /\ f[2] = k
    BY <1>2, <1>4, <2>1, ResultSettles
  <2>2. CASE ~(f[1] \in {"status", "reward"} /\ f[2] = k)
    <3>1. \A j \in 1..Len(new) : Right(new[j], duel'[c], f)
      BY <1>2, <1>4, <2>2, ResultSettles
    <3>2. f \notin Moving(c)
      BY <1>4, <1>5, <2>2, MovingIs DEF Moving, Fields
    <3>3. Of(duel'[c], f) = Of(duel[c], f)
      BY <1>4, <2>2, MovingIs, SameFields
    <3>4. QED
      BY <3>1, <3>2, <3>3
  <2>3. QED
    BY <2>1, <2>2
<1> HIDE DEF new
<1>9. Sends(c, new)
  BY <1>5, <1>7, <1>8, PutMoves DEF Sends
<1>10. Owed(c)'
  BY <1>2, <1>3, <1>4, <1>5 DEF Owed
<1>11. Only(c)
  BY <1>1, <1>2 DEF Only, Parts, EngineInv, EngineTyped
<1>12. QED
  BY <1>3, <1>7, <1>9, <1>10, <1>11, PutMoves, OthersMove DEF Moves

LEMMA BeginCompleteMoves ==
  ASSUME EngineInv, Queued, \A d \in Duels : Owed(d), NEW c \in Duels,
         BeginComplete(c) \/ Deadline(c)
  PROVE  \A d \in Duels : Moves(d)
<1>1. /\ segment = None /\ duel[c] \in Duel /\ duel[c] # None
      /\ duel[c].status = "running"
      /\ segment' = <<c, "complete">> /\ UNCHANGED <<watching, events>>
      /\ watching[c] \subseteq Sides
  BY NoneAssumption DEF BeginComplete, Deadline, Existing, EngineInv, EngineTyped
<1>2. /\ duel'[c] \in Duel /\ duel'[c].status = "completed"
      /\ \A j \in Sides \ watching[c] : duel'[c].agents[j] = duel[c].agents[j]
      /\ \A d \in Duels : d # c => duel'[d] = duel[d] /\ (d \in forced' <=> d \in forced)
  <2>1. CASE BeginComplete(c)
    BY <1>1, <2>1 DEF BeginComplete, EngineInv, EngineTyped, Duel
  <2>2. CASE Deadline(c)
    <3> DEFINE g == [k \in Sides |-> IF duel[c].agents[k].status \in Over
                                     THEN duel[c].agents[k]
                                     ELSE [duel[c].agents[k] EXCEPT !.status = "failed"]]
    <3>1. duel' = [duel EXCEPT ![c] = [duel[c] EXCEPT !.status = "completed", !.agents = g]]
      BY <2>2 DEF Deadline, EngineInv, EngineTyped
    <3>2. \A j \in Sides \ watching[c] : duel[c].agents[j].status \in Over
      BY <1>1 DEF Owed
    <3>3. /\ g \in [Sides -> Agents]
          /\ \A j \in Sides \ watching[c] : g[j] = duel[c].agents[j]
      BY <1>1, <3>2 DEF Duel, Agents, Over
    <3> HIDE DEF g
    <3>4. /\ duel'[c] = [duel[c] EXCEPT !.status = "completed", !.agents = g]
          /\ \A d \in Duels : d # c => duel'[d] = duel[d]
      BY <3>1 DEF EngineInv, EngineTyped
    <3>5. forced' = forced \cup {c}
      BY <2>2 DEF Deadline
    <3>6. duel'[c] \in Duel /\ duel'[c].status = "completed" /\ duel'[c].agents = g
      BY <1>1, <3>3, <3>4 DEF Duel
    <3>7. QED
      BY <3>3, <3>4, <3>5, <3>6
  <2>3. QED
    BY <2>1, <2>2
<1>3. duel'[c] # None
  BY <1>2, NoneAssumption
<1>4. ASSUME NEW f \in Fields \ Moving(c)'
      PROVE  f \notin Moving(c) /\ Of(duel'[c], f) = Of(duel[c], f)
  <2>1. f[1] \in {"status", "reward"} /\ f[2] \in Sides
    BY <1>1, MovingIs DEF Moving, Fields
  <2>2. f[2] \notin watching[c]
    BY <1>1, <2>1 DEF Moving, Fields
  <2>3. f \notin Moving(c)
    BY <2>1, <2>2, MovingIs
  <2>4. QED
    BY <1>2, <2>1, <2>2, <2>3, SameFields
<1>5. Owed(c)'
  BY <1>2, <1>3 DEF Owed
<1>6. Only(c)
  BY <1>1, <1>2 DEF Only, Parts
<1>7. \E s \in Seq(Events) : Sends(c, s)
  BY <1>1, <1>3, <1>4, SendsNothing
<1>8. QED
  BY <1>1, <1>5, <1>6, <1>7, OthersMove DEF Moves

\* The event of the conclusion tells all but the status of the agents.
LEMMA CompletedSettles ==
  ASSUME NEW w \in Duel, w.status = "completed", NEW f \in Fields,
         NEW s, s = <<Completed(w), Plain("done")>>
  PROVE  IF f[1] = "status" THEN \A j \in 1..Len(s) : Right(s[j], w, f)
         ELSE Settles(s, w, f)
<1>1. Len(s) = 2 /\ s[1] = Completed(w) /\ s[2] = Plain("done")
  OBVIOUS
<1>2. /\ s[1].type = "completed" /\ s[1].winner = w.winner /\ s[1].rewards = Rewards(w)
      /\ s[2].type = "done"
  BY <1>1 DEF Completed, Plain
<1>3. (\A j \in 1..Len(s) : j = 1 \/ j = 2) /\ 1 \in 1..Len(s)
  BY <1>1
<1>4. f[2] \in Sides /\ f[1] \in {"badge", "banner", "status", "reward"}
  BY MovingIs
<1>5. f[1] = "reward" => Rewards(w)[f[2]] = w.agents[f[2]].reward
  BY <1>4 DEF Rewards
<1>6. ~Touches(s[2], f) /\ (Touches(s[1], f) <=> f[1] # "status")
  BY <1>2 DEF Touches
<1>7. f[1] # "status" => Says(s[1], f) = Of(w, f)
  BY <1>2, <1>4, <1>5 DEF Says, Of
<1>8. QED
  BY <1>3, <1>6, <1>7 DEF Right, Settles

LEMMA EndCompleteMoves ==
  ASSUME EngineInv, Queued, \A d \in Duels : Owed(d), NEW c \in Duels, EndComplete(c)
  PROVE  \A d \in Duels : Moves(d)
<1> DEFINE over == [duel[c] EXCEPT !.winner = Winner(Rewards(duel[c]))]
           new  == <<Completed(over), Plain("done")>>
<1>1. /\ segment = <<c, "complete">> /\ segment' = None /\ UNCHANGED <<watching, forced>>
      /\ duel' = [duel EXCEPT ![c] = over] /\ Put(c, new)
  BY DEF EndComplete
<1>2. /\ duel[c] \in Duel /\ duel[c] # None /\ duel[c].status = "completed"
  BY <1>1, NoneAssumption DEF EngineInv, EngineTyped, InOrder
<1>3. Winner(Rewards(duel[c])) \in Sides \cup {"draw"}
  BY DEF Winner, Sides
<1>4. /\ over \in Duel /\ over.winner \in Sides \cup {"draw"}
      /\ over.status = "completed" /\ over.agents = duel[c].agents
  BY <1>2, <1>3 DEF Duel
<1> HIDE DEF over
<1>5. duel'[c] = over /\ over # None /\ watching'[c] = watching[c]
  BY <1>1, <1>4, NoneAssumption DEF EngineInv, EngineTyped
<1>6. Rewards(over) \in [Sides -> 0..1]
  BY <1>4 DEF Rewards, Duel, Agents
<1>7. Completed(over) \in Events /\ Plain("done") \in Events
  BY <1>4, <1>6 DEF Completed, Plain, Events
<1>8. new \in Seq(Events)
  BY <1>7
<1>9. ASSUME NEW f \in Fields \ Moving(c)'
      PROVE  \/ Settles(new, over, f)
             \/ /\ f \notin Moving(c)
                /\ Of(over, f) = Of(duel[c], f)
                /\ \A j \in 1..Len(new) : Right(new[j], over, f)
  <2>1. CASE f[1] # "status"
    BY <1>4, <2>1, CompletedSettles
  <2>2. CASE f[1] = "status"
    <3>1. \A j \in 1..Len(new) : Right(new[j], over, f)
      BY <1>4, <2>2, CompletedSettles
    <3>2. f \notin Moving(c)
      BY <1>5, <2>2, MovingIs DEF Moving, Fields
    <3>3. Of(over, f) = Of(duel[c], f)
      BY <1>4, <2>2, SameFields
    <3>4. QED
      BY <3>1, <3>2, <3>3
  <2>3. QED
    BY <2>1, <2>2
<1> HIDE DEF new
<1>10. Sends(c, new)
  BY <1>1, <1>5, <1>8, <1>9, PutMoves DEF Sends
<1>11. Owed(c)'
  BY <1>4, <1>5 DEF Owed
<1>12. Only(c)
  BY <1>1 DEF Only, Parts, EngineInv, EngineTyped
<1>13. QED
  BY <1>1, <1>2, <1>8, <1>10, <1>11, <1>12, PutMoves, OthersMove DEF Moves

\* Any step of the engine, whichever duel it is about.
LEMMA EngineMoves ==
  ASSUME EngineInv, Queued, \A d \in Duels : Owed(d),
         EngineStep \/ \E c \in Duels : BeginCreate(c)
  PROVE  \A d \in Duels : Moves(d)
<1>1. \E c \in Duels : BeginCreate(c) \/ EndCreate(c) \/ FailCreate(c)
                       \/ BeginComplete(c) \/ Deadline(c) \/ EndComplete(c)
                       \/ \E k \in Sides : BeginResult(c, k) \/ EndResult(c, k)
  BY DEF EngineStep
<1>2. QED
  BY <1>1, CreateMoves, EndCreateMoves, BeginResultMoves, EndResultMoves, BeginCompleteMoves,
     EndCompleteMoves

-----------------------------------------------------------------------------
\* The list and the selection are of duels the engine has.
Known == (listed # None => listed \subseteq Existing) /\ duelId \in Existing \cup {None}

\* A record read now ends as the duel does, once its queue is applied.
Recorded ==
  \A d \in Duels : Owed(d) /\ (duel[d] # None => Ends(duel[d], events[d], d))

\* The events the stage has still to look at.
Due == (IF sse.fresh THEN <<sse.latest>> ELSE <<>>) \o events[duelId]

\* As long as nothing between them is lost, what the stage shows, or will be
\* shown, ends as the duel does; and so does a record read next to an event that
\* is still to be looked at.
Followed ==
  /\ missed \subseteq Misses
  /\ ~open => "detail" \in missed
  /\ \A s, t \in InFlight(api) : s = t
  /\ \A s \in Slots : api.requests[s].stage = "sent" => "detail" \in missed
  /\ IF "event" \in missed THEN sse.fresh
     ELSE sse.fresh => Ends(duel[duelId], Due, duelId)
  /\ missed = {} =>
       /\ duelId # None
       /\ \A s \in InFlight(api) : Ends(api.requests[s].answer.duel, Due, duelId)
       /\ InFlight(api) = {} => live.id = duelId /\ Ends(live.duel, Due, duelId)

EndInv == Known /\ Recorded /\ Followed

\* Events are sent of a duel of which there is a copy.
LEMMA EndsSent ==
  ASSUME NEW d \in Duels, NEW x, NEW q \in Seq(Events), NEW s \in Seq(Events),
         Sends(d, s), Ends(x, q, d)
  PROVE  \A f \in Fields \ Moving(d)' : Heals(x, q \o s, duel'[d], f)
<1> SUFFICES ASSUME NEW f \in Fields \ Moving(d)'
             PROVE  Heals(x, q \o s, duel'[d], f)
  OBVIOUS
<1>1. CASE Settles(s, duel'[d], f)
  BY <1>1, HealsSettle
<1>2. CASE /\ f \notin Moving(d) /\ Of(duel'[d], f) = Of(duel[d], f)
           /\ \A j \in 1..Len(s) : Right(s[j], duel'[d], f)
  <2>1. Heals(x, q, duel[d], f)
    BY <1>2 DEF Ends
  <2>2. QED
    BY <1>2, <2>1, HealsAppend
<1>3. QED
  BY <1>1, <1>2 DEF Sends

LEMMA RecordedSent ==
  ASSUME EngineInv, Recorded, \A d \in Duels : Moves(d)
  PROVE  Recorded'
<1> SUFFICES ASSUME NEW d \in Duels
             PROVE  Owed(d)' /\ (duel'[d] # None => Ends(duel[d], events[d], d)')
  BY DEF Recorded
<1>1. Owed(d)'
  BY DEF Moves
<1>2. ASSUME NEW f \in Fields \ Moving(d)', duel'[d] # None
      PROVE  Heals(duel'[d], events'[d], duel'[d], f)
  <2>1. CASE duel[d] = None
    <3>1. events'[d] = <<>>
      BY <2>1 DEF Moves, Recorded, Owed
    <3>2. QED
      BY <3>1, HealsNothing
  <2>2. CASE duel[d] # None
    <3>1. PICK s \in Seq(Events) : Sends(d, s)
      BY <2>2 DEF Moves
    <3>2. events'[d] = events[d] \o s /\ events[d] \in Seq(Events)
      BY <3>1 DEF Sends, EngineInv, EngineTyped
    <3>3. Ends(duel[d], events[d], d)
      BY <2>2 DEF Recorded
    <3>4. Heals(duel[d], events[d] \o s, duel'[d], f)
      BY <3>1, <3>2, <3>3, EndsSent
    <3>5. QED
      BY <3>2, <3>4, HealsSelf
  <2>3. QED
    BY <2>1, <2>2
<1>3. QED
  BY <1>1, <1>2 DEF Ends

\* Someone takes an event off a queue.
LEMMA RecordedTaken ==
  ASSUME EngineInv, Recorded, NEW c \in Duels, Take(c)
  PROVE  Recorded' /\ \A d \in Duels : Moving(d)' = Moving(d)
<1>1. /\ events[c] \in Seq(Events) /\ events[c] # <<>>
      /\ events' = [events EXCEPT ![c] = Tail(events[c])]
      /\ UNCHANGED <<duel, watching, segment>>
  BY DEF Take, EngineInv, EngineTyped
<1>2. events'[c] = Tail(events[c]) /\ \A d \in Duels \ {c} : events'[d] = events[d]
  BY <1>1 DEF EngineInv, EngineTyped
<1>3. \A d \in Duels : Moving(d)' = Moving(d)
  BY <1>1 DEF Moving
<1>4. ASSUME NEW d \in Duels, duel'[d] # None
      PROVE  Ends(duel[d], events[d], d)'
  <2>1. Ends(duel[d], events[d], d)
    BY <1>1, <1>4 DEF Recorded
  <2>2. \A f \in Fields \ Moving(d) : Heals(duel[d], events'[d], duel[d], f)
    BY <1>1, <1>2, <2>1, HealsDrop DEF Ends
  <2>3. QED
    BY <1>1, <1>3, <2>2 DEF Ends
<1>5. \A d \in Duels : Owed(d)'
  BY <1>1, <1>2 DEF Recorded, Owed
<1>6. QED
  BY <1>3, <1>4, <1>5 DEF Recorded

LEMMA RecordedKept ==
  ASSUME Recorded, UNCHANGED healthy
  PROVE  Recorded' /\ \A d \in Duels : Moving(d)' = Moving(d)
  BY DEF Recorded, healthy, Owed, Ends, Moving

\* The events due are of the selected duel.
LEMMA DueTyped ==
  ASSUME Inv, BannerInv, Known, duelId # None
  PROVE  /\ Due \in Seq(Events) /\ duelId \in Duels /\ duel[duelId] # None
         /\ sse.fresh => sse.latest \in Events
         /\ ~sse.fresh => Due = events[duelId]
<1>1. duelId \in Duels /\ duel[duelId] # None
  BY DEF Known, Existing
<1>2. events[duelId] \in Seq(Events)
  BY <1>1 DEF BannerInv, EngineInv, EngineTyped
<1>3. sse.fresh => sse.latest \in Events
  BY DEF BannerInv, Shown, Told
<1> DEFINE queue == events[duelId]
<1> HIDE DEF queue
<1>4. CASE sse.fresh
  <2>1. Due = <<sse.latest>> \o queue /\ queue \in Seq(Events)
    BY <1>2, <1>4 DEF Due, queue
  <2>2. <<sse.latest>> \in Seq(Events)
    BY <1>3, <1>4
  <2>3. QED
    BY <1>1, <1>3, <1>4, <2>1, <2>2
<1>5. CASE ~sse.fresh
  <2>1. Due = <<>> \o queue /\ queue \in Seq(Events)
    BY <1>2, <1>5 DEF Due, queue
  <2>2. Due = queue
    BY <2>1
  <2>3. QED
    BY <1>1, <1>5, <2>1, <2>2 DEF queue
<1>6. QED
  BY <1>4, <1>5

\* What is fresh is of the selected duel.
LEMMA FreshSelected ==
  ASSUME Inv, BannerInv, sse.fresh
  PROVE  open /\ sse.url = duelId /\ duelId # None
  BY NoneAssumption DEF Inv, OnlySelected, Closed, BannerInv, Shown

\* The engine moves and the tab does not.
LEMMA FollowedSent ==
  ASSUME Inv, BannerInv, Known, Followed, \A d \in Duels : Moves(d),
         UNCHANGED <<open, duelId, api, sse, live, missed>>
  PROVE  Followed'
<1>1. CASE duelId = None
  <2>1. ~sse.fresh
    BY <1>1, FreshSelected
  <2>2. QED
    BY <1>1, <2>1 DEF Followed, InFlight
<1>2. CASE duelId # None
  <2>1. PICK s \in Seq(Events) : Sends(duelId, s)
    BY <1>2, DueTyped DEF Moves
  <2>2. Due \in Seq(Events) /\ duelId \in Duels
    BY <1>2, DueTyped
  <2>3. Due' = Due \o s
    <3> DEFINE first == IF sse.fresh THEN <<sse.latest>> ELSE <<>>
               queue == events[duelId]
    <3>1. first \in Seq(Events) /\ queue \in Seq(Events)
      BY <1>2, DueTyped DEF BannerInv, EngineInv, EngineTyped
    <3>2. Due = first \o queue /\ Due' = first \o events'[duelId]
      BY DEF Due
    <3>3. events'[duelId] = queue \o s
      BY <2>1 DEF Sends
    <3> HIDE DEF first, queue
    <3>4. first \o (queue \o s) = (first \o queue) \o s
      BY <3>1
    <3>5. QED
      BY <3>2, <3>3, <3>4
  <2>4. ASSUME NEW x, Ends(x, Due, duelId)
        PROVE  \A f \in Fields \ Moving(duelId)' : Heals(x, Due', duel'[duelId], f)
    BY <2>1, <2>2, <2>3, <2>4, EndsSent
  <2>5. sse.fresh /\ "event" \notin missed => Ends(duel[duelId], Due, duelId)'
    <3> SUFFICES ASSUME sse.fresh, "event" \notin missed, NEW f \in Fields \ Moving(duelId)'
                 PROVE  Heals(duel'[duelId], Due', duel'[duelId], f)
      BY DEF Ends
    <3>1. Ends(duel[duelId], Due, duelId)
      BY DEF Followed
    <3>2. Heals(duel[duelId], Due', duel'[duelId], f)
      BY <2>4, <3>1
    <3>3. QED
      BY <3>2, HealsSelf
  <2>6. missed = {} =>
          /\ \A t \in InFlight(api) : Ends(api.requests[t].answer.duel, Due, duelId)'
          /\ InFlight(api) = {} => live.id = duelId /\ Ends(live.duel, Due, duelId)'
    BY <2>4 DEF Followed, Ends
  <2>7. QED
    BY <1>2, <2>5, <2>6 DEF Followed, InFlight
<1>3. QED
  BY <1>1, <1>2

\* Nothing is left of what the stage had, and it waits for a detail.
LEMMA FollowedAnew ==
  ASSUME missed' = {"detail"}, ~sse'.fresh, \A s, t \in InFlight(api)' : s = t
  PROVE  Followed'
  BY DEF Followed, Misses

LEMMA SelectFollowed ==
  ASSUME Inv, Followed, NEW d \in Existing, Select(d),
         UNCHANGED <<healthy, open, live>>
  PROVE  Followed'
<1>1. CASE open /\ d # duelId
  <2>1. api' = Reload(api, d) /\ sse' = Connect(sse, d) /\ missed' = {"detail"}
    BY <1>1 DEF Select
  <2>2. ~sse'.fresh
    BY <2>1 DEF Connect, Inv, Shape
  <2>3. \A s, t \in InFlight(api)' : s = t
    BY <2>1, ReloadOne DEF Inv, Shape
  <2>4. QED
    BY <2>1, <2>2, <2>3, FollowedAnew
<1>2. CASE open /\ d = duelId
  BY <1>2 DEF Select, Followed, healthy, Ends, Due, InFlight, Moving
<1>3. CASE ~open
  <2>1. UNCHANGED <<api, sse, missed>> /\ ~sse.fresh /\ "detail" \in missed
    BY <1>3 DEF Select, Inv, OnlySelected, Closed, Followed
  <2>2. QED
    BY <1>3, <2>1 DEF Followed, InFlight
<1>4. QED
  BY <1>1, <1>2, <1>3

\* The detail is read: as it is, it ends as the duel does.
LEMMA ServeFollowed ==
  ASSUME Inv, BannerInv, EndInv, NEW s \in Slots, ServeDetail(s)
  PROVE  Followed'
<1> USE DEF EndInv
<1> DEFINE d == api.requests[s].path
           a == [id |-> d, duel |-> duel[d]]
<1>1. /\ api.requests[s].stage = "sent" /\ d \in Existing /\ api' = Answer(api, s, a)
      /\ missed' = missed \ {"detail"} /\ UNCHANGED <<healthy, open, duelId, sse, live>>
  BY DEF ServeDetail, engine
<1>2. open /\ d = duelId /\ duelId # None
  BY <1>1, NoneAssumption DEF Inv, OnlySelected, Mounted, Idle, RequestsOf, Existing
<1>3. a.duel = duel[duelId]
  BY <1>2
<1> HIDE DEF a
<1>4. /\ api'.requests[s].stage = "answered" /\ api'.requests[s].answer = a
      /\ \A t \in Slots \ {s} : api'.requests[t] = api.requests[t]
  BY <1>1 DEF Answer, Inv, Shape, IsHook
<1>5. \A t \in InFlight(api) : t = s
  BY <1>1 DEF Followed, InFlight
<1>6. InFlight(api)' = {s}
  BY <1>4, <1>5 DEF InFlight
<1>7. Due' = Due /\ Moving(duelId)' = Moving(duelId) /\ duel'[duelId] = duel[duelId]
  BY <1>1 DEF Due, healthy, Moving
<1>8. "event" \notin missed => Ends(duel[duelId], Due, duelId)
  <2>1. CASE sse.fresh
    BY <2>1 DEF Followed
  <2>2. CASE ~sse.fresh
    BY <1>2, <2>2, DueTyped DEF Recorded
  <2>3. QED
    BY <2>1, <2>2
<1>9. missed \subseteq Misses /\ ("event" \in missed => sse.fresh)
  BY DEF Followed
<1>10. \A t \in Slots : api'.requests[t].stage # "sent"
  BY <1>4, <1>5 DEF InFlight
<1>11. "event" \notin missed => Ends(duel[duelId], Due, duelId)'
  BY <1>1, <1>7, <1>8 DEF Ends
<1>12. "event" \notin missed' => \A t \in InFlight(api)' : Ends(api.requests[t].answer.duel, Due, duelId)'
  BY <1>1, <1>3, <1>4, <1>6, <1>7, <1>8 DEF Ends
<1>13. QED
  BY <1>1, <1>2, <1>6, <1>9, <1>10, <1>11, <1>12 DEF Followed

\* The detail arrives: the stage shows what was read.
LEMMA ArriveFollowed ==
  ASSUME Inv, BannerInv, EndInv, NEW s \in Slots, DetailArrives(s)
  PROVE  Followed'
<1> USE DEF EndInv
<1> DEFINE a == api.requests[s].answer
<1>1. /\ api.requests[s].stage = "answered"
      /\ api' = [Resolve(api, s) EXCEPT !.data = None]
      /\ live' = [id |-> a.id, duel |-> a.duel, parts |-> {a.id}]
      /\ UNCHANGED <<healthy, open, duelId, sse, missed>>
  BY DEF DetailArrives, engine
<1>2. a.id = duelId
  BY <1>1 DEF Inv, OnlySelected, Mounted, Idle, RequestsOf
<1>3. s \in InFlight(api)
  BY <1>1 DEF InFlight
<1>4. missed = {} => Ends(a.duel, Due, duelId)
  BY <1>3 DEF Followed
<1> HIDE DEF a
<1>5. live'.id = duelId /\ live'.duel = a.duel
  BY <1>1, <1>2
<1>6. api'.requests = [api.requests EXCEPT ![s] = Idle]
  BY <1>1 DEF Resolve, Inv, Shape, IsHook
<1>7. \A t \in Slots : api'.requests[t].stage = "idle"
  BY <1>3, <1>6 DEF Inv, Shape, IsHook, Idle, Followed, InFlight
<1>8. InFlight(api)' = {}
  BY <1>7 DEF InFlight
<1>9. Due' = Due /\ Moving(duelId)' = Moving(duelId) /\ duel'[duelId] = duel[duelId]
  BY <1>1 DEF Due, healthy, Moving
<1>10. \A x : Ends(x, Due, duelId) => \A f \in Fields \ Moving(duelId)' : Heals(x, Due', duel'[duelId], f)
  BY <1>9 DEF Ends
<1>11. missed = {} => Ends(live.duel, Due, duelId)'
  BY <1>4, <1>5, <1>10, <1>1 DEF Ends
<1>12. sse.fresh /\ "event" \notin missed => Ends(duel[duelId], Due, duelId)'
  BY <1>9, <1>10, <1>1 DEF Ends, Followed
<1>13. QED
  BY <1>1, <1>5, <1>7, <1>8, <1>11, <1>12 DEF Followed

LEMMA FailFollowed ==
  ASSUME Inv, Followed, NEW s \in Slots, DetailFails(s)
  PROVE  Followed'
<1>1. /\ api.requests[s].stage = "sent" /\ api' = Reject(api, s)
      /\ UNCHANGED <<healthy, open, duelId, sse, live, missed>>
  BY DEF DetailFails
<1>2. api'.requests = [api.requests EXCEPT ![s] = Idle]
  BY <1>1 DEF Reject, Inv, Shape, IsHook
<1>3. \A t \in Slots : api'.requests[t].stage # "idle" => api'.requests[t] = api.requests[t]
  BY <1>2 DEF Inv, Shape, IsHook, Idle
<1>4. "detail" \in missed /\ \A t, u \in InFlight(api)' : t = u
  BY <1>1, <1>3 DEF Followed, InFlight
<1>5. sse.fresh /\ "event" \notin missed => Ends(duel[duelId], Due, duelId)'
  BY <1>1 DEF Followed, Ends, Due, healthy, Moving
<1>6. QED
  BY <1>1, <1>3, <1>4, <1>5 DEF Followed

\* The next event arrives: it is the first of those due, unless it takes the
\* place of one that has not been looked at.
LEMMA MessageFollowed ==
  ASSUME Inv, BannerInv, EndInv, MessageArrives
  PROVE  Recorded' /\ Followed'
<1> USE DEF EndInv
<1>1. /\ sse.url # None /\ Take(sse.url) /\ sse' = OnMessage(sse, Head(events[sse.url]))
      /\ missed' = IF sse.fresh THEN {"detail"} ELSE missed
      /\ UNCHANGED <<open, duelId, api, live>>
  BY DEF MessageArrives
<1>2. open /\ sse.url = duelId /\ duelId \in Duels
  BY <1>1, NoneAssumption DEF Inv, OnlySelected, Closed, BannerInv, Shown
<1>3. Recorded' /\ Moving(duelId)' = Moving(duelId) /\ duel' = duel
  BY <1>1, <1>2, RecordedTaken DEF BannerInv, Take
<1> DEFINE queue == events[duelId]
<1>4. /\ queue \in Seq(Events) /\ queue # <<>> /\ events'[duelId] = Tail(queue)
      /\ sse'.fresh /\ sse'.latest = Head(queue)
  BY <1>1, <1>2 DEF Take, BannerInv, EngineInv, EngineTyped, OnMessage, Inv, Shape
<1>5. Due' = queue
  <2>1. Due' = <<Head(queue)>> \o Tail(queue)
    BY <1>1, <1>4 DEF Due
  <2> HIDE DEF queue
  <2>2. QED
    BY <1>4, <2>1
<1>6. Ends(duel[duelId], queue, duelId)
  BY <1>1, <1>2, NoneAssumption DEF Known, Existing, Recorded
<1>7. Ends(duel[duelId], Due, duelId)'
  BY <1>1, <1>3, <1>5, <1>6 DEF Ends
<1>8. CASE sse.fresh
  <2>1. missed' = {"detail"}
    BY <1>1, <1>8
  <2>2. QED
    BY <1>1, <1>3, <1>4, <1>7, <2>1 DEF Followed, InFlight, Misses
<1>9. CASE ~sse.fresh
  <2>1. Due = queue
    BY <1>1, <1>2, <1>9, DueTyped
  <2>2. missed' = missed /\ "event" \notin missed
    BY <1>1, <1>9 DEF Followed
  <2>3. \A x : Ends(x, Due, duelId) =>
               \A f \in Fields \ Moving(duelId)' : Heals(x, Due', duel'[duelId], f)
    BY <1>3, <1>5, <2>1 DEF Ends
  <2>4. missed = {} =>
          /\ \A s \in InFlight(api) : Ends(api.requests[s].answer.duel, Due, duelId)'
          /\ InFlight(api) = {} => live.id = duelId /\ Ends(live.duel, Due, duelId)'
    BY <1>1, <2>3 DEF Followed, Ends
  <2>5. QED
    BY <1>1, <1>3, <1>4, <1>7, <2>2, <2>4 DEF Followed, InFlight
<1>10. QED
  BY <1>8, <1>9

\* The event that was to be looked at is applied.
LEMMA RenderFollowed ==
  ASSUME Inv, BannerInv, EndInv, Render
  PROVE  Followed'
<1> USE DEF EndInv
<1>1. /\ sse.fresh /\ sse' = Rendered(sse) /\ UNCHANGED <<healthy, open, duelId, api>>
      /\ missed' = IF live.id # duelId \/ Pending(api, duelId) \/ "event" \in missed
                   THEN {"detail"} ELSE missed
  BY DEF Render, engine
<1>2. ~sse'.fresh
  BY <1>1 DEF Rendered, Inv, Shape
<1>3. open /\ duelId # None
  BY <1>1, FreshSelected
<1>4. CASE missed' = {"detail"}
  BY <1>1, <1>2, <1>4, FollowedAnew DEF Followed, InFlight
<1>5. CASE missed' # {"detail"}
  <2>1. missed' = missed /\ live.id = duelId /\ ~Pending(api, duelId) /\ "event" \notin missed
    BY <1>1, <1>5
  <2>2. missed = {}
    BY <1>5, <2>1 DEF Followed, Misses
  <2>3. InFlight(api) = {}
    BY <1>3, <2>1 DEF Inv, OnlySelected, RequestsOf, Pending, InFlight
  <2>4. Ends(live.duel, Due, duelId)
    BY <2>2, <2>3 DEF Followed
  <2>5. live'.id = live.id /\ live'.duel = Apply(live.duel, sse.latest)
    BY <1>3, <2>1 DEF Render, Inv, Shape
  <2>6. live.duel \in Duel /\ sse.latest \in Events /\ duelId \in Duels /\ Due \in Seq(Events)
    BY <1>1, <1>3, <2>1, DueTyped DEF BannerInv, Shown
  <2>7. events[duelId] \in Seq(Events)
    BY <2>6 DEF BannerInv, EngineInv, EngineTyped
  <2> DEFINE queue == events[duelId]
             r     == Due
  <2>8. Due = <<sse.latest>> \o queue
    BY <1>1 DEF Due
  <2>9. Due' = queue
    <3>1. Due' = <<>> \o queue
      BY <1>1, <1>2 DEF Due, healthy
    <3> HIDE DEF queue
    <3>2. queue \in Seq(Events)
      BY <2>7 DEF queue
    <3>3. QED
      BY <3>1, <3>2
  <2>10. Due # <<>> /\ Head(Due) = sse.latest /\ Tail(Due) = queue
    <3> HIDE DEF queue
    <3>1. queue \in Seq(Events)
      BY <2>7 DEF queue
    <3>2. QED
      BY <2>6, <2>8, <3>1
  <2>11. \A f \in Fields \ Moving(duelId) : Heals(live'.duel, queue, duel[duelId], f)
    <3> SUFFICES ASSUME NEW f \in Fields \ Moving(duelId)
                 PROVE  Heals(live'.duel, queue, duel[duelId], f)
      OBVIOUS
    <3>1. Heals(live.duel, Due, duel[duelId], f)
      BY <2>4 DEF Ends
    <3>2. Heals(Apply(live.duel, Head(Due)), Tail(Due), duel[duelId], f)
      BY <2>6, <2>10, <3>1, HealsApply
    <3>3. QED
      BY <2>5, <2>10, <3>2
  <2>12. Ends(live.duel, Due, duelId)'
    BY <1>1, <2>9, <2>11 DEF Ends, healthy, Moving
  <2>13. QED
    BY <1>1, <1>2, <1>3, <2>1, <2>2, <2>3, <2>5, <2>12 DEF Followed, InFlight
<1>6. QED
  BY <1>4, <1>5

\* An event is taken by another stream.
LEMMA LostFollowed ==
  ASSUME Inv, BannerInv, EndInv, NEW d \in Duels, EventLost(d)
  PROVE  Recorded' /\ Followed'
<1> USE DEF EndInv
<1>1. /\ Take(d) /\ UNCHANGED <<open, duelId, api, sse, live>>
      /\ missed' = IF d # duelId THEN missed
                   ELSE missed \cup IF sse.fresh THEN Misses ELSE {"detail"}
  BY DEF EventLost, OtherReaderTakes
<1>2. Recorded' /\ (\A c \in Duels : Moving(c)' = Moving(c)) /\ duel' = duel
  BY <1>1, RecordedTaken DEF BannerInv, Take
<1>3. CASE d # duelId
  <2>1. missed' = missed
    BY <1>1, <1>3
  <2>2. CASE duelId = None
    <3>1. ~sse.fresh
      BY <2>2, FreshSelected
    <3>2. QED
      BY <1>1, <1>2, <2>1, <2>2, <3>1 DEF Followed, InFlight
  <2>3. CASE duelId # None
    <3>1. events'[duelId] = events[duelId] /\ duelId \in Duels
      BY <1>1, <1>3, <2>3 DEF Take, BannerInv, EngineInv, EngineTyped, Known, Existing
    <3>2. Due' = Due /\ Moving(duelId)' = Moving(duelId)
      BY <1>1, <1>2, <3>1 DEF Due
    <3>3. \A x : Ends(x, Due, duelId) =>
                 \A f \in Fields \ Moving(duelId)' : Heals(x, Due', duel'[duelId], f)
      BY <1>2, <3>2 DEF Ends
    <3>4. missed = {} =>
            /\ \A s \in InFlight(api) : Ends(api.requests[s].answer.duel, Due, duelId)'
            /\ InFlight(api) = {} => live.id = duelId /\ Ends(live.duel, Due, duelId)'
      BY <1>1, <3>3 DEF Followed, Ends
    <3>5. sse.fresh /\ "event" \notin missed => Ends(duel[duelId], Due, duelId)'
      BY <1>1, <1>2, <3>3 DEF Followed, Ends
    <3>6. QED
      BY <1>1, <1>2, <2>1, <3>4, <3>5 DEF Followed, InFlight
  <2>4. QED
    BY <2>2, <2>3
<1>4. CASE d = duelId
  <2>1. /\ "detail" \in missed' /\ missed' \subseteq Misses
        /\ sse.fresh => "event" \in missed'
        /\ ~sse.fresh => "event" \notin missed'
    BY <1>1, <1>4 DEF Followed, Misses
  <2>2. QED
    BY <1>1, <1>2, <2>1 DEF Followed, InFlight
<1>5. QED
  BY <1>3, <1>4

\* Every step keeps what is shown, or will be, on the way to how the duel ends.
LEMMA EndStep == Inv /\ Listed /\ BannerInv /\ EndInv /\ [Next]_vars => EndInv'
<1> SUFFICES ASSUME Inv, Listed, BannerInv, EndInv, [Next]_vars PROVE EndInv'
  OBVIOUS
<1> USE DEF EndInv
<1>1. ASSUME UNCHANGED healthy, Known', Followed'
      PROVE  EndInv'
  BY <1>1, RecordedKept
<1>2. CASE ShowArena
  <2>1. /\ api' = WrappedLoad(Mounted, duelId) /\ sse' = Connect(Closed, duelId) /\ ~open
        /\ listed' = None /\ UNCHANGED <<healthy, duelId, live, missed>> /\ open'
    BY <1>2 DEF ShowArena, engine
  <2>2. IsHook(Mounted) /\ \A s \in Slots : Mounted.requests[s].stage = "idle"
    BY DEF IsHook, Mounted, Idle
  <2>3. \A s, t \in InFlight(api)' : s = t
    BY <2>1, <2>2, WrappedLoadOne
  <2>4. ~sse'.fresh /\ ~sse.fresh
    BY <2>1 DEF Connect, Closed, Inv, OnlySelected
  <2>5. missed' = {"detail"}
    BY <2>1, <2>4 DEF Followed, Misses
  <2>6. Followed'
    BY <2>3, <2>4, <2>5, FollowedAnew
  <2>7. Known'
    BY <2>1 DEF Known, Existing, healthy
  <2>8. QED
    BY <1>1, <2>1, <2>6, <2>7
<1>3. CASE LeaveArena
  <2>1. /\ api' = Mounted /\ sse' = Closed /\ missed' = {"detail"} /\ listed' = None
        /\ UNCHANGED <<healthy, duelId>>
    BY <1>3 DEF LeaveArena, engine
  <2>2. Followed'
    BY <2>1, FollowedAnew DEF Closed, Mounted, Idle, InFlight
  <2>3. Known'
    BY <2>1 DEF Known, Existing, healthy
  <2>4. QED
    BY <1>1, <2>1, <2>2, <2>3
<1>4. ASSUME NEW d \in Existing, Select(d), UNCHANGED <<healthy, open, listed, live>>
      PROVE  EndInv'
  <2>1. Followed'
    BY <1>4, SelectFollowed
  <2>2. Known'
    BY <1>4 DEF Known, Existing, healthy, Select
  <2>3. QED
    BY <1>1, <1>4, <2>1, <2>2
<1>5. CASE Pick
  <2>1. PICK d \in listed : Select(d)
    BY <1>5 DEF Pick
  <2>2. UNCHANGED <<healthy, open, listed, live>> /\ d \in Existing
    BY <1>5 DEF Pick, engine, Known
  <2>3. QED
    BY <1>4, <2>1, <2>2
<1>6. ASSUME NEW d \in Duels, OnCreated(d)
      PROVE  EndInv'
  <2>1. Select(d) /\ UNCHANGED <<healthy, open, listed, live>> /\ d \in Existing
    BY <1>6 DEF OnCreated, engine
  <2>2. QED
    BY <1>4, <2>1
<1>7. ASSUME NEW s \in Slots, ServeDetail(s) \/ DetailArrives(s) \/ DetailFails(s)
      PROVE  EndInv'
  <2>1. UNCHANGED <<healthy, listed, duelId>>
    BY <1>7 DEF ServeDetail, DetailArrives, DetailFails, engine
  <2>2. Followed'
    BY <1>7, ServeFollowed, ArriveFollowed, FailFollowed
  <2>3. Known'
    BY <2>1 DEF Known, Existing, healthy
  <2>4. QED
    BY <1>1, <2>1, <2>2, <2>3
<1>8. CASE MessageArrives
  <2>1. UNCHANGED <<duel, listed, duelId>>
    BY <1>8 DEF MessageArrives, Take
  <2>2. QED
    BY <1>8, <2>1, MessageFollowed DEF Known, Existing
<1>9. CASE Render
  <2>1. UNCHANGED <<healthy, listed, duelId>>
    BY <1>9 DEF Render, engine
  <2>2. Known'
    BY <2>1 DEF Known, Existing, healthy
  <2>3. QED
    BY <1>1, <1>9, <2>1, <2>2, RenderFollowed
<1>10. ASSUME NEW d \in Duels, EventLost(d)
       PROVE  EndInv'
  <2>1. UNCHANGED <<duel, listed, duelId>>
    BY <1>10 DEF EventLost, OtherReaderTakes, Take
  <2>2. QED
    BY <1>10, <2>1, LostFollowed DEF Known, Existing
<1>11. ASSUME (EngineStep /\ UNCHANGED tab) \/ \E d \in Duels : Create(d)
       PROVE  EndInv'
  <2>1. /\ EngineStep \/ \E d \in Duels : BeginCreate(d)
        /\ UNCHANGED <<open, duelId, listed, api, sse, live, missed>>
    BY <1>11 DEF Create, tab
  <2>2. \A d \in Duels : Moves(d)
    BY <2>1, EngineMoves DEF BannerInv, Recorded
  <2>3. Recorded' /\ Followed'
    BY <2>1, <2>2, RecordedSent, FollowedSent DEF BannerInv
  <2>4. \A d \in Duels : duel[d] # None => duel'[d] # None
    BY <2>2 DEF Moves, Sends
  <2>5. Known'
    BY <2>1, <2>4 DEF Known, Existing
  <2>6. QED
    BY <2>3, <2>5
<1>12. ASSUME \/ \E d \in Duels : Submit(d) \/ SubmitFails(d)
              \/ UNCHANGED vars
       PROVE  EndInv'
  <2>1. UNCHANGED healthy /\ UNCHANGED <<open, duelId, listed, api, sse, live, missed>>
    BY <1>12 DEF Submit, SubmitFails, vars, engine, tab
  <2>2. Followed'
    BY <2>1 DEF Followed, InFlight, Ends, Due, Moving, healthy
  <2>3. Known'
    BY <2>1 DEF Known, Existing, healthy
  <2>4. QED
    BY <1>1, <2>1, <2>2, <2>3
<1>13. CASE ListArrives
  <2>1. /\ listed' = Existing /\ UNCHANGED healthy
        /\ UNCHANGED <<open, duelId, api, sse, live, missed>>
    BY <1>13 DEF ListArrives, engine
  <2>2. Followed'
    BY <2>1 DEF Followed, InFlight, Ends, Due, Moving, healthy
  <2>3. Known'
    BY <2>1 DEF Known, Existing, healthy
  <2>4. QED
    BY <1>1, <2>1, <2>2, <2>3
<1>14. QED
  BY <1>2, <1>3, <1>5, <1>6, <1>7, <1>8, <1>9, <1>10, <1>11, <1>12, <1>13 DEF Next

\* At first no duel is running and none is shown.
LEMMA EndInit == Init => EndInv
<1> SUFFICES ASSUME Init PROVE EndInv
  OBVIOUS
<1>1. /\ listed = None /\ duelId = None /\ missed = {"detail"} /\ ~open /\ ~sse.fresh
      /\ InFlight(api) = {}
  BY DEF Init, TabInit, Closed, Mounted, Idle, InFlight
<1>2. Known
  BY <1>1 DEF Known
<1>3. Followed
  BY <1>1 DEF Followed, InFlight, Misses
<1>4. Recorded
  <2>1. OldDuel.status = "completed"
    BY DEF OldDuel
  <2> HIDE DEF OldDuel
  <2>2. ASSUME NEW d \in Duels
        PROVE  events[d] = <<>> /\ duel[d] \in {OldDuel, None}
    BY DEF Init, EngineInit
  <2>3. ASSUME NEW d \in Duels
        PROVE  Ends(duel[d], events[d], d) /\ Owed(d)
    BY <2>1, <2>2, HealsNothing DEF Ends, Owed
  <2>4. QED
    BY <2>3 DEF Recorded
<1>5. QED
  BY <1>2, <1>3, <1>4 DEF EndInv

\* When a duel is completed and all is delivered, the stage shows how it ended if
\* it has looked at every event since its detail was read, for any number of
\* duels, of events that are lost, of details that are late, refused or read in
\* the middle of a coroutine's assignments (duel.py 198-228, 261-299;
\* ArenaStage.tsx 22-52).
THEOREM StageEndsRight == Spec => []StageShowsTheEnd
<1>1. Inv /\ BannerInv /\ EndInv => StageShowsTheEnd
  <2> SUFFICES ASSUME Inv, BannerInv, EndInv, Settled, missed = {} PROVE StageCurrent
    BY DEF StageShowsTheEnd
  <2> DEFINE w == duel[duelId]
             x == live.duel
  <2>1. /\ open /\ duelId # None /\ ~Pending(api, duelId) /\ ~sse.fresh
        /\ events[duelId] = <<>> /\ watching[duelId] = {} /\ segment = None
        /\ w.status = "completed"
    BY DEF Settled, Quiet
  <2>2. duelId \in Duels
    BY <2>1 DEF EndInv, Known, Existing
  <2>3. InFlight(api) = {}
    BY <2>1 DEF Inv, OnlySelected, RequestsOf, Pending, InFlight
  <2>4. Ends(x, <<>>, duelId) /\ x \in Duel /\ w \in Duel
    BY <2>1, <2>2, <2>3, DueTyped
    DEF EndInv, Followed, BannerInv, Shown, EngineInv, EngineTyped
  <2>5. segment # <<duelId, "complete">>
    BY <2>1, <2>2, Segments DEF Sides
  <2>6. Moving(duelId) = {}
    BY <2>1, <2>5 DEF Moving, Fields
  <2> HIDE DEF w, x
  <2>7. \A f \in Fields : Of(x, f) = Of(w, f)
    BY <2>4, <2>6, HealsNothing DEF Ends, w
  <2>8. ASSUME NEW k \in Sides
        PROVE  /\ x.status = w.status /\ x.winner = w.winner
               /\ x.agents[k].status = w.agents[k].status
               /\ x.agents[k].reward = w.agents[k].reward
    <3>1. \A t \in {"badge", "banner", "status", "reward"} : Of(x, <<t, k>>) = Of(w, <<t, k>>)
      BY <2>7 DEF Fields
    <3>2. QED
      BY <3>1 DEF Of
  <2>9. \A k \in Sides : AgentCard(x.agents[k]) = AgentCard(w.agents[k])
    BY <2>8 DEF AgentCard
  <2>10. x.status = w.status /\ x.winner = w.winner
    BY <2>8 DEF Sides
  <2>11. QED
    BY <2>9, <2>10 DEF StageCurrent, Stage, w, x
<1>2. QED
  BY <1>1, InvInit, InvStep, ListedStep, BannerInit, BannerStep, EndInit, EndStep, PTL DEF Spec

-----------------------------------------------------------------------------
(* What the variables hold.                                                *)

TabTypeOK ==
  /\ posts \in [Duels -> {"none", "mine", "old", "lost"}]
  /\ api \in ApiStates(Duels, Snapshots)
  /\ sse \in StreamStates(Duels, Events)
  /\ live \in [id: Duels, duel: Duel, parts: SUBSET Duels] \cup {NoDuel}
  /\ open \in BOOLEAN

\* The rest of the engine's variables.
Counted ==
  /\ created \in Seq(Duels)
  /\ segment \in (Duels \X Parts) \cup {None}
  /\ forced \subseteq Duels
  /\ faults \in 0..MaxFaults

TypeInv == Counted /\ TabTypeOK

LEMMA CountedInit == Init => Counted
<1> SUFFICES ASSUME Init PROVE Counted
  OBVIOUS
<1>1. PICK s \in [1..Cardinality(Finished) -> Finished] : created = s
  BY DEF Init, EngineInit
<1>2. Cardinality(Finished) \in Nat
  BY FinishedAssumption, FS_CardinalityType
<1>3. s \in Seq(Finished)
  BY <1>2
<1>4. s \in Seq(Duels)
  BY <1>3, FinishedAssumption
<1>5. QED
  BY <1>1, <1>4, FaultAssumption DEF Init, EngineInit, Counted

LEMMA FaultCounted ==
  ASSUME Counted, Fault
  PROVE  faults' \in 0..MaxFaults
  BY FaultAssumption DEF Counted, Fault

LEMMA EngineCounted ==
  ASSUME Counted, EngineStep \/ \E c \in Duels : BeginCreate(c)
  PROVE  Counted'
<1> USE DEF Counted
<1>1. ASSUME NEW c \in Duels, BeginCreate(c)
      PROVE  Counted'
  <2>1. <<c>> \o created \in Seq(Duels)
    OBVIOUS
  <2>2. <<c, "create">> \in Duels \X Parts
    BY DEF Parts
  <2>3. QED
    BY <1>1, <2>1, <2>2 DEF BeginCreate
<1>2. ASSUME NEW c \in Duels, EndCreate(c) \/ FailCreate(c) \/ EndComplete(c)
      PROVE  Counted'
  BY <1>2 DEF EndCreate, FailCreate, EndComplete
<1>3. ASSUME NEW c \in Duels, BeginComplete(c) \/ Deadline(c)
      PROVE  Counted'
  <2>1. <<c, "complete">> \in Duels \X Parts
    BY DEF Parts
  <2>2. CASE BeginComplete(c)
    BY <2>1, <2>2 DEF BeginComplete
  <2>3. CASE Deadline(c)
    BY <2>1, <2>3, FaultCounted DEF Deadline
  <2>4. QED
    BY <1>3, <2>2, <2>3
<1>4. ASSUME NEW c \in Duels, NEW k \in Sides, BeginResult(c, k) \/ EndResult(c, k)
      PROVE  Counted'
  <2>1. <<c, k>> \in Duels \X Parts
    BY DEF Parts
  <2>2. QED
    BY <1>4, <2>1 DEF BeginResult, EndResult
<1>5. QED
  BY <1>1, <1>2, <1>3, <1>4 DEF EngineStep

LEMMA SelectTyped ==
  ASSUME TabTypeOK, NEW d \in Duels, Select(d)
  PROVE  api' \in ApiStates(Duels, Snapshots) /\ sse' \in StreamStates(Duels, Events)
<1>1. \/ api' = Reload(api, d) /\ sse' = Connect(sse, d)
      \/ UNCHANGED <<api, sse>>
  BY DEF Select
<1>2. QED
  BY <1>1, ReloadTyped, StreamTyped DEF TabTypeOK

\* Every step leaves the variables within their sets.
LEMMA TypeStep == Listed /\ BannerInv /\ TypeInv /\ [Next]_vars => TypeInv'
<1> SUFFICES ASSUME Listed, BannerInv, TypeInv, [Next]_vars PROVE TypeInv'
  OBVIOUS
<1> USE DEF TypeInv
<1>1. ASSUME \/ UNCHANGED engine
             \/ UNCHANGED healthy /\ Fault
             \/ \E d \in Duels : Take(d) /\ (UNCHANGED faults \/ Fault)
      PROVE  Counted'
  BY <1>1, FaultCounted DEF Counted, engine, healthy, Take
<1>2. CASE ShowArena
  <2>1. /\ api' = WrappedLoad(Mounted, duelId) /\ sse' = Connect(Closed, duelId)
        /\ open' = TRUE /\ UNCHANGED <<engine, posts, live>>
    BY <1>2 DEF ShowArena
  <2>2. duelId \in Duels \cup {None}
    BY DEF BannerInv, Shown
  <2>3. TabTypeOK'
    BY <2>1, <2>2, FirstTyped, WrappedLoadTyped, StreamTyped DEF TabTypeOK
  <2>4. QED
    BY <1>1, <2>1, <2>3
<1>3. CASE LeaveArena
  <2>1. /\ api' = Mounted /\ sse' = Closed /\ live' = NoDuel /\ open' = FALSE
        /\ posts' = [d \in Duels |-> IF posts[d] = "mine" THEN "old" ELSE posts[d]]
        /\ UNCHANGED engine
    BY <1>3 DEF LeaveArena
  <2>2. TabTypeOK'
    BY <2>1, FirstTyped DEF TabTypeOK
  <2>3. QED
    BY <1>1, <2>1, <2>2
<1>4. CASE Pick
  <2>1. PICK d \in listed : Select(d)
    BY <1>4 DEF Pick
  <2>2. d \in Duels /\ UNCHANGED <<engine, open, posts, live>>
    BY <1>4 DEF Pick, Listed
  <2>3. TabTypeOK'
    BY <2>1, <2>2, SelectTyped DEF TabTypeOK
  <2>4. QED
    BY <1>1, <2>2, <2>3
<1>5. ASSUME NEW d \in Duels, OnCreated(d)
      PROVE  TypeInv'
  <2>1. /\ Select(d) /\ UNCHANGED <<engine, open, live>>
        /\ posts' = [posts EXCEPT ![d] = "none"]
    BY <1>5 DEF OnCreated
  <2>2. TabTypeOK'
    BY <2>1, SelectTyped DEF TabTypeOK
  <2>3. QED
    BY <1>1, <2>1, <2>2
<1>6. ASSUME NEW d \in Duels, Submit(d) \/ SubmitFails(d)
      PROVE  TypeInv'
  <2>1. /\ UNCHANGED <<open, api, sse, live>>
        /\ \E t \in {"mine", "none", "lost"} : posts' = [posts EXCEPT ![d] = t]
        /\ UNCHANGED engine \/ (UNCHANGED healthy /\ Fault)
    BY <1>6 DEF Submit, SubmitFails
  <2>2. TabTypeOK'
    BY <2>1 DEF TabTypeOK
  <2>3. QED
    BY <1>1, <2>1, <2>2
<1>7. ASSUME NEW s \in Slots, ServeDetail(s)
      PROVE  TypeInv'
  <2> DEFINE d == api.requests[s].path
             a == [id |-> d, duel |-> duel[d]]
  <2>1. /\ d \in Existing /\ api' = Answer(api, s, a)
        /\ UNCHANGED <<engine, open, posts, sse, live>>
    BY <1>7 DEF ServeDetail
  <2>2. a \in Snapshots
    BY <2>1 DEF Existing, BannerInv, EngineInv, EngineTyped, Snapshots
  <2> HIDE DEF a
  <2>3. TabTypeOK'
    BY <2>1, <2>2, AnswerTyped DEF TabTypeOK
  <2>4. QED
    BY <1>1, <2>1, <2>3
<1>8. ASSUME NEW s \in Slots, DetailArrives(s)
      PROVE  TypeInv'
  <2> DEFINE a == api.requests[s].answer
  <2>1. /\ api.requests[s].stage = "answered"
        /\ api' = [Resolve(api, s) EXCEPT !.data = None]
        /\ live' = [id |-> a.id, duel |-> a.duel, parts |-> {a.id}]
        /\ UNCHANGED <<engine, open, posts, sse>>
    BY <1>8 DEF DetailArrives
  <2>2. a.id \in Duels /\ a.duel \in Duel
    BY <2>1 DEF BannerInv, Shown
  <2> HIDE DEF a
  <2>3. Resolve(api, s) \in ApiStates(Duels, Snapshots)
    BY OverTyped DEF TabTypeOK
  <2>4. api' \in ApiStates(Duels, Snapshots)
    BY <2>1, <2>3 DEF ApiStates
  <2>5. live' \in [id: Duels, duel: Duel, parts: SUBSET Duels]
    BY <2>1, <2>2
  <2>6. TabTypeOK'
    BY <2>1, <2>4, <2>5 DEF TabTypeOK
  <2>7. QED
    BY <1>1, <2>1, <2>6
<1>9. ASSUME NEW s \in Slots, DetailFails(s)
      PROVE  TypeInv'
  <2>1. api' = Reject(api, s) /\ UNCHANGED <<healthy, open, posts, sse, live>> /\ Fault
    BY <1>9 DEF DetailFails
  <2>2. TabTypeOK'
    BY <2>1, OverTyped DEF TabTypeOK
  <2>3. QED
    BY <1>1, <2>1, <2>2
<1>10. CASE MessageArrives
  <2>1. /\ sse.url \in Duels /\ Take(sse.url) /\ sse' = OnMessage(sse, Head(events[sse.url]))
        /\ UNCHANGED <<faults, open, posts, api, live>>
    BY <1>10 DEF MessageArrives, BannerInv, Shown
  <2>2. Head(events[sse.url]) \in Events
    BY <2>1 DEF Take, BannerInv, EngineInv, EngineTyped
  <2>3. TabTypeOK'
    BY <2>1, <2>2, StreamTyped DEF TabTypeOK
  <2>4. QED
    BY <1>1, <2>1, <2>3
<1>11. CASE Render
  <2>1. /\ sse.fresh /\ sse' = Rendered(sse) /\ UNCHANGED <<engine, open, posts, api>>
    BY <1>11 DEF Render
  <2>2. sse.url \in Duels /\ sse.latest \in Events
    BY <2>1 DEF BannerInv, Shown, Told
  <2>3. live' \in [id: Duels, duel: Duel, parts: SUBSET Duels] \cup {NoDuel}
    <3>1. CASE live.id = None
      BY <1>11, <3>1 DEF Render, TabTypeOK
    <3>2. CASE live.id # None
      <4>1. live \in [id: Duels, duel: Duel, parts: SUBSET Duels]
        BY <3>2 DEF TabTypeOK, NoDuel
      <4>2. live' = [live EXCEPT !.duel = Apply(live.duel, sse.latest),
                                 !.parts = live.parts \cup {sse.url}]
        BY <1>11, <3>2 DEF Render
      <4>3. Apply(live.duel, sse.latest) \in Duel
        BY <2>2, <4>1, ApplyTyped
      <4>4. QED
        BY <2>2, <4>1, <4>2, <4>3
    <3>3. QED
      BY <3>1, <3>2
  <2>4. TabTypeOK'
    BY <2>1, <2>3, StreamTyped DEF TabTypeOK
  <2>5. QED
    BY <1>1, <2>1, <2>4
<1>12. ASSUME NEW d \in Duels, EventLost(d)
       PROVE  TypeInv'
  BY <1>1, <1>12 DEF EventLost, OtherReaderTakes, TabTypeOK
<1>13. ASSUME (EngineStep /\ UNCHANGED tab) \/ \E d \in Duels : Create(d)
       PROVE  TypeInv'
  <2>1. (EngineStep \/ \E d \in Duels : BeginCreate(d)) /\ UNCHANGED tab
    BY <1>13 DEF Create
  <2>2. Counted'
    BY <2>1, EngineCounted
  <2>3. QED
    BY <2>1, <2>2 DEF tab, TabTypeOK
<1>14. CASE ListArrives \/ UNCHANGED vars
  BY <1>1, <1>14 DEF ListArrives, vars, tab, TabTypeOK
<1>15. QED
  BY <1>2, <1>3, <1>4, <1>5, <1>6, <1>7, <1>8, <1>9, <1>10, <1>11, <1>12, <1>13, <1>14 DEF Next

\* The variables of the tab and of the engine next to it hold what the code can
\* put into them (types.ts, duel.py, useApi.ts, useSSE.ts).
THEOREM TypeCorrect == Spec => []TypeOK
<1>1. Init => TypeInv
  BY CountedInit, FirstTyped DEF Init, TabInit, TypeInv, TabTypeOK
<1>a. Listed => listed \in (SUBSET Duels) \cup {None}
  BY DEF Listed
<1>2. Listed /\ BannerInv /\ EndInv /\ TypeInv => TypeOK
  BY <1>a DEF BannerInv, EngineInv, EngineTyped, Shown, EndInv, Followed, TypeInv, Counted,
     TabTypeOK, TypeOK, EngineTypeOK
<1>3. QED
  BY <1>1, <1>2, InvInit, InvStep, ListedStep, BannerInit, BannerStep, EndInit, EndStep,
     TypeStep, PTL DEF Spec

=============================================================================
