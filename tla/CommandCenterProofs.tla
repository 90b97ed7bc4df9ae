-------------------------- MODULE CommandCenterProofs --------------------------
(***************************************************************************)
(* The Command Center never mixes two duels, for any number of duels and   *)
(* of requests in flight.                                                  *)
(***************************************************************************)
EXTENDS CommandCenter, HooksProofs

\* The states of the hooks and liveDuel have their fields.
Shape ==
  /\ IsHook(api)
  /\ DOMAIN sse = {"url", "latest", "fresh", "connected"}
  /\ DOMAIN live = {"id", "duel", "parts"}

\* What is on its way to the tab is about the selected duel: the cleanup has
\* dropped the requests for the one before and closed its stream.
OnlySelected == RequestsOf(api, sel) /\ sse.url = sel

Inv == Shape /\ OnlySelected /\ OneDuelInArena

-----------------------------------------------------------------------------
\* Nothing is on its way and nothing is shown.
LEMMA InvInit == Init => Inv
  BY DEF Init, Inv, Shape, IsHook, OnlySelected, RequestsOf, OneDuelInArena, Mounted, Idle,
     Closed, NoDuel

\* Every step keeps what is on its way about the selected duel, and what is
\* shown about that duel once its detail has come.
LEMMA InvStep == Inv /\ [Next]_vars => Inv'
<1> SUFFICES ASSUME Inv, [Next]_vars PROVE Inv'
  OBVIOUS
<1> USE DEF Inv, OnlySelected
<1>1. ASSUME UNCHANGED <<sel, api, sse, live, seeded>>
      PROVE  Inv'
  BY <1>1 DEF Shape, IsHook, RequestsOf, OneDuelInArena
<1>2. CASE AskDetail
  <2>1. IsHook(api)' /\ RequestsOf(api, sel)'
    BY <1>2, WrappedLoadEach, WrappedLoadRequests, UnreadRequests DEF AskDetail, Shape
  <2>2. QED
    BY <1>2, <2>1 DEF AskDetail, Shape, OneDuelInArena
<1>3. CASE MessageArrives
  BY <1>3 DEF MessageArrives, Shape, IsHook, RequestsOf, OneDuelInArena, OnMessage
<1>4. CASE Render
  <2>1. /\ DOMAIN sse' = DOMAIN sse /\ sse'.url = sse.url
        /\ DOMAIN live' = DOMAIN live /\ live'.id = live.id
        /\ live'.parts = live.parts \/ live'.parts = live.parts \cup {sse.url}
    BY <1>4 DEF Render, Rendered, Shape
  <2>2. QED
    BY <1>4, <2>1 DEF Render, Shape, IsHook, RequestsOf, OneDuelInArena
<1>5. ASSUME NEW s \in ListSlots, ListArrives(s)
      PROVE  Inv'
  <2>1. CASE sel' = sel
    BY <1>1, <1>5, <2>1 DEF ListArrives
  <2>2. CASE sel' # sel
    <3>1. /\ api' = Unread(Reload(api, sel')) /\ sse' = Connect(sse, sel')
          /\ seeded' = FALSE /\ live' = live
      BY <1>5, <2>2 DEF ListArrives
    <3>2. IsHook(api)' /\ RequestsOf(api, sel)'
      BY <3>1, ReloadEach, ReloadRequests, UnreadRequests DEF Shape
    <3>3. QED
      BY <3>1, <3>2 DEF Shape, Connect, OneDuelInArena
  <2>3. QED
    BY <2>1, <2>2
<1>6. ASSUME NEW s \in Slots, ServeDetail(s)
      PROVE  Inv'
  <2>1. IsHook(api)' /\ RequestsOf(api, sel)'
    <3> DEFINE a == [id |-> api.requests[s].path, duel |-> duel[api.requests[s].path]]
    <3>1. api' = Answer(api, s, a) /\ api.requests[s].stage = "sent" /\ sel' = sel
      BY <1>6 DEF ServeDetail
    <3>2. a.id = api.requests[s].path
      OBVIOUS
    <3> HIDE DEF a
    <3>3. QED
      BY <3>1, <3>2, AnsweredRequests DEF Shape
  <2>2. QED
    BY <1>6, <2>1 DEF ServeDetail, Shape, OneDuelInArena
<1>7. ASSUME NEW s \in Slots, DetailArrives(s)
      PROVE  Inv'
  <2>1. IsHook(api)' /\ RequestsOf(api, sel)'
    BY <1>7, ResolvedRequests, UnreadRequests DEF DetailArrives, Shape
  <2>2. live'.id = sel /\ live'.parts = {sel} /\ DOMAIN live' = {"id", "duel", "parts"}
    BY <1>7 DEF DetailArrives, RequestsOf
  <2>3. QED
    BY <1>7, <2>1, <2>2 DEF DetailArrives, Shape, OneDuelInArena
<1>8. ASSUME NEW s \in Slots, DetailFails(s)
      PROVE  Inv'
  <2>1. IsHook(api)' /\ RequestsOf(api, sel)'
    BY <1>8, ResolvedRequests, UnreadRequests DEF DetailFails, Shape
  <2>2. QED
    BY <1>8, <2>1 DEF DetailFails, Shape, OneDuelInArena
<1>9. ASSUME \/ AskList \/ Engine \/ UNCHANGED vars
             \/ \E d \in Duels : Create(d) \/ EventLost(d)
             \/ \E s \in ListSlots : ServeList(s) \/ ListFails(s)
      PROVE  UNCHANGED <<sel, api, sse, live, seeded>>
  BY <1>9 DEF AskList, Engine, Create, EventLost, ServeList, ListFails, vars, screen
<1>10. QED
  BY <1>1, <1>2, <1>3, <1>4, <1>5, <1>6, <1>7, <1>8, <1>9 DEF Next

\* Once a detail of the selected duel has arrived, the tab shows that duel and
\* no part of another (ArenaDashboard.tsx 34-75), although answers come late
\* and out of order: useApi drops those to the requests of an earlier effect.
THEOREM NeverTwoDuels == Spec => []OneDuelInArena
<1>1. Inv => OneDuelInArena
  BY DEF Inv
<1>2. QED
  BY <1>1, InvInit, InvStep, PTL DEF Spec

=============================================================================
