------------------------------ MODULE HooksProofs ------------------------------
(***************************************************************************)
(* What the operators of useApi do to the requests of a hook: the facts    *)
(* the proofs about the components rest on.                                *)
(***************************************************************************)
EXTENDS Hooks, TLAPS

\* The state of useApi has its fields, whatever these hold.
IsHook(h) ==
  /\ DOMAIN h = {"data", "error", "loading", "requests"}
  /\ DOMAIN h.requests = Slots
  /\ \A s \in Slots : DOMAIN h.requests[s] = {"stage", "path", "answer"}

\* The requests of a hook are about one duel.
RequestsOf(h, d) ==
  \A s \in Slots :
    /\ h.requests[s].stage # "idle" => h.requests[s].path = d
    /\ h.requests[s].stage = "answered" => h.requests[s].answer.id = d

\* What is on its way after a fetch: what was, and the new request.
NewRequest(r, d) == d # None /\ r = [stage |-> "sent", path |-> d, answer |-> None]

\* A fetch adds one request, for the path it is given, and changes no more
\* than loading.
LEMMA WrappedLoadEach ==
  ASSUME NEW h, NEW d, IsHook(h)
  PROVE  /\ IsHook(WrappedLoad(h, d))
         /\ WrappedLoad(h, d).error = h.error /\ WrappedLoad(h, d).data = h.data
         /\ \A s \in Slots : \/ WrappedLoad(h, d).requests[s] = h.requests[s]
                             \/ NewRequest(WrappedLoad(h, d).requests[s], d)
<1>1. CASE d = None
  BY <1>1 DEF WrappedLoad
<1>2. CASE d # None
  <2> DEFINE free == CHOOSE t \in Slots : h.requests[t].stage = "idle"
             new  == [stage |-> "sent", path |-> d, answer |-> None]
  <2>1. /\ WrappedLoad(h, d).requests = [h.requests EXCEPT ![free] = new]
        /\ DOMAIN WrappedLoad(h, d) = DOMAIN h
        /\ WrappedLoad(h, d).error = h.error /\ WrappedLoad(h, d).data = h.data
    BY <1>2 DEF WrappedLoad, IsHook
  <2> HIDE DEF free
  <2>2. QED
    BY <1>2, <2>1 DEF IsHook, NewRequest
<1>3. QED
  BY <1>1, <1>2

\* Requests about one duel stay so.
LEMMA WrappedLoadRequests ==
  ASSUME NEW h, NEW d, IsHook(h), RequestsOf(h, d)
  PROVE  RequestsOf(WrappedLoad(h, d), d)
<1>1. \A s \in Slots : \/ WrappedLoad(h, d).requests[s] = h.requests[s]
                      \/ NewRequest(WrappedLoad(h, d).requests[s], d)
  BY WrappedLoadEach
<1>2. QED
  BY <1>1 DEF RequestsOf, NewRequest

\* A hook with nothing on its way has at most one request after a fetch.
LEMMA WrappedLoadOne ==
  ASSUME NEW h, NEW d, IsHook(h), \A s \in Slots : h.requests[s].stage = "idle"
  PROVE  \A s, t \in InFlight(WrappedLoad(h, d)) : s = t
<1>1. CASE d = None
  BY <1>1 DEF WrappedLoad, InFlight
<1>2. CASE d # None
  <2> DEFINE free == CHOOSE t \in Slots : h.requests[t].stage = "idle"
             new  == [stage |-> "sent", path |-> d, answer |-> None]
  <2>1. WrappedLoad(h, d).requests = [h.requests EXCEPT ![free] = new]
    BY <1>2 DEF WrappedLoad, IsHook
  <2> HIDE DEF free
  <2>2. QED
    BY <2>1 DEF IsHook, InFlight
<1>3. QED
  BY <1>1, <1>2

\* The cleanup of the effect leaves none of the requests before.
LEMMA ReloadEach ==
  ASSUME NEW h, NEW d, IsHook(h)
  PROVE  /\ IsHook(Reload(h, d))
         /\ Reload(h, d).error = h.error /\ Reload(h, d).data = h.data
         /\ \A s \in Slots : \/ Reload(h, d).requests[s] = Idle
                             \/ NewRequest(Reload(h, d).requests[s], d)
<1>1. /\ DOMAIN Cleanup(h) = DOMAIN h /\ Cleanup(h).error = h.error
      /\ Cleanup(h).data = h.data /\ Cleanup(h).requests = [s \in Slots |-> Idle]
  BY DEF Cleanup, IsHook
<1>2. IsHook(Cleanup(h))
  BY <1>1 DEF IsHook, Idle
<1>3. QED
  BY <1>1, <1>2, WrappedLoadEach DEF Reload

LEMMA ReloadOne ==
  ASSUME NEW h, NEW d, IsHook(h)
  PROVE  \A s, t \in InFlight(Reload(h, d)) : s = t
<1>1. IsHook(Cleanup(h)) /\ \A s \in Slots : Cleanup(h).requests[s].stage = "idle"
  BY DEF Cleanup, IsHook, Idle
<1>2. QED
  BY <1>1, WrappedLoadOne DEF Reload

LEMMA ReloadRequests ==
  ASSUME NEW h, NEW d, IsHook(h)
  PROVE  RequestsOf(Reload(h, d), d)
<1>1. \A s \in Slots : \/ Reload(h, d).requests[s] = Idle
                      \/ NewRequest(Reload(h, d).requests[s], d)
  BY ReloadEach
<1>2. QED
  BY <1>1 DEF RequestsOf, NewRequest, Idle

\* With a path and a free connection, the effect has a request on its way.
LEMMA WrappedLoadPending ==
  ASSUME NEW h, NEW d, IsHook(h), d # None,
         \E s \in Slots : h.requests[s].stage = "idle"
  PROVE  Pending(WrappedLoad(h, d), d)
<1> DEFINE free == CHOOSE s \in Slots : h.requests[s].stage = "idle"
           new  == [stage |-> "sent", path |-> d, answer |-> None]
<1>1. free \in Slots
  OBVIOUS
<1>2. WrappedLoad(h, d).requests = [h.requests EXCEPT ![free] = new]
  BY DEF WrappedLoad, IsHook
<1> HIDE DEF free
<1>3. WrappedLoad(h, d).requests[free] = new
  BY <1>1, <1>2 DEF IsHook
<1>4. QED
  BY <1>1, <1>3 DEF Pending, InFlight

LEMMA ReloadPending ==
  ASSUME NEW h, NEW d, IsHook(h), d # None, Slots # {}
  PROVE  Pending(Reload(h, d), d)
<1>1. IsHook(Cleanup(h)) /\ \A s \in Slots : Cleanup(h).requests[s].stage = "idle"
  BY DEF Cleanup, IsHook, Idle
<1>2. QED
  BY <1>1, WrappedLoadPending DEF Reload

\* The requests stay when data, error and loading are forgotten.
LEMMA UnreadRequests ==
  ASSUME NEW h, NEW d, IsHook(h), RequestsOf(h, d)
  PROVE  IsHook(Unread(h)) /\ RequestsOf(Unread(h), d)
<1>1. DOMAIN Unread(h) = DOMAIN h /\ Unread(h).requests = h.requests
  BY DEF Unread, Mounted, IsHook
<1>2. QED
  BY <1>1 DEF IsHook, RequestsOf

\* A request that has been answered, or is over, is about the same duel.
LEMMA AnsweredRequests ==
  ASSUME NEW h, NEW d, NEW s \in Slots, NEW a, IsHook(h), RequestsOf(h, d),
         h.requests[s].stage # "idle", a.id = h.requests[s].path
  PROVE  /\ IsHook(Answer(h, s, a)) /\ RequestsOf(Answer(h, s, a), d)
         /\ Answer(h, s, a).error = h.error
         /\ \A e : Pending(h, e) => Pending(Answer(h, s, a), e)
<1>1. /\ DOMAIN Answer(h, s, a) = DOMAIN h /\ Answer(h, s, a).error = h.error
      /\ Answer(h, s, a).requests =
           [h.requests EXCEPT ![s] = [@ EXCEPT !.stage = "answered", !.answer = a]]
  BY DEF Answer, IsHook
<1>2. IsHook(Answer(h, s, a)) /\ RequestsOf(Answer(h, s, a), d)
  BY <1>1 DEF IsHook, RequestsOf
<1>3. \A r \in Slots : /\ Answer(h, s, a).requests[r].path = h.requests[r].path
                       /\ h.requests[r].stage # "idle" => Answer(h, s, a).requests[r].stage # "idle"
  BY <1>1 DEF IsHook
<1>4. QED
  BY <1>1, <1>2, <1>3 DEF Pending, InFlight

LEMMA ResolvedRequests ==
  ASSUME NEW h, NEW d, NEW s \in Slots, IsHook(h), RequestsOf(h, d)
  PROVE  /\ IsHook(Resolve(h, s)) /\ RequestsOf(Resolve(h, s), d)
         /\ IsHook(Reject(h, s)) /\ RequestsOf(Reject(h, s), d)
         /\ Reject(h, s).error
<1>1. /\ DOMAIN Resolve(h, s) = DOMAIN h /\ DOMAIN Reject(h, s) = DOMAIN h
      /\ Reject(h, s).error
      /\ Resolve(h, s).requests = [h.requests EXCEPT ![s] = Idle]
      /\ Reject(h, s).requests = [h.requests EXCEPT ![s] = Idle]
  BY DEF Resolve, Reject, IsHook
<1>2. QED
  BY <1>1 DEF IsHook, RequestsOf, Idle

\* What the operators of the two hooks give is a state of the hook again.
LEMMA WrappedLoadTyped ==
  ASSUME NEW P, NEW A, NEW h \in ApiStates(P, A), NEW d \in P \cup {None}
  PROVE  WrappedLoad(h, d) \in ApiStates(P, A)
<1>1. CASE d = None
  BY <1>1 DEF WrappedLoad
<1>2. CASE d # None
  <2> DEFINE free == CHOOSE t \in Slots : h.requests[t].stage = "idle"
             new  == [stage |-> "sent", path |-> d, answer |-> None]
             r    == [h.requests EXCEPT ![free] = new]
  <2>1. WrappedLoad(h, d) = [h EXCEPT !.loading = TRUE, !.requests = r]
    BY <1>2 DEF WrappedLoad
  <2>2. r \in [Slots -> Requests(P, A)]
    BY DEF ApiStates, Requests
  <2> HIDE DEF r
  <2>3. QED
    BY <2>1, <2>2 DEF ApiStates
<1>3. QED
  BY <1>1, <1>2

LEMMA ReloadTyped ==
  ASSUME NEW P, NEW A, NEW h \in ApiStates(P, A), NEW d \in P \cup {None}
  PROVE  Reload(h, d) \in ApiStates(P, A)
<1>1. Cleanup(h) \in ApiStates(P, A)
  BY DEF Cleanup, Idle, ApiStates, Requests
<1>2. QED
  BY <1>1, WrappedLoadTyped DEF Reload

LEMMA OverTyped ==
  ASSUME NEW P, NEW A, NEW h \in ApiStates(P, A), NEW s \in Slots
  PROVE  Resolve(h, s) \in ApiStates(P, A) /\ Reject(h, s) \in ApiStates(P, A)
<1> DEFINE r == [h.requests EXCEPT ![s] = Idle]
<1>1. r \in [Slots -> Requests(P, A)]
  BY DEF ApiStates, Requests, Idle
<1>2. /\ Reject(h, s) = [h EXCEPT !.error = TRUE, !.loading = FALSE, !.requests = r]
      /\ Resolve(h, s) = [h EXCEPT !.data = h.requests[s].answer, !.loading = FALSE, !.requests = r]
  BY DEF Reject, Resolve
<1> HIDE DEF r
<1>3. h.requests[s].answer \in A \cup {None}
  BY DEF ApiStates, Requests
<1>4. QED
  BY <1>1, <1>2, <1>3 DEF ApiStates

LEMMA AnswerTyped ==
  ASSUME NEW P, NEW A, NEW h \in ApiStates(P, A), NEW s \in Slots, NEW a \in A
  PROVE  Answer(h, s, a) \in ApiStates(P, A)
<1> DEFINE q == [h.requests EXCEPT ![s] = [@ EXCEPT !.stage = "answered", !.answer = a]]
<1>1. q \in [Slots -> Requests(P, A)]
  BY DEF ApiStates, Requests
<1>2. Answer(h, s, a) = [h EXCEPT !.requests = q]
  BY DEF Answer
<1> HIDE DEF q
<1>3. QED
  BY <1>1, <1>2 DEF ApiStates

LEMMA StreamTyped ==
  ASSUME NEW U, NEW E, NEW es \in StreamStates(U, E)
  PROVE  /\ \A d \in U \cup {None} : Connect(es, d) \in StreamStates(U, E)
         /\ \A e \in E : OnMessage(es, e) \in StreamStates(U, E)
         /\ Rendered(es) \in StreamStates(U, E)
  BY DEF StreamStates, Connect, OnMessage, Rendered

LEMMA FirstTyped ==
  ASSUME NEW P, NEW A
  PROVE  Mounted \in ApiStates(P, A) /\ Closed \in StreamStates(P, A)
  BY DEF Mounted, Idle, ApiStates, Requests, Closed, StreamStates

\* What the operators of useSSE do to the fields.
LEMMA StreamFields ==
  ASSUME NEW es, DOMAIN es = {"url", "latest", "fresh", "connected"}, NEW e
  PROVE  /\ DOMAIN OnOpen(es) = DOMAIN es /\ OnOpen(es).fresh = es.fresh
         /\ OnOpen(es).latest = es.latest
         /\ DOMAIN OnError(es) = DOMAIN es /\ OnError(es).fresh = es.fresh
         /\ OnError(es).latest = es.latest
         /\ DOMAIN OnMessage(es, e) = DOMAIN es /\ OnMessage(es, e).fresh
         /\ OnMessage(es, e).latest = e
         /\ DOMAIN Rendered(es) = DOMAIN es /\ ~Rendered(es).fresh
  BY DEF OnOpen, OnError, OnMessage, Rendered

\* What is on its way once a request is answered, or over.
LEMMA RequestServed ==
  ASSUME NEW h, NEW s \in Slots, NEW a, IsHook(h), h.requests[s].stage # "idle"
  PROVE  /\ IsHook(Answer(h, s, a)) /\ InFlight(Answer(h, s, a)) = InFlight(h)
         /\ \A r \in Slots \ {s} : Answer(h, s, a).requests[r] = h.requests[r]
         /\ Answer(h, s, a).requests[s].answer = a
         /\ Answer(h, s, a).requests[s].path = h.requests[s].path
         /\ Answer(h, s, a).loading = h.loading /\ Answer(h, s, a).error = h.error
         /\ Answer(h, s, a).data = h.data
<1>1. /\ DOMAIN Answer(h, s, a) = DOMAIN h /\ Answer(h, s, a).loading = h.loading
      /\ Answer(h, s, a).error = h.error /\ Answer(h, s, a).data = h.data
      /\ Answer(h, s, a).requests =
           [h.requests EXCEPT ![s] = [@ EXCEPT !.stage = "answered", !.answer = a]]
  BY DEF Answer, IsHook
<1>2. IsHook(Answer(h, s, a))
  BY <1>1 DEF IsHook
<1>3. /\ \A r \in Slots \ {s} : Answer(h, s, a).requests[r] = h.requests[r]
      /\ Answer(h, s, a).requests[s].answer = a
      /\ Answer(h, s, a).requests[s].path = h.requests[s].path
      /\ Answer(h, s, a).requests[s].stage = "answered"
  BY <1>1 DEF IsHook
<1>4. InFlight(Answer(h, s, a)) = InFlight(h)
  BY <1>3 DEF InFlight
<1>5. QED
  BY <1>1, <1>2, <1>3, <1>4

LEMMA RequestOver ==
  ASSUME NEW h, NEW s \in Slots, IsHook(h)
  PROVE  /\ IsHook(Resolve(h, s)) /\ InFlight(Resolve(h, s)) = InFlight(h) \ {s}
         /\ \A r \in Slots \ {s} : Resolve(h, s).requests[r] = h.requests[r]
         /\ Resolve(h, s).requests[s] = Idle
         /\ Resolve(h, s).data = h.requests[s].answer
         /\ ~Resolve(h, s).loading /\ Resolve(h, s).error = h.error
         /\ IsHook(Reject(h, s)) /\ InFlight(Reject(h, s)) = InFlight(h) \ {s}
         /\ \A r \in Slots \ {s} : Reject(h, s).requests[r] = h.requests[r]
         /\ Reject(h, s).requests[s] = Idle
         /\ Reject(h, s).error
<1>1. /\ DOMAIN Resolve(h, s) = DOMAIN h /\ DOMAIN Reject(h, s) = DOMAIN h
      /\ Resolve(h, s).data = h.requests[s].answer
      /\ ~Resolve(h, s).loading /\ Resolve(h, s).error = h.error /\ Reject(h, s).error
      /\ Resolve(h, s).requests = [h.requests EXCEPT ![s] = Idle]
      /\ Reject(h, s).requests = [h.requests EXCEPT ![s] = Idle]
  BY DEF Resolve, Reject, IsHook
<1>2. /\ IsHook(Resolve(h, s)) /\ IsHook(Reject(h, s))
      /\ \A r \in Slots \ {s} : Resolve(h, s).requests[r] = h.requests[r]
      /\ \A r \in Slots \ {s} : Reject(h, s).requests[r] = h.requests[r]
      /\ Resolve(h, s).requests[s] = Idle /\ Reject(h, s).requests[s] = Idle
  BY <1>1 DEF IsHook, Idle
<1>3. /\ InFlight(Resolve(h, s)) = InFlight(h) \ {s}
      /\ InFlight(Reject(h, s)) = InFlight(h) \ {s}
  BY <1>2 DEF InFlight, Idle
<1>4. QED
  BY <1>1, <1>2, <1>3

\* A hook that has just mounted has nothing on its way.
LEMMA MountedIdle ==
  /\ IsHook(Mounted) /\ InFlight(Mounted) = {}
  /\ \A s \in Slots : Mounted.requests[s].stage = "idle"
  /\ Mounted.loading /\ ~Mounted.error
BY DEF IsHook, InFlight, Mounted, Idle

=============================================================================
