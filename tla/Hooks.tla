-------------------------------- MODULE Hooks --------------------------------
(***************************************************************************)
(* The hooks of the Code Colosseum dashboard, useApi and useSSE            *)
(* (dashboard/src/hooks), as operators from the state of a hook to its     *)
(* next state; the components that use them have a variable for each.      *)
(*                                                                         *)
(* React runs an effect in the render that follows a change of what the    *)
(* effect depends on. What is queued between two renders, React puts into  *)
(* the second of them, so a change that nothing reads before the next      *)
(* render can be taken to happen at once.                                  *)
(***************************************************************************)
EXTENDS Null

CONSTANT Slots  \* bound: connections, so the requests of a hook that are in flight

-----------------------------------------------------------------------------
(* useApi: one fetch when the effect runs, another at every tick of the    *)
(* poll interval, each answered in its own time. The function load         *)
(* (refetch) is left out: no component calls it.                           *)

Idle == [stage |-> "idle", path |-> None, answer |-> None]

\* A component is mounted: the initial values of the three useState.
Mounted ==
  [data |-> None, error |-> FALSE, loading |-> TRUE,
   requests |-> [s \in Slots |-> Idle]]

InFlight(h) == {s \in Slots : h.requests[s].stage # "idle"}

MayFetch(h) == InFlight(h) # Slots

\* wrappedLoad: nothing is fetched without a path, and loading stays as it is.
WrappedLoad(h, path) ==
  IF path = None THEN h
  ELSE LET free == CHOOSE s \in Slots : h.requests[s].stage = "idle"
       IN  [h EXCEPT !.loading = TRUE,
                     !.requests[free] = [stage |-> "sent", path |-> path, answer |-> None]]

\* Mutant: the cleanup forgets the flag.
CleanupForgetful(h) == h

\* The cleanup of the effect sets cancelled. The answers of its requests still
\* arrive, but change nothing: from here on they need not be followed.
Cleanup(h) == [h EXCEPT !.requests = [s \in Slots |-> Idle]]

\* The dependencies of the effect have changed.
Reload(h, path) == WrappedLoad(Cleanup(h), path)

\* The server answers a request with what it knows at that moment.
Answer(h, s, answer) ==
  [h EXCEPT !.requests[s] = [@ EXCEPT !.stage = "answered", !.answer = answer]]

\* then and finally. The error of an earlier request stays.
Resolve(h, s) ==
  [h EXCEPT !.data = h.requests[s].answer, !.loading = FALSE, !.requests[s] = Idle]

\* Mutant: without the finally.
RejectBusy(h, s) == [h EXCEPT !.error = TRUE, !.requests[s] = Idle]

\* catch and finally: a status other than 2xx, or no answer at all.
Reject(h, s) == [h EXCEPT !.error = TRUE, !.loading = FALSE, !.requests[s] = Idle]

\* For a component that looks at neither error nor loading, and at data only
\* in the effect that follows its arrival.
Unread(h) == [Mounted EXCEPT !.requests = h.requests]

\* A request for this path that has no answer yet.
Pending(h, path) == \E s \in InFlight(h) : h.requests[s].path = path

Requests(Paths, Answers) ==
  [stage: {"idle", "sent", "answered"}, path: Paths \cup {None},
   answer: Answers \cup {None}]

ApiStates(Paths, Answers) ==
  [data: Answers \cup {None}, error: BOOLEAN, loading: BOOLEAN,
   requests: [Slots -> Requests(Paths, Answers)]]

-----------------------------------------------------------------------------
(* useSSE. Every component that uses it looks at the last element of the   *)
(* list events only, in an effect that runs in the render after a change.  *)
(* So the list is modelled by its last element and by whether it has       *)
(* changed since the last render: an element that is followed by another   *)
(* before the render is never looked at.                                   *)

Closed == [url |-> None, latest |-> None, fresh |-> FALSE, connected |-> FALSE]

\* The effect on [url]: close the old EventSource, empty the list, open a new
\* one. connected is not reset. An element that has come is looked at in the
\* render of the change at the latest, with the state of the url before: who
\* connects anew has rendered what was fresh.
Connect(es, url) == [es EXCEPT !.url = url, !.latest = None, !.fresh = FALSE]

OnOpen(es) == [es EXCEPT !.connected = TRUE]

OnMessage(es, event) == [es EXCEPT !.latest = event, !.fresh = TRUE]

\* The connection breaks; the browser opens it again by itself.
OnError(es) == [es EXCEPT !.connected = FALSE]

\* The component has been rendered and its effect on [events] has run.
Rendered(es) == [es EXCEPT !.latest = None, !.fresh = FALSE]

StreamStates(Urls, Events) ==
  [url: Urls \cup {None}, latest: Events \cup {None}, fresh: BOOLEAN,
   connected: BOOLEAN]

=============================================================================
