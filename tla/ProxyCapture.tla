----------------------------- MODULE ProxyCapture -----------------------------
(***************************************************************************)
(* The LLM proxy of one rollout (go/pkg/proxy/proxy.go): the chat          *)
(* completion requests of its agent, each handled by a goroutine of its    *)
(* own, the rollout's token budget and its trajectory, next to the end of  *)
(* the rollout's generation in runLifecycle (go/pkg/server/server.go).     *)
(*                                                                         *)
(* A request goes through its goroutine in the steps between which another *)
(* goroutine can intervene. The agent may have the whole reply as soon as  *)
(* it is written: chunks are flushed one by one and large bodies pass the  *)
(* server's buffers, so the handler need not have returned.                *)
(***************************************************************************)
EXTENDS Integers, Sequences, FiniteSets, Functions

CONSTANTS
  Requests,     \* the agent's chat completion calls
  BudgetLimit,  \* SamplingConfig.MaxTokensBudget, 0 for none
  MaxUse        \* bound: most tokens one call is charged

ASSUME BudgetAssumption == BudgetLimit \in Nat /\ MaxUse \in Nat
ASSUME RequestsAssumption == IsFiniteSet(Requests)

VARIABLES
  registered, \* the token is in Proxy.rollouts
  listening,  \* the ProxyServer and its connections are open
  phase,      \* where runLifecycle is
  usage,      \* RolloutState.Usage, prompt and completion tokens together
  pc,         \* where the goroutine of each request is
  tokens,     \* the usage its handler has extracted
  cut,        \* requests whose stream broke off
  got,        \* what the agent has received for it
  log,        \* the rollout's trajectory
  sent,       \* history: the requests in the order the agent made them
  orderly     \* history: it has made them one after the other on one connection
              \* and has given none up

net  == <<registered, listening, phase>>
told == <<sent, orderly>>
vars == <<net, usage, pc, tokens, cut, got, log, told>>

Phases == {"generating", "unregister", "close", "finalize", "mark", "terminal"}
Active == {"lookup", "check", "forward", "copyBody", "copyStream", "record", "account"}
Pcs    == {"unsent", "served"} \cup Active

TypeOK ==
  /\ registered \in BOOLEAN /\ listening \in BOOLEAN
  /\ phase \in Phases
  /\ usage \in Nat
  /\ pc \in [Requests -> Pcs]
  /\ tokens \in [Requests -> 0..MaxUse]
  /\ got \in [Requests -> {"nothing", "reply", "error"}]
  /\ cut \subseteq Requests
  /\ log \in Seq(Requests)
  /\ sent \in Seq(Requests)
  /\ orderly \in BOOLEAN

Init ==
  /\ registered = TRUE /\ listening = TRUE
  /\ phase = "generating"
  /\ usage = 0
  /\ pc = [r \in Requests |-> "unsent"]
  /\ tokens = [r \in Requests |-> 0]
  /\ cut = {} /\ got = [r \in Requests |-> "nothing"]
  /\ log = <<>> /\ sent = <<>> /\ orderly = TRUE

-----------------------------------------------------------------------------
(* The agent and its connections.                                          *)

\* Mutant: the connection takes its next request before the step is recorded.
RunningUntilReply(r) == pc[r] \in Active \ {"record", "account"}

\* The handler of r runs. As long as it does, net/http takes no further
\* request from the connection.
Running(r) == pc[r] \in Active

Awaited(r) == pc[r] # "unsent" /\ got[r] = "nothing"

\* The agent has the answer to its last call, on the connection that is now
\* free for the next one, or knows that it has been dropped.
InTurn ==
  /\ \A q \in Requests : ~Awaited(q)
  /\ \A q \in Requests : Running(q) => got[q] = "error"

\* A new call reaches its handler: the next one in turn, or one that an agent
\* makes meanwhile on a connection of its own.
Send(r) ==
  /\ listening
  /\ pc[r] = "unsent"
  /\ orderly' = (orderly /\ InTurn)
  /\ pc' = [pc EXCEPT ![r] = "lookup"]
  /\ sent' = Append(sent, r)
  /\ UNCHANGED <<net, usage, tokens, cut, got, log>>

\* The agent has all of a reply that has been written to the connection; the
\* end of a broken stream it only sees when the handler returns.
Receive(r) ==
  /\ listening
  /\ Awaited(r)
  /\ pc[r] = "served" \/ (pc[r] \in {"record", "account"} /\ r \notin cut)
  /\ got' = [got EXCEPT ![r] = "reply"]
  /\ UNCHANGED <<net, usage, pc, tokens, cut, log, told>>

\* The agent times out; the context of the request is cancelled.
GiveUp(r) ==
  /\ Awaited(r)
  /\ got' = [got EXCEPT ![r] = "error"]
  /\ orderly' = FALSE
  /\ UNCHANGED <<net, usage, pc, tokens, cut, log, sent>>

-----------------------------------------------------------------------------
(* ServeHTTP and handleChatCompletions.                                    *)

Goto(r, from, to) == pc[r] = from /\ pc' = [pc EXCEPT ![r] = to]

\* An error response ends the handler.
Refuse(r, from) ==
  /\ Goto(r, from, "served")
  /\ got' = [got EXCEPT ![r] = "error"]

\* getRollout: 401 for a token that is no longer registered.
GetRollout(r) ==
  /\ \/ registered /\ Goto(r, "lookup", "check") /\ UNCHANGED got
     \/ ~registered /\ Refuse(r, "lookup")
  /\ UNCHANGED <<net, usage, tokens, cut, log, told>>

\* Mutant: the last token of the budget may be overdrawn.
OverBudgetLax == BudgetLimit > 0 /\ usage > BudgetLimit

OverBudget == BudgetLimit > 0 /\ usage >= BudgetLimit

\* 429 for a rollout whose accounted usage has reached the limit.
CheckBudget(r) ==
  /\ \/ ~OverBudget /\ Goto(r, "check", "forward") /\ UNCHANGED got
     \/ OverBudget /\ Refuse(r, "check")
  /\ UNCHANGED <<net, usage, tokens, cut, log, told>>

\* client.Do: the backend is unreachable, slow, or the request is cancelled.
BackendFails(r) ==
  /\ Refuse(r, "forward")
  /\ UNCHANGED <<net, usage, tokens, cut, log, told>>

\* The backend generates and answers; its status code is not looked at.
BackendAnswers(r) ==
  /\ \E to \in {"copyBody", "copyStream"} : Goto(r, "forward", to)
  /\ \E n \in 0..MaxUse : tokens' = [tokens EXCEPT ![r] = n]
  /\ UNCHANGED <<net, usage, cut, got, log, told>>

\* nonStreamResponse and streamResponse write the reply to the agent.
CopyReply(r) ==
  /\ \E from \in {"copyBody", "copyStream"} : Goto(r, from, "record")
  /\ UNCHANGED <<net, usage, tokens, cut, got, log, told>>

\* Reading the body fails: nothing is recorded.
BodyLost(r) ==
  /\ Refuse(r, "copyBody")
  /\ UNCHANGED <<net, usage, tokens, cut, log, told>>

\* A stream that breaks off is recorded as far as it came; its usage is in
\* the last chunk, which is missing.
StreamCut(r) ==
  /\ Goto(r, "copyStream", "record")
  /\ tokens' = [tokens EXCEPT ![r] = 0]
  /\ cut' = cut \cup {r}
  /\ UNCHANGED <<net, usage, got, log, told>>

\* Mutant: a rollout that is no longer registered is not recorded.
AppendStepIfRegistered(r) == log' = IF registered THEN Append(log, r) ELSE log

AppendStep(r) == log' = Append(log, r)

\* recordStep, for the rollout found when the request came in.
RecordStep(r) ==
  /\ Goto(r, "record", IF BudgetLimit > 0 THEN "account" ELSE "served")
  /\ AppendStep(r)
  /\ UNCHANGED <<net, usage, tokens, cut, got, told>>

\* Mutant: usage is replaced by, not increased by, what the call used.
AddUsageReplaces(n) == usage' = n

\* Mutant: usage counts down.
AddUsageCountsDown(n) == usage' = usage - n

\* addUsage, under p.mu; the usage of a rollout that has gone is dropped.
AddUsage(n) == usage' = IF registered THEN usage + n ELSE usage

Account(r) ==
  /\ Goto(r, "account", "served")
  /\ AddUsage(tokens[r])
  /\ UNCHANGED <<net, tokens, cut, got, log, told>>

-----------------------------------------------------------------------------
(* The end of the generation, as runLifecycle carries it out.              *)

\* The wait ends because the agent is done or because time is up.
EndGeneration ==
  /\ phase = "generating" /\ phase' = "unregister"
  /\ UNCHANGED <<registered, listening, usage, pc, tokens, cut, got, log, told>>

UnregisterRollout ==
  /\ phase = "unregister" /\ phase' = "close"
  /\ registered' = FALSE
  /\ UNCHANGED <<listening, usage, pc, tokens, cut, got, log, told>>

\* http.Server.Close drops the connections; whoever waits on one sees an error.
CloseProxyServer ==
  /\ phase = "close" /\ phase' = "finalize"
  /\ listening' = FALSE
  /\ got' = [r \in Requests |-> IF Awaited(r) THEN "error" ELSE got[r]]
  /\ UNCHANGED <<registered, usage, pc, tokens, cut, log, told>>

\* Flushing and closing the trajectory file loses and adds no step.
Finalize ==
  /\ phase = "finalize" /\ phase' = "mark"
  /\ UNCHANGED <<registered, listening, usage, pc, tokens, cut, got, log, told>>

MarkTerminal ==
  /\ phase = "mark" /\ phase' = "terminal"
  /\ UNCHANGED <<registered, listening, usage, pc, tokens, cut, got, log, told>>

-----------------------------------------------------------------------------
Agent(r) == Send(r) \/ Receive(r) \/ GiveUp(r)

Handler(r) ==
  \/ GetRollout(r) \/ CheckBudget(r)
  \/ BackendFails(r) \/ BackendAnswers(r)
  \/ CopyReply(r) \/ BodyLost(r) \/ StreamCut(r)
  \/ RecordStep(r) \/ Account(r)

Lifecycle ==
  EndGeneration \/ UnregisterRollout \/ CloseProxyServer \/ Finalize \/ MarkTerminal

Next == Lifecycle \/ \E r \in Requests : Agent(r) \/ Handler(r)

Spec == Init /\ [][Next]_vars

\* The goroutine of a request runs on; the backend call has a timeout.
FairSpec == Spec /\ \A r \in Requests : WF_vars(Handler(r))

-----------------------------------------------------------------------------
(* Properties.                                                             *)

\* The tokens of some requests, one by one, and how many they are.
TokensOf(S) == {t \in S \X (1..MaxUse) : t[2] <= tokens[t[1]]}

SumTokens(S) == Cardinality(TokensOf(S))

Recorded == Range(log)

\* While the rollout is registered its usage is exactly what its trajectory
\* shows, but for the steps about to be charged: no call is charged twice,
\* and none of several concurrent calls is lost.
UsageMatchesTrajectory ==
  registered /\ BudgetLimit > 0 =>
    usage = SumTokens({r \in Recorded : pc[r] # "account"})

\* An orderly agent overdraws its budget by less than one call: each call is
\* charged before the next one is admitted.
OvershootBounded ==
  orderly /\ BudgetLimit > 0 => usage < BudgetLimit + MaxUse

\* The trajectory tells the conversation of an orderly agent in its order,
\* and no call appears in it twice.
ConversationOrder ==
  orderly =>
    \A i, j \in 1..Len(log) : i < j =>
      \E m, n \in 1..Len(sent) : m < n /\ sent[m] = log[i] /\ sent[n] = log[j]

\* What the agent has been told is in the trajectory in the end, also when
\* the rollout ends before its handler does.
RepliesCaptured ==
  \A r \in Requests : got[r] = "reply" ~> r \in Recorded

=============================================================================
