-------------------------- MODULE ProxyCaptureProofs --------------------------
(***************************************************************************)
(* Theorems about ProxyCapture, for every set of requests, every budget    *)
(* and every charge.                                                       *)
(***************************************************************************)
EXTENDS ProxyCapture, FiniteSetTheorems, TLAPS

\* The goroutine is past its budget check and has not been charged.
Admitted == {"forward", "copyBody", "copyStream", "record", "account"}

\* An orderly agent has one handler running at a time, and sees an error only
\* when there is none any more or when its connection is gone.
OneHandler ==
  orderly =>
    /\ \A r \in Requests : pc[r] = "unsent" => got[r] = "nothing"
    /\ \A q, r \in Requests : Running(q) /\ Running(r) => q = r
    /\ listening => \A r \in Requests : Running(r) => got[r] # "error"

\* What was below its limit when the handler looked still is, because
\* charging is the last thing a handler does.
BudgetInv ==
  orderly /\ BudgetLimit > 0 =>
    /\ \A r \in Requests : pc[r] \in Admitted => usage < BudgetLimit
    /\ OvershootBounded

\* The handler that runs is that of the last request sent.
LatestRuns == \A r \in Requests : Running(r) => sent # <<>> /\ sent[Len(sent)] = r

\* No request is sent twice.
SentOnce ==
  /\ \A m, n \in 1..Len(sent) : m < n => sent[m] # sent[n]
  /\ \A m \in 1..Len(sent) : pc[sent[m]] # "unsent"

\* What is recorded has been sent and is not recorded again.
RecordedOnce ==
  /\ \A i \in 1..Len(log) : \E m \in 1..Len(sent) : sent[m] = log[i]
  /\ \A i \in 1..Len(log) : pc[log[i]] \in {"account", "served"}

\* ConversationOrder, for the agents it is about.
InOrder ==
  \A i, j \in 1..Len(log) : i < j =>
    \E m, n \in 1..Len(sent) : m < n /\ sent[m] = log[i] /\ sent[n] = log[j]

OrderInv == orderly => LatestRuns /\ SentOnce /\ RecordedOnce /\ InOrder

-----------------------------------------------------------------------------
\* Nothing has been sent, charged or recorded.
LEMMA TypeInit == Init => TypeOK
  BY BudgetAssumption DEF Init, TypeOK, Phases, Pcs, Active

\* Every step keeps every variable in its type.
LEMMA TypeStep == TypeOK /\ [Next]_vars => TypeOK'
<1> SUFFICES ASSUME TypeOK, [Next]_vars PROVE TypeOK'
  OBVIOUS
<1> USE BudgetAssumption DEF TypeOK, Phases, Pcs, Active, net, told
<1>1. ASSUME NEW r \in Requests, Agent(r)
      PROVE  TypeOK'
  <2>1. CASE Send(r)
    <3>1. orderly' = (orderly /\ InTurn)
      BY <2>1 DEF Send
    <3>2. orderly' \in BOOLEAN
      BY <3>1, Zenon
    <3>3. QED
      BY <2>1, <3>2 DEF Send
  <2>2. CASE Receive(r)
    BY <2>2 DEF Receive
  <2>3. CASE GiveUp(r)
    <3>1. orderly' = FALSE /\ orderly' \in BOOLEAN
      BY <2>3, Zenon DEF GiveUp
    <3>2. QED
      BY <2>3, <3>1 DEF GiveUp
  <2>4. QED
    BY <1>1, <2>1, <2>2, <2>3 DEF Agent
<1>2. ASSUME NEW r \in Requests, Handler(r)
      PROVE  TypeOK'
  <2> USE DEF Goto, Refuse
  <2>1. CASE GetRollout(r)
    BY <2>1 DEF GetRollout
  <2>2. CASE CheckBudget(r)
    BY <2>2 DEF CheckBudget
  <2>3. CASE BackendFails(r)
    BY <2>3 DEF BackendFails
  <2>4. CASE BackendAnswers(r)
    BY <2>4 DEF BackendAnswers
  <2>5. CASE CopyReply(r)
    BY <2>5 DEF CopyReply
  <2>6. CASE BodyLost(r)
    BY <2>6 DEF BodyLost
  <2>7. CASE StreamCut(r)
    BY <2>7 DEF StreamCut
  <2>8. CASE RecordStep(r)
    BY <2>8 DEF RecordStep, AppendStep
  <2>9. CASE Account(r)
    BY <2>9 DEF Account, AddUsage
  <2>10. QED
    BY <1>2, <2>1, <2>2, <2>3, <2>4, <2>5, <2>6, <2>7, <2>8, <2>9 DEF Handler
<1>3. CASE Lifecycle
  <2>1. CASE EndGeneration
    BY <2>1 DEF EndGeneration
  <2>2. CASE UnregisterRollout
    <3>1. registered' = FALSE /\ registered' \in BOOLEAN
      BY <2>2, Zenon DEF UnregisterRollout
    <3>2. QED
      BY <2>2, <3>1 DEF UnregisterRollout
  <2>3. CASE CloseProxyServer
    <3>1. listening' = FALSE /\ listening' \in BOOLEAN
      BY <2>3, Zenon DEF CloseProxyServer
    <3>2. QED
      BY <2>3, <3>1 DEF CloseProxyServer
  <2>4. CASE Finalize
    BY <2>4 DEF Finalize
  <2>5. CASE MarkTerminal
    BY <2>5 DEF MarkTerminal
  <2>6. QED
    BY <1>3, <2>1, <2>2, <2>3, <2>4, <2>5 DEF Lifecycle
<1>4. CASE UNCHANGED vars
  BY <1>4 DEF vars
<1>5. QED
  BY <1>1, <1>2, <1>3, <1>4 DEF Next

\* Usage never goes negative, a handler's charge is bounded and only calls of
\* the agent are recorded (proxy.go:157-171, 601-630).
THEOREM TypeCorrect == Spec => []TypeOK
  BY TypeInit, TypeStep, PTL DEF Spec

-----------------------------------------------------------------------------
\* What a step of a handler leaves alone: every other request, the agent's
\* record, and the network.
LEMMA HandlerShape ==
  ASSUME TypeOK, NEW r \in Requests, Handler(r)
  PROVE  /\ Running(r)
         /\ \A q \in Requests \ {r} : pc'[q] = pc[q] /\ got'[q] = got[q]
         /\ pc'[r] \in Active \cup {"served"}
         /\ pc'[r] \in Active => got'[r] = got[r]
         /\ UNCHANGED <<net, told>>
<1> USE DEF TypeOK, Phases, Pcs, Active, net, told, Running, Goto, Refuse
<1>1. CASE GetRollout(r)
  BY <1>1 DEF GetRollout
<1>2. CASE CheckBudget(r)
  BY <1>2 DEF CheckBudget
<1>3. CASE BackendFails(r)
  BY <1>3 DEF BackendFails
<1>4. CASE BackendAnswers(r)
  BY <1>4 DEF BackendAnswers
<1>5. CASE CopyReply(r)
  BY <1>5 DEF CopyReply
<1>6. CASE BodyLost(r)
  BY <1>6 DEF BodyLost
<1>7. CASE StreamCut(r)
  BY <1>7 DEF StreamCut
<1>8. CASE RecordStep(r)
  BY <1>8 DEF RecordStep
<1>9. CASE Account(r)
  BY <1>9 DEF Account
<1>10. QED
  BY <1>1, <1>2, <1>3, <1>4, <1>5, <1>6, <1>7, <1>8, <1>9 DEF Handler

\* An agent that is orderly after a step was so before; it made the call of
\* the step, if there was one, in its turn, and gave none up.
LEMMA OrderlyStep ==
  ASSUME [Next]_vars, orderly'
  PROVE  /\ orderly
         /\ \A r \in Requests : Send(r) => InTurn
         /\ \A r \in Requests : ~GiveUp(r)
<1>1. ASSUME NEW r \in Requests, Agent(r)
      PROVE  orderly /\ (Send(r) => InTurn) /\ ~GiveUp(r)
  BY <1>1 DEF Agent, Send, Receive, GiveUp, told
<1>2. ASSUME NEW r \in Requests
      PROVE  (Send(r) => orderly /\ InTurn) /\ ~GiveUp(r)
  BY DEF Send, GiveUp
<1>3. ASSUME NEW r \in Requests, Handler(r)
      PROVE  orderly
  BY <1>3 DEF Handler, GetRollout, CheckBudget, BackendFails, BackendAnswers, CopyReply,
     BodyLost, StreamCut, RecordStep, Account, told
<1>4. CASE Lifecycle
  BY <1>4, <1>2 DEF Lifecycle, EndGeneration, UnregisterRollout, CloseProxyServer, Finalize,
     MarkTerminal, told
<1>5. CASE UNCHANGED vars
  BY <1>5, <1>2 DEF vars, told
<1>6. QED
  BY <1>1, <1>2, <1>3, <1>4, <1>5 DEF Next

\* Every step preserves that one handler runs at a time.
LEMMA OneHandlerStep == TypeOK /\ OneHandler /\ [Next]_vars => OneHandler'
<1> SUFFICES ASSUME TypeOK, OneHandler, [Next]_vars, orderly' PROVE OneHandler'
  BY DEF OneHandler
<1>0. orderly /\ \A r \in Requests : (Send(r) => InTurn) /\ ~GiveUp(r)
  BY OrderlyStep
<1> USE <1>0 DEF OneHandler
<1>1. ASSUME NEW r \in Requests, Agent(r)
      PROVE  OneHandler'
  <2> USE DEF TypeOK, Pcs, Running, net
  <2>1. CASE Send(r)
    <3>1. \A q \in Requests : ~Running(q)
      BY <2>1 DEF Send, InTurn
    <3>2. \A q \in Requests : Running(q)' => q = r
      BY <2>1, <3>1 DEF Send
    <3>3. UNCHANGED <<net, got>> /\ got[r] = "nothing" /\ pc' = [pc EXCEPT ![r] = "lookup"]
      BY <2>1 DEF Send
    <3>4. QED
      BY <3>2, <3>3
  <2>2. CASE Receive(r)
    BY <2>2 DEF Receive, Awaited
  <2>3. QED
    BY <1>1, <2>1, <2>2 DEF Agent
<1>2. ASSUME NEW r \in Requests, Handler(r)
      PROVE  OneHandler'
  <2>1. \A q \in Requests : Running(q)' => Running(q) /\ got'[q] = got[q]
    BY <1>2, HandlerShape DEF Running
  <2>2. \A q \in Requests : pc'[q] = "unsent" => pc[q] = "unsent" /\ got'[q] = got[q]
    BY <1>2, HandlerShape DEF Running, Active
  <2>3. UNCHANGED net
    BY <1>2, HandlerShape
  <2>4. QED
    BY <2>1, <2>2, <2>3 DEF net
<1>3. CASE Lifecycle
  BY <1>3 DEF Lifecycle, EndGeneration, UnregisterRollout, CloseProxyServer, Finalize,
     MarkTerminal, Running, Awaited, TypeOK, net
<1>4. CASE UNCHANGED vars
  BY <1>4 DEF vars, net, Running
<1>5. QED
  BY <1>1, <1>2, <1>3, <1>4 DEF Next

\* Every step preserves that an admitted call was admitted below the limit:
\* usage grows only when the one handler that is admitted charges its call.
LEMMA BudgetStep == TypeOK /\ OneHandler /\ BudgetInv /\ [Next]_vars => BudgetInv'
<1> SUFFICES ASSUME TypeOK, OneHandler, BudgetInv, [Next]_vars, orderly', BudgetLimit > 0
             PROVE  BudgetInv'
  BY DEF BudgetInv
<1>0. orderly
  BY OrderlyStep
<1> USE <1>0, BudgetAssumption DEF BudgetInv, OvershootBounded, Admitted, TypeOK, Pcs
<1>1. ASSUME NEW r \in Requests, Agent(r)
      PROVE  BudgetInv'
  BY <1>1 DEF Agent, Send, Receive, GiveUp
<1>2. ASSUME NEW r \in Requests, Handler(r)
      PROVE  BudgetInv'
  <2> USE DEF Goto, Refuse
  <2>1. CASE GetRollout(r)
    BY <2>1 DEF GetRollout
  <2>2. CASE CheckBudget(r)
    BY <2>2 DEF CheckBudget, OverBudget
  <2>3. CASE BackendFails(r)
    BY <2>3 DEF BackendFails
  <2>4. CASE BackendAnswers(r)
    BY <2>4 DEF BackendAnswers
  <2>5. CASE CopyReply(r)
    BY <2>5 DEF CopyReply
  <2>6. CASE BodyLost(r)
    BY <2>6 DEF BodyLost
  <2>7. CASE StreamCut(r)
    BY <2>7 DEF StreamCut
  <2>8. CASE RecordStep(r)
    BY <2>8 DEF RecordStep
  <2>9. CASE Account(r)
    <3>1. usage < BudgetLimit
      BY <2>9 DEF Account
    <3>2. usage' = usage \/ usage' = usage + tokens[r]
      BY <2>9 DEF Account, AddUsage
    <3>3. tokens[r] \in 0..MaxUse
      OBVIOUS
    <3>4. usage' < BudgetLimit + MaxUse
      BY <3>1, <3>2, <3>3
    <3>5. \A q \in Requests : pc'[q] \notin Admitted
      BY <2>9 DEF Account, OneHandler, Running, Active
    <3>6. QED
      BY <3>4, <3>5
  <2>10. QED
    BY <1>2, <2>1, <2>2, <2>3, <2>4, <2>5, <2>6, <2>7, <2>8, <2>9 DEF Handler
<1>3. CASE Lifecycle
  BY <1>3 DEF Lifecycle, EndGeneration, UnregisterRollout, CloseProxyServer, Finalize,
     MarkTerminal, net
<1>4. CASE UNCHANGED vars
  BY <1>4 DEF vars
<1>5. QED
  BY <1>1, <1>2, <1>3, <1>4 DEF Next

\* The three invariants hold at first.
LEMMA HandlersInit == Init => OneHandler /\ BudgetInv /\ OrderInv
  BY BudgetAssumption DEF Init, OneHandler, BudgetInv, OvershootBounded, OrderInv,
     LatestRuns, SentOnce, RecordedOnce, InOrder, Running, Active, Admitted

\* An agent that makes its calls one by one on one connection overdraws its
\* budget by less than what one call uses (proxy.go:220-230, 332-338),
\* because the connection takes no call while an earlier one is uncharged.
THEOREM BudgetHolds == Spec => []OvershootBounded
<1>1. BudgetInv => OvershootBounded
  BY DEF BudgetInv, OvershootBounded
<1>2. QED
  BY <1>1, HandlersInit, OneHandlerStep, BudgetStep, TypeInit, TypeStep, PTL DEF Spec

\* The trajectory and the calls are sequences of requests.
LEMMA Sequences ==
  ASSUME TypeOK
  PROVE  /\ pc \in [Requests -> Pcs]
         /\ log \in Seq(Requests) /\ Len(log) \in Nat /\ DOMAIN log = 1..Len(log)
         /\ sent \in Seq(Requests) /\ Len(sent) \in Nat /\ DOMAIN sent = 1..Len(sent)
         /\ \A i \in 1..Len(log) : log[i] \in Requests
         /\ \A m \in 1..Len(sent) : sent[m] \in Requests
<1>1. pc \in [Requests -> Pcs] /\ log \in Seq(Requests) /\ sent \in Seq(Requests)
  BY DEF TypeOK
<1>2. QED
  BY <1>1

\* Every step preserves the order: a call is appended to the trajectory while
\* it is the last one sent and no earlier one can still be recorded.
LEMMA OrderStep == TypeOK /\ OneHandler /\ OrderInv /\ [Next]_vars => OrderInv'
<1> SUFFICES ASSUME TypeOK, OneHandler, OrderInv, [Next]_vars, orderly' PROVE OrderInv'
  BY DEF OrderInv
<1>0. orderly /\ LatestRuns /\ SentOnce /\ RecordedOnce /\ InOrder
  BY OrderlyStep DEF OrderInv
<1>1. ASSUME NEW r \in Requests, Send(r)
      PROVE  OrderInv'
  <2>1. /\ sent' = Append(sent, r) /\ UNCHANGED log
        /\ pc[r] = "unsent" /\ pc' = [pc EXCEPT ![r] = "lookup"]
    BY <1>1 DEF Send
  <2>2. /\ Len(sent') = Len(sent) + 1 /\ sent'[Len(sent) + 1] = r
        /\ \A m \in 1..Len(sent) : sent'[m] = sent[m]
    BY <2>1, Sequences
  <2>3. \A m \in 1..Len(sent) : sent[m] # r
    BY <2>1, <1>0, Sequences DEF SentOnce
  <2>4. \A i \in 1..Len(log) : log[i] # r
    BY <2>1, <1>0, Sequences DEF RecordedOnce
  <2>5. LatestRuns'
    <3>1. \A q \in Requests : ~Running(q)
      BY <1>0, <1>1, OrderlyStep DEF Send, InTurn, OneHandler
    <3>2. \A q \in Requests : Running(q)' => q = r
      BY <2>1, <3>1, Sequences DEF Running
    <3>3. Len(sent') # 0 /\ sent'[Len(sent')] = r
      BY <2>2, Sequences
    <3>4. sent' # <<>>
      BY <3>3
    <3>5. QED
      BY <3>2, <3>3, <3>4 DEF LatestRuns
  <2>6. SentOnce'
    <3>1. \A m, n \in 1..Len(sent') : m < n => sent'[m] # sent'[n]
      BY <2>2, <2>3, <1>0, Sequences DEF SentOnce
    <3>2. \A m \in 1..Len(sent') : pc'[sent'[m]] # "unsent"
      BY <2>1, <2>2, <2>3, <1>0, Sequences DEF SentOnce
    <3>3. QED
      BY <3>1, <3>2 DEF SentOnce
  <2>7. RecordedOnce'
    <3>1. \A i \in 1..Len(log) : \E m \in 1..Len(sent') : sent'[m] = log[i]
      BY <2>2, <1>0, Sequences DEF RecordedOnce
    <3>2. \A i \in 1..Len(log) : pc'[log[i]] \in {"account", "served"}
      BY <2>1, <2>4, <1>0, Sequences DEF RecordedOnce
    <3>3. QED
      BY <2>1, <3>1, <3>2 DEF RecordedOnce
  <2>8. InOrder'
    <3> SUFFICES ASSUME NEW i \in 1..Len(log), NEW j \in 1..Len(log), i < j
                 PROVE  \E m, n \in 1..Len(sent') : m < n /\ sent'[m] = log[i] /\ sent'[n] = log[j]
      BY <2>1 DEF InOrder
    <3>1. PICK m \in 1..Len(sent), n \in 1..Len(sent) : m < n /\ sent[m] = log[i] /\ sent[n] = log[j]
      BY <1>0 DEF InOrder
    <3>2. m \in 1..Len(sent') /\ n \in 1..Len(sent') /\ sent'[m] = sent[m] /\ sent'[n] = sent[n]
      BY <2>2, <3>1, Sequences
    <3>3. QED
      BY <3>1, <3>2
  <2>9. QED
    BY <2>5, <2>6, <2>7, <2>8 DEF OrderInv
<1>2. ASSUME NEW r \in Requests, RecordStep(r)
      PROVE  OrderInv'
  <2>1. /\ log' = Append(log, r) /\ UNCHANGED sent
        /\ pc[r] = "record" /\ pc'[r] \in {"account", "served"}
        /\ \A q \in Requests \ {r} : pc'[q] = pc[q]
    BY <1>2, Sequences DEF RecordStep, AppendStep, Goto, told
  <2>2. /\ Len(log') = Len(log) + 1 /\ log'[Len(log) + 1] = r
        /\ \A i \in 1..Len(log) : log'[i] = log[i]
    BY <2>1, Sequences
  <2>3. \A i \in 1..Len(log) : log[i] # r
    BY <2>1, <1>0 DEF RecordedOnce
  <2>4. Len(sent) \in 1..Len(sent) /\ sent[Len(sent)] = r
    <3>1. sent # <<>> /\ sent[Len(sent)] = r
      BY <2>1, <1>0 DEF LatestRuns, Running, Active
    <3>2. QED
      BY <3>1, Sequences
  <2>5. LatestRuns' /\ SentOnce'
    <3>1. \A q \in Requests : /\ Running(q)' => Running(q)
                              /\ pc'[q] = "unsent" => pc[q] = "unsent"
      BY <2>1 DEF Running, Active
    <3>2. QED
      BY <2>1, <3>1, <1>0, Sequences DEF LatestRuns, SentOnce
  <2>6. RecordedOnce'
    <3>1. \A i \in 1..Len(log') : \E m \in 1..Len(sent) : sent[m] = log'[i]
      BY <2>2, <2>4, <1>0, Sequences DEF RecordedOnce
    <3>2. \A i \in 1..Len(log') : pc'[log'[i]] \in {"account", "served"}
      BY <2>1, <2>2, <2>3, <1>0, Sequences DEF RecordedOnce
    <3>3. QED
      BY <2>1, <3>1, <3>2 DEF RecordedOnce
  <2>7. InOrder'
    <3> SUFFICES ASSUME NEW i \in 1..Len(log'), NEW j \in 1..Len(log'), i < j
                 PROVE  \E m, n \in 1..Len(sent) : m < n /\ sent[m] = log'[i] /\ sent[n] = log'[j]
      <4>1. sent' = sent
        BY <2>1
      <4>2. QED
        BY <4>1 DEF InOrder
    <3>1. i \in 1..Len(log) /\ log'[i] = log[i]
      BY <2>2, Sequences
    <3>2. CASE j = Len(log) + 1
      <4>1. PICK m \in 1..Len(sent) : sent[m] = log[i]
        BY <3>1, <1>0 DEF RecordedOnce
      <4>2. m # Len(sent)
        BY <2>3, <2>4, <3>1, <4>1
      <4>3. m < Len(sent)
        <5>1. Len(sent) \in Nat
          BY Sequences
        <5>2. QED
          BY <4>1, <4>2, <5>1
      <4>4. QED
        BY <2>2, <2>4, <3>1, <3>2, <4>1, <4>3
    <3>3. CASE j # Len(log) + 1
      <4>1. j \in 1..Len(log) /\ log'[j] = log[j]
        BY <2>2, <3>3, Sequences
      <4>2. QED
        BY <3>1, <4>1, <1>0 DEF InOrder
    <3>4. QED
      BY <3>2, <3>3
  <2>8. QED
    BY <2>5, <2>6, <2>7 DEF OrderInv
<1>3. ASSUME NEW r \in Requests, Handler(r), ~RecordStep(r)
      PROVE  OrderInv'
  <2>1. UNCHANGED <<log, sent>>
    BY <1>3 DEF Handler, GetRollout, CheckBudget, BackendFails, BackendAnswers, CopyReply,
       BodyLost, StreamCut, Account, told
  <2>2. \A q \in Requests : /\ Running(q)' => Running(q)
                            /\ pc'[q] = "unsent" => pc[q] = "unsent"
    BY <1>3, HandlerShape DEF Running, Active
  <2>3. \A q \in Requests : pc[q] \in {"account", "served"} => pc'[q] \in {"account", "served"}
    BY <1>3, Sequences DEF Handler, GetRollout, CheckBudget, BackendFails, BackendAnswers,
       CopyReply, BodyLost, StreamCut, Account, Goto, Refuse
  <2>4. QED
    BY <2>1, <2>2, <2>3, <1>0, Sequences DEF OrderInv, LatestRuns, SentOnce, RecordedOnce, InOrder
<1>4. ASSUME UNCHANGED <<pc, log, sent>>
      PROVE  OrderInv'
  <2>1. pc' = pc /\ log' = log /\ sent' = sent
    BY <1>4
  <2>2. LatestRuns'
    BY <2>1, <1>0 DEF LatestRuns, Running
  <2>3. SentOnce'
    BY <2>1, <1>0 DEF SentOnce
  <2>4. RecordedOnce'
    BY <2>1, <1>0 DEF RecordedOnce
  <2>5. InOrder'
    BY <2>1, <1>0 DEF InOrder
  <2>6. QED
    BY <2>2, <2>3, <2>4, <2>5 DEF OrderInv
<1>5. ASSUME NEW r \in Requests, Receive(r) \/ GiveUp(r)
      PROVE  UNCHANGED <<pc, log, sent>>
  BY <1>5 DEF Receive, GiveUp, told
<1>6. ASSUME Lifecycle \/ UNCHANGED vars
      PROVE  UNCHANGED <<pc, log, sent>>
  BY <1>6 DEF Lifecycle, EndGeneration, UnregisterRollout, CloseProxyServer, Finalize,
     MarkTerminal, vars, told
<1>7. QED
  BY <1>1, <1>2, <1>3, <1>4, <1>5, <1>6 DEF Next, Agent

\* The trajectory of such an agent holds its calls in the order it made them,
\* each of them once (proxy.go:330, 466), although each is appended by a
\* goroutine of its own.
THEOREM ConversationsInOrder == Spec => []ConversationOrder
<1>1. OrderInv => ConversationOrder
  BY DEF OrderInv, InOrder, ConversationOrder
<1>2. QED
  BY <1>1, HandlersInit, OneHandlerStep, OrderStep, TypeInit, TypeStep, PTL DEF Spec

-----------------------------------------------------------------------------
(* The charges.                                                            *)

\* What is recorded has been answered, and what is to be charged is recorded.
RecordedFirst ==
  /\ \A r \in Recorded : pc[r] \in {"account", "served"}
  /\ \A r \in Requests : pc[r] = "account" => r \in Recorded

Charged == {r \in Recorded : pc[r] # "account"}

UsageInv == RecordedFirst /\ (registered /\ BudgetLimit > 0 => usage = SumTokens(Charged))

\* The tokens of one more request.
LEMMA OneMore ==
  ASSUME TypeOK, NEW S \in SUBSET Requests, NEW r \in Requests, r \notin S
  PROVE  SumTokens(S \cup {r}) = SumTokens(S) + tokens[r]
<1> DEFINE n == tokens[r]
           own == {t \in {r} \X (1..MaxUse) : t[2] <= n}
           nth == [k \in 1..n |-> <<r, k>>]
<1>1. n \in Nat /\ n <= MaxUse /\ MaxUse \in Nat
  BY BudgetAssumption DEF TypeOK
<1>2. IsFiniteSet(own) /\ Cardinality(own) = n
  <2>1. \A k \in 1..n : <<r, k>> \in own
    BY <1>1
  <2>2. \A t \in own : \E k \in 1..n : t = <<r, k>>
    <3> TAKE t \in own
    <3>1. t[2] \in 1..n /\ t = <<r, t[2]>>
      BY <1>1
    <3>2. QED
      BY <3>1
  <2> HIDE DEF own, n
  <2>3. nth \in [1..n -> own] /\ \A k \in 1..n : nth[k] = <<r, k>>
    BY <2>1
  <2>4. nth \in Bijection(1..n, own)
    <3>1. nth \in Surjection(1..n, own)
      BY <2>2, <2>3 DEF Surjection
    <3>2. nth \in Injection(1..n, own)
      BY <2>3 DEF Injection, IsInjective
    <3>3. QED
      BY <3>1, <3>2 DEF Bijection
  <2>5. ExistsBijection(1..n, own)
    BY <2>4 DEF ExistsBijection
  <2>6. IsFiniteSet(1..n) /\ Cardinality(1..n) = n
    BY <1>1, FS_Interval
  <2>7. QED
    BY <2>5, <2>6, FS_Bijection
<1>3. IsFiniteSet(TokensOf(S))
  <2>1. IsFiniteSet(S) /\ IsFiniteSet(1..MaxUse)
    BY <1>1, FS_Subset, FS_Interval, RequestsAssumption
  <2>2. IsFiniteSet(S \X (1..MaxUse))
    BY <2>1, FS_Product
  <2>3. TokensOf(S) \in SUBSET (S \X (1..MaxUse))
    BY DEF TokensOf
  <2>4. QED
    BY <2>2, <2>3, FS_Subset
<1>4. TokensOf(S \cup {r}) = TokensOf(S) \cup own
  BY DEF TokensOf
<1>5. TokensOf(S) \cap own = {}
  BY DEF TokensOf
<1> HIDE DEF own, n
<1>6. Cardinality(TokensOf(S) \cup own) = Cardinality(TokensOf(S)) + n
  <2>1. Cardinality(TokensOf(S)) \in Nat
    BY <1>3, FS_CardinalityType
  <2>2. Cardinality(TokensOf(S) \cap own) = 0
    BY <1>5, FS_EmptySet
  <2>3. Cardinality(TokensOf(S) \cup own)
          = Cardinality(TokensOf(S)) + Cardinality(own) - Cardinality(TokensOf(S) \cap own)
    BY <1>2, <1>3, FS_Union
  <2>4. QED
    BY <1>1, <1>2, <2>1, <2>2, <2>3
<1>7. QED
  BY <1>4, <1>6 DEF SumTokens, n

\* Nothing is recorded and nothing charged.
LEMMA UsageInit == Init => UsageInv
<1> SUFFICES ASSUME Init PROVE UsageInv
  OBVIOUS
<1>1. Recorded = {} /\ usage = 0 /\ \A r \in Requests : pc[r] = "unsent"
  BY DEF Init, Recorded, Range
<1>2. TokensOf({}) = {}
  BY DEF TokensOf
<1>3. SumTokens({}) = 0
  BY <1>2, FS_EmptySet DEF SumTokens
<1>4. Charged = {}
  BY <1>1 DEF Charged
<1>5. QED
  BY <1>1, <1>3, <1>4 DEF UsageInv, RecordedFirst

\* Steps that neither record nor charge.
LEMMA UsageKept ==
  ASSUME UsageInv, UNCHANGED <<usage, log>>, registered' => registered,
         \A r \in Recorded : pc'[r] = pc[r] /\ tokens'[r] = tokens[r],
         \A r \in Requests : pc'[r] = "account" => pc[r] = "account"
  PROVE  UsageInv'
<1>1. Recorded' = Recorded
  BY DEF Recorded
<1>2. Charged' = Charged
  BY <1>1 DEF Charged
<1>3. SumTokens(Charged)' = SumTokens(Charged)
  <2>1. \A r \in Charged : tokens'[r] = tokens[r]
    BY DEF Charged
  <2>2. TokensOf(Charged)' = TokensOf(Charged)
    BY <1>2, <2>1 DEF TokensOf
  <2>3. QED
    BY <2>2 DEF SumTokens
<1>4. RecordedFirst'
  BY <1>1 DEF UsageInv, RecordedFirst
<1>5. QED
  BY <1>3, <1>4 DEF UsageInv

\* Every step preserves it: a call is recorded once, and charged once after that.
LEMMA UsageStep == TypeOK /\ UsageInv /\ [Next]_vars => UsageInv'
<1> SUFFICES ASSUME TypeOK, UsageInv, [Next]_vars PROVE UsageInv'
  OBVIOUS
<1>0. /\ pc \in [Requests -> Pcs] /\ tokens \in [Requests -> 0..MaxUse]
      /\ Recorded \subseteq Requests
      /\ \A r \in Recorded : pc[r] \in {"account", "served"}
      /\ \A r \in Requests : pc[r] = "account" => r \in Recorded
  BY DEF TypeOK, Recorded, Range, UsageInv, RecordedFirst
<1>1. ASSUME NEW r \in Requests, RecordStep(r)
      PROVE  UsageInv'
  <2>1. /\ pc[r] = "record"
        /\ pc' = [pc EXCEPT ![r] = IF BudgetLimit > 0 THEN "account" ELSE "served"]
        /\ log' = Append(log, r) /\ UNCHANGED <<registered, usage, tokens>>
    BY <1>1 DEF RecordStep, Goto, AppendStep, net
  <2>2. r \notin Recorded
    BY <1>0, <2>1
  <2>3. Recorded' = Recorded \cup {r}
    <3>1. log \in Seq(Requests)
      BY DEF TypeOK
    <3>2. /\ DOMAIN log = 1..Len(log) /\ Len(log) \in Nat /\ DOMAIN log' = 1..(Len(log) + 1)
          /\ log'[Len(log) + 1] = r /\ \A i \in 1..Len(log) : log'[i] = log[i]
      BY <2>1, <3>1
    <3>3. \A i \in 1..(Len(log) + 1) : i \in 1..Len(log) \/ i = Len(log) + 1
      BY <3>2
    <3>4. \A i \in 1..Len(log) : i \in 1..(Len(log) + 1)
      BY <3>2
    <3>5. Len(log) + 1 \in 1..(Len(log) + 1)
      BY <3>2
    <3>6. \A q : q \in Recorded' <=> q \in Recorded \cup {r}
      BY <3>2, <3>3, <3>4, <3>5 DEF Recorded, Range
    <3>7. QED
      BY <3>6
  <2>4. RecordedFirst'
    BY <1>0, <2>1, <2>3 DEF RecordedFirst
  <2>5. BudgetLimit > 0 => Charged' = Charged
    BY <1>0, <2>1, <2>2, <2>3 DEF Charged
  <2>6. BudgetLimit > 0 => SumTokens(Charged)' = SumTokens(Charged)
    BY <2>1, <2>5 DEF SumTokens, TokensOf
  <2>7. QED
    BY <2>1, <2>4, <2>6 DEF UsageInv
<1>2. ASSUME NEW r \in Requests, Account(r)
      PROVE  UsageInv'
  <2>1. /\ pc[r] = "account" /\ pc' = [pc EXCEPT ![r] = "served"]
        /\ UNCHANGED <<registered, log, tokens>>
        /\ registered => usage' = usage + tokens[r]
    BY <1>2 DEF Account, Goto, AddUsage, net
  <2>2. Recorded' = Recorded /\ r \in Recorded
    BY <1>0, <2>1 DEF Recorded
  <2>3. RecordedFirst'
    BY <1>0, <2>1, <2>2 DEF RecordedFirst
  <2>4. Charged' = Charged \cup {r} /\ r \notin Charged /\ Charged \in SUBSET Requests
    BY <1>0, <2>1, <2>2 DEF Charged
  <2>5. SumTokens(Charged)' = SumTokens(Charged) + tokens[r]
    <3>1. SumTokens(Charged)' = SumTokens(Charged \cup {r})
      BY <2>1, <2>4 DEF SumTokens, TokensOf
    <3>2. QED
      BY <2>4, <3>1, OneMore
  <2>6. QED
    BY <2>1, <2>3, <2>5 DEF UsageInv
<1>3. ASSUME NEW r \in Requests, Handler(r), ~RecordStep(r), ~Account(r)
      PROVE  UsageInv'
  <2>1. /\ pc[r] \notin {"account", "served"}
        /\ UNCHANGED <<registered, usage, log>>
        /\ pc'[r] # "account"
        /\ \A q \in Requests \ {r} : pc'[q] = pc[q] /\ tokens'[q] = tokens[q]
    BY <1>0, <1>3 DEF Handler, GetRollout, CheckBudget, BackendFails, BackendAnswers, CopyReply,
       BodyLost, StreamCut, Goto, Refuse, net
  <2>2. r \notin Recorded
    BY <1>0, <2>1
  <2>3. QED
    BY <1>0, <2>1, <2>2, UsageKept
<1>4. ASSUME NEW r \in Requests, Agent(r)
      PROVE  UsageInv'
  <2>1. /\ UNCHANGED <<registered, usage, log, tokens>>
        /\ \A q \in Requests : pc'[q] = pc[q] \/ (pc[q] = "unsent" /\ pc'[q] = "lookup")
    BY <1>0, <1>4 DEF Agent, Send, Receive, GiveUp, net
  <2>2. QED
    BY <1>0, <2>1, UsageKept
<1>5. CASE Lifecycle \/ UNCHANGED vars
  <2>1. UNCHANGED <<usage, log, tokens, pc>> /\ (registered' => registered)
    BY <1>5 DEF Lifecycle, EndGeneration, UnregisterRollout, CloseProxyServer, Finalize,
       MarkTerminal, vars, net
  <2>2. QED
    BY <2>1, UsageKept
<1>6. QED
  BY <1>1, <1>2, <1>3, <1>4, <1>5 DEF Next

\* While the rollout is registered its usage is what the recorded calls have
\* used, however many handlers run at once (proxy.go:157-171, 330-338, 601-630).
THEOREM UsageIsExact == Spec => []UsageMatchesTrajectory
<1>1. UsageInv => UsageMatchesTrajectory
  BY DEF UsageInv, UsageMatchesTrajectory, Charged
<1>2. QED
  BY <1>1, UsageInit, UsageStep, TypeInit, TypeStep, PTL DEF Spec

=============================================================================
