---------------------------------- MODULE App ----------------------------------
(***************************************************************************)
(* The Code Colosseum dashboard around its tabs (App.tsx): the problems,   *)
(* the tab that is shown, the form that starts a duel, and the components  *)
(* that ask for one thing: Leaderboard, DuelHistory, TrajectoryStage. The  *)
(* Training tab is that of TrainingTab; the others have modules of their   *)
(* own, ArenaTab, CommandCenter and BenchmarkStage, and are empty here.    *)
(* A component is mounted while its tab is shown, and no longer.           *)
(***************************************************************************)
EXTENDS TrainingTab

CONSTANTS
  Bank,     \* the problems, in the order of the bank
  MaxDuels  \* bound: duels that are started

ASSUME BankAssumption   == None \notin {Bank[i] : i \in DOMAIN Bank}
ASSUME LengthAssumption == None \notin Nat

VARIABLES
  tab,        \* App.tab
  problems,   \* App: useApi, for the problems
  problemId,  \* App.selectedProblemId
  form,       \* POST /duels of the form: "no", "sent", "created"
  old,        \* those of forms that are gone, not yet taken up
  started,    \* duels
  over,       \* of which have ended, and count on the leaderboard
  ranked,     \* players on the leaderboard
  page,       \* useApi of the tab: Leaderboard, DuelHistory, TrajectoryStage
  url,        \* TrajectoryStage.url
  since       \* history: how long the list was when its tab was opened

shell == <<tab, problems, problemId, form, old, started, over, ranked, page, url,
           since>>
duels == <<started, over, ranked>>
app   == <<training, shell>>

Tabs  == {"dashboard", "arena", "leaderboard", "training", "benchmark", "trajectory"}

\* /duels is listed on the Arena tab.
Lists == {"arena", "leaderboard"}

Rollout == "/rollouts/r/trajectory"

\* list_duels
DuelRows == started

\* EloService.leaderboard
PlayerRows == ranked

Length(path) ==
  CASE path = "arena" -> DuelRows [] path = "leaderboard" -> PlayerRows [] OTHER -> 1

AppInit ==
  /\ TrainingInit
  /\ tab = "dashboard"
  /\ problems = WrappedLoad(Mounted, "/problems")
  /\ problemId = None
  /\ form = "no"
  /\ old = 0
  /\ started = 0
  /\ over = 0
  /\ ranked = 0
  /\ page = Mounted
  /\ url = None
  /\ since = 0

-----------------------------------------------------------------------------
(* App: a TabButton; the problems.                                         *)

SetTab(t) ==
  /\ t # tab
  /\ tab' = t
  /\ page' = IF t \in Lists THEN WrappedLoad(Mounted, t) ELSE Mounted
  /\ since' = IF t \in Lists THEN Length(t) ELSE 0
  /\ form' = "no"
  /\ old' = IF form = "sent" THEN old + 1 ELSE old
  /\ url' = None
  /\ CASE t = "training"   -> Mount
       [] tab = "training" -> Unmount
       [] OTHER            -> UNCHANGED training
  /\ UNCHANGED <<problems, problemId, duels>>

ServeProblems(s) ==
  /\ problems.requests[s].stage = "sent"
  /\ problems' = Answer(problems, s, Bank)
  /\ UNCHANGED <<training, tab, problemId, form, old, duels, page, url, since>>

\* selectedProblemId was given its first value before there were problems, and
\* is not given another.
ProblemsArrive(s) ==
  /\ problems.requests[s].stage = "answered"
  /\ problems' = Resolve(problems, s)
  /\ UNCHANGED <<training, tab, problemId, form, old, duels, page, url, since>>

ProblemsFail(s) ==
  /\ Break
  /\ problems.requests[s].stage = "sent"
  /\ problems' = Reject(problems, s)
  /\ UNCHANGED <<server, monitor, tab, problemId, form, old, duels, page, url, since>>

Problems == IF problems.data = None THEN <<>> ELSE problems.data

-----------------------------------------------------------------------------
(* DuelCreator and the duels.                                              *)

\* The option a select shows whose value is no option of it: the first.
Option ==
  IF problemId \in ToSet(Problems) THEN problemId
  ELSE IF Problems = <<>> THEN None ELSE Head(Problems)

\* Only another option than the one shown is a change.
ChooseProblem(p) ==
  /\ tab = "arena"
  /\ p \in ToSet(Problems) \ {Option}
  /\ problemId' = p
  /\ UNCHANGED <<training, tab, problems, form, old, duels, page, url, since>>

Startable == form = "no" /\ problemId # None

Submit ==
  /\ tab = "arena"
  /\ Startable
  /\ started + old < MaxDuels
  /\ form' = "sent"
  /\ UNCHANGED <<training, tab, problems, problemId, old, duels, page, url, since>>

Create ==
  /\ \/ form = "sent" /\ form' = "created" /\ UNCHANGED old
     \/ old > 0 /\ old' = old - 1 /\ UNCHANGED form
  /\ started' = started + 1
  /\ UNCHANGED <<training, tab, problems, problemId, over, ranked, page, url, since>>

Created ==
  /\ form = "created"
  /\ form' = "no"
  /\ UNCHANGED <<training, tab, problems, problemId, old, duels, page, url, since>>

\* A request that the browser has given up may still reach the server.
SubmitFails ==
  /\ Break
  /\ form # "no"
  /\ form' = "no"
  /\ \/ UNCHANGED old
     \/ form = "sent" /\ old' = old + 1
  /\ UNCHANGED <<server, monitor, tab, problems, problemId, duels, page, url, since>>

\* A duel ends: record_match, which adds those of its players that are new.
DuelOver ==
  /\ over < started
  /\ over' = over + 1
  /\ ranked' \in ranked..ranked + 2
  /\ ranked' > 0
  /\ UNCHANGED <<training, tab, problems, problemId, form, old, started, page, url, since>>

-----------------------------------------------------------------------------
(* Leaderboard, DuelHistory, TrajectoryStage.                              *)

\* A list is told by its length, and so is a trajectory.
ServePage(s) ==
  /\ page.requests[s].stage = "sent"
  /\ page' = Answer(page, s, Length(page.requests[s].path))
  /\ UNCHANGED <<training, tab, problems, problemId, form, old, duels, url, since>>

PageArrives(s) ==
  /\ page.requests[s].stage = "answered"
  /\ page' = Resolve(page, s)
  /\ UNCHANGED <<training, tab, problems, problemId, form, old, duels, url, since>>

PageFails(s) ==
  /\ Break
  /\ page.requests[s].stage = "sent"
  /\ page' = Reject(page, s)
  /\ UNCHANGED <<server, monitor, tab, problems, problemId, form, old, duels, url, since>>

\* TrajectoryStage.load, by the key Enter, which is never disabled: the effect
\* of useApi depends on [], not on the url, and does not run again.
LoadTrajectory ==
  /\ tab = "trajectory"
  /\ url = None
  /\ url' = Rollout
  /\ UNCHANGED <<training, tab, problems, problemId, form, old, duels, page, since>>

AppNext ==
  \/ \E t \in Tabs : SetTab(t)
  \/ \E p \in ToSet(Bank) : ChooseProblem(p)
  \/ Submit \/ Create \/ Created \/ SubmitFails \/ DuelOver \/ LoadTrajectory
  \/ \E s \in Slots : \/ ServeProblems(s) \/ ProblemsArrive(s) \/ ProblemsFail(s)
                      \/ ServePage(s) \/ PageArrives(s) \/ PageFails(s)
  \/ TrainingStep /\ UNCHANGED shell

\* What is asked for is answered, and answers arrive.
Fairness ==
  /\ WF_app(Create) /\ WF_app(Created)
  /\ \A s \in Slots :
       /\ WF_app(ServePage(s)) /\ WF_app(PageArrives(s))
       /\ WF_app(ServeStatus(s) /\ UNCHANGED shell)
       /\ WF_app(StatusArrives(s) /\ UNCHANGED shell)

AppSpec == AppInit /\ [][AppNext]_app /\ Fairness

-----------------------------------------------------------------------------
(* What the components render.                                             *)

StartButton ==
  [label |-> IF form = "no" THEN "Start Duel" ELSE "Starting...", enabled |-> Startable]

\* ProblemPanel: the selected problem, or the advice to select one.
Panel == IF problemId \in ToSet(Problems) THEN problemId ELSE None

\* Mutant: loading is not looked at.
ListEager ==
  IF page.error THEN [screen |-> "error"]
  ELSE [screen |-> "list", rows |-> IF page.data = None THEN 0 ELSE page.data]

\* Leaderboard and DuelHistory: a table of so many rows, or "No ... yet.".
List ==
  IF page.loading THEN [screen |-> "loading"]
  ELSE IF page.error THEN [screen |-> "error"]
  ELSE [screen |-> "list", rows |-> IF page.data = None THEN 0 ELSE page.data]

\* TrajectoryStage: the button, and below it the error or the steps.
Trajectory == [busy |-> page.loading, error |-> page.error, shown |-> page.data]

\* What the tab says is under way.
Busy ==
  CASE tab = "arena"       -> List.screen = "loading" \/ StartButton.label = "Starting..."
    [] tab = "leaderboard" -> List.screen = "loading"
    [] tab = "training"    -> Monitor.screen = "loading"
    [] tab = "trajectory"  -> Trajectory.busy
    [] OTHER               -> FALSE

-----------------------------------------------------------------------------
\* What the variables hold.
AppTypeOK ==
  /\ TrainingTypeOK
  /\ tab \in Tabs
  /\ problems \in ApiStates({"/problems"}, {Bank})
  /\ problemId \in ToSet(Bank) \cup {None}
  /\ form \in {"no", "sent", "created"}
  /\ old \in 0..MaxDuels
  /\ started \in 0..MaxDuels
  /\ over \in 0..started
  /\ ranked \in 0..2 * over
  /\ page \in ApiStates(Lists \cup {Rollout}, Nat)
  /\ url \in {None, Rollout}
  /\ since \in 0..2 * MaxDuels

\* A list that is shown, and one that is shown as empty, is not older than its
\* tab: nothing asked for by another tab is shown, and no missing answer is
\* shown as "No matches yet." (Leaderboard.tsx 7-16, DuelHistory.tsx 10-20,
\* useApi.ts 30-51).
ListNotOlderThanTab ==
  tab \in Lists /\ List.screen = "list" => List.rows \in since..Length(tab)

\* What a tab asks for ends its "Loading..." or "Starting...", whatever fails
\* (Leaderboard.tsx 7, TrainingMonitor.tsx 41, DuelCreator.tsx 26-41, useApi.ts
\* 37-41). All but the trajectory viewer, which asks for nothing: its button says
\* "Loading..." for ever (TrajectoryStage.tsx 49-55, see TrajectoryIsShown).
BusyEnds ==
  \A t \in Tabs \ {"trajectory"} : (tab = t /\ Busy) ~> (tab # t \/ ~Busy)

\* TrajectoryStage.tsx 36-38, "Inspect every LLM request/response captured by
\* the Arena proxy. Paste a rollout ID ...": a rollout that is asked for is in
\* the end shown, or an error. Refuted: nothing is ever fetched.
TrajectoryIsShown ==
  (tab = "trajectory" /\ url # None)
    ~> (tab # "trajectory" \/ Trajectory.error \/ Trajectory.shown # None)

=============================================================================
