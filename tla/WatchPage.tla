------------------------------ MODULE WatchPage ------------------------------
(***************************************************************************)
(* The watch page of a run, together with the run it watches: the chain of *)
(* status and live-series requests of watch_simulation.html, the progress  *)
(* and the budgets computed for them (progress.py, live_series.py), and    *)
(* the analysis of the finished run, which computes the same budgets       *)
(* (run_analysis.py).                                                      *)
(*                                                                         *)
(* A request reads the database in several statements, each of which sees  *)
(* what is committed when it runs, so the run goes on between them.  The   *)
(* budget after a period is not stored; it is computed back from the       *)
(* present budget and the profits of the later periods, undoing the        *)
(* rounding of each of them.  Money is counted in parts of a cent, Cent of *)
(* them to a cent.                                                         *)
(***************************************************************************)
EXTENDS RunLoop, Sequences

CONSTANTS
  Agents,
  ProfitTables,       \* profits of each period and agent, or NoOffer
  InitialBudgets,     \* budgets when the run starts, in whole cents
  Cent,
  EvaluationPeriods,
  CostEdits,          \* may a resource's costs be edited meanwhile?
  NoOffer

ASSUME WatchAssumption ==
  /\ Cent \in Nat \ {0} /\ EvaluationPeriods \in 0 .. N - 1
  /\ InitialBudgets \subseteq [Agents -> Int]
  /\ \A b \in InitialBudgets : \A a \in Agents : b[a] % Cent = 0
  /\ ProfitTables \subseteq [1 .. N -> [Agents -> Int \cup {NoOffer}]] /\ NoOffer \notin Int
  /\ CostEdits \in BOOLEAN

VARIABLES
  profit,   \* the profits that the periods of this run have
  initial,  \* its budgets at the start
  cost,     \* what an offer of a period costs more now than when the run was built
  poll,     \* the request of the page that is under way
  shown,    \* the progress on display
  chart     \* the plotted budgets: one record of all agents per period

page == <<poll, shown, chart>>
watchVars == <<vars, profit, initial, cost, page>>

-----------------------------------------------------------------------------
(* Budgets.                                                                *)

\* quantize with ROUND_HALF_EVEN
Rounded(x) ==
  LET cents == x \div Cent
      twice == 2 * (x % Cent)
  IN  Cent * (IF twice < Cent \/ (twice = Cent /\ cents % 2 = 0) THEN cents ELSE cents + 1)

Gain(p, a, i) == IF p[i][a] = NoOffer THEN 0 ELSE p[i][a]

\* What run_period has made of the budget after k periods.
BudgetAfter(a, k) ==
  LET after[i \in 0 .. N] == IF i = 0 THEN initial[a]
                             ELSE Rounded(after[i - 1] + Gain(profit, a, i))
  IN  after[k]

\* The profit that is computed from the stored offers and today's costs.
Seen(a, i) == IF profit[i][a] = NoOffer THEN 0 ELSE profit[i][a] - cost

previous_budget(after, gain) ==
  LET exact == after - gain
      low   == Cent * (exact \div Cent)
      high  == IF low = exact THEN low ELSE low + Cent
  IN  IF Rounded(low + gain) = after THEN low
      ELSE IF Rounded(high + gain) = after THEN high
      ELSE Rounded(exact)

\* The budgets after the periods from .. to, the last of them given.
reconstruct(a, last, from, to) ==
  LET back[i \in from .. to] == IF i = to THEN last
                                ELSE previous_budget(back[i + 1], Seen(a, i + 1))
  IN  back

Last(set) == IF set = {} THEN 0 ELSE Max(set)

-----------------------------------------------------------------------------
(* Progress.                                                               *)

\* Mutant of Active: the last completed period.
ActiveCompleted(row, completed) == completed

\* The period in progress, or the last one of a run that has ended.
Active(row, completed) ==
  IF row.state \in Terminal THEN completed
  ELSE Max({row.currentPeriod, completed + 1})

compute_run_progress(row, completed) ==
  LET active == Min({Max({Active(row, completed), 1}), N}) IN
  [state     |-> row.state,
   completed |-> IF row.state = "FINISHED" THEN N ELSE completed,
   phase     |-> IF EvaluationPeriods = 0 THEN "none"
                 ELSE IF active >= N - EvaluationPeriods + 1 THEN "evaluation"
                 ELSE "training"]

-----------------------------------------------------------------------------
(* The page.  The next poll starts when the last answer has come.          *)

Idle == [at |-> "idle"]
Stopped(lost) == [at |-> "stopped", lost |-> lost]

WatchInit ==
  /\ Init
  /\ profit \in ProfitTables
  /\ initial \in InitialBudgets
  /\ cost = 0
  /\ poll = Idle
  /\ shown = compute_run_progress(sim, 0)
  /\ chart = <<>>

RunGoesOn == UNCHANGED <<vars, profit, initial, cost>>

\* get_simulation_status reads the run; 404 if it is gone.
StatusRun ==
  /\ poll.at = "idle" /\ exists
  /\ poll' = [at |-> "status", row |-> sim]
  /\ RunGoesOn /\ UNCHANGED <<shown, chart>>

\* ... and then counts its periods.
StatusPeriods ==
  /\ poll.at = "status"
  /\ shown' = compute_run_progress(poll.row, Cardinality(periods))
  /\ poll' = [at |-> "live", final |-> poll.row.state \in Terminal]
  /\ RunGoesOn /\ UNCHANGED chart

\* A status request that fails is repeated.
StatusFails ==
  /\ poll.at = "status"
  /\ poll' = Idle
  /\ RunGoesOn /\ UNCHANGED <<shown, chart>>

Done(final, lost) == IF final THEN Stopped(lost) ELSE Idle

\* live_series reads the agents with their budgets,
LiveAgents ==
  /\ poll.at = "live" /\ exists
  /\ poll' = [at |-> "offers", final |-> poll.final,
              budget |-> [a \in Agents |-> BudgetAfter(a, Last(budget))]]
  /\ RunGoesOn /\ UNCHANGED <<shown, chart>>

\* Mutant of Anchor: the budgets of the first statement.
AnchorOld(a, after, to) == poll.budget[a]

\* ... then the offers after the last plotted period with the budgets of
\* their agents; who has none keeps the budget read before.
Anchor(a, after, to) ==
  IF \E i \in after + 1 .. to : profit[i][a] # NoOffer THEN BudgetAfter(a, to)
  ELSE poll.budget[a]

\* appendSeries: the points of the new periods.
LiveOffers ==
  /\ poll.at = "offers"
  /\ LET after == Len(chart)
         to    == Last(periods)
         back  == [a \in Agents |-> reconstruct(a, Anchor(a, after, to), after, to)]
     IN  chart' = IF to <= after THEN chart
                  ELSE chart \o [i \in 1 .. to - after |-> [a \in Agents |-> back[a][after + i]]]
  /\ poll' = Done(poll.final, FALSE)
  /\ RunGoesOn /\ UNCHANGED shown

\* Mutant of LiveFails: the page stops at every failure.
LiveFailsStops ==
  /\ poll.at \in {"live", "offers"}
  /\ poll' = Stopped(FALSE)
  /\ RunGoesOn /\ UNCHANGED <<shown, chart>>

\* A live request that fails, or finds no run, is not repeated by itself.
LiveFails ==
  /\ poll.at \in {"live", "offers"}
  /\ poll' = Done(poll.final, TRUE)
  /\ RunGoesOn /\ UNCHANGED <<shown, chart>>

\* resource_update, for a resource of the run. Bound: once, after the run.
CostEdit ==
  /\ CostEdits /\ cost = 0 /\ pc = "ended"
  /\ cost' = 1
  /\ UNCHANGED <<vars, profit, initial, page>>

PageStep == StatusRun \/ StatusPeriods \/ StatusFails \/ LiveAgents \/ LiveOffers \/ LiveFails

WatchNext ==
  \/ Next /\ UNCHANGED <<profit, initial, cost, page>>
  \/ StatusRun \/ StatusPeriods \/ StatusFails
  \/ LiveAgents \/ LiveOffers \/ LiveFails
  \/ CostEdit

WatchSpec == WatchInit /\ [][WatchNext]_watchVars

\* As in RunLoop; requests are answered, and not every one of them fails.
WatchFairness ==
  /\ Fairness
  /\ WF_watchVars(PageStep)
  /\ SF_watchVars(StatusPeriods)

FairWatchSpec == WatchSpec /\ WatchFairness

-----------------------------------------------------------------------------
(* The analysis of a finished run.                                         *)

unavailable_reason == ~ (exists /\ sim.state = "FINISHED" /\ periods # {})

AnalysisBudgets ==
  [a \in Agents |-> reconstruct(a, BudgetAfter(a, Last(budget)), 0, Last(periods))]

-----------------------------------------------------------------------------
(* Properties.                                                             *)

\* A profit that leaves a budget half way between two cents.
Ties(a, from, to) ==
  Cardinality({i \in from .. to : 2 * (Gain(profit, a, i) % Cent) = Cent})

Abs(x) == IF x < 0 THEN -x ELSE x

\* What the page has plotted is, period by period, the budget the agent had,
\* whenever the requests were made: up to one cent for each later profit that
\* ties, and unless costs were edited. The analysis of the finished run shows
\* the same (live_series, reconstruct_budget_series, appendSeries).
ChartIsTruth ==
  cost = 0 =>
  /\ \A i \in DOMAIN chart : \A a \in Agents :
        Abs(chart[i][a] - BudgetAfter(a, i)) <= Cent * Ties(a, i + 1, Len(chart))
  /\ ~ unavailable_reason =>
        \A a \in Agents : \A i \in 0 .. N :
           Abs(AnalysisBudgets[a][i] - BudgetAfter(a, i)) <= Cent * Ties(a, i + 1, N)

\* The progress on display is that of some moment of the request: no period is
\* counted that is not committed, a finished run shows all of them, the phase is
\* that of the period the run is at or has just ended, and neither number nor
\* phase goes back unless the run has failed or is deleted
\* (compute_run_progress, simulation_progress).
ProgressIsTrue ==
  [][ StatusPeriods /\ exists =>
        /\ shown'.completed = Cardinality(periods)
        /\ shown'.completed >= shown.completed
        /\ shown'.phase = "evaluation" =>
              \/ sim.currentPeriod >= N - EvaluationPeriods + 1
              \/ Cardinality(periods) = N - EvaluationPeriods
        /\ shown'.phase = "training" /\ shown'.state # "FAILED" =>
              poll.row.currentPeriod <= N - EvaluationPeriods
        /\ shown.phase = "evaluation" /\ shown'.state # "FAILED" => shown'.phase = "evaluation"
    ]_watchVars

\* The page of a run that has ended comes to rest, shows how it ended, and has
\* plotted every period unless its very last request was lost (poll,
\* refreshSeries).
PageSettles ==
  (exists /\ sim.state \in Terminal) ~>
     \/ ~ exists
     \/ /\ poll.at = "stopped" /\ shown.state = sim.state
        /\ poll.lost \/ Len(chart) = Cardinality(periods)
=============================================================================
