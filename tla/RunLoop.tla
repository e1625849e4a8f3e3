------------------------------- MODULE RunLoop -------------------------------
(***************************************************************************)
(* One simulation run: the process that simulation_service.run executes,   *)
(* the Simulation and Market rows through which the web process watches    *)
(* and steers it, and the pages that press Continue in period-by-period    *)
(* mode or delete the run while it goes on.                                *)
(*                                                                         *)
(* An action is one committed statement or transaction. What happens       *)
(* inside a period (agents, clearing) is the subject of MarketPeriod.      *)
(***************************************************************************)
EXTENDS Integers, FiniteSets, FiniteSetsExt

CONSTANTS
  N,               \* periodNumber
  Modes,           \* modes the run may have
  Pages,           \* watch pages, each with at most one open request
  EarlyRequests,   \* may a page ask for the next period before it is offered?
  Deletes,         \* may the run be deleted while it goes on?
  Crashes          \* may the process be killed?

ASSUME RunAssumption ==
  /\ N \in Nat \ {0}
  /\ Modes \subseteq {"PERIODBYPERIOD", "ONLYRESULT"}
  /\ {EarlyRequests, Deletes, Crashes} \subseteq BOOLEAN

VARIABLES
  exists,   \* has the run not been deleted?
  sim,      \* Simulation row: mode, state, currentPeriod, error
  market,   \* Market row: state, effective_clearing_params
  periods,  \* numbers of the Period rows
  budget,   \* periods whose profits Agent.budget contains
  pc,       \* where the run process is
  t,        \* its period
  request,  \* the Market row a nextPeriod request has read, per page
  continues \* ghost: requests saved so far, up to N

rows == <<exists, sim, market, periods, budget>>
vars == <<rows, pc, t, request, continues>>

NoRequest == [state |-> "none", params |-> "none"]
MarketRows == [state : {"CREATED", "INITIALIZED", "PERIODEND"},
               params : {"null", "written"}]
Terminal == {"FINISHED", "FAILED"}
Running == {"spawned", "build", "warm", "init", "initMarket", "wait", "begin",
            "period", "after", "export", "finish", "checkpoints", "error"}

TypeOK ==
  /\ exists \in BOOLEAN
  /\ sim \in [mode : Modes,
              state : {"CREATED", "INITIALIZED", "STARTED"} \cup Terminal,
              currentPeriod : -1..N, error : BOOLEAN]
  /\ market \in MarketRows
  /\ periods \subseteq 1..N
  /\ budget \subseteq 1..N
  /\ pc \in {"none", "refused", "ended", "killed"} \cup Running
  /\ t \in 1..N
  /\ request \in [Pages -> MarketRows \cup {NoRequest}]
  /\ continues \in 0..N

\* clone_scenario_for_run has committed the new run.
Init ==
  /\ exists = TRUE
  /\ \E m \in Modes : sim = [mode |-> m, state |-> "CREATED",
                            currentPeriod |-> -1, error |-> FALSE]
  /\ market = [state |-> "CREATED", params |-> "null"]
  /\ periods = {} /\ budget = {}
  /\ pc = "none" /\ t = 1
  /\ request = [p \in Pages |-> NoRequest]
  /\ continues = 0

Goto(there) == pc' = there
At(here) == pc = here /\ UNCHANGED <<request, continues>>

-----------------------------------------------------------------------------
(* The run process.                                                        *)

Start == At("none") /\ Goto("spawned") /\ UNCHANGED <<rows, t>>

\* run_simulation deletes the run if its process cannot be started.
StartFails ==
  /\ At("none")
  /\ exists' = FALSE
  /\ Goto("ended")
  /\ UNCHANGED <<sim, market, periods, budget, t>>

\* run() refuses a run that is not fresh, outside its try block.
Check ==
  /\ At("spawned")
  /\ Goto(IF ~exists THEN "ended"
          ELSE IF sim.state = "CREATED" /\ market.state = "CREATED" THEN "build"
          ELSE "refused")
  /\ UNCHANGED <<rows, t>>

\* An UPDATE of a row that has been deleted changes nothing.
MarketUpdate(row) == market' = IF exists THEN row ELSE market

\* SimulationContext.build ends with write_parameter_snapshot, an UPDATE of
\* effective_clearing_params alone. It does not fail on a deleted row.
Build ==
  /\ At("build")
  /\ MarketUpdate([market EXCEPT !.params = "written"])
  /\ Goto("warm")
  /\ UNCHANGED <<exists, sim, periods, budget, t>>

\* apply_warm_start
WarmStart == At("warm") /\ Goto("init") /\ UNCHANGED <<rows, t>>

\* Mutant of SaveFields: a save that changed nothing is tried again.
SaveFieldsRetry(row, there) ==
  /\ sim' = IF exists THEN row ELSE sim
  /\ Goto(IF exists THEN there ELSE pc)
  /\ UNCHANGED exists

\* Mutant of SaveFields: save() inserts a row that is not there.
SaveRow(row, there) ==
  /\ sim' = row
  /\ exists' = TRUE
  /\ Goto(there)

\* save(update_fields=...) of a deleted row raises and never inserts it.
SaveFields(row, there) ==
  /\ sim' = IF exists THEN row ELSE sim
  /\ Goto(IF exists THEN there ELSE "error")
  /\ UNCHANGED exists

Initialize ==
  /\ At("init")
  /\ SaveFields([sim EXCEPT !.state = "INITIALIZED", !.currentPeriod = 0],
                "initMarket")
  /\ UNCHANGED <<market, periods, budget, t>>

InitializeMarket ==
  /\ At("initMarket")
  /\ MarketUpdate([market EXCEPT !.state = "INITIALIZED"])
  /\ Goto(IF exists THEN "begin" ELSE "error")
  /\ UNCHANGED <<exists, sim, periods, budget, t>>

\* _wait_for_next_period: one poll that ends the waiting.
Wait ==
  /\ At("wait")
  /\ exists => market.state # "PERIODEND"
  /\ Goto(IF exists THEN "begin" ELSE "error")
  /\ UNCHANGED <<rows, t>>

Begin ==
  /\ At("begin")
  /\ SaveFields([sim EXCEPT !.currentPeriod = t], "period")
  /\ UNCHANGED <<market, periods, budget, t>>

\* The transaction of run_period commits: the period with its offers, the
\* budgets and the market state.
RunPeriod ==
  /\ At("period")
  /\ exists
  /\ periods' = periods \cup {t} /\ budget' = budget \cup {t}
  /\ market' = [market EXCEPT !.state = "PERIODEND"]
  /\ Goto("after")
  /\ UNCHANGED <<exists, sim, t>>

LastPeriod == t = N

\* The rest of the loop body, and the head of the next one. STARTED is saved
\* in a statement of its own after the first period.
After ==
  /\ At("after")
  /\ LET next == IF LastPeriod THEN "export"
                 ELSE IF sim.mode = "PERIODBYPERIOD" THEN "wait" ELSE "begin"
     IN IF t = 1 THEN SaveFields([sim EXCEPT !.state = "STARTED"], next)
        ELSE Goto(next) /\ UNCHANGED <<exists, sim>>
  /\ t' = IF LastPeriod THEN t ELSE t + 1
  /\ UNCHANGED <<market, periods, budget>>

Export == At("export") /\ Goto("finish") /\ UNCHANGED <<rows, t>>

Finish ==
  /\ At("finish")
  /\ SaveFields([sim EXCEPT !.state = "FINISHED"], "checkpoints")
  /\ UNCHANGED <<market, periods, budget, t>>

SaveCheckpoints == At("checkpoints") /\ Goto("ended") /\ UNCHANGED <<rows, t>>

\* _save_checkpoints: the run stays FINISHED, only the error is saved.
CheckpointsFail ==
  /\ At("checkpoints")
  /\ sim' = IF exists THEN [sim EXCEPT !.error = TRUE] ELSE sim
  /\ Goto("ended")
  /\ UNCHANGED <<exists, market, periods, budget, t>>

\* Mutant of Fail: the budgets are not rolled back with the period.
FailKeepsBudget ==
  /\ \E here \in {"build", "warm", "period", "export"} : At(here)
  /\ budget' = IF exists /\ pc = "period" THEN budget \cup {t} ELSE budget
  /\ Goto("error")
  /\ UNCHANGED <<exists, sim, market, periods, t>>

\* Any other exception inside the try block; the open transaction of a
\* period is rolled back.
Fail ==
  /\ \E here \in {"build", "warm", "period", "export"} : At(here)
  /\ Goto("error")
  /\ UNCHANGED <<rows, t>>

\* _mark_failed. If the run is deleted it raises, which also ends the process.
MarkFailed ==
  /\ At("error")
  /\ sim' = IF exists THEN [sim EXCEPT !.state = "FAILED", !.error = TRUE] ELSE sim
  /\ Goto("ended")
  /\ UNCHANGED <<exists, market, periods, budget, t>>

Kill ==
  /\ Crashes
  /\ \E here \in Running : At(here)
  /\ Goto("killed")
  /\ UNCHANGED <<rows, t>>

-----------------------------------------------------------------------------
(* Requests.                                                               *)

\* The page offers Continue (nextRow) while the run waits.
Offered == /\ sim.mode = "PERIODBYPERIOD" /\ sim.state \notin Terminal
           /\ market.state = "PERIODEND"

\* nextPeriod reads the market with the run ...
ReadMarket(p) ==
  /\ request[p] = NoRequest /\ exists
  /\ Offered \/ EarlyRequests
  /\ request' = [request EXCEPT ![p] = market]
  /\ UNCHANGED <<rows, pc, t, continues>>

\* ... and saves the whole row with the new state. (For a deleted run save()
\* would insert the row, which its foreign key forbids.)
SaveMarket(p) ==
  /\ request[p] # NoRequest
  /\ MarketUpdate([request[p] EXCEPT !.state = "INITIALIZED"])
  /\ request' = [request EXCEPT ![p] = NoRequest]
  /\ continues' = Min({N, continues + 1})
  /\ UNCHANGED <<exists, sim, periods, budget, pc, t>>

\* delete_simulation, in any state; the rows of the run go with it.
Delete ==
  /\ Deletes /\ exists
  /\ exists' = FALSE
  /\ periods' = {} /\ budget' = {}
  /\ UNCHANGED <<sim, market, pc, t, request, continues>>

-----------------------------------------------------------------------------
RunStep ==
  \/ Check \/ Build \/ WarmStart \/ Initialize \/ InitializeMarket \/ Wait
  \/ Begin \/ After \/ Export \/ Finish \/ MarkFailed
  \/ SaveCheckpoints \/ CheckpointsFail
  \/ RunPeriod \/ (pc = "period" /\ Fail)

Next ==
  \/ Start \/ StartFails \/ RunStep \/ Fail \/ Kill
  \/ \E p \in Pages : ReadMarket(p) \/ SaveMarket(p)
  \/ Delete

Spec == Init /\ [][Next]_vars

\* The process keeps running, a request is answered, and somebody presses
\* Continue when it is offered and no request of the page is open.
Fairness ==
  /\ WF_vars(RunStep)
  /\ \A p \in Pages : /\ WF_vars(SaveMarket(p))
                      /\ WF_vars(ReadMarket(p) /\ Offered)

FairSpec == Spec /\ Fairness
-----------------------------------------------------------------------------
(* Properties.                                                             *)

\* The stored periods are 1..k without a gap, the budgets contain exactly
\* their profits, and the run is at period k or k + 1.
PeriodsArePrefix ==
  exists =>
    /\ \E k \in 0..N : /\ periods = 1..k
                       /\ k > 0 => sim.currentPeriod \in {k, k + 1}
    /\ budget = periods

\* In period-by-period mode no period after the first begins without a
\* Continue of its own. (A late or a second Continue may release the next one.)
ContinuePerPeriod ==
  sim.mode = "PERIODBYPERIOD" => Cardinality(periods) <= continues + 1

\* A process that ended by itself leaves its run in a final state, or left it
\* as it was because it was not fresh.
NoRunLeftOpen ==
  exists => /\ pc = "ended" => sim.state \in Terminal
            /\ pc = "refused" => sim.state = "CREATED" /\ periods = {}

\* The rows of a run agree with each other, with the requests of its page and
\* with how its process ended, whatever was deleted, killed or lost on the way.
RunIsOrderly == TypeOK /\ PeriodsArePrefix /\ ContinuePerPeriod /\ NoRunLeftOpen

\* No late statement of the process or of a request changes an end: a FINISHED
\* run has all its periods and keeps its state and its periods whatever happens
\* to its checkpoints, and no row of a deleted run comes back.
EndIsKept ==
  [][ /\ exists /\ sim.state = "FINISHED" =>
           /\ periods = 1..N
           /\ exists' => sim'.state = "FINISHED" /\ periods' = periods
      /\ ~exists => ~exists' /\ periods' = {} ]_vars

\* A run that is not killed comes to its end if somebody presses Continue
\* whenever it is offered, also when requests were lost under a period.
RunEnds == pc = "spawned" ~> pc \in {"ended", "refused", "killed"}

\* models/market.py: effective_clearing_params is "written once when the run
\* starts". A nextPeriod request that had read the row before saves it back.
SnapshotIsKept ==
  [][exists /\ market.params = "written" => market'.params = "written"]_vars
=============================================================================
