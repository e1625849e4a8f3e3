------------------------------ MODULE HpoStudy ------------------------------
(***************************************************************************)
(* One hyperparameter study (HPOStudy row) and the processes that share    *)
(* it through the database:                                                *)
(*                                                                         *)
(*  - runners: processes that call hpo_service.run_study (the process the  *)
(*    create page spawns, and `manage.py run_hpo --study`),                *)
(*  - pool workers: children that call worker.evaluate_task for one trial, *)
(*  - users who press Cancel, and                                          *)
(*  - page loads that call fail_stale_studies.                             *)
(*                                                                         *)
(* An action is one database statement of the code together with the       *)
(* process-local work up to the next one. Parameters and evaluation        *)
(* results are abstracted to a place in the search and a score; the search *)
(* itself is the subject of AbcColony.                                     *)
(***************************************************************************)
EXTENDS Integers, FiniteSets, FiniteSetsExt

CONSTANTS
  Runners,          \* processes that may call run_study
  WebRunner,        \* the one that study_create spawns
  Users,            \* users who may press Cancel, once each
  SearchBatches,    \* batches the ABC submits (bounds colony size and cycles)
  BatchSize,        \* candidates of each (a scout batch has one)
  SearchSeeds, EvaluationSeeds,   \* the two disjoint seed lists of the study
  Scores,           \* scores a successful trial may get
  Mean(_),          \* the score of a candidate from the scores of its seeds
  Cpus,             \* os.cpu_count()
  Suspends,         \* may a live runner miss the heartbeat timeout?
  Crashes,          \* may runners be killed?
  LosesWorkers      \* may pool workers be killed?

ASSUME StudyAssumption ==
  /\ WebRunner \in Runners
  /\ SearchBatches \in Nat \ {0}
  /\ BatchSize \in [1..SearchBatches -> Nat \ {0}]
  /\ SearchSeeds # {} /\ EvaluationSeeds # {}
  /\ Scores \subseteq Nat
  /\ \A f \in [SearchSeeds -> Scores] \cup [EvaluationSeeds -> Scores] :
        Mean(f) \in Nat
  /\ Cpus \in Nat \ {0}
  /\ {Suspends, Crashes, LosesWorkers} \subseteq BOOLEAN

VARIABLES
  study,     \* the HPOStudy row: status, cancel_requested, best_params, best_score
  stale,     \* is heartbeat_at older than ABMEM_HPO_HEARTBEAT_TIMEOUT?
  trial,     \* HPOTrial.status, "none" before the row exists
  score,     \* the score of a FINISHED trial, else NoScore
  sim,       \* its evaluation run: none, created, or linked to the trial
  periods,   \* do Period rows of the evaluation run exist?
  task,      \* the trial's task in the process pool
  pc,        \* where a runner is
  batch,     \* batches the claiming runner has begun
  best,      \* its _StudyEvaluator.best_params and best_score
  cancelPc,  \* where a user's study_cancel request is
  sweepPc    \* where a fail_stale_studies call is

rows == <<trial, score, sim, periods>>
requests == <<cancelPc, sweepPc>>
vars == <<study, stale, rows, task, pc, batch, best, requests>>

-----------------------------------------------------------------------------
(* A trial is <<batch, candidate, seed>>. The final evaluation is one more  *)
(* batch with a single candidate, the best one.                             *)

FinalBatch == SearchBatches + 1
Candidates(b) == IF b = FinalBatch THEN {1} ELSE 1..BatchSize[b]

SeedsOf(b) == IF b = FinalBatch THEN EvaluationSeeds ELSE SearchSeeds
Trials == UNION {{b} \X Candidates(b) \X SeedsOf(b) : b \in 1..FinalBatch}
BatchTrials(b) == {t \in Trials : t[1] = b}
CandidateTrials(b, c) == {t \in Trials : t[1] = b /\ t[2] = c}

NoScore == -1                          \* the code's -inf
NoBest == [batch |-> 0, cand |-> 0, score |-> NoScore]

Terminal == {"FINISHED", "FAILED", "CANCELED"}
ActiveStatuses == {"CREATED", "RUNNING"}

\* Tasks a worker process executes, and tasks that may still change rows.
BusyTasks == {"started", "cloned", "linked", "ran", "reported"}
LiveTasks == BusyTasks \cup {"queued"}

\* A runner between its claim and its end; one that claimed at some time.
ActivePcs == {"check", "create", "poll", "retain", "finish", "cancel",
              "cancelFinish", "fail"}
ClaimedPcs == ActivePcs \cup {"ended", "dead"}

\* run_candidates: the mean over the seeds, -inf if the trial of any failed.
CandidateScore(b, c) ==
  IF \E t \in CandidateTrials(b, c) : trial[t] # "FINISHED" THEN NoScore
  ELSE Mean([s \in SeedsOf(b) |-> score[<<b, c, s>>]])

\* Mutant of UpdateBest: >= for >, a later candidate of equal score wins.
UpdateBestTie(b) ==
  \E c \in Candidates(b) :
    /\ \A d \in Candidates(b) : CandidateScore(b, c) >= CandidateScore(b, d)
    /\ best' = IF CandidateScore(b, c) >= best.score
               THEN [batch |-> b, cand |-> c, score |-> CandidateScore(b, c)]
               ELSE best

\* __call__: of the candidates of the batch the first with the highest score
\* becomes the best one if that score is strictly higher than the best so far.
UpdateBest(b) ==
  \E c \in Candidates(b) :
    /\ \A d \in Candidates(b) :
         \/ CandidateScore(b, c) > CandidateScore(b, d)
         \/ CandidateScore(b, c) = CandidateScore(b, d) /\ c <= d
    /\ best' = IF CandidateScore(b, c) > best.score
               THEN [batch |-> b, cand |-> c, score |-> CandidateScore(b, c)]
               ELSE best

BestTrials == CandidateTrials(best.batch, best.cand)

BestType == [batch : 0..SearchBatches, cand : Nat, score : Nat \cup {NoScore}]

TypeOK ==
  /\ study \in [status : ActiveStatuses \cup Terminal, cancel : BOOLEAN,
                best : BestType]
  /\ stale \in BOOLEAN
  /\ trial \in [Trials -> {"none", "PENDING", "RUNNING", "FINISHED", "FAILED"}]
  /\ score \in [Trials -> Scores \cup {NoScore}]
  /\ sim \in [Trials -> {"none", "created", "linked"}]
  /\ periods \in [Trials -> BOOLEAN]
  /\ task \in [Trials -> {"none", "done", "killed", "lost"} \cup LiveTasks]
  /\ pc \in [Runners -> {"idle", "spawned", "refused"} \cup ClaimedPcs]
  /\ batch \in 0..FinalBatch
  /\ best \in BestType
  /\ cancelPc \in [Users -> {"idle", "flag", "close", "done"}]
  /\ sweepPc \in {"idle", "expired"}

\* create_study has written the CREATED row.
Init ==
  /\ study = [status |-> "CREATED", cancel |-> FALSE, best |-> NoBest]
  /\ stale = FALSE
  /\ trial = [t \in Trials |-> "none"]
  /\ score = [t \in Trials |-> NoScore]
  /\ sim = [t \in Trials |-> "none"]
  /\ periods = [t \in Trials |-> FALSE]
  /\ task = [t \in Trials |-> "none"]
  /\ pc = [r \in Runners |-> "idle"]
  /\ batch = 0
  /\ best = NoBest
  /\ cancelPc = [u \in Users |-> "idle"]
  /\ sweepPc = "idle"

-----------------------------------------------------------------------------
(* Starting and claiming a study.                                          *)

Goto(r, there) == pc' = [pc EXCEPT ![r] = there]

\* start() spawns the web runner; `run_hpo --study` is started by hand.
Spawn(r) ==
  /\ pc[r] = "idle"
  /\ Goto(r, "spawned")
  /\ UNCHANGED <<study, stale, rows, task, batch, best, requests>>

\* Mutant of StartFails: the update is not conditional on CREATED.
StartFailsUnguarded ==
  /\ pc[WebRunner] = "idle"
  /\ Goto(WebRunner, "refused")
  /\ study' = [study EXCEPT !.status = "FAILED"]
  /\ UNCHANGED <<stale, rows, task, batch, best, requests>>

\* start() raised in study_create: _mark_start_failed, a conditional update.
StartFails ==
  /\ pc[WebRunner] = "idle"
  /\ Goto(WebRunner, "refused")
  /\ study' = IF study.status = "CREATED"
              THEN [study EXCEPT !.status = "FAILED"] ELSE study
  /\ UNCHANGED <<stale, rows, task, batch, best, requests>>

\* Mutant of Claim: a plain UPDATE.
ClaimUnguarded(r) ==
  /\ pc[r] = "spawned"
  /\ study' = [study EXCEPT !.status = "RUNNING"]
  /\ stale' = FALSE
  /\ Goto(r, "check")
  /\ UNCHANGED <<rows, task, batch, best, requests>>

\* run_study: UPDATE ... WHERE status = CREATED claims the study.
Claim(r) ==
  /\ pc[r] = "spawned"
  /\ study.status = "CREATED"
  /\ study' = [study EXCEPT !.status = "RUNNING"]
  /\ stale' = FALSE
  /\ Goto(r, "check")
  /\ UNCHANGED <<rows, task, batch, best, requests>>

ClaimRefused(r) ==
  /\ pc[r] = "spawned"
  /\ study.status # "CREATED"
  /\ Goto(r, "refused")
  /\ UNCHANGED <<study, stale, rows, task, batch, best, requests>>

-----------------------------------------------------------------------------
(* The claiming runner: batches of the search, then the final evaluation.  *)

\* _cancel_requested: before every ABC batch (should_stop) and again before
\* the final evaluation. It also refreshes the heartbeat.
CheckCancel(r) ==
  /\ pc[r] = "check"
  /\ stale' = FALSE
  /\ IF study.cancel
     THEN Goto(r, "cancel") /\ UNCHANGED batch
     ELSE Goto(r, "create") /\ batch' = batch + 1
  /\ UNCHANGED <<study, rows, task, best, requests>>

\* run_candidates creates the trial rows one after another.
CreateTrial(r) ==
  /\ pc[r] = "create"
  /\ \E t \in BatchTrials(batch) :
       /\ trial[t] = "none"
       /\ trial' = [trial EXCEPT ![t] = "PENDING"]
  /\ UNCHANGED <<study, stale, score, sim, periods, task, pc, batch, best,
                 requests>>

\* pool_runner: map_async hands every task of the batch to the pool.
SubmitBatch(r) ==
  /\ pc[r] = "create"
  /\ \A t \in BatchTrials(batch) : trial[t] # "none"
  /\ task' = [t \in Trials |-> IF t \in BatchTrials(batch) THEN "queued"
                               ELSE task[t]]
  /\ Goto(r, "poll")
  /\ UNCHANGED <<study, stale, rows, batch, best, requests>>

\* Mutant of BatchReady: a failed trial never counts as done.
BatchReadyAllFinished ==
  \A t \in BatchTrials(batch) : task[t] = "done" /\ trial[t] = "FINISHED"

\* async_result.ready()
BatchReady == \A t \in BatchTrials(batch) : task[t] = "done"

\* Mutant of TerminatePool: pool.close(), running workers go on.
ClosePool ==
  task' = [t \in Trials |-> IF task[t] = "queued" THEN "killed" ELSE task[t]]

\* pool.terminate() and pool.join(): no worker survives.
TerminatePool ==
  task' = [t \in Trials |-> IF task[t] \in LiveTasks THEN "killed"
                            ELSE task[t]]

\* Mutant of Poll: the loop waits without asking is_canceled().
PollBlind(r) ==
  /\ pc[r] = "poll"
  /\ ~BatchReady
  /\ stale' = FALSE
  /\ UNCHANGED <<study, rows, task, pc, batch, best, requests>>

\* One round of the poll loop while the batch is not ready.
Poll(r) ==
  /\ pc[r] = "poll"
  /\ ~BatchReady
  /\ stale' = FALSE
  /\ IF study.cancel
     THEN Goto(r, "cancel") /\ TerminatePool
     ELSE UNCHANGED <<pc, task>>
  /\ UNCHANGED <<study, rows, batch, best, requests>>

\* The batch is ready: the outcomes are collected and scored without another
\* look at the cancel flag.
Collect(r) ==
  /\ pc[r] = "poll"
  /\ BatchReady
  /\ stale' = FALSE
  /\ LET final == batch = FinalBatch
         failed == \/ \A t \in BatchTrials(batch) : trial[t] # "FINISHED"
                   \/ final /\ CandidateScore(batch, 1) = NoScore
     IN /\ Goto(r, IF failed THEN "fail" ELSE "retain")
        /\ IF failed \/ final THEN UNCHANGED best ELSE UpdateBest(batch)
  /\ UNCHANGED <<study, rows, task, batch, requests>>

\* The trials whose evaluation data apply_retention keeps.
Kept == BestTrials \cup BatchTrials(FinalBatch)

\* apply_retention: the periods of every other FINISHED evaluation go.
Retain(r) ==
  /\ pc[r] = "retain"
  /\ periods' = [t \in Trials |->
       /\ periods[t]
       /\ trial[t] = "FINISHED" /\ sim[t] = "linked" => t \in Kept]
  /\ Goto(r, IF batch = FinalBatch THEN "finish"
             ELSE IF batch = SearchBatches /\ best.score = NoScore THEN "fail"
             ELSE "check")
  /\ UNCHANGED <<study, stale, trial, score, sim, task, batch, best, requests>>

\* _finish: an UPDATE that does not look at the current status.
Finish(r, from, status, result) ==
  /\ pc[r] = from
  /\ study' = [study EXCEPT !.status = status, !.best = result]
  /\ stale' = FALSE
  /\ Goto(r, "ended")
  /\ UNCHANGED <<rows, task, batch, best, requests>>

\* The final evaluation's score is stored, not the search score.
FinishFinished(r) ==
  Finish(r, "finish", "FINISHED",
         [best EXCEPT !.score = CandidateScore(FinalBatch, 1)])
FinishCanceled(r) == Finish(r, "cancelFinish", "CANCELED", study.best)
FinishFailed(r) == Finish(r, "fail", "FAILED", study.best)

\* Mutant of MarkCanceled: trials a worker had begun are forgotten.
MarkCanceledPending(r) ==
  /\ pc[r] = "cancel"
  /\ trial' = [t \in Trials |-> IF trial[t] = "PENDING" THEN "FAILED"
                                ELSE trial[t]]
  /\ Goto(r, "cancelFinish")
  /\ UNCHANGED <<study, stale, score, sim, periods, task, batch, best, requests>>

\* except StudyCanceled: the unfinished trials become FAILED.
MarkCanceled(r) ==
  /\ pc[r] = "cancel"
  /\ trial' = [t \in Trials |-> IF trial[t] \in {"PENDING", "RUNNING"}
                                THEN "FAILED" ELSE trial[t]]
  /\ Goto(r, "cancelFinish")
  /\ UNCHANGED <<study, stale, score, sim, periods, task, batch, best, requests>>

\* Any other exception inside the try block; pool_runner's finally clause
\* ends the pool. The trials keep their status.
RunnerError(r) ==
  /\ pc[r] \in {"check", "create", "poll", "retain", "finish"}
  /\ TerminatePool
  /\ Goto(r, "fail")
  /\ UNCHANGED <<study, stale, rows, batch, best, requests>>

\* The process is killed. Tasks its workers hold go on without it.
Crash(r) ==
  /\ Crashes
  /\ pc[r] \in ActivePcs \cup {"spawned"}
  /\ Goto(r, IF pc[r] = "spawned" THEN "refused" ELSE "dead")
  /\ UNCHANGED <<study, stale, rows, task, batch, best, requests>>

-----------------------------------------------------------------------------
(* Pool workers: evaluate_task.                                            *)

Step(t, from, to) == task[t] = from /\ task' = [task EXCEPT ![t] = to]

WorkerStart(t) ==
  /\ Cardinality({x \in Trials : task[x] \in BusyTasks}) < Cpus
  /\ Step(t, "queued", "started")
  /\ trial' = [trial EXCEPT ![t] = "RUNNING"]
  /\ UNCHANGED <<study, stale, score, sim, periods, pc, batch, best, requests>>

\* clone_scenario_for_run commits the evaluation run ...
WorkerClone(t) ==
  /\ Step(t, "started", "cloned")
  /\ sim' = [sim EXCEPT ![t] = "created"]
  /\ UNCHANGED <<study, stale, trial, score, periods, pc, batch, best, requests>>

\* ... and a second statement links it to the trial.
WorkerLink(t) ==
  /\ Step(t, "cloned", "linked")
  /\ sim' = [sim EXCEPT ![t] = "linked"]
  /\ UNCHANGED <<study, stale, trial, score, periods, pc, batch, best, requests>>

\* simulation_service.run commits its periods.
WorkerRun(t) ==
  /\ Step(t, "linked", "ran")
  /\ periods' = [periods EXCEPT ![t] = TRUE]
  /\ UNCHANGED <<study, stale, trial, score, sim, pc, batch, best, requests>>

WorkerFinish(t) ==
  /\ Step(t, "ran", "reported")
  /\ trial' = [trial EXCEPT ![t] = "FINISHED"]
  /\ \E s \in Scores : score' = [score EXCEPT ![t] = s]
  /\ UNCHANGED <<study, stale, sim, periods, pc, batch, best, requests>>

\* Any exception, and a score that is not finite. A run that fails half way
\* may have committed some periods.
WorkerFail(t) ==
  /\ task[t] \in {"started", "cloned", "linked", "ran"}
  /\ task' = [task EXCEPT ![t] = "reported"]
  /\ trial' = [trial EXCEPT ![t] = "FAILED"]
  /\ \/ UNCHANGED periods
     \/ task[t] = "linked" /\ periods' = [periods EXCEPT ![t] = TRUE]
  /\ UNCHANGED <<study, stale, score, sim, pc, batch, best, requests>>

\* _touch_heartbeat, and the outcome goes back through the pool.
WorkerReport(t) ==
  /\ Step(t, "reported", "done")
  /\ stale' = FALSE
  /\ UNCHANGED <<study, rows, pc, batch, best, requests>>

\* A killed worker's task never becomes ready; the Pool replaces the process
\* but not the task.
WorkerLost(t) ==
  /\ LosesWorkers
  /\ task[t] \in BusyTasks
  /\ task' = [task EXCEPT ![t] = "lost"]
  /\ UNCHANGED <<study, stale, rows, pc, batch, best, requests>>

-----------------------------------------------------------------------------
(* Requests to the web process.                                            *)

\* study_cancel reads the status before anything else.
CancelRead(u) ==
  /\ cancelPc[u] = "idle"
  /\ cancelPc' = [cancelPc EXCEPT
       ![u] = IF study.status \in ActiveStatuses THEN "flag" ELSE "done"]
  /\ UNCHANGED <<study, stale, rows, task, pc, batch, best, sweepPc>>

\* request_cancel sets the flag whatever the status is by now ...
CancelFlag(u) ==
  /\ cancelPc[u] = "flag"
  /\ study' = [study EXCEPT !.cancel = TRUE]
  /\ cancelPc' = [cancelPc EXCEPT ![u] = "close"]
  /\ UNCHANGED <<stale, rows, task, pc, batch, best, sweepPc>>

\* ... and closes the study itself if it is still CREATED.
CancelClose(u) ==
  /\ cancelPc[u] = "close"
  /\ study' = IF study.status = "CREATED"
              THEN [study EXCEPT !.status = "CANCELED"] ELSE study
  /\ cancelPc' = [cancelPc EXCEPT ![u] = "done"]
  /\ UNCHANGED <<stale, rows, task, pc, batch, best, sweepPc>>

\* The timeout passes without a heartbeat. Polling is every two seconds, so a
\* live runner only misses it when it is suspended or blocked.
HeartbeatExpires ==
  /\ ~stale
  /\ study.status = "RUNNING"
  /\ Suspends \/ \A r \in Runners : pc[r] \notin ActivePcs
  /\ stale' = TRUE
  /\ UNCHANGED <<study, rows, task, pc, batch, best, requests>>

\* fail_stale_studies reads the RUNNING studies and their heartbeats ...
SweepRead ==
  /\ sweepPc = "idle"
  /\ study.status = "RUNNING" /\ stale
  /\ sweepPc' = "expired"
  /\ UNCHANGED <<study, stale, rows, task, pc, batch, best, cancelPc>>

\* ... then updates those it found too old, if they are still RUNNING.
SweepFail ==
  /\ sweepPc = "expired"
  /\ study' = IF study.status = "RUNNING"
              THEN [study EXCEPT !.status = "FAILED"] ELSE study
  /\ sweepPc' = "idle"
  /\ UNCHANGED <<stale, rows, task, pc, batch, best, cancelPc>>

-----------------------------------------------------------------------------
RunnerStep(r) ==
  \/ Claim(r) \/ ClaimRefused(r) \/ CheckCancel(r) \/ CreateTrial(r)
  \/ SubmitBatch(r) \/ Poll(r) \/ Collect(r) \/ Retain(r)
  \/ MarkCanceled(r)
  \/ FinishFinished(r) \/ FinishCanceled(r) \/ FinishFailed(r)

WorkerStep(t) == WorkerClone(t) \/ WorkerLink(t) \/ WorkerRun(t)
                 \/ WorkerFinish(t) \/ WorkerReport(t)

UserStep(u) == CancelFlag(u) \/ CancelClose(u)

Sweep == SweepRead \/ SweepFail

Next ==
  \/ StartFails
  \/ \E r \in Runners : \/ Spawn(r) \/ RunnerStep(r)
                        \/ RunnerError(r) \/ Crash(r)
  \/ \E t \in Trials : \/ WorkerStart(t) \/ WorkerStep(t)
                       \/ WorkerFail(t) \/ WorkerLost(t)
  \/ \E u \in Users : CancelRead(u) \/ UserStep(u)
  \/ HeartbeatExpires \/ Sweep

Spec == Init /\ [][Next]_vars

\* Processes keep running, a queued task starts while its pool lives, time
\* passes, and somebody keeps a study page open, whose polling runs the sweep.
Fairness ==
  /\ \A r \in Runners : WF_vars(RunnerStep(r))
  /\ \A t \in Trials :
       /\ WF_vars(WorkerStep(t))
       /\ WF_vars(WorkerStart(t) /\ \E r \in Runners : pc[r] = "poll")
  /\ \A u \in Users : WF_vars(UserStep(u))
  /\ WF_vars(HeartbeatExpires)
  /\ WF_vars(Sweep)

FairSpec == Spec /\ Fairness
-----------------------------------------------------------------------------
(* Properties.                                                             *)

Ended == study.status \in Terminal

\* However many processes are started on a study, at most one ever runs it
\* (the conditional UPDATE at the head of run_study).
OneProcessPerStudy ==
  \A r, s \in Runners : pc[r] \in ClaimedPcs /\ pc[s] \in ClaimedPcs => r = s

\* When a study shows CANCELED, nothing of it is left running: no trial is
\* PENDING or RUNNING and no worker can still write one (the pool is joined
\* before the trials are marked and the status is set).
SettledWhenCanceled ==
  study.status = "CANCELED" =>
    \A t \in Trials : /\ trial[t] \notin {"PENDING", "RUNNING"}
                      /\ task[t] \notin LiveTasks

\* The trials, their evaluation data and the result of a study that is
\* FINISHED or CANCELED never change again, late workers and a second
\* process included.
ResultsFrozen ==
  [][study.status \in {"FINISHED", "CANCELED"} =>
       /\ UNCHANGED rows
       /\ study'.status = study.status
       /\ study'.best = study.best]_vars

\* A FINISHED study's best_params are those of the first candidate with the
\* highest search score, and best_score is its score on the held-out seeds:
\* no failed, late or purged evaluation takes part (_StudyEvaluator).
BestIsFirstMaximum ==
  study.status = "FINISHED" =>
    LET b == study.best.batch
        c == study.best.cand
    IN /\ b \in 1..SearchBatches
       /\ \A x \in 1..SearchBatches : \A y \in Candidates(x) :
            \/ CandidateScore(x, y) < CandidateScore(b, c)
            \/ /\ CandidateScore(x, y) = CandidateScore(b, c)
               /\ x > b \/ (x = b /\ y >= c)
       /\ study.best.score = CandidateScore(FinalBatch, 1)
       /\ study.best.score # NoScore

\* When the study is FINISHED, exactly the evaluations of the best candidate
\* and of the final evaluation still have their periods among the FINISHED
\* trials (apply_retention after every batch).
RetentionExact ==
  study.status = "FINISHED" =>
    \A t \in Trials :
      trial[t] = "FINISHED" =>
        (periods[t] <=> \/ t \in CandidateTrials(study.best.batch, study.best.cand)
                        \/ t[1] = FinalBatch)

\* What a finished study shows, and what it has kept of its trials: the result
\* was evaluated, is the first maximum of the search, and can be opened.
ResultExact == BestIsFirstMaximum /\ RetentionExact

\* Once cancellation is requested no further batch begins, the final
\* evaluation included (should_stop and the check before FINAL_EVAL).
CancelStopsNewBatches == [][study.cancel => batch' = batch]_vars

\* The study keeps the contract of HpoLifecycle.
Lifecycle == INSTANCE HpoLifecycle WITH status <- study.status,
                                        cancel <- study.cancel
ImplementsLifecycle == Lifecycle!Spec

\* A requested cancellation ends a RUNNING study, even when a worker was lost
\* or the runner was killed.
CancelEnds == (study.status = "RUNNING" /\ study.cancel) ~> Ended

\* A RUNNING study ends, or waits for the task of a lost worker: failed
\* evaluations and a killed runner do not keep it RUNNING for ever.
EndsUnlessWorkerLost ==
  study.status = "RUNNING" ~> (Ended \/ \E t \in Trials : task[t] = "lost")

\* hpo_service.py:824: run_study takes a study from RUNNING to one end. A
\* status set by fail_stale_studies is overwritten by a runner that was only
\* suspended.
EndIsFinal == [][Ended => study'.status = study.status]_vars

\* ARCHITECTURE.md:658: the heartbeat is updated before every batch and after
\* every finished trial, so a study that makes no progress goes stale. The
\* poll loop refreshes it too, so a batch that waits for a lost worker never
\* does.
LostWorkerIsNoticed ==
  (study.status = "RUNNING" /\ \E t \in Trials : task[t] = "lost") ~> Ended
=============================================================================
