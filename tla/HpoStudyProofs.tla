--------------------------- MODULE HpoStudyProofs ---------------------------
(***************************************************************************)
(* Theorems about HpoStudy, for any number of processes, users, batches,   *)
(* candidates, seeds and processors, with suspended runners, crashes and   *)
(* lost workers.                                                           *)
(***************************************************************************)
EXTENDS HpoStudy, TLAPS

Claimed(r) == pc[r] \in ClaimedPcs
Settled(t) == trial[t] \notin {"PENDING", "RUNNING"}

(***************************************************************************)
(* The inductive invariant.                                                *)
(***************************************************************************)

\* A FINISHED trial has a score, and the batch counter is in range where the
\* runner uses it.
Data ==
  /\ \A t \in Trials : trial[t] = "FINISHED" => score[t] \in Scores
  /\ \A r \in Runners :
       /\ pc[r] = "check" => batch \in 0..SearchBatches
       /\ pc[r] \in {"create", "poll", "retain"} => batch \in 1..FinalBatch

\* Nothing happens to the study's rows before a runner claims it.
Untouched ==
  /\ study.status = "CREATED" => \A r \in Runners : ~Claimed(r)
  /\ (\A r \in Runners : ~Claimed(r)) =>
        /\ batch = 0
        /\ \A t \in Trials : trial[t] = "none" /\ task[t] = "none"

\* Workers only live under a runner that polls its batch, or died.
Supervised ==
  \A t \in Trials : task[t] \in LiveTasks =>
    \E r \in Runners : pc[r] = "dead" \/ (pc[r] = "poll" /\ t[1] = batch)

\* The runner sets CANCELED after it marked the trials.
Marked ==
  \A r \in Runners : pc[r] = "cancelFinish" => \A t \in Trials : Settled(t)

\* FINISHED and CANCELED are only written by the runner's last step, or before
\* any runner claimed the study.
Closed ==
  study.status \in {"FINISHED", "CANCELED"} =>
    \A r \in Runners : pc[r] \notin ActivePcs \cup {"dead"}

IInv == /\ TypeOK
        /\ Data
        /\ OneProcessPerStudy
        /\ Untouched
        /\ Supervised
        /\ Marked
        /\ Closed
        /\ SettledWhenCanceled

-----------------------------------------------------------------------------
(* Facts about the sets the model is built from.                           *)

LEMMA TrialFacts ==
  ASSUME NEW t \in Trials
  PROVE  /\ t[1] \in 1..FinalBatch
         /\ t[2] \in Candidates(t[1])
         /\ t[3] \in SeedsOf(t[1])
         /\ t = <<t[1], t[2], t[3]>>
BY DEF Trials

LEMMA TrialOf ==
  ASSUME NEW b \in 1..FinalBatch, NEW c \in Candidates(b), NEW s \in SeedsOf(b)
  PROVE  <<b, c, s>> \in CandidateTrials(b, c)
<1>1. <<b, c, s>> \in {b} \X Candidates(b) \X SeedsOf(b)
  OBVIOUS
<1>2. <<b, c, s>> \in Trials
  BY <1>1 DEF Trials
<1>. QED
  BY <1>2 DEF CandidateTrials

LEMMA BatchRange == SearchBatches \in Nat \ {0} /\ FinalBatch = SearchBatches + 1
BY StudyAssumption DEF FinalBatch

LEMMA CandidateNat ==
  ASSUME NEW b \in 1..FinalBatch
  PROVE  Candidates(b) \subseteq Nat
BY StudyAssumption, BatchRange DEF Candidates

\* A candidate's score is a number, or NoScore.
LEMMA CandidateScoreType ==
  ASSUME TypeOK, Data, NEW b \in 1..FinalBatch, NEW c \in Candidates(b)
  PROVE  CandidateScore(b, c) \in Nat \cup {NoScore}
<1>1. CASE \E t \in CandidateTrials(b, c) : trial[t] # "FINISHED"
  BY <1>1 DEF CandidateScore
<1>2. CASE \A t \in CandidateTrials(b, c) : trial[t] = "FINISHED"
  <2> DEFINE f == [s \in SeedsOf(b) |-> score[<<b, c, s>>]]
  <2>1. \A s \in SeedsOf(b) : score[<<b, c, s>>] \in Scores
    BY <1>2, TrialOf DEF Data, CandidateTrials
  <2>2. f \in [SeedsOf(b) -> Scores]
    BY <2>1
  <2>3. f \in [SearchSeeds -> Scores] \cup [EvaluationSeeds -> Scores]
    BY <2>2 DEF SeedsOf
  <2>4. Mean(f) \in Nat
    BY <2>3, StudyAssumption
  <2>. QED
    BY <2>4, <1>2 DEF CandidateScore
<1>. QED
  BY <1>1, <1>2

-----------------------------------------------------------------------------
(* The invariant is inductive. One lemma for each process; in each, one     *)
(* step per action.                                                         *)

LEMMA InitInv == Init => IInv
<1>. SUFFICES ASSUME Init PROVE IInv
  OBVIOUS
<1>1. NoBest \in BestType
  BY BatchRange DEF BestType, NoBest
<1>2. study \in [status : ActiveStatuses \cup Terminal, cancel : BOOLEAN,
                best : BestType]
  BY <1>1 DEF Init, ActiveStatuses
<1>3. batch \in 0..FinalBatch
  BY BatchRange DEF Init
<1>4. TypeOK
  BY <1>1, <1>2, <1>3 DEF Init, TypeOK
<1>. QED
  BY <1>4, BatchRange DEF Init, IInv, Data, OneProcessPerStudy, Untouched, Supervised,
     Marked, Closed, SettledWhenCanceled, Claimed, ClaimedPcs, ActivePcs,
     LiveTasks, BusyTasks

\* Requests to the web process never touch trials, tasks or runners.
LEMMA WebInv ==
  ASSUME IInv,
         HeartbeatExpires \/ Sweep \/ \E u \in Users : CancelRead(u) \/ UserStep(u)
  PROVE  IInv'
<1>. USE DEF IInv
<1>1. /\ UNCHANGED <<trial, score, sim, periods, task, pc, batch, best>>
      /\ study' \in [status : ActiveStatuses \cup Terminal, cancel : BOOLEAN,
                     best : BestType]
      /\ \/ study'.status = study.status
         \/ study'.status = "FAILED" /\ study.status = "RUNNING"
         \/ study'.status = "CANCELED" /\ study.status = "CREATED"
  <2>1. CASE HeartbeatExpires
    BY <2>1 DEF HeartbeatExpires, TypeOK, rows, requests
  <2>2. CASE SweepRead
    BY <2>2 DEF SweepRead, TypeOK, rows
  <2>3. CASE SweepFail
    BY <2>3 DEF SweepFail, TypeOK, rows, Terminal
  <2>4. ASSUME NEW u \in Users, CancelRead(u) PROVE <1>1
    BY <2>4 DEF CancelRead, TypeOK, rows
  <2>5. ASSUME NEW u \in Users, CancelFlag(u) PROVE <1>1
    BY <2>5 DEF CancelFlag, TypeOK, rows
  <2>6. ASSUME NEW u \in Users, CancelClose(u) PROVE <1>1
    BY <2>6 DEF CancelClose, TypeOK, rows, Terminal
  <2>. QED
    BY <2>1, <2>2, <2>3, <2>4, <2>5, <2>6 DEF Sweep, UserStep
<1>2. /\ stale' \in BOOLEAN
      /\ cancelPc' \in [Users -> {"idle", "flag", "close", "done"}]
      /\ sweepPc' \in {"idle", "expired"}
  BY DEF HeartbeatExpires, Sweep, SweepRead, SweepFail, UserStep, CancelRead,
         CancelFlag, CancelClose, TypeOK, requests
<1>3. TypeOK'
  BY <1>1, <1>2 DEF TypeOK
<1>4. Data' /\ OneProcessPerStudy' /\ Supervised' /\ Marked'
  BY <1>1 DEF Data, OneProcessPerStudy, Supervised, Marked, Settled
<1>5. Untouched'
  BY <1>1 DEF Untouched, Claimed
<1>6. Closed'
  BY <1>1 DEF Closed, Untouched, Claimed, ClaimedPcs
<1>7. SettledWhenCanceled'
  BY <1>1 DEF SettledWhenCanceled, Untouched, Claimed, LiveTasks, BusyTasks
<1>. QED
  BY <1>3, <1>4, <1>5, <1>6, <1>7

\* A worker's step changes the rows of one live task's trial.
LEMMA WorkerInv ==
  ASSUME IInv, NEW t \in Trials,
         WorkerStart(t) \/ WorkerStep(t) \/ WorkerFail(t) \/ WorkerLost(t)
  PROVE  IInv'
<1>. USE DEF IInv
<1>1. /\ task[t] \in LiveTasks
      /\ \E to \in {"done", "lost"} \cup BusyTasks : task' = [task EXCEPT ![t] = to]
      /\ \/ UNCHANGED <<trial, score>>
         \/ /\ \E st \in {"RUNNING", "FAILED"} : trial' = [trial EXCEPT ![t] = st]
            /\ UNCHANGED score
         \/ /\ trial' = [trial EXCEPT ![t] = "FINISHED"]
            /\ \E x \in Scores : score' = [score EXCEPT ![t] = x]
      /\ UNCHANGED <<study, pc, batch, best, cancelPc, sweepPc>>
  BY DEF WorkerStart, WorkerStep, WorkerFail, WorkerLost, WorkerClone,
         WorkerLink, WorkerRun, WorkerFinish, WorkerReport, Step, LiveTasks,
         BusyTasks, requests, rows
<1>2. stale' \in BOOLEAN /\ sim' \in [Trials -> {"none", "created", "linked"}]
      /\ periods' \in [Trials -> BOOLEAN]
  BY DEF WorkerStart, WorkerStep, WorkerFail, WorkerLost, WorkerClone,
         WorkerLink, WorkerRun, WorkerFinish, WorkerReport, rows, TypeOK
<1>3. TypeOK'
  <2>1. task' \in [Trials -> {"none", "done", "killed", "lost"} \cup LiveTasks]
    BY <1>1 DEF TypeOK, LiveTasks
  <2>2. trial' \in [Trials -> {"none", "PENDING", "RUNNING", "FINISHED", "FAILED"}]
    BY <1>1 DEF TypeOK
  <2>3. score' \in [Trials -> Scores \cup {NoScore}]
    BY <1>1 DEF TypeOK
  <2>. QED
    BY <1>1, <1>2, <2>1, <2>2, <2>3 DEF TypeOK
<1>4. Data'
  BY <1>1 DEF Data, TypeOK
<1>5. PICK r \in Runners : pc[r] = "dead" \/ (pc[r] = "poll" /\ t[1] = batch)
  BY <1>1 DEF Supervised
<1>6. OneProcessPerStudy' /\ Closed'
  BY <1>1 DEF OneProcessPerStudy, Closed
<1>7. Untouched'
  BY <1>1, <1>5 DEF Untouched, Claimed, ClaimedPcs, ActivePcs
<1>8. Supervised'
  BY <1>1, <1>5 DEF Supervised, TypeOK
<1>9. Marked'
  BY <1>1, <1>5 DEF Marked, OneProcessPerStudy, ClaimedPcs, ActivePcs
<1>10. SettledWhenCanceled'
  BY <1>1, <1>5 DEF SettledWhenCanceled, Closed, ActivePcs
<1>. QED
  BY <1>3, <1>4, <1>6, <1>7, <1>8, <1>9, <1>10

\* A runner's step. Only the runner that claimed the study takes more than the
\* steps up to its claim.
LEMMA SpawnInv ==
  ASSUME IInv, NEW r \in Runners, Spawn(r) \/ ClaimRefused(r) \/ StartFails
  PROVE  IInv'
<1>. USE DEF IInv
<1>1. /\ UNCHANGED <<stale, trial, score, sim, periods, task, batch, best,
                     cancelPc, sweepPc>>
      /\ \E q \in Runners, to \in {"spawned", "refused"} :
           ~Claimed(q) /\ pc' = [pc EXCEPT ![q] = to]
      /\ \/ study' = study
         \/ study.status = "CREATED" /\ study' = [study EXCEPT !.status = "FAILED"]
  BY StudyAssumption DEF Spawn, ClaimRefused, StartFails, Goto, rows, requests,
     Claimed, ClaimedPcs, ActivePcs
<1>2. PICK q \in Runners, to \in {"spawned", "refused"} :
        ~Claimed(q) /\ pc' = [pc EXCEPT ![q] = to]
  BY <1>1
<1>3. /\ study'.status = study.status \/ study'.status = "FAILED"
      /\ study'.status = "CREATED" => study.status = "CREATED"
      /\ study' \in [status : ActiveStatuses \cup Terminal, cancel : BOOLEAN,
                     best : BestType]
  BY <1>1 DEF TypeOK, Terminal
<1>4. pc' \in [Runners -> {"idle", "spawned", "refused"} \cup ClaimedPcs]
  BY <1>2 DEF TypeOK
<1>5. \A x \in Runners :
        \/ pc'[x] = pc[x]
        \/ pc[x] \notin ClaimedPcs /\ pc'[x] \in {"spawned", "refused"}
  BY <1>2 DEF TypeOK, Claimed
<1>6. TypeOK'
  BY <1>1, <1>3, <1>4 DEF TypeOK
<1>7. Data' /\ OneProcessPerStudy' /\ Untouched'
  BY <1>1, <1>3, <1>5 DEF Data, OneProcessPerStudy, Untouched, Claimed, ClaimedPcs,
     ActivePcs
<1>8. Supervised' /\ Marked' /\ SettledWhenCanceled'
  BY <1>1, <1>3, <1>5 DEF Supervised, Marked, Settled, SettledWhenCanceled,
     ClaimedPcs, ActivePcs
<1>9. Closed'
  BY <1>1, <1>3, <1>5 DEF Closed, ClaimedPcs, ActivePcs
<1>. QED
  BY <1>6, <1>7, <1>8, <1>9

LEMMA ClaimInv ==
  ASSUME IInv, NEW r \in Runners, Claim(r)
  PROVE  IInv'
<1>. USE DEF IInv
<1>1. /\ UNCHANGED <<trial, score, sim, periods, task, batch, best, cancelPc, sweepPc>>
      /\ study.status = "CREATED" /\ stale' = FALSE
      /\ study' = [study EXCEPT !.status = "RUNNING"]
      /\ pc[r] = "spawned" /\ pc' = [pc EXCEPT ![r] = "check"]
  BY DEF Claim, Goto, rows, requests
<1>2. /\ study'.status = "RUNNING"
      /\ study' \in [status : ActiveStatuses \cup Terminal, cancel : BOOLEAN,
                     best : BestType]
  BY <1>1 DEF TypeOK, ActiveStatuses
<1>3. \A x \in Runners : ~Claimed(x)
  BY <1>1 DEF Untouched
<1>4. /\ pc' \in [Runners -> {"idle", "spawned", "refused"} \cup ClaimedPcs]
      /\ pc'[r] = "check"
      /\ \A x \in Runners \ {r} : pc'[x] \notin ClaimedPcs
  BY <1>1, <1>3 DEF TypeOK, Claimed, ClaimedPcs, ActivePcs
<1>5. batch = 0 /\ \A t \in Trials : trial[t] = "none" /\ task[t] = "none"
  BY <1>3 DEF Untouched
<1>6. TypeOK'
  BY <1>1, <1>2, <1>4 DEF TypeOK
<1>7. Data'
  BY <1>1, <1>4, <1>5, BatchRange DEF Data, ClaimedPcs, ActivePcs
<1>8. OneProcessPerStudy' /\ Untouched'
  BY <1>1, <1>2, <1>4 DEF OneProcessPerStudy, Untouched, Claimed, ClaimedPcs, ActivePcs
<1>9. Supervised' /\ Marked' /\ Closed' /\ SettledWhenCanceled'
  BY <1>1, <1>2, <1>4, <1>5 DEF Supervised, Marked, Closed, SettledWhenCanceled,
     LiveTasks, BusyTasks, ClaimedPcs, ActivePcs
<1>. QED
  BY <1>6, <1>7, <1>8, <1>9

\* What the runner that owns the study can rely on: it is alone, no other
\* process ended the study as FINISHED or CANCELED, and outside of the poll
\* loop no worker lives.
LEMMA OwnerFacts ==
  ASSUME IInv, NEW r \in Runners, pc[r] \in ActivePcs
  PROVE  /\ \A x \in Runners \ {r} : pc[x] \notin ClaimedPcs
         /\ study.status \notin {"CREATED", "FINISHED", "CANCELED"}
         /\ \A t \in Trials : task[t] \in LiveTasks => pc[r] = "poll" /\ t[1] = batch
<1>. USE DEF IInv, ClaimedPcs
<1>1. \A x \in Runners \ {r} : pc[x] \notin ClaimedPcs
  BY DEF OneProcessPerStudy
<1>2. study.status \notin {"CREATED", "FINISHED", "CANCELED"}
  BY DEF Untouched, Closed, Claimed
<1>3. \A t \in Trials : task[t] \in LiveTasks => pc[r] = "poll" /\ t[1] = batch
  BY <1>1 DEF Supervised, ActivePcs
<1>. QED
  BY <1>1, <1>2, <1>3

\* A step of the owner that leaves the study row alone.
LEMMA OwnerStep ==
  ASSUME IInv, NEW r \in Runners, NEW to \in ClaimedPcs, pc[r] \in ActivePcs,
         pc' = [pc EXCEPT ![r] = to], study' = study
  PROVE  /\ pc' \in [Runners -> {"idle", "spawned", "refused"} \cup ClaimedPcs]
         /\ pc'[r] = to
         /\ \A x \in Runners \ {r} : pc'[x] \notin ClaimedPcs
         /\ OneProcessPerStudy' /\ Untouched' /\ Closed' /\ SettledWhenCanceled'
<1>1. /\ pc' \in [Runners -> {"idle", "spawned", "refused"} \cup ClaimedPcs]
      /\ pc'[r] = to
      /\ \A x \in Runners \ {r} : pc'[x] \notin ClaimedPcs
  BY OwnerFacts DEF IInv, TypeOK
<1>2. OneProcessPerStudy' /\ Untouched'
  BY <1>1, OwnerFacts DEF OneProcessPerStudy, Untouched, Claimed
<1>3. Closed' /\ SettledWhenCanceled'
  BY OwnerFacts DEF Closed, SettledWhenCanceled
<1>. QED
  BY <1>1, <1>2, <1>3

\* The steps between the batches and the marking of a canceled study.
LEMMA BatchInv ==
  ASSUME IInv, NEW r \in Runners,
         CheckCancel(r) \/ CreateTrial(r) \/ SubmitBatch(r)
  PROVE  IInv'
<1>1. ASSUME CheckCancel(r) PROVE IInv'
  <2>1. /\ UNCHANGED <<study, trial, score, sim, periods, task, best, cancelPc, sweepPc>>
        /\ pc[r] = "check" /\ stale' = FALSE
        /\ \/ pc' = [pc EXCEPT ![r] = "cancel"] /\ batch' = batch
           \/ pc' = [pc EXCEPT ![r] = "create"] /\ batch' = batch + 1
    BY <1>1 DEF CheckCancel, Goto, rows, requests
  <2>2. PICK to \in {"cancel", "create"} : pc' = [pc EXCEPT ![r] = to]
    BY <2>1
  <2>3. to \in ClaimedPcs /\ pc[r] \in ActivePcs
    BY <2>1, <2>2 DEF ClaimedPcs, ActivePcs
  <2>4. /\ pc' \in [Runners -> {"idle", "spawned", "refused"} \cup ClaimedPcs]
        /\ pc'[r] = to
        /\ \A x \in Runners \ {r} : pc'[x] \notin ClaimedPcs
        /\ OneProcessPerStudy' /\ Untouched' /\ Closed' /\ SettledWhenCanceled'
    BY <2>1, <2>2, <2>3, OwnerStep
  <2>5. batch \in 0..SearchBatches /\ batch' \in 0..FinalBatch
        /\ (to = "create" => batch' \in 1..FinalBatch)
    BY <2>1, <2>4, BatchRange DEF IInv, Data
  <2>6. TypeOK'
    BY <2>1, <2>4, <2>5 DEF IInv, TypeOK
  <2>7. Data'
    BY <2>1, <2>4, <2>5 DEF IInv, Data, ClaimedPcs, ActivePcs
  <2>8. \A t \in Trials : task[t] \notin LiveTasks
    BY <2>1, <2>3, OwnerFacts
  <2>9. Supervised' /\ Marked'
    BY <2>1, <2>4, <2>8 DEF Supervised, Marked, ClaimedPcs, ActivePcs
  <2>. QED
    BY <2>4, <2>6, <2>7, <2>9 DEF IInv
<1>2. ASSUME CreateTrial(r) PROVE IInv'
  <2>1. /\ UNCHANGED <<study, stale, score, sim, periods, task, pc, batch, best,
                       cancelPc, sweepPc>>
        /\ pc[r] = "create"
        /\ \E t \in Trials : trial' = [trial EXCEPT ![t] = "PENDING"]
    BY <1>2 DEF CreateTrial, BatchTrials, requests
  <2>2. pc[r] \in ActivePcs
    BY <2>1 DEF ActivePcs
  <2>3. TypeOK'
    BY <2>1 DEF IInv, TypeOK
  <2>4. Data' /\ OneProcessPerStudy' /\ Supervised' /\ Closed'
    BY <2>1 DEF IInv, TypeOK, Data, OneProcessPerStudy, Supervised, Closed
  <2>5. Untouched' /\ SettledWhenCanceled'
    BY <2>1, <2>2, OwnerFacts DEF IInv, Untouched, Claimed, ClaimedPcs,
       SettledWhenCanceled
  <2>6. Marked'
    BY <2>1, <2>2, OwnerFacts DEF Marked, ClaimedPcs, ActivePcs
  <2>. QED
    BY <2>3, <2>4, <2>5, <2>6 DEF IInv
<1>3. ASSUME SubmitBatch(r) PROVE IInv'
  <2>1. /\ UNCHANGED <<study, stale, trial, score, sim, periods, batch, best,
                       cancelPc, sweepPc>>
        /\ pc[r] = "create" /\ pc' = [pc EXCEPT ![r] = "poll"]
        /\ task' = [t \in Trials |-> IF t \in BatchTrials(batch) THEN "queued"
                                     ELSE task[t]]
    BY <1>3 DEF SubmitBatch, Goto, rows, requests
  <2>3. "poll" \in ClaimedPcs /\ pc[r] \in ActivePcs
    BY <2>1 DEF ClaimedPcs, ActivePcs
  <2>4. /\ pc' \in [Runners -> {"idle", "spawned", "refused"} \cup ClaimedPcs]
        /\ pc'[r] = "poll"
        /\ \A x \in Runners \ {r} : pc'[x] \notin ClaimedPcs
        /\ OneProcessPerStudy' /\ Untouched' /\ Closed' /\ SettledWhenCanceled'
    BY <2>1, <2>3, OwnerStep
  <2>5. task' \in [Trials -> {"none", "done", "killed", "lost"} \cup LiveTasks]
    BY <2>1 DEF IInv, TypeOK, LiveTasks
  <2>6. TypeOK'
    BY <2>1, <2>4, <2>5 DEF IInv, TypeOK
  <2>7. Data'
    BY <2>1, <2>4 DEF IInv, Data, ClaimedPcs, ActivePcs
  <2>8. \A t \in Trials : task[t] \notin LiveTasks
    BY <2>1, <2>3, OwnerFacts
  <2>9. Supervised' /\ Marked'
    BY <2>1, <2>4, <2>8 DEF Supervised, Marked, BatchTrials, ClaimedPcs, ActivePcs
  <2>. QED
    BY <2>4, <2>6, <2>7, <2>9 DEF IInv
<1>. QED
  BY <1>1, <1>2, <1>3

\* After TerminatePool no worker lives.
LEMMA Terminated ==
  ASSUME TypeOK, TerminatePool
  PROVE  /\ task' \in [Trials -> {"none", "done", "killed", "lost"} \cup LiveTasks]
         /\ \A t \in Trials : task'[t] \notin LiveTasks
<1>. "killed" \notin LiveTasks
  BY DEF LiveTasks, BusyTasks
<1>. QED
  BY DEF TypeOK, TerminatePool

\* Steps that leave the trials alone and after which no worker lives: leaving
\* the poll loop, a caught exception, the end of a batch.
LEMMA LeaveInv ==
  ASSUME IInv, NEW r \in Runners, pc[r] \in ActivePcs,
         NEW to \in {"check", "cancel", "retain", "finish", "fail"},
         pc' = [pc EXCEPT ![r] = to],
         UNCHANGED <<study, trial, score, sim, batch, cancelPc, sweepPc>>,
         stale' \in BOOLEAN, periods' \in [Trials -> BOOLEAN], best' \in BestType,
         task' \in [Trials -> {"none", "done", "killed", "lost"} \cup LiveTasks],
         \A t \in Trials : task'[t] \notin LiveTasks,
         to = "check" => batch \in 0..SearchBatches,
         to = "retain" => batch \in 1..FinalBatch
  PROVE  IInv'
<1>1. to \in ClaimedPcs
  BY DEF ClaimedPcs, ActivePcs
<1>2. /\ pc' \in [Runners -> {"idle", "spawned", "refused"} \cup ClaimedPcs]
      /\ pc'[r] = to
      /\ \A x \in Runners \ {r} : pc'[x] \notin ClaimedPcs
      /\ OneProcessPerStudy' /\ Untouched' /\ Closed' /\ SettledWhenCanceled'
  BY <1>1, OwnerStep
<1>3. TypeOK'
  BY <1>2 DEF IInv, TypeOK
<1>4. Data'
  BY <1>2 DEF IInv, Data, ClaimedPcs, ActivePcs
<1>5. Supervised' /\ Marked'
  BY <1>2 DEF Supervised, Marked, ClaimedPcs, ActivePcs
<1>. QED
  BY <1>2, <1>3, <1>4, <1>5 DEF IInv

LEMMA PollInv ==
  ASSUME IInv, NEW r \in Runners, Poll(r)
  PROVE  IInv'
<1>1. pc[r] = "poll" /\ pc[r] \in ActivePcs /\ TypeOK
  BY DEF Poll, ActivePcs, IInv
<1>2. CASE study.cancel
  <2>1. /\ UNCHANGED <<study, trial, score, sim, periods, batch, best, cancelPc, sweepPc>>
        /\ pc' = [pc EXCEPT ![r] = "cancel"] /\ TerminatePool /\ stale' = FALSE
    BY <1>2 DEF Poll, Goto, rows, requests
  <2>2. periods' \in [Trials -> BOOLEAN] /\ best' \in BestType
    BY <1>1, <2>1 DEF TypeOK
  <2>. QED
    BY <1>1, <2>1, <2>2, Terminated, LeaveInv
<1>3. CASE ~study.cancel
  <2>1. /\ UNCHANGED <<study, trial, score, sim, periods, task, pc, batch, best,
                       cancelPc, sweepPc>>
        /\ stale' = FALSE
    BY <1>3 DEF Poll, rows, requests
  <2>. QED
    BY <2>1 DEF IInv, TypeOK, Data, OneProcessPerStudy, Untouched, Claimed,
       Supervised, Marked, Settled, Closed, SettledWhenCanceled
<1>. QED
  BY <1>2, <1>3

LEMMA CollectInv ==
  ASSUME IInv, NEW r \in Runners, Collect(r)
  PROVE  IInv'
<1>1. /\ pc[r] = "poll" /\ pc[r] \in ActivePcs /\ TypeOK /\ Data /\ BatchReady
      /\ UNCHANGED <<study, trial, score, sim, periods, task, batch, cancelPc, sweepPc>>
      /\ stale' = FALSE
      /\ batch \in 1..FinalBatch
  BY DEF Collect, ActivePcs, IInv, Data, rows, requests
<1>2. PICK to \in {"fail", "retain"} : pc' = [pc EXCEPT ![r] = to]
  BY DEF Collect, Goto
<1>3. best' \in BestType
  <2>1. CASE UNCHANGED best
    BY <1>1, <2>1 DEF TypeOK
  <2>2. CASE batch # FinalBatch /\ UpdateBest(batch)
    <3>1. batch \in 1..SearchBatches
      BY <1>1, <2>2, BatchRange
    <3>2. PICK c \in Candidates(batch) :
            best' = IF CandidateScore(batch, c) > best.score
                    THEN [batch |-> batch, cand |-> c, score |-> CandidateScore(batch, c)]
                    ELSE best
      BY <2>2 DEF UpdateBest
    <3>3. CandidateScore(batch, c) \in Nat \cup {NoScore} /\ c \in Nat
      BY <1>1, CandidateScoreType, CandidateNat
    <3>. QED
      BY <1>1, <3>1, <3>2, <3>3 DEF TypeOK, BestType
  <2>. QED
    BY <2>1, <2>2 DEF Collect
<1>4. \A t \in Trials : task'[t] \notin LiveTasks
  BY <1>1, OwnerFacts DEF BatchReady, BatchTrials, LiveTasks, BusyTasks
<1>5. /\ task' \in [Trials -> {"none", "done", "killed", "lost"} \cup LiveTasks]
      /\ periods' \in [Trials -> BOOLEAN] /\ stale' \in BOOLEAN
  BY <1>1 DEF TypeOK
<1>. QED
  BY <1>1, <1>2, <1>3, <1>4, <1>5, LeaveInv

LEMMA RetainInv ==
  ASSUME IInv, NEW r \in Runners, Retain(r)
  PROVE  IInv'
<1>1. /\ pc[r] = "retain" /\ pc[r] \in ActivePcs /\ TypeOK
      /\ UNCHANGED <<study, stale, trial, score, sim, task, batch, best, cancelPc, sweepPc>>
      /\ batch \in 1..FinalBatch
  BY DEF Retain, ActivePcs, IInv, Data, requests
<1>2. periods' \in [Trials -> BOOLEAN]
  BY DEF Retain
<1>3. PICK to \in {"check", "finish", "fail"} :
        /\ pc' = [pc EXCEPT ![r] = to]
        /\ to = "check" => batch # FinalBatch
  BY DEF Retain, Goto
<1>4. to = "check" => batch \in 0..SearchBatches
  BY <1>1, <1>3, BatchRange
<1>5. \A t \in Trials : task'[t] \notin LiveTasks
  BY <1>1, OwnerFacts
<1>6. /\ task' \in [Trials -> {"none", "done", "killed", "lost"} \cup LiveTasks]
      /\ best' \in BestType /\ stale' \in BOOLEAN
  BY <1>1 DEF TypeOK
<1>. QED
  BY <1>1, <1>2, <1>3, <1>4, <1>5, <1>6, LeaveInv

LEMMA ErrorInv ==
  ASSUME IInv, NEW r \in Runners, RunnerError(r)
  PROVE  IInv'
<1>1. /\ pc[r] \in ActivePcs /\ TypeOK /\ TerminatePool
      /\ pc' = [pc EXCEPT ![r] = "fail"]
      /\ UNCHANGED <<study, stale, trial, score, sim, periods, batch, best, cancelPc, sweepPc>>
  BY DEF RunnerError, ActivePcs, IInv, Goto, rows, requests
<1>2. periods' \in [Trials -> BOOLEAN] /\ best' \in BestType /\ stale' \in BOOLEAN
  BY <1>1 DEF TypeOK
<1>. QED
  BY <1>1, <1>2, Terminated, LeaveInv

LEMMA MarkInv ==
  ASSUME IInv, NEW r \in Runners, MarkCanceled(r)
  PROVE  IInv'
<1>1. /\ pc[r] = "cancel" /\ pc[r] \in ActivePcs /\ "cancelFinish" \in ClaimedPcs
      /\ pc' = [pc EXCEPT ![r] = "cancelFinish"]
      /\ UNCHANGED <<study, stale, score, sim, periods, task, batch, best, cancelPc, sweepPc>>
      /\ trial' = [t \in Trials |-> IF trial[t] \in {"PENDING", "RUNNING"}
                                    THEN "FAILED" ELSE trial[t]]
  BY DEF MarkCanceled, ActivePcs, ClaimedPcs, Goto, requests
<1>2. /\ pc' \in [Runners -> {"idle", "spawned", "refused"} \cup ClaimedPcs]
      /\ pc'[r] = "cancelFinish"
      /\ \A x \in Runners \ {r} : pc'[x] \notin ClaimedPcs
      /\ OneProcessPerStudy' /\ Untouched' /\ Closed' /\ SettledWhenCanceled'
  BY <1>1, OwnerStep
<1>3. TypeOK'
  BY <1>1, <1>2 DEF IInv, TypeOK
<1>4. Data'
  BY <1>1, <1>2 DEF IInv, Data, ClaimedPcs, ActivePcs
<1>5. Supervised'
  BY <1>1, <1>2, OwnerFacts DEF Supervised
<1>6. Marked'
  BY <1>1, <1>2 DEF Marked, Settled, ClaimedPcs, ActivePcs
<1>. QED
  BY <1>2, <1>3, <1>4, <1>5, <1>6 DEF IInv

LEMMA CrashInv ==
  ASSUME IInv, NEW r \in Runners, Crash(r)
  PROVE  IInv'
<1>1. UNCHANGED <<study, stale, trial, score, sim, periods, task, batch, best, cancelPc, sweepPc>>
  BY DEF Crash, rows, requests
<1>2. CASE pc[r] = "spawned"
  <2>1. pc' = [pc EXCEPT ![r] = "refused"]
    BY <1>2 DEF Crash, Goto
  <2>2. /\ pc' \in [Runners -> {"idle", "spawned", "refused"} \cup ClaimedPcs]
        /\ pc'[r] = "refused" /\ \A x \in Runners \ {r} : pc'[x] = pc[x]
    BY <2>1 DEF IInv, TypeOK
  <2>3. TypeOK'
    BY <1>1, <2>2 DEF IInv, TypeOK
  <2>4. Data' /\ OneProcessPerStudy' /\ Untouched'
    BY <1>1, <1>2, <2>2 DEF IInv, Data, OneProcessPerStudy, Untouched, Claimed,
       ClaimedPcs, ActivePcs
  <2>5. Supervised' /\ Marked'
    BY <1>1, <1>2, <2>2 DEF IInv, Supervised, Marked, Settled
  <2>6. Closed' /\ SettledWhenCanceled'
    BY <1>1, <1>2, <2>2 DEF IInv, Closed, SettledWhenCanceled, ActivePcs
  <2>. QED
    BY <2>3, <2>4, <2>5, <2>6 DEF IInv
<1>3. CASE pc[r] \in ActivePcs
  <2>1. pc' = [pc EXCEPT ![r] = "dead"] /\ "dead" \in ClaimedPcs
    BY <1>3 DEF Crash, Goto, ActivePcs, ClaimedPcs
  <2>2. /\ pc' \in [Runners -> {"idle", "spawned", "refused"} \cup ClaimedPcs]
        /\ pc'[r] = "dead"
        /\ \A x \in Runners \ {r} : pc'[x] \notin ClaimedPcs
        /\ OneProcessPerStudy' /\ Untouched' /\ Closed' /\ SettledWhenCanceled'
    BY <1>1, <1>3, <2>1, OwnerStep
  <2>3. TypeOK'
    BY <1>1, <2>2 DEF IInv, TypeOK
  <2>4. Data'
    BY <1>1, <2>2 DEF IInv, Data, ClaimedPcs, ActivePcs
  <2>5. Supervised' /\ Marked'
    BY <1>1, <2>2 DEF Supervised, Marked, ClaimedPcs, ActivePcs
  <2>. QED
    BY <2>2, <2>3, <2>4, <2>5 DEF IInv
<1>. QED
  BY <1>2, <1>3 DEF Crash

\* The owner's last step. CANCELED follows the marking of the trials.
LEMMA FinishInv ==
  ASSUME IInv, NEW r \in Runners,
         FinishFinished(r) \/ FinishCanceled(r) \/ FinishFailed(r)
  PROVE  IInv'
<1>1. /\ pc[r] \in ActivePcs /\ pc[r] # "poll"
      /\ pc' = [pc EXCEPT ![r] = "ended"]
      /\ stale' = FALSE
      /\ UNCHANGED <<trial, score, sim, periods, task, batch, best, cancelPc, sweepPc>>
  BY DEF FinishFinished, FinishCanceled, FinishFailed, Finish, ActivePcs, Goto,
     rows, requests
<1>2. /\ study' \in [status : ActiveStatuses \cup Terminal, cancel : BOOLEAN,
                     best : BestType]
      /\ study'.status \in Terminal
      /\ study'.status = "CANCELED" => pc[r] = "cancelFinish"
  <2>1. CASE FinishFinished(r)
    <3>1. FinalBatch \in 1..FinalBatch /\ 1 \in Candidates(FinalBatch)
      BY BatchRange DEF Candidates
    <3>2. CandidateScore(FinalBatch, 1) \in Nat \cup {NoScore}
      BY <3>1, CandidateScoreType DEF IInv
    <3>3. [best EXCEPT !.score = CandidateScore(FinalBatch, 1)] \in BestType
      BY <3>2 DEF IInv, TypeOK, BestType
    <3>. QED
      BY <2>1, <3>3 DEF IInv, TypeOK, FinishFinished, Finish, Terminal
  <2>2. CASE FinishCanceled(r) \/ FinishFailed(r)
    BY <2>2 DEF IInv, TypeOK, FinishCanceled, FinishFailed, Finish, Terminal
  <2>. QED
    BY <2>1, <2>2
<1>3. /\ pc' \in [Runners -> {"idle", "spawned", "refused"} \cup ClaimedPcs]
      /\ pc'[r] = "ended"
      /\ \A x \in Runners \ {r} : pc'[x] \notin ClaimedPcs
  BY <1>1, OwnerFacts DEF IInv, TypeOK, ClaimedPcs
<1>4. \A t \in Trials : task[t] \notin LiveTasks
  BY <1>1, OwnerFacts
<1>5. TypeOK'
  BY <1>1, <1>2, <1>3 DEF IInv, TypeOK
<1>6. Data' /\ OneProcessPerStudy'
  BY <1>1, <1>3 DEF IInv, Data, OneProcessPerStudy, ClaimedPcs, ActivePcs
<1>7. Untouched'
  BY <1>2, <1>3 DEF Untouched, Claimed, ClaimedPcs, Terminal
<1>8. Supervised' /\ Marked'
  BY <1>1, <1>3, <1>4 DEF Supervised, Marked, ClaimedPcs, ActivePcs
<1>9. Closed'
  BY <1>3 DEF Closed, ClaimedPcs, ActivePcs
<1>10. SettledWhenCanceled'
  BY <1>1, <1>2, <1>4 DEF IInv, Marked, Settled, SettledWhenCanceled
<1>. QED
  BY <1>5, <1>6, <1>7, <1>8, <1>9, <1>10 DEF IInv

LEMMA StepInv == IInv /\ [Next]_vars => IInv'
<1>. SUFFICES ASSUME IInv, [Next]_vars PROVE IInv'
  OBVIOUS
<1>1. ASSUME NEW r \in Runners, Spawn(r) \/ RunnerStep(r) \/ RunnerError(r) \/ Crash(r)
      PROVE  IInv'
  BY <1>1, SpawnInv, ClaimInv, BatchInv, PollInv, CollectInv, RetainInv, ErrorInv,
     MarkInv, CrashInv, FinishInv DEF RunnerStep
<1>2. CASE StartFails
  BY <1>2, SpawnInv, StudyAssumption
<1>3. ASSUME NEW t \in Trials,
             WorkerStart(t) \/ WorkerStep(t) \/ WorkerFail(t) \/ WorkerLost(t)
      PROVE  IInv'
  BY <1>3, WorkerInv
<1>4. CASE HeartbeatExpires \/ Sweep \/ \E u \in Users : CancelRead(u) \/ UserStep(u)
  BY <1>4, WebInv
<1>5. CASE UNCHANGED vars
  BY <1>5 DEF vars, rows, requests, IInv, TypeOK, Data, OneProcessPerStudy,
     Untouched, Claimed, Supervised, Marked, Settled, Closed, SettledWhenCanceled
<1>. QED
  BY <1>1, <1>2, <1>3, <1>4, <1>5 DEF Next

-----------------------------------------------------------------------------
(* Theorems.                                                               *)

\* The inductive invariant holds in every state of every study.
THEOREM Invariance == Spec => []IInv
BY InitInv, StepInv, PTL DEF Spec

\* Type correctness.
THEOREM TypeCorrect == Spec => []TypeOK
<1>1. IInv => TypeOK
  BY DEF IInv
<1>. QED
  BY <1>1, Invariance, PTL

\* At most one of the processes started on a study ever runs it (run_study's
\* conditional UPDATE).
THEOREM OneProcess == Spec => []OneProcessPerStudy
<1>1. IInv => OneProcessPerStudy
  BY DEF IInv
<1>. QED
  BY <1>1, Invariance, PTL

\* A CANCELED study has no unfinished trial and no living worker.
THEOREM CanceledIsSettled == Spec => []SettledWhenCanceled
<1>1. IInv => SettledWhenCanceled
  BY DEF IInv
<1>. QED
  BY <1>1, Invariance, PTL

\* No step of any process changes the trials or the result of a study that is
\* FINISHED or CANCELED.
LEMMA FrozenStep ==
  ASSUME IInv, study.status \in {"FINISHED", "CANCELED"}, [Next]_vars
  PROVE  UNCHANGED rows /\ study'.status = study.status /\ study'.best = study.best
<1>. DEFINE Frozen == /\ UNCHANGED rows
                      /\ study'.status = study.status
                      /\ study'.best = study.best
<1>1. /\ \A r \in Runners : pc[r] \notin ActivePcs
      /\ \A t \in Trials : task[t] \notin LiveTasks
      /\ TypeOK
  BY DEF IInv, Closed, Supervised, ActivePcs
<1>2. ASSUME NEW r \in Runners, Spawn(r) \/ RunnerStep(r) \/ RunnerError(r) \/ Crash(r)
      PROVE  Frozen
  BY <1>1, <1>2 DEF ActivePcs, Spawn, RunnerStep, RunnerError, Crash, Claim,
     ClaimRefused, CheckCancel, CreateTrial, SubmitBatch, Poll, Collect, Retain,
     MarkCanceled, FinishFinished, FinishCanceled, FinishFailed, Finish
<1>3. CASE StartFails
  BY <1>3 DEF StartFails
<1>4. ASSUME NEW t \in Trials,
             WorkerStart(t) \/ WorkerStep(t) \/ WorkerFail(t) \/ WorkerLost(t)
      PROVE  Frozen
  BY <1>1, <1>4 DEF LiveTasks, BusyTasks, WorkerStart, WorkerStep, WorkerFail,
     WorkerLost, WorkerClone, WorkerLink, WorkerRun, WorkerFinish, WorkerReport, Step
<1>5. ASSUME NEW u \in Users, CancelRead(u) \/ UserStep(u) PROVE Frozen
  BY <1>1, <1>5 DEF CancelRead, UserStep, CancelFlag, CancelClose, TypeOK
<1>6. CASE HeartbeatExpires \/ Sweep
  BY <1>6 DEF HeartbeatExpires, Sweep, SweepRead, SweepFail
<1>7. CASE UNCHANGED vars
  BY <1>7 DEF vars
<1>. QED
  BY <1>2, <1>3, <1>4, <1>5, <1>6, <1>7 DEF Next

\* The results of a FINISHED or CANCELED study are final.
THEOREM ResultsAreFrozen == Spec => ResultsFrozen
<1>1. IInv /\ [Next]_vars =>
        [study.status \in {"FINISHED", "CANCELED"} =>
           /\ UNCHANGED rows
           /\ study'.status = study.status
           /\ study'.best = study.best]_vars
  BY FrozenStep
<1>. QED
  BY <1>1, Invariance, PTL DEF Spec, ResultsFrozen

\* A requested cancellation stops the search before its next batch.
THEOREM CancelStops == Spec => CancelStopsNewBatches
<1>1. [Next]_vars => [study.cancel => batch' = batch]_vars
  <2>1. ASSUME NEW r \in Runners, RunnerStep(r), study.cancel PROVE batch' = batch
    BY <2>1 DEF RunnerStep, Claim, ClaimRefused, CheckCancel, CreateTrial,
       SubmitBatch, Poll, Collect, Retain, MarkCanceled, FinishFinished,
       FinishCanceled, FinishFailed, Finish
  <2>2. ASSUME NEW r \in Runners, Spawn(r) \/ RunnerError(r) \/ Crash(r) \/ StartFails
        PROVE  batch' = batch
    BY <2>2 DEF Spawn, RunnerError, Crash, StartFails
  <2>3. ASSUME NEW t \in Trials,
               WorkerStart(t) \/ WorkerStep(t) \/ WorkerFail(t) \/ WorkerLost(t)
        PROVE  batch' = batch
    BY <2>3 DEF WorkerStart, WorkerStep, WorkerFail, WorkerLost, WorkerClone,
       WorkerLink, WorkerRun, WorkerFinish, WorkerReport
  <2>4. ASSUME NEW u \in Users, CancelRead(u) \/ UserStep(u) PROVE batch' = batch
    BY <2>4 DEF CancelRead, UserStep, CancelFlag, CancelClose
  <2>5. CASE HeartbeatExpires \/ Sweep
    BY <2>5 DEF HeartbeatExpires, Sweep, SweepRead, SweepFail
  <2>. QED
    BY <2>1, <2>2, <2>3, <2>4, <2>5, StudyAssumption DEF Next
<1>. QED
  BY <1>1, PTL DEF Spec, CancelStopsNewBatches

-----------------------------------------------------------------------------
(* Refinement. If a live runner never misses the heartbeat timeout, the     *)
(* study keeps the contract of HpoLifecycle.                                *)

\* A study with a live runner is RUNNING and no sweep has picked it; only a
\* requested cancellation leads a process towards CANCELED.
Prompt ==
  /\ \A r \in Runners : pc[r] \in ActivePcs =>
        study.status = "RUNNING" /\ ~stale /\ sweepPc = "idle"
  /\ sweepPc = "expired" => study.status # "CREATED"
  /\ \A r \in Runners : pc[r] \in {"cancel", "cancelFinish"} => study.cancel
  /\ \A u \in Users : cancelPc[u] = "close" => study.cancel

LEMMA InitPrompt == Init => Prompt /\ Lifecycle!Init
BY DEF Init, Prompt, Lifecycle!Init, ActivePcs

LEMMA RefineStep ==
  ASSUME ~Suspends, IInv, Prompt, [Next]_vars
  PROVE  Prompt' /\ [Lifecycle!Next]_(Lifecycle!vars)
<1>. DEFINE Goal == Prompt' /\ [Lifecycle!Next]_(Lifecycle!vars)
<1>. USE DEF Lifecycle!vars
<1>0. TypeOK
  BY DEF IInv
<1>1. ASSUME NEW r \in Runners, Spawn(r) \/ ClaimRefused(r) PROVE Goal
  BY <1>0, <1>1 DEF Spawn, ClaimRefused, Goto, requests, Prompt, TypeOK, ActivePcs
<1>2. CASE StartFails
  <2>1. /\ \A r \in Runners : pc'[r] = pc[r] \/ pc'[r] = "refused"
        /\ UNCHANGED <<stale, cancelPc, sweepPc>>
    BY <1>0, <1>2, StudyAssumption DEF StartFails, Goto, requests, TypeOK
  <2>2. CASE study.status = "CREATED"
    <3>1. study'.status = "FAILED" /\ study'.cancel = study.cancel
      BY <1>0, <1>2, <2>2 DEF StartFails, TypeOK
    <3>2. Prompt'
      BY <2>1, <2>2, <3>1 DEF Prompt, ActivePcs
    <3>. QED
      BY <2>2, <3>1, <3>2 DEF Lifecycle!Next, Lifecycle!End
  <2>3. CASE study.status # "CREATED"
    BY <1>2, <2>1, <2>3 DEF StartFails, Prompt, ActivePcs
  <2>. QED
    BY <2>2, <2>3
<1>3. ASSUME NEW r \in Runners, Claim(r) PROVE Goal
  <2>1. /\ study.status = "CREATED" /\ study'.status = "RUNNING"
        /\ study'.cancel = study.cancel /\ stale' = FALSE
        /\ UNCHANGED <<cancelPc, sweepPc>>
        /\ \A x \in Runners : pc'[x] = pc[x] \/ pc'[x] = "check"
    BY <1>0, <1>3 DEF Claim, Goto, requests, TypeOK
  <2>2. sweepPc = "idle"
    BY <1>0, <2>1 DEF Prompt, TypeOK
  <2>3. Prompt'
    BY <2>1, <2>2 DEF Prompt
  <2>. QED
    BY <2>1, <2>3 DEF Lifecycle!Next, Lifecycle!Begin
<1>4. ASSUME NEW r \in Runners,
             CheckCancel(r) \/ CreateTrial(r) \/ SubmitBatch(r) \/ Poll(r)
               \/ Collect(r) \/ Retain(r) \/ MarkCanceled(r) \/ RunnerError(r)
      PROVE  Goal
  <2>1. /\ UNCHANGED <<study, cancelPc, sweepPc>>
        /\ stale' = stale \/ stale' = FALSE
        /\ pc[r] \in ActivePcs
        /\ \A x \in Runners : pc'[x] = pc[x] \/ x = r
        /\ pc'[r] \in {"cancel", "cancelFinish"} => study.cancel
    BY <1>0, <1>4 DEF CheckCancel, CreateTrial, SubmitBatch, Poll, Collect, Retain,
       MarkCanceled, RunnerError, Goto, requests, ActivePcs, Prompt, TypeOK
  <2>2. study.status = "RUNNING" /\ ~stale' /\ sweepPc = "idle"
    BY <2>1 DEF Prompt
  <2>3. \A x \in Runners : pc'[x] \in {"cancel", "cancelFinish"} => study.cancel
    BY <2>1 DEF Prompt
  <2>4. Prompt'
    BY <2>1, <2>2, <2>3 DEF Prompt
  <2>. QED
    BY <2>1, <2>4
<1>5. ASSUME NEW r \in Runners,
             FinishFinished(r) \/ FinishCanceled(r) \/ FinishFailed(r)
      PROVE  Goal
  <2>1. /\ pc[r] \in ActivePcs
        /\ study'.status \in Terminal /\ study'.cancel = study.cancel
        /\ study'.status = "CANCELED" => study.cancel
        /\ UNCHANGED <<cancelPc, sweepPc>>
        /\ pc' = [pc EXCEPT ![r] = "ended"]
    BY <1>0, <1>5 DEF FinishFinished, FinishCanceled, FinishFailed, Finish, Goto,
       requests, ActivePcs, Terminal, Prompt, TypeOK
  <2>2. study.status = "RUNNING"
    BY <2>1 DEF Prompt
  <2>3. \A x \in Runners : pc'[x] \notin ActivePcs
    BY <1>0, <2>1, OwnerFacts DEF TypeOK, ActivePcs, ClaimedPcs
  <2>4. Prompt'
    BY <2>1, <2>3 DEF Prompt, ActivePcs, Terminal
  <2>. QED
    BY <2>1, <2>2, <2>4 DEF Lifecycle!Next, Lifecycle!End, Lifecycle!Terminal, Terminal
<1>6. ASSUME NEW r \in Runners, Crash(r) PROVE Goal
  BY <1>0, <1>6 DEF Crash, Goto, requests, Prompt, TypeOK, ActivePcs
<1>7. ASSUME NEW t \in Trials,
             WorkerStart(t) \/ WorkerStep(t) \/ WorkerFail(t) \/ WorkerLost(t)
      PROVE  Goal
  <2>1. UNCHANGED <<study, pc, cancelPc, sweepPc>> /\ (stale' = stale \/ stale' = FALSE)
    BY <1>7 DEF WorkerStart, WorkerStep, WorkerFail, WorkerLost, WorkerClone,
       WorkerLink, WorkerRun, WorkerFinish, WorkerReport, requests
  <2>. QED
    BY <2>1 DEF Prompt
<1>8. ASSUME NEW u \in Users, CancelRead(u) PROVE Goal
  BY <1>0, <1>8 DEF CancelRead, Prompt, TypeOK
<1>9. ASSUME NEW u \in Users, CancelFlag(u) PROVE Goal
  <2>1. /\ study'.status = study.status /\ study'.cancel = TRUE
        /\ UNCHANGED <<stale, pc, sweepPc>>
    BY <1>0, <1>9 DEF CancelFlag, TypeOK
  <2>. QED
    BY <2>1 DEF Prompt, Lifecycle!Next, Lifecycle!RequestCancel
<1>10. ASSUME NEW u \in Users, CancelClose(u) PROVE Goal
  <2>1. /\ study.cancel /\ UNCHANGED <<stale, pc, sweepPc>>
        /\ \A x \in Users : cancelPc'[x] = "close" => cancelPc[x] = "close"
    BY <1>0, <1>10 DEF CancelClose, Prompt, TypeOK
  <2>2. CASE study.status = "CREATED"
    <3>1. study'.status = "CANCELED" /\ study'.cancel = study.cancel
      BY <1>0, <1>10, <2>2 DEF CancelClose, TypeOK
    <3>2. Prompt'
      BY <2>1, <2>2, <3>1 DEF Prompt
    <3>. QED
      BY <2>1, <2>2, <3>1, <3>2 DEF Lifecycle!Next, Lifecycle!End
  <2>3. CASE study.status # "CREATED"
    <3>1. study' = study
      BY <1>10, <2>3 DEF CancelClose
    <3>2. Prompt'
      BY <2>1, <3>1 DEF Prompt
    <3>. QED
      BY <3>1, <3>2
  <2>. QED
    BY <2>2, <2>3
<1>11. CASE HeartbeatExpires
  BY <1>11 DEF HeartbeatExpires, requests, Prompt
<1>12. CASE SweepRead
  BY <1>12 DEF SweepRead, Prompt
<1>13. CASE SweepFail
  <2>1. /\ sweepPc = "expired" /\ sweepPc' = "idle" /\ UNCHANGED <<stale, pc, cancelPc>>
        /\ \A r \in Runners : pc[r] \notin ActivePcs
    BY <1>13 DEF SweepFail, Prompt
  <2>2. CASE study.status = "RUNNING"
    <3>1. study'.status = "FAILED" /\ study'.cancel = study.cancel
      BY <1>0, <1>13, <2>2 DEF SweepFail, TypeOK
    <3>. QED
      BY <2>1, <2>2, <3>1 DEF Prompt, Lifecycle!Next, Lifecycle!End, Lifecycle!Terminal
  <2>3. CASE study.status # "RUNNING"
    BY <1>13, <2>1, <2>3 DEF SweepFail, Prompt
  <2>. QED
    BY <2>2, <2>3
<1>14. CASE UNCHANGED vars
  BY <1>14 DEF vars, requests, Prompt
<1>. QED
  BY <1>1, <1>2, <1>3, <1>4, <1>5, <1>6, <1>7, <1>8, <1>9, <1>10, <1>11, <1>12,
     <1>13, <1>14 DEF Next, RunnerStep, UserStep, Sweep

\* If no live runner misses the timeout, the status of a study follows
\* CREATED -> RUNNING -> one final status.
THEOREM Refinement == ~Suspends /\ Spec => ImplementsLifecycle
<1>1. ~Suspends => (IInv /\ Prompt /\ [Next]_vars =>
                      Prompt' /\ [Lifecycle!Next]_(Lifecycle!vars))
  BY RefineStep
<1>2. CASE Suspends
  BY <1>2
<1>3. CASE ~Suspends
  <2>1. IInv /\ Prompt /\ [Next]_vars => Prompt' /\ [Lifecycle!Next]_(Lifecycle!vars)
    BY <1>1, <1>3
  <2>. QED
    BY <2>1, InitPrompt, Invariance, PTL DEF Spec, ImplementsLifecycle, Lifecycle!Spec
<1>. QED
  BY <1>2, <1>3

-----------------------------------------------------------------------------
(* The result. What the best candidate is, what its score means and which   *)
(* evaluation data are kept is only settled batch by batch, so the          *)
(* invariant says it of the batches that the runner has collected.          *)

GoingPcs == {"check", "create", "poll", "retain", "finish"}

\* The batches whose outcomes a runner has collected, and those after which it
\* has applied the retention.
Collected(r) == IF pc[r] \in {"create", "poll"} THEN batch - 1 ELSE batch
Retained(r) == IF pc[r] \in {"check", "finish"} THEN batch ELSE batch - 1

\* What the worker of a trial has done so far.
Worked(t) ==
  /\ task[t] \in {"linked", "ran"} => sim[t] = "linked"
  /\ task[t] = "ran" => periods[t]
  /\ task[t] \in {"reported", "done"} => trial[t] \in {"FINISHED", "FAILED"}
  /\ task[t] \in {"reported", "done"} /\ trial[t] = "FINISHED" => sim[t] = "linked"

\* The outcomes of collected batches are final, those of later ones do not
\* exist, those of the present one still have their periods.
Outcome(r, t) ==
  /\ t[1] <= Collected(r) => task[t] = "done"
  /\ t[1] > Collected(r) /\ (t[1] = batch => pc[r] # "poll") => task[t] = "none"
  /\ t[1] > Retained(r) /\ task[t] \in {"reported", "done"} /\ trial[t] = "FINISHED"
       => periods[t]

\* best_params and best_score are the first maximum of the first n batches.
FirstMaximum(n) ==
  /\ best.score # NoScore =>
       /\ best.batch \in 1..n
       /\ best.cand \in Candidates(best.batch)
       /\ best.score = CandidateScore(best.batch, best.cand)
  /\ \A x \in 1..SearchBatches : x <= n => \A y \in Candidates(x) :
       \/ CandidateScore(x, y) < best.score
       \/ /\ CandidateScore(x, y) = best.score
          /\ \/ best.score = NoScore \/ x > best.batch
             \/ x = best.batch /\ y >= best.cand

\* What has to be kept is there, and after the retention nothing else.
Purged(r, t) ==
  trial[t] = "FINISHED" =>
    /\ t[1] <= Collected(r) /\ t \in Kept => periods[t]
    /\ t[1] <= Retained(r) /\ pc[r] # "retain" /\ periods[t] => t \in Kept

\* The search has found something before the final evaluation begins.
Found(r) ==
  /\ batch = FinalBatch \/ (batch = SearchBatches /\ pc[r] = "check") =>
       best.score # NoScore
  /\ pc[r] \in {"retain", "finish"} /\ batch = FinalBatch =>
       CandidateScore(FinalBatch, 1) # NoScore
  /\ pc[r] = "finish" => batch = FinalBatch

Result(r) ==
  pc[r] \in GoingPcs =>
    /\ \A t \in Trials : Outcome(r, t) /\ Purged(r, t)
    /\ FirstMaximum(Collected(r))
    /\ Found(r)

\* Before any runner has claimed the study there is no best candidate.
Untried == (\A r \in Runners : ~Claimed(r)) => best.score = NoScore

Search ==
  /\ \A t \in Trials : Worked(t)
  /\ Untried
  /\ \A r \in Runners : Result(r)

\* The scores of a candidate's own trials are its score.
LEMMA ScoreStays ==
  ASSUME NEW b \in 1..FinalBatch, NEW c \in Candidates(b),
         \A t \in CandidateTrials(b, c) : trial'[t] = trial[t] /\ score'[t] = score[t]
  PROVE  CandidateScore(b, c)' = CandidateScore(b, c)
<1>1. (\E t \in CandidateTrials(b, c) : trial'[t] # "FINISHED")
        <=> \E t \in CandidateTrials(b, c) : trial[t] # "FINISHED"
  OBVIOUS
<1>2. \A s \in SeedsOf(b) : score'[<<b, c, s>>] = score[<<b, c, s>>]
  BY TrialOf
<1>3. [s \in SeedsOf(b) |-> score'[<<b, c, s>>]] = [s \in SeedsOf(b) |-> score[<<b, c, s>>]]
  BY <1>2
<1>. QED
  BY <1>1, <1>3 DEF CandidateScore

LEMMA MaximumStays ==
  ASSUME TypeOK, NEW n \in 0..FinalBatch, FirstMaximum(n), best' = best,
         \A t \in Trials : t[1] <= n => trial'[t] = trial[t] /\ score'[t] = score[t]
  PROVE  FirstMaximum(n)'
<1>1. ASSUME NEW b \in 1..SearchBatches, b <= n, NEW c \in Candidates(b)
      PROVE  CandidateScore(b, c)' = CandidateScore(b, c)
  <2>1. b \in 1..FinalBatch
    BY BatchRange
  <2>2. \A t \in CandidateTrials(b, c) : t \in Trials /\ t[1] = b
    BY DEF CandidateTrials
  <2>. QED
    BY <1>1, <2>1, <2>2, ScoreStays
<1>2. best.batch \in 0..SearchBatches
  BY DEF TypeOK, BestType
<1>3. best.score # NoScore =>
        CandidateScore(best.batch, best.cand)' = CandidateScore(best.batch, best.cand)
  <2>1. ASSUME best.score # NoScore
        PROVE  best.batch \in 1..SearchBatches /\ best.batch <= n
                 /\ best.cand \in Candidates(best.batch)
    BY <1>2, <2>1, BatchRange DEF FirstMaximum
  <2>2. PICK b, c : b = best.batch /\ c = best.cand
    OBVIOUS
  <2>3. ASSUME best.score # NoScore
        PROVE  CandidateScore(b, c)' = CandidateScore(b, c)
    BY <1>1, <2>1, <2>2, <2>3
  <2>. QED
    BY <2>2, <2>3
<1>. QED
  BY <1>1, <1>3 DEF FirstMaximum

\* A step that does not finish the study leaves the result of a finished one.
LEMMA ExactStays ==
  ASSUME IInv, ResultExact, [Next]_vars,
         study'.status = "FINISHED" => study.status = "FINISHED"
  PROVE  ResultExact'
<1>. SUFFICES ASSUME study'.status = "FINISHED" PROVE ResultExact'
  BY DEF ResultExact, BestIsFirstMaximum, RetentionExact
<1>1. UNCHANGED <<trial, score, sim, periods>> /\ study'.best = study.best
  BY FrozenStep DEF rows
<1>2. \A b \in 1..FinalBatch : \A c \in Candidates(b) :
        CandidateScore(b, c)' = CandidateScore(b, c)
  BY <1>1, ScoreStays
<1>3. BestIsFirstMaximum'
  <2>1. PICK b, c : b = study.best.batch /\ c = study.best.cand
    OBVIOUS
  <2>2. /\ b \in 1..SearchBatches
        /\ \A x \in 1..SearchBatches : \A y \in Candidates(x) :
             \/ CandidateScore(x, y) < CandidateScore(b, c)
             \/ /\ CandidateScore(x, y) = CandidateScore(b, c)
                /\ x > b \/ (x = b /\ y >= c)
        /\ study.best.score = CandidateScore(FinalBatch, 1)
        /\ study.best.score # NoScore
    BY <2>1 DEF ResultExact, BestIsFirstMaximum
  <2>3. CandidateScore(b, c)' = CandidateScore(b, c)
    <3>1. UNCHANGED <<trial, score>>
      BY <1>1
    <3>. QED
      BY <3>1 DEF CandidateScore
  <2>4. CandidateScore(FinalBatch, 1)' = CandidateScore(FinalBatch, 1)
    BY <1>2, BatchRange DEF Candidates
  <2>5. \A x \in 1..SearchBatches : x \in 1..FinalBatch
    BY BatchRange
  <2>. QED
    BY <1>1, <1>2, <2>1, <2>2, <2>3, <2>4, <2>5 DEF BestIsFirstMaximum
<1>4. RetentionExact'
  BY <1>1 DEF ResultExact, RetentionExact
<1>. QED
  BY <1>3, <1>4 DEF ResultExact

\* Requests leave the search alone, and so do processes that do not own it.
LEMMA SearchUntouched ==
  ASSUME IInv, Search,
         UNCHANGED <<trial, score, sim, periods, task, batch, best>>,
         \A r \in Runners :
           \/ pc'[r] = pc[r]
           \/ pc[r] \notin ClaimedPcs /\ pc'[r] \notin ClaimedPcs
  PROVE  Search'
<1>1. \A t \in Trials : Worked(t)'
  BY DEF Search, Worked
<1>2. Untried'
  BY DEF Search, Untried, Claimed
<1>3. ASSUME NEW r \in Runners, pc'[r] \in GoingPcs PROVE Result(r)'
  <2>1. pc'[r] = pc[r] /\ Result(r)
    BY <1>3 DEF GoingPcs, ClaimedPcs, ActivePcs, Search
  <2>2. PICK n : n = Collected(r)
    OBVIOUS
  <2>3. /\ Collected(r)' = n /\ Retained(r)' = Retained(r)
        /\ UNCHANGED Kept
    BY <2>1, <2>2 DEF Collected, Retained, Kept, BestTrials
  <2>4. n \in 0..FinalBatch
    BY <1>3, <2>1, <2>2, BatchRange DEF IInv, Data, TypeOK, Collected, GoingPcs
  <2>5. FirstMaximum(n)'
    BY <1>3, <2>1, <2>2, <2>4, MaximumStays DEF Result, IInv
  <2>6. Found(r)'
    <3>1. CandidateScore(FinalBatch, 1)' = CandidateScore(FinalBatch, 1)
      BY BatchRange, ScoreStays DEF Candidates
    <3>. QED
      BY <1>3, <2>1, <3>1 DEF Result, Found
  <2>7. \A t \in Trials : Outcome(r, t)' /\ Purged(r, t)'
    BY <1>3, <2>1, <2>2, <2>3 DEF Result, Outcome, Purged
  <2>. QED
    BY <2>2, <2>3, <2>5, <2>6, <2>7 DEF Result
<1>. QED
  BY <1>1, <1>2, <1>3 DEF Search, Result

LEMMA WebSearch ==
  ASSUME IInv, Search,
         HeartbeatExpires \/ Sweep \/ \E u \in Users : CancelRead(u) \/ UserStep(u)
  PROVE  Search'
<1>1. UNCHANGED <<trial, score, sim, periods, task, pc, batch, best>>
  BY DEF HeartbeatExpires, Sweep, SweepRead, SweepFail, UserStep, CancelRead,
     CancelFlag, CancelClose, rows
<1>. QED
  BY <1>1, SearchUntouched

LEMMA SpawnSearch ==
  ASSUME IInv, Search, NEW r \in Runners,
         Spawn(r) \/ ClaimRefused(r) \/ StartFails \/ (Crash(r) /\ pc[r] = "spawned")
  PROVE  Search'
<1>1. /\ UNCHANGED <<trial, score, sim, periods, task, batch, best>>
      /\ \E q \in Runners, to \in {"spawned", "refused"} :
           pc[q] \notin ClaimedPcs /\ pc' = [pc EXCEPT ![q] = to]
  BY StudyAssumption DEF Spawn, ClaimRefused, StartFails, Crash, Goto, rows,
     ClaimedPcs, ActivePcs
<1>2. \A x \in Runners :
        \/ pc'[x] = pc[x]
        \/ pc[x] \notin ClaimedPcs /\ pc'[x] \notin ClaimedPcs
  BY <1>1 DEF IInv, TypeOK, ClaimedPcs, ActivePcs
<1>. QED
  BY <1>1, <1>2, SearchUntouched

\* The owner's steps after which it no longer searches.
LEMMA SearchLeft ==
  ASSUME IInv, Search, NEW r \in Runners, pc[r] \in ActivePcs,
         NEW to \in ClaimedPcs \ GoingPcs, pc' = [pc EXCEPT ![r] = to],
         \A t \in Trials : Worked(t)'
  PROVE  Search'
<1>1. pc'[r] = to /\ \A x \in Runners \ {r} : pc'[x] \notin ClaimedPcs
  BY OwnerFacts DEF IInv, TypeOK
<1>2. Untried'
  BY <1>1 DEF Untried, Claimed
<1>3. ASSUME NEW x \in Runners PROVE Result(x)'
  <2>1. pc'[x] \notin GoingPcs
    BY <1>1 DEF GoingPcs, ClaimedPcs, ActivePcs
  <2>. QED
    BY <2>1 DEF Result
<1>. QED
  BY <1>2, <1>3 DEF Search

LEMMA EndSearch ==
  ASSUME IInv, Search, NEW r \in Runners,
         \/ RunnerError(r) \/ MarkCanceled(r) \/ (Crash(r) /\ pc[r] # "spawned")
         \/ FinishFinished(r) \/ FinishCanceled(r) \/ FinishFailed(r)
         \/ (Poll(r) /\ study.cancel)
  PROVE  Search'
<1>1. /\ pc[r] \in ActivePcs
      /\ \E to \in ClaimedPcs \ GoingPcs : pc' = [pc EXCEPT ![r] = to]
  BY DEF RunnerError, MarkCanceled, Crash, FinishFinished, FinishCanceled,
     FinishFailed, Finish, Poll, Goto, ClaimedPcs, ActivePcs, GoingPcs
<1>2. /\ UNCHANGED <<sim, periods>>
      /\ trial' = trial \/ trial' = [t \in Trials |->
            IF trial[t] \in {"PENDING", "RUNNING"} THEN "FAILED" ELSE trial[t]]
      /\ task' = task \/ TerminatePool
  BY DEF RunnerError, MarkCanceled, Crash, FinishFinished, FinishCanceled,
     FinishFailed, Finish, Poll, rows
<1>3. ASSUME NEW t \in Trials PROVE Worked(t)'
  <2>1. task'[t] = task[t] \/ task'[t] = "killed"
    BY <1>2 DEF TerminatePool
  <2>2. trial'[t] = trial[t] \/ trial[t] \in {"PENDING", "RUNNING"}
    BY <1>2
  <2>. QED
    BY <1>2, <2>1, <2>2 DEF Search, Worked
<1>. QED
  BY <1>1, <1>3, SearchLeft

LEMMA ClaimSearch ==
  ASSUME IInv, Search, NEW r \in Runners, Claim(r)
  PROVE  Search'
<1>1. /\ UNCHANGED <<trial, score, sim, periods, task, batch, best>>
      /\ study.status = "CREATED" /\ pc' = [pc EXCEPT ![r] = "check"]
  BY DEF Claim, Goto, rows
<1>2. \A x \in Runners : ~Claimed(x)
  BY <1>1 DEF IInv, Untouched
<1>3. /\ pc'[r] = "check" /\ \A x \in Runners \ {r} : pc'[x] \notin GoingPcs
  BY <1>1, <1>2 DEF IInv, TypeOK, Claimed, ClaimedPcs, ActivePcs, GoingPcs
<1>4. batch = 0 /\ \A t \in Trials : trial[t] = "none" /\ task[t] = "none"
  BY <1>2 DEF IInv, Untouched
<1>5. best.score = NoScore
  BY <1>2 DEF Search, Untried
<1>6. Collected(r)' = 0 /\ Retained(r)' = 0
  BY <1>1, <1>3, <1>4 DEF Collected, Retained
<1>7. FirstMaximum(Collected(r))'
  <2>1. ASSUME NEW x \in 1..SearchBatches PROVE ~(x <= 0)
    OBVIOUS
  <2>. QED
    BY <1>1, <1>5, <1>6, <2>1 DEF FirstMaximum
<1>8. Found(r)'
  BY <1>1, <1>3, <1>4, BatchRange DEF Found
<1>9. \A t \in Trials : Outcome(r, t)' /\ Purged(r, t)'
  <2>1. \A t \in Trials : ~(t[1] <= 0)
    BY TrialFacts, BatchRange
  <2>. QED
    BY <1>1, <1>3, <1>4, <1>6, <2>1 DEF Outcome, Purged
<1>10. \A t \in Trials : Worked(t)'
  BY <1>1 DEF Search, Worked
<1>. QED
  BY <1>1, <1>3, <1>5, <1>7, <1>8, <1>9, <1>10 DEF Search, Untried, Result

\* A worker's step is about a trial of the batch that is polled, or its runner
\* has died.
LEMMA WorkerSearch ==
  ASSUME IInv, Search, NEW t \in Trials,
         WorkerStart(t) \/ WorkerStep(t) \/ WorkerFail(t) \/ WorkerLost(t)
  PROVE  Search'
<1>. USE DEF IInv
<1>1. /\ task[t] \in LiveTasks
      /\ \E to \in {"done", "lost"} \cup BusyTasks : task' = [task EXCEPT ![t] = to]
      /\ UNCHANGED <<pc, batch, best>>
      /\ \A u \in Trials \ {t} :
           /\ trial'[u] = trial[u] /\ score'[u] = score[u]
           /\ sim'[u] = sim[u] /\ periods'[u] = periods[u] /\ task'[u] = task[u]
  <2>1. \/ UNCHANGED <<trial, score>>
        \/ /\ \E st \in {"RUNNING", "FAILED"} : trial' = [trial EXCEPT ![t] = st]
           /\ UNCHANGED score
        \/ /\ trial' = [trial EXCEPT ![t] = "FINISHED"]
           /\ \E x \in Scores : score' = [score EXCEPT ![t] = x]
    BY DEF WorkerStart, WorkerStep, WorkerFail, WorkerLost, WorkerClone,
           WorkerLink, WorkerRun, WorkerFinish, WorkerReport, Step, rows
  <2>2. /\ UNCHANGED sim \/ \E x \in {"created", "linked"} : sim' = [sim EXCEPT ![t] = x]
        /\ UNCHANGED periods \/ periods' = [periods EXCEPT ![t] = TRUE]
    BY DEF WorkerStart, WorkerStep, WorkerFail, WorkerLost, WorkerClone,
           WorkerLink, WorkerRun, WorkerFinish, WorkerReport, Step, rows
  <2>3. /\ task[t] \in LiveTasks
        /\ \E to \in {"done", "lost"} \cup BusyTasks : task' = [task EXCEPT ![t] = to]
        /\ UNCHANGED <<pc, batch, best>>
    BY DEF WorkerStart, WorkerStep, WorkerFail, WorkerLost, WorkerClone,
           WorkerLink, WorkerRun, WorkerFinish, WorkerReport, Step, LiveTasks, BusyTasks
  <2>. QED
    BY <2>1, <2>2, <2>3 DEF TypeOK
<1>2. Worked(t)'
  <2>1. Worked(t) /\ TypeOK
    BY DEF Search
  <2>2. CASE WorkerStart(t)
    BY <2>1, <2>2 DEF WorkerStart, Step, Worked, TypeOK
  <2>3. CASE WorkerClone(t)
    BY <2>1, <2>3 DEF WorkerClone, Step, Worked, TypeOK
  <2>4. CASE WorkerLink(t)
    BY <2>1, <2>4 DEF WorkerLink, Step, Worked, TypeOK
  <2>5. CASE WorkerRun(t)
    BY <2>1, <2>5 DEF WorkerRun, Step, Worked, TypeOK
  <2>6. CASE WorkerFinish(t)
    BY <2>1, <2>6 DEF WorkerFinish, Step, Worked, TypeOK
  <2>7. CASE WorkerFail(t)
    BY <2>1, <2>7 DEF WorkerFail, Worked, TypeOK
  <2>8. CASE WorkerReport(t)
    BY <2>1, <2>8 DEF WorkerReport, Step, Worked, TypeOK, rows
  <2>9. CASE WorkerLost(t)
    BY <2>1, <2>9 DEF WorkerLost, Worked, TypeOK, rows
  <2>. QED
    BY <2>2, <2>3, <2>4, <2>5, <2>6, <2>7, <2>8, <2>9 DEF WorkerStep
<1>3. \A u \in Trials : Worked(u)'
  BY <1>1, <1>2 DEF Search, Worked
<1>4. PICK r \in Runners : pc[r] = "dead" \/ (pc[r] = "poll" /\ t[1] = batch)
  BY <1>1 DEF Supervised
<1>5. /\ Claimed(r)
      /\ \A x \in Runners \ {r} : pc[x] \notin ClaimedPcs
  BY <1>4 DEF Claimed, ClaimedPcs, ActivePcs, OneProcessPerStudy
<1>6. Untried'
  BY <1>1, <1>5 DEF Untried, Claimed
<1>7. ASSUME pc[r] = "poll", t[1] = batch PROVE Result(r)'
  <2>1. Result(r) /\ pc'[r] = "poll" /\ batch \in 1..FinalBatch
    BY <1>1, <1>7 DEF Search, Data
  <2>2. PICK n : n = batch - 1
    OBVIOUS
  <2>3. /\ n \in 0..FinalBatch /\ n < batch
        /\ Collected(r) = n /\ Retained(r) = n
        /\ Collected(r)' = n /\ Retained(r)' = n
    BY <1>1, <1>7, <2>1, <2>2, BatchRange DEF Collected, Retained
  <2>4. FirstMaximum(n)'
    <3>1. FirstMaximum(n) /\ TypeOK
      BY <1>7, <2>1, <2>3 DEF Result, GoingPcs
    <3>2. \A u \in Trials : u[1] <= n => trial'[u] = trial[u] /\ score'[u] = score[u]
      BY <1>1, <1>7, <2>1, <2>3
    <3>. QED
      BY <1>1, <2>3, <3>1, <3>2, MaximumStays
  <2>5. Found(r)'
    BY <1>1, <1>7, <2>1 DEF Result, Found, GoingPcs
  <2>6. ASSUME NEW u \in Trials PROVE Outcome(r, u)' /\ Purged(r, u)'
    <3>1. CASE u # t
      BY <1>1, <1>7, <2>1, <2>3, <3>1 DEF Result, Outcome, Purged, GoingPcs, Kept, BestTrials
    <3>2. CASE u = t
      <4>1. Purged(r, u)'
        BY <1>1, <1>7, <2>1, <2>3, <3>2 DEF Purged
      <4>2. ASSUME task'[t] \in {"reported", "done"}, trial'[t] = "FINISHED"
            PROVE  periods'[t]
        <5>1. CASE WorkerFinish(t)
          BY <5>1 DEF WorkerFinish, Step, Search, Worked
        <5>2. CASE WorkerReport(t)
          <6>1. task[t] = "reported" /\ UNCHANGED <<trial, periods>>
            BY <5>2 DEF WorkerReport, Step, rows
          <6>. QED
            BY <1>7, <2>1, <2>3, <4>2, <6>1 DEF Result, Outcome, GoingPcs
        <5>. QED
          BY <4>2, <5>1, <5>2 DEF TypeOK, WorkerStart, WorkerStep, WorkerFail, WorkerLost,
             WorkerClone, WorkerLink, WorkerRun, Step, LiveTasks, BusyTasks
      <4>. QED
        BY <1>1, <1>7, <2>1, <2>3, <3>2, <4>1, <4>2 DEF Outcome
    <3>. QED
      BY <3>1, <3>2
  <2>. QED
    BY <2>3, <2>4, <2>5, <2>6 DEF Result
<1>8. \A x \in Runners : Result(x)'
  <2>1. \A x \in Runners \ {r} : pc'[x] \notin GoingPcs
    BY <1>1, <1>5 DEF GoingPcs, ClaimedPcs, ActivePcs
  <2>2. pc[r] = "dead" => pc'[r] \notin GoingPcs
    BY <1>1 DEF GoingPcs
  <2>. QED
    BY <1>4, <1>7, <2>1, <2>2 DEF Result
<1>. QED
  BY <1>3, <1>6, <1>8 DEF Search

\* A step of the owner after which it still searches.
LEMMA OwnerSearch ==
  ASSUME IInv, Search, NEW r \in Runners, pc[r] \in ActivePcs,
         NEW to \in ClaimedPcs, pc' = [pc EXCEPT ![r] = to],
         \A t \in Trials : Worked(t)',
         Result(r)'
  PROVE  Search'
<1>1. pc'[r] = to /\ \A x \in Runners \ {r} : pc'[x] \notin ClaimedPcs
  BY OwnerFacts DEF IInv, TypeOK
<1>2. Untried'
  BY <1>1 DEF Untried, Claimed
<1>3. ASSUME NEW x \in Runners PROVE Result(x)'
  <2>1. x # r => pc'[x] \notin GoingPcs
    BY <1>1 DEF GoingPcs, ClaimedPcs, ActivePcs
  <2>. QED
    BY <2>1 DEF Result
<1>. QED
  BY <1>2, <1>3 DEF Search

LEMMA CheckSearch ==
  ASSUME IInv, Search, NEW r \in Runners, CheckCancel(r)
  PROVE  Search'
<1>. USE DEF IInv
<1>1. /\ pc[r] = "check" /\ pc[r] \in ActivePcs
      /\ UNCHANGED <<trial, score, sim, periods, task, best>>
      /\ batch \in 0..SearchBatches
      /\ Result(r) /\ TypeOK
  BY DEF CheckCancel, ActivePcs, Data, Search, rows
<1>2. \A t \in Trials : Worked(t)'
  BY <1>1 DEF Search, Worked
<1>3. CASE study.cancel
  <2>1. pc' = [pc EXCEPT ![r] = "cancel"]
    BY <1>3 DEF CheckCancel, Goto
  <2>2. "cancel" \in ClaimedPcs \ GoingPcs
    BY DEF ClaimedPcs, ActivePcs, GoingPcs
  <2>. QED
    BY <1>1, <1>2, <2>1, <2>2, SearchLeft
<1>4. CASE ~study.cancel
  <2>1. pc' = [pc EXCEPT ![r] = "create"] /\ batch' = batch + 1
    BY <1>4 DEF CheckCancel, Goto
  <2>2. pc'[r] = "create" /\ "create" \in ClaimedPcs
    BY <1>1, <2>1 DEF TypeOK, ClaimedPcs, ActivePcs
  <2>3. PICK n : n = batch
    OBVIOUS
  <2>4. /\ n \in 0..FinalBatch
        /\ Collected(r) = n /\ Retained(r) = n
        /\ Collected(r)' = n /\ Retained(r)' = n
    BY <1>1, <2>1, <2>2, <2>3, BatchRange DEF Collected, Retained
  <2>5. /\ \A t \in Trials : Outcome(r, t) /\ Purged(r, t)
        /\ FirstMaximum(n) /\ Found(r)
    BY <1>1, <2>4 DEF Result, GoingPcs
  <2>6. FirstMaximum(n)'
    BY <1>1, <2>4, <2>5, MaximumStays
  <2>7. Found(r)'
    BY <1>1, <2>1, <2>2, <2>5, BatchRange DEF Found
  <2>8. \A t \in Trials : Outcome(r, t)' /\ Purged(r, t)'
    BY <1>1, <2>2, <2>4, <2>5 DEF Outcome, Purged, Kept, BestTrials
  <2>9. Result(r)'
    BY <2>4, <2>6, <2>7, <2>8 DEF Result
  <2>. QED
    BY <1>1, <1>2, <2>1, <2>2, <2>9, OwnerSearch
<1>. QED
  BY <1>3, <1>4

LEMMA CreateSearch ==
  ASSUME IInv, Search, NEW r \in Runners, CreateTrial(r) \/ SubmitBatch(r)
  PROVE  Search'
<1>. USE DEF IInv
<1>1. /\ pc[r] = "create" /\ pc[r] \in ActivePcs
      /\ UNCHANGED <<score, sim, periods, best, batch>>
      /\ batch \in 1..FinalBatch
      /\ Result(r) /\ TypeOK
  BY DEF CreateTrial, SubmitBatch, ActivePcs, Data, Search, rows
<1>2. PICK n : n = batch - 1
  OBVIOUS
<1>3. /\ n \in 0..FinalBatch /\ n < batch
      /\ Collected(r) = n /\ Retained(r) = n
  BY <1>1, <1>2, BatchRange DEF Collected, Retained
<1>4. /\ \A t \in Trials : Outcome(r, t) /\ Purged(r, t)
      /\ FirstMaximum(n) /\ Found(r)
  BY <1>1, <1>3 DEF Result, GoingPcs
<1>5. ASSUME NEW t \in Trials PROVE t[1] \in Int
  BY TrialFacts
<1>6. CASE CreateTrial(r)
  <2>1. PICK new \in Trials :
          new[1] = batch /\ trial[new] = "none" /\ trial' = [trial EXCEPT ![new] = "PENDING"]
    BY <1>6 DEF CreateTrial, BatchTrials
  <2>2. UNCHANGED <<task, pc>>
    BY <1>6 DEF CreateTrial
  <2>3. /\ trial'[new] = "PENDING" /\ task[new] = "none"
        /\ \A t \in Trials \ {new} : trial'[t] = trial[t]
    BY <1>1, <1>3, <1>4, <2>1 DEF Outcome, TypeOK
  <2>4. \A t \in Trials : Worked(t)'
    BY <1>1, <2>2, <2>3 DEF Search, Worked
  <2>5. /\ Collected(r)' = n /\ Retained(r)' = n
        /\ pc' = [pc EXCEPT ![r] = "create"] /\ "create" \in ClaimedPcs /\ pc'[r] = "create"
    BY <1>1, <1>2, <2>2 DEF Collected, Retained, TypeOK, ClaimedPcs, ActivePcs
  <2>6. FirstMaximum(n)'
    <3>1. \A t \in Trials : t[1] <= n => trial'[t] = trial[t] /\ score'[t] = score[t]
      BY <1>1, <1>3, <2>1, <2>3
    <3>. QED
      BY <1>1, <1>3, <1>4, <3>1, MaximumStays
  <2>7. Found(r)'
    BY <1>1, <1>4, <2>5 DEF Found
  <2>8. \A t \in Trials : Outcome(r, t)' /\ Purged(r, t)'
    BY <1>1, <1>3, <1>4, <2>2, <2>3, <2>5 DEF Outcome, Purged, Kept, BestTrials
  <2>9. Result(r)'
    BY <2>5, <2>6, <2>7, <2>8 DEF Result
  <2>. QED
    BY <1>1, <2>4, <2>5, <2>9, OwnerSearch
<1>7. CASE SubmitBatch(r)
  <2>1. /\ trial' = trial
        /\ pc' = [pc EXCEPT ![r] = "poll"]
        /\ \A t \in Trials : task'[t] = IF t[1] = batch THEN "queued" ELSE task[t]
    BY <1>7 DEF SubmitBatch, BatchTrials, Goto, rows
  <2>2. pc'[r] = "poll" /\ "poll" \in ClaimedPcs
    BY <1>1, <2>1 DEF TypeOK, ClaimedPcs, ActivePcs
  <2>3. \A t \in Trials : Worked(t)'
    BY <1>1, <2>1 DEF Search, Worked
  <2>4. Collected(r)' = n /\ Retained(r)' = n
    BY <1>1, <1>2, <2>2 DEF Collected, Retained
  <2>5. FirstMaximum(n)'
    BY <1>1, <1>3, <1>4, <2>1, MaximumStays
  <2>6. Found(r)'
    BY <1>1, <1>4, <2>2 DEF Found
  <2>7. \A t \in Trials : Outcome(r, t)' /\ Purged(r, t)'
    <3>1. \A t \in Trials : Outcome(r, t)'
      BY <1>1, <1>3, <1>4, <1>5, <2>1, <2>2, <2>4 DEF Outcome
    <3>2. \A t \in Trials : Purged(r, t)'
      BY <1>1, <1>3, <1>4, <2>1, <2>2, <2>4 DEF Purged, Kept, BestTrials
    <3>. QED
      BY <3>1, <3>2
  <2>8. Result(r)'
    BY <2>4, <2>5, <2>6, <2>7 DEF Result
  <2>. QED
    BY <1>1, <2>1, <2>2, <2>3, <2>8, OwnerSearch
<1>. QED
  BY <1>6, <1>7

LEMMA PollSearch ==
  ASSUME IInv, Search, NEW r \in Runners, Poll(r)
  PROVE  Search'
<1>1. CASE study.cancel
  BY <1>1, EndSearch
<1>2. CASE ~study.cancel
  <2>1. UNCHANGED <<trial, score, sim, periods, task, pc, batch, best>>
    BY <1>2 DEF Poll, rows
  <2>. QED
    BY <2>1, SearchUntouched
<1>. QED
  BY <1>1, <1>2

\* One more batch is compared with the best candidate so far.
LEMMA UpdatedMaximum ==
  ASSUME TypeOK, Data, NEW n \in 0..SearchBatches - 1, FirstMaximum(n),
         UpdateBest(n + 1), UNCHANGED <<trial, score>>
  PROVE  FirstMaximum(n + 1)'
<1>1. PICK b : b = n + 1
  OBVIOUS
<1>2. b \in 1..SearchBatches /\ b \in 1..FinalBatch /\ n \in Int /\ b = n + 1 /\ n < b
  BY <1>1, BatchRange
<1>3. PICK c \in Candidates(b) :
        /\ \A d \in Candidates(b) :
             \/ CandidateScore(b, c) > CandidateScore(b, d)
             \/ CandidateScore(b, c) = CandidateScore(b, d) /\ c <= d
        /\ best' = IF CandidateScore(b, c) > best.score
                   THEN [batch |-> b, cand |-> c, score |-> CandidateScore(b, c)]
                   ELSE best
  BY <1>1 DEF UpdateBest
<1>4. \A x \in 1..SearchBatches : \A y \in Candidates(x) :
        CandidateScore(x, y) \in Int /\ y \in Int
  <2>1. \A x \in 1..SearchBatches : x \in 1..FinalBatch
    BY BatchRange
  <2>. QED
    BY <2>1, CandidateScoreType, CandidateNat DEF NoScore
<1>5. best.score \in Int /\ best.batch \in 0..SearchBatches
  BY DEF TypeOK, BestType, NoScore
<1>6. \A x, y : CandidateScore(x, y)' = CandidateScore(x, y)
  BY DEF CandidateScore
<1>7. CASE CandidateScore(b, c) > best.score
  <2>1. best' = [batch |-> b, cand |-> c, score |-> CandidateScore(b, c)]
    BY <1>3, <1>7
  <2>2. best'.batch = b /\ best'.cand = c /\ best'.score = CandidateScore(b, c)
    BY <2>1
  <2>3. ASSUME NEW x \in 1..SearchBatches, x <= b, NEW y \in Candidates(x)
        PROVE  \/ CandidateScore(x, y) < best'.score
               \/ /\ CandidateScore(x, y) = best'.score
                  /\ \/ best'.score = NoScore \/ x > best'.batch
                     \/ x = best'.batch /\ y >= best'.cand
    <3>1. CASE x = b
      BY <1>2, <1>3, <1>4, <2>2, <3>1
    <3>2. CASE x <= n
      BY <1>2, <1>3, <1>4, <1>5, <1>7, <2>2, <3>2 DEF FirstMaximum
    <3>. QED
      BY <1>2, <2>3, <3>1, <3>2
  <2>4. /\ best'.batch \in 1..b
        /\ best'.cand \in Candidates(best'.batch)
        /\ best'.score = CandidateScore(best.batch, best.cand)'
    BY <1>2, <1>3, <1>6, <2>2
  <2>. QED
    BY <1>1, <1>2, <1>6, <2>3, <2>4 DEF FirstMaximum, Candidates
<1>8. CASE ~(CandidateScore(b, c) > best.score)
  <2>1. best' = best
    BY <1>3, <1>8
  <2>2. ASSUME NEW x \in 1..SearchBatches, x <= b, NEW y \in Candidates(x)
        PROVE  \/ CandidateScore(x, y) < best.score
               \/ /\ CandidateScore(x, y) = best.score
                  /\ \/ best.score = NoScore \/ x > best.batch
                     \/ x = best.batch /\ y >= best.cand
    <3>1. CASE x = b
      <4>1. best.score = NoScore \/ b > best.batch
        BY <1>2, <1>5 DEF FirstMaximum
      <4>. QED
        BY <1>2, <1>3, <1>4, <1>5, <1>8, <3>1, <4>1
    <3>2. CASE x <= n
      BY <1>2, <3>2 DEF FirstMaximum
    <3>. QED
      BY <1>2, <2>2, <3>1, <3>2
  <2>3. best.score # NoScore =>
          /\ best.batch \in 1..b
          /\ best.cand \in Candidates(best.batch)
          /\ best.score = CandidateScore(best.batch, best.cand)'
    BY <1>2, <1>5, <1>6, <2>1 DEF FirstMaximum
  <2>. QED
    BY <1>1, <1>2, <1>6, <2>1, <2>2, <2>3 DEF FirstMaximum, Candidates
<1>. QED
  BY <1>7, <1>8

\* A batch whose trials are all done is collected and scored.
LEMMA CollectSearch ==
  ASSUME IInv, Search, NEW r \in Runners, Collect(r)
  PROVE  Search'
<1>. USE DEF IInv
<1>1. /\ pc[r] = "poll" /\ pc[r] \in ActivePcs
      /\ UNCHANGED <<trial, score, sim, periods, task, batch>>
      /\ batch \in 1..FinalBatch
      /\ \A t \in Trials : t[1] = batch => task[t] = "done"
      /\ Result(r) /\ TypeOK /\ Data
  BY DEF Collect, BatchReady, BatchTrials, ActivePcs, Data, Search, rows
<1>2. \A t \in Trials : Worked(t)'
  BY <1>1 DEF Search, Worked
<1>3. CASE pc' = [pc EXCEPT ![r] = "fail"]
  <2>1. "fail" \in ClaimedPcs \ GoingPcs
    BY DEF ClaimedPcs, ActivePcs, GoingPcs
  <2>. QED
    BY <1>1, <1>2, <1>3, <2>1, SearchLeft
<1>4. CASE ~(pc' = [pc EXCEPT ![r] = "fail"])
  <2>1. /\ pc' = [pc EXCEPT ![r] = "retain"]
        /\ batch = FinalBatch => CandidateScore(batch, 1) # NoScore
        /\ IF batch = FinalBatch THEN UNCHANGED best ELSE UpdateBest(batch)
    BY <1>4 DEF Collect, Goto
  <2>2. pc'[r] = "retain" /\ "retain" \in ClaimedPcs
    BY <1>1, <2>1 DEF TypeOK, ClaimedPcs, ActivePcs
  <2>3. PICK n : n = batch - 1
    OBVIOUS
  <2>4. /\ n \in 0..SearchBatches /\ n \in 0..FinalBatch /\ batch = n + 1
        /\ Collected(r) = n /\ Retained(r) = n
        /\ Collected(r)' = n + 1 /\ Retained(r)' = n
    BY <1>1, <2>2, <2>3, BatchRange DEF Collected, Retained
  <2>5. /\ \A t \in Trials : Outcome(r, t) /\ Purged(r, t)
        /\ FirstMaximum(n) /\ Found(r)
    BY <1>1, <2>4 DEF Result, GoingPcs
  <2>6. FirstMaximum(n + 1)'
    <3>1. CASE batch # FinalBatch
      <4>1. n \in 0..SearchBatches - 1 /\ UpdateBest(n + 1)
        BY <1>1, <2>1, <2>4, <3>1, BatchRange
      <4>. QED
        BY <1>1, <2>5, <4>1, UpdatedMaximum
    <3>2. CASE batch = FinalBatch
      <4>1. FirstMaximum(n)'
        BY <1>1, <2>1, <2>4, <2>5, <3>2, MaximumStays
      <4>2. n = SearchBatches
        BY <2>4, <3>2, BatchRange
      <4>. QED
        BY <4>1, <4>2, BatchRange DEF FirstMaximum
    <3>. QED
      BY <3>1, <3>2
  <2>7. Found(r)'
    <3>1. CASE batch # FinalBatch
      BY <1>1, <2>2, <3>1 DEF Found
    <3>2. CASE batch = FinalBatch
      <4>1. CandidateScore(FinalBatch, 1)' = CandidateScore(FinalBatch, 1)
        BY <1>1, BatchRange, ScoreStays DEF Candidates
      <4>. QED
        BY <1>1, <2>1, <2>2, <2>5, <3>2, <4>1 DEF Found
    <3>. QED
      BY <3>1, <3>2
  <2>8. ASSUME NEW t \in Trials PROVE Outcome(r, t)' /\ Purged(r, t)'
    <3>1. t[1] \in 1..FinalBatch /\ Outcome(r, t) /\ Purged(r, t)
      BY <2>5, TrialFacts
    <3>2. Outcome(r, t)'
      BY <1>1, <2>2, <2>4, <3>1, BatchRange DEF Outcome
    <3>3. ASSUME trial[t] = "FINISHED", t[1] <= n + 1, t \in Kept' PROVE periods[t]
      <4>1. CASE t[1] = batch
        BY <1>1, <2>4, <3>1, <3>3, <4>1 DEF Outcome
      <4>2. CASE t[1] # batch
        <5>1. t[1] <= n /\ t[1] # FinalBatch
          BY <1>1, <2>4, <3>1, <3>3, <4>2, BatchRange
        <5>2. t \in BestTrials'
          BY <3>3, <5>1 DEF Kept, BatchTrials
        <5>3. best' = best
          BY <2>1, <4>2, <5>2 DEF UpdateBest, BestTrials, CandidateTrials
        <5>4. t \in Kept
          BY <5>2, <5>3 DEF Kept, BestTrials
        <5>. QED
          BY <2>4, <3>1, <3>3, <5>1, <5>4 DEF Purged
      <4>. QED
        BY <4>1, <4>2
    <3>. QED
      BY <1>1, <2>2, <2>4, <3>2, <3>3 DEF Purged
  <2>9. Result(r)'
    BY <2>4, <2>6, <2>7, <2>8 DEF Result
  <2>. QED
    BY <1>1, <1>2, <2>1, <2>2, <2>9, OwnerSearch
<1>. QED
  BY <1>3, <1>4

\* The retention drops what is not kept.
LEMMA RetainSearch ==
  ASSUME IInv, Search, NEW r \in Runners, Retain(r)
  PROVE  Search'
<1>. USE DEF IInv
<1>1. /\ pc[r] = "retain" /\ pc[r] \in ActivePcs
      /\ UNCHANGED <<trial, score, sim, task, batch, best>>
      /\ batch \in 1..FinalBatch
      /\ Result(r) /\ TypeOK
      /\ \A t \in Trials : periods'[t] <=>
           periods[t] /\ (trial[t] = "FINISHED" /\ sim[t] = "linked" => t \in Kept)
  BY DEF Retain, ActivePcs, Data, Search
<1>2. \A t \in Trials : Worked(t)'
  <2>1. \A t \in Trials : task[t] # "ran"
    BY <1>1, OwnerFacts DEF LiveTasks, BusyTasks
  <2>. QED
    BY <1>1, <2>1 DEF Search, Worked
<1>3. CASE pc' = [pc EXCEPT ![r] = "fail"]
  <2>1. "fail" \in ClaimedPcs \ GoingPcs
    BY DEF ClaimedPcs, ActivePcs, GoingPcs
  <2>. QED
    BY <1>1, <1>2, <1>3, <2>1, SearchLeft
<1>4. CASE ~(pc' = [pc EXCEPT ![r] = "fail"])
  <2>1. PICK to \in {"finish", "check"} :
          /\ pc' = [pc EXCEPT ![r] = to]
          /\ to = "finish" <=> batch = FinalBatch
          /\ batch = SearchBatches => best.score # NoScore
    <3>1. CASE batch = FinalBatch
      BY <3>1, BatchRange DEF Retain, Goto
    <3>2. CASE batch # FinalBatch
      BY <1>4, <3>2, BatchRange DEF Retain, Goto
    <3>. QED
      BY <3>1, <3>2
  <2>2. pc'[r] = to /\ to \in ClaimedPcs
    BY <1>1, <2>1 DEF TypeOK, ClaimedPcs, ActivePcs
  <2>3. PICK n : n = batch
    OBVIOUS
  <2>4. /\ n \in 0..FinalBatch
        /\ Collected(r) = n /\ Retained(r) = n - 1
        /\ Collected(r)' = n /\ Retained(r)' = n
    BY <1>1, <2>1, <2>2, <2>3, BatchRange DEF Collected, Retained
  <2>5. /\ \A t \in Trials : Outcome(r, t) /\ Purged(r, t)
        /\ FirstMaximum(n) /\ Found(r)
    BY <1>1, <2>4 DEF Result, GoingPcs
  <2>6. FirstMaximum(n)'
    BY <1>1, <2>4, <2>5, MaximumStays
  <2>7. Found(r)'
    <3>1. CandidateScore(FinalBatch, 1)' = CandidateScore(FinalBatch, 1)
      BY <1>1, BatchRange, ScoreStays DEF Candidates
    <3>. QED
      BY <1>1, <2>1, <2>2, <2>5, <3>1, BatchRange DEF Found
  <2>8. ASSUME NEW t \in Trials PROVE Outcome(r, t)' /\ Purged(r, t)'
    <3>1. t[1] \in 1..FinalBatch /\ Outcome(r, t) /\ Purged(r, t) /\ Worked(t)
      BY <2>5, TrialFacts DEF Search
    <3>2. t[1] <= n => task[t] = "done"
      BY <2>4, <3>1 DEF Outcome
    <3>3. t[1] > n => task[t] = "none"
      BY <1>1, <2>4, <3>1 DEF Outcome
    <3>4. Outcome(r, t)'
      BY <1>1, <2>2, <2>4, <3>2, <3>3 DEF Outcome
    <3>5. Kept' = Kept
      BY <1>1 DEF Kept, BestTrials
    <3>6. t[1] <= n /\ t \in Kept /\ trial[t] = "FINISHED" => periods[t]
      BY <2>4, <3>1 DEF Purged
    <3>7. t[1] <= n /\ trial[t] = "FINISHED" => sim[t] = "linked"
      BY <3>1, <3>2 DEF Worked
    <3>8. Purged(r, t)'
      BY <1>1, <2>2, <2>4, <3>5, <3>6, <3>7 DEF Purged
    <3>. QED
      BY <3>4, <3>8
  <2>9. Result(r)'
    BY <2>4, <2>6, <2>7, <2>8 DEF Result
  <2>. QED
    BY <1>1, <1>2, <2>1, <2>2, <2>9, OwnerSearch
<1>. QED
  BY <1>3, <1>4

\* The runner that has retained the final evaluation writes an exact result.
LEMMA FinishExact ==
  ASSUME IInv, Search, NEW r \in Runners, FinishFinished(r)
  PROVE  ResultExact'
<1>1. /\ pc[r] = "finish" /\ UNCHANGED <<trial, score, periods, best>>
      /\ study' = [study EXCEPT !.status = "FINISHED",
                     !.best = [best EXCEPT !.score = CandidateScore(FinalBatch, 1)]]
      /\ TypeOK
  BY DEF FinishFinished, Finish, rows, IInv
<1>2. Result(r) /\ pc[r] \in GoingPcs
  BY <1>1 DEF Search, GoingPcs
<1>3. /\ batch = FinalBatch /\ Collected(r) = FinalBatch /\ Retained(r) = FinalBatch
      /\ FirstMaximum(FinalBatch)
      /\ best.score # NoScore /\ CandidateScore(FinalBatch, 1) # NoScore
  BY <1>1, <1>2 DEF Result, Found, Collected, Retained
<1>4. PICK b, c : b = best.batch /\ c = best.cand
  OBVIOUS
<1>5. /\ study'.best.batch = b /\ study'.best.cand = c
      /\ study'.best.score = CandidateScore(FinalBatch, 1)
  BY <1>1, <1>4 DEF TypeOK, BestType
<1>6. b \in 1..SearchBatches
  <2>1. b \in 0..SearchBatches /\ b \in 1..FinalBatch
    BY <1>1, <1>3, <1>4 DEF TypeOK, BestType, FirstMaximum
  <2>. QED
    BY <2>1, BatchRange
<1>7. \A x, y : CandidateScore(x, y)' = CandidateScore(x, y)
  BY <1>1 DEF CandidateScore
<1>8. \A x \in 1..SearchBatches : \A y \in Candidates(x) :
        \/ CandidateScore(x, y) < CandidateScore(b, c)
        \/ /\ CandidateScore(x, y) = CandidateScore(b, c)
           /\ x > b \/ (x = b /\ y >= c)
  <2>1. CandidateScore(b, c) = best.score
    BY <1>3, <1>4 DEF FirstMaximum
  <2>2. \A x \in 1..SearchBatches : x <= FinalBatch
    BY BatchRange
  <2>. QED
    BY <1>3, <1>4, <2>1, <2>2 DEF FirstMaximum
<1>9. BestIsFirstMaximum'
  BY <1>3, <1>5, <1>6, <1>7, <1>8 DEF BestIsFirstMaximum, Candidates
<1>10. RetentionExact'
  <2>1. ASSUME NEW t \in Trials, trial[t] = "FINISHED"
        PROVE  periods[t] <=> t \in CandidateTrials(b, c) \/ t[1] = FinalBatch
    <3>1. Purged(r, t) /\ t[1] <= FinalBatch
      BY <1>2, TrialFacts, BatchRange DEF Result
    <3>2. periods[t] <=> t \in Kept
      BY <1>1, <1>3, <2>1, <3>1 DEF Purged
    <3>. QED
      BY <1>4, <3>2 DEF Kept, BestTrials, BatchTrials
  <2>2. CandidateTrials(b, c)' = CandidateTrials(b, c)
    BY DEF CandidateTrials
  <2>. QED
    BY <1>1, <1>5, <2>1, <2>2 DEF RetentionExact
<1>. QED
  BY <1>9, <1>10 DEF ResultExact

LEMMA InitSearch == Init => Search /\ ResultExact
BY DEF Init, Search, Worked, Untried, Result, GoingPcs, NoBest, ResultExact,
   BestIsFirstMaximum, RetentionExact

LEMMA SearchStep == IInv /\ Search /\ ResultExact /\ [Next]_vars => Search' /\ ResultExact'
<1>. SUFFICES ASSUME IInv, Search, ResultExact, [Next]_vars PROVE Search' /\ ResultExact'
  OBVIOUS
<1>1. ASSUME NEW r \in Runners, Spawn(r) \/ RunnerStep(r) \/ RunnerError(r) \/ Crash(r)
      PROVE  Search'
  BY <1>1, SpawnSearch, ClaimSearch, CheckSearch, CreateSearch, PollSearch,
     CollectSearch, RetainSearch, EndSearch DEF RunnerStep
<1>2. ASSUME StartFails PROVE Search'
  BY <1>2, SpawnSearch, StudyAssumption
<1>3. ASSUME NEW t \in Trials,
             WorkerStart(t) \/ WorkerStep(t) \/ WorkerFail(t) \/ WorkerLost(t)
      PROVE  Search'
  BY <1>3, WorkerSearch
<1>4. ASSUME HeartbeatExpires \/ Sweep \/ \E u \in Users : CancelRead(u) \/ UserStep(u)
      PROVE  Search'
  BY <1>4, WebSearch
<1>5. ASSUME UNCHANGED vars PROVE Search'
  BY <1>5, SearchUntouched DEF vars, rows
<1>6. Search'
  BY <1>1, <1>2, <1>3, <1>4, <1>5 DEF Next
<1>7. CASE \E r \in Runners : FinishFinished(r)
  BY <1>6, <1>7, FinishExact
<1>8. CASE ~\E r \in Runners : FinishFinished(r)
  <2>1. study'.status = "FINISHED" => study.status = "FINISHED"
    <3>1. TypeOK
      BY DEF IInv
    <3>2. ASSUME NEW r \in Runners, Spawn(r) \/ RunnerStep(r) \/ RunnerError(r) \/ Crash(r)
          PROVE  <2>1
      BY <1>8, <3>1, <3>2 DEF Spawn, RunnerStep, RunnerError, Crash, Claim, ClaimRefused,
         CheckCancel, CreateTrial, SubmitBatch, Poll, Collect, Retain, MarkCanceled,
         FinishCanceled, FinishFailed, Finish, TypeOK
    <3>3. ASSUME NEW t \in Trials,
                 WorkerStart(t) \/ WorkerStep(t) \/ WorkerFail(t) \/ WorkerLost(t)
          PROVE  <2>1
      BY <3>3 DEF WorkerStart, WorkerStep, WorkerFail, WorkerLost, WorkerClone,
         WorkerLink, WorkerRun, WorkerFinish, WorkerReport
    <3>4. ASSUME HeartbeatExpires \/ Sweep \/ StartFails
                   \/ \E u \in Users : CancelRead(u) \/ UserStep(u)
          PROVE  <2>1
      BY <3>1, <3>4 DEF HeartbeatExpires, Sweep, SweepRead, SweepFail, StartFails, UserStep,
         CancelRead, CancelFlag, CancelClose, TypeOK
    <3>5. ASSUME UNCHANGED vars PROVE <2>1
      BY <3>5 DEF vars
    <3>. QED
      BY <3>2, <3>3, <3>4, <3>5 DEF Next
  <2>. QED
    BY <1>6, <2>1, ExactStays
<1>. QED
  BY <1>7, <1>8

\* A finished study shows the first maximum of its search with a score that was
\* evaluated on the held-out seeds, and has kept exactly the evaluations of that
\* candidate and of the final evaluation.
THEOREM ResultIsExact == Spec => []ResultExact
BY InitSearch, SearchStep, Invariance, PTL DEF Spec
=============================================================================
