----------------------------- MODULE Checkpoints -----------------------------
(***************************************************************************)
(* The saved policies of the runs of one scenario: files and               *)
(* PolicyCheckpoint rows, runs that save them when they have finished,     *)
(* runs that start from the policies of another run, and users who delete  *)
(* runs meanwhile.                                                         *)
(*                                                                         *)
(* A policy is represented by the scenario agent whose experience it       *)
(* holds and by the number of periods it was trained.                      *)
(***************************************************************************)
EXTENDS Integers, FiniteSets, FiniteSetsExt

CONSTANTS
  Runs,      \* runs of the scenario
  NoRun,
  K,         \* the scenario has agents 1..K, in the order of their ids
  Learners,  \* those whose algorithm learns
  Key,       \* _match_key of every agent
  Trains,    \* evaluation_start - 1: periods a run trains
  Crashes    \* may processes be killed?

ASSUME CheckpointAssumption ==
  /\ NoRun \notin Runs
  /\ K \in Nat \ {0}
  /\ Learners \subseteq 1..K /\ Learners # {}
  /\ DOMAIN Key = 1..K
  /\ Trains \in Nat
  /\ Crashes \in BOOLEAN

VARIABLES
  state,     \* Simulation.state of every run, "absent" without a row
  warm,      \* Simulation.warm_start_from
  freeze,    \* Simulation.freeze_policies
  row,       \* PolicyCheckpoint.periods_trained, or NoRow
  file,      \* the policy in the checkpoint file, or NoFile
  unlink,    \* files a web process removes after its commit
  pc,        \* where the request or the process of a run is
  origin,    \* the source its process has read
  parent,    \* the source's agent whose checkpoint is loaded, and its
             \* periods_trained, or NoParent
  policy     \* rt.policy of every agent

rows == <<state, warm, freeze, row>>
files == <<file, unlink>>
process == <<origin, parent, policy>>
vars == <<rows, files, pc, process>>

Agents == 1..K
NoRow == -1
NoFile == [owner |-> 0, trained |-> -1]
NoParent == [agent |-> 0, trained |-> 0]
Parents == [agent : Agents, trained : Nat]
Policies == [owner : Agents, trained : Nat]
Fresh(a) == [owner |-> a, trained |-> 0]

Places == {"none", "checked", "created", "read", "resolved", "training",
           "saving", "ended", "killed"}

TypeOK ==
  /\ state \in [Runs -> {"absent", "CREATED", "STARTED", "FINISHED", "FAILED"}]
  /\ warm \in [Runs -> Runs \cup {NoRun}]
  /\ freeze \in [Runs -> BOOLEAN]
  /\ row \in [Runs -> [Learners -> Nat \cup {NoRow}]]
  /\ file \in [Runs -> [Learners -> Policies \cup {NoFile}]]
  /\ unlink \in SUBSET (Runs \X Learners)
  /\ pc \in [Runs -> Places]
  /\ origin \in [Runs -> Runs \cup {NoRun}]
  /\ parent \in [Runs -> [Learners -> Parents \cup {NoParent}]]
  /\ policy \in [Runs -> [Learners -> Policies]]

Init ==
  /\ state = [r \in Runs |-> "absent"]
  /\ warm = [r \in Runs |-> NoRun]
  /\ freeze = [r \in Runs |-> FALSE]
  /\ row = [r \in Runs |-> [a \in Learners |-> NoRow]]
  /\ file = [r \in Runs |-> [a \in Learners |-> NoFile]]
  /\ unlink = {}
  /\ pc = [r \in Runs |-> "none"]
  /\ origin = [r \in Runs |-> NoRun]
  /\ parent = [r \in Runs |-> [a \in Learners |-> NoParent]]
  /\ policy = [r \in Runs |-> [a \in Learners |-> Fresh(a)]]

Goto(r, there) == pc' = [pc EXCEPT ![r] = there]
SetState(r, s) == state' = [state EXCEPT ![r] = s]

-----------------------------------------------------------------------------
(* Matching: resolve_warm_start.                                           *)

Saved(s) == {a \in Learners : row[s][a] # NoRow}

\* The checkpoints of run s that have the key of agent a.
Candidates(s, a) == {b \in Saved(s) : Key[b] = Key[a]}

\* by_key.setdefault: the first of them by id.
Match(s, a) ==
  IF Candidates(s, a) = {} THEN NoParent
  ELSE LET b == Min(Candidates(s, a)) IN [agent |-> b, trained |-> row[s][b]]

Resolvable(s) == state[s] = "FINISHED" /\ Saved(s) # {}

-----------------------------------------------------------------------------
(* Requests that create and delete runs.                                   *)

\* run_simulation without and with warm_start_from; check_warm_start finds
\* the rows and opens the files of the source.
RequestCold(r) ==
  /\ pc[r] = "none"
  /\ SetState(r, "CREATED")
  /\ Goto(r, "created")
  /\ UNCHANGED <<warm, freeze, row, files, process>>

CheckWarmStart(r) ==
  /\ pc[r] = "none"
  /\ \E s \in Runs, f \in BOOLEAN :
       /\ Resolvable(s)
       /\ \A a \in Learners : LET m == Match(s, a)
                             IN m # NoParent => file[s][m.agent] # NoFile
       /\ origin' = [origin EXCEPT ![r] = s]
       /\ freeze' = [freeze EXCEPT ![r] = f]
  /\ Goto(r, "checked")
  /\ UNCHANGED <<state, warm, row, files, parent, policy>>

\* clone_scenario_for_run matches the source again before it writes the run;
\* if that fails the answer is HTTP 400 and there is no run.
Clone(r) ==
  /\ pc[r] = "checked"
  /\ IF Resolvable(origin[r])
     THEN /\ SetState(r, "CREATED")
          /\ warm' = [warm EXCEPT ![r] = origin[r]]
          /\ Goto(r, "created")
     ELSE Goto(r, "ended") /\ UNCHANGED <<state, warm>>
  /\ UNCHANGED <<freeze, row, files, process>>

\* delete_simulation, in any state: the checkpoints go with the run, runs
\* started from it forget it (SET_NULL), the files are removed on commit.
Delete(r) ==
  /\ state[r] # "absent"
  /\ SetState(r, "absent")
  /\ row' = [row EXCEPT ![r] = [a \in Learners |-> NoRow]]
  /\ warm' = [x \in Runs |-> IF warm[x] = r THEN NoRun ELSE warm[x]]
  /\ unlink' = unlink \cup ({r} \X Saved(r))
  /\ UNCHANGED <<freeze, file, pc, process>>

\* _remove_file. A file that cannot be removed stays in unlink for ever.
Unlink ==
  /\ \E x \in unlink :
       /\ unlink' = unlink \ {x}
       /\ file' = [file EXCEPT ![x[1]][x[2]] = NoFile]
  /\ UNCHANGED <<rows, pc, process>>

-----------------------------------------------------------------------------
(* The process of a run.                                                   *)

\* Simulation.objects.get
ReadRun(r) ==
  /\ pc[r] = "created"
  /\ IF state[r] = "absent"
     THEN Goto(r, "ended") /\ UNCHANGED origin
     ELSE Goto(r, "read") /\ origin' = [origin EXCEPT ![r] = warm[r]]
  /\ UNCHANGED <<rows, files, parent, policy>>

\* The run fails (or is gone, and the process ends with the exception).
FailRun(r) ==
  /\ state' = [state EXCEPT ![r] = IF @ = "absent" THEN @ ELSE "FAILED"]
  /\ Goto(r, "ended")

\* apply_warm_start: nothing to do without a source, else the matches ...
Resolve(r) ==
  /\ pc[r] = "read"
  /\ IF origin[r] = NoRun THEN Goto(r, "training") /\ UNCHANGED <<state, parent>>
     ELSE IF ~Resolvable(origin[r]) THEN FailRun(r) /\ UNCHANGED parent
     ELSE /\ parent' = [parent EXCEPT ![r] =
                         [a \in Learners |-> Match(origin[r], a)]]
          /\ Goto(r, "resolved")
          /\ UNCHANGED state
  /\ UNCHANGED <<warm, freeze, row, files, origin, policy>>

Matched(r) == {a \in Learners : parent[r][a] # NoParent}
Loaded(r, a) == file[origin[r]][parent[r][a].agent]

\* ... then the files. A policy that does not fit its checkpoint (the scenario
\* was edited) starts fresh, or fails the run if it should be frozen.
Load(r) ==
  /\ pc[r] = "resolved"
  /\ \E fits \in SUBSET Matched(r) :
       IF \/ \E a \in Matched(r) : Loaded(r, a) = NoFile
          \/ freeze[r] /\ fits # Matched(r)
       THEN FailRun(r) /\ UNCHANGED <<parent, policy>>
       ELSE /\ policy' = [policy EXCEPT ![r] = [a \in Learners |->
                 IF a \in fits THEN Loaded(r, a) ELSE Fresh(a)]]
            /\ parent' = [parent EXCEPT ![r] = [a \in Learners |->
                 IF a \in fits THEN parent[r][a] ELSE NoParent]]
            /\ Goto(r, "training")
            /\ UNCHANGED state
  /\ UNCHANGED <<warm, freeze, row, files, origin>>

\* evaluate_only: the agents that have a parent, if the run is frozen.
Frozen(r) == IF freeze[r] THEN Matched(r) ELSE {}

\* The periods of the run, then FINISHED is saved.
Train(r) ==
  /\ pc[r] = "training"
  /\ policy' = [policy EXCEPT ![r] = [a \in Learners |->
       IF a \in Frozen(r) THEN policy[r][a]
       ELSE [policy[r][a] EXCEPT !.trained = @ + Trains]]]
  /\ IF state[r] = "absent" THEN FailRun(r)
     ELSE SetState(r, "FINISHED") /\ Goto(r, "saving")
  /\ UNCHANGED <<warm, freeze, row, files, origin, parent>>

\* Any error of the run before it is FINISHED.
RunFails(r) ==
  /\ pc[r] \in {"read", "training"}
  /\ FailRun(r)
  /\ UNCHANGED <<warm, freeze, row, files, process>>

Written(r) == {a \in Learners : file[r][a] # NoFile}

\* save_run_checkpoints writes one file after the other ...
WriteFile(r) ==
  /\ pc[r] = "saving" /\ Written(r) # Learners
  /\ LET a == Min(Learners \ Written(r))
     IN file' = [file EXCEPT ![r][a] = policy[r][a]]
  /\ UNCHANGED <<rows, unlink, pc, process>>

\* Mutant of PeriodsTrained: a frozen agent is counted as trained.
PeriodsTrainedAll(r, a) == Trains + parent[r][a].trained

PeriodsTrained(r, a) == (IF a \in Frozen(r) THEN 0 ELSE Trains) + parent[r][a].trained

\* The foreign keys of the new rows: the run and the parent checkpoints.
ReferencesExist(r) ==
  /\ state[r] # "absent"
  /\ \A a \in Matched(r) : row[origin[r]][parent[r][a].agent] # NoRow

\* Mutant of CommitRows: the row of an agent is saved with its file.
CommitRowsEach(r) ==
  /\ pc[r] = "saving" /\ Written(r) # {} /\ ReferencesExist(r)
  /\ row' = [row EXCEPT ![r] = [a \in Learners |->
       IF a \in Written(r) THEN PeriodsTrained(r, a) ELSE NoRow]]
  /\ Goto(r, IF Written(r) = Learners THEN "ended" ELSE "saving")
  /\ UNCHANGED <<state, warm, freeze, files, process>>

\* ... and then all rows in one transaction.
CommitRows(r) ==
  /\ pc[r] = "saving" /\ Written(r) = Learners /\ ReferencesExist(r)
  /\ row' = [row EXCEPT ![r] = [a \in Learners |-> PeriodsTrained(r, a)]]
  /\ Goto(r, "ended")
  /\ UNCHANGED <<state, warm, freeze, files, process>>

\* A file cannot be written, or the transaction fails on a foreign key: the
\* files written so far are removed again. The run stays FINISHED.
SaveFails(r) ==
  /\ pc[r] = "saving"
  /\ Written(r) = Learners => ~ReferencesExist(r)
  /\ file' = [file EXCEPT ![r] = [a \in Learners |-> NoFile]]
  /\ Goto(r, "ended")
  /\ UNCHANGED <<rows, unlink, process>>

Kill(r) ==
  /\ Crashes
  /\ pc[r] \in {"created", "read", "resolved", "training", "saving"}
  /\ Goto(r, "killed")
  /\ UNCHANGED <<rows, files, process>>

-----------------------------------------------------------------------------
Next ==
  \/ Unlink
  \/ \E r \in Runs :
       \/ RequestCold(r) \/ CheckWarmStart(r) \/ Clone(r) \/ Delete(r)
       \/ ReadRun(r) \/ Resolve(r) \/ Load(r) \/ Train(r) \/ RunFails(r)
       \/ WriteFile(r) \/ CommitRows(r) \/ SaveFails(r) \/ Kill(r)

Spec == Init /\ [][Next]_vars
-----------------------------------------------------------------------------
(* Properties.                                                             *)

\* Every checkpoint row has its file, also while other runs load it and while
\* runs are deleted or killed: files are written before the rows and removed
\* after them.
RowsHaveFiles ==
  \A r \in Runs : \A a \in Learners : row[r][a] # NoRow => file[r][a] # NoFile

\* Only a FINISHED run has checkpoints, and then one of every learning agent:
\* a run that starts from it never sees a part of them.
AllOrNothing ==
  \A r \in Runs : Saved(r) # {} => Saved(r) = Learners /\ state[r] = "FINISHED"

\* A file without a row is one that a live process is about to commit or a
\* web process is about to remove; only a killed process leaves one behind.
NoStrayFiles ==
  \A r \in Runs : \A a \in Learners :
    file[r][a] # NoFile /\ row[r][a] = NoRow =>
      pc[r] \in {"saving", "killed"} \/ <<r, a>> \in unlink

\* periods_trained of a checkpoint is the number of periods its policy was
\* trained, over all the runs it was handed through, with and without freezing
\* and after the runs in between have been deleted.
PeriodsTrainedIsTrue ==
  \A r \in Runs : \A a \in Learners :
    row[r][a] # NoRow => row[r][a] = file[r][a].trained

\* An agent is given the policy of the same scenario agent, over any chain of
\* runs, if no two agents of the scenario share a key.
OwnPolicyOnly ==
  \A r \in Runs : \A a \in Learners : policy[r][a].owner = a

\* Files and rows agree in the middle of every save, deletion and crash.
FilesMatchRows == TypeOK /\ RowsHaveFiles /\ AllOrNothing /\ NoStrayFiles

\* A loaded policy is the agent's own, trained for as long as its row says.
PoliciesAreTrue == PeriodsTrainedIsTrue /\ OwnPolicyOnly

\* library_service.py:866: a run with freeze_policies runs the loaded policies
\* without learning. When the source was deleted before the process read the
\* run, it starts from nothing and learns.
FrozenRunHasSource ==
  \A r \in Runs : pc[r] = "training" /\ freeze[r] => origin[r] # NoRun

\* checkpoints.py:3: one checkpoint per learning agent is written when a run
\* has FINISHED. Not when the run it started from was deleted meanwhile: the
\* rows refer to that run's checkpoints, the transaction fails, and the files
\* of the trained policies are removed.
PoliciesAreSaved ==
  [][\A r \in Runs :
       /\ pc[r] = "saving" /\ pc'[r] = "ended"
       /\ state[r] = "FINISHED" /\ Written(r) = Learners
       => Saved(r)' = Learners]_vars
=============================================================================
