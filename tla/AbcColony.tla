------------------------------ MODULE AbcColony ------------------------------
(***************************************************************************)
(* The search of a study: the batch-synchronous Artificial Bee Colony of   *)
(* abc_optimizer.py and the bookkeeping of _StudyEvaluator around it.      *)
(*                                                                         *)
(* A food source is represented by the objectives of the candidate that    *)
(* occupies it; its position in the unit cube plays no part below.         *)
(***************************************************************************)
EXTENDS Integers, Sequences, FiniteSets, FiniteSetsExt

CONSTANTS
  SN,          \* colony_size
  MaxIter,     \* max_iter
  Limit,       \* limit
  Finite,      \* objective pairs a successful evaluation may have
  Failed,      \* the outcome (-inf, -inf)
  W1, W2       \* objective weights

ASSUME AbcAssumption ==
  /\ SN \in Nat /\ SN >= 2
  /\ MaxIter \in Nat \ {0}
  /\ Limit \in Nat \ {0}
  /\ Finite \subseteq Nat \X Nat /\ Finite # {}
  /\ Failed \notin Finite
  /\ W1 \in Nat /\ W2 \in Nat

VARIABLES
  source,     \* objectives of every food source
  counter,    \* trials: rejections since the source was set
  phase,      \* INIT, EMPLOYED, ONLOOKER, SCOUT, or done
  step,       \* within a phase: submit, record or apply
  cycle,      \* t
  requests,   \* the source index of every candidate of the batch
  results,    \* their outcomes
  pos,        \* candidates of the batch already recorded or applied
  best,       \* objectives of _best, Failed while there is none
  archive,    \* how often each non-dominated objective pair is in _archive
  history,    \* _history, the entry of cycle t at t + 1
  scouts,     \* n_scouts
  ending,     \* how run() ended
  studyBest,  \* objectives of _StudyEvaluator's best candidate
  seen,       \* how many candidates had each outcome (the trial rows)
  evaluated   \* how many candidates there are

vars == <<source, counter, phase, step, cycle, requests, results, pos, best,
          archive, history, scouts, ending, studyBest, seen, evaluated>>

Sources == 1..SN
Outcomes == Finite \cup {Failed}
NoScore == -1                        \* the code's -inf

\* weighted_score
Score(o) == IF o = Failed THEN NoScore ELSE W1 * o[1] + W2 * o[2]

\* fitness_from_score is positive exactly for finite scores, and the roulette
\* wheel is uniform when every fitness is 0.
Choosable == IF \E i \in Sources : source[i] # Failed
             THEN {i \in Sources : source[i] # Failed} ELSE Sources

\* pareto.dominates
Dominates(a, b) == a[1] >= b[1] /\ a[2] >= b[2] /\ a # b

TypeOK ==
  /\ source \in [Sources -> Outcomes]
  /\ counter \in [Sources -> Nat]
  /\ phase \in {"INIT", "EMPLOYED", "ONLOOKER", "SCOUT", "done"}
  /\ step \in {"submit", "record", "apply"}
  /\ cycle \in 0..MaxIter
  /\ requests \in Seq(Sources) /\ results \in Seq(Outcomes)
  /\ Len(requests) = Len(results)
  /\ pos \in 0..Len(results)
  /\ best \in Outcomes
  /\ archive \in [Finite -> Nat]
  /\ history \in Seq(Nat \cup {NoScore})
  /\ scouts \in 0..MaxIter
  /\ ending \in {"none", "complete", "stopped", "raised"}
  /\ studyBest \in Outcomes
  /\ seen \in [Outcomes -> Nat]
  /\ evaluated \in Nat

Init ==
  /\ source = [i \in Sources |-> Failed]
  /\ counter = [i \in Sources |-> 0]
  /\ phase = "INIT" /\ step = "submit" /\ cycle = 0
  /\ requests = <<>> /\ results = <<>> /\ pos = 0
  /\ best = Failed
  /\ archive = [o \in Finite |-> 0]
  /\ history = <<>>
  /\ scouts = 0
  /\ ending = "none"
  /\ studyBest = Failed
  /\ seen = [o \in Outcomes |-> 0]
  /\ evaluated = 0

-----------------------------------------------------------------------------
\* np.argmax: the first source with the largest counter.
Exhausted == Min({i \in Sources : \A j \in Sources : counter[i] >= counter[j]})

ScoutDue == counter[Exhausted] > Limit

\* The sources whose candidates a phase submits: all in order, SN draws of the
\* roulette wheel, or the exhausted source.
Batches ==
  CASE phase \in {"INIT", "EMPLOYED"} -> {[k \in Sources |-> k]}
    [] phase = "ONLOOKER" -> [Sources -> Choosable]
    [] OTHER -> {<<Exhausted>>}

Submitting == step = "submit" /\ phase # "done" /\ (phase = "SCOUT" => ScoutDue)

\* Mutant of StudyUpdate: >= for >.
StudyUpdateTie(outcomes) ==
  \E k \in DOMAIN outcomes :
    /\ \A j \in DOMAIN outcomes : Score(outcomes[j]) <= Score(outcomes[k])
    /\ studyBest' = IF Score(outcomes[k]) >= Score(studyBest)
                    THEN outcomes[k] ELSE studyBest

\* _StudyEvaluator.__call__: the first best candidate of the batch, if it is
\* strictly better than the best so far.
StudyUpdate(outcomes) ==
  \E k \in DOMAIN outcomes :
    /\ \A j \in DOMAIN outcomes :
         \/ Score(outcomes[j]) < Score(outcomes[k])
         \/ Score(outcomes[j]) = Score(outcomes[k]) /\ k <= j
    /\ studyBest' = IF Score(outcomes[k]) > Score(studyBest)
                    THEN outcomes[k] ELSE studyBest

\* _submit: should_stop was False and the callable returned the scores.
Evaluate ==
  /\ Submitting
  /\ \E batch \in Batches :
       \E outcomes \in [DOMAIN batch -> Outcomes] :
         /\ requests' = batch /\ results' = outcomes
         /\ StudyUpdate(outcomes)
  /\ pos' = 0 /\ step' = "record"
  /\ UNCHANGED <<source, counter, phase, cycle, best, archive, history, scouts,
                 ending, seen, evaluated>>

\* Mutant of Stop: the history ends with the last complete cycle.
StopSilent ==
  /\ Submitting
  /\ ending' = "stopped" /\ phase' = "done"
  /\ UNCHANGED <<source, counter, step, cycle, requests, results, pos, best,
                 archive, history, scouts, studyBest, seen, evaluated>>

\* _submit: should_stop returned True. run() adds the cycle to the history
\* unless it is still initialising.
Stop ==
  /\ Submitting
  /\ ending' = "stopped" /\ phase' = "done"
  /\ history' = IF phase = "INIT" THEN history
                ELSE Append(history, Score(best))
  /\ UNCHANGED <<source, counter, step, cycle, requests, results, pos, best,
                 archive, scouts, studyBest, seen, evaluated>>

\* The callable raised (StudyCanceled, StudyFailed): run() ends with it.
Raise ==
  /\ Submitting
  /\ ending' = "raised" /\ phase' = "done"
  /\ UNCHANGED <<source, counter, step, cycle, requests, results, pos, best,
                 archive, history, scouts, studyBest, seen, evaluated>>

\* (The first candidate becomes _best even if it failed: Failed either way.)
RecordBest(o) == best' = IF Score(o) > Score(best) THEN o ELSE best

RecordArchive(o) ==
  archive' =
    IF o = Failed \/ (\E a \in Finite : archive[a] > 0 /\ Dominates(a, o))
    THEN archive
    ELSE [a \in Finite |-> IF a = o THEN archive[a] + 1
                           ELSE IF Dominates(o, a) THEN 0 ELSE archive[a]]

\* _record, for one candidate of the batch after the other.
Record ==
  /\ step = "record"
  /\ LET o == results[pos + 1]
     IN /\ RecordBest(o)
        /\ RecordArchive(o)
        /\ seen' = [seen EXCEPT ![o] = @ + 1]
        /\ evaluated' = evaluated + 1
  /\ IF pos + 1 = Len(results)
     THEN pos' = 0 /\ step' = "apply"
     ELSE pos' = pos + 1 /\ UNCHANGED step
  /\ UNCHANGED <<source, counter, phase, cycle, requests, results, history,
                 scouts, ending, studyBest>>

\* _set_source
SetSource(i, o) ==
  /\ source' = [source EXCEPT ![i] = o]
  /\ counter' = [counter EXCEPT ![i] = 0]

\* Mutant of Greedy: a candidate is compared with the batch's other results,
\* not with what the source holds by now.
GreedyBlind(i, o) ==
  IF o # Failed THEN SetSource(i, o)
  ELSE counter' = [counter EXCEPT ![i] = @ + 1] /\ UNCHANGED source

\* _greedy: several onlookers of one source are applied one after another.
Greedy(i, o) ==
  IF Score(o) > Score(source[i]) THEN SetSource(i, o)
  ELSE counter' = [counter EXCEPT ![i] = @ + 1] /\ UNCHANGED source

LastCycle == cycle = MaxIter

\* The end of a cycle, or of the initialisation.
EndCycle ==
  /\ history' = Append(history, Score(best))
  /\ IF LastCycle
     THEN phase' = "done" /\ ending' = "complete" /\ UNCHANGED cycle
     ELSE phase' = "EMPLOYED" /\ cycle' = cycle + 1 /\ UNCHANGED ending

Apply ==
  /\ step = "apply"
  /\ LET i == requests[pos + 1]
         o == results[pos + 1]
     IN IF phase \in {"INIT", "SCOUT"} THEN SetSource(i, o) ELSE Greedy(i, o)
  /\ scouts' = IF phase = "SCOUT" THEN scouts + 1 ELSE scouts
  /\ IF pos + 1 < Len(results)
     THEN pos' = pos + 1 /\ UNCHANGED <<step, phase, cycle, history, ending,
                                        requests, results>>
     ELSE /\ pos' = 0 /\ step' = "submit" /\ requests' = <<>> /\ results' = <<>>
          /\ CASE phase = "EMPLOYED" ->
                    phase' = "ONLOOKER" /\ UNCHANGED <<cycle, history, ending>>
               [] phase = "ONLOOKER" ->
                    phase' = "SCOUT" /\ UNCHANGED <<cycle, history, ending>>
               [] OTHER -> EndCycle
  /\ UNCHANGED <<best, archive, studyBest, seen, evaluated>>

\* _scout_phase: no source is exhausted.
SkipScout ==
  /\ phase = "SCOUT" /\ step = "submit" /\ ~ScoutDue
  /\ EndCycle
  /\ UNCHANGED <<source, counter, step, requests, results, pos, best, archive,
                 scouts, studyBest, seen, evaluated>>

Next == Evaluate \/ Stop \/ Raise \/ Record \/ Apply \/ SkipScout

Spec == Init /\ [][Next]_vars
-----------------------------------------------------------------------------
(* Properties.                                                             *)

\* _best is the best of every candidate evaluated so far, also of those that
\* a scout has since replaced in the colony.
BestIsNeverLost ==
  \A o \in Outcomes : seen[o] > 0 => Score(o) <= Score(best)

\* _archive holds exactly the non-dominated finite candidates evaluated so
\* far, as often as they were evaluated.
ArchiveIsFront ==
  \A o \in Finite :
    archive[o] = IF \E p \in Finite : seen[p] > 0 /\ Dominates(p, o) THEN 0
                 ELSE seen[o]

\* In the colony a source gets worse only when the scout phase abandons it,
\* and that is a source with the largest counter, above the limit. In
\* particular the onlookers of one source never undo each other's improvement
\* although all of them moved from the same snapshot.
WorseOnlyByScout ==
  [][\A i \in Sources :
       Score(source'[i]) < Score(source[i]) =>
         /\ phase = "SCOUT" /\ counter[i] > Limit
         /\ \A j \in Sources : counter[j] <= counter[i]]_vars

\* The history has one entry for every cycle begun (none if the initialisation
\* was stopped), never falls, and ends with the best score that the study
\* reports, also after a stop. A complete search has evaluated as many
\* candidates as _total_trials of the study page announces.
HistoryIsConvergence ==
  /\ \A k \in 2..Len(history) : history[k - 1] <= history[k]
  /\ ending \in {"complete", "stopped"} /\ evaluated > 0 =>
       /\ Len(history) = cycle + 1
       /\ history[Len(history)] = Score(best)
  /\ ending = "complete" => evaluated = SN * (1 + 2 * MaxIter) + scouts

\* What run() returns and the study page shows of the candidates that were
\* evaluated: the best one, the front and the history, whatever ends the search.
SearchIsRecorded ==
  TypeOK /\ BestIsNeverLost /\ ArchiveIsFront /\ HistoryIsConvergence

\* Between batches the study's best candidate is the colony's best candidate:
\* the two are kept by different code, one per batch and one per candidate,
\* and must break ties between candidates of equal score alike.
StudyAgreesWithColony == step = "submit" => studyBest = best
=============================================================================
