------------------------------ MODULE StudyPage ------------------------------
(***************************************************************************)
(* What the pages of a study show while it runs (views_hpo.py).  The page  *)
(* reads the study row and then, in a second statement, all trial rows;    *)
(* everything else it recomputes from those.  Nothing of the search itself *)
(* is stored until the study ends, so two pieces of code have to agree on  *)
(* who is the best: _StudyEvaluator, batch by batch, and the page, which   *)
(* has to find out from the rows which trials were one candidate.          *)
(*                                                                         *)
(* Here the search is any sequence of batches that AbcColony may submit:   *)
(* several candidates may have the same parameters, since several points   *)
(* of the cube are decoded to the same ones.  PENDING and RUNNING trials   *)
(* are "open".                                                             *)
(***************************************************************************)
EXTENDS Integers, Sequences, FiniteSets, FiniteSetsExt, SequencesExt

CONSTANTS
    SN, MaxIter,          \* colony_size, max_iter
    SearchSeeds, EvaluationSeeds,   \* sequences of seeds
    Params,               \* what a point of the cube may be decoded to
    Decoded,              \* by phase: what the candidates of a batch may be
    Results,              \* by trial parameters and seed: objectives, or Failed
    Failed, NoBatch, NoBest, NoPage

Seeds == Range(SearchSeeds) \cup Range(EvaluationSeeds)

ASSUME StudyPageAssumption ==
    /\ SN \in Nat \ {0} /\ MaxIter \in Nat \ {0}
    /\ SearchSeeds # <<>> /\ EvaluationSeeds # <<>>
    /\ Range(SearchSeeds) \cap Range(EvaluationSeeds) = {}
    /\ \A phase \in {"INIT", "EMPLOYED", "ONLOOKER"} : Decoded[phase] \subseteq [1 .. SN -> Params]
    /\ Decoded["SCOUT"] \subseteq [1 .. 1 -> Params]
    /\ \A f \in Results : \A p \in Params : \A s \in Seeds :
          f[p][s] # Failed => f[p][s] \in Nat \X Nat

VARIABLES
    evaluated,  \* what an evaluation gives: the same for the same input
    rows,       \* HPOTrial rows in id order
    batch,      \* the batch being evaluated: candidates, seeds, first row
    place,      \* the next phase: cycle and phase
    best,       \* _StudyEvaluator: score and parameters of the best candidate
    status,     \* HPOStudy.status
    pc,         \* the runner: search, cancel (its trials are marked) or end
    read,       \* the status a page has read while it has not read the rows
    last        \* what the page shows after its last poll

vars == <<evaluated, rows, batch, place, best, status, pc, read, last>>

-----------------------------------------------------------------------------
(* The study.                                                              *)

Init ==
    /\ evaluated \in Results
    /\ rows = <<>> /\ batch = NoBatch /\ place = [cycle |-> 0, phase |-> "INIT"]
    /\ best = NoBest /\ status = "RUNNING" /\ pc = "search"
    /\ read = "none" /\ last = NoPage

OfPage == <<read, last>>

Sources(phase) ==
    CASE phase \in {"INIT", "EMPLOYED"} -> {[k \in 1 .. SN |-> k]}
      [] phase = "ONLOOKER"             -> [1 .. SN -> 1 .. SN]
      [] phase = "SCOUT"                -> [1 .. 1 -> 1 .. SN]

Submit(sources, params, seeds) ==
    batch' = [sources |-> sources, params |-> params, seeds |-> seeds, first |-> Len(rows)]

BeginBatch ==
    /\ pc = "search" /\ batch = NoBatch
    /\ place.phase # "FINAL_EVAL"
    /\ \E sources \in Sources(place.phase) :
          \E params \in Decoded[place.phase] : Submit(sources, params, SearchSeeds)
    /\ UNCHANGED <<evaluated, rows, place, best, status, pc, OfPage>>

BeginFinal ==
    /\ pc = "search" /\ batch = NoBatch
    /\ place.phase = "FINAL_EVAL" /\ best # NoBest
    /\ Submit(<<1>>, <<best.params>>, EvaluationSeeds)
    /\ UNCHANGED <<evaluated, rows, place, best, status, pc, OfPage>>

(* No source is exhausted: the cycle ends without a scout.                 *)
Following ==
    CASE place.phase = "EMPLOYED" -> [place EXCEPT !.phase = "ONLOOKER"]
      [] place.phase = "ONLOOKER" -> [place EXCEPT !.phase = "SCOUT"]
      [] place.phase \in {"INIT", "SCOUT"} ->
            IF place.cycle = MaxIter THEN [place EXCEPT !.phase = "FINAL_EVAL"]
            ELSE [cycle |-> place.cycle + 1, phase |-> "EMPLOYED"]
      [] place.phase = "FINAL_EVAL" -> place

SkipScout ==
    /\ pc = "search" /\ batch = NoBatch /\ place.phase = "SCOUT"
    /\ place' = Following
    /\ UNCHANGED <<evaluated, rows, batch, best, status, pc, OfPage>>

(* run_candidates: one INSERT after another, all before any evaluation.    *)
Created == IF batch = NoBatch THEN 0 ELSE Len(rows) - batch.first
Planned == IF batch = NoBatch THEN 0 ELSE Len(batch.sources) * Len(batch.seeds)

CreateTrial ==
    /\ pc = "search" /\ Created < Planned
    /\ LET k == Created \div Len(batch.seeds) + 1
           s == batch.seeds[(Created % Len(batch.seeds)) + 1]
       IN rows' = Append(rows, [iteration |-> place.cycle, phase |-> place.phase,
                                source |-> batch.sources[k], params |-> batch.params[k],
                                seed |-> s, status |-> "open", score |-> Failed])
    /\ UNCHANGED <<evaluated, batch, place, best, status, pc, OfPage>>

Open == {i \in DOMAIN rows : rows[i].status = "open"}

EvaluateTrial(i) ==
    /\ pc = "search" /\ batch # NoBatch /\ Created = Planned /\ i \in Open
    /\ LET o == evaluated[rows[i].params][rows[i].seed] IN
       rows' = [rows EXCEPT ![i].status = IF o = Failed THEN "FAILED" ELSE "FINISHED",
                            ![i].score = o]
    /\ UNCHANGED <<evaluated, batch, place, best, status, pc, OfPage>>

Points(o) == o[1] + o[2]              \* weighted_score, with equal weights

(* The score of candidate k of the batch, times its seeds; {} if it failed. *)
CandidateScore(k) ==
    LET n  == Len(batch.seeds)
        of == {batch.first + (k - 1) * n + j : j \in 1 .. n}
    IN  IF \E i \in of : rows[i].status # "FINISHED" THEN {}
        ELSE {MapThenSumSet(LAMBDA i : Points(rows[i].score), of)}

(* __call__ takes a candidate if it beats the best so far.                 *)
BestAfter ==
    LET Take(b, k) ==
            IF \E x \in CandidateScore(k) : b = NoBest \/ x > b.score
            THEN [score |-> CHOOSE x \in CandidateScore(k) : TRUE, params |-> batch.params[k]]
            ELSE b
    IN  FoldLeft(Take, best, [k \in DOMAIN batch.sources |-> k])

Collect ==
    /\ pc = "search" /\ batch # NoBatch /\ Created = Planned /\ Open = {}
    /\ LET ok == /\ \E i \in batch.first + 1 .. Len(rows) : rows[i].status = "FINISHED"
                 /\ place.phase = "FINAL_EVAL" => CandidateScore(1) # {}
       IN  /\ pc' = IF ok /\ place.phase # "FINAL_EVAL" THEN "search" ELSE "end"
           /\ status' = IF ~ ok THEN "FAILED"
                        ELSE IF place.phase = "FINAL_EVAL" THEN "FINISHED" ELSE status
           /\ best' = IF place.phase = "FINAL_EVAL" THEN best ELSE BestAfter
    /\ batch' = NoBatch
    /\ place' = Following
    /\ UNCHANGED <<evaluated, rows, OfPage>>

(* An exception, or a search without a best candidate: the rows stay.      *)
Fail ==
    /\ pc = "search"
    /\ status' = "FAILED" /\ pc' = "end"
    /\ UNCHANGED <<evaluated, rows, batch, place, best, OfPage>>

(* The cancel request is looked at between batches and while one is        *)
(* evaluated.  Open trials are marked before the study is.                 *)
CancelMark ==
    /\ pc = "search"
    /\ batch # NoBatch => Created = Planned /\ Open # {}
    /\ rows' = [i \in DOMAIN rows |->
                  IF i \in Open THEN [rows[i] EXCEPT !.status = "FAILED"] ELSE rows[i]]
    /\ pc' = "cancel"
    /\ UNCHANGED <<evaluated, batch, place, best, status, OfPage>>

CancelFinish ==
    /\ pc = "cancel"
    /\ status' = "CANCELED" /\ pc' = "end"
    /\ UNCHANGED <<evaluated, rows, batch, place, best, OfPage>>

-----------------------------------------------------------------------------
(* The page.                                                               *)

Where(rs, P(_)) == {i \in DOMAIN rs : P(rs[i])}
Search(rs) == Where(rs, LAMBDA r : r.phase # "FINAL_EVAL")
Ended(rs) == Where(rs, LAMBDA r : r.status \in {"FINISHED", "FAILED"})

(* Mutant of candidate_key: what the trials of one source share in a phase.*)
candidate_key_source(r) == <<r.iteration, r.phase, r.source>>

candidate_key(r) == <<r.iteration, r.phase, r.source, r.params>>

(* The trials of each trial's candidate, which is named by its first one.  *)
SameCandidate(rs) ==
    LET key == [i \in Search(rs) |-> candidate_key(rs[i])] IN
    [i \in DOMAIN key |-> {j \in DOMAIN key : key[j] = key[i]}]
Firsts(of) == {i \in DOMAIN of : \A j \in of[i] : i <= j}

(* Mutant of Scored: a trial that is still open does not count against it. *)
ScoredSoFar(rs, trials) ==
    /\ \E i \in trials : rs[i].status = "FINISHED"
    /\ \A i \in trials : rs[i].status # "FAILED"

Scored(rs, trials) ==
    /\ Cardinality(trials) >= Len(SearchSeeds)
    /\ \A i \in trials : rs[i].status = "FINISHED"

(* The mean, times the search seeds; a candidate that was submitted twice  *)
(* has twice the trials.                                                   *)
MeanScore(rs, trials) ==
    LET done == {i \in trials : rs[i].status = "FINISHED"} IN
    (MapThenSumSet(LAMBDA i : Points(rs[i].score), done) * Len(SearchSeeds))
        \div Cardinality(done)

SearchScores(rs) ==
    LET of == SameCandidate(rs) IN
    [i \in {c \in Firsts(of) : Scored(rs, of[c])} |-> MeanScore(rs, of[i])]

(* search_best: of the candidates with the highest score the first.        *)
SearchBest(rs, scores) ==
    LET top == {i \in DOMAIN scores : \A j \in DOMAIN scores : scores[j] <= scores[i]}
        first == Min(top)
    IN  IF top = {} THEN NoBest ELSE [score |-> scores[first], params |-> rs[first].params]

(* The best score up to each cycle that has one.                           *)
History(rs, scores) ==
    [t \in {rs[i].iteration : i \in DOMAIN scores} |->
        Max({scores[i] : i \in {c \in DOMAIN scores : rs[c].iteration <= t}})]

Dominates(a, b) == a[1] >= b[1] /\ a[2] >= b[2] /\ a # b

(* The trials on the Pareto front of the scatter plot.                     *)
ParetoFront(rs) ==
    LET scored == {i \in Search(rs) : rs[i].status = "FINISHED"} IN
    {i \in scored : \A j \in scored : ~ Dominates(rs[j].score, rs[i].score)}

total_trials(scouts) ==
    (SN * (1 + 2 * MaxIter) + scouts) * Len(SearchSeeds) + Len(EvaluationSeeds)

Total(rs) ==
    Max({total_trials(Cardinality({i \in Firsts(SameCandidate(rs)) : rs[i].phase = "SCOUT"})),
         Cardinality(Ended(rs))})

(* The list of studies counts the trials of scouts instead.                *)
ListTotal(rs) ==
    LET trials == Cardinality(Where(rs, LAMBDA r : r.phase = "SCOUT"))
        n      == Len(SearchSeeds)
    IN  Max({total_trials((trials + n - 1) \div n), Len(rs)})

(* The trials of the newest cycle; the final evaluation is its own.        *)
round_progress(rs) ==
    LET newest == Last(rs)
        final  == newest.phase = "FINAL_EVAL"
        of     == IF final THEN DOMAIN rs \ Search(rs)
                  ELSE {i \in Search(rs) : rs[i].iteration = newest.iteration}
    IN  IF rs = <<>> THEN [name |-> <<0, FALSE>>, done |-> 0, total |-> 0]
        ELSE [name |-> <<newest.iteration, final>>,
              done |-> Cardinality(of \cap Ended(rs)), total |-> Cardinality(of)]

status_payload(rs) ==
    LET scores == SearchScores(rs) IN
    [done |-> Cardinality(Ended(rs)), total |-> Total(rs), round |-> round_progress(rs),
     searchBest |-> SearchBest(rs, scores), history |-> History(rs, scores),
     front |-> ParetoFront(rs), trials |-> rs]

(* study_status reads the study ...                                        *)
PollStudy ==
    /\ read = "none" /\ last = NoPage
    /\ status # "RUNNING"
    /\ read' = status
    /\ UNCHANGED <<evaluated, rows, batch, place, best, status, pc, last>>

(* ... then its trials.  A page that has read RUNNING polls again, so that *)
(* only its last poll is kept.                                             *)
PollTrials ==
    /\ read # "none"
    /\ last' = [status |-> read, payload |-> status_payload(rows)]
    /\ read' = "none"
    /\ UNCHANGED <<evaluated, rows, batch, place, best, status, pc>>

-----------------------------------------------------------------------------
Next ==
    \/ BeginBatch \/ BeginFinal \/ SkipScout \/ CreateTrial
    \/ \E i \in DOMAIN rows : EvaluateTrial(i)
    \/ Collect \/ Fail \/ CancelMark \/ CancelFinish
    \/ PollStudy \/ PollTrials

Spec == Init /\ [][Next]_vars

-----------------------------------------------------------------------------
\* The page that has polled for the last time shows the study as it stays: all
\* its trials as they are, and for a FINISHED study every announced trial done,
\* on the page and in the list, and as the best of the search the parameters the
\* service has stored. Between two batches the page and _StudyEvaluator agree on
\* the best candidate and its score, ties and candidates that were submitted
\* twice included (_status_payload, study_list against _StudyEvaluator.__call__).
PageShowsTheResult ==
    LET page == status_payload(rows) IN
    /\ last # NoPage => last = [status |-> status, payload |-> page]
    /\ batch = NoBatch /\ pc = "search" =>
          page.searchBest = best /\ page.round.done = page.round.total
    /\ status = "FINISHED" =>
          /\ page.done = Len(rows) /\ page.total = Len(rows) /\ ListTotal(rows) = Len(rows)
          /\ page.searchBest = best
          /\ page.history[Max(DOMAIN page.history)] = best.score

\* From one poll to the next the page only moves forward: trials done and
\* announced, the round while it is the same, the best score and every point of
\* the convergence curve never fall, no point of the curve disappears, and no
\* trial that was dominated comes back to the front.
PageOnlyMovesForward ==
    [][ LET old == status_payload(rows)
            new == status_payload(rows')
        IN  /\ new.done >= old.done /\ new.total >= old.total
            /\ new.round.name = old.round.name =>
                 new.round.done >= old.round.done /\ new.round.total >= old.round.total
            /\ old.searchBest # NoBest =>
                 new.searchBest # NoBest /\ new.searchBest.score >= old.searchBest.score
            /\ \A t \in DOMAIN old.history :
                 t \in DOMAIN new.history /\ new.history[t] >= old.history[t]
            /\ \A i \in Search(rows) \ old.front :
                 rows[i].status = "FINISHED" => i \notin new.front ]_rows
=============================================================================
