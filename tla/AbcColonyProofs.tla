--------------------------- MODULE AbcColonyProofs ---------------------------
(***************************************************************************)
(* Theorems about AbcColony, for any colony size, number of cycles, limit, *)
(* objectives and weights.                                                 *)
(***************************************************************************)
EXTENDS AbcColony, WellFoundedInduction, TLAPS

Running == {"EMPLOYED", "ONLOOKER", "SCOUT"}

(***************************************************************************)
(* The inductive invariant.                                                *)
(***************************************************************************)

\* Where the search is: cycles are numbered from 1, each ends with at most one
\* scout.
Place ==
  /\ phase = "INIT" => cycle = 0 /\ scouts = 0
  /\ phase \in Running => cycle >= 1 /\ scouts < cycle
  /\ scouts <= cycle
  /\ phase = "done" => step = "submit" /\ ending # "none"
  /\ phase # "done" => ending = "none"
  /\ ending = "complete" => cycle = MaxIter

\* The batch in hand: for every source in order, SN draws, or the source with
\* the largest counter.
Batch ==
  step # "submit" =>
    /\ pos < Len(results)
    /\ Len(results) = IF phase = "SCOUT" THEN 1 ELSE SN
    /\ phase \in {"INIT", "EMPLOYED"} => \A k \in Sources : requests[k] = k
    /\ phase = "SCOUT" =>
         /\ counter[requests[1]] > Limit
         /\ \A j \in Sources : counter[j] <= counter[requests[1]]

\* The initialisation sets every source once.
Fresh ==
  phase = "INIT" =>
    \A i \in Sources : (step = "apply" => i > pos) => source[i] = Failed

\* The candidates of the batches before the present phase, scouts not counted.
Begun ==
  CASE phase = "INIT"     -> 0
    [] phase = "EMPLOYED" -> SN * (2 * cycle - 1)
    [] phase = "ONLOOKER" -> SN * (2 * cycle)
    [] OTHER              -> SN * (2 * cycle + 1)

Counted ==
  phase # "done" =>
    evaluated = Begun + scouts + CASE step = "submit" -> 0
                                   [] step = "record" -> pos
                                   [] OTHER           -> Len(results)

\* Whatever was evaluated is in the archive, or something that dominates it.
Covered ==
  \A o \in Finite : seen[o] > 0 =>
    archive[o] > 0 \/ \E a \in Finite : archive[a] > 0 /\ Dominates(a, o)

\* The history lags behind the best candidate.
Curve ==
  /\ phase # "done" => Len(history) = cycle
  /\ \A k \in 1..Len(history) : history[k] <= Score(best)

\* k is the first best candidate of the batch.
FirstBest(k) ==
  \A j \in 1..Len(results) :
    \/ Score(results[j]) < Score(results[k])
    \/ Score(results[j]) = Score(results[k]) /\ k <= j

\* While a batch is recorded the study is ahead of the colony: its best
\* candidate is the one that the colony will have when it comes to it.
Agreed ==
  IF step # "record" THEN studyBest = best
  ELSE \E k \in 1..Len(results) :
         /\ FirstBest(k)
         /\ \/ studyBest = best /\ Score(results[k]) <= Score(best)
            \/ /\ studyBest = results[k]
               /\ pos < k => Score(best) < Score(results[k])
               /\ pos >= k => best = studyBest

IInv ==
  /\ SearchIsRecorded
  /\ Place /\ Batch /\ Fresh /\ Counted /\ Covered /\ Curve
  /\ Agreed

-----------------------------------------------------------------------------
(* Facts about the operators of the model.                                 *)

\* The assumptions on the constants, in the form the proofs use.
LEMMA Constants ==
  /\ SN \in Nat /\ SN >= 2 /\ MaxIter \in Nat /\ MaxIter >= 1
  /\ Limit \in Nat
  /\ Sources = 1..SN /\ NoScore = -1
BY AbcAssumption DEF Sources, NoScore

\* A product of natural numbers is one.
LEMMA ScoreType ==
  ASSUME NEW o \in Outcomes
  PROVE  /\ Score(o) \in Nat \cup {NoScore}
         /\ Score(o) \in Int /\ Score(o) >= NoScore
         /\ Score(Failed) = NoScore
<1>1. CASE o = Failed
  BY <1>1 DEF Score, NoScore
<1>2. CASE o # Failed
  <2>1. o[1] \in Nat /\ o[2] \in Nat
    BY <1>2, AbcAssumption DEF Outcomes
  <2>2. W1 * o[1] \in Nat /\ W2 * o[2] \in Nat
    BY <2>1, AbcAssumption
  <2>. QED
    BY <1>2, <2>2 DEF Score, NoScore
<1>. QED
  BY <1>1, <1>2

\* Dominance is transitive: the archive may forget what it dominates.
LEMMA DominatesTransitive ==
  ASSUME NEW a \in Finite, NEW b \in Finite, NEW c \in Finite,
         Dominates(a, b), Dominates(b, c)
  PROVE  Dominates(a, c)
<1>1. /\ a[1] \in Nat /\ a[2] \in Nat /\ b[1] \in Nat /\ b[2] \in Nat
      /\ c[1] \in Nat /\ c[2] \in Nat
      /\ a = <<a[1], a[2]>> /\ b = <<b[1], b[2]>> /\ c = <<c[1], c[2]>>
  BY AbcAssumption
<1>. QED
  BY <1>1 DEF Dominates

\* Some numbers have a least one.
LEMMA LeastOf ==
  ASSUME NEW S, S \subseteq Nat, S # {}
  PROVE  \E x \in S : \A y \in S : x <= y
<1>1. PICK x \in S : \A y \in S : ~ (<<y, x>> \in OpToRel(<, Nat))
  BY NatLessThanWellFounded, WFMin, Zenon
<1>2. ASSUME NEW y \in S PROVE x <= y
  <2>1. x \in Nat /\ y \in Nat
    OBVIOUS
  <2>2. y < x => <<y, x>> \in OpToRel(<, Nat)
    BY <2>1 DEF OpToRel
  <2>3. ~ (y < x)
    BY <2>2, <1>1, Zenon
  <2> QED
    BY <2>1, <2>3
<1> QED
  BY <1>2

\* One of the sources 1 .. n has the largest counter of them.
LEMMA LargestOf ==
  ASSUME NEW f \in [Sources -> Nat], NEW n \in Sources
  PROVE  \E i \in 1..n : \A j \in 1..n : f[j] <= f[i]
<1> DEFINE L(k) == \E i \in 1..k : \A j \in 1..k : f[j] <= f[i]
           Bad == {k \in Sources : ~L(k)}
<1>1. ASSUME Bad # {} PROVE FALSE
  <2>1. Bad \subseteq Nat
    BY Constants
  <2>2. PICK k \in Bad : \A j \in Bad : k <= j
    <3> HIDE DEF Bad
    <3> QED
      BY <1>1, <2>1, LeastOf
  <2>3. k \in Sources /\ ~L(k)
    OBVIOUS
  <2>4. CASE k = 1
    <3>1. 1 \in 1..k /\ \A j \in 1..k : f[j] <= f[1]
      BY <2>3, <2>4, Constants
    <3>. QED
      BY <2>3, <3>1
  <2>5. CASE k # 1
    <3>1. k - 1 \in Sources /\ ~(k <= k - 1)
      BY <2>3, <2>5, Constants
    <3>2. L(k - 1)
      BY <2>2, <3>1
    <3>3. PICK i \in 1..k - 1 : \A j \in 1..k - 1 : f[j] <= f[i]
      BY <3>2
    <3>4. /\ i \in 1..k /\ k \in 1..k
          /\ \A j \in 1..k : j = k \/ j \in 1..k - 1
          /\ f[i] \in Nat /\ f[k] \in Nat /\ \A j \in 1..k : f[j] \in Nat
      BY <2>3, <3>1, Constants
    <3>5. CASE f[k] <= f[i]
      BY <2>3, <3>3, <3>4, <3>5
    <3>6. CASE f[i] <= f[k]
      <4>1. \A j \in 1..k : f[j] <= f[k]
        BY <3>3, <3>4, <3>6
      <4>. QED
        BY <2>3, <3>4, <4>1
    <3>. QED
      BY <3>4, <3>5, <3>6
  <2>. QED
    BY <2>4, <2>5
<1>2. n \notin Bad
  BY <1>1
<1>. QED
  BY <1>2

\* np.argmax finds a source, and none has a larger counter.
LEMMA ExhaustedIs ==
  ASSUME TypeOK
  PROVE  /\ Exhausted \in Sources
         /\ \A j \in Sources : counter[j] <= counter[Exhausted]
<1> DEFINE S == {i \in Sources : \A j \in Sources : counter[i] >= counter[j]}
<1>1. counter \in [Sources -> Nat] /\ SN \in Sources
  BY Constants DEF TypeOK
<1>2. \E i \in Sources : \A j \in Sources : counter[j] <= counter[i]
  BY <1>1, LargestOf, Constants
<1>3. S # {}
  BY <1>1, <1>2
<1>4. S \subseteq Nat
  BY Constants
<1>5. \E x \in S : \A y \in S : x <= y
  <2> HIDE DEF S
  <2> QED
    BY <1>3, <1>4, LeastOf
<1>6. Exhausted \in S
  BY <1>5 DEF Exhausted, Min
<1>. QED
  BY <1>1, <1>6

\* A function on 1..n is a sequence, and a sequence one on its indices.
LEMMA SeqOf ==
  ASSUME NEW S, NEW n \in Nat, NEW s \in [1..n -> S]
  PROVE  s \in Seq(S) /\ Len(s) = n
OBVIOUS

LEMMA DomainOf ==
  ASSUME NEW S, NEW s \in Seq(S)
  PROVE  DOMAIN s = 1..Len(s)
OBVIOUS

-----------------------------------------------------------------------------
(* The invariant is inductive: one lemma per action.                        *)

\* The invariant holds before the search.
LEMMA InitInv == Init => IInv
<1>. SUFFICES ASSUME Init PROVE IInv
  OBVIOUS
<1>1. TypeOK
  BY Constants DEF Init, TypeOK, Outcomes
<1>2. BestIsNeverLost /\ ArchiveIsFront /\ HistoryIsConvergence
  BY DEF Init, BestIsNeverLost, ArchiveIsFront, HistoryIsConvergence, Outcomes
<1>3. Place /\ Batch /\ Fresh /\ Counted
  BY Constants DEF Init, Place, Running, Batch, Fresh, Counted, Begun
<1>4. Covered /\ Curve /\ Agreed
  BY DEF Init, Covered, Curve, Agreed, Outcomes
<1>. QED
  BY <1>1, <1>2, <1>3, <1>4 DEF IInv, SearchIsRecorded

\* The batch that a phase submits.
LEMMA EvaluateFacts ==
  ASSUME IInv, Evaluate
  PROVE  /\ requests' \in Seq(Sources) /\ results' \in Seq(Outcomes)
         /\ Len(requests') = Len(results')
         /\ Len(results') = IF phase = "SCOUT" THEN 1 ELSE SN
         /\ phase \in {"INIT", "EMPLOYED"} => \A k \in Sources : requests'[k] = k
         /\ phase = "SCOUT" => requests'[1] = Exhausted /\ ScoutDue
<1>. TypeOK
  BY DEF IInv, SearchIsRecorded
<1>1. PICK b \in Batches : requests' = b /\ results' \in [DOMAIN b -> Outcomes]
  BY DEF Evaluate
<1>2. CASE phase = "SCOUT"
  <2>1. b = <<Exhausted>> /\ ScoutDue
    BY <1>1, <1>2 DEF Batches, Evaluate, Submitting
  <2>2. DOMAIN b = 1..1 /\ b \in Seq(Sources) /\ Len(b) = 1 /\ b[1] = Exhausted
    BY <2>1, ExhaustedIs
  <2>3. results' \in [1..1 -> Outcomes]
    BY <1>1, <2>2
  <2>4. results' \in Seq(Outcomes) /\ Len(results') = 1
    BY <2>3, SeqOf
  <2>. QED
    BY <1>1, <1>2, <2>1, <2>2, <2>4
<1>3. CASE phase # "SCOUT"
  <2>1. /\ b \in [Sources -> Sources]
        /\ phase \in {"INIT", "EMPLOYED"} => \A k \in Sources : b[k] = k
    BY <1>1, <1>3 DEF Batches, Evaluate, Submitting, Choosable, TypeOK
  <2>2. /\ b \in Seq(Sources) /\ Len(b) = SN
        /\ results' \in Seq(Outcomes) /\ Len(results') = SN
    BY <1>1, <2>1, Constants
  <2>. QED
    BY <1>1, <1>3, <2>1, <2>2
<1>. QED
  BY <1>2, <1>3

\* A batch has been submitted and scored.
LEMMA EvaluateInv ==
  ASSUME IInv, Evaluate
  PROVE  IInv'
<1>1. /\ TypeOK /\ BestIsNeverLost /\ ArchiveIsFront /\ HistoryIsConvergence
      /\ Place /\ Batch /\ Fresh /\ Counted /\ Covered /\ Curve /\ Agreed
  BY DEF IInv, SearchIsRecorded
<1>2. /\ UNCHANGED <<source, counter, phase, cycle, best, archive, history, scouts,
                     ending, seen, evaluated>>
      /\ step = "submit" /\ step' = "record" /\ pos' = 0 /\ phase # "done"
      /\ studyBest = best
      /\ StudyUpdate(results')
  BY <1>1 DEF Evaluate, Submitting, Agreed
<1>3. /\ requests' \in Seq(Sources) /\ results' \in Seq(Outcomes)
      /\ Len(requests') = Len(results')
      /\ Len(results') = IF phase = "SCOUT" THEN 1 ELSE SN
      /\ phase \in {"INIT", "EMPLOYED"} => \A k \in Sources : requests'[k] = k
      /\ phase = "SCOUT" => requests'[1] = Exhausted /\ ScoutDue
  BY EvaluateFacts
<1>4. Len(results') \in Nat /\ Len(results') >= 1
  BY <1>3, Constants
<1>5. PICK k \in 1..Len(results') :
        /\ \A j \in 1..Len(results') :
             \/ Score(results'[j]) < Score(results'[k])
             \/ Score(results'[j]) = Score(results'[k]) /\ k <= j
        /\ studyBest' = IF Score(results'[k]) > Score(studyBest)
                        THEN results'[k] ELSE studyBest
  <2>1. DOMAIN results' = 1..Len(results')
    BY <1>3, DomainOf
  <2>. QED
    BY <1>2, <2>1 DEF StudyUpdate
<1>6. results'[k] \in Outcomes /\ studyBest \in Outcomes
  BY <1>1, <1>3, <1>5 DEF TypeOK
<1>7. Score(results'[k]) \in Int /\ Score(best) \in Int
  BY <1>2, <1>6, ScoreType
<1>8. TypeOK'
  <2>1. studyBest' \in Outcomes /\ pos' \in 0..Len(results')
    BY <1>2, <1>4, <1>5, <1>6
  <2>. QED
    BY <1>1, <1>2, <1>3, <2>1 DEF TypeOK
<1>9. BestIsNeverLost' /\ ArchiveIsFront' /\ HistoryIsConvergence'
  BY <1>1, <1>2 DEF BestIsNeverLost, ArchiveIsFront, HistoryIsConvergence
<1>10. Place' /\ Fresh'
  BY <1>1, <1>2 DEF Place, Running, Fresh
<1>11. Batch'
  BY <1>1, <1>2, <1>3, <1>4, ExhaustedIs DEF Batch, ScoutDue
<1>12. Counted' /\ Covered' /\ Curve'
  BY <1>1, <1>2 DEF Counted, Begun, Covered, Curve
<1>13. Agreed'
  BY <1>2, <1>4, <1>5, <1>7 DEF Agreed, FirstBest
<1>. QED
  BY <1>8, <1>9, <1>10, <1>11, <1>12, <1>13 DEF IInv, SearchIsRecorded

\* The convergence history is extended by the score of the best candidate.
LEMMA Appended ==
  ASSUME TypeOK, HistoryIsConvergence, Curve, best' = best,
         history' = Append(history, Score(best))
  PROVE  /\ history' \in Seq(Nat \cup {NoScore})
         /\ Len(history') = Len(history) + 1
         /\ history'[Len(history')] = Score(best)
         /\ \A k \in 1..Len(history') : history'[k] <= Score(best)
         /\ \A k \in 2..Len(history') : history'[k - 1] <= history'[k]
<1>1. /\ Score(best) \in Nat \cup {NoScore} /\ Score(best) \in Int
      /\ history \in Seq(Nat \cup {NoScore})
  BY ScoreType DEF TypeOK
<1>2. /\ history' \in Seq(Nat \cup {NoScore})
      /\ Len(history') = Len(history) + 1 /\ Len(history) \in Nat
      /\ history'[Len(history) + 1] = Score(best)
      /\ \A k \in 1..Len(history) : history'[k] = history[k]
  BY <1>1
<1>3. \A k \in 1..Len(history') : history'[k] <= Score(best)
  BY <1>1, <1>2 DEF Curve
<1>4. ASSUME NEW k \in 2..Len(history') PROVE history'[k - 1] <= history'[k]
  <2>1. CASE k = Len(history) + 1
    BY <1>2, <1>3, <2>1
  <2>2. CASE k # Len(history) + 1
    <3>1. k \in 2..Len(history) /\ k - 1 \in 1..Len(history) /\ k \in 1..Len(history)
      BY <1>2, <2>2
    <3>. QED
      BY <1>2, <3>1 DEF HistoryIsConvergence
  <2>. QED
    BY <2>1, <2>2
<1>. QED
  BY <1>2, <1>3, <1>4

\* The search is stopped, or the evaluation raised.
LEMMA StopInv ==
  ASSUME IInv, Stop \/ Raise
  PROVE  IInv'
<1>1. /\ TypeOK /\ BestIsNeverLost /\ ArchiveIsFront /\ HistoryIsConvergence
      /\ Place /\ Batch /\ Fresh /\ Counted /\ Covered /\ Curve /\ Agreed
  BY DEF IInv, SearchIsRecorded
<1>2. /\ UNCHANGED <<source, counter, step, cycle, requests, results, pos, best,
                     archive, scouts, studyBest, seen, evaluated>>
      /\ step = "submit" /\ phase # "done" /\ phase' = "done"
      /\ \/ ending' = "raised" /\ history' = history
         \/ ending' = "stopped" /\ phase = "INIT" /\ history' = history
         \/ /\ ending' = "stopped" /\ phase # "INIT"
            /\ history' = Append(history, Score(best))
  BY DEF Stop, Raise, Submitting
<1>3. /\ history' \in Seq(Nat \cup {NoScore})
      /\ \A k \in 1..Len(history') : history'[k] <= Score(best)
      /\ \A k \in 2..Len(history') : history'[k - 1] <= history'[k]
  BY <1>1, <1>2, Appended DEF TypeOK, Curve, HistoryIsConvergence
<1>4. phase = "INIT" => evaluated = 0
  BY <1>1, <1>2 DEF Counted, Begun, Place
<1>5. TypeOK'
  BY <1>1, <1>2, <1>3 DEF TypeOK
<1>6. BestIsNeverLost' /\ ArchiveIsFront' /\ Covered'
  BY <1>1, <1>2 DEF BestIsNeverLost, ArchiveIsFront, Covered
<1>7. HistoryIsConvergence'
  BY <1>1, <1>2, <1>3, <1>4, Appended DEF HistoryIsConvergence, Curve
<1>8. Place' /\ Batch' /\ Fresh' /\ Counted' /\ Agreed'
  BY <1>1, <1>2 DEF Place, Running, Batch, Fresh, Counted, Agreed
<1>9. Curve'
  BY <1>2, <1>3 DEF Curve
<1>. QED
  BY <1>5, <1>6, <1>7, <1>8, <1>9 DEF IInv, SearchIsRecorded

\* Batches are counted in numbers.
LEMMA BegunType ==
  ASSUME TypeOK, Place
  PROVE  Begun \in Nat
<1>1. cycle \in Nat /\ (phase \notin {"INIT", "done"} => cycle >= 1)
  BY Constants DEF TypeOK, Place, Running
<1>2. \A n \in Nat : SN * n \in Nat
  BY Constants
<1>3. CASE phase = "EMPLOYED"
  <2>1. 2 * cycle - 1 \in Nat
    BY <1>1, <1>3
  <2>. QED
    BY <1>2, <1>3, <2>1 DEF Begun
<1>4. CASE phase # "EMPLOYED"
  <2>1. 2 * cycle \in Nat /\ 2 * cycle + 1 \in Nat
    BY <1>1
  <2>. QED
    BY <1>2, <1>4, <2>1 DEF Begun
<1>. QED
  BY <1>3, <1>4

\* _record keeps the archive the front of what was evaluated: a dominated
\* candidate is dominated by something in the archive.
LEMMA ArchiveStep ==
  ASSUME TypeOK, ArchiveIsFront, Covered, NEW o \in Outcomes,
         RecordArchive(o), seen' = [seen EXCEPT ![o] = @ + 1]
  PROVE  archive' \in [Finite -> Nat] /\ ArchiveIsFront' /\ Covered'
<1>1. /\ archive \in [Finite -> Nat] /\ seen \in [Outcomes -> Nat]
      /\ Finite \subseteq Outcomes
      /\ seen'[o] = seen[o] + 1 /\ \A p \in Outcomes \ {o} : seen'[p] = seen[p]
      /\ seen' \in [Outcomes -> Nat]
  BY DEF TypeOK, Outcomes
<1>2. \A p \in Finite : archive[p] > 0 => seen[p] > 0
  BY <1>1 DEF ArchiveIsFront
<1>3. \A p \in Finite : ~Dominates(p, p)
  BY DEF Dominates
<1>4. CASE o = Failed
  <2>1. archive' = archive /\ \A p \in Finite : seen'[p] = seen[p]
    BY <1>1, <1>4, AbcAssumption DEF RecordArchive
  <2>. QED
    BY <1>1, <2>1 DEF ArchiveIsFront, Covered
<1>5. CASE o # Failed /\ \E a \in Finite : archive[a] > 0 /\ Dominates(a, o)
  <2>1. archive' = archive /\ o \in Finite
    BY <1>5 DEF RecordArchive, Outcomes
  <2>2. PICK a \in Finite : archive[a] > 0 /\ Dominates(a, o)
    BY <1>5
  <2>3. seen[a] > 0 /\ a # o
    BY <1>2, <1>3, <2>2
  <2>4. Covered'
    BY <1>1, <2>1, <2>2 DEF Covered
  <2>5. ASSUME NEW q \in Finite
        PROVE  (\E p \in Finite : seen'[p] > 0 /\ Dominates(p, q))
                 <=> \E p \in Finite : seen[p] > 0 /\ Dominates(p, q)
    <3>1. Dominates(o, q) => Dominates(a, q)
      BY <2>1, <2>2, DominatesTransitive
    <3>2. \A p \in Finite : p # o => seen'[p] = seen[p]
      BY <1>1
    <3>3. \A p \in Finite : seen[p] > 0 => seen'[p] > 0
      BY <1>1
    <3>. QED
      BY <2>3, <3>1, <3>2, <3>3
  <2>6. ASSUME NEW q \in Finite
        PROVE  archive[q] = IF \E p \in Finite : seen'[p] > 0 /\ Dominates(p, q) THEN 0
                            ELSE seen'[q]
    <3>1. archive[q] = IF \E p \in Finite : seen[p] > 0 /\ Dominates(p, q) THEN 0
                       ELSE seen[q]
      BY DEF ArchiveIsFront
    <3>2. CASE q = o
      BY <2>2, <2>3, <2>5, <3>1, <3>2
    <3>3. CASE q # o
      BY <1>1, <2>5, <3>1, <3>3
    <3>. QED
      BY <3>2, <3>3
  <2>. QED
    BY <1>1, <2>1, <2>4, <2>6 DEF ArchiveIsFront
<1>6. CASE o # Failed /\ ~\E a \in Finite : archive[a] > 0 /\ Dominates(a, o)
  <2>1. /\ o \in Finite
        /\ archive' = [a \in Finite |-> IF a = o THEN archive[a] + 1
                                        ELSE IF Dominates(o, a) THEN 0 ELSE archive[a]]
    BY <1>6 DEF RecordArchive, Outcomes
  <2>2. archive' \in [Finite -> Nat] /\ archive'[o] = archive[o] + 1 /\ archive'[o] > 0
    BY <1>1, <2>1
  <2>3. \A p \in Finite : seen[p] > 0 => ~Dominates(p, o)
    BY <1>6, <2>1, DominatesTransitive DEF Covered
  <2>4. ASSUME NEW q \in Finite, q # o, ~Dominates(o, q)
        PROVE  archive'[q] = archive[q] /\ seen'[q] = seen[q]
    BY <1>1, <2>1, <2>4
  <2>5. ASSUME NEW q \in Finite
        PROVE  archive'[q] = IF \E p \in Finite : seen'[p] > 0 /\ Dominates(p, q) THEN 0
                             ELSE seen'[q]
    <3>1. archive[q] = IF \E p \in Finite : seen[p] > 0 /\ Dominates(p, q) THEN 0
                       ELSE seen[q]
      BY DEF ArchiveIsFront
    <3>2. CASE q = o
      <4>1. \A p \in Finite : seen'[p] > 0 => ~Dominates(p, o)
        BY <1>1, <1>3, <2>3
      <4>2. archive[o] = seen[o]
        BY <2>3, <3>1, <3>2
      <4>. QED
        BY <1>1, <2>2, <3>2, <4>1, <4>2
    <3>3. CASE q # o /\ Dominates(o, q)
      BY <1>1, <2>1, <3>3
    <3>4. CASE q # o /\ ~Dominates(o, q)
      <4>1. \A p \in Finite : Dominates(p, q) => seen'[p] = seen[p]
        BY <1>1, <3>4
      <4>. QED
        BY <2>4, <3>1, <3>4, <4>1
    <3>. QED
      BY <3>2, <3>3, <3>4
  <2>6. ASSUME NEW q \in Finite, seen'[q] > 0
        PROVE  archive'[q] > 0 \/ \E a \in Finite : archive'[a] > 0 /\ Dominates(a, q)
    <3>1. CASE q = o \/ Dominates(o, q)
      BY <2>1, <2>2, <3>1
    <3>2. CASE q # o /\ ~Dominates(o, q)
      <4>1. seen[q] > 0 /\ archive'[q] = archive[q]
        BY <2>4, <2>6, <3>2
      <4>2. CASE \E a \in Finite : archive[a] > 0 /\ Dominates(a, q)
        <5>1. PICK a \in Finite : archive[a] > 0 /\ Dominates(a, q)
          BY <4>2
        <5>2. a # o /\ ~Dominates(o, a)
          BY <2>1, <3>2, <5>1, DominatesTransitive
        <5>. QED
          BY <2>4, <5>1, <5>2
      <4>. QED
        BY <4>1, <4>2 DEF Covered
    <3>. QED
      BY <3>1, <3>2
  <2>. QED
    BY <2>2, <2>5, <2>6 DEF ArchiveIsFront, Covered
<1>. QED
  BY <1>4, <1>5, <1>6

\* The colony comes to the candidate that the study has already chosen.
LEMMA AgreedStep ==
  ASSUME TypeOK, Agreed, step = "record", pos < Len(results),
         RecordBest(results[pos + 1]), UNCHANGED <<results, studyBest>>,
         \/ pos + 1 < Len(results) /\ step' = "record" /\ pos' = pos + 1
         \/ pos + 1 = Len(results) /\ step' = "apply"
  PROVE  Agreed'
<1>1. PICK p : p = pos + 1
  OBVIOUS
<1>2. /\ p \in 1..Len(results) /\ Len(results) \in Nat /\ pos \in Nat
      /\ \A j \in 1..Len(results) : results[j] \in Outcomes
  BY <1>1 DEF TypeOK
<1>3. /\ \A j \in 1..Len(results) : Score(results[j]) \in Int
      /\ Score(best) \in Int
      /\ best' = IF Score(results[p]) > Score(best) THEN results[p] ELSE best
  BY <1>1, <1>2, ScoreType DEF TypeOK, RecordBest
<1>4. PICK k \in 1..Len(results) :
        /\ FirstBest(k)
        /\ \/ studyBest = best /\ Score(results[k]) <= Score(best)
           \/ /\ studyBest = results[k]
              /\ pos < k => Score(best) < Score(results[k])
              /\ pos >= k => best = studyBest
  BY DEF Agreed
<1>5. /\ Score(results[p]) <= Score(results[k])
      /\ p < k => Score(results[p]) < Score(results[k])
  BY <1>2, <1>3, <1>4 DEF FirstBest
<1>6. \/ studyBest = best' /\ Score(results[k]) <= Score(best')
      \/ /\ studyBest = results[k]
         /\ p < k => Score(best') < Score(results[k])
         /\ p >= k => best' = studyBest
  <2>1. CASE studyBest = best /\ Score(results[k]) <= Score(best)
    <3>1. ~(Score(results[p]) > Score(best))
      BY <1>2, <1>3, <1>5, <2>1
    <3>. QED
      BY <1>3, <2>1, <3>1
  <2>2. CASE /\ studyBest = results[k]
             /\ pos < k => Score(best) < Score(results[k])
             /\ pos >= k => best = studyBest
    <3>1. CASE p < k
      BY <1>1, <1>2, <1>3, <1>4, <1>5, <2>2, <3>1
    <3>2. CASE p = k
      BY <1>1, <1>2, <1>3, <1>4, <1>5, <2>2, <3>2
    <3>3. CASE p > k
      BY <1>1, <1>2, <1>3, <1>4, <1>5, <2>2, <3>3
    <3>. QED
      BY <1>2, <1>4, <3>1, <3>2, <3>3
  <2>. QED
    BY <1>4, <2>1, <2>2
<1>7. FirstBest(k)'
  BY <1>4 DEF FirstBest
<1>8. CASE pos + 1 < Len(results) /\ step' = "record" /\ pos' = pos + 1
  BY <1>1, <1>4, <1>6, <1>7, <1>8 DEF Agreed
<1>9. CASE pos + 1 = Len(results) /\ step' = "apply"
  BY <1>1, <1>2, <1>4, <1>6, <1>9 DEF Agreed
<1>. QED
  BY <1>8, <1>9

\* One candidate of the batch is recorded.
LEMMA RecordInv ==
  ASSUME IInv, Record
  PROVE  IInv'
<1>1. /\ TypeOK /\ BestIsNeverLost /\ ArchiveIsFront /\ HistoryIsConvergence
      /\ Place /\ Batch /\ Fresh /\ Counted /\ Covered /\ Curve /\ Agreed
  BY DEF IInv, SearchIsRecorded
<1>2. PICK o : o = results[pos + 1]
  OBVIOUS
<1>3. /\ UNCHANGED <<source, counter, phase, cycle, requests, results, history,
                     scouts, ending, studyBest>>
      /\ step = "record" /\ phase # "done" /\ pos < Len(results)
      /\ RecordBest(o) /\ RecordArchive(o)
      /\ seen' = [seen EXCEPT ![o] = @ + 1] /\ evaluated' = evaluated + 1
      /\ \/ pos + 1 = Len(results) /\ pos' = 0 /\ step' = "apply"
         \/ pos + 1 < Len(results) /\ pos' = pos + 1 /\ step' = "record"
  BY <1>1, <1>2 DEF Record, Place, Batch, TypeOK
<1>4. o \in Outcomes /\ pos \in Nat /\ Len(results) \in Nat
  BY <1>1, <1>2, <1>3 DEF TypeOK
<1>5. /\ best' \in Outcomes /\ best' = IF Score(o) > Score(best) THEN o ELSE best
      /\ Score(o) \in Int /\ Score(best) \in Int
      /\ Score(best') >= Score(best) /\ Score(best') >= Score(o) /\ Score(best') \in Int
  <2>1. best \in Outcomes /\ best' = IF Score(o) > Score(best) THEN o ELSE best
    BY <1>1, <1>3 DEF RecordBest, TypeOK
  <2>2. Score(o) \in Int /\ Score(best) \in Int
    BY <1>4, <2>1, ScoreType
  <2>3. CASE Score(o) > Score(best)
    BY <1>4, <2>1, <2>2, <2>3
  <2>4. CASE ~(Score(o) > Score(best))
    BY <2>1, <2>2, <2>4
  <2>. QED
    BY <2>3, <2>4
<1>6. archive' \in [Finite -> Nat] /\ ArchiveIsFront' /\ Covered'
  BY <1>1, <1>3, <1>4, ArchiveStep
<1>7. Agreed'
  BY <1>1, <1>2, <1>3, AgreedStep
<1>8. TypeOK'
  <2>1. seen' \in [Outcomes -> Nat] /\ pos' \in 0..Len(results)
    <3>1. seen \in [Outcomes -> Nat] /\ seen[o] + 1 \in Nat
      BY <1>1, <1>4 DEF TypeOK
    <3>. QED
      BY <1>3, <1>4, <3>1
  <2>2. evaluated' \in Nat /\ step' \in {"submit", "record", "apply"}
    BY <1>1, <1>3 DEF TypeOK
  <2>. QED
    BY <1>1, <1>3, <1>5, <1>6, <2>1, <2>2 DEF TypeOK
<1>9. BestIsNeverLost'
  <2>1. ASSUME NEW p \in Outcomes, seen'[p] > 0 PROVE Score(p) <= Score(best')
    <3>1. p = o \/ seen[p] > 0
      BY <1>1, <1>3, <2>1 DEF TypeOK
    <3>2. Score(p) \in Int
      BY ScoreType
    <3>. QED
      BY <1>1, <1>5, <3>1, <3>2 DEF BestIsNeverLost
  <2>. QED
    BY <2>1 DEF BestIsNeverLost
<1>10. HistoryIsConvergence'
  BY <1>1, <1>3 DEF HistoryIsConvergence, Place
<1>11. Place' /\ Fresh'
  BY <1>1, <1>3, Constants DEF Place, Running, Fresh
<1>12. Batch'
  BY <1>1, <1>3, <1>4 DEF Batch
<1>13. Counted'
  <2>1. evaluated = Begun + scouts + pos /\ UNCHANGED <<Begun, scouts>>
    BY <1>1, <1>3 DEF Counted, Begun
  <2>2. Begun \in Nat /\ scouts \in Nat
    BY <1>1, BegunType, Constants DEF TypeOK
  <2>. QED
    BY <1>3, <1>4, <2>1, <2>2 DEF Counted
<1>14. Curve'
  <2>1. \A k \in 1..Len(history) : history[k] \in Int
    BY <1>1 DEF TypeOK, NoScore
  <2>. QED
    BY <1>1, <1>3, <1>5, <2>1 DEF Curve
<1>. QED
  BY <1>6, <1>7, <1>8, <1>9, <1>10, <1>11, <1>12, <1>13, <1>14 DEF IInv, SearchIsRecorded

\* A phase of SN candidates.
LEMMA Products ==
  ASSUME NEW n \in Nat
  PROVE  /\ SN * (2 * n - 1) + SN = SN * (2 * n)
         /\ SN * (2 * n) + SN = SN * (2 * n + 1)
         /\ SN * (2 * (n + 1) - 1) = SN * (2 * n + 1)
         /\ SN * (1 + 2 * n) = SN * (2 * n + 1)
         /\ SN * (2 * 0 + 1) = SN
         /\ SN * (2 * n) \in Int /\ SN * (2 * n + 1) \in Int
<1>1. SN \in Int
  BY Constants
<1>2. ASSUME NEW m \in Int PROVE SN * m \in Int /\ SN * m + SN = SN * (m + 1)
  BY <1>1
<1>3. 2 * n \in Int /\ 2 * n - 1 \in Int /\ 2 * n + 1 \in Int /\ 2 * n - 1 + 1 = 2 * n
      /\ 2 * (n + 1) - 1 = 2 * n + 1 /\ 1 + 2 * n = 2 * n + 1 /\ 2 * 0 + 1 = 1
  OBVIOUS
<1>4. SN * 1 = SN
  BY <1>1
<1>. QED
  BY <1>2, <1>3, <1>4

\* run() ends a cycle, or the initialisation, which counts as cycle 0.
LEMMA EndCycleStep ==
  ASSUME TypeOK, HistoryIsConvergence, Place, Curve,
         phase \in {"INIT", "SCOUT"}, EndCycle,
         step' = "submit", UNCHANGED <<best, evaluated>>,
         scouts' \in Nat, scouts' <= cycle,
         evaluated = SN * (2 * cycle + 1) + scouts'
  PROVE  /\ HistoryIsConvergence' /\ Place' /\ Curve' /\ Counted'
         /\ history' \in Seq(Nat \cup {NoScore})
         /\ phase' \in {"EMPLOYED", "done"} /\ cycle' \in 0..MaxIter
         /\ ending' \in {"none", "complete"}
<1>1. history' = Append(history, Score(best)) /\ ending = "none"
      /\ Len(history) = cycle /\ cycle \in 0..MaxIter
  BY DEF EndCycle, Place, Curve, TypeOK
<1>2. /\ history' \in Seq(Nat \cup {NoScore})
      /\ Len(history') = cycle + 1
      /\ history'[Len(history')] = Score(best)
      /\ \A k \in 1..Len(history') : history'[k] <= Score(best)
      /\ \A k \in 2..Len(history') : history'[k - 1] <= history'[k]
  BY <1>1, Appended
<1>3. CASE LastCycle
  <2>1. phase' = "done" /\ ending' = "complete" /\ cycle' = cycle /\ cycle = MaxIter
    BY <1>3 DEF EndCycle, LastCycle
  <2>2. evaluated' = SN * (1 + 2 * MaxIter) + scouts'
    BY <2>1, Products, Constants
  <2>3. HistoryIsConvergence'
    BY <1>2, <2>1, <2>2 DEF HistoryIsConvergence
  <2>. QED
    BY <1>1, <1>2, <2>1, <2>3 DEF Place, Running, Curve, Counted
<1>4. CASE ~LastCycle
  <2>1. phase' = "EMPLOYED" /\ ending' = "none" /\ cycle' = cycle + 1 /\ cycle # MaxIter
    BY <1>1, <1>4 DEF EndCycle, LastCycle
  <2>2. cycle \in Nat /\ cycle' \in 0..MaxIter
    BY <1>1, <2>1, Constants
  <2>3. HistoryIsConvergence'
    BY <1>2, <2>1 DEF HistoryIsConvergence
  <2>4. Begun' = SN * (2 * cycle + 1)
    BY <2>1, <2>2, Products DEF Begun
  <2>5. SN * (2 * cycle + 1) \in Int
    BY <2>2, Products
  <2>6. Counted'
    BY <2>1, <2>4, <2>5 DEF Counted
  <2>7. Place'
    BY <1>1, <2>1, <2>2, Constants DEF Place, Running
  <2>8. Curve'
    BY <1>2, <2>1 DEF Curve
  <2>. QED
    BY <1>2, <2>1, <2>2, <2>3, <2>6, <2>7, <2>8
<1>. QED
  BY <1>3, <1>4

\* A cycle without a scout ends.
LEMMA SkipInv ==
  ASSUME IInv, SkipScout
  PROVE  IInv'
<1>1. /\ TypeOK /\ BestIsNeverLost /\ ArchiveIsFront /\ HistoryIsConvergence
      /\ Place /\ Batch /\ Fresh /\ Counted /\ Covered /\ Curve /\ Agreed
  BY DEF IInv, SearchIsRecorded
<1>2. /\ UNCHANGED <<source, counter, step, requests, results, pos, best, archive,
                     scouts, studyBest, seen, evaluated>>
      /\ phase = "SCOUT" /\ step = "submit" /\ EndCycle
  BY DEF SkipScout
<1>3. scouts \in Nat /\ scouts <= cycle /\ cycle \in Nat
  BY <1>1, Constants DEF TypeOK, Place
<1>4. evaluated = SN * (2 * cycle + 1) + scouts
  <2>1. evaluated = SN * (2 * cycle + 1) + scouts + 0
    BY <1>1, <1>2 DEF Counted, Begun
  <2>2. SN * (2 * cycle + 1) \in Int
    BY <1>3, Products
  <2>. QED
    BY <1>3, <2>1, <2>2
<1>5. /\ HistoryIsConvergence' /\ Place' /\ Curve' /\ Counted'
      /\ history' \in Seq(Nat \cup {NoScore})
      /\ phase' \in {"EMPLOYED", "done"} /\ cycle' \in 0..MaxIter
      /\ ending' \in {"none", "complete"}
  BY <1>1, <1>2, <1>3, <1>4, EndCycleStep
<1>6. TypeOK'
  BY <1>1, <1>2, <1>5 DEF TypeOK
<1>7. BestIsNeverLost' /\ ArchiveIsFront' /\ Covered' /\ Agreed'
  BY <1>1, <1>2 DEF BestIsNeverLost, ArchiveIsFront, Covered, Agreed
<1>8. Batch' /\ Fresh'
  BY <1>2, <1>5 DEF Batch, Fresh
<1>. QED
  BY <1>5, <1>6, <1>7, <1>8 DEF IInv, SearchIsRecorded

\* What one application does to the colony.
LEMMA ApplyFacts ==
  ASSUME IInv, Apply
  PROVE  /\ pos \in Nat /\ pos < Len(results) /\ Len(results) \in Nat /\ phase # "done"
         /\ requests[pos + 1] \in Sources /\ results[pos + 1] \in Outcomes
         /\ source' \in [Sources -> Outcomes] /\ counter' \in [Sources -> Nat]
         /\ \A i \in Sources : source'[i] # source[i] =>
              /\ i = requests[pos + 1] /\ source'[i] = results[pos + 1]
              /\ phase \in {"INIT", "SCOUT"} \/ Score(source'[i]) > Score(source[i])
<1>1. TypeOK /\ Place /\ Batch /\ step = "apply"
  BY DEF IInv, SearchIsRecorded, Apply
<1>2. /\ pos \in Nat /\ pos < Len(results) /\ Len(results) \in Nat /\ phase # "done"
      /\ requests[pos + 1] \in Sources /\ results[pos + 1] \in Outcomes
  BY <1>1 DEF TypeOK, Place, Batch
<1>3. PICK i \in Sources, o \in Outcomes : i = requests[pos + 1] /\ o = results[pos + 1]
  BY <1>2
<1>4. \/ /\ source' = [source EXCEPT ![i] = o] /\ counter' = [counter EXCEPT ![i] = 0]
         /\ phase \in {"INIT", "SCOUT"} \/ Score(o) > Score(source[i])
      \/ source' = source /\ counter' = [counter EXCEPT ![i] = @ + 1]
  BY <1>3 DEF Apply, Greedy, SetSource
<1>5. source \in [Sources -> Outcomes] /\ counter \in [Sources -> Nat]
  BY <1>1 DEF TypeOK
<1>6. source' \in [Sources -> Outcomes] /\ counter' \in [Sources -> Nat]
  BY <1>4, <1>5
<1>7. ASSUME NEW j \in Sources, source'[j] # source[j]
      PROVE  /\ j = i /\ source'[j] = o
             /\ phase \in {"INIT", "SCOUT"} \/ Score(source'[j]) > Score(source[j])
  BY <1>4, <1>5, <1>7
<1>. QED
  BY <1>2, <1>3, <1>6, <1>7

\* One candidate of the batch is applied to the colony.
LEMMA ApplyInv ==
  ASSUME IInv, Apply
  PROVE  IInv'
<1>1. /\ TypeOK /\ BestIsNeverLost /\ ArchiveIsFront /\ HistoryIsConvergence
      /\ Place /\ Batch /\ Fresh /\ Counted /\ Covered /\ Curve /\ Agreed
  BY DEF IInv, SearchIsRecorded
<1>2. /\ step = "apply" /\ UNCHANGED <<best, archive, studyBest, seen, evaluated>>
      /\ scouts' = IF phase = "SCOUT" THEN scouts + 1 ELSE scouts
  BY DEF Apply
<1>3. BestIsNeverLost' /\ ArchiveIsFront' /\ Covered'
  BY <1>1, <1>2 DEF BestIsNeverLost, ArchiveIsFront, Covered
<1>4. /\ Len(results) = IF phase = "SCOUT" THEN 1 ELSE SN
      /\ studyBest = best
      /\ cycle \in 0..MaxIter /\ scouts \in Nat /\ ending = "none"
      /\ evaluated = Begun + scouts + Len(results)
  <2>1. phase # "done"
    BY ApplyFacts
  <2>. QED
    <3>1. cycle \in 0..MaxIter /\ scouts \in Nat
      BY <1>1, Constants DEF TypeOK
    <3>2. Len(results) = (IF phase = "SCOUT" THEN 1 ELSE SN) /\ studyBest = best
      BY <1>1, <1>2 DEF Batch, Agreed
    <3>3. ending = "none"
      BY <1>1, <2>1 DEF Place
    <3>4. evaluated = Begun + scouts + Len(results)
      BY <1>1, <1>2, <2>1 DEF Counted
    <3>. QED
      BY <3>1, <3>2, <3>3, <3>4
<1>5. CASE pos + 1 < Len(results)
  <2>1. /\ pos' = pos + 1
        /\ UNCHANGED <<step, phase, cycle, history, ending, requests, results>>
    BY <1>5 DEF Apply
  <2>2. phase # "SCOUT" /\ scouts' = scouts
    BY <1>2, <1>4, <1>5, ApplyFacts
  <2>3. TypeOK'
    <3>1. pos' \in 0..Len(results)
      BY <1>5, <2>1, ApplyFacts
    <3>. QED
      BY <1>1, <1>2, <2>1, <2>2, <3>1, ApplyFacts DEF TypeOK
  <2>4. HistoryIsConvergence' /\ Place' /\ Counted' /\ Curve' /\ Agreed'
    BY <1>1, <1>2, <2>1, <2>2 DEF HistoryIsConvergence, Place, Counted, Begun, Curve, Agreed
  <2>5. Batch'
    BY <1>1, <1>2, <1>5, <2>1, <2>2 DEF Batch
  <2>6. Fresh'
    <3>1. ASSUME NEW i \in Sources, phase = "INIT", i > pos + 1 PROVE source'[i] = Failed
      <4>1. pos + 1 \in Sources /\ requests[pos + 1] = pos + 1
        BY <1>1, <1>2, <1>4, <1>5, <2>2, <3>1, ApplyFacts, Constants DEF Batch
      <4>2. i # requests[pos + 1] /\ i > pos
        BY <3>1, <4>1, ApplyFacts, Constants
      <4>. QED
        BY <1>1, <1>2, <3>1, <4>2, ApplyFacts DEF Fresh
    <3>. QED
      BY <1>2, <2>1, <3>1 DEF Fresh
  <2>. QED
    BY <1>3, <2>3, <2>4, <2>5, <2>6 DEF IInv, SearchIsRecorded
<1>6. CASE ~(pos + 1 < Len(results))
  <2>1. pos' = 0 /\ step' = "submit" /\ requests' = <<>> /\ results' = <<>>
    BY <1>6 DEF Apply
  <2>2. Batch' /\ Agreed'
    BY <1>2, <1>4, <2>1 DEF Batch, Agreed
  <2>3. ASSUME phase' \in Running \cup {"done"}, cycle' \in 0..MaxIter,
               scouts' \in 0..MaxIter, history' \in Seq(Nat \cup {NoScore}),
               ending' \in {"none", "complete"},
               HistoryIsConvergence', Place', Curve', Counted'
        PROVE  IInv'
    <3>1. phase' # "INIT" /\ phase' \in {"INIT", "EMPLOYED", "ONLOOKER", "SCOUT", "done"}
      BY <2>3 DEF Running
    <3>2. Fresh'
      BY <3>1 DEF Fresh
    <3>3. /\ requests' \in Seq(Sources) /\ results' \in Seq(Outcomes)
          /\ Len(requests') = Len(results') /\ pos' \in 0..Len(results')
      BY <2>1
    <3>4. TypeOK'
      BY <1>1, <1>2, <2>1, <2>3, <3>1, <3>3, ApplyFacts DEF TypeOK
    <3>. QED
      BY <1>3, <2>2, <2>3, <3>2, <3>4 DEF IInv, SearchIsRecorded
  <2>4. CASE phase \in {"EMPLOYED", "ONLOOKER"}
    <3>1. /\ phase' = IF phase = "EMPLOYED" THEN "ONLOOKER" ELSE "SCOUT"
          /\ UNCHANGED <<cycle, history, ending, scouts>>
      BY <1>2, <1>6, <2>4 DEF Apply
    <3>2. HistoryIsConvergence' /\ Place' /\ Curve'
      BY <1>1, <1>2, <2>1, <2>4, <3>1 DEF HistoryIsConvergence, Place, Running, Curve
    <3>3. Begun' = Begun + SN /\ Begun \in Nat /\ Len(results) = SN
      <4>1. cycle \in Nat /\ cycle' = cycle /\ Begun \in Nat /\ Len(results) = SN
        BY <1>1, <1>4, <2>4, <3>1, BegunType, Constants
      <4>2. CASE phase = "EMPLOYED"
        <5>1. Begun = SN * (2 * cycle - 1) /\ Begun' = SN * (2 * cycle)
          BY <3>1, <4>2 DEF Begun
        <5>. QED
          BY <4>1, <5>1, Products
      <4>3. CASE phase = "ONLOOKER"
        <5>1. Begun = SN * (2 * cycle) /\ Begun' = SN * (2 * cycle + 1)
          BY <3>1, <4>3 DEF Begun
        <5>. QED
          BY <4>1, <5>1, Products
      <4>. QED
        BY <2>4, <4>2, <4>3, <4>1
    <3>4. Counted'
      BY <1>2, <1>4, <2>1, <3>1, <3>3, Constants DEF Counted
    <3>. QED
      BY <1>1, <1>4, <2>3, <2>4, <3>1, <3>2, <3>4 DEF TypeOK, Running
  <2>5. CASE phase \in {"INIT", "SCOUT"}
    <3>1. EndCycle
      BY <1>6, <2>5 DEF Apply
    <3>2. scouts' \in Nat /\ scouts' <= cycle /\ scouts' \in 0..MaxIter
      BY <1>1, <1>2, <1>4, <2>5, Constants DEF Place, Running
    <3>3. evaluated = SN * (2 * cycle + 1) + scouts'
      <4>1. CASE phase = "INIT"
        <5>1. evaluated = SN /\ scouts' = 0 /\ cycle = 0
          BY <1>1, <1>2, <1>4, <4>1, Constants DEF Begun, Place
        <5>. QED
          BY <5>1, Products, Constants
      <4>2. CASE phase = "SCOUT"
        <5>1. evaluated = SN * (2 * cycle + 1) + scouts + 1 /\ scouts' = scouts + 1
          BY <1>2, <1>4, <4>2 DEF Begun
        <5>2. SN * (2 * cycle + 1) \in Int /\ scouts \in Int
          BY <1>4, Products
        <5>. QED
          BY <5>1, <5>2
      <4>. QED
        BY <2>5, <4>1, <4>2
    <3>4. /\ HistoryIsConvergence' /\ Place' /\ Curve' /\ Counted'
          /\ history' \in Seq(Nat \cup {NoScore})
          /\ phase' \in {"EMPLOYED", "done"} /\ cycle' \in 0..MaxIter
          /\ ending' \in {"none", "complete"}
      BY <1>1, <1>2, <2>1, <2>5, <3>1, <3>2, <3>3, EndCycleStep
    <3>. QED
      BY <2>3, <3>2, <3>4 DEF Running
  <2>. QED
    BY <1>1, <2>4, <2>5, ApplyFacts DEF TypeOK
<1>. QED
  BY <1>5, <1>6

\* Every step keeps the invariant.
LEMMA StepInv == IInv /\ [Next]_vars => IInv'
<1>. SUFFICES ASSUME IInv, [Next]_vars PROVE IInv'
  OBVIOUS
<1>1. CASE Next
  BY <1>1, EvaluateInv, StopInv, RecordInv, ApplyInv, SkipInv DEF Next
<1>2. CASE UNCHANGED vars
  <2>1. SearchIsRecorded'
    BY <1>2 DEF vars, IInv, SearchIsRecorded, TypeOK, BestIsNeverLost, ArchiveIsFront,
       HistoryIsConvergence
  <2>2. Place' /\ Batch' /\ Fresh' /\ Counted'
    BY <1>2 DEF vars, IInv, Place, Batch, Fresh, Counted, Begun
  <2>3. Covered' /\ Curve' /\ Agreed'
    BY <1>2 DEF vars, IInv, Covered, Curve, Agreed, FirstBest
  <2>. QED
    BY <2>1, <2>2, <2>3 DEF IInv
<1>. QED
  BY <1>1, <1>2

-----------------------------------------------------------------------------
(* Theorems.                                                               *)

\* The inductive invariant holds in every state of every search.
THEOREM Invariance == Spec => []IInv
BY InitInv, StepInv, PTL DEF Spec

\* What a search returns is the best candidate, the front and the convergence
\* of all that was evaluated, whatever ends it.
THEOREM RecordIsRight == Spec => []SearchIsRecorded
<1>1. IInv => SearchIsRecorded
  BY DEF IInv
<1>. QED
  BY <1>1, Invariance, PTL

\* Between batches the study and the colony have the same best candidate, ties
\* included.
THEOREM StudyAgrees == Spec => []StudyAgreesWithColony
<1>1. IInv => StudyAgreesWithColony
  BY DEF IInv, Agreed, StudyAgreesWithColony
<1>. QED
  BY <1>1, Invariance, PTL

\* Only a scout makes a source worse, and only the source whose counter is the
\* largest and above the limit.
THEOREM OnlyScoutsWorsen == Spec => WorseOnlyByScout
<1> DEFINE Worse(i) ==
      Score(source'[i]) < Score(source[i]) =>
         /\ phase = "SCOUT" /\ counter[i] > Limit
         /\ \A j \in Sources : counter[j] <= counter[i]
<1>1. IInv /\ [Next]_vars => [\A i \in Sources : Worse(i)]_vars
  <2>. SUFFICES ASSUME IInv, Next, NEW i \in Sources, Score(source'[i]) < Score(source[i])
       PROVE  /\ phase = "SCOUT" /\ counter[i] > Limit
              /\ \A j \in Sources : counter[j] <= counter[i]
    OBVIOUS
  <2>1. TypeOK /\ source[i] \in Outcomes /\ Score(source[i]) \in Int
    BY ScoreType DEF IInv, SearchIsRecorded, TypeOK
  <2>2. Apply /\ step = "apply" /\ source'[i] # source[i]
    BY <2>1 DEF Next, Evaluate, Stop, Raise, Record, SkipScout, Apply
  <2>3. /\ i = requests[pos + 1] /\ source'[i] = results[pos + 1]
        /\ results[pos + 1] \in Outcomes
        /\ phase \in {"INIT", "SCOUT"}
    <3>1. Score(source'[i]) \in Int
      BY <2>2, ApplyFacts, ScoreType
    <3>. QED
      BY <2>1, <2>2, <3>1, ApplyFacts
  <2>4. phase # "INIT"
    <3>1. ASSUME phase = "INIT" PROVE source[i] = Failed
      <4>1. pos + 1 \in Sources /\ requests[pos + 1] = pos + 1
        BY <2>2, <3>1, ApplyFacts, Constants DEF IInv, Batch
      <4>2. i > pos
        BY <2>2, <2>3, <4>1, ApplyFacts, Constants
      <4>. QED
        BY <2>2, <3>1, <4>2 DEF IInv, Fresh
    <3>2. Score(source'[i]) >= NoScore /\ Score(source'[i]) \in Int /\ Score(Failed) = NoScore
      BY <2>3, ScoreType
    <3>. QED
      BY <3>1, <3>2, Constants
  <2>5. pos + 1 = 1
    BY <2>2, <2>3, <2>4, ApplyFacts DEF IInv, Batch
  <2>. QED
    BY <2>2, <2>3, <2>4, <2>5 DEF IInv, Batch
<1>. QED
  BY <1>1, Invariance, PTL DEF Spec, WorseOnlyByScout
=============================================================================
