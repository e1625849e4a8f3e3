--------------------------- MODULE WatchPageProofs ---------------------------
(***************************************************************************)
(* Theorems about RunLoop, for any number of periods and pages, with and   *)
(* without early requests, deletions and crashes: what the rows of a run   *)
(* say of each other, and that its end is final. And about WatchPage, for  *)
(* any number of periods, agents, profits, budgets and size of the cent,   *)
(* whenever the requests are made and whatever becomes of the run          *)
(* meanwhile: what the page has plotted and what progress it shows.        *)
(***************************************************************************)
EXTENDS WatchPage, FiniteSetTheorems, NaturalsInduction, WellFoundedInduction, TLAPS

-----------------------------------------------------------------------------
(***************************************************************************)
(* The inductive invariant: how far the process is determines the periods  *)
(* that are stored, and how often Continue was pressed.                    *)
(***************************************************************************)

Fresh == {"none", "spawned", "build", "warm", "init", "initMarket"}
Closing == {"export", "finish", "checkpoints"}

Clock ==
  /\ pc \in Fresh => t = 1
  /\ pc \in Closing => t = N

\* Periods 1..k are stored. In period-by-period mode the requests that were
\* saved have released them, and the next one too unless the market waits.
Through(k) ==
  /\ periods = 1..k
  /\ k > 0 => sim.currentPeriod \in {k, k + 1}
  /\ sim.mode = "PERIODBYPERIOD" =>
       \/ k <= continues
       \/ market.state = "PERIODEND" /\ k <= continues + 1

\* What the place of the process says of a run that exists.
Place ==
  /\ pc \in Fresh \cup {"refused"} => periods = {}
  /\ pc \in {"wait", "begin", "period"} => Through(t - 1)
  /\ pc \in {"period", "after"} => sim.currentPeriod = t
  /\ pc \in {"begin", "period"} /\ sim.mode = "PERIODBYPERIOD" => t - 1 <= continues
  /\ pc = "after" => Through(t)
  /\ pc \in Closing => Through(N)

State ==
  /\ pc \in (Fresh \ {"initMarket"}) \cup {"refused"} => sim.state = "CREATED"
  /\ pc = "ended" => sim.state \in Terminal
  /\ pc = "checkpoints" => sim.state = "FINISHED"
  /\ sim.state = "FINISHED" =>
       pc \in {"checkpoints", "ended", "killed"} /\ periods = 1..N

Stored ==
  /\ budget = periods
  /\ \E k \in 0..N : Through(k)

IInv ==
  /\ TypeOK
  /\ Clock
  /\ exists => Place /\ State /\ Stored
  /\ ~exists => periods = {}

-----------------------------------------------------------------------------
LEMMA InitIInv == Init => IInv
BY RunAssumption
   DEF Init, IInv, TypeOK, Clock, Place, State, Stored, Through, Fresh, Closing, Running,
       Terminal, MarketRows, NoRequest

\* The cap of the ghost counter.
LEMMA Counted ==
  ASSUME NEW x \in 0..N
  PROVE  Min({N, x + 1}) = IF x = N THEN N ELSE x + 1
<1>1. Min({N, x + 1}) = CHOOSE y \in {N, x + 1} : \A z \in {N, x + 1} : y <= z
  BY DEF Min
<1> QED
  BY <1>1, RunAssumption

(***************************************************************************)
(* One lemma per group of actions.                                         *)
(***************************************************************************)

USE RunAssumption DEF IInv, TypeOK, Clock, Place, State, Stored, Through, Fresh, Closing,
    Running, Terminal, MarketRows, NoRequest, At, Goto, vars, rows

\* The steps before the first period.
LEMMA Preparing ==
  ASSUME IInv,
         Start \/ StartFails \/ Check \/ Build \/ WarmStart \/ Initialize \/ InitializeMarket
  PROVE  IInv'
<1>1. CASE Start
  BY <1>1 DEF Start
<1>2. CASE StartFails
  BY <1>2 DEF StartFails
<1>3. CASE Check
  BY <1>3 DEF Check
<1>4. CASE Build
  BY <1>4 DEF Build, MarketUpdate
<1>5. CASE WarmStart
  BY <1>5 DEF WarmStart
<1>6. CASE Initialize
  <2>1. exists => periods = 1..0
    BY <1>6 DEF Initialize
  <2>2. exists => Through(0)'
    BY <1>6, <2>1 DEF Initialize, SaveFields
  <2>3. exists => Stored'
    BY <1>6, <2>1, <2>2 DEF Initialize, SaveFields
  <2>4. exists => Place' /\ State'
    BY <1>6, <2>1 DEF Initialize, SaveFields
  <2>5. TypeOK' /\ Clock'
    <3>1. CASE exists
      <4>1. sim' = [sim EXCEPT !.state = "INITIALIZED", !.currentPeriod = 0]
        BY <1>6, <3>1 DEF Initialize, SaveFields
      <4>2. 0 \in -1..N
        OBVIOUS
      <4>3. sim' \in [mode : Modes, state : {"CREATED", "INITIALIZED", "STARTED"} \cup Terminal,
                      currentPeriod : -1..N, error : BOOLEAN]
        BY <4>1, <4>2
      <4> QED
        BY <1>6, <3>1, <4>3 DEF Initialize, SaveFields
    <3>2. CASE ~exists
      BY <1>6, <3>2 DEF Initialize, SaveFields
    <3> QED
      BY <3>1, <3>2
  <2>6. exists' = exists /\ (~exists => periods' = {})
    BY <1>6 DEF Initialize, SaveFields
  <2> HIDE DEF TypeOK, Clock, Place, State, Stored
  <2> QED
    BY <2>3, <2>4, <2>5, <2>6
<1>7. CASE InitializeMarket
  BY <1>7 DEF InitializeMarket, MarketUpdate
<1> QED
  BY <1>1, <1>2, <1>3, <1>4, <1>5, <1>6, <1>7

\* One period and the head of the next.
LEMMA Looping ==
  ASSUME IInv, Wait \/ Begin \/ RunPeriod \/ After
  PROVE  IInv'
<1>1. CASE Wait
  BY <1>1 DEF Wait
<1>2. CASE Begin
  BY <1>2 DEF Begin, SaveFields
<1>3. CASE RunPeriod
  BY <1>3 DEF RunPeriod
<1>4. CASE After
  BY <1>4 DEF After, SaveFields, LastPeriod
<1> QED
  BY <1>1, <1>2, <1>3, <1>4

\* How the process ends.
LEMMA Ending ==
  ASSUME IInv,
         Export \/ Finish \/ SaveCheckpoints \/ CheckpointsFail \/ MarkFailed \/ Fail \/ Kill
  PROVE  IInv'
<1>1. CASE Export
  BY <1>1 DEF Export
<1>2. CASE Finish
  BY <1>2 DEF Finish, SaveFields
<1>3. CASE SaveCheckpoints
  BY <1>3 DEF SaveCheckpoints
<1>4. CASE CheckpointsFail
  BY <1>4 DEF CheckpointsFail
<1>5. CASE MarkFailed
  BY <1>5 DEF MarkFailed
<1>6. CASE Fail
  BY <1>6 DEF Fail
<1>7. CASE Kill
  BY <1>7 DEF Kill
<1> QED
  BY <1>1, <1>2, <1>3, <1>4, <1>5, <1>6, <1>7

LEMMA Deleting ==
  ASSUME IInv, Delete
  PROVE  IInv'
<1>1. UNCHANGED <<sim, market, pc, t, request, continues>>
  BY DEF Delete
<1>2. exists' = FALSE /\ periods' = {} /\ budget' = {}
  BY DEF Delete
<1>3. Clock'
  BY <1>1
<1>4. TypeOK'
  BY <1>1, <1>2
<1> HIDE DEF TypeOK, Clock, Place, State, Stored
<1> QED
  BY <1>2, <1>3, <1>4

\* What the pages do meanwhile.
LEMMA Requesting ==
  ASSUME IInv, NEW p \in Pages, ReadMarket(p) \/ SaveMarket(p)
  PROVE  IInv'
<1>1. CASE ReadMarket(p)
  BY <1>1 DEF ReadMarket
<1>2. CASE SaveMarket(p)
  <2>1. continues' = IF continues = N THEN N ELSE continues + 1
    BY <1>2, Counted DEF SaveMarket
  <2>2. UNCHANGED <<exists, sim, periods, budget, pc, t>>
    BY <1>2 DEF SaveMarket
  <2>3. market' \in MarketRows /\ request' \in [Pages -> MarketRows \cup {NoRequest}]
    <3>1. request[p] \in MarketRows
      BY <1>2 DEF SaveMarket
    <3>2. request' = [request EXCEPT ![p] = NoRequest]
      BY <1>2 DEF SaveMarket
    <3>3. market' = IF exists THEN [request[p] EXCEPT !.state = "INITIALIZED"] ELSE market
      BY <1>2 DEF SaveMarket, MarketUpdate
    <3> QED
      BY <3>1, <3>2, <3>3
  <2>4. ASSUME NEW k \in 0..N, Through(k)
        PROVE  Through(k)'
    BY <2>1, <2>2, <2>4
  <2>5. TypeOK' /\ Clock'
    BY <2>1, <2>2, <2>3
  <2>6. ASSUME exists
        PROVE  Place' /\ State' /\ Stored'
    <3>1. Through(t - 1) => Through(t - 1)'
      BY <2>2, <2>4
    <3>2. Through(t) => Through(t)'
      BY <2>2, <2>4
    <3>3. Through(N) => Through(N)'
      BY <2>2, <2>4
    <3>4. Stored'
      BY <2>2, <2>4, <2>6
    <3>5. State'
      BY <2>2, <2>6
    <3>6. Place'
      BY <2>1, <2>2, <2>6, <3>1, <3>2, <3>3
    <3> QED
      BY <3>4, <3>5, <3>6
  <2>7. ~exists' => periods' = {}
    BY <2>2
  <2>8. exists' = exists
    BY <2>2
  <2> HIDE DEF TypeOK, Clock, Place, State, Stored
  <2> QED
    BY <2>5, <2>6, <2>7, <2>8
<1> QED
  BY <1>1, <1>2

LEMMA NextIInv == IInv /\ [Next]_vars => IInv'
<1> SUFFICES ASSUME IInv, [Next]_vars PROVE IInv'
  OBVIOUS
<1>1. CASE UNCHANGED vars
  BY <1>1
<1>2. CASE Next
  <2> HIDE DEF IInv, At, Goto
  <2> QED
    BY <1>2, Preparing, Looping, Ending, Deleting, Requesting DEF Next, RunStep
<1> QED
  BY <1>1, <1>2

LEMMA Invariance == Spec => []IInv
<1> HIDE DEF IInv, vars
<1> QED
  BY InitIInv, NextIInv, PTL DEF Spec

-----------------------------------------------------------------------------
(***************************************************************************)
(* The theorems.                                                           *)
(***************************************************************************)

LEMMA IntervalSize ==
  ASSUME NEW k \in Nat
  PROVE  Cardinality(1..k) = k
BY FS_Interval

LEMMA IInvIsOrderly == IInv => RunIsOrderly
<1> SUFFICES ASSUME IInv PROVE RunIsOrderly
  OBVIOUS
<1>1. PeriodsArePrefix
  <2> SUFFICES ASSUME exists
               PROVE  /\ \E k \in 0..N : /\ periods = 1..k
                                         /\ k > 0 => sim.currentPeriod \in {k, k + 1}
                      /\ budget = periods
    BY DEF PeriodsArePrefix
  <2>1. Stored
    OBVIOUS
  <2>2. PICK k \in 0..N : Through(k)
    BY <2>1
  <2> QED
    BY <2>1, <2>2
<1>2. ContinuePerPeriod
  <2>1. CASE ~exists
    <3>1. periods = {} /\ continues \in Nat
      BY <2>1
    <3>2. Cardinality(periods) = 0
      BY <3>1, FS_EmptySet
    <3> QED
      BY <3>1, <3>2 DEF ContinuePerPeriod
  <2>2. CASE exists
    <3>1. PICK k \in 0..N : Through(k)
      BY <2>2
    <3>2. Cardinality(periods) = k
      BY <3>1, IntervalSize
    <3> QED
      BY <3>1, <3>2 DEF ContinuePerPeriod
  <2> QED
    BY <2>1, <2>2
<1>3. NoRunLeftOpen
  BY DEF NoRunLeftOpen
<1> QED
  BY <1>1, <1>2, <1>3 DEF RunIsOrderly

\* Whatever happens to a run of any length, the periods that are stored are a
\* prefix with their budgets, Continue was pressed once per period, and a process
\* that ended by itself has closed its run (simulation_service.run, nextPeriod).
THEOREM RowsAgree == Spec => []RunIsOrderly
<1> HIDE DEF IInv
<1> QED
  BY Invariance, IInvIsOrderly, PTL

\* No statement that comes late changes a finished run or brings a deleted one
\* back (_save_checkpoints, _mark_failed, nextPeriod, delete_simulation).
THEOREM EndIsFinal == Spec => EndIsKept
<1>1. ASSUME IInv, [Next]_vars
      PROVE  [ /\ exists /\ sim.state = "FINISHED" =>
                    /\ periods = 1..N
                    /\ exists' => sim'.state = "FINISHED" /\ periods' = periods
               /\ ~exists => ~exists' /\ periods' = {} ]_vars
  <2>1. CASE UNCHANGED vars
    BY <2>1
  <2>2. CASE Next
    BY <1>1, <2>2
       DEF Next, RunStep, Start, StartFails, Check, Build, WarmStart, Initialize,
           InitializeMarket, Wait, Begin, RunPeriod, After, Export, Finish, SaveCheckpoints,
           CheckpointsFail, MarkFailed, Fail, Kill, ReadMarket, SaveMarket, Delete, SaveFields
  <2> QED
    BY <1>1, <2>1, <2>2
<1> HIDE DEF IInv, vars
<1> QED
  BY Invariance, <1>1, PTL DEF Spec, EndIsKept

HIDE RunAssumption
HIDE DEF IInv, TypeOK, Clock, Place, State, Stored, Through, Fresh, Closing, Running, Terminal,
         MarketRows, NoRequest, At, Goto, vars, rows

-----------------------------------------------------------------------------
(***************************************************************************)
(* Induction up to n and recursion over 1..n, stated for sets and          *)
(* functions.                                                              *)
(***************************************************************************)

LEMMA LeastOf ==
  ASSUME NEW S, S \subseteq Nat, S # {}
  PROVE  \E x \in S : \A y \in S : x <= y
<1>1. PICK x \in S : \A y \in S : ~ (<<y, x>> \in OpToRel(<, Nat))
  BY NatLessThanWellFounded, WFMin, Zenon
<1>2. ASSUME NEW y \in S PROVE x <= y
  <2>1. x \in Nat /\ y \in Nat
    OBVIOUS
  <2>2. y < x => <<y, x>> \in OpToRel(<, Nat)
    BY <2>1 DEF OpToRel
  <2>3. ~ (y < x)
    BY <2>2, <1>1, Zenon
  <2> QED BY <2>1, <2>3
<1> QED BY <1>2

LEMMA UpTo ==
  ASSUME NEW n \in Nat, NEW S, 0 \in S, \A i \in 0 .. n : i < n /\ i \in S => i + 1 \in S
  PROVE  \A i \in 0 .. n : i \in S
<1> DEFINE Bad == {i \in 0 .. n : i \notin S}
<1>1. ASSUME Bad # {} PROVE FALSE
  <2>1. PICK k \in Bad : \A j \in Bad : k <= j
    <3>1. Bad \subseteq Nat
      OBVIOUS
    <3> HIDE DEF Bad
    <3> QED BY <1>1, <3>1, LeastOf
  <2>2. k \in 0 .. n /\ k \notin S /\ k # 0
    OBVIOUS
  <2>3. k - 1 \in 0 .. n /\ k - 1 < n /\ k - 1 + 1 = k
    BY <2>2
  <2>4. k - 1 \notin Bad
    <3>1. ~(k <= k - 1)
      BY <2>2
    <3> HIDE DEF Bad
    <3> QED BY <2>1, <3>1
  <2> QED BY <2>2, <2>3, <2>4
<1> QED BY <1>1

\* The recursion that starts with x and goes on from value to value by R.
Recursion(n, V, x, R) == n \in Nat /\ x \in V /\ R \in [1 .. n -> [V -> V]]
Solution(f, n, V, x, R) ==
  f \in [0 .. n -> V] /\ f[0] = x /\ \A i \in 1 .. n : f[i] = R[i][f[i - 1]]

LEMMA Chain ==
  ASSUME NEW n, NEW V, NEW x, NEW R, Recursion(n, V, x, R)
  PROVE  \E f : Solution(f, n, V, x, R)
<1> USE DEF Recursion, Solution
<1> DEFINE Good(k) == \E f \in [0 .. k -> V] :
                        f[0] = x /\ \A i \in 1 .. k : f[i] = R[i][f[i - 1]]
           S == {k \in 0 .. n : Good(k)}
<1>1. 0 \in S
  <2> DEFINE g == [i \in 0 .. 0 |-> x]
  <2>1. g \in [0 .. 0 -> V] /\ g[0] = x /\ \A i \in 1 .. 0 : g[i] = R[i][g[i - 1]]
    OBVIOUS
  <2> HIDE DEF g
  <2>2. Good(0)
    BY <2>1
  <2> QED BY <2>2
<1>2. ASSUME NEW k \in 0 .. n, k < n, k \in S PROVE k + 1 \in S
  <2>1. PICK f \in [0 .. k -> V] : f[0] = x /\ \A i \in 1 .. k : f[i] = R[i][f[i - 1]]
    BY <1>2
  <2> DEFINE g == [i \in 0 .. k + 1 |-> IF i = k + 1 THEN R[k + 1][f[k]] ELSE f[i]]
  <2>2. R[k + 1] \in [V -> V] /\ f[k] \in V
    BY <1>2
  <2>3. g \in [0 .. k + 1 -> V]
    BY <2>2
  <2>4. g[0] = x
    BY <2>1
  <2>5. ASSUME NEW i \in 1 .. k + 1 PROVE g[i] = R[i][g[i - 1]]
    <3>1. CASE i = k + 1
      <4>1. g[i] = R[k + 1][f[k]] /\ g[i - 1] = f[k]
        BY <3>1
      <4> QED BY <3>1, <4>1
    <3>2. CASE i # k + 1
      <4>1. i \in 1 .. k /\ i - 1 \in 0 .. k /\ i - 1 # k + 1
        BY <3>2
      <4>2. g[i] = f[i] /\ g[i - 1] = f[i - 1]
        BY <4>1
      <4> QED BY <2>1, <4>1, <4>2
    <3> QED BY <3>1, <3>2
  <2> HIDE DEF g
  <2> QED BY <1>2, <2>3, <2>4, <2>5
<1> HIDE DEF S
<1>3. \A k \in 0 .. n : k < n /\ k \in S => k + 1 \in S
  BY <1>2
<1>4. \A k \in 0 .. n : k \in S
  BY <1>1, <1>3, UpTo
<1>5. n \in S
  BY <1>4
<1>6. Good(n)
  BY <1>5 DEF S
<1> QED BY <1>6

-----------------------------------------------------------------------------
(***************************************************************************)
(* Cents.                                                                  *)
(***************************************************************************)

\* Whole cents.
Coin(x) == \E k \in Int : x = k * Cent

\* The whole cents in an amount and what is left of it.
Floor(x) == Cent * (x \div Cent)
Rest(x) == x % Cent

Half(x) == 2 * Rest(x) = Cent

LEMMA Cents == Cent \in Nat \ {0}
BY WatchAssumption

LEMMA CoinInt ==
  ASSUME NEW x, Coin(x)
  PROVE  x \in Int
BY Cents DEF Coin

LEMMA CoinSum ==
  ASSUME NEW x, NEW y, Coin(x), Coin(y)
  PROVE  Coin(x + y) /\ Coin(x - y) /\ Coin(x + Cent)
<1>1. PICK j \in Int : x = j * Cent
  BY DEF Coin
<1>2. PICK k \in Int : y = k * Cent
  BY DEF Coin
<1>3. /\ (j + k) * Cent = j * Cent + k * Cent
      /\ (j - k) * Cent = j * Cent - k * Cent
      /\ (j + 1) * Cent = j * Cent + Cent
  BY Cents
<1>4. j + k \in Int /\ j - k \in Int /\ j + 1 \in Int
  OBVIOUS
<1> QED BY <1>1, <1>2, <1>3, <1>4 DEF Coin

\* Whole cents that are less than a cent apart are the same.
LEMMA CoinGap ==
  ASSUME NEW x, Coin(x), x < Cent, -Cent < x
  PROVE  x = 0
<1>1. PICK k \in Int : x = k * Cent
  BY DEF Coin
<1>2. ASSUME k >= 1 PROVE FALSE
  <2>1. k - 1 \in Nat /\ k * Cent = (k - 1) * Cent + Cent
    BY <1>2, Cents
  <2>2. (k - 1) * Cent \in Nat
    BY <2>1, Cents
  <2> DEFINE m == (k - 1) * Cent
  <2> HIDE DEF m
  <2>3. x = m + Cent /\ m \in Nat
    BY <1>1, <2>1, <2>2 DEF m
  <2> QED BY <2>3, Cents
<1>3. ASSUME k <= -1 PROVE FALSE
  <2>1. -k - 1 \in Nat /\ k * Cent = -((-k - 1) * Cent) - Cent
    BY <1>3, Cents
  <2>2. (-k - 1) * Cent \in Nat
    BY <2>1, Cents
  <2> DEFINE m == (-k - 1) * Cent
  <2> HIDE DEF m
  <2>3. x = -m - Cent /\ m \in Nat
    BY <1>1, <2>1, <2>2 DEF m
  <2> QED BY <2>3, Cents
<1>4. k = 0
  BY <1>2, <1>3
<1> QED BY <1>1, <1>4, Cents

LEMMA Division ==
  ASSUME NEW x \in Int
  PROVE  /\ Coin(Floor(x)) /\ Floor(x) \in Int
         /\ Rest(x) \in Nat /\ Rest(x) < Cent
         /\ x = Floor(x) + Rest(x)
         /\ \/ Rounded(x) = Floor(x) /\ 2 * Rest(x) <= Cent
            \/ Rounded(x) = Floor(x) + Cent /\ 2 * Rest(x) >= Cent
<1> DEFINE q == x \div Cent
           r == x % Cent
<1>1. q \in Int /\ r \in Nat /\ r < Cent /\ x = q * Cent + r
  BY Cents
<1>2. Floor(x) = Cent * q /\ Rest(x) = r
  BY DEF Floor, Rest
<1>3. \/ Rounded(x) = Cent * q /\ 2 * r <= Cent
      \/ Rounded(x) = Cent * (q + 1) /\ 2 * r >= Cent
  <2>1. \/ Rounded(x) = Cent * q /\ (2 * r < Cent \/ 2 * r = Cent)
        \/ Rounded(x) = Cent * (q + 1) /\ ~(2 * r < Cent)
    BY Zenon DEF Rounded
  <2> HIDE DEF q, r
  <2> QED BY <1>1, <2>1, Cents
<1> HIDE DEF q, r
<1>4. Cent * q = q * Cent /\ Cent * (q + 1) = Cent * q + Cent /\ Cent * q \in Int
  BY <1>1, Cents
<1>5. Coin(Cent * q)
  BY <1>1, <1>4 DEF Coin
<1> QED BY <1>1, <1>2, <1>3, <1>4, <1>5

\* The remainder is what is left above a whole number of cents.
LEMMA Remainder ==
  ASSUME NEW x \in Int, NEW c, Coin(c), c <= x, x < c + Cent
  PROVE  Rest(x) = x - c
<1> DEFINE d == Floor(x)
           r == Rest(x)
<1>1. Coin(d) /\ r \in Nat /\ r < Cent /\ x = d + r
  BY Division
<1>2. Coin(d - c)
  BY <1>1, CoinSum
<1>3. d \in Int /\ c \in Int
  BY <1>1, CoinInt
<1> HIDE DEF d, r
<1>4. d - c < Cent /\ -Cent < d - c
  BY <1>1, <1>3, Cents
<1>5. d - c = 0
  BY <1>2, <1>4, CoinGap
<1> QED BY <1>1, <1>3, <1>5 DEF r

\* Whole cents do not change whether x is half way between two of them.
LEMMA HalfShift ==
  ASSUME NEW x \in Int, NEW c, Coin(c)
  PROVE  Half(c + x) <=> Half(x)
<1> DEFINE d == Floor(x)
           r == Rest(x)
<1>1. Coin(d) /\ r \in Nat /\ r < Cent /\ x = d + r
  BY Division
<1>2. Coin(c + d)
  BY <1>1, CoinSum
<1>3. d \in Int /\ c \in Int /\ c + d \in Int
  BY <1>1, <1>2, CoinInt
<1> HIDE DEF d, r
<1>4. c + x \in Int /\ c + d <= c + x /\ c + x < c + d + Cent /\ c + x - (c + d) = r
  BY <1>1, <1>3, Cents
<1>5. Rest(c + x) = r
  <2> DEFINE y == c + x
             e == c + d
  <2>1. y \in Int /\ e <= y /\ y < e + Cent /\ y - e = r
    BY <1>1, <1>3, <1>4, Cents
  <2>3. Coin(e)
    BY <1>2
  <2> HIDE DEF y, e
  <2>2. Rest(y) = y - e
    BY <2>1, <2>3, Remainder
  <2> QED BY <2>1, <2>2 DEF y
<1> QED BY <1>5 DEF Half, r

\* Rounding moves an amount by half a cent at most, and by less unless it is
\* half way between two cents.
LEMMA RoundedIs ==
  ASSUME NEW x \in Int
  PROVE  /\ Coin(Rounded(x))
         /\ -Cent <= 2 * (x - Rounded(x)) /\ 2 * (x - Rounded(x)) <= Cent
         /\ ~Half(x) => -Cent < 2 * (x - Rounded(x)) /\ 2 * (x - Rounded(x)) < Cent
<1> DEFINE c == Floor(x)
           r == Rest(x)
           y == Rounded(x)
<1>1. /\ Coin(c) /\ c \in Int /\ r \in Nat /\ r < Cent /\ x = c + r
      /\ \/ y = c /\ 2 * r <= Cent
         \/ y = c + Cent /\ 2 * r >= Cent
  BY Division
<1>2. Coin(c + Cent)
  BY <1>1, CoinSum
<1>3. ~Half(x) => 2 * r # Cent
  BY DEF Half
<1> HIDE DEF c, r, y
<1>4. /\ Coin(y)
      /\ -Cent <= 2 * (x - y) /\ 2 * (x - y) <= Cent
      /\ ~Half(x) => -Cent < 2 * (x - y) /\ 2 * (x - y) < Cent
  <2>1. CASE y = c /\ 2 * r <= Cent
    BY <1>1, <1>3, <2>1, Cents
  <2>2. CASE y = c + Cent /\ 2 * r >= Cent
    BY <1>1, <1>2, <1>3, <2>2, Cents
  <2> QED BY <1>1, <2>1, <2>2
<1> QED BY <1>4 DEF y

\* A budget computed back differs from what it was as the budget it was
\* computed from did, unless the profit was half way between two cents.
LEMMA PreviousNear ==
  ASSUME NEW x, Coin(x), NEW g \in Int
  PROVE  LET p == previous_budget(x, g) IN
         /\ Coin(p)
         /\ -Cent <= 2 * (p - (x - g)) /\ 2 * (p - (x - g)) <= Cent
<1> DEFINE exact == x - g
           low == Floor(exact)
           high == IF low = exact THEN low ELSE low + Cent
           p == previous_budget(x, g)
<1>1. x \in Int /\ exact \in Int
  BY CoinInt
<1>2. Coin(low) /\ Coin(high)
  BY <1>1, Division, CoinSum
<1>3. low \in Int /\ high \in Int
  BY <1>2, CoinInt
<1>4. p = IF Rounded(low + g) = x THEN low
          ELSE IF Rounded(high + g) = x THEN high
          ELSE Rounded(exact)
  BY DEF previous_budget, Floor
<1> HIDE DEF exact, low, high, p
<1>5. ASSUME NEW c, Coin(c), Rounded(c + g) = x
      PROVE  -Cent <= 2 * (c - (x - g)) /\ 2 * (c - (x - g)) <= Cent
  <2>1. c \in Int /\ c + g \in Int
    BY <1>5, CoinInt
  <2> DEFINE y == c + g
  <2>2. -Cent <= 2 * (y - x) /\ 2 * (y - x) <= Cent
    <3>1. y \in Int /\ Rounded(y) = x
      BY <1>5, <2>1
    <3> HIDE DEF y
    <3> QED BY <3>1, RoundedIs
  <2> QED BY <1>1, <2>1, <2>2, Cents
<1>6. ASSUME NEW c, c = Rounded(exact)
      PROVE  Coin(c) /\ -Cent <= 2 * (c - (x - g)) /\ 2 * (c - (x - g)) <= Cent
  <2>1. Coin(c) /\ -Cent <= 2 * (exact - c) /\ 2 * (exact - c) <= Cent
    BY <1>1, <1>6, RoundedIs
  <2>2. c \in Int
    BY <2>1, CoinInt
  <2> QED BY <1>1, <2>1, <2>2, Cents DEF exact
<1>7. /\ Coin(p)
      /\ -Cent <= 2 * (p - (x - g)) /\ 2 * (p - (x - g)) <= Cent
  <2>1. CASE Rounded(low + g) = x
    BY <1>2, <1>4, <1>5, <2>1
  <2>2. CASE Rounded(low + g) # x /\ Rounded(high + g) = x
    BY <1>2, <1>4, <1>5, <2>2
  <2>3. CASE Rounded(low + g) # x /\ Rounded(high + g) # x
    BY <1>4, <1>6, <2>3
  <2> QED BY <2>1, <2>2, <2>3
<1> QED BY <1>7 DEF p

LEMMA OneBack ==
  ASSUME NEW b, Coin(b), NEW x, Coin(x), NEW g \in Int
  PROVE  LET e == previous_budget(x, g) - b - (x - Rounded(b + g)) IN
         /\ -Cent <= e /\ e <= Cent
         /\ ~Half(g) => e = 0
<1> DEFINE p == previous_budget(x, g)
           a == Rounded(b + g)
           e == p - b - (x - a)
<1>1. b \in Int /\ x \in Int /\ b + g \in Int
  BY CoinInt
<1>2. /\ Coin(a)
      /\ -Cent <= 2 * (b + g - a) /\ 2 * (b + g - a) <= Cent
      /\ ~Half(g) => -Cent < 2 * (b + g - a) /\ 2 * (b + g - a) < Cent
  <2>1. /\ Coin(a)
        /\ -Cent <= 2 * (b + g - a) /\ 2 * (b + g - a) <= Cent
        /\ ~Half(b + g) => -Cent < 2 * (b + g - a) /\ 2 * (b + g - a) < Cent
    <3> DEFINE y == b + g
    <3>1. y \in Int
      BY <1>1
    <3> HIDE DEF y
    <3>2. LET z == Rounded(y) IN
          /\ Coin(z)
          /\ -Cent <= 2 * (y - z) /\ 2 * (y - z) <= Cent
          /\ ~Half(y) => -Cent < 2 * (y - z) /\ 2 * (y - z) < Cent
      BY <3>1, RoundedIs
    <3>3. Coin(a)
      BY <3>2 DEF y
    <3> HIDE DEF a
    <3>4. a = Rounded(y) /\ a \in Int
      BY <3>3, CoinInt DEF a, y
    <3>5. -Cent <= 2 * (b + g - a) /\ 2 * (b + g - a) <= Cent
      BY <1>1, <3>2, <3>4, Cents DEF y
    <3>6. ~Half(b + g) => -Cent < 2 * (b + g - a) /\ 2 * (b + g - a) < Cent
      BY <1>1, <3>2, <3>4, Cents DEF y
    <3> QED BY <3>3, <3>5, <3>6
  <2>2. Half(b + g) <=> Half(g)
    BY HalfShift
  <2> QED BY <2>1, <2>2
<1>3. Coin(p) /\ -Cent <= 2 * (p - (x - g)) /\ 2 * (p - (x - g)) <= Cent
  BY PreviousNear
<1>4. a \in Int /\ p \in Int
  BY <1>2, <1>3, CoinInt
<1>5. Coin(e)
  BY <1>2, <1>3, CoinSum
<1> HIDE DEF p, a
<1>6. -Cent <= e /\ e <= Cent
  BY <1>1, <1>2, <1>3, <1>4, Cents
<1>7. ASSUME ~Half(g) PROVE e = 0
  <2>1. -Cent < e /\ e < Cent
    BY <1>1, <1>2, <1>3, <1>4, <1>7, Cents
  <2> HIDE DEF e
  <2> QED BY <1>5, <2>1, CoinGap
<1> QED BY <1>6, <1>7 DEF a, p

-----------------------------------------------------------------------------
(***************************************************************************)
(* The budgets of a run, and how they are computed back.                   *)
(***************************************************************************)

Accounts == profit \in ProfitTables /\ initial \in InitialBudgets

LEMMA GainInt ==
  ASSUME Accounts, NEW a \in Agents, NEW i \in 1 .. N
  PROVE  /\ Gain(profit, a, i) \in Int
         /\ cost \in Int => Seen(a, i) \in Int
         /\ cost = 0 => Seen(a, i) = Gain(profit, a, i)
<1>1. profit \in [1 .. N -> [Agents -> Int \cup {NoOffer}]]
  BY WatchAssumption DEF Accounts
<1>2. profit[i] \in [Agents -> Int \cup {NoOffer}]
  BY <1>1
<1>3. profit[i][a] \in Int \cup {NoOffer}
  BY <1>2
<1> QED BY <1>3 DEF Gain, Seen

\* The recursion by which a budget goes from period to period.
LEMMA BudgetSteps ==
  ASSUME Accounts, NEW a \in Agents
  PROVE  /\ \A i \in 0 .. N : Coin(BudgetAfter(a, i))
         /\ \A i \in 1 .. N :
              BudgetAfter(a, i) = Rounded(BudgetAfter(a, i - 1) + Gain(profit, a, i))
<1> DEFINE V == {x \in Int : Coin(x)}
           G(i) == Gain(profit, a, i)
           R == [i \in 1 .. N |-> [y \in V |-> Rounded(y + G(i))]]
           F(g) == [i \in 0 .. N |-> IF i = 0 THEN initial[a] ELSE Rounded(g[i - 1] + G(i))]
           after == CHOOSE g : g = F(g)
<1>1. N \in Nat \ {0}
  BY RunAssumption
<1>2. initial[a] \in V
  <2>1. initial[a] \in Int /\ initial[a] % Cent = 0
    BY WatchAssumption DEF Accounts
  <2>2. Coin(initial[a])
    BY <2>1, Division DEF Rest
  <2> QED BY <2>1, <2>2
<1>3. ASSUME NEW i \in 1 .. N, NEW y \in V PROVE Rounded(y + G(i)) \in V
  <2>1. y + G(i) \in Int
    BY GainInt
  <2>2. Coin(Rounded(y + G(i)))
    BY <2>1, RoundedIs
  <2> QED BY <2>2, CoinInt
<1>4. R \in [1 .. N -> [V -> V]]
  BY <1>3
<1>5. PICK f \in [0 .. N -> V] : f[0] = initial[a] /\ \A i \in 1 .. N : f[i] = R[i][f[i - 1]]
  <2> HIDE DEF V, R
  <2>1. Recursion(N, V, initial[a], R)
    BY <1>1, <1>2, <1>4 DEF Recursion
  <2>2. PICK f : Solution(f, N, V, initial[a], R)
    BY <2>1, Chain
  <2> QED BY <2>2 DEF Solution
<1>6. f = F(f)
  <2>1. ASSUME NEW i \in 1 .. N PROVE f[i] = Rounded(f[i - 1] + G(i))
    <3>1. i - 1 \in 0 .. N
      BY <1>1
    <3>2. f[i - 1] \in V
      BY <3>1
    <3> HIDE DEF V, G
    <3> QED BY <1>5, <3>2 DEF R
  <2> HIDE DEF V, R, G
  <2> QED BY <1>5, <2>1
<1>7. after = F(after)
  <2> HIDE DEF F
  <2> QED BY <1>6
<1>8. \A k \in 0 .. N : BudgetAfter(a, k) = after[k]
  BY DEF BudgetAfter
<1> HIDE DEF after, G, R
<1>9. after[0] = initial[a] /\ \A i \in 1 .. N : after[i] = Rounded(after[i - 1] + G(i))
  BY <1>1, <1>7
<1>10. \A i \in 0 .. N : after[i] \in V
  <2> DEFINE S == {i \in 0 .. N : after[i] \in V}
  <2>1. 0 \in S
    BY <1>1, <1>2, <1>9
  <2>2. ASSUME NEW i \in 0 .. N, i < N, i \in S PROVE i + 1 \in S
    <3>1. i + 1 \in 1 .. N /\ i + 1 - 1 = i
      BY <1>1, <2>2
    <3>2. Rounded(after[i] + G(i + 1)) \in V
      BY <1>3, <2>2, <3>1
    <3> QED BY <1>9, <3>1, <3>2
  <2> HIDE DEF S
  <2>3. \A i \in 0 .. N : i \in S
    BY <1>1, <2>1, <2>2, UpTo
  <2> QED BY <2>3 DEF S
<1>11. \A i \in 0 .. N : Coin(BudgetAfter(a, i))
  BY <1>8, <1>10
<1>12. ASSUME NEW i \in 1 .. N
       PROVE  BudgetAfter(a, i) = Rounded(BudgetAfter(a, i - 1) + Gain(profit, a, i))
  <2>1. i \in 0 .. N /\ i - 1 \in 0 .. N
    BY <1>1
  <2> QED BY <1>8, <1>9, <2>1 DEF G
<1> QED BY <1>11, <1>12

\* The recursion by which the budgets are computed back from the last one.
LEMMA BackSteps ==
  ASSUME Accounts, cost \in Int, NEW a \in Agents, NEW to \in 0 .. N, NEW from \in 0 .. to,
         NEW last, Coin(last)
  PROVE  LET back == reconstruct(a, last, from, to) IN
         /\ back[to] = last
         /\ \A i \in from .. to : Coin(back[i])
         /\ \A i \in from .. to :
              i < to => back[i] = previous_budget(back[i + 1], Seen(a, i + 1))
<1> DEFINE V == {x \in Int : Coin(x)}
           n == to - from
           G(i) == Seen(a, i)
           R == [j \in 1 .. n |-> [y \in V |-> previous_budget(y, G(to - j + 1))]]
           F(g) == [i \in from .. to |->
                      IF i = to THEN last ELSE previous_budget(g[i + 1], G(i + 1))]
           back == CHOOSE g : g = F(g)
<1>1. N \in Nat /\ n \in Nat /\ to \in Nat /\ from \in Nat /\ from <= to /\ to <= N
  BY RunAssumption
<1>2. last \in V
  BY CoinInt
<1>3. ASSUME NEW i \in 1 .. N PROVE G(i) \in Int
  BY GainInt
<1>4. ASSUME NEW i \in 1 .. N, NEW y \in V PROVE previous_budget(y, G(i)) \in V
  <2>1. Coin(previous_budget(y, G(i)))
    BY <1>3, PreviousNear
  <2> QED BY <2>1, CoinInt
<1>5. ASSUME NEW j \in 1 .. n
      PROVE  to - j + 1 \in 1 .. N /\ to - j \in from .. to /\ to - j # to
  BY <1>1
<1>6. R \in [1 .. n -> [V -> V]]
  BY <1>4, <1>5
<1>7. PICK f : Solution(f, n, V, last, R)
  <2>1. Recursion(n, V, last, R)
    BY <1>1, <1>2, <1>6 DEF Recursion
  <2> HIDE DEF V, R, n
  <2> QED BY <2>1, Chain
<1> DEFINE h == [i \in from .. to |-> f[to - i]]
<1>8. h = F(h)
  <2>1. ASSUME NEW i \in from .. to, i # to
        PROVE  f[to - i] = previous_budget(f[to - (i + 1)], G(i + 1))
    <3> DEFINE j == to - i
    <3>1. j \in 1 .. n /\ j - 1 \in 0 .. n /\ to - (i + 1) = j - 1 /\ to - j + 1 = i + 1
      BY <1>1, <2>1
    <3> HIDE DEF j
    <3>2. f[j - 1] \in V /\ f[j] = R[j][f[j - 1]]
      BY <1>7, <3>1 DEF Solution
    <3>3. f[j] = previous_budget(f[j - 1], G(to - j + 1))
      <4> HIDE DEF V, G, n
      <4> QED BY <3>1, <3>2 DEF R
    <3> QED BY <3>1, <3>3 DEF j
  <2>2. ASSUME NEW i \in from .. to, i # to PROVE i + 1 \in from .. to
    BY <1>1, <2>2
  <2>3. f[to - to] = last
    BY <1>1, <1>7 DEF Solution
  <2> HIDE DEF V, R, G
  <2> QED BY <2>1, <2>2, <2>3
<1>9. back = F(back)
  <2> HIDE DEF F
  <2> QED BY <1>8
<1>10. reconstruct(a, last, from, to) = back
  BY DEF reconstruct
<1> HIDE DEF back, R, h
<1>11. \A i \in from .. to :
         back[i] = IF i = to THEN last ELSE previous_budget(back[i + 1], G(i + 1))
  <2> HIDE DEF G
  <2> QED BY <1>9
<1>12. \A i \in from .. to : back[i] \in V
  <2> DEFINE S == {j \in 0 .. n : back[to - j] \in V}
  <2>1. 0 \in S
    <3>1. to - 0 = to /\ to \in from .. to /\ 0 \in 0 .. n
      BY <1>1
    <3>2. back[to] = last
      BY <1>11, <3>1
    <3> QED BY <1>2, <3>1, <3>2
  <2>2. ASSUME NEW j \in 0 .. n, j < n, j \in S PROVE j + 1 \in S
    <3> DEFINE i == to - (j + 1)
    <3>1. i \in from .. to /\ i # to /\ i + 1 = to - j /\ i + 1 \in 1 .. N /\ j + 1 \in 0 .. n
      BY <1>1, <2>2
    <3> HIDE DEF i
    <3>2. back[i] = previous_budget(back[i + 1], G(i + 1))
      BY <1>11, <3>1
    <3>3. back[i + 1] \in V
      BY <2>2, <3>1
    <3>4. back[i] \in V
      <4> HIDE DEF V, G
      <4> QED BY <1>4, <3>1, <3>2, <3>3
    <3> QED BY <3>1, <3>4 DEF i
  <2> HIDE DEF S
  <2>3. \A j \in 0 .. n : j \in S
    BY <1>1, <2>1, <2>2, UpTo
  <2>4. ASSUME NEW i \in from .. to PROVE back[i] \in V
    <3>1. to - i \in 0 .. n /\ to - (to - i) = i
      BY <1>1
    <3>2. back[to - (to - i)] \in V
      BY <2>3, <3>1 DEF S
    <3> QED BY <3>1, <3>2
  <2> QED BY <2>4
<1>13. back[to] = last
  BY <1>1, <1>11
<1>14. ASSUME NEW i \in from .. to, i < to
       PROVE  back[i] = previous_budget(back[i + 1], Seen(a, i + 1))
  <2>1. i # to
    BY <1>1, <1>14
  <2> QED BY <1>11, <2>1
<1> QED BY <1>10, <1>12, <1>13, <1>14

\* The periods whose profits tie.
Tied(a, from, to) == {i \in from .. to : 2 * (Gain(profit, a, i) % Cent) = Cent}

LEMMA TiesCount ==
  ASSUME NEW a \in Agents, NEW to \in Nat, NEW i \in 0 .. to
  PROVE  /\ Ties(a, i + 1, to) \in Nat
         /\ i = to => Ties(a, i + 1, to) = 0
         /\ i < to => Ties(a, i + 1, to) =
              Ties(a, i + 2, to) + IF Half(Gain(profit, a, i + 1)) THEN 1 ELSE 0
<1> DEFINE S == Tied(a, i + 1, to)
           T == Tied(a, i + 2, to)
<1>1. Ties(a, i + 1, to) = Cardinality(S) /\ Ties(a, i + 2, to) = Cardinality(T)
  BY DEF Ties, Tied
<1>2. IsFiniteSet(S) /\ IsFiniteSet(T)
  <2>1. IsFiniteSet(i + 1 .. to) /\ IsFiniteSet(i + 2 .. to)
    BY FS_Interval
  <2>2. S \in SUBSET (i + 1 .. to) /\ T \in SUBSET (i + 2 .. to)
    BY DEF Tied
  <2> HIDE DEF S, T
  <2> QED BY <2>1, <2>2, FS_Subset
<1>3. i = to => S = {}
  BY DEF Tied
<1>4. i < to => /\ i + 1 \notin T
                /\ S = IF Half(Gain(profit, a, i + 1)) THEN T \cup {i + 1} ELSE T
  <2>1. i < to => i + 1 .. to = {i + 1} \cup (i + 2 .. to) /\ i + 1 \notin i + 2 .. to
    OBVIOUS
  <2>2. \A k : Half(Gain(profit, a, k)) <=> 2 * (Gain(profit, a, k) % Cent) = Cent
    BY DEF Half, Rest
  <2> DEFINE P(k) == 2 * (Gain(profit, a, k) % Cent) = Cent
  <2>3. S = {k \in i + 1 .. to : P(k)} /\ T = {k \in i + 2 .. to : P(k)}
    BY DEF Tied
  <2>4. Half(Gain(profit, a, i + 1)) <=> P(i + 1)
    BY <2>2
  <2> HIDE DEF P, S, T
  <2> QED BY <2>1, <2>3, <2>4
<1> HIDE DEF S, T
<1>5. Cardinality(S) \in Nat /\ Cardinality(T) \in Nat
  BY <1>2, FS_CardinalityType
<1>6. i = to => Cardinality(S) = 0
  BY <1>3, FS_EmptySet
<1>7. i + 1 \notin T => Cardinality(T \cup {i + 1}) = Cardinality(T) + 1
  BY <1>2, FS_AddElement
<1> QED BY <1>1, <1>4, <1>5, <1>6, <1>7

\* More later periods, more ties.
LEMMA TiesGrow ==
  ASSUME NEW a \in Agents, NEW to \in Nat, NEW more \in Nat, to <= more, NEW i \in Nat
  PROVE  Ties(a, i + 1, to) <= Ties(a, i + 1, more)
<1> DEFINE S == Tied(a, i + 1, more)
           T == Tied(a, i + 1, to)
<1>1. Ties(a, i + 1, more) = Cardinality(S) /\ Ties(a, i + 1, to) = Cardinality(T)
  BY DEF Ties, Tied
<1>2. IsFiniteSet(S)
  <2>1. IsFiniteSet(i + 1 .. more)
    BY FS_Interval
  <2>2. S \in SUBSET (i + 1 .. more)
    BY DEF Tied
  <2> HIDE DEF S
  <2> QED BY <2>1, <2>2, FS_Subset
<1>3. T \in SUBSET S
  BY DEF Tied
<1> HIDE DEF S, T
<1> QED BY <1>1, <1>2, <1>3, FS_Subset

\* What a budget computed back may differ from the budget there was.
Within(x, b, ties) == x \in Int /\ b \in Int /\ ties \in Nat
                      /\ x - b <= Cent * ties /\ b - x <= Cent * ties

LEMMA WithinAbs ==
  ASSUME NEW x, NEW b, NEW ties, Within(x, b, ties)
  PROVE  Abs(x - b) <= Cent * ties
<1>1. Cent * ties \in Nat
  BY Cents DEF Within
<1> DEFINE m == Cent * ties
<1>2. m \in Nat /\ x \in Int /\ b \in Int /\ x - b <= m /\ b - x <= m
  BY <1>1 DEF Within
<1> HIDE DEF m
<1>3. Abs(x - b) <= m
  BY <1>2 DEF Abs
<1> QED BY <1>3 DEF m

LEMMA WithinMore ==
  ASSUME NEW x, NEW b, NEW ties, Within(x, b, ties), NEW more \in Nat, ties <= more
  PROVE  Within(x, b, more)
<1>1. more - ties \in Nat /\ ties \in Nat
  BY DEF Within
<1>2. Cent * (more - ties) \in Nat /\ Cent * ties \in Nat
      /\ Cent * more = Cent * ties + Cent * (more - ties)
  BY <1>1, Cents
<1> DEFINE m == Cent * ties
           k == Cent * (more - ties)
           l == Cent * more
<1>3. m \in Nat /\ k \in Nat /\ l = m + k
  BY <1>2
<1>4. x \in Int /\ b \in Int /\ x - b <= m /\ b - x <= m
  BY DEF Within
<1> HIDE DEF m, k, l
<1>5. x - b <= l /\ b - x <= l
  BY <1>3, <1>4
<1> QED BY <1>4, <1>5 DEF Within, l

\* One step back from x, where the budget was b and then a.
LEMMA WithinBack ==
  ASSUME NEW b, Coin(b), NEW x, Coin(x), NEW g \in Int, NEW ties,
         Within(x, Rounded(b + g), ties)
  PROVE  Within(previous_budget(x, g), b, ties + IF Half(g) THEN 1 ELSE 0)
<1> DEFINE p == previous_budget(x, g)
           a == Rounded(b + g)
           more == ties + IF Half(g) THEN 1 ELSE 0
           m == Cent * ties
           l == Cent * more
<1>1. b \in Int /\ x \in Int /\ b + g \in Int
  BY CoinInt
<1>2. p \in Int /\ a \in Int
  <2>1. Coin(p) /\ Coin(a)
    BY <1>1, PreviousNear, RoundedIs
  <2> QED BY <2>1, CoinInt
<1>3. /\ -Cent <= p - b - (x - a) /\ p - b - (x - a) <= Cent
      /\ ~Half(g) => p - b - (x - a) = 0
  BY OneBack
<1>4. ties \in Nat /\ more \in Nat /\ m \in Nat /\ x - a <= m /\ a - x <= m
  BY Cents DEF Within
<1>5. l = IF Half(g) THEN m + Cent ELSE m
  <2>1. Cent * (ties + 1) = Cent * ties + Cent /\ ties + 0 = ties
    BY <1>4, Cents
  <2> QED BY <2>1
<1> HIDE DEF p, a, m, l
<1>6. p - b <= l /\ b - p <= l
  BY <1>1, <1>2, <1>3, <1>4, <1>5, Cents
<1> QED BY <1>1, <1>2, <1>4, <1>6 DEF Within, p, l

\* The budgets computed back from a budget there was.
LEMMA BackIsTrue ==
  ASSUME Accounts, cost = 0, NEW a \in Agents, NEW to \in 0 .. N, NEW from \in 0 .. to,
         NEW i \in from .. to
  PROVE  Within(reconstruct(a, BudgetAfter(a, to), from, to)[i], BudgetAfter(a, i),
                Ties(a, i + 1, to))
<1> DEFINE last == BudgetAfter(a, to)
           back == reconstruct(a, last, from, to)
           n == to - from
           G(k) == Gain(profit, a, k)
           B(k) == BudgetAfter(a, k)
           T(k) == Ties(a, k + 1, to)
<1>1. N \in Nat /\ to \in Nat /\ from \in Nat /\ n \in Nat /\ to <= N /\ from <= to
  BY RunAssumption
<1>2. /\ \A k \in 0 .. N : Coin(B(k))
      /\ \A k \in 1 .. N : B(k) = Rounded(B(k - 1) + G(k))
  BY BudgetSteps
<1>3. /\ back[to] = last
      /\ \A k \in from .. to : Coin(back[k])
      /\ \A k \in from .. to : k < to => back[k] = previous_budget(back[k + 1], G(k + 1))
  <2>1. Coin(last)
    BY <1>2
  <2>2. \A k \in from .. to : k < to => Seen(a, k + 1) = G(k + 1)
    <3>1. \A k \in from .. to : k < to => k + 1 \in 1 .. N
      BY <1>1
    <3> QED BY <3>1, GainInt
  <2> HIDE DEF last, G
  <2>3. /\ back[to] = last
        /\ \A k \in from .. to : Coin(back[k])
        /\ \A k \in from .. to : k < to => back[k] = previous_budget(back[k + 1], Seen(a, k + 1))
    BY <2>1, BackSteps
  <2> QED BY <2>2, <2>3
<1>4. \A k \in from .. to :
         /\ T(k) \in Nat
         /\ k < to => T(k) = T(k + 1) + IF Half(G(k + 1)) THEN 1 ELSE 0
  <2> SUFFICES ASSUME NEW k \in from .. to
               PROVE  /\ T(k) \in Nat
                      /\ k < to => T(k) = T(k + 1) + IF Half(G(k + 1)) THEN 1 ELSE 0
    OBVIOUS
  <2>1. k \in 0 .. to /\ k + 1 + 1 = k + 2
    BY <1>1
  <2> QED BY <1>1, <2>1, TiesCount
<1> DEFINE S == {j \in 0 .. n : Within(back[to - j], B(to - j), T(to - j))}
<1> HIDE DEF back
<1>5. 0 \in S
  <2>1. to - 0 = to /\ 0 \in 0 .. n /\ to \in from .. to /\ to \in 0 .. N
    BY <1>1
  <2>2. back[to] = B(to) /\ B(to) \in Int /\ T(to) \in Nat
    BY <1>2, <1>3, <1>4, <2>1, CoinInt
  <2> DEFINE b == B(to)
             k == T(to)
  <2>3. Within(b, b, k)
    <3>1. b \in Int /\ k \in Nat
      BY <2>2
    <3> HIDE DEF b, k
    <3>2. Cent * k \in Nat
      BY <3>1, Cents
    <3> QED BY <3>1, <3>2 DEF Within
  <2> QED BY <2>1, <2>2, <2>3
<1>6. ASSUME NEW j \in 0 .. n, j < n, j \in S PROVE j + 1 \in S
  <2> DEFINE k == to - (j + 1)
  <2>1. /\ k \in from .. to /\ k < to /\ k \in 0 .. N /\ k + 1 = to - j /\ k + 1 \in from .. to
        /\ k + 1 \in 1 .. N /\ k + 1 - 1 = k /\ j + 1 \in 0 .. n
    BY <1>1, <1>6
  <2>2. Within(back[k + 1], B(k + 1), T(k + 1))
    BY <1>6, <2>1
  <2> HIDE DEF k, S
  <2>3. B(k + 1) = Rounded(B(k) + G(k + 1)) /\ Coin(B(k)) /\ Coin(back[k + 1])
        /\ G(k + 1) \in Int
    BY <1>2, <1>3, <2>1, GainInt
  <2>4. back[k] = previous_budget(back[k + 1], G(k + 1))
        /\ T(k) = T(k + 1) + IF Half(G(k + 1)) THEN 1 ELSE 0
    BY <1>3, <1>4, <2>1
  <2> HIDE DEF B, T, G
  <2>5. Within(back[k], B(k), T(k))
    BY <2>2, <2>3, <2>4, WithinBack
  <2> QED BY <2>1, <2>5 DEF S, k
<1> HIDE DEF S
<1>7. \A j \in 0 .. n : j \in S
  BY <1>1, <1>5, <1>6, UpTo
<1>8. to - i \in 0 .. n /\ to - (to - i) = i
  BY <1>1
<1>9. to - i \in S
  BY <1>7, <1>8
<1>10. Within(back[i], B(i), T(i))
  <2> HIDE DEF B, T, n
  <2> QED BY <1>8, <1>9 DEF S
<1> QED BY <1>10 DEF back

\* The budgets of a run do not change.
LEMMA SameBudgets ==
  ASSUME UNCHANGED <<profit, initial>>, NEW a, NEW k, NEW from, NEW to
  PROVE  /\ BudgetAfter(a, k)' = BudgetAfter(a, k)
         /\ Ties(a, from, to)' = Ties(a, from, to)
<1>1. profit' = profit /\ initial' = initial
  OBVIOUS
<1>2. BudgetAfter(a, k)' = BudgetAfter(a, k)
  BY <1>1, Zenon DEF BudgetAfter
<1>3. Ties(a, from, to)' = Ties(a, from, to)
  BY <1>1 DEF Ties
<1> QED BY <1>2, <1>3

LEMMA RunGrows ==
  ASSUME IInv, [Next]_vars, exists'
  PROVE  exists /\ periods \subseteq periods'
<1>1. CASE UNCHANGED vars
  BY <1>1 DEF vars, rows
<1>2. CASE Next
  BY <1>2 DEF rows, Next, RunStep, Start, StartFails, Check, Build, WarmStart, Initialize,
           InitializeMarket, Wait, Begin, RunPeriod, After, Export, Finish, SaveCheckpoints,
           CheckpointsFail, MarkFailed, Fail, Kill, ReadMarket, SaveMarket, Delete, SaveFields
<1> QED BY <1>1, <1>2

LEMMA LastOf ==
  ASSUME NEW k \in Nat
  PROVE  Last(1 .. k) = k
<1>1. CASE k = 0
  BY <1>1 DEF Last
<1>2. CASE k # 0
  <2>1. k \in 1 .. k /\ \A j \in 1 .. k : k >= j
    BY <1>2
  <2>2. \A m \in 1 .. k : (\A j \in 1 .. k : m >= j) => m = k
    BY <2>1
  <2>3. Max(1 .. k) = k
    BY <2>1, <2>2 DEF Max
  <2> QED BY <2>1, <2>3 DEF Last
<1> QED BY <1>1, <1>2

LEMMA StoredUpTo ==
  ASSUME IInv, exists
  PROVE  \E k \in 0 .. N : /\ periods = 1 .. k /\ budget = 1 .. k
                           /\ Last(periods) = k /\ Last(budget) = k
<1>1. PICK k \in 0 .. N : periods = 1 .. k /\ budget = periods
  BY DEF IInv, Stored, Through
<1>2. k \in Nat
  BY RunAssumption
<1> QED BY <1>1, <1>2, LastOf

LEMMA RoundedCoin ==
  ASSUME NEW x, Coin(x)
  PROVE  Rounded(x) = x
<1> DEFINE y == Rounded(x)
<1>1. x \in Int
  BY CoinInt
<1>2. Coin(y) /\ -Cent <= 2 * (x - y) /\ 2 * (x - y) <= Cent
  BY <1>1, RoundedIs
<1>3. y \in Int /\ Coin(x - y)
  BY <1>2, CoinInt, CoinSum
<1> HIDE DEF y
<1> DEFINE z == x - y
<1>4. z < Cent /\ -Cent < z /\ Coin(z)
  BY <1>1, <1>2, <1>3, Cents
<1> HIDE DEF z
<1>5. z = 0
  BY <1>4, CoinGap
<1> QED BY <1>1, <1>3, <1>5 DEF y, z

\* A budget stands still while there is no offer.
LEMMA NoOffers ==
  ASSUME Accounts, NEW a \in Agents, NEW to \in 0 .. N, NEW k \in 0 .. to,
         \A i \in k + 1 .. to : profit[i][a] = NoOffer
  PROVE  BudgetAfter(a, k) = BudgetAfter(a, to)
<1> DEFINE n == to - k
           B(i) == BudgetAfter(a, i)
           S == {j \in 0 .. n : B(k + j) = B(k)}
<1>1. N \in Nat /\ to \in Nat /\ k \in Nat /\ n \in Nat /\ to <= N /\ k + n = to
  BY RunAssumption
<1>2. \A i \in 0 .. N : Coin(B(i))
  BY BudgetSteps
<1>3. \A i \in 1 .. N : B(i) = Rounded(B(i - 1) + Gain(profit, a, i))
  BY BudgetSteps
<1>4. \A i \in k + 1 .. to : Gain(profit, a, i) = 0
  BY DEF Gain
<1> HIDE DEF B
<1>5. 0 \in S
  BY <1>1
<1>6. ASSUME NEW j \in 0 .. n, j < n, j \in S PROVE j + 1 \in S
  <2> DEFINE i == k + (j + 1)
  <2>1. i \in k + 1 .. to /\ i \in 1 .. N /\ i - 1 = k + j /\ k + j \in 0 .. N /\ j + 1 \in 0 .. n
    BY <1>1, <1>6
  <2> HIDE DEF i
  <2>2. B(i) = Rounded(B(i - 1) + 0)
    BY <1>3, <1>4, <2>1
  <2>3. Coin(B(i - 1)) /\ B(i - 1) \in Int
    BY <1>2, <2>1, CoinInt
  <2>4. B(i) = B(i - 1)
    BY <2>2, <2>3, RoundedCoin
  <2> QED BY <1>6, <2>1, <2>4 DEF i
<1> HIDE DEF S
<1>7. \A j \in 0 .. n : j \in S
  BY <1>1, <1>5, <1>6, UpTo
<1>8. n \in S
  BY <1>1, <1>7
<1> QED BY <1>1, <1>8 DEF S, B
-----------------------------------------------------------------------------
(***************************************************************************)
(* What holds of the page, whatever step the run or the page takes. The    *)
(* budgets that a request has read are those after some period k that is   *)
(* not plotted yet or is the last that is.                                 *)
(***************************************************************************)

Budgets == [a \in Agents |-> [i \in 0 .. N |-> BudgetAfter(a, i)]]
TieCounts == [a \in Agents |-> [i \in 0 .. N |-> [j \in 0 .. N |-> Ties(a, i + 1, j)]]]

TrueTo(points, budgets, ties) ==
  \A i \in 1 .. Len(points) : \A a \in Agents :
    Within(points[i][a], budgets[a][i], ties[a][i][Len(points)])

Plotted ==
  /\ chart \in Seq([Agents -> Int]) /\ Len(chart) <= N
  /\ exists => Len(chart) <= Last(periods)
  /\ cost = 0 => TrueTo(chart, Budgets, TieCounts)

Anchored ==
  poll.at = "offers" =>
    \E k \in Len(chart) .. N :
      /\ poll.budget = [a \in Agents |-> Budgets[a][k]]
      /\ exists => k <= Last(periods)

PageInv == Accounts /\ cost \in Int /\ Plotted /\ Anchored

LEMMA KeepsAccounts ==
  ASSUME UNCHANGED <<profit, initial>>, Accounts
  PROVE  Accounts' /\ Budgets' = Budgets /\ TieCounts' = TieCounts
<1>1. Accounts'
  BY DEF Accounts
<1>2. ASSUME NEW a \in Agents, NEW i \in 0 .. N PROVE BudgetAfter(a, i)' = BudgetAfter(a, i)
  BY SameBudgets
<1>3. ASSUME NEW a, NEW i, NEW j PROVE Ties(a, i, j)' = Ties(a, i, j)
  BY SameBudgets
<1>4. Budgets' = Budgets
  BY <1>2 DEF Budgets
<1>5. TieCounts' = TieCounts
  BY <1>3 DEF TieCounts
<1> QED BY <1>1, <1>4, <1>5

\* Steps that plot nothing.
LEMMA KeepsPoints ==
  ASSUME PageInv, UNCHANGED <<profit, initial, chart>>, cost' = 0 => cost = 0,
         exists' => exists /\ Last(periods) <= Last(periods'),
         Last(periods) \in Int, Last(periods') \in Int
  PROVE  Plotted'
<1>1. Budgets' = Budgets /\ TieCounts' = TieCounts
  BY KeepsAccounts DEF PageInv
<1>2. /\ chart \in Seq([Agents -> Int]) /\ Len(chart) \in Nat /\ Len(chart) <= N
      /\ exists => Len(chart) <= Last(periods)
      /\ cost = 0 => TrueTo(chart, Budgets, TieCounts)
  BY DEF PageInv, Plotted
<1>3. exists' => Len(chart) <= Last(periods')
  BY <1>2
<1> QED BY <1>1, <1>2, <1>3 DEF Plotted

LEMMA KeepsAnchor ==
  ASSUME PageInv, UNCHANGED <<profit, initial, chart>>,
         exists' => exists /\ Last(periods) <= Last(periods'),
         Last(periods) \in Int, Last(periods') \in Int,
         poll' = poll \/ poll'.at # "offers"
  PROVE  Anchored'
<1>1. Budgets' = Budgets
  BY KeepsAccounts DEF PageInv
<1>2. SUFFICES ASSUME poll' = poll, poll.at = "offers"
               PROVE  \E k \in Len(chart) .. N :
                        /\ poll.budget = [a \in Agents |-> Budgets[a][k]]
                        /\ exists' => k <= Last(periods')
  BY <1>1 DEF Anchored
<1>3. PICK k \in Len(chart) .. N :
        /\ poll.budget = [a \in Agents |-> Budgets[a][k]]
        /\ exists => k <= Last(periods)
  BY <1>2 DEF PageInv, Anchored
<1>4. k \in Int /\ (exists' => k <= Last(periods'))
  BY <1>3, RunAssumption DEF PageInv, Plotted
<1> QED BY <1>3, <1>4

\* Whatever the budget was that a live request starts from, the agents without
\* an offer since have it still.
LEMMA AnchorIs ==
  ASSUME IInv, PageInv, poll.at = "offers", Last(periods) > Len(chart), NEW a \in Agents
  PROVE  /\ exists /\ Last(periods) \in 0 .. N
         /\ Anchor(a, Len(chart), Last(periods)) = BudgetAfter(a, Last(periods))
<1> DEFINE to == Last(periods)
           after == Len(chart)
<1>1. N \in Nat /\ after \in Nat
  BY RunAssumption DEF PageInv, Plotted
<1>2. exists
  <2>1. Last({}) = 0
    BY DEF Last
  <2>2. ~exists => periods = {}
    BY DEF IInv
  <2>3. to # 0
    BY <1>1
  <2> QED BY <2>1, <2>2, <2>3
<1>3. to \in 0 .. N
  BY <1>2, StoredUpTo
<1>4. PICK k \in after .. N : poll.budget = [b \in Agents |-> Budgets[b][k]] /\ k <= to
  BY <1>2 DEF PageInv, Anchored
<1>5. k \in 0 .. to /\ poll.budget[a] = BudgetAfter(a, k)
  <2>1. k \in 0 .. to /\ k \in 0 .. N
    BY <1>1, <1>3, <1>4
  <2> QED BY <1>4, <2>1 DEF Budgets
<1> HIDE DEF to, after
<1>6. CASE \E i \in after + 1 .. to : profit[i][a] # NoOffer
  BY <1>2, <1>3, <1>6 DEF Anchor, to, after
<1>7. CASE \A i \in after + 1 .. to : profit[i][a] = NoOffer
  <2>1. \A i \in k + 1 .. to : i \in after + 1 .. to
    BY <1>1, <1>3, <1>4
  <2>2. BudgetAfter(a, k) = BudgetAfter(a, to)
    BY <1>3, <1>5, <1>7, <2>1, NoOffers DEF PageInv
  <2>3. Anchor(a, after, to) = poll.budget[a]
    BY <1>7 DEF Anchor
  <2> QED BY <1>2, <1>3, <1>5, <2>2, <2>3 DEF to, after
<1> QED BY <1>6, <1>7

\* Points that are appended from a budget there was.
LEMMA Appended ==
  ASSUME Accounts, cost \in Int, NEW points \in Seq([Agents -> Int]), NEW to \in 0 .. N,
         Len(points) < to, cost = 0 => TrueTo(points, Budgets, TieCounts)
  PROVE  LET after == Len(points)
             back  == [a \in Agents |-> reconstruct(a, BudgetAfter(a, to), after, to)]
             more  == points \o [i \in 1 .. to - after |-> [a \in Agents |-> back[a][after + i]]]
         IN  /\ more \in Seq([Agents -> Int]) /\ Len(more) = to
             /\ cost = 0 => TrueTo(more, Budgets, TieCounts)
<1> DEFINE after == Len(points)
           back == [a \in Agents |-> reconstruct(a, BudgetAfter(a, to), after, to)]
           new == [i \in 1 .. to - after |-> [a \in Agents |-> back[a][after + i]]]
           more == points \o new
<1>1. N \in Nat /\ to \in Nat /\ to <= N /\ after \in Nat /\ after < to
  BY RunAssumption
<1>2. ASSUME NEW a \in Agents, NEW i \in after .. to PROVE back[a][i] \in Int
  <2> DEFINE last == BudgetAfter(a, to)
  <2>1. Coin(last)
    BY BudgetSteps
  <2>2. after \in 0 .. to
    BY <1>1
  <2> HIDE DEF last, after
  <2>3. Coin(reconstruct(a, last, after, to)[i])
    BY <2>1, <2>2, BackSteps
  <2>4. reconstruct(a, last, after, to)[i] \in Int
    BY <2>3, CoinInt
  <2> QED BY <2>4 DEF last
<1>3. ASSUME cost = 0, NEW a \in Agents, NEW i \in after .. to
      PROVE  Within(back[a][i], BudgetAfter(a, i), Ties(a, i + 1, to))
  <2>1. after \in 0 .. to
    BY <1>1
  <2> HIDE DEF after
  <2> QED BY <1>3, <2>1, BackIsTrue
<1> HIDE DEF back
<1>4. new \in Seq([Agents -> Int]) /\ Len(new) = to - after
  <2>1. ASSUME NEW i \in 1 .. to - after
        PROVE  [a \in Agents |-> back[a][after + i]] \in [Agents -> Int]
    <3>1. after + i \in after .. to
      BY <1>1
    <3> QED BY <1>2, <3>1
  <2> DEFINE X == [Agents -> Int]
             m == to - after
             P(i) == [a \in Agents |-> back[a][after + i]]
  <2>2. m \in Nat
    BY <1>1
  <2>3. ASSUME NEW i \in 1 .. m PROVE P(i) \in X
    BY <2>1
  <2>4. new = [i \in 1 .. m |-> P(i)]
    OBVIOUS
  <2> HIDE DEF new, X, m, P
  <2>5. new \in Seq(X) /\ Len(new) = m
    BY <2>2, <2>3, <2>4
  <2> QED BY <2>5 DEF X, m
<1>5. /\ more \in Seq([Agents -> Int]) /\ Len(more) = to
      /\ \A i \in 1 .. after : more[i] = points[i]
      /\ \A i \in after + 1 .. to : more[i] = new[i - after]
  <2> HIDE DEF new
  <2> QED BY <1>1, <1>4
<1>6. ASSUME cost = 0, NEW i \in 1 .. to, NEW a \in Agents
      PROVE  Within(more[i][a], Budgets[a][i], TieCounts[a][i][to])
  <2>1. /\ i \in 0 .. N /\ Budgets[a][i] = BudgetAfter(a, i)
        /\ \A j \in 0 .. N : TieCounts[a][i][j] = Ties(a, i + 1, j)
    BY <1>1 DEF Budgets, TieCounts
  <2>2. CASE i \in 1 .. after
    <3>1. Within(points[i][a], Budgets[a][i], TieCounts[a][i][after])
      BY <1>6, <2>2 DEF TrueTo
    <3>2. after \in 0 .. N /\ to \in 0 .. N
      BY <1>1
    <3>3. Ties(a, i + 1, after) <= Ties(a, i + 1, to) /\ Ties(a, i + 1, to) \in Nat
      <4>1. i \in 0 .. to
        BY <1>1
      <4>2. Ties(a, i + 1, to) \in Nat
        BY <1>1, <4>1, TiesCount
      <4>3. Ties(a, i + 1, after) <= Ties(a, i + 1, to)
        BY <1>1, TiesGrow
      <4> QED BY <4>2, <4>3
    <3>4. Within(points[i][a], BudgetAfter(a, i), Ties(a, i + 1, after))
      BY <2>1, <3>1, <3>2
    <3>5. Within(points[i][a], BudgetAfter(a, i), Ties(a, i + 1, to))
      BY <3>3, <3>4, WithinMore
    <3> QED BY <1>5, <2>1, <2>2, <3>2, <3>5
  <2>3. CASE i \notin 1 .. after
    <3>1. i \in after + 1 .. to /\ i \in after .. to /\ i - after \in 1 .. to - after
          /\ after + (i - after) = i /\ to \in 0 .. N
      BY <1>1, <2>3
    <3>2. new[i - after][a] = back[a][i]
      BY <3>1
    <3>3. more[i][a] = back[a][i]
      BY <1>5, <3>1, <3>2
    <3> HIDE DEF more, new, after
    <3> QED BY <1>3, <1>6, <2>1, <3>1, <3>3
  <2> QED BY <2>2, <2>3
<1>7. cost = 0 => TrueTo(more, Budgets, TieCounts)
  <2> HIDE DEF more
  <2> QED BY <1>5, <1>6 DEF TrueTo
<1> QED BY <1>5, <1>7 DEF back

\* New points are plotted.
LEMMA LiveKeeps ==
  ASSUME IInv, PageInv, LiveOffers
  PROVE  PageInv'
<1> DEFINE to == Last(periods)
           after == Len(chart)
           back == [a \in Agents |-> reconstruct(a, Anchor(a, after, to), after, to)]
           new == [i \in 1 .. to - after |-> [a \in Agents |-> back[a][after + i]]]
<1>1. /\ UNCHANGED <<exists, periods, profit, initial, cost>>
      /\ poll.at = "offers"
      /\ chart' = IF to <= after THEN chart ELSE chart \o new
      /\ poll' = Done(poll.final, FALSE)
  BY DEF LiveOffers, RunGoesOn, vars, rows
<1>2. Anchored'
  BY <1>1 DEF Anchored, Done, Idle, Stopped
<1>3. Accounts' /\ Budgets' = Budgets /\ TieCounts' = TieCounts /\ cost' \in Int
  BY <1>1, KeepsAccounts DEF PageInv
<1>4. /\ Accounts /\ cost \in Int /\ chart \in Seq([Agents -> Int]) /\ after \in Nat /\ after <= N
      /\ cost = 0 => TrueTo(chart, Budgets, TieCounts)
      /\ exists => after <= to
      /\ N \in Nat
  BY RunAssumption DEF PageInv, Plotted
<1>5. CASE to <= after
  <2>1. chart' = chart
    BY <1>1, <1>5
  <2> QED BY <1>1, <1>2, <1>3, <1>4, <2>1 DEF PageInv, Plotted
<1>6. CASE ~(to <= after)
  <2>1. to \in Nat
    <3>1. CASE exists
      BY <3>1, StoredUpTo
    <3>2. CASE ~exists
      BY <3>2 DEF IInv, Last
    <3> QED BY <3>1, <3>2
  <2>2. to > after
    BY <1>4, <1>6, <2>1
  <2>3. exists /\ to \in 0 .. N
    <3>1. exists
      <4>1. ~exists => periods = {}
        BY DEF IInv
      <4> QED BY <1>4, <2>2, <4>1 DEF Last
    <3> QED BY <3>1, StoredUpTo
  <2>4. \A a \in Agents : Anchor(a, after, to) = BudgetAfter(a, to)
    BY <1>1, <2>2, AnchorIs
  <2> DEFINE backNow == [a \in Agents |-> reconstruct(a, BudgetAfter(a, to), after, to)]
             newNow == [i \in 1 .. to - after |-> [a \in Agents |-> backNow[a][after + i]]]
             more == chart \o newNow
  <2>5. back = backNow
    BY <2>4
  <2>6. chart' = more
    BY <1>1, <1>6, <2>5
  <2>7. /\ more \in Seq([Agents -> Int]) /\ Len(more) = to
        /\ cost = 0 => TrueTo(more, Budgets, TieCounts)
    <3> HIDE DEF to
    <3>1. Len(chart) < to
      BY <1>4, <2>1, <2>2
    <3> QED BY <1>4, <2>3, <3>1, Appended
  <2> HIDE DEF more
  <2>8. Last(periods') = to
    BY <1>1
  <2>9. Plotted'
    <3> HIDE DEF to
    <3>1. chart' \in Seq([Agents -> Int]) /\ Len(chart') = to
      BY <2>6, <2>7
    <3>2. cost' = 0 => TrueTo(chart', Budgets', TieCounts')
      BY <1>1, <1>3, <2>6, <2>7
    <3>3. Len(chart') <= N /\ Len(chart') <= Last(periods')
      BY <1>4, <2>3, <2>8, <3>1
    <3> QED BY <3>1, <3>2, <3>3 DEF Plotted
  <2> QED BY <1>2, <1>3, <2>9 DEF PageInv
<1> QED BY <1>5, <1>6

\* The periods of a run only grow.
LEMMA LastGrows ==
  ASSUME IInv, IInv', [Next]_vars
  PROVE  /\ exists' => exists /\ Last(periods) <= Last(periods')
         /\ Last(periods) \in Int /\ Last(periods') \in Int
<1>1. /\ exists => \E k \in 0 .. N : periods = 1 .. k
      /\ ~exists => periods = {}
  BY DEF IInv, Stored, Through
<1>2. /\ exists' => \E k \in 0 .. N : periods' = 1 .. k
      /\ ~exists' => periods' = {}
  BY DEF IInv, Stored, Through
<1>3. Last({}) = 0 /\ \A k \in 0 .. N : k \in Nat /\ Last(1 .. k) = k
  <2>1. Last({}) = 0
    BY DEF Last
  <2>2. ASSUME NEW k \in 0 .. N PROVE k \in Nat /\ Last(1 .. k) = k
    <3>1. k \in Nat
      BY RunAssumption
    <3> QED BY <3>1, LastOf
  <2> QED BY <2>1, <2>2
<1>4. Last(periods) \in Int /\ Last(periods') \in Int
  <2>1. Last(periods) \in Int
    <3>1. CASE exists
      <4>1. PICK k \in 0 .. N : periods = 1 .. k
        BY <1>1, <3>1
      <4> QED BY <1>3, <4>1
    <3>2. CASE ~exists
      BY <1>1, <1>3, <3>2
    <3> QED BY <3>1, <3>2
  <2>2. Last(periods') \in Int
    <3>1. CASE exists'
      <4>1. PICK k \in 0 .. N : periods' = 1 .. k
        BY <1>2, <3>1
      <4> QED BY <1>3, <4>1
    <3>2. CASE ~exists'
      BY <1>2, <1>3, <3>2
    <3> QED BY <3>1, <3>2
  <2> QED BY <2>1, <2>2
<1>5. ASSUME exists' PROVE exists /\ Last(periods) <= Last(periods')
  <2>1. exists /\ periods \subseteq periods'
    BY <1>5, RunGrows
  <2>2. PICK k \in 0 .. N : periods = 1 .. k
    BY <1>1, <2>1
  <2>3. PICK l \in 0 .. N : periods' = 1 .. l
    BY <1>2, <1>5
  <2>4. k \in Nat /\ l \in Nat /\ Last(periods) = k /\ Last(periods') = l
    BY <1>3, <2>2, <2>3
  <2>5. k \in 1 .. k => k \in 1 .. l
    BY <2>1, <2>2, <2>3
  <2>6. k <= l
    BY <2>4, <2>5
  <2> QED BY <2>1, <2>4, <2>6
<1> QED BY <1>4, <1>5

LEMMA PageInit == WatchInit => PageInv
<1> SUFFICES ASSUME WatchInit PROVE PageInv
  OBVIOUS
<1>1. chart = <<>> /\ cost = 0 /\ poll = Idle /\ Accounts /\ periods = {}
  BY DEF WatchInit, Init, Accounts
<1>2. Anchored
  BY <1>1 DEF Anchored, Idle
<1>3. Plotted
  BY <1>1, RunAssumption DEF Plotted, TrueTo, Last
<1> QED BY <1>1, <1>2, <1>3 DEF PageInv

LEMMA RunUnderPage == [WatchNext]_watchVars => [Next]_vars
BY DEF WatchNext, StatusRun, StatusPeriods, StatusFails, LiveAgents, LiveOffers, LiveFails,
       CostEdit, RunGoesOn, watchVars

LEMMA PageKeeps == IInv /\ IInv' /\ PageInv /\ [WatchNext]_watchVars => PageInv'
<1> SUFFICES ASSUME IInv, IInv', PageInv, [WatchNext]_watchVars PROVE PageInv'
  OBVIOUS
<1>1. /\ exists' => exists /\ Last(periods) <= Last(periods')
      /\ Last(periods) \in Int /\ Last(periods') \in Int
  BY RunUnderPage, LastGrows
<1>2. ASSUME UNCHANGED <<profit, initial, chart>>, cost' \in Int, cost' = 0 => cost = 0,
             poll' = poll \/ poll'.at # "offers"
      PROVE  PageInv'
  <2>1. Plotted' /\ Anchored'
    BY <1>1, <1>2, KeepsPoints, KeepsAnchor
  <2>2. Accounts'
    BY <1>2, KeepsAccounts DEF PageInv
  <2> QED BY <1>2, <2>1, <2>2 DEF PageInv
<1>3. CASE Next /\ UNCHANGED <<profit, initial, cost, page>>
  BY <1>2, <1>3 DEF page, PageInv
<1>4. CASE StatusRun
  BY <1>2, <1>4 DEF StatusRun, RunGoesOn, PageInv
<1>5. CASE StatusPeriods
  BY <1>2, <1>5 DEF StatusPeriods, RunGoesOn, PageInv
<1>6. CASE StatusFails
  BY <1>2, <1>6 DEF StatusFails, RunGoesOn, PageInv, Idle
<1>7. CASE LiveAgents
  <2>1. UNCHANGED <<profit, initial, chart, cost, exists, periods>> /\ exists /\ poll.at = "live"
    BY <1>7 DEF LiveAgents, RunGoesOn, vars, rows
  <2>2. PICK k \in 0 .. N : Last(periods) = k /\ Last(budget) = k
    BY <2>1, StoredUpTo
  <2>3. poll'.budget = [a \in Agents |-> Budgets[a][k]]
    BY <1>7, <2>2 DEF LiveAgents, Budgets
  <2>4. k \in Len(chart) .. N
    BY <2>1, <2>2 DEF PageInv, Plotted
  <2>5. Accounts' /\ Budgets' = Budgets
    BY <2>1, KeepsAccounts DEF PageInv
  <2>6. Anchored'
    BY <2>1, <2>2, <2>3, <2>4, <2>5 DEF Anchored
  <2>7. Plotted'
    BY <1>1, <2>1, KeepsPoints
  <2> QED BY <2>1, <2>5, <2>6, <2>7 DEF PageInv
<1>8. CASE LiveOffers
  BY <1>8, LiveKeeps
<1>9. CASE LiveFails
  BY <1>2, <1>9 DEF LiveFails, RunGoesOn, PageInv, Done, Idle, Stopped
<1>10. CASE CostEdit
  BY <1>2, <1>10 DEF CostEdit, page
<1>11. CASE UNCHANGED watchVars
  BY <1>2, <1>11 DEF watchVars, page, PageInv
<1> QED BY <1>3, <1>4, <1>5, <1>6, <1>7, <1>8, <1>9, <1>10, <1>11 DEF WatchNext

LEMMA WatchInvariance == WatchSpec => [](IInv /\ PageInv)
<1>1. WatchInit => Init
  BY DEF WatchInit
<1>2. WatchInit => IInv /\ PageInv
  BY <1>1, InitIInv, PageInit
<1>3. IInv /\ PageInv /\ [WatchNext]_watchVars => IInv' /\ PageInv'
  BY RunUnderPage, NextIInv, PageKeeps
<1> QED BY <1>2, <1>3, PTL DEF WatchSpec

\* For any profits, budgets, number of periods and size of the cent, whenever
\* the page asks and whatever is lost, deleted or killed: the budget it has
\* plotted for a period is the one the agent had, up to a cent for each later
\* profit that ties, and so is the one the analysis of the finished run shows
\* (live_series, reconstruct_budget_series, run_analysis).
THEOREM ChartIsRight == WatchSpec => []ChartIsTruth
<1>1. ASSUME IInv, PageInv PROVE ChartIsTruth
  <2> SUFFICES ASSUME cost = 0
               PROVE
        /\ \A i \in DOMAIN chart : \A a \in Agents :
              Abs(chart[i][a] - BudgetAfter(a, i)) <= Cent * Ties(a, i + 1, Len(chart))
        /\ ~ unavailable_reason =>
              \A a \in Agents : \A i \in 0 .. N :
                 Abs(AnalysisBudgets[a][i] - BudgetAfter(a, i)) <= Cent * Ties(a, i + 1, N)
    BY DEF ChartIsTruth
  <2>1. ASSUME NEW i \in DOMAIN chart, NEW a \in Agents
        PROVE  Abs(chart[i][a] - BudgetAfter(a, i)) <= Cent * Ties(a, i + 1, Len(chart))
    <3>1. /\ chart \in Seq([Agents -> Int]) /\ Len(chart) \in 0 .. N
          /\ TrueTo(chart, Budgets, TieCounts)
      BY <1>1, RunAssumption DEF PageInv, Plotted
    <3>2. i \in 1 .. Len(chart) /\ i \in 0 .. N
      BY <3>1, RunAssumption
    <3>3. Within(chart[i][a], Budgets[a][i], TieCounts[a][i][Len(chart)])
      BY <3>1, <3>2 DEF TrueTo
    <3>4. Within(chart[i][a], BudgetAfter(a, i), Ties(a, i + 1, Len(chart)))
      BY <3>1, <3>2, <3>3 DEF Budgets, TieCounts
    <3> QED BY <3>4, WithinAbs
  <2>2. ASSUME ~ unavailable_reason, NEW a \in Agents, NEW i \in 0 .. N
        PROVE  Abs(AnalysisBudgets[a][i] - BudgetAfter(a, i)) <= Cent * Ties(a, i + 1, N)
    <3>1. exists /\ sim.state = "FINISHED"
      BY <2>2 DEF unavailable_reason
    <3>2. periods = 1 .. N /\ budget = periods
      BY <1>1, <3>1 DEF IInv, State, Stored
    <3>3. N \in Nat /\ Last(periods) = N /\ Last(budget) = N
      BY <3>2, LastOf, RunAssumption
    <3>4. AnalysisBudgets[a] = reconstruct(a, BudgetAfter(a, N), 0, N)
      BY <3>3 DEF AnalysisBudgets
    <3>5. N \in 0 .. N /\ 0 \in 0 .. N
      BY <3>3
    <3>6. Within(reconstruct(a, BudgetAfter(a, N), 0, N)[i], BudgetAfter(a, i), Ties(a, i + 1, N))
      BY <1>1, <3>5, BackIsTrue DEF PageInv
    <3> QED BY <3>4, <3>6, WithinAbs
  <2> QED BY <2>1, <2>2
<1> QED BY <1>1, WatchInvariance, PTL
-----------------------------------------------------------------------------
(***************************************************************************)
(* The progress on display.                                                *)
(***************************************************************************)

\* A run with current period cp and n committed periods is in its evaluation
\* window, or has ended the period before it.
Reaching(cp, n) == cp >= N - EvaluationPeriods + 1 \/ n >= N - EvaluationPeriods

LEMMA Larger2 ==
  ASSUME NEW x \in Int, NEW y \in Int
  PROVE  Max({x, y}) = IF x < y THEN y ELSE x
<1>1. Max({x, y}) = CHOOSE m \in {x, y} : \A z \in {x, y} : m >= z
  BY DEF Max
<1> QED BY <1>1

LEMMA Smaller2 ==
  ASSUME NEW x \in Int, NEW y \in Int
  PROVE  Min({x, y}) = IF x < y THEN x ELSE y
<1>1. Min({x, y}) = CHOOSE m \in {x, y} : \A z \in {x, y} : m <= z
  BY DEF Min
<1> QED BY <1>1

\* What the progress of a run says (compute_run_progress).
LEMMA ProgressIs ==
  ASSUME NEW row, row.currentPeriod \in -1 .. N, NEW n \in 0 .. N
  PROVE  LET p == compute_run_progress(row, n)
             late == IF row.state \in Terminal THEN n >= N - EvaluationPeriods + 1
                     ELSE Reaching(row.currentPeriod, n)
         IN  /\ p.state = row.state
             /\ p.completed = IF row.state = "FINISHED" THEN N ELSE n
             /\ p.phase = "evaluation" <=> EvaluationPeriods > 0 /\ late
             /\ p.phase = "training" <=> EvaluationPeriods > 0 /\ ~late
<1> DEFINE p == compute_run_progress(row, n)
           cp == row.currentPeriod
           act == Active(row, n)
           active == Min({Max({act, 1}), N})
           last == N - EvaluationPeriods + 1
           late == IF row.state \in Terminal THEN n >= last ELSE Reaching(cp, n)
<1>1. /\ N \in Nat /\ N >= 1 /\ EvaluationPeriods \in Nat /\ EvaluationPeriods < N
      /\ n \in Nat /\ n <= N
      /\ cp \in Int /\ cp <= N
  BY RunAssumption, WatchAssumption
<1>2. act = IF row.state \in Terminal THEN n ELSE IF cp < n + 1 THEN n + 1 ELSE cp
  <2>1. Max({cp, n + 1}) = IF cp < n + 1 THEN n + 1 ELSE cp
    BY <1>1, Larger2
  <2> QED BY <2>1 DEF Active
<1>3. act \in Int
  BY <1>1, <1>2
<1> HIDE DEF act
<1>4. Max({act, 1}) = IF act < 1 THEN 1 ELSE act
  BY <1>3, Larger2
<1>5. active = IF Max({act, 1}) < N THEN Max({act, 1}) ELSE N
  <2> DEFINE m == Max({act, 1})
  <2>1. m \in Int
    BY <1>3, <1>4
  <2> HIDE DEF m
  <2>2. Min({m, N}) = IF m < N THEN m ELSE N
    BY <1>1, <2>1, Smaller2
  <2> QED BY <2>2 DEF m
<1>6. /\ p.state = row.state
      /\ p.completed = IF row.state = "FINISHED" THEN N ELSE n
      /\ p.phase = IF EvaluationPeriods = 0 THEN "none"
                   ELSE IF active >= last THEN "evaluation" ELSE "training"
  BY DEF compute_run_progress, act
<1> HIDE DEF p, active, cp
<1>7. EvaluationPeriods > 0 => (active >= last <=> late)
  <2> SUFFICES ASSUME EvaluationPeriods > 0 PROVE active >= last <=> late
    OBVIOUS
  <2>1. last \in Int /\ last <= N /\ last >= 2 /\ last = N - EvaluationPeriods + 1
    BY <1>1
  <2>2. active >= last <=> act >= last
    <3> HIDE DEF last
    <3> QED BY <1>1, <1>3, <1>4, <1>5, <2>1
  <2>3. act >= last <=> late
    <3>1. CASE row.state \in Terminal
      BY <1>2, <3>1
    <3>2. CASE row.state \notin Terminal
      <4>1. n + 1 >= last <=> n >= N - EvaluationPeriods
        BY <1>1, <2>1
      <4> HIDE DEF last
      <4>2. act >= last <=> cp >= last \/ n + 1 >= last
        BY <1>1, <1>2, <2>1, <3>2
      <4> QED BY <3>2, <4>1, <4>2 DEF Reaching, last
    <3> QED BY <3>1, <3>2
  <2> QED BY <2>2, <2>3
<1> HIDE DEF last, late
<1>8. /\ p.phase = "evaluation" <=> EvaluationPeriods > 0 /\ late
      /\ p.phase = "training" <=> EvaluationPeriods > 0 /\ ~late
  BY <1>1, <1>6, <1>7
<1> QED BY <1>6, <1>8 DEF p, late, last, cp

\* The period number of a run does not go back.
Forward ==
  exists => /\ sim.currentPeriod <= t
            /\ pc \in {"none", "spawned", "build", "warm", "init"} => sim.currentPeriod <= 0

LEMMA RunForward ==
  ASSUME IInv, Forward, [Next]_vars
  PROVE  /\ Forward'
         /\ exists' => sim.currentPeriod <= sim'.currentPeriod
<1>1. t \in Nat /\ sim.currentPeriod \in Int /\ (exists \in BOOLEAN)
  BY RunAssumption DEF IInv, TypeOK
<1> USE DEF At, Goto, vars, rows
<1>2. CASE UNCHANGED vars
  BY <1>1, <1>2 DEF Forward
<1>3. CASE Start \/ StartFails \/ Check \/ Build \/ WarmStart
  BY <1>1, <1>3 DEF Forward, Start, StartFails, Check, Build, WarmStart
<1>4. CASE Initialize
  BY <1>1, <1>4 DEF Forward, Initialize, SaveFields, IInv, TypeOK, Clock, Fresh
<1>5. CASE InitializeMarket \/ Wait \/ RunPeriod
  BY <1>1, <1>5 DEF Forward, InitializeMarket, Wait, RunPeriod
<1>6. CASE Begin
  BY <1>1, <1>6 DEF Forward, Begin, SaveFields, IInv, TypeOK
<1>7. CASE After
  BY <1>1, <1>7 DEF Forward, After, SaveFields, IInv, TypeOK
<1>8. CASE Export \/ SaveCheckpoints \/ Fail \/ Kill
  BY <1>1, <1>8 DEF Forward, Export, SaveCheckpoints, Fail, Kill
<1>9. CASE Finish \/ CheckpointsFail \/ MarkFailed
  <2>1. UNCHANGED <<exists, t>> /\ pc' \notin {"none", "spawned", "build", "warm", "init"}
    BY <1>9 DEF Finish, SaveFields, CheckpointsFail, MarkFailed
  <2>2. sim'.currentPeriod = sim.currentPeriod
    <3>1. sim \in [mode : Modes,
                   state : {"CREATED", "INITIALIZED", "STARTED"} \cup Terminal,
                   currentPeriod : -1..N, error : BOOLEAN]
      BY DEF IInv, TypeOK
    <3> QED BY <1>9, <3>1 DEF Finish, SaveFields, CheckpointsFail, MarkFailed
  <2> QED BY <1>1, <2>1, <2>2 DEF Forward
<1>10. CASE Delete
  BY <1>1, <1>10 DEF Forward, Delete
<1>11. ASSUME NEW q \in Pages, ReadMarket(q) \/ SaveMarket(q)
       PROVE  Forward' /\ (exists' => sim.currentPeriod <= sim'.currentPeriod)
  BY <1>1, <1>11 DEF Forward, ReadMarket, SaveMarket
<1> QED BY <1>2, <1>3, <1>4, <1>5, <1>6, <1>7, <1>8, <1>9, <1>10, <1>11 DEF Next, RunStep

\* What the display and an open status request say of a run that exists.
Displayed ==
  exists =>
    LET n == Cardinality(periods) IN
    /\ shown.completed \in Int /\ shown.completed <= n
    /\ shown.phase = "evaluation" =>
         EvaluationPeriods > 0 /\ Reaching(sim.currentPeriod, n)
    /\ poll.at = "status" =>
         /\ poll.row.currentPeriod \in -1 .. N
         /\ poll.row.currentPeriod <= sim.currentPeriod
         /\ poll.row.state = "FINISHED" => n = N
         /\ shown.phase = "evaluation" => Reaching(poll.row.currentPeriod, n)

LEMMA CountIs ==
  ASSUME IInv, exists
  PROVE  /\ Cardinality(periods) \in 0 .. N
         /\ periods = 1 .. Cardinality(periods)
         /\ Cardinality(periods) > 0 =>
              sim.currentPeriod \in {Cardinality(periods), Cardinality(periods) + 1}
         /\ sim.currentPeriod \in -1 .. N
         /\ sim.state = "FINISHED" => Cardinality(periods) = N
<1>1. PICK k \in 0 .. N : periods = 1 .. k /\ (k > 0 => sim.currentPeriod \in {k, k + 1})
  BY DEF IInv, Stored, Through
<1>2. Cardinality(1 .. k) = k
  BY RunAssumption, IntervalSize
<1>3. sim.currentPeriod \in -1 .. N
  BY DEF IInv, TypeOK
<1>4. sim.state = "FINISHED" => periods = 1 .. N
  BY DEF IInv, State
<1>5. Cardinality(1 .. N) = N
  BY RunAssumption, IntervalSize
<1> QED BY <1>1, <1>2, <1>3, <1>4, <1>5

\* As time goes on a run stays where it has come to.
LEMMA ReachingStays ==
  ASSUME NEW cp \in Int, NEW later \in Int, cp <= later, NEW n \in Int, NEW more \in Int,
         n <= more, Reaching(cp, n)
  PROVE  Reaching(later, more) /\ Reaching(cp, more)
<1>1. N \in Int /\ EvaluationPeriods \in Int
  BY RunAssumption, WatchAssumption
<1> QED BY <1>1 DEF Reaching

\* The step of a status request.
LEMMA StatusIsTrue ==
  ASSUME IInv, Displayed, StatusPeriods, exists
  PROVE  LET n == Cardinality(periods) IN
         /\ shown'.completed = n
         /\ shown'.completed >= shown.completed
         /\ shown'.phase = "evaluation" =>
               \/ sim.currentPeriod >= N - EvaluationPeriods + 1
               \/ n = N - EvaluationPeriods
         /\ shown'.phase = "training" /\ shown'.state # "FAILED" =>
               poll.row.currentPeriod <= N - EvaluationPeriods
         /\ shown.phase = "evaluation" /\ shown'.state # "FAILED" => shown'.phase = "evaluation"
         /\ shown'.phase = "evaluation" =>
               EvaluationPeriods > 0 /\ Reaching(sim.currentPeriod, n)
<1> DEFINE n == Cardinality(periods)
           row == poll.row
           cp == sim.currentPeriod
           late == IF row.state \in Terminal THEN n >= N - EvaluationPeriods + 1
                   ELSE Reaching(row.currentPeriod, n)
<1>1. /\ n \in 0 .. N /\ cp \in -1 .. N
      /\ n > 0 => cp \in {n, n + 1}
  BY CountIs
<1>2. N \in Nat /\ N >= 1 /\ EvaluationPeriods \in Nat /\ EvaluationPeriods < N
  BY RunAssumption, WatchAssumption
<1>3. poll.at = "status" /\ shown' = compute_run_progress(row, n)
  BY DEF StatusPeriods
<1>4. /\ shown.completed \in Int /\ shown.completed <= n
      /\ shown.phase = "evaluation" => EvaluationPeriods > 0
      /\ row.currentPeriod \in -1 .. N /\ row.currentPeriod <= cp
      /\ row.state = "FINISHED" => n = N
      /\ shown.phase = "evaluation" => Reaching(row.currentPeriod, n)
  BY <1>3 DEF Displayed
<1> HIDE DEF n, row, cp
<1>5. /\ shown'.state = row.state
      /\ shown'.completed = IF row.state = "FINISHED" THEN N ELSE n
      /\ shown'.phase = "evaluation" <=> EvaluationPeriods > 0 /\ late
      /\ shown'.phase = "training" <=> EvaluationPeriods > 0 /\ ~late
  BY <1>1, <1>3, <1>4, ProgressIs
<1>6. shown'.completed = n /\ shown'.completed >= shown.completed
  BY <1>1, <1>4, <1>5
<1>7. shown'.phase = "evaluation" =>
        \/ cp >= N - EvaluationPeriods + 1
        \/ n = N - EvaluationPeriods
  BY <1>1, <1>2, <1>4, <1>5 DEF Reaching
<1>8. shown'.phase = "training" /\ shown'.state # "FAILED" =>
        row.currentPeriod <= N - EvaluationPeriods
  BY <1>1, <1>2, <1>4, <1>5 DEF Reaching, Terminal
<1>9. shown.phase = "evaluation" /\ shown'.state # "FAILED" => shown'.phase = "evaluation"
  BY <1>1, <1>2, <1>4, <1>5 DEF Reaching, Terminal
<1>10. shown'.phase = "evaluation" => EvaluationPeriods > 0 /\ Reaching(cp, n)
  BY <1>1, <1>2, <1>5, <1>7 DEF Reaching
<1> QED BY <1>6, <1>7, <1>8, <1>9, <1>10 DEF n, row, cp

LEMMA DisplayInit == WatchInit => Forward /\ Displayed
<1> SUFFICES ASSUME WatchInit PROVE Forward /\ Displayed
  OBVIOUS
<1>1. /\ sim.currentPeriod = -1 /\ t = 1 /\ periods = {} /\ poll = Idle
      /\ shown = compute_run_progress(sim, 0) /\ sim.state = "CREATED"
  BY DEF WatchInit, Init
<1>2. N \in Nat /\ N >= 1 /\ EvaluationPeriods \in Nat /\ EvaluationPeriods < N
  BY RunAssumption, WatchAssumption
<1>3. shown.completed = 0 /\ ~(shown.phase = "evaluation")
  <2>1. /\ shown.completed = 0
        /\ shown.phase = "evaluation" => EvaluationPeriods > 0 /\ Reaching(-1, 0)
    BY <1>1, <1>2, ProgressIs DEF Terminal
  <2>2. ~Reaching(-1, 0)
    BY <1>2 DEF Reaching
  <2> QED BY <2>1, <2>2
<1>4. Cardinality(periods) = 0
  BY <1>1, FS_EmptySet
<1> QED BY <1>1, <1>3, <1>4 DEF Forward, Displayed, Idle

LEMMA CountGrows ==
  ASSUME IInv, IInv', [Next]_vars, exists'
  PROVE  /\ exists
         /\ Cardinality(periods) \in 0 .. N /\ Cardinality(periods') \in 0 .. N
         /\ Cardinality(periods) <= Cardinality(periods')
<1>1. exists /\ periods \subseteq periods'
  BY RunGrows
<1>2. PICK k \in 0 .. N : periods' = 1 .. k
  BY DEF IInv, Stored, Through
<1>3. k \in Nat /\ IsFiniteSet(1 .. k)
  BY RunAssumption, FS_Interval
<1>4. Cardinality(periods') = k
  BY <1>2, <1>3, IntervalSize
<1>5. Cardinality(periods) \in 0 .. N
  BY <1>1, CountIs
<1>6. Cardinality(periods) <= Cardinality(periods')
  BY <1>1, <1>2, <1>3, FS_Subset
<1> QED BY <1>1, <1>2, <1>4, <1>5, <1>6

\* Whatever the run does meanwhile.
LEMMA DisplayStays ==
  ASSUME IInv, IInv', Forward, Displayed, [Next]_vars, shown' = shown,
         \/ poll' = poll
         \/ poll'.at # "status"
         \/ poll'.row = sim /\ sim' = sim
  PROVE  Displayed'
<1> DEFINE n == Cardinality(periods)
           m == Cardinality(periods')
<1> SUFFICES ASSUME exists'
             PROVE  /\ shown.completed \in Int /\ shown.completed <= m
                    /\ shown.phase = "evaluation" =>
                         EvaluationPeriods > 0 /\ Reaching(sim'.currentPeriod, m)
                    /\ poll'.at = "status" =>
                         /\ poll'.row.currentPeriod \in -1 .. N
                         /\ poll'.row.currentPeriod <= sim'.currentPeriod
                         /\ poll'.row.state = "FINISHED" => m = N
                         /\ shown.phase = "evaluation" => Reaching(poll'.row.currentPeriod, m)
  BY DEF Displayed
<1>1. exists /\ n \in 0 .. N /\ m \in 0 .. N /\ n <= m
  BY CountGrows
<1>2. /\ sim.currentPeriod \in -1 .. N
      /\ sim.state = "FINISHED" => n = N
  BY <1>1, CountIs
<1>3. sim'.currentPeriod \in -1 .. N
  BY DEF IInv, TypeOK
<1>4. sim.currentPeriod <= sim'.currentPeriod
  BY RunForward
<1>5. /\ shown.completed \in Int /\ shown.completed <= n
      /\ shown.phase = "evaluation" =>
           EvaluationPeriods > 0 /\ Reaching(sim.currentPeriod, n)
      /\ poll.at = "status" =>
           /\ poll.row.currentPeriod \in -1 .. N
           /\ poll.row.currentPeriod <= sim.currentPeriod
           /\ poll.row.state = "FINISHED" => n = N
           /\ shown.phase = "evaluation" => Reaching(poll.row.currentPeriod, n)
  BY <1>1 DEF Displayed
<1>6. N \in Nat
  BY RunAssumption
<1> DEFINE cp == sim.currentPeriod
           later == sim'.currentPeriod
<1> HIDE DEF n, m
<1>7. shown.completed <= m
  BY <1>1, <1>5, <1>6
<1>8. /\ Reaching(cp, n) => Reaching(later, m) /\ Reaching(cp, m)
      /\ \A c \in -1 .. N : Reaching(c, n) => Reaching(c, m)
  <2>1. cp \in Int /\ later \in Int /\ n \in Int /\ m \in Int /\ cp <= later /\ n <= m
    BY <1>1, <1>2, <1>3, <1>4, <1>6
  <2> HIDE DEF cp, later
  <2>2. Reaching(cp, n) => Reaching(later, m) /\ Reaching(cp, m)
    BY <2>1, ReachingStays
  <2>3. ASSUME NEW c \in -1 .. N, Reaching(c, n) PROVE Reaching(c, m)
    <3>1. c \in Int /\ c <= c
      BY <1>6
    <3> QED BY <2>1, <2>3, <3>1, ReachingStays
  <2> QED BY <2>2, <2>3
<1>9. n = N => m = N
  BY <1>1, <1>6
<1>10. ASSUME poll'.at = "status"
       PROVE  /\ poll'.row.currentPeriod \in -1 .. N
              /\ poll'.row.currentPeriod <= later
              /\ poll'.row.state = "FINISHED" => m = N
              /\ shown.phase = "evaluation" => Reaching(poll'.row.currentPeriod, m)
  <2>1. CASE poll' = poll
    <3>1. /\ poll.row.currentPeriod \in -1 .. N /\ poll.row.currentPeriod <= cp
          /\ poll.row.state = "FINISHED" => n = N
          /\ shown.phase = "evaluation" => Reaching(poll.row.currentPeriod, n)
      BY <1>5, <1>10, <2>1
    <3>2. poll.row.currentPeriod <= later
      BY <1>2, <1>3, <1>4, <1>6, <3>1
    <3> QED BY <1>8, <1>9, <2>1, <3>1, <3>2
  <2>2. CASE poll'.row = sim /\ sim' = sim
    BY <1>2, <1>3, <1>4, <1>5, <1>8, <1>9, <2>2
  <2> QED BY <1>10, <2>1, <2>2
<1> QED BY <1>5, <1>7, <1>8, <1>10

LEMMA DisplayKeeps ==
  IInv /\ IInv' /\ Forward /\ Displayed /\ [WatchNext]_watchVars => Forward' /\ Displayed'
<1> SUFFICES ASSUME IInv, IInv', Forward, Displayed, [WatchNext]_watchVars
             PROVE  Forward' /\ Displayed'
  OBVIOUS
<1>1. [Next]_vars
  BY RunUnderPage
<1>2. Forward'
  BY <1>1, RunForward
<1>3. ASSUME shown' = shown,
             \/ poll' = poll
             \/ poll'.at # "status"
             \/ poll'.row = sim /\ sim' = sim
      PROVE  Displayed'
  BY <1>1, <1>3, DisplayStays
<1>4. CASE StatusPeriods
  <2>1. UNCHANGED <<exists, sim, periods>> /\ poll'.at = "live"
    BY <1>4 DEF StatusPeriods, RunGoesOn, vars, rows
  <2>2. CASE exists
    <3>1. Cardinality(periods) \in 0 .. N
      BY <2>2, CountIs
    <3>2. /\ shown'.completed = Cardinality(periods)
          /\ shown'.phase = "evaluation" =>
               EvaluationPeriods > 0 /\ Reaching(sim.currentPeriod, Cardinality(periods))
      BY <1>4, <2>2, StatusIsTrue
    <3>3. shown'.completed \in Int /\ shown'.completed <= Cardinality(periods)
      BY RunAssumption, <3>1, <3>2
    <3> QED BY <1>2, <2>1, <3>2, <3>3 DEF Displayed
  <2>3. CASE ~exists
    BY <1>2, <2>1, <2>3 DEF Displayed
  <2> QED BY <2>2, <2>3
<1>5. CASE ~StatusPeriods
  <2>1. shown' = shown
    BY <1>5 DEF WatchNext, StatusRun, StatusFails, LiveAgents, LiveOffers, LiveFails, CostEdit,
            page, watchVars
  <2>2. \/ poll' = poll
        \/ poll'.at # "status"
        \/ poll'.row = sim /\ sim' = sim
    BY <1>5 DEF WatchNext, StatusRun, StatusFails, LiveAgents, LiveOffers, LiveFails, CostEdit,
            RunGoesOn, vars, rows, page, watchVars, Done, Idle, Stopped
  <2> QED BY <1>2, <1>3, <2>1, <2>2
<1> QED BY <1>4, <1>5

\* For any run, page and interleaving of the two: the progress on display counts
\* exactly the committed periods, its phase is that of the period the run is at
\* or has just ended, and neither goes back unless the run has failed or is
\* deleted (compute_run_progress, simulation_progress).
THEOREM ProgressIsRight == WatchSpec => ProgressIsTrue
<1>1. WatchInit => IInv /\ Forward /\ Displayed
  BY InitIInv, DisplayInit DEF WatchInit
<1>2. IInv /\ Forward /\ Displayed /\ [WatchNext]_watchVars => (IInv /\ Forward /\ Displayed)'
  BY RunUnderPage, NextIInv, DisplayKeeps
<1>3. ASSUME IInv, Displayed
      PROVE  [ StatusPeriods /\ exists =>
        /\ shown'.completed = Cardinality(periods)
        /\ shown'.completed >= shown.completed
        /\ shown'.phase = "evaluation" =>
              \/ sim.currentPeriod >= N - EvaluationPeriods + 1
              \/ Cardinality(periods) = N - EvaluationPeriods
        /\ shown'.phase = "training" /\ shown'.state # "FAILED" =>
              poll.row.currentPeriod <= N - EvaluationPeriods
        /\ shown.phase = "evaluation" /\ shown'.state # "FAILED" => shown'.phase = "evaluation"
    ]_watchVars
  BY <1>3, StatusIsTrue
<1> QED BY <1>1, <1>2, <1>3, PTL DEF WatchSpec, ProgressIsTrue
=============================================================================
