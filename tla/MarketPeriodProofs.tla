------------------------- MODULE MarketPeriodProofs -------------------------
(***************************************************************************)
(* Theorems about ReplayBuffer, for every capacity and every sequence of   *)
(* transitions, about MarketPeriod, for any agents, configurations, lags,  *)
(* periods, prices and demands, and about MeritOrder, for every market:    *)
(* what a learning policy is given and what its replay buffer holds, when  *)
(* the fail-stack acts, whose decisions the rollout of PPO holds, that no  *)
(* learner raises or misses an update, and that the clearing is exact and  *)
(* monotone.                                                               *)
(***************************************************************************)
EXTENDS FiniteSetTheorems, WellFoundedInduction, MCMarketPeriod, TLAPS

-----------------------------------------------------------------------------
(* What the ring stores.                                                   *)

\* Some numbers have a least one.
LEMMA LeastOf ==
  ASSUME NEW S, S \subseteq Nat, S # {}
  PROVE  \E x \in S : \A y \in S : x <= y
<1> DEFINE Less == OpToRel(<, Nat)
<1>a. IsWellFoundedOn(Less, Nat)
  BY NatLessThanWellFounded
<1> HIDE DEF Less
<1>1. PICK x \in S : \A y \in S : ~ (<<y, x>> \in Less)
  BY <1>a, WFMin
<1>2. ASSUME NEW y \in S PROVE x <= y
  <2>1. x \in Nat /\ y \in Nat
    OBVIOUS
  <2>2. y < x => <<y, x>> \in Less
    BY <2>1 DEF Less, OpToRel
  <2>3. ~ (y < x)
    BY <2>2, <1>1, Zenon
  <2> QED
    BY <2>1, <2>3
<1> QED
  BY <1>2

\* How many of n transitions a ring of capacity c keeps.
Kept(n, c) == IF n < c THEN n ELSE c

RingType(c, X) ==
  [data : [0 .. c - 1 -> X], pos : 0 .. c - 1, size : 0 .. c, capacity : {c}]

\* The slot of the i-th stored transition when the oldest is in slot p.
Place(p, i, c) == (p + i - 1) % c

\* Ring r of capacity c has been given the transitions of h.
Stores(r, c, X, h) ==
  /\ r \in RingType(c, X)
  /\ r.size = Kept(Len(h), c)
  /\ Len(h) < c => r.pos = Len(h)
  /\ \A i \in 1 .. r.size :
       r.data[Place(Start(r), i, c)] = h[Len(h) - r.size + i]

-----------------------------------------------------------------------------
\* Both remainders the ring computes are of numbers below 2 c.
LEMMA Slot ==
  ASSUME NEW c \in Nat \ {0}, NEW p \in 0 .. c - 1, NEW i \in 1 .. c
  PROVE  Place(p, i, c) = IF p + i <= c THEN p + i - 1 ELSE p + i - 1 - c
<1>1. CASE p + i <= c
  BY <1>1 DEF Place
<1>2. CASE p + i > c
  BY <1>2 DEF Place
<1> QED
  BY <1>1, <1>2

\* The write position moves on by one, and from the last slot to the first.
LEMMA AdvanceStep ==
  ASSUME NEW r, NEW c \in Nat \ {0}, r.capacity = c, r.pos \in 0 .. c - 1
  PROVE  Advance(r) = IF r.pos + 1 < c THEN r.pos + 1 ELSE 0
<1>1. CASE r.pos + 1 < c
  BY <1>1 DEF Advance
<1>2. CASE r.pos + 1 = c
  <2>1. c % c = 0
    OBVIOUS
  <2> QED
    BY <1>2, <2>1 DEF Advance
<1> QED
  BY <1>1, <1>2

\* A new ring has been given nothing.
THEOREM NewRing ==
  ASSUME NEW c \in Nat \ {0}, NEW X, Empty \in X
  PROVE  Stores(Ring(c), c, X, <<>>)
BY DEF Stores, RingType, Ring, Kept

\* ReplayBuffer.add gives it one more, whether or not it is full.
THEOREM RingAddStores ==
  ASSUME NEW c \in Nat \ {0}, NEW X, NEW h \in Seq(X), NEW x \in X,
         NEW r, Stores(r, c, X, h)
  PROVE  Stores(RingAdd(r, x), c, X, Append(h, x))
<1> DEFINE s == RingAdd(r, x)
           g == Append(h, x)
           n == Len(h)
<1>1. /\ r \in RingType(c, X)
      /\ r.size = Kept(n, c) /\ n \in Nat
      /\ n < c => r.pos = n
  BY DEF Stores
<1>2. /\ r.pos \in 0 .. c - 1 /\ r.size \in 0 .. c /\ r.capacity = c
      /\ r.data \in [0 .. c - 1 -> X]
  BY <1>1 DEF RingType
<1>3. Advance(r) = (IF r.pos + 1 < c THEN r.pos + 1 ELSE 0)
  BY <1>2, AdvanceStep
<1>4. /\ s.data = [r.data EXCEPT ![r.pos] = x]
      /\ s.pos = Advance(r)
      /\ s.size = (IF r.size < c THEN r.size + 1 ELSE r.size)
      /\ s.capacity = c
      /\ s \in RingType(c, X)
  <2>1. /\ s.data = [r.data EXCEPT ![r.pos] = x]
        /\ s.pos = Advance(r)
        /\ s.size = (IF r.size < c THEN r.size + 1 ELSE r.size)
        /\ s.capacity = c
    BY <1>1, <1>2 DEF RingAdd, RingType
  <2>2. /\ s.data \in [0 .. c - 1 -> X]
        /\ s.pos \in 0 .. c - 1
        /\ s.size \in 0 .. c
    BY <2>1, <1>2, <1>3
  <2>3. s \in RingType(c, X)
    BY <1>1, <1>2, <1>3, <2>1, <2>2 DEF RingAdd, RingType
  <2> QED
    BY <2>1, <2>3
<1>5. Len(g) = n + 1 /\ s.size = Kept(n + 1, c)
  BY <1>1, <1>2, <1>4 DEF Kept
<1>6. n + 1 < c => s.pos = n + 1
  BY <1>1, <1>3, <1>4
<1>7. g \in Seq(X) /\ g[n + 1] = x /\ \A j \in 1 .. n : g[j] = h[j]
  BY <1>1
<1>8. /\ s.pos = Advance(r) /\ s.capacity = c /\ s.size \in 0 .. c
      /\ s.data[r.pos] = x
      /\ \A k \in 0 .. c - 1 : k # r.pos => s.data[k] = r.data[k]
  BY <1>2, <1>4 DEF RingType
<1> HIDE DEF s, g, n
<1>9. ASSUME NEW i \in 1 .. s.size
      PROVE  s.data[Place(Start(s), i, c)] = g[n + 1 - s.size + i]
  <2>1. CASE n < c
    <3>1. r.pos = n /\ r.size = n /\ s.size = n + 1 /\ Start(r) = 0
      BY <2>1, <1>1, <1>2, <1>5 DEF Kept, Start
    <3>2. Start(s) = 0
      <4>1. CASE n + 1 < c
        <5>1. s.size # s.capacity
          BY <4>1, <3>1, <1>1, <1>8
        <5> QED
          BY <5>1 DEF Start
      <4>2. CASE n + 1 = c
        <5>1. s.pos = 0
          BY <4>2, <3>1, <1>3, <1>8
        <5> QED
          BY <5>1 DEF Start
      <4> QED
        BY <4>1, <4>2, <2>1, <1>1
    <3>3. Place(Start(s), i, c) = i - 1
      <4>1. 0 \in 0 .. c - 1 /\ i \in 1 .. c
        BY <3>1, <2>1, <1>1
      <4> QED
        BY <4>1, <3>2, Slot
    <3>4. CASE i = n + 1
      <4>1. Place(Start(s), i, c) = r.pos
        BY <3>1, <3>3, <3>4, <1>1
      <4>2. n + 1 - s.size + i = n + 1
        BY <3>1, <3>4, <1>1
      <4> QED
        BY <4>1, <4>2, <1>7, <1>8
    <3>5. CASE i # n + 1
      <4>1. i \in 1 .. n /\ i - 1 \in 0 .. c - 1 /\ i - 1 # r.pos
        BY <3>1, <3>5, <2>1, <1>1
      <4>2. Place(Start(r), i, c) = i - 1
        <5>1. 0 \in 0 .. c - 1 /\ i \in 1 .. c
          BY <4>1
        <5> QED
          BY <5>1, <4>1, <3>1, Slot
      <4>3. r.data[i - 1] = h[i]
        BY <4>1, <4>2, <3>1, <1>1 DEF Stores, n
      <4>4. s.data[i - 1] = r.data[i - 1]
        BY <4>1, <1>8
      <4>5. g[i] = h[i]
        BY <4>1, <1>7
      <4> QED
        BY <4>3, <4>4, <4>5, <3>1, <3>3, <1>1
    <3> QED
      BY <3>4, <3>5
  <2>2. CASE n >= c
    <3>1. r.size = c /\ s.size = c /\ Start(r) = r.pos /\ Start(s) = s.pos
      BY <2>2, <1>1, <1>2, <1>4, <1>5 DEF Kept, Start
    <3>2. i \in 1 .. c
      BY <3>1
    <3>3. CASE i = c
      <4>1. Place(Start(s), i, c) = r.pos
        <5>1. s.pos \in 0 .. c - 1
          BY <1>2, <1>3, <1>4
        <5>2. Place(s.pos, c, c)
                = IF s.pos + c <= c THEN s.pos + c - 1 ELSE s.pos + c - 1 - c
          BY <5>1, <3>2, <3>3, Slot
        <5> QED
          BY <5>1, <5>2, <3>1, <3>3, <1>2, <1>3, <1>4
      <4>2. s.data[r.pos] = x
        BY <1>8
      <4>3. g[n + 1 - s.size + i] = x
        BY <3>1, <3>3, <1>1, <1>7
      <4> QED
        BY <4>1, <4>2, <4>3
    <3>4. CASE i < c
      <4> DEFINE k == IF r.pos + i < c THEN r.pos + i ELSE r.pos + i - c
      <4>1. Place(r.pos, i + 1, c) = k
        <5>1. i + 1 \in 1 .. c
          BY <3>2, <3>4
        <5>2. Place(r.pos, i + 1, c)
                = IF r.pos + (i + 1) <= c THEN r.pos + (i + 1) - 1
                  ELSE r.pos + (i + 1) - 1 - c
          BY <5>1, <1>2, Slot
        <5> QED
          BY <5>2, <3>2, <1>2
      <4>2. k \in 0 .. c - 1 /\ k # r.pos
        BY <3>2, <3>4, <1>2
      <4>3. Place(Start(s), i, c) = k
        <5>1. s.pos \in 0 .. c - 1
          BY <1>2, <1>3, <1>4
        <5>2. Place(s.pos, i, c)
                = IF s.pos + i <= c THEN s.pos + i - 1 ELSE s.pos + i - 1 - c
          BY <5>1, <3>2, Slot
        <5> QED
          BY <5>1, <5>2, <3>1, <3>2, <3>4, <1>2, <1>3, <1>4
      <4>4. s.data[k] = r.data[k]
        BY <4>2, <1>8
      <4>5. i + 1 \in 1 .. r.size /\ Start(r) = r.pos
        BY <3>1, <3>2, <3>4, <1>2
      <4>6. r.data[k] = h[n - c + (i + 1)]
        <5>1. r.data[Place(Start(r), i + 1, c)] = h[n - r.size + (i + 1)]
          BY <4>5 DEF Stores, n
        <5> QED
          BY <5>1, <4>1, <4>5, <3>1
      <4>7. g[n + 1 - s.size + i] = h[n - c + (i + 1)]
        <5>1. /\ n + 1 - s.size + i = n - c + (i + 1)
              /\ n - c + (i + 1) \in 1 .. n
          BY <3>1, <3>2, <3>4, <2>2, <1>1
        <5> QED
          BY <5>1, <1>7
      <4> QED
        BY <4>3, <4>4, <4>6, <4>7
    <3> QED
      BY <3>2, <3>3, <3>4
  <2> QED
    BY <2>1, <2>2, <1>1
<1>10. \A i \in 1 .. s.size :
        s.data[Place(Start(s), i, c)] = g[n + 1 - s.size + i]
  BY <1>9
<1>11. /\ s \in RingType(c, X) /\ s.size = Kept(Len(g), c)
       /\ Len(g) < c => s.pos = Len(g)
  BY <1>4, <1>5, <1>6
<1>12. \A i \in 1 .. s.size :
         s.data[Place(Start(s), i, c)] = g[Len(g) - s.size + i]
  <2> TAKE i \in 1 .. s.size
  <2>1. Len(g) - s.size + i = n + 1 - s.size + i
    BY <1>1, <1>5, <1>8
  <2> QED
    BY <2>1, <1>10
<1>13. Stores(s, c, X, g)
  BY <1>11, <1>12 DEF Stores
<1> QED
  BY <1>13 DEF s, g

\* _chronological lists the latest transitions, oldest first.
THEOREM ChronologicalIsLatest ==
  ASSUME NEW c \in Nat \ {0}, NEW X, NEW h \in Seq(X), NEW r, Stores(r, c, X, h)
  PROVE  Chronological(r) = SubSeq(h, Len(h) - Kept(Len(h), c) + 1, Len(h))
<1> DEFINE n == Len(h)
           m == n - r.size
<1>1. r.capacity = c /\ r.size \in 0 .. c /\ r.size = Kept(n, c) /\ n \in Nat
  BY DEF Stores, RingType
<1>2. m \in Nat /\ n - (m + 1) + 1 = r.size
  BY <1>1 DEF Kept
<1>3. Chronological(r) = [i \in 1 .. r.size |-> h[m + i]]
  BY <1>1 DEF Chronological, Stores, Place
<1>4. SubSeq(h, m + 1, n) = [i \in 1 .. r.size |-> h[m + i]]
  <2>1. SubSeq(h, m + 1, n) = [i \in 1 .. n - (m + 1) + 1 |-> h[i + (m + 1) - 1]]
    BY <1>1, <1>2
  <2>2. \A i \in 1 .. r.size : i + (m + 1) - 1 = m + i
    BY <1>1, <1>2
  <2> QED
    BY <2>1, <2>2, <1>2
<1> QED
  BY <1>1, <1>3, <1>4

-----------------------------------------------------------------------------
(***************************************************************************)
(* The inductive invariant. It names the period of the pending decision    *)
(* of an agent and says what the outcomes and the log say of that period.  *)
(***************************************************************************)

\* The first period with a complete observation.
FirstComplete == Max(Lags) + 1

\* The last period agent a has stepped in.
Decided(a) == IF turn > a THEN t ELSE t - 1

Experience ==
  [decision : Nat, outcome : Nat, next : Nat, network : Nat,
   intervened : BOOLEAN]
Decision == [decision : Nat, network : Nat, intervened : BOOLEAN]
Stored == {Empty} \cup Experience

\* The place in the period and the history the periods have left.
Clock ==
  /\ config \in Configs
  /\ t \in Nat \ {0} /\ turn \in 1 .. NAgents + 1
  /\ ptf_history \in Seq(Int) /\ Len(ptf_history) = t - 1
  /\ log \in Seq([failed : SUBSET Plants, intervened : SUBSET Plants])
  /\ Len(log) = t - 1
  /\ intervened \subseteq {p \in Plants : Owner[p] < turn}
  /\ \A a \in Agents : last_outcomes[a].period = t - 1

IsPolicy(pol) ==
  /\ pol = [buffer |-> pol.buffer, seen |-> pol.seen, updates |-> pol.updates]
  /\ pol.seen \in Nat
  /\ pol.updates \in Seq(Nat)

\* Updates and observations are sequences.
Policies ==
  /\ policy = [a \in Agents |-> policy[a]]
  /\ \A a \in Agents : IsPolicy(policy[a])
  /\ observed \in [Agents -> Seq(Stored)]
  /\ prev \in [Agents -> {NoDecision} \cup Decision]

\* Whether a price of a was replaced in the period of its pending decision.
Replaced(a) ==
  (IF turn > a THEN intervened ELSE log[t - 1].intervened) \cap PlantsOf(a) # {}

\* The pending decision is the one of the last step.
PendingIsLast(a) ==
  IF Decided(a) < FirstComplete THEN prev[a] = NoDecision
  ELSE /\ prev[a] \in Decision
       /\ prev[a].decision = Decided(a)
       /\ prev[a].intervened <=> Replaced(a)

\* The transitions observed are those of the training so far.
Consecutive(a) ==
  /\ Len(observed[a]) = Larger(0, Trained(a) - FirstComplete)
  /\ \A i \in DOMAIN observed[a] :
       /\ observed[a][i].decision = FirstComplete + i - 1
       /\ observed[a][i].outcome = observed[a][i].decision
       /\ observed[a][i].next = observed[a][i].decision + 1
       /\ observed[a][i].intervened
            <=> log[observed[a][i].decision].intervened \cap PlantsOf(a) # {}

\* The ring stores the transitions observed.
RingStores(a) ==
  config[a].algorithm \in {"DDPG", "RDPG"} =>
    Stores(policy[a].buffer, config[a].buffer_size, Stored, observed[a])

Invariant ==
  /\ Clock
  /\ Policies
  /\ \A a \in Agents : PendingIsLast(a) /\ Consecutive(a) /\ RingStores(a)

-----------------------------------------------------------------------------
(***************************************************************************)
(* The operators of the module.                                            *)
(***************************************************************************)

\* The longest lag, which MarketAssumption says exists.
LEMMA LongestLag ==
  /\ Max(Lags) \in Nat \ {0}
  /\ Max(Lags) \in Lags
  /\ \A k \in Lags : k <= Max(Lags)
<1>1. PICK m \in Lags : \A k \in Lags : k <= m
  BY MarketAssumption DEF MarketAssumption
<1>2. Lags \subseteq Nat \ {0}
  BY MarketAssumption DEF MarketAssumption
<1>3. \A k \in Lags : m >= k
  BY <1>1, <1>2
<1>4. Max(Lags) \in Lags /\ \A k \in Lags : Max(Lags) >= k
  BY <1>1, <1>3 DEF Max
<1> QED
  BY <1>2, <1>4

\* The smaller and the larger of two numbers.
LEMMA SmallerOfTwo ==
  ASSUME NEW x \in Int, NEW y \in Int
  PROVE  Min({x, y}) = IF x < y THEN x ELSE y
<1> DEFINE m == IF x < y THEN x ELSE y
<1>1. m \in {x, y} /\ \A z \in {x, y} : m =< z
  OBVIOUS
<1>2. \A w \in {x, y} : (\A z \in {x, y} : w =< z) => w = m
  OBVIOUS
<1> QED
  BY <1>1, <1>2 DEF Min

\* The window of evaluation begins after the first period.
LEMMA Window ==
  evaluation_start \in Nat /\ evaluation_start >= 2
BY MarketAssumption DEF MarketAssumption, evaluation_start

\* The numbers of an agent and of its last step.
LEMMA Turns ==
  ASSUME Clock, NEW a \in Agents
  PROVE  a \in Nat /\ turn \in Nat /\ Decided(a) \in Nat /\ Decided(a) <= t
BY MarketAssumption DEF MarketAssumption, Agents, Clock, Decided

\* How much of its training an agent has stepped through.
LEMMA TrainedIs ==
  ASSUME Clock, NEW a \in Agents
  PROVE  Trained(a) =
           IF a \in evaluate_only \/ ~is_learning(a) THEN 0
           ELSE IF Decided(a) < evaluation_start - 1 THEN Decided(a)
                ELSE evaluation_start - 1
<1>1. Decided(a) \in Int /\ evaluation_start - 1 \in Int
  BY Turns, Window
<1>2. Trained(a) = IF a \in evaluate_only \/ ~is_learning(a) THEN 0
                   ELSE Min({Decided(a), evaluation_start - 1})
  BY DEF Trained, Decided
<1> QED
  BY <1>1, <1>2, SmallerOfTwo

\* An observation has all its lags from FirstComplete on.
LEMMA CompleteFrom ==
  ASSUME Clock
  PROVE  complete <=> FirstComplete <= t
<1>1. DOMAIN ptf_history = 1 .. t - 1 /\ t \in Nat \ {0}
  BY DEF Clock
<1>2. Lags \subseteq Nat \ {0}
  BY MarketAssumption DEF MarketAssumption
<1>3. \A k \in Lags : t - k \in 1 .. t - 1 <=> k < t
  BY <1>1, <1>2
<1>4. complete <=> \A k \in Lags : k < t
  BY <1>1, <1>3 DEF complete
<1>5. (\A k \in Lags : k < t) <=> Max(Lags) < t
  BY <1>1, <1>2, LongestLag
<1> QED
  BY <1>1, <1>4, <1>5, LongestLag DEF FirstComplete

\* What observe and update do to the store of an off-policy learner.
LEMMA ObserveAdds ==
  ASSUME NEW a \in Agents, NEW pol, IsPolicy(pol)
  PROVE  /\ IsPolicy(observe(a, pol))
         /\ ~is_on_policy(a) =>
              observe(a, pol).buffer = RingAdd(pol.buffer, Transition(a))
<1> DEFINE seen == [pol EXCEPT !.seen = IF is_on_policy(a) THEN @ + 1 ELSE @]
<1>1. /\ seen = [buffer |-> pol.buffer, updates |-> pol.updates,
                 seen |-> IF is_on_policy(a) THEN pol.seen + 1 ELSE pol.seen]
      /\ IsPolicy(seen) /\ seen.buffer = pol.buffer
  BY DEF IsPolicy
<1>2. observe(a, pol) =
        IF Dropped(a) THEN seen
        ELSE IF is_on_policy(a)
             THEN [seen EXCEPT !.buffer = RolloutAdd(@, Transition(a))]
             ELSE [seen EXCEPT !.buffer = RingAdd(@, Transition(a))]
  BY DEF observe
<1> HIDE DEF seen
<1>3. CASE Dropped(a)
  BY <1>1, <1>2, <1>3 DEF Dropped
<1>4. CASE ~Dropped(a) /\ is_on_policy(a)
  BY <1>1, <1>2, <1>4 DEF IsPolicy
<1>5. CASE ~Dropped(a) /\ ~is_on_policy(a)
  BY <1>1, <1>2, <1>5 DEF IsPolicy
<1> QED
  BY <1>3, <1>4, <1>5

\* An update leaves the store of an off-policy learner alone (base.update).
LEMMA UpdateKeeps ==
  ASSUME Clock, NEW a \in Agents, NEW pol, IsPolicy(pol)
  PROVE  /\ IsPolicy(update(a, pol))
         /\ ~is_on_policy(a) => update(a, pol).buffer = pol.buffer
<1>1. t \in Nat
  BY DEF Clock
<1>2. Append(pol.updates, t) \in Seq(Nat) /\ pol.seen \in Nat
  BY <1>1 DEF IsPolicy
<1> QED
  <2>1. CASE ~ready_to_learn(a, pol)
    BY <2>1 DEF update
  <2>2. CASE ready_to_learn(a, pol) /\ is_on_policy(a)
    <3>1. update(a, pol) = [pol EXCEPT !.updates = Append(@, t),
                                       !.buffer = RolloutClear(@)]
      BY <2>2 DEF update
    <3>2. update(a, pol) = [buffer |-> RolloutClear(pol.buffer),
                            seen |-> pol.seen,
                            updates |-> Append(pol.updates, t)]
      BY <3>1 DEF IsPolicy
    <3> QED
      BY <1>2, <2>2, <3>2 DEF IsPolicy
  <2>3. CASE ready_to_learn(a, pol) /\ ~is_on_policy(a)
    <3>1. update(a, pol) = [pol EXCEPT !.updates = Append(@, t),
                                       !.buffer = @]
      BY <2>3 DEF update
    <3>2. update(a, pol) = [buffer |-> pol.buffer, seen |-> pol.seen,
                            updates |-> Append(pol.updates, t)]
      BY <3>1 DEF IsPolicy
    <3> QED
      BY <1>2, <2>3, <3>2 DEF IsPolicy
  <2> QED
    BY <2>1, <2>2, <2>3

\* Both together, as agent_service.step calls them.
LEMMA LearnedIs ==
  ASSUME Clock, NEW a \in Agents, IsPolicy(policy[a])
  PROVE  /\ IsPolicy(Learned(a))
         /\ ~Learns(a) => Learned(a) = policy[a]
         /\ Learns(a) /\ ~is_on_policy(a) =>
              Learned(a).buffer = RingAdd(policy[a].buffer, Transition(a))
<1>1. IsPolicy(observe(a, policy[a]))
  BY ObserveAdds
<1>2. IsPolicy(update(a, observe(a, policy[a])))
  BY <1>1, UpdateKeeps
<1>3. ~is_on_policy(a) =>
        update(a, observe(a, policy[a])).buffer
          = RingAdd(policy[a].buffer, Transition(a))
  BY <1>1, ObserveAdds, UpdateKeeps
<1> QED
  BY <1>2, <1>3 DEF Learned

-----------------------------------------------------------------------------
(***************************************************************************)
(* The invariant is inductive.                                             *)
(***************************************************************************)

\* The parts of the constants that the steps use.
LEMMA Constants ==
  /\ NAgents \in Nat \ {0}
  /\ \A p \in Plants : Owner[p] \in Agents
  /\ \A c \in Configs, a \in Agents : c[a].buffer_size \in Nat \ {0}
BY MarketAssumption DEF MarketAssumption

\* A run starts with nothing decided, observed or stored (SimulationContext.build).
LEMMA Starts ==
  ASSUME Init
  PROVE  Invariant
<1>1. /\ config \in Configs /\ t = 1 /\ turn = 1 /\ intervened = {}
      /\ ptf_history = <<>> /\ log = <<>>
      /\ last_outcomes = [a \in Agents |-> [period |-> 0, offers |-> <<>>]]
      /\ prev = [a \in Agents |-> NoDecision]
      /\ policy = [a \in Agents |-> NewPolicy(config[a])]
      /\ observed = [a \in Agents |-> <<>>]
  BY DEF Init
<1>2. Clock
  BY <1>1, Constants DEF Clock
<1>3. Policies
  <2>1. \A a \in Agents : IsPolicy(policy[a])
    <3>1. ASSUME NEW c
          PROVE  IsPolicy(NewPolicy(c))
      <4>1. <<>> \in Seq(Nat) /\ 0 \in Nat
        OBVIOUS
      <4> QED
        BY <4>1 DEF IsPolicy, NewPolicy
    <3> QED
      BY <1>1, <3>1
  <2>2. policy = [a \in Agents |-> policy[a]]
    BY <1>1
  <2>3. /\ observed \in [Agents -> Seq(Stored)]
        /\ prev \in [Agents -> {NoDecision} \cup Decision]
    BY <1>1
  <2> QED
    BY <2>1, <2>2, <2>3 DEF Policies
<1>4. ASSUME NEW a \in Agents
      PROVE  PendingIsLast(a) /\ Consecutive(a) /\ RingStores(a)
  <2>1. Decided(a) = 0 /\ observed[a] = <<>> /\ prev[a] = NoDecision
    BY <1>1, MarketAssumption DEF Decided, Agents, MarketAssumption
  <2>2. FirstComplete \in Nat /\ FirstComplete > 1
    BY LongestLag DEF FirstComplete
  <2>3. PendingIsLast(a)
    BY <2>1, <2>2 DEF PendingIsLast
  <2>4. Consecutive(a)
    <3>1. Trained(a) = 0
      BY <1>2, <2>1, TrainedIs, Window
    <3> QED
      BY <2>1, <2>2, <3>1 DEF Consecutive, Larger
  <2>5. RingStores(a)
    <3>1. config[a].buffer_size \in Nat \ {0} /\ Empty \in Stored
      BY <1>1, Constants DEF Stored
    <3>2. config[a].algorithm \in {"DDPG", "RDPG"} =>
            policy[a].buffer = Ring(config[a].buffer_size)
      BY <1>1 DEF NewPolicy
    <3> QED
      BY <2>1, <3>1, <3>2, NewRing DEF RingStores
  <2> QED
    BY <2>3, <2>4, <2>5
<1> QED
  BY <1>2, <1>3, <1>4 DEF Invariant

\* The step of an agent (agent_service.step): its own part of the invariant
\* changes, that of the others does not.
LEMMA Steps ==
  ASSUME Invariant, NEW a \in Agents, step(a)
  PROVE  Invariant'
<1>1. /\ turn = a /\ turn' = a + 1 /\ t' = t
      /\ UNCHANGED <<config, learning_starts, evaluate_only, ptf_history,
                     last_outcomes, log>>
      /\ policy' = [policy EXCEPT ![a] = Learned(a)]
      /\ observed' = IF Learns(a)
                     THEN [observed EXCEPT ![a] = Append(@, Transition(a))]
                     ELSE observed
      /\ intervened' = intervened \cup Due(a)
      /\ prev' = [prev EXCEPT ![a] = Pending(a)]
  BY DEF step, built, market
<1>2. Clock /\ Policies
  BY DEF Invariant
<1>3. \A b \in Agents : PendingIsLast(b) /\ Consecutive(b) /\ RingStores(b)
  BY DEF Invariant
<1>4. Due(a) \subseteq PlantsOf(a) /\ PlantsOf(a) \subseteq Plants
  BY DEF Due, PlantsOf
<1>5. Clock'
  <2>1. intervened' \subseteq {p \in Plants : Owner[p] < turn'}
    <3>1. \A p \in intervened : p \in Plants /\ Owner[p] < a
      BY <1>1, <1>2 DEF Clock
    <3>2. \A p \in Due(a) : p \in Plants /\ Owner[p] = a
      BY <1>4 DEF PlantsOf
    <3>3. a \in Nat /\ \A p \in Plants : Owner[p] \in Nat
      BY Constants, MarketAssumption DEF Agents
    <3> QED
      BY <1>1, <3>1, <3>2, <3>3
  <2>2. turn' \in 1 .. NAgents + 1
    BY <1>1, Constants DEF Agents
  <2> QED
    BY <1>1, <1>2, <2>1, <2>2 DEF Clock
<1>6. /\ Decided(a) = t - 1 /\ Decided(a)' = t
      /\ \A b \in Agents : b # a => Decided(b)' = Decided(b)
  <2>1. a \in Nat /\ Agents \subseteq Nat
    BY Constants DEF Agents
  <2> QED
    BY <1>1, <2>1 DEF Decided
<1>7. IsPolicy(policy[a]) /\ IsPolicy(Learned(a))
  BY <1>2, LearnedIs DEF Policies
<1>8. t \in Nat \ {0} /\ FirstComplete \in Nat /\ FirstComplete > 1
  BY <1>2, LongestLag DEF Clock, FirstComplete
<1>9. Pending(a) = IF FirstComplete <= t
                   THEN [decision |-> t, network |-> Len(Learned(a).updates),
                         intervened |-> Due(a) # {}]
                   ELSE NoDecision
  BY <1>2, CompleteFrom DEF Pending
<1>10. Pending(a) \in {NoDecision} \cup Decision
  <2>1. Len(Learned(a).updates) \in Nat
    BY <1>7 DEF IsPolicy
  <2> QED
    BY <1>8, <1>9, <2>1 DEF Decision
<1>11. prev[a] # NoDecision =>
         /\ prev[a] \in Decision /\ prev[a].decision = t - 1
         /\ FirstComplete <= t - 1
         /\ prev[a].intervened <=> log[t - 1].intervened \cap PlantsOf(a) # {}
  <2>1. turn > a <=> FALSE
    BY <1>1, Constants DEF Agents
  <2>2. PendingIsLast(a)
    BY <1>3
  <2> QED
    BY <1>6, <1>8, <2>1, <2>2 DEF PendingIsLast, Replaced
<1>12. Learns(a) => Transition(a) \in Stored
  <2>1. last_outcomes[a].period = t - 1
    BY <1>2 DEF Clock
  <2>2. Learns(a) => prev[a] \in Decision /\ t - 1 \in Nat
    BY <1>8, <1>11 DEF Learns
  <2> QED
    BY <1>8, <2>1, <2>2 DEF Transition, Decision, Stored, Experience
<1>13. Policies'
  <2>1. \A b \in Agents : policy'[b] = IF b = a THEN Learned(a) ELSE policy[b]
    BY <1>1, <1>2 DEF Policies
  <2>2. policy' = [b \in Agents |-> policy'[b]]
    BY <1>1, <1>2 DEF Policies
  <2>3. \A b \in Agents : IsPolicy(policy[b])
    BY <1>2 DEF Policies
  <2>4. \A b \in Agents : IsPolicy(policy'[b])
    BY <1>7, <2>1, <2>3
  <2>5. observed' \in [Agents -> Seq(Stored)]
    <3>1. observed \in [Agents -> Seq(Stored)]
      BY <1>2 DEF Policies
    <3> QED
      BY <1>1, <1>12, <3>1
  <2>6. prev' \in [Agents -> {NoDecision} \cup Decision]
    BY <1>1, <1>2, <1>10 DEF Policies
  <2>7. (\A b \in Agents : IsPolicy(policy[b]))'
    BY <2>4 DEF Agents
  <2> QED
    BY <2>2, <2>5, <2>6, <2>7 DEF Policies
\* The other agents are where they were.
<1>14. ASSUME NEW b \in Agents, b # a
       PROVE  (PendingIsLast(b) /\ Consecutive(b) /\ RingStores(b))'
  <2>1. /\ Decided(b)' = Decided(b) /\ prev'[b] = prev[b]
        /\ policy'[b] = policy[b] /\ observed'[b] = observed[b]
    BY <1>1, <1>2, <1>6, <1>14 DEF Policies
  <2>2. Replaced(b)' <=> Replaced(b)
    <3>1. turn' > b <=> turn > b
      BY <1>1, <1>14, Constants DEF Agents
    <3>2. Due(a) \cap PlantsOf(b) = {}
      BY <1>4, <1>14 DEF PlantsOf
    <3>3. (intervened' \cap PlantsOf(b)) = (intervened \cap PlantsOf(b))
      BY <1>1, <3>2
    <3> QED
      BY <1>1, <3>1, <3>3 DEF Replaced, PlantsOf
  <2>3. PendingIsLast(b)'
    BY <1>3, <2>1, <2>2 DEF PendingIsLast, FirstComplete
  <2>4. Consecutive(b)'
    <3>1. Trained(b)' = Trained(b)
      <4>1. (turn' > b <=> turn > b) /\ t' = t
        BY <1>1, <1>14, Constants DEF Agents
      <4> QED
        BY <1>1, <4>1 DEF Trained, is_learning, evaluation_start
    <3> QED
      <4>1. Consecutive(b)
        BY <1>3
      <4>2. /\ observed'[b] = observed[b] /\ log' = log
            /\ Trained(b)' = Trained(b)
        BY <1>1, <2>1, <3>1
      <4> QED
        BY <4>1, <4>2 DEF Consecutive, FirstComplete, PlantsOf, Larger
  <2>5. RingStores(b)'
    BY <1>1, <1>3, <2>1 DEF RingStores
  <2> QED
    BY <2>3, <2>4, <2>5
\* The agent that has stepped.
<1>15. PendingIsLast(a)'
  <2>1. prev'[a] = Pending(a)
    BY <1>1, <1>2 DEF Policies
  <2>2. turn' > a
    BY <1>1, Constants DEF Agents
  <2>3. Replaced(a)' <=> Due(a) # {}
    <3>1. intervened \cap PlantsOf(a) = {}
      <4>1. a \in Nat /\ \A p \in intervened : Owner[p] < a
        BY <1>1, <1>2, Constants DEF Clock, Agents
      <4> QED
        BY <4>1 DEF PlantsOf
    <3>2. intervened' \cap PlantsOf(a) = Due(a)
      BY <1>1, <1>4, <3>1
    <3> QED
      BY <2>2, <3>2 DEF Replaced, PlantsOf
  <2>4. Pending(a) # NoDecision <=> FirstComplete <= t
    BY <1>8, <1>9 DEF NoDecision
  <2>5. FirstComplete <= t => /\ Pending(a) \in Decision
                              /\ Pending(a).decision = t
                              /\ Pending(a).intervened <=> Due(a) # {}
    <3>1. CASE FirstComplete <= t
      <4>1. Pending(a) = [decision |-> t, network |-> Len(Learned(a).updates),
                          intervened |-> Due(a) # {}]
        BY <1>9, <3>1
      <4>2. Pending(a).decision = t
        BY <4>1
      <4>3. Pending(a).intervened <=> Due(a) # {}
        <5>1. CASE Due(a) = {}
          <6>1. Pending(a) = [decision |-> t, network |-> Len(Learned(a).updates),
                              intervened |-> FALSE]
            BY <4>1, <5>1
          <6> QED
            BY <5>1, <6>1
        <5>2. CASE Due(a) # {}
          <6>1. Pending(a) = [decision |-> t, network |-> Len(Learned(a).updates),
                              intervened |-> TRUE]
            BY <4>1, <5>2
          <6> QED
            BY <5>2, <6>1
        <5> QED
          BY <5>1, <5>2
      <4> QED
        BY <1>10, <2>4, <3>1, <4>2, <4>3
    <3> QED
      BY <3>1
  <2> QED
    BY <1>6, <1>8, <2>1, <2>3, <2>4, <2>5 DEF PendingIsLast, FirstComplete
\* The step stores a transition iff training goes on past FirstComplete.
<1>16. Learns(a) <=> /\ is_learning(a) /\ a \notin evaluate_only
                     /\ t < evaluation_start /\ FirstComplete <= t - 1
  <2>1. complete <=> FirstComplete <= t
    BY <1>2, CompleteFrom
  <2>2. prev[a] # NoDecision <=> FirstComplete <= t - 1
    <3>1. FirstComplete <= t - 1 => prev[a] \in Decision
      BY <1>3, <1>6, <1>8 DEF PendingIsLast
    <3>2. NoDecision \notin Decision
      BY DEF NoDecision, Decision
    <3> QED
      BY <1>11, <3>1, <3>2
  <2>3. phase_for(a) = "TRAIN" <=> a \notin evaluate_only /\ t < evaluation_start
    BY <1>8, Window DEF phase_for
  <2> QED
    BY <1>8, <2>1, <2>2, <2>3 DEF Learns
<1>17. /\ Learns(a) => observed'[a] = Append(observed[a], Transition(a))
       /\ ~Learns(a) => observed'[a] = observed[a]
       /\ observed[a] \in Seq(Stored)
       /\ policy'[a] = Learned(a)
  BY <1>1, <1>2 DEF Policies
<1>18. Consecutive(a)'
  <2> DEFINE n == Len(observed[a])
  <2>1. n = Larger(0, Trained(a) - FirstComplete)
    BY <1>3 DEF Consecutive
  <2>2. /\ Trained(a) = IF a \in evaluate_only \/ ~is_learning(a) THEN 0
                        ELSE IF t - 1 < evaluation_start - 1 THEN t - 1
                        ELSE evaluation_start - 1
        /\ Trained(a)' = IF a \in evaluate_only \/ ~is_learning(a) THEN 0
                         ELSE IF t < evaluation_start - 1 THEN t
                         ELSE evaluation_start - 1
    <3>1. (Trained(a) = IF a \in evaluate_only \/ ~is_learning(a) THEN 0
                        ELSE IF Decided(a) < evaluation_start - 1 THEN Decided(a)
                        ELSE evaluation_start - 1)'
      BY <1>5, TrainedIs, PTL
    <3> QED
      BY <1>1, <1>2, <1>6, <3>1, TrainedIs DEF is_learning, evaluation_start
  <2>3. CASE ~Learns(a)
    <3>1. Larger(0, Trained(a)' - FirstComplete)
            = Larger(0, Trained(a) - FirstComplete)
      BY <1>8, <1>16, <2>2, <2>3, Window DEF Larger
    <3> QED
      BY <1>1, <1>3, <1>17, <2>3, <3>1 DEF Consecutive, FirstComplete, PlantsOf, Larger
  <2>4. CASE Learns(a)
    <3>1. /\ Trained(a) = t - 1 /\ Trained(a)' = t
          /\ n = t - 1 - FirstComplete
          /\ Larger(0, Trained(a)' - FirstComplete) = n + 1
      BY <1>8, <1>16, <2>1, <2>2, <2>4, Window DEF Larger
    <3>2. observed'[a] = Append(observed[a], Transition(a))
      BY <1>17, <2>4
    <3>3. /\ Len(observed'[a]) = n + 1
          /\ observed'[a][n + 1] = Transition(a)
          /\ \A i \in 1 .. n : observed'[a][i] = observed[a][i]
          /\ DOMAIN observed[a] = 1 .. n /\ DOMAIN observed'[a] = 1 .. n + 1
      BY <1>17, <3>2
    <3>4. /\ Transition(a).decision = FirstComplete + (n + 1) - 1
          /\ Transition(a).outcome = Transition(a).decision
          /\ Transition(a).next = Transition(a).decision + 1
          /\ Transition(a).intervened
               <=> log[Transition(a).decision].intervened \cap PlantsOf(a) # {}
      <4>1. /\ prev[a].decision = t - 1
            /\ prev[a].intervened <=> log[t - 1].intervened \cap PlantsOf(a) # {}
        BY <1>11, <2>4 DEF Learns
      <4>2. last_outcomes[a].period = t - 1
        BY <1>2 DEF Clock
      <4> QED
        BY <1>8, <3>1, <4>1, <4>2 DEF Transition
    <3>5. ASSUME NEW i \in 1 .. n + 1
          PROVE  /\ observed'[a][i].decision = FirstComplete + i - 1
                 /\ observed'[a][i].outcome = observed'[a][i].decision
                 /\ observed'[a][i].next = observed'[a][i].decision + 1
                 /\ observed'[a][i].intervened
                      <=> log[observed'[a][i].decision].intervened
                            \cap PlantsOf(a) # {}
      <4>1. CASE i = n + 1
        BY <3>3, <3>4, <4>1
      <4>2. CASE i # n + 1
        <5>1. i \in 1 .. n
          BY <1>17, <4>2
        <5> QED
          <6>1. /\ observed[a][i].decision = FirstComplete + i - 1
                /\ observed[a][i].outcome = observed[a][i].decision
                /\ observed[a][i].next = observed[a][i].decision + 1
                /\ observed[a][i].intervened
                     <=> log[observed[a][i].decision].intervened \cap PlantsOf(a) # {}
            BY <1>3, <3>3, <5>1 DEF Consecutive
          <6>2. observed'[a][i] = observed[a][i]
            BY <3>3, <5>1
          <6> QED
            BY <6>1, <6>2
      <4> QED
        BY <4>1, <4>2
    <3> QED
      BY <1>1, <3>1, <3>3, <3>5 DEF Consecutive, FirstComplete, PlantsOf, Larger
  <2> QED
    BY <2>3, <2>4
<1>19. RingStores(a)'
  <2>1. SUFFICES ASSUME config[a].algorithm \in {"DDPG", "RDPG"}
                 PROVE  Stores(policy'[a].buffer, config[a].buffer_size, Stored,
                               observed'[a])
    BY <1>1 DEF RingStores, Stored, Experience
  <2>2. /\ Stores(policy[a].buffer, config[a].buffer_size, Stored, observed[a])
        /\ config[a].buffer_size \in Nat \ {0}
        /\ ~is_on_policy(a)
    BY <1>2, <1>3, <2>1, Constants DEF RingStores, Clock, is_on_policy
  <2>3. CASE Learns(a)
    <3>1. Learned(a).buffer = RingAdd(policy[a].buffer, Transition(a))
      BY <1>2, <1>7, <2>2, <2>3, LearnedIs
    <3>2. Stores(RingAdd(policy[a].buffer, Transition(a)), config[a].buffer_size,
                 Stored, Append(observed[a], Transition(a)))
      BY <1>12, <1>17, <2>2, <2>3, RingAddStores
    <3> QED
      BY <1>17, <2>3, <3>1, <3>2
  <2>4. CASE ~Learns(a)
    BY <1>2, <1>7, <1>17, <2>2, <2>4, LearnedIs
  <2> QED
    BY <2>3, <2>4
<1> QED
  <2>1. \A b \in Agents : (PendingIsLast(b) /\ Consecutive(b) /\ RingStores(b))'
    BY <1>14, <1>15, <1>18, <1>19
  <2> QED
    BY <1>5, <1>13, <2>1 DEF Invariant

\* The clearing of a period (run_period): the place in the period is reset, and
\* what was true of the current period becomes true of the log.
LEMMA Clearings ==
  ASSUME Invariant, NEW demand \in Demands, ClearMarket(demand)
  PROVE  Invariant'
<1> DEFINE result == Clear(bids, demand)
<1>1. /\ turn = NAgents + 1 /\ turn' = 1 /\ t' = t + 1 /\ intervened' = {}
      /\ ptf_history' = Append(ptf_history, result.ptf)
      /\ UNCHANGED <<config, learning_starts, evaluate_only, prev, policy,
                     observed>>
      /\ Cleared(result, demand)
  BY DEF ClearMarket, built
<1>2. \E outcome :
        log' = Append(log, [failed |-> {p \in Plants : is_failure(p, outcome[p])},
                            intervened |-> intervened])
  BY DEF ClearMarket
<1>3. \A a \in Agents : last_outcomes'[a].period = t
  BY DEF ClearMarket
<1>4. Clock /\ Policies
  BY DEF Invariant
<1>5. \A a \in Agents : PendingIsLast(a) /\ Consecutive(a) /\ RingStores(a)
  BY DEF Invariant
<1> HIDE DEF result
<1>6. result.ptf \in Int
  <2>1. result.ptf \in Low .. High
    BY <1>1 DEF Cleared, validate_clearing_result
  <2> QED
    BY <2>1, MarketAssumption DEF MarketAssumption
<1>7. PICK entry \in [failed : SUBSET Plants, intervened : SUBSET Plants] :
        log' = Append(log, entry) /\ entry.intervened = intervened
  <2>1. intervened \subseteq Plants
    BY <1>4 DEF Clock
  <2> QED
    BY <1>2, <2>1
<1>8. t \in Nat \ {0} /\ FirstComplete \in Nat /\ FirstComplete > 1
  BY <1>4, LongestLag DEF Clock, FirstComplete
<1>9. Clock'
  <2>1. ptf_history' \in Seq(Int) /\ Len(ptf_history') = t' - 1
    BY <1>1, <1>4, <1>6 DEF Clock
  <2>2. /\ log' \in Seq([failed : SUBSET Plants, intervened : SUBSET Plants])
        /\ Len(log') = t' - 1
    BY <1>1, <1>4, <1>7 DEF Clock
  <2>3. \A a \in Agents : last_outcomes'[a].period = t' - 1
    BY <1>1, <1>3, <1>8
  <2>4. config' \in Configs /\ t' \in Nat \ {0} /\ turn' \in 1 .. NAgents + 1
    BY <1>1, <1>4, Constants DEF Clock
  <2> QED
    BY <1>1, <2>1, <2>2, <2>3, <2>4 DEF Clock
<1>10. Policies'
  BY <1>1, <1>4 DEF Policies, IsPolicy
<1>11. log'[t] = entry /\ \A i \in 1 .. t - 1 : log'[i] = log[i]
  BY <1>4, <1>7 DEF Clock
<1>12. ASSUME NEW a \in Agents
       PROVE  (PendingIsLast(a) /\ Consecutive(a) /\ RingStores(a))'
  <2>1. turn > a /\ ~(turn' > a) /\ Decided(a) = t /\ Decided(a)' = t
    BY <1>1, <1>8, Constants DEF Decided, Agents
  <2>2. Replaced(a)' <=> Replaced(a)
    <3>1. t' - 1 = t
      BY <1>1, <1>8
    <3> QED
      BY <1>7, <1>11, <2>1, <3>1 DEF Replaced, PlantsOf
  <2>3. PendingIsLast(a)'
    BY <1>1, <1>5, <2>1, <2>2 DEF PendingIsLast, FirstComplete
  <2>4. Consecutive(a)'
    <3>1. Trained(a)' = Trained(a)
      <4>1. t' - 1 = t
        BY <1>1, <1>8
      <4> QED
        BY <1>1, <2>1, <4>1 DEF Trained, is_learning, evaluation_start
    <3>2. Trained(a) \in Nat /\ Trained(a) <= t
      BY <1>4, <1>8, <2>1, TrainedIs, Window
    <3>3. /\ Consecutive(a) /\ observed[a] \in Seq(Stored)
          /\ observed'[a] = observed[a]
      BY <1>1, <1>4, <1>5 DEF Policies
    <3>4. \A i \in DOMAIN observed[a] : observed[a][i].decision \in 1 .. t - 1
      <4> TAKE i \in DOMAIN observed[a]
      <4>1. /\ i \in 1 .. Len(observed[a]) /\ Len(observed[a]) \in Nat
            /\ Len(observed[a]) = Larger(0, Trained(a) - FirstComplete)
            /\ observed[a][i].decision = FirstComplete + i - 1
        BY <3>3 DEF Consecutive
      <4>2. Len(observed[a]) = Trained(a) - FirstComplete
        BY <4>1, <3>2, <1>8 DEF Larger
      <4> QED
        BY <4>1, <4>2, <3>2, <1>8
    <3>5. \A i \in DOMAIN observed[a] :
            log'[observed[a][i].decision] = log[observed[a][i].decision]
      BY <1>11, <3>4
    <3> QED
      BY <3>1, <3>3, <3>5 DEF Consecutive, FirstComplete, PlantsOf, Larger
  <2>5. RingStores(a)'
    BY <1>1, <1>5 DEF RingStores
  <2> QED
    BY <2>3, <2>4, <2>5
<1> QED
  BY <1>9, <1>10, <1>12 DEF Invariant

\* A failed clearing and a step outside the run change none of it.
LEMMA Stutters ==
  ASSUME Invariant,
         UNCHANGED <<built, t, turn, intervened, market, prev, policy, observed>>
  PROVE  Invariant'
<1>1. Clock' /\ Policies'
  BY DEF Invariant, Clock, Policies, IsPolicy, built, market
<1>2. ASSUME NEW a \in Agents
      PROVE  (PendingIsLast(a) /\ Consecutive(a) /\ RingStores(a))'
  <2>1. PendingIsLast(a) /\ Consecutive(a) /\ RingStores(a)
    BY DEF Invariant
  <2>2. PendingIsLast(a)'
    BY <2>1 DEF PendingIsLast, Decided, Replaced, FirstComplete, PlantsOf, market
  <2>3. Consecutive(a)'
    BY <2>1 DEF Consecutive, FirstComplete, PlantsOf, Larger, Trained, is_learning,
                evaluation_start, market, built
  <2>4. RingStores(a)'
    BY <2>1 DEF RingStores, built
  <2> QED
    BY <2>2, <2>3, <2>4
<1> QED
  BY <1>1, <1>2 DEF Invariant

\* The invariant holds in every state.
THEOREM Inductive == Spec => []Invariant
<1>1. Init => Invariant
  BY Starts
<1>2. Invariant /\ [Next]_vars => Invariant'
  <2> SUFFICES ASSUME Invariant, [Next]_vars
               PROVE  Invariant'
    OBVIOUS
  <2>1. ASSUME NEW a \in Agents, step(a)
        PROVE  Invariant'
    BY <2>1, Steps
  <2>2. ASSUME NEW demand \in Demands, ClearMarket(demand)
        PROVE  Invariant'
    BY <2>2, Clearings
  <2>3. ASSUME NEW demand \in Demands, ClearingFails(demand)
        PROVE  Invariant'
    BY <2>3, Stutters DEF ClearingFails
  <2>4. CASE UNCHANGED vars
    BY <2>4, Stutters DEF vars
  <2> QED
    BY <2>1, <2>2, <2>3, <2>4 DEF Next
<1> QED
  BY <1>1, <1>2, PTL DEF Spec

-----------------------------------------------------------------------------
(***************************************************************************)
(* Results.                                                                *)
(***************************************************************************)

\* For all agents, plants, lags, phases and outcomes of the clearing, a
\* learning policy is given every decision of its training exactly once, in
\* order and with its own outcome, and nothing else (agent_service.step).
THEOREM ExperienceIsRight == Spec => []ExperienceIsConsecutive
<1>1. Invariant => ExperienceIsConsecutive
  BY DEF Invariant, Consecutive, ExperienceIsConsecutive, FirstComplete
<1> QED
  BY <1>1, Inductive, PTL

\* The last m elements of a sequence.
LEMMA LastOf ==
  ASSUME NEW S, NEW h \in Seq(S), NEW m \in 0 .. Len(h)
  PROVE  /\ SubSeq(h, Len(h) - m + 1, Len(h)) \in Seq(S)
         /\ Len(SubSeq(h, Len(h) - m + 1, Len(h))) = m
         /\ \A j \in 1 .. m :
              SubSeq(h, Len(h) - m + 1, Len(h))[j] = h[Len(h) - m + j]
<1>1. Len(h) \in Nat /\ Len(h) - m + 1 \in 1 .. Len(h) + 1
  OBVIOUS
<1>2. SubSeq(h, Len(h) - m + 1, Len(h)) \in Seq(S)
  BY <1>1
<1>3. Len(SubSeq(h, Len(h) - m + 1, Len(h))) = m
  BY <1>1
<1>4. ASSUME NEW j \in 1 .. m
      PROVE  SubSeq(h, Len(h) - m + 1, Len(h))[j] = h[Len(h) - m + j]
  BY <1>1
<1> QED
  BY <1>2, <1>3, <1>4

\* For every capacity and window length, the ring holds the latest transitions
\* and every window is a piece of the trajectory (ReplayBuffer.add,
\* _chronological, sample_sequences).
THEOREM RingIsRight == Spec => []RingHoldsLatest
<1>1. Invariant => RingHoldsLatest
  <2> SUFFICES ASSUME Invariant, NEW a \in Agents,
                      config[a].algorithm \in {"DDPG", "RDPG"}
               PROVE  LET n == Len(observed[a])
                          kept == Min({n, config[a].buffer_size})
                      IN  /\ Chronological(policy[a].buffer)
                               = SubSeq(observed[a], n - kept + 1, n)
                          /\ \A w \in Windows(policy[a].buffer, config[a].seq_len) :
                               \A i \in 1 .. Len(w) - 1 :
                                 w[i].next = w[i + 1].decision
    BY DEF RingHoldsLatest
  <2> DEFINE n == Len(observed[a])
             c == config[a].buffer_size
             r == policy[a].buffer
             latest == SubSeq(observed[a], n - Kept(n, c) + 1, n)
  <2>1. /\ c \in Nat \ {0} /\ observed[a] \in Seq(Stored) /\ n \in Nat
        /\ Stores(r, c, Stored, observed[a]) /\ Consecutive(a)
    BY Constants DEF Invariant, RingStores, Clock, Policies
  <2>2. Kept(n, c) = Min({n, c}) /\ Kept(n, c) \in 0 .. n
    <3> HIDE DEF n, c
    <3>1. n \in Nat /\ c \in Nat
      BY <2>1
    <3>2. Min({n, c}) = IF n < c THEN n ELSE c
      BY <3>1, SmallerOfTwo
    <3> QED
      BY <3>1, <3>2 DEF Kept
  <2>3. Chronological(r) = latest
    BY <2>1, ChronologicalIsLatest
  <2>4. r.size = Kept(n, c)
    BY <2>1 DEF Stores
  <2>5. /\ latest \in Seq(Stored) /\ Len(latest) = Kept(n, c)
        /\ \A j \in 1 .. Kept(n, c) : latest[j] = observed[a][n - Kept(n, c) + j]
    BY <2>1, <2>2, LastOf
  <2> HIDE DEF latest, n, c, r
  <2>6. ASSUME NEW j \in 1 .. Kept(n, c) - 1
        PROVE  latest[j].next = latest[j + 1].decision
    <3> DEFINE k == n - Kept(n, c) + j
    <3>1. k \in 1 .. n /\ k + 1 \in 1 .. n /\ n - Kept(n, c) + (j + 1) = k + 1
      BY <2>1, <2>2
    <3> HIDE DEF k
    <3>2. latest[j] = observed[a][k] /\ latest[j + 1] = observed[a][k + 1]
      <4>1. j \in 1 .. Kept(n, c) /\ j + 1 \in 1 .. Kept(n, c)
        BY <2>1, <2>2
      <4> QED
        BY <2>5, <3>1, <4>1 DEF k
    <3>3. /\ observed[a][k].next = FirstComplete + k - 1 + 1
          /\ observed[a][k + 1].decision = FirstComplete + (k + 1) - 1
      <4>1. DOMAIN observed[a] = 1 .. n
        BY <2>1 DEF n
      <4> QED
        BY <2>1, <3>1, <4>1 DEF Consecutive
    <3>4. FirstComplete \in Nat
      BY LongestLag DEF FirstComplete
    <3> QED
      BY <3>1, <3>2, <3>3, <3>4
  <2>7. ASSUME NEW w \in Windows(r, config[a].seq_len), NEW i \in 1 .. Len(w) - 1
        PROVE  w[i].next = w[i + 1].decision
    <3>1. config[a].seq_len \in Nat \ {0}
      BY MarketAssumption DEF MarketAssumption, Invariant, Clock
    <3>2. PICK s \in 1 .. Kept(n, c) - config[a].seq_len + 1 :
            w = SubSeq(latest, s, s + config[a].seq_len - 1)
      BY <2>3, <2>4 DEF Windows
    <3>4. /\ Len(w) = config[a].seq_len
          /\ w[i] = latest[s + i - 1] /\ w[i + 1] = latest[s + i]
      <4> DEFINE l == config[a].seq_len
                 kept == Kept(n, c)
      <4>1. /\ kept \in Nat /\ s \in Nat /\ s >= 1 /\ s + l - 1 <= kept
            /\ (s + l - 1) - s + 1 = l
        BY <2>1, <2>2, <3>1
      <4>2. latest \in Seq(Stored) /\ Len(latest) = kept
        BY <2>5
      <4> HIDE DEF l, kept
      <4>3. l \in Nat \ {0}
        BY <3>1 DEF l
      <4>4. w = SubSeq(latest, s, s + l - 1)
        BY <3>2 DEF l
      <4>5. Len(w) = l
        BY <4>1, <4>2, <4>3, <4>4
      <4>6. i \in 1 .. l /\ i + 1 \in 1 .. l
        BY <4>3, <4>5
      <4>7. \A j \in 1 .. l : w[j] = latest[s + j - 1]
        BY <4>1, <4>2, <4>3, <4>4
      <4>8. s + (i + 1) - 1 = s + i
        BY <4>1, <4>6
      <4> QED
        BY <4>5, <4>6, <4>7, <4>8 DEF l
    <3>5. s + i - 1 \in 1 .. Kept(n, c) - 1 /\ (s + i - 1) + 1 = s + i
      <4> DEFINE l == config[a].seq_len
                 kept == Kept(n, c)
      <4>1. kept \in Nat /\ s \in Nat /\ s >= 1 /\ s + l - 1 <= kept
        BY <2>1, <2>2, <3>1
      <4>2. l \in Nat \ {0} /\ i \in 1 .. l - 1
        BY <3>1, <3>4
      <4> HIDE DEF l, kept
      <4>3. s + i - 1 \in 1 .. kept - 1 /\ (s + i - 1) + 1 = s + i
        BY <4>1, <4>2
      <4> QED
        BY <4>3 DEF kept
    <3> QED
      BY <2>6, <3>4, <3>5
  <2> QED
    BY <2>2, <2>3, <2>7 DEF latest, n, c, r
<1> QED
  BY <1>1, Inductive, PTL

-----------------------------------------------------------------------------
(***************************************************************************)
(* The fail-stack replaces a price exactly when it should                  *)
(* (InterventionExact), for any limit, evaluation window, frozen policies  *)
(* and market outcomes.                                                    *)
(*                                                                         *)
(* The property speaks of the log of the whole run, the code has only a    *)
(* counter, which it updates from the outcomes in memory, one period late. *)
(* StreakOf says what the counter means: it is the length of the longest   *)
(* run of failures before the agent's last step without a replacement.     *)
(***************************************************************************)
(* Counting, given the periods F in which a plant failed and the periods R *)
(* in which its price was replaced.                                        *)

\* The failures before period n call for a replacement in it.
ExpectedOf(F, R, limit, n) ==
  /\ limit < n
  /\ \A m \in n - limit .. n - 1 : m \in F
  /\ \A m \in n - limit + 1 .. n - 1 : m \notin R

\* The counter c of a plant after a step in period d: failures in the c periods
\* before d, no replacement since the second of them, and no longer such run.
StreakOf(F, R, c, d) ==
  /\ c <= d
  /\ c = d => d = 0
  /\ \A m \in d - c .. d - 1 : m \in F
  /\ \A m \in d - c + 1 .. d : m \notin R
  /\ d - c >= 2 => d - c - 1 \notin F \/ d - c \in R

\* One more failure reaches the limit exactly when a replacement is called for.
LEMMA LimitReached ==
  ASSUME NEW F, NEW R, NEW limit \in Nat, NEW c \in Nat, NEW n \in Nat, n >= 2,
         c < limit, StreakOf(F, R, c, n - 1)
  PROVE  n - 1 \in F /\ c + 1 = limit <=> ExpectedOf(F, R, limit, n)
<1>1. /\ c <= n - 2
      /\ \A m \in n - 1 - c .. n - 2 : m \in F
      /\ \A m \in n - c .. n - 1 : m \notin R
      /\ n - 1 - c >= 2 => n - 2 - c \notin F \/ n - 1 - c \in R
  BY DEF StreakOf
<1>2. CASE n - 1 \in F /\ c + 1 = limit
  <2>1. limit < n
    BY <1>1, <1>2
  <2>2. \A m \in n - limit .. n - 1 : m \in F
    BY <1>1, <1>2
  <2>3. \A m \in n - limit + 1 .. n - 1 : m \notin R
    BY <1>1, <1>2
  <2> QED BY <1>2, <2>1, <2>2, <2>3 DEF ExpectedOf
<1>3. CASE n - 1 \notin F
  <2>1. n - 1 \in n - limit .. n - 1
    OBVIOUS
  <2> QED BY <1>3, <2>1 DEF ExpectedOf
<1>4. CASE c + 1 # limit
  <2>1. CASE n - 1 - c >= 2
    <3>1. n - 2 - c \in n - limit .. n - 1 /\ n - 1 - c \in n - limit + 1 .. n - 1
      BY <1>4, <2>1
    <3> QED BY <1>1, <1>4, <2>1, <3>1 DEF ExpectedOf
  <2>2. CASE ~(n - 1 - c >= 2)
    <3>1. ~(limit < n)
      BY <1>1, <1>4, <2>2
    <3> QED BY <1>4, <3>1 DEF ExpectedOf
  <2> QED BY <2>1, <2>2
<1> QED BY <1>2, <1>3, <1>4

\* A failure makes the run longer, unless the price is replaced.
LEMMA Longer ==
  ASSUME NEW F, NEW R, NEW c \in Nat, NEW n \in Nat, n >= 2,
         StreakOf(F, R, c, n - 1), n - 1 \in F, n \notin R
  PROVE  StreakOf(F, R, c + 1, n)
<1>1. /\ c <= n - 2
      /\ \A m \in n - 1 - c .. n - 2 : m \in F
      /\ \A m \in n - c .. n - 1 : m \notin R
      /\ n - 1 - c >= 2 => n - 2 - c \notin F \/ n - 1 - c \in R
  BY DEF StreakOf
<1>2. \A m \in n - (c + 1) .. n - 1 : m \in F
  BY <1>1
<1>3. \A m \in n - (c + 1) + 1 .. n : m \notin R
  BY <1>1
<1>4. n - (c + 1) >= 2 => n - (c + 1) - 1 \notin F \/ n - (c + 1) \in R
  <2>1. n - (c + 1) = n - 1 - c /\ n - (c + 1) - 1 = n - 2 - c
    OBVIOUS
  <2> QED BY <1>1, <2>1
<1>5. c + 1 <= n /\ c + 1 # n
  BY <1>1
<1> QED BY <1>2, <1>3, <1>4, <1>5 DEF StreakOf

\* A success or a replacement ends it.
LEMMA Over ==
  ASSUME NEW F, NEW R, NEW n \in Nat \ {0},
         n >= 2 => n - 1 \notin F \/ n \in R
  PROVE  StreakOf(F, R, 0, n)
<1>1. n - 0 = n /\ n - 0 + 1 = n + 1 /\ n - 0 - 1 = n - 1
  OBVIOUS
<1>2. \A m \in n .. n - 1 : m \in F
  OBVIOUS
<1>3. \A m \in n + 1 .. n : m \notin R
  OBVIOUS
<1> QED BY <1>1, <1>2, <1>3 DEF StreakOf

\* Only what happened before counts.
LEMMA PastOnly ==
  ASSUME NEW F, NEW R, NEW G, NEW S, NEW n \in Nat,
         \A m \in 1 .. n - 1 : (m \in F <=> m \in G) /\ (m \in R <=> m \in S)
  PROVE  /\ \A limit \in Nat : ExpectedOf(F, R, limit, n) <=> ExpectedOf(G, S, limit, n)
         /\ \A c \in Nat : (n \in R <=> n \in S) /\ StreakOf(F, R, c, n)
                             => StreakOf(G, S, c, n)
<1>1. ASSUME NEW limit \in Nat
      PROVE  ExpectedOf(F, R, limit, n) <=> ExpectedOf(G, S, limit, n)
  <2>1. CASE limit < n
    <3>1. \A m \in n - limit .. n - 1 : m \in 1 .. n - 1
      BY <2>1
    <3>2. \A m \in n - limit + 1 .. n - 1 : m \in 1 .. n - 1
      BY <2>1
    <3> QED BY <3>1, <3>2 DEF ExpectedOf
  <2>2. CASE ~(limit < n)
    BY <2>2 DEF ExpectedOf
  <2> QED BY <2>1, <2>2
<1>2. ASSUME NEW c \in Nat, n \in R <=> n \in S, StreakOf(F, R, c, n)
      PROVE  StreakOf(G, S, c, n)
  <2>1. c <= n /\ (c = n => n = 0)
    BY <1>2 DEF StreakOf
  <2>2. \A m \in n - c .. n - 1 : m \in 1 .. n - 1
    BY <2>1
  <2>3. \A m \in n - c + 1 .. n : m \in 1 .. n - 1 \/ m = n
    BY <2>1
  <2>4. n - c >= 2 => n - c - 1 \in 1 .. n - 1 /\ (n - c \in 1 .. n - 1 \/ n - c = n)
    BY <2>1
  <2> QED BY <1>2, <2>1, <2>2, <2>3, <2>4 DEF StreakOf
<1> QED BY <1>1, <1>2

-----------------------------------------------------------------------------
(* The invariant.                                                          *)

\* The fail-stack of an agent is on outside of the evaluation window.
On(a) == FailStack[a] > 0 /\ is_learning(a) /\ a \notin evaluate_only

Failures(p) == {n \in 1 .. t - 1 : p \in log[n].failed}

\* Those of the log, and that of the current period.
Replacements(p) ==
  {n \in 1 .. t - 1 : p \in log[n].intervened} \cup {n \in {t} : p \in intervened}

Streak(a, p) ==
  On(a) /\ Decided(a) < evaluation_start =>
    /\ counters[p] < FailStack[a]
    /\ StreakOf(Failures(p), Replacements(p), counters[p], Decided(a))

\* The outcomes in memory are those the log has of the last period.
Remembered(a, p) ==
  t > 1 => (t - 1 \in Failures(p) <=> is_failure(p, last_outcomes[a].offers[p]))

Exact(a, p) ==
  \A n \in 1 .. Decided(a) :
    n \in Replacements(p) <=>
      /\ On(a) /\ n < evaluation_start
      /\ ExpectedOf(Failures(p), Replacements(p), FailStack[a], n)

Right(a, p) == Streak(a, p) /\ Remembered(a, p) /\ Exact(a, p)

Counting ==
  /\ counters \in [Plants -> Nat]
  /\ \A a \in Agents : \A p \in PlantsOf(a) : Right(a, p)

LEMMA Numbers ==
  ASSUME Clock, NEW a \in Agents
  PROVE  /\ FailStack[a] \in Nat /\ a \in Nat /\ turn \in Nat /\ t \in Nat \ {0}
         /\ evaluation_start \in Nat /\ evaluation_start >= 2
         /\ Decided(a) = IF turn > a THEN t ELSE t - 1
BY MarketAssumption, Window, Turns DEF Clock, Decided

\* No price is replaced before the owner of the plant has stepped.
LEMMA NotYet ==
  ASSUME Clock, NEW a \in Agents, NEW p \in PlantsOf(a), ~(turn > a)
  PROVE  p \notin intervened
<1>1. a \in Nat /\ turn \in Nat
  BY Numbers
<1> QED BY <1>1 DEF Clock, PlantsOf

LEMMA Switched ==
  ASSUME Clock, NEW a \in Agents
  PROVE  failstack_on(a) <=> On(a) /\ t < evaluation_start
<1>1. t \in Nat /\ evaluation_start \in Nat
  BY Numbers
<1> QED BY <1>1 DEF failstack_on, phase_for, On

LEMMA StartsCounting == Init => Counting
<1> SUFFICES ASSUME Init PROVE Counting
  OBVIOUS
<1>1. counters = [p \in Plants |-> 0] /\ t = 1 /\ turn = 1
  BY DEF Init
<1>2. ASSUME NEW a \in Agents, NEW p \in PlantsOf(a)
      PROVE  Right(a, p)
  <2>1. Clock
    BY Starts DEF Invariant
  <2>2. Decided(a) = 0 /\ counters[p] = 0 /\ p \in Plants
    BY <1>1, <2>1, Numbers DEF PlantsOf, Agents
  <2>3. Streak(a, p)
    BY <2>1, <2>2, Numbers DEF Streak, StreakOf, On
  <2>4. Remembered(a, p) /\ Exact(a, p)
    BY <1>1, <2>2 DEF Remembered, Exact
  <2> QED BY <2>3, <2>4 DEF Right
<1> QED BY <1>1, <1>2 DEF Counting

\* A counter that a failure has raised to the limit is what calls for a
\* replacement, and nothing else does (apply_interventions).
LEMMA DueIsExpected ==
  ASSUME Clock, NEW a \in Agents, NEW p \in PlantsOf(a), turn = a,
         counters[p] \in Nat, Right(a, p)
  PROVE  p \in Due(a) <=>
           /\ On(a) /\ t < evaluation_start
           /\ ExpectedOf(Failures(p), Replacements(p), FailStack[a], t)
<1> DEFINE limit == FailStack[a]
           c == counters[p]
           F == Failures(p)
           R == Replacements(p)
<1>1. /\ limit \in Nat /\ c \in Nat /\ t \in Nat \ {0} /\ evaluation_start \in Nat
      /\ Decided(a) = t - 1
  BY Numbers
<1>2. t - 1 \in DOMAIN ptf_history <=> t > 1
  BY <1>1 DEF Clock
<1>3. CASE ~(On(a) /\ t < evaluation_start)
  BY <1>3, Switched DEF Due
<1>4. CASE On(a) /\ t < evaluation_start
  <2>1. limit > 0 /\ failstack_on(a)
    BY <1>1, <1>4, Switched DEF On
  <2>2. c < limit /\ StreakOf(F, R, c, t - 1)
    BY <1>1, <1>4 DEF Streak, Right
  <2>3. CASE t = 1
    <3>1. p \notin Due(a)
      BY <1>2, <2>3 DEF Due
    <3>2. ~ExpectedOf(F, R, limit, t)
      BY <1>1, <2>1, <2>3 DEF ExpectedOf
    <3> QED BY <3>1, <3>2
  <2>4. CASE t > 1
    <3>1. p \in Due(a) <=> t - 1 \in F /\ c + 1 = limit
      <4>1. Counted(a, p) = IF t - 1 \in F THEN c + 1 ELSE 0
        BY <2>1, <2>4 DEF Counted, Remembered, Right
      <4>2. p \in Due(a) <=> Counted(a, p) >= limit
        BY <1>2, <2>1, <2>4 DEF Due
      <4> HIDE DEF F
      <4> QED BY <1>1, <2>1, <2>2, <4>1, <4>2
    <3> HIDE DEF F, R, c, limit
    <3>2. t - 1 \in F /\ c + 1 = limit <=> ExpectedOf(F, R, limit, t)
      BY <1>1, <2>2, <2>4, LimitReached
    <3> QED BY <1>4, <3>1, <3>2 DEF F, R, limit
  <2> QED BY <1>1, <2>3, <2>4
<1> QED BY <1>3, <1>4

\* The step of the owner moves the run of failures on by one period
\* (update_counters, apply_interventions).
LEMMA StepCounts ==
  ASSUME Invariant, NEW a \in Agents, NEW p \in PlantsOf(a), step(a),
         counters[p] \in Nat, Right(a, p)
  PROVE  Right(a, p)'
<1> DEFINE limit == FailStack[a]
           c == counters[p]
           F == Failures(p)
           R == Replacements(p)
<1>1. /\ turn = a /\ turn' = a + 1 /\ t' = t
      /\ UNCHANGED <<config, evaluate_only, last_outcomes, log>>
      /\ intervened' = intervened \cup Due(a)
      /\ counters'[p] = IF p \in Due(a) THEN 0 ELSE Counted(a, p)
  BY DEF step, built, market, PlantsOf
<1>2. /\ limit \in Nat /\ c \in Nat /\ t \in Nat \ {0} /\ a \in Nat
      /\ evaluation_start \in Nat /\ Clock /\ Decided(a) = t - 1
  BY <1>1, Numbers DEF Invariant
<1>3. Decided(a)' = t
  BY <1>1, <1>2 DEF Decided
<1>4. F' = F /\ (On(a)' <=> On(a))
  BY <1>1 DEF Failures, On, is_learning
<1>5. R' = R \cup {n \in {t} : p \in Due(a)} /\ R \subseteq 1 .. t - 1
  <2>1. p \notin intervened
    BY <1>1, <1>2, NotYet
  <2> QED BY <1>1, <2>1 DEF Replacements
<1>6. p \in Due(a) <=> On(a) /\ t < evaluation_start /\ ExpectedOf(F, R, limit, t)
  BY <1>1, <1>2, DueIsExpected
<1>7. t \notin R /\ (t \in R' <=> p \in Due(a)) /\ \A m \in 1 .. t - 1 : m \in R' <=> m \in R
  BY <1>2, <1>5
<1>8. \A n \in 1 .. t : ExpectedOf(F', R', limit, n) <=> ExpectedOf(F, R, limit, n)
  <2> TAKE n \in 1 .. t
  <2>1. n \in Nat /\ \A m \in 1 .. n - 1 : m \in 1 .. t - 1
    BY <1>2
  <2> HIDE DEF F, R, limit
  <2> QED BY <1>2, <1>4, <1>7, <2>1, PastOnly
<1>9. Exact(a, p)'
  <2>1. \A n \in 1 .. t :
           n \in R' <=> On(a) /\ n < evaluation_start /\ ExpectedOf(F', R', limit, n)
    <3> TAKE n \in 1 .. t
    <3>1. CASE n = t
      BY <1>6, <1>7, <1>8, <3>1
    <3>2. CASE n # t
      <4>1. n \in 1 .. t - 1
        BY <1>2, <3>2
      <4>2. n \in R <=> On(a) /\ n < evaluation_start /\ ExpectedOf(F, R, limit, n)
        BY <1>2, <4>1 DEF Exact, Right
      <4> HIDE DEF F, R
      <4> QED BY <1>7, <1>8, <4>1, <4>2
    <3> QED BY <3>1, <3>2
  <2> QED BY <1>3, <1>4, <2>1 DEF Exact, evaluation_start
<1>10. Remembered(a, p)'
  BY <1>1, <1>4 DEF Remembered, is_failure, Right
<1>11. ASSUME On(a), t < evaluation_start
       PROVE  counters'[p] < limit /\ StreakOf(F', R', counters'[p], t)
  <2>1. limit > 0 /\ failstack_on(a)
    BY <1>2, <1>11, Switched DEF On
  <2>2. c < limit /\ StreakOf(F, R, c, t - 1)
    BY <1>2, <1>11 DEF Streak, Right
  <2>3. Counted(a, p) = IF t > 1 THEN IF t - 1 \in F THEN c + 1 ELSE 0 ELSE c
    BY <2>1 DEF Counted, Remembered, Right
  <2>4. t = 1 => c = 0
    BY <1>2, <2>2 DEF StreakOf
  <2>5. p \notin Due(a) /\ t > 1 => ~(Counted(a, p) >= limit)
    <3>1. t > 1 => t - 1 \in DOMAIN ptf_history
      BY <1>2 DEF Clock
    <3> QED BY <2>1, <3>1 DEF Due
  <2> DEFINE e == counters'[p]
  <2>6. CASE t > 1 /\ t - 1 \in F /\ p \notin Due(a)
    <3>1. e = c + 1 /\ c + 1 < limit
      BY <1>1, <1>2, <2>3, <2>5, <2>6
    <3>2. StreakOf(F, R', c, t - 1)
      <4>1. \A m \in 1 .. t - 1 - 1 : (m \in R <=> m \in R')
        BY <1>2, <1>7
      <4>2. t - 1 \in R <=> t - 1 \in R'
        BY <1>2, <1>7, <2>6
      <4>3. t - 1 \in Nat
        BY <1>2
      <4> HIDE DEF F, R, c
      <4> QED BY <1>2, <2>2, <4>1, <4>2, <4>3, PastOnly
    <3>3. t \notin R'
      BY <1>7, <2>6
    <3> HIDE DEF F, R, c, limit, e
    <3>4. StreakOf(F, R', c + 1, t)
      BY <1>2, <2>6, <3>2, <3>3, Longer
    <3> QED BY <1>4, <3>1, <3>4 DEF e
  <2>7. CASE ~(t > 1 /\ t - 1 \in F /\ p \notin Due(a))
    <3>1. e = 0
      BY <1>1, <1>2, <2>3, <2>4, <2>7
    <3>2. t >= 2 => t - 1 \notin F \/ t \in R'
      BY <1>2, <1>7, <2>7
    <3> HIDE DEF F, R, limit
    <3>3. StreakOf(F, R', 0, t)
      BY <1>2, <3>2, Over
    <3> QED BY <1>2, <1>4, <2>1, <3>1, <3>3
  <2> QED BY <2>6, <2>7
<1>12. Streak(a, p)'
  BY <1>3, <1>4, <1>11 DEF Streak, evaluation_start
<1> QED BY <1>9, <1>10, <1>12 DEF Right

\* The other plants: nothing they depend on changes.
LEMMA StepElsewhere ==
  ASSUME Invariant, NEW a \in Agents, step(a),
         NEW b \in Agents, NEW p \in PlantsOf(b), b # a, Right(b, p)
  PROVE  Right(b, p)'
<1>1. /\ turn = a /\ turn' = a + 1 /\ t' = t
      /\ UNCHANGED <<config, evaluate_only, last_outcomes, log>>
      /\ intervened' = intervened \cup Due(a)
      /\ counters' = [x \in Plants |->
                       IF x \notin PlantsOf(a) THEN counters[x]
                       ELSE IF x \in Due(a) THEN 0 ELSE Counted(a, x)]
  BY DEF step, built, market
<1>2. p \in Plants /\ p \notin PlantsOf(a) /\ p \notin Due(a)
  BY DEF Due, PlantsOf
<1>3. counters'[p] = counters[p] /\ (p \in intervened' <=> p \in intervened)
  BY <1>1, <1>2
<1>4. Decided(b)' = Decided(b)
  <2>1. a \in Nat /\ b \in Nat
    BY Numbers DEF Invariant
  <2> QED BY <1>1, <2>1 DEF Decided
<1>5. /\ Failures(p)' = Failures(p) /\ Replacements(p)' = Replacements(p)
      /\ On(b)' <=> On(b)
  BY <1>1, <1>3 DEF Failures, Replacements, On, is_learning
<1>6. Streak(b, p)' /\ Exact(b, p)'
  BY <1>3, <1>4, <1>5 DEF Right, Streak, Exact, evaluation_start
<1>7. Remembered(b, p)'
  BY <1>1, <1>5 DEF Right, Remembered, is_failure
<1> QED BY <1>6, <1>7 DEF Right

\* The clearing writes what the current period was into the log.
LEMMA ClearingCounts ==
  ASSUME Invariant, Counting, NEW demand \in Demands, ClearMarket(demand),
         NEW a \in Agents, NEW p \in PlantsOf(a)
  PROVE  Right(a, p)'
<1> DEFINE result == Clear(bids, demand)
           price == acceptance_prices(result, bids, Strategy)
           outcome == [x \in Plants |-> [accepted |-> result.accepted[x], price |-> price[x]]]
           entry == [failed |-> {x \in Plants : is_failure(x, outcome[x])},
                     intervened |-> intervened]
           c == counters[p]
           F == Failures(p)
           R == Replacements(p)
<1>1. /\ turn = NAgents + 1 /\ turn' = 1 /\ t' = t + 1 /\ intervened' = {}
      /\ UNCHANGED <<config, evaluate_only, counters>>
      /\ log' = Append(log, entry)
      /\ last_outcomes' = [b \in Agents |->
            [period |-> t, offers |-> [x \in PlantsOf(b) |-> outcome[x]]]]
  BY DEF ClearMarket, built
<1>2. /\ t \in Nat \ {0} /\ a \in 1 .. NAgents /\ NAgents \in Nat /\ Clock
      /\ p \in Plants /\ c \in Nat /\ FailStack[a] \in Nat
  BY Constants, Numbers DEF Invariant, Clock, Agents, PlantsOf, Counting
<1>3. Streak(a, p) /\ Exact(a, p)
  BY DEF Counting, Right
<1> HIDE DEF result, price, outcome
<1>4. log'[t] = entry /\ \A n \in 1 .. t - 1 : log'[n] = log[n]
  BY <1>1, <1>2 DEF Clock
<1>5. Decided(a) = t /\ Decided(a)' = t
  BY <1>1, <1>2 DEF Decided
<1>6. t' - 1 = t /\ 1 .. t' - 1 = 1 .. t
  BY <1>1, <1>2
<1>7. R' = R
  <2>1. ASSUME NEW n \in 1 .. t
        PROVE  p \in log'[n].intervened <=> n \in R
    <3>1. CASE n = t
      BY <1>2, <1>4, <3>1 DEF Replacements
    <3>2. CASE n # t
      BY <1>2, <1>4, <3>2 DEF Replacements
    <3> QED BY <3>1, <3>2
  <2>2. R \subseteq 1 .. t
    BY <1>2 DEF Replacements
  <2>3. R' = {n \in 1 .. t : p \in log'[n].intervened}
    BY <1>1, <1>6 DEF Replacements
  <2> HIDE DEF R
  <2> QED BY <2>1, <2>2, <2>3
<1>8. /\ \A m \in 1 .. t - 1 : m \in F <=> m \in F'
      /\ t \in F' <=> is_failure(p, outcome[p])
  BY <1>2, <1>4, <1>6 DEF Failures
<1>9. On(a)' <=> On(a)
  BY <1>1 DEF On, is_learning
<1>10. Remembered(a, p)'
  <2>1. last_outcomes'[a].offers[p] = outcome[p]
    BY <1>1
  <2> QED BY <1>6, <1>8, <2>1 DEF Remembered, is_failure
<1>11. Exact(a, p)'
  <2>1. ASSUME NEW n \in 1 .. t
        PROVE  n \in R' <=> On(a) /\ n < evaluation_start
                            /\ ExpectedOf(F', R', FailStack[a], n)
    <3>1. n \in R <=> On(a) /\ n < evaluation_start /\ ExpectedOf(F, R, FailStack[a], n)
      BY <1>3, <1>5 DEF Exact
    <3>2. n \in Nat /\ \A m \in 1 .. n - 1 : m \in 1 .. t - 1
      BY <1>2
    <3> HIDE DEF F, R
    <3>3. ExpectedOf(F, R, FailStack[a], n) <=> ExpectedOf(F', R', FailStack[a], n)
      BY <1>2, <1>7, <1>8, <3>2, PastOnly
    <3> QED BY <1>7, <3>1, <3>3
  <2> QED BY <1>5, <1>9, <2>1 DEF Exact, evaluation_start
<1>12. Streak(a, p)'
  <2>1. ASSUME On(a), t < evaluation_start
        PROVE  c < FailStack[a] /\ StreakOf(F', R', c, t)
    <3>1. c < FailStack[a] /\ StreakOf(F, R, c, t)
      BY <1>3, <1>5, <2>1 DEF Streak
    <3> HIDE DEF F, R, c
    <3> QED BY <1>2, <1>7, <1>8, <3>1, PastOnly
  <2> QED BY <1>1, <1>5, <1>9, <2>1 DEF Streak, evaluation_start
<1> QED BY <1>10, <1>11, <1>12 DEF Right

LEMMA KeepsCounting == Invariant /\ Counting /\ [Next]_vars => Counting'
<1> SUFFICES ASSUME Invariant, Counting, [Next]_vars PROVE Counting'
  OBVIOUS
<1>1. ASSUME NEW a \in Agents, step(a) PROVE Counting'
  <2>1. counters' \in [Plants -> Nat]
    <3>1. counters' = [p \in Plants |->
                         IF p \notin PlantsOf(a) THEN counters[p]
                         ELSE IF p \in Due(a) THEN 0 ELSE Counted(a, p)]
      BY <1>1 DEF step
    <3>2. \A p \in Plants : counters[p] \in Nat /\ Counted(a, p) \in Nat
      BY DEF Counting, Counted
    <3> QED BY <3>1, <3>2
  <2>2. ASSUME NEW b \in Agents, NEW p \in PlantsOf(b)
        PROVE  Right(b, p)'
    <3>1. counters[p] \in Nat /\ Right(b, p)
      BY DEF Counting, PlantsOf
    <3> QED BY <1>1, <3>1, StepCounts, StepElsewhere
  <2> QED BY <2>1, <2>2 DEF Counting, PlantsOf
<1>2. ASSUME NEW demand \in Demands, ClearMarket(demand) PROVE Counting'
  <2>1. counters' \in [Plants -> Nat]
    BY <1>2 DEF ClearMarket, Counting
  <2> QED BY <1>2, <2>1, ClearingCounts DEF Counting, PlantsOf
<1>3. ASSUME UNCHANGED <<built, t, turn, intervened, market, counters>>
      PROVE  Counting'
  <2>1. UNCHANGED <<config, evaluate_only, t, turn, intervened, log, last_outcomes, counters>>
    BY <1>3 DEF built, market
  <2>2. ASSUME NEW a \in Agents, NEW p \in PlantsOf(a)
        PROVE  Right(a, p)'
    <3>1. Right(a, p)
      BY DEF Counting
    <3>2. /\ Failures(p)' = Failures(p) /\ Replacements(p)' = Replacements(p)
          /\ (On(a)' <=> On(a)) /\ Decided(a)' = Decided(a)
      BY <2>1 DEF Failures, Replacements, On, is_learning, Decided
    <3> QED
      BY <2>1, <3>1, <3>2
      DEF Right, Streak, Exact, Remembered, is_failure, evaluation_start
  <2> QED BY <2>1, <2>2 DEF Counting, PlantsOf
<1> QED
  <2>1. ASSUME NEW demand \in Demands, ClearingFails(demand) PROVE Counting'
    BY <1>3, <2>1 DEF ClearingFails
  <2>2. CASE UNCHANGED vars
    BY <1>3, <2>2 DEF vars
  <2> QED BY <1>1, <1>2, <2>1, <2>2 DEF Next

\* The fail-stack replaces the price of a plant in exactly those training periods
\* before which the plant failed failstack_limit times in a row since its last
\* success and its last replacement (update_counters, apply_interventions).
THEOREM InterventionIsExact == Spec => []InterventionExact
<1>1. Invariant /\ Counting => InterventionExact
  <2> SUFFICES ASSUME Invariant, Counting,
                      NEW a \in Agents, NEW p \in PlantsOf(a), NEW n \in DOMAIN log
               PROVE  LET limit == FailStack[a]
                      IN  p \in log[n].intervened <=>
                            /\ limit > 0 /\ is_learning(a) /\ a \notin evaluate_only
                            /\ limit < n /\ n < evaluation_start
                            /\ \A m \in n - limit .. n - 1 : p \in log[m].failed
                            /\ \A m \in n - limit + 1 .. n - 1 : p \notin log[m].intervened
    BY DEF InterventionExact
  <2> DEFINE limit == FailStack[a]
  <2>1. /\ n \in 1 .. t - 1 /\ n \in 1 .. Decided(a) /\ t \in Nat /\ n \in Nat
        /\ limit \in Nat
    BY Numbers DEF Invariant, Clock
  <2>2. \A m \in 1 .. t - 1 : /\ m \in Failures(p) <=> p \in log[m].failed
                              /\ m \in Replacements(p) <=> p \in log[m].intervened
    BY <2>1 DEF Failures, Replacements
  <2>3. p \in log[n].intervened <=>
          /\ On(a) /\ n < evaluation_start
          /\ ExpectedOf(Failures(p), Replacements(p), limit, n)
    BY <2>1, <2>2 DEF Counting, Right, Exact
  <2>4. CASE limit < n
    <3>1. \A m \in n - limit .. n - 1 : m \in 1 .. t - 1
      BY <2>1, <2>4
    <3>2. \A m \in n - limit + 1 .. n - 1 : m \in 1 .. t - 1
      BY <2>1, <2>4
    <3> QED BY <2>2, <2>3, <2>4, <3>1, <3>2 DEF On, ExpectedOf
  <2>5. CASE ~(limit < n)
    BY <2>3, <2>5 DEF ExpectedOf
  <2> QED BY <2>4, <2>5
<1> QED BY <1>1, StartsCounting, KeepsCounting, Inductive, PTL DEF Spec

-----------------------------------------------------------------------------
(***************************************************************************)
(* The rollout of PPO is on-policy (RolloutIsOnPolicy), for any rollout    *)
(* length and learning start.                                              *)
(*                                                                         *)
(* A transition is stored one period after its decision, and the update    *)
(* that changes the network also empties the rollout.  The pending         *)
(* decision is therefore always by the network of now, and so is whatever  *)
(* is in the rollout.  The transitions that a long wait for the first      *)
(* update drops come before all that are kept.                             *)
(***************************************************************************)
(* The common learning start is a number.                                  *)

\* What finitely many agents have has a bound.
LEMMA Bounded ==
  ASSUME NEW f \in [Agents -> Nat]
  PROVE  \E u \in Nat : \A a \in Agents : f[a] <= u
<1> DEFINE B(k) == \E u \in Nat : \A a \in 1 .. k : f[a] <= u
           Bad == {k \in 0 .. NAgents : ~B(k)}
<1>1. NAgents \in Nat
  BY Constants
<1>2. ASSUME Bad # {} PROVE FALSE
  <2>0. Bad \subseteq Nat
    BY <1>1
  <2>1. PICK k \in Bad : \A j \in Bad : k <= j
    <3> HIDE DEF Bad
    <3> QED BY <1>2, <2>0, LeastOf
  <2>2. k \in 0 .. NAgents /\ ~B(k)
    OBVIOUS
  <2>3. B(0)
    OBVIOUS
  <2>4. k # 0
    BY <2>2, <2>3
  <2>5. k - 1 \in 0 .. NAgents /\ k - 1 \notin Bad
    <3>1. k - 1 \in 0 .. NAgents /\ ~(k <= k - 1)
      BY <1>1, <2>2, <2>4
    <3> HIDE DEF Bad
    <3> QED BY <2>1, <3>1
  <2>6. PICK u \in Nat : \A a \in 1 .. k - 1 : f[a] <= u
    BY <2>5
  <2>7. f[k] \in Nat
    BY <1>1, <2>2, <2>4 DEF Agents
  <2> DEFINE v == IF u < f[k] THEN f[k] ELSE u
  <2>8. v \in Nat /\ \A a \in 1 .. k : f[a] <= v
    <3>1. \A a \in 1 .. k : a \in Agents
      BY <1>1, <2>2 DEF Agents
    <3>2. \A a \in 1 .. k : f[a] \in Nat
      BY <3>1
    <3>3. \A a \in 1 .. k : a = k \/ a \in 1 .. k - 1
      BY <2>2
    <3> QED BY <2>6, <2>7, <3>2, <3>3
  <2> QED BY <2>2, <2>8
<1>3. NAgents \notin Bad
  BY <1>2
<1> QED BY <1>1, <1>3 DEF Agents

LEMMA LargestOf ==
  ASSUME NEW f \in [Agents -> Nat], NEW S, S \subseteq Agents
  PROVE  Max({0} \cup {f[a] : a \in S}) \in Nat
<1> DEFINE V == {0} \cup {f[a] : a \in S}
           U == {u \in Nat : \A v \in V : v <= u}
<1>1. V \subseteq Nat
  OBVIOUS
<1>2. U # {}
  <2>1. PICK u \in Nat : \A a \in Agents : f[a] <= u
    BY Bounded
  <2>2. u \in U
    BY <2>1
  <2> QED BY <2>2
<1>3. PICK u \in U : \A w \in U : u <= w
  BY <1>2, LeastOf
<1>4. u \in V
  <2> SUFFICES ASSUME u \notin V PROVE FALSE
    OBVIOUS
  <2>1. u \in Nat /\ u > 0
    OBVIOUS
  <2>2. \A v \in V : v <= u /\ v # u /\ v \in Nat
    BY <1>1
  <2> HIDE DEF V
  <2>3. u - 1 \in U
    BY <2>1, <2>2
  <2> QED BY <1>3, <2>1, <2>3
<1>5. \A v \in V : u >= v
  BY <1>1
<1> HIDE DEF V
<1>6. Max(V) \in V
  BY <1>4, <1>5 DEF Max
<1> QED BY <1>1, <1>6 DEF V

LEMMA StartIsNumber == Init => learning_starts \in Nat
<1> SUFFICES ASSUME Init PROVE learning_starts \in Nat
  OBVIOUS
<1>1. PICK explicit \in LearningStarts :
        learning_starts = common_learning_starts(explicit)
  BY DEF Init
<1>2. explicit \in Nat
  BY MarketAssumption
<1> DEFINE f == [a \in Agents |-> first_update_transitions(config[a])]
           S == {b \in Agents : is_learning(b)}
<1>3. f \in [Agents -> Nat]
  <2> SUFFICES ASSUME NEW a \in Agents
               PROVE  first_update_transitions(config[a]) \in Nat
    OBVIOUS
  <2>1. config[a] \in [algorithm : Algorithms, buffer_size : Nat \ {0},
                       batch_size : Nat \ {0}, seq_len : Nat \ {0},
                       rollout_length : Nat \ {0}, learning_starts : Nat \ {0}]
    BY MarketAssumption DEF Init
  <2>2. min_learning_starts(config[a]) \in Nat
    BY <2>1 DEF min_learning_starts, Larger
  <2> QED BY <2>1, <2>2 DEF first_update_transitions, Larger
<1>4. {f[a] : a \in S} = {first_update_transitions(config[a]) : a \in S}
  OBVIOUS
<1>5. Max({0} \cup {first_update_transitions(config[a]) : a \in S}) \in Nat
  <2>1. S \subseteq Agents
    OBVIOUS
  <2> HIDE DEF f, S
  <2> QED BY <1>3, <1>4, <2>1, LargestOf
<1> QED BY <1>1, <1>2, <1>5 DEF common_learning_starts

-----------------------------------------------------------------------------
(* The invariant.                                                          *)

Held(a) == policy[a].buffer.data
Network(a) == Len(policy[a].updates)

\* A pending decision is by the network of now.
PendingIsCurrent(a) == prev[a] # NoDecision => prev[a].network = Network(a)

IsLast(data, h) ==
  /\ data \in Seq(Stored) /\ Len(data) <= Len(h)
  /\ \A j \in 1 .. Len(data) : data[j] = h[Len(h) - Len(data) + j]

HeldIsCurrent(a) ==
  is_on_policy(a) =>
    /\ policy[a].buffer = [data |-> Held(a), length |-> policy[a].buffer.length]
    /\ IsLast(Held(a), observed[a])
    /\ \A j \in 1 .. Len(Held(a)) : Held(a)[j].network = Network(a)
    /\ Dropped(a) => Held(a) = <<>>

Current ==
  /\ learning_starts \in Nat
  /\ \A a \in Agents : PendingIsCurrent(a) /\ HeldIsCurrent(a)

LEMMA StartsCurrent == Init => Current
<1> SUFFICES ASSUME Init PROVE Current
  OBVIOUS
<1>1. ASSUME NEW a \in Agents PROVE PendingIsCurrent(a) /\ HeldIsCurrent(a)
  <2>1. prev[a] = NoDecision /\ policy[a] = NewPolicy(config[a]) /\ observed[a] = <<>>
    BY DEF Init
  <2>2. is_on_policy(a) =>
          policy[a].buffer = [data |-> <<>>, length |-> config[a].rollout_length]
    BY <2>1 DEF NewPolicy, is_on_policy, Rollout
  <2>3. is_on_policy(a) => Held(a) = <<>> /\ policy[a].buffer.length = config[a].rollout_length
    BY <2>2 DEF Held
  <2>4. IsLast(<<>>, observed[a])
    BY <2>1 DEF IsLast
  <2> QED BY <2>1, <2>2, <2>3, <2>4 DEF PendingIsCurrent, HeldIsCurrent
<1> QED BY <1>1, StartIsNumber DEF Current

\* The last elements of a sequence, with one more at the end of both.
LEMMA LastGrows ==
  ASSUME NEW data, NEW h \in Seq(Stored), NEW x \in Stored, IsLast(data, h)
  PROVE  IsLast(Append(data, x), Append(h, x))
<1> DEFINE d == Append(data, x)
           g == Append(h, x)
<1>1. data \in Seq(Stored) /\ Len(data) \in Nat /\ Len(h) \in Nat /\ Len(data) <= Len(h)
  BY DEF IsLast
<1>2. /\ d \in Seq(Stored) /\ Len(d) = Len(data) + 1 /\ Len(g) = Len(h) + 1
      /\ d[Len(data) + 1] = x /\ g[Len(h) + 1] = x
      /\ \A j \in 1 .. Len(data) : d[j] = data[j]
      /\ \A j \in 1 .. Len(h) : g[j] = h[j]
  BY <1>1
<1> HIDE DEF d, g
<1>3. ASSUME NEW j \in 1 .. Len(d) PROVE d[j] = g[Len(g) - Len(d) + j]
  <2>1. Len(g) - Len(d) = Len(h) - Len(data)
    BY <1>1, <1>2
  <2>2. CASE j = Len(data) + 1
    <3>1. Len(h) - Len(data) + j = Len(h) + 1
      BY <1>1, <2>2
    <3> QED BY <1>2, <2>1, <2>2, <3>1
  <2>3. CASE j # Len(data) + 1
    <3>1. j \in 1 .. Len(data) /\ Len(h) - Len(data) + j \in 1 .. Len(h)
      BY <1>1, <1>2, <2>3
    <3>2. data[j] = h[Len(h) - Len(data) + j]
      BY <3>1 DEF IsLast
    <3> QED BY <1>2, <2>1, <3>1, <3>2
  <2> QED BY <2>2, <2>3
<1>4. IsLast(d, g)
  BY <1>1, <1>2, <1>3 DEF IsLast
<1> QED BY <1>4 DEF d, g

\* What PPO makes of a transition (PPOAlgorithm.observe, _update).
LEMMA LearnedOnPolicy ==
  ASSUME Clock, NEW a \in Agents, IsPolicy(policy[a]), is_on_policy(a), Learns(a),
         policy[a].buffer = [data |-> Held(a), length |-> policy[a].buffer.length]
  PROVE  LET data == IF Dropped(a) THEN Held(a) ELSE Append(Held(a), Transition(a))
             new  == Learned(a)
         IN  /\ new.buffer = [data |-> new.buffer.data, length |-> new.buffer.length]
             /\ new.seen = policy[a].seen + 1
             /\ \/ new.updates = policy[a].updates /\ new.buffer.data = data
                \/ new.buffer.data = <<>>
<1> DEFINE b == policy[a].buffer
           add == IF Dropped(a) THEN b ELSE RolloutAdd(b, Transition(a))
           obs == observe(a, policy[a])
<1>1. /\ add = [data |-> IF Dropped(a) THEN Held(a) ELSE Append(Held(a), Transition(a)),
                length |-> b.length]
      /\ RolloutClear(add) = [data |-> <<>>, length |-> b.length]
  <2>1. RolloutAdd(b, Transition(a)) = [data |-> Append(Held(a), Transition(a)),
                                        length |-> b.length]
    BY DEF RolloutAdd
  <2>2. add = [data |-> IF Dropped(a) THEN Held(a) ELSE Append(Held(a), Transition(a)),
               length |-> b.length]
    BY <2>1
  <2> HIDE DEF add
  <2> QED BY <2>2 DEF RolloutClear
<1>2. obs = [buffer |-> add, seen |-> policy[a].seen + 1, updates |-> policy[a].updates]
  <2>1. policy[a] = [buffer |-> b, seen |-> policy[a].seen, updates |-> policy[a].updates]
    BY DEF IsPolicy
  <2>2. CASE Dropped(a)
    BY <2>1, <2>2 DEF observe
  <2>3. CASE ~Dropped(a)
    <3>1. obs = [[policy[a] EXCEPT !.seen = policy[a].seen + 1]
                   EXCEPT !.buffer = RolloutAdd(b, Transition(a))]
      BY <2>1, <2>3 DEF observe
    <3> QED BY <2>1, <2>3, <3>1
  <2> QED BY <2>2, <2>3
<1> HIDE DEF add, obs
<1>3. Learned(a) = update(a, obs)
  BY DEF Learned, obs
<1>4. CASE ~ready_to_learn(a, obs)
  <2>1. Learned(a) = obs
    BY <1>3, <1>4 DEF update
  <2>2. /\ obs.buffer = add /\ obs.seen = policy[a].seen + 1
        /\ obs.updates = policy[a].updates
    BY <1>2
  <2> HIDE DEF b
  <2> QED BY <1>1, <2>1, <2>2
<1>5. CASE ready_to_learn(a, obs)
  <2>1. Learned(a) = [obs EXCEPT !.updates = Append(@, t), !.buffer = RolloutClear(@)]
    BY <1>3, <1>5 DEF update
  <2>2. Learned(a) = [buffer |-> RolloutClear(add), seen |-> policy[a].seen + 1,
                      updates |-> Append(policy[a].updates, t)]
    BY <1>2, <2>1
  <2> QED BY <1>1, <2>2
<1> QED BY <1>4, <1>5

\* The step of the agent itself.
LEMMA StepIsCurrent ==
  ASSUME Invariant, Invariant', Current, NEW a \in Agents, step(a)
  PROVE  (PendingIsCurrent(a) /\ HeldIsCurrent(a))'
<1>1. /\ UNCHANGED <<config, learning_starts>>
      /\ policy' = [policy EXCEPT ![a] = Learned(a)]
      /\ observed' = IF Learns(a)
                     THEN [observed EXCEPT ![a] = Append(@, Transition(a))]
                     ELSE observed
      /\ prev' = [prev EXCEPT ![a] = Pending(a)]
  BY DEF step, built
<1>2. Clock /\ Policies
  BY DEF Invariant
<1>3. /\ policy'[a] = Learned(a) /\ prev'[a] = Pending(a)
      /\ observed'[a] = IF Learns(a) THEN Append(observed[a], Transition(a))
                        ELSE observed[a]
      /\ observed[a] \in Seq(Stored) /\ IsPolicy(policy[a])
  BY <1>1, <1>2 DEF Policies
<1>4. PendingIsCurrent(a)'
  <2>1. Pending(a) # NoDecision => Pending(a).network = Len(Learned(a).updates)
    BY DEF Pending
  <2> QED BY <1>3, <2>1 DEF PendingIsCurrent, Network
<1>5. ASSUME is_on_policy(a) PROVE HeldIsCurrent(a)'
  <2>1. /\ policy[a].buffer = [data |-> Held(a), length |-> policy[a].buffer.length]
        /\ IsLast(Held(a), observed[a])
        /\ \A j \in 1 .. Len(Held(a)) : Held(a)[j].network = Network(a)
        /\ Dropped(a) => Held(a) = <<>>
    BY <1>5 DEF Current, HeldIsCurrent
  <2>2. CASE ~Learns(a)
    <3>1. policy'[a] = policy[a] /\ observed'[a] = observed[a]
      BY <1>2, <1>3, <2>2, LearnedIs
    <3> QED
      BY <1>1, <2>1, <3>1 DEF HeldIsCurrent, Held, Network, Dropped, is_on_policy, IsLast,
                              Stored, Experience
  <2>3. CASE Learns(a)
    <3> DEFINE x == Transition(a)
               data == IF Dropped(a) THEN Held(a) ELSE Append(Held(a), x)
               new == Learned(a)
    <3>1. /\ new.buffer = [data |-> new.buffer.data, length |-> new.buffer.length]
          /\ new.seen = policy[a].seen + 1
          /\ \/ new.updates = policy[a].updates /\ new.buffer.data = data
             \/ new.buffer.data = <<>>
      BY <1>2, <1>3, <1>5, <2>1, <2>3, LearnedOnPolicy
    <3>2. x \in Stored
      <4>1. observed' \in [Agents -> Seq(Stored)]
        BY DEF Invariant, Policies, Stored, Experience
      <4>2. Append(observed[a], x) \in Seq(Stored)
        BY <1>3, <2>3, <4>1
      <4>3. Len(observed[a]) \in Nat /\ Len(Append(observed[a], x)) = Len(observed[a]) + 1
            /\ Append(observed[a], x)[Len(observed[a]) + 1] = x
        BY <1>3
      <4> HIDE DEF x
      <4> QED BY <4>2, <4>3
    <3>3. x.network = Network(a)
      <4>1. prev[a] # NoDecision
        BY <2>3 DEF Learns
      <4>2. x.network = prev[a].network
        BY DEF Transition
      <4> QED BY <4>1, <4>2 DEF Current, PendingIsCurrent
    <3>4. Dropped(a)' => Dropped(a)
      <4>1. learning_starts \in Nat /\ policy[a].seen \in Nat
        BY <1>3 DEF Current, IsPolicy
      <4>2. config[a].rollout_length \in Nat
        BY <1>2, MarketAssumption DEF Clock
      <4> QED BY <1>1, <1>3, <3>1, <4>1, <4>2 DEF Dropped, is_on_policy
    <3>5. IsLast(<<>>, observed'[a])
      BY <1>3, <2>3 DEF IsLast
    <3>6. CASE new.buffer.data = <<>>
      <4>1. /\ Held(a)' = <<>>
            /\ policy'[a].buffer = [data |-> <<>>, length |-> policy'[a].buffer.length]
        BY <1>3, <3>1, <3>6 DEF Held
      <4>2. IsLast(Held(a), observed[a])'
        BY <3>5, <4>1 DEF IsLast, Stored, Experience
      <4> QED BY <4>1, <4>2 DEF HeldIsCurrent
    <3>7. CASE new.buffer.data # <<>>
      <4>1. ~Dropped(a) /\ new.updates = policy[a].updates
            /\ new.buffer.data = Append(Held(a), x)
        BY <2>1, <3>1, <3>7
      <4>2. IsLast(Append(Held(a), x), Append(observed[a], x))
        BY <1>3, <2>1, <3>2, LastGrows
      <4>3. /\ Held(a)' = Append(Held(a), x)
            /\ policy'[a].buffer = [data |-> Held(a)', length |-> policy'[a].buffer.length]
            /\ Network(a)' = Network(a)
        BY <1>3, <3>1, <4>1 DEF Held, Network
      <4>4. IsLast(Held(a), observed[a])'
        BY <1>3, <2>3, <4>2, <4>3 DEF IsLast, Stored, Experience
      <4>5. \A j \in 1 .. Len(Held(a)') : (Held(a)')[j].network = Network(a)'
        <5> DEFINE d == Held(a)
                   e == Append(d, x)
        <5>1. d \in Seq(Stored) /\ Len(d) \in Nat
          BY <2>1 DEF IsLast
        <5>2. /\ Len(e) = Len(d) + 1 /\ e[Len(d) + 1] = x
              /\ \A j \in 1 .. Len(d) : e[j] = d[j]
          BY <5>1
        <5>3. \A j \in 1 .. Len(d) : d[j].network = Network(a)
          BY <2>1
        <5> HIDE DEF d, e, x
        <5>4. \A j \in 1 .. Len(e) : e[j].network = Network(a)
          BY <3>3, <5>1, <5>2, <5>3
        <5>5. Held(a)' = e
          BY <4>3 DEF e, d
        <5> QED BY <4>3, <5>4, <5>5
      <4> QED BY <3>4, <4>1, <4>3, <4>4, <4>5 DEF HeldIsCurrent
    <3> QED BY <3>6, <3>7
  <2> QED BY <2>2, <2>3
<1>6. is_on_policy(a)' <=> is_on_policy(a)
  BY <1>1 DEF is_on_policy
<1>7. HeldIsCurrent(a)'
  BY <1>5, <1>6 DEF HeldIsCurrent
<1> QED BY <1>4, <1>7

\* Nothing else touches a policy.
LEMMA ElseIsCurrent ==
  ASSUME Current, NEW a \in Agents, UNCHANGED <<config, learning_starts>>,
         policy'[a] = policy[a], observed'[a] = observed[a], prev'[a] = prev[a]
  PROVE  (PendingIsCurrent(a) /\ HeldIsCurrent(a))'
<1>1. PendingIsCurrent(a) /\ HeldIsCurrent(a)
  BY DEF Current
<1> QED
  BY <1>1 DEF PendingIsCurrent, HeldIsCurrent, Held, Network, Dropped, is_on_policy, IsLast,
              Stored, Experience

LEMMA KeepsCurrent == Invariant /\ Invariant' /\ Current /\ [Next]_vars => Current'
<1> SUFFICES ASSUME Invariant, Invariant', Current, [Next]_vars PROVE Current'
  OBVIOUS
<1>1. ASSUME NEW a \in Agents, step(a) PROVE Current'
  <2>1. learning_starts' = learning_starts /\ config' = config
    BY <1>1 DEF step, built
  <2>2. ASSUME NEW b \in Agents, b # a PROVE (PendingIsCurrent(b) /\ HeldIsCurrent(b))'
    <3>1. policy'[b] = policy[b] /\ observed'[b] = observed[b] /\ prev'[b] = prev[b]
      BY <1>1, <2>2 DEF step, Invariant, Policies
    <3> QED BY <2>1, <3>1, ElseIsCurrent
  <2>3. (PendingIsCurrent(a) /\ HeldIsCurrent(a))'
    BY <1>1, StepIsCurrent
  <2> QED BY <2>1, <2>2, <2>3 DEF Current
<1>2. ASSUME UNCHANGED <<config, learning_starts, policy, observed, prev>>
      PROVE  Current'
  BY <1>2, ElseIsCurrent DEF Current
<1> QED
  <2>1. ASSUME NEW demand \in Demands, ClearMarket(demand) PROVE Current'
    BY <1>2, <2>1 DEF ClearMarket, built
  <2>2. ASSUME NEW demand \in Demands, ClearingFails(demand) PROVE Current'
    BY <1>2, <2>2 DEF ClearingFails, built
  <2>3. CASE UNCHANGED vars
    BY <1>2, <2>3 DEF vars, built
  <2> QED BY <1>1, <2>1, <2>2, <2>3 DEF Next

\* The rollout of PPO holds the latest transitions, all decided by the network
\* that the next update will start from (PPOAlgorithm.observe, _update,
\* agent_service.step).
THEOREM RolloutIsRight == Spec => []RolloutIsOnPolicy
<1>1. Invariant /\ Current => RolloutIsOnPolicy
  <2> SUFFICES ASSUME Invariant, Current, NEW a \in Agents, is_on_policy(a)
               PROVE  LET n == Len(observed[a])
                          kept == Len(policy[a].buffer.data)
                      IN  /\ policy[a].buffer.data = SubSeq(observed[a], n - kept + 1, n)
                          /\ \A i \in 1 .. kept :
                               policy[a].buffer.data[i].network = Len(policy[a].updates)
    BY DEF RolloutIsOnPolicy
  <2> DEFINE d == policy[a].buffer.data
             h == observed[a]
             latest == SubSeq(h, Len(h) - Len(d) + 1, Len(h))
  <2>1. /\ h \in Seq(Stored) /\ d \in Seq(Stored) /\ Len(d) \in 0 .. Len(h)
        /\ \A j \in 1 .. Len(d) : d[j] = h[Len(h) - Len(d) + j]
        /\ \A j \in 1 .. Len(d) : d[j].network = Len(policy[a].updates)
    <3>1. h \in Seq(Stored) /\ Len(h) \in Nat
      BY DEF Invariant, Policies
    <3>2. /\ IsLast(d, h)
          /\ \A j \in 1 .. Len(d) : d[j].network = Len(policy[a].updates)
      BY DEF Current, HeldIsCurrent, Held, Network
    <3> HIDE DEF d, h
    <3> QED BY <3>1, <3>2 DEF IsLast
  <2> HIDE DEF d, h
  <2>2. /\ latest \in Seq(Stored) /\ Len(latest) = Len(d)
        /\ \A j \in 1 .. Len(d) : latest[j] = h[Len(h) - Len(d) + j]
    BY <2>1, LastOf
  <2> HIDE DEF latest
  <2>3. d = latest
    <3>1. /\ d = [j \in 1 .. Len(d) |-> d[j]]
          /\ latest = [j \in 1 .. Len(d) |-> latest[j]]
      BY <2>1, <2>2
    <3>2. \A j \in 1 .. Len(d) : d[j] = latest[j]
      BY <2>1, <2>2
    <3> QED BY <3>1, <3>2
  <2> QED BY <2>1, <2>3 DEF d, h, latest
<1> QED BY <1>1, StartsCurrent, KeepsCurrent, Inductive, PTL DEF Spec

-----------------------------------------------------------------------------
(***************************************************************************)
(* No learner raises, and all of them update on schedule                   *)
(* (LearnersKeepSchedule), for any sizes, start and number of periods.     *)
(*                                                                         *)
(* The schedule counts training periods, the code counts transitions and   *)
(* looks at what its store holds.  Placed says where a learner is that     *)
(* updates once per `every` transitions, the first time at its start-th:   *)
(* how many transitions it has been given (n), how many updates it has     *)
(* made (u) and how many transitions it holds for the next one (h).        *)
(***************************************************************************)

Placed(n, start, every, u, h) ==
  /\ h < every
  /\ n < start => u = 0 /\ h = Larger(0, n - (start - every))
  /\ n >= start => u >= 1 /\ n - start = (u - 1) * every + h

\* Products of natural numbers.
LEMMA Multiples ==
  ASSUME NEW u \in Nat, NEW every \in Nat
  PROVE  u * every \in Nat /\ (u + 1) * every = u * every + every
OBVIOUS

\* What one more transition does. Below start - every it is not kept; the next
\* update is due when as many as `every` are held.
LEMMA OneMore ==
  ASSUME NEW n \in Nat, NEW start \in Nat, NEW every \in Nat \ {0}, NEW u \in Nat,
         NEW h \in Nat, every <= start, Placed(n, start, every, u, h)
  PROVE  LET held == IF n < start - every THEN h ELSE h + 1
             due  == held = every /\ n + 1 >= start
         IN  /\ n < start - every => h = 0
             /\ due => /\ Placed(n + 1, start, every, u + 1, 0)
                       /\ n + 1 = start + u * every
             /\ ~due => Placed(n + 1, start, every, u, held)
<1> DEFINE held == IF n < start - every THEN h ELSE h + 1
           due  == held = every /\ n + 1 >= start
<1>1. CASE n < start
  <2>1. u = 0 /\ h = Larger(0, n - (start - every)) /\ h < every
    BY <1>1 DEF Placed
  <2>2. h = IF 0 < n - (start - every) THEN n - (start - every) ELSE 0
    BY <2>1 DEF Larger
  <2>3. 0 * every = 0 /\ (u + 1 - 1) * every = 0
    BY <2>1
  <2>4. due <=> n + 1 = start
    BY <1>1, <2>2
  <2>5. due => Placed(n + 1, start, every, u + 1, 0)
    BY <2>1, <2>3, <2>4 DEF Placed
  <2>6. ~due => Placed(n + 1, start, every, u, held)
    <3>1. CASE n < start - every
      BY <1>1, <2>1, <2>2, <2>4, <3>1 DEF Placed, Larger
    <3>2. CASE ~(n < start - every)
      BY <1>1, <2>1, <2>2, <2>4, <3>2 DEF Placed, Larger
    <3> QED BY <3>1, <3>2
  <2> QED BY <2>1, <2>2, <2>3, <2>4, <2>5, <2>6
<1>2. CASE n >= start
  <2>1. u >= 1 /\ n - start = (u - 1) * every + h /\ h < every /\ held = h + 1
    BY <1>2 DEF Placed
  <2>2. u - 1 \in Nat /\ (u - 1) * every \in Nat /\ u * every = (u - 1) * every + every
    <3>1. u - 1 \in Nat /\ u - 1 + 1 = u
      BY <2>1
    <3> QED BY <3>1, Multiples
  <2>3. ASSUME due
        PROVE  Placed(n + 1, start, every, u + 1, 0) /\ n + 1 = start + u * every
    <3>1. h + 1 = every
      BY <2>1, <2>3
    <3> DEFINE m == (u - 1) * every
               q == u * every
    <3>2. m \in Nat /\ q \in Nat /\ q = m + every /\ n - start = m + h
      BY <2>1, <2>2, Multiples
    <3> HIDE DEF m, q
    <3>3. n + 1 - start = q
      BY <1>2, <3>1, <3>2
    <3>4. u + 1 - 1 = u
      OBVIOUS
    <3> QED BY <1>2, <3>3, <3>2, <3>4 DEF Placed, q
  <2>4. ASSUME ~due PROVE Placed(n + 1, start, every, u, held)
    <3>1. h + 1 < every
      BY <1>2, <2>1, <2>4
    <3> DEFINE m == (u - 1) * every
    <3>2. m \in Nat /\ n - start = m + h
      BY <2>1, <2>2
    <3> HIDE DEF m
    <3>3. n + 1 - start = m + held
      BY <1>2, <2>1, <3>2
    <3> QED BY <1>2, <2>1, <3>1, <3>3 DEF Placed, m
  <2> QED BY <1>2, <2>3, <2>4
<1> QED BY <1>1, <1>2

\* A quotient is known by its remainder.
LEMMA Quotient ==
  ASSUME NEW x \in Nat, NEW d \in Nat \ {0}, NEW q \in Nat, NEW r \in Nat,
         r < d, x = q * d + r
  PROVE  x \div d = q
<1> DEFINE p == x \div d
           s == x % d
<1>1. p \in Nat /\ s \in Nat /\ s < d /\ x = p * d + s
  OBVIOUS
<1>2. ASSUME NEW i \in Nat, NEW j \in Nat, NEW v \in Nat, NEW w \in Nat, v < d, w < d,
             i * d + v = j * d + w, i < j
      PROVE  FALSE
  <2>1. PICK k \in Nat : j = i + 1 + k
    <3>1. j - i - 1 \in Nat /\ j = i + 1 + (j - i - 1)
      BY <1>2
    <3> QED BY <3>1
  <2>2. j * d = (i + 1) * d + k * d /\ (i + 1) * d = i * d + d
    BY <2>1
  <2>3. i * d \in Nat /\ j * d \in Nat /\ k * d \in Nat
    BY Multiples
  <2> QED BY <1>2, <2>2, <2>3
<1> HIDE DEF p, s
<1>3. ~(p < q) /\ ~(q < p)
  BY <1>1, <1>2
<1> QED BY <1>1, <1>3 DEF p

-----------------------------------------------------------------------------
(* The invariant.                                                          *)

Given(a) == Len(observed[a])
Updates(a) == Len(policy[a].updates)
Every(a) == IF is_on_policy(a) THEN config[a].rollout_length ELSE 1

\* What a learner holds for its next update; an off-policy learner is not
\* emptied by an update and needs one more transition.
Waiting(a) == IF is_on_policy(a) THEN Len(Held(a)) ELSE 0

\* The end of the run, and how it was accepted.
Accepted ==
  /\ t <= Periods + 1 /\ (t = Periods + 1 => turn = 1)
  /\ evaluate_only \in Frozen
  /\ error \in {"none", "refused", "no PTF"}
  /\ error # "refused" =>
       \A a \in Agents : is_learning(a) => Reachable(config[a], learning_starts)

\* Prices, outcomes and counters.
Values ==
  /\ prices \in [Plants -> Low .. High]
  /\ \A i \in 1 .. t - 1 : ptf_history[i] \in Low .. High
  /\ \A a \in Agents :
       /\ t > 1 => last_outcomes[a].offers \in [PlantsOf(a) -> TypeOutcome]
       /\ \A p \in PlantsOf(a) : counters[p] \in 0 .. FailStack[a]

\* A policy has no more updates than transitions, and these are of the run.
Modest(a) ==
  /\ Updates(a) <= Given(a)
  /\ policy[a].seen <= Given(a)
  /\ \A i \in DOMAIN observed[a] : observed[a][i] \in TypeTransition

Scheduled(a) ==
  /\ is_on_policy(a) =>
       policy[a].seen = Given(a) /\ policy[a].buffer.length = config[a].rollout_length
  /\ is_learning(a) /\ error # "refused" =>
       /\ Placed(Given(a), learning_starts, Every(a), Updates(a), Waiting(a))
       /\ policy[a].updates =
            [i \in 1 .. Updates(a) |-> first_learning_period + (i - 1) * Every(a)]

Timetable ==
  /\ Accepted
  /\ Values
  /\ \A a \in Agents : Modest(a) /\ Scheduled(a)

\* The sizes of a learner of an accepted run.
LEMMA Sizes ==
  ASSUME Clock, Accepted, learning_starts \in Nat, NEW a \in Agents
  PROVE  /\ config[a].rollout_length \in Nat \ {0} /\ config[a].batch_size \in Nat \ {0}
         /\ config[a].seq_len \in Nat \ {0} /\ config[a].buffer_size \in Nat \ {0}
         /\ config[a].algorithm \in Algorithms
         /\ Every(a) \in Nat \ {0}
         /\ is_learning(a) /\ error # "refused" =>
              /\ Every(a) <= learning_starts
              /\ config[a].algorithm = "DDPG" =>
                   learning_starts >= config[a].batch_size
              /\ ~is_on_policy(a) => learning_starts <= config[a].buffer_size
<1>1. config[a] \in [algorithm : Algorithms, buffer_size : Nat \ {0},
                     batch_size : Nat \ {0}, seq_len : Nat \ {0},
                     rollout_length : Nat \ {0}, learning_starts : Nat \ {0}]
  BY MarketAssumption DEF Clock
<1>2. ASSUME is_learning(a), error # "refused"
      PROVE  /\ Every(a) <= learning_starts
             /\ config[a].algorithm = "DDPG" => learning_starts >= config[a].batch_size
             /\ ~is_on_policy(a) => learning_starts <= config[a].buffer_size
  <2>1. Reachable(config[a], learning_starts)
    BY <1>2 DEF Accepted
  <2>2. learning_starts >= min_learning_starts(config[a])
    BY <2>1 DEF Reachable
  <2>3. ~is_on_policy(a) => learning_starts <= config[a].buffer_size
    BY <2>1 DEF Reachable, is_on_policy
  <2>4. CASE config[a].algorithm = "PPO"
    BY <1>1, <2>2, <2>3, <2>4 DEF min_learning_starts, Larger, Every, is_on_policy
  <2>5. CASE config[a].algorithm = "RDPG"
    BY <1>1, <2>2, <2>3, <2>5 DEF min_learning_starts, Larger, Every, is_on_policy
  <2>6. CASE config[a].algorithm \notin {"PPO", "RDPG"}
    BY <1>1, <2>2, <2>3, <2>6 DEF min_learning_starts, Larger, Every, is_on_policy
  <2> QED BY <2>4, <2>5, <2>6
<1> QED BY <1>1, <1>2 DEF Every

LEMMA StartsTimetable == Init => Timetable
<1> SUFFICES ASSUME Init PROVE Timetable
  OBVIOUS
<1>1. /\ config \in Configs /\ t = 1 /\ turn = 1 /\ evaluate_only \in Frozen
      /\ error = IF \A a \in Agents : is_learning(a) => Reachable(config[a], learning_starts)
                 THEN "none" ELSE "refused"
      /\ prices = [p \in Plants |-> Low]
      /\ counters = [p \in Plants |-> 0]
      /\ policy = [a \in Agents |-> NewPolicy(config[a])]
      /\ observed = [a \in Agents |-> <<>>]
  BY DEF Init
<1>2. Accepted
  BY <1>1, MarketAssumption DEF Accepted
<1>3. Values
  <2>1. \A a \in Agents : FailStack[a] \in Nat /\ PlantsOf(a) \subseteq Plants
    BY MarketAssumption DEF PlantsOf
  <2>2. Low \in Low .. High /\ 1 .. t - 1 = {}
    BY <1>1, MarketAssumption
  <2> QED BY <1>1, <2>1, <2>2 DEF Values
<1>4. learning_starts \in Nat /\ Clock
  BY StartIsNumber, Starts DEF Invariant
<1>5. ASSUME NEW a \in Agents PROVE Modest(a) /\ Scheduled(a)
  <2>1. observed[a] = <<>> /\ policy[a] = NewPolicy(config[a])
    BY <1>1
  <2>2. policy[a].updates = <<>> /\ policy[a].seen = 0
    BY <2>1 DEF NewPolicy
  <2>3. is_on_policy(a) => policy[a].buffer = Rollout(config[a].rollout_length)
    BY <2>1 DEF NewPolicy, is_on_policy
  <2>4. Given(a) = 0 /\ Updates(a) = 0 /\ Waiting(a) = 0
    BY <2>1, <2>2, <2>3 DEF Given, Updates, Waiting, Held, Rollout
  <2>5. Modest(a)
    BY <2>1, <2>2, <2>4 DEF Modest
  <2>6. is_on_policy(a) =>
          policy[a].seen = Given(a) /\ policy[a].buffer.length = config[a].rollout_length
    BY <2>2, <2>3, <2>4 DEF Rollout
  <2>7. ASSUME is_learning(a), error # "refused"
        PROVE  Placed(Given(a), learning_starts, Every(a), Updates(a), Waiting(a))
    <3>1. Every(a) \in Nat \ {0} /\ Every(a) <= learning_starts
      BY <1>2, <1>4, <2>7, Sizes
    <3> QED BY <1>4, <2>4, <3>1 DEF Placed, Larger
  <2>8. policy[a].updates =
          [i \in 1 .. Updates(a) |-> first_learning_period + (i - 1) * Every(a)]
    BY <2>2, <2>4
  <2> QED BY <2>5, <2>6, <2>7, <2>8 DEF Scheduled
<1> QED BY <1>2, <1>3, <1>5 DEF Timetable

\* What adding to a rollout and emptying it leave of the record.
LEMMA RolloutFields ==
  ASSUME NEW rollout, NEW d, NEW n, NEW x, rollout = [data |-> d, length |-> n]
  PROVE  /\ RolloutAdd(rollout, x) = [data |-> Append(d, x), length |-> n]
         /\ RolloutClear(rollout) = [data |-> <<>>, length |-> n]
BY DEF RolloutAdd, RolloutClear

\* What a learner makes of a transition: it is kept or dropped, and an update
\* is one more period in the list and empties a rollout (observe, update).
LEMMA LearnedExactly ==
  ASSUME Clock, NEW a \in Agents, IsPolicy(policy[a]), Learns(a),
         is_on_policy(a) =>
           policy[a].buffer = [data |-> Held(a), length |-> policy[a].buffer.length]
  PROVE  LET obs  == observe(a, policy[a])
             data == IF Dropped(a) THEN Held(a) ELSE Append(Held(a), Transition(a))
             new  == Learned(a)
         IN  /\ obs.buffer = IF is_on_policy(a)
                             THEN [data |-> data, length |-> policy[a].buffer.length]
                             ELSE RingAdd(policy[a].buffer, Transition(a))
             /\ obs.seen = IF is_on_policy(a) THEN policy[a].seen + 1 ELSE policy[a].seen
             /\ new.seen = obs.seen
             /\ ready_to_learn(a, obs) =>
                  /\ new.updates = Append(policy[a].updates, t)
                  /\ is_on_policy(a) =>
                       new.buffer = [data |-> <<>>, length |-> policy[a].buffer.length]
             /\ ~ready_to_learn(a, obs) =>
                  new.updates = policy[a].updates /\ new.buffer = obs.buffer
<1> DEFINE b == policy[a].buffer
           data == IF Dropped(a) THEN Held(a) ELSE Append(Held(a), Transition(a))
           add == IF is_on_policy(a) THEN [data |-> data, length |-> b.length]
                  ELSE RingAdd(b, Transition(a))
           seen == IF is_on_policy(a) THEN policy[a].seen + 1 ELSE policy[a].seen
           obs == observe(a, policy[a])
<1>1. is_on_policy(a) =>
        /\ Dropped(a) => b = add
        /\ ~Dropped(a) => RolloutAdd(b, Transition(a)) = add
        /\ RolloutClear(add) = [data |-> <<>>, length |-> b.length]
  <2> SUFFICES ASSUME is_on_policy(a)
               PROVE  /\ Dropped(a) => b = add
                      /\ ~Dropped(a) => RolloutAdd(b, Transition(a)) = add
                      /\ RolloutClear(add) = [data |-> <<>>, length |-> b.length]
    OBVIOUS
  <2>1. b = [data |-> Held(a), length |-> b.length]
    OBVIOUS
  <2>2. RolloutAdd(b, Transition(a)) = [data |-> Append(Held(a), Transition(a)),
                                        length |-> b.length]
    <3> HIDE DEF b
    <3> QED BY <2>1, RolloutFields
  <2>3. add = [data |-> data, length |-> b.length]
    OBVIOUS
  <2>4. RolloutClear(add) = [data |-> <<>>, length |-> b.length]
    BY <2>3, RolloutFields
  <2> HIDE DEF add
  <2> QED BY <2>1, <2>2, <2>3, <2>4
<1>2. obs = [buffer |-> add, seen |-> seen, updates |-> policy[a].updates]
  <2>1. policy[a] = [buffer |-> b, seen |-> policy[a].seen, updates |-> policy[a].updates]
    BY DEF IsPolicy
  <2> DEFINE more == [policy[a] EXCEPT !.seen = IF is_on_policy(a) THEN @ + 1 ELSE @]
  <2>2. more = [buffer |-> b, seen |-> seen, updates |-> policy[a].updates]
    BY <2>1
  <2>3. obs = IF Dropped(a) THEN more
              ELSE IF is_on_policy(a)
                   THEN [more EXCEPT !.buffer = RolloutAdd(@, Transition(a))]
                   ELSE [more EXCEPT !.buffer = RingAdd(@, Transition(a))]
    BY DEF observe
  <2>4. Dropped(a) => is_on_policy(a)
    BY DEF Dropped
  <2> HIDE DEF more, obs, seen
  <2>5. CASE Dropped(a)
    <3>1. add = b
      BY <1>1, <2>4, <2>5
    <3> QED BY <2>2, <2>3, <2>5, <3>1
  <2>6. CASE ~Dropped(a) /\ is_on_policy(a)
    <3>1. add = RolloutAdd(b, Transition(a))
      BY <1>1, <2>6
    <3>2. obs = [more EXCEPT !.buffer = add]
      BY <2>2, <2>3, <2>6, <3>1
    <3> HIDE DEF add
    <3> QED BY <2>2, <3>2
  <2>7. CASE ~Dropped(a) /\ ~is_on_policy(a)
    <3>1. obs = [more EXCEPT !.buffer = add]
      BY <2>2, <2>3, <2>7
    <3> HIDE DEF add
    <3> QED BY <2>2, <3>1
  <2> QED BY <2>5, <2>6, <2>7
<1> HIDE DEF add, obs, seen
<1>3. Learned(a) = update(a, obs)
  BY DEF Learned, obs
<1>4. CASE ~ready_to_learn(a, obs)
  <2>1. Learned(a) = obs
    BY <1>3, <1>4 DEF update
  <2>2. obs.buffer = add /\ obs.seen = seen /\ obs.updates = policy[a].updates
    BY <1>2
  <2> QED BY <1>4, <2>1, <2>2 DEF obs, add, seen
<1>5. CASE ready_to_learn(a, obs)
  <2>1. Learned(a) = [obs EXCEPT !.updates = Append(@, t),
                                 !.buffer = IF is_on_policy(a) THEN RolloutClear(@) ELSE @]
    BY <1>3, <1>5 DEF update
  <2>2. Learned(a) = [buffer |-> IF is_on_policy(a) THEN RolloutClear(add) ELSE add,
                      seen |-> seen, updates |-> Append(policy[a].updates, t)]
    BY <1>2, <2>1
  <2>3. obs.buffer = add /\ obs.seen = seen
    BY <1>2
  <2> QED BY <1>1, <1>5, <2>2, <2>3 DEF obs, add, seen
<1> QED BY <1>4, <1>5

\* Dropping, filling and readiness in terms of what is waiting.
LEMMA ReadyWhenDue ==
  ASSUME Invariant, Current, Timetable, NEW a \in Agents, Learns(a), error # "refused"
  PROVE  LET obs  == observe(a, policy[a])
             n    == Given(a)
             held == IF n < learning_starts - Every(a) THEN Waiting(a) ELSE Waiting(a) + 1
         IN  /\ is_learning(a)
             /\ Placed(n, learning_starts, Every(a), Updates(a), Waiting(a))
             /\ ready_to_learn(a, obs) <=> held = Every(a) /\ n + 1 >= learning_starts
             /\ ~AddRaises(a)
             /\ ready_to_learn(a, obs) => ~SampleRaises(a, obs)
             /\ is_on_policy(a) => Len(obs.buffer.data) = held
<1> DEFINE obs == observe(a, policy[a])
           n == Given(a)
           start == learning_starts
           held == IF n < start - Every(a) THEN Waiting(a) ELSE Waiting(a) + 1
<1>1. Clock /\ IsPolicy(policy[a]) /\ Accepted /\ start \in Nat /\ Scheduled(a)
      /\ HeldIsCurrent(a) /\ is_learning(a) /\ observed[a] \in Seq(Stored) /\ RingStores(a)
  BY DEF Invariant, Current, Timetable, Policies, Learns
<1>2. Placed(n, start, Every(a), Updates(a), Waiting(a))
  BY <1>1 DEF Scheduled
<1>3. /\ n \in Nat /\ Updates(a) \in Nat /\ Waiting(a) \in Nat
      /\ Every(a) \in Nat \ {0} /\ Every(a) <= start
  <2>1. is_on_policy(a) => Held(a) \in Seq(Stored)
    BY <1>1 DEF HeldIsCurrent, IsLast
  <2>2. n \in Nat /\ Updates(a) \in Nat
    BY <1>1 DEF Given, Updates, IsPolicy
  <2>3. Waiting(a) \in Nat
    BY <2>1 DEF Waiting
  <2>4. Every(a) \in Nat \ {0} /\ Every(a) <= start
    BY <1>1, Sizes
  <2> QED BY <2>2, <2>3, <2>4
<1>4. n < start - Every(a) => Waiting(a) = 0
  BY <1>1, <1>2, <1>3 DEF Placed, Larger
<1>5. Waiting(a) < Every(a)
  BY <1>2 DEF Placed
<1>6. CASE is_on_policy(a)
  <2>1. /\ policy[a].buffer = [data |-> Held(a), length |-> policy[a].buffer.length]
        /\ policy[a].seen = n /\ policy[a].buffer.length = Every(a)
        /\ Waiting(a) = Len(Held(a)) /\ Held(a) \in Seq(Stored)
    BY <1>1, <1>6 DEF HeldIsCurrent, IsLast, Scheduled, Every, Waiting
  <2>2. Dropped(a) <=> n < start - Every(a)
    BY <1>6, <2>1 DEF Dropped, Every
  <2> DEFINE data == IF Dropped(a) THEN Held(a) ELSE Append(Held(a), Transition(a))
  <2>3. obs.buffer = [data |-> data, length |-> Every(a)] /\ obs.seen = n + 1
    BY <1>1, <1>6, <2>1, LearnedExactly
  <2>4. Len(Append(Held(a), Transition(a))) = Len(Held(a)) + 1
    BY <2>1
  <2>5. Len(data) = held
    BY <2>1, <2>2, <2>4
  <2>6. obs.buffer.data = data /\ obs.buffer.length = Every(a)
    BY <2>3
  <2>7. ready_to_learn(a, obs) <=> held = Every(a) /\ n + 1 >= start
    <3> HIDE DEF data, obs, held
    <3> QED BY <1>6, <2>3, <2>5, <2>6 DEF ready_to_learn, Full, is_on_policy
  <2>8. ~AddRaises(a)
    BY <1>3, <1>5, <2>1 DEF AddRaises, Full, Held
  <2>9. ~SampleRaises(a, obs)
    BY <1>6 DEF SampleRaises, is_on_policy
  <2> QED BY <1>1, <1>2, <2>5, <2>6, <2>7, <2>8, <2>9
<1>7. CASE ~is_on_policy(a)
  <2>1. /\ config[a].algorithm \in {"DDPG", "RDPG"}
        /\ config[a].buffer_size \in Nat \ {0} /\ start <= config[a].buffer_size
        /\ config[a].algorithm = "DDPG" => start >= config[a].batch_size
        /\ config[a].batch_size \in Nat /\ config[a].seq_len \in Nat
        /\ config[a].algorithm = "RDPG" => start >= config[a].seq_len
    <3>1. /\ config[a].algorithm \in Algorithms /\ config[a].buffer_size \in Nat \ {0}
          /\ config[a].batch_size \in Nat \ {0} /\ config[a].seq_len \in Nat \ {0}
          /\ start <= config[a].buffer_size
          /\ config[a].algorithm = "DDPG" => start >= config[a].batch_size
      BY <1>1, <1>7, Sizes
    <3>2. config[a].algorithm \in {"DDPG", "RDPG"}
      BY <1>1, <1>7, <3>1 DEF Algorithms, is_on_policy, is_learning
    <3>3. config[a].algorithm = "RDPG" => start >= config[a].seq_len
      <4>1. Reachable(config[a], start)
        BY <1>1 DEF Accepted
      <4> QED BY <1>1, <3>1, <4>1 DEF Reachable, min_learning_starts, Larger
    <3> QED BY <3>1, <3>2, <3>3
  <2>2. obs.buffer = RingAdd(policy[a].buffer, Transition(a))
    BY <1>1, <1>7, LearnedExactly
  <2>3. obs.buffer.size = Kept(n + 1, config[a].buffer_size)
    <3>1. Stores(policy[a].buffer, config[a].buffer_size, Stored, observed[a])
      BY <1>1, <2>1 DEF RingStores
    <3>2. Transition(a) \in Stored
      <4>1. prev[a] \in Decision
        BY DEF Learns, Invariant, Policies
      <4>2. t \in Nat /\ t - 1 \in Nat /\ last_outcomes[a].period = t - 1
        BY <1>1 DEF Clock
      <4> QED BY <4>1, <4>2 DEF Transition, Decision, Stored, Experience
    <3>3. Stores(obs.buffer, config[a].buffer_size, Stored, Append(observed[a], Transition(a)))
      BY <1>1, <2>1, <2>2, <3>1, <3>2, RingAddStores
    <3>4. Len(Append(observed[a], Transition(a))) = n + 1
      BY <1>1 DEF Given
    <3> QED BY <3>3, <3>4 DEF Stores
  <2>4. Every(a) = 1 /\ Waiting(a) = 0
    BY <1>7 DEF Every, Waiting
  <2> DEFINE size == obs.buffer.size
             cap == config[a].buffer_size
  <2>10. n \in Nat /\ start \in Nat /\ cap \in Nat /\ start <= cap
        /\ size = IF n + 1 < cap THEN n + 1 ELSE cap
    BY <1>3, <1>1, <2>1, <2>3 DEF Kept
  <2>11. size \in Nat /\ (size >= start <=> n + 1 >= start)
    <3> HIDE DEF size, cap, n, start
    <3> QED BY <2>10
  <2>5. ready_to_learn(a, obs) <=> n + 1 >= start
    <3>1. config[a].algorithm = "RDPG" =>
            (size >= start => size >= config[a].seq_len)
      <4> HIDE DEF size, start
      <4> QED BY <2>1, <2>10, <2>11
    <3>2. CASE config[a].algorithm = "RDPG"
      <4>1. ready_to_learn(a, obs) <=> size >= start /\ size >= config[a].seq_len
        BY <3>2 DEF ready_to_learn
      <4> QED BY <2>11, <3>1, <3>2, <4>1
    <3>3. CASE config[a].algorithm = "DDPG"
      <4>1. ready_to_learn(a, obs) <=> size >= start
        BY <3>3 DEF ready_to_learn
      <4> QED BY <2>11, <4>1
    <3> QED BY <2>1, <3>2, <3>3
  <2>6. held = Every(a) /\ n + 1 >= start <=> n + 1 >= start
    BY <1>1, <1>3, <2>4
  <2>7. n + 1 >= start => ~SampleRaises(a, obs)
    <3>1. CASE config[a].algorithm = "RDPG"
      <4>1. SampleRaises(a, obs) <=> size < config[a].seq_len
        BY <3>1 DEF SampleRaises
      <4> HIDE DEF size, start
      <4> QED BY <2>1, <2>10, <2>11, <3>1, <4>1
    <3>2. CASE config[a].algorithm = "DDPG"
      <4>1. SampleRaises(a, obs) <=> size < config[a].batch_size
        BY <3>2 DEF SampleRaises
      <4> HIDE DEF size, start
      <4> QED BY <2>1, <2>10, <2>11, <3>2, <4>1
    <3> QED BY <2>1, <3>1, <3>2
  <2>8. ~AddRaises(a)
    BY <1>7 DEF AddRaises
  <2> QED BY <1>1, <1>2, <1>7, <2>5, <2>6, <2>7, <2>8
<1> QED BY <1>6, <1>7

\* The pending decision has the type that TypeOK gives it.
LEMMA PendingTyped ==
  ASSUME Invariant, Current, Timetable, NEW a \in Agents
  PROVE  /\ Given(a) \in Nat /\ Given(a) <= Periods /\ Updates(a) \in 0 .. Periods
         /\ prev[a] \in TypeDecision
<1>1. /\ Clock /\ Accepted /\ Modest(a) /\ PendingIsLast(a) /\ Consecutive(a)
      /\ IsPolicy(policy[a]) /\ observed[a] \in Seq(Stored)
  BY DEF Invariant, Timetable, Policies
<1>2. t \in Nat \ {0} /\ Periods \in Nat /\ evaluation_start \in Nat
      /\ evaluation_start - 1 <= Periods /\ t <= Periods + 1
  <2>1. Periods \in Nat \ {0} /\ EvaluationPeriods \in 0 .. Periods - 1
    BY MarketAssumption
  <2>2. evaluation_start \in Nat /\ evaluation_start - 1 <= Periods
    BY <2>1 DEF evaluation_start
  <2> QED BY <1>1, <2>1, <2>2 DEF Clock, Accepted
<1>3. Given(a) \in Nat /\ Given(a) <= Periods
  <2>1. Trained(a) \in Int /\ Trained(a) <= Periods
    BY <1>1, <1>2, TrainedIs, Turns
  <2>2. FirstComplete \in Nat
    BY LongestLag DEF FirstComplete
  <2>3. Given(a) = Larger(0, Trained(a) - FirstComplete)
    BY <1>1 DEF Consecutive, Given
  <2> QED BY <1>2, <2>1, <2>2, <2>3 DEF Larger
<1>4. Updates(a) \in 0 .. Periods
  <2>1. Updates(a) \in Nat
    BY <1>1 DEF Updates, IsPolicy
  <2> QED BY <1>1, <1>2, <1>3, <2>1 DEF Modest
<1>5. prev[a] \in TypeDecision
  <2>1. CASE prev[a] = NoDecision
    BY <2>1 DEF TypeDecision
  <2>2. CASE prev[a] # NoDecision
    <3>1. prev[a] \in Decision /\ prev[a].decision = Decided(a) /\ FirstComplete <= Decided(a)
      <4>1. Decided(a) \in Nat /\ FirstComplete \in Nat
        BY <1>1, Turns, LongestLag DEF FirstComplete
      <4> QED BY <1>1, <2>2, <4>1 DEF PendingIsLast
    <3>2. prev[a].network = Updates(a)
      BY <2>2 DEF Current, PendingIsCurrent, Network, Updates
    <3>3. Decided(a) \in 1 .. Periods
      <4>1. FirstComplete \in Nat /\ FirstComplete >= 1 /\ a \in Nat \ {0}
        BY LongestLag, Constants DEF FirstComplete, Agents
      <4>2. turn \in Nat /\ (t = Periods + 1 => turn = 1)
        BY <1>1, Turns DEF Accepted
      <4>3. turn > a => t <= Periods
        BY <1>2, <4>1, <4>2
      <4> QED BY <1>2, <3>1, <4>1, <4>3 DEF Decided
    <3> QED BY <1>4, <3>1, <3>2, <3>3 DEF TypeDecision, Decision
  <2> QED BY <2>1, <2>2
<1> QED BY <1>3, <1>4, <1>5

\* The step of the agent itself.
LEMMA StepKeepsSchedule ==
  ASSUME Invariant, Invariant', Current, Current', Timetable, NEW a \in Agents, step(a)
  PROVE  (Modest(a) /\ Scheduled(a))'
<1>1. /\ UNCHANGED <<config, learning_starts, t, error>> /\ error = "none"
      /\ turn = a /\ t <= Periods /\ turn' = a + 1 /\ evaluate_only' = evaluate_only
      /\ policy' = [policy EXCEPT ![a] = Learned(a)]
      /\ observed' = IF Learns(a)
                     THEN [observed EXCEPT ![a] = Append(@, Transition(a))]
                     ELSE observed
  BY DEF step, built
<1>2. /\ Clock /\ Policies /\ IsPolicy(policy[a]) /\ observed[a] \in Seq(Stored)
      /\ Modest(a) /\ Scheduled(a) /\ HeldIsCurrent(a) /\ learning_starts \in Nat
      /\ Consecutive(a)
  BY DEF Invariant, Policies, Timetable, Current
<1>3. /\ policy'[a] = Learned(a)
      /\ observed'[a] = IF Learns(a) THEN Append(observed[a], Transition(a))
                        ELSE observed[a]
  BY <1>1, <1>2 DEF Policies
<1>4. /\ is_learning(a)' <=> is_learning(a)
      /\ is_on_policy(a)' <=> is_on_policy(a)
      /\ Every(a)' = Every(a) /\ first_learning_period' = first_learning_period
  BY <1>1 DEF is_learning, is_on_policy, Every, first_learning_period
<1>5. CASE ~Learns(a)
  <2>1. policy'[a] = policy[a] /\ observed'[a] = observed[a]
    BY <1>2, <1>3, <1>5, LearnedIs
  <2> QED
    BY <1>1, <1>2, <1>4, <2>1
    DEF Modest, Scheduled, Given, Updates, Waiting, Held, TypeTransition
<1>6. CASE Learns(a)
  <2> DEFINE n == Given(a)
             u == Updates(a)
             every == Every(a)
             obs == observe(a, policy[a])
             held == IF n < learning_starts - every THEN Waiting(a) ELSE Waiting(a) + 1
             due == held = every /\ n + 1 >= learning_starts
             new == Learned(a)
  <2>1. /\ is_learning(a) /\ Placed(n, learning_starts, every, u, Waiting(a))
        /\ ready_to_learn(a, obs) <=> due
        /\ is_on_policy(a) => Len(obs.buffer.data) = held
    BY <1>1, <1>6, ReadyWhenDue
  <2>2. /\ n \in Nat /\ u \in Nat /\ Waiting(a) \in Nat
        /\ every \in Nat \ {0} /\ every <= learning_starts
    <3>1. Accepted
      BY DEF Timetable
    <3>2. is_on_policy(a) => Held(a) \in Seq(Stored)
      BY <1>2 DEF HeldIsCurrent, IsLast
    <3>3. every \in Nat \ {0} /\ every <= learning_starts
      BY <1>1, <1>2, <2>1, <3>1, Sizes
    <3>4. n \in Nat /\ u \in Nat
      BY <1>2 DEF Given, Updates, IsPolicy
    <3>5. Waiting(a) \in Nat
      BY <3>2 DEF Waiting
    <3> QED BY <3>3, <3>4, <3>5
  <2>3. /\ is_on_policy(a) =>
             obs.buffer.length = policy[a].buffer.length /\ obs.seen = policy[a].seen + 1
        /\ ~is_on_policy(a) => obs.seen = policy[a].seen
        /\ new.seen = obs.seen
        /\ due => /\ new.updates = Append(policy[a].updates, t)
                  /\ is_on_policy(a) =>
                       new.buffer = [data |-> <<>>, length |-> policy[a].buffer.length]
        /\ ~due => new.updates = policy[a].updates /\ new.buffer = obs.buffer
    <3>1. is_on_policy(a) =>
            policy[a].buffer = [data |-> Held(a), length |-> policy[a].buffer.length]
      BY <1>2 DEF HeldIsCurrent
    <3> DEFINE data == IF Dropped(a) THEN Held(a) ELSE Append(Held(a), Transition(a))
    <3>2. /\ is_on_policy(a) => obs.buffer = [data |-> data, length |-> policy[a].buffer.length]
          /\ obs.seen = IF is_on_policy(a) THEN policy[a].seen + 1 ELSE policy[a].seen
          /\ new.seen = obs.seen
          /\ ready_to_learn(a, obs) =>
               /\ new.updates = Append(policy[a].updates, t)
               /\ is_on_policy(a) =>
                    new.buffer = [data |-> <<>>, length |-> policy[a].buffer.length]
          /\ ~ready_to_learn(a, obs) =>
               new.updates = policy[a].updates /\ new.buffer = obs.buffer
      <4> HIDE DEF n, u, every
      <4> QED BY <1>2, <1>6, <3>1, LearnedExactly
    <3>3. ready_to_learn(a, obs) <=> due
      BY <2>1
    <3> HIDE DEF obs, new, due, data
    <3> QED BY <3>2, <3>3
  <2>4. t = FirstComplete + n + 1 /\ FirstComplete \in Nat
    <3>1. /\ a \notin evaluate_only /\ t < evaluation_start
      <4>1. phase_for(a) = "TRAIN"
        BY <1>6 DEF Learns
      <4>2. t \in Nat /\ evaluation_start \in Nat
        BY <1>2, Window DEF Clock
      <4> QED BY <4>1, <4>2 DEF phase_for
    <3>2. Decided(a)' = t
      <4>1. turn' > a
        BY <1>1, Constants DEF Agents
      <4> QED BY <1>1, <4>1 DEF Decided
    <3>3. Trained(a)' = t
      <4>1. (Trained(a) = IF a \in evaluate_only \/ ~is_learning(a) THEN 0
                          ELSE IF Decided(a) < evaluation_start - 1 THEN Decided(a)
                          ELSE evaluation_start - 1)'
        <5>1. Clock'
          BY DEF Invariant
        <5> QED BY <5>1, TrainedIs, PTL
      <4>2. evaluation_start' = evaluation_start /\ t \in Nat
        BY <1>2 DEF evaluation_start, Clock
      <4> QED BY <1>1, <1>4, <2>1, <3>1, <3>2, <4>1, <4>2, Window
    <3>4. Len(observed'[a]) = Larger(0, t - FirstComplete)
      BY <3>3 DEF Invariant, Consecutive, FirstComplete, Larger
    <3>5. Len(observed'[a]) = n + 1
      BY <1>2, <1>3, <1>6 DEF Given
    <3>6. t \in Nat /\ FirstComplete \in Nat
      BY <1>2, LongestLag DEF Clock, FirstComplete
    <3> QED BY <2>2, <3>4, <3>5, <3>6 DEF Larger
  <2>5. Given(a)' = n + 1
    BY <1>2, <1>3, <1>6 DEF Given
  <2>6. Updates(a)' = IF due THEN u + 1 ELSE u
    <3>1. policy[a].updates \in Seq(Nat)
      BY <1>2 DEF IsPolicy
    <3>2. Len(Append(policy[a].updates, t)) = u + 1
      BY <3>1 DEF Updates
    <3> HIDE DEF due, new
    <3> QED BY <1>3, <2>3, <3>2 DEF Updates, new
  <2>7. Waiting(a)' = IF due THEN 0 ELSE held
    <3>1. CASE is_on_policy(a)
      <4>1. Waiting(a)' = Len(new.buffer.data)
        BY <1>3, <1>4, <3>1 DEF Waiting, Held
      <4>2. due => new.buffer.data = <<>>
        BY <2>3, <3>1
      <4> HIDE DEF due, new, held, obs
      <4> QED BY <2>1, <2>3, <3>1, <4>1, <4>2
    <3>2. CASE ~is_on_policy(a)
      <4>1. Waiting(a)' = 0 /\ Waiting(a) = 0 /\ every = 1
        BY <1>4, <3>2 DEF Waiting, Every
      <4> QED BY <1>2, <2>2, <4>1
    <3> QED BY <3>1, <3>2
  <2>8. /\ due => Placed(n + 1, learning_starts, every, u + 1, 0)
                  /\ n + 1 = learning_starts + u * every
        /\ ~due => Placed(n + 1, learning_starts, every, u, held)
    <3> DEFINE h == Waiting(a)
    <3>1. /\ learning_starts \in Nat /\ Placed(n, learning_starts, every, u, h)
          /\ n \in Nat /\ u \in Nat /\ h \in Nat
          /\ every \in Nat \ {0} /\ every <= learning_starts
      BY <1>2, <2>1, <2>2
    <3> HIDE DEF n, u, every, h
    <3>2. /\ (IF n < learning_starts - every THEN h ELSE h + 1) = every
             /\ n + 1 >= learning_starts =>
               /\ Placed(n + 1, learning_starts, every, u + 1, 0)
               /\ n + 1 = learning_starts + u * every
          /\ ~ ( /\ (IF n < learning_starts - every THEN h ELSE h + 1) = every
                 /\ n + 1 >= learning_starts ) =>
               Placed(n + 1, learning_starts, every, u,
                      IF n < learning_starts - every THEN h ELSE h + 1)
      BY <3>1, OneMore
    <3> QED BY <3>2 DEF h
  <2>9. Placed(Given(a), learning_starts, Every(a), Updates(a), Waiting(a))'
    <3>1. Placed(Given(a)', learning_starts, every, Updates(a)', Waiting(a)')
      <4> HIDE DEF n, u, every, held, due
      <4> QED BY <2>5, <2>6, <2>7, <2>8
    <3> QED BY <1>1, <1>4, <3>1 DEF Placed, Larger
  <2>10. policy'[a].updates =
           [i \in 1 .. Updates(a)' |-> first_learning_period + (i - 1) * every]
    <3> DEFINE first == first_learning_period
               s == policy[a].updates
    <3>1. s = [i \in 1 .. u |-> first + (i - 1) * every] /\ s \in Seq(Nat) /\ Len(s) = u
      BY <1>1, <1>2, <2>1 DEF Scheduled, IsPolicy, Updates
    <3>2. CASE ~due
      <4> HIDE DEF due, u
      <4> QED BY <1>3, <2>3, <2>6, <3>1, <3>2
    <3>3. CASE due
      <4>1. policy'[a].updates = Append(s, t) /\ Updates(a)' = u + 1
        BY <1>3, <2>3, <2>6, <3>3
      <4>2. t = first + u * every
        <5>1. first = FirstComplete + learning_starts
          BY <1>2, LongestLag DEF first_learning_period, FirstComplete
        <5>2. n + 1 = learning_starts + u * every /\ u * every \in Nat
          BY <2>2, <2>8, <3>3, Multiples
        <5> DEFINE m == u * every
        <5> HIDE DEF m, first, n
        <5>3. t = first + m
          <6>1. /\ t = FirstComplete + n + 1 /\ FirstComplete \in Nat
                /\ n + 1 = learning_starts + m /\ m \in Nat
                /\ learning_starts \in Nat /\ n \in Nat
            BY <1>2, <2>2, <2>4, <5>2 DEF m
          <6> QED BY <5>1, <6>1
        <5> QED BY <5>3 DEF m
      <4>3. /\ DOMAIN Append(s, t) = 1 .. u + 1
            /\ \A i \in 1 .. u : Append(s, t)[i] = s[i]
            /\ Append(s, t)[u + 1] = t
        <5> HIDE DEF s, u
        <5> QED BY <2>2, <3>1
      <4>4. \A i \in 1 .. u + 1 : Append(s, t)[i] = first + (i - 1) * every
        <5> TAKE i \in 1 .. u + 1
        <5>1. CASE i = u + 1
          <6>1. i - 1 = u
            BY <2>2, <5>1
          <6>2. t = first + (i - 1) * every
            BY <4>2, <6>1
          <6> HIDE DEF s, u, first, every
          <6> QED BY <4>3, <5>1, <6>2
        <5>2. CASE i # u + 1
          <6>1. i \in 1 .. u
            BY <2>2, <5>2
          <6>2. s[i] = first + (i - 1) * every
            BY <3>1, <6>1
          <6> HIDE DEF s, u, first
          <6> QED BY <4>3, <6>1, <6>2
        <5> QED BY <5>1, <5>2
      <4>5. Append(s, t) = [i \in 1 .. u + 1 |-> Append(s, t)[i]]
        <5>1. Append(s, t) \in Seq(Nat)
          BY <1>2, <3>1 DEF Clock
        <5>2. Append(s, t) = [i \in DOMAIN Append(s, t) |-> Append(s, t)[i]]
          BY <5>1
        <5> QED BY <4>3, <5>2
      <4>6. Append(s, t) = [i \in 1 .. u + 1 |-> first + (i - 1) * every]
        <5> HIDE DEF s, u, first, every
        <5> QED BY <4>4, <4>5
      <4> HIDE DEF s, u, first
      <4> QED BY <4>1, <4>6 DEF first
    <3> QED BY <3>2, <3>3
  <2>11. Scheduled(a)'
    <3>1. is_on_policy(a) =>
            policy'[a].seen = n + 1 /\ policy'[a].buffer.length = config[a].rollout_length
      <4>1. is_on_policy(a) =>
              policy[a].seen = n /\ policy[a].buffer.length = config[a].rollout_length
        BY <1>2 DEF Scheduled
      <4>2. is_on_policy(a) => new.buffer.length = policy[a].buffer.length
        <5> HIDE DEF new, obs, due
        <5> QED BY <2>3
      <4> HIDE DEF new, obs, due, n
      <4> QED BY <1>3, <2>3, <4>1, <4>2 DEF new
    <3> QED BY <1>1, <1>4, <2>5, <2>9, <2>10, <3>1 DEF Scheduled
  <2>12. Modest(a)'
    <3>1. Updates(a)' <= Given(a)'
      BY <1>2, <2>2, <2>5, <2>6 DEF Modest
    <3>2. policy'[a].seen <= Given(a)'
      <4>1. policy[a].seen \in Nat /\ policy[a].seen <= n
        BY <1>2 DEF IsPolicy, Modest
      <4>2. policy'[a].seen \in {policy[a].seen, policy[a].seen + 1}
        <5> HIDE DEF new, obs, due
        <5> QED BY <1>3, <2>3 DEF new
      <4> HIDE DEF n
      <4> QED BY <2>2, <2>5, <4>1, <4>2
    <3>3. Transition(a) \in TypeTransition
      <4>1. prev[a] \in TypeDecision /\ prev[a] # NoDecision
        BY <1>6, PendingTyped DEF Learns
      <4>2. t - 1 \in 1 .. Periods /\ t \in 1 .. Periods
            /\ last_outcomes[a].period = t - 1
        <5>1. t \in Nat /\ t > 1 /\ t <= Periods /\ Periods \in Nat
          BY <1>1, <1>2, <1>6, MarketAssumption DEF Learns, Clock
        <5> QED BY <1>2, <5>1 DEF Clock
      <4> QED BY <4>1, <4>2 DEF TypeDecision, TypeTransition, Transition
    <3>4. \A i \in DOMAIN observed'[a] : observed'[a][i] \in TypeTransition
      <4>1. \A i \in 1 .. n : observed[a][i] \in TypeTransition
        BY <1>2 DEF Modest, Given
      <4>2. /\ DOMAIN observed'[a] = 1 .. n + 1
            /\ observed'[a][n + 1] = Transition(a)
            /\ \A i \in 1 .. n : observed'[a][i] = observed[a][i]
        BY <1>2, <1>3, <1>6 DEF Given
      <4> HIDE DEF n
      <4> QED BY <2>2, <3>3, <4>1, <4>2
    <3> QED BY <3>1, <3>2, <3>4 DEF Modest, TypeTransition
  <2> QED BY <2>11, <2>12
<1> QED BY <1>5, <1>6

\* A policy that is left alone in a run that goes on.
LEMMA ElseKeepsSchedule ==
  ASSUME Timetable, NEW a \in Agents,
         UNCHANGED <<config, learning_starts, policy[a], observed[a]>>,
         error' # "refused" => error # "refused"
  PROVE  (Modest(a) /\ Scheduled(a))'
<1>1. Modest(a) /\ Scheduled(a)
  BY DEF Timetable
<1>2. Modest(a)'
  BY <1>1 DEF Modest, Given, Updates, TypeTransition
<1>3. Scheduled(a)'
  BY <1>1 DEF Scheduled, Given, Updates, Waiting, Held, Every, is_on_policy, is_learning,
              first_learning_period, Placed, Larger
<1> QED BY <1>2, <1>3

\* The prices and counters of an agent that steps.
LEMMA StepKeepsValues ==
  ASSUME Invariant, Timetable, NEW a \in Agents, step(a)
  PROVE  Values'
<1>1. /\ UNCHANGED <<t, ptf_history, last_outcomes>>
      /\ counters' = [p \in Plants |-> IF p \notin PlantsOf(a) THEN counters[p]
                                       ELSE IF p \in Due(a) THEN 0 ELSE Counted(a, p)]
  BY DEF step, market
<1>2. PICK asked \in [PlantsOf(a) -> Low .. High] :
        prices' = [p \in Plants |-> IF p \in PlantsOf(a) THEN asked[p] ELSE prices[p]]
  BY DEF step
<1>3. Values
  BY DEF Timetable
<1>4. prices' \in [Plants -> Low .. High]
  BY <1>2, <1>3 DEF Values
<1>5. ASSUME NEW b \in Agents, NEW p \in PlantsOf(b) PROVE counters'[p] \in 0 .. FailStack[b]
  <2>1. counters[p] \in 0 .. FailStack[b] /\ FailStack[b] \in Nat /\ p \in Plants
        /\ (p \in PlantsOf(a) => b = a)
    BY <1>3, MarketAssumption DEF Values, PlantsOf
  <2>2. CASE p \notin PlantsOf(a)
    BY <1>1, <2>1, <2>2
  <2>3. CASE p \in PlantsOf(a) /\ p \in Due(a)
    BY <1>1, <2>1, <2>3
  <2>4. CASE p \in PlantsOf(a) /\ p \notin Due(a)
    <3>1. counters'[p] = Counted(a, p) /\ b = a
      BY <1>1, <2>1, <2>4
    <3>2. CASE t > 1 /\ failstack_on(a)
      <4>1. t - 1 \in DOMAIN ptf_history
        BY <3>2 DEF Invariant, Clock
      <4>2. ~(Counted(a, p) >= FailStack[a])
        BY <2>4, <3>2, <4>1 DEF Due
      <4>3. Counted(a, p) \in {0, counters[p] + 1}
        BY <3>2 DEF Counted
      <4> HIDE DEF Counted
      <4> QED BY <2>1, <3>1, <4>2, <4>3
    <3>3. CASE ~(t > 1 /\ failstack_on(a))
      BY <2>1, <3>1, <3>3 DEF Counted
    <3> QED BY <3>2, <3>3
  <2> QED BY <2>2, <2>3, <2>4
<1> QED BY <1>1, <1>3, <1>4, <1>5 DEF Values, PlantsOf, TypeOutcome

\* What validate_clearing_result leaves of a result.
LEMMA ClearingKeepsValues ==
  ASSUME Invariant, Timetable, NEW demand \in Demands, ClearMarket(demand)
  PROVE  Values'
<1> DEFINE result == Clear(bids, demand)
           price == acceptance_prices(result, bids, Strategy)
           outcome == [p \in Plants |-> [accepted |-> result.accepted[p], price |-> price[p]]]
<1>1. /\ Cleared(result, demand)
      /\ ptf_history' = Append(ptf_history, result.ptf)
      /\ last_outcomes' =
           [a \in Agents |-> [period |-> t, offers |-> [p \in PlantsOf(a) |-> outcome[p]]]]
      /\ t' = t + 1 /\ prices' = [p \in Plants |-> Low] /\ counters' = counters
  BY DEF ClearMarket
<1>2. Values /\ Clock
  BY DEF Timetable, Invariant
<1>3. Low \in Nat /\ High \in Nat /\ Low < High /\ Capacity \in [Plants -> Nat]
  BY MarketAssumption
<1>4. DOMAIN bids = Plants
      /\ \A p \in Plants : bids[p].price = prices[p] /\ bids[p].quantity \in Nat
  BY <1>3 DEF bids
<1> HIDE DEF result
<1>5. /\ result.ptf \in Low .. High
      /\ \A p \in Plants : result.accepted[p] \in Nat
  BY <1>1, <1>4 DEF Cleared, validate_clearing_result
<1>6. ASSUME NEW p \in Plants PROVE outcome[p] \in TypeOutcome
  <2>1. prices[p] \in Nat
    BY <1>2, <1>3 DEF Values
  <2>2. price[p] \in Nat \cup {NoPrice}
    BY <1>3, <1>4, <1>5, <2>1 DEF acceptance_prices
  <2> HIDE DEF price
  <2> QED BY <1>5, <2>2 DEF TypeOutcome
<1> HIDE DEF outcome
<1>7. ASSUME NEW a \in Agents PROVE last_outcomes'[a].offers \in [PlantsOf(a) -> TypeOutcome]
  <2>1. last_outcomes'[a].offers = [p \in PlantsOf(a) |-> outcome[p]]
    BY <1>1
  <2> QED BY <1>6, <2>1 DEF PlantsOf
<1>8. \A i \in 1 .. t' - 1 : ptf_history'[i] \in Low .. High
  <2>1. /\ t \in Nat \ {0} /\ Len(ptf_history) = t - 1 /\ ptf_history \in Seq(Int)
        /\ result.ptf \in Int
    BY <1>2, <1>3, <1>5 DEF Clock
  <2>2. /\ ptf_history'[t] = result.ptf
        /\ \A i \in 1 .. t - 1 : ptf_history'[i] = ptf_history[i]
    BY <1>1, <2>1
  <2>3. \A i \in 1 .. t' - 1 : i = t \/ i \in 1 .. t - 1
    BY <1>1, <2>1
  <2> QED BY <1>2, <1>5, <2>2, <2>3 DEF Values
<1>9. prices' \in [Plants -> Low .. High]
  BY <1>1, <1>3
<1> QED BY <1>1, <1>2, <1>7, <1>8, <1>9 DEF Values, PlantsOf, TypeOutcome

LEMMA KeepsTimetable ==
  Invariant /\ Invariant' /\ Current /\ Current' /\ Timetable /\ [Next]_vars => Timetable'
<1> SUFFICES ASSUME Invariant, Invariant', Current, Current', Timetable, [Next]_vars
             PROVE  Timetable'
  OBVIOUS
<1>1. Clock /\ Accepted /\ Values
  BY DEF Invariant, Timetable
<1>2. t \in Nat \ {0} /\ Periods \in Nat \ {0} /\ NAgents \in Nat \ {0}
  BY <1>1, MarketAssumption DEF Clock
<1>3. ASSUME NEW a \in Agents, step(a) PROVE Timetable'
  <2>1. /\ UNCHANGED <<config, learning_starts, evaluate_only, t, error>>
        /\ t <= Periods /\ error = "none"
    BY <1>3 DEF step, built
  <2>2. Accepted'
    BY <1>1, <1>2, <2>1 DEF Accepted, is_learning
  <2>3. Values'
    BY <1>3, StepKeepsValues
  <2>4. ASSUME NEW b \in Agents PROVE (Modest(b) /\ Scheduled(b))'
    <3>1. CASE b = a
      BY <1>3, <3>1, StepKeepsSchedule
    <3>2. CASE b # a
      <4>1. policy'[b] = policy[b] /\ observed'[b] = observed[b]
        BY <1>3, <3>2 DEF step, Invariant, Policies
      <4> QED BY <2>1, <4>1, ElseKeepsSchedule
    <3> QED BY <3>1, <3>2
  <2> QED BY <2>2, <2>3, <2>4 DEF Timetable
<1>4. ASSUME NEW demand \in Demands, ClearMarket(demand) PROVE Timetable'
  <2>1. /\ UNCHANGED <<config, learning_starts, evaluate_only, error, policy, observed>>
        /\ turn = NAgents + 1 /\ turn' = 1 /\ t' = t + 1
    BY <1>4 DEF ClearMarket, built
  <2>2. t <= Periods
    <3>1. t <= Periods + 1 /\ (t = Periods + 1 => turn = 1)
      BY <1>1 DEF Accepted
    <3>2. NAgents + 1 # 1 /\ turn = NAgents + 1
      BY <1>2, <2>1
    <3> QED BY <1>2, <3>1, <3>2
  <2>3. Accepted'
    <3>1. t' <= Periods + 1 /\ (t' = Periods + 1 => turn' = 1)
      BY <1>2, <2>1, <2>2
    <3>2. \A a \in Agents : is_learning(a)' = is_learning(a)
      BY <2>1 DEF is_learning
    <3> QED BY <1>1, <2>1, <3>1, <3>2 DEF Accepted
  <2>4. Values'
    BY <1>4, ClearingKeepsValues
  <2> QED BY <2>1, <2>3, <2>4, ElseKeepsSchedule DEF Timetable
<1>5. ASSUME UNCHANGED <<config, learning_starts, evaluate_only, t, turn, policy, observed,
                         prices, ptf_history, last_outcomes, counters>>,
             error' \in {error, "no PTF"}, error = "none" \/ error' = error
      PROVE  Timetable'
  <2>1. Accepted'
    BY <1>1, <1>5 DEF Accepted, is_learning
  <2>2. Values'
    BY <1>1, <1>5 DEF Values, PlantsOf, TypeOutcome
  <2> QED BY <1>5, <2>1, <2>2, ElseKeepsSchedule DEF Timetable
<1>6. ASSUME NEW demand \in Demands, ClearingFails(demand) PROVE Timetable'
  <2>1. UNCHANGED <<config, learning_starts, evaluate_only, t, turn, policy, observed,
                    prices, ptf_history, last_outcomes, counters>>
    BY <1>6 DEF ClearingFails, built, market
  <2>2. error' \in {error, "no PTF"} /\ (error = "none" \/ error' = error)
    BY <1>6 DEF ClearingFails
  <2> QED BY <1>5, <2>1, <2>2
<1>7. CASE UNCHANGED vars
  <2>1. UNCHANGED <<config, learning_starts, evaluate_only, t, turn, policy, observed,
                    prices, ptf_history, last_outcomes, counters>>
    BY <1>7 DEF vars, built, market
  <2>2. error' \in {error, "no PTF"} /\ (error = "none" \/ error' = error)
    BY <1>7 DEF vars
  <2> QED BY <1>5, <2>1, <2>2
<1> QED BY <1>3, <1>4, <1>6, <1>7 DEF Next

\* No learner raises an error in the step that is next.
LEMMA NothingRaises ==
  ASSUME Invariant, Current, Timetable, NEW a \in Agents, error = "none"
  PROVE  ~LearningRaises(a)
BY ReadyWhenDue DEF LearningRaises

LEMMA TypesHold ==
  ASSUME Invariant, Current, Timetable
  PROVE  TypeOK
<1>1. Clock /\ Accepted /\ Values
  BY DEF Invariant, Timetable
<1>2. t \in Nat \ {0} /\ Periods \in Nat \ {0} /\ t \in 1 .. Periods + 1
  <2>1. Periods \in Nat \ {0}
    BY MarketAssumption
  <2>2. t \in Nat \ {0} /\ t <= Periods + 1
    BY <1>1 DEF Clock, Accepted
  <2> QED BY <2>1, <2>2
<1>3. error = "none" /\ turn \in Agents => ~LearningRaises(turn)
  BY NothingRaises
<1>4. intervened \subseteq Plants
  BY <1>1 DEF Clock
<1>5. ptf_history \in [1 .. t - 1 -> Low .. High]
  <2>1. ptf_history \in Seq(Int) /\ Len(ptf_history) = t - 1
    BY <1>1 DEF Clock
  <2>2. ptf_history \in [1 .. t - 1 -> Int]
    BY <2>1
  <2> QED BY <1>1, <2>2 DEF Values
<1>6. log \in [1 .. t - 1 -> [failed : SUBSET Plants, intervened : SUBSET Plants]]
  <2> DEFINE entry == [failed : SUBSET Plants, intervened : SUBSET Plants]
  <2>1. log \in Seq(entry) /\ Len(log) = t - 1
    BY <1>1 DEF Clock
  <2> HIDE DEF entry
  <2>2. log \in [1 .. t - 1 -> entry]
    BY <2>1
  <2> QED BY <2>2 DEF entry
<1>7. ASSUME NEW a \in Agents
      PROVE  /\ last_outcomes[a].period = t - 1
             /\ t > 1 => last_outcomes[a].offers \in [PlantsOf(a) -> TypeOutcome]
             /\ \A p \in PlantsOf(a) : counters[p] \in 0 .. FailStack[a]
             /\ prev[a] \in TypeDecision
             /\ \A i \in DOMAIN observed[a] : observed[a][i] \in TypeTransition
             /\ policy[a].seen \in 0 .. Periods
  <2>1. Modest(a) /\ policy[a].seen \in Nat
    BY DEF Timetable, Invariant, Policies, IsPolicy
  <2>2. prev[a] \in TypeDecision /\ Given(a) \in Nat /\ Given(a) <= Periods
    BY PendingTyped
  <2>3. policy[a].seen \in 0 .. Periods
    BY <1>2, <2>1, <2>2 DEF Modest
  <2> QED BY <1>1, <2>1, <2>2, <2>3 DEF Clock, Values, Modest
<1> QED
  BY <1>1, <1>2, <1>3, <1>4, <1>5, <1>6, <1>7 DEF TypeOK, Clock, Accepted, Values, Current

\* The number of updates that a learner has made follows from its training.
LEMMA ScheduleHolds ==
  ASSUME Invariant, Current, Timetable
  PROVE  UpdatesOnSchedule
<1> SUFFICES ASSUME error # "refused", NEW a \in Agents
             PROVE  LET every == IF is_on_policy(a) THEN config[a].rollout_length ELSE 1
                        first == first_learning_period
                        n == IF Trained(a) < first THEN 0
                             ELSE (Trained(a) - first) \div every + 1
                    IN  policy[a].updates = [i \in 1 .. n |-> first + (i - 1) * every]
  BY DEF UpdatesOnSchedule
<1> DEFINE every == Every(a)
           first == first_learning_period
           n == IF Trained(a) < first THEN 0 ELSE (Trained(a) - first) \div every + 1
           u == Updates(a)
           g == Given(a)
           start == learning_starts
<1>1. /\ Clock /\ Accepted /\ Modest(a) /\ Scheduled(a) /\ Consecutive(a)
      /\ IsPolicy(policy[a]) /\ start \in Nat
  BY DEF Invariant, Timetable, Policies, Current
<1>2. /\ Trained(a) \in Int /\ first = FirstComplete + start /\ FirstComplete \in Nat
      /\ FirstComplete >= 1 /\ u \in Nat /\ g = Larger(0, Trained(a) - FirstComplete)
  <2>1. Trained(a) \in Int
    BY <1>1, TrainedIs, Turns, Window
  <2>2. first = FirstComplete + start /\ FirstComplete \in Nat /\ FirstComplete >= 1
    BY <1>1, LongestLag DEF first_learning_period, FirstComplete
  <2>3. u \in Nat /\ g = Larger(0, Trained(a) - FirstComplete)
    BY <1>1 DEF Updates, Given, IsPolicy, Consecutive
  <2> QED BY <2>1, <2>2, <2>3
<1>3. u = n
  <2>1. CASE ~is_learning(a)
    <3>1. Trained(a) = 0
      BY <1>1, <2>1, TrainedIs
    <3>2. u <= g
      BY <1>1 DEF Modest
    <3> HIDE DEF u, g, first, start, every
    <3>3. g = 0 /\ Trained(a) < first
      BY <1>1, <1>2, <3>1 DEF Larger
    <3> QED BY <1>2, <3>2, <3>3
  <2>2. CASE is_learning(a)
    <3> DEFINE h == Waiting(a)
               T == Trained(a)
    <3>1. Placed(g, start, every, u, h)
      BY <1>1, <2>2 DEF Scheduled
    <3>2. every \in Nat \ {0} /\ every <= start
      BY <1>1, <2>2, Sizes
    <3>3. h \in Nat
      <4>1. is_on_policy(a) => Held(a) \in Seq(Stored)
        BY DEF Current, HeldIsCurrent, IsLast
      <4> QED BY <4>1 DEF Waiting
    <3>4. /\ T \in Int /\ first = FirstComplete + start /\ FirstComplete \in Nat
          /\ FirstComplete >= 1 /\ u \in Nat /\ g = Larger(0, T - FirstComplete)
          /\ start \in Nat
      BY <1>1, <1>2
    <3> HIDE DEF u, g, first, start, every, h, T
    <3>5. T < first <=> g < start
      BY <3>2, <3>4 DEF Larger
    <3>6. CASE T < first
      BY <3>1, <3>4, <3>5, <3>6 DEF Placed, T
    <3>7. CASE ~(T < first)
      <4>1. u >= 1 /\ g - start = (u - 1) * every + h /\ h < every
        BY <3>2, <3>4, <3>5, <3>7 , <3>1 DEF Placed, Larger
      <4>2. T - first = g - start /\ T - first \in Nat
        BY <3>2, <3>4, <3>5, <3>7 DEF Larger
      <4>3. u - 1 \in Nat
        BY <3>4, <4>1
      <4>4. (T - first) \div every = u - 1
        BY <3>2, <3>3, <4>1, <4>2, <4>3, Quotient
      <4> QED BY <3>4, <3>7, <4>4 DEF T
    <3> QED BY <3>6, <3>7
  <2> QED BY <2>1, <2>2
<1>4. policy[a].updates = [i \in 1 .. u |-> first + (i - 1) * every]
  <2>1. CASE is_learning(a)
    BY <1>1, <2>1 DEF Scheduled
  <2>2. CASE ~is_learning(a)
    <3>1. Trained(a) = 0
      BY <1>1, <2>2, TrainedIs
    <3>2. u = 0
      <4> HIDE DEF u, first, start, every
      <4> QED BY <1>2, <1>3, <3>1, <1>1
    <3>3. policy[a].updates = <<>>
      BY <1>1, <3>2 DEF IsPolicy, Updates
    <3> QED BY <3>2, <3>3
  <2> QED BY <2>1, <2>2
<1> HIDE DEF u, n, first
<1> QED BY <1>3, <1>4 DEF n, first, Every

\* No learner of an accepted run ever raises an error: a rollout is emptied
\* before it overflows, nothing is sampled before it is stored, and every
\* learner updates first in the period that the run announces and then on its
\* own beat, whatever the sizes, the start and the number of periods
\* (common_learning_starts, RolloutBuffer.add, ReplayBuffer.sample).
THEOREM LearnersAreOnSchedule == Spec => []LearnersKeepSchedule
<1>1. Invariant /\ Current /\ Timetable => LearnersKeepSchedule
  BY TypesHold, ScheduleHolds DEF LearnersKeepSchedule
<1> QED
  BY <1>1, StartsCurrent, KeepsCurrent, StartsTimetable, KeepsTimetable, Inductive, PTL
  DEF Spec

-----------------------------------------------------------------------------
(* Sums over finite sets.                                                  *)

\* Among finite sets there is one such that nothing can be taken from it.
LEMMA SmallestSet ==
  ASSUME NEW B, B # {}, \A s \in B : IsFiniteSet(s)
  PROVE  \E s \in B : \A x \in s : s \ {x} \notin B
<1> DEFINE sizes == {Cardinality(s) : s \in B}
<1>1. sizes \subseteq Nat /\ sizes # {}
  BY FS_CardinalityType
<1>2. PICK n \in sizes : \A m \in sizes : n <= m
  BY <1>1, LeastOf
<1>3. PICK s \in B : n = Cardinality(s)
  BY <1>2
<1>4. ASSUME NEW x \in s, s \ {x} \in B PROVE FALSE
  <2>1. Cardinality(s \ {x}) = Cardinality(s) - 1 /\ Cardinality(s) \in Nat
    BY FS_RemoveElement, FS_CardinalityType
  <2>2. n <= Cardinality(s \ {x})
    BY <1>2, <1>4
  <2> QED
    BY <1>3, <2>1, <2>2
<1> QED
  BY <1>4

Choice(s) == CHOOSE x \in s : TRUE

LEMMA ChoiceIs == \A s : s # {} => Choice(s) \in s
  BY DEF Choice

(* d is the sum of f on each part of S, in the order of the choices.       *)
Adds(d, f, S) ==
    \A s \in SUBSET S : d[s] = IF s = {} THEN 0 ELSE f[Choice(s)] + d[s \ {Choice(s)}]

LEMMA SumAdds ==
  ASSUME NEW f, NEW S, IsFiniteSet(S)
  PROVE  \E d : Adds(d, f, S) /\ SumFunctionOnSet(f, S) = d[S]
<1> DEFINE Step(g, s) == IF s = {} THEN 0 ELSE f[Choice(s)] + g[s \ {Choice(s)}]
           Upto(n) == {s \in SUBSET S : Cardinality(s) <= n}
           Works(g, n) == \A s \in Upto(n) : g[s] = Step(g, s)
           N == Cardinality(S)
<1>1. N \in Nat /\ \A s \in SUBSET S : IsFiniteSet(s) /\ Cardinality(s) \in Nat
                                       /\ Cardinality(s) <= N
  BY FS_Subset, FS_CardinalityType
<1>2. ASSUME NEW n \in Nat \ {0}, NEW g, Works(g, n - 1)
      PROVE  Works([s \in SUBSET S |-> Step(g, s)], n)
  <2> DEFINE h == [s \in SUBSET S |-> Step(g, s)]
  <2>1. ASSUME NEW s \in Upto(n) PROVE h[s] = Step(h, s)
    <3>1. CASE s = {}
      BY <3>1
    <3>2. CASE s # {}
      <4> DEFINE r == s \ {Choice(s)}
      <4>1. r \in SUBSET S /\ Cardinality(r) <= n - 1
        <5>1. Choice(s) \in s /\ IsFiniteSet(s) /\ Cardinality(s) \in Nat
          BY <1>1, <3>2, ChoiceIs
        <5>2. Cardinality(r) = Cardinality(s) - 1
          BY <5>1, FS_RemoveElement
        <5> HIDE DEF r
        <5> QED
          BY <5>1, <5>2 DEF r
      <4>2. h[r] = Step(g, r) /\ g[r] = Step(g, r)
        BY <1>2, <4>1
      <4>3. h[s] = Step(g, s)
        OBVIOUS
      <4> HIDE DEF h
      <4> QED
        BY <3>2, <4>2, <4>3
    <3> QED
      BY <3>1, <3>2
  <2> QED
    BY <2>1
<1>3. Works([s \in {{}} |-> 0], 0)
  <2>1. \A s \in Upto(0) : s = {}
    BY <1>1, FS_EmptySet
  <2> QED
    BY <2>1
<1> HIDE DEF Works
<1>4. \A n \in Nat : \E g : Works(g, n)
  <2> DEFINE bad == {n \in Nat : ~ \E g : Works(g, n)}
  <2> SUFFICES ASSUME bad # {} PROVE FALSE
    OBVIOUS
  <2>1. PICK n \in bad : \A x \in bad : n <= x
    BY LeastOf
  <2>2. n \in Nat \ {0} /\ n - 1 \in Nat /\ ~ (n <= n - 1)
    BY <1>3, <2>1
  <2>3. PICK g : Works(g, n - 1)
    BY <2>1, <2>2
  <2> QED
    BY <1>2, <2>1, <2>2, <2>3
<1>5. PICK g : Works(g, N)
  BY <1>1, <1>4
<1> DEFINE c == [s \in SUBSET S |-> g[s]]
           d == CHOOSE h : h = [s \in SUBSET S |-> Step(h, s)]
<1>6. d = [s \in SUBSET S |-> Step(d, s)]
  <2>1. ASSUME NEW s \in SUBSET S PROVE g[s] = Step(c, s)
    <3>1. g[s] = Step(g, s)
      BY <1>1, <1>5 DEF Works
    <3>2. CASE s # {}
      <4>1. c[s \ {Choice(s)}] = g[s \ {Choice(s)}]
        OBVIOUS
      <4> HIDE DEF c
      <4> QED
        BY <3>1, <4>1
    <3> QED
      BY <3>1, <3>2
  <2>2. c = [s \in SUBSET S |-> Step(c, s)]
    BY <2>1
  <2> HIDE DEF c, Step
  <2> QED
    BY <2>2
<1>7. SumFunctionOnSet(f, S) = d[S]
  BY DEF SumFunctionOnSet, FoldFunctionOnSet, MapThenFoldSet, Choice
<1> HIDE DEF d
<1>8. Adds(d, f, S)
  BY <1>6 DEF Adds
<1> QED
  BY <1>7, <1>8

LEMMA OneSum ==
  ASSUME NEW f, NEW S, IsFiniteSet(S), NEW T \in SUBSET S, NEW d, Adds(d, f, S),
         NEW e, Adds(e, f, T)
  PROVE  e[T] = d[T]
<1> DEFINE B == {s \in SUBSET T : e[s] # d[s]}
<1> SUFFICES ASSUME B # {} PROVE FALSE
  OBVIOUS
<1>1. \A s \in B : IsFiniteSet(s)
  BY FS_Subset
<1>2. PICK s \in B : \A x \in s : s \ {x} \notin B
  BY <1>1, SmallestSet
<1>3. /\ e[s] = IF s = {} THEN 0 ELSE f[Choice(s)] + e[s \ {Choice(s)}]
      /\ d[s] = IF s = {} THEN 0 ELSE f[Choice(s)] + d[s \ {Choice(s)}]
  BY DEF Adds
<1>4. s # {} => e[s \ {Choice(s)}] = d[s \ {Choice(s)}]
  BY <1>2, ChoiceIs
<1> QED
  BY <1>3, <1>4

LEMMA SumUnfolds ==
  ASSUME NEW f, NEW S, IsFiniteSet(S)
  PROVE  SumFunctionOnSet(f, S) = IF S = {} THEN 0
             ELSE f[Choice(S)] + SumFunctionOnSet(f, S \ {Choice(S)})
<1> DEFINE T == S \ {Choice(S)}
<1>1. T \in SUBSET S /\ IsFiniteSet(T)
  BY FS_Subset
<1>2. PICK d : Adds(d, f, S) /\ SumFunctionOnSet(f, S) = d[S]
  BY SumAdds
<1>3. PICK e : Adds(e, f, T) /\ SumFunctionOnSet(f, T) = e[T]
  BY <1>1, SumAdds
<1>4. e[T] = d[T]
  BY <1>1, <1>2, <1>3, OneSum
<1>5. d[S] = IF S = {} THEN 0 ELSE f[Choice(S)] + d[T]
  BY <1>2 DEF Adds
<1> QED
  BY <1>2, <1>3, <1>4, <1>5

LEMMA SumOfNone == \A f : SumFunctionOnSet(f, {}) = 0
  BY SumUnfolds, FS_EmptySet

LEMMA SumIsNat ==
  ASSUME NEW S, IsFiniteSet(S), NEW f, \A x \in S : f[x] \in Nat
  PROVE  SumFunctionOnSet(f, S) \in Nat
<1> DEFINE B == {s \in SUBSET S : SumFunctionOnSet(f, s) \notin Nat}
<1> SUFFICES ASSUME B # {} PROVE FALSE
  BY DEF B
<1>1. \A s \in B : IsFiniteSet(s)
  BY FS_Subset
<1>2. PICK s \in B : \A x \in s : s \ {x} \notin B
  BY <1>1, SmallestSet
<1>3. CASE s = {}
  BY <1>3, SumOfNone
<1>4. CASE s # {}
  <2>1. SumFunctionOnSet(f, s) = f[Choice(s)] + SumFunctionOnSet(f, s \ {Choice(s)})
    BY <1>1, <1>4, SumUnfolds
  <2>2. Choice(s) \in s /\ f[Choice(s)] \in Nat
    BY <1>4, ChoiceIs
  <2>3. SumFunctionOnSet(f, s \ {Choice(s)}) \in Nat
    BY <1>2, <2>2
  <2> QED
    BY <2>1, <2>2, <2>3
<1> QED
  BY <1>3, <1>4

\* It does not matter which element is added last.
LEMMA SumPick ==
  ASSUME NEW S, IsFiniteSet(S), NEW f, \A x \in S : f[x] \in Nat, NEW x \in S
  PROVE  SumFunctionOnSet(f, S) = f[x] + SumFunctionOnSet(f, S \ {x})
<1> DEFINE Ok(s) == \A y \in s : SumFunctionOnSet(f, s)
                                    = f[y] + SumFunctionOnSet(f, s \ {y})
           B == {s \in SUBSET S : ~ Ok(s)}
<1> SUFFICES ASSUME B # {} PROVE FALSE
  BY DEF B
<1>1. \A s \in SUBSET S : IsFiniteSet(s) /\ SumFunctionOnSet(f, s) \in Nat
  BY FS_Subset, SumIsNat
<1>2. PICK s \in B : \A y \in s : s \ {y} \notin B
  BY <1>1, SmallestSet
<1>3. PICK y \in s : SumFunctionOnSet(f, s) # f[y] + SumFunctionOnSet(f, s \ {y})
  OBVIOUS
<1> DEFINE z == Choice(s)
<1>4. z \in s /\ SumFunctionOnSet(f, s) = f[z] + SumFunctionOnSet(f, s \ {z})
  BY <1>1, ChoiceIs, SumUnfolds
<1> HIDE DEF z
<1>5. y # z
  BY <1>3, <1>4
<1>6. s \ {y} \in SUBSET S /\ s \ {z} \in SUBSET S /\ Ok(s \ {y}) /\ Ok(s \ {z})
  BY <1>2, <1>4
<1>7. /\ SumFunctionOnSet(f, s \ {y}) = f[z] + SumFunctionOnSet(f, (s \ {y}) \ {z})
      /\ SumFunctionOnSet(f, s \ {z}) = f[y] + SumFunctionOnSet(f, (s \ {z}) \ {y})
  BY <1>4, <1>5, <1>6
<1>8. (s \ {y}) \ {z} = (s \ {z}) \ {y}
  OBVIOUS
<1> DEFINE v == SumFunctionOnSet(f, (s \ {z}) \ {y})
<1>9. f[y] \in Nat /\ f[z] \in Nat /\ v \in Nat
  BY <1>1, <1>4
<1> HIDE DEF v
<1>10. /\ SumFunctionOnSet(f, s \ {y}) = f[z] + v
       /\ SumFunctionOnSet(f, s) = f[z] + (f[y] + v)
  BY <1>4, <1>7, <1>8 DEF v
<1> QED
  BY <1>3, <1>9, <1>10

\* Sums of functions that agree, or of which one is the larger.
LEMMA SumSame ==
  ASSUME NEW S, IsFiniteSet(S), NEW f, NEW g, \A x \in S : f[x] \in Nat /\ f[x] = g[x]
  PROVE  SumFunctionOnSet(f, S) = SumFunctionOnSet(g, S)
<1> DEFINE B == {s \in SUBSET S : SumFunctionOnSet(f, s) # SumFunctionOnSet(g, s)}
<1> SUFFICES ASSUME B # {} PROVE FALSE
  BY DEF B
<1>1. \A s \in B : IsFiniteSet(s)
  BY FS_Subset
<1>2. PICK s \in B : \A x \in s : s \ {x} \notin B
  BY <1>1, SmallestSet
<1>3. s # {}
  BY SumOfNone
<1>4. /\ Choice(s) \in s /\ f[Choice(s)] = g[Choice(s)]
      /\ SumFunctionOnSet(f, s) = f[Choice(s)] + SumFunctionOnSet(f, s \ {Choice(s)})
      /\ SumFunctionOnSet(g, s) = g[Choice(s)] + SumFunctionOnSet(g, s \ {Choice(s)})
  BY <1>1, <1>3, ChoiceIs, SumUnfolds
<1> QED
  BY <1>2, <1>4

LEMMA SumLeq ==
  ASSUME NEW S, IsFiniteSet(S), NEW f, NEW g,
         \A x \in S : f[x] \in Nat /\ g[x] \in Nat /\ f[x] <= g[x]
  PROVE  SumFunctionOnSet(f, S) <= SumFunctionOnSet(g, S)
<1> DEFINE B == {s \in SUBSET S : ~ (SumFunctionOnSet(f, s) <= SumFunctionOnSet(g, s))}
<1> SUFFICES ASSUME B # {} PROVE FALSE
  BY DEF B
<1>1. \A s \in SUBSET S : /\ IsFiniteSet(s)
                          /\ SumFunctionOnSet(f, s) \in Nat /\ SumFunctionOnSet(g, s) \in Nat
  BY FS_Subset, SumIsNat
<1>2. PICK s \in B : \A x \in s : s \ {x} \notin B
  BY <1>1, SmallestSet
<1>3. s # {}
  BY SumOfNone
<1> DEFINE z == Choice(s)
<1>4. /\ z \in s
      /\ SumFunctionOnSet(f, s) = f[z] + SumFunctionOnSet(f, s \ {z})
      /\ SumFunctionOnSet(g, s) = g[z] + SumFunctionOnSet(g, s \ {z})
  BY <1>1, <1>3, ChoiceIs, SumUnfolds
<1> HIDE DEF z
<1>5. /\ f[z] \in Nat /\ g[z] \in Nat /\ f[z] <= g[z]
      /\ SumFunctionOnSet(f, s \ {z}) \in Nat /\ SumFunctionOnSet(g, s \ {z}) \in Nat
      /\ SumFunctionOnSet(f, s \ {z}) <= SumFunctionOnSet(g, s \ {z})
  BY <1>1, <1>2, <1>4
<1> QED
  BY <1>4, <1>5

LEMMA SumLess ==
  ASSUME NEW S, IsFiniteSet(S), NEW f, NEW g,
         \A x \in S : f[x] \in Nat /\ g[x] \in Nat /\ f[x] <= g[x],
         NEW z \in S, f[z] < g[z]
  PROVE  SumFunctionOnSet(f, S) < SumFunctionOnSet(g, S)
<1>1. IsFiniteSet(S \ {z}) /\ S \ {z} \subseteq S
  BY FS_Subset
<1>2. /\ SumFunctionOnSet(f, S) = f[z] + SumFunctionOnSet(f, S \ {z})
      /\ SumFunctionOnSet(g, S) = g[z] + SumFunctionOnSet(g, S \ {z})
  BY SumPick
<1>3. /\ SumFunctionOnSet(f, S \ {z}) <= SumFunctionOnSet(g, S \ {z})
      /\ SumFunctionOnSet(f, S \ {z}) \in Nat /\ SumFunctionOnSet(g, S \ {z}) \in Nat
      /\ f[z] \in Nat /\ g[z] \in Nat
  BY <1>1, SumLeq, SumIsNat
<1> QED
  BY <1>2, <1>3

LEMMA SumOfConstant ==
  ASSUME NEW S, IsFiniteSet(S), NEW c \in Nat, NEW f, \A x \in S : f[x] = c
  PROVE  SumFunctionOnSet(f, S) = c * Cardinality(S)
<1> DEFINE B == {s \in SUBSET S : SumFunctionOnSet(f, s) # c * Cardinality(s)}
<1> SUFFICES ASSUME B # {} PROVE FALSE
  BY DEF B
<1>1. \A s \in SUBSET S : IsFiniteSet(s) /\ Cardinality(s) \in Nat
  BY FS_Subset, FS_CardinalityType
<1>2. PICK s \in B : \A x \in s : s \ {x} \notin B
  BY <1>1, SmallestSet
<1>3. s # {}
  BY SumOfNone, FS_EmptySet
<1> DEFINE z == Choice(s)
           m == Cardinality(s \ {z})
<1>4. /\ z \in s /\ f[z] = c
      /\ SumFunctionOnSet(f, s) = f[z] + SumFunctionOnSet(f, s \ {z})
  BY <1>1, <1>3, ChoiceIs, SumUnfolds
<1> HIDE DEF z
<1>5. m \in Nat /\ Cardinality(s) = m + 1
  BY <1>1, <1>4, FS_RemoveElement
<1>6. SumFunctionOnSet(f, s \ {z}) = c * m
  BY <1>2, <1>4
<1> HIDE DEF m
<1>7. c + c * m = c * (m + 1)
  BY <1>5
<1> QED
  BY <1>4, <1>5, <1>6, <1>7

\* The sum over two parts.
LEMMA SumParts ==
  ASSUME NEW S, IsFiniteSet(S), NEW f, \A x \in S : f[x] \in Nat, NEW P \in SUBSET S
  PROVE  SumFunctionOnSet(f, S) = SumFunctionOnSet(f, P) + SumFunctionOnSet(f, S \ P)
<1> DEFINE Rest(s) == SumFunctionOnSet(f, S \ (P \ s))
           B == {s \in SUBSET P : Rest(s) # SumFunctionOnSet(f, s)
                                               + SumFunctionOnSet(f, S \ P)}
<1>0. P \ P = {} /\ S \ {} = S
  OBVIOUS
<1> SUFFICES ASSUME B # {} PROVE FALSE
  <2>1. P \notin B
    OBVIOUS
  <2> QED
    BY <1>0, <2>1
<1>1. \A s \in SUBSET S : IsFiniteSet(s) /\ SumFunctionOnSet(f, s) \in Nat
  BY FS_Subset, SumIsNat
<1>2. PICK s \in B : \A x \in s : s \ {x} \notin B
  BY <1>1, SmallestSet
<1>3. s # {}
  <2>1. P \ {} = P
    OBVIOUS
  <2>2. SumFunctionOnSet(f, S \ P) \in Nat
    BY <1>1
  <2> QED
    BY <2>1, <2>2, SumOfNone
<1>4. PICK z \in s : TRUE
  BY <1>3
<1> DEFINE T == S \ (P \ s)
<1>5. T \in SUBSET S /\ z \in T /\ T \ {z} = S \ (P \ (s \ {z}))
  BY <1>4
<1>6. Rest(s) = f[z] + Rest(s \ {z})
  <2> HIDE DEF T
  <2>1. IsFiniteSet(T) /\ \A x \in T : f[x] \in Nat
    BY <1>1, <1>5
  <2>2. SumFunctionOnSet(f, T) = f[z] + SumFunctionOnSet(f, T \ {z})
    BY <1>5, <2>1, SumPick
  <2> QED
    BY <1>5, <2>2 DEF T
<1>7. SumFunctionOnSet(f, s) = f[z] + SumFunctionOnSet(f, s \ {z})
  BY <1>1, <1>4, SumPick
<1>8. Rest(s \ {z}) = SumFunctionOnSet(f, s \ {z}) + SumFunctionOnSet(f, S \ P)
  BY <1>2, <1>4
<1>9. /\ f[z] \in Nat /\ SumFunctionOnSet(f, s \ {z}) \in Nat
      /\ SumFunctionOnSet(f, S \ P) \in Nat
      /\ Rest(s) # SumFunctionOnSet(f, s) + SumFunctionOnSet(f, S \ P)
  BY <1>1, <1>2, <1>4
<1> HIDE DEF Rest, B
<1> QED
  BY <1>6, <1>7, <1>8, <1>9

-----------------------------------------------------------------------------
(* Numbers in order.                                                       *)

LEMMA MaxIs ==
  ASSUME NEW S, S \subseteq Int, IsFiniteSet(S), S # {}
  PROVE  Max(S) \in S /\ \A y \in S : y <= Max(S)
<1> DEFINE Top(s) == \E x \in s : \A y \in s : x >= y
           B == {s \in SUBSET S : s # {} /\ ~ Top(s)}
<1>1. B = {}
  <2> SUFFICES ASSUME B # {} PROVE FALSE
    OBVIOUS
  <2>1. \A s \in B : IsFiniteSet(s)
    BY FS_Subset
  <2>2. PICK s \in B : \A x \in s : s \ {x} \notin B
    BY <2>1, SmallestSet
  <2>3. PICK x \in s : TRUE
    OBVIOUS
  <2>4. s \ {x} # {}
    <3> SUFFICES ASSUME s \ {x} = {} PROVE FALSE
      OBVIOUS
    <3>1. \A y \in s : x >= y
      OBVIOUS
    <3> QED
      BY <2>3, <3>1
  <2>5. PICK z \in s \ {x} : \A y \in s \ {x} : z >= y
    BY <2>2, <2>4
  <2>6. x \in Int /\ z \in Int /\ \A y \in s : y \in Int
    OBVIOUS
  <2>7. CASE x >= z
    <3>1. \A y \in s : x >= y
      BY <2>5, <2>6, <2>7
    <3> QED
      BY <2>3, <3>1
  <2>8. CASE z >= x
    <3>1. \A y \in s : z >= y
      BY <2>5, <2>8
    <3> QED
      BY <2>5, <3>1
  <2> QED
    BY <2>6, <2>7, <2>8
<1>2. \E x \in S : \A y \in S : x >= y
  BY <1>1
<1>3. Max(S) \in S /\ \A y \in S : Max(S) >= y
  BY <1>2 DEF Max
<1> QED
  BY <1>3

\* As many numbers of a set have fewer than r below them as r says.
LEMMA Ranks ==
  ASSUME NEW S, S \subseteq Int, IsFiniteSet(S), NEW r \in 0 .. Cardinality(S)
  PROVE  Cardinality({k \in S : Cardinality({j \in S : j < k}) < r}) = r
<1> DEFINE Below(s, k) == {j \in s : j < k}
           Least(s, n) == {k \in s : Cardinality(Below(s, k)) < n}
           Ok(s) == \A n \in 0 .. Cardinality(s) : Cardinality(Least(s, n)) = n
           B == {s \in SUBSET S : ~ Ok(s)}
<1> SUFFICES ASSUME B # {} PROVE FALSE
  BY DEF B
<1>1. \A s \in SUBSET S : IsFiniteSet(s) /\ Cardinality(s) \in Nat
  BY FS_Subset, FS_CardinalityType
<1>2. PICK s \in B : \A x \in s : s \ {x} \notin B
  BY <1>1, SmallestSet
<1>3. PICK n \in 0 .. Cardinality(s) : Cardinality(Least(s, n)) # n
  OBVIOUS
<1>4. s # {}
  <2> SUFFICES ASSUME s = {} PROVE FALSE
    OBVIOUS
  <2>1. Cardinality(s) = 0 /\ n = 0 /\ Least(s, n) = {}
    BY FS_EmptySet
  <2> QED
    BY <1>3, <2>1, FS_EmptySet
<1> DEFINE m == Max(s)
           rest == s \ {m}
           c == Cardinality(rest)
<1>5. s \subseteq Int /\ m \in s /\ \A y \in s : y <= m
  BY <1>1, <1>4, MaxIs
<1> HIDE DEF m
<1>6. rest \in SUBSET S /\ IsFiniteSet(rest) /\ c \in Nat /\ Cardinality(s) = c + 1
  BY <1>1, <1>5, FS_RemoveElement
<1>7. Ok(rest)
  BY <1>2, <1>5, <1>6
<1>8. Below(s, m) = rest
  <2>1. \A j \in s : j \in Int /\ m \in Int /\ j <= m
    BY <1>5
  <2>2. \A j \in s : j < m <=> j # m
    BY <2>1
  <2> QED
    BY <2>2
<1>9. \A k \in rest : Below(s, k) = Below(rest, k)
  BY <1>5
<1>10. s = rest \cup {m} /\ m \notin rest
  BY <1>5
<1>11. \A k \in rest : Cardinality(Below(rest, k)) \in Nat /\ Cardinality(Below(rest, k)) < c
  <2> TAKE k \in rest
  <2>1. Below(rest, k) \in SUBSET (rest \ {k})
    BY <1>5
  <2>2. IsFiniteSet(rest \ {k}) /\ Cardinality(rest \ {k}) = c - 1
    BY <1>6, FS_RemoveElement
  <2> HIDE DEF Below, rest
  <2>3. Cardinality(Below(rest, k)) \in Nat /\ Cardinality(Below(rest, k)) <= c - 1
    BY <2>1, <2>2, FS_Subset, FS_CardinalityType
  <2> HIDE DEF c
  <2> QED
    BY <1>6, <2>3
<1>12. n \in Nat /\ n <= c + 1
  BY <1>6
<1> HIDE DEF rest, c, Below
<1>13. CASE n <= c
  <2>0. ~ (Cardinality(Below(s, m)) < n)
    BY <1>6, <1>8, <1>12, <1>13 DEF c
  <2>1. Least(s, n) = Least(rest, n)
    BY <1>9, <1>10, <2>0
  <2>2. Cardinality(Least(rest, n)) = n
    BY <1>7, <1>12, <1>13 DEF c
  <2> QED
    BY <1>3, <2>1, <2>2
<1>14. CASE n = c + 1
  <2>1. \A k \in s : Cardinality(Below(s, k)) < n
    BY <1>6, <1>8, <1>9, <1>10, <1>11, <1>14 DEF c
  <2>2. Least(s, n) = s
    BY <2>1
  <2> QED
    BY <1>3, <1>6, <1>14, <2>2
<1> QED
  BY <1>6, <1>12, <1>13, <1>14

-----------------------------------------------------------------------------
(* Bids in ascending quantity.                                             *)

IsQuantity(quantity, keys) ==
    keys \subseteq Int /\ IsFiniteSet(keys) /\ quantity \in [keys -> Nat \ {0}]

\* Among bids there is a smallest one and a largest one.
LEMMA SmallerIsOrder ==
  ASSUME NEW quantity, NEW keys, IsQuantity(quantity, keys)
  PROVE  /\ \A k \in keys : ~ Smaller(quantity, k, k)
         /\ \A j, k \in keys : j # k => Smaller(quantity, j, k) \/ Smaller(quantity, k, j)
         /\ \A i, j, k \in keys : Smaller(quantity, i, j) /\ Smaller(quantity, j, k)
                                     => Smaller(quantity, i, k)
         /\ \A j, k \in keys : Smaller(quantity, j, k) => quantity[j] <= quantity[k]
<1>1. \A k \in keys : k \in Int /\ quantity[k] \in Nat
  BY DEF IsQuantity
<1> QED
  BY <1>1 DEF Smaller

LEMMA EndsOf ==
  ASSUME NEW quantity, NEW keys, IsQuantity(quantity, keys), NEW S \in SUBSET keys, S # {}
  PROVE  /\ \E x \in S : \A y \in S : y # x => Smaller(quantity, x, y)
         /\ \E x \in S : \A y \in S : y # x => Smaller(quantity, y, x)
<1> DEFINE First(s) == \E x \in s : \A y \in s : y # x => Smaller(quantity, x, y)
           Last1(s) == \E x \in s : \A y \in s : y # x => Smaller(quantity, y, x)
           B == {s \in SUBSET S : s # {} /\ ~ (First(s) /\ Last1(s))}
<1> SUFFICES ASSUME B # {} PROVE FALSE
  BY DEF B
<1>1. \A s \in B : IsFiniteSet(s)
  BY FS_Subset DEF IsQuantity
<1>2. PICK s \in B : \A x \in s : s \ {x} \notin B
  BY <1>1, SmallestSet
<1>3. PICK z \in s : TRUE
  OBVIOUS
<1>4. s \ {z} # {}
  <2> SUFFICES ASSUME s \ {z} = {} PROVE FALSE
    OBVIOUS
  <2>1. \A y \in s : y = z
    OBVIOUS
  <2> QED
    BY <1>2, <1>3, <2>1
<1>5. First(s \ {z}) /\ Last1(s \ {z})
  BY <1>2, <1>3, <1>4
<1>6. s \subseteq keys
  OBVIOUS
<1>7. First(s)
  <2>1. PICK x \in s \ {z} : \A y \in s \ {z} : y # x => Smaller(quantity, x, y)
    BY <1>5
  <2>2. CASE Smaller(quantity, x, z)
    <3>1. \A y \in s : y # x => Smaller(quantity, x, y)
      BY <2>1, <2>2
    <3> QED
      BY <2>1, <3>1
  <2>3. CASE Smaller(quantity, z, x)
    <3>1. \A y \in s : y # z => Smaller(quantity, z, y)
      BY <1>6, <2>1, <2>3, SmallerIsOrder
    <3> QED
      BY <1>3, <3>1
  <2> QED
    BY <1>6, <2>1, <2>2, <2>3, SmallerIsOrder
<1>8. Last1(s)
  <2>1. PICK x \in s \ {z} : \A y \in s \ {z} : y # x => Smaller(quantity, y, x)
    BY <1>5
  <2>2. CASE Smaller(quantity, z, x)
    <3>1. \A y \in s : y # x => Smaller(quantity, y, x)
      BY <2>1, <2>2
    <3> QED
      BY <2>1, <3>1
  <2>3. CASE Smaller(quantity, x, z)
    <3>1. \A y \in s : y # z => Smaller(quantity, y, z)
      BY <1>6, <2>1, <2>3, SmallerIsOrder
    <3> QED
      BY <1>3, <3>1
  <2> QED
    BY <1>6, <2>1, <2>2, <2>3, SmallerIsOrder
<1> QED
  BY <1>2, <1>7, <1>8

(* What WaterFill gives: the bids in full are taken whole, each of the     *)
(* d others gets num / d, which is less than it has and no less than what  *)
(* a bid in full has.                                                      *)
Filled(full, num, quantity, keys, volume) ==
    LET d == Cardinality(keys \ full) IN
    /\ full \subseteq keys /\ d \in Nat \ {0} /\ num \in Nat
    /\ num + SumFunctionOnSet(quantity, full) = volume
    /\ \A k \in full : quantity[k] * d <= num
    /\ \A k \in keys \ full : num < quantity[k] * d
    /\ WaterFill(quantity, volume)
          = [k \in keys |-> IF k \in full THEN <<quantity[k], 1>> ELSE <<num, d>>]

LEMMA MoreTimes ==
  ASSUME NEW a \in Nat, NEW b \in Nat, NEW d \in Nat, a <= b
  PROVE  a * d <= b * d /\ a * d \in Nat /\ b * d \in Nat
  OBVIOUS

LEMMA WaterFillIs ==
  ASSUME NEW quantity, NEW keys, IsQuantity(quantity, keys),
         NEW volume \in Nat, volume < SumFunctionOnSet(quantity, keys)
  PROVE  \E full, num : Filled(full, num, quantity, keys, volume)
<1> DEFINE Before(k) == {j \in keys : Smaller(quantity, j, k)}
           Sum(s) == SumFunctionOnSet(quantity, s)
           Fits(k) == quantity[k] * Cardinality(keys \ Before(k)) <= volume - Sum(Before(k))
           full == {k \in keys : \A j \in Before(k) \cup {k} : Fits(j)}
           num == volume - Sum(full)
           d == Cardinality(keys \ full)
<1>1. /\ DOMAIN quantity = keys /\ IsFiniteSet(keys)
      /\ \A k \in keys : quantity[k] \in Nat
      /\ \A s \in SUBSET keys : /\ IsFiniteSet(s) /\ Cardinality(s) \in Nat
                                /\ Sum(s) \in Nat
  BY FS_Subset, FS_CardinalityType, SumIsNat DEF IsQuantity
<1>2. \A k \in keys : Before(k) \in SUBSET (keys \ {k})
  BY SmallerIsOrder
<1>3. \A j, k \in keys : j \in Before(k) => Before(j) \subseteq Before(k)
  BY SmallerIsOrder
<1>4. \A j, k \in keys : j \in Before(k) \/ k \in Before(j) \/ j = k
  BY SmallerIsOrder
<1>5. \A j, k \in keys : j \in Before(k) => quantity[j] <= quantity[k]
  BY SmallerIsOrder
<1>6. \A k \in full : Before(k) \subseteq full /\ Fits(k)
  <2> TAKE k \in full
  <2>1. \A j \in Before(k) \cup {k} : Fits(j)
    OBVIOUS
  <2>2. ASSUME NEW j \in Before(k) PROVE j \in full
    <3>1. Before(j) \cup {j} \subseteq Before(k) \cup {k}
      BY <1>3, <2>2
    <3> QED
      BY <2>1, <3>1
  <2> QED
    BY <2>1, <2>2
<1>7. WaterFill(quantity, volume)
         = [k \in keys |-> IF k \in full THEN <<quantity[k], 1>> ELSE <<num, d>>]
  BY <1>1 DEF WaterFill
<1>8. \A k \in keys : (\A j \in Before(k) : j \in full) /\ Fits(k) => k \in full
  <2> SUFFICES ASSUME NEW k \in keys, \A j \in Before(k) : j \in full, Fits(k)
               PROVE  k \in full
    OBVIOUS
  <2>1. \A j \in Before(k) \cup {k} : Fits(j)
    <3> HIDE DEF Fits, full
    <3> QED
      BY <1>6
  <2> HIDE DEF Fits
  <2> QED
    BY <2>1
<1>9. full \in SUBSET keys
  OBVIOUS
<1> HIDE DEF full
<1>10. keys \ full # {}
  <2> SUFFICES ASSUME keys \ full = {} PROVE FALSE
    OBVIOUS
  <2>1. full = keys
    BY <1>9
  <2>2. keys # {}
    BY SumOfNone
  <2>3. PICK k \in keys : \A j \in keys : j # k => Smaller(quantity, j, k)
    BY <2>2, EndsOf
  <2>4. Before(k) = keys \ {k}
    BY <1>2, <2>3
  <2>5. Fits(k)
    BY <1>6, <2>1
  <2>6. keys \ (keys \ {k}) = {k} /\ Cardinality({k}) = 1
    BY FS_Singleton
  <2>7. quantity[k] * 1 <= volume - Sum(keys \ {k})
    BY <2>4, <2>5, <2>6
  <2>8. Sum(keys) = quantity[k] + Sum(keys \ {k})
    BY <1>1, SumPick
  <2>9. Sum(keys \ {k}) \in Nat /\ quantity[k] \in Nat
    BY <1>1
  <2> HIDE DEF Sum
  <2>10. volume < Sum(keys)
    BY DEF Sum
  <2> QED
    BY <2>7, <2>8, <2>9, <2>10
<1>11. d \in Nat \ {0}
  <2>1. IsFiniteSet(keys \ full)
    BY <1>1
  <2>2. d \in Nat /\ d # 0
    BY <1>10, <2>1, FS_CardinalityType, FS_EmptySet
  <2> QED
    BY <2>2
<1>12. \A k \in keys \ full : num < quantity[k] * d
  <2>1. PICK f \in keys \ full : \A y \in keys \ full : y # f => Smaller(quantity, f, y)
    BY <1>10, EndsOf
  <2>2. Before(f) = full
    <3>1. ASSUME NEW j \in Before(f) PROVE j \in full
      <4> SUFFICES ASSUME j \notin full PROVE FALSE
        OBVIOUS
      <4>1. j \in keys /\ j # f /\ Smaller(quantity, j, f) /\ f \in keys
        BY <1>2, <2>1
      <4>2. Smaller(quantity, f, j)
        BY <2>1, <4>1
      <4> QED
        BY <4>1, <4>2, SmallerIsOrder
    <3>2. ASSUME NEW j \in full PROVE j \in Before(f)
      <4>1. f \notin Before(j) /\ j # f
        BY <1>6, <2>1
      <4> QED
        BY <1>4, <1>9, <2>1, <4>1
    <3> QED
      BY <3>1, <3>2
  <2>3. ~ Fits(f)
    BY <1>8, <2>1, <2>2
  <2>4. ~ (quantity[f] * d <= num)
    BY <2>2, <2>3
  <2> TAKE k \in keys \ full
  <2>5. quantity[f] <= quantity[k] /\ quantity[f] \in Nat /\ quantity[k] \in Nat
    BY <1>1, <2>1, SmallerIsOrder
  <2>6. num \in Int
    BY <1>1, <1>9
  <2> HIDE DEF num, d
  <2>7. quantity[f] * d <= quantity[k] * d /\ quantity[f] * d \in Nat /\ quantity[k] * d \in Nat
    BY <1>11, <2>5, MoreTimes
  <2> QED
    BY <2>4, <2>6, <2>7
<1>13. num \in Nat /\ \A k \in full : quantity[k] * d <= num
  <2>1. CASE full = {}
    <3>1. Sum(full) = 0
      BY <2>1, SumOfNone
    <3> HIDE DEF Sum
    <3>2. num = volume
      BY <3>1
    <3> QED
      BY <2>1, <3>2
  <2>2. CASE full # {}
    <3>1. PICK l \in full : \A y \in full : y # l => Smaller(quantity, y, l)
      BY <1>9, <2>2, EndsOf
    <3>2. Before(l) = full \ {l}
      BY <1>2, <1>6, <1>9, <3>1
    <3>3. keys \ Before(l) = (keys \ full) \cup {l} /\ l \notin keys \ full
      BY <1>9, <3>1, <3>2
    <3>4. Cardinality(keys \ Before(l)) = d + 1
      <4>1. IsFiniteSet(keys \ full)
        BY <1>1
      <4> HIDE DEF Before
      <4> QED
        BY <3>3, <4>1, FS_AddElement
    <3>5. quantity[l] * (d + 1) <= volume - Sum(full \ {l})
      BY <1>6, <3>2, <3>4
    <3>6. Sum(full) = quantity[l] + Sum(full \ {l})
      BY <1>1, <1>9, <3>1, SumPick
    <3>7. quantity[l] \in Nat /\ Sum(full \ {l}) \in Nat
      BY <1>1, <1>9
    <3> DEFINE s == Sum(full \ {l})
               q == quantity[l]
    <3>8. num = volume - (q + s)
      BY <3>6
    <3> HIDE DEF num, d, s, q
    <3>9. q * (d + 1) = q * d + q /\ q * d \in Nat
      BY <1>11, <3>7 DEF q
    <3>10. q * d <= num
      BY <3>5, <3>7, <3>8, <3>9 DEF q, s
    <3>11. num \in Nat
      BY <3>7, <3>8, <3>9, <3>10 DEF q, s
    <3>12. ASSUME NEW k \in full PROVE quantity[k] * d <= num
      <4>1. quantity[k] \in Nat /\ quantity[k] <= q
        BY <1>1, <1>9, <3>1, SmallerIsOrder DEF q
      <4>2. quantity[k] * d <= q * d /\ quantity[k] * d \in Nat
        BY <1>11, <3>7, <4>1, MoreTimes DEF q
      <4> QED
        BY <3>9, <3>10, <3>11, <4>2
    <3> QED
      BY <3>11, <3>12
  <2> QED
    BY <2>1, <2>2
<1>14. num + Sum(full) = volume
  <2>1. Sum(full) \in Nat
    BY <1>1, <1>9
  <2> HIDE DEF Sum
  <2> QED
    BY <2>1
<1> HIDE DEF num, Before
<1>15. Filled(full, num, quantity, keys, volume)
  BY <1>7, <1>9, <1>11, <1>12, <1>13, <1>14 DEF Filled
<1> QED
  BY <1>15

(* Whoever is not sold out gets at most one less than any other, and that  *)
(* one went to a smaller key.                                              *)
Fair(units, quantity, S) ==
    \A j, k \in S : units[j] < quantity[j] =>
        units[k] <= units[j] + 1 /\ (units[k] = units[j] + 1 => k < j)

LEMMA Division ==
  ASSUME NEW a \in Nat, NEW d \in Nat \ {0}
  PROVE  /\ a \div d \in Nat /\ a % d \in 0 .. d - 1 /\ a = (a \div d) * d + (a % d)
         /\ \A q \in Nat : a < q * d => a \div d < q
         /\ \A q \in Nat : q * d <= a => q <= a \div d
         /\ a \div 1 = a /\ a % 1 = 0
<1> DEFINE w == a \div d
           r == a % d
<1>1. w \in Nat /\ r \in 0 .. d - 1 /\ a = w * d + r
  BY SMT
<1>0. w = a \div d /\ r = a % d
  OBVIOUS
<1> HIDE DEF w, r
<1>2. ASSUME NEW q \in Nat, a < q * d PROVE w < q
  <2> SUFFICES ASSUME q <= w PROVE FALSE
    BY <1>1
  <2>1. q * d <= w * d /\ q * d \in Nat /\ w * d \in Nat
    BY <1>1, MoreTimes
  <2> QED
    BY <1>1, <1>2, <2>1
<1>3. ASSUME NEW q \in Nat, q * d <= a PROVE q <= w
  <2> SUFFICES ASSUME w + 1 <= q PROVE FALSE
    BY <1>1
  <2>1. (w + 1) * d <= q * d /\ (w + 1) * d \in Nat /\ q * d \in Nat
    BY <1>1, MoreTimes
  <2>2. (w + 1) * d = w * d + d /\ w * d \in Nat
    BY <1>1
  <2> QED
    BY <1>1, <1>3, <2>1, <2>2
<1>4. a \div 1 = a /\ a % 1 = 0
  OBVIOUS
<1>5. \A q \in Nat : (a < q * d => w < q) /\ (q * d <= a => q <= w)
  BY <1>2, <1>3, Zenon
<1>6. \A q \in Nat : (a < q * d => a \div d < q) /\ (q * d <= a => q <= a \div d)
  BY <1>0, <1>5, Zenon
<1> QED
  BY <1>1, <1>0, <1>4, <1>6, Zenon

LEMMA RoundedIs ==
  ASSUME NEW quantity, NEW keys, IsQuantity(quantity, keys),
         NEW volume \in Nat, volume < SumFunctionOnSet(quantity, keys)
  PROVE  LET units == LargestRemainder(WaterFill(quantity, volume), volume) IN
         /\ units \in [keys -> Nat] /\ \A k \in keys : units[k] <= quantity[k]
         /\ SumFunctionOnSet(units, keys) = volume
         /\ Fair(units, quantity, keys)
<1>1. \E full, num : Filled(full, num, quantity, keys, volume)
  BY WaterFillIs
<1>2. PICK full, num : Filled(full, num, quantity, keys, volume)
  BY <1>1
<1> DEFINE K == keys \ full
           d == Cardinality(K)
           w == num \div d
           r == num % d
           a == WaterFill(quantity, volume)
           Whole == [k \in DOMAIN a |-> a[k][1] \div a[k][2]]
           Fraction(k) == a[k][1] % a[k][2]
           First(j, k) == LET left == Fraction(j) * a[k][2]
                              right == Fraction(k) * a[j][2]
                          IN  left > right \/ (left = right /\ j < k)
           Leftover == volume - SumFunction(Whole)
           Rank(k) == Cardinality({j \in DOMAIN a : First(j, k)})
           units == LargestRemainder(a, volume)
<1>3. /\ full \subseteq keys /\ d \in Nat \ {0} /\ num \in Nat
      /\ num + SumFunctionOnSet(quantity, full) = volume
      /\ \A k \in full : quantity[k] * d <= num
      /\ \A k \in K : num < quantity[k] * d
      /\ a = [k \in keys |-> IF k \in full THEN <<quantity[k], 1>> ELSE <<num, d>>]
  BY <1>2 DEF Filled
<1>4. /\ IsFiniteSet(keys) /\ keys \subseteq Int
      /\ \A k \in keys : k \in Int /\ quantity[k] \in Nat
      /\ \A s \in SUBSET keys : IsFiniteSet(s) /\ Cardinality(s) \in Nat
  BY FS_Subset, FS_CardinalityType DEF IsQuantity
<1>5. units = [k \in DOMAIN a |-> Whole[k] + (IF Rank(k) < Leftover THEN 1 ELSE 0)]
  BY DEF LargestRemainder
<1>6. /\ DOMAIN a = keys
      /\ \A k \in full : a[k][1] = quantity[k] /\ a[k][2] = 1
      /\ \A k \in K : a[k][1] = num /\ a[k][2] = d
  BY <1>3
<1>7. K \in SUBSET keys /\ \A k \in keys : k \in full \/ k \in K
  OBVIOUS
<1> HIDE DEF d, a, units, K
<1>8. /\ w \in Nat /\ r \in 0 .. d - 1 /\ num = w * d + r
      /\ \A k \in K : w < quantity[k]
      /\ \A k \in full : quantity[k] <= w
  <2>1. \A q \in Nat : (num < q * d => w < q) /\ (q * d <= num => q <= w)
    BY <1>3, Division
  <2>2. w \in Nat /\ r \in 0 .. d - 1 /\ num = w * d + r
    BY <1>3, Division
  <2> HIDE DEF w, r
  <2> QED
    BY <1>3, <1>4, <1>7, <2>1, <2>2
<1>9. /\ \A k \in full : Whole[k] = quantity[k] /\ Fraction(k) = 0
      /\ \A k \in K : Whole[k] = w /\ Fraction(k) = r
      /\ DOMAIN Whole = keys
  <2>1. \A q \in Nat : q \div 1 = q /\ q % 1 = 0
    BY <1>3, Division
  <2> QED
    BY <1>3, <1>4, <1>6, <1>7, <2>1
<1> HIDE DEF w, r, Whole, Fraction
<1>10. Leftover = r
  <2> DEFINE s == SumFunctionOnSet(quantity, full)
  <2>1. \A k \in keys : Whole[k] \in Nat
    BY <1>4, <1>7, <1>8, <1>9
  <2>2. SumFunction(Whole) = SumFunctionOnSet(Whole, full)
                                + SumFunctionOnSet(Whole, keys \ full)
    BY <1>3, <1>4, <1>9, <2>1, SumParts DEF SumFunction
  <2>3. SumFunctionOnSet(Whole, keys \ full) = w * d
    BY <1>4, <1>7, <1>8, <1>9, SumOfConstant DEF K, d
  <2>4. SumFunctionOnSet(Whole, full) = s /\ s \in Nat
    BY <1>3, <1>4, <1>9, SumSame, SumIsNat
  <2>5. num + s = volume
    BY <1>3
  <2> HIDE DEF s
  <2>6. w * d \in Nat
    BY <1>3, <1>8
  <2> QED
    BY <1>3, <1>8, <2>2, <2>3, <2>4, <2>5, <2>6
<1>11. ASSUME NEW k \in K, r # 0 PROVE Rank(k) = Cardinality({j \in K : j < k})
  <2>1. ASSUME NEW j \in K PROVE First(j, k) <=> j < k
    <3>1. Fraction(j) = r /\ Fraction(k) = r /\ a[k][2] = d /\ a[j][2] = d
      BY <1>6, <1>9
    <3>2. ~ (r * d > r * d)
      BY <1>3, <1>8
    <3> QED
      BY <3>1, <3>2
  <2>2. ASSUME NEW j \in full PROVE ~ First(j, k)
    <3>1. Fraction(j) = 0 /\ Fraction(k) = r /\ a[k][2] = d /\ a[j][2] = 1
      BY <1>6, <1>9
    <3>2. 0 * d = 0 /\ r * 1 = r /\ ~ (0 > r) /\ 0 # r
      BY <1>3, <1>8, <1>11
    <3> QED
      BY <3>1, <3>2
  <2> HIDE DEF First
  <2>3. {j \in keys : First(j, k)} = {j \in K : j < k}
    BY <1>7, <2>1, <2>2
  <2> QED
    BY <1>6, <2>3
<1>12. ASSUME NEW k \in full, r # 0 PROVE ~ (Rank(k) < r)
  <2>1. ASSUME NEW j \in K PROVE First(j, k)
    <3>1. Fraction(j) = r /\ Fraction(k) = 0 /\ a[k][2] = 1 /\ a[j][2] = d
      BY <1>6, <1>9
    <3>2. 0 * d = 0 /\ r * 1 = r /\ r > 0
      BY <1>3, <1>8, <1>12
    <3> QED
      BY <3>1, <3>2
  <2> HIDE DEF First
  <2>2. K \in SUBSET {j \in keys : First(j, k)} /\ {j \in keys : First(j, k)} \in SUBSET keys
    BY <1>7, <2>1
  <2>3. /\ IsFiniteSet({j \in keys : First(j, k)})
        /\ Cardinality({j \in keys : First(j, k)}) \in Nat
    BY <1>4, <2>2
  <2>4. d <= Rank(k)
    BY <1>6, <2>2, <2>3, FS_Subset DEF d
  <2>5. Rank(k) \in Nat
    BY <1>6, <2>3
  <2> HIDE DEF Rank
  <2> QED
    BY <1>3, <1>8, <2>4, <2>5
<1>13. \A k \in keys : Rank(k) \in Nat
  <2> TAKE k \in keys
  <2> HIDE DEF First
  <2>1. {j \in keys : First(j, k)} \in SUBSET keys
    OBVIOUS
  <2> QED
    BY <1>4, <1>6, <2>1
<1> DEFINE Under(k) == Cardinality({j \in K : j < k})
           Top == {k \in K : Under(k) < r}
<1>14. \A k \in keys : Rank(k) < Leftover <=> k \in Top
  <2> TAKE k \in keys
  <2>1. CASE r = 0
    <3>1. k \in K => ~ (Under(k) < 0)
      <4>1. {j \in K : j < k} \in SUBSET keys
        BY <1>7
      <4>2. Under(k) \in Nat
        BY <1>4, <4>1
      <4> HIDE DEF Under
      <4> QED
        BY <4>2
    <3> HIDE DEF Rank, Leftover, Under
    <3>2. Rank(k) \in Nat
      BY <1>13
    <3> QED
      BY <1>10, <2>1, <3>1, <3>2
  <2>2. CASE r # 0
    <3> HIDE DEF Rank, Leftover
    <3> QED
      BY <1>7, <1>10, <1>11, <1>12, <2>2
  <2> QED
    BY <2>1, <2>2
<1> HIDE DEF Rank, Leftover
<1>15. /\ units = [k \in keys |-> Whole[k] + (IF k \in Top THEN 1 ELSE 0)]
       /\ Top \subseteq K
  BY <1>5, <1>6, <1>14
<1>16. Cardinality(Top) = r
  <2>1. K \subseteq Int /\ IsFiniteSet(K) /\ r \in 0 .. Cardinality(K)
    BY <1>3, <1>4, <1>7, <1>8 DEF d
  <2> QED
    BY <2>1, Ranks
<1> HIDE DEF Top
<1>17. /\ \A k \in full : units[k] = quantity[k]
       /\ \A k \in Top : units[k] = w + 1
       /\ \A k \in K \ Top : units[k] = w
  <2>1. \A k \in full : k \in keys /\ k \notin Top /\ quantity[k] + 0 = quantity[k]
    BY <1>3, <1>4, <1>15 DEF K
  <2>2. \A k \in K : k \in keys /\ w + 0 = w
    BY <1>7, <1>8
  <2> QED
    BY <1>9, <1>15, <2>1, <2>2
<1>18. \A k \in keys : units[k] \in Nat /\ units[k] <= quantity[k]
  <2> TAKE k \in keys
  <2>1. CASE k \in full
    BY <1>4, <1>17, <2>1
  <2>2. CASE k \in K
    <3>1. w < quantity[k] /\ quantity[k] \in Nat /\ w \in Nat
      BY <1>4, <1>8, <2>2
    <3>2. units[k] = w \/ units[k] = w + 1
      BY <1>17, <2>2
    <3> QED
      BY <3>1, <3>2
  <2> QED
    BY <1>7, <2>1, <2>2
<1>19. units \in [keys -> Nat]
  <2>1. units = [k \in keys |-> units[k]]
    BY <1>15
  <2> QED
    BY <1>18, <2>1
<1>20. SumFunctionOnSet(units, keys) = volume
  <2> DEFINE Sum(s) == SumFunctionOnSet(units, s)
  <2>1. Sum(keys) = Sum(full) + Sum(K)
    BY <1>3, <1>4, <1>18, SumParts DEF K
  <2>2. Sum(K) = Sum(Top) + Sum(K \ Top)
    BY <1>4, <1>7, <1>15, <1>18, SumParts
  <2>3. Sum(full) = SumFunctionOnSet(quantity, full) /\ Sum(full) \in Nat
    BY <1>3, <1>4, <1>17, <1>18, SumSame, SumIsNat
  <2>4. Sum(Top) = (w + 1) * r
    <3>1. Top \in SUBSET keys /\ w + 1 \in Nat
      BY <1>7, <1>8, <1>15
    <3> QED
      BY <1>4, <1>16, <1>17, <3>1, SumOfConstant
  <2>5. Sum(K \ Top) = w * (d - r)
    <3>1. K \ Top \in SUBSET keys
      BY <1>7
    <3>2. Cardinality(K \ Top) = d - r
      <4>1. K \cap Top = Top
        BY <1>15
      <4>2. Cardinality(K \ Top) = Cardinality(K) - Cardinality(K \cap Top)
        BY <1>4, <1>7, FS_Difference
      <4> QED
        BY <1>16, <4>1, <4>2 DEF d
    <3> QED
      BY <1>4, <1>8, <1>17, <3>1, <3>2, SumOfConstant
  <2>6. (w + 1) * r + w * (d - r) = w * d + r
    BY <1>3, <1>8
  <2> HIDE DEF Sum
  <2>7. w * d + r = num /\ num \in Nat /\ Sum(full) + num = volume
    BY <1>3, <1>8, <2>3
  <2>8. (w + 1) * r \in Int /\ w * (d - r) \in Int
    BY <1>3, <1>8
  <2>9. Sum(keys) = volume
    BY <2>1, <2>2, <2>3, <2>4, <2>5, <2>6, <2>7, <2>8
  <2> QED
    BY <2>9 DEF Sum
<1>21. Fair(units, quantity, keys)
  <2> SUFFICES ASSUME NEW j \in keys, NEW k \in keys, units[j] < quantity[j]
               PROVE  units[k] <= units[j] + 1 /\ (units[k] = units[j] + 1 => k < j)
    BY DEF Fair
  <2>1. j \in K
    <3>1. j \notin full
      BY <1>4, <1>17
    <3> QED
      BY <1>7, <3>1
  <2>2. /\ w \in Nat
        /\ j \in Top => units[j] = w + 1
        /\ j \notin Top => units[j] = w
    BY <1>8, <1>17, <2>1
  <2>3. CASE k \in full
    <3>1. units[k] <= w /\ units[k] \in Nat
      BY <1>8, <1>17, <1>18, <2>3
    <3> QED
      BY <2>2, <3>1
  <2>4. CASE k \in K
    <3>1. /\ k \in Top => units[k] = w + 1
          /\ k \notin Top => units[k] = w
      BY <1>17, <2>4
    <3>2. ASSUME k \in Top, j \notin Top PROVE k < j
      <4>1. Under(k) < r /\ ~ (Under(j) < r)
        BY <2>1, <3>2 DEF Top
      <4>2. k \in Int /\ j \in Int
        BY <1>4
      <4> SUFFICES ASSUME j <= k PROVE FALSE
        BY <4>2
      <4>3. \A i \in K : i \in Int
        BY <1>4, <1>7
      <4>4. {i \in K : i < j} \in SUBSET {i \in K : i < k}
        BY <4>2, <4>3
      <4>5. {i \in K : i < j} \in SUBSET keys /\ {i \in K : i < k} \in SUBSET keys
        BY <1>7
      <4>6. Under(j) \in Nat /\ Under(k) \in Nat /\ IsFiniteSet({i \in K : i < k})
        BY <1>4, <4>5
      <4>7. Under(j) <= Under(k)
        BY <4>4, <4>6, FS_Subset
      <4> HIDE DEF Under
      <4> QED
        BY <1>8, <4>1, <4>6, <4>7
    <3> QED
      BY <2>2, <3>1, <3>2
  <2> QED
    BY <1>7, <2>3, <2>4
<1> QED
  BY <1>18, <1>19, <1>20, <1>21 DEF units, a

-----------------------------------------------------------------------------
(* The loop over the prices.                                               *)

IsMarket(offers, keys) ==
    keys \subseteq Int /\ IsFiniteSet(keys) /\ offers \in Bids(keys, Nat, Nat)

Prices(offers) == {offers[k].price : k \in {j \in DOMAIN offers : offers[j].quantity > 0}}

Initially(offers, demand) ==
    [accepted |-> [k \in DOMAIN offers |-> 0], remaining |-> demand, ptf |-> NoPtf]

(* h says what has been accepted after the prices of each set.             *)
Clears(h, offers, demand) ==
    \A s \in SUBSET Prices(offers) :
        h[s] = IF s = {} THEN Initially(offers, demand)
               ELSE ClearGroup(offers, h[s \ {Max(s)}], Max(s))

LEMMA PricesAre ==
  ASSUME NEW offers, NEW keys, IsMarket(offers, keys)
  PROVE  /\ DOMAIN offers = keys
         /\ \A k \in keys : offers[k].price \in Nat /\ offers[k].quantity \in Nat
         /\ Prices(offers) \subseteq Nat /\ IsFiniteSet(Prices(offers))
<1>1. DOMAIN offers = keys /\ \A k \in keys : offers[k] \in [price : Nat, quantity : Nat]
  BY DEF IsMarket, Bids
<1> DEFINE S == {j \in keys : offers[j].quantity > 0}
           f == [k \in S |-> offers[k].price]
<1>2. \A k \in keys : offers[k].price \in Nat /\ offers[k].quantity \in Nat
  BY <1>1
<1>3. IsFiniteSet(S)
  BY FS_Subset DEF IsMarket
<1>4. Prices(offers) = {offers[k].price : k \in S}
  BY <1>1 DEF Prices
<1>5. Prices(offers) \subseteq Nat
  BY <1>2, <1>4
<1>6. IsFiniteSet({offers[k].price : k \in S})
  <2>1. f \in Surjection(S, {offers[k].price : k \in S})
    BY DEF Surjection
  <2> HIDE DEF f, S
  <2> QED
    BY <1>3, <2>1, FS_Surjection
<1> QED
  BY <1>1, <1>2, <1>4, <1>5, <1>6

LEMMA ClearUnfolds ==
  ASSUME NEW offers, NEW keys, IsMarket(offers, keys), NEW demand
  PROVE  \E h : /\ Clears(h, offers, demand)
                /\ LET end == h[Prices(offers)] IN
                   Clear(offers, demand)
                     = [accepted       |-> end.accepted,
                        ptf            |-> end.ptf,
                        met_demand     |-> SumFunction(end.accepted),
                        offered_volume |-> OfferedVolume(offers),
                        marginal_group |-> IF end.ptf = NoPtf THEN {}
                                           ELSE Group(offers, end.ptf)]
<1> DEFINE S == Prices(offers)
           first == Initially(offers, demand)
           Step(g, s) == IF s = {} THEN first
                         ELSE ClearGroup(offers, g[s \ {Max(s)}], Max(s))
           Upto(n) == {s \in SUBSET S : Cardinality(s) <= n}
           Works(g, n) == \A s \in Upto(n) : g[s] = Step(g, s)
           N == Cardinality(S)
<1>0. S \subseteq Int /\ IsFiniteSet(S)
  BY PricesAre
<1> HIDE DEF S, first
<1>1. N \in Nat /\ \A s \in SUBSET S : IsFiniteSet(s) /\ Cardinality(s) \in Nat
                                       /\ Cardinality(s) <= N
  BY <1>0, FS_Subset, FS_CardinalityType
<1>2. ASSUME NEW n \in Nat \ {0}, NEW g, Works(g, n - 1)
      PROVE  Works([s \in SUBSET S |-> Step(g, s)], n)
  <2> DEFINE h == [s \in SUBSET S |-> Step(g, s)]
  <2>1. ASSUME NEW s \in Upto(n) PROVE h[s] = Step(h, s)
    <3>1. CASE s = {}
      BY <3>1
    <3>2. CASE s # {}
      <4> DEFINE r == s \ {Max(s)}
      <4>1. r \in SUBSET S /\ Cardinality(r) <= n - 1
        <5>1. Max(s) \in s /\ IsFiniteSet(s) /\ Cardinality(s) \in Nat
          BY <1>0, <1>1, <3>2, MaxIs
        <5>2. Cardinality(r) = Cardinality(s) - 1
          BY <5>1, FS_RemoveElement
        <5> HIDE DEF r
        <5> QED
          BY <5>1, <5>2 DEF r
      <4>2. h[r] = Step(g, r) /\ g[r] = Step(g, r)
        BY <1>2, <4>1
      <4>3. h[s] = Step(g, s)
        OBVIOUS
      <4> HIDE DEF h
      <4> QED
        BY <3>2, <4>2, <4>3
    <3> QED
      BY <3>1, <3>2
  <2> QED
    BY <2>1
<1>3. Works([s \in {{}} |-> first], 0)
  <2>1. \A s \in Upto(0) : s = {}
    BY <1>1, FS_EmptySet
  <2> QED
    BY <2>1
<1> HIDE DEF Works
<1>4. \A n \in Nat : \E g : Works(g, n)
  <2> DEFINE bad == {n \in Nat : ~ \E g : Works(g, n)}
  <2> SUFFICES ASSUME bad # {} PROVE FALSE
    OBVIOUS
  <2>1. PICK n \in bad : \A x \in bad : n <= x
    BY LeastOf
  <2>2. n \in Nat \ {0} /\ n - 1 \in Nat /\ ~ (n <= n - 1)
    BY <1>3, <2>1
  <2>3. PICK g : Works(g, n - 1)
    BY <2>1, <2>2
  <2> QED
    BY <1>2, <2>1, <2>2, <2>3
<1>5. PICK g : Works(g, N)
  BY <1>1, <1>4
<1> DEFINE c == [s \in SUBSET S |-> g[s]]
           d == CHOOSE h : h = [s \in SUBSET S |-> Step(h, s)]
<1>6. d = [s \in SUBSET S |-> Step(d, s)]
  <2>1. ASSUME NEW s \in SUBSET S PROVE g[s] = Step(c, s)
    <3>1. g[s] = Step(g, s)
      BY <1>1, <1>5 DEF Works
    <3>2. CASE s # {}
      <4>1. c[s \ {Max(s)}] = g[s \ {Max(s)}]
        OBVIOUS
      <4> HIDE DEF c
      <4> QED
        BY <3>1, <4>1
    <3> QED
      BY <3>1, <3>2
  <2>2. c = [s \in SUBSET S |-> Step(c, s)]
    BY <2>1
  <2> HIDE DEF c, Step
  <2> QED
    BY <2>2
<1>7. Clear(offers, demand)
         = [accepted       |-> d[S].accepted,
            ptf            |-> d[S].ptf,
            met_demand     |-> SumFunction(d[S].accepted),
            offered_volume |-> OfferedVolume(offers),
            marginal_group |-> IF d[S].ptf = NoPtf THEN {} ELSE Group(offers, d[S].ptf)]
  BY DEF Clear, MapThenFoldSet, S, Prices, first, Initially
<1> HIDE DEF d
<1>8. Clears(d, offers, demand)
  BY <1>6 DEF Clears, S, first
<1> QED
  BY <1>7, <1>8 DEF S

(* What has been accepted once the prices of s are done.                   *)
ClearedTo(state, offers, keys, demand, s) ==
    LET accepted == state.accepted
        quantity == Quantity(offers)
    IN  /\ accepted \in [keys -> Nat] /\ state.remaining \in Nat
        /\ SumFunctionOnSet(accepted, keys) + state.remaining = demand
        /\ \A k \in keys :
              /\ accepted[k] <= quantity[k]
              /\ accepted[k] > 0 => offers[k].price \in s
              /\ state.remaining > 0 /\ offers[k].price \in s => accepted[k] = quantity[k]
        /\ state.ptf = NoPtf => \A k \in keys : accepted[k] = 0
        /\ state.ptf # NoPtf =>
              /\ state.ptf \in s
              /\ \A k \in keys :
                    /\ offers[k].price < state.ptf /\ offers[k].price \in s
                          => accepted[k] = quantity[k]
                    /\ offers[k].price > state.ptf => accepted[k] = 0
              /\ Fair(accepted, quantity, Group(offers, state.ptf))
              /\ \E k \in Group(offers, state.ptf) : accepted[k] > 0

\* What the offers of one price are accepted for.
LEMMA GroupIs ==
  ASSUME NEW offers, NEW keys, IsMarket(offers, keys), NEW price \in Prices(offers),
         NEW remaining \in Nat \ {0}
  PROVE  LET group == Group(offers, price)
             quantity == Quantity(offers)
             offered == Restrict(quantity, group)
             total == SumFunction(offered)
             units == IF total <= remaining THEN offered
                      ELSE LargestRemainder(WaterFill(offered, remaining), remaining)
         IN  /\ group \in SUBSET keys /\ total \in Nat
             /\ units \in [group -> Nat]
             /\ \A k \in group : units[k] <= quantity[k] /\ quantity[k] \in Nat
             /\ SumFunctionOnSet(units, group) = IF total <= remaining THEN total
                                                 ELSE remaining
             /\ total <= remaining => \A k \in group : units[k] = quantity[k]
             /\ Fair(units, quantity, group)
             /\ \E k \in group : units[k] > 0
<1> DEFINE group == Group(offers, price)
           quantity == Quantity(offers)
           offered == Restrict(quantity, group)
           total == SumFunction(offered)
           units == IF total <= remaining THEN offered
                    ELSE LargestRemainder(WaterFill(offered, remaining), remaining)
<1>1. /\ DOMAIN offers = keys /\ keys \subseteq Int /\ IsFiniteSet(keys)
      /\ \A k \in keys : offers[k].price \in Nat /\ offers[k].quantity \in Nat
  BY PricesAre DEF IsMarket
<1>2. \A k \in keys : quantity[k] = offers[k].quantity /\ quantity[k] \in Nat
  BY <1>1 DEF Quantity
<1>3. /\ group \in SUBSET keys
      /\ \A k \in group : quantity[k] \in Nat /\ quantity[k] > 0
  BY <1>1, <1>2 DEF Group
<1>4. group # {}
  <2>1. PICK k \in keys : offers[k].quantity > 0 /\ offers[k].price = price
    BY <1>1 DEF Prices
  <2> QED
    BY <1>1, <2>1 DEF Group
<1>5. IsFiniteSet(group)
  BY <1>1, <1>3, FS_Subset
<1> HIDE DEF group, quantity
<1>6. /\ DOMAIN offered = group /\ offered \in [group -> Nat \ {0}]
      /\ \A k \in group : offered[k] = quantity[k] /\ offered[k] \in Nat
  BY <1>3 DEF Restrict
<1> HIDE DEF offered
<1>7. total = SumFunctionOnSet(offered, group) /\ total \in Nat
  BY <1>5, <1>6, SumIsNat DEF SumFunction
<1> HIDE DEF total
<1>8. CASE total <= remaining
  <2>1. units = offered
    BY <1>8
  <2>2. Fair(units, quantity, group)
    BY <1>3, <1>6, <2>1 DEF Fair
  <2>3. \E k \in group : units[k] > 0
    BY <1>3, <1>4, <1>6, <2>1
  <2>4. units \in [group -> Nat]
    BY <1>6, <2>1
  <2> HIDE DEF units
  <2>5. /\ \A k \in group : units[k] = quantity[k] /\ units[k] <= quantity[k]
                            /\ quantity[k] \in Nat
        /\ SumFunctionOnSet(units, group) = total
    BY <1>3, <1>6, <1>7, <2>1
  <2> QED
    BY <1>3, <1>7, <1>8, <2>2, <2>3, <2>4, <2>5 DEF units, total, offered, group, quantity
<1>9. CASE ~ (total <= remaining)
  <2>1. units = LargestRemainder(WaterFill(offered, remaining), remaining)
    BY <1>9
  <2>2. IsQuantity(offered, group)
    BY <1>1, <1>3, <1>5, <1>6 DEF IsQuantity
  <2>3. remaining < SumFunctionOnSet(offered, group)
    BY <1>7, <1>9
  <2>4. /\ units \in [group -> Nat] /\ \A k \in group : units[k] <= offered[k]
        /\ SumFunctionOnSet(units, group) = remaining
        /\ Fair(units, offered, group)
    BY <2>1, <2>2, <2>3, RoundedIs
  <2> HIDE DEF units
  <2>5. Fair(units, quantity, group)
    BY <1>6, <2>4 DEF Fair
  <2>6. \A k \in group : units[k] <= quantity[k] /\ quantity[k] \in Nat
    BY <1>3, <1>6, <2>4
  <2>7. \E k \in group : units[k] > 0
    <3> SUFFICES ASSUME \A k \in group : ~ (units[k] > 0) PROVE FALSE
      OBVIOUS
    <3>1. \A k \in group : units[k] = 0
      BY <2>4
    <3>2. SumFunctionOnSet(units, group) = 0 * Cardinality(group)
      BY <1>5, <3>1, SumOfConstant
    <3>3. Cardinality(group) \in Nat
      BY <1>5, FS_CardinalityType
    <3> QED
      BY <2>4, <3>2, <3>3
  <2> QED
    BY <1>3, <1>7, <1>9, <2>4, <2>5, <2>6, <2>7 DEF units, total, offered, group, quantity
<1> QED
  BY <1>8, <1>9

LEMMA ClearGroupKeeps ==
  ASSUME NEW offers, NEW keys, IsMarket(offers, keys), NEW demand \in Nat,
         NEW s \in SUBSET Prices(offers), NEW price \in s, \A p \in s : p <= price,
         NEW state, ClearedTo(state, offers, keys, demand, s \ {price})
  PROVE  ClearedTo(ClearGroup(offers, state, price), offers, keys, demand, s)
<1> DEFINE group == Group(offers, price)
           quantity == Quantity(offers)
           offered == Restrict(quantity, group)
           total == SumFunction(offered)
           left == state.remaining
           old == state.accepted
           units == IF total <= left THEN offered
                    ELSE LargestRemainder(WaterFill(offered, left), left)
           new == ClearGroup(offers, state, price)
<1>1. /\ DOMAIN offers = keys /\ keys \subseteq Int /\ IsFiniteSet(keys)
      /\ \A k \in keys : offers[k].price \in Nat /\ offers[k].quantity \in Nat
      /\ Prices(offers) \subseteq Nat
  BY PricesAre DEF IsMarket
<1>2. \A k \in keys : quantity[k] = offers[k].quantity /\ quantity[k] \in Nat
  BY <1>1 DEF Quantity
<1>3. /\ price \in Nat /\ \A p \in s : p \in Nat /\ (p # price => p < price)
      /\ NoPtf \notin s
  BY <1>1 DEF NoPtf
<1>4. \A k \in keys : k \in group <=> quantity[k] > 0 /\ offers[k].price = price
  BY <1>1, <1>2 DEF Group
<1>5. /\ old \in [keys -> Nat] /\ left \in Nat
      /\ SumFunctionOnSet(old, keys) + left = demand
      /\ \A k \in keys :
            /\ old[k] <= quantity[k]
            /\ old[k] > 0 => offers[k].price \in s \ {price}
            /\ left > 0 /\ offers[k].price \in s \ {price} => old[k] = quantity[k]
      /\ state.ptf = NoPtf => \A k \in keys : old[k] = 0
      /\ state.ptf # NoPtf =>
            /\ state.ptf \in s \ {price}
            /\ \A k \in keys :
                  /\ offers[k].price < state.ptf /\ offers[k].price \in s \ {price}
                        => old[k] = quantity[k]
                  /\ offers[k].price > state.ptf => old[k] = 0
            /\ Fair(old, quantity, Group(offers, state.ptf))
            /\ \E k \in Group(offers, state.ptf) : old[k] > 0
  BY DEF ClearedTo
<1>6. \A k \in keys : old[k] \in Nat
  BY <1>5
<1>7. CASE left = 0
  <2>1. new = state
    BY <1>7 DEF ClearGroup
  <2>2. \A k \in keys : old[k] > 0 => offers[k].price \in s
    BY <1>5
  <2>3. state.ptf # NoPtf => state.ptf \in s /\ state.ptf < price
    BY <1>3, <1>5
  <2>4. state.ptf # NoPtf =>
           \A k \in keys : offers[k].price < state.ptf /\ offers[k].price \in s
                              => old[k] = quantity[k]
    <3> SUFFICES ASSUME state.ptf # NoPtf, NEW k \in keys, offers[k].price < state.ptf,
                        offers[k].price \in s
                 PROVE  old[k] = quantity[k]
      OBVIOUS
    <3>1. offers[k].price # price
      BY <1>3, <2>3
    <3> QED
      BY <1>5, <3>1
  <2>5. ClearedTo(state, offers, keys, demand, s)
    BY <1>5, <1>7, <2>2, <2>3, <2>4 DEF ClearedTo
  <2> QED
    BY <2>1, <2>5
<1>8. CASE left > 0
  <2>1. /\ group \in SUBSET keys /\ total \in Nat
        /\ units \in [group -> Nat]
        /\ \A k \in group : units[k] <= quantity[k] /\ quantity[k] \in Nat
        /\ SumFunctionOnSet(units, group) = IF total <= left THEN total ELSE left
        /\ total <= left => \A k \in group : units[k] = quantity[k]
        /\ Fair(units, quantity, group)
        /\ \E k \in group : units[k] > 0
    <3>1. left \in Nat \ {0} /\ price \in Prices(offers)
      BY <1>5, <1>8
    <3> HIDE DEF left
    <3> QED
      BY <3>1, GroupIs
  <2> DEFINE accepted == [k \in keys |-> IF k \in group THEN units[k] ELSE old[k]]
             remaining == IF total <= left THEN left - total ELSE 0
  <2>2. new = [accepted |-> accepted, remaining |-> remaining, ptf |-> price]
    BY <1>1, <1>5, <1>8 DEF ClearGroup
  <2>3. new.accepted = accepted /\ new.remaining = remaining /\ new.ptf = price
    BY <2>2
  <2> HIDE DEF group, quantity, offered, total, left, old, units, new
  <2>4. \A k \in keys : accepted[k] = IF k \in group THEN units[k] ELSE old[k]
    OBVIOUS
  <2>5. \A k \in group : k \in keys /\ units[k] \in Nat
    BY <2>1
  <2>6. accepted \in [keys -> Nat]
    BY <1>6, <2>5
  <2> HIDE DEF accepted
  <2>7. \A k \in keys : offers[k].price = price => old[k] = 0
    BY <1>5, <1>6
  <2>8. \A k \in keys : accepted[k] \in Nat
    BY <2>6
  <2>9. SumFunctionOnSet(accepted, keys) + remaining = demand
    <3> DEFINE A(f, S) == SumFunctionOnSet(f, S)
    <3>1. IsFiniteSet(group) /\ IsFiniteSet(keys \ group)
      BY <1>1, <2>1, FS_Subset
    <3>2. A(accepted, keys) = A(accepted, group) + A(accepted, keys \ group)
      BY <1>1, <2>1, <2>8, SumParts
    <3>3. A(old, keys) = A(old, group) + A(old, keys \ group)
      BY <1>1, <1>6, <2>1, SumParts
    <3>4. A(accepted, group) = A(units, group)
      BY <2>4, <2>5, <3>1, SumSame
    <3>5. A(accepted, keys \ group) = A(old, keys \ group)
      BY <1>6, <2>4, <3>1, SumSame
    <3>6. A(old, group) = 0
      <4>1. \A k \in group : old[k] = 0
        BY <1>4, <2>1, <2>7
      <4>2. A(old, group) = 0 * Cardinality(group) /\ Cardinality(group) \in Nat
        BY <3>1, <4>1, SumOfConstant, FS_CardinalityType
      <4> QED
        BY <4>2
    <3>7. A(old, keys \ group) \in Nat
      BY <1>6, <3>1, SumIsNat
    <3>8. A(old, keys) + left = demand /\ left \in Nat /\ total \in Nat
      BY <1>5, <2>1
    <3>9. A(units, group) = IF total <= left THEN total ELSE left
      BY <2>1
    <3> HIDE DEF A
    <3>10. A(accepted, keys) + remaining = demand
      BY <3>2, <3>3, <3>4, <3>5, <3>6, <3>7, <3>8, <3>9
    <3> QED
      BY <3>10 DEF A
  <2>10. remaining \in Nat
    BY <1>5, <2>1
  <2>11. ASSUME NEW k \in keys
         PROVE  /\ accepted[k] <= quantity[k]
                /\ accepted[k] > 0 => offers[k].price \in s
                /\ remaining > 0 /\ offers[k].price \in s => accepted[k] = quantity[k]
                /\ offers[k].price < price /\ offers[k].price \in s => accepted[k] = quantity[k]
                /\ offers[k].price > price => accepted[k] = 0
    <3>1. CASE k \in group
      <4>1. accepted[k] = units[k] /\ units[k] <= quantity[k] /\ offers[k].price = price
        BY <1>4, <2>1, <2>4, <3>1
      <4>2. remaining > 0 => units[k] = quantity[k]
        BY <2>1, <3>1
      <4> QED
        BY <1>3, <4>1, <4>2
    <3>2. CASE k \notin group
      <4>1. accepted[k] = old[k] /\ old[k] \in Nat /\ quantity[k] \in Nat
        BY <1>2, <1>6, <2>4, <3>2
      <4>2. offers[k].price = price => quantity[k] = 0 /\ old[k] = 0
        BY <1>4, <2>7, <3>2, <4>1
      <4>3. offers[k].price \in s \ {price} => old[k] = quantity[k]
        BY <1>5, <1>8
      <4>4. old[k] <= quantity[k] /\ (old[k] > 0 => offers[k].price \in s \ {price})
        BY <1>5
      <4>5. offers[k].price > price => offers[k].price \notin s
        <5>1. \A p \in s : ~ (p > price)
          BY <1>3
        <5> QED
          BY <5>1, Zenon
      <4> HIDE DEF remaining
      <4> QED
        BY <1>3, <4>1, <4>2, <4>3, <4>4, <4>5
    <3> QED
      BY <3>1, <3>2
  <2>12. Fair(accepted, quantity, group) /\ \E k \in group : accepted[k] > 0
    <3>1. \A k \in group : accepted[k] = units[k]
      BY <2>4, <2>5
    <3> QED
      BY <2>1, <3>1 DEF Fair
  <2>13. price # NoPtf
    BY <1>3
  <2> HIDE DEF remaining
  <2>14. ClearedTo(new, offers, keys, demand, s)
    BY <2>3, <2>6, <2>9, <2>10, <2>11, <2>12, <2>13 DEF ClearedTo, group, quantity
  <2> QED
    BY <2>14 DEF new
<1> QED
  BY <1>5, <1>7, <1>8

-----------------------------------------------------------------------------
(* Every market.                                                           *)

\* All that the clearing of a market is characterised by.
LEMMA ClearIs ==
  ASSUME NEW offers, NEW keys, IsMarket(offers, keys), NEW demand \in Nat
  PROVE  LET result == Clear(offers, demand)
             accepted == result.accepted
             quantity == Quantity(offers)
         IN  /\ accepted \in [keys -> Nat]
             /\ quantity \in [keys -> Nat] /\ OfferedVolume(offers) \in Nat
             /\ result.offered_volume = OfferedVolume(offers)
             /\ OfferedVolume(offers) = SumFunctionOnSet(quantity, keys)
             /\ result.met_demand = SumFunctionOnSet(accepted, keys)
             /\ result.met_demand = IF demand <= OfferedVolume(offers) THEN demand
                                    ELSE OfferedVolume(offers)
             /\ \A k \in keys : accepted[k] <= quantity[k]
             /\ result.ptf = NoPtf =>
                   (\A k \in keys : accepted[k] = 0) /\ result.marginal_group = {}
             /\ result.ptf # NoPtf =>
                   /\ result.ptf \in Prices(offers)
                   /\ result.marginal_group = Group(offers, result.ptf)
                   /\ \A k \in keys :
                         /\ offers[k].price < result.ptf => accepted[k] = quantity[k]
                         /\ offers[k].price > result.ptf => accepted[k] = 0
                   /\ Fair(accepted, quantity, Group(offers, result.ptf))
                   /\ \E k \in Group(offers, result.ptf) : accepted[k] > 0
<1> DEFINE result == Clear(offers, demand)
           quantity == Quantity(offers)
           P == Prices(offers)
<1>1. /\ DOMAIN offers = keys /\ keys \subseteq Int /\ IsFiniteSet(keys)
      /\ \A k \in keys : offers[k].price \in Nat /\ offers[k].quantity \in Nat
      /\ P \subseteq Nat /\ IsFiniteSet(P)
  BY PricesAre DEF IsMarket
<1>2. /\ quantity \in [keys -> Nat]
      /\ \A k \in keys : quantity[k] = offers[k].quantity /\ quantity[k] \in Nat
  BY <1>1 DEF Quantity
<1>3. PICK h : /\ Clears(h, offers, demand)
               /\ LET end == h[P] IN
                  result = [accepted       |-> end.accepted,
                            ptf            |-> end.ptf,
                            met_demand     |-> SumFunction(end.accepted),
                            offered_volume |-> OfferedVolume(offers),
                            marginal_group |-> IF end.ptf = NoPtf THEN {}
                                               ELSE Group(offers, end.ptf)]
  BY ClearUnfolds
<1> DEFINE end == h[P]
           accepted == end.accepted
<1>4. /\ result.accepted = accepted /\ result.ptf = end.ptf
      /\ result.met_demand = SumFunction(accepted)
      /\ result.offered_volume = OfferedVolume(offers)
      /\ result.marginal_group = IF end.ptf = NoPtf THEN {} ELSE Group(offers, end.ptf)
  BY <1>3
<1>5. ClearedTo(end, offers, keys, demand, P)
  <2> DEFINE B == {s \in SUBSET P : ~ ClearedTo(h[s], offers, keys, demand, s)}
  <2> SUFFICES ASSUME B # {} PROVE FALSE
    BY DEF B
  <2>1. \A s \in SUBSET P : IsFiniteSet(s)
    BY <1>1, FS_Subset
  <2>2. PICK s \in B : \A x \in s : s \ {x} \notin B
    BY <2>1, SmallestSet
  <2>3. h[s] = IF s = {} THEN Initially(offers, demand)
               ELSE ClearGroup(offers, h[s \ {Max(s)}], Max(s))
    BY <1>3 DEF Clears
  <2>4. CASE s = {}
    <3> DEFINE none == [k \in keys |-> 0]
    <3>1. h[s] = [accepted |-> none, remaining |-> demand, ptf |-> NoPtf]
      BY <1>1, <2>3, <2>4 DEF Initially
    <3>2. none \in [keys -> Nat] /\ \A k \in keys : none[k] = 0
      OBVIOUS
    <3> HIDE DEF none
    <3>3. SumFunctionOnSet(none, keys) = 0
      <4>1. SumFunctionOnSet(none, keys) = 0 * Cardinality(keys) /\ Cardinality(keys) \in Nat
        BY <1>1, <3>2, SumOfConstant, FS_CardinalityType
      <4> QED
        BY <4>1
    <3>4. ClearedTo(h[s], offers, keys, demand, s)
      BY <1>2, <2>4, <3>1, <3>2, <3>3 DEF ClearedTo
    <3> QED
      BY <3>4
  <2>5. CASE s # {}
    <3>1. Max(s) \in s /\ \A p \in s : p <= Max(s)
      BY <1>1, <2>1, <2>5, MaxIs
    <3>2. ClearedTo(h[s \ {Max(s)}], offers, keys, demand, s \ {Max(s)})
      BY <2>2, <3>1
    <3>3. s \in SUBSET P
      OBVIOUS
    <3> HIDE DEF B, P
    <3>4. ClearedTo(ClearGroup(offers, h[s \ {Max(s)}], Max(s)), offers, keys, demand, s)
      BY <3>1, <3>2, <3>3, ClearGroupKeeps DEF P
    <3> QED
      BY <2>2, <2>3, <2>5, <3>4 DEF B
  <2> QED
    BY <2>4, <2>5
<1> HIDE DEF end, result, P
<1>6. /\ accepted \in [keys -> Nat] /\ end.remaining \in Nat
      /\ SumFunctionOnSet(accepted, keys) + end.remaining = demand
      /\ \A k \in keys :
            /\ accepted[k] <= quantity[k]
            /\ accepted[k] > 0 => offers[k].price \in P
            /\ end.remaining > 0 /\ offers[k].price \in P => accepted[k] = quantity[k]
      /\ end.ptf = NoPtf => \A k \in keys : accepted[k] = 0
      /\ end.ptf # NoPtf =>
            /\ end.ptf \in P
            /\ \A k \in keys :
                  /\ offers[k].price < end.ptf /\ offers[k].price \in P
                        => accepted[k] = quantity[k]
                  /\ offers[k].price > end.ptf => accepted[k] = 0
            /\ Fair(accepted, quantity, Group(offers, end.ptf))
            /\ \E k \in Group(offers, end.ptf) : accepted[k] > 0
  BY <1>5 DEF ClearedTo
<1>7. ASSUME NEW k \in keys PROVE offers[k].price \in P \/ quantity[k] = accepted[k]
  <2>1. CASE quantity[k] = 0
    <3>1. accepted[k] <= 0 /\ accepted[k] \in Nat
      BY <1>6, <2>1
    <3> QED
      BY <2>1, <3>1
  <2>2. CASE quantity[k] # 0
    <3>1. offers[k].quantity > 0
      BY <1>2, <2>2
    <3> QED
      BY <1>1, <3>1 DEF P, Prices
  <2> QED
    BY <2>1, <2>2
<1> DEFINE met == SumFunctionOnSet(accepted, keys)
           offered == SumFunctionOnSet(quantity, keys)
<1>8. result.met_demand = met
  BY <1>4, <1>6 DEF SumFunction
<1>9. OfferedVolume(offers) = offered
  BY <1>2 DEF OfferedVolume, SumFunction
<1>10. /\ met \in Nat /\ offered \in Nat /\ met <= offered
  BY <1>1, <1>2, <1>6, SumIsNat, SumLeq
<1>11. end.remaining > 0 => met = offered
  <2> SUFFICES ASSUME end.remaining > 0 PROVE met = offered
    OBVIOUS
  <2>1. \A k \in keys : accepted[k] \in Nat /\ accepted[k] = quantity[k]
    BY <1>6, <1>7
  <2> HIDE DEF accepted, quantity
  <2> QED
    BY <1>1, <2>1, SumSame
<1> HIDE DEF accepted, quantity, met, offered
<1>12. met = IF demand <= offered THEN demand ELSE offered
  BY <1>6, <1>10, <1>11 DEF met
<1>13. end.ptf # NoPtf =>
          \A k \in keys : offers[k].price < end.ptf => accepted[k] = quantity[k]
  BY <1>6, <1>7
<1> QED
  BY <1>2, <1>4, <1>6, <1>8, <1>9, <1>10, <1>12, <1>13
     DEF accepted, quantity, result, met, offered, P

-----------------------------------------------------------------------------
(* What is said of every clearing.                                         *)

LEMMA SomebodyMore ==
  ASSUME NEW S, IsFiniteSet(S), NEW f, NEW g, \A x \in S : f[x] \in Nat /\ g[x] \in Nat,
         SumFunctionOnSet(f, S) <= SumFunctionOnSet(g, S),
         NEW z \in S, g[z] < f[z]
  PROVE  \E x \in S : f[x] < g[x]
<1> SUFFICES ASSUME \A x \in S : ~ (f[x] < g[x]) PROVE FALSE
  OBVIOUS
<1>1. \A x \in S : g[x] \in Nat /\ f[x] \in Nat /\ g[x] <= f[x]
  OBVIOUS
<1>2. SumFunctionOnSet(g, S) < SumFunctionOnSet(f, S)
  BY <1>1, SumLess
<1>3. SumFunctionOnSet(g, S) \in Nat /\ SumFunctionOnSet(f, S) \in Nat
  BY <1>1, SumIsNat
<1> QED
  BY <1>2, <1>3

(* Whoever sells has asked at most the PTF, whoever does not sell out has   *)
(* asked at least the PTF, and two of the margin share fairly.             *)
Separated(accepted, ptf, offers, keys) ==
  /\ accepted \in [keys -> Nat] /\ ptf \in Int
  /\ \A k \in keys :
        /\ offers[k].price \in Nat /\ offers[k].quantity \in Nat
        /\ accepted[k] <= offers[k].quantity
        /\ accepted[k] > 0 => ptf # NoPtf /\ offers[k].price <= ptf
        /\ ptf # NoPtf /\ accepted[k] < offers[k].quantity => offers[k].price >= ptf
  /\ \A j, k \in keys :
        /\ ptf # NoPtf /\ offers[j].price = ptf /\ offers[k].price = ptf
        /\ accepted[j] < offers[j].quantity
        => /\ accepted[k] <= accepted[j] + 1
           /\ accepted[k] = accepted[j] + 1 => k < j

LEMMA ClearSeparates ==
  ASSUME NEW offers, NEW keys, IsMarket(offers, keys), NEW demand \in Nat
  PROVE  Separated(Clear(offers, demand).accepted, Clear(offers, demand).ptf, offers, keys)
<1> DEFINE result == Clear(offers, demand)
           accepted == result.accepted
           ptf == result.ptf
           quantity == Quantity(offers)
<1>1. /\ DOMAIN offers = keys /\ keys \subseteq Int
      /\ \A k \in keys : offers[k].price \in Nat /\ offers[k].quantity \in Nat
      /\ Prices(offers) \subseteq Nat
  BY PricesAre DEF IsMarket
<1>2. \A k \in keys : quantity[k] = offers[k].quantity
  BY <1>1 DEF Quantity
<1>3. /\ accepted \in [keys -> Nat]
      /\ \A k \in keys : accepted[k] <= quantity[k]
      /\ ptf = NoPtf => \A k \in keys : accepted[k] = 0
      /\ ptf # NoPtf =>
            /\ ptf \in Prices(offers)
            /\ \A k \in keys :
                  /\ offers[k].price < ptf => accepted[k] = quantity[k]
                  /\ offers[k].price > ptf => accepted[k] = 0
            /\ Fair(accepted, quantity, Group(offers, ptf))
  BY ClearIs
<1> HIDE DEF result, quantity
<1>4. ptf \in Int
  BY <1>1, <1>3 DEF NoPtf
<1>5. ASSUME NEW k \in keys
      PROVE  /\ accepted[k] <= offers[k].quantity
             /\ accepted[k] > 0 => ptf # NoPtf /\ offers[k].price <= ptf
             /\ ptf # NoPtf /\ accepted[k] < offers[k].quantity => offers[k].price >= ptf
  <2>1. accepted[k] \in Nat /\ offers[k].price \in Nat /\ offers[k].quantity \in Nat
    BY <1>1, <1>3
  <2>2. /\ accepted[k] <= offers[k].quantity
        /\ ptf = NoPtf => accepted[k] = 0
        /\ ptf # NoPtf =>
              /\ offers[k].price < ptf => accepted[k] = offers[k].quantity
              /\ offers[k].price > ptf => accepted[k] = 0
    BY <1>2, <1>3
  <2> HIDE DEF accepted, ptf
  <2> QED
    BY <1>4, <2>1, <2>2
<1>6. ASSUME NEW j \in keys, NEW k \in keys, ptf # NoPtf,
             offers[j].price = ptf, offers[k].price = ptf, accepted[j] < offers[j].quantity
      PROVE  /\ accepted[k] <= accepted[j] + 1
             /\ accepted[k] = accepted[j] + 1 => k < j
  <2>1. accepted[j] \in Nat /\ offers[j].quantity \in Nat /\ accepted[k] \in Nat
    BY <1>1, <1>3
  <2>2. CASE accepted[k] = 0
    BY <2>1, <2>2
  <2>3. CASE accepted[k] # 0
    <3>1. offers[j].quantity > 0
      BY <1>6, <2>1
    <3>2. offers[k].quantity > 0
      <4>1. accepted[k] <= offers[k].quantity /\ offers[k].quantity \in Nat
        BY <1>1, <1>5
      <4> QED
        BY <2>1, <2>3, <4>1
    <3>3. j \in Group(offers, ptf) /\ k \in Group(offers, ptf)
      BY <1>1, <1>6, <3>1, <3>2 DEF Group
    <3> QED
      BY <1>2, <1>3, <1>6, <3>3 DEF Fair
  <2> QED
    BY <2>2, <2>3
<1>7. Separated(accepted, ptf, offers, keys)
  BY <1>1, <1>3, <1>4, <1>5, <1>6 DEF Separated
<1> QED
  BY <1>7 DEF result

(* When prices only fall, nobody loses a quantum to one whose price stays. *)
LEMMA NoCrossing ==
  ASSUME NEW keys, keys \subseteq Int, NEW offers, NEW lower,
         NEW a, NEW m, Separated(a, m, offers, keys),
         NEW b, NEW n, Separated(b, n, lower, keys),
         NEW i \in keys, NEW j \in keys,
         lower[i].quantity = offers[i].quantity, lower[j].quantity = offers[j].quantity,
         lower[i].price <= offers[i].price, lower[j].price = offers[j].price,
         a[j] < b[j], b[i] < a[i]
  PROVE  FALSE
<1>1. /\ i \in Int /\ j \in Int /\ m \in Int /\ n \in Int
      /\ a[i] \in Nat /\ b[i] \in Nat /\ a[j] \in Nat /\ b[j] \in Nat
      /\ offers[i].price \in Nat /\ offers[j].price \in Nat
      /\ lower[i].price \in Nat /\ lower[j].price \in Nat
      /\ offers[i].quantity \in Nat /\ offers[j].quantity \in Nat
      /\ a[i] <= offers[i].quantity /\ b[j] <= offers[j].quantity
  BY DEF Separated
<1>2. m # NoPtf /\ offers[i].price <= m
  <2>1. a[i] > 0
    BY <1>1
  <2> QED
    BY <2>1 DEF Separated
<1>3. n # NoPtf /\ lower[j].price <= n
  <2>1. b[j] > 0
    BY <1>1
  <2> QED
    BY <2>1 DEF Separated
<1>4. offers[j].price >= m /\ a[j] < offers[j].quantity
  <2>1. a[j] < offers[j].quantity
    BY <1>1
  <2> QED
    BY <1>2, <2>1 DEF Separated
<1>5. lower[i].price >= n /\ b[i] < lower[i].quantity
  <2>1. b[i] < lower[i].quantity
    BY <1>1
  <2> QED
    BY <1>3, <2>1 DEF Separated
<1>6. offers[i].price = m /\ offers[j].price = m /\ lower[i].price = n /\ lower[j].price = n
  BY <1>1, <1>2, <1>3, <1>4, <1>5
<1>7. a[i] <= a[j] + 1 /\ (a[i] = a[j] + 1 => i < j)
  BY <1>2, <1>4, <1>6 DEF Separated
<1>8. b[j] <= b[i] + 1 /\ (b[j] = b[i] + 1 => j < i)
  BY <1>3, <1>5, <1>6 DEF Separated
<1> QED
  BY <1>1, <1>7, <1>8

LEMMA MoreDemand ==
  ASSUME NEW offers, NEW keys, IsMarket(offers, keys), NEW demand \in Nat
  PROVE  LET result == Clear(offers, demand)
             more   == Clear(offers, demand + 1)
         IN  /\ more.ptf >= result.ptf
             /\ \A k \in keys : more.accepted[k] >= result.accepted[k]
<1> DEFINE result == Clear(offers, demand)
           more   == Clear(offers, demand + 1)
           a == result.accepted
           b == more.accepted
<1>1. /\ keys \subseteq Int /\ IsFiniteSet(keys) /\ Prices(offers) \subseteq Nat
      /\ \A k \in keys : offers[k].price \in Nat
  BY PricesAre DEF IsMarket
<1>2. Separated(a, result.ptf, offers, keys) /\ Separated(b, more.ptf, offers, keys)
  <2>1. demand + 1 \in Nat
    OBVIOUS
  <2> QED
    BY <2>1, ClearSeparates
<1>3. \A k \in keys : a[k] \in Nat /\ b[k] \in Nat
  BY <1>2 DEF Separated
<1>4. SumFunctionOnSet(a, keys) <= SumFunctionOnSet(b, keys)
  <2>1. demand + 1 \in Nat
    OBVIOUS
  <2>2. OfferedVolume(offers) \in Nat
    BY ClearIs
  <2>3. SumFunctionOnSet(a, keys) =
          IF demand <= OfferedVolume(offers) THEN demand ELSE OfferedVolume(offers)
    BY ClearIs
  <2>4. SumFunctionOnSet(b, keys) =
          IF demand + 1 <= OfferedVolume(offers) THEN demand + 1 ELSE OfferedVolume(offers)
    BY <2>1, ClearIs
  <2> QED
    BY <2>2, <2>3, <2>4
<1> HIDE DEF a, b
<1>5. ASSUME NEW k \in keys PROVE b[k] >= a[k]
  <2> SUFFICES ASSUME b[k] < a[k] PROVE FALSE
    BY <1>3
  <2>1. PICK j \in keys : a[j] < b[j]
    BY <1>1, <1>3, <1>4, SomebodyMore
  <2> QED
    BY <1>1, <1>2, <2>1, NoCrossing
<1>6. more.ptf >= result.ptf
  <2>1. result.ptf \in Int /\ more.ptf \in Int
    BY <1>2 DEF Separated
  <2>2. CASE result.ptf = NoPtf
    <3>1. more.ptf = NoPtf \/ more.ptf \in Prices(offers)
      <4>1. demand + 1 \in Nat
        OBVIOUS
      <4> QED
        BY <4>1, ClearIs
    <3> QED
      BY <1>1, <2>1, <2>2, <3>1 DEF NoPtf
  <2>3. CASE result.ptf # NoPtf
    <3>1. PICK k \in Group(offers, result.ptf) : a[k] > 0
      BY <2>3, ClearIs DEF a
    <3>2. k \in keys /\ offers[k].price = result.ptf
      BY <3>1, PricesAre DEF Group
    <3>3. b[k] > 0
      BY <1>3, <1>5, <3>1, <3>2
    <3>4. offers[k].price <= more.ptf
      BY <1>2, <3>2, <3>3 DEF Separated
    <3> QED
      BY <1>1, <2>1, <3>2, <3>4
  <2> QED
    BY <2>2, <2>3
<1> QED
  BY <1>5, <1>6 DEF a, b

LEMMA LowerPrice ==
  ASSUME NEW offers, NEW keys, IsMarket(offers, keys), NEW demand \in Nat,
         NEW k \in keys, offers[k].price > 0
  PROVE  LET result == Clear(offers, demand)
             cheaper == Clear([offers EXCEPT ![k].price = @ - 1], demand)
         IN  /\ cheaper.accepted[k] >= result.accepted[k]
             /\ \A j \in keys \ {k} : cheaper.accepted[j] <= result.accepted[j]
<1> DEFINE lower == [offers EXCEPT ![k].price = @ - 1]
           result == Clear(offers, demand)
           cheaper == Clear(lower, demand)
           a == result.accepted
           b == cheaper.accepted
<1>1. /\ keys \subseteq Int /\ IsFiniteSet(keys) /\ DOMAIN offers = keys
      /\ \A j \in keys : offers[j].price \in Nat
      /\ offers \in [keys -> [price : Nat, quantity : Nat]]
  BY PricesAre DEF IsMarket, Bids
<1>2. /\ \A j \in keys : lower[j].quantity = offers[j].quantity
      /\ \A j \in keys : lower[j].price <= offers[j].price
      /\ \A j \in keys \ {k} : lower[j].price = offers[j].price
      /\ lower \in [keys -> [price : Nat, quantity : Nat]]
  BY <1>1
<1>3. IsMarket(lower, keys) /\ DOMAIN lower = keys
  BY <1>2 DEF IsMarket, Bids
<1> HIDE DEF lower
<1>4. Separated(a, result.ptf, offers, keys) /\ Separated(b, cheaper.ptf, lower, keys)
  BY <1>3, ClearSeparates
<1>5. \A j \in keys : a[j] \in Nat /\ b[j] \in Nat
  BY <1>4 DEF Separated
<1>6. /\ SumFunctionOnSet(a, keys) = SumFunctionOnSet(b, keys)
      /\ SumFunctionOnSet(a, keys) \in Nat
  <2>1. Quantity(lower) = Quantity(offers)
    BY <1>1, <1>2, <1>3 DEF Quantity
  <2>2. OfferedVolume(lower) = OfferedVolume(offers)
    BY <2>1 DEF OfferedVolume
  <2>3. SumFunctionOnSet(a, keys) =
          IF demand <= OfferedVolume(offers) THEN demand ELSE OfferedVolume(offers)
    BY ClearIs
  <2>4. SumFunctionOnSet(b, keys) =
          IF demand <= OfferedVolume(lower) THEN demand ELSE OfferedVolume(lower)
    BY <1>3, ClearIs
  <2>5. OfferedVolume(offers) \in Nat
    BY ClearIs
  <2> QED
    BY <2>2, <2>3, <2>4, <2>5
<1> HIDE DEF a, b
<1>7. SumFunctionOnSet(a, keys) <= SumFunctionOnSet(b, keys)
      /\ SumFunctionOnSet(b, keys) <= SumFunctionOnSet(a, keys)
  BY <1>6
<1>8. b[k] >= a[k]
  <2> SUFFICES ASSUME b[k] < a[k] PROVE FALSE
    BY <1>5
  <2>1. PICK j \in keys : a[j] < b[j]
    BY <1>1, <1>5, <1>7, SomebodyMore
  <2>2. j # k
    BY <1>5, <2>1
  <2>3. /\ lower[k].quantity = offers[k].quantity /\ lower[j].quantity = offers[j].quantity
        /\ lower[k].price <= offers[k].price /\ lower[j].price = offers[j].price
    BY <1>2, <2>2
  <2> QED
    BY <1>1, <1>4, <2>1, <2>3, NoCrossing
<1>9. ASSUME NEW j \in keys \ {k} PROVE b[j] <= a[j]
  <2> SUFFICES ASSUME a[j] < b[j] PROVE FALSE
    BY <1>5
  <2>1. PICK i \in keys : b[i] < a[i]
    BY <1>1, <1>5, <1>7, SomebodyMore
  <2>2. /\ lower[i].quantity = offers[i].quantity /\ lower[j].quantity = offers[j].quantity
        /\ lower[i].price <= offers[i].price /\ lower[j].price = offers[j].price
    BY <1>2
  <2> QED
    BY <1>1, <1>4, <2>1, <2>2, NoCrossing
<1> QED
  BY <1>8, <1>9 DEF a, b, lower

LEMMA ExactIn ==
  ASSUME NEW offers, NEW keys, IsMarket(offers, keys), NEW demand \in Nat,
         Prices(offers) \subseteq 0 .. MaxPrice
  PROVE  LET result == Clear(offers, demand)
         IN  /\ DemandIsMetExactly(offers, demand, result)
             /\ PtfSeparates(offers, result)
             /\ MarginSharesEqually(offers, result)
<1> DEFINE result == Clear(offers, demand)
           accepted == result.accepted
           ptf == result.ptf
           met == result.met_demand
           offered == OfferedVolume(offers)
<1>1. /\ keys \subseteq Int /\ IsFiniteSet(keys) /\ DOMAIN offers = keys
      /\ \A k \in keys : offers[k].price \in Nat /\ offers[k].quantity \in Nat
      /\ Prices(offers) \subseteq Nat
  BY PricesAre DEF IsMarket
<1>2. \A k \in keys : Quantity(offers)[k] = offers[k].quantity
  BY <1>1 DEF Quantity
<1>3. /\ accepted \in [keys -> Nat] /\ offered \in Nat
      /\ result.offered_volume = offered
      /\ met = SumFunctionOnSet(accepted, keys)
      /\ met = IF demand <= offered THEN demand ELSE offered
      /\ \A k \in keys : accepted[k] <= offers[k].quantity
      /\ ptf = NoPtf => (\A k \in keys : accepted[k] = 0) /\ result.marginal_group = {}
      /\ ptf # NoPtf =>
            /\ ptf \in Prices(offers)
            /\ result.marginal_group = Group(offers, ptf)
            /\ \A k \in keys :
                  /\ offers[k].price < ptf => accepted[k] = offers[k].quantity
                  /\ offers[k].price > ptf => accepted[k] = 0
            /\ Fair(accepted, Quantity(offers), Group(offers, ptf))
            /\ \E k \in Group(offers, ptf) : accepted[k] > 0
  BY <1>2, ClearIs
<1>4. Separated(accepted, ptf, offers, keys)
  BY ClearSeparates
<1> HIDE DEF result
<1>5. \A k \in keys : accepted[k] \in Nat
  BY <1>3
<1>6. met = 0 <=> ptf = NoPtf
  <2> HIDE DEF met, accepted, ptf, offered
  <2>1. CASE ptf = NoPtf
    <3>1. SumFunctionOnSet(accepted, keys) = 0 * Cardinality(keys)
      BY <1>1, <1>3, <2>1, SumOfConstant
    <3>2. Cardinality(keys) \in Nat /\ met = SumFunctionOnSet(accepted, keys)
      BY <1>1, <1>3, FS_CardinalityType
    <3>3. met = 0
      BY <3>1, <3>2
    <3> QED
      BY <2>1, <3>3
  <2>2. CASE ptf # NoPtf
    <3>1. PICK k \in keys : accepted[k] > 0
      BY <1>1, <1>3, <2>2 DEF Group
    <3>2. SumFunctionOnSet(accepted, keys)
            = accepted[k] + SumFunctionOnSet(accepted, keys \ {k})
      BY <1>1, <1>5, SumPick
    <3>3. SumFunctionOnSet(accepted, keys \ {k}) \in Nat
      <4>1. IsFiniteSet(keys \ {k})
        BY <1>1, FS_Subset
      <4> QED
        BY <1>5, <4>1, SumIsNat
    <3>4. met = SumFunctionOnSet(accepted, keys) /\ accepted[k] \in Nat
      BY <1>3, <1>5, <3>1
    <3>5. met > 0
      BY <3>1, <3>2, <3>3, <3>4
    <3> QED
      BY <2>2, <3>5
  <2> QED
    BY <2>1, <2>2
<1>7. DemandIsMetExactly(offers, demand, result)
  <2>1. met = Min({demand, offered})
    <3>1. Min({demand, offered}) = IF demand < offered THEN demand ELSE offered
      BY <1>3, SmallerOfTwo
    <3> HIDE DEF met, offered
    <3> QED
      BY <1>3, <3>1
  <2>2. met <= demand /\ met <= offered
    BY <1>3
  <2>3. IF met = 0 THEN ptf = NoPtf ELSE ptf \in 0 .. MaxPrice
    BY <1>3, <1>6
  <2>4. \A k \in keys : accepted[k] \in 0 .. offers[k].quantity
    BY <1>1, <1>3, <1>5
  <2>5. result.marginal_group \subseteq keys
    BY <1>1, <1>3 DEF Group
  <2>6. met = SumFunction(accepted) /\ DOMAIN accepted = keys
    BY <1>3 DEF SumFunction
  <2> QED
    BY <1>1, <1>3, <2>1, <2>2, <2>3, <2>4, <2>5, <2>6
       DEF DemandIsMetExactly, validate_clearing_result
<1>8. PtfSeparates(offers, result)
  <2>1. ASSUME NEW k \in keys
        PROVE  /\ offers[k].price < ptf => accepted[k] = offers[k].quantity
               /\ offers[k].price > ptf => accepted[k] = 0
    <3>1. CASE ptf = NoPtf
      <4>1. accepted[k] = 0 /\ offers[k].price \in Nat
        BY <1>1, <1>3, <3>1
      <4> QED
        BY <3>1, <4>1 DEF NoPtf
    <3>2. CASE ptf # NoPtf
      BY <1>3, <3>2
    <3> QED
      BY <3>1, <3>2
  <2>2. ASSUME NEW k \in keys, NEW s \in {"PAYASBID", "PAYASPTF"}
        PROVE  LET price == acceptance_prices(result, offers, s)[k]
               IN  IF accepted[k] = 0 THEN price = NoPrice ELSE price >= offers[k].price
    <3>1. acceptance_prices(result, offers, s)[k]
            = IF accepted[k] = 0 THEN NoPrice
              ELSE IF s = "PAYASBID" THEN offers[k].price ELSE ptf
      BY <1>1 DEF acceptance_prices
    <3>2. CASE accepted[k] = 0
      BY <3>1, <3>2
    <3>3. CASE accepted[k] # 0
      <4>1. offers[k].price <= ptf /\ ptf \in Int /\ offers[k].price \in Nat
        <5>1. accepted[k] > 0
          BY <1>5, <3>3
        <5> QED
          BY <1>1, <1>4, <5>1 DEF Separated
      <4> QED
        BY <3>1, <3>3, <4>1
    <3> QED
      BY <3>2, <3>3
  <2>3. ptf # NoPtf => \E k \in result.marginal_group : accepted[k] > 0
    BY <1>3
  <2> QED
    BY <1>1, <2>1, <2>2, <2>3 DEF PtfSeparates
<1>9. MarginSharesEqually(offers, result)
  <2>1. CASE ptf = NoPtf
    BY <1>3, <2>1 DEF MarginSharesEqually
  <2>2. CASE ptf # NoPtf
    <3>1. /\ Fair(accepted, Quantity(offers), Group(offers, ptf))
          /\ result.marginal_group = Group(offers, ptf)
      BY <1>3, <2>2
    <3>2. Group(offers, ptf) \subseteq keys
      BY <1>1 DEF Group
    <3>3. ASSUME NEW j \in Group(offers, ptf), NEW k \in Group(offers, ptf),
                 accepted[j] < offers[j].quantity
          PROVE  /\ accepted[k] <= accepted[j] + 1
                 /\ accepted[k] = accepted[j] + 1 => k < j
      <4>1. accepted[j] < Quantity(offers)[j]
        BY <1>2, <3>2, <3>3
      <4> QED
        BY <3>1, <4>1 DEF Fair
    <3> QED
      BY <3>1, <3>3 DEF MarginSharesEqually
  <2> QED
    BY <2>1, <2>2
<1> QED
  BY <1>7, <1>8, <1>9 DEF result

-----------------------------------------------------------------------------
(* Every input is a market.                                                *)

InputOK == input = RunInput \/ input \in Markets

LEMMA InputIsMarket ==
  ASSUME InputOK
  PROVE  \E keys : /\ IsMarket(input.bids, keys) /\ input.demand \in Nat
                   /\ DOMAIN input.bids = keys
                   /\ Prices(input.bids) \subseteq 0 .. MaxPrice
<1>1. CASE input = RunInput
  <2>1. input.bids = <<>> /\ input.demand = 0
    BY <1>1 DEF RunInput
  <2>2. DOMAIN input.bids = {} /\ input.bids \in [{} -> [price : Nat, quantity : Nat]]
    BY <2>1
  <2>3. IsMarket(input.bids, {})
    BY <2>2, FS_EmptySet DEF IsMarket, Bids
  <2>4. Prices(input.bids) = {}
    BY <2>2 DEF Prices
  <2> QED
    BY <2>1, <2>2, <2>3, <2>4
<1>2. CASE input \in Markets
  <2> DEFINE keys == 0 .. Offers - 1
  <2>1. PICK b \in Bids(keys, 0 .. MaxPrice, 0 .. MaxQuantity) :
          input \in [bids : {b}, demand : 0 .. OfferedVolume(b) + 1]
    BY <1>2 DEF Markets
  <2>2. input.bids = b /\ input.demand \in 0 .. OfferedVolume(b) + 1
    BY <2>1
  <2>3. /\ b \in [keys -> [price : 0 .. MaxPrice, quantity : 0 .. MaxQuantity]]
        /\ b \in [keys -> [price : Nat, quantity : Nat]]
    BY <2>1 DEF Bids
  <2>4. IsMarket(b, keys)
    <3>1. keys \subseteq Int /\ IsFiniteSet(keys)
      <4>1. Offers - 1 \in Int
        BY MCMarketAssumption
      <4> QED
        BY <4>1, FS_Interval
    <3> QED
      BY <2>3, <3>1 DEF IsMarket, Bids
  <2>5. OfferedVolume(b) \in Nat
    BY <2>4, ClearIs
  <2>6. input.demand \in Nat
    BY <2>2, <2>5
  <2>7. Prices(b) \subseteq 0 .. MaxPrice
    BY <2>3 DEF Prices
  <2> QED
    BY <2>2, <2>3, <2>4, <2>6, <2>7
<1> QED
  BY <1>1, <1>2 DEF InputOK

LEMMA ClearsExactly == InputOK => ClearingIsExact
<1> SUFFICES ASSUME InputOK PROVE ClearingIsExact
  OBVIOUS
<1>1. PICK keys : /\ IsMarket(input.bids, keys) /\ input.demand \in Nat
                  /\ DOMAIN input.bids = keys
                  /\ Prices(input.bids) \subseteq 0 .. MaxPrice
  BY InputIsMarket
<1> QED
  BY <1>1, ExactIn DEF ClearingIsExact

LEMMA ClearsMonotonically == InputOK => ClearingIsMonotone
<1> SUFFICES ASSUME InputOK PROVE ClearingIsMonotone
  OBVIOUS
<1>1. PICK keys : /\ IsMarket(input.bids, keys) /\ input.demand \in Nat
                  /\ DOMAIN input.bids = keys
  BY InputIsMarket
<1>2. /\ Clear(input.bids, input.demand + 1).ptf >= Clear(input.bids, input.demand).ptf
      /\ \A k \in keys : Clear(input.bids, input.demand + 1).accepted[k]
                           >= Clear(input.bids, input.demand).accepted[k]
  BY <1>1, MoreDemand
<1>3. \A k \in keys : input.bids[k].price > 0 =>
        LET cheaper == Clear([input.bids EXCEPT ![k].price = @ - 1], input.demand)
            result == Clear(input.bids, input.demand)
        IN  /\ cheaper.accepted[k] >= result.accepted[k]
            /\ \A j \in keys \ {k} : cheaper.accepted[j] <= result.accepted[j]
  BY <1>1, LowerPrice
<1> QED
  BY <1>1, <1>2, <1>3 DEF ClearingIsMonotone

LEMMA InputsAreMarkets == MCSpec => []InputOK
<1>1. MCInit => InputOK
  BY DEF MCInit, InputOK
<1>2. InputOK /\ [MCNext]_<<vars, input>> => InputOK'
  BY DEF InputOK, MCNext
<1> QED
  BY <1>1, <1>2, PTL DEF MCSpec

\* In every market of any number of bids, prices and quantities, the merit order
\* sells exactly as much of the demand as is offered, the PTF separates who sells
\* out from who sells nothing, and the bids at the PTF share equally to the
\* quantum (clear, _water_fill, _largest_remainder).
THEOREM ClearingIsRight == MCSpec => []ClearingIsExact
  BY InputsAreMarkets, ClearsExactly, PTL

\* In every market, more demand takes nothing from any bid and never lowers the
\* PTF; a lower price never sells less and never gives the others more (clear).
THEOREM ClearingHasNoParadox == MCSpec => []ClearingIsMonotone
  BY InputsAreMarkets, ClearsMonotonically, PTL
=============================================================================
