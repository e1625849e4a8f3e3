----------------------------- MODULE MarketPeriod -----------------------------
(***************************************************************************)
(* The inside of a run, period by period: market_service.run_period lets   *)
(* every agent step in the order of its id (agent_service.step), clears    *)
(* the market and hands the outcomes back. What an agent learns in period  *)
(* t comes from its decision of t - 1, the outcome of t - 1 and the        *)
(* observation of t; the fail-stack counts failures one period late.       *)
(*                                                                         *)
(* A network is the number of updates it has had. A transition names the   *)
(* period of the decision, of the outcome and of the next observation, and *)
(* the network that decided. Budgets, rewards and logged rows are sums     *)
(* over outcomes that nothing in the run reads back.                       *)
(***************************************************************************)
EXTENDS Integers, Sequences, FiniteSets, FiniteSetsExt, MeritOrder, ReplayBuffer

CONSTANTS
  NAgents,            \* agents are 1 .. NAgents, in Agent.id order
  Plants,             \* offers are numbered by agent, then by plant
  Owner, Capacity, StaticCost, VariableCost,   \* of each plant
  Asks,               \* the prices a policy may ask for each plant
  Configs,            \* configurations of the agents a run may have
  LearningStarts,     \* values of Simulation.learning_starts (0: automatic)
  Frozen,             \* sets of agents with frozen warm-started policies
  FailStack,          \* failstack_limit of each agent, 0 if disabled
  MinMargin,          \* failstack_min_margin, in percent
  Delta,              \* failstack_delta
  Lags,               \* observation_lags
  Periods,            \* periodNumber
  EvaluationPeriods,  \* evaluation_periods
  Low, High,          \* bid bounds
  Demands,            \* demands a period may have
  Strategy            \* how accepted offers are paid

Agents == 1 .. NAgents
Algorithms == {"DDPG", "RDPG", "PPO", "BASELINE"}

ASSUME MarketAssumption ==
  /\ NAgents \in Nat \ {0}
  /\ Plants \subseteq Nat /\ IsFiniteSet(Plants)
  /\ Owner \in [Plants -> Agents]
  /\ \A p, q \in Plants : p < q => Owner[p] <= Owner[q]
  /\ \A f \in {Capacity, StaticCost, VariableCost} : f \in [Plants -> Nat]
  /\ Configs \subseteq
       [Agents -> [algorithm : Algorithms, buffer_size : Nat \ {0},
                   batch_size : Nat \ {0}, seq_len : Nat \ {0},
                   rollout_length : Nat \ {0}, learning_starts : Nat \ {0}]]
  /\ LearningStarts \subseteq Nat
  /\ Frozen \subseteq SUBSET Agents
  /\ FailStack \in [Agents -> Nat]
  /\ MinMargin \in Int /\ Delta \in Nat
  /\ Lags \subseteq Nat \ {0} /\ 1 \in Lags
  /\ \E m \in Lags : \A k \in Lags : k <= m
  /\ Periods \in Nat \ {0}
  /\ EvaluationPeriods \in 0 .. Periods - 1
  /\ Low \in Nat /\ High \in Nat /\ Low < High
  /\ Asks \in [Plants -> SUBSET (Low .. High)]
  /\ Demands \subseteq Nat
  /\ Strategy \in {"PAYASBID", "PAYASPTF"}

VARIABLES
  config,          \* configuration of each agent
  learning_starts, \* common learning start of the run
  evaluate_only,   \* agents with AgentRuntimeState.evaluate_only
  t,               \* period being run
  turn,            \* agent whose step is next; NAgents + 1: clearing
  error,           \* why the run ended early
  prices,          \* offered prices of the period
  intervened,      \* plants whose price the fail-stack replaced in it
  ptf_history,     \* PTF of each cleared period
  last_outcomes,   \* of each plant: period, accepted quantity, price
  counters,        \* FailStackState.counters
  prev,            \* pending decision of each agent
  policy,          \* buffer, transitions seen and updates of each agent
  observed,        \* ghost: the transitions each policy was given
  log              \* ghost: plants that failed and were intervened, by period

built == <<config, learning_starts, evaluate_only>>
market == <<ptf_history, last_outcomes, log>>
vars == <<built, t, turn, error, prices, intervened, market, counters, prev,
          policy, observed>>

PlantsOf(a) == {p \in Plants : Owner[p] = a}
is_learning(a) == config[a].algorithm # "BASELINE"
is_on_policy(a) == config[a].algorithm = "PPO"
evaluation_start == Periods - EvaluationPeriods + 1

-----------------------------------------------------------------------------
(* The common learning start (algorithm_config.py, context.py).            *)

Larger(x, y) == IF x < y THEN y ELSE x

min_learning_starts(c) ==
  CASE c.algorithm = "PPO"  -> Larger(c.batch_size, c.rollout_length)
    [] c.algorithm = "RDPG" -> Larger(c.batch_size, c.seq_len)
    [] OTHER                -> c.batch_size

first_update_transitions(c) == Larger(c.learning_starts, min_learning_starts(c))

\* Mutant of Reachable: the size of the replay buffers is not looked at.
ReachableMinimum(c, start) == start >= min_learning_starts(c)

\* A learning start an agent can reach.
Reachable(c, start) ==
  /\ start >= min_learning_starts(c)
  /\ c.algorithm # "PPO" => start <= c.buffer_size

common_learning_starts(explicit) ==
  IF explicit # 0 THEN explicit
  ELSE Max({0} \cup {first_update_transitions(config[a]) :
                       a \in {b \in Agents : is_learning(b)}})

first_learning_period == Max(Lags) + 1 + learning_starts

-----------------------------------------------------------------------------
(* Starting the run.                                                       *)

NoDecision == [decision |-> 0]
NewPolicy(c) ==
  [buffer |-> CASE c.algorithm = "BASELINE" -> Rollout(0)
                [] c.algorithm = "PPO"      -> Rollout(c.rollout_length)
                [] OTHER                    -> Ring(c.buffer_size),
   seen |-> 0, updates |-> <<>>]

Init ==
  /\ config \in Configs
  /\ \E explicit \in LearningStarts :
       learning_starts = common_learning_starts(explicit)
  /\ evaluate_only \in Frozen
  /\ error = IF \A a \in Agents :
                  is_learning(a) => Reachable(config[a], learning_starts)
             THEN "none" ELSE "refused"
  /\ t = 1 /\ turn = 1
  /\ prices = [p \in Plants |-> Low]
  /\ intervened = {}
  /\ ptf_history = <<>>
  /\ last_outcomes = [a \in Agents |-> [period |-> 0, offers |-> <<>>]]
  /\ counters = [p \in Plants |-> 0]
  /\ prev = [a \in Agents |-> NoDecision]
  /\ policy = [a \in Agents |-> NewPolicy(config[a])]
  /\ observed = [a \in Agents |-> <<>>]
  /\ log = <<>>

-----------------------------------------------------------------------------
(* Learning.                                                               *)

\* Mutant of phase_for: the window begins one period late.
phase_for_late(a) ==
  IF a \in evaluate_only \/ t > evaluation_start THEN "EVALUATE" ELSE "TRAIN"

phase_for(a) ==
  IF a \in evaluate_only \/ t >= evaluation_start THEN "EVALUATE" ELSE "TRAIN"

\* build_observation finds a PTF for every lag.
complete == \A k \in Lags : t - k \in DOMAIN ptf_history

Learns(a) ==
  /\ t > 1
  /\ prev[a] # NoDecision
  /\ complete
  /\ phase_for(a) = "TRAIN"
  /\ is_learning(a)

Transition(a) ==
  [decision |-> prev[a].decision, outcome |-> last_outcomes[a].period,
   next |-> t, network |-> prev[a].network, intervened |-> prev[a].intervened]

\* PPO drops the oldest transitions of a long wait for the first update.
Dropped(a) ==
  is_on_policy(a) /\ policy[a].seen < learning_starts - config[a].rollout_length

observe(a, pol) ==
  LET seen == [pol EXCEPT !.seen = IF is_on_policy(a) THEN @ + 1 ELSE @]
  IN  IF Dropped(a) THEN seen
      ELSE IF is_on_policy(a)
           THEN [seen EXCEPT !.buffer = RolloutAdd(@, Transition(a))]
           ELSE [seen EXCEPT !.buffer = RingAdd(@, Transition(a))]

\* RolloutBuffer.add refuses a transition when it is full.
AddRaises(a) == is_on_policy(a) /\ ~Dropped(a) /\ Full(policy[a].buffer)

ready_to_learn(a, pol) ==
  CASE config[a].algorithm = "PPO" ->
         Full(pol.buffer) /\ pol.seen >= learning_starts
    [] config[a].algorithm = "RDPG" ->
         /\ pol.buffer.size >= learning_starts
         /\ pol.buffer.size >= config[a].seq_len
    [] OTHER -> pol.buffer.size >= learning_starts

\* sample and sample_sequences refuse to draw more than is stored.
SampleRaises(a, pol) ==
  CASE config[a].algorithm = "PPO"  -> FALSE
    [] config[a].algorithm = "RDPG" -> pol.buffer.size < config[a].seq_len
    [] OTHER                        -> pol.buffer.size < config[a].batch_size

update(a, pol) ==
  IF ~ready_to_learn(a, pol) THEN pol
  ELSE [pol EXCEPT !.updates = Append(@, t),
                   !.buffer = IF is_on_policy(a) THEN RolloutClear(@) ELSE @]

LearningRaises(a) ==
  /\ Learns(a)
  /\ \/ AddRaises(a)
     \/ LET pol == observe(a, policy[a])
        IN  ready_to_learn(a, pol) /\ SampleRaises(a, pol)

Learned(a) ==
  IF Learns(a) THEN update(a, observe(a, policy[a])) ELSE policy[a]

-----------------------------------------------------------------------------
(* The fail-stack.                                                         *)

failstack_on(a) ==
  FailStack[a] > 0 /\ is_learning(a) /\ phase_for(a) = "TRAIN"

is_failure(p, outcome) ==
  LET revenue == outcome.accepted * outcome.price
      profit == revenue - (StaticCost[p] * Capacity[p]
                           + VariableCost[p] * outcome.accepted)
  IN  \/ outcome.accepted = 0
      \/ outcome.accepted > 0 /\ revenue = 0 /\ profit < 0
      \/ revenue > 0 /\ 100 * profit < MinMargin * revenue

\* Mutant of Counted: a success does not end the streak.
CountedNeverReset(a, p) ==
  IF t > 1 /\ failstack_on(a)
  THEN counters[p]
       + (IF is_failure(p, last_outcomes[a].offers[p]) THEN 1 ELSE 0)
  ELSE counters[p]

\* A counter after update_counters.
Counted(a, p) ==
  IF t > 1 /\ failstack_on(a)
  THEN IF is_failure(p, last_outcomes[a].offers[p]) THEN counters[p] + 1 ELSE 0
  ELSE counters[p]

\* The plants whose price apply_interventions replaces.
Due(a) ==
  {p \in PlantsOf(a) : /\ failstack_on(a)
                       /\ t - 1 \in DOMAIN ptf_history
                       /\ Counted(a, p) >= FailStack[a]}

\* The prices intervention_price may draw.
intervention_prices ==
  LET ptf == ptf_history[t - 1]
      from == Larger(Low, ptf - Delta)
  IN  IF ptf <= from THEN {Min({Larger(ptf, Low), High})} ELSE from .. ptf - 1

-----------------------------------------------------------------------------
(* One period.                                                             *)

\* Mutant of Pending: the network is the one before this period's update.
PendingStale(a) ==
  IF ~complete THEN NoDecision
  ELSE [decision |-> t, network |-> Len(policy[a].updates),
        intervened |-> Due(a) # {}]

\* The decision that becomes a transition in the next period.
Pending(a) ==
  IF ~complete THEN NoDecision
  ELSE [decision |-> t, network |-> Len(Learned(a).updates),
        intervened |-> Due(a) # {}]

step(a) ==
  /\ error = "none" /\ t <= Periods /\ turn = a
  /\ ~LearningRaises(a)   \* never the case, see TypeOK
  /\ policy' = [policy EXCEPT ![a] = Learned(a)]
  /\ observed' = IF Learns(a)
                 THEN [observed EXCEPT ![a] = Append(@, Transition(a))]
                 ELSE observed
  /\ counters' = [p \in Plants |->
                    IF p \notin PlantsOf(a) THEN counters[p]
                    ELSE IF p \in Due(a) THEN 0 ELSE Counted(a, p)]
  /\ \E asked \in [PlantsOf(a) -> Low .. High] :
       /\ \A p \in PlantsOf(a) :
            asked[p] \in IF p \in Due(a) THEN intervention_prices ELSE Asks[p]
       /\ prices' = [p \in Plants |->
                       IF p \in PlantsOf(a) THEN asked[p] ELSE prices[p]]
  /\ intervened' = intervened \cup Due(a)
  /\ prev' = [prev EXCEPT ![a] = Pending(a)]
  /\ turn' = a + 1
  /\ UNCHANGED <<built, t, error, market>>

bids == [p \in Plants |-> [price |-> prices[p], quantity |-> Capacity[p]]]

Cleared(result, demand) ==
  /\ validate_clearing_result(result, bids, demand, Low, High)
  /\ result.ptf # NoPtf

\* The second half of run_period.
ClearMarket(demand) ==
  LET result == Clear(bids, demand)
      price == acceptance_prices(result, bids, Strategy)
      outcome == [p \in Plants |->
                    [accepted |-> result.accepted[p], price |-> price[p]]]
  IN  /\ error = "none" /\ turn = NAgents + 1
      /\ Cleared(result, demand)
      /\ ptf_history' = Append(ptf_history, result.ptf)
      /\ last_outcomes' =
           [a \in Agents |->
              [period |-> t, offers |-> [p \in PlantsOf(a) |-> outcome[p]]]]
      /\ log' = Append(log, [failed |-> {p \in Plants : is_failure(p, outcome[p])},
                             intervened |-> intervened])
      /\ t' = t + 1 /\ turn' = 1
      /\ prices' = [p \in Plants |-> Low] /\ intervened' = {}
      /\ UNCHANGED <<built, error, counters, prev, policy, observed>>

\* No offer is accepted: the period is rolled back and the run fails.
ClearingFails(demand) ==
  /\ error = "none" /\ turn = NAgents + 1
  /\ ~Cleared(Clear(bids, demand), demand)
  /\ error' = "no PTF"
  /\ UNCHANGED <<built, t, turn, prices, intervened, market, counters, prev,
                 policy, observed>>

Next ==
  \/ \E a \in Agents : step(a)
  \/ \E demand \in Demands : ClearMarket(demand) \/ ClearingFails(demand)

Spec == Init /\ [][Next]_vars

-----------------------------------------------------------------------------
(* What must hold.                                                         *)

\* Steps of agent a that have happened before the evaluation window.
Trained(a) ==
  IF a \in evaluate_only \/ ~is_learning(a) THEN 0
  ELSE Min({IF turn > a THEN t ELSE t - 1, evaluation_start - 1})

TypeOutcome == [accepted : Nat, price : Nat \cup {NoPrice}]
TypeDecision ==
  {NoDecision} \cup [decision : 1 .. Periods, network : 0 .. Periods,
                     intervened : BOOLEAN]
TypeTransition ==
  [decision : 1 .. Periods, outcome : 1 .. Periods, next : 1 .. Periods,
   network : 0 .. Periods, intervened : BOOLEAN]

\* The values of the variables, and that no policy ever refuses its input: a
\* rollout is emptied before it overflows, and no algorithm samples more than
\* it has stored (RolloutBuffer.add, ReplayBuffer.sample, sample_sequences).
TypeOK ==
  /\ config \in Configs /\ learning_starts \in Nat
  /\ evaluate_only \in Frozen
  /\ t \in 1 .. Periods + 1 /\ turn \in 1 .. NAgents + 1
  /\ error \in {"none", "refused", "no PTF"}
  /\ error = "none" /\ turn \in Agents => ~LearningRaises(turn)
  /\ prices \in [Plants -> Low .. High]
  /\ intervened \subseteq Plants
  /\ ptf_history \in [1 .. t - 1 -> Low .. High]
  /\ \A a \in Agents :
       /\ last_outcomes[a].period = t - 1
       /\ t > 1 => last_outcomes[a].offers \in [PlantsOf(a) -> TypeOutcome]
       /\ \A p \in PlantsOf(a) : counters[p] \in 0 .. FailStack[a]
       /\ prev[a] \in TypeDecision
       /\ \A i \in DOMAIN observed[a] : observed[a][i] \in TypeTransition
       /\ policy[a].seen \in 0 .. Periods
  /\ log \in [1 .. t - 1 -> [failed : SUBSET Plants, intervened : SUBSET Plants]]

\* A learning policy is given every decision of its training exactly once, in
\* order, from the first complete observation on, each with the outcome of its
\* own period and the observation of the next one, and marked iff a price of
\* its period was replaced. It is given nothing from the evaluation window and
\* nothing if its policy is frozen (agent_service.step, run_period).
ExperienceIsConsecutive ==
  \A a \in Agents :
    LET first == Max(Lags) + 1
    IN  /\ Len(observed[a]) = Larger(0, Trained(a) - first)
        /\ \A i \in DOMAIN observed[a] :
             LET x == observed[a][i]
             IN  /\ x.decision = first + i - 1
                 /\ x.outcome = x.decision
                 /\ x.next = x.decision + 1
                 /\ x.intervened
                      <=> log[x.decision].intervened \cap PlantsOf(a) # {}

\* The ring holds the latest transitions in order, and every window that RDPG
\* may draw is a piece of the trajectory, whatever the write position
\* (ReplayBuffer.add, _chronological, sample_sequences).
RingHoldsLatest ==
  \A a \in Agents :
    config[a].algorithm \in {"DDPG", "RDPG"} =>
      LET n == Len(observed[a])
          kept == Min({n, config[a].buffer_size})
      IN  /\ Chronological(policy[a].buffer)
               = SubSeq(observed[a], n - kept + 1, n)
          /\ \A w \in Windows(policy[a].buffer, config[a].seq_len) :
               \A i \in 1 .. Len(w) - 1 : w[i].next = w[i + 1].decision

\* The rollout of PPO is on-policy: it holds the latest transitions, all
\* decided by the network that the next update will start from
\* (PPOAlgorithm.observe, _update, agent_service.step).
RolloutIsOnPolicy ==
  \A a \in Agents :
    is_on_policy(a) =>
      LET n == Len(observed[a])
          kept == Len(policy[a].buffer.data)
      IN  /\ policy[a].buffer.data = SubSeq(observed[a], n - kept + 1, n)
          /\ \A i \in 1 .. kept :
               policy[a].buffer.data[i].network = Len(policy[a].updates)

\* Every accepted run updates its learners for the first time in the same
\* period, the one first_learning_period announces, off-policy learners in
\* every training period from then on and PPO once per rollout
\* (common_learning_starts, first_learning_period, PPOAlgorithm.observe).
UpdatesOnSchedule ==
  error # "refused" =>
    \A a \in Agents :
      LET every == IF is_on_policy(a) THEN config[a].rollout_length ELSE 1
          first == first_learning_period
          n == IF Trained(a) < first THEN 0
               ELSE (Trained(a) - first) \div every + 1
      IN  policy[a].updates = [i \in 1 .. n |-> first + (i - 1) * every]

\* No learner of an accepted run ever raises an error, which would end the run,
\* and each of them updates when it should.
LearnersKeepSchedule == TypeOK /\ UpdatesOnSchedule

\* The fail-stack replaces the price of a plant in exactly those training
\* periods before which the plant failed failstack_limit times in a row since
\* its last success and its last replacement (update_counters,
\* apply_interventions).
InterventionExact ==
  \A a \in Agents : \A p \in PlantsOf(a) : \A n \in DOMAIN log :
    LET limit == FailStack[a]
    IN  p \in log[n].intervened <=>
          /\ limit > 0 /\ is_learning(a) /\ a \notin evaluate_only
          /\ limit < n /\ n < evaluation_start
          /\ \A m \in n - limit .. n - 1 : p \in log[m].failed
          /\ \A m \in n - limit + 1 .. n - 1 : p \notin log[m].intervened
===============================================================================
