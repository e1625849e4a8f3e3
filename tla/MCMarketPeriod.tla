---------------------------- MODULE MCMarketPeriod ----------------------------
(***************************************************************************)
(* A run of three agents, and, as inputs of behaviours of their own, every *)
(* small market that the merit order may have to clear.                    *)
(***************************************************************************)
EXTENDS MarketPeriod

CONSTANTS
  Offers,                            \* number of bids; their keys are 0 .. Offers - 1
  MaxPrice, MaxQuantity              \* bounds of the inputs

ASSUME MCMarketAssumption ==
  Offers \in Nat \ {0} /\ {MaxPrice, MaxQuantity} \subseteq Nat

VARIABLE input

\* An off-policy learner with two plants, PPO with one, a baseline with one.
MCPlants == 0 .. 3
MCOwner == [p \in MCPlants |-> IF p <= 1 THEN 1 ELSE p]
MCCapacity == [p \in MCPlants |-> IF p = 1 THEN 2 ELSE 1]
MCStaticCost == [p \in MCPlants |-> 0]
MCVariableCost == [p \in MCPlants |-> IF p = 2 THEN 2 ELSE 0]
MCAsks == [p \in MCPlants |-> IF p = 3 THEN {1} ELSE IF p = 1 THEN {2} ELSE {0, 2}]
MCFailStack == [a \in 1 .. 3 |-> IF a = 1 THEN 2 ELSE 1]

Learner(algorithm, buffer, batch, sequence, rollout, start) ==
  [algorithm |-> algorithm, buffer_size |-> buffer, batch_size |-> batch,
   seq_len |-> sequence, rollout_length |-> rollout, learning_starts |-> start]
Baseline == Learner("BASELINE", 1, 1, 1, 1, 1)

\* One learner whose start decides for both, one whose window does, and one
\* whose ring is too small for the common start.
MCConfigs ==
  {<<Learner("DDPG", 3, 1, 1, 1, 1), Learner("PPO", 1, 1, 1, 2, 1), Baseline>>,
   <<Learner("RDPG", 3, 1, 3, 1, 1), Learner("PPO", 1, 1, 1, 1, 1), Baseline>>,
   <<Learner("DDPG", 2, 1, 1, 1, 1), Learner("PPO", 1, 1, 1, 2, 3), Baseline>>}
MCFrozen == {{}, {1}}

-----------------------------------------------------------------------------
RunInput == [bids |-> <<>>, demand |-> 0]

Markets ==
  UNION {[bids : {b}, demand : 0 .. OfferedVolume(b) + 1] :
           b \in Bids(0 .. Offers - 1, 0 .. MaxPrice, 0 .. MaxQuantity)}

MCInit ==
  \/ Init /\ input = RunInput
  \/ /\ Init /\ input \in Markets
     /\ config = CHOOSE c \in Configs : TRUE
     /\ learning_starts = 3 /\ evaluate_only = {}
MCNext == input = RunInput /\ Next /\ input' = input
MCSpec == MCInit /\ [][MCNext]_<<vars, input>>

\* Every result keeps the contract that the engine enforces and meets as much of
\* the demand as is offered, to the quantum: rounding the shares neither loses a
\* quantum nor sells one twice (clear, validate_clearing_result).
DemandIsMetExactly(market_bids, demand, result) ==
  /\ validate_clearing_result(result, market_bids, demand, 0, MaxPrice)
  /\ result.met_demand = Min({demand, result.offered_volume})

\* The PTF separates the bids: whoever asked less is sold out, whoever asked
\* more sells nothing, and somebody sells at the PTF. Nobody who sells is paid
\* less than his bid, under either market strategy (clear, acceptance_prices).
PtfSeparates(market_bids, result) ==
  /\ \A k \in DOMAIN market_bids :
       /\ market_bids[k].price < result.ptf => result.accepted[k] = market_bids[k].quantity
       /\ market_bids[k].price > result.ptf => result.accepted[k] = 0
       /\ \A s \in {"PAYASBID", "PAYASPTF"} :
            LET price == acceptance_prices(result, market_bids, s)[k]
            IN  IF result.accepted[k] = 0 THEN price = NoPrice
                ELSE price >= market_bids[k].price
  /\ result.ptf # NoPtf =>
       \E k \in result.marginal_group : result.accepted[k] > 0

\* Bids at the PTF share equally: one that is not sold out gets at most one
\* quantum less than any other, and that quantum went to a smaller key
\* (_water_fill, _largest_remainder).
MarginSharesEqually(market_bids, result) ==
  \A j, k \in result.marginal_group :
    result.accepted[j] < market_bids[j].quantity =>
      /\ result.accepted[k] <= result.accepted[j] + 1
      /\ result.accepted[k] = result.accepted[j] + 1 => k < j

\* How much is sold, who sells it, and how the last ones share, in every market.
ClearingIsExact ==
  LET result == Clear(input.bids, input.demand)
  IN  /\ DemandIsMetExactly(input.bids, input.demand, result)
      /\ PtfSeparates(input.bids, result)
      /\ MarginSharesEqually(input.bids, result)

\* One quantum more demand never takes anything away from a bid and never
\* lowers the PTF: rounding by largest remainders has no paradox here. And who
\* lowers his price sells no less, and the others no more, so that no agent can
\* gain volume by asking more (clear).
ClearingIsMonotone ==
  LET result == Clear(input.bids, input.demand)
      more   == Clear(input.bids, input.demand + 1)
  IN  /\ more.ptf >= result.ptf
      /\ \A k \in DOMAIN input.bids :
           /\ more.accepted[k] >= result.accepted[k]
           /\ input.bids[k].price > 0 =>
                LET cheaper == Clear([input.bids EXCEPT ![k].price = @ - 1], input.demand)
                IN  /\ cheaper.accepted[k] >= result.accepted[k]
                    /\ \A j \in DOMAIN input.bids \ {k} :
                         cheaper.accepted[j] <= result.accepted[j]
===============================================================================
