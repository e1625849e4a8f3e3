------------------------------ MODULE MeritOrder ------------------------------
(***************************************************************************)
(* The clearing of one period: the uniform-price merit order of            *)
(* clearing_algorithms/merit_order.py, the contract that clearing.py       *)
(* enforces on every clearing algorithm, and the prices it settles at.     *)
(*                                                                         *)
(* Quantities and the demand are numbers of quanta (the code refuses       *)
(* amounts that are not multiples of the quantum) and exact fractions are  *)
(* pairs <<numerator, denominator>>. Bids are a function from keys, the    *)
(* positions of the offers, to [price, quantity].                          *)
(***************************************************************************)
EXTENDS Integers, FiniteSets, FiniteSetsExt, Folds, Functions

NoPtf == -1   \* the PTF when nothing is accepted (None)

Bids(keys, prices, quantities) ==
  [keys -> [price : prices, quantity : quantities]]

Quantity(bids) == [k \in DOMAIN bids |-> bids[k].quantity]
OfferedVolume(bids) == SumFunction(Quantity(bids))

-----------------------------------------------------------------------------
(* Splitting a volume among the bids of one price.                         *)

\* Ascending quantity, then ascending key.
Smaller(quantity, j, k) ==
  \/ quantity[j] < quantity[k]
  \/ quantity[j] = quantity[k] /\ j < k

\* Mutant of WaterFill: shares in proportion to the quantities.
WaterFillProRata(quantity, volume) ==
  [k \in DOMAIN quantity |-> <<quantity[k] * volume, SumFunction(quantity)>>]

\* The k-th smallest bid is taken whole if it is no larger than an equal share
\* of what the smaller ones leave; the first that is larger ends the filling.
WaterFill(quantity, volume) ==
  LET keys == DOMAIN quantity
      Before(k) == {j \in keys : Smaller(quantity, j, k)}
      Remaining(k) == volume - SumFunctionOnSet(quantity, Before(k))
      Fits(k) == quantity[k] * Cardinality(keys \ Before(k)) <= Remaining(k)
      Full == {k \in keys : \A j \in Before(k) \cup {k} : Fits(j)}
      Share == <<volume - SumFunctionOnSet(quantity, Full),
                 Cardinality(keys \ Full)>>
  IN  [k \in keys |-> IF k \in Full THEN <<quantity[k], 1>> ELSE Share]

\* Mutant of LargestRemainder: the leftover goes to the smallest keys.
LargestRemainderFirst(allocation, total) ==
  LET Whole == [k \in DOMAIN allocation |-> allocation[k][1] \div allocation[k][2]]
      Rank(k) == Cardinality({j \in DOMAIN allocation : j < k})
  IN  [k \in DOMAIN allocation |->
         Whole[k] + (IF Rank(k) < total - SumFunction(Whole) THEN 1 ELSE 0)]

\* Whole quanta per key; what is left goes to the largest fractional parts,
\* ties to the smaller key.
LargestRemainder(allocation, total) ==
  LET Whole == [k \in DOMAIN allocation |-> allocation[k][1] \div allocation[k][2]]
      Fraction(k) == allocation[k][1] % allocation[k][2]
      First(j, k) ==
        LET left == Fraction(j) * allocation[k][2]
            right == Fraction(k) * allocation[j][2]
        IN  left > right \/ (left = right /\ j < k)
      Leftover == total - SumFunction(Whole)
      Rank(k) == Cardinality({j \in DOMAIN allocation : First(j, k)})
  IN  [k \in DOMAIN allocation |->
         Whole[k] + (IF Rank(k) < Leftover THEN 1 ELSE 0)]

-----------------------------------------------------------------------------
(* The merit order.                                                        *)

Group(bids, price) ==
  {k \in DOMAIN bids : bids[k].quantity > 0 /\ bids[k].price = price}

\* One pass of the loop over the prices. State: accepted quantities, demand
\* that remains, highest price reached.
ClearGroup(bids, state, price) ==
  LET group == Group(bids, price)
      offered == Restrict(Quantity(bids), group)
      total == SumFunction(offered)
      units == IF total <= state.remaining THEN offered
               ELSE LargestRemainder(WaterFill(offered, state.remaining),
                                     state.remaining)
  IN  IF state.remaining <= 0 THEN state
      ELSE [accepted |-> [k \in DOMAIN bids |->
                            IF k \in group THEN units[k] ELSE state.accepted[k]],
            remaining |-> IF total <= state.remaining
                          THEN state.remaining - total ELSE 0,
            ptf |-> price]

\* The highest price comes last.
Clear(bids, demand) ==
  LET prices == {bids[k].price : k \in {j \in DOMAIN bids : bids[j].quantity > 0}}
      end == MapThenFoldSet(LAMBDA price, state : ClearGroup(bids, state, price),
                            [accepted |-> [k \in DOMAIN bids |-> 0],
                             remaining |-> demand, ptf |-> NoPtf],
                            LAMBDA price : price, Max, prices)
  IN  [accepted       |-> end.accepted,
       ptf            |-> end.ptf,
       met_demand     |-> SumFunction(end.accepted),
       offered_volume |-> OfferedVolume(bids),
       marginal_group |-> IF end.ptf = NoPtf THEN {} ELSE Group(bids, end.ptf)]

-----------------------------------------------------------------------------
(* What every clearing algorithm owes the engine, and the settlement.      *)

validate_clearing_result(result, bids, demand, low, high) ==
  /\ DOMAIN result.accepted = DOMAIN bids
  /\ \A k \in DOMAIN bids : result.accepted[k] \in 0 .. bids[k].quantity
  /\ result.offered_volume = OfferedVolume(bids)
  /\ result.met_demand = SumFunction(result.accepted)
  /\ result.met_demand <= demand
  /\ result.met_demand <= result.offered_volume
  /\ IF result.met_demand = 0 THEN result.ptf = NoPtf
                              ELSE result.ptf \in low .. high
  /\ result.marginal_group \subseteq DOMAIN bids

NoPrice == -1   \* the acceptance price of a rejected bid (None)

acceptance_prices(result, bids, strategy) ==
  [k \in DOMAIN bids |->
     IF result.accepted[k] = 0 THEN NoPrice
     ELSE IF strategy = "PAYASBID" THEN bids[k].price ELSE result.ptf]
===============================================================================
