----------------------------- MODULE MCWatchPage -----------------------------
(***************************************************************************)
(* Profits with and without ties, on even and odd cents, and an agent that *)
(* has no offer in some periods.                                           *)
(***************************************************************************)
EXTENDS WatchPage

CONSTANTS a1, a2

Table(x, y) == [i \in 1 .. N |-> [a \in {a1, a2} |-> IF a = a1 THEN x[i] ELSE y[i]]]

MCProfitTables ==
  {Table(<<2, 3, -1>>, <<NoOffer, 5, NoOffer>>),
   Table(<<-2, 2, 6>>, <<1, -5, 2>>)}
MCInitialBudgets == {[a \in {a1, a2} |-> IF a = a1 THEN 0 ELSE 4]}
=============================================================================
