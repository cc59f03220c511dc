------------------------------ MODULE MCMoney ------------------------------
(***************************************************************************)
(* The money of operations on small instances: a budget with two           *)
(* operations and one limit change in flight, or the price of one          *)
(* operation.  The two share no state, so a behaviour moves only one.      *)
(***************************************************************************)
EXTENDS Budget, Pricing, TLC

MCLimits == {2, 5}
MCQuotes == {0, 2, 3}
MCCosts == {0, 1, 2, 4}

(* 1, 2/3 and 3/2 make every rounding happen. *)
MCBasePrices == {0, 3}
MCAmounts == {0, 2, 3}
MCFactors == {<<1, 1>>, <<2, 3>>, <<3, 2>>}
MCDurations == {{2}, {1, 3}}

VARIABLE subject

NoPrice == rule = None /\ input = None /\ quote = None /\ usage = None /\ actual = None

MoneyInit ==
  /\ Init
  /\ \/ subject = "budget" /\ NoPrice
     \/ subject = "price" /\ PriceInit

MoneyNext ==
  /\ UNCHANGED subject
  /\ \/ subject = "budget" /\ Next /\ UNCHANGED priceVars
     \/ subject = "price" /\ PriceNext /\ UNCHANGED vars

MoneySpec == MoneyInit /\ [][MoneyNext]_<<subject, vars, priceVars>>
=============================================================================
