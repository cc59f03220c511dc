------------------------------ MODULE Pricing ------------------------------
(***************************************************************************)
(* What a quote costs and what the usage that the provider reports costs,  *)
(* by the same frozen rule.  Both keep every factor exact and round up     *)
(* once.  An amount is a fraction <<numerator, denominator>>.              *)
(***************************************************************************)
EXTENDS Integers, FiniteSets

CONSTANTS
    Block,          \* tokens, characters and milliseconds are priced per 1000
    BasePrices,     \* base prices in micros
    Factors,        \* coefficients and exchange rates, as fractions
    Amounts,        \* quantities: outputs, milliseconds, characters, tokens
    Durations,      \* sets of durations a model can produce
    MaxInt64        \* the largest amount that can be stored

(* Quantities and prices are whole numbers that are not negative, and a      *)
(* fraction has a positive denominator.                                      *)
Fractions == Nat \X (Nat \ {0})
ASSUME PricingAssumption ==
    /\ Block \in Nat \ {0} /\ MaxInt64 \in Nat
    /\ BasePrices \subseteq Nat /\ Amounts \subseteq Nat
    /\ Factors \subseteq Fractions
    /\ \A durations \in Durations : durations \subseteq Nat

VARIABLES
    rule,       \* the frozen price version, parsed
    input,      \* the frozen quantities of the quote
    quote,      \* CalculateQuote's answer, or None
    usage,      \* what the provider reported
    actual      \* CalculateActualCost's answer, or None

priceVars == <<rule, input, quote, usage, actual>>

(* No amount yet, the errors ErrPricingInputInvalid and ErrPricingOverflow.  *)
None == -1
Invalid == -2
Overflow == -3

Units == {"image", "second", "request", "chars", "tokens"}

(* A token rule has an input and an output price, not both zero; the others  *)
(* have one base price and coefficients.                                     *)
Rules == {r \in [unit : Units, base : BasePrices, out : BasePrices, factor : Factors, fx : Factors] :
            IF r.unit = "tokens" THEN r.base + r.out > 0 ELSE r.out = 0}
Inputs == [outputs : Amounts, target : Amounts, allowed : Durations,
           quantity : Amounts,      \* characters or input tokens
           maxTokens : Amounts]
NoUsage == [quantity |-> None, output |-> None]
Usages == [quantity : Amounts, output : Amounts]

Times(a, b) == <<a[1] * b[1], a[2] * b[2]>>

CeilDiv(n, d) == (n + d - 1) \div d
FloorDiv(n, d) == n \div d

(* The one rounding: up to the next micro. *)
RoundUp(n, d) == CeilDiv(n, d)

(* finishPriceAmount: exchange rate, one ceiling, the width of the column. *)
FinishPriceAmount(amount, fx) ==
    LET exact == Times(amount, fx)
        whole == RoundUp(exact[1], exact[2])
    IN IF whole > MaxInt64 THEN Overflow ELSE whole

(* Characters are charged in started blocks. *)
Blocks(chars) == chars \div Block + (IF chars % Block # 0 THEN 1 ELSE 0)

LastFitting(in) ==
    LET short == {d \in in.allowed : d <= in.target}
    IN IF short = {} THEN 1 ELSE CHOOSE d \in short : \A e \in short : d >= e

(* The shortest duration the model offers that is long enough. *)
Selected(in) ==
    LET enough == {d \in in.allowed : d >= in.target}
    IN CHOOSE d \in enough : \A e \in enough : d <= e

ValidInput(r, in) ==
    /\ r.unit = "tokens" => in.maxTokens > 0
    /\ r.unit \in {"image", "second"} => in.outputs > 0
    /\ r.unit = "second" => in.target > 0 /\ \E d \in in.allowed : d >= in.target

(* applyPriceFactors, the product of the coefficients of mode and resolution; *)
(* token prices have none.                                                   *)
ApplyPriceFactors(r, amount) == IF r.unit = "tokens" THEN amount ELSE Times(amount, r.factor)

PriceAmount(r, in) ==
    IF r.unit = "tokens" THEN <<in.quantity * r.base + in.maxTokens * r.out, Block>>
    ELSE IF r.unit = "image" THEN <<in.outputs * r.base, 1>>
    ELSE IF r.unit = "second" THEN <<Selected(in) * in.outputs * r.base, Block>>
    ELSE IF r.unit = "chars" THEN <<Blocks(in.quantity) * r.base, 1>>
    ELSE <<r.base, 1>>

ActualPriceAmount(r, u) ==
    IF r.unit = "tokens" THEN <<u.quantity * r.base + u.output * r.out, Block>>
    ELSE IF r.unit = "second" THEN <<u.quantity * r.base, Block>>
    ELSE IF r.unit = "chars" THEN <<Blocks(u.quantity) * r.base, 1>>
    ELSE <<u.quantity * r.base, 1>>

CalculateQuoteDetailed(r, in) ==
    IF ValidInput(r, in) THEN FinishPriceAmount(ApplyPriceFactors(r, PriceAmount(r, in)), r.fx)
    ELSE Invalid

CalculateActualCost(r, u) ==
    IF r.unit = "request" /\ u.quantity > 1 THEN Invalid
    ELSE FinishPriceAmount(ApplyPriceFactors(r, ActualPriceAmount(r, u)), r.fx)

-----------------------------------------------------------------------------
PriceInit ==
    /\ rule \in Rules /\ input \in Inputs
    /\ quote = None /\ usage = NoUsage /\ actual = None

Quote ==
    /\ quote = None
    /\ quote' = CalculateQuoteDetailed(rule, input)
    /\ UNCHANGED <<rule, input, usage, actual>>

(* Only a quote that could be priced is executed and reported on. *)
PriceProviderUsage(u) ==
    /\ quote \notin {None, Invalid, Overflow} /\ actual = None
    /\ usage' = u
    /\ actual' = CalculateActualCost(rule, u)
    /\ UNCHANGED <<rule, input, quote>>

PriceNext == Quote \/ \E u \in Usages : PriceProviderUsage(u)

PriceSpec == PriceInit /\ [][PriceNext]_priceVars

-----------------------------------------------------------------------------
(* PROPERTIES *)

(* The rule and the quantities stay frozen; an amount fits its column.       *)
PriceTypeOK ==
    /\ rule \in Rules /\ input \in Inputs /\ usage \in Usages \cup {NoUsage}
    /\ quote \in 0 .. MaxInt64 \cup {None, Invalid, Overflow}
    /\ actual \in 0 .. MaxInt64 \cup {None, Invalid, Overflow}

(* Did the provider report no more than what was quoted?                     *)
WithinQuote ==
    /\ rule.unit = "tokens" => usage.quantity <= input.quantity /\ usage.output <= input.maxTokens
    /\ rule.unit = "image" => usage.quantity <= input.outputs
    /\ rule.unit = "second" =>
          \E d \in input.allowed : /\ d >= input.target
                                  /\ \A e \in input.allowed : e >= input.target => d <= e
                                  /\ usage.quantity <= d * input.outputs
    /\ rule.unit = "request" => usage.quantity <= 1
    /\ rule.unit = "chars" => usage.quantity <= input.quantity

(* Work that stays within its quoted quantities never costs more than the    *)
(* quote, whatever the factors, the block sizes and the rounding: such a     *)
(* settlement cannot overrun the reservation.                                *)
QuoteCoversUsage ==
    actual # None /\ WithinQuote => actual >= 0 /\ actual <= quote

(* The price of a quote is the least amount that covers the exact product of *)
(* its quantities, prices, factors and exchange rate ("keeps quantities,     *)
(* multipliers, and FX exact until one final ceiling").                      *)
RoundedOnce ==
    quote >= 0 =>
        LET exact == Times(ApplyPriceFactors(rule, PriceAmount(rule, input)), rule.fx)
        IN /\ quote * exact[2] >= exact[1]
           /\ quote > 0 => (quote - 1) * exact[2] < exact[1]

(* Both: a quote is exact, and work that stays within it is covered by it. *)
PricesExact == RoundedOnce /\ QuoteCoversUsage
=============================================================================
