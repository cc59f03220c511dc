SPECIFICATION MoneySpec
CONSTANTS
  Ops = {o1, o2}
  Editors = {e1}
  Limits <- MCLimits
  Quotes <- MCQuotes
  Costs <- MCCosts
  MaxMicros = 7
  MaxRevision = 7
  Block = 2
  BasePrices <- MCBasePrices
  Amounts <- MCAmounts
  Factors <- MCFactors
  Durations <- MCDurations
  MaxInt64 = 25
INVARIANTS MoneyConserved LedgerAnswers SettlementNeverRefused PricesExact
PROPERTIES LowBalanceAnnounced
CHECK_DEADLOCK FALSE
