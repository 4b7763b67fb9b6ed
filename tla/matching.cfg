SPECIFICATION RunnerSpec
CONSTANTS
  Order <- MCOrder
  Batches <- MCBatches
  Tolerance = 100
  RoundingTolerance = 100
  Narrow = 2
  Wide = 5
  Amounts <- MCAmounts
  Times <- MCTimes
  FeeRate = 236
  TaxRate = 1527
  Real <- MCReal
  RoundingDeltas <- MCRoundingDeltas
  TdsRates = {200, 1000}
  RebateRates <- MCRebateRates
  Advances <- MCAdvances
INVARIANTS
  ConsumedOnce
  EverythingAccounted
  LaterPaymentsRejected
  NoBetterLineLeft
  RulesAgreeWithGold
  HintNamesTheClass
  GoldIsBorneOut
CHECK_DEADLOCK FALSE
