SPECIFICATION Spec
CONSTANTS
  SeqMod = 16
  ReplayWindow = 2
  InitialBudget = 1
  Instrument = {i1}
  MaxCount = 1
  MaxObserved = 0
  None = None
  MaxSeq = 3
  MaxEpoch = 1
  MaxInFlight = 1
INVARIANTS
  BudgetConserved
  GapsEscalateOnce
PROPERTIES
  ArbitrationNeverRewinds
  RestartOnlyAfterFailover
  QuarantineHolds
