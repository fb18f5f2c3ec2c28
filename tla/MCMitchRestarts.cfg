SPECIFICATION Spec
CONSTANTS
  SeqMod = 16
  ReplayWindow = 2
  InitialBudget = 1
  Instrument = {}
  MaxCount = 1
  MaxObserved = 0
  None = None
  MaxSeq = 3
  MaxEpoch = 1
  MaxInFlight = 2
PROPERTIES
  FailoverIsOneRestart
