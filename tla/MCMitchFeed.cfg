SPECIFICATION FairSpec
CONSTANTS
  SeqMod = 16
  ReplayWindow = 2
  InitialBudget = 1
  Instrument = {}
  MaxCount = 2
  MaxObserved = 0
  None = None
  MaxSeq = 4
  MaxEpoch = 0
  MaxInFlight = 1
INVARIANTS
  FeedTypeOK
  BookHasNoHole
  PassedIsNotLost
PROPERTIES
  KeepsPromise
  PositionOnlyAdvances
  ReceivedIsApplied
