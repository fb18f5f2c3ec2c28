SPECIFICATION FairSpec
CONSTANTS
  MinutesPerDay = 5
  Offset = 1
  TradingDays = {0, 2}
  Windows <- BrokenDay
  Instrument = {i1, i2}
  Price = {10, 11}
  Unarchivable = {i2}
  ForcePoll = FALSE
  MaxTime = 12
  MaxMoves = 2
  MaxFailures = 2
  MaxCrashes = 1
  None = None
INVARIANTS
  IngestTypeOK
  SinksFollowBaseline
  BaselineIsTodays
PROPERTIES
  ForgetsOnlyOvernight
  PriceIsServed
