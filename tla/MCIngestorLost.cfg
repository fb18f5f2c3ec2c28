SPECIFICATION Spec
CONSTANTS
  MinutesPerDay = 5
  Offset = 1
  TradingDays = {0, 2}
  Windows <- BrokenDay
  Instrument = {i1, i2}
  Price = {10, 11}
  Unarchivable = {i2}
  ForcePoll = FALSE
  MaxTime = 4
  MaxMoves = 1
  MaxFailures = 1
  MaxCrashes = 0
  None = None
INVARIANT
  BaselineWasPublished
