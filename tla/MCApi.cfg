SPECIFICATION FairSpec
CONSTANTS
  Exchange = {"GSE", "JSE"}
  NoKey = NoKey
  EveryVenue = EveryVenue
  MinutesPerDay = 4
  Offset = 0
  TradingDays = {0}
  Windows <- Day
  Client = {c1}
  Watched <- WatchGhana
  Instrument <- Ghana
  Registrations <- Deployments
  StaleAfter = 0
  MaxTime = 1
  MaxPrints = 1
  MaxFaults = 2
  None = None
CHECK_DEADLOCK FALSE
INVARIANTS
  ApiTypeOK
  EgressIsFiltered
  WithheldIsTold
PROPERTIES
  SubscriberCatchesUp
