SPECIFICATION Spec
CONSTANTS
  Session = {0, 1}
  MaxSession = 1
  MaxRetransmit = 1
  MaxCount = 2
  EndOfSession = 99
  MaxPosition = 4
  MaxObserved = 0
  None = None
  Line = {A, B}
  MaxInFlight = 1
  MaxFailures = 1
  MidPacketSnapshots = TRUE
INVARIANTS
  FeedTypeOK
  BookHasNoHole
  GapsEscalateOnce
PROPERTIES
  PositionOnlyAdvances
  KeepsPromise
  DiscardedIsNotLost
SYMMETRY Symmetric
