SPECIFICATION Spec
CONSTANTS
  Session = {0, 1}
  MaxSession = 1
  MaxRetransmit = 1
  MaxCount = 1
  EndOfSession = 99
  MaxPosition = 3
  MaxObserved = 0
  None = None
  Line = {A, B}
  MaxInFlight = 2
  MaxFailures = 0
  MidPacketSnapshots = FALSE
INVARIANT
  OneChangePerSession
