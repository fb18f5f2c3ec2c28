SPECIFICATION Spec
CONSTANTS
  SequenceMod = 4
  CountMod = 4
  LengthMod = 80
  Frame <- SomeFrame
  Foreign <- SomeForeign
  BuiltType = {"time", "order_deleted", "add_order"}
  MaxBuilt = 5
  Damage <- SomeDamage
  None = None
  EndCount = 4
  BlockLen = {0, 1, 3}
  Payloads = {0, 1, 3, 5, 8}
  Sequences64 = {1, 2}
  MaxBlocks = 3
  Change <- SomeChange
  NoPacket = NoPacket
  Currency = {"NGN", "KES"}
  MaxMinor = 99999
  MaxChange = 9999999
  MaxScale = 2
  Retries = 2
  StaleTime = 2
  MaxRows = 2
  ServiceScale = 2
  SdkScale = 1
  Listing = {"NGX", "GSE"}
  Letter <- SomeLetter
  Symbol <- SomeSymbol
  Attribute = {"name"}
  Value = {"x"}
  Money = {"NGN", "USD"}
  Source = {"kwayisi"}
INVARIANTS
  WalkIsSound
  BuiltReadsBack
  BlocksAreSound
  LayoutsAgree
  PricesAreExact
  RetriesHelp
  VenuesFit
  SdkAgrees
PROPERTY
  NothingIsForgotten
