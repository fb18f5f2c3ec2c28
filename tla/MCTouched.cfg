SPECIFICATION BookSpec
CONSTANTS
  OrderId = {o1, o2}
  Instrument = {i1, i2}
  Price = {1}
  MaxQuantity = 1
  MaxTrades = 1
  MaxAnomalies = 1
  None = None
PROPERTIES
  TouchedIsReported
