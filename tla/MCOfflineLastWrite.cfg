SPECIFICATION OfflineSpec
CONSTANTS
  bolt = bolt
  shelf = shelf
  r1 = r1
  l1 = l1
  g1 = g1
  tablet = tablet
  Items = {bolt}
  Positions = {shelf}
  ItemOf <- MCItemOf
  SpectrumItems = {bolt}
  OpeningStock <- MCOpeningStock
  PickRank <- MCPickRank
  RequestIds = {r1}
  LineIds = {l1}
  RequestOf <- MCRequestOf
  LineItem <- MCLineItem
  Alternates = {}
  NoWorker = NoWorker
  Workers = {w1}
  Managers = {}
  Quantities = {1}
  Serials = {1}
  MaxVersion = 6
  Grants = {g1}
  DeviceOf <- MCDeviceOf
  Calls = {c1}
  NoCall = NoCall
  NoRow = NoRow
  MaxCommands = 2
PROPERTIES
  AppliedToKnownVersion
CHECK_DEADLOCK FALSE
