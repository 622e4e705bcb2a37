SPECIFICATION WarehouseSpec
CONSTANTS
  glove = glove
  mitt = mitt
  pipe = pipe
  shelf = shelf
  bin = bin
  rack = rack
  yard = yard
  r1 = r1
  l1 = l1
  l2 = l2
  Items <- MCItems
  Positions <- MCPositions
  ItemOf <- MCItemOf
  SpectrumItems <- MCSpectrumItems
  OpeningStock <- MCOpeningStock
  PickRank <- MCPickRank
  RequestIds <- MCRequestIds
  LineIds <- MCLineIds
  RequestOf <- MCRequestOf
  LineItem <- MCLineItem
  Alternates <- MCAlternates
  NoWorker = NoWorker
  Workers = {w1}
  Managers = {}
  Quantities = {1, 2}
  Serials = {1}
  MaxVersion = 6
  Capabilities = {}
  StockQuantities = {1}
  MaxStockChanges = 3
INVARIANTS
  SpectrumStockIsConserved
  LedgerExplainsStock
  QuarantineWithinStock
  OutboxMirrorsIssues
  IssuesMatchAllocations
  ListingIsCoherent
CHECK_DEADLOCK FALSE
