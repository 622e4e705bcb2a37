SPECIFICATION Spec
CONSTANTS
  bolt = bolt
  shelf = shelf
  r1 = r1
  r2 = r2
  l1 = l1
  l2 = l2
  l3 = l3
  Items = {bolt}
  Positions = {shelf}
  ItemOf <- MCItemOf
  SpectrumItems = {}
  OpeningStock <- MCOpeningStock
  PickRank <- MCPickRank
  RequestIds = {r1, r2}
  LineIds = {l1, l2, l3}
  RequestOf <- MCRequestOf
  LineItem <- MCLineItem
  Alternates = {}
  NoWorker = NoWorker
  Workers = {w1}
  Managers = {w1}
  Quantities = {1, 2}
  Serials = {1, 2}
  MaxVersion = 6
INVARIANTS
  InProgressHasWork
CHECK_DEADLOCK FALSE
