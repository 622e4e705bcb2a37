SPECIFICATION Spec
CONSTANTS
  bolt = bolt
  screw = screw
  shelf = shelf
  bin = bin
  rack = rack
  r1 = r1
  r2 = r2
  l1 = l1
  l2 = l2
  Items <- MCItems
  Positions <- MCPositions
  ItemOf <- MCItemOf
  SpectrumItems <- MCSpectrumItems
  OpeningStock <- MCOpeningStock
  PickRank <- MCPickRank
  RequestIds <- MCRequestIds
  LineIds <- MCLineIds
  RequestOf <- MCRequestOf
  LineItem <- MCLineItem
  Alternates <- MCAlternates
  NoWorker = NoWorker
  Workers = {w1, w2}
  Managers = {w1}
  Quantities = {1, 2}
  Serials = {1, 2}
  MaxVersion = 7
SYMMETRY Symmetric
INVARIANTS
  TypeOK
  ClaimMatchesState
  PickedIsHeld
  ReadyMeansPicked
  LineTotalsAreCurrent
PROPERTIES
  EveryChangeRaisesVersion
  ClosedIsFinal
  ClaimedIsNotRaided
  ImplementsLifecycle
  ImplementsReservations
CHECK_DEADLOCK FALSE
