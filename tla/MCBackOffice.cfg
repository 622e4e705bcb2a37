SPECIFICATION OfficeSpec
CONSTANTS
  alice = alice
  bob = bob
  Accounts = {alice, bob}
  FirstAdministrator = alice
  Nobody = Nobody
  Sessions = {s1, s2}
  Calls = {c1, c2}
  LocationIds = {l1, l2}
  Codes = {A, B}
  NoCode = NoCode
  Cells = {x}
  NoCell = NoCell
  Labels = {q1}
SYMMETRY Symmetric
INVARIANTS
  OfficeTypeOK
  LocationsAreDistinct
  MapShowsCodes
PROPERTIES
  AdministratorRemains
  UpdateEndsSessions
  RevokedIsFinal
CHECK_DEADLOCK FALSE
