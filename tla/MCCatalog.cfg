SPECIFICATION CatalogSpec
CONSTANTS
  pipe = pipe
  glove = glove
  tape = tape
  r1 = r1
  r2 = r2
  Items <- MCItems
  SpectrumItems <- MCSpectrumItems
  LocalItems <- MCLocalItems
  RequestIds <- MCRequestIds
  MaxOnHand = 1
SYMMETRY Symmetric
INVARIANTS
  IssuesHaveJobNumber
  
CHECK_DEADLOCK FALSE
