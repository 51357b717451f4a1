CONSTANTS
  Client = {c1, c2}
  Name <- MCName
  Beyond <- NoBeyond
  Doc <- ClashingDocs
  Value = {v1, v2}
  NoBlob = NoBlob
  Operations = {"put", "delete", "list"}
  Conditions = {"always", "is"}
  MaxRequests = 3
  MaxFaults = 1
SYMMETRY StoreSymmetry
SPECIFICATION Spec
INVARIANTS
  TypeOK
  UndisturbedCache
PROPERTIES
  ConditionalPut
  ListedExactly
CHECK_DEADLOCK FALSE
