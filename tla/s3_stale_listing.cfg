CONSTANTS
  Client = {c1, c2}
  Name <- MCName
  Beyond <- NoBeyond
  Doc <- DeepDocs
  Value = {v1, v2}
  NoBlob = NoBlob
  Operations = {"put", "list"}
  Conditions = {"always"}
  MaxRequests = 3
  MaxFaults = 0
SPECIFICATION Spec
INVARIANT EventuallyConsistent
CHECK_DEADLOCK FALSE
