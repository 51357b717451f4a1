CONSTANTS
  Client = {c1, c2}
  Password = {k1, k2}
  Token = {t1, t2}
  NoUser = NoUser
  Scopes <- MCScopes
  Paths <- MCPaths
  Public = "public"
  MaxRequests = 4
  MaxFaults = 1
SYMMETRY AuthSymmetry
SPECIFICATION Spec
INVARIANTS
  TypeOK
  UndisturbedAuth
PROPERTIES
  AccessAsGranted
CHECK_DEADLOCK FALSE
