CONSTANTS
  Client = {c1, c2}
  Name <- MCName
  Doc <- FourDocs
  Value = {v1}
  NoFile = NoFile
  Torn = Torn
  Star = Star
  Operations = {"put", "delete"}
  ClockSteps <- DistinctStamps
  MaxWrites = 4
  MaxTries = 1
  MaxCrashes = 0
  IOErrors = FALSE
SYMMETRY WriterSymmetry
SPECIFICATION Spec
INVARIANTS
  TypeOK
  MutualExclusion
  IndexMatchesDisk
  FoldersListed
  DocXorFolder
PROPERTIES
  TaggedPutIsStored
  ConditionalWrite
  ImplementsStore
CHECK_DEADLOCK FALSE
