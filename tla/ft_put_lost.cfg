CONSTANTS
  Client = {c1}
  Name <- MCName
  Doc <- NestedDocs
  Value = {v1}
  NoFile = NoFile
  Torn = Torn
  Star = Star
  Operations = {"put", "delete"}
  ClockSteps <- DistinctStamps
  MaxWrites = 3
  MaxTries = 1
  MaxCrashes = 0
  IOErrors = FALSE
SPECIFICATION Spec
PROPERTY SuccessfulPutIsStored
CHECK_DEADLOCK FALSE
