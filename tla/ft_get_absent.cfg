CONSTANTS
  Client = {c1, c2}
  Name <- MCName
  Doc <- CrossedDocs
  Value = {v1}
  NoFile = NoFile
  Torn = Torn
  Star = Star
  Operations = {"put", "get"}
  ClockSteps <- DistinctStamps
  MaxWrites = 2
  MaxTries = 1
  MaxCrashes = 0
  IOErrors = FALSE
SPECIFICATION Spec
PROPERTY AbsentIs404
CHECK_DEADLOCK FALSE
