CONSTANTS
  Client = {c1, c2}
  Name <- MCName
  Doc <- TwinDocs
  Value = {v1, v2}
  NoFile = NoFile
  Torn = Torn
  Star = Star
  Operations = {"put", "delete", "get", "list"}
  ClockSteps <- DistinctStamps
  MaxWrites = 2
  MaxTries = 1
  MaxCrashes = 0
  IOErrors = FALSE
SPECIFICATION FairSpec
PROPERTIES
  AnswerIsCurrent
  Answered
  ImplementsStore
