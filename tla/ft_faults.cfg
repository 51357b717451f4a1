CONSTANTS
  Client = {c1, c2}
  Name <- MCName
  Doc <- DeepDocs
  Value = {v1}
  NoFile = NoFile
  Torn = Torn
  Star = Star
  Operations = {"put", "delete", "get", "head", "list"}
  ClockSteps <- DistinctStamps
  MaxWrites = 2
  MaxTries = 1
  MaxCrashes = 1
  IOErrors = TRUE
SYMMETRY WriterSymmetry
SPECIFICATION Spec
INVARIANT MutualExclusion
PROPERTIES
  AnswerIsCurrent
