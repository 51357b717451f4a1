\* Three requests of clients and a call of another route, pauses of 2 s to
\* 3 s, in tenths of a second, and one identifier more than there can be pauses.
SPECIFICATION Spec
CONSTANTS
  Handler = {h1, h2, h3}
  Job = {j1}
  Pause = {p1, p2, p3, p4}
  Resolved = Resolved
  INITIAL_S3_PAUSE = 20
  MAX_S3_PAUSE = 30
  MaxCommands = 2
INVARIANTS
  TypeOK
  AdmittedAtOnce
  PausesBounded
PROPERTIES
  Reopens
  Answered
