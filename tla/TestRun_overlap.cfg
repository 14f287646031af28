SPECIFICATION Spec
CONSTANTS
  Sessions = {s1, s2}
  NoRun = NoRun
  Options <- SingleOptions
  Overlap = TRUE
INVARIANTS
  TypeOK
  StatusIsVerdict
  TolerantUpdate
PROPERTIES
  SessionsEnd
