SPECIFICATION Spec
CONSTANTS
  Sessions = {s1, s2}
  NoRun = NoRun
  Options <- SingleOptions
  Overlap = FALSE
INVARIANT
  ResultsOfOwnRun
