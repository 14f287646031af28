SPECIFICATION Spec
CONSTANTS
  Sessions = {s1, s2}
  NoRun = NoRun
  Options <- MixedOptions
  Overlap = FALSE
INVARIANTS
  NoSilentLoss
  UploadsAreOwn
