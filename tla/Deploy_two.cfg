SPECIFICATION Spec
CONSTANTS
  w1 = w1
  h1 = h1
  h2 = h2
  Deployments = {d1, d2}
  NoOne = NoOne
  Dirs = {w1}
  Hosts = {h1, h2}
  Options <- MCOptions
SYMMETRY MCSymmetry
INVARIANTS
  TypeOK
  OwnSuite
  OwnResults
  OpenRunIsTold
  ArchiveRemoved
