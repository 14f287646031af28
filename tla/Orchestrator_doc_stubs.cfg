SPECIFICATION Spec
CONSTANTS
  Phases <- MCPhases
  Configs <- ValidationConfigs
INVARIANTS
  StubsOnlyForUnexecuted
