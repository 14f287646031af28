SPECIFICATION Spec
CONSTANTS
  Phases <- MCPhases
  Configs <- AllConfigs
INVARIANTS
  TypeOK
  EveryEntrySettled
  ResultIsHonest
  ResultMatchesPhases
  TeardownReached
PROPERTIES
  NoWorkAfterFailure
  TeardownGate
  Termination
  ImplementsLifecycle
