SPECIFICATION Spec
CONSTANTS
  Phases <- MCPhases
  Configs <- ValidationConfigs
INVARIANTS
  ExecutedOnRealData
  ReportComplete
PROPERTIES
  OutcomeIsFinal
