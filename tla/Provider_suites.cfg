SPECIFICATION Spec
CONSTANTS
  Suites <- AllSuites
  Resources <- MCResources
INVARIANTS
  TypeOK
  LeftoversHaveCause
  InputsFromSuccess
PROPERTIES
  ForeignUntouched
  ClaimsAreTrue
  SuiteEnds
