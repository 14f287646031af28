SPECIFICATION Spec
CONSTANTS
  Suites <- Partial
  Resources <- MCResources
PROPERTY RescueKnowsAll
