CONSTANTS
  Checks <- MCChecks
  Lenient <- MCLenient
  Overriding <- MCOverriding
  Vacuous <- MCVacuous
  Tolerated <- MCTolerated
SPECIFICATION Spec
INVARIANT FailureIsFinal
