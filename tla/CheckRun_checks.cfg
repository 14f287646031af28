CONSTANTS
  Checks <- MCChecks
  Lenient <- MCLenient
  Overriding <- MCOverriding
  Vacuous <- MCVacuous
  Tolerated <- MCTolerated
SPECIFICATION Spec
INVARIANT TypeOK
INVARIANT PassIsEarned
INVARIANT SubtestsDecide
INVARIANT FailureStands
INVARIANT NoVacuousPass
INVARIANT FailureHasCause
INVARIANT LeftoversHaveCause
