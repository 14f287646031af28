SPECIFICATION Spec
CONSTANTS
  Polls = 3
  EndStates <- AllEnds
INVARIANTS
  TypeOK
  VerdictIsTrue
  LiveJobHasCause
PROPERTY
  ValidationEnds
