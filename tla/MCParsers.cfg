SPECIFICATION Spec
CONSTANTS
  U64Max = 5
  MaxCalls = 4
INVARIANTS
  FilledFromItsEmitter
  LoneInvocationCompletes
  FilterLosesNothing
  DecodersAgree
  LegAgreesWithEvent
  MintsFromEvidence
  RouteFollowsExecution
CHECK_DEADLOCK FALSE
