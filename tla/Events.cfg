SPECIFICATION Spec
CONSTANTS
  Entities = {e1}
  Hits = {hit}
  MaxSubs = 3
  MaxCalls = 3
VIEW MCView
INVARIANTS
  TypeOK
  ActiveIsExact
  RunningSignalsExist
PROPERTIES
  EmitReachesAll
  EndedNeverCalled
\* Where behaviour is undefined the model stops.
CHECK_DEADLOCK FALSE
