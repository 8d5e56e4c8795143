SPECIFICATION Spec
CONSTANTS
  IndexSpan = 4
  IdGenSpan = 2
  GenSpan = 3
  ECS_ENTITY_RECYCLE_COUNT = 1
  CompTypes = {c1}
  NDEBUG = TRUE
  Mistakes = {"reentered", "deadAssign", "deadSubscribe", "truncated"}
  MaxEntities = 3
  MaxCalls = 3
  MaxFree = 2
INVARIANTS
  TypeOK
  IndexesAccountedFor
  ValidIffLiving
  NextIdIsNew
  NewEntityIsBare
  NoLeakedSignals
  NeverTraps
PROPERTIES
  DestroyAllDestroysAll
  ImplementsRegistry
\* An assertion that fails, or a full queue of free indexes, ends the behaviour.
CHECK_DEADLOCK FALSE
