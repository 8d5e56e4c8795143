SPECIFICATION Spec
CONSTANTS
  IndexSpan = 4
  IdGenSpan = 3
  GenSpan = 3
  ECS_ENTITY_RECYCLE_COUNT = 1
  CompTypes = {c1}
  NDEBUG = FALSE
  Mistakes = {"reentered"}
  MaxEntities = 3
  MaxCalls = 2
  MaxFree = 3
INVARIANT LivingIdsUnique
CHECK_DEADLOCK FALSE
