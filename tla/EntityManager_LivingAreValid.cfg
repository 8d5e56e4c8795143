SPECIFICATION Spec
CONSTANTS
  IndexSpan = 4
  IdGenSpan = 2
  GenSpan = 4
  ECS_ENTITY_RECYCLE_COUNT = 1
  CompTypes = {c1}
  NDEBUG = TRUE
  Mistakes = {"truncated"}
  MaxEntities = 2
  MaxCalls = 1
  MaxFree = 1
INVARIANT LivingAreValid
CHECK_DEADLOCK FALSE
