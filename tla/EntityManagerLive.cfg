SPECIFICATION FairSpec
CONSTANTS
  IndexSpan = 4
  IdGenSpan = 2
  GenSpan = 2
  ECS_ENTITY_RECYCLE_COUNT = 1
  CompTypes = {}
  NDEBUG = FALSE
  Mistakes = {"wrapped", "reentered"}
  MaxEntities = 3
  MaxCalls = 3
  MaxFree = 3
PROPERTY DestroyAllEnds
\* An assertion that fails, or a full queue of free indexes, ends the behaviour.
CHECK_DEADLOCK FALSE
