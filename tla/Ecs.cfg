SPECIFICATION Spec
CONSTANTS
  CompTypes = {c1, c2}
  Ids <- MCIds
  Values = {v}
  MAX_COMPONENT_TYPES = 2
  MaxSlots = 2
  MaxLoops = 2
  Mistakes = {}
SYMMETRY MCSymmetry
VIEW MCView
INVARIANTS
  TypeOK
  MasksMatchPools
  HandlesFindOwn
  LocksMatchLoops
  LoopVisitsAll
  VisitsLivingOnce
