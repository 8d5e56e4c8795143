SPECIFICATION Spec
CONSTANTS
  CompTypes = {c1, c2}
  Ids <- MCIds
  Values = {v}
  MAX_COMPONENT_TYPES = 1
  MaxSlots = 3
  MaxLoops = 1
  Mistakes = {"reassign", "staleId", "threw"}
SYMMETRY MCSymmetry
INVARIANTS
  TypeOK
  MasksMatchPools
  LocksMatchLoops
  VisitsLivingOnce
\* An assertion, or a destructor that throws, stops the program.
CHECK_DEADLOCK FALSE
