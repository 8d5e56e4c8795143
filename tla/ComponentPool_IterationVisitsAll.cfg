SPECIFICATION Spec
CONSTANTS
  Ids <- MCIds
  Values = {v1}
  MaxSlots = 3
INVARIANT IterationVisitsAll
