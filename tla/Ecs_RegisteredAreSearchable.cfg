SPECIFICATION Spec
CONSTANTS
  CompTypes = {c1, c2}
  Ids <- MCIds
  Values = {v}
  MAX_COMPONENT_TYPES = 1
  MaxSlots = 2
  MaxLoops = 1
  Mistakes = {}
SYMMETRY MCSymmetry
INVARIANT RegisteredAreSearchable
