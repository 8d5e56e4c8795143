SPECIFICATION Spec
CONSTANTS
  CompTypes = {c1, c2}
  Ids <- MCIds
  Values = {v}
  MAX_COMPONENT_TYPES = 2
  MaxSlots = 2
  MaxLoops = 1
  Mistakes = {"threw"}
SYMMETRY MCSymmetry
INVARIANT DestroyRemoves
