SPECIFICATION Spec
CONSTANTS
  Ids <- MCIds
  Values = {v1, v2}
  MaxSlots = 3
INVARIANTS
  TypeOK
  SlotOwnersMapped
  NoHoles
  CountsAgree
  NeverTerminates
  IterationInBounds
  NextIsNew
  TidyIterationVisitsAll
  VisitsWereThere
PROPERTIES
  SlotsStableWhileIterating
  ImplementsStore
\* The destructor may really stop the program (std::terminate).
CHECK_DEADLOCK FALSE
