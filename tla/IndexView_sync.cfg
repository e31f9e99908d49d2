CONSTANTS
  Ids <- MC_Ids
  Subs <- MC_FlatSubs
  Labels <- MC_FlatLabels
  Patterns <- MC_Patterns
  WinH <- MC_WinH
SPECIFICATION Spec
INVARIANTS
  TypeOK
  CurrentIdTracksSelection
  TypedTextSelected
PROPERTIES
  SelectionRefined
