CONSTANTS
  Ids <- MC_Ids
  Subs <- MC_TreeSubs
  Labels <- MC_TreeLabels
  Patterns <- MC_Patterns
  WinH <- MC_WinH
SPECIFICATION Spec
INVARIANT CurrentIdTracksSelection
