CONSTANTS
  N <- MC_N
  DynLoadFrame <- MC_DynLoadFrame
  QueryInHref <- MC_QueryInHref
  WinH <- MC_WinH
SPECIFICATION Spec
INVARIANTS
  TypeOK
  NavigationFollowsVisibleOrder
  DisplayMatchesOutline
PROPERTIES
  SelectionRefined
  OutlineRefined
  SelectTopicReveals
  KeyScrollShowsFocus
