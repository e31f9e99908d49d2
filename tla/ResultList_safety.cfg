CONSTANTS
  N <- MC_N
  Hrefs <- MC_Hrefs
  HasMenu <- MC_HasMenu
  RowH <- MC_RowH
  LinkH <- MC_LinkH
  WinH <- MC_WinH
SPECIFICATION Spec
INVARIANTS
  TypeOK
PROPERTIES
  SelectionRefined
