CONSTANTS
  Chars <- MC_Chars
  MaxLen <- MC_MaxLen
  MaxIds <- MC_MaxIds
SPECIFICATION Spec
INVARIANTS
  TypeOK
  SearchFindsFirstMatch
PROPERTIES
  SearchTerminates
CHECK_DEADLOCK FALSE
