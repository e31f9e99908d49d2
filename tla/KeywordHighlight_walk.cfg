CONSTANTS
  Text <- MC_Text
  Keywords <- MC_Keywords
  EarlyReadyState <- MC_EarlyReadyState
SPECIFICATION Spec
INVARIANTS
  TypeOK
  TextPreserved
  PassedKeywordsHighlighted
CHECK_DEADLOCK FALSE
