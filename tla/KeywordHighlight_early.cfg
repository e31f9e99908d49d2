CONSTANTS
  Text <- MC_Text
  Keywords <- MC_Keywords
  EarlyReadyState <- MC_EarlyReadyStateBeforeBody
SPECIFICATION Spec
PROPERTY HighlightRuns
CHECK_DEADLOCK FALSE
