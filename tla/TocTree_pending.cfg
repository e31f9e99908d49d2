CONSTANTS
  N <- MC_N
  DynLoadFrame <- MC_DynLoadFrame
  QueryInHref <- MC_QueryInHref
  WinH <- MC_WinH
SPECIFICATION Spec
INVARIANT
  NextDownEnumeratesVisible
