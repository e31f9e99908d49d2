----------------------------- MODULE MC_TocTree -----------------------------
(***************************************************************************)
(* TocTree for TLC: every outline of four topics (14 shapes), any set of   *)
(* lazy containers, a page with dynLoadFrame and a query string, so that   *)
(* expanding a lazy container really fetches its fragment.                *)
(***************************************************************************)
EXTENDS TocTree

MC_N == 4
MC_DynLoadFrame == TRUE
MC_QueryInHref == TRUE

\* a window of two rows, so that four topics overflow it
MC_WinH == 2
====
