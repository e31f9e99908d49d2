----------------------------- MODULE PageScroll -----------------------------
(***************************************************************************)
(* The vertical scrolling helpers that toc.js, indexList.js and list.js    *)
(* each carry a copy of, on the Mozilla path (window.pageYOffset and       *)
(* window.innerHeight).  A page of height DocH is shown through a window   *)
(* of height WinH; pageTop is window.pageYOffset.  Positions and heights   *)
(* are integers (pixels, scaled down).                                     *)
(***************************************************************************)
EXTENDS Integers

CONSTANTS
  WinH,   \* window.innerHeight
  DocH    \* height of the page

\* the largest window.pageYOffset the browser allows
MaxTop == IF DocH > WinH THEN DocH - WinH ELSE 0

\* window.scrollBy and window.scrollTo stop at the ends of the page
Clamp(p) == IF p < 0 THEN 0 ELSE IF p > MaxTop THEN MaxTop ELSE p

\* the node (top, height) is entirely inside the window
InView(top, h, page) == page <= top /\ top + h <= page + WinH

\* getVerticalScroll of toc.js and indexList.js: the distance to scroll so
\* that the node is shown, 0 if it already is.  On Mozilla the bottom of
\* the page is taken one node height above the window's bottom.
GetVerticalScroll(top, h, page) ==
  LET nodeBottom == top + h
      pageBottom == page + WinH - h
  IN IF top >= page
     THEN IF nodeBottom <= pageBottom THEN 0 ELSE nodeBottom - pageBottom
     ELSE top - page

\* getVerticalScroll of list.js: the row's cell (parentNode) gives the top
\* and height, the anchor's own height the margin, and a node below the
\* window is scrolled by nodeBottom - pageBottom/2.  That is half of a
\* page coordinate, a fraction when pageBottom is odd, which scrollBy
\* rounds; the rounding is the browser's, so both neighbours are results.
ListGetVerticalScroll(top, h, linkH, page) ==
  LET nodeBottom == top + h
      pageBottom == page + WinH - linkH
  IN IF top >= page
     THEN IF nodeBottom <= pageBottom THEN {0}
          ELSE {nodeBottom - pageBottom \div 2,
                nodeBottom - (pageBottom + 1) \div 2}
     ELSE {top - page}

\* the page offsets scrollIntoView(node) of toc.js and indexList.js can
\* leave: scrollBy(0, scroll) when the scroll is not 0
ScrollIntoView(top, h, page) == Clamp(page + GetVerticalScroll(top, h, page))

\* the same for list.js, one offset per rounding
ListScrollIntoView(top, h, linkH, page) ==
  {Clamp(page + s) : s \in ListGetVerticalScroll(top, h, linkH, page)}

\* element.scrollIntoView(true) and scrollToViewTop: the node's top at the
\* window's top, as far as the page allows
ScrollToTop(top) == Clamp(top)

\* what element.focus() leaves: the page is not moved when the element is
\* shown, otherwise the browser scrolls it into the window, by an amount
\* that differs between browsers
FocusScroll(top, h, page) ==
  IF InView(top, h, page) THEN {page}
  ELSE {p \in 0..MaxTop : InView(top, h, p)}

=============================================================================
