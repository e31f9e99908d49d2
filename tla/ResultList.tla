------------------------------ MODULE ResultList ------------------------------
(***************************************************************************)
(* The search-result and bookmark lists, advanced/list.js (webapp 3.2.0).  *)
(* Each entry is a table row TR with id "r<k>" holding a TD with an anchor *)
(* A with id "a<k>" (k = 0, 1, ...), whose link text and icon IMG are its  *)
(* children.  Navigation is id arithmetic on k; highlightTopic marks the   *)
(* row and its anchor "active" and remembers the row in oldActive and the *)
(* anchor in active.  On the bookmark list a right click opens a popup    *)
(* menu whose commands act on active.                                      *)
(*                                                                         *)
(* The browser is the Mozilla path of the code (event.target,             *)
(* popupMenuTarget; focusHandler is registered for IE only).               *)
(***************************************************************************)
EXTENDS Integers, Sequences

CONSTANTS
  N,        \* number of rows
  Hrefs,    \* topic each row's anchor links to, by row id
  HasMenu,  \* the page has the popup menu (bookmark list)
  RowH,     \* offsetHeight of a row's cell
  LinkH,    \* offsetHeight of a row's anchor
  WinH      \* window.innerHeight

Rows == 0..N-1
NoRow == -1

ASSUME N \in Nat /\ DOMAIN Hrefs = Rows
ASSUME LinkH <= RowH /\ RowH <= WinH

\* the rows are stacked from the top of the page
RowTop(r) == r * RowH

PS == INSTANCE PageScroll WITH DocH <- N * RowH

\* the elements of a row an event can target, and the body
El(kind, r) == [k |-> kind, r |-> r]
Body == El("BODY", NoRow)
RowParts == {El(kind, r) : kind \in {"TXT", "A", "IMG", "TD"}, r \in Rows}
Elements == RowParts \cup {Body}
NoEl == El("NONE", NoRow)

VARIABLES
  rowCls,          \* className of each TR
  aCls,            \* className of each anchor
  oldActive,       \* highlighted row, NoRow when undefined
  active,          \* row of the anchor in active, NoRow when undefined
  focus,           \* focused element (the target of key events)
  menuOpen,        \* menu.style.display == "block"
  popupMenuTarget, \* the element the menu was opened on
  pageTop          \* window.pageYOffset

vars == <<rowCls, aCls, oldActive, active, focus, menuOpen, popupMenuTarget, pageTop>>

-----------------------------------------------------------------------------
(***************************************************************************)
(* DOM helpers.                                                            *)
(***************************************************************************)

\* getTRNode: the row of a text, anchor, cell, row or icon; null otherwise
GetTRNode(el) == IF el.k \in {"TXT", "A", "TD", "IMG"} THEN el.r ELSE NoRow

\* getNextDown / getNextUp: the anchor "a" + (id +/- 1), if the page has it
GetNextDown(el) ==
  LET tr == GetTRNode(el)
  IN IF tr # NoRow /\ tr + 1 \in Rows THEN El("A", tr + 1) ELSE NoEl

GetNextUp(el) ==
  LET tr == GetTRNode(el)
  IN IF tr # NoRow /\ tr - 1 >= 0 THEN El("A", tr - 1) ELSE NoEl

\* a row the mouse can reach: some of it is inside the window
Shown(r) == RowTop(r) < pageTop + WinH /\ pageTop < RowTop(r) + RowH

\* the anchor is the target itself or its parent (its text or icon)
InAnchor(el) == el.k \in {"A", "TXT", "IMG"}

\* Fault variant: the previous row is restored but its anchor keeps "active".
HighlightTopic_KeepsOldAnchor(el) ==
  IF el = NoEl \/ ~InAnchor(el) \/ GetTRNode(el) = NoRow
  THEN UNCHANGED <<rowCls, aCls, oldActive, active>>
  ELSE LET tr == GetTRNode(el)
           unmark == oldActive # NoRow /\ oldActive # tr
       IN /\ rowCls' = [[r \in Rows |-> IF unmark /\ r = oldActive THEN "list" ELSE rowCls[r]]
                          EXCEPT ![tr] = "active"]
          /\ aCls' = [aCls EXCEPT ![tr] = "active"]
          /\ oldActive' = tr
          /\ active' = tr

\* Fault variant: the anchor's class gets " active" appended, as in the
\* index list, instead of being set.
HighlightTopic_AppendsActive(el) ==
  IF el = NoEl \/ ~InAnchor(el) \/ GetTRNode(el) = NoRow
  THEN UNCHANGED <<rowCls, aCls, oldActive, active>>
  ELSE LET tr == GetTRNode(el)
           unmark == oldActive # NoRow /\ oldActive # tr
       IN /\ rowCls' = [[r \in Rows |-> IF unmark /\ r = oldActive THEN "list" ELSE rowCls[r]]
                          EXCEPT ![tr] = "active"]
          /\ aCls' = [[r \in Rows |-> IF unmark /\ r = oldActive THEN "" ELSE aCls[r]]
                          EXCEPT ![tr] = @ \o " active"]
          /\ oldActive' = tr
          /\ active' = tr

\* highlightTopic: unmark the previous row and anchor, mark the new ones
HighlightTopic(el) ==
  IF el = NoEl \/ ~InAnchor(el) \/ GetTRNode(el) = NoRow
  THEN UNCHANGED <<rowCls, aCls, oldActive, active>>
  ELSE LET tr == GetTRNode(el)
           unmark == oldActive # NoRow /\ oldActive # tr
       IN /\ rowCls' = [[r \in Rows |-> IF unmark /\ r = oldActive THEN "list" ELSE rowCls[r]]
                          EXCEPT ![tr] = "active"]
          /\ aCls' = [[r \in Rows |-> IF unmark /\ r = oldActive THEN "" ELSE aCls[r]]
                          EXCEPT ![tr] = "active"]
          /\ oldActive' = tr
          /\ active' = tr

-----------------------------------------------------------------------------
(***************************************************************************)
(* Handlers.                                                               *)
(***************************************************************************)

\* hidePopupMenu: hide the menu if it is shown
HidePopupMenu == menuOpen' = FALSE

\* showPopupMenu: on a page with the menu, show it at the click and
\* remember the element clicked
ShowPopupMenu(el) ==
  IF HasMenu THEN menuOpen' = TRUE /\ popupMenuTarget' = el
  ELSE UNCHANGED <<menuOpen, popupMenuTarget>>

\* mouseClickHandler: hide the menu unless the click is on the element it
\* was opened on, then highlight; the browser focuses a clicked link
MouseClick(el) ==
  /\ Shown(el.r)
  /\ IF el # popupMenuTarget THEN HidePopupMenu ELSE UNCHANGED menuOpen
  /\ HighlightTopic(el)
  /\ focus' = IF InAnchor(el) THEN El("A", el.r) ELSE Body
  /\ UNCHANGED <<popupMenuTarget, pageTop>>

\* contextMenuHandler: hide the menu, select the row through the click
\* handler, then take the clicked anchor (or the anchor around the clicked
\* text or icon) as active, the anchor highlightTopic has just set, and
\* show the menu again; on anything else return after the click
ContextMenu(el) ==
  /\ Shown(el.r)
  /\ HighlightTopic(el)
  /\ IF InAnchor(el) THEN ShowPopupMenu(el)
     ELSE HidePopupMenu /\ UNCHANGED popupMenuTarget
  /\ UNCHANGED <<focus, pageTop>>

\* keyDownHandler, Down and Up: from the focused element to the anchor of
\* the next or previous row id, highlighted and focused
ArrowKey(next) ==
  /\ HighlightTopic(next)
  /\ focus' = IF next # NoEl THEN next ELSE focus
  /\ pageTop' \in IF next # NoEl THEN PS!FocusScroll(RowTop(next.r), LinkH, pageTop)
                  ELSE {pageTop}
  /\ UNCHANGED <<menuOpen, popupMenuTarget>>

KeyDown == ArrowKey(GetNextDown(focus))
KeyUp   == ArrowKey(GetNextUp(focus))

\* scrollIntoView(node) of list.js, for the anchor of row r
ListScrollIntoView(r) ==
  pageTop' \in PS!ListScrollIntoView(RowTop(r), RowH, LinkH, pageTop)

\* selectTopic(topic): highlight the first anchor whose href is the topic,
\* scroll it into view, then let the browser put it at the window's top
\* (links[i].scrollIntoView(true)), which replaces the first scroll
SelectTopic(t) ==
  LET hits == {r \in Rows : Hrefs[r] = t}
      r == CHOOSE r \in hits : \A s \in hits : r <= s
  IN /\ hits # {}
     /\ HighlightTopic(El("A", r))
     /\ pageTop' = PS!ScrollToTop(RowTop(r))
     /\ UNCHANGED <<focus, menuOpen, popupMenuTarget>>

\* selectTopicById(id): highlight the anchor with that id and scroll it
\* into view
SelectTopicById(r) ==
  /\ HighlightTopic(El("A", r))
  /\ ListScrollIntoView(r)
  /\ UNCHANGED <<focus, menuOpen, popupMenuTarget>>

\* the user moves the scroll bar
ScrollPage(p) ==
  /\ pageTop' = p
  /\ UNCHANGED <<rowCls, aCls, oldActive, active, focus, menuOpen, popupMenuTarget>>

-----------------------------------------------------------------------------
Init ==
  /\ rowCls = [r \in Rows |-> "list"]
  /\ aCls = [r \in Rows |-> ""]
  /\ oldActive = NoRow
  /\ active = NoRow
  /\ focus = Body
  /\ menuOpen = FALSE
  /\ popupMenuTarget = NoEl
  /\ pageTop = 0

Next ==
  \/ \E el \in RowParts : MouseClick(el)
  \/ \E el \in RowParts : ContextMenu(el)
  \/ KeyDown
  \/ KeyUp
  \/ \E t \in {Hrefs[r] : r \in Rows} : SelectTopic(t)
  \/ \E r \in Rows : SelectTopicById(r)
  \/ \E p \in 0..PS!MaxTop : ScrollPage(p)

Spec == Init /\ [][Next]_vars

-----------------------------------------------------------------------------
TypeOK ==
  /\ rowCls \in [Rows -> {"list", "active"}]
  /\ aCls \in [Rows -> {"", "active"}]
  /\ oldActive \in Rows \cup {NoRow}
  /\ active \in Rows \cup {NoRow}
  /\ focus \in Elements
  /\ menuOpen \in BOOLEAN
  /\ popupMenuTarget \in RowParts \cup {NoEl}
  /\ pageTop \in 0..PS!MaxTop

(***************************************************************************)
(* The list implements the Selection Tracker of spec section 4.3: read     *)
(* through the classes of the rows and their anchors, every click, right   *)
(* click, arrow key and sync from another frame is either a complete       *)
(* setActive (the old row and anchor unmarked, the new ones marked and the *)
(* row remembered in oldActive) or leaves the selection alone.             *)
(***************************************************************************)
Sel == INSTANCE SelectionTracker
         WITH Nodes <- Rows, NoNode <- NoRow, active <- oldActive,
              marked <- {r \in Rows : rowCls[r] = "active" \/ aCls[r] = "active"}

SelectionRefined == Sel!Spec

(***************************************************************************)
(* scrollIntoView of list.js "Scrolls the page to show the specified       *)
(* element": after selectTopicById(id) the row is entirely inside the      *)
(* window.                                                                 *)
(***************************************************************************)
SyncedRowShown ==
  [][\A r \in Rows : SelectTopicById(r) => PS!InView(RowTop(r), RowH, pageTop')]_vars

=============================================================================
