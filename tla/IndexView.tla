------------------------------ MODULE IndexView ------------------------------
(***************************************************************************)
(* The keyword index view: three frames that share state through the      *)
(* parent window.                                                          *)
(*   - the type-in frame (indexTypein.js, 3.2.1): the text box, polled     *)
(*     every 200 ms by intervalHandler, and its Enter/Up/Down keys;        *)
(*   - the list frame (indexList.js, 3.2.0): the sorted keyword anchors,   *)
(*     one highlighted, with click and arrow-key handlers;                 *)
(*   - the parent (indexView.js, 3.2.1): the frame references typeinFrame *)
(*     and listFrame, set by each child's onload, and the calls that      *)
(*     forward between them (selectTopicById, selectNextUp/Down,          *)
(*     setTypeinValue, getSelection, doDisplay).                           *)
(* The frames load in either order; the user types without any handler    *)
(* running, and the poll notices the change later.                         *)
(*                                                                         *)
(* The list is the keyword index of spec sections 2 and 3: one LI per     *)
(* keyword in a single UL, entry k's anchor with id Ids[k]; a keyword with *)
(* sub-entries has a plus/minus image before its anchor and a UL of        *)
(* sub-entry LIs after it.  Sub-entry anchors have no id (the ids array,   *)
(* which the type-in searches, lists the keywords).  No UL has a UL as    *)
(* its next or previous sibling, so the branches of the walkers that look *)
(* for one find none.  searchPattern is taken as its result                *)
(* TypeAhead!FirstMatch, which the typeahead_search run shows it computes *)
(* for sorted lists.                                                       *)
(***************************************************************************)
EXTENDS Naturals, Sequences, FiniteSets

CONSTANTS
  Ids,       \* ids of the keyword anchors (listFrame.ids), sorted
  Subs,      \* number of sub-entries of each keyword
  Labels,    \* the link text of each sub-entry anchor
  Patterns,  \* texts the user may leave in the type-in box
  WinH       \* window.innerHeight of the list frame, in rows

TA == INSTANCE TypeAhead WITH ids <- Ids, pattern <- <<>>, from <- 0, to <- 0,
                              i <- 0, phase <- "done", result <- <<>>,
                              Chars <- {}, MaxLen <- 0, MaxIds <- 0

Keywords   == 1..Len(Ids)
\* an anchor is <<k, 0>> for keyword k, <<k, j>> for its j-th sub-entry
SubEntries == UNION {{<<k, j>> : j \in 1..Subs[k]} : k \in Keywords}
Nodes      == {<<k, 0>> : k \in Keywords} \cup SubEntries
None       == <<0, 0>>      \* null
Parents    == {<<k, 0>> : k \in {m \in Keywords : Subs[m] > 0}}  \* with plus/minus
Empty      == <<>>          \* the empty string ""

ASSUME /\ TA!IsInjective(Ids)
       /\ TA!IsSorted(Ids, LAMBDA x, y : TA!LexLeq(TA!Lowered(x), TA!Lowered(y)))
       /\ Subs \in [Keywords -> Nat]
       /\ DOMAIN Labels = SubEntries
       /\ Empty \in Patterns
       /\ WinH \in Nat /\ WinH >= 2

VARIABLES
  typeinFrame,    \* parent.typeinFrame has been set (type-in onload ran)
  listFrame,      \* parent.listFrame has been set (list onload ran)
  value,          \* typein.value
  previous,       \* typein.previous: the text the last poll looked at
  currentId,      \* id the type-in last selected or was set to
  expanded,       \* class "expanded" of each plus/minus image and of its UL,
                  \* which expand and collapse always set together
  aCls,           \* className of each anchor
  oldActive,      \* indexList.js oldActive: highlighted anchor, None if none
  oldActiveClass, \* its class before highlighting
  listFocus,      \* anchor that has focus in the list frame, None: body
  input,          \* history: how value got its text: "nav" (setTypeinValue),
                  \* "typed" (not polled yet), "searched" (polled), "blind"
                  \* (polled while listFrame was unset)
  pageTop,        \* window.pageYOffset of the list frame, in rows
  displayed       \* the entry whose topic the content frame shows, None
                  \* before any

vars == <<typeinFrame, listFrame, value, previous, currentId, expanded, aCls,
          oldActive, oldActiveClass, listFocus, input, pageTop, displayed>>

Active == " active"

-----------------------------------------------------------------------------
(***************************************************************************)
(* List frame helpers.                                                     *)
(***************************************************************************)

\* document.getElementById(id) in the list frame
EntryOf(id) == <<CHOOSE k \in Keywords : Ids[k] = id, 0>>

\* a sub-entry is shown while its keyword's UL has class "expanded"
Displayed(n) == n[2] = 0 \/ expanded[<<n[1], 0>>]

\* document order of the anchors
Before(m, n) == m[1] < n[1] \/ (m[1] = n[1] /\ m[2] < n[2])

(***************************************************************************)
(* Page geometry: every shown entry is one row of the list page, in        *)
(* document order; a hidden anchor has offsetTop and offsetHeight 0.  The  *)
(* browser keeps pageYOffset within the page when a collapse shortens it.  *)
(***************************************************************************)
PS(docH) == INSTANCE PageScroll WITH DocH <- docH

\* the entries shown when the plus/minus classes are exp
Rendered(exp) == {m \in Nodes : m[2] = 0 \/ exp[<<m[1], 0>>]}

DocH(exp) == Cardinality(Rendered(exp))
OffsetTop(n, exp) == IF n \in Rendered(exp) THEN Cardinality({m \in Rendered(exp) : Before(m, n)}) ELSE 0
OffsetHeight(n, exp) == IF n \in Rendered(exp) THEN 1 ELSE 0

\* the row of an entry shows in the window, so the mouse can reach it
Shown(n) == Displayed(n) /\ pageTop <= OffsetTop(n, expanded) /\ OffsetTop(n, expanded) < pageTop + WinH

\* pageYOffset once the browser has laid out the handler's changes
Reflowed == PS(DocH(expanded'))!Clamp(pageTop)

\* scrollIntoView(node) of indexList.js, on the layout the handler left
ScrollIntoView(n) ==
  pageTop' = PS(DocH(expanded'))!ScrollIntoView(OffsetTop(n, expanded'),
                                                OffsetHeight(n, expanded'), Reflowed)

\* scrollToViewTop(node): window.scrollTo(0, node.offsetTop)
ScrollToViewTop(n) == pageTop' = PS(DocH(expanded))!ScrollToTop(OffsetTop(n, expanded))

\* isExpanded / isCollapsed: the class of the plus/minus image
IsExpanded(pm) == expanded[pm]
IsCollapsed(pm) == ~expanded[pm]

-----------------------------------------------------------------------------
(***************************************************************************)
(* The DOM of the list frame, at element level, for the walkers of         *)
(* indexList.js.  An element is a record [k, n]: its kind and the entry it *)
(* belongs to; the body and the top UL belong to None.  The body holds the *)
(* top UL of keyword LIs; a keyword LI holds its plus/minus IMG, anchor A  *)
(* and UL of sub-entry LIs when it has sub-entries, else only its A; an A  *)
(* holds its text node.                                                    *)
(***************************************************************************)
SX == INSTANCE SequencesExt

El(kind, n) == [k |-> kind, n |-> n]
NoNode == El("null", None)
Body   == El("BODY", None)
A(n)   == El("A", n)

\* tagName; a text node has none (nodeType 3)
Tag(e) == IF e.k = "TXT" THEN "#text" ELSE e.k

\* childNodes
Kids(e) ==
  CASE e.k = "BODY"                -> <<El("UL", None)>>
    [] e.k = "UL" /\ e.n = None     -> [k \in Keywords |-> El("LI", <<k, 0>>)]
    [] e.k = "UL" /\ e.n # None     -> [j \in 1..Subs[e.n[1]] |-> El("LI", <<e.n[1], j>>)]
    [] e.k = "LI" /\ e.n \in Parents -> <<El("IMG", e.n), A(e.n), El("UL", e.n)>>
    [] e.k = "LI" /\ e.n \notin Parents -> <<A(e.n)>>
    [] e.k = "A"                    -> <<El("TXT", e.n)>>
    [] OTHER                        -> <<>>

\* parentNode
Up(e) ==
  CASE e.k = "BODY"                 -> NoNode
    [] e.k = "UL" /\ e.n = None      -> Body
    [] e.k = "LI" /\ e.n[2] = 0      -> El("UL", None)
    [] e.k = "LI" /\ e.n[2] # 0      -> El("UL", <<e.n[1], 0>>)
    [] e.k = "TXT"                   -> A(e.n)
    [] OTHER                         -> El("LI", e.n)

\* className of a UL when the plus/minus classes are exp: a keyword's UL
\* follows its plus/minus image
ClassName(exp, e) == IF e.k = "UL" /\ e.n # None
                     THEN IF exp[e.n] THEN "expanded" ELSE "collapsed"
                     ELSE ""

GetChildNode(p, tag) ==
  LET i == SX!SelectInSeq(Kids(p), LAMBDA c : Tag(c) = tag)
  IN IF i = 0 THEN NoNode ELSE Kids(p)[i]

RECURSIVE GetDescendantNode(_, _), FirstDescendantIn(_, _)
GetDescendantNode(p, tag) ==
  IF p = NoNode THEN NoNode
  ELSE IF Tag(p) = tag THEN p
  ELSE FirstDescendantIn(Kids(p), tag)

\* the for loop over childNodes: the first child that is, or holds, a tag
FirstDescendantIn(list, tag) ==
  IF list = <<>> THEN NoNode
  ELSE LET d == GetDescendantNode(Head(list), tag)
       IN IF d # NoNode THEN d ELSE FirstDescendantIn(Tail(list), tag)

Position(e) == SX!SelectInSeq(Kids(Up(e)), LAMBDA c : c = e)

GetNextSibling(e) ==
  IF Position(e) < Len(Kids(Up(e))) THEN Kids(Up(e))[Position(e) + 1] ELSE NoNode

GetPrevSibling(e) ==
  IF Position(e) > 1 THEN Kids(Up(e))[Position(e) - 1] ELSE NoNode

\* ulNext && ulNext.nodeType == 1 && ulNext.tagName == "UL"
IsUL(e) == e # NoNode /\ Tag(e) = "UL"

GetAnchorNode(node) ==
  CASE node.k = "TXT"   -> Up(node)
    [] node.k = "A"     -> node
    [] node.k = "IMG"   -> GetChildNode(Up(node), "A")
    [] OTHER            -> NoNode

\* the while loop of getNextDown: climb until an ancestor LI has a sibling
RECURSIVE ClimbToSibling(_)
ClimbToSibling(li) ==
  LET up == Up(Up(li))
  IN IF Tag(up) # "LI" THEN NoNode
     ELSE IF GetNextSibling(up) # NoNode THEN GetDescendantNode(GetNextSibling(up), "A")
     ELSE ClimbToSibling(up)

\* Fault variant: getNextDown enters the LI's UL without checking that it
\* is expanded.
GetNextDown_IgnoresUlClass(exp, node) ==
  LET a  == GetAnchorNode(node)
      li == Up(a)
      ul == GetChildNode(li, "UL")
  IN IF a = NoNode THEN NoNode
     ELSE IF ul # NoNode THEN GetDescendantNode(ul, "A")
     ELSE IF GetNextSibling(li) # NoNode THEN GetDescendantNode(GetNextSibling(li), "A")
     ELSE IF IsUL(GetNextSibling(Up(li))) THEN GetDescendantNode(GetNextSibling(Up(li)), "A")
     ELSE ClimbToSibling(li)

\* getNextDown: the first anchor of the LI's expanded UL, or of a UL that
\* follows a collapsed one; else of the next sibling LI; else of a UL that
\* follows the LI's own UL; else of the next sibling of an ancestor LI
GetNextDown(exp, node) ==
  LET a  == GetAnchorNode(node)
      li == Up(a)
      ul == GetChildNode(li, "UL")
  IN IF a = NoNode THEN NoNode
     ELSE IF ul # NoNode /\ ClassName(exp, ul) = "expanded" THEN GetDescendantNode(ul, "A")
     ELSE IF ul # NoNode /\ IsUL(GetNextSibling(ul)) THEN GetDescendantNode(GetNextSibling(ul), "A")
     ELSE IF GetNextSibling(li) # NoNode THEN GetDescendantNode(GetNextSibling(li), "A")
     ELSE IF IsUL(GetNextSibling(Up(li))) THEN GetDescendantNode(GetNextSibling(Up(li)), "A")
     ELSE ClimbToSibling(li)

\* the loops of getNextUp: walk getNextDown from the candidate until the
\* next one is null or the node itself
RECURSIVE LastBefore(_, _, _)
LastBefore(exp, c, node) ==
  IF GetNextDown(exp, c) \in {NoNode, node} THEN c ELSE LastBefore(exp, GetNextDown(exp, c), node)

\* getNextUp: the last anchor before the node from the previous sibling LI;
\* else from the first LI of an expanded UL before the LI's UL; else the
\* anchor of the parent LI, null at the top
GetNextUp(exp, node) ==
  LET a      == GetAnchorNode(node)
      li     == Up(a)
      ulPrev == GetPrevSibling(Up(li))
      parLi  == Up(Up(li))
  IN IF a = NoNode THEN NoNode
     ELSE IF GetPrevSibling(li) # NoNode
          THEN GetDescendantNode(LastBefore(exp, GetDescendantNode(GetPrevSibling(li), "A"), node), "A")
     ELSE IF IsUL(ulPrev) /\ ClassName(exp, ulPrev) = "expanded"
          THEN GetDescendantNode(LastBefore(exp, GetDescendantNode(GetChildNode(ulPrev, "LI"), "A"), node), "A")
     ELSE IF parLi # NoNode /\ Tag(parLi) = "LI" THEN GetDescendantNode(parLi, "A")
     ELSE NoNode

\* the entry of the anchor a walker returns, None for null
EntryOfNode(e) == IF e = NoNode THEN None ELSE e.n

\* The walkers read nothing but the classes of the ULs, so their results
\* from each anchor are tabulated once per expand state.
ExpandStates == [Parents -> BOOLEAN]
NextDownOf == [exp \in ExpandStates |-> [n \in Nodes |-> EntryOfNode(GetNextDown(exp, A(n)))]]
NextUpOf   == [exp \in ExpandStates |-> [n \in Nodes |-> EntryOfNode(GetNextUp(exp, A(n)))]]

\* getNextDown / getNextUp of an entry (null for null) on the current page
NextDown(n) == IF n = None THEN None ELSE NextDownOf[expanded][n]
NextUp(n)   == IF n = None THEN None ELSE NextUpOf[expanded][n]

\* getPlusMinus: the plus/minus image of the anchor's LI, found for the
\* anchor, its text or the image itself; None for an LI without one
GetPlusMinus(n) == IF n \in Parents THEN n ELSE None

\* expand: image and UL "expanded"; the UL has no id, so nothing is fetched
Expand(pm) == expanded' = [expanded EXCEPT ![pm] = TRUE]

\* collapse: image and UL "collapsed"
Collapse(pm) == expanded' = [expanded EXCEPT ![pm] = FALSE]

\* the id attribute of an anchor begins with "b" (the bookshelf test)
StartsWithB(n) == n[2] = 0 /\ Len(Ids[n[1]]) > 0 /\ Ids[n[1]][1] = 98

\* Fault variant: highlightTopic does not restore the previous anchor.
Highlight_NoRestore(k) ==
  /\ oldActive' = k
  /\ oldActiveClass' = aCls[k]
  /\ aCls' = [aCls EXCEPT ![k] = aCls[k] \o Active]

\* highlightTopic: restore the previous anchor, remember the new one and
\* its class, append " active"
Highlight(k) ==
  LET restored == IF oldActive = None THEN aCls ELSE [aCls EXCEPT ![oldActive] = oldActiveClass]
  IN /\ oldActive' = k
     /\ oldActiveClass' = restored[k]
     /\ aCls' = [restored EXCEPT ![k] = restored[k] \o Active]

\* selectTopicById(id) of indexList.js, through parent.selectTopicById:
\* highlight the keyword and put it at the top of the window
SelectTopicById(id) ==
  /\ Highlight(EntryOf(id))
  /\ ScrollToViewTop(EntryOf(id))

\* Fault variant: setTypeinValue writes the text but keeps currentId.
SetTypeinValue_KeepsCurrentId(k) ==
  IF typeinFrame
  THEN /\ value' = IF k[2] = 0 THEN Ids[k[1]] ELSE Labels[k]
       /\ previous' = value'
       /\ input' = "nav"
       /\ UNCHANGED currentId
  ELSE UNCHANGED <<value, previous, currentId, input>>

\* setTypeinValue(anchor): the anchor's id, or with no id its text and an
\* empty currentId, becomes the text and the previous text, so the next
\* poll sees no change
SetTypeinValue(k) ==
  IF typeinFrame
  THEN /\ value' = IF k[2] = 0 THEN Ids[k[1]] ELSE Labels[k]
       /\ previous' = value'
       /\ currentId' = IF k[2] = 0 THEN Ids[k[1]] ELSE Empty
       /\ input' = "nav"
  ELSE UNCHANGED <<value, previous, currentId, input>>

-----------------------------------------------------------------------------
(***************************************************************************)
(* Frame loads.                                                            *)
(***************************************************************************)

\* indexTypein.js onloadHandler: register, clear the box, start the timer
TypeinLoad ==
  /\ ~typeinFrame
  /\ typeinFrame' = TRUE
  /\ value' = Empty
  /\ previous' = Empty
  /\ currentId' = Empty
  /\ UNCHANGED <<displayed, listFrame, expanded, aCls, oldActive, oldActiveClass, listFocus, input,
                 pageTop>>

\* indexList.js onloadHandler: register, highlight the first anchor and
\* scroll it to the top
ListLoad ==
  /\ ~listFrame
  /\ Len(Ids) > 0
  /\ listFrame' = TRUE
  /\ Highlight(<<1, 0>>)
  /\ ScrollToViewTop(<<1, 0>>)
  /\ UNCHANGED <<displayed, typeinFrame, value, previous, currentId, expanded, listFocus, input>>

-----------------------------------------------------------------------------
(***************************************************************************)
(* The type-in frame.                                                      *)
(***************************************************************************)

\* The user edits the text; no handler runs until the next poll.
Type(v) ==
  /\ typeinFrame
  /\ v # value
  /\ value' = v
  /\ input' = "typed"
  /\ UNCHANGED <<displayed, typeinFrame, listFrame, previous, currentId, expanded, aCls,
                 oldActive, oldActiveClass, listFocus, pageTop>>

\* searchPattern: null while parent.listFrame is unset
SearchPattern(p) == IF listFrame THEN TA!FirstMatch(Ids, p) ELSE TA!NoId

\* Fault variant: the poll searches the text it saw last time.
IntervalHandler_SearchesPrevious ==
  LET id == SearchPattern(previous)
  IN /\ typeinFrame
     /\ value # previous
     /\ previous' = value
     /\ input' = IF listFrame THEN "searched" ELSE "blind"
     /\ IF id # TA!NoId /\ id # currentId
        THEN SelectTopicById(id) /\ currentId' = id
        ELSE UNCHANGED <<aCls, oldActive, oldActiveClass, currentId, pageTop>>
     /\ UNCHANGED <<displayed, typeinFrame, listFrame, value, expanded, listFocus>>

\* intervalHandler: on a changed text, remember it, search it, and select
\* the match through parent.selectTopicById unless it is currentId
IntervalHandler ==
  LET id == SearchPattern(value)
  IN /\ typeinFrame
     /\ value # previous
     /\ previous' = value
     /\ input' = IF listFrame THEN "searched" ELSE "blind"
     /\ IF id # TA!NoId /\ id # currentId
        THEN SelectTopicById(id) /\ currentId' = id
        ELSE UNCHANGED <<aCls, oldActive, oldActiveClass, currentId, pageTop>>
     /\ UNCHANGED <<displayed, typeinFrame, listFrame, value, expanded, listFocus>>

\* getSelection: the list's highlighted anchor, null before the list loads
GetSelection == IF listFrame THEN oldActive ELSE None

\* doDisplay: the content frame is replaced by the list's highlighted
\* entry, unless the list is not loaded or nothing is highlighted
DoDisplay ==
  IF listFrame /\ oldActive # None THEN displayed' = oldActive ELSE UNCHANGED displayed

\* Enter: setTypeinValue(getSelection()), which returns on null, then
\* doDisplay shows the entry in the content frame
TypeinEnter ==
  /\ typeinFrame
  /\ GetSelection # None
  /\ SetTypeinValue(GetSelection)
  /\ DoDisplay
  /\ UNCHANGED <<typeinFrame, listFrame, expanded, aCls, oldActive, oldActiveClass,
                 listFocus, pageTop>>

\* Fault variant: selectNextUp / selectNextDown without scrollIntoView.
SelectNext_NoScroll(next) ==
  /\ typeinFrame
  /\ listFrame
  /\ next # None
  /\ Highlight(next)
  /\ SetTypeinValue(next)
  /\ UNCHANGED <<displayed, typeinFrame, listFrame, expanded, listFocus, pageTop>>

\* Up / Down in the box: selectNextUp / selectNextDown from the highlight,
\* scrolled into view in the list
SelectNext(next) ==
  /\ typeinFrame
  /\ listFrame
  /\ next # None
  /\ Highlight(next)
  /\ SetTypeinValue(next)
  /\ UNCHANGED <<displayed, typeinFrame, listFrame, expanded, listFocus>>
  /\ ScrollIntoView(next)

TypeinUp   == SelectNext(NextUp(oldActive))
TypeinDown == SelectNext(NextDown(oldActive))

-----------------------------------------------------------------------------
(***************************************************************************)
(* The list frame.                                                         *)
(***************************************************************************)

\* the targets of a click: an anchor's text, or a plus/minus image
Targets == {El("TXT", n) : n \in {m \in Nodes : Shown(m)}}
             \cup {El("IMG", n) : n \in {m \in Parents : Shown(m)}}

\* the browser focuses a clicked link; a click on the image leaves the
\* focus where it was or on the body
ClickFocus(t) == IF t.k = "TXT" THEN {t.n} ELSE {listFocus, None}

\* mouseClickHandler: a collapsed image is expanded, an expanded one
\* collapsed only when it was the image clicked; then the anchor is
\* highlighted and copied to the box
ListClick(t) ==
  LET pm == GetPlusMinus(t.n)
  IN /\ listFrame
     /\ CASE pm = None            -> UNCHANGED expanded
          [] IsCollapsed(pm)      -> Expand(pm)
          [] t.k = "IMG"          -> Collapse(pm)
          [] OTHER                -> UNCHANGED expanded
     /\ Highlight(t.n)
     /\ SetTypeinValue(t.n)
     /\ listFocus' \in ClickFocus(t)
     /\ pageTop' = Reflowed
     /\ UNCHANGED <<typeinFrame, listFrame>>
     /\ displayed' = IF t.k = "TXT" THEN t.n ELSE displayed

\* keyDownHandler Down / Up on the focused anchor
ListKey(next) ==
  /\ listFrame
  /\ listFocus # None
  /\ next # None
  /\ Highlight(next)
  /\ SetTypeinValue(next)
  /\ listFocus' = next
  /\ pageTop' \in PS(DocH(expanded))!FocusScroll(OffsetTop(next, expanded),
                                                    OffsetHeight(next, expanded), pageTop)
  /\ UNCHANGED <<displayed, typeinFrame, listFrame, expanded>>

ListDown == ListKey(NextDown(listFocus))
ListUp   == ListKey(NextUp(listFocus))

\* keyDownHandler Right: expand the focused entry's image if collapsed and
\* highlight the entry; nothing for an entry without the image
ListRight ==
  LET pm == GetPlusMinus(listFocus)
  IN /\ listFrame
     /\ pm # None
     /\ IF IsCollapsed(pm) THEN Expand(pm) ELSE UNCHANGED expanded
     /\ Highlight(pm)
     /\ ScrollIntoView(listFocus)
     /\ UNCHANGED <<displayed, typeinFrame, listFrame, value, previous, currentId, listFocus, input>>

\* keyDownHandler Left: return on an anchor whose id begins with "b";
\* otherwise collapse the focused entry's image if expanded and highlight
\* the entry
ListLeft ==
  LET pm == GetPlusMinus(listFocus)
  IN /\ listFrame
     /\ listFocus # None
     /\ ~StartsWithB(listFocus)
     /\ pm # None
     /\ IF IsExpanded(pm) THEN Collapse(pm) ELSE UNCHANGED expanded
     /\ Highlight(pm)
     /\ ScrollIntoView(listFocus)
     /\ UNCHANGED <<displayed, typeinFrame, listFrame, value, previous, currentId, listFocus, input>>

\* keyDownHandler returns true for every key but the arrows, so Enter on
\* the focused anchor is left to the browser, which follows the link into
\* the content frame
ListEnter ==
  /\ listFrame
  /\ listFocus # None
  /\ displayed' = listFocus
  /\ UNCHANGED <<typeinFrame, listFrame, value, previous, currentId, expanded, aCls,
                 oldActive, oldActiveClass, listFocus, input, pageTop>>

\* the user moves the list frame's scroll bar
ScrollPage(p) ==
  /\ pageTop' = p
  /\ UNCHANGED <<displayed, typeinFrame, listFrame, value, previous, currentId, expanded, aCls,
                 oldActive, oldActiveClass, listFocus, input>>

-----------------------------------------------------------------------------
Init ==
  /\ typeinFrame = FALSE
  /\ listFrame = FALSE
  /\ value = Empty
  /\ previous = Empty
  /\ currentId = Empty
  /\ expanded \in [Parents -> BOOLEAN]
  /\ aCls = [n \in Nodes |-> ""]
  /\ oldActive = None
  /\ oldActiveClass = ""
  /\ listFocus = None
  /\ input = "nav"
  /\ pageTop = 0
  /\ displayed = None

Next ==
  \/ TypeinLoad
  \/ ListLoad
  \/ \E v \in Patterns : Type(v)
  \/ IntervalHandler
  \/ TypeinEnter
  \/ TypeinUp
  \/ TypeinDown
  \/ \E t \in Targets : ListClick(t)
  \/ ListDown
  \/ ListUp
  \/ ListRight
  \/ ListLeft
  \/ ListEnter
  \/ \E p \in 0..PS(DocH(expanded))!MaxTop : ScrollPage(p)

\* Page loads complete and the 200 ms timer keeps firing; the user is free.
Spec == Init /\ [][Next]_vars
          /\ WF_vars(TypeinLoad) /\ WF_vars(ListLoad) /\ WF_vars(IntervalHandler)

-----------------------------------------------------------------------------
TypeOK ==
  /\ typeinFrame \in BOOLEAN /\ listFrame \in BOOLEAN
  /\ value \in Patterns \cup {Ids[k] : k \in Keywords} \cup {Labels[n] : n \in SubEntries}
  /\ previous \in Patterns \cup {Ids[k] : k \in Keywords} \cup {Labels[n] : n \in SubEntries}
  /\ currentId \in {Empty} \cup {Ids[k] : k \in Keywords}
  /\ expanded \in [Parents -> BOOLEAN]
  /\ aCls \in [Nodes -> {"", Active}]
  /\ oldActive \in {None} \cup Nodes
  /\ oldActiveClass \in {"", Active}
  /\ listFocus \in {None} \cup Nodes
  /\ input \in {"nav", "typed", "searched", "blind"}
  /\ pageTop \in 0..PS(DocH(expanded))!MaxTop
  /\ displayed \in {None} \cup Nodes

(***************************************************************************)
(* The index list implements the Selection Tracker of spec section 4.3,    *)
(* whichever of the click, the four arrow keys of the list, the Up/Down    *)
(* keys of the box or the type-in poll calls highlightTopic: read through  *)
(* the anchors' classes, each step is a complete setActive (the old entry  *)
(* restored, the new one marked " active" and remembered in oldActive) or  *)
(* leaves the selection alone.                                             *)
(***************************************************************************)
Sel == INSTANCE SelectionTracker
         WITH Nodes <- Nodes, NoNode <- None, active <- oldActive,
              marked <- {n \in Nodes : aCls[n] # ""}

SelectionRefined == Sel!Spec

\* the keyword anchor whose id is the text, or None
KeywordWithId(id) == IF \E k \in Keywords : Ids[k] = id THEN EntryOf(id) ELSE None

(***************************************************************************)
(* currentId, the type-in frame's record of what it selected, names the   *)
(* highlighted entry (or is ""): every path that moves the highlight after *)
(* both frames have loaded also updates currentId, so the poll's           *)
(* "id != currentId" test never skips a selection that is needed.          *)
(***************************************************************************)
CurrentIdTracksSelection ==
  typeinFrame /\ currentId # Empty => oldActive = KeywordWithId(currentId)

(***************************************************************************)
(* Once the poll has looked at text the user typed, with the list frame    *)
(* loaded, the highlighted entry is the first keyword the text is a        *)
(* case-insensitive prefix of (when there is one).                         *)
(***************************************************************************)
TypedTextSelected ==
  (/\ typeinFrame /\ listFrame /\ input = "searched"
   /\ TA!FirstMatch(Ids, value) # TA!NoId)
    => oldActive = EntryOf(TA!FirstMatch(Ids, value))

(***************************************************************************)
(* indexTypein.js:100-103, "Select the corresponding item in the index     *)
(* list on typein value change": whatever the order the frames loaded in, *)
(* once the poll has seen the typed text, the list shows its first match.  *)
(***************************************************************************)
TypedTextAlwaysSelected ==
  (/\ typeinFrame /\ listFrame /\ input \in {"searched", "blind"}
   /\ TA!FirstMatch(Ids, value) # TA!NoId)
    => oldActive = EntryOf(TA!FirstMatch(Ids, value))

(***************************************************************************)
(* What the type-in frame selects in the list, the poll through            *)
(* selectTopicById (scrollToViewTop) and the box's Up/Down keys through    *)
(* selectNextUp/Down (scrollIntoView), ends up inside the list's window,   *)
(* wherever the user had scrolled the list and whichever keywords are      *)
(* expanded above it.                                                      *)
(***************************************************************************)
TypeinSelectionShown ==
  [][oldActive' # oldActive /\ (IntervalHandler \/ \E next \in Nodes : SelectNext(next)) =>
       PS(DocH(expanded'))!InView(OffsetTop(oldActive', expanded'), 1, pageTop')]_vars

\* the shown anchors next to n in document order
NextVisible(n) ==
  LET S == {m \in Nodes : Before(n, m) /\ Displayed(m)}
  IN IF S = {} THEN None ELSE CHOOSE m \in S : \A o \in S \ {m} : Before(m, o)
PrevVisible(n) ==
  LET S == {m \in Nodes : Before(m, n) /\ Displayed(m)}
  IN IF S = {} THEN None ELSE CHOOSE m \in S : \A o \in S \ {m} : Before(o, m)

(***************************************************************************)
(* Spec section 2, nextVisible/previous: from every shown entry, the       *)
(* getNextDown and getNextUp of indexList.js (which the Up/Down keys of    *)
(* both frames call) give the next and previous shown entry in document    *)
(* order, whichever keywords are expanded, so the keys never skip a shown  *)
(* sub-entry or step into a collapsed one.                                 *)
(***************************************************************************)
NavigationFollowsVisibleOrder ==
  \A n \in Nodes : Displayed(n) =>
    /\ NextDown(n) = NextVisible(n)
    /\ NextUp(n) = PrevVisible(n)

=============================================================================
