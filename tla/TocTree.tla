------------------------------- MODULE TocTree -------------------------------
(***************************************************************************)
(* The table-of-contents tree of the help web application, as driven by    *)
(* advanced/toc.js (webapp 3.2.1).  The tree lives in the DOM of the TOC   *)
(* frame: one LI per topic holding the plus/minus IMG, the anchor A (whose *)
(* text is a TXT node) and, for a container, a UL of the child LIs.  The   *)
(* script keeps no model of its own: every handler reads and writes        *)
(* className attributes of those elements and walks the DOM.  This module  *)
(* therefore models the DOM at element level and translates the script's   *)
(* walkers (getChildNode, getDescendantNode, getNextDown, getNextUp, ...)  *)
(* over it, so that they can be compared with the outline they render.     *)
(*                                                                         *)
(* Topics are numbered 1..N in document (pre-)order; par[n] is the parent  *)
(* topic, 0 for a top-level topic.  A "lazy" container was rendered with   *)
(* an empty UL carrying an id; expanding it points the hidden dynLoadFrame *)
(* at tocFragment.jsp, whose page inserts the children when it loads.      *)
(***************************************************************************)
EXTENDS Naturals, SequencesExt

CONSTANTS
  N,             \* number of topics in the outline
  DynLoadFrame,  \* the TOC page has the hidden dynLoadFrame (toc.js:228)
  QueryInHref,   \* the TOC page URL carries a query string (toc.js:231)
  WinH           \* window.innerHeight, in rows of one topic each

ASSUME N \in Nat \ {0}
ASSUME DynLoadFrame \in BOOLEAN /\ QueryInHref \in BOOLEAN
\* getVerticalScroll keeps a margin of one row on Mozilla: a window of a
\* single row would make it scroll back and forth
ASSUME WinH \in Nat /\ WinH >= 2

Nodes == 1..N

VARIABLES
  par,            \* outline shape rendered by the server, fixed per page
  lazy,           \* containers rendered with an empty, id-carrying UL
  loaded,         \* lazy containers whose fragment has been inserted
  imgCls,         \* className of each topic's plus/minus IMG
  ulCls,          \* className of each container's UL
  aCls,           \* className of each topic's anchor
  oldActive,      \* toc.js oldActive: the highlighted anchor, or null
  oldActiveClass, \* toc.js oldActiveClass: its class before highlighting
  focus,          \* element holding keyboard focus: the target of keydown
  dynLoad,        \* topic whose fragment dynLoadFrame is loading, or 0
  pageTop         \* window.pageYOffset of the TOC frame, in rows

vars == <<par, lazy, loaded, imgCls, ulCls, aCls, oldActive, oldActiveClass,
          focus, dynLoad, pageTop>>

-----------------------------------------------------------------------------
(***************************************************************************)
(* Outline shapes.  A shape is a parent function in which the topics are   *)
(* numbered in pre-order: the parent of topic k is 0 or k-1 or one of the  *)
(* ancestors of k-1.                                                       *)
(***************************************************************************)
RECURSIVE AncestorsIn(_, _)
AncestorsIn(f, n) == IF f[n] = 0 THEN {} ELSE {f[n]} \cup AncestorsIn(f, f[n])

Shapes == {f \in [Nodes -> 0..N] :
             \A k \in Nodes : f[k] \in {0} \cup (IF k = 1 THEN {}
                                                  ELSE {k-1} \cup AncestorsIn(f, k-1))}

Ancestors(n) == AncestorsIn(par, n)
Containers   == {par[m] : m \in Nodes} \ {0}

-----------------------------------------------------------------------------
(***************************************************************************)
(* DOM elements.  An element is a record [k, n]: its kind and its topic.   *)
(* null is NoNode; the document body holds the top UL (topic 0).           *)
(***************************************************************************)
El(k, n) == [k |-> k, n |-> n]
NoNode   == El("null", 0)
Body     == El("BODY", 0)
LI(n)  == El("LI", n)
IMG(n) == El("IMG", n)
A(n)   == El("A", n)
TXT(n) == El("TXT", n)
UL(n)  == El("UL", n)

\* tagName; a text node has none (nodeType 3)
Tag(e) == IF e.k = "TXT" THEN "#text" ELSE e.k

\* A lazy container keeps an empty UL with an id until its fragment loads.
HasId(n) == n \in lazy \ loaded
InDom(n) == \A m \in Ancestors(n) : ~HasId(m)

\* childNodes, as tocView.jsp renders them and tocFragment.jsp fills them
Kids(e) ==
  LET ch == SetToSortSeq({m \in Nodes : par[m] = e.n}, <)
  IN CASE e.k = "BODY" -> <<UL(0)>>
       [] e.k = "UL"   -> IF HasId(e.n) THEN <<>> ELSE [i \in DOMAIN ch |-> LI(ch[i])]
       [] e.k = "LI"   -> <<IMG(e.n), A(e.n)>> \o
                            (IF e.n \in Containers THEN <<UL(e.n)>> ELSE <<>>)
       [] e.k = "A"    -> <<TXT(e.n)>>
       [] OTHER        -> <<>>

\* parentNode
Up(e) == CASE e.k = "BODY"            -> NoNode
           [] e.k = "UL" /\ e.n = 0   -> Body
           [] e.k = "LI"              -> UL(par[e.n])
           [] e.k = "TXT"             -> A(e.n)
           [] OTHER                   -> LI(e.n)

ClassName(e) == CASE e.k = "IMG" -> imgCls[e.n]
                  [] e.k = "UL"  -> IF e.n = 0 THEN "expanded" ELSE ulCls[e.n]
                  [] e.k = "A"   -> aCls[e.n]
                  [] OTHER       -> ""

\* An element is rendered when no enclosing UL is display:none (collapsed).
Displayed(n) == InDom(n) /\ \A m \in Ancestors(n) : ulCls[m] = "expanded"

(***************************************************************************)
(* Page geometry.  Every rendered topic is one row of the page, in         *)
(* document order; an element that is not rendered has offsetTop and      *)
(* offsetHeight 0.  The page is as long as the rendered rows, and the      *)
(* browser keeps pageYOffset within it when a collapse shortens it.        *)
(***************************************************************************)
PS(docH) == INSTANCE PageScroll WITH DocH <- docH

DocH == Cardinality({m \in Nodes : Displayed(m)})
OffsetTop(n) == IF Displayed(n) THEN Cardinality({m \in Nodes : m < n /\ Displayed(m)}) ELSE 0
OffsetHeight(n) == IF Displayed(n) THEN 1 ELSE 0

\* the row of a topic shows in the window, so the mouse can reach it
Shown(n) == Displayed(n) /\ pageTop <= OffsetTop(n) /\ OffsetTop(n) < pageTop + WinH

\* pageYOffset once the browser has laid out the handler's changes
Reflowed == PS(DocH')!Clamp(pageTop)

\* scrollIntoView(node), on the layout the handler's changes left
ScrollIntoView(n) ==
  pageTop' = PS(DocH')!ScrollIntoView(OffsetTop(n)', OffsetHeight(n)', Reflowed)

-----------------------------------------------------------------------------
(***************************************************************************)
(* The DOM walkers of toc.js.                                              *)
(***************************************************************************)
GetChildNode(p, tag) ==
  LET i == SelectInSeq(Kids(p), LAMBDA c : Tag(c) = tag)
  IN IF i = 0 THEN NoNode ELSE Kids(p)[i]

RECURSIVE GetDescendantNode(_, _), FirstDescendantIn(_, _)
GetDescendantNode(p, tag) ==
  IF p = NoNode THEN NoNode
  ELSE IF Tag(p) = tag THEN p
  ELSE FirstDescendantIn(Kids(p), tag)

\* the for loop over childNodes: the first child that is, or holds, a tag
FirstDescendantIn(list, tag) ==
  IF list = <<>> THEN NoNode
  ELSE LET d == GetDescendantNode(Head(list), tag)
       IN IF d # NoNode THEN d ELSE FirstDescendantIn(Tail(list), tag)

Position(e) == SelectInSeq(Kids(Up(e)), LAMBDA c : c = e)

GetNextSibling(e) ==
  IF Position(e) < Len(Kids(Up(e))) THEN Kids(Up(e))[Position(e) + 1] ELSE NoNode

GetPrevSibling(e) ==
  IF Position(e) > 1 THEN Kids(Up(e))[Position(e) - 1] ELSE NoNode

GetAnchorNode(node) ==
  CASE node = NoNode    -> NoNode
    [] node.k = "TXT"   -> Up(node)
    [] node.k = "A"     -> node
    [] node.k = "IMG"   -> GetChildNode(Up(node), "A")
    [] OTHER            -> NoNode

IsPlusMinus(node) ==
  node.k = "IMG" /\ ClassName(node) \in {"expanded", "collapsed"}

GetPlusMinus(node) ==
  CASE IsPlusMinus(node)        -> node
    [] node.k \in {"TXT", "IMG"} -> GetChildNode(Up(Up(node)), "IMG")
    [] node.k = "A"             -> GetChildNode(Up(node), "IMG")
    [] OTHER                    -> NoNode

\* the while loop of getNextDown: climb until an ancestor LI has a sibling
RECURSIVE ClimbToSibling(_)
ClimbToSibling(li) ==
  LET up == Up(Up(li))
  IN IF Tag(up) # "LI" THEN NoNode
     ELSE IF GetNextSibling(up) # NoNode THEN GetDescendantNode(GetNextSibling(up), "A")
     ELSE ClimbToSibling(up)

\* Fault variant: getNextDown descends into a container's UL without
\* checking that it is expanded.
GetNextDown_IgnoresUlClass(node) ==
  LET a  == GetAnchorNode(node)
      li == Up(a)
      ul == GetChildNode(li, "UL")
  IN IF a = NoNode THEN NoNode
     ELSE IF ul # NoNode /\ GetDescendantNode(ul, "A") # NoNode THEN GetDescendantNode(ul, "A")
     ELSE IF GetNextSibling(li) # NoNode THEN GetDescendantNode(GetNextSibling(li), "A")
     ELSE ClimbToSibling(li)

GetNextDown(node) ==
  LET a  == GetAnchorNode(node)
      li == Up(a)
      ul == GetChildNode(li, "UL")
  IN IF a = NoNode THEN NoNode
     ELSE IF ul # NoNode /\ ClassName(ul) = "expanded" THEN GetDescendantNode(ul, "A")
     ELSE IF GetNextSibling(li) # NoNode THEN GetDescendantNode(GetNextSibling(li), "A")
     ELSE ClimbToSibling(li)

\* the candidate loop of getNextUp: walk down until the next one is node
RECURSIVE LastBefore(_, _)
LastBefore(candidate, node) ==
  LET nextDown == GetNextDown(candidate)
  IN IF nextDown = NoNode \/ nextDown = node THEN candidate
     ELSE LastBefore(nextDown, node)

GetNextUp(node) ==
  LET a   == GetAnchorNode(node)
      li  == Up(a)
      sib == GetPrevSibling(li)
  IN IF a = NoNode THEN NoNode
     ELSE IF sib # NoNode
          THEN GetDescendantNode(LastBefore(GetDescendantNode(sib, "A"), node), "A")
     ELSE IF Tag(Up(Up(li))) = "LI" THEN GetDescendantNode(Up(Up(li)), "A")
     ELSE NoNode

-----------------------------------------------------------------------------
(***************************************************************************)
(* State changes.  The classes written by expand/collapse and the          *)
(* dynLoadFrame location form the record st == [img, ul, dyn], so that     *)
(* expandPathTo, which expands several topics in one call, is a fold.     *)
(***************************************************************************)
Cls == [img |-> imgCls, ul |-> ulCls, dyn |-> dynLoad]

IsExpanded(st, pm)  == st.img[pm.n] = "expanded"
IsCollapsed(st, pm) == st.img[pm.n] = "collapsed"

\* Fault variant: collapse also closes every container below the topic.
Collapse_Subtree(st, pm) ==
  LET below == {m \in Containers : pm.n \in Ancestors(m)} \cup {pm.n}
  IN [st EXCEPT !.img = [m \in Nodes |-> IF m \in below THEN "collapsed" ELSE @[m]],
                !.ul  = [m \in Containers |-> IF m \in below THEN "collapsed" ELSE @[m]]]

\* Fault variant: collapse changes the image and leaves the UL shown.
Collapse_ImageOnly(st, pm) == [st EXCEPT !.img[pm.n] = "collapsed"]

Collapse(st, pm) ==
  LET ul == GetChildNode(Up(pm), "UL")
      st1 == [st EXCEPT !.img[pm.n] = "collapsed"]
  IN IF ul # NoNode THEN [st1 EXCEPT !.ul[pm.n] = "collapsed"] ELSE st1

\* expand: an id-carrying UL also sends dynLoadFrame to its fragment, unless
\* the page has no dynLoadFrame or no query string (early returns)
Expand(st, pm) ==
  LET ul  == GetChildNode(Up(pm), "UL")
      st1 == [st EXCEPT !.img[pm.n] = "expanded"]
      st2 == [st1 EXCEPT !.ul[pm.n] = "expanded"]
  IN IF ul = NoNode THEN st1
     ELSE IF HasId(pm.n) /\ DynLoadFrame /\ QueryInHref THEN [st2 EXCEPT !.dyn = pm.n]
     ELSE st2

RECURSIVE ExpandPathTo(_, _, _)
ExpandPathTo(st, node, inclusive) ==
  IF node.k = "A"
  THEN LET img == GetChildNode(Up(node), "IMG")
       IN IF img = NoNode THEN st ELSE ExpandPathTo(st, img, inclusive)
  ELSE LET st1 == IF inclusive /\ IsCollapsed(st, node) THEN Expand(st, node) ELSE st
           li  == Up(Up(Up(node)))
           img == GetChildNode(li, "IMG")
       IN IF li = NoNode \/ img = NoNode THEN st1 ELSE ExpandPathTo(st1, img, TRUE)

SetCls(st) == /\ imgCls' = st.img
              /\ ulCls' = st.ul
              /\ dynLoad' = st.dyn

\* Fault variant: highlightTopic remembers the anchor's class after it has
\* set it to "active".
Highlight_SavesClassAfterMark(topic) ==
  LET a        == GetAnchorNode(topic)
      restored == IF oldActive = NoNode THEN aCls
                  ELSE [aCls EXCEPT ![oldActive.n] = oldActiveClass]
  IN IF a = NoNode THEN UNCHANGED <<aCls, oldActive, oldActiveClass>>
     ELSE /\ oldActive' = a
          /\ oldActiveClass' = "active"
          /\ aCls' = [restored EXCEPT ![a.n] = "active"]

\* Fault variant: highlightTopic appends " active" to the anchor's class, as
\* indexList.js does, instead of replacing it.
Highlight_AppendsActive(topic) ==
  LET a        == GetAnchorNode(topic)
      restored == IF oldActive = NoNode THEN aCls
                  ELSE [aCls EXCEPT ![oldActive.n] = oldActiveClass]
  IN IF a = NoNode THEN UNCHANGED <<aCls, oldActive, oldActiveClass>>
     ELSE /\ oldActive' = a
          /\ oldActiveClass' = restored[a.n]
          /\ aCls' = [restored EXCEPT ![a.n] = restored[a.n] \o " active"]

\* highlightTopic: restore the previous anchor's class, remember the new
\* anchor and its class, mark it active
Highlight(topic) ==
  LET a        == GetAnchorNode(topic)
      restored == IF oldActive = NoNode THEN aCls
                  ELSE [aCls EXCEPT ![oldActive.n] = oldActiveClass]
  IN IF a = NoNode THEN UNCHANGED <<aCls, oldActive, oldActiveClass>>
     ELSE /\ oldActive' = a
          /\ oldActiveClass' = restored[a.n]
          /\ aCls' = [restored EXCEPT ![a.n] = "active"]

Unhighlighted == UNCHANGED <<aCls, oldActive, oldActiveClass>>

\* element.focus(): the browser moves focus only to a rendered element
\* and scrolls it into the window if it is outside
FocusOn(e) ==
  IF Displayed(e.n)
  THEN /\ focus' = e
       /\ pageTop' \in PS(DocH)!FocusScroll(OffsetTop(e.n), OffsetHeight(e.n), pageTop)
  ELSE UNCHANGED <<focus, pageTop>>

-----------------------------------------------------------------------------
(***************************************************************************)
(* Handlers.  A mouse event targets the plus/minus IMG or the text of a    *)
(* rendered topic; a key event targets the focused element.                *)
(***************************************************************************)
Targets == {IMG(n) : n \in {m \in Nodes : Shown(m)}}
             \cup {TXT(n) : n \in {m \in Nodes : Shown(m)}}

\* Clicking a link focuses its anchor; clicking the image may keep the focus
\* where it was or move it to the body, depending on the browser.
ClickFocus(t) == IF t.k = "TXT" THEN {A(t.n)} ELSE {focus, Body}

MouseClick(t) ==
  /\ IF IsPlusMinus(t)
     THEN /\ SetCls(IF IsCollapsed(Cls, t) THEN Expand(Cls, t) ELSE Collapse(Cls, t))
          /\ Unhighlighted
     ELSE /\ GetPlusMinus(t) # NoNode
          /\ Highlight(GetPlusMinus(t))
          /\ UNCHANGED <<imgCls, ulCls, dynLoad>>
  /\ focus' \in ClickFocus(t)
  /\ UNCHANGED <<par, lazy, loaded>>
  /\ pageTop' = Reflowed

MouseDblClick(t) ==
  LET pm == GetPlusMinus(t)
  IN /\ pm # NoNode
     /\ SetCls(CASE IsCollapsed(Cls, pm) -> Expand(Cls, pm)
                 [] IsExpanded(Cls, pm)  -> Collapse(Cls, pm)
                 [] OTHER                -> Cls)
     /\ Highlight(pm)
     /\ UNCHANGED <<par, lazy, loaded, focus>>
     /\ pageTop' = Reflowed

\* Fault variant: the Right arrow without its scrollIntoView(clickedNode).
KeyRight_NoScroll ==
  LET pm == GetPlusMinus(focus)
  IN /\ focus # Body
     /\ pm # NoNode
     /\ SetCls(IF IsCollapsed(Cls, pm) THEN Expand(Cls, pm) ELSE Cls)
     /\ Highlight(pm)
     /\ UNCHANGED <<par, lazy, loaded, focus, pageTop>>

\* Right arrow: expand the focused topic if collapsed, highlight it and
\* scroll the focused element into view
KeyRight ==
  LET pm == GetPlusMinus(focus)
  IN /\ focus # Body
     /\ pm # NoNode
     /\ SetCls(IF IsCollapsed(Cls, pm) THEN Expand(Cls, pm) ELSE Cls)
     /\ Highlight(pm)
     /\ UNCHANGED <<par, lazy, loaded, focus>>
     /\ ScrollIntoView(focus.n)

\* Left arrow: collapse the focused topic if expanded, highlight it and
\* scroll the focused element into view
KeyLeft ==
  LET pm == GetPlusMinus(focus)
  IN /\ focus # Body
     /\ pm # NoNode
     /\ SetCls(IF IsExpanded(Cls, pm) THEN Collapse(Cls, pm) ELSE Cls)
     /\ Highlight(pm)
     /\ UNCHANGED <<par, lazy, loaded, focus>>
     /\ ScrollIntoView(focus.n)

\* Down / Up arrow: move the focus to the next topic down / up
KeyDown ==
  /\ focus # Body
  /\ GetNextDown(focus) # NoNode
  /\ FocusOn(GetNextDown(focus))
  /\ UNCHANGED <<par, lazy, loaded, imgCls, ulCls, aCls, oldActive, oldActiveClass, dynLoad>>

KeyUp ==
  /\ focus # Body
  /\ GetNextUp(focus) # NoNode
  /\ FocusOn(GetNextUp(focus))
  /\ UNCHANGED <<par, lazy, loaded, imgCls, ulCls, aCls, oldActive, oldActiveClass, dynLoad>>

\* Fault variant: the scroll is computed on the layout before the path
\* to the topic was expanded.
SelectTopic_ScrollsOnOldLayout(n) ==
  /\ InDom(n)
  /\ SetCls(ExpandPathTo(Cls, A(n), FALSE))
  /\ Highlight(A(n))
  /\ pageTop' = PS(DocH)!ScrollIntoView(OffsetTop(n), OffsetHeight(n), pageTop)
  /\ UNCHANGED <<par, lazy, loaded, focus>>

\* selectTopic / selectTopicById, called from the content frame to
\* synchronise the tree: reveal the topic's anchor, highlight it and
\* scroll it into view
SelectTopic(n) ==
  /\ InDom(n)
  /\ SetCls(ExpandPathTo(Cls, A(n), FALSE))
  /\ Highlight(A(n))
  /\ UNCHANGED <<par, lazy, loaded, focus>>
  /\ ScrollIntoView(n)

\* the user moves the scroll bar
ScrollPage(p) ==
  /\ pageTop' = p
  /\ UNCHANGED <<par, lazy, loaded, imgCls, ulCls, aCls, oldActive, oldActiveClass,
                 focus, dynLoad>>

\* tocFragment.jsp finishes loading in dynLoadFrame and fills the UL
FragmentLoaded ==
  /\ dynLoad # 0
  /\ loaded' = loaded \cup {dynLoad}
  /\ dynLoad' = 0
  /\ UNCHANGED <<par, lazy, imgCls, ulCls, aCls, oldActive, oldActiveClass, focus, pageTop>>

-----------------------------------------------------------------------------
Init ==
  /\ par \in Shapes
  /\ lazy \in SUBSET Containers
  /\ loaded = {}
  /\ imgCls = [n \in Nodes |-> IF n \in Containers THEN "collapsed" ELSE "h"]
  /\ ulCls = [n \in Containers |-> "collapsed"]
  /\ aCls = [n \in Nodes |-> ""]
  /\ oldActive = NoNode
  /\ oldActiveClass = ""
  /\ focus = Body
  /\ dynLoad = 0
  /\ pageTop = 0

Next ==
  \/ \E t \in Targets : MouseClick(t)
  \/ \E t \in Targets : MouseDblClick(t)
  \/ KeyRight
  \/ KeyLeft
  \/ KeyDown
  \/ KeyUp
  \/ \E n \in Nodes : SelectTopic(n)
  \/ FragmentLoaded
  \/ \E p \in 0..PS(DocH)!MaxTop : ScrollPage(p)

\* Only the browser's loading of the fragment page is fair; the user may
\* stop at any time.
Spec == Init /\ [][Next]_vars /\ WF_vars(FragmentLoaded)

-----------------------------------------------------------------------------
TypeOK ==
  /\ par \in Shapes
  /\ lazy \subseteq Containers /\ loaded \subseteq lazy
  /\ imgCls \in [Nodes -> {"expanded", "collapsed", "h"}]
  /\ ulCls \in [Containers -> {"expanded", "collapsed"}]
  /\ aCls \in [Nodes -> {"", "active"}]
  /\ oldActive \in {NoNode} \cup {A(n) : n \in Nodes}
  /\ oldActiveClass \in {"", "active"}
  /\ focus \in {Body} \cup {A(n) : n \in Nodes}
  /\ dynLoad \in 0..N
  /\ pageTop \in 0..PS(DocH)!MaxTop

-----------------------------------------------------------------------------
(***************************************************************************)
(* The outline the walkers should follow: the rendered topics in document  *)
(* order, which is increasing topic number.                                *)
(***************************************************************************)
NextVisible(n) == LET S == {m \in Nodes : m > n /\ Displayed(m)}
                  IN IF S = {} THEN NoNode ELSE A(CHOOSE m \in S : \A k \in S : m <= k)
PrevVisible(n) == LET S == {m \in Nodes : m < n /\ Displayed(m)}
                  IN IF S = {} THEN NoNode ELSE A(CHOOSE m \in S : \A k \in S : m >= k)

\* A rendered container is expanded but its fragment has not been inserted.
AwaitingFragment == \E n \in lazy \ loaded : Displayed(n) /\ ulCls[n] = "expanded"

(***************************************************************************)
(* The tree implements the Selection Tracker of spec section 4.3: read     *)
(* through the anchors' classes, every step is either a complete           *)
(* setActive (the old anchor unmarked, the new one marked and remembered   *)
(* in oldActive) or leaves the selection alone, across clicks, arrow keys, *)
(* collapses that hide the highlighted topic, fragment loads and           *)
(* synchronisation from the content frame.                                 *)
(***************************************************************************)
Sel == INSTANCE SelectionTracker
         WITH Nodes <- {A(n) : n \in Nodes}, NoNode <- NoNode, active <- oldActive,
              marked <- {A(n) : n \in {m \in Nodes : aCls[m] = "active"}}

SelectionRefined == Sel!Spec

(***************************************************************************)
(* The tree implements the outline of spec section 8, read through the    *)
(* plus/minus images: every step expands one topic, collapses one topic,  *)
(* expands the missing ancestors of one topic (expandPathTo from           *)
(* selectTopic), or leaves every image alone.  A collapse therefore keeps *)
(* the expanded state of the topics below it, which a later expand shows  *)
(* again, and selectTopic never opens the topic itself.                   *)
(***************************************************************************)
Out == INSTANCE Outline
         WITH Nodes <- Nodes, parent <- par,
              expanded <- {n \in Containers : imgCls[n] = "expanded"}

OutlineRefined == Out!Spec

(***************************************************************************)
(* The rows the page displays are the outline the images describe: a      *)
(* topic in the DOM is displayed exactly when every ancestor's image shows *)
(* it expanded, so collapse and expand, which write the image and the UL  *)
(* in separate statements guarded by a UL lookup, never leave a minus sign *)
(* over hidden children or a plus sign over shown ones.                   *)
(***************************************************************************)
DisplayMatchesOutline ==
  \A n \in Nodes : InDom(n) => (Displayed(n) <=> Out!Visible(n))

(***************************************************************************)
(* Whenever no expanded topic is waiting for its fragment, the Down and Up *)
(* arrows (getNextDown, getNextUp) move from every rendered topic to the   *)
(* next and previous rendered topic in document order, and find none only *)
(* at the ends of the tree.                                                *)
(***************************************************************************)
NavigationFollowsVisibleOrder ==
  ~AwaitingFragment =>
    \A n \in Nodes : Displayed(n) =>
      /\ GetNextDown(A(n)) = NextVisible(n)
      /\ GetNextUp(A(n)) = PrevVisible(n)

(***************************************************************************)
(* selectTopic, which the content frame calls to synchronise the tree,     *)
(* leaves the topic rendered (all its ancestors expanded by expandPathTo), *)
(* highlighted, and inside the window, wherever the tree was scrolled and  *)
(* however much the expansion moved the rows below the expanded topics.   *)
(***************************************************************************)
SelectTopicReveals ==
  [][\A n \in Nodes :
       SelectTopic(n) => /\ Displayed(n)'
                         /\ oldActive' = A(n)
                         /\ PS(DocH')!InView(OffsetTop(n)', 1, pageTop')]_vars

(***************************************************************************)
(* The Right and Left arrows expand or collapse the focused topic and      *)
(* scroll it into view: after either, a focused topic that is rendered is *)
(* inside the window, even when the user had scrolled it out of sight or  *)
(* the collapse shortened the page under the window.                      *)
(***************************************************************************)
KeyScrollShowsFocus ==
  [][(KeyRight \/ KeyLeft) /\ Displayed(focus.n) =>
       PS(DocH')!InView(OffsetTop(focus.n)', 1, pageTop')]_vars

(***************************************************************************)
(* Spec section 8: repeatedly applying nextVisible from the first topic    *)
(* enumerates every rendered topic, that is getNextDown always yields the  *)
(* next rendered topic, whatever fragments are still loading.              *)
(***************************************************************************)
NextDownEnumeratesVisible ==
  \A n \in Nodes : Displayed(n) => GetNextDown(A(n)) = NextVisible(n)

(***************************************************************************)
(* Spec section 4.1/5: a lazy container the user expands gets its children *)
(* once the fragment page has loaded, unless the user collapses it again.  *)
(***************************************************************************)
ExpandedEventuallyFilled ==
  \A n \in Nodes :
    (n \in lazy \ loaded /\ ulCls[n] = "expanded")
      ~> (n \in loaded \/ (n \in lazy /\ ulCls[n] = "collapsed"))

=============================================================================
