--------------------------- MODULE KeywordHighlight ---------------------------
(***************************************************************************)
(* Search-keyword highlighting of a content page, advanced/highlight.js    *)
(* (webapp 3.2.1).  highlight() is installed both as window.onload and as *)
(* document.onreadystatechange; a flag makes only the first call work.    *)
(* It walks the body once per keyword and replaces every text node that   *)
(* contains the keyword by a span holding the text before each occurrence, *)
(* a highlighting span around the occurrence, and the text after it.  On a *)
(* page of 50000 characters or more the walk is timed: it returns as soon  *)
(* as MAX_DURATION has passed since it started, checked after every child  *)
(* and after every keyword.                                                *)
(*                                                                         *)
(* The body is the sequence of its text nodes in document order, each with *)
(* its text (a string of code units) and whether it lies inside a          *)
(* highlighting span.  A replacement span sits where the text node was, so *)
(* in document order its pieces take the node's place.  The clock is one   *)
(* flag, set by a Tick at any moment of a timed walk.                      *)
(***************************************************************************)
EXTENDS Naturals, SequencesExt, FiniteSetsExt

CONSTANTS
  Text,            \* the body's text nodes, in document order
  Keywords,        \* the keywords array of the page
  EarlyReadyState  \* readystatechange may fire before document.body exists

TA == INSTANCE TypeAhead WITH ids <- <<>>, pattern <- <<>>, from <- 0, to <- 0,
                              i <- 0, phase <- "done", result <- <<>>,
                              Chars <- {}, MaxLen <- 0, MaxIds <- 0

ASSUME \A k \in DOMAIN Keywords : Len(Keywords[k]) > 0

VARIABLES
  body,         \* document.body exists
  loaded,       \* window.onload has fired
  highlighted,  \* the highlighted flag
  large,        \* document.body.innerHTML.length >= 50000
  expired,      \* the clock is past startTime + MAX_DURATION
  nodes,        \* the body's text nodes: [t |-> text, hl |-> inside a highlight]
  i,            \* the keyword loop index (1-based)
  p,            \* position of the next text node of the walk
  stage         \* "idle", "walk", "nobody" (returned at the body check),
                \* "complete", or "cut" (returned on the deadline)

vars == <<body, loaded, highlighted, large, expired, nodes, i, p, stage>>

Node(t, hl) == [t |-> t, hl |-> hl]

\* String.prototype.indexOf, 1-based, 0 for -1
IndexOf(s, w) ==
  LET at == {k \in 1..Len(s) : k + Len(w) - 1 <= Len(s) /\ SubSeq(s, k, k + Len(w) - 1) = w}
  IN IF at = {} THEN 0 ELSE Min(at)

HasWord(s, w) == IndexOf(TA!Lowered(s), w) # 0

-----------------------------------------------------------------------------
(***************************************************************************)
(* highlightWordInText: the loop that cuts the text at each occurrence.    *)
(***************************************************************************)

\* Fault variant: the highlighted piece is the lower-cased keyword rather
\* than the page's own text at the occurrence.
RECURSIVE Pieces_FromKeyword(_, _, _)
Pieces_FromKeyword(s, w, hl) ==
  LET idx == IndexOf(TA!Lowered(s), w)
  IN IF idx = 0 THEN << Node(s, hl) >>
     ELSE << Node(SubSeq(s, 1, idx - 1), hl), Node(w, TRUE) >>
          \o Pieces_FromKeyword(SubSeq(s, idx + Len(w), Len(s)), w, hl)

\* before, highlighted occurrence, ... , after
RECURSIVE Pieces(_, _, _)
Pieces(s, w, hl) ==
  LET idx == IndexOf(TA!Lowered(s), w)
  IN IF idx = 0 THEN << Node(s, hl) >>
     ELSE << Node(SubSeq(s, 1, idx - 1), hl), Node(SubSeq(s, idx, idx + Len(w) - 1), TRUE) >>
          \o Pieces(SubSeq(s, idx + Len(w), Len(s)), w, hl)

\* a text node without the word is left alone; one with it is replaced
HighlightWordInText(node, w) ==
  IF HasWord(node.t, w) THEN Pieces(node.t, w, node.hl) ELSE << node >>

-----------------------------------------------------------------------------
(***************************************************************************)
(* The page's events.                                                      *)
(***************************************************************************)

\* highlight(): the flag, set before the body check, then the walk
Highlight ==
  IF highlighted
  THEN UNCHANGED <<highlighted, expired, i, p, stage>>
  ELSE /\ highlighted' = TRUE
       /\ IF body
          THEN stage' = "walk" /\ i' = 1 /\ p' = 1 /\ expired' = FALSE
          ELSE stage' = "nobody" /\ UNCHANGED <<expired, i, p>>

\* the parser reaches <body>
ParseBody ==
  /\ ~body
  /\ body' = TRUE
  /\ UNCHANGED <<loaded, highlighted, large, expired, nodes, i, p, stage>>

\* document.onreadystatechange = highlight
ReadyStateChange ==
  /\ ~loaded
  /\ stage # "walk"
  /\ body \/ EarlyReadyState
  /\ Highlight
  /\ UNCHANGED <<body, loaded, large, nodes>>

\* onload = highlight
Onload ==
  /\ ~loaded
  /\ body
  /\ stage # "walk"
  /\ loaded' = TRUE
  /\ Highlight
  /\ UNCHANGED <<body, large, nodes>>

\* new Date().getTime() passes startTime + MAX_DURATION
Tick ==
  /\ stage = "walk"
  /\ large
  /\ ~expired
  /\ expired' = TRUE
  /\ UNCHANGED <<body, loaded, highlighted, large, nodes, i, p, stage>>

-----------------------------------------------------------------------------
(***************************************************************************)
(* The walk: highlightWordInNode(Timed) and the keyword loop of highlight. *)
(***************************************************************************)

\* the deadline check of the timed walk (highlight.js:35 and :56)
CheckDeadline(continue) ==
  IF large /\ expired THEN stage' = "cut" /\ UNCHANGED <<i, p>> ELSE continue

\* Fault variant: the loop over the children skips the sibling after a
\* replaced text node.
Visit_SkipsSibling ==
  LET pcs == HighlightWordInText(nodes[p], TA!Lowered(Keywords[i]))
  IN /\ stage = "walk"
     /\ i <= Len(Keywords)
     /\ p <= Len(nodes)
     /\ nodes' = SubSeq(nodes, 1, p - 1) \o pcs \o SubSeq(nodes, p + 1, Len(nodes))
     /\ CheckDeadline(p' = p + Len(pcs) + (IF Len(pcs) > 1 THEN 1 ELSE 0) /\ UNCHANGED <<i, stage>>)
     /\ UNCHANGED <<body, loaded, highlighted, large, expired>>

\* Fault variant: the child loop advances twice per child.
Visit_DoubleStep ==
  LET pcs == HighlightWordInText(nodes[p], TA!Lowered(Keywords[i]))
  IN /\ stage = "walk"
     /\ i <= Len(Keywords)
     /\ p <= Len(nodes)
     /\ nodes' = SubSeq(nodes, 1, p - 1) \o pcs \o SubSeq(nodes, p + 1, Len(nodes))
     /\ CheckDeadline(p' = p + Len(pcs) + 1 /\ UNCHANGED <<i, stage>>)
     /\ UNCHANGED <<body, loaded, highlighted, large, expired>>

\* one text node of the walk for keyword i, then the check after the child
Visit ==
  LET pcs == HighlightWordInText(nodes[p], TA!Lowered(Keywords[i]))
  IN /\ stage = "walk"
     /\ i <= Len(Keywords)
     /\ p <= Len(nodes)
     /\ nodes' = SubSeq(nodes, 1, p - 1) \o pcs \o SubSeq(nodes, p + 1, Len(nodes))
     /\ CheckDeadline(p' = p + Len(pcs) /\ UNCHANGED <<i, stage>>)
     /\ UNCHANGED <<body, loaded, highlighted, large, expired>>

\* the body has been walked for keyword i: check, then the next keyword
NextKeyword ==
  /\ stage = "walk"
  /\ i <= Len(Keywords)
  /\ p > Len(nodes)
  /\ CheckDeadline(i' = i + 1 /\ p' = 1 /\ UNCHANGED stage)
  /\ UNCHANGED <<body, loaded, highlighted, large, expired, nodes>>

\* the keyword loop ends
Finish ==
  /\ stage = "walk"
  /\ i > Len(Keywords)
  /\ stage' = "complete"
  /\ UNCHANGED <<body, loaded, highlighted, large, expired, nodes, i, p>>

-----------------------------------------------------------------------------
Init ==
  /\ body = FALSE
  /\ loaded = FALSE
  /\ highlighted = FALSE
  /\ large \in BOOLEAN
  /\ expired = FALSE
  /\ nodes = [k \in DOMAIN Text |-> Node(Text[k], FALSE)]
  /\ i = 1
  /\ p = 1
  /\ stage = "idle"

Next ==
  \/ ParseBody \/ ReadyStateChange \/ Onload \/ Tick
  \/ Visit \/ NextKeyword \/ Finish

\* The parser and the load event progress, and a handler, once running,
\* runs to its end; the clock need not reach the deadline.
Spec == Init /\ [][Next]_vars
          /\ WF_vars(ParseBody) /\ WF_vars(Onload)
          /\ WF_vars(Visit \/ NextKeyword \/ Finish)

-----------------------------------------------------------------------------
TextOf(ns) == FlattenSeq([k \in DOMAIN ns |-> ns[k].t])

TypeOK ==
  /\ body \in BOOLEAN /\ loaded \in BOOLEAN /\ highlighted \in BOOLEAN
  /\ large \in BOOLEAN /\ expired \in BOOLEAN
  /\ \A k \in DOMAIN nodes : nodes[k].hl \in BOOLEAN
  /\ i \in 1..Len(Keywords) + 1
  /\ p \in 1..Len(nodes) + 1
  /\ stage \in {"idle", "walk", "nobody", "complete", "cut"}

(***************************************************************************)
(* highlightWordInText only regroups the page's text: reading the text     *)
(* nodes in document order always gives the original text, whatever was   *)
(* highlighted, in what case, and for how many overlapping keywords.       *)
(***************************************************************************)
TextPreserved == TextOf(nodes) = FlattenSeq(Text)

\* every text node containing keyword w is a highlight of exactly w
Covered(w) ==
  \A k \in DOMAIN nodes :
    HasWord(nodes[k].t, w) => nodes[k].hl /\ TA!Lowered(nodes[k].t) = w

(***************************************************************************)
(* The walk, timed or not, and however the deadline cuts it, leaves every  *)
(* keyword before the current one fully highlighted: no text node outside *)
(* a highlight still contains it.  A slip in the child loop of             *)
(* highlightWordInNode(Timed), whose replacement span keeps the number of *)
(* children, would leave an occurrence behind.                             *)
(***************************************************************************)
PassedKeywordsHighlighted ==
  stage \in {"walk", "complete", "cut"} =>
    \A j \in 1..(i - 1) : Covered(TA!Lowered(Keywords[j]))

(***************************************************************************)
(* The page always gets its highlighting pass: onload or readystatechange *)
(* eventually runs the walk, and the walk ends (complete or cut).          *)
(***************************************************************************)
HighlightRuns == <>(stage \in {"complete", "cut"})

=============================================================================
