------------------------------- MODULE Outline -------------------------------
(***************************************************************************)
(* The collapsible outline of spec sections 2 and 8, the contract the TOC *)
(* tree implements: a node is visible when every ancestor is expanded;    *)
(* collapsing a node hides its descendants, and expanding it restores     *)
(* them "without losing previously-expanded sub-state", because only the  *)
(* node's own state changes.  Revealing a node (expandPathTo) expands the *)
(* ancestors it lacks and nothing else.                                    *)
(***************************************************************************)
CONSTANT
  Nodes    \* the nodes of the outline

VARIABLES
  parent,  \* parent[n]: n's parent, or a value outside Nodes for a root;
           \* the shape the page was rendered with, which no step changes
  expanded \* the nodes shown expanded

RECURSIVE AncestorsOf(_)
AncestorsOf(n) ==
  IF parent[n] \in Nodes THEN {parent[n]} \cup AncestorsOf(parent[n]) ELSE {}

\* the nodes that have children, and so an expand/collapse affordance
Containers == {parent[n] : n \in Nodes} \cap Nodes

Visible(n) == AncestorsOf(n) \subseteq expanded

Init == expanded \subseteq Containers

Expand(n)   == expanded' = expanded \cup {n}
Collapse(n) == expanded' = expanded \ {n}
RevealPath(n) == expanded' = expanded \cup AncestorsOf(n)

Next == /\ \/ \E n \in Containers : Expand(n) \/ Collapse(n)
           \/ \E n \in Nodes : RevealPath(n)
        /\ UNCHANGED parent

Spec == Init /\ [][Next]_<<parent, expanded>>

=============================================================================
