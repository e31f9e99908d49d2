--------------------------- MODULE SelectionTracker ---------------------------
(***************************************************************************)
(* The Selection Tracker of spec section 4.3, the contract the tree, the   *)
(* index list and the result list each implement: setActive(node) unmarks *)
(* the previously active node, marks node active and records it, in one    *)
(* call; only one node is active per view.  getActive() is active.         *)
(***************************************************************************)
CONSTANTS
  Nodes,   \* the nodes of one view
  NoNode   \* no active node yet

VARIABLES
  active,  \* getActive()
  marked   \* the nodes showing the active marker

Init ==
  /\ active = NoNode
  /\ marked = {}

\* setActive(node): the old node unmarked and the new one marked together
SetActive(n) ==
  /\ active' = n
  /\ marked' = {n}

Next == \E n \in Nodes : SetActive(n)

Spec == Init /\ [][Next]_<<active, marked>>

=============================================================================
