------------------------- MODULE LatticeConstraint -------------------------
(***************************************************************************)
(* Patterns over the paths of a lattice (tetengo::lattice::constraint). A  *)
(* pattern is matched from its end against a path that is given last node  *)
(* first, so that the tail of a path can be refused before the rest of the *)
(* path is known.                                                          *)
(***************************************************************************)
EXTENDS Lattice

NodeElement(node) == [kind |-> "node", node |-> node]

\* The nodes back to the one whose preceding step is given.
Wildcard(step) == [kind |-> "wildcard", step |-> step]

\* Negative: no match. 0: the node matches and the element is used up. Positive:
\* the nodes before it may match the element, too. (The code subtracts the steps
\* as unsigned numbers and converts to int; the greatest std::size_t, the
\* preceding step of the BOS node, becomes negative by that. Here it is NoStep.)
ElementMatch(element, node) ==
    IF element.kind = "node"
      THEN IF SameNode(node, element.node) THEN 0 ELSE -1
      ELSE IF node.preceding < element.step THEN -1 ELSE node.preceding - element.step

Mismatch == -1

\* How many elements are left behind a node, of those that were left before it.
LeftAfter(pattern, left, node) ==
    IF left \in {Mismatch, 0} THEN left
    ELSE LET match == ElementMatch(pattern[left], node)
         IN  IF match < 0 THEN Mismatch ELSE IF match = 0 THEN left - 1 ELSE left

LeftBehind(pattern, reversePath) ==
    LET left[k \in 0..Len(reversePath)] ==
          IF k = 0 THEN Len(pattern) ELSE LeftAfter(pattern, left[k - 1], reversePath[k])
    IN  left

\* matches_impl(): how many elements of the pattern are left, or Mismatch.
Remaining(pattern, reversePath) == LeftBehind(pattern, reversePath)[Len(reversePath)]

Matches(pattern, reversePath) == Remaining(pattern, reversePath) = 0

\* Variant: the tail has to match the whole pattern.
MatchesTailWholly(pattern, reverseTail) == Remaining(pattern, reverseTail) = 0

MatchesTail(pattern, reverseTail) == Remaining(pattern, reverseTail) # Mismatch
=============================================================================
