--------------------------- MODULE AtomicPublication ---------------------------
(***************************************************************************)
(* What publishing promises every reader, with no transactions in it: a    *)
(* publication's packages appear all together, whole, at most once, and    *)
(* never change (README.md, "lands whole, in order, or not at all").       *)
(***************************************************************************)
CONSTANTS
    Publications,   \* publications anybody may attempt
    Content         \* Content[p]: the content of each of p's packages, in order

VARIABLE board      \* the packages readers can see

PackagesOf(p) == {[pub |-> p, index |-> i, content |-> Content[p][i]] : i \in DOMAIN Content[p]}

OnBoard(p) == \E m \in board : m.pub = p

Init == board = {}

\* One transaction lands, with the packages of one or more publications.
Publish(ps) ==
    /\ \A p \in ps : ~OnBoard(p)
    /\ board' = board \cup UNION {PackagesOf(p) : p \in ps}

Next == \E ps \in (SUBSET Publications) \ {{}} : Publish(ps)

Spec == Init /\ [][Next]_board
=============================================================================
