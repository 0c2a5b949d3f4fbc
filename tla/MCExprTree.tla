----------------------------- MODULE MCExprTree -----------------------------
(* Small instances of ExprTree.                                            *)
EXTENDS ExprTree, FiniteSetsExt, TLC

MCText == {"A", "a"}
MCFold == [t \in Text |-> IF t = "A" THEN "a" ELSE t]
NodeSymmetry == Permutations(Node)

(* How deep a cached hash nests.  A node that is held by a second parent   *)
(* keeps an old hash, and hashing above it again nests it once more, so    *)
(* the unrestricted caller needs a bound on the nesting.                   *)
RECURSIVE Depth(_)
Depth(h) ==
    IF h = {} THEN 0
    ELSE LET d == CHOOSE d \in h : TRUE
         IN  1 + Max({Depth(d.this)} \cup {Depth(x) : x \in Range(d.exprs)})

(* The unrestricted caller within its bounds: no copy() between its        *)
(* mutations, and no hash nests deeper than a tree of all nodes would.     *)
SpecBounded ==
    Init /\ [][/\ Next
               /\ busy' # "copy"
               /\ \A n \in Node : Depth(hash'[n]) <= Cardinality(Node)]_vars
=============================================================================
