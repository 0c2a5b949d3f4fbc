--------------------------- MODULE MCQueryRewrite ---------------------------
EXTENDS QueryRewrite

(* No definition tells two written names apart. *)
Symmetry == Permutations(Base)
=============================================================================
