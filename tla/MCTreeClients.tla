--------------------------- MODULE MCTreeClients ---------------------------
(* Three callers that keep the ownership convention: one that moves nodes  *)
(* at will, one that builds, hashes and copies, and the optimizer rule     *)
(* with its journal.                                                       *)
EXTENDS MCExprTree, ExprJournal

CONSTANTS
    n1, n2, n3,   \* the nodes the caller constructs
    n4, n5, n6    \* the nodes copy() constructs, in this order

Source == {n1, n2, n3}
Destination == <<n4, n5, n6>>

VARIABLE client

SourceSymmetry == Permutations(Source)

MCNode == Source \cup Range(Destination)

(* Fresh nodes are told apart by nothing but the order they are taken in.  *)
InOrder(A) == \E k \in 0..Len(Destination) : A = {Destination[i] : i \in 1..k}

CInit == JInit /\ client \in {"moves", "copies", "journal"}

CNext ==
    /\ UNCHANGED client
    /\ \/ client = "moves" /\ Next /\ alloc' \subseteq Source /\ UNCHANGED jvars
       \/ /\ client = "copies" /\ UNCHANGED jvars
          /\ \/ Building /\ alloc' \subseteq Source /\ text' \in [Node -> {Nil, "a"}]
             \/ Hashing
             \/ Copying /\ InOrder(alloc' \ Source)
       \/ client = "journal" /\ JNext /\ alloc' \subseteq Source

CSpec == CInit /\ [][CNext]_<<allVars, client>>
=============================================================================
