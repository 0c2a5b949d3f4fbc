--------------------------- MODULE EliminateCtes ---------------------------
(***************************************************************************)
(* The rule that drops the CTEs nothing refers to                          *)
(* (src/optimizer/eliminate_ctes.js): references are counted once, the     *)
(* scopes are visited in reverse, and the counts are lowered as CTEs go.   *)
(***************************************************************************)
EXTENDS Queries

VARIABLES
    visit,       \* the scopes still to be visited
    known,       \* Scope.sources as buildScope() found them
    refCount     \* scope -> how often it is counted as referenced

dropping == <<visit, known, refCount>>

DropIdle == visit = <<>> /\ known = <<>> /\ refCount = <<>>

(* Mutant of References: without the semi and anti joined tables.          *)
ReferencesSelected(found, scopes, s) ==
    Cardinality(UNION {{<<q, a>> : a \in {b \in Selected(q) : found[q][b] = s}} : q \in scopes})

(* Scope.refCount: selected sources, and semi and anti joined tables, which *)
(* are not selected but keep what they name.                               *)
References(found, scopes, s) ==
    Cardinality(UNION {{<<q, a>> : a \in {b \in Selected(q) \cup SemiJoined(q) : found[q][b] = s}}
                          : q \in scopes})

DropBegin ==
    LET order == PostOrder[Root]
    IN  /\ visit' = Reverse(order)
        /\ known' = Sources
        /\ refCount' = [s \in Query |-> References(known', Range(order), s)]

(* The query whose WITH clause holds CTE c now. *)
WithOf(c) == {p \in Query : c \in Range(Ctes(p))}

(* Mutant of Lowered: the counts stay. *)
NotLowered(q) == refCount

Lowered(q) ==
    [s \in Query |-> refCount[s] - Cardinality({a \in Selected(q) : known[q][a] = s})]

DropStep ==
    /\ visit # <<>>
    /\ visit' = Tail(visit)
    /\ LET q == Head(visit)
       IN  \/ /\ WithOf(q) # {} /\ refCount[q] <= 0
              /\ LET p == CHOOSE p \in WithOf(q) : TRUE
                 IN  with' = [with EXCEPT ![p] = SelectSeq(@, LAMBDA c : c.query # q)]
              /\ refCount' = Lowered(q)
           \/ /\ WithOf(q) = {} \/ refCount[q] > 0
              /\ UNCHANGED <<with, refCount>>
    /\ UNCHANGED <<size, recursive, from, known>>

DropEnd ==
    /\ visit = <<>>
    /\ visit' = <<>> /\ known' = <<>> /\ refCount' = <<>>
    /\ UNCHANGED tree
=============================================================================
