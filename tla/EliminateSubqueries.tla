------------------------ MODULE EliminateSubqueries ------------------------
(***************************************************************************)
(* The rule that rewrites derived tables and nested CTEs as CTEs of the    *)
(* outermost query (src/optimizer/eliminate_subqueries.js).  The scopes    *)
(* are built once; then each scope is lifted in turn, one step per         *)
(* iteration of the rule's loops, and the new WITH clause is attached last.*)
(***************************************************************************)
EXTENDS Queries

VARIABLES
    work,        \* the scopes still to be visited, "lift" or "keep" each
    sources,     \* Scope.sources as buildScope() found them
    under,       \* Scope.traverse() of every scope as it was then
    holder,      \* Scope.parent: the query a scope was found in
    taken,       \* names no new CTE may have
    existing,    \* query of a CTE -> its text when it was entered, and its name
    newCtes      \* the WITH clause to be

lifting == <<work, sources, under, holder, taken, existing, newCtes>>

LiftIdle ==
    /\ work = <<>> /\ sources = <<>> /\ under = <<>> /\ holder = <<>>
    /\ taken = {} /\ existing = <<>> /\ newCtes = <<>>

Visit(what, qs) == [i \in DOMAIN qs |-> <<what, qs[i]>>]

(* The order of the loops: below each CTE, then the CTE itself; then below *)
(* and with operands, subqueries and derived tables.                       *)
LiftOrder(order) ==
    LET cte(c) == Visit("lift", Front(order[c])) \o <<<<"keep", c>>>>
        rest == Held(Root, "branch") \o Held(Root, "where") \o Held(Root, "derived")
    IN  FlattenSeq([i \in DOMAIN Ctes(Root) |-> cte(Ctes(Root)[i])])
        \o FlattenSeq([i \in DOMAIN rest |-> Visit("lift", order[rest[i]])])

(* The first of the queries with a text: a map keeps the key it has. *)
FirstWith(qs, texts, text) == qs[Min({i \in DOMAIN qs : texts[qs[i]] = text})]

LiftBegin ==
    LET order == PostOrder
        texts == Texts
        tables(q) == {x \in Items(q) : x.kind \in {"table", "semi"} /\ sources'[q][x.alias] = RealTable}
    IN  /\ work' = LiftOrder(order)
        /\ sources' = Sources
        /\ under' = order
        /\ holder' = [q \in Query |-> Parent(q)]
        /\ taken' = {with[Root][i].name : i \in DOMAIN with[Root]}
              \cup {x.name : x \in UNION {tables(q) : q \in Range(order[Root])}}
        /\ existing' = [c \in {c \in Range(Ctes(Root)) : c = FirstWith(Ctes(Root), texts, texts[c])} |->
              [text |-> texts[c],
               name |-> Last(SelectSeq(with[Root], LAMBDA w : texts[w.query] = texts[c])).name]]
        /\ newCtes' = <<>>

(***************************************************************************)
(* _new_cte: the name a query is lifted under.  An entry of the map is     *)
(* found when it was entered with the same text (the hash of its bucket)   *)
(* and its query still has that text (equals); a lift out of its query in  *)
(* between hides it.                                                       *)
(***************************************************************************)
NewCte(q, alias) ==
    LET texts == Texts
        equal == {c \in DOMAIN existing : existing[c].text = texts[q] /\ texts[c] = texts[q]}
    IN  [text |-> texts[q],
         duplicate |-> equal # {},
         name |-> IF equal # {} THEN existing[CHOOSE c \in equal : TRUE].name
                  ELSE FindNewName(taken, alias)]

Register(q, new) ==
    /\ taken' = taken \cup {new.name}
    /\ IF new.duplicate THEN UNCHANGED <<existing, newCtes>>
       ELSE /\ existing' = Overlay(existing, [c \in {q} |-> [text |-> new.text, name |-> new.name]])
            /\ newCtes' = Append(newCtes, [name |-> new.name, query |-> q])

(* _eliminate_derived_table: the item becomes a table of the CTE's name.   *)
LiftDerived(q, p) ==
    LET i == CHOOSE i \in DOMAIN from[p] : from[p][i].query = q
        alias == from[p][i].alias
        new == NewCte(q, alias)
    IN  /\ from' = [from EXCEPT ![p][i] = Table("table", new.name, alias)]
        /\ Register(q, new)
        /\ UNCHANGED with

(* The tables selected below p that are known to stand for CTE c. *)
Renamed(p, c, name) ==
    [q \in Query |->
        IF q \notin Range(under[p]) THEN from[q]
        ELSE [i \in DOMAIN from[q] |->
                LET x == from[q][i]
                IN  IF x.kind = "table" /\ sources[q][x.alias] = c
                    THEN Table("table", name, x.alias) ELSE x]]

(* _eliminate_cte: the CTE leaves its WITH clause, its references follow.  *)
LiftCte(c, p) ==
    LET i == CHOOSE i \in DOMAIN with[p] : with[p][i].query = c
        new == NewCte(c, with[p][i].name)
    IN  /\ with' = [with EXCEPT ![p] = RemoveAt(@, i)]
        /\ from' = Renamed(p, c, new.name)
        /\ Register(c, new)

Lift(q) ==
    LET p == holder[q]
    IN  \/ q \in Range(Held(p, "derived")) /\ LiftDerived(q, p)
        \/ q \in Range(Ctes(p)) /\ LiftCte(q, p)
        \/ /\ q \notin Range(Held(p, "derived") \o Ctes(p))
           /\ UNCHANGED <<with, from, taken, existing, newCtes>>

LiftStep ==
    /\ work # <<>>
    /\ work' = Tail(work)
    /\ \/ /\ Head(work)[1] = "keep"
          /\ newCtes' = Append(newCtes,
                          with[Root][CHOOSE i \in DOMAIN with[Root] : with[Root][i].query = Head(work)[2]])
          /\ UNCHANGED <<with, from, taken, existing>>
       \/ Head(work)[1] = "lift" /\ Lift(Head(work)[2])
    /\ UNCHANGED <<size, recursive, sources, under, holder>>

(* query.set("with_", ...), if there is anything to attach. *)
LiftEnd ==
    /\ work = <<>>
    /\ with' = IF newCtes = <<>> THEN with ELSE [with EXCEPT ![Root] = newCtes]
    /\ UNCHANGED <<size, recursive, from>>
    /\ work' = <<>> /\ sources' = <<>> /\ under' = <<>> /\ holder' = <<>>
    /\ taken' = {} /\ existing' = <<>> /\ newCtes' = <<>>
=============================================================================
