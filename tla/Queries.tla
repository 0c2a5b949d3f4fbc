------------------------------ MODULE Queries ------------------------------
(***************************************************************************)
(* Queries as the optimizer sees them (src/optimizer/scope.js): a tree of  *)
(* SELECTs and set operations that hold one another as CTEs, operands,     *)
(* derived tables and subqueries of a WHERE clause, and the scopes that    *)
(* buildScope() finds in it.  Columns, joins' conditions and projections   *)
(* are left out: what is kept is which name means which query.             *)
(***************************************************************************)
EXTENDS Naturals, Integers, Sequences, FiniteSets, SequencesExt, FiniteSetsExt

CONSTANTS
    MaxQueries,   \* bound: queries in one tree
    MaxItems,     \* bound: items written in all the FROM clauses
    Base          \* names a user writes; the rules derive others from them

ASSUME QueriesAssumption ==
    /\ MaxQueries \in Nat \ {0} /\ MaxItems \in Nat

Query == 1..MaxQueries
Root == 1

(* A name is a written one with a suffix: helper.findNewName appends _2,   *)
(* _3 and so on; suffix 1 is the name as written.                          *)
Name == Base \X Nat
Written(b) == <<b, 1>>

(* Mutant of FindNewName: the name is not looked up. *)
NameAsGiven(taken, name) == name

FindNewName(taken, name) ==
    IF name \notin taken THEN name
    ELSE <<name[1], Min({i \in 2..(Cardinality(taken) + 2) : <<name[1], i>> \notin taken})>>

VARIABLES
    size,        \* how many queries there are
    with,        \* query -> its CTEs, each a name and a query
    recursive,   \* query -> its WITH clause says RECURSIVE
    from         \* query -> its items: tables, derived tables, and so on

tree == <<size, with, recursive, from>>

(***************************************************************************)
(* Items.  "table" and "semi" name something (semi: the right side of a    *)
(* SEMI or ANTI join); "derived", "where" and "branch" hold a query: in    *)
(* the FROM clause, in a WHERE clause, as an operand of a set operation.   *)
(***************************************************************************)
Table(kind, name, alias) == [kind |-> kind, name |-> name, alias |-> alias, query |-> 0]
Holder(kind, alias, q) == [kind |-> kind, name |-> alias, alias |-> alias, query |-> q]
NoAlias == <<"", 0>>

Items(q) == Range(from[q])
Held(q, kind) == LET xs == SelectSeq(from[q], LAMBDA x : x.kind = kind)
                 IN  [i \in DOMAIN xs |-> xs[i].query]
Ctes(q) == [i \in DOMAIN with[q] |-> with[q][i].query]
IsUnion(q) == \E x \in Items(q) : x.kind = "branch"

(* The scopes directly below a scope, in the order Scope.traverse() yields *)
(* them: CTEs, operands, derived tables, subqueries.                       *)
ChildScopes(q) ==
    Ctes(q) \o Held(q, "branch") \o Held(q, "derived") \o Held(q, "where")

(* Scope.traverse(): the scopes below q, itself last. *)
PostOrder ==
    LET order[q \in Query] ==
            FlattenSeq([i \in DOMAIN ChildScopes(q) |-> order[ChildScopes(q)[i]]]) \o <<q>>
    IN  order

(***************************************************************************)
(* Sources.  A name stands for the scope of a CTE, for the base branch of  *)
(* a recursive CTE while that is being traversed (a scope of its own that  *)
(* nothing else holds, here the CTE's query negated), or for a real table. *)
(***************************************************************************)
RealTable == 0

Overlay(f, g) == [x \in DOMAIN f \cup DOMAIN g |-> IF x \in DOMAIN g THEN g[x] ELSE f[x]]

(* _traverseCtes: what a query's CTEs from first to last are known by. *)
CteNames(q, last) ==
    [n \in {with[q][i].name : i \in 1..last} |->
        with[q][Max({i \in 1..last : with[q][i].name = n})].query]

(* Scope.branch: a child scope knows its parent's CTEs, a CTE those before *)
(* it, and in WITH RECURSIVE a set operation its own base branch.          *)
BranchSources(q, c, outer) ==
    IF c \notin Range(Ctes(q)) THEN Overlay(outer, CteNames(q, Len(with[q])))
    ELSE LET i == CHOOSE i \in DOMAIN with[q] : with[q][i].query = c
         IN  Overlay(Overlay(outer, CteNames(q, i - 1)),
                     IF recursive[q] /\ IsUnion(c) THEN [n \in {with[q][i].name} |-> -c]
                     ELSE <<>>)

(* The query a scope is found in, Scope.parent; none for the root. *)
Parent(q) ==
    LET holders == {p \in 1..size : q \in Range(ChildScopes(p))}
    IN  IF holders = {} THEN 0 ELSE CHOOSE p \in holders : TRUE

(* The cteSources of every scope, before its own CTEs are added. *)
CteSources ==
    LET outer[q \in Query] ==
            IF Parent(q) = 0 THEN <<>> ELSE BranchSources(Parent(q), q, outer[Parent(q)])
    IN  outer

(* Scope.sources of every scope, by alias (_traverseTables). *)
Sources ==
    LET known == CteSources
    IN  [q \in Query |->
            LET names == Overlay(known[q], CteNames(q, Len(with[q])))
                source(x) == IF x.kind = "derived" THEN x.query
                             ELSE IF x.name \in DOMAIN names THEN names[x.name]
                             ELSE RealTable
            IN  [a \in {x.alias : x \in {y \in Items(q) : y.kind \in {"table", "semi", "derived"}}} |->
                    source(CHOOSE x \in Items(q) : x.alias = a)]]

(* Scope.selectedSources: semi and anti joined tables are not selected.    *)
Selected(q) == {x.alias : x \in {y \in Items(q) : y.kind \in {"table", "derived"}}}
SemiJoined(q) == {x.alias : x \in {y \in Items(q) : y.kind = "semi"}}

-----------------------------------------------------------------------------
(***************************************************************************)
(* What a query means, stated without scopes: SQL's rule that a name is    *)
(* the CTE of the innermost WITH clause around it that defines the name    *)
(* before it, and a table otherwise.                                       *)
(***************************************************************************)
Below ==
    LET order == PostOrder
    IN  UNION {{<<q, x>> : x \in Range(order[q])} : q \in 1..size}

(* The CTEs of query h that may be named at query x. *)
InScope(below, h, x) ==
    {i \in DOMAIN with[h] :
        \/ x = h
        \/ \E y \in Items(h) : y.query # 0 /\ <<y.query, x>> \in below
        \/ \E j \in DOMAIN with[h] : j > i /\ <<with[h][j].query, x>> \in below
        \/ recursive[h] /\ IsUnion(with[h][i].query) /\ <<with[h][i].query, x>> \in below}

(* The query that name n stands for at query x, or RealTable. *)
Bound(below, x, n) ==
    LET binders == {h \in 1..size :
                      <<h, x>> \in below /\ \E i \in InScope(below, h, x) : with[h][i].name = n}
    IN  IF binders = {} THEN RealTable
        ELSE LET h == CHOOSE h \in binders : \A g \in binders : <<g, h>> \in below
             IN  with[h][CHOOSE i \in InScope(below, h, x) : with[h][i].name = n].query

(* The query with every name replaced by what it stands for; a recursive   *)
(* CTE within itself stays a name.                                         *)
Meanings ==
    LET below == Below
        meaning[q \in Query] ==
            [i \in DOMAIN from[q] |->
                LET x == from[q][i]
                    b == IF x.query # 0 THEN x.query ELSE Bound(below, q, x.name)
                IN  <<IF x.kind \in {"table", "derived"} THEN "from" ELSE x.kind,
                      x.alias,
                      CASE b = RealTable -> <<<<"real", x.name, <<>>>>>>
                        [] b # RealTable /\ <<b, q>> \in below -> <<<<"self", NoAlias, <<>>>>>>
                        [] OTHER -> meaning[b]>>]
    IN  meaning

(* The text of a query, which is what its hash and equals() compare. *)
TextsWith(clauses, flags) ==
    LET text[q \in Query] ==
            [with |-> [i \in DOMAIN clauses[q] |-> <<clauses[q][i].name, text[clauses[q][i].query]>>],
             recursive |-> flags[q],
             from |-> [i \in DOMAIN from[q] |->
                         LET x == from[q][i]
                         IN  <<x.kind, x.name, x.alias, IF x.query = 0 THEN <<>> ELSE text[x.query]>>]]
    IN  text
Texts == TextsWith(with, recursive)

=============================================================================
