--------------------------- MODULE OptimizeJoins ---------------------------
(***************************************************************************)
(* optimize_joins (src/optimizer/optimize_joins.js): a join without        *)
(* condition takes the predicates about it out of later joins; joins are   *)
(* put in an order in which every ON comes after what it mentions; and     *)
(* the words of each join are made uniform.                                *)
(***************************************************************************)
EXTENDS JoinQueries

Joins(q) == 2..Len(q.items)

Reorderable(q) == \A i \in Joins(q) : q.items[i].side = ""

(* Each join without condition with the joins that mention it.  The pairs  *)
(* are found once, before anything moves.                                  *)
Dependents(q) ==
    {p \in Joins(q) \X Joins(q) :
       Others(q.items[p[1]]) = {} /\ q.items[p[1]].alias \in Others(q.items[p[2]])}

LeaveTrue(it, moved) == [it EXCEPT !.on = (@ \ moved) \cup {True}]

(* Mutant of Extract: an ANTI join is as any other. *)
ExtractAnti(q, i, d) ==
    LET moved == {p \in q.items[d].on : q.items[i].alias \in PredicateTables(p)}
    IN  IF Cardinality(q.items[d].on) < 2 \/ Cardinality(Others(q.items[d])) < 2 \/ moved = {}
        THEN q
        ELSE [q EXCEPT !.items = [k \in DOMAIN @ |-> IF k = i THEN AddOn(@[k], moved)
                                                     ELSE IF k = d THEN LeaveTrue(@[k], moved) ELSE @[k]]]

(* Conjuncts about join i leave the ON of join d for the ON of i.  The ON  *)
(* of an ANTI join is negated as a whole; a single predicate is no conjunct.*)
Extract(q, i, d) ==
    LET moved == {p \in q.items[d].on : q.items[i].alias \in PredicateTables(p)}
    IN  IF \/ q.items[d].kind = "ANTI"
           \/ Cardinality(q.items[d].on) < 2 \/ Cardinality(Others(q.items[d])) < 2
           \/ moved = {}
        THEN q
        ELSE [q EXCEPT !.items = [k \in DOMAIN @ |-> IF k = i THEN AddOn(@[k], moved)
                                                     ELSE IF k = d THEN LeaveTrue(@[k], moved) ELSE @[k]]]

(* The pairs in the order of the joins without condition, then of the      *)
(* joins that mention them.                                                *)
PairAt(q, k) == LET n == Len(q.items) IN <<((k - 1) \div n) + 1, ((k - 1) % n) + 1>>

ExtractedAfter(q) ==
    LET after[k \in 0..(Len(q.items) * Len(q.items))] ==
          IF k = 0 THEN q
          ELSE IF PairAt(q, k) \in Dependents(q)
               THEN Extract(after[k - 1], PairAt(q, k)[1], PairAt(q, k)[2])
               ELSE after[k - 1]
    IN  after
ExtractAll(q) == ExtractedAfter(q)[Len(q.items) * Len(q.items)]

(* helper.tsort: the names without open dependencies, level by level, each *)
(* level in the order of the names.  Cycle if there is none to go on with, *)
(* which leaves names over however long one goes on.                       *)
Cycle == <<0>>
Free(dag, open) == {x \in open : dag[x] \cap open = {}}
Levels(dag) ==
    LET level[k \in 0..Cardinality(DOMAIN dag)] ==
          IF k = 0 THEN [open |-> DOMAIN dag, sorted |-> <<>>]
          ELSE LET free == Free(dag, level[k - 1].open)
               IN  [open |-> level[k - 1].open \ free,
                    sorted |-> level[k - 1].sorted \o Ascending(free)]
    IN  level
TSort(dag) ==
    LET last == Levels(dag)[Cardinality(DOMAIN dag)]
    IN  IF last.open = {} THEN last.sorted ELSE Cycle

Order(q) ==
    LET first == q.items[1].alias
    IN  TSort([x \in Aliases(q) |-> IF x = first THEN {} ELSE Others(q.items[ItemOf(q, x)])])

(* reorder_joins, when there is an order: the first item stays the first.  *)
JoinOrder(q) ==
    LET order == Order(q)
    IN  RemoveAt(order, CHOOSE i \in DOMAIN order : order[i] = q.items[1].alias)
Reorder(q) ==
    [q EXCEPT !.items = <<@[1]>> \o [k \in DOMAIN JoinOrder(q) |-> @[ItemOf(q, JoinOrder(q)[k])]]]

(* normalize: no words at all, and CROSS, mean a join without condition;   *)
(* any other join has one.                                                 *)
Normalize(it) ==
    LET kind == IF it.on = {} /\ it.side = "" /\ it.kind = "" THEN "CROSS" ELSE it.kind
    IN  IF kind = "CROSS" THEN [it EXCEPT !.kind = kind, !.on = {}]
        ELSE [it EXCEPT !.kind = IF kind \in {"INNER", "OUTER"} THEN "" ELSE kind,
                        !.on = IF @ = {} THEN {True} ELSE @]

Extracted(q) == IF Reorderable(q) THEN ExtractAll(q) ELSE q
Ordered(q) == IF Reorderable(q) THEN Reorder(q) ELSE q
Normalized(q) ==
    [q EXCEPT !.items = [i \in DOMAIN q.items |-> IF i = 1 THEN @[i] ELSE Normalize(@[i])]]

RaisesCycle(q) == Reorderable(q) /\ Order(Extracted(q)) = Cycle
Optimize(q) == Normalized(Ordered(Extracted(q)))
==============================================================================
