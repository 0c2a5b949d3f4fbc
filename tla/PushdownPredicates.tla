------------------------- MODULE PushdownPredicates -------------------------
(***************************************************************************)
(* pushdown_predicates (src/optimizer/pushdown_predicates.js): predicates  *)
(* of the WHERE move to the ON of the join they belong to, or into the     *)
(* SELECT they filter; then predicates of each ON move into its SELECT.    *)
(* Where one predicate goes does not depend on the others, so each phase   *)
(* is one step.  The SELECTs inside have one table, so that their own turn *)
(* only tidies their WHERE.                                                *)
(***************************************************************************)
EXTENDS JoinQueries

(* simplify() of a condition of such predicates: no TRUE beside others, no *)
(* predicate and no block that another one implies.  The disjuncts come    *)
(* out in the order of their text; they are taken to be in that order.     *)
Absorbed(p) == Part(p, {k \in DOMAIN p : ~\E i \in DOMAIN p : p[i] \subseteq p[k] /\ p[i] # p[k]})
Simplified(c) ==
    LET d == {Absorbed(p) : p \in c \ {True}}
        e == {p \in d : ~\E o \in d : Range(o) \subseteq Range(p) /\ Range(o) # Range(p)}
    IN  IF e = {} THEN {True} ELSE e

(* In DNF and not in CNF: one disjunction, with an AND in it. *)
DnfOnly(c) == \E p \in c : c = {p} /\ Len(p) > 1 /\ \E i \in DOMAIN p : Cardinality(p[i]) > 1

(***************************************************************************)
(* The sources a predicate may go to.                                      *)
(***************************************************************************)
(* Scope.selectedSources: all but the named right sides of SEMI and ANTI.  *)
Selected(q) ==
    {x \in Aliases(q) : LET it == q.items[ItemOf(q, x)]
                        IN  ~(SemiOrAnti(it) /\ it.source.form \in {"table", "cte"})}

(* With a RIGHT join only its own source: the first in the order of        *)
(* Scope.references, tables before derived tables.                         *)
WhereSources(q) ==
    LET named == {i \in DOMAIN q.items : q.items[i].source.form \in {"table", "cte"}}
        right == {i \in 2..Len(q.items) : /\ q.items[i].side = "RIGHT"
                                          /\ q.items[i].alias \in Selected(q)}
    IN  IF right = {} THEN Selected(q)
        ELSE {q.items[Min(IF right \cap named # {} THEN right \cap named ELSE right)].alias}

RefCount(q, source) == Cardinality({i \in DOMAIN q.items : q.items[i].source = source})

(* A SELECT that keeps its rows apart may be filtered below its outputs.   *)
Pushable(q, it) ==
    LET body == BodyOf(q, it)
    IN  /\ body.form = "select"
        /\ body.is.group = {} /\ ~body.is.limit /\ ~HasWindow(body.is)
        /\ it.source.form = "cte" => RefCount(q, it.source) < 2

(* Mutant of Blocks: a join with a side is a join like any other. *)
SidesIgnored(q, x) == ItemOf(q, x) = 1 /\ q.items[1].source.form # "table" /\ q.recursive

(* nodes_for_predicate, for a predicate of the WHERE: a source with a side *)
(* blocks all of them, unless it is a RIGHT join's subquery.               *)
Blocks(q, x) ==
    LET i == ItemOf(q, x)
        it == q.items[i]
    IN  \/ i = 1 /\ it.source.form # "table" /\ q.recursive
        \/ i > 1 /\ it.side # "" /\ ~(it.side = "RIGHT" /\ it.source.form # "table")

Node(at, alias) == [at |-> at, alias |-> alias]

WhereNodes(q, tables) ==
    LET known == tables \cap WhereSources(q)
        joined == {x \in known : ItemOf(q, x) > 1 /\ q.items[ItemOf(q, x)].side = ""}
        filtered == {x \in known \ joined : /\ tables = {x}
                                            /\ q.items[ItemOf(q, x)].source.form # "table"
                                            /\ Pushable(q, q.items[ItemOf(q, x)])}
    IN  IF \E x \in known : Blocks(q, x) THEN {}
        ELSE {Node("join", x) : x \in joined} \cup {Node("select", x) : x \in filtered}

(* ... and for one of an ON clause: only into the join's own SELECT.       *)
OnNodes(q, it, tables) ==
    {Node("select", x) : x \in {x \in {it.alias} \cap Selected(q) :
                                  tables = {x} /\ it.source.form = "select" /\ Pushable(q, it)}}

(* A join takes a predicate when the other tables in it come before.       *)
Earlier(q, x, tables) == \A y \in tables \ {x} : ItemOf(q, y) < ItemOf(q, x)

(***************************************************************************)
(* What goes where.  nodes tells where a predicate about a set of tables   *)
(* may go; push is a set of nodes, each with a condition to add.           *)
(***************************************************************************)
Conjuncts(p) == IF Len(p) = 1 THEN {<<{l}>> : l \in p[1]} ELSE {p}

(* pushdown_cnf: a predicate goes to one place and leaves TRUE behind.     *)
TargetsOf(q, p, nodes) ==
    {n \in nodes[PredicateTables(p)] :
        n.at = "join" => Earlier(q, n.alias, PredicateTables(p))}

PushCnf(q, c, nodes) ==
    LET moved == {p \in c : TargetsOf(q, p, nodes) # {}}
    IN  [left |-> IF moved = {} THEN c ELSE (c \ moved) \cup {True},
         push |-> UNION {TargetsOf(q, p, nodes) \X {{p}} : p \in moved}]

(* pushdown_dnf: a table in all blocks takes the blocks that may go to it, *)
(* if the last block may; the condition stays.                             *)
PushDnf(q, p, nodes) ==
    LET common == {x \in PredicateTables(p) : \A i \in DOMAIN p : x \in BlockTables(p[i])}
        part(x) == Part(p, {k \in DOMAIN p : \E n \in nodes[BlockTables(p[k])] : n.alias = x})
        targets == {n \in nodes[BlockTables(p[Len(p)])] :
                      /\ n.alias \in common
                      /\ n.at = "join" => Earlier(q, n.alias, PredicateTables(part(n.alias)))}
    IN  [left |-> {p}, push |-> {<<n, Conjuncts(part(n.alias))>> : n \in targets}]

Push(q, c, nodes) ==
    LET s == Simplified(c)
    IN  IF c = {} THEN [left |-> c, push |-> {}]
        ELSE IF DnfOnly(s) THEN PushDnf(q, CHOOSE p \in s : TRUE, nodes)
        ELSE PushCnf(q, s, nodes)

(***************************************************************************)
(* Where it arrives.                                                       *)
(***************************************************************************)
(* replace_aliases: outputs become what they stand for; a predicate on an  *)
(* aggregate goes to the HAVING.                                           *)
Inside(s, p) ==
    [i \in DOMAIN p |->
       {[l EXCEPT !.left = s.out[@[2]], !.right = s.out[@[2]]] : l \in p[i]}]

(* Mutant of AddWhere: the outputs' names are taken for columns. *)
AddUnrenamed(s, c) ==
    LET plain(p) == [i \in DOMAIN p |->
                       {[l EXCEPT !.left = Col(@[2]), !.right = Col(@[2])] : l \in p[i]}]
    IN  [s EXCEPT !.where = @ \cup {plain(p) : p \in c}]

AddWhere(s, c) ==
    LET inner == {Inside(s, p) : p \in c}
        onAggregate(p) == \E l \in Literals(p) : \E e \in ColumnsOf(l) : e.fn = "max"
        having == {p \in inner : onAggregate(p)}
    IN  [s EXCEPT !.where = @ \cup (inner \ having), !.having = @ \cup having]

AddBody(source, c) == IF c = {} THEN source ELSE [source EXCEPT !.is = AddWhere(@, c)]

Apply(q, push) ==
    LET for(at, x) == UNION {n[2] : n \in {n \in push : n[1] = Node(at, x)}}
        cteOf(name) == {it.alias : it \in {it \in Range(q.items) : it.source = CteSource(name)}}
        item(it) == [AddOn(it, for("join", it.alias)) EXCEPT
                       !.source = IF @.form = "select" THEN AddBody(@, for("select", it.alias)) ELSE @]
    IN  [q EXCEPT !.items = [i \in DOMAIN q.items |-> item(q.items[i])],
                  !.ctes = [n \in DOMAIN q.ctes |->
                              AddBody(q.ctes[n], UNION {for("select", x) : x \in cteOf(n)})]]

PushWhere(q) ==
    LET got == Push(q, q.where, [tables \in SUBSET Aliases(q) |-> WhereNodes(q, tables)])
    IN  [Apply(q, got.push) EXCEPT !.where = got.left]

PushOns(q) ==
    LET got(it) == IF it.side \in {"RIGHT", "FULL"} \/ it.alias \notin Selected(q)
                   THEN [left |-> it.on, push |-> {}]
                   ELSE Push(q, it.on, [tables \in SUBSET Aliases(q) |-> OnNodes(q, it, tables)])
        all == [i \in DOMAIN q.items |-> got(q.items[i])]
        s == Apply(q, UNION {all[i].push : i \in DOMAIN q.items})
    IN  [s EXCEPT !.items = [i \in DOMAIN q.items |-> [@[i] EXCEPT !.on = all[i].left]]]

Pushdown(q) == PushOns(PushWhere(q))
==============================================================================
