---------------------------- MODULE JoinQueries ----------------------------
(***************************************************************************)
(* One SELECT with its FROM and JOINs, and the rows it gives.  The join    *)
(* rules rewrite such queries; a rule is right if the rows stay.           *)
(*                                                                         *)
(* Every source has the columns in Cols.  An alias is a number, so that    *)
(* aliases are ordered as their names are; a value is a number, 0 is NULL. *)
(***************************************************************************)
EXTENDS Naturals, Integers, Sequences, FiniteSets, SequencesExt, FiniteSetsExt

CONSTANT Cols    \* columns of every table and subquery

ASSUME ColsAssumption == Cols # {}

NoTable == "no table"   \* a SELECT without a FROM
Null == 0
One == 1

(***************************************************************************)
(* Conditions.  A literal compares two columns ("eq"), or one with the     *)
(* constant One ("one") or with NULL ("null"); then left and right are the *)
(* same.  A block is a set of literals, all to hold; a predicate is a      *)
(* sequence of blocks, one to hold; a condition a set of predicates, all   *)
(* to hold.  No condition at all is {}.                                    *)
(***************************************************************************)
Lit(op, left, right) == [op |-> op, left |-> left, right |-> right]
True == <<{}>>

Literals(p) == UNION Range(p)
LiteralsOf(c) == UNION {Literals(p) : p \in c}
ColumnsOf(l) == {l.left, l.right}

(* A set of numbers in order, and the blocks of a predicate at some places. *)
Ascending(S) ==
    [k \in 1..Cardinality(S) |-> CHOOSE x \in S : Cardinality({y \in S : y <= x}) = k]
Part(p, places) == [k \in DOMAIN Ascending(places) |-> p[Ascending(places)[k]]]

(* exp.columnTableNames: the sources a predicate or condition mentions. *)
BlockTables(b) == {x[1] : x \in UNION {ColumnsOf(l) : l \in b}}
PredicateTables(p) == BlockTables(Literals(p))
TablesOf(c) == BlockTables(LiteralsOf(c))

(* A filter keeps what is TRUE; nothing is negated, so NULL is as FALSE.   *)
(* val gives the columns mentioned their values.                           *)
MentionedIn(c) == UNION {ColumnsOf(l) : l \in LiteralsOf(c)}
IsTrue(op, v, w) == v = (CASE op = "eq" -> w [] op = "one" -> One [] op = "null" -> Null)
                      /\ (op = "eq" => v # Null)
Holds(c, val) ==
    \A p \in c : \E i \in DOMAIN p : \A l \in p[i] : IsTrue(l.op, val[l.left], val[l.right])

(***************************************************************************)
(* Sources: a table, a CTE, a derived SELECT or UNION.  A SELECT has one   *)
(* table below it.  Its outputs are columns, MAX(column), MAX(column)      *)
(* OVER () and constants; its conditions are over such expressions.        *)
(***************************************************************************)
Expr(fn, arg) == [fn |-> fn, arg |-> arg]
Col(c) == Expr("column", c)

Select(table, out) ==
    [from |-> table, out |-> out, where |-> {}, group |-> {}, having |-> {},
     distinct |-> FALSE, limit |-> FALSE]

Source(form, is) == [form |-> form, is |-> is]
TableSource(t) == Source("table", t)
CteSource(name) == Source("cte", name)
Derived(s) == Source("select", s)
UnionOf(all, l, r) == Source("union", [all |-> all, left |-> l, right |-> r])

HasAgg(s) == \E c \in Cols : s.out[c].fn = "max"
HasWindow(s) == \E c \in Cols : s.out[c].fn = "over"

(***************************************************************************)
(* A query: its items, the first one FROM and the others JOINs; its CTEs;  *)
(* its WHERE; and the sources its select list uses.                        *)
(***************************************************************************)
Item(alias, side, kind, source, on) ==
    [alias |-> alias, side |-> side, kind |-> kind, source |-> source, on |-> on]
SemiOrAnti(it) == it.kind \in {"SEMI", "ANTI"}

ItemOf(q, x) == CHOOSE i \in DOMAIN q.items : q.items[i].alias = x
Aliases(q) == {q.items[i].alias : i \in DOMAIN q.items}
Others(it) == TablesOf(it.on) \ {it.alias}

(* Join.on(): a predicate makes a CROSS join an ordinary one.              *)
AddOn(it, c) ==
    [it EXCEPT !.on = @ \cup c, !.kind = IF c # {} /\ @ = "CROSS" THEN "" ELSE @]

(* What stands behind an item: the CTE it names, or what it holds itself. *)
BodyOf(q, it) == IF it.source.form = "cte" THEN q.ctes[it.source.is] ELSE it.source

(* The sources that may be named after item i: not those of a semi-join.   *)
Visible(q, i) ==
    {q.items[j].alias : j \in {j \in 1..i : ~SemiOrAnti(q.items[j])}}

WellFormed(q) ==
    /\ \A i \in 2..Len(q.items) : Others(q.items[i]) \subseteq Visible(q, i - 1)
    /\ q.uses \cup TablesOf(q.where) \subseteq Visible(q, Len(q.items))

------------------------------------------------------------------------------
(* Rows.  db gives every table its rows, each a value and a tag of its own, *)
(* so that sets of rows count like bags.                                    *)

Largest(S, c) == LET V == {r[1][c] : r \in S} \ {Null} IN IF V = {} THEN Null ELSE Max(V)

(* An expression for one group of rows among all that passed the WHERE.     *)
Value(e, group, all) ==
    CASE e.fn = "column" -> (CHOOSE r \in group : TRUE)[1][e.arg]
      [] e.fn = "max" -> Largest(group, e.arg)
      [] e.fn = "over" -> Largest(all, e.arg)
      [] e.fn = "const" -> e.arg

Passes(c, group, all) == Holds(c, [e \in MentionedIn(c) |-> Value(e, group, all)])

Groups(s, rows) ==
    CASE s.group # {} -> {{r \in rows : \A c \in s.group : r[1][c] = k[1][c]} : k \in rows}
      [] s.group = {} /\ HasAgg(s) -> {rows}
      [] s.group = {} /\ ~HasAgg(s) -> {{r} : r \in rows}

(* A row of a SELECT has its group for a tag; DISTINCT drops the tags. *)
Outputs(s, rows) ==
    {<<[c \in Cols |-> Value(s.out[c], g, rows)], IF s.distinct THEN {} ELSE g>> :
       g \in {g \in Groups(s, rows) : Passes(s.having, g, rows)}}

FirstOf(rows) == IF rows = {} THEN {} ELSE {CHOOSE r \in rows : TRUE}

SelectRows(s, table) ==
    LET all == Outputs(s, {r \in table : Passes(s.where, {r}, {r})})
    IN  IF s.limit THEN FirstOf(all) ELSE all

NoRow == <<[c \in Cols |-> Null], 0>>
TableRows(name, db) == IF name = NoTable THEN {NoRow} ELSE db[name]
Tagged(k, rows) == {<<r[1], <<k, r[2]>>>> : r \in rows}

(* The rows of every source, as UNIONs of one or two SELECTs. *)
Parts(source) ==
    CASE source.form = "select" -> <<source.is>>
      [] source.form = "union" -> <<source.is.left, source.is.right>>
RowsOf(source, db) ==
    IF source.form = "table" THEN db[source.is]
    ELSE LET parts == Parts(source)
             rows == UNION {Tagged(k, SelectRows(parts[k], TableRows(parts[k].from, db))) : k \in DOMAIN parts}
         IN  IF source.form = "union" /\ ~source.is.all THEN {<<r[1], 0>> : r \in rows} ELSE rows

(* A joined row gives every alias a set: its row, or {} where the join      *)
(* added NULLs.                                                             *)
Field(j, col) == IF j[col[1]] = {} THEN Null ELSE (CHOOSE r \in j[col[1]] : TRUE)[1][col[2]]
With(j, x, rows) == [y \in DOMAIN j \cup {x} |-> IF y = x THEN rows ELSE j[y]]

(* The rows that go with a joined row, by the ON. *)
Matches(l, it, rows) ==
    {r \in rows : Holds(it.on, [col \in MentionedIn(it.on) |-> Field(With(l, it.alias, {r}), col)])}

Combined(left, it, matches, unmatched, names) ==
    LET alone == {l \in left : matches[l] = {}}
    IN  CASE it.kind = "SEMI" -> left \ alone
          [] it.kind = "ANTI" -> alone
          [] ~SemiOrAnti(it) ->
               (UNION {{With(l, it.alias, {r}) : r \in matches[l]} : l \in left})
                 \cup {With(l, it.alias, {}) : l \in {l \in alone : it.side \in {"LEFT", "FULL"}}}
                 \cup {With([y \in names |-> {}], it.alias, {r}) :
                         r \in {r \in unmatched : it.side \in {"RIGHT", "FULL"}}}

JoinRows(left, it, rows, names) ==
    LET matches == [l \in left |-> Matches(l, it, rows)]
    IN  Combined(left, it, matches, rows \ UNION Range(matches), names)

ItemRows(q, i, db) == RowsOf(BodyOf(q, q.items[i]), db)
JoinedUpTo(q, db) ==
    LET joined[i \in DOMAIN q.items] ==
          IF i = 1 THEN {[x \in {q.items[1].alias} |-> {r}] : r \in ItemRows(q, 1, db)}
          ELSE JoinRows(joined[i - 1], q.items[i], ItemRows(q, i, db), Visible(q, i - 1))
    IN  joined
Joined(q, db) == JoinedUpTo(q, db)[Len(q.items)]

(* How often each value is shown, shown being a function. *)
BagOf(shown) == [v \in Range(shown) |-> Cardinality({j \in DOMAIN shown : shown[j] = v})]

(* The answer: how often every combination of the used sources' values     *)
(* comes out of the WHERE.                                                  *)
Kept(q, db) ==
    {j \in Joined(q, db) : Holds(q.where, [col \in MentionedIn(q.where) |-> Field(j, col)])}
Shown(q, j) == [x \in q.uses |-> [c \in Cols |-> Field(j, <<x, c>>)]]
Answer(q, db) == BagOf([j \in Kept(q, db) |-> Shown(q, j)])

(* A rewriting keeps the rows if it leaves a query, and one with as many   *)
(* of every row.                                                            *)
SameRows(q, r, dbs) == WellFormed(r) /\ \A db \in dbs : Answer(r, db) = Answer(q, db)
==============================================================================
