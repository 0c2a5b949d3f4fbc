----------------------------- MODULE JoinRules -----------------------------
(***************************************************************************)
(* The rules on joins in the order of RULES (src/optimizer/optimizer.js):  *)
(* predicates are pushed down, joins put in order, joins nobody needs      *)
(* dropped.  A caller may leave out any of them.                           *)
(***************************************************************************)
EXTENDS PushdownPredicates, OptimizeJoins, EliminateJoins

CONSTANTS
    Families,    \* sets of queries to start from
    Databases    \* the databases on which answers are compared

(***************************************************************************)
(* What every query has, as written and as each rule leaves it: items that *)
(* begin with one to select from, each with an alias of its own, over      *)
(* tables that every database has.                                         *)
(***************************************************************************)
TableNames == {t \in UNION {DOMAIN db : db \in Databases} : \A db \in Databases : t \in DOMAIN db}
SelectShaped(s) ==
    /\ s = [from |-> s.from, out |-> s.out, where |-> s.where, group |-> s.group, having |-> s.having,
            distinct |-> s.distinct, limit |-> s.limit]
    /\ s.from = NoTable \/ s.from \in TableNames
    /\ s.distinct \in BOOLEAN /\ s.limit \in BOOLEAN
    /\ \A c \in Cols : s.out[c].fn \in {"column", "max", "over", "const"}
BodyShaped(body) ==
    /\ body = Source(body.form, body.is)
    /\ \/ body.form = "select" /\ SelectShaped(body.is)
       \/ /\ body.form = "union" /\ body.is.all \in BOOLEAN
          /\ body.is = [all |-> body.is.all, left |-> body.is.left, right |-> body.is.right]
          /\ SelectShaped(body.is.left) /\ SelectShaped(body.is.right)
SourceShaped(q, source) ==
    \/ \E t \in TableNames : source = TableSource(t)
    \/ \E name \in DOMAIN q.ctes : source = CteSource(name)
    \/ BodyShaped(source)
ItemShaped(q, it) ==
    /\ it = Item(it.alias, it.side, it.kind, it.source, it.on)
    /\ it.alias \in Nat \ {0} /\ (it.kind = "CROSS" => it.on = {})
    /\ SourceShaped(q, it.source)
Shaped(q) ==
    /\ q = [items |-> q.items, where |-> q.where, uses |-> q.uses, recursive |-> q.recursive, ctes |-> q.ctes]
    /\ q.items \in Seq(Range(q.items)) /\ q.items # <<>> /\ ~SemiOrAnti(q.items[1])
    /\ \A i \in DOMAIN q.items : ItemShaped(q, q.items[i])
    /\ \A i, j \in DOMAIN q.items : q.items[i].alias = q.items[j].alias => i = j
    /\ \A name \in DOMAIN q.ctes : BodyShaped(q.ctes[name])

(* As a query is written, conditions are about columns of its sources, the *)
(* FROM has none, and a HAVING has no window functions.                    *)
Literal == [op : {"eq", "one", "null"}, left : Nat \X Cols, right : Nat \X Cols]
Written(c) == IsFiniteSet(c) /\ \A p \in c : p \in Seq(SUBSET Literal)
Windowless(body) ==
    body.form = "select" => \A e \in MentionedIn(body.is.having) : e.fn \in {"column", "max", "const"}
Parsed(q) ==
    /\ Written(q.where) /\ q.items[1].on = {}
    /\ \A it \in Range(q.items) : Written(it.on) /\ Windowless(BodyOf(q, it))

ASSUME DatabasesAssumption ==
    \A db \in Databases : \A t \in DOMAIN db : IsFiniteSet(db[t])
ASSUME FamiliesAssumption ==
    \A family \in Families : \A q \in family : WellFormed(q) /\ Shaped(q) /\ Parsed(q)

VARIABLES
    query,    \* the query as it is
    before,   \* the query before the rule that ran last
    rule,     \* the rule that ran last
    turn      \* the rules still to come
vars == <<query, before, rule, turn>>

Rules == <<"pushdown_predicates", "optimize_joins", "eliminate_joins">>

Init ==
    /\ \E family \in Families : query \in family
    /\ before = query
    /\ rule = "none" /\ turn = Rules

Run(name, result) ==
    /\ turn # <<>> /\ Head(turn) = name
    /\ query' = result /\ before' = query
    /\ rule' = name /\ turn' = Tail(turn)

PushdownPredicates == Run("pushdown_predicates", Pushdown(query))
EliminateJoins == Run("eliminate_joins", Eliminate(query))

(* tsort may raise; the exception leaves optimize(). *)
OptimizeJoins == ~RaisesCycle(query) /\ Run("optimize_joins", Optimize(query))
CycleError ==
    /\ turn # <<>> /\ Head(turn) = "optimize_joins" /\ RaisesCycle(query)
    /\ rule' = "raised" /\ turn' = <<>> /\ UNCHANGED <<query, before>>

LeaveOut ==
    /\ turn # <<>> /\ turn' = Tail(turn)
    /\ UNCHANGED <<query, before, rule>>

Next == PushdownPredicates \/ OptimizeJoins \/ CycleError \/ EliminateJoins \/ LeaveOut
Spec == Init /\ [][Next]_vars

------------------------------------------------------------------------------
(***************************************************************************)
(* Where the rules are known to err; the README tells how.                 *)
(***************************************************************************)
(* A predicate is pushed below a join that then adds rows it would have    *)
(* stopped; one on a constant is pushed below aggregates, which then give  *)
(* a row for no rows; a part of a disjunction is pushed.                   *)
AddsRows(q) == {i \in DOMAIN q.items : q.items[i].side \in {"RIGHT", "FULL"}}
WholePushed(q, c, nodes) ==
    DnfOnly(Simplified(c)) => \A n \in Push(q, c, nodes).push : n[2] = Simplified(c)
AggregatesAlone(s) == HasAgg(s) => \A c \in Cols : s.out[c].fn = "max"
PushdownCare(q) ==
    /\ \A it \in Range(q.items) : Pushable(q, it) => AggregatesAlone(BodyOf(q, it).is)
    /\ AddsRows(q) = {} \/ \E i \in AddsRows(q) : AddsRows(q) = {i} /\ q.items[i].side = "RIGHT"
    /\ WholePushed(q, q.where, [tables \in SUBSET Aliases(q) |-> WhereNodes(q, tables)])
    /\ LET r == PushWhere(q)
       IN  \A it \in Range(r.items) :
             WholePushed(r, it.on, [tables \in SUBSET Aliases(r) |-> OnNodes(r, it, tables)])

(* A predicate of a SEMI join is extracted to where its source is unknown. *)
OptimizeCare(q) ==
    \A p \in Dependents(q) : q.items[p[2]].kind = "SEMI" => Extract(q, p[1], p[2]) = q

(* A UNION ALL is taken to have no duplicates, and a source to have a row  *)
(* when it has at most one, or is grouped; in DNF, a block without an      *)
(* equality in common is forgotten.                                        *)
AtMostOneRow(s) == s.from = NoTable \/ s.limit \/ s.group = {}
OneRow(s) == AtMostOneRow(s) /\ ~s.limit /\ s.having = {} /\ (s.from = NoTable => s.where = {})
Vouched(it, body) ==
    /\ body.form = "union" => ~body.is.all
    /\ it.on = {} /\ SingleRow(body) =>
         \/ it.side = "LEFT" /\ AtMostOneRow(body.is)
         \/ it.side = "" /\ OneRow(body.is)
    /\ \A p \in it.on : InDnf(p) => \A i \in DOMAIN p : CommonEqualities(p) \subseteq p[i]
EliminateCare(q) ==
    WellFormed(q) /\ \A i \in 2..Len(q.items) : Vouched(q.items[i], BodyOf(q, q.items[i]))

(***************************************************************************)
(* Each rule leaves as many of every row.                                  *)
(***************************************************************************)
(* pushdown_predicates: a predicate filters where it arrives what it       *)
(* filtered where it was, through aliases, aggregates and outer joins.     *)
PushdownKeepsRows ==
    rule = "pushdown_predicates" /\ PushdownCare(before) => SameRows(before, query, Databases)

(* optimize_joins: taking predicates apart and joins out of order leaves   *)
(* every predicate where all it mentions is known, and the same rows.      *)
OptimizeKeepsRows ==
    rule = "optimize_joins" /\ OptimizeCare(before) => SameRows(before, query, Databases)

(* eliminate_joins: what is dropped neither added nor removed a row, and   *)
(* nothing left mentions it.                                               *)
EliminateKeepsRows ==
    rule = "eliminate_joins" /\ EliminateCare(before) => SameRows(before, query, Databases)

==============================================================================
