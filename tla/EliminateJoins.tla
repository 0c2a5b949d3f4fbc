--------------------------- MODULE EliminateJoins ---------------------------
(***************************************************************************)
(* eliminate_joins (src/optimizer/eliminate_joins.js): a join whose source *)
(* nobody uses is dropped when it cannot multiply rows.                    *)
(***************************************************************************)
EXTENDS JoinQueries

(* A set operation has the argument distinct, TRUE or FALSE, and the code  *)
(* asks whether it has one.                                                *)
SaysDistinct(body) == body.form = "union" \/ body.is.distinct

(* _has_single_output_row *)
SingleRow(body) ==
    /\ body.form = "select"
    /\ \/ \A c \in Cols : body.is.out[c].fn = "max"
       \/ body.is.limit
       \/ body.is.from = NoTable

(* Mutant of UniqueOutputs: some of what is grouped by is enough. *)
SomeGroupKeys(body) ==
    IF SaysDistinct(body) THEN Cols
    ELSE IF body.is.group # {} THEN {c \in Cols : \E g \in body.is.group : body.is.out[c] = Col(g)}
    ELSE IF SingleRow(body) THEN Cols ELSE {}

(* _unique_outputs: what is grouped by must all be among the outputs. *)
UniqueOutputs(body) ==
    LET keys == {c \in Cols : \E g \in body.is.group : body.is.out[c] = Col(g)}
    IN  IF SaysDistinct(body) THEN Cols
        ELSE IF body.is.group # {}
             THEN IF \A g \in body.is.group : \E c \in Cols : body.is.out[c] = Col(g)
                  THEN keys ELSE {}
        ELSE IF SingleRow(body) THEN Cols ELSE {}

(* The columns of alias that an equality compares with something else. *)
Keys(l, x) ==
    LET own == {c \in ColumnsOf(l) : c[1] = x}
    IN  CASE l.op = "eq" -> IF own = ColumnsOf(l) THEN {} ELSE {c[2] : c \in own}
          [] l.op = "one" -> IF l.left[1] = x THEN {l.left[2]} ELSE {}
          [] OTHER -> {}

(* join_condition.  In CNF the equalities among the conjuncts; in DNF      *)
(* those in every block, where a block that is no AND counts as empty and  *)
(* where nothing in common so far starts the search afresh.                *)
IsEquality(l) == l.op # "null"
CommonEqualities(p) ==
    LET parts(b) == IF Cardinality(b) > 1 THEN {l \in b : IsEquality(l)} ELSE {}
        common[k \in 0..Len(p)] ==
          IF k = 0 THEN {}
          ELSE IF common[k - 1] = {} THEN parts(p[k]) ELSE common[k - 1] \cap parts(p[k])
    IN  common[Len(p)]

InDnf(p) == Len(p) > 1 /\ \E i \in DOMAIN p : Cardinality(p[i]) > 1

Equalities(on) ==
    IF \E p \in on : InDnf(p)
    THEN UNION {CommonEqualities(p) : p \in {p \in on : on = {p}}}
    ELSE {l \in LiteralsOf({p \in on : p = <<p[1]>>}) : IsEquality(l)}

JoinKeys(it) == UNION {Keys(l, it.alias) : l \in Equalities(it.on)}

(* _join_is_used: outside its own ON. *)
Used(q, i) ==
    LET x == q.items[i].alias
    IN  \/ x \in q.uses \cup TablesOf(q.where)
        \/ \E j \in DOMAIN q.items \ {i} : x \in TablesOf(q.items[j].on)

Unneeded(q, i) ==
    LET it == q.items[i]
        body == BodyOf(q, it)
    IN  /\ ~SemiOrAnti(it) /\ body.form # "table" /\ ~Used(q, i)
        /\ \/ /\ it.side = "LEFT" /\ UniqueOutputs(body) # {}
              /\ UniqueOutputs(body) \subseteq JoinKeys(it)
           \/ it.on = {} /\ SingleRow(body)

Without(q, i) == [q EXCEPT !.items = RemoveAt(@, i)]

(* From the last join to the first, so that chains of joins go. *)
EliminatedAfter(q) ==
    LET after[k \in 0..(Len(q.items) - 1)] ==
          IF k = 0 THEN q
          ELSE LET i == Len(q.items) - k + 1
               IN  IF Unneeded(after[k - 1], i) THEN Without(after[k - 1], i) ELSE after[k - 1]
    IN  after
Eliminate(q) == EliminatedAfter(q)[Len(q.items) - 1]
==============================================================================
