------------------------------ MODULE Simplify ------------------------------
(***************************************************************************)
(* The boolean rules of the Simplifier (src/optimizer/simplify.js): what    *)
(* each does to one node, and one pass of them over an expression.  `up' is *)
(* the kinds of a node's ancestors, the parent first.                       *)
(***************************************************************************)
EXTENDS Formulas

SameParent(f, up) == up # <<>> /\ Head(up) = f.op

AlwaysTrue(f)  == f.op = "true" \/ (f.op = "num" /\ f.val # 0)
IsZero(f)      == f.op = "num" /\ f.val = 0
AlwaysFalse(f) == f.op \in {"false", "null"} \/ IsZero(f)

Complement == [lt |-> "gte", gt |-> "lte", lte |-> "gt", gte |-> "lt", eq |-> "neq", neq |-> "eq"]
Mirrored   == [lt |-> "gt", gt |-> "lt", lte |-> "gte", gte |-> "lte", eq |-> "eq", neq |-> "neq"]

(***************************************************************************)
(* The rules applied on the way down.                                       *)
(***************************************************************************)
RewriteBetween(f, up) ==
  IF f.op # "between" THEN f
  ELSE LET g == Join("and", <<Node("gte", <<f.args[1], f.args[2]>>),
                              Node("lte", <<f.args[1], f.args[3]>>)>>)
       IN  IF up # <<>> /\ Head(up) = "not" THEN Paren(g) ELSE g

\* the operands without those whose text has been seen before
Distinct(ops) ==
  FoldLeft(LAMBDA seen, g : IF \E h \in ToSet(seen) : Text(h) = Text(g) THEN seen ELSE Append(seen, g),
           <<>>, ops)

UniqSort(f, up) ==
  IF ~IsConnector(f) \/ SameParent(f, up) THEN f
  ELSE LET ops  == Flat(f.op, f)
           uniq == Distinct(ops)
       IN  IF \E i \in 2..Len(uniq) : Precedes(uniq[i], uniq[i - 1])
           THEN Join(f.op, SortSeq(uniq, Precedes))
           ELSE IF Len(uniq) = Len(ops) THEN f
           ELSE IF Len(uniq) = 1 THEN Join("and", <<ops[1], True>>)
           ELSE Join(f.op, uniq)

\* f with the node below the parentheses of g, one of its operands, replaced
RECURSIVE Under(_, _)
Under(g, new) == IF g.op = "paren" THEN Paren(Under(g.args[1], new)) ELSE new

\* the chain f of kind k with each of its operands op replaced by now[op]
RECURSIVE Replaced(_, _, _)
Replaced(k, f, now) ==
  CASE f.op = k       -> Node(k, <<Replaced(k, f.args[1], now), Replaced(k, f.args[2], now)>>)
    [] f.op = "paren" -> Paren(Replaced(k, f.args[1], now))
    [] OTHER          -> now[f]

\* Mutant of NegatesNonNull: complements are cancelled whether or not they can be NULL
Negates(f) == f.op = "not"

NegatesNonNull(f) == f.op = "not" /\ IsNonNull(f.args[1])

AbsorbAndEliminate(f, up) ==
  IF ~IsConnector(f) \/ SameParent(f, up) THEN f
  ELSE
  LET kind == Dual(f.op)
      ops  == Flat(f.op, f)
      all  == ToSet(ops)
      inner  == SelectSeq(ops, LAMBDA g : g.op = kind)
      Sub(g) == ToSet(Flat(kind, g))
      absorbed == IF kind = "and" THEN False ELSE True
      \* the operands (other, complement) with `other' equal to the pair {a, b}
      \* once the NOT of one of its operands is dropped, in operand order
      Partners(a, b) ==
        LET Of(g) == LET p == UnnestOperands(g)
                         Side(i) == IF NegatesNonNull(p[i]) /\ {p[i].args[1], p[3 - i]} = {a, b}
                                      THEN <<[other |-> g, complement |-> p[3 - i]]>> ELSE <<>>
                     IN  Side(1) \o Side(2)
        IN  FlattenSeq([i \in DOMAIN inner |-> Of(inner[i])])
      \* an operand is replaced in its parent once; from then on it is detached
      Put(s, g, new) == IF g \in s.gone THEN s
                        ELSE [now |-> [s.now EXCEPT ![g] = new], gone |-> s.gone \cup {g}]
      Edit(s, g, i, new) == IF g \in s.gone THEN s
                            ELSE [s EXCEPT !.now[g].args[i] = Under(@, new)]
      Visit(s, g) ==
        LET p == UnnestOperands(g)
            Cancels(i) == NegatesNonNull(p[i]) /\ p[i].args[1] \in all
        IN  CASE Cancels(1) -> Edit(s, g, 1, Node(IF kind = "and" THEN "true" ELSE "false", <<>>))
              [] ~Cancels(1) /\ Cancels(2) ->
                   Edit(s, g, 2, Node(IF kind = "and" THEN "true" ELSE "false", <<>>))
              [] ~Cancels(1) /\ ~Cancels(2) /\ \E h \in all : Sub(h) \subseteq Sub(g) /\ Sub(h) # Sub(g) ->
                   Put(s, g, absorbed)
              [] OTHER -> FoldLeft(LAMBDA t, r : Put(Put(t, g, r.complement), r.other, r.complement),
                                   s, Partners(p[1], p[2]))
  IN  Replaced(f.op, f, FoldLeft(Visit, [now |-> [g \in all |-> g], gone |-> {}], inner).now)

\* propagate_constants: within an AND free of ORs, every occurrence of a column that
\* some equation sets to a number gives way to it, but for the one in the last such
\* equation; `at' is the place of a node in the tree
RECURSIVE Bindings(_, _), Substituted(_, _, _)
Bindings(f, at) ==
  IF f.op = "eq" /\ IsColumn(f.args[1]) /\ IsNumber(f.args[2])
  THEN {[column |-> f.args[1], at |-> Append(at, 1), number |-> f.args[2]]}
  ELSE UNION {Bindings(f.args[i], Append(at, i)) : i \in DOMAIN f.args}

Later(p, q) == \E i \in DOMAIN p \cap DOMAIN q : p[i] > q[i] /\ SubSeq(p, 1, i - 1) = SubSeq(q, 1, i - 1)

Substituted(f, at, bindings) ==
  LET own == {b \in bindings : b.column = f /\ b.at # at}
  IN  IF own # {} THEN (CHOOSE b \in own : TRUE).number
      ELSE [f EXCEPT !.args = EachAt(LAMBDA i, g : Substituted(g, Append(at, i), bindings), @)]

PropagateConstants(f, up) ==
  IF f.op # "and" \/ SameParent(f, up) \/ \E g \in Nodes(f) : g.op = "or" THEN f
  ELSE LET all == Bindings(f, <<>>)
       IN  Substituted(f, <<>>, {b \in all : \A c \in all : c.column = b.column => c = b \/ Later(b.at, c.at)})

(***************************************************************************)
(* The rules applied on the way up.                                         *)
(***************************************************************************)
NullAndTrue(up) ==
  LET g == Join("and", <<Null, True>>)
  IN  IF up # <<>> /\ Head(up) \in {"not", "or"} THEN Paren(g) ELSE g

SimplifyNot(f, up) ==
  IF f.op # "not" THEN f
  ELSE LET g == f.args[1]
           c == Unnest(g)
       IN  CASE g.op = "null" -> NullAndTrue(up)
             [] g.op \in Comparisons -> [g EXCEPT !.op = Complement[g.op]]
             [] g.op = "paren" /\ IsConnector(c) ->
                  Paren(Join(Dual(c.op), <<Not(c.args[1]), Not(c.args[2])>>))
             [] g.op = "paren" /\ c.op = "null" -> NullAndTrue(up)
             [] AlwaysTrue(g) -> False
             [] g.op = "false" -> True
             [] g.op = "not" /\ IsBoolean(g.args[1]) -> g.args[1]
             [] OTHER -> f

\* flatten: an operand that is, below its parentheses, a connector of the same kind
\* loses them
Flatten(f) ==
  IF ~IsConnector(f) THEN f
  ELSE [f EXCEPT !.args = Each(LAMBDA g : IF Unnest(g).op = f.op THEN Unnest(g) ELSE g, @)]

\* a pair of comparisons of one column with two numbers; Nothing: no rule applies
Nothing == Node("nothing", <<>>)

SimplifyComparison(k, l, r) ==
  LET columns == {e \in {l.args[1], l.args[2]} \cap {r.args[1], r.args[2]} : ~IsNumber(e)}
      rest(g) == {g.args[1], g.args[2]} \ columns
      number(g) == (CHOOSE e \in rest(g) : TRUE).val
      upper == {"lt", "lte"}
      lower == {"gt", "gte"}
      Contradicts(a, b) == CASE a.op = "lt" /\ b.op \in lower -> number(a) <= number(b)
                             [] a.op = "gt" /\ b.op \in upper -> number(a) >= number(b)
                             [] a.op = "eq" -> ~Holds(b.op, number(a), number(b))
                             [] OTHER -> FALSE
      DecidedBy(a, b) == k = "and" /\ (Contradicts(a, b) \/ (a.op = "eq" /\ b.op # "eq"))
  IN  IF ~(IsComparison(l) /\ IsComparison(r)) THEN Nothing
      ELSE IF columns = {} \/ rest(l) = {} \/ rest(r) = {}
              \/ \E e \in rest(l) \cup rest(r) : ~IsNumber(e) THEN Nothing
      ELSE CASE l.op \in upper /\ r.op \in upper ->
                  IF (k = "or" /\ number(l) > number(r)) \/ (k = "and" /\ number(l) <= number(r)) THEN l ELSE r
             [] l.op \in lower /\ r.op \in lower ->
                  IF (k = "or" /\ number(l) < number(r)) \/ (k = "and" /\ number(l) >= number(r)) THEN l ELSE r
             [] l.op = "eq" /\ r.op = "eq" -> Nothing
             [] DecidedBy(l, r) -> IF Contradicts(l, r) THEN False ELSE l
             [] ~DecidedBy(l, r) /\ DecidedBy(r, l) -> IF Contradicts(r, l) THEN False ELSE r
             [] OTHER -> Nothing

SimplifyPair(k, l, r) ==
  LET both == {l.op, r.op}
      BothNull(Neutral(_)) == \/ l.op = "null" /\ r.op = "null"
                              \/ l.op = "null" /\ Neutral(r)
                              \/ r.op = "null" /\ Neutral(l)
  IN  IF k = "and"
      THEN CASE "false" \in both \/ IsZero(l) \/ IsZero(r) -> False
             [] BothNull(AlwaysTrue) -> Null
             [] AlwaysTrue(l) /\ AlwaysTrue(r) -> True
             [] AlwaysTrue(l) -> r
             [] AlwaysTrue(r) -> l
             [] OTHER -> SimplifyComparison(k, l, r)
      ELSE CASE AlwaysTrue(l) \/ AlwaysTrue(r) -> True
             [] BothNull(AlwaysFalse) -> Null
             [] l.op = "false" -> r
             [] r.op = "false" -> l
             [] OTHER -> SimplifyComparison(k, l, r)

RECURSIVE Combine(_, _, _)

Combine(k, queue, done) ==
  IF queue = <<>> THEN done
  ELSE LET a    == Head(queue)
           with == {i \in 2..Len(queue) : SimplifyPair(k, a, queue[i]) # Nothing}
       IN  IF with = {} THEN Combine(k, Tail(queue), Append(done, a))
           ELSE LET i == Min(with)
                IN  Combine(k, <<SimplifyPair(k, a, queue[i])>> \o RemoveAt(Tail(queue), i - 1), done)

FlatSimplify(f, up) ==
  LET out == Combine(f.op, Bare(f.op, f), <<>>)
  IN  IF SameParent(f, up) \/ Len(out) = Len(Bare(f.op, f)) THEN f ELSE LeftDeep(f.op, out)

\* what a chain is reduced to is kept boolean: AND TRUE is added unless it is boolean
\* already or, parentheses aside, an operand of a connector
SimplifyConnectors(f, up) ==
  IF ~IsConnector(f) THEN f
  ELSE LET g     == FlatSimplify(f, up)
           outer == SelectSeq(up, LAMBDA op : op # "paren")
       IN  IF IsConnector(g) \/ IsBoolean(g) \/ (outer # <<>> /\ Head(outer) \in Connectors)
           THEN g ELSE Join("and", <<g, True>>)

RemoveComplements(f, up) ==
  IF IsConnector(f) /\ ~SameParent(f, up) /\ IsNonNull(f)
     /\ LET ops == ToSet(Flat(f.op, f)) IN \E g \in ops : g.op = "not" /\ g.args[1] \in ops
  THEN IF f.op = "and" THEN False ELSE True
  ELSE f

SimplifyParens(f, up) ==
  IF f.op # "paren" \/ (IsConnector(f.args[1]) /\ up # <<>> /\ Head(up) \in Connectors \cup {"not"})
  THEN f ELSE f.args[1]

\* simplify_literals: two numbers compared, added or subtracted
FoldLiterals(f) ==
  IF ~(IsComparison(f) \/ f.op \in {"add", "sub"}) \/ \E i \in 1..2 : ~IsNumber(f.args[i]) THEN f
  ELSE LET m == f.args[1].val
           n == f.args[2].val
       IN  CASE f.op = "add" -> Number(m + n)
             [] f.op = "sub" -> Number(m - n)
             [] OTHER -> IF Holds(f.op, m, n) THEN True ELSE False

\* Mutant of SimplifyEquality: a column that is subtracted does not turn the comparison
EqualityUnturned(f) ==
  IF ~IsComparison(f) \/ f.args[1].op \notin {"add", "sub"} \/ ~IsNumber(f.args[2]) THEN f
  ELSE LET a == f.args[1].args[1]
           b == f.args[1].args[2]
           inverse == IF f.args[1].op = "add" THEN "sub" ELSE "add"
       IN  CASE ~IsNumber(a) /\ IsNumber(b) -> Node(f.op, <<a, Node(inverse, <<f.args[2], b>>)>>)
             [] IsNumber(a) /\ ~IsNumber(b) -> Node(f.op, <<b, Node("sub", <<a, f.args[2]>>)>>)
             [] OTHER -> f

\* simplify_equality: a number added to or subtracted from the left side, or from which
\* the left side subtracts, goes to the right side
SimplifyEquality(f) ==
  IF ~IsComparison(f) \/ f.args[1].op \notin {"add", "sub"} \/ ~IsNumber(f.args[2]) THEN f
  ELSE LET l == f.args[1]
           a == l.args[1]
           b == l.args[2]
           Moved(e, n) == Node(f.op, <<e, Node(IF l.op = "add" THEN "sub" ELSE "add", <<f.args[2], n>>)>>)
       IN  CASE ~IsNumber(a) /\ IsNumber(b) -> Moved(a, b)
             [] IsNumber(a) /\ ~IsNumber(b) /\ l.op = "sub" ->
                  Node(Mirrored[f.op], <<b, Node("sub", <<a, f.args[2]>>)>>)
             [] IsNumber(a) /\ ~IsNumber(b) /\ l.op = "add" -> Moved(b, a)
             [] OTHER -> f

\* Mutant of SortComparison: the sides are swapped whatever their order
SwapSides(f) == IF IsComparison(f) THEN Node(Mirrored[f.op], <<f.args[2], f.args[1]>>) ELSE f

SortComparison(f) ==
  IF ~IsComparison(f) THEN f
  ELSE LET l == f.args[1]
           r == f.args[2]
           inOrder == (IsColumn(l) /\ ~IsColumn(r)) \/ (IsNumber(r) /\ ~IsNumber(l))
           turned  == (IsColumn(r) /\ ~IsColumn(l)) \/ (IsNumber(l) /\ ~IsNumber(r)) \/ Precedes(r, l)
       IN  IF turned /\ ~inOrder THEN Node(Mirrored[f.op], <<r, l>>) ELSE f

(***************************************************************************)
(* _simplify: one pass.  Every node is rewritten before its children and    *)
(* again after them; a node that a rule has just built has no parent yet.   *)
(***************************************************************************)
Parents(new, old, up) == IF new = old THEN up ELSE <<>>

Descend(f, up, propagate) ==
  LET between  == RewriteBetween(f, up)
      sorted   == UniqSort(between, Parents(between, f, up))
      above    == Parents(sorted, f, up)
      absorbed == AbsorbAndEliminate(sorted, above)
  IN  IF propagate THEN PropagateConstants(absorbed, above) ELSE absorbed

Ascend(f, up) ==
  LET notted    == SimplifyNot(f, up)
      above     == Parents(notted, f, up)
      connected == RemoveComplements(SimplifyConnectors(Flatten(notted), above), above)
      equated   == SimplifyEquality(FoldLiterals(connected))
  IN  SortComparison(SimplifyParens(equated, up))

RECURSIVE SimplifyNode(_, _, _)
SimplifyNode(f, up, propagate) ==
  IF f.args = <<>> THEN f
  ELSE LET g == Descend(f, up, propagate)
       IN  Ascend([g EXCEPT !.args = Each(LAMBDA h : SimplifyNode(h, <<g.op>> \o up, propagate), @)], up)

Pass(f, propagate) == SimplifyNode(f, <<>>, propagate)
=============================================================================
