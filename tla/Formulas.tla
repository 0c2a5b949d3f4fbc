------------------------------ MODULE Formulas ------------------------------
(***************************************************************************)
(* The boolean expressions the optimizer rewrites: And, Or, Not, Paren,     *)
(* Between, the comparisons, sums and differences, columns, numbers and the *)
(* three constants, as values; what flattening and unnesting see of them,   *)
(* the text they are sorted by, and what they mean in SQL's three-valued    *)
(* logic.                                                                   *)
(***************************************************************************)
EXTENDS Integers, Sequences, FiniteSetsExt, SequencesExt

CONSTANTS
  Columns,    \* the columns, each a number: its place in alphabetical order
  Numerics,   \* those that hold numbers; the others hold truth values
  Booleans,   \* those the annotator has typed BOOLEAN
  NonNull     \* those the schema declares not nullable

ASSUME ColumnsAssumption ==
  /\ Columns \subseteq Nat
  /\ Numerics \subseteq Columns
  /\ Booleans \subseteq Columns \ Numerics
  /\ NonNull \subseteq Columns

(***************************************************************************)
(* Nodes.  `val' is the column or the number of a leaf.                     *)
(***************************************************************************)
Node(op, args) == [op |-> op, val |-> 0, args |-> args]
Column(c)      == [op |-> "col", val |-> c, args |-> <<>>]
Number(n)      == [op |-> "num", val |-> n, args |-> <<>>]
True   == Node("true", <<>>)
False  == Node("false", <<>>)
Null   == Node("null", <<>>)
Not(f) == Node("not", <<f>>)
Paren(f) == Node("paren", <<f>>)

\* the arguments of a node, F applied to each and its place, or to each
EachAt(F(_, _), args) == CASE Len(args) = 0 -> <<>>
                           [] Len(args) = 1 -> <<F(1, args[1])>>
                           [] Len(args) = 2 -> <<F(1, args[1]), F(2, args[2])>>
                           [] Len(args) = 3 -> <<F(1, args[1]), F(2, args[2]), F(3, args[3])>>
Each(F(_), args) == EachAt(LAMBDA i, f : F(f), args)

Connectors  == {"and", "or"}
Comparisons == {"lt", "lte", "gt", "gte", "eq", "neq"}
Dual(k)     == IF k = "and" THEN "or" ELSE "and"

IsConnector(f)  == f.op \in Connectors
IsComparison(f) == f.op \in Comparisons
IsNumber(f)     == f.op = "num"
IsColumn(f)     == f.op = "col"

RECURSIVE Unnest(_), Flat(_, _), Bare(_, _), Nodes(_), Text(_)

\* Expr.unnest: the node below any parentheses
Unnest(f) == IF f.op = "paren" THEN Unnest(f.args[1]) ELSE f

\* Expr.unnestOperands
UnnestOperands(f) == <<Unnest(f.args[1]), Unnest(f.args[2])>>

\* Expr.flatten: the operands of a chain of connectors of kind k, parentheses
\* looked through, or (Bare: flatten(false)) not looked through
Flat(k, f) == LET g == Unnest(f)
              IN  IF g.op = k THEN Flat(k, g.args[1]) \o Flat(k, g.args[2]) ELSE <<g>>
Bare(k, f) == IF f.op = k THEN Bare(k, f.args[1]) \o Bare(k, f.args[2]) ELSE <<f>>

Nodes(f) == {f} \cup UNION {Nodes(f.args[i]) : i \in DOMAIN f.args}

\* combine, behind and_ and or_: a left-deep chain whose operands are put in
\* parentheses when they are connectors of any kind; a lone operand stays as it is
Wrap(f) == IF IsConnector(f) THEN Paren(f) ELSE f
LeftDeep(k, ops) == FoldLeft(LAMBDA f, g : Node(k, <<f, g>>), Head(ops), Tail(ops))
Join(k, ops) == IF Len(ops) = 1 THEN Head(ops)
                                ELSE LeftDeep(k, FoldLeft(LAMBDA s, f : Append(s, Wrap(f)), <<>>, ops))

(***************************************************************************)
(* gen: the text an operand is sorted and deduplicated by, as the ranks its *)
(* tokens have in character order (" < " comes before " <= ", an opening    *)
(* parenthesis before a digit, upper case before lower case).               *)
(***************************************************************************)
Rank == [add |-> -1, sub |-> 0, lt |-> 1, lte |-> 2, neq |-> 3, eq |-> 4, gt |-> 5, gte |-> 6, and |-> 7,
         between |-> 8, or |-> 9, open |-> 10, close |-> 11, num |-> 12,
         false |-> 100, not |-> 101, null |-> 102, true |-> 103, col |-> 104]

Text(f) ==
  CASE f.op \in {"num", "col"} -> <<Rank[f.op] + f.val>>
    [] f.op \in {"true", "false", "null"} -> <<Rank[f.op]>>
    [] f.op = "not"   -> <<Rank.not>> \o Text(f.args[1])
    [] f.op = "paren" -> <<Rank.open>> \o Text(f.args[1]) \o <<Rank.close>>
    [] f.op = "between" -> Text(f.args[1]) \o <<Rank.between>> \o Text(f.args[2])
                             \o <<Rank.and>> \o Text(f.args[3])
    [] OTHER -> Text(f.args[1]) \o <<Rank[f.op]>> \o Text(f.args[2])

Precedes(f, g) ==
  LET s == Text(f)
      t == Text(g)
      apart == {i \in 1..(IF Len(s) < Len(t) THEN Len(s) ELSE Len(t)) : s[i] # t[i]}
  IN  IF apart = {} THEN Len(s) < Len(t) ELSE s[Min(apart)] < t[Min(apart)]

(***************************************************************************)
(* What the annotator knows of an expression: whether it is of type BOOLEAN *)
(* and whether it can be NULL.                                              *)
(***************************************************************************)
IsBoolean(f) == LET g == Unnest(f) IN g.op \notin {"null", "num"} /\ (g.op = "col" => g.val \in Booleans)

RECURSIVE IsNonNull(_)
IsNonNull(f) ==
  CASE f.op = "num" -> TRUE
    [] f.op = "col" -> f.val \in NonNull
    [] f.op \in {"true", "false", "null", "between"} -> FALSE
    [] OTHER -> \A i \in DOMAIN f.args : IsNonNull(f.args[i])

(***************************************************************************)
(* The meaning of an expression in a row, in Kleene's logic: Is(v, f, row)  *)
(* when f has the truth value v; neither when it is NULL.  A row gives      *)
(* every column a value: 2 true, 1 NULL, 0 false, or a number, NoNumber     *)
(* for a NULL.                                                              *)
(***************************************************************************)
NoNumber == -99

Holds(op, l, r) ==
  CASE op = "lt"  -> l < r
    [] op = "lte" -> l <= r
    [] op = "gt"  -> l > r
    [] op = "gte" -> l >= r
    [] op = "eq"  -> l = r
    [] op = "neq" -> l # r

Plus(m, n)  == IF NoNumber \in {m, n} THEN NoNumber ELSE m + n
Minus(m, n) == IF NoNumber \in {m, n} THEN NoNumber ELSE m - n

RECURSIVE Operand(_, _)
Operand(e, row) == CASE e.op = "num" -> e.val
                     [] e.op = "col" -> row[e.val]
                     [] e.op = "add" -> Plus(Operand(e.args[1], row), Operand(e.args[2], row))
                     [] e.op = "sub" -> Minus(Operand(e.args[1], row), Operand(e.args[2], row))
Compared(v, op, l, r) == NoNumber \notin {l, r} /\ Holds(op, l, r) = v

RECURSIVE Is(_, _, _)
Is(v, f, row) ==
  CASE f.op = "true"  -> v
    [] f.op = "false" -> ~v
    [] f.op = "null"  -> FALSE
    [] f.op = "col"   -> row[f.val] = (IF v THEN 2 ELSE 0)
    [] f.op = "not"   -> Is(~v, f.args[1], row)
    [] f.op = "paren" -> Is(v, f.args[1], row)
    [] f.op = (IF v THEN "and" ELSE "or") -> Is(v, f.args[1], row) /\ Is(v, f.args[2], row)
    [] f.op = (IF v THEN "or" ELSE "and") -> Is(v, f.args[1], row) \/ Is(v, f.args[2], row)
    [] f.op = "between" ->
         LET x   == Operand(f.args[1], row)
             gte == Compared(v, "gte", x, Operand(f.args[2], row))
             lte == Compared(v, "lte", x, Operand(f.args[3], row))
         IN  IF v THEN gte /\ lte ELSE gte \/ lte
    [] OTHER -> Compared(v, f.op, Operand(f.args[1], row), Operand(f.args[2], row))

ColumnsOf(f) == {g.val : g \in {h \in Nodes(f) : h.op = "col"}}
=============================================================================
