----------------------------- MODULE Normalize -----------------------------
(***************************************************************************)
(* The rewriting into conjunctive or disjunctive normal form                *)
(* (src/optimizer/normalize.js): when an expression is in the form wanted,  *)
(* how far from it an expression is estimated to be, and one application of *)
(* the distributive law.                                                    *)
(***************************************************************************)
EXTENDS Simplify

From(dnf) == IF dnf THEN "and" ELSE "or"
To(dnf)   == IF dnf THEN "or" ELSE "and"

RECURSIVE Normalized(_, _, _), Size(_), Lengths(_, _, _, _), Distributed(_, _, _, _),
          Children(_, _, _, _), Betweens(_, _)

\* normalized: no connector of the kind wanted outside has one of the other kind as
\* an ancestor; `under' when f itself is below such a one
Normalized(f, dnf, under) ==
  /\ f.op = To(dnf) => ~under
  /\ \A i \in DOMAIN f.args : Normalized(f.args[i], dnf, under \/ f.op = From(dnf))

\* the connectors of f, counted
Size(f) == (IF IsConnector(f) THEN 1 ELSE 0) + FoldLeft(LAMBDA n, g : n + Size(g), 0, f.args)

\* _predicate_lengths: the number of operands of every clause f expands to; below
\* the depth max the depth stands for the clause
Lengths(f, dnf, max, depth) ==
  LET g == Unnest(f)
      l == Lengths(g.args[1], dnf, max, depth + 1)
      r == Lengths(g.args[2], dnf, max, depth + 1)
  IN  CASE depth > max -> <<depth>>
        [] depth <= max /\ ~IsConnector(g) -> <<1>>
        [] depth <= max /\ g.op = From(dnf) ->
             FoldLeft(LAMBDA s, i : FoldLeft(LAMBDA t, j : Append(t, i + j), s, r), <<>>, l)
        [] OTHER -> l \o r

\* normalization_distance, whose early return changes no comparison with max
Distance(f, dnf, max) == FoldLeft(+, 0, Lengths(f, dnf, max, 0)) - (Size(f) + 1)

TooFar(f, dnf, max) == Distance(f, dnf, max) > max

\* _distribute: b, of the kind wanted outside, is distributed over a
Distribute(a, b, dnf) ==
  LET Clause(f, g) == UniqSort(Flatten(Join(From(dnf), <<f, g>>)), <<>>)
      Over(f) == Join(To(dnf), <<Clause(f, b.args[1]), Clause(f, b.args[2])>>)
  IN  IF a.op = b.op THEN [a EXCEPT !.args = Each(Over, @)] ELSE Over(a)

\* distributive_law: the children first, one after the other, then f itself.  An
\* OptimizeError leaves the tree as far as it has been rewritten.
Distributed(f, dnf, max, under) ==
  IF Normalized(f, dnf, under) THEN [tree |-> f, raised |-> FALSE]
  ELSE IF TooFar(f, dnf, max) THEN [tree |-> f, raised |-> TRUE]
  ELSE LET below == Children(f.args, dnf, max, under \/ f.op = From(dnf))
           g == [f EXCEPT !.args = below.trees]
           p == UnnestOperands(g)
           both == p[1].op = To(dnf) /\ p[2].op = To(dnf)
           law == CASE g.op # From(dnf) \/ To(dnf) \notin {p[1].op, p[2].op} -> g
                    [] IF both THEN Size(p[1]) > Size(p[2]) ELSE p[2].op = To(dnf) -> Distribute(p[1], p[2], dnf)
                    [] OTHER -> Distribute(p[2], p[1], dnf)
       IN  [tree |-> IF below.raised THEN g ELSE law, raised |-> below.raised]

Children(args, dnf, max, under) ==
  IF args = <<>> THEN [trees |-> <<>>, raised |-> FALSE]
  ELSE LET first == Distributed(Head(args), dnf, max, under)
           rest  == IF first.raised THEN [trees |-> Tail(args), raised |-> TRUE]
                                    ELSE Children(Tail(args), dnf, max, under)
       IN  [trees |-> <<first.tree>> \o rest.trees, raised |-> rest.raised]

\* node.transform(rewrite_between)
Betweens(f, up) ==
  IF f.op = "between" THEN RewriteBetween(f, up)
  ELSE [f EXCEPT !.args = Each(LAMBDA g : Betweens(g, <<f.op>> \o up), @)]
=============================================================================
