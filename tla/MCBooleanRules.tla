--------------------------- MODULE MCBooleanRules ---------------------------
(***************************************************************************)
(* Conditions over two truth columns a and b (b not nullable), a column u   *)
(* of no known type and two columns of numbers x and y.                     *)
(***************************************************************************)
EXTENDS BooleanRules

a == Column(1)
b == Column(2)
u == Column(3)
x == Column(4)
y == Column(5)

Pairs(p, q) == {Join(k, <<f, g>>) : k \in Connectors, f \in p, g \in q}

\* logic: every expression of two connectors over the literals and constants
Signed   == {a, b, Not(a), Not(b)}
Literals == Signed \cup {u, Null, True, False, Not(Null)}
Two      == Pairs(Literals, Literals)
Chains   == {Join(k, <<a, b, f>>) : k \in Connectors, f \in Literals}
Logic    == {Not(Paren(f)) : f \in Two \cup Chains} \cup Pairs(Two, Signed \cup {Null})
              \cup Pairs(Pairs(Signed, Signed), Pairs(Signed, Signed))

\* comparisons: every pair, either way round, and BETWEEN
Straight(c) == {Node(op, <<x, Number(n)>>) : op \in Comparisons, n \in c}
Turned(c)    == {Node(op, <<Number(n), x>>) : op \in Comparisons, n \in c}
Between      == Node("between", <<x, Number(1), Number(2)>>)
Simple       == Straight({1, 2}) \cup {Between}
Numeric      == Pairs(Simple \cup Turned({1, 2}), Simple \cup Turned({1, 2}))
                  \cup Pairs(Pairs(Straight({1, 2}), {a, Between}), Straight({1}))
                  \cup Pairs(Pairs(Straight({1}), Straight({3})), Straight({2}) \cup {a})

\* sums: what is left on the right side stays a natural number
Sums     == {Node("add", <<x, Number(1)>>), Node("add", <<Number(1), x>>),
             Node("sub", <<x, Number(1)>>), Node("sub", <<Number(3), x>>)}
Summed   == {Node(op, <<e, Number(n)>>) : op \in Comparisons, e \in Sums, n \in {1, 2}}
Reckoned == Pairs(Summed, Straight({1, 2})) \cup {Node(op, <<Number(2), e>>) : op \in Comparisons, e \in Sums}

\* equations between columns and with numbers, two of which may contradict each other
Equal(e, f) == Node("eq", <<e, f>>)
Facts == {Equal(x, Number(1)), Equal(x, Number(2)), Equal(y, Number(1)), Equal(Number(2), y), Equal(x, y),
          Node("lt", <<x, y>>), Node("gte", <<x, y>>), Equal(Node("add", <<x, Number(1)>>), Number(2)), Between,
          Paren(Join("or", <<Equal(x, Number(1)), a>>))}
Systems == {Join("and", <<f, g, h>>) : f \in Facts, g \in Facts, h \in Facts}

\* chains far from a normal form; some are only found too far once their halves are
\* looked at, the last one when its first half has been distributed
Leaves == {a, b, u}
Quads  == Pairs(Pairs(Leaves, Leaves), Pairs(Leaves, Leaves))
Deep   == Quads \cup Pairs(Pairs({Between}, {a}), {a, b, Join("or", <<b, u>>), Join("and", <<b, u>>)})
Far    == LET Half(k) == Join(Dual(k), <<Join(k, <<a, b>>), Join(k, <<u, a>>)>>)
          IN  {Join(k, <<Half(k), Half(k)>>) : k \in Connectors}
Late   == LET Chain == Join("and", <<a, b, u, a, b>>)
          IN  Join("and", <<Join("or", <<Join("and", <<a, b>>), u>>),
                            Join("or", <<u, Join("or", <<Chain, Chain>>)>>)>>)

Call(cs, dnf, max) == [conds |-> cs, dnf |-> dnf, max |-> max, propagate |-> FALSE]
Propagating(f)     == [Call(<<f>>, FALSE, 0) EXCEPT !.propagate = TRUE]
MCInputs ==
  {Call(<<f>>, FALSE, 0) : f \in Logic \cup Numeric \cup Reckoned}
    \cup {Propagating(f) : f \in Systems}
    \cup {Call(<<f>>, dnf, max) : f \in Deep \cup Far, dnf \in BOOLEAN, max \in {1, 4, 9}}
    \cup {Call(<<Late>>, FALSE, 2)}
    \cup {Call(<<f, g>>, dnf, max) : f \in Far \cup Pairs(Pairs({a}, {b}), {u, Between}),
                                    g \in Pairs({a}, Pairs({b}, {u, Between})),
                                    dnf \in BOOLEAN, max \in {0, 1, 4}}

\* for the grouping of a negated chain
NegatedChains == {Call(<<Not(Paren(f))>>, FALSE, 9) : f \in Chains}
=============================================================================
