------------------------------- MODULE MCDiff -------------------------------
(***************************************************************************)
(* Diff on all pairs of small trees, and on some larger ones.               *)
(***************************************************************************)
EXTENDS Diff

\* "p" and "q" are alike, "r" is like neither, "x" is too short to have a bigram.
LabelGrams(l) == CASE l = "p" -> {1, 2, 3} [] l = "q" -> {1, 2, 4} [] l = "r" -> {5, 6, 7}
                   [] OTHER -> {}

MCGrams(face) ==
  LET kind == face[1] name == face[2] value == face[3] slots == face[4] IN
  CASE kind \in {"column", "tablealias", "join"} -> LabelGrams(name)
    [] kind = "alias" -> {8} \cup LabelGrams(name)
    [] kind = "literal" -> IF value = "v" THEN {5, 6, 8} ELSE {5, 6, 9}
    [] kind = "call" -> {9}
    [] kind = "ordered" -> IF value = "desc" THEN {10, 11} ELSE {}
    [] kind = "slice" -> IF slots = <<"this">> THEN {12} ELSE {13}
    [] OTHER -> {}

\* Strings are folded but for those of literals; false is as good as none.
MCFolded(kind, value) ==
  CASE kind = "call" /\ value = "F" -> "f"
    [] value = "false" -> ""
    [] OTHER -> value

\* Breadth-first trees: no parent is numbered before that of the node to the left.
Shapes(n) == {f \in [1 .. n -> 0 .. n - 1] :
                /\ \A i \in 1 .. n : f[i] < i /\ (f[i] = 0 <=> i = 1)
                /\ \A i \in 1 .. n - 1 : f[i] <= f[i + 1]}

TreeAt(parent, faces, slots) ==
  [parent |-> parent, attached |-> FALSE, slot |-> slots,
   kind  |-> [i \in DOMAIN parent |-> faces[i][1]],
   name  |-> [i \in DOMAIN parent |-> faces[i][2]],
   value |-> [i \in DOMAIN parent |-> faces[i][3]]]

Args == <<"this", "expression", "arg3", "arg4", "arg5", "arg6">>

\* The tree whose nodes hold their children by the first arguments there are.
Tree(parent, faces) ==
  TreeAt(parent, faces,
         [i \in DOMAIN parent |->
            IF i = 1 THEN "" ELSE Args[Cardinality({j \in 1 .. i : parent[j] = parent[i]})]])

\* The calls on two trees of a family, without options.
Pairs(trees) == [source : trees, target : trees,
                 given : {<<>>}, shared : {FALSE}, deltaOnly : {FALSE}]

Column(l)  == <<"column", l, "">>
Alias(l)   == <<"alias", l, "">>
Table(l)   == <<"tablealias", l, "">>
Call(f)    == <<"call", "", f>>
Literal(v) == <<"literal", "", v>>
Join(u, v) == <<"join", u, v>>
Ordered(v) == <<"ordered", "", v>>
Slice      == <<"slice", "", "">>
Tuple      == <<"tuple", "", "">>

Arity(f, i) == Cardinality({j \in DOMAIN f : f[j] = i})

\* All trees of up to three nodes, with the kinds a node of so many children may have.
Faces(arity) ==
  CASE arity = 0 -> {Column("p"), Column("q"), Column("x"), Table("p")}
    [] arity = 1 -> {Alias("p"), Ordered("desc"), Ordered(""), Call("f")}
    [] OTHER -> {Tuple, Join("", "left"), Join("", "")}

Small ==
  UNION {UNION {{Tree(f, faces) : faces \in {g \in [1 .. n -> UNION {Faces(a) : a \in 0 .. 2}] :
                                               \A i \in 1 .. n : g[i] \in Faces(Arity(f, i))}} :
                f \in Shapes(n)} : n \in 1 .. 3}

\* What equals() and diff see differently: folded names, a false argument, literals in two
\* spellings, names that diff leaves out, children in other arguments or in another order.
Heads  == {Call("f"), Call("F"), Ordered(""), Ordered("false"), Ordered("desc"), Slice,
           Join("p", ""), Join("q", "")}
Leaves == {Column("p"), Call("f"), Call("F"), Literal("v"), Literal("V")}

Variants ==
  {TreeAt(<<0, 1>>, <<h, Column("p")>>, <<"", a>>) : h \in Heads, a \in {"this", "expression"}}
  \cup {TreeAt(<<0, 1, 1>>, <<Tuple, l, m>>, <<"">> \o as) :
          l, m \in Leaves, as \in {<<"this", "expression">>, <<"expression", "this">>}}
  \cup {Tree(<<0, 1, 2>>, <<Call(f), Ordered(o), Column("p")>>) :
          f \in {"f", "F"}, o \in {"", "false", "desc"}}

\* Four columns in every order below one node.
Orders(ls) == {f \in [1 .. Cardinality(ls) -> ls] : Range(f) = ls}
Flat == {Tree(<<0, 1, 1, 1, 1>>, <<Tuple>> \o [i \in 1 .. 4 |-> Column(f[i])]) :
           f \in Orders({"p", "q", "r", "x"})}

\* Three columns spread over two calls below one node; the columns may repeat.
Nested == {Tree(f, <<Tuple, Call("f"), Call(n)>> \o [i \in 1 .. 3 |-> Column(c[i])]) :
             f \in {<<0, 1, 1, 2, 2, 3>>, <<0, 1, 1, 2, 3, 3>>}, n \in {"f", "g"},
             c \in Orders({"p", "q", "r"}) \cup {<<"p", "p", "q">>, <<"p", "q", "p">>}}

\* Five or six columns below one node: past the size where the threshold is T.
Wide(ls) == Tree([i \in 1 .. Len(ls) + 1 |-> IF i = 1 THEN 0 ELSE 1],
                 <<Call("f")>> \o [i \in DOMAIN ls |-> Column(ls[i])])
Wides == {Wide(ls) : ls \in {<<"p", "q", "p", "q", "r">>, <<"r", "r", "r", "p", "x">>,
                              <<"p", "p", "r", "r", "x", "x">>, <<"x", "r", "p", "q", "x">>}}

\* The calls with pairs of the caller, parents outside the tree, shared nodes.
Few == {Tree(<<0, 1, 2>>, <<Call("f"), Call("F"), Column("p")>>),
        Tree(<<0, 1, 1>>, <<Tuple, Column("p"), Column("q")>>),
        Tree(<<0, 1, 1, 2>>, <<Tuple, Alias("p"), Column("p"), Column("q")>>)}

Options ==
  UNION {{[source |-> [s EXCEPT !.attached = a], target |-> [t EXCEPT !.attached = b],
           given |-> g, shared |-> h, deltaOnly |-> d] :
            a, b, h, d \in BOOLEAN,
            g \in {<<>>} \cup {<<p>> : p \in Nodes(s) \X Nodes(t)}} : s, t \in Few}

MCCalls == Pairs(Small) \cup Pairs(Variants) \cup Pairs(Flat) \cup Pairs(Nested)
           \cup Pairs(Wides) \cup Options
=============================================================================
