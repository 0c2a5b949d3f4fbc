---------------------------- MODULE MCJoinRules ----------------------------
(* Queries over two tables with two columns, each of three or four sources. *)
EXTENDS JoinRules

MCCols == {"a", "b"}

Rows(s) == {<<[a |-> s[i][1], b |-> s[i][2]], i>> : i \in DOMAIN s}
MCDatabases ==
    {[t |-> Rows(<<<<1, 1>>, <<1, 2>>, <<Null, 1>>>>), u |-> Rows(<<<<1, Null>>, <<2, 1>>, <<1, 1>>>>)],
     [t |-> Rows(<<<<1, 2>>, <<1, 2>>>>), u |-> {}]}

\* ------------------------------------------------------------------ sources
T == TableSource("t")
U == TableSource("u")
Plain == Select("u", [a |-> Col("a"), b |-> Col("b")])
Swapped == Select("u", [a |-> Col("b"), b |-> Col("a")])
Largests == Select("u", [a |-> Expr("max", "a"), b |-> Expr("max", "b")])
Totals == Select("u", [a |-> Expr("max", "a"), b |-> Expr("const", 2)])
ByA == [Select("t", [a |-> Col("a"), b |-> Expr("max", "b")]) EXCEPT !.group = {"a"}]
ByBoth == [Select("t", [a |-> Col("a"), b |-> Expr("max", "b")]) EXCEPT !.group = {"a", "b"}]
Windowed == Select("u", [a |-> Col("a"), b |-> Expr("over", "b")])
Distinct == [Swapped EXCEPT !.distinct = TRUE]
First == [Swapped EXCEPT !.limit = TRUE]
Constant == Select(NoTable, [a |-> Expr("const", 1), b |-> Expr("const", 2)])

Sources ==
    {T, CteSource("c")} \cup {Derived(s) : s \in {Swapped, Largests, Totals, ByA, Windowed, Distinct, First, Constant}}
      \cup {UnionOf(all, Plain, Swapped) : all \in BOOLEAN}

\* --------------------------------------------------------------- conditions
Eq(x, c, y, d) == Lit("eq", <<x, c>>, <<y, d>>)
Is(x, c) == Lit("one", <<x, c>>, <<x, c>>)
IsNull(x, c) == Lit("null", <<x, c>>, <<x, c>>)
And1(l) == <<{l}>>
Or2(b, c) == <<b, c>>

Query(items, where, uses, recursive) ==
    [items |-> items, where |-> where, uses |-> uses, recursive |-> recursive,
     ctes |-> [n \in {"c"} |-> Derived(Swapped)]]

Wheres ==
    {{And1(Is(1, "b"))}, {And1(Is(2, "b")), And1(Eq(1, "b", 3, "b"))}, {And1(IsNull(3, "a"))},
     {And1(Eq(2, "b", 3, "a")), And1(Is(3, "b"))}, {Or2({Is(2, "b")}, {Is(3, "b")})},
     {Or2({Is(1, "a")}, {IsNull(1, "b")}), And1(IsNull(2, "b"))},
     {Or2({Is(2, "a"), Is(3, "a")}, {IsNull(2, "b"), Is(3, "b")})},
     {Or2({Is(1, "a"), Is(3, "a")}, {Is(1, "b"), Is(2, "a")})},
     {Or2({Is(3, "a"), Is(1, "a")}, {Is(3, "b"), IsNull(3, "a")})}}

Sides == {<<"", "">>, <<"", "CROSS">>, <<"LEFT", "">>, <<"RIGHT", "">>, <<"FULL", "">>}

On(x, side) == CASE side[2] = "CROSS" -> {}
                 [] x = 2 -> {And1(Eq(1, "a", 2, "a"))}
                 [] x = 3 -> {And1(Eq(2, "a", 3, "a")), And1(Is(3, "b"))}

(* Some sources are not tables; when two are, they are one CTE.            *)
Places == {{1}, {2}, {3}, {1, 2}, {1, 3}}
PushQuery(s, ks, l, r, w, rec) ==
    LET source(i, table) == IF i \in ks THEN s ELSE table
    IN  Query(<<Item(1, "", "", source(1, T), {}), Item(2, l[1], l[2], source(2, U), On(2, l)),
                Item(3, r[1], r[2], source(3, T), On(3, r))>>, w, {1, 2, 3}, rec)
PushQueries ==
    {PushQuery(x[1], x[2], l, r, w, FALSE) :
       x \in {x \in Sources \X Places : Cardinality(x[2]) = 2 => x[1].form = "cte"},
       l \in Sides, r \in Sides, w \in Wheres}
RecursiveQueries == {PushQuery(CteSource("c"), {1}, l, l, w, TRUE) : l \in Sides, w \in Wheres}

(* Joins without sides, in several orders of the names n.  What is joined  *)
(* at place i: a kind, and the predicates of its ON by number.             *)
Names == {<<1, 2, 3, 4>>, <<2, 4, 3, 1>>}
Predicate(n, i, k) ==
    IF k < i THEN And1(Eq(n[k], "a", n[i], "a")) ELSE Or2({Is(n[i - 1], "b")}, {IsNull(n[i], "b")})
Ons == <<{}, {{1}, {2}}, {{1}, {2}, {1, 3}}, {{3}, {1, 2}, {2, 3}, {1, 2, 4}}>>
Joinings(i) == ({"INNER", "SEMI", "ANTI"} \X Ons[i]) \cup ({"CROSS", "OUTER", ""} \X {{}})

OrderQuery(n, j) ==
    LET item(i, joining) ==
          Item(n[i], "", joining[1], IF i = 3 THEN U ELSE T, {Predicate(n, i, k) : k \in joining[2]})
        shown == {n[1]} \cup {n[i] : i \in {i \in 2..4 : j[i - 1][1] \notin {"SEMI", "ANTI"}}}
    IN  Query(<<Item(n[1], "", "", U, {}), item(2, j[1]), item(3, j[2]), item(4, j[3])>>, {}, shown, FALSE)
OrderQueries ==
    {q \in {OrderQuery(n, j) : n \in Names, j \in Joinings(2) \X Joinings(3) \X Joinings(4)} : WellFormed(q)}

(* Joins whose sources are not selected from. *)
Keyings ==
    {{}, {And1(Eq(1, "a", 2, "a"))}, {And1(Eq(1, "a", 2, "a")), And1(Eq(1, "b", 2, "b"))},
     {And1(Eq(2, "a", 1, "b")), And1(Is(2, "b"))}, {And1(Eq(1, "a", 2, "a")), And1(Eq(2, "b", 2, "b"))},
     {Or2({Eq(1, "a", 2, "a"), Is(2, "b")}, {Eq(1, "a", 2, "a"), Is(1, "b")})},
     {Or2({IsNull(2, "b")}, {Eq(1, "a", 2, "a"), Eq(1, "b", 2, "b")})}}
Chained == {And1(Eq(2, "b", 3, "a")), And1(Eq(1, "a", 3, "b"))}
Unchained == {And1(Eq(1, "a", 3, "a")), And1(Eq(1, "b", 3, "b"))}

DropQueries ==
    {Query(<<Item(1, "", "", T, {}), Item(2, side, "", s, on2), Item(3, "LEFT", "", Derived(Distinct), on3)>>,
           w, uses, FALSE) :
       s \in Sources \cup {Derived(ByBoth)}, side \in {"", "LEFT"}, on2 \in Keyings, on3 \in {Chained, Unchained},
       w \in {{}, {And1(Is(1, "b"))}, {And1(IsNull(2, "a"))}}, uses \in {{1}, {1, 3}}}

MCFamilies == {PushQueries, RecursiveQueries, OrderQueries, DropQueries}
==============================================================================
