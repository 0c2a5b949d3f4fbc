--------------------------- MODULE JoinRulesProofs ---------------------------
(***************************************************************************)
(* The three join rules keep the shape of a query; putting joins in order  *)
(* and dropping joins keeps its rows too.                                  *)
(*                                                                         *)
(* eliminate_joins: a join that is dropped matches every row once, so that *)
(* the rows with it mirror those without.  optimize_joins: without sides a *)
(* joined row is one row of every source that passes all predicates,       *)
(* whatever comes first.  pushdown_predicates: a predicate goes where all  *)
(* else it mentions has come before.                                       *)
(***************************************************************************)
EXTENDS JoinRules, FiniteSetTheorems, WellFoundedInduction, NaturalsInduction, SequenceTheorems, TLAPS

(* A joined row over the sources A.                                          *)
Over(j, A) == DOMAIN j = A /\ j = [y \in DOMAIN j |-> j[y]]

(* A joined row without one of its sources.                                  *)
Narrowed(j, x) == [y \in DOMAIN j \ {x} |-> j[y]]

(* wide is narrow with a source x more, row by row: x multiplies no row and  *)
(* stops none.                                                               *)
Mirrors(wide, narrow, x) ==
    /\ \A j \in wide : Narrowed(j, x) \in narrow
    /\ \A l \in narrow : \E j \in wide : Narrowed(j, x) = l
    /\ \A j, k \in wide : Narrowed(j, x) = Narrowed(k, x) => j = k

(* The value a column has in what one source gives a joined row.             *)
ValueIn(rows, c) == IF rows = {} THEN Null ELSE (CHOOSE r \in rows : TRUE)[1][c]

\* The sources of the columns of a condition are the ones it mentions.
LEMMA MentionedTables ==
  ASSUME NEW c, NEW col \in MentionedIn(c)
  PROVE  col[1] \in TablesOf(c)
<1>1. PICK l \in LiteralsOf(c) : col \in ColumnsOf(l)
  BY DEF MentionedIn
<1>2. col \in UNION {ColumnsOf(m) : m \in LiteralsOf(c)}
  BY <1>1
<1> QED BY <1>2 DEF TablesOf, BlockTables

LEMMA FieldIsValueIn ==
  ASSUME NEW j, NEW col
  PROVE  Field(j, col) = ValueIn(j[col[1]], col[2])
BY DEF Field, ValueIn

LEMMA OverEqual ==
  ASSUME NEW A, NEW j, NEW k, Over(j, A), Over(k, A), \A y \in A : j[y] = k[y]
  PROVE  j = k
BY DEF Over

LEMMA NarrowedOver ==
  ASSUME NEW A, NEW j, Over(j, A), NEW x
  PROVE  Over(Narrowed(j, x), A \ {x})
BY DEF Over, Narrowed

LEMMA NarrowedAt ==
  ASSUME NEW A, NEW j, Over(j, A), NEW x, NEW y \in A, y # x
  PROVE  Narrowed(j, x)[y] = j[y]
BY DEF Over, Narrowed

LEMMA WithOver ==
  ASSUME NEW A, NEW j, Over(j, A), NEW a, NEW R
  PROVE  Over(With(j, a, R), A \cup {a})
BY DEF Over, With

LEMMA WithNew ==
  ASSUME NEW j, NEW a, NEW R
  PROVE  With(j, a, R)[a] = R
BY DEF With

LEMMA WithOld ==
  ASSUME NEW A, NEW j, Over(j, A), NEW a, NEW R, NEW y \in A, y # a
  PROVE  With(j, a, R)[y] = j[y]
BY DEF Over, With

LEMMA FieldNarrowed ==
  ASSUME NEW A, NEW j, Over(j, A), NEW x, NEW col, col[1] \in A, col[1] # x
  PROVE  Field(Narrowed(j, x), col) = Field(j, col)
<1>1. Narrowed(j, x)[col[1]] = j[col[1]]
  BY NarrowedAt
<1> QED BY <1>1, FieldIsValueIn

\* To narrow after a source is added is to narrow before it.
LEMMA WithNarrowed ==
  ASSUME NEW A, NEW j, Over(j, A), NEW a, NEW x, a # x, NEW R
  PROVE  Narrowed(With(j, a, R), x) = With(Narrowed(j, x), a, R)
<1> DEFINE w == With(j, a, R)
           d == Narrowed(j, x)
           u == Narrowed(w, x)
           v == With(d, a, R)
           B == (A \cup {a}) \ {x}
<1>1. Over(w, A \cup {a}) /\ Over(d, A \ {x})
  BY WithOver, NarrowedOver
<1>2. \A y \in A : y # a => w[y] = j[y]
  BY WithOld
<1>3. w[a] = R
  BY WithNew
<1>4. \A y \in A \ {x} : d[y] = j[y]
  BY NarrowedAt
<1> SUFFICES u = v
  OBVIOUS
<1> HIDE DEF w, d
<1>5. B = (A \ {x}) \cup {a}
  OBVIOUS
<1>6. Over(u, B)
  BY <1>1, NarrowedOver
<1>7. \A y \in B : u[y] = w[y]
  BY <1>1, NarrowedAt
<1>8. Over(v, (A \ {x}) \cup {a})
  BY <1>1, WithOver
<1>9. v[a] = R
  BY WithNew
<1>10. \A y \in A \ {x} : y # a => v[y] = d[y]
  BY <1>1, WithOld
<1> HIDE DEF u, v, B
<1>11. \A y \in B : u[y] = v[y]
  BY <1>2, <1>3, <1>4, <1>5, <1>7, <1>9, <1>10
<1> QED BY <1>5, <1>6, <1>8, <1>11, OverEqual

\* Two rows with a source added are equal only if the rest is, and what was added.
LEMMA WithInjective ==
  ASSUME NEW A, NEW j, NEW k, Over(j, A), Over(k, A), NEW a, a \notin A, NEW R, NEW Q
  PROVE  With(j, a, R) = With(k, a, Q) => j = k /\ R = Q
<1> DEFINE u == With(j, a, R)
           v == With(k, a, Q)
<1> SUFFICES u = v => j = k /\ R = Q
  OBVIOUS
<1>1. u[a] = R /\ v[a] = Q
  BY WithNew
<1>2. \A y \in A : u[y] = j[y]
  BY WithOld
<1>3. \A y \in A : v[y] = k[y]
  BY WithOld
<1> HIDE DEF u, v
<1>4. HAVE u = v
<1>5. R = Q
  BY <1>1, <1>4
<1>6. \A y \in A : j[y] = k[y]
  BY <1>2, <1>3, <1>4
<1> QED BY <1>5, <1>6, OverEqual

\* A join that does not mention x matches the same rows without it.
LEMMA MatchesNarrowed ==
  ASSUME NEW A, NEW l, Over(l, A), NEW it, NEW x, it.alias # x,
         x \notin TablesOf(it.on), Others(it) \subseteq A, NEW rows
  PROVE  Matches(Narrowed(l, x), it, rows) = Matches(l, it, rows)
<1> DEFINE a == it.alias
           n == Narrowed(l, x)
<1>1. ASSUME NEW r \in rows, NEW col \in MentionedIn(it.on)
      PROVE  Field(With(n, a, {r}), col) = Field(With(l, a, {r}), col)
  <2>1. col[1] \in TablesOf(it.on)
    BY MentionedTables
  <2>2. col[1] \in A \cup {a} /\ col[1] # x
    BY <2>1 DEF Others
  <2>3. Over(With(l, a, {r}), A \cup {a})
    BY WithOver
  <2>4. Field(Narrowed(With(l, a, {r}), x), col) = Field(With(l, a, {r}), col)
    BY <2>2, <2>3, FieldNarrowed
  <2>5. Narrowed(With(l, a, {r}), x) = With(n, a, {r})
    BY WithNarrowed
  <2> QED BY <2>4, <2>5
<1> SUFFICES Matches(n, it, rows) = Matches(l, it, rows)
  OBVIOUS
<1> HIDE DEF n
<1>2. \A r \in rows : [col \in MentionedIn(it.on) |-> Field(With(n, a, {r}), col)]
                        = [col \in MentionedIn(it.on) |-> Field(With(l, a, {r}), col)]
  BY <1>1
<1> QED BY <1>2 DEF Matches

(* What an ordinary join makes of the rows left and rows.                    *)
IsMatched(j, left, it, rows) ==
    \E l \in left : \E r \in Matches(l, it, rows) : j = With(l, it.alias, {r})
IsAlone(j, left, it, rows) ==
    /\ it.side \in {"LEFT", "FULL"}
    /\ \E l \in left : Matches(l, it, rows) = {} /\ j = With(l, it.alias, {})
IsUnmatched(j, left, it, rows, names) ==
    /\ it.side \in {"RIGHT", "FULL"}
    /\ \E r \in rows : /\ \A l \in left : r \notin Matches(l, it, rows)
                       /\ j = With([y \in names |-> {}], it.alias, {r})

LEMMA SemiRows ==
  ASSUME NEW left, NEW it, it.kind = "SEMI", NEW rows, NEW names
  PROVE  JoinRows(left, it, rows, names) = {l \in left : Matches(l, it, rows) # {}}
<1> DEFINE matches == [l \in left |-> Matches(l, it, rows)]
<1>1. JoinRows(left, it, rows, names) = Combined(left, it, matches, rows \ UNION Range(matches), names)
  BY DEF JoinRows
<1>2. \A l \in left : matches[l] = Matches(l, it, rows)
  OBVIOUS
<1> HIDE DEF matches
<1>3. Combined(left, it, matches, rows \ UNION Range(matches), names) = left \ {l \in left : matches[l] = {}}
  BY DEF Combined, SemiOrAnti
<1> QED BY <1>1, <1>2, <1>3

LEMMA AntiRows ==
  ASSUME NEW left, NEW it, it.kind = "ANTI", NEW rows, NEW names
  PROVE  JoinRows(left, it, rows, names) = {l \in left : Matches(l, it, rows) = {}}
<1> DEFINE matches == [l \in left |-> Matches(l, it, rows)]
<1>1. JoinRows(left, it, rows, names) = Combined(left, it, matches, rows \ UNION Range(matches), names)
  BY DEF JoinRows
<1>2. \A l \in left : matches[l] = Matches(l, it, rows)
  OBVIOUS
<1> HIDE DEF matches
<1>3. Combined(left, it, matches, rows \ UNION Range(matches), names) = {l \in left : matches[l] = {}}
  BY DEF Combined, SemiOrAnti
<1> QED BY <1>1, <1>2, <1>3

LEMMA OrdinaryRows ==
  ASSUME NEW left, NEW it, ~SemiOrAnti(it), NEW rows, NEW names, NEW j
  PROVE  j \in JoinRows(left, it, rows, names) <=>
           \/ IsMatched(j, left, it, rows)
           \/ IsAlone(j, left, it, rows)
           \/ IsUnmatched(j, left, it, rows, names)
<1> DEFINE a == it.alias
           matches == [l \in left |-> Matches(l, it, rows)]
           unmatched == rows \ UNION Range(matches)
           alone == {l \in left : matches[l] = {}}
           first == UNION {{With(l, a, {r}) : r \in matches[l]} : l \in left}
           second == {With(l, a, {}) : l \in {l \in alone : it.side \in {"LEFT", "FULL"}}}
           third == {With([y \in names |-> {}], a, {r}) :
                       r \in {r \in unmatched : it.side \in {"RIGHT", "FULL"}}}
<1>1. it.kind # "SEMI" /\ it.kind # "ANTI"
  BY DEF SemiOrAnti
<1>2. JoinRows(left, it, rows, names) = Combined(left, it, matches, unmatched, names)
  BY DEF JoinRows
<1>3. Combined(left, it, matches, unmatched, names) = first \cup second \cup third
  BY <1>1 DEF Combined
<1>4. \A l \in left : matches[l] = Matches(l, it, rows)
  OBVIOUS
<1>5. UNION Range(matches) = UNION {Matches(l, it, rows) : l \in left}
  BY DEF Range
<1> HIDE DEF matches, unmatched
<1>6. j \in first <=> IsMatched(j, left, it, rows)
  <2>1. j \in first <=> \E l \in left : j \in {With(l, a, {r}) : r \in matches[l]}
    OBVIOUS
  <2>2. \A l \in left : j \in {With(l, a, {r}) : r \in matches[l]}
                        <=> \E r \in Matches(l, it, rows) : j = With(l, a, {r})
    BY <1>4
  <2> QED BY <2>1, <2>2 DEF IsMatched
<1>7. j \in second <=> IsAlone(j, left, it, rows)
  BY <1>4 DEF IsAlone
<1>8. j \in third <=> IsUnmatched(j, left, it, rows, names)
  <2>1. \A r : r \in unmatched <=> r \in rows /\ \A l \in left : r \notin Matches(l, it, rows)
    BY <1>5 DEF unmatched
  <2> QED BY <2>1 DEF IsUnmatched
<1> HIDE DEF first, second, third
<1> QED BY <1>2, <1>3, <1>6, <1>7, <1>8

NoneOf(A) == [y \in A |-> {}]

(* Rows over the sources A.                                                  *)
AllOver(rows, A) == \A j \in rows : Over(j, A)

LEMMA NoneNarrowed ==
  ASSUME NEW A, NEW x
  PROVE  Over(NoneOf(A), A) /\ Narrowed(NoneOf(A), x) = NoneOf(A \ {x})
BY DEF NoneOf, Over, Narrowed

(* What an ordinary join adds a source to: a row it was given, or none.      *)
Extended(j, left, it, rows, names) ==
    \/ \E l \in left : \E r \in rows : r \in Matches(l, it, rows) /\ j = With(l, it.alias, {r})
    \/ \E l \in left : j = With(l, it.alias, {})
    \/ \E r \in rows : /\ \A l \in left : r \notin Matches(l, it, rows)
                       /\ j = With(NoneOf(names), it.alias, {r})

LEMMA JoinedRow ==
  ASSUME NEW left, NEW it, ~SemiOrAnti(it), NEW rows, NEW names,
         NEW j \in JoinRows(left, it, rows, names)
  PROVE  Extended(j, left, it, rows, names)
<1>1. \/ IsMatched(j, left, it, rows)
      \/ IsAlone(j, left, it, rows)
      \/ IsUnmatched(j, left, it, rows, names)
  BY OrdinaryRows
<1>2. \A l \in left : Matches(l, it, rows) \subseteq rows
  BY DEF Matches
<1>3. CASE IsMatched(j, left, it, rows)
  BY <1>2, <1>3 DEF IsMatched, Extended
<1>4. CASE IsAlone(j, left, it, rows)
  BY <1>4 DEF IsAlone, Extended
<1>5. CASE IsUnmatched(j, left, it, rows, names)
  BY <1>5 DEF IsUnmatched, NoneOf, Extended
<1> QED BY <1>1, <1>3, <1>4, <1>5

LEMMA JoinRowsOver ==
  ASSUME NEW A, NEW left, AllOver(left, A), NEW it, NEW rows
  PROVE  AllOver(JoinRows(left, it, rows, A), IF SemiOrAnti(it) THEN A ELSE A \cup {it.alias})
<1>1. CASE it.kind = "SEMI"
  BY <1>1, SemiRows DEF AllOver, SemiOrAnti
<1>2. CASE it.kind = "ANTI"
  BY <1>2, AntiRows DEF AllOver, SemiOrAnti
<1>3. CASE ~SemiOrAnti(it)
  <2>1. ASSUME NEW j \in JoinRows(left, it, rows, A)
        PROVE  Over(j, A \cup {it.alias})
    <3>1. Extended(j, left, it, rows, A)
      BY <1>3, <2>1, JoinedRow
    <3>4. \E l, R : (l \in left \/ l = NoneOf(A)) /\ j = With(l, it.alias, R)
      BY <3>1 DEF Extended
    <3>5. PICK l, R : (l \in left \/ l = NoneOf(A)) /\ j = With(l, it.alias, R)
      BY <3>4
    <3>2. Over(l, A)
      BY <3>5, NoneNarrowed DEF AllOver
    <3> QED BY <3>5, <3>2, WithOver
  <2> QED BY <1>3, <2>1 DEF AllOver
<1> QED BY <1>1, <1>2, <1>3 DEF SemiOrAnti

\* A later join that does not mention x keeps x a mere addition to every row.
LEMMA MirrorStep ==
  ASSUME NEW A, NEW x \in A, NEW wide, NEW narrow, AllOver(wide, A), Mirrors(wide, narrow, x),
         NEW it, it.alias \notin A, x \notin TablesOf(it.on), Others(it) \subseteq A, NEW rows
  PROVE  Mirrors(JoinRows(wide, it, rows, A), JoinRows(narrow, it, rows, A \ {x}), x)
<1> DEFINE a == it.alias
           W == JoinRows(wide, it, rows, A)
           N == JoinRows(narrow, it, rows, A \ {x})
<1> SUFFICES Mirrors(W, N, x)
  OBVIOUS
<1>1. \A l \in wide : Over(l, A) /\ Narrowed(l, x) \in narrow
  BY DEF AllOver, Mirrors
<1>2. \A l \in wide : Matches(Narrowed(l, x), it, rows) = Matches(l, it, rows)
  BY <1>1, MatchesNarrowed
<1>3. \A n \in narrow : \E l \in wide : Narrowed(l, x) = n
  BY DEF Mirrors
<1>4. \A j, k \in wide : Narrowed(j, x) = Narrowed(k, x) => j = k
  BY DEF Mirrors
<1>5. a # x
  OBVIOUS
<1>6. CASE it.kind = "SEMI"
  <2>1. W = {l \in wide : Matches(l, it, rows) # {}} /\ N = {l \in narrow : Matches(l, it, rows) # {}}
    BY <1>6, SemiRows
  <2> HIDE DEF W, N
  <2> QED BY <1>1, <1>2, <1>3, <1>4, <2>1 DEF Mirrors
<1>7. CASE it.kind = "ANTI"
  <2>1. W = {l \in wide : Matches(l, it, rows) = {}} /\ N = {l \in narrow : Matches(l, it, rows) = {}}
    BY <1>7, AntiRows
  <2> HIDE DEF W, N
  <2> QED BY <1>1, <1>2, <1>3, <1>4, <2>1 DEF Mirrors
<1>8. CASE ~SemiOrAnti(it)
  <2>1. \A l \in wide : \A R : Narrowed(With(l, a, R), x) = With(Narrowed(l, x), a, R)
    BY <1>1, <1>5, WithNarrowed
  <2>2. \A R : Narrowed(With(NoneOf(A), a, R), x) = With(NoneOf(A \ {x}), a, R)
    BY <1>5, NoneNarrowed, WithNarrowed
  <2>3. \A r : (\A l \in wide : r \notin Matches(l, it, rows)) <=> (\A n \in narrow : r \notin Matches(n, it, rows))
    BY <1>1, <1>2, <1>3
  <2>4. \A j : j \in W <=> \/ IsMatched(j, wide, it, rows)
                           \/ IsAlone(j, wide, it, rows)
                           \/ IsUnmatched(j, wide, it, rows, A)
    BY <1>8, OrdinaryRows
  <2>5. \A j : j \in N <=> \/ IsMatched(j, narrow, it, rows)
                           \/ IsAlone(j, narrow, it, rows)
                           \/ IsUnmatched(j, narrow, it, rows, A \ {x})
    BY <1>8, OrdinaryRows
  <2>6. ASSUME NEW j \in W
        PROVE  Narrowed(j, x) \in N
    <3>1. CASE IsMatched(j, wide, it, rows)
      <4>1. PICK l \in wide : \E r \in Matches(l, it, rows) : j = With(l, a, {r})
        BY <3>1 DEF IsMatched
      <4>9. PICK r \in Matches(l, it, rows) : j = With(l, a, {r})
        BY <4>1
      <4>2. Narrowed(l, x) \in narrow /\ r \in Matches(Narrowed(l, x), it, rows)
        BY <1>1, <1>2
      <4>3. Narrowed(j, x) = With(Narrowed(l, x), a, {r})
        BY <2>1, <4>9
      <4>4. IsMatched(Narrowed(j, x), narrow, it, rows)
        BY <4>2, <4>3 DEF IsMatched
      <4> QED BY <2>5, <4>4
    <3>2. CASE IsAlone(j, wide, it, rows)
      <4>1. it.side \in {"LEFT", "FULL"}
        BY <3>2 DEF IsAlone
      <4>2. PICK l \in wide : Matches(l, it, rows) = {} /\ j = With(l, a, {})
        BY <3>2 DEF IsAlone
      <4>3. Narrowed(l, x) \in narrow /\ Matches(Narrowed(l, x), it, rows) = {}
        BY <1>1, <1>2, <4>2
      <4>4. Narrowed(j, x) = With(Narrowed(l, x), a, {})
        BY <2>1, <4>2
      <4>5. IsAlone(Narrowed(j, x), narrow, it, rows)
        BY <4>1, <4>3, <4>4 DEF IsAlone
      <4> QED BY <2>5, <4>5
    <3>3. CASE IsUnmatched(j, wide, it, rows, A)
      <4>1. it.side \in {"RIGHT", "FULL"}
        BY <3>3 DEF IsUnmatched
      <4>2. PICK r \in rows : /\ \A l \in wide : r \notin Matches(l, it, rows)
                              /\ j = With(NoneOf(A), a, {r})
        BY <3>3 DEF IsUnmatched, NoneOf
      <4>3. \A n \in narrow : r \notin Matches(n, it, rows)
        BY <2>3, <4>2
      <4>4. Narrowed(j, x) = With(NoneOf(A \ {x}), a, {r})
        BY <2>2, <4>2
      <4>5. IsUnmatched(Narrowed(j, x), narrow, it, rows, A \ {x})
        BY <4>1, <4>3, <4>4 DEF IsUnmatched, NoneOf
      <4> QED BY <2>5, <4>5
    <3> HIDE DEF W, N
    <3> QED BY <2>4, <3>1, <3>2, <3>3
  <2>7. ASSUME NEW m \in N
        PROVE  \E j \in W : Narrowed(j, x) = m
    <3>1. CASE IsMatched(m, narrow, it, rows)
      <4>1. PICK n \in narrow : \E r \in Matches(n, it, rows) : m = With(n, a, {r})
        BY <3>1 DEF IsMatched
      <4>9. PICK r \in Matches(n, it, rows) : m = With(n, a, {r})
        BY <4>1
      <4>2. PICK l \in wide : Narrowed(l, x) = n
        BY <1>3
      <4>3. r \in Matches(l, it, rows)
        BY <1>2, <4>9, <4>2
      <4>4. IsMatched(With(l, a, {r}), wide, it, rows)
        BY <4>3 DEF IsMatched
      <4>5. Narrowed(With(l, a, {r}), x) = m
        BY <2>1, <4>9, <4>2
      <4> QED BY <2>4, <4>4, <4>5
    <3>2. CASE IsAlone(m, narrow, it, rows)
      <4>1. it.side \in {"LEFT", "FULL"}
        BY <3>2 DEF IsAlone
      <4>2. PICK n \in narrow : Matches(n, it, rows) = {} /\ m = With(n, a, {})
        BY <3>2 DEF IsAlone
      <4>3. PICK l \in wide : Narrowed(l, x) = n
        BY <1>3
      <4>4. Matches(l, it, rows) = {}
        BY <1>2, <4>2, <4>3
      <4>5. IsAlone(With(l, a, {}), wide, it, rows)
        BY <4>1, <4>4 DEF IsAlone
      <4>6. Narrowed(With(l, a, {}), x) = m
        BY <2>1, <4>2, <4>3
      <4> QED BY <2>4, <4>5, <4>6
    <3>3. CASE IsUnmatched(m, narrow, it, rows, A \ {x})
      <4>1. it.side \in {"RIGHT", "FULL"}
        BY <3>3 DEF IsUnmatched
      <4>2. PICK r \in rows : /\ \A n \in narrow : r \notin Matches(n, it, rows)
                              /\ m = With(NoneOf(A \ {x}), a, {r})
        BY <3>3 DEF IsUnmatched, NoneOf
      <4>3. \A l \in wide : r \notin Matches(l, it, rows)
        BY <2>3, <4>2
      <4>4. IsUnmatched(With(NoneOf(A), a, {r}), wide, it, rows, A)
        BY <4>1, <4>3 DEF IsUnmatched, NoneOf
      <4>5. Narrowed(With(NoneOf(A), a, {r}), x) = m
        BY <2>2, <4>2
      <4> QED BY <2>4, <4>4, <4>5
    <3> HIDE DEF W, N
    <3> QED BY <2>5, <3>1, <3>2, <3>3
  <2>8. ASSUME NEW j \in W, NEW k \in W, Narrowed(j, x) = Narrowed(k, x)
        PROVE  j = k
    <3> DEFINE Given(i, l, R) ==
                 /\ i = With(l, a, R)
                 /\ \/ l \in wide /\ \A r \in R : r \in Matches(l, it, rows)
                    \/ l = NoneOf(A) /\ \E r \in R : \A m \in wide : r \notin Matches(m, it, rows)
    <3>1. ASSUME NEW i \in W
          PROVE  \E l, R : Given(i, l, R)
      <4>9. Extended(i, wide, it, rows, A)
        BY <1>8, <3>1, JoinedRow
      <4> HIDE DEF W
      <4>1. \/ \E l \in wide : \E r \in rows : r \in Matches(l, it, rows) /\ i = With(l, a, {r})
            \/ \E l \in wide : i = With(l, a, {})
            \/ \E r \in rows : /\ \A l \in wide : r \notin Matches(l, it, rows)
                               /\ i = With(NoneOf(A), a, {r})
        BY <4>9 DEF Extended
      <4>2. CASE \E l \in wide : \E r \in rows : r \in Matches(l, it, rows) /\ i = With(l, a, {r})
        <5>1. PICK l \in wide, r \in rows : r \in Matches(l, it, rows) /\ i = With(l, a, {r})
          BY <4>2
        <5>2. Given(i, l, {r})
          BY <5>1
        <5> QED BY <5>2
      <4>3. CASE \E l \in wide : i = With(l, a, {})
        <5>1. PICK l \in wide : i = With(l, a, {})
          BY <4>3
        <5>2. Given(i, l, {})
          BY <5>1
        <5> QED BY <5>2
      <4>4. CASE \E r \in rows : /\ \A l \in wide : r \notin Matches(l, it, rows)
                                 /\ i = With(NoneOf(A), a, {r})
        <5>1. PICK r \in rows : /\ \A l \in wide : r \notin Matches(l, it, rows)
                                /\ i = With(NoneOf(A), a, {r})
          BY <4>4
        <5>2. Given(i, NoneOf(A), {r})
          BY <5>1
        <5> QED BY <5>2
      <4> QED BY <4>1, <4>2, <4>3, <4>4
    <3>2. PICK l, R : Given(j, l, R)
      BY <3>1
    <3>3. PICK m, Q : Given(k, m, Q)
      BY <3>1
    <3>4. Over(l, A) /\ Over(m, A)
      BY <1>1, <3>2, <3>3, NoneNarrowed
    <3>5. Narrowed(j, x) = With(Narrowed(l, x), a, R) /\ Narrowed(k, x) = With(Narrowed(m, x), a, Q)
      BY <2>1, <2>2, <3>2, <3>3, NoneNarrowed
    <3>6. Over(Narrowed(l, x), A \ {x}) /\ Over(Narrowed(m, x), A \ {x})
      BY <3>4, NarrowedOver
    <3>9. With(Narrowed(l, x), a, R) = With(Narrowed(m, x), a, Q)
      BY <2>8, <3>5
    <3>7. Narrowed(l, x) = Narrowed(m, x) /\ R = Q
      BY <3>6, <3>9, WithInjective
    <3>8. l = m
      BY <1>4, <3>2, <3>3, <3>7
    <3> QED BY <3>2, <3>3, <3>7, <3>8
  <2> HIDE DEF W, N
  <2> QED BY <2>6, <2>7, <2>8 DEF Mirrors
<1> QED BY <1>6, <1>7, <1>8 DEF SemiOrAnti

\* A join with exactly one row for each row it is given, or none and a side of its own, adds its source only.
LEMMA MirrorBase ==
  ASSUME NEW A, NEW left, AllOver(left, A), NEW it, it.alias \notin A, ~SemiOrAnti(it), NEW rows,
         it.side \notin {"RIGHT", "FULL"},
         \A l \in left : \A r, s \in Matches(l, it, rows) : r = s,
         it.side = "LEFT" \/ \A l \in left : Matches(l, it, rows) # {}
  PROVE  Mirrors(JoinRows(left, it, rows, A), left, it.alias)
<1> DEFINE x == it.alias
           W == JoinRows(left, it, rows, A)
<1> SUFFICES Mirrors(W, left, x)
  OBVIOUS
<1>1. \A j : j \in W <=> IsMatched(j, left, it, rows) \/ IsAlone(j, left, it, rows)
  <2>1. \A j : ~IsUnmatched(j, left, it, rows, A)
    BY DEF IsUnmatched
  <2> QED BY <2>1, OrdinaryRows
<1> DEFINE Given(j, l) ==
             \/ \E r \in Matches(l, it, rows) : j = With(l, x, {r})
             \/ Matches(l, it, rows) = {} /\ j = With(l, x, {})
<1>2. \A j \in W : \E l \in left : Given(j, l)
  <2> HIDE DEF W
  <2> QED BY <1>1 DEF IsMatched, IsAlone
<1>3. \A l \in left : \E j \in W : Given(j, l)
  <2> HIDE DEF W
  <2> SUFFICES ASSUME NEW l \in left PROVE \E j \in W : Given(j, l)
    OBVIOUS
  <2>1. CASE Matches(l, it, rows) = {}
    <3>1. IsAlone(With(l, x, {}), left, it, rows)
      BY <2>1 DEF IsAlone
    <3> QED BY <1>1, <2>1, <3>1
  <2>2. CASE Matches(l, it, rows) # {}
    <3>1. PICK r \in Matches(l, it, rows) : TRUE
      BY <2>2
    <3>2. IsMatched(With(l, x, {r}), left, it, rows)
      BY <3>1 DEF IsMatched
    <3> QED BY <1>1, <3>1, <3>2
  <2> QED BY <2>1, <2>2
<1> HIDE DEF W
<1>4. ASSUME NEW j, NEW l \in left, Given(j, l)
      PROVE  Narrowed(j, x) = l
  <2>1. PICK R : j = With(l, x, R)
    BY <1>4
  <2>2. Over(l, A)
    BY DEF AllOver
  <2>3. Over(j, A \cup {x}) /\ \A y \in A : j[y] = l[y]
    BY <2>1, <2>2, WithOver, WithOld
  <2>4. (A \cup {x}) \ {x} = A
    OBVIOUS
  <2>5. Over(Narrowed(j, x), A)
    BY <2>3, <2>4, NarrowedOver
  <2>6. \A y \in A : Narrowed(j, x)[y] = l[y]
    BY <2>3, NarrowedAt
  <2> QED BY <2>2, <2>5, <2>6, OverEqual
<1>5. ASSUME NEW j, NEW k, NEW l \in left, Given(j, l), Given(k, l)
      PROVE  j = k
  <2>1. CASE Matches(l, it, rows) = {}
    <3>1. j = With(l, x, {}) /\ k = With(l, x, {})
      BY <1>5, <2>1
    <3> QED BY <3>1
  <2>2. CASE Matches(l, it, rows) # {}
    <3>1. PICK r \in Matches(l, it, rows) : j = With(l, x, {r})
      BY <1>5, <2>2
    <3>2. PICK s \in Matches(l, it, rows) : k = With(l, x, {s})
      BY <1>5, <2>2
    <3>3. r = s
      OBVIOUS
    <3> QED BY <3>1, <3>2, <3>3
  <2> QED BY <2>1, <2>2
<1> HIDE DEF Given
<1> QED BY <1>2, <1>3, <1>4, <1>5 DEF Mirrors

LEMMA FiniteRange ==
  ASSUME NEW f, f = [x \in DOMAIN f |-> f[x]], IsFiniteSet(DOMAIN f)
  PROVE  IsFiniteSet(Range(f))
<1>1. f \in [DOMAIN f -> Range(f)] /\ \A t \in Range(f) : \E s \in DOMAIN f : f[s] = t
  BY DEF Range
<1>2. f \in Surjection(DOMAIN f, Range(f))
  BY <1>1 DEF Surjection
<1> QED BY <1>2, FS_Surjection

-----------------------------------------------------------------------------
(* The rows of the sources.                                                   *)

OneAtMost(rows) == \A r, s \in rows : r = s

(* What SelectRows groups, and what it makes of a group.                      *)
Some(g) == CHOOSE r \in g : TRUE
Filtered(s, table) == {r \in table : Passes(s.where, {r}, {r})}
SameKeys(s, rows, k) == {r \in rows : \A c \in s.group : r[1][c] = k[1][c]}
OutputOf(s, g, rows) == <<[c \in Cols |-> Value(s.out[c], g, rows)], IF s.distinct THEN {} ELSE g>>

LEMMA SomeIn ==
  ASSUME NEW g, g # {}
  PROVE  Some(g) \in g
BY DEF Some

LEMMA GroupedBy ==
  ASSUME NEW s, s.group # {}, NEW rows
  PROVE  Groups(s, rows) = {SameKeys(s, rows, k) : k \in rows}
BY DEF Groups, SameKeys

LEMMA GroupedAll ==
  ASSUME NEW s, s.group = {}, HasAgg(s), NEW rows
  PROVE  Groups(s, rows) = {rows}
BY DEF Groups

LEMMA GroupedApart ==
  ASSUME NEW s, s.group = {}, ~HasAgg(s), NEW rows
  PROVE  Groups(s, rows) = {{r} : r \in rows}
BY DEF Groups

LEMMA OutputsAre ==
  ASSUME NEW s, NEW rows, NEW o
  PROVE  o \in Outputs(s, rows) <=> \E g \in Groups(s, rows) : Passes(s.having, g, rows) /\ o = OutputOf(s, g, rows)
BY DEF Outputs, OutputOf

\* A SELECT gives some of the outputs of the rows that pass its WHERE.
LEMMA SelectRowsIn ==
  ASSUME NEW s, s.limit \in BOOLEAN, NEW table
  PROVE  /\ SelectRows(s, table) \subseteq Outputs(s, Filtered(s, table))
         /\ s.limit => OneAtMost(SelectRows(s, table))
         /\ ~s.limit => SelectRows(s, table) = Outputs(s, Filtered(s, table))
<1> DEFINE all == Outputs(s, Filtered(s, table))
<1>1. SelectRows(s, table) = IF s.limit THEN FirstOf(all) ELSE all
  BY DEF SelectRows, Filtered
<1> HIDE DEF all
<1>2. FirstOf(all) = IF all = {} THEN {} ELSE {Some(all)}
  BY DEF FirstOf, Some
<1>3. FirstOf(all) \subseteq all /\ OneAtMost(FirstOf(all))
  BY <1>2, SomeIn DEF OneAtMost
<1>4. CASE s.limit
  BY <1>1, <1>3, <1>4 DEF all
<1>5. CASE ~s.limit
  BY <1>1, <1>5 DEF all
<1> QED BY <1>4, <1>5

LEMMA FiniteGroups ==
  ASSUME NEW s, NEW rows, IsFiniteSet(rows)
  PROVE  IsFiniteSet(Groups(s, rows))
<1>1. CASE s.group # {}
  <2> DEFINE f == [k \in rows |-> SameKeys(s, rows, k)]
  <2>1. Groups(s, rows) = Range(f)
    BY <1>1, GroupedBy DEF Range
  <2>2. f = [k \in DOMAIN f |-> f[k]] /\ IsFiniteSet(DOMAIN f)
    OBVIOUS
  <2> HIDE DEF f
  <2> QED BY <2>1, <2>2, FiniteRange
<1>2. CASE s.group = {} /\ HasAgg(s)
  BY <1>2, GroupedAll, FS_Singleton
<1>3. CASE s.group = {} /\ ~HasAgg(s)
  <2> DEFINE f == [k \in rows |-> {k}]
  <2>1. Groups(s, rows) = Range(f)
    BY <1>3, GroupedApart DEF Range
  <2>2. f = [k \in DOMAIN f |-> f[k]] /\ IsFiniteSet(DOMAIN f)
    OBVIOUS
  <2> HIDE DEF f
  <2> QED BY <2>1, <2>2, FiniteRange
<1> QED BY <1>1, <1>2, <1>3

LEMMA FiniteOutputs ==
  ASSUME NEW s, NEW rows, IsFiniteSet(rows)
  PROVE  IsFiniteSet(Outputs(s, rows))
<1> DEFINE kept == {g \in Groups(s, rows) : Passes(s.having, g, rows)}
           f == [g \in kept |-> OutputOf(s, g, rows)]
<1>1. IsFiniteSet(kept)
  BY FiniteGroups, FS_Subset
<1>2. Outputs(s, rows) = {OutputOf(s, g, rows) : g \in kept}
  BY DEF Outputs, OutputOf
<1> HIDE DEF kept
<1>3. Outputs(s, rows) = Range(f)
  BY <1>2 DEF Range
<1>4. f = [g \in DOMAIN f |-> f[g]] /\ IsFiniteSet(DOMAIN f)
  BY <1>1
<1> HIDE DEF f
<1> QED BY <1>3, <1>4, FiniteRange

LEMMA FiniteSelect ==
  ASSUME NEW s, s.limit \in BOOLEAN, NEW table, IsFiniteSet(table)
  PROVE  IsFiniteSet(SelectRows(s, table))
<1>1. IsFiniteSet(Filtered(s, table))
  BY FS_Subset DEF Filtered
<1>2. IsFiniteSet(Outputs(s, Filtered(s, table)))
  BY <1>1, FiniteOutputs
<1> QED BY <1>2, SelectRowsIn, FS_Subset

LEMMA FiniteTagged ==
  ASSUME NEW k, NEW rows, IsFiniteSet(rows)
  PROVE  IsFiniteSet(Tagged(k, rows))
<1> DEFINE f == [r \in rows |-> <<r[1], <<k, r[2]>>>>]
<1>1. Tagged(k, rows) = Range(f)
  BY DEF Tagged, Range
<1>2. f = [r \in DOMAIN f |-> f[r]] /\ IsFiniteSet(DOMAIN f)
  OBVIOUS
<1> HIDE DEF f
<1> QED BY <1>1, <1>2, FiniteRange

LEMMA FiniteTable ==
  ASSUME NEW db \in Databases, NEW s, SelectShaped(s)
  PROVE  IsFiniteSet(TableRows(s.from, db))
<1>1. CASE s.from = NoTable
  BY <1>1, FS_Singleton DEF TableRows
<1>2. CASE s.from # NoTable
  BY <1>2, DatabasesAssumption DEF TableRows, SelectShaped, TableNames
<1> QED BY <1>1, <1>2

(* The rows of one part of a source, and of all parts of a union.             *)
PartRows(k, s, db) == Tagged(k, SelectRows(s, TableRows(s.from, db)))
AllRows(source, db) == PartRows(1, source.is.left, db) \cup PartRows(2, source.is.right, db)

LEMMA TableSourceRows ==
  ASSUME NEW source, source.form = "table", NEW db
  PROVE  RowsOf(source, db) = db[source.is]
BY DEF RowsOf

LEMMA SelectSourceRows ==
  ASSUME NEW source, source.form = "select", NEW db
  PROVE  RowsOf(source, db) = PartRows(1, source.is, db)
<1> DEFINE parts == Parts(source)
           F == [k \in DOMAIN parts |-> Tagged(k, SelectRows(parts[k], TableRows(parts[k].from, db)))]
<1>1. parts = <<source.is>>
  BY DEF Parts
<1>2. RowsOf(source, db) = UNION {F[k] : k \in DOMAIN parts}
  BY DEF RowsOf
<1>3. DOMAIN parts = {1} /\ parts[1] = source.is
  BY <1>1
<1> HIDE DEF parts
<1>4. F[1] = PartRows(1, source.is, db)
  BY <1>3 DEF PartRows
<1> HIDE DEF F
<1> QED BY <1>2, <1>3, <1>4

LEMMA UnionSourceRows ==
  ASSUME NEW source, source.form = "union", source.is.all \in BOOLEAN, NEW db
  PROVE  RowsOf(source, db) = IF source.is.all THEN AllRows(source, db)
                              ELSE {<<r[1], 0>> : r \in AllRows(source, db)}
<1> DEFINE parts == Parts(source)
           F == [k \in DOMAIN parts |-> Tagged(k, SelectRows(parts[k], TableRows(parts[k].from, db)))]
           rows == UNION {F[k] : k \in DOMAIN parts}
<1>1. parts = <<source.is.left, source.is.right>>
  BY DEF Parts
<1>2. RowsOf(source, db) = IF ~source.is.all THEN {<<r[1], 0>> : r \in rows} ELSE rows
  BY DEF RowsOf
<1>3. DOMAIN parts = {1, 2} /\ parts[1] = source.is.left /\ parts[2] = source.is.right
  BY <1>1
<1> HIDE DEF parts
<1>4. F[1] = PartRows(1, source.is.left, db) /\ F[2] = PartRows(2, source.is.right, db)
  BY <1>3 DEF PartRows
<1> HIDE DEF F
<1>5. rows = AllRows(source, db)
  BY <1>3, <1>4 DEF AllRows
<1> HIDE DEF rows
<1> QED BY <1>2, <1>5

LEMMA FinitePart ==
  ASSUME NEW db \in Databases, NEW s, SelectShaped(s), NEW k
  PROVE  IsFiniteSet(PartRows(k, s, db))
<1>1. IsFiniteSet(SelectRows(s, TableRows(s.from, db)))
  BY FiniteTable, FiniteSelect DEF SelectShaped
<1> QED BY <1>1, FiniteTagged DEF PartRows

LEMMA FiniteBody ==
  ASSUME NEW db \in Databases, NEW body, BodyShaped(body)
  PROVE  IsFiniteSet(RowsOf(body, db))
<1>1. CASE body.form = "select"
  <2>1. SelectShaped(body.is)
    BY <1>1 DEF BodyShaped
  <2> QED BY <1>1, <2>1, SelectSourceRows, FinitePart
<1>2. CASE body.form = "union"
  <2>1. /\ SelectShaped(body.is.left) /\ SelectShaped(body.is.right)
        /\ body.is.all \in BOOLEAN
    BY <1>2 DEF BodyShaped
  <2> DEFINE both == AllRows(body, db)
             f == [r \in both |-> <<r[1], 0>>]
  <2>2. IsFiniteSet(both)
    BY <2>1, FinitePart, FS_Union DEF AllRows
  <2>3. RowsOf(body, db) = IF body.is.all THEN both ELSE {<<r[1], 0>> : r \in both}
    BY <1>2, <2>1, UnionSourceRows
  <2> HIDE DEF both
  <2>4. {<<r[1], 0>> : r \in both} = Range(f)
    BY DEF Range
  <2>5. f = [r \in DOMAIN f |-> f[r]] /\ IsFiniteSet(DOMAIN f)
    BY <2>2
  <2> HIDE DEF f
  <2>6. IsFiniteSet(Range(f))
    BY <2>5, FiniteRange
  <2> QED BY <2>1, <2>2, <2>3, <2>4, <2>6
<1> QED BY <1>1, <1>2 DEF BodyShaped

LEMMA FiniteSource ==
  ASSUME NEW db \in Databases, NEW q, NEW it, ItemShaped(q, it),
         \A name \in DOMAIN q.ctes : BodyShaped(q.ctes[name])
  PROVE  IsFiniteSet(RowsOf(BodyOf(q, it), db))
<1>1. CASE \E t \in TableNames : it.source = TableSource(t)
  <2>1. PICK t \in TableNames : it.source = TableSource(t)
    BY <1>1
  <2>2. it.source.form = "table" /\ it.source.is = t
    BY <2>1 DEF TableSource, Source
  <2>3. BodyOf(q, it) = it.source
    BY <2>2 DEF BodyOf
  <2>4. IsFiniteSet(db[t])
    BY DatabasesAssumption DEF TableNames
  <2> QED BY <2>2, <2>3, <2>4, TableSourceRows
<1>2. CASE \E name \in DOMAIN q.ctes : it.source = CteSource(name)
  <2>1. PICK name \in DOMAIN q.ctes : it.source = CteSource(name)
    BY <1>2
  <2>2. it.source.form = "cte" /\ it.source.is = name
    BY <2>1 DEF CteSource, Source
  <2>3. BodyOf(q, it) = q.ctes[name]
    BY <2>2 DEF BodyOf
  <2> QED BY <2>3, FiniteBody
<1>3. CASE BodyShaped(it.source)
  <2>1. it.source.form # "cte"
    BY <1>3 DEF BodyShaped
  <2>2. BodyOf(q, it) = it.source
    BY <2>1 DEF BodyOf
  <2> QED BY <1>3, <2>2, FiniteBody
<1> QED BY <1>1, <1>2, <1>3 DEF ItemShaped, SourceShaped

LEMMA OneGroup ==
  ASSUME NEW s, NEW rows, OneAtMost(rows) \/ (s.group = {} /\ HasAgg(s))
  PROVE  OneAtMost(Groups(s, rows))
<1>1. CASE s.group # {}
  BY <1>1, GroupedBy DEF OneAtMost
<1>2. CASE s.group = {} /\ HasAgg(s)
  BY <1>2, GroupedAll DEF OneAtMost
<1>3. CASE s.group = {} /\ ~HasAgg(s)
  <2>1. \A r, t \in rows : r = t
    BY <1>3 DEF OneAtMost
  <2>2. Groups(s, rows) = {{r} : r \in rows}
    BY <1>3, GroupedApart
  <2>3. ASSUME NEW g \in Groups(s, rows), NEW h \in Groups(s, rows)
        PROVE  g = h
    <3>1. PICK r \in rows : g = {r}
      BY <2>2
    <3>2. PICK t \in rows : h = {t}
      BY <2>2
    <3> QED BY <2>1, <3>1, <3>2
  <2> QED BY <2>3 DEF OneAtMost
<1> QED BY <1>1, <1>2, <1>3

LEMMA OneOutput ==
  ASSUME NEW s, NEW rows, OneAtMost(Groups(s, rows))
  PROVE  OneAtMost(Outputs(s, rows))
<1> SUFFICES ASSUME NEW o \in Outputs(s, rows), NEW p \in Outputs(s, rows)
             PROVE  o = p
  BY DEF OneAtMost
<1>1. PICK g \in Groups(s, rows) : o = OutputOf(s, g, rows)
  BY OutputsAre
<1>2. PICK h \in Groups(s, rows) : p = OutputOf(s, h, rows)
  BY OutputsAre
<1>3. g = h
  BY DEF OneAtMost
<1> QED BY <1>1, <1>2, <1>3

\* Of nothing selected there is at most one row.
LEMMA OneOfNoTable ==
  ASSUME NEW s, s.from = NoTable, NEW db
  PROVE  OneAtMost(Filtered(s, TableRows(s.from, db)))
BY DEF TableRows, Filtered, OneAtMost

LEMMA AggregatesOnly ==
  ASSUME NEW s, \A c \in Cols : s.out[c].fn = "max"
  PROVE  HasAgg(s)
BY ColsAssumption DEF HasAgg

\* A SELECT that SingleRow vouches for gives at most one row, unless it is grouped.
LEMMA SingleSelect ==
  ASSUME NEW body, body.form = "select", SelectShaped(body.is), SingleRow(body), AtMostOneRow(body.is), NEW db
  PROVE  OneAtMost(SelectRows(body.is, TableRows(body.is.from, db)))
<1> DEFINE s == body.is
           rows == Filtered(s, TableRows(s.from, db))
<1> SUFFICES OneAtMost(SelectRows(s, TableRows(s.from, db)))
  OBVIOUS
<1>1. s.limit \in BOOLEAN
  BY DEF SelectShaped
<1>2. CASE s.limit
  <2> DEFINE table == TableRows(s.from, db)
  <2>1. /\ SelectRows(s, table) \subseteq Outputs(s, Filtered(s, table))
        /\ s.limit => OneAtMost(SelectRows(s, table))
        /\ ~s.limit => SelectRows(s, table) = Outputs(s, Filtered(s, table))
    BY <1>1, SelectRowsIn
  <2> QED BY <1>2, <2>1
<1>3. CASE ~s.limit
  <2>1. OneAtMost(rows) \/ (s.group = {} /\ HasAgg(s))
    <3>1. CASE s.from = NoTable
      BY <3>1, OneOfNoTable
    <3>2. CASE s.from # NoTable
      BY <1>3, <3>2, AggregatesOnly DEF SingleRow, AtMostOneRow
    <3> QED BY <3>1, <3>2
  <2>2. OneAtMost(Outputs(s, rows))
    BY <2>1, OneGroup, OneOutput
  <2> QED BY <1>1, <2>2, SelectRowsIn DEF OneAtMost
<1> QED BY <1>1, <1>2, <1>3

\* ... and one at least, if nothing inside stops it.
LEMMA SomeSelect ==
  ASSUME NEW body, body.form = "select", SelectShaped(body.is), SingleRow(body), OneRow(body.is), NEW db
  PROVE  SelectRows(body.is, TableRows(body.is.from, db)) # {}
<1> DEFINE s == body.is
           rows == Filtered(s, TableRows(s.from, db))
<1>1. s.limit \in BOOLEAN /\ ~s.limit /\ s.having = {}
  BY DEF SelectShaped, OneRow
<1>2. \A g, all : Passes(s.having, g, all)
  BY <1>1 DEF Passes, Holds
<1>3. Groups(s, rows) # {}
  <2>1. CASE s.from = NoTable
    <3>1. \A r : Passes(s.where, {r}, {r})
      BY <2>1 DEF OneRow, Passes, Holds
    <3>2. rows = {NoRow}
      BY <2>1, <3>1 DEF TableRows, Filtered
    <3> HIDE DEF rows
    <3>3. CASE s.group # {}
      BY <3>2, <3>3, GroupedBy
    <3>4. CASE s.group = {} /\ HasAgg(s)
      BY <3>4, GroupedAll
    <3>5. CASE s.group = {} /\ ~HasAgg(s)
      BY <3>2, <3>5, GroupedApart
    <3> QED BY <3>3, <3>4, <3>5
  <2>2. CASE s.from # NoTable
    <3>1. s.group = {} /\ HasAgg(s)
      BY <1>1, <2>2, AggregatesOnly DEF SingleRow, OneRow, AtMostOneRow
    <3> QED BY <3>1, GroupedAll
  <2> QED BY <2>1, <2>2
<1> HIDE DEF rows
<1>4. PICK g \in Groups(s, rows) : TRUE
  BY <1>3
<1>5. OutputOf(s, g, rows) \in Outputs(s, rows)
  BY <1>2, OutputsAre
<1> QED BY <1>1, <1>5, SelectRowsIn DEF rows

\* Where every key is an output, outputs that agree on the keys come from one group.
LEMMA KeysTellGroups ==
  ASSUME NEW s, s.group # {}, \A g \in s.group : \E c \in Cols : s.out[c] = Col(g), NEW rows,
         NEW o \in Outputs(s, rows), NEW p \in Outputs(s, rows),
         \A c \in Cols : (\E g \in s.group : s.out[c] = Col(g)) => o[1][c] = p[1][c]
  PROVE  o = p
<1>1. PICK k \in rows : o = OutputOf(s, SameKeys(s, rows, k), rows)
  BY OutputsAre, GroupedBy
<1>2. PICK m \in rows : p = OutputOf(s, SameKeys(s, rows, m), rows)
  BY OutputsAre, GroupedBy
<1>3. ASSUME NEW n \in rows, NEW g \in s.group, NEW c \in Cols, s.out[c] = Col(g)
      PROVE  OutputOf(s, SameKeys(s, rows, n), rows)[1][c] = n[1][g]
  <2> DEFINE group == SameKeys(s, rows, n)
  <2>1. n \in group
    BY DEF SameKeys
  <2>2. Some(group) \in group
    BY <2>1, SomeIn
  <2>3. Some(group)[1][g] = n[1][g]
    BY <2>2 DEF SameKeys
  <2>4. Value(s.out[c], group, rows) = Some(group)[1][g]
    <3>1. s.out[c].fn = "column" /\ s.out[c].arg = g
      BY <1>3 DEF Col, Expr
    <3> HIDE DEF group
    <3> QED BY <3>1 DEF Value, Some
  <2>5. OutputOf(s, group, rows)[1][c] = Value(s.out[c], group, rows)
    BY DEF OutputOf
  <2> QED BY <2>3, <2>4, <2>5
<1>4. ASSUME NEW g \in s.group
      PROVE  k[1][g] = m[1][g]
  <2>1. PICK c \in Cols : s.out[c] = Col(g)
    OBVIOUS
  <2>2. o[1][c] = p[1][c]
    BY <2>1
  <2> QED BY <1>1, <1>2, <1>3, <2>1, <2>2
<1>5. SameKeys(s, rows, k) = SameKeys(s, rows, m)
  BY <1>4 DEF SameKeys
<1> QED BY <1>1, <1>2, <1>5

\* What is agreed on in all columns is one value.
LEMMA SameValues ==
  ASSUME NEW s, NEW g, NEW h, NEW all, NEW rest,
         \A c \in Cols : OutputOf(s, g, all)[1][c] = OutputOf(s, h, rest)[1][c]
  PROVE  OutputOf(s, g, all)[1] = OutputOf(s, h, rest)[1]
<1>1. \A c \in Cols : Value(s.out[c], g, all) = Value(s.out[c], h, rest)
  BY DEF OutputOf
<1> QED BY <1>1 DEF OutputOf

(* Rows that agree on the columns C are the same.                             *)
TellsApart(C, rows) == \A r, s \in rows : (\A c \in C : r[1][c] = s[1][c]) => r = s

LEMMA TaggedRow ==
  ASSUME NEW k, NEW rows, NEW t \in Tagged(k, rows)
  PROVE  \E r \in rows : t = <<r[1], <<k, r[2]>>>> /\ t[1] = r[1]
BY DEF Tagged

LEMMA TaggedApart ==
  ASSUME NEW k, NEW rows, NEW C, TellsApart(C, rows)
  PROVE  TellsApart(C, Tagged(k, rows))
<1> SUFFICES ASSUME NEW t \in Tagged(k, rows), NEW u \in Tagged(k, rows), \A c \in C : t[1][c] = u[1][c]
             PROVE  t = u
  BY DEF TellsApart
<1>1. PICK r \in rows : t = <<r[1], <<k, r[2]>>>> /\ t[1] = r[1]
  BY TaggedRow
<1>2. PICK s \in rows : u = <<s[1], <<k, s[2]>>>> /\ u[1] = s[1]
  BY TaggedRow
<1>3. r = s
  BY <1>1, <1>2 DEF TellsApart
<1> QED BY <1>1, <1>2, <1>3

\* unique_outputs tells the rows of a SELECT apart.
LEMMA SelectKeys ==
  ASSUME NEW body, body.form = "select", SelectShaped(body.is), UniqueOutputs(body) # {}, NEW db
  PROVE  TellsApart(UniqueOutputs(body), SelectRows(body.is, TableRows(body.is.from, db)))
<1> DEFINE s == body.is
           C == UniqueOutputs(body)
           table == TableRows(s.from, db)
           rows == Filtered(s, table)
<1> SUFFICES TellsApart(C, SelectRows(s, table))
  OBVIOUS
<1>1. s.limit \in BOOLEAN /\ s.distinct \in BOOLEAN
  BY DEF SelectShaped
<1>2. SelectRows(s, table) \subseteq Outputs(s, rows)
  BY <1>1, SelectRowsIn
<1>3. SaysDistinct(body) <=> s.distinct
  BY DEF SaysDistinct
<1>4. CASE s.distinct
  <2>1. C = Cols
    BY <1>3, <1>4 DEF UniqueOutputs
  <2>2. ASSUME NEW o \in Outputs(s, rows), NEW p \in Outputs(s, rows), \A c \in C : o[1][c] = p[1][c]
        PROVE  o = p
    <3>1. PICK g \in Groups(s, rows) : o = OutputOf(s, g, rows)
      BY OutputsAre
    <3>2. PICK h \in Groups(s, rows) : p = OutputOf(s, h, rows)
      BY OutputsAre
    <3>3. o[1] = p[1]
      BY <2>1, <2>2, <3>1, <3>2, SameValues
    <3>4. o = <<o[1], {}>> /\ p = <<p[1], {}>>
      BY <1>4, <3>1, <3>2 DEF OutputOf
    <3> QED BY <3>3, <3>4
  <2> QED BY <1>2, <2>2 DEF TellsApart
<1>5. CASE ~s.distinct /\ s.group # {}
  <2>1. /\ \A g \in s.group : \E c \in Cols : s.out[c] = Col(g)
        /\ C = {c \in Cols : \E g \in s.group : s.out[c] = Col(g)}
    BY <1>3, <1>5 DEF UniqueOutputs
  <2> HIDE DEF C
  <2>2. ASSUME NEW o \in Outputs(s, rows), NEW p \in Outputs(s, rows), \A c \in C : o[1][c] = p[1][c]
        PROVE  o = p
    BY <1>5, <2>1, <2>2, KeysTellGroups
  <2> QED BY <1>2, <2>2 DEF TellsApart
<1>6. CASE ~s.distinct /\ s.group = {}
  <2>1. SingleRow(body)
    BY <1>3, <1>6 DEF UniqueOutputs
  <2>2. AtMostOneRow(s)
    BY <1>6 DEF AtMostOneRow
  <2> QED BY <2>1, <2>2, SingleSelect DEF TellsApart, OneAtMost
<1> QED BY <1>1, <1>4, <1>5, <1>6

\* ... and the rows of a UNION DISTINCT.
LEMMA UnionKeys ==
  ASSUME NEW source, source.form = "union", BodyShaped(source), ~source.is.all, NEW db
  PROVE  UniqueOutputs(source) = Cols /\ TellsApart(Cols, RowsOf(source, db))
<1>1. UniqueOutputs(source) = Cols
  BY DEF UniqueOutputs, SaysDistinct
<1>2. RowsOf(source, db) = {<<r[1], 0>> : r \in AllRows(source, db)}
  BY UnionSourceRows DEF BodyShaped
<1>3. ASSUME NEW s, NEW k, NEW r \in PartRows(k, s, db), s.limit \in BOOLEAN
      PROVE  r[1] = [c \in Cols |-> r[1][c]]
  <2>1. PICK o \in SelectRows(s, TableRows(s.from, db)) : r[1] = o[1]
    BY TaggedRow DEF PartRows
  <2>2. o \in Outputs(s, Filtered(s, TableRows(s.from, db)))
    BY <1>3, SelectRowsIn
  <2>3. PICK g : o = OutputOf(s, g, Filtered(s, TableRows(s.from, db)))
    BY <2>2, OutputsAre
  <2>4. o[1] = [c \in Cols |-> Value(s.out[c], g, Filtered(s, TableRows(s.from, db)))]
    BY <2>3 DEF OutputOf
  <2> QED BY <2>1, <2>4
<1>4. source.is.left.limit \in BOOLEAN /\ source.is.right.limit \in BOOLEAN
  BY DEF BodyShaped, SelectShaped
<1>5. \A r \in AllRows(source, db) : r[1] = [c \in Cols |-> r[1][c]]
  BY <1>3, <1>4 DEF AllRows
<1>6. ASSUME NEW t \in RowsOf(source, db), NEW u \in RowsOf(source, db), \A c \in Cols : t[1][c] = u[1][c]
      PROVE  t = u
  <2>1. PICK r \in AllRows(source, db) : t = <<r[1], 0>>
    BY <1>2
  <2>2. PICK s \in AllRows(source, db) : u = <<s[1], 0>>
    BY <1>2
  <2>3. \A c \in Cols : r[1][c] = s[1][c]
    BY <1>6, <2>1, <2>2
  <2>4. r[1] = s[1]
    <3> DEFINE v == r[1]
               w == s[1]
    <3>1. v = [c \in Cols |-> v[c]] /\ w = [c \in Cols |-> w[c]]
      BY <1>5
    <3>2. \A c \in Cols : v[c] = w[c]
      BY <2>3
    <3> HIDE DEF v, w
    <3>3. v = w
      BY <3>1, <3>2
    <3> QED BY <3>3 DEF v, w
  <2> QED BY <2>1, <2>2, <2>4
<1> QED BY <1>1, <1>6 DEF TellsApart

(* Equalities are literals of the condition that hold wherever it does: what  *)
(* Vouched asks of a condition in DNF.                                        *)
Common(on) == \A p \in on : InDnf(p) => \A i \in DOMAIN p : CommonEqualities(p) \subseteq p[i]

LEMMA EqualitiesHold ==
  ASSUME NEW on, Common(on), NEW val, Holds(on, val), NEW e \in Equalities(on)
  PROVE  e \in LiteralsOf(on) /\ IsTrue(e.op, val[e.left], val[e.right])
<1>1. \E p \in on : /\ \A i \in DOMAIN p : e \in p[i]
                    /\ \E i \in DOMAIN p : \A l \in p[i] : IsTrue(l.op, val[l.left], val[l.right])
  <2>1. CASE \E p \in on : InDnf(p)
    <3>1. PICK p \in {p \in on : on = {p}} : e \in CommonEqualities(p)
      BY <2>1 DEF Equalities
    <3>2. p \in on /\ InDnf(p)
      BY <2>1, <3>1
    <3>3. \A i \in DOMAIN p : e \in p[i]
      BY <3>1, <3>2 DEF Common
    <3> QED BY <3>2, <3>3 DEF Holds
  <2>2. CASE ~\E p \in on : InDnf(p)
    <3>1. e \in LiteralsOf({p \in on : p = <<p[1]>>})
      BY <2>2 DEF Equalities
    <3>2. PICK p \in on : p = <<p[1]>> /\ e \in Literals(p)
      BY <3>1 DEF LiteralsOf
    <3>3. DOMAIN p = {1}
      BY <3>2
    <3>4. e \in p[1]
      BY <3>2, <3>3 DEF Literals, Range
    <3> QED BY <3>2, <3>3, <3>4 DEF Holds
  <2> QED BY <2>1, <2>2
<1>2. PICK p \in on : /\ \A i \in DOMAIN p : e \in p[i]
                      /\ \E i \in DOMAIN p : \A l \in p[i] : IsTrue(l.op, val[l.left], val[l.right])
  BY <1>1
<1>3. PICK i \in DOMAIN p : \A l \in p[i] : IsTrue(l.op, val[l.left], val[l.right])
  BY <1>2
<1>4. e \in p[i]
  BY <1>2
<1>5. e \in LiteralsOf(on)
  BY <1>4 DEF LiteralsOf, Literals, Range
<1> QED BY <1>3, <1>4, <1>5

LEMMA ValueOfOne ==
  ASSUME NEW r, NEW c
  PROVE  ValueIn({r}, c) = r[1][c]
<1>1. (CHOOSE t \in {r} : TRUE) = r
  OBVIOUS
<1> QED BY <1>1 DEF ValueIn

\* What matches one row has the same in every key.
LEMMA KeysDetermined ==
  ASSUME NEW A, NEW l, Over(l, A), NEW it, it.alias \notin A, Others(it) \subseteq A, Common(it.on), NEW rows,
         NEW r \in Matches(l, it, rows), NEW s \in Matches(l, it, rows), NEW c \in JoinKeys(it)
  PROVE  r[1][c] = s[1][c]
<1> DEFINE x == it.alias
           F(t, col) == Field(With(l, x, {t}), col)
<1>1. PICK e \in Equalities(it.on) : c \in Keys(e, x)
  BY DEF JoinKeys
<1>2. ASSUME NEW t \in Matches(l, it, rows)
      PROVE  e \in LiteralsOf(it.on) /\ IsTrue(e.op, F(t, e.left), F(t, e.right))
  <2> DEFINE val == [col \in MentionedIn(it.on) |-> Field(With(l, it.alias, {t}), col)]
  <2>1. Holds(it.on, val)
    BY DEF Matches
  <2>2. e \in LiteralsOf(it.on) /\ IsTrue(e.op, val[e.left], val[e.right])
    <3> HIDE DEF val
    <3> QED BY <2>1, EqualitiesHold
  <2>3. e.left \in MentionedIn(it.on) /\ e.right \in MentionedIn(it.on)
    BY <2>2 DEF MentionedIn, ColumnsOf
  <2>4. val[e.left] = F(t, e.left) /\ val[e.right] = F(t, e.right)
    BY <2>3
  <2> HIDE DEF val
  <2> QED BY <2>2, <2>4
<1>3. e \in LiteralsOf(it.on)
  BY <1>2
<1>4. \A t, col : col[1] = x => F(t, col) = t[1][col[2]]
  <2> SUFFICES ASSUME NEW t, NEW col, col[1] = x
               PROVE  F(t, col) = t[1][col[2]]
    OBVIOUS
  <2>1. With(l, x, {t})[x] = {t}
    BY WithNew
  <2>2. F(t, col) = ValueIn(With(l, x, {t})[x], col[2])
    BY FieldIsValueIn
  <2> QED BY <2>1, <2>2, ValueOfOne
<1>5. ASSUME NEW col \in {e.left, e.right}, col[1] # x
      PROVE  F(r, col) = F(s, col)
  <2>1. col \in MentionedIn(it.on)
    BY <1>3 DEF MentionedIn, ColumnsOf
  <2>2. col[1] \in A
    BY <1>5, <2>1, MentionedTables DEF Others
  <2>3. With(l, x, {r})[col[1]] = l[col[1]] /\ With(l, x, {s})[col[1]] = l[col[1]]
    BY <1>5, <2>2, WithOld
  <2> QED BY <2>3, FieldIsValueIn
<1>6. e.op = "eq" \/ e.op = "one"
  <2>1. e.op # "eq" /\ e.op # "one" => Keys(e, x) = {}
    BY DEF Keys
  <2> QED BY <1>1, <2>1
<1>7. CASE e.op = "one"
  <2>1. e.left[1] = x /\ c = e.left[2]
    BY <1>1, <1>7 DEF Keys
  <2>2. \A t \in Matches(l, it, rows) : F(t, e.left) = One
    BY <1>2, <1>7 DEF IsTrue
  <2> HIDE DEF F
  <2>3. r[1][c] = F(r, e.left) /\ s[1][c] = F(s, e.left)
    BY <1>4, <2>1
  <2> QED BY <2>2, <2>3
<1>8. CASE e.op = "eq"
  <2>1. \A t \in Matches(l, it, rows) : F(t, e.left) = F(t, e.right)
    BY <1>2, <1>8 DEF IsTrue
  <2>2. \/ e.left[1] = x /\ e.left[2] = c /\ e.right[1] # x
        \/ e.right[1] = x /\ e.right[2] = c /\ e.left[1] # x
    <3> DEFINE own == {d \in ColumnsOf(e) : d[1] = x}
    <3>1. own # ColumnsOf(e) /\ c \in {d[2] : d \in own}
      BY <1>1, <1>8 DEF Keys
    <3> QED BY <3>1 DEF ColumnsOf
  <2>3. CASE e.left[1] = x /\ e.left[2] = c /\ e.right[1] # x
    <3>1. F(r, e.right) = F(s, e.right)
      BY <1>5, <2>3
    <3>2. r[1][c] = F(r, e.left) /\ s[1][c] = F(s, e.left)
      BY <1>4, <2>3
    <3> HIDE DEF F
    <3> QED BY <2>1, <3>1, <3>2
  <2>4. CASE e.right[1] = x /\ e.right[2] = c /\ e.left[1] # x
    <3>1. F(r, e.left) = F(s, e.left)
      BY <1>5, <2>4
    <3>2. r[1][c] = F(r, e.right) /\ s[1][c] = F(s, e.right)
      BY <1>4, <2>4
    <3> HIDE DEF F
    <3> QED BY <2>1, <3>1, <3>2
  <2> QED BY <2>2, <2>3, <2>4
<1> QED BY <1>6, <1>7, <1>8

\* A join that is not needed matches every row exactly once, or at most once and keeps it on its own.
LEMMA UnneededMatchesOnce ==
  ASSUME NEW it, NEW body, BodyShaped(body), Vouched(it, body), it.alias \notin Others(it),
         \/ it.side = "LEFT" /\ UniqueOutputs(body) # {} /\ UniqueOutputs(body) \subseteq JoinKeys(it)
         \/ it.on = {} /\ SingleRow(body),
         NEW db, NEW A, it.alias \notin A, Others(it) \subseteq A, NEW l, Over(l, A)
  PROVE  /\ it.side \in {"LEFT", ""}
         /\ OneAtMost(Matches(l, it, RowsOf(body, db)))
         /\ it.side = "LEFT" \/ Matches(l, it, RowsOf(body, db)) # {}
<1> DEFINE rows == RowsOf(body, db)
           M == Matches(l, it, rows)
<1> SUFFICES it.side \in {"LEFT", ""} /\ OneAtMost(M) /\ (it.side = "LEFT" \/ M # {})
  OBVIOUS
<1>1. M \subseteq rows
  BY DEF Matches
<1>2. CASE it.side = "LEFT" /\ UniqueOutputs(body) # {} /\ UniqueOutputs(body) \subseteq JoinKeys(it)
  <2>1. TellsApart(UniqueOutputs(body), rows)
    <3>1. CASE body.form = "select"
      <4>1. SelectShaped(body.is)
        BY <3>1 DEF BodyShaped
      <4>2. TellsApart(UniqueOutputs(body), SelectRows(body.is, TableRows(body.is.from, db)))
        BY <1>2, <3>1, <4>1, SelectKeys
      <4> QED BY <3>1, <4>2, SelectSourceRows, TaggedApart DEF PartRows
    <3>2. CASE body.form = "union"
      <4>1. ~body.is.all
        BY <3>2 DEF Vouched
      <4> QED BY <3>2, <4>1, UnionKeys
    <3> QED BY <3>1, <3>2 DEF BodyShaped
  <2>2. Common(it.on)
    BY DEF Vouched, Common
  <2>3. ASSUME NEW r \in M, NEW s \in M
        PROVE  r = s
    <3>1. \A c \in UniqueOutputs(body) : r[1][c] = s[1][c]
      BY <1>2, <2>2, KeysDetermined
    <3>2. r \in rows /\ s \in rows
      BY <1>1
    <3> HIDE DEF rows, M
    <3> QED BY <2>1, <3>1, <3>2 DEF TellsApart
  <2> QED BY <1>2, <2>3 DEF OneAtMost
<1>3. CASE it.on = {} /\ SingleRow(body)
  <2>1. M = rows
    BY <1>3 DEF Matches, Holds
  <2>2. body.form = "select" /\ SelectShaped(body.is)
    BY <1>3 DEF SingleRow, BodyShaped
  <2>3. \/ it.side = "LEFT" /\ AtMostOneRow(body.is)
        \/ it.side = "" /\ OneRow(body.is)
    BY <1>3 DEF Vouched
  <2> DEFINE selected == SelectRows(body.is, TableRows(body.is.from, db))
  <2>4. rows = Tagged(1, selected)
    BY <2>2, SelectSourceRows DEF PartRows
  <2>5. OneAtMost(selected)
    BY <1>3, <2>2, <2>3, SingleSelect DEF OneRow
  <2>6. it.side = "" => selected # {}
    BY <1>3, <2>2, <2>3, SomeSelect
  <2> HIDE DEF selected, M, rows
  <2>7. OneAtMost(rows)
    <3>1. ASSUME NEW t \in rows, NEW u \in rows
          PROVE  t = u
      <4>1. PICK r \in selected : t = <<r[1], <<1, r[2]>>>>
        BY <2>4, TaggedRow
      <4>2. PICK s \in selected : u = <<s[1], <<1, s[2]>>>>
        BY <2>4, TaggedRow
      <4> QED BY <2>5, <4>1, <4>2 DEF OneAtMost
    <3> QED BY <3>1 DEF OneAtMost
  <2>8. it.side = "" => rows # {}
    BY <2>4, <2>6 DEF Tagged
  <2> QED BY <2>1, <2>3, <2>7, <2>8
<1> QED BY <1>2, <1>3

\* Induction, over a set instead of a predicate.
LEMMA InductionUpTo ==
  ASSUME NEW n \in Nat, NEW S, 0 \in S, \A i \in 1 .. n : i - 1 \in S => i \in S
  PROVE  0 .. n \subseteq S
<1> DEFINE R == {ss \in Nat \X Nat : ss[1] < ss[2]}
           W == (0 .. n) \ S
<1>1. IsWellFoundedOn(R, Nat)
  <2>1. R = OpToRel(<, Nat)
    BY Zenon DEF OpToRel
  <2>2. IsWellFoundedOn(OpToRel(<, Nat), Nat)
    BY NatLessThanWellFounded, Zenon
  <2> QED BY <2>1, <2>2, Zenon
<1>2. \A x, y \in Nat : <<y, x>> \in R <=> y < x
  OBVIOUS
<1>3. W \subseteq Nat
  OBVIOUS
<1> HIDE DEF R, W
<1>4. ASSUME W # {} PROVE FALSE
  <2>1. PICK x \in W : \A y \in W : ~(<<y, x>> \in R)
    BY <1>1, <1>3, <1>4, WFMin
  <2>2. \A y \in W : ~(y < x)
    BY <1>2, <1>3, <2>1
  <2>3. x \in 0 .. n /\ x \notin S
    BY DEF W
  <2>4. x \in 1 .. n /\ x - 1 \in 0 .. n /\ x - 1 < x
    BY <2>3
  <2>5. x - 1 \in S
    BY <2>2, <2>4 DEF W
  <2> QED BY <2>3, <2>4, <2>5
<1> QED BY <1>4 DEF W

-----------------------------------------------------------------------------
(* The joined rows, item by item.                                             *)

FirstRows(q, db) == {[x \in {q.items[1].alias} |-> {r}] : r \in ItemRows(q, 1, db)}
JoinedCell(q, db, g, i) ==
    IF i = 1 THEN FirstRows(q, db)
    ELSE JoinRows(g[i - 1], q.items[i], ItemRows(q, i, db), Visible(q, i - 1))

LEMMA JoinedUpToChosen ==
  ASSUME NEW q, NEW db
  PROVE  JoinedUpTo(q, db) = CHOOSE g : g = [i \in DOMAIN q.items |-> JoinedCell(q, db, g, i)]
BY DEF JoinedUpTo, JoinedCell, FirstRows

LEMMA JoinedTable ==
  ASSUME NEW q, NEW db, NEW n \in Nat, DOMAIN q.items = 1 .. n
  PROVE  JoinedUpTo(q, db) = [i \in 1 .. n |-> JoinedCell(q, db, JoinedUpTo(q, db), i)]
<1> DEFINE D == 1 .. n
           Filled(k, g) == /\ g = [i \in D |-> g[i]]
                           /\ \A i \in 1 .. k : g[i] = JoinedCell(q, db, g, i)
           K == {k \in 0 .. n : \E g : Filled(k, g)}
<1>1. 0 \in K
  <2> DEFINE g == [i \in D |-> {}]
  <2>1. g = [i \in D |-> g[i]] /\ 0 \in 0 .. n /\ \A i \in 1 .. 0 : g[i] = JoinedCell(q, db, g, i)
    OBVIOUS
  <2> HIDE DEF g
  <2>2. Filled(0, g)
    BY <2>1, Zenon
  <2> HIDE DEF Filled
  <2> QED BY <2>1, <2>2
<1>2. ASSUME NEW k \in 1 .. n, k - 1 \in K PROVE k \in K
  <2>1. PICK g : Filled(k - 1, g)
    BY <1>2
  <2> DEFINE h == [i \in D |-> IF i = k THEN JoinedCell(q, db, g, k) ELSE g[i]]
  <2>2. h = [i \in D |-> h[i]] /\ k \in 0 .. n
    OBVIOUS
  <2>3. ASSUME NEW i \in 1 .. k PROVE h[i] = JoinedCell(q, db, h, i)
    <3>1. i \in D /\ (i # 1 => i - 1 \in D /\ i - 1 # k)
      OBVIOUS
    <3>2. i # 1 => h[i - 1] = g[i - 1]
      BY <3>1
    <3>3. JoinedCell(q, db, h, i) = JoinedCell(q, db, g, i)
      <4> HIDE DEF h
      <4> QED BY <3>2 DEF JoinedCell
    <3>4. CASE i = k
      BY <3>1, <3>3, <3>4
    <3>5. CASE i # k
      <4>1. i \in 1 .. (k - 1)
        BY <3>5
      <4>2. g[i] = JoinedCell(q, db, g, i)
        BY <2>1, <4>1
      <4>3. h[i] = g[i]
        BY <3>1, <3>5
      <4> QED BY <3>3, <4>2, <4>3
    <3> QED BY <3>4, <3>5
  <2> HIDE DEF h
  <2>4. Filled(k, h)
    BY <2>2, <2>3, Zenon
  <2> HIDE DEF Filled
  <2> QED BY <2>2, <2>4
<1>3. n \in K
  <2> HIDE DEF K
  <2>1. 0 .. n \subseteq K
    BY <1>1, <1>2, InductionUpTo
  <2> QED BY <2>1
<1>4. PICK g : Filled(n, g)
  BY <1>3
<1>5. g = [i \in DOMAIN q.items |-> JoinedCell(q, db, g, i)]
  BY <1>4
<1>6. JoinedUpTo(q, db) = [i \in DOMAIN q.items |-> JoinedCell(q, db, JoinedUpTo(q, db), i)]
  <2> DEFINE T == CHOOSE t : t = [i \in DOMAIN q.items |-> JoinedCell(q, db, t, i)]
  <2>1. T = [i \in DOMAIN q.items |-> JoinedCell(q, db, T, i)]
    BY <1>5, Zenon
  <2> QED BY <2>1, JoinedUpToChosen
<1> QED BY <1>6

LEMMA JoinedStep ==
  ASSUME NEW q, NEW db, NEW n \in Nat \ {0}, DOMAIN q.items = 1 .. n
  PROVE  /\ JoinedUpTo(q, db)[1] = FirstRows(q, db)
         /\ \A i \in 2 .. n : JoinedUpTo(q, db)[i]
              = JoinRows(JoinedUpTo(q, db)[i - 1], q.items[i], ItemRows(q, i, db), Visible(q, i - 1))
<1> DEFINE J == JoinedUpTo(q, db)
<1>1. J = [i \in 1 .. n |-> JoinedCell(q, db, J, i)]
  BY JoinedTable
<1> HIDE DEF J
<1>2. \A i \in 1 .. n : J[i] = JoinedCell(q, db, J, i)
  BY <1>1
<1>3. J[1] = FirstRows(q, db)
  BY <1>2 DEF JoinedCell
<1>4. \A i \in 2 .. n : J[i] = JoinRows(J[i - 1], q.items[i], ItemRows(q, i, db), Visible(q, i - 1))
  BY <1>2 DEF JoinedCell
<1> QED BY <1>3, <1>4 DEF J

-----------------------------------------------------------------------------
(* What is visible after an item.                                             *)

LEMMA ShapedItems ==
  ASSUME NEW q, Shaped(q)
  PROVE  /\ Len(q.items) \in Nat \ {0} /\ DOMAIN q.items = 1 .. Len(q.items)
         /\ \A i \in 1 .. Len(q.items) : ItemShaped(q, q.items[i])
         /\ \A i, j \in 1 .. Len(q.items) : q.items[i].alias = q.items[j].alias => i = j
BY DEF Shaped

LEMMA FirstVisible ==
  ASSUME NEW q, Shaped(q)
  PROVE  Visible(q, 1) = {q.items[1].alias}
<1>1. ~SemiOrAnti(q.items[1])
  BY DEF Shaped
<1>2. {j \in 1 .. 1 : ~SemiOrAnti(q.items[j])} = {1}
  BY <1>1
<1> QED BY <1>2 DEF Visible

LEMMA VisibleStep ==
  ASSUME NEW q, NEW i \in Nat, i > 1
  PROVE  Visible(q, i) = IF SemiOrAnti(q.items[i]) THEN Visible(q, i - 1)
                         ELSE Visible(q, i - 1) \cup {q.items[i].alias}
<1> DEFINE S(k) == {j \in 1 .. k : ~SemiOrAnti(q.items[j])}
<1>1. 1 .. i = (1 .. (i - 1)) \cup {i}
  OBVIOUS
<1>2. S(i) = IF SemiOrAnti(q.items[i]) THEN S(i - 1) ELSE S(i - 1) \cup {i}
  BY <1>1
<1>3. Visible(q, i) = {q.items[j].alias : j \in S(i)} /\ Visible(q, i - 1) = {q.items[j].alias : j \in S(i - 1)}
  BY DEF Visible
<1> HIDE DEF S
<1> QED BY <1>2, <1>3

LEMMA NotVisibleYet ==
  ASSUME NEW q, Shaped(q), NEW k \in 1 .. Len(q.items), NEW i \in Nat, i < k
  PROVE  q.items[k].alias \notin Visible(q, i)
<1>1. ASSUME q.items[k].alias \in Visible(q, i) PROVE FALSE
  <2>1. PICK j \in 1 .. i : q.items[j].alias = q.items[k].alias
    BY <1>1 DEF Visible
  <2>2. j \in 1 .. Len(q.items) /\ j # k
    BY ShapedItems
  <2> QED BY <2>1, <2>2, ShapedItems
<1> QED BY <1>1

-----------------------------------------------------------------------------
(* Joined rows are over what is visible, and finitely many.                   *)

LEMMA FiniteJoin ==
  ASSUME NEW left, IsFiniteSet(left), NEW it, NEW rows, IsFiniteSet(rows), NEW names
  PROVE  IsFiniteSet(JoinRows(left, it, rows, names))
<1>1. CASE it.kind = "SEMI"
  BY <1>1, SemiRows, FS_Subset
<1>2. CASE it.kind = "ANTI"
  BY <1>2, AntiRows, FS_Subset
<1>3. CASE ~SemiOrAnti(it)
  <2> DEFINE L == left \cup {NoneOf(names)}
             R == {{}} \cup {{r} : r \in rows}
             single == [r \in rows |-> {r}]
             f == [p \in L \X R |-> With(p[1], it.alias, p[2])]
  <2>1. IsFiniteSet(L)
    BY FS_Singleton, FS_Union
  <2>2. IsFiniteSet(R)
    <3>1. {{r} : r \in rows} = Range(single)
      BY DEF Range
    <3>2. single = [r \in DOMAIN single |-> single[r]] /\ IsFiniteSet(DOMAIN single)
      OBVIOUS
    <3> HIDE DEF single
    <3>3. IsFiniteSet(Range(single))
      BY <3>2, FiniteRange
    <3>4. IsFiniteSet({{}})
      BY FS_Singleton
    <3> QED BY <3>1, <3>3, <3>4, FS_Union
  <2>3. ASSUME NEW j \in JoinRows(left, it, rows, names)
        PROVE  \E l \in L : \E r \in R : j = With(l, it.alias, r)
    <3>1. Extended(j, left, it, rows, names)
      BY <1>3, <2>3, JoinedRow
    <3> QED BY <3>1 DEF Extended
  <2> HIDE DEF L, R
  <2>4. f = [p \in DOMAIN f |-> f[p]] /\ IsFiniteSet(DOMAIN f)
    BY <2>1, <2>2, FS_Product
  <2>5. \A l \in L : \A r \in R : With(l, it.alias, r) \in Range(f)
    <3> SUFFICES ASSUME NEW l \in L, NEW r \in R PROVE With(l, it.alias, r) \in Range(f)
      OBVIOUS
    <3>1. <<l, r>> \in DOMAIN f /\ f[<<l, r>>] = With(l, it.alias, r)
      OBVIOUS
    <3> HIDE DEF f
    <3> QED BY <3>1 DEF Range
  <2> HIDE DEF f
  <2>6. JoinRows(left, it, rows, names) \subseteq Range(f)
    BY <2>3, <2>5
  <2> QED BY <2>4, <2>6, FiniteRange, FS_Subset
<1> QED BY <1>1, <1>2, <1>3 DEF SemiOrAnti

LEMMA JoinedOver ==
  ASSUME NEW q, Shaped(q), NEW db \in Databases
  PROVE  \A i \in 1 .. Len(q.items) : AllOver(JoinedUpTo(q, db)[i], Visible(q, i)) /\ IsFiniteSet(JoinedUpTo(q, db)[i])
<1> DEFINE n == Len(q.items)
           J == JoinedUpTo(q, db)
           K == {i \in 0 .. n : i > 0 => AllOver(J[i], Visible(q, i)) /\ IsFiniteSet(J[i])}
<1>1. n \in Nat \ {0} /\ DOMAIN q.items = 1 .. n /\ \A i \in 1 .. n : ItemShaped(q, q.items[i])
  BY ShapedItems
<1> HIDE DEF n
<1>2. \A i \in 1 .. n : IsFiniteSet(ItemRows(q, i, db))
  <2>1. \A name \in DOMAIN q.ctes : BodyShaped(q.ctes[name])
    BY DEF Shaped
  <2> QED BY <1>1, <2>1, FiniteSource DEF ItemRows
<1>3. /\ J[1] = FirstRows(q, db)
      /\ \A i \in 2 .. n : J[i] = JoinRows(J[i - 1], q.items[i], ItemRows(q, i, db), Visible(q, i - 1))
  BY <1>1, JoinedStep
<1> HIDE DEF J
<1>4. 0 \in K
  BY <1>1
<1>5. 1 \in K
  <2> DEFINE f == [r \in ItemRows(q, 1, db) |-> [x \in {q.items[1].alias} |-> {r}]]
  <2>1. J[1] = Range(f)
    BY <1>3 DEF FirstRows, Range
  <2>2. f = [r \in DOMAIN f |-> f[r]] /\ IsFiniteSet(DOMAIN f)
    BY <1>1, <1>2
  <2>3. AllOver(J[1], {q.items[1].alias})
    BY <1>3 DEF FirstRows, AllOver, Over
  <2> HIDE DEF f
  <2>4. IsFiniteSet(J[1])
    BY <2>1, <2>2, FiniteRange
  <2>5. Visible(q, 1) = {q.items[1].alias}
    BY FirstVisible
  <2>6. 1 \in 0 .. n
    BY <1>1
  <2> QED BY <2>3, <2>4, <2>5, <2>6
<1>6. ASSUME NEW i \in 1 .. n, i - 1 \in K PROVE i \in K
  <2>1. CASE i = 1
    BY <1>5, <2>1
  <2>2. CASE i # 1
    <3>1. i \in 2 .. n /\ i - 1 > 0 /\ i \in Nat /\ i > 1 /\ i \in 0 .. n
      BY <1>1, <2>2
    <3>2. AllOver(J[i - 1], Visible(q, i - 1)) /\ IsFiniteSet(J[i - 1])
      BY <1>6, <3>1
    <3>3. J[i] = JoinRows(J[i - 1], q.items[i], ItemRows(q, i, db), Visible(q, i - 1))
      BY <1>3, <3>1
    <3>6. Visible(q, i) = IF SemiOrAnti(q.items[i]) THEN Visible(q, i - 1)
                          ELSE Visible(q, i - 1) \cup {q.items[i].alias}
      BY <3>1, VisibleStep
    <3>7. AllOver(JoinRows(J[i - 1], q.items[i], ItemRows(q, i, db), Visible(q, i - 1)),
                  IF SemiOrAnti(q.items[i]) THEN Visible(q, i - 1)
                  ELSE Visible(q, i - 1) \cup {q.items[i].alias})
      BY <3>2, JoinRowsOver
    <3>4. AllOver(J[i], Visible(q, i))
      BY <3>3, <3>6, <3>7
    <3>5. IsFiniteSet(J[i])
      BY <1>2, <3>2, <3>3, FiniteJoin
    <3> QED BY <3>1, <3>4, <3>5
  <2> QED BY <2>1, <2>2
<1> HIDE DEF K
<1>7. 0 .. n \subseteq K
  BY <1>1, <1>4, <1>6, InductionUpTo
<1>8. \A i \in 1 .. n : i \in K /\ i > 0
  BY <1>1, <1>7
<1> QED BY <1>8 DEF K, J, n

-----------------------------------------------------------------------------
(* A query without one of its joins.                                          *)

LEMMA WithoutOne ==
  ASSUME NEW s, s \in Seq(Range(s)), NEW i \in 1 .. Len(s)
  PROVE  /\ RemoveAt(s, i) \in Seq(Range(s))
         /\ Len(RemoveAt(s, i)) = Len(s) - 1
         /\ \A k \in 1 .. (Len(s) - 1) : RemoveAt(s, i)[k] = IF k < i THEN s[k] ELSE s[k + 1]
<1>1. /\ Len(s) \in Nat /\ i - 1 \in 0 .. Len(s) /\ i + 1 \in 2 .. (Len(s) + 1)
      /\ \A k \in 1 .. Len(s) : s[k] \in Range(s)
  BY DEF Range
<1> DEFINE a == SubSeq(s, 1, i - 1)
           b == SubSeq(s, i + 1, Len(s))
<1>2. a \in Seq(Range(s)) /\ Len(a) = i - 1 /\ \A k \in 1 .. (i - 1) : a[k] = s[k]
  BY <1>1
<1>3. b \in Seq(Range(s)) /\ Len(b) = Len(s) - i /\ \A k \in 1 .. (Len(s) - i) : b[k] = s[k + i]
  BY <1>1
<1>4. RemoveAt(s, i) = a \o b
  BY DEF RemoveAt
<1> HIDE DEF a, b
<1>5. a \o b \in Seq(Range(s)) /\ Len(a \o b) = Len(s) - 1
  BY <1>1, <1>2, <1>3
<1>6. \A k \in 1 .. (Len(s) - 1) : (a \o b)[k] = IF k < i THEN s[k] ELSE s[k + 1]
  <2> SUFFICES ASSUME NEW k \in 1 .. (Len(s) - 1)
               PROVE  (a \o b)[k] = IF k < i THEN s[k] ELSE s[k + 1]
    OBVIOUS
  <2>1. CASE k < i
    BY <1>1, <1>2, <1>3, <2>1
  <2>2. CASE ~(k < i)
    <3>1. k - (i - 1) \in 1 .. (Len(s) - i) /\ (k - (i - 1)) + i = k + 1
      BY <1>1, <2>2
    <3>2. (a \o b)[k] = b[k - (i - 1)]
      BY <1>1, <1>2, <1>3, <2>2
    <3> QED BY <1>3, <2>2, <3>1, <3>2
  <2> QED BY <2>1, <2>2
<1> QED BY <1>4, <1>5, <1>6

LEMMA WithoutItems ==
  ASSUME NEW q, Shaped(q), NEW i \in 2 .. Len(q.items)
  PROVE  /\ Len(Without(q, i).items) = Len(q.items) - 1
         /\ \A k \in 1 .. (Len(q.items) - 1) :
              Without(q, i).items[k] = IF k < i THEN q.items[k] ELSE q.items[k + 1]
         /\ Without(q, i).where = q.where /\ Without(q, i).uses = q.uses /\ Without(q, i).ctes = q.ctes
<1>1. /\ q = [items |-> q.items, where |-> q.where, uses |-> q.uses, recursive |-> q.recursive, ctes |-> q.ctes]
      /\ q.items \in Seq(Range(q.items))
  BY DEF Shaped
<1>2. /\ Without(q, i).items = RemoveAt(q.items, i)
      /\ Without(q, i).where = q.where /\ Without(q, i).uses = q.uses /\ Without(q, i).ctes = q.ctes
  BY <1>1 DEF Without
<1>3. i \in 1 .. Len(q.items)
  BY <1>1
<1> QED BY <1>1, <1>2, <1>3, WithoutOne

LEMMA WithoutShaped ==
  ASSUME NEW q, Shaped(q), NEW i \in 2 .. Len(q.items)
  PROVE  Shaped(Without(q, i))
<1> DEFINE r == Without(q, i)
           n == Len(q.items)
<1>1. /\ q = [items |-> q.items, where |-> q.where, uses |-> q.uses, recursive |-> q.recursive, ctes |-> q.ctes]
      /\ q.items \in Seq(Range(q.items)) /\ ~SemiOrAnti(q.items[1])
  BY DEF Shaped
<1>2. n \in Nat \ {0} /\ \A k \in 1 .. n : ItemShaped(q, q.items[k])
  BY ShapedItems
<1>3. /\ Len(r.items) = n - 1
      /\ \A k \in 1 .. (n - 1) : r.items[k] = IF k < i THEN q.items[k] ELSE q.items[k + 1]
      /\ r.where = q.where /\ r.uses = q.uses /\ r.ctes = q.ctes
  BY WithoutItems
<1>4. r = [items |-> r.items, where |-> r.where, uses |-> r.uses, recursive |-> r.recursive, ctes |-> r.ctes]
  BY <1>1 DEF Without
<1>5. r.items \in Seq(Range(q.items))
  <2>1. r.items = RemoveAt(q.items, i)
    BY <1>1 DEF Without
  <2>2. i \in 1 .. n
    BY <1>2
  <2> QED BY <1>1, <2>1, <2>2, WithoutOne
<1>6. r.items \in Seq(Range(r.items)) /\ r.items # <<>>
  <2>1. \A k \in 1 .. Len(r.items) : r.items[k] \in Range(r.items)
    BY <1>5 DEF Range
  <2>2. Len(r.items) > 0
    BY <1>2, <1>3
  <2> HIDE DEF r
  <2> QED BY <1>5, <2>1, <2>2
<1>7. DOMAIN r.items = 1 .. (n - 1)
  BY <1>3, <1>5
<1> HIDE DEF r
<1>8. \A k \in 1 .. (n - 1) : k \in 1 .. n /\ k + 1 \in 1 .. n
  BY <1>2
<1> HIDE DEF n
<1>9. ~SemiOrAnti(r.items[1])
  <2>1. 1 \in 1 .. (n - 1) /\ 1 < i
    BY <1>2 DEF n
  <2> QED BY <1>1, <1>3, <2>1
<1>10. \A k \in 1 .. (n - 1) : ItemShaped(r, r.items[k])
  <2>1. \A k \in 1 .. (n - 1) : ItemShaped(q, r.items[k])
    BY <1>2, <1>3, <1>8
  <2> QED BY <1>3, <2>1 DEF ItemShaped, SourceShaped
<1>11. ASSUME NEW k \in 1 .. (n - 1), NEW m \in 1 .. (n - 1), r.items[k].alias = r.items[m].alias
       PROVE  k = m
  <2> DEFINE at(j) == IF j < i THEN j ELSE j + 1
  <2>1. at(k) \in 1 .. n /\ at(m) \in 1 .. n
    BY <1>8
  <2>2. r.items[k] = q.items[at(k)] /\ r.items[m] = q.items[at(m)]
    BY <1>3
  <2>3. at(k) = at(m)
    <3> HIDE DEF at
    <3> QED BY <1>11, <2>1, <2>2, ShapedItems DEF n
  <2> QED BY <1>2, <2>3
<1>12. \A name \in DOMAIN r.ctes : BodyShaped(r.ctes[name])
  BY <1>3 DEF Shaped
<1>13. Shaped(r)
  BY <1>4, <1>6, <1>7, <1>9, <1>10, <1>11, <1>12 DEF Shaped
<1> QED BY <1>13 DEF r

LEMMA WithoutVisibleBefore ==
  ASSUME NEW q, Shaped(q), NEW i \in 2 .. Len(q.items), NEW k \in 0 .. (i - 1)
  PROVE  Visible(Without(q, i), k) = Visible(q, k)
<1>1. \A j \in 1 .. k : Without(q, i).items[j] = q.items[j]
  <2>1. Len(q.items) \in Nat \ {0}
    BY ShapedItems
  <2>2. \A j \in 1 .. k : j \in 1 .. (Len(q.items) - 1) /\ j < i
    BY <2>1
  <2> QED BY <2>2, WithoutItems
<1> QED BY <1>1 DEF Visible

LEMMA WithoutVisibleAfter ==
  ASSUME NEW q, Shaped(q), NEW i \in 2 .. Len(q.items), NEW k \in i .. Len(q.items)
  PROVE  Visible(Without(q, i), k - 1) = Visible(q, k) \ {q.items[i].alias}
<1> DEFINE r == Without(q, i)
           n == Len(q.items)
           x == q.items[i].alias
<1>1. n \in Nat \ {0} /\ \A j, m \in 1 .. n : q.items[j].alias = q.items[m].alias => j = m
  BY ShapedItems
<1>2. \A j \in 1 .. (n - 1) : r.items[j] = IF j < i THEN q.items[j] ELSE q.items[j + 1]
  BY WithoutItems
<1> HIDE DEF r, n, x
<1>3. i \in 1 .. n /\ i \in Nat /\ k \in Nat /\ k <= n /\ i <= k
  BY <1>1 DEF n
<1>4. ASSUME NEW y \in Visible(r, k - 1) PROVE y \in Visible(q, k) \ {x}
  <2>1. PICK j \in 1 .. (k - 1) : ~SemiOrAnti(r.items[j]) /\ y = r.items[j].alias
    BY DEF Visible
  <2> DEFINE m == IF j < i THEN j ELSE j + 1
  <2>2. j \in 1 .. (n - 1) /\ m \in 1 .. k /\ m \in 1 .. n /\ m # i
    BY <1>1, <1>3
  <2>3. r.items[j] = q.items[m]
    BY <1>2, <2>2
  <2> HIDE DEF m
  <2>4. y \in Visible(q, k)
    BY <2>1, <2>2, <2>3 DEF Visible
  <2>5. y # x
    BY <1>1, <1>3, <2>1, <2>2, <2>3 DEF x
  <2> QED BY <2>4, <2>5
<1>5. ASSUME NEW y \in Visible(q, k) \ {x} PROVE y \in Visible(r, k - 1)
  <2>1. PICK m \in 1 .. k : ~SemiOrAnti(q.items[m]) /\ y = q.items[m].alias
    BY DEF Visible
  <2>2. m # i
    BY <2>1 DEF x
  <2> DEFINE j == IF m < i THEN m ELSE m - 1
  <2>3. j \in 1 .. (k - 1) /\ j \in 1 .. (n - 1) /\ (IF j < i THEN j ELSE j + 1) = m
    BY <1>1, <1>3, <2>2
  <2>4. r.items[j] = q.items[m]
    BY <1>2, <2>3
  <2> HIDE DEF j
  <2> QED BY <2>1, <2>3, <2>4 DEF Visible
<1> QED BY <1>4, <1>5 DEF r, x

-----------------------------------------------------------------------------
(* Without an unneeded join the rest of the query is what it was.             *)

LEMMA UnusedElsewhere ==
  ASSUME NEW q, Shaped(q), NEW i \in 2 .. Len(q.items), ~Used(q, i)
  PROVE  /\ q.items[i].alias \notin q.uses /\ q.items[i].alias \notin TablesOf(q.where)
         /\ \A j \in 1 .. Len(q.items) : j # i => q.items[i].alias \notin TablesOf(q.items[j].on)
BY ShapedItems DEF Used

LEMMA WithoutWellFormed ==
  ASSUME NEW q, Shaped(q), WellFormed(q), NEW i \in 2 .. Len(q.items), ~Used(q, i)
  PROVE  WellFormed(Without(q, i))
<1> DEFINE r == Without(q, i)
           n == Len(q.items)
           x == q.items[i].alias
<1>1. n \in Nat \ {0}
  BY ShapedItems
<1>2. /\ Len(r.items) = n - 1
      /\ \A k \in 1 .. (n - 1) : r.items[k] = IF k < i THEN q.items[k] ELSE q.items[k + 1]
      /\ r.where = q.where /\ r.uses = q.uses
  BY WithoutItems
<1>3. /\ x \notin q.uses /\ x \notin TablesOf(q.where)
      /\ \A j \in 1 .. n : j # i => x \notin TablesOf(q.items[j].on)
  BY UnusedElsewhere
<1>4. \A k \in 2 .. n : Others(q.items[k]) \subseteq Visible(q, k - 1)
  BY DEF WellFormed
<1>5. q.uses \cup TablesOf(q.where) \subseteq Visible(q, n)
  BY DEF WellFormed
<1>6. Visible(r, n - 1) = Visible(q, n) \ {x}
  BY <1>1, WithoutVisibleAfter
<1>7. \A k \in 1 .. (i - 1) : Visible(r, k - 1) = Visible(q, k - 1)
  BY <1>1, WithoutVisibleBefore
<1>8. \A k \in i .. n : Visible(r, k - 1) = Visible(q, k) \ {x}
  BY WithoutVisibleAfter
<1>9. i \in 2 .. n
  OBVIOUS
<1> HIDE DEF r, n, x
<1>10. ASSUME NEW k \in 2 .. (n - 1) PROVE Others(r.items[k]) \subseteq Visible(r, k - 1)
  <2>1. CASE k < i
    <3>1. k \in 1 .. (n - 1) /\ k \in 2 .. n /\ k \in 1 .. (i - 1)
      BY <1>1, <1>9, <2>1
    <3> QED BY <1>2, <1>4, <1>7, <2>1, <3>1
  <2>2. CASE ~(k < i)
    <3>1. /\ k \in 1 .. (n - 1) /\ k + 1 \in 2 .. n /\ k + 1 \in 1 .. n /\ k + 1 # i
          /\ k \in i .. n /\ (k + 1) - 1 = k
      BY <1>1, <1>9, <2>2
    <3>2. r.items[k] = q.items[k + 1] /\ x \notin TablesOf(q.items[k + 1].on)
      BY <1>2, <1>3, <2>2, <3>1
    <3>3. Others(q.items[k + 1]) \subseteq Visible(q, k)
      BY <1>4, <3>1
    <3>4. x \notin Others(q.items[k + 1])
      BY <3>2 DEF Others
    <3> QED BY <1>8, <3>1, <3>2, <3>3, <3>4
  <2> QED BY <2>1, <2>2
<1>11. r.uses \cup TablesOf(r.where) \subseteq Visible(r, n - 1)
  BY <1>2, <1>3, <1>5, <1>6
<1>12. WellFormed(r)
  BY <1>2, <1>10, <1>11 DEF WellFormed
<1> QED BY <1>12 DEF r

LEMMA WithoutCare ==
  ASSUME NEW q, Shaped(q), EliminateCare(q), NEW i \in 2 .. Len(q.items), ~Used(q, i)
  PROVE  EliminateCare(Without(q, i))
<1> DEFINE r == Without(q, i)
           n == Len(q.items)
<1>1. n \in Nat \ {0}
  BY ShapedItems
<1>2. /\ Len(r.items) = n - 1 /\ r.ctes = q.ctes
      /\ \A k \in 1 .. (n - 1) : r.items[k] = IF k < i THEN q.items[k] ELSE q.items[k + 1]
  BY WithoutItems
<1>3. WellFormed(r)
  BY WithoutWellFormed DEF EliminateCare
<1>4. \A k \in 2 .. n : Vouched(q.items[k], BodyOf(q, q.items[k]))
  BY DEF EliminateCare
<1> HIDE DEF r, n
<1>5. ASSUME NEW k \in 2 .. (n - 1) PROVE Vouched(r.items[k], BodyOf(r, r.items[k]))
  <2>1. k \in 1 .. (n - 1) /\ k \in 2 .. n /\ k + 1 \in 2 .. n
    BY <1>1
  <2>2. PICK m \in 2 .. n : r.items[k] = q.items[m]
    BY <1>2, <2>1
  <2>3. BodyOf(r, r.items[k]) = BodyOf(q, q.items[m])
    BY <1>2, <2>2 DEF BodyOf
  <2> QED BY <1>4, <2>2, <2>3
<1>6. EliminateCare(r)
  BY <1>2, <1>3, <1>5 DEF EliminateCare
<1> QED BY <1>6 DEF r

-----------------------------------------------------------------------------
(* The rows joined so far, with and without the join.                         *)

LEMMA WithoutRows ==
  ASSUME NEW q, Shaped(q), NEW i \in 2 .. Len(q.items), NEW db, NEW k \in 1 .. (Len(q.items) - 1)
  PROVE  ItemRows(Without(q, i), k, db) = IF k < i THEN ItemRows(q, k, db) ELSE ItemRows(q, k + 1, db)
<1>1. Without(q, i).items[k] = IF k < i THEN q.items[k] ELSE q.items[k + 1]
  BY WithoutItems
<1>2. Without(q, i).ctes = q.ctes
  BY WithoutItems
<1> QED BY <1>1, <1>2 DEF ItemRows, BodyOf

LEMMA JoinedBefore ==
  ASSUME NEW q, Shaped(q), NEW i \in 2 .. Len(q.items), NEW db
  PROVE  \A k \in 1 .. (i - 1) : JoinedUpTo(Without(q, i), db)[k] = JoinedUpTo(q, db)[k]
<1> DEFINE r == Without(q, i)
           n == Len(q.items)
           J == JoinedUpTo(q, db)
           R == JoinedUpTo(r, db)
           K == {k \in 0 .. (i - 1) : k > 0 => R[k] = J[k]}
<1>1. n \in Nat \ {0} /\ DOMAIN q.items = 1 .. n
  BY ShapedItems
<1>2. i \in 2 .. n /\ n - 1 \in Nat \ {0} /\ i - 1 \in Nat
  <2>1. n \in Nat \ {0} /\ i \in 2 .. n
    BY <1>1
  <2> HIDE DEF n
  <2> QED BY <2>1
<1>3. \A k \in 1 .. (n - 1) : r.items[k] = IF k < i THEN q.items[k] ELSE q.items[k + 1]
  BY WithoutItems
<1>4. DOMAIN r.items = 1 .. (n - 1)
  BY <1>1, WithoutItems, WithoutShaped, ShapedItems
<1>5. \A k \in 1 .. (n - 1) : ItemRows(r, k, db) = IF k < i THEN ItemRows(q, k, db) ELSE ItemRows(q, k + 1, db)
  BY WithoutRows
<1>6. /\ J[1] = FirstRows(q, db)
      /\ \A k \in 2 .. n : J[k] = JoinRows(J[k - 1], q.items[k], ItemRows(q, k, db), Visible(q, k - 1))
  BY <1>1, JoinedStep
<1>7. /\ R[1] = FirstRows(r, db)
      /\ \A k \in 2 .. (n - 1) : R[k] = JoinRows(R[k - 1], r.items[k], ItemRows(r, k, db), Visible(r, k - 1))
  BY <1>2, <1>4, JoinedStep
<1>8. \A k \in 0 .. (i - 1) : Visible(r, k) = Visible(q, k)
  BY WithoutVisibleBefore
<1> HIDE DEF r, n, J, R
<1>9. 0 \in K
  BY <1>2
<1>10. ASSUME NEW k \in 1 .. (i - 1), k - 1 \in K PROVE k \in K
  <2>1. k \in 1 .. (n - 1) /\ k < i /\ k \in 0 .. (i - 1)
    BY <1>1, <1>2
  <2>2. r.items[k] = q.items[k] /\ ItemRows(r, k, db) = ItemRows(q, k, db)
    BY <1>3, <1>5, <2>1
  <2>3. CASE k = 1
    <3>1. FirstRows(r, db) = FirstRows(q, db)
      BY <2>2, <2>3 DEF FirstRows
    <3> QED BY <1>6, <1>7, <2>1, <2>3, <3>1
  <2>4. CASE k # 1
    <3>1. k \in 2 .. n /\ k \in 2 .. (n - 1) /\ k - 1 > 0 /\ k - 1 \in 0 .. (i - 1)
      BY <1>1, <1>2, <2>1, <2>4
    <3>2. R[k - 1] = J[k - 1]
      BY <1>10, <3>1
    <3>3. Visible(r, k - 1) = Visible(q, k - 1)
      BY <1>8, <3>1
    <3>4. R[k] = J[k]
      BY <1>6, <1>7, <2>2, <3>1, <3>2, <3>3
    <3> QED BY <2>1, <3>4
  <2> QED BY <2>3, <2>4
<1> HIDE DEF K
<1>11. 0 .. (i - 1) \subseteq K
  BY <1>2, <1>9, <1>10, InductionUpTo
<1>12. \A k \in 1 .. (i - 1) : k \in K /\ k > 0
  BY <1>2, <1>11
<1> QED BY <1>12 DEF K, R, J, r

LEMMA JoinedAt ==
  ASSUME NEW q, Shaped(q), EliminateCare(q), NEW i \in 2 .. Len(q.items), Unneeded(q, i), NEW db \in Databases
  PROVE  Mirrors(JoinedUpTo(q, db)[i], JoinedUpTo(q, db)[i - 1], q.items[i].alias)
<1> DEFINE it == q.items[i]
           body == BodyOf(q, it)
           A == Visible(q, i - 1)
           left == JoinedUpTo(q, db)[i - 1]
           rows == ItemRows(q, i, db)
<1>1. Len(q.items) \in Nat \ {0} /\ DOMAIN q.items = 1 .. Len(q.items)
  BY ShapedItems
<1>2. i \in 1 .. Len(q.items) /\ i - 1 \in 1 .. Len(q.items) /\ i - 1 \in Nat /\ i - 1 < i
  BY <1>1
<1>3. JoinedUpTo(q, db)[i] = JoinRows(left, it, rows, A)
  BY <1>1, JoinedStep
<1>4. AllOver(left, A)
  BY <1>2, JoinedOver
<1>5. it.alias \notin A
  BY <1>2, NotVisibleYet
<1>6. Others(it) \subseteq A
  BY DEF EliminateCare, WellFormed
<1>7. Vouched(it, body)
  BY DEF EliminateCare
<1>8. /\ ~SemiOrAnti(it) /\ body.form # "table"
      /\ \/ it.side = "LEFT" /\ UniqueOutputs(body) # {} /\ UniqueOutputs(body) \subseteq JoinKeys(it)
         \/ it.on = {} /\ SingleRow(body)
  BY DEF Unneeded
<1>9. BodyShaped(body)
  <2>1. ItemShaped(q, it)
    BY <1>2, ShapedItems
  <2>2. \A name \in DOMAIN q.ctes : BodyShaped(q.ctes[name])
    BY DEF Shaped
  <2> HIDE DEF it
  <2>3. CASE \E t \in TableNames : it.source = TableSource(t)
    BY <1>8, <2>3 DEF BodyOf, TableSource, Source
  <2>4. CASE \E name \in DOMAIN q.ctes : it.source = CteSource(name)
    BY <2>2, <2>4 DEF BodyOf, CteSource, Source
  <2>5. CASE BodyShaped(it.source)
    <3>1. it.source.form # "cte"
      BY <2>5 DEF BodyShaped
    <3> QED BY <2>5, <3>1 DEF BodyOf
  <2> QED BY <2>1, <2>3, <2>4, <2>5 DEF ItemShaped, SourceShaped
<1>10. rows = RowsOf(body, db)
  BY DEF ItemRows
<1>11. it.alias \notin Others(it)
  BY DEF Others
<1> HIDE DEF it, body, A, left, rows
<1>12. \A l \in left : Over(l, A)
  BY <1>4 DEF AllOver
<1>13. \A l \in left : /\ it.side \in {"LEFT", ""}
                       /\ OneAtMost(Matches(l, it, rows))
                       /\ it.side = "LEFT" \/ Matches(l, it, rows) # {}
  BY <1>5, <1>6, <1>7, <1>8, <1>9, <1>10, <1>11, <1>12, UnneededMatchesOnce
<1>14. it.side \in {"LEFT", ""}
  BY <1>7, <1>8 DEF Vouched
<1>15. Mirrors(JoinRows(left, it, rows, A), left, it.alias)
  BY <1>4, <1>5, <1>8, <1>13, <1>14, MirrorBase DEF OneAtMost
<1> QED BY <1>3, <1>15 DEF it, left

LEMMA JoinedAfter ==
  ASSUME NEW q, Shaped(q), EliminateCare(q), NEW i \in 2 .. Len(q.items), Unneeded(q, i), NEW db \in Databases
  PROVE  Mirrors(Joined(q, db), Joined(Without(q, i), db), q.items[i].alias)
<1> DEFINE r == Without(q, i)
           n == Len(q.items)
           x == q.items[i].alias
           J == JoinedUpTo(q, db)
           R == JoinedUpTo(r, db)
           K == {k \in 0 .. n : k >= i => Mirrors(J[k], R[k - 1], x)}
<1>1. n \in Nat \ {0} /\ DOMAIN q.items = 1 .. n
  BY ShapedItems
<1>2. i \in 2 .. n /\ n - 1 \in Nat \ {0} /\ i - 1 \in 1 .. (i - 1) /\ i \in 1 .. n
  <2>1. n \in Nat \ {0} /\ i \in 2 .. n
    BY <1>1
  <2> HIDE DEF n
  <2> QED BY <2>1
<1>3. /\ Len(r.items) = n - 1
      /\ \A k \in 1 .. (n - 1) : r.items[k] = IF k < i THEN q.items[k] ELSE q.items[k + 1]
  BY WithoutItems
<1>4. DOMAIN r.items = 1 .. (n - 1)
  BY <1>1, WithoutItems, WithoutShaped, ShapedItems
<1>5. \A k \in 1 .. (n - 1) : ItemRows(r, k, db) = IF k < i THEN ItemRows(q, k, db) ELSE ItemRows(q, k + 1, db)
  BY WithoutRows
<1>6. \A k \in 2 .. n : J[k] = JoinRows(J[k - 1], q.items[k], ItemRows(q, k, db), Visible(q, k - 1))
  BY <1>1, JoinedStep
<1>7. \A k \in 2 .. (n - 1) : R[k] = JoinRows(R[k - 1], r.items[k], ItemRows(r, k, db), Visible(r, k - 1))
  BY <1>2, <1>4, JoinedStep
<1>8. \A k \in i .. n : Visible(r, k - 1) = Visible(q, k) \ {x}
  BY WithoutVisibleAfter
<1>9. \A k \in 1 .. n : AllOver(J[k], Visible(q, k))
  BY JoinedOver
<1>10. Mirrors(J[i], J[i - 1], x)
  BY JoinedAt
<1>11. R[i - 1] = J[i - 1]
  BY <1>2, JoinedBefore
<1>12. ~Used(q, i) /\ ~SemiOrAnti(q.items[i]) /\ WellFormed(q)
  BY DEF Unneeded, EliminateCare
<1>13. \A k \in 1 .. n : k # i => x \notin TablesOf(q.items[k].on)
  BY <1>12, UnusedElsewhere
<1>14. \A k \in 2 .. n : Others(q.items[k]) \subseteq Visible(q, k - 1)
  BY <1>12 DEF WellFormed
<1>15. \A k \in 1 .. n : q.items[k].alias \notin Visible(q, k - 1)
  BY <1>1, NotVisibleYet
<1>16. \A k \in i .. n : x \in Visible(q, k)
  <2> SUFFICES ASSUME NEW k \in i .. n PROVE x \in Visible(q, k)
    OBVIOUS
  <2>1. i \in 1 .. k
    BY <1>1
  <2> QED BY <1>12, <2>1 DEF Visible
<1>17. Joined(q, db) = J[n] /\ Joined(r, db) = R[n - 1]
  BY <1>3 DEF Joined
<1> HIDE DEF r, n, J, R, x
<1>18. 0 \in K
  BY <1>1, <1>2
<1>19. ASSUME NEW k \in 1 .. n, k - 1 \in K PROVE k \in K
  <2>1. k \in 0 .. n
    BY <1>1
  <2>2. CASE k < i
    BY <1>2, <2>1, <2>2
  <2>3. CASE k = i
    BY <1>10, <1>11, <2>1, <2>3
  <2>4. CASE k > i
    <3>1. /\ k \in 2 .. n /\ k - 1 \in 2 .. (n - 1) /\ k - 1 \in i .. n /\ k - 1 \in 1 .. n /\ k # i /\ k - 1 >= i
          /\ k - 1 \in 1 .. (n - 1) /\ (k - 1) + 1 = k /\ ~(k - 1 < i)
      BY <1>1, <1>2, <2>4
    <3>2. Mirrors(J[k - 1], R[(k - 1) - 1], x)
      BY <1>19, <3>1
    <3>3. r.items[k - 1] = q.items[k] /\ ItemRows(r, k - 1, db) = ItemRows(q, k, db)
      BY <1>3, <1>5, <3>1
    <3>4. J[k] = JoinRows(J[k - 1], q.items[k], ItemRows(q, k, db), Visible(q, k - 1))
      BY <1>6, <3>1
    <3>5. R[k - 1] = JoinRows(R[(k - 1) - 1], q.items[k], ItemRows(q, k, db), Visible(q, k - 1) \ {x})
      <4>1. Visible(r, (k - 1) - 1) = Visible(q, k - 1) \ {x}
        BY <1>8, <3>1
      <4>2. R[k - 1] = JoinRows(R[(k - 1) - 1], r.items[k - 1], ItemRows(r, k - 1, db), Visible(r, (k - 1) - 1))
        BY <1>7, <3>1
      <4> QED BY <3>3, <4>1, <4>2
    <3>6. /\ AllOver(J[k - 1], Visible(q, k - 1)) /\ x \in Visible(q, k - 1)
          /\ q.items[k].alias \notin Visible(q, k - 1)
          /\ x \notin TablesOf(q.items[k].on)
          /\ Others(q.items[k]) \subseteq Visible(q, k - 1)
      BY <1>9, <1>13, <1>14, <1>15, <1>16, <3>1
    <3>7. Mirrors(J[k], R[k - 1], x)
      BY <3>2, <3>4, <3>5, <3>6, MirrorStep
    <3> QED BY <2>1, <3>7
  <2> QED BY <1>2, <2>2, <2>3, <2>4
<1> HIDE DEF K
<1>20. 0 .. n \subseteq K
  BY <1>1, <1>18, <1>19, InductionUpTo
<1>21. n \in K /\ n >= i
  BY <1>1, <1>2, <1>20
<1>22. Mirrors(J[n], R[n - 1], x)
  BY <1>21 DEF K
<1> QED BY <1>17, <1>22 DEF r, x

-----------------------------------------------------------------------------
(* The answer of a query: which rows are kept, and what they show.            *)

\* Functions that take each value equally often, one along a bijection of the other's arguments.
LEMMA BagsAlong ==
  ASSUME NEW D, IsFiniteSet(D), NEW E, NEW f, DOMAIN f = D, NEW g, DOMAIN g = E, NEW b,
         b \in [D -> E], \A j, k \in D : b[j] = b[k] => j = k, \A l \in E : \E j \in D : b[j] = l,
         \A j \in D : g[b[j]] = f[j]
  PROVE  BagOf(f) = BagOf(g)
<1>1. Range(f) = Range(g)
  BY DEF Range
<1>2. ASSUME NEW v PROVE Cardinality({j \in D : f[j] = v}) = Cardinality({l \in E : g[l] = v})
  <2> DEFINE S == {j \in D : f[j] = v}
             T == {l \in E : g[l] = v}
             c == [j \in S |-> b[j]]
  <2>1. IsFiniteSet(S)
    BY FS_Subset
  <2>2. c \in [S -> T]
    OBVIOUS
  <2>3. \A j, k \in S : c[j] = c[k] => j = k
    OBVIOUS
  <2>4. \A l \in T : \E j \in S : c[j] = l
    <3> SUFFICES ASSUME NEW l \in T PROVE \E j \in S : c[j] = l
      OBVIOUS
    <3>1. PICK j \in D : b[j] = l
      OBVIOUS
    <3>2. j \in S
      BY <3>1
    <3> QED BY <3>1, <3>2
  <2> HIDE DEF S, T, c
  <2>5. c \in Bijection(S, T)
    BY <2>2, <2>3, <2>4 DEF Bijection, Injection, IsInjective, Surjection
  <2>6. Cardinality(T) = Cardinality(S)
    BY <2>1, <2>5, FS_Bijection DEF ExistsBijection
  <2> QED BY <2>6 DEF S, T
<1> DEFINE F(v) == Cardinality({j \in D : f[j] = v})
           G(v) == Cardinality({l \in E : g[l] = v})
<1>3. \A v : F(v) = G(v)
  BY <1>2
<1>4. BagOf(f) = [v \in Range(f) |-> F(v)]
  BY DEF BagOf
<1>5. BagOf(g) = [v \in Range(g) |-> G(v)]
  BY DEF BagOf
<1> HIDE DEF F, G
<1> QED BY <1>1, <1>3, <1>4, <1>5

\* What a query keeps, and shows, of rows that only have a source nobody uses in addition.
LEMMA SameAnswer ==
  ASSUME NEW q, NEW r, NEW db, r.where = q.where, r.uses = q.uses,
         NEW A, AllOver(Joined(q, db), A), IsFiniteSet(Joined(q, db)), q.uses \cup TablesOf(q.where) \subseteq A,
         NEW x, x \notin q.uses, x \notin TablesOf(q.where), Mirrors(Joined(q, db), Joined(r, db), x)
  PROVE  Answer(q, db) = Answer(r, db)
<1> DEFINE W == Joined(q, db)
           N == Joined(r, db)
           Keeps(j) == Holds(q.where, [col \in MentionedIn(q.where) |-> Field(j, col)])
           D == Kept(q, db)
           E == Kept(r, db)
           f == [j \in D |-> Shown(q, j)]
           g == [j \in E |-> Shown(r, j)]
           b == [j \in D |-> Narrowed(j, x)]
<1>1. D = {j \in W : Keeps(j)} /\ E = {j \in N : Keeps(j)}
  BY DEF Kept
<1>2. \A j \in W : Over(j, A)
  BY DEF AllOver
<1>3. \A j \in W : Keeps(Narrowed(j, x)) <=> Keeps(j)
  <2> SUFFICES ASSUME NEW j \in W PROVE Keeps(Narrowed(j, x)) <=> Keeps(j)
    OBVIOUS
  <2>1. \A col \in MentionedIn(q.where) : col[1] \in A /\ col[1] # x
    BY MentionedTables
  <2>2. \A col \in MentionedIn(q.where) : Field(Narrowed(j, x), col) = Field(j, col)
    BY <1>2, <2>1, FieldNarrowed
  <2>3. [col \in MentionedIn(q.where) |-> Field(Narrowed(j, x), col)] = [col \in MentionedIn(q.where) |-> Field(j, col)]
    BY <2>2
  <2> QED BY <2>3
<1>4. \A j \in W : Shown(r, Narrowed(j, x)) = Shown(q, j)
  <2> SUFFICES ASSUME NEW j \in W PROVE Shown(r, Narrowed(j, x)) = Shown(q, j)
    OBVIOUS
  <2>1. ASSUME NEW y \in q.uses, NEW c \in Cols
        PROVE  Field(Narrowed(j, x), <<y, c>>) = Field(j, <<y, c>>)
    <3>1. <<y, c>>[1] = y /\ y \in A /\ y # x
      OBVIOUS
    <3> QED BY <1>2, <3>1, FieldNarrowed
  <2> QED BY <2>1 DEF Shown
<1> HIDE DEF Keeps
<1>5. IsFiniteSet(D)
  BY <1>1, FS_Subset
<1>6. b \in [D -> E]
  BY <1>1, <1>3 DEF Mirrors
<1>7. \A j, k \in D : b[j] = b[k] => j = k
  BY <1>1 DEF Mirrors
<1>8. \A l \in E : \E j \in D : b[j] = l
  <2> SUFFICES ASSUME NEW l \in E PROVE \E j \in D : b[j] = l
    OBVIOUS
  <2>1. PICK j \in W : Narrowed(j, x) = l
    BY <1>1 DEF Mirrors
  <2>2. j \in D
    BY <1>1, <1>3, <2>1
  <2> QED BY <2>1, <2>2
<1>9. \A j \in D : g[b[j]] = f[j]
  <2> SUFFICES ASSUME NEW j \in D PROVE g[b[j]] = f[j]
    OBVIOUS
  <2>1. b[j] \in E /\ b[j] = Narrowed(j, x) /\ j \in W
    BY <1>1, <1>6
  <2> QED BY <1>4, <2>1
<1>10. DOMAIN f = D /\ DOMAIN g = E
  OBVIOUS
<1>11. Answer(q, db) = BagOf(f) /\ Answer(r, db) = BagOf(g)
  BY DEF Answer
<1> HIDE DEF D, E, f, g, b
<1> QED BY <1>5, <1>6, <1>7, <1>8, <1>9, <1>10, <1>11, BagsAlong

\* eliminate_joins, one join: the query without it has the same answer on every database.
LEMMA WithoutSameAnswer ==
  ASSUME NEW q, Shaped(q), EliminateCare(q), NEW i \in 2 .. Len(q.items), Unneeded(q, i), NEW db \in Databases
  PROVE  Answer(q, db) = Answer(Without(q, i), db)
<1> DEFINE n == Len(q.items)
<1>1. n \in 1 .. n
  BY ShapedItems
<1>2. AllOver(Joined(q, db), Visible(q, n)) /\ IsFiniteSet(Joined(q, db))
  BY <1>1, JoinedOver DEF Joined
<1>3. Mirrors(Joined(q, db), Joined(Without(q, i), db), q.items[i].alias)
  BY JoinedAfter
<1>4. q.items[i].alias \notin q.uses /\ q.items[i].alias \notin TablesOf(q.where)
  BY UnusedElsewhere DEF Unneeded
<1>5. q.uses \cup TablesOf(q.where) \subseteq Visible(q, n)
  BY DEF EliminateCare, WellFormed
<1>6. Without(q, i).where = q.where /\ Without(q, i).uses = q.uses
  BY WithoutItems
<1> QED BY <1>2, <1>3, <1>4, <1>5, <1>6, SameAnswer

-----------------------------------------------------------------------------
(* From the last join to the first.                                           *)

EliminatedCell(q, g, k) ==
    IF k = 0 THEN q
    ELSE LET i == Len(q.items) - k + 1
         IN  IF Unneeded(g[k - 1], i) THEN Without(g[k - 1], i) ELSE g[k - 1]

LEMMA EliminatedChosen ==
  ASSUME NEW q
  PROVE  EliminatedAfter(q) = CHOOSE g : g = [k \in 0 .. (Len(q.items) - 1) |-> EliminatedCell(q, g, k)]
BY DEF EliminatedAfter, EliminatedCell

LEMMA EliminatedTable ==
  ASSUME NEW q, NEW n \in Nat, n = Len(q.items) - 1
  PROVE  EliminatedAfter(q) = [k \in 0 .. n |-> EliminatedCell(q, EliminatedAfter(q), k)]
<1> DEFINE D == 0 .. n
           Filled(k, g) == /\ g = [i \in D |-> g[i]]
                           /\ \A i \in 0 .. k : g[i] = EliminatedCell(q, g, i)
           K == {k \in 0 .. n : \E g : Filled(k, g)}
<1>1. 0 \in K
  <2> DEFINE g == [i \in D |-> q]
  <2>1. g = [i \in D |-> g[i]] /\ 0 \in 0 .. n /\ g[0] = q
    OBVIOUS
  <2> HIDE DEF g
  <2>2. \A i \in 0 .. 0 : g[i] = EliminatedCell(q, g, i)
    BY <2>1 DEF EliminatedCell
  <2>3. Filled(0, g)
    BY <2>1, <2>2, Zenon
  <2> HIDE DEF Filled
  <2> QED BY <2>1, <2>3
<1>2. ASSUME NEW k \in 1 .. n, k - 1 \in K PROVE k \in K
  <2>1. PICK g : Filled(k - 1, g)
    BY <1>2
  <2> DEFINE h == [i \in D |-> IF i = k THEN EliminatedCell(q, g, k) ELSE g[i]]
  <2>2. h = [i \in D |-> h[i]] /\ k \in 0 .. n
    OBVIOUS
  <2>3. ASSUME NEW i \in 0 .. k PROVE h[i] = EliminatedCell(q, h, i)
    <3>1. i \in D /\ (i # 0 => i - 1 \in D /\ i - 1 # k)
      OBVIOUS
    <3>2. i # 0 => h[i - 1] = g[i - 1]
      BY <3>1
    <3>3. EliminatedCell(q, h, i) = EliminatedCell(q, g, i)
      <4> HIDE DEF h
      <4> QED BY <3>2 DEF EliminatedCell
    <3>4. CASE i = k
      BY <3>1, <3>3, <3>4
    <3>5. CASE i # k
      <4>1. i \in 0 .. (k - 1)
        BY <3>5
      <4>2. g[i] = EliminatedCell(q, g, i)
        BY <2>1, <4>1
      <4>3. h[i] = g[i]
        BY <3>1, <3>5
      <4> QED BY <3>3, <4>2, <4>3
    <3> QED BY <3>4, <3>5
  <2> HIDE DEF h
  <2>4. Filled(k, h)
    BY <2>2, <2>3, Zenon
  <2> HIDE DEF Filled
  <2> QED BY <2>2, <2>4
<1>3. n \in K
  <2> HIDE DEF K
  <2>1. 0 .. n \subseteq K
    BY <1>1, <1>2, InductionUpTo
  <2> QED BY <2>1
<1>4. PICK g : Filled(n, g)
  BY <1>3
<1>5. g = [k \in 0 .. (Len(q.items) - 1) |-> EliminatedCell(q, g, k)]
  BY <1>4
<1>6. EliminatedAfter(q) = [k \in 0 .. (Len(q.items) - 1) |-> EliminatedCell(q, EliminatedAfter(q), k)]
  <2> DEFINE T == CHOOSE t : t = [k \in 0 .. (Len(q.items) - 1) |-> EliminatedCell(q, t, k)]
  <2>1. T = [k \in 0 .. (Len(q.items) - 1) |-> EliminatedCell(q, T, k)]
    BY <1>5, Zenon
  <2> QED BY <2>1, EliminatedChosen
<1> QED BY <1>6

(* What holds of the query after every join looked at.                        *)
StillTheSame(q, r) ==
    /\ Shaped(r)
    /\ EliminateCare(q) => EliminateCare(r) /\ \A db \in Databases : Answer(r, db) = Answer(q, db)

LEMMA EliminateSame ==
  ASSUME NEW q, Shaped(q)
  PROVE  StillTheSame(q, Eliminate(q))
<1> DEFINE m == Len(q.items)
           n == m - 1
           E == EliminatedAfter(q)
           K == {k \in 0 .. n : StillTheSame(q, E[k]) /\ Len(E[k].items) >= m - k}
<1>1. m \in Nat \ {0} /\ n \in Nat
  BY ShapedItems
<1>2. E = [k \in 0 .. n |-> EliminatedCell(q, E, k)]
  BY <1>1, EliminatedTable
<1>3. Eliminate(q) = E[n]
  BY DEF Eliminate
<1>4. E[0] = q /\ \A k \in 1 .. n : E[k] = IF Unneeded(E[k - 1], m - k + 1) THEN Without(E[k - 1], m - k + 1)
                                           ELSE E[k - 1]
  <2> DEFINE H == E
  <2>1. \A k \in 0 .. n : H[k] = EliminatedCell(q, H, k)
    BY <1>2
  <2> HIDE DEF H
  <2>2. H[0] = q
    BY <1>1, <2>1 DEF EliminatedCell
  <2>3. \A k \in 1 .. n : H[k] = IF Unneeded(H[k - 1], m - k + 1) THEN Without(H[k - 1], m - k + 1) ELSE H[k - 1]
    BY <1>1, <2>1 DEF EliminatedCell
  <2> QED BY <2>2, <2>3 DEF H
<1> HIDE DEF E
<1>5. 0 \in K
  <2>1. StillTheSame(q, q) /\ Len(q.items) >= m - 0 /\ 0 \in 0 .. n
    BY <1>1 DEF StillTheSame
  <2> QED BY <1>4, <2>1
<1> HIDE DEF m
<1>6. ASSUME NEW k \in 1 .. n, k - 1 \in K PROVE k \in K
  <2> DEFINE p == E[k - 1]
             i == m - k + 1
  <2>1. k \in 0 .. n /\ i \in 2 .. m
    BY <1>1
  <2>2. StillTheSame(q, p) /\ Len(p.items) >= m - (k - 1)
    BY <1>6
  <2>3. Shaped(p) /\ (EliminateCare(q) => EliminateCare(p))
    BY <2>2 DEF StillTheSame
  <2>4. Len(p.items) \in Nat \ {0}
    BY <2>3, ShapedItems
  <2>5. i \in 2 .. Len(p.items)
    BY <1>1, <2>1, <2>2, <2>4
  <2>6. E[k] = IF Unneeded(p, i) THEN Without(p, i) ELSE p
    BY <1>4
  <2> HIDE DEF p, i
  <2>7. CASE Unneeded(p, i)
    <3>1. EliminateCare(p) => \A db \in Databases : Answer(Without(p, i), db) = Answer(p, db)
      BY <2>3, <2>5, <2>7, WithoutSameAnswer
    <3>2. Shaped(Without(p, i))
      BY <2>3, <2>5, WithoutShaped
    <3>3. EliminateCare(p) => EliminateCare(Without(p, i))
      BY <2>3, <2>5, <2>7, WithoutCare DEF Unneeded
    <3>4. StillTheSame(q, Without(p, i))
      BY <2>2, <3>1, <3>2, <3>3 DEF StillTheSame
    <3>5. Len(Without(p, i).items) = Len(p.items) - 1
      BY <2>3, <2>5, WithoutItems
    <3>6. Len(Without(p, i).items) >= m - k
      BY <1>1, <2>1, <2>2, <2>4, <3>5
    <3> QED BY <2>1, <2>6, <2>7, <3>4, <3>6
  <2>8. CASE ~Unneeded(p, i)
    <3>1. Len(p.items) >= m - k
      BY <1>1, <2>1, <2>2, <2>4
    <3> QED BY <2>1, <2>2, <2>6, <2>8, <3>1
  <2> QED BY <2>7, <2>8
<1> HIDE DEF K
<1>7. 0 .. n \subseteq K
  BY <1>1, <1>5, <1>6, InductionUpTo
<1>8. n \in K
  BY <1>1, <1>7
<1> QED BY <1>3, <1>8 DEF K

LEMMA EliminateSameRows ==
  ASSUME NEW q, Shaped(q), EliminateCare(q)
  PROVE  SameRows(q, Eliminate(q), Databases)
BY EliminateSame DEF StillTheSame, SameRows, EliminateCare

-----------------------------------------------------------------------------
(* Every rule leaves the shape.                                               *)

LEMMA ItemsChanged ==
  ASSUME NEW q, Shaped(q), NEW r,
         r = [items |-> r.items, where |-> r.where, uses |-> r.uses, recursive |-> r.recursive, ctes |-> r.ctes],
         r.items = [i \in DOMAIN q.items |-> r.items[i]],
         DOMAIN r.ctes = DOMAIN q.ctes, \A name \in DOMAIN q.ctes : BodyShaped(r.ctes[name]),
         \A i \in DOMAIN q.items : ItemShaped(q, r.items[i]) /\ r.items[i].alias = q.items[i].alias,
         ~SemiOrAnti(r.items[1])
  PROVE  Shaped(r) /\ Len(r.items) = Len(q.items)
<1> DEFINE n == Len(q.items)
           s == r.items
<1>1. n \in Nat \ {0} /\ DOMAIN q.items = 1 .. n
  BY ShapedItems
<1>2. s = [i \in 1 .. n |-> s[i]]
  BY <1>1
<1>3. \A i \in 1 .. n : s[i].alias = q.items[i].alias
  BY <1>1
<1>4. \A i, j \in 1 .. n : q.items[i].alias = q.items[j].alias => i = j
  BY ShapedItems
<1>5. \A i \in 1 .. n : ItemShaped(q, s[i])
  BY <1>1
<1>6. \A it : ItemShaped(q, it) => ItemShaped(r, it)
  BY DEF ItemShaped, SourceShaped
<1> HIDE DEF n
<1>7. s \in Seq(Range(s)) /\ Len(s) = n /\ DOMAIN s = 1 .. n /\ s # <<>>
  <2> HIDE DEF s
  <2>1. DOMAIN s = 1 .. n
    BY <1>2
  <2>2. \A i \in 1 .. n : s[i] \in Range(s)
    BY <2>1 DEF Range
  <2>3. s \in [1 .. n -> Range(s)]
    BY <1>2, <2>2
  <2>4. s \in Seq(Range(s))
    BY <1>1, <2>3, SeqDef
  <2>5. Len(s) = n
    BY <1>1, <2>1, <2>4
  <2> QED BY <1>1, <2>1, <2>4, <2>5
<1>8. \A i \in DOMAIN s : ItemShaped(r, s[i])
  BY <1>5, <1>6, <1>7
<1>9. \A i, j \in DOMAIN s : s[i].alias = s[j].alias => i = j
  <2> HIDE DEF s
  <2>1. \A i, j \in 1 .. n : s[i].alias = s[j].alias => i = j
    BY <1>3, <1>4
  <2> QED BY <1>7, <2>1
<1>10. \A name \in DOMAIN r.ctes : BodyShaped(r.ctes[name])
  OBVIOUS
<1>11. Shaped(r)
  BY <1>7, <1>8, <1>9, <1>10 DEF Shaped
<1> QED BY <1>7, <1>11 DEF n

LEMMA AddWhereShaped ==
  ASSUME NEW s, SelectShaped(s), NEW c
  PROVE  SelectShaped(AddWhere(s, c))
<1>1. \E w, h : AddWhere(s, c) = [s EXCEPT !.where = w, !.having = h]
  BY DEF AddWhere
<1>2. PICK w, h : AddWhere(s, c) = [s EXCEPT !.where = w, !.having = h]
  BY <1>1
<1> QED BY <1>2 DEF SelectShaped

LEMMA AddBodyShaped ==
  ASSUME NEW body, BodyShaped(body), NEW c
  PROVE  BodyShaped(AddBody(body, c)) /\ AddBody(body, c).form = body.form
<1>1. CASE c = {}
  BY <1>1 DEF AddBody
<1>2. CASE c # {}
  <2>1. body = [form |-> body.form, is |-> body.is]
    BY DEF BodyShaped, Source
  <2>2. AddBody(body, c) = [body EXCEPT !.is = AddWhere(body.is, c)]
    BY <1>2 DEF AddBody
  <2>3. AddBody(body, c) = Source(body.form, AddWhere(body.is, c))
    BY <2>1, <2>2 DEF Source
  <2>4. CASE body.form = "select"
    <3>1. SelectShaped(AddWhere(body.is, c))
      BY <2>4, AddWhereShaped DEF BodyShaped
    <3> QED BY <2>3, <2>4, <3>1 DEF BodyShaped, Source
  <2>5. CASE body.form = "union"
    <3>1. body.is = [all |-> body.is.all, left |-> body.is.left, right |-> body.is.right]
      BY <2>5 DEF BodyShaped
    <3>2. \E w, h : AddWhere(body.is, c) = [body.is EXCEPT !.where = w, !.having = h]
      BY DEF AddWhere
    <3>3. AddWhere(body.is, c) = body.is
      BY <3>1, <3>2
    <3> QED BY <2>1, <2>3, <3>3 DEF Source
  <2> QED BY <2>4, <2>5 DEF BodyShaped
<1> QED BY <1>1, <1>2

-----------------------------------------------------------------------------
(* pushdown_predicates                                                        *)

PushedTo(push, at, x) == UNION {n[2] : n \in {n \in push : n[1] = Node(at, x)}}
PushedItem(push, it) ==
    [AddOn(it, PushedTo(push, "join", it.alias)) EXCEPT
       !.source = IF @.form = "select" THEN AddBody(@, PushedTo(push, "select", it.alias)) ELSE @]

LEMMA Applied ==
  ASSUME NEW q, NEW push,
         q = [items |-> q.items, where |-> q.where, uses |-> q.uses, recursive |-> q.recursive, ctes |-> q.ctes]
  PROVE  /\ Apply(q, push) = [items |-> Apply(q, push).items, where |-> q.where, uses |-> q.uses,
                              recursive |-> q.recursive, ctes |-> Apply(q, push).ctes]
         /\ Apply(q, push).items = [i \in DOMAIN q.items |-> PushedItem(push, q.items[i])]
         /\ DOMAIN Apply(q, push).ctes = DOMAIN q.ctes
         /\ \A name \in DOMAIN q.ctes : \E c : Apply(q, push).ctes[name] = AddBody(q.ctes[name], c)
<1> DEFINE cteOf(name) == {it.alias : it \in {it \in Range(q.items) : it.source = CteSource(name)}}
           items == [i \in DOMAIN q.items |-> PushedItem(push, q.items[i])]
           ctes == [n \in DOMAIN q.ctes |-> AddBody(q.ctes[n], UNION {PushedTo(push, "select", x) : x \in cteOf(n)})]
<1>1. Apply(q, push) = [q EXCEPT !.items = items, !.ctes = ctes]
  BY DEF Apply, PushedTo, PushedItem
<1>2. DOMAIN ctes = DOMAIN q.ctes /\ \A name \in DOMAIN q.ctes : \E c : ctes[name] = AddBody(q.ctes[name], c)
  OBVIOUS
<1> HIDE DEF items, ctes
<1>3. Apply(q, push) = [items |-> items, where |-> q.where, uses |-> q.uses, recursive |-> q.recursive, ctes |-> ctes]
  BY <1>1
<1>4. Apply(q, push).items = items /\ Apply(q, push).ctes = ctes
  BY <1>3
<1> QED BY <1>2, <1>3, <1>4 DEF items

LEMMA PushedItemShaped ==
  ASSUME NEW q, NEW it, ItemShaped(q, it), NEW push
  PROVE  /\ ItemShaped(q, PushedItem(push, it))
         /\ PushedItem(push, it).alias = it.alias
         /\ SemiOrAnti(PushedItem(push, it)) <=> SemiOrAnti(it)
         /\ PushedItem(push, it).kind = "CROSS" => it.kind = "CROSS"
<1> DEFINE c == PushedTo(push, "join", it.alias)
           d == PushedTo(push, "select", it.alias)
           on == it.on \cup c
           kind == IF c # {} /\ it.kind = "CROSS" THEN "" ELSE it.kind
           source == IF it.source.form = "select" THEN AddBody(it.source, d) ELSE it.source
           new == PushedItem(push, it)
<1>1. it = [alias |-> it.alias, side |-> it.side, kind |-> it.kind, source |-> it.source, on |-> it.on]
  BY DEF ItemShaped, Item
<1>2. AddOn(it, c) = [it EXCEPT !.on = on, !.kind = kind]
  BY <1>1 DEF AddOn
<1> HIDE DEF c, d
<1>3. AddOn(it, c) = [alias |-> it.alias, side |-> it.side, kind |-> kind, source |-> it.source, on |-> on]
  <2> HIDE DEF kind, on
  <2> QED BY <1>1, <1>2
<1>4. new = [AddOn(it, c) EXCEPT !.source = IF @.form = "select" THEN AddBody(@, d) ELSE @]
  BY DEF PushedItem, c, d
<1>5. new = [alias |-> it.alias, side |-> it.side, kind |-> kind, source |-> source, on |-> on]
  <2> HIDE DEF kind, on, new
  <2> QED BY <1>3, <1>4
<1>6. SourceShaped(q, source)
  <2>1. SourceShaped(q, it.source)
    BY DEF ItemShaped
  <2>2. CASE it.source.form = "select"
    <3>1. \A t : TableSource(t).form = "table" /\ CteSource(t).form = "cte"
      BY DEF TableSource, CteSource, Source
    <3>2. ~(\E t \in TableNames : it.source = TableSource(t))
      BY <2>2, <3>1
    <3>3. ~(\E name \in DOMAIN q.ctes : it.source = CteSource(name))
      BY <2>2, <3>1
    <3>4. BodyShaped(it.source)
      BY <2>1, <3>2, <3>3 DEF SourceShaped
    <3>5. BodyShaped(AddBody(it.source, d))
      BY <3>4, AddBodyShaped
    <3> QED BY <2>2, <3>5 DEF SourceShaped
  <2>3. CASE it.source.form # "select"
    BY <2>1, <2>3
  <2> QED BY <2>2, <2>3
<1>7. /\ (kind = "SEMI" <=> it.kind = "SEMI") /\ (kind = "ANTI" <=> it.kind = "ANTI")
      /\ kind = "CROSS" => it.kind = "CROSS"
  OBVIOUS
<1> HIDE DEF new, kind, source, on
<1>8. /\ new.alias = it.alias /\ new.side = it.side /\ new.kind = kind /\ new.source = source /\ new.on = on
      /\ new = Item(new.alias, new.side, new.kind, new.source, new.on)
  BY <1>5 DEF Item
<1>9. ItemShaped(q, new)
  <2>1. kind = "CROSS" => on = {}
    BY DEF ItemShaped, kind, on
  <2> QED BY <1>6, <1>8, <2>1 DEF ItemShaped
<1>10. SemiOrAnti(new) <=> SemiOrAnti(it)
  BY <1>7, <1>8 DEF SemiOrAnti
<1> QED BY <1>7, <1>8, <1>9, <1>10 DEF new

LEMMA AppliedShaped ==
  ASSUME NEW q, Shaped(q), NEW push
  PROVE  /\ Shaped(Apply(q, push)) /\ Len(Apply(q, push).items) = Len(q.items)
         /\ \A i \in DOMAIN q.items : Apply(q, push).items[i].kind = "CROSS" => q.items[i].kind = "CROSS"
<1> DEFINE r == Apply(q, push)
<1>1. q = [items |-> q.items, where |-> q.where, uses |-> q.uses, recursive |-> q.recursive, ctes |-> q.ctes]
  BY DEF Shaped
<1>2. /\ r = [items |-> r.items, where |-> q.where, uses |-> q.uses, recursive |-> q.recursive, ctes |-> r.ctes]
      /\ r.items = [i \in DOMAIN q.items |-> PushedItem(push, q.items[i])]
      /\ DOMAIN r.ctes = DOMAIN q.ctes
      /\ \A name \in DOMAIN q.ctes : \E c : r.ctes[name] = AddBody(q.ctes[name], c)
  BY <1>1, Applied
<1> HIDE DEF r
<1>3. r = [items |-> r.items, where |-> r.where, uses |-> r.uses, recursive |-> r.recursive, ctes |-> r.ctes]
  BY <1>2
<1>4. \A name \in DOMAIN q.ctes : BodyShaped(r.ctes[name])
  <2>1. \A name \in DOMAIN q.ctes : BodyShaped(q.ctes[name])
    BY DEF Shaped
  <2> QED BY <1>2, <2>1, AddBodyShaped
<1>5. \A i \in DOMAIN q.items : ItemShaped(q, r.items[i]) /\ r.items[i].alias = q.items[i].alias
  <2>1. \A i \in DOMAIN q.items : ItemShaped(q, q.items[i])
    BY DEF Shaped
  <2> QED BY <1>2, <2>1, PushedItemShaped
<1>6. ~SemiOrAnti(r.items[1])
  <2>1. 1 \in DOMAIN q.items /\ ~SemiOrAnti(q.items[1]) /\ ItemShaped(q, q.items[1])
    BY ShapedItems DEF Shaped
  <2> QED BY <1>2, <2>1, PushedItemShaped
<1>7. r.items = [i \in DOMAIN q.items |-> r.items[i]]
  BY <1>2
<1>8. Shaped(r) /\ Len(r.items) = Len(q.items)
  BY <1>2, <1>3, <1>4, <1>5, <1>6, <1>7, ItemsChanged
<1>9. \A i \in DOMAIN q.items : r.items[i].kind = "CROSS" => q.items[i].kind = "CROSS"
  <2>1. \A i \in DOMAIN q.items : ItemShaped(q, q.items[i])
    BY DEF Shaped
  <2> QED BY <1>2, <2>1, PushedItemShaped
<1> QED BY <1>8, <1>9 DEF r

LEMMA ConditionChanged ==
  ASSUME NEW q, Shaped(q), NEW w
  PROVE  Shaped([q EXCEPT !.where = w])
<1> DEFINE r == [q EXCEPT !.where = w]
<1>1. q = [items |-> q.items, where |-> q.where, uses |-> q.uses, recursive |-> q.recursive, ctes |-> q.ctes]
  BY DEF Shaped
<1>2. r = [items |-> q.items, where |-> w, uses |-> q.uses, recursive |-> q.recursive, ctes |-> q.ctes]
  BY <1>1
<1> HIDE DEF r
<1>3. /\ r.items = q.items /\ r.ctes = q.ctes
      /\ r = [items |-> r.items, where |-> r.where, uses |-> r.uses, recursive |-> r.recursive, ctes |-> r.ctes]
  BY <1>2
<1>4. \A it : ItemShaped(q, it) => ItemShaped(r, it)
  BY <1>3 DEF ItemShaped, SourceShaped
<1>5. Shaped(r)
  BY <1>3, <1>4 DEF Shaped
<1> QED BY <1>5 DEF r

LEMMA OnsChanged ==
  ASSUME NEW q, Shaped(q), NEW on, \A i \in DOMAIN q.items : q.items[i].kind = "CROSS" => on[i] = {}
  PROVE  Shaped([q EXCEPT !.items = [i \in DOMAIN q.items |-> [@[i] EXCEPT !.on = on[i]]]])
<1> DEFINE items == [i \in DOMAIN q.items |-> [q.items[i] EXCEPT !.on = on[i]]]
           r == [q EXCEPT !.items = items]
<1>1. q = [items |-> q.items, where |-> q.where, uses |-> q.uses, recursive |-> q.recursive, ctes |-> q.ctes]
  BY DEF Shaped
<1>2. [q EXCEPT !.items = [i \in DOMAIN q.items |-> [@[i] EXCEPT !.on = on[i]]]] = r
  OBVIOUS
<1>3. ASSUME NEW i \in DOMAIN q.items
      PROVE  /\ ItemShaped(q, items[i]) /\ items[i].alias = q.items[i].alias
             /\ SemiOrAnti(items[i]) <=> SemiOrAnti(q.items[i])
  <2> DEFINE it == q.items[i]
             new == items[i]
  <2>1. ItemShaped(q, it)
    BY DEF Shaped
  <2>2. new = [it EXCEPT !.on = on[i]]
    OBVIOUS
  <2> HIDE DEF it, new
  <2>3. it = [alias |-> it.alias, side |-> it.side, kind |-> it.kind, source |-> it.source, on |-> it.on]
    BY <2>1 DEF ItemShaped, Item
  <2>4. new = [alias |-> it.alias, side |-> it.side, kind |-> it.kind, source |-> it.source, on |-> on[i]]
    BY <2>2, <2>3
  <2>5. /\ new.alias = it.alias /\ new.kind = it.kind /\ new.source = it.source
        /\ new = Item(new.alias, new.side, new.kind, new.source, new.on)
        /\ new.kind = "CROSS" => new.on = {}
    BY <2>4 DEF Item, it
  <2>6. ItemShaped(q, new) /\ new.alias = it.alias /\ (SemiOrAnti(new) <=> SemiOrAnti(it))
    BY <2>1, <2>5 DEF ItemShaped, SemiOrAnti
  <2> QED BY <2>6 DEF it, new
<1>4. items = [i \in DOMAIN q.items |-> items[i]]
  OBVIOUS
<1> HIDE DEF items
<1>5. r = [items |-> items, where |-> q.where, uses |-> q.uses, recursive |-> q.recursive, ctes |-> q.ctes]
  BY <1>1
<1> HIDE DEF r
<1>6. /\ r.items = items /\ r.ctes = q.ctes
      /\ r = [items |-> r.items, where |-> r.where, uses |-> r.uses, recursive |-> r.recursive, ctes |-> r.ctes]
  BY <1>5
<1>7. \A name \in DOMAIN q.ctes : BodyShaped(r.ctes[name])
  BY <1>6 DEF Shaped
<1>8. ~SemiOrAnti(r.items[1])
  <2>1. 1 \in DOMAIN q.items /\ ~SemiOrAnti(q.items[1])
    BY ShapedItems DEF Shaped
  <2> QED BY <1>3, <1>6, <2>1
<1>9. r.items = [i \in DOMAIN q.items |-> r.items[i]]
  BY <1>4, <1>6
<1>10. DOMAIN r.ctes = DOMAIN q.ctes
  BY <1>6
<1>11. \A i \in DOMAIN q.items : ItemShaped(q, r.items[i]) /\ r.items[i].alias = q.items[i].alias
  BY <1>3, <1>6
<1>12. Shaped(r) /\ Len(r.items) = Len(q.items)
  BY <1>6, <1>7, <1>8, <1>9, <1>10, <1>11, ItemsChanged
<1> QED BY <1>2, <1>12

\* pushdown_predicates leaves the shape.
LEMMA PushdownShaped ==
  ASSUME NEW q, Shaped(q)
  PROVE  Shaped(Pushdown(q))
<1>1. Shaped(PushWhere(q))
  BY AppliedShaped, ConditionChanged DEF PushWhere
<1>2. ASSUME NEW p, Shaped(p) PROVE Shaped(PushOns(p))
  <2> DEFINE got(it) == IF it.side \in {"RIGHT", "FULL"} \/ it.alias \notin Selected(p)
                        THEN [left |-> it.on, push |-> {}]
                        ELSE Push(p, it.on, [tables \in SUBSET Aliases(p) |-> OnNodes(p, it, tables)])
             all == [i \in DOMAIN p.items |-> got(p.items[i])]
             s == Apply(p, UNION {all[i].push : i \in DOMAIN p.items})
             on == [i \in DOMAIN p.items |-> all[i].left]
  <2>1. PushOns(p) = [s EXCEPT !.items = [i \in DOMAIN p.items |-> [@[i] EXCEPT !.on = all[i].left]]]
    BY DEF PushOns
  <2>6. \A i \in DOMAIN p.items : p.items[i].on = {} => on[i] = {}
    BY DEF Push
  <2>7. \A i \in DOMAIN p.items : p.items[i].kind = "CROSS" => p.items[i].on = {}
    BY <1>2 DEF Shaped, ItemShaped
  <2> HIDE DEF got, all, on
  <2>2. /\ Shaped(s) /\ Len(s.items) = Len(p.items)
        /\ \A i \in DOMAIN p.items : s.items[i].kind = "CROSS" => p.items[i].kind = "CROSS"
    BY <1>2, AppliedShaped
  <2>3. DOMAIN s.items = DOMAIN p.items
    BY <1>2, <2>2, ShapedItems
  <2> HIDE DEF s
  <2>4. PushOns(p) = [s EXCEPT !.items = [i \in DOMAIN s.items |-> [@[i] EXCEPT !.on = on[i]]]]
    BY <2>1, <2>3 DEF on
  <2>8. \A i \in DOMAIN s.items : s.items[i].kind = "CROSS" => on[i] = {}
    BY <2>2, <2>3, <2>6, <2>7
  <2>5. Shaped([s EXCEPT !.items = [i \in DOMAIN s.items |-> [@[i] EXCEPT !.on = on[i]]]])
    BY <2>2, <2>8, OnsChanged
  <2> QED BY <2>4, <2>5
<1> QED BY <1>1, <1>2 DEF Pushdown

-----------------------------------------------------------------------------
(* optimize_joins: what leaves one ON for another.                            *)

MovedFrom(q, i, d) == {p \in q.items[d].on : q.items[i].alias \in PredicateTables(p)}
Stays(q, i, d) ==
    \/ q.items[d].kind = "ANTI"
    \/ Cardinality(q.items[d].on) < 2 \/ Cardinality(Others(q.items[d])) < 2
    \/ MovedFrom(q, i, d) = {}
ExtractedItem(q, i, d, k) ==
    LET it == q.items[k]
    IN  IF k = d THEN Item(it.alias, it.side, it.kind, it.source, (it.on \ MovedFrom(q, i, d)) \cup {True})
        ELSE IF k = i THEN Item(it.alias, it.side, IF it.kind = "CROSS" THEN "" ELSE it.kind, it.source,
                                it.on \cup MovedFrom(q, i, d))
        ELSE it

LEMMA ExtractedItems ==
  ASSUME NEW q, Shaped(q), NEW i \in Joins(q), NEW d \in Joins(q), i # d
  PROVE  IF Stays(q, i, d) THEN Extract(q, i, d) = q
         ELSE /\ Extract(q, i, d).items = [k \in DOMAIN q.items |-> ExtractedItem(q, i, d, k)]
              /\ Extract(q, i, d) = [items |-> Extract(q, i, d).items, where |-> q.where, uses |-> q.uses,
                                     recursive |-> q.recursive, ctes |-> q.ctes]
<1> DEFINE moved == MovedFrom(q, i, d)
           cell(k) == IF k = i THEN AddOn(q.items[k], moved)
                      ELSE IF k = d THEN LeaveTrue(q.items[k], moved) ELSE q.items[k]
           items == [k \in DOMAIN q.items |-> cell(k)]
           r == [q EXCEPT !.items = items]
<1>1. Extract(q, i, d) = IF Stays(q, i, d) THEN q ELSE r
  BY DEF Extract, Stays, MovedFrom
<1>2. q = [items |-> q.items, where |-> q.where, uses |-> q.uses, recursive |-> q.recursive, ctes |-> q.ctes]
  BY DEF Shaped
<1>3. ASSUME NEW k \in DOMAIN q.items, ~Stays(q, i, d) PROVE items[k] = ExtractedItem(q, i, d, k)
  <2> DEFINE it == q.items[k]
  <2>1. ItemShaped(q, it)
    BY ShapedItems
  <2>2. moved # {}
    BY <1>3 DEF Stays
  <2>3. items[k] = IF k = i THEN AddOn(it, moved) ELSE IF k = d THEN LeaveTrue(it, moved) ELSE it
    <3> HIDE DEF cell
    <3>1. items[k] = cell(k)
      OBVIOUS
    <3> QED BY <3>1 DEF cell
  <2>4. ExtractedItem(q, i, d, k)
        = IF k = d THEN Item(it.alias, it.side, it.kind, it.source, (it.on \ moved) \cup {True})
          ELSE IF k = i THEN Item(it.alias, it.side, IF it.kind = "CROSS" THEN "" ELSE it.kind, it.source,
                                  it.on \cup moved)
          ELSE it
    BY DEF ExtractedItem
  <2> HIDE DEF items, it, moved
  <2>5. it = [alias |-> it.alias, side |-> it.side, kind |-> it.kind, source |-> it.source, on |-> it.on]
    BY <2>1 DEF ItemShaped, Item
  <2>6. AddOn(it, moved) = Item(it.alias, it.side, IF it.kind = "CROSS" THEN "" ELSE it.kind, it.source,
                                it.on \cup moved)
    <3> DEFINE on == it.on \cup moved
               kind == IF it.kind = "CROSS" THEN "" ELSE it.kind
    <3>1. AddOn(it, moved) = [it EXCEPT !.on = on, !.kind = kind]
      BY <2>2 DEF AddOn
    <3> HIDE DEF on, kind
    <3>2. AddOn(it, moved) = Item(it.alias, it.side, kind, it.source, on)
      BY <2>5, <3>1 DEF Item
    <3> QED BY <3>2 DEF on, kind
  <2>7. LeaveTrue(it, moved) = Item(it.alias, it.side, it.kind, it.source, (it.on \ moved) \cup {True})
    BY <2>5 DEF LeaveTrue, Item
  <2> QED BY <2>3, <2>4, <2>6, <2>7
<1>4. ASSUME ~Stays(q, i, d) PROVE items = [k \in DOMAIN q.items |-> ExtractedItem(q, i, d, k)]
  BY <1>3, <1>4
<1> HIDE DEF items
<1>5. r = [items |-> items, where |-> q.where, uses |-> q.uses, recursive |-> q.recursive, ctes |-> q.ctes]
  BY <1>2
<1> HIDE DEF r
<1>6. r.items = items
  BY <1>5
<1> QED BY <1>1, <1>4, <1>5, <1>6

-----------------------------------------------------------------------------
(* Predicates change places, and nothing else.                                *)

Regrouped(q, r) ==
    /\ Shaped(r)
    /\ r = [items |-> r.items, where |-> q.where, uses |-> q.uses, recursive |-> q.recursive, ctes |-> q.ctes]
    /\ DOMAIN r.items = DOMAIN q.items /\ r.items[1] = q.items[1]
    /\ \A k \in DOMAIN q.items :
         /\ r.items[k] = Item(q.items[k].alias, q.items[k].side, r.items[k].kind, q.items[k].source, r.items[k].on)
         /\ r.items[k].kind = "SEMI" <=> q.items[k].kind = "SEMI"
         /\ r.items[k].kind = "ANTI" <=> q.items[k].kind = "ANTI"

(* The predicates of all joins but semi-joins filter the same rows.           *)
Ordinary(q) == {k \in Joins(q) : ~SemiOrAnti(q.items[k])}
OrdinaryOn(q) == UNION {q.items[k].on : k \in Ordinary(q)}
SamePredicates(q, r) ==
    /\ \A k \in DOMAIN q.items : SemiOrAnti(q.items[k]) => r.items[k] = q.items[k]
    /\ OrdinaryOn(q) \cup {True} = OrdinaryOn(r) \cup {True}

LEMMA ExtractRegroups ==
  ASSUME NEW q, Shaped(q), NEW p, Regrouped(q, p), NEW i \in Joins(q), NEW d \in Joins(q), i # d
  PROVE  Regrouped(q, Extract(p, i, d))
<1> DEFINE r == Extract(p, i, d)
           n == Len(q.items)
<1>1. Shaped(p) /\ DOMAIN p.items = DOMAIN q.items /\ DOMAIN q.items = 1 .. n /\ n \in Nat \ {0}
  BY ShapedItems DEF Regrouped
<1>2. Len(p.items) = n /\ i \in Joins(p) /\ d \in Joins(p)
  <2>1. DOMAIN p.items = 1 .. Len(p.items) /\ Len(p.items) \in Nat
    BY <1>1, ShapedItems
  <2> HIDE DEF n
  <2>2. Len(p.items) = n
    BY <1>1, <2>1
  <2> QED BY <2>2 DEF Joins, n
<1>3. CASE Stays(p, i, d)
  <2>1. r = p
    BY <1>1, <1>2, <1>3, ExtractedItems
  <2> QED BY <2>1
<1>4. CASE ~Stays(p, i, d)
  <2>1. /\ r.items = [k \in DOMAIN p.items |-> ExtractedItem(p, i, d, k)]
        /\ r = [items |-> r.items, where |-> p.where, uses |-> p.uses, recursive |-> p.recursive, ctes |-> p.ctes]
    BY <1>1, <1>2, <1>4, ExtractedItems
  <2> HIDE DEF r
  <2>2. p.where = q.where /\ p.uses = q.uses /\ p.recursive = q.recursive /\ p.ctes = q.ctes
    BY DEF Regrouped
  <2>3. r = [items |-> r.items, where |-> q.where, uses |-> q.uses, recursive |-> q.recursive, ctes |-> q.ctes]
    BY <2>1, <2>2
  <2>4. DOMAIN r.items = DOMAIN q.items
    BY <1>1, <2>1
  <2>5. 1 \in DOMAIN q.items /\ 1 # i /\ 1 # d
    BY <1>1 DEF Joins
  <2>6. r.items[1] = q.items[1]
    <3>1. r.items[1] = p.items[1]
      BY <1>1, <2>1, <2>5 DEF ExtractedItem
    <3> QED BY <3>1 DEF Regrouped
  <2>7. ASSUME NEW k \in DOMAIN q.items
        PROVE  /\ r.items[k] = Item(q.items[k].alias, q.items[k].side, r.items[k].kind, q.items[k].source, r.items[k].on)
               /\ r.items[k].kind = "SEMI" <=> q.items[k].kind = "SEMI"
               /\ r.items[k].kind = "ANTI" <=> q.items[k].kind = "ANTI"
               /\ r.items[k].kind = "CROSS" => r.items[k].on = {}
    <3> DEFINE it == p.items[k]
               on == IF k = d THEN (it.on \ MovedFrom(p, i, d)) \cup {True}
                     ELSE IF k = i THEN it.on \cup MovedFrom(p, i, d) ELSE it.on
               kind == IF k # d /\ k = i /\ it.kind = "CROSS" THEN "" ELSE it.kind
    <3>1. /\ it = Item(q.items[k].alias, q.items[k].side, it.kind, q.items[k].source, it.on)
          /\ it.kind = "SEMI" <=> q.items[k].kind = "SEMI"
          /\ it.kind = "ANTI" <=> q.items[k].kind = "ANTI"
      BY DEF Regrouped
    <3>2. it.kind = "CROSS" => it.on = {}
      BY <1>1 DEF Shaped, ItemShaped
    <3>3. r.items[k] = ExtractedItem(p, i, d, k)
      BY <1>1, <2>1
    <3>4. k = d => MovedFrom(p, i, d) \subseteq it.on /\ it.on # {}
      BY <1>4 DEF MovedFrom, Stays
    <3>5. it.alias = q.items[k].alias /\ it.side = q.items[k].side /\ it.source = q.items[k].source
      <4> HIDE DEF it
      <4> QED BY <3>1 DEF Item
    <3>6. r.items[k] = Item(q.items[k].alias, q.items[k].side, kind, q.items[k].source, on)
      <4>1. CASE k = d
        BY <3>3, <3>5, <4>1 DEF ExtractedItem
      <4>2. CASE k # d /\ k = i
        BY <3>3, <3>5, <4>2 DEF ExtractedItem
      <4>3. CASE k # d /\ k # i
        BY <3>1, <3>3, <4>3 DEF ExtractedItem
      <4> QED BY <4>1, <4>2, <4>3
    <3>7. /\ kind = "SEMI" <=> q.items[k].kind = "SEMI"
          /\ kind = "ANTI" <=> q.items[k].kind = "ANTI"
          /\ kind = "CROSS" => on = {}
      BY <1>1, <3>1, <3>2, <3>4
    <3> HIDE DEF it, on, kind
    <3>8. r.items[k].kind = kind /\ r.items[k].on = on
      BY <3>6 DEF Item
    <3> QED BY <3>6, <3>7, <3>8
  <2>8. Shaped(r)
    <3>1. r = [items |-> r.items, where |-> r.where, uses |-> r.uses, recursive |-> r.recursive, ctes |-> r.ctes]
      BY <2>3
    <3>2. r.items = [k \in DOMAIN q.items |-> r.items[k]]
      BY <1>1, <2>1
    <3>3. DOMAIN r.ctes = DOMAIN q.ctes /\ \A name \in DOMAIN q.ctes : BodyShaped(r.ctes[name])
      BY <2>3 DEF Shaped
    <3>4. ASSUME NEW k \in DOMAIN q.items
          PROVE  ItemShaped(q, r.items[k]) /\ r.items[k].alias = q.items[k].alias
      <4> DEFINE it == q.items[k]
                 new == r.items[k]
      <4>1. ItemShaped(q, it)
        BY DEF Shaped
      <4>2. new = Item(it.alias, it.side, new.kind, it.source, new.on) /\ (new.kind = "CROSS" => new.on = {})
        BY <2>7
      <4> HIDE DEF it, new
      <4>3. new.alias = it.alias /\ new.source = it.source /\ new.side = it.side
        BY <4>2 DEF Item
      <4>4. ItemShaped(q, new) /\ new.alias = it.alias
        BY <4>1, <4>2, <4>3 DEF ItemShaped
      <4> QED BY <4>4 DEF it, new
    <3>5. ~SemiOrAnti(r.items[1])
      BY <2>6 DEF Shaped
    <3>6. Shaped(r) /\ Len(r.items) = Len(q.items)
      BY <3>1, <3>2, <3>3, <3>4, <3>5, ItemsChanged
    <3> QED BY <3>6
  <2>9. Regrouped(q, r)
    BY <2>3, <2>4, <2>6, <2>7, <2>8 DEF Regrouped
  <2> QED BY <2>9 DEF r
<1> QED BY <1>3, <1>4

LEMMA DependentsApart ==
  ASSUME NEW q, NEW p \in Dependents(q)
  PROVE  p[1] \in Joins(q) /\ p[2] \in Joins(q) /\ p[1] # p[2] /\ q.items[p[1]].alias \in Others(q.items[p[2]])
BY DEF Dependents, Others

\* Joins that others mention are no semi-joins, and no predicate is taken from a semi-join.
LEMMA CarefulExtract ==
  ASSUME NEW q, Shaped(q), WellFormed(q), OptimizeCare(q), NEW i, NEW d, <<i, d>> \in Dependents(q)
  PROVE  /\ ~SemiOrAnti(q.items[i])
         /\ SemiOrAnti(q.items[d]) => Stays(q, i, d)
<1>1. i \in Joins(q) /\ d \in Joins(q) /\ i # d /\ q.items[i].alias \in Others(q.items[d])
  BY DependentsApart
<1>2. Len(q.items) \in Nat /\ DOMAIN q.items = 1 .. Len(q.items)
  BY ShapedItems
<1>3. ~SemiOrAnti(q.items[i])
  <2>1. q.items[i].alias \in Visible(q, d - 1)
    BY <1>1 DEF WellFormed, Joins
  <2>2. PICK j \in 1 .. (d - 1) : q.items[j].alias = q.items[i].alias /\ ~SemiOrAnti(q.items[j])
    BY <2>1 DEF Visible
  <2>3. j \in DOMAIN q.items /\ i \in DOMAIN q.items
    BY <1>1, <1>2 DEF Joins
  <2> QED BY <2>2, <2>3 DEF Shaped
<1>4. ASSUME q.items[d].kind = "SEMI", ~Stays(q, i, d) PROVE FALSE
  <2>1. Extract(q, i, d) = q
    BY <1>4 DEF OptimizeCare
  <2>2. Extract(q, i, d).items = [k \in DOMAIN q.items |-> ExtractedItem(q, i, d, k)]
    BY <1>1, <1>4, ExtractedItems
  <2>3. d \in DOMAIN q.items
    BY <1>1, <1>2 DEF Joins
  <2>4. q.items[d] = ExtractedItem(q, i, d, d)
    BY <2>1, <2>2, <2>3
  <2>5. q.items[d].on = (q.items[d].on \ MovedFrom(q, i, d)) \cup {True}
    BY <2>4 DEF ExtractedItem, Item
  <2>6. PICK m \in MovedFrom(q, i, d) : TRUE
    BY <1>4 DEF Stays
  <2>7. m \in q.items[d].on /\ q.items[i].alias \in PredicateTables(m)
    BY <2>6 DEF MovedFrom
  <2>8. m = True
    BY <2>5, <2>6, <2>7
  <2>9. PredicateTables(True) = {}
    BY DEF PredicateTables, BlockTables, Literals, True, Range
  <2> QED BY <2>7, <2>8, <2>9
<1>5. q.items[d].kind = "ANTI" => Stays(q, i, d)
  BY DEF Stays
<1> QED BY <1>3, <1>4, <1>5 DEF SemiOrAnti

LEMMA ExtractSamePredicates ==
  ASSUME NEW q, Shaped(q), WellFormed(q), OptimizeCare(q), NEW p, Regrouped(q, p), SamePredicates(q, p),
         NEW i, NEW d, <<i, d>> \in Dependents(q)
  PROVE  SamePredicates(q, Extract(p, i, d))
<1> DEFINE r == Extract(p, i, d)
           n == Len(q.items)
<1>1. i \in Joins(q) /\ d \in Joins(q) /\ i # d
  BY DependentsApart
<1>2. Shaped(p) /\ DOMAIN p.items = DOMAIN q.items /\ DOMAIN q.items = 1 .. n /\ n \in Nat \ {0}
  BY ShapedItems DEF Regrouped
<1>3. Len(p.items) = n /\ Joins(p) = Joins(q)
  <2>1. DOMAIN p.items = 1 .. Len(p.items) /\ Len(p.items) \in Nat
    BY <1>2, ShapedItems
  <2> HIDE DEF n
  <2>2. Len(p.items) = n
    BY <1>2, <2>1
  <2> QED BY <2>2 DEF Joins, n
<1>4. i \in DOMAIN q.items /\ d \in DOMAIN q.items
  BY <1>1, <1>2 DEF Joins
<1>5. CASE Stays(p, i, d)
  <2>1. r = p
    BY <1>1, <1>2, <1>3, <1>5, ExtractedItems
  <2> QED BY <2>1
<1>6. CASE ~Stays(p, i, d)
  <2>1. r.items = [k \in DOMAIN p.items |-> ExtractedItem(p, i, d, k)]
    BY <1>1, <1>2, <1>3, <1>6, ExtractedItems
  <2>2. \A k \in DOMAIN q.items : /\ p.items[k].alias = q.items[k].alias
                                  /\ SemiOrAnti(p.items[k]) <=> SemiOrAnti(q.items[k])
    <3>1. SUFFICES ASSUME NEW k \in DOMAIN q.items
                   PROVE  /\ p.items[k].alias = q.items[k].alias
                          /\ SemiOrAnti(p.items[k]) <=> SemiOrAnti(q.items[k])
      OBVIOUS
    <3> DEFINE it == q.items[k]
               new == p.items[k]
    <3>2. /\ new = Item(it.alias, it.side, new.kind, it.source, new.on)
          /\ new.kind = "SEMI" <=> it.kind = "SEMI"
          /\ new.kind = "ANTI" <=> it.kind = "ANTI"
      BY DEF Regrouped
    <3> HIDE DEF it, new
    <3>3. new.alias = it.alias /\ (SemiOrAnti(new) <=> SemiOrAnti(it))
      BY <3>2 DEF Item, SemiOrAnti
    <3> QED BY <3>3 DEF it, new
  <2>3. ~SemiOrAnti(q.items[i]) /\ ~SemiOrAnti(q.items[d])
    <3>1. ~SemiOrAnti(q.items[i]) /\ (SemiOrAnti(q.items[d]) => Stays(q, i, d))
      BY CarefulExtract
    <3>2. ASSUME SemiOrAnti(q.items[d]), Stays(q, i, d) PROVE FALSE
      <4>1. p.items[d] = q.items[d]
        BY <1>4, <3>2 DEF SamePredicates
      <4>2. Stays(p, i, d)
        BY <1>4, <2>2, <3>2, <4>1 DEF Stays, MovedFrom
      <4> QED BY <1>6, <4>2
    <3> QED BY <3>1, <3>2
  <2> DEFINE moved == MovedFrom(p, i, d)
             O == Ordinary(q)
  <2>4. moved \subseteq p.items[d].on
    BY DEF MovedFrom
  <2>5. \A k \in DOMAIN q.items :
          /\ k = d => r.items[k].on = (p.items[d].on \ moved) \cup {True}
          /\ k = i => r.items[k].on = p.items[i].on \cup moved
          /\ k # d /\ k # i => r.items[k] = p.items[k]
          /\ r.items[k].kind \in {p.items[k].kind} \cup IF p.items[k].kind = "CROSS" THEN {""} ELSE {}
    <3>1. SUFFICES ASSUME NEW k \in DOMAIN q.items
                   PROVE  /\ k = d => r.items[k].on = (p.items[d].on \ moved) \cup {True}
                          /\ k = i => r.items[k].on = p.items[i].on \cup moved
                          /\ k # d /\ k # i => r.items[k] = p.items[k]
                          /\ r.items[k].kind \in {p.items[k].kind} \cup IF p.items[k].kind = "CROSS" THEN {""} ELSE {}
      OBVIOUS
    <3>2. r.items[k] = ExtractedItem(p, i, d, k)
      BY <1>2, <2>1
    <3>3. CASE k = d
      BY <3>2, <3>3, <1>1 DEF ExtractedItem, Item
    <3>4. CASE k = i
      <4> DEFINE kind == IF p.items[k].kind = "CROSS" THEN "" ELSE p.items[k].kind
                 on == p.items[k].on \cup moved
      <4>1. r.items[k] = Item(p.items[k].alias, p.items[k].side, kind, p.items[k].source, on)
        BY <1>1, <3>2, <3>4 DEF ExtractedItem
      <4>2. kind \in {p.items[k].kind} \cup IF p.items[k].kind = "CROSS" THEN {""} ELSE {}
        OBVIOUS
      <4> HIDE DEF r, kind, on
      <4>3. r.items[k].kind = kind /\ r.items[k].on = on
        BY <4>1 DEF Item
      <4> QED BY <1>1, <3>4, <4>2, <4>3 DEF on
    <3>5. CASE k # d /\ k # i
      BY <3>2, <3>5 DEF ExtractedItem
    <3> QED BY <3>3, <3>4, <3>5
  <2> HIDE DEF r
  <2>6. \A k \in DOMAIN q.items : SemiOrAnti(r.items[k]) <=> SemiOrAnti(q.items[k])
    BY <2>2, <2>5 DEF SemiOrAnti
  <2>7. Joins(r) = Joins(q)
    <3>1. Regrouped(q, r)
      BY <1>1, ExtractRegroups DEF r
    <3>2. Shaped(r) /\ DOMAIN r.items = 1 .. n
      BY <1>2, <3>1 DEF Regrouped
    <3>3. DOMAIN r.items = 1 .. Len(r.items) /\ Len(r.items) \in Nat
      BY <3>2, ShapedItems
    <3> HIDE DEF n
    <3>4. Len(r.items) = n
      BY <1>2, <3>2, <3>3
    <3> QED BY <3>4 DEF Joins, n
  <2>8. O \subseteq DOMAIN q.items /\ i \in O /\ d \in O
    BY <1>1, <1>2, <2>3 DEF Ordinary, Joins
  <2>9. Ordinary(p) = O /\ Ordinary(r) = O
    <3>1. Joins(q) \subseteq DOMAIN q.items
      BY <1>2 DEF Joins
    <3> QED BY <1>3, <2>2, <2>6, <2>7, <3>1 DEF Ordinary
  <2>10. OrdinaryOn(p) = UNION {p.items[k].on : k \in O} /\ OrdinaryOn(r) = UNION {r.items[k].on : k \in O}
    BY <2>9 DEF OrdinaryOn
  <2> HIDE DEF O, moved
  <2>11. ASSUME NEW x PROVE (x \in OrdinaryOn(r) \/ x = True) <=> (x \in OrdinaryOn(p) \/ x = True)
    <3>1. ASSUME NEW k \in O, x \in r.items[k].on PROVE x = True \/ \E l \in O : x \in p.items[l].on
      BY <2>4, <2>5, <2>8, <3>1
    <3>2. ASSUME NEW k \in O, x \in p.items[k].on PROVE \E l \in O : x \in r.items[l].on
      <4>1. CASE k = d /\ x \in moved
        BY <2>5, <2>8, <4>1
      <4>2. CASE ~(k = d /\ x \in moved)
        <5>1. x \in r.items[k].on
          BY <2>5, <2>8, <3>2, <4>2
        <5> QED BY <5>1
      <4> QED BY <4>1, <4>2
    <3> QED BY <2>10, <3>1, <3>2
  <2>12. OrdinaryOn(r) \cup {True} = OrdinaryOn(q) \cup {True}
    BY <2>11 DEF SamePredicates
  <2>13. ASSUME NEW k \in DOMAIN q.items, SemiOrAnti(q.items[k]) PROVE r.items[k] = q.items[k]
    <3>1. k # i /\ k # d
      BY <2>3, <2>13
    <3> QED BY <2>5, <2>13, <3>1 DEF SamePredicates
  <2> QED BY <2>12, <2>13 DEF SamePredicates, r
<1> QED BY <1>5, <1>6

-----------------------------------------------------------------------------
(* From the first pair to the last.                                           *)

ExtractedCell(q, g, k) ==
    IF k = 0 THEN q
    ELSE IF PairAt(q, k) \in Dependents(q) THEN Extract(g[k - 1], PairAt(q, k)[1], PairAt(q, k)[2]) ELSE g[k - 1]

LEMMA ExtractedChosen ==
  ASSUME NEW q
  PROVE  ExtractedAfter(q) = CHOOSE g : g = [k \in 0 .. (Len(q.items) * Len(q.items)) |-> ExtractedCell(q, g, k)]
BY DEF ExtractedAfter, ExtractedCell

LEMMA ExtractedTable ==
  ASSUME NEW q, NEW n \in Nat, n = Len(q.items) * Len(q.items)
  PROVE  ExtractedAfter(q) = [k \in 0 .. n |-> ExtractedCell(q, ExtractedAfter(q), k)]
<1> DEFINE D == 0 .. n
           Filled(k, g) == /\ g = [i \in D |-> g[i]]
                           /\ \A i \in 0 .. k : g[i] = ExtractedCell(q, g, i)
           K == {k \in 0 .. n : \E g : Filled(k, g)}
<1>1. 0 \in K
  <2> DEFINE g == [i \in D |-> q]
  <2>1. g = [i \in D |-> g[i]] /\ 0 \in 0 .. n /\ g[0] = q
    OBVIOUS
  <2> HIDE DEF g
  <2>2. \A i \in 0 .. 0 : g[i] = ExtractedCell(q, g, i)
    BY <2>1 DEF ExtractedCell
  <2>3. Filled(0, g)
    BY <2>1, <2>2, Zenon
  <2> HIDE DEF Filled
  <2> QED BY <2>1, <2>3
<1>2. ASSUME NEW k \in 1 .. n, k - 1 \in K PROVE k \in K
  <2>1. PICK g : Filled(k - 1, g)
    BY <1>2
  <2> DEFINE h == [i \in D |-> IF i = k THEN ExtractedCell(q, g, k) ELSE g[i]]
  <2>2. h = [i \in D |-> h[i]] /\ k \in 0 .. n
    OBVIOUS
  <2>3. ASSUME NEW i \in 0 .. k PROVE h[i] = ExtractedCell(q, h, i)
    <3>1. i \in D /\ (i # 0 => i - 1 \in D /\ i - 1 # k)
      OBVIOUS
    <3>2. i # 0 => h[i - 1] = g[i - 1]
      BY <3>1
    <3>3. ExtractedCell(q, h, i) = ExtractedCell(q, g, i)
      <4> HIDE DEF h
      <4> QED BY <3>2 DEF ExtractedCell
    <3>4. CASE i = k
      BY <3>1, <3>3, <3>4
    <3>5. CASE i # k
      <4>1. i \in 0 .. (k - 1)
        BY <3>5
      <4>2. g[i] = ExtractedCell(q, g, i)
        BY <2>1, <4>1
      <4>3. h[i] = g[i]
        BY <3>1, <3>5
      <4> QED BY <3>3, <4>2, <4>3
    <3> QED BY <3>4, <3>5
  <2> HIDE DEF h
  <2>4. Filled(k, h)
    BY <2>2, <2>3, Zenon
  <2> HIDE DEF Filled
  <2> QED BY <2>2, <2>4
<1>3. n \in K
  <2> HIDE DEF K
  <2>1. 0 .. n \subseteq K
    BY <1>1, <1>2, InductionUpTo
  <2> QED BY <2>1
<1>4. PICK g : Filled(n, g)
  BY <1>3
<1>5. g = [k \in 0 .. (Len(q.items) * Len(q.items)) |-> ExtractedCell(q, g, k)]
  BY <1>4
<1>6. ExtractedAfter(q) = [k \in 0 .. (Len(q.items) * Len(q.items)) |-> ExtractedCell(q, ExtractedAfter(q), k)]
  <2> DEFINE T == CHOOSE t : t = [k \in 0 .. (Len(q.items) * Len(q.items)) |-> ExtractedCell(q, t, k)]
  <2>1. T = [k \in 0 .. (Len(q.items) * Len(q.items)) |-> ExtractedCell(q, T, k)]
    BY <1>5, Zenon
  <2> QED BY <2>1, ExtractedChosen
<1> QED BY <1>6

LEMMA ExtractAllRegroups ==
  ASSUME NEW q, Shaped(q)
  PROVE  /\ Regrouped(q, ExtractAll(q))
         /\ WellFormed(q) /\ OptimizeCare(q) => SamePredicates(q, ExtractAll(q))
<1> DEFINE n == Len(q.items) * Len(q.items)
           E == ExtractedAfter(q)
           Same(r) == WellFormed(q) /\ OptimizeCare(q) => SamePredicates(q, r)
           K == {k \in 0 .. n : Regrouped(q, E[k]) /\ Same(E[k])}
<1>1. n \in Nat
  BY ShapedItems
<1>2. E = [k \in 0 .. n |-> ExtractedCell(q, E, k)]
  BY <1>1, ExtractedTable
<1>3. ExtractAll(q) = E[n]
  BY DEF ExtractAll
<1>4. E[0] = q /\ \A k \in 1 .. n : E[k] = IF PairAt(q, k) \in Dependents(q)
                                           THEN Extract(E[k - 1], PairAt(q, k)[1], PairAt(q, k)[2])
                                           ELSE E[k - 1]
  <2> DEFINE H == E
  <2> HIDE DEF n
  <2>1. \A k \in 0 .. n : H[k] = ExtractedCell(q, H, k)
    BY <1>2
  <2> HIDE DEF H
  <2>2. H[0] = q
    BY <1>1, <2>1 DEF ExtractedCell
  <2>3. \A k \in 1 .. n : H[k] = IF PairAt(q, k) \in Dependents(q)
                                 THEN Extract(H[k - 1], PairAt(q, k)[1], PairAt(q, k)[2]) ELSE H[k - 1]
    BY <1>1, <2>1 DEF ExtractedCell
  <2> QED BY <2>2, <2>3 DEF H
<1> HIDE DEF E, n
<1>5. 0 \in K
  <2>1. Regrouped(q, q)
    BY DEF Regrouped, Shaped, ItemShaped
  <2>2. SamePredicates(q, q)
    BY DEF SamePredicates
  <2> QED BY <1>1, <1>4, <2>1, <2>2
<1>6. ASSUME NEW k \in 1 .. n, k - 1 \in K PROVE k \in K
  <2> DEFINE p == E[k - 1]
             i == PairAt(q, k)[1]
             d == PairAt(q, k)[2]
  <2>1. k \in 0 .. n
    BY <1>1
  <2>2. Regrouped(q, p) /\ Same(p)
    BY <1>6
  <2>3. PairAt(q, k) = <<i, d>>
    BY DEF PairAt
  <2>4. E[k] = IF <<i, d>> \in Dependents(q) THEN Extract(p, i, d) ELSE p
    BY <1>4, <2>3
  <2> HIDE DEF p, i, d
  <2>5. CASE <<i, d>> \in Dependents(q)
    <3>1. i \in Joins(q) /\ d \in Joins(q) /\ i # d
      BY <2>5, DependentsApart
    <3>2. Regrouped(q, Extract(p, i, d))
      BY <2>2, <3>1, ExtractRegroups
    <3>3. Same(Extract(p, i, d))
      BY <2>2, <2>5, ExtractSamePredicates
    <3> QED BY <2>1, <2>4, <2>5, <3>2, <3>3
  <2>6. CASE <<i, d>> \notin Dependents(q)
    BY <2>1, <2>2, <2>4, <2>6
  <2> QED BY <2>5, <2>6
<1> HIDE DEF K
<1>7. 0 .. n \subseteq K
  BY <1>1, <1>5, <1>6, InductionUpTo
<1>8. n \in K
  BY <1>1, <1>7
<1> QED BY <1>3, <1>8 DEF K

-----------------------------------------------------------------------------
(* The numbers of a set in ascending order.                                   *)

LEMMA AscendingEnumerates ==
  ASSUME NEW S \in SUBSET Nat, IsFiniteSet(S)
  PROVE  /\ Ascending(S) \in Seq(S)
         /\ Len(Ascending(S)) = Cardinality(S)
         /\ \A x \in S : \E k \in DOMAIN Ascending(S) : Ascending(S)[k] = x
         /\ \A k, l \in DOMAIN Ascending(S) : k < l => Ascending(S)[k] < Ascending(S)[l]
<1> DEFINE upTo(x) == {y \in S : y <= x}
           n == Cardinality(S)
           place == [x \in S |-> Cardinality(upTo(x))]
<1>0. n \in Nat
  BY FS_CardinalityType
<1>1. ASSUME NEW x \in S PROVE IsFiniteSet(upTo(x)) /\ place[x] \in 1 .. n
  <2>1. upTo(x) \in SUBSET S /\ x \in upTo(x)
    OBVIOUS
  <2> DEFINE u == upTo(x)
  <2>2. place[x] = Cardinality(u)
    OBVIOUS
  <2>3. u \in SUBSET S /\ u # {}
    BY <2>1
  <2> HIDE DEF upTo, place, n, u
  <2>4. IsFiniteSet(u) /\ Cardinality(u) <= Cardinality(S)
    BY <2>3, FS_Subset
  <2>5. Cardinality(u) \in Nat /\ Cardinality(u) # 0
    BY <2>3, <2>4, FS_CardinalityType, FS_EmptySet
  <2> QED BY <1>0, <2>2, <2>4, <2>5 DEF n, u
<1>2. ASSUME NEW x \in S, NEW y \in S, x < y PROVE place[x] < place[y]
  <2> DEFINE u == upTo(x)
             v == upTo(y)
  <2>1. u \subseteq v /\ y \in v /\ y \notin u
    <3>1. \A z \in S : z <= x => z <= y
      BY <1>2
    <3>2. y <= y /\ ~(y <= x)
      BY <1>2
    <3> QED BY <3>1, <3>2
  <2>2. IsFiniteSet(v) /\ place[x] = Cardinality(u) /\ place[y] = Cardinality(v)
    BY <1>1
  <2>3. place[x] \in Nat /\ place[y] \in Nat
    BY <1>0, <1>1
  <2> HIDE DEF u, v, upTo, place
  <2>4. Cardinality(u) <= Cardinality(v) /\ Cardinality(u) # Cardinality(v)
    BY <2>1, <2>2, FS_Subset
  <2> QED BY <2>2, <2>3, <2>4
<1> HIDE DEF n
<1>3. \A k \in 1 .. n : \E x \in S : place[x] = k
  <2>1. place \in Injection(S, 1 .. n)
    <3>1. place \in [S -> 1 .. n]
      BY <1>1
    <3>2. ASSUME NEW x \in S, NEW y \in S, place[x] = place[y] PROVE x = y
      <4>1. x \in Nat /\ y \in Nat /\ place[x] \in Nat /\ place[y] \in Nat
        BY <1>0, <1>1
      <4>2. ~(x < y) /\ ~(y < x)
        <5> HIDE DEF place
        <5> QED BY <1>2, <3>2, <4>1
      <4> QED BY <4>1, <4>2
    <3>3. DOMAIN place = S
      OBVIOUS
    <3> HIDE DEF place
    <3> QED BY <3>1, <3>2, <3>3 DEF Injection, IsInjective
  <2>2. IsFiniteSet(1 .. n) /\ Cardinality(1 .. n) = n
    <3>1. Cardinality(1 .. n) = IF 1 > n THEN 0 ELSE n - 1 + 1
      BY <1>0, FS_Interval
    <3> QED BY <1>0, <3>1, FS_Interval
  <2>3. place \in Surjection(S, 1 .. n)
    <3> HIDE DEF place
    <3> QED BY <2>1, <2>2, FS_Injection DEF n
  <2> HIDE DEF place
  <2> QED BY <2>3 DEF Surjection
<1> DEFINE A == Ascending(S)
<1>4. A = [k \in 1 .. n |-> CHOOSE x \in S : Cardinality(upTo(x)) = k]
  BY DEF Ascending, n
<1>5. ASSUME NEW k \in 1 .. n PROVE A[k] \in S /\ place[A[k]] = k
  <2>1. \E x \in S : Cardinality(upTo(x)) = k
    BY <1>3
  <2>2. A[k] = CHOOSE x \in S : Cardinality(upTo(x)) = k
    BY <1>4
  <2> HIDE DEF A, upTo
  <2>3. A[k] \in S /\ Cardinality(upTo(A[k])) = k
    BY <2>1, <2>2
  <2> QED BY <2>3
<1>6. DOMAIN A = 1 .. n
  BY <1>4
<1> HIDE DEF A
<1>7. A \in Seq(S) /\ Len(A) = n
  <2>1. A \in [1 .. n -> S]
    <3> DEFINE at(k) == CHOOSE x \in S : Cardinality(upTo(x)) = k
    <3>1. A = [k \in 1 .. n |-> at(k)]
      BY <1>4
    <3>2. \A k \in 1 .. n : A[k] \in S
      BY <1>5
    <3> HIDE DEF at
    <3> QED BY <3>1, <3>2
  <2> QED BY <1>0, <2>1
<1>8. ASSUME NEW x \in S PROVE \E k \in DOMAIN A : A[k] = x
  <2>1. place[x] \in 1 .. n
    BY <1>1
  <2> DEFINE k == place[x]
  <2>2. A[k] \in S /\ place[A[k]] = place[x]
    BY <1>5, <2>1
  <2>3. A[k] \in Nat /\ x \in Nat /\ place[A[k]] \in Nat
    <3>1. A[k] \in S
      BY <2>2
    <3>2. place[A[k]] \in 1 .. n
      BY <1>1, <3>1
    <3>3. \A i \in 1 .. n : i \in Nat
      BY <1>0
    <3>4. \A y \in S : y \in Nat
      OBVIOUS
    <3> HIDE DEF k, place
    <3> QED BY <3>1, <3>2, <3>3, <3>4, Zenon
  <2>4. ~(A[k] < x) /\ ~(x < A[k])
    <3> HIDE DEF place, k
    <3> QED BY <1>2, <2>2, <2>3
  <2>5. A[k] = x
    <3> HIDE DEF place, k
    <3> QED BY <2>3, <2>4
  <2> QED BY <1>6, <2>1, <2>5
<1>9. ASSUME NEW k \in DOMAIN A, NEW l \in DOMAIN A, k < l PROVE A[k] < A[l]
  <2>1. k \in 1 .. n /\ l \in 1 .. n
    BY <1>6
  <2>2. A[k] \in S /\ A[l] \in S /\ place[A[k]] = k /\ place[A[l]] = l
    BY <1>5, <2>1
  <2> HIDE DEF place
  <2>3. A[l] < A[k] => l < k
    BY <1>2, <2>2
  <2>4. A[k] # A[l]
    BY <1>0, <1>9, <2>1, <2>2
  <2>5. A[k] \in Nat /\ A[l] \in Nat
    BY <2>2
  <2> QED BY <1>0, <1>9, <2>1, <2>3, <2>4, <2>5
<1> QED BY <1>7, <1>8, <1>9 DEF A, n

-----------------------------------------------------------------------------
(* helper.tsort: level by level, every name comes after what it depends on.   *)

\* s has every name of A once, each after those of A that it depends on.
Sorts(dag, A, s) ==
    /\ s \in Seq(A)
    /\ \A x \in A : \E k \in DOMAIN s : s[k] = x
    /\ \A k, l \in DOMAIN s : s[k] = s[l] => k = l
    /\ \A k, l \in DOMAIN s : s[l] \in dag[s[k]] => l < k

LEMMA SortsOn ==
  ASSUME NEW dag, NEW A, NEW F, A \cap F = {}, NEW s, Sorts(dag, A, s), NEW t \in Seq(F),
         \A x \in F : \E k \in DOMAIN t : t[k] = x,
         \A k, l \in DOMAIN t : t[k] = t[l] => k = l,
         \A x \in A \cup F : dag[x] \cap F = {}
  PROVE  Sorts(dag, A \cup F, s \o t)
<1> DEFINE u == s \o t
           m == Len(s)
           n == Len(t)
           B == A \cup F
<1>1. s \in Seq(A) /\ s \in Seq(B) /\ t \in Seq(B) /\ m \in Nat /\ n \in Nat /\ DOMAIN s = 1 .. m /\ DOMAIN t = 1 .. n
  BY DEF Sorts
<1>2. /\ u \in Seq(B) /\ Len(u) = m + n /\ DOMAIN u = 1 .. (m + n)
      /\ \A k \in 1 .. m : u[k] = s[k]
      /\ \A k \in 1 .. n : u[m + k] = t[k]
  BY <1>1
<1>3. /\ \A k \in 1 .. m : s[k] \in A
      /\ \A k \in 1 .. n : t[k] \in F
  BY <1>1
<1> HIDE DEF u, m, n
<1>4. ASSUME NEW k \in 1 .. (m + n)
      PROVE  \/ k \in 1 .. m /\ u[k] = s[k] /\ u[k] \in A
             \/ k > m /\ k - m \in 1 .. n /\ u[k] = t[k - m] /\ u[k] \in F
  <2>1. CASE k \in 1 .. m
    BY <1>2, <1>3, <2>1
  <2>2. CASE k \notin 1 .. m
    <3>1. k > m /\ k - m \in 1 .. n /\ m + (k - m) = k
      BY <1>1, <2>2
    <3>2. u[m + (k - m)] = t[k - m]
      BY <1>2, <3>1
    <3> QED BY <1>3, <3>1, <3>2
  <2> QED BY <2>1, <2>2
<1>5. ASSUME NEW x \in B PROVE \E k \in DOMAIN u : u[k] = x
  <2>1. CASE x \in A
    <3>1. PICK k \in 1 .. m : s[k] = x
      BY <1>1, <2>1 DEF Sorts
    <3>2. k \in 1 .. (m + n)
      BY <1>1
    <3> QED BY <1>2, <3>1, <3>2
  <2>2. CASE x \in F
    <3>1. PICK k \in 1 .. n : t[k] = x
      BY <1>1, <2>2
    <3>2. m + k \in 1 .. (m + n)
      BY <1>1
    <3> QED BY <1>2, <3>1, <3>2
  <2> QED BY <2>1, <2>2
<1>6. ASSUME NEW k \in DOMAIN u, NEW l \in DOMAIN u, u[k] = u[l] PROVE k = l
  <2>1. k \in 1 .. (m + n) /\ l \in 1 .. (m + n)
    BY <1>2
  <2>2. CASE k \in 1 .. m /\ u[k] = s[k] /\ u[k] \in A
    <3>1. l \in 1 .. m /\ u[l] = s[l]
      BY <1>4, <1>6, <2>1, <2>2
    <3> QED BY <1>1, <1>6, <2>2, <3>1 DEF Sorts
  <2>3. CASE k > m /\ k - m \in 1 .. n /\ u[k] = t[k - m] /\ u[k] \in F
    <3>1. l - m \in 1 .. n /\ u[l] = t[l - m]
      BY <1>4, <1>6, <2>1, <2>3
    <3>2. k - m = l - m
      BY <1>1, <1>6, <2>3, <3>1
    <3> QED BY <1>1, <2>1, <3>2
  <2> QED BY <1>4, <2>1, <2>2, <2>3
<1>7. ASSUME NEW k \in DOMAIN u, NEW l \in DOMAIN u, u[l] \in dag[u[k]] PROVE l < k
  <2>1. k \in 1 .. (m + n) /\ l \in 1 .. (m + n) /\ u[k] \in B
    BY <1>2, <1>4
  <2>2. u[l] \notin F
    BY <1>7, <2>1
  <2>3. l \in 1 .. m /\ u[l] = s[l]
    BY <1>4, <2>1, <2>2
  <2>4. CASE k \in 1 .. m /\ u[k] = s[k]
    BY <1>1, <1>7, <2>3, <2>4 DEF Sorts
  <2>5. CASE k > m
    BY <1>1, <2>1, <2>3, <2>5
  <2> QED BY <1>4, <2>1, <2>4, <2>5
<1> QED BY <1>2, <1>5, <1>6, <1>7 DEF Sorts, u

NextLevel(dag, level) ==
    [open |-> level.open \ Free(dag, level.open), sorted |-> level.sorted \o Ascending(Free(dag, level.open))]
SortedCell(dag, g, k) ==
    IF k = 0 THEN [open |-> DOMAIN dag, sorted |-> <<>>] ELSE NextLevel(dag, g[k - 1])

LEMMA LevelsChosen ==
  ASSUME NEW dag
  PROVE  Levels(dag) = CHOOSE g : g = [k \in 0 .. Cardinality(DOMAIN dag) |-> SortedCell(dag, g, k)]
BY DEF Levels, SortedCell, NextLevel

LEMMA LevelsTable ==
  ASSUME NEW dag, NEW n \in Nat, n = Cardinality(DOMAIN dag)
  PROVE  Levels(dag) = [k \in 0 .. n |-> SortedCell(dag, Levels(dag), k)]
<1> DEFINE D == 0 .. n
           Filled(k, g) == /\ g = [i \in D |-> g[i]]
                           /\ \A i \in 0 .. k : g[i] = SortedCell(dag, g, i)
           K == {k \in 0 .. n : \E g : Filled(k, g)}
<1>1. 0 \in K
  <2> DEFINE g == [i \in D |-> [open |-> DOMAIN dag, sorted |-> <<>>]]
  <2>1. g = [i \in D |-> g[i]] /\ 0 \in 0 .. n /\ g[0] = [open |-> DOMAIN dag, sorted |-> <<>>]
    OBVIOUS
  <2> HIDE DEF g
  <2>2. \A i \in 0 .. 0 : g[i] = SortedCell(dag, g, i)
    BY <2>1 DEF SortedCell
  <2>3. Filled(0, g)
    BY <2>1, <2>2, Zenon
  <2> HIDE DEF Filled
  <2> QED BY <2>1, <2>3
<1>2. ASSUME NEW k \in 1 .. n, k - 1 \in K PROVE k \in K
  <2>1. PICK g : Filled(k - 1, g)
    BY <1>2
  <2> DEFINE h == [i \in D |-> IF i = k THEN SortedCell(dag, g, k) ELSE g[i]]
  <2>2. h = [i \in D |-> h[i]] /\ k \in 0 .. n
    OBVIOUS
  <2>3. ASSUME NEW i \in 0 .. k PROVE h[i] = SortedCell(dag, h, i)
    <3>1. i \in D /\ (i # 0 => i - 1 \in D /\ i - 1 # k)
      OBVIOUS
    <3>2. i # 0 => h[i - 1] = g[i - 1]
      BY <3>1
    <3>3. SortedCell(dag, h, i) = SortedCell(dag, g, i)
      <4> HIDE DEF h
      <4> QED BY <3>2 DEF SortedCell
    <3>4. CASE i = k
      BY <3>1, <3>3, <3>4
    <3>5. CASE i # k
      <4>1. i \in 0 .. (k - 1)
        BY <3>5
      <4>2. g[i] = SortedCell(dag, g, i)
        BY <2>1, <4>1
      <4>3. h[i] = g[i]
        BY <3>1, <3>5
      <4> QED BY <3>3, <4>2, <4>3
    <3> QED BY <3>4, <3>5
  <2> HIDE DEF h
  <2>4. Filled(k, h)
    BY <2>2, <2>3, Zenon
  <2> HIDE DEF Filled
  <2> QED BY <2>2, <2>4
<1>3. n \in K
  <2> HIDE DEF K
  <2>1. 0 .. n \subseteq K
    BY <1>1, <1>2, InductionUpTo
  <2> QED BY <2>1
<1>4. PICK g : Filled(n, g)
  BY <1>3
<1>5. g = [k \in 0 .. Cardinality(DOMAIN dag) |-> SortedCell(dag, g, k)]
  BY <1>4
<1>6. Levels(dag) = [k \in 0 .. Cardinality(DOMAIN dag) |-> SortedCell(dag, Levels(dag), k)]
  <2> DEFINE T == CHOOSE t : t = [k \in 0 .. Cardinality(DOMAIN dag) |-> SortedCell(dag, t, k)]
  <2>1. T = [k \in 0 .. Cardinality(DOMAIN dag) |-> SortedCell(dag, T, k)]
    BY <1>5, Zenon
  <2> QED BY <2>1, LevelsChosen
<1> QED BY <1>6

\* helper.tsort, when it raises nothing.
LEMMA TSortSorts ==
  ASSUME NEW dag, DOMAIN dag \in SUBSET (Nat \ {0}), IsFiniteSet(DOMAIN dag), TSort(dag) # Cycle
  PROVE  Sorts(dag, DOMAIN dag, TSort(dag))
<1> DEFINE S == DOMAIN dag
           n == Cardinality(S)
           L == Levels(dag)
           K == {k \in 0 .. n : L[k].open \subseteq S /\ Sorts(dag, S \ L[k].open, L[k].sorted)
                               /\ \A x \in S \ L[k].open : dag[x] \cap L[k].open = {}}
<1>1. n \in Nat
  BY FS_CardinalityType
<1>2. L = [k \in 0 .. n |-> SortedCell(dag, L, k)]
  BY <1>1, LevelsTable
<1>3. L[0] = [open |-> S, sorted |-> <<>>] /\ \A k \in 1 .. n : L[k] = NextLevel(dag, L[k - 1])
  <2> DEFINE H == L
  <2> HIDE DEF n
  <2>1. \A k \in 0 .. n : H[k] = SortedCell(dag, H, k)
    BY <1>2
  <2> HIDE DEF H
  <2>2. H[0] = [open |-> S, sorted |-> <<>>]
    <3>1. 0 \in 0 .. n
      BY <1>1
    <3>2. H[0] = SortedCell(dag, H, 0)
      BY <2>1, <3>1
    <3> QED BY <3>2 DEF SortedCell
  <2>3. \A k \in 1 .. n : H[k] = NextLevel(dag, H[k - 1])
    <3>1. \A k \in 1 .. n : k \in 0 .. n /\ k # 0
      BY <1>1
    <3> QED BY <2>1, <3>1 DEF SortedCell
  <2> QED BY <2>2, <2>3 DEF H
<1>4. TSort(dag) = IF L[n].open = {} THEN L[n].sorted ELSE Cycle
  BY DEF TSort
<1> HIDE DEF L, n
<1>5. 0 \in K
  <2>1. L[0].open = S /\ L[0].sorted = <<>> /\ S \ S = {}
    BY <1>3
  <2>2. Sorts(dag, {}, <<>>)
    <3> DEFINE none == <<>>
    <3>1. none \in Seq({}) /\ Len(none) = 0
      BY EmptySeq
    <3> HIDE DEF none
    <3>2. DOMAIN none = {}
      BY <3>1
    <3>3. Sorts(dag, {}, none)
      BY <3>1, <3>2 DEF Sorts
    <3> QED BY <3>3 DEF none
  <2>3. Sorts(dag, S \ L[0].open, L[0].sorted) /\ S \ L[0].open = {} /\ L[0].open \subseteq S
    BY <2>1, <2>2
  <2>4. \A x \in S \ L[0].open : dag[x] \cap L[0].open = {}
    BY <2>3
  <2>5. 0 \in 0 .. n
    BY <1>1
  <2> QED BY <2>3, <2>4, <2>5
<1>6. ASSUME NEW k \in 1 .. n, k - 1 \in K PROVE k \in K
  <2> DEFINE O == L[k - 1].open
             F == Free(dag, O)
             s == L[k - 1].sorted
             t == Ascending(F)
  <2>1. /\ O \subseteq S /\ Sorts(dag, S \ O, s)
        /\ \A x \in S \ O : dag[x] \cap O = {}
    BY <1>6
  <2>2. L[k].open = O \ F /\ L[k].sorted = s \o t
    <3>1. L[k] = NextLevel(dag, L[k - 1])
      BY <1>3
    <3>2. L[k] = [open |-> O \ F, sorted |-> s \o t]
      BY <3>1 DEF NextLevel
    <3> HIDE DEF O, F, s, t
    <3> QED BY <3>2
  <2>3. F \subseteq O /\ \A x \in F : dag[x] \cap O = {}
    BY DEF Free
  <2>4. F \in SUBSET Nat /\ IsFiniteSet(F)
    BY <2>1, <2>3, FS_Subset
  <2>5. /\ t \in Seq(F)
        /\ \A x \in F : \E i \in DOMAIN t : t[i] = x
        /\ \A i, l \in DOMAIN t : i < l => t[i] < t[l]
    BY <2>4, AscendingEnumerates
  <2> HIDE DEF O, F, s, t
  <2>6. \A i, l \in DOMAIN t : t[i] = t[l] => i = l
    <3> DEFINE m == Len(t)
    <3>2. DOMAIN t = 1 .. m /\ m \in Nat /\ \A i \in 1 .. m : t[i] \in F
      BY <2>5
    <3> HIDE DEF m
    <3>1. ASSUME NEW i \in 1 .. m, NEW l \in 1 .. m, t[i] = t[l] PROVE i = l
      <4>3. t[i] \in F /\ F \subseteq Nat
        BY <2>4, <3>2
      <4>4. i \in Nat /\ l \in Nat
        BY <3>2
      <4>1. t[i] \in Nat /\ i \in Nat /\ l \in Nat
        BY <4>3, <4>4
      <4>2. ~(i < l) /\ ~(l < i)
        BY <2>5, <3>1, <3>2, <4>1
      <4> QED BY <4>1, <4>2
    <3> QED BY <3>1, <3>2
  <2>7. (S \ O) \cap F = {} /\ (S \ O) \cup F = S \ (O \ F) /\ \A x \in (S \ O) \cup F : dag[x] \cap F = {}
    BY <2>1, <2>3
  <2>8. Sorts(dag, (S \ O) \cup F, s \o t)
    BY <2>1, <2>5, <2>6, <2>7, SortsOn
  <2>9. \A x \in S \ (O \ F) : dag[x] \cap (O \ F) = {}
    BY <2>1, <2>3
  <2>10. k \in 0 .. n /\ O \ F \subseteq S
    BY <1>1, <2>1
  <2> QED BY <2>2, <2>7, <2>8, <2>9, <2>10
<1> HIDE DEF K
<1>7. 0 .. n \subseteq K
  BY <1>1, <1>5, <1>6, InductionUpTo
<1>8. n \in K
  BY <1>1, <1>7
<1>9. L[n].open = {} /\ TSort(dag) = L[n].sorted
  BY <1>4
<1>10. Sorts(dag, S \ {}, TSort(dag)) /\ S \ {} = S
  BY <1>8, <1>9 DEF K
<1> QED BY <1>10

-----------------------------------------------------------------------------
(* reorder_joins: the same items, the first still the first.                  *)

LEMMA ItemOfAlias ==
  ASSUME NEW q, Shaped(q), NEW i \in DOMAIN q.items
  PROVE  ItemOf(q, q.items[i].alias) = i
<1>1. \A j \in DOMAIN q.items : q.items[j].alias = q.items[i].alias => j = i
  BY DEF Shaped
<1> QED BY <1>1 DEF ItemOf

\* pi tells where in q each item of r was, and no item comes before one it mentions.
Permutes(q, r, pi) ==
    /\ r = [items |-> r.items, where |-> q.where, uses |-> q.uses, recursive |-> q.recursive, ctes |-> q.ctes]
    /\ r.items \in Seq(Range(q.items)) /\ r.items # <<>>
    /\ DOMAIN pi = DOMAIN r.items /\ pi[1] = 1
    /\ \A k \in DOMAIN r.items : pi[k] \in DOMAIN q.items /\ r.items[k] = q.items[pi[k]]
    /\ \A k, l \in DOMAIN r.items : pi[k] = pi[l] => k = l
    /\ \A i \in DOMAIN q.items : \E k \in DOMAIN r.items : pi[k] = i
    /\ \A k, l \in DOMAIN r.items : k # 1 /\ r.items[l].alias \in Others(r.items[k]) => l < k

LEMMA OrderSorts ==
  ASSUME NEW q, Shaped(q), Order(q) # Cycle
  PROVE  /\ Order(q) \in Seq(Aliases(q))
         /\ \A i \in DOMAIN q.items : \E k \in DOMAIN Order(q) : Order(q)[k] = q.items[i].alias
         /\ \A k, l \in DOMAIN Order(q) : Order(q)[k] = Order(q)[l] => k = l
         /\ \A i, j \in DOMAIN q.items : \A k, l \in DOMAIN Order(q) :
              /\ i # 1 /\ Order(q)[k] = q.items[i].alias /\ Order(q)[l] = q.items[j].alias
              /\ q.items[j].alias \in Others(q.items[i])
              => l < k
<1> DEFINE first == q.items[1].alias
           dag == [x \in Aliases(q) |-> IF x = first THEN {} ELSE Others(q.items[ItemOf(q, x)])]
<1>1. Order(q) = TSort(dag)
  BY DEF Order
<1>2. /\ DOMAIN dag = Aliases(q)
      /\ \A i \in DOMAIN q.items : i # 1 => dag[q.items[i].alias] = Others(q.items[i])
  <2>1. ASSUME NEW i \in DOMAIN q.items, i # 1 PROVE dag[q.items[i].alias] = Others(q.items[i])
    <3>1. q.items[i].alias \in Aliases(q) /\ ItemOf(q, q.items[i].alias) = i
      BY ItemOfAlias DEF Aliases
    <3>2. q.items[i].alias # first
      BY <2>1, ShapedItems
    <3> QED BY <3>1, <3>2
  <2> QED BY <2>1
<1> HIDE DEF dag
<1>3. Aliases(q) \in SUBSET (Nat \ {0}) /\ IsFiniteSet(Aliases(q))
  <2> DEFINE n == Len(q.items)
             f == [i \in 1 .. n |-> q.items[i].alias]
  <2>1. n \in Nat /\ DOMAIN q.items = 1 .. n
    BY ShapedItems
  <2>2. Aliases(q) = Range(f)
    BY <2>1 DEF Aliases, Range
  <2>3. f = [i \in DOMAIN f |-> f[i]] /\ DOMAIN f = 1 .. n
    OBVIOUS
  <2> HIDE DEF n, f
  <2>4. IsFiniteSet(1 .. n)
    BY <2>1, FS_Interval
  <2>5. IsFiniteSet(Range(f))
    BY <2>3, <2>4, FiniteRange
  <2>6. \A i \in DOMAIN q.items : q.items[i].alias \in Nat \ {0}
    BY DEF Shaped, ItemShaped
  <2> QED BY <2>2, <2>5, <2>6 DEF Aliases
<1>4. Sorts(dag, Aliases(q), Order(q))
  BY <1>1, <1>2, <1>3, TSortSorts
<1>5. \A i \in DOMAIN q.items : q.items[i].alias \in Aliases(q)
  BY DEF Aliases
<1> QED BY <1>2, <1>4, <1>5 DEF Sorts

LEMMA Prepended ==
  ASSUME NEW R, NEW a \in R, NEW t \in Seq(R)
  PROVE  /\ <<a>> \o t \in Seq(R) /\ Len(<<a>> \o t) = Len(t) + 1
         /\ (<<a>> \o t)[1] = a
         /\ \A k \in 1 .. Len(t) : (<<a>> \o t)[k + 1] = t[k]
<1> DEFINE h == <<a>>
<1>1. h \in Seq(R) /\ Len(h) = 1 /\ h[1] = a /\ Len(t) \in Nat
  OBVIOUS
<1> HIDE DEF h
<1>2. h \o t \in Seq(R) /\ Len(h \o t) = 1 + Len(t)
  BY <1>1, ConcatProperties
<1>3. (h \o t)[1] = h[1]
  BY <1>1, ConcatProperties
<1>4. ASSUME NEW k \in 1 .. Len(t) PROVE (h \o t)[k + 1] = t[k]
  <2>1. k + 1 \in 1 .. (Len(h) + Len(t)) /\ k + 1 > Len(h) /\ (k + 1) - Len(h) = k
    BY <1>1
  <2> DEFINE i == k + 1
  <2>3. i \in 1 .. (Len(h) + Len(t)) /\ ~(i <= Len(h))
    BY <1>1
  <2> HIDE DEF i
  <2>4. (h \o t)[i] = t[i - Len(h)]
    BY <1>1, <2>3, ConcatProperties
  <2>2. (h \o t)[k + 1] = t[(k + 1) - Len(h)]
    BY <2>4 DEF i
  <2> QED BY <2>1, <2>2
<1> QED BY <1>1, <1>2, <1>3, <1>4 DEF h

LEMMA ReorderPermutes ==
  ASSUME NEW q, Shaped(q), Order(q) # Cycle
  PROVE  \E pi : Permutes(q, Reorder(q), pi)
<1> DEFINE order == Order(q)
           m == Len(order)
           first == q.items[1].alias
           c == CHOOSE i \in DOMAIN order : order[i] = first
           jo == JoinOrder(q)
           r == Reorder(q)
           tail == [k \in DOMAIN jo |-> q.items[ItemOf(q, jo[k])]]
           pi == [k \in DOMAIN r.items |-> IF k = 1 THEN 1 ELSE ItemOf(q, jo[k - 1])]
<1>1. /\ order \in Seq(Aliases(q))
      /\ \A i \in DOMAIN q.items : \E k \in DOMAIN order : order[k] = q.items[i].alias
      /\ \A k, l \in DOMAIN order : order[k] = order[l] => k = l
      /\ \A i, j \in DOMAIN q.items : \A k, l \in DOMAIN order :
           /\ i # 1 /\ order[k] = q.items[i].alias /\ order[l] = q.items[j].alias
           /\ q.items[j].alias \in Others(q.items[i])
           => l < k
  BY OrderSorts
<1>2. /\ 1 \in DOMAIN q.items /\ DOMAIN order = 1 .. m /\ m \in Nat
      /\ q = [items |-> q.items, where |-> q.where, uses |-> q.uses, recursive |-> q.recursive, ctes |-> q.ctes]
  BY <1>1, ShapedItems DEF Shaped
<1> HIDE DEF order
<1>3. c \in DOMAIN order /\ order[c] = first
  <2>1. \E i \in DOMAIN order : order[i] = first
    BY <1>1, <1>2
  <2> QED BY <2>1
<1>4. jo = RemoveAt(order, c)
  BY DEF JoinOrder, order
<1> HIDE DEF c
<1>5. /\ Len(jo) = m - 1 /\ DOMAIN jo = 1 .. (m - 1)
      /\ \A k \in 1 .. (m - 1) : jo[k] = IF k < c THEN order[k] ELSE order[k + 1]
  <2>1. order \in Seq(Range(order))
    <3>1. \A k \in 1 .. m : order[k] \in Range(order)
      BY <1>2 DEF Range
    <3>2. order = [k \in 1 .. m |-> order[k]]
      BY <1>1, <1>2
    <3> HIDE DEF m
    <3> QED BY <1>2, <3>1, <3>2
  <2>2. RemoveAt(order, c) \in Seq(Range(order)) /\ Len(RemoveAt(order, c)) = m - 1
        /\ \A k \in 1 .. (m - 1) : RemoveAt(order, c)[k] = IF k < c THEN order[k] ELSE order[k + 1]
    BY <1>2, <1>3, <2>1, WithoutOne
  <2> QED BY <1>4, <2>2
<1>6. r = [items |-> <<q.items[1]>> \o tail, where |-> q.where, uses |-> q.uses, recursive |-> q.recursive, ctes |-> q.ctes]
  <2>1. r = [q EXCEPT !.items = <<q.items[1]>> \o tail]
    BY DEF Reorder
  <2> HIDE DEF r, tail
  <2> QED BY <1>2, <2>1
<1> HIDE DEF r, jo
\* Where the items come from.
<1>7. m \in Nat \ {0} /\ m - 1 \in Nat /\ c \in 1 .. m
  BY <1>2, <1>3
<1> HIDE DEF m
<1>8. ASSUME NEW k \in 1 .. (m - 1)
      PROVE  /\ ItemOf(q, jo[k]) \in DOMAIN q.items /\ q.items[ItemOf(q, jo[k])].alias = jo[k]
             /\ ItemOf(q, jo[k]) # 1
  <2>1. PICK l \in DOMAIN order : l # c /\ jo[k] = order[l]
    <3>1. CASE k < c
      <4>1. k \in DOMAIN order /\ k # c /\ jo[k] = order[k]
        BY <1>2, <1>5, <1>7, <3>1
      <4> QED BY <4>1
    <3>2. CASE ~(k < c)
      <4>1. k + 1 \in DOMAIN order /\ k + 1 # c /\ jo[k] = order[k + 1]
        BY <1>2, <1>5, <1>7, <3>2
      <4> QED BY <4>1
    <3> QED BY <3>1, <3>2
  <2>2. order[l] \in Aliases(q)
    BY <1>1, <2>1
  <2>3. PICK i \in DOMAIN q.items : q.items[i].alias = order[l]
    BY <2>2 DEF Aliases
  <2>4. ItemOf(q, jo[k]) = i
    BY <2>1, <2>3, ItemOfAlias
  <2>5. i # 1
    BY <1>1, <1>3, <2>1, <2>3
  <2> QED BY <2>1, <2>3, <2>4, <2>5
<1>9. \A k, l \in 1 .. (m - 1) : jo[k] = jo[l] => k = l
  <2> SUFFICES ASSUME NEW k \in 1 .. (m - 1), NEW l \in 1 .. (m - 1), jo[k] = jo[l] PROVE k = l
    OBVIOUS
  <2> DEFINE at(i) == IF i < c THEN i ELSE i + 1
  <2>1. at(k) \in DOMAIN order /\ at(l) \in DOMAIN order
    BY <1>2, <1>7
  <2>2. jo[k] = order[at(k)] /\ jo[l] = order[at(l)]
    BY <1>5
  <2>3. at(k) = at(l)
    <3> HIDE DEF at
    <3> QED BY <1>1, <2>1, <2>2
  <2> QED BY <1>7, <2>3
<1>10. /\ r.items \in Seq(Range(q.items)) /\ Len(r.items) = m /\ DOMAIN r.items = 1 .. m
       /\ r.items[1] = q.items[1]
       /\ \A k \in 2 .. m : r.items[k] = q.items[ItemOf(q, jo[k - 1])]
  <2>1. \A k \in 1 .. (m - 1) : q.items[ItemOf(q, jo[k])] \in Range(q.items)
    BY <1>8 DEF Range
  <2>2. tail = [k \in 1 .. (m - 1) |-> q.items[ItemOf(q, jo[k])]]
    BY <1>5
  <2>3. tail \in [1 .. (m - 1) -> Range(q.items)]
    BY <2>1, <2>2
  <2>4. tail \in Seq(Range(q.items)) /\ Len(tail) = m - 1 /\ \A k \in 1 .. (m - 1) : tail[k] = q.items[ItemOf(q, jo[k])]
    BY <1>7, <2>2, <2>3
  <2>5. r.items = <<q.items[1]>> \o tail
    BY <1>6
  <2>6. q.items[1] \in Range(q.items)
    BY <1>2 DEF Range
  <2> DEFINE a == q.items[1]
             R == Range(q.items)
             from(k) == q.items[ItemOf(q, jo[k])]
             u == <<a>> \o tail
  <2>7. a \in R
    BY <2>6
  <2> HIDE DEF tail, a, R, from
  <2>8. /\ tail \in Seq(R) /\ Len(tail) = m - 1
        /\ \A k \in 1 .. (m - 1) : tail[k] = from(k)
    BY <2>4 DEF from, R
  <2>9. u \in Seq(R) /\ Len(u) = Len(tail) + 1 /\ u[1] = a /\ \A k \in 1 .. Len(tail) : u[k + 1] = tail[k]
    BY <2>7, <2>8, Prepended
  <2>12. r.items = u
    BY <2>5 DEF a
  <2> HIDE DEF u
  <2>10. Len(u) = m /\ DOMAIN u = 1 .. m
    BY <1>7, <2>8, <2>9
  <2>11. ASSUME NEW k \in 2 .. m PROVE u[k] = from(k - 1)
    <3>1. k - 1 \in 1 .. (m - 1) /\ (k - 1) + 1 = k
      BY <1>7
    <3>2. u[(k - 1) + 1] = tail[k - 1]
      BY <2>8, <2>9, <3>1
    <3> QED BY <2>8, <3>1, <3>2
  <2> QED BY <2>9, <2>10, <2>11, <2>12 DEF from, R, a
<1> HIDE DEF tail
<1>11. /\ DOMAIN pi = 1 .. m /\ pi[1] = 1
       /\ \A k \in 2 .. m : pi[k] = ItemOf(q, jo[k - 1])
  <2>1. 1 \in 1 .. m /\ \A k \in 2 .. m : k \in 1 .. m /\ k # 1
    BY <1>7
  <2> QED BY <1>10, <2>1
<1> HIDE DEF pi
<1>12. \A k \in 2 .. m : k - 1 \in 1 .. (m - 1)
  BY <1>7
<1>13. \A k \in 1 .. m : pi[k] \in DOMAIN q.items /\ r.items[k] = q.items[pi[k]]
  <2> SUFFICES ASSUME NEW k \in 1 .. m PROVE pi[k] \in DOMAIN q.items /\ r.items[k] = q.items[pi[k]]
    OBVIOUS
  <2>1. CASE k = 1
    BY <1>2, <1>10, <1>11, <2>1
  <2>2. CASE k \in 2 .. m
    BY <1>8, <1>10, <1>11, <1>12, <2>2
  <2> QED BY <1>7, <2>1, <2>2
<1>14. \A k, l \in 1 .. m : pi[k] = pi[l] => k = l
  <2> SUFFICES ASSUME NEW k \in 1 .. m, NEW l \in 1 .. m, pi[k] = pi[l] PROVE k = l
    OBVIOUS
  <2>1. \A j \in 2 .. m : pi[j] # 1 /\ q.items[pi[j]].alias = jo[j - 1]
    BY <1>8, <1>11, <1>12
  <2>2. CASE k \in 2 .. m /\ l \in 2 .. m
    <3>1. jo[k - 1] = jo[l - 1]
      BY <2>1, <2>2
    <3>2. k - 1 = l - 1
      BY <1>9, <1>12, <2>2, <3>1
    <3> QED BY <1>7, <3>2
  <2>3. CASE ~(k \in 2 .. m /\ l \in 2 .. m)
    <3>1. k = 1 \/ l = 1
      BY <1>7, <2>3
    <3>2. \A j \in 1 .. m : j = 1 \/ j \in 2 .. m
      BY <1>7
    <3> QED BY <1>11, <2>1, <3>1, <3>2
  <2> QED BY <2>2, <2>3
<1>15. ASSUME NEW i \in DOMAIN q.items
       PROVE  \E k \in 1 .. m : pi[k] = i
  <2>1. CASE i = 1
    <3>1. 1 \in 1 .. m
      BY <1>7
    <3> QED BY <1>11, <2>1, <3>1
  <2>2. CASE i # 1
    <3>1. PICK l \in DOMAIN order : order[l] = q.items[i].alias
      BY <1>1
    <3>2. l # c
      BY <1>2, <1>3, <2>2, <3>1, ShapedItems
    <3>3. \E k \in 1 .. (m - 1) : jo[k] = order[l]
      <4>1. CASE l < c
        <5>1. l \in 1 .. (m - 1)
          BY <1>2, <1>7, <4>1
        <5> QED BY <1>5, <4>1, <5>1
      <4>2. CASE l > c
        <5>1. l - 1 \in 1 .. (m - 1) /\ ~(l - 1 < c) /\ (l - 1) + 1 = l
          BY <1>2, <1>7, <4>2
        <5>2. jo[l - 1] = order[l]
          BY <1>5, <5>1
        <5> QED BY <5>1, <5>2
      <4> QED BY <1>2, <1>7, <3>2, <4>1, <4>2
    <3>4. PICK k \in 1 .. (m - 1) : jo[k] = order[l]
      BY <3>3
    <3>5. k + 1 \in 1 .. m /\ k + 1 \in 2 .. m /\ (k + 1) - 1 = k
      BY <1>7
    <3>6. pi[k + 1] = ItemOf(q, jo[k])
      BY <1>11, <3>5
    <3>7. ItemOf(q, jo[k]) = i
      BY <3>1, <3>4, ItemOfAlias
    <3> QED BY <3>5, <3>6, <3>7
  <2> QED BY <2>1, <2>2
<1>16. ASSUME NEW k \in 1 .. m, NEW l \in 1 .. m, k # 1, r.items[l].alias \in Others(r.items[k])
       PROVE  l < k
  <2>1. k \in 2 .. m /\ pi[k] # 1
    BY <1>7, <1>8, <1>11, <1>12, <1>16
  <2>2. CASE l = 1
    BY <1>7, <2>1, <2>2
  <2>3. CASE l # 1
    <3>1. l \in 2 .. m
      BY <1>7, <2>3
    <3> DEFINE at(i) == IF i < c THEN i ELSE i + 1
               u == k - 1
               v == l - 1
    <3>2. u \in 1 .. (m - 1) /\ v \in 1 .. (m - 1)
      BY <1>12, <2>1, <3>1
    <3>3. at(u) \in DOMAIN order /\ at(v) \in DOMAIN order
      BY <1>2, <1>7, <3>2
    <3>4. jo[u] = order[at(u)] /\ jo[v] = order[at(v)]
      BY <1>5, <3>2
    <3>5. pi[k] = ItemOf(q, jo[u]) /\ pi[l] = ItemOf(q, jo[v])
      BY <1>11, <2>1, <3>1
    <3>6. q.items[pi[k]].alias = jo[u] /\ q.items[pi[l]].alias = jo[v]
      BY <1>8, <3>2, <3>5
    <3>7. q.items[pi[l]].alias \in Others(q.items[pi[k]]) /\ pi[k] \in DOMAIN q.items /\ pi[l] \in DOMAIN q.items
      BY <1>13, <1>16
    <3>8. at(v) < at(u)
      <4> HIDE DEF at, u, v
      <4> QED BY <1>1, <2>1, <3>3, <3>4, <3>6, <3>7
    <3>9. v < u
      BY <1>7, <3>2, <3>8
    <3> QED BY <1>7, <3>9
  <2> QED BY <2>2, <2>3
<1>17. r = [items |-> r.items, where |-> q.where, uses |-> q.uses, recursive |-> q.recursive, ctes |-> q.ctes]
  BY <1>6
<1>18. r.items # <<>>
  BY <1>7, <1>10
<1>19. Permutes(q, r, pi)
  BY <1>10, <1>11, <1>13, <1>14, <1>15, <1>16, <1>17, <1>18 DEF Permutes
<1> QED BY <1>19 DEF r

LEMMA PermutesShaped ==
  ASSUME NEW q, Shaped(q), NEW r, NEW pi, Permutes(q, r, pi)
  PROVE  Shaped(r)
<1> DEFINE s == r.items
           n == Len(s)
<1>1. s \in Seq(Range(q.items)) /\ s # <<>> /\ n \in Nat /\ DOMAIN s = 1 .. n
  BY DEF Permutes
<1>2. /\ \A k \in DOMAIN s : pi[k] \in DOMAIN q.items /\ s[k] = q.items[pi[k]]
      /\ \A k, l \in DOMAIN s : pi[k] = pi[l] => k = l
      /\ pi[1] = 1
      /\ r.ctes = q.ctes
      /\ r = [items |-> r.items, where |-> r.where, uses |-> r.uses, recursive |-> r.recursive, ctes |-> r.ctes]
  BY DEF Permutes
<1>3. 1 \in DOMAIN s
  BY <1>1
<1>4. s \in Seq(Range(s))
  <2>1. s = [k \in 1 .. n |-> s[k]]
    BY <1>1
  <2>2. \A k \in 1 .. n : s[k] \in Range(s)
    BY <1>1 DEF Range
  <2> HIDE DEF s, n
  <2> QED BY <1>1, <2>1, <2>2
<1> HIDE DEF s, n
<1>5. \A k \in DOMAIN s : ItemShaped(r, s[k])
  <2>1. \A i \in DOMAIN q.items : ItemShaped(q, q.items[i])
    BY DEF Shaped
  <2>2. \A it : ItemShaped(q, it) => ItemShaped(r, it)
    BY <1>2 DEF ItemShaped, SourceShaped
  <2> QED BY <1>2, <2>1, <2>2
<1>6. \A k, l \in DOMAIN s : s[k].alias = s[l].alias => k = l
  BY <1>2 DEF Shaped
<1>7. ~SemiOrAnti(s[1])
  BY <1>2, <1>3 DEF Shaped
<1>8. \A name \in DOMAIN r.ctes : BodyShaped(r.ctes[name])
  BY <1>2 DEF Shaped
<1> QED BY <1>1, <1>2, <1>4, <1>5, <1>6, <1>7, <1>8 DEF Shaped, s

-----------------------------------------------------------------------------
(* normalize: other words for the same joins.                                 *)

LEMMA NormalizedItem ==
  ASSUME NEW q, NEW it, ItemShaped(q, it)
  PROVE  \E kind, on : /\ Normalize(it) = Item(it.alias, it.side, kind, it.source, on)
                       /\ kind = "SEMI" <=> it.kind = "SEMI"
                       /\ kind = "ANTI" <=> it.kind = "ANTI"
                       /\ kind = "CROSS" => on = {}
                       /\ on = it.on \/ (it.on = {} /\ on = {True})
<1> DEFINE word == IF it.on = {} /\ it.side = "" /\ it.kind = "" THEN "CROSS" ELSE it.kind
           kind == IF word = "CROSS" THEN word ELSE IF word \in {"INNER", "OUTER"} THEN "" ELSE word
           on == IF word = "CROSS" THEN {} ELSE IF it.on = {} THEN {True} ELSE it.on
<1>1. it = [alias |-> it.alias, side |-> it.side, kind |-> it.kind, source |-> it.source, on |-> it.on]
  BY DEF ItemShaped, Item
<1>2. it.kind = "CROSS" => it.on = {}
  BY DEF ItemShaped
<1>3. Normalize(it) = [it EXCEPT !.kind = kind, !.on = on]
  <2>1. CASE word = "CROSS"
    BY <2>1 DEF Normalize
  <2>2. CASE word # "CROSS"
    BY <2>2 DEF Normalize
  <2> QED BY <2>1, <2>2
<1>4. /\ kind = "SEMI" <=> it.kind = "SEMI"
      /\ kind = "ANTI" <=> it.kind = "ANTI"
      /\ kind = "CROSS" => on = {}
      /\ on = it.on \/ (it.on = {} /\ on = {True})
  BY <1>2
<1> HIDE DEF kind, on
<1>5. Normalize(it) = Item(it.alias, it.side, kind, it.source, on)
  BY <1>1, <1>3 DEF Item
<1> QED BY <1>4, <1>5

\* The joins of r are those of q in other words.
Reworded(q, r) ==
    /\ Shaped(r) /\ Len(r.items) = Len(q.items)
    /\ r = [items |-> r.items, where |-> q.where, uses |-> q.uses, recursive |-> q.recursive, ctes |-> q.ctes]
    /\ r.items[1] = q.items[1]
    /\ \A k \in 2 .. Len(q.items) :
         /\ r.items[k] = Item(q.items[k].alias, q.items[k].side, r.items[k].kind, q.items[k].source, r.items[k].on)
         /\ r.items[k].kind = "SEMI" <=> q.items[k].kind = "SEMI"
         /\ r.items[k].kind = "ANTI" <=> q.items[k].kind = "ANTI"
         /\ r.items[k].on = q.items[k].on \/ (q.items[k].on = {} /\ r.items[k].on = {True})

LEMMA NormalizedReworded ==
  ASSUME NEW q, Shaped(q)
  PROVE  Reworded(q, Normalized(q))
<1> DEFINE n == Len(q.items)
           cell(i) == IF i = 1 THEN q.items[i] ELSE Normalize(q.items[i])
           items == [i \in DOMAIN q.items |-> cell(i)]
           r == [q EXCEPT !.items = items]
<1>1. Normalized(q) = r
  BY DEF Normalized
<1>2. /\ q = [items |-> q.items, where |-> q.where, uses |-> q.uses, recursive |-> q.recursive, ctes |-> q.ctes]
      /\ n \in Nat \ {0} /\ DOMAIN q.items = 1 .. n /\ \A i \in 1 .. n : ItemShaped(q, q.items[i])
      /\ ~SemiOrAnti(q.items[1])
  BY ShapedItems DEF Shaped
<1>3. items = [i \in DOMAIN q.items |-> items[i]] /\ \A i \in DOMAIN q.items : items[i] = cell(i)
  <2> HIDE DEF cell
  <2> QED OBVIOUS
<1> HIDE DEF items
<1>4. r = [items |-> items, where |-> q.where, uses |-> q.uses, recursive |-> q.recursive, ctes |-> q.ctes]
  BY <1>2
<1> HIDE DEF r, n
<1>5. /\ r.items = items
      /\ r = [items |-> r.items, where |-> q.where, uses |-> q.uses, recursive |-> q.recursive, ctes |-> q.ctes]
      /\ r = [items |-> r.items, where |-> r.where, uses |-> r.uses, recursive |-> r.recursive, ctes |-> r.ctes]
      /\ r.ctes = q.ctes
  BY <1>4
<1>6. r.items[1] = q.items[1]
  BY <1>2, <1>3, <1>5
<1>7. ASSUME NEW k \in 2 .. n
      PROVE  /\ r.items[k] = Item(q.items[k].alias, q.items[k].side, r.items[k].kind, q.items[k].source, r.items[k].on)
             /\ r.items[k].kind = "SEMI" <=> q.items[k].kind = "SEMI"
             /\ r.items[k].kind = "ANTI" <=> q.items[k].kind = "ANTI"
             /\ r.items[k].on = q.items[k].on \/ (q.items[k].on = {} /\ r.items[k].on = {True})
             /\ ItemShaped(q, r.items[k]) /\ r.items[k].alias = q.items[k].alias
  <2> DEFINE it == q.items[k]
             new == r.items[k]
  <2>1. k \in DOMAIN q.items /\ k # 1 /\ ItemShaped(q, it)
    BY <1>2
  <2>2. new = Normalize(it)
    BY <1>3, <1>5, <2>1
  <2> HIDE DEF it, new
  <2>3. PICK kind, on : /\ Normalize(it) = Item(it.alias, it.side, kind, it.source, on)
                        /\ kind = "SEMI" <=> it.kind = "SEMI"
                        /\ kind = "ANTI" <=> it.kind = "ANTI"
                        /\ kind = "CROSS" => on = {}
                        /\ on = it.on \/ (it.on = {} /\ on = {True})
    BY <2>1, NormalizedItem
  <2>4. /\ new.kind = kind /\ new.on = on /\ new.alias = it.alias /\ new.source = it.source /\ new.side = it.side
        /\ new = Item(it.alias, it.side, kind, it.source, on)
    BY <2>2, <2>3 DEF Item
  <2>5. ItemShaped(q, new)
    BY <2>1, <2>3, <2>4 DEF ItemShaped
  <2>6. /\ new = Item(it.alias, it.side, new.kind, it.source, new.on)
        /\ new.kind = "SEMI" <=> it.kind = "SEMI"
        /\ new.kind = "ANTI" <=> it.kind = "ANTI"
        /\ new.on = it.on \/ (it.on = {} /\ new.on = {True})
        /\ ItemShaped(q, new) /\ new.alias = it.alias
    BY <2>3, <2>4, <2>5
  <2> QED BY <2>6 DEF it, new
<1>8. \A k \in DOMAIN q.items : ItemShaped(q, r.items[k]) /\ r.items[k].alias = q.items[k].alias
  <2>1. \A k \in 1 .. n : k = 1 \/ k \in 2 .. n
    BY <1>2
  <2>2. ItemShaped(q, r.items[1]) /\ r.items[1].alias = q.items[1].alias
    BY <1>2, <1>6
  <2> QED BY <1>2, <1>7, <2>1, <2>2
<1>9. /\ r.items = [i \in DOMAIN q.items |-> r.items[i]] /\ DOMAIN r.ctes = DOMAIN q.ctes
      /\ \A name \in DOMAIN q.ctes : BodyShaped(r.ctes[name])
  BY <1>3, <1>5 DEF Shaped
<1>10. ~SemiOrAnti(r.items[1])
  BY <1>2, <1>6
<1>11. Shaped(r) /\ Len(r.items) = Len(q.items)
  BY <1>5, <1>8, <1>9, <1>10, ItemsChanged
<1>12. Reworded(q, r)
  BY <1>5, <1>6, <1>7, <1>11 DEF Reworded, n
<1> QED BY <1>1, <1>12

-----------------------------------------------------------------------------
(* optimize_joins leaves the shape.                                           *)

LEMMA ExtractedShaped ==
  ASSUME NEW q, Shaped(q)
  PROVE  Shaped(Extracted(q))
BY ExtractAllRegroups DEF Extracted, Regrouped

LEMMA OptimizeShaped ==
  ASSUME NEW q, Shaped(q), ~RaisesCycle(q)
  PROVE  Shaped(Optimize(q))
<1> DEFINE e == Extracted(q)
           o == Ordered(e)
<1>1. Shaped(e)
  BY ExtractedShaped
<1>2. Optimize(q) = Normalized(o)
  BY DEF Optimize
<1>3. CASE Reorderable(e)
  <2>1. Reorderable(q)
    <3>1. CASE ~Reorderable(q)
      BY <1>3, <3>1 DEF Extracted
    <3> QED BY <3>1
  <2>2. Order(e) # Cycle
    BY <2>1 DEF RaisesCycle
  <2>3. PICK pi : Permutes(e, Reorder(e), pi)
    BY <1>1, <2>2, ReorderPermutes
  <2>4. Shaped(o)
    BY <1>1, <1>3, <2>3, PermutesShaped DEF Ordered
  <2> QED BY <1>2, <2>4, NormalizedReworded DEF Reworded
<1>4. CASE ~Reorderable(e)
  BY <1>1, <1>2, <1>4, NormalizedReworded DEF Ordered, Reworded
<1> QED BY <1>3, <1>4

-----------------------------------------------------------------------------
(* Without sides, what is joined does not depend on the order: a row from     *)
(* every source, all predicates holding, whatever comes first.                *)

PredicateHolds(p, j) ==
    \E i \in DOMAIN p : \A l \in p[i] : IsTrue(l.op, Field(j, l.left), Field(j, l.right))

LEMMA HoldsFields ==
  ASSUME NEW c, NEW j
  PROVE  Holds(c, [col \in MentionedIn(c) |-> Field(j, col)]) <=> \A p \in c : PredicateHolds(p, j)
<1> DEFINE val == [col \in MentionedIn(c) |-> Field(j, col)]
<1>1. \A col \in MentionedIn(c) : val[col] = Field(j, col)
  OBVIOUS
<1>2. ASSUME NEW p \in c, NEW i \in DOMAIN p, NEW l \in p[i]
      PROVE  l.left \in MentionedIn(c) /\ l.right \in MentionedIn(c)
  <2>1. l \in LiteralsOf(c)
    BY DEF LiteralsOf, Literals, Range
  <2> QED BY <2>1 DEF MentionedIn, ColumnsOf
<1> HIDE DEF val
<1>3. \A p \in c : \A i \in DOMAIN p : \A l \in p[i] : val[l.left] = Field(j, l.left) /\ val[l.right] = Field(j, l.right)
  BY <1>1, <1>2
<1>4. Holds(c, val) <=> \A p \in c : PredicateHolds(p, j)
  BY <1>3 DEF Holds, PredicateHolds
<1> QED BY <1>4 DEF val

\* What join k asks of a row.
Passing(q, db, j, k) ==
    IF SemiOrAnti(q.items[k])
    THEN Matches(j, q.items[k], ItemRows(q, k, db)) = {} <=> q.items[k].kind = "ANTI"
    ELSE \A p \in q.items[k].on : PredicateHolds(p, j)

\* The rows of the first i items.
Total(q, db, i, j) ==
    /\ Over(j, Visible(q, i))
    /\ \A k \in 1 .. i : ~SemiOrAnti(q.items[k]) => \E r \in ItemRows(q, k, db) : j[q.items[k].alias] = {r}
    /\ \A k \in 2 .. i : Passing(q, db, j, k)

LEMMA VisibleGrows ==
  ASSUME NEW q, NEW i \in Nat, NEW k \in Nat, k <= i
  PROVE  Visible(q, k) \subseteq Visible(q, i)
<1>1. 1 .. k \subseteq 1 .. i
  OBVIOUS
<1> QED BY <1>1 DEF Visible

LEMMA PassingNarrowed ==
  ASSUME NEW q, Shaped(q), WellFormed(q), NEW i \in 2 .. Len(q.items), NEW k \in 2 .. Len(q.items), k < i,
         NEW db, NEW j, Over(j, Visible(q, i - 1) \cup {q.items[i].alias})
  PROVE  Passing(q, db, Narrowed(j, q.items[i].alias), k) <=> Passing(q, db, j, k)
<1> DEFINE A == Visible(q, i - 1)
           a == q.items[i].alias
           B == A \cup {a}
           it == q.items[k]
           d == Narrowed(j, a)
<1>1. Len(q.items) \in Nat /\ DOMAIN q.items = 1 .. Len(q.items)
  BY ShapedItems
<1>2. /\ i \in 1 .. Len(q.items) /\ k \in 1 .. Len(q.items) /\ i # k /\ k - 1 \in Nat /\ i - 1 \in Nat /\ k - 1 <= i - 1
      /\ k \in 1 .. (i - 1) /\ i - 1 < i
  BY <1>1
<1>3. a \notin A
  BY <1>2, NotVisibleYet
<1>4. Visible(q, k - 1) \subseteq A
  BY <1>2, VisibleGrows
<1>5. Others(it) \subseteq A
  BY <1>4 DEF WellFormed
<1>6. it.alias # a
  BY <1>2, ShapedItems
<1>7. a \notin TablesOf(it.on)
  BY <1>3, <1>5, <1>6 DEF Others
<1>8. CASE SemiOrAnti(it)
  <2>1. Matches(d, it, ItemRows(q, k, db)) = Matches(j, it, ItemRows(q, k, db))
    BY <1>5, <1>6, <1>7, MatchesNarrowed
  <2> QED BY <1>8, <2>1 DEF Passing
<1>9. CASE ~SemiOrAnti(it)
  <2>1. it.alias \in A
    BY <1>2, <1>9 DEF Visible
  <2>2. TablesOf(it.on) \subseteq B
    BY <1>5, <2>1 DEF Others
  <2> HIDE DEF A, a, B, it, d
  <2>3. \A col \in MentionedIn(it.on) : Field(d, col) = Field(j, col)
    <3> SUFFICES ASSUME NEW col \in MentionedIn(it.on) PROVE Field(d, col) = Field(j, col)
      OBVIOUS
    <3>1. col[1] \in TablesOf(it.on)
      BY MentionedTables
    <3>2. col[1] \in B /\ col[1] # a /\ Over(j, B)
      BY <1>7, <2>2, <3>1 DEF B, A, a
    <3> QED BY <3>2, FieldNarrowed DEF d
  <2>4. [col \in MentionedIn(it.on) |-> Field(d, col)] = [col \in MentionedIn(it.on) |-> Field(j, col)]
    BY <2>3
  <2>5. (\A p \in it.on : PredicateHolds(p, d)) <=> (\A p \in it.on : PredicateHolds(p, j))
    BY <2>4, HoldsFields
  <2> QED BY <1>9, <2>5 DEF Passing, it, d, a
<1> QED BY <1>8, <1>9

LEMMA WithItsRow ==
  ASSUME NEW A, NEW a, a \notin A, NEW j, Over(j, A \cup {a})
  PROVE  Over(Narrowed(j, a), A) /\ With(Narrowed(j, a), a, j[a]) = j
<1> DEFINE d == Narrowed(j, a)
           w == With(d, a, j[a])
<1>1. Over(d, (A \cup {a}) \ {a}) /\ (A \cup {a}) \ {a} = A
  BY NarrowedOver
<1>2. \A y \in A : d[y] = j[y]
  BY NarrowedAt
<1> HIDE DEF d
<1>3. Over(d, A)
  BY <1>1
<1>4. Over(w, A \cup {a}) /\ w[a] = j[a]
  BY <1>3, WithOver, WithNew
<1>5. \A y \in A : w[y] = d[y]
  BY <1>3, WithOld
<1> HIDE DEF w
<1>6. \A y \in A \cup {a} : w[y] = j[y]
  BY <1>2, <1>4, <1>5
<1>7. w = j
  BY <1>4, <1>6, OverEqual
<1> QED BY <1>3, <1>7 DEF d, w

LEMMA NarrowedWith ==
  ASSUME NEW A, NEW a, a \notin A, NEW l, Over(l, A), NEW R
  PROVE  Narrowed(With(l, a, R), a) = l
<1> DEFINE w == With(l, a, R)
<1>1. Over(w, A \cup {a}) /\ \A y \in A : w[y] = l[y]
  BY WithOver, WithOld
<1> HIDE DEF w
<1>2. Over(Narrowed(w, a), A)
  BY <1>1, WithItsRow
<1>3. \A y \in A : Narrowed(w, a)[y] = w[y]
  BY <1>1, NarrowedAt
<1>4. \A y \in A : Narrowed(w, a)[y] = l[y]
  BY <1>1, <1>3
<1>5. Narrowed(w, a) = l
  BY <1>2, <1>4, OverEqual
<1> QED BY <1>5 DEF w

LEMMA TotalSemi ==
  ASSUME NEW q, Shaped(q), NEW i \in 2 .. Len(q.items), SemiOrAnti(q.items[i]),
         NEW db, NEW left, \A j : j \in left <=> Total(q, db, i - 1, j), NEW j
  PROVE  j \in JoinRows(left, q.items[i], ItemRows(q, i, db), Visible(q, i - 1)) <=> Total(q, db, i, j)
<1> DEFINE it == q.items[i]
           rows == ItemRows(q, i, db)
<1>1. i \in Nat /\ i > 1 /\ 1 .. i = (1 .. (i - 1)) \cup {i} /\ 2 .. i = (2 .. (i - 1)) \cup {i}
  <2>1. Len(q.items) \in Nat
    BY ShapedItems
  <2> QED BY <2>1
<1>2. Visible(q, i) = Visible(q, i - 1)
  BY <1>1, VisibleStep
<1>3. j \in JoinRows(left, it, rows, Visible(q, i - 1)) <=> j \in left /\ (Matches(j, it, rows) = {} <=> it.kind = "ANTI")
  <2>1. ASSUME it.kind = "SEMI" PROVE j \in JoinRows(left, it, rows, Visible(q, i - 1)) <=> j \in left /\ (Matches(j, it, rows) = {} <=> it.kind = "ANTI")
    <3> HIDE DEF it, rows
    <3> DEFINE W == {l \in left : Matches(l, it, rows) # {}}
    <3>1. JoinRows(left, it, rows, Visible(q, i - 1)) = W
      BY <2>1, SemiRows
    <3>2. j \in W <=> j \in left /\ Matches(j, it, rows) # {}
      OBVIOUS
    <3> HIDE DEF W
    <3> QED BY <2>1, <3>1, <3>2
  <2>2. ASSUME it.kind = "ANTI" PROVE j \in JoinRows(left, it, rows, Visible(q, i - 1)) <=> j \in left /\ (Matches(j, it, rows) = {} <=> it.kind = "ANTI")
    <3> HIDE DEF it, rows
    <3> DEFINE W == {l \in left : Matches(l, it, rows) = {}}
    <3>1. JoinRows(left, it, rows, Visible(q, i - 1)) = W
      BY <2>2, AntiRows
    <3>2. j \in W <=> j \in left /\ Matches(j, it, rows) = {}
      OBVIOUS
    <3> HIDE DEF W
    <3> QED BY <2>2, <3>1, <3>2
  <2> QED BY <2>1, <2>2 DEF SemiOrAnti
<1>4. Passing(q, db, j, i) <=> (Matches(j, it, rows) = {} <=> it.kind = "ANTI")
  BY DEF Passing
<1> HIDE DEF it, rows
<1>5. Total(q, db, i, j) <=> Total(q, db, i - 1, j) /\ Passing(q, db, j, i)
  BY <1>1, <1>2 DEF Total
<1> QED BY <1>3, <1>4, <1>5 DEF it, rows

LEMMA Upwards ==
  ASSUME NEW n \in Nat, NEW i \in 2 .. n
  PROVE  /\ i \in Nat /\ i > 1 /\ 1 .. i = (1 .. (i - 1)) \cup {i} /\ 2 .. i = (2 .. (i - 1)) \cup {i}
         /\ i - 1 \in Nat /\ i - 1 < i /\ i \in 1 .. n
         /\ \A k \in 1 .. (i - 1) : k \in 1 .. n /\ k # i
         /\ \A k \in 2 .. (i - 1) : k \in 2 .. n /\ k < i
<1>1. i \in Nat /\ i > 1 /\ i <= n
  OBVIOUS
<1>2. 1 .. i = (1 .. (i - 1)) \cup {i}
  BY <1>1
<1>3. 2 .. i = (2 .. (i - 1)) \cup {i}
  BY <1>1
<1>4. i - 1 \in Nat /\ i - 1 < i /\ i \in 1 .. n
  BY <1>1
<1>5. \A k \in 1 .. (i - 1) : k \in 1 .. n /\ k # i
  BY <1>1
<1>6. \A k \in 2 .. (i - 1) : k \in 2 .. n /\ k < i
  BY <1>1
<1> QED BY <1>1, <1>2, <1>3, <1>4, <1>5, <1>6

LEMMA TotalOrdinary ==
  ASSUME NEW q, Shaped(q), WellFormed(q), NEW i \in 2 .. Len(q.items), ~SemiOrAnti(q.items[i]), q.items[i].side = "",
         NEW db, NEW left, \A j : j \in left <=> Total(q, db, i - 1, j), NEW j
  PROVE  j \in JoinRows(left, q.items[i], ItemRows(q, i, db), Visible(q, i - 1)) <=> Total(q, db, i, j)
<1> DEFINE it == q.items[i]
           rows == ItemRows(q, i, db)
           A == Visible(q, i - 1)
           a == it.alias
           B == A \cup {a}
           l == Narrowed(j, a)
           W == JoinRows(left, it, rows, A)
<1>0. Len(q.items) \in Nat
  BY ShapedItems
<1>1. /\ i \in Nat /\ i > 1 /\ 1 .. i = (1 .. (i - 1)) \cup {i} /\ 2 .. i = (2 .. (i - 1)) \cup {i}
      /\ i - 1 \in Nat /\ i - 1 < i /\ i \in 1 .. Len(q.items)
      /\ \A k \in 1 .. (i - 1) : k \in 1 .. Len(q.items) /\ k # i
      /\ \A k \in 2 .. (i - 1) : k \in 2 .. Len(q.items) /\ k < i
  BY <1>0, Upwards
<1>2. Visible(q, i) = B
  BY <1>1, VisibleStep
<1>3. a \notin A
  BY <1>1, NotVisibleYet
<1>4. j \in W <=> \E m \in left : \E r \in Matches(m, it, rows) : j = With(m, a, {r})
  <2>1. ~IsAlone(j, left, it, rows) /\ ~IsUnmatched(j, left, it, rows, A)
    BY DEF IsAlone, IsUnmatched
  <2> QED BY <2>1, OrdinaryRows DEF IsMatched
<1>5. \A m : \A r : r \in Matches(m, it, rows)
               <=> r \in rows /\ \A p \in it.on : PredicateHolds(p, With(m, a, {r}))
  BY HoldsFields DEF Matches
<1>6. Passing(q, db, j, i) <=> \A p \in it.on : PredicateHolds(p, j)
  BY DEF Passing
<1>7. \A k \in 1 .. (i - 1) : ~SemiOrAnti(q.items[k]) => q.items[k].alias \in A
  BY DEF Visible
<1>8. ASSUME Over(j, B) PROVE Total(q, db, i - 1, l) <=> /\ \A k \in 1 .. (i - 1) : ~SemiOrAnti(q.items[k]) =>
                                                              \E r \in ItemRows(q, k, db) : j[q.items[k].alias] = {r}
                                                         /\ \A k \in 2 .. (i - 1) : Passing(q, db, j, k)
  <2>1. Over(l, A)
    BY <1>3, <1>8, WithItsRow
  <2>2. \A y \in A : l[y] = j[y]
    <3> HIDE DEF a, A
    <3>1. \A y \in A : y \in B /\ y # a
      BY <1>3
    <3> HIDE DEF B
    <3>2. ASSUME NEW y \in A PROVE Narrowed(j, a)[y] = j[y]
      <4>1. y \in B /\ y # a
        BY <3>1
      <4> QED BY <1>8, <4>1 DEF Narrowed, Over
    <3> QED BY <3>2
  <2>3. \A k \in 2 .. (i - 1) : Passing(q, db, l, k) <=> Passing(q, db, j, k)
    BY <1>1, <1>8, PassingNarrowed
  <2> HIDE DEF l, A
  <2>4. \A k \in 1 .. (i - 1) : ~SemiOrAnti(q.items[k]) => l[q.items[k].alias] = j[q.items[k].alias]
    BY <1>7, <2>2
  <2> QED BY <2>1, <2>3, <2>4 DEF Total, A
<1>9. ASSUME Over(j, B) PROVE Total(q, db, i, j) <=> /\ Total(q, db, i - 1, l)
                                                     /\ \E r \in rows : j[a] = {r}
                                                     /\ \A p \in it.on : PredicateHolds(p, j)
  <2> DEFINE Row(k) == ~SemiOrAnti(q.items[k]) => \E r \in ItemRows(q, k, db) : j[q.items[k].alias] = {r}
  <2>1. Total(q, db, i, j) <=> (\A k \in 1 .. i : Row(k)) /\ (\A k \in 2 .. i : Passing(q, db, j, k))
    BY <1>2, <1>9 DEF Total
  <2>2. Row(i) <=> \E r \in rows : j[a] = {r}
    OBVIOUS
  <2>3. Total(q, db, i - 1, l) <=> (\A k \in 1 .. (i - 1) : Row(k)) /\ (\A k \in 2 .. (i - 1) : Passing(q, db, j, k))
    BY <1>8, <1>9
  <2> HIDE DEF Row, it, rows, a, l
  <2> QED BY <1>1, <1>6, <2>1, <2>2, <2>3
<1>10. ASSUME j \in W PROVE Total(q, db, i, j)
  <2>1. PICK m \in left : \E r \in Matches(m, it, rows) : j = With(m, a, {r})
    BY <1>4, <1>10
  <2>2. PICK r \in Matches(m, it, rows) : j = With(m, a, {r})
    BY <2>1
  <2>3. Total(q, db, i - 1, m) /\ Over(m, A)
    BY <2>1 DEF Total
  <2>4. Over(j, B) /\ j[a] = {r}
    <3> HIDE DEF a, A, it, rows
    <3>1. Over(With(m, a, {r}), A \cup {a})
      BY <2>3, WithOver
    <3>2. With(m, a, {r})[a] = {r}
      BY DEF With
    <3> QED BY <2>2, <3>1, <3>2 DEF a
  <2>5. l = m
    <3> HIDE DEF a, A, it, rows
    <3>1. Narrowed(With(m, a, {r}), a) = m
      BY <1>3, <2>3, NarrowedWith
    <3> QED BY <2>2, <3>1 DEF a
  <2>6. r \in rows /\ \A p \in it.on : PredicateHolds(p, j)
    BY <1>5, <2>2
  <2> HIDE DEF l, it, rows, a, A, B
  <2> QED BY <1>9, <2>3, <2>4, <2>5, <2>6
<1>11. ASSUME Total(q, db, i, j) PROVE j \in W
  <2>1. Over(j, B)
    BY <1>2, <1>11 DEF Total
  <2>2. PICK r \in rows : j[a] = {r}
    BY <1>9, <1>11, <2>1
  <2>3. Total(q, db, i - 1, l) /\ \A p \in it.on : PredicateHolds(p, j)
    BY <1>9, <1>11, <2>1
  <2>4. With(l, a, {r}) = j
    BY <1>3, <2>1, <2>2, WithItsRow
  <2>5. l \in left
    BY <2>3
  <2> HIDE DEF l, it, rows, a, A, B, W
  <2>6. r \in Matches(l, it, rows)
    BY <1>5, <2>2, <2>3, <2>4
  <2> QED BY <1>4, <2>4, <2>5, <2>6
<1> QED BY <1>10, <1>11

\* The rows of a query without sides.
LEMMA JoinedTotal ==
  ASSUME NEW q, Shaped(q), WellFormed(q), Reorderable(q), NEW db
  PROVE  \A j : j \in Joined(q, db) <=> Total(q, db, Len(q.items), j)
<1> DEFINE n == Len(q.items)
           J == JoinedUpTo(q, db)
           K == {i \in 0 .. n : i > 0 => \A j : j \in J[i] <=> Total(q, db, i, j)}
<1>1. n \in Nat \ {0} /\ DOMAIN q.items = 1 .. n
  BY ShapedItems
<1>11. \A i \in 2 .. n : q.items[i].side = ""
  BY DEF Reorderable, Joins
<1>2. /\ J[1] = FirstRows(q, db)
      /\ \A i \in 2 .. n : J[i] = JoinRows(J[i - 1], q.items[i], ItemRows(q, i, db), Visible(q, i - 1))
  BY <1>1, JoinedStep
<1>3. Joined(q, db) = J[n]
  BY DEF Joined
<1>4. Visible(q, 1) = {q.items[1].alias} /\ ~SemiOrAnti(q.items[1])
  BY FirstVisible DEF Shaped
<1> HIDE DEF n, J
<1>5. \A j : j \in J[1] <=> Total(q, db, 1, j)
  <2> SUFFICES ASSUME NEW j PROVE j \in J[1] <=> Total(q, db, 1, j)
    OBVIOUS
  <2> DEFINE a == q.items[1].alias
             rows == ItemRows(q, 1, db)
  <2>1. Total(q, db, 1, j) <=> Over(j, {a}) /\ \E r \in rows : j[a] = {r}
    <3>1. 1 .. 1 = {1} /\ 2 .. 1 = {}
      OBVIOUS
    <3> QED BY <1>4, <3>1 DEF Total
  <2>2. j \in J[1] <=> \E r \in rows : j = [x \in {a} |-> {r}]
    BY <1>2 DEF FirstRows
  <2> HIDE DEF a, rows
  <2>3. ASSUME NEW r PROVE j = [x \in {a} |-> {r}] <=> Over(j, {a}) /\ j[a] = {r}
    <3> DEFINE u == [x \in {a} |-> {r}]
    <3>1. Over(u, {a}) /\ u[a] = {r}
      BY DEF Over
    <3> HIDE DEF u
    <3>2. ASSUME Over(j, {a}), j[a] = {r} PROVE j = u
      BY <3>1, <3>2, OverEqual
    <3>3. j = u <=> Over(j, {a}) /\ j[a] = {r}
      BY <3>1, <3>2
    <3> QED BY <3>3 DEF u
  <2> QED BY <2>1, <2>2, <2>3
<1>6. 0 \in K
  BY <1>1
<1>7. ASSUME NEW i \in 1 .. n, i - 1 \in K PROVE i \in K
  <2>0. i \in 0 .. n
    BY <1>1
  <2>1. CASE i = 1
    BY <1>5, <2>0, <2>1
  <2>2. CASE i # 1
    <3>1. i \in 2 .. n /\ i - 1 > 0
      BY <1>1, <2>2
    <3>2. \A j : j \in J[i - 1] <=> Total(q, db, i - 1, j)
      BY <1>7, <3>1
    <3>3. \A j : j \in JoinRows(J[i - 1], q.items[i], ItemRows(q, i, db), Visible(q, i - 1)) <=> Total(q, db, i, j)
      <4>1. i \in 2 .. Len(q.items) /\ q.items[i].side = ""
        BY <1>11, <3>1 DEF n
      <4>2. CASE SemiOrAnti(q.items[i])
        BY <3>2, <4>1, <4>2, TotalSemi
      <4>3. CASE ~SemiOrAnti(q.items[i])
        BY <3>2, <4>1, <4>3, TotalOrdinary
      <4> QED BY <4>2, <4>3
    <3>4. J[i] = JoinRows(J[i - 1], q.items[i], ItemRows(q, i, db), Visible(q, i - 1))
      BY <1>2, <3>1
    <3>5. \A j : j \in J[i] <=> Total(q, db, i, j)
      BY <3>3, <3>4
    <3> QED BY <2>0, <3>5
  <2> QED BY <2>1, <2>2
<1> HIDE DEF K
<1>8. 0 .. n \subseteq K
  BY <1>1, <1>6, <1>7, InductionUpTo
<1>9. n \in K /\ n > 0
  BY <1>1, <1>8
<1>10. \A j : j \in J[n] <=> Total(q, db, n, j)
  BY <1>9 DEF K
<1> QED BY <1>3, <1>10 DEF n

LEMMA TrueHolds ==
  ASSUME NEW j
  PROVE  PredicateHolds(True, j) /\ PredicateTables(True) = {}
<1>1. DOMAIN True = {1} /\ True[1] = {}
  BY DEF True
<1>2. Range(True) = {{}}
  BY <1>1 DEF Range
<1> QED BY <1>1, <1>2 DEF PredicateHolds, PredicateTables, BlockTables, Literals

\* The tables of an ON are those of its predicates.
LEMMA TablesByPredicate ==
  ASSUME NEW c
  PROVE  /\ \A x \in TablesOf(c) : \E p \in c : x \in PredicateTables(p)
         /\ \A p \in c : PredicateTables(p) \subseteq TablesOf(c)
  BY DEF TablesOf, BlockTables, LiteralsOf, PredicateTables

\* What all joins together ask.
LEMMA PassingAll ==
  ASSUME NEW q, NEW db, NEW j
  PROVE  (\A k \in 2 .. Len(q.items) : Passing(q, db, j, k))
         <=> /\ \A k \in Joins(q) : SemiOrAnti(q.items[k]) => Passing(q, db, j, k)
             /\ \A p \in OrdinaryOn(q) : PredicateHolds(p, j)
<1>1. \A p : p \in OrdinaryOn(q) <=> \E k \in Joins(q) : ~SemiOrAnti(q.items[k]) /\ p \in q.items[k].on
  BY DEF OrdinaryOn, Ordinary
<1>2. \A k : ~SemiOrAnti(q.items[k]) => (Passing(q, db, j, k) <=> \A p \in q.items[k].on : PredicateHolds(p, j))
  BY DEF Passing
<1>3. 2 .. Len(q.items) = Joins(q)
  BY DEF Joins
<1> QED BY <1>1, <1>2, <1>3

\* q as it was, and r as it comes out of extraction (e) and ordering (pi).
Rearranged(q, r, pi) ==
    /\ r.where = q.where /\ r.uses = q.uses /\ r.ctes = q.ctes
    /\ \A k \in 1 .. Len(r.items) :
         /\ pi[k] \in 1 .. Len(q.items)
         /\ r.items[k].alias = q.items[pi[k]].alias
         /\ r.items[k].side = q.items[pi[k]].side
         /\ r.items[k].source = q.items[pi[k]].source
         /\ SemiOrAnti(r.items[k]) <=> SemiOrAnti(q.items[pi[k]])
         /\ SemiOrAnti(q.items[pi[k]]) => r.items[k] = q.items[pi[k]]
         /\ pi[k] = 1 <=> k = 1
    /\ \A i \in 1 .. Len(q.items) : \E k \in 1 .. Len(r.items) : pi[k] = i
    /\ OrdinaryOn(q) \cup {True} = OrdinaryOn(r) \cup {True}
    /\ \A k, l \in 1 .. Len(r.items) : k # 1 /\ r.items[l].alias \in Others(r.items[k]) => l < k

LEMMA RearrangedByBoth ==
  ASSUME NEW q, Shaped(q), NEW e, Regrouped(q, e), SamePredicates(q, e), NEW r, Shaped(r), NEW pi, Permutes(e, r, pi)
  PROVE  Rearranged(q, r, pi)
<1>1. /\ DOMAIN q.items = 1 .. Len(q.items) /\ DOMAIN e.items = DOMAIN q.items /\ DOMAIN r.items = 1 .. Len(r.items)
      /\ Len(q.items) \in Nat \ {0} /\ Len(r.items) \in Nat \ {0}
  BY ShapedItems DEF Regrouped
<1>2. r.where = q.where /\ r.uses = q.uses /\ r.ctes = q.ctes
  <2>1. e.where = q.where /\ e.uses = q.uses /\ e.ctes = q.ctes
    <3> DEFINE w == q.where
               u == q.uses
               c == q.ctes
               v == q.recursive
               i == e.items
    <3>1. e = [items |-> i, where |-> w, uses |-> u, recursive |-> v, ctes |-> c]
      BY DEF Regrouped
    <3> HIDE DEF w, u, c, v, i
    <3>2. e.where = w /\ e.uses = u /\ e.ctes = c
      BY <3>1
    <3> QED BY <3>2 DEF w, u, c
  <2>2. r.where = e.where /\ r.uses = e.uses /\ r.ctes = e.ctes
    <3> DEFINE w == e.where
               u == e.uses
               c == e.ctes
               v == e.recursive
               i == r.items
    <3>1. r = [items |-> i, where |-> w, uses |-> u, recursive |-> v, ctes |-> c]
      BY DEF Permutes
    <3> HIDE DEF w, u, c, v, i
    <3>2. r.where = w /\ r.uses = u /\ r.ctes = c
      BY <3>1
    <3> QED BY <3>2 DEF w, u, c
  <2> QED BY <2>1, <2>2
<1>3. ASSUME NEW i \in 1 .. Len(q.items)
      PROVE  /\ e.items[i].alias = q.items[i].alias /\ e.items[i].side = q.items[i].side
             /\ e.items[i].source = q.items[i].source
             /\ SemiOrAnti(e.items[i]) <=> SemiOrAnti(q.items[i])
             /\ SemiOrAnti(q.items[i]) => e.items[i] = q.items[i]
  <2> DEFINE x == q.items[i].alias
             y == q.items[i].side
             s == q.items[i].source
             k == e.items[i].kind
             o == e.items[i].on
             t == e.items[i]
  <2>1. t = Item(x, y, k, s, o)
    BY <1>1 DEF Regrouped
  <2> HIDE DEF x, y, s, k, o, t
  <2>2. t.alias = x /\ t.side = y /\ t.source = s
    BY <2>1 DEF Item
  <2>3. t.alias = q.items[i].alias /\ t.side = q.items[i].side /\ t.source = q.items[i].source
    BY <2>2 DEF x, y, s
  <2>4. /\ e.items[i].kind = "SEMI" <=> q.items[i].kind = "SEMI"
        /\ e.items[i].kind = "ANTI" <=> q.items[i].kind = "ANTI"
    BY <1>1 DEF Regrouped
  <2>5. SemiOrAnti(e.items[i]) <=> SemiOrAnti(q.items[i])
    BY <2>4 DEF SemiOrAnti
  <2>6. SemiOrAnti(q.items[i]) => e.items[i] = q.items[i]
    BY <1>1 DEF SamePredicates
  <2> QED BY <2>3, <2>5, <2>6 DEF t
<1>4. ASSUME NEW k \in 1 .. Len(r.items) PROVE pi[k] \in 1 .. Len(q.items) /\ r.items[k] = e.items[pi[k]]
  BY <1>1 DEF Permutes
<1>5. \A k \in 1 .. Len(r.items) : pi[k] = 1 <=> k = 1
  <2>1. 1 \in DOMAIN r.items
    BY <1>1
  <2> QED BY <1>1, <2>1 DEF Permutes
<1>6. \A i \in 1 .. Len(q.items) : \E k \in 1 .. Len(r.items) : pi[k] = i
  BY <1>1 DEF Permutes
<1>7. OrdinaryOn(r) = OrdinaryOn(e)
  <2>1. \A p : p \in OrdinaryOn(r) <=> \E k \in 2 .. Len(r.items) : ~SemiOrAnti(r.items[k]) /\ p \in r.items[k].on
    BY DEF OrdinaryOn, Ordinary, Joins
  <2>2. \A p : p \in OrdinaryOn(e) <=> \E k \in 2 .. Len(e.items) : ~SemiOrAnti(e.items[k]) /\ p \in e.items[k].on
    BY DEF OrdinaryOn, Ordinary, Joins
  <2>3. 2 .. Len(e.items) = 2 .. Len(q.items)
    <3>1. DOMAIN e.items = 1 .. Len(e.items) /\ Len(e.items) \in Nat
      BY ShapedItems DEF Regrouped
    <3>2. Len(e.items) = Len(q.items)
      <4> DEFINE m == Len(e.items)
                 n == Len(q.items)
      <4>1. m \in Nat /\ n \in Nat /\ 1 .. m = 1 .. n
        BY <1>1, <3>1
      <4> HIDE DEF m, n
      <4>2. m = n
        BY <4>1
      <4> QED BY <4>2 DEF m, n
    <3> QED BY <3>2
  <2>4. \A k \in 2 .. Len(r.items) : pi[k] \in 2 .. Len(q.items) /\ r.items[k] = e.items[pi[k]]
    <3> DEFINE m == Len(r.items)
               n == Len(q.items)
    <3>1. \A k \in 2 .. m : k \in 1 .. m /\ k # 1
      <4> HIDE DEF m
      <4> QED OBVIOUS
    <3>2. \A i \in 1 .. n : i # 1 => i \in 2 .. n
      <4>1. n \in Nat
        BY <1>1
      <4> HIDE DEF n
      <4> QED BY <4>1
    <3> QED BY <1>4, <1>5, <3>1, <3>2
  <2>5. \A i \in 2 .. Len(q.items) : \E k \in 2 .. Len(r.items) : pi[k] = i
    <3> DEFINE m == Len(r.items)
               n == Len(q.items)
    <3>1. \A k \in 2 .. n : k \in 1 .. n /\ k # 1
      <4> HIDE DEF n
      <4> QED OBVIOUS
    <3>2. \A i \in 1 .. m : i # 1 => i \in 2 .. m
      <4>1. m \in Nat
        BY <1>1
      <4> HIDE DEF m
      <4> QED BY <4>1
    <3> QED BY <1>5, <1>6, <3>1, <3>2
  <2>6. ASSUME NEW p \in OrdinaryOn(r) PROVE p \in OrdinaryOn(e)
    <3>1. PICK k \in 2 .. Len(r.items) : ~SemiOrAnti(r.items[k]) /\ p \in r.items[k].on
      BY <2>1
    <3>2. pi[k] \in 2 .. Len(e.items) /\ ~SemiOrAnti(e.items[pi[k]]) /\ p \in e.items[pi[k]].on
      BY <2>3, <2>4, <3>1
    <3> QED BY <2>2, <3>2
  <2>7. ASSUME NEW p \in OrdinaryOn(e) PROVE p \in OrdinaryOn(r)
    <3>1. PICK i \in 2 .. Len(q.items) : ~SemiOrAnti(e.items[i]) /\ p \in e.items[i].on
      BY <2>2, <2>3
    <3>2. PICK k \in 2 .. Len(r.items) : pi[k] = i
      BY <2>5
    <3>3. r.items[k] = e.items[i]
      BY <2>4, <3>2
    <3> QED BY <2>1, <3>1, <3>3
  <2> QED BY <2>6, <2>7
<1>8. OrdinaryOn(q) \cup {True} = OrdinaryOn(r) \cup {True}
  BY <1>7 DEF SamePredicates
<1>9. \A k, l \in 1 .. Len(r.items) : k # 1 /\ r.items[l].alias \in Others(r.items[k]) => l < k
  BY <1>1 DEF Permutes
<1>10. ASSUME NEW k \in 1 .. Len(r.items)
       PROVE  /\ pi[k] \in 1 .. Len(q.items)
              /\ r.items[k].alias = q.items[pi[k]].alias
              /\ r.items[k].side = q.items[pi[k]].side
              /\ r.items[k].source = q.items[pi[k]].source
              /\ SemiOrAnti(r.items[k]) <=> SemiOrAnti(q.items[pi[k]])
              /\ SemiOrAnti(q.items[pi[k]]) => r.items[k] = q.items[pi[k]]
              /\ pi[k] = 1 <=> k = 1
  BY <1>3, <1>4, <1>5
<1> QED BY <1>2, <1>6, <1>8, <1>9, <1>10 DEF Rearranged

LEMMA RearrangedVisible ==
  ASSUME NEW q, NEW r, NEW pi, Rearranged(q, r, pi)
  PROVE  Visible(r, Len(r.items)) = Visible(q, Len(q.items))
<1>1. \A x : x \in Visible(r, Len(r.items)) <=> \E k \in 1 .. Len(r.items) : ~SemiOrAnti(r.items[k]) /\ x = r.items[k].alias
  BY DEF Visible
<1>2. \A x : x \in Visible(q, Len(q.items)) <=> \E k \in 1 .. Len(q.items) : ~SemiOrAnti(q.items[k]) /\ x = q.items[k].alias
  BY DEF Visible
<1>3. ASSUME NEW x \in Visible(r, Len(r.items)) PROVE x \in Visible(q, Len(q.items))
  <2>1. PICK k \in 1 .. Len(r.items) : ~SemiOrAnti(r.items[k]) /\ x = r.items[k].alias
    BY <1>1
  <2>2. pi[k] \in 1 .. Len(q.items) /\ ~SemiOrAnti(q.items[pi[k]]) /\ x = q.items[pi[k]].alias
    BY <2>1 DEF Rearranged
  <2> QED BY <1>2, <2>2
<1>4. ASSUME NEW x \in Visible(q, Len(q.items)) PROVE x \in Visible(r, Len(r.items))
  <2>1. PICK i \in 1 .. Len(q.items) : ~SemiOrAnti(q.items[i]) /\ x = q.items[i].alias
    BY <1>2
  <2>2. PICK k \in 1 .. Len(r.items) : pi[k] = i
    BY DEF Rearranged
  <2>3. ~SemiOrAnti(r.items[k]) /\ x = r.items[k].alias
    BY <2>1, <2>2 DEF Rearranged
  <2> QED BY <1>1, <2>3
<1> QED BY <1>3, <1>4

LEMMA RearrangedWellFormed ==
  ASSUME NEW q, Shaped(q), WellFormed(q), NEW r, Shaped(r), NEW pi, Rearranged(q, r, pi)
  PROVE  WellFormed(r)
<1> DEFINE all == Visible(q, Len(q.items))
           n == Len(q.items)
           m == Len(r.items)
<1>0. n \in Nat \ {0} /\ m \in Nat \ {0}
  BY ShapedItems
<1>1. \A i \in 2 .. n : Others(q.items[i]) \subseteq all
  <2> SUFFICES ASSUME NEW i \in 2 .. n PROVE Others(q.items[i]) \subseteq all
    OBVIOUS
  <2>1. Others(q.items[i]) \subseteq Visible(q, i - 1)
    BY DEF WellFormed
  <2> HIDE DEF n
  <2>2. i - 1 \in Nat /\ n \in Nat /\ i - 1 <= n
    BY <1>0
  <2>3. Visible(q, i - 1) \subseteq Visible(q, n)
    BY <2>2, VisibleGrows
  <2> QED BY <2>1, <2>3 DEF n
<1>2. \A p \in OrdinaryOn(q) : PredicateTables(p) \subseteq all
  <2> SUFFICES ASSUME NEW p \in OrdinaryOn(q), NEW x \in PredicateTables(p) PROVE x \in all
    OBVIOUS
  <2>1. PICK i \in 2 .. n : ~SemiOrAnti(q.items[i]) /\ p \in q.items[i].on
    BY DEF OrdinaryOn, Ordinary, Joins
  <2>2. x \in TablesOf(q.items[i].on)
    BY <2>1, TablesByPredicate
  <2>3. CASE x = q.items[i].alias
    <3>1. i \in 1 .. n
      <4> HIDE DEF n
      <4> QED BY <1>0
    <3> QED BY <2>1, <2>3, <3>1 DEF Visible
  <2>4. CASE x # q.items[i].alias
    BY <1>1, <2>2, <2>4 DEF Others
  <2> QED BY <2>3, <2>4
<1>3. \A p \in OrdinaryOn(r) : PredicateTables(p) \subseteq all
  <2> SUFFICES ASSUME NEW p \in OrdinaryOn(r) PROVE PredicateTables(p) \subseteq all
    OBVIOUS
  <2>1. p \in OrdinaryOn(q) \/ p = True
    BY DEF Rearranged
  <2>2. PredicateTables(True) = {}
    BY TrueHolds
  <2> QED BY <1>2, <2>1, <2>2
<1>4. ASSUME NEW k \in 2 .. m PROVE Others(r.items[k]) \subseteq all
  <2>1. k \in 1 .. m /\ k # 1
    <3> HIDE DEF m
    <3> QED BY <1>0
  <2>2. CASE SemiOrAnti(r.items[k])
    <3>1. pi[k] \in 1 .. n /\ pi[k] # 1 /\ r.items[k] = q.items[pi[k]]
      BY <2>1, <2>2 DEF Rearranged
    <3> HIDE DEF n, all
    <3>2. pi[k] \in 2 .. n
      BY <1>0, <3>1
    <3> QED BY <1>1, <3>1, <3>2
  <2>3. CASE ~SemiOrAnti(r.items[k])
    <3>1. \A p \in r.items[k].on : p \in OrdinaryOn(r)
      BY <2>3 DEF OrdinaryOn, Ordinary, Joins
    <3>2. TablesOf(r.items[k].on) \subseteq all
      BY <1>3, <3>1, TablesByPredicate
    <3> QED BY <3>2 DEF Others
  <2> QED BY <2>2, <2>3
<1>5. ASSUME NEW k \in 2 .. m PROVE Others(r.items[k]) \subseteq Visible(r, k - 1)
  <2> SUFFICES ASSUME NEW x \in Others(r.items[k]) PROVE x \in Visible(r, k - 1)
    OBVIOUS
  <2>1. x \in Visible(r, m)
    BY <1>4, RearrangedVisible
  <2>2. PICK l \in 1 .. m : ~SemiOrAnti(r.items[l]) /\ x = r.items[l].alias
    BY <2>1 DEF Visible
  <2>3. k \in 1 .. m /\ k # 1
    <3> HIDE DEF m
    <3> QED BY <1>0
  <2>4. l < k
    BY <2>2, <2>3 DEF Rearranged
  <2>5. l \in 1 .. (k - 1)
    <3> HIDE DEF m
    <3> QED BY <1>0, <2>4
  <2> QED BY <2>2, <2>5 DEF Visible
<1>6. r.uses \cup TablesOf(r.where) \subseteq Visible(r, m)
  <2>1. r.uses = q.uses /\ r.where = q.where
    BY DEF Rearranged
  <2>2. q.uses \cup TablesOf(q.where) \subseteq all
    BY DEF WellFormed
  <2> QED BY <2>1, <2>2, RearrangedVisible
<1> QED BY <1>5, <1>6 DEF WellFormed

LEMMA RearrangedTotal ==
  ASSUME NEW q, Shaped(q), NEW r, Shaped(r), NEW pi, Rearranged(q, r, pi), NEW db, NEW j
  PROVE  Total(r, db, Len(r.items), j) <=> Total(q, db, Len(q.items), j)
<1> DEFINE n == Len(q.items)
           m == Len(r.items)
<1>0. n \in Nat \ {0} /\ m \in Nat \ {0}
  BY ShapedItems
<1>1. \A k \in 1 .. m : ItemRows(r, k, db) = ItemRows(q, pi[k], db)
  BY DEF ItemRows, BodyOf, Rearranged
<1>2. (\A k \in 1 .. m : ~SemiOrAnti(r.items[k]) => \E t \in ItemRows(r, k, db) : j[r.items[k].alias] = {t})
      <=> (\A i \in 1 .. n : ~SemiOrAnti(q.items[i]) => \E t \in ItemRows(q, i, db) : j[q.items[i].alias] = {t})
  <2> DEFINE Row(i) == ~SemiOrAnti(q.items[i]) => \E t \in ItemRows(q, i, db) : j[q.items[i].alias] = {t}
  <2>1. ASSUME NEW k \in 1 .. m
        PROVE  (~SemiOrAnti(r.items[k]) => \E t \in ItemRows(r, k, db) : j[r.items[k].alias] = {t}) <=> Row(pi[k])
    <3>1. ItemRows(r, k, db) = ItemRows(q, pi[k], db)
      BY <1>1
    <3>2. (SemiOrAnti(r.items[k]) <=> SemiOrAnti(q.items[pi[k]])) /\ r.items[k].alias = q.items[pi[k]].alias
      BY DEF Rearranged
    <3> QED BY <3>1, <3>2
  <2>2. \A k \in 1 .. m : pi[k] \in 1 .. n
    BY DEF Rearranged
  <2>3. \A i \in 1 .. n : \E k \in 1 .. m : pi[k] = i
    BY DEF Rearranged
  <2>4. (\A k \in 1 .. m : Row(pi[k])) <=> (\A i \in 1 .. n : Row(i))
    <3> HIDE DEF Row, n, m
    <3> QED BY <2>2, <2>3
  <2> QED BY <2>1, <2>4
<1>3. /\ \A k \in 2 .. m : k \in 1 .. m /\ k # 1
      /\ \A k \in 1 .. m : k # 1 => k \in 2 .. m
      /\ \A i \in 2 .. n : i \in 1 .. n /\ i # 1
      /\ \A i \in 1 .. n : i # 1 => i \in 2 .. n
  <2> HIDE DEF n, m
  <2>1. (\A k \in 2 .. m : k \in 1 .. m /\ k # 1) /\ (\A i \in 2 .. n : i \in 1 .. n /\ i # 1)
    OBVIOUS
  <2>2. (\A k \in 1 .. m : k # 1 => k \in 2 .. m) /\ (\A i \in 1 .. n : i # 1 => i \in 2 .. n)
    BY <1>0
  <2> QED BY <2>1, <2>2
<1>4. \A k \in 1 .. m : SemiOrAnti(r.items[k]) => (Passing(r, db, j, k) <=> Passing(q, db, j, pi[k]))
  <2> SUFFICES ASSUME NEW k \in 1 .. m, SemiOrAnti(r.items[k])
               PROVE  Passing(r, db, j, k) <=> Passing(q, db, j, pi[k])
    OBVIOUS
  <2>1. r.items[k] = q.items[pi[k]] /\ SemiOrAnti(q.items[pi[k]])
    BY DEF Rearranged
  <2> QED BY <1>1, <2>1 DEF Passing
<1>5. (\A k \in Joins(r) : SemiOrAnti(r.items[k]) => Passing(r, db, j, k))
      <=> (\A i \in Joins(q) : SemiOrAnti(q.items[i]) => Passing(q, db, j, i))
  <2>1. \A k \in 2 .. m : pi[k] \in 2 .. n /\ (SemiOrAnti(r.items[k]) <=> SemiOrAnti(q.items[pi[k]]))
    BY <1>3 DEF Rearranged
  <2>2. \A i \in 2 .. n : \E k \in 2 .. m : pi[k] = i
    BY <1>3 DEF Rearranged
  <2> HIDE DEF n, m
  <2>3. (\A k \in 2 .. m : SemiOrAnti(r.items[k]) => Passing(r, db, j, k))
        <=> (\A i \in 2 .. n : SemiOrAnti(q.items[i]) => Passing(q, db, j, i))
    BY <1>3, <1>4, <2>1, <2>2
  <2> QED BY <2>3 DEF Joins, n, m
<1>6. (\A p \in OrdinaryOn(r) : PredicateHolds(p, j)) <=> (\A p \in OrdinaryOn(q) : PredicateHolds(p, j))
  BY TrueHolds DEF Rearranged
<1>7. (\A k \in 2 .. m : Passing(r, db, j, k)) <=> (\A i \in 2 .. n : Passing(q, db, j, i))
  BY <1>5, <1>6, PassingAll
<1>8. Visible(r, m) = Visible(q, n)
  BY RearrangedVisible
<1> HIDE DEF n, m
<1>9. Total(r, db, m, j) <=> Total(q, db, n, j)
  BY <1>2, <1>7, <1>8 DEF Total
<1> QED BY <1>9 DEF n, m

LEMMA RearrangedJoined ==
  ASSUME NEW q, Shaped(q), WellFormed(q), Reorderable(q), NEW r, Shaped(r), NEW pi, Rearranged(q, r, pi), NEW db
  PROVE  Joined(r, db) = Joined(q, db)
<1>1. WellFormed(r)
  BY RearrangedWellFormed
<1>2. Reorderable(r)
  <2> SUFFICES ASSUME NEW k \in Joins(r) PROVE r.items[k].side = ""
    BY DEF Reorderable
  <2> DEFINE n == Len(q.items)
             m == Len(r.items)
  <2>0. n \in Nat /\ m \in Nat
    BY ShapedItems
  <2>1. k \in 1 .. m /\ k # 1
    <3>1. k \in 2 .. m
      BY DEF Joins
    <3> HIDE DEF m
    <3> QED BY <2>0, <3>1
  <2>2. r.items[k].side = q.items[pi[k]].side /\ pi[k] \in 1 .. n /\ pi[k] # 1
    BY <2>1 DEF Rearranged
  <2>3. pi[k] \in 2 .. n
    <3> HIDE DEF n
    <3> QED BY <2>0, <2>2
  <2> QED BY <2>2, <2>3 DEF Reorderable, Joins
<1>3. \A j : j \in Joined(r, db) <=> Total(r, db, Len(r.items), j)
  BY <1>1, <1>2, JoinedTotal
<1>4. \A j : j \in Joined(q, db) <=> Total(q, db, Len(q.items), j)
  BY JoinedTotal
<1>5. \A j : j \in Joined(r, db) <=> j \in Joined(q, db)
  BY <1>3, <1>4, RearrangedTotal
<1>6. Joined(r, db) \subseteq Joined(q, db) /\ Joined(q, db) \subseteq Joined(r, db)
  BY <1>5
<1> QED BY <1>6

LEMMA SameFields ==
  ASSUME NEW q, Shaped(q), NEW r, Reworded(q, r), NEW i \in 1 .. Len(q.items)
  PROVE  /\ r.items[i].alias = q.items[i].alias /\ r.items[i].side = q.items[i].side
         /\ r.items[i].source = q.items[i].source
         /\ r.items[i].kind = "SEMI" <=> q.items[i].kind = "SEMI"
         /\ r.items[i].kind = "ANTI" <=> q.items[i].kind = "ANTI"
<1>1. CASE i = 1
  BY <1>1 DEF Reworded
<1>2. CASE i # 1
  <2> DEFINE x == q.items[i].alias
             y == q.items[i].side
             s == q.items[i].source
             k == r.items[i].kind
             o == r.items[i].on
             t == r.items[i]
             n == Len(q.items)
  <2>1. i \in 2 .. n
    <3>1. n \in Nat /\ i \in 1 .. n
      BY ShapedItems
    <3> HIDE DEF n
    <3> QED BY <1>2, <3>1
  <2>2. t = Item(x, y, k, s, o)
    BY <2>1 DEF Reworded
  <2> HIDE DEF x, y, s, k, o, t
  <2>3. t.alias = x /\ t.side = y /\ t.source = s
    BY <2>2 DEF Item
  <2>4. t.alias = q.items[i].alias /\ t.side = q.items[i].side /\ t.source = q.items[i].source
    BY <2>3 DEF x, y, s
  <2>5. /\ r.items[i].kind = "SEMI" <=> q.items[i].kind = "SEMI"
        /\ r.items[i].kind = "ANTI" <=> q.items[i].kind = "ANTI"
    BY <2>1 DEF Reworded
  <2> QED BY <2>4, <2>5 DEF t
<1> QED BY <1>1, <1>2

LEMMA SameRest ==
  ASSUME NEW q, NEW r, Reworded(q, r)
  PROVE  r.where = q.where /\ r.uses = q.uses /\ r.ctes = q.ctes
<1> DEFINE w == q.where
           u == q.uses
           c == q.ctes
           v == q.recursive
           i == r.items
<1>1. r = [items |-> i, where |-> w, uses |-> u, recursive |-> v, ctes |-> c]
  BY DEF Reworded
<1> HIDE DEF w, u, c, v, i
<1>2. r.where = w /\ r.uses = u /\ r.ctes = c
  BY <1>1
<1> QED BY <1>2 DEF w, u, c

\* A TRUE in place of no condition is not noticed.
LEMMA SameMatches ==
  ASSUME NEW it, NEW new, new.alias = it.alias, new.on = it.on \/ (it.on = {} /\ new.on = {True}), NEW l, NEW rows
  PROVE  Matches(l, new, rows) = Matches(l, it, rows)
<1> SUFFICES ASSUME NEW r PROVE r \in Matches(l, new, rows) <=> r \in Matches(l, it, rows)
  <2>1. Matches(l, new, rows) \subseteq rows /\ Matches(l, it, rows) \subseteq rows
    BY DEF Matches
  <2> QED BY <2>1
<1> DEFINE w == With(l, it.alias, {r})
<1>1. r \in Matches(l, new, rows) <=> r \in rows /\ \A p \in new.on : PredicateHolds(p, w)
  BY HoldsFields DEF Matches
<1>2. r \in Matches(l, it, rows) <=> r \in rows /\ \A p \in it.on : PredicateHolds(p, w)
  BY HoldsFields DEF Matches
<1> HIDE DEF w
<1>3. PredicateHolds(True, w)
  BY TrueHolds
<1>4. (\A p \in new.on : PredicateHolds(p, w)) <=> (\A p \in it.on : PredicateHolds(p, w))
  BY <1>3
<1> QED BY <1>1, <1>2, <1>4

LEMMA SameJoinRows ==
  ASSUME NEW it, NEW new, new.alias = it.alias, new.side = it.side,
         new.kind = "SEMI" <=> it.kind = "SEMI", new.kind = "ANTI" <=> it.kind = "ANTI",
         new.on = it.on \/ (it.on = {} /\ new.on = {True}), NEW left, NEW rows, NEW names
  PROVE  JoinRows(left, new, rows, names) = JoinRows(left, it, rows, names)
<1>1. \A l : Matches(l, new, rows) = Matches(l, it, rows)
  BY SameMatches
<1>2. CASE it.kind = "SEMI"
  <2> DEFINE V == {l \in left : Matches(l, new, rows) # {}}
             W == {l \in left : Matches(l, it, rows) # {}}
  <2>1. V = W
    BY <1>1
  <2>2. JoinRows(left, new, rows, names) = V
    BY <1>2, SemiRows
  <2>3. JoinRows(left, it, rows, names) = W
    BY <1>2, SemiRows
  <2> QED BY <2>1, <2>2, <2>3
<1>3. CASE it.kind = "ANTI"
  <2> DEFINE V == {l \in left : Matches(l, new, rows) = {}}
             W == {l \in left : Matches(l, it, rows) = {}}
  <2>1. V = W
    BY <1>1
  <2>2. JoinRows(left, new, rows, names) = V
    BY <1>3, AntiRows
  <2>3. JoinRows(left, it, rows, names) = W
    BY <1>3, AntiRows
  <2> QED BY <2>1, <2>2, <2>3
<1>4. CASE ~SemiOrAnti(it)
  <2>1. ~SemiOrAnti(new)
    BY <1>4 DEF SemiOrAnti
  <2> DEFINE V == JoinRows(left, new, rows, names)
             W == JoinRows(left, it, rows, names)
  <2>2. ASSUME NEW j PROVE j \in V <=> j \in W
    <3>1. IsMatched(j, left, new, rows) <=> IsMatched(j, left, it, rows)
      BY <1>1 DEF IsMatched
    <3>2. IsAlone(j, left, new, rows) <=> IsAlone(j, left, it, rows)
      BY <1>1 DEF IsAlone
    <3>3. IsUnmatched(j, left, new, rows, names) <=> IsUnmatched(j, left, it, rows, names)
      BY <1>1 DEF IsUnmatched
    <3>4. j \in V <=> IsMatched(j, left, new, rows) \/ IsAlone(j, left, new, rows) \/ IsUnmatched(j, left, new, rows, names)
      BY <2>1, OrdinaryRows
    <3>5. j \in W <=> IsMatched(j, left, it, rows) \/ IsAlone(j, left, it, rows) \/ IsUnmatched(j, left, it, rows, names)
      BY <1>4, OrdinaryRows
    <3> QED BY <3>1, <3>2, <3>3, <3>4, <3>5
  <2> HIDE DEF V, W
  <2>3. V \subseteq W /\ W \subseteq V
    BY <2>2
  <2>4. V = W
    BY <2>3
  <2> QED BY <2>4 DEF V, W
<1> QED BY <1>2, <1>3, <1>4 DEF SemiOrAnti

LEMMA RewordedVisible ==
  ASSUME NEW q, Shaped(q), NEW r, Reworded(q, r), NEW i \in 0 .. Len(q.items)
  PROVE  Visible(r, i) = Visible(q, i)
<1>1. \A k \in 1 .. i : k \in 1 .. Len(q.items)
  <2> DEFINE n == Len(q.items)
  <2>1. n \in Nat /\ i \in 0 .. n
    BY ShapedItems
  <2> HIDE DEF n
  <2>2. \A k \in 1 .. i : k \in 1 .. n
    BY <2>1
  <2> QED BY <2>2 DEF n
<1>2. \A k \in 1 .. i : r.items[k].alias = q.items[k].alias /\ (SemiOrAnti(r.items[k]) <=> SemiOrAnti(q.items[k]))
  BY <1>1, SameFields DEF SemiOrAnti
<1>3. ASSUME NEW x PROVE x \in Visible(r, i) <=> x \in Visible(q, i)
  <2>1. x \in Visible(r, i) <=> \E k \in 1 .. i : ~SemiOrAnti(r.items[k]) /\ x = r.items[k].alias
    BY DEF Visible
  <2>2. x \in Visible(q, i) <=> \E k \in 1 .. i : ~SemiOrAnti(q.items[k]) /\ x = q.items[k].alias
    BY DEF Visible
  <2> QED BY <1>2, <2>1, <2>2
<1>4. Visible(r, i) \subseteq Visible(q, i) /\ Visible(q, i) \subseteq Visible(r, i)
  BY <1>3
<1> QED BY <1>4

LEMMA RewordedWellFormed ==
  ASSUME NEW q, Shaped(q), WellFormed(q), NEW r, Reworded(q, r)
  PROVE  WellFormed(r)
<1> DEFINE n == Len(q.items)
<1>0. n \in Nat \ {0} /\ Len(r.items) = n
  BY ShapedItems DEF Reworded
<1>1. ASSUME NEW i \in 2 .. n PROVE Others(r.items[i]) \subseteq Visible(r, i - 1)
  <2>1. i \in 1 .. n /\ i - 1 \in 0 .. n
    <3> HIDE DEF n
    <3> QED BY <1>0
  <2>2. r.items[i].alias = q.items[i].alias
    BY <2>1, SameFields
  <2>3. TablesOf(r.items[i].on) \subseteq TablesOf(q.items[i].on)
    <3>1. r.items[i].on = q.items[i].on \/ r.items[i].on = {True}
      BY DEF Reworded
    <3>2. TablesOf({True}) = {}
      BY TrueHolds, TablesByPredicate
    <3> QED BY <3>1, <3>2
  <2>4. Others(q.items[i]) \subseteq Visible(q, i - 1)
    BY DEF WellFormed
  <2>5. Visible(r, i - 1) = Visible(q, i - 1)
    BY <2>1, RewordedVisible
  <2> QED BY <2>2, <2>3, <2>4, <2>5 DEF Others
<1>2. r.uses \cup TablesOf(r.where) \subseteq Visible(r, n)
  <2>1. n \in 0 .. n
    BY <1>0
  <2>2. Visible(r, n) = Visible(q, n)
    BY <2>1, RewordedVisible
  <2>3. r.uses = q.uses /\ r.where = q.where
    BY SameRest
  <2> QED BY <2>2, <2>3 DEF WellFormed
<1> QED BY <1>0, <1>1, <1>2 DEF WellFormed

LEMMA RewordedJoined ==
  ASSUME NEW q, Shaped(q), NEW r, Reworded(q, r), NEW db
  PROVE  Joined(r, db) = Joined(q, db)
<1> DEFINE n == Len(q.items)
           J == JoinedUpTo(q, db)
           H == JoinedUpTo(r, db)
           K == {i \in 0 .. n : i > 0 => H[i] = J[i]}
<1>1. n \in Nat \ {0} /\ DOMAIN q.items = 1 .. n
  BY ShapedItems
<1>2. Shaped(r) /\ Len(r.items) = n
  BY DEF Reworded
<1>3. DOMAIN r.items = 1 .. n
  BY <1>2, ShapedItems
<1>4. /\ J[1] = FirstRows(q, db)
      /\ \A i \in 2 .. n : J[i] = JoinRows(J[i - 1], q.items[i], ItemRows(q, i, db), Visible(q, i - 1))
  BY <1>1, JoinedStep
<1>5. /\ H[1] = FirstRows(r, db)
      /\ \A i \in 2 .. n : H[i] = JoinRows(H[i - 1], r.items[i], ItemRows(r, i, db), Visible(r, i - 1))
  BY <1>1, <1>3, JoinedStep
<1>6. Joined(q, db) = J[n] /\ Joined(r, db) = H[n]
  BY <1>2 DEF Joined
<1>7. \A i \in 1 .. n : r.items[i].alias = q.items[i].alias /\ ItemRows(r, i, db) = ItemRows(q, i, db)
  <2> SUFFICES ASSUME NEW i \in 1 .. n PROVE r.items[i].alias = q.items[i].alias /\ ItemRows(r, i, db) = ItemRows(q, i, db)
    OBVIOUS
  <2>1. r.items[i].alias = q.items[i].alias /\ r.items[i].source = q.items[i].source
    BY SameFields
  <2>2. r.ctes = q.ctes
    BY SameRest
  <2> QED BY <2>1, <2>2 DEF ItemRows, BodyOf
<1>8. H[1] = J[1]
  <2>1. 1 \in 1 .. n
    BY <1>1
  <2>2. r.items[1].alias = q.items[1].alias /\ ItemRows(r, 1, db) = ItemRows(q, 1, db)
    BY <1>7, <2>1
  <2>3. FirstRows(r, db) = FirstRows(q, db)
    BY <2>2 DEF FirstRows
  <2> HIDE DEF J, H
  <2> QED BY <1>4, <1>5, <2>3
<1> HIDE DEF J, H
<1>9. ASSUME NEW i \in 2 .. n, H[i - 1] = J[i - 1] PROVE H[i] = J[i]
  <2>1. i \in 1 .. n /\ i - 1 \in 0 .. n
    <3> HIDE DEF n
    <3> QED BY <1>1
  <2>2. ItemRows(r, i, db) = ItemRows(q, i, db)
    BY <1>7, <2>1
  <2>3. Visible(r, i - 1) = Visible(q, i - 1)
    BY <2>1, RewordedVisible
  <2> DEFINE it == q.items[i]
             new == r.items[i]
  <2>4. /\ new.alias = it.alias /\ new.side = it.side
        /\ new.kind = "SEMI" <=> it.kind = "SEMI"
        /\ new.kind = "ANTI" <=> it.kind = "ANTI"
    BY <2>1, SameFields
  <2>5. new.on = it.on \/ (it.on = {} /\ new.on = {True})
    BY DEF Reworded
  <2> HIDE DEF it, new
  <2>6. JoinRows(J[i - 1], new, ItemRows(q, i, db), Visible(q, i - 1)) = JoinRows(J[i - 1], it, ItemRows(q, i, db), Visible(q, i - 1))
    BY <2>4, <2>5, SameJoinRows
  <2>7. H[i] = JoinRows(J[i - 1], new, ItemRows(q, i, db), Visible(q, i - 1))
    BY <1>5, <1>9, <2>2, <2>3 DEF new
  <2>8. J[i] = JoinRows(J[i - 1], it, ItemRows(q, i, db), Visible(q, i - 1))
    BY <1>4 DEF it
  <2> QED BY <2>6, <2>7, <2>8
<1> HIDE DEF n
<1>10. 0 \in K
  BY <1>1
<1>11. ASSUME NEW i \in 1 .. n, i - 1 \in K PROVE i \in K
  <2>0. i \in 0 .. n
    BY <1>1
  <2>1. CASE i = 1
    BY <1>8, <2>0, <2>1
  <2>2. CASE i # 1
    <3>1. i \in 2 .. n /\ i - 1 > 0
      BY <1>1, <2>2
    <3>2. H[i - 1] = J[i - 1]
      BY <1>11, <3>1
    <3> QED BY <1>9, <2>0, <3>1, <3>2
  <2> QED BY <2>1, <2>2
<1> HIDE DEF K
<1>12. 0 .. n \subseteq K
  BY <1>1, <1>10, <1>11, InductionUpTo
<1>13. n \in K /\ n > 0
  BY <1>1, <1>12
<1>14. H[n] = J[n]
  BY <1>13 DEF K
<1> QED BY <1>6, <1>14

\* The rows joined, the WHERE and what is used decide the answer.
LEMMA AnswerOfJoined ==
  ASSUME NEW q, NEW r, NEW db, r.where = q.where, r.uses = q.uses, Joined(r, db) = Joined(q, db)
  PROVE  Answer(r, db) = Answer(q, db)
<1>1. Kept(r, db) = Kept(q, db)
  BY DEF Kept
<1>2. \A j : Shown(r, j) = Shown(q, j)
  BY DEF Shown
<1>3. [j \in Kept(r, db) |-> Shown(r, j)] = [j \in Kept(q, db) |-> Shown(q, j)]
  BY <1>1, <1>2
<1> QED BY <1>3 DEF Answer

\* Taking predicates apart and joins out of order.
LEMMA OrderedSame ==
  ASSUME NEW q, Shaped(q), WellFormed(q), OptimizeCare(q), ~RaisesCycle(q)
  PROVE  LET r == Ordered(Extracted(q))
         IN  /\ Shaped(r) /\ WellFormed(r) /\ r.where = q.where /\ r.uses = q.uses
             /\ \A db : Joined(r, db) = Joined(q, db)
<1>1. CASE ~Reorderable(q)
  <2>1. Extracted(q) = q /\ Ordered(q) = q
    BY <1>1 DEF Extracted, Ordered
  <2> QED BY <2>1
<1>2. CASE Reorderable(q)
  <2> DEFINE e == ExtractAll(q)
             r == Reorder(e)
  <2>1. Extracted(q) = e
    BY <1>2 DEF Extracted
  <2>2. Regrouped(q, e) /\ SamePredicates(q, e)
    BY ExtractAllRegroups
  <2>3. Shaped(e) /\ Order(e) # Cycle
    BY <1>2, <2>1, <2>2 DEF Regrouped, RaisesCycle
  <2> HIDE DEF e
  <2>4. Reorderable(e)
    <3> SUFFICES ASSUME NEW k \in Joins(e) PROVE e.items[k].side = ""
      BY DEF Reorderable
    <3> DEFINE n == Len(q.items)
               m == Len(e.items)
               x == q.items[k].alias
               y == q.items[k].side
               s == q.items[k].source
               d == e.items[k].kind
               o == e.items[k].on
               t == e.items[k]
    <3>1. n \in Nat /\ m \in Nat /\ DOMAIN q.items = 1 .. n /\ DOMAIN e.items = 1 .. m /\ DOMAIN e.items = DOMAIN q.items
      BY <2>2, <2>3, ShapedItems DEF Regrouped
    <3>2. k \in 2 .. m
      BY DEF Joins
    <3>3. k \in 2 .. n /\ k \in DOMAIN q.items
      <4> HIDE DEF n, m
      <4>1. k \in 1 .. n
        BY <3>1, <3>2
      <4> QED BY <3>1, <3>2, <4>1
    <3>4. t = Item(x, y, d, s, o)
      BY <2>2, <3>3 DEF Regrouped
    <3>5. y = ""
      BY <1>2, <3>3 DEF Reorderable, Joins
    <3> HIDE DEF x, y, s, d, o, t
    <3>6. t.side = y
      BY <3>4 DEF Item
    <3> QED BY <3>5, <3>6 DEF t
  <2>5. Ordered(e) = r
    BY <2>4 DEF Ordered
  <2>6. PICK pi : Permutes(e, r, pi)
    BY <2>3, ReorderPermutes
  <2> HIDE DEF r
  <2>7. Shaped(r)
    BY <2>3, <2>6, PermutesShaped
  <2>8. Rearranged(q, r, pi)
    BY <2>2, <2>6, <2>7, RearrangedByBoth
  <2>9. WellFormed(r)
    BY <2>7, <2>8, RearrangedWellFormed
  <2>10. \A db : Joined(r, db) = Joined(q, db)
    BY <1>2, <2>7, <2>8, RearrangedJoined
  <2>11. r.where = q.where /\ r.uses = q.uses
    BY <2>8 DEF Rearranged
  <2> QED BY <2>1, <2>5, <2>7, <2>9, <2>10, <2>11
<1> QED BY <1>1, <1>2

LEMMA OptimizeSameRows ==
  ASSUME NEW q, Shaped(q), WellFormed(q), OptimizeCare(q), ~RaisesCycle(q)
  PROVE  SameRows(q, Optimize(q), Databases)
<1> DEFINE o == Ordered(Extracted(q))
           r == Normalized(o)
<1>1. /\ Shaped(o) /\ WellFormed(o) /\ o.where = q.where /\ o.uses = q.uses
      /\ \A db : Joined(o, db) = Joined(q, db)
  BY OrderedSame
<1>2. Optimize(q) = r
  BY DEF Optimize
<1> HIDE DEF o
<1>3. Reworded(o, r)
  BY <1>1, NormalizedReworded
<1> HIDE DEF r
<1>4. WellFormed(r)
  BY <1>1, <1>3, RewordedWellFormed
<1>5. \A db : Joined(r, db) = Joined(o, db)
  BY <1>1, <1>3, RewordedJoined
<1>6. r.where = o.where /\ r.uses = o.uses
  BY <1>3, SameRest
<1>7. \A db : Answer(r, db) = Answer(q, db)
  BY <1>1, <1>5, <1>6, AnswerOfJoined
<1> QED BY <1>2, <1>4, <1>7 DEF SameRows

\* All that a change of conditions needs to know of their predicates.
InSequence(c) == \A p \in c : p \in Seq(Range(p))

LEMMA OwnRange ==
  ASSUME NEW S, NEW p \in Seq(S)
  PROVE  p \in Seq(Range(p)) /\ Range(p) \subseteq S
<1> DEFINE R == Range(p)
           m == Len(p)
<1>1. m \in Nat /\ DOMAIN p = 1 .. m /\ p = [i \in 1 .. m |-> p[i]] /\ \A i \in 1 .. m : p[i] \in S
  OBVIOUS
<1>2. \A i \in 1 .. m : p[i] \in R
  BY <1>1 DEF Range
<1>3. R \subseteq S
  BY <1>1 DEF Range
<1> HIDE DEF R, m
<1>4. p \in [1 .. m -> R]
  BY <1>1, <1>2
<1>5. p \in Seq(R)
  BY <1>1, <1>4
<1> QED BY <1>3, <1>5 DEF R

LEMMA PartIsPart ==
  ASSUME NEW p, p \in Seq(Range(p)), NEW S \in SUBSET DOMAIN p
  PROVE  Part(p, S) \in Seq(Range(Part(p, S))) /\ Range(Part(p, S)) \subseteq Range(p)
<1> DEFINE a == Ascending(S)
           o == Part(p, S)
<1>1. DOMAIN p = 1 .. Len(p) /\ Len(p) \in Nat
  OBVIOUS
<1>2. S \in SUBSET Nat /\ IsFiniteSet(S)
  <2>1. IsFiniteSet(1 .. Len(p))
    BY <1>1, FS_Interval
  <2> QED BY <1>1, <2>1, FS_Subset
<1>3. a \in Seq(S)
  BY <1>2, AscendingEnumerates
<1> HIDE DEF a
<1>4. DOMAIN a = 1 .. Len(a) /\ Len(a) \in Nat /\ \A k \in DOMAIN a : a[k] \in S
  BY <1>3
<1>5. o = [k \in 1 .. Len(a) |-> p[a[k]]]
  BY <1>4 DEF Part, a
<1> HIDE DEF o
<1>6. \A k \in 1 .. Len(a) : o[k] \in Range(o) /\ o[k] \in Range(p)
  BY <1>4, <1>5 DEF Range
<1>7. o \in Seq(Range(o))
  <2> DEFINE R == Range(o)
             m == Len(a)
  <2>1. o \in [1 .. m -> R] /\ m \in Nat
    BY <1>4, <1>5, <1>6
  <2> HIDE DEF R, m
  <2>2. o \in Seq(R)
    BY <2>1
  <2> QED BY <2>2 DEF R
<1>8. Range(o) \subseteq Range(p)
  <2>1. \A y \in Range(o) : \E k \in 1 .. Len(a) : y = o[k]
    BY <1>5 DEF Range
  <2> QED BY <1>6, <2>1
<1> QED BY <1>7, <1>8 DEF o

LEMMA TablesOfPart ==
  ASSUME NEW o, NEW p, Range(o) \subseteq Range(p)
  PROVE  PredicateTables(o) \subseteq PredicateTables(p)
  BY DEF PredicateTables, BlockTables, Literals

\* simplify() mentions nothing new.
LEMMA SimplifiedPredicates ==
  ASSUME NEW c, InSequence(c), NEW s \in Simplified(c)
  PROVE  s \in Seq(Range(s)) /\ PredicateTables(s) \subseteq TablesOf(c)
<1>1. CASE s = True
  <2>1. True \in Seq(Range(True))
    <3> DEFINE R == Range(True)
    <3>1. {} \in R
      BY DEF True, Range
    <3> HIDE DEF R
    <3>2. True \in Seq(R)
      BY <3>1 DEF True
    <3> QED BY <3>2 DEF R
  <2> QED BY <1>1, <2>1, TrueHolds
<1>2. CASE s # True
  <2>1. PICK p \in c : s = Absorbed(p)
    BY <1>2 DEF Simplified
  <2> DEFINE S == {k \in DOMAIN p : ~\E i \in DOMAIN p : p[i] \subseteq p[k] /\ p[i] # p[k]}
  <2>2. s = Part(p, S) /\ p \in Seq(Range(p)) /\ S \in SUBSET DOMAIN p
    BY <2>1 DEF Absorbed, InSequence
  <2> HIDE DEF S
  <2>3. s \in Seq(Range(s)) /\ Range(s) \subseteq Range(p)
    BY <2>2, PartIsPart
  <2>4. PredicateTables(s) \subseteq PredicateTables(p)
    BY <2>3, TablesOfPart
  <2> QED BY <2>3, <2>4, TablesByPredicate
<1> QED BY <1>1, <1>2

\* What is left of a condition is about what it was about.
LEMMA LeftTables ==
  ASSUME NEW q, NEW c, InSequence(c), NEW nodes
  PROVE  TablesOf(Push(q, c, nodes).left) \subseteq TablesOf(c)
<1> DEFINE s == Simplified(c)
           rest == Push(q, c, nodes).left
<1>1. rest = c \/ \A p \in rest : p \in s \/ p = True
  <2>1. CASE c = {}
    BY <2>1 DEF Push
  <2>2. CASE c # {} /\ DnfOnly(s)
    <3>1. rest = {CHOOSE p \in s : TRUE}
      BY <2>2 DEF Push, PushDnf
    <3>2. (CHOOSE p \in s : TRUE) \in s
      BY <2>2 DEF DnfOnly
    <3> QED BY <3>1, <3>2
  <2>3. CASE c # {} /\ ~DnfOnly(s)
    <3>1. rest = PushCnf(q, s, nodes).left
      BY <2>3 DEF Push
    <3> HIDE DEF s
    <3>2. \A p \in PushCnf(q, s, nodes).left : p \in s \/ p = True
      BY DEF PushCnf
    <3> QED BY <3>1, <3>2
  <2> QED BY <2>1, <2>2, <2>3
<1>2. \A p \in s : PredicateTables(p) \subseteq TablesOf(c)
  BY SimplifiedPredicates
<1>3. PredicateTables(True) = {}
  BY TrueHolds
<1> HIDE DEF s, rest
<1>4. \A p \in rest : PredicateTables(p) \subseteq TablesOf(c)
  BY <1>1, <1>2, <1>3, TablesByPredicate
<1>5. TablesOf(rest) \subseteq TablesOf(c)
  BY <1>4, TablesByPredicate
<1> QED BY <1>5 DEF rest

\* A predicate that goes to a join comes after all others it mentions.
LEMMA PushedToJoins ==
  ASSUME NEW q, NEW c, InSequence(c), NEW nodes, NEW n \in Push(q, c, nodes).push,
         NEW x, n[1] = Node("join", x), NEW p \in n[2]
  PROVE  /\ p \in Seq(Range(p)) /\ PredicateTables(p) \subseteq TablesOf(c)
         /\ Earlier(q, x, PredicateTables(p))
<1> DEFINE s == Simplified(c)
<1>0. Node("join", x).at = "join" /\ Node("join", x).alias = x
  BY DEF Node
<1>1. c # {}
  BY DEF Push
<1>2. CASE ~DnfOnly(s)
  <2>1. n \in PushCnf(q, s, nodes).push
    BY <1>1, <1>2 DEF Push
  <2> HIDE DEF s
  <2>2. PICK o \in s : n \in TargetsOf(q, o, nodes) \X {{o}}
    BY <2>1 DEF PushCnf
  <2>3. n[1] \in TargetsOf(q, o, nodes) /\ p = o
    BY <2>2
  <2>4. Earlier(q, x, PredicateTables(o))
    BY <1>0, <2>3 DEF TargetsOf
  <2>5. o \in Seq(Range(o)) /\ PredicateTables(o) \subseteq TablesOf(c)
    BY SimplifiedPredicates DEF s
  <2> QED BY <2>3, <2>4, <2>5
<1>3. CASE DnfOnly(s)
  <2> DEFINE o == CHOOSE o \in s : TRUE
             S == {k \in DOMAIN o : \E m \in nodes[BlockTables(o[k])] : m.alias = x}
             t == Part(o, S)
  <2>1. o \in s
    BY <1>3 DEF DnfOnly
  <2>2. n \in PushDnf(q, o, nodes).push
    BY <1>1, <1>3 DEF Push
  <2>3. o \in Seq(Range(o)) /\ PredicateTables(o) \subseteq TablesOf(c)
    BY <2>1, SimplifiedPredicates
  <2> HIDE DEF o
  <2>4. n[2] = Conjuncts(t) /\ Earlier(q, x, PredicateTables(t))
    <3>1. \E m : /\ n = <<m, Conjuncts(Part(o, {k \in DOMAIN o : \E z \in nodes[BlockTables(o[k])] : z.alias = m.alias}))>>
                 /\ m.at = "join" => Earlier(q, m.alias, PredicateTables(Part(o, {k \in DOMAIN o : \E z \in nodes[BlockTables(o[k])] : z.alias = m.alias})))
      BY <2>2 DEF PushDnf
    <3>2. PICK m : /\ n = <<m, Conjuncts(Part(o, {k \in DOMAIN o : \E z \in nodes[BlockTables(o[k])] : z.alias = m.alias}))>>
                   /\ m.at = "join" => Earlier(q, m.alias, PredicateTables(Part(o, {k \in DOMAIN o : \E z \in nodes[BlockTables(o[k])] : z.alias = m.alias})))
      BY <3>1
    <3>3. m = n[1]
      BY <3>2
    <3>4. m.alias = x /\ m.at = "join"
      BY <1>0, <3>3
    <3> QED BY <3>2, <3>4
  <2>5. S \in SUBSET DOMAIN o
    OBVIOUS
  <2> HIDE DEF S
  <2>6. t \in Seq(Range(t)) /\ Range(t) \subseteq Range(o)
    BY <2>3, <2>5, PartIsPart
  <2> HIDE DEF t
  <2>7. PredicateTables(t) \subseteq TablesOf(c)
    BY <2>3, <2>6, TablesOfPart
  <2>8. p \in Seq(Range(p)) /\ PredicateTables(p) \subseteq PredicateTables(t)
    <3>1. CASE Len(t) # 1
      BY <2>4, <2>6, <3>1 DEF Conjuncts
    <3>2. CASE Len(t) = 1
      <4>1. PICK l \in t[1] : p = <<{l}>>
        BY <2>4, <3>2 DEF Conjuncts
      <4>2. t[1] \in Range(t)
        <5>1. 1 \in DOMAIN t
          BY <2>6, <3>2
        <5> QED BY <5>1 DEF Range
      <4>3. DOMAIN p = 1 .. 1 /\ p[1] = {l}
        BY <4>1
      <4>4. Range(p) = {{l}}
        BY <4>3 DEF Range
      <4>5. p \in Seq({{l}})
        BY <4>1
      <4>6. PredicateTables(p) \subseteq PredicateTables(t)
        BY <4>2, <4>4 DEF PredicateTables, BlockTables, Literals
      <4> QED BY <4>4, <4>5, <4>6
    <3> QED BY <3>1, <3>2
  <2>9. Earlier(q, x, PredicateTables(p))
    BY <2>4, <2>8 DEF Earlier
  <2> QED BY <2>7, <2>8, <2>9
<1> QED BY <1>2, <1>3

\* What still is a query after a change.
LEMMA StillWellFormed ==
  ASSUME NEW q, Shaped(q), WellFormed(q), NEW r, Len(r.items) = Len(q.items),
         \A i \in 1 .. Len(q.items) : /\ r.items[i].alias = q.items[i].alias
                                      /\ SemiOrAnti(r.items[i]) <=> SemiOrAnti(q.items[i]),
         \A i \in 2 .. Len(q.items) : Others(r.items[i]) \subseteq Others(q.items[i]) \cup Visible(q, i - 1),
         r.uses = q.uses, TablesOf(r.where) \subseteq TablesOf(q.where)
  PROVE  WellFormed(r)
<1> DEFINE n == Len(q.items)
<1>0. n \in Nat \ {0}
  BY ShapedItems
<1>1. ASSUME NEW i \in 0 .. n PROVE Visible(r, i) = Visible(q, i)
  <2>1. \A k \in 1 .. i : k \in 1 .. n
    <3> HIDE DEF n
    <3> QED BY <1>0
  <2>2. \A k \in 1 .. i : r.items[k].alias = q.items[k].alias /\ (SemiOrAnti(r.items[k]) <=> SemiOrAnti(q.items[k]))
    BY <2>1
  <2>3. ASSUME NEW x PROVE x \in Visible(r, i) <=> x \in Visible(q, i)
    <3>1. x \in Visible(r, i) <=> \E k \in 1 .. i : ~SemiOrAnti(r.items[k]) /\ x = r.items[k].alias
      BY DEF Visible
    <3>2. x \in Visible(q, i) <=> \E k \in 1 .. i : ~SemiOrAnti(q.items[k]) /\ x = q.items[k].alias
      BY DEF Visible
    <3> QED BY <2>2, <3>1, <3>2
  <2>4. Visible(r, i) \subseteq Visible(q, i) /\ Visible(q, i) \subseteq Visible(r, i)
    BY <2>3
  <2> QED BY <2>4
<1>2. ASSUME NEW i \in 2 .. n PROVE Others(r.items[i]) \subseteq Visible(r, i - 1)
  <2>1. i - 1 \in 0 .. n
    <3> HIDE DEF n
    <3> QED BY <1>0
  <2>2. Visible(r, i - 1) = Visible(q, i - 1)
    BY <1>1, <2>1
  <2>3. Others(q.items[i]) \subseteq Visible(q, i - 1)
    BY DEF WellFormed
  <2> QED BY <2>2, <2>3
<1>3. r.uses \cup TablesOf(r.where) \subseteq Visible(r, n)
  <2>1. n \in 0 .. n
    BY <1>0
  <2> QED BY <1>1, <2>1 DEF WellFormed
<1> QED BY <1>2, <1>3 DEF WellFormed

\* The items after Apply.
LEMMA AppliedItem ==
  ASSUME NEW q, Shaped(q), NEW push, NEW i \in DOMAIN q.items
  PROVE  /\ Apply(q, push).items[i].alias = q.items[i].alias
         /\ SemiOrAnti(Apply(q, push).items[i]) <=> SemiOrAnti(q.items[i])
         /\ Apply(q, push).items[i].on = q.items[i].on \cup PushedTo(push, "join", q.items[i].alias)
<1> DEFINE it == q.items[i]
           c == PushedTo(push, "join", it.alias)
           new == PushedItem(push, it)
           source == IF it.source.form = "select" THEN AddBody(it.source, PushedTo(push, "select", it.alias))
                     ELSE it.source
           kind == IF c # {} /\ it.kind = "CROSS" THEN "" ELSE it.kind
<1>1. q = [items |-> q.items, where |-> q.where, uses |-> q.uses, recursive |-> q.recursive, ctes |-> q.ctes]
      /\ ItemShaped(q, it)
  BY DEF Shaped
<1>2. Apply(q, push).items[i] = new
  <2>1. Apply(q, push).items = [k \in DOMAIN q.items |-> PushedItem(push, q.items[k])]
    BY <1>1, Applied
  <2> QED BY <2>1
<1>3. new.alias = it.alias /\ (SemiOrAnti(new) <=> SemiOrAnti(it))
  BY <1>1, PushedItemShaped
<1>4. new.on = it.on \cup c
  <2> DEFINE on == it.on \cup c
  <2>1. it = [alias |-> it.alias, side |-> it.side, kind |-> it.kind, source |-> it.source, on |-> it.on]
    BY <1>1 DEF ItemShaped, Item
  <2>2. new = [AddOn(it, c) EXCEPT !.source = IF @.form = "select" THEN AddBody(@, PushedTo(push, "select", it.alias)) ELSE @]
    BY DEF PushedItem
  <2>9. AddOn(it, c) = [it EXCEPT !.on = on, !.kind = kind]
    BY DEF AddOn
  <2> HIDE DEF new, c, it
  <2> DEFINE a == AddOn(it, c)
  <2>3. a = [alias |-> it.alias, side |-> it.side, kind |-> kind, source |-> it.source, on |-> on]
    <3> HIDE DEF kind, on
    <3> QED BY <2>1, <2>9
  <2> HIDE DEF kind
  <2>4. a.on = it.on \cup c /\ a = [alias |-> a.alias, side |-> a.side, kind |-> a.kind, source |-> a.source, on |-> a.on]
    BY <2>3
  <2> HIDE DEF a
  <2>5. \A f : [a EXCEPT !.source = f].on = a.on
    BY <2>4
  <2>6. new.on = a.on
    BY <2>2, <2>5 DEF a
  <2> QED BY <2>4, <2>6
<1> QED BY <1>2, <1>3, <1>4

\* Of the WHERE, predicates go to joins that come after all else they mention.
LEMMA PushWhereWellFormed ==
  ASSUME NEW q, Shaped(q), WellFormed(q), Parsed(q)
  PROVE  LET r == PushWhere(q)
         IN  Shaped(r) /\ WellFormed(r) /\ \A i \in DOMAIN r.items : InSequence(r.items[i].on)
<1> DEFINE n == Len(q.items)
           nodes == [tables \in SUBSET Aliases(q) |-> WhereNodes(q, tables)]
           got == Push(q, q.where, nodes)
           s == Apply(q, got.push)
           r == [s EXCEPT !.where = got.left]
<1>1. PushWhere(q) = r
  BY DEF PushWhere
<1>2. n \in Nat \ {0} /\ DOMAIN q.items = 1 .. n
  BY ShapedItems
<1>3. InSequence(q.where) /\ \A i \in DOMAIN q.items : InSequence(q.items[i].on)
  <2>1. \A c : Written(c) => InSequence(c)
    BY OwnRange DEF Written, InSequence
  <2> QED BY <2>1 DEF Parsed, Range
<1>4. TablesOf(got.left) \subseteq TablesOf(q.where)
  BY <1>3, LeftTables
<1>5. ASSUME NEW i \in 1 .. n, NEW p \in PushedTo(got.push, "join", q.items[i].alias)
      PROVE  /\ p \in Seq(Range(p)) /\ PredicateTables(p) \subseteq TablesOf(q.where)
             /\ Earlier(q, q.items[i].alias, PredicateTables(p))
  <2>1. PICK m \in got.push : m[1] = Node("join", q.items[i].alias) /\ p \in m[2]
    BY DEF PushedTo
  <2> HIDE DEF nodes
  <2> QED BY <1>3, <2>1, PushedToJoins
<1> HIDE DEF got
<1>6. /\ Shaped(s) /\ Len(s.items) = n
      /\ \A i \in 1 .. n : /\ s.items[i].alias = q.items[i].alias
                           /\ SemiOrAnti(s.items[i]) <=> SemiOrAnti(q.items[i])
                           /\ s.items[i].on = q.items[i].on \cup PushedTo(got.push, "join", q.items[i].alias)
  BY <1>2, AppliedShaped, AppliedItem
<1>7. s = [items |-> s.items, where |-> q.where, uses |-> q.uses, recursive |-> q.recursive, ctes |-> s.ctes]
  <2>1. q = [items |-> q.items, where |-> q.where, uses |-> q.uses, recursive |-> q.recursive, ctes |-> q.ctes]
    BY DEF Shaped
  <2> HIDE DEF s
  <2>2. Apply(q, got.push) = [items |-> Apply(q, got.push).items, where |-> q.where, uses |-> q.uses,
                              recursive |-> q.recursive, ctes |-> Apply(q, got.push).ctes]
    BY <2>1, Applied
  <2> QED BY <2>2 DEF s
<1> HIDE DEF s
<1>8. Shaped(r)
  BY <1>6, ConditionChanged
<1>9. r.items = s.items /\ r.where = got.left /\ r.uses = q.uses
  <2> DEFINE i == s.items
             w == q.where
             u == q.uses
             v == q.recursive
             c == s.ctes
             g == got.left
  <2>1. s = [items |-> i, where |-> w, uses |-> u, recursive |-> v, ctes |-> c]
    BY <1>7
  <2> HIDE DEF i, w, u, v, c, g
  <2>2. [s EXCEPT !.where = g] = [items |-> i, where |-> g, uses |-> u, recursive |-> v, ctes |-> c]
    BY <2>1
  <2> HIDE DEF r
  <2>3. r = [items |-> i, where |-> g, uses |-> u, recursive |-> v, ctes |-> c]
    BY <2>2 DEF r, g
  <2>4. r.items = i /\ r.where = g /\ r.uses = u
    BY <2>3
  <2> QED BY <2>4 DEF i, g, u
<1> HIDE DEF r
<1>10. ASSUME NEW i \in 2 .. n PROVE Others(r.items[i]) \subseteq Others(q.items[i]) \cup Visible(q, i - 1)
  <2> SUFFICES ASSUME NEW y \in Others(r.items[i]), y \notin Others(q.items[i]) PROVE y \in Visible(q, i - 1)
    OBVIOUS
  <2>1. i \in 1 .. n
    <3> HIDE DEF n
    <3> QED BY <1>2
  <2>2. r.items[i].alias = q.items[i].alias /\ r.items[i].on = q.items[i].on \cup PushedTo(got.push, "join", q.items[i].alias)
    BY <1>6, <1>9, <2>1
  <2>3. y # q.items[i].alias /\ y \in TablesOf(r.items[i].on) /\ y \notin TablesOf(q.items[i].on)
    BY <2>2 DEF Others
  <2>4. PICK p \in r.items[i].on : y \in PredicateTables(p)
    BY <2>3, TablesByPredicate
  <2>5. p \notin q.items[i].on
    BY <2>3, <2>4, TablesByPredicate
  <2>6. p \in PushedTo(got.push, "join", q.items[i].alias)
    BY <2>2, <2>4, <2>5
  <2>7. y \in TablesOf(q.where) /\ Earlier(q, q.items[i].alias, PredicateTables(p))
    BY <1>5, <2>1, <2>4, <2>6
  <2>8. ItemOf(q, y) < ItemOf(q, q.items[i].alias)
    BY <2>3, <2>4, <2>7 DEF Earlier
  <2>9. y \in Visible(q, n)
    BY <2>7 DEF WellFormed
  <2>10. PICK k \in 1 .. n : ~SemiOrAnti(q.items[k]) /\ y = q.items[k].alias
    BY <2>9 DEF Visible
  <2>11. ItemOf(q, y) = k /\ ItemOf(q, q.items[i].alias) = i
    BY <1>2, <2>1, <2>10, ItemOfAlias
  <2>12. k \in 1 .. (i - 1)
    <3> HIDE DEF n
    <3> QED BY <1>2, <2>8, <2>11
  <2> QED BY <2>10, <2>12 DEF Visible
<1>11. WellFormed(r)
  <2>1. \A i \in 1 .. n : r.items[i].alias = q.items[i].alias /\ (SemiOrAnti(r.items[i]) <=> SemiOrAnti(q.items[i]))
    BY <1>6, <1>9
  <2>2. TablesOf(r.where) \subseteq TablesOf(q.where)
    BY <1>4, <1>9
  <2>3. Len(r.items) = n
    BY <1>6, <1>9
  <2> QED BY <1>9, <1>10, <2>1, <2>2, <2>3, StillWellFormed
<1>12. \A i \in DOMAIN r.items : InSequence(r.items[i].on)
  <2> SUFFICES ASSUME NEW i \in DOMAIN r.items, NEW p \in r.items[i].on PROVE p \in Seq(Range(p))
    BY DEF InSequence
  <2>1. i \in 1 .. n
    BY <1>6, <1>8, <1>9, ShapedItems
  <2>2. p \in q.items[i].on \/ p \in PushedTo(got.push, "join", q.items[i].alias)
    BY <1>6, <1>9, <2>1
  <2> QED BY <1>2, <1>3, <1>5, <2>1, <2>2 DEF InSequence
<1> QED BY <1>1, <1>8, <1>11, <1>12

\* Of an ON, predicates go into SELECTs, or stay.
LEMMA PushOnsWellFormed ==
  ASSUME NEW q, Shaped(q), WellFormed(q), \A i \in DOMAIN q.items : InSequence(q.items[i].on)
  PROVE  WellFormed(PushOns(q))
<1> DEFINE n == Len(q.items)
           got(it) == IF it.side \in {"RIGHT", "FULL"} \/ it.alias \notin Selected(q)
                      THEN [left |-> it.on, push |-> {}]
                      ELSE Push(q, it.on, [tables \in SUBSET Aliases(q) |-> OnNodes(q, it, tables)])
           all == [i \in DOMAIN q.items |-> got(q.items[i])]
           s == Apply(q, UNION {all[i].push : i \in DOMAIN q.items})
           on == [i \in DOMAIN q.items |-> all[i].left]
           r == [s EXCEPT !.items = [i \in DOMAIN q.items |-> [@[i] EXCEPT !.on = on[i]]]]
<1>1. n \in Nat \ {0} /\ DOMAIN q.items = 1 .. n
  BY ShapedItems
<1>2. PushOns(q) = r
  BY DEF PushOns
<1>3. \A i \in 1 .. n : TablesOf(on[i]) \subseteq TablesOf(q.items[i].on)
  <2> SUFFICES ASSUME NEW i \in 1 .. n PROVE TablesOf(on[i]) \subseteq TablesOf(q.items[i].on)
    OBVIOUS
  <2> DEFINE it == q.items[i]
             nodes == [tables \in SUBSET Aliases(q) |-> OnNodes(q, it, tables)]
  <2>1. on[i] = it.on \/ on[i] = Push(q, it.on, nodes).left
    BY <1>1
  <2>2. InSequence(it.on)
    BY <1>1
  <2> HIDE DEF it, nodes
  <2>3. TablesOf(Push(q, it.on, nodes).left) \subseteq TablesOf(it.on)
    BY <2>2, LeftTables
  <2>4. TablesOf(on[i]) \subseteq TablesOf(it.on)
    BY <2>1, <2>3
  <2> QED BY <2>4 DEF it
<1> HIDE DEF got, all, on
<1>4. /\ Shaped(s) /\ Len(s.items) = n
      /\ \A i \in 1 .. n : s.items[i].alias = q.items[i].alias /\ (SemiOrAnti(s.items[i]) <=> SemiOrAnti(q.items[i]))
  BY <1>1, AppliedShaped, AppliedItem
<1>5. s.where = q.where /\ s.uses = q.uses
      /\ s = [items |-> s.items, where |-> s.where, uses |-> s.uses, recursive |-> s.recursive, ctes |-> s.ctes]
  <2>1. q = [items |-> q.items, where |-> q.where, uses |-> q.uses, recursive |-> q.recursive, ctes |-> q.ctes]
    BY DEF Shaped
  <2> DEFINE push == UNION {all[i].push : i \in DOMAIN q.items}
             i == Apply(q, push).items
             w == q.where
             u == q.uses
             v == q.recursive
             c == Apply(q, push).ctes
  <2> HIDE DEF push
  <2>2. Apply(q, push) = [items |-> i, where |-> w, uses |-> u, recursive |-> v, ctes |-> c]
    BY <2>1, Applied
  <2> HIDE DEF i, w, u, v, c, s
  <2>3. s = [items |-> i, where |-> w, uses |-> u, recursive |-> v, ctes |-> c]
    BY <2>2 DEF s, push
  <2>4. s.where = w /\ s.uses = u
        /\ s = [items |-> s.items, where |-> s.where, uses |-> s.uses, recursive |-> s.recursive, ctes |-> s.ctes]
    BY <2>3
  <2> QED BY <2>4 DEF w, u
<1> HIDE DEF s
<1> DEFINE items == [i \in DOMAIN q.items |-> [s.items[i] EXCEPT !.on = on[i]]]
<1>6. r.items = items /\ r.where = q.where /\ r.uses = q.uses
  <2>1. r = [s EXCEPT !.items = items]
    BY <1>5
  <2> HIDE DEF items, r
  <2>2. r.items = items /\ r.where = s.where /\ r.uses = s.uses
    BY <1>5, <2>1
  <2> QED BY <1>5, <2>2
<1>7. ASSUME NEW i \in 1 .. n
      PROVE  /\ items[i].alias = q.items[i].alias
             /\ SemiOrAnti(items[i]) <=> SemiOrAnti(q.items[i])
             /\ items[i].on = on[i]
  <2> DEFINE it == s.items[i]
             new == items[i]
  <2>1. ItemShaped(s, it)
    BY <1>4, ShapedItems
  <2>2. new = [it EXCEPT !.on = on[i]]
    BY <1>1
  <2>3. it.alias = q.items[i].alias /\ (SemiOrAnti(it) <=> SemiOrAnti(q.items[i]))
    BY <1>4
  <2> HIDE DEF it, new
  <2>4. it = [alias |-> it.alias, side |-> it.side, kind |-> it.kind, source |-> it.source, on |-> it.on]
    BY <2>1 DEF ItemShaped, Item
  <2>5. new.alias = it.alias /\ new.kind = it.kind /\ new.on = on[i]
    BY <2>2, <2>4
  <2>6. SemiOrAnti(new) <=> SemiOrAnti(it)
    BY <2>5 DEF SemiOrAnti
  <2> QED BY <2>3, <2>5, <2>6 DEF new
<1>8. Len(r.items) = n
  <2>1. DOMAIN items = 1 .. n
    BY <1>1
  <2> HIDE DEF items, n
  <2>2. Len(items) = n
    BY <1>1, <2>1
  <2> QED BY <1>6, <2>2
<1> HIDE DEF r, items
<1>9. \A i \in 2 .. n : Others(r.items[i]) \subseteq Others(q.items[i]) \cup Visible(q, i - 1)
  <2> SUFFICES ASSUME NEW i \in 2 .. n PROVE Others(r.items[i]) \subseteq Others(q.items[i])
    OBVIOUS
  <2>1. i \in 1 .. n
    <3> HIDE DEF n
    <3> QED BY <1>1
  <2> QED BY <1>3, <1>6, <1>7, <2>1 DEF Others
<1>10. \A i \in 1 .. n : r.items[i].alias = q.items[i].alias /\ (SemiOrAnti(r.items[i]) <=> SemiOrAnti(q.items[i]))
  BY <1>6, <1>7
<1>11. TablesOf(r.where) \subseteq TablesOf(q.where)
  BY <1>6
<1>12. WellFormed(r)
  BY <1>6, <1>8, <1>9, <1>10, <1>11, StillWellFormed
<1> QED BY <1>2, <1>12

LEMMA PushdownWellFormed ==
  ASSUME NEW q, Shaped(q), WellFormed(q), Parsed(q)
  PROVE  WellFormed(Pushdown(q))
<1> DEFINE r == PushWhere(q)
<1>1. Shaped(r) /\ WellFormed(r) /\ \A i \in DOMAIN r.items : InSequence(r.items[i].on)
  BY PushWhereWellFormed
<1> HIDE DEF r
<1>2. WellFormed(PushOns(r))
  BY <1>1, PushOnsWellFormed
<1> QED BY <1>2 DEF Pushdown, r

-----------------------------------------------------------------------------
(* Whether a condition holds of a joined row, by its blocks.                  *)
BlockHolds(b, j) == \A l \in b : IsTrue(l.op, Field(j, l.left), Field(j, l.right))
AllHold(c, j) == \A p \in c : PredicateHolds(p, j)

LEMMA HoldsByBlocks ==
  ASSUME NEW p, NEW j
  PROVE  PredicateHolds(p, j) <=> \E b \in Range(p) : BlockHolds(b, j)
BY DEF PredicateHolds, BlockHolds, Range

LEMMA Smallest ==
  ASSUME NEW T0, IsFiniteSet(T0), T0 # {}
  PROVE  \E m \in T0 : \A x \in T0 : x \subseteq m => x = m
<1> DEFINE n == Cardinality(T0)
           Has(T) == \E m \in T : \A x \in T : x \subseteq m => x = m
           K == {k \in 0 .. n : \A T \in SUBSET T0 : Cardinality(T) = k /\ T # {} => Has(T)}
<1>1. n \in Nat
  BY FS_CardinalityType
<1>2. 0 \in K
  <2>1. \A T \in SUBSET T0 : Cardinality(T) = 0 => T = {}
    BY FS_Subset, FS_EmptySet
  <2> HIDE DEF n, Has
  <2> QED BY <1>1, <2>1
<1>3. ASSUME NEW k \in 1 .. n, k - 1 \in K PROVE k \in K
  <2> SUFFICES ASSUME NEW T \in SUBSET T0, Cardinality(T) = k, T # {} PROVE Has(T)
    BY <1>1
  <2>1. PICK x \in T : TRUE
    OBVIOUS
  <2> DEFINE R == T \ {x}
  <2>2. R \in SUBSET T0 /\ Cardinality(R) = k - 1
    <3>1. IsFiniteSet(T)
      BY FS_Subset
    <3>2. Cardinality(T \ {x}) = Cardinality(T) - 1
      BY <2>1, <3>1, FS_RemoveElement
    <3> QED BY <3>2
  <2>3. CASE R = {}
    <3>1. T = {x}
      BY <2>1, <2>3
    <3> QED BY <3>1
  <2>4. CASE R # {}
    <3>1. Has(R)
      <4> HIDE DEF Has, R, n
      <4> QED BY <1>3, <2>2, <2>4
    <3>2. PICK m \in R : \A y \in R : y \subseteq m => y = m
      BY <3>1
    <3>3. m # x /\ m \in T /\ \A y \in T : y = x \/ y \in R
      OBVIOUS
    <3>4. CASE x \subseteq m
      <4>1. ASSUME NEW y \in T, y \subseteq x PROVE y = x
        <5>1. CASE y \in R
          <6>1. y = m
            BY <3>2, <3>4, <4>1, <5>1
          <6>2. m = x
            BY <3>4, <4>1, <6>1
          <6> QED BY <3>3, <6>2
        <5> QED BY <3>3, <5>1
      <4> QED BY <2>1, <4>1
    <3>5. CASE ~(x \subseteq m)
      <4>1. \A y \in T : y \subseteq m => y = m
        BY <3>2, <3>3, <3>5
      <4> QED BY <3>3, <4>1
    <3> QED BY <3>4, <3>5
  <2> QED BY <2>3, <2>4
<1>4. n \in K
  <2> HIDE DEF K
  <2>1. 0 .. n \subseteq K
    BY <1>1, <1>2, <1>3, InductionUpTo
  <2> QED BY <1>1, <2>1
<1> HIDE DEF Has
<1>5. Has(T0)
  BY <1>4
<1> QED BY <1>5 DEF Has

LEMMA SmallestBelow ==
  ASSUME NEW T, IsFiniteSet(T), NEW y \in T
  PROVE  \E m \in T : m \subseteq y /\ \A x \in T : x \subseteq m => x = m
<1> DEFINE B == {x \in T : x \subseteq y}
<1>1. IsFiniteSet(B) /\ B # {}
  BY FS_Subset
<1>2. PICK m \in B : \A x \in B : x \subseteq m => x = m
  <2> HIDE DEF B
  <2> QED BY <1>1, Smallest
<1>3. \A x \in T : x \subseteq m => x \in B
  OBVIOUS
<1> QED BY <1>2, <1>3

\* The blocks left are those that no other one implies.
LEMMA AbsorbedBlocks ==
  ASSUME NEW S, NEW p \in Seq(S)
  PROVE  /\ Absorbed(p) \in Seq(S) /\ Range(Absorbed(p)) \subseteq Range(p)
         /\ \A b \in Range(p) : \E o \in Range(Absorbed(p)) : o \subseteq b
<1> DEFINE W == {k \in DOMAIN p : ~\E i \in DOMAIN p : p[i] \subseteq p[k] /\ p[i] # p[k]}
           a == Ascending(W)
           m == Len(p)
<1>1. m \in Nat /\ DOMAIN p = 1 .. m /\ \A k \in 1 .. m : p[k] \in S
  OBVIOUS
<1>2. W \in SUBSET (1 .. m) /\ W \in SUBSET Nat /\ IsFiniteSet(W)
  <2>1. IsFiniteSet(1 .. m) /\ W \in SUBSET (1 .. m)
    BY <1>1, FS_Interval
  <2> HIDE DEF W, m
  <2>2. IsFiniteSet(W)
    BY <2>1, FS_Subset
  <2> QED BY <1>1, <2>1, <2>2
<1>3. Absorbed(p) = Part(p, W)
  BY DEF Absorbed
<1>4. a \in Seq(W) /\ Range(a) = W
  <2> HIDE DEF W
  <2>1. a \in Seq(W) /\ \A x \in W : \E k \in DOMAIN a : a[k] = x
    BY <1>2, AscendingEnumerates
  <2> HIDE DEF a
  <2>2. \A k \in DOMAIN a : a[k] \in W
    BY <2>1
  <2>3. Range(a) \subseteq W /\ W \subseteq Range(a)
    BY <2>1, <2>2 DEF Range
  <2> QED BY <2>1, <2>3
<1>5. Part(p, W) = [k \in 1 .. Len(a) |-> p[a[k]]]
  BY <1>4 DEF Part
<1>6. \A b \in Range(p) : \E k \in W : p[k] \subseteq b
  <2> SUFFICES ASSUME NEW i \in 1 .. m PROVE \E k \in W : p[k] \subseteq p[i]
    BY <1>1 DEF Range
  <2>1. IsFiniteSet(Range(p)) /\ p[i] \in Range(p)
    <3>1. IsFiniteSet(DOMAIN p) /\ p = [x \in DOMAIN p |-> p[x]]
      BY <1>1, FS_Interval
    <3> QED BY <1>1, <3>1, FiniteRange DEF Range
  <2>2. PICK b \in Range(p) : b \subseteq p[i] /\ \A x \in Range(p) : x \subseteq b => x = b
    BY <2>1, SmallestBelow
  <2>3. PICK k \in 1 .. m : b = p[k]
    BY <1>1 DEF Range
  <2>4. \A x \in 1 .. m : p[x] \in Range(p)
    BY <1>1 DEF Range
  <2>5. k \in W
    BY <1>1, <2>2, <2>3, <2>4
  <2> QED BY <2>2, <2>3, <2>5
<1> HIDE DEF W, a
<1>7. \A k \in 1 .. Len(a) : a[k] \in W
  BY <1>4
<1>8. \A k \in W : \E i \in 1 .. Len(a) : a[i] = k
  BY <1>4 DEF Range
<1> DEFINE o == Part(p, W)
<1>9. o \in Seq(S)
  <2>1. \A k \in 1 .. Len(a) : p[a[k]] \in S
    BY <1>1, <1>2, <1>7
  <2>2. Len(a) \in Nat
    BY <1>4
  <2> QED BY <1>5, <2>1, <2>2
<1>10. Range(o) \subseteq Range(p)
  <2>1. \A k \in 1 .. Len(a) : o[k] = p[a[k]] /\ a[k] \in DOMAIN p
    BY <1>1, <1>2, <1>5, <1>7
  <2>2. DOMAIN o = 1 .. Len(a)
    BY <1>5
  <2> HIDE DEF o
  <2> QED BY <2>1, <2>2 DEF Range
<1>11. \A b \in Range(p) : \E c \in Range(o) : c \subseteq b
  <2> SUFFICES ASSUME NEW b \in Range(p) PROVE \E c \in Range(o) : c \subseteq b
    OBVIOUS
  <2>1. PICK k \in W : p[k] \subseteq b
    BY <1>6
  <2>2. PICK i \in 1 .. Len(a) : a[i] = k
    BY <1>8
  <2>3. o[i] = p[k] /\ i \in DOMAIN o
    BY <1>5, <2>2
  <2> HIDE DEF o
  <2> QED BY <2>1, <2>3 DEF Range
<1> QED BY <1>3, <1>9, <1>10, <1>11

\* simplify() keeps what a condition asks for.
LEMMA AbsorbedHolds ==
  ASSUME NEW S, NEW p \in Seq(S), NEW j
  PROVE  PredicateHolds(Absorbed(p), j) <=> PredicateHolds(p, j)
<1>1. \A b, o : o \subseteq b /\ BlockHolds(b, j) => BlockHolds(o, j)
  BY DEF BlockHolds
<1>2. Range(Absorbed(p)) \subseteq Range(p) /\ \A b \in Range(p) : \E o \in Range(Absorbed(p)) : o \subseteq b
  BY AbsorbedBlocks
<1> QED BY <1>1, <1>2, HoldsByBlocks

LEMMA SimplifiedWritten ==
  ASSUME NEW c, Written(c)
  PROVE  Written(Simplified(c))
<1> DEFINE f == [p \in c \ {True} |-> Absorbed(p)]
           d == {Absorbed(p) : p \in c \ {True}}
<1>1. IsFiniteSet(d)
  <2>1. d = Range(f)
    BY DEF Range
  <2>2. IsFiniteSet(DOMAIN f) /\ f = [x \in DOMAIN f |-> f[x]]
    BY FS_Subset DEF Written
  <2> HIDE DEF f, d
  <2> QED BY <2>1, <2>2, FiniteRange
<1>2. \A o \in d : o \in Seq(SUBSET Literal)
  <2> SUFFICES ASSUME NEW p \in c PROVE Absorbed(p) \in Seq(SUBSET Literal)
    OBVIOUS
  <2>1. p \in Seq(SUBSET Literal)
    BY DEF Written
  <2> DEFINE S == SUBSET Literal
  <2> HIDE DEF S
  <2>2. p \in Seq(S) => Absorbed(p) \in Seq(S)
    BY AbsorbedBlocks
  <2> QED BY <2>1, <2>2 DEF S
<1>3. Simplified(c) \subseteq d \/ Simplified(c) = {True}
  BY DEF Simplified
<1>4. IsFiniteSet({True}) /\ True \in Seq(SUBSET Literal)
  <2> DEFINE S == SUBSET Literal
  <2>1. {} \in S
    OBVIOUS
  <2> HIDE DEF S
  <2>2. True \in Seq(S)
    BY <2>1 DEF True
  <2> QED BY <2>2, FS_Singleton DEF S
<1> HIDE DEF d
<1>5. IsFiniteSet(Simplified(c))
  BY <1>1, <1>3, <1>4, FS_Subset
<1>6. \A p \in Simplified(c) : p \in Seq(SUBSET Literal)
  BY <1>2, <1>3, <1>4
<1> QED BY <1>5, <1>6 DEF Written

LEMMA SimplifiedHolds ==
  ASSUME NEW c, Written(c), NEW j
  PROVE  AllHold(Simplified(c), j) <=> AllHold(c, j)
<1> DEFINE d == {Absorbed(p) : p \in c \ {True}}
           e == {p \in d : ~\E o \in d : Range(o) \subseteq Range(p) /\ Range(o) # Range(p)}
           f == [p \in c \ {True} |-> Absorbed(p)]
           T == {Range(p) : p \in d}
           g == [p \in d |-> Range(p)]
<1>1. Simplified(c) = IF e = {} THEN {True} ELSE e
  BY DEF Simplified
<1>2. AllHold(d, j) <=> AllHold(c, j)
  <2>1. \A p \in c : PredicateHolds(Absorbed(p), j) <=> PredicateHolds(p, j)
    <3> SUFFICES ASSUME NEW p \in c PROVE PredicateHolds(Absorbed(p), j) <=> PredicateHolds(p, j)
      OBVIOUS
    <3> DEFINE S == SUBSET Literal
    <3>1. p \in Seq(S)
      BY DEF Written
    <3> HIDE DEF S
    <3> QED BY <3>1, AbsorbedHolds
  <2>2. PredicateHolds(True, j)
    BY TrueHolds
  <2> QED BY <2>1, <2>2 DEF AllHold
<1>3. IsFiniteSet(d)
  <2>1. d = Range(f)
    BY DEF Range
  <2>2. IsFiniteSet(DOMAIN f) /\ f = [x \in DOMAIN f |-> f[x]]
    BY FS_Subset DEF Written
  <2> HIDE DEF f, d
  <2> QED BY <2>1, <2>2, FiniteRange
<1> HIDE DEF d
<1>4. IsFiniteSet(T)
  <2>1. T = Range(g)
    BY DEF Range
  <2>2. IsFiniteSet(DOMAIN g) /\ g = [x \in DOMAIN g |-> g[x]]
    BY <1>3
  <2> HIDE DEF g, T
  <2> QED BY <2>1, <2>2, FiniteRange
<1>5. \A p \in d : \E o \in e : Range(o) \subseteq Range(p)
  <2> SUFFICES ASSUME NEW p \in d PROVE \E o \in e : Range(o) \subseteq Range(p)
    OBVIOUS
  <2>1. Range(p) \in T
    OBVIOUS
  <2> HIDE DEF T
  <2>2. PICK m \in T : m \subseteq Range(p) /\ \A x \in T : x \subseteq m => x = m
    BY <1>4, <2>1, SmallestBelow
  <2> USE DEF T
  <2>3. PICK o \in d : m = Range(o)
    BY <2>2
  <2>4. \A x \in d : Range(x) \in T
    OBVIOUS
  <2>5. o \in e
    BY <2>2, <2>3, <2>4
  <2> QED BY <2>2, <2>3, <2>5
<1>6. \A o, p : Range(o) \subseteq Range(p) /\ PredicateHolds(o, j) => PredicateHolds(p, j)
  BY HoldsByBlocks
<1>7. e \subseteq d
  OBVIOUS
<1> HIDE DEF e, T
<1>8. AllHold(e, j) <=> AllHold(d, j)
  BY <1>5, <1>6, <1>7 DEF AllHold
<1>9. CASE e = {}
  <2>1. AllHold(e, j)
    BY <1>9 DEF AllHold
  <2>2. AllHold({True}, j)
    BY TrueHolds DEF AllHold
  <2> QED BY <1>1, <1>2, <1>8, <1>9, <2>1, <2>2
<1>10. CASE e # {}
  BY <1>1, <1>2, <1>8, <1>10
<1> QED BY <1>9, <1>10

-----------------------------------------------------------------------------
(* A SELECT gives, filtered below, the rows it gives that pass the filter.    *)
PassesGroup(p, g, all) ==
    \E i \in DOMAIN p : \A l \in p[i] : IsTrue(l.op, Value(l.left, g, all), Value(l.right, g, all))
PassesRow(p, r) ==
    \E i \in DOMAIN p : \A l \in p[i] : IsTrue(l.op, r[1][l.left[2]], r[1][l.right[2]])
AboutSome(c) == \A p \in c : p \in Seq(SUBSET Literal) /\ Literals(p) # {}
RowsApart(s) ==
    /\ s.group = {} /\ ~s.limit /\ ~HasWindow(s) /\ AggregatesAlone(s)
    /\ \A e \in MentionedIn(s.having) : e.fn \in {"column", "max", "const"}

LEMMA PassesEach ==
  ASSUME NEW c, NEW g, NEW all
  PROVE  Passes(c, g, all) <=> \A p \in c : PassesGroup(p, g, all)
<1> DEFINE val == [e \in MentionedIn(c) |-> Value(e, g, all)]
<1>1. \A e \in MentionedIn(c) : val[e] = Value(e, g, all)
  OBVIOUS
<1>2. ASSUME NEW p \in c, NEW i \in DOMAIN p, NEW l \in p[i]
      PROVE  l.left \in MentionedIn(c) /\ l.right \in MentionedIn(c)
  <2>1. l \in LiteralsOf(c)
    BY DEF LiteralsOf, Literals, Range
  <2> QED BY <2>1 DEF MentionedIn, ColumnsOf
<1> HIDE DEF val
<1>3. \A p \in c : \A i \in DOMAIN p : \A l \in p[i] :
        val[l.left] = Value(l.left, g, all) /\ val[l.right] = Value(l.right, g, all)
  BY <1>1, <1>2
<1>4. Holds(c, val) <=> \A p \in c : PassesGroup(p, g, all)
  BY <1>3 DEF Holds, PassesGroup
<1> QED BY <1>4 DEF val, Passes

\* A literal about what the outputs of s stand for.
InLiteral(s, l) == [l EXCEPT !.left = s.out[l.left[2]], !.right = s.out[l.right[2]]]

LEMMA LiteralInside ==
  ASSUME NEW s, NEW l \in Literal
  PROVE  /\ l.left[2] \in Cols /\ l.right[2] \in Cols
         /\ InLiteral(s, l) = [op |-> l.op, left |-> s.out[l.left[2]], right |-> s.out[l.right[2]]]
<1> DEFINE a == s.out[l.left[2]]
           b == s.out[l.right[2]]
<1>1. l = [op |-> l.op, left |-> l.left, right |-> l.right] /\ l.left \in Nat \X Cols /\ l.right \in Nat \X Cols
  BY DEF Literal
<1>2. InLiteral(s, l) = [l EXCEPT !.left = a, !.right = b]
  BY DEF InLiteral
<1>3. l.left[2] \in Cols /\ l.right[2] \in Cols
  BY <1>1
<1> HIDE DEF a, b
<1>4. PICK m : m = [l EXCEPT !.left = a] /\ [l EXCEPT !.left = a, !.right = b] = [m EXCEPT !.right = b]
  OBVIOUS
<1>5. m = [op |-> l.op, left |-> a, right |-> l.right]
  BY <1>1, <1>4
<1>6. [m EXCEPT !.right = b] = [op |-> l.op, left |-> a, right |-> b]
  BY <1>5
<1> QED BY <1>2, <1>3, <1>4, <1>6 DEF a, b

LEMMA InsidePasses ==
  ASSUME NEW s, NEW p \in Seq(SUBSET Literal), NEW g, NEW all, NEW o,
         \A c \in Cols : o[1][c] = Value(s.out[c], g, all)
  PROVE  PassesGroup(Inside(s, p), g, all) <=> PassesRow(p, o)
<1>1. DOMAIN Inside(s, p) = DOMAIN p /\ \A i \in DOMAIN p : Inside(s, p)[i] = {InLiteral(s, l) : l \in p[i]}
  BY DEF Inside, InLiteral
<1>2. \A i \in DOMAIN p : p[i] \subseteq Literal
  <2> DEFINE S == SUBSET Literal
  <2>1. p \in Seq(S)
    OBVIOUS
  <2> HIDE DEF S
  <2>2. \A i \in DOMAIN p : p[i] \in S
    BY <2>1
  <2> QED BY <2>2 DEF S
<1>3. ASSUME NEW l \in Literal
      PROVE  IsTrue(InLiteral(s, l).op, Value(InLiteral(s, l).left, g, all), Value(InLiteral(s, l).right, g, all))
               <=> IsTrue(l.op, o[1][l.left[2]], o[1][l.right[2]])
  <2>2. InLiteral(s, l) = [op |-> l.op, left |-> s.out[l.left[2]], right |-> s.out[l.right[2]]]
    BY LiteralInside
  <2>3. l.left[2] \in Cols /\ l.right[2] \in Cols
    BY LiteralInside
  <2>4. Value(s.out[l.left[2]], g, all) = o[1][l.left[2]] /\ Value(s.out[l.right[2]], g, all) = o[1][l.right[2]]
    BY <2>3
  <2>5. InLiteral(s, l).op = l.op /\ InLiteral(s, l).left = s.out[l.left[2]] /\ InLiteral(s, l).right = s.out[l.right[2]]
    BY <2>2
  <2> QED BY <2>4, <2>5
<1>4. \A i \in DOMAIN p : \A m \in Inside(s, p)[i] : \E l \in p[i] : m = InLiteral(s, l)
  BY <1>1
<1>5. \A i \in DOMAIN p : \A l \in p[i] : InLiteral(s, l) \in Inside(s, p)[i]
  BY <1>1
<1> QED BY <1>1, <1>2, <1>3, <1>4, <1>5 DEF PassesGroup, PassesRow

\* On an aggregate: a predicate on what is one.
OnAggregate(p) == \E l \in Literals(p) : \E e \in ColumnsOf(l) : e.fn = "max"
InsideOf(s, c) == {Inside(s, p) : p \in c}

LEMMA AddedWhere ==
  ASSUME NEW s, SelectShaped(s), NEW c
  PROVE  AddWhere(s, c) =
           [from |-> s.from, out |-> s.out, where |-> s.where \cup {p \in InsideOf(s, c) : ~OnAggregate(p)},
            group |-> s.group, having |-> s.having \cup {p \in InsideOf(s, c) : OnAggregate(p)},
            distinct |-> s.distinct, limit |-> s.limit]
<1> DEFINE w == s.where \cup {p \in InsideOf(s, c) : ~OnAggregate(p)}
           h == s.having \cup {p \in InsideOf(s, c) : OnAggregate(p)}
<1>1. AddWhere(s, c) = [s EXCEPT !.where = w, !.having = h]
  BY DEF AddWhere, InsideOf, OnAggregate
<1> HIDE DEF w, h
<1>2. AddWhere(s, c) = [from |-> s.from, out |-> s.out, where |-> w, group |-> s.group, having |-> h,
                        distinct |-> s.distinct, limit |-> s.limit]
  BY <1>1 DEF SelectShaped
<1> QED BY <1>2 DEF w, h

LEMMA InsideAggregate ==
  ASSUME NEW s, NEW p \in Seq(SUBSET Literal)
  PROVE  /\ OnAggregate(Inside(s, p)) => HasAgg(s)
         /\ HasAgg(s) /\ AggregatesAlone(s) /\ Literals(p) # {} => OnAggregate(Inside(s, p))
<1>1. DOMAIN Inside(s, p) = DOMAIN p /\ \A i \in DOMAIN p : Inside(s, p)[i] = {InLiteral(s, l) : l \in p[i]}
  BY DEF Inside, InLiteral
<1>2. \A i \in DOMAIN p : p[i] \subseteq Literal
  <2> DEFINE S == SUBSET Literal
  <2>1. p \in Seq(S)
    OBVIOUS
  <2> HIDE DEF S
  <2>2. \A i \in DOMAIN p : p[i] \in S
    BY <2>1
  <2> QED BY <2>2 DEF S
<1>3. ASSUME NEW l \in Literal
      PROVE  \E c, d \in Cols : InLiteral(s, l).left = s.out[c] /\ InLiteral(s, l).right = s.out[d]
  <2>2. InLiteral(s, l) = [op |-> l.op, left |-> s.out[l.left[2]], right |-> s.out[l.right[2]]]
    BY LiteralInside
  <2>3. l.left[2] \in Cols /\ l.right[2] \in Cols
    BY LiteralInside
  <2> QED BY <2>2, <2>3
<1>4. ASSUME OnAggregate(Inside(s, p)) PROVE HasAgg(s)
  <2>1. PICK m \in Literals(Inside(s, p)) : \E e \in ColumnsOf(m) : e.fn = "max"
    BY <1>4 DEF OnAggregate
  <2>2. PICK i \in DOMAIN p : m \in Inside(s, p)[i]
    BY <1>1, <2>1 DEF Literals, Range
  <2>3. PICK l \in p[i] : m = InLiteral(s, l)
    BY <1>1, <2>2
  <2>4. PICK c \in Cols, d \in Cols : m.left = s.out[c] /\ m.right = s.out[d]
    BY <1>2, <1>3, <2>3
  <2> QED BY <2>1, <2>4 DEF ColumnsOf, HasAgg
<1>5. ASSUME HasAgg(s), AggregatesAlone(s), Literals(p) # {} PROVE OnAggregate(Inside(s, p))
  <2>1. PICK i \in DOMAIN p : p[i] # {}
    BY <1>5 DEF Literals, Range
  <2>2. PICK l \in p[i] : TRUE
    BY <2>1
  <2>3. PICK c \in Cols, d \in Cols : InLiteral(s, l).left = s.out[c] /\ InLiteral(s, l).right = s.out[d]
    BY <1>2, <1>3
  <2>4. InLiteral(s, l) \in Literals(Inside(s, p))
    BY <1>1 DEF Literals, Range
  <2>5. InLiteral(s, l).left.fn = "max"
    BY <1>5, <2>3 DEF AggregatesAlone
  <2> QED BY <2>4, <2>5 DEF OnAggregate, ColumnsOf
<1> QED BY <1>4, <1>5

LEMMA ValueApart ==
  ASSUME NEW e, e.fn \in {"column", "max", "const"}, NEW g, NEW all, NEW rest
  PROVE  Value(e, g, all) = Value(e, g, rest)
BY DEF Value

LEMMA PassesApart ==
  ASSUME NEW c, \A e \in MentionedIn(c) : e.fn \in {"column", "max", "const"}, NEW g, NEW all, NEW rest
  PROVE  Passes(c, g, all) <=> Passes(c, g, rest)
<1>1. ASSUME NEW p \in c, NEW i \in DOMAIN p, NEW l \in p[i]
      PROVE  Value(l.left, g, all) = Value(l.left, g, rest) /\ Value(l.right, g, all) = Value(l.right, g, rest)
  <2>1. l \in LiteralsOf(c)
    BY DEF LiteralsOf, Literals, Range
  <2>2. l.left \in MentionedIn(c) /\ l.right \in MentionedIn(c)
    BY <2>1 DEF MentionedIn, ColumnsOf
  <2> QED BY <2>2, ValueApart
<1>2. \A p \in c : PassesGroup(p, g, all) <=> PassesGroup(p, g, rest)
  BY <1>1 DEF PassesGroup
<1> QED BY <1>2, PassesEach

LEMMA OutputApart ==
  ASSUME NEW s, \A c \in Cols : s.out[c].fn \in {"column", "max", "const"}, NEW g, NEW all, NEW rest
  PROVE  OutputOf(s, g, all) = OutputOf(s, g, rest)
<1>1. \A c \in Cols : Value(s.out[c], g, all) = Value(s.out[c], g, rest)
  BY ValueApart
<1>2. [c \in Cols |-> Value(s.out[c], g, all)] = [c \in Cols |-> Value(s.out[c], g, rest)]
  BY <1>1
<1> QED BY <1>2 DEF OutputOf

LEMMA PassesBoth ==
  ASSUME NEW c, NEW d, NEW g, NEW all
  PROVE  Passes(c \cup d, g, all) <=> Passes(c, g, all) /\ Passes(d, g, all)
BY PassesEach

LEMMA InsideEach ==
  ASSUME NEW s, NEW c, AboutSome(c), NEW g, NEW all
  PROVE  Passes(InsideOf(s, c), g, all) <=> \A p \in c : PassesRow(p, OutputOf(s, g, all))
<1> DEFINE o == OutputOf(s, g, all)
<1>1. \A x \in Cols : o[1][x] = Value(s.out[x], g, all)
  BY DEF OutputOf
<1> HIDE DEF o
<1>2. \A p \in c : PassesGroup(Inside(s, p), g, all) <=> PassesRow(p, o)
  BY <1>1, InsidePasses DEF AboutSome
<1>3. Passes(InsideOf(s, c), g, all) <=> \A p \in InsideOf(s, c) : PassesGroup(p, g, all)
  BY PassesEach
<1>4. (\A p \in InsideOf(s, c) : PassesGroup(p, g, all)) <=> \A p \in c : PassesGroup(Inside(s, p), g, all)
  BY DEF InsideOf
<1> QED BY <1>2, <1>3, <1>4 DEF o

\* What AddWhere leaves alone, and where it puts the predicates.
LEMMA AddedParts ==
  ASSUME NEW s, SelectShaped(s), NEW c, AboutSome(c), AggregatesAlone(s)
  PROVE  /\ AddWhere(s, c).out = s.out /\ AddWhere(s, c).group = s.group /\ AddWhere(s, c).from = s.from
         /\ AddWhere(s, c).distinct = s.distinct /\ AddWhere(s, c).limit = s.limit
         /\ HasAgg(s) => AddWhere(s, c).where = s.where /\ AddWhere(s, c).having = s.having \cup InsideOf(s, c)
         /\ ~HasAgg(s) => AddWhere(s, c).where = s.where \cup InsideOf(s, c) /\ AddWhere(s, c).having = s.having
<1> DEFINE t == AddWhere(s, c)
           h == {p \in InsideOf(s, c) : OnAggregate(p)}
           w == {p \in InsideOf(s, c) : ~OnAggregate(p)}
<1>1. t = [from |-> s.from, out |-> s.out, where |-> s.where \cup w, group |-> s.group,
           having |-> s.having \cup h, distinct |-> s.distinct, limit |-> s.limit]
  BY AddedWhere
<1>2. HasAgg(s) => \A p \in InsideOf(s, c) : OnAggregate(p)
  BY InsideAggregate DEF InsideOf, AboutSome
<1>3. ~HasAgg(s) => \A p \in InsideOf(s, c) : ~OnAggregate(p)
  BY InsideAggregate DEF InsideOf, AboutSome
<1> HIDE DEF t
<1>4. t.where = s.where \cup w /\ t.having = s.having \cup h
  BY <1>1
<1>5. t.out = s.out /\ t.group = s.group /\ t.from = s.from /\ t.distinct = s.distinct /\ t.limit = s.limit
  BY <1>1
<1>6. HasAgg(s) => t.where = s.where /\ t.having = s.having \cup InsideOf(s, c)
  <2>1. HasAgg(s) => w = {} /\ h = InsideOf(s, c)
    BY <1>2
  <2> HIDE DEF w, h
  <2> QED BY <1>4, <2>1
<1>7. ~HasAgg(s) => t.where = s.where \cup InsideOf(s, c) /\ t.having = s.having
  <2>1. ~HasAgg(s) => h = {} /\ w = InsideOf(s, c)
    BY <1>3
  <2> HIDE DEF w, h
  <2> QED BY <1>4, <2>1
<1> QED BY <1>5, <1>6, <1>7 DEF t

LEMMA SelectFiltered ==
  ASSUME NEW s, SelectShaped(s), RowsApart(s), NEW c, AboutSome(c), NEW table
  PROVE  SelectRows(AddWhere(s, c), table) = {o \in SelectRows(s, table) : \A p \in c : PassesRow(p, o)}
<1> DEFINE t == AddWhere(s, c)
           all == Filtered(s, table)
           rest == Filtered(t, table)
<1>1. /\ t.out = s.out /\ t.group = {} /\ s.group = {} /\ t.distinct = s.distinct /\ ~t.limit /\ ~s.limit
      /\ t.limit \in BOOLEAN /\ s.limit \in BOOLEAN
      /\ HasAgg(s) => t.where = s.where /\ t.having = s.having \cup InsideOf(s, c)
      /\ ~HasAgg(s) => t.where = s.where \cup InsideOf(s, c) /\ t.having = s.having
  BY AddedParts DEF RowsApart, SelectShaped
<1> HIDE DEF t
<1>2. SelectRows(t, table) = Outputs(t, rest) /\ SelectRows(s, table) = Outputs(s, all)
  <2>1. ~t.limit => SelectRows(t, table) = Outputs(t, rest)
    BY <1>1, SelectRowsIn
  <2>2. ~s.limit => SelectRows(s, table) = Outputs(s, all)
    BY <1>1, SelectRowsIn
  <2> QED BY <1>1, <2>1, <2>2
<1>3. HasAgg(t) <=> HasAgg(s)
  BY <1>1 DEF HasAgg
<1>4. \A x \in Cols : s.out[x].fn \in {"column", "max", "const"}
  BY DEF SelectShaped, RowsApart, HasWindow
<1>5. \A g, x, y : OutputOf(t, g, x) = OutputOf(s, g, y)
  <2>1. \A g, x : OutputOf(t, g, x) = OutputOf(s, g, x)
    BY <1>1 DEF OutputOf
  <2> QED BY <1>4, <2>1, OutputApart
<1>6. \A o : o \in Outputs(t, rest) <=> \E g \in Groups(t, rest) : Passes(t.having, g, rest) /\ o = OutputOf(s, g, all)
  BY <1>5, OutputsAre
<1>7. \A o : o \in Outputs(s, all) <=> \E g \in Groups(s, all) : Passes(s.having, g, all) /\ o = OutputOf(s, g, all)
  BY OutputsAre
<1> HIDE DEF all, rest
<1>8. CASE HasAgg(s)
  <2>1. rest = all
    BY <1>1, <1>8 DEF rest, all, Filtered
  <2>2. Groups(t, rest) = {all} /\ Groups(s, all) = {all}
    BY <1>1, <1>3, <1>8, <2>1, GroupedAll
  <2>3. Passes(t.having, all, rest) <=> Passes(s.having, all, all) /\ \A p \in c : PassesRow(p, OutputOf(s, all, all))
    BY <1>1, <1>8, <2>1, PassesBoth, InsideEach
  <2> QED BY <1>2, <1>6, <1>7, <2>2, <2>3 DEF t
<1>9. CASE ~HasAgg(s)
  <2>1. \A r : r \in rest <=> r \in all /\ \A p \in c : PassesRow(p, OutputOf(s, {r}, all))
    <3> SUFFICES ASSUME NEW r
                 PROVE r \in rest <=> r \in all /\ \A p \in c : PassesRow(p, OutputOf(s, {r}, all))
      OBVIOUS
    <3>1. Passes(t.where, {r}, {r}) <=> Passes(s.where, {r}, {r}) /\ Passes(InsideOf(s, c), {r}, {r})
      BY <1>1, <1>9, PassesBoth
    <3>2. Passes(InsideOf(s, c), {r}, {r}) <=> \A p \in c : PassesRow(p, OutputOf(s, {r}, {r}))
      BY InsideEach
    <3>3. OutputOf(s, {r}, {r}) = OutputOf(s, {r}, all)
      BY <1>5
    <3> QED BY <3>1, <3>2, <3>3 DEF rest, all, Filtered
  <2>2. Groups(t, rest) = {{r} : r \in rest} /\ Groups(s, all) = {{r} : r \in all}
    BY <1>1, <1>3, <1>9, GroupedApart
  <2>3. \A g : Passes(t.having, g, rest) <=> Passes(s.having, g, all)
    <3>1. \A e \in MentionedIn(s.having) : e.fn \in {"column", "max", "const"}
      BY DEF RowsApart
    <3> QED BY <1>1, <1>9, <3>1, PassesApart
  <2> DEFINE only(r) == {r}
             Lets(r) == Passes(s.having, only(r), all)
             Out(r) == OutputOf(s, only(r), all)
             G == Groups(t, rest)
             H == Groups(s, all)
  <2>4. \A o : o \in Outputs(t, rest) <=> \E r \in rest : Lets(r) /\ o = Out(r)
    <3>1. (\A r \in rest : only(r) \in G) /\ \A g \in G : \E r \in rest : g = only(r)
      BY <2>2
    <3>2. \A o : o \in Outputs(t, rest) <=> \E g \in G : Passes(s.having, g, all) /\ o = OutputOf(s, g, all)
      BY <1>6, <2>3
    <3> HIDE DEF G, only
    <3> QED BY <3>1, <3>2
  <2>5. \A o : o \in Outputs(s, all) <=> \E r \in all : Lets(r) /\ o = Out(r)
    <3>1. (\A r \in all : only(r) \in H) /\ \A g \in H : \E r \in all : g = only(r)
      BY <2>2
    <3>2. \A o : o \in Outputs(s, all) <=> \E g \in H : Passes(s.having, g, all) /\ o = OutputOf(s, g, all)
      BY <1>7
    <3> HIDE DEF H, only
    <3> QED BY <3>1, <3>2
  <2>6. \A o : o \in Outputs(t, rest) <=> o \in Outputs(s, all) /\ \A p \in c : PassesRow(p, o)
    <3>1. \A r : r \in rest <=> r \in all /\ \A p \in c : PassesRow(p, Out(r))
      BY <2>1
    <3> HIDE DEF Lets, Out
    <3> QED BY <2>4, <2>5, <3>1
  <2>7. Outputs(t, rest) = {o \in Outputs(s, all) : \A p \in c : PassesRow(p, o)}
    BY <2>6
  <2> QED BY <1>2, <2>7 DEF t
<1> QED BY <1>8, <1>9

LEMMA BodyFiltered ==
  ASSUME NEW body, BodyShaped(body), body.form = "select", RowsApart(body.is), NEW c, AboutSome(c), NEW db
  PROVE  /\ AddBody(body, c).form = "select"
         /\ RowsOf(AddBody(body, c), db) = {r \in RowsOf(body, db) : \A p \in c : PassesRow(p, r)}
<1>1. CASE c = {}
  <2>1. AddBody(body, c) = body
    BY <1>1 DEF AddBody
  <2> QED BY <1>1, <2>1
<1>2. CASE c # {}
  <2> DEFINE s == body.is
             t == AddWhere(s, c)
             table == TableRows(s.from, db)
  <2>1. body = [form |-> body.form, is |-> body.is]
    BY DEF BodyShaped, Source
  <2>2. AddBody(body, c) = [form |-> "select", is |-> t]
    BY <1>2, <2>1 DEF AddBody
  <2>3. SelectShaped(s)
    BY DEF BodyShaped
  <2>4. t.from = s.from
    BY <2>3, AddedParts DEF RowsApart
  <2>5. SelectRows(t, table) = {o \in SelectRows(s, table) : \A p \in c : PassesRow(p, o)}
    BY <2>3, SelectFiltered
  <2> HIDE DEF t
  <2>6. AddBody(body, c).form = "select" /\ AddBody(body, c).is = t
    BY <2>2
  <2>7. RowsOf(AddBody(body, c), db) = Tagged(1, SelectRows(t, table))
    BY <2>4, <2>6, SelectSourceRows DEF PartRows
  <2>8. RowsOf(body, db) = Tagged(1, SelectRows(s, table))
    BY SelectSourceRows DEF PartRows
  <2>9. \A p, r : PassesRow(p, <<r[1], <<1, r[2]>>>>) <=> PassesRow(p, r)
    BY DEF PassesRow
  <2> HIDE DEF table, s
  <2>10. Tagged(1, SelectRows(t, table)) = {r \in Tagged(1, SelectRows(s, table)) : \A p \in c : PassesRow(p, r)}
    BY <2>5, <2>9 DEF Tagged
  <2> QED BY <2>6, <2>7, <2>8, <2>10
<1> QED BY <1>1, <1>2

-----------------------------------------------------------------------------
(* A predicate holds after a join where it held before, or where it holds of  *)
(* what the join takes in, unless the join then adds rows.                    *)
AllPass(c, r) == \A p \in c : PassesRow(p, r)

LEMMA LiteralTables ==
  ASSUME NEW c, NEW p \in c, NEW i \in DOMAIN p, NEW l \in p[i]
  PROVE  l.left[1] \in TablesOf(c) /\ l.right[1] \in TablesOf(c)
<1>1. l \in LiteralsOf(c)
  BY DEF LiteralsOf, Literals, Range
<1>2. l.left \in MentionedIn(c) /\ l.right \in MentionedIn(c)
  BY <1>1 DEF MentionedIn, ColumnsOf
<1> QED BY <1>2, MentionedTables

LEMMA AllHoldBoth ==
  ASSUME NEW c, NEW d, NEW j
  PROVE  AllHold(c \cup d, j) <=> AllHold(c, j) /\ AllHold(d, j)
BY DEF AllHold

LEMMA AllHoldSame ==
  ASSUME NEW c, NEW j, NEW k, \A x \in TablesOf(c) : j[x] = k[x]
  PROVE  AllHold(c, j) <=> AllHold(c, k)
<1>1. ASSUME NEW p \in c, NEW i \in DOMAIN p, NEW l \in p[i]
      PROVE  Field(j, l.left) = Field(k, l.left) /\ Field(j, l.right) = Field(k, l.right)
  BY LiteralTables, FieldIsValueIn
<1>2. \A p \in c : PredicateHolds(p, j) <=> PredicateHolds(p, k)
  BY <1>1 DEF PredicateHolds
<1> QED BY <1>2 DEF AllHold

LEMMA AllHoldPass ==
  ASSUME NEW c, NEW a, TablesOf(c) \subseteq {a}, NEW j, NEW r, j[a] = {r}
  PROVE  AllHold(c, j) <=> AllPass(c, r)
<1>1. ASSUME NEW p \in c, NEW i \in DOMAIN p, NEW l \in p[i]
      PROVE  Field(j, l.left) = r[1][l.left[2]] /\ Field(j, l.right) = r[1][l.right[2]]
  <2>1. l.left[1] = a /\ l.right[1] = a
    BY LiteralTables
  <2>2. \A y : ValueIn({r}, y) = r[1][y]
    BY ValueOfOne
  <2>3. Field(j, l.left) = ValueIn(j[a], l.left[2]) /\ Field(j, l.right) = ValueIn(j[a], l.right[2])
    BY <2>1, FieldIsValueIn
  <2> QED BY <2>2, <2>3
<1>2. \A p \in c : PredicateHolds(p, j) <=> PassesRow(p, r)
  BY <1>1 DEF PredicateHolds, PassesRow
<1> QED BY <1>2 DEF AllHold, AllPass

LEMMA MatchesHold ==
  ASSUME NEW l, NEW it, NEW rows, NEW r
  PROVE  r \in Matches(l, it, rows) <=> r \in rows /\ AllHold(it.on, With(l, it.alias, {r}))
BY HoldsFields DEF Matches, AllHold

\* What a join takes in, and its condition, may be narrowed.
Narrows(it, new, c, f, early) ==
    /\ new.alias = it.alias /\ new.side = it.side /\ ~SemiOrAnti(it) /\ ~SemiOrAnti(new)
    /\ new.on = it.on \cup c
    /\ early # {} => it.side \notin {"RIGHT", "FULL"}
    /\ c # {} => it.side = ""
    /\ f # {} => it.side \in {"", "RIGHT"}

LEMMA JoinFiltered ==
  ASSUME NEW A, NEW left, AllOver(left, A), NEW it, it.alias \notin A, NEW rows, NEW new, NEW c, NEW f, NEW early,
         Narrows(it, new, c, f, early), TablesOf(early) \subseteq A, TablesOf(f) \subseteq {it.alias},
         NEW narrow, narrow = {l \in left : AllHold(early, l)}, NEW few, few = {r \in rows : AllPass(f, r)}
  PROVE  JoinRows(narrow, new, few, A) = {j \in JoinRows(left, it, rows, A) : AllHold(early \cup (c \cup f), j)}
<1> DEFINE a == it.alias
           none == [y \in A |-> {}]
<1>1. new.alias = a /\ new.side = it.side /\ new.on = it.on \cup c
  BY DEF Narrows
<1>2. ~SemiOrAnti(it) /\ ~SemiOrAnti(new)
  BY DEF Narrows
<1>3. \A l, r : AllHold(f, With(l, a, {r})) <=> AllPass(f, r)
  <2> SUFFICES ASSUME NEW l, NEW r PROVE AllHold(f, With(l, a, {r})) <=> AllPass(f, r)
    OBVIOUS
  <2> DEFINE j == With(l, a, {r})
  <2>1. j[a] = {r}
    BY WithNew
  <2> HIDE DEF j, a
  <2> QED BY <2>1, AllHoldPass DEF j, a
<1>4. ASSUME NEW l, Over(l, A), NEW R PROVE AllHold(early, With(l, a, R)) <=> AllHold(early, l)
  <2>1. \A x \in TablesOf(early) : With(l, a, R)[x] = l[x]
    BY <1>4, WithOld
  <2> QED BY <2>1, AllHoldSame
<1>5. Over(none, A)
  BY DEF Over
<1> HIDE DEF none, a
<1>6. \A l, r : r \in Matches(l, new, few) <=> r \in Matches(l, it, rows) /\ AllHold(c \cup f, With(l, a, {r}))
  <2> SUFFICES ASSUME NEW l, NEW r
               PROVE r \in Matches(l, new, few) <=> r \in Matches(l, it, rows) /\ AllHold(c \cup f, With(l, a, {r}))
    OBVIOUS
  <2> DEFINE j == With(l, a, {r})
  <2>1. r \in Matches(l, new, few) <=> r \in few /\ AllHold(it.on \cup c, j)
    <3>1. r \in Matches(l, new, few) <=> r \in few /\ AllHold(new.on, With(l, new.alias, {r}))
      BY MatchesHold
    <3> QED BY <1>1, <3>1
  <2>2. r \in Matches(l, it, rows) <=> r \in rows /\ AllHold(it.on, j)
    BY MatchesHold DEF a
  <2>3. AllHold(f, j) <=> AllPass(f, r)
    BY <1>3
  <2> HIDE DEF j
  <2>4. AllHold(it.on \cup c, j) <=> AllHold(it.on, j) /\ AllHold(c, j)
    BY AllHoldBoth
  <2>5. AllHold(c \cup f, j) <=> AllHold(c, j) /\ AllHold(f, j)
    BY AllHoldBoth
  <2>6. r \in few <=> r \in rows /\ AllPass(f, r)
    OBVIOUS
  <2> QED BY <2>1, <2>2, <2>3, <2>4, <2>5, <2>6 DEF j
<1> DEFINE all(j) == AllHold(early \cup (c \cup f), j)
           ext(l, r) == With(l, a, {r})
           bare(l) == With(l, a, {})
           M(l) == Matches(l, it, rows)
           N(l) == Matches(l, new, few)
           E(l) == AllHold(early, l)
           F(j) == AllHold(c \cup f, j)
<1>7. \A l : Over(l, A) => \A R : all(With(l, a, R)) <=> E(l) /\ F(With(l, a, R))
  BY <1>4, AllHoldBoth
<1>8. \A l \in left : Over(l, A)
  BY DEF AllOver
<1>20. \A l \in left : \A r : all(ext(l, r)) <=> E(l) /\ F(ext(l, r))
  BY <1>7, <1>8
<1>21. \A l \in left : all(bare(l)) <=> E(l) /\ F(bare(l))
  BY <1>7, <1>8
<1>22. \A r : all(ext(none, r)) <=> E(none) /\ F(ext(none, r))
  BY <1>5, <1>7
<1>23. \A l, r : r \in N(l) <=> r \in M(l) /\ F(ext(l, r))
  BY <1>6
<1>24. \A l : l \in narrow <=> l \in left /\ E(l)
  OBVIOUS
<1>25. \A r : r \in few <=> r \in rows /\ AllPass(f, r)
  OBVIOUS
<1>26. (c = {} => \A l, r : F(ext(l, r)) <=> AllPass(f, r)) /\ (c = {} /\ f = {} => \A j : F(j))
       /\ (early = {} => \A j : E(j))
  BY <1>3 DEF AllHold
<1>9. \A j : IsMatched(j, narrow, new, few) <=> IsMatched(j, left, it, rows) /\ all(j)
  <2>1. \A j : IsMatched(j, narrow, new, few) <=> \E l \in narrow : \E r \in N(l) : j = ext(l, r)
    BY <1>1 DEF IsMatched
  <2>2. \A j : IsMatched(j, left, it, rows) <=> \E l \in left : \E r \in M(l) : j = ext(l, r)
    BY DEF IsMatched, a
  <2> HIDE DEF all, ext, M, N, E, F
  <2> QED BY <1>20, <1>23, <1>24, <2>1, <2>2
<1>10. \A j : IsAlone(j, narrow, new, few) <=> IsAlone(j, left, it, rows) /\ all(j)
  <2>1. \A j : IsAlone(j, narrow, new, few)
                <=> it.side \in {"LEFT", "FULL"} /\ \E l \in narrow : N(l) = {} /\ j = bare(l)
    BY <1>1 DEF IsAlone
  <2>2. \A j : IsAlone(j, left, it, rows)
                <=> it.side \in {"LEFT", "FULL"} /\ \E l \in left : M(l) = {} /\ j = bare(l)
    BY DEF IsAlone, a
  <2>3. it.side \in {"LEFT", "FULL"} => c = {} /\ f = {}
    BY DEF Narrows
  <2> HIDE DEF all, ext, M, N, E, F, bare
  <2>4. it.side \in {"LEFT", "FULL"} => (\A j : F(j)) /\ \A l : N(l) = {} <=> M(l) = {}
    BY <1>23, <1>26, <2>3
  <2> QED BY <1>21, <1>24, <2>1, <2>2, <2>4
<1>11. \A j : IsUnmatched(j, narrow, new, few, A) <=> IsUnmatched(j, left, it, rows, A) /\ all(j)
  <2>1. \A j : IsUnmatched(j, narrow, new, few, A)
                <=> it.side \in {"RIGHT", "FULL"} /\ \E r \in few : (\A l \in narrow : r \notin N(l)) /\ j = ext(none, r)
    BY <1>1 DEF IsUnmatched, none
  <2>2. \A j : IsUnmatched(j, left, it, rows, A)
                <=> it.side \in {"RIGHT", "FULL"} /\ \E r \in rows : (\A l \in left : r \notin M(l)) /\ j = ext(none, r)
    BY DEF IsUnmatched, none, a
  <2>3. it.side \in {"RIGHT", "FULL"} => c = {} /\ early = {}
    BY DEF Narrows
  <2> HIDE DEF all, ext, M, N, E, F
  <2> SUFFICES ASSUME c = {}, early = {}
               PROVE \A j : (\E r \in few : (\A l \in narrow : r \notin N(l)) /\ j = ext(none, r))
                             <=> (\E r \in rows : (\A l \in left : r \notin M(l)) /\ j = ext(none, r)) /\ all(j)
    BY <2>1, <2>2, <2>3
  <2>4. narrow = left /\ \A r \in few : \A l : r \in N(l) <=> r \in M(l)
    BY <1>23, <1>24, <1>25, <1>26
  <2>5. \A r : all(ext(none, r)) <=> AllPass(f, r)
    BY <1>22, <1>26
  <2> QED BY <1>25, <2>4, <2>5
<1>12. \A j : j \in JoinRows(narrow, new, few, A)
                <=> j \in JoinRows(left, it, rows, A) /\ all(j)
  BY <1>2, <1>9, <1>10, <1>11, OrdinaryRows
<1> QED BY <1>12

\* What items take in narrowed (f) and conditions narrowed (c), item by item.
UpTo(c, f, i) == UNION {c[k] \cup f[k] : k \in 1 .. i}
NarrowedItem(q, r, db, c, f, k) ==
    LET it == q.items[k]
        new == r.items[k]
    IN  /\ new.alias = it.alias /\ new.side = it.side
        /\ (new.kind = "SEMI" <=> it.kind = "SEMI") /\ (new.kind = "ANTI" <=> it.kind = "ANTI")
        /\ new.on = it.on \cup c[k]
        /\ ItemRows(r, k, db) = {x \in ItemRows(q, k, db) : AllPass(f[k], x)}
        /\ TablesOf(c[k]) \subseteq Visible(q, k) /\ TablesOf(f[k]) \subseteq {it.alias}
NothingAdded(q, c, f, k) ==
    /\ c[k] \cup f[k] # {} => ~SemiOrAnti(q.items[k])
    /\ \A i \in 2 .. Len(q.items) :
         c[k] \cup f[k] # {} /\ k < i => SemiOrAnti(q.items[i]) \/ q.items[i].side \notin {"RIGHT", "FULL"}
Sideless(it) == it.side = ""
RightOrNone(it) == it.side \in {"", "RIGHT"}
NarrowsThere(q, c, f, k) ==
    /\ c[k] # {} => k > 1 /\ Sideless(q.items[k])
    /\ f[k] # {} => k = 1 \/ RightOrNone(q.items[k])

LEMMA NarrowedVisible ==
  ASSUME NEW q, Shaped(q), NEW r,
         \A k \in 1 .. Len(q.items) : /\ r.items[k].alias = q.items[k].alias
                                      /\ SemiOrAnti(r.items[k]) <=> SemiOrAnti(q.items[k]),
         NEW i \in 0 .. Len(q.items)
  PROVE  Visible(r, i) = Visible(q, i)
<1>1. \A k \in 1 .. i : k \in 1 .. Len(q.items)
  <2> DEFINE n == Len(q.items)
  <2>1. n \in Nat /\ i \in 0 .. n
    BY ShapedItems
  <2> HIDE DEF n
  <2>2. \A k \in 1 .. i : k \in 1 .. n
    BY <2>1
  <2> QED BY <2>2 DEF n
<1>2. \A k \in 1 .. i : r.items[k].alias = q.items[k].alias /\ (SemiOrAnti(r.items[k]) <=> SemiOrAnti(q.items[k]))
  BY <1>1
<1>3. ASSUME NEW x PROVE x \in Visible(r, i) <=> x \in Visible(q, i)
  <2>1. x \in Visible(r, i) <=> \E k \in 1 .. i : ~SemiOrAnti(r.items[k]) /\ x = r.items[k].alias
    BY DEF Visible
  <2>2. x \in Visible(q, i) <=> \E k \in 1 .. i : ~SemiOrAnti(q.items[k]) /\ x = q.items[k].alias
    BY DEF Visible
  <2> QED BY <1>2, <2>1, <2>2
<1>4. Visible(r, i) \subseteq Visible(q, i) /\ Visible(q, i) \subseteq Visible(r, i)
  BY <1>3
<1> QED BY <1>4

LEMMA UpToTables ==
  ASSUME NEW q, NEW c, NEW f, NEW i \in Nat,
         \A k \in 1 .. i : /\ TablesOf(c[k]) \subseteq Visible(q, k) /\ TablesOf(f[k]) \subseteq {q.items[k].alias}
                           /\ c[k] \cup f[k] # {} => ~SemiOrAnti(q.items[k])
  PROVE  TablesOf(UpTo(c, f, i)) \subseteq Visible(q, i)
<1> SUFFICES ASSUME NEW x \in TablesOf(UpTo(c, f, i)) PROVE x \in Visible(q, i)
  OBVIOUS
<1>1. PICK p \in UpTo(c, f, i) : x \in PredicateTables(p)
  BY TablesByPredicate
<1>2. PICK k \in 1 .. i : p \in c[k] \cup f[k]
  BY <1>1 DEF UpTo
<1>3. ~SemiOrAnti(q.items[k])
  BY <1>2
<1>4. x \in TablesOf(c[k]) \/ x \in TablesOf(f[k])
  BY <1>1, <1>2, TablesByPredicate
<1>5. Visible(q, k) \subseteq Visible(q, i)
  BY VisibleGrows
<1>6. q.items[k].alias \in Visible(q, k)
  BY <1>3 DEF Visible
<1> QED BY <1>4, <1>5, <1>6

LEMMA UpToNext ==
  ASSUME NEW c, NEW f, NEW i \in Nat \ {0}
  PROVE  UpTo(c, f, i) = UpTo(c, f, i - 1) \cup (c[i] \cup f[i])
<1>1. \A k : k \in 1 .. i <=> k \in 1 .. (i - 1) \/ k = i
  OBVIOUS
<1> QED BY <1>1 DEF UpTo

LEMMA SemiFiltered ==
  ASSUME NEW it, NEW new, new.alias = it.alias, new.on = it.on, SemiOrAnti(it),
         new.kind = "SEMI" <=> it.kind = "SEMI", new.kind = "ANTI" <=> it.kind = "ANTI",
         NEW left, NEW rows, NEW names, NEW early
  PROVE  JoinRows({l \in left : AllHold(early, l)}, new, rows, names)
           = {j \in JoinRows(left, it, rows, names) : AllHold(early, j)}
<1>1. \A l : Matches(l, new, rows) = Matches(l, it, rows)
  BY SameMatches
<1> DEFINE narrow == {l \in left : AllHold(early, l)}
<1>2. CASE it.kind = "SEMI"
  <2>1. JoinRows(left, it, rows, names) = {l \in left : Matches(l, it, rows) # {}}
    BY <1>2, SemiRows
  <2>2. new.kind = "SEMI"
    BY <1>2
  <2>3. JoinRows(narrow, new, rows, names) = {l \in narrow : Matches(l, new, rows) # {}}
    <3> HIDE DEF narrow
    <3> QED BY <2>2, SemiRows
  <2> QED BY <1>1, <2>1, <2>3
<1>3. CASE it.kind = "ANTI"
  <2>1. JoinRows(left, it, rows, names) = {l \in left : Matches(l, it, rows) = {}}
    BY <1>3, AntiRows
  <2>2. new.kind = "ANTI"
    BY <1>3
  <2>3. JoinRows(narrow, new, rows, names) = {l \in narrow : Matches(l, new, rows) = {}}
    <3> HIDE DEF narrow
    <3> QED BY <2>2, AntiRows
  <2> QED BY <1>1, <2>1, <2>3
<1> QED BY <1>2, <1>3 DEF SemiOrAnti

LEMMA FirstFiltered ==
  ASSUME NEW q, NEW r, NEW db, NEW f, r.items[1].alias = q.items[1].alias, TablesOf(f) \subseteq {q.items[1].alias},
         ItemRows(r, 1, db) = {x \in ItemRows(q, 1, db) : AllPass(f, x)}
  PROVE  FirstRows(r, db) = {j \in FirstRows(q, db) : AllHold(f, j)}
<1> DEFINE a == q.items[1].alias
           row(x) == [y \in {a} |-> {x}]
<1>1. \A x : AllHold(f, row(x)) <=> AllPass(f, x)
  <2> SUFFICES ASSUME NEW x PROVE AllHold(f, row(x)) <=> AllPass(f, x)
    OBVIOUS
  <2>1. row(x)[a] = {x} /\ TablesOf(f) \subseteq {a}
    OBVIOUS
  <2> HIDE DEF row, a
  <2> QED BY <2>1, AllHoldPass
<1>2. FirstRows(r, db) = {row(x) : x \in ItemRows(r, 1, db)} /\ FirstRows(q, db) = {row(x) : x \in ItemRows(q, 1, db)}
  BY DEF FirstRows
<1> HIDE DEF row
<1> QED BY <1>1, <1>2

LEMMA FilteredUpTo ==
  ASSUME NEW q, Shaped(q), NEW db \in Databases, NEW r, DOMAIN r.items = 1 .. Len(q.items), NEW c, NEW f,
         \A k \in 1 .. Len(q.items) : NarrowedItem(q, r, db, c, f, k) /\ NarrowsThere(q, c, f, k) /\ NothingAdded(q, c, f, k)
  PROVE  \A i \in 1 .. Len(q.items) :
           JoinedUpTo(r, db)[i] = {j \in JoinedUpTo(q, db)[i] : AllHold(UpTo(c, f, i), j)}
<1> DEFINE n == Len(q.items)
           J == JoinedUpTo(q, db)
           H == JoinedUpTo(r, db)
           K == {i \in 0 .. n : i > 0 => H[i] = {j \in J[i] : AllHold(UpTo(c, f, i), j)}}
<1>1. n \in Nat \ {0} /\ DOMAIN q.items = 1 .. n
  BY ShapedItems
<1>2. /\ J[1] = FirstRows(q, db)
      /\ \A i \in 2 .. n : J[i] = JoinRows(J[i - 1], q.items[i], ItemRows(q, i, db), Visible(q, i - 1))
  BY <1>1, JoinedStep
<1>3. /\ H[1] = FirstRows(r, db)
      /\ \A i \in 2 .. n : H[i] = JoinRows(H[i - 1], r.items[i], ItemRows(r, i, db), Visible(r, i - 1))
  BY <1>1, JoinedStep
<1>4. \A i \in 1 .. n : AllOver(J[i], Visible(q, i))
  BY JoinedOver
<1>5. \A k \in 1 .. n : NarrowedItem(q, r, db, c, f, k) /\ NarrowsThere(q, c, f, k) /\ NothingAdded(q, c, f, k)
  OBVIOUS
<1>6. \A k \in 1 .. n : r.items[k].alias = q.items[k].alias /\ (SemiOrAnti(r.items[k]) <=> SemiOrAnti(q.items[k]))
  BY <1>5 DEF NarrowedItem, SemiOrAnti
<1>7. \A i \in 0 .. n : Visible(r, i) = Visible(q, i)
  BY <1>6, NarrowedVisible
<1>8. \A k \in 1 .. n : \A i \in Nat : i < k => q.items[k].alias \notin Visible(q, i)
  BY NotVisibleYet
<1>9. \A i \in 2 .. n : \A k \in 1 .. (i - 1) : c[k] \cup f[k] # {} =>
        SemiOrAnti(q.items[i]) \/ q.items[i].side \notin {"RIGHT", "FULL"}
  <2> SUFFICES ASSUME NEW i \in 2 .. n, NEW k \in 1 .. (i - 1), c[k] \cup f[k] # {}
               PROVE SemiOrAnti(q.items[i]) \/ q.items[i].side \notin {"RIGHT", "FULL"}
    OBVIOUS
  <2>1. k \in 1 .. n /\ k < i
    <3> HIDE DEF n
    <3> QED BY <1>1
  <2>2. NothingAdded(q, c, f, k)
    BY <1>5, <2>1
  <2> QED BY <2>1, <2>2 DEF NothingAdded
<1> HIDE DEF J, H
<1>10. K \subseteq 0 .. n /\ 0 \in K
  <2> HIDE DEF n
  <2> QED BY <1>1
<1>11. ASSUME NEW i \in 1 .. n, i - 1 \in K PROVE i \in K
  <2>1. CASE i = 1
    <3>1. NarrowedItem(q, r, db, c, f, 1) /\ NarrowsThere(q, c, f, 1)
      BY <1>5, <2>1
    <3>2. c[1] = {}
      BY <3>1 DEF NarrowsThere
    <3>3. UpTo(c, f, 1) = f[1]
      <4>1. 1 .. 1 = {1}
        OBVIOUS
      <4> QED BY <3>2, <4>1 DEF UpTo
    <3>4. FirstRows(r, db) = {j \in FirstRows(q, db) : AllHold(f[1], j)}
      BY <3>1, FirstFiltered DEF NarrowedItem
    <3> QED BY <1>2, <1>3, <2>1, <3>3, <3>4
  <2>2. CASE i # 1
    <3> DEFINE A == Visible(q, i - 1)
               left == J[i - 1]
               it == q.items[i]
               new == r.items[i]
               rows == ItemRows(q, i, db)
               few == ItemRows(r, i, db)
               early == UpTo(c, f, i - 1)
               narrow == {l \in left : AllHold(early, l)}
               g == c[i]
               h == f[i]
    <3>1. i \in 2 .. n /\ i - 1 \in 1 .. n /\ i \in Nat \ {0}
      <4> HIDE DEF n, K
      <4> QED BY <1>1, <2>2
    <3>2. H[i - 1] = narrow
      <4>1. i - 1 > 0 /\ i - 1 \in K
        BY <1>11, <3>1
      <4> HIDE DEF n
      <4> QED BY <4>1
    <3>3. H[i] = JoinRows(narrow, new, few, A) /\ J[i] = JoinRows(left, it, rows, A)
      <4>1. Visible(r, i - 1) = Visible(q, i - 1)
        <5>1. i - 1 \in 0 .. n
          <6> HIDE DEF n
          <6> QED BY <1>1, <3>1
        <5> QED BY <1>7, <5>1
      <4> QED BY <1>2, <1>3, <3>1, <3>2, <4>1
    <3>4. UpTo(c, f, i) = early \cup (g \cup h)
      BY <3>1, UpToNext
    <3>5. NarrowedItem(q, r, db, c, f, i) /\ NarrowsThere(q, c, f, i) /\ NothingAdded(q, c, f, i)
      BY <1>5
    <3>6. /\ new.alias = it.alias /\ new.side = it.side /\ new.on = it.on \cup g
          /\ (new.kind = "SEMI" <=> it.kind = "SEMI") /\ (new.kind = "ANTI" <=> it.kind = "ANTI")
          /\ few = {x \in rows : AllPass(h, x)} /\ TablesOf(h) \subseteq {it.alias}
      BY <3>5 DEF NarrowedItem
    <3>7. /\ g # {} => it.side = ""
          /\ h # {} => it.side \in {"", "RIGHT"}
          /\ g \cup h # {} => ~SemiOrAnti(it)
      BY <2>2, <3>5 DEF NarrowsThere, NothingAdded, Sideless, RightOrNone
    <3>8. early # {} => SemiOrAnti(it) \/ it.side \notin {"RIGHT", "FULL"}
      BY <1>9, <3>1 DEF UpTo
    <3>9. JoinRows(narrow, new, few, A) = {j \in JoinRows(left, it, rows, A) : AllHold(early \cup (g \cup h), j)}
      <4>1. CASE SemiOrAnti(it)
        <5>1. g = {} /\ h = {}
          BY <3>7, <4>1
        <5>2. new.on = it.on /\ few = rows /\ early \cup (g \cup h) = early
          <6>1. few = rows
            BY <3>6, <5>1 DEF AllPass
          <6> HIDE DEF new, it, few, rows, early, g, h
          <6> QED BY <3>6, <5>1, <6>1
        <5>3. JoinRows(narrow, new, rows, A) = {j \in JoinRows(left, it, rows, A) : AllHold(early, j)}
          <6> HIDE DEF new, it, few, rows, early, g, h, A, left
          <6> QED BY <3>6, <4>1, <5>2, SemiFiltered
        <5> HIDE DEF new, it, few, rows, early, g, h, A, left, narrow
        <5> QED BY <5>2, <5>3
      <4>2. CASE ~SemiOrAnti(it)
        <5>1. AllOver(left, A)
          BY <1>4, <3>1
        <5>2. it.alias \notin A
          <6>1. i - 1 \in Nat /\ i - 1 < i
            BY <3>1
          <6> QED BY <1>8, <6>1
        <5>3. TablesOf(early) \subseteq A
          <6> DEFINE m == i - 1
          <6>1. m \in Nat /\ \A k \in 1 .. m : k \in 1 .. n
            <7> HIDE DEF n
            <7> QED BY <1>1, <3>1
          <6> HIDE DEF m
          <6>2. \A k \in 1 .. m : /\ TablesOf(c[k]) \subseteq Visible(q, k) /\ TablesOf(f[k]) \subseteq {q.items[k].alias}
                                  /\ c[k] \cup f[k] # {} => ~SemiOrAnti(q.items[k])
            BY <1>5, <6>1 DEF NarrowedItem, NothingAdded
          <6>3. TablesOf(UpTo(c, f, m)) \subseteq Visible(q, m)
            BY <6>1, <6>2, UpToTables
          <6> QED BY <6>3 DEF m
        <5>4. ~SemiOrAnti(new)
          BY <3>6, <4>2 DEF SemiOrAnti
        <5> HIDE DEF new, it, few, rows, early, g, h, A, left, narrow
        <5>5. Narrows(it, new, g, h, early)
          BY <3>6, <3>7, <3>8, <4>2, <5>4 DEF Narrows
        <5> QED BY <3>6, <5>1, <5>2, <5>3, <5>5, JoinFiltered DEF narrow
      <4> QED BY <4>1, <4>2
    <3> HIDE DEF n, early, A, left, it, new, rows, few, narrow, g, h
    <3>10. H[i] = {j \in J[i] : AllHold(UpTo(c, f, i), j)}
      BY <3>3, <3>4, <3>9
    <3> QED BY <1>1, <3>10
  <2> QED BY <2>1, <2>2
<1>12. 0 .. n \subseteq K
  <2> HIDE DEF K, n
  <2> QED BY <1>1, <1>10, <1>11, InductionUpTo
<1> HIDE DEF n
<1>13. \A i \in 1 .. n : i \in K /\ i > 0
  BY <1>1, <1>12
<1> QED BY <1>13 DEF n, H, J

-----------------------------------------------------------------------------
(* What is pushed and what is left ask, together, what was asked.             *)
LEMMA PushHolds ==
  ASSUME NEW q, NEW c, Written(c), NEW nodes, WholePushed(q, c, nodes), NEW j
  PROVE  AllHold(c, j) <=> /\ AllHold(Push(q, c, nodes).left, j)
                           /\ \A n \in Push(q, c, nodes).push : AllHold(n[2], j)
<1> DEFINE s == Simplified(c)
           got == Push(q, c, nodes)
<1>1. AllHold(s, j) <=> AllHold(c, j)
  BY SimplifiedHolds
<1>2. CASE c = {}
  BY <1>2 DEF Push
<1>3. CASE c # {} /\ DnfOnly(s)
  <2>1. got = PushDnf(q, CHOOSE p \in s : TRUE, nodes)
    BY <1>3 DEF Push
  <2>2. \E p : s = {p}
    BY <1>3 DEF DnfOnly
  <2>3. (CHOOSE p \in s : TRUE) \in s
    BY <2>2
  <2> DEFINE o == CHOOSE p \in s : TRUE
  <2>4. s = {o}
    BY <2>2, <2>3
  <2>5. got.left = {o}
    BY <2>1 DEF PushDnf
  <2>6. \A n \in got.push : n[2] = s
    BY <1>3 DEF WholePushed
  <2> HIDE DEF got, s
  <2> QED BY <1>1, <2>4, <2>5, <2>6 DEF got
<1>4. CASE c # {} /\ ~DnfOnly(s)
  <2>1. got = PushCnf(q, s, nodes)
    BY <1>4 DEF Push
  <2> HIDE DEF s, got
  <2> DEFINE T(p) == TargetsOf(q, p, nodes)
             moved == {p \in s : T(p) # {}}
  <2>2. got.left = IF moved = {} THEN s ELSE (s \ moved) \cup {True}
    BY <2>1 DEF PushCnf
  <2>3. got.push = UNION {T(p) \X {{p}} : p \in moved}
    BY <2>1 DEF PushCnf
  <2>4. \A n \in got.push : \E p \in moved : n[2] = {p}
    BY <2>3
  <2>5. \A p \in moved : \E n \in got.push : n[2] = {p}
    <3> SUFFICES ASSUME NEW p \in moved PROVE \E n \in got.push : n[2] = {p}
      OBVIOUS
    <3>1. PICK t \in T(p) : TRUE
      OBVIOUS
    <3>2. <<t, {p}>> \in got.push
      BY <2>3, <3>1
    <3> QED BY <3>2
  <2>6. moved \subseteq s
    OBVIOUS
  <2>7. PredicateHolds(True, j)
    BY TrueHolds
  <2> HIDE DEF moved
  <2>8. (\A n \in got.push : AllHold(n[2], j)) <=> AllHold(moved, j)
    BY <2>4, <2>5 DEF AllHold
  <2>9. AllHold(s, j) <=> AllHold(got.left, j) /\ AllHold(moved, j)
    BY <2>2, <2>6, <2>7 DEF AllHold
  <2> QED BY <1>1, <2>8, <2>9 DEF got, s
<1> QED BY <1>2, <1>3, <1>4

\* A disjunction pushed as a whole may go there with every block.
LEMMA WholePart ==
  ASSUME NEW p, NEW S, p \in Seq(S), Len(p) > 1, NEW W \in SUBSET DOMAIN p, Conjuncts(Part(p, W)) = {p}
  PROVE  Part(p, W) = p /\ \A b \in Range(p) : \E k \in W : b = p[k]
<1> DEFINE o == Part(p, W)
<1>1. p \in Seq(Range(p))
  BY OwnRange
<1>2. Len(o) # 1
  <2> SUFFICES ASSUME Len(o) = 1 PROVE FALSE
    OBVIOUS
  <2>1. Conjuncts(o) = {<<{l}>> : l \in o[1]}
    BY DEF Conjuncts
  <2> HIDE DEF o
  <2>2. PICK l : p = <<{l}>>
    BY <2>1 DEF o
  <2>3. Len(p) = 1
    BY <2>2
  <2> QED BY <2>3
<1>3. o = p
  <2>1. Conjuncts(o) = {o}
    BY <1>2 DEF Conjuncts
  <2> HIDE DEF o
  <2> QED BY <2>1 DEF o
<1>4. \A b \in Range(o) : \E k \in W : b = p[k]
  <2> DEFINE a == Ascending(W)
  <2>1. DOMAIN p = 1 .. Len(p) /\ Len(p) \in Nat
    OBVIOUS
  <2>2. W \in SUBSET Nat /\ IsFiniteSet(W)
    <3>1. IsFiniteSet(1 .. Len(p))
      BY <2>1, FS_Interval
    <3> QED BY <2>1, <3>1, FS_Subset
  <2>3. a \in Seq(W)
    BY <2>2, AscendingEnumerates
  <2>4. o = [k \in DOMAIN a |-> p[a[k]]]
    BY DEF Part
  <2> HIDE DEF a
  <2>5. \A k \in DOMAIN a : a[k] \in W
    BY <2>3
  <2>6. DOMAIN o = DOMAIN a /\ \A k \in DOMAIN a : o[k] = p[a[k]]
    BY <2>4
  <2> HIDE DEF o
  <2> QED BY <2>5, <2>6 DEF Range
<1> QED BY <1>3, <1>4

MayGo(nodes, p, x) == \A b \in Range(p) : \E m \in nodes[BlockTables(b)] : m.alias = x
LEMMA PushedParts ==
  ASSUME NEW q, NEW c, Written(c), NEW nodes, WholePushed(q, c, nodes), NEW n \in Push(q, c, nodes).push
  PROVE  \E p \in Simplified(c) :
           /\ n[2] = {p} /\ p \in Seq(SUBSET Literal)
           /\ n[1].at = "join" => Earlier(q, n[1].alias, PredicateTables(p))
           /\ \/ n[1] \in nodes[PredicateTables(p)]
              \/ /\ MayGo(nodes, p, n[1].alias)
                 /\ \E b \in Range(p) : n[1] \in nodes[BlockTables(b)]
<1> DEFINE s == Simplified(c)
<1>1. c # {}
  BY DEF Push
<1>2. \A p \in s : p \in Seq(SUBSET Literal)
  BY SimplifiedWritten DEF Written
<1>3. CASE ~DnfOnly(s)
  <2>1. n \in PushCnf(q, s, nodes).push
    BY <1>1, <1>3 DEF Push
  <2> HIDE DEF s
  <2>2. PICK p \in s : n \in TargetsOf(q, p, nodes) \X {{p}}
    BY <2>1 DEF PushCnf
  <2>3. n[1] \in TargetsOf(q, p, nodes) /\ n[2] = {p}
    BY <2>2
  <2>4. n[1] \in nodes[PredicateTables(p)] /\ (n[1].at = "join" => Earlier(q, n[1].alias, PredicateTables(p)))
    BY <2>3 DEF TargetsOf
  <2> QED BY <1>2, <2>3, <2>4 DEF s
<1>4. CASE DnfOnly(s)
  <2> DEFINE p == CHOOSE p \in s : TRUE
             W(x) == {k \in DOMAIN p : \E m \in nodes[BlockTables(p[k])] : m.alias = x}
  <2>1. p \in s /\ s = {p} /\ Len(p) > 1
    <3>1. PICK o \in s : s = {o} /\ Len(o) > 1
      BY <1>4 DEF DnfOnly
    <3>2. p = o
      BY <3>1
    <3> QED BY <3>1, <3>2
  <2>2. n \in PushDnf(q, p, nodes).push
    BY <1>1, <1>4 DEF Push
  <2>3. n[2] = {p}
    BY <1>4, <2>1 DEF WholePushed
  <2>4. p \in Seq(SUBSET Literal)
    BY <1>2, <2>1
  <2> HIDE DEF p
  <2>5. \E m : /\ n = <<m, Conjuncts(Part(p, W(m.alias)))>>
               /\ m \in nodes[BlockTables(p[Len(p)])]
               /\ m.at = "join" => Earlier(q, m.alias, PredicateTables(Part(p, W(m.alias))))
    BY <2>2 DEF PushDnf
  <2>6. PICK m : /\ n = <<m, Conjuncts(Part(p, W(m.alias)))>>
                 /\ m \in nodes[BlockTables(p[Len(p)])]
                 /\ m.at = "join" => Earlier(q, m.alias, PredicateTables(Part(p, W(m.alias))))
    BY <2>5
  <2>7. m = n[1] /\ n[2] = Conjuncts(Part(p, W(m.alias)))
    BY <2>6
  <2> DEFINE V == W(m.alias)
  <2>8. V \in SUBSET DOMAIN p /\ \A k \in V : \E z \in nodes[BlockTables(p[k])] : z.alias = m.alias
    OBVIOUS
  <2>9. n[2] = Conjuncts(Part(p, V)) /\ (m.at = "join" => Earlier(q, m.alias, PredicateTables(Part(p, V))))
    BY <2>6, <2>7
  <2> HIDE DEF V, s
  <2>10. Part(p, V) = p /\ \A b \in Range(p) : \E k \in V : b = p[k]
    <3> DEFINE S == SUBSET Literal
    <3>1. p \in Seq(S)
      BY <2>4
    <3> HIDE DEF S
    <3>2. Conjuncts(Part(p, V)) = {p}
      BY <2>3, <2>9
    <3> QED BY <2>1, <2>8, <3>1, <3>2, WholePart
  <2>11. MayGo(nodes, p, m.alias)
    BY <2>8, <2>10 DEF MayGo
  <2>12. p[Len(p)] \in Range(p)
    <3> DEFINE S == SUBSET Literal
    <3>1. p \in Seq(S)
      BY <2>4
    <3> HIDE DEF S
    <3>2. Len(p) \in DOMAIN p
      BY <2>1, <3>1
    <3> QED BY <3>2 DEF Range
  <2> QED BY <2>1, <2>3, <2>4, <2>6, <2>7, <2>9, <2>10, <2>11, <2>12 DEF s
<1> QED BY <1>3, <1>4

-----------------------------------------------------------------------------
(* Where a predicate of the WHERE may go.                                     *)
ToJoin(q, n, x) == n = Node("join", x) /\ ItemOf(q, x) > 1 /\ Sideless(q.items[ItemOf(q, x)])
ToSelect(q, n, x) ==
    /\ n = Node("select", x) /\ ~(ItemOf(q, x) > 1 /\ Sideless(q.items[ItemOf(q, x)]))
    /\ q.items[ItemOf(q, x)].source.form # "table" /\ Pushable(q, q.items[ItemOf(q, x)])

LEMMA NodeParts ==
  ASSUME NEW at, NEW x
  PROVE  Node(at, x).at = at /\ Node(at, x).alias = x
BY DEF Node

LEMMA WhereNode ==
  ASSUME NEW q, NEW t, NEW n \in WhereNodes(q, t)
  PROVE  /\ n.alias \in t /\ n.alias \in WhereSources(q) /\ ~Blocks(q, n.alias)
         /\ \/ ToJoin(q, n, n.alias)
            \/ ToSelect(q, n, n.alias) /\ t = {n.alias}
<1> DEFINE known == t \cap WhereSources(q)
           joined == {x \in known : ItemOf(q, x) > 1 /\ Sideless(q.items[ItemOf(q, x)])}
           filtered == {x \in known \ joined : /\ t = {x} /\ q.items[ItemOf(q, x)].source.form # "table"
                                               /\ Pushable(q, q.items[ItemOf(q, x)])}
<1>1. WhereNodes(q, t) = IF \E x \in known : Blocks(q, x) THEN {}
                         ELSE {Node("join", x) : x \in joined} \cup {Node("select", x) : x \in filtered}
  BY Zenon DEF WhereNodes, Sideless
<1>2. \A x \in known : ~Blocks(q, x)
  BY <1>1
<1>3. (\E x \in joined : n = Node("join", x)) \/ \E x \in filtered : n = Node("select", x)
  BY <1>1
<1>4. CASE \E x \in joined : n = Node("join", x)
  <2>1. PICK x \in joined : n = Node("join", x)
    BY <1>4
  <2>2. n.alias = x
    BY <2>1, NodeParts
  <2> QED BY <1>2, <2>1, <2>2 DEF ToJoin
<1>5. CASE \E x \in filtered : n = Node("select", x)
  <2>1. PICK x \in filtered : n = Node("select", x)
    BY <1>5
  <2>2. n.alias = x
    BY <2>1, NodeParts
  <2> QED BY <1>2, <2>1, <2>2 DEF ToSelect
<1> QED BY <1>3, <1>4, <1>5

OneAdds(q) == AddsRows(q) = {} \/ \E i \in AddsRows(q) : AddsRows(q) = {i} /\ q.items[i].side = "RIGHT"

\* With a source that adds rows, no other one takes a predicate of the WHERE.
LEMMA NothingAddedLater ==
  ASSUME NEW q, Shaped(q), OneAdds(q), NEW k \in 1 .. Len(q.items), q.items[k].alias \in WhereSources(q),
         NEW i \in 2 .. Len(q.items), k < i
  PROVE  SemiOrAnti(q.items[i]) \/ q.items[i].side \notin {"RIGHT", "FULL"}
<1> SUFFICES ASSUME ~SemiOrAnti(q.items[i]), q.items[i].side \in {"RIGHT", "FULL"} PROVE FALSE
  OBVIOUS
<1> DEFINE n == Len(q.items)
           named == {y \in DOMAIN q.items : q.items[y].source.form \in {"table", "cte"}}
           right == {y \in 2 .. Len(q.items) : q.items[y].side = "RIGHT" /\ q.items[y].alias \in Selected(q)}
           some == IF right \cap named # {} THEN right \cap named ELSE right
<1>1. n \in Nat \ {0} /\ DOMAIN q.items = 1 .. n
  BY ShapedItems
<1>2. i \in 1 .. n /\ i \in Nat
  <2> HIDE DEF n
  <2> QED BY <1>1
<1>3. AddsRows(q) = {i} /\ q.items[i].side = "RIGHT"
  BY <1>1, <1>2 DEF OneAdds, AddsRows
<1>4. \A y \in 1 .. n : ItemOf(q, q.items[y].alias) = y
  BY ItemOfAlias
<1>5. q.items[i].alias \in Selected(q)
  <2>1. q.items[i].alias \in Aliases(q)
    BY <1>1, <1>2 DEF Aliases
  <2> QED BY <1>2, <1>4, <2>1 DEF Selected
<1>6. right = {i}
  <2>1. i \in right
    BY <1>3, <1>5
  <2>2. \A y \in right : y \in DOMAIN q.items /\ q.items[y].side = "RIGHT"
    <3>1. \A y \in 2 .. n : y \in 1 .. n
      <4> HIDE DEF n
      <4> QED BY <1>1
    <3> QED BY <1>1, <3>1
  <2>3. \A y \in right : y \in AddsRows(q)
    BY <2>2 DEF AddsRows
  <2> HIDE DEF right
  <2> QED BY <1>3, <2>1, <2>3
<1>7. WhereSources(q) = IF right = {} THEN Selected(q) ELSE {q.items[Min(some)].alias}
  BY DEF WhereSources
<1> HIDE DEF right, named
<1>8. some = {i}
  BY <1>6
<1>9. Min(some) = i
  <2> HIDE DEF some
  <2>1. \A x \in {i} : x <= i
    BY <1>2
  <2> QED BY <1>2, <1>8, <2>1 DEF Min
<1>10. q.items[k].alias = q.items[i].alias
  BY <1>6, <1>7, <1>9
<1>11. k = i
  BY <1>2, <1>10, ShapedItems
<1> QED BY <1>2, <1>11

LEMMA BlockInPredicate ==
  ASSUME NEW p
  PROVE  /\ \A b \in Range(p) : BlockTables(b) \subseteq PredicateTables(p)
         /\ \A x \in PredicateTables(p) : \E b \in Range(p) : x \in BlockTables(b)
BY DEF BlockTables, PredicateTables, Literals

WhereNodesOf(q) == [tables \in SUBSET Aliases(q) |-> WhereNodes(q, tables)]
LEMMA WherePlaces ==
  ASSUME NEW q, Shaped(q), WellFormed(q), Parsed(q), OneAdds(q), WholePushed(q, q.where, WhereNodesOf(q)),
         NEW m \in Push(q, q.where, WhereNodesOf(q)).push
  PROVE  \E k \in 1 .. Len(q.items) : \E p \in Simplified(q.where) :
           /\ m[2] = {p} /\ p \in Seq(SUBSET Literal) /\ PredicateTables(p) # {}
           /\ ~SemiOrAnti(q.items[k]) /\ q.items[k].alias \in WhereSources(q)
           /\ \/ /\ m[1] = Node("join", q.items[k].alias) /\ k > 1 /\ Sideless(q.items[k])
                 /\ PredicateTables(p) \subseteq Visible(q, k)
              \/ /\ m[1] = Node("select", q.items[k].alias) /\ PredicateTables(p) = {q.items[k].alias}
                 /\ k = 1 \/ q.items[k].side = "RIGHT"
                 /\ q.items[k].source.form # "table" /\ Pushable(q, q.items[k])
<1> DEFINE n == Len(q.items)
           nodes == WhereNodesOf(q)
           x == m[1].alias
<1>1. n \in Nat \ {0} /\ DOMAIN q.items = 1 .. n
  BY ShapedItems
<1>2. Written(q.where)
  BY DEF Parsed
<1>3. PICK p \in Simplified(q.where) :
           /\ m[2] = {p} /\ p \in Seq(SUBSET Literal)
           /\ m[1].at = "join" => Earlier(q, x, PredicateTables(p))
           /\ \/ m[1] \in nodes[PredicateTables(p)]
              \/ /\ MayGo(nodes, p, x)
                 /\ \E b \in Range(p) : m[1] \in nodes[BlockTables(b)]
  BY <1>2, PushedParts
<1>4. PredicateTables(p) \subseteq TablesOf(q.where)
  <2>1. \A c : Written(c) => InSequence(c)
    BY OwnRange DEF Written, InSequence
  <2> QED BY <1>2, <2>1, SimplifiedPredicates
<1>5. PredicateTables(p) \subseteq Visible(q, n)
  BY <1>4 DEF WellFormed
<1>6. Visible(q, n) \subseteq Aliases(q)
  BY <1>1 DEF Visible, Aliases
<1>7. \A t \in SUBSET PredicateTables(p) : nodes[t] = WhereNodes(q, t)
  BY <1>5, <1>6 DEF WhereNodesOf
<1>8. \A b \in Range(p) : BlockTables(b) \in SUBSET PredicateTables(p)
  BY BlockInPredicate
<1> HIDE DEF nodes, n
<1>9. PICK t \in SUBSET PredicateTables(p) : m[1] \in WhereNodes(q, t)
  BY <1>3, <1>7, <1>8
<1>10. /\ x \in t /\ x \in WhereSources(q) /\ ~Blocks(q, x)
       /\ ToJoin(q, m[1], x) \/ (ToSelect(q, m[1], x) /\ t = {x})
  BY <1>9, WhereNode
<1>11. PICK k \in 1 .. n : ~SemiOrAnti(q.items[k]) /\ x = q.items[k].alias
  BY <1>5, <1>10 DEF Visible
<1>12. ItemOf(q, x) = k
  BY <1>11, ItemOfAlias DEF n
<1>13. x \in PredicateTables(p)
  BY <1>10
<1> HIDE DEF x
<1>14. CASE ToJoin(q, m[1], x)
  <2>1. m[1] = Node("join", x) /\ k > 1 /\ Sideless(q.items[k])
    BY <1>12, <1>14 DEF ToJoin
  <2>2. Earlier(q, x, PredicateTables(p))
    BY <1>3, <2>1, NodeParts
  <2>3. PredicateTables(p) \subseteq Visible(q, k)
    <3> SUFFICES ASSUME NEW y \in PredicateTables(p) PROVE y \in Visible(q, k)
      OBVIOUS
    <3>1. PICK i \in 1 .. n : ~SemiOrAnti(q.items[i]) /\ y = q.items[i].alias
      BY <1>5 DEF Visible
    <3>2. ItemOf(q, y) = i
      BY <3>1, ItemOfAlias DEF n
    <3>3. i <= k
      <4>1. CASE y = x
        BY <1>1, <1>12, <3>2, <4>1
      <4>2. CASE y # x
        BY <1>1, <1>12, <2>2, <3>2, <4>2 DEF Earlier
      <4> QED BY <4>1, <4>2
    <3>4. i \in 1 .. k
      BY <1>1, <3>3
    <3> QED BY <3>1, <3>4 DEF Visible
  <2> QED BY <1>3, <1>10, <1>11, <1>13, <2>1, <2>3 DEF n
<1>15. CASE ToSelect(q, m[1], x) /\ t = {x}
  <2>1. m[1] = Node("select", x) /\ ~(k > 1 /\ Sideless(q.items[k]))
        /\ q.items[k].source.form # "table" /\ Pushable(q, q.items[k])
    BY <1>12, <1>15 DEF ToSelect
  <2>2. k = 1 \/ q.items[k].side = "RIGHT"
    <3>1. k = 1 \/ k > 1
      BY <1>1
    <3>2. k > 1 => Sideless(q.items[k]) \/ q.items[k].side = "RIGHT"
      BY <1>10, <1>12, Zenon DEF Blocks, Sideless
    <3> QED BY <2>1, <3>1, <3>2
  <2>3. PredicateTables(p) = {x}
    <3>1. CASE m[1] \in nodes[PredicateTables(p)]
      <4>1. m[1] \in WhereNodes(q, PredicateTables(p))
        BY <1>7, <3>1
      <4>2. ~ToJoin(q, m[1], x)
        BY <1>12, <2>1 DEF ToJoin
      <4> QED BY <4>1, <4>2, WhereNode DEF x
    <3>2. CASE MayGo(nodes, p, x)
      <4>1. ASSUME NEW b \in Range(p) PROVE BlockTables(b) = {x}
        <5>1. PICK z \in nodes[BlockTables(b)] : z.alias = x
          BY <3>2 DEF MayGo
        <5>2. z \in WhereNodes(q, BlockTables(b))
          BY <1>7, <1>8, <5>1
        <5>3. ~ToJoin(q, z, x)
          BY <1>12, <2>1 DEF ToJoin
        <5> QED BY <5>1, <5>2, <5>3, WhereNode
      <4> QED BY <1>13, <4>1, BlockInPredicate
    <3> QED BY <1>3, <3>1, <3>2
  <2> QED BY <1>3, <1>10, <1>11, <1>13, <2>1, <2>2, <2>3 DEF n
<1> QED BY <1>10, <1>14, <1>15

-----------------------------------------------------------------------------
(* What stands behind an item after predicates are added to the SELECTs.      *)
LEMMA PushedItemParts ==
  ASSUME NEW q, NEW it, ItemShaped(q, it), NEW push
  PROVE  LET new == PushedItem(push, it)
         IN  /\ new.alias = it.alias /\ new.side = it.side
             /\ (new.kind = "SEMI" <=> it.kind = "SEMI") /\ (new.kind = "ANTI" <=> it.kind = "ANTI")
             /\ new.on = it.on \cup PushedTo(push, "join", it.alias)
             /\ new.source = IF it.source.form = "select" THEN AddBody(it.source, PushedTo(push, "select", it.alias))
                             ELSE it.source
<1> DEFINE c == PushedTo(push, "join", it.alias)
           d == PushedTo(push, "select", it.alias)
           on == it.on \cup c
           kind == IF c # {} /\ it.kind = "CROSS" THEN "" ELSE it.kind
           source == IF it.source.form = "select" THEN AddBody(it.source, d) ELSE it.source
           new == PushedItem(push, it)
<1>1. it = [alias |-> it.alias, side |-> it.side, kind |-> it.kind, source |-> it.source, on |-> it.on]
  BY DEF ItemShaped, Item
<1>2. AddOn(it, c) = [it EXCEPT !.on = on, !.kind = kind]
  BY <1>1 DEF AddOn
<1> HIDE DEF c, d
<1>3. AddOn(it, c) = [alias |-> it.alias, side |-> it.side, kind |-> kind, source |-> it.source, on |-> on]
  <2> HIDE DEF kind, on
  <2> QED BY <1>1, <1>2
<1>4. new = [AddOn(it, c) EXCEPT !.source = IF @.form = "select" THEN AddBody(@, d) ELSE @]
  BY DEF PushedItem, c, d
<1>5. new = [alias |-> it.alias, side |-> it.side, kind |-> kind, source |-> source, on |-> on]
  <2> HIDE DEF kind, on, new
  <2> QED BY <1>3, <1>4
<1>6. (kind = "SEMI" <=> it.kind = "SEMI") /\ (kind = "ANTI" <=> it.kind = "ANTI")
  BY Zenon
<1> HIDE DEF new, kind, on, source
<1>7. new.alias = it.alias /\ new.side = it.side /\ new.kind = kind /\ new.on = on /\ new.source = source
  BY <1>5
<1> QED BY <1>6, <1>7 DEF new, on, source, c, d

LEMMA AppliedCtes ==
  ASSUME NEW q, NEW push,
         q = [items |-> q.items, where |-> q.where, uses |-> q.uses, recursive |-> q.recursive, ctes |-> q.ctes]
  PROVE  Apply(q, push).ctes =
           [n \in DOMAIN q.ctes |->
              AddBody(q.ctes[n], UNION {PushedTo(push, "select", x) :
                                          x \in {it.alias : it \in {it \in Range(q.items) : it.source = CteSource(n)}}})]
<1> DEFINE cteOf(name) == {it.alias : it \in {it \in Range(q.items) : it.source = CteSource(name)}}
           items == [i \in DOMAIN q.items |-> PushedItem(push, q.items[i])]
           ctes == [n \in DOMAIN q.ctes |-> AddBody(q.ctes[n], UNION {PushedTo(push, "select", x) : x \in cteOf(n)})]
<1>1. Apply(q, push) = [q EXCEPT !.items = items, !.ctes = ctes]
  BY DEF Apply, PushedTo, PushedItem
<1> HIDE DEF items, ctes
<1>2. Apply(q, push) = [items |-> items, where |-> q.where, uses |-> q.uses, recursive |-> q.recursive, ctes |-> ctes]
  BY <1>1
<1>3. Apply(q, push).ctes = ctes
  BY <1>2
<1> QED BY <1>3 DEF ctes

LEMMA SourceForms ==
  ASSUME NEW q, NEW it, ItemShaped(q, it)
  PROVE  /\ it.source.form \in {"table", "cte", "select", "union"}
         /\ it.source.form = "cte" => it.source.is \in DOMAIN q.ctes /\ it.source = CteSource(it.source.is)
         /\ it.source.form \in {"select", "union"} => BodyShaped(it.source)
<1>1. SourceShaped(q, it.source)
  BY DEF ItemShaped
<1>2. \A t : TableSource(t).form = "table" /\ CteSource(t).form = "cte" /\ CteSource(t).is = t
  BY DEF TableSource, CteSource, Source
<1>3. \A body : BodyShaped(body) => body.form \in {"select", "union"}
  BY DEF BodyShaped
<1> QED BY <1>1, <1>2, <1>3 DEF SourceShaped

\* A CTE that is filtered is one that nothing else reads.
ReadOnce(q, push) ==
    \A k, j \in DOMAIN q.items :
      /\ PushedTo(push, "select", q.items[k].alias) # {} /\ q.items[k].source.form = "cte"
      /\ q.items[j].source = q.items[k].source
      => j = k

LEMMA AppliedBody ==
  ASSUME NEW q, Shaped(q), NEW push, ReadOnce(q, push), NEW i \in DOMAIN q.items, NEW r,
         r.items[i].source = Apply(q, push).items[i].source, r.ctes = Apply(q, push).ctes
  PROVE  BodyOf(r, r.items[i]) = IF q.items[i].source.form \in {"select", "cte"}
                                 THEN AddBody(BodyOf(q, q.items[i]), PushedTo(push, "select", q.items[i].alias))
                                 ELSE BodyOf(q, q.items[i])
<1> DEFINE it == q.items[i]
           f(x) == PushedTo(push, "select", x)
           new == r.items[i]
<1>1. q = [items |-> q.items, where |-> q.where, uses |-> q.uses, recursive |-> q.recursive, ctes |-> q.ctes]
      /\ ItemShaped(q, it)
  BY DEF Shaped
<1>2. new.source = IF it.source.form = "select" THEN AddBody(it.source, f(it.alias)) ELSE it.source
  <2>1. Apply(q, push).items = [k \in DOMAIN q.items |-> PushedItem(push, q.items[k])]
    BY <1>1, Applied
  <2> QED BY <1>1, <2>1, PushedItemParts
<1> HIDE DEF it, new, f
<1>3. CASE it.source.form = "select"
  <2>1. BodyShaped(it.source)
    BY <1>1, <1>3, SourceForms
  <2>2. new.source = AddBody(it.source, f(it.alias)) /\ new.source.form = "select"
    BY <1>2, <1>3, <2>1, AddBodyShaped
  <2>3. BodyOf(r, new) = new.source /\ BodyOf(q, it) = it.source
    BY <1>3, <2>2 DEF BodyOf
  <2> QED BY <1>3, <2>2, <2>3 DEF it, new, f
<1>4. CASE it.source.form = "cte"
  <2> DEFINE name == it.source.is
             those == {y.alias : y \in {y \in Range(q.items) : y.source = CteSource(name)}}
  <2>1. name \in DOMAIN q.ctes /\ it.source = CteSource(name)
    BY <1>1, <1>4, SourceForms
  <2>2. new.source = it.source
    BY <1>2, <1>4
  <2>3. BodyOf(r, new) = r.ctes[name] /\ BodyOf(q, it) = q.ctes[name]
    BY <1>4, <2>2 DEF BodyOf
  <2>4. r.ctes[name] = AddBody(q.ctes[name], UNION {f(x) : x \in those})
    <3> DEFINE u(n) == UNION {PushedTo(push, "select", x) :
                                x \in {y.alias : y \in {y \in Range(q.items) : y.source = CteSource(n)}}}
    <3>1. Apply(q, push).ctes = [n \in DOMAIN q.ctes |-> AddBody(q.ctes[n], u(n))]
      BY <1>1, AppliedCtes
    <3>2. u(name) = UNION {f(x) : x \in those}
      BY DEF f
    <3> HIDE DEF u, those, name
    <3>3. r.ctes[name] = AddBody(q.ctes[name], u(name))
      BY <2>1, <3>1
    <3> QED BY <3>2, <3>3
  <2>5. \A x \in those : \E j \in DOMAIN q.items : x = q.items[j].alias /\ q.items[j].source = it.source
    BY <2>1 DEF Range
  <2>6. it.alias \in those
    BY <2>1 DEF Range, it
  <2>7. \A x \in those : f(x) # {} => x = it.alias
    <3> SUFFICES ASSUME NEW x \in those, f(x) # {} PROVE x = it.alias
      OBVIOUS
    <3>1. PICK j \in DOMAIN q.items : x = q.items[j].alias /\ q.items[j].source = it.source
      BY <2>5
    <3>2. i = j
      BY <1>4, <3>1 DEF ReadOnce, f, it
    <3> QED BY <3>1, <3>2 DEF it
  <2> HIDE DEF those, name
  <2>8. UNION {f(x) : x \in those} = f(it.alias)
    BY <2>6, <2>7
  <2> QED BY <1>4, <2>3, <2>4, <2>8 DEF it, new, f
<1>5. CASE it.source.form \notin {"select", "cte"}
  <2>1. new.source = it.source
    BY <1>2, <1>5
  <2> QED BY <1>5, <2>1 DEF BodyOf, it, new
<1> QED BY <1>3, <1>4, <1>5

LEMMA BodyForms ==
  ASSUME NEW q, Shaped(q), NEW i \in DOMAIN q.items, BodyOf(q, q.items[i]).form = "select"
  PROVE  BodyShaped(BodyOf(q, q.items[i])) /\ q.items[i].source.form \in {"select", "cte"}
<1> DEFINE it == q.items[i]
<1>1. ItemShaped(q, it) /\ \A name \in DOMAIN q.ctes : BodyShaped(q.ctes[name])
  BY DEF Shaped
<1> HIDE DEF it
<1>2. CASE it.source.form = "cte"
  BY <1>1, <1>2, SourceForms DEF BodyOf, it
<1>3. CASE it.source.form # "cte"
  <2>1. BodyOf(q, it) = it.source
    BY <1>3 DEF BodyOf
  <2> QED BY <1>1, <2>1, SourceForms DEF it
<1> QED BY <1>2, <1>3

LEMMA AppliedRows ==
  ASSUME NEW q, Shaped(q), NEW push, ReadOnce(q, push), NEW i \in DOMAIN q.items, NEW r,
         r.items[i].source = Apply(q, push).items[i].source, r.ctes = Apply(q, push).ctes,
         PushedTo(push, "select", q.items[i].alias) # {} =>
           /\ BodyOf(q, q.items[i]).form = "select" /\ RowsApart(BodyOf(q, q.items[i]).is)
           /\ AboutSome(PushedTo(push, "select", q.items[i].alias)),
         NEW db
  PROVE  ItemRows(r, i, db) = {x \in ItemRows(q, i, db) : AllPass(PushedTo(push, "select", q.items[i].alias), x)}
<1> DEFINE body == BodyOf(q, q.items[i])
           f == PushedTo(push, "select", q.items[i].alias)
<1>1. BodyOf(r, r.items[i]) = IF q.items[i].source.form \in {"select", "cte"} THEN AddBody(body, f) ELSE body
  BY AppliedBody
<1>2. ItemRows(r, i, db) = RowsOf(BodyOf(r, r.items[i]), db) /\ ItemRows(q, i, db) = RowsOf(body, db)
  BY DEF ItemRows
<1>3. CASE f = {}
  <2>1. BodyOf(r, r.items[i]) = body
    BY <1>1, <1>3 DEF AddBody
  <2>2. \A x : AllPass(f, x)
    BY <1>3 DEF AllPass
  <2> HIDE DEF f, body
  <2>3. ItemRows(r, i, db) = ItemRows(q, i, db)
    BY <1>2, <2>1
  <2> QED BY <2>2, <2>3 DEF f
<1>4. CASE f # {}
  <2>1. body.form = "select" /\ RowsApart(body.is) /\ AboutSome(f)
    BY <1>4
  <2>2. BodyShaped(body) /\ q.items[i].source.form \in {"select", "cte"}
    BY <2>1, BodyForms
  <2>3. BodyOf(r, r.items[i]) = AddBody(body, f)
    BY <1>1, <2>2
  <2> HIDE DEF f, body
  <2>4. RowsOf(AddBody(body, f), db) = {x \in RowsOf(body, db) : \A p \in f : PassesRow(p, x)}
    BY <2>1, <2>2, BodyFiltered
  <2> QED BY <1>2, <2>3, <2>4 DEF AllPass, f
<1> QED BY <1>3, <1>4

LEMMA PushableOnce ==
  ASSUME NEW q, Shaped(q), NEW k \in DOMAIN q.items, NEW j \in DOMAIN q.items, Pushable(q, q.items[k]),
         q.items[k].source.form = "cte", q.items[j].source = q.items[k].source
  PROVE  j = k
<1> DEFINE those == {i \in DOMAIN q.items : q.items[i].source = q.items[k].source}
<1>1. Cardinality(those) < 2
  BY DEF Pushable, RefCount
<1>2. IsFiniteSet(those)
  <2>1. Len(q.items) \in Nat /\ DOMAIN q.items = 1 .. Len(q.items)
    BY ShapedItems
  <2>2. IsFiniteSet(DOMAIN q.items)
    BY <2>1, FS_Interval
  <2> QED BY <2>2, FS_Subset
<1>3. j \in those /\ k \in those
  OBVIOUS
<1> HIDE DEF those
<1>4. Cardinality(those) \in Nat /\ Cardinality(those) # 0
  BY <1>2, <1>3, FS_CardinalityType, FS_EmptySet
<1>5. Cardinality(those) = 1
  BY <1>1, <1>4
<1>6. PICK x : those = {x}
  BY <1>2, <1>5, FS_Singleton
<1> QED BY <1>3, <1>6

-----------------------------------------------------------------------------
(* The WHERE, pushed.                                                         *)
WherePushed(q) == Push(q, q.where, WhereNodesOf(q)).push
WhereLeft(q) == Push(q, q.where, WhereNodesOf(q)).left
WhereCare(q) == OneAdds(q) /\ WholePushed(q, q.where, WhereNodesOf(q))
JoinPart(q, k) == PushedTo(WherePushed(q), "join", q.items[k].alias)
SelectPart(q, k) == PushedTo(WherePushed(q), "select", q.items[k].alias)

LEMMA NodesApart ==
  ASSUME NEW x, NEW y
  PROVE  Node("join", x) # Node("select", y) /\ (Node("join", x) = Node("join", y) => x = y)
         /\ (Node("select", x) = Node("select", y) => x = y)
<1>1. Node("join", x).at = "join" /\ Node("select", y).at = "select"
  BY NodeParts
<1>2. \A at : Node(at, x).alias = x /\ Node(at, y).alias = y
  BY NodeParts
<1> QED BY <1>1, <1>2

LEMMA WhereToJoin ==
  ASSUME NEW q, Shaped(q), WellFormed(q), Parsed(q), WhereCare(q), NEW k \in 1 .. Len(q.items), NEW p \in JoinPart(q, k)
  PROVE  /\ p \in Simplified(q.where) /\ p \in Seq(SUBSET Literal) /\ PredicateTables(p) \subseteq Visible(q, k)
         /\ ~SemiOrAnti(q.items[k]) /\ q.items[k].alias \in WhereSources(q) /\ k > 1 /\ Sideless(q.items[k])
<1>1. PICK m \in WherePushed(q) : m[1] = Node("join", q.items[k].alias) /\ p \in m[2]
  BY DEF JoinPart, PushedTo
<1>2. PICK i \in 1 .. Len(q.items), o \in Simplified(q.where) :
           /\ m[2] = {o} /\ o \in Seq(SUBSET Literal) /\ PredicateTables(o) # {}
           /\ ~SemiOrAnti(q.items[i]) /\ q.items[i].alias \in WhereSources(q)
           /\ \/ /\ m[1] = Node("join", q.items[i].alias) /\ i > 1 /\ Sideless(q.items[i])
                 /\ PredicateTables(o) \subseteq Visible(q, i)
              \/ /\ m[1] = Node("select", q.items[i].alias) /\ PredicateTables(o) = {q.items[i].alias}
                 /\ i = 1 \/ q.items[i].side = "RIGHT"
                 /\ q.items[i].source.form # "table" /\ Pushable(q, q.items[i])
  BY <1>1, WherePlaces DEF WhereCare, WherePushed
<1>3. m[1] # Node("select", q.items[i].alias)
  BY <1>1, NodesApart
<1>4. m[1] = Node("join", q.items[i].alias) /\ i > 1 /\ Sideless(q.items[i]) /\ PredicateTables(o) \subseteq Visible(q, i)
  BY <1>2, <1>3
<1>5. q.items[i].alias = q.items[k].alias
  BY <1>1, <1>4, NodesApart
<1>6. i = k
  BY <1>5, ShapedItems
<1> QED BY <1>1, <1>2, <1>4, <1>6

LEMMA WhereToSelect ==
  ASSUME NEW q, Shaped(q), WellFormed(q), Parsed(q), WhereCare(q), NEW k \in 1 .. Len(q.items), NEW p \in SelectPart(q, k)
  PROVE  /\ p \in Simplified(q.where) /\ p \in Seq(SUBSET Literal) /\ PredicateTables(p) = {q.items[k].alias}
         /\ ~SemiOrAnti(q.items[k]) /\ q.items[k].alias \in WhereSources(q)
         /\ k = 1 \/ q.items[k].side = "RIGHT"
         /\ q.items[k].source.form # "table" /\ Pushable(q, q.items[k])
<1>1. PICK m \in WherePushed(q) : m[1] = Node("select", q.items[k].alias) /\ p \in m[2]
  BY DEF SelectPart, PushedTo
<1>2. PICK i \in 1 .. Len(q.items), o \in Simplified(q.where) :
           /\ m[2] = {o} /\ o \in Seq(SUBSET Literal) /\ PredicateTables(o) # {}
           /\ ~SemiOrAnti(q.items[i]) /\ q.items[i].alias \in WhereSources(q)
           /\ \/ /\ m[1] = Node("join", q.items[i].alias) /\ i > 1 /\ Sideless(q.items[i])
                 /\ PredicateTables(o) \subseteq Visible(q, i)
              \/ /\ m[1] = Node("select", q.items[i].alias) /\ PredicateTables(o) = {q.items[i].alias}
                 /\ i = 1 \/ q.items[i].side = "RIGHT"
                 /\ q.items[i].source.form # "table" /\ Pushable(q, q.items[i])
  BY <1>1, WherePlaces DEF WhereCare, WherePushed
<1>3. m[1] # Node("join", q.items[i].alias)
  BY <1>1, NodesApart
<1>4. /\ m[1] = Node("select", q.items[i].alias) /\ PredicateTables(o) = {q.items[i].alias}
      /\ i = 1 \/ q.items[i].side = "RIGHT"
      /\ q.items[i].source.form # "table" /\ Pushable(q, q.items[i])
  BY <1>2, <1>3
<1>5. q.items[i].alias = q.items[k].alias
  BY <1>1, <1>4, NodesApart
<1>6. i = k
  BY <1>5, ShapedItems
<1> QED BY <1>1, <1>2, <1>4, <1>6

LEMMA WhereGoes ==
  ASSUME NEW q, Shaped(q), WellFormed(q), Parsed(q), WhereCare(q), NEW m \in WherePushed(q)
  PROVE  \E k \in 1 .. Len(q.items) : m[2] \subseteq JoinPart(q, k) \cup SelectPart(q, k)
<1>1. \E k \in 1 .. Len(q.items) : m[1] = Node("join", q.items[k].alias) \/ m[1] = Node("select", q.items[k].alias)
  BY WherePlaces DEF WhereCare, WherePushed
<1> QED BY <1>1 DEF JoinPart, SelectPart, PushedTo

LEMMA WhereSelectRows ==
  ASSUME NEW q, Shaped(q), WellFormed(q), Parsed(q), PushdownCare(q), WhereCare(q), NEW k \in 1 .. Len(q.items),
         SelectPart(q, k) # {}
  PROVE  /\ BodyOf(q, q.items[k]).form = "select" /\ RowsApart(BodyOf(q, q.items[k]).is) /\ AboutSome(SelectPart(q, k))
<1> DEFINE it == q.items[k]
           body == BodyOf(q, it)
<1>1. it \in Range(q.items)
  BY ShapedItems DEF Range
<1>2. Pushable(q, it)
  BY WhereToSelect
<1>3. AggregatesAlone(body.is)
  BY <1>1, <1>2 DEF PushdownCare
<1>4. Windowless(body)
  BY <1>1 DEF Parsed
<1> HIDE DEF it
<1>5. body.form = "select" /\ body.is.group = {} /\ ~body.is.limit /\ ~HasWindow(body.is)
  BY <1>2 DEF Pushable
<1>6. RowsApart(body.is)
  BY <1>3, <1>4, <1>5 DEF RowsApart, Windowless
<1>7. AboutSome(SelectPart(q, k))
  <2> SUFFICES ASSUME NEW p \in SelectPart(q, k) PROVE p \in Seq(SUBSET Literal) /\ Literals(p) # {}
    BY DEF AboutSome
  <2>1. p \in Seq(SUBSET Literal) /\ PredicateTables(p) = {q.items[k].alias}
    BY WhereToSelect
  <2>2. Literals(p) # {}
    BY <2>1 DEF PredicateTables, BlockTables
  <2> QED BY <2>1, <2>2
<1> QED BY <1>5, <1>6, <1>7 DEF it

LEMMA WhereReadOnce ==
  ASSUME NEW q, Shaped(q), WellFormed(q), Parsed(q), WhereCare(q)
  PROVE  ReadOnce(q, WherePushed(q))
<1> SUFFICES ASSUME NEW k \in DOMAIN q.items, NEW j \in DOMAIN q.items,
                    PushedTo(WherePushed(q), "select", q.items[k].alias) # {}, q.items[k].source.form = "cte",
                    q.items[j].source = q.items[k].source
             PROVE  j = k
  BY DEF ReadOnce
<1>1. k \in 1 .. Len(q.items)
  BY ShapedItems
<1>2. Pushable(q, q.items[k])
  BY <1>1, WhereToSelect DEF SelectPart
<1> QED BY <1>2, PushableOnce

\* What pushing the WHERE leaves of the query.
LEMMA PushWhereParts ==
  ASSUME NEW q, Shaped(q)
  PROVE  /\ PushWhere(q).items = Apply(q, WherePushed(q)).items /\ PushWhere(q).ctes = Apply(q, WherePushed(q)).ctes
         /\ PushWhere(q).where = WhereLeft(q) /\ PushWhere(q).uses = q.uses
         /\ DOMAIN PushWhere(q).items = 1 .. Len(q.items) /\ Len(PushWhere(q).items) = Len(q.items)
<1> DEFINE push == WherePushed(q)
           i == Apply(q, push).items
           w == q.where
           u == q.uses
           v == q.recursive
           c == Apply(q, push).ctes
           g == WhereLeft(q)
           n == Len(q.items)
<1>1. q = [items |-> q.items, where |-> q.where, uses |-> q.uses, recursive |-> q.recursive, ctes |-> q.ctes]
  BY DEF Shaped
<1>2. PushWhere(q) = [Apply(q, push) EXCEPT !.where = g]
  BY DEF PushWhere, WherePushed, WhereLeft, WhereNodesOf
<1>3. i = [k \in DOMAIN q.items |-> PushedItem(push, q.items[k])]
  BY <1>1, Applied
<1>4. n \in Nat /\ DOMAIN q.items = 1 .. n
  BY ShapedItems
<1> HIDE DEF push
<1>5. Apply(q, push) = [items |-> i, where |-> w, uses |-> u, recursive |-> v, ctes |-> c]
  BY <1>1, Applied
<1> HIDE DEF i, w, u, v, c, g, n
<1>6. PushWhere(q) = [items |-> i, where |-> g, uses |-> u, recursive |-> v, ctes |-> c]
  BY <1>2, <1>5
<1>7. PushWhere(q).items = i /\ PushWhere(q).where = g /\ PushWhere(q).uses = u /\ PushWhere(q).ctes = c
  BY <1>6
<1>8. DOMAIN i = 1 .. n /\ Len(i) = n
  BY <1>3, <1>4
<1> QED BY <1>7, <1>8 DEF push, i, u, c, g, n

LEMMA WhereNarrows ==
  ASSUME NEW q, Shaped(q), WellFormed(q), Parsed(q), PushdownCare(q), WhereCare(q), NEW db,
         NEW c, NEW f, c = [k \in 1 .. Len(q.items) |-> JoinPart(q, k)], f = [k \in 1 .. Len(q.items) |-> SelectPart(q, k)],
         NEW k \in 1 .. Len(q.items)
  PROVE  NarrowedItem(q, PushWhere(q), db, c, f, k) /\ NarrowsThere(q, c, f, k) /\ NothingAdded(q, c, f, k)
<1> DEFINE r == PushWhere(q)
           it == q.items[k]
           new == r.items[k]
           push == WherePushed(q)
<1>1. c[k] = JoinPart(q, k) /\ f[k] = SelectPart(q, k)
  OBVIOUS
<1>2. k \in DOMAIN q.items /\ ItemShaped(q, it)
  BY ShapedItems
<1>3. new = PushedItem(push, it) /\ r.ctes = Apply(q, push).ctes /\ r.items = Apply(q, push).items
  <2>1. q = [items |-> q.items, where |-> q.where, uses |-> q.uses, recursive |-> q.recursive, ctes |-> q.ctes]
    BY DEF Shaped
  <2>2. Apply(q, push).items = [x \in DOMAIN q.items |-> PushedItem(push, q.items[x])]
    BY <2>1, Applied
  <2>3. r.items = Apply(q, push).items /\ r.ctes = Apply(q, push).ctes
    BY PushWhereParts
  <2> QED BY <1>2, <2>2, <2>3
<1>4. /\ new.alias = it.alias /\ new.side = it.side
      /\ (new.kind = "SEMI" <=> it.kind = "SEMI") /\ (new.kind = "ANTI" <=> it.kind = "ANTI")
      /\ new.on = it.on \cup c[k]
  BY <1>1, <1>2, <1>3, PushedItemParts DEF JoinPart
<1>5. ItemRows(r, k, db) = {x \in ItemRows(q, k, db) : AllPass(f[k], x)}
  <2>1. ReadOnce(q, push)
    BY WhereReadOnce
  <2>2. PushedTo(push, "select", q.items[k].alias) # {} =>
           /\ BodyOf(q, q.items[k]).form = "select" /\ RowsApart(BodyOf(q, q.items[k]).is)
           /\ AboutSome(PushedTo(push, "select", q.items[k].alias))
    BY WhereSelectRows DEF SelectPart
  <2>3. r.items[k].source = Apply(q, push).items[k].source /\ r.ctes = Apply(q, push).ctes /\ k \in DOMAIN q.items
    BY <1>2, <1>3
  <2> HIDE DEF r, push
  <2>4. ItemRows(r, k, db) = {x \in ItemRows(q, k, db) : AllPass(PushedTo(push, "select", q.items[k].alias), x)}
    BY <2>1, <2>2, <2>3, AppliedRows
  <2> QED BY <1>1, <2>4 DEF SelectPart, push
<1>6. TablesOf(c[k]) \subseteq Visible(q, k)
  <2>1. \A p \in JoinPart(q, k) : PredicateTables(p) \subseteq Visible(q, k)
    BY WhereToJoin
  <2> QED BY <1>1, <2>1, TablesByPredicate
<1>7. TablesOf(f[k]) \subseteq {it.alias}
  <2>1. \A p \in SelectPart(q, k) : PredicateTables(p) = {it.alias}
    BY WhereToSelect
  <2> QED BY <1>1, <2>1, TablesByPredicate
<1>8. NarrowedItem(q, r, db, c, f, k)
  BY <1>4, <1>5, <1>6, <1>7 DEF NarrowedItem
<1>9. NarrowsThere(q, c, f, k)
  <2>1. c[k] # {} => k > 1 /\ Sideless(it)
    BY <1>1, WhereToJoin
  <2>2. f[k] # {} => k = 1 \/ it.side = "RIGHT"
    BY <1>1, WhereToSelect
  <2>3. it.side = "RIGHT" => RightOrNone(it)
    BY Zenon DEF RightOrNone
  <2> QED BY <2>1, <2>2, <2>3 DEF NarrowsThere
<1>10. c[k] \cup f[k] # {} => ~SemiOrAnti(it) /\ it.alias \in WhereSources(q)
  <2>1. c[k] # {} => ~SemiOrAnti(it) /\ it.alias \in WhereSources(q)
    BY <1>1, WhereToJoin
  <2>2. f[k] # {} => ~SemiOrAnti(it) /\ it.alias \in WhereSources(q)
    BY <1>1, WhereToSelect
  <2> QED BY <2>1, <2>2
<1>11. NothingAdded(q, c, f, k)
  <2>1. OneAdds(q)
    BY DEF WhereCare
  <2> QED BY <1>10, <2>1, NothingAddedLater DEF NothingAdded
<1> QED BY <1>8, <1>9, <1>11

LEMMA PushWhereKept ==
  ASSUME NEW q, Shaped(q), WellFormed(q), Parsed(q), PushdownCare(q), WhereCare(q), NEW db \in Databases
  PROVE  Kept(PushWhere(q), db) = Kept(q, db)
<1> DEFINE n == Len(q.items)
           r == PushWhere(q)
           c == [k \in 1 .. n |-> JoinPart(q, k)]
           f == [k \in 1 .. n |-> SelectPart(q, k)]
<1>1. n \in Nat \ {0}
  BY ShapedItems
<1>2. DOMAIN r.items = 1 .. n /\ Len(r.items) = n /\ r.where = WhereLeft(q)
  BY PushWhereParts
<1> HIDE DEF r
<1>3. \A k \in 1 .. n : NarrowedItem(q, r, db, c, f, k) /\ NarrowsThere(q, c, f, k) /\ NothingAdded(q, c, f, k)
  <2> SUFFICES ASSUME NEW k \in 1 .. n
               PROVE NarrowedItem(q, r, db, c, f, k) /\ NarrowsThere(q, c, f, k) /\ NothingAdded(q, c, f, k)
    OBVIOUS
  <2> HIDE DEF c, f
  <2> QED BY WhereNarrows DEF r, c, f
<1>4. \A k \in 1 .. n : c[k] = JoinPart(q, k) /\ f[k] = SelectPart(q, k)
  OBVIOUS
<1> HIDE DEF c, f
<1>5. Joined(r, db) = {j \in Joined(q, db) : AllHold(UpTo(c, f, n), j)}
  <2>1. JoinedUpTo(r, db)[n] = {j \in JoinedUpTo(q, db)[n] : AllHold(UpTo(c, f, n), j)}
    <3>1. \A i \in 1 .. n : JoinedUpTo(r, db)[i] = {j \in JoinedUpTo(q, db)[i] : AllHold(UpTo(c, f, i), j)}
      BY <1>2, <1>3, FilteredUpTo
    <3> HIDE DEF n
    <3> QED BY <1>1, <3>1
  <2> QED BY <1>2, <2>1 DEF Joined
<1>6. ASSUME NEW j PROVE AllHold(q.where, j) <=> AllHold(r.where, j) /\ AllHold(UpTo(c, f, n), j)
  <2>1. Written(q.where) /\ WholePushed(q, q.where, WhereNodesOf(q))
    BY DEF Parsed, WhereCare
  <2>2. AllHold(q.where, j) <=> AllHold(r.where, j) /\ \A m \in WherePushed(q) : AllHold(m[2], j)
    <3>1. AllHold(q.where, j) <=> /\ AllHold(Push(q, q.where, WhereNodesOf(q)).left, j)
                                  /\ \A m \in Push(q, q.where, WhereNodesOf(q)).push : AllHold(m[2], j)
      BY <2>1, PushHolds
    <3> QED BY <1>2, <3>1 DEF WherePushed, WhereLeft
  <2>3. \A m \in WherePushed(q) : m[2] \subseteq UpTo(c, f, n)
    <3> SUFFICES ASSUME NEW m \in WherePushed(q) PROVE m[2] \subseteq UpTo(c, f, n)
      OBVIOUS
    <3>1. PICK k \in 1 .. n : m[2] \subseteq JoinPart(q, k) \cup SelectPart(q, k)
      BY WhereGoes
    <3> QED BY <1>4, <3>1 DEF UpTo
  <2>4. \A p \in UpTo(c, f, n) : \E m \in WherePushed(q) : p \in m[2]
    <3> SUFFICES ASSUME NEW p \in UpTo(c, f, n) PROVE \E m \in WherePushed(q) : p \in m[2]
      OBVIOUS
    <3>1. PICK k \in 1 .. n : p \in JoinPart(q, k) \cup SelectPart(q, k)
      BY <1>4 DEF UpTo
    <3> QED BY <3>1 DEF JoinPart, SelectPart, PushedTo
  <2>5. (\A m \in WherePushed(q) : AllHold(m[2], j)) <=> AllHold(UpTo(c, f, n), j)
    BY <2>3, <2>4 DEF AllHold
  <2> QED BY <2>2, <2>5
<1>7. \A s : Kept(s, db) = {j \in Joined(s, db) : AllHold(s.where, j)}
  BY HoldsFields DEF Kept, AllHold
<1>8. Kept(r, db) = {j \in Joined(r, db) : AllHold(r.where, j)} /\ Kept(q, db) = {j \in Joined(q, db) : AllHold(q.where, j)}
  BY <1>7
<1>9. Kept(r, db) = Kept(q, db)
  BY <1>5, <1>6, <1>8
<1> QED BY <1>9 DEF r

-----------------------------------------------------------------------------
(* The ONs, pushed.                                                           *)
OnNodesOf(q, it) == [tables \in SUBSET Aliases(q) |-> OnNodes(q, it, tables)]
OnGot(q, it) ==
    IF it.side \in {"RIGHT", "FULL"} \/ it.alias \notin Selected(q)
    THEN [left |-> it.on, push |-> {}]
    ELSE Push(q, it.on, OnNodesOf(q, it))
OnPushed(q) == UNION {OnGot(q, q.items[i]).push : i \in DOMAIN q.items}
OnPart(q, k) == PushedTo(OnPushed(q), "select", q.items[k].alias)
OnCare(q) ==
    /\ q.items[1].on = {}
    /\ \A k \in 1 .. Len(q.items) :
         LET it == q.items[k]
         IN  /\ Written(it.on) /\ WholePushed(q, it.on, OnNodesOf(q, it))
             /\ TablesOf(it.on) \subseteq Aliases(q)
             /\ (/\ k > 1 /\ it.side \notin {"RIGHT", "FULL"} /\ it.source.form = "select" /\ Pushable(q, it)
                 => RowsApart(it.source.is))

LEMMA OnNode ==
  ASSUME NEW q, NEW it, NEW t, NEW n \in OnNodes(q, it, t)
  PROVE  n = Node("select", it.alias) /\ t = {it.alias} /\ it.source.form = "select" /\ Pushable(q, it)
BY DEF OnNodes

LEMMA OnPlaces ==
  ASSUME NEW q, NEW it, Written(it.on), WholePushed(q, it.on, OnNodesOf(q, it)), TablesOf(it.on) \subseteq Aliases(q),
         NEW m \in OnGot(q, it).push
  PROVE  /\ m[1] = Node("select", it.alias) /\ it.source.form = "select" /\ Pushable(q, it)
         /\ it.side \notin {"RIGHT", "FULL"} /\ it.on # {}
         /\ \A p \in m[2] : p \in Seq(SUBSET Literal) /\ PredicateTables(p) = {it.alias}
<1> DEFINE nodes == OnNodesOf(q, it)
<1>1. it.side \notin {"RIGHT", "FULL"} /\ m \in Push(q, it.on, nodes).push
  BY DEF OnGot
<1>2. PICK p \in Simplified(it.on) :
           /\ m[2] = {p} /\ p \in Seq(SUBSET Literal)
           /\ m[1].at = "join" => Earlier(q, m[1].alias, PredicateTables(p))
           /\ \/ m[1] \in nodes[PredicateTables(p)]
              \/ /\ MayGo(nodes, p, m[1].alias)
                 /\ \E b \in Range(p) : m[1] \in nodes[BlockTables(b)]
  BY <1>1, PushedParts
<1>3. PredicateTables(p) \subseteq Aliases(q)
  <2>1. \A c : Written(c) => InSequence(c)
    BY OwnRange DEF Written, InSequence
  <2>2. PredicateTables(p) \subseteq TablesOf(it.on)
    BY <2>1, SimplifiedPredicates
  <2> QED BY <2>2
<1>4. \A t \in SUBSET PredicateTables(p) : nodes[t] = OnNodes(q, it, t)
  BY <1>3 DEF OnNodesOf
<1>5. \A b \in Range(p) : BlockTables(b) \in SUBSET PredicateTables(p)
  BY BlockInPredicate
<1>6. it.on # {}
  BY <1>1 DEF Push
<1> HIDE DEF nodes
<1>7. CASE m[1] \in nodes[PredicateTables(p)]
  <2>1. m[1] \in OnNodes(q, it, PredicateTables(p))
    BY <1>4, <1>7
  <2> QED BY <1>1, <1>2, <1>6, <2>1, OnNode
<1>8. CASE MayGo(nodes, p, m[1].alias) /\ \E b \in Range(p) : m[1] \in nodes[BlockTables(b)]
  <2>1. ASSUME NEW b \in Range(p) PROVE BlockTables(b) = {it.alias}
    <3>1. PICK z \in nodes[BlockTables(b)] : TRUE
      BY <1>8 DEF MayGo
    <3>2. z \in OnNodes(q, it, BlockTables(b))
      BY <1>4, <1>5, <3>1
    <3> QED BY <3>2, OnNode
  <2>2. PICK b \in Range(p) : m[1] \in nodes[BlockTables(b)]
    BY <1>8
  <2>3. m[1] \in OnNodes(q, it, BlockTables(b))
    BY <1>4, <1>5, <2>2
  <2>4. m[1] = Node("select", it.alias) /\ it.source.form = "select" /\ Pushable(q, it)
    BY <2>3, OnNode
  <2>5. PredicateTables(p) = {it.alias}
    <3>1. {it.alias} \subseteq PredicateTables(p)
      BY <1>5, <2>1, <2>2
    <3> QED BY <2>1, <3>1, BlockInPredicate
  <2> QED BY <1>1, <1>2, <1>6, <2>4, <2>5
<1> QED BY <1>2, <1>7, <1>8

LEMMA OnItems ==
  ASSUME NEW q, Shaped(q), OnCare(q), NEW k \in 1 .. Len(q.items)
  PROVE  /\ \A m \in OnGot(q, q.items[k]).push :
              /\ m[1] = Node("select", q.items[k].alias) /\ q.items[k].source.form = "select" /\ Pushable(q, q.items[k])
              /\ q.items[k].side \notin {"RIGHT", "FULL"} /\ k > 1
              /\ \A p \in m[2] : p \in Seq(SUBSET Literal) /\ PredicateTables(p) = {q.items[k].alias}
         /\ OnPart(q, k) = UNION {m[2] : m \in OnGot(q, q.items[k]).push}
<1> DEFINE n == Len(q.items)
           got(i) == OnGot(q, q.items[i]).push
<1>1. n \in Nat \ {0} /\ DOMAIN q.items = 1 .. n
  BY ShapedItems
<1>2. \A i \in 1 .. n : \A m \in got(i) :
        /\ m[1] = Node("select", q.items[i].alias) /\ q.items[i].source.form = "select" /\ Pushable(q, q.items[i])
        /\ q.items[i].side \notin {"RIGHT", "FULL"} /\ q.items[i].on # {}
        /\ \A p \in m[2] : p \in Seq(SUBSET Literal) /\ PredicateTables(p) = {q.items[i].alias}
  BY OnPlaces DEF OnCare
<1>3. k > 1 \/ got(k) = {}
  <2>1. k = 1 => q.items[k].on = {}
    BY DEF OnCare
  <2>2. \A m \in got(k) : q.items[k].on # {}
    BY <1>2
  <2>3. k = 1 => got(k) = {}
    BY <2>1, <2>2
  <2> HIDE DEF n, got
  <2> QED BY <1>1, <2>3
<1>4. \A i \in 1 .. n : q.items[i].alias = q.items[k].alias => i = k
  BY ShapedItems
<1>5. OnPushed(q) = UNION {got(i) : i \in 1 .. n}
  BY <1>1 DEF OnPushed
<1> HIDE DEF got, n
<1>6. \A p : p \in OnPart(q, k) <=> \E m \in got(k) : p \in m[2]
  <2> SUFFICES ASSUME NEW p PROVE p \in OnPart(q, k) <=> \E m \in got(k) : p \in m[2]
    OBVIOUS
  <2>1. p \in OnPart(q, k) <=> \E m \in OnPushed(q) : m[1] = Node("select", q.items[k].alias) /\ p \in m[2]
    BY DEF OnPart, PushedTo
  <2>2. ASSUME NEW m \in OnPushed(q), m[1] = Node("select", q.items[k].alias) PROVE m \in got(k)
    <3>1. PICK i \in 1 .. n : m \in got(i)
      BY <1>5
    <3>2. q.items[i].alias = q.items[k].alias
      BY <1>2, <2>2, <3>1, NodesApart
    <3> QED BY <1>4, <3>1, <3>2
  <2>3. \A m \in got(k) : m \in OnPushed(q) /\ m[1] = Node("select", q.items[k].alias)
    BY <1>2, <1>5 DEF n
  <2> QED BY <2>1, <2>2, <2>3
<1>7. OnPart(q, k) = UNION {m[2] : m \in got(k)}
  BY <1>6
<1> QED BY <1>2, <1>3, <1>7 DEF got, n

LEMMA OnHolds ==
  ASSUME NEW q, Shaped(q), OnCare(q), NEW k \in 1 .. Len(q.items), NEW j
  PROVE  AllHold(q.items[k].on, j) <=> AllHold(OnGot(q, q.items[k]).left, j) /\ AllHold(OnPart(q, k), j)
<1> DEFINE it == q.items[k]
<1>1. OnPart(q, k) = UNION {m[2] : m \in OnGot(q, it).push}
  BY OnItems
<1>2. Written(it.on) /\ WholePushed(q, it.on, OnNodesOf(q, it))
  BY DEF OnCare
<1> HIDE DEF it
<1>3. AllHold(it.on, j) <=> AllHold(OnGot(q, it).left, j) /\ \A m \in OnGot(q, it).push : AllHold(m[2], j)
  <2>1. CASE it.side \in {"RIGHT", "FULL"} \/ it.alias \notin Selected(q)
    BY <2>1 DEF OnGot
  <2>2. CASE ~(it.side \in {"RIGHT", "FULL"} \/ it.alias \notin Selected(q))
    <3>1. OnGot(q, it) = Push(q, it.on, OnNodesOf(q, it))
      BY <2>2 DEF OnGot
    <3> QED BY <1>2, <3>1, PushHolds
  <2> QED BY <2>1, <2>2
<1>4. (\A m \in OnGot(q, it).push : AllHold(m[2], j)) <=> AllHold(OnPart(q, k), j)
  BY <1>1 DEF AllHold
<1> QED BY <1>3, <1>4 DEF it

LEMMA PushOnsParts ==
  ASSUME NEW q, Shaped(q)
  PROVE  /\ PushOns(q).ctes = Apply(q, OnPushed(q)).ctes /\ PushOns(q).where = q.where /\ PushOns(q).uses = q.uses
         /\ DOMAIN PushOns(q).items = 1 .. Len(q.items) /\ Len(PushOns(q).items) = Len(q.items)
         /\ \A i \in 1 .. Len(q.items) :
              PushOns(q).items[i] = [Apply(q, OnPushed(q)).items[i] EXCEPT !.on = OnGot(q, q.items[i]).left]
<1> DEFINE all == [i \in DOMAIN q.items |-> OnGot(q, q.items[i])]
           push == UNION {all[i].push : i \in DOMAIN q.items}
           s == Apply(q, push)
           items == [i \in DOMAIN q.items |-> [s.items[i] EXCEPT !.on = all[i].left]]
           n == Len(q.items)
<1>1. n \in Nat /\ DOMAIN q.items = 1 .. n
  BY ShapedItems
<1>2. PushOns(q) = [s EXCEPT !.items = items]
  BY DEF PushOns, OnGot, OnNodesOf
<1>3. push = OnPushed(q)
  BY DEF OnPushed
<1>4. \A i \in 1 .. n : items[i] = [s.items[i] EXCEPT !.on = OnGot(q, q.items[i]).left]
  BY <1>1
<1>5. DOMAIN items = 1 .. n
  BY <1>1
<1> HIDE DEF items, all, push
<1> DEFINE i == s.items
           w == q.where
           u == q.uses
           v == q.recursive
           c == s.ctes
<1>6. q = [items |-> q.items, where |-> w, uses |-> u, recursive |-> v, ctes |-> q.ctes]
  BY DEF Shaped
<1>7. s = [items |-> i, where |-> w, uses |-> u, recursive |-> v, ctes |-> c]
  BY <1>6, Applied
<1> HIDE DEF s, i, w, u, v, c, n
<1>8. PushOns(q) = [items |-> items, where |-> w, uses |-> u, recursive |-> v, ctes |-> c]
  BY <1>2, <1>7
<1>9. PushOns(q).items = items /\ PushOns(q).where = w /\ PushOns(q).uses = u /\ PushOns(q).ctes = c
  BY <1>8
<1>10. Len(items) = n
  BY <1>1, <1>5
<1> QED BY <1>3, <1>4, <1>5, <1>9, <1>10 DEF s, w, u, c, n

\* A join that finds the same in less.
LEMMA FewJoinRows ==
  ASSUME NEW it, NEW new, new.alias = it.alias, new.side = it.side,
         new.kind = "SEMI" <=> it.kind = "SEMI", new.kind = "ANTI" <=> it.kind = "ANTI",
         NEW left, NEW rows, NEW few, NEW names, \A l : Matches(l, new, few) = Matches(l, it, rows),
         it.side \in {"RIGHT", "FULL"} => few = rows
  PROVE  JoinRows(left, new, few, names) = JoinRows(left, it, rows, names)
<1>1. \A l : Matches(l, new, few) = Matches(l, it, rows)
  OBVIOUS
<1>2. CASE it.kind = "SEMI"
  <2> DEFINE V == {l \in left : Matches(l, new, few) # {}}
             W == {l \in left : Matches(l, it, rows) # {}}
  <2>1. V = W
    BY <1>1
  <2>2. JoinRows(left, new, few, names) = V
    BY <1>2, SemiRows
  <2>3. JoinRows(left, it, rows, names) = W
    BY <1>2, SemiRows
  <2> QED BY <2>1, <2>2, <2>3
<1>3. CASE it.kind = "ANTI"
  <2>1. \A m, x : x.kind = "ANTI" => JoinRows(left, x, m, names) = {l \in left : Matches(l, x, m) = {}}
    BY AntiRows
  <2> DEFINE V == JoinRows(left, new, few, names)
             W == JoinRows(left, it, rows, names)
  <2>2. V = {l \in left : Matches(l, new, few) = {}}
    BY <1>3, <2>1
  <2>3. W = {l \in left : Matches(l, it, rows) = {}}
    BY <1>3, <2>1
  <2> HIDE DEF V, W
  <2>4. V = W
    BY <1>1, <2>2, <2>3
  <2> QED BY <2>4 DEF V, W
<1>4. CASE ~SemiOrAnti(it)
  <2>1. ~SemiOrAnti(new)
    BY <1>4 DEF SemiOrAnti
  <2> DEFINE V == JoinRows(left, new, few, names)
             W == JoinRows(left, it, rows, names)
  <2>2. ASSUME NEW j PROVE j \in V <=> j \in W
    <3>1. IsMatched(j, left, new, few) <=> IsMatched(j, left, it, rows)
      BY <1>1 DEF IsMatched
    <3>2. IsAlone(j, left, new, few) <=> IsAlone(j, left, it, rows)
      BY <1>1 DEF IsAlone
    <3>3. IsUnmatched(j, left, new, few, names) <=> IsUnmatched(j, left, it, rows, names)
      BY <1>1 DEF IsUnmatched
    <3>4. j \in V <=> IsMatched(j, left, new, few) \/ IsAlone(j, left, new, few) \/ IsUnmatched(j, left, new, few, names)
      BY <2>1, OrdinaryRows
    <3>5. j \in W <=> IsMatched(j, left, it, rows) \/ IsAlone(j, left, it, rows) \/ IsUnmatched(j, left, it, rows, names)
      BY <1>4, OrdinaryRows
    <3> QED BY <3>1, <3>2, <3>3, <3>4, <3>5
  <2> HIDE DEF V, W
  <2>3. V \subseteq W /\ W \subseteq V
    BY <2>2
  <2>4. V = W
    BY <2>3
  <2> QED BY <2>4 DEF V, W
<1> QED BY <1>2, <1>3, <1>4 DEF SemiOrAnti

LEMMA OnItemRows ==
  ASSUME NEW q, Shaped(q), OnCare(q), NEW k \in 1 .. Len(q.items), NEW db
  PROVE  ItemRows(PushOns(q), k, db) = {x \in ItemRows(q, k, db) : AllPass(OnPart(q, k), x)}
<1> DEFINE it == q.items[k]
           push == OnPushed(q)
           r == PushOns(q)
<1>1. k \in DOMAIN q.items /\ ItemShaped(q, it)
  BY ShapedItems
<1>2. \A i \in 1 .. Len(q.items) : \A m \in OnGot(q, q.items[i]).push :
        /\ q.items[i].source.form = "select" /\ Pushable(q, q.items[i])
        /\ q.items[i].side \notin {"RIGHT", "FULL"} /\ i > 1
        /\ \A p \in m[2] : p \in Seq(SUBSET Literal) /\ PredicateTables(p) = {q.items[i].alias}
  BY OnItems
<1>3. \A i \in 1 .. Len(q.items) : PushedTo(push, "select", q.items[i].alias) # {} =>
        /\ q.items[i].source.form = "select" /\ Pushable(q, q.items[i])
        /\ q.items[i].side \notin {"RIGHT", "FULL"} /\ i > 1
        /\ AboutSome(PushedTo(push, "select", q.items[i].alias))
  <2> SUFFICES ASSUME NEW i \in 1 .. Len(q.items), OnPart(q, i) # {}
               PROVE  /\ q.items[i].source.form = "select" /\ Pushable(q, q.items[i])
                      /\ q.items[i].side \notin {"RIGHT", "FULL"} /\ i > 1
                      /\ AboutSome(OnPart(q, i))
    BY DEF OnPart
  <2>1. OnPart(q, i) = UNION {m[2] : m \in OnGot(q, q.items[i]).push}
    BY OnItems
  <2>2. PICK m \in OnGot(q, q.items[i]).push : TRUE
    BY <2>1
  <2>3. ASSUME NEW p \in OnPart(q, i) PROVE p \in Seq(SUBSET Literal) /\ Literals(p) # {}
    <3>1. p \in Seq(SUBSET Literal) /\ PredicateTables(p) = {q.items[i].alias}
      BY <1>2, <2>1
    <3> QED BY <3>1 DEF PredicateTables, BlockTables
  <2> QED BY <1>2, <2>2, <2>3 DEF AboutSome
<1>4. ReadOnce(q, push)
  <2>1. DOMAIN q.items = 1 .. Len(q.items)
    BY ShapedItems
  <2> HIDE DEF push
  <2> QED BY <1>3, <2>1 DEF ReadOnce
<1>5. PushedTo(push, "select", it.alias) # {} =>
        /\ BodyOf(q, it).form = "select" /\ RowsApart(BodyOf(q, it).is)
        /\ AboutSome(PushedTo(push, "select", it.alias))
  <2> SUFFICES ASSUME PushedTo(push, "select", it.alias) # {}
               PROVE  BodyOf(q, it).form = "select" /\ RowsApart(BodyOf(q, it).is)
    BY <1>3
  <2>1. it.source.form = "select" /\ Pushable(q, it) /\ it.side \notin {"RIGHT", "FULL"} /\ k > 1
    BY <1>3
  <2>2. RowsApart(it.source.is)
    BY <2>1 DEF OnCare
  <2>3. BodyOf(q, it) = it.source
    BY <2>1 DEF BodyOf
  <2> QED BY <2>1, <2>2, <2>3
<1>6. r.items[k].source = Apply(q, push).items[k].source /\ r.ctes = Apply(q, push).ctes
  <2>1. r.items[k] = [Apply(q, push).items[k] EXCEPT !.on = OnGot(q, it).left] /\ r.ctes = Apply(q, push).ctes
    BY PushOnsParts
  <2>2. ItemShaped(Apply(q, push), Apply(q, push).items[k])
    BY <1>1, AppliedShaped, ShapedItems
  <2> DEFINE a == Apply(q, push).items[k]
             left == OnGot(q, it).left
  <2>3. a = [alias |-> a.alias, side |-> a.side, kind |-> a.kind, source |-> a.source, on |-> a.on]
    BY <2>2 DEF ItemShaped, Item
  <2> HIDE DEF a, left
  <2>4. [a EXCEPT !.on = left].source = a.source
    BY <2>3
  <2> QED BY <2>1, <2>4 DEF a, left
<1> HIDE DEF r, push
<1>7. ItemRows(r, k, db) = {x \in ItemRows(q, k, db) : AllPass(PushedTo(push, "select", q.items[k].alias), x)}
  BY <1>1, <1>4, <1>5, <1>6, AppliedRows
<1> QED BY <1>7 DEF r, OnPart, push

LEMMA OnItemFields ==
  ASSUME NEW q, Shaped(q), NEW k \in 1 .. Len(q.items)
  PROVE  LET it == q.items[k]
             new == PushOns(q).items[k]
         IN  /\ new.alias = it.alias /\ new.side = it.side
             /\ (new.kind = "SEMI" <=> it.kind = "SEMI") /\ (new.kind = "ANTI" <=> it.kind = "ANTI")
             /\ new.on = OnGot(q, it).left
<1> DEFINE it == q.items[k]
           a == PushedItem(OnPushed(q), it)
           new == PushOns(q).items[k]
           left == OnGot(q, it).left
<1>1. k \in DOMAIN q.items /\ ItemShaped(q, it)
  BY ShapedItems
<1>2. Apply(q, OnPushed(q)).items[k] = a
  <2>1. q = [items |-> q.items, where |-> q.where, uses |-> q.uses, recursive |-> q.recursive, ctes |-> q.ctes]
    BY DEF Shaped
  <2>2. Apply(q, OnPushed(q)).items = [x \in DOMAIN q.items |-> PushedItem(OnPushed(q), q.items[x])]
    BY <2>1, Applied
  <2> QED BY <1>1, <2>2
<1>3. new = [a EXCEPT !.on = left]
  BY <1>2, PushOnsParts
<1>4. /\ a.alias = it.alias /\ a.side = it.side
      /\ (a.kind = "SEMI" <=> it.kind = "SEMI") /\ (a.kind = "ANTI" <=> it.kind = "ANTI")
  BY <1>1, PushedItemParts
<1>5. ItemShaped(Apply(q, OnPushed(q)), a)
  BY <1>1, <1>2, AppliedShaped, ShapedItems
<1> HIDE DEF a, new, left, it
<1>6. a = [alias |-> a.alias, side |-> a.side, kind |-> a.kind, source |-> a.source, on |-> a.on]
  BY <1>5 DEF ItemShaped, Item
<1>7. new = [alias |-> a.alias, side |-> a.side, kind |-> a.kind, source |-> a.source, on |-> left]
  BY <1>3, <1>6
<1>8. new.alias = a.alias /\ new.side = a.side /\ new.kind = a.kind /\ new.on = left
  BY <1>7
<1> QED BY <1>4, <1>8 DEF new, left, it

\* What a join finds is what it found: its ON lost what its SELECT gained.
LEMMA OnMatches ==
  ASSUME NEW q, Shaped(q), OnCare(q), NEW k \in 1 .. Len(q.items), NEW db, NEW l
  PROVE  Matches(l, PushOns(q).items[k], ItemRows(PushOns(q), k, db)) = Matches(l, q.items[k], ItemRows(q, k, db))
<1> DEFINE it == q.items[k]
           new == PushOns(q).items[k]
           rows == ItemRows(q, k, db)
           few == ItemRows(PushOns(q), k, db)
           left == OnGot(q, it).left
           part == OnPart(q, k)
<1>1. new.alias = it.alias /\ new.on = left
  BY OnItemFields
<1>2. few = {x \in rows : AllPass(part, x)}
  BY OnItemRows
<1>3. \A j : AllHold(it.on, j) <=> AllHold(left, j) /\ AllHold(part, j)
  BY OnHolds
<1>4. TablesOf(part) \subseteq {it.alias}
  <2>1. /\ \A m \in OnGot(q, it).push : \A p \in m[2] : PredicateTables(p) = {it.alias}
        /\ part = UNION {m[2] : m \in OnGot(q, it).push}
    BY OnItems
  <2>2. \A p \in part : PredicateTables(p) = {it.alias}
    BY <2>1
  <2> HIDE DEF part, it
  <2> QED BY <2>2, TablesByPredicate
<1> HIDE DEF it, new, rows, few, left, part
<1>5. ASSUME NEW r PROVE r \in Matches(l, new, few) <=> r \in Matches(l, it, rows)
  <2> DEFINE j == With(l, it.alias, {r})
  <2>1. r \in Matches(l, new, few) <=> r \in few /\ AllHold(left, j)
    <3>1. r \in Matches(l, new, few) <=> r \in few /\ AllHold(new.on, With(l, new.alias, {r}))
      BY MatchesHold
    <3> QED BY <1>1, <3>1
  <2>2. r \in Matches(l, it, rows) <=> r \in rows /\ AllHold(it.on, j)
    BY MatchesHold
  <2>3. j[it.alias] = {r}
    BY WithNew
  <2> HIDE DEF j
  <2>4. AllHold(part, j) <=> AllPass(part, r)
    BY <1>4, <2>3, AllHoldPass
  <2>5. r \in few <=> r \in rows /\ AllPass(part, r)
    BY <1>2
  <2> QED BY <1>3, <2>1, <2>2, <2>4, <2>5
<1>6. Matches(l, new, few) = Matches(l, it, rows)
  <2> DEFINE V == Matches(l, new, few)
             W == Matches(l, it, rows)
  <2>1. \A r : r \in V <=> r \in W
    BY <1>5
  <2>2. V \subseteq few /\ W \subseteq rows
    BY DEF Matches
  <2> HIDE DEF V, W
  <2>3. V \subseteq W /\ W \subseteq V
    BY <2>1
  <2>4. V = W
    BY <2>3
  <2> QED BY <2>4 DEF V, W
<1> QED BY <1>6 DEF it, new, rows, few

LEMMA OnWholeRows ==
  ASSUME NEW q, Shaped(q), OnCare(q), NEW k \in 1 .. Len(q.items), NEW db, k = 1 \/ q.items[k].side \in {"RIGHT", "FULL"}
  PROVE  ItemRows(PushOns(q), k, db) = ItemRows(q, k, db)
<1>1. OnPart(q, k) = {}
  <2>1. /\ \A m \in OnGot(q, q.items[k]).push : q.items[k].side \notin {"RIGHT", "FULL"} /\ k > 1
        /\ OnPart(q, k) = UNION {m[2] : m \in OnGot(q, q.items[k]).push}
    BY OnItems
  <2>2. OnGot(q, q.items[k]).push = {}
    BY <2>1
  <2> QED BY <2>1, <2>2
<1>2. ItemRows(PushOns(q), k, db) = {x \in ItemRows(q, k, db) : AllPass(OnPart(q, k), x)}
  BY OnItemRows
<1>3. \A x : AllPass(OnPart(q, k), x)
  BY <1>1 DEF AllPass
<1> QED BY <1>2, <1>3
LEMMA PushOnsJoined ==
  ASSUME NEW q, Shaped(q), OnCare(q), NEW db
  PROVE  Joined(PushOns(q), db) = Joined(q, db)
<1> DEFINE n == Len(q.items)
           r == PushOns(q)
           J == JoinedUpTo(q, db)
           H == JoinedUpTo(r, db)
           K == {i \in 0 .. n : i > 0 => H[i] = J[i]}
<1>1. n \in Nat \ {0} /\ DOMAIN q.items = 1 .. n
  BY ShapedItems
<1>2. DOMAIN r.items = 1 .. n /\ Len(r.items) = n
  BY PushOnsParts
<1> HIDE DEF r
<1>4. /\ J[1] = FirstRows(q, db)
      /\ \A i \in 2 .. n : J[i] = JoinRows(J[i - 1], q.items[i], ItemRows(q, i, db), Visible(q, i - 1))
  BY <1>1, JoinedStep
<1>5. /\ H[1] = FirstRows(r, db)
      /\ \A i \in 2 .. n : H[i] = JoinRows(H[i - 1], r.items[i], ItemRows(r, i, db), Visible(r, i - 1))
  BY <1>1, <1>2, JoinedStep
<1>6. Joined(q, db) = J[n] /\ Joined(r, db) = H[n]
  BY <1>2 DEF Joined
<1>7. \A i \in 1 .. n : /\ r.items[i].alias = q.items[i].alias /\ r.items[i].side = q.items[i].side
                        /\ (r.items[i].kind = "SEMI" <=> q.items[i].kind = "SEMI")
                        /\ (r.items[i].kind = "ANTI" <=> q.items[i].kind = "ANTI")
  <2> SUFFICES ASSUME NEW i \in 1 .. n
               PROVE  /\ r.items[i].alias = q.items[i].alias /\ r.items[i].side = q.items[i].side
                      /\ (r.items[i].kind = "SEMI" <=> q.items[i].kind = "SEMI")
                      /\ (r.items[i].kind = "ANTI" <=> q.items[i].kind = "ANTI")
    OBVIOUS
  <2> QED BY OnItemFields DEF r
<1>8. H[1] = J[1]
  <2>1. 1 \in 1 .. n
    BY <1>1
  <2>2. r.items[1].alias = q.items[1].alias /\ ItemRows(r, 1, db) = ItemRows(q, 1, db)
    BY <1>7, <2>1, OnWholeRows DEF r
  <2>3. FirstRows(r, db) = FirstRows(q, db)
    BY <2>2 DEF FirstRows
  <2> HIDE DEF J, H
  <2> QED BY <1>4, <1>5, <2>3
<1>9. \A i \in 0 .. n : Visible(r, i) = Visible(q, i)
  <2>1. \A k \in 1 .. n : r.items[k].alias = q.items[k].alias /\ (SemiOrAnti(r.items[k]) <=> SemiOrAnti(q.items[k]))
    BY <1>7 DEF SemiOrAnti
  <2> QED BY <2>1, NarrowedVisible
<1> HIDE DEF J, H
<1>10. ASSUME NEW i \in 2 .. n, H[i - 1] = J[i - 1] PROVE H[i] = J[i]
  <2>1. i \in 1 .. n /\ i - 1 \in 0 .. n
    <3> HIDE DEF n
    <3> QED BY <1>1
  <2>2. Visible(r, i - 1) = Visible(q, i - 1)
    BY <1>9, <2>1
  <2> DEFINE it == q.items[i]
             new == r.items[i]
             rows == ItemRows(q, i, db)
             few == ItemRows(r, i, db)
             names == Visible(q, i - 1)
  <2>3. /\ new.alias = it.alias /\ new.side = it.side
        /\ new.kind = "SEMI" <=> it.kind = "SEMI"
        /\ new.kind = "ANTI" <=> it.kind = "ANTI"
    BY <1>7, <2>1
  <2>4. \A l : Matches(l, new, few) = Matches(l, it, rows)
    BY <2>1, OnMatches DEF r
  <2>5. it.side \in {"RIGHT", "FULL"} => few = rows
    BY <2>1, OnWholeRows DEF r
  <2>6. H[i] = JoinRows(J[i - 1], new, few, names)
    BY <1>5, <1>10, <2>2
  <2>7. J[i] = JoinRows(J[i - 1], it, rows, names)
    BY <1>4
  <2> HIDE DEF it, new, rows, few, names
  <2>8. JoinRows(J[i - 1], new, few, names) = JoinRows(J[i - 1], it, rows, names)
    BY <2>3, <2>4, <2>5, FewJoinRows
  <2> QED BY <2>6, <2>7, <2>8
<1> HIDE DEF n
<1>11. 0 \in K
  BY <1>1
<1>12. ASSUME NEW i \in 1 .. n, i - 1 \in K PROVE i \in K
  <2>0. i \in 0 .. n
    BY <1>1
  <2>1. CASE i = 1
    BY <1>8, <2>0, <2>1
  <2>2. CASE i # 1
    <3>1. i \in 2 .. n /\ i - 1 > 0
      BY <1>1, <2>2
    <3>2. H[i - 1] = J[i - 1]
      BY <1>12, <3>1
    <3> QED BY <1>10, <2>0, <3>1, <3>2
  <2> QED BY <2>1, <2>2
<1> HIDE DEF K
<1>13. 0 .. n \subseteq K
  BY <1>1, <1>11, <1>12, InductionUpTo
<1>14. n \in K /\ n > 0
  BY <1>1, <1>13
<1>15. H[n] = J[n]
  BY <1>14 DEF K
<1> QED BY <1>6, <1>15 DEF r

-----------------------------------------------------------------------------
(* First the WHERE, then the ONs.                                             *)
LEMMA PushWhereItem ==
  ASSUME NEW q, Shaped(q), NEW k \in 1 .. Len(q.items)
  PROVE  LET it == q.items[k]
             new == PushWhere(q).items[k]
         IN  /\ new.alias = it.alias /\ new.side = it.side /\ new.on = it.on \cup JoinPart(q, k)
             /\ new.source = IF it.source.form = "select" THEN AddBody(it.source, SelectPart(q, k)) ELSE it.source
<1>1. k \in DOMAIN q.items /\ ItemShaped(q, q.items[k])
  BY ShapedItems
<1>2. PushWhere(q).items[k] = PushedItem(WherePushed(q), q.items[k])
  <2>1. q = [items |-> q.items, where |-> q.where, uses |-> q.uses, recursive |-> q.recursive, ctes |-> q.ctes]
    BY DEF Shaped
  <2>2. Apply(q, WherePushed(q)).items = [x \in DOMAIN q.items |-> PushedItem(WherePushed(q), q.items[x])]
    BY <2>1, Applied
  <2>3. PushWhere(q).items = Apply(q, WherePushed(q)).items
    BY PushWhereParts
  <2> QED BY <1>1, <2>2, <2>3
<1> QED BY <1>1, <1>2, PushedItemParts DEF JoinPart, SelectPart

LEMMA JoinPartWritten ==
  ASSUME NEW q, Shaped(q), WellFormed(q), Parsed(q), WhereCare(q), NEW k \in 1 .. Len(q.items)
  PROVE  Written(q.items[k].on \cup JoinPart(q, k))
<1>1. q.items[k] \in Range(q.items)
  BY ShapedItems DEF Range
<1>2. Written(q.where) /\ Written(q.items[k].on)
  BY <1>1 DEF Parsed
<1>3. Written(Simplified(q.where))
  BY <1>2, SimplifiedWritten
<1>4. JoinPart(q, k) \subseteq Simplified(q.where)
  BY WhereToJoin
<1> HIDE DEF Written
<1>5. IsFiniteSet(JoinPart(q, k)) /\ \A p \in JoinPart(q, k) : p \in Seq(SUBSET Literal)
  <2>1. IsFiniteSet(Simplified(q.where)) /\ \A p \in Simplified(q.where) : p \in Seq(SUBSET Literal)
    BY <1>3 DEF Written
  <2> QED BY <1>4, <2>1, FS_Subset
<1>6. IsFiniteSet(q.items[k].on) /\ \A p \in q.items[k].on : p \in Seq(SUBSET Literal)
  BY <1>2 DEF Written
<1>7. IsFiniteSet(q.items[k].on \cup JoinPart(q, k))
  BY <1>5, <1>6, FS_Union
<1> QED BY <1>5, <1>6, <1>7 DEF Written

LEMMA JoinSelectApart ==
  ASSUME NEW q, Shaped(q), WellFormed(q), Parsed(q), PushdownCare(q), WhereCare(q), NEW k \in 1 .. Len(q.items),
         k > 1, PushWhere(q).items[k].side \notin {"RIGHT", "FULL"}, PushWhere(q).items[k].source.form = "select",
         Pushable(PushWhere(q), PushWhere(q).items[k])
  PROVE  RowsApart(PushWhere(q).items[k].source.is)
<1> DEFINE it == q.items[k]
           r == PushWhere(q)
           new == r.items[k]
<1>1. new.side = it.side /\ new.source = IF it.source.form = "select" THEN AddBody(it.source, SelectPart(q, k)) ELSE it.source
  BY PushWhereItem
<1>2. it \in Range(q.items)
  BY ShapedItems DEF Range
<1>3. SelectPart(q, k) = {}
  <2>1. it.side # "RIGHT"
    BY <1>1
  <2>2. \A p \in SelectPart(q, k) : k = 1 \/ it.side = "RIGHT"
    BY WhereToSelect
  <2> QED BY <2>1, <2>2
<1>4. \A body : AddBody(body, {}) = body
  BY DEF AddBody
<1> HIDE DEF it, r
<1>5. it.source.form = "select" /\ new.source = it.source
  BY <1>1, <1>3, <1>4 DEF r
<1>6. BodyOf(r, new) = it.source /\ BodyOf(q, it) = it.source
  BY <1>5 DEF BodyOf
<1>7. it.source.is.group = {} /\ ~it.source.is.limit /\ ~HasWindow(it.source.is)
  BY <1>6 DEF Pushable, r
<1>8. Pushable(q, it)
  BY <1>5, <1>6, <1>7 DEF Pushable
<1>9. AggregatesAlone(it.source.is)
  BY <1>2, <1>6, <1>8 DEF PushdownCare
<1>10. \A e \in MentionedIn(it.source.is.having) : e.fn \in {"column", "max", "const"}
  BY <1>2, <1>5, <1>6 DEF Parsed, Windowless
<1> QED BY <1>5, <1>7, <1>9, <1>10 DEF RowsApart, r

LEMMA PushedOnCare ==
  ASSUME NEW q, Shaped(q), WellFormed(q), Parsed(q), PushdownCare(q), WhereCare(q)
  PROVE  OnCare(PushWhere(q))
<1> DEFINE r == PushWhere(q)
           n == Len(q.items)
<1>1. Len(r.items) = n /\ n \in Nat \ {0} /\ DOMAIN r.items = 1 .. n
  BY PushWhereParts, ShapedItems
<1>2. \A k \in 1 .. n : /\ r.items[k].alias = q.items[k].alias /\ r.items[k].side = q.items[k].side
                        /\ r.items[k].on = q.items[k].on \cup JoinPart(q, k)
  BY PushWhereItem
<1>3. Shaped(r) /\ WellFormed(r)
  BY PushWhereWellFormed
<1>4. r.items[1].on = {}
  <2>1. 1 \in 1 .. n
    BY <1>1
  <2>2. JoinPart(q, 1) = {}
    <3>1. \A p \in JoinPart(q, 1) : 1 > 1
      BY <2>1, WhereToJoin
    <3> QED BY <3>1
  <2>3. q.items[1].on = {}
    BY DEF Parsed
  <2> QED BY <1>2, <2>1, <2>2, <2>3
<1>5. \A k \in 1 .. n : WholePushed(r, r.items[k].on, OnNodesOf(r, r.items[k]))
  <2>1. \A it \in Range(r.items) : WholePushed(r, it.on, OnNodesOf(r, it))
    BY DEF PushdownCare, OnNodesOf
  <2> QED BY <1>1, <2>1 DEF Range
<1>6. \A k \in 1 .. n : Written(r.items[k].on)
  BY <1>2, JoinPartWritten
<1>7. \A k \in 1 .. n : TablesOf(r.items[k].on) \subseteq Aliases(r)
  <2> SUFFICES ASSUME NEW k \in 1 .. n, NEW y \in TablesOf(r.items[k].on) PROVE y \in Aliases(r)
    OBVIOUS
  <2>1. k # 1
    <3>1. \E p \in r.items[k].on : y \in PredicateTables(p)
      BY TablesByPredicate
    <3> QED BY <1>4, <3>1
  <2> HIDE DEF r, n
  <2>2. k \in 2 .. n
    BY <1>1, <2>1
  <2>3. Others(r.items[k]) \subseteq Visible(r, k - 1)
    BY <1>1, <1>3, <2>2 DEF WellFormed
  <2>4. \A j \in 1 .. (k - 1) : j \in 1 .. n
    BY <1>1, <2>2
  <2>5. Visible(r, k - 1) \subseteq Aliases(r)
    BY <1>1, <2>4 DEF Visible, Aliases
  <2>6. y = r.items[k].alias \/ y \in Others(r.items[k])
    BY DEF Others
  <2> QED BY <1>1, <2>3, <2>5, <2>6 DEF Aliases
<1>8. \A k \in 1 .. n :
        k > 1 /\ r.items[k].side \notin {"RIGHT", "FULL"} /\ r.items[k].source.form = "select" /\ Pushable(r, r.items[k])
        => RowsApart(r.items[k].source.is)
  BY JoinSelectApart
<1> HIDE DEF r, n
<1>9. OnCare(r)
  BY <1>1, <1>4, <1>5, <1>6, <1>7, <1>8 DEF OnCare
<1> QED BY <1>9 DEF r

\* Where the rule is known not to err, it keeps the rows.
LEMMA PushdownSameRows ==
  ASSUME NEW q, Shaped(q), WellFormed(q), Parsed(q), PushdownCare(q)
  PROVE  SameRows(q, Pushdown(q), Databases)
<1> DEFINE r == PushWhere(q)
           t == Pushdown(q)
<1>1. WhereCare(q)
  BY DEF WhereCare, PushdownCare, OneAdds, WhereNodesOf
<1>2. WellFormed(t)
  BY PushdownWellFormed
<1>3. Shaped(r) /\ OnCare(r)
  BY <1>1, PushWhereWellFormed, PushedOnCare
<1>4. r.uses = q.uses
  BY PushWhereParts
<1>5. \A db \in Databases : Kept(r, db) = Kept(q, db)
  BY <1>1, PushWhereKept
<1> HIDE DEF r
<1>6. t = PushOns(r)
  BY DEF Pushdown, r
<1>7. t.where = r.where /\ t.uses = r.uses
  BY <1>3, <1>6, PushOnsParts
<1>8. ASSUME NEW db \in Databases PROVE Answer(t, db) = Answer(q, db)
  <2>1. Joined(t, db) = Joined(r, db)
    BY <1>3, <1>6, PushOnsJoined
  <2> HIDE DEF t
  <2>2. Answer(t, db) = Answer(r, db)
    BY <1>7, <2>1, AnswerOfJoined
  <2>3. \A j : Shown(r, j) = Shown(q, j)
    BY <1>4 DEF Shown
  <2>4. [j \in Kept(r, db) |-> Shown(r, j)] = [j \in Kept(q, db) |-> Shown(q, j)]
    BY <1>5, <2>3
  <2>5. Answer(r, db) = Answer(q, db)
    BY <2>4 DEF Answer
  <2> QED BY <2>2, <2>5
<1> QED BY <1>2, <1>8 DEF SameRows

-----------------------------------------------------------------------------
AfterPushdown == <<"optimize_joins", "eliminate_joins">>
AfterOptimize == <<"eliminate_joins">>

LEMMA Turns ==
  /\ Head(Rules) = "pushdown_predicates" /\ Tail(Rules) = AfterPushdown
  /\ Head(AfterPushdown) = "optimize_joins" /\ Tail(AfterPushdown) = AfterOptimize
  /\ Head(AfterOptimize) = "eliminate_joins" /\ Tail(AfterOptimize) = <<>>
  /\ Rules # <<>> /\ AfterPushdown # <<>> /\ AfterOptimize # <<>>
  /\ Rules # AfterPushdown /\ Rules # AfterOptimize /\ AfterPushdown # AfterOptimize
<1>1. Head(Rules) = "pushdown_predicates" /\ Tail(Rules) = AfterPushdown
  BY DEF Rules, AfterPushdown
<1>2. Head(AfterPushdown) = "optimize_joins" /\ Tail(AfterPushdown) = AfterOptimize
  BY DEF AfterPushdown, AfterOptimize
<1>3. Head(AfterOptimize) = "eliminate_joins" /\ Tail(AfterOptimize) = <<>>
  BY DEF AfterOptimize
<1>4. Len(Rules) = 3 /\ Len(AfterPushdown) = 2 /\ Len(AfterOptimize) = 1 /\ Len(<<>>) = 0
  BY DEF Rules, AfterPushdown, AfterOptimize
<1> QED BY <1>1, <1>2, <1>3, <1>4

(***************************************************************************)
(* The inductive invariant.                                                *)
(***************************************************************************)
InTurn == turn \in {Rules, AfterPushdown, AfterOptimize, <<>>}

\* Every rule finds and leaves queries of one shape.
AlwaysShapedInv == Shaped(query) /\ Shaped(before)

\* Until joins are put in order, nothing is mentioned before it is there.
WellFormedInTurn ==
    /\ turn = Rules => WellFormed(query) /\ Parsed(query)
    /\ turn = AfterPushdown => WellFormed(query)

\* What the rule that ran last did.
RuleDone ==
    /\ rule = "pushdown_predicates" => WellFormed(before) /\ Parsed(before) /\ query = Pushdown(before)
    /\ rule = "optimize_joins" => WellFormed(before) /\ ~RaisesCycle(before) /\ query = Optimize(before)
    /\ rule = "eliminate_joins" => query = Eliminate(before)

IInv == InTurn /\ AlwaysShapedInv /\ WellFormedInTurn /\ RuleDone

LEMMA InitIInv == Init => IInv
<1> SUFFICES ASSUME Init PROVE IInv
  OBVIOUS
<1>1. Shaped(query) /\ WellFormed(query) /\ Parsed(query) /\ before = query
  BY FamiliesAssumption DEF Init
<1>2. turn = Rules /\ rule = "none"
  BY DEF Init
<1> QED BY <1>1, <1>2, Turns DEF IInv, InTurn, AlwaysShapedInv, WellFormedInTurn, RuleDone

LEMMA NextIInv == IInv /\ [Next]_vars => IInv'
<1> SUFFICES ASSUME IInv, [Next]_vars PROVE IInv'
  OBVIOUS
<1> USE DEF IInv, InTurn, AlwaysShapedInv, WellFormedInTurn, RuleDone
<1>1. CASE PushdownPredicates
  <2>1. turn = Rules /\ turn' = AfterPushdown /\ rule' = "pushdown_predicates" /\ before' = query /\ query' = Pushdown(query)
    BY <1>1, Turns DEF PushdownPredicates, Run
  <2>2. Shaped(Pushdown(query))
    BY PushdownShaped
  <2>3. WellFormed(Pushdown(query))
    BY <2>1, PushdownWellFormed
  <2> QED BY <2>1, <2>2, <2>3, Turns
<1>2. CASE OptimizeJoins
  <2>1. /\ turn = AfterPushdown /\ turn' = AfterOptimize /\ rule' = "optimize_joins"
        /\ before' = query /\ query' = Optimize(query) /\ ~RaisesCycle(query)
    BY <1>2, Turns DEF OptimizeJoins, Run
  <2>2. Shaped(Optimize(query))
    BY <2>1, OptimizeShaped
  <2> QED BY <2>1, <2>2, Turns
<1>3. CASE CycleError
  <2>1. turn' = <<>> /\ rule' = "raised" /\ query' = query /\ before' = before
    BY <1>3 DEF CycleError
  <2> QED BY <2>1, Turns
<1>4. CASE EliminateJoins
  <2>1. turn = AfterOptimize /\ turn' = <<>> /\ rule' = "eliminate_joins" /\ before' = query /\ query' = Eliminate(query)
    BY <1>4, Turns DEF EliminateJoins, Run
  <2>2. Shaped(Eliminate(query))
    BY EliminateSame DEF StillTheSame
  <2> QED BY <2>1, <2>2, Turns
<1>5. CASE LeaveOut
  <2>1. turn # <<>> /\ turn' = Tail(turn) /\ query' = query /\ before' = before /\ rule' = rule
    BY <1>5 DEF LeaveOut
  <2>2. /\ turn = Rules => turn' = AfterPushdown
        /\ turn = AfterPushdown => turn' = AfterOptimize
        /\ turn = AfterOptimize => turn' = <<>>
    BY <2>1, Turns
  <2> QED BY <2>1, <2>2, Turns
<1>6. CASE UNCHANGED vars
  BY <1>6 DEF vars
<1> QED BY <1>1, <1>2, <1>3, <1>4, <1>5, <1>6 DEF Next

\* In every state the invariant that the rules need of one another holds: the
\* rule at hand is one of those left, the query has the shape the parser gives
\* it, and until optimize_joins has run its predicates mention what comes
\* before them only.  InitIInv and NextIInv show that it is inductive.
THEOREM AlwaysIInv == Spec => []IInv
  BY InitIInv, NextIInv, PTL DEF Spec

\* Whatever rules have run or been left out, no rule loses what every query
\* has: its first item is one to select from, no two items share an alias, a
\* CROSS join has no condition, and every source is a table, a CTE the query
\* has, or a SELECT or UNION over tables.
THEOREM AlwaysShaped == Spec => []AlwaysShapedInv
<1>1. IInv => AlwaysShapedInv
  BY DEF IInv
<1> QED BY <1>1, AlwaysIInv, PTL

\* For all tables, databases and families of queries: after predicates of the
\* WHERE and of every ON have been pushed to the joins and into the SELECTs they
\* are about, the query answers as many of every row as it did before, unless
\* a join adds rows after them, a constant stands beside an aggregate, or only a
\* part of a disjunction was pushed (PushdownCare).
THEOREM AlwaysPushdownKeepsRows == Spec => []PushdownKeepsRows
<1>1. IInv => PushdownKeepsRows
  BY PushdownSameRows DEF IInv, AlwaysShapedInv, RuleDone, PushdownKeepsRows
<1> QED BY <1>1, AlwaysIInv, PTL

\* For all tables, databases and families of queries: after optimize_joins has
\* moved conjuncts between joins, sorted the joins by what they mention and
\* reworded them, the query answers as many of every row as it did before,
\* unless it took a predicate out of a SEMI join (OptimizeCare).
THEOREM AlwaysOptimizeKeepsRows == Spec => []OptimizeKeepsRows
<1>1. IInv => OptimizeKeepsRows
  BY OptimizeSameRows DEF IInv, AlwaysShapedInv, RuleDone, OptimizeKeepsRows
<1> QED BY <1>1, AlwaysIInv, PTL

\* For all tables, databases and families of queries: after eliminate_joins has
\* dropped the joins it takes to be superfluous, the query answers as many of
\* every row as it did before, if the sources of those joins keep the promises
\* it reads into them (EliminateCare).
THEOREM AlwaysEliminateKeepsRows == Spec => []EliminateKeepsRows
<1>1. IInv => EliminateKeepsRows
  <2>1. EliminateCare(before) => WellFormed(before)
    BY DEF EliminateCare
  <2> QED BY EliminateSameRows DEF IInv, AlwaysShapedInv, RuleDone, EliminateKeepsRows
<1> QED BY <1>1, AlwaysIInv, PTL
=============================================================================
