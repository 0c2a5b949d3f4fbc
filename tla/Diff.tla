-------------------------------- MODULE Diff --------------------------------
(***************************************************************************)
(* diff.js: the matching of two trees, leaves first, and the edit script     *)
(* read off it. A node is its place in breadth-first order; Identifiers,     *)
(* which diff leaves out, are only the name of the node that carries them.   *)
(* The text of a node is the bag of the bigrams of the words in it.          *)
(***************************************************************************)
EXTENDS Naturals, FiniteSetsExt, SequencesExt

CONSTANTS
  Calls,        \* records [source, target, given, shared, deltaOnly]
  Folded(_, _), \* what equals() sees of the plain args of a node, by kind and value
  Grams(_)      \* the bigrams a node's own words have in the SQL text, by its face

VARIABLES call, stage, unmatchedSource, unmatchedTarget,
          leafPairs, nodePairs,     \* sequences: the two Maps in insertion order
          script

vars == <<call, stage, unmatchedSource, unmatchedTarget, leafPairs, nodePairs, script>>

-----------------------------------------------------------------------------
(* Trees: [parent, kind, name, value, slot, attached], one entry per node but *)
(* for the last: the Identifiers the node holds, with their arguments; its    *)
(* plain args as they are written, "" if it has none; the argument of its     *)
(* parent that holds it, with its place if that is a list. The parent of the  *)
(* root is 0; the tree is attached when 0 is a node outside the walk.         *)

Nodes(t) == DOMAIN t.kind

\* The numbers of a set in ascending order: the order in which a walk comes to nodes.
Ascending(S) ==
  [k \in 1 .. Cardinality(S) |-> CHOOSE x \in S : Cardinality({y \in S : y <= x}) = k]

Kids(t, i) == {j \in Nodes(t) : t.parent[j] = i}

Children(t, i) == Ascending(Kids(t, i))

\* All that the SQL text of a node owes to the node itself.
Face(t, i) ==
  LET cs == Children(t, i) IN
  <<t.kind[i], t.name[i], t.value[i], [k \in DOMAIN cs |-> t.slot[cs[k]]]>>

Under(t, i) ==
  LET above[j \in Nodes(t)] == {j} \cup (IF t.parent[j] = 0 THEN {} ELSE above[t.parent[j]])
  IN  {j \in Nodes(t) : i \in above[j]}

\* equals: classes, Identifiers, plain args as they are hashed, and the nodes below, held
\* by the same arguments; the order in which a node got its arguments plays no part.
Same(s, i, t, j) ==
  LET same[p \in Nodes(s) \X Nodes(t)] ==
        LET ks == Kids(s, p[1]) kt == Kids(t, p[2]) IN
        /\ s.kind[p[1]] = t.kind[p[2]] /\ s.name[p[1]] = t.name[p[2]]
        /\ Folded(s.kind[p[1]], s.value[p[1]]) = Folded(t.kind[p[2]], t.value[p[2]])
        /\ {s.slot[a] : a \in ks} = {t.slot[b] : b \in kt}
        /\ \A a \in ks, b \in kt : s.slot[a] = t.slot[b] => same[<<a, b>>]
  IN  same[<<i, j>>]

\* The leaves from i down, in the order of the walk.
ExpressionLeaves(t, i) ==
  LET leaves[a \in Nodes(t)] ==
        LET cs == Children(t, a) IN
        IF cs = <<>> THEN <<a>> ELSE FlattenSeq([k \in DOMAIN cs |-> leaves[cs[k]]])
  IN  leaves[i]

LeafIds(t, i) == {j \in Under(t, i) : \A k \in Nodes(t) : t.parent[k] # j}

Trees == [parent : Seq(Nat), kind : Seq(STRING), name : Seq(STRING), value : Seq(STRING),
          slot : Seq(STRING), attached : BOOLEAN]

\* A walk comes to the root first, to every other node after its parent, and to the
\* children of one node before those of a later one. A slot holds one node.
Walk(t) ==
  LET n == Len(t.kind) IN
  /\ n > 0 /\ n = Len(t.parent) /\ n = Len(t.name) /\ n = Len(t.value) /\ n = Len(t.slot)
  /\ \A i \in 1 .. n : t.parent[i] < i /\ (t.parent[i] = 0 <=> i = 1)
  /\ \A i, j \in 1 .. n : i < j => t.parent[i] <= t.parent[j]
  /\ \A i, j \in 1 .. n : t.parent[i] = t.parent[j] /\ t.slot[i] = t.slot[j] => i = j

(* The caller's pairs are a Map, so that no source node is in two of them;   *)
(* no target node is either, if the pairs are those of a matching.           *)
ASSUME CallsAssumption ==
  /\ \A t \in {c.source : c \in Calls} \cup {c.target : c \in Calls} :
       /\ t \in Trees /\ Walk(t)
       /\ \A i \in Nodes(t) : IsFiniteSet(Grams(Face(t, i)))
  /\ \A c \in Calls :
       /\ c.given \in Seq(Nodes(c.source) \X Nodes(c.target))
       /\ \A k, l \in DOMAIN c.given :
            c.given[k][1] = c.given[l][1] \/ c.given[k][2] = c.given[l][2] => k = l

-----------------------------------------------------------------------------
(* Comparing nodes                                                          *)

\* The kinds of the model: "column", "alias" and "literal" stand for the updatable types,
\* "call" for Anonymous and "join" for Join, whose value (the function, the side) decides
\* whether two of them compare at all; any other is a node with or without a plain value.
Updatable == {"column", "alias", "literal"}

NamesOnly(t, i) == IF t.kind[i] = "call" THEN t.value[i] ELSE ""

\* The args that are not expressions, as they are written; their keys are in the value.
NonExpressionLeaves(t, i) == t.value[i]

SameType(s, i, t, j) ==
  /\ s.kind[i] = t.kind[j]
  /\ s.kind[i] \in {"call", "join"} => s.value[i] = t.value[j]

\* How far up the two nodes have parents of the same class; a parent outside the tree
\* is taken to be of a class of its own and to have no parent.
ParentScore(s, i, t, j) ==
  LET score[p \in (Nodes(s) \cup {0}) \X (Nodes(t) \cup {0})] ==
        IF p[1] = 0 \/ p[2] = 0
        THEN IF p = <<0, 0>> /\ s.attached /\ t.attached THEN 1 ELSE 0
        ELSE IF s.kind[p[1]] # t.kind[p[2]] THEN 0
             ELSE 1 + score[<<s.parent[p[1]], t.parent[p[2]]>>]
  IN  score[<<i, j>>]

BigramHisto(t, i) ==
  LET below == Under(t, i)
      grams == UNION {Grams(Face(t, k)) : k \in below} IN
  [g \in grams |-> Cardinality({k \in below : g \in Grams(Face(t, k))})]

Total(h) == MapThenSumSet(LAMBDA g : h[g], DOMAIN h)

Least(hs, ht) == [g \in DOMAIN hs \cap DOMAIN ht |-> IF hs[g] < ht[g] THEN hs[g] ELSE ht[g]]

\* The coefficient as a numerator and a denominator.
DiceCoefficient(s, i, t, j) ==
  LET hs == BigramHisto(s, i)
      ht == BigramHisto(t, j)
      total == Total(hs) + Total(ht)
      overlap == Total(Least(hs, ht)) IN
  IF total = 0 THEN IF Same(s, i, t, j) THEN <<1, 1>> ELSE <<0, 1>>
  ELSE <<2 * overlap, total>>

AtLeast(fraction, tenths) == 10 * fraction[1] >= tenths * fraction[2]
Above(a, b) == a[1] * b[2] > b[1] * a[2]

F == 6   \* the defaults of f and t, in tenths
T == 6

-----------------------------------------------------------------------------
(* The call: what diff prepares and what ChangeDistiller.diff starts from    *)

\* Trees that share a node are copied, and a copy has no parent.
Walked(c, t) == [t EXCEPT !.attached = @ /\ ~c.shared]

Source == Walked(call, call.source)
Target == Walked(call, call.target)

First(m)  == {p[1] : p \in m}
Second(m) == {p[2] : p \in m}

\* The matching, told from the order in which its pairs are found.
M == INSTANCE Matching WITH
       sources <- Nodes(call.source),
       targets <- Nodes(call.target),
       given <- Range(call.given),
       matching <- Range(leafPairs) \cup Range(nodePairs) \cup Range(call.given)

Init ==
  /\ call \in Calls
  /\ stage = "leaves"
  /\ unmatchedSource = Nodes(call.source) \ First(Range(call.given))
  /\ unmatchedTarget = Nodes(call.target) \ Second(Range(call.given))
  /\ leafPairs = <<>>
  /\ nodePairs = <<>>
  /\ script = <<>>

-----------------------------------------------------------------------------
(* _compute_leaf_matching_set: candidates by similarity, then by how alike   *)
(* their ancestors are, then in the order of the two walks                   *)

CandidatesOfAnyType(s, t) ==
  {p \in LeafIds(s, 1) \X LeafIds(t, 1) : AtLeast(DiceCoefficient(s, p[1], t, p[2]), F)}

Candidates(s, t) ==
  {p \in LeafIds(s, 1) \X LeafIds(t, 1) :
     SameType(s, p[1], t, p[2]) /\ AtLeast(DiceCoefficient(s, p[1], t, p[2]), F)}

Position(seq, x) == CHOOSE k \in DOMAIN seq : seq[k] = x

\* As Before, with the ancestors compared first.
AncestorsFirst(s, t, p, q) ==
  LET pp == ParentScore(s, p[1], t, p[2])
      qp == ParentScore(s, q[1], t, q[2])
      ls == ExpressionLeaves(s, 1)
      lt == ExpressionLeaves(t, 1) IN
  \/ pp > qp
  \/ /\ pp = qp
     /\ \/ Position(ls, p[1]) < Position(ls, q[1])
        \/ p[1] = q[1] /\ Position(lt, p[2]) < Position(lt, q[2])

\* Candidate p comes before candidate q in the sorted list.
Before(s, t, p, q) ==
  LET ps == DiceCoefficient(s, p[1], t, p[2])
      qs == DiceCoefficient(s, q[1], t, q[2])
      pp == ParentScore(s, p[1], t, p[2])
      qp == ParentScore(s, q[1], t, q[2])
      ls == ExpressionLeaves(s, 1)
      lt == ExpressionLeaves(t, 1) IN
  /\ ~Above(qs, ps)
  /\ \/ Above(ps, qs)
     \/ pp > qp
     \/ /\ pp = qp
        /\ \/ Position(ls, p[1]) < Position(ls, q[1])
           \/ p[1] = q[1] /\ Position(lt, p[2]) < Position(lt, q[2])

FreeInSource(s, t) == {p \in Candidates(s, t) : p[1] \in unmatchedSource}

\* The candidates both of whose leaves are free.
Free(s, t) == Candidates(s, t) \cap (unmatchedSource \X unmatchedTarget)

\* The turn of the next candidate that is still free; those before it are passed over.
MatchLeaf ==
  /\ stage = "leaves"
  /\ \E free \in {Free(Source, Target)} : \E p \in free :
       /\ \A q \in free \ {p} : Before(Source, Target, p, q)
       /\ leafPairs' = Append(leafPairs, p)
       /\ unmatchedSource' = unmatchedSource \ {p[1]}
       /\ unmatchedTarget' = unmatchedTarget \ {p[2]}
  /\ UNCHANGED <<call, stage, nodePairs, script>>

LeavesDone ==
  /\ stage = "leaves"
  /\ Free(Source, Target) = {}
  /\ stage' = "nodes"
  /\ UNCHANGED <<call, unmatchedSource, unmatchedTarget, leafPairs, nodePairs, script>>

-----------------------------------------------------------------------------
(* _compute_matching_set: every node that is left, from the root down, takes *)
(* the first node left in the target that it fits                            *)

Fits(i, j) ==
  LET ls == LeafIds(Source, i)
      lt == LeafIds(Target, j)
      few == Min({Cardinality(ls), Cardinality(lt)})
      many == Max({Cardinality(ls), Cardinality(lt)})
      common == Cardinality({p \in Range(leafPairs) : p[1] \in ls /\ p[2] \in lt}) IN
  /\ SameType(Source, i, Target, j)
  /\ \/ AtLeast(<<common, many>>, 8)
     \/ /\ AtLeast(<<common, many>>, IF few > 4 THEN T ELSE 4)
        /\ AtLeast(DiceCoefficient(Source, i, Target, j), F)

\* The pairs the loop over the two trees may still make.
Fitting == {p \in unmatchedSource \X unmatchedTarget : Fits(p[1], p[2])}

MatchNode ==
  /\ stage = "nodes"
  /\ \E fitting \in {Fitting} : \E p \in fitting :
       /\ \A q \in fitting : p[1] < q[1] \/ (p[1] = q[1] /\ p[2] <= q[2])
       /\ nodePairs' = Append(nodePairs, p)
       /\ unmatchedSource' = unmatchedSource \ {p[1]}
       /\ unmatchedTarget' = unmatchedTarget \ {p[2]}
  /\ UNCHANGED <<call, stage, leafPairs, script>>

-----------------------------------------------------------------------------
(* _generate_edit_script                                                    *)

Removed(i)    == [edit |-> "Remove", source |-> i, target |-> 0]
Inserted(j)   == [edit |-> "Insert", source |-> 0, target |-> j]
Moved(i, j)   == [edit |-> "Move", source |-> i, target |-> j]
Updated(i, j) == [edit |-> "Update", source |-> i, target |-> j]
Kept(i, j)    == [edit |-> "Keep", source |-> i, target |-> j]

Matches == leafPairs \o nodePairs \o call.given

Longer(a, b) == IF Len(a) > Len(b) THEN a ELSE b

\* As Lcs, keeping the pairs that come first.
FirstCommon(a, b, m) ==
  LET taken[i \in 0 .. Len(a)] ==   \* the last place of b in use, and what it is in use for
        IF i = 0 THEN <<0, {}>>
        ELSE LET later == {j \in DOMAIN b : j > taken[i - 1][1] /\ <<a[i], b[j]>> \in m} IN
             IF later = {} THEN taken[i - 1] ELSE <<Min(later), taken[i - 1][2] \cup {a[i]}>> IN
  taken[Len(a)][2]

\* _lcs: the elements of a common subsequence of a and b under the matches, from the
\* table of the longest ones of their prefixes.
Lcs(a, b, m) ==
  LET table[p \in (0 .. Len(a)) \X (0 .. Len(b))] ==
        LET i == p[1]
            j == p[2] IN
        IF i = 0 \/ j = 0 THEN <<>>
        ELSE IF <<a[i], b[j]>> \in m THEN Append(table[<<i - 1, j - 1>>], a[i])
             ELSE Longer(table[<<i - 1, j>>], table[<<i, j - 1>>]) IN
  Range(table[<<Len(a), Len(b)>>])

\* As MoveEdits, blind to the order of the children.
MovedElsewhere(i, j) ==
  LET moved == Ascending({a \in Range(Children(Source, i)) :
                            \E b \in Nodes(Target) :
                              <<a, b>> \in Range(Matches) /\ Target.parent[b] # j}) IN
  [k \in DOMAIN moved |->
     Moved(moved[k], CHOOSE b \in Nodes(Target) : <<moved[k], b>> \in Range(Matches))]

\* The children of i that are matched and not where the order of j's children has them.
MoveEdits(i, j) ==
  LET stay == Lcs(Children(Source, i), Children(Target, j), Range(Matches))
      moved == Ascending({a \in Range(Children(Source, i)) :
                            a \notin stay /\ a \notin unmatchedSource})
      partner == [a \in First(Range(Matches)) |->
                    CHOOSE b \in Second(Range(Matches)) : <<a, b>> \in Range(Matches)] IN
  [k \in DOMAIN moved |-> Moved(moved[k], partner[moved[k]])]

\* Two identical nodes have moved unless both are roots or their parents are a pair.
ParentsApart(i, j) ==
  LET outer == Source.parent[i] = 0 /\ ~Source.attached
      other == Target.parent[j] = 0 /\ ~Target.attached IN
  ~(outer /\ other) /\ <<Source.parent[i], Target.parent[j]>> \notin Range(Matches)

Verdict(i, j) ==
  IF NonExpressionLeaves(Source, i) # NonExpressionLeaves(Target, j)
  THEN <<Updated(i, j)>>
  ELSE IF call.deltaOnly THEN <<>> ELSE <<Kept(i, j)>>

\* As Edits, a node that has moved being no longer kept.
EditsOrMove(i, j) ==
  IF Same(Source, i, Target, j)
  THEN IF ParentsApart(i, j) THEN <<Moved(i, j)>> ELSE Verdict(i, j)
  ELSE IF Source.kind[i] \in Updatable THEN <<Updated(i, j)>>
       ELSE MoveEdits(i, j) \o Verdict(i, j)

Edits(i, j) ==
  IF Same(Source, i, Target, j)
  THEN (IF ParentsApart(i, j) THEN <<Moved(i, j)>> ELSE <<>>) \o Verdict(i, j)
  ELSE IF Source.kind[i] \in Updatable THEN <<Updated(i, j)>>
       ELSE MoveEdits(i, j) \o Verdict(i, j)

Generate ==
  /\ stage = "nodes"
  /\ Fitting = {}
  /\ LET removed  == Ascending(unmatchedSource)
         inserted == Ascending(unmatchedTarget) IN
     script' = [k \in DOMAIN removed |-> Removed(removed[k])]
               \o [k \in DOMAIN inserted |-> Inserted(inserted[k])]
               \o FlattenSeq([k \in DOMAIN Matches |-> Edits(Matches[k][1], Matches[k][2])])
  /\ stage' = "done"
  /\ UNCHANGED <<call, unmatchedSource, unmatchedTarget, leafPairs, nodePairs>>

Next == MatchLeaf \/ LeavesDone \/ MatchNode \/ Generate

Spec == Init /\ [][Next]_vars

-----------------------------------------------------------------------------
(* Properties                                                               *)

\* The variables keep their shape, and diff itself pairs only nodes that compare:
\* leaves with leaves in the first half, nodes of one type in both.
TypeOK ==
  /\ stage \in {"leaves", "nodes", "done"}
  /\ unmatchedSource \subseteq Nodes(Source)
  /\ unmatchedTarget \subseteq Nodes(Target)
  /\ leafPairs \in Seq(LeafIds(Source, 1) \X LeafIds(Target, 1))
  /\ nodePairs \in Seq(Nodes(Source) \X Nodes(Target))
  /\ \A p \in Range(leafPairs) \cup Range(nodePairs) : SameType(Source, p[1], Target, p[2])
  /\ stage # "done" => script = <<>>

\* The two halves of the algorithm pair free nodes one by one and never give a pair up
\* or pair a node twice, the caller's pairs included.
MatchSpec == M!Spec

Count(Test(_)) == Cardinality({k \in DOMAIN script : Test(script[k])})

\* The script speaks of every node exactly once: a node of the source is removed, updated
\* or kept, one of the target is inserted, updated or kept, and moves come on top.
Accounted ==
  stage = "done" /\ ~call.deltaOnly =>
    /\ \A i \in Nodes(Source) : Count(LAMBDA e : e.source = i /\ e.edit # "Move") = 1
    /\ \A j \in Nodes(Target) : Count(LAMBDA e : e.target = j /\ e.edit # "Move") = 1

\* A pair that shares a node with p is at least as alike, or the caller's.
Outdone(p) ==
  \E q \in Range(Matches) :
    /\ q[1] = p[1] \/ q[2] = p[2]
    /\ q \in Range(call.given)
       \/ ~Above(DiceCoefficient(Source, p[1], Target, p[2]),
                 DiceCoefficient(Source, q[1], Target, q[2]))

\* The greedy choice of leaves is stable: two leaves that could have been paired and were
\* not have one of them in a pair that is at least as alike (or in a pair of the caller).
Stable ==
  stage # "leaves" => \A p \in Candidates(Source, Target) \ Range(Matches) : Outdone(p)

Edited(edit) == {<<e.source, e.target>> : e \in {f \in Range(script) : f.edit = edit}}

\* A pair whose move edits the script spells out: not identical, not updated as a whole.
Opened(i, j) ==
  /\ <<i, j>> \in Range(Matches)
  /\ Source.kind[i] \notin Updatable
  /\ ~Same(Source, i, Target, j)

Staying(i) == {a \in Nodes(Source) : /\ Source.parent[a] = i /\ a \notin unmatchedSource
                                      /\ a \notin First(Edited("Move"))}

\* A child that is not said to move is a child of the node its parent is paired with, and
\* such children stand in the same order on both sides.
MovesComplete ==
  stage = "done" =>
    \A p \in Range(Matches) : Opened(p[1], p[2]) =>
      LET stay == {q \in Range(Matches) : q[1] \in Staying(p[1])} IN
      /\ \A q \in stay : Target.parent[q[2]] = p[2]
      /\ \A q, r \in stay : q[1] < r[1] => q[2] < r[2]

\* No more children are moved than must be: no larger set of the children that two paired
\* parents have in common stands in the same order on both sides.
MovesMinimal ==
  stage = "done" =>
    \A p \in Range(Matches) : Opened(p[1], p[2]) =>
      LET shared == {q \in Range(Matches) : /\ Source.parent[q[1]] = p[1]
                                            /\ Target.parent[q[2]] = p[2]}
          ordered == {m \in SUBSET shared : \A q, r \in m : q[1] < r[1] => q[2] < r[2]}
          stay == {q \in shared : q[1] \in Lcs(Children(Source, p[1]), Children(Target, p[2]),
                                               Range(Matches))} IN
      /\ stay \in ordered
      /\ \A m \in ordered : Cardinality(m) <= Cardinality(stay)

\* What an empty delta cannot hide: the two nodes are equal, or a pair of which diff looks
\* at the class, the plain values as they are written, and the children in their order.
Alike(s, i, t, j) ==
  LET alike[p \in Nodes(s) \X Nodes(t)] ==
        LET cs == Children(s, p[1]) ct == Children(t, p[2]) IN
        \/ Same(s, p[1], t, p[2])
        \/ /\ s.kind[p[1]] = t.kind[p[2]] /\ s.kind[p[1]] \notin Updatable
           /\ s.value[p[1]] = t.value[p[2]]
           /\ Len(cs) = Len(ct)
           /\ \A k \in DOMAIN cs : alike[<<cs[k], ct[k]>>]
  IN  alike[<<i, j>>]

\* A tree and its copy have an empty delta, if the caller pairs nothing and neither hangs
\* below another node; trees with an empty delta are alike from their roots down, if the
\* caller pairs no nodes of different classes. Between the two: equal trees may have a
\* delta (FOO(a) and foo(a), desc: false and none, are equal and differ as written), and
\* what diff does not look at may differ in trees that have none (the argument that holds
\* a node, as in x[1:] and x[:1]; the Identifiers of a node that is not updatable, as in
\* USING (a) and USING (b) or in a table alias).
DeltaFaithful ==
  LET empty == {e \in Range(script) : e.edit # "Keep"} = {}
      alone == call.given = <<>> /\ ~Source.attached /\ ~Target.attached
      typed == \A p \in Range(call.given) : Source.kind[p[1]] = Target.kind[p[2]]
  IN  stage = "done" => /\ alone /\ Source = Target => empty
                        /\ empty /\ typed => Alike(Source, 1, Target, 1)

=============================================================================
