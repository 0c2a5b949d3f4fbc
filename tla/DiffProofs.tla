----------------------------- MODULE DiffProofs -----------------------------
(***************************************************************************)
(* The greedy matching of diff.js implements Matching, for all trees, all   *)
(* pairs of the caller and all measures of similarity, and what it chooses  *)
(* among the leaves is stable.  The script read off it speaks of every node *)
(* once, and says of all children that must move, and of no others, that    *)
(* they do; it says nothing of a tree and its copy, and something of any    *)
(* two trees that are not alike to diff.                                    *)
(***************************************************************************)
EXTENDS Diff, FiniteSetTheorems, NaturalsInduction, WellFoundedInduction, TLAPS

\* A pair appended to a sequence is added to the pairs in it.
LEMMA AppendRange ==
  ASSUME NEW S, NEW s \in Seq(S), NEW x \in S
  PROVE  Append(s, x) \in Seq(S) /\ Range(Append(s, x)) = Range(s) \cup {x}
<1> DEFINE t == Append(s, x)
<1>1. t \in Seq(S) /\ Len(t) = Len(s) + 1 /\ t[Len(s) + 1] = x
      /\ \A k \in 1 .. Len(s) : t[k] = s[k]
  OBVIOUS
<1>2. DOMAIN s = 1 .. Len(s) /\ DOMAIN t = 1 .. (Len(s) + 1) /\ Len(s) \in Nat
  BY <1>1
<1>3. DOMAIN t = DOMAIN s \cup {Len(s) + 1}
  BY <1>2
<1>4. \A k \in DOMAIN s : t[k] = s[k]
  BY <1>1, <1>2
<1> HIDE DEF t
<1>5. Range(t) = Range(s) \cup {x}
  BY <1>1, <1>3, <1>4 DEF Range
<1> QED BY <1>1, <1>5 DEF t

\* What a sequence holds that is put together from two others.
LEMMA ConcatRange ==
  ASSUME NEW S, NEW s \in Seq(S), NEW t \in Seq(S)
  PROVE  s \o t \in Seq(S) /\ Range(s \o t) = Range(s) \cup Range(t)
<1> DEFINE u == s \o t
<1>1. u \in Seq(S) /\ Len(u) = Len(s) + Len(t)
      /\ DOMAIN u = 1 .. (Len(s) + Len(t)) /\ DOMAIN s = 1 .. Len(s) /\ DOMAIN t = 1 .. Len(t)
      /\ Len(s) \in Nat /\ Len(t) \in Nat
  OBVIOUS
<1>2. \A k \in DOMAIN s : k \in DOMAIN u /\ u[k] = s[k]
  OBVIOUS
<1>3. \A k \in DOMAIN t : Len(s) + k \in DOMAIN u /\ u[Len(s) + k] = t[k]
  OBVIOUS
<1>4. ASSUME NEW k \in DOMAIN u
      PROVE  k \in DOMAIN s \/ \E l \in DOMAIN t : k = Len(s) + l
  <2>1. k \in Nat /\ k >= 1 /\ k <= Len(s) + Len(t)
    BY <1>1
  <2>2. CASE k <= Len(s)
    BY <1>1, <2>1, <2>2
  <2>3. CASE k > Len(s)
    <3>1. k - Len(s) \in DOMAIN t /\ k = Len(s) + (k - Len(s))
      BY <1>1, <2>1, <2>3
    <3> QED BY <3>1
  <2> QED BY <1>1, <2>1, <2>2, <2>3
<1> HIDE DEF u
<1>5. ASSUME NEW x \in Range(u) PROVE x \in Range(s) \cup Range(t)
  <2>1. PICK k \in DOMAIN u : x = u[k]
    BY <1>5 DEF Range
  <2>2. CASE k \in DOMAIN s
    BY <1>2, <2>1, <2>2 DEF Range
  <2>3. CASE \E l \in DOMAIN t : k = Len(s) + l
    BY <1>3, <2>1, <2>3 DEF Range
  <2> QED BY <1>4, <2>2, <2>3
<1>6. ASSUME NEW x \in Range(s) \cup Range(t) PROVE x \in Range(u)
  <2>1. CASE x \in Range(s)
    BY <1>2, <2>1 DEF Range
  <2>2. CASE x \in Range(t)
    BY <1>3, <2>2 DEF Range
  <2> QED BY <2>1, <2>2, <1>6
<1>7. Range(u) = Range(s) \cup Range(t)
  BY <1>5, <1>6
<1> QED BY <1>1, <1>7 DEF u

-----------------------------------------------------------------------------

\* diff drops at most the parent outside the walk.
LEMMA SameNodes ==
  ASSUME NEW c \in Calls
  PROVE  /\ Nodes(Walked(c, c.source)) = Nodes(c.source)
         /\ Nodes(Walked(c, c.target)) = Nodes(c.target)
<1>1. c.source \in Trees /\ c.target \in Trees
  BY CallsAssumption
<1>2. ASSUME NEW t \in Trees PROVE Walked(c, t).kind = t.kind
  BY <1>2 DEF Trees, Walked
<1> QED BY <1>1, <1>2 DEF Nodes

\* Leaves are nodes, and candidates pairs of leaves.
LEMMA LeavesAreNodes ==
  ASSUME NEW s, NEW t, NEW i
  PROVE  /\ LeafIds(s, i) \subseteq Nodes(s)
         /\ Candidates(s, t) \subseteq LeafIds(s, 1) \X LeafIds(t, 1)
BY DEF LeafIds, Under, Candidates

LEMMA FreeLeaves ==
  ASSUME NEW p \in Free(Source, Target)
  PROVE  /\ p \in Candidates(Source, Target) /\ p \in LeafIds(Source, 1) \X LeafIds(Target, 1)
         /\ p \in Nodes(Source) \X Nodes(Target)
         /\ p[1] \in unmatchedSource /\ p[2] \in unmatchedTarget
         /\ SameType(Source, p[1], Target, p[2])
<1>1. p \in Candidates(Source, Target) /\ p \in unmatchedSource \X unmatchedTarget
  BY DEF Free
<1>2. p \in LeafIds(Source, 1) \X LeafIds(Target, 1)
  BY <1>1, LeavesAreNodes
<1>3. p \in Nodes(Source) \X Nodes(Target)
  <2>1. LeafIds(Source, 1) \subseteq Nodes(Source) /\ LeafIds(Target, 1) \subseteq Nodes(Target)
    BY LeavesAreNodes
  <2> QED BY <1>2, <2>1
<1> QED BY <1>1, <1>2, <1>3 DEF Candidates

-----------------------------------------------------------------------------

\* Every variable keeps its shape, and the pairs their types of node.
LEMMA TypeInit == Init => TypeOK
<1> SUFFICES ASSUME Init PROVE TypeOK
  OBVIOUS
<1>1. Nodes(Source) = Nodes(call.source) /\ Nodes(Target) = Nodes(call.target)
  BY SameNodes DEF Init, Source, Target
<1>2. Range(leafPairs) = {} /\ Range(nodePairs) = {}
  BY DEF Init, Range
<1> QED BY <1>1, <1>2 DEF Init, TypeOK

LEMMA TypeNext == TypeOK /\ [Next]_vars => TypeOK'
<1> SUFFICES ASSUME TypeOK, [Next]_vars PROVE TypeOK'
  OBVIOUS
<1>0. call' = call => Source' = Source /\ Target' = Target
  BY DEF Source, Target
<1>1. CASE MatchLeaf
  <2>1. PICK p \in Free(Source, Target) :
          /\ leafPairs' = Append(leafPairs, p)
          /\ unmatchedSource' = unmatchedSource \ {p[1]}
          /\ unmatchedTarget' = unmatchedTarget \ {p[2]}
    BY <1>1 DEF MatchLeaf
  <2>2. UNCHANGED <<call, stage, nodePairs, script>>
    BY <1>1 DEF MatchLeaf
  <2>3. p \in LeafIds(Source, 1) \X LeafIds(Target, 1) /\ SameType(Source, p[1], Target, p[2])
    BY FreeLeaves
  <2>4. leafPairs' \in Seq(LeafIds(Source, 1) \X LeafIds(Target, 1))
        /\ Range(leafPairs') = Range(leafPairs) \cup {p}
    BY <2>1, <2>3, AppendRange DEF TypeOK
  <2> QED BY <1>0, <2>1, <2>2, <2>3, <2>4 DEF TypeOK
<1>2. CASE LeavesDone
  BY <1>0, <1>2 DEF LeavesDone, TypeOK
<1>3. CASE MatchNode
  <2>1. PICK p \in Fitting :
          /\ nodePairs' = Append(nodePairs, p)
          /\ unmatchedSource' = unmatchedSource \ {p[1]}
          /\ unmatchedTarget' = unmatchedTarget \ {p[2]}
    BY <1>3 DEF MatchNode
  <2>2. UNCHANGED <<call, stage, leafPairs, script>>
    BY <1>3 DEF MatchNode
  <2>3. p \in Nodes(Source) \X Nodes(Target) /\ SameType(Source, p[1], Target, p[2])
    BY DEF Fitting, Fits, TypeOK
  <2>4. nodePairs' \in Seq(Nodes(Source) \X Nodes(Target))
        /\ Range(nodePairs') = Range(nodePairs) \cup {p}
    BY <2>1, <2>3, AppendRange DEF TypeOK
  <2> QED BY <1>0, <2>1, <2>2, <2>3, <2>4 DEF TypeOK
<1>4. CASE Generate
  BY <1>0, <1>4 DEF Generate, TypeOK
<1>5. CASE UNCHANGED vars
  BY <1>0, <1>5 DEF vars, TypeOK
<1> QED BY <1>1, <1>2, <1>3, <1>4, <1>5 DEF Next

\* diff pairs leaves with leaves first and nodes of one type only, whatever the trees,
\* the caller's pairs and the words of the nodes are.
THEOREM AlwaysTyped == Spec => []TypeOK
BY TypeInit, TypeNext, PTL DEF Spec

-----------------------------------------------------------------------------

TypedCall == TypeOK /\ call \in Calls

LEMMA CallStays == Spec => []TypedCall
<1>1. Init => TypedCall
  BY TypeInit DEF Init, TypedCall
<1>2. TypedCall /\ [Next]_vars => TypedCall'
  <2> SUFFICES ASSUME TypedCall, [Next]_vars PROVE TypedCall'
    OBVIOUS
  <2>1. call' = call
    BY DEF Next, MatchLeaf, LeavesDone, MatchNode, Generate, vars
  <2> QED BY <2>1, TypeNext DEF TypedCall
<1> QED BY <1>1, <1>2, PTL DEF Spec

\* The pairs behind an edit script, the caller's included.
AllPairs == Range(leafPairs) \cup Range(nodePairs) \cup Range(call.given)

LEMMA MatchesRange == TypedCall => Range(Matches) = AllPairs
<1> SUFFICES ASSUME TypedCall PROVE Range(Matches) = AllPairs
  OBVIOUS
<1> USE DEF TypedCall
<1> DEFINE S == Range(leafPairs) \cup Range(nodePairs) \cup Range(call.given)
<1>1. leafPairs \in Seq(S) /\ nodePairs \in Seq(S) /\ call.given \in Seq(S)
  <2>1. ASSUME NEW X, NEW s \in Seq(X) PROVE s \in Seq(Range(s))
    BY DEF Range
  <2>2. leafPairs \in Seq(Range(leafPairs)) /\ nodePairs \in Seq(Range(nodePairs))
    BY <2>1 DEF TypeOK
  <2>3. call.given \in Seq(Range(call.given))
    BY <2>1, CallsAssumption
  <2> QED BY <2>2, <2>3
<1> HIDE DEF S
<1>2. leafPairs \o nodePairs \in Seq(S)
      /\ Range(leafPairs \o nodePairs) = Range(leafPairs) \cup Range(nodePairs)
  BY <1>1, ConcatRange
<1>3. Range((leafPairs \o nodePairs) \o call.given)
        = Range(leafPairs \o nodePairs) \cup Range(call.given)
  <2> DEFINE m == leafPairs \o nodePairs
             g == call.given
  <2>1. m \in Seq(S) /\ g \in Seq(S)
    BY <1>1, <1>2
  <2> HIDE DEF m, g
  <2>2. Range(m \o g) = Range(m) \cup Range(g)
    BY <2>1, ConcatRange
  <2> QED BY <2>2 DEF m, g
<1>4. Matches = (leafPairs \o nodePairs) \o call.given
  BY DEF Matches
<1> QED BY <1>2, <1>3, <1>4 DEF AllPairs

\* The caller's pairs are what the matching starts from.
LEMMA MatchInit == Init => M!Init
<1> SUFFICES ASSUME Init PROVE M!Init
  OBVIOUS
<1> DEFINE g == call.given
<1>1. g \in Seq(Nodes(call.source) \X Nodes(call.target))
      /\ \A k, l \in DOMAIN g : g[k][1] = g[l][1] \/ g[k][2] = g[l][2] => k = l
  BY CallsAssumption DEF Init
<1>2. Range(leafPairs) = {} /\ Range(nodePairs) = {}
  BY DEF Init, Range
<1> HIDE DEF g
<1>3. Range(g) \subseteq Nodes(call.source) \X Nodes(call.target)
  BY <1>1 DEF Range
<1>4. M!OneToOne(Range(g))
  <2> SUFFICES ASSUME NEW p \in Range(g), NEW q \in Range(g), p[1] = q[1] \/ p[2] = q[2]
               PROVE  p = q
    BY DEF M!OneToOne
  <2>1. PICK k \in DOMAIN g, l \in DOMAIN g : p = g[k] /\ q = g[l]
    BY DEF Range
  <2> QED BY <1>1, <2>1
<1>5. M!First(Range(g)) = First(Range(g)) /\ M!Second(Range(g)) = Second(Range(g))
  BY DEF M!First, First, M!Second, Second
<1>6. g = call.given
  BY DEF g
<1> QED BY <1>2, <1>3, <1>4, <1>5, <1>6 DEF Init, M!Init

\* A leaf or node that is paired is free, and its pair is added; everything else that diff
\* does leaves the matching alone.
LEMMA MatchStep == TypedCall /\ [Next]_vars => [M!Next]_M!vars
<1> SUFFICES ASSUME TypedCall, [Next]_vars PROVE [M!Next]_M!vars
  OBVIOUS
<1> USE DEF TypedCall
<1>0. ASSUME UNCHANGED <<call, unmatchedSource, unmatchedTarget, leafPairs, nodePairs>>
      PROVE  UNCHANGED M!vars
  BY <1>0 DEF M!vars
<1>1. CASE MatchLeaf
  <2>1. PICK p \in Free(Source, Target) :
          /\ leafPairs' = Append(leafPairs, p)
          /\ unmatchedSource' = unmatchedSource \ {p[1]}
          /\ unmatchedTarget' = unmatchedTarget \ {p[2]}
    BY <1>1 DEF MatchLeaf
  <2>2. UNCHANGED <<call, nodePairs>>
    BY <1>1 DEF MatchLeaf
  <2>3. p \in LeafIds(Source, 1) \X LeafIds(Target, 1)
        /\ p[1] \in unmatchedSource /\ p[2] \in unmatchedTarget
    BY FreeLeaves
  <2>4. p = <<p[1], p[2]>>
    BY <2>3
  <2>5. Range(leafPairs') = Range(leafPairs) \cup {<<p[1], p[2]>>}
    BY <2>1, <2>3, <2>4, AppendRange DEF TypeOK
  <2>6. M!Match(p[1], p[2])
    BY <2>1, <2>2, <2>3, <2>5 DEF M!Match
  <2> QED BY <2>3, <2>6 DEF M!Next
<1>2. CASE LeavesDone
  BY <1>0, <1>2 DEF LeavesDone
<1>3. CASE MatchNode
  <2>1. PICK p \in Fitting :
          /\ nodePairs' = Append(nodePairs, p)
          /\ unmatchedSource' = unmatchedSource \ {p[1]}
          /\ unmatchedTarget' = unmatchedTarget \ {p[2]}
    BY <1>3 DEF MatchNode
  <2>2. UNCHANGED <<call, leafPairs>>
    BY <1>3 DEF MatchNode
  <2>3. p \in unmatchedSource \X unmatchedTarget
    BY DEF Fitting
  <2>4. p = <<p[1], p[2]>> /\ p[1] \in unmatchedSource /\ p[2] \in unmatchedTarget
    BY <2>3
  <2>5. Range(nodePairs') = Range(nodePairs) \cup {<<p[1], p[2]>>}
    <3>1. p \in Nodes(Source) \X Nodes(Target)
      BY <2>3 DEF TypeOK
    <3>2. nodePairs \in Seq(Nodes(Source) \X Nodes(Target))
      BY DEF TypeOK
    <3>3. Range(Append(nodePairs, p)) = Range(nodePairs) \cup {p}
      BY <3>1, <3>2, AppendRange
    <3> QED BY <2>1, <2>4, <3>3
  <2>6. M!Match(p[1], p[2])
    BY <2>1, <2>2, <2>4, <2>5 DEF M!Match
  <2> QED BY <2>4, <2>6 DEF M!Next
<1>4. CASE Generate
  BY <1>0, <1>4 DEF Generate
<1>5. CASE UNCHANGED vars
  BY <1>0, <1>5 DEF vars
<1> QED BY <1>1, <1>2, <1>3, <1>4, <1>5 DEF Next

\* The matching of diff implements Matching: free nodes are paired one by one and no pair
\* is given up.
THEOREM DiffImplements == Spec => MatchSpec
<1>1. Spec => M!Init
  BY MatchInit DEF Spec
<1>2. Spec => [][M!Next]_M!vars
  BY CallStays, MatchStep, PTL DEF Spec
<1> QED BY <1>1, <1>2 DEF MatchSpec, M!Spec

\* A pair of two nodes that are in no pair yet leaves a matching one to one.
LEMMA StaysOneToOne ==
  ASSUME NEW m, M!OneToOne(m), NEW s, NEW t, s \notin M!First(m), t \notin M!Second(m)
  PROVE  M!OneToOne(m \cup {<<s, t>>})
<1>1. \A p \in m : p[1] # s /\ p[2] # t
  BY DEF M!First, M!Second
<1> QED BY <1>1 DEF M!OneToOne

\* A pair adds its first node to the matched nodes of the source tree.
LEMMA FirstAdded ==
  ASSUME NEW m, NEW s, NEW t
  PROVE  M!First(m \cup {<<s, t>>}) = M!First(m) \cup {s}
<1> DEFINE n == m \cup {<<s, t>>}
<1>1. ASSUME NEW x \in M!First(n) PROVE x \in M!First(m) \cup {s}
  BY <1>1 DEF M!First
<1>2. ASSUME NEW x \in M!First(m) PROVE x \in M!First(n)
  BY <1>2 DEF M!First
<1>3. s \in M!First(n)
  <2>1. <<s, t>> \in n /\ <<s, t>>[1] = s
    OBVIOUS
  <2> QED BY <2>1 DEF M!First
<1> QED BY <1>1, <1>2, <1>3

\* It adds its second node to those of the target tree.
LEMMA SecondAdded ==
  ASSUME NEW m, NEW s, NEW t
  PROVE  M!Second(m \cup {<<s, t>>}) = M!Second(m) \cup {t}
<1> DEFINE n == m \cup {<<s, t>>}
<1>1. ASSUME NEW x \in M!Second(n) PROVE x \in M!Second(m) \cup {t}
  BY <1>1 DEF M!Second
<1>2. ASSUME NEW x \in M!Second(m) PROVE x \in M!Second(n)
  BY <1>2 DEF M!Second
<1>3. t \in M!Second(n)
  <2>1. <<s, t>> \in n /\ <<s, t>>[2] = t
    OBVIOUS
  <2> QED BY <2>1 DEF M!Second
<1> QED BY <1>1, <1>2, <1>3

\* A pair taken by Match leaves every node free or in one pair.
LEMMA PartitionedNext == M!Partitioned /\ [M!Next]_M!vars => M!Partitioned'
<1> SUFFICES ASSUME M!Partitioned, [M!Next]_M!vars PROVE M!Partitioned'
  OBVIOUS
<1> DEFINE sources == Nodes(call.source)
           targets == Nodes(call.target)
           given == Range(call.given)
           matching == Range(leafPairs) \cup Range(nodePairs) \cup Range(call.given)
<1>1. /\ given \subseteq matching /\ matching \subseteq sources \X targets /\ M!OneToOne(matching)
      /\ unmatchedSource = sources \ M!First(matching) /\ unmatchedTarget = targets \ M!Second(matching)
  BY DEF M!Partitioned
<1>2. CASE UNCHANGED M!vars
  BY <1>2 DEF M!vars, M!Partitioned
<1>3. ASSUME NEW s \in unmatchedSource, NEW t \in unmatchedTarget, M!Match(s, t)
      PROVE  M!Partitioned'
  <2>1. /\ matching' = matching \cup {<<s, t>>}
        /\ unmatchedSource' = unmatchedSource \ {s} /\ unmatchedTarget' = unmatchedTarget \ {t}
        /\ sources' = sources /\ targets' = targets /\ given' = given
    BY <1>3 DEF M!Match
  <2> DEFINE later == matching'
  <2>2. /\ given' \subseteq later /\ later \subseteq sources' \X targets' /\ M!OneToOne(later)
        /\ unmatchedSource' = sources' \ M!First(later) /\ unmatchedTarget' = targets' \ M!Second(later)
    <3>0. later = matching \cup {<<s, t>>}
      BY <2>1
    <3> HIDE DEF later, sources, targets, given, matching
    <3>1. s \in sources /\ s \notin M!First(matching) /\ t \in targets /\ t \notin M!Second(matching)
      BY <1>1
    <3>2. M!OneToOne(later)
      BY <1>1, <3>0, <3>1, StaysOneToOne
    <3>3. M!First(later) = M!First(matching) \cup {s} /\ M!Second(later) = M!Second(matching) \cup {t}
      <4>1. M!First(matching \cup {<<s, t>>}) = M!First(matching) \cup {s}
        BY FirstAdded
      <4>2. M!Second(matching \cup {<<s, t>>}) = M!Second(matching) \cup {t}
        BY SecondAdded
      <4> QED BY <3>0, <4>1, <4>2
    <3>4. <<s, t>> \in sources \X targets
      BY <3>1
    <3>5. unmatchedSource' = sources \ M!First(later) /\ unmatchedTarget' = targets \ M!Second(later)
      BY <1>1, <2>1, <3>3
    <3>6. given \subseteq later /\ later \subseteq sources \X targets
      BY <1>1, <3>0, <3>4
    <3> QED BY <2>1, <3>2, <3>5, <3>6
  <2> QED BY <2>2 DEF M!Partitioned, M!OneToOne, M!First, M!Second
<1> QED BY <1>2, <1>3 DEF M!Next

\* Every node of the two trees is free or in exactly one pair, for all trees, whatever
\* pairs the caller gives as long as no node is in two of them.
THEOREM AlwaysPartitioned == Spec => []M!Partitioned
<1>1. M!Init => M!Partitioned
  BY DEF M!Init, M!Partitioned
<1>2. Spec => M!Init /\ [][M!Next]_M!vars
  BY DiffImplements DEF MatchSpec, M!Spec
<1> QED BY <1>1, <1>2, PartitionedNext, PTL

-----------------------------------------------------------------------------

\* While leaves are paired, a candidate that has not been taken is free or outdone.
StillStable ==
  stage = "leaves" => \A p \in Candidates(Source, Target) \ Range(Matches) :
                        p \in Free(Source, Target) \/ Outdone(p)

StableInv == TypedCall /\ StillStable /\ Stable

\* A candidate that is not free at first has a leaf in a pair of the caller.
LEMMA StableInit == Init => StableInv
<1> SUFFICES ASSUME Init PROVE StableInv
  OBVIOUS
<1>1. TypedCall
  BY TypeInit DEF TypedCall, Init
<1>2. stage = "leaves"
  BY DEF Init
<1>3. ASSUME NEW p \in Candidates(Source, Target), p \notin Free(Source, Target)
      PROVE  Outdone(p)
  <2>1. p \in Nodes(call.source) \X Nodes(call.target)
    <3>1. p \in LeafIds(Source, 1) \X LeafIds(Target, 1)
      BY <1>3, LeavesAreNodes
    <3>2. p \in Nodes(Source) \X Nodes(Target)
      <4>1. LeafIds(Source, 1) \subseteq Nodes(Source) /\ LeafIds(Target, 1) \subseteq Nodes(Target)
        BY LeavesAreNodes
      <4> QED BY <3>1, <4>1
    <3>3. Nodes(Source) = Nodes(call.source) /\ Nodes(Target) = Nodes(call.target)
      BY <1>1, SameNodes DEF TypedCall, Source, Target
    <3> QED BY <3>2, <3>3
  <2>2. p[1] \in First(Range(call.given)) \/ p[2] \in Second(Range(call.given))
    BY <1>3, <2>1 DEF Init, Free
  <2>3. PICK q \in Range(call.given) : q[1] = p[1] \/ q[2] = p[2]
    BY <2>2 DEF First, Second
  <2>4. q \in Range(Matches)
    BY <1>1, MatchesRange DEF AllPairs
  <2> QED BY <2>3, <2>4 DEF Outdone
<1> QED BY <1>1, <1>2, <1>3 DEF StableInv, StillStable, Stable

\* What is outdone remains so while pairs are added.
LEMMA OutdoneStays ==
  ASSUME NEW p, Outdone(p), call' = call, Range(Matches) \subseteq Range(Matches)'
  PROVE  Outdone(p)'
<1>1. Source' = Source /\ Target' = Target
  BY DEF Source, Target
<1> QED BY <1>1 DEF Outdone

LEMMA StableNext == StableInv /\ [Next]_vars => StableInv'
<1> SUFFICES ASSUME StableInv, [Next]_vars PROVE StableInv'
  OBVIOUS
<1>1. TypedCall /\ TypedCall' /\ call' = call
  <2>1. call' = call
    BY DEF Next, MatchLeaf, LeavesDone, MatchNode, Generate, vars
  <2> QED BY <2>1, TypeNext DEF TypedCall, StableInv
<1>2. Source' = Source /\ Target' = Target
  BY <1>1 DEF Source, Target
<1>3. Candidates(Source, Target)' = Candidates(Source, Target)
  BY <1>2
<1>4. /\ Range(Matches) = Range(leafPairs) \cup Range(nodePairs) \cup Range(call.given)
      /\ Range(Matches)' = Range(leafPairs') \cup Range(nodePairs') \cup Range(call.given)
  <2>1. Range(Matches) = AllPairs
    BY <1>1, MatchesRange
  <2>2. (Range(Matches) = AllPairs)'
    BY <1>1, MatchesRange, PTL
  <2> QED BY <1>1, <2>1, <2>2 DEF AllPairs
<1>5. CASE MatchLeaf
  <2>1. PICK p \in Free(Source, Target) :
          /\ \A q \in Free(Source, Target) \ {p} : Before(Source, Target, p, q)
          /\ leafPairs' = Append(leafPairs, p)
          /\ unmatchedSource' = unmatchedSource \ {p[1]}
          /\ unmatchedTarget' = unmatchedTarget \ {p[2]}
    BY <1>5 DEF MatchLeaf
  <2>2. stage = "leaves" /\ stage' = "leaves" /\ UNCHANGED nodePairs
    BY <1>5 DEF MatchLeaf
  <2>3. Range(leafPairs') = Range(leafPairs) \cup {p}
    <3>1. p \in LeafIds(Source, 1) \X LeafIds(Target, 1)
      BY FreeLeaves
    <3>2. leafPairs \in Seq(LeafIds(Source, 1) \X LeafIds(Target, 1))
      BY <1>1 DEF TypedCall, TypeOK
    <3> QED BY <2>1, <3>1, <3>2, AppendRange
  <2>4. Range(Matches)' = Range(Matches) \cup {p}
    BY <1>4, <2>2, <2>3
  <2>5. ASSUME NEW q \in Candidates(Source, Target), q \notin Range(Matches)'
        PROVE  q \in Free(Source, Target)' \/ Outdone(q)'
    <3>1. q \notin Range(Matches) /\ q # p
      BY <2>4, <2>5
    <3>2. CASE Outdone(q)
      BY <1>1, <2>4, <3>2, OutdoneStays
    <3>3. CASE q \in Free(Source, Target) /\ q[1] # p[1] /\ q[2] # p[2]
      BY <1>2, <2>1, <3>3 DEF Free
    <3>4. CASE q \in Free(Source, Target) /\ (q[1] = p[1] \/ q[2] = p[2])
      <4>1. ~Above(DiceCoefficient(Source, q[1], Target, q[2]),
                   DiceCoefficient(Source, p[1], Target, p[2]))
        BY <2>1, <3>1, <3>4 DEF Before
      <4>2. p \in Range(Matches)'
        BY <2>4
      <4> QED BY <1>2, <3>4, <4>1, <4>2 DEF Outdone
    <3> QED BY <2>2, <2>5, <3>1, <3>2, <3>3, <3>4 DEF StableInv, StillStable
  <2> QED BY <1>1, <1>3, <2>2, <2>5 DEF StableInv, StillStable, Stable
<1>6. CASE LeavesDone
  <2>1. stage = "leaves" /\ stage' = "nodes" /\ Free(Source, Target) = {}
        /\ UNCHANGED <<leafPairs, nodePairs>>
    BY <1>6 DEF LeavesDone
  <2>2. Range(Matches)' = Range(Matches)
    BY <1>4, <2>1
  <2>3. ASSUME NEW q \in Candidates(Source, Target), q \notin Range(Matches) PROVE Outdone(q)'
    BY <1>1, <2>1, <2>2, <2>3, OutdoneStays DEF StableInv, StillStable
  <2> QED BY <1>1, <1>3, <2>1, <2>2, <2>3 DEF StableInv, StillStable, Stable
<1>7. CASE MatchNode \/ Generate
  <2>1. stage # "leaves" /\ stage' # "leaves"
    BY <1>7 DEF MatchNode, Generate
  <2>2. Range(Matches) \subseteq Range(Matches)'
    <3>1. CASE Generate
      BY <1>4, <3>1 DEF Generate
    <3>2. CASE MatchNode
      <4>1. PICK p \in Fitting : nodePairs' = Append(nodePairs, p)
        BY <3>2 DEF MatchNode
      <4>2. p \in Nodes(Source) \X Nodes(Target) /\ nodePairs \in Seq(Nodes(Source) \X Nodes(Target))
        BY <1>1 DEF TypedCall, TypeOK, Fitting
      <4>3. Range(nodePairs') = Range(nodePairs) \cup {p}
        BY <4>1, <4>2, AppendRange
      <4>4. leafPairs' = leafPairs
        BY <3>2 DEF MatchNode
      <4> QED BY <1>4, <4>3, <4>4
    <3> QED BY <1>7, <3>1, <3>2
  <2>3. ASSUME NEW q \in Candidates(Source, Target), q \notin Range(Matches)' PROVE Outdone(q)'
    BY <1>1, <2>1, <2>2, <2>3, OutdoneStays DEF StableInv, Stable
  <2> QED BY <1>1, <1>3, <2>1, <2>3 DEF StableInv, StillStable, Stable
<1>8. CASE UNCHANGED vars
  <2>1. UNCHANGED <<stage, unmatchedSource, unmatchedTarget, leafPairs, nodePairs>>
    BY <1>8 DEF vars
  <2>2. Range(Matches)' = Range(Matches) /\ Free(Source, Target)' = Free(Source, Target)
    BY <1>2, <1>4, <2>1 DEF Free
  <2>3. \A q : Outdone(q) => Outdone(q)'
    BY <1>1, <2>2, OutdoneStays
  <2> QED BY <1>1, <1>3, <2>1, <2>2, <2>3 DEF StableInv, StillStable, Stable
<1> QED BY <1>5, <1>6, <1>7, <1>8 DEF Next

\* For all trees, words and pairs of the caller: of two leaves that could have been paired
\* and were not, one is in a pair at least as alike.
THEOREM AlwaysStable == Spec => []Stable
<1>1. StableInv => Stable
  BY DEF StableInv
<1> QED BY <1>1, StableInit, StableNext, PTL DEF Spec

-----------------------------------------------------------------------------
(* The numbers of a set in ascending order: the place of a number is how     *)
(* many of the set are not above it.                                         *)

LEMMA AscendingEnumerates ==
  ASSUME NEW S \in SUBSET Nat, IsFiniteSet(S)
  PROVE  /\ Ascending(S) \in Seq(S)
         /\ Len(Ascending(S)) = Cardinality(S)
         /\ \A x \in S : \E k \in DOMAIN Ascending(S) : Ascending(S)[k] = x
         /\ \A k, l \in DOMAIN Ascending(S) : k < l => Ascending(S)[k] < Ascending(S)[l]
<1> DEFINE upTo(x) == {y \in S : y <= x}
           n == Cardinality(S)
           place == [x \in S |-> Cardinality(upTo(x))]
<1>0. n \in Nat
  BY FS_CardinalityType
<1>1. ASSUME NEW x \in S PROVE IsFiniteSet(upTo(x)) /\ place[x] \in 1 .. n
  <2>1. upTo(x) \in SUBSET S /\ x \in upTo(x)
    OBVIOUS
  <2> DEFINE u == upTo(x)
  <2>2. place[x] = Cardinality(u)
    OBVIOUS
  <2>3. u \in SUBSET S /\ u # {}
    BY <2>1
  <2> HIDE DEF upTo, place, n, u
  <2>4. IsFiniteSet(u) /\ Cardinality(u) <= Cardinality(S)
    BY <2>3, FS_Subset
  <2>5. Cardinality(u) \in Nat /\ Cardinality(u) # 0
    BY <2>3, <2>4, FS_CardinalityType, FS_EmptySet
  <2> QED BY <1>0, <2>2, <2>4, <2>5 DEF n, u
<1>2. ASSUME NEW x \in S, NEW y \in S, x < y PROVE place[x] < place[y]
  <2> DEFINE u == upTo(x)
             v == upTo(y)
  <2>1. u \subseteq v /\ y \in v /\ y \notin u
    <3>1. \A z \in S : z <= x => z <= y
      BY <1>2
    <3>2. y <= y /\ ~(y <= x)
      BY <1>2
    <3> QED BY <3>1, <3>2
  <2>2. IsFiniteSet(v) /\ place[x] = Cardinality(u) /\ place[y] = Cardinality(v)
    BY <1>1
  <2>3. place[x] \in Nat /\ place[y] \in Nat
    BY <1>0, <1>1
  <2> HIDE DEF u, v, upTo, place
  <2>4. Cardinality(u) <= Cardinality(v) /\ Cardinality(u) # Cardinality(v)
    BY <2>1, <2>2, FS_Subset
  <2> QED BY <2>2, <2>3, <2>4
<1> HIDE DEF n
<1>3. \A k \in 1 .. n : \E x \in S : place[x] = k
  <2>1. place \in Injection(S, 1 .. n)
    <3>1. place \in [S -> 1 .. n]
      BY <1>1
    <3>2. ASSUME NEW x \in S, NEW y \in S, place[x] = place[y] PROVE x = y
      <4>1. x \in Nat /\ y \in Nat /\ place[x] \in Nat /\ place[y] \in Nat
        BY <1>0, <1>1
      <4>2. ~(x < y) /\ ~(y < x)
        <5> HIDE DEF place
        <5> QED BY <1>2, <3>2, <4>1
      <4> QED BY <4>1, <4>2
    <3>3. DOMAIN place = S
      OBVIOUS
    <3> HIDE DEF place
    <3> QED BY <3>1, <3>2, <3>3 DEF Injection, IsInjective
  <2>2. IsFiniteSet(1 .. n) /\ Cardinality(1 .. n) = n
    <3>1. Cardinality(1 .. n) = IF 1 > n THEN 0 ELSE n - 1 + 1
      BY <1>0, FS_Interval
    <3> QED BY <1>0, <3>1, FS_Interval
  <2>3. place \in Surjection(S, 1 .. n)
    <3> HIDE DEF place
    <3> QED BY <2>1, <2>2, FS_Injection DEF n
  <2> HIDE DEF place
  <2> QED BY <2>3 DEF Surjection
<1> DEFINE A == Ascending(S)
<1>4. A = [k \in 1 .. n |-> CHOOSE x \in S : Cardinality(upTo(x)) = k]
  BY DEF Ascending, n
<1>5. ASSUME NEW k \in 1 .. n PROVE A[k] \in S /\ place[A[k]] = k
  <2>1. \E x \in S : Cardinality(upTo(x)) = k
    BY <1>3
  <2>2. A[k] = CHOOSE x \in S : Cardinality(upTo(x)) = k
    BY <1>4
  <2> HIDE DEF A, upTo
  <2>3. A[k] \in S /\ Cardinality(upTo(A[k])) = k
    BY <2>1, <2>2
  <2> QED BY <2>3
<1>6. DOMAIN A = 1 .. n
  BY <1>4
<1> HIDE DEF A
<1>7. A \in Seq(S) /\ Len(A) = n
  <2>1. A \in [1 .. n -> S]
    <3> DEFINE at(k) == CHOOSE x \in S : Cardinality(upTo(x)) = k
    <3>1. A = [k \in 1 .. n |-> at(k)]
      BY <1>4
    <3>2. \A k \in 1 .. n : A[k] \in S
      BY <1>5
    <3> HIDE DEF at
    <3> QED BY <3>1, <3>2
  <2> QED BY <1>0, <2>1
<1>8. ASSUME NEW x \in S PROVE \E k \in DOMAIN A : A[k] = x
  <2>1. place[x] \in 1 .. n
    BY <1>1
  <2> DEFINE k == place[x]
  <2>2. A[k] \in S /\ place[A[k]] = place[x]
    BY <1>5, <2>1
  <2>3. A[k] \in Nat /\ x \in Nat /\ place[A[k]] \in Nat
    <3>1. A[k] \in S
      BY <2>2
    <3>2. place[A[k]] \in 1 .. n
      BY <1>1, <3>1
    <3>3. \A i \in 1 .. n : i \in Nat
      BY <1>0
    <3>4. \A y \in S : y \in Nat
      OBVIOUS
    <3> HIDE DEF k, place
    <3> QED BY <3>1, <3>2, <3>3, <3>4, Zenon
  <2>4. ~(A[k] < x) /\ ~(x < A[k])
    <3> HIDE DEF place, k
    <3> QED BY <1>2, <2>2, <2>3
  <2>5. A[k] = x
    <3> HIDE DEF place, k
    <3> QED BY <2>3, <2>4
  <2> QED BY <1>6, <2>1, <2>5
<1>9. ASSUME NEW k \in DOMAIN A, NEW l \in DOMAIN A, k < l PROVE A[k] < A[l]
  <2>1. k \in 1 .. n /\ l \in 1 .. n
    BY <1>6
  <2>2. A[k] \in S /\ A[l] \in S /\ place[A[k]] = k /\ place[A[l]] = l
    BY <1>5, <2>1
  <2> HIDE DEF place
  <2>3. A[l] < A[k] => l < k
    BY <1>2, <2>2
  <2>4. A[k] # A[l]
    BY <1>0, <1>9, <2>1, <2>2
  <2>5. A[k] \in Nat /\ A[l] \in Nat
    BY <2>2
  <2> QED BY <1>0, <1>9, <2>1, <2>3, <2>4, <2>5
<1> QED BY <1>7, <1>8, <1>9 DEF A, n

-----------------------------------------------------------------------------
(* Scripts, and the pairs of nodes their edits are about.                   *)

EditSteps == [edit : {"Remove", "Insert", "Move", "Update", "Keep"}, source : Nat, target : Nat]

\* The places of a script whose edits are no moves, and the pair of nodes an edit is about.
Lasting(s) == {k \in DOMAIN s : s[k].edit # "Move"}
Subject(e) == <<e.source, e.target>>

\* Apart from moves, s is about the pairs in A and about each of them once.
Says(s, A) ==
  /\ s \in Seq(EditSteps)
  /\ \A k \in Lasting(s) : Subject(s[k]) \in A
  /\ \A a \in A : \E k \in Lasting(s) : Subject(s[k]) = a
  /\ \A k, l \in Lasting(s) : Subject(s[k]) = Subject(s[l]) => k = l

LEMMA SaysNothing ==
  ASSUME NEW s \in Seq(EditSteps), \A k \in DOMAIN s : s[k].edit = "Move"
  PROVE  Says(s, {})
BY DEF Says, Lasting

LEMMA SaysOne ==
  ASSUME NEW e \in EditSteps, e.edit # "Move"
  PROVE  Says(<<e>>, {Subject(e)})
<1> DEFINE s == <<e>>
<1>1. s \in Seq(EditSteps) /\ DOMAIN s = {1} /\ s[1] = e
  <2> HIDE DEF EditSteps
  <2> QED OBVIOUS
<1> HIDE DEF s
<1>2. Lasting(s) = {1}
  BY <1>1 DEF Lasting
<1>3. Says(s, {Subject(e)})
  BY <1>1, <1>2 DEF Says
<1> QED BY <1>3 DEF s

\* Where the elements of s \o t come from.
LEMMA Joined ==
  ASSUME NEW X, NEW s \in Seq(X), NEW t \in Seq(X)
  PROVE  /\ s \o t \in Seq(X) /\ Len(s) \in Nat
         /\ DOMAIN (s \o t) = DOMAIN s \cup {Len(s) + k : k \in DOMAIN t}
         /\ \A k \in DOMAIN s : k \in Nat /\ k <= Len(s) /\ (s \o t)[k] = s[k]
         /\ \A k \in DOMAIN t : k \in Nat /\ k > 0 /\ (s \o t)[Len(s) + k] = t[k]
<1> DEFINE u == s \o t
           m == Len(s)
           n == Len(t)
<1>1. /\ u \in Seq(X) /\ m \in Nat /\ n \in Nat
      /\ DOMAIN u = 1 .. m + n /\ DOMAIN s = 1 .. m /\ DOMAIN t = 1 .. n
  OBVIOUS
<1>2. \A k \in 1 .. m : u[k] = s[k]
  OBVIOUS
<1>3. \A k \in 1 .. n : u[m + k] = t[k]
  OBVIOUS
<1> HIDE DEF u, m, n
<1>4. 1 .. m + n = 1 .. m \cup {m + k : k \in 1 .. n}
  <2>1. ASSUME NEW k \in 1 .. m + n, k \notin 1 .. m
        PROVE  \E l \in 1 .. n : k = m + l
    <3>1. k - m \in 1 .. n /\ k = m + (k - m)
      BY <1>1, <2>1
    <3> QED BY <3>1
  <2>2. \A k \in 1 .. n : m + k \in 1 .. m + n
    BY <1>1
  <2>3. 1 .. m \subseteq 1 .. m + n
    BY <1>1
  <2> QED BY <2>1, <2>2, <2>3
<1>5. DOMAIN u = DOMAIN s \cup {m + k : k \in DOMAIN t}
  BY <1>1, <1>4
<1>6. \A k \in DOMAIN s : k \in Nat /\ k <= m /\ u[k] = s[k]
  BY <1>1, <1>2
<1>7. \A k \in DOMAIN t : k \in Nat /\ k > 0 /\ u[m + k] = t[k]
  BY <1>1, <1>3
<1> QED BY <1>1, <1>5, <1>6, <1>7 DEF u, m

LEMMA SaysBoth ==
  ASSUME NEW s, NEW t, NEW A, NEW B, Says(s, A), Says(t, B), A \cap B = {}
  PROVE  Says(s \o t, A \cup B)
<1> DEFINE u == s \o t
           m == Len(s)
<1>1. s \in Seq(EditSteps) /\ t \in Seq(EditSteps)
  BY DEF Says
<1> HIDE DEF EditSteps
<1>2. /\ u \in Seq(EditSteps) /\ m \in Nat
      /\ DOMAIN u = DOMAIN s \cup {m + k : k \in DOMAIN t}
      /\ \A k \in DOMAIN s : k \in Nat /\ k <= m /\ u[k] = s[k]
      /\ \A k \in DOMAIN t : k \in Nat /\ k > 0 /\ u[m + k] = t[k]
  BY <1>1, Joined
<1> HIDE DEF u, m
<1>3. ASSUME NEW k \in Lasting(s) PROVE k \in Lasting(u) /\ u[k] = s[k]
  BY <1>2 DEF Lasting
<1>4. ASSUME NEW k \in Lasting(t) PROVE m + k \in Lasting(u) /\ u[m + k] = t[k]
  BY <1>2 DEF Lasting
<1>5. ASSUME NEW k \in Lasting(u)
      PROVE  \/ k \in Lasting(s) /\ u[k] = s[k]
             \/ \E l \in Lasting(t) : k = m + l /\ u[k] = t[l]
  <2>1. k \in DOMAIN u /\ u[k].edit # "Move"
    BY DEF Lasting
  <2>2. CASE k \in DOMAIN s
    BY <1>2, <2>1, <2>2 DEF Lasting
  <2>3. CASE \E l \in DOMAIN t : k = m + l
    BY <1>2, <2>1, <2>3 DEF Lasting
  <2> QED BY <1>2, <2>1, <2>2, <2>3
<1>6. ASSUME NEW k \in Lasting(u) PROVE Subject(u[k]) \in A \cup B
  BY <1>5 DEF Says
<1>7. ASSUME NEW a \in A \cup B PROVE \E k \in Lasting(u) : Subject(u[k]) = a
  <2>1. CASE a \in A
    <3>1. PICK k \in Lasting(s) : Subject(s[k]) = a
      BY <2>1 DEF Says
    <3> QED BY <1>3, <3>1
  <2>2. CASE a \in B
    <3>1. PICK k \in Lasting(t) : Subject(t[k]) = a
      BY <2>2 DEF Says
    <3> QED BY <1>4, <3>1
  <2> QED BY <2>1, <2>2
<1>8. ASSUME NEW k \in Lasting(u), NEW l \in Lasting(u), Subject(u[k]) = Subject(u[l])
      PROVE  k = l
  <2>1. CASE k \in Lasting(s) /\ u[k] = s[k] /\ l \in Lasting(s) /\ u[l] = s[l]
    BY <1>8, <2>1 DEF Says
  <2>2. ASSUME NEW v \in Lasting(u), v \in Lasting(s), u[v] = s[v],
               NEW w \in Lasting(u), \E x \in Lasting(t) : w = m + x /\ u[w] = t[x],
               Subject(u[v]) = Subject(u[w])
        PROVE  FALSE
    BY <2>2 DEF Says
  <2>3. CASE /\ \E x \in Lasting(t) : k = m + x /\ u[k] = t[x]
             /\ \E x \in Lasting(t) : l = m + x /\ u[l] = t[x]
    BY <1>8, <2>3 DEF Says
  <2> QED BY <1>5, <1>8, <2>1, <2>2, <2>3
<1>9. Says(u, A \cup B)
  BY <1>2, <1>6, <1>7, <1>8 DEF Says
<1> QED BY <1>9 DEF u

-----------------------------------------------------------------------------
(* FlattenSeq appends one sequence after the other.                          *)

\* Induction, over a set instead of a predicate: what holds of 0 and goes from i - 1 to i
\* holds up to n.
LEMMA InductionUpTo ==
  ASSUME NEW n \in Nat, NEW S, 0 \in S, \A i \in 1 .. n : i - 1 \in S => i \in S
  PROVE  0 .. n \subseteq S
<1> DEFINE R == {ss \in Nat \X Nat : ss[1] < ss[2]}
           W == (0 .. n) \ S
<1>1. IsWellFoundedOn(R, Nat)
  <2>1. R = OpToRel(<, Nat)
    BY Zenon DEF OpToRel
  <2>2. IsWellFoundedOn(OpToRel(<, Nat), Nat)
    BY NatLessThanWellFounded, Zenon
  <2> QED BY <2>1, <2>2, Zenon
<1>2. \A x, y \in Nat : <<y, x>> \in R <=> y < x
  OBVIOUS
<1>3. W \subseteq Nat
  OBVIOUS
<1> HIDE DEF R, W
<1>4. ASSUME W # {} PROVE FALSE
  <2>1. PICK x \in W : \A y \in W : ~(<<y, x>> \in R)
    BY <1>1, <1>3, <1>4, WFMin
  <2>2. \A y \in W : ~(y < x)
    BY <1>2, <1>3, <2>1
  <2>3. x \in 0 .. n /\ x \notin S
    BY DEF W
  <2>4. x \in 1 .. n /\ x - 1 \in 0 .. n /\ x - 1 < x
    BY <2>3
  <2>5. x - 1 \in S
    BY <2>2, <2>4 DEF W
  <2> QED BY <2>3, <2>4, <2>5
<1> QED BY <1>4 DEF W

\* The table of FlattenSeq, and its row i from the rows g before it.
FlatRow(q, g, i) == IF i = 1 THEN q[i] ELSE g[i - 1] \o q[i]

FlatTo(q) == CHOOSE g : g = [i \in 1 .. Len(q) |-> FlatRow(q, g, i)]

LEMMA FlattenIsTheLastRow ==
  ASSUME NEW q, Len(q) # 0 PROVE FlattenSeq(q) = FlatTo(q)[Len(q)]
BY DEF FlattenSeq, FlatTo, FlatRow

LEMMA FlatToIsTheTable ==
  ASSUME NEW X, NEW q \in Seq(X)
  PROVE  FlatTo(q) = [i \in 1 .. Len(q) |-> FlatRow(q, FlatTo(q), i)]
<1> DEFINE n == Len(q)
           Table(m, g) == g = [i \in 1 .. m |-> FlatRow(q, g, i)]
           S == {m \in 0 .. n : \E g : Table(m, g)}
<1>0. n \in Nat
  OBVIOUS
<1>1. 0 \in S
  <2>1. Table(0, [i \in 1 .. 0 |-> FlatRow(q, q, i)])
    OBVIOUS
  <2> HIDE DEF Table
  <2> QED BY <1>0, <2>1
<1>2. ASSUME NEW m \in 1 .. n, m - 1 \in S PROVE m \in S
  <2>1. PICK g : Table(m - 1, g)
    BY <1>2
  <2> DEFINE h == [i \in 1 .. m |-> IF i = m THEN FlatRow(q, g, m) ELSE g[i]]
  <2>2. ASSUME NEW i \in 1 .. m PROVE h[i] = FlatRow(q, h, i)
    <3>1. FlatRow(q, h, i) = FlatRow(q, g, i)
      <4>1. i # 1 => i - 1 \in 1 .. m /\ i - 1 # m
        OBVIOUS
      <4>2. i # 1 => h[i - 1] = g[i - 1]
        BY <4>1
      <4> HIDE DEF h
      <4> QED BY <4>2 DEF FlatRow
    <3>2. h[i] = FlatRow(q, g, i)
      <4>1. i # m => i \in 1 .. m - 1
        OBVIOUS
      <4>2. i # m => g[i] = FlatRow(q, g, i)
        BY <2>1, <4>1
      <4> QED BY <4>2
    <3> QED BY <3>1, <3>2
  <2>3. Table(m, h)
    <3>1. h = [i \in 1 .. m |-> h[i]]
      OBVIOUS
    <3> HIDE DEF h
    <3> QED BY <2>2, <3>1
  <2> HIDE DEF Table, h
  <2>4. m \in 0 .. n
    OBVIOUS
  <2> QED BY <2>3, <2>4
<1>3. n \in S
  <2> HIDE DEF S
  <2>1. 0 .. n \subseteq S
    BY <1>0, <1>1, <1>2, InductionUpTo
  <2> QED BY <1>0, <2>1
<1>4. \E g : Table(n, g)
  BY <1>3
<1> QED BY <1>4 DEF FlatTo

\* If the elements of q are about sets of pairs that have no pair in common, q flattened
\* is about all of them.
LEMMA SaysFlat ==
  ASSUME NEW X, NEW q \in Seq(X), NEW A,
         \A k \in 1 .. Len(q) : Says(q[k], A[k]),
         \A k, l \in 1 .. Len(q) : k # l => A[k] \cap A[l] = {}
  PROVE  Says(FlattenSeq(q), UNION {A[k] : k \in 1 .. Len(q)})
<1> DEFINE n == Len(q)
           g == FlatTo(q)
           About(i) == UNION {A[k] : k \in 1 .. i}
           S == {i \in 0 .. n : i = 0 \/ Says(g[i], About(i))}
<1>0. n \in Nat
  OBVIOUS
<1>1. g = [i \in 1 .. n |-> FlatRow(q, g, i)]
  BY FlatToIsTheTable
<1> HIDE DEF g
<1>2. ASSUME NEW i \in 1 .. n, i - 1 \in S PROVE i \in S
  <2>1. g[i] = FlatRow(q, g, i)
    BY <1>1
  <2>2. i \in 0 .. n
    OBVIOUS
  <2>3. CASE i = 1
    <3>1. g[i] = q[i]
      BY <2>1, <2>3 DEF FlatRow
    <3>2. About(i) = A[i]
      BY <2>3
    <3> HIDE DEF About
    <3> QED BY <2>2, <3>1, <3>2
  <2>4. CASE i # 1
    <3>1. g[i] = g[i - 1] \o q[i]
      BY <2>1, <2>4 DEF FlatRow
    <3>2. Says(g[i - 1], About(i - 1)) /\ Says(q[i], A[i])
      BY <1>2, <2>4
    <3>3. 1 .. i = 1 .. (i - 1) \cup {i} /\ i \notin 1 .. (i - 1) /\ 1 .. i - 1 \subseteq 1 .. n
      OBVIOUS
    <3>4. About(i) = About(i - 1) \cup A[i]
      BY <3>3
    <3>5. About(i - 1) \cap A[i] = {}
      BY <3>3
    <3> HIDE DEF About
    <3>6. Says(g[i - 1] \o q[i], About(i - 1) \cup A[i])
      BY <3>2, <3>5, SaysBoth
    <3> QED BY <2>2, <3>1, <3>4, <3>6
  <2> QED BY <2>3, <2>4
<1>3. n \in S
  <2>1. 0 \in S
    BY <1>0
  <2> HIDE DEF S
  <2>2. 0 .. n \subseteq S
    BY <1>0, <1>2, <2>1, InductionUpTo
  <2> QED BY <1>0, <2>2
<1>4. CASE n = 0
  <2>1. FlattenSeq(q) = <<>> /\ About(n) = {}
    <3>1. q = <<>>
      BY <1>4
    <3>2. FlattenSeq(q) = q
      BY <1>4 DEF FlattenSeq
    <3>3. 1 .. n = {}
      BY <1>4
    <3> HIDE DEF n
    <3> QED BY <3>1, <3>2, <3>3
  <2>2. Says(<<>>, {})
    <3>1. <<>> \in Seq(EditSteps) /\ \A k \in DOMAIN <<>> : <<>>[k].edit = "Move"
      <4> HIDE DEF EditSteps
      <4> QED OBVIOUS
    <3> QED BY <3>1, SaysNothing
  <2> QED BY <2>1, <2>2
<1>5. CASE n # 0
  <2>1. FlattenSeq(q) = g[n]
    BY <1>5, FlattenIsTheLastRow DEF g
  <2>2. Says(g[n], About(n))
    BY <1>3, <1>5
  <2> QED BY <2>1, <2>2
<1> QED BY <1>4, <1>5

-----------------------------------------------------------------------------

LEMMA NodesAreNumbers ==
  TypedCall => /\ Nodes(Source) \in SUBSET (Nat \ {0}) /\ IsFiniteSet(Nodes(Source))
               /\ Nodes(Target) \in SUBSET (Nat \ {0}) /\ IsFiniteSet(Nodes(Target))
<1>1. ASSUME NEW t \in Trees
      PROVE  Nodes(t) \in SUBSET (Nat \ {0}) /\ IsFiniteSet(Nodes(t))
  <2> DEFINE n == Len(t.kind)
  <2>1. t.kind \in Seq(STRING)
    BY DEF Trees
  <2>2. Nodes(t) = 1 .. n /\ n \in Nat
    BY <2>1 DEF Nodes
  <2> HIDE DEF n
  <2>3. IsFiniteSet(1 .. n)
    BY <2>2, FS_Interval
  <2>4. 1 .. n \in SUBSET (Nat \ {0})
    BY <2>2
  <2> QED BY <2>2, <2>3, <2>4
<1> SUFFICES ASSUME TypedCall PROVE /\ Nodes(Source) \in SUBSET (Nat \ {0})
                                    /\ IsFiniteSet(Nodes(Source))
                                    /\ Nodes(Target) \in SUBSET (Nat \ {0})
                                    /\ IsFiniteSet(Nodes(Target))
  OBVIOUS
<1>2. call.source \in Trees /\ call.target \in Trees
  BY CallsAssumption DEF TypedCall
<1>3. Nodes(Source) = Nodes(call.source) /\ Nodes(Target) = Nodes(call.target)
  BY SameNodes DEF TypedCall, Source, Target
<1> QED BY <1>1, <1>2, <1>3

\* One edit that is no move for every node of a set is a script about these nodes.
LEMMA SaysEach ==
  ASSUME NEW S \in SUBSET Nat, IsFiniteSet(S), NEW e,
         \A x \in S : e[x] \in EditSteps /\ e[x].edit # "Move",
         \A x, y \in S : Subject(e[x]) = Subject(e[y]) => x = y
  PROVE  Says([k \in DOMAIN Ascending(S) |-> e[Ascending(S)[k]]], {Subject(e[x]) : x \in S})
<1> DEFINE r == Ascending(S)
           s == [k \in DOMAIN r |-> e[r[k]]]
<1>1. /\ r \in Seq(S)
      /\ \A x \in S : \E k \in DOMAIN r : r[k] = x
      /\ \A k, l \in DOMAIN r : k < l => r[k] < r[l]
  BY AscendingEnumerates
<1> HIDE DEF r
<1>2. DOMAIN r = 1 .. Len(r) /\ Len(r) \in Nat /\ \A k \in DOMAIN r : r[k] \in S
  BY <1>1
<1>3. \A k, l \in DOMAIN r : r[k] = r[l] => k = l
  <2> SUFFICES ASSUME NEW k \in DOMAIN r, NEW l \in DOMAIN r, r[k] = r[l] PROVE k = l
    OBVIOUS
  <2>1. k \in Nat /\ l \in Nat /\ r[k] \in Nat
    <3>1. k \in 1 .. Len(r) /\ l \in 1 .. Len(r) /\ r[k] \in S
      BY <1>2
    <3>2. \A m \in 1 .. Len(r) : m \in Nat
      BY <1>2
    <3>3. \A x \in S : x \in Nat
      OBVIOUS
    <3> QED BY <3>1, <3>2, <3>3, Zenon
  <2>2. ~(r[k] < r[l]) /\ ~(r[l] < r[k])
    BY <2>1
  <2>3. ~(k < l) /\ ~(l < k)
    BY <1>1, <2>2
  <2> QED BY <2>1, <2>3
<1>4. DOMAIN s = DOMAIN r /\ \A k \in DOMAIN r : s[k] = e[r[k]]
  OBVIOUS
<1> HIDE DEF EditSteps
<1>5. s \in Seq(EditSteps)
  <2>1. \A k \in 1 .. Len(r) : e[r[k]] \in EditSteps
    BY <1>2
  <2> DEFINE at(k) == e[r[k]]
  <2>2. s = [k \in 1 .. Len(r) |-> at(k)]
    BY <1>2
  <2>3. \A k \in 1 .. Len(r) : at(k) \in EditSteps
    BY <2>1
  <2> HIDE DEF at, s
  <2> QED BY <1>2, <2>2, <2>3
<1> HIDE DEF s
<1>6. Lasting(s) = DOMAIN r
  <2>1. \A k \in DOMAIN r : s[k].edit # "Move"
    BY <1>2, <1>4, Zenon
  <2> QED BY <1>4, <2>1 DEF Lasting
<1>7. Says(s, {Subject(e[x]) : x \in S})
  <2>1. \A k \in Lasting(s) : Subject(s[k]) \in {Subject(e[x]) : x \in S}
    BY <1>2, <1>4, <1>6
  <2>2. ASSUME NEW a \in {Subject(e[x]) : x \in S}
        PROVE  \E k \in Lasting(s) : Subject(s[k]) = a
    <3>1. PICK x \in S : a = Subject(e[x])
      OBVIOUS
    <3>2. PICK k \in DOMAIN r : r[k] = x
      BY <1>1
    <3> QED BY <1>4, <1>6, <3>1, <3>2
  <2>3. ASSUME NEW k \in Lasting(s), NEW l \in Lasting(s), Subject(s[k]) = Subject(s[l])
        PROVE  k = l
    <3>1. s[k] = e[r[k]] /\ s[l] = e[r[l]] /\ r[k] \in S /\ r[l] \in S
      BY <1>2, <1>4, <1>6
    <3>2. r[k] = r[l]
      BY <2>3, <3>1
    <3> QED BY <1>3, <1>6, <3>2
  <2> QED BY <1>5, <2>1, <2>2, <2>3 DEF Says
<1> QED BY <1>7 DEF s, r

\* Moves alone say nothing about what becomes of a node.
LEMMA SaysMoves ==
  ASSUME NEW S \in SUBSET Nat, IsFiniteSet(S), NEW f, \A x \in S : f[x] \in Nat
  PROVE  Says([k \in DOMAIN Ascending(S) |-> Moved(Ascending(S)[k], f[Ascending(S)[k]])], {})
<1> DEFINE r == Ascending(S)
           s == [k \in DOMAIN r |-> Moved(r[k], f[r[k]])]
<1>1. r \in Seq(S)
  BY AscendingEnumerates
<1> HIDE DEF r
<1>2. DOMAIN r = 1 .. Len(r) /\ Len(r) \in Nat /\ \A k \in DOMAIN r : r[k] \in S
  BY <1>1
<1>3. \A k \in DOMAIN r : Moved(r[k], f[r[k]]) \in EditSteps
  BY <1>2 DEF Moved, EditSteps
<1>4. \A k \in DOMAIN r : Moved(r[k], f[r[k]]).edit = "Move"
  BY DEF Moved
<1>5. s \in Seq(EditSteps) /\ \A k \in DOMAIN s : s[k].edit = "Move"
  <2> DEFINE at(k) == Moved(r[k], f[r[k]])
  <2> HIDE DEF at, EditSteps
  <2>1. \A k \in 1 .. Len(r) : at(k) \in EditSteps /\ at(k).edit = "Move"
    BY <1>2, <1>3, <1>4 DEF at
  <2>2. s = [k \in 1 .. Len(r) |-> at(k)]
    BY <1>2 DEF at
  <2> HIDE DEF s
  <2> QED BY <1>2, <2>1, <2>2
<1>6. Says(s, {})
  BY <1>5, SaysNothing
<1> QED BY <1>6 DEF s, r

\* Exactly one place is about a node that is in exactly one pair.
LEMMA SaysOfSource ==
  ASSUME NEW s, NEW A, Says(s, A), NEW i, NEW a \in A, a[1] = i, \A b \in A : b[1] = i => b = a
  PROVE  Cardinality({k \in DOMAIN s : s[k].source = i /\ s[k].edit # "Move"}) = 1
<1> DEFINE K == {k \in DOMAIN s : s[k].source = i /\ s[k].edit # "Move"}
<1>1. PICK k \in Lasting(s) : Subject(s[k]) = a
  BY DEF Says
<1>2. k \in K
  BY <1>1 DEF Lasting, Subject
<1>3. ASSUME NEW l \in K PROVE l = k
  <2>1. l \in Lasting(s) /\ Subject(s[l])[1] = i
    BY DEF Lasting, Subject
  <2>2. Subject(s[l]) = a
    BY <2>1 DEF Says
  <2> QED BY <1>1, <2>1, <2>2 DEF Says
<1>4. K = {k}
  <2> HIDE DEF K
  <2> QED BY <1>2, <1>3
<1> QED BY <1>4, FS_Singleton

LEMMA SaysOfTarget ==
  ASSUME NEW s, NEW A, Says(s, A), NEW j, NEW a \in A, a[2] = j, \A b \in A : b[2] = j => b = a
  PROVE  Cardinality({k \in DOMAIN s : s[k].target = j /\ s[k].edit # "Move"}) = 1
<1> DEFINE K == {k \in DOMAIN s : s[k].target = j /\ s[k].edit # "Move"}
<1>1. PICK k \in Lasting(s) : Subject(s[k]) = a
  BY DEF Says
<1>2. k \in K
  BY <1>1 DEF Lasting, Subject
<1>3. ASSUME NEW l \in K PROVE l = k
  <2>1. l \in Lasting(s) /\ Subject(s[l])[2] = j
    BY DEF Lasting, Subject
  <2>2. Subject(s[l]) = a
    BY <2>1 DEF Says
  <2> QED BY <1>1, <2>1, <2>2 DEF Says
<1>4. K = {k}
  <2> HIDE DEF K
  <2> QED BY <1>2, <1>3
<1> QED BY <1>4, FS_Singleton

\* No node is in two pairs of s; no node is in a pair of m and in one of r.
Distinct(s) == \A k, l \in DOMAIN s : s[k][1] = s[l][1] \/ s[k][2] = s[l][2] => k = l
Apart(m, r) == \A p \in m, q \in r : p[1] # q[1] /\ p[2] # q[2]

LEMMA DistinctAppend ==
  ASSUME NEW X, NEW s \in Seq(X), NEW p \in X, Distinct(s),
         p[1] \notin First(Range(s)), p[2] \notin Second(Range(s))
  PROVE  Distinct(Append(s, p))
<1> DEFINE t == Append(s, p)
           n == Len(s)
<1>1. n \in Nat /\ DOMAIN s = 1 .. n /\ DOMAIN t = 1 .. n + 1
  OBVIOUS
<1>2. t[n + 1] = p /\ \A k \in 1 .. n : t[k] = s[k]
  OBVIOUS
<1> HIDE DEF t, n
<1>3. \A k \in 1 .. n : s[k][1] \in First(Range(s)) /\ s[k][2] \in Second(Range(s))
  BY <1>1 DEF First, Second, Range
<1>4. \A k \in 1 .. n + 1 : k \in 1 .. n \/ k = n + 1
  BY <1>1
<1>5. \A k, l \in DOMAIN t : t[k][1] = t[l][1] \/ t[k][2] = t[l][2] => k = l
  <2> SUFFICES ASSUME NEW k \in 1 .. n + 1, NEW l \in 1 .. n + 1,
                      t[k][1] = t[l][1] \/ t[k][2] = t[l][2]
               PROVE  k = l
    BY <1>1
  <2>1. CASE k \in 1 .. n /\ l \in 1 .. n
    BY <1>1, <1>2, <2>1 DEF Distinct
  <2>2. CASE k \in 1 .. n /\ l = n + 1
    BY <1>2, <1>3, <2>2
  <2>3. CASE k = n + 1 /\ l \in 1 .. n
    BY <1>2, <1>3, <2>3
  <2> QED BY <1>4, <2>1, <2>2, <2>3
<1> QED BY <1>5 DEF Distinct, t

LEMMA DistinctBoth ==
  ASSUME NEW X, NEW s \in Seq(X), NEW t \in Seq(X), Distinct(s), Distinct(t),
         Apart(Range(s), Range(t))
  PROVE  Distinct(s \o t)
<1> DEFINE u == s \o t
           m == Len(s)
<1>1. /\ m \in Nat /\ DOMAIN u = DOMAIN s \cup {m + k : k \in DOMAIN t}
      /\ \A k \in DOMAIN s : u[k] = s[k]
      /\ \A k \in DOMAIN t : u[m + k] = t[k]
  BY Joined
<1> HIDE DEF u, m
<1>2. \A k \in DOMAIN s : u[k] \in Range(s)
  BY <1>1 DEF Range
<1>3. \A k \in DOMAIN t : u[m + k] \in Range(t)
  BY <1>1 DEF Range
<1>4. ASSUME NEW k \in DOMAIN s, NEW l \in DOMAIN t
      PROVE  u[k][1] # u[m + l][1] /\ u[k][2] # u[m + l][2]
  BY <1>2, <1>3 DEF Apart
<1>5. \A k, l \in DOMAIN u : u[k][1] = u[l][1] \/ u[k][2] = u[l][2] => k = l
  <2> SUFFICES ASSUME NEW k \in DOMAIN u, NEW l \in DOMAIN u,
                      u[k][1] = u[l][1] \/ u[k][2] = u[l][2]
               PROVE  k = l
    OBVIOUS
  <2>1. CASE k \in DOMAIN s /\ l \in DOMAIN s
    BY <1>1, <2>1 DEF Distinct
  <2>2. CASE /\ \E x \in DOMAIN t : k = m + x
             /\ \E x \in DOMAIN t : l = m + x
    <3>1. PICK x \in DOMAIN t, y \in DOMAIN t : k = m + x /\ l = m + y
      BY <2>2
    <3>2. t[x] = u[k] /\ t[y] = u[l]
      BY <1>1, <3>1
    <3>3. t[x][1] = t[y][1] \/ t[x][2] = t[y][2]
      BY <3>2
    <3>4. x = y
      BY <3>3 DEF Distinct
    <3> QED BY <3>1, <3>4
  <2>3. CASE k \in DOMAIN s /\ \E x \in DOMAIN t : l = m + x
    BY <1>4, <2>3
  <2>4. CASE l \in DOMAIN s /\ \E x \in DOMAIN t : k = m + x
    BY <1>4, <2>4
  <2> QED BY <1>1, <2>1, <2>2, <2>3, <2>4
<1> QED BY <1>5 DEF Distinct, u

-----------------------------------------------------------------------------

\* Nodes are free or in one pair, and the caller's pairs, the leaves and the other nodes
\* share none.
PairedOnce ==
  /\ Distinct(leafPairs) /\ Distinct(nodePairs)
  /\ Apart(Range(leafPairs), Range(nodePairs))
  /\ Apart(Range(leafPairs) \cup Range(nodePairs), Range(call.given))
  /\ unmatchedSource = Nodes(Source) \ First(AllPairs)
  /\ unmatchedTarget = Nodes(Target) \ Second(AllPairs)

\* One more pair, of nodes that are in none of three sets of pairs.
LEMMA ApartOneMore ==
  ASSUME NEW L, NEW N, NEW G, NEW p,
         p[1] \notin First(L \cup N \cup G), p[2] \notin Second(L \cup N \cup G),
         Apart(L, N), Apart(L \cup N, G)
  PROVE  /\ Apart(L \cup {p}, N) /\ Apart((L \cup {p}) \cup N, G)
         /\ Apart(L, N \cup {p}) /\ Apart(L \cup (N \cup {p}), G)
<1>1. \A q \in L \cup N \cup G : q[1] # p[1] /\ q[2] # p[2]
  BY DEF First, Second
<1> QED BY <1>1 DEF Apart

LEMMA FirstOneMore ==
  ASSUME NEW m, NEW p
  PROVE  First(m \cup {p}) = First(m) \cup {p[1]} /\ Second(m \cup {p}) = Second(m) \cup {p[2]}
BY DEF First, Second

LEMMA PairedInit == Init => PairedOnce
<1> SUFFICES ASSUME Init PROVE PairedOnce
  OBVIOUS
<1>1. Range(leafPairs) = {} /\ Range(nodePairs) = {}
  BY DEF Init, Range
<1>2. AllPairs = Range(call.given)
  BY <1>1 DEF AllPairs
<1>3. Nodes(Source) = Nodes(call.source) /\ Nodes(Target) = Nodes(call.target)
  BY SameNodes DEF Init, Source, Target
<1>4. DOMAIN leafPairs = {} /\ DOMAIN nodePairs = {}
  BY DEF Init
<1>5. First({}) = {} /\ Second({}) = {}
  BY DEF First, Second
<1>6. /\ unmatchedSource = Nodes(call.source) \ First(Range(call.given))
      /\ unmatchedTarget = Nodes(call.target) \ Second(Range(call.given))
  BY DEF Init
<1> QED BY <1>1, <1>2, <1>3, <1>4, <1>5, <1>6 DEF PairedOnce, Distinct, Apart

\* A pair of free nodes that is added keeps all that.
LEMMA PairedOneMore ==
  ASSUME TypedCall, PairedOnce, call' = call, NEW p,
         p[1] \in unmatchedSource, p[2] \in unmatchedTarget,
         \/ /\ Distinct(leafPairs') /\ nodePairs' = nodePairs
            /\ Range(leafPairs') = Range(leafPairs) \cup {p}
         \/ /\ Distinct(nodePairs') /\ leafPairs' = leafPairs
            /\ Range(nodePairs') = Range(nodePairs) \cup {p},
         unmatchedSource' = unmatchedSource \ {p[1]},
         unmatchedTarget' = unmatchedTarget \ {p[2]}
  PROVE  PairedOnce'
<1> DEFINE L == Range(leafPairs)
           N == Range(nodePairs)
           G == Range(call.given)
<1>1. Source' = Source /\ Target' = Target /\ G' = G
  BY DEF Source, Target
<1>2. AllPairs = L \cup N \cup G /\ AllPairs' = AllPairs \cup {p}
  BY <1>1 DEF AllPairs
<1> DEFINE A == AllPairs
<1>3. First(A \cup {p}) = First(A) \cup {p[1]} /\ Second(A \cup {p}) = Second(A) \cup {p[2]}
  <2> HIDE DEF A
  <2> QED BY FirstOneMore
<1>4. /\ unmatchedSource' = Nodes(Source') \ First(AllPairs')
      /\ unmatchedTarget' = Nodes(Target') \ Second(AllPairs')
  BY <1>1, <1>2, <1>3 DEF PairedOnce
<1>5. p[1] \notin First(L \cup N \cup G) /\ p[2] \notin Second(L \cup N \cup G)
  BY <1>2 DEF PairedOnce
<1>6. Apart(L, N) /\ Apart(L \cup N, G)
  BY DEF PairedOnce
<1>7. Apart(L', N') /\ Apart(L' \cup N', G)
  <2>1. /\ Apart(L \cup {p}, N) /\ Apart((L \cup {p}) \cup N, G)
        /\ Apart(L, N \cup {p}) /\ Apart(L \cup (N \cup {p}), G)
    <3> HIDE DEF L, N, G
    <3> QED BY <1>5, <1>6, ApartOneMore
  <2>2. (L' = L \cup {p} /\ N' = N) \/ (N' = N \cup {p} /\ L' = L)
    OBVIOUS
  <2> DEFINE LL == L'
             NN == N'
  <2>3. (LL = L \cup {p} /\ NN = N) \/ (NN = N \cup {p} /\ LL = L)
    BY <2>2
  <2>4. Apart(LL, NN) /\ Apart(LL \cup NN, G)
    <3> HIDE DEF L, N, G, LL, NN
    <3> QED BY <2>1, <2>3
  <2> QED BY <2>4 DEF Apart
<1>8. Distinct(leafPairs') /\ Distinct(nodePairs')
  BY DEF PairedOnce
<1> QED BY <1>1, <1>4, <1>7, <1>8 DEF PairedOnce, Apart

LEMMA PairedNext == TypedCall /\ PairedOnce /\ [Next]_vars => PairedOnce'
<1> SUFFICES ASSUME TypedCall, PairedOnce, [Next]_vars PROVE PairedOnce'
  OBVIOUS
<1>0. ASSUME UNCHANGED <<call, unmatchedSource, unmatchedTarget, leafPairs, nodePairs>>
      PROVE  PairedOnce'
  BY <1>0 DEF PairedOnce, AllPairs, Source, Target
<1>a. ASSUME NEW p, p[1] \in unmatchedSource, p[2] \in unmatchedTarget
      PROVE  /\ p[1] \notin First(Range(leafPairs)) /\ p[2] \notin Second(Range(leafPairs))
             /\ p[1] \notin First(Range(nodePairs)) /\ p[2] \notin Second(Range(nodePairs))
  <2>1. /\ First(Range(leafPairs)) \cup First(Range(nodePairs)) \subseteq First(AllPairs)
        /\ Second(Range(leafPairs)) \cup Second(Range(nodePairs)) \subseteq Second(AllPairs)
    BY DEF AllPairs, First, Second
  <2>2. p[1] \notin First(AllPairs) /\ p[2] \notin Second(AllPairs)
    BY <1>a DEF PairedOnce
  <2> QED BY <2>1, <2>2
<1>1. CASE MatchLeaf
  <2>1. PICK p \in Free(Source, Target) :
          /\ leafPairs' = Append(leafPairs, p)
          /\ unmatchedSource' = unmatchedSource \ {p[1]}
          /\ unmatchedTarget' = unmatchedTarget \ {p[2]}
    BY <1>1 DEF MatchLeaf
  <2>2. call' = call /\ nodePairs' = nodePairs
    BY <1>1 DEF MatchLeaf
  <2> DEFINE X == LeafIds(Source, 1) \X LeafIds(Target, 1)
  <2>3. p \in X /\ p[1] \in unmatchedSource /\ p[2] \in unmatchedTarget
    BY FreeLeaves
  <2>4. leafPairs \in Seq(X)
    BY DEF TypedCall, TypeOK
  <2> HIDE DEF X
  <2>5. Range(leafPairs') = Range(leafPairs) \cup {p}
    BY <2>1, <2>3, <2>4, AppendRange
  <2>6. Distinct(leafPairs')
    <3>1. Distinct(leafPairs)
      BY DEF PairedOnce
    <3> QED BY <1>a, <2>1, <2>3, <2>4, <3>1, DistinctAppend
  <2> QED BY <2>1, <2>2, <2>3, <2>5, <2>6, PairedOneMore
<1>2. CASE LeavesDone
  BY <1>0, <1>2 DEF LeavesDone
<1>3. CASE MatchNode
  <2>1. PICK p \in Fitting :
          /\ nodePairs' = Append(nodePairs, p)
          /\ unmatchedSource' = unmatchedSource \ {p[1]}
          /\ unmatchedTarget' = unmatchedTarget \ {p[2]}
    BY <1>3 DEF MatchNode
  <2>2. call' = call /\ leafPairs' = leafPairs
    BY <1>3 DEF MatchNode
  <2> DEFINE X == Nodes(Source) \X Nodes(Target)
  <2>3. p \in unmatchedSource \X unmatchedTarget
    BY DEF Fitting
  <2>4. nodePairs \in Seq(X) /\ p \in X /\ p[1] \in unmatchedSource /\ p[2] \in unmatchedTarget
    BY <2>3 DEF TypedCall, TypeOK
  <2> HIDE DEF X
  <2>5. Range(nodePairs') = Range(nodePairs) \cup {p}
    BY <2>1, <2>4, AppendRange
  <2>6. Distinct(nodePairs')
    <3>1. Distinct(nodePairs)
      BY DEF PairedOnce
    <3> QED BY <1>a, <2>1, <2>4, <3>1, DistinctAppend
  <2> QED BY <2>1, <2>2, <2>4, <2>5, <2>6, PairedOneMore
<1>4. CASE Generate
  BY <1>0, <1>4 DEF Generate
<1>5. CASE UNCHANGED vars
  BY <1>0, <1>5 DEF vars
<1> QED BY <1>1, <1>2, <1>3, <1>4, <1>5 DEF Next

\* So the pairs the script is made from are pairs of nodes, all different.
LEMMA MatchesOnce ==
  TypedCall /\ PairedOnce =>
    Matches \in Seq(Nodes(Source) \X Nodes(Target)) /\ Distinct(Matches)
<1> SUFFICES ASSUME TypedCall, PairedOnce
             PROVE  Matches \in Seq(Nodes(Source) \X Nodes(Target)) /\ Distinct(Matches)
  OBVIOUS
<1> DEFINE X == Nodes(Source) \X Nodes(Target)
           s == leafPairs
           t == nodePairs
           g == call.given
<1>1. s \in Seq(X)
  <2>1. LeafIds(Source, 1) \subseteq Nodes(Source) /\ LeafIds(Target, 1) \subseteq Nodes(Target)
    BY LeavesAreNodes
  <2>2. LeafIds(Source, 1) \X LeafIds(Target, 1) \subseteq X
    BY <2>1
  <2> DEFINE Y == LeafIds(Source, 1) \X LeafIds(Target, 1)
  <2>3. s \in Seq(Y)
    BY DEF TypedCall, TypeOK
  <2> HIDE DEF X, Y, s
  <2> QED BY <2>2, <2>3 DEF Y
<1>2. t \in Seq(X)
  BY DEF TypedCall, TypeOK
<1>3. g \in Seq(X) /\ Distinct(g)
  <2>1. Nodes(Source) = Nodes(call.source) /\ Nodes(Target) = Nodes(call.target)
    BY SameNodes DEF TypedCall, Source, Target
  <2>2. /\ call.given \in Seq(Nodes(call.source) \X Nodes(call.target))
        /\ \A k, l \in DOMAIN call.given :
             call.given[k][1] = call.given[l][1] \/ call.given[k][2] = call.given[l][2] => k = l
    BY CallsAssumption DEF TypedCall
  <2> QED BY <2>1, <2>2 DEF Distinct
<1>4. Distinct(s) /\ Distinct(t) /\ Apart(Range(s), Range(t))
      /\ Apart(Range(s) \cup Range(t), Range(g))
  BY DEF PairedOnce
<1>5. Matches = (s \o t) \o g
  BY DEF Matches
<1> HIDE DEF X, s, t, g
<1>6. s \o t \in Seq(X) /\ Range(s \o t) = Range(s) \cup Range(t)
  BY <1>1, <1>2, ConcatRange
<1>7. Distinct(s \o t)
  BY <1>1, <1>2, <1>4, DistinctBoth
<1> DEFINE u == s \o t
<1>8. u \in Seq(X) /\ Distinct(u) /\ Apart(Range(u), Range(g)) /\ Matches = u \o g
  BY <1>4, <1>5, <1>6, <1>7
<1> HIDE DEF u
<1>9. u \o g \in Seq(X)
  BY <1>3, <1>8, ConcatRange
<1>10. Distinct(u \o g)
  BY <1>3, <1>8, DistinctBoth
<1> QED BY <1>8, <1>9, <1>10 DEF X

\* A pair that matched nodes are taken from is a pair of nodes.
LEMMA PairsAreNodes ==
  ASSUME TypedCall, PairedOnce
  PROVE  /\ Range(Matches) = AllPairs
         /\ AllPairs \subseteq Nodes(Source) \X Nodes(Target)
<1>1. Range(Matches) = AllPairs
  BY MatchesRange
<1>2. Matches \in Seq(Nodes(Source) \X Nodes(Target))
  BY MatchesOnce
<1>3. Range(Matches) \subseteq Nodes(Source) \X Nodes(Target)
  <2> DEFINE X == Nodes(Source) \X Nodes(Target)
             s == Matches
  <2>1. s \in Seq(X)
    BY <1>2
  <2> HIDE DEF X, s
  <2>2. Range(s) \subseteq X
    BY <2>1 DEF Range
  <2> QED BY <2>2 DEF X, s
<1> QED BY <1>1, <1>3

\* The edits of a pair are about this pair and no other, apart from moves.
LEMMA MoveEditsSay ==
  ASSUME TypedCall, PairedOnce, NEW i, NEW j
  PROVE  Says(MoveEdits(i, j), {})
<1> DEFINE stay == Lcs(Children(Source, i), Children(Target, j), Range(Matches))
           S == {a \in Range(Children(Source, i)) : a \notin stay /\ a \notin unmatchedSource}
           partner == [a \in First(Range(Matches)) |->
                         CHOOSE b \in Second(Range(Matches)) : <<a, b>> \in Range(Matches)]
<1>1. MoveEdits(i, j) =
        [k \in DOMAIN Ascending(S) |-> Moved(Ascending(S)[k], partner[Ascending(S)[k]])]
  BY Zenon DEF MoveEdits
<1>2. /\ Nodes(Source) \in SUBSET (Nat \ {0}) /\ IsFiniteSet(Nodes(Source))
      /\ Nodes(Target) \in SUBSET (Nat \ {0})
  BY NodesAreNumbers
<1>3. Range(Children(Source, i)) \subseteq Nodes(Source)
  <2> DEFINE C == {a \in Nodes(Source) : Source.parent[a] = i}
             r == Ascending(C)
  <2>1. C \in SUBSET Nat /\ IsFiniteSet(C)
    <3>1. C \in SUBSET Nodes(Source)
      OBVIOUS
    <3> HIDE DEF C
    <3> QED BY <1>2, <3>1, FS_Subset
  <2>2. Children(Source, i) = r
    BY DEF Children, Kids
  <2> HIDE DEF C
  <2>3. r \in Seq(C)
    BY <2>1, AscendingEnumerates
  <2> HIDE DEF r
  <2>4. Range(r) \subseteq C
    BY <2>3 DEF Range
  <2> QED BY <2>2, <2>4 DEF C
<1>4. S \in SUBSET Nat /\ IsFiniteSet(S)
  <2>1. S \in SUBSET Nodes(Source)
    BY <1>3
  <2> HIDE DEF S
  <2> QED BY <1>2, <2>1, FS_Subset
<1>5. ASSUME NEW x \in S PROVE partner[x] \in Nat
  <2>1. x \in Nodes(Source) /\ x \notin unmatchedSource
    BY <1>3
  <2>2. x \in First(Range(Matches))
    BY <2>1, PairsAreNodes DEF PairedOnce
  <2>3. PICK p \in Range(Matches) : p[1] = x
    BY <2>2 DEF First
  <2>4. p = <<x, p[2]>> /\ p[2] \in Second(Range(Matches))
    <3>1. p \in Nodes(Source) \X Nodes(Target)
      BY PairsAreNodes
    <3> QED BY <2>3, <3>1 DEF Second
  <2> DEFINE to == CHOOSE b \in Second(Range(Matches)) : <<x, b>> \in Range(Matches)
  <2>5. to \in Second(Range(Matches))
    BY <2>3, <2>4
  <2>6. partner[x] = to
    BY <2>2
  <2> HIDE DEF to, partner
  <2>7. PICK q \in Range(Matches) : q[2] = to
    BY <2>5 DEF Second
  <2>8. q \in Nodes(Source) \X Nodes(Target)
    BY PairsAreNodes
  <2>9. to \in Nodes(Target)
    BY <2>7, <2>8
  <2> QED BY <1>2, <2>6, <2>9
<1> HIDE DEF S, partner
<1> QED BY <1>1, <1>4, <1>5, SaysMoves

LEMMA VerdictSays ==
  ASSUME ~call.deltaOnly, NEW i \in Nat, NEW j \in Nat
  PROVE  /\ Says(Verdict(i, j), {<<i, j>>})
         /\ Says(<<Updated(i, j)>>, {<<i, j>>})
<1>1. Updated(i, j) \in EditSteps /\ Kept(i, j) \in EditSteps
  BY DEF Updated, Kept, EditSteps
<1>2. /\ Updated(i, j).edit # "Move" /\ Kept(i, j).edit # "Move"
      /\ Subject(Updated(i, j)) = <<i, j>> /\ Subject(Kept(i, j)) = <<i, j>>
  BY DEF Updated, Kept, Subject
<1>3. Says(<<Updated(i, j)>>, {<<i, j>>}) /\ Says(<<Kept(i, j)>>, {<<i, j>>})
  <2>1. Says(<<Updated(i, j)>>, {Subject(Updated(i, j))})
        /\ Says(<<Kept(i, j)>>, {Subject(Kept(i, j))})
    BY <1>1, <1>2, SaysOne
  <2> QED BY <1>2, <2>1
<1>4. Verdict(i, j) = <<Updated(i, j)>> \/ Verdict(i, j) = <<Kept(i, j)>>
  BY DEF Verdict
<1> QED BY <1>3, <1>4

LEMMA EditsSay ==
  ASSUME TypedCall, PairedOnce, ~call.deltaOnly, NEW p \in AllPairs
  PROVE  Says(Edits(p[1], p[2]), {p})
<1> DEFINE i == p[1]
           j == p[2]
<1>1. p = <<i, j>> /\ i \in Nat /\ j \in Nat
  <2>1. p \in Nodes(Source) \X Nodes(Target)
    BY PairsAreNodes
  <2>2. Nodes(Source) \subseteq Nat /\ Nodes(Target) \subseteq Nat
    BY NodesAreNumbers
  <2> QED BY <2>1, <2>2
<1> HIDE DEF i, j
<1>2. Says(Verdict(i, j), {p}) /\ Says(<<Updated(i, j)>>, {p})
  BY <1>1, VerdictSays
<1>3. ASSUME NEW s, Says(s, {}) PROVE Says(s \o Verdict(i, j), {p})
  <2>1. Says(s \o Verdict(i, j), {} \cup {p})
    BY <1>2, <1>3, SaysBoth
  <2>2. {} \cup {p} = {p}
    OBVIOUS
  <2> QED BY <2>1, <2>2
<1>4. Says(<<>>, {}) /\ Says(<<Moved(i, j)>>, {})
  <2>1. Moved(i, j) \in EditSteps /\ Moved(i, j).edit = "Move"
    BY <1>1 DEF Moved, EditSteps
  <2>2. <<>> \in Seq(EditSteps) /\ <<Moved(i, j)>> \in Seq(EditSteps)
    <3> HIDE DEF EditSteps
    <3> QED BY <2>1
  <2>3. /\ \A k \in DOMAIN <<>> : <<>>[k].edit = "Move"
        /\ \A k \in DOMAIN <<Moved(i, j)>> : <<Moved(i, j)>>[k].edit = "Move"
    BY <2>1
  <2> QED BY <2>2, <2>3, SaysNothing
<1>5. Says(MoveEdits(i, j), {})
  BY MoveEditsSay
<1>6. Says(Edits(i, j), {p})
  <2>1. CASE Same(Source, i, Target, j)
    <3>1. \/ Edits(i, j) = <<Moved(i, j)>> \o Verdict(i, j)
          \/ Edits(i, j) = <<>> \o Verdict(i, j)
      BY <2>1 DEF Edits
    <3> QED BY <1>3, <1>4, <3>1
  <2>2. CASE ~Same(Source, i, Target, j) /\ Source.kind[i] \in Updatable
    BY <1>2, <2>2 DEF Edits
  <2>3. CASE ~Same(Source, i, Target, j) /\ Source.kind[i] \notin Updatable
    <3>1. Edits(i, j) = MoveEdits(i, j) \o Verdict(i, j)
      BY <2>3 DEF Edits
    <3> QED BY <1>3, <1>5, <3>1
  <2> QED BY <2>1, <2>2, <2>3
<1> QED BY <1>6 DEF i, j

\* Every node that is left is removed or inserted.
LEMMA LeftoversSay ==
  ASSUME TypedCall, PairedOnce
  PROVE  LET removed == Ascending(unmatchedSource)
             inserted == Ascending(unmatchedTarget) IN
         /\ Says([k \in DOMAIN removed |-> Removed(removed[k])],
                 {<<i, 0>> : i \in unmatchedSource})
         /\ Says([k \in DOMAIN inserted |-> Inserted(inserted[k])],
                 {<<0, j>> : j \in unmatchedTarget})
<1> DEFINE removed == Ascending(unmatchedSource)
           inserted == Ascending(unmatchedTarget)
           R == [k \in DOMAIN removed |-> Removed(removed[k])]
           I == [k \in DOMAIN inserted |-> Inserted(inserted[k])]
           A == {<<i, 0>> : i \in unmatchedSource}
           B == {<<0, j>> : j \in unmatchedTarget}
<1>1. /\ Nodes(Source) \in SUBSET (Nat \ {0}) /\ IsFiniteSet(Nodes(Source))
      /\ Nodes(Target) \in SUBSET (Nat \ {0}) /\ IsFiniteSet(Nodes(Target))
  BY NodesAreNumbers
<1>2. /\ unmatchedSource \in SUBSET (Nat \ {0}) /\ IsFiniteSet(unmatchedSource)
      /\ unmatchedTarget \in SUBSET (Nat \ {0}) /\ IsFiniteSet(unmatchedTarget)
  <2>1. unmatchedSource \in SUBSET Nodes(Source) /\ unmatchedTarget \in SUBSET Nodes(Target)
    BY DEF PairedOnce
  <2>2. IsFiniteSet(unmatchedSource) /\ IsFiniteSet(unmatchedTarget)
    BY <1>1, <2>1, FS_Subset
  <2> QED BY <1>1, <2>1, <2>2
<1>3. Says(R, A)
  <2> DEFINE S == unmatchedSource
             e == [x \in S |-> Removed(x)]
             r == Ascending(S)
  <2>1. S \in SUBSET Nat /\ IsFiniteSet(S)
    BY <1>2
  <2>2. \A x \in S : e[x] \in EditSteps /\ e[x].edit # "Move" /\ Subject(e[x]) = <<x, 0>>
    BY <2>1 DEF Removed, EditSteps, Subject
  <2>3. r \in Seq(S)
    BY <2>1, AscendingEnumerates
  <2>4. R = [k \in DOMAIN r |-> e[r[k]]]
    <3>1. \A k \in DOMAIN r : r[k] \in S
      BY <2>3
    <3>2. \A k \in DOMAIN r : e[r[k]] = Removed(r[k])
      BY <3>1
    <3> HIDE DEF e
    <3> QED BY <3>2
  <2> HIDE DEF e, S, R
  <2>5. \A x, y \in S : Subject(e[x]) = Subject(e[y]) => x = y
    BY <2>2
  <2>6. Says([k \in DOMAIN Ascending(S) |-> e[Ascending(S)[k]]], {Subject(e[x]) : x \in S})
    BY <2>1, <2>2, <2>5, SaysEach
  <2>7. {Subject(e[x]) : x \in S} = A
    BY <2>2 DEF S
  <2> QED BY <2>4, <2>6, <2>7
<1>4. Says(I, B)
  <2> DEFINE S == unmatchedTarget
             e == [x \in S |-> Inserted(x)]
             r == Ascending(S)
  <2>1. S \in SUBSET Nat /\ IsFiniteSet(S)
    BY <1>2
  <2>2. \A x \in S : e[x] \in EditSteps /\ e[x].edit # "Move" /\ Subject(e[x]) = <<0, x>>
    BY <2>1 DEF Inserted, EditSteps, Subject
  <2>3. r \in Seq(S)
    BY <2>1, AscendingEnumerates
  <2>4. I = [k \in DOMAIN r |-> e[r[k]]]
    <3>1. \A k \in DOMAIN r : r[k] \in S
      BY <2>3
    <3>2. \A k \in DOMAIN r : e[r[k]] = Inserted(r[k])
      BY <3>1
    <3> HIDE DEF e
    <3> QED BY <3>2
  <2> HIDE DEF e, S, I
  <2>5. \A x, y \in S : Subject(e[x]) = Subject(e[y]) => x = y
    BY <2>2
  <2>6. Says([k \in DOMAIN Ascending(S) |-> e[Ascending(S)[k]]], {Subject(e[x]) : x \in S})
    BY <2>1, <2>2, <2>5, SaysEach
  <2>7. {Subject(e[x]) : x \in S} = B
    BY <2>2 DEF S
  <2> QED BY <2>4, <2>6, <2>7
<1> QED BY <1>3, <1>4

\* The script is about the nodes that are left, each for itself, and about every pair.
LEMMA ScriptSays ==
  ASSUME TypedCall, PairedOnce, Generate, ~call.deltaOnly
  PROVE  Says(script', {<<i, 0>> : i \in unmatchedSource}
                       \cup {<<0, j>> : j \in unmatchedTarget} \cup AllPairs)
<1> DEFINE removed == Ascending(unmatchedSource)
           inserted == Ascending(unmatchedTarget)
           R == [k \in DOMAIN removed |-> Removed(removed[k])]
           I == [k \in DOMAIN inserted |-> Inserted(inserted[k])]
           q == [k \in DOMAIN Matches |-> Edits(Matches[k][1], Matches[k][2])]
           A == {<<i, 0>> : i \in unmatchedSource}
           B == {<<0, j>> : j \in unmatchedTarget}
<1>1. script' = (R \o I) \o FlattenSeq(q)
  BY DEF Generate
<1>2. /\ Nodes(Source) \in SUBSET (Nat \ {0}) /\ IsFiniteSet(Nodes(Source))
      /\ Nodes(Target) \in SUBSET (Nat \ {0}) /\ IsFiniteSet(Nodes(Target))
  BY NodesAreNumbers
<1>3. /\ unmatchedSource \in SUBSET (Nat \ {0}) /\ IsFiniteSet(unmatchedSource)
      /\ unmatchedTarget \in SUBSET (Nat \ {0}) /\ IsFiniteSet(unmatchedTarget)
  <2>1. unmatchedSource \in SUBSET Nodes(Source) /\ unmatchedTarget \in SUBSET Nodes(Target)
    BY DEF PairedOnce
  <2>2. IsFiniteSet(unmatchedSource) /\ IsFiniteSet(unmatchedTarget)
    BY <1>2, <2>1, FS_Subset
  <2> QED BY <1>2, <2>1, <2>2
<1>4. Says(R, A) /\ Says(I, B)
  BY LeftoversSay
<1>6. Says(FlattenSeq(q), AllPairs)
  <2> DEFINE m == Matches
             n == Len(m)
             P == [k \in 1 .. n |-> {m[k]}]
  <2>1. m \in Seq(Nodes(Source) \X Nodes(Target)) /\ Distinct(m) /\ Range(m) = AllPairs
    BY MatchesOnce, PairsAreNodes
  <2>2. n \in Nat /\ DOMAIN m = 1 .. n
    BY <2>1
  <2>3. q = [k \in 1 .. n |-> Edits(m[k][1], m[k][2])]
    BY <2>2
  <2> DEFINE X == {Edits(m[k][1], m[k][2]) : k \in 1 .. n}
  <2>4. q \in Seq(X) /\ Len(q) = n
    <3> DEFINE at(k) == Edits(m[k][1], m[k][2])
    <3>1. q = [k \in 1 .. n |-> at(k)] /\ X = {at(k) : k \in 1 .. n}
      BY <2>3
    <3> HIDE DEF at, q, n, X
    <3> QED BY <2>2, <3>1
  <2>5. ASSUME NEW k \in 1 .. n PROVE q[k] = Edits(m[k][1], m[k][2]) /\ m[k] \in AllPairs
    <3>1. q[k] = Edits(m[k][1], m[k][2])
      BY <2>3
    <3>2. m[k] \in Range(m)
      BY <2>2 DEF Range
    <3> QED BY <2>1, <3>1, <3>2
  <2> HIDE DEF m, n, q, X
  <2>6. \A k \in 1 .. n : Says(q[k], P[k])
    BY <2>5, EditsSay
  <2>7. \A k, l \in 1 .. n : k # l => P[k] \cap P[l] = {}
    BY <2>1, <2>2 DEF Distinct
  <2>8. UNION {P[k] : k \in 1 .. n} = AllPairs
    <3>1. Range(m) = {m[k] : k \in 1 .. n}
      BY <2>2 DEF Range
    <3> QED BY <2>1, <3>1
  <2> HIDE DEF P
  <2>9. Says(FlattenSeq(q), UNION {P[k] : k \in 1 .. Len(q)})
    BY <2>4, <2>6, <2>7, SaysFlat
  <2> QED BY <2>4, <2>8, <2>9
<1>7. A \cap B = {} /\ (A \cup B) \cap AllPairs = {}
  <2>1. \A p \in AllPairs : p[1] # 0 /\ p[2] # 0
    <3>1. AllPairs \subseteq Nodes(Source) \X Nodes(Target)
      BY PairsAreNodes
    <3> QED BY <1>2, <3>1
  <2>2. \A p \in A : p[1] # 0 /\ p[2] = 0
    BY <1>3
  <2>3. \A p \in B : p[1] = 0 /\ p[2] # 0
    BY <1>3
  <2> HIDE DEF A, B
  <2> QED BY <2>1, <2>2, <2>3
<1> HIDE DEF R, I, q, A, B
<1>8. Says(R \o I, A \cup B)
  BY <1>4, <1>7, SaysBoth
<1>9. Says((R \o I) \o FlattenSeq(q), (A \cup B) \cup AllPairs)
  BY <1>6, <1>7, <1>8, SaysBoth
<1> QED BY <1>1, <1>9 DEF A, B

AccountedInv == TypedCall /\ PairedOnce /\ Accounted

LEMMA AccountedInit == Init => AccountedInv
<1> SUFFICES ASSUME Init PROVE AccountedInv
  OBVIOUS
<1>1. TypedCall
  BY TypeInit DEF TypedCall, Init
<1>2. Accounted
  BY DEF Init, Accounted
<1> QED BY <1>1, <1>2, PairedInit DEF AccountedInv

LEMMA AccountedNext == AccountedInv /\ [Next]_vars => AccountedInv'
<1> SUFFICES ASSUME AccountedInv, [Next]_vars PROVE AccountedInv'
  OBVIOUS
<1>1. TypedCall /\ PairedOnce
  BY DEF AccountedInv
<1>2. call' = call
  BY DEF Next, MatchLeaf, LeavesDone, MatchNode, Generate, vars
<1>3. TypedCall' /\ PairedOnce'
  BY <1>1, <1>2, TypeNext, PairedNext DEF TypedCall
<1>4. CASE Generate
  <2> SUFFICES ASSUME ~call.deltaOnly PROVE Accounted'
    BY <1>2, <1>3 DEF AccountedInv, Accounted
  <2> DEFINE A == {<<i, 0>> : i \in unmatchedSource}
             B == {<<0, j>> : j \in unmatchedTarget}
             P == (A \cup B) \cup AllPairs
             s == script'
  <2>1. Says(s, P)
    BY <1>1, <1>4, ScriptSays
  <2>2. Source' = Source /\ Target' = Target
    BY <1>2 DEF Source, Target
  <2>3. /\ unmatchedSource = Nodes(Source) \ First(AllPairs)
        /\ unmatchedTarget = Nodes(Target) \ Second(AllPairs)
    BY <1>1 DEF PairedOnce
  <2>4. /\ AllPairs \subseteq Nodes(Source) \X Nodes(Target)
        /\ Nodes(Source) \in SUBSET (Nat \ {0}) /\ Nodes(Target) \in SUBSET (Nat \ {0})
    BY <1>1, PairsAreNodes, NodesAreNumbers
  <2>5. ASSUME NEW p \in AllPairs, NEW q \in AllPairs, p[1] = q[1] \/ p[2] = q[2]
        PROVE  p = q
    <3> DEFINE m == Matches
    <3>1. Distinct(m) /\ Range(m) = AllPairs
      BY <1>1, MatchesOnce, PairsAreNodes
    <3> HIDE DEF m
    <3>2. PICK k \in DOMAIN m, l \in DOMAIN m : p = m[k] /\ q = m[l]
      BY <3>1 DEF Range
    <3> QED BY <2>5, <3>1, <3>2 DEF Distinct
  <2>6. ASSUME NEW i \in Nodes(Source)
        PROVE  Cardinality({k \in DOMAIN s : s[k].source = i /\ s[k].edit # "Move"}) = 1
    <3>1. \E a \in P : a[1] = i /\ \A b \in P : b[1] = i => b = a
      <4>0. i # 0
        BY <2>4
      <4>1. CASE i \in unmatchedSource
        <5>1. \A b \in AllPairs : b[1] # i
          BY <2>3, <4>1 DEF First
        <5>2. <<i, 0>> \in P /\ \A b \in P : b[1] = i => b = <<i, 0>>
          BY <4>0, <4>1, <5>1
        <5> QED BY <5>2
      <4>2. CASE i \notin unmatchedSource
        <5>1. PICK a \in AllPairs : a[1] = i
          BY <2>3, <4>2 DEF First
        <5>2. a \in P /\ \A b \in P : b[1] = i => b = a
          BY <2>5, <4>0, <4>2, <5>1
        <5> QED BY <5>1, <5>2
      <4> QED BY <4>1, <4>2
    <3> HIDE DEF P, s
    <3> QED BY <2>1, <3>1, SaysOfSource
  <2>7. ASSUME NEW j \in Nodes(Target)
        PROVE  Cardinality({k \in DOMAIN s : s[k].target = j /\ s[k].edit # "Move"}) = 1
    <3>1. \E a \in P : a[2] = j /\ \A b \in P : b[2] = j => b = a
      <4>0. j # 0
        BY <2>4
      <4>1. CASE j \in unmatchedTarget
        <5>1. \A b \in AllPairs : b[2] # j
          BY <2>3, <4>1 DEF Second
        <5>2. <<0, j>> \in P /\ \A b \in P : b[2] = j => b = <<0, j>>
          BY <4>0, <4>1, <5>1
        <5> QED BY <5>2
      <4>2. CASE j \notin unmatchedTarget
        <5>1. PICK a \in AllPairs : a[2] = j
          BY <2>3, <4>2 DEF Second
        <5>2. a \in P /\ \A b \in P : b[2] = j => b = a
          BY <2>5, <4>0, <4>2, <5>1
        <5> QED BY <5>1, <5>2
      <4> QED BY <4>1, <4>2
    <3> HIDE DEF P, s
    <3> QED BY <2>1, <3>1, SaysOfTarget
  <2> QED BY <2>2, <2>6, <2>7 DEF Accounted, Count
<1>5. CASE ~Generate
  <2>1. UNCHANGED script /\ (stage' = "done" => stage = "done")
    BY <1>5 DEF Next, MatchLeaf, LeavesDone, MatchNode, vars
  <2>2. Source' = Source /\ Target' = Target
    BY <1>2 DEF Source, Target
  <2> QED BY <1>2, <1>3, <2>1, <2>2 DEF AccountedInv, Accounted, Count
<1> QED BY <1>4, <1>5

\* For all trees, words and pairs of the caller: the script of a call that asks for the
\* whole of it speaks of every node exactly once, moves aside.
THEOREM EveryNodeOnce == Spec => []Accounted
<1>1. AccountedInv => Accounted
  BY DEF AccountedInv
<1> QED BY <1>1, AccountedInit, AccountedNext, PTL DEF Spec

-----------------------------------------------------------------------------
(* The table of _lcs: a cell takes nothing but the three before it.          *)

Cells(a, b) == (0 .. Len(a)) \X (0 .. Len(b))

LcsCell(a, b, m, g, p) ==
  IF p[1] = 0 \/ p[2] = 0 THEN <<>>
  ELSE IF <<a[p[1]], b[p[2]]>> \in m THEN Append(g[<<p[1] - 1, p[2] - 1>>], a[p[1]])
       ELSE Longer(g[<<p[1] - 1, p[2]>>], g[<<p[1], p[2] - 1>>])

LcsTable(a, b, m) == CHOOSE g : g = [p \in Cells(a, b) |-> LcsCell(a, b, m, g, p)]

LEMMA LcsIsTheLastCell ==
  ASSUME NEW a, NEW b, NEW m
  PROVE  Lcs(a, b, m) = Range(LcsTable(a, b, m)[<<Len(a), Len(b)>>])
BY DEF Lcs, LcsTable, LcsCell, Cells

\* The cells that a cell is made from.
LEMMA CellsBefore ==
  ASSUME NEW X, NEW a \in Seq(X), NEW b \in Seq(X), NEW p \in Cells(a, b),
         p[1] # 0, p[2] # 0
  PROVE  /\ <<p[1] - 1, p[2] - 1>> \in Cells(a, b)
         /\ <<p[1] - 1, p[2]>> \in Cells(a, b)
         /\ <<p[1], p[2] - 1>> \in Cells(a, b)
         /\ p[1] \in 1 .. Len(a) /\ p[2] \in 1 .. Len(b)
         /\ Len(a) \in Nat /\ Len(b) \in Nat
BY DEF Cells

LEMMA CellNeedsTheOnesBefore ==
  ASSUME NEW X, NEW a \in Seq(X), NEW b \in Seq(X), NEW m, NEW p \in Cells(a, b), NEW g, NEW h,
         \A c \in Cells(a, b) : c[1] + c[2] < p[1] + p[2] => g[c] = h[c]
  PROVE  LcsCell(a, b, m, g, p) = LcsCell(a, b, m, h, p)
<1>1. CASE p[1] = 0 \/ p[2] = 0
  BY <1>1 DEF LcsCell
<1>2. CASE p[1] # 0 /\ p[2] # 0
  <2> DEFINE c == <<p[1] - 1, p[2] - 1>>
             d == <<p[1] - 1, p[2]>>
             e == <<p[1], p[2] - 1>>
  <2>1. c \in Cells(a, b) /\ d \in Cells(a, b) /\ e \in Cells(a, b)
        /\ p[1] \in 1 .. Len(a) /\ p[2] \in 1 .. Len(b)
        /\ Len(a) \in Nat /\ Len(b) \in Nat
    BY <1>2, CellsBefore
  <2>2. /\ c[1] + c[2] < p[1] + p[2]
        /\ d[1] + d[2] < p[1] + p[2]
        /\ e[1] + e[2] < p[1] + p[2]
    BY <2>1
  <2> HIDE DEF c, d, e
  <2>3. g[c] = h[c] /\ g[d] = h[d] /\ g[e] = h[e]
    BY <2>1, <2>2
  <2> QED BY <1>2, <2>3 DEF LcsCell, c, d, e
<1> QED BY <1>1, <1>2

\* So there is such a table, filled diagonal by diagonal.
LEMMA LcsTableIsTheTable ==
  ASSUME NEW X, NEW a \in Seq(X), NEW b \in Seq(X), NEW m
  PROVE  LcsTable(a, b, m)
           = [p \in Cells(a, b) |-> LcsCell(a, b, m, LcsTable(a, b, m), p)]
<1> DEFINE x == Len(a)
           y == Len(b)
           C == Cells(a, b)
           Filled(d, g) == /\ g = [p \in C |-> g[p]]
                           /\ \A p \in C : p[1] + p[2] <= d => g[p] = LcsCell(a, b, m, g, p)
           S == {d \in 0 .. x + y : \E g : Filled(d, g)}
<1>0. x \in Nat /\ y \in Nat
  OBVIOUS
<1>a. \A p \in C : p[1] \in 0 .. x /\ p[2] \in 0 .. y
  BY DEF Cells
<1> HIDE DEF x, y, C
<1>1. 0 \in S
  <2> DEFINE g == [p \in C |-> <<>>]
  <2>1. g = [p \in C |-> g[p]]
    OBVIOUS
  <2>2. ASSUME NEW p \in C, p[1] + p[2] <= 0 PROVE g[p] = LcsCell(a, b, m, g, p)
    <3>1. p[1] = 0
      BY <1>0, <1>a, <2>2
    <3> QED BY <3>1 DEF LcsCell
  <2> HIDE DEF g
  <2>3. Filled(0, g) /\ 0 \in 0 .. x + y
    BY <1>0, <2>1, <2>2
  <2> HIDE DEF Filled
  <2> QED BY <2>3
<1>2. ASSUME NEW d \in 1 .. x + y, d - 1 \in S PROVE d \in S
  <2>1. PICK g : Filled(d - 1, g)
    BY <1>2
  <2> DEFINE h == [p \in C |-> IF p[1] + p[2] = d THEN LcsCell(a, b, m, g, p) ELSE g[p]]
  <2>2. h = [p \in C |-> h[p]]
    OBVIOUS
  <2>3. ASSUME NEW p \in C, p[1] + p[2] <= d PROVE h[p] = LcsCell(a, b, m, h, p)
    <3>1. p[1] \in Nat /\ p[2] \in Nat /\ d \in Nat /\ \A c \in C : c[1] \in Nat /\ c[2] \in Nat
      BY <1>0, <1>a
    <3>2. \A c \in C : c[1] + c[2] < p[1] + p[2] => c[1] + c[2] # d
      BY <2>3, <3>1
    <3>3. \A c \in C : c[1] + c[2] < p[1] + p[2] => g[c] = h[c]
      BY <3>2
    <3>4. h[p] = LcsCell(a, b, m, g, p)
      <4>1. CASE p[1] + p[2] = d
        BY <4>1
      <4>2. CASE p[1] + p[2] # d
        <5>1. p[1] + p[2] <= d - 1
          BY <2>3, <3>1, <4>2
        <5>2. g[p] = LcsCell(a, b, m, g, p)
          BY <2>1, <5>1
        <5> QED BY <4>2, <5>2
      <4> QED BY <4>1, <4>2
    <3> HIDE DEF h
    <3>5. LcsCell(a, b, m, g, p) = LcsCell(a, b, m, h, p)
      BY <3>3, CellNeedsTheOnesBefore DEF C
    <3> QED BY <3>4, <3>5
  <2> HIDE DEF h
  <2>4. Filled(d, h) /\ d \in 0 .. x + y
    BY <1>0, <2>2, <2>3
  <2> HIDE DEF Filled
  <2> QED BY <2>4
<1>3. x + y \in S
  <2> HIDE DEF S
  <2> DEFINE z == x + y
  <2>1. z \in Nat /\ \A d \in 1 .. z : d - 1 \in S => d \in S
    BY <1>0, <1>2
  <2> HIDE DEF z
  <2>2. 0 .. z \subseteq S
    BY <1>1, <2>1, InductionUpTo
  <2>3. z \in S
    BY <2>1, <2>2
  <2> QED BY <2>3 DEF z
<1>4. PICK g : Filled(x + y, g)
  BY <1>3
<1>5. g = [p \in C |-> LcsCell(a, b, m, g, p)]
  <2>1. \A p \in C : p[1] + p[2] <= x + y
    BY <1>0, <1>a
  <2>2. \A p \in C : g[p] = LcsCell(a, b, m, g, p)
    BY <1>4, <2>1
  <2> QED BY <1>4, <2>2
<1> QED BY <1>5 DEF LcsTable, C

-----------------------------------------------------------------------------
(* What _lcs finds in two ascending sequences: a largest set of pairs in m   *)
(* whose order is the same on both sides.                                    *)

Ascends(s) == s \in Seq(Nat) /\ \A k, l \in DOMAIN s : k < l => s[k] < s[l]
Upto(s, i) == {s[k] : k \in 1 .. i}
InOrder(C) == \A q, r \in C : q[1] < r[1] => q[2] < r[2]
IsMatching(m) == /\ m \in SUBSET (Nat \X Nat) /\ IsFiniteSet(m)
                /\ \A q, r \in m : q[1] = r[1] \/ q[2] = r[2] => q = r

\* Pairs of m between the first i elements of a and the first j of b.
Chain(C, a, b, m, i, j) ==
  /\ C \in SUBSET m
  /\ \A q \in C : q[1] \in Upto(a, i) /\ q[2] \in Upto(b, j)
  /\ InOrder(C)

\* c lists the sources of a chain that no chain is larger than.
Longest(c, a, b, m, i, j) ==
  /\ c \in Seq(Nat)
  /\ \E C : Chain(C, a, b, m, i, j) /\ Range(c) = First(C) /\ Len(c) = Cardinality(C)
  /\ \A C : Chain(C, a, b, m, i, j) => Cardinality(C) <= Len(c)

LEMMA ChainsAreFinite ==
  ASSUME NEW C, NEW a, NEW b, NEW m, NEW i, NEW j, IsMatching(m), Chain(C, a, b, m, i, j)
  PROVE  IsFiniteSet(C) /\ Cardinality(C) \in Nat
<1>1. C \in SUBSET m /\ IsFiniteSet(m)
  BY DEF Chain, IsMatching
<1>2. IsFiniteSet(C)
  BY <1>1, FS_Subset
<1> QED BY <1>2, FS_CardinalityType

\* The last of the first i elements is the largest.
LEMMA LastIsLargest ==
  ASSUME NEW s, Ascends(s), NEW i \in 1 .. Len(s)
  PROVE  /\ s[i] \in Nat /\ Upto(s, i) \subseteq Nat
         /\ Upto(s, i) = Upto(s, i - 1) \cup {s[i]}
         /\ \A x \in Upto(s, i - 1) : x < s[i]
<1>1. s \in Seq(Nat) /\ Len(s) \in Nat /\ DOMAIN s = 1 .. Len(s)
      /\ \A k \in 1 .. Len(s) : s[k] \in Nat
  BY DEF Ascends
<1>2. 1 .. i = 1 .. (i - 1) \cup {i} /\ 1 .. i \subseteq 1 .. Len(s)
      /\ \A k \in 1 .. (i - 1) : k < i
  BY <1>1
<1>3. Upto(s, i) = Upto(s, i - 1) \cup {s[i]}
  BY <1>2 DEF Upto
<1>4. \A x \in Upto(s, i - 1) : x < s[i]
  BY <1>1, <1>2 DEF Upto, Ascends
<1>5. Upto(s, i) \subseteq Nat
  BY <1>1, <1>2 DEF Upto
<1> QED BY <1>1, <1>3, <1>4, <1>5

LEMMA LongestOfNone ==
  ASSUME NEW a, NEW b, NEW m, NEW i, NEW j, i = 0 \/ j = 0, IsMatching(m)
  PROVE  Longest(<<>>, a, b, m, i, j)
<1>1. i = 0 => Upto(a, i) = {}
  BY DEF Upto
<1>2. j = 0 => Upto(b, j) = {}
  BY DEF Upto
<1>3. \A C : Chain(C, a, b, m, i, j) => C = {}
  BY <1>1, <1>2 DEF Chain
<1>4. Chain({}, a, b, m, i, j)
  BY DEF Chain, InOrder
<1>5. <<>> \in Seq(Nat) /\ Len(<<>>) = 0 /\ Range(<<>>) = {}
  BY DEF Range
<1>6. First({}) = {} /\ Cardinality({}) = 0
  BY FS_EmptySet DEF First
<1>7. \E C : Chain(C, a, b, m, i, j) /\ Range(<<>>) = First(C) /\ Len(<<>>) = Cardinality(C)
  <2>1. Chain({}, a, b, m, i, j) /\ Range(<<>>) = First({}) /\ Len(<<>>) = Cardinality({})
    BY <1>4, <1>5, <1>6
  <2> QED BY <2>1, Zenon
<1>8. ASSUME NEW C, Chain(C, a, b, m, i, j) PROVE Cardinality(C) <= Len(<<>>)
  <2>1. Cardinality(C) = 0
    BY <1>3, <1>6, <1>8
  <2>2. Len(<<>>) = 0
    OBVIOUS
  <2> QED BY <2>1, <2>2
<1> QED BY <1>5, <1>7, <1>8 DEF Longest

LEMMA LongestWithBoth ==
  ASSUME NEW a, NEW b, NEW m, Ascends(a), Ascends(b), IsMatching(m),
         NEW i \in 1 .. Len(a), NEW j \in 1 .. Len(b), <<a[i], b[j]>> \in m,
         NEW c, Longest(c, a, b, m, i - 1, j - 1)
  PROVE  Longest(Append(c, a[i]), a, b, m, i, j)
<1> DEFINE e == <<a[i], b[j]>>
           A == Upto(a, i - 1)
           B == Upto(b, j - 1)
<1>1. /\ a[i] \in Nat /\ Upto(a, i) = A \cup {a[i]} /\ Upto(a, i) \subseteq Nat
      /\ \A x \in A : x < a[i]
      /\ b[j] \in Nat /\ Upto(b, j) = B \cup {b[j]} /\ Upto(b, j) \subseteq Nat
      /\ \A x \in B : x < b[j]
  BY LastIsLargest
<1>2. c \in Seq(Nat)
  BY DEF Longest
<1>3. /\ Append(c, a[i]) \in Seq(Nat) /\ Len(Append(c, a[i])) = Len(c) + 1 /\ Len(c) \in Nat
      /\ Range(Append(c, a[i])) = Range(c) \cup {a[i]}
  BY <1>1, <1>2, AppendRange
<1>4. \E C : /\ Chain(C, a, b, m, i, j) /\ Range(Append(c, a[i])) = First(C)
             /\ Len(Append(c, a[i])) = Cardinality(C)
  <2>1. PICK C : Chain(C, a, b, m, i - 1, j - 1) /\ Range(c) = First(C) /\ Len(c) = Cardinality(C)
    BY DEF Longest
  <2> DEFINE D == C \cup {e}
  <2>2. \A q \in C : q[1] \in A /\ q[2] \in B
    BY <2>1 DEF Chain
  <2>3. \A q \in C : q[1] < a[i] /\ q[2] < b[j] /\ q[1] \in Nat /\ q[2] \in Nat
    BY <1>1, <2>2
  <2>4. e \notin C
    BY <1>1, <2>3
  <2>5. InOrder(D)
    <3> SUFFICES ASSUME NEW q \in D, NEW r \in D, q[1] < r[1] PROVE q[2] < r[2]
      BY DEF InOrder
    <3>1. CASE q \in C /\ r \in C
      BY <2>1, <3>1 DEF Chain, InOrder
    <3>2. CASE q \in C /\ r = e
      BY <2>3, <3>2
    <3>3. CASE q = e /\ r \in C
      BY <1>1, <2>3, <3>3
    <3>4. CASE q = e /\ r = e
      BY <1>1, <3>4
    <3> QED BY <3>1, <3>2, <3>3, <3>4
  <2>6. Chain(D, a, b, m, i, j)
    <3>1. \A q \in D : q[1] \in Upto(a, i) /\ q[2] \in Upto(b, j)
      BY <1>1, <2>2
    <3>2. D \in SUBSET m
      BY <2>1 DEF Chain
    <3> QED BY <2>5, <3>1, <3>2 DEF Chain
  <2>7. First(D) = First(C) \cup {a[i]}
    BY FirstOneMore
  <2>8. Cardinality(D) = Cardinality(C) + 1
    <3>1. IsFiniteSet(C)
      BY <2>1, ChainsAreFinite
    <3> HIDE DEF e
    <3> QED BY <2>4, <3>1, FS_AddElement
  <2>9. Chain(D, a, b, m, i, j) /\ Range(Append(c, a[i])) = First(D)
        /\ Len(Append(c, a[i])) = Cardinality(D)
    BY <1>3, <2>1, <2>6, <2>7, <2>8
  <2> HIDE DEF D
  <2> QED BY <2>9, Zenon
<1>5. ASSUME NEW C, Chain(C, a, b, m, i, j) PROVE Cardinality(C) <= Len(c) + 1
  <2>0. IsFiniteSet(C) /\ Cardinality(C) \in Nat
    BY <1>5, ChainsAreFinite
  <2>1. ASSUME NEW q \in C PROVE /\ q[1] \in A \/ q[1] = a[i]
                                 /\ q[2] \in B \/ q[2] = b[j]
                                 /\ q[1] <= a[i] /\ q[2] <= b[j]
                                 /\ q[1] \in Nat /\ q[2] \in Nat
    <3>1. q[1] \in Upto(a, i) /\ q[2] \in Upto(b, j)
      BY <1>5 DEF Chain
    <3> HIDE DEF A, B
    <3> QED BY <1>1, <3>1
  <2>2. ASSUME NEW q \in C, NEW r \in C, q[1] = a[i], r[2] = b[j] PROVE q = r
    <3> SUFFICES ASSUME q # r PROVE FALSE
      OBVIOUS
    <3>1. q[1] # r[1]
      BY <1>5 DEF Chain, IsMatching
    <3>2. r[1] < q[1]
      BY <2>1, <2>2, <3>1
    <3>3. r[2] < q[2]
      BY <1>5, <3>2 DEF Chain, InOrder
    <3> QED BY <2>1, <2>2, <3>3
  <2>3. ASSUME NEW q \in C, NEW r \in C,
               q[1] = a[i] \/ q[2] = b[j], r[1] = a[i] \/ r[2] = b[j]
        PROVE  q = r
    <3>1. q[1] = r[1] \/ q[2] = r[2] => q = r
      BY <1>5 DEF Chain, IsMatching
    <3> QED BY <2>2, <2>3, <3>1
  <2>4. ASSUME NEW D \in SUBSET C, \A q \in D : q[1] # a[i] /\ q[2] # b[j]
        PROVE  Cardinality(D) <= Len(c)
    <3>1. Chain(D, a, b, m, i - 1, j - 1)
      BY <1>5, <2>1, <2>4 DEF Chain, InOrder
    <3> QED BY <3>1 DEF Longest
  <2>5. CASE \A q \in C : q[1] # a[i] /\ q[2] # b[j]
    <3>1. Cardinality(C) <= Len(c)
      BY <2>4, <2>5
    <3> QED BY <1>3, <2>0, <3>1
  <2>6. CASE \E q \in C : q[1] = a[i] \/ q[2] = b[j]
    <3>1. PICK q \in C : q[1] = a[i] \/ q[2] = b[j]
      BY <2>6
    <3>2. \A r \in C \ {q} : r[1] # a[i] /\ r[2] # b[j]
      BY <2>3, <3>1
    <3>3. Cardinality(C \ {q}) <= Len(c)
      BY <2>4, <3>2
    <3>4. Cardinality(C \ {q}) = Cardinality(C) - 1
      BY <2>0, FS_RemoveElement
    <3> QED BY <1>3, <2>0, <3>3, <3>4
  <2> QED BY <2>5, <2>6
<1> QED BY <1>3, <1>4, <1>5 DEF Longest

LEMMA LongestWithoutOne ==
  ASSUME NEW a, NEW b, NEW m, Ascends(a), Ascends(b), IsMatching(m),
         NEW i \in 1 .. Len(a), NEW j \in 1 .. Len(b), <<a[i], b[j]>> \notin m,
         NEW c, Longest(c, a, b, m, i - 1, j), NEW d, Longest(d, a, b, m, i, j - 1)
  PROVE  Longest(Longer(c, d), a, b, m, i, j)
<1> DEFINE A == Upto(a, i - 1)
           B == Upto(b, j - 1)
<1>1. /\ a[i] \in Nat /\ Upto(a, i) = A \cup {a[i]} /\ Upto(a, i) \subseteq Nat
      /\ \A x \in A : x < a[i]
      /\ b[j] \in Nat /\ Upto(b, j) = B \cup {b[j]} /\ Upto(b, j) \subseteq Nat
      /\ \A x \in B : x < b[j]
  BY LastIsLargest
<1>2. c \in Seq(Nat) /\ d \in Seq(Nat)
  BY DEF Longest
<1>3. Len(c) \in Nat /\ Len(d) \in Nat /\ (Longer(c, d) = c \/ Longer(c, d) = d)
      /\ Len(c) <= Len(Longer(c, d)) /\ Len(d) <= Len(Longer(c, d))
  BY <1>2 DEF Longer
<1>4. ASSUME NEW C, Chain(C, a, b, m, i - 1, j) \/ Chain(C, a, b, m, i, j - 1)
      PROVE  Chain(C, a, b, m, i, j)
  BY <1>1, <1>4 DEF Chain
<1>5. \E C : /\ Chain(C, a, b, m, i, j) /\ Range(Longer(c, d)) = First(C)
             /\ Len(Longer(c, d)) = Cardinality(C)
  <2>1. PICK C : Chain(C, a, b, m, i - 1, j) /\ Range(c) = First(C) /\ Len(c) = Cardinality(C)
    BY DEF Longest
  <2>2. PICK D : Chain(D, a, b, m, i, j - 1) /\ Range(d) = First(D) /\ Len(d) = Cardinality(D)
    BY DEF Longest
  <2> DEFINE E == IF Longer(c, d) = c THEN C ELSE D
  <2>3. /\ Chain(E, a, b, m, i, j) /\ Range(Longer(c, d)) = First(E)
        /\ Len(Longer(c, d)) = Cardinality(E)
    <3>1. CASE Longer(c, d) = c
      BY <1>4, <2>1, <3>1
    <3>2. CASE Longer(c, d) # c
      BY <1>3, <1>4, <2>2, <3>2
    <3> QED BY <3>1, <3>2
  <2> HIDE DEF E
  <2> QED BY <2>3, Zenon
<1>6. ASSUME NEW C, Chain(C, a, b, m, i, j) PROVE Cardinality(C) <= Len(Longer(c, d))
  <2>0. Cardinality(C) \in Nat /\ Len(Longer(c, d)) \in Nat
    BY <1>3, <1>6, ChainsAreFinite
  <2>1. ASSUME NEW q \in C PROVE /\ q[1] \in A \/ q[1] = a[i]
                                 /\ q[2] \in B \/ q[2] = b[j]
                                 /\ q[1] <= a[i] /\ q[2] <= b[j]
                                 /\ q[1] \in Nat /\ q[2] \in Nat
                                 /\ q = <<q[1], q[2]>> /\ q \in m
    <3>1. q[1] \in Upto(a, i) /\ q[2] \in Upto(b, j)
      BY <1>6 DEF Chain
    <3>2. q \in m /\ q \in Nat \X Nat
      BY <1>6 DEF Chain, IsMatching
    <3> HIDE DEF A, B
    <3> QED BY <1>1, <3>1, <3>2
  <2>2. CASE \A q \in C : q[1] # a[i]
    <3>1. Chain(C, a, b, m, i - 1, j)
      BY <1>6, <2>1, <2>2 DEF Chain
    <3>2. Cardinality(C) <= Len(c)
      BY <3>1 DEF Longest
    <3> QED BY <1>3, <2>0, <3>2
  <2>3. CASE \E q \in C : q[1] = a[i]
    <3>1. PICK q \in C : q[1] = a[i]
      BY <2>3
    <3>2. q[2] # b[j]
      BY <2>1, <3>1
    <3>3. ASSUME NEW r \in C PROVE r[2] # b[j]
      <4> SUFFICES ASSUME r[2] = b[j] PROVE FALSE
        OBVIOUS
      <4>1. q[1] # r[1]
        BY <1>6, <3>2 DEF Chain, IsMatching
      <4>2. r[1] < q[1]
        BY <2>1, <3>1, <4>1
      <4>3. r[2] < q[2]
        BY <1>6, <4>2 DEF Chain, InOrder
      <4> QED BY <1>1, <2>1, <4>3
    <3>4. Chain(C, a, b, m, i, j - 1)
      BY <1>6, <2>1, <3>3 DEF Chain
    <3>5. Cardinality(C) <= Len(d)
      BY <3>4 DEF Longest
    <3> QED BY <1>3, <2>0, <3>5
  <2> QED BY <2>2, <2>3
<1>7. Longer(c, d) \in Seq(Nat)
  BY <1>2, <1>3
<1> QED BY <1>5, <1>6, <1>7 DEF Longest

LEMMA LcsIsLongest ==
  ASSUME NEW a, NEW b, NEW m, Ascends(a), Ascends(b), IsMatching(m)
  PROVE  \E c : Lcs(a, b, m) = Range(c) /\ Longest(c, a, b, m, Len(a), Len(b))
<1> DEFINE x == Len(a)
           y == Len(b)
           t == LcsTable(a, b, m)
           C == Cells(a, b)
           Good(p) == Longest(t[p], a, b, m, p[1], p[2])
           S == {d \in 0 .. x + y : \A p \in C : p[1] + p[2] <= d => Good(p)}
<1>0. a \in Seq(Nat) /\ b \in Seq(Nat) /\ x \in Nat /\ y \in Nat
  BY DEF Ascends
<1>1. t = [p \in C |-> LcsCell(a, b, m, t, p)]
  BY <1>0, LcsTableIsTheTable
<1>2. \A p \in C : p[1] \in 0 .. x /\ p[2] \in 0 .. y /\ p = <<p[1], p[2]>>
  BY DEF Cells
<1>3. ASSUME NEW p \in C, \A c \in C : c[1] + c[2] < p[1] + p[2] => Good(c)
      PROVE  Good(p)
  <2>1. t[p] = LcsCell(a, b, m, t, p)
    BY <1>1
  <2> DEFINE i == p[1]
             j == p[2]
  <2>2. CASE i = 0 \/ j = 0
    <3>1. t[p] = <<>>
      BY <2>1, <2>2 DEF LcsCell
    <3> HIDE DEF i, j, t
    <3>2. Longest(t[p], a, b, m, i, j)
      BY <2>2, <3>1, LongestOfNone
    <3> QED BY <3>2 DEF i, j
  <2>3. CASE i # 0 /\ j # 0
    <3> DEFINE c == <<i - 1, j - 1>>
               d == <<i - 1, j>>
               e == <<i, j - 1>>
    <3>1. c \in C /\ d \in C /\ e \in C /\ i \in 1 .. x /\ j \in 1 .. y
      BY <1>0, <2>3, CellsBefore
    <3>2. c[1] + c[2] < i + j /\ d[1] + d[2] < i + j /\ e[1] + e[2] < i + j
      <4>1. i \in Nat /\ j \in Nat
        BY <1>0, <3>1
      <4> HIDE DEF i, j
      <4> QED BY <4>1
    <3>3. Good(c) /\ Good(d) /\ Good(e)
      BY <1>3, <3>1, <3>2
    <3> HIDE DEF t
    <3>4. /\ Longest(t[c], a, b, m, i - 1, j - 1)
          /\ Longest(t[d], a, b, m, i - 1, j)
          /\ Longest(t[e], a, b, m, i, j - 1)
      BY <3>3
    <3>5. t[p] = IF <<a[i], b[j]>> \in m THEN Append(t[c], a[i]) ELSE Longer(t[d], t[e])
      BY <2>1, <2>3 DEF LcsCell
    <3> HIDE DEF i, j, c, d, e
    <3>6. Longest(t[p], a, b, m, i, j)
      <4>1. CASE <<a[i], b[j]>> \in m
        <5>1. Longest(Append(t[c], a[i]), a, b, m, i, j)
          BY <3>1, <3>4, <4>1, LongestWithBoth
        <5> QED BY <3>5, <4>1, <5>1
      <4>2. CASE <<a[i], b[j]>> \notin m
        <5>1. Longest(Longer(t[d], t[e]), a, b, m, i, j)
          BY <3>1, <3>4, <4>2, LongestWithoutOne
        <5> QED BY <3>5, <4>2, <5>1
      <4> QED BY <4>1, <4>2
    <3> QED BY <3>6 DEF i, j
  <2> QED BY <2>2, <2>3
<1> HIDE DEF t, C, Good, x, y
<1>4. 0 \in S
  <2>1. ASSUME NEW p \in C, p[1] + p[2] <= 0 PROVE Good(p)
    <3>1. ASSUME NEW c \in C PROVE ~(c[1] + c[2] < p[1] + p[2])
      <4>1. c[1] \in Nat /\ c[2] \in Nat /\ p[1] \in Nat /\ p[2] \in Nat
        BY <1>0, <1>2
      <4> QED BY <2>1, <4>1
    <3> QED BY <1>3, <3>1
  <2> QED BY <1>0, <2>1
<1>5. ASSUME NEW d \in 1 .. x + y, d - 1 \in S PROVE d \in S
  <2>1. ASSUME NEW p \in C, p[1] + p[2] <= d PROVE Good(p)
    <3>1. ASSUME NEW c \in C, c[1] + c[2] < p[1] + p[2] PROVE Good(c)
      <4>1. c[1] \in Nat /\ c[2] \in Nat /\ p[1] \in Nat /\ p[2] \in Nat /\ d \in Nat
        BY <1>0, <1>2
      <4>2. c[1] + c[2] <= d - 1
        BY <2>1, <3>1, <4>1
      <4> QED BY <1>5, <4>2
    <3> QED BY <1>3, <3>1
  <2> QED BY <1>0, <2>1
<1>6. x + y \in S
  <2> DEFINE z == x + y
  <2>1. z \in Nat /\ \A d \in 1 .. z : d - 1 \in S => d \in S
    <3> HIDE DEF S
    <3> QED BY <1>0, <1>5
  <2> HIDE DEF z, S
  <2>2. 0 .. z \subseteq S
    BY <1>4, <2>1, InductionUpTo
  <2>3. z \in S
    BY <2>1, <2>2
  <2> QED BY <2>3 DEF z
<1>7. Good(<<x, y>>)
  <2> DEFINE p == <<x, y>>
  <2>1. p \in C
    BY <1>0 DEF C, Cells, x, y
  <2>2. p[1] + p[2] <= x + y
    BY <1>0
  <2> HIDE DEF p
  <2>3. Good(p)
    BY <1>6, <2>1, <2>2
  <2> QED BY <2>3 DEF p
<1>8. Lcs(a, b, m) = Range(t[<<x, y>>])
  BY LcsIsTheLastCell DEF t, x, y
<1>9. Longest(t[<<x, y>>], a, b, m, Len(a), Len(b))
  BY <1>7 DEF Good, x, y
<1> QED BY <1>8, <1>9, Zenon

\* All elements of s.
LEMMA UptoTheEnd ==
  ASSUME NEW s, Ascends(s) PROVE Upto(s, Len(s)) = Range(s)
<1>1. DOMAIN s = 1 .. Len(s)
  BY DEF Ascends
<1> QED BY <1>1 DEF Upto, Range

\* The pairs of m between two sequences, and those of them whose sources Lcs gives.
Between(a, b, m) == {q \in m : q[1] \in Range(a) /\ q[2] \in Range(b)}
Chosen(a, b, m) == {q \in Between(a, b, m) : q[1] \in Lcs(a, b, m)}

\* For a matching m these are a largest set of pairs between a and b that is in order.
LEMMA LcsIsRight ==
  ASSUME NEW a, NEW b, NEW m, Ascends(a), Ascends(b), IsMatching(m)
  PROVE  /\ Lcs(a, b, m) = First(Chosen(a, b, m))
         /\ InOrder(Chosen(a, b, m))
         /\ \A C \in SUBSET Between(a, b, m) :
              InOrder(C) => Cardinality(C) <= Cardinality(Chosen(a, b, m))
<1> DEFINE L == Lcs(a, b, m)
           shared == Between(a, b, m)
           stay == Chosen(a, b, m)
           x == Len(a)
           y == Len(b)
<1>1. PICK c : L = Range(c) /\ Longest(c, a, b, m, x, y)
  BY LcsIsLongest
<1>2. PICK W : Chain(W, a, b, m, x, y) /\ Range(c) = First(W) /\ Len(c) = Cardinality(W)
  BY <1>1 DEF Longest
<1>3. Upto(a, x) = Range(a) /\ Upto(b, y) = Range(b)
  BY UptoTheEnd
<1>a. shared = {q \in m : q[1] \in Range(a) /\ q[2] \in Range(b)}
      /\ stay = {q \in shared : q[1] \in L}
  BY DEF Between, Chosen
<1> HIDE DEF L, x, y, shared, stay
<1>4. W \subseteq stay
  <2> SUFFICES ASSUME NEW q \in W PROVE q \in stay
    OBVIOUS
  <2>1. q \in shared
    BY <1>2, <1>3, <1>a DEF Chain
  <2>2. q[1] \in L
    BY <1>1, <1>2 DEF First
  <2> QED BY <1>a, <2>1, <2>2
<1>5. stay \subseteq W
  <2> SUFFICES ASSUME NEW q \in stay PROVE q \in W
    OBVIOUS
  <2>1. PICK r \in W : r[1] = q[1]
    BY <1>1, <1>2, <1>a DEF First
  <2>2. r \in m /\ q \in m
    BY <1>2, <1>a DEF Chain
  <2>3. q = r
    BY <2>1, <2>2 DEF IsMatching
  <2> QED BY <2>3
<1>6. stay = W
  BY <1>4, <1>5
<1>7. InOrder(W)
  BY <1>2 DEF Chain
<1>8. ASSUME NEW C \in SUBSET shared, InOrder(C) PROVE Cardinality(C) <= Cardinality(W)
  <2>1. Chain(C, a, b, m, x, y)
    BY <1>3, <1>8, <1>a DEF Chain
  <2>2. Cardinality(C) <= Len(c)
    BY <1>1, <2>1 DEF Longest
  <2> QED BY <1>2, <2>2
<1>9. L = First(stay) /\ InOrder(stay)
      /\ \A C \in SUBSET shared : InOrder(C) => Cardinality(C) <= Cardinality(stay)
  BY <1>1, <1>2, <1>6, <1>7, <1>8
<1> QED BY <1>9 DEF stay, shared, L

-----------------------------------------------------------------------------

\* A sequence over a set is one over every set that holds it.
LEMMA SeqWidens ==
  ASSUME NEW A, NEW B, A \subseteq B, NEW s \in Seq(A)
  PROVE  s \in Seq(B)
<1>1. Len(s) \in Nat /\ s = [k \in 1 .. Len(s) |-> s[k]] /\ \A k \in 1 .. Len(s) : s[k] \in B
  OBVIOUS
<1> QED BY <1>1

\* The children of two nodes and the matching are what LcsIsRight asks for.
LEMMA ChildrenAscend ==
  ASSUME TypedCall, PairedOnce, NEW i, NEW j
  PROVE  /\ Ascends(Children(Source, i)) /\ Ascends(Children(Target, j))
         /\ Range(Children(Source, i)) = {a \in Nodes(Source) : Source.parent[a] = i}
         /\ Range(Children(Target, j)) = {b \in Nodes(Target) : Target.parent[b] = j}
         /\ IsMatching(Range(Matches))
<1>1. /\ Nodes(Source) \in SUBSET (Nat \ {0}) /\ IsFiniteSet(Nodes(Source))
      /\ Nodes(Target) \in SUBSET (Nat \ {0}) /\ IsFiniteSet(Nodes(Target))
  BY NodesAreNumbers
<1>2. ASSUME NEW C \in SUBSET Nat, IsFiniteSet(C)
      PROVE  Ascends(Ascending(C)) /\ Range(Ascending(C)) = C
  <2> DEFINE r == Ascending(C)
  <2>1. /\ r \in Seq(C)
        /\ \A x \in C : \E k \in DOMAIN r : r[k] = x
        /\ \A k, l \in DOMAIN r : k < l => r[k] < r[l]
    BY <1>2, AscendingEnumerates
  <2> HIDE DEF r
  <2>2. Range(r) = C
    <3>1. DOMAIN r = 1 .. Len(r) /\ \A k \in DOMAIN r : r[k] \in C
      BY <2>1
    <3> QED BY <2>1, <3>1 DEF Range
  <2>3. r \in Seq(Nat)
    <3>1. r \in Seq(C) /\ C \subseteq Nat
      BY <1>2, <2>1
    <3> QED BY <3>1, SeqWidens
  <2> QED BY <2>1, <2>2, <2>3 DEF Ascends, r
<1>3. ASSUME NEW N \in SUBSET (Nat \ {0}), IsFiniteSet(N), NEW C \in SUBSET N
      PROVE  C \in SUBSET Nat /\ IsFiniteSet(C)
  BY <1>3, FS_Subset
<1>4. Ascends(Children(Source, i))
      /\ Range(Children(Source, i)) = {a \in Nodes(Source) : Source.parent[a] = i}
  <2> DEFINE C == {a \in Nodes(Source) : Source.parent[a] = i}
  <2>1. C \in SUBSET Nodes(Source)
    OBVIOUS
  <2>2. Children(Source, i) = Ascending(C)
    BY DEF Children, Kids
  <2> HIDE DEF C
  <2>3. Ascends(Ascending(C)) /\ Range(Ascending(C)) = C
    BY <1>1, <1>2, <1>3, <2>1
  <2> QED BY <2>2, <2>3 DEF C
<1>5. Ascends(Children(Target, j))
      /\ Range(Children(Target, j)) = {b \in Nodes(Target) : Target.parent[b] = j}
  <2> DEFINE C == {b \in Nodes(Target) : Target.parent[b] = j}
  <2>1. C \in SUBSET Nodes(Target)
    OBVIOUS
  <2>2. Children(Target, j) = Ascending(C)
    BY DEF Children, Kids
  <2> HIDE DEF C
  <2>3. Ascends(Ascending(C)) /\ Range(Ascending(C)) = C
    BY <1>1, <1>2, <1>3, <2>1
  <2> QED BY <2>2, <2>3 DEF C
<1>6. IsMatching(Range(Matches))
  <2> DEFINE s == Matches
             m == Range(s)
  <2>1. m \subseteq Nodes(Source) \X Nodes(Target)
    BY PairsAreNodes
  <2>2. m \in SUBSET (Nat \X Nat)
    BY <1>1, <2>1
  <2>3. IsFiniteSet(m)
    <3>1. IsFiniteSet(Nodes(Source) \X Nodes(Target))
      BY <1>1, FS_Product
    <3> QED BY <2>1, <3>1, FS_Subset
  <2>4. Distinct(s)
    BY MatchesOnce
  <2>5. ASSUME NEW p \in m, NEW q \in m, p[1] = q[1] \/ p[2] = q[2] PROVE p = q
    <3>1. PICK k \in DOMAIN s, l \in DOMAIN s : p = s[k] /\ q = s[l]
      BY DEF Range
    <3> QED BY <2>4, <2>5, <3>1 DEF Distinct
  <2> QED BY <2>2, <2>3, <2>5 DEF IsMatching
<1> QED BY <1>4, <1>5, <1>6

\* The pairs of children that the nodes of a pair have in common, and those of them that
\* keep their place.
Shared(p) == {q \in Range(Matches) : Source.parent[q[1]] = p[1] /\ Target.parent[q[2]] = p[2]}
Placed(p) ==
  {q \in Shared(p) :
     q[1] \in Lcs(Children(Source, p[1]), Children(Target, p[2]), Range(Matches))}

LEMMA LcsOfChildren ==
  ASSUME TypedCall, PairedOnce, NEW p
  PROVE  /\ Lcs(Children(Source, p[1]), Children(Target, p[2]), Range(Matches)) = First(Placed(p))
         /\ InOrder(Placed(p))
         /\ \A C \in SUBSET Shared(p) : InOrder(C) => Cardinality(C) <= Cardinality(Placed(p))
<1> DEFINE a == Children(Source, p[1])
           b == Children(Target, p[2])
           m == Range(Matches)
<1>1. Ascends(a) /\ Ascends(b) /\ IsMatching(m)
      /\ Range(a) = {x \in Nodes(Source) : Source.parent[x] = p[1]}
      /\ Range(b) = {y \in Nodes(Target) : Target.parent[y] = p[2]}
  BY ChildrenAscend
<1>2. \A q \in m : q[1] \in Nodes(Source) /\ q[2] \in Nodes(Target)
  BY PairsAreNodes
<1>3. Shared(p) = Between(a, b, m)
  BY <1>1, <1>2 DEF Shared, Between
<1>4. Placed(p) = Chosen(a, b, m)
  BY <1>3 DEF Placed, Chosen
<1> HIDE DEF a, b, m
<1>5. /\ Lcs(a, b, m) = First(Chosen(a, b, m)) /\ InOrder(Chosen(a, b, m))
      /\ \A C \in SUBSET Between(a, b, m) :
           InOrder(C) => Cardinality(C) <= Cardinality(Chosen(a, b, m))
  BY <1>1, LcsIsRight
<1> QED BY <1>3, <1>4, <1>5 DEF a, b, m

MinimalInv == TypedCall /\ PairedOnce

LEMMA MinimalNext == MinimalInv /\ [Next]_vars => MinimalInv'
<1> SUFFICES ASSUME MinimalInv, [Next]_vars PROVE MinimalInv'
  OBVIOUS
<1>1. call' = call
  BY DEF Next, MatchLeaf, LeavesDone, MatchNode, Generate, vars
<1> QED BY <1>1, TypeNext, PairedNext DEF MinimalInv, TypedCall

\* For all trees, words and pairs of the caller: of the children two paired parents have in
\* common, no larger set than the one that is not moved stands in the same order on both sides.
THEOREM NoNeedlessMove == Spec => []MovesMinimal
<1>1. Init => MinimalInv
  BY TypeInit, PairedInit DEF MinimalInv, TypedCall, Init
<1>2. MinimalInv => MovesMinimal
  <2> SUFFICES ASSUME MinimalInv, NEW p \in Range(Matches)
               PROVE  /\ Placed(p) \in {C \in SUBSET Shared(p) : InOrder(C)}
                      /\ \A C \in {D \in SUBSET Shared(p) : InOrder(D)} :
                           Cardinality(C) <= Cardinality(Placed(p))
    BY DEF MovesMinimal, Shared, Placed, InOrder
  <2>1. /\ InOrder(Placed(p))
        /\ \A C \in SUBSET Shared(p) : InOrder(C) => Cardinality(C) <= Cardinality(Placed(p))
    BY LcsOfChildren DEF MinimalInv
  <2>2. Placed(p) \in SUBSET Shared(p)
    BY DEF Placed
  <2> QED BY <2>1, <2>2
<1> QED BY <1>1, <1>2, MinimalNext, PTL DEF Spec

-----------------------------------------------------------------------------

\* Nothing is lost when sequences are put behind each other.
LEMMA FlattenKeeps ==
  ASSUME NEW X, NEW q, Len(q) \in Nat, q \in Seq(Seq(X))
  PROVE  /\ FlattenSeq(q) \in Seq(X)
         /\ \A k \in 1 .. Len(q) : Range(q[k]) \subseteq Range(FlattenSeq(q))
<1> DEFINE n == Len(q)
           g == FlatTo(q)
           S == {i \in 0 .. n : i = 0 \/ /\ g[i] \in Seq(X)
                                         /\ \A k \in 1 .. i : Range(q[k]) \subseteq Range(g[i])}
<1>0. n \in Nat /\ \A k \in 1 .. n : q[k] \in Seq(X)
  <2> DEFINE Y == Seq(X)
  <2>1. q \in Seq(Y)
    OBVIOUS
  <2> HIDE DEF Y
  <2>2. \A k \in 1 .. Len(q) : q[k] \in Y
    BY <2>1
  <2> QED BY <2>2 DEF Y
<1>1. g = [i \in 1 .. n |-> FlatRow(q, g, i)]
  BY FlatToIsTheTable
<1> HIDE DEF g
<1>2. ASSUME NEW i \in 1 .. n, i - 1 \in S PROVE i \in S
  <2>1. g[i] = FlatRow(q, g, i) /\ q[i] \in Seq(X) /\ i \in 0 .. n
    <3>1. q[i] \in Seq(X)
      BY <1>0, Zenon
    <3>2. g[i] = FlatRow(q, g, i)
      BY <1>1, Zenon
    <3>3. i \in 0 .. n
      OBVIOUS
    <3> QED BY <3>1, <3>2, <3>3
  <2>2. CASE i = 1
    <3>1. g[i] = q[i]
      BY <2>1, <2>2 DEF FlatRow
    <3>2. \A k \in 1 .. i : k = i
      BY <2>2
    <3> QED BY <2>1, <3>1, <3>2
  <2>3. CASE i # 1
    <3> DEFINE f == g[i - 1]
               r == q[i]
    <3>1. g[i] = f \o r
      BY <2>1, <2>3 DEF FlatRow
    <3>2. f \in Seq(X) /\ \A k \in 1 .. i - 1 : Range(q[k]) \subseteq Range(f)
      BY <1>2, <2>3
    <3>3. r \in Seq(X)
      BY <2>1
    <3>4. \A k \in 1 .. i : k \in 1 .. i - 1 \/ k = i
      OBVIOUS
    <3> HIDE DEF f
    <3>5. f \o r \in Seq(X) /\ Range(f \o r) = Range(f) \cup Range(r)
      BY <3>2, <3>3, ConcatRange
    <3>6. \A k \in 1 .. i : Range(q[k]) \subseteq Range(f \o r)
      BY <3>2, <3>4, <3>5
    <3> QED BY <2>1, <3>1, <3>5, <3>6
  <2> QED BY <2>2, <2>3
<1>3. n \in S
  <2>1. 0 \in S
    BY <1>0
  <2> HIDE DEF S
  <2>2. 0 .. n \subseteq S
    BY <1>0, <1>2, <2>1, InductionUpTo
  <2> QED BY <1>0, <2>2
<1>4. CASE n # 0
  <2>1. FlattenSeq(q) = g[n]
    BY <1>4, FlattenIsTheLastRow DEF g
  <2> QED BY <1>3, <1>4, <2>1
<1>5. CASE n = 0
  <2>1. FlattenSeq(q) = q
    BY <1>5 DEF FlattenSeq
  <2>2. q = <<>>
    <3> DEFINE Y == Seq(X)
    <3>1. q \in Seq(Y)
      OBVIOUS
    <3> HIDE DEF Y
    <3> QED BY <1>5, <3>1
  <2>3. <<>> \in Seq(X) /\ 1 .. n = {}
    BY <1>5
  <2> HIDE DEF n
  <2> QED BY <2>1, <2>2, <2>3
<1> QED BY <1>4, <1>5

\* The edits of any pair are edit steps.
LEMMA EditsTyped ==
  ASSUME TypedCall, PairedOnce, NEW p \in AllPairs
  PROVE  /\ Edits(p[1], p[2]) \in Seq(EditSteps)
         /\ MoveEdits(p[1], p[2]) \in Seq(EditSteps)
         /\ Verdict(p[1], p[2]) \in Seq(EditSteps)
<1> DEFINE i == p[1]
           j == p[2]
<1>1. i \in Nat /\ j \in Nat
  <2>1. p \in Nodes(Source) \X Nodes(Target)
    BY PairsAreNodes
  <2>2. Nodes(Source) \subseteq Nat /\ Nodes(Target) \subseteq Nat
    BY NodesAreNumbers
  <2> QED BY <2>1, <2>2
<1> HIDE DEF i, j
<1>2. Updated(i, j) \in EditSteps /\ Kept(i, j) \in EditSteps /\ Moved(i, j) \in EditSteps
  BY <1>1 DEF Updated, Kept, Moved, EditSteps
<1>3. MoveEdits(i, j) \in Seq(EditSteps)
  BY MoveEditsSay DEF Says
<1> HIDE DEF EditSteps
<1>4. /\ <<Updated(i, j)>> \in Seq(EditSteps) /\ <<Moved(i, j)>> \in Seq(EditSteps)
      /\ <<Kept(i, j)>> \in Seq(EditSteps) /\ <<>> \in Seq(EditSteps)
  BY <1>2
<1>5. Verdict(i, j) \in Seq(EditSteps)
  BY <1>4 DEF Verdict
<1>6. ASSUME NEW s \in Seq(EditSteps) PROVE s \o Verdict(i, j) \in Seq(EditSteps)
  BY <1>5, ConcatRange
<1>7. Edits(i, j) \in Seq(EditSteps)
  <2>1. \/ Edits(i, j) = <<Moved(i, j)>> \o Verdict(i, j)
        \/ Edits(i, j) = <<>> \o Verdict(i, j)
        \/ Edits(i, j) = <<Updated(i, j)>>
        \/ Edits(i, j) = MoveEdits(i, j) \o Verdict(i, j)
    BY DEF Edits
  <2>2. /\ <<Moved(i, j)>> \o Verdict(i, j) \in Seq(EditSteps)
        /\ <<>> \o Verdict(i, j) \in Seq(EditSteps)
        /\ MoveEdits(i, j) \o Verdict(i, j) \in Seq(EditSteps)
    BY <1>3, <1>4, <1>6
  <2> QED BY <1>4, <2>1, <2>2
<1> QED BY <1>3, <1>5, <1>7 DEF i, j

\* Every edit of every pair is in the script.
LEMMA ScriptHasEdits ==
  ASSUME TypedCall, PairedOnce, Generate, NEW p \in AllPairs
  PROVE  Range(Edits(p[1], p[2])) \subseteq Range(script')
<1> DEFINE removed == Ascending(unmatchedSource)
           inserted == Ascending(unmatchedTarget)
           R == [k \in DOMAIN removed |-> Removed(removed[k])]
           I == [k \in DOMAIN inserted |-> Inserted(inserted[k])]
           q == [k \in DOMAIN Matches |-> Edits(Matches[k][1], Matches[k][2])]
           m == Matches
           n == Len(m)
<1>1. script' = (R \o I) \o FlattenSeq(q)
  BY DEF Generate
<1>2. m \in Seq(Nodes(Source) \X Nodes(Target)) /\ Range(m) = AllPairs
  BY MatchesOnce, PairsAreNodes
<1>3. n \in Nat /\ DOMAIN m = 1 .. n
  BY <1>2
<1>4. \A k \in 1 .. n : m[k] \in AllPairs
  BY <1>2, <1>3 DEF Range
<1>5. q = [k \in 1 .. n |-> Edits(m[k][1], m[k][2])]
  BY <1>3
<1> DEFINE Y == Seq(EditSteps)
           at(k) == Edits(m[k][1], m[k][2])
<1>6. \A k \in 1 .. n : at(k) \in Y
  BY <1>4, EditsTyped
<1>7. q \in Seq(Y) /\ Len(q) = n
  <2>1. q = [k \in 1 .. n |-> at(k)]
    BY <1>5
  <2> HIDE DEF Y, at, q, n
  <2> QED BY <1>3, <1>6, <2>1
<1>8. /\ FlattenSeq(q) \in Seq(EditSteps)
      /\ \A k \in 1 .. n : Range(q[k]) \subseteq Range(FlattenSeq(q))
  <2> HIDE DEF q, n, EditSteps
  <2>1. q \in Seq(Seq(EditSteps)) /\ Len(q) \in Nat
    BY <1>3, <1>7
  <2> QED BY <1>7, <2>1, FlattenKeeps
<1>9. PICK k \in 1 .. n : p = m[k]
  BY <1>2, <1>3 DEF Range
<1>10. q[k] = Edits(p[1], p[2])
  BY <1>5, <1>9
<1>11. R \in Seq(EditSteps) /\ I \in Seq(EditSteps)
  BY LeftoversSay DEF Says
<1> DEFINE f == FlattenSeq(q)
           u == R \o I
<1> HIDE DEF R, I, q, f, u, EditSteps, n, m, at, Y
<1>12. u \in Seq(EditSteps)
  BY <1>11, ConcatRange DEF u
<1>13. Range(u \o f) = Range(u) \cup Range(f)
  BY <1>8, <1>12, ConcatRange DEF f
<1>14. Range(q[k]) \subseteq Range(f)
  BY <1>8 DEF f
<1> QED BY <1>1, <1>10, <1>13, <1>14 DEF u, f

\* A child of an opened pair that the script does not move keeps its place.
LEMMA UnmovedStays ==
  ASSUME TypedCall, PairedOnce, Generate, NEW p \in Range(Matches), Opened(p[1], p[2]),
         NEW a \in Nodes(Source), Source.parent[a] = p[1], a \notin unmatchedSource,
         \A e \in Range(script') : ~(e.edit = "Move" /\ e.source = a)
  PROVE  a \in Lcs(Children(Source, p[1]), Children(Target, p[2]), Range(Matches))
<1> DEFINE i == p[1]
           j == p[2]
           stay == Lcs(Children(Source, i), Children(Target, j), Range(Matches))
           S == {x \in Range(Children(Source, i)) : x \notin stay /\ x \notin unmatchedSource}
           partner == [x \in First(Range(Matches)) |->
                         CHOOSE b \in Second(Range(Matches)) : <<x, b>> \in Range(Matches)]
           r == Ascending(S)
           moves == [k \in DOMAIN r |-> Moved(r[k], partner[r[k]])]
<1> SUFFICES ASSUME a \notin stay PROVE FALSE
  OBVIOUS
<1>1. MoveEdits(i, j) = moves
  BY Zenon DEF MoveEdits
<1>2. Range(Children(Source, i)) = {x \in Nodes(Source) : Source.parent[x] = i}
  BY ChildrenAscend
<1>3. a \in S
  BY <1>2
<1>4. \E k \in DOMAIN r : r[k] = a
  <2>1. S \in SUBSET Nodes(Source)
    BY <1>2
  <2>2. Nodes(Source) \in SUBSET (Nat \ {0}) /\ IsFiniteSet(Nodes(Source))
    BY NodesAreNumbers
  <2> HIDE DEF S
  <2>3. S \in SUBSET Nat /\ IsFiniteSet(S)
    BY <2>1, <2>2, FS_Subset
  <2> QED BY <1>3, <2>3, AscendingEnumerates
<1> HIDE DEF r, S, partner, stay
<1>5. PICK k \in DOMAIN r : r[k] = a
  BY <1>4
<1> DEFINE e == Moved(a, partner[a])
<1>6. e \in Range(moves)
  <2>1. k \in DOMAIN moves /\ moves[k] = e
    BY <1>5
  <2> HIDE DEF moves, e
  <2> QED BY <2>1 DEF Range
<1>7. e.edit = "Move" /\ e.source = a
  BY DEF Moved
<1>8. Edits(i, j) = MoveEdits(i, j) \o Verdict(i, j)
  BY DEF Edits, Opened
<1>9. Range(MoveEdits(i, j)) \subseteq Range(Edits(i, j))
  <2>1. p \in AllPairs
    BY PairsAreNodes
  <2>2. MoveEdits(i, j) \in Seq(EditSteps) /\ Verdict(i, j) \in Seq(EditSteps)
    BY <2>1, EditsTyped
  <2> HIDE DEF EditSteps
  <2>3. Range(MoveEdits(i, j) \o Verdict(i, j)) = Range(MoveEdits(i, j)) \cup Range(Verdict(i, j))
    BY <2>2, ConcatRange
  <2> QED BY <1>8, <2>3
<1>10. Range(Edits(i, j)) \subseteq Range(script')
  BY PairsAreNodes, ScriptHasEdits
<1> HIDE DEF e, moves
<1> QED BY <1>1, <1>6, <1>7, <1>9, <1>10

MovesInv == TypedCall /\ PairedOnce /\ MovesComplete

LEMMA MovesNext == MovesInv /\ [Next]_vars => MovesInv'
<1> SUFFICES ASSUME MovesInv, [Next]_vars PROVE MovesInv'
  OBVIOUS
<1>1. TypedCall /\ PairedOnce
  BY DEF MovesInv
<1>2. call' = call
  BY DEF Next, MatchLeaf, LeavesDone, MatchNode, Generate, vars
<1>3. TypedCall' /\ PairedOnce'
  BY <1>1, <1>2, TypeNext, PairedNext DEF TypedCall
<1>4. Source' = Source /\ Target' = Target
  BY <1>2 DEF Source, Target
<1>5. CASE Generate
  <2>1. UNCHANGED <<unmatchedSource, Matches>>
    BY <1>2, <1>5 DEF Generate, Matches
  <2> DEFINE moved == First(Edited("Move"))'
             unmoved(i) == {a \in Nodes(Source) : /\ Source.parent[a] = i
                                                  /\ a \notin unmatchedSource
                                                  /\ a \notin moved}
  <2>2. \A i : Staying(i)' = unmoved(i)
    BY <1>4, <2>1 DEF Staying
  <2>3. \A i, j : Opened(i, j)' <=> Opened(i, j)
    BY <1>4, <2>1 DEF Opened
  <2>4. ASSUME NEW p \in Range(Matches), Opened(p[1], p[2])
        PROVE  LET stay == {q \in Range(Matches) : q[1] \in unmoved(p[1])} IN
               /\ \A q \in stay : Target.parent[q[2]] = p[2]
               /\ \A q, r \in stay : q[1] < r[1] => q[2] < r[2]
    <3> DEFINE L == Lcs(Children(Source, p[1]), Children(Target, p[2]), Range(Matches))
               kept == Placed(p)
    <3>1. L = First(kept) /\ InOrder(kept)
      BY <1>1, LcsOfChildren
    <3>2. ASSUME NEW q \in Range(Matches), q[1] \in unmoved(p[1]) PROVE q \in kept
      <4>1. /\ q[1] \in Nodes(Source) /\ Source.parent[q[1]] = p[1]
            /\ q[1] \notin unmatchedSource /\ q[1] \notin moved
        BY <3>2
      <4>2. \A e \in Range(script') : ~(e.edit = "Move" /\ e.source = q[1])
        <5> SUFFICES ASSUME NEW e \in Range(script'), e.edit = "Move", e.source = q[1]
                     PROVE  FALSE
          OBVIOUS
        <5>1. <<e.source, e.target>> \in Edited("Move")'
          BY DEF Edited
        <5>2. q[1] \in moved
          BY <5>1 DEF First
        <5> QED BY <4>1, <5>2
      <4> HIDE DEF moved
      <4>3. q[1] \in L
        BY <1>1, <1>5, <2>4, <4>1, <4>2, UnmovedStays
      <4> HIDE DEF L, kept
      <4>4. PICK r \in kept : r[1] = q[1]
        BY <3>1, <4>3 DEF First
      <4>5. r = q
        <5>1. IsMatching(Range(Matches))
          BY <1>1, ChildrenAscend
        <5>2. r \in Range(Matches)
          BY <4>4 DEF kept, Placed, Shared
        <5> QED BY <3>2, <4>4, <5>1, <5>2 DEF IsMatching
      <4> QED BY <4>4, <4>5
    <3>3. \A q \in kept : q \in Range(Matches) /\ Target.parent[q[2]] = p[2]
      BY DEF Placed, Shared
    <3> HIDE DEF kept, unmoved
    <3> QED BY <3>1, <3>2, <3>3 DEF InOrder
  <2>5. MovesComplete'
    <3> HIDE DEF unmoved
    <3> QED BY <1>4, <2>1, <2>2, <2>3, <2>4 DEF MovesComplete
  <2> QED BY <1>3, <2>5 DEF MovesInv
<1>6. CASE ~Generate
  <2>1. CASE stage' = "done"
    <3>1. UNCHANGED vars
      BY <1>1, <1>6, <2>1 DEF Next, MatchLeaf, LeavesDone, MatchNode
    <3> QED BY <1>3, <1>4, <3>1
            DEF MovesInv, MovesComplete, Matches, Staying, Edited, Opened, vars
  <2>2. CASE stage' # "done"
    BY <1>3, <2>2 DEF MovesInv, MovesComplete
  <2> QED BY <2>1, <2>2
<1> QED BY <1>5, <1>6

\* For all trees, words and pairs of the caller: what is not said to move below an opened
\* pair has its partner below the other node of the pair, and in the same order.
THEOREM NoMoveForgotten == Spec => []MovesComplete
<1>1. Init => MovesInv
  BY TypeInit, PairedInit DEF MovesInv, MovesComplete, TypedCall, Init
<1>2. MovesInv => MovesComplete
  BY DEF MovesInv
<1> QED BY <1>1, <1>2, MovesNext, PTL DEF Spec

-----------------------------------------------------------------------------
(* What the trees of the model compute: recursive functions over the nodes   *)
(* of a walk, each of which looks at places of a lower rank only.            *)

\* The body of a recursive function, b, as a function of the table and the place: for a
\* place it looks up nothing in the table but places of lower rank.
LooksDown(b, D, V, rank, n) ==
  /\ n \in Nat /\ rank \in [D -> 0 .. n] /\ V # {} /\ b \in [[D -> V] \X D -> V]
  /\ \A g, h \in [D -> V] : \A p \in D :
       (\A c \in D : rank[c] < rank[p] => g[c] = h[c]) => b[<<g, p>>] = b[<<h, p>>]

\* Then there is such a function.
LEMMA TableByRank ==
  ASSUME NEW b, NEW D, NEW V, NEW rank, NEW n, LooksDown(b, D, V, rank, n)
  PROVE  \E f \in [D -> V] : f = [p \in D |-> b[<<f, p>>]]
<1> DEFINE Filled(d, g) == \A p \in D : rank[p] < d => g[p] = b[<<g, p>>]
           S == {d \in 0 .. n + 1 : \E g \in [D -> V] : Filled(d, g)}
<1>a. /\ n \in Nat /\ rank \in [D -> 0 .. n] /\ b \in [[D -> V] \X D -> V]
      /\ \A g, h \in [D -> V] : \A p \in D :
           (\A c \in D : rank[c] < rank[p] => g[c] = h[c]) => b[<<g, p>>] = b[<<h, p>>]
  BY DEF LooksDown
<1>b. PICK v \in V : TRUE
  BY DEF LooksDown
<1>1. 0 \in S
  <2>1. [p \in D |-> v] \in [D -> V]
    OBVIOUS
  <2>2. Filled(0, [p \in D |-> v])
    BY <1>a
  <2>3. 0 \in 0 .. n + 1
    BY <1>a
  <2> HIDE DEF Filled
  <2> QED BY <2>1, <2>2, <2>3
<1>2. ASSUME NEW d \in 1 .. n + 1, d - 1 \in S PROVE d \in S
  <2>1. PICK g \in [D -> V] : Filled(d - 1, g)
    BY <1>2
  <2> DEFINE h == [p \in D |-> b[<<g, p>>]]
  <2>2. h \in [D -> V]
    BY <1>a
  <2>3. \A p \in D : rank[p] < d - 1 => h[p] = g[p]
    BY <2>1
  <2>4. \A p \in D : h[p] = b[<<g, p>>]
    OBVIOUS
  <2>5. \A p \in D : rank[p] \in Nat
    BY <1>a
  <2>6. ASSUME NEW p \in D, rank[p] < d PROVE h[p] = b[<<h, p>>]
    <3>1. \A c \in D : rank[c] < rank[p] => rank[c] < d - 1
      BY <1>a, <2>5, <2>6
    <3> HIDE DEF h, Filled
    <3>2. \A c \in D : rank[c] < rank[p] => g[c] = h[c]
      BY <2>3, <3>1
    <3>3. b[<<g, p>>] = b[<<h, p>>]
      BY <1>a, <2>2, <3>2
    <3> QED BY <2>4, <3>3
  <2> HIDE DEF h
  <2>7. Filled(d, h)
    BY <2>6
  <2>8. d \in 0 .. n + 1
    BY <1>a
  <2> HIDE DEF Filled
  <2> QED BY <2>2, <2>7, <2>8
<1>3. n + 1 \in S
  <2> HIDE DEF S
  <2> DEFINE z == n + 1
  <2>1. z \in Nat /\ \A d \in 1 .. z : d - 1 \in S => d \in S
    BY <1>a, <1>2
  <2> HIDE DEF z
  <2>2. 0 .. z \subseteq S
    BY <1>1, <2>1, InductionUpTo
  <2>3. z \in S
    BY <2>1, <2>2
  <2> QED BY <2>3 DEF z
<1>4. PICK g \in [D -> V] : Filled(n + 1, g)
  BY <1>3
<1>5. \A p \in D : g[p] = b[<<g, p>>]
  <2>1. \A p \in D : rank[p] < n + 1
    BY <1>a
  <2> QED BY <1>4, <2>1
<1>6. g = [p \in D |-> b[<<g, p>>]]
  BY <1>5
<1> QED BY <1>6

\* The trees of a call, as the walk lists them.
Tree(t) ==
  /\ t \in Trees /\ Walk(t)
  /\ \A i \in Nodes(t) : IsFiniteSet(Grams(Face(t, i)))

\* What the shape of a walk says of the nodes and their parents.
LEMMA TreeShape ==
  ASSUME NEW t, Tree(t)
  PROVE  /\ Len(t.kind) \in Nat \ {0} /\ Nodes(t) = 1 .. Len(t.kind) /\ 1 \in Nodes(t)
         /\ Nodes(t) \in SUBSET Nat /\ IsFiniteSet(Nodes(t))
         /\ \A i \in Nodes(t) : /\ t.parent[i] \in Nat /\ t.parent[i] < i
                                /\ t.parent[i] = 0 <=> i = 1
                                /\ t.parent[i] # 0 => t.parent[i] \in Nodes(t)
         /\ \A i, j \in Nodes(t) : i < j => t.parent[i] <= t.parent[j]
         /\ \A i, j \in Nodes(t) : t.parent[i] = t.parent[j] /\ t.slot[i] = t.slot[j] => i = j
<1> DEFINE n == Len(t.kind)
<1>1. t.kind \in Seq(STRING) /\ t.parent \in Seq(Nat)
  BY DEF Tree, Trees
<1>2. n \in Nat /\ Nodes(t) = 1 .. n /\ DOMAIN t.parent = 1 .. Len(t.parent)
      /\ DOMAIN t.kind = 1 .. n
      /\ \A i \in DOMAIN t.parent : t.parent[i] \in Nat
  BY <1>1 DEF Nodes
<1>3. /\ n > 0 /\ Len(t.parent) = n
      /\ \A i \in 1 .. n : t.parent[i] < i /\ (t.parent[i] = 0 <=> i = 1)
      /\ \A i, j \in 1 .. n : i < j => t.parent[i] <= t.parent[j]
      /\ \A i, j \in 1 .. n : t.parent[i] = t.parent[j] /\ t.slot[i] = t.slot[j] => i = j
  BY DEF Tree, Walk
<1> HIDE DEF n
<1>5. \A i \in 1 .. n : t.parent[i] \in Nat /\ t.parent[i] < i
                        /\ (t.parent[i] # 0 => t.parent[i] \in 1 .. n)
  BY <1>2, <1>3
<1>6. IsFiniteSet(1 .. n)
  BY <1>2, FS_Interval
<1>7. 1 .. n \in SUBSET Nat /\ 1 \in 1 .. n /\ n \in Nat \ {0}
  BY <1>2, <1>3
<1> QED BY <1>2, <1>3, <1>5, <1>6, <1>7 DEF n

\* The children of a node, listed in ascending order.
LEMMA KidsInOrder ==
  ASSUME NEW t, Tree(t), NEW i
  PROVE  /\ Children(t, i) \in Seq(Kids(t, i))
         /\ Kids(t, i) \in SUBSET Nodes(t) /\ IsFiniteSet(Kids(t, i))
         /\ Len(Children(t, i)) = Cardinality(Kids(t, i))
         /\ DOMAIN Children(t, i) = 1 .. Cardinality(Kids(t, i))
         /\ \A k \in DOMAIN Children(t, i) : Children(t, i)[k] \in Kids(t, i)
         /\ \A x \in Kids(t, i) : \E k \in DOMAIN Children(t, i) : Children(t, i)[k] = x
         /\ \A k, l \in DOMAIN Children(t, i) :
              k < l => Children(t, i)[k] < Children(t, i)[l]
<1> DEFINE C == Kids(t, i)
           c == Ascending(C)
<1>1. Children(t, i) = c
  BY DEF Children
<1>2. Nodes(t) \in SUBSET Nat /\ IsFiniteSet(Nodes(t))
  BY TreeShape
<1>3. C \in SUBSET Nodes(t)
  BY DEF Kids
<1> HIDE DEF C
<1>4. C \in SUBSET Nat /\ IsFiniteSet(C)
  BY <1>2, <1>3, FS_Subset
<1>5. /\ c \in Seq(C) /\ Len(c) = Cardinality(C)
      /\ \A x \in C : \E k \in DOMAIN c : c[k] = x
      /\ \A k, l \in DOMAIN c : k < l => c[k] < c[l]
  BY <1>4, AscendingEnumerates
<1> HIDE DEF c
<1>6. DOMAIN c = 1 .. Cardinality(C) /\ \A k \in DOMAIN c : c[k] \in C
  BY <1>5
<1> QED BY <1>1, <1>3, <1>4, <1>5, <1>6 DEF C

-----------------------------------------------------------------------------
(* Equality of trees, unfolded.                                              *)

SameAt(s, t, f, p) ==
  LET ks == Kids(s, p[1])
      kt == Kids(t, p[2]) IN
  /\ s.kind[p[1]] = t.kind[p[2]] /\ s.name[p[1]] = t.name[p[2]]
  /\ Folded(s.kind[p[1]], s.value[p[1]]) = Folded(t.kind[p[2]], t.value[p[2]])
  /\ {s.slot[a] : a \in ks} = {t.slot[b] : b \in kt}
  /\ \A a \in ks, b \in kt : s.slot[a] = t.slot[b] => f[<<a, b>>]

SameTable(s, t) == CHOOSE f : f = [p \in Nodes(s) \X Nodes(t) |-> SameAt(s, t, f, p)]

\* Equality is the cell of the table that belongs to the two nodes.
LEMMA SameIsTheCell ==
  ASSUME NEW s, NEW t, NEW i, NEW j
  PROVE  Same(s, i, t, j) = SameTable(s, t)[<<i, j>>]
BY DEF Same, SameTable, SameAt

\* The table exists: equality of two nodes looks no further than their children.
LEMMA SameTableIsTheTable ==
  ASSUME NEW s, NEW t, Tree(s), Tree(t)
  PROVE  SameTable(s, t) = [p \in Nodes(s) \X Nodes(t) |-> SameAt(s, t, SameTable(s, t), p)]
<1> DEFINE n == Len(s.kind)
           D == Nodes(s) \X Nodes(t)
           rank == [p \in D |-> n - p[1]]
           b == [q \in [D -> BOOLEAN] \X D |-> SameAt(s, t, q[1], q[2])]
<1>1. n \in Nat /\ Nodes(s) = 1 .. n
  BY TreeShape
<1>2. rank \in [D -> 0 .. n]
  BY <1>1
<1>3. ASSUME NEW g \in [D -> BOOLEAN], NEW p \in D
      PROVE  SameAt(s, t, g, p) \in BOOLEAN /\ b[<<g, p>>] = SameAt(s, t, g, p)
  <2>1. SameAt(s, t, g, p) \in BOOLEAN
    BY DEF SameAt
  <2> QED BY <2>1
<1>4. b \in [[D -> BOOLEAN] \X D -> BOOLEAN]
  BY DEF SameAt
<1>5. ASSUME NEW p \in D
      PROVE  /\ \A x \in Kids(s, p[1]) : x \in Nodes(s) /\ x > p[1]
             /\ \A x \in Kids(t, p[2]) : x \in Nodes(t)
             /\ p[1] \in Nodes(s)
  <2>1. p[1] \in Nodes(s) /\ p[2] \in Nodes(t)
    OBVIOUS
  <2>2. \A x \in Kids(s, p[1]) : x \in Nodes(s) /\ x > p[1]
    BY <1>1, <2>1, TreeShape DEF Kids
  <2>3. \A x \in Kids(t, p[2]) : x \in Nodes(t)
    BY DEF Kids
  <2> QED BY <2>1, <2>2, <2>3
<1>6. ASSUME NEW g \in [D -> BOOLEAN], NEW h \in [D -> BOOLEAN], NEW p \in D,
             \A c \in D : rank[c] < rank[p] => g[c] = h[c]
      PROVE  b[<<g, p>>] = b[<<h, p>>]
  <2>1. ASSUME NEW x \in Kids(s, p[1]), NEW y \in Kids(t, p[2]) PROVE g[<<x, y>>] = h[<<x, y>>]
    <3> DEFINE c == <<x, y>>
    <3>1. c \in D /\ c[1] = x /\ x > p[1]
      BY <1>5
    <3>2. rank[c] < rank[p]
      BY <1>1, <1>5, <3>1
    <3> HIDE DEF c, rank
    <3>3. g[c] = h[c]
      BY <1>6, <3>1, <3>2
    <3> QED BY <3>3 DEF c
  <2>2. SameAt(s, t, g, p) = SameAt(s, t, h, p)
    <3>1. (\A x \in Kids(s, p[1]), y \in Kids(t, p[2]) : s.slot[x] = t.slot[y] => g[<<x, y>>])
          <=> \A x \in Kids(s, p[1]), y \in Kids(t, p[2]) : s.slot[x] = t.slot[y] => h[<<x, y>>]
      BY <2>1
    <3> QED BY <3>1 DEF SameAt
  <2> HIDE DEF b
  <2> QED BY <1>3, <2>2
<1>7. PICK f \in [D -> BOOLEAN] : f = [p \in D |-> b[<<f, p>>]]
  <2> DEFINE V == BOOLEAN
  <2> HIDE DEF D, rank, b, n
  <2>1. \A g, h \in [D -> V] : \A p \in D :
          (\A c \in D : rank[c] < rank[p] => g[c] = h[c]) => b[<<g, p>>] = b[<<h, p>>]
    BY <1>6
  <2>2. V # {} /\ b \in [[D -> V] \X D -> V] /\ n \in Nat
    BY <1>1, <1>4
  <2> HIDE DEF V
  <2>3. LooksDown(b, D, V, rank, n)
    BY <1>2, <2>1, <2>2 DEF LooksDown
  <2>4. \E f \in [D -> V] : f = [p \in D |-> b[<<f, p>>]]
    BY <2>3, TableByRank
  <2> QED BY <2>4 DEF V
<1>8. f = [p \in D |-> SameAt(s, t, f, p)]
  <2> HIDE DEF b, D
  <2>1. \A p \in D : b[<<f, p>>] = SameAt(s, t, f, p)
    BY <1>3
  <2> QED BY <1>7, <2>1
<1> QED BY <1>8 DEF SameTable

\* Two nodes are the same if they carry the same and their children, slot by slot, are.
LEMMA SameUnfolds ==
  ASSUME NEW s, NEW t, Tree(s), Tree(t), NEW i \in Nodes(s), NEW j \in Nodes(t)
  PROVE  Same(s, i, t, j) <=>
           /\ s.kind[i] = t.kind[j] /\ s.name[i] = t.name[j]
           /\ Folded(s.kind[i], s.value[i]) = Folded(t.kind[j], t.value[j])
           /\ {s.slot[a] : a \in Kids(s, i)} = {t.slot[b] : b \in Kids(t, j)}
           /\ \A a \in Kids(s, i), b \in Kids(t, j) : s.slot[a] = t.slot[b] => Same(s, a, t, b)
<1> DEFINE f == SameTable(s, t)
           p == <<i, j>>
<1>1. f = [q \in Nodes(s) \X Nodes(t) |-> SameAt(s, t, f, q)]
  BY SameTableIsTheTable
<1>2. p \in Nodes(s) \X Nodes(t) /\ p[1] = i /\ p[2] = j
  OBVIOUS
<1> HIDE DEF f, p
<1>3. f[p] = SameAt(s, t, f, p)
  BY <1>1, <1>2
<1>4. \A a, b : f[<<a, b>>] = Same(s, a, t, b)
  BY SameIsTheCell DEF f
<1>5. Same(s, i, t, j) = f[p]
  BY SameIsTheCell DEF f, p
<1>6. SameAt(s, t, f, p) <=>
        /\ s.kind[i] = t.kind[j] /\ s.name[i] = t.name[j]
        /\ Folded(s.kind[i], s.value[i]) = Folded(t.kind[j], t.value[j])
        /\ {s.slot[a] : a \in Kids(s, i)} = {t.slot[b] : b \in Kids(t, j)}
        /\ \A a \in Kids(s, i), b \in Kids(t, j) : s.slot[a] = t.slot[b] => f[<<a, b>>]
  BY <1>2 DEF SameAt
<1>7. (\A a \in Kids(s, i), b \in Kids(t, j) : s.slot[a] = t.slot[b] => f[<<a, b>>])
      <=> \A a \in Kids(s, i), b \in Kids(t, j) : s.slot[a] = t.slot[b] => Same(s, a, t, b)
  BY <1>4, Zenon
<1>8. Same(s, i, t, j) <=> SameAt(s, t, f, p)
  BY <1>3, <1>5, Zenon
<1> QED BY <1>6, <1>7, <1>8, Zenon

\* Every tree equals itself, from each of its nodes down.
LEMMA SameAsItself ==
  ASSUME NEW t, Tree(t) PROVE \A i \in Nodes(t) : Same(t, i, t, i)
<1> DEFINE n == Len(t.kind)
           S == {d \in 0 .. n : \A i \in Nodes(t) : i > n - d => Same(t, i, t, i)}
<1>1. n \in Nat /\ Nodes(t) = 1 .. n /\ \A i \in Nodes(t) : t.parent[i] \in Nat /\ t.parent[i] < i
  BY TreeShape
<1> HIDE DEF n
<1>2. 0 \in S
  BY <1>1
<1>3. ASSUME NEW d \in 1 .. n, d - 1 \in S PROVE d \in S
  <2>1. \A i \in Nodes(t) : i > n - (d - 1) => Same(t, i, t, i)
    BY <1>3
  <2>2. ASSUME NEW i \in Nodes(t), i > n - d PROVE Same(t, i, t, i)
    <3>1. \A x \in Kids(t, i) : x \in Nodes(t) /\ x > i
      BY <1>1 DEF Kids
    <3>2. \A x \in Kids(t, i) : Same(t, x, t, x)
      <4>1. \A x \in Nodes(t) : x > i => x > n - (d - 1)
        BY <1>1, <1>3, <2>2
      <4> QED BY <2>1, <3>1, <4>1
    <3>3. \A x, y \in Kids(t, i) : t.slot[x] = t.slot[y] => x = y
      BY TreeShape DEF Kids
    <3>4. \A x, y \in Kids(t, i) : t.slot[x] = t.slot[y] => Same(t, x, t, y)
      BY <3>2, <3>3
    <3> QED BY <3>4, SameUnfolds
  <2>3. d \in 0 .. n
    BY <1>1
  <2> QED BY <2>2, <2>3
<1>4. n \in S
  <2> HIDE DEF S
  <2>1. 0 .. n \subseteq S
    BY <1>1, <1>2, <1>3, InductionUpTo
  <2> QED BY <1>1, <2>1
<1>5. \A i \in Nodes(t) : i > n - n
  BY <1>1
<1> QED BY <1>4, <1>5

\* A child of one of two equal nodes has an equal in the same slot below the other.
LEMMA SameBelow ==
  ASSUME NEW s, NEW t, Tree(s), Tree(t), NEW i \in Nodes(s), NEW j \in Nodes(t), Same(s, i, t, j)
  PROVE  /\ \A a \in Kids(s, i) : \E b \in Kids(t, j) : t.slot[b] = s.slot[a] /\ Same(s, a, t, b)
         /\ \A b \in Kids(t, j) : \E a \in Kids(s, i) : t.slot[b] = s.slot[a] /\ Same(s, a, t, b)
<1> DEFINE A == {s.slot[a] : a \in Kids(s, i)}
           B == {t.slot[b] : b \in Kids(t, j)}
<1>1. /\ A = B
      /\ \A a \in Kids(s, i), b \in Kids(t, j) : s.slot[a] = t.slot[b] => Same(s, a, t, b)
  BY SameUnfolds
<1>2. \A a \in Kids(s, i) : \E b \in Kids(t, j) : t.slot[b] = s.slot[a]
  <2> TAKE a \in Kids(s, i)
  <2>1. s.slot[a] \in B
    BY <1>1
  <2> QED BY <2>1
<1>3. \A b \in Kids(t, j) : \E a \in Kids(s, i) : t.slot[b] = s.slot[a]
  <2> TAKE b \in Kids(t, j)
  <2>1. t.slot[b] \in A
    BY <1>1
  <2> QED BY <2>1
<1> QED BY <1>1, <1>2, <1>3

\* The place of a child among the children is how many of them are not after it.
LEMMA PlaceOfChild ==
  ASSUME NEW t, Tree(t), NEW i, NEW x \in Kids(t, i)
  PROVE  /\ Cardinality({y \in Kids(t, i) : y <= x}) \in DOMAIN Children(t, i)
         /\ Children(t, i)[Cardinality({y \in Kids(t, i) : y <= x})] = x
<1> DEFINE c == Children(t, i)
           C == Kids(t, i)
           U == {y \in C : y <= x}
<1>1. /\ c \in Seq(C) /\ DOMAIN c = 1 .. Cardinality(C)
      /\ \A y \in C : \E k \in DOMAIN c : c[k] = y
      /\ \A k, l \in DOMAIN c : k < l => c[k] < c[l]
      /\ \A k \in DOMAIN c : c[k] \in C
      /\ IsFiniteSet(C) /\ C \in SUBSET Nodes(t)
  BY KidsInOrder
<1>2. \A y \in C : y \in Nat
  BY <1>1, TreeShape
<1>3. x \in C
  OBVIOUS
<1> HIDE DEF c, C
<1>4. PICK k \in DOMAIN c : c[k] = x
  BY <1>1, <1>3
<1>5. Cardinality(C) \in Nat
  BY <1>1, FS_CardinalityType
<1>6. k \in Nat /\ k >= 1 /\ k <= Cardinality(C)
  BY <1>1, <1>4, <1>5
<1>7. Cardinality(U) = k
  <2> DEFINE f == [l \in 1 .. k |-> c[l]]
  <2>1. ASSUME NEW l \in 1 .. k PROVE l \in DOMAIN c /\ c[l] \in U
    <3>1. l \in DOMAIN c
      BY <1>1, <1>5, <1>6
    <3>2. c[l] \in C /\ c[l] \in Nat /\ x \in Nat
      BY <1>1, <1>2, <1>3, <3>1
    <3>3. l < k \/ l = k
      BY <1>6
    <3>4. c[l] < x \/ c[l] = x
      BY <1>1, <1>4, <3>1, <3>3
    <3>5. c[l] <= x
      BY <3>2, <3>4
    <3> QED BY <3>1, <3>2, <3>5
  <2>2. ASSUME NEW y \in U PROVE \E l \in 1 .. k : c[l] = y
    <3>1. y \in C /\ y <= x /\ y \in Nat /\ x \in Nat
      BY <1>2, <1>3
    <3>2. PICK l \in DOMAIN c : c[l] = y
      BY <1>1, <3>1
    <3>3. ~(k < l)
      <4>1. k < l => x < y
        BY <1>1, <1>4, <3>2
      <4> QED BY <3>1, <4>1
    <3>4. l \in Nat /\ l >= 1
      BY <1>1, <1>5, <3>2
    <3>5. l \in 1 .. k
      BY <1>6, <3>3, <3>4
    <3> QED BY <3>2, <3>5
  <2>3. ASSUME NEW l \in 1 .. k, NEW m \in 1 .. k, c[l] = c[m] PROVE l = m
    <3>1. l \in DOMAIN c /\ m \in DOMAIN c /\ c[l] \in Nat /\ c[m] \in Nat
      BY <1>1, <1>2, <2>1
    <3>2. ~(l < m) /\ ~(m < l)
      BY <1>1, <2>3, <3>1
    <3> QED BY <1>6, <3>2
  <2>4. f \in [1 .. k -> U] /\ DOMAIN f = 1 .. k /\ \A l \in 1 .. k : f[l] = c[l]
    <3> HIDE DEF U
    <3> QED BY <2>1
  <2> HIDE DEF f, U
  <2>5. f \in Bijection(1 .. k, U)
    <3>1. f \in Surjection(1 .. k, U)
      BY <2>2, <2>4 DEF Surjection
    <3>2. f \in Injection(1 .. k, U)
      BY <2>3, <2>4 DEF Injection, IsInjective
    <3> QED BY <3>1, <3>2 DEF Bijection
  <2>6. ExistsBijection(1 .. k, U)
    BY <2>5 DEF ExistsBijection
  <2> QED BY <1>6, <2>6, FS_CountingElements
<1> QED BY <1>4, <1>7 DEF c, C

-----------------------------------------------------------------------------
(* How alike the ancestors of two nodes are, and which nodes lie below one.  *)

ScoreAt(s, t, f, p) ==
  IF p[1] = 0 \/ p[2] = 0
  THEN IF p = <<0, 0>> /\ s.attached /\ t.attached THEN 1 ELSE 0
  ELSE IF s.kind[p[1]] # t.kind[p[2]] THEN 0
       ELSE 1 + f[<<s.parent[p[1]], t.parent[p[2]]>>]

Places(s, t) == (Nodes(s) \cup {0}) \X (Nodes(t) \cup {0})
ScoreTable(s, t) == CHOOSE f : f = [p \in Places(s, t) |-> ScoreAt(s, t, f, p)]

\* The parent score is the cell of the table that belongs to the two nodes.
LEMMA ScoreIsTheCell ==
  ASSUME NEW s, NEW t, NEW i, NEW j
  PROVE  ParentScore(s, i, t, j) = ScoreTable(s, t)[<<i, j>>]
BY DEF ParentScore, ScoreTable, ScoreAt, Places

\* The table exists: the score of two nodes looks no further than their parents.
LEMMA ScoreTableIsTheTable ==
  ASSUME NEW s, NEW t, Tree(s), Tree(t)
  PROVE  /\ ScoreTable(s, t) \in [Places(s, t) -> Nat]
         /\ ScoreTable(s, t) = [p \in Places(s, t) |-> ScoreAt(s, t, ScoreTable(s, t), p)]
<1> DEFINE n == Len(s.kind)
           D == Places(s, t)
           rank == [p \in D |-> p[1]]
           b == [q \in [D -> Nat] \X D |-> ScoreAt(s, t, q[1], q[2])]
<1>1. n \in Nat /\ Nodes(s) = 1 .. n
  BY TreeShape
<1>2. rank \in [D -> 0 .. n]
  BY <1>1 DEF Places
<1>3. ASSUME NEW p \in D, p[1] # 0, p[2] # 0
      PROVE  /\ p[1] \in Nodes(s) /\ <<s.parent[p[1]], t.parent[p[2]]>> \in D
             /\ s.parent[p[1]] < p[1]
  <2>1. p[1] \in Nodes(s) /\ p[2] \in Nodes(t)
    BY <1>3 DEF Places
  <2>2. s.parent[p[1]] \in Nodes(s) \cup {0} /\ s.parent[p[1]] < p[1]
    BY <2>1, TreeShape
  <2>3. t.parent[p[2]] \in Nodes(t) \cup {0}
    BY <2>1, TreeShape
  <2> QED BY <2>1, <2>2, <2>3 DEF Places
<1>4. ASSUME NEW g \in [D -> Nat], NEW p \in D PROVE ScoreAt(s, t, g, p) \in Nat
  <2>1. CASE p[1] = 0 \/ p[2] = 0
    BY <2>1 DEF ScoreAt
  <2>2. CASE p[1] # 0 /\ p[2] # 0
    <3> DEFINE c == <<s.parent[p[1]], t.parent[p[2]]>>
    <3>1. c \in D
      BY <1>3, <2>2
    <3> HIDE DEF c, D
    <3>2. g[c] \in Nat
      BY <3>1
    <3>3. ScoreAt(s, t, g, p) = IF s.kind[p[1]] # t.kind[p[2]] THEN 0 ELSE 1 + g[c]
      BY <2>2 DEF ScoreAt, c
    <3> QED BY <3>2, <3>3
  <2> QED BY <2>1, <2>2
<1>5. \A g \in [D -> Nat], p \in D : b[<<g, p>>] = ScoreAt(s, t, g, p)
  OBVIOUS
<1>6. b \in [[D -> Nat] \X D -> Nat]
  <2> HIDE DEF D
  <2> QED BY <1>4
<1>7. ASSUME NEW g \in [D -> Nat], NEW h \in [D -> Nat], NEW p \in D,
             \A c \in D : rank[c] < rank[p] => g[c] = h[c]
      PROVE  b[<<g, p>>] = b[<<h, p>>]
  <2>1. ScoreAt(s, t, g, p) = ScoreAt(s, t, h, p)
    <3>1. CASE p[1] = 0 \/ p[2] = 0
      BY <3>1 DEF ScoreAt
    <3>2. CASE p[1] # 0 /\ p[2] # 0
      <4> DEFINE c == <<s.parent[p[1]], t.parent[p[2]]>>
      <4>1. c \in D /\ c[1] < p[1]
        BY <1>3, <3>2
      <4>2. rank[c] < rank[p]
        BY <4>1
      <4> HIDE DEF c, D, rank
      <4>3. g[c] = h[c]
        BY <1>7, <4>1, <4>2
      <4> QED BY <3>2, <4>3 DEF ScoreAt, c
    <3> QED BY <3>1, <3>2
  <2> HIDE DEF b, D
  <2> QED BY <1>5, <2>1
<1>8. PICK f \in [D -> Nat] : f = [p \in D |-> b[<<f, p>>]]
  <2> DEFINE V == Nat
  <2> HIDE DEF D, rank, b, n
  <2>1. \A g, h \in [D -> V] : \A p \in D :
          (\A c \in D : rank[c] < rank[p] => g[c] = h[c]) => b[<<g, p>>] = b[<<h, p>>]
    BY <1>7
  <2>2. V # {} /\ b \in [[D -> V] \X D -> V] /\ n \in Nat
    BY <1>1, <1>6
  <2> HIDE DEF V
  <2>3. LooksDown(b, D, V, rank, n)
    BY <1>2, <2>1, <2>2 DEF LooksDown
  <2>4. \E f \in [D -> V] : f = [p \in D |-> b[<<f, p>>]]
    BY <2>3, TableByRank
  <2> QED BY <2>4 DEF V
<1>9. f = [p \in D |-> ScoreAt(s, t, f, p)]
  <2> HIDE DEF b, D
  <2>1. \A p \in D : b[<<f, p>>] = ScoreAt(s, t, f, p)
    BY <1>5
  <2> QED BY <1>8, <2>1
<1>10. ScoreTable(s, t) = [p \in D |-> ScoreAt(s, t, ScoreTable(s, t), p)]
  BY <1>9 DEF ScoreTable
<1> DEFINE r == ScoreTable(s, t)
           S == {d \in 0 .. n : \A p \in D : p[1] <= d => r[p] \in Nat}
<1> HIDE DEF r
<1>a. r = [p \in D |-> ScoreAt(s, t, r, p)]
  BY <1>10 DEF r
<1>11. \A p \in D : r[p] = ScoreAt(s, t, r, p) /\ p[1] \in 0 .. n /\ p[1] \in Nat
  <2>1. \A p \in D : p[1] \in 0 .. n /\ p[1] \in Nat
    BY <1>1 DEF Places
  <2> HIDE DEF D
  <2> QED BY <1>a, <2>1
<1>12. ASSUME NEW p \in D, p[1] = 0 \/ p[2] = 0 PROVE r[p] \in Nat
  <2>1. ScoreAt(s, t, r, p) \in Nat
    BY <1>12 DEF ScoreAt
  <2> QED BY <1>11, <2>1
<1> HIDE DEF D, n
<1>13. 0 \in S
  <2>1. \A p \in D : p[1] <= 0 => p[1] = 0
    BY <1>11
  <2> QED BY <1>1, <1>12, <2>1
<1>14. ASSUME NEW d \in 1 .. n, d - 1 \in S PROVE d \in S
  <2>1. \A p \in D : p[1] <= d - 1 => r[p] \in Nat
    BY <1>14
  <2>2. ASSUME NEW p \in D, p[1] <= d PROVE r[p] \in Nat
    <3>1. CASE p[1] = 0 \/ p[2] = 0
      BY <1>12, <3>1
    <3>2. CASE p[1] # 0 /\ p[2] # 0
      <4> DEFINE c == <<s.parent[p[1]], t.parent[p[2]]>>
      <4>1. c \in D /\ c[1] < p[1]
        BY <1>3, <3>2
      <4> HIDE DEF c
      <4>2. c[1] <= d - 1
        BY <1>1, <1>11, <2>2, <4>1
      <4>3. r[c] \in Nat
        BY <2>1, <4>1, <4>2
      <4>4. r[p] = IF s.kind[p[1]] # t.kind[p[2]] THEN 0 ELSE 1 + r[c]
        BY <1>11, <3>2 DEF ScoreAt, c
      <4> QED BY <4>3, <4>4
    <3> QED BY <3>1, <3>2
  <2>3. d \in 0 .. n
    BY <1>1
  <2> QED BY <2>2, <2>3
<1>15. n \in S
  <2> HIDE DEF S
  <2>1. 0 .. n \subseteq S
    BY <1>1, <1>13, <1>14, InductionUpTo
  <2> QED BY <1>1, <2>1
<1>16. \A p \in D : r[p] \in Nat
  <2>1. \A p \in D : p[1] <= n
    BY <1>1, <1>11
  <2> QED BY <1>15, <2>1
<1>17. r \in [D -> Nat]
  <2>1. r = [p \in D |-> r[p]]
    BY <1>a
  <2> QED BY <1>16, <2>1
<1> QED BY <1>10, <1>17 DEF r, D

\* The parent score, one step at a time.
LEMMA ScoreUnfolds ==
  ASSUME NEW s, NEW t, Tree(s), Tree(t), NEW i \in Nodes(s) \cup {0}, NEW j \in Nodes(t) \cup {0}
  PROVE  /\ ParentScore(s, i, t, j) \in Nat
         /\ ParentScore(s, i, t, j)
              = IF i = 0 \/ j = 0
                THEN IF i = 0 /\ j = 0 /\ s.attached /\ t.attached THEN 1 ELSE 0
                ELSE IF s.kind[i] # t.kind[j] THEN 0
                     ELSE 1 + ParentScore(s, s.parent[i], t, t.parent[j])
<1> DEFINE f == ScoreTable(s, t)
           p == <<i, j>>
<1>1. f \in [Places(s, t) -> Nat] /\ f = [q \in Places(s, t) |-> ScoreAt(s, t, f, q)]
  BY ScoreTableIsTheTable
<1>2. p \in Places(s, t) /\ p[1] = i /\ p[2] = j /\ (p = <<0, 0>> <=> i = 0 /\ j = 0)
  BY DEF Places
<1> HIDE DEF f, p
<1>3. f[p] = ScoreAt(s, t, f, p) /\ f[p] \in Nat
  BY <1>1, <1>2
<1>4. f[<<s.parent[i], t.parent[j]>>] = ParentScore(s, s.parent[i], t, t.parent[j])
  BY ScoreIsTheCell DEF f
<1>5. ParentScore(s, i, t, j) = f[p]
  BY ScoreIsTheCell DEF f, p
<1> QED BY <1>2, <1>3, <1>4, <1>5 DEF ScoreAt

\* In a tree that hangs below nothing no node is as like another in its ancestors as itself.
LEMMA ScoresOneselfMost ==
  ASSUME NEW t, Tree(t), ~t.attached
  PROVE  \A i, j \in Nodes(t) : /\ ParentScore(t, i, t, j) <= ParentScore(t, i, t, i)
                                /\ ParentScore(t, i, t, j) <= ParentScore(t, j, t, j)
                                /\ ParentScore(t, i, t, j) \in Nat
<1> DEFINE n == Len(t.kind)
           N == Nodes(t) \cup {0}
           score(i, j) == ParentScore(t, i, t, j)
           S == {d \in 0 .. n : \A i, j \in N : i <= d => score(i, j) <= score(i, i)
                                                         /\ score(i, j) <= score(j, j)}
<1>1. n \in Nat /\ Nodes(t) = 1 .. n
  BY TreeShape
<1>2. \A i \in Nodes(t) : t.parent[i] \in N /\ t.parent[i] < i
  BY TreeShape
<1>3. \A i, j \in N : score(i, j) \in Nat /\ (i = 0 \/ j = 0 => score(i, j) = 0)
  BY ScoreUnfolds
<1>4. \A i, j \in N : i # 0 /\ j # 0 =>
        score(i, j) = IF t.kind[i] # t.kind[j] THEN 0 ELSE 1 + score(t.parent[i], t.parent[j])
  BY ScoreUnfolds
<1>5. \A i \in N : i \in 0 .. n /\ (i # 0 => i \in Nodes(t))
  BY <1>1
<1> HIDE DEF n, N, score
<1>6. 0 \in S
  <2>1. \A i \in N : i <= 0 => i = 0
    BY <1>1, <1>5
  <2> QED BY <1>1, <1>3, <2>1
<1>7. ASSUME NEW d \in 1 .. n, d - 1 \in S PROVE d \in S
  <2>1. \A i, j \in N : i <= d - 1 => score(i, j) <= score(i, i) /\ score(i, j) <= score(j, j)
    BY <1>7
  <2>2. ASSUME NEW i \in N, NEW j \in N, i <= d
        PROVE  score(i, j) <= score(i, i) /\ score(i, j) <= score(j, j)
    <3>0. score(i, j) \in Nat /\ score(i, i) \in Nat /\ score(j, j) \in Nat
      BY <1>3
    <3>1. CASE i = 0 \/ j = 0
      <4>1. score(i, j) = 0
        BY <1>3, <3>1
      <4> QED BY <3>0, <4>1
    <3>2. CASE i # 0 /\ j # 0
      <4> DEFINE a == t.parent[i]
                 b == t.parent[j]
      <4>1. a \in N /\ b \in N /\ a < i /\ i \in Nat /\ a \in Nat
        BY <1>1, <1>2, <1>5, <3>2
      <4>2. a <= d - 1
        BY <1>1, <2>2, <4>1
      <4>3. /\ score(i, j) = IF t.kind[i] # t.kind[j] THEN 0 ELSE 1 + score(a, b)
            /\ score(i, i) = 1 + score(a, a) /\ score(j, j) = 1 + score(b, b)
        BY <1>4, <3>2
      <4>4. score(a, b) <= score(a, a) /\ score(a, b) <= score(b, b)
            /\ score(a, b) \in Nat /\ score(a, a) \in Nat /\ score(b, b) \in Nat
        BY <1>3, <2>1, <4>1, <4>2
      <4> HIDE DEF a, b
      <4> QED BY <4>3, <4>4
    <3> QED BY <3>1, <3>2
  <2>3. d \in 0 .. n
    BY <1>1
  <2> QED BY <2>2, <2>3
<1>8. n \in S
  <2> HIDE DEF S
  <2>1. 0 .. n \subseteq S
    BY <1>1, <1>6, <1>7, InductionUpTo
  <2> QED BY <1>1, <2>1
<1>9. \A i, j \in N : score(i, j) <= score(i, i) /\ score(i, j) <= score(j, j)
  <2>1. \A i \in N : i <= n
    BY <1>1, <1>5
  <2> QED BY <1>8, <2>1
<1> QED BY <1>3, <1>9 DEF N, score

\* A node other than the root is under what its parent is under.
AboveAt(t, f, j) == {j} \cup (IF t.parent[j] = 0 THEN {} ELSE f[t.parent[j]])
AboveTable(t) == CHOOSE f : f = [j \in Nodes(t) |-> AboveAt(t, f, j)]

\* The nodes below one are those whose cell holds it.
LEMMA UnderIsTheTable ==
  ASSUME NEW t, NEW i PROVE Under(t, i) = {j \in Nodes(t) : i \in AboveTable(t)[j]}
BY DEF Under, AboveTable, AboveAt

\* The table exists: the ancestors of a node are those of its parent and itself.
LEMMA AboveTableIsTheTable ==
  ASSUME NEW t, Tree(t)
  PROVE  AboveTable(t) = [j \in Nodes(t) |-> AboveAt(t, AboveTable(t), j)]
<1> DEFINE n == Len(t.kind)
           D == Nodes(t)
           V == SUBSET D
           rank == [j \in D |-> j]
           b == [q \in [D -> V] \X D |-> AboveAt(t, q[1], q[2])]
<1>1. n \in Nat /\ D = 1 .. n
  BY TreeShape
<1>2. rank \in [D -> 0 .. n]
  BY <1>1
<1>3. \A j \in D : t.parent[j] # 0 => t.parent[j] \in D /\ t.parent[j] < j
  BY TreeShape
<1>4. \A g \in [D -> V], j \in D : b[<<g, j>>] = AboveAt(t, g, j)
  OBVIOUS
<1>a. \A j \in D : rank[j] = j
  OBVIOUS
<1> HIDE DEF D, n, rank
<1>5. ASSUME NEW g \in [D -> V], NEW j \in D PROVE AboveAt(t, g, j) \in V
  <2>1. t.parent[j] # 0 => g[t.parent[j]] \in V
    BY <1>3
  <2> QED BY <2>1 DEF AboveAt
<1>6. b \in [[D -> V] \X D -> V]
  <2> HIDE DEF V
  <2> QED BY <1>5
<1>7. ASSUME NEW g \in [D -> V], NEW h \in [D -> V], NEW j \in D,
             \A c \in D : rank[c] < rank[j] => g[c] = h[c]
      PROVE  b[<<g, j>>] = b[<<h, j>>]
  <2>1. t.parent[j] # 0 => g[t.parent[j]] = h[t.parent[j]]
    BY <1>3, <1>7, <1>a
  <2>2. AboveAt(t, g, j) = AboveAt(t, h, j)
    BY <2>1 DEF AboveAt
  <2> HIDE DEF b
  <2> QED BY <1>4, <2>2
<1>8. PICK f \in [D -> V] : f = [j \in D |-> b[<<f, j>>]]
  <2>1. V # {}
    OBVIOUS
  <2> HIDE DEF b, V
  <2>2. \A g, h \in [D -> V] : \A p \in D :
          (\A c \in D : rank[c] < rank[p] => g[c] = h[c]) => b[<<g, p>>] = b[<<h, p>>]
    BY <1>7
  <2>3. LooksDown(b, D, V, rank, n)
    BY <1>1, <1>2, <1>6, <2>1, <2>2 DEF LooksDown
  <2> QED BY <2>3, TableByRank
<1>9. f = [j \in D |-> AboveAt(t, f, j)]
  <2> HIDE DEF b, V
  <2>1. \A j \in D : b[<<f, j>>] = AboveAt(t, f, j)
    BY <1>4
  <2> QED BY <1>8, <2>1
<1> QED BY <1>9 DEF AboveTable, D

\* Every node is under the root.
LEMMA AllUnderTheRoot ==
  ASSUME NEW t, Tree(t)
  PROVE  Under(t, 1) = Nodes(t) /\ LeafIds(t, 1) = {j \in Nodes(t) : Kids(t, j) = {}}
<1> DEFINE n == Len(t.kind)
           f == AboveTable(t)
           S == {d \in 0 .. n : \A j \in Nodes(t) : j <= d => 1 \in f[j]}
<1>1. n \in Nat /\ Nodes(t) = 1 .. n
  BY TreeShape
<1>2. \A j \in Nodes(t) : /\ t.parent[j] # 0 => t.parent[j] \in Nodes(t) /\ t.parent[j] < j
                          /\ t.parent[j] = 0 <=> j = 1
  BY TreeShape
<1>3. f = [j \in Nodes(t) |-> AboveAt(t, f, j)]
  BY AboveTableIsTheTable
<1> HIDE DEF f, n
<1>4. \A j \in Nodes(t) : f[j] = {j} \cup (IF t.parent[j] = 0 THEN {} ELSE f[t.parent[j]])
  BY <1>3 DEF AboveAt
<1>5. 0 \in S
  BY <1>1
<1>6. ASSUME NEW d \in 1 .. n, d - 1 \in S PROVE d \in S
  <2>1. \A j \in Nodes(t) : j <= d - 1 => 1 \in f[j]
    BY <1>6
  <2>2. ASSUME NEW j \in Nodes(t), j <= d PROVE 1 \in f[j]
    <3>1. CASE j = 1
      BY <1>4, <3>1
    <3>2. CASE j # 1
      <4>1. t.parent[j] \in Nodes(t) /\ t.parent[j] < j /\ t.parent[j] # 0
        BY <1>2, <3>2
      <4>2. t.parent[j] <= d - 1
        BY <1>1, <2>2, <4>1
      <4>3. 1 \in f[t.parent[j]]
        BY <2>1, <4>1, <4>2
      <4> QED BY <1>4, <4>1, <4>3
    <3> QED BY <3>1, <3>2
  <2>3. d \in 0 .. n
    BY <1>1
  <2> QED BY <2>2, <2>3
<1>7. n \in S
  <2> HIDE DEF S
  <2>1. 0 .. n \subseteq S
    BY <1>1, <1>5, <1>6, InductionUpTo
  <2> QED BY <1>1, <2>1
<1>8. \A j \in Nodes(t) : 1 \in f[j]
  BY <1>1, <1>7
<1>9. Under(t, 1) = Nodes(t)
  BY <1>8, UnderIsTheTable DEF f
<1> QED BY <1>9 DEF LeafIds, Kids

\* A walk comes to a child after its parent.
LEMMA KidsComeAfter ==
  ASSUME NEW t, Tree(t), NEW a, NEW x \in Kids(t, a)
  PROVE  x \in Nodes(t) /\ a < x
<1>1. x \in Nodes(t) /\ t.parent[x] = a
  BY DEF Kids
<1> QED BY <1>1, TreeShape

\* The leaves below a node are those below its children, one after the other.
LeavesAt(t, f, a) ==
  LET cs == Children(t, a) IN
  IF cs = <<>> THEN <<a>> ELSE FlattenSeq([k \in DOMAIN cs |-> f[cs[k]]])

LeavesTable(t) == CHOOSE f : f = [a \in Nodes(t) |-> LeavesAt(t, f, a)]

\* The leaves below a node are the cell of the table that belongs to it.
LEMMA LeavesIsTheTable ==
  ASSUME NEW t, NEW i PROVE ExpressionLeaves(t, i) = LeavesTable(t)[i]
BY DEF ExpressionLeaves, LeavesTable, LeavesAt

\* The leaves of the children, taken from a table.
LEMMA LeavesTyped ==
  ASSUME NEW t, Tree(t), NEW a \in Nodes(t), NEW f,
         \A x \in Kids(t, a) : f[x] \in Seq(Nodes(t))
  PROVE  /\ LeavesAt(t, f, a) \in Seq(Nodes(t))
         /\ \A x \in Kids(t, a) : Range(f[x]) \subseteq Range(LeavesAt(t, f, a))
         /\ Kids(t, a) = {} => LeavesAt(t, f, a) = <<a>>
<1> DEFINE cs == Children(t, a)
           X == Nodes(t)
           m == Cardinality(Kids(t, a))
           q == [k \in DOMAIN cs |-> f[cs[k]]]
<1>1. /\ cs \in Seq(Kids(t, a)) /\ Len(cs) = m /\ DOMAIN cs = 1 .. m
      /\ \A k \in DOMAIN cs : cs[k] \in Kids(t, a)
      /\ \A x \in Kids(t, a) : \E k \in DOMAIN cs : cs[k] = x
      /\ IsFiniteSet(Kids(t, a))
  BY KidsInOrder
<1>2. m \in Nat
  BY <1>1, FS_CardinalityType
<1> HIDE DEF cs, m
<1>3. q \in Seq(Seq(X)) /\ Len(q) = m /\ Len(q) \in Nat /\ \A k \in 1 .. m : q[k] = f[cs[k]]
  <2> DEFINE Y == Seq(X)
  <2>1. \A k \in 1 .. m : f[cs[k]] \in Y
    BY <1>1
  <2> HIDE DEF Y
  <2>2. q \in Seq(Y) /\ Len(q) = m
    BY <1>1, <1>2, <2>1
  <2>3. \A k \in 1 .. m : q[k] = f[cs[k]]
    BY <1>1
  <2> QED BY <1>2, <2>2, <2>3 DEF Y
<1>4. LeavesAt(t, f, a) = IF cs = <<>> THEN <<a>> ELSE FlattenSeq(q)
  BY DEF LeavesAt, cs
<1> HIDE DEF q, X
<1>5. FlattenSeq(q) \in Seq(X) /\ \A k \in 1 .. Len(q) : Range(q[k]) \subseteq Range(FlattenSeq(q))
  BY <1>3, FlattenKeeps
<1>6. CASE cs = <<>>
  <2>1. m = 0
    BY <1>1, <1>6
  <2>2. Kids(t, a) = {}
    BY <1>1, <1>2, <2>1
  <2>3. <<a>> \in Seq(X)
    BY DEF X
  <2> QED BY <1>4, <1>6, <2>2, <2>3 DEF X
<1>7. CASE cs # <<>>
  <2>1. m # 0
    BY <1>1, <1>2, <1>7
  <2>2. Kids(t, a) # {}
    BY <1>1, <1>2, <2>1
  <2>3. ASSUME NEW x \in Kids(t, a) PROVE Range(f[x]) \subseteq Range(FlattenSeq(q))
    <3>1. PICK k \in DOMAIN cs : cs[k] = x
      BY <1>1
    <3>2. k \in 1 .. m /\ q[k] = f[x]
      BY <1>1, <1>3, <3>1
    <3> QED BY <1>3, <1>5, <3>2
  <2>4. LeavesAt(t, f, a) = FlattenSeq(q)
    BY <1>4, <1>7
  <2> QED BY <1>5, <2>2, <2>3, <2>4 DEF X
<1> QED BY <1>6, <1>7

\* The table exists: the leaves of a node look no further than its children.
LEMMA LeavesTableIsTheTable ==
  ASSUME NEW t, Tree(t)
  PROVE  LeavesTable(t) = [a \in Nodes(t) |-> LeavesAt(t, LeavesTable(t), a)]
<1> DEFINE n == Len(t.kind)
           D == Nodes(t)
           V == Seq(D)
           rank == [a \in D |-> n - a]
           b == [q \in [D -> V] \X D |-> LeavesAt(t, q[1], q[2])]
<1>1. n \in Nat /\ D = 1 .. n
  BY TreeShape
<1>2. rank \in [D -> 0 .. n]
  BY <1>1
<1>3. \A a \in D : \A x \in Kids(t, a) : x \in D /\ rank[x] < rank[a]
  <2>1. \A a \in D : \A x \in Kids(t, a) : x \in D /\ a < x
    BY KidsComeAfter
  <2> QED BY <1>1, <2>1
<1>4. \A g \in [D -> V], a \in D : b[<<g, a>>] = LeavesAt(t, g, a)
  OBVIOUS
<1> HIDE DEF n, rank
<1>5. ASSUME NEW g \in [D -> V], NEW a \in D PROVE LeavesAt(t, g, a) \in V
  <2>1. \A x \in Kids(t, a) : g[x] \in Seq(Nodes(t))
    BY <1>3
  <2> QED BY <2>1, LeavesTyped
<1>6. b \in [[D -> V] \X D -> V]
  <2> HIDE DEF V, D
  <2> QED BY <1>5
<1>7. ASSUME NEW g \in [D -> V], NEW h \in [D -> V], NEW a \in D,
             \A c \in D : rank[c] < rank[a] => g[c] = h[c]
      PROVE  b[<<g, a>>] = b[<<h, a>>]
  <2> DEFINE cs == Children(t, a)
  <2>1. \A k \in DOMAIN cs : g[cs[k]] = h[cs[k]]
    <3>1. \A k \in DOMAIN cs : cs[k] \in Kids(t, a)
      BY KidsInOrder
    <3>2. \A x \in Kids(t, a) : g[x] = h[x]
      BY <1>3, <1>7
    <3> QED BY <3>1, <3>2
  <2> HIDE DEF cs
  <2>2. [k \in DOMAIN cs |-> g[cs[k]]] = [k \in DOMAIN cs |-> h[cs[k]]]
    BY <2>1
  <2>3. LeavesAt(t, g, a) = LeavesAt(t, h, a)
    BY <2>2 DEF LeavesAt, cs
  <2> HIDE DEF b, V, D
  <2> QED BY <1>4, <2>3
<1>8. PICK f \in [D -> V] : f = [a \in D |-> b[<<f, a>>]]
  <2>1. V # {}
    <3>1. <<>> \in V
      OBVIOUS
    <3> QED BY <3>1
  <2> HIDE DEF b, V, D
  <2>2. \A g, h \in [D -> V] : \A p \in D :
          (\A c \in D : rank[c] < rank[p] => g[c] = h[c]) => b[<<g, p>>] = b[<<h, p>>]
    BY <1>7
  <2>3. LooksDown(b, D, V, rank, n)
    BY <1>1, <1>2, <1>6, <2>1, <2>2 DEF LooksDown
  <2> QED BY <2>3, TableByRank
<1>9. f = [a \in D |-> LeavesAt(t, f, a)]
  <2> HIDE DEF b, V, D
  <2>1. \A a \in D : b[<<f, a>>] = LeavesAt(t, f, a)
    BY <1>4
  <2> QED BY <1>8, <2>1
<1> QED BY <1>9 DEF LeavesTable, D

\* No leaf is left out of the walk over the leaves.
LEMMA EveryLeafIsListed ==
  ASSUME NEW t, Tree(t), NEW j \in LeafIds(t, 1)
  PROVE  ExpressionLeaves(t, 1) \in Seq(Nodes(t)) /\ j \in Range(ExpressionLeaves(t, 1))
<1> DEFINE n == Len(t.kind)
           D == Nodes(t)
           f == LeavesTable(t)
           S == {d \in 0 .. n : \A a \in D : a > n - d => f[a] \in Seq(D)}
           R == {d \in 0 .. n : \E a \in D : a <= n - d /\ j \in Range(f[a])}
<1>1. /\ n \in Nat \ {0} /\ D = 1 .. n
      /\ \A a \in D : /\ t.parent[a] # 0 => t.parent[a] \in D /\ t.parent[a] < a
                      /\ t.parent[a] = 0 <=> a = 1
  BY TreeShape
<1>2. \A a \in D : \A x \in Kids(t, a) : x \in D /\ a < x
  BY KidsComeAfter
<1>3. f = [a \in D |-> LeavesAt(t, f, a)]
  BY LeavesTableIsTheTable
<1> HIDE DEF f, n
<1>4. \A a \in D : f[a] = LeavesAt(t, f, a)
  BY <1>3
<1>5. 0 \in S
  BY <1>1
<1>6. ASSUME NEW d \in 1 .. n, d - 1 \in S PROVE d \in S
  <2>1. \A a \in D : a > n - (d - 1) => f[a] \in Seq(D)
    BY <1>6
  <2>2. ASSUME NEW a \in D, a > n - d PROVE f[a] \in Seq(D)
    <3>1. \A x \in D : x > a => x > n - (d - 1)
      BY <1>1, <2>2
    <3>2. \A x \in Kids(t, a) : f[x] \in Seq(D)
      BY <1>2, <2>1, <3>1
    <3> QED BY <1>4, <3>2, LeavesTyped
  <2>3. d \in 0 .. n
    BY <1>1
  <2> QED BY <2>2, <2>3
<1>7. n \in S
  <2> HIDE DEF S
  <2>1. n \in Nat /\ \A d \in 1 .. n : d - 1 \in S => d \in S
    BY <1>1, <1>6
  <2>2. 0 .. n \subseteq S
    BY <1>5, <2>1, InductionUpTo
  <2> QED BY <2>1, <2>2
<1>8. \A a \in D : f[a] \in Seq(D)
  <2>1. \A a \in D : a > n - n
    BY <1>1
  <2> QED BY <1>7, <2>1
<1>9. \A a \in D : \A x \in Kids(t, a) : Range(f[x]) \subseteq Range(f[a])
  <2> TAKE a \in D
  <2>1. \A x \in Kids(t, a) : f[x] \in Seq(Nodes(t))
    BY <1>2, <1>8
  <2> QED BY <1>4, <2>1, LeavesTyped
<1>10. j \in D /\ Kids(t, j) = {}
  BY AllUnderTheRoot
<1>11. j \in Range(f[j])
  <2>1. f[j] = <<j>>
    BY <1>4, <1>10, LeavesTyped
  <2>2. 1 \in DOMAIN f[j] /\ f[j][1] = j
    BY <2>1
  <2> QED BY <2>2 DEF Range
<1>12. 0 \in R
  <2>1. j <= n - 0 /\ 0 \in 0 .. n
    BY <1>1, <1>10
  <2> QED BY <1>10, <1>11, <2>1
<1>13. \A d \in 1 .. n - 1 : d - 1 \in R => d \in R
  <2> SUFFICES ASSUME NEW d \in 1 .. n - 1, d - 1 \in R PROVE d \in R
    OBVIOUS
  <2>1. PICK a \in D : a <= n - (d - 1) /\ j \in Range(f[a])
    OBVIOUS
  <2>2. d \in 0 .. n /\ a \in Nat /\ d \in Nat /\ d <= n - 1
    BY <1>1
  <2>3. CASE a <= n - d
    BY <2>1, <2>2, <2>3
  <2>4. CASE ~(a <= n - d)
    <3> DEFINE p == t.parent[a]
    <3>1. a # 1
      BY <1>1, <2>2, <2>4
    <3>2. p \in D /\ p < a
      BY <1>1, <3>1
    <3>3. p <= n - d
      BY <1>1, <2>1, <2>2, <3>2
    <3>4. a \in Kids(t, p)
      BY DEF Kids
    <3>5. j \in Range(f[p])
      BY <1>9, <2>1, <3>2, <3>4
    <3> HIDE DEF p
    <3> QED BY <2>2, <3>2, <3>3, <3>5
  <2> QED BY <2>3, <2>4
<1>14. n - 1 \in R
  <2> HIDE DEF R
  <2> DEFINE z == n - 1
  <2>1. z \in Nat /\ \A d \in 1 .. z : d - 1 \in R => d \in R
    BY <1>1, <1>13
  <2> HIDE DEF z
  <2>2. 0 .. z \subseteq R
    BY <1>12, <2>1, InductionUpTo
  <2>3. z \in R
    BY <2>1, <2>2
  <2> QED BY <2>3 DEF z
<1>15. PICK a \in D : a <= n - (n - 1) /\ j \in Range(f[a])
  BY <1>14
<1>16. a = 1
  BY <1>1, <1>15
<1>17. ExpressionLeaves(t, 1) = f[1]
  BY LeavesIsTheTable DEF f
<1> QED BY <1>1, <1>8, <1>15, <1>16, <1>17

-----------------------------------------------------------------------------
(* The similarity of two nodes is a fraction that is at most 1, and 1 for a  *)
(* node and itself.                                                          *)

\* What holds of a place when it holds of all places of lower rank holds of all places.
Inherits(A, D, rank) == \A p \in D : (\A c \in D : rank[c] < rank[p] => c \in A) => p \in A

\* What every place inherits from those of lower rank, all places have.
LEMMA InductionByRank ==
  ASSUME NEW D, NEW n \in Nat, NEW rank \in [D -> 0 .. n], NEW A, Inherits(A, D, rank)
  PROVE  \A p \in D : p \in A
<1> DEFINE S == {d \in 0 .. n + 1 : \A p \in D : rank[p] < d => p \in A}
           z == n + 1
<1>1. \A p \in D : rank[p] \in Nat /\ rank[p] < z
  OBVIOUS
<1>2. 0 \in S
  BY <1>1
<1>3. ASSUME NEW d \in 1 .. z, d - 1 \in S PROVE d \in S
  <2>1. \A p \in D : rank[p] < d - 1 => p \in A
    BY <1>3
  <2>2. ASSUME NEW p \in D, rank[p] < d PROVE p \in A
    <3>1. \A c \in D : rank[c] < rank[p] => rank[c] < d - 1
      BY <1>1, <2>2
    <3>2. \A c \in D : rank[c] < rank[p] => c \in A
      BY <2>1, <3>1
    <3> QED BY <3>2 DEF Inherits
  <2>3. d \in 0 .. n + 1
    OBVIOUS
  <2> QED BY <2>2, <2>3
<1>4. z \in S
  <2>1. z \in Nat /\ \A d \in 1 .. z : d - 1 \in S => d \in S
    BY <1>3
  <2> HIDE DEF S, z
  <2>2. 0 .. z \subseteq S
    BY <1>2, <2>1, InductionUpTo
  <2> QED BY <2>1, <2>2
<1> QED BY <1>1, <1>4

\* Sums over a finite set, one element after the other.
Counts(h) == IsFiniteSet(DOMAIN h) /\ h \in [DOMAIN h -> Nat]
AnyOf(s) == CHOOSE x \in s : TRUE
SumAt(h, f, s) == IF s = {} THEN 0 ELSE h[AnyOf(s)] + f[s \ {AnyOf(s)}]
SumTable(h) == CHOOSE f : f = [s \in SUBSET DOMAIN h |-> SumAt(h, f, s)]

\* A total is the cell of the table that belongs to the whole domain.
LEMMA TotalIsTheLastCell ==
  ASSUME NEW h PROVE Total(h) = SumTable(h)[DOMAIN h]
BY DEF Total, MapThenSumSet, MapThenFoldSet, SumTable, SumAt, AnyOf

\* What is left of a set without its first element.
LEMMA OneLess ==
  ASSUME NEW D, IsFiniteSet(D)
  PROVE  /\ Cardinality(D) \in Nat
         /\ \A s \in SUBSET D : Cardinality(s) \in 0 .. Cardinality(D)
         /\ \A s \in SUBSET D : \A x \in s : /\ s \ {x} \in SUBSET D
                                             /\ Cardinality(s \ {x}) < Cardinality(s)
<1>1. Cardinality(D) \in Nat
  BY FS_CardinalityType
<1>2. \A s \in SUBSET D : IsFiniteSet(s) /\ Cardinality(s) <= Cardinality(D)
  BY FS_Subset
<1>3. \A s \in SUBSET D : Cardinality(s) \in Nat
  BY <1>2, FS_CardinalityType
<1>4. ASSUME NEW s \in SUBSET D, NEW x \in s PROVE Cardinality(s \ {x}) < Cardinality(s)
  <2>1. Cardinality(s \ {x}) = Cardinality(s) - 1
    BY <1>2, FS_RemoveElement
  <2> QED BY <1>3, <2>1
<1> QED BY <1>1, <1>2, <1>3, <1>4

\* The table exists, and its cells are numbers.
LEMMA SumTableIsTheTable ==
  ASSUME NEW h, Counts(h)
  PROVE  /\ SumTable(h) \in [SUBSET DOMAIN h -> Nat]
         /\ SumTable(h) = [s \in SUBSET DOMAIN h |-> SumAt(h, SumTable(h), s)]
<1> DEFINE E == DOMAIN h
           D == SUBSET E
           n == Cardinality(E)
           rank == [s \in D |-> Cardinality(s)]
           b == [q \in [D -> Nat] \X D |-> SumAt(h, q[1], q[2])]
<1>0. IsFiniteSet(E) /\ \A x \in E : h[x] \in Nat
  BY DEF Counts
<1> HIDE DEF E
<1>1. n \in Nat /\ rank \in [D -> 0 .. n] /\ \A s \in D : rank[s] = Cardinality(s)
  BY <1>0, OneLess
<1>2. ASSUME NEW s \in D, s # {}
      PROVE  AnyOf(s) \in E /\ s \ {AnyOf(s)} \in D /\ rank[s \ {AnyOf(s)}] < rank[s]
  <2>1. AnyOf(s) \in s
    BY <1>2 DEF AnyOf
  <2>2. s \ {AnyOf(s)} \in D /\ Cardinality(s \ {AnyOf(s)}) < Cardinality(s)
    BY <1>0, <2>1, OneLess
  <2> QED BY <1>1, <2>1, <2>2
<1> HIDE DEF n, rank, D
<1>3. ASSUME NEW g, NEW s \in D, s # {} => g[s \ {AnyOf(s)}] \in Nat
      PROVE  SumAt(h, g, s) \in Nat
  BY <1>0, <1>2, <1>3 DEF SumAt
<1>4. \A g \in [D -> Nat], s \in D : b[<<g, s>>] = SumAt(h, g, s)
  OBVIOUS
<1>5. b \in [[D -> Nat] \X D -> Nat]
  <2>1. \A g \in [D -> Nat], s \in D : SumAt(h, g, s) \in Nat
    BY <1>2, <1>3
  <2> QED BY <2>1
<1>6. ASSUME NEW g \in [D -> Nat], NEW k \in [D -> Nat], NEW s \in D,
             \A c \in D : rank[c] < rank[s] => g[c] = k[c]
      PROVE  b[<<g, s>>] = b[<<k, s>>]
  <2>1. s # {} => g[s \ {AnyOf(s)}] = k[s \ {AnyOf(s)}]
    BY <1>2, <1>6
  <2>2. SumAt(h, g, s) = SumAt(h, k, s)
    BY <2>1 DEF SumAt
  <2> HIDE DEF b
  <2> QED BY <1>4, <2>2
<1>7. PICK f \in [D -> Nat] : f = [s \in D |-> b[<<f, s>>]]
  <2> DEFINE V == Nat
  <2>1. V # {}
    OBVIOUS
  <2> HIDE DEF b
  <2>2. \A g, k \in [D -> V] : \A p \in D :
          (\A c \in D : rank[c] < rank[p] => g[c] = k[c]) => b[<<g, p>>] = b[<<k, p>>]
    BY <1>6
  <2>3. b \in [[D -> V] \X D -> V]
    BY <1>5
  <2> HIDE DEF V
  <2>4. LooksDown(b, D, V, rank, n)
    BY <1>1, <2>1, <2>2, <2>3 DEF LooksDown
  <2>5. \E f \in [D -> V] : f = [p \in D |-> b[<<f, p>>]]
    BY <2>4, TableByRank
  <2> QED BY <2>5 DEF V
<1>8. f = [s \in D |-> SumAt(h, f, s)]
  <2> HIDE DEF b
  <2>1. \A s \in D : b[<<f, s>>] = SumAt(h, f, s)
    BY <1>4
  <2> QED BY <1>7, <2>1
<1> DEFINE r == SumTable(h)
<1>9. r = [s \in D |-> SumAt(h, r, s)]
  BY <1>8 DEF SumTable, D, E
<1> HIDE DEF r
<1>10. \A s \in D : r[s] \in Nat
  <2> DEFINE A == {s \in D : r[s] \in Nat}
  <2>1. ASSUME NEW s \in D, \A c \in D : rank[c] < rank[s] => c \in A PROVE s \in A
    <3>1. s # {} => r[s \ {AnyOf(s)}] \in Nat
      BY <1>2, <2>1
    <3>2. r[s] = SumAt(h, r, s)
      BY <1>9
    <3> QED BY <1>3, <3>1, <3>2
  <2> HIDE DEF A
  <2>2. Inherits(A, D, rank)
    BY <2>1 DEF Inherits
  <2>3. \A s \in D : s \in A
    BY <1>1, <2>2, InductionByRank
  <2> QED BY <2>3 DEF A
<1>11. r \in [D -> Nat]
  BY <1>9, <1>10
<1> QED BY <1>9, <1>11 DEF r, D, E

\* It does not matter which element comes first.
LEMMA SumWithout ==
  ASSUME NEW h, Counts(h)
  PROVE  \A s \in SUBSET DOMAIN h : \A x \in s :
           SumTable(h)[s] = h[x] + SumTable(h)[s \ {x}]
<1> DEFINE E == DOMAIN h
           D == SUBSET E
           n == Cardinality(E)
           rank == [s \in D |-> Cardinality(s)]
           r == SumTable(h)
           A == {s \in D : \A x \in s : r[s] = h[x] + r[s \ {x}]}
<1>0. IsFiniteSet(E) /\ \A x \in E : h[x] \in Nat
  BY DEF Counts
<1>1. r \in [D -> Nat] /\ r = [s \in D |-> SumAt(h, r, s)]
  BY SumTableIsTheTable
<1> HIDE DEF E, r
<1>2. n \in Nat /\ rank \in [D -> 0 .. n] /\ \A s \in D : rank[s] = Cardinality(s)
  BY <1>0, OneLess
<1>3. \A s \in D : \A x \in s : x \in E /\ s \ {x} \in D /\ rank[s \ {x}] < rank[s]
  <2>1. \A s \in D : \A x \in s : s \ {x} \in D /\ Cardinality(s \ {x}) < Cardinality(s)
    BY <1>0, OneLess
  <2> QED BY <1>2, <2>1
<1>4. \A s \in D : r[s] \in Nat /\ r[s] = SumAt(h, r, s)
  BY <1>1
<1> HIDE DEF n, rank, D
<1>5. ASSUME NEW s \in D, \A c \in D : rank[c] < rank[s] => c \in A PROVE s \in A
  <2> SUFFICES ASSUME NEW x \in s PROVE r[s] = h[x] + r[s \ {x}]
    BY <1>5
  <2> DEFINE y == AnyOf(s)
  <2>1. y \in s
    BY DEF AnyOf
  <2>2. r[s] = h[y] + r[s \ {y}]
    BY <1>4 DEF SumAt
  <2> HIDE DEF y
  <2>3. CASE x = y
    BY <2>2, <2>3
  <2>4. CASE x # y
    <3> DEFINE sx == s \ {x}
               sy == s \ {y}
               sxy == s \ {x, y}
    <3>1. sx \in D /\ sy \in D /\ rank[sx] < rank[s] /\ rank[sy] < rank[s]
      BY <1>3, <2>1
    <3>2. y \in sx /\ x \in sy /\ sx \ {y} = sxy /\ sy \ {x} = sxy
      BY <2>1, <2>4
    <3>3. sxy \in D
      BY <1>3, <3>1, <3>2
    <3> HIDE DEF sx, sy, sxy
    <3>4. r[sx] = h[y] + r[sxy]
      BY <1>5, <3>1, <3>2
    <3>5. r[sy] = h[x] + r[sxy]
      BY <1>5, <3>1, <3>2
    <3>6. r[sx] \in Nat /\ r[sy] \in Nat /\ r[sxy] \in Nat /\ h[x] \in Nat /\ h[y] \in Nat
      BY <1>0, <1>3, <1>4, <2>1, <3>1, <3>3
    <3>7. r[s] = h[y] + r[sy]
      BY <2>2 DEF sy
    <3>8. r[s] = h[x] + r[sx]
      BY <3>4, <3>5, <3>6, <3>7
    <3> QED BY <3>8 DEF sx
  <2> QED BY <2>3, <2>4
<1> HIDE DEF A
<1>6. Inherits(A, D, rank)
  BY <1>5 DEF Inherits
<1>7. \A s \in D : s \in A
  BY <1>2, <1>6, InductionByRank
<1> QED BY <1>7 DEF A, D, E, r

\* A sum of fewer and smaller numbers is no greater.
LEMMA TotalsCompare ==
  ASSUME NEW g, NEW h, Counts(g), Counts(h), DOMAIN g \subseteq DOMAIN h,
         \A x \in DOMAIN g : g[x] <= h[x]
  PROVE  Total(g) \in Nat /\ Total(h) \in Nat /\ Total(g) <= Total(h)
<1> DEFINE E == DOMAIN h
           D == SUBSET E
           n == Cardinality(E)
           rank == [s \in D |-> Cardinality(s)]
           k == SumTable(g)
           r == SumTable(h)
           A == {s \in D : k[s \cap DOMAIN g] <= r[s]}
<1>0. IsFiniteSet(E) /\ \A x \in E : h[x] \in Nat
  BY DEF Counts
<1>a. \A x \in DOMAIN g : g[x] \in Nat
  BY DEF Counts
<1>1. r \in [D -> Nat] /\ r = [s \in D |-> SumAt(h, r, s)]
  BY SumTableIsTheTable
<1>2. k \in [SUBSET DOMAIN g -> Nat] /\ k = [s \in SUBSET DOMAIN g |-> SumAt(g, k, s)]
  BY SumTableIsTheTable
<1>3. \A s \in D : \A x \in s : r[s] = h[x] + r[s \ {x}]
  BY SumWithout
<1>4. \A s \in SUBSET DOMAIN g : \A x \in s : k[s] = g[x] + k[s \ {x}]
  BY SumWithout
<1>b. DOMAIN g \in D
  OBVIOUS
<1> HIDE DEF E, r, k
<1>5. n \in Nat /\ rank \in [D -> 0 .. n] /\ \A s \in D : rank[s] = Cardinality(s)
  BY <1>0, OneLess
<1>6. \A s \in D : \A x \in s : x \in E /\ s \ {x} \in D /\ rank[s \ {x}] < rank[s]
  <2>1. \A s \in D : \A x \in s : s \ {x} \in D /\ Cardinality(s \ {x}) < Cardinality(s)
    BY <1>0, OneLess
  <2> QED BY <1>5, <2>1
<1>7. \A s \in D : r[s] \in Nat /\ k[s \cap DOMAIN g] \in Nat
  BY <1>1, <1>2
<1>8. k[{}] = 0
  <2>1. {} \in SUBSET DOMAIN g
    OBVIOUS
  <2> QED BY <1>2, <2>1 DEF SumAt
<1> HIDE DEF n, rank
<1>9. ASSUME NEW s \in D, \A c \in D : rank[c] < rank[s] => c \in A PROVE s \in A
  <2>1. CASE s = {}
    <3>1. s \cap DOMAIN g = {}
      BY <2>1
    <3>2. k[s \cap DOMAIN g] = 0
      BY <1>8, <3>1
    <3> QED BY <1>7, <3>2
  <2>2. CASE s # {}
    <3>1. PICK x \in s : TRUE
      BY <2>2
    <3> DEFINE u == s \ {x}
               v == s \cap DOMAIN g
               w == u \cap DOMAIN g
    <3>2. u \in D /\ rank[u] < rank[s] /\ x \in E
      BY <1>6
    <3>3. k[w] <= r[u] /\ r[u] \in Nat /\ k[w] \in Nat /\ r[s] \in Nat /\ k[v] \in Nat
      BY <1>7, <1>9, <3>2
    <3>4. r[s] = h[x] + r[u]
      BY <1>3
    <3>5. CASE x \in DOMAIN g
      <4>1. v \in SUBSET DOMAIN g /\ x \in v /\ w = v \ {x}
        BY <3>5
      <4>2. k[v] = g[x] + k[w]
        <5> HIDE DEF v, w
        <5> QED BY <1>4, <4>1
      <4>3. g[x] \in Nat /\ h[x] \in Nat /\ g[x] <= h[x]
        BY <1>0, <1>a, <3>2, <3>5
      <4> HIDE DEF u, v, w
      <4>4. k[v] <= r[s]
        BY <3>3, <3>4, <4>2, <4>3
      <4> QED BY <4>4 DEF v
    <3>6. CASE x \notin DOMAIN g
      <4>1. w = v
        BY <3>6
      <4>2. h[x] \in Nat
        BY <1>0, <3>2
      <4> HIDE DEF u, v, w
      <4>3. k[v] <= r[s]
        BY <3>3, <3>4, <4>1, <4>2
      <4> QED BY <4>3 DEF v
    <3> QED BY <3>5, <3>6
  <2> QED BY <2>1, <2>2
<1>10. E \in A
  <2> HIDE DEF A, D
  <2>1. Inherits(A, D, rank)
    BY <1>9 DEF Inherits
  <2>2. \A s \in D : s \in A
    BY <1>5, <2>1, InductionByRank
  <2> QED BY <2>2 DEF D
<1>11. E \cap DOMAIN g = DOMAIN g
  BY <1>b
<1>12. k[DOMAIN g] <= r[E] /\ k[DOMAIN g] \in Nat /\ r[E] \in Nat
  BY <1>7, <1>10, <1>11
<1> QED BY <1>12, TotalIsTheLastCell DEF k, r, E

\* A histogram is a function from finitely many bigrams to numbers.
LEMMA HistoCounts ==
  ASSUME NEW t, Tree(t), NEW i PROVE Counts(BigramHisto(t, i))
<1> DEFINE below == Under(t, i)
           of == [k \in below |-> Grams(Face(t, k))]
           G == {Grams(Face(t, k)) : k \in below}
           grams == UNION G
           h == [g \in grams |-> Cardinality({k \in below : g \in Grams(Face(t, k))})]
<1>1. BigramHisto(t, i) = h
  BY DEF BigramHisto
<1>2. IsFiniteSet(below) /\ below \subseteq Nodes(t)
  <2>1. below \in SUBSET Nodes(t)
    BY DEF Under
  <2>2. IsFiniteSet(Nodes(t))
    BY TreeShape
  <2> HIDE DEF below
  <2> QED BY <2>1, <2>2, FS_Subset
<1>3. \A k \in below : IsFiniteSet(Grams(Face(t, k)))
  BY <1>2 DEF Tree
<1> HIDE DEF below
<1>4. IsFiniteSet(G)
  <2>1. of \in Surjection(below, G)
    BY DEF Surjection
  <2> QED BY <1>2, <2>1, FS_Surjection
<1>5. IsFiniteSet(grams)
  <2>1. \A X \in G : IsFiniteSet(X)
    BY <1>3
  <2> HIDE DEF G
  <2> QED BY <1>4, <2>1, FS_UNION
<1> HIDE DEF grams
<1>6. \A g : Cardinality({k \in below : g \in Grams(Face(t, k))}) \in Nat
  <2> TAKE g
  <2> DEFINE X == {k \in below : g \in Grams(Face(t, k))}
  <2>1. X \in SUBSET below
    OBVIOUS
  <2> HIDE DEF X
  <2>2. IsFiniteSet(X)
    BY <1>2, <2>1, FS_Subset
  <2>3. Cardinality(X) \in Nat
    BY <2>2, FS_CardinalityType
  <2> QED BY <2>3 DEF X
<1>7. DOMAIN h = grams /\ h \in [grams -> Nat]
  BY <1>6
<1> HIDE DEF h
<1> QED BY <1>1, <1>5, <1>7 DEF Counts

\* The overlap of two histograms is at most the total of either.
LEMMA LeastCounts ==
  ASSUME NEW g, NEW h, Counts(g), Counts(h)
  PROVE  /\ Counts(Least(g, h)) /\ Total(g) \in Nat /\ Total(h) \in Nat
         /\ Total(Least(g, h)) \in Nat
         /\ Total(Least(g, h)) <= Total(g) /\ Total(Least(g, h)) <= Total(h)
<1> DEFINE l == Least(g, h)
           D == DOMAIN g \cap DOMAIN h
<1>1. IsFiniteSet(DOMAIN g) /\ IsFiniteSet(DOMAIN h)
      /\ (\A x \in DOMAIN g : g[x] \in Nat) /\ \A x \in DOMAIN h : h[x] \in Nat
  BY DEF Counts
<1>2. l = [x \in D |-> IF g[x] < h[x] THEN g[x] ELSE h[x]]
  BY DEF Least
<1>3. DOMAIN l = D /\ \A x \in D : l[x] = IF g[x] < h[x] THEN g[x] ELSE h[x]
  BY <1>2
<1>4. IsFiniteSet(D)
  BY <1>1, FS_Intersection
<1>5. D \subseteq DOMAIN g /\ D \subseteq DOMAIN h
  OBVIOUS
<1> HIDE DEF D, l
<1>6. \A x \in D : l[x] \in Nat /\ l[x] <= g[x] /\ l[x] <= h[x]
  BY <1>1, <1>3, <1>5
<1>7. Counts(l)
  <2>1. l = [x \in D |-> l[x]]
    BY <1>2, <1>3
  <2> QED BY <1>3, <1>4, <1>6, <2>1 DEF Counts
<1>8. Total(l) \in Nat /\ Total(g) \in Nat /\ Total(l) <= Total(g)
  BY <1>3, <1>5, <1>6, <1>7, TotalsCompare
<1>9. Total(h) \in Nat /\ Total(l) <= Total(h)
  BY <1>3, <1>5, <1>6, <1>7, TotalsCompare
<1> QED BY <1>7, <1>8, <1>9 DEF l

\* Similarity is at most 1.
LEMMA DiceIsAShare ==
  ASSUME NEW s, NEW t, Tree(s), Tree(t), NEW i, NEW j
  PROVE  /\ DiceCoefficient(s, i, t, j)[1] \in Nat /\ DiceCoefficient(s, i, t, j)[2] \in Nat
         /\ DiceCoefficient(s, i, t, j)[1] <= DiceCoefficient(s, i, t, j)[2]
         /\ DiceCoefficient(s, i, t, j)[2] > 0
<1> DEFINE g == BigramHisto(s, i)
           h == BigramHisto(t, j)
           a == Total(g)
           b == Total(h)
           c == Total(Least(g, h))
           d == DiceCoefficient(s, i, t, j)
<1>1. Counts(g) /\ Counts(h)
  BY HistoCounts
<1>2. a \in Nat /\ b \in Nat /\ c \in Nat /\ c <= a /\ c <= b
  BY <1>1, LeastCounts
<1>3. d = IF a + b = 0 THEN IF Same(s, i, t, j) THEN <<1, 1>> ELSE <<0, 1>> ELSE <<2 * c, a + b>>
  BY DEF DiceCoefficient
<1> HIDE DEF a, b, c, d
<1>4. d[1] = (IF a + b = 0 THEN IF Same(s, i, t, j) THEN 1 ELSE 0 ELSE 2 * c)
      /\ d[2] = IF a + b = 0 THEN 1 ELSE a + b
  BY <1>3
<1> QED BY <1>2, <1>4 DEF d

\* A node is as similar to itself as can be.
LEMMA DiceOfOneself ==
  ASSUME NEW t, Tree(t), NEW i \in Nodes(t)
  PROVE  /\ DiceCoefficient(t, i, t, i)[1] = DiceCoefficient(t, i, t, i)[2]
         /\ DiceCoefficient(t, i, t, i)[1] \in Nat \ {0}
<1> DEFINE h == BigramHisto(t, i)
           a == Total(h)
           c == Total(Least(h, h))
           d == DiceCoefficient(t, i, t, i)
<1>1. Counts(h)
  BY HistoCounts
<1>2. Least(h, h) = h
  <2>1. h = [x \in DOMAIN h |-> h[x]]
    BY <1>1 DEF Counts
  <2> HIDE DEF h
  <2>2. Least(h, h) = [x \in DOMAIN h |-> h[x]]
    BY DEF Least
  <2> QED BY <2>1, <2>2
<1>3. a \in Nat /\ c = a
  <2>1. a \in Nat
    BY <1>1, LeastCounts
  <2> QED BY <1>2, <2>1
<1>4. Same(t, i, t, i)
  BY SameAsItself
<1>5. d = IF a + a = 0 THEN <<1, 1>> ELSE <<2 * c, a + a>>
  BY <1>4 DEF DiceCoefficient
<1> HIDE DEF a, c, d
<1>6. d[1] = (IF a + a = 0 THEN 1 ELSE 2 * c) /\ d[2] = IF a + a = 0 THEN 1 ELSE a + a
  BY <1>5
<1> QED BY <1>3, <1>6 DEF d

\* So two leaves that differ never come before both of the pairs that leave them in place.
LEMMA NotBeforeOneself ==
  ASSUME NEW t, Tree(t), ~t.attached, NEW i \in LeafIds(t, 1), NEW j \in LeafIds(t, 1),
         Before(t, t, <<i, j>>, <<i, i>>), Before(t, t, <<i, j>>, <<j, j>>)
  PROVE  i = j
<1> DEFINE d == DiceCoefficient(t, i, t, j)
           di == DiceCoefficient(t, i, t, i)
           dj == DiceCoefficient(t, j, t, j)
           p == ParentScore(t, i, t, j)
           pi == ParentScore(t, i, t, i)
           pj == ParentScore(t, j, t, j)
           ls == ExpressionLeaves(t, 1)
           pos(x) == Position(ls, x)
<1> SUFFICES ASSUME i # j PROVE FALSE
  OBVIOUS
<1>1. i \in Nodes(t) /\ j \in Nodes(t)
  BY LeavesAreNodes
<1>2. d[1] \in Nat /\ d[2] \in Nat /\ d[1] <= d[2]
  BY DiceIsAShare
<1>3. di[1] = di[2] /\ di[1] \in Nat /\ dj[1] = dj[2] /\ dj[1] \in Nat
  BY <1>1, DiceOfOneself
<1>4. p <= pi /\ p <= pj /\ p \in Nat /\ pi \in Nat /\ pj \in Nat
  BY <1>1, ScoresOneselfMost
<1>5. \A x \in LeafIds(t, 1) : pos(x) \in Nat
  <2> TAKE x \in LeafIds(t, 1)
  <2>1. ls \in Seq(Nodes(t)) /\ x \in Range(ls)
    BY EveryLeafIsListed
  <2> HIDE DEF ls
  <2>2. \E k \in DOMAIN ls : ls[k] = x
    BY <2>1 DEF Range
  <2>3. Position(ls, x) \in DOMAIN ls
    BY <2>2 DEF Position
  <2>4. DOMAIN ls \subseteq Nat
    BY <2>1
  <2> QED BY <2>3, <2>4
<1>6. /\ Above(d, di) \/ p > pi
         \/ (p = pi /\ (pos(i) < pos(i) \/ pos(j) < pos(i)))
      /\ Above(d, dj) \/ p > pj
         \/ (p = pj /\ (pos(i) < pos(j) \/ (i = j /\ pos(j) < pos(j))))
  BY DEF Before
<1>7. ~Above(d, di)
  <2> DEFINE x == d[1]
             y == d[2]
             z == di[1]
  <2>1. Above(d, di) <=> x * z > z * y
    BY <1>3 DEF Above
  <2>2. x \in Nat /\ y \in Nat /\ x <= y /\ z \in Nat
    BY <1>2, <1>3
  <2> HIDE DEF x, y, z
  <2>3. x * z <= z * y
    BY <2>2
  <2>4. x * z \in Nat /\ z * y \in Nat
    BY <2>2
  <2> QED BY <2>1, <2>3, <2>4
<1>8. ~Above(d, dj)
  <2> DEFINE x == d[1]
             y == d[2]
             z == dj[1]
  <2>1. Above(d, dj) <=> x * z > z * y
    BY <1>3 DEF Above
  <2>2. x \in Nat /\ y \in Nat /\ x <= y /\ z \in Nat
    BY <1>2, <1>3
  <2> HIDE DEF x, y, z
  <2>3. x * z <= z * y
    BY <2>2
  <2>4. x * z \in Nat /\ z * y \in Nat
    BY <2>2
  <2> QED BY <2>1, <2>3, <2>4
<1>9. pos(i) \in Nat /\ pos(j) \in Nat
  BY <1>5
<1> HIDE DEF d, di, dj, p, pi, pj, pos
<1> QED BY <1>4, <1>6, <1>7, <1>8, <1>9

\* The trees of a call are trees, with the parent outside the walk or without it.
LEMMA TreesOfTheCall ==
  ASSUME TypedCall
  PROVE  Tree(Source) /\ Tree(Target)
<1>1. ASSUME NEW t \in {call.source, call.target} PROVE Tree(Walked(call, t))
  <2> DEFINE w == Walked(call, t)
  <2>1. /\ t \in Trees /\ Walk(t)
        /\ \A i \in Nodes(t) : IsFiniteSet(Grams(Face(t, i)))
    BY CallsAssumption DEF TypedCall
  <2>2. /\ w \in Trees /\ w.parent = t.parent /\ w.kind = t.kind /\ w.name = t.name
        /\ w.value = t.value /\ w.slot = t.slot
    BY <2>1 DEF Walked, Trees
  <2> HIDE DEF w
  <2>3. Nodes(w) = Nodes(t)
    BY <2>2 DEF Nodes
  <2>4. Walk(w)
    BY <2>1, <2>2 DEF Walk
  <2>5. \A i : Face(w, i) = Face(t, i)
    <3>1. \A i : Children(w, i) = Children(t, i)
      BY <2>2, <2>3 DEF Children, Kids
    <3> QED BY <2>2, <3>1 DEF Face
  <2>6. \A i \in Nodes(w) : IsFiniteSet(Grams(Face(w, i)))
    BY <2>1, <2>3, <2>5
  <2>7. Tree(w)
    BY <2>2, <2>4, <2>6 DEF Tree
  <2> QED BY <2>7 DEF w
<1> QED BY <1>1 DEF Source, Target

-----------------------------------------------------------------------------
(* A tree and its copy: every node is paired with itself.                    *)

\* The trees are given alone, and one is a copy of the other.
Alone == call.given = <<>> /\ ~Source.attached /\ ~Target.attached
Twins == Alone /\ Source = Target

Mirrored ==
  /\ stage = "leaves" => nodePairs = <<>>
  /\ Twins =>
       /\ \A p \in AllPairs : p[1] = p[2]
       /\ stage # "leaves" => \A j \in LeafIds(Source, 1) : <<j, j>> \in Range(leafPairs)

\* While a tree and its copy are matched, what is free in one is free in the other.
LEMMA TwinsAreOne ==
  ASSUME TypedCall, PairedOnce, Mirrored, Twins
  PROVE  /\ Source = Target /\ Tree(Source) /\ ~Source.attached
         /\ unmatchedSource = unmatchedTarget /\ unmatchedSource \subseteq Nodes(Source)
         /\ \A i \in Nodes(Source) : i \in unmatchedSource \/ <<i, i>> \in AllPairs
<1>1. Source = Target /\ Tree(Source) /\ ~Source.attached
  BY TreesOfTheCall DEF Twins, Alone
<1>2. \A p \in AllPairs : p[1] = p[2] /\ p \in Nodes(Source) \X Nodes(Target)
  BY PairsAreNodes DEF Mirrored
<1>3. First(AllPairs) = Second(AllPairs)
  BY <1>2 DEF First, Second
<1>4. unmatchedSource = Nodes(Source) \ First(AllPairs)
      /\ unmatchedTarget = Nodes(Target) \ Second(AllPairs)
  BY DEF PairedOnce
<1>5. ASSUME NEW i \in Nodes(Source), i \notin unmatchedSource PROVE <<i, i>> \in AllPairs
  <2>1. PICK p \in AllPairs : p[1] = i
    BY <1>4, <1>5 DEF First
  <2>2. p = <<i, i>>
    BY <1>2, <2>1
  <2> QED BY <2>1, <2>2
<1>6. unmatchedSource = unmatchedTarget
  BY <1>1, <1>3, <1>4
<1>7. unmatchedSource \subseteq Nodes(Source)
  BY <1>4
<1> QED BY <1>1, <1>5, <1>6, <1>7

\* A free leaf may be paired with itself.
LEMMA LeafSuitsItself ==
  ASSUME TypedCall, PairedOnce, Mirrored, Twins, NEW i \in LeafIds(Source, 1), i \in unmatchedSource
  PROVE  <<i, i>> \in Free(Source, Target)
<1>1. Source = Target /\ Tree(Source) /\ unmatchedSource = unmatchedTarget
  BY TwinsAreOne
<1>2. i \in Nodes(Source)
  BY LeavesAreNodes
<1> DEFINE d == DiceCoefficient(Source, i, Source, i)
<1>3. d[1] = d[2] /\ d[1] \in Nat
  BY <1>1, <1>2, DiceOfOneself
<1>4. AtLeast(d, F)
  <2> HIDE DEF d
  <2> QED BY <1>3 DEF AtLeast, F
<1>5. SameType(Source, i, Source, i)
  BY DEF SameType
<1>6. <<i, i>> \in Candidates(Source, Target)
  BY <1>1, <1>4, <1>5 DEF Candidates
<1> QED BY <1>1, <1>6 DEF Free

\* And any two nodes that are one fit.
LEMMA NodeFitsItself ==
  ASSUME TypedCall, PairedOnce, Mirrored, Twins, stage # "leaves", NEW i \in unmatchedSource
  PROVE  <<i, i>> \in Fitting
<1>1. Source = Target /\ Tree(Source) /\ unmatchedSource = unmatchedTarget
      /\ unmatchedSource \subseteq Nodes(Source)
  BY TwinsAreOne
<1> DEFINE l == LeafIds(Source, i)
           n == Cardinality(l)
           C == {p \in Range(leafPairs) : p[1] \in l /\ p[2] \in l}
           c == Cardinality(C)
<1>2. l \subseteq Nodes(Source) /\ l \subseteq LeafIds(Source, 1)
  <2>1. Under(Source, 1) = Nodes(Source)
    BY <1>1, AllUnderTheRoot
  <2> QED BY <2>1 DEF LeafIds, Under
<1>3. IsFiniteSet(l)
  <2>1. IsFiniteSet(Nodes(Source))
    BY NodesAreNumbers
  <2> HIDE DEF l
  <2> QED BY <1>2, <2>1, FS_Subset
<1>4. n \in Nat
  <2> HIDE DEF l
  <2> QED BY <1>3, FS_CardinalityType
<1>5. c = n
  <2> DEFINE f == [x \in l |-> <<x, x>>]
  <2>1. \A x \in l : <<x, x>> \in Range(leafPairs)
    BY <1>2 DEF Mirrored
  <2>2. \A p \in Range(leafPairs) : p[1] = p[2] /\ p = <<p[1], p[2]>>
    <3>1. \A p \in Range(leafPairs) : p \in AllPairs
      BY DEF AllPairs
    <3>2. \A p \in Range(leafPairs) : p[1] = p[2] /\ p \in Nodes(Source) \X Nodes(Target)
      BY <3>1, PairsAreNodes DEF Mirrored
    <3> QED BY <3>2
  <2> HIDE DEF l
  <2>3. \A x \in l : f[x] = <<x, x>> /\ <<x, x>> \in C
    BY <2>1
  <2>4. \A p \in C : p[1] \in l /\ f[p[1]] = p
    BY <2>2
  <2>5. f \in [l -> C] /\ DOMAIN f = l
    BY <2>3
  <2>6. \A x, y \in l : f[x] = f[y] => x = y
    BY <2>3
  <2> HIDE DEF f, C
  <2>7. f \in Injection(l, C)
    BY <2>5, <2>6 DEF Injection, IsInjective
  <2>8. f \in Surjection(l, C)
    BY <2>4, <2>5 DEF Surjection
  <2>9. ExistsBijection(l, C)
    BY <2>7, <2>8 DEF ExistsBijection, Bijection
  <2> QED BY <1>3, <2>9, FS_Bijection
<1>6. Max({n, n}) = n
  <2> HIDE DEF n
  <2> QED BY <1>4 DEF Max
<1>7. AtLeast(<<c, n>>, 8)
  <2> HIDE DEF n, c
  <2> QED BY <1>4, <1>5 DEF AtLeast
<1>8. SameType(Source, i, Source, i)
  BY DEF SameType
<1>9. Fits(i, i)
  <2>1. SameType(Source, i, Source, i) /\ AtLeast(<<c, Max({n, n})>>, 8) => Fits(i, i)
    BY <1>1, Zenon DEF Fits
  <2> QED BY <1>6, <1>7, <1>8, <2>1
<1> QED BY <1>1, <1>9 DEF Fitting

\* At first there are no pairs but those of the caller.
LEMMA MirroredInit == Init => Mirrored
<1> SUFFICES ASSUME Init PROVE Mirrored
  OBVIOUS
<1>1. leafPairs = <<>> /\ nodePairs = <<>> /\ stage = "leaves"
  BY DEF Init
<1>2. Range(leafPairs) = {} /\ Range(nodePairs) = {}
  BY <1>1 DEF Range
<1>3. Twins => Range(call.given) = {}
  BY DEF Twins, Alone, Range
<1>4. Twins => AllPairs = {}
  BY <1>2, <1>3 DEF AllPairs
<1> QED BY <1>1, <1>4 DEF Mirrored

\* Every step pairs a node with itself in the copy.
LEMMA MirroredNext == TypedCall /\ PairedOnce /\ Mirrored /\ [Next]_vars => Mirrored'
<1> SUFFICES ASSUME TypedCall, PairedOnce, Mirrored, [Next]_vars PROVE Mirrored'
  OBVIOUS
<1>0. call' = call /\ Twins' = Twins /\ Source' = Source /\ Target' = Target
  <2>1. call' = call
    BY DEF Next, MatchLeaf, LeavesDone, MatchNode, Generate, vars
  <2>2. Source' = Source /\ Target' = Target
    BY <2>1 DEF Source, Target, Walked
  <2> QED BY <2>1, <2>2 DEF Twins, Alone
<1>1. CASE MatchLeaf
  <2>1. PICK p \in Free(Source, Target) :
          /\ \A q \in Free(Source, Target) \ {p} : Before(Source, Target, p, q)
          /\ leafPairs' = Append(leafPairs, p)
    BY <1>1 DEF MatchLeaf
  <2>2. stage = "leaves" /\ stage' = stage /\ nodePairs' = nodePairs
    BY <1>1 DEF MatchLeaf
  <2>3. p \in LeafIds(Source, 1) \X LeafIds(Target, 1) /\ p[1] \in unmatchedSource
        /\ p[2] \in unmatchedTarget
    BY FreeLeaves
  <2>4. Range(leafPairs') = Range(leafPairs) \cup {p}
    BY <2>1, <2>3, AppendRange DEF TypedCall, TypeOK
  <2>5. AllPairs' = AllPairs \cup {p}
    BY <1>0, <2>2, <2>4 DEF AllPairs
  <2>6. ASSUME Twins PROVE p[1] = p[2]
    <3> DEFINE i == p[1]
               j == p[2]
    <3>1. Source = Target /\ Tree(Source) /\ ~Source.attached /\ unmatchedSource = unmatchedTarget
      BY <2>6, TwinsAreOne
    <3>2. i \in LeafIds(Source, 1) /\ j \in LeafIds(Source, 1) /\ p = <<i, j>>
          /\ i \in unmatchedSource /\ j \in unmatchedSource
      BY <2>3, <3>1
    <3> HIDE DEF i, j
    <3>3. <<i, i>> \in Free(Source, Target) /\ <<j, j>> \in Free(Source, Target)
      BY <2>6, <3>2, LeafSuitsItself
    <3>4. ASSUME i # j PROVE FALSE
      <4>1. <<i, i>> # p /\ <<j, j>> # p
        BY <3>2, <3>4
      <4>2. Before(Source, Source, <<i, j>>, <<i, i>>) /\ Before(Source, Source, <<i, j>>, <<j, j>>)
        BY <2>1, <3>1, <3>2, <3>3, <4>1
      <4>3. i = j
        BY <3>1, <3>2, <4>2, NotBeforeOneself
      <4> QED BY <3>4, <4>3
    <3> QED BY <3>4 DEF i, j
  <2> QED BY <1>0, <2>2, <2>5, <2>6 DEF Mirrored
<1>2. CASE LeavesDone
  <2>1. stage = "leaves" /\ Free(Source, Target) = {} /\ stage' = "nodes"
        /\ leafPairs' = leafPairs /\ nodePairs' = nodePairs
    BY <1>2 DEF LeavesDone
  <2>2. AllPairs' = AllPairs
    BY <1>0, <2>1 DEF AllPairs
  <2>3. ASSUME Twins, NEW j \in LeafIds(Source, 1) PROVE <<j, j>> \in Range(leafPairs)
    <3>1. j \notin unmatchedSource
      BY <2>1, <2>3, LeafSuitsItself
    <3>2. j \in Nodes(Source)
      BY LeavesAreNodes
    <3>3. <<j, j>> \in AllPairs
      BY <2>3, <3>1, <3>2, TwinsAreOne
    <3>4. Range(nodePairs) = {}
      BY <2>1 DEF Mirrored, Range
    <3>5. Range(call.given) = {}
      BY <2>3 DEF Twins, Alone, Range
    <3> QED BY <3>3, <3>4, <3>5 DEF AllPairs
  <2>4. LeafIds(Source, 1)' = LeafIds(Source, 1)
    BY <1>0
  <2> QED BY <1>0, <2>1, <2>2, <2>3, <2>4 DEF Mirrored
<1>3. CASE MatchNode
  <2>1. PICK p \in Fitting :
          /\ \A q \in Fitting : p[1] < q[1] \/ (p[1] = q[1] /\ p[2] <= q[2])
          /\ nodePairs' = Append(nodePairs, p)
    BY <1>3 DEF MatchNode
  <2>2. stage = "nodes" /\ stage' = stage /\ leafPairs' = leafPairs
    BY <1>3 DEF MatchNode
  <2>3. p \in unmatchedSource \X unmatchedTarget /\ p \in Nodes(Source) \X Nodes(Target)
    BY DEF Fitting, TypedCall, TypeOK
  <2>4. Range(nodePairs') = Range(nodePairs) \cup {p}
    BY <2>1, <2>3, AppendRange DEF TypedCall, TypeOK
  <2>5. AllPairs' = AllPairs \cup {p}
    BY <1>0, <2>2, <2>4 DEF AllPairs
  <2>6. ASSUME Twins PROVE p[1] = p[2]
    <3> DEFINE i == p[1]
               j == p[2]
    <3>1. unmatchedSource = unmatchedTarget
      BY <2>6, TwinsAreOne
    <3>2. i \in unmatchedSource /\ j \in unmatchedSource
      BY <2>3, <3>1
    <3>3. i \in Nat /\ j \in Nat
      BY <2>3, NodesAreNumbers
    <3> HIDE DEF i, j
    <3>4. <<i, i>> \in Fitting /\ <<j, j>> \in Fitting
      BY <2>2, <2>6, <3>2, NodeFitsItself
    <3>5. i < i \/ (i = i /\ j <= i)
      <4>1. \A q \in Fitting : i < q[1] \/ (i = q[1] /\ j <= q[2])
        BY <2>1 DEF i, j
      <4> QED BY <3>4, <4>1
    <3>6. i < j \/ (i = j /\ j <= j)
      <4>1. \A q \in Fitting : i < q[1] \/ (i = q[1] /\ j <= q[2])
        BY <2>1 DEF i, j
      <4> QED BY <3>4, <4>1
    <3>7. i = j
      BY <3>3, <3>5, <3>6
    <3> QED BY <3>7 DEF i, j
  <2>7. LeafIds(Source, 1)' = LeafIds(Source, 1)
    BY <1>0
  <2> QED BY <1>0, <2>2, <2>5, <2>6, <2>7 DEF Mirrored
<1>4. CASE Generate
  <2>1. stage = "nodes" /\ stage' = "done" /\ leafPairs' = leafPairs /\ nodePairs' = nodePairs
    BY <1>4 DEF Generate
  <2>2. AllPairs' = AllPairs
    BY <1>0, <2>1 DEF AllPairs
  <2>3. LeafIds(Source, 1)' = LeafIds(Source, 1)
    BY <1>0
  <2> QED BY <1>0, <2>1, <2>2, <2>3 DEF Mirrored
<1>5. CASE UNCHANGED vars
  <2>1. stage' = stage /\ leafPairs' = leafPairs /\ nodePairs' = nodePairs
    BY <1>5 DEF vars
  <2>2. AllPairs' = AllPairs
    BY <1>0, <2>1 DEF AllPairs
  <2>3. LeafIds(Source, 1)' = LeafIds(Source, 1)
    BY <1>0
  <2> QED BY <1>0, <2>1, <2>2, <2>3 DEF Mirrored
<1> QED BY <1>1, <1>2, <1>3, <1>4, <1>5 DEF Next

\* The edit that keeps a node.
KeepSteps == {e \in EditSteps : e.edit = "Keep"}

\* The script of a tree and its copy says nothing but that it keeps.
LEMMA TwinsAreKept ==
  ASSUME TypedCall, PairedOnce, Mirrored, Twins, Generate
  PROVE  \A e \in Range(script') : e.edit = "Keep"
<1> DEFINE removed == Ascending(unmatchedSource)
           inserted == Ascending(unmatchedTarget)
           R == [k \in DOMAIN removed |-> Removed(removed[k])]
           I == [k \in DOMAIN inserted |-> Inserted(inserted[k])]
           q == [k \in DOMAIN Matches |-> Edits(Matches[k][1], Matches[k][2])]
           m == Matches
           n == Len(m)
           K == KeepSteps
<1>1. /\ Source = Target /\ Tree(Source) /\ unmatchedSource = unmatchedTarget
      /\ \A i \in Nodes(Source) : i \in unmatchedSource \/ <<i, i>> \in AllPairs
  BY TwinsAreOne
<1>2. unmatchedSource = {}
  <2>1. Fitting = {} /\ stage = "nodes"
    BY DEF Generate
  <2> QED BY <2>1, NodeFitsItself
<1>3. R = <<>> /\ I = <<>>
  <2>1. Ascending({}) \in Seq({}) /\ Len(Ascending({})) = 0
    <3>1. IsFiniteSet({}) /\ Cardinality({}) = 0
      BY FS_EmptySet
    <3> QED BY <3>1, AscendingEnumerates
  <2>2. DOMAIN removed = {} /\ DOMAIN inserted = {}
    BY <1>1, <1>2, <2>1
  <2> QED BY <2>2
<1>4. m \in Seq(Nodes(Source) \X Nodes(Target)) /\ Range(m) = AllPairs
  BY MatchesOnce, PairsAreNodes
<1>5. n \in Nat /\ DOMAIN m = 1 .. n
  BY <1>4
<1>6. \A k \in 1 .. n : m[k] \in AllPairs
  BY <1>4, <1>5 DEF Range
<1>7. ASSUME NEW p \in AllPairs PROVE Edits(p[1], p[2]) \in Seq(K)
  <2> DEFINE i == p[1]
  <2>1. p[1] = p[2] /\ i \in Nodes(Source)
    BY PairsAreNodes DEF Mirrored
  <2> HIDE DEF i
  <2>2. Edits(p[1], p[2]) = Edits(i, i)
    BY <2>1 DEF i
  <2>3. Same(Source, i, Target, i)
    BY <1>1, <2>1, SameAsItself
  <2>4. ~ParentsApart(i, i)
    <3>1. CASE Source.parent[i] = 0
      BY <1>1, <3>1 DEF ParentsApart, Twins, Alone
    <3>2. CASE Source.parent[i] # 0
      <4> DEFINE a == Source.parent[i]
      <4>1. a \in Nodes(Source)
        BY <1>1, <2>1, <3>2, TreeShape
      <4>2. <<a, a>> \in AllPairs
        BY <1>1, <1>2, <4>1
      <4>3. <<Source.parent[i], Target.parent[i]>> \in Range(Matches)
        BY <1>1, <1>4, <4>2
      <4> QED BY <4>3 DEF ParentsApart
    <3> QED BY <3>1, <3>2
  <2>5. NonExpressionLeaves(Source, i) = NonExpressionLeaves(Target, i)
    BY <1>1
  <2>6. Verdict(i, i) = IF call.deltaOnly THEN <<>> ELSE <<Kept(i, i)>>
    BY <2>5 DEF Verdict
  <2>7. Kept(i, i) \in K
    <3>1. i \in Nat
      BY <2>1, NodesAreNumbers
    <3> QED BY <3>1 DEF Kept, KeepSteps, EditSteps
  <2> HIDE DEF K
  <2>8. Verdict(i, i) \in Seq(K)
    BY <2>6, <2>7
  <2>9. Edits(i, i) = <<>> \o Verdict(i, i)
    BY <2>3, <2>4 DEF Edits
  <2>10. <<>> \o Verdict(i, i) \in Seq(K)
    BY <2>8, ConcatRange
  <2> QED BY <2>2, <2>9, <2>10
<1>8. q \in Seq(Seq(K)) /\ Len(q) = n
  <2> DEFINE Y == Seq(K)
             at(k) == Edits(m[k][1], m[k][2])
  <2>1. \A k \in 1 .. n : at(k) \in Y
    BY <1>6, <1>7
  <2>2. q = [k \in 1 .. n |-> at(k)]
    BY <1>5
  <2> HIDE DEF Y, at, q, n
  <2>3. q \in Seq(Y) /\ Len(q) = n
    BY <1>5, <2>1, <2>2
  <2> QED BY <2>3 DEF Y
<1>9. FlattenSeq(q) \in Seq(K)
  <2> HIDE DEF q, n, K
  <2> QED BY <1>5, <1>8, FlattenKeeps
<1>10. script' = (R \o I) \o FlattenSeq(q)
  BY DEF Generate
<1> HIDE DEF R, I, q, K
<1>11. script' \in Seq(K)
  <2> DEFINE f == FlattenSeq(q)
  <2>1. <<>> \o <<>> = <<>>
    OBVIOUS
  <2> HIDE DEF f
  <2>2. f \in Seq(K) /\ script' = <<>> \o f
    BY <1>3, <1>9, <1>10, <2>1 DEF f
  <2>3. <<>> \in Seq(K)
    OBVIOUS
  <2> QED BY <2>2, <2>3, ConcatRange
<1>12. \A e \in Range(script') : e \in K
  <2>1. \A k \in DOMAIN script' : script'[k] \in K
    BY <1>11
  <2> QED BY <2>1 DEF Range
<1> QED BY <1>12 DEF K, KeepSteps

\* What is left over is in the script.
LEMMA LeftoversAreTold ==
  ASSUME TypedCall, PairedOnce, Generate
  PROVE  /\ \A i \in unmatchedSource : Removed(i) \in Range(script')
         /\ \A j \in unmatchedTarget : Inserted(j) \in Range(script')
<1> DEFINE removed == Ascending(unmatchedSource)
           inserted == Ascending(unmatchedTarget)
           R == [k \in DOMAIN removed |-> Removed(removed[k])]
           I == [k \in DOMAIN inserted |-> Inserted(inserted[k])]
           q == [k \in DOMAIN Matches |-> Edits(Matches[k][1], Matches[k][2])]
           m == Matches
           n == Len(m)
           f == FlattenSeq(q)
<1>1. script' = (R \o I) \o f
  BY DEF Generate
<1>2. m \in Seq(Nodes(Source) \X Nodes(Target)) /\ Range(m) = AllPairs
  BY MatchesOnce, PairsAreNodes
<1>3. n \in Nat /\ DOMAIN m = 1 .. n
  BY <1>2
<1>4. \A k \in 1 .. n : m[k] \in AllPairs
  BY <1>2, <1>3 DEF Range
<1>5. f \in Seq(EditSteps)
  <2> DEFINE Y == Seq(EditSteps)
             at(k) == Edits(m[k][1], m[k][2])
  <2>1. \A k \in 1 .. n : at(k) \in Y
    BY <1>4, EditsTyped
  <2>2. q = [k \in 1 .. n |-> at(k)]
    BY <1>3
  <2> HIDE DEF Y, at, q, n
  <2>3. q \in Seq(Y) /\ Len(q) \in Nat
    BY <1>3, <2>1, <2>2
  <2> HIDE DEF EditSteps
  <2> QED BY <2>3, FlattenKeeps DEF Y
<1>6. R \in Seq(EditSteps) /\ I \in Seq(EditSteps)
  BY LeftoversSay DEF Says
<1>7. ASSUME NEW S \in SUBSET (Nat \ {0}), IsFiniteSet(S), NEW x \in S
      PROVE  \E k \in DOMAIN Ascending(S) : Ascending(S)[k] = x
  BY <1>7, AscendingEnumerates
<1>8. unmatchedSource \in SUBSET (Nat \ {0}) /\ IsFiniteSet(unmatchedSource)
      /\ unmatchedTarget \in SUBSET (Nat \ {0}) /\ IsFiniteSet(unmatchedTarget)
  <2>1. unmatchedSource \subseteq Nodes(Source) /\ unmatchedTarget \subseteq Nodes(Target)
    BY DEF PairedOnce
  <2> QED BY <2>1, NodesAreNumbers, FS_Subset
<1>9. \A i \in unmatchedSource : Removed(i) \in Range(R)
  <2> TAKE i \in unmatchedSource
  <2>1. PICK k \in DOMAIN removed : removed[k] = i
    BY <1>7, <1>8
  <2>2. k \in DOMAIN R /\ R[k] = Removed(i)
    BY <2>1
  <2> QED BY <2>2 DEF Range
<1>10. \A j \in unmatchedTarget : Inserted(j) \in Range(I)
  <2> TAKE j \in unmatchedTarget
  <2>1. PICK k \in DOMAIN inserted : inserted[k] = j
    BY <1>7, <1>8
  <2>2. k \in DOMAIN I /\ I[k] = Inserted(j)
    BY <2>1
  <2> QED BY <2>2 DEF Range
<1> DEFINE u == R \o I
<1> HIDE DEF R, I, f, u, EditSteps
<1>11. u \in Seq(EditSteps) /\ Range(u) = Range(R) \cup Range(I)
  BY <1>6, ConcatRange DEF u
<1>12. Range(u \o f) = Range(u) \cup Range(f)
  BY <1>5, <1>11, ConcatRange
<1> QED BY <1>1, <1>9, <1>10, <1>11, <1>12 DEF u

-----------------------------------------------------------------------------
(* An empty delta: every node has a partner, and the partners of the         *)
(* children of a node are the children of its partner, in their order.       *)

Silent == \A e \in Range(script') : e.edit = "Keep"
Partner(i) == CHOOSE j : <<i, j>> \in AllPairs

\* An empty delta leaves no node without a partner, and the partners differ.
LEMMA SilentPairs ==
  ASSUME TypedCall, PairedOnce, Generate, Silent
  PROVE  /\ \A i \in Nodes(Source) : Partner(i) \in Nodes(Target) /\ <<i, Partner(i)>> \in AllPairs
         /\ \A j \in Nodes(Target) : \E i \in Nodes(Source) : Partner(i) = j
         /\ \A i, k \in Nodes(Source) : Partner(i) = Partner(k) => i = k
         /\ Nodes(Source) = Nodes(Target)
<1>1. unmatchedSource = {}
  <2>1. \A i : Removed(i).edit = "Remove"
    BY DEF Removed
  <2> QED BY <2>1, LeftoversAreTold DEF Silent
<1>2. unmatchedTarget = {}
  <2>1. \A j : Inserted(j).edit = "Insert"
    BY DEF Inserted
  <2> QED BY <2>1, LeftoversAreTold DEF Silent
<1>3. AllPairs \subseteq Nodes(Source) \X Nodes(Target)
  BY PairsAreNodes
<1>4. \A p, q \in AllPairs : p[1] = q[1] \/ p[2] = q[2] => p = q
  BY ChildrenAscend, PairsAreNodes DEF IsMatching
<1>5. \A i \in Nodes(Source) : \E p \in AllPairs : p[1] = i
  BY <1>1 DEF PairedOnce, First
<1>6. \A j \in Nodes(Target) : \E p \in AllPairs : p[2] = j
  BY <1>2 DEF PairedOnce, Second
<1>7. ASSUME NEW i \in Nodes(Source)
      PROVE  Partner(i) \in Nodes(Target) /\ <<i, Partner(i)>> \in AllPairs
  <2>1. PICK p \in AllPairs : p[1] = i
    BY <1>5
  <2>2. p = <<i, p[2]>>
    BY <1>3, <2>1
  <2>3. \E j : <<i, j>> \in AllPairs
    BY <2>1, <2>2
  <2>4. <<i, Partner(i)>> \in AllPairs
    BY <2>3, Zenon DEF Partner
  <2> QED BY <1>3, <2>4
<1>8. \A p \in AllPairs : p[1] \in Nodes(Source) /\ Partner(p[1]) = p[2]
  <2> TAKE p \in AllPairs
  <2>1. p[1] \in Nodes(Source)
    BY <1>3
  <2> DEFINE q == <<p[1], Partner(p[1])>>
  <2>2. q \in AllPairs /\ q[1] = p[1]
    BY <1>7, <2>1
  <2>3. q = p
    BY <1>4, <2>2
  <2> QED BY <2>1, <2>3
<1>9. \A j \in Nodes(Target) : \E i \in Nodes(Source) : Partner(i) = j
  BY <1>6, <1>8
<1>10. ASSUME NEW i \in Nodes(Source), NEW k \in Nodes(Source), Partner(i) = Partner(k)
       PROVE  i = k
  <2> DEFINE p == <<i, Partner(i)>>
             q == <<k, Partner(k)>>
  <2>1. p \in AllPairs /\ q \in AllPairs /\ p[2] = q[2] /\ p[1] = i /\ q[1] = k
    BY <1>7, <1>10
  <2> HIDE DEF p, q
  <2>2. p = q
    BY <1>4, <2>1
  <2> QED BY <2>1, <2>2
<1>11. Nodes(Source) = Nodes(Target)
  <2> DEFINE n == Len(Source.kind)
             z == Len(Target.kind)
             f == [i \in Nodes(Source) |-> Partner(i)]
  <2>1. n \in Nat /\ Nodes(Source) = 1 .. n /\ z \in Nat /\ Nodes(Target) = 1 .. z
    BY TreesOfTheCall, TreeShape
  <2> HIDE DEF n, z
  <2>2. f \in [Nodes(Source) -> Nodes(Target)] /\ DOMAIN f = Nodes(Source)
        /\ \A i \in Nodes(Source) : f[i] = Partner(i)
    BY <1>7
  <2> HIDE DEF f
  <2>3. f \in Injection(Nodes(Source), Nodes(Target))
    BY <1>10, <2>2 DEF Injection, IsInjective
  <2>4. f \in Surjection(Nodes(Source), Nodes(Target))
    BY <1>9, <2>2 DEF Surjection
  <2>5. ExistsBijection(Nodes(Source), Nodes(Target))
    BY <2>3, <2>4 DEF ExistsBijection, Bijection
  <2>6. Cardinality(Nodes(Source)) = Cardinality(Nodes(Target))
    BY <2>5, NodesAreNumbers, FS_Bijection
  <2>7. Cardinality(1 .. n) = n /\ Cardinality(1 .. z) = z
    <3>1. Cardinality(1 .. n) = IF 1 > n THEN 0 ELSE n - 1 + 1
      BY <2>1, FS_Interval
    <3>2. Cardinality(1 .. z) = IF 1 > z THEN 0 ELSE z - 1 + 1
      BY <2>1, FS_Interval
    <3> QED BY <2>1, <3>1, <3>2
  <2> QED BY <2>1, <2>6, <2>7
<1> QED BY <1>7, <1>9, <1>10, <1>11

\* What a silent script does not say of a pair.
LEMMA SilentPair ==
  ASSUME TypedCall, PairedOnce, Generate, Silent, NEW i \in Nodes(Source)
  PROVE  /\ Same(Source, i, Target, Partner(i)) => ~ParentsApart(i, Partner(i))
         /\ ~Same(Source, i, Target, Partner(i)) =>
              /\ Source.kind[i] \notin Updatable
              /\ NonExpressionLeaves(Source, i) = NonExpressionLeaves(Target, Partner(i))
              /\ Opened(i, Partner(i))
<1> DEFINE j == Partner(i)
           p == <<i, j>>
<1>1. p \in AllPairs /\ p[1] = i /\ p[2] = j
  BY SilentPairs
<1> HIDE DEF j, p
<1>2. Range(Edits(i, j)) \subseteq Range(script')
  BY <1>1, ScriptHasEdits
<1>3. \A e \in Range(Edits(i, j)) : e.edit = "Keep"
  BY <1>2 DEF Silent
<1>4. /\ Edits(i, j) \in Seq(EditSteps) /\ MoveEdits(i, j) \in Seq(EditSteps)
      /\ Verdict(i, j) \in Seq(EditSteps)
  BY <1>1, EditsTyped
<1>5. Moved(i, j).edit # "Keep" /\ Updated(i, j).edit # "Keep"
  BY DEF Moved, Updated
<1>6. \A e : Range(<<e>>) = {e}
  BY DEF Range
<1>7. i \in Nat /\ j \in Nat
  <2>1. p \in Nodes(Source) \X Nodes(Target)
    BY <1>1, PairsAreNodes
  <2> QED BY <1>1, <2>1, NodesAreNumbers
<1>8. Moved(i, j) \in EditSteps /\ Updated(i, j) \in EditSteps
  BY <1>7 DEF Moved, Updated, EditSteps
<1> HIDE DEF EditSteps
<1>9. Same(Source, i, Target, j) => ~ParentsApart(i, j)
  <2> SUFFICES ASSUME Same(Source, i, Target, j), ParentsApart(i, j) PROVE FALSE
    OBVIOUS
  <2>1. Edits(i, j) = <<Moved(i, j)>> \o Verdict(i, j)
    BY DEF Edits
  <2>2. <<Moved(i, j)>> \in Seq(EditSteps)
    BY <1>8
  <2>3. Range(Edits(i, j)) = Range(<<Moved(i, j)>>) \cup Range(Verdict(i, j))
    BY <1>4, <2>1, <2>2, ConcatRange
  <2> QED BY <1>3, <1>5, <1>6, <2>3
<1>10. ASSUME ~Same(Source, i, Target, j)
       PROVE  /\ Source.kind[i] \notin Updatable
              /\ NonExpressionLeaves(Source, i) = NonExpressionLeaves(Target, j)
              /\ Opened(i, j)
  <2>1. Source.kind[i] \notin Updatable
    <3>1. Source.kind[i] \in Updatable => Edits(i, j) = <<Updated(i, j)>>
      BY <1>10 DEF Edits
    <3> QED BY <1>3, <1>5, <1>6, <3>1
  <2>2. Edits(i, j) = MoveEdits(i, j) \o Verdict(i, j)
    BY <1>10, <2>1 DEF Edits
  <2>3. Range(Edits(i, j)) = Range(MoveEdits(i, j)) \cup Range(Verdict(i, j))
    BY <1>4, <2>2, ConcatRange
  <2>4. NonExpressionLeaves(Source, i) = NonExpressionLeaves(Target, j)
    <3>1. NonExpressionLeaves(Source, i) # NonExpressionLeaves(Target, j) =>
            Verdict(i, j) = <<Updated(i, j)>>
      BY DEF Verdict
    <3> QED BY <1>3, <1>5, <1>6, <2>3, <3>1
  <2>5. Opened(i, j)
    BY <1>1, <1>10, <2>1, PairsAreNodes DEF Opened, p
  <2> QED BY <2>1, <2>4, <2>5
<1> QED BY <1>9, <1>10 DEF j

\* The children of an opened pair are paired with each other, in their order.
LEMMA SilentChildren ==
  ASSUME TypedCall, PairedOnce, Generate, Silent, NEW i \in Nodes(Source),
         ~Same(Source, i, Target, Partner(i))
  PROVE  /\ \A a \in Kids(Source, i) : Partner(a) \in Kids(Target, Partner(i))
         /\ \A a, b \in Kids(Source, i) : a < b => Partner(a) < Partner(b)
<1> DEFINE j == Partner(i)
           p == <<i, j>>
<1>1. p \in Range(Matches) /\ p[1] = i /\ p[2] = j /\ Range(Matches) = AllPairs
  BY SilentPairs, PairsAreNodes
<1>2. Opened(i, j)
  BY SilentPair
<1> HIDE DEF j, p
<1>3. \A a \in Nodes(Source) : /\ a \notin unmatchedSource
                               /\ Partner(a) \in Nodes(Target) /\ <<a, Partner(a)>> \in AllPairs
  <2>1. \A a \in Nodes(Source) : Partner(a) \in Nodes(Target) /\ <<a, Partner(a)>> \in AllPairs
    BY SilentPairs
  <2>2. \A a \in Nodes(Source) : a \in First(AllPairs)
    <3> TAKE a \in Nodes(Source)
    <3> DEFINE q == <<a, Partner(a)>>
    <3>1. q \in AllPairs /\ q[1] = a
      BY <2>1
    <3> HIDE DEF q
    <3> QED BY <3>1 DEF First
  <2> QED BY <2>1, <2>2 DEF PairedOnce
<1>4. ASSUME NEW a \in Kids(Source, i)
      PROVE  <<a, Partner(a)>> \in Placed(p) /\ Partner(a) \in Kids(Target, j)
  <2>1. a \in Nodes(Source) /\ Source.parent[a] = p[1]
    BY <1>1 DEF Kids
  <2>2. \A e \in Range(script') : ~(e.edit = "Move" /\ e.source = a)
    BY DEF Silent
  <2>3. a \in Lcs(Children(Source, p[1]), Children(Target, p[2]), Range(Matches))
    BY <1>1, <1>2, <1>3, <2>1, <2>2, UnmovedStays
  <2>4. a \in First(Placed(p))
    BY <2>3, LcsOfChildren
  <2>5. PICK q \in Placed(p) : q[1] = a
    BY <2>4 DEF First
  <2>6. q \in Range(Matches) /\ Target.parent[q[2]] = p[2]
    BY <2>5 DEF Placed, Shared
  <2> DEFINE r == <<a, Partner(a)>>
  <2>7. r \in AllPairs /\ r[1] = a /\ r[2] = Partner(a)
    BY <1>3, <2>1
  <2>8. q = r
    <3> HIDE DEF r
    <3>1. \A x, y \in AllPairs : x[1] = y[1] \/ x[2] = y[2] => x = y
      BY ChildrenAscend, PairsAreNodes DEF IsMatching
    <3> QED BY <1>1, <2>5, <2>6, <2>7, <3>1
  <2>9. Partner(a) \in Kids(Target, j)
    <3>1. Target.parent[Partner(a)] = j
      BY <1>1, <2>6, <2>7, <2>8
    <3> QED BY <1>3, <2>1, <3>1 DEF Kids
  <2> QED BY <2>5, <2>8, <2>9
<1>5. ASSUME NEW a \in Kids(Source, i), NEW b \in Kids(Source, i), a < b
      PROVE  Partner(a) < Partner(b)
  <2> DEFINE q == <<a, Partner(a)>>
             r == <<b, Partner(b)>>
  <2>1. q \in Placed(p) /\ r \in Placed(p)
    BY <1>4
  <2>2. q[1] = a /\ q[2] = Partner(a) /\ r[1] = b /\ r[2] = Partner(b)
    OBVIOUS
  <2> HIDE DEF q, r
  <2>3. InOrder(Placed(p))
    BY LcsOfChildren
  <2> QED BY <1>5, <2>1, <2>2, <2>3 DEF InOrder
<1> QED BY <1>4, <1>5 DEF j

\* What a child has below the partner of its parent: the child in the same slot, if the two
\* parents are equal, and its own partner if they are not.
Counterpart(c) ==
  LET p == Source.parent[c] IN
  IF Same(Source, p, Target, Partner(p))
  THEN CHOOSE d \in Kids(Target, Partner(p)) : Target.slot[d] = Source.slot[c]
  ELSE Partner(c)

\* A counterpart is a child of the partner of the parent.
LEMMA CounterpartBelow ==
  ASSUME TypedCall, PairedOnce, Generate, Silent, NEW c \in Nodes(Source) \ {1}
  PROVE  /\ Source.parent[c] \in Nodes(Source) /\ c \in Kids(Source, Source.parent[c])
         /\ Counterpart(c) \in Nodes(Target) \ {1}
         /\ Counterpart(c) \in Kids(Target, Partner(Source.parent[c]))
         /\ Same(Source, Source.parent[c], Target, Partner(Source.parent[c]))
              => Target.slot[Counterpart(c)] = Source.slot[c]
<1> DEFINE p == Source.parent[c]
           j == Partner(p)
           fit(d) == Target.slot[d] = Source.slot[c]
<1>0. Tree(Source) /\ Tree(Target)
  BY TreesOfTheCall
<1>1. p \in Nodes(Source)
  BY <1>0, TreeShape
<1>2. c \in Kids(Source, p)
  BY DEF Kids
<1>3. j \in Nodes(Target)
  BY <1>1, SilentPairs
<1>4. Counterpart(c) = IF Same(Source, p, Target, j) THEN CHOOSE d \in Kids(Target, j) : fit(d)
                       ELSE Partner(c)
  BY DEF Counterpart
<1> HIDE DEF p, j
<1>6. /\ Counterpart(c) \in Kids(Target, j)
      /\ Same(Source, p, Target, j) => fit(Counterpart(c))
  <2>1. CASE Same(Source, p, Target, j)
    <3>1. \E d \in Kids(Target, j) : fit(d)
      BY <1>0, <1>1, <1>2, <1>3, <2>1, SameBelow
    <3> HIDE DEF fit
    <3> QED BY <1>4, <2>1, <3>1
  <2>2. CASE ~Same(Source, p, Target, j)
    <3>1. Partner(c) \in Kids(Target, j)
      BY <1>1, <1>2, <2>2, SilentChildren DEF j
    <3> QED BY <1>4, <2>2, <3>1
  <2> QED BY <2>1, <2>2
<1>7. Counterpart(c) \in Nodes(Target) \ {1}
  <2> DEFINE d == Counterpart(c)
  <2>1. d \in Nodes(Target) /\ Target.parent[d] = j
    BY <1>6 DEF Kids
  <2>2. j \in Nat /\ j # 0
    BY <1>3, NodesAreNumbers
  <2> HIDE DEF d
  <2>3. d # 1
    BY <1>0, <2>1, <2>2, TreeShape
  <2> QED BY <2>1, <2>3 DEF d
<1> QED BY <1>1, <1>2, <1>6, <1>7 DEF p, j

\* No two nodes have the same counterpart.
LEMMA CounterpartsDiffer ==
  ASSUME TypedCall, PairedOnce, Generate, Silent,
         NEW c \in Nodes(Source) \ {1}, NEW d \in Nodes(Source) \ {1},
         Counterpart(c) = Counterpart(d)
  PROVE  c = d
<1> DEFINE p == Source.parent[c]
           j == Partner(p)
<1>0. Tree(Source)
  BY TreesOfTheCall
<1>1. /\ p \in Nodes(Source) /\ c \in Kids(Source, p) /\ Counterpart(c) \in Kids(Target, j)
      /\ Source.parent[d] \in Nodes(Source)
      /\ Counterpart(d) \in Kids(Target, Partner(Source.parent[d]))
  BY CounterpartBelow
<1>2. Partner(Source.parent[d]) = j
  BY <1>1 DEF Kids
<1>3. Source.parent[d] = p
  BY <1>1, <1>2, SilentPairs
<1>5. CASE Same(Source, p, Target, j)
  <2>1. /\ Target.slot[Counterpart(c)] = Source.slot[c]
        /\ Target.slot[Counterpart(d)] = Source.slot[d]
    BY <1>3, <1>5, CounterpartBelow
  <2>2. Source.parent[c] = Source.parent[d] /\ Source.slot[c] = Source.slot[d]
    BY <1>3, <2>1
  <2> QED BY <1>0, <2>2, TreeShape
<1>6. CASE ~Same(Source, p, Target, j)
  <2>1. Counterpart(c) = Partner(c) /\ Counterpart(d) = Partner(d)
    BY <1>3, <1>6 DEF Counterpart
  <2> QED BY <2>1, SilentPairs
<1> QED BY <1>5, <1>6

\* There are as many nodes on both sides, so that none is left without a counterpart.
LEMMA EveryNodeHasACounterpart ==
  ASSUME TypedCall, PairedOnce, Generate, Silent, NEW d \in Nodes(Target) \ {1}
  PROVE  \E c \in Nodes(Source) \ {1} : Counterpart(c) = d
<1> DEFINE N == Nodes(Source) \ {1}
           f == [c \in N |-> Counterpart(c)]
<1>1. Nodes(Target) \ {1} = N
  BY SilentPairs
<1>2. IsFiniteSet(N)
  BY NodesAreNumbers, FS_RemoveElement
<1>3. \A c \in N : Counterpart(c) \in N
  BY <1>1, CounterpartBelow
<1>4. \A a, b \in N : Counterpart(a) = Counterpart(b) => a = b
  BY CounterpartsDiffer
<1>5. f \in [N -> N] /\ DOMAIN f = N /\ \A c \in N : f[c] = Counterpart(c)
  BY <1>3
<1>6. d \in N
  BY <1>1
<1> HIDE DEF f, N
<1>7. f \in Injection(N, N)
  BY <1>4, <1>5 DEF Injection, IsInjective
<1>8. f \in Surjection(N, N)
  BY <1>2, <1>7, FS_Injection
<1>9. \E c \in N : f[c] = d
  BY <1>6, <1>8 DEF Surjection
<1> QED BY <1>5, <1>9 DEF N

\* So the children of an opened pair are partners one by one.
LEMMA ChildrenArePartners ==
  ASSUME TypedCall, PairedOnce, Generate, Silent, NEW i \in Nodes(Source),
         ~Same(Source, i, Target, Partner(i))
  PROVE  /\ Len(Children(Source, i)) = Len(Children(Target, Partner(i)))
         /\ \A k \in DOMAIN Children(Source, i) :
              Children(Target, Partner(i))[k] = Partner(Children(Source, i)[k])
<1> DEFINE j == Partner(i)
           S == Kids(Source, i)
           D == Kids(Target, j)
           f == [a \in S |-> Partner(a)]
<1>0. Tree(Source) /\ Tree(Target)
  BY TreesOfTheCall
<1>1. /\ \A a \in S : Partner(a) \in D
      /\ \A a, b \in S : a < b => Partner(a) < Partner(b)
  BY SilentChildren
<1>2. S \subseteq Nodes(Source) /\ D \subseteq Nodes(Target)
      /\ (\A a \in S : a \in Nat) /\ \A b \in D : b \in Nat
  BY NodesAreNumbers DEF Kids
<1>3. \A a, b \in S : Partner(a) = Partner(b) => a = b
  BY <1>2, SilentPairs
<1>4. ASSUME NEW d \in D PROVE \E a \in S : Partner(a) = d
  <2>1. d \in Nodes(Target) /\ Target.parent[d] = j /\ j \in Nodes(Target)
    BY SilentPairs DEF Kids
  <2>2. j \in Nat /\ j # 0
    BY <2>1, NodesAreNumbers
  <2> HIDE DEF j
  <2>3. d \in Nodes(Target) \ {1}
    BY <1>0, <2>1, <2>2, TreeShape
  <2>4. PICK c \in Nodes(Source) \ {1} : Counterpart(c) = d
    BY <2>3, EveryNodeHasACounterpart
  <2>5. /\ Source.parent[c] \in Nodes(Source) /\ c \in Kids(Source, Source.parent[c])
        /\ d \in Kids(Target, Partner(Source.parent[c]))
    BY <2>4, CounterpartBelow
  <2>6. Partner(Source.parent[c]) = Partner(i)
    BY <2>1, <2>5 DEF Kids, j
  <2>7. Source.parent[c] = i
    BY <2>5, <2>6, SilentPairs
  <2>8. Counterpart(c) = Partner(c)
    BY <2>7 DEF Counterpart
  <2> QED BY <2>4, <2>5, <2>7, <2>8
<1>5. IsFiniteSet(S) /\ IsFiniteSet(D)
  BY <1>0, KidsInOrder
<1>6. f \in [S -> D] /\ DOMAIN f = S /\ \A a \in S : f[a] = Partner(a)
  BY <1>1
<1>7. ASSUME NEW U \in SUBSET S, NEW V \in SUBSET D,
             \A a \in S : a \in U <=> Partner(a) \in V
      PROVE  Cardinality(U) = Cardinality(V)
  <2> DEFINE g == [a \in U |-> Partner(a)]
  <2>1. g \in [U -> V] /\ DOMAIN g = U /\ \A a \in U : g[a] = Partner(a)
    BY <1>7
  <2>2. \A v \in V : \E a \in U : Partner(a) = v
    BY <1>4, <1>7
  <2>3. \A a, b \in U : Partner(a) = Partner(b) => a = b
    BY <1>3
  <2>4. IsFiniteSet(U)
    BY <1>5, FS_Subset
  <2> HIDE DEF g, S, D
  <2>5. g \in Injection(U, V)
    BY <2>1, <2>3 DEF Injection, IsInjective
  <2>6. g \in Surjection(U, V)
    BY <2>1, <2>2 DEF Surjection
  <2>7. ExistsBijection(U, V)
    BY <2>5, <2>6 DEF ExistsBijection, Bijection
  <2> QED BY <2>4, <2>7, FS_Bijection
<1>8. Cardinality(S) = Cardinality(D)
  BY <1>1, <1>7
<1>9. /\ Len(Children(Source, i)) = Cardinality(S) /\ Len(Children(Target, j)) = Cardinality(D)
      /\ \A k \in DOMAIN Children(Source, i) : Children(Source, i)[k] \in S
  BY <1>0, KidsInOrder
<1>10. ASSUME NEW k \in DOMAIN Children(Source, i)
       PROVE  Children(Target, j)[k] = Partner(Children(Source, i)[k])
  <2> DEFINE a == Children(Source, i)[k]
             b == Partner(a)
             U == {y \in S : y <= a}
             V == {y \in D : y <= b}
  <2>1. a \in S /\ b \in D /\ a \in Nat /\ b \in Nat
    BY <1>1, <1>2, <1>9
  <2>2. Cardinality(U) \in DOMAIN Children(Source, i) /\ Children(Source, i)[Cardinality(U)] = a
    BY <1>0, <2>1, PlaceOfChild
  <2>3. Children(Target, j)[Cardinality(V)] = b
    BY <1>0, <2>1, PlaceOfChild
  <2> HIDE DEF a, b
  <2>4. Cardinality(U) = Cardinality(V)
    <3>1. \A y \in S : y <= a <=> Partner(y) <= b
      <4> TAKE y \in S
      <4>1. y \in Nat /\ Partner(y) \in Nat
        BY <1>1, <1>2
      <4>2. (y < a => Partner(y) < b) /\ (a < y => b < Partner(y)) /\ (y = a => Partner(y) = b)
        BY <1>1, <2>1 DEF b
      <4> QED BY <2>1, <4>1, <4>2
    <3>2. \A y \in S : y \in U <=> Partner(y) \in V
      BY <1>1, <3>1
    <3>3. U \in SUBSET S /\ V \in SUBSET D
      OBVIOUS
    <3> HIDE DEF U, V, S, D
    <3> QED BY <1>7, <3>2, <3>3
  <2>5. Cardinality(U) = k
    <3> DEFINE cs == Children(Source, i)
               u == Cardinality(U)
    <3>1. /\ DOMAIN cs = 1 .. Cardinality(S)
          /\ \A x, y \in DOMAIN cs : x < y => cs[x] < cs[y]
      BY <1>0, KidsInOrder
    <3>2. Cardinality(S) \in Nat
      BY <1>5, FS_CardinalityType
    <3>3. cs[u] = cs[k] /\ u \in DOMAIN cs /\ k \in DOMAIN cs /\ cs[k] \in Nat
      BY <2>1, <2>2 DEF a
    <3> HIDE DEF cs, u
    <3>4. ~(u < k) /\ ~(k < u)
      BY <3>1, <3>3
    <3>5. u = k
      BY <3>1, <3>2, <3>3, <3>4
    <3> QED BY <3>5 DEF u
  <2>6. Children(Target, j)[k] = b
    BY <2>3, <2>4, <2>5
  <2> QED BY <2>6 DEF a, b
<1> QED BY <1>8, <1>9, <1>10

-----------------------------------------------------------------------------
(* Trees that are alike, unfolded.                                           *)

AlikeAt(s, t, f, p) ==
  LET cs == Children(s, p[1])
      ct == Children(t, p[2]) IN
  \/ Same(s, p[1], t, p[2])
  \/ /\ s.kind[p[1]] = t.kind[p[2]] /\ s.kind[p[1]] \notin Updatable
     /\ s.value[p[1]] = t.value[p[2]]
     /\ Len(cs) = Len(ct)
     /\ \A k \in DOMAIN cs : f[<<cs[k], ct[k]>>]

AlikeTable(s, t) == CHOOSE f : f = [p \in Nodes(s) \X Nodes(t) |-> AlikeAt(s, t, f, p)]

\* Likeness is the cell of the table that belongs to the two nodes.
LEMMA AlikeIsTheCell ==
  ASSUME NEW s, NEW t, NEW i, NEW j
  PROVE  Alike(s, i, t, j) = AlikeTable(s, t)[<<i, j>>]
BY DEF Alike, AlikeTable, AlikeAt

\* The table exists: likeness of two nodes looks no further than their children.
LEMMA AlikeTableIsTheTable ==
  ASSUME NEW s, NEW t, Tree(s), Tree(t)
  PROVE  AlikeTable(s, t) = [p \in Nodes(s) \X Nodes(t) |-> AlikeAt(s, t, AlikeTable(s, t), p)]
<1> DEFINE n == Len(s.kind)
           D == Nodes(s) \X Nodes(t)
           rank == [p \in D |-> n - p[1]]
           b == [q \in [D -> BOOLEAN] \X D |-> AlikeAt(s, t, q[1], q[2])]
<1>1. n \in Nat /\ Nodes(s) = 1 .. n
  BY TreeShape
<1>2. rank \in [D -> 0 .. n]
  BY <1>1
<1>3. ASSUME NEW g \in [D -> BOOLEAN], NEW p \in D
      PROVE  AlikeAt(s, t, g, p) \in BOOLEAN /\ b[<<g, p>>] = AlikeAt(s, t, g, p)
  <2>1. AlikeAt(s, t, g, p) \in BOOLEAN
    BY DEF AlikeAt
  <2> QED BY <2>1
<1>4. b \in [[D -> BOOLEAN] \X D -> BOOLEAN]
  BY DEF AlikeAt
<1>5. ASSUME NEW p \in D
      PROVE  /\ DOMAIN Children(s, p[1]) = 1 .. Len(Children(s, p[1]))
             /\ DOMAIN Children(t, p[2]) = 1 .. Len(Children(t, p[2]))
             /\ \A k \in DOMAIN Children(s, p[1]) :
                  Children(s, p[1])[k] \in Nodes(s) /\ Children(s, p[1])[k] > p[1]
             /\ \A k \in DOMAIN Children(t, p[2]) : Children(t, p[2])[k] \in Nodes(t)
  <2>1. p[1] \in Nodes(s) /\ p[2] \in Nodes(t)
    OBVIOUS
  <2>2. \A x \in Kids(s, p[1]) : x \in Nodes(s) /\ x > p[1]
    BY <1>1, <2>1, TreeShape DEF Kids
  <2>3. \A x \in Kids(t, p[2]) : x \in Nodes(t)
    BY DEF Kids
  <2> QED BY <2>2, <2>3, KidsInOrder
<1>6. ASSUME NEW g \in [D -> BOOLEAN], NEW h \in [D -> BOOLEAN], NEW p \in D,
             \A c \in D : rank[c] < rank[p] => g[c] = h[c]
      PROVE  b[<<g, p>>] = b[<<h, p>>]
  <2> DEFINE cs == Children(s, p[1])
             ct == Children(t, p[2])
  <2>1. ASSUME Len(cs) = Len(ct), NEW k \in DOMAIN cs PROVE g[<<cs[k], ct[k]>>] = h[<<cs[k], ct[k]>>]
    <3>1. k \in DOMAIN ct
      BY <1>5, <2>1
    <3>2. cs[k] \in Nodes(s) /\ cs[k] > p[1] /\ ct[k] \in Nodes(t)
      BY <1>5, <2>1, <3>1
    <3> DEFINE c == <<cs[k], ct[k]>>
    <3>3. c \in D /\ c[1] = cs[k]
      BY <3>2
    <3>4. rank[c] < rank[p]
      BY <1>1, <3>2, <3>3
    <3> HIDE DEF c, rank
    <3>5. g[c] = h[c]
      BY <1>6, <3>3, <3>4
    <3> QED BY <3>5 DEF c
  <2>2. AlikeAt(s, t, g, p) = AlikeAt(s, t, h, p)
    <3>1. Len(cs) = Len(ct) =>
            ((\A k \in DOMAIN cs : g[<<cs[k], ct[k]>>]) <=> (\A k \in DOMAIN cs : h[<<cs[k], ct[k]>>]))
      BY <2>1
    <3> QED BY <3>1 DEF AlikeAt
  <2> HIDE DEF b
  <2> QED BY <1>3, <2>2
<1>7. PICK f \in [D -> BOOLEAN] : f = [p \in D |-> b[<<f, p>>]]
  <2> DEFINE V == BOOLEAN
  <2> HIDE DEF D, rank, b, n
  <2>1. \A g, h \in [D -> V] : \A p \in D :
          (\A c \in D : rank[c] < rank[p] => g[c] = h[c]) => b[<<g, p>>] = b[<<h, p>>]
    BY <1>6
  <2>2. V # {} /\ b \in [[D -> V] \X D -> V] /\ n \in Nat
    BY <1>1, <1>4
  <2> HIDE DEF V
  <2>3. LooksDown(b, D, V, rank, n)
    BY <1>2, <2>1, <2>2 DEF LooksDown
  <2>4. \E f \in [D -> V] : f = [p \in D |-> b[<<f, p>>]]
    BY <2>3, TableByRank
  <2> QED BY <2>4 DEF V
<1>8. f = [p \in D |-> AlikeAt(s, t, f, p)]
  <2> HIDE DEF b, D
  <2>1. \A p \in D : b[<<f, p>>] = AlikeAt(s, t, f, p)
    BY <1>3
  <2> QED BY <1>7, <2>1
<1> QED BY <1>8 DEF AlikeTable

\* Two nodes are alike if they are equal, or look the same to diff and have children alike.
LEMMA AlikeUnfolds ==
  ASSUME NEW s, NEW t, Tree(s), Tree(t), NEW i \in Nodes(s), NEW j \in Nodes(t)
  PROVE  Alike(s, i, t, j) <=>
           \/ Same(s, i, t, j)
           \/ /\ s.kind[i] = t.kind[j] /\ s.kind[i] \notin Updatable
              /\ s.value[i] = t.value[j]
              /\ Len(Children(s, i)) = Len(Children(t, j))
              /\ \A k \in DOMAIN Children(s, i) : Alike(s, Children(s, i)[k], t, Children(t, j)[k])
<1> DEFINE f == AlikeTable(s, t)
           p == <<i, j>>
<1>1. f = [q \in Nodes(s) \X Nodes(t) |-> AlikeAt(s, t, f, q)]
  BY AlikeTableIsTheTable
<1>2. p \in Nodes(s) \X Nodes(t) /\ p[1] = i /\ p[2] = j
  OBVIOUS
<1> HIDE DEF f, p
<1>3. f[p] = AlikeAt(s, t, f, p)
  BY <1>1, <1>2
<1>4. \A k : f[<<Children(s, i)[k], Children(t, j)[k]>>]
            = Alike(s, Children(s, i)[k], t, Children(t, j)[k])
  BY AlikeIsTheCell DEF f
<1>5. Alike(s, i, t, j) = f[p]
  BY AlikeIsTheCell DEF f, p
<1>6. AlikeAt(s, t, f, p) <=>
        \/ Same(s, i, t, j)
        \/ /\ s.kind[i] = t.kind[j] /\ s.kind[i] \notin Updatable
           /\ s.value[i] = t.value[j]
           /\ Len(Children(s, i)) = Len(Children(t, j))
           /\ \A k \in DOMAIN Children(s, i) : f[<<Children(s, i)[k], Children(t, j)[k]>>]
  BY <1>2 DEF AlikeAt
<1> QED BY <1>3, <1>4, <1>5, <1>6

\* A child of one of two nodes that are alike has its like below the other.
LEMMA AlikeBelow ==
  ASSUME NEW s, NEW t, Tree(s), Tree(t), NEW i \in Nodes(s), NEW j \in Nodes(t), Alike(s, i, t, j)
  PROVE  /\ \A a \in Kids(s, i) : \E b \in Kids(t, j) : Alike(s, a, t, b)
         /\ \A b \in Kids(t, j) : \E a \in Kids(s, i) : Alike(s, a, t, b)
<1>1. /\ \A a \in Kids(s, i) : a \in Nodes(s)
      /\ \A b \in Kids(t, j) : b \in Nodes(t)
  BY DEF Kids
<1>2. CASE Same(s, i, t, j)
  <2>1. \A a \in Kids(s, i), b \in Kids(t, j) : Same(s, a, t, b) => Alike(s, a, t, b)
    BY <1>1, AlikeUnfolds
  <2> QED BY <1>2, <2>1, SameBelow
<1>3. CASE ~Same(s, i, t, j)
  <2> DEFINE cs == Children(s, i)
             ct == Children(t, j)
  <2>1. Len(cs) = Len(ct) /\ \A k \in DOMAIN cs : Alike(s, cs[k], t, ct[k])
    BY <1>3, AlikeUnfolds
  <2>2. /\ Len(cs) = Cardinality(Kids(s, i)) /\ DOMAIN cs = 1 .. Cardinality(Kids(s, i))
        /\ \A k \in DOMAIN cs : cs[k] \in Kids(s, i)
        /\ \A x \in Kids(s, i) : \E k \in DOMAIN cs : cs[k] = x
    BY KidsInOrder
  <2>3. /\ Len(ct) = Cardinality(Kids(t, j)) /\ DOMAIN ct = 1 .. Cardinality(Kids(t, j))
        /\ \A k \in DOMAIN ct : ct[k] \in Kids(t, j)
        /\ \A x \in Kids(t, j) : \E k \in DOMAIN ct : ct[k] = x
    BY KidsInOrder
  <2>4. DOMAIN cs = DOMAIN ct
    BY <2>1, <2>2, <2>3
  <2> HIDE DEF cs, ct
  <2> QED BY <2>1, <2>2, <2>3, <2>4
<1> QED BY <1>2, <1>3

-----------------------------------------------------------------------------
(* The depth of a node: how far up it is like itself.                        *)

Depth(t, x) == ParentScore(t, x, t, x)

\* The root is above all other nodes, and no node lies deeper than its number allows.
LEMMA Depths ==
  ASSUME NEW t, Tree(t), NEW x \in Nodes(t)
  PROVE  /\ Depth(t, x) \in Nat /\ Depth(t, 1) \in Nat
         /\ x # 1 => t.parent[x] \in Nodes(t) /\ Depth(t, x) = 1 + Depth(t, t.parent[x])
         /\ Depth(t, 1) <= Depth(t, x) /\ (x # 1 => Depth(t, 1) < Depth(t, x))
         /\ Depth(t, x) <= x + 1
<1> DEFINE n == Len(t.kind)
           D == Nodes(t)
           rank == [i \in D |-> i]
           A == {i \in D : /\ Depth(t, 1) <= Depth(t, i) /\ (i # 1 => Depth(t, 1) < Depth(t, i))
                           /\ Depth(t, i) <= i + 1}
<1>1. /\ n \in Nat /\ D = 1 .. n /\ 1 \in D
      /\ \A i \in D : /\ t.parent[i] \in Nat /\ t.parent[i] < i
                      /\ t.parent[i] = 0 <=> i = 1
                      /\ t.parent[i] # 0 => t.parent[i] \in D
  BY TreeShape
<1>2. \A i \in D : i # 0 /\ i \in Nat
  BY <1>1
<1>3. ASSUME NEW i \in D
      PROVE  /\ Depth(t, i) \in Nat
             /\ i # 1 => t.parent[i] \in D /\ Depth(t, i) = 1 + Depth(t, t.parent[i])
             /\ i = 1 => Depth(t, i) <= 2
  <2>1. ParentScore(t, i, t, i) \in Nat
        /\ ParentScore(t, i, t, i) = 1 + ParentScore(t, t.parent[i], t, t.parent[i])
    BY <1>2, ScoreUnfolds
  <2>2. ParentScore(t, 0, t, 0) = 1 \/ ParentScore(t, 0, t, 0) = 0
    BY ScoreUnfolds
  <2>3. ASSUME i = 1 PROVE Depth(t, i) <= 2
    <3>1. t.parent[i] = 0
      BY <1>1, <2>3, Zenon
    <3>2. Depth(t, i) = 1 + ParentScore(t, 0, t, 0)
      BY <2>1, <3>1 DEF Depth
    <3> HIDE DEF A, rank, D, n
    <3> QED BY <2>2, <3>2
  <2>4. ASSUME i # 1 PROVE t.parent[i] \in D
    BY <1>1, <2>4, Zenon
  <2>5. Depth(t, i) \in Nat /\ Depth(t, i) = 1 + Depth(t, t.parent[i])
    BY <2>1 DEF Depth
  <2> HIDE DEF A, rank, D, n
  <2> QED BY <2>3, <2>4, <2>5
<1>4. ASSUME NEW i \in D, \A c \in D : rank[c] < rank[i] => c \in A PROVE i \in A
  <2>1. CASE i = 1
    BY <1>3, <2>1
  <2>2. CASE i # 1
    <3> DEFINE p == t.parent[i]
    <3>1. p \in D /\ p \in Nat /\ p < i /\ Depth(t, i) = 1 + Depth(t, p) /\ i \in Nat
      <4>1. p \in Nat /\ p < i /\ i \in Nat
        BY <1>1, <1>2, Zenon
      <4>2. p \in D /\ Depth(t, i) = 1 + Depth(t, p)
        BY <1>3, <2>2
      <4> QED BY <4>1, <4>2
    <3>2. p \in A
      <4> HIDE DEF A, p
      <4> QED BY <1>4, <3>1
    <3>3. Depth(t, 1) <= Depth(t, p) /\ Depth(t, p) <= p + 1
      BY <3>2
    <3>4. Depth(t, 1) \in Nat /\ Depth(t, p) \in Nat /\ Depth(t, i) \in Nat
      BY <1>1, <1>3, <3>1
    <3> HIDE DEF p
    <3>5. Depth(t, 1) < Depth(t, i) /\ Depth(t, i) <= i + 1
      BY <3>1, <3>3, <3>4
    <3> QED BY <2>2, <3>4, <3>5
  <2> QED BY <2>1, <2>2
<1>5. \A i \in D : i \in A
  <2>1. rank \in [D -> 0 .. n]
    BY <1>1
  <2>2. Inherits(A, D, rank)
    BY <1>4 DEF Inherits
  <2> HIDE DEF A, D, rank, n
  <2> QED BY <1>1, <2>1, <2>2, InductionByRank
<1> QED BY <1>1, <1>3, <1>5

-----------------------------------------------------------------------------
(* What an empty delta shows.                                                *)

\* The caller pairs nodes of one class.
Typed == \A p \in Range(call.given) : Source.kind[p[1]] = Target.kind[p[2]]

\* A node with a partner it is not the same as has at least its kind and its plain args.
LEMMA SilentFaces ==
  ASSUME TypedCall, PairedOnce, Generate, Silent, Typed, NEW i \in Nodes(Source),
         ~Same(Source, i, Target, Partner(i))
  PROVE  /\ Source.kind[i] = Target.kind[Partner(i)] /\ Source.kind[i] \notin Updatable
         /\ Source.value[i] = Target.value[Partner(i)]
<1> DEFINE j == Partner(i)
           p == <<i, j>>
<1>1. j \in Nodes(Target) /\ p \in AllPairs /\ p[1] = i /\ p[2] = j
  BY SilentPairs
<1>2. /\ Source.kind[i] \notin Updatable
      /\ NonExpressionLeaves(Source, i) = NonExpressionLeaves(Target, j)
  BY SilentPair
<1> HIDE DEF j, p
<1>3. \A q \in AllPairs : Source.kind[q[1]] = Target.kind[q[2]]
  BY DEF AllPairs, Typed, TypedCall, TypeOK, SameType
<1>4. Source.kind[i] = Target.kind[j]
  BY <1>1, <1>3
<1>5. Source.value[i] = Target.value[j]
  BY <1>2 DEF NonExpressionLeaves
<1> QED BY <1>2, <1>4, <1>5 DEF j

\* Every node is like its partner: if they are not equal, their children are alike.
LEMMA SilentNodes ==
  ASSUME TypedCall, PairedOnce, Generate, Silent, Typed
  PROVE  \A i \in Nodes(Source) : Alike(Source, i, Target, Partner(i))
<1> DEFINE n == Len(Source.kind)
           D == Nodes(Source)
           rank == [i \in D |-> n - i]
           A == {i \in D : Alike(Source, i, Target, Partner(i))}
<1>1. Tree(Source) /\ Tree(Target)
  BY TreesOfTheCall
<1>2. n \in Nat /\ D = 1 .. n /\ rank \in [D -> 0 .. n]
      /\ \A i, k \in D : i < k => rank[k] < rank[i]
  <2>1. n \in Nat /\ D = 1 .. n
    BY <1>1, TreeShape
  <2> HIDE DEF n, D
  <2>2. \A i \in D : n - i \in 0 .. n
    BY <2>1
  <2>3. rank \in [D -> 0 .. n] /\ \A i \in D : rank[i] = n - i
    BY <2>2
  <2>4. \A i, k \in D : i < k => n - k < n - i
    BY <2>1
  <2> QED BY <2>1, <2>3, <2>4
<1>3. ASSUME NEW i \in D, \A c \in D : rank[c] < rank[i] => c \in A
      PROVE  i \in A
  <2> DEFINE j == Partner(i)
             cs == Children(Source, i)
  <2>1. j \in Nodes(Target)
    BY SilentPairs
  <2>2. CASE Same(Source, i, Target, j)
    BY <1>1, <2>1, <2>2, AlikeUnfolds
  <2>3. CASE ~Same(Source, i, Target, j)
    <3>1. /\ Source.kind[i] = Target.kind[j] /\ Source.kind[i] \notin Updatable
          /\ Source.value[i] = Target.value[j]
      BY <2>3, SilentFaces
    <3>2. /\ Len(cs) = Len(Children(Target, j))
          /\ \A k \in DOMAIN cs : Children(Target, j)[k] = Partner(cs[k])
      BY <2>3, ChildrenArePartners
    <3>3. ASSUME NEW k \in DOMAIN cs PROVE Alike(Source, cs[k], Target, Children(Target, j)[k])
      <4> DEFINE c == cs[k]
      <4>1. c \in Kids(Source, i)
        BY <1>1, KidsInOrder
      <4>2. c \in D /\ i < c
        BY <1>1, <4>1, KidsComeAfter
      <4>3. c \in A
        <5> HIDE DEF c, A, rank
        <5> QED BY <1>2, <1>3, <4>2
      <4> QED BY <3>2, <4>3
    <3> HIDE DEF j, cs
    <3>4. Alike(Source, i, Target, j)
      BY <1>1, <2>1, <3>1, <3>2, <3>3, AlikeUnfolds DEF cs
    <3> QED BY <3>4 DEF j
  <2> QED BY <2>2, <2>3
<1>4. Inherits(A, D, rank)
  BY <1>3 DEF Inherits
<1>5. \A i \in D : i \in A
  <2> HIDE DEF A, D, rank, n
  <2> QED BY <1>2, <1>4, InductionByRank
<1> QED BY <1>5

\* Below two nodes that are alike the trees are as deep, starting from the root of one.
LEMMA AsDeepAsTheSource ==
  ASSUME NEW s, NEW t, Tree(s), Tree(t), NEW j \in Nodes(t), Alike(s, 1, t, j)
  PROVE  \A x \in Nodes(s) : \E y \in Nodes(t) : Depth(t, y) + Depth(s, 1) = Depth(s, x) + Depth(t, j)
<1> DEFINE n == Len(s.kind)
           D == Nodes(s)
           rank == [i \in D |-> i]
           deep(x, y) == Alike(s, x, t, y) /\ Depth(t, y) + Depth(s, 1) = Depth(s, x) + Depth(t, j)
           A == {x \in D : \E y \in Nodes(t) : deep(x, y)}
<1>1. /\ n \in Nat /\ D = 1 .. n /\ 1 \in D
      /\ \A i \in D : i # 1 => s.parent[i] \in D /\ s.parent[i] < i
  BY TreeShape
<1>2. ASSUME NEW x \in D, \A c \in D : rank[c] < rank[x] => c \in A PROVE x \in A
  <2>1. CASE x = 1
    <3>1. Depth(t, j) + Depth(s, 1) = Depth(s, 1) + Depth(t, j)
      BY <1>1, Depths
    <3> QED BY <2>1, <3>1
  <2>2. CASE x # 1
    <3> DEFINE p == s.parent[x]
    <3>1. p \in D /\ p < x /\ x \in Kids(s, p)
      BY <1>1, <2>2 DEF Kids
    <3>2. p \in A
      <4> HIDE DEF A, p
      <4> QED BY <1>2, <3>1
    <3>3. PICK q \in Nodes(t) : deep(p, q)
      BY <3>2
    <3>4. PICK y \in Kids(t, q) : Alike(s, x, t, y)
      BY <3>1, <3>3, AlikeBelow
    <3>5. y \in Nodes(t) /\ t.parent[y] = q /\ y # 1
      <4>1. y \in Nodes(t) /\ t.parent[y] = q /\ q \in Nat \ {0}
        BY <3>4, TreeShape DEF Kids
      <4> QED BY <4>1, TreeShape
    <3>6. /\ Depth(t, y) = 1 + Depth(t, q) /\ Depth(s, x) = 1 + Depth(s, p)
          /\ Depth(t, q) \in Nat /\ Depth(s, p) \in Nat /\ Depth(t, j) \in Nat /\ Depth(s, 1) \in Nat
      BY <1>1, <2>2, <3>1, <3>3, <3>5, Depths
    <3>7. Depth(t, q) + Depth(s, 1) = Depth(s, p) + Depth(t, j)
      BY <3>3
    <3>8. Depth(t, y) + Depth(s, 1) = Depth(s, x) + Depth(t, j)
      BY <3>6, <3>7
    <3> QED BY <3>4, <3>5, <3>8
  <2> QED BY <2>1, <2>2
<1>3. \A x \in D : x \in A
  <2>1. rank \in [D -> 0 .. n]
    BY <1>1
  <2>2. Inherits(A, D, rank)
    BY <1>2 DEF Inherits
  <2> HIDE DEF A, D, rank, n
  <2> QED BY <1>1, <2>1, <2>2, InductionByRank
<1> QED BY <1>3

LEMMA AsDeepAsTheTarget ==
  ASSUME NEW s, NEW t, Tree(s), Tree(t), NEW i \in Nodes(s), Alike(s, i, t, 1)
  PROVE  \A y \in Nodes(t) : \E x \in Nodes(s) : Depth(s, x) + Depth(t, 1) = Depth(t, y) + Depth(s, i)
<1> DEFINE n == Len(t.kind)
           D == Nodes(t)
           rank == [k \in D |-> k]
           deep(y, x) == Alike(s, x, t, y) /\ Depth(s, x) + Depth(t, 1) = Depth(t, y) + Depth(s, i)
           A == {y \in D : \E x \in Nodes(s) : deep(y, x)}
<1>1. /\ n \in Nat /\ D = 1 .. n /\ 1 \in D
      /\ \A k \in D : k # 1 => t.parent[k] \in D /\ t.parent[k] < k
  BY TreeShape
<1>2. ASSUME NEW y \in D, \A c \in D : rank[c] < rank[y] => c \in A PROVE y \in A
  <2>1. CASE y = 1
    <3>1. Depth(s, i) + Depth(t, 1) = Depth(t, 1) + Depth(s, i)
      BY <1>1, Depths
    <3> QED BY <2>1, <3>1
  <2>2. CASE y # 1
    <3> DEFINE p == t.parent[y]
    <3>1. p \in D /\ p < y /\ y \in Kids(t, p)
      BY <1>1, <2>2 DEF Kids
    <3>2. p \in A
      <4> HIDE DEF A, p
      <4> QED BY <1>2, <3>1
    <3>3. PICK q \in Nodes(s) : deep(p, q)
      BY <3>2
    <3>4. PICK x \in Kids(s, q) : Alike(s, x, t, y)
      BY <3>1, <3>3, AlikeBelow
    <3>5. x \in Nodes(s) /\ s.parent[x] = q /\ x # 1
      <4>1. x \in Nodes(s) /\ s.parent[x] = q /\ q \in Nat \ {0}
        BY <3>4, TreeShape DEF Kids
      <4> QED BY <4>1, TreeShape
    <3>6. /\ Depth(s, x) = 1 + Depth(s, q) /\ Depth(t, y) = 1 + Depth(t, p)
          /\ Depth(s, q) \in Nat /\ Depth(t, p) \in Nat /\ Depth(s, i) \in Nat /\ Depth(t, 1) \in Nat
      BY <1>1, <2>2, <3>1, <3>3, <3>5, Depths
    <3>7. Depth(s, q) + Depth(t, 1) = Depth(t, p) + Depth(s, i)
      BY <3>3
    <3>8. Depth(s, x) + Depth(t, 1) = Depth(t, y) + Depth(s, i)
      BY <3>6, <3>7
    <3> QED BY <3>4, <3>5, <3>8
  <2> QED BY <2>1, <2>2
<1>3. \A y \in D : y \in A
  <2>1. rank \in [D -> 0 .. n]
    BY <1>1
  <2>2. Inherits(A, D, rank)
    BY <1>2 DEF Inherits
  <2> HIDE DEF A, D, rank, n
  <2> QED BY <1>1, <2>1, <2>2, InductionByRank
<1> QED BY <1>3

\* So if each root has its like in the other tree, these are the roots: a tree alike to one
\* that lies deeper than the root would leave no deepest node.
LEMMA RootsMeet ==
  ASSUME NEW s, NEW t, Tree(s), Tree(t), NEW j \in Nodes(t), NEW i \in Nodes(s),
         Alike(s, 1, t, j), Alike(s, i, t, 1)
  PROVE  j = 1
<1> SUFFICES ASSUME j # 1 PROVE FALSE
  OBVIOUS
<1> DEFINE n == Len(s.kind)
           z == n + 2
           S == {d \in 0 .. z : \E x \in Nodes(s) : Depth(s, x) >= d}
<1>1. n \in Nat /\ Nodes(s) = 1 .. n /\ 1 \in Nodes(s) /\ 1 \in Nodes(t)
  BY TreeShape
<1>2. ASSUME NEW x \in Nodes(s) PROVE \E v \in Nodes(s) : Depth(s, v) > Depth(s, x)
  <2>1. PICK y \in Nodes(t) : Depth(t, y) + Depth(s, 1) = Depth(s, x) + Depth(t, j)
    BY AsDeepAsTheSource
  <2>2. PICK v \in Nodes(s) : Depth(s, v) + Depth(t, 1) = Depth(t, y) + Depth(s, i)
    BY AsDeepAsTheTarget
  <2>3. /\ Depth(s, x) \in Nat /\ Depth(s, v) \in Nat /\ Depth(s, i) \in Nat /\ Depth(s, 1) \in Nat
        /\ Depth(t, y) \in Nat /\ Depth(t, j) \in Nat /\ Depth(t, 1) \in Nat
        /\ Depth(s, 1) <= Depth(s, i) /\ Depth(t, 1) < Depth(t, j)
    BY Depths
  <2>4. Depth(s, v) > Depth(s, x)
    BY <2>1, <2>2, <2>3
  <2> QED BY <2>4
<1> HIDE DEF n
<1>3. 0 \in S
  BY <1>1, Depths
<1>4. ASSUME NEW d \in 1 .. z, d - 1 \in S PROVE d \in S
  <2>1. PICK x \in Nodes(s) : Depth(s, x) >= d - 1
    BY <1>4
  <2>2. PICK v \in Nodes(s) : Depth(s, v) > Depth(s, x)
    BY <1>2
  <2>3. Depth(s, x) \in Nat /\ Depth(s, v) \in Nat /\ d \in 0 .. z /\ d \in Nat
    BY <1>1, Depths
  <2>4. Depth(s, v) >= d
    BY <2>1, <2>2, <2>3
  <2> QED BY <2>3, <2>4
<1>5. z \in S
  <2>1. z \in Nat
    BY <1>1
  <2> HIDE DEF S, z
  <2>2. 0 .. z \subseteq S
    BY <1>3, <1>4, <2>1, InductionUpTo
  <2> QED BY <2>1, <2>2
<1>6. PICK x \in Nodes(s) : Depth(s, x) >= n + 2
  BY <1>5
<1>7. Depth(s, x) \in Nat /\ Depth(s, x) <= x + 1 /\ x <= n /\ x \in Nat
  BY <1>1, Depths
<1> QED BY <1>1, <1>6, <1>7

\* Then the two trees are alike: the partner of the root can only be the root.
LEMMA SilentMeansAlike ==
  ASSUME TypedCall, PairedOnce, Generate, Silent, Typed
  PROVE  Alike(Source, 1, Target, 1)
<1> DEFINE j == Partner(1)
<1>1. Tree(Source) /\ Tree(Target)
  BY TreesOfTheCall
<1>2. 1 \in Nodes(Source) /\ 1 \in Nodes(Target)
  BY <1>1, TreeShape
<1>3. j \in Nodes(Target) /\ Alike(Source, 1, Target, j)
  BY <1>2, SilentNodes, SilentPairs
<1>4. PICK i \in Nodes(Source) : Partner(i) = 1
  BY <1>2, SilentPairs
<1>5. Alike(Source, i, Target, 1)
  BY <1>4, SilentNodes
<1> HIDE DEF j
<1>6. j = 1
  BY <1>1, <1>3, <1>5, RootsMeet
<1> QED BY <1>3, <1>6

-----------------------------------------------------------------------------

(* The invariant of the two directions.                                      *)

\* The pairs found so far are typed and apart, and mirrored if one tree is
\* a copy of the other.
DeltaInv == TypedCall /\ PairedOnce /\ Mirrored /\ DeltaFaithful

\* The invariant holds before anything is paired.
LEMMA DeltaInit == Init => DeltaInv
<1> SUFFICES ASSUME Init PROVE DeltaInv
  OBVIOUS
<1>1. TypedCall
  BY TypeInit DEF TypedCall, Init
<1>2. DeltaFaithful
  BY DEF Init, DeltaFaithful
<1> QED BY <1>1, <1>2, PairedInit, MirroredInit DEF DeltaInv

\* The step that writes the script is the one that matters.
LEMMA DeltaOfTheScript ==
  ASSUME TypedCall, PairedOnce, Mirrored, Generate
  PROVE  DeltaFaithful'
<1>1. call' = call /\ Source' = Source /\ Target' = Target
  BY DEF Generate, Source, Target
<1>2. ASSUME Source = Target, Alone PROVE Silent
  BY <1>2, TwinsAreKept DEF Twins, Silent
<1>3. ASSUME Silent, Typed PROVE Alike(Source, 1, Target, 1)
  BY <1>3, SilentMeansAlike
<1>4. {e \in Range(script') : e.edit # "Keep"} = {} <=> Silent
  BY DEF Silent
<1>5. Alike(Source, 1, Target, 1)' <=> Alike(Source, 1, Target, 1)
  BY <1>1
<1>6. Alone <=> (call.given = <<>> /\ ~Source.attached /\ ~Target.attached)
  BY DEF Alone
<1>7. Typed <=> \A p \in Range(call.given) : Source.kind[p[1]] = Target.kind[p[2]]
  BY DEF Typed
<1> QED BY <1>1, <1>2, <1>3, <1>4, <1>5, <1>6, <1>7 DEF DeltaFaithful

\* Every step keeps the invariant; only the one that writes the script can break it.
LEMMA DeltaNext == DeltaInv /\ [Next]_vars => DeltaInv'
<1> SUFFICES ASSUME DeltaInv, [Next]_vars PROVE DeltaInv'
  OBVIOUS
<1>1. TypedCall /\ PairedOnce /\ Mirrored
  BY DEF DeltaInv
<1>2. call' = call
  BY DEF Next, MatchLeaf, LeavesDone, MatchNode, Generate, vars
<1>3. TypedCall'
  BY <1>1, <1>2, TypeNext DEF TypedCall
<1>4. PairedOnce' /\ Mirrored'
  BY <1>1, PairedNext, MirroredNext
<1>5. CASE MatchLeaf \/ LeavesDone \/ MatchNode
  <2>1. stage' # "done"
    BY <1>5 DEF MatchLeaf, LeavesDone, MatchNode
  <2>2. DeltaFaithful'
    BY <2>1 DEF DeltaFaithful
  <2> QED BY <1>3, <1>4, <2>2 DEF DeltaInv
<1>6. CASE Generate
  BY <1>1, <1>3, <1>4, <1>6, DeltaOfTheScript DEF DeltaInv
<1>7. CASE UNCHANGED vars
  <2>1. stage' = stage /\ script' = script /\ Source' = Source /\ Target' = Target
    BY <1>7 DEF vars, Source, Target
  <2>2. DeltaFaithful'
    BY <1>2, <2>1 DEF DeltaInv, DeltaFaithful
  <2> QED BY <1>3, <1>4, <2>2 DEF DeltaInv
<1> QED BY <1>5, <1>6, <1>7 DEF Next

\* A tree and its copy have an empty delta, and trees with an empty delta are alike.
THEOREM DeltaIsFaithful == Spec => []DeltaFaithful
<1>1. DeltaInv => DeltaFaithful
  BY DEF DeltaInv
<1> QED BY <1>1, DeltaInit, DeltaNext, PTL DEF Spec

=============================================================================
