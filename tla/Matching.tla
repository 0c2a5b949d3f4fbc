------------------------------ MODULE Matching ------------------------------
(***************************************************************************)
(* What the matching behind an edit script promises, however it is found:   *)
(* it starts from the pairs the caller gives, pairs one free node of each   *)
(* tree at a time and never takes a pair back.                              *)
(***************************************************************************)
VARIABLES
  sources, targets,   \* the nodes of the two trees
  given,              \* the pairs of nodes the caller has matched beforehand
  matching, unmatchedSource, unmatchedTarget

vars == <<sources, targets, given, matching, unmatchedSource, unmatchedTarget>>

First(m)  == {p[1] : p \in m}
Second(m) == {p[2] : p \in m}
OneToOne(m) == \A p, q \in m : p[1] = q[1] \/ p[2] = q[2] => p = q

\* No node is in two of the caller's pairs, and none lies outside its tree.
Init ==
  /\ given \subseteq sources \X targets
  /\ OneToOne(given)
  /\ matching = given
  /\ unmatchedSource = sources \ First(given)
  /\ unmatchedTarget = targets \ Second(given)

Match(s, t) ==
  /\ s \in unmatchedSource
  /\ t \in unmatchedTarget
  /\ matching' = matching \cup {<<s, t>>}
  /\ unmatchedSource' = unmatchedSource \ {s}
  /\ unmatchedTarget' = unmatchedTarget \ {t}
  /\ UNCHANGED <<sources, targets, given>>

Next == \E s \in unmatchedSource, t \in unmatchedTarget : Match(s, t)

Spec == Init /\ [][Next]_vars

\* Every node is either free or in exactly one pair, and the caller's pairs are among
\* them: the removed, the inserted and the matched nodes make up the two trees.
Partitioned ==
  /\ given \subseteq matching
  /\ matching \subseteq sources \X targets
  /\ OneToOne(matching)
  /\ unmatchedSource = sources \ First(matching)
  /\ unmatchedTarget = targets \ Second(matching)
=============================================================================
