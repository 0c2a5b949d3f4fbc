---------------------------- MODULE BooleanRules ----------------------------
(***************************************************************************)
(* The conditions of a query under the two rules of the optimizer that      *)
(* rewrite boolean expressions: normalize, then simplify.  normalize goes   *)
(* through the conditions one after the other and gives up at the first     *)
(* that is too far from its normal form; simplify rewrites each until a     *)
(* pass changes nothing.                                                    *)
(***************************************************************************)
EXTENDS Normalize

CONSTANTS
  Inputs    \* the calls: records with the conditions and the options dnf,
            \* max and propagate

VARIABLES
  input,    \* the call
  conds,    \* the conditions as rewritten so far
  at,       \* the condition being rewritten
  copy,     \* the copy of it that an OptimizeError restores
  stage     \* the loop the optimizer is in

vars == <<input, conds, at, copy, stage>>

\* the connector of a condition that walk finds: below its NOTs and parentheses
RECURSIVE Core(_), WithCore(_, _)
Core(f) == IF f.op \in {"not", "paren"} THEN Core(f.args[1]) ELSE f
WithCore(f, g) == IF f.op \in {"not", "paren"} THEN [f EXCEPT !.args[1] = WithCore(@, g)] ELSE g

core == Core(conds[at])
Put(g) == conds' = [conds EXCEPT ![at] = WithCore(@, g)]
Wanted(f) == ~IsConnector(f) \/ Normalized(f, input.dnf, FALSE)

Init ==
  /\ input \in Inputs
  /\ conds = input.conds
  /\ at = 1
  /\ copy = Null
  /\ stage = "normalize"

(***************************************************************************)
(* normalize: the loop over the connectors, and whileChanging within it.    *)
(***************************************************************************)
NextCondition ==
  /\ stage = "normalize"
  /\ at <= Len(conds)
  /\ Wanted(core)
  /\ at' = at + 1
  /\ UNCHANGED <<input, conds, copy, stage>>

GiveUp ==
  /\ stage = "normalize"
  /\ at <= Len(conds)
  /\ ~Wanted(core)
  /\ \E g \in {Betweens(core, <<>>)} :
         TooFar(g, input.dnf, input.max) /\ Put(g)
  /\ stage' = "normalized"
  /\ UNCHANGED <<input, at, copy>>

Begin ==
  /\ stage = "normalize"
  /\ at <= Len(conds)
  /\ ~Wanted(core)
  /\ \E g \in {Betweens(core, <<>>)} :
         ~TooFar(g, input.dnf, input.max) /\ Put(g)
  /\ copy' = core
  /\ stage' = "distribute"
  /\ UNCHANGED <<input, at>>

Distributing ==
  /\ stage = "distribute"
  /\ \E g \in {Distributed(core, input.dnf, input.max, FALSE)} :
         /\ Put(g.tree)
         /\ IF g.raised THEN stage' = "raised" /\ UNCHANGED at
            ELSE IF g.tree = core THEN stage' = "normalize" /\ at' = at + 1
            ELSE UNCHANGED <<at, stage>>
  /\ UNCHANGED <<input, copy>>

\* Mutant of Restore: the half-distributed condition is left in place
LeaveHalfDone ==
  /\ stage = "raised"
  /\ stage' = "normalized"
  /\ UNCHANGED <<input, conds, at, copy>>

\* the OptimizeError is caught; the conditions still to come stay as they are
Restore ==
  /\ stage = "raised"
  /\ Put(copy)
  /\ stage' = "normalized"
  /\ UNCHANGED <<input, at, copy>>

EndOfNormalize ==
  /\ stage = "normalize"
  /\ at > Len(conds)
  /\ stage' = "normalized"
  /\ UNCHANGED <<input, conds, at, copy>>

(***************************************************************************)
(* simplify: whileChanging over _simplify, condition after condition.       *)
(***************************************************************************)
StartSimplify ==
  /\ stage = "normalized"
  /\ at' = 1
  /\ stage' = "simplify"
  /\ UNCHANGED <<input, conds, copy>>

SimplifyPass ==
  /\ stage = "simplify"
  /\ at <= Len(conds)
  /\ \E g \in {Pass(conds[at], input.propagate)} :
         /\ conds' = [conds EXCEPT ![at] = g]
         /\ at' = IF g = conds[at] THEN at + 1 ELSE at
  /\ UNCHANGED <<input, copy, stage>>

Finish ==
  /\ stage = "simplify"
  /\ at > Len(conds)
  /\ stage' = "done"
  /\ UNCHANGED <<input, conds, at, copy>>

Next ==
  \/ NextCondition \/ GiveUp \/ Begin \/ Distributing \/ Restore \/ EndOfNormalize
  \/ StartSimplify \/ SimplifyPass \/ Finish

\* the program keeps running until it is done: WF_vars(Next), as every state but the
\* last has a step, spelt without the ENABLED that TLC would have to evaluate
Running == []<>(stage = "done") \/ []<><<Next>>_vars

Spec == Init /\ [][Next]_vars /\ Running

-----------------------------------------------------------------------------
(***************************************************************************)
(* Properties.                                                              *)
(***************************************************************************)
Figures(f) == {g.val : g \in {h \in Nodes(f) : h.op = "num"}}

\* the rows two expressions can tell apart: a truth value for each column of truth
\* values, and for each column of numbers NULL or a number around those compared with
Rows(f, g) ==
  LET figures == Figures(f) \cup Figures(g) \cup {1}
      numbers == (Min(figures) - 1)..(Max(figures) + 1)
      columns == ColumnsOf(f) \cup ColumnsOf(g)
  IN  {nullable @@ notNull @@ number @@ numberNotNull :
         nullable \in [columns \ (Numerics \cup NonNull) -> {0, 1, 2}],
         notNull  \in [(columns \cap NonNull) \ Numerics -> {0, 2}],
         number   \in [(columns \cap Numerics) \ NonNull -> numbers \cup {NoNumber}],
         numberNotNull \in [columns \cap Numerics \cap NonNull -> numbers]}

Compares(f) == \E g \in Nodes(f) : IsComparison(g) \/ g.op = "between"

\* Conditions that compare nothing keep their value in every row, NULL included: no
\* absorption, elimination, complement, De Morgan or distribution step, in whatever
\* order the passes take them, may lose a NULL.
ValueKept ==
  \A i \in DOMAIN conds :
    LET f == input.conds[i] IN
    ~Compares(f) => \A row \in Rows(f, conds[i]) : \A v \in BOOLEAN : Is(v, conds[i], row) = Is(v, f, row)

Negated(f) == \E g \in Nodes(f) : g.op = "not" /\ Compares(g)

\* two order comparisons with the same number, and what can put the weaker one first
Ties(f) == \E g, h \in Nodes(f) :
             /\ {g.op, h.op} \subseteq {"lt", "lte", "gt", "gte", "between"}
             /\ g # h /\ Figures(g) \cap Figures(h) # {}
Reversed(f) == \E g \in Nodes(f) : IsComparison(g) /\ g.args[1].op = "num"
Mixed(f) == {"and", "between"} \cap {g.op : g \in Nodes(f)} # {} /\ \E g \in Nodes(f) : g.op = "or"

\* Conditions with comparisons keep the rows a WHERE lets through, though a NULL may
\* become FALSE: hence not below a NOT.  Of two comparisons with the same number the
\* pair rule keeps the first, which is the stricter one of an AND only because the
\* operands have been sorted: hence no ties when a comparison is turned round, or an
\* operand reduced to one, after the sort.
RowsKept ==
  \A i \in DOMAIN conds :
    LET f == input.conds[i] IN
    ~Negated(f) /\ ~(Ties(f) /\ (Reversed(f) \/ Mixed(f)))
      => \A row \in Rows(f, conds[i]) : Is(TRUE, conds[i], row) = Is(TRUE, f, row)

OverConnector(f) == \E g \in Nodes(f) : g.op = "not" /\ \E h \in Nodes(g) : IsConnector(h) \/ h.op = "between"

\* normalize rewrites a prefix of the conditions completely and leaves the rest exactly
\* as it was: the one it gives up at is restored whatever distribution had done to it.
NormalOrUntouched ==
  stage = "normalized" =>
    \E k \in 0..Len(conds) : \A i \in DOMAIN conds :
      IF i <= k THEN OverConnector(input.conds[i]) \/ Normalized(Core(conds[i]), input.dnf, FALSE)
      ELSE IF i = k + 1 THEN Betweens(conds[i], <<>>) = Betweens(input.conds[i], <<>>)
      ELSE conds[i] = input.conds[i]

\* No NOT is left with a bare chain below it: printed without parentheses it would
\* negate the first operand only.
Grouped ==
  stage = "done" => \A i \in DOMAIN conds : \A g \in Nodes(conds[i]) : g.op = "not" => ~IsConnector(g.args[1])

\* Both loops come to an end: no pass undoes what an earlier one did for ever.
Terminates == <>(stage = "done")
=============================================================================
