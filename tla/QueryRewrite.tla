---------------------------- MODULE QueryRewrite ----------------------------
(***************************************************************************)
(* A query is written, then optimized: eliminate_subqueries lifts, and     *)
(* eliminate_ctes drops, in the order of optimizer.js RULES; either may    *)
(* also be called alone.                                                   *)
(***************************************************************************)
EXTENDS EliminateSubqueries, EliminateCtes

VARIABLES
    phase,       \* "write", "lift", "lifted", "drop", "done"
    pen,         \* the query being written
    meaning,     \* what the whole query meant when it was handed over
    odd          \* what is unusual about the query that was handed over

vars == <<tree, lifting, dropping, phase, pen, meaning, odd>>

Init ==
    /\ size = 1 /\ pen = Root
    /\ with = [q \in Query |-> <<>>]
    /\ recursive = [q \in Query |-> FALSE]
    /\ from = [q \in Query |-> <<>>]
    /\ phase = "write" /\ meaning = <<>> /\ odd = {}
    /\ LiftIdle /\ DropIdle

(***************************************************************************)
(* Writing, one query after the other in the order of their numbers, so    *)
(* that each tree is written in one way only.  Every table has an alias,   *)
(* as qualify_tables leaves it.                                            *)
(***************************************************************************)
Ink == MapThenSumSet(LAMBDA q : Cardinality({i \in DOMAIN from[q] : from[q][i].kind # "branch"}), Query)
Room(n) == size + n <= MaxQueries

Put(item) ==
    /\ ~IsUnion(pen) /\ Ink < MaxItems
    /\ item.alias \notin {x.alias : x \in Items(pen)}
    /\ from' = [from EXCEPT ![pen] = Append(@, item)]

WriteCte(b) ==
    /\ from[pen] = <<>> /\ Room(1)
    /\ \A i \in DOMAIN with[pen] : with[pen][i].name # Written(b)
    /\ with' = [with EXCEPT ![pen] = Append(@, [name |-> Written(b), query |-> size + 1])]
    /\ size' = size + 1
    /\ UNCHANGED <<recursive, from, pen>>

Operands(q) == <<Holder("branch", NoAlias, q), Holder("branch", NoAlias, q + 1)>>

WriteRecursive(b) ==
    /\ from[pen] = <<>> /\ with[pen] = <<>> /\ Room(3)
    /\ with' = [with EXCEPT ![pen] = <<[name |-> Written(b), query |-> size + 1]>>]
    /\ recursive' = [recursive EXCEPT ![pen] = TRUE]
    /\ from' = [from EXCEPT ![size + 1] = Operands(size + 2)]
    /\ size' = size + 3
    /\ UNCHANGED pen

WriteTable(b, alias) ==
    /\ Put(Table("table", Written(b), Written(alias)))
    /\ UNCHANGED <<size, with, recursive, pen>>

WriteSemi(b) ==
    /\ from[pen] # <<>>
    /\ Put(Table("semi", Written(b), Written(b)))
    /\ UNCHANGED <<size, with, recursive, pen>>

WriteDerived(alias) ==
    /\ Room(1)
    /\ Put(Holder("derived", Written(alias), size + 1))
    /\ size' = size + 1
    /\ UNCHANGED <<with, recursive, pen>>

WriteWhere ==
    /\ from[pen] # <<>> /\ Room(1)
    /\ Put(Holder("where", NoAlias, size + 1))
    /\ size' = size + 1
    /\ UNCHANGED <<with, recursive, pen>>

WriteUnion ==
    /\ from[pen] = <<>> /\ Room(2)
    /\ from' = [from EXCEPT ![pen] = Operands(size + 1)]
    /\ size' = size + 2
    /\ UNCHANGED <<with, recursive, pen>>

WriteNext ==
    /\ from[pen] # <<>> /\ pen < size
    /\ pen' = pen + 1
    /\ UNCHANGED tree

Write ==
    \/ \E b \in Base : WriteCte(b) \/ WriteRecursive(b)
    \/ \E b, alias \in Base : WriteTable(b, alias)
    \/ \E b \in Base : WriteSemi(b)
    \/ \E alias \in Base : WriteDerived(alias)
    \/ WriteWhere \/ WriteUnion \/ WriteNext

Complete == phase = "write" /\ pen = size /\ from[pen] # <<>>

(***************************************************************************)
(* What the rules do not treat right, read off the query as written.       *)
(***************************************************************************)
Oddities ==
    LET below == Below
        bare == TextsWith([q \in Query |-> <<>>], [q \in Query |-> FALSE])
        means == Meanings
        pairs == {<<bare[q], means[q]>> : q \in 1..size}
        nested == UNION {Range(Ctes(q)) : q \in 2..size}
        refers(kind, q, cs) == \E x \in Items(q) : x.kind = kind /\ Bound(below, q, x.name) \in cs
        self(q) == {c \in 1..size : <<c, q>> \in below}
        operand(c) == Range(Held(c, "branch"))
    IN  {o \in {"capture", "forward", "semi", "recursive"} :
            CASE o = "capture" ->      \* one text, WITH apart, of two meanings
                   \E r, s \in pairs : r[1] = s[1] /\ r # s
              [] o = "forward" ->      \* the text of a later CTE, below an earlier one
                   \E c, d \in Range(Ctes(Root)), q \in 1..size :
                      c > d /\ q # d /\ <<d, q>> \in below /\ bare[q] = bare[c]
              [] o = "semi" ->         \* a semi or anti join with a CTE to be moved
                   \E q \in 1..size : refers("semi", q, nested)
              [] o = "recursive" ->    \* a CTE named within itself, where one of both is moved
                   \E q \in 1..size : refers("table", q, {c \in self(q) : c \in nested \/ q \notin operand(c)})}

Next ==
    \/ /\ phase = "write" /\ Write
       /\ UNCHANGED <<lifting, dropping, phase, meaning, odd>>
    \/ /\ Complete /\ LiftBegin
       /\ phase' = "lift" /\ meaning' = Meanings[Root] /\ odd' = Oddities
       /\ UNCHANGED <<tree, dropping, pen>>
    \/ /\ phase = "lift" /\ LiftStep
       /\ UNCHANGED <<dropping, phase, pen, meaning, odd>>
    \/ /\ phase = "lift" /\ LiftEnd
       /\ phase' = "lifted"
       /\ UNCHANGED <<dropping, pen, meaning, odd>>
    \/ /\ Complete \/ phase = "lifted"
       /\ DropBegin
       /\ phase' = "drop" /\ meaning' = Meanings[Root]
       /\ UNCHANGED <<tree, lifting, pen, odd>>
    \/ /\ phase = "drop" /\ DropStep
       /\ UNCHANGED <<lifting, phase, pen, meaning, odd>>
    \/ /\ phase = "drop" /\ DropEnd
       /\ phase' = "done"
       /\ UNCHANGED <<lifting, pen, meaning, odd>>

Spec == Init /\ [][Next]_vars

-----------------------------------------------------------------------------
InTree == Range(PostOrder[Root])

(* A query lifted by eliminate_subqueries() means what it meant: every     *)
(* name, old or new, stands for the same query or table as before, over    *)
(* fresh names, merged duplicates and renamed references, unless the query *)
(* has one of the Oddities.                                                *)
LiftKeepsMeaning == phase = "lifted" /\ odd = {} => Meanings[Root] = meaning

(* "We want to maintain the DAG order": what is lifted out of a CTE comes  *)
(* before it, so that the name left behind is known there.  Where only the *)
(* order can go wrong, the query means what it meant.                      *)
DagOrder == phase = "lifted" /\ odd = {"forward"} => Meanings[Root] = meaning

(* Dropping CTEs keeps what the query means: none that is referred to goes,*)
(* and no name falls through to another CTE or to a table.                 *)
DropKeepsMeaning == phase = "done" => Meanings[Root] = meaning

(* One reverse walk is enough: where CTE bodies only join tables, no CTE   *)
(* is kept that nothing kept refers to, however long the chain was.        *)
NoneUnused ==
    LET plain == \A q \in 2..size : \A x \in Items(q) : x.kind = "table"
    IN  phase = "done" /\ plain =>
            \A c \in UNION {Range(Ctes(q)) : q \in InTree} :
                \E q \in InTree : \E x \in Items(q) : x.query = 0 /\ Bound(Below, q, x.name) = c

=============================================================================
