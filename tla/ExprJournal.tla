---------------------------- MODULE ExprJournal ----------------------------
(***************************************************************************)
(* The mutation journal of the optimizer (src/optimizer/journal.js) over   *)
(* the expression tree.  A rule records an argument before it mutates it;  *)
(* at any moment, also between a record and its mutation, the caller may   *)
(* give the rule up and revert the journal entry by entry.                 *)
(*                                                                         *)
(* The rule only detaches, moves and reorders nodes of the tree, as        *)
(* eliminate_ctes and pushdown_projections do.                             *)
(***************************************************************************)
EXTENDS ExprTree

CONSTANT MaxJournal     \* bound: recorded arguments

ASSUME JournalAssumption == MaxJournal \in Nat

VARIABLES
    journal,   \* the recorded arguments: node, key and old value
    phase,     \* "build", then "rule", then "revert", then "done"
    saved      \* the tree as it was when the rule started

jvars == <<journal, phase, saved>>
allVars == <<vars, jvars>>

Snapshot == [text |-> text, this |-> this, exprs |-> exprs, link |-> link]

Argument(n, key) == CASE key = "text" -> text[n]
                      [] key = "this" -> this[n]
                      [] key = "expressions" -> exprs[n]

Keys == {"text", "this", "expressions"}

(* Every argument a rule mutates was recorded at some earlier point of it. *)
Recorded(n, key) == \E i \in DOMAIN journal : journal[i].node = n /\ journal[i].key = key

Start ==
    /\ phase = "build"
    /\ phase' = "rule" /\ saved' = Snapshot /\ journal' = <<>>
    /\ UNCHANGED vars

Record(n, key) ==
    /\ phase = "rule" /\ Len(journal) < MaxJournal
    /\ n \in alloc /\ Intact(n)
    /\ journal' = Append(journal, [node |-> n, key |-> key, value |-> Argument(n, key)])
    /\ UNCHANGED vars /\ UNCHANGED <<phase, saved>>

(***************************************************************************)
(* The rule.  What it attaches was part of the tree when it started.       *)
(***************************************************************************)
Movable(v) == saved.link[v].parent # Nil

Detach(c) ==
    /\ phase = "rule" /\ link[c].parent # Nil
    /\ Recorded(link[c].parent, link[c].key)
    /\ Pop(c)
    /\ UNCHANGED jvars

Attach(n, v) ==
    /\ phase = "rule" /\ Recorded(n, "this") /\ (v # Nil => Movable(v))
    /\ SetThis(n, v)
    /\ UNCHANGED jvars

Select(n, xs) ==
    /\ phase = "rule" /\ Recorded(n, "expressions")
    /\ \A v \in Range(xs) : Movable(v)
    /\ SetList(n, xs)
    /\ UNCHANGED jvars

Rewrite(n, t) ==
    /\ phase = "rule" /\ Recorded(n, "text")
    /\ SetText(n, t)
    /\ UNCHANGED jvars

(***************************************************************************)
(* revert(): newest first, each argument set back.                         *)
(***************************************************************************)
Revert ==
    /\ phase = "rule"
    /\ phase' = "revert"
    /\ UNCHANGED vars /\ UNCHANGED <<journal, saved>>

Put(n, key, value) ==
    CASE key = "text" -> /\ hash' = Invalidated(hash, n)
                         /\ text' = [text EXCEPT ![n] = value]
                         /\ UNCHANGED <<alloc, this, exprs, link>> /\ UNCHANGED loop
      [] key = "this" -> Commit(n, WithThis(n, value), {})
      [] key = "expressions" -> Commit(n, WithList(n, value), {})

(* Mutant of PutBack: the oldest entry is put back first. *)
PutBackOldest ==
    /\ phase = "revert" /\ journal # <<>>
    /\ Put(Head(journal).node, Head(journal).key, Head(journal).value)
    /\ journal' = Tail(journal)
    /\ UNCHANGED <<phase, saved>>

PutBack ==
    /\ phase = "revert" /\ journal # <<>>
    /\ LET entry == journal[Len(journal)]
       IN  Put(entry.node, entry.key, entry.value)
    /\ journal' = SubSeq(journal, 1, Len(journal) - 1)
    /\ UNCHANGED <<phase, saved>>

Reverted ==
    /\ phase = "revert" /\ journal = <<>>
    /\ phase' = "done"
    /\ UNCHANGED vars /\ UNCHANGED <<journal, saved>>

-----------------------------------------------------------------------------
JInit == Init /\ journal = <<>> /\ phase = "build" /\ saved = Snapshot

JNext ==
    \/ phase = "build" /\ Building /\ UNCHANGED jvars
    \/ Start
    \/ \E n \in alloc, key \in Keys : Record(n, key)
    \/ \E c \in alloc : Detach(c)
    \/ \E n \in alloc, v \in alloc \cup {Nil} : Attach(n, v)
    \/ \E n \in alloc : \E xs \in Lists(n, Range(exprs[n])) : Select(n, xs)
    \/ \E n \in alloc, t \in Text : Rewrite(n, t)
    \/ Revert \/ PutBack \/ Reverted

JSpec == JInit /\ [][JNext]_allVars

-----------------------------------------------------------------------------
(* journal.js:30-33: after revert() the tree is exactly as it was before   *)
(* the rule: every argument, and the back link of every node in it,        *)
(* wherever in the rule the caller gave up.                                *)
RevertRestores ==
    phase = "done" =>
        /\ text = saved.text /\ this = saved.this /\ exprs = saved.exprs
        /\ \A n \in Node : \A c \in Kids(n) : link[c] = saved.link[c]

(* core.js:252-259: LinkExact, also with a rule at work.  Only while       *)
(* revert() is, may a moved node hang in its old and its new place.        *)
LinksExact == phase # "revert" => LinkExact

-----------------------------------------------------------------------------
(***************************************************************************)
(* The inductive invariant behind RevertRestores and LinksExact.           *)
(***************************************************************************)
SavedArgument(n, key) == CASE key = "text" -> saved.text[n]
                           [] key = "this" -> saved.this[n]
                           [] key = "expressions" -> saved.exprs[n]

Carried(key, value) == CASE key = "text" -> {}
                         [] key = "this" -> {value} \ {Nil}
                         [] key = "expressions" -> Range(value)

(* In the tree t every back link names the slot that holds its node, and   *)
(* every held node has such a link.                                        *)
Exact(t) ==
    /\ \A n \in Node :
        /\ t.this[n] # Nil => t.link[t.this[n]] = [parent |-> n, key |-> "this", index |-> 0]
        /\ \A i \in DOMAIN t.exprs[n] :
              t.link[t.exprs[n][i]] = [parent |-> n, key |-> "expressions", index |-> i]
    /\ \A c \in Node : t.link[c].parent # Nil =>
        LET p == t.link[c].parent
        IN  \/ t.link[c].key = "this" /\ t.this[p] = c
            \/ /\ t.link[c].key = "expressions"
               /\ t.link[c].index \in DOMAIN t.exprs[p] /\ t.exprs[p][t.link[c].index] = c

(* What was recorded, and the tree it is compared with, have their types. *)
JournalType ==
    /\ saved \in [text : [Node -> Text \cup {Nil}], this : [Node -> alloc \cup {Nil}],
                  exprs : [Node -> Seq(alloc)], link : [Node -> Link]]
    /\ journal \in Seq(Range(journal))
    /\ \A i \in DOMAIN journal :
        LET e == journal[i]
        IN  /\ e.node \in alloc /\ e.key \in Keys
            /\ e.key = "text" => e.value \in Text \cup {Nil}
            /\ e.key = "this" => e.value \in alloc \cup {Nil}
            /\ e.key = "expressions" => e.value \in Seq(alloc)

Earlier(i, n, key) == \E j \in 1..(i - 1) : journal[j].node = n /\ journal[j].key = key

(* An argument that was not recorded is as it was, and the oldest record   *)
(* of an argument holds what it was.                                       *)
UndoKnown ==
    /\ \A n \in Node, key \in Keys :
          ~ Recorded(n, key) => Argument(n, key) = SavedArgument(n, key)
    /\ \A i \in DOMAIN journal :
          LET e == journal[i]
          IN  ~ Earlier(i, e.node, e.key) => e.value = SavedArgument(e.node, e.key)

(* A node whose back link is not what it was has been taken out of a       *)
(* recorded argument; a record with a node in it that came from elsewhere  *)
(* is younger than a record of where it came from.                         *)
LinksKnown ==
    /\ \A c \in Node : saved.link[c].parent # Nil =>
          link[c] = saved.link[c] \/ Recorded(saved.link[c].parent, saved.link[c].key)
    /\ \A n \in Node : \A c \in Kids(n) : saved.link[c].parent # Nil
    /\ \A i \in DOMAIN journal :
          LET e == journal[i]
          IN  \A c \in Carried(e.key, e.value) :
                /\ saved.link[c].parent # Nil
                /\ \/ saved.link[c].parent = e.node /\ saved.link[c].key = e.key
                   \/ Earlier(i, saved.link[c].parent, saved.link[c].key)

JournalInv ==
    /\ HashInv /\ busy = "idle"
    /\ phase \in {"build", "rule", "revert", "done"}
    /\ phase \in {"build", "rule"} => LinkExact
    /\ phase = "build" => /\ Exact(Snapshot)
                          /\ \A n \in Node \ alloc : this[n] = Nil /\ exprs[n] = <<>>
    /\ phase # "build" => Exact(saved) /\ JournalType /\ UndoKnown /\ LinksKnown
    /\ phase = "done" => journal = <<>>
=============================================================================
