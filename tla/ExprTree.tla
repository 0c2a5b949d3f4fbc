------------------------------ MODULE ExprTree ------------------------------
(***************************************************************************)
(* The expression tree of sqlglot-js (src/expressions/core.js): nodes with *)
(* one single-valued argument `this`, one list argument `expressions`, a   *)
(* back link (parent, argKey, index) and a cached hash.  Every public      *)
(* mutation, the hash computation and the deep copy are actions.  A        *)
(* mutation runs to its end without interruption, as in JavaScript; hash() *)
(* and copy() are modelled loop iteration by loop iteration.               *)
(*                                                                         *)
(* `Owned` selects the caller.  FALSE: a caller that attaches, overwrites  *)
(* and re-attaches nodes at will.  TRUE: a caller that keeps the ownership *)
(* convention of the optimizer rules, in which a node that is attached is  *)
(* the root of a tree nobody else holds.                                   *)
(***************************************************************************)
EXTENDS Naturals, Sequences, FiniteSets, Functions

CONSTANTS
    Node,      \* the node objects that may ever be constructed
    Text,      \* values of a scalar argument
    Fold,      \* a scalar as the hash sees it: lower-cased, unless the class hashes raw
    Nil,       \* null
    MaxLen,    \* bound: longest list argument
    Owned      \* which caller drives the tree

ASSUME FoldAssumption  == DOMAIN Fold = Text
ASSUME NilAssumption   == Nil \notin Node /\ Nil \notin Text
ASSUME BoundAssumption == MaxLen \in Nat /\ Owned \in BOOLEAN

VARIABLES
    alloc,     \* the nodes constructed so far
    text,      \* text[n]: the scalar argument of n
    this,      \* this[n]: the child under the key "this", or Nil
    exprs,     \* exprs[n]: the list under the key "expressions"
    link,      \* link[n]: n.parent, n.argKey and n.index
    hash,      \* hash[n]: {} when n._hash is null, {d} when it caches d
    busy,      \* the loop that is running: "idle", "collect", "fill" or "copy"
    root,      \* the receiver of hash() or copy()
    stack,     \* hash(): the work stack
    scan,      \* hash(): arguments of the visited node still to look at
    nodes,     \* hash(): the nodes collected, then still to be filled
    todo       \* copy(): the stack of source and destination pairs

tree == <<alloc, text, this, exprs, link>>
loop == <<busy, root, stack, scan, nodes, todo>>
vars == <<alloc, text, this, exprs, link, hash, busy, root, stack, scan, nodes, todo>>

(* An index of 0 stands for a null index; list positions start at 1. *)
NoLink == [parent |-> Nil, key |-> "none", index |-> 0]
Link == [parent : {Nil}, key : {"none"}, index : Nat]
          \cup [parent : Node, key : {"this", "expressions"}, index : Nat]

Kids(n) == ({this[n]} \ {Nil}) \cup Range(exprs[n])
(* Mutant of Args: the arguments are taken without the instanceof test. *)
ArgsUnfiltered(n) == <<this[n]>> \o exprs[n]

Args(n) == (IF this[n] = Nil THEN <<>> ELSE <<this[n]>>) \o exprs[n]

(* The nodes reached from n by following Kids. *)
Below(n) ==
    LET reach[k \in 0..Cardinality(alloc)] ==
            IF k = 0 THEN {n}
            ELSE LET above == reach[k - 1] IN above \cup UNION {Kids(m) : m \in above}
    IN  reach[Cardinality(alloc)]

(***************************************************************************)
(* The cached hash.                                                        *)
(***************************************************************************)
(* Mutant of Digest: a scalar is not lower-cased. *)
DigestRaw(n) ==
    [text  |-> text[n],
     this  |-> IF this[n] = Nil THEN {} ELSE hash[this[n]],
     exprs |-> [i \in DOMAIN exprs[n] |-> hash[exprs[n][i]]]]

(* What one iteration of the fill loop stores in n: its own scalar and the *)
(* hashes of its children, in the order of the arguments.                  *)
Digest(n) ==
    [text  |-> IF text[n] = Nil THEN Nil ELSE Fold[text[n]],
     this  |-> IF this[n] = Nil THEN {} ELSE hash[this[n]],
     exprs |-> [i \in DOMAIN exprs[n] |-> hash[exprs[n][i]]]]

(* The nodes that invalidate(n) walks over under the hashes h: up the      *)
(* parent links, ending at the first node without a hash.                  *)
Climb(h, n) ==
    {m \in Node : \A S \in SUBSET Node :
        (/\ n \in S
         /\ \A x \in S : h[x] # {} /\ link[x].parent # Nil => link[x].parent \in S)
        => m \in S}

(* Mutant of Invalidated: the hashes above n are kept. *)
InvalidatedAlone(h, n) == [h EXCEPT ![n] = {}]

Invalidated(h, n) ==
    LET climbed == Climb(h, n)
    IN  [m \in Node |-> IF m \in climbed THEN {} ELSE h[m]]

(***************************************************************************)
(* _setParent and the forms of set(): each returns the new arguments and   *)
(* the new links.                                                          *)
(***************************************************************************)
(* The last position of m in xs: as many positions have m at or behind them. *)
LastIndex(xs, m) == Cardinality({i \in 1..Len(xs) : \E j \in i..Len(xs) : xs[j] = m})

(* _setParent(key, list): every element is pointed at its own position. *)
Relinked(n, xs, l) ==
    [m \in Node |-> IF m \in Range(xs)
                    THEN [parent |-> n, key |-> "expressions", index |-> LastIndex(xs, m)]
                    ELSE l[m]]

(* Mutant of Reindexed: the loop after the splice is forgotten. *)
NotReindexed(xs, i, l) == l

(* The loop after a splice that removed position i: the elements behind it *)
(* get their new index and nothing else.                                   *)
Reindexed(xs, i, l) ==
    [m \in Node |-> IF m \in Range(xs) /\ LastIndex(xs, m) >= i
                    THEN [l[m] EXCEPT !.index = LastIndex(xs, m)]
                    ELSE l[m]]

Unwritten == [this |-> this, exprs |-> exprs, link |-> link]

WithThis(n, v) ==
    [this  |-> [this EXCEPT ![n] = v],
     exprs |-> exprs,
     link  |-> IF v = Nil THEN link
               ELSE [link EXCEPT ![v] = [parent |-> n, key |-> "this", index |-> 0]]]

WithList(n, xs) ==
    [this  |-> this,
     exprs |-> [exprs EXCEPT ![n] = xs],
     link  |-> Relinked(n, xs, link)]

Spliced(xs, i, gone, ys) == SubSeq(xs, 1, i - 1) \o ys \o SubSeq(xs, i + gone, Len(xs))

WithRemoved(n, i) ==
    LET xs == Spliced(exprs[n], i, 1, <<>>)
    IN  [this  |-> this,
         exprs |-> [exprs EXCEPT ![n] = xs],
         link  |-> Reindexed(xs, i, link)]

(* set(key, v, index, overwrite); an index outside the list writes nothing. *)
WithItem(n, i, v, overwrite) ==
    IF i \notin DOMAIN exprs[n] THEN Unwritten
    ELSE IF v = Nil THEN WithRemoved(n, i)
    ELSE WithList(n, Spliced(exprs[n], i, IF overwrite THEN 1 ELSE 0, <<v>>))

WithSplice(n, i, vs) ==
    IF i \notin DOMAIN exprs[n] THEN Unwritten
    ELSE WithList(n, Spliced(exprs[n], i, 1, vs))

(* Every mutation of n: invalidate first, then write; `unlinked` are the   *)
(* nodes whose own back link replace() clears at its end.                  *)
Commit(n, w, unlinked) ==
    /\ hash' = Invalidated(hash, n)
    /\ this' = w.this
    /\ exprs' = w.exprs
    /\ link' = [m \in Node |-> IF m \in unlinked THEN NoLink ELSE w.link[m]]
    /\ UNCHANGED <<alloc, text>>
    /\ UNCHANGED loop

(***************************************************************************)
(* What the caller may do.  A cycle of children never ends in hash() or    *)
(* walk(), so no caller builds one.                                        *)
(***************************************************************************)
Intact(n) == \A c \in Kids(n) : link[c].parent = n

MayMutate(n) == n \in alloc /\ (Owned => Intact(n))

MayAttach(n, v) ==
    /\ v \in alloc
    /\ n \notin Below(v)
    /\ Owned => link[v] = NoLink /\ \A m \in Below(v) : Intact(m)

(* The lists a caller may pass: of nodes to attach and of `kept` nodes,    *)
(* which are already in the list.                                          *)
Lists(n, kept) ==
    LET free == kept \cup {v \in alloc : MayAttach(n, v)}
    IN  {xs \in UNION {[1..k -> free] : k \in 0..MaxLen} : Owned => IsInjective(xs)}

MayReplace(c) ==
    /\ c \in alloc
    /\ link[c].parent # Nil
    /\ Owned => c \in Kids(link[c].parent) /\ Intact(link[c].parent)

(* replace(v): v is attachable, or taken from inside the replaced node,    *)
(* which under the convention is where its holder is.                      *)
Replacement(c, v) ==
    LET p == link[c].parent
    IN  \/ MayAttach(p, v)
        \/ /\ v \in Below(c) \ {p} /\ \A m \in Below(v) : Intact(m) /\ m # p
           /\ Owned /\ v # c => link[v].parent \in Below(c) \ {p}

(***************************************************************************)
(* Mutations.                                                              *)
(***************************************************************************)
Construct(n, t, c, xs) ==
    /\ busy = "idle" /\ n \in Node \ alloc
    /\ Owned => c \notin Range(xs)
    /\ alloc' = alloc \cup {n}
    /\ text' = [text EXCEPT ![n] = t]
    /\ this' = [this EXCEPT ![n] = c]
    /\ exprs' = [exprs EXCEPT ![n] = xs]
    /\ link' = Relinked(n, xs, WithThis(n, c).link)
    /\ UNCHANGED hash
    /\ UNCHANGED loop

SetText(n, t) ==
    /\ busy = "idle" /\ MayMutate(n)
    /\ hash' = Invalidated(hash, n)
    /\ text' = [text EXCEPT ![n] = t]
    /\ UNCHANGED <<alloc, this, exprs, link>>
    /\ UNCHANGED loop

SetThis(n, v) ==
    /\ busy = "idle" /\ MayMutate(n)
    /\ v # Nil => MayAttach(n, v)
    /\ Commit(n, WithThis(n, v), {})

SetList(n, xs) ==
    /\ busy = "idle" /\ MayMutate(n)
    /\ Commit(n, WithList(n, xs), {})

SetItem(n, i, v, overwrite) ==
    /\ busy = "idle" /\ MayMutate(n)
    /\ v # Nil => MayAttach(n, v)
    /\ v # Nil /\ ~overwrite => Len(exprs[n]) < MaxLen
    /\ Commit(n, WithItem(n, i, v, overwrite), {})

(* Mutant of AppendChild: the index is one short. *)
AppendChildShort(n, v) ==
    /\ busy = "idle" /\ MayMutate(n) /\ MayAttach(n, v)
    /\ Len(exprs[n]) < MaxLen
    /\ Commit(n, [this  |-> this,
                  exprs |-> [exprs EXCEPT ![n] = Append(@, v)],
                  link  |-> [link EXCEPT ![v] = [parent |-> n, key |-> "expressions",
                                                 index |-> Len(exprs[n])]]], {})

AppendChild(n, v) ==
    /\ busy = "idle" /\ MayMutate(n) /\ MayAttach(n, v)
    /\ Len(exprs[n]) < MaxLen
    /\ Commit(n, [this  |-> this,
                  exprs |-> [exprs EXCEPT ![n] = Append(@, v)],
                  link  |-> [link EXCEPT ![v] = [parent |-> n, key |-> "expressions",
                                                 index |-> Len(exprs[n]) + 1]]], {})

(* replace(v) for one node v, and pop() when v is Nil. *)
Replace(c, v) ==
    LET p == link[c].parent
        w == IF link[c].key = "this" THEN WithThis(p, v)
             ELSE WithItem(p, link[c].index, v, TRUE)
    IN  /\ busy = "idle" /\ MayReplace(c) /\ p # v
        /\ v # Nil => Replacement(c, v)
        /\ Commit(p, w, {c} \ {v})

Pop(c) == Replace(c, Nil)

(* replace(list): a list cannot stand in a single-valued argument, so the  *)
(* call moves up to the containing expression until it finds a list.       *)
Spine(c) ==
    {m \in Node : \A S \in SUBSET Node :
        (c \in S /\ \A x \in S : link[x].key = "this" => link[x].parent \in S) => m \in S}

ReplaceByList(c, vs) ==
    /\ busy = "idle" /\ MayReplace(c)
    /\ \A x \in Spine(c) : link[x].key = "this" => this[link[x].parent] = x
    /\ \E top \in Spine(c) :
        /\ link[top].key # "this"
        /\ IF link[top].key = "expressions"
           THEN /\ MayReplace(top) /\ vs \in Lists(link[top].parent, {})
                /\ Len(exprs[link[top].parent]) + Len(vs) <= MaxLen + 1
                /\ Commit(link[top].parent,
                          WithSplice(link[top].parent, link[top].index, vs), Spine(c))
           ELSE /\ link' = [m \in Node |-> IF m \in Spine(c) THEN NoLink ELSE link[m]]
                /\ UNCHANGED <<alloc, text, this, exprs, hash>>
                /\ UNCHANGED loop

(***************************************************************************)
(* hash(): collect every unhashed node below the receiver, parents first,  *)
(* then fill the hashes from the last collected to the first.              *)
(***************************************************************************)
HashBegin(n) ==
    /\ busy = "idle" /\ n \in alloc /\ hash[n] = {}
    /\ busy' = "collect" /\ root' = n
    /\ stack' = <<n>> /\ scan' = <<>> /\ nodes' = <<>>
    /\ UNCHANGED <<alloc, text, this, exprs, link, hash, todo>>

Visit ==
    /\ busy = "collect" /\ scan = <<>> /\ stack # <<>>
    /\ LET n == stack[Len(stack)]
       IN  nodes' = Append(nodes, n) /\ scan' = Args(n)
    /\ stack' = SubSeq(stack, 1, Len(stack) - 1)
    /\ UNCHANGED <<alloc, text, this, exprs, link, hash, busy, root, todo>>

(* Mutant of Push: a node that was collected before is not pushed again. *)
PushOnce ==
    /\ busy = "collect" /\ scan # <<>>
    /\ stack' = IF hash[Head(scan)] = {} /\ Head(scan) \notin Range(nodes)
                THEN Append(stack, Head(scan)) ELSE stack
    /\ scan' = Tail(scan)
    /\ UNCHANGED <<alloc, text, this, exprs, link, hash, busy, root, nodes, todo>>

Push ==
    /\ busy = "collect" /\ scan # <<>>
    /\ stack' = IF hash[Head(scan)] = {} THEN Append(stack, Head(scan)) ELSE stack
    /\ scan' = Tail(scan)
    /\ UNCHANGED <<alloc, text, this, exprs, link, hash, busy, root, nodes, todo>>

Collected ==
    /\ busy = "collect" /\ scan = <<>> /\ stack = <<>>
    /\ busy' = "fill"
    /\ UNCHANGED <<alloc, text, this, exprs, link, hash, root, stack, scan, nodes, todo>>

(* Mutant of Fill: the hashes are filled from the first collected on. *)
FillForwards ==
    /\ busy = "fill" /\ nodes # <<>>
    /\ hash' = [hash EXCEPT ![Head(nodes)] = {Digest(Head(nodes))}]
    /\ nodes' = Tail(nodes)
    /\ UNCHANGED <<alloc, text, this, exprs, link, busy, root, stack, scan, todo>>

Fill ==
    /\ busy = "fill" /\ nodes # <<>>
    /\ LET n == nodes[Len(nodes)]
       IN  hash' = [hash EXCEPT ![n] = {Digest(n)}]
    /\ nodes' = SubSeq(nodes, 1, Len(nodes) - 1)
    /\ UNCHANGED <<alloc, text, this, exprs, link, busy, root, stack, scan, todo>>

HashReturn ==
    /\ busy = "fill" /\ nodes = <<>>
    /\ busy' = "idle" /\ root' = Nil
    /\ UNCHANGED <<alloc, text, this, exprs, link, hash, stack, scan, nodes, todo>>

(***************************************************************************)
(* copy(): a stack of source and destination pairs; each iteration carries *)
(* the cached hash over and attaches a fresh node for every child, which   *)
(* invalidates the destination again.                                      *)
(***************************************************************************)
CopyBegin(n, d) ==
    /\ busy = "idle" /\ n \in alloc /\ d \in Node \ alloc
    /\ \A m \in Below(n) : Intact(m) /\ IsInjective(Args(m))
    /\ Cardinality(Node \ alloc) >= Cardinality(Below(n))
    /\ alloc' = alloc \cup {d}
    /\ busy' = "copy" /\ root' = d /\ todo' = << <<n, d>> >>
    /\ UNCHANGED <<text, this, exprs, link, hash, stack, scan, nodes>>

(* Mutant of CopyStep: the copied list is filled without append(). *)
CopyStepUnlinked(fresh) ==
    /\ busy = "copy" /\ todo # <<>>
    /\ LET src == todo[Len(todo)][1]
           dst == todo[Len(todo)][2]
           one == IF this[src] = Nil THEN 0 ELSE 1
       IN  /\ Len(fresh) = Len(Args(src)) /\ IsInjective(fresh)
           /\ alloc' = alloc \cup Range(fresh)
           /\ text' = [text EXCEPT ![dst] = text[src]]
           /\ this' = [this EXCEPT ![dst] = IF one = 1 THEN fresh[1] ELSE Nil]
           /\ exprs' = [exprs EXCEPT ![dst] = SubSeq(fresh, one + 1, Len(fresh))]
           /\ link' = WithThis(dst, IF one = 1 THEN fresh[1] ELSE Nil).link
           /\ hash' = [hash EXCEPT ![dst] = {}]
           /\ todo' = SubSeq(todo, 1, Len(todo) - 1)
                      \o [i \in DOMAIN fresh |-> <<Args(src)[i], fresh[i]>>]
    /\ UNCHANGED <<busy, root, stack, scan, nodes>>

CopyStep(fresh) ==
    /\ busy = "copy" /\ todo # <<>>
    /\ LET src == todo[Len(todo)][1]
           dst == todo[Len(todo)][2]
           one == IF this[src] = Nil THEN 0 ELSE 1
           xs  == SubSeq(fresh, one + 1, Len(fresh))
           h   == [hash EXCEPT ![dst] = hash[src]]
       IN  /\ Len(fresh) = Len(Args(src)) /\ IsInjective(fresh)
           /\ alloc' = alloc \cup Range(fresh)
           /\ text' = [text EXCEPT ![dst] = text[src]]
           /\ this' = [this EXCEPT ![dst] = IF one = 1 THEN fresh[1] ELSE Nil]
           /\ exprs' = [exprs EXCEPT ![dst] = xs]
           /\ link' = Relinked(dst, xs, WithThis(dst, IF one = 1 THEN fresh[1] ELSE Nil).link)
           /\ hash' = IF fresh = <<>> THEN h ELSE Invalidated(h, dst)
           /\ todo' = SubSeq(todo, 1, Len(todo) - 1)
                      \o [i \in DOMAIN fresh |-> <<Args(src)[i], fresh[i]>>]
    /\ UNCHANGED <<busy, root, stack, scan, nodes>>

CopyReturn ==
    /\ busy = "copy" /\ todo = <<>>
    /\ busy' = "idle" /\ root' = Nil
    /\ UNCHANGED <<alloc, text, this, exprs, link, hash, stack, scan, nodes, todo>>

-----------------------------------------------------------------------------
Init ==
    /\ alloc = {}
    /\ text = [n \in Node |-> Nil]
    /\ this = [n \in Node |-> Nil]
    /\ exprs = [n \in Node |-> <<>>]
    /\ link = [n \in Node |-> NoLink]
    /\ hash = [n \in Node |-> {}]
    /\ busy = "idle" /\ root = Nil
    /\ stack = <<>> /\ scan = <<>> /\ nodes = <<>> /\ todo = <<>>

Building ==
    \E n \in Node \ alloc : \E xs \in Lists(n, {}), c \in alloc \cup {Nil}, t \in Text :
        (c # Nil => MayAttach(n, c)) /\ Construct(n, t, c, xs)

Mutation ==
    \/ Building
    \/ \E n \in alloc, t \in Text : SetText(n, t)
    \/ \E n \in alloc, v \in alloc \cup {Nil} : SetThis(n, v)
    \/ \E n \in alloc : \E xs \in Lists(n, Range(exprs[n])) : SetList(n, xs)
    \/ \E n \in alloc, i \in 1..MaxLen, v \in alloc \cup {Nil}, o \in BOOLEAN : SetItem(n, i, v, o)
    \/ \E n, v \in alloc : AppendChild(n, v)
    \/ \E c, v \in alloc : Replace(c, v)
    \/ \E c \in alloc : Pop(c)
    \/ \E c \in {n \in alloc : MayReplace(n)} :
        \E vs \in UNION {[1..k -> alloc] : k \in 0..MaxLen} : ReplaceByList(c, vs)

Hashing ==
    \/ \E n \in Node : HashBegin(n)
    \/ Visit \/ Push \/ Collected \/ Fill \/ HashReturn

Copying ==
    \/ \E n, d \in Node : CopyBegin(n, d)
    \/ busy = "copy" /\ \E k \in 0..(MaxLen + 1) :
                            \E fresh \in [1..k -> Node \ alloc] : CopyStep(fresh)
    \/ CopyReturn

Next ==
    \/ busy = "idle" /\ Mutation
    \/ Hashing
    \/ Copying

Spec == Init /\ [][Next]_vars

-----------------------------------------------------------------------------
(* Every variable keeps its type, and every node that an argument or a     *)
(* work list of hash() and copy() holds has been constructed.              *)
TypeOK ==
    /\ alloc \subseteq Node
    /\ text \in [Node -> Text \cup {Nil}]
    /\ this \in [Node -> alloc \cup {Nil}]
    /\ exprs \in [Node -> Seq(alloc)]
    /\ link \in [Node -> Link]
    /\ hash = [n \in Node |-> hash[n]]
    /\ busy \in {"idle", "collect", "fill", "copy"}
    /\ root \in alloc \cup {Nil}
    /\ stack \in Seq(alloc) /\ scan \in Seq(alloc) /\ nodes \in Seq(alloc)
    /\ todo \in Seq(alloc \X alloc)

(* core.js:72-74: invalidate() may stop at the first node without a hash   *)
(* only because no hashed node holds an unhashed child that points back to *)
(* it; otherwise a stale hash would survive further up.                    *)
HashDown ==
    \A n \in Node : \A c \in Kids(n) :
        link[c].parent = n /\ hash[n] # {} => hash[c] # {}

(* core.js:217-237: whatever sequence of calls ran, the cached hash of a   *)
(* node whose children point back to it is the one the fill loop would     *)
(* compute now, so equals() never compares an outdated tree.               *)
HashCoherent ==
    \A n \in Node : hash[n] # {} /\ Intact(n) => hash[n] = {Digest(n)}

(* core.js:226-236: when the fill loop reaches a node, all its children    *)
(* have their hash, so hashValue() never starts a nested hash().           *)
FillOrder ==
    busy = "fill" /\ nodes # <<>> =>
        \A c \in Kids(nodes[Len(nodes)]) : hash[c] # {}

(* core.js:220-236: hash() leaves its receiver with a hash, the one of its *)
(* present arguments even when it holds children that point elsewhere.     *)
HashAnswers == busy = "fill" /\ nodes = <<>> => hash[root] = {Digest(root)}

(* The back link of c, when it points to n, names the one slot of n with c. *)
NamesItsSlot(c, n) ==
    \/ /\ link[c] = [parent |-> n, key |-> "this", index |-> 0]
       /\ this[n] = c /\ c \notin Range(exprs[n])
    \/ /\ link[c].key = "expressions" /\ this[n] # c
       /\ {i \in DOMAIN exprs[n] : exprs[n][i] = c} = {link[c].index}

(* core.js:252-259, 309-321: under the ownership convention, the back link *)
(* of a held child names the one slot that holds it, so that index never   *)
(* drifts from the position and a later replace() hits the right slot.     *)
LinkExact ==
    \A n \in Node : \A c \in Kids(n) : link[c].parent = n => NamesItsSlot(c, n)

(* The list ys is xs without c, the other elements in their order.         *)
LeftOut(xs, c, ys) ==
    /\ c \notin Range(xs) => ys = xs
    /\ \A i \in DOMAIN xs : xs[i] = c => ys = Spliced(xs, i, 1, <<>>)

(* core.js:309-322: under the ownership convention, pop() takes the popped *)
(* node out of whatever holds it, and leaves its siblings in their order   *)
(* and every other node alone.                                             *)
PopTakesItself ==
    [][\A c \in alloc : Pop(c) =>
          \A n \in Node : Intact(n) =>
              /\ this'[n] = (IF this[n] = c THEN Nil ELSE this[n])
              /\ LeftOut(exprs[n], c, exprs'[n])]_vars

(* The structure of the tree below a node, which has no cycle, in the form *)
(* of a hash but computed from the arguments alone.                        *)
Terms[m \in Node] ==
    {[text  |-> IF text[m] = Nil THEN Nil ELSE Fold[text[m]],
      this  |-> IF this[m] = Nil THEN {} ELSE Terms[this[m]],
      exprs |-> [i \in DOMAIN exprs[m] |-> Terms[exprs[m][i]]]]}

Sound(n) == \A m \in Below(n) : Intact(m)

(* core.js:217: equals() compares cached hashes; they tell two sound trees *)
(* apart exactly when the trees differ in structure or folded text.        *)
EqualsIsStructural ==
    LET known == {<<hash[n], Terms[n]>> : n \in {n \in alloc : hash[n] # {} /\ Sound(n)}}
    IN  \A p, q \in known : (p[1] = q[1]) = (p[2] = q[2])

(* core.js:238-251: a finished copy has the structure of its source, is    *)
(* linked exactly, shares no node with it and carries no hash that its own *)
(* arguments do not justify.                                               *)
CopyFaithful ==
    [][CopyReturn =>
        LET fresh == Below(root)
        IN  /\ \E src \in alloc \ fresh :
                Terms[src] = Terms[root] /\ Below(src) \cap fresh = {}
            /\ \A m \in fresh :
                Intact(m) /\ (hash[m] # {} => hash[m] = Terms[m])]_vars

-----------------------------------------------------------------------------
(***************************************************************************)
(* The inductive invariant behind HashCoherent, FillOrder and HashAnswers. *)
(***************************************************************************)
(* A node that does not exist yet has no hash. *)
FreshUnhashed == \A n \in Node \ alloc : hash[n] = {}

Pending(c) == \E j \in DOMAIN stack : stack[j] = c
Scanned(c) == \E j \in DOMAIN scan : scan[j] = c
Later(i, c) == \E j \in DOMAIN nodes : j > i /\ nodes[j] = c

(* While collecting, an unhashed child of a collected node comes later,    *)
(* and the receiver comes first.                                           *)
CollectInv ==
    busy = "collect" =>
        /\ root \in alloc
        /\ \A i \in DOMAIN stack : hash[stack[i]] = {}
        /\ \A i \in DOMAIN nodes :
            /\ hash[nodes[i]] = {}
            /\ \A c \in Kids(nodes[i]) : hash[c] = {} =>
                  Later(i, c) \/ Pending(c) \/ (i = Len(nodes) /\ Scanned(c))
        /\ IF nodes = <<>> THEN stack = <<root>> /\ scan = <<>> ELSE nodes[1] = root

(* While filling, an unhashed child still comes later, and a node that was *)
(* collected twice already has the hash its second turn would compute.     *)
FillInv ==
    busy = "fill" =>
        /\ root \in alloc
        /\ \A i \in DOMAIN nodes :
            /\ \A c \in Kids(nodes[i]) : hash[c] = {} => Later(i, c)
            /\ hash[nodes[i]] # {} =>
                  /\ hash[nodes[i]] = {Digest(nodes[i])}
                  /\ \A c \in Kids(nodes[i]) : hash[c] # {}
        /\ IF nodes = <<>> THEN hash[root] = {Digest(root)} ELSE nodes[1] = root

(* The destinations still on the copy stack are distinct and unhashed. *)
CopyInv ==
    busy = "copy" =>
        /\ \A i \in DOMAIN todo : hash[todo[i][2]] = {}
        /\ \A i, j \in DOMAIN todo : todo[i][2] = todo[j][2] => i = j

HashInv ==
    /\ TypeOK /\ HashDown /\ HashCoherent
    /\ FreshUnhashed /\ CollectInv /\ FillInv /\ CopyInv

(***************************************************************************)
(* The inductive invariants behind EqualsIsStructural and CopyFaithful:    *)
(* there is no cycle of children, what has not been constructed has none,  *)
(* and while copy() runs its copies stand for nodes of its source.         *)
(***************************************************************************)
Acyclic == \A S \in SUBSET Node : S # {} => \E m \in S : Kids(m) \cap S = {}

FreshBare == \A n \in Node \ alloc : Kids(n) = {}

(* A back link points to a node that exists. *)
Parented == \A c \in Node : link[c].parent \in alloc \cup {Nil}

(* d has the arguments of the node it is a copy of, copied, and holds them. *)
Stands(C, of, d) ==
    /\ text[d] = text[of[d]]
    /\ IF this[d] = Nil THEN this[of[d]] = Nil
       ELSE this[d] \in C /\ of[this[d]] = this[of[d]]
    /\ DOMAIN exprs[d] = DOMAIN exprs[of[d]]
    /\ \A i \in DOMAIN exprs[d] : exprs[d][i] \in C /\ of[exprs[d][i]] = exprs[of[d]][i]
    /\ Intact(d)

(* The copies C, each `of` a node that is no copy and holds none: a copy   *)
(* is complete unless it is still on the stack.                            *)
Mirrors(C, of) ==
    /\ root \in C
    /\ \A m \in alloc \ C : Kids(m) \cap C = {}
    /\ \A i \in DOMAIN todo : todo[i][2] \in C /\ todo[i][1] = of[todo[i][2]]
    /\ \A d \in C : (\E i \in DOMAIN todo : todo[i][2] = d) \/ Stands(C, of, d)

CopyMapped ==
    busy = "copy" => \E C \in SUBSET alloc : \E of \in [C -> alloc \ C] : Mirrors(C, of)

TreeInv == HashInv /\ Acyclic /\ FreshBare /\ Parented /\ IsFiniteSet(alloc)
=============================================================================
