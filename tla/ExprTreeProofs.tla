--------------------------- MODULE ExprTreeProofs ---------------------------
(* Proofs about ExprTree: under any sequence of calls, owned or not, on    *)
(* any set of nodes, the cached hash of a node is coherent, no cycle of    *)
(* children arises, equal hashes mean equal trees, and a finished copy has *)
(* the structure of its source.                                            *)
EXTENDS ExprTree, FiniteSetTheorems, NaturalsInduction, SequenceTheorems,
        WellFoundedInduction, TLAPS

-----------------------------------------------------------------------------
(* The walk of invalidate() starts at its argument and does not stop below *)
(* an unhashed node.                                                       *)
LEMMA ClimbClosed ==
    ASSUME NEW h, NEW n \in Node
    PROVE  /\ n \in Climb(h, n)
           /\ \A c \in Climb(h, n) :
                h[c] # {} /\ link[c].parent \in Node => link[c].parent \in Climb(h, n)
<1>1. n \in Climb(h, n)
  BY DEF Climb
<1>2. ASSUME NEW c \in Climb(h, n), h[c] # {}, link[c].parent \in Node
      PROVE  link[c].parent \in Climb(h, n)
  BY <1>2, NilAssumption DEF Climb
<1>3. QED
  BY <1>1, <1>2

(* The set of holders and hash entries after invalidate(). *)
LEMMA InvalidatedValue ==
    ASSUME NEW h, NEW n \in Node
    PROVE  /\ DOMAIN Invalidated(h, n) = Node
           /\ \A m \in Node : Invalidated(h, n)[m] =
                                 IF m \in Climb(h, n) THEN {} ELSE h[m]
BY DEF Invalidated

(* Every child of a node stands in its argument list. *)
LEMMA ArgsCoverKids ==
    ASSUME TypeOK, NEW n \in Node
    PROVE  /\ Args(n) \in Seq(alloc)
           /\ Len(Args(n)) = Len(exprs[n]) + (IF this[n] = Nil THEN 0 ELSE 1)
           /\ \A c \in Kids(n) : \E j \in DOMAIN Args(n) : Args(n)[j] = c
           /\ Kids(n) \subseteq alloc
<1>1. exprs[n] \in Seq(alloc) /\ this[n] \in alloc \cup {Nil} /\ Nil \notin alloc
  BY NilAssumption DEF TypeOK
<1>2. CASE this[n] = Nil
  <2>1. Args(n) = exprs[n] /\ Kids(n) = Range(exprs[n])
    BY <1>1, <1>2 DEF Args, Kids
  <2>2. Len(exprs[n]) \in Nat /\ Len(Args(n)) = Len(exprs[n]) + 0
    BY <1>1, <2>1
  <2>3. \A c \in Kids(n) : c \in alloc /\ \E j \in DOMAIN Args(n) : Args(n)[j] = c
    BY <1>1, <2>1 DEF Range
  <2>4. QED
    BY <1>1, <1>2, <2>1, <2>2, <2>3
<1>3. CASE this[n] # Nil
  <2>1. Args(n) = <<this[n]>> \o exprs[n] /\ Kids(n) = {this[n]} \cup Range(exprs[n])
    BY <1>3 DEF Args, Kids
  <2>2. <<this[n]>> \in Seq(alloc) /\ Len(<<this[n]>>) = 1 /\ <<this[n]>>[1] = this[n]
    BY <1>1, <1>3
  <2>3. /\ Args(n) \in Seq(alloc)
        /\ Len(Args(n)) = 1 + Len(exprs[n])
        /\ Args(n)[1] = this[n]
        /\ \A i \in 1..Len(exprs[n]) : Args(n)[i + 1] = exprs[n][i]
    <3>1. /\ Args(n) \in Seq(alloc)
          /\ Len(Args(n)) = 1 + Len(exprs[n])
          /\ \A i \in 1..(1 + Len(exprs[n])) :
                Args(n)[i] = IF i <= 1 THEN <<this[n]>>[i] ELSE exprs[n][i - 1]
      BY <1>1, <2>1, <2>2, ConcatProperties
    <3>2. Len(exprs[n]) \in Nat
      BY <1>1
    <3>3. QED
      BY <3>1, <3>2, <2>2
  <2>4. \A c \in Kids(n) : \E j \in DOMAIN Args(n) : Args(n)[j] = c
    <3>1. SUFFICES ASSUME NEW c \in Kids(n)
                   PROVE  \E j \in DOMAIN Args(n) : Args(n)[j] = c
      OBVIOUS
    <3>2. DOMAIN Args(n) = 1..(1 + Len(exprs[n])) /\ Len(exprs[n]) \in Nat
      BY <2>3, <1>1
    <3>3. CASE c = this[n]
      BY <3>2, <3>3, <2>3
    <3>4. CASE c # this[n]
      <4>1. PICK i \in DOMAIN exprs[n] : exprs[n][i] = c
        BY <2>1, <3>4 DEF Range
      <4>2. i \in 1..Len(exprs[n])
        BY <1>1, <4>1
      <4>3. i + 1 \in 1..(1 + Len(exprs[n])) /\ Args(n)[i + 1] = c
        BY <3>2, <4>1, <4>2, <2>3
      <4>4. QED
        BY <3>2, <4>3
    <3>5. QED
      BY <3>3, <3>4
  <2>5. Kids(n) \subseteq alloc
    BY <1>1, <1>3, <2>1 DEF Range
  <2>6. QED
    BY <1>1, <1>3, <2>3, <2>4, <2>5
<1>4. QED
  BY <1>2, <1>3

-----------------------------------------------------------------------------
(* What the fill loop stores in a node depends on its own arguments and on *)
(* the hashes of its children only.                                        *)
LEMMA DigestUnchanged ==
    ASSUME NEW m \in Node,
           this'[m] = this[m], exprs'[m] = exprs[m], text'[m] = text[m],
           \A c \in Kids(m) : hash'[c] = hash[c]
    PROVE  Digest(m)' = Digest(m)
<1>1. (IF this[m] = Nil THEN {} ELSE hash'[this[m]])
         = (IF this[m] = Nil THEN {} ELSE hash[this[m]])
  BY DEF Kids
<1>2. [i \in DOMAIN exprs[m] |-> hash'[exprs[m][i]]]
         = [i \in DOMAIN exprs[m] |-> hash[exprs[m][i]]]
  BY DEF Kids, Range
<1>3. Digest(m)' = [text  |-> IF text[m] = Nil THEN Nil ELSE Fold[text[m]],
                    this  |-> IF this[m] = Nil THEN {} ELSE hash'[this[m]],
                    exprs |-> [i \in DOMAIN exprs[m] |-> hash'[exprs[m][i]]]]
  BY Zenon DEF Digest
<1>4. QED
  BY <1>1, <1>2, <1>3, Zenon DEF Digest

(* The hashes of nodes stay coherent when the arguments and back links of  *)
(* one node p change, p loses its hash, and the loss climbs past every     *)
(* node that lost one.                                                     *)
LEMMA CoherentAfterWrite ==
    ASSUME TypeOK, HashDown, HashCoherent,
           NEW p \in Node,
           \A m \in Node \ {p} :
              this'[m] = this[m] /\ exprs'[m] = exprs[m] /\ text'[m] = text[m],
           \A c \in Node : link'[c].parent \in {link[c].parent, p, Nil},
           hash'[p] = {},
           \A m \in Node : hash'[m] = {} \/ hash'[m] = hash[m],
           \A c, m \in Node :
              hash[c] # {} /\ hash'[c] = {} /\ link[c].parent = m => hash'[m] = {}
    PROVE  HashDown' /\ HashCoherent'
<1>1. \A m \in Node : m # Nil
  BY NilAssumption
<1>2. \A m \in Node \ {p} : Kids(m)' = Kids(m) /\ Kids(m) \subseteq Node
  <2>1. SUFFICES ASSUME NEW m \in Node \ {p}
                 PROVE  Kids(m)' = Kids(m) /\ Kids(m) \subseteq Node
    OBVIOUS
  <2>2. Kids(m)' = Kids(m)
    BY DEF Kids
  <2>3. QED
    BY <2>2, ArgsCoverKids DEF TypeOK
<1>3. ASSUME NEW m \in Node, hash'[m] # {}, NEW c \in Kids(m)', link'[c].parent = m
      PROVE  /\ m # p /\ hash[m] # {} /\ c \in Kids(m) /\ link[c].parent = m
             /\ hash[c] # {} /\ hash'[c] = hash[c]
  <2>1. m # p /\ hash[m] # {} /\ hash'[m] = hash[m]
    BY <1>3
  <2>2. c \in Kids(m) /\ c \in Node
    BY <1>2, <1>3, <2>1
  <2>3. link[c].parent = m
    BY <1>1, <1>3, <2>1, <2>2
  <2>4. hash[c] # {}
    BY <2>1, <2>2, <2>3 DEF HashDown
  <2>5. hash'[c] # {}
    BY <1>3, <2>2, <2>3, <2>4
  <2>6. QED
    BY <2>1, <2>2, <2>3, <2>4, <2>5
<1>4. HashDown'
  BY <1>3 DEF HashDown
<1>5. ASSUME NEW m \in Node, hash'[m] # {}, Intact(m)'
      PROVE  hash'[m] = {Digest(m)'}
  <2>1. \A c \in Kids(m)' : link'[c].parent = m
    BY <1>5 DEF Intact
  <2>2. m # p /\ hash'[m] = hash[m] /\ hash[m] # {}
    BY <1>5
  <2>3. Kids(m)' = Kids(m)
    BY <1>2, <2>2
  <2>4. \A c \in Kids(m) : link[c].parent = m /\ hash'[c] = hash[c]
    BY <1>3, <1>5, <2>1, <2>3
  <2>5. hash[m] = {Digest(m)}
    BY <2>2, <2>4 DEF HashCoherent, Intact
  <2>6. Digest(m)' = Digest(m)
    BY <2>2, <2>4, DigestUnchanged
  <2>7. QED
    BY <2>2, <2>5, <2>6
<1>6. HashCoherent'
  BY <1>5 DEF HashCoherent
<1>7. QED
  BY <1>4, <1>6

(* The hashes stay coherent when one unhashed node receives the hash of    *)
(* its own arguments, all of whose nodes are hashed.                       *)
LEMMA CoherentAfterFill ==
    ASSUME TypeOK, HashDown, HashCoherent,
           NEW p \in Node,
           \A m \in Node \ {p} :
              this'[m] = this[m] /\ exprs'[m] = exprs[m] /\ text'[m] = text[m],
           \A c \in Node : link'[c].parent = link[c].parent,
           hash[p] = {}, hash'[p] = {Digest(p)'},
           \A m \in Node \ {p} : hash'[m] = hash[m],
           \A c \in Kids(p)' : hash'[c] # {}
    PROVE  HashDown' /\ HashCoherent'
<1>1. \A m \in Node \ {p} : Kids(m)' = Kids(m) /\ Kids(m) \subseteq Node
  <2>1. SUFFICES ASSUME NEW m \in Node \ {p}
                 PROVE  Kids(m)' = Kids(m) /\ Kids(m) \subseteq Node
    OBVIOUS
  <2>2. Kids(m)' = Kids(m)
    BY DEF Kids
  <2>3. QED
    BY <2>2, ArgsCoverKids DEF TypeOK
<1>2. ASSUME NEW m \in Node \ {p}, hash'[m] # {}, NEW c \in Kids(m), link'[c].parent = m
      PROVE  hash[c] # {} /\ hash'[c] = hash[c] /\ link[c].parent = m
  <2>1. c \in Node /\ link[c].parent = m
    BY <1>1, <1>2
  <2>2. hash[c] # {}
    BY <1>2, <2>1 DEF HashDown
  <2>3. QED
    BY <2>1, <2>2
<1>3. HashDown'
  BY <1>1, <1>2 DEF HashDown
<1>4. ASSUME NEW m \in Node, hash'[m] # {}, Intact(m)', m # p
      PROVE  hash'[m] = {Digest(m)'}
  <2>1. \A c \in Kids(m) : link[c].parent = m /\ hash'[c] = hash[c]
    BY <1>1, <1>2, <1>4 DEF Intact
  <2>2. hash[m] = {Digest(m)} /\ hash'[m] = hash[m]
    BY <1>4, <2>1 DEF HashCoherent, Intact
  <2>3. Digest(m)' = Digest(m)
    BY <1>4, <2>1, DigestUnchanged
  <2>4. QED
    BY <2>2, <2>3
<1>5. HashCoherent'
  BY <1>4 DEF HashCoherent
<1>6. QED
  BY <1>3, <1>5

-----------------------------------------------------------------------------
(* Splicing a list of constructed nodes gives a list of constructed nodes. *)
LEMMA SplicedType ==
    ASSUME NEW S, NEW xs \in Seq(S), NEW ys \in Seq(S), NEW i \in DOMAIN xs,
           NEW gone \in {0, 1}
    PROVE  Spliced(xs, i, gone, ys) \in Seq(S)
<1>1. Len(xs) \in Nat /\ i \in 1..Len(xs)
  OBVIOUS
<1>2. SubSeq(xs, 1, i - 1) \in Seq(S)
  <2>1. \A j \in 1..(i - 1) : xs[j] \in S
    BY <1>1
  <2>2. QED
    BY <1>1, <2>1, SubSeqProperties
<1>3. SubSeq(xs, i + gone, Len(xs)) \in Seq(S)
  <2>1. \A j \in (i + gone)..Len(xs) : xs[j] \in S
    BY <1>1
  <2>2. QED
    BY <1>1, <2>1, SubSeqProperties
<1>4. QED
  BY <1>2, <1>3, ConcatProperties DEF Spliced

(* A position is a natural number. *)
LEMMA LastIndexType ==
    ASSUME NEW xs, Len(xs) \in Nat, NEW m
    PROVE  LastIndex(xs, m) \in Nat
<1>1. IsFiniteSet(1..Len(xs))
  BY FS_Interval
<1>2. IsFiniteSet({i \in 1..Len(xs) : \E j \in i..Len(xs) : xs[j] = m})
  BY <1>1, FS_Subset
<1>3. QED
  BY <1>2, FS_CardinalityType DEF LastIndex

(* _setParent over a list changes no parent but to the node that holds it. *)
LEMMA RelinkedType ==
    ASSUME NEW n \in Node, NEW S, NEW xs \in Seq(S), NEW l \in [Node -> Link]
    PROVE  /\ Relinked(n, xs, l) \in [Node -> Link]
           /\ \A c \in Node : Relinked(n, xs, l)[c].parent \in {l[c].parent, n}
<1>1. \A c \in Node : LastIndex(xs, c) \in Nat
  BY LastIndexType
<1>2. QED
  BY <1>1 DEF Relinked, Link

(* What a form of set() may write: only the arguments of n change, to      *)
(* constructed nodes, and no back link but to n.                           *)
Written(n, w) ==
    /\ w.this \in [Node -> alloc \cup {Nil}]
    /\ w.exprs \in [Node -> Seq(alloc)]
    /\ w.link \in [Node -> Link]
    /\ \A m \in Node \ {n} : w.this[m] = this[m] /\ w.exprs[m] = exprs[m]
    /\ \A c \in Node : w.link[c].parent \in {link[c].parent, n}

LEMMA WithThisWritten ==
    ASSUME TypeOK, NEW n \in Node, NEW v \in alloc \cup {Nil}
    PROVE  Written(n, WithThis(n, v))
BY DEF Written, WithThis, TypeOK, Link

LEMMA WithListWritten ==
    ASSUME TypeOK, NEW n \in Node, NEW xs \in Seq(alloc)
    PROVE  Written(n, WithList(n, xs))
<1>1. /\ Relinked(n, xs, link) \in [Node -> Link]
      /\ \A c \in Node : Relinked(n, xs, link)[c].parent \in {link[c].parent, n}
  BY RelinkedType DEF TypeOK
<1>2. QED
  BY <1>1 DEF Written, WithList, TypeOK

LEMMA WithItemWritten ==
    ASSUME TypeOK, NEW n \in Node, NEW i, NEW v \in alloc \cup {Nil}, NEW o \in BOOLEAN
    PROVE  Written(n, WithItem(n, i, v, o))
<1>0. exprs[n] \in Seq(alloc)
  BY DEF TypeOK
<1>1. CASE i \notin DOMAIN exprs[n]
  BY <1>1 DEF WithItem, Unwritten, Written, TypeOK
<1>2. CASE i \in DOMAIN exprs[n] /\ v = Nil
  <2> DEFINE xs == Spliced(exprs[n], i, 1, <<>>)
  <2>0. <<>> \in Seq(alloc)
    OBVIOUS
  <2>1. xs \in Seq(alloc)
    BY <1>0, <1>2, <2>0, SplicedType
  <2> HIDE DEF xs
  <2>2. \A c \in Node : LastIndex(xs, c) \in Nat
    BY <2>1, LastIndexType
  <2>3. /\ Reindexed(xs, i, link) \in [Node -> Link]
        /\ \A c \in Node : Reindexed(xs, i, link)[c].parent = link[c].parent
    <3>1. \A l \in Link, k \in Nat : /\ [l EXCEPT !.index = k] \in Link
                                    /\ [l EXCEPT !.index = k].parent = l.parent
      BY DEF Link
    <3>2. link \in [Node -> Link]
      BY DEF TypeOK
    <3>3. QED
      BY <2>2, <3>1, <3>2, Zenon DEF Reindexed
  <2>4. WithItem(n, i, v, o) = [this  |-> this,
                                exprs |-> [exprs EXCEPT ![n] = xs],
                                link  |-> Reindexed(xs, i, link)]
    BY <1>2 DEF WithItem, WithRemoved, xs
  <2>5. QED
    BY <2>1, <2>3, <2>4 DEF Written, TypeOK
<1>3. CASE i \in DOMAIN exprs[n] /\ v # Nil
  <2> DEFINE xs == Spliced(exprs[n], i, IF o THEN 1 ELSE 0, <<v>>)
  <2>1. <<v>> \in Seq(alloc)
    BY <1>3
  <2>2. xs \in Seq(alloc)
    BY <1>0, <1>3, <2>1, SplicedType
  <2>3. WithItem(n, i, v, o) = WithList(n, xs)
    BY <1>3 DEF WithItem
  <2>4. QED
    BY <2>2, <2>3, WithListWritten
<1>4. QED
  BY <1>1, <1>2, <1>3

LEMMA WithSpliceWritten ==
    ASSUME TypeOK, NEW n \in Node, NEW i, NEW vs \in Seq(alloc)
    PROVE  Written(n, WithSplice(n, i, vs))
<1>0. exprs[n] \in Seq(alloc)
  BY DEF TypeOK
<1>1. CASE i \notin DOMAIN exprs[n]
  BY <1>1 DEF WithSplice, Unwritten, Written, TypeOK
<1>2. CASE i \in DOMAIN exprs[n]
  <2>1. Spliced(exprs[n], i, 1, vs) \in Seq(alloc)
    BY <1>0, <1>2, SplicedType
  <2>2. QED
    BY <1>2, <2>1, WithListWritten DEF WithSplice
<1>3. QED
  BY <1>1, <1>2

(* A mutation that invalidates n and then writes what set() may write      *)
(* keeps the invariant, whichever back links replace() clears afterwards.  *)
LEMMA CommitKeepsInv ==
    ASSUME HashInv, busy = "idle", NEW n \in Node, NEW w, NEW U,
           Written(n, w), Commit(n, w, U)
    PROVE  HashInv'
<1> USE DEF HashInv
<1>1. TypeOK'
  <2>1. link' \in [Node -> Link] /\ hash' = [m \in Node |-> hash'[m]]
    BY DEF Invalidated, Commit, Written, NoLink, Link, TypeOK
  <2>2. QED
    BY <2>1 DEF Commit, Written, TypeOK, loop
<1>2. /\ hash'[n] = {}
      /\ \A m \in Node : hash'[m] = {} \/ hash'[m] = hash[m]
  BY ClimbClosed, InvalidatedValue DEF Commit
<1>3. \A c, m \in Node :
         hash[c] # {} /\ hash'[c] = {} /\ link[c].parent = m => hash'[m] = {}
  BY ClimbClosed, InvalidatedValue DEF Commit
<1>4. \A m \in Node \ {n} : this'[m] = this[m] /\ exprs'[m] = exprs[m] /\ text'[m] = text[m]
  BY DEF Commit, Written
<1>5. \A c \in Node : link'[c].parent \in {link[c].parent, n, Nil}
  BY DEF Commit, Written, NoLink
<1>6. HashDown' /\ HashCoherent'
  BY <1>2, <1>3, <1>4, <1>5, CoherentAfterWrite
<1>7. FreshUnhashed'
  BY <1>2 DEF FreshUnhashed, Commit
<1>8. CollectInv' /\ FillInv' /\ CopyInv'
  BY DEF Commit, loop, CollectInv, FillInv, CopyInv
<1>9. QED
  BY <1>1, <1>6, <1>7, <1>8

-----------------------------------------------------------------------------
(* Clearing back links, with every argument and hash as before, keeps the  *)
(* hashes coherent.                                                        *)
LEMMA CoherentAfterUnlink ==
    ASSUME TypeOK, HashDown, HashCoherent,
           UNCHANGED <<this, exprs, text, hash>>,
           \A c \in Node : link'[c].parent \in {link[c].parent, Nil}
    PROVE  HashDown' /\ HashCoherent'
<1>1. \A m \in Node : m # Nil /\ Kids(m)' = Kids(m) /\ Kids(m) \subseteq Node
  <2>1. \A m \in Node : Kids(m)' = Kids(m)
    BY DEF Kids
  <2>2. QED
    BY <2>1, ArgsCoverKids, NilAssumption DEF TypeOK
<1>2. \A m \in Node : \A c \in Kids(m) : link'[c].parent = m => link[c].parent = m
  BY <1>1
<1>3. HashDown'
  BY <1>1, <1>2 DEF HashDown
<1>4. \A m \in Node : Intact(m)' => Intact(m)
  BY <1>1, <1>2 DEF Intact
<1>5. \A m \in Node : Digest(m)' = Digest(m)
  BY <1>1, DigestUnchanged
<1>6. HashCoherent'
  BY <1>4, <1>5 DEF HashCoherent
<1>7. QED
  BY <1>3, <1>6

(* A list taken from Lists is a list of constructed nodes. *)
LEMMA ListsType ==
    ASSUME TypeOK, NEW n, NEW kept \in SUBSET alloc, NEW xs \in Lists(n, kept)
    PROVE  xs \in Seq(alloc)
<1>1. PICK k \in 0..MaxLen : xs \in [1..k -> kept \cup {v \in alloc : MayAttach(n, v)}]
  BY DEF Lists
<1>2. xs \in [1..k -> alloc] /\ k \in Nat
  BY <1>1, BoundAssumption
<1>3. QED
  BY <1>2, SeqDef

LEMMA ConstructKeepsInv ==
    ASSUME HashInv, NEW n \in Node, NEW t \in Text, NEW c \in alloc \cup {Nil},
           NEW xs \in Seq(alloc), Construct(n, t, c, xs)
    PROVE  HashInv'
<1> USE DEF HashInv
<1> DEFINE l == WithThis(n, c).link
<1>1. l \in [Node -> Link] /\ \A m \in Node : l[m].parent \in {link[m].parent, n}
  BY WithThisWritten DEF Written
<1>2. /\ link' = Relinked(n, xs, l)
      /\ this' = [this EXCEPT ![n] = c] /\ exprs' = [exprs EXCEPT ![n] = xs]
      /\ text' = [text EXCEPT ![n] = t] /\ alloc' = alloc \cup {n}
      /\ hash' = hash /\ n \notin alloc /\ busy = "idle"
  BY DEF Construct
<1> HIDE DEF l
<1>3. link' \in [Node -> Link] /\ \A m \in Node : link'[m].parent \in {link[m].parent, n}
  <2>1. /\ link' \in [Node -> Link]
        /\ \A m \in Node : link'[m].parent \in {l[m].parent, n}
    BY <1>1, <1>2, RelinkedType
  <2>2. QED
    BY <1>1, <2>1
<1>4. Seq(alloc) \subseteq Seq(alloc')
  BY <1>2, SeqMonotonic
<1>5. TypeOK'
  <2>1. exprs' \in [Node -> Seq(alloc')]
    BY <1>2, <1>4 DEF TypeOK
  <2>2. this' \in [Node -> alloc' \cup {Nil}] /\ text' \in [Node -> Text \cup {Nil}]
    BY <1>2 DEF TypeOK
  <2>3. stack' \in Seq(alloc') /\ scan' \in Seq(alloc') /\ nodes' \in Seq(alloc')
    BY <1>4 DEF TypeOK, Construct, loop
  <2>4. todo' \in Seq(alloc' \X alloc')
    <3>1. alloc \X alloc \subseteq alloc' \X alloc'
      BY <1>2
    <3>2. Seq(alloc \X alloc) \subseteq Seq(alloc' \X alloc')
      BY <3>1, SeqMonotonic
    <3>3. todo' = todo
      BY DEF Construct, loop
    <3>4. QED
      BY <3>2, <3>3 DEF TypeOK
  <2>5. alloc' \subseteq Node /\ hash' = [m \in Node |-> hash'[m]] /\ busy' = busy /\ root' = root
    BY <1>2 DEF Construct, loop, TypeOK
  <2>6. QED
    BY <1>2, <1>3, <2>1, <2>2, <2>3, <2>4, <2>5 DEF TypeOK
<1>6. HashDown' /\ HashCoherent'
  <2>1. hash'[n] = {}
    BY <1>2 DEF FreshUnhashed
  <2>2. \A m \in Node \ {n} :
           this'[m] = this[m] /\ exprs'[m] = exprs[m] /\ text'[m] = text[m]
    BY <1>2 DEF TypeOK
  <2>3. \A m \in Node : link'[m].parent \in {link[m].parent, n, Nil}
    BY <1>3
  <2>4. QED
    BY <1>2, <2>1, <2>2, <2>3, CoherentAfterWrite
<1>7. FreshUnhashed' /\ CollectInv' /\ FillInv' /\ CopyInv'
  BY <1>2 DEF FreshUnhashed, CollectInv, FillInv, CopyInv, Construct, loop
<1>8. QED
  BY <1>5, <1>6, <1>7

LEMMA TextWriteKeepsInv ==
    ASSUME HashInv, busy = "idle", NEW n \in Node, NEW t \in Text \cup {Nil},
           hash' = Invalidated(hash, n), text' = [text EXCEPT ![n] = t],
           UNCHANGED <<alloc, this, exprs, link, loop>>
    PROVE  HashInv'
<1> USE DEF HashInv
<1>1. TypeOK'
  BY DEF Invalidated, TypeOK, loop
<1>2. HashDown' /\ HashCoherent'
  <2>1. /\ hash'[n] = {}
        /\ \A m \in Node : hash'[m] = {} \/ hash'[m] = hash[m]
        /\ \A c, m \in Node :
              hash[c] # {} /\ hash'[c] = {} /\ link[c].parent = m => hash'[m] = {}
    BY ClimbClosed, InvalidatedValue
  <2>2. \A m \in Node \ {n} :
           this'[m] = this[m] /\ exprs'[m] = exprs[m] /\ text'[m] = text[m]
    BY DEF TypeOK
  <2>3. \A m \in Node : link'[m].parent \in {link[m].parent, n, Nil}
    OBVIOUS
  <2>4. QED
    BY <2>1, <2>2, <2>3, CoherentAfterWrite
<1>3. FreshUnhashed' /\ CollectInv' /\ FillInv' /\ CopyInv'
  BY InvalidatedValue DEF FreshUnhashed, CollectInv, FillInv, CopyInv, loop
<1>4. QED
  BY <1>1, <1>2, <1>3

LEMMA SetTextKeepsInv ==
    ASSUME HashInv, NEW n \in Node, NEW t \in Text, SetText(n, t)
    PROVE  HashInv'
BY TextWriteKeepsInv DEF SetText

LEMMA AppendKeepsInv ==
    ASSUME HashInv, NEW n \in Node, NEW v \in alloc, AppendChild(n, v)
    PROVE  HashInv'
<1> DEFINE w == [this  |-> this,
                 exprs |-> [exprs EXCEPT ![n] = Append(@, v)],
                 link  |-> [link EXCEPT ![v] = [parent |-> n, key |-> "expressions",
                                                index |-> Len(exprs[n]) + 1]]]
<1>1. TypeOK /\ v \in Node /\ exprs[n] \in Seq(alloc) /\ Len(exprs[n]) + 1 \in Nat
  BY DEF HashInv, TypeOK
<1>2. Append(exprs[n], v) \in Seq(alloc)
  BY <1>1
<1>3. Written(n, w)
  BY <1>1, <1>2 DEF Written, TypeOK, Link
<1>4. busy = "idle" /\ Commit(n, w, {})
  BY DEF AppendChild
<1>5. QED
  BY <1>3, <1>4, CommitKeepsInv

LEMMA ReplaceKeepsInv ==
    ASSUME HashInv, NEW c \in alloc, NEW v \in alloc \cup {Nil}, Replace(c, v)
    PROVE  HashInv'
<1>1. TypeOK /\ link[c].parent \in Node /\ busy = "idle"
  BY DEF HashInv, TypeOK, Link, Replace, MayReplace
<1>2. Written(link[c].parent, WithThis(link[c].parent, v))
  BY <1>1, WithThisWritten
<1>3. Written(link[c].parent, WithItem(link[c].parent, link[c].index, v, TRUE))
  BY <1>1, WithItemWritten
<1>4. QED
  BY <1>1, <1>2, <1>3, CommitKeepsInv DEF Replace

LEMMA ReplaceByListKeepsInv ==
    ASSUME HashInv, NEW c \in alloc, NEW vs, ReplaceByList(c, vs)
    PROVE  HashInv'
<1> USE DEF HashInv
<1>1. PICK top \in Spine(c) :
        /\ link[top].key # "this"
        /\ IF link[top].key = "expressions"
           THEN /\ vs \in Lists(link[top].parent, {})
                /\ Commit(link[top].parent,
                          WithSplice(link[top].parent, link[top].index, vs), Spine(c))
           ELSE /\ link' = [m \in Node |-> IF m \in Spine(c) THEN NoLink ELSE link[m]]
                /\ UNCHANGED <<alloc, text, this, exprs, hash>>
                /\ UNCHANGED loop
  BY DEF ReplaceByList
<1>2. busy = "idle"
  BY DEF ReplaceByList
<1>3. CASE link[top].key = "expressions" /\ link[top].parent \in Node
  <2>1. vs \in Seq(alloc)
    BY <1>1, <1>3, ListsType
  <2>2. Written(link[top].parent, WithSplice(link[top].parent, link[top].index, vs))
    BY <1>3, <2>1, WithSpliceWritten
  <2>3. QED
    BY <1>1, <1>2, <1>3, <2>2, CommitKeepsInv
<1>4. CASE link[top].key # "expressions"
  <2>1. /\ link' = [m \in Node |-> IF m \in Spine(c) THEN NoLink ELSE link[m]]
        /\ UNCHANGED <<alloc, text, this, exprs, hash, loop>>
    BY <1>1, <1>4
  <2>2. TypeOK'
    BY <2>1 DEF TypeOK, NoLink, Link, loop
  <2>3. HashDown' /\ HashCoherent'
    BY <2>1, CoherentAfterUnlink DEF NoLink
  <2>4. FreshUnhashed' /\ CollectInv' /\ FillInv' /\ CopyInv'
    BY <1>2, <2>1 DEF FreshUnhashed, CollectInv, FillInv, CopyInv, loop
  <2>5. QED
    BY <2>2, <2>3, <2>4
<1>5. link[top] \in Link
  BY DEF Spine, TypeOK
<1>6. QED
  BY <1>3, <1>4, <1>5 DEF Link

-----------------------------------------------------------------------------
(* A step of a loop that leaves the tree and the hashes alone. *)
LEMMA QuietStep ==
    ASSUME HashInv, UNCHANGED <<alloc, text, this, exprs, link, hash>>
    PROVE  /\ HashDown' /\ HashCoherent' /\ FreshUnhashed'
           /\ \A n \in Node : Kids(n)' = Kids(n) /\ Digest(n)' = Digest(n)
<1> USE DEF HashInv
<1>1. \A n \in Node : Kids(n)' = Kids(n)
  BY DEF Kids
<1>2. \A n \in Node : Digest(n)' = Digest(n)
  BY <1>1, DigestUnchanged
<1>3. \A n \in Node : Intact(n)' = Intact(n)
  BY <1>1 DEF Intact
<1>4. QED
  BY <1>1, <1>2, <1>3 DEF HashDown, HashCoherent, FreshUnhashed

(* Popping the last element of a non-empty sequence. *)
LEMMA DroppedLast ==
    ASSUME NEW S, NEW s \in Seq(S), s # <<>>
    PROVE  /\ SubSeq(s, 1, Len(s) - 1) \in Seq(S)
           /\ Len(s) \in Nat \ {0} /\ DOMAIN s = 1..Len(s) /\ s[Len(s)] \in S
           /\ DOMAIN SubSeq(s, 1, Len(s) - 1) = 1..(Len(s) - 1)
           /\ Len(SubSeq(s, 1, Len(s) - 1)) = Len(s) - 1
           /\ \A i \in 1..(Len(s) - 1) : SubSeq(s, 1, Len(s) - 1)[i] = s[i]
           /\ SubSeq(s, 1, Len(s) - 1) = <<>> <=> Len(s) = 1
<1>1. Len(s) \in Nat \ {0} /\ Len(s) - 1 \in Nat /\ DOMAIN s = 1..Len(s)
  BY EmptySeq
<1>2. \A i \in 1..(Len(s) - 1) : s[i] \in S
  BY <1>1
<1>3. /\ SubSeq(s, 1, Len(s) - 1) \in Seq(S)
      /\ Len(SubSeq(s, 1, Len(s) - 1)) = Len(s) - 1
      /\ \A i \in 1..(Len(s) - 1) : SubSeq(s, 1, Len(s) - 1)[i] = s[i]
  BY <1>1, <1>2, SubSeqProperties
<1>4. s[Len(s)] \in S
  BY <1>1
<1>5. DOMAIN SubSeq(s, 1, Len(s) - 1) = 1..(Len(s) - 1)
  BY <1>3, LenProperties
<1>6. SubSeq(s, 1, Len(s) - 1) = <<>> <=> Len(s) = 1
  <2>1. Len(<<>>) = 0
    BY EmptySeq
  <2>2. ASSUME NEW r \in Seq(S), Len(r) = 0
        PROVE  r = <<>>
    <3>1. r # <<>> => Len(r) \in Nat \ {0}
      BY EmptySeq
    <3>2. QED
      BY <2>2, <3>1
  <2>3. Len(s) = 1 => SubSeq(s, 1, Len(s) - 1) = <<>>
    BY <1>1, <1>3, <2>2
  <2>4. SubSeq(s, 1, Len(s) - 1) = <<>> => Len(s) - 1 = 0
    BY <1>3, <2>1, Zenon
  <2>5. QED
    BY <1>1, <2>3, <2>4
<1>7. QED
  BY <1>1, <1>3, <1>4, <1>5, <1>6

LEMMA HashBeginKeepsInv ==
    ASSUME HashInv, NEW n \in Node, HashBegin(n)
    PROVE  HashInv'
<1>1. TypeOK'
  BY DEF HashInv, TypeOK, HashBegin
<1>2. HashDown' /\ HashCoherent' /\ FreshUnhashed'
  BY QuietStep DEF HashBegin
<1>3. CollectInv'
  BY DEF HashBegin, CollectInv
<1>4. FillInv' /\ CopyInv'
  BY DEF HashBegin, FillInv, CopyInv
<1>5. QED
  BY <1>1, <1>2, <1>3, <1>4 DEF HashInv

LEMMA VisitKeepsInv ==
    ASSUME HashInv, Visit
    PROVE  HashInv'
<1> DEFINE n == stack[Len(stack)]
<1>1. /\ TypeOK /\ CollectInv /\ busy = "collect" /\ busy' = "collect"
      /\ stack \in Seq(alloc) /\ stack # <<>> /\ scan = <<>> /\ nodes \in Seq(alloc)
      /\ Len(nodes) \in Nat /\ Len(stack) \in Nat
  BY DEF HashInv, Visit, TypeOK
<1>2. /\ n \in alloc /\ n \in Node
      /\ stack' \in Seq(alloc) /\ DOMAIN stack' = 1..(Len(stack) - 1)
      /\ DOMAIN stack = 1..Len(stack)
      /\ \A i \in 1..(Len(stack) - 1) : stack'[i] = stack[i]
      /\ Len(stack) \in Nat \ {0}
  BY <1>1, DroppedLast DEF Visit, TypeOK
<1>3. /\ nodes' \in Seq(alloc) /\ Len(nodes') = Len(nodes) + 1
      /\ DOMAIN nodes' = 1..(Len(nodes) + 1) /\ DOMAIN nodes = 1..Len(nodes)
      /\ nodes'[Len(nodes) + 1] = n
      /\ \A i \in 1..Len(nodes) : nodes'[i] = nodes[i]
      /\ nodes' # <<>>
  <2>1. nodes' = Append(nodes, n)
    BY DEF Visit
  <2>2. QED
    BY <1>1, <1>2, <2>1, AppendProperties
<1>4. /\ scan' = Args(n) /\ scan' \in Seq(alloc)
      /\ \A c \in Kids(n) : \E j \in DOMAIN scan' : scan'[j] = c
  BY <1>1, <1>2, ArgsCoverKids DEF Visit
<1>5. TypeOK'
  BY <1>1, <1>2, <1>3, <1>4 DEF TypeOK, Visit
<1>6. /\ HashDown' /\ HashCoherent' /\ FreshUnhashed'
      /\ \A m \in Node : Kids(m)' = Kids(m)
  BY QuietStep DEF Visit
<1>7. CollectInv'
  <2>1. hash' = hash /\ root' = root /\ alloc' = alloc
    BY DEF Visit
  <2>2. root' \in alloc' /\ \A i \in DOMAIN stack' : hash'[stack'[i]] = {}
    BY <1>1, <1>2, <2>1 DEF CollectInv
  <2>3. ASSUME NEW i \in DOMAIN nodes'
        PROVE  /\ hash'[nodes'[i]] = {}
               /\ \A c \in Kids(nodes[i])' : hash'[c] = {} =>
                     Later(i, c)' \/ Pending(c)' \/ (i = Len(nodes') /\ Scanned(c)')
    <3>1. CASE i = Len(nodes) + 1
      <4>1. nodes'[i] = n /\ Kids(nodes[i])' = Kids(n) /\ hash[n] = {}
        <5>1. nodes'[i] = n
          BY <1>3, <3>1
        <5>2. hash[n] = {}
          BY <1>1, <1>2 DEF CollectInv
        <5>3. QED
          BY <5>1, <5>2 DEF Kids, Visit
      <4>2. \A c \in Kids(n) : Scanned(c)'
        BY <1>4 DEF Scanned
      <4>3. QED
        BY <1>3, <2>1, <3>1, <4>1, <4>2
    <3>2. CASE i \in 1..Len(nodes)
      <4>1. nodes'[i] = nodes[i] /\ i \in DOMAIN nodes /\ nodes[i] \in Node
        BY <1>1, <1>3, <3>2 DEF TypeOK
      <4>2. hash[nodes[i]] = {} /\ Kids(nodes[i])' = Kids(nodes[i])
        <5>1. hash[nodes[i]] = {}
          BY <1>1, <4>1 DEF CollectInv
        <5>2. QED
          BY <4>1, <5>1 DEF Kids, Visit
      <4>3. ASSUME NEW c \in Kids(nodes[i]), hash[c] = {}
            PROVE  Later(i, c)' \/ Pending(c)'
        <5>1. Later(i, c) \/ Pending(c)
          BY <1>1, <4>1, <4>3 DEF CollectInv, Scanned
        <5>2. Later(i, c) => Later(i, c)'
          BY <1>3 DEF Later
        <5>3. ASSUME Pending(c), c # n
              PROVE  Pending(c)'
          <6>1. PICK j \in DOMAIN stack : stack[j] = c
            BY <5>3 DEF Pending
          <6>2. j \in 1..(Len(stack) - 1)
            BY <1>2, <5>3, <6>1
          <6>3. QED
            BY <1>2, <6>1, <6>2 DEF Pending
        <5>4. c = n => Later(i, c)'
          BY <1>1, <1>3, <3>2 DEF Later
        <5>5. QED
          BY <5>1, <5>2, <5>3, <5>4
      <4>4. QED
        BY <2>1, <4>1, <4>2, <4>3
    <3>3. QED
      BY <1>1, <1>3, <3>1, <3>2
  <2>4. nodes'[1] = root'
    <3>1. CASE nodes = <<>>
      <4>1. stack = <<root>>
        BY <1>1, <3>1 DEF CollectInv
      <4>2. Len(stack) = 1 /\ Len(nodes) = 0 /\ stack[1] = root
        BY <3>1, <4>1
      <4>3. nodes'[Len(nodes) + 1] = stack[Len(stack)]
        BY <1>3
      <4>4. QED
        BY <4>2, <4>3, <2>1
    <3>2. CASE nodes # <<>>
      <4>1. 1 \in 1..Len(nodes)
        BY <1>1, <3>2, EmptySeq
      <4>2. QED
        BY <1>1, <1>3, <2>1, <3>2, <4>1 DEF CollectInv
    <3>3. QED
      BY <3>1, <3>2
  <2>5. QED
    BY <1>3, <2>2, <2>3, <2>4 DEF CollectInv
<1>8. FillInv' /\ CopyInv'
  BY <1>1 DEF FillInv, CopyInv
<1>9. QED
  BY <1>5, <1>6, <1>7, <1>8 DEF HashInv

LEMMA PushKeepsInv ==
    ASSUME HashInv, Push
    PROVE  HashInv'
<1>1. /\ TypeOK /\ CollectInv /\ busy = "collect" /\ busy' = "collect"
      /\ stack \in Seq(alloc) /\ scan \in Seq(alloc) /\ scan # <<>>
      /\ nodes' = nodes /\ hash' = hash /\ root' = root /\ alloc' = alloc
  BY DEF HashInv, Push, TypeOK
<1>2. /\ Head(scan) \in alloc /\ scan' \in Seq(alloc) /\ Head(scan) = scan[1]
      /\ DOMAIN scan = 1..Len(scan) /\ DOMAIN scan' = 1..(Len(scan) - 1)
      /\ Len(scan) \in Nat
      /\ \A i \in 1..(Len(scan) - 1) : scan'[i] = scan[i + 1]
  BY <1>1, HeadTailProperties, LenProperties DEF Push
<1>3. /\ stack' \in Seq(alloc)
      /\ \A c : Pending(c) => Pending(c)'
      /\ hash[Head(scan)] = {} => \E j \in DOMAIN stack' : stack'[j] = Head(scan)
      /\ \A j \in DOMAIN stack' : hash[stack'[j]] = {}
  <2>1. CASE hash[Head(scan)] = {}
    <3>1. stack' = Append(stack, Head(scan))
      BY <2>1 DEF Push
    <3>2. /\ stack' \in Seq(alloc) /\ DOMAIN stack = 1..Len(stack) /\ Len(stack) \in Nat
          /\ DOMAIN stack' = 1..(Len(stack) + 1)
          /\ \A j \in 1..Len(stack) : stack'[j] = stack[j]
          /\ stack'[Len(stack) + 1] = Head(scan)
      BY <1>1, <1>2, <3>1, AppendProperties, LenProperties
    <3>3. QED
      BY <1>1, <2>1, <3>2 DEF Pending, CollectInv
  <2>2. CASE hash[Head(scan)] # {}
    BY <1>1, <2>2 DEF Push, Pending, CollectInv
  <2>3. QED
    BY <2>1, <2>2
<1>4. TypeOK'
  BY <1>1, <1>2, <1>3 DEF TypeOK, Push
<1>5. HashDown' /\ HashCoherent' /\ FreshUnhashed'
  BY QuietStep DEF Push
<1>6. CollectInv'
  <2>1. ASSUME NEW i \in DOMAIN nodes'
        PROVE  /\ hash'[nodes'[i]] = {}
               /\ \A c \in Kids(nodes[i])' : hash'[c] = {} =>
                     Later(i, c)' \/ Pending(c)' \/ (i = Len(nodes') /\ Scanned(c)')
    <3>1. Kids(nodes[i])' = Kids(nodes[i])
      BY <1>1 DEF Kids, Push
    <3>2. ASSUME NEW c \in Kids(nodes[i]), hash[c] = {}
          PROVE  Later(i, c)' \/ Pending(c)' \/ (i = Len(nodes') /\ Scanned(c)')
      <4>1. Later(i, c) \/ Pending(c) \/ (i = Len(nodes) /\ Scanned(c))
        BY <1>1, <3>2 DEF CollectInv
      <4>2. Later(i, c) => Later(i, c)'
        BY <1>1 DEF Later
      <4>3. ASSUME Scanned(c)
            PROVE  Pending(c)' \/ Scanned(c)'
        <5>1. PICK j \in 1..Len(scan) : scan[j] = c
          BY <1>2, <4>3 DEF Scanned
        <5>2. CASE j = 1
          BY <1>2, <1>3, <3>2, <5>1, <5>2 DEF Pending
        <5>3. CASE j # 1
          <6>1. j - 1 \in 1..(Len(scan) - 1) /\ scan'[j - 1] = c
            <7>1. j - 1 \in 1..(Len(scan) - 1) /\ (j - 1) + 1 = j
              BY <1>2, <5>1, <5>3
            <7>2. QED
              BY <1>2, <5>1, <7>1
          <6>2. QED
            BY <1>2, <6>1 DEF Scanned
        <5>4. QED
          BY <5>2, <5>3
      <4>4. QED
        BY <1>1, <1>3, <4>1, <4>2, <4>3
    <3>3. QED
      BY <1>1, <3>1, <3>2 DEF CollectInv
  <2>2. nodes' # <<>> /\ nodes'[1] = root'
    BY <1>1 DEF CollectInv
  <2>3. QED
    BY <1>1, <1>3, <2>1, <2>2 DEF CollectInv
<1>7. FillInv' /\ CopyInv'
  BY <1>1 DEF FillInv, CopyInv
<1>8. QED
  BY <1>4, <1>5, <1>6, <1>7 DEF HashInv

LEMMA CollectedKeepsInv ==
    ASSUME HashInv, Collected
    PROVE  HashInv'
<1>1. TypeOK'
  BY DEF HashInv, TypeOK, Collected
<1>2. HashDown' /\ HashCoherent' /\ FreshUnhashed'
  BY QuietStep DEF Collected
<1>3. /\ TypeOK /\ CollectInv /\ busy = "collect" /\ busy' = "fill"
      /\ stack = <<>> /\ scan = <<>> /\ nodes' = nodes /\ hash' = hash
      /\ root' = root /\ alloc' = alloc
  BY DEF HashInv, Collected
<1>4. nodes # <<>> /\ nodes[1] = root /\ root \in alloc
  BY <1>3 DEF CollectInv
<1>5. ASSUME NEW i \in DOMAIN nodes
      PROVE  /\ \A c \in Kids(nodes[i])' : hash'[c] = {} => Later(i, c)'
             /\ hash'[nodes[i]] = {}
  <2>1. Kids(nodes[i])' = Kids(nodes[i])
    BY DEF Kids, Collected
  <2>2. \A c \in Kids(nodes[i]) : hash[c] = {} => Later(i, c)
    BY <1>3 DEF CollectInv, Pending, Scanned
  <2>3. \A c : Later(i, c) => Later(i, c)'
    BY <1>3 DEF Later
  <2>4. QED
    BY <1>3, <2>1, <2>2, <2>3 DEF CollectInv
<1>6. FillInv'
  BY <1>3, <1>4, <1>5 DEF FillInv
<1>7. CollectInv' /\ CopyInv'
  BY <1>3 DEF CollectInv, CopyInv
<1>8. QED
  BY <1>1, <1>2, <1>6, <1>7 DEF HashInv

LEMMA FillKeepsInv ==
    ASSUME HashInv, Fill
    PROVE  HashInv'
<1>0. PICK n : n = nodes[Len(nodes)]
  OBVIOUS
<1>1. /\ TypeOK /\ FillInv /\ busy = "fill" /\ busy' = "fill" /\ nodes # <<>>
      /\ nodes \in Seq(alloc) /\ alloc \subseteq Node /\ DOMAIN hash = Node
      /\ this' = this /\ exprs' = exprs /\ text' = text /\ link' = link
      /\ root' = root /\ alloc' = alloc /\ hash' = [hash EXCEPT ![n] = {Digest(n)}]
  <2>1. DOMAIN hash = Node
    BY DEF HashInv, TypeOK
  <2>2. QED
    BY <1>0, <2>1 DEF HashInv, Fill, TypeOK
<1>2. /\ nodes' \in Seq(alloc) /\ Len(nodes) \in Nat \ {0} /\ n \in alloc
      /\ DOMAIN nodes = 1..Len(nodes) /\ DOMAIN nodes' = 1..(Len(nodes) - 1)
      /\ \A i \in 1..(Len(nodes) - 1) : nodes'[i] = nodes[i]
      /\ nodes' = <<>> <=> Len(nodes) = 1
  BY <1>0, <1>1, DroppedLast DEF Fill
<1>3. \A c \in Kids(n) : hash[c] # {}
  BY <1>0, <1>1, <1>2 DEF FillInv, Later
<1>4. /\ hash'[n] = {Digest(n)}
      /\ \A m \in Node \ {n} : hash'[m] = hash[m]
      /\ hash[n] # {} => hash'[n] = hash[n]
  <2>1. hash[n] # {} => hash[n] = {Digest(n)}
    BY <1>0, <1>1, <1>2 DEF FillInv
  <2>2. QED
    BY <1>1, <1>2, <2>1
<1>5. \A m \in Node : Kids(m)' = Kids(m) /\ Kids(m) \subseteq Node
  <2>1. \A m \in Node : Kids(m)' = Kids(m)
    BY <1>1 DEF Kids
  <2>2. QED
    BY <1>1, <2>1, ArgsCoverKids
<1>6. ASSUME NEW m \in Node, \A c \in Kids(m) : hash[c] # {}
      PROVE  Digest(m)' = Digest(m) /\ \A c \in Kids(m) : hash'[c] # {}
  <2>1. \A c \in Kids(m) : hash'[c] = hash[c]
    BY <1>4, <1>5, <1>6
  <2>2. QED
    BY <1>1, <1>6, <2>1, DigestUnchanged
<1>7. Digest(n)' = Digest(n) /\ \A c \in Kids(n) : hash'[c] # {}
  BY <1>1, <1>2, <1>3, <1>6
<1>8. TypeOK'
  BY <1>1, <1>2 DEF TypeOK, Fill
<1>9. HashDown' /\ HashCoherent'
  <2>1. CASE hash[n] = {}
    BY <1>1, <1>2, <1>4, <1>5, <1>7, <2>1, CoherentAfterFill DEF HashInv
  <2>2. CASE hash[n] # {}
    <3>1. hash' = hash
      <4>1. hash'[n] = hash[n] /\ DOMAIN hash' = DOMAIN hash
        BY <1>1, <1>4, <2>2
      <4>2. hash[n] = {Digest(n)}
        BY <1>4, <4>1
      <4>3. hash' = [m \in Node |-> hash[m]]
        BY <1>1, <4>2
      <4>4. QED
        BY <4>3, Zenon DEF HashInv, TypeOK
    <3>2. QED
      BY <1>1, <3>1, QuietStep
  <2>3. QED
    BY <2>1, <2>2
<1>10. FreshUnhashed'
  BY <1>1, <1>2, <1>4 DEF HashInv, FreshUnhashed
<1>11. FillInv'
  <2>1. ASSUME NEW i \in DOMAIN nodes'
        PROVE  /\ \A c \in Kids(nodes[i])' : hash'[c] = {} => Later(i, c)'
               /\ hash'[nodes'[i]] # {} =>
                     /\ hash'[nodes'[i]] = {Digest(nodes[i])'}
                     /\ \A c \in Kids(nodes[i])' : hash'[c] # {}
    <3>1. /\ i \in DOMAIN nodes /\ nodes'[i] = nodes[i]
          /\ nodes[i] \in Node /\ i \in 1..(Len(nodes) - 1)
      BY <1>1, <1>2
    <3>2. Kids(nodes[i])' = Kids(nodes[i])
      BY <1>1, <3>1 DEF Kids
    <3>3. ASSUME NEW c \in Kids(nodes[i]), hash'[c] = {}
          PROVE  Later(i, c)'
      <4>1. c \in Node /\ c # n /\ hash[c] = {}
        BY <1>4, <1>5, <3>1, <3>3
      <4>2. PICK j \in DOMAIN nodes : j > i /\ nodes[j] = c
        BY <1>1, <3>1, <4>1 DEF FillInv, Later
      <4>3. j \in 1..(Len(nodes) - 1)
        BY <1>2, <4>1, <4>2, <1>0
      <4>4. QED
        BY <1>2, <4>2, <4>3 DEF Later
    <3>5. ASSUME NEW m \in Node, m = nodes[i]
          PROVE  Digest(nodes[i])' = Digest(m)'
      <4>1. nodes'[i] = m
        BY <3>1, <3>5
      <4>2. QED
        BY <4>1, Zenon DEF Digest
    <3>6. ASSUME hash'[nodes[i]] # {}
          PROVE  /\ hash'[nodes[i]] = {Digest(nodes[i])'}
                 /\ \A c \in Kids(nodes[i]) : hash'[c] # {}
      <4>1. PICK m \in Node : m = nodes[i]
        BY <3>1
      <4>2. CASE m = n
        BY <1>4, <1>7, <3>5, <4>1, <4>2
      <4>3. CASE m # n
        <5>1. hash'[m] = hash[m] /\ hash[m] # {}
          BY <1>4, <3>6, <4>1, <4>3
        <5>2. hash[m] = {Digest(m)} /\ \A c \in Kids(m) : hash[c] # {}
          BY <1>1, <3>1, <4>1, <5>1 DEF FillInv
        <5>3. Digest(m)' = Digest(m) /\ \A c \in Kids(m) : hash'[c] # {}
          BY <1>6, <5>2
        <5>4. Digest(nodes[i])' = Digest(m)'
          BY <3>5, <4>1
        <5>5. QED
          BY <4>1, <5>1, <5>2, <5>3, <5>4
      <4>4. QED
        BY <4>2, <4>3
    <3>7. QED
      BY <3>1, <3>2, <3>3, <3>6
  <2>2. root' \in alloc'
    BY <1>1 DEF FillInv
  <2>3. CASE nodes' = <<>>
    <3>1. root' = n
      BY <1>0, <1>1, <1>2, <2>3 DEF FillInv
    <3>2. Digest(root)' = Digest(n)'
      BY <3>1, Zenon DEF Digest
    <3>3. hash'[root'] = {Digest(root)'}
      BY <1>4, <1>7, <3>1, <3>2
    <3>4. QED
      BY <2>1, <2>2, <2>3, <3>3 DEF FillInv
  <2>4. CASE nodes' # <<>>
    <3>1. nodes'[1] = nodes[1] /\ nodes[1] = root
      BY <1>1, <1>2, <2>4 DEF FillInv
    <3>2. QED
      BY <1>1, <2>1, <2>2, <2>4, <3>1 DEF FillInv
  <2>5. QED
    BY <2>3, <2>4
<1>12. CollectInv' /\ CopyInv'
  BY <1>1 DEF CollectInv, CopyInv
<1>13. QED
  BY <1>8, <1>9, <1>10, <1>11, <1>12 DEF HashInv

LEMMA HashReturnKeepsInv ==
    ASSUME HashInv, HashReturn
    PROVE  HashInv'
<1>1. TypeOK'
  BY DEF HashInv, TypeOK, HashReturn
<1>2. HashDown' /\ HashCoherent' /\ FreshUnhashed'
  BY QuietStep DEF HashReturn
<1>3. CollectInv' /\ FillInv' /\ CopyInv'
  BY DEF HashReturn, CollectInv, FillInv, CopyInv
<1>4. QED
  BY <1>1, <1>2, <1>3 DEF HashInv

-----------------------------------------------------------------------------
(* The type of the work lists survives the construction of more nodes. *)
LEMMA SeqsGrow ==
    ASSUME NEW A, NEW B, A \subseteq B
    PROVE  Seq(A) \subseteq Seq(B) /\ Seq(A \X A) \subseteq Seq(B \X B)
<1>1. A \X A \subseteq B \X B
  OBVIOUS
<1>2. QED
  BY <1>1, SeqMonotonic

LEMMA CopyBeginKeepsInv ==
    ASSUME HashInv, NEW n \in Node, NEW d \in Node, CopyBegin(n, d)
    PROVE  HashInv'
<1>1. /\ TypeOK /\ busy = "idle" /\ n \in alloc /\ d \in Node \ alloc
      /\ alloc' = alloc \cup {d} /\ busy' = "copy" /\ root' = d
      /\ todo' = << <<n, d>> >>
      /\ UNCHANGED <<text, this, exprs, link, hash, stack, scan, nodes>>
  BY DEF HashInv, CopyBegin
<1>2. Seq(alloc) \subseteq Seq(alloc')
  BY <1>1, SeqsGrow
<1>3. TypeOK'
  <2>1. /\ exprs' \in [Node -> Seq(alloc')] /\ this' \in [Node -> alloc' \cup {Nil}]
        /\ stack' \in Seq(alloc') /\ scan' \in Seq(alloc') /\ nodes' \in Seq(alloc')
    BY <1>1, <1>2 DEF TypeOK
  <2>2. todo' \in Seq(alloc' \X alloc')
    BY <1>1
  <2>3. QED
    BY <1>1, <2>1, <2>2 DEF TypeOK
<1>4. HashDown' /\ HashCoherent'
  BY <1>1, CoherentAfterUnlink DEF HashInv
<1>5. FreshUnhashed' /\ CopyInv'
  BY <1>1 DEF HashInv, FreshUnhashed, CopyInv
<1>6. CollectInv' /\ FillInv'
  BY <1>1 DEF CollectInv, FillInv
<1>7. QED
  BY <1>3, <1>4, <1>5, <1>6 DEF HashInv

LEMMA CopyStepKeepsInv ==
    ASSUME HashInv, NEW k \in 0..(MaxLen + 1),
           NEW fresh \in [1..k -> Node \ alloc], CopyStep(fresh)
    PROVE  HashInv'
<1>1. PICK src, dst, one, xs, h :
        /\ src = todo[Len(todo)][1] /\ dst = todo[Len(todo)][2]
        /\ one = (IF this[src] = Nil THEN 0 ELSE 1)
        /\ xs = SubSeq(fresh, one + 1, Len(fresh))
        /\ h = [hash EXCEPT ![dst] = hash[src]]
  OBVIOUS
<1> DEFINE f == IF one = 1 THEN fresh[1] ELSE Nil
<1>2. /\ TypeOK /\ CopyInv /\ FreshUnhashed /\ busy = "copy" /\ busy' = "copy" /\ todo # <<>>
      /\ todo \in Seq(alloc \X alloc) /\ alloc \subseteq Node
      /\ Len(fresh) = Len(Args(src)) /\ IsInjective(fresh)
      /\ alloc' = alloc \cup Range(fresh)
      /\ text' = [text EXCEPT ![dst] = text[src]]
      /\ this' = [this EXCEPT ![dst] = f] /\ exprs' = [exprs EXCEPT ![dst] = xs]
      /\ link' = Relinked(dst, xs, WithThis(dst, f).link)
      /\ hash' = (IF fresh = <<>> THEN h ELSE Invalidated(h, dst))
      /\ todo' = SubSeq(todo, 1, Len(todo) - 1)
                  \o [i \in DOMAIN fresh |-> <<Args(src)[i], fresh[i]>>]
      /\ UNCHANGED <<busy, root, stack, scan, nodes>>
  BY <1>1 DEF HashInv, CopyStep, TypeOK
<1>3. /\ Len(todo) \in Nat \ {0} /\ DOMAIN todo = 1..Len(todo)
      /\ SubSeq(todo, 1, Len(todo) - 1) \in Seq(alloc \X alloc)
      /\ Len(SubSeq(todo, 1, Len(todo) - 1)) = Len(todo) - 1
      /\ \A i \in 1..(Len(todo) - 1) : SubSeq(todo, 1, Len(todo) - 1)[i] = todo[i]
      /\ todo[Len(todo)] \in alloc \X alloc
  BY <1>2, DroppedLast
<1>4. src \in alloc /\ dst \in alloc /\ src \in Node /\ dst \in Node /\ hash[dst] = {}
  <2>1. src \in alloc /\ dst \in alloc
    BY <1>1, <1>3
  <2>2. Len(todo) \in DOMAIN todo
    BY <1>3
  <2>3. QED
    BY <1>1, <1>2, <2>1, <2>2 DEF CopyInv
<1>5. /\ k \in Nat /\ DOMAIN fresh = 1..k /\ Len(fresh) = k
      /\ fresh \in Seq(alloc') /\ fresh \in Seq(Node)
      /\ Range(fresh) \subseteq Node /\ Range(fresh) \cap alloc = {}
  <2>1. k \in Nat /\ fresh \in [1..k -> Range(fresh)]
    BY BoundAssumption DEF Range
  <2>2. fresh \in [1..k -> alloc'] /\ fresh \in [1..k -> Node]
    BY <1>2, <2>1
  <2>3. fresh \in Seq(alloc') /\ fresh \in Seq(Node)
    BY <2>1, <2>2, SeqDef
  <2>4. Len(fresh) = k
    BY <2>1, <2>3, LenProperties
  <2>5. QED
    BY <2>1, <2>3, <2>4 DEF Range
<1>6. /\ Args(src) \in Seq(alloc)
      /\ Len(Args(src)) = Len(exprs[src]) + (IF this[src] = Nil THEN 0 ELSE 1)
      /\ Len(exprs[src]) \in Nat /\ DOMAIN Args(src) = 1..k
  <2>1. /\ Args(src) \in Seq(alloc)
        /\ Len(Args(src)) = Len(exprs[src]) + (IF this[src] = Nil THEN 0 ELSE 1)
    BY <1>2, <1>4, ArgsCoverKids
  <2>2. QED
    BY <1>2, <1>4, <1>5, <2>1, LenProperties DEF TypeOK
<1>7. f \in alloc' \cup {Nil} /\ f \in Node \cup {Nil} /\ (f # Nil => f \notin alloc)
  <2>1. CASE this[src] = Nil
    BY <1>1, <2>1
  <2>2. CASE this[src] # Nil
    <3>1. 1 \in 1..k /\ one = 1
      BY <1>1, <1>2, <1>5, <1>6, <2>2
    <3>2. QED
      BY <1>2, <1>5, <3>1 DEF Range
  <2>3. QED
    BY <2>1, <2>2
<1>8. xs \in Seq(alloc') /\ xs \in Seq(Node)
  <2>1. one \in {0, 1}
    BY <1>1
  <2>2. \A i \in (one + 1)..Len(fresh) : fresh[i] \in alloc' /\ fresh[i] \in Node
    BY <1>2, <1>5, <2>1 DEF Range
  <2>3. one + 1 \in Int /\ Len(fresh) \in Int
    BY <1>5, <2>1
  <2>4. QED
    BY <1>1, <2>2, <2>3, SubSeqProperties
<1> HIDE DEF f
<1>9. link' \in [Node -> Link] /\ \A c \in Node : link'[c].parent \in {link[c].parent, dst}
  <2>1. /\ WithThis(dst, f).link \in [Node -> Link]
        /\ \A c \in Node : WithThis(dst, f).link[c].parent \in {link[c].parent, dst}
    BY <1>2, <1>4, <1>7 DEF WithThis, TypeOK, Link
  <2>2. /\ link' \in [Node -> Link]
        /\ \A c \in Node : link'[c].parent \in {WithThis(dst, f).link[c].parent, dst}
    BY <1>2, <1>4, <1>8, <2>1, RelinkedType
  <2>3. QED
    BY <2>1, <2>2
<1>10. Seq(alloc) \subseteq Seq(alloc') /\ Seq(alloc \X alloc) \subseteq Seq(alloc' \X alloc')
  <2>1. alloc \subseteq alloc'
    BY <1>2
  <2>2. QED
    BY <2>1, SeqsGrow
<1>11. /\ todo' \in Seq(alloc' \X alloc')
       /\ DOMAIN todo' = 1..(Len(todo) - 1 + k)
       /\ \A i \in 1..(Len(todo) - 1) : todo'[i] = todo[i]
       /\ \A i \in 1..k : todo'[Len(todo) - 1 + i] = <<Args(src)[i], fresh[i]>>
  <2> DEFINE a == SubSeq(todo, 1, Len(todo) - 1)
             b == [i \in DOMAIN fresh |-> <<Args(src)[i], fresh[i]>>]
  <2>1. a \in Seq(alloc' \X alloc') /\ Len(a) = Len(todo) - 1
    BY <1>3, <1>10, LenProperties
  <2>2. b \in [1..k -> alloc' \X alloc']
    <3>1. \A i \in 1..k : Args(src)[i] \in alloc'
      <4>1. \A i \in DOMAIN Args(src) : Args(src)[i] \in alloc
        <5>1. \A s \in Seq(alloc) : \A i \in DOMAIN s : s[i] \in alloc
          OBVIOUS
        <5>2. QED
          BY <1>6, <5>1, Zenon
      <4>2. QED
        BY <1>2, <1>6, <4>1
    <3>2. \A i \in 1..k : fresh[i] \in alloc'
      BY <1>2, <1>5 DEF Range
    <3>3. QED
      BY <1>5, <3>1, <3>2
  <2>3. b \in Seq(alloc' \X alloc') /\ Len(b) = k
    <3>1. b \in Seq(alloc' \X alloc')
      BY <1>5, <2>2, SeqDef
    <3>2. DOMAIN b = 1..k /\ DOMAIN b = 1..Len(b) /\ Len(b) \in Nat
      BY <2>2, <3>1, LenProperties
    <3>3. QED
      BY <1>5, <3>1, <3>2
  <2>4. todo' = a \o b
    BY <1>2
  <2>5. \A i \in 1..k : b[i] = <<Args(src)[i], fresh[i]>>
    BY <1>5
  <2>6. \A i \in 1..(Len(todo) - 1) : a[i] = todo[i]
    BY <1>3
  <2> HIDE DEF a, b
  <2>7. /\ todo' \in Seq(alloc' \X alloc')
        /\ Len(todo') = Len(a) + Len(b)
        /\ \A i \in 1..(Len(a) + Len(b)) :
              todo'[i] = IF i <= Len(a) THEN a[i] ELSE b[i - Len(a)]
    BY <2>1, <2>3, <2>4, ConcatProperties
  <2>8. DOMAIN todo' = 1..(Len(todo) - 1 + k)
    BY <2>1, <2>3, <2>7, LenProperties
  <2>9. \A i \in 1..(Len(todo) - 1) : todo'[i] = todo[i]
    <3>1. SUFFICES ASSUME NEW i \in 1..(Len(todo) - 1)
                   PROVE  todo'[i] = a[i]
      BY <2>6
    <3>2. i \in 1..(Len(a) + Len(b)) /\ i <= Len(a)
      BY <1>3, <1>5, <2>1, <2>3
    <3>3. QED
      BY <2>7, <3>2
  <2>10. \A i \in 1..k : todo'[Len(todo) - 1 + i] = <<Args(src)[i], fresh[i]>>
    <3>1. SUFFICES ASSUME NEW i \in 1..k
                   PROVE  todo'[Len(todo) - 1 + i] = b[i]
      BY <2>5
    <3>2. /\ Len(a) + i \in 1..(Len(a) + Len(b)) /\ ~(Len(a) + i <= Len(a))
          /\ (Len(a) + i) - Len(a) = i
      BY <1>3, <1>5, <2>1, <2>3
    <3>3. QED
      BY <2>1, <2>7, <3>2
  <2>11. QED
    BY <2>7, <2>8, <2>9, <2>10
<1>12. /\ hash' = [m \in Node |-> hash'[m]]
       /\ \A m \in Node \ {dst} : hash'[m] = {} \/ hash'[m] = hash[m]
  <2>1. h = [m \in Node |-> h[m]] /\ \A m \in Node \ {dst} : h[m] = hash[m]
    <3>1. hash = [m \in Node |-> hash[m]]
      BY <1>2 DEF TypeOK
    <3>2. h = [m \in Node |-> IF m = dst THEN hash[src] ELSE hash[m]]
      BY <1>1, <1>4, <3>1
    <3>3. QED
      BY <3>2
  <2>2. QED
    BY <1>2, <1>4, <2>1, InvalidatedValue DEF Invalidated
<1>13. TypeOK'
  <2>1. alloc' \subseteq Node /\ root' \in alloc' \cup {Nil}
    BY <1>2, <1>5 DEF TypeOK
  <2>2. this' \in [Node -> alloc' \cup {Nil}]
    BY <1>2, <1>7 DEF TypeOK
  <2>3. exprs' \in [Node -> Seq(alloc')]
    BY <1>2, <1>8, <1>10 DEF TypeOK
  <2>4. text' \in [Node -> Text \cup {Nil}]
    BY <1>2, <1>4 DEF TypeOK
  <2>5. stack' \in Seq(alloc') /\ scan' \in Seq(alloc') /\ nodes' \in Seq(alloc')
    BY <1>2, <1>10 DEF TypeOK
  <2>6. QED
    BY <1>2, <1>9, <1>11, <1>12, <2>1, <2>2, <2>3, <2>4, <2>5 DEF TypeOK
<1>14. \A m \in Node \ {dst} :
          this'[m] = this[m] /\ exprs'[m] = exprs[m] /\ text'[m] = text[m]
  BY <1>2, <1>4 DEF TypeOK
<1>15. HashDown' /\ HashCoherent'
  <2>1. CASE fresh # <<>>
    <3>1. hash'[dst] = {}
      BY <1>2, <1>4, <2>1, ClimbClosed, InvalidatedValue
    <3>2. ASSUME NEW c \in Node, NEW m \in Node,
                 hash[c] # {}, hash'[c] = {}, link[c].parent = m
          PROVE  hash'[m] = {}
      <4>1. c # dst /\ h[c] = hash[c]
        BY <1>1, <1>2, <1>4, <3>2
      <4>2. c \in Climb(h, dst)
        BY <1>2, <1>4, <2>1, <3>2, <4>1, InvalidatedValue
      <4>3. m \in Climb(h, dst)
        BY <1>4, <3>2, <4>1, <4>2, ClimbClosed
      <4>4. QED
        BY <1>2, <1>4, <2>1, <4>3, InvalidatedValue
    <3>3. \A m \in Node : hash'[m] = {} \/ hash'[m] = hash[m]
      BY <1>12, <3>1
    <3>4. \A c \in Node : link'[c].parent \in {link[c].parent, dst, Nil}
      BY <1>9
    <3>5. QED
      BY <1>2, <1>4, <1>14, <3>1, <3>2, <3>3, <3>4, CoherentAfterWrite DEF HashInv
  <2>2. CASE fresh = <<>>
    <3>1. k = 0 /\ this[src] = Nil /\ exprs[src] = <<>>
      <4>1. k = 0
        BY <1>5, <2>2
      <4>2. this[src] = Nil /\ Len(exprs[src]) = 0
        <5>1. Len(exprs[src]) + (IF this[src] = Nil THEN 0 ELSE 1) = 0
          BY <1>2, <1>5, <1>6, <4>1
        <5>2. Len(exprs[src]) \in Nat
          BY <1>6
        <5>3. this[src] = Nil
          <6>1. SUFFICES ASSUME this[src] # Nil PROVE FALSE
            OBVIOUS
          <6>2. (IF this[src] = Nil THEN 0 ELSE 1) = 1
            BY <6>1, Zenon
          <6>3. Len(exprs[src]) + 1 = 0
            BY <5>1, <6>2, Zenon
          <6>4. \A L \in Nat : L + 1 # 0
            OBVIOUS
          <6>5. QED
            BY <5>2, <6>3, <6>4, Zenon
        <5>4. QED
          BY <5>1, <5>2, <5>3
      <4>3. exprs[src] \in Seq(alloc)
        BY <1>2, <1>4 DEF TypeOK
      <4>4. exprs[src] # <<>> => Len(exprs[src]) \in Nat \ {0}
        BY <4>3, EmptySeq
      <4>5. QED
        BY <4>1, <4>2, <4>4
    <3>2. f = Nil /\ xs = <<>>
      <4>1. one = 0
        BY <1>1, <3>1
      <4>2. f = Nil
        BY <4>1 DEF f
      <4>3. xs = <<>>
        BY <1>1, <1>5, <3>1, <4>1, SubSeqEmpty
      <4>4. QED
        BY <4>2, <4>3
    <3>3. this'[dst] = Nil /\ exprs'[dst] = <<>> /\ text'[dst] = text[src]
      BY <1>2, <1>4, <3>2 DEF TypeOK
    <3>4. Kids(dst)' = {} /\ Kids(src) = {}
      BY <3>1, <3>3 DEF Kids, Range
    <3>5. hash'[dst] = hash[src]
      <4>1. DOMAIN hash = Node
        BY <1>2 DEF TypeOK
      <4>2. QED
        BY <1>1, <1>2, <1>4, <2>2, <4>1
    <3>6. Digest(dst)' = Digest(src)
      <4>1. [i \in DOMAIN <<>> |-> hash'[exprs'[dst][i]]] = [i \in DOMAIN <<>> |-> hash[exprs[src][i]]]
        OBVIOUS
      <4>2. Digest(dst)' = [text  |-> IF text[src] = Nil THEN Nil ELSE Fold[text[src]],
                            this  |-> {},
                            exprs |-> [i \in DOMAIN <<>> |-> hash'[exprs'[dst][i]]]]
        BY <3>3 DEF Digest
      <4>3. Digest(src) = [text  |-> IF text[src] = Nil THEN Nil ELSE Fold[text[src]],
                           this  |-> {},
                           exprs |-> [i \in DOMAIN <<>> |-> hash[exprs[src][i]]]]
        BY <3>1 DEF Digest
      <4>4. QED
        BY <4>1, <4>2, <4>3
    <3>7. \A m \in Node \ {dst} : hash'[m] = hash[m]
      <4>1. hash' = [hash EXCEPT ![dst] = hash[src]]
        BY <1>1, <1>2, <2>2
      <4>2. hash = [m \in Node |-> hash[m]]
        BY <1>2 DEF TypeOK
      <4>3. QED
        BY <4>1, <4>2
    <3>8. \A c \in Node : link'[c].parent = link[c].parent
      <4>1. WithThis(dst, f).link = link
        BY <3>2 DEF WithThis
      <4>2. Range(<<>>) = {}
        BY DEF Range
      <4>3. link' = [m \in Node |-> link[m]]
        BY <1>2, <3>2, <4>1, <4>2 DEF Relinked
      <4>4. QED
        BY <4>3
    <3>9. CASE hash[src] = {}
      <4>1. hash'[dst] = {} /\ \A m \in Node : hash'[m] = hash[m]
        BY <1>4, <3>5, <3>7, <3>9
      <4>2. \A c \in Node : link'[c].parent \in {link[c].parent, dst, Nil}
        BY <3>8
      <4>3. QED
        BY <1>2, <1>4, <1>14, <4>1, <4>2, CoherentAfterWrite DEF HashInv
    <3>10. CASE hash[src] # {}
      <4>1. hash[src] = {Digest(src)}
        BY <1>4, <3>4, <3>10 DEF HashInv, HashCoherent, Intact
      <4>2. hash'[dst] = {Digest(dst)'}
        BY <3>5, <3>6, <4>1
      <4>3. QED
        BY <1>2, <1>4, <1>14, <3>4, <3>7, <3>8, <4>2, CoherentAfterFill DEF HashInv
    <3>11. QED
      BY <3>9, <3>10
  <2>3. QED
    BY <2>1, <2>2
<1>16. FreshUnhashed'
  BY <1>2, <1>4, <1>12 DEF FreshUnhashed
<1>17. CopyInv'
  <2>0. Len(todo) \in Nat \ {0} /\ DOMAIN todo = 1..Len(todo)
    BY <1>3
  <2>1. PICK K \in Nat : K = Len(todo) - 1 /\ Len(todo) = K + 1
    <3>1. \A L \in Nat \ {0} : \E K \in Nat : K = L - 1 /\ L = K + 1
      <4>1. \A L \in Nat \ {0} : L - 1 \in Nat /\ L = (L - 1) + 1
        OBVIOUS
      <4>2. QED
        BY <4>1
    <3>2. QED
      BY <2>0, <3>1, Zenon
  <2>2. \A i \in 1..K : i \in DOMAIN todo /\ Len(todo) \in DOMAIN todo /\ i # Len(todo)
    <3>1. \A i \in 1..K : i \in 1..(K + 1) /\ K + 1 \in 1..(K + 1) /\ i # K + 1
      OBVIOUS
    <3>2. DOMAIN todo = 1..(K + 1)
      BY <2>0, <2>1, Zenon
    <3>3. QED
      BY <2>1, <3>1, <3>2, Zenon
  <2>3. \A i \in 1..K : todo[i][2] \in alloc /\ todo[i][2] # dst /\ hash[todo[i][2]] = {}
    <3>1. \A i \in DOMAIN todo : todo[i] \in alloc \X alloc
      BY <1>2
    <3>2. \A i \in DOMAIN todo : todo[i][2] \in alloc
      BY <3>1
    <3>3. QED
      BY <1>1, <1>2, <2>2, <3>2 DEF CopyInv
  <2>4. \A i \in 1..K :
           todo'[i][2] = todo[i][2] /\ todo'[i][2] \in alloc /\ hash'[todo'[i][2]] = {}
    <3>1. \A i \in 1..K : todo'[i] = todo[i]
      BY <1>11, <2>1
    <3>2. \A m \in alloc : m # dst => hash'[m] = {} \/ hash'[m] = hash[m]
      BY <1>2, <1>12
    <3>3. QED
      BY <2>3, <3>1, <3>2
  <2>5. \A i \in 1..k : /\ todo'[K + i][2] = fresh[i] /\ fresh[i] \notin alloc
                        /\ hash'[fresh[i]] = {}
    <3>1. \A i \in 1..k : todo'[K + i][2] = fresh[i]
      BY <1>11, <2>1
    <3>2. \A i \in 1..k : fresh[i] \in Node \ alloc /\ fresh[i] # dst
      BY <1>4, <1>5
    <3>3. \A i \in 1..k : hash'[fresh[i]] = {}
      BY <1>2, <1>12, <3>2 DEF FreshUnhashed
    <3>4. QED
      BY <3>1, <3>2, <3>3
  <2>6. \A i \in DOMAIN todo' : i \in 1..K \/ \E x \in 1..k : i = K + x
    <3>1. DOMAIN todo' = 1..(K + k)
      BY <1>11, <2>1
    <3>2. \A i \in 1..(K + k) : i \in 1..K \/ (i - K \in 1..k /\ i = K + (i - K))
      BY <1>5, <2>1
    <3>3. QED
      BY <3>1, <3>2
  <2>7. \A i \in DOMAIN todo' : hash'[todo'[i][2]] = {}
    <3>1. SUFFICES ASSUME NEW i \in DOMAIN todo' PROVE hash'[todo'[i][2]] = {}
      OBVIOUS
    <3>2. CASE i \in 1..K
      BY <2>4, <3>2, Zenon
    <3>3. ASSUME NEW x \in 1..k, i = K + x PROVE hash'[todo'[i][2]] = {}
      <4>1. todo'[i][2] = fresh[x] /\ hash'[fresh[x]] = {}
        BY <2>5, <3>3, Zenon
      <4>2. QED
        BY <4>1, Zenon
    <3>4. QED
      BY <2>6, <3>2, <3>3, Zenon
  <2>8. ASSUME NEW i \in DOMAIN todo', NEW j \in DOMAIN todo', todo'[i][2] = todo'[j][2]
        PROVE  i = j
    <3>1. CASE i \in 1..K /\ j \in 1..K
      <4>1. todo[i][2] = todo[j][2] /\ i \in DOMAIN todo /\ j \in DOMAIN todo
        BY <2>2, <2>4, <2>8, <3>1
      <4>2. QED
        BY <1>2, <4>1 DEF CopyInv
    <3>2. ASSUME i \in 1..K, NEW x \in 1..k, j = K + x
          PROVE  i = j
      <4>1. todo'[i][2] \in alloc /\ todo'[j][2] = fresh[x] /\ fresh[x] \notin alloc
        BY <2>4, <2>5, <3>2, Zenon
      <4>2. QED
        BY <2>8, <4>1, Zenon
    <3>3. ASSUME j \in 1..K, NEW x \in 1..k, i = K + x
          PROVE  i = j
      <4>1. todo'[j][2] \in alloc /\ todo'[i][2] = fresh[x] /\ fresh[x] \notin alloc
        BY <2>4, <2>5, <3>3, Zenon
      <4>2. QED
        BY <2>8, <4>1, Zenon
    <3>4. ASSUME NEW x \in 1..k, NEW y \in 1..k, i = K + x, j = K + y
          PROVE  i = j
      <4>1. fresh[x] = fresh[y]
        BY <2>5, <2>8, <3>4
      <4>2. x = y
        BY <1>2, <1>5, <4>1 DEF IsInjective
      <4>3. QED
        BY <3>4, <4>2
    <3>5. QED
      BY <2>6, <3>1, <3>2, <3>3, <3>4
  <2>9. QED
    BY <2>7, <2>8 DEF CopyInv
<1>18. CollectInv' /\ FillInv'
  BY <1>2 DEF CollectInv, FillInv
<1>19. QED
  BY <1>13, <1>15, <1>16, <1>17, <1>18 DEF HashInv

-----------------------------------------------------------------------------
LEMMA CopyReturnKeepsInv ==
    ASSUME HashInv, CopyReturn
    PROVE  HashInv'
<1>1. TypeOK'
  BY DEF HashInv, TypeOK, CopyReturn
<1>2. HashDown' /\ HashCoherent' /\ FreshUnhashed'
  BY QuietStep DEF CopyReturn
<1>3. CollectInv' /\ FillInv' /\ CopyInv'
  BY DEF CopyReturn, CollectInv, FillInv, CopyInv
<1>4. QED
  BY <1>1, <1>2, <1>3 DEF HashInv

LEMMA StutterKeepsInv ==
    ASSUME HashInv, UNCHANGED vars
    PROVE  HashInv'
<1>1. TypeOK'
  BY DEF HashInv, TypeOK, vars
<1>2. HashDown' /\ HashCoherent' /\ FreshUnhashed'
  BY QuietStep DEF vars
<1>3. \A n \in Node : Kids(n)' = Kids(n) /\ Digest(n)' = Digest(n)
  BY QuietStep DEF vars
<1>4. /\ UNCHANGED <<alloc, hash, busy, root, stack, scan, nodes, todo>>
      /\ CollectInv /\ FillInv /\ CopyInv /\ nodes \in Seq(alloc) /\ alloc \subseteq Node
  BY DEF HashInv, TypeOK, vars
<1>5. \A i \in DOMAIN nodes : nodes[i] \in Node
  BY <1>4
<1>6. CollectInv'
  BY <1>3, <1>4, <1>5 DEF CollectInv, Later, Pending, Scanned
<1>7. FillInv'
  BY <1>3, <1>4, <1>5 DEF FillInv, Later
<1>8. CopyInv'
  BY <1>4 DEF CopyInv
<1>9. QED
  BY <1>1, <1>2, <1>6, <1>7, <1>8 DEF HashInv

LEMMA InitMakesInv == Init => HashInv
<1> SUFFICES ASSUME Init
             PROVE  HashInv
  OBVIOUS
<1>1. TypeOK
  <2>1. /\ text = [n \in Node |-> Nil] /\ this = [n \in Node |-> Nil]
        /\ exprs = [n \in Node |-> <<>>] /\ link = [n \in Node |-> NoLink]
        /\ hash = [n \in Node |-> {}] /\ alloc = {} /\ busy = "idle" /\ root = Nil
        /\ stack = <<>> /\ scan = <<>> /\ nodes = <<>> /\ todo = <<>>
    BY DEF Init
  <2>2. NoLink \in Link
    BY DEF NoLink, Link
  <2>3. <<>> \in Seq(alloc) /\ <<>> \in Seq(alloc \X alloc)
    OBVIOUS
  <2>4. hash = [n \in Node |-> hash[n]]
    BY <2>1
  <2>5. QED
    BY <2>1, <2>2, <2>3, <2>4 DEF TypeOK
<1>2. \A n \in Node : hash[n] = {}
  BY DEF Init
<1>3. busy = "idle"
  BY DEF Init
<1>4. HashDown /\ HashCoherent /\ FreshUnhashed
  BY <1>2 DEF HashDown, HashCoherent, FreshUnhashed
<1>5. QED
  BY <1>1, <1>3, <1>4 DEF HashInv, CollectInv, FillInv, CopyInv

LEMMA MutationKeepsInv ==
    ASSUME HashInv, busy = "idle", Mutation
    PROVE  HashInv'
<1>0. TypeOK /\ \A n \in alloc : n \in Node
  BY DEF HashInv, TypeOK
<1>1. ASSUME NEW n \in Node \ alloc, NEW xs \in Lists(n, {}), NEW c \in alloc \cup {Nil},
             NEW t \in Text, Construct(n, t, c, xs)
      PROVE  HashInv'
  <2>1. n \in Node /\ xs \in Seq(alloc)
    BY <1>0, ListsType
  <2>2. QED
    BY <1>1, <2>1, ConstructKeepsInv
<1>2. ASSUME NEW n \in alloc, NEW t \in Text, SetText(n, t)
      PROVE  HashInv'
  BY <1>0, <1>2, SetTextKeepsInv
<1>3. ASSUME NEW n \in alloc, NEW v \in alloc \cup {Nil}, SetThis(n, v)
      PROVE  HashInv'
  <2>1. n \in Node /\ Written(n, WithThis(n, v))
    BY <1>0, WithThisWritten
  <2>2. Commit(n, WithThis(n, v), {})
    BY <1>3 DEF SetThis
  <2>3. QED
    BY <2>1, <2>2, CommitKeepsInv
<1>4. ASSUME NEW n \in alloc, NEW xs \in Lists(n, Range(exprs[n])), SetList(n, xs)
      PROVE  HashInv'
  <2>0. n \in Node /\ Range(exprs[n]) \subseteq alloc
    BY <1>0 DEF TypeOK, Range
  <2>1. n \in Node /\ xs \in Seq(alloc)
    BY <1>0, <2>0, ListsType
  <2>2. Written(n, WithList(n, xs))
    BY <1>0, <2>1, WithListWritten
  <2>3. Commit(n, WithList(n, xs), {})
    BY <1>4 DEF SetList
  <2>4. QED
    BY <2>1, <2>2, <2>3, CommitKeepsInv
<1>5. ASSUME NEW n \in alloc, NEW i \in 1..MaxLen, NEW v \in alloc \cup {Nil},
             NEW o \in BOOLEAN, SetItem(n, i, v, o)
      PROVE  HashInv'
  <2>1. n \in Node /\ Written(n, WithItem(n, i, v, o))
    BY <1>0, WithItemWritten
  <2>2. Commit(n, WithItem(n, i, v, o), {})
    BY <1>5 DEF SetItem
  <2>3. QED
    BY <2>1, <2>2, CommitKeepsInv
<1>6. ASSUME NEW n \in alloc, NEW v \in alloc, AppendChild(n, v)
      PROVE  HashInv'
  BY <1>0, <1>6, AppendKeepsInv
<1>7. ASSUME NEW c \in alloc, NEW v \in alloc, Replace(c, v)
      PROVE  HashInv'
  BY <1>7, ReplaceKeepsInv
<1>8. ASSUME NEW c \in alloc, Pop(c)
      PROVE  HashInv'
  BY <1>8, ReplaceKeepsInv DEF Pop
<1>9. ASSUME NEW c \in alloc, NEW vs, ReplaceByList(c, vs)
      PROVE  HashInv'
  BY <1>9, ReplaceByListKeepsInv
<1>10. QED
  BY <1>1, <1>2, <1>3, <1>4, <1>5, <1>6, <1>7, <1>8, <1>9 DEF Mutation, Building

LEMMA NextKeepsInv == HashInv /\ [Next]_vars => HashInv'
<1> SUFFICES ASSUME HashInv, [Next]_vars
             PROVE  HashInv'
  OBVIOUS
<1>1. CASE busy = "idle" /\ Mutation
  BY <1>1, MutationKeepsInv
<1>2. CASE Hashing
  BY <1>2, HashBeginKeepsInv, VisitKeepsInv, PushKeepsInv, CollectedKeepsInv,
     FillKeepsInv, HashReturnKeepsInv DEF Hashing
<1>3. CASE Copying
  BY <1>3, CopyBeginKeepsInv, CopyStepKeepsInv, CopyReturnKeepsInv DEF Copying
<1>4. CASE UNCHANGED vars
  BY <1>4, StutterKeepsInv
<1>5. QED
  BY <1>1, <1>2, <1>3, <1>4 DEF Next

-----------------------------------------------------------------------------
(* core.js:72-322: no sequence of mutations, hash() and copy() calls, by a *)
(* caller that shares nodes freely or not, leaves the inductive invariant. *)
THEOREM HashInvariant == Spec => []HashInv
BY InitMakesInv, NextKeepsInv, PTL DEF Spec

(* Every variable of the expression tree keeps its type. *)
THEOREM TypeCorrect == Spec => []TypeOK
<1>1. HashInv => TypeOK
  BY DEF HashInv
<1>2. QED
  BY <1>1, HashInvariant, PTL

(* core.js:217-237: equals() never compares an outdated hash of a node     *)
(* whose children point back to it.                                        *)
THEOREM HashesAreCoherent == Spec => []HashCoherent
<1>1. HashInv => HashCoherent
  BY DEF HashInv
<1>2. QED
  BY <1>1, HashInvariant, PTL

(* core.js:226-236: the fill loop meets a node after all of its children,  *)
(* whatever the order and the sharing of the collected nodes.              *)
THEOREM FillMeetsChildrenFirst == Spec => []FillOrder
<1>1. ASSUME HashInv, busy = "fill", nodes # <<>>, NEW c \in Kids(nodes[Len(nodes)])
      PROVE  hash[c] # {}
  <2>1. nodes \in Seq(alloc)
    BY <1>1 DEF HashInv, TypeOK
  <2>2. Len(nodes) \in DOMAIN nodes /\ ~ \E j \in DOMAIN nodes : j > Len(nodes)
    BY <1>1, <2>1
  <2>3. hash[c] = {} => Later(Len(nodes), c)
    BY <1>1, <2>2 DEF HashInv, FillInv
  <2>4. QED
    BY <2>2, <2>3 DEF Later
<1>2. HashInv => FillOrder
  BY <1>1 DEF FillOrder
<1>3. QED
  BY <1>2, HashInvariant, PTL

(* core.js:220-236: hash() returns the hash of its receiver's arguments as *)
(* they stand, even when the receiver holds nodes that point elsewhere.    *)
THEOREM HashAnswersItsReceiver == Spec => []HashAnswers
<1>1. HashInv => HashAnswers
  BY DEF HashInv, FillInv, HashAnswers
<1>2. QED
  BY <1>1, HashInvariant, PTL

-----------------------------------------------------------------------------
(* Induction, over a set instead of a predicate: what holds of 0 and goes  *)
(* from i - 1 to i holds up to n.                                          *)
LEMMA InductionUpTo ==
  ASSUME NEW n \in Nat, NEW S, 0 \in S, \A i \in 1 .. n : i - 1 \in S => i \in S
  PROVE  0 .. n \subseteq S
<1> DEFINE R == {ss \in Nat \X Nat : ss[1] < ss[2]}
           T == (0 .. n) \ S
<1>1. IsWellFoundedOn(R, Nat)
  <2>1. R = OpToRel(<, Nat)
    BY Zenon DEF OpToRel
  <2>2. IsWellFoundedOn(OpToRel(<, Nat), Nat)
    BY NatLessThanWellFounded, Zenon
  <2> QED BY <2>1, <2>2, Zenon
<1>2. \A x, y \in Nat : <<y, x>> \in R <=> y < x
  OBVIOUS
<1>3. T \subseteq Nat
  OBVIOUS
<1> HIDE DEF R, T
<1>4. ASSUME T # {} PROVE FALSE
  <2>1. PICK x \in T : \A y \in T : ~(<<y, x>> \in R)
    BY <1>1, <1>3, <1>4, WFMin
  <2>2. \A y \in T : ~(y < x)
    BY <1>2, <1>3, <2>1
  <2>3. x \in 0 .. n /\ x \notin S
    BY DEF T
  <2>4. x \in 1 .. n /\ x - 1 \in 0 .. n /\ x - 1 < x
    BY <2>3
  <2>5. x - 1 \in S
    BY <2>2, <2>4 DEF T
  <2> QED BY <2>3, <2>4, <2>5
<1> QED BY <1>4 DEF T

-----------------------------------------------------------------------------
(* The nodes below a node are the least set with it that holds the         *)
(* children of its members.                                                *)
Closed(S) == \A m \in S : Kids(m) \subseteq S

Wider(S) == S \cup UNION {Kids(m) : m \in S}
ReachAt(n, f, k) == IF k = 0 THEN {n} ELSE Wider(f[k - 1])
ReachTable(n) == CHOOSE f : f = [k \in 0..Cardinality(alloc) |-> ReachAt(n, f, k)]

(* Below looks up the last cell of a table. *)
LEMMA BelowIsTheLastCell ==
    ASSUME NEW n
    PROVE  Below(n) = ReachTable(n)[Cardinality(alloc)]
BY DEF Below, ReachTable, ReachAt, Wider

(* The table exists. *)
LEMMA ReachTableIsTheTable ==
    ASSUME IsFiniteSet(alloc), NEW n
    PROVE  /\ Cardinality(alloc) \in Nat
           /\ ReachTable(n)[0] = {n}
           /\ \A k \in 1..Cardinality(alloc) : ReachTable(n)[k] = Wider(ReachTable(n)[k - 1])
<1> DEFINE N == Cardinality(alloc)
           Filled(f, k) == \A j \in 0..k : f[j] = ReachAt(n, f, j)
           S == {k \in 0..N : \E f : Filled(f, k)}
<1>1. N \in Nat
  BY FS_CardinalityType
<1> HIDE DEF N
<1>2. 0 \in S
  <2> DEFINE f == [j \in {0} |-> {n}]
  <2>1. Filled(f, 0)
    BY DEF ReachAt
  <2> HIDE DEF Filled
  <2>2. QED
    BY <1>1, <2>1
<1>3. ASSUME NEW k \in 1..N, k - 1 \in S PROVE k \in S
  <2>1. PICK f : Filled(f, k - 1)
    BY <1>3
  <2> DEFINE g == [j \in 0..k |-> IF j = k THEN Wider(f[k - 1]) ELSE f[j]]
  <2>2. ASSUME NEW j \in 0..k PROVE g[j] = ReachAt(n, g, j)
    <3>1. CASE j = k
      <4>1. g[j] = Wider(f[k - 1]) /\ g[k - 1] = f[k - 1] /\ k # 0
        BY <3>1
      <4>2. QED
        BY <3>1, <4>1 DEF ReachAt
    <3>2. CASE j # k
      <4>1. j \in 0..(k - 1) /\ g[j] = f[j] /\ (j # 0 => g[j - 1] = f[j - 1])
        BY <3>2
      <4>2. f[j] = ReachAt(n, f, j)
        BY <2>1, <4>1
      <4>3. QED
        BY <4>1, <4>2 DEF ReachAt
    <3>3. QED
      BY <3>1, <3>2
  <2> HIDE DEF g
  <2>3. Filled(g, k)
    BY <2>2
  <2> HIDE DEF Filled
  <2>4. QED
    BY <1>1, <2>3
<1>4. N \in S
  <2> HIDE DEF S
  <2>1. 0..N \subseteq S
    BY <1>1, <1>2, <1>3, InductionUpTo
  <2>2. QED
    BY <1>1, <2>1
<1>5. PICK f : Filled(f, N)
  BY <1>4
<1> DEFINE g == [k \in 0..N |-> f[k]]
<1>6. g = [k \in 0..N |-> ReachAt(n, g, k)]
  <2>1. ASSUME NEW k \in 0..N PROVE g[k] = ReachAt(n, g, k)
    <3>1. f[k] = ReachAt(n, f, k)
      BY <1>5
    <3>2. k # 0 => k - 1 \in 0..N
      BY <1>1
    <3>3. g[k] = f[k] /\ (k # 0 => g[k - 1] = f[k - 1])
      BY <3>2
    <3>4. QED
      BY <3>1, <3>3 DEF ReachAt
  <2>2. QED
    BY <2>1
<1> HIDE DEF g
<1>7. ReachTable(n) = [k \in 0..N |-> ReachAt(n, ReachTable(n), k)]
  BY <1>6, Zenon DEF ReachTable, N
<1> DEFINE r == ReachTable(n)
<1>8. \A k \in 0..N : r[k] = ReachAt(n, r, k)
  <2> HIDE DEF r
  <2>1. r = [k \in 0..N |-> ReachAt(n, r, k)]
    BY <1>7 DEF r
  <2>2. QED
    BY <2>1
<1>9. r[0] = {n} /\ \A k \in 1..N : r[k] = Wider(r[k - 1])
  <2> HIDE DEF r
  <2>1. QED
    BY <1>1, <1>8 DEF ReachAt
<1>10. QED
  BY <1>1, <1>9 DEF N

(* The children of a constructed node are constructed. *)
LEMMA KidsConstructed ==
    ASSUME TypeOK, NEW n \in Node
    PROVE  Kids(n) \subseteq alloc
BY DEF TypeOK, Kids, Range

(* A node is below itself, what is below it is closed, and every closed    *)
(* set that holds it holds all of it.                                      *)
LEMMA BelowIsLeast ==
    ASSUME TypeOK, IsFiniteSet(alloc), NEW n \in alloc
    PROVE  /\ n \in Below(n) /\ Below(n) \subseteq alloc /\ Closed(Below(n))
           /\ \A S : n \in S /\ Closed(S) => Below(n) \subseteq S
<1> DEFINE N == Cardinality(alloc)
           r == ReachTable(n)
<1>1. /\ N \in Nat /\ r[0] = {n}
      /\ \A k \in 1..N : r[k] = Wider(r[k - 1])
      /\ Below(n) = r[N]
  BY ReachTableIsTheTable, BelowIsTheLastCell
<1>2. \A m \in alloc : Kids(m) \subseteq alloc
  BY KidsConstructed DEF TypeOK
<1> HIDE DEF N, r
<1>3. \A S : Closed(S) => Wider(S) = S
  BY DEF Closed, Wider
<1>4. \A S : S \subseteq Wider(S) /\ (Wider(S) = S => Closed(S))
  BY DEF Closed, Wider
<1>5. \A S, U : S \subseteq U /\ Closed(U) => Wider(S) \subseteq U
  BY DEF Closed, Wider
<1>6. Closed(alloc)
  BY <1>2 DEF Closed
<1>7. ASSUME NEW U, n \in U, Closed(U) PROVE r[N] \subseteq U
  <2> DEFINE S == {k \in 0..N : r[k] \subseteq U}
  <2>1. 0 \in S
    BY <1>1, <1>7
  <2>2. ASSUME NEW k \in 1..N, k - 1 \in S PROVE k \in S
    <3>1. r[k] = Wider(r[k - 1]) /\ r[k - 1] \subseteq U
      BY <1>1, <2>2
    <3>2. r[k] \subseteq U
      BY <1>5, <1>7, <3>1
    <3>3. QED
      BY <1>1, <3>2
  <2>3. N \in S
    <3> HIDE DEF S
    <3>1. 0..N \subseteq S
      BY <1>1, <2>1, <2>2, InductionUpTo
    <3>2. QED
      BY <1>1, <3>1
  <2>4. QED
    BY <2>3
<1>8. r[N] \subseteq alloc
  BY <1>6, <1>7
<1>9. n \in r[N] /\ Closed(r[N])
  <2> DEFINE S == {k \in 0..N : /\ n \in r[k] /\ r[k] \subseteq alloc /\ IsFiniteSet(r[k])
                                /\ Closed(r[k]) \/ Cardinality(r[k]) > k}
  <2>1. 0 \in S
    <3>1. IsFiniteSet({n}) /\ Cardinality({n}) = 1
      BY FS_Singleton
    <3>2. QED
      BY <1>1, <3>1
  <2>2. ASSUME NEW k \in 1..N, k - 1 \in S PROVE k \in S
    <3> DEFINE A == r[k - 1]
               B == r[k]
    <3>1. /\ B = Wider(A) /\ n \in A /\ A \subseteq alloc /\ IsFiniteSet(A)
          /\ Closed(A) \/ Cardinality(A) > k - 1
      BY <1>1, <2>2
    <3> HIDE DEF A, B
    <3>2. A \subseteq B /\ B \subseteq alloc
      BY <1>4, <1>5, <1>6, <3>1
    <3>3. IsFiniteSet(B)
      BY <3>2, FS_Subset
    <3>4. Closed(B) \/ Cardinality(B) > k
      <4>1. CASE Closed(A)
        BY <1>3, <3>1, <4>1
      <4>2. CASE A = B
        BY <1>4, <3>1, <4>2
      <4>3. CASE Cardinality(A) > k - 1 /\ A # B
        <5>1. Cardinality(A) \in Nat /\ Cardinality(B) \in Nat
          BY <3>1, <3>3, FS_CardinalityType
        <5>2. Cardinality(A) <= Cardinality(B) /\ Cardinality(A) # Cardinality(B)
          BY <3>2, <3>3, <4>3, FS_Subset
        <5>3. QED
          BY <4>3, <5>1, <5>2
      <4>4. QED
        BY <3>1, <4>1, <4>2, <4>3
    <3>5. k \in 0..N /\ n \in B
      BY <1>1, <3>1, <3>2
    <3>6. QED
      BY <3>2, <3>3, <3>4, <3>5 DEF B
  <2>3. N \in S
    <3> HIDE DEF S
    <3>1. 0..N \subseteq S
      BY <1>1, <2>1, <2>2, InductionUpTo
    <3>2. QED
      BY <1>1, <3>1
  <2>4. Cardinality(r[N]) <= N
    BY <1>8, FS_Subset DEF N
  <2>5. Cardinality(r[N]) \in Nat
    BY <2>3, FS_CardinalityType
  <2>6. QED
    BY <1>1, <2>3, <2>4, <2>5
<1>10. QED
  BY <1>1, <1>7, <1>8, <1>9

-----------------------------------------------------------------------------
(* A write to one node closes no cycle if each child it gives the node     *)
(* lies in a closed set without the node.                                  *)
LEMMA StaysAcyclic ==
    ASSUME Acyclic, NEW n,
           \A m \in Node \ {n} : Kids(m)' \subseteq Kids(m),
           \A v \in Kids(n)' : v \in Kids(n) \/ \E B : v \in B /\ n \notin B /\ Closed(B)
    PROVE  Acyclic'
<1> SUFFICES ASSUME NEW S \in SUBSET Node, S # {}, \A m \in S : Kids(m)' \cap S # {}
             PROVE  FALSE
  BY DEF Acyclic
<1>1. PICK m \in S : Kids(m) \cap S = {}
  BY DEF Acyclic
<1>2. m = n
  BY <1>1
<1>3. PICK v \in Kids(n)' : v \in S /\ v \notin Kids(n)
  BY <1>1, <1>2
<1>4. PICK B : v \in B /\ n \notin B /\ Closed(B)
  BY <1>3
<1>5. ASSUME NEW x \in B \cap S PROVE Kids(x) \cap (B \cap S) # {}
  <2>1. x # n /\ Kids(x)' \subseteq Kids(x) /\ Kids(x) \subseteq B
    BY <1>4 DEF Closed
  <2>2. QED
    BY <2>1
<1>6. B \cap S # {} /\ B \cap S \in SUBSET Node
  BY <1>3, <1>4
<1>7. QED
  BY <1>5, <1>6 DEF Acyclic

(* What a caller may attach, it may attach without a cycle. *)
LEMMA AttachableApart ==
    ASSUME TypeOK, IsFiniteSet(alloc), NEW n, NEW v, MayAttach(n, v)
    PROVE  v \in alloc /\ \E B : v \in B /\ n \notin B /\ Closed(B)
BY BelowIsLeast DEF MayAttach

(* What the mutations share: one node of the tree is written.              *)
TreeWritten(n, new) ==
    /\ alloc' = alloc
    /\ \A m \in Node \ {n} : Kids(m)' = Kids(m)
    /\ Kids(n)' \subseteq Kids(n) \cup new
    /\ \A c \in Node : link'[c].parent \in {link[c].parent, n, Nil}

(* A write to one node keeps the tree, if each new child of the node lies  *)
(* in a closed set without the node.                                       *)
LEMMA WrittenStaysTree ==
    ASSUME TreeInv, HashInv', NEW n \in alloc, NEW new, TreeWritten(n, new),
           \A v \in new : \E B : v \in B /\ n \notin B /\ Closed(B)
    PROVE  TreeInv'
<1>1. n \in Node /\ alloc \subseteq Node
  BY DEF TreeInv, HashInv, TypeOK
<1>2. Acyclic'
  BY <1>1, StaysAcyclic DEF TreeInv, TreeWritten
<1>3. FreshBare'
  BY <1>1 DEF TreeInv, TreeWritten, FreshBare
<1>4. Parented'
  BY DEF TreeInv, TreeWritten, Parented
<1>5. QED
  BY <1>2, <1>3, <1>4 DEF TreeInv, TreeWritten

(* The list that a splice leaves holds nothing but the old list and what   *)
(* was spliced in.                                                         *)
LEMMA SplicedHolds ==
    ASSUME NEW X, NEW xs \in Seq(X), NEW i \in DOMAIN xs, NEW gone \in {0, 1},
           NEW ys \in Seq(X)
    PROVE  Range(Spliced(xs, i, gone, ys)) \subseteq Range(xs) \cup Range(ys)
<1> DEFINE a == SubSeq(xs, 1, i - 1)
           b == SubSeq(xs, i + gone, Len(xs))
           N == Len(xs)
<1>1. N \in Nat /\ i \in 1..N /\ DOMAIN xs = 1..N
  OBVIOUS
<1>2. a \in Seq(X) /\ Len(a) = i - 1 /\ \A j \in 1..(i - 1) : a[j] = xs[j]
  BY <1>1
<1>3. b \in Seq(X) /\ Len(b) = N - (i + gone) + 1
      /\ \A j \in 1..(N - (i + gone) + 1) : b[j] = xs[i + gone + j - 1]
  BY <1>1
<1>4. DOMAIN a = 1..(i - 1) /\ DOMAIN b = 1..(N - (i + gone) + 1)
  BY <1>2, <1>3
<1> HIDE DEF a, b, N
<1>5. Range(a) \subseteq Range(xs)
  <2>1. \A j \in DOMAIN a : j \in DOMAIN xs /\ a[j] = xs[j]
    BY <1>1, <1>2, <1>4
  <2>2. QED
    BY <2>1, Zenon DEF Range
<1>6. Range(b) \subseteq Range(xs)
  <2>1. \A j \in DOMAIN b : i + gone + j - 1 \in DOMAIN xs /\ b[j] = xs[i + gone + j - 1]
    BY <1>1, <1>3, <1>4
  <2>2. \A j \in DOMAIN b : b[j] \in Range(xs)
    BY <2>1 DEF Range
  <2>3. QED
    BY <2>2, Zenon DEF Range
<1>7. \A s, t \in Seq(X) : s \o t \in Seq(X) /\ Range(s \o t) \subseteq Range(s) \cup Range(t)
  <2>1. ASSUME NEW s \in Seq(X), NEW t \in Seq(X)
        PROVE  s \o t \in Seq(X) /\ Range(s \o t) \subseteq Range(s) \cup Range(t)
    <3>1. s \o t \in Seq(X)
      OBVIOUS
    <3>2. \A k \in DOMAIN (s \o t) :
             \/ k \in DOMAIN s /\ (s \o t)[k] = s[k]
             \/ k - Len(s) \in DOMAIN t /\ (s \o t)[k] = t[k - Len(s)]
      OBVIOUS
    <3>3. QED
      BY <3>1, <3>2 DEF Range
  <2>2. QED
    BY <2>1
<1>8. Spliced(xs, i, gone, ys) = (a \o ys) \o b
  BY DEF Spliced, a, b, N
<1>9. QED
  BY <1>2, <1>3, <1>5, <1>6, <1>7, <1>8

(* The children that a form of set() leaves n with. *)
Gives(n, w) == ({w.this[n]} \ {Nil}) \cup Range(w.exprs[n])

(* So does whatever set() commits.                                        *)
LEMMA CommitStaysTree ==
    ASSUME TreeInv, HashInv', NEW n \in alloc, NEW w, NEW U, NEW new,
           Written(n, w), Commit(n, w, U), Gives(n, w) \subseteq Kids(n) \cup new,
           \A v \in new : \E B : v \in B /\ n \notin B /\ Closed(B)
    PROVE  TreeInv'
<1>1. n \in Node /\ alloc' = alloc
  BY DEF TreeInv, HashInv, TypeOK, Commit
<1>2. Kids(n)' = Gives(n, w)
  BY DEF Kids, Gives, Commit
<1>3. \A m \in Node \ {n} : this'[m] = this[m] /\ exprs'[m] = exprs[m]
  BY DEF Written, Commit
<1>4. \A m \in Node \ {n} : Kids(m)' = Kids(m)
  BY <1>3 DEF Kids
<1>5. \A c \in Node : link'[c].parent \in {link[c].parent, n, Nil}
  BY DEF Written, Commit, NoLink
<1>6. TreeWritten(n, new)
  BY <1>1, <1>2, <1>4, <1>5 DEF TreeWritten
<1>7. QED
  BY <1>6, WrittenStaysTree

(* A single node, as a list. *)
LEMMA SingletonList ==
    ASSUME NEW A, NEW v \in A
    PROVE  <<v>> \in Seq(A) /\ Range(<<v>>) = {v}
BY DEF Range

(* The forms of set() give a node no child but its own and what they are   *)
(* passed.                                                                 *)
LEMMA WithThisGives ==
    ASSUME TypeOK, NEW n \in Node, NEW v \in alloc \cup {Nil}
    PROVE  Gives(n, WithThis(n, v)) \subseteq Kids(n) \cup ({v} \ {Nil})
BY DEF Gives, WithThis, TypeOK, Kids

LEMMA WithListGives ==
    ASSUME TypeOK, NEW n \in Node, NEW xs
    PROVE  Gives(n, WithList(n, xs)) \subseteq Kids(n) \cup Range(xs)
<1>1. /\ WithList(n, xs).this = this
      /\ WithList(n, xs).exprs[n] = xs
  BY DEF WithList, TypeOK
<1>2. QED
  BY <1>1 DEF Gives, Kids

LEMMA WithItemGives ==
    ASSUME TypeOK, NEW n \in Node, NEW i, NEW v \in alloc \cup {Nil}, NEW o \in BOOLEAN
    PROVE  Gives(n, WithItem(n, i, v, o)) \subseteq Kids(n) \cup ({v} \ {Nil})
<1>0. exprs[n] \in Seq(alloc)
  BY DEF TypeOK
<1>1. CASE i \notin DOMAIN exprs[n]
  BY <1>1 DEF WithItem, Unwritten, Gives, Kids
<1>2. CASE i \in DOMAIN exprs[n] /\ v = Nil
  <2> DEFINE xs == Spliced(exprs[n], i, 1, <<>>)
  <2>1. <<>> \in Seq(alloc) /\ Range(<<>>) = {}
    BY DEF Range
  <2>2. Range(xs) \subseteq Range(exprs[n])
    BY <1>0, <1>2, <2>1, SplicedHolds
  <2> HIDE DEF xs
  <2>3. /\ WithItem(n, i, v, o).this = this
        /\ WithItem(n, i, v, o).exprs = [exprs EXCEPT ![n] = xs]
    BY <1>2 DEF WithItem, WithRemoved, xs
  <2>4. WithItem(n, i, v, o).exprs[n] = xs
    BY <2>3 DEF TypeOK
  <2>5. QED
    BY <2>2, <2>3, <2>4 DEF Gives, Kids
<1>3. CASE i \in DOMAIN exprs[n] /\ v # Nil
  <2> DEFINE xs == Spliced(exprs[n], i, IF o THEN 1 ELSE 0, <<v>>)
  <2>1. <<v>> \in Seq(alloc) /\ Range(<<v>>) = {v}
    BY <1>3, SingletonList
  <2>2. Range(xs) \subseteq Range(exprs[n]) \cup {v}
    BY <1>0, <1>3, <2>1, SplicedHolds
  <2> HIDE DEF xs
  <2>3. WithItem(n, i, v, o) = WithList(n, xs)
    BY <1>3 DEF WithItem, xs
  <2>4. QED
    BY <1>3, <2>2, <2>3, WithListGives DEF Kids
<1>4. QED
  BY <1>1, <1>2, <1>3

LEMMA WithSpliceGives ==
    ASSUME TypeOK, NEW n \in Node, NEW i, NEW vs \in Seq(alloc)
    PROVE  Gives(n, WithSplice(n, i, vs)) \subseteq Kids(n) \cup Range(vs)
<1>0. exprs[n] \in Seq(alloc)
  BY DEF TypeOK
<1>1. CASE i \notin DOMAIN exprs[n]
  BY <1>1 DEF WithSplice, Unwritten, Gives, Kids
<1>2. CASE i \in DOMAIN exprs[n]
  <2> DEFINE xs == Spliced(exprs[n], i, 1, vs)
  <2>1. Range(xs) \subseteq Range(exprs[n]) \cup Range(vs)
    BY <1>0, <1>2, SplicedHolds
  <2> HIDE DEF xs
  <2>2. WithSplice(n, i, vs) = WithList(n, xs)
    BY <1>2 DEF WithSplice, xs
  <2>3. QED
    BY <2>1, <2>2, WithListGives DEF Kids
<1>3. QED
  BY <1>1, <1>2

(* A list that Lists allows holds kept nodes and attachable ones. *)
LEMMA ListsHold ==
    ASSUME NEW n, NEW kept, NEW xs \in Lists(n, kept)
    PROVE  Range(xs) \subseteq kept \cup {v \in alloc : MayAttach(n, v)}
<1>1. PICK k \in 0..MaxLen : xs \in [1..k -> kept \cup {v \in alloc : MayAttach(n, v)}]
  BY DEF Lists
<1>2. QED
  BY <1>1 DEF Range

(* A step that leaves the arguments alone. *)
LEMMA SameTree ==
    ASSUME TreeInv, HashInv', UNCHANGED <<alloc, this, exprs>>,
           \A c \in Node : link'[c].parent \in {link[c].parent, Nil}
    PROVE  TreeInv'
<1>1. \A m \in Node : Kids(m)' = Kids(m)
  BY DEF Kids
<1>2. QED
  BY <1>1 DEF TreeInv, Acyclic, FreshBare, Parented

-----------------------------------------------------------------------------
(* set(), append(), replace(), pop() and the constructor keep the tree.    *)
LEMMA SetThisStaysTree ==
    ASSUME TreeInv, HashInv', NEW n \in alloc, NEW v \in alloc \cup {Nil}, SetThis(n, v)
    PROVE  TreeInv'
<1>1. TypeOK /\ n \in Node /\ IsFiniteSet(alloc)
  BY DEF TreeInv, HashInv, TypeOK
<1>2. \A x \in {v} \ {Nil} : \E B : x \in B /\ n \notin B /\ Closed(B)
  BY <1>1, AttachableApart DEF SetThis
<1>3. Commit(n, WithThis(n, v), {})
  BY DEF SetThis
<1>4. /\ Written(n, WithThis(n, v))
      /\ Gives(n, WithThis(n, v)) \subseteq Kids(n) \cup ({v} \ {Nil})
  BY <1>1, WithThisWritten, WithThisGives
<1>5. QED
  BY <1>2, <1>3, <1>4, CommitStaysTree

LEMMA SetListStaysTree ==
    ASSUME TreeInv, HashInv', NEW n \in alloc, NEW xs \in Lists(n, Range(exprs[n])),
           SetList(n, xs)
    PROVE  TreeInv'
<1>1. TypeOK /\ n \in Node /\ IsFiniteSet(alloc) /\ Range(exprs[n]) \subseteq alloc
  BY DEF TreeInv, HashInv, TypeOK, Range
<1>2. xs \in Seq(alloc)
  BY <1>1, ListsType
<1> DEFINE new == {v \in alloc : MayAttach(n, v)}
<1>3. \A x \in new : \E B : x \in B /\ n \notin B /\ Closed(B)
  BY <1>1, AttachableApart
<1>4. Commit(n, WithList(n, xs), {})
  BY DEF SetList
<1>5. Range(xs) \subseteq Range(exprs[n]) \cup new
  BY ListsHold
<1> HIDE DEF new
<1>6. Gives(n, WithList(n, xs)) \subseteq Kids(n) \cup new
  BY <1>1, <1>5, WithListGives DEF Kids
<1>7. Written(n, WithList(n, xs))
  BY <1>1, <1>2, WithListWritten
<1>8. QED
  BY <1>3, <1>4, <1>6, <1>7, CommitStaysTree

LEMMA SetItemStaysTree ==
    ASSUME TreeInv, HashInv', NEW n \in alloc, NEW i, NEW v \in alloc \cup {Nil},
           NEW o \in BOOLEAN, SetItem(n, i, v, o)
    PROVE  TreeInv'
<1>1. TypeOK /\ n \in Node /\ IsFiniteSet(alloc)
  BY DEF TreeInv, HashInv, TypeOK
<1>2. \A x \in {v} \ {Nil} : \E B : x \in B /\ n \notin B /\ Closed(B)
  BY <1>1, AttachableApart DEF SetItem
<1>3. Commit(n, WithItem(n, i, v, o), {})
  BY DEF SetItem
<1>4. /\ Written(n, WithItem(n, i, v, o))
      /\ Gives(n, WithItem(n, i, v, o)) \subseteq Kids(n) \cup ({v} \ {Nil})
  BY <1>1, WithItemWritten, WithItemGives
<1>5. QED
  BY <1>2, <1>3, <1>4, CommitStaysTree

LEMMA AppendStaysTree ==
    ASSUME TreeInv, HashInv', NEW n \in alloc, NEW v \in alloc, AppendChild(n, v)
    PROVE  TreeInv'
<1>1. TypeOK /\ n \in Node /\ IsFiniteSet(alloc) /\ exprs[n] \in Seq(alloc)
  BY DEF TreeInv, HashInv, TypeOK
<1>2. \E B : v \in B /\ n \notin B /\ Closed(B)
  BY <1>1, AttachableApart DEF AppendChild
<1>3. /\ this' = this /\ exprs' = [exprs EXCEPT ![n] = Append(exprs[n], v)]
      /\ alloc' = alloc
  BY DEF AppendChild, Commit
<1>4. Range(Append(exprs[n], v)) \subseteq Range(exprs[n]) \cup {v}
  <2> DEFINE xs == exprs[n]
             ys == Append(xs, v)
  <2>1. \A j \in DOMAIN ys : ys[j] = v \/ (j \in DOMAIN xs /\ ys[j] = xs[j])
    BY <1>1
  <2> HIDE DEF xs, ys
  <2>2. \A j \in DOMAIN ys : ys[j] \in Range(xs) \cup {v}
    BY <2>1 DEF Range
  <2>3. Range(ys) \subseteq Range(xs) \cup {v}
    BY <2>2 DEF Range
  <2>4. QED
    BY <2>3 DEF xs, ys
<1>5. exprs'[n] = Append(exprs[n], v) /\ \A m \in Node \ {n} : exprs'[m] = exprs[m]
  BY <1>1, <1>3 DEF TypeOK
<1>6. \A c \in Node : link'[c].parent \in {link[c].parent, n, Nil}
  BY <1>1 DEF AppendChild, Commit, TypeOK
<1>7. TreeWritten(n, {v})
  BY <1>3, <1>4, <1>5, <1>6 DEF TreeWritten, Kids
<1>8. QED
  BY <1>2, <1>7, WrittenStaysTree

LEMMA ReplaceStaysTree ==
    ASSUME TreeInv, HashInv', NEW c \in alloc, NEW v \in alloc \cup {Nil}, Replace(c, v)
    PROVE  TreeInv'
<1> DEFINE p == link[c].parent
<1>1. TypeOK /\ IsFiniteSet(alloc) /\ p \in alloc /\ p \in Node
  BY DEF TreeInv, HashInv, TypeOK, Parented, Replace, MayReplace
<1>2. \A x \in {v} \ {Nil} : \E B : x \in B /\ p \notin B /\ Closed(B)
  <2>1. CASE v = Nil
    BY <2>1
  <2>2. CASE v \in alloc /\ v # Nil
    <3>1. Replacement(c, v)
      BY <2>2 DEF Replace
    <3>2. CASE MayAttach(p, v)
      BY <1>1, <2>2, <3>2, AttachableApart
    <3>3. CASE p \notin Below(v)
      BY <1>1, <2>2, <3>3, BelowIsLeast
    <3>4. QED
      BY <3>1, <3>2, <3>3 DEF Replacement
  <2>3. QED
    BY <2>1, <2>2
<1>3. Written(p, WithThis(p, v)) /\ Gives(p, WithThis(p, v)) \subseteq Kids(p) \cup ({v} \ {Nil})
  BY <1>1, WithThisWritten, WithThisGives
<1>4. /\ Written(p, WithItem(p, link[c].index, v, TRUE))
      /\ Gives(p, WithItem(p, link[c].index, v, TRUE)) \subseteq Kids(p) \cup ({v} \ {Nil})
  <2>1. TRUE \in BOOLEAN
    OBVIOUS
  <2>2. QED
    BY <1>1, <2>1, WithItemWritten, WithItemGives
<1>5. \/ Commit(p, WithThis(p, v), {c} \ {v})
      \/ Commit(p, WithItem(p, link[c].index, v, TRUE), {c} \ {v})
  BY DEF Replace
<1> HIDE DEF p
<1>6. PICK w : /\ Written(p, w) /\ Gives(p, w) \subseteq Kids(p) \cup ({v} \ {Nil})
               /\ Commit(p, w, {c} \ {v})
  BY <1>3, <1>4, <1>5
<1>7. QED
  BY <1>1, <1>2, <1>6, CommitStaysTree

(* replace(list) writes to the node above, or only clears back links.      *)
LEMMA ReplaceByListStaysTree ==
    ASSUME TreeInv, HashInv', NEW c \in alloc, NEW vs, ReplaceByList(c, vs)
    PROVE  TreeInv'
<1>1. PICK top \in Spine(c) :
        IF link[top].key = "expressions"
        THEN /\ MayReplace(top) /\ vs \in Lists(link[top].parent, {})
             /\ Commit(link[top].parent,
                       WithSplice(link[top].parent, link[top].index, vs), Spine(c))
        ELSE /\ link' = [m \in Node |-> IF m \in Spine(c) THEN NoLink ELSE link[m]]
             /\ UNCHANGED <<alloc, text, this, exprs, hash>>
  BY DEF ReplaceByList
<1>2. TypeOK /\ IsFiniteSet(alloc) /\ top \in Node
  BY DEF TreeInv, HashInv, Spine
<1>3. CASE link[top].key = "expressions"
  <2> DEFINE p == link[top].parent
             new == {v \in alloc : MayAttach(p, v)}
  <2>1. p \in alloc /\ p \in Node
    BY <1>1, <1>2, <1>3 DEF MayReplace, TreeInv, Parented, TypeOK
  <2>2. \A x \in new : \E B : x \in B /\ p \notin B /\ Closed(B)
    BY <1>2, AttachableApart
  <2>3. vs \in Seq(alloc) /\ Range(vs) \subseteq new
    BY <1>1, <1>2, <1>3, ListsType, ListsHold
  <2>4. Commit(p, WithSplice(p, link[top].index, vs), Spine(c))
    BY <1>1, <1>3
  <2> HIDE DEF p, new
  <2>5. /\ Written(p, WithSplice(p, link[top].index, vs))
        /\ Gives(p, WithSplice(p, link[top].index, vs)) \subseteq Kids(p) \cup new
    BY <1>2, <2>1, <2>3, WithSpliceWritten, WithSpliceGives
  <2>6. QED
    BY <2>1, <2>2, <2>4, <2>5, CommitStaysTree
<1>4. CASE link[top].key # "expressions"
  <2>1. \A x \in Node : link'[x].parent \in {link[x].parent, Nil}
    BY <1>1, <1>4 DEF NoLink
  <2>2. QED
    BY <1>1, <1>4, <2>1, SameTree
<1>5. QED
  BY <1>3, <1>4

(* The constructed nodes hold their children. *)
LEMMA AllocClosed ==
    ASSUME TypeOK
    PROVE  Closed(alloc)
BY KidsConstructed DEF Closed, TypeOK

(* A new node is below no node that exists, so it may hold any of them.    *)
LEMMA ConstructStaysTree ==
    ASSUME TreeInv, HashInv', NEW n \in Node, NEW t \in Text, NEW c \in alloc \cup {Nil},
           NEW xs \in Seq(alloc), Construct(n, t, c, xs)
    PROVE  TreeInv'
<1> DEFINE l == WithThis(n, c).link
<1>1. TypeOK /\ n \notin alloc /\ alloc \subseteq Node
  BY DEF TreeInv, HashInv, TypeOK, Construct
<1>2. /\ this' = [this EXCEPT ![n] = c] /\ exprs' = [exprs EXCEPT ![n] = xs]
      /\ alloc' = alloc \cup {n} /\ link' = Relinked(n, xs, l)
  BY DEF Construct
<1>3. \A m \in Node \ {n} : Kids(m)' = Kids(m)
  BY <1>2 DEF Kids, TypeOK
<1>4. this'[n] = c /\ exprs'[n] = xs
  BY <1>1, <1>2 DEF TypeOK
<1>5. Kids(n)' \subseteq alloc
  BY <1>4 DEF Kids, Range
<1>6. Acyclic'
  <2>1. \A v \in Kids(n)' : v \in alloc /\ n \notin alloc /\ Closed(alloc)
    BY <1>1, <1>5, AllocClosed
  <2>2. \A m \in Node \ {n} : Kids(m)' \subseteq Kids(m)
    BY <1>3
  <2>3. QED
    BY <2>1, <2>2, StaysAcyclic DEF TreeInv
<1>7. FreshBare'
  BY <1>2, <1>3 DEF TreeInv, FreshBare
<1>8. Parented'
  <2>1. l \in [Node -> Link] /\ \A x \in Node : l[x].parent \in {link[x].parent, n}
    BY <1>1, WithThisWritten DEF Written
  <2> HIDE DEF l
  <2>2. \A x \in Node : Relinked(n, xs, l)[x].parent \in {l[x].parent, n}
    BY <2>1, RelinkedType
  <2>3. QED
    BY <1>2, <2>1, <2>2 DEF TreeInv, Parented
<1>9. IsFiniteSet(alloc')
  BY <1>2, FS_AddElement DEF TreeInv
<1>10. QED
  BY <1>6, <1>7, <1>8, <1>9 DEF TreeInv

LEMMA CopyBeginStaysTree ==
    ASSUME TreeInv, HashInv', NEW n \in Node, NEW d \in Node, CopyBegin(n, d)
    PROVE  TreeInv'
<1>1. UNCHANGED <<this, exprs, link>> /\ alloc' = alloc \cup {d}
  BY DEF CopyBegin
<1>2. \A m \in Node : Kids(m)' = Kids(m)
  BY <1>1 DEF Kids
<1>3. IsFiniteSet(alloc')
  BY <1>1, FS_AddElement DEF TreeInv
<1>4. QED
  BY <1>1, <1>2, <1>3 DEF TreeInv, Acyclic, FreshBare, Parented

(* The image of an initial segment is finite. *)
LEMMA FiniteSegmentRange ==
    ASSUME NEW k \in Nat, NEW A, NEW f \in [1..k -> A]
    PROVE  IsFiniteSet(Range(f)) /\ Range(f) \subseteq A
<1>1. f \in Surjection(1..k, Range(f))
  BY DEF Surjection, Range
<1>2. IsFiniteSet(1..k)
  BY FS_Interval
<1>3. QED
  BY <1>1, <1>2, FS_Surjection DEF Range

(* One iteration of copy() gives the destination new nodes without child.  *)
LEMMA CopyStepStaysTree ==
    ASSUME TreeInv, HashInv', NEW k \in 0..(MaxLen + 1),
           NEW fresh \in [1..k -> Node \ alloc], CopyStep(fresh)
    PROVE  TreeInv'
<1>1. PICK src, dst, one, xs, f :
        /\ src = todo[Len(todo)][1] /\ dst = todo[Len(todo)][2]
        /\ one = (IF this[src] = Nil THEN 0 ELSE 1)
        /\ xs = SubSeq(fresh, one + 1, Len(fresh))
        /\ f = IF one = 1 THEN fresh[1] ELSE Nil
  OBVIOUS
<1>2. /\ TypeOK /\ todo # <<>> /\ todo \in Seq(alloc \X alloc) /\ alloc \subseteq Node
      /\ Len(fresh) = Len(Args(src))
      /\ alloc' = alloc \cup Range(fresh)
      /\ this' = [this EXCEPT ![dst] = f] /\ exprs' = [exprs EXCEPT ![dst] = xs]
      /\ link' = Relinked(dst, xs, WithThis(dst, f).link)
  BY <1>1 DEF TreeInv, HashInv, CopyStep, TypeOK
<1>3. src \in alloc /\ dst \in alloc /\ dst \in Node
  <2>1. todo[Len(todo)] \in alloc \X alloc
    BY <1>2
  <2>2. QED
    BY <1>1, <1>2, <2>1
<1>4. k \in Nat /\ DOMAIN fresh = 1..k /\ Len(fresh) = k /\ fresh \in Seq(Node \ alloc)
  BY BoundAssumption, SeqDef
<1>5. IsFiniteSet(Range(fresh)) /\ Range(fresh) \subseteq Node \ alloc
  BY <1>4, FiniteSegmentRange
<1>6. one = 1 => k >= 1
  <2>1. this[src] # Nil => Len(Args(src)) >= 1
    <3>1. exprs[src] \in Seq(alloc)
      BY <1>2, <1>3 DEF TypeOK
    <3>2. QED
      BY <3>1 DEF Args
  <2>2. QED
    BY <1>1, <1>2, <1>4, <2>1
<1>7. f \in Range(fresh) \cup {Nil}
  BY <1>1, <1>4, <1>6 DEF Range
<1>8. xs \in Seq(Node \ alloc) /\ Range(xs) \subseteq Range(fresh)
  <2>1. one + 1 \in 1..2 /\ k \in Nat
    BY <1>1, <1>4
  <2>2. /\ xs \in Seq(Node \ alloc)
        /\ \A j \in DOMAIN xs : j + one \in DOMAIN fresh /\ xs[j] = fresh[j + one]
    BY <1>1, <1>4, <2>1
  <2>3. \A j \in DOMAIN xs : xs[j] \in Range(fresh)
    BY <2>2 DEF Range
  <2>4. QED
    BY <2>2, <2>3, Zenon DEF Range
<1>9. \A m \in Node \ {dst} : Kids(m)' = Kids(m)
  BY <1>2, <1>3 DEF Kids, TypeOK
<1>10. Kids(dst)' \subseteq Range(fresh)
  <2>1. this'[dst] = f /\ exprs'[dst] = xs
    BY <1>2, <1>3 DEF TypeOK
  <2>2. QED
    BY <1>7, <1>8, <2>1 DEF Kids
<1>11. Acyclic'
  <2>1. \A v \in Kids(dst)' : v \in {v} /\ dst \notin {v} /\ Closed({v})
    BY <1>3, <1>5, <1>10 DEF TreeInv, FreshBare, Closed
  <2>2. \A m \in Node \ {dst} : Kids(m)' \subseteq Kids(m)
    BY <1>9
  <2>3. QED
    BY <2>1, <2>2, StaysAcyclic DEF TreeInv
<1>12. FreshBare'
  BY <1>2, <1>3, <1>9 DEF TreeInv, FreshBare
<1>13. Parented'
  <2> DEFINE l == WithThis(dst, f).link
  <2>1. l \in [Node -> Link] /\ \A x \in Node : l[x].parent \in {link[x].parent, dst}
    BY <1>2, <1>3, <1>5, <1>7 DEF WithThis, TypeOK, Link
  <2>2. link' = Relinked(dst, xs, l)
    BY <1>2
  <2> HIDE DEF l
  <2>3. \A x \in Node : Relinked(dst, xs, l)[x].parent \in {l[x].parent, dst}
    BY <1>3, <1>8, <2>1, RelinkedType
  <2>4. QED
    BY <1>2, <1>3, <2>1, <2>2, <2>3 DEF TreeInv, Parented
<1>14. IsFiniteSet(alloc')
  BY <1>2, <1>5, FS_Union DEF TreeInv
<1>15. QED
  BY <1>11, <1>12, <1>13, <1>14 DEF TreeInv

-----------------------------------------------------------------------------
LEMMA MutationStaysTree ==
    ASSUME TreeInv, HashInv', Mutation
    PROVE  TreeInv'
<1>0. TypeOK /\ \A n \in alloc : n \in Node
  BY DEF TreeInv, HashInv, TypeOK
<1>1. ASSUME NEW n \in Node \ alloc, NEW xs \in Lists(n, {}), NEW c \in alloc \cup {Nil},
             NEW t \in Text, Construct(n, t, c, xs)
      PROVE  TreeInv'
  <2>1. n \in Node /\ xs \in Seq(alloc)
    BY <1>0, ListsType
  <2>2. QED
    BY <1>1, <2>1, ConstructStaysTree
<1>2. ASSUME NEW n \in alloc, NEW t \in Text, SetText(n, t)
      PROVE  TreeInv'
  BY <1>2, SameTree DEF SetText
<1>3. QED
  BY <1>1, <1>2, SetThisStaysTree, SetListStaysTree, SetItemStaysTree, AppendStaysTree,
     ReplaceStaysTree, ReplaceByListStaysTree DEF Mutation, Building, Pop

(* Before any call there is no node.                                       *)
LEMMA InitMakesTree == Init => TreeInv
<1> SUFFICES ASSUME Init PROVE TreeInv
  OBVIOUS
<1>1. \A m \in Node : Kids(m) = {}
  BY DEF Init, Kids, Range
<1>2. Parented
  BY DEF Init, Parented, NoLink
<1>3. IsFiniteSet(alloc)
  BY FS_EmptySet DEF Init
<1>4. QED
  BY <1>1, <1>2, <1>3, InitMakesInv DEF TreeInv, Acyclic, FreshBare

LEMMA NextStaysTree == TreeInv /\ [Next]_vars => TreeInv'
<1> SUFFICES ASSUME TreeInv, [Next]_vars
             PROVE  TreeInv'
  OBVIOUS
<1>0. HashInv'
  BY NextKeepsInv DEF TreeInv
<1>1. CASE Mutation
  BY <1>0, <1>1, MutationStaysTree
<1>2. CASE Hashing
  <2>1. UNCHANGED <<alloc, this, exprs, link>>
    BY <1>2 DEF Hashing, HashBegin, Visit, Push, Collected, Fill, HashReturn
  <2>2. QED
    BY <1>0, <2>1, SameTree
<1>3. CASE Copying
  <2>1. ASSUME CopyReturn PROVE TreeInv'
    BY <1>0, <2>1, SameTree DEF CopyReturn
  <2>2. QED
    BY <1>0, <1>3, <2>1, CopyBeginStaysTree, CopyStepStaysTree DEF Copying
<1>4. CASE UNCHANGED vars
  BY <1>0, <1>4, SameTree DEF vars
<1>5. QED
  BY <1>1, <1>2, <1>3, <1>4 DEF Next

(* core.js:230-322: no sequence of calls closes a cycle of children, so    *)
(* that hash(), copy() and walk() end.                                     *)
THEOREM StaysTree == Spec => []TreeInv
BY InitMakesTree, NextStaysTree, PTL DEF Spec

-----------------------------------------------------------------------------
(* What Terms gives a node, from what f gives its children. *)
TermOf(f, m) ==
    {[text  |-> IF text[m] = Nil THEN Nil ELSE Fold[text[m]],
      this  |-> IF this[m] = Nil THEN {} ELSE f[this[m]],
      exprs |-> [i \in DOMAIN exprs[m] |-> f[exprs[m][i]]]]}

(* Terms is the function that solves its recursive equation, if one does.  *)
LEMMA TermsIsATable == Terms = CHOOSE f : f = [m \in Node |-> TermOf(f, m)]
BY DEF Terms, TermOf

(* The structure of a node depends on its children alone. *)
LEMMA TermOfAgrees ==
    ASSUME NEW f, NEW g, NEW m, \A c \in Kids(m) : f[c] = g[c]
    PROVE  TermOf(f, m) = TermOf(g, m)
<1>1. this[m] # Nil => f[this[m]] = g[this[m]]
  BY DEF Kids
<1>2. \A i \in DOMAIN exprs[m] : f[exprs[m][i]] = g[exprs[m][i]]
  BY DEF Kids, Range
<1>3. [i \in DOMAIN exprs[m] |-> f[exprs[m][i]]] = [i \in DOMAIN exprs[m] |-> g[exprs[m][i]]]
  BY <1>2
<1>4. QED
  BY <1>1, <1>3, Zenon DEF TermOf

(* A table for the nodes of A. *)
Termed(f, A) == \A m \in A : f[m] = TermOf(f, m)

(* The table exists: it is filled upwards, a node after its children. *)
LEMMA TableExists ==
    ASSUME TreeInv
    PROVE  \E f : Termed(f, alloc)
<1> DEFINE N == Cardinality(alloc)
           Done(k, A) == /\ A \subseteq alloc /\ Cardinality(A) = k /\ Closed(A)
                         /\ \E f : Termed(f, A)
           S == {k \in 0..N : \E A : Done(k, A)}
<1>1. /\ N \in Nat /\ IsFiniteSet(alloc) /\ alloc \subseteq Node
      /\ \A m \in alloc : Kids(m) \subseteq alloc
  BY FS_CardinalityType, KidsConstructed DEF TreeInv, HashInv, TypeOK
<1> HIDE DEF N
<1>2. 0 \in S
  <2>1. Done(0, {})
    BY FS_EmptySet DEF Closed, Termed
  <2> HIDE DEF Done
  <2>2. QED
    BY <1>1, <2>1
<1>3. ASSUME NEW k \in 1..N, k - 1 \in S PROVE k \in S
  <2>1. PICK A : Done(k - 1, A)
    BY <1>3
  <2>2. PICK f : Termed(f, A)
    BY <2>1
  <2>3. A \subseteq alloc /\ Cardinality(A) = k - 1 /\ Closed(A)
    BY <2>1
  <2>4. alloc \ A # {}
    <3>1. A # alloc
      BY <1>1, <2>3 DEF N
    <3>2. QED
      BY <2>3, <3>1
  <2>5. PICK m \in alloc \ A : Kids(m) \cap (alloc \ A) = {}
    <3>1. alloc \ A \in SUBSET Node
      BY <1>1
    <3>2. QED
      BY <2>4, <3>1 DEF TreeInv, Acyclic
  <2>6. Kids(m) \subseteq A
    BY <1>1, <2>5
  <2> DEFINE B == A \cup {m}
             g == [x \in B |-> IF x = m THEN TermOf(f, m) ELSE f[x]]
  <2>7. B \subseteq alloc /\ Closed(B)
    BY <2>3, <2>5, <2>6 DEF Closed
  <2>8. Cardinality(B) = k
    <3>1. IsFiniteSet(A)
      BY <1>1, <2>3, FS_Subset
    <3>2. Cardinality(B) = Cardinality(A) + 1
      BY <2>5, <3>1, FS_AddElement
    <3>3. QED
      BY <1>1, <2>3, <3>2
  <2>9. Termed(g, B)
    <3>1. ASSUME NEW x \in B PROVE g[x] = TermOf(f, x)
      <4>1. x # m => x \in A
        OBVIOUS
      <4>2. QED
        BY <2>2, <4>1 DEF Termed
    <3>2. \A x \in B : Kids(x) \subseteq A
      BY <2>3, <2>6 DEF Closed
    <3>3. \A c \in A : g[c] = f[c]
      BY <2>5
    <3> HIDE DEF g, B
    <3>4. \A x \in B : TermOf(g, x) = TermOf(f, x)
      BY <3>2, <3>3, TermOfAgrees
    <3>5. QED
      BY <3>1, <3>4 DEF Termed
  <2> HIDE DEF B, g
  <2>10. Done(k, B)
    BY <2>7, <2>8, <2>9
  <2> HIDE DEF Done
  <2>11. QED
    BY <1>1, <2>10
<1>4. N \in S
  <2> HIDE DEF S
  <2>1. 0..N \subseteq S
    BY <1>1, <1>2, <1>3, InductionUpTo
  <2>2. QED
    BY <1>1, <2>1
<1>5. PICK A : Done(N, A)
  BY <1>4
<1>6. A = alloc
  <2>1. A \subseteq alloc /\ Cardinality(A) = N
    BY <1>5
  <2>2. QED
    BY <1>1, <2>1, FS_Subset DEF N
<1>7. QED
  BY <1>5, <1>6

(* Terms gives every node the structure that its children's give it. *)
LEMMA TermsUnfold ==
    ASSUME TreeInv
    PROVE  \A m \in Node : Terms[m] = TermOf(Terms, m)
<1>1. PICK f : Termed(f, alloc)
  BY TableExists
<1>2. /\ alloc \subseteq Node
      /\ \A m \in Node : Kids(m) \subseteq alloc /\ (m \notin alloc => Kids(m) = {})
  BY KidsConstructed DEF TreeInv, HashInv, TypeOK, FreshBare
<1> DEFINE g == [m \in Node |-> TermOf(f, m)]
<1>3. \A c \in alloc : g[c] = f[c]
  BY <1>1, <1>2 DEF Termed
<1>4. \A m \in Node : TermOf(g, m) = TermOf(f, m)
  <2> HIDE DEF g
  <2>1. QED
    BY <1>2, <1>3, TermOfAgrees
<1>5. g = [m \in Node |-> TermOf(g, m)]
  <2> DEFINE h == [m \in Node |-> TermOf(g, m)]
  <2> HIDE DEF h
  <2>1. h = [m \in Node |-> TermOf(f, m)]
    BY <1>4 DEF h
  <2>2. QED
    BY <2>1 DEF h
<1> HIDE DEF g
<1>6. Terms = [m \in Node |-> TermOf(Terms, m)]
  BY <1>5, TermsIsATable, Zenon
<1> DEFINE t == Terms
<1> HIDE DEF t
<1>7. t = [m \in Node |-> TermOf(t, m)]
  BY <1>6 DEF t
<1>8. \A m \in Node : t[m] = TermOf(t, m)
  BY <1>7
<1>9. QED
  BY <1>8 DEF t

(* In a sound tree the cached hash is the structure. *)
LEMMA HashedIsTerm ==
    ASSUME TreeInv, NEW n \in Node, hash[n] # {}, Sound(n)
    PROVE  hash[n] = Terms[n]
<1> DEFINE S == {m \in Node : hash[m] # {} /\ Sound(m) /\ hash[m] # Terms[m]}
<1>1. SUFFICES ASSUME S # {} PROVE FALSE
  OBVIOUS
<1>2. TypeOK /\ IsFiniteSet(alloc) /\ HashDown /\ HashCoherent /\ FreshUnhashed
  BY DEF TreeInv, HashInv
<1>3. PICK m \in S : Kids(m) \cap S = {}
  <2>1. S \in SUBSET Node
    OBVIOUS
  <2>2. QED
    BY <1>1, <2>1 DEF TreeInv, Acyclic
<1>4. m \in Node /\ hash[m] # {} /\ Sound(m) /\ hash[m] # Terms[m] /\ m \in alloc
  BY <1>2 DEF FreshUnhashed
<1>5. m \in Below(m) /\ Closed(Below(m))
  BY <1>2, <1>4, BelowIsLeast
<1>6. Intact(m)
  BY <1>4, <1>5 DEF Sound
<1>7. ASSUME NEW c \in Kids(m) PROVE hash[c] = Terms[c]
  <2>1. c \in alloc /\ c \in Node
    BY <1>2, <1>4, KidsConstructed DEF TypeOK
  <2>2. hash[c] # {}
    BY <1>2, <1>4, <1>6, <2>1 DEF HashDown, Intact
  <2>3. Below(c) \subseteq Below(m)
    BY <1>2, <1>5, <2>1, BelowIsLeast DEF Closed
  <2>4. Sound(c)
    BY <1>4, <2>3 DEF Sound
  <2>5. QED
    BY <1>3, <2>1, <2>2, <2>4
<1>8. hash[m] = {Digest(m)}
  BY <1>2, <1>4, <1>6 DEF HashCoherent
<1>9. {Digest(m)} = TermOf(hash, m)
  BY Zenon DEF Digest, TermOf
<1>10. TermOf(hash, m) = TermOf(Terms, m)
  BY <1>7, TermOfAgrees
<1>11. QED
  BY <1>4, <1>8, <1>9, <1>10, TermsUnfold

(* core.js:217: under any sequence of calls, two sound trees that are      *)
(* hashed have equal hashes exactly when they have equal structure and     *)
(* equal folded texts, so that equals() is structural equality.            *)
THEOREM EqualHashesEqualTrees == Spec => []EqualsIsStructural
<1>1. TreeInv => EqualsIsStructural
  <2> SUFFICES ASSUME TreeInv PROVE EqualsIsStructural
    OBVIOUS
  <2> DEFINE held == {n \in alloc : hash[n] # {} /\ Sound(n)}
             known == {<<hash[n], Terms[n]>> : n \in held}
  <2>1. \A n \in held : hash[n] = Terms[n]
    BY HashedIsTerm DEF TreeInv, HashInv, TypeOK
  <2>2. \A p \in known : p[1] = p[2]
    <3> HIDE DEF held
    <3>1. QED
      BY <2>1
  <2>3. QED
    BY <2>2, Zenon DEF EqualsIsStructural
<1>2. QED
  BY <1>1, StaysTree, PTL

-----------------------------------------------------------------------------
(* The argument list at each position. *)
LEMMA ArgsAt ==
    ASSUME TypeOK, NEW n \in Node
    PROVE  /\ this[n] # Nil => Args(n)[1] = this[n]
           /\ \A j \in DOMAIN exprs[n] :
                 Args(n)[j + (IF this[n] = Nil THEN 0 ELSE 1)] = exprs[n][j]
<1>1. exprs[n] \in Seq(alloc) /\ this[n] \in alloc \cup {Nil}
  BY DEF TypeOK
<1>2. CASE this[n] = Nil
  BY <1>1, <1>2 DEF Args
<1>3. CASE this[n] # Nil
  BY <1>1, <1>3 DEF Args
<1>4. QED
  BY <1>2, <1>3

(* copy() starts with one copy, that of its receiver, on the stack.        *)
LEMMA CopyBeginMaps ==
    ASSUME TreeInv, NEW n \in Node, NEW d \in Node, CopyBegin(n, d)
    PROVE  CopyMapped'
<1>1. /\ TypeOK /\ n \in alloc /\ d \notin alloc /\ alloc \subseteq Node
      /\ UNCHANGED <<this, exprs>> /\ alloc' = alloc \cup {d}
      /\ root' = d /\ todo' = << <<n, d>> >>
  BY DEF TreeInv, HashInv, TypeOK, CopyBegin
<1> DEFINE C == {d}
           of == [x \in C |-> n]
<1>2. C \in SUBSET alloc' /\ of \in [C -> alloc' \ C] /\ of[d] = n
  BY <1>1
<1>3. \A m \in alloc' \ C : Kids(m)' \cap C = {}
  <2>1. \A m \in Node : Kids(m)' = Kids(m) /\ Kids(m) \subseteq alloc
    BY <1>1, KidsConstructed DEF Kids
  <2>2. QED
    BY <1>1, <2>1
<1>4. DOMAIN todo' = {1} /\ todo'[1] = <<n, d>>
  BY <1>1
<1> HIDE DEF of
<1>5. Mirrors(C, of)'
  BY <1>1, <1>2, <1>3, <1>4 DEF Mirrors
<1>6. QED
  BY <1>2, <1>5 DEF CopyMapped

(* A stack of which the top is taken and on which a list is put. *)
Pushed(P, s, l, b, k, u) ==
    /\ s \in Seq(P) /\ s # <<>> /\ l = Len(s) - 1
    /\ k \in Nat /\ b \in [1..k -> P]
    /\ u = SubSeq(s, 1, Len(s) - 1) \o b

LEMMA PoppedAndPushed ==
    ASSUME NEW P, NEW s, NEW l, NEW b, NEW k, NEW u, Pushed(P, s, l, b, k, u)
    PROVE  /\ l \in Nat /\ DOMAIN s = 1..(l + 1) /\ DOMAIN u = 1..(l + k)
           /\ \A i \in 1..l : u[i] = s[i]
           /\ \A i \in 1..k : u[l + i] = b[i]
<1> USE DEF Pushed
<1>0. PICK a : a = SubSeq(s, 1, Len(s) - 1)
  OBVIOUS
<1>1. /\ a \in Seq(P) /\ Len(a) = l /\ l \in Nat /\ Len(s) = l + 1
      /\ \A i \in 1..l : a[i] = s[i]
  BY <1>0, DroppedLast
<1>2. b \in Seq(P) /\ Len(b) = k
  BY SeqDef
<1>3. u = a \o b
  BY <1>0
<1>4. /\ u \in Seq(P) /\ Len(u) = l + k
      /\ \A i \in 1..(l + k) : u[i] = IF i <= l THEN a[i] ELSE b[i - l]
  <2>1. a \in Seq(P) /\ b \in Seq(P) /\ Len(a) = l /\ Len(b) = k
    BY <1>1, <1>2
  <2>2. /\ a \o b \in Seq(P) /\ Len(a \o b) = Len(a) + Len(b)
        /\ \A i \in 1..(Len(a) + Len(b)) :
              (a \o b)[i] = IF i <= Len(a) THEN a[i] ELSE b[i - Len(a)]
    BY ONLY <2>1, ConcatProperties
  <2>3. QED
    BY <1>3, <2>1, <2>2
<1>5. \A i \in 1..l : i \in 1..(l + k) /\ i <= l
  BY <1>1
<1>6. \A i \in 1..k : l + i \in 1..(l + k) /\ ~(l + i <= l) /\ (l + i) - l = i
  BY <1>1
<1>7. \A i \in 1..k : u[l + i] = b[i]
  BY <1>4, <1>6
<1>8. DOMAIN u = 1..Len(u) /\ DOMAIN s = 1..Len(s)
  BY <1>4
<1>9. QED
  BY <1>1, <1>4, <1>5, <1>7, <1>8

(* One iteration of copy() completes the copy on top of the stack and adds *)
(* copies of its children, to be completed later.                          *)
LEMMA CopyStepMaps ==
    ASSUME TreeInv, CopyMapped, NEW k \in 0..(MaxLen + 1),
           NEW fresh \in [1..k -> Node \ alloc], CopyStep(fresh)
    PROVE  CopyMapped'
<1>1. PICK src, dst, one, xs, f :
        /\ src = todo[Len(todo)][1] /\ dst = todo[Len(todo)][2]
        /\ one = (IF this[src] = Nil THEN 0 ELSE 1)
        /\ xs = SubSeq(fresh, one + 1, Len(fresh))
        /\ f = IF one = 1 THEN fresh[1] ELSE Nil
  OBVIOUS
<1>2. /\ TypeOK /\ CopyInv /\ busy = "copy" /\ todo # <<>> /\ todo \in Seq(alloc \X alloc)
      /\ alloc \subseteq Node
      /\ Len(fresh) = Len(Args(src)) /\ IsInjective(fresh)
      /\ alloc' = alloc \cup Range(fresh)
      /\ text' = [text EXCEPT ![dst] = text[src]]
      /\ this' = [this EXCEPT ![dst] = f] /\ exprs' = [exprs EXCEPT ![dst] = xs]
      /\ link' = Relinked(dst, xs, WithThis(dst, f).link)
      /\ todo' = SubSeq(todo, 1, Len(todo) - 1)
                  \o [i \in DOMAIN fresh |-> <<Args(src)[i], fresh[i]>>]
      /\ root' = root
  BY <1>1 DEF TreeInv, HashInv, CopyStep, TypeOK
<1>3. PICK C \in SUBSET alloc : \E of \in [C -> alloc \ C] : Mirrors(C, of)
  BY <1>2 DEF CopyMapped
<1>4. PICK of \in [C -> alloc \ C] : Mirrors(C, of)
  BY <1>3
<1>5. Len(todo) \in Nat \ {0} /\ Len(todo) \in DOMAIN todo /\ DOMAIN todo = 1..Len(todo)
  BY <1>2
<1>6. dst \in C /\ src = of[dst] /\ src \in alloc \ C /\ dst \in alloc
  BY <1>1, <1>4, <1>5 DEF Mirrors
<1>7. src \in Node /\ dst \in Node /\ src # dst
  BY <1>2, <1>6
<1>8. /\ k \in Nat /\ DOMAIN fresh = 1..k /\ Len(fresh) = k /\ fresh \in Seq(Node \ alloc)
      /\ Range(fresh) \subseteq Node \ alloc
      /\ \A i, j \in 1..k : fresh[i] = fresh[j] => i = j
      /\ \A i \in 1..k : fresh[i] \in Range(fresh)
  <2>1. k \in Nat /\ DOMAIN fresh = 1..k /\ Len(fresh) = k /\ fresh \in Seq(Node \ alloc)
    BY BoundAssumption, SeqDef
  <2>2. \A i \in 1..k : fresh[i] \in Node \ alloc
    OBVIOUS
  <2>3. \A i, j \in 1..k : fresh[i] = fresh[j] => i = j
    BY <1>2, <2>1, Zenon DEF IsInjective
  <2>4. Range(fresh) \subseteq Node \ alloc /\ \A i \in 1..k : fresh[i] \in Range(fresh)
    BY <2>1, <2>2, Zenon DEF Range
  <2>5. QED
    BY <2>1, <2>3, <2>4
<1>9. /\ exprs[src] \in Seq(alloc) /\ Len(exprs[src]) \in Nat /\ one \in {0, 1}
      /\ DOMAIN exprs[src] = 1..Len(exprs[src])
      /\ k = Len(exprs[src]) + one
      /\ Args(src) \in Seq(alloc) /\ DOMAIN Args(src) = 1..k
      /\ one = 1 => Args(src)[1] = this[src]
      /\ one = 0 => this[src] = Nil
      /\ one = 1 => this[src] # Nil
      /\ \A j \in 1..Len(exprs[src]) : Args(src)[j + one] = exprs[src][j]
  <2>1. exprs[src] \in Seq(alloc) /\ Len(exprs[src]) \in Nat
    BY <1>2, <1>7 DEF TypeOK
  <2>2. Args(src) \in Seq(alloc) /\ Len(Args(src)) = Len(exprs[src]) + one
    BY <1>1, <1>2, <1>7, ArgsCoverKids
  <2>3. DOMAIN exprs[src] = 1..Len(exprs[src]) /\ DOMAIN Args(src) = 1..Len(Args(src))
    BY <2>1, <2>2
  <2>4. one \in {0, 1} /\ (one = 0 => this[src] = Nil) /\ (one = 1 => this[src] # Nil)
    BY <1>1
  <2>5. /\ this[src] # Nil => Args(src)[1] = this[src]
        /\ \A j \in DOMAIN exprs[src] : Args(src)[j + one] = exprs[src][j]
    BY <1>1, <1>2, <1>7, ArgsAt
  <2>6. QED
    BY <1>2, <1>8, <2>1, <2>2, <2>3, <2>4, <2>5
<1>10. /\ DOMAIN xs = 1..Len(exprs[src])
       /\ \A j \in 1..Len(exprs[src]) : xs[j] = fresh[j + one] /\ j + one \in 1..k
       /\ xs \in Seq(Node \ alloc)
  <2>1. one + 1 \in 1..2 /\ one \in {0, 1} /\ one <= k
    BY <1>9
  <2>2. /\ xs \in Seq(Node \ alloc) /\ Len(xs) = k - one
        /\ \A j \in 1..(k - one) : xs[j] = fresh[j + one]
    BY <1>1, <1>8, <2>1
  <2>3. k - one = Len(exprs[src]) /\ \A j \in 1..Len(exprs[src]) : j + one \in 1..k
    BY <1>9
  <2>4. DOMAIN xs = 1..Len(xs)
    BY <2>2
  <2>5. QED
    BY <2>2, <2>3, <2>4
<1>11. Range(xs) \subseteq Range(fresh) /\ f \in Range(fresh) \cup {Nil} /\ (one = 0 <=> f = Nil)
  <2>1. \A j \in DOMAIN xs : xs[j] \in Range(fresh)
    BY <1>8, <1>10
  <2>2. Range(xs) \subseteq Range(fresh)
    BY <2>1, Zenon DEF Range
  <2>3. one = 1 => 1 \in 1..k
    BY <1>9
  <2>4. Nil \notin Node
    BY NilAssumption
  <2>5. QED
    BY <1>1, <1>8, <1>9, <2>2, <2>3, <2>4
<1> DEFINE pos(x) == CHOOSE i \in 1..k : fresh[i] = x
<1>D. PICK D, on : /\ D = C \cup Range(fresh)
                   /\ on = [x \in D |-> IF x \in C THEN of[x] ELSE Args(src)[pos(x)]]
  OBVIOUS
<1>12. D \in SUBSET alloc' /\ alloc' \ D = alloc \ C /\ C \cap Range(fresh) = {}
  BY <1>2, <1>8, <1>D
<1>13. \A i \in 1..k : fresh[i] \in D /\ on[fresh[i]] = Args(src)[i]
  <2>1. \A i \in 1..k : pos(fresh[i]) = i
    BY <1>8
  <2> HIDE DEF pos
  <2>2. QED
    BY <1>8, <1>12, <1>D, <2>1
<1>14. \A x \in C : x \in D /\ on[x] = of[x]
  BY <1>D
<1>15. Kids(src) \subseteq alloc \ C /\ \A i \in 1..k : Args(src)[i] \in alloc \ C
  <2>1. Kids(src) \subseteq alloc \ C
    BY <1>2, <1>4, <1>6, <1>7, KidsConstructed DEF Mirrors
  <2>2. \A i \in 1..k : Args(src)[i] \in Kids(src)
    <3>1. ASSUME NEW i \in 1..k PROVE Args(src)[i] \in Kids(src)
      <4>1. CASE one = 1 /\ i = 1
        BY <1>9, <4>1 DEF Kids
      <4>2. CASE ~(one = 1 /\ i = 1)
        <5>1. i - one \in 1..Len(exprs[src]) /\ (i - one) + one = i
          BY <1>9, <4>2
        <5>2. Args(src)[i] = exprs[src][i - one]
          BY <1>9, <5>1
        <5>3. QED
          BY <1>9, <5>1, <5>2 DEF Kids, Range
      <4>3. QED
        BY <4>1, <4>2
    <3>2. QED
      BY <3>1
  <2>3. QED
    BY <2>1, <2>2
<1>16. on \in [D -> alloc' \ D]
  <2>1. \A x \in Range(fresh) : \E i \in 1..k : fresh[i] = x
    BY <1>8 DEF Range
  <2>2. \A x \in D : on[x] \in alloc \ C
    <3>1. \A x \in Range(fresh) : on[x] \in alloc \ C
      BY <1>13, <1>15, <2>1
    <3>2. \A x \in C : on[x] \in alloc \ C
      BY <1>14
    <3>3. QED
      BY <1>D, <3>1, <3>2
  <2>3. QED
    BY <1>12, <1>D, <2>2
<1> HIDE DEF pos
<1>17. \A m \in Node \ {dst} : this'[m] = this[m] /\ exprs'[m] = exprs[m] /\ text'[m] = text[m]
  BY <1>2 DEF TypeOK
<1>18. this'[dst] = f /\ exprs'[dst] = xs /\ text'[dst] = text[src]
  BY <1>2, <1>7 DEF TypeOK
<1>19. \A m \in Node \ {dst} : Kids(m)' = Kids(m)
  BY <1>17 DEF Kids
<1>20. \A m \in Node : /\ m \notin Range(fresh) => link'[m] = link[m]
                       /\ m \in Kids(dst)' => link'[m].parent = dst
  <2>1. WithThis(dst, f).link = IF f = Nil THEN link
           ELSE [link EXCEPT ![f] = [parent |-> dst, key |-> "this", index |-> 0]]
    BY DEF WithThis
  <2>2. \A m \in Node : link'[m] = IF m \in Range(xs)
              THEN [parent |-> dst, key |-> "expressions", index |-> LastIndex(xs, m)]
              ELSE WithThis(dst, f).link[m]
    BY <1>2, Zenon DEF Relinked
  <2>3. Kids(dst)' = ({f} \ {Nil}) \cup Range(xs)
    BY <1>18 DEF Kids
  <2>4. \A m \in Node : m \notin Range(fresh) => link'[m] = link[m]
    BY <1>2, <1>11, <2>1, <2>2 DEF TypeOK
  <2>5. ASSUME NEW m \in Kids(dst)', m \in Node PROVE link'[m].parent = dst
    <3>1. CASE m \in Range(xs)
      <4>1. link'[m] = [parent |-> dst, key |-> "expressions", index |-> LastIndex(xs, m)]
        BY <2>2, <2>5, <3>1
      <4>2. QED
        BY <4>1
    <3>2. CASE m \notin Range(xs)
      <4>1. m = f /\ f # Nil /\ link \in [Node -> Link]
        BY <1>2, <2>3, <2>5, <3>2 DEF TypeOK
      <4>2. link'[m] = WithThis(dst, f).link[m]
        BY <2>2, <2>5, <3>2
      <4>3. QED
        BY <2>1, <2>5, <4>1, <4>2
    <3>3. QED
      BY <3>1, <3>2
  <2>6. QED
    BY <2>4, <2>5
<1>21. Stands(D, on, dst)'
  <2>1. on[dst] = src
    BY <1>6, <1>14
  <2>2. this'[src] = this[src] /\ exprs'[src] = exprs[src] /\ text'[src] = text[src]
    BY <1>7, <1>17
  <2>3. IF f = Nil THEN this[src] = Nil ELSE f \in D /\ on[f] = this[src]
    <3>1. CASE one = 0
      BY <1>9, <1>11, <3>1
    <3>2. CASE one = 1
      <4>1. f = fresh[1] /\ 1 \in 1..k
        <5>1. k = Len(exprs[src]) + 1 /\ Len(exprs[src]) \in Nat
          BY <1>9, <3>2
        <5>2. f = fresh[1]
          BY <1>1, <3>2
        <5>3. QED
          BY <5>1, <5>2
      <4>2. QED
        BY <1>9, <1>11, <1>13, <3>2, <4>1
    <3>3. QED
      BY <1>9, <3>1, <3>2
  <2>4. \A i \in DOMAIN xs : xs[i] \in D /\ on[xs[i]] = exprs[src][i]
    BY <1>9, <1>10, <1>13
  <2>5. Intact(dst)'
    <3>1. Kids(dst)' \subseteq Node
      BY <1>8, <1>11, <1>18 DEF Kids
    <3>2. QED
      BY <1>20, <3>1 DEF Intact
  <2>6. DOMAIN xs = DOMAIN exprs[src]
    BY <1>9, <1>10
  <2>7. QED
    BY <1>18, <2>1, <2>2, <2>3, <2>4, <2>5, <2>6, Zenon DEF Stands
<1>22. ASSUME NEW d \in C, d # dst, Stands(C, of, d)
       PROVE  Stands(D, on, d)'
  <2>1. d \in Node /\ of[d] \in Node /\ of[d] # dst /\ on[d] = of[d]
    BY <1>2, <1>6, <1>14, <1>22
  <2>2. /\ this'[d] = this[d] /\ exprs'[d] = exprs[d] /\ text'[d] = text[d]
        /\ this'[of[d]] = this[of[d]] /\ exprs'[of[d]] = exprs[of[d]]
        /\ text'[of[d]] = text[of[d]]
    BY <1>17, <1>22, <2>1
  <2>3. Intact(d)'
    <3>1. Kids(d)' = Kids(d) /\ Kids(d) \subseteq alloc
      BY <1>2, <1>19, <1>22, <2>1, KidsConstructed
    <3>2. \A m \in Kids(d) : link'[m] = link[m]
      BY <1>2, <1>8, <1>20, <3>1
    <3>3. QED
      BY <1>22, <3>1, <3>2 DEF Intact, Stands
  <2>4. IF this[d] = Nil THEN this[of[d]] = Nil ELSE this[d] \in D /\ on[this[d]] = this[of[d]]
    BY <1>14, <1>22 DEF Stands
  <2>5. /\ DOMAIN exprs[d] = DOMAIN exprs[of[d]] /\ text[d] = text[of[d]]
        /\ \A i \in DOMAIN exprs[d] : exprs[d][i] \in D /\ on[exprs[d][i]] = exprs[of[d]][i]
    BY <1>14, <1>22 DEF Stands
  <2>6. QED
    BY <2>1, <2>2, <2>3, <2>4, <2>5, Zenon DEF Stands
<1>23. PICK L :
         /\ L \in Nat /\ DOMAIN todo = 1..(L + 1) /\ Len(todo) = L + 1
         /\ DOMAIN todo' = 1..(L + k)
         /\ \A i \in 1..L : todo'[i] = todo[i]
         /\ \A i \in 1..k : todo'[L + i] = <<Args(src)[i], fresh[i]>>
  <2>1. PICK P, b, L : /\ P = Node \X Node /\ L = Len(todo) - 1
                       /\ b = [i \in 1..k |-> <<Args(src)[i], fresh[i]>>]
    OBVIOUS
  <2>2. todo \in Seq(P)
    <3>1. alloc \X alloc \subseteq P
      BY <1>2, <2>1
    <3>2. QED
      BY <1>2, <3>1, SeqMonotonic
  <2>3. b \in [1..k -> P]
    <3>1. \A i \in 1..k : Args(src)[i] \in Node /\ fresh[i] \in Node
      BY <1>2, <1>8, <1>15
    <3>2. QED
      BY <2>1, <3>1
  <2>4. todo' = SubSeq(todo, 1, Len(todo) - 1) \o b
    BY <1>2, <1>8, <2>1
  <2>5. /\ L \in Nat /\ DOMAIN todo = 1..(L + 1) /\ DOMAIN todo' = 1..(L + k)
        /\ \A i \in 1..L : todo'[i] = todo[i]
        /\ \A i \in 1..k : todo'[L + i] = b[i]
    <3>1. L = Len(todo) - 1 /\ todo # <<>> /\ k \in Nat
      BY <1>2, <1>8, <2>1
    <3>2. Pushed(P, todo, L, b, k, todo')
      BY <2>2, <2>3, <2>4, <3>1 DEF Pushed
    <3>3. QED
      BY <3>2, PoppedAndPushed
  <2>6. \A i \in 1..k : b[i] = <<Args(src)[i], fresh[i]>>
    BY <2>1
  <2>7. Len(todo) = L + 1
    BY <1>5, <2>1
  <2>8. QED
    BY <2>5, <2>6, <2>7
<1>24. Mirrors(D, on)'
  <2>1. /\ \A i \in 1..L : todo'[i] = todo[i] /\ i \in DOMAIN todo /\ i \in DOMAIN todo'
        /\ \A i \in 1..k : todo'[L + i] = <<Args(src)[i], fresh[i]>> /\ L + i \in DOMAIN todo'
        /\ \A i \in DOMAIN todo : i \in 1..L \/ i = Len(todo)
        /\ \A i \in DOMAIN todo' : i \in 1..L \/ \E j \in 1..k : i = L + j
    <3>1. L \in Nat /\ k \in Nat
      BY <1>8, <1>23
    <3>2. \A i \in 1..(L + k) : i \in 1..L \/ (i - L \in 1..k /\ i = L + (i - L))
      BY <3>1
    <3>3. \A i \in 1..L : i \in 1..(L + k) /\ i \in 1..(L + 1)
      BY <3>1
    <3>4. \A i \in 1..k : L + i \in 1..(L + k)
      BY <3>1
    <3>5. \A i \in 1..(L + 1) : i \in 1..L \/ i = L + 1
      BY <3>1
    <3>6. QED
      BY <1>23, <3>2, <3>3, <3>4, <3>5
  <2>2. root' \in D
    BY <1>2, <1>4, <1>14 DEF Mirrors
  <2>3. \A m \in (alloc \ D)' : Kids(m)' \cap D = {}
    <3>1. ASSUME NEW m \in alloc \ C PROVE Kids(m)' \cap D = {}
      <4>1. m \in Node \ {dst}
        BY <1>2, <1>6, <3>1
      <4>2. Kids(m)' = Kids(m) /\ Kids(m) \subseteq alloc /\ Kids(m) \cap C = {}
        BY <1>2, <1>4, <1>19, <3>1, <4>1, KidsConstructed DEF Mirrors
      <4>3. QED
        BY <1>8, <1>D, <4>2
    <3>2. QED
      BY <1>12, <3>1
  <2>4. \A i \in DOMAIN todo' : todo'[i][2] \in D /\ todo'[i][1] = on[todo'[i][2]]
    <3>1. \A i \in 1..L : todo'[i][2] \in D /\ todo'[i][1] = on[todo'[i][2]]
      BY <1>4, <1>14, <2>1 DEF Mirrors
    <3>2. \A i \in 1..k : todo'[L + i][2] \in D /\ todo'[L + i][1] = on[todo'[L + i][2]]
      BY <1>13, <2>1
    <3>3. QED
      BY <2>1, <3>1, <3>2
  <2>5. ASSUME NEW d \in D
        PROVE  (\E i \in DOMAIN todo' : todo'[i][2] = d) \/ Stands(D, on, d)'
    <3>1. CASE d \in Range(fresh)
      <4>1. PICK i \in 1..k : fresh[i] = d
        BY <1>8, <3>1 DEF Range
      <4>2. QED
        BY <2>1, <4>1
    <3>2. CASE d = dst
      BY <1>21, <3>2
    <3>3. CASE d \in C /\ d # dst
      <4>1. CASE \E i \in DOMAIN todo : todo[i][2] = d
        <5>1. PICK i \in DOMAIN todo : todo[i][2] = d
          BY <4>1
        <5>2. i # Len(todo)
          BY <1>1, <3>3, <5>1
        <5>3. QED
          BY <2>1, <5>1, <5>2
      <4>2. CASE Stands(C, of, d)
        BY <1>22, <3>3, <4>2
      <4>3. QED
        BY <1>4, <3>3, <4>1, <4>2 DEF Mirrors
    <3>4. QED
      BY <1>D, <3>1, <3>2, <3>3
  <2>6. QED
    BY <2>2, <2>3, <2>4, <2>5 DEF Mirrors
<1>25. QED
  BY <1>12, <1>16, <1>24 DEF CopyMapped

(* Nothing but copy() runs while copy() does.                              *)
LEMMA NextKeepsMap == TreeInv /\ CopyMapped /\ [Next]_vars => CopyMapped'
<1> SUFFICES ASSUME TreeInv, CopyMapped, [Next]_vars
             PROVE  CopyMapped'
  OBVIOUS
<1>1. CASE busy = "idle" /\ Mutation
  <2>1. busy' = "idle"
    BY <1>1 DEF Mutation, Building, Construct, SetText, SetThis, SetList, SetItem,
       AppendChild, Pop, Replace, ReplaceByList, Commit, loop
  <2>2. QED
    BY <2>1 DEF CopyMapped
<1>2. CASE Hashing
  <2>1. busy' # "copy"
    BY <1>2 DEF Hashing, HashBegin, Visit, Push, Collected, Fill, HashReturn
  <2>2. QED
    BY <2>1 DEF CopyMapped
<1>3. CASE Copying
  <2>1. ASSUME CopyReturn PROVE CopyMapped'
    BY <2>1 DEF CopyReturn, CopyMapped
  <2>2. QED
    BY <1>3, <2>1, CopyBeginMaps, CopyStepMaps DEF Copying
<1>4. CASE UNCHANGED vars
  BY <1>4 DEF vars, CopyMapped, Mirrors, Stands, Intact, Kids
<1>5. QED
  BY <1>1, <1>2, <1>3, <1>4 DEF Next

(* When the stack is empty every copy is complete, and what is below a     *)
(* copy is copies, what is below any other node none.                      *)
LEMMA CopyIsApart ==
    ASSUME TreeInv, NEW C \in SUBSET alloc, NEW of \in [C -> alloc \ C],
           Mirrors(C, of), todo = <<>>
    PROVE  /\ root \in C /\ \A d \in C : Stands(C, of, d) /\ Kids(d) \subseteq C
           /\ \A d \in C : Below(d) \subseteq C
           /\ \A m \in alloc \ C : Below(m) \cap C = {}
<1>1. TypeOK /\ IsFiniteSet(alloc) /\ alloc \subseteq Node
  BY DEF TreeInv, HashInv, TypeOK
<1>2. root \in C /\ \A d \in C : Stands(C, of, d)
  BY DEF Mirrors
<1>3. \A d \in C : Kids(d) \subseteq C
  <2>1. ASSUME NEW d \in C PROVE Kids(d) \subseteq C
    <3>1. this[d] # Nil => this[d] \in C
      BY <1>2 DEF Stands
    <3>2. \A i \in DOMAIN exprs[d] : exprs[d][i] \in C
      BY <1>2 DEF Stands
    <3>3. QED
      BY <3>1, <3>2 DEF Kids, Range
  <2>2. QED
    BY <2>1
<1>4. Closed(C)
  BY <1>3 DEF Closed
<1>5. Closed(alloc \ C)
  <2>1. \A m \in alloc \ C : Kids(m) \subseteq alloc /\ Kids(m) \cap C = {}
    BY <1>1, KidsConstructed DEF Mirrors
  <2>2. QED
    BY <2>1 DEF Closed
<1>6. \A d \in C : Below(d) \subseteq C
  BY <1>1, <1>4, BelowIsLeast
<1>7. \A m \in alloc \ C : Below(m) \cap C = {}
  BY <1>1, <1>5, BelowIsLeast
<1>8. QED
  BY <1>2, <1>3, <1>6, <1>7

(* A complete copy has the structure of its source. *)
LEMMA CopyHasTheTerm ==
    ASSUME TreeInv, NEW C \in SUBSET alloc, NEW of \in [C -> alloc \ C],
           \A d \in C : Stands(C, of, d) /\ Kids(d) \subseteq C
    PROVE  \A d \in C : Terms[d] = Terms[of[d]]
<1> DEFINE S == {d \in C : Terms[d] # Terms[of[d]]}
<1>1. SUFFICES ASSUME S # {} PROVE FALSE
  OBVIOUS
<1>2. alloc \subseteq Node /\ Nil \notin Node
  BY NilAssumption DEF TreeInv, HashInv, TypeOK
<1>3. PICK d \in S : Kids(d) \cap S = {}
  <2>1. S \in SUBSET Node
    BY <1>2
  <2>2. QED
    BY <1>1, <2>1 DEF TreeInv, Acyclic
<1> DEFINE o == of[d]
<1>4. d \in C /\ d \in Node /\ o \in Node /\ Terms[d] # Terms[o]
  BY <1>2, <1>3
<1>5. Stands(C, of, d)
  BY <1>4
<1>6. \A c \in Kids(d) : c \in C /\ Terms[c] = Terms[of[c]]
  BY <1>3, <1>4
<1> HIDE DEF o
<1>7. IF this[d] = Nil THEN this[o] = Nil
      ELSE this[d] \in Kids(d) /\ this[d] \in C /\ of[this[d]] = this[o]
  BY <1>5 DEF Stands, Kids, o
<1>8. \A i \in DOMAIN exprs[d] : exprs[d][i] \in Kids(d) /\ of[exprs[d][i]] = exprs[o][i]
  BY <1>5, Zenon DEF Stands, Kids, Range, o
<1>9. DOMAIN exprs[d] = DOMAIN exprs[o] /\ text[d] = text[o]
  BY <1>5 DEF Stands, o
<1>10. \A i \in DOMAIN exprs[o] : Terms[exprs[d][i]] = Terms[exprs[o][i]]
  BY <1>6, <1>8, <1>9
<1>11. /\ (this[d] = Nil) = (this[o] = Nil)
       /\ this[o] # Nil => Terms[this[d]] = Terms[this[o]]
  <2>1. CASE this[d] = Nil
    BY <1>7, <2>1
  <2>2. CASE this[d] # Nil
    <3>1. this[d] \in Kids(d) /\ this[d] \in C /\ of[this[d]] = this[o]
      BY <1>7, <2>2
    <3>2. this[o] # Nil
      BY <1>2, <3>1
    <3>3. QED
      BY <1>6, <2>2, <3>1, <3>2
  <2>3. QED
    BY <2>1, <2>2
<1>12. [i \in DOMAIN exprs[d] |-> Terms[exprs[d][i]]]
        = [i \in DOMAIN exprs[o] |-> Terms[exprs[o][i]]]
  BY <1>9, <1>10
<1>13. TermOf(Terms, d) = TermOf(Terms, o)
  <2>1. (IF this[d] = Nil THEN {} ELSE Terms[this[d]])
         = (IF this[o] = Nil THEN {} ELSE Terms[this[o]])
    BY <1>11
  <2>2. QED
    BY <1>9, <1>12, <2>1, Zenon DEF TermOf
<1>14. QED
  BY <1>4, <1>13, TermsUnfold

(* core.js:238-251: whatever calls came before, a finished copy has the    *)
(* structure of a source it shares no node with, every back link in it is  *)
(* right, and every hash in it is the one its own arguments justify.       *)
THEOREM CopiesAreFaithful == Spec => CopyFaithful
<1> DEFINE fresh == Below(root)
           Faithful == /\ \E src \in alloc \ fresh :
                            Terms[src] = Terms[root] /\ Below(src) \cap fresh = {}
                       /\ \A m \in fresh :
                            Intact(m) /\ (hash[m] # {} => hash[m] = Terms[m])
<1>1. ASSUME TreeInv, CopyMapped, CopyReturn PROVE Faithful
  <2>1. busy = "copy" /\ todo = <<>>
    BY <1>1 DEF CopyReturn
  <2>2. PICK C \in SUBSET alloc : \E of \in [C -> alloc \ C] : Mirrors(C, of)
    BY <1>1, <2>1 DEF CopyMapped
  <2>3. PICK of \in [C -> alloc \ C] : Mirrors(C, of)
    BY <2>2
  <2>4. /\ root \in C /\ \A d \in C : Stands(C, of, d) /\ Kids(d) \subseteq C
        /\ \A d \in C : Below(d) \subseteq C
        /\ \A m \in alloc \ C : Below(m) \cap C = {}
    BY <1>1, <2>1, <2>3, CopyIsApart
  <2>5. TypeOK /\ IsFiniteSet(alloc) /\ alloc \subseteq Node
    BY <1>1 DEF TreeInv, HashInv, TypeOK
  <2>6. \E src \in alloc \ fresh : Terms[src] = Terms[root] /\ Below(src) \cap fresh = {}
    <3>1. of[root] \in alloc \ C /\ fresh \subseteq C
      BY <2>4
    <3>2. Terms[root] = Terms[of[root]]
      BY <1>1, <2>4, CopyHasTheTerm
    <3>3. Below(of[root]) \cap fresh = {}
      BY <2>4, <3>1
    <3>4. QED
      BY <3>1, <3>2, <3>3
  <2>7. ASSUME NEW m \in fresh
        PROVE  Intact(m) /\ (hash[m] # {} => hash[m] = Terms[m])
    <3>1. m \in C /\ m \in alloc /\ m \in Node
      BY <2>4, <2>5, <2>7
    <3>2. Intact(m)
      BY <2>4, <3>1 DEF Stands
    <3>3. Sound(m)
      BY <2>4, <3>1 DEF Sound, Stands
    <3>4. QED
      BY <1>1, <3>1, <3>2, <3>3, HashedIsTerm
  <2>8. QED
    BY <2>6, <2>7
<1>2. Init => CopyMapped
  BY DEF Init, CopyMapped
<1>3. TreeInv /\ CopyMapped => [CopyReturn => Faithful]_vars
  BY <1>1
<1>4. Spec => [][CopyReturn => Faithful]_vars
  BY <1>2, <1>3, StaysTree, NextKeepsMap, PTL DEF Spec
<1>5. QED
  BY <1>4 DEF CopyFaithful
=============================================================================
