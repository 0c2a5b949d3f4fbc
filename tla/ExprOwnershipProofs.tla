------------------------ MODULE ExprOwnershipProofs ------------------------
(* Proofs about the caller that keeps the ownership convention: back links *)
(* are exact, pop() takes out what it should, and a reverted rule leaves   *)
(* the tree as it found it, on any set of nodes.                           *)
EXTENDS ExprJournal, ExprTreeProofs

-----------------------------------------------------------------------------
(* The arguments of one node against the back links of its children.       *)

Slot(n, key, i) == [parent |-> n, key |-> key, index |-> i]

LEMMA SlotFields ==
    ASSUME NEW n, NEW key, NEW i, NEW k
    PROVE  /\ Slot(n, key, i).parent = n /\ Slot(n, key, i).key = key
           /\ Slot(n, key, i).index = i
           /\ [Slot(n, key, i) EXCEPT !.index = k] = Slot(n, key, k)
BY DEF Slot

(* What exact links say of a node whose children all point back to it.     *)
LEMMA ExactSlots ==
    ASSUME TypeOK, LinkExact, NEW n \in Node, Intact(n)
    PROVE  /\ this[n] # Nil => /\ link[this[n]] = Slot(n, "this", 0)
                               /\ this[n] \notin Range(exprs[n])
           /\ IsInjective(exprs[n])
           /\ \A i \in DOMAIN exprs[n] :
                link[exprs[n][i]] = Slot(n, "expressions", i)
           /\ exprs[n] \in Seq(alloc) /\ Range(exprs[n]) \subseteq Kids(n)
           /\ Kids(n) \subseteq Node
<1>0. exprs[n] \in Seq(alloc) /\ alloc \subseteq Node /\ this[n] \in alloc \cup {Nil}
  BY DEF TypeOK
<1>1. \A c \in Kids(n) : NamesItsSlot(c, n) /\ link[c].parent = n
  BY DEF LinkExact, Intact
<1>2. /\ Range(exprs[n]) \subseteq Kids(n) /\ Kids(n) \subseteq Node
      /\ \A i \in DOMAIN exprs[n] : exprs[n][i] \in Range(exprs[n])
      /\ this[n] # Nil => this[n] \in Kids(n)
  BY <1>0 DEF Kids, Range
<1>3. this[n] # Nil => /\ link[this[n]] = Slot(n, "this", 0)
                       /\ this[n] \notin Range(exprs[n])
  BY <1>1, <1>2 DEF NamesItsSlot, Slot
<1>4. \A i \in DOMAIN exprs[n] :
         /\ link[exprs[n][i]].key = "expressions" /\ link[exprs[n][i]].parent = n
         /\ {j \in DOMAIN exprs[n] : exprs[n][j] = exprs[n][i]} = {link[exprs[n][i]].index}
  BY <1>1, <1>2 DEF NamesItsSlot
<1>5. \A i, j \in DOMAIN exprs[n] :
         exprs[n][j] = exprs[n][i] => j = link[exprs[n][i]].index
  BY <1>4
<1>6. IsInjective(exprs[n])
  BY <1>5 DEF IsInjective
<1>7. \A i \in DOMAIN exprs[n] :
         link[exprs[n][i]] = Slot(n, "expressions", i)
  <2>1. SUFFICES ASSUME NEW i \in DOMAIN exprs[n]
                 PROVE  link[exprs[n][i]] = Slot(n, "expressions", i)
    OBVIOUS
  <2>2. link[exprs[n][i]] \in Link /\ n # Nil
    BY <1>2, NilAssumption DEF TypeOK
  <2>3. link[exprs[n][i]].key = "expressions" /\ link[exprs[n][i]].parent = n
        /\ link[exprs[n][i]].index = i
    BY <1>4, <1>5
  <2>4. QED
    BY <2>2, <2>3 DEF Link, Slot
<1>8. QED
  BY <1>0, <1>2, <1>3, <1>6, <1>7

(* A node with distinct children, each pointing at its own slot or to      *)
(* another node, is named exactly.                                         *)
LEMMA SlotsExact ==
    ASSUME NEW n \in Node, NEW xs, NEW v,
           exprs'[n] = xs, this'[n] = v, IsInjective(xs), v \notin Range(xs),
           v # Nil /\ link'[v].parent = n =>
              link'[v] = Slot(n, "this", 0),
           \A i \in DOMAIN xs : link'[xs[i]].parent = n =>
              link'[xs[i]].key = "expressions" /\ link'[xs[i]].index = i
    PROVE  \A c \in Kids(n)' : link'[c].parent = n => NamesItsSlot(c, n)'
<1>1. SUFFICES ASSUME NEW c \in Kids(n)', link'[c].parent = n
               PROVE  NamesItsSlot(c, n)'
  OBVIOUS
<1>2. (c = v /\ v # Nil) \/ \E i \in DOMAIN xs : c = xs[i]
  BY DEF Kids, Range
<1>3. CASE c = v /\ v # Nil
  BY <1>1, <1>3 DEF NamesItsSlot, Slot
<1>4. CASE \E i \in DOMAIN xs : c = xs[i]
  <2>1. PICK i \in DOMAIN xs : c = xs[i]
    BY <1>4
  <2>2. c # v /\ link'[c].key = "expressions" /\ link'[c].index = i
    BY <1>1, <2>1 DEF Range
  <2>3. \A j \in DOMAIN xs : xs[j] = c <=> j = i
    BY <2>1 DEF IsInjective
  <2>4. {j \in DOMAIN xs : xs[j] = c} = {i}
    BY <2>1, <2>3
  <2>5. QED
    BY <2>2, <2>4 DEF NamesItsSlot
<1>5. QED
  BY <1>2, <1>3, <1>4

(* Links stay exact when the arguments of one node n change, if every node *)
(* that is relinked then points to n or nowhere and n is named exactly.    *)
LEMMA ExactAfterWrite ==
    ASSUME LinkExact, NEW n \in Node,
           \A m \in Node \ {n} : this'[m] = this[m] /\ exprs'[m] = exprs[m],
           \A m \in Node \ {n} : \A c \in Kids(m) :
              link'[c].parent = m => link'[c] = link[c],
           \A c \in Kids(n)' : link'[c].parent = n => NamesItsSlot(c, n)'
    PROVE  LinkExact'
<1>1. SUFFICES ASSUME NEW m \in Node \ {n}, NEW c \in Kids(m)', link'[c].parent = m
               PROVE  NamesItsSlot(c, m)'
  BY DEF LinkExact
<1>2. Kids(m)' = Kids(m)
  BY DEF Kids
<1>3. link'[c] = link[c] /\ NamesItsSlot(c, m)
  BY <1>1, <1>2 DEF LinkExact
<1>4. QED
  BY <1>3 DEF NamesItsSlot

-----------------------------------------------------------------------------
(* Lists of distinct nodes.                                                *)

(* In a list without repetition the last position of an element is its     *)
(* position.                                                               *)
LEMMA LastIndexOfDistinct ==
    ASSUME NEW S, NEW xs \in Seq(S), IsInjective(xs), NEW i \in DOMAIN xs
    PROVE  LastIndex(xs, xs[i]) = i
<1>1. Len(xs) \in Nat /\ i \in 1..Len(xs) /\ DOMAIN xs = 1..Len(xs)
  OBVIOUS
<1>2. \A j \in 1..Len(xs) : xs[j] = xs[i] => j = i
  BY <1>1 DEF IsInjective
<1>3. \A k \in 1..Len(xs) : (\E j \in k..Len(xs) : xs[j] = xs[i]) <=> k <= i
  BY <1>1, <1>2
<1>4. {k \in 1..Len(xs) : \E j \in k..Len(xs) : xs[j] = xs[i]} = 1..i
  BY <1>1, <1>3
<1>5. Cardinality(1..i) = i
  BY <1>1, FS_Interval
<1>6. QED
  BY <1>4, <1>5 DEF LastIndex

(* Where the elements of a spliced list come from.                         *)
SplicedFrom(S, xs, i, gone, ys, zs) ==
    /\ zs \in Seq(S)
    /\ Len(zs) = Len(xs) - gone + Len(ys)
    /\ \A j \in DOMAIN zs :
          /\ j < i => zs[j] = xs[j]
          /\ j >= i /\ j < i + Len(ys) => zs[j] = ys[j - i + 1]
          /\ j >= i + Len(ys) => zs[j] = xs[j - Len(ys) + gone]

LEMMA SplicedPositions ==
    ASSUME NEW S, NEW xs \in Seq(S), NEW ys \in Seq(S), NEW i \in 1..Len(xs),
           NEW gone \in 0..1, NEW zs, zs = Spliced(xs, i, gone, ys)
    PROVE  SplicedFrom(S, xs, i, gone, ys, zs)
<1>1. Len(xs) \in Nat /\ Len(ys) \in Nat /\ i \in 1..Len(xs) /\ i \in Int /\ gone \in Int
  OBVIOUS
<1>2. PICK a, b : a = SubSeq(xs, 1, i - 1) /\ b = SubSeq(xs, i + gone, Len(xs))
  OBVIOUS
<1>3. a \in Seq(S) /\ Len(a) = i - 1 /\ \A j \in 1..(i - 1) : a[j] = xs[j]
  <2>1. \A j \in 1..(i - 1) : xs[j] \in S
    BY <1>1
  <2>2. QED
    BY <1>1, <1>2, <2>1, SubSeqProperties
<1>4. /\ b \in Seq(S) /\ Len(b) = Len(xs) - i - gone + 1
      /\ \A j \in 1..(Len(xs) - i - gone + 1) : b[j] = xs[i + gone + j - 1]
  <2>1. \A j \in (i + gone)..Len(xs) : xs[j] \in S
    BY <1>1
  <2>2. QED
    BY <1>1, <1>2, <2>1, SubSeqProperties
<1>5. PICK c : c = a \o ys
  OBVIOUS
<1>6. /\ c \in Seq(S) /\ Len(c) = i - 1 + Len(ys)
      /\ \A j \in 1..(i - 1 + Len(ys)) : c[j] = IF j <= i - 1 THEN a[j] ELSE ys[j - (i - 1)]
  <2>1. a \in Seq(S) /\ Len(a) = i - 1
    BY <1>3
  <2>2. /\ c \in Seq(S) /\ Len(c) = Len(a) + Len(ys)
        /\ \A j \in 1..(Len(a) + Len(ys)) :
              c[j] = IF j <= Len(a) THEN a[j] ELSE ys[j - Len(a)]
    BY <1>5, <2>1, ConcatProperties
  <2>3. QED
    BY <2>1, <2>2, Zenon
<1>7. zs = c \o b
  BY <1>2, <1>5 DEF Spliced
<1>8. /\ zs \in Seq(S) /\ Len(zs) = Len(c) + Len(b)
      /\ \A j \in 1..(Len(c) + Len(b)) :
            zs[j] = IF j <= Len(c) THEN c[j] ELSE b[j - Len(c)]
  <2>1. c \in Seq(S) /\ b \in Seq(S)
    BY <1>4, <1>6
  <2>2. QED
    BY <1>7, <2>1, ConcatProperties
<1>9. Len(zs) = Len(xs) - gone + Len(ys) /\ DOMAIN zs = 1..(Len(c) + Len(b))
  <2>1. Len(zs) = Len(xs) - gone + Len(ys)
    BY <1>1, <1>4, <1>6, <1>8
  <2>2. QED
    BY <1>8, <2>1, LenProperties
<1>10. ASSUME NEW j \in 1..Len(zs)
       PROVE  /\ j < i => zs[j] = xs[j]
              /\ j >= i /\ j < i + Len(ys) => zs[j] = ys[j - i + 1]
              /\ j >= i + Len(ys) => zs[j] = xs[j - Len(ys) + gone]
  <2>1. j \in 1..(Len(c) + Len(b)) /\ j \in Int
    BY <1>4, <1>6, <1>8, <1>10
  <2>2. ASSUME j <= Len(c)
        PROVE  zs[j] = c[j] /\ j \in 1..(i - 1 + Len(ys))
    BY <1>1, <1>6, <1>8, <2>1, <2>2
  <2>3. j < i => zs[j] = xs[j]
    <3>1. SUFFICES ASSUME j < i
                   PROVE  zs[j] = xs[j]
      OBVIOUS
    <3>2. j <= Len(c) /\ j <= i - 1 /\ j \in 1..(i - 1)
      BY <1>1, <1>6, <2>1, <3>1
    <3>3. QED
      BY <1>3, <1>6, <2>2, <3>2
  <2>4. j >= i /\ j < i + Len(ys) => zs[j] = ys[j - i + 1]
    <3>1. SUFFICES ASSUME j >= i, j < i + Len(ys)
                   PROVE  zs[j] = ys[j - i + 1]
      OBVIOUS
    <3>2. j <= Len(c) /\ ~ (j <= i - 1) /\ j - (i - 1) = j - i + 1
      BY <1>1, <1>6, <2>1, <3>1
    <3>3. QED
      BY <1>6, <2>2, <3>2
  <2>5. j >= i + Len(ys) => zs[j] = xs[j - Len(ys) + gone]
    <3>1. SUFFICES ASSUME j >= i + Len(ys)
                   PROVE  zs[j] = xs[j - Len(ys) + gone]
      OBVIOUS
    <3>2. PICK k \in Int : k = j - Len(c)
      <4>1. Len(c) \in Int
        BY <1>6
      <4>2. j - Len(c) \in Int
        BY <4>1
      <4>3. QED
        BY <4>2
    <3>3. /\ ~ (j <= Len(c)) /\ k \in 1..(Len(xs) - i - gone + 1)
          /\ i + gone + k - 1 = j - Len(ys) + gone
      <4>1. Len(b) = Len(xs) - i - gone + 1 /\ Len(c) = i - 1 + Len(ys)
        BY <1>4, <1>6
      <4>2. /\ j <= (i - 1 + Len(ys)) + (Len(xs) - i - gone + 1)
            /\ k = j - (i - 1 + Len(ys)) /\ Len(ys) >= 0
            /\ Len(xs) \in Int /\ Len(ys) \in Int
        BY <1>1, <2>1, <3>2, <4>1
      <4>3. /\ ~ (j <= i - 1 + Len(ys)) /\ k \in 1..(Len(xs) - i - gone + 1)
            /\ i + gone + k - 1 = j - Len(ys) + gone
        BY <3>1, <4>2
      <4>4. QED
        BY <4>1, <4>3, Zenon
    <3>4. zs[j] = b[k]
      BY <1>8, <2>1, <3>2, <3>3
    <3>5. b[k] = xs[i + gone + k - 1]
      BY <1>4, <3>3
    <3>6. QED
      BY <3>3, <3>4, <3>5, Zenon
  <2>6. QED
    BY <2>3, <2>4, <2>5
<1>11. QED
  BY <1>8, <1>9, <1>10, LenProperties DEF SplicedFrom

(* Splicing distinct new elements into a list keeps its elements distinct. *)
SplicedApart(xs, i, gone, ys, zs) ==
    /\ IsInjective(zs)
    /\ Range(zs) \subseteq Range(xs) \cup Range(ys)
    /\ gone = 1 /\ xs[i] \notin Range(ys) => xs[i] \notin Range(zs)

LEMMA SplicedDistinct ==
    ASSUME NEW S, NEW xs \in Seq(S), NEW ys \in Seq(S), NEW i \in 1..Len(xs),
           NEW gone \in 0..1, IsInjective(xs), IsInjective(ys),
           \A j \in DOMAIN ys, k \in DOMAIN xs : ys[j] = xs[k] => k = i /\ gone = 1,
           NEW zs, zs = Spliced(xs, i, gone, ys)
    PROVE  SplicedApart(xs, i, gone, ys, zs)
<1>1. /\ Len(xs) \in Nat /\ Len(ys) \in Nat /\ i \in 1..Len(xs)
      /\ DOMAIN xs = 1..Len(xs) /\ DOMAIN ys = 1..Len(ys)
  OBVIOUS
<1>2. /\ zs \in Seq(S) /\ DOMAIN zs = 1..(Len(xs) - gone + Len(ys))
      /\ \A j \in DOMAIN zs :
            /\ j < i => zs[j] = xs[j]
            /\ j >= i /\ j < i + Len(ys) => zs[j] = ys[j - i + 1]
            /\ j >= i + Len(ys) => zs[j] = xs[j - Len(ys) + gone]
  <2>1. SplicedFrom(S, xs, i, gone, ys, zs)
    BY SplicedPositions
  <2>2. zs \in Seq(S) /\ Len(zs) = Len(xs) - gone + Len(ys)
    BY <2>1 DEF SplicedFrom
  <2>3. DOMAIN zs = 1..(Len(xs) - gone + Len(ys))
    BY <2>2, LenProperties
  <2>4. QED
    BY <2>1, <2>3 DEF SplicedFrom
<1>3. \A j \in DOMAIN zs :
         /\ j < i => j \in DOMAIN xs /\ zs[j] = xs[j]
         /\ j >= i /\ j < i + Len(ys) => j - i + 1 \in DOMAIN ys /\ zs[j] = ys[j - i + 1]
         /\ j >= i + Len(ys) => /\ j - Len(ys) + gone \in DOMAIN xs
                                /\ zs[j] = xs[j - Len(ys) + gone]
  BY <1>1, <1>2
<1>4. IsInjective(zs)
  <2>1. SUFFICES ASSUME NEW j \in DOMAIN zs, NEW k \in DOMAIN zs, zs[j] = zs[k]
                 PROVE  j = k
    BY DEF IsInjective
  <2>2. j \in Int /\ k \in Int
    BY <1>1, <1>2
  <2>3. CASE j >= i /\ j < i + Len(ys) /\ k >= i /\ k < i + Len(ys)
    BY <1>1, <1>3, <2>1, <2>2, <2>3 DEF IsInjective
  <2>4. CASE /\ ~ (j >= i /\ j < i + Len(ys)) /\ ~ (k >= i /\ k < i + Len(ys))
    BY <1>1, <1>3, <2>1, <2>2, <2>4 DEF IsInjective
  <2>5. CASE (j >= i /\ j < i + Len(ys)) /\ ~ (k >= i /\ k < i + Len(ys))
    BY <1>1, <1>3, <2>1, <2>2, <2>5
  <2>6. CASE ~ (j >= i /\ j < i + Len(ys)) /\ (k >= i /\ k < i + Len(ys))
    BY <1>1, <1>3, <2>1, <2>2, <2>6
  <2>7. QED
    BY <2>3, <2>4, <2>5, <2>6
<1>5. Range(zs) \subseteq Range(xs) \cup Range(ys)
  <2>1. \A j \in DOMAIN zs : zs[j] \in Range(xs) \cup Range(ys)
    <3>1. SUFFICES ASSUME NEW j \in DOMAIN zs
                   PROVE  zs[j] \in Range(xs) \cup Range(ys)
      OBVIOUS
    <3>2. j \in Int
      BY <1>1, <1>2
    <3>3. (\E k \in DOMAIN xs : zs[j] = xs[k]) \/ (\E k \in DOMAIN ys : zs[j] = ys[k])
      BY <1>1, <1>3, <3>2
    <3>4. QED
      BY <3>3 DEF Range
  <2>2. QED
    BY <2>1 DEF Range
<1>6. ASSUME gone = 1, xs[i] \notin Range(ys), NEW j \in DOMAIN zs, zs[j] = xs[i]
      PROVE  FALSE
  <2>1. j \in Int
    BY <1>1, <1>2
  <2>2. \A k \in DOMAIN xs : xs[k] = xs[i] => k = i
    BY DEF IsInjective
  <2>3. \A k \in DOMAIN ys : ys[k] # xs[i]
    BY <1>6 DEF Range
  <2>4. QED
    BY <1>1, <1>3, <1>6, <2>1, <2>2, <2>3
<1>7. QED
  BY <1>4, <1>5, <1>6 DEF Range, SplicedApart

-----------------------------------------------------------------------------
(* The forms of set() on a node whose children all point back to it.       *)
LEMMA CommitExact ==
    ASSUME TypeOK, LinkExact, NEW n \in Node, NEW w, NEW U, Written(n, w), Commit(n, w, U),
           \A c \in Node : w.link[c] = link[c] \/ \E k, i : w.link[c] = Slot(n, k, i),
           IsInjective(w.exprs[n]), w.this[n] \notin Range(w.exprs[n]),
           w.this[n] # Nil => w.link[w.this[n]] = Slot(n, "this", 0),
           \A i \in DOMAIN w.exprs[n] : w.link[w.exprs[n][i]] = Slot(n, "expressions", i)
    PROVE  LinkExact'
<1>0. /\ w.this[n] \in alloc \cup {Nil} /\ \A i \in DOMAIN w.exprs[n] : w.exprs[n][i] \in alloc
      /\ alloc \subseteq Node /\ Nil \notin Node
      /\ \A m \in Node : Kids(m) \subseteq Node
  BY NilAssumption, ArgsCoverKids DEF Written, TypeOK
<1>1. \A c \in Node : link'[c] = NoLink \/ link'[c] = w.link[c]
  BY DEF Commit
<1>2. \A m \in Node \ {n} : this'[m] = this[m] /\ exprs'[m] = exprs[m]
  BY DEF Commit, Written
<1>3. \A m \in Node \ {n} : \A c \in Kids(m) : link'[c].parent = m => link'[c] = link[c]
  <2>1. SUFFICES ASSUME NEW m \in Node \ {n}, NEW c \in Kids(m), link'[c].parent = m
                 PROVE  link'[c] = link[c]
    OBVIOUS
  <2>2. c \in Node /\ m # Nil
    BY <1>0
  <2>3. link'[c] = w.link[c]
    BY <1>1, <2>1, <2>2 DEF NoLink
  <2>4. QED
    BY <2>1, <2>2, <2>3, SlotFields
<1>4. \A c \in Kids(n)' : link'[c].parent = n => NamesItsSlot(c, n)'
  <2>1. exprs'[n] = w.exprs[n] /\ this'[n] = w.this[n]
    BY DEF Commit
  <2>2. w.this[n] # Nil /\ link'[w.this[n]].parent = n =>
           link'[w.this[n]] = Slot(n, "this", 0)
    BY <1>0, <1>1 DEF NoLink
  <2>3. \A i \in DOMAIN w.exprs[n] : link'[w.exprs[n][i]].parent = n =>
           link'[w.exprs[n][i]].key = "expressions" /\ link'[w.exprs[n][i]].index = i
    BY <1>0, <1>1, SlotFields DEF NoLink
  <2>4. QED
    BY <2>1, <2>2, <2>3, SlotsExact
<1>5. QED
  BY <1>2, <1>3, <1>4, ExactAfterWrite

LEMMA WithListExact ==
    ASSUME TypeOK, LinkExact, NEW n \in Node, Intact(n), NEW xs \in Seq(alloc),
           IsInjective(xs), this[n] \notin Range(xs), NEW U, Commit(n, WithList(n, xs), U)
    PROVE  LinkExact'
<1> DEFINE w == WithList(n, xs)
<1>1. Written(n, w)
  BY WithListWritten
<1>2. w.this[n] = this[n] /\ w.exprs[n] = xs /\ w.link = Relinked(n, xs, link)
  BY DEF WithList, TypeOK
<1>3. /\ \A c \in Node : w.link[c] =
            IF c \in Range(xs)
            THEN Slot(n, "expressions", LastIndex(xs, c))
            ELSE link[c]
      /\ \A i \in DOMAIN xs : xs[i] \in Node /\ xs[i] \in Range(xs) /\ LastIndex(xs, xs[i]) = i
      /\ this[n] # Nil => this[n] \in Node
  BY <1>2, LastIndexOfDistinct DEF Relinked, Range, TypeOK, Slot
<1>4. this[n] # Nil => link[this[n]] = Slot(n, "this", 0)
  BY ExactSlots
<1>5. Commit(n, w, U)
  OBVIOUS
<1> HIDE DEF w
<1>6. \A c \in Node : w.link[c] = link[c] \/ \E k, i : w.link[c] = Slot(n, k, i)
  BY <1>3
<1>7. \A i \in DOMAIN xs : w.link[xs[i]] = Slot(n, "expressions", i)
  BY <1>3
<1>8. this[n] # Nil => w.link[this[n]] = Slot(n, "this", 0)
  BY <1>3, <1>4
<1>9. QED
  BY <1>1, <1>2, <1>5, <1>6, <1>7, <1>8, CommitExact

LEMMA WithThisExact ==
    ASSUME TypeOK, LinkExact, NEW n \in Node, Intact(n), NEW v \in alloc \cup {Nil},
           v \notin Range(exprs[n]), NEW U, Commit(n, WithThis(n, v), U)
    PROVE  LinkExact'
<1> DEFINE w == WithThis(n, v)
<1>1. Written(n, w) /\ Commit(n, w, U)
  BY WithThisWritten
<1>2. /\ w.this[n] = v /\ w.exprs[n] = exprs[n]
      /\ \A c \in Node : w.link[c] =
            IF v # Nil /\ c = v THEN Slot(n, "this", 0) ELSE link[c]
      /\ alloc \subseteq Node
  BY DEF WithThis, TypeOK, Slot
<1> HIDE DEF w
<1>3. /\ IsInjective(exprs[n]) /\ Range(exprs[n]) \subseteq Node
      /\ \A i \in DOMAIN exprs[n] :
            link[exprs[n][i]] = Slot(n, "expressions", i)
  BY ExactSlots
<1>4. \A i \in DOMAIN exprs[n] : w.link[exprs[n][i]] = Slot(n, "expressions", i)
  <2>1. SUFFICES ASSUME NEW i \in DOMAIN exprs[n]
                 PROVE  w.link[exprs[n][i]] = link[exprs[n][i]]
    BY <1>3
  <2>2. exprs[n][i] \in Range(exprs[n])
    BY DEF Range
  <2>3. exprs[n][i] \in Node /\ exprs[n][i] # v
    BY <1>3, <2>2
  <2>4. QED
    BY <1>2, <2>3
<1>5. v # Nil => w.link[v] = Slot(n, "this", 0)
  BY <1>2
<1>6. \A c \in Node : w.link[c] = link[c] \/ \E k, i : w.link[c] = Slot(n, k, i)
  BY <1>2
<1>7. QED
  BY <1>1, <1>2, <1>3, <1>4, <1>5, <1>6, CommitExact

LEMMA WithRemovedExact ==
    ASSUME TypeOK, LinkExact, NEW n \in Node, Intact(n), NEW i \in DOMAIN exprs[n],
           NEW U, Commit(n, WithRemoved(n, i), U)
    PROVE  LinkExact'
<1>0. /\ exprs[n] \in Seq(alloc) /\ i \in 1..Len(exprs[n]) /\ <<>> \in Seq(alloc)
      /\ Len(exprs[n]) \in Nat /\ alloc \subseteq Node
  BY DEF TypeOK
<1>1. PICK none \in Seq(alloc) : none = <<>>
  BY <1>0
<1>12. Len(none) = 0 /\ IsInjective(none) /\ Range(none) = {} /\ DOMAIN none = {}
  BY <1>1 DEF IsInjective, Range
<1>13. PICK xs : xs = Spliced(exprs[n], i, 1, none)
  OBVIOUS
<1>14. 1 \in 0..1
  OBVIOUS
<1> DEFINE w == [this |-> this, exprs |-> [exprs EXCEPT ![n] = xs],
                 link |-> Reindexed(xs, i, link)]
<1>2. /\ IsInjective(exprs[n]) /\ Range(exprs[n]) \subseteq Node
      /\ this[n] # Nil => /\ link[this[n]] = Slot(n, "this", 0)
                          /\ this[n] \notin Range(exprs[n])
      /\ \A j \in DOMAIN exprs[n] :
            link[exprs[n][j]] = Slot(n, "expressions", j)
  BY ExactSlots, Zenon
<1>3. IsInjective(xs) /\ Range(xs) \subseteq Range(exprs[n])
  <2>0. \A j \in DOMAIN none, k \in DOMAIN exprs[n] : none[j] = exprs[n][k] => k = i /\ 1 = 1
    BY <1>12
  <2>1. SplicedApart(exprs[n], i, 1, none, xs)
    BY <1>0, <1>12, <1>13, <1>14, <1>2, <2>0, SplicedDistinct
  <2>2. QED
    BY <1>12, <2>1 DEF SplicedApart
<1>4. /\ xs \in Seq(alloc) /\ DOMAIN xs = 1..(Len(exprs[n]) - 1)
      /\ \A j \in DOMAIN xs : xs[j] = IF j < i THEN exprs[n][j] ELSE exprs[n][j + 1]
  <2>1. SplicedFrom(alloc, exprs[n], i, 1, none, xs)
    BY <1>0, <1>13, <1>14, SplicedPositions
  <2>2. Len(none) = 0
    BY <1>12
  <2>3. xs \in Seq(alloc) /\ Len(xs) = Len(exprs[n]) - 1
    BY <1>0, <2>1, <2>2 DEF SplicedFrom
  <2>4. DOMAIN xs = 1..(Len(exprs[n]) - 1)
    BY <2>3, LenProperties
  <2>5. ASSUME NEW j \in 1..(Len(exprs[n]) - 1)
        PROVE  xs[j] = IF j < i THEN exprs[n][j] ELSE exprs[n][j + 1]
    <3>1. /\ j < i => xs[j] = exprs[n][j]
          /\ j >= i + 0 => xs[j] = exprs[n][j - 0 + 1]
      BY <2>1, <2>2, <2>4 DEF SplicedFrom
    <3>2. QED
      BY <1>0, <3>1
  <2>6. QED
    BY <2>3, <2>4, <2>5
<1>5. Written(n, w) /\ Commit(n, w, U)
  <2>1. WithRemoved(n, i) = WithItem(n, i, Nil, TRUE)
    BY DEF WithItem
  <2>2. Written(n, WithRemoved(n, i))
    BY <2>1, WithItemWritten
  <2>3. WithRemoved(n, i) = w
    BY <1>1, <1>13 DEF WithRemoved
  <2>4. QED
    BY <2>2, <2>3
<1>6. /\ w.this[n] = this[n] /\ w.exprs[n] = xs
      /\ \A c \in Node : w.link[c] =
            IF c \in Range(xs) /\ LastIndex(xs, c) >= i
            THEN [link[c] EXCEPT !.index = LastIndex(xs, c)] ELSE link[c]
  BY DEF TypeOK, Reindexed
<1> HIDE DEF w
<1>7. \A j \in DOMAIN xs : w.link[xs[j]] = Slot(n, "expressions", j)
  <2>1. SUFFICES ASSUME NEW j \in 1..(Len(exprs[n]) - 1)
                 PROVE  w.link[xs[j]] = Slot(n, "expressions", j)
    BY <1>4
  <2>2. xs[j] \in Range(xs) /\ xs[j] \in Node
    BY <1>2, <1>3, <1>4, <2>1 DEF Range
  <2>3. LastIndex(xs, xs[j]) = j
    BY <1>3, <1>4, <2>1, LastIndexOfDistinct
  <2>4. CASE j < i
    <3>1. j \in DOMAIN exprs[n] /\ xs[j] = exprs[n][j]
      BY <1>0, <1>4, <2>1, <2>4
    <3>2. link[xs[j]] = Slot(n, "expressions", j)
      BY <1>2, <3>1
    <3>3. ~ (LastIndex(xs, xs[j]) >= i)
      BY <1>0, <2>3, <2>4
    <3>4. QED
      BY <1>6, <2>2, <3>2, <3>3
  <2>5. CASE ~ (j < i)
    <3>1. j + 1 \in DOMAIN exprs[n] /\ xs[j] = exprs[n][j + 1]
      BY <1>0, <1>4, <2>1, <2>5
    <3>2. link[xs[j]] = Slot(n, "expressions", j + 1)
      BY <1>2, <3>1
    <3>3. LastIndex(xs, xs[j]) >= i
      BY <1>0, <2>3, <2>5
    <3>4. w.link[xs[j]] = [link[xs[j]] EXCEPT !.index = j]
      BY <1>6, <2>2, <2>3, <3>3
    <3>5. QED
      BY <3>2, <3>4, SlotFields
  <2>6. QED
    BY <2>4, <2>5
<1>8. \A c \in Node : w.link[c] = link[c] \/ \E k, j : w.link[c] = Slot(n, k, j)
  <2>1. SUFFICES ASSUME NEW c \in Node, c \in Range(xs)
                 PROVE  w.link[c] = link[c] \/ \E k, j : w.link[c] = Slot(n, k, j)
    BY <1>6
  <2>2. PICK j \in DOMAIN exprs[n] : c = exprs[n][j]
    BY <1>3, <2>1 DEF Range
  <2>3. link[c] = Slot(n, "expressions", j)
    BY <1>2, <2>2
  <2>4. QED
    <3>1. w.link[c] = link[c] \/ w.link[c] = Slot(n, "expressions", LastIndex(xs, c))
      BY <1>6, <2>3, SlotFields
    <3>2. QED
      BY <3>1
<1>9. this[n] \notin Range(xs)
  BY <1>2, <1>3, NilAssumption
<1>10. this[n] # Nil => w.link[this[n]] = Slot(n, "this", 0)
  BY <1>2, <1>6, <1>9 DEF TypeOK
<1>11. QED
  BY <1>3, <1>5, <1>6, <1>7, <1>8, <1>9, <1>10, CommitExact

LEMMA WithSplicedExact ==
    ASSUME TypeOK, LinkExact, NEW n \in Node, Intact(n), NEW i \in DOMAIN exprs[n],
           NEW gone \in 0..1, NEW ys \in Seq(alloc), IsInjective(ys),
           \A j \in DOMAIN ys : ys[j] \notin Kids(n) \/ (ys[j] = exprs[n][i] /\ gone = 1),
           NEW U, Commit(n, WithList(n, Spliced(exprs[n], i, gone, ys)), U)
    PROVE  LinkExact'
<1>0. exprs[n] \in Seq(alloc) /\ i \in 1..Len(exprs[n])
  BY DEF TypeOK
<1>1. PICK xs : xs = Spliced(exprs[n], i, gone, ys)
  OBVIOUS
<1>2. /\ IsInjective(exprs[n]) /\ Range(exprs[n]) \subseteq Kids(n)
      /\ this[n] # Nil => this[n] \notin Range(exprs[n])
      /\ \A k \in DOMAIN exprs[n] : exprs[n][k] \in Kids(n)
  BY ExactSlots DEF Range
<1>3. \A j \in DOMAIN ys, k \in DOMAIN exprs[n] : ys[j] = exprs[n][k] => k = i /\ gone = 1
  BY <1>2 DEF IsInjective
<1>4. SplicedApart(exprs[n], i, gone, ys, xs) /\ SplicedFrom(alloc, exprs[n], i, gone, ys, xs)
  <2>1. SplicedApart(exprs[n], i, gone, ys, xs)
    BY <1>0, <1>1, <1>2, <1>3, SplicedDistinct
  <2>2. SplicedFrom(alloc, exprs[n], i, gone, ys, xs)
    BY <1>0, <1>1, SplicedPositions
  <2>3. QED
    BY <2>1, <2>2
<1>5. IsInjective(xs) /\ Range(xs) \subseteq Range(exprs[n]) \cup Range(ys) /\ xs \in Seq(alloc)
  BY <1>4 DEF SplicedApart, SplicedFrom
<1>6. this[n] \notin Range(xs)
  <2>1. CASE this[n] = Nil
    BY <1>5, <2>1, NilAssumption DEF TypeOK, Range
  <2>2. CASE this[n] # Nil
    <3>1. this[n] \in Kids(n) /\ this[n] \notin Range(exprs[n])
      BY <1>2, <2>2 DEF Kids
    <3>2. this[n] # exprs[n][i]
      BY <3>1 DEF Range
    <3>3. this[n] \notin Range(ys)
      BY <3>1, <3>2 DEF Range
    <3>4. QED
      BY <1>5, <3>1, <3>3
  <2>3. QED
    BY <2>1, <2>2
<1>7. Commit(n, WithList(n, xs), U)
  BY <1>1
<1>8. QED
  BY <1>5, <1>6, <1>7, WithListExact

(* A node that is filled for the first time, by its constructor or by      *)
(* copy(), with distinct children.                                         *)
LEMMA FilledExact ==
    ASSUME TypeOK, LinkExact, NEW n \in Node, NEW v \in Node \cup {Nil}, NEW xs \in Seq(Node),
           IsInjective(xs), v \notin Range(xs),
           this' = [this EXCEPT ![n] = v], exprs' = [exprs EXCEPT ![n] = xs],
           link' = Relinked(n, xs, WithThis(n, v).link)
    PROVE  LinkExact'
<1>1. \A c \in Node : link'[c] =
         IF c \in Range(xs) THEN Slot(n, "expressions", LastIndex(xs, c))
         ELSE IF v # Nil /\ c = v THEN Slot(n, "this", 0) ELSE link[c]
  BY DEF Relinked, WithThis, TypeOK, Slot
<1>2. \A m \in Node : Kids(m) \subseteq Node
  BY ArgsCoverKids DEF TypeOK
<1>3. \A i \in DOMAIN xs : /\ xs[i] \in Node /\ xs[i] \in Range(xs)
                           /\ LastIndex(xs, xs[i]) = i
  BY LastIndexOfDistinct DEF Range
<1>4. \A m \in Node \ {n} : \A c \in Kids(m) : link'[c].parent = m => link'[c] = link[c]
  BY <1>1, <1>2, SlotFields
<1>5. \A c \in Kids(n)' : link'[c].parent = n => NamesItsSlot(c, n)'
  <2>1. exprs'[n] = xs /\ this'[n] = v
    BY DEF TypeOK
  <2>2. v # Nil => link'[v] = Slot(n, "this", 0)
    BY <1>1
  <2>3. \A i \in DOMAIN xs : link'[xs[i]].key = "expressions" /\ link'[xs[i]].index = i
    <3>1. \A i \in DOMAIN xs : link'[xs[i]] = Slot(n, "expressions", i)
      BY <1>1, <1>3
    <3>2. QED
      BY <3>1, SlotFields
  <2>4. QED
    BY <2>1, <2>2, <2>3, SlotsExact
<1>6. \A m \in Node \ {n} : this'[m] = this[m] /\ exprs'[m] = exprs[m]
  BY DEF TypeOK
<1>7. QED
  BY <1>4, <1>5, <1>6, ExactAfterWrite

-----------------------------------------------------------------------------
(* The steps of the caller that keeps the convention.                      *)

(* A node that may be attached to n is not held by n, or by a node all of  *)
(* whose children point back to it.                                        *)
LEMMA Attachable ==
    ASSUME TypeOK, Owned, NEW n \in Node, NEW v, MayAttach(n, v)
    PROVE  /\ v \in alloc /\ v \in Node /\ link[v] = NoLink
           /\ \A m \in Node : Intact(m) => v \notin Kids(m)
<1>1. v \in alloc /\ v \in Node /\ link[v] = NoLink
  BY DEF MayAttach, TypeOK
<1>2. QED
  BY <1>1, NilAssumption DEF Intact, NoLink

LEMMA ListsApart ==
    ASSUME TypeOK, Owned, NEW n \in Node, NEW kept \in SUBSET alloc, NEW xs \in Lists(n, kept)
    PROVE  /\ xs \in Seq(alloc) /\ IsInjective(xs)
           /\ \A j \in DOMAIN xs : xs[j] \in kept \/ MayAttach(n, xs[j])
<1>1. xs \in Seq(alloc)
  BY ListsType
<1>2. IsInjective(xs)
  BY DEF Lists
<1>3. \A j \in DOMAIN xs : xs[j] \in kept \/ MayAttach(n, xs[j])
  BY DEF Lists
<1>4. QED
  BY <1>1, <1>2, <1>3

LEMMA SameTreeExact ==
    ASSUME LinkExact, UNCHANGED <<this, exprs, link>>
    PROVE  LinkExact'
BY DEF LinkExact, NamesItsSlot, Kids

LEMMA SetThisExact ==
    ASSUME TypeOK, LinkExact, Owned, NEW n \in alloc, NEW v \in alloc \cup {Nil}, SetThis(n, v)
    PROVE  LinkExact'
<1>1. n \in Node /\ Intact(n) /\ Commit(n, WithThis(n, v), {})
  BY DEF SetThis, MayMutate, TypeOK
<1>2. v \notin Range(exprs[n])
  <2>1. CASE v = Nil
    BY <1>1, <2>1, NilAssumption DEF TypeOK, Range
  <2>2. CASE v # Nil
    BY <1>1, <2>2, Attachable DEF SetThis, Kids
  <2>3. QED
    BY <2>1, <2>2
<1>3. QED
  BY <1>1, <1>2, WithThisExact

LEMMA SetListExact ==
    ASSUME TypeOK, LinkExact, Owned, NEW n \in alloc, NEW xs \in Lists(n, Range(exprs[n])),
           SetList(n, xs)
    PROVE  LinkExact'
<1>1. n \in Node /\ Intact(n) /\ Commit(n, WithList(n, xs), {}) /\ Range(exprs[n]) \in SUBSET alloc
  BY DEF SetList, MayMutate, TypeOK, Range
<1>2. /\ xs \in Seq(alloc) /\ IsInjective(xs)
      /\ \A j \in DOMAIN xs : xs[j] \in Range(exprs[n]) \/ MayAttach(n, xs[j])
  BY <1>1, ListsApart
<1>3. this[n] \notin Range(xs)
  <2>1. CASE this[n] = Nil
    BY <1>2, <2>1, NilAssumption DEF TypeOK, Range
  <2>2. CASE this[n] # Nil
    <3>1. this[n] \notin Range(exprs[n]) /\ this[n] \in Kids(n)
      BY <1>1, <2>2, ExactSlots DEF Kids
    <3>2. \A j \in DOMAIN xs : xs[j] # this[n]
      BY <1>1, <1>2, <3>1, Attachable
    <3>3. QED
      BY <3>2 DEF Range
  <2>3. QED
    BY <2>1, <2>2
<1>4. QED
  BY <1>1, <1>2, <1>3, WithListExact

LEMMA UnwrittenExact ==
    ASSUME TypeOK, LinkExact, NEW n \in Node, NEW U, Commit(n, Unwritten, U)
    PROVE  LinkExact'
<1>1. /\ UNCHANGED <<this, exprs>>
      /\ \A c \in Node : link'[c] = link[c] \/ link'[c] = NoLink
  BY DEF Commit, Unwritten
<1>2. \A m \in Node : Kids(m)' = Kids(m) /\ Kids(m) \subseteq Node /\ m # Nil
  BY <1>1, ArgsCoverKids, NilAssumption DEF TypeOK, Kids
<1>3. ASSUME NEW m \in Node, NEW c \in Kids(m), link'[c].parent = m
      PROVE  NamesItsSlot(c, m)'
  <2>1. link'[c] = link[c]
    BY <1>1, <1>2, <1>3 DEF NoLink
  <2>2. NamesItsSlot(c, m)
    BY <1>3, <2>1 DEF LinkExact
  <2>3. QED
    BY <1>1, <2>1, <2>2 DEF NamesItsSlot
<1>4. QED
  BY <1>2, <1>3 DEF LinkExact

(* set(key, v, index) for a child, and its removal.                        *)
LEMMA WithItemExact ==
    ASSUME TypeOK, LinkExact, NEW n \in Node, Intact(n), NEW i, NEW v \in alloc \cup {Nil},
           NEW o \in BOOLEAN, NEW U, Commit(n, WithItem(n, i, v, o), U),
           v \notin Kids(n) \/ (i \in DOMAIN exprs[n] /\ v = exprs[n][i] /\ o)
    PROVE  LinkExact'
<1>1. CASE i \notin DOMAIN exprs[n]
  BY <1>1, UnwrittenExact DEF WithItem
<1>2. CASE i \in DOMAIN exprs[n] /\ v = Nil
  BY <1>2, WithRemovedExact DEF WithItem
<1>3. CASE i \in DOMAIN exprs[n] /\ v # Nil
  <2>1. PICK gone \in 0..1 : gone = IF o THEN 1 ELSE 0
    OBVIOUS
  <2>2. PICK ys \in Seq(alloc) : ys = <<v>>
    <3>1. <<v>> \in Seq(alloc)
      BY <1>3
    <3>2. QED
      BY <3>1
  <2>3. IsInjective(ys) /\ \A j \in DOMAIN ys : ys[j] = v
    BY <2>2 DEF IsInjective
  <2>4. Commit(n, WithList(n, Spliced(exprs[n], i, gone, ys)), U)
    BY <1>3, <2>1, <2>2 DEF WithItem
  <2>5. \A j \in DOMAIN ys : ys[j] \notin Kids(n) \/ (ys[j] = exprs[n][i] /\ gone = 1)
    BY <2>1, <2>3
  <2>6. QED
    BY <1>3, <2>3, <2>4, <2>5, WithSplicedExact
<1>4. QED
  BY <1>1, <1>2, <1>3

LEMMA SetItemExact ==
    ASSUME TypeOK, LinkExact, Owned, NEW n \in alloc, NEW i, NEW v \in alloc \cup {Nil},
           NEW o \in BOOLEAN, SetItem(n, i, v, o)
    PROVE  LinkExact'
<1>1. n \in Node /\ Intact(n) /\ Commit(n, WithItem(n, i, v, o), {})
  BY DEF SetItem, MayMutate, TypeOK
<1>2. v \notin Kids(n)
  <2>1. CASE v = Nil
    BY <1>1, <2>1, ArgsCoverKids, NilAssumption DEF TypeOK
  <2>2. CASE v # Nil
    BY <1>1, <2>2, Attachable DEF SetItem
  <2>3. QED
    BY <2>1, <2>2
<1>3. QED
  BY <1>1, <1>2, WithItemExact

LEMMA AppendExact ==
    ASSUME TypeOK, LinkExact, Owned, NEW n \in alloc, NEW v \in alloc, AppendChild(n, v)
    PROVE  LinkExact'
<1>1. n \in Node /\ Intact(n) /\ MayAttach(n, v) /\ exprs[n] \in Seq(alloc) /\ v \in Node
  BY DEF AppendChild, MayMutate, TypeOK
<1>2. PICK xs : xs = Append(exprs[n], v)
  OBVIOUS
<1>3. PICK k \in Nat : k = Len(exprs[n])
  BY <1>1
<1>4. /\ xs \in Seq(alloc) /\ DOMAIN xs = 1..(k + 1) /\ DOMAIN exprs[n] = 1..k
      /\ xs[k + 1] = v /\ \A j \in 1..k : xs[j] = exprs[n][j]
  BY <1>1, <1>2, <1>3, AppendProperties, LenProperties
<1> DEFINE w == [this |-> this, exprs |-> [exprs EXCEPT ![n] = Append(@, v)],
                 link |-> [link EXCEPT ![v] = [parent |-> n, key |-> "expressions",
                                               index |-> Len(exprs[n]) + 1]]]
<1>5. Commit(n, w, {})
  BY DEF AppendChild
<1>6. /\ w.exprs[n] = xs /\ w.this[n] = this[n]
      /\ \A c \in Node : w.link[c] = IF c = v THEN Slot(n, "expressions", k + 1) ELSE link[c]
  BY <1>1, <1>2, <1>3 DEF TypeOK, Slot
<1>7. Written(n, w)
  BY <1>1, <1>2, <1>3, <1>4 DEF Written, TypeOK, Link
<1> HIDE DEF w
<1>8. /\ IsInjective(exprs[n]) /\ Range(exprs[n]) \subseteq Kids(n) /\ Kids(n) \subseteq Node
      /\ this[n] # Nil => link[this[n]] = Slot(n, "this", 0) /\ this[n] \notin Range(exprs[n])
      /\ \A j \in DOMAIN exprs[n] : link[exprs[n][j]] = Slot(n, "expressions", j)
  BY <1>1, ExactSlots
<1>9. v \notin Kids(n) /\ \A j \in 1..k : xs[j] # v /\ xs[j] \in Node
  <2>1. v \notin Kids(n)
    BY <1>1, Attachable
  <2>2. \A j \in 1..k : xs[j] \in Range(exprs[n])
    BY <1>4 DEF Range
  <2>3. QED
    BY <1>8, <2>1, <2>2
<1>10. IsInjective(xs)
  <2>1. SUFFICES ASSUME NEW i \in 1..(k + 1), NEW j \in 1..(k + 1), xs[i] = xs[j]
                 PROVE  i = j
    BY <1>4 DEF IsInjective
  <2>2. CASE i \in 1..k /\ j \in 1..k
    BY <1>4, <1>8, <2>1, <2>2 DEF IsInjective
  <2>3. CASE i = k + 1 \/ j = k + 1
    BY <1>4, <1>9, <2>1, <2>3
  <2>4. QED
    BY <2>2, <2>3
<1>11. \A i \in DOMAIN xs : w.link[xs[i]] = Slot(n, "expressions", i)
  <2>1. SUFFICES ASSUME NEW i \in 1..(k + 1)
                 PROVE  w.link[xs[i]] = Slot(n, "expressions", i)
    BY <1>4
  <2>2. CASE i = k + 1
    BY <1>1, <1>4, <1>6, <2>2
  <2>3. CASE i \in 1..k
    BY <1>4, <1>6, <1>8, <1>9, <2>3
  <2>4. QED
    BY <2>2, <2>3
<1>12. this[n] \notin Range(xs)
  <2>1. CASE this[n] = Nil
    BY <1>4, <2>1, NilAssumption DEF TypeOK, Range
  <2>2. CASE this[n] # Nil
    <3>1. this[n] # v /\ \A j \in 1..k : exprs[n][j] # this[n]
      BY <1>4, <1>8, <1>9, <2>2 DEF Kids, Range
    <3>2. \A i \in 1..(k + 1) : xs[i] # this[n]
      BY <1>4, <3>1
    <3>3. QED
      BY <1>4, <3>2 DEF Range
  <2>3. QED
    BY <2>1, <2>2
<1>13. this[n] # Nil => w.link[this[n]] = Slot(n, "this", 0)
  BY <1>6, <1>8, <1>9 DEF Kids
<1>14. \A c \in Node : w.link[c] = link[c] \/ \E a, b : w.link[c] = Slot(n, a, b)
  BY <1>6
<1>15. QED
  BY <1>1, <1>5, <1>6, <1>7, <1>10, <1>11, <1>12, <1>13, <1>14, CommitExact

(* The node that replace() puts in is not held by the parent already, but  *)
(* for the replaced node itself.                                           *)
LEMMA ReplacementApart ==
    ASSUME TypeOK, LinkExact, Owned, NEW c \in alloc, NEW v \in alloc, MayReplace(c),
           Replacement(c, v)
    PROVE  v = c \/ v \notin Kids(link[c].parent)
<1>1. Intact(link[c].parent) /\ link[c].parent \in Node
  BY DEF MayReplace, TypeOK, Link
<1>2. CASE MayAttach(link[c].parent, v)
  BY <1>1, <1>2, Attachable
<1>3. CASE v # c => link[v].parent # link[c].parent
  BY <1>1, <1>3 DEF Intact
<1>4. QED
  BY <1>2, <1>3 DEF Replacement

(* A node that may be replaced is where its back link says.                *)
LEMMA ReplacedSlot ==
    ASSUME TypeOK, LinkExact, Owned, NEW c \in alloc, MayReplace(c)
    PROVE  /\ link[c].parent \in Node /\ Intact(link[c].parent)
           /\ c \in Kids(link[c].parent)
           /\ \/ link[c].key = "this" /\ this[link[c].parent] = c
              \/ /\ link[c].key = "expressions"
                 /\ link[c].index \in DOMAIN exprs[link[c].parent]
                 /\ exprs[link[c].parent][link[c].index] = c
<1>1. link[c].parent \in Node /\ Intact(link[c].parent) /\ c \in Kids(link[c].parent)
  BY DEF MayReplace, TypeOK, Link
<1>2. NamesItsSlot(c, link[c].parent)
  BY <1>1 DEF LinkExact
<1>3. \/ link[c].key = "this" /\ this[link[c].parent] = c
      \/ /\ link[c].key = "expressions"
         /\ link[c].index \in DOMAIN exprs[link[c].parent]
         /\ exprs[link[c].parent][link[c].index] = c
  BY <1>2 DEF NamesItsSlot
<1>4. QED
  BY <1>1, <1>3

LEMMA ReplaceExact ==
    ASSUME TypeOK, LinkExact, Owned, NEW c \in alloc, NEW v \in alloc \cup {Nil}, Replace(c, v)
    PROVE  LinkExact'
<1>1. PICK p \in Node : p = link[c].parent
  BY DEF Replace, MayReplace, TypeOK, Link
<1>2. /\ Intact(p) /\ c \in Kids(p) /\ MayReplace(c)
      /\ \/ link[c].key = "this" /\ this[p] = c
         \/ /\ link[c].key = "expressions" /\ link[c].index \in DOMAIN exprs[p]
            /\ exprs[p][link[c].index] = c
  BY <1>1, ReplacedSlot DEF Replace
<1>3. v = c \/ v \notin Kids(p)
  <2>1. CASE v = Nil
    BY <1>1, <2>1, ArgsCoverKids, NilAssumption DEF TypeOK
  <2>2. CASE v # Nil
    BY <1>1, <1>2, <2>2, ReplacementApart DEF Replace
  <2>3. QED
    BY <2>1, <2>2
<1>4. CASE link[c].key = "this"
  <2>1. Commit(p, WithThis(p, v), {c} \ {v})
    BY <1>1, <1>4 DEF Replace
  <2>2. this[p] = c
    BY <1>2, <1>4
  <2>3. c \notin Range(exprs[p])
    BY <1>1, <1>2, <2>2, ExactSlots, NilAssumption DEF TypeOK
  <2>4. v \notin Range(exprs[p])
    BY <1>3, <2>3 DEF Kids
  <2>5. QED
    BY <1>2, <2>1, <2>4, WithThisExact
<1>5. CASE link[c].key # "this"
  <2>1. Commit(p, WithItem(p, link[c].index, v, TRUE), {c} \ {v})
    BY <1>1, <1>5 DEF Replace
  <2>2. v \notin Kids(p) \/ (link[c].index \in DOMAIN exprs[p] /\ v = exprs[p][link[c].index] /\ TRUE)
    BY <1>2, <1>3, <1>5
  <2>3. QED
    BY <1>2, <2>1, <2>2, WithItemExact
<1>6. QED
  BY <1>4, <1>5

LEMMA ReplaceByListExact ==
    ASSUME TypeOK, LinkExact, Owned, NEW c \in alloc, NEW vs, ReplaceByList(c, vs)
    PROVE  LinkExact'
<1>1. PICK top \in Spine(c) :
        /\ link[top].key # "this"
        /\ IF link[top].key = "expressions"
           THEN /\ MayReplace(top) /\ vs \in Lists(link[top].parent, {})
                /\ Commit(link[top].parent,
                          WithSplice(link[top].parent, link[top].index, vs), Spine(c))
           ELSE /\ link' = [m \in Node |-> IF m \in Spine(c) THEN NoLink ELSE link[m]]
                /\ UNCHANGED <<alloc, text, this, exprs, hash>>
                /\ UNCHANGED loop
  BY DEF ReplaceByList
<1>2. CASE link[top].key = "expressions"
  <2>1. top \in alloc /\ MayReplace(top)
    BY <1>1, <1>2 DEF MayReplace
  <2>2. PICK q \in Node : q = link[top].parent
    BY <2>1, ReplacedSlot
  <2>3. PICK i : i = link[top].index
    OBVIOUS
  <2>4. Intact(q) /\ i \in DOMAIN exprs[q]
    BY <1>2, <2>1, <2>2, <2>3, ReplacedSlot
  <2>5. /\ vs \in Seq(alloc) /\ IsInjective(vs)
        /\ \A j \in DOMAIN vs : MayAttach(q, vs[j])
    <3>1. vs \in Lists(q, {})
      BY <1>1, <1>2, <2>2
    <3>2. /\ vs \in Seq(alloc) /\ IsInjective(vs)
          /\ \A j \in DOMAIN vs : vs[j] \in {} \/ MayAttach(q, vs[j])
      BY <3>1, ListsApart
    <3>3. QED
      BY <3>2
  <2>6. \A j \in DOMAIN vs : vs[j] \notin Kids(q)
    BY <2>4, <2>5, Attachable
  <2>7. Commit(q, WithList(q, Spliced(exprs[q], i, 1, vs)), Spine(c))
    BY <1>1, <1>2, <2>2, <2>3, <2>4 DEF WithSplice
  <2>8. 1 \in 0..1
    OBVIOUS
  <2>9. QED
    BY <2>4, <2>5, <2>6, <2>7, <2>8, WithSplicedExact
<1>3. CASE link[top].key # "expressions"
  <2>1. /\ UNCHANGED <<this, exprs>>
        /\ link' = [m \in Node |-> IF m \in Spine(c) THEN NoLink ELSE link[m]]
    BY <1>1, <1>3
  <2>2. \A m \in Node : Kids(m)' = Kids(m) /\ Kids(m) \subseteq Node /\ m # Nil
    BY <2>1, ArgsCoverKids, NilAssumption DEF TypeOK, Kids
  <2>3. ASSUME NEW m \in Node, NEW k \in Kids(m), link'[k].parent = m
        PROVE  NamesItsSlot(k, m)'
    <3>1. link'[k] = link[k]
      BY <2>1, <2>2, <2>3 DEF NoLink
    <3>2. NamesItsSlot(k, m)
      BY <2>3, <3>1 DEF LinkExact
    <3>3. QED
      BY <2>1, <3>1, <3>2 DEF NamesItsSlot
  <2>4. QED
    BY <2>2, <2>3 DEF LinkExact
<1>4. QED
  BY <1>2, <1>3

LEMMA ConstructExact ==
    ASSUME TypeOK, LinkExact, Owned, NEW n \in Node, NEW t \in Text, NEW c \in alloc \cup {Nil},
           NEW xs \in Lists(n, {}), Construct(n, t, c, xs)
    PROVE  LinkExact'
<1>1. xs \in Seq(alloc) /\ IsInjective(xs) /\ c \notin Range(xs) /\ alloc \subseteq Node
  BY ListsApart DEF Construct, TypeOK
<1>2. xs \in Seq(Node)
  BY <1>1, SeqMonotonic
<1>3. /\ c \in Node \cup {Nil} /\ this' = [this EXCEPT ![n] = c]
      /\ exprs' = [exprs EXCEPT ![n] = xs] /\ link' = Relinked(n, xs, WithThis(n, c).link)
  BY <1>1 DEF Construct
<1>4. QED
  BY <1>1, <1>2, <1>3, FilledExact

LEMMA CopyStepExact ==
    ASSUME HashInv, LinkExact, NEW k \in 0..(MaxLen + 1),
           NEW fresh \in [1..k -> Node \ alloc], busy = "copy", CopyStep(fresh)
    PROVE  LinkExact'
<1>1. PICK src, dst, one : /\ src = todo[Len(todo)][1] /\ dst = todo[Len(todo)][2]
                           /\ one = (IF this[src] = Nil THEN 0 ELSE 1)
  OBVIOUS
<1>2. PICK v, xs : /\ v = (IF one = 1 THEN fresh[1] ELSE Nil)
                   /\ xs = SubSeq(fresh, one + 1, Len(fresh))
  OBVIOUS
<1>3. /\ TypeOK /\ todo \in Seq(alloc \X alloc) /\ todo # <<>>
      /\ Len(fresh) = Len(Args(src)) /\ IsInjective(fresh)
      /\ this' = [this EXCEPT ![dst] = v] /\ exprs' = [exprs EXCEPT ![dst] = xs]
      /\ link' = Relinked(dst, xs, WithThis(dst, v).link)
  BY <1>1, <1>2 DEF HashInv, CopyStep, TypeOK
<1>4. src \in Node /\ dst \in Node
  <2>1. todo[Len(todo)] \in alloc \X alloc
    BY <1>3, DroppedLast
  <2>2. QED
    BY <1>1, <1>3, <2>1 DEF TypeOK
<1>5. k \in Nat /\ fresh \in Seq(Node) /\ Len(fresh) = k /\ DOMAIN fresh = 1..k
  <2>1. k \in Nat /\ fresh \in [1..k -> Node]
    BY BoundAssumption
  <2>2. fresh \in Seq(Node)
    BY <2>1, SeqDef
  <2>3. QED
    BY <2>1, <2>2, LenProperties
<1>6. one \in 0..1 /\ (one = 1 => 1 \in 1..k)
  <2>1. PICK m \in Nat : m = Len(exprs[src])
    <3>1. exprs[src] \in Seq(alloc)
      BY <1>3, <1>4 DEF TypeOK
    <3>2. Len(exprs[src]) \in Nat
      BY <3>1, LenProperties
    <3>3. QED
      BY <3>2
  <2>2. Len(Args(src)) = Len(exprs[src]) + (IF this[src] = Nil THEN 0 ELSE 1)
    BY <1>3, <1>4, ArgsCoverKids
  <2>3. one \in 0..1
    BY <1>1
  <2>4. k = m + one
    BY <1>1, <1>3, <1>5, <2>1, <2>2
  <2>5. QED
    BY <1>5, <2>3, <2>4
<1>7. /\ xs \in Seq(Node) /\ DOMAIN xs = 1..(k - one)
      /\ \A j \in 1..(k - one) : xs[j] = fresh[one + j]
  <2>1. \A j \in (one + 1)..k : fresh[j] \in Node
    BY <1>5, <1>6
  <2>2. one + 1 \in Nat /\ k - (one + 1) + 1 = k - one
    BY <1>5, <1>6
  <2>3. /\ xs \in Seq(Node)
        /\ Len(xs) = IF one + 1 <= k THEN k - (one + 1) + 1 ELSE 0
        /\ \A j \in 1..(k - (one + 1) + 1) : xs[j] = fresh[one + 1 + j - 1]
    BY <1>2, <1>5, <2>1, <2>2, SubSeqProperties
  <2>4. Len(xs) = k - one
    BY <1>5, <1>6, <2>3
  <2>5. DOMAIN xs = 1..(k - one)
    BY <2>3, <2>4, LenProperties
  <2>6. ASSUME NEW j \in 1..(k - one)
        PROVE  xs[j] = fresh[one + j]
    <3>1. j \in 1..(k - (one + 1) + 1) /\ one + 1 + j - 1 = one + j
      BY <2>2, <1>6
    <3>2. QED
      BY <2>3, <3>1
  <2>7. QED
    BY <2>3, <2>5, <2>6
<1>8. IsInjective(xs)
  <2>1. SUFFICES ASSUME NEW i \in 1..(k - one), NEW j \in 1..(k - one), xs[i] = xs[j]
                 PROVE  i = j
    BY <1>7 DEF IsInjective
  <2>2. one + i \in DOMAIN fresh /\ one + j \in DOMAIN fresh
    BY <1>5, <1>6
  <2>3. one + i = one + j
    BY <1>3, <1>7, <2>1, <2>2 DEF IsInjective
  <2>4. QED
    BY <1>6, <2>3
<1>9. v \in Node \cup {Nil} /\ v \notin Range(xs)
  <2>1. CASE one = 0
    BY <1>2, <1>7, <2>1, NilAssumption DEF Range
  <2>2. CASE one = 1
    <3>1. 1 \in DOMAIN fresh /\ v = fresh[1] /\ v \in Node
      BY <1>2, <1>5, <1>6, <2>2
    <3>2. ASSUME NEW j \in 1..(k - one), xs[j] = v
          PROVE  FALSE
      <4>1. one + j \in DOMAIN fresh /\ one + j # 1
        BY <1>5, <2>2
      <4>2. fresh[one + j] = fresh[1]
        BY <1>7, <3>1, <3>2
      <4>3. QED
        BY <1>3, <3>1, <4>1, <4>2 DEF IsInjective
    <3>3. QED
      BY <1>7, <3>1, <3>2 DEF Range
  <2>3. QED
    BY <1>6, <2>1, <2>2
<1>10. QED
  BY <1>3, <1>4, <1>7, <1>8, <1>9, FilledExact

LEMMA MutationExact ==
    ASSUME TypeOK, LinkExact, Owned, busy = "idle", Mutation
    PROVE  LinkExact'
<1>0. \A n \in alloc : n \in Node
  BY DEF TypeOK
<1>1. ASSUME NEW n \in Node \ alloc, NEW xs \in Lists(n, {}), NEW c \in alloc \cup {Nil},
             NEW t \in Text, Construct(n, t, c, xs)
      PROVE  LinkExact'
  BY <1>1, ConstructExact
<1>2. ASSUME NEW n \in alloc, NEW t \in Text, SetText(n, t)
      PROVE  LinkExact'
  BY <1>2, SameTreeExact DEF SetText
<1>3. ASSUME NEW n \in alloc, NEW v \in alloc \cup {Nil}, SetThis(n, v)
      PROVE  LinkExact'
  BY <1>3, SetThisExact
<1>4. ASSUME NEW n \in alloc, NEW xs \in Lists(n, Range(exprs[n])), SetList(n, xs)
      PROVE  LinkExact'
  BY <1>4, SetListExact
<1>5. ASSUME NEW n \in alloc, NEW i \in 1..MaxLen, NEW v \in alloc \cup {Nil},
             NEW o \in BOOLEAN, SetItem(n, i, v, o)
      PROVE  LinkExact'
  BY <1>5, SetItemExact
<1>6. ASSUME NEW n \in alloc, NEW v \in alloc, AppendChild(n, v)
      PROVE  LinkExact'
  BY <1>6, AppendExact
<1>7. ASSUME NEW c \in alloc, NEW v \in alloc, Replace(c, v)
      PROVE  LinkExact'
  BY <1>7, ReplaceExact
<1>8. ASSUME NEW c \in alloc, Pop(c)
      PROVE  LinkExact'
  BY <1>8, ReplaceExact DEF Pop
<1>9. ASSUME NEW c \in alloc, NEW vs, ReplaceByList(c, vs)
      PROVE  LinkExact'
  BY <1>9, ReplaceByListExact
<1>10. QED
  BY <1>1, <1>2, <1>3, <1>4, <1>5, <1>6, <1>7, <1>8, <1>9 DEF Mutation, Building

LEMMA NextExact == Owned /\ HashInv /\ LinkExact /\ [Next]_vars => LinkExact'
<1> SUFFICES ASSUME Owned, HashInv, LinkExact, [Next]_vars
             PROVE  LinkExact'
  OBVIOUS
<1>0. TypeOK
  BY DEF HashInv
<1>1. CASE busy = "idle" /\ Mutation
  BY <1>0, <1>1, MutationExact
<1>2. CASE Hashing
  BY <1>2, SameTreeExact DEF Hashing, HashBegin, Visit, Push, Collected, Fill, HashReturn
<1>3. CASE Copying
  <2>1. ASSUME NEW n \in Node, NEW d \in Node, CopyBegin(n, d)
        PROVE  LinkExact'
    BY <2>1, SameTreeExact DEF CopyBegin
  <2>2. ASSUME busy = "copy", NEW k \in 0..(MaxLen + 1), NEW fresh \in [1..k -> Node \ alloc],
               CopyStep(fresh)
        PROVE  LinkExact'
    BY <2>2, CopyStepExact
  <2>3. CASE CopyReturn
    BY <2>3, SameTreeExact DEF CopyReturn
  <2>4. QED
    BY <1>3, <2>1, <2>2, <2>3 DEF Copying
<1>4. CASE UNCHANGED vars
  BY <1>4, SameTreeExact DEF vars
<1>5. QED
  BY <1>1, <1>2, <1>3, <1>4 DEF Next

LEMMA InitExact == Init => LinkExact
<1> SUFFICES ASSUME Init
             PROVE  LinkExact
  OBVIOUS
<1>1. \A n \in Node : Kids(n) = {}
  BY DEF Init, Kids, Range
<1>2. QED
  BY <1>1 DEF LinkExact

-----------------------------------------------------------------------------
(* A node whose children all point back to it holds each of them in one    *)
(* slot, the one the child's link names, and shares none of them with      *)
(* another such node.                                                      *)
HeldOnce ==
    \A n \in Node : Intact(n) =>
        /\ \A c \in Kids(n) : NamesItsSlot(c, n)
        /\ IsInjective(Args(n))
        /\ \A m \in Node \ {n} : Intact(m) => Kids(m) \cap Kids(n) = {}

LEMMA ExactHeldOnce == TypeOK /\ LinkExact => HeldOnce
<1> SUFFICES ASSUME TypeOK, LinkExact, NEW n \in Node, Intact(n)
             PROVE  /\ \A c \in Kids(n) : NamesItsSlot(c, n)
                    /\ IsInjective(Args(n))
                    /\ \A m \in Node \ {n} : Intact(m) => Kids(m) \cap Kids(n) = {}
  BY DEF HeldOnce
<1>1. \A c \in Kids(n) : NamesItsSlot(c, n)
  BY DEF LinkExact, Intact
<1>2. /\ this[n] # Nil => this[n] \notin Range(exprs[n])
      /\ IsInjective(exprs[n]) /\ exprs[n] \in Seq(alloc)
  BY ExactSlots
<1>3. IsInjective(Args(n))
  <2>1. CASE this[n] = Nil
    <3>1. Args(n) = exprs[n]
      BY <1>2, <2>1 DEF Args
    <3>2. QED
      BY <1>2, <3>1
  <2>2. CASE this[n] # Nil
    <3>1. this[n] \in alloc
      BY <2>2 DEF TypeOK
    <3>2. /\ DOMAIN Args(n) = 1..(Len(exprs[n]) + 1) /\ Args(n)[1] = this[n]
          /\ \A i \in 1..Len(exprs[n]) : Args(n)[i + 1] = exprs[n][i]
      BY <1>2, <2>2, <3>1 DEF Args
    <3>3. \A i \in 1..Len(exprs[n]) : exprs[n][i] # this[n]
      BY <1>2, <2>2 DEF Range
    <3>4. \A i, j \in 1..Len(exprs[n]) : exprs[n][i] = exprs[n][j] => i = j
      BY <1>2 DEF IsInjective
    <3>5. \A k \in DOMAIN Args(n) : k = 1 \/ \E i \in 1..Len(exprs[n]) : k = i + 1
      <4>1. SUFFICES ASSUME NEW k \in DOMAIN Args(n), k # 1
                     PROVE  k - 1 \in 1..Len(exprs[n]) /\ k = (k - 1) + 1
        OBVIOUS
      <4>2. Len(exprs[n]) \in Nat /\ k \in 1..(Len(exprs[n]) + 1)
        BY <1>2, <3>2
      <4>3. QED
        BY <4>1, <4>2
    <3>6. QED
      BY <3>2, <3>3, <3>4, <3>5 DEF IsInjective
  <2>3. QED
    BY <2>1, <2>2
<1>4. \A m \in Node \ {n} : Intact(m) => Kids(m) \cap Kids(n) = {}
  BY DEF Intact
<1>5. QED
  BY <1>1, <1>3, <1>4

(* core.js:252-259, 309-321: for a caller that keeps the ownership         *)
(* convention, after any sequence of mutations, hash() and copy() calls, a *)
(* held child whose link points to its holder is in exactly one slot of    *)
(* it, the one the link names; and nodes whose children all point back to  *)
(* them hold no node twice, be it in one of them or in two.  Of a child    *)
(* whose link points elsewhere nothing is said: replace() by a node from   *)
(* inside leaves one in the discarded node, and replace() by a list that   *)
(* climbs to a parentless node leaves children there with no link at all.  *)
THEOREM BackLinksAreExact == Owned /\ Spec => [](LinkExact /\ HeldOnce)
<1>1. Owned /\ HashInv /\ LinkExact /\ [Next]_vars => LinkExact'
  BY NextExact
<1>2. Owned => Owned'
  OBVIOUS
<1>3. HashInv /\ LinkExact => LinkExact /\ HeldOnce
  BY ExactHeldOnce DEF HashInv
<1>4. QED
  BY <1>1, <1>2, <1>3, InitExact, HashInvariant, PTL DEF Spec

-----------------------------------------------------------------------------
(* The journal.  While the tree is built every back link names a slot and  *)
(* every held node has one.                                                *)
LEMMA ExactMeans ==
    ASSUME NEW t
    PROVE  Exact(t) <=>
             /\ \A n \in Node : t.this[n] # Nil => t.link[t.this[n]] = Slot(n, "this", 0)
             /\ \A n \in Node : \A i \in DOMAIN t.exprs[n] :
                   t.link[t.exprs[n][i]] = Slot(n, "expressions", i)
             /\ \A c \in Node : t.link[c].parent # Nil =>
                   \/ t.link[c].key = "this" /\ t.this[t.link[c].parent] = c
                   \/ /\ t.link[c].key = "expressions"
                      /\ t.link[c].index \in DOMAIN t.exprs[t.link[c].parent]
                      /\ t.exprs[t.link[c].parent][t.link[c].index] = c
BY DEF Exact, Slot

LEMMA BuildKeepsExact ==
    ASSUME TypeOK, Owned, Exact(Snapshot),
           \A m \in Node \ alloc : this[m] = Nil /\ exprs[m] = <<>>,
           NEW n \in Node, NEW c \in alloc \cup {Nil}, NEW t \in Text, NEW xs \in Lists(n, {}),
           c # Nil => MayAttach(n, c), Construct(n, t, c, xs)
    PROVE  /\ Exact(Snapshot)'
           /\ \A m \in Node \ alloc' : this'[m] = Nil /\ exprs'[m] = <<>>
<1>1. /\ xs \in Seq(alloc) /\ IsInjective(xs) /\ c \notin Range(xs) /\ alloc \subseteq Node
      /\ \A j \in DOMAIN xs : MayAttach(n, xs[j])
  <2>1. /\ xs \in Seq(alloc) /\ IsInjective(xs)
        /\ \A j \in DOMAIN xs : xs[j] \in {} \/ MayAttach(n, xs[j])
    BY ListsApart
  <2>2. c \notin Range(xs) /\ alloc \subseteq Node
    BY DEF Construct, TypeOK
  <2>3. QED
    BY <2>1, <2>2
<1>2. /\ n \notin alloc /\ alloc' = alloc \cup {n}
      /\ this' = [this EXCEPT ![n] = c] /\ exprs' = [exprs EXCEPT ![n] = xs]
      /\ \A k \in Node : link'[k] =
            IF k \in Range(xs) THEN Slot(n, "expressions", LastIndex(xs, k))
            ELSE IF c # Nil /\ k = c THEN Slot(n, "this", 0) ELSE link[k]
  BY DEF Construct, Relinked, WithThis, TypeOK, Slot
<1>3. /\ \A m \in Node : this[m] # Nil => link[this[m]] = Slot(m, "this", 0)
      /\ \A m \in Node : \A i \in DOMAIN exprs[m] : link[exprs[m][i]] = Slot(m, "expressions", i)
      /\ \A k \in Node : link[k].parent # Nil =>
            \/ link[k].key = "this" /\ this[link[k].parent] = k
            \/ /\ link[k].key = "expressions"
               /\ link[k].index \in DOMAIN exprs[link[k].parent]
               /\ exprs[link[k].parent][link[k].index] = k
  <2>1. PICK s : s = Snapshot
    OBVIOUS
  <2>2. s.this = this /\ s.exprs = exprs /\ s.link = link
    BY <2>1 DEF Snapshot
  <2>3. Exact(s)
    BY <2>1
  <2>4. QED
    BY <2>2, <2>3, ExactMeans
<1>4. /\ \A k \in Range(xs) : k \in Node /\ link[k] = NoLink
      /\ c # Nil => c \in Node /\ link[c] = NoLink
  BY <1>1, Attachable DEF Range
<1>5. \A m \in Node : /\ this[m] # Nil => this[m] \in Node
                      /\ \A i \in DOMAIN exprs[m] : exprs[m][i] \in Node
  BY DEF TypeOK
<1>6. \A k \in Node : link[k].parent # Nil => link'[k] = link[k]
  BY <1>2, <1>4 DEF NoLink
<1>7. \A i \in DOMAIN xs : LastIndex(xs, xs[i]) = i /\ xs[i] \in Range(xs)
  BY <1>1, LastIndexOfDistinct DEF Range
<1>8. \A m \in Node : this'[m] # Nil => link'[this'[m]] = Slot(m, "this", 0)
  <2>1. SUFFICES ASSUME NEW m \in Node, this'[m] # Nil
                 PROVE  link'[this'[m]] = Slot(m, "this", 0)
    OBVIOUS
  <2>2. CASE m = n
    <3>1. this'[m] = c
      BY <1>2, <2>2 DEF TypeOK
    <3>2. QED
      BY <1>1, <1>2, <1>4, <2>1, <2>2, <3>1
  <2>3. CASE m # n
    <3>1. this'[m] = this[m]
      BY <1>2, <2>3 DEF TypeOK
    <3>2. link[this[m]] = Slot(m, "this", 0) /\ this[m] \in Node
      BY <1>3, <1>5, <2>1, <3>1
    <3>3. link[this[m]].parent # Nil
      BY <3>2, SlotFields, NilAssumption
    <3>4. QED
      BY <1>6, <3>1, <3>2, <3>3
  <2>4. QED
    BY <2>2, <2>3
<1>9. \A m \in Node : \A i \in DOMAIN exprs'[m] :
         link'[exprs'[m][i]] = Slot(m, "expressions", i)
  <2>1. SUFFICES ASSUME NEW m \in Node, NEW i \in DOMAIN exprs'[m]
                 PROVE  link'[exprs'[m][i]] = Slot(m, "expressions", i)
    OBVIOUS
  <2>2. CASE m = n
    <3>1. exprs'[m] = xs
      BY <1>2, <2>2 DEF TypeOK
    <3>2. QED
      BY <1>2, <1>4, <1>7, <2>1, <2>2, <3>1
  <2>3. CASE m # n
    <3>1. exprs'[m] = exprs[m]
      BY <1>2, <2>3 DEF TypeOK
    <3>2. link[exprs[m][i]] = Slot(m, "expressions", i) /\ exprs[m][i] \in Node
      BY <1>3, <1>5, <2>1, <3>1
    <3>3. link[exprs[m][i]].parent # Nil
      BY <3>2, SlotFields, NilAssumption
    <3>4. QED
      BY <1>6, <3>1, <3>2, <3>3
  <2>4. QED
    BY <2>2, <2>3
<1>10. \A k \in Node : link'[k].parent # Nil =>
          \/ link'[k].key = "this" /\ this'[link'[k].parent] = k
          \/ /\ link'[k].key = "expressions"
             /\ link'[k].index \in DOMAIN exprs'[link'[k].parent]
             /\ exprs'[link'[k].parent][link'[k].index] = k
  <2>1. SUFFICES ASSUME NEW k \in Node, link'[k].parent # Nil
                 PROVE  \/ link'[k].key = "this" /\ this'[link'[k].parent] = k
                        \/ /\ link'[k].key = "expressions"
                           /\ link'[k].index \in DOMAIN exprs'[link'[k].parent]
                           /\ exprs'[link'[k].parent][link'[k].index] = k
    OBVIOUS
  <2>2. exprs'[n] = xs /\ this'[n] = c
    BY <1>2 DEF TypeOK
  <2>3. CASE k \in Range(xs)
    <3>1. PICK i \in DOMAIN xs : k = xs[i]
      BY <2>3 DEF Range
    <3>2. link'[k] = Slot(n, "expressions", i)
      BY <1>2, <1>7, <2>3, <3>1
    <3>3. QED
      BY <2>2, <3>1, <3>2, SlotFields
  <2>4. CASE k \notin Range(xs) /\ c # Nil /\ k = c
    <3>1. link'[k] = Slot(n, "this", 0)
      BY <1>2, <2>4
    <3>2. QED
      BY <2>2, <2>4, <3>1, SlotFields
  <2>5. CASE k \notin Range(xs) /\ ~ (c # Nil /\ k = c)
    <3>1. link'[k] = link[k]
      BY <1>2, <2>5
    <3>2. PICK p \in Node : p = link[k].parent
      BY <2>1, <3>1 DEF TypeOK, Link
    <3>3. \/ link[k].key = "this" /\ this[p] = k
          \/ /\ link[k].key = "expressions" /\ link[k].index \in DOMAIN exprs[p]
             /\ exprs[p][link[k].index] = k
      BY <1>3, <2>1, <3>1, <3>2
    <3>4. p # n
      <4>1. this[n] = Nil /\ DOMAIN exprs[n] = {}
        BY <1>2
      <4>2. QED
        BY <3>3, <4>1, NilAssumption
    <3>5. this'[p] = this[p] /\ exprs'[p] = exprs[p]
      BY <1>2, <3>4 DEF TypeOK
    <3>6. QED
      BY <3>1, <3>2, <3>3, <3>5
  <2>6. QED
    BY <2>3, <2>4, <2>5
<1>11. Exact(Snapshot)'
  <2>1. PICK s : s = Snapshot'
    OBVIOUS
  <2>2. s.this = this' /\ s.exprs = exprs' /\ s.link = link'
    BY <2>1 DEF Snapshot
  <2>3. Exact(s)
    BY <1>8, <1>9, <1>10, <2>2, ExactMeans
  <2>4. Exact(Snapshot') <=> Exact(Snapshot)'
    BY DEF Exact, Snapshot
  <2>5. QED
    BY <2>1, <2>3, <2>4
<1>12. \A m \in Node \ alloc' : this'[m] = Nil /\ exprs'[m] = <<>>
  BY <1>2 DEF TypeOK
<1>13. QED
  BY <1>11, <1>12

(* A step of the rule keeps what revert() relies on, if it changes only    *)
(* recorded arguments, takes a node only out of a recorded argument, and   *)
(* hangs nodes in that the tree held when the rule started.                *)
LEMMA RuleStepKeeps ==
    ASSUME JournalInv, phase = "rule", UNCHANGED jvars, UNCHANGED alloc,
           HashInv', LinkExact', busy' = "idle",
           \A n \in Node : /\ text'[n] = text[n] \/ Recorded(n, "text")
                           /\ this'[n] = this[n] \/ Recorded(n, "this")
                           /\ exprs'[n] = exprs[n] \/ Recorded(n, "expressions"),
           \A c \in Node : \/ link'[c] = link[c] \/ link[c].parent = Nil
                           \/ Recorded(link[c].parent, link[c].key),
           \A n \in Node : \A c \in Kids(n)' : saved.link[c].parent # Nil
    PROVE  JournalInv'
<1>1. /\ journal' = journal /\ phase' = phase /\ saved' = saved /\ alloc' = alloc
      /\ Exact(saved) /\ JournalType /\ UndoKnown /\ LinksKnown
  BY DEF jvars, JournalInv
<1>2. \A n, key : Recorded(n, key)' = Recorded(n, key)
  BY <1>1 DEF Recorded
<1>3. \A i, n, key : Earlier(i, n, key)' = Earlier(i, n, key)
  BY <1>1 DEF Earlier
<1>4. \A n \in Node, key \in Keys :
         Argument(n, key)' = Argument(n, key) \/ Recorded(n, key)
  BY DEF Argument, Keys
<1>5. UndoKnown'
  <2>1. \A n, key : SavedArgument(n, key)' = SavedArgument(n, key)
    BY <1>1 DEF SavedArgument
  <2>2. \A n \in Node, key \in Keys :
           (~ Recorded(n, key) => Argument(n, key) = SavedArgument(n, key))'
    BY <1>1, <1>2, <1>4, <2>1 DEF UndoKnown
  <2>3. (\A i \in DOMAIN journal :
            ~ Earlier(i, journal[i].node, journal[i].key) =>
               journal[i].value = SavedArgument(journal[i].node, journal[i].key))'
    BY <1>1 DEF UndoKnown, Earlier, SavedArgument
  <2>4. QED
    BY <2>2, <2>3 DEF UndoKnown
<1>6. LinksKnown'
  <2>1. ASSUME NEW c \in Node, (saved.link[c].parent # Nil)'
        PROVE  (link[c] = saved.link[c] \/ Recorded(saved.link[c].parent, saved.link[c].key))'
    <3>1. link[c] = saved.link[c] \/ Recorded(saved.link[c].parent, saved.link[c].key)
      BY <1>1, <2>1 DEF LinksKnown
    <3>2. link'[c] = saved.link[c] \/ Recorded(saved.link[c].parent, saved.link[c].key)
      BY <1>1, <2>1, <3>1
    <3>3. QED
      BY <1>1, <3>2 DEF Recorded
  <2>2. (\A n \in Node : \A c \in Kids(n) : saved.link[c].parent # Nil)'
    BY <1>1
  <2>3. ASSUME NEW i \in DOMAIN journal', NEW c \in Carried(journal[i].key, journal[i].value)'
        PROVE  (/\ saved.link[c].parent # Nil
                /\ \/ saved.link[c].parent = journal[i].node /\ saved.link[c].key = journal[i].key
                   \/ Earlier(i, saved.link[c].parent, saved.link[c].key))'
    <3>1. i \in DOMAIN journal /\ c \in Carried(journal[i].key, journal[i].value)
      BY <1>1, <2>3 DEF Carried
    <3>2. /\ saved.link[c].parent # Nil
          /\ \/ saved.link[c].parent = journal[i].node /\ saved.link[c].key = journal[i].key
             \/ Earlier(i, saved.link[c].parent, saved.link[c].key)
      BY <1>1, <3>1 DEF LinksKnown
    <3>3. QED
      BY <1>1, <3>2 DEF Earlier
  <2>4. QED
    BY <2>1, <2>2, <2>3, Zenon DEF LinksKnown
<1>7. JournalType' /\ Exact(saved)'
  <2>1. JournalType'
    BY <1>1 DEF JournalType
  <2>2. Exact(saved)'
    BY <1>1 DEF Exact
  <2>3. QED
    BY <2>1, <2>2
<1>8. QED
  BY <1>1, <1>5, <1>6, <1>7 DEF JournalInv

LEMMA DetachKeeps ==
    ASSUME Owned, JournalInv, NEW c \in alloc, Detach(c)
    PROVE  JournalInv'
<1>1. /\ phase = "rule" /\ UNCHANGED jvars /\ Recorded(link[c].parent, link[c].key)
      /\ Replace(c, Nil) /\ MayReplace(c)
      /\ HashInv /\ TypeOK /\ LinkExact /\ busy = "idle" /\ LinksKnown
  BY DEF Detach, Pop, Replace, JournalInv, HashInv
<1>2. HashInv' /\ LinkExact'
  BY <1>1, ReplaceKeepsInv, ReplaceExact
<1>3. PICK p \in Node : p = link[c].parent
  BY <1>1 DEF MayReplace, TypeOK, Link
<1>4. /\ Intact(p) /\ c \in Kids(p)
      /\ \/ link[c].key = "this" /\ this[p] = c
         \/ /\ link[c].key = "expressions" /\ link[c].index \in DOMAIN exprs[p]
            /\ exprs[p][link[c].index] = c
  BY <1>1, <1>3, ReplacedSlot
<1>5. PICK w : /\ w = (IF link[c].key = "this" THEN WithThis(p, Nil)
                       ELSE WithRemoved(p, link[c].index))
               /\ Commit(p, w, {c})
  <2>1. {c} \ {Nil} = {c}
    BY <1>1, NilAssumption DEF TypeOK
  <2>2. Commit(p, IF link[c].key = "this" THEN WithThis(p, Nil)
                  ELSE WithItem(p, link[c].index, Nil, TRUE), {c})
    BY <1>1, <1>3, <2>1 DEF Replace
  <2>3. link[c].key # "this" =>
           WithItem(p, link[c].index, Nil, TRUE) = WithRemoved(p, link[c].index)
    BY <1>4 DEF WithItem
  <2>4. QED
    BY <2>2, <2>3
<1>6. /\ alloc' = alloc /\ text' = text /\ busy' = busy
      /\ this' = w.this /\ exprs' = w.exprs
      /\ \A m \in Node : link'[m] = IF m \in {c} THEN NoLink ELSE w.link[m]
  BY <1>5 DEF Commit, loop
<1>7. /\ \A m \in Node : this'[m] = this[m] \/ (m = p /\ link[c].key = "this" /\ this'[m] = Nil)
      /\ \A m \in Node : \/ exprs'[m] = exprs[m]
                         \/ /\ m = p /\ link[c].key = "expressions"
                            /\ Range(exprs'[m]) \subseteq Range(exprs[m])
      /\ \A m \in Node : \/ link'[m] = link[m] \/ m = c
                         \/ link[c].key = "expressions" /\ m \in Range(exprs[p])
  <2>1. CASE link[c].key = "this"
    BY <1>5, <1>6, <2>1 DEF WithThis, TypeOK
  <2>2. CASE link[c].key # "this"
    <3>1. link[c].key = "expressions" /\ link[c].index \in DOMAIN exprs[p]
      BY <1>4, <2>2
    <3>2. PICK xs : xs = Spliced(exprs[p], link[c].index, 1, <<>>)
      OBVIOUS
    <3>3. /\ w.this = this /\ w.exprs = [exprs EXCEPT ![p] = xs]
          /\ w.link = Reindexed(xs, link[c].index, link)
      BY <1>5, <2>2, <3>2 DEF WithRemoved
    <3>4. Range(xs) \subseteq Range(exprs[p])
      <4>1. /\ exprs[p] \in Seq(alloc) /\ IsInjective(exprs[p])
            /\ link[c].index \in 1..Len(exprs[p]) /\ 1 \in 0..1
        BY <1>1, <1>4, <3>1, ExactSlots
      <4>2. PICK none \in Seq(alloc) : none = <<>>
        <5>1. <<>> \in Seq(alloc)
          OBVIOUS
        <5>2. QED
          BY <5>1
      <4>3. DOMAIN none = {} /\ IsInjective(none) /\ Range(none) = {}
        BY <4>2 DEF IsInjective, Range
      <4>4. SplicedApart(exprs[p], link[c].index, 1, none, xs)
        <5>1. \A j \in DOMAIN none, k \in DOMAIN exprs[p] :
                 none[j] = exprs[p][k] => k = link[c].index /\ 1 = 1
          BY <4>3
        <5>2. xs = Spliced(exprs[p], link[c].index, 1, none)
          BY <3>2, <4>2
        <5>3. QED
          BY <4>1, <4>3, <5>1, <5>2, SplicedDistinct
      <4>5. QED
        BY <4>3, <4>4 DEF SplicedApart
    <3>5. \A m \in Node : m \notin Range(xs) => w.link[m] = link[m]
      BY <3>3 DEF Reindexed, TypeOK
    <3>6. \A m \in Node : exprs'[m] = IF m = p THEN xs ELSE exprs[m]
      BY <1>1, <1>6, <3>3 DEF TypeOK
    <3>7. \A m \in Node : this'[m] = this[m]
      BY <1>6, <3>3
    <3>8. \A m \in Node : link'[m] = link[m] \/ m = c \/ m \in Range(exprs[p])
      BY <1>6, <3>4, <3>5
    <3>9. QED
      BY <3>1, <3>4, <3>6, <3>7, <3>8
  <2>3. QED
    BY <2>1, <2>2
<1>8. \A m \in Node : \/ link'[m] = link[m]
                      \/ Recorded(link[m].parent, link[m].key)
  <2>1. ASSUME NEW m \in Node, m \in Range(exprs[p]), link[c].key = "expressions"
        PROVE  Recorded(link[m].parent, link[m].key)
    <3>1. PICK j \in DOMAIN exprs[p] : m = exprs[p][j]
      BY <2>1 DEF Range
    <3>2. link[m] = Slot(p, "expressions", j)
      BY <1>1, <1>4, <3>1, ExactSlots
    <3>3. QED
      BY <1>1, <1>3, <2>1, <3>2, SlotFields
  <2>2. QED
    BY <1>1, <1>7, <2>1
<1>9. \A n \in Node : \A k \in Kids(n)' : saved.link[k].parent # Nil
  <2>1. \A n \in Node : Kids(n)' \subseteq Kids(n)
    BY <1>7 DEF Kids
  <2>2. QED
    BY <1>1, <2>1 DEF LinksKnown
<1>10. \A n \in Node : /\ text'[n] = text[n] \/ Recorded(n, "text")
                       /\ this'[n] = this[n] \/ Recorded(n, "this")
                       /\ exprs'[n] = exprs[n] \/ Recorded(n, "expressions")
  BY <1>1, <1>3, <1>6, <1>7
<1>11. QED
  BY <1>1, <1>2, <1>6, <1>8, <1>9, <1>10, RuleStepKeeps

LEMMA AttachKeeps ==
    ASSUME Owned, JournalInv, NEW n \in alloc, NEW v \in alloc \cup {Nil}, Attach(n, v)
    PROVE  JournalInv'
<1>1. /\ phase = "rule" /\ UNCHANGED jvars /\ Recorded(n, "this") /\ SetThis(n, v)
      /\ v # Nil => saved.link[v].parent # Nil
      /\ HashInv /\ TypeOK /\ LinkExact /\ busy = "idle" /\ LinksKnown /\ n \in Node
  BY DEF Attach, Movable, JournalInv, HashInv, TypeOK
<1>2. /\ Written(n, WithThis(n, v)) /\ Commit(n, WithThis(n, v), {})
      /\ v # Nil => MayAttach(n, v)
  BY <1>1, WithThisWritten DEF SetThis
<1>3. HashInv' /\ LinkExact'
  BY <1>1, <1>2, CommitKeepsInv, SetThisExact
<1>4. /\ alloc' = alloc /\ text' = text /\ busy' = busy /\ exprs' = exprs
      /\ this' = [this EXCEPT ![n] = v]
      /\ \A m \in Node : link'[m] = link[m] \/ (v # Nil /\ m = v)
  BY <1>1, <1>2 DEF Commit, WithThis, loop, TypeOK
<1>5. \A m \in Node : link'[m] = link[m] \/ link[m].parent = Nil
  <2>1. v # Nil => link[v] = NoLink
    BY <1>1, <1>2, Attachable
  <2>2. QED
    BY <1>4, <2>1 DEF NoLink
<1>6. \A m \in Node : \A k \in Kids(m)' : saved.link[k].parent # Nil
  <2>1. \A m \in Node : Kids(m)' \subseteq Kids(m) \cup ({v} \ {Nil})
    BY <1>4 DEF Kids, TypeOK
  <2>2. QED
    BY <1>1, <2>1 DEF LinksKnown
<1>7. \A m \in Node : /\ text'[m] = text[m] \/ Recorded(m, "text")
                      /\ this'[m] = this[m] \/ Recorded(m, "this")
                      /\ exprs'[m] = exprs[m] \/ Recorded(m, "expressions")
  BY <1>1, <1>4 DEF TypeOK
<1>8. QED
  BY <1>1, <1>3, <1>4, <1>5, <1>6, <1>7, RuleStepKeeps

LEMMA SelectKeeps ==
    ASSUME Owned, JournalInv, NEW n \in alloc, NEW xs \in Lists(n, Range(exprs[n])),
           Select(n, xs)
    PROVE  JournalInv'
<1>1. /\ phase = "rule" /\ UNCHANGED jvars /\ Recorded(n, "expressions") /\ SetList(n, xs)
      /\ \A v \in Range(xs) : saved.link[v].parent # Nil
      /\ HashInv /\ TypeOK /\ LinkExact /\ busy = "idle" /\ LinksKnown /\ n \in Node
  BY DEF Select, Movable, JournalInv, HashInv, TypeOK
<1>2. /\ xs \in Seq(alloc) /\ \A j \in DOMAIN xs : xs[j] \in Range(exprs[n]) \/ MayAttach(n, xs[j])
  <2>1. Range(exprs[n]) \in SUBSET alloc
    BY <1>1 DEF TypeOK, Range
  <2>2. QED
    BY <1>1, <2>1, ListsApart
<1>3. Written(n, WithList(n, xs)) /\ Commit(n, WithList(n, xs), {}) /\ Intact(n)
  BY <1>1, <1>2, WithListWritten DEF SetList, MayMutate
<1>4. HashInv' /\ LinkExact'
  BY <1>1, <1>3, CommitKeepsInv, SetListExact
<1>5. /\ alloc' = alloc /\ text' = text /\ busy' = busy /\ this' = this
      /\ exprs' = [exprs EXCEPT ![n] = xs]
      /\ \A m \in Node : link'[m] = link[m] \/ m \in Range(xs)
  BY <1>1, <1>3 DEF Commit, WithList, Relinked, loop, TypeOK
<1>6. \A m \in Node : \/ link'[m] = link[m] \/ link[m].parent = Nil
                      \/ Recorded(link[m].parent, link[m].key)
  <2>1. ASSUME NEW m \in Node, m \in Range(xs)
        PROVE  link[m].parent = Nil \/ Recorded(link[m].parent, link[m].key)
    <3>1. m \in Range(exprs[n]) \/ MayAttach(n, m)
      BY <1>2, <2>1 DEF Range
    <3>2. CASE MayAttach(n, m)
      BY <1>1, <3>2, Attachable DEF NoLink
    <3>3. CASE m \in Range(exprs[n])
      <4>1. PICK j \in DOMAIN exprs[n] : m = exprs[n][j]
        BY <3>3 DEF Range
      <4>2. link[m] = Slot(n, "expressions", j)
        BY <1>1, <1>3, <4>1, ExactSlots
      <4>3. QED
        BY <1>1, <4>2, SlotFields
    <3>4. QED
      BY <3>1, <3>2, <3>3
  <2>2. QED
    BY <1>5, <2>1
<1>7. \A m \in Node : \A k \in Kids(m)' : saved.link[k].parent # Nil
  <2>1. \A m \in Node : Kids(m)' \subseteq Kids(m) \cup Range(xs)
    BY <1>1, <1>5 DEF Kids, TypeOK
  <2>2. QED
    BY <1>1, <2>1 DEF LinksKnown
<1>8. \A m \in Node : /\ text'[m] = text[m] \/ Recorded(m, "text")
                      /\ this'[m] = this[m] \/ Recorded(m, "this")
                      /\ exprs'[m] = exprs[m] \/ Recorded(m, "expressions")
  BY <1>1, <1>5 DEF TypeOK
<1>9. QED
  BY <1>1, <1>4, <1>5, <1>6, <1>7, <1>8, RuleStepKeeps

LEMMA RewriteKeeps ==
    ASSUME JournalInv, NEW n \in alloc, NEW t \in Text, Rewrite(n, t)
    PROVE  JournalInv'
<1>1. /\ phase = "rule" /\ UNCHANGED jvars /\ Recorded(n, "text") /\ SetText(n, t)
      /\ HashInv /\ TypeOK /\ LinkExact /\ busy = "idle" /\ LinksKnown /\ n \in Node
  BY DEF Rewrite, JournalInv, HashInv, TypeOK
<1>2. HashInv' /\ LinkExact'
  BY <1>1, SetTextKeepsInv, SameTreeExact DEF SetText
<1>3. /\ alloc' = alloc /\ this' = this /\ exprs' = exprs /\ link' = link /\ busy' = busy
      /\ text' = [text EXCEPT ![n] = t]
  BY <1>1 DEF SetText, loop
<1>4. \A m \in Node : \A k \in Kids(m)' : saved.link[k].parent # Nil
  BY <1>1, <1>3 DEF LinksKnown, Kids
<1>5. \A m \in Node : /\ text'[m] = text[m] \/ Recorded(m, "text")
                      /\ this'[m] = this[m] \/ Recorded(m, "this")
                      /\ exprs'[m] = exprs[m] \/ Recorded(m, "expressions")
  BY <1>1, <1>3 DEF TypeOK
<1>6. QED
  BY <1>1, <1>2, <1>3, <1>4, <1>5, RuleStepKeeps

(* Steps that leave the tree alone.                                        *)
LEMMA StartKeeps ==
    ASSUME JournalInv, Start
    PROVE  JournalInv'
<1>1. /\ phase = "build" /\ phase' = "rule" /\ saved' = Snapshot /\ journal' = <<>>
      /\ UNCHANGED vars /\ HashInv /\ TypeOK /\ LinkExact /\ busy = "idle" /\ Exact(Snapshot)
  BY DEF Start, JournalInv, HashInv
<1>2. UNCHANGED <<alloc, text, this, exprs, link, busy>>
  BY <1>1 DEF vars
<1>3. HashInv' /\ LinkExact' /\ busy' = "idle"
  BY <1>1, <1>2, StutterKeepsInv, SameTreeExact
<1>4. saved' = [text |-> text', this |-> this', exprs |-> exprs', link |-> link']
  BY <1>1, <1>2 DEF Snapshot
<1>5. /\ saved'.text = text' /\ saved'.this = this' /\ saved'.exprs = exprs'
      /\ saved'.link = link' /\ DOMAIN journal' = {}
  BY <1>1, <1>4
<1>6. TypeOK'
  BY <1>3 DEF HashInv
<1>7. Exact(saved)'
  <2>1. PICK s : s = Snapshot
    OBVIOUS
  <2>2. Exact(s)
    BY <1>1, <2>1
  <2>3. saved' = s
    BY <1>1, <2>1
  <2>4. QED
    BY <2>2, <2>3 DEF Exact
<1>8. JournalType'
  <2>1. saved' \in [text : [Node -> Text \cup {Nil}], this : [Node -> alloc' \cup {Nil}],
                    exprs : [Node -> Seq(alloc')], link : [Node -> Link]]
    BY <1>4, <1>6 DEF TypeOK
  <2>2. journal' \in Seq(Range(journal)')
    BY <1>1
  <2>3. QED
    BY <1>5, <2>1, <2>2 DEF JournalType
<1>9. UndoKnown'
  <2>1. \A n \in Node, key \in Keys : (Argument(n, key) = SavedArgument(n, key))'
    BY <1>5 DEF Argument, SavedArgument
  <2>2. QED
    BY <1>5, <2>1 DEF UndoKnown
<1>10. LinksKnown'
  <2>1. \A c \in Node : (link[c] = saved.link[c])'
    BY <1>5
  <2>2. \A n \in Node : \A c \in Kids(n)' : saved'.link[c].parent # Nil
    <3>1. SUFFICES ASSUME NEW n \in Node, NEW c \in Kids(n)
                   PROVE  link[c].parent # Nil
      BY <1>2, <1>5 DEF Kids
    <3>2. PICK s : s = Snapshot
      OBVIOUS
    <3>3. s.this = this /\ s.exprs = exprs /\ s.link = link /\ Exact(s)
      BY <1>1, <3>2 DEF Snapshot
    <3>4. /\ this[n] # Nil => link[this[n]] = Slot(n, "this", 0)
          /\ \A i \in DOMAIN exprs[n] : link[exprs[n][i]] = Slot(n, "expressions", i)
      BY <3>3, ExactMeans
    <3>5. (c = this[n] /\ this[n] # Nil) \/ \E i \in DOMAIN exprs[n] : c = exprs[n][i]
      BY <3>1 DEF Kids, Range
    <3>6. QED
      BY <3>4, <3>5, SlotFields, NilAssumption
  <2>3. QED
    BY <1>5, <2>1, <2>2 DEF LinksKnown
<1>11. QED
  BY <1>1, <1>3, <1>7, <1>8, <1>9, <1>10 DEF JournalInv

LEMMA PhaseKeeps ==
    ASSUME JournalInv, UNCHANGED vars, journal' = journal, saved' = saved,
           \/ phase' = phase
           \/ phase = "rule" /\ phase' = "revert"
           \/ phase = "revert" /\ phase' = "done" /\ journal = <<>>
    PROVE  JournalInv'
<1>1. UNCHANGED <<alloc, text, this, exprs, link, busy>> /\ HashInv'
  BY StutterKeepsInv DEF vars, JournalInv
<1>2. LinkExact => LinkExact'
  BY <1>1, SameTreeExact
<1>3. phase' # "build" => phase # "build"
  BY DEF JournalInv
<1>4. Exact(Snapshot) => Exact(Snapshot)'
  BY <1>1 DEF Exact, Snapshot
<1>5. Exact(saved) => Exact(saved)'
  BY DEF Exact
<1>6. JournalType => JournalType'
  BY <1>1 DEF JournalType
<1>7. UndoKnown => UndoKnown'
  BY <1>1 DEF UndoKnown, Recorded, Earlier, Argument, SavedArgument
<1>8. LinksKnown => LinksKnown'
  <2>1. /\ \A n, key : Recorded(n, key)' = Recorded(n, key)
        /\ \A n \in Node : Kids(n)' = Kids(n)
    BY <1>1 DEF Recorded, Kids
  <2>2. ASSUME LinksKnown, NEW c \in Node, saved.link[c].parent # Nil
        PROVE  (link[c] = saved.link[c] \/ Recorded(saved.link[c].parent, saved.link[c].key))'
    BY <1>1, <2>2 DEF LinksKnown, Recorded
  <2>3. ASSUME LinksKnown, NEW n \in Node, NEW c \in Kids(n)'
        PROVE  (saved.link[c].parent # Nil)'
    BY <2>1, <2>3 DEF LinksKnown
  <2>4. ASSUME LinksKnown, NEW i \in DOMAIN journal',
               NEW c \in Carried(journal[i].key, journal[i].value)'
        PROVE  (/\ saved.link[c].parent # Nil
                /\ \/ saved.link[c].parent = journal[i].node /\ saved.link[c].key = journal[i].key
                   \/ Earlier(i, saved.link[c].parent, saved.link[c].key))'
    <3>1. i \in DOMAIN journal /\ c \in Carried(journal[i].key, journal[i].value)
      BY <2>4 DEF Carried
    <3>2. /\ saved.link[c].parent # Nil
          /\ \/ saved.link[c].parent = journal[i].node /\ saved.link[c].key = journal[i].key
             \/ Earlier(i, saved.link[c].parent, saved.link[c].key)
      BY <2>4, <3>1 DEF LinksKnown
    <3>3. QED
      BY <3>2 DEF Earlier
  <2>5. ASSUME LinksKnown, NEW c \in Node, (saved.link[c].parent # Nil)'
        PROVE  (link[c] = saved.link[c] \/ Recorded(saved.link[c].parent, saved.link[c].key))'
    BY <2>2, <2>5
  <2>6. QED
    BY <2>3, <2>4, <2>5, Zenon DEF LinksKnown
<1>9. /\ phase' \in {"build", "rule", "revert", "done"}
      /\ phase' \in {"build", "rule"} => phase \in {"build", "rule"}
      /\ phase' = "build" => phase = "build"
      /\ phase' = "done" => journal' = <<>>
  BY DEF JournalInv
<1>10. phase' = "build" => \A n \in Node \ alloc' : this'[n] = Nil /\ exprs'[n] = <<>>
  BY <1>1, <1>9 DEF JournalInv
<1>11. QED
  BY <1>1, <1>2, <1>3, <1>4, <1>5, <1>6, <1>7, <1>8, <1>9, <1>10 DEF JournalInv

LEMMA RecordKeeps ==
    ASSUME JournalInv, NEW n \in alloc, NEW key \in Keys, Record(n, key)
    PROVE  JournalInv'
<1>1. /\ phase = "rule" /\ phase' = phase /\ saved' = saved /\ Intact(n)
      /\ UNCHANGED vars /\ HashInv /\ TypeOK /\ LinkExact /\ busy = "idle"
      /\ Exact(saved) /\ JournalType /\ UndoKnown /\ LinksKnown /\ n \in Node
  BY DEF Record, JournalInv, HashInv, TypeOK
<1>2. UNCHANGED <<alloc, text, this, exprs, link, busy>> /\ HashInv' /\ LinkExact'
  <2>1. UNCHANGED <<alloc, text, this, exprs, link, busy>>
    BY <1>1 DEF vars
  <2>2. QED
    BY <1>1, <2>1, StutterKeepsInv, SameTreeExact
<1>3. PICK r : /\ r = [node |-> n, key |-> key, value |-> Argument(n, key)]
               /\ journal' = Append(journal, r)
  BY DEF Record
<1>4. r.node = n /\ r.key = key /\ r.value = Argument(n, key)
  BY <1>3
<1>5. PICK k \in Nat : k = Len(journal)
  BY <1>1 DEF JournalType
<1>6. /\ DOMAIN journal = 1..k /\ DOMAIN journal' = 1..(k + 1) /\ journal'[k + 1] = r
      /\ \A i \in 1..k : journal'[i] = journal[i]
      /\ journal' \in Seq(Range(journal)')
  <2>1. journal \in Seq(Range(journal) \cup {r})
    <3>1. Range(journal) \subseteq Range(journal) \cup {r}
      OBVIOUS
    <3>2. QED
      BY <1>1, <3>1, SeqMonotonic DEF JournalType
  <2>2. /\ journal' \in Seq(Range(journal) \cup {r}) /\ Len(journal') = k + 1
        /\ \A i \in 1..k : journal'[i] = journal[i]
        /\ journal'[k + 1] = r
    BY <1>3, <1>5, <2>1, AppendProperties
  <2>3. DOMAIN journal = 1..k /\ DOMAIN journal' = 1..(k + 1)
    BY <1>5, <2>1, <2>2, LenProperties
  <2>4. \A i \in 1..(k + 1) : journal'[i] \in Range(journal)'
    BY <2>3 DEF Range
  <2>5. journal' \in Seq(Range(journal)')
    BY <2>2, <2>4
  <2>6. QED
    BY <2>2, <2>3, <2>5
<1>7. \A m, a : Recorded(m, a)' <=> Recorded(m, a) \/ (m = n /\ a = key)
  <2>1. \A i \in DOMAIN journal' : i = k + 1 \/ i \in DOMAIN journal
    BY <1>6
  <2>2. DOMAIN journal \subseteq DOMAIN journal' /\ k + 1 \in DOMAIN journal'
    BY <1>6
  <2>3. QED
    BY <1>4, <1>6, <2>1, <2>2 DEF Recorded
<1>8. \A i \in DOMAIN journal' : \/ i \in DOMAIN journal /\ journal'[i] = journal[i]
                                 \/ i = k + 1 /\ journal'[i] = r
  BY <1>6
<1>9. JournalType'
  <2>1. /\ key = "text" => Argument(n, key) \in Text \cup {Nil}
        /\ key = "this" => Argument(n, key) \in alloc \cup {Nil}
        /\ key = "expressions" => Argument(n, key) \in Seq(alloc)
    BY <1>1 DEF Argument, TypeOK
  <2>2. ASSUME NEW i \in DOMAIN journal'
        PROVE  (/\ journal[i].node \in alloc /\ journal[i].key \in Keys
                /\ journal[i].key = "text" => journal[i].value \in Text \cup {Nil}
                /\ journal[i].key = "this" => journal[i].value \in alloc \cup {Nil}
                /\ journal[i].key = "expressions" => journal[i].value \in Seq(alloc))'
    <3>1. CASE i \in DOMAIN journal /\ journal'[i] = journal[i]
      BY <1>1, <1>2, <3>1 DEF JournalType
    <3>2. CASE i = k + 1 /\ journal'[i] = r
      BY <1>2, <1>4, <2>1, <3>2
    <3>3. QED
      BY <1>8, <2>2, <3>1, <3>2
  <2>3. QED
    BY <1>1, <1>2, <1>6, <2>2 DEF JournalType
<1>10. UndoKnown'
  <2>1. \A m \in Node, a \in Keys : /\ Argument(m, a)' = Argument(m, a)
                                    /\ SavedArgument(m, a)' = SavedArgument(m, a)
    BY <1>1, <1>2 DEF Argument, SavedArgument
  <2>2. \A m \in Node, a \in Keys :
           (~ Recorded(m, a) => Argument(m, a) = SavedArgument(m, a))'
    BY <1>1, <1>7, <2>1 DEF UndoKnown
  <2>3. ASSUME NEW i \in DOMAIN journal'
        PROVE  (~ Earlier(i, journal[i].node, journal[i].key) =>
                   journal[i].value = SavedArgument(journal[i].node, journal[i].key))'
    <3>1. CASE i \in DOMAIN journal /\ journal'[i] = journal[i]
      <4>1. ~ Earlier(i, journal[i].node, journal[i].key) =>
               journal[i].value = SavedArgument(journal[i].node, journal[i].key)
        BY <1>1, <3>1 DEF UndoKnown
      <4>2. Earlier(i, journal[i].node, journal[i].key)
               => Earlier(i, journal[i].node, journal[i].key)'
        <5>1. \A j \in 1..(i - 1) : journal'[j] = journal[j]
          BY <1>6, <2>3
        <5>2. QED
          BY <3>1, <5>1 DEF Earlier
      <4>3. QED
        BY <1>1, <3>1, <4>1, <4>2 DEF SavedArgument
    <3>2. CASE i = k + 1 /\ journal'[i] = r
      <4>1. ~ Recorded(n, key) => Argument(n, key) = SavedArgument(n, key)
        BY <1>1 DEF UndoKnown
      <4>2. Recorded(n, key) => Earlier(i, journal[i].node, journal[i].key)'
        <5>1. \A j \in 1..k : journal'[j] = journal[j]
          BY <1>6
        <5>2. i - 1 = k
          BY <3>2
        <5>3. QED
          BY <1>4, <1>6, <3>2, <5>1, <5>2 DEF Earlier, Recorded
      <4>3. SavedArgument(journal[i].node, journal[i].key)' = SavedArgument(n, key)
        BY <1>1, <1>4, <3>2 DEF SavedArgument
      <4>4. QED
        BY <1>4, <3>2, <4>1, <4>2, <4>3
    <3>3. QED
      BY <1>8, <2>3, <3>1, <3>2
  <2>4. QED
    BY <2>2, <2>3 DEF UndoKnown
<1>11. LinksKnown'
  <2>1. ASSUME NEW c \in Node, (saved.link[c].parent # Nil)'
        PROVE  (link[c] = saved.link[c] \/ Recorded(saved.link[c].parent, saved.link[c].key))'
    <3>1. link[c] = saved.link[c] \/ Recorded(saved.link[c].parent, saved.link[c].key)
      BY <1>1, <2>1 DEF LinksKnown
    <3>2. DOMAIN journal \subseteq DOMAIN journal' /\ \A i \in DOMAIN journal : journal'[i] = journal[i]
      BY <1>6
    <3>3. QED
      BY <1>1, <1>2, <3>1, <3>2 DEF Recorded
  <2>2. ASSUME NEW m \in Node, NEW c \in Kids(m)'
        PROVE  (saved.link[c].parent # Nil)'
    BY <1>1, <1>2, <2>2 DEF LinksKnown, Kids
  <2>3. ASSUME NEW i \in DOMAIN journal', NEW c \in Carried(journal[i].key, journal[i].value)'
        PROVE  (/\ saved.link[c].parent # Nil
                /\ \/ saved.link[c].parent = journal[i].node /\ saved.link[c].key = journal[i].key
                   \/ Earlier(i, saved.link[c].parent, saved.link[c].key))'
    <3>1. CASE i \in DOMAIN journal /\ journal'[i] = journal[i]
      <4>1. c \in Carried(journal[i].key, journal[i].value)
        BY <2>3, <3>1 DEF Carried
      <4>2. /\ saved.link[c].parent # Nil
            /\ \/ saved.link[c].parent = journal[i].node /\ saved.link[c].key = journal[i].key
               \/ Earlier(i, saved.link[c].parent, saved.link[c].key)
        BY <1>1, <3>1, <4>1 DEF LinksKnown
      <4>3. \A j \in 1..(i - 1) : journal'[j] = journal[j]
        BY <1>6, <2>3
      <4>4. QED
        BY <1>1, <3>1, <4>2, <4>3 DEF Earlier
    <3>2. CASE i = k + 1 /\ journal'[i] = r
      <4>1. c \in Carried(key, Argument(n, key))
        BY <1>4, <2>3, <3>2 DEF Carried
      <4>2. c \in Kids(n) /\ c \in Node /\ link[c].parent = n /\ link[c].key = key
        <5>1. /\ this[n] # Nil => link[this[n]] = Slot(n, "this", 0)
              /\ \A j \in DOMAIN exprs[n] : link[exprs[n][j]] = Slot(n, "expressions", j)
              /\ Kids(n) \subseteq Node
          BY <1>1, ExactSlots
        <5>2. CASE key = "this"
          BY <1>1, <4>1, <5>1, <5>2, SlotFields DEF Carried, Argument, Kids
        <5>3. CASE key = "expressions"
          BY <1>1, <4>1, <5>1, <5>3, SlotFields DEF Carried, Argument, Kids, Range
        <5>4. CASE key = "text"
          BY <4>1, <5>4 DEF Carried
        <5>5. QED
          BY <5>2, <5>3, <5>4 DEF Keys
      <4>3. /\ saved.link[c].parent # Nil
            /\ link[c] = saved.link[c] \/ Recorded(saved.link[c].parent, saved.link[c].key)
        BY <1>1, <4>2 DEF LinksKnown
      <4>4. Recorded(saved.link[c].parent, saved.link[c].key)
               => Earlier(i, saved.link[c].parent, saved.link[c].key)'
        <5>1. \A j \in 1..k : journal'[j] = journal[j]
          BY <1>6
        <5>2. i - 1 = k
          BY <3>2
        <5>3. QED
          BY <1>1, <1>6, <5>1, <5>2 DEF Earlier, Recorded
      <4>5. QED
        BY <1>1, <1>4, <3>2, <4>2, <4>3, <4>4
    <3>3. QED
      BY <1>8, <2>3, <3>1, <3>2
  <2>4. QED
    BY <2>1, <2>2, <2>3, Zenon DEF LinksKnown
<1>12. Exact(saved)'
  BY <1>1 DEF Exact
<1>13. QED
  BY <1>1, <1>2, <1>9, <1>10, <1>11, <1>12 DEF JournalInv

(* One step of revert(): the newest entry e is put back, with the links of *)
(* the nodes it carries.                                                   *)
LEMMA PutWrites ==
    ASSUME HashInv, busy = "idle", NEW n \in alloc, NEW key \in Keys, NEW value,
           key = "text" => value \in Text \cup {Nil},
           key = "this" => value \in alloc \cup {Nil},
           key = "expressions" => value \in Seq(alloc),
           Put(n, key, value)
    PROVE  /\ HashInv' /\ alloc' = alloc /\ busy' = "idle"
           /\ Argument(n, key)' = value
           /\ \A m \in Node, a \in Keys :
                 ~ (m = n /\ a = key) => Argument(m, a)' = Argument(m, a)
           /\ \A c \in Node : link'[c] = IF c \notin Carried(key, value) THEN link[c]
                                         ELSE IF key = "this" THEN Slot(n, "this", 0)
                                         ELSE Slot(n, "expressions", LastIndex(value, c))
           /\ \A m \in Node : Kids(m)' \subseteq Kids(m) \cup Carried(key, value)
<1>1. TypeOK /\ n \in Node
  BY DEF HashInv, TypeOK
<1>2. CASE key = "text"
  <2>1. /\ hash' = Invalidated(hash, n) /\ text' = [text EXCEPT ![n] = value]
        /\ UNCHANGED <<alloc, this, exprs, link>> /\ UNCHANGED loop
    BY <1>2 DEF Put
  <2>2. HashInv'
    BY <1>1, <1>2, <2>1, TextWriteKeepsInv
  <2>3. /\ alloc' = alloc /\ busy' = "idle" /\ \A c \in Node : link'[c] = link[c]
        /\ text'[n] = value /\ \A m \in Node : m # n => text'[m] = text[m]
        /\ this' = this /\ exprs' = exprs
    BY <1>1, <2>1 DEF loop, TypeOK
  <2>4. /\ Argument(n, key)' = value
        /\ \A m \in Node, a \in Keys :
              ~ (m = n /\ a = key) => Argument(m, a)' = Argument(m, a)
    BY <1>2, <2>3 DEF Argument, Keys
  <2>5. QED
    BY <1>2, <2>2, <2>3, <2>4 DEF Carried, Kids
<1>3. CASE key = "this"
  <2>1. Commit(n, WithThis(n, value), {}) /\ value \in alloc \cup {Nil}
    BY <1>3 DEF Put
  <2>2. HashInv'
    BY <1>1, <2>1, WithThisWritten, CommitKeepsInv
  <2>3. /\ alloc' = alloc /\ busy' = "idle" /\ text' = text /\ exprs' = exprs
        /\ this'[n] = value /\ \A m \in Node : m # n => this'[m] = this[m]
        /\ \A c \in Node : link'[c] = IF value # Nil /\ c = value THEN Slot(n, "this", 0)
                                      ELSE link[c]
    BY <1>1, <2>1 DEF Commit, WithThis, loop, TypeOK, Slot
  <2>4. /\ Argument(n, key)' = value
        /\ \A m \in Node, a \in Keys :
              ~ (m = n /\ a = key) => Argument(m, a)' = Argument(m, a)
    BY <1>3, <2>3 DEF Argument, Keys
  <2>5. Carried(key, value) = {value} \ {Nil}
    BY <1>3 DEF Carried
  <2>6. \A m \in Node : Kids(m)' \subseteq Kids(m) \cup Carried(key, value)
    BY <2>3, <2>5 DEF Kids
  <2>7. QED
    BY <1>1, <1>3, <2>2, <2>3, <2>4, <2>5, <2>6, NilAssumption
<1>4. CASE key = "expressions"
  <2>1. Commit(n, WithList(n, value), {}) /\ value \in Seq(alloc)
    BY <1>4 DEF Put
  <2>2. HashInv'
    BY <1>1, <2>1, WithListWritten, CommitKeepsInv
  <2>3. /\ alloc' = alloc /\ busy' = "idle" /\ text' = text /\ this' = this
        /\ exprs'[n] = value /\ \A m \in Node : m # n => exprs'[m] = exprs[m]
        /\ \A c \in Node : link'[c] = IF c \in Range(value)
                                      THEN Slot(n, "expressions", LastIndex(value, c))
                                      ELSE link[c]
    BY <1>1, <2>1 DEF Commit, WithList, Relinked, loop, TypeOK, Slot
  <2>4. /\ Argument(n, key)' = value
        /\ \A m \in Node, a \in Keys :
              ~ (m = n /\ a = key) => Argument(m, a)' = Argument(m, a)
    BY <1>4, <2>3 DEF Argument, Keys
  <2>5. Carried(key, value) = Range(value)
    BY <1>4 DEF Carried
  <2>6. \A m \in Node : Kids(m)' \subseteq Kids(m) \cup Carried(key, value)
    BY <2>3, <2>5 DEF Kids
  <2>7. QED
    BY <1>4, <2>2, <2>3, <2>4, <2>5, <2>6
<1>5. QED
  BY <1>2, <1>3, <1>4 DEF Keys

(* What the tree held under an argument, put back, gets the links it had.  *)
LEMMA SavedLinksReturn ==
    ASSUME Exact(saved), JournalType, NEW c \in Node, saved.link[c].parent # Nil,
           NEW n, n = saved.link[c].parent, NEW key, key = saved.link[c].key
    PROVE  /\ c \in Carried(key, SavedArgument(n, key))
           /\ saved.link[c] = IF key = "this" THEN Slot(n, "this", 0)
                              ELSE Slot(n, "expressions", LastIndex(SavedArgument(n, key), c))
<1>1. PICK l, th, ex : l = saved.link /\ th = saved.this /\ ex = saved.exprs
  OBVIOUS
<1>2. l \in [Node -> Link] /\ th \in [Node -> alloc \cup {Nil}] /\ ex \in [Node -> Seq(alloc)]
  BY <1>1 DEF JournalType
<1>3. n \in Node /\ n # Nil
  BY <1>1, <1>2, NilAssumption DEF Link
<1>4. /\ th[n] # Nil => l[th[n]] = Slot(n, "this", 0)
      /\ \A i \in DOMAIN ex[n] : l[ex[n][i]] = Slot(n, "expressions", i)
      /\ \/ key = "this" /\ th[n] = c
         \/ key = "expressions" /\ l[c].index \in DOMAIN ex[n] /\ ex[n][l[c].index] = c
  BY <1>1, <1>3, ExactMeans
<1>5. CASE key = "this" /\ th[n] = c
  BY <1>1, <1>4, <1>5, NilAssumption DEF SavedArgument, Carried
<1>6. CASE key = "expressions" /\ l[c].index \in DOMAIN ex[n] /\ ex[n][l[c].index] = c
  <2>1. PICK i \in DOMAIN ex[n] : ex[n][i] = c
    BY <1>6
  <2>2. l[c] = Slot(n, "expressions", i)
    BY <1>4, <2>1
  <2>3. IsInjective(ex[n])
    <3>1. \A j, k \in DOMAIN ex[n] : ex[n][j] = ex[n][k] =>
             Slot(n, "expressions", j).index = Slot(n, "expressions", k).index
      BY <1>4
    <3>2. QED
      BY <3>1, SlotFields DEF IsInjective
  <2>4. LastIndex(ex[n], c) = i
    BY <1>2, <1>3, <2>1, <2>3, LastIndexOfDistinct
  <2>5. SavedArgument(n, key) = ex[n] /\ Carried(key, ex[n]) = Range(ex[n])
    BY <1>1, <1>6 DEF SavedArgument, Carried
  <2>6. QED
    BY <1>1, <1>6, <2>1, <2>2, <2>4, <2>5 DEF Range
<1>7. QED
  BY <1>4, <1>5, <1>6

LEMMA PutBackKeeps ==
    ASSUME JournalInv, PutBack
    PROVE  JournalInv'
<1>1. /\ phase = "revert" /\ phase' = "revert" /\ saved' = saved /\ journal # <<>>
      /\ HashInv /\ TypeOK /\ busy = "idle" /\ Exact(saved) /\ JournalType
      /\ UndoKnown /\ LinksKnown
  BY DEF PutBack, JournalInv, HashInv
<1>2. PICK k \in Nat \ {0} : k = Len(journal)
  BY <1>1, DroppedLast DEF JournalType
<1>3. /\ DOMAIN journal = 1..k /\ DOMAIN journal' = 1..(k - 1)
      /\ \A i \in 1..(k - 1) : journal'[i] = journal[i]
      /\ journal' \in Seq(Range(journal))
  <2>1. journal \in Seq(Range(journal)) /\ journal' = SubSeq(journal, 1, Len(journal) - 1)
    BY <1>1 DEF JournalType, PutBack
  <2>2. QED
    BY <1>1, <1>2, <2>1, DroppedLast
<1>4. PICK n, key, value : n = journal[k].node /\ key = journal[k].key /\ value = journal[k].value
  OBVIOUS
<1>5. /\ n \in alloc /\ key \in Keys /\ n \in Node
      /\ key = "text" => value \in Text \cup {Nil}
      /\ key = "this" => value \in alloc \cup {Nil}
      /\ key = "expressions" => value \in Seq(alloc)
  BY <1>1, <1>3, <1>4 DEF JournalType, TypeOK
<1>6. Put(n, key, value)
  BY <1>2, <1>4 DEF PutBack
<1>7. /\ HashInv' /\ alloc' = alloc /\ busy' = "idle"
      /\ Argument(n, key)' = value
      /\ \A m \in Node, a \in Keys :
            ~ (m = n /\ a = key) => Argument(m, a)' = Argument(m, a)
      /\ \A c \in Node : link'[c] = IF c \notin Carried(key, value) THEN link[c]
                                    ELSE IF key = "this" THEN Slot(n, "this", 0)
                                    ELSE Slot(n, "expressions", LastIndex(value, c))
      /\ \A m \in Node : Kids(m)' \subseteq Kids(m) \cup Carried(key, value)
  BY <1>1, <1>5, <1>6, PutWrites
<1>8. \A m, a : /\ Recorded(m, a) => Earlier(k, m, a) \/ (m = n /\ a = key)
                /\ Earlier(k, m, a) => Recorded(m, a) /\ (\E i \in DOMAIN journal' :
                      journal'[i].node = m /\ journal'[i].key = a)
  BY <1>3, <1>4 DEF Recorded, Earlier
<1>9. \A m, a : Recorded(m, a)' <=> Earlier(k, m, a)
  BY <1>3 DEF Recorded, Earlier
<1>10. \A i \in DOMAIN journal' : /\ i \in DOMAIN journal /\ journal'[i] = journal[i]
                                  /\ \A j \in 1..(i - 1) : journal'[j] = journal[j]
  BY <1>3
<1>11. JournalType'
  <2>1. journal' \in Seq(Range(journal)')
    <3>1. \A i \in 1..(k - 1) : journal'[i] \in Range(journal)'
      BY <1>3 DEF Range
    <3>2. Len(journal') = k - 1
      BY <1>3, LenProperties
    <3>3. QED
      BY <1>3, <3>1, <3>2
  <2>2. ASSUME NEW i \in DOMAIN journal'
        PROVE  (/\ journal[i].node \in alloc /\ journal[i].key \in Keys
                /\ journal[i].key = "text" => journal[i].value \in Text \cup {Nil}
                /\ journal[i].key = "this" => journal[i].value \in alloc \cup {Nil}
                /\ journal[i].key = "expressions" => journal[i].value \in Seq(alloc))'
    BY <1>1, <1>7, <1>10, <2>2 DEF JournalType
  <2>3. QED
    BY <1>1, <1>7, <2>1, <2>2 DEF JournalType
<1>12. UndoKnown'
  <2>1. ASSUME NEW m \in Node, NEW a \in Keys, ~ Recorded(m, a)'
        PROVE  Argument(m, a)' = SavedArgument(m, a)'
    <3>1. ~ Earlier(k, m, a) /\ SavedArgument(m, a)' = SavedArgument(m, a)
      BY <1>1, <1>9, <2>1 DEF SavedArgument
    <3>2. CASE m = n /\ a = key
      BY <1>1, <1>3, <1>4, <1>7, <3>1, <3>2 DEF UndoKnown
    <3>3. CASE ~ (m = n /\ a = key)
      BY <1>1, <1>7, <1>8, <3>1, <3>3 DEF UndoKnown
    <3>4. QED
      BY <3>2, <3>3
  <2>2. ASSUME NEW i \in DOMAIN journal'
        PROVE  (~ Earlier(i, journal[i].node, journal[i].key) =>
                   journal[i].value = SavedArgument(journal[i].node, journal[i].key))'
    <3>1. ~ Earlier(i, journal[i].node, journal[i].key) =>
             journal[i].value = SavedArgument(journal[i].node, journal[i].key)
      BY <1>1, <1>10 DEF UndoKnown
    <3>2. QED
      BY <1>1, <1>10, <3>1 DEF Earlier, SavedArgument
  <2>3. QED
    BY <2>1, <2>2 DEF UndoKnown
<1>13. \A c \in Carried(key, value) :
          /\ saved.link[c].parent # Nil
          /\ \/ saved.link[c].parent = n /\ saved.link[c].key = key
             \/ Earlier(k, saved.link[c].parent, saved.link[c].key)
  BY <1>1, <1>3, <1>4 DEF LinksKnown
<1>14. LinksKnown'
  <2>1. ASSUME NEW c \in Node, (saved.link[c].parent # Nil)'
        PROVE  (link[c] = saved.link[c] \/ Recorded(saved.link[c].parent, saved.link[c].key))'
    <3>1. PICK sp, sk : sp = saved.link[c].parent /\ sk = saved.link[c].key
      OBVIOUS
    <3>2. SUFFICES ASSUME ~ Earlier(k, sp, sk)
                   PROVE  link'[c] = saved.link[c]
      BY <1>1, <1>3, <3>1 DEF Recorded, Earlier
    <3>3. CASE Recorded(sp, sk)
      <4>1. sp = n /\ sk = key
        BY <1>8, <3>2, <3>3
      <4>2. value = SavedArgument(n, key)
        BY <1>1, <1>3, <1>4, <3>2, <4>1 DEF UndoKnown
      <4>3. /\ c \in Carried(key, value)
            /\ saved.link[c] = IF key = "this" THEN Slot(n, "this", 0)
                               ELSE Slot(n, "expressions", LastIndex(value, c))
        BY <1>1, <2>1, <3>1, <4>1, <4>2, SavedLinksReturn
      <4>4. QED
        BY <1>7, <4>3
    <3>4. CASE ~ Recorded(sp, sk)
      <4>1. link[c] = saved.link[c]
        BY <1>1, <2>1, <3>1, <3>4 DEF LinksKnown
      <4>2. ~ (sp = n /\ sk = key)
        BY <1>3, <1>4, <3>4 DEF Recorded
      <4>3. c \notin Carried(key, value)
        BY <1>13, <3>1, <3>2, <4>2
      <4>4. QED
        BY <1>7, <4>1, <4>3
    <3>5. QED
      BY <3>3, <3>4
  <2>2. ASSUME NEW m \in Node, NEW c \in Kids(m)'
        PROVE  (saved.link[c].parent # Nil)'
    BY <1>1, <1>7, <1>13, <2>2 DEF LinksKnown
  <2>3. ASSUME NEW i \in DOMAIN journal', NEW c \in Carried(journal[i].key, journal[i].value)'
        PROVE  (/\ saved.link[c].parent # Nil
                /\ \/ saved.link[c].parent = journal[i].node /\ saved.link[c].key = journal[i].key
                   \/ Earlier(i, saved.link[c].parent, saved.link[c].key))'
    <3>1. c \in Carried(journal[i].key, journal[i].value)
      BY <1>10, <2>3 DEF Carried
    <3>2. /\ saved.link[c].parent # Nil
          /\ \/ saved.link[c].parent = journal[i].node /\ saved.link[c].key = journal[i].key
             \/ Earlier(i, saved.link[c].parent, saved.link[c].key)
      BY <1>1, <1>10, <3>1 DEF LinksKnown
    <3>3. QED
      BY <1>1, <1>10, <3>2 DEF Earlier
  <2>4. QED
    BY <2>1, <2>2, <2>3, Zenon DEF LinksKnown
<1>15. Exact(saved)'
  BY <1>1 DEF Exact
<1>16. QED
  BY <1>1, <1>7, <1>11, <1>12, <1>14, <1>15 DEF JournalInv

LEMMA InitJournal == JInit => JournalInv
<1> SUFFICES ASSUME JInit
             PROVE  JournalInv
  OBVIOUS
<1>1. Init /\ journal = <<>> /\ phase = "build"
  BY DEF JInit
<1>2. HashInv /\ LinkExact
  BY <1>1, InitMakesInv, InitExact
<1>3. \A n \in Node : this[n] = Nil /\ exprs[n] = <<>> /\ link[n].parent = Nil
  BY <1>1 DEF Init, NoLink
<1>4. Exact(Snapshot)
  <2>1. PICK s : s = Snapshot
    OBVIOUS
  <2>2. s.this = this /\ s.exprs = exprs /\ s.link = link
    BY <2>1 DEF Snapshot
  <2>3. Exact(s)
    BY <1>3, <2>2, ExactMeans
  <2>4. QED
    BY <2>1, <2>3
<1>5. busy = "idle"
  BY <1>1 DEF Init
<1>6. QED
  BY <1>1, <1>2, <1>3, <1>4, <1>5 DEF JournalInv

LEMMA NextKeepsJournal == Owned /\ JournalInv /\ [JNext]_allVars => JournalInv'
<1> SUFFICES ASSUME Owned, JournalInv, [JNext]_allVars
             PROVE  JournalInv'
  OBVIOUS
<1>1. CASE phase = "build" /\ Building /\ UNCHANGED jvars
  <2>1. /\ phase' = "build" /\ HashInv /\ TypeOK /\ LinkExact /\ Exact(Snapshot)
        /\ \A m \in Node \ alloc : this[m] = Nil /\ exprs[m] = <<>>
        /\ busy = "idle" /\ phase = "build"
    BY <1>1 DEF JournalInv, HashInv, jvars
  <2>2. PICK n \in Node \ alloc : \E xs \in Lists(n, {}), c \in alloc \cup {Nil}, t \in Text :
           (c # Nil => MayAttach(n, c)) /\ Construct(n, t, c, xs)
    BY <1>1 DEF Building
  <2>3. PICK xs \in Lists(n, {}), c \in alloc \cup {Nil}, t \in Text :
           (c # Nil => MayAttach(n, c)) /\ Construct(n, t, c, xs)
    BY <2>2
  <2>4. HashInv' /\ LinkExact'
    <3>1. Mutation
      BY <1>1 DEF Mutation
    <3>2. QED
      BY <2>1, <3>1, MutationKeepsInv, MutationExact
  <2>5. /\ Exact(Snapshot)'
        /\ \A m \in Node \ alloc' : this'[m] = Nil /\ exprs'[m] = <<>>
    BY <2>1, <2>3, BuildKeepsExact
  <2>6. busy' = "idle"
    BY <2>1, <2>3 DEF Construct, loop
  <2>7. QED
    BY <2>1, <2>4, <2>5, <2>6 DEF JournalInv
<1>2. CASE Start
  BY <1>2, StartKeeps
<1>3. ASSUME NEW n \in alloc, NEW key \in Keys, Record(n, key)
      PROVE  JournalInv'
  BY <1>3, RecordKeeps
<1>4. ASSUME NEW c \in alloc, Detach(c)
      PROVE  JournalInv'
  BY <1>4, DetachKeeps
<1>5. ASSUME NEW n \in alloc, NEW v \in alloc \cup {Nil}, Attach(n, v)
      PROVE  JournalInv'
  BY <1>5, AttachKeeps
<1>6. ASSUME NEW n \in alloc, NEW xs \in Lists(n, Range(exprs[n])), Select(n, xs)
      PROVE  JournalInv'
  BY <1>6, SelectKeeps
<1>7. ASSUME NEW n \in alloc, NEW t \in Text, Rewrite(n, t)
      PROVE  JournalInv'
  BY <1>7, RewriteKeeps
<1>8. CASE Revert
  BY <1>8, PhaseKeeps DEF Revert
<1>9. CASE PutBack
  BY <1>9, PutBackKeeps
<1>10. CASE Reverted
  BY <1>10, PhaseKeeps DEF Reverted
<1>11. CASE UNCHANGED allVars
  BY <1>11, PhaseKeeps DEF allVars, jvars
<1>12. QED
  BY <1>1, <1>2, <1>3, <1>4, <1>5, <1>6, <1>7, <1>8, <1>9, <1>10, <1>11 DEF JNext

(* When nothing is recorded any more, the tree is the saved one.           *)
LEMMA JournalUndone ==
    ASSUME JournalInv, phase = "done"
    PROVE  RevertRestores
<1>1. /\ journal = <<>> /\ TypeOK /\ JournalType /\ UndoKnown /\ LinksKnown
  BY DEF JournalInv, HashInv
<1>2. \A n, key : ~ Recorded(n, key)
  BY <1>1 DEF Recorded
<1>3. \A n \in Node : text[n] = saved.text[n] /\ this[n] = saved.this[n] /\ exprs[n] = saved.exprs[n]
  BY <1>1, <1>2 DEF UndoKnown, Argument, SavedArgument, Keys
<1>4. text = saved.text /\ this = saved.this /\ exprs = saved.exprs
  <2>1. PICK a, b, c : a = saved.text /\ b = saved.this /\ c = saved.exprs
    OBVIOUS
  <2>2. /\ a \in [Node -> Text \cup {Nil}] /\ b \in [Node -> alloc \cup {Nil}]
        /\ c \in [Node -> Seq(alloc)]
    BY <1>1, <2>1 DEF JournalType
  <2>3. QED
    BY <1>1, <1>3, <2>1, <2>2 DEF TypeOK
<1>5. \A n \in Node : \A c \in Kids(n) : link[c] = saved.link[c]
  <2>1. \A n \in Node : Kids(n) \subseteq Node
    BY <1>1, ArgsCoverKids, NilAssumption DEF TypeOK
  <2>2. QED
    BY <1>1, <1>2, <2>1 DEF LinksKnown
<1>6. QED
  BY <1>4, <1>5 DEF RevertRestores

LEMMA UndoneExact ==
    ASSUME JournalInv, phase = "done"
    PROVE  LinkExact
<1>1. RevertRestores /\ Exact(saved) /\ TypeOK
  BY JournalUndone DEF JournalInv, HashInv
<1>2. SUFFICES ASSUME NEW n \in Node, NEW c \in Kids(n)
               PROVE  NamesItsSlot(c, n)
  BY DEF LinkExact
<1>3. /\ this[n] # Nil => saved.link[this[n]] = Slot(n, "this", 0)
      /\ \A i \in DOMAIN exprs[n] : saved.link[exprs[n][i]] = Slot(n, "expressions", i)
      /\ \A k \in Kids(n) : link[k] = saved.link[k]
  BY <1>1, ExactMeans DEF RevertRestores
<1>4. /\ this[n] # Nil => link[this[n]] = Slot(n, "this", 0)
      /\ \A i \in DOMAIN exprs[n] : link[exprs[n][i]] = Slot(n, "expressions", i)
  BY <1>3 DEF Kids, Range
<1>5. CASE c = this[n] /\ this[n] # Nil
  <2>1. \A i \in DOMAIN exprs[n] : exprs[n][i] # c
    BY <1>4, <1>5, SlotFields
  <2>2. c \notin Range(exprs[n])
    BY <2>1 DEF Range
  <2>3. QED
    BY <1>4, <1>5, <2>2 DEF NamesItsSlot, Slot
<1>6. CASE c \in Range(exprs[n])
  <2>1. PICK i \in DOMAIN exprs[n] : c = exprs[n][i]
    BY <1>6 DEF Range
  <2>2. link[c] = Slot(n, "expressions", i)
    BY <1>4, <2>1
  <2>3. link[c].key = "expressions" /\ link[c].index = i
    BY <2>2, SlotFields
  <2>4. this[n] # c
    <3>1. c \in Node
      BY <1>1, <2>1 DEF TypeOK
    <3>2. this[n] = c => link[c].key = "this"
      BY <1>4, <3>1, SlotFields, NilAssumption
    <3>3. QED
      BY <2>3, <3>2
  <2>5. \A j \in DOMAIN exprs[n] : exprs[n][j] = c <=> j = i
    <3>1. SUFFICES ASSUME NEW j \in DOMAIN exprs[n], exprs[n][j] = c
                   PROVE  j = i
      BY <2>1
    <3>2. link[c] = Slot(n, "expressions", j)
      BY <1>4, <3>1
    <3>3. QED
      BY <2>3, <3>2, SlotFields
  <2>6. {j \in DOMAIN exprs[n] : exprs[n][j] = c} = {i}
    BY <2>1, <2>5
  <2>7. QED
    BY <2>3, <2>4, <2>6 DEF NamesItsSlot
<1>7. QED
  BY <1>2, <1>5, <1>6 DEF Kids

LEMMA JournalInvariant == Owned /\ JSpec => []JournalInv
<1>1. Owned => Owned'
  OBVIOUS
<1>2. QED
  BY <1>1, InitJournal, NextKeepsJournal, PTL DEF JSpec

-----------------------------------------------------------------------------
(* journal.js:30-33: whatever a rule recorded and did, and wherever it     *)
(* gave up, revert() leaves every argument, and the back link of every     *)
(* held node, as they were before the rule.                                *)
THEOREM RevertRestoresTheTree == Owned /\ JSpec => []RevertRestores
<1>1. JournalInv => RevertRestores
  BY JournalUndone DEF RevertRestores
<1>2. QED
  BY <1>1, JournalInvariant, PTL

(* core.js:252-259: with a rule at work, and after revert() is through,    *)
(* the back link of a held node names the one slot that holds it.          *)
THEOREM BackLinksUnderRules == Owned /\ JSpec => []LinksExact
<1>1. JournalInv => LinksExact
  BY UndoneExact DEF LinksExact, JournalInv
<1>2. QED
  BY <1>1, JournalInvariant, PTL

-----------------------------------------------------------------------------
(* pop() under the convention.                                             *)
LEMMA PopStep ==
    ASSUME TypeOK, LinkExact, Owned, NEW c \in alloc, Pop(c), NEW n \in Node, Intact(n)
    PROVE  /\ this'[n] = (IF this[n] = c THEN Nil ELSE this[n])
           /\ LeftOut(exprs[n], c, exprs'[n])
<1>1. MayReplace(c) /\ Replace(c, Nil) /\ c \in Node
  BY DEF Pop, Replace, TypeOK
<1>2. PICK p \in Node : p = link[c].parent
  BY <1>1 DEF MayReplace, TypeOK, Link
<1>3. PICK i : i = link[c].index
  OBVIOUS
<1>4. /\ Intact(p) /\ c \in Kids(p)
      /\ \/ link[c].key = "this" /\ this[p] = c
         \/ link[c].key = "expressions" /\ i \in DOMAIN exprs[p] /\ exprs[p][i] = c
  BY <1>1, <1>2, <1>3, ReplacedSlot
<1>5. /\ this[p] # Nil => this[p] \notin Range(exprs[p])
      /\ IsInjective(exprs[p])
  BY <1>4, ExactSlots
<1>6. CASE n # p
  <2>1. c \notin Kids(n)
    BY <1>2, <1>6 DEF Intact
  <2>2. this'[n] = this[n] /\ exprs'[n] = exprs[n]
    <3>1. PICK w : Written(p, w) /\ Commit(p, w, {c} \ {Nil})
      <4>1. CASE link[c].key = "this"
        BY <1>1, <1>2, <4>1, WithThisWritten DEF Replace
      <4>2. CASE link[c].key # "this"
        BY <1>1, <1>2, <4>2, WithItemWritten DEF Replace
      <4>3. QED
        BY <4>1, <4>2
    <3>2. QED
      BY <1>6, <3>1 DEF Commit, Written
  <2>3. this[n] # c /\ c \notin Range(exprs[n]) /\ \A j \in DOMAIN exprs[n] : exprs[n][j] # c
    BY <1>1, <2>1, NilAssumption DEF Kids, Range
  <2>4. QED
    BY <2>2, <2>3 DEF LeftOut
<1>7. CASE n = p /\ link[c].key = "this" /\ this[p] = c
  <2>1. this' = [this EXCEPT ![p] = Nil] /\ exprs' = exprs
    BY <1>1, <1>2, <1>7 DEF Replace, Commit, WithThis
  <2>2. c \notin Range(exprs[p]) /\ \A j \in DOMAIN exprs[p] : exprs[p][j] # c
    BY <1>1, <1>5, <1>7, NilAssumption DEF Range
  <2>3. QED
    BY <1>7, <2>1, <2>2 DEF LeftOut, TypeOK
<1>8. CASE n = p /\ link[c].key = "expressions" /\ i \in DOMAIN exprs[p] /\ exprs[p][i] = c
  <2>1. WithItem(p, i, Nil, TRUE) = WithRemoved(p, i)
    BY <1>8 DEF WithItem
  <2>2. Commit(p, WithRemoved(p, i), {c} \ {Nil})
    BY <1>1, <1>2, <1>3, <1>8, <2>1 DEF Replace
  <2>3. this' = this /\ exprs' = [exprs EXCEPT ![p] = Spliced(exprs[p], i, 1, <<>>)]
    BY <2>2 DEF Commit, WithRemoved
  <2>4. exprs'[p] = Spliced(exprs[p], i, 1, <<>>)
    BY <2>3 DEF TypeOK
  <2>5. \A j \in DOMAIN exprs[p] : exprs[p][j] = c => j = i
    BY <1>5, <1>8 DEF IsInjective
  <2>6. c \in Range(exprs[p]) /\ this[p] # c
    BY <1>1, <1>5, <1>8, NilAssumption DEF Range
  <2>7. QED
    BY <1>8, <2>3, <2>4, <2>5, <2>6 DEF LeftOut
<1>9. QED
  BY <1>4, <1>6, <1>7, <1>8

(* core.js:309-322: pop() of a held node takes exactly that node out of    *)
(* the node that holds it, at any moment and in a tree of any size.        *)
THEOREM PopIsExact == Owned /\ Spec => PopTakesItself
<1> DEFINE A == \A c \in alloc : Pop(c) =>
                   \A n \in Node : Intact(n) =>
                      /\ this'[n] = (IF this[n] = c THEN Nil ELSE this[n])
                      /\ LeftOut(exprs[n], c, exprs'[n])
<1>1. Owned /\ HashInv /\ LinkExact => [A]_vars
  BY PopStep DEF HashInv
<1>2. Owned => Owned'
  OBVIOUS
<1>3. Owned /\ HashInv /\ LinkExact /\ [Next]_vars => [A]_vars
  BY <1>1
<1>4. (Owned /\ Spec) => [][A]_vars
  BY <1>2, <1>3, HashInvariant, BackLinksAreExact, PTL DEF Spec
<1>5. QED
  BY <1>4 DEF PopTakesItself
=============================================================================
