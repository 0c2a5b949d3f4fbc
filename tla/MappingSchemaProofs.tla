-------------------------- MODULE MappingSchemaProofs --------------------------
(***************************************************************************)
(* No cache of MappingSchema is visible to a careful client whose requests *)
(* the cache keys can tell apart: SchemaSpec implements CatalogSpec.       *)
(***************************************************************************)
EXTENDS MappingSchema, SequenceTheorems, TLAPS

Paths == Seq(Names) \ {<< >>}

\* The inductive invariant: the trie holds what the mapping holds, all paths
\* are of one length, and every cache entry is what would be computed now.
\* A name is cached as the request that wrote it normalized it.
NamesWritten ==
  \A k \in DOMAIN nameCache :
    \E r \in ColumnRequests : \E id \in ColumnIds(r) :
      k = ColumnKey(r, id) /\ nameCache[k] = Normal(id, r.dialect)

Levels ==
  /\ trie = DOMAIN mapping
  /\ DOMAIN mapping \subseteq Paths
  /\ \A p, q \in DOMAIN mapping : Len(p) = Len(q)

ColumnsTyped ==
  \A p \in DOMAIN mapping : \A n \in DOMAIN mapping[p] : mapping[p][n] \in Types \cup {None}

FindKeys == DOMAIN findCache \subseteq Refs \X BOOLEAN
TypeKeys == DOMAIN typeCache \subseteq Types

SchemaInv ==
  Levels /\ ColumnsTyped /\ FindKeys /\ TypeKeys /\ CachesAgree /\ NamesWritten

-----------------------------------------------------------------------------
\* A table is normalized once: normalizing it again changes nothing.
LEMMA NormalTwice ==
  ASSUME NEW t \in Refs, NEW d \in Dialects
  PROVE  NormalTable(t, d) \in Refs /\ NormalTable(NormalTable(t, d), d) = NormalTable(t, d)
<1>1. \A id \in Ids : Normal(id, d) \in Names
  BY DialectsAssumption DEF Normal, Ids
<1>2. \A id \in Ids : Normal([name |-> Normal(id, d), quoted |-> id.quoted], d) = Normal(id, d)
  BY DialectsAssumption DEF Normal, Ids
<1>3. t.parts \in Seq(Ids) /\ t.parts # << >> /\ t.alias \in BOOLEAN /\ DOMAIN t.parts = 1..Len(t.parts)
  BY DEF Refs
<1>4. \A i \in DOMAIN t.parts : t.parts[i] \in Ids
  BY <1>3
<1> DEFINE new == [i \in DOMAIN t.parts |-> [name |-> Normal(t.parts[i], d), quoted |-> t.parts[i].quoted]]
<1>5. \A i \in DOMAIN t.parts : new[i] \in Ids
  BY <1>1, <1>4 DEF Ids
<1>6. new \in Seq(Ids) /\ new # << >>
  <2>1. Len(t.parts) \in Nat \ {0}
    BY <1>3, EmptySeq
  <2>a. new \in [1..Len(t.parts) -> Ids]
    BY <1>3, <1>5
  <2> HIDE DEF new
  <2>2. new \in Seq(Ids) /\ Len(new) = Len(t.parts)
    BY <2>1, <2>a
  <2>3. new # << >>
    BY <2>1, <2>2, EmptySeq
  <2> QED BY <2>2, <2>3
<1>7. NormalTable(t, d) = [parts |-> new, alias |-> t.alias]
  BY DEF NormalTable
<1>8. NormalTable(t, d) \in Refs
  BY <1>3, <1>6, <1>7 DEF Refs
<1>9. [i \in DOMAIN new |-> [name |-> Normal(new[i], d), quoted |-> new[i].quoted]] = new
  BY <1>2, <1>4
<1>10. NormalTable(NormalTable(t, d), d) = [parts |-> new, alias |-> t.alias]
  BY <1>7, <1>9 DEF NormalTable
<1> QED BY <1>7, <1>8, <1>10

LEMMA PathOfRef ==
  ASSUME NEW t \in Refs
  PROVE  Path(t) \in Paths /\ DOMAIN Path(t) = DOMAIN t.parts /\ DOMAIN t.parts = 1..Len(t.parts)
         /\ Len(t.parts) \in Nat \ {0}
<1>1. t.parts \in Seq(Ids) /\ t.parts # << >> /\ DOMAIN t.parts = 1..Len(t.parts) /\ Len(t.parts) \in Nat
  BY DEF Refs
<1>2. \A i \in DOMAIN t.parts : t.parts[i].name \in Names
  <2>1. \A i \in DOMAIN t.parts : t.parts[i] \in Ids
    BY <1>1
  <2> QED BY <2>1 DEF Ids
<1>3. Path(t) \in Seq(Names) /\ DOMAIN Path(t) = DOMAIN t.parts
  BY <1>1, <1>2 DEF Path
<1>4. Len(t.parts) # 0
  BY <1>1, EmptySeq
<1>5. Len(Path(t)) = Len(t.parts)
  BY <1>1, <1>3
<1>6. Path(t) # << >>
  BY <1>4, <1>5, EmptySeq
<1> QED BY <1>1, <1>3, <1>4, <1>6 DEF Paths

-----------------------------------------------------------------------------
\* Walking the trie finds the tables that match.
LEMMA TrieMatches ==
  ASSUME Levels, NEW t \in Refs
  PROVE  Possibilities(t) = Matches(DOMAIN mapping, t)
<1>1. CASE DOMAIN mapping = {}
  BY <1>1 DEF Possibilities, Matches, Levels
<1>2. CASE DOMAIN mapping # {}
  <2> DEFINE q == CHOOSE p \in DOMAIN mapping : TRUE
  <2>1. q \in DOMAIN mapping /\ Depth = Len(q)
    BY <1>2 DEF Depth
  <2>2. \A p \in DOMAIN mapping : Len(p) = Depth /\ DOMAIN p = 1..Depth /\ Depth \in Nat \ {0}
    <3> SUFFICES ASSUME NEW p \in DOMAIN mapping
                 PROVE  Len(p) = Depth /\ DOMAIN p = 1..Depth /\ Depth \in Nat \ {0}
      OBVIOUS
    <3>1. Len(p) = Depth
      BY <2>1 DEF Levels
    <3>2. p \in Seq(Names) /\ p # << >>
      BY DEF Levels, Paths
    <3>3. Len(p) \in Nat \ {0} /\ DOMAIN p = 1..Len(p)
      BY <3>2, EmptySeq, LenProperties
    <3> QED BY <3>1, <3>3
  <2>3. DOMAIN t.parts = 1..Len(t.parts) /\ Len(t.parts) \in Nat \ {0}
    BY PathOfRef
  <2>4. Depth \in Nat \ {0}
    BY <2>1, <2>2
  <2>5. DOMAIN Parts(t) = {i \in DOMAIN t.parts : i <= Depth}
        /\ \A i \in DOMAIN Parts(t) : Parts(t)[i] = t.parts[i].name
    BY DEF Parts
  <2>6. 1 \in DOMAIN Parts(t)
    BY <2>3, <2>4, <2>5
  <2>7. Possibilities(t) = {p \in DOMAIN mapping : Prefixes(Parts(t), p)}
    BY <2>6 DEF Possibilities, Levels
  <2>8. ASSUME NEW p \in DOMAIN mapping
        PROVE  Prefixes(Parts(t), p)
               <=> \A i \in DOMAIN p : i \in DOMAIN t.parts => p[i] = t.parts[i].name
    <3>1. DOMAIN p = 1..Depth
      BY <2>2
    <3>2. \A i : i \in DOMAIN Parts(t) <=> i \in DOMAIN p /\ i \in DOMAIN t.parts
      BY <2>3, <2>4, <2>5, <3>1
    <3> QED BY <2>5, <3>2 DEF Prefixes
  <2> QED BY <2>7, <2>8 DEF Matches
<1> QED BY <1>1, <1>2

\* A table among tables of its own length matches itself alone.
LEMMA OwnMatch ==
  ASSUME Levels, NEW t \in Refs, ~Mismatch(Path(t))
  PROVE  Matches(DOMAIN mapping, t) = DOMAIN mapping \cap {Path(t)}
<1>1. Path(t) \in Paths /\ DOMAIN Path(t) = DOMAIN t.parts /\ \A i \in DOMAIN Path(t) : Path(t)[i] = t.parts[i].name
  BY PathOfRef DEF Path
<1>2. ASSUME NEW p \in DOMAIN mapping
      PROVE  (\A i \in DOMAIN p : i \in DOMAIN t.parts => p[i] = t.parts[i].name) <=> p = Path(t)
  <2>1. p \in Seq(Names) /\ Path(t) \in Seq(Names) /\ Len(p) = Len(Path(t))
    BY <1>1 DEF Levels, Paths, Mismatch
  <2>2. DOMAIN p = 1..Len(p) /\ DOMAIN Path(t) = 1..Len(p)
    BY <2>1, LenProperties
  <2>3. ASSUME \A i \in DOMAIN p : i \in DOMAIN t.parts => p[i] = t.parts[i].name
        PROVE  p = Path(t)
    <3>1. \A i \in 1..Len(p) : p[i] = Path(t)[i]
      BY <1>1, <2>2, <2>3
    <3> QED BY <2>1, <3>1, SeqEqual
  <2> QED BY <1>1, <2>3
<1> QED BY <1>2 DEF Matches

-----------------------------------------------------------------------------
\* What a call gets out of a cache is what it would have computed.
LEMMA TableOfRequest ==
  ASSUME CachesAgree, NEW r \in Requests, r.op # "find"
  PROVE  /\ TableOf(r) = NormalTable(r.table, r.dialect)
         /\ TableOf(r) \in Refs /\ r.table \in Refs /\ r.dialect \in Dialects
         /\ NormalTable(TableOf(r), r.dialect) = TableOf(r)
<1>1. r.table \in Refs /\ r.dialect \in Dialects
  BY RequestsAssumption
<1>2. TableOf(r) = NormalTable(r.table, r.dialect)
  BY DEF TableOf, Cached, CachesAgree, TablesAgree
<1> QED BY <1>1, <1>2, NormalTwice

LEMMA TypeOfString ==
  ASSUME CachesAgree, NEW d \in Dialects, NEW s \in Types \cup {None},
         \A x \in Types : TypeOf[d][x] = TypeOf[Default][x]
  PROVE  TypeIn(s, d) = DataType(s, d) /\ (s # None => TypeIn(s, d) = TypeOf[Default][s])
BY DEF TypeIn, DataType, Cached, CachesAgree, TypeNamesAgree

LEMMA NameOfColumn ==
  ASSUME KeysFine, NamesWritten, NEW r \in ColumnRequests, NEW id \in ColumnIds(r)
  PROVE  Cached(nameCache, ColumnKey(r, id), Normal(id, r.dialect)) = Normal(id, r.dialect)
<1>1. CASE ColumnKey(r, id) \in DOMAIN nameCache
  <2>0. PICK s \in ColumnRequests : \E j \in ColumnIds(s) :
          ColumnKey(r, id) = ColumnKey(s, j) /\ nameCache[ColumnKey(r, id)] = Normal(j, s.dialect)
    BY <1>1 DEF NamesWritten
  <2>1. PICK j \in ColumnIds(s) :
          ColumnKey(r, id) = ColumnKey(s, j) /\ nameCache[ColumnKey(r, id)] = Normal(j, s.dialect)
    BY <2>0
  <2>2. Normal(j, s.dialect) = Normal(id, r.dialect)
    BY <2>1 DEF KeysFine
  <2> QED BY <1>1, <2>1, <2>2 DEF Cached
<1>2. CASE ColumnKey(r, id) \notin DOMAIN nameCache
  BY <1>2 DEF Cached
<1> QED BY <1>1, <1>2

LEMMA ColumnsTypedAt ==
  ASSUME ColumnsTyped, NEW t, NEW n \in NamesOf(Columns(t))
  PROVE  Columns(t)[n] \in Types \cup {None}
<1>1. Columns(t) # None /\ n \in DOMAIN Columns(t)
  BY DEF NamesOf
<1> DEFINE found == Matches(DOMAIN mapping, t)
<1>2. found # {} /\ Columns(t) = mapping[CHOOSE p \in found : TRUE]
  BY <1>1 DEF Columns, ColumnsAt
<1>3. (CHOOSE p \in found : TRUE) \in DOMAIN mapping
  BY <1>2 DEF Matches
<1> QED BY <1>1, <1>2, <1>3 DEF ColumnsTyped

LEMMA FoundColumns ==
  ASSUME Levels, ColumnsTyped, CachesAgree, NEW t \in Refs
  PROVE  /\ Found(t, FALSE) = Columns(t)
         /\ Found(t, TRUE) = Typed(Columns(t))
         /\ ColumnsAt(Possibilities(t)) = Columns(t)
<1>1. ColumnsAt(Possibilities(t)) = Columns(t)
  BY TrieMatches DEF Columns
<1>2. Found(t, FALSE) = Columns(t)
  <2>1. CASE <<t, FALSE>> \in DOMAIN findCache
    <3>1. findCache[<<t, FALSE>>] = IF <<t, FALSE>>[2] THEN Typed(Columns(<<t, FALSE>>[1])) ELSE Columns(<<t, FALSE>>[1])
      BY <2>1 DEF CachesAgree, FindAgrees
    <3> QED BY <2>1, <3>1 DEF Found, Cached
  <2>2. CASE <<t, FALSE>> \notin DOMAIN findCache
    BY <1>1, <2>2 DEF Found, Cached, Converted
  <2> QED BY <2>1, <2>2
<1>3. Found(t, TRUE) = Typed(Columns(t))
  <2>1. CASE <<t, TRUE>> \in DOMAIN findCache
    <3>1. findCache[<<t, TRUE>>] = IF <<t, TRUE>>[2] THEN Typed(Columns(<<t, TRUE>>[1])) ELSE Columns(<<t, TRUE>>[1])
      BY <2>1 DEF CachesAgree, FindAgrees
    <3> QED BY <2>1, <3>1 DEF Found, Cached
  <2>2. CASE <<t, TRUE>> \notin DOMAIN findCache
    <3>1. Found(t, TRUE) = Converted(Columns(t), TRUE)
      BY <1>1, <2>2 DEF Found, Cached
    <3>2. CASE Columns(t) = None
      BY <3>1, <3>2 DEF Converted, Typed
    <3>3. CASE Columns(t) # None
      <4>1. \A n \in DOMAIN Columns(t) : TypeIn(Columns(t)[n], Default) = DataType(Columns(t)[n], Default)
        BY <3>3, ColumnsTypedAt, TypeOfString, DialectsAssumption DEF NamesOf
      <4> QED BY <3>1, <3>3, <4>1 DEF Converted, Typed
    <3> QED BY <3>2, <3>3
  <2> QED BY <2>1, <2>2
<1> QED BY <1>1, <1>2, <1>3

-----------------------------------------------------------------------------
\* The caches stay right when the tables stay as they are.
LEMMA SameTables ==
  ASSUME UNCHANGED mapping
  PROVE  \A t : Columns(t)' = Columns(t) /\ Typed(Columns(t))' = Typed(Columns(t))
<1>1. \A t : Columns(t)' = Columns(t)
  BY DEF Columns, ColumnsAt, Matches, Ambiguous
<1> QED BY <1>1 DEF Typed, DataType

LEMMA FindStep ==
  ASSUME Levels, ColumnsTyped, CachesAgree, FindKeys, NEW t \in Refs, NEW e \in BOOLEAN,
         FindCached(t, e), UNCHANGED mapping
  PROVE  FindKeys' /\ FindAgrees'
<1>1. CASE Found(t, e) = None
  <2>1. findCache' = findCache
    BY <1>1 DEF FindCached
  <2> QED BY <2>1, SameTables DEF FindKeys, CachesAgree, FindAgrees
<1>2. CASE Found(t, e) # None
  <2>1. findCache' = With(findCache, <<t, e>>, Found(t, e))
    BY <1>2 DEF FindCached
  <2>2. FindKeys'
    BY <2>1 DEF FindKeys, With
  <2>3. Found(t, e) = IF e THEN Typed(Columns(t)) ELSE Columns(t)
    BY FoundColumns
  <2>4. Columns(t) # None
    BY <1>2, <2>3 DEF Typed
  <2>5. ASSUME NEW k \in DOMAIN findCache'
        PROVE  /\ Columns(k[1]) # None
               /\ findCache'[k] = IF k[2] THEN Typed(Columns(k[1])) ELSE Columns(k[1])
    <3>1. CASE k = <<t, e>>
      BY <2>1, <2>3, <2>4, <3>1 DEF With
    <3>2. CASE k # <<t, e>>
      BY <2>1, <3>2 DEF With, CachesAgree, FindAgrees
    <3> QED BY <3>1, <3>2
  <2>6. FindAgrees'
    BY <2>5, SameTables DEF FindAgrees
  <2> QED BY <2>2, <2>6
<1> QED BY <1>1, <1>2

LEMMA TableStep ==
  ASSUME CachesAgree, NEW r \in Requests, r.op # "find", Normalized(r)
  PROVE  TablesAgree'
<1>1. TableOf(r) = NormalTable(TableOf(r), r.dialect)
  BY TableOfRequest
<1>2. CASE <<r.table, r.dialect>> \in DOMAIN tableCache
  BY <1>2 DEF Normalized, CachesAgree, TablesAgree
<1>3. CASE <<r.table, r.dialect>> \notin DOMAIN tableCache
  <2>1. tableCache' = With(tableCache, <<TableOf(r), r.dialect>>, TableOf(r))
    BY <1>3 DEF Normalized
  <2>2. ASSUME NEW k \in DOMAIN tableCache'
        PROVE  tableCache'[k] = NormalTable(k[1], k[2])
    <3>1. CASE k = <<TableOf(r), r.dialect>>
      BY <1>1, <2>1, <3>1 DEF With
    <3>2. CASE k # <<TableOf(r), r.dialect>>
      BY <2>1, <3>2 DEF With, CachesAgree, TablesAgree
    <3> QED BY <3>1, <3>2
  <2> QED BY <2>2 DEF TablesAgree
<1> QED BY <1>2, <1>3

LEMMA TypeStep ==
  ASSUME CachesAgree, TypeKeys, NEW d \in Dialects, NEW strings \in SUBSET (Types \cup {None}),
         \A x \in Types : TypeOf[d][x] = TypeOf[Default][x], TypesCached(strings, d)
  PROVE  TypeKeys' /\ TypeNamesAgree'
<1>1. DOMAIN typeCache' = DOMAIN typeCache \cup (strings \ {None})
      /\ \A s \in DOMAIN typeCache' : typeCache'[s] = TypeIn(s, d)
  BY DEF TypesCached
<1>2. ASSUME NEW s \in DOMAIN typeCache'
      PROVE  typeCache'[s] = TypeOf[Default][s]
  <2>1. s \in Types
    BY <1>1 DEF TypeKeys
  <2>2. s # None /\ typeCache'[s] = TypeIn(s, d)
    BY <1>1, <2>1, NoneAssumption
  <2> QED BY <2>1, <2>2, TypeOfString
<1>3. TypeKeys'
  BY <1>1 DEF TypeKeys
<1> QED BY <1>2, <1>3 DEF TypeNamesAgree

\* A name entry is written as one of the client's requests normalizes the name.
LEMMA NameStep ==
  ASSUME KeysFine, NamesWritten, NEW r \in ColumnRequests, r.op # "addTable", ColumnNamed(r)
  PROVE  ColumnOf(r) = Normal(r.column, r.dialect) /\ NamesWritten'
<1> DEFINE key == IdentifierKey(r.column, r.dialect)
<1>1. r.column \in ColumnIds(r) /\ key = ColumnKey(r, r.column)
  BY DEF ColumnIds, ColumnKey
<1>2. ColumnOf(r) = Normal(r.column, r.dialect)
  BY <1>1, NameOfColumn DEF ColumnOf
<1>3. nameCache' = With(nameCache, key, ColumnOf(r))
  BY DEF ColumnNamed
<1>4. ASSUME NEW k \in DOMAIN nameCache'
      PROVE  \E s \in ColumnRequests : \E id \in ColumnIds(s) :
               k = ColumnKey(s, id) /\ nameCache'[k] = Normal(id, s.dialect)
  <2>1. CASE k = key
    BY <1>1, <1>2, <1>3, <2>1 DEF With
  <2>2. CASE k # key
    <3>1. k \in DOMAIN nameCache /\ nameCache'[k] = nameCache[k]
      BY <1>3, <2>2 DEF With
    <3> QED BY <3>1 DEF NamesWritten
  <2> QED BY <2>1, <2>2
<1> QED BY <1>2, <1>4 DEF NamesWritten

LEMMA NamesStep ==
  ASSUME KeysFine, NamesWritten, NEW r \in Requests, r.op = "addTable", ColumnsNamed(r)
  PROVE  ColumnsOf(r) = [id \in DOMAIN r.columns |-> Normal(id, r.dialect)] /\ NamesWritten'
<1>1. r \in ColumnRequests /\ ColumnIds(r) = DOMAIN r.columns
      /\ \A id \in DOMAIN r.columns : ColumnKey(r, id) = StringKey(id, r.dialect)
  BY DEF ColumnRequests, ColumnIds, ColumnKey
<1>2. \A id \in DOMAIN r.columns :
        Cached(nameCache, StringKey(id, r.dialect), Normal(id, r.dialect)) = Normal(id, r.dialect)
  BY <1>1, NameOfColumn
<1>3. ColumnsOf(r) = [id \in DOMAIN r.columns |-> Normal(id, r.dialect)]
  BY <1>2 DEF ColumnsOf
<1> DEFINE keys == {StringKey(id, r.dialect) : id \in DOMAIN r.columns}
<1>4. DOMAIN nameCache' = DOMAIN nameCache \cup keys
      /\ \A k \in DOMAIN nameCache' :
           nameCache'[k] = Cached(nameCache, k, Normal([name |-> k[1], quoted |-> k[2]], r.dialect))
  BY DEF ColumnsNamed
<1>5. ASSUME NEW k \in DOMAIN nameCache'
      PROVE  \E s \in ColumnRequests : \E id \in ColumnIds(s) :
               k = ColumnKey(s, id) /\ nameCache'[k] = Normal(id, s.dialect)
  <2>1. CASE k \in DOMAIN nameCache
    <3>1. nameCache'[k] = nameCache[k]
      BY <1>4, <2>1 DEF Cached
    <3> QED BY <2>1, <3>1 DEF NamesWritten
  <2>2. CASE k \notin DOMAIN nameCache
    <3>1. PICK id \in DOMAIN r.columns : k = StringKey(id, r.dialect)
      BY <1>4, <2>2
    <3>2. Normal([name |-> k[1], quoted |-> k[2]], r.dialect) = Normal(id, r.dialect)
      BY <3>1 DEF StringKey, Normal
    <3>3. nameCache'[k] = Normal(id, r.dialect)
      BY <1>4, <2>2, <3>2 DEF Cached
    <3> QED BY <1>1, <3>1, <3>3
  <2> QED BY <2>1, <2>2
<1> QED BY <1>3, <1>5 DEF NamesWritten

-----------------------------------------------------------------------------
\* A question leaves the tables alone and is answered from them.
LEMMA SameLevels ==
  ASSUME Levels, ColumnsTyped, UNCHANGED <<mapping, trie>>
  PROVE  Levels' /\ ColumnsTyped'
BY DEF Levels, ColumnsTyped

LEMMA TypesOfRequest ==
  ASSUME TypesAgree, NEW r \in ColumnRequests, r.dialect \in Dialects
  PROVE  \A x \in Types : TypeOf[r.dialect][x] = TypeOf[Default][x]
BY DEF TypesAgree

LEMMA ColumnNamesStep ==
  ASSUME SchemaInv, NEW r \in Requests, ColumnNames(r)
  PROVE  SchemaInv' /\ r.op # "addTable" /\ Ask(r)
<1> USE DEF SchemaInv
<1> DEFINE t == TableOf(r)
<1>1. r.op = "columnNames" /\ Normalized(r) /\ FindCached(t, FALSE)
      /\ UNCHANGED <<mapping, trie, nameCache, typeCache>>
  BY DEF ColumnNames
<1>2. t \in Refs /\ t = NormalTable(r.table, r.dialect)
  BY <1>1, TableOfRequest
<1>3. Levels' /\ ColumnsTyped'
  BY <1>1, SameLevels
<1>4. FindKeys' /\ FindAgrees'
  BY <1>1, <1>2, FindStep
<1>5. TablesAgree'
  BY <1>1, TableStep
<1>6. TypeKeys' /\ TypeNamesAgree'
  BY <1>1 DEF TypeKeys, CachesAgree, TypeNamesAgree
<1>7. NamesWritten'
  BY <1>1 DEF NamesWritten
<1>8. Found(t, FALSE) = Columns(t)
  BY <1>2, FoundColumns
<1>9. Possibilities(t) = Matches(DOMAIN mapping, t)
  BY <1>2, TrieMatches
<1>10. Ambiguous(Matches(DOMAIN mapping, t)) => Columns(t) = None
  BY DEF Columns, ColumnsAt
<1>11. answer' = IF Ambiguous(Matches(DOMAIN mapping, t)) THEN SchemaError ELSE NamesOf(Columns(t))
  BY <1>8, <1>9, <1>10 DEF ColumnNames
<1>12. Answer(r) = IF Ambiguous(Matches(DOMAIN mapping, t)) THEN SchemaError ELSE NamesOf(Columns(t))
  BY <1>1, <1>2 DEF Answer
<1>13. Ask(r)
  BY <1>1, <1>11, <1>12 DEF Ask
<1> QED BY <1>1, <1>3, <1>4, <1>5, <1>6, <1>7, <1>13 DEF CachesAgree

LEMMA GetColumnTypeStep ==
  ASSUME SchemaInv, KeysFine, TypesAgree, NEW r \in Requests, GetColumnType(r)
  PROVE  SchemaInv' /\ r.op # "addTable" /\ Ask(r)
<1> USE DEF SchemaInv
<1> DEFINE t == TableOf(r)
           type == TypeAt(Found(t, FALSE), ColumnOf(r))
<1>1. r.op = "getColumnType" /\ Normalized(r) /\ ColumnNamed(r) /\ FindCached(t, FALSE)
      /\ answer' = TypeIn(type, r.dialect) /\ TypesCached({type}, r.dialect)
      /\ UNCHANGED <<mapping, trie>>
  BY DEF GetColumnType
<1>2. t \in Refs /\ t = NormalTable(r.table, r.dialect) /\ r.dialect \in Dialects
  BY <1>1, TableOfRequest
<1>3. r \in ColumnRequests
  BY <1>1 DEF ColumnRequests
<1>4. Levels' /\ ColumnsTyped' /\ FindKeys' /\ FindAgrees' /\ TablesAgree'
  BY <1>1, <1>2, SameLevels, FindStep, TableStep
<1>5. ColumnOf(r) = Normal(r.column, r.dialect) /\ NamesWritten'
  BY <1>1, <1>3, NameStep
<1>6. type = TypeAt(Columns(t), Normal(r.column, r.dialect))
  BY <1>2, <1>5, FoundColumns
<1>7. type \in Types \cup {None}
  BY <1>6, ColumnsTypedAt DEF TypeAt
<1>8. \A x \in Types : TypeOf[r.dialect][x] = TypeOf[Default][x]
  BY <1>2, <1>3, TypesOfRequest
<1>9. TypeKeys' /\ TypeNamesAgree'
  <2>1. {type} \in SUBSET (Types \cup {None})
    BY <1>7
  <2> HIDE DEF type
  <2> QED BY <1>1, <1>2, <1>8, <2>1, TypeStep
<1>10. TypeIn(type, r.dialect) = DataType(type, r.dialect)
  <2> HIDE DEF type
  <2> QED BY <1>2, <1>7, <1>8, TypeOfString
<1>11. Answer(r) = DataType(type, r.dialect)
  BY <1>1, <1>2, <1>6 DEF Answer
<1>12. Ask(r)
  BY <1>1, <1>10, <1>11 DEF Ask
<1> QED BY <1>1, <1>4, <1>5, <1>9, <1>12 DEF CachesAgree

LEMMA HasColumnStep ==
  ASSUME SchemaInv, KeysFine, NEW r \in Requests, HasColumn(r)
  PROVE  SchemaInv' /\ r.op # "addTable" /\ Ask(r)
<1> USE DEF SchemaInv
<1> DEFINE t == TableOf(r)
<1>1. r.op = "hasColumn" /\ Normalized(r) /\ ColumnNamed(r) /\ FindCached(t, FALSE)
      /\ answer' = (ColumnOf(r) \in NamesOf(Found(t, FALSE)))
      /\ UNCHANGED <<mapping, trie, typeCache>>
  BY DEF HasColumn
<1>2. t \in Refs /\ t = NormalTable(r.table, r.dialect)
  BY <1>1, TableOfRequest
<1>3. r \in ColumnRequests
  BY <1>1 DEF ColumnRequests
<1>4. Levels' /\ ColumnsTyped' /\ FindKeys' /\ FindAgrees' /\ TablesAgree'
  BY <1>1, <1>2, SameLevels, FindStep, TableStep
<1>5. ColumnOf(r) = Normal(r.column, r.dialect) /\ NamesWritten'
  BY <1>1, <1>3, NameStep
<1>6. TypeKeys' /\ TypeNamesAgree'
  BY <1>1 DEF TypeKeys, CachesAgree, TypeNamesAgree
<1>7. Found(t, FALSE) = Columns(t)
  BY <1>2, FoundColumns
<1>8. Answer(r) = (Normal(r.column, r.dialect) \in NamesOf(Columns(t)))
  BY <1>1, <1>2 DEF Answer
<1>9. Ask(r)
  BY <1>1, <1>5, <1>7, <1>8 DEF Ask
<1> QED BY <1>1, <1>4, <1>5, <1>6, <1>9 DEF CachesAgree

LEMMA FindActionStep ==
  ASSUME SchemaInv, NEW r \in Requests, Find(r)
  PROVE  SchemaInv' /\ r.op # "addTable" /\ Ask(r)
<1> USE DEF SchemaInv
<1> DEFINE t == r.table
           stored == ColumnsAt(Possibilities(t))
           converts == r.ensure /\ <<t, TRUE>> \notin DOMAIN findCache /\ stored # None
           strings == IF converts THEN {stored[n] : n \in DOMAIN stored} ELSE {}
<1>1. r.op = "find" /\ answer' = Found(t, r.ensure) /\ FindCached(t, r.ensure)
      /\ TypesCached(strings, Default)
      /\ UNCHANGED <<mapping, trie, nameCache, tableCache>>
  BY DEF Find
<1>2. t \in Refs /\ r.ensure \in BOOLEAN
  BY <1>1, RequestsAssumption
<1>3. Levels' /\ ColumnsTyped' /\ FindKeys' /\ FindAgrees'
  BY <1>1, <1>2, SameLevels, FindStep
<1>4. TablesAgree' /\ NamesWritten'
  BY <1>1 DEF TablesAgree, CachesAgree, NamesWritten
<1>5. stored = Columns(t)
  BY <1>2, FoundColumns
<1>6. strings \in SUBSET (Types \cup {None})
  <2>1. \A n \in NamesOf(Columns(t)) : Columns(t)[n] \in Types \cup {None}
    BY ColumnsTypedAt
  <2> QED BY <1>5, <2>1 DEF NamesOf
<1>7. TypeKeys' /\ TypeNamesAgree'
  <2> HIDE DEF strings
  <2> QED BY <1>1, <1>6, TypeStep, DialectsAssumption
<1>8. Answer(r) = IF r.ensure THEN Typed(Columns(t)) ELSE Columns(t)
  BY <1>1 DEF Answer
<1>9. Found(t, r.ensure) = IF r.ensure THEN Typed(Columns(t)) ELSE Columns(t)
  BY <1>2, FoundColumns
<1>10. Ask(r)
  BY <1>1, <1>8, <1>9 DEF Ask
<1> QED BY <1>1, <1>3, <1>4, <1>7, <1>10 DEF CachesAgree

-----------------------------------------------------------------------------
\* Registering a table under a path that none of the references in findCache
\* but its own matches changes the answer to none of them.
LEMMA OtherReferences ==
  ASSUME NEW path, NEW columns, mapping' = With(mapping, path, columns),
         NEW x, Matches({path}, x) = {}
  PROVE  Columns(x)' = Columns(x)
<1>1. DOMAIN mapping' = DOMAIN mapping \cup {path}
      /\ \A p \in DOMAIN mapping : p # path => mapping'[p] = mapping[p]
  BY DEF With
<1>2. Matches(DOMAIN mapping', x) = Matches(DOMAIN mapping, x) /\ path \notin Matches(DOMAIN mapping, x)
  BY <1>1 DEF Matches
<1> DEFINE found == Matches(DOMAIN mapping, x)
<1>3. \A p \in found : mapping'[p] = mapping[p]
  BY <1>1, <1>2 DEF Matches
<1>4. found # {} => mapping'[CHOOSE p \in found : TRUE] = mapping[CHOOSE p \in found : TRUE]
  BY <1>3
<1> DEFINE after == Matches(DOMAIN mapping', x)
<1>5. Columns(x)' = IF after = {} \/ Ambiguous(after) THEN None ELSE mapping'[CHOOSE p \in after : TRUE]
  BY DEF Columns, ColumnsAt, Matches, Ambiguous
<1> QED BY <1>2, <1>4, <1>5 DEF Columns, ColumnsAt

\* The early return of addTable is the Catalog's.
LEMMA KnownIsKept ==
  ASSUME SchemaInv, NEW t \in Refs, ~Mismatch(Path(t)), NEW columns
  PROVE  Known(t, columns) <=> Kept(Path(t), columns)
<1>1. Found(t, FALSE) = Columns(t)
  BY FoundColumns DEF SchemaInv
<1>2. Matches(DOMAIN mapping, t) = DOMAIN mapping \cap {Path(t)}
  BY OwnMatch DEF SchemaInv
<1>3. CASE Path(t) \in DOMAIN mapping
  <2>1. Matches(DOMAIN mapping, t) = {Path(t)}
    BY <1>2, <1>3
  <2>2. ~Ambiguous({Path(t)}) /\ (CHOOSE p \in {Path(t)} : TRUE) = Path(t)
    BY DEF Ambiguous
  <2>3. Columns(t) = mapping[Path(t)]
    BY <2>1, <2>2 DEF Columns, ColumnsAt
  <2> QED BY <1>1, <1>3, <2>3 DEF Known, Kept
<1>4. CASE Path(t) \notin DOMAIN mapping
  <2>1. Columns(t) = None
    BY <1>2, <1>4 DEF Columns, ColumnsAt
  <2> QED BY <1>1, <1>4, <2>1 DEF Known, Kept, NamesOf
<1> QED BY <1>3, <1>4

\* The third case of AddTable: the table is stored and its entries dropped.
LEMMA StoreStep ==
  ASSUME SchemaInv, NEW t \in Refs, NEW columns, ~Mismatch(Path(t)),
         \A n \in DOMAIN columns : columns[n] \in Types \cup {None},
         \A k \in DOMAIN findCache : k[1] # t => Matches({Path(t)}, k[1]) = {},
         mapping' = With(mapping, Path(t), columns), trie' = trie \cup {Path(t)},
         findCache' = Forgotten(t)
  PROVE  Levels' /\ ColumnsTyped' /\ FindKeys' /\ FindAgrees'
<1> USE DEF SchemaInv
<1> DEFINE path == Path(t)
<1>1. DOMAIN mapping' = DOMAIN mapping \cup {path}
      /\ \A p \in DOMAIN mapping' : mapping'[p] = IF p = path THEN columns ELSE mapping[p]
  BY DEF With
<1>2. Levels'
  <2>1. trie' = DOMAIN mapping'
    BY <1>1 DEF Levels
  <2>2. DOMAIN mapping' \subseteq Paths
    BY <1>1, PathOfRef DEF Levels
  <2>3. \A p, q \in DOMAIN mapping' : Len(p) = Len(q)
    <3> HIDE DEF path
    <3>1. \A p \in DOMAIN mapping : Len(p) = Len(path)
      BY DEF Mismatch, path
    <3> QED BY <1>1, <3>1
  <2> QED BY <2>1, <2>2, <2>3 DEF Levels
<1>3. ColumnsTyped'
  BY <1>1 DEF ColumnsTyped
<1>4. DOMAIN findCache' = DOMAIN findCache \ {<<t, FALSE>>, <<t, TRUE>>}
      /\ \A k \in DOMAIN findCache' : findCache'[k] = findCache[k]
  BY DEF Forgotten
<1>5. FindKeys'
  BY <1>4 DEF FindKeys
<1>6. ASSUME NEW k \in DOMAIN findCache'
      PROVE  Columns(k[1])' # None
             /\ findCache'[k] = IF k[2] THEN Typed(Columns(k[1])') ELSE Columns(k[1])'
  <2>1. k \in Refs \X BOOLEAN /\ k \in DOMAIN findCache /\ k # <<t, FALSE>> /\ k # <<t, TRUE>>
    BY <1>4 DEF FindKeys
  <2>2. k[1] # t
    <3>1. PICK x \in Refs, e \in BOOLEAN : k = <<x, e>>
      BY <2>1
    <3>2. x # t
      <4>1. CASE e = TRUE
        BY <2>1, <3>1, <4>1
      <4>2. CASE e = FALSE
        BY <2>1, <3>1, <4>2
      <4> QED BY <4>1, <4>2
    <3> QED BY <3>1, <3>2
  <2>3. Columns(k[1])' = Columns(k[1])
    <3>1. Matches({path}, k[1]) = {}
      BY <2>1, <2>2
    <3> QED BY <3>1, OtherReferences
  <2>4. Columns(k[1]) # None /\ findCache[k] = IF k[2] THEN Typed(Columns(k[1])) ELSE Columns(k[1])
    BY <2>1 DEF CachesAgree, FindAgrees
  <2> QED BY <1>4, <2>3, <2>4
<1>7. FindAgrees'
  BY <1>6 DEF FindAgrees, Typed, DataType
<1> QED BY <1>2, <1>3, <1>5, <1>7

LEMMA AddTableStep ==
  ASSUME SchemaInv, KeysFine, NEW r \in Requests, AddTable(r), Settled(r)
  PROVE  SchemaInv' /\ r.op = "addTable" /\ Add(r)
<1> USE DEF SchemaInv
<1> DEFINE t == TableOf(r)
           path == Path(t)
           columns == Named(r.columns, ColumnsOf(r))
           normal == [id \in DOMAIN r.columns |-> Normal(id, r.dialect)]
<1>1. r.op = "addTable" /\ Normalized(r) /\ UNCHANGED typeCache
  BY DEF AddTable
<1>2. t \in Refs /\ t = NormalTable(r.table, r.dialect)
  BY <1>1, TableOfRequest
<1>3. TablesAgree' /\ TypeKeys' /\ TypeNamesAgree'
  BY <1>1, TableStep DEF TypeKeys, CachesAgree, TypeNamesAgree
<1>4. Add(r) <=> /\ answer' = IF Mismatch(path) THEN SchemaError ELSE None
                 /\ mapping' = IF Mismatch(path) \/ Kept(path, Named(r.columns, normal)) THEN mapping
                               ELSE With(mapping, path, Named(r.columns, normal))
  BY <1>2 DEF Add
<1>5. CASE Mismatch(path)
  <2>1. answer' = SchemaError /\ UNCHANGED <<mapping, trie, nameCache, findCache>>
    BY <1>5 DEF AddTable
  <2>2. Levels' /\ ColumnsTyped' /\ NamesWritten' /\ FindKeys'
    BY <2>1, SameLevels DEF NamesWritten, FindKeys
  <2>3. FindAgrees'
    BY <2>1, SameTables DEF CachesAgree, FindAgrees
  <2>4. Add(r)
    BY <1>4, <1>5, <2>1
  <2> QED BY <1>1, <1>3, <2>2, <2>3, <2>4 DEF CachesAgree
<1>6. CASE ~Mismatch(path)
  <2>1. ColumnsNamed(r) /\ answer' = None
    BY <1>6 DEF AddTable
  <2>2. ColumnsOf(r) = normal /\ NamesWritten'
    BY <1>1, <2>1, NamesStep
  <2>3. Known(t, columns) <=> Kept(path, columns)
    BY <1>2, <1>6, KnownIsKept
  <2>4. CASE Known(t, columns)
    <3>1. FindCached(t, FALSE) /\ UNCHANGED <<mapping, trie>>
      BY <1>6, <2>4 DEF AddTable
    <3>2. Levels' /\ ColumnsTyped' /\ FindKeys' /\ FindAgrees'
      BY <1>2, <3>1, SameLevels, FindStep
    <3>3. Add(r)
      BY <1>4, <1>6, <2>1, <2>2, <2>3, <2>4, <3>1
    <3> QED BY <1>1, <1>3, <2>2, <3>2, <3>3 DEF CachesAgree
  <2>5. CASE ~Known(t, columns)
    <3>1. mapping' = With(mapping, path, columns) /\ trie' = trie \cup {path} /\ findCache' = Forgotten(t)
      BY <1>6, <2>5 DEF AddTable
    <3>2. \A n \in DOMAIN columns : columns[n] \in Types \cup {None}
      <4>1. ASSUME NEW n \in DOMAIN columns
            PROVE  columns[n] \in Types \cup {None}
        <5>1. \E id \in DOMAIN r.columns : ColumnsOf(r)[id] = n
          BY DEF Named
        <5> DEFINE id == CHOOSE id \in DOMAIN r.columns : ColumnsOf(r)[id] = n
        <5>2. id \in DOMAIN r.columns
          BY <5>1
        <5>3. columns[n] = r.columns[id]
          BY DEF Named
        <5> QED BY <1>1, <5>2, <5>3, RequestsAssumption
      <4> QED BY <4>1
    <3>3. \A k \in DOMAIN findCache : k[1] # t => Matches({path}, k[1]) = {}
      BY DEF Settled
    <3>4. Levels' /\ ColumnsTyped' /\ FindKeys' /\ FindAgrees'
      <4> HIDE DEF columns, t
      <4> QED BY <1>2, <1>6, <3>1, <3>2, <3>3, StoreStep
    <3>5. Add(r)
      BY <1>4, <1>6, <2>1, <2>2, <2>3, <2>5, <3>1
    <3> QED BY <1>1, <1>3, <2>2, <3>4, <3>5 DEF CachesAgree
  <2> QED BY <2>4, <2>5
<1> QED BY <1>5, <1>6

-----------------------------------------------------------------------------
LEMMA InvInit == SchemaInit => SchemaInv
<1> SUFFICES ASSUME SchemaInit PROVE SchemaInv
  OBVIOUS
<1>1. DOMAIN mapping = {} /\ trie = {} /\ DOMAIN findCache = {} /\ DOMAIN tableCache = {}
      /\ DOMAIN nameCache = {} /\ DOMAIN typeCache = {}
  BY DEF SchemaInit, Init
<1> QED
  BY <1>1 DEF SchemaInv, Levels, ColumnsTyped, FindKeys, TypeKeys, NamesWritten, CachesAgree,
              FindAgrees, TablesAgree, TypeNamesAgree

\* Every step keeps the invariant and is a step of the Catalog or changes
\* nothing that a client sees.
LEMMA InvNext ==
  ASSUME SchemaInv, KeysFine, TypesAgree, Careful, [SchemaNext]_vars
  PROVE  SchemaInv' /\ [CatalogNext]_<<mapping, request, answer>>
<1>1. CASE UNCHANGED vars
  <2>1. UNCHANGED mapping
    BY <1>1 DEF vars
  <2>2. FindAgrees'
    BY <1>1, <2>1, SameTables DEF vars, SchemaInv, CachesAgree, FindAgrees
  <2> QED
    BY <1>1, <2>2 DEF vars, SchemaInv, Levels, ColumnsTyped, FindKeys, TypeKeys, NamesWritten,
                      CachesAgree, TablesAgree, TypeNamesAgree
<1>2. CASE SchemaNext
  <2>1. PICK r \in Requests : /\ r.op = "addTable" => Settled(r)
                              /\ Call(r)
                              /\ request' = r
    BY <1>2 DEF SchemaNext
  <2>2. CASE AddTable(r)
    <3>1. r.op = "addTable"
      BY <2>2 DEF AddTable
    <3>2. SchemaInv' /\ Add(r)
      BY <2>1, <2>2, <3>1, AddTableStep
    <3> QED BY <2>1, <3>1, <3>2 DEF CatalogNext
  <2>3. CASE ~AddTable(r)
    <3>1. SchemaInv' /\ r.op # "addTable" /\ Ask(r)
      BY <2>1, <2>3, ColumnNamesStep, GetColumnTypeStep, HasColumnStep, FindActionStep DEF Call
    <3> QED BY <2>1, <3>1 DEF CatalogNext
  <2> QED BY <2>2, <2>3
<1> QED BY <1>1, <1>2

\* No cache of MappingSchema (findCache, the normalized tables and names, the
\* data types) is visible: whatever a careful client asks and registers, in any
\* order, the answers are those of the Catalog.
THEOREM SchemaImplements ==
  ASSUME KeysFine, TypesAgree, Careful
  PROVE  SchemaSpec => CatalogSpec
<1>1. SchemaInit => Init /\ SchemaInv
  BY InvInit DEF SchemaInit
<1>2. ASSUME SchemaInv, [SchemaNext]_vars
      PROVE  SchemaInv' /\ [CatalogNext]_<<mapping, request, answer>>
  BY <1>2, InvNext
<1> QED BY <1>1, <1>2, PTL DEF SchemaSpec, CatalogSpec

\* ... because every entry of every cache is what would be computed now.
THEOREM CachesStayRight ==
  ASSUME KeysFine, TypesAgree, Careful
  PROVE  SchemaSpec => []CachesAgree
<1>1. SchemaInv => CachesAgree
  BY DEF SchemaInv
<1>2. SchemaInv /\ [SchemaNext]_vars => SchemaInv'
  BY InvNext
<1> QED BY <1>1, <1>2, InvInit, PTL DEF SchemaSpec
=============================================================================
