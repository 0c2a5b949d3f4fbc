---------------------------- MODULE MappingSchema ----------------------------
(***************************************************************************)
(* MappingSchema as it is written (src/schema.js): the mapping, the trie   *)
(* over the reversed paths and four caches, none of them a part of what    *)
(* Catalog promises.  Its variables `mapping`, `request` and `answer` are  *)
(* the Catalog's own, so that SchemaSpec => CatalogSpec says that no cache *)
(* is ever visible to a client.                                            *)
(*                                                                         *)
(* The spec is of a schema that normalizes (the default), is filled by     *)
(* addTable with matchDepth and restricts no column's visibility.          *)
(***************************************************************************)
EXTENDS Catalog

CONSTANT Careful   \* whether the client keeps to Settled below

VARIABLES
  trie,         \* mappingTrie: the paths that were inserted
  findCache,    \* <<table, ensure>> -> columns
  tableCache,   \* <<table, dialect>> -> normalized table
  nameCache,    \* <<name, quoted, dialect>> -> normalized name
  typeCache     \* type string -> data type

vars == <<mapping, request, answer, trie, findCache, tableCache, nameCache, typeCache>>

Cached(cache, key, computed) == IF key \in DOMAIN cache THEN cache[key] ELSE computed

-----------------------------------------------------------------------------
(* _normalizeTable: looked up under the table as it was given, stored under *)
(* the table it became.                                                     *)
TableOf(r) == Cached(tableCache, <<r.table, r.dialect>>, NormalTable(r.table, r.dialect))

Normalized(r) ==
  tableCache' = IF <<r.table, r.dialect>> \in DOMAIN tableCache THEN tableCache
                ELSE With(tableCache, <<TableOf(r), r.dialect>>, TableOf(r))

(* _normalizeName: a name given as a string keeps its quotes in the key, an *)
(* Identifier leaves them out.                                              *)
StringKey(id, d) == <<id.name, id.quoted, d>>
IdentifierKey(id, d) == <<id.name, FALSE, d>>

ColumnOf(r) == Cached(nameCache, IdentifierKey(r.column, r.dialect), Normal(r.column, r.dialect))

ColumnNamed(r) == nameCache' = With(nameCache, IdentifierKey(r.column, r.dialect), ColumnOf(r))

ColumnsOf(r) ==
  [id \in DOMAIN r.columns |-> Cached(nameCache, StringKey(id, r.dialect), Normal(id, r.dialect))]

ColumnsNamed(r) ==
  LET keys == {StringKey(id, r.dialect) : id \in DOMAIN r.columns}
  IN  nameCache' = [k \in DOMAIN nameCache \cup keys |->
                      Cached(nameCache, k, Normal([name |-> k[1], quoted |-> k[2]], r.dialect))]

(* _toDataType: cached by the string alone. *)
TypeIn(s, d) == IF s = None THEN None ELSE Cached(typeCache, s, TypeOf[d][s])

TypesCached(strings, d) ==
  typeCache' = [s \in DOMAIN typeCache \cup (strings \ {None}) |-> TypeIn(s, d)]

-----------------------------------------------------------------------------
(* _findInTrie: the parts of t, innermost first and no more than the schema *)
(* has levels, are a prefix of what was inserted.                           *)
Depth == IF DOMAIN mapping = {} THEN 0 ELSE Len(CHOOSE p \in DOMAIN mapping : TRUE)

PartsUncut(t) == IF DOMAIN mapping = {} THEN << >> ELSE Path(t)

Parts(t) == [i \in {i \in DOMAIN t.parts : i <= Depth} |-> t.parts[i].name]

Prefixes(parts, p) == \A i \in DOMAIN parts : i \in DOMAIN p /\ p[i] = parts[i]

Possibilities(t) ==
  IF DOMAIN Parts(t) = {} THEN {} ELSE {p \in trie : Prefixes(Parts(t), p)}

(* find, without and with data types.  An entry that would hold null is     *)
(* looked up again, so none is kept.                                        *)
Converted(columns, ensure) ==
  IF columns = None \/ ~ensure THEN columns
  ELSE [n \in DOMAIN columns |-> TypeIn(columns[n], Default)]

Found(t, ensure) ==
  Cached(findCache, <<t, ensure>>, Converted(ColumnsAt(Possibilities(t)), ensure))

FindCached(t, ensure) ==
  findCache' = IF Found(t, ensure) = None THEN findCache
               ELSE With(findCache, <<t, ensure>>, Found(t, ensure))

ForgottenUntyped(t) == [k \in DOMAIN findCache \ {<<t, FALSE>>} |-> findCache[k]]

\* The two entries of the registered table, under the spelling of this call.
Forgotten(t) == [k \in DOMAIN findCache \ {<<t, FALSE>>, <<t, TRUE>>} |-> findCache[k]]

-----------------------------------------------------------------------------
SchemaInit ==
  /\ Init
  /\ trie = {}
  /\ findCache = << >> /\ tableCache = << >> /\ nameCache = << >> /\ typeCache = << >>

\* The early return: a table whose columns are known is not replaced by one
\* without; what is known is what find() says.
Known(t, columns) == NamesOf(Found(t, FALSE)) # {} /\ DOMAIN columns = {}

AddTable(r) ==
  LET t == TableOf(r)
      names == ColumnsOf(r)
      columns == Named(r.columns, names)
  IN  /\ r.op = "addTable"
      /\ Normalized(r)
      /\ \/ /\ Mismatch(Path(t))
            /\ answer' = SchemaError
            /\ UNCHANGED <<mapping, trie, nameCache, findCache>>
         \/ /\ ~Mismatch(Path(t)) /\ Known(t, columns)
            /\ answer' = None
            /\ ColumnsNamed(r) /\ FindCached(t, FALSE)
            /\ UNCHANGED <<mapping, trie>>
         \/ /\ ~Mismatch(Path(t)) /\ ~Known(t, columns)
            /\ answer' = None
            /\ ColumnsNamed(r)
            /\ mapping' = With(mapping, Path(t), columns)
            /\ trie' = trie \cup {Path(t)}
            /\ findCache' = Forgotten(t)
      /\ UNCHANGED typeCache

\* Raises where a reference without an entry has several matches.
ColumnNames(r) ==
  LET t == TableOf(r)
  IN  /\ r.op = "columnNames"
      /\ Normalized(r)
      /\ answer' = IF Found(t, FALSE) = None /\ Ambiguous(Possibilities(t)) THEN SchemaError
                   ELSE NamesOf(Found(t, FALSE))
      /\ FindCached(t, FALSE)
      /\ UNCHANGED <<mapping, trie, nameCache, typeCache>>

GetColumnType(r) ==
  LET type == TypeAt(Found(TableOf(r), FALSE), ColumnOf(r))
  IN  /\ r.op = "getColumnType"
      /\ Normalized(r) /\ ColumnNamed(r) /\ FindCached(TableOf(r), FALSE)
      /\ answer' = TypeIn(type, r.dialect)
      /\ TypesCached({type}, r.dialect)
      /\ UNCHANGED <<mapping, trie>>

HasColumn(r) ==
  /\ r.op = "hasColumn"
  /\ Normalized(r) /\ ColumnNamed(r) /\ FindCached(TableOf(r), FALSE)
  /\ answer' = (ColumnOf(r) \in NamesOf(Found(TableOf(r), FALSE)))
  /\ UNCHANGED <<mapping, trie, typeCache>>

\* find() itself, as annotate_types calls it: the table is not normalized and
\* nothing is raised.
Find(r) ==
  LET stored == ColumnsAt(Possibilities(r.table))
      converts == r.ensure /\ <<r.table, TRUE>> \notin DOMAIN findCache /\ stored # None
  IN  /\ r.op = "find"
      /\ answer' = Found(r.table, r.ensure)
      /\ FindCached(r.table, r.ensure)
      /\ TypesCached(IF converts THEN {stored[n] : n \in DOMAIN stored} ELSE {}, Default)
      /\ UNCHANGED <<mapping, trie, nameCache, tableCache>>

-----------------------------------------------------------------------------
(* A careful client registers a table before it asks for it by any other    *)
(* reference: part of its path, quoted, or under an alias.                  *)
Settled(r) ==
  LET t == TableOf(r)
  IN  \A k \in DOMAIN findCache : k[1] # t => Matches({Path(t)}, k[1]) = {}

Call(r) == AddTable(r) \/ ColumnNames(r) \/ GetColumnType(r) \/ HasColumn(r) \/ Find(r)

SchemaNext ==
  \E r \in Requests :
    /\ (Careful /\ r.op = "addTable") => Settled(r)
    /\ Call(r)
    /\ request' = r

SchemaSpec == SchemaInit /\ [][SchemaNext]_vars

-----------------------------------------------------------------------------
\* What a column name of request r is cached under.
ColumnIds(r) == IF r.op = "addTable" THEN DOMAIN r.columns ELSE {r.column}
ColumnKey(r, id) ==
  IF r.op = "addTable" THEN StringKey(id, r.dialect) ELSE IdentifierKey(id, r.dialect)

(* The two conditions under which the cache keys are fine enough: no two    *)
(* requests name one column quoted and unquoted where that makes a          *)
(* difference, and a type string means the same in every dialect used.      *)
ColumnRequests == {r \in Requests : r.op \in {"addTable", "getColumnType", "hasColumn"}}

KeysFine ==
  \A r, s \in ColumnRequests : \A i \in ColumnIds(r), j \in ColumnIds(s) :
    ColumnKey(r, i) = ColumnKey(s, j) => Normal(i, r.dialect) = Normal(j, s.dialect)

TypesAgree ==
  \A r \in ColumnRequests : \A s \in Types : TypeOf[r.dialect][s] = TypeOf[Default][s]

FindAgrees ==
  \A k \in DOMAIN findCache :
    /\ Columns(k[1]) # None
    /\ findCache[k] = IF k[2] THEN Typed(Columns(k[1])) ELSE Columns(k[1])

TablesAgree == \A k \in DOMAIN tableCache : tableCache[k] = NormalTable(k[1], k[2])

TypeNamesAgree == \A s \in DOMAIN typeCache : typeCache[s] = TypeOf[Default][s]

\* Every cache entry is what would be computed now, from the tables registered
\* so far: findCache after every addTable (which drops two entries of all those
\* that may have changed), the others whatever the order of the calls.
CachesAgree == FindAgrees /\ TablesAgree /\ TypeNamesAgree

=============================================================================
