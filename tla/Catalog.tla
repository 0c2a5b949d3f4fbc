------------------------------- MODULE Catalog -------------------------------
(***************************************************************************)
(* What MappingSchema (src/schema.js) promises its callers: tables are     *)
(* registered under a path of one to three names, and the answer to a      *)
(* question is a function of the registered tables and the question,       *)
(* whatever was asked before.  A path is written innermost name first, as  *)
(* tableParts() does: <<table, db, catalog>>.                              *)
(***************************************************************************)
EXTENDS Naturals, Sequences

CONSTANTS
  Dialects, Default,   \* the dialects a call may name; the schema's own
  Names,               \* identifiers as they are spelled
  Fold,                \* Fold[d][n]: the spelling that dialect d gives an unquoted n
  Types, TypeOf,       \* type strings; TypeOf[d][s]: the data type s names in d
  Requests,            \* the calls a client makes
  None, SchemaError    \* null; a thrown SchemaError

VARIABLES
  mapping,   \* the registered tables: path -> column -> type string
  request,   \* the last call
  answer     \* what it returned or threw

Ids == [name: Names, quoted: BOOLEAN]
Refs == [parts: Seq(Ids) \ {<<>>}, alias: BOOLEAN]

ASSUME DialectsAssumption ==
  /\ Default \in Dialects
  /\ Fold \in [Dialects -> [Names -> Names]]
  /\ \A d \in Dialects, n \in Names : Fold[d][Fold[d][n]] = Fold[d][n]
ASSUME TypesAssumption == DOMAIN TypeOf = Dialects /\ \A d \in Dialects : DOMAIN TypeOf[d] = Types
ASSUME NoneAssumption == None \notin Types
ASSUME RequestsAssumption ==
  \A r \in Requests :
    /\ r.op \in {"addTable", "columnNames", "getColumnType", "hasColumn", "find"}
    /\ r.table \in Refs
    /\ IF r.op = "find" THEN r.ensure \in BOOLEAN ELSE r.dialect \in Dialects
    /\ r.op \in {"getColumnType", "hasColumn"} => r.column \in Ids
    /\ r.op = "addTable" =>
         /\ DOMAIN r.columns \subseteq Ids
         /\ r.columns \in [DOMAIN r.columns -> Types \cup {None}]

-----------------------------------------------------------------------------
(* Names.  normalize_identifier folds an unquoted name and keeps a quoted   *)
(* one; _normalizeTable does so for every part.                             *)
Normal(id, d) == IF id.quoted THEN id.name ELSE Fold[d][id.name]

NormalTable(t, d) ==
  [parts |-> [i \in DOMAIN t.parts |-> [name |-> Normal(t.parts[i], d), quoted |-> t.parts[i].quoted]],
   alias |-> t.alias]

Path(t) == [i \in DOMAIN t.parts |-> t.parts[i].name]

\* The columns of a call, each under the name that `names` gives it (no call
\* gives one column in two spellings).
Named(columns, names) ==
  [n \in {names[id] : id \in DOMAIN columns} |->
     columns[CHOOSE id \in DOMAIN columns : names[id] = n]]

DataType(s, d) == IF s = None THEN None ELSE TypeOf[d][s]

-----------------------------------------------------------------------------
(* Questions.  A table matches a reference when they agree on every part    *)
(* that the table has a level for; only a single match is an answer.        *)
Matches(paths, t) ==
  {p \in paths : \A i \in DOMAIN p : i \in DOMAIN t.parts => p[i] = t.parts[i].name}

Ambiguous(found) == \E p, q \in found : p # q

ColumnsAt(found) ==
  IF found = {} \/ Ambiguous(found) THEN None ELSE mapping[CHOOSE p \in found : TRUE]

Columns(t) == ColumnsAt(Matches(DOMAIN mapping, t))

NamesOf(columns) == IF columns = None THEN {} ELSE DOMAIN columns

TypeAt(columns, n) == IF n \in NamesOf(columns) THEN columns[n] ELSE None

Typed(columns) ==
  IF columns = None THEN None ELSE [n \in DOMAIN columns |-> DataType(columns[n], Default)]

Answer(r) ==
  IF r.op = "find" THEN IF r.ensure THEN Typed(Columns(r.table)) ELSE Columns(r.table)
  ELSE LET t == NormalTable(r.table, r.dialect)
       IN  CASE r.op = "columnNames" ->
                  IF Ambiguous(Matches(DOMAIN mapping, t)) THEN SchemaError ELSE NamesOf(Columns(t))
             [] r.op = "getColumnType" ->
                  DataType(TypeAt(Columns(t), Normal(r.column, r.dialect)), r.dialect)
             [] r.op = "hasColumn" -> Normal(r.column, r.dialect) \in NamesOf(Columns(t))

-----------------------------------------------------------------------------
Init == mapping = << >> /\ request = None /\ answer = None

\* A table whose path is not as long as the others' is refused; one known with
\* its columns is not replaced by one without.
Mismatch(path) == \E p \in DOMAIN mapping : Len(p) # Len(path)

Kept(path, columns) ==
  path \in DOMAIN mapping /\ NamesOf(mapping[path]) # {} /\ DOMAIN columns = {}

With(f, key, value) == [k \in DOMAIN f \cup {key} |-> IF k = key THEN value ELSE f[k]]

Add(r) ==
  LET path == Path(NormalTable(r.table, r.dialect))
      columns == Named(r.columns, [id \in DOMAIN r.columns |-> Normal(id, r.dialect)])
  IN  /\ answer' = IF Mismatch(path) THEN SchemaError ELSE None
      /\ mapping' = IF Mismatch(path) \/ Kept(path, columns) THEN mapping
                    ELSE With(mapping, path, columns)

Ask(r) == answer' = Answer(r) /\ UNCHANGED mapping

CatalogNext ==
  \E r \in Requests : request' = r /\ IF r.op = "addTable" THEN Add(r) ELSE Ask(r)

CatalogSpec == Init /\ [][CatalogNext]_<<mapping, request, answer>>
=============================================================================
