---------------------------- MODULE SessionState ----------------------------
(***************************************************************************)
(* The session tracker of src/contrib/sessionState.js: classify() turns a   *)
(* statement into effects, apply() reduces an effect into the tracked       *)
(* state, and every change that the replay log can express rebuilds the     *)
(* log.  A statement is abstracted to what the classifier reads of its      *)
(* tree: its form, keys, values (with their quoting) and scope.  Texts are  *)
(* compared, never taken apart.                                             *)
(***************************************************************************)
EXTENDS Naturals, Sequences

CONSTANTS
  Family,        \* familyOf(dialect): the key tables and special cases in force
  Keys,          \* spellings of setting names
  Lower, Upper,  \* toLowerCase / toUpperCase on Keys
  Texts,         \* values and object names, decoded
  UserTexts,     \* the texts that match /\$user/i
  Statements,    \* the statements the client sends
  Null,          \* JavaScript's null
  DefaultPath    \* the label "default" of searchPath

Families == {"postgres", "databricks", "snowflake", "generic"}
SpecialKeys == {"search_path", "role", "session_authorization", "timezone", "all"}

\* "as written": a text with or without its quotes.
Raws == [text: Texts, quoted: BOOLEAN]
Items == [key: Keys, raw: Raws, scope: {"session", "local"}]

\* A statement carries one item or two (MaxItems = 2).
Short(S) == {<<x>> : x \in S} \cup {<<x, y>> : x, y \in S}

Uses == [form: {"use"}, kind: {"plain", "catalog", "database", "schema", "role", "warehouse"},
         db: Texts \cup {Null}, name: Texts]
Sets == [form: {"set", "alter"}, items: Short(Items)]
Unsets == [form: {"unset"}, items: Short(Keys)]
Resets == [form: {"reset"}, key: Keys]
Commands == [form: {"command"}, key: {"search_path", "role", "session_authorization"},
             raw: Raws, scope: {"session", "local"}]
Declares == [form: {"declare"}, key: Keys, raw: Raws \cup {Null}]
Plain == [form: {"discard", "opaque", "other"}]
AllStatements == Uses \cup Sets \cup Unsets \cup Resets \cup Commands \cup Declares \cup Plain

ASSUME FamilyAssumption == Family \in Families
ASSUME KeysAssumption ==
  /\ SpecialKeys \subseteq Keys
  /\ Lower \in [Keys -> Keys]
  /\ Upper \in [Keys -> Keys]
  /\ \A k \in SpecialKeys : Lower[k] = k
ASSUME StatementsAssumption == Statements \subseteq AllStatements
ASSUME NullAssumption ==
  /\ Null \notin Texts \cup Raws \cup [catalog: Texts, schema: Texts]
  /\ DefaultPath \notin Raws \cup {Null}

VARIABLE session

-----------------------------------------------------------------------------
(* Effects: makeEffect and the classifiers. *)

Effects == [kind: {"set", "reset", "use", "role", "auth", "discard", "variable", "unknown", "none"},
            scope: {"session", "local"}, key: Keys \cup {"catalog", "schema", "warehouse", "namespace", Null},
            value: Texts \cup {Null}, raw: Raws \cup {Null},
            parts: [catalog: Texts, schema: Texts] \cup {Null}]

NoEffect == [kind |-> "none", scope |-> "session", key |-> Null,
             value |-> Null, raw |-> Null, parts |-> Null]

Sentinels == {"none", "default"}

\* resolveKeyEffect: the canonical name and kind that the family's table gives
\* a key.  Only the Postgres table changes the kind.
Canonical(k) ==
  CASE Family = "postgres" /\ Lower[k] = "schema" -> "search_path"
    [] Family = "postgres" /\ Lower[k] \in SpecialKeys \ {"all"} -> Lower[k]
    [] Family = "snowflake" -> Upper[k]
    [] OTHER -> k

KindOf(canonical) ==
  CASE Family = "postgres" /\ canonical = "role" -> "role"
    [] Family = "postgres" /\ canonical = "session_authorization" -> "auth"
    [] OTHER -> "set"

\* The sentinel is looked for in the decoded value, for the three Postgres
\* settings that have a reset of their own.
Resettable(canonical) ==
  Family = "postgres" /\ canonical \in {"search_path", "role", "session_authorization"}

ItemEffect(item) ==
  LET canonical == Canonical(item.key)
      isReset == Resettable(canonical) /\ item.raw.text \in Sentinels
  IN  [NoEffect EXCEPT !.kind = IF isReset THEN "reset" ELSE KindOf(canonical),
                       !.scope = item.scope, !.key = canonical,
                       !.value = item.raw.text, !.raw = item.raw]

UnsetEffect(k) == [NoEffect EXCEPT !.kind = "reset", !.key = Canonical(k)]

\* classifyUse.  A two-part name carries its catalog on parts.
UseKey(kind) ==
  CASE kind = "database" -> IF Family = "snowflake" THEN "catalog" ELSE "schema"
    [] OTHER -> kind

\* USE SCHEMA a.b read the way it was before parts existed: the catalog is lost.
UseEffectOnePart(s) ==
  [NoEffect EXCEPT !.kind = IF s.kind = "role" THEN "role" ELSE "use",
                   !.key = IF s.kind = "plain" THEN "schema" ELSE UseKey(s.kind),
                   !.value = s.name]

UseEffect(s) ==
  LET key == IF s.kind # "plain" THEN UseKey(s.kind)
             ELSE IF s.db # Null THEN "namespace" ELSE "schema"
  IN  [NoEffect EXCEPT !.kind = IF key = "role" THEN "role" ELSE "use",
                       !.key = key, !.value = s.name,
                       !.parts = IF key \in {"schema", "namespace"} /\ s.db # Null
                                 THEN [catalog |-> s.db, schema |-> s.name] ELSE Null]

\* postgresResetReader: ALL is reported as a reset of search_path, an ordinary
\* name keeps its spelling.  On Databricks the bare RESET is key "all".
ResetEffect(k) ==
  CASE Family = "postgres" ->
         [NoEffect EXCEPT !.kind = "reset",
            !.key = IF Lower[k] = "all" THEN "search_path"
                    ELSE IF Lower[k] \in {"role", "search_path"} THEN Lower[k] ELSE k]
    [] Family = "databricks" /\ k = "all" -> [NoEffect EXCEPT !.kind = "reset", !.key = "all"]
    [] OTHER -> NoEffect

\* postgresSetCommandReader: SET ROLE x, SET SESSION AUTHORIZATION x and the
\* forms of search_path that are not a Set node.  Here the sentinel is looked
\* for in the text as written.
CommandEffect(s) ==
  IF Family # "postgres" THEN NoEffect
  ELSE [NoEffect EXCEPT
          !.kind = IF s.key # "search_path" /\ s.raw.text \in Sentinels /\ ~s.raw.quoted
                   THEN "reset" ELSE KindOf(s.key),
          !.scope = s.scope, !.key = s.key, !.value = s.raw.text, !.raw = s.raw]

\* classifyDeclare: value and valueRaw are both the decoded default.
DeclareEffect(s) ==
  [NoEffect EXCEPT !.kind = "variable", !.key = s.key,
     !.value = IF s.raw = Null THEN Null ELSE s.raw.text,
     !.raw = IF s.raw = Null THEN Null ELSE [s.raw EXCEPT !.quoted = FALSE]]

\* DISCARD ALL is known only by the shape Postgres gives it.
DiscardEffect ==
  IF Family = "postgres" THEN [NoEffect EXCEPT !.kind = "discard", !.key = "all"] ELSE NoEffect

\* classify(): the effects of a statement, item by item.
Classify(s) ==
  CASE s.form = "use" -> <<UseEffect(s)>>
    [] s.form \in {"set", "alter"} -> [i \in DOMAIN s.items |-> ItemEffect(s.items[i])]
    [] s.form = "unset" -> [i \in DOMAIN s.items |-> UnsetEffect(s.items[i])]
    [] s.form = "reset" -> <<ResetEffect(s.key)>>
    [] s.form = "command" -> <<CommandEffect(s)>>
    [] s.form = "declare" -> <<DeclareEffect(s)>>
    [] s.form = "discard" -> <<DiscardEffect>>
    [] s.form = "opaque" -> <<[NoEffect EXCEPT !.kind = "unknown"]>>
    [] s.form = "other" -> <<NoEffect>>

-----------------------------------------------------------------------------
(* The tracked state. *)

\* variables and variablesRaw are one sequence, in insertion order.
Variables == [key: Keys, value: Texts \cup {Null}, raw: Raws \cup {Null}]

Entries ==
       [kind: {"use_namespace"}, catalog: Texts, schema: Texts]
  \cup [kind: {"use_catalog", "use_schema", "use_warehouse", "use_role"}, name: Texts]
  \cup [kind: {"set"}, key: Keys, value: Texts \cup {Null}, raw: Raws \cup {Null}]

Sessions ==
  [searchPath: Raws \cup {DefaultPath}, roleSwitched: BOOLEAN, authSwitched: BOOLEAN,
   role: Texts \cup {Null}, catalog: Texts \cup {Null}, schema: Texts \cup {Null},
   warehouse: Texts \cup {Null}, variables: Seq(Variables), replayLog: Seq(Entries)]

\* createState
NewSession ==
  [searchPath |-> DefaultPath, roleSwitched |-> FALSE, authSwitched |-> FALSE,
   role |-> Null, catalog |-> Null, schema |-> Null, warehouse |-> Null,
   variables |-> <<>>, replayLog |-> <<>>]

\* rebuildReplayLog
One(kind, name) == IF name = Null THEN <<>> ELSE <<[kind |-> kind, name |-> name]>>

Namespace(s) ==
  IF s.catalog # Null /\ s.schema # Null
  THEN <<[kind |-> "use_namespace", catalog |-> s.catalog, schema |-> s.schema]>>
  ELSE One("use_catalog", s.catalog) \o One("use_schema", s.schema)

Context(s) ==
  IF Family = "snowflake"
  THEN One("use_role", s.role) \o One("use_warehouse", s.warehouse) \o Namespace(s)
  ELSE Namespace(s) \o One("use_warehouse", s.warehouse) \o One("use_role", s.role)

SetEntry(v) == [kind |-> "set", key |-> v.key, value |-> v.value, raw |-> v.raw]

Log(s) == Context(s) \o [i \in DOMAIN s.variables |-> SetEntry(s.variables[i])]

Rebuilt(s) == [s EXCEPT !.replayLog = Log(s)]

\* next.variables[key] = value on an object: a known key keeps its place.
Known(vars, k) == \E i \in DOMAIN vars : vars[i].key = k

Assigned(vars, v) ==
  IF Known(vars, v.key)
  THEN [i \in DOMAIN vars |-> IF vars[i].key = v.key THEN v ELSE vars[i]]
  ELSE Append(vars, v)

Deleted(vars, k) ==
  IF Known(vars, k)
  THEN LET at == CHOOSE i \in DOMAIN vars : vars[i].key = k
       IN  SubSeq(vars, 1, at - 1) \o SubSeq(vars, at + 1, Len(vars))
  ELSE vars

-----------------------------------------------------------------------------
(* apply(): one case per kind of effect. *)

Named(s, e) ==
  CASE e.key = "catalog" -> [s EXCEPT !.catalog = e.value]
    [] e.key = "warehouse" -> [s EXCEPT !.warehouse = e.value]
    [] e.parts # Null -> [s EXCEPT !.catalog = e.parts.catalog, !.schema = e.parts.schema]
    [] OTHER -> [s EXCEPT !.schema = e.value]

ApplyUse(s, e) == Rebuilt(Named(s, e))

ApplyRole(s, e) == [s EXCEPT !.role = e.value, !.roleSwitched = TRUE]

\* The label masked when the user moves, not when it is read.
ApplyAuthMasking(s) == [s EXCEPT !.authSwitched = TRUE, !.role = Null, !.searchPath = Null]
ApplyAuth(s) == [s EXCEPT !.authSwitched = TRUE, !.role = Null]

Cleared(s, e) ==
  CASE Family = "postgres" /\ e.key = "search_path" -> [s EXCEPT !.searchPath = DefaultPath]
    [] Family = "postgres" /\ e.key = "role" -> [s EXCEPT !.role = Null, !.roleSwitched = FALSE]
    [] Family = "postgres" /\ e.key = "session_authorization" ->
         [s EXCEPT !.authSwitched = FALSE, !.roleSwitched = FALSE, !.role = Null]
    [] OTHER -> [s EXCEPT !.variables = Deleted(s.variables, e.key)]

\* RESET ROLE taken for a return to the login user.
ApplyResetToLogin(s, e) ==
  Rebuilt(IF Family = "postgres" /\ e.key = "role"
          THEN [s EXCEPT !.role = Null, !.roleSwitched = FALSE, !.authSwitched = FALSE]
          ELSE Cleared(s, e))

\* The variable is deleted and the log is left as it was.
ApplyResetUnlogged(s, e) == Cleared(s, e)
ApplyReset(s, e) == Rebuilt(Cleared(s, e))

ApplyDiscard(s) ==
  [s EXCEPT !.searchPath = DefaultPath, !.roleSwitched = FALSE, !.authSwitched = FALSE, !.role = Null]

ApplySet(s, e) ==
  IF e.key = "search_path" /\ Family = "postgres"
  THEN [s EXCEPT !.searchPath = IF e.raw # Null THEN e.raw ELSE @]
  ELSE Rebuilt([s EXCEPT !.variables =
                  Assigned(@, [key |-> e.key, value |-> e.value, raw |-> e.raw])])

Apply(s, e) ==
  CASE e.scope = "local" -> s
    [] e.scope # "local" /\ e.kind = "use" -> ApplyUse(s, e)
    [] e.scope # "local" /\ e.kind = "role" -> ApplyRole(s, e)
    [] e.scope # "local" /\ e.kind = "auth" -> ApplyAuth(s)
    [] e.scope # "local" /\ e.kind = "reset" -> ApplyReset(s, e)
    [] e.scope # "local" /\ e.kind = "discard" -> ApplyDiscard(s)
    [] e.scope # "local" /\ e.kind \in {"set", "variable"} -> ApplySet(s, e)
    [] OTHER -> s

\* The items of a statement reduce in source order.
Applied(s, es) == IF Len(es) = 2 THEN Apply(Apply(s, es[1]), es[2]) ELSE Apply(s, es[1])

\* effectiveSearchPath: Null when the label cannot be trusted.
EffectiveSearchPath(s) ==
  LET userMoved == s.roleSwitched \/ s.authSwitched
  IN  IF userMoved /\ (s.searchPath = DefaultPath \/ s.searchPath.text \in UserTexts)
      THEN Null ELSE s.searchPath

-----------------------------------------------------------------------------
Init == session = NewSession

Execute(s) == session' = Applied(session, Classify(s))

Next == \E s \in Statements : Execute(s)

Spec == Init /\ [][Next]_session

-----------------------------------------------------------------------------
(* Properties. *)

\* The tracked state keeps its shape, the log included.
TypeOK == session \in Sessions

\* The log is rebuilt from the state by some of the reducer's cases and not by
\* others.  Whatever the sequence of statements, what it can lack is a change of
\* role and nothing else: it is the log of the present state under some role.
LogLagsOnlyInRole ==
  \E r \in Texts \cup {Null} : session.replayLog = Log([session EXCEPT !.role = r])
=============================================================================
