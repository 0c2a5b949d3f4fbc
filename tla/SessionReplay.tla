--------------------------- MODULE SessionReplay ---------------------------
(***************************************************************************)
(* render() and what it is for: when a connection is replaced, the gateway  *)
(* runs the statements of the replay log on the fresh session.  Two things  *)
(* can be asked of them: that classify() and apply() read back the state    *)
(* they were rendered from, and that the settings of the server come out as *)
(* the client left them.  The server is external: it keeps what a SET       *)
(* stored, the way the comments of the renderers say it does.               *)
(***************************************************************************)
EXTENDS SessionState, SequencesExt

VARIABLE settings   \* the server's settings, as a set of records

Settings == [name: Keys, of: {"parameter", "variable"}, stored: Texts \cup Raws]

-----------------------------------------------------------------------------
\* quoteDatabricksSetValue / snowflakeParameterLiteral: a value without raw
\* text is written bare when it can be, in quotes otherwise.  Bare is the set
\* of texts that can be.
CONSTANT Bare, Empty

Literal(value) ==
  LET text == IF value = Null THEN Empty ELSE value
  IN  [text |-> text, quoted |-> text \notin Bare]

Written(entry) == IF entry.raw # Null THEN entry.raw ELSE Literal(entry.value)

\* Every family through the generator's string literal.
RenderSetQuoted(entry) ==
  LET raw == [text |-> Literal(entry.value).text, quoted |-> TRUE]
  IN  [form |-> IF Family = "snowflake" THEN "alter" ELSE "set",
       items |-> <<[key |-> entry.key, raw |-> raw, scope |-> "session"]>>]

RenderSet(entry) ==
  LET raw == IF Family \in {"databricks", "snowflake"} THEN Written(entry)
             ELSE [text |-> Literal(entry.value).text, quoted |-> TRUE]
  IN  [form |-> IF Family = "snowflake" THEN "alter" ELSE "set",
       items |-> <<[key |-> entry.key, raw |-> raw, scope |-> "session"]>>]

RenderUse(entry) ==
  CASE entry.kind = "use_namespace" ->
         [form |-> "use", kind |-> IF Family = "snowflake" THEN "schema" ELSE "plain",
          db |-> entry.catalog, name |-> entry.schema]
    [] entry.kind = "use_catalog" -> [form |-> "use", kind |-> "catalog", db |-> Null, name |-> entry.name]
    [] entry.kind = "use_schema" -> [form |-> "use", kind |-> "schema", db |-> Null, name |-> entry.name]
    [] entry.kind = "use_warehouse" -> [form |-> "use", kind |-> "warehouse", db |-> Null, name |-> entry.name]
    [] entry.kind = "use_role" -> [form |-> "use", kind |-> "role", db |-> Null, name |-> entry.name]

RenderEntry(entry) == IF entry.kind = "set" THEN RenderSet(entry) ELSE RenderUse(entry)

Render(s) == [i \in DOMAIN s.replayLog |-> RenderEntry(s.replayLog[i])]

-----------------------------------------------------------------------------
\* The name the server knows a setting by.
ServerName(k) ==
  CASE Family = "postgres" -> Lower[k] [] Family = "snowflake" -> Upper[k] [] OTHER -> k

\* On Spark a SET stores its right-hand side verbatim, quotes included.
Stored(raw) == IF Family = "databricks" THEN raw ELSE raw.text

\* On Snowflake SET assigns a SQL variable and ALTER SESSION a parameter, which
\* is "a different thing".
Setting(s, item) ==
  [name |-> ServerName(item.key), stored |-> Stored(item.raw),
   of |-> IF Family = "snowflake" /\ s.form = "set" THEN "variable" ELSE "parameter"]

Without(set, name, of) == {x \in set : ~(x.name = name /\ x.of = of)}

ServerItem(set, s, item) ==
  CASE s.form = "unset" -> Without(set, ServerName(item), "parameter")
    [] s.form # "unset" /\ item.scope = "local" -> set
    [] OTHER -> LET new == Setting(s, item) IN Without(set, new.name, new.of) \cup {new}

ServerItems(set, s) ==
  IF Len(s.items) = 2 THEN ServerItem(ServerItem(set, s, s.items[1]), s, s.items[2])
  ELSE ServerItem(set, s, s.items[1])

ServerRun(set, s) ==
  CASE s.form \in {"set", "alter", "unset"} -> ServerItems(set, s)
    [] s.form = "reset" -> Without(set, ServerName(s.key), "parameter")
    [] OTHER -> set

-----------------------------------------------------------------------------
ReplayInit == Init /\ settings = {}

Ran(s) == Execute(s) /\ settings' = ServerRun(settings, s)

ReplayNext == \E s \in Statements : Ran(s)

ReplaySpec == ReplayInit /\ [][ReplayNext]_<<session, settings>>

-----------------------------------------------------------------------------
\* A new connection: a tracker that knows nothing and a server at its defaults.
Connection == [session |-> NewSession, settings |-> {}]

Run(at, s) == [session |-> Applied(at.session, Classify(s)), settings |-> ServerRun(at.settings, s)]

Replayed(statements) == FoldLeft(Run, Connection, statements)

\* toUpperCase changes nothing the second time.
UpperTwice == \A k \in Keys : Upper[Upper[k]] = Upper[k]

\* What RoundTrip asks of the client: a variable it declares is not the name of
\* a setting that the family's table calls otherwise or treats as a role or a
\* path, because the declaration is rendered as a SET of that name.
DeclaresPlainly ==
  \A s \in Statements :
    s.form = "declare" => Canonical(s.key) = s.key /\ ~Resettable(s.key)

SettingNames(s) ==
  CASE s.form \in {"set", "alter"} -> {s.items[i].key : i \in DOMAIN s.items}
    [] s.form = "unset" -> {s.items[i] : i \in DOMAIN s.items}
    [] s.form = "reset" -> {s.key}
    [] OTHER -> {}

ClientNames == UNION {SettingNames(s) : s \in Statements}

\* What SettingsRestored asks of it, each because the tracker is known to lose
\* it: no variable of the server's other name space (DECLARE, Snowflake's SET),
\* no RESET of all or in another spelling, no DISCARD ALL, no name that is
\* tracked beside the log, and one spelling for each setting as far as the
\* family's table does not unify them.
SetsPlainly ==
  /\ \A s \in Statements :
       /\ s.form # "declare"
       /\ s.form = "set" => Family # "snowflake"
       /\ s.form = "discard" => Family # "postgres"
       /\ s.form = "reset" => Family = "postgres" /\ Lower[s.key] # "all" /\ Canonical(s.key) = s.key
  /\ \A k \in ClientNames : ~Resettable(Canonical(k))
  /\ \A k, l \in ClientNames : ServerName(k) = ServerName(l) => Canonical(k) = Canonical(l)

\* What a DECLARE without a default leaves is replayed as the empty text.
Shown(vars) == [i \in DOMAIN vars |-> <<vars[i].key, Literal(vars[i].value).text>>]

\* Reading the rendered statements back gives the catalog, the schema, the
\* warehouse and the variables of the state they were rendered from, and
\* nothing else, whatever the order in which the client moved them.
RoundTrip ==
  LET again == Replayed(Render(session)).session
  IN  /\ again.catalog = session.catalog
      /\ again.schema = session.schema
      /\ again.warehouse = session.warehouse
      /\ Shown(again.variables) = Shown(session.variables)

\* A fresh server that runs the rendered statements holds the settings of the
\* server the client left: names, values and, where quotes are part of what is
\* stored, quotes.
SettingsRestored == Replayed(Render(session)).settings = settings
=============================================================================
