-------------------------- MODULE MCSessionReplay --------------------------
(* SessionReplay for TLC, one client of each family: two spellings of one   *)
(* key, two names and a value that needs quotes.                            *)
EXTENDS Naturals, Sequences

CONSTANTS Null, DefaultPath

VARIABLES
  client,              \* whose statements are sent, for the whole run
  session, settings    \* as in SessionReplay

Keys == {"search_path", "role", "session_authorization", "timezone", "all", "schema",
         "x", "X", "y", "TimeZone", "TIMEZONE", "SEARCH_PATH", "ROLE"}
Lower == [k \in Keys |->
  CASE k \in {"TimeZone", "TIMEZONE"} -> "timezone" [] k = "X" -> "x" [] k = "SEARCH_PATH" -> "search_path"
    [] k = "ROLE" -> "role" [] OTHER -> k]
Upper == [k \in Keys |->
  CASE k \in {"TimeZone", "timezone"} -> "TIMEZONE" [] k = "x" -> "X" [] k = "search_path" -> "SEARCH_PATH"
    [] k = "role" -> "ROLE" [] OTHER -> k]
Texts == {"a", "b", "o'brien", ""}
UserTexts == {}
Bare == {"a", "b"}
Empty == ""

Shape == INSTANCE SessionState WITH Family <- "generic", Statements <- {}

Names == {"a", "b"}
Values == [text: {"a"}, quoted: BOOLEAN] \cup [text: {"o'brien"}, quoted: {TRUE}]
ItemsOf(keys, scopes) == [key: keys, raw: Values, scope: scopes]
SetsOf(forms, items) == [form: forms, items: {<<i>> : i \in items}]
UsesOf(kinds) ==
  [form: {"use"}, kind: kinds, db: {Null}, name: Names] \cup
  [form: {"use"}, kind: kinds \cap {"plain", "schema"}, db: Names, name: Names]

DatabricksStatements ==
       UsesOf({"plain", "catalog", "database", "schema"})
  \cup SetsOf({"set"}, ItemsOf({"timezone", "search_path"}, {"session"}))
  \cup Shape!Plain

SnowflakeStatements ==
       UsesOf({"plain", "database", "schema", "role", "warehouse"})
  \cup [form: {"alter"}, items: Shape!Short([key: {"timezone", "x"}, raw: [text: Names, quoted: {TRUE}],
                                             scope: {"session"}])]
  \cup [form: {"unset"}, items: Shape!Short({"TimeZone", "x"})]

PostgresStatements ==
       SetsOf({"set"}, ItemsOf({"x", "y", "timezone", "TimeZone"}, {"session", "local"}))
  \cup [form: {"reset"}, key: {"x", "timezone"}]

\* A DECLARE is replayed as a SET, which gives the tracker the same variable.
GenericStatements ==
       UsesOf({"plain", "catalog"})
  \cup SetsOf({"set"}, ItemsOf({"x", "X"}, {"session", "local"}))
  \cup [form: {"declare"}, key: {"x", "TimeZone"}, raw: Values \cup {Null}]

Databricks == INSTANCE SessionReplay WITH Family <- "databricks", Statements <- DatabricksStatements
Snowflake == INSTANCE SessionReplay WITH Family <- "snowflake", Statements <- SnowflakeStatements
Postgres == INSTANCE SessionReplay WITH Family <- "postgres", Statements <- PostgresStatements
Generic == INSTANCE SessionReplay WITH Family <- "generic", Statements <- GenericStatements

\* The clients keep to what the two properties ask of them.
ASSUME ClientsAreCareful ==
  /\ Empty \in Texts /\ Databricks!UpperTwice
  /\ Databricks!DeclaresPlainly /\ Databricks!SetsPlainly
  /\ Snowflake!DeclaresPlainly /\ Snowflake!SetsPlainly
  /\ Postgres!DeclaresPlainly /\ Postgres!SetsPlainly
  /\ Generic!DeclaresPlainly

vars == <<client, session, settings>>

Init ==
  /\ client \in {"databricks", "snowflake", "postgres", "generic"}
  /\ Generic!ReplayInit

Next ==
  /\ \/ client = "databricks" /\ Databricks!ReplayNext
     \/ client = "snowflake" /\ Snowflake!ReplayNext
     \/ client = "postgres" /\ Postgres!ReplayNext
     \/ client = "generic" /\ Generic!ReplayNext
  /\ UNCHANGED client

Spec == Init /\ [][Next]_vars

-----------------------------------------------------------------------------
\* SessionReplay: the rendered statements read back to the state.
RoundTrip ==
  CASE client = "databricks" -> Databricks!RoundTrip
    [] client = "snowflake" -> Snowflake!RoundTrip
    [] client = "postgres" -> Postgres!RoundTrip
    [] client = "generic" -> Generic!RoundTrip

\* SessionReplay: the rendered statements restore the server's settings.
SettingsRestored ==
  CASE client = "databricks" -> Databricks!SettingsRestored
    [] client = "snowflake" -> Snowflake!SettingsRestored
    [] client = "postgres" -> Postgres!SettingsRestored
    [] OTHER -> TRUE
=============================================================================
