---------------------------- MODULE SessionTrust ----------------------------
(***************************************************************************)
(* The Postgres session that SessionState tracks.  A result cache is keyed  *)
(* on effectiveSearchPath(): the label must be Null whenever the server may *)
(* resolve an unqualified name otherwise than the label says.  The server   *)
(* is external; its users and paths move as the tracker's own comments and  *)
(* design document say they do, outside of any transaction.                 *)
(***************************************************************************)
EXTENDS SessionState

CONSTANT Login   \* the user that opened the connection

ASSUME LoginAssumption == Login \notin Texts \cup {Null} /\ Family = "postgres"

VARIABLES
  server,   \* what the server holds
  blind     \* a statement the tracker reported as unknown has run

vars == <<session, server, blind>>

Servers == [path: Raws \cup {DefaultPath}, user: Texts \cup {Login}, role: Texts \cup {Null}]

NewServer == [path |-> DefaultPath, user |-> Login, role |-> Null]

CurrentUser(v) == IF v.role # Null THEN v.role ELSE v.user

\* The path of the session names the current user: the default path does.
UserDependent(path) == path = DefaultPath \/ path.text \in UserTexts

-----------------------------------------------------------------------------
\* Only the bare word is the keyword; a quoted one is a name.  NONE is a
\* keyword of ROLE alone.
Keyword(raw, words) == ~raw.quoted /\ raw.text \in words

ServerSet(v, key, raw) ==
  CASE Canonical(key) = "search_path" ->
         [v EXCEPT !.path = IF Keyword(raw, {"default"}) THEN DefaultPath ELSE raw]
    [] Canonical(key) = "role" ->
         [v EXCEPT !.role = IF Keyword(raw, Sentinels) THEN Null ELSE raw.text]
    [] Canonical(key) = "session_authorization" ->
         [v EXCEPT !.user = IF Keyword(raw, {"default"}) THEN Login ELSE raw.text, !.role = Null]
    [] OTHER -> v

\* RESET ALL leaves the role and the session user alone.
ServerReset(v, key) ==
  CASE Lower[key] \in {"all", "search_path"} -> [v EXCEPT !.path = DefaultPath]
    [] Lower[key] = "role" -> [v EXCEPT !.role = Null]
    [] Lower[key] = "session_authorization" -> [v EXCEPT !.user = Login, !.role = Null]
    [] OTHER -> v

\* set_config(), DO and CALL may leave any path behind.
ServerMay(v, s) ==
  CASE s.form = "set" /\ s.items[1].scope # "local" -> {ServerSet(v, s.items[1].key, s.items[1].raw)}
    [] s.form = "command" /\ s.scope # "local" -> {ServerSet(v, s.key, s.raw)}
    [] s.form = "reset" -> {ServerReset(v, s.key)}
    [] s.form = "discard" -> {NewServer}
    [] s.form = "opaque" -> {[v EXCEPT !.path = p] : p \in Raws \cup {DefaultPath}}
    [] OTHER -> {v}

\* Statements that Postgres accepts: one item per SET, and no user is called
\* NONE.
Accepted(s) ==
  CASE s.form = "set" -> Len(s.items) = 1
    [] s.form = "command" -> s.key = "session_authorization" => s.raw.text # "none"
    [] s.form \in {"use", "alter", "unset", "declare"} -> FALSE
    [] OTHER -> TRUE

\* The words that the tracker reads as a reset are keywords of the server.
Unambiguous(s) ==
  CASE s.form = "set" ->
         LET raw == s.items[1].raw
             key == Canonical(s.items[1].key)
         IN  Resettable(key) /\ raw.text \in Sentinels =>
               ~raw.quoted /\ (key = "role" \/ raw.text = "default")
    [] s.form = "command" -> s.key = "search_path" => s.raw.text # "default"
    [] OTHER -> TRUE

-----------------------------------------------------------------------------
TrustInit == Init /\ server = NewServer /\ blind = FALSE

\* The gateway applies the effects of a statement once it has run.
Run(s) ==
  /\ Accepted(s)
  /\ Execute(s)
  /\ server' \in ServerMay(server, s)
  /\ blind' = (blind \/ s.form = "opaque")

TrustNext == \E s \in Statements : Run(s)

TrustSpec == TrustInit /\ [][TrustNext]_vars

-----------------------------------------------------------------------------
\* A label that is handed out is the server's path, and one whose meaning
\* depends on the current user is handed out only while that is the login
\* user - after any sequence of SET, RESET and DISCARD of the path, the role
\* and the session user, as long as no statement was reported unknown.
PathTrusted ==
  LET label == EffectiveSearchPath(session)
  IN  ~blind /\ label # Null =>
        /\ label = server.path
        /\ UserDependent(label) => CurrentUser(server) = Login
=============================================================================
