--------------------------- MODULE MCSessionTrust ---------------------------
(* SessionTrust for TLC: two users, one explicit path and one that names    *)
(* the user.                                                                *)
EXTENDS SessionTrust

MCKeys == SpecialKeys \cup {"schema", "x", "Role"}
MCLower == [k \in MCKeys |-> IF k = "Role" THEN "role" ELSE k]
MCUpper == [k \in MCKeys |-> k]
MCTexts == {"none", "default", "$user", "a", "b"}

Commanded(texts, quotes, scopes) ==
  [form: {"command"}, key: {"role", "session_authorization"},
   raw: [text: texts, quoted: quotes], scope: scopes]

Single(keys, texts, quotes) ==
  [form: {"set"}, items: {<<i>> : i \in [key: keys, raw: [text: texts, quoted: quotes], scope: {"session", "local"}]}]

\* Names as a client writes them: no quoted word that spells a keyword.
PlainStatements ==
       Commanded({"none", "default", "a", "b"}, {FALSE}, {"session", "local"})
  \cup Single({"role", "session_authorization", "Role"}, {"a", "b"}, BOOLEAN)
  \cup Single({"search_path", "schema"}, {"default"}, {FALSE})
  \cup Single({"search_path", "schema", "x"}, {"a", "$user"}, BOOLEAN)
  \cup [form: {"reset"}, key: SpecialKeys \cup {"x", "Role"}]
  \cup Plain

ASSUME \A s \in PlainStatements : Unambiguous(s)
=============================================================================
