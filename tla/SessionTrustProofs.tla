------------------------- MODULE SessionTrustProofs -------------------------
(***************************************************************************)
(* The label handed out by effectiveSearchPath() can be trusted, for every  *)
(* set of statements in which the words the tracker reads as a reset are    *)
(* keywords of the server.  The invariant relates each of the tracker's     *)
(* three fields to the server's: the label is the path, and a flag that is  *)
(* down vouches for one half of the current user.                           *)
(***************************************************************************)
EXTENDS SessionTrust, TLAPS

Sound(s, v) ==
  /\ s.searchPath = v.path
  /\ ~s.authSwitched => v.user = Login
  /\ ~s.roleSwitched => v.role = Null

\* The fields of the tracked state that the label depends on.
Tracked(s) ==
  /\ s = [x \in DOMAIN s |-> s[x]]
  /\ DOMAIN s = {"searchPath", "roleSwitched", "authSwitched", "role", "catalog", "schema",
                 "warehouse", "variables", "replayLog"}

TrustInv ==
  /\ Tracked(session)
  /\ server \in Servers
  /\ ~blind => Sound(session, server)

Flags(s, t) ==
  /\ Tracked(t)
  /\ t.searchPath = s.searchPath
  /\ t.authSwitched = s.authSwitched
  /\ t.roleSwitched = s.roleSwitched

LEMMA IsPostgres == Family = "postgres"
BY LoginAssumption

-----------------------------------------------------------------------------
(* What each kind of effect does to the label and the flags. *)

LEMMA RebuiltFlags ==
  ASSUME NEW s, Tracked(s) PROVE Flags(s, Rebuilt(s))
BY DEF Flags, Tracked, Rebuilt

\* Effects that leave the label and the flags alone.
Quiet(e) ==
  \/ e.scope = "local"
  \/ e.kind \in {"none", "unknown"}
  \/ e.kind = "set" /\ e.key # "search_path"
  \/ e.kind = "reset" /\ e.key \notin {"search_path", "role", "session_authorization"}

LEMMA QuietFlags ==
  ASSUME NEW s, Tracked(s), NEW e, Quiet(e) PROVE Flags(s, Apply(s, e))
<1>1. CASE e.scope = "local" \/ e.kind \in {"none", "unknown"}
  <2>1. Apply(s, e) = s BY <1>1 DEF Apply
  <2> QED BY <2>1 DEF Flags
<1>2. CASE e.scope # "local" /\ e.kind = "set" /\ e.key # "search_path"
  <2> DEFINE t == [s EXCEPT !.variables = Assigned(@, [key |-> e.key, value |-> e.value, raw |-> e.raw])]
  <2>1. Apply(s, e) = Rebuilt(t) BY <1>2 DEF Apply, ApplySet
  <2>2. Flags(s, t) BY DEF Flags, Tracked
  <2> HIDE DEF t
  <2>3. Flags(t, Rebuilt(t)) BY <2>2, RebuiltFlags DEF Flags
  <2> QED BY <2>1, <2>2, <2>3 DEF Flags
<1>3. CASE /\ e.scope # "local" /\ e.kind = "reset"
           /\ e.key \notin {"search_path", "role", "session_authorization"}
  <2> DEFINE t == [s EXCEPT !.variables = Deleted(s.variables, e.key)]
  <2>1. Apply(s, e) = Rebuilt(t) BY <1>3 DEF Apply, ApplyReset, Cleared
  <2>2. Flags(s, t) BY DEF Flags, Tracked
  <2> HIDE DEF t
  <2>3. Flags(t, Rebuilt(t)) BY <2>2, RebuiltFlags DEF Flags
  <2> QED BY <2>1, <2>2, <2>3 DEF Flags
<1> QED BY <1>1, <1>2, <1>3 DEF Quiet

LEMMA PathEffect ==
  ASSUME NEW s, Tracked(s), NEW e, e.scope # "local", e.kind = "set", e.key = "search_path", e.raw # Null
  PROVE /\ Tracked(Apply(s, e))
        /\ Apply(s, e).searchPath = e.raw
        /\ Apply(s, e).authSwitched = s.authSwitched
        /\ Apply(s, e).roleSwitched = s.roleSwitched
<1>1. Apply(s, e) = [s EXCEPT !.searchPath = e.raw] BY IsPostgres DEF Apply, ApplySet
<1> QED BY <1>1 DEF Tracked

LEMMA RoleEffect ==
  ASSUME NEW s, Tracked(s), NEW e, e.scope # "local", e.kind = "role"
  PROVE /\ Tracked(Apply(s, e))
        /\ Apply(s, e).searchPath = s.searchPath
        /\ Apply(s, e).authSwitched = s.authSwitched
        /\ Apply(s, e).roleSwitched
<1> DEFINE t == ApplyRole(s, e)
<1>1. Apply(s, e) = t BY DEF Apply
<1>2. Tracked(t) BY DEF Tracked, ApplyRole
<1>3. t.searchPath = s.searchPath BY DEF Tracked, ApplyRole
<1>4. t.authSwitched = s.authSwitched BY DEF Tracked, ApplyRole
<1>5. t.roleSwitched = TRUE BY DEF Tracked, ApplyRole
<1> HIDE DEF t
<1> QED BY <1>1, <1>2, <1>3, <1>4, <1>5

LEMMA AuthEffect ==
  ASSUME NEW s, Tracked(s), NEW e, e.scope # "local", e.kind = "auth"
  PROVE /\ Tracked(Apply(s, e))
        /\ Apply(s, e).searchPath = s.searchPath
        /\ Apply(s, e).authSwitched
<1> DEFINE t == ApplyAuth(s)
<1>1. Apply(s, e) = t BY DEF Apply
<1>2. Tracked(t) BY DEF Tracked, ApplyAuth
<1>3. t.searchPath = s.searchPath BY DEF Tracked, ApplyAuth
<1>4. t.authSwitched = TRUE BY DEF Tracked, ApplyAuth
<1> HIDE DEF t
<1> QED BY <1>1, <1>2, <1>3, <1>4

LEMMA ResetEffects ==
  ASSUME NEW s, Tracked(s), NEW e, e.scope # "local", e.kind = "reset",
         e.key \in {"search_path", "role", "session_authorization"}
  PROVE /\ Tracked(Apply(s, e))
        /\ Apply(s, e).searchPath = IF e.key = "search_path" THEN DefaultPath ELSE s.searchPath
        /\ Apply(s, e).authSwitched =
             IF e.key = "session_authorization" THEN FALSE ELSE s.authSwitched
        /\ Apply(s, e).roleSwitched = IF e.key = "search_path" THEN s.roleSwitched ELSE FALSE
<1> DEFINE t == Cleared(s, e)
<1>1. Apply(s, e) = Rebuilt(t) BY DEF Apply, ApplyReset
<1>2. /\ Tracked(t)
      /\ t.searchPath = IF e.key = "search_path" THEN DefaultPath ELSE s.searchPath
      /\ t.authSwitched = IF e.key = "session_authorization" THEN FALSE ELSE s.authSwitched
      /\ t.roleSwitched = IF e.key = "search_path" THEN s.roleSwitched ELSE FALSE
  <2>1. CASE e.key = "search_path" BY <2>1, IsPostgres DEF Cleared, Tracked
  <2>2. CASE e.key = "role" BY <2>2, IsPostgres DEF Cleared, Tracked
  <2>3. CASE e.key = "session_authorization" BY <2>3, IsPostgres DEF Cleared, Tracked
  <2> QED BY <2>1, <2>2, <2>3
<1> HIDE DEF t
<1>3. Flags(t, Rebuilt(t)) BY <1>2, RebuiltFlags
<1> QED BY <1>1, <1>2, <1>3 DEF Flags

LEMMA DiscardEffects ==
  ASSUME NEW s, Tracked(s), NEW e, e.scope # "local", e.kind = "discard"
  PROVE Tracked(Apply(s, e)) /\ Apply(s, e).searchPath = DefaultPath
<1> DEFINE t == ApplyDiscard(s)
<1>1. Apply(s, e) = t BY DEF Apply
<1>2. Tracked(t) BY DEF Tracked, ApplyDiscard
<1>3. t.searchPath = DefaultPath BY DEF Tracked, ApplyDiscard
<1> HIDE DEF t
<1> QED BY <1>1, <1>2, <1>3

-----------------------------------------------------------------------------
(* What the server does is what the effect reports, or less. *)

Reports(e, v, w) ==
  \/ Quiet(e) /\ w.path = v.path /\ w.user \in {v.user, Login} /\ w.role \in {v.role, Null}
  \/ /\ e.scope # "local" /\ e.kind = "set" /\ e.key = "search_path" /\ e.raw # Null
     /\ w.path = e.raw /\ w.user = v.user /\ w.role = v.role
  \/ /\ e.scope # "local" /\ e.kind = "role"
     /\ w.path = v.path /\ w.user = v.user
  \/ /\ e.scope # "local" /\ e.kind = "auth"
     /\ w.path = v.path /\ w.role = Null
  \/ /\ e.scope # "local" /\ e.kind = "reset"
     /\ e.key \in {"search_path", "role", "session_authorization"}
     /\ w.path = IF e.key = "search_path" THEN DefaultPath ELSE v.path
     /\ w.user = IF e.key = "session_authorization" THEN Login ELSE v.user
     /\ w.role = IF e.key = "search_path" THEN v.role ELSE Null
  \/ e.scope # "local" /\ e.kind = "discard" /\ w = NewServer

LEMMA ReportSound ==
  ASSUME NEW s, Tracked(s), NEW e, NEW v, NEW w, Reports(e, v, w)
  PROVE Tracked(Apply(s, e)) /\ (Sound(s, v) => Sound(Apply(s, e), w))
<1> DEFINE t == Apply(s, e)
<1>1. CASE Quiet(e) /\ w.path = v.path /\ w.user \in {v.user, Login} /\ w.role \in {v.role, Null}
  <2>1. Flags(s, t) BY <1>1, QuietFlags
  <2> HIDE DEF t
  <2>2. Tracked(t) /\ (Sound(s, v) => Sound(t, w)) BY <1>1, <2>1 DEF Flags, Sound
  <2> QED BY <2>2 DEF t
<1>2. CASE /\ e.scope # "local" /\ e.kind = "set" /\ e.key = "search_path" /\ e.raw # Null
           /\ w.path = e.raw /\ w.user = v.user /\ w.role = v.role
  BY <1>2, PathEffect DEF Sound
<1>3. CASE /\ e.scope # "local" /\ e.kind = "role"
           /\ w.path = v.path /\ w.user = v.user
  BY <1>3, RoleEffect DEF Sound
<1>4. CASE /\ e.scope # "local" /\ e.kind = "auth"
           /\ w.path = v.path /\ w.role = Null
  BY <1>4, AuthEffect DEF Sound
<1>5. CASE /\ e.scope # "local" /\ e.kind = "reset"
           /\ e.key \in {"search_path", "role", "session_authorization"}
           /\ w.path = IF e.key = "search_path" THEN DefaultPath ELSE v.path
           /\ w.user = IF e.key = "session_authorization" THEN Login ELSE v.user
           /\ w.role = IF e.key = "search_path" THEN v.role ELSE Null
  <2>0. Tracked(t) BY <1>5, ResetEffects
  <2>1. CASE e.key = "search_path"
    <3>1. /\ t.searchPath = DefaultPath
          /\ t.authSwitched = s.authSwitched
          /\ t.roleSwitched = s.roleSwitched
      BY <1>5, <2>1, ResetEffects
    <3>2. w.path = DefaultPath /\ w.user = v.user /\ w.role = v.role BY <1>5, <2>1
    <3> HIDE DEF t
    <3>3. Sound(s, v) => Sound(t, w) BY <3>1, <3>2 DEF Sound
    <3> QED BY <2>0, <3>3 DEF t
  <2>2. CASE e.key = "role"
    <3>1. t.searchPath = s.searchPath /\ t.authSwitched = s.authSwitched
      BY <1>5, <2>2, ResetEffects
    <3>2. w.path = v.path /\ w.user = v.user /\ w.role = Null BY <1>5, <2>2
    <3> HIDE DEF t
    <3>3. Sound(s, v) => Sound(t, w) BY <3>1, <3>2 DEF Sound
    <3> QED BY <2>0, <3>3 DEF t
  <2>3. CASE e.key = "session_authorization"
    <3>1. t.searchPath = s.searchPath BY <1>5, <2>3, ResetEffects
    <3>2. w.path = v.path /\ w.user = Login /\ w.role = Null BY <1>5, <2>3
    <3> HIDE DEF t
    <3>3. Sound(s, v) => Sound(t, w) BY <3>1, <3>2 DEF Sound
    <3> QED BY <2>0, <3>3 DEF t
  <2> QED BY <1>5, <2>1, <2>2, <2>3
<1>6. CASE e.scope # "local" /\ e.kind = "discard" /\ w = NewServer
  BY <1>6, DiscardEffects DEF Sound, NewServer
<1> QED BY <1>1, <1>2, <1>3, <1>4, <1>5, <1>6 DEF Reports

-----------------------------------------------------------------------------
(* Each form of statement that Postgres accepts is reported. *)

Reported(s, v, w) == \E e : Classify(s) = <<e>> /\ Reports(e, v, w) /\ w \in Servers

\* What an item of a SET does to the server, by the key it names.
LEMMA ServerSetFields ==
  ASSUME NEW v \in Servers, NEW key, NEW raw \in Raws
  PROVE LET w == ServerSet(v, key, raw)
        IN  /\ w \in Servers
            /\ w.path = IF Canonical(key) # "search_path" THEN v.path
                        ELSE IF Keyword(raw, {"default"}) THEN DefaultPath ELSE raw
            /\ w.user = IF Canonical(key) # "session_authorization" THEN v.user
                        ELSE IF Keyword(raw, {"default"}) THEN Login ELSE raw.text
            /\ w.role = IF Canonical(key) = "session_authorization" THEN Null
                        ELSE IF Canonical(key) # "role" THEN v.role
                        ELSE IF Keyword(raw, Sentinels) THEN Null ELSE raw.text
<1> DEFINE w == ServerSet(v, key, raw)
<1>1. raw.text \in Texts BY DEF Raws
<1>2. CASE Canonical(key) = "search_path"
  <2>1. w = [v EXCEPT !.path = IF Keyword(raw, {"default"}) THEN DefaultPath ELSE raw]
    BY <1>2 DEF ServerSet
  <2> QED BY <1>2, <2>1 DEF Servers
<1>3. CASE Canonical(key) = "role"
  <2>1. w = [v EXCEPT !.role = IF Keyword(raw, Sentinels) THEN Null ELSE raw.text]
    BY <1>3 DEF ServerSet
  <2> QED BY <1>1, <1>3, <2>1 DEF Servers
<1>4. CASE Canonical(key) = "session_authorization"
  <2>1. w = [v EXCEPT !.user = IF Keyword(raw, {"default"}) THEN Login ELSE raw.text, !.role = Null]
    BY <1>4 DEF ServerSet
  <2> QED BY <1>1, <1>4, <2>1 DEF Servers
<1>5. CASE Canonical(key) \notin {"search_path", "role", "session_authorization"}
  <2>1. w = v BY <1>5 DEF ServerSet
  <2> QED BY <1>5, <2>1
<1> QED BY <1>2, <1>3, <1>4, <1>5

LEMMA SetReported ==
  ASSUME NEW s \in Sets, s.form = "set", Accepted(s), Unambiguous(s), NEW v \in Servers,
         NEW w \in ServerMay(v, s)
  PROVE Reported(s, v, w)
<1>1. Len(s.items) = 1 BY DEF Accepted
<1>2. PICK item \in Items : s.items = <<item>> BY <1>1 DEF Sets, Short
<1> DEFINE e == ItemEffect(item)
           key == Canonical(item.key)
<1>3. Classify(s) = <<e>>
  <2>1. Classify(s) = [i \in DOMAIN s.items |-> ItemEffect(s.items[i])] BY DEF Classify
  <2> QED BY <1>2, <2>1
<1>4. item.raw \in Raws /\ item.scope \in {"session", "local"} BY DEF Items
<1> DEFINE isReset == Resettable(key) /\ item.raw.text \in Sentinels
<1>5. /\ e.kind = IF isReset THEN "reset" ELSE KindOf(key)
      /\ e.scope = item.scope
      /\ e.key = key
      /\ e.raw = item.raw
  BY DEF ItemEffect, NoEffect
<1>k. /\ Resettable(key) <=> key \in {"search_path", "role", "session_authorization"}
      /\ KindOf(key) = IF key = "role" THEN "role"
                       ELSE IF key = "session_authorization" THEN "auth" ELSE "set"
  BY IsPostgres DEF Resettable, KindOf
<1>6. CASE item.scope = "local"
  <2>1. w = v BY <1>2, <1>6 DEF ServerMay
  <2>2. Quiet(e) BY <1>5, <1>6 DEF Quiet
  <2>3. Reports(e, v, w) BY <2>1, <2>2 DEF Reports
  <2> QED BY <1>3, <2>1, <2>3 DEF Reported
<1>7. CASE item.scope # "local"
  <2>1. w = ServerSet(v, item.key, item.raw) BY <1>2, <1>7 DEF ServerMay
  <2> HIDE DEF e, key
  <2>2. /\ w \in Servers
        /\ w.path = IF key # "search_path" THEN v.path
                    ELSE IF Keyword(item.raw, {"default"}) THEN DefaultPath ELSE item.raw
        /\ w.user = IF key # "session_authorization" THEN v.user
                    ELSE IF Keyword(item.raw, {"default"}) THEN Login ELSE item.raw.text
        /\ w.role = IF key = "session_authorization" THEN Null
                    ELSE IF key # "role" THEN v.role
                    ELSE IF Keyword(item.raw, Sentinels) THEN Null ELSE item.raw.text
    BY <2>1, <1>4, ServerSetFields DEF key
  <2>3. isReset => ~item.raw.quoted /\ (key = "role" \/ item.raw.text = "default")
    BY <1>2 DEF Unambiguous, key
  <2>4. Reports(e, v, w)
    <3>1. CASE key = "search_path"
      <4>1. CASE item.raw.text \in Sentinels
        <5>1. Keyword(item.raw, {"default"}) BY <1>k, <2>3, <3>1, <4>1 DEF Keyword
        <5>2. e.kind = "reset" BY <1>5, <1>k, <3>1, <4>1
        <5> QED BY <1>5, <1>7, <2>2, <3>1, <5>1, <5>2 DEF Reports
      <4>2. CASE item.raw.text \notin Sentinels
        <5>1. ~Keyword(item.raw, {"default"}) BY <4>2 DEF Keyword, Sentinels
        <5>2. e.kind = "set" BY <1>5, <1>k, <3>1, <4>2
        <5>3. item.raw # Null BY <1>4, NullAssumption
        <5> QED BY <1>5, <1>7, <2>2, <3>1, <5>1, <5>2, <5>3 DEF Reports
      <4> QED BY <4>1, <4>2
    <3>2. CASE key = "role"
      <4>1. CASE item.raw.text \in Sentinels
        <5>1. Keyword(item.raw, Sentinels) BY <1>k, <2>3, <3>2, <4>1 DEF Keyword
        <5>2. e.kind = "reset" BY <1>5, <1>k, <3>2, <4>1
        <5> QED BY <1>5, <1>7, <2>2, <3>2, <5>1, <5>2 DEF Reports
      <4>2. CASE item.raw.text \notin Sentinels
        <5>1. e.kind = "role" BY <1>5, <1>k, <3>2, <4>2
        <5> QED BY <1>5, <1>7, <2>2, <3>2, <5>1 DEF Reports
      <4> QED BY <4>1, <4>2
    <3>3. CASE key = "session_authorization"
      <4>1. CASE item.raw.text \in Sentinels
        <5>1. Keyword(item.raw, {"default"}) BY <1>k, <2>3, <3>3, <4>1 DEF Keyword
        <5>2. e.kind = "reset" BY <1>5, <1>k, <3>3, <4>1
        <5> QED BY <1>5, <1>7, <2>2, <3>3, <5>1, <5>2 DEF Reports
      <4>2. CASE item.raw.text \notin Sentinels
        <5>1. e.kind = "auth" BY <1>5, <1>k, <3>3, <4>2
        <5> QED BY <1>5, <1>7, <2>2, <3>3, <5>1 DEF Reports
      <4> QED BY <4>1, <4>2
    <3>4. CASE key \notin {"search_path", "role", "session_authorization"}
      <4>1. Quiet(e) BY <1>5, <1>k, <3>4 DEF Quiet
      <4>2. w.path = v.path /\ w.user = v.user /\ w.role = v.role BY <2>2, <3>4
      <4> QED BY <4>1, <4>2 DEF Reports
    <3> QED BY <3>1, <3>2, <3>3, <3>4
  <2> QED BY <1>3, <2>2, <2>4 DEF Reported
<1> QED BY <1>6, <1>7

LEMMA CanonicalSpecial ==
  ASSUME NEW k \in {"search_path", "role", "session_authorization"}
  PROVE Canonical(k) = k
<1>1. k \in SpecialKeys \ {"all"} /\ Lower[k] = k BY KeysAssumption DEF SpecialKeys
<1>2. Lower[k] # "schema" BY <1>1
<1> QED BY <1>1, <1>2, IsPostgres DEF Canonical

LEMMA CommandReported ==
  ASSUME NEW s \in Commands, Accepted(s), Unambiguous(s), NEW v \in Servers,
         NEW w \in ServerMay(v, s)
  PROVE Reported(s, v, w)
<1> DEFINE e == CommandEffect(s)
<1>0. /\ s.form = "command" /\ s.raw \in Raws
      /\ s.key \in {"search_path", "role", "session_authorization"}
  BY DEF Commands
<1>1. Classify(s) = <<e>> BY <1>0 DEF Classify
<1> DEFINE isReset == s.key # "search_path" /\ s.raw.text \in Sentinels /\ ~s.raw.quoted
<1>2. /\ e.kind = IF isReset THEN "reset" ELSE KindOf(s.key)
      /\ e.scope = s.scope
      /\ e.key = s.key
      /\ e.raw = s.raw
  BY IsPostgres DEF CommandEffect, NoEffect
<1>3. KindOf(s.key) = IF s.key = "role" THEN "role"
                      ELSE IF s.key = "session_authorization" THEN "auth" ELSE "set"
  BY IsPostgres DEF KindOf
<1>4. CASE s.scope = "local"
  <2>1. w = v BY <1>0, <1>4 DEF ServerMay
  <2>2. Quiet(e) BY <1>2, <1>4 DEF Quiet
  <2>3. Reports(e, v, w) BY <2>1, <2>2 DEF Reports
  <2> QED BY <1>1, <2>1, <2>3 DEF Reported
<1>5. CASE s.scope # "local"
  <2>1. w = ServerSet(v, s.key, s.raw) BY <1>0, <1>5 DEF ServerMay
  <2> HIDE DEF e
  <2>2. Canonical(s.key) = s.key BY <1>0, CanonicalSpecial
  <2>3. /\ w \in Servers
        /\ w.path = IF s.key # "search_path" THEN v.path
                    ELSE IF Keyword(s.raw, {"default"}) THEN DefaultPath ELSE s.raw
        /\ w.user = IF s.key # "session_authorization" THEN v.user
                    ELSE IF Keyword(s.raw, {"default"}) THEN Login ELSE s.raw.text
        /\ w.role = IF s.key = "session_authorization" THEN Null
                    ELSE IF s.key # "role" THEN v.role
                    ELSE IF Keyword(s.raw, Sentinels) THEN Null ELSE s.raw.text
    BY <2>1, <2>2, <1>0, ServerSetFields
  <2>4. Reports(e, v, w)
    <3>1. CASE s.key = "search_path"
      <4>1. ~Keyword(s.raw, {"default"}) BY <1>0, <3>1 DEF Unambiguous, Keyword
      <4>2. e.kind = "set" BY <1>2, <1>3, <3>1
      <4>3. s.raw # Null BY <1>0, NullAssumption
      <4> QED BY <1>2, <1>5, <2>3, <3>1, <4>1, <4>2, <4>3 DEF Reports
    <3>2. CASE s.key = "role"
      <4>1. CASE isReset
        <5>1. Keyword(s.raw, Sentinels) BY <4>1 DEF Keyword
        <5>2. e.kind = "reset" BY <1>2, <4>1
        <5> QED BY <1>2, <1>5, <2>3, <3>2, <5>1, <5>2 DEF Reports
      <4>2. CASE ~isReset
        <5>1. e.kind = "role" BY <1>2, <1>3, <3>2, <4>2
        <5> QED BY <1>2, <1>5, <2>3, <3>2, <5>1 DEF Reports
      <4> QED BY <4>1, <4>2
    <3>3. CASE s.key = "session_authorization"
      <4>1. CASE isReset
        <5>0. s.raw.text # "none" BY <1>0, <3>3 DEF Accepted
        <5>1. Keyword(s.raw, {"default"}) BY <4>1, <5>0 DEF Keyword, Sentinels
        <5>2. e.kind = "reset" BY <1>2, <4>1
        <5> QED BY <1>2, <1>5, <2>3, <3>3, <5>1, <5>2 DEF Reports
      <4>2. CASE ~isReset
        <5>1. e.kind = "auth" BY <1>2, <1>3, <3>3, <4>2
        <5> QED BY <1>2, <1>5, <2>3, <3>3, <5>1 DEF Reports
      <4> QED BY <4>1, <4>2
    <3> QED BY <1>0, <3>1, <3>2, <3>3
  <2> QED BY <1>1, <2>3, <2>4 DEF Reported
<1> QED BY <1>4, <1>5

LEMMA ResetReported ==
  ASSUME NEW s \in Resets, NEW v \in Servers, NEW w \in ServerMay(v, s)
  PROVE Reported(s, v, w)
<1> DEFINE e == ResetEffect(s.key)
           k == s.key
<1>0. s.form = "reset" /\ k \in Keys BY DEF Resets
<1>1. Classify(s) = <<e>> BY <1>0 DEF Classify
<1>2. /\ e.kind = "reset"
      /\ e.scope = "session"
      /\ e.key = IF Lower[k] = "all" THEN "search_path"
                 ELSE IF Lower[k] \in {"role", "search_path"} THEN Lower[k] ELSE k
  BY IsPostgres DEF ResetEffect, NoEffect
<1>3. w = ServerReset(v, k) BY <1>0 DEF ServerMay
<1>4. k \in {"all", "search_path", "role", "session_authorization"} => Lower[k] = k
  BY KeysAssumption DEF SpecialKeys
<1> HIDE DEF e, k
<1>5. CASE Lower[k] \in {"all", "search_path"}
  <2>1. w = [v EXCEPT !.path = DefaultPath] BY <1>3, <1>5 DEF ServerReset
  <2>2. w \in Servers /\ w.path = DefaultPath /\ w.user = v.user /\ w.role = v.role
    BY <2>1 DEF Servers
  <2>3. e.key = "search_path" BY <1>2, <1>5
  <2>4. Reports(e, v, w) BY <1>2, <2>2, <2>3 DEF Reports
  <2> QED BY <1>1, <2>2, <2>4 DEF Reported
<1>6. CASE Lower[k] = "role"
  <2>1. w = [v EXCEPT !.role = Null] BY <1>3, <1>6 DEF ServerReset
  <2>2. w \in Servers /\ w.path = v.path /\ w.user = v.user /\ w.role = Null
    BY <2>1 DEF Servers
  <2>3. e.key = "role" BY <1>2, <1>6
  <2>4. Reports(e, v, w) BY <1>2, <2>2, <2>3 DEF Reports
  <2> QED BY <1>1, <2>2, <2>4 DEF Reported
<1>7. CASE Lower[k] = "session_authorization"
  <2>1. w = [v EXCEPT !.user = Login, !.role = Null] BY <1>3, <1>7 DEF ServerReset
  <2>2. w \in Servers /\ w.path = v.path /\ w.user = Login /\ w.role = Null
    BY <2>1 DEF Servers
  <2>3. e.key = k BY <1>2, <1>7
  <2>4. Reports(e, v, w)
    <3>1. CASE k = "session_authorization" BY <1>2, <2>2, <2>3, <3>1 DEF Reports
    <3>2. CASE k # "session_authorization"
      <4>1. k \notin {"search_path", "role", "session_authorization"} BY <1>4, <1>7, <3>2
      <4>2. Quiet(e) BY <1>2, <2>3, <4>1 DEF Quiet
      <4> QED BY <2>2, <4>2 DEF Reports
    <3> QED BY <3>1, <3>2
  <2> QED BY <1>1, <2>2, <2>4 DEF Reported
<1>8. CASE Lower[k] \notin {"all", "search_path", "role", "session_authorization"}
  <2>1. w = v BY <1>3, <1>8 DEF ServerReset
  <2>2. e.key = k BY <1>2, <1>8
  <2>3. k \notin {"search_path", "role", "session_authorization"} BY <1>4, <1>8
  <2>4. Quiet(e) BY <1>2, <2>2, <2>3 DEF Quiet
  <2>5. Reports(e, v, w) BY <2>1, <2>4 DEF Reports
  <2> QED BY <1>1, <2>1, <2>5 DEF Reported
<1> QED BY <1>5, <1>6, <1>7, <1>8

LEMMA PlainReported ==
  ASSUME NEW s \in Plain, s.form # "opaque", NEW v \in Servers, NEW w \in ServerMay(v, s)
  PROVE Reported(s, v, w)
<1>1. CASE s.form = "discard"
  <2> DEFINE e == DiscardEffect
  <2>1. Classify(s) = <<e>> BY <1>1 DEF Classify
  <2>2. e.kind = "discard" /\ e.scope = "session" BY IsPostgres DEF DiscardEffect, NoEffect
  <2>3. w = NewServer BY <1>1 DEF ServerMay
  <2> HIDE DEF e
  <2>4. Reports(e, v, w) BY <2>2, <2>3 DEF Reports
  <2>5. w \in Servers BY <2>3 DEF Servers, NewServer
  <2> QED BY <2>1, <2>4, <2>5 DEF Reported
<1>2. CASE s.form = "other"
  <2>1. Classify(s) = <<NoEffect>> BY <1>2 DEF Classify
  <2>2. w = v BY <1>2 DEF ServerMay
  <2>3. Quiet(NoEffect) BY DEF Quiet, NoEffect
  <2>4. Reports(NoEffect, v, w) BY <2>2, <2>3 DEF Reports
  <2> QED BY <2>1, <2>2, <2>4 DEF Reported
<1> QED BY <1>1, <1>2 DEF Plain

-----------------------------------------------------------------------------
(* The invariant. *)

LEMMA TrustStart == TrustInit => TrustInv
<1> SUFFICES ASSUME TrustInit PROVE TrustInv OBVIOUS
<1>1. Tracked(session) BY DEF TrustInit, Init, NewSession, Tracked
<1>2. server \in Servers BY DEF TrustInit, Servers, NewServer
<1>3. Sound(session, server) BY DEF TrustInit, Init, NewSession, NewServer, Sound
<1> QED BY <1>1, <1>2, <1>3 DEF TrustInv

LEMMA Singleton == ASSUME NEW s, NEW e PROVE Applied(s, <<e>>) = Apply(s, e)
BY DEF Applied

LEMMA RunKeepsTrust ==
  ASSUME TrustInv, NEW s \in Statements, Unambiguous(s), Run(s)
  PROVE TrustInv'
<1>0. /\ Accepted(s) /\ session' = Applied(session, Classify(s))
      /\ server' \in ServerMay(server, s)
      /\ blind' = (blind \/ s.form = "opaque")
  BY DEF Run, Execute
<1>1. s \in Sets \cup Commands \cup Resets \cup Plain
  <2>1. s \in AllStatements BY StatementsAssumption
  <2>2. s \notin Uses \cup Unsets \cup Declares BY <1>0 DEF Accepted, Uses, Unsets, Declares
  <2> QED BY <2>1, <2>2 DEF AllStatements
<1>2. CASE s.form = "opaque"
  <2> DEFINE e == [NoEffect EXCEPT !.kind = "unknown"]
  <2>1. Classify(s) = <<e>> BY <1>2 DEF Classify
  <2>2. Quiet(e) BY DEF Quiet, NoEffect
  <2> HIDE DEF e
  <2>3. session' = Apply(session, e) BY <1>0, <2>1, Singleton
  <2>4. Tracked(session') BY <2>2, <2>3, QuietFlags DEF Flags, TrustInv
  <2>5. PICK p \in Raws \cup {DefaultPath} : server' = [server EXCEPT !.path = p]
    BY <1>0, <1>2 DEF ServerMay
  <2>6. server' \in Servers BY <2>5 DEF TrustInv, Servers
  <2>7. blind' BY <1>0, <1>2
  <2> QED BY <2>4, <2>6, <2>7 DEF TrustInv
<1>3. CASE s.form # "opaque"
  <2>0. server \in Servers BY DEF TrustInv
  <2>1. Reported(s, server, server')
    <3>1. CASE s \in Sets
      <4>1. s.form = "set" BY <1>0, <3>1 DEF Sets, Accepted
      <4> QED BY <1>0, <2>0, <3>1, <4>1, SetReported
    <3>2. CASE s \in Commands BY <1>0, <2>0, <3>2, CommandReported
    <3>3. CASE s \in Resets BY <1>0, <2>0, <3>3, ResetReported
    <3>4. CASE s \in Plain BY <1>0, <1>3, <2>0, <3>4, PlainReported
    <3> QED BY <1>1, <3>1, <3>2, <3>3, <3>4
  <2>2. PICK e : Classify(s) = <<e>> /\ Reports(e, server, server') BY <2>1 DEF Reported
  <2>3. session' = Apply(session, e) BY <1>0, <2>2, Singleton
  <2>4. Tracked(session) BY DEF TrustInv
  <2>5. /\ Tracked(session')
        /\ Sound(session, server) => Sound(session', server')
    BY <2>2, <2>3, <2>4, ReportSound
  <2>6. server' \in Servers BY <2>1 DEF Reported
  <2>7. ~blind' => ~blind BY <1>0
  <2>8. ~blind => Sound(session, server) BY DEF TrustInv
  <2> QED BY <2>5, <2>6, <2>7, <2>8 DEF TrustInv
<1> QED BY <1>2, <1>3

LEMMA TrustFollows == TrustInv => PathTrusted
<1> SUFFICES ASSUME TrustInv, ~blind, EffectiveSearchPath(session) # Null
             PROVE /\ EffectiveSearchPath(session) = server.path
                   /\ UserDependent(EffectiveSearchPath(session)) => CurrentUser(server) = Login
  BY DEF PathTrusted
<1>1. Sound(session, server) BY DEF TrustInv
<1> DEFINE userMoved == session.roleSwitched \/ session.authSwitched
           dependent == session.searchPath = DefaultPath \/ session.searchPath.text \in UserTexts
<1>2. EffectiveSearchPath(session) = session.searchPath /\ ~(userMoved /\ dependent)
  BY DEF EffectiveSearchPath
<1>3. EffectiveSearchPath(session) = server.path BY <1>1, <1>2 DEF Sound
<1>4. ASSUME UserDependent(session.searchPath) PROVE CurrentUser(server) = Login
  <2>1. ~userMoved BY <1>2, <1>4 DEF UserDependent
  <2>2. server.user = Login /\ server.role = Null BY <1>1, <2>1 DEF Sound
  <2> QED BY <2>2 DEF CurrentUser
<1> QED BY <1>2, <1>3, <1>4

\* The label of effectiveSearchPath() is the server's path, and a label that
\* depends on the current user is handed out only for the login user, whatever
\* the client sends, as long as a quoted name never spells a reset keyword.
THEOREM LabelTrusted ==
  ASSUME \A s \in Statements : Unambiguous(s)
  PROVE  TrustSpec => []PathTrusted
<1>1. TrustInit => TrustInv BY TrustStart
<1>2. TrustInv /\ [TrustNext]_vars => TrustInv'
  <2> SUFFICES ASSUME TrustInv, [TrustNext]_vars PROVE TrustInv' OBVIOUS
  <2>1. CASE TrustNext
    <3>1. PICK s \in Statements : Run(s) BY <2>1 DEF TrustNext
    <3> QED BY <3>1, RunKeepsTrust
  <2>2. CASE UNCHANGED vars
    BY <2>2 DEF vars, TrustInv, Tracked, Sound
  <2> QED BY <2>1, <2>2
<1>3. TrustInv => PathTrusted BY TrustFollows
<1> QED BY <1>1, <1>2, <1>3, PTL DEF TrustSpec
=============================================================================
