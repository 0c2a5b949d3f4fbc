------------------------- MODULE SessionStateProofs -------------------------
(***************************************************************************)
(* Proofs about SessionState and SessionReplay, for every family, key table *)
(* and set of statements: the type invariant, that the replay log lags      *)
(* behind the tracked state in its role alone, that the rendered log reads  *)
(* back to the state it was rendered from, and that it restores the settings *)
(* of the server.                                                           *)
(***************************************************************************)
EXTENDS SessionReplay, SequenceTheorems, NaturalsInduction, WellFoundedInduction, TLAPS

\* An effect that assigns a variable names one.
EffectOK(e) == e \in Effects /\ (e.kind \in {"set", "variable"} => e.key \in Keys)

\* The table of every family maps a spelling to a key.
LEMMA CanonicalIsKey ==
  ASSUME NEW k \in Keys PROVE Canonical(k) \in Keys
BY KeysAssumption DEF Canonical, SpecialKeys

LEMMA ItemEffectOK ==
  ASSUME NEW item \in Items PROVE EffectOK(ItemEffect(item))
<1>1. Canonical(item.key) \in Keys BY CanonicalIsKey DEF Items
<1>2. KindOf(Canonical(item.key)) \in {"set", "role", "auth"} BY DEF KindOf
<1> QED BY <1>1, <1>2 DEF EffectOK, Effects, ItemEffect, NoEffect, Items, Raws

LEMMA UnsetEffectOK ==
  ASSUME NEW k \in Keys PROVE EffectOK(UnsetEffect(k))
BY CanonicalIsKey DEF EffectOK, Effects, UnsetEffect, NoEffect

\* An effect that is built from another one.
LEMMA PartsEffectOK ==
  ASSUME NEW kind \in {"use", "role"},
         NEW key \in Keys \cup {"catalog", "schema", "warehouse", "namespace", Null},
         NEW value \in Texts, NEW parts \in [catalog: Texts, schema: Texts] \cup {Null}
  PROVE EffectOK([NoEffect EXCEPT !.kind = kind, !.key = key, !.value = value, !.parts = parts])
BY DEF EffectOK, Effects, NoEffect

LEMMA RawEffectOK ==
  ASSUME NEW kind \in {"set", "reset", "role", "auth"}, NEW scope \in {"session", "local"},
         NEW key \in Keys, NEW value \in Texts, NEW raw \in Raws
  PROVE EffectOK([NoEffect EXCEPT !.kind = kind, !.scope = scope, !.key = key,
                                  !.value = value, !.raw = raw])
BY DEF EffectOK, Effects, NoEffect

LEMMA UseEffectOK ==
  ASSUME NEW s \in Uses PROVE EffectOK(UseEffect(s))
<1> DEFINE key == IF s.kind # "plain" THEN UseKey(s.kind)
                  ELSE IF s.db # Null THEN "namespace" ELSE "schema"
<1>1. key \in {"catalog", "schema", "role", "warehouse", "namespace"}
  BY DEF Uses, UseKey
<1>2. "role" \in Keys BY KeysAssumption DEF SpecialKeys
<1> DEFINE parts == IF key \in {"schema", "namespace"} /\ s.db # Null
                    THEN [catalog |-> s.db, schema |-> s.name] ELSE Null
<1>3. parts \in [catalog: Texts, schema: Texts] \cup {Null}
  BY DEF Uses
<1>4. UseEffect(s) = [NoEffect EXCEPT !.kind = IF key = "role" THEN "role" ELSE "use",
                                     !.key = key, !.value = s.name, !.parts = parts]
  BY DEF UseEffect
<1>5. s.name \in Texts BY DEF Uses
<1> DEFINE kind == IF key = "role" THEN "role" ELSE "use"
<1>k. kind \in {"use", "role"} OBVIOUS
<1>e. UseEffect(s) = [NoEffect EXCEPT !.kind = kind, !.key = key, !.value = s.name, !.parts = parts]
  BY <1>4
<1> HIDE DEF key, parts, kind
<1>6. key \in Keys \cup {"catalog", "schema", "warehouse", "namespace", Null} BY <1>1, <1>2
<1>7. EffectOK([NoEffect EXCEPT !.kind = kind, !.key = key, !.value = s.name, !.parts = parts])
  BY <1>k, <1>3, <1>5, <1>6, PartsEffectOK
<1> QED BY <1>e, <1>7

LEMMA OtherEffectsOK ==
  /\ \A k \in Keys : EffectOK(ResetEffect(k))
  /\ \A s \in Commands : EffectOK(CommandEffect(s))
  /\ \A s \in Declares : EffectOK(DeclareEffect(s))
  /\ EffectOK(DiscardEffect)
  /\ EffectOK(NoEffect)
  /\ EffectOK([NoEffect EXCEPT !.kind = "unknown"])
<1>1. \A k \in Keys : EffectOK(ResetEffect(k))
  <2> SUFFICES ASSUME NEW k \in Keys PROVE EffectOK(ResetEffect(k)) OBVIOUS
  <2>1. CASE Family = "postgres"
    <3> DEFINE key == IF Lower[k] = "all" THEN "search_path"
                      ELSE IF Lower[k] \in {"role", "search_path"} THEN Lower[k] ELSE k
    <3>1. key \in Keys BY KeysAssumption DEF SpecialKeys
    <3>2. ResetEffect(k) = [NoEffect EXCEPT !.kind = "reset", !.key = key]
      BY <2>1 DEF ResetEffect
    <3> HIDE DEF key
    <3> QED BY <3>1, <3>2 DEF EffectOK, Effects, NoEffect
  <2>2. CASE Family = "databricks" /\ k = "all"
    BY <2>2 DEF EffectOK, Effects, ResetEffect, NoEffect
  <2>3. CASE Family # "postgres" /\ ~(Family = "databricks" /\ k = "all")
    BY <2>3 DEF EffectOK, Effects, ResetEffect, NoEffect
  <2> QED BY <2>1, <2>2, <2>3
<1>2. \A s \in Commands : EffectOK(CommandEffect(s))
  <2> SUFFICES ASSUME NEW s \in Commands PROVE EffectOK(CommandEffect(s)) OBVIOUS
  <2>1. CASE Family # "postgres"
    BY <2>1 DEF EffectOK, Effects, CommandEffect, NoEffect
  <2>2. CASE Family = "postgres"
    <3> DEFINE kind == IF s.key # "search_path" /\ s.raw.text \in Sentinels /\ ~s.raw.quoted
                       THEN "reset" ELSE KindOf(s.key)
    <3>1. kind \in {"set", "reset", "role", "auth"} BY DEF KindOf
    <3>2. CommandEffect(s) = [NoEffect EXCEPT !.kind = kind, !.scope = s.scope, !.key = s.key,
                                              !.value = s.raw.text, !.raw = s.raw]
      BY <2>2 DEF CommandEffect
    <3>3. s.key \in Keys BY KeysAssumption DEF SpecialKeys, Commands
    <3>4. s.raw \in Raws /\ s.raw.text \in Texts /\ s.scope \in {"session", "local"}
      BY DEF Commands, Raws
    <3> HIDE DEF kind
    <3>5. EffectOK([NoEffect EXCEPT !.kind = kind, !.scope = s.scope, !.key = s.key,
                                    !.value = s.raw.text, !.raw = s.raw])
      BY <3>1, <3>3, <3>4, RawEffectOK
    <3> QED BY <3>2, <3>5
  <2> QED BY <2>1, <2>2
<1>3. \A s \in Declares : EffectOK(DeclareEffect(s))
  BY DEF EffectOK, Effects, DeclareEffect, NoEffect, Declares, Raws
<1>4. EffectOK(DiscardEffect)
  BY KeysAssumption DEF EffectOK, Effects, DiscardEffect, NoEffect, SpecialKeys
<1>5. EffectOK(NoEffect) /\ EffectOK([NoEffect EXCEPT !.kind = "unknown"])
  BY DEF EffectOK, Effects, NoEffect
<1> QED BY <1>1, <1>2, <1>3, <1>4, <1>5

-----------------------------------------------------------------------------
\* A statement has one effect or two.
ShortOf(S, es) == \/ Len(es) = 1 /\ es[1] \in S
                  \/ Len(es) = 2 /\ es[1] \in S /\ es[2] \in S

GoodEffects == {e \in Effects : EffectOK(e)}

\* Mapping a short sequence.
LEMMA ShortMap ==
  ASSUME NEW S, NEW items \in Short(S), NEW es, es = [i \in DOMAIN items |-> es[i]],
         \A i \in DOMAIN items : items[i] \in S => EffectOK(es[i])
  PROVE ShortOf(GoodEffects, es)
<1>1. CASE \E x \in S : items = <<x>>
  <2> PICK x \in S : items = <<x>> BY <1>1
  <2>1. DOMAIN items = 1..1 /\ items[1] = x OBVIOUS
  <2>2. es = [i \in 1..1 |-> es[i]] BY <2>1
  <2>3. Len(es) = 1 BY <2>2
  <2>4. EffectOK(es[1]) BY <2>1
  <2> QED BY <2>3, <2>4 DEF ShortOf, GoodEffects, EffectOK
<1>2. CASE \E x, y \in S : items = <<x, y>>
  <2> PICK x \in S, y \in S : items = <<x, y>> BY <1>2
  <2>1. DOMAIN items = 1..2 /\ items[1] = x /\ items[2] = y OBVIOUS
  <2>2. es = [i \in 1..2 |-> es[i]] BY <2>1
  <2>3. Len(es) = 2 BY <2>2
  <2>4. EffectOK(es[1]) /\ EffectOK(es[2]) BY <2>1
  <2> QED BY <2>3, <2>4 DEF ShortOf, GoodEffects, EffectOK
<1> QED BY <1>1, <1>2 DEF Short

LEMMA SingleEffect ==
  ASSUME NEW e, EffectOK(e) PROVE ShortOf(GoodEffects, <<e>>)
BY DEF ShortOf, GoodEffects, EffectOK

\* classify() answers one effect or two, each of the shape makeEffect gives it.
LEMMA ClassifyOK ==
  ASSUME NEW s \in Statements PROVE ShortOf(GoodEffects, Classify(s))
<1>1. CASE s \in Uses
  <2>1. Classify(s) = <<UseEffect(s)>> BY <1>1 DEF Uses, Classify
  <2> QED BY <2>1, <1>1, UseEffectOK, SingleEffect
<1>2. CASE s \in Sets
  <2>1. Classify(s) = [i \in DOMAIN s.items |-> ItemEffect(s.items[i])]
    BY <1>2 DEF Sets, Classify
  <2>2. s.items \in Short(Items) BY <1>2 DEF Sets
  <2> DEFINE es == Classify(s)
  <2>3. \A i \in DOMAIN s.items : s.items[i] \in Items => EffectOK(es[i]) BY <2>1, ItemEffectOK
  <2>4. es = [i \in DOMAIN s.items |-> es[i]] BY <2>1
  <2> QED BY <2>2, <2>3, <2>4, ShortMap
<1>3. CASE s \in Unsets
  <2>1. Classify(s) = [i \in DOMAIN s.items |-> UnsetEffect(s.items[i])]
    BY <1>3 DEF Unsets, Classify
  <2>2. s.items \in Short(Keys) BY <1>3 DEF Unsets
  <2> DEFINE es == Classify(s)
  <2>3. \A i \in DOMAIN s.items : s.items[i] \in Keys => EffectOK(es[i]) BY <2>1, UnsetEffectOK
  <2>4. es = [i \in DOMAIN s.items |-> es[i]] BY <2>1
  <2> QED BY <2>2, <2>3, <2>4, ShortMap
<1>4. CASE s \in Resets
  <2>1. Classify(s) = <<ResetEffect(s.key)>> /\ s.key \in Keys BY <1>4 DEF Resets, Classify
  <2> QED BY <2>1, OtherEffectsOK, SingleEffect
<1>5. CASE s \in Commands
  <2>1. Classify(s) = <<CommandEffect(s)>> BY <1>5 DEF Commands, Classify
  <2> QED BY <2>1, <1>5, OtherEffectsOK, SingleEffect
<1>6. CASE s \in Declares
  <2>1. Classify(s) = <<DeclareEffect(s)>> BY <1>6 DEF Declares, Classify
  <2> QED BY <2>1, <1>6, OtherEffectsOK, SingleEffect
<1>7. CASE s \in Plain
  <2>1. s.form \in {"discard", "opaque", "other"} BY <1>7 DEF Plain
  <2>2. CASE s.form = "discard"
    <3>1. Classify(s) = <<DiscardEffect>> BY <2>2 DEF Classify
    <3> QED BY <3>1, OtherEffectsOK, SingleEffect
  <2>3. CASE s.form = "opaque"
    <3> DEFINE e == [NoEffect EXCEPT !.kind = "unknown"]
    <3>1. Classify(s) = <<e>> BY <2>3 DEF Classify
    <3>2. EffectOK(e) BY OtherEffectsOK
    <3> QED BY <3>1, <3>2, SingleEffect
  <2>4. CASE s.form = "other"
    <3>1. Classify(s) = <<NoEffect>> BY <2>4 DEF Classify
    <3> QED BY <3>1, OtherEffectsOK, SingleEffect
  <2> QED BY <2>1, <2>2, <2>3, <2>4
<1> QED BY <1>1, <1>2, <1>3, <1>4, <1>5, <1>6, <1>7, StatementsAssumption DEF AllStatements

-----------------------------------------------------------------------------
LEMMA LogTyped ==
  ASSUME NEW s \in Sessions PROVE Log(s) \in Seq(Entries)
<1>1. \A name \in Texts \cup {Null} :
        \A kind \in {"use_catalog", "use_schema", "use_warehouse", "use_role"} :
          One(kind, name) \in Seq(Entries)
  <2> SUFFICES ASSUME NEW name \in Texts \cup {Null},
                      NEW kind \in {"use_catalog", "use_schema", "use_warehouse", "use_role"}
               PROVE One(kind, name) \in Seq(Entries)
    OBVIOUS
  <2>1. CASE name = Null BY <2>1 DEF One
  <2>2. CASE name # Null
    <3> DEFINE entry == [kind |-> kind, name |-> name]
    <3>1. entry \in [kind: {"use_catalog", "use_schema", "use_warehouse", "use_role"}, name: Texts]
      BY <2>2
    <3>2. entry \in Entries BY <3>1 DEF Entries
    <3>3. One(kind, name) = <<entry>> BY <2>2 DEF One
    <3> HIDE DEF entry
    <3> QED BY <3>2, <3>3
  <2> QED BY <2>1, <2>2
<1>2. Namespace(s) \in Seq(Entries)
  <2>1. CASE s.catalog # Null /\ s.schema # Null
    <3>1. [kind |-> "use_namespace", catalog |-> s.catalog, schema |-> s.schema] \in Entries
      BY <2>1 DEF Entries, Sessions
    <3> QED BY <2>1, <3>1 DEF Namespace
  <2>2. CASE ~(s.catalog # Null /\ s.schema # Null)
    <3>1. One("use_catalog", s.catalog) \in Seq(Entries) /\ One("use_schema", s.schema) \in Seq(Entries)
      BY <1>1 DEF Sessions
    <3> QED BY <2>2, <3>1 DEF Namespace
  <2> QED BY <2>1, <2>2
<1>3. One("use_warehouse", s.warehouse) \in Seq(Entries) /\ One("use_role", s.role) \in Seq(Entries)
  BY <1>1 DEF Sessions
<1>4. Context(s) \in Seq(Entries)
  <2>1. CASE Family = "snowflake" BY <2>1, <1>2, <1>3 DEF Context
  <2>2. CASE Family # "snowflake" BY <2>2, <1>2, <1>3 DEF Context
  <2> QED BY <2>1, <2>2
<1> DEFINE sets == [i \in DOMAIN s.variables |-> SetEntry(s.variables[i])]
<1>5. sets \in Seq(Entries)
  <2>1. s.variables \in Seq(Variables) BY DEF Sessions
  <2>2. \A v \in Variables : SetEntry(v) \in Entries BY DEF Variables, SetEntry, Entries
  <2>3. \A i \in 1..Len(s.variables) : sets[i] \in Entries BY <2>1, <2>2
  <2>4. sets = [i \in 1..Len(s.variables) |-> sets[i]] BY <2>1
  <2> QED BY <2>1, <2>3, <2>4
<1> QED BY <1>4, <1>5 DEF Log

\* Rebuilding the log of a typed state gives a typed state.
LEMMA RebuiltTyped ==
  ASSUME NEW s \in Sessions PROVE Rebuilt(s) \in Sessions
BY LogTyped DEF Rebuilt, Sessions

LEMMA AssignedTyped ==
  ASSUME NEW vars \in Seq(Variables), NEW v \in Variables
  PROVE Assigned(vars, v) \in Seq(Variables)
<1>1. CASE Known(vars, v.key)
  <2> DEFINE new == [i \in DOMAIN vars |-> IF vars[i].key = v.key THEN v ELSE vars[i]]
  <2>1. \A i \in 1..Len(vars) : new[i] \in Variables OBVIOUS
  <2>2. new = [i \in 1..Len(vars) |-> new[i]] OBVIOUS
  <2>3. new \in Seq(Variables) BY <2>1, <2>2
  <2> QED BY <1>1, <2>3 DEF Assigned
<1>2. CASE ~Known(vars, v.key) BY <1>2 DEF Assigned
<1> QED BY <1>1, <1>2

LEMMA DeletedTyped ==
  ASSUME NEW vars \in Seq(Variables), NEW k PROVE Deleted(vars, k) \in Seq(Variables)
<1>1. CASE Known(vars, k)
  <2> DEFINE at == CHOOSE i \in DOMAIN vars : vars[i].key = k
  <2>1. at \in 1..Len(vars) BY <1>1 DEF Known
  <2> HIDE DEF at
  <2>2. SubSeq(vars, 1, at - 1) \in Seq(Variables) BY <2>1
  <2>3. SubSeq(vars, at + 1, Len(vars)) \in Seq(Variables) BY <2>1
  <2>4. Deleted(vars, k) = SubSeq(vars, 1, at - 1) \o SubSeq(vars, at + 1, Len(vars))
    BY <1>1 DEF Deleted, at
  <2> QED BY <2>2, <2>3, <2>4
<1>2. CASE ~Known(vars, k) BY <1>2 DEF Deleted
<1> QED BY <1>1, <1>2

\* One effect of the reducer keeps the type.
LEMMA ApplyTyped ==
  ASSUME NEW s \in Sessions, NEW e \in GoodEffects PROVE Apply(s, e) \in Sessions
<1>e. EffectOK(e) /\ e \in Effects BY DEF GoodEffects
<1>1. CASE e.scope # "local" /\ e.kind = "use"
  <2>1. Named(s, e) \in Sessions BY <1>e DEF Named, Sessions, Effects
  <2>2. Apply(s, e) = Rebuilt(Named(s, e)) BY <1>1 DEF Apply, ApplyUse
  <2> QED BY <2>1, <2>2, RebuiltTyped
<1>2. CASE e.scope # "local" /\ e.kind = "role"
  <2>1. Apply(s, e) = ApplyRole(s, e) BY <1>2 DEF Apply
  <2> QED BY <2>1, <1>e DEF ApplyRole, Sessions, Effects
<1>3. CASE e.scope # "local" /\ e.kind = "auth"
  <2>1. Apply(s, e) = ApplyAuth(s) BY <1>3 DEF Apply
  <2> QED BY <2>1 DEF ApplyAuth, Sessions
<1>4. CASE e.scope # "local" /\ e.kind = "reset"
  <2>1. Deleted(s.variables, e.key) \in Seq(Variables) BY DeletedTyped DEF Sessions
  <2>2. Cleared(s, e) \in Sessions BY <2>1 DEF Cleared, Sessions
  <2>3. Apply(s, e) = Rebuilt(Cleared(s, e)) BY <1>4 DEF Apply, ApplyReset
  <2> QED BY <2>2, <2>3, RebuiltTyped
<1>5. CASE e.scope # "local" /\ e.kind = "discard"
  <2>1. Apply(s, e) = ApplyDiscard(s) BY <1>5 DEF Apply
  <2> QED BY <2>1 DEF ApplyDiscard, Sessions
<1>6. CASE e.scope # "local" /\ e.kind \in {"set", "variable"}
  <2>1. Apply(s, e) = ApplySet(s, e) BY <1>6 DEF Apply
  <2>2. CASE e.key = "search_path" /\ Family = "postgres"
    <3>1. e.raw \in Raws \cup {Null} BY <1>e DEF Effects
    <3>2. ApplySet(s, e) = [s EXCEPT !.searchPath = IF e.raw # Null THEN e.raw ELSE @]
      BY <2>2 DEF ApplySet
    <3> QED BY <2>1, <3>1, <3>2 DEF Sessions
  <2>3. CASE ~(e.key = "search_path" /\ Family = "postgres")
    <3> DEFINE v == [key |-> e.key, value |-> e.value, raw |-> e.raw]
               set == [s EXCEPT !.variables = Assigned(@, v)]
    <3>1. v \in Variables BY <1>6, <1>e DEF EffectOK, Effects, Variables
    <3>2. Assigned(s.variables, v) \in Seq(Variables) BY <3>1, AssignedTyped DEF Sessions
    <3>3. set \in Sessions BY <3>2 DEF Sessions
    <3>4. ApplySet(s, e) = Rebuilt(set) BY <2>3 DEF ApplySet
    <3> QED BY <2>1, <3>3, <3>4, RebuiltTyped
  <2> QED BY <2>2, <2>3
<1>7. CASE \/ e.scope = "local"
           \/ e.kind \notin {"use", "role", "auth", "reset", "discard", "set", "variable"}
  <2>1. Apply(s, e) = s BY <1>7 DEF Apply
  <2> QED BY <2>1
<1> QED BY <1>1, <1>2, <1>3, <1>4, <1>5, <1>6, <1>7

LEMMA AppliedTyped ==
  ASSUME NEW s \in Sessions, NEW es, ShortOf(GoodEffects, es) PROVE Applied(s, es) \in Sessions
<1>1. CASE Len(es) = 2
  <2>1. Apply(s, es[1]) \in Sessions BY <1>1, ApplyTyped DEF ShortOf
  <2>2. Apply(Apply(s, es[1]), es[2]) \in Sessions BY <1>1, <2>1, ApplyTyped DEF ShortOf
  <2> QED BY <1>1, <2>2 DEF Applied
<1>2. CASE Len(es) # 2 BY <1>2, ApplyTyped DEF ShortOf, Applied
<1> QED BY <1>1, <1>2

\* The tracked state keeps its shape, whatever statements the client sends.
THEOREM SessionTyped == Spec => []TypeOK
<1>1. Init => TypeOK
  BY DEF Init, TypeOK, NewSession, Sessions
<1>2. TypeOK /\ [Next]_session => TypeOK'
  <2> SUFFICES ASSUME TypeOK, [Next]_session PROVE TypeOK' OBVIOUS
  <2>1. CASE Next
    <3> PICK s \in Statements : Execute(s) BY <2>1 DEF Next
    <3>1. ShortOf(GoodEffects, Classify(s)) BY ClassifyOK
    <3>2. Applied(session, Classify(s)) \in Sessions BY <3>1, AppliedTyped DEF TypeOK
    <3> QED BY <3>2 DEF Execute, TypeOK
  <2>2. CASE UNCHANGED session BY <2>2 DEF TypeOK
  <2> QED BY <2>1, <2>2
<1> QED BY <1>1, <1>2, PTL DEF Spec

-----------------------------------------------------------------------------
\* The log that s has under some role.
Lags(s) == \E r \in Texts \cup {Null} : s.replayLog = Log([s EXCEPT !.role = r])

\* The log is a function of the namespace, the warehouse, the role and the
\* variables.
LEMMA LogDependsOn ==
  ASSUME NEW s, NEW t, s.catalog = t.catalog, s.schema = t.schema, s.warehouse = t.warehouse,
         s.role = t.role, s.variables = t.variables
  PROVE Log(s) = Log(t)
<1>1. Namespace(s) = Namespace(t) BY DEF Namespace
<1>2. Context(s) = Context(t) BY <1>1 DEF Context
<1> QED BY <1>2 DEF Log

LEMMA RebuiltLags ==
  ASSUME NEW s \in Sessions PROVE Lags(Rebuilt(s))
<1> DEFINE new == Rebuilt(s)
           same == [new EXCEPT !.role = s.role]
<1>1. s.role \in Texts \cup {Null} BY DEF Sessions
<1>2. /\ s.catalog = same.catalog
      /\ s.schema = same.schema
      /\ s.warehouse = same.warehouse
      /\ s.role = same.role
      /\ s.variables = same.variables
  BY DEF Rebuilt, Sessions
<1>3. new.replayLog = Log(s) BY DEF Rebuilt, Sessions
<1> HIDE DEF new, same
<1>4. Log(s) = Log(same) BY <1>2, LogDependsOn
<1> QED BY <1>1, <1>3, <1>4 DEF Lags, new, same

\* A change of the label, the flags or the role keeps the log's other parts.
LEMMA FlagsLag ==
  ASSUME NEW s \in Sessions, NEW t \in Sessions, Lags(s), t.replayLog = s.replayLog,
         s.catalog = t.catalog, s.schema = t.schema, s.warehouse = t.warehouse,
         s.variables = t.variables
  PROVE Lags(t)
<1>1. PICK r \in Texts \cup {Null} : s.replayLog = Log([s EXCEPT !.role = r]) BY DEF Lags
<1> DEFINE a == [s EXCEPT !.role = r]
           b == [t EXCEPT !.role = r]
<1>2. a.catalog = b.catalog /\ a.schema = b.schema /\ a.warehouse = b.warehouse
      /\ a.role = b.role /\ a.variables = b.variables
  BY DEF Sessions
<1>3. s.replayLog = Log(a) BY <1>1
<1> HIDE DEF a, b
<1>4. Log(a) = Log(b) BY <1>2, LogDependsOn
<1>5. t.replayLog = Log(b) BY <1>3, <1>4
<1> QED BY <1>5 DEF Lags, b

LEMMA ApplyLags ==
  ASSUME NEW s \in Sessions, Lags(s), NEW e \in GoodEffects PROVE Lags(Apply(s, e))
<1>e. EffectOK(e) /\ e \in Effects BY DEF GoodEffects
<1>t. Apply(s, e) \in Sessions BY ApplyTyped
<1>1. CASE e.scope # "local" /\ e.kind = "use"
  <2>1. Named(s, e) \in Sessions BY <1>e DEF Named, Sessions, Effects
  <2>2. Apply(s, e) = Rebuilt(Named(s, e)) BY <1>1 DEF Apply, ApplyUse
  <2> QED BY <2>1, <2>2, RebuiltLags
<1>2. CASE e.scope # "local" /\ e.kind \in {"role", "auth", "discard"}
  <2> DEFINE t == Apply(s, e)
  <2>1. t \in {ApplyRole(s, e), ApplyAuth(s), ApplyDiscard(s)} BY <1>2 DEF Apply
  <2>2. /\ t.replayLog = s.replayLog
        /\ s.catalog = t.catalog
        /\ s.schema = t.schema
        /\ s.warehouse = t.warehouse
        /\ s.variables = t.variables
    BY <2>1 DEF ApplyRole, ApplyAuth, ApplyDiscard, Sessions
  <2> HIDE DEF t
  <2>3. t \in Sessions BY <1>t DEF t
  <2>4. Lags(t) BY <2>2, <2>3, FlagsLag
  <2> QED BY <2>4 DEF t
<1>3. CASE e.scope # "local" /\ e.kind = "reset"
  <2>1. Deleted(s.variables, e.key) \in Seq(Variables) BY DeletedTyped DEF Sessions
  <2>2. Cleared(s, e) \in Sessions BY <2>1 DEF Cleared, Sessions
  <2>3. Apply(s, e) = Rebuilt(Cleared(s, e)) BY <1>3 DEF Apply, ApplyReset
  <2> QED BY <2>2, <2>3, RebuiltLags
<1>4. CASE e.scope # "local" /\ e.kind \in {"set", "variable"}
  <2>1. Apply(s, e) = ApplySet(s, e) BY <1>4 DEF Apply
  <2>2. CASE e.key = "search_path" /\ Family = "postgres"
    <3> DEFINE t == Apply(s, e)
    <3>1. t = [s EXCEPT !.searchPath = IF e.raw # Null THEN e.raw ELSE @]
      BY <2>1, <2>2 DEF ApplySet
    <3>2. /\ t.replayLog = s.replayLog
          /\ s.catalog = t.catalog
          /\ s.schema = t.schema
          /\ s.warehouse = t.warehouse
          /\ s.variables = t.variables
      BY <3>1 DEF Sessions
    <3> HIDE DEF t
    <3>3. t \in Sessions BY <1>t DEF t
    <3>4. Lags(t) BY <3>2, <3>3, FlagsLag
    <3> QED BY <3>4 DEF t
  <2>3. CASE ~(e.key = "search_path" /\ Family = "postgres")
    <3> DEFINE v == [key |-> e.key, value |-> e.value, raw |-> e.raw]
               set == [s EXCEPT !.variables = Assigned(@, v)]
    <3>1. v \in Variables BY <1>4, <1>e DEF EffectOK, Effects, Variables
    <3>2. Assigned(s.variables, v) \in Seq(Variables) BY <3>1, AssignedTyped DEF Sessions
    <3>3. set \in Sessions BY <3>2 DEF Sessions
    <3>4. ApplySet(s, e) = Rebuilt(set) BY <2>3 DEF ApplySet
    <3> QED BY <2>1, <3>3, <3>4, RebuiltLags
  <2> QED BY <2>2, <2>3
<1>5. CASE \/ e.scope = "local"
           \/ e.kind \notin {"use", "role", "auth", "reset", "discard", "set", "variable"}
  <2>1. Apply(s, e) = s BY <1>5 DEF Apply
  <2> QED BY <2>1
<1> QED BY <1>1, <1>2, <1>3, <1>4, <1>5

\* Whatever the client sends, the replay log is the one the tracked state
\* would be given under some role: the reducer's cases that do not rebuild it
\* leave nothing else behind.
THEOREM LogLags == Spec => []LogLagsOnlyInRole
<1>1. Init => TypeOK /\ LogLagsOnlyInRole
  <2> SUFFICES ASSUME Init PROVE TypeOK /\ LogLagsOnlyInRole OBVIOUS
  <2>1. TypeOK BY DEF Init, TypeOK, NewSession, Sessions
  <2> DEFINE new == [NewSession EXCEPT !.role = Null]
  <2>2. Log(NewSession) = Log(new)
    <3>1. /\ NewSession.catalog = new.catalog
          /\ NewSession.schema = new.schema
          /\ NewSession.warehouse = new.warehouse
          /\ NewSession.role = new.role
          /\ NewSession.variables = new.variables
      BY DEF NewSession
    <3> HIDE DEF new
    <3> QED BY <3>1, LogDependsOn
  <2>3. Namespace(NewSession) = <<>> BY DEF Namespace, NewSession, One
  <2>4. Context(NewSession) = <<>> BY <2>3 DEF Context, NewSession, One
  <2>5. Log(NewSession) = <<>>
    <3> DEFINE sets == [i \in DOMAIN NewSession.variables |-> SetEntry(NewSession.variables[i])]
    <3>1. NewSession.variables = <<>> BY DEF NewSession
    <3>2. sets = <<>> BY <3>1
    <3> HIDE DEF sets
    <3>3. Log(NewSession) = Context(NewSession) \o sets BY DEF Log, sets
    <3> QED BY <2>4, <3>2, <3>3
  <2>6. NewSession.replayLog = Log(new) BY <2>2, <2>5 DEF NewSession
  <2> QED BY <2>1, <2>6 DEF Init, LogLagsOnlyInRole
<1>2. TypeOK /\ LogLagsOnlyInRole /\ TypeOK' /\ [Next]_session => LogLagsOnlyInRole'
  <2> SUFFICES ASSUME TypeOK, LogLagsOnlyInRole, [Next]_session PROVE LogLagsOnlyInRole' OBVIOUS
  <2>0. session \in Sessions /\ Lags(session) BY DEF TypeOK, Lags, LogLagsOnlyInRole
  <2>1. CASE Next
    <3> PICK s \in Statements : Execute(s) BY <2>1 DEF Next
    <3> DEFINE es == Classify(s)
               new == Applied(session, es)
    <3>1. ShortOf(GoodEffects, es) BY ClassifyOK
    <3>2. session' = new BY DEF Execute
    <3> HIDE DEF es
    <3>3. CASE Len(es) = 2
      <4> DEFINE first == Apply(session, es[1])
      <4>1. first \in Sessions /\ Lags(first) BY <2>0, <3>1, <3>3, ApplyTyped, ApplyLags DEF ShortOf
      <4> HIDE DEF first
      <4>2. Lags(Apply(first, es[2])) BY <3>1, <3>3, <4>1, ApplyLags DEF ShortOf
      <4> QED BY <3>2, <3>3, <4>2 DEF Applied, first, Lags, LogLagsOnlyInRole
    <3>4. CASE Len(es) # 2
      <4>1. Lags(Apply(session, es[1])) BY <2>0, <3>1, <3>4, ApplyLags DEF ShortOf
      <4> QED BY <3>2, <3>4, <4>1 DEF Applied, Lags, LogLagsOnlyInRole
    <3> QED BY <3>3, <3>4
  <2>2. CASE UNCHANGED session BY <2>2 DEF LogLagsOnlyInRole
  <2> QED BY <2>1, <2>2
<1>3. Spec => []TypeOK BY SessionTyped
<1> QED BY <1>1, <1>2, <1>3, PTL DEF Spec

-----------------------------------------------------------------------------
(* SessionReplay: what a fresh connection becomes that is told the log.      *)

\* Induction, over a set instead of a predicate: what holds of 0 and goes from i - 1 to i
\* holds up to n.
LEMMA InductionUpTo ==
  ASSUME NEW n \in Nat, NEW S, 0 \in S, \A i \in 1 .. n : i - 1 \in S => i \in S
  PROVE  0 .. n \subseteq S
<1> DEFINE R == {ss \in Nat \X Nat : ss[1] < ss[2]}
           W == (0 .. n) \ S
<1>1. IsWellFoundedOn(R, Nat)
  <2>1. R = OpToRel(<, Nat)
    BY Zenon DEF OpToRel
  <2>2. IsWellFoundedOn(OpToRel(<, Nat), Nat)
    BY NatLessThanWellFounded, Zenon
  <2> QED BY <2>1, <2>2, Zenon
<1>2. \A x, y \in Nat : <<y, x>> \in R <=> y < x
  OBVIOUS
<1>3. W \subseteq Nat
  OBVIOUS
<1> HIDE DEF R, W
<1>4. ASSUME W # {} PROVE FALSE
  <2>1. PICK x \in W : \A y \in W : ~(<<y, x>> \in R)
    BY <1>1, <1>3, <1>4, WFMin
  <2>2. \A y \in W : ~(y < x)
    BY <1>2, <1>3, <2>1
  <2>3. x \in 0 .. n /\ x \notin S
    BY DEF W
  <2>4. x \in 1 .. n /\ x - 1 \in 0 .. n /\ x - 1 < x
    BY <2>3
  <2>5. x - 1 \in S
    BY <2>2, <2>4 DEF W
  <2> QED BY <2>3, <2>4, <2>5
<1> QED BY <1>4 DEF W

-----------------------------------------------------------------------------
(* FoldLeft over the statements of a log runs them one after the other.      *)

\* The table of FoldLeft: what the statements at the positions S lead to, from what those
\* before the last of them do.
FoldCell(q, g, S) == IF S = {} THEN Connection ELSE Run(g[S \ {Max(S)}], q[Max(S)])

FoldTable(q) == CHOOSE g : g = [S \in SUBSET DOMAIN q |-> FoldCell(q, g, S)]

LEMMA ReplayedIsTheLastCell ==
  ASSUME NEW q
  PROVE  Replayed(q) = FoldTable(q)[DOMAIN q]
BY DEF Replayed, FoldLeft, MapThenFoldSet, FoldTable, FoldCell

LEMMA LastIsMax ==
  ASSUME NEW k \in Nat, NEW S \in SUBSET (1 .. k), k \in S
  PROVE  Max(S) = k /\ S \ {k} \subseteq 1 .. (k - 1)
<1>1. \A x \in S : (\A y \in S : x >= y) => x = k
  OBVIOUS
<1>2. \A y \in S : k >= y
  OBVIOUS
<1>3. Max(S) \in S /\ \A y \in S : Max(S) >= y
  <2>1. \E x \in S : \A y \in S : x >= y
    BY <1>2
  <2> QED BY <2>1, Zenon DEF Max
<1>4. S \ {k} \subseteq 1 .. (k - 1)
  OBVIOUS
<1> QED BY <1>1, <1>3, <1>4, Zenon

LEMMA FoldTableIsTheTable ==
  ASSUME NEW X, NEW q \in Seq(X)
  PROVE  FoldTable(q) = [S \in SUBSET DOMAIN q |-> FoldCell(q, FoldTable(q), S)]
<1> DEFINE n == Len(q)
           D == SUBSET (1 .. n)
           Filled(k, g) == /\ g = [S \in D |-> g[S]]
                           /\ \A S \in SUBSET (1 .. k) : g[S] = FoldCell(q, g, S)
           K == {k \in 0 .. n : \E g : Filled(k, g)}
<1>0. n \in Nat /\ DOMAIN q = 1 .. n
  OBVIOUS
<1> HIDE DEF n
<1>1. 0 \in K
  <2> DEFINE g == [S \in D |-> Connection]
  <2>1. g = [S \in D |-> g[S]]
    OBVIOUS
  <2>2. ASSUME NEW S \in SUBSET (1 .. 0) PROVE g[S] = FoldCell(q, g, S)
    <3>1. S = {} /\ S \in D
      OBVIOUS
    <3> QED BY <3>1 DEF FoldCell
  <2> HIDE DEF g
  <2>3. 0 \in 0 .. n
    BY <1>0
  <2>4. Filled(0, g)
    BY <2>1, <2>2, Zenon
  <2> HIDE DEF Filled
  <2> QED BY <2>3, <2>4
<1>2. ASSUME NEW k \in 1 .. n, k - 1 \in K PROVE k \in K
  <2>1. PICK g : Filled(k - 1, g)
    BY <1>2
  <2> DEFINE h == [S \in D |-> IF S \subseteq 1 .. k /\ k \in S THEN FoldCell(q, g, S) ELSE g[S]]
  <2>2. h = [S \in D |-> h[S]]
    OBVIOUS
  <2>0. k \in Nat /\ 1 .. k \subseteq 1 .. n /\ 1 .. (k - 1) \subseteq 1 .. k /\ k \notin 1 .. (k - 1)
    BY <1>0
  <2>a. \A S \in SUBSET (1 .. (k - 1)) : S \in D /\ h[S] = g[S] /\ g[S] = FoldCell(q, g, S)
    BY <2>0, <2>1
  <2>3. ASSUME NEW S \in SUBSET (1 .. k) PROVE h[S] = FoldCell(q, h, S)
    <3>1. CASE k \in S
      <4>1. h[S] = FoldCell(q, g, S)
        BY <2>0, <3>1
      <4>2. Max(S) = k /\ S \ {k} \subseteq 1 .. (k - 1)
        BY <2>0, <3>1, LastIsMax
      <4>3. h[S \ {k}] = g[S \ {k}]
        BY <2>a, <4>2
      <4> HIDE DEF h
      <4> QED BY <4>1, <4>2, <4>3 DEF FoldCell
    <3>2. CASE k \notin S
      <4>1. S \in SUBSET (1 .. (k - 1))
        BY <2>0, <3>2
      <4>2. h[S] = FoldCell(q, g, S)
        BY <2>a, <4>1
      <4>3. CASE S = {}
        BY <4>2, <4>3 DEF FoldCell
      <4>4. CASE S # {}
        <5>1. S \ {Max(S)} \in SUBSET (1 .. (k - 1))
          BY <4>1
        <5>2. h[S \ {Max(S)}] = g[S \ {Max(S)}]
          BY <2>a, <5>1
        <5> HIDE DEF h
        <5> QED BY <4>2, <4>4, <5>2 DEF FoldCell
      <4> QED BY <4>3, <4>4
    <3> QED BY <3>1, <3>2
  <2> HIDE DEF h
  <2>4. k \in 0 .. n
    BY <1>0
  <2>5. Filled(k, h)
    BY <2>2, <2>3, Zenon
  <2> HIDE DEF Filled
  <2> QED BY <2>4, <2>5
<1>3. n \in K
  <2> HIDE DEF K
  <2>1. 0 .. n \subseteq K
    BY <1>0, <1>1, <1>2, InductionUpTo
  <2> QED BY <1>0, <2>1
<1>4. PICK g : Filled(n, g)
  BY <1>3
<1>5. g = [S \in SUBSET DOMAIN q |-> FoldCell(q, g, S)]
  BY <1>0, <1>4
<1> QED BY <1>5 DEF FoldTable

\* One row more.
LEMMA FoldRow ==
  ASSUME NEW X, NEW q \in Seq(X), NEW k \in 1 .. Len(q)
  PROVE  FoldTable(q)[1 .. k] = Run(FoldTable(q)[1 .. (k - 1)], q[k])
<1>1. 1 .. k \in SUBSET DOMAIN q /\ k \in Nat /\ k \in 1 .. k /\ (1 .. k) \ {k} = 1 .. (k - 1)
  OBVIOUS
<1>2. Max(1 .. k) = k
  BY <1>1, LastIsMax
<1>3. FoldTable(q)[1 .. k] = FoldCell(q, FoldTable(q), 1 .. k)
  BY <1>1, FoldTableIsTheTable
<1> QED BY <1>1, <1>2, <1>3 DEF FoldCell

LEMMA FoldNothing ==
  ASSUME NEW X, NEW q \in Seq(X)
  PROVE  FoldTable(q)[1 .. 0] = Connection
<1>1. 1 .. 0 = {} /\ {} \in SUBSET DOMAIN q
  OBVIOUS
<1>2. FoldTable(q)[{}] = FoldCell(q, FoldTable(q), {})
  BY <1>1, FoldTableIsTheTable
<1> QED BY <1>1, <1>2 DEF FoldCell

\* A fresh connection that is told nothing.
LEMMA ReplayedNone == Replayed(<<>>) = Connection
<1>1. <<>> \in Seq({}) /\ DOMAIN <<>> = 1 .. 0
  OBVIOUS
<1> QED BY <1>1, FoldNothing, ReplayedIsTheLastCell

\* One statement more.
LEMMA ReplayedAppend ==
  ASSUME NEW X, NEW q \in Seq(X), NEW x \in X
  PROVE  Replayed(Append(q, x)) = Run(Replayed(q), x)
<1> DEFINE n == Len(q)
           p == Append(q, x)
           K == {k \in 0 .. n : FoldTable(q)[1 .. k] = FoldTable(p)[1 .. k]}
<1>0. /\ n \in Nat /\ p \in Seq(X) /\ Len(p) = n + 1
      /\ DOMAIN q = 1 .. n /\ DOMAIN p = 1 .. (n + 1)
      /\ p[n + 1] = x /\ \A k \in 1 .. n : p[k] = q[k]
  OBVIOUS
<1> HIDE DEF p
<1>1. 0 \in K
  BY <1>0, FoldNothing
<1>2. ASSUME NEW k \in 1 .. n, k - 1 \in K PROVE k \in K
  <2>1. FoldTable(q)[1 .. k] = Run(FoldTable(q)[1 .. (k - 1)], q[k])
    BY FoldRow
  <2>2. FoldTable(p)[1 .. k] = Run(FoldTable(p)[1 .. (k - 1)], p[k])
    BY <1>0, FoldRow
  <2>3. FoldTable(q)[1 .. (k - 1)] = FoldTable(p)[1 .. (k - 1)] /\ k \in 0 .. n
    BY <1>0, <1>2
  <2> QED BY <1>0, <2>1, <2>2, <2>3
<1>3. n \in K
  <2> HIDE DEF K, n
  <2>1. 0 .. n \subseteq K
    BY <1>0, <1>1, <1>2, InductionUpTo
  <2> QED BY <1>0, <2>1
<1>4. FoldTable(p)[1 .. (n + 1)] = Run(FoldTable(p)[1 .. n], x)
  <2>1. n + 1 \in 1 .. Len(p) /\ (n + 1) - 1 = n
    BY <1>0
  <2>2. FoldTable(p)[1 .. (n + 1)] = Run(FoldTable(p)[1 .. ((n + 1) - 1)], p[n + 1])
    BY <1>0, <2>1, FoldRow
  <2> QED BY <1>0, <2>1, <2>2
<1> QED BY <1>0, <1>3, <1>4, ReplayedIsTheLastCell DEF p

-----------------------------------------------------------------------------
(* A log is told entry by entry.                                             *)

Rendered(log) == [i \in DOMAIN log |-> RenderEntry(log[i])]

\* A fresh connection after the statements of the log.
Told(log) == Replayed(Rendered(log))

LEMMA ToldNothing == Told(<<>>) = Connection
<1>1. Rendered(<<>>) = <<>>
  BY DEF Rendered
<1> QED BY <1>1, ReplayedNone DEF Told

LEMMA ToldAppend ==
  ASSUME NEW X, NEW log \in Seq(X), NEW x \in X
  PROVE  Told(Append(log, x)) = Run(Told(log), RenderEntry(x))
<1> DEFINE Y == {RenderEntry(y) : y \in X}
           q == Rendered(log)
<1>1. q \in Seq(Y)
  <2>1. \A i \in 1 .. Len(log) : log[i] \in X /\ RenderEntry(log[i]) \in Y
    OBVIOUS
  <2>2. q = [i \in 1 .. Len(log) |-> RenderEntry(log[i])] /\ Len(log) \in Nat
    BY DEF Rendered
  <2> HIDE DEF q, Y
  <2> QED BY <2>1, <2>2
<1>2. RenderEntry(x) \in Y
  OBVIOUS
<1>3. Rendered(Append(log, x)) = Append(q, RenderEntry(x))
  BY DEF Rendered
<1> HIDE DEF Y, q
<1>4. Replayed(Append(q, RenderEntry(x))) = Run(Replayed(q), RenderEntry(x))
  BY <1>1, <1>2, ReplayedAppend
<1> QED BY <1>3, <1>4 DEF Told, q

-----------------------------------------------------------------------------
(* The context: roles, warehouse and namespace.                              *)

\* A connection that was told of the context alone.
Stands(c, catalog, schema, warehouse) ==
  /\ c.session \in Sessions
  /\ c.session.catalog = catalog
  /\ c.session.schema = schema
  /\ c.session.warehouse = warehouse
  /\ c.session.variables = <<>>
  /\ c.settings = {}

LEMMA ConnectionStands == Stands(Connection, Null, Null, Null)
BY DEF Stands, Connection, NewSession, Sessions

\* A statement USE changes no setting, and of the tracked state what its one effect names.
LEMMA UseRuns ==
  ASSUME NEW c, c.session \in Sessions, NEW s \in Uses
  PROVE  /\ Run(c, s).session = Apply(c.session, UseEffect(s))
         /\ Run(c, s).session \in Sessions
         /\ Run(c, s).settings = c.settings
<1>1. Classify(s) = <<UseEffect(s)>> /\ s.form = "use"
  BY DEF Uses, Classify
<1>2. UseEffect(s) \in GoodEffects
  BY UseEffectOK DEF GoodEffects, EffectOK
<1>3. Applied(c.session, Classify(s)) = Apply(c.session, UseEffect(s))
  BY <1>1 DEF Applied
<1>4. ServerRun(c.settings, s) = c.settings
  BY <1>1 DEF ServerRun
<1> QED BY <1>2, <1>3, <1>4, ApplyTyped DEF Run

LEMMA UseMoves ==
  ASSUME NEW c, NEW catalog, NEW schema, NEW warehouse, Stands(c, catalog, schema, warehouse),
         NEW s \in Uses, NEW e, e = UseEffect(s)
  PROVE  /\ e.kind = "role" => Stands(Run(c, s), catalog, schema, warehouse)
         /\ e.kind = "use" /\ e.key = "catalog" /\ e.parts = Null => Stands(Run(c, s), e.value, schema, warehouse)
         /\ e.kind = "use" /\ e.key = "warehouse" /\ e.parts = Null => Stands(Run(c, s), catalog, schema, e.value)
         /\ e.kind = "use" /\ e.key \in {"schema", "namespace"} /\ e.parts = Null
              => Stands(Run(c, s), catalog, e.value, warehouse)
         /\ e.kind = "use" /\ e.key \in {"schema", "namespace"} /\ e.parts # Null
              => Stands(Run(c, s), e.parts.catalog, e.parts.schema, warehouse)
<1> DEFINE t == c.session
           u == Run(c, s).session
<1>1. t \in Sessions /\ u = Apply(t, e) /\ u \in Sessions /\ Run(c, s).settings = {}
  BY UseRuns DEF Stands
<1>2. e.scope = "session"
  BY DEF UseEffect, NoEffect
<1>3. CASE e.kind = "role"
  <2>1. u = ApplyRole(t, e)
    BY <1>1, <1>2, <1>3 DEF Apply
  <2>2. u.catalog = t.catalog /\ u.schema = t.schema /\ u.warehouse = t.warehouse
        /\ u.variables = t.variables
    BY <1>1, <2>1 DEF ApplyRole, Sessions
  <2> QED BY <1>1, <1>3, <2>2 DEF Stands
<1>4. CASE e.kind = "use"
  <2>1. u = Rebuilt(Named(t, e))
    BY <1>1, <1>2, <1>4 DEF Apply, ApplyUse
  <2> DEFINE v == Named(t, e)
  <2>2. v \in Sessions
    <3>1. e \in Effects
      BY UseEffectOK DEF EffectOK
    <3> QED BY <1>1, <3>1 DEF Named, Sessions, Effects
  <2>3. u.catalog = v.catalog /\ u.schema = v.schema /\ u.warehouse = v.warehouse
        /\ u.variables = v.variables
    <3> HIDE DEF v
    <3> QED BY <2>1, <2>2 DEF Rebuilt, Sessions, v
  <2>4. v.variables = t.variables
    BY <1>1 DEF Named, Sessions
  <2>5. CASE e.key = "catalog" /\ e.parts = Null
    <3>1. v.catalog = e.value /\ v.schema = t.schema /\ v.warehouse = t.warehouse
      BY <1>1, <2>5 DEF Named, Sessions
    <3> QED BY <1>1, <1>4, <2>3, <2>4, <2>5, <3>1 DEF Stands
  <2>6. CASE e.key = "warehouse" /\ e.parts = Null
    <3>1. v.catalog = t.catalog /\ v.schema = t.schema /\ v.warehouse = e.value
      BY <1>1, <2>6 DEF Named, Sessions
    <3> QED BY <1>1, <1>4, <2>3, <2>4, <2>6, <3>1 DEF Stands
  <2>7. CASE e.key \in {"schema", "namespace"} /\ e.parts = Null
    <3>1. v.catalog = t.catalog /\ v.schema = e.value /\ v.warehouse = t.warehouse
      BY <1>1, <2>7 DEF Named, Sessions
    <3> QED BY <1>1, <1>4, <2>3, <2>4, <2>7, <3>1 DEF Stands
  <2>8. CASE e.key \in {"schema", "namespace"} /\ e.parts # Null
    <3>1. v.catalog = e.parts.catalog /\ v.schema = e.parts.schema /\ v.warehouse = t.warehouse
      BY <1>1, <2>8 DEF Named, Sessions
    <3> QED BY <1>1, <1>4, <2>3, <2>4, <2>8, <3>1 DEF Stands
  <2> HIDE DEF t, u, v
  <2> QED BY <1>4, <2>5, <2>6, <2>7, <2>8
<1> HIDE DEF t, u
<1> QED BY <1>3, <1>4

OneKinds == {"use_catalog", "use_schema", "use_warehouse", "use_role"}

\* What USE CATALOG, USE SCHEMA, USE WAREHOUSE and USE ROLE are read as.
LEMMA OneReads ==
  ASSUME NEW kind \in OneKinds, NEW name \in Texts,
         NEW s, s = RenderEntry([kind |-> kind, name |-> name]), NEW e, e = UseEffect(s)
  PROVE  /\ s \in Uses
         /\ e.kind = IF kind = "use_role" THEN "role" ELSE "use"
         /\ e.value = name /\ e.parts = Null
         /\ kind = "use_catalog" => e.key = "catalog"
         /\ kind = "use_schema" => e.key = "schema"
         /\ kind = "use_warehouse" => e.key = "warehouse"
<1> DEFINE what == CASE kind = "use_catalog" -> "catalog" [] kind = "use_schema" -> "schema"
                     [] kind = "use_warehouse" -> "warehouse" [] kind = "use_role" -> "role"
<1>1. s = [form |-> "use", kind |-> what, db |-> Null, name |-> name]
  BY DEF RenderEntry, RenderUse, OneKinds
<1>2. what \in {"catalog", "schema", "role", "warehouse"}
  BY DEF OneKinds
<1>4. UseKey(what) = what
  BY <1>2 DEF UseKey
<1> HIDE DEF what
<1>3. s \in Uses
  BY <1>1, <1>2 DEF Uses
<1>5. s.kind = what /\ s.db = Null /\ s.name = name /\ what # "plain"
  BY <1>1, <1>2
<1>6. e = [NoEffect EXCEPT !.kind = IF what = "role" THEN "role" ELSE "use",
                           !.key = what, !.value = name, !.parts = Null]
  BY <1>4, <1>5 DEF UseEffect
<1>7. e.kind = (IF what = "role" THEN "role" ELSE "use") /\ e.key = what /\ e.value = name
      /\ e.parts = Null
  BY <1>6 DEF NoEffect
<1> QED BY <1>3, <1>7 DEF what, OneKinds

\* What USE catalog.schema is read as, in the form of each family.
LEMMA NamespaceReads ==
  ASSUME NEW catalog \in Texts, NEW schema \in Texts,
         NEW s, s = RenderEntry([kind |-> "use_namespace", catalog |-> catalog, schema |-> schema]),
         NEW e, e = UseEffect(s)
  PROVE  /\ s \in Uses
         /\ e.kind = "use" /\ e.key \in {"schema", "namespace"} /\ e.parts # Null
         /\ e.parts.catalog = catalog /\ e.parts.schema = schema
<1> DEFINE what == IF Family = "snowflake" THEN "schema" ELSE "plain"
           both == [catalog |-> catalog, schema |-> schema]
<1>1. s = [form |-> "use", kind |-> what, db |-> catalog, name |-> schema]
  BY DEF RenderEntry, RenderUse
<1>2. s \in Uses
  BY <1>1 DEF Uses
<1>3. catalog # Null
  BY NullAssumption
<1> DEFINE key == IF what # "plain" THEN UseKey(what) ELSE "namespace"
<1>4. key \in {"schema", "namespace"}
  BY DEF UseKey
<1>8. both # Null
  BY NullAssumption
<1>5. s.kind = what /\ s.db = catalog /\ s.name = schema
  BY <1>1
<1> HIDE DEF what
<1>6. e = [NoEffect EXCEPT !.kind = "use", !.key = key, !.value = schema, !.parts = both]
  BY <1>3, <1>4, <1>5 DEF UseEffect
<1> HIDE DEF key, both
<1>7. e.kind = "use" /\ e.key = key /\ e.parts = both
  BY <1>6 DEF NoEffect
<1> QED BY <1>2, <1>4, <1>7, <1>8 DEF both

LEMMA OneTyped ==
  ASSUME NEW kind \in OneKinds, NEW name \in Texts \cup {Null}
  PROVE  /\ One(kind, name) \in Seq(Entries)
         /\ name = Null => One(kind, name) = <<>>
         /\ name # Null => /\ [kind |-> kind, name |-> name] \in Entries
                           /\ One(kind, name) = <<[kind |-> kind, name |-> name]>>
<1>1. CASE name = Null
  BY <1>1 DEF One
<1>2. CASE name # Null
  <2> DEFINE entry == [kind |-> kind, name |-> name]
  <2>1. entry \in [kind: OneKinds, name: Texts]
    BY <1>2
  <2>2. entry \in Entries
    BY <2>1 DEF Entries, OneKinds
  <2>3. One(kind, name) = <<entry>>
    BY <1>2 DEF One
  <2> HIDE DEF entry
  <2>4. <<entry>> \in Seq(Entries)
    BY <2>2
  <2> QED BY <1>2, <2>2, <2>3, <2>4 DEF entry
<1> QED BY <1>1, <1>2

\* What one more entry of the context does, when it is there.
LEMMA ToldOne ==
  ASSUME NEW log \in Seq(Entries), NEW kind \in OneKinds, NEW name \in Texts \cup {Null},
         NEW catalog, NEW schema, NEW warehouse, Stands(Told(log), catalog, schema, warehouse)
  PROVE  LET c == Told(log \o One(kind, name)) IN
         /\ log \o One(kind, name) \in Seq(Entries)
         /\ kind = "use_role" => Stands(c, catalog, schema, warehouse)
         /\ kind = "use_catalog" /\ catalog = Null => Stands(c, name, schema, warehouse)
         /\ kind = "use_schema" /\ schema = Null => Stands(c, catalog, name, warehouse)
         /\ kind = "use_warehouse" /\ warehouse = Null => Stands(c, catalog, schema, name)
<1> DEFINE c == Told(log \o One(kind, name))
<1>0. log \o One(kind, name) \in Seq(Entries)
  <2>1. One(kind, name) \in Seq(Entries)
    BY OneTyped
  <2> QED BY <2>1
<1>1. CASE name = Null
  <2>1. log \o One(kind, name) = log
    <3>1. One(kind, name) = <<>>
      BY <1>1, OneTyped
    <3> QED BY <3>1, ConcatEmptySeq
  <2> QED BY <1>0, <1>1, <2>1
<1>2. CASE name # Null
  <2> DEFINE entry == [kind |-> kind, name |-> name]
             s == RenderEntry(entry)
             e == UseEffect(s)
  <2>1. entry \in Entries /\ One(kind, name) = <<entry>>
    BY <1>2, OneTyped
  <2>2. /\ s \in Uses
        /\ e.kind = IF kind = "use_role" THEN "role" ELSE "use"
        /\ e.value = name /\ e.parts = Null
        /\ kind = "use_catalog" => e.key = "catalog"
        /\ kind = "use_schema" => e.key = "schema"
        /\ kind = "use_warehouse" => e.key = "warehouse"
    BY <1>2, OneReads
  <2> HIDE DEF entry
  <2>3. log \o <<entry>> = Append(log, entry)
    BY <2>1
  <2>4. c = Run(Told(log), s)
    BY <2>1, <2>3, ToldAppend
  <2> HIDE DEF s, e, c
  <2>5. /\ e.kind = "role" => Stands(Run(Told(log), s), catalog, schema, warehouse)
        /\ e.kind = "use" /\ e.key = "catalog" /\ e.parts = Null
             => Stands(Run(Told(log), s), e.value, schema, warehouse)
        /\ e.kind = "use" /\ e.key = "warehouse" /\ e.parts = Null
             => Stands(Run(Told(log), s), catalog, schema, e.value)
        /\ e.kind = "use" /\ e.key \in {"schema", "namespace"} /\ e.parts = Null
             => Stands(Run(Told(log), s), catalog, e.value, warehouse)
    <3>1. e = UseEffect(s)
      BY DEF e
    <3> QED BY <2>2, <3>1, UseMoves
  <2>6. /\ kind = "use_role" => Stands(c, catalog, schema, warehouse)
        /\ kind = "use_catalog" => Stands(c, name, schema, warehouse)
        /\ kind = "use_schema" => Stands(c, catalog, name, warehouse)
        /\ kind = "use_warehouse" => Stands(c, catalog, schema, name)
    BY <2>2, <2>4, <2>5
  <2> QED BY <1>0, <2>6 DEF c
<1> QED BY <1>1, <1>2

\* The namespace comes back in one statement or two.
LEMMA ToldNamespace ==
  ASSUME NEW log \in Seq(Entries), NEW s \in Sessions, NEW warehouse,
         Stands(Told(log), Null, Null, warehouse)
  PROVE  /\ Namespace(s) \in Seq(Entries)
         /\ Stands(Told(log \o Namespace(s)), s.catalog, s.schema, warehouse)
<1>0. s.catalog \in Texts \cup {Null} /\ s.schema \in Texts \cup {Null}
  BY DEF Sessions
<1>1. CASE s.catalog # Null /\ s.schema # Null
  <2> DEFINE entry == [kind |-> "use_namespace", catalog |-> s.catalog, schema |-> s.schema]
             u == RenderEntry(entry)
             e == UseEffect(u)
  <2>1. entry \in Entries
    BY <1>0, <1>1 DEF Entries
  <2>2. Namespace(s) = <<entry>>
    BY <1>1 DEF Namespace
  <2>3. /\ u \in Uses
        /\ e.kind = "use" /\ e.key \in {"schema", "namespace"} /\ e.parts # Null
        /\ e.parts.catalog = s.catalog /\ e.parts.schema = s.schema
    <3>1. s.catalog \in Texts /\ s.schema \in Texts
      BY <1>0, <1>1
    <3> QED BY <3>1, NamespaceReads
  <2> HIDE DEF entry
  <2>4. log \o <<entry>> = Append(log, entry) /\ <<entry>> \in Seq(Entries)
    BY <2>1
  <2>5. Told(log \o Namespace(s)) = Run(Told(log), u)
    BY <2>1, <2>2, <2>4, ToldAppend
  <2> HIDE DEF u, e
  <2>6. Stands(Run(Told(log), u), e.parts.catalog, e.parts.schema, warehouse)
    <3>1. e = UseEffect(u)
      BY DEF e
    <3> QED BY <2>3, <3>1, UseMoves
  <2> QED BY <2>2, <2>3, <2>4, <2>5, <2>6
<1>2. CASE ~(s.catalog # Null /\ s.schema # Null)
  <2> DEFINE a == One("use_catalog", s.catalog)
             b == One("use_schema", s.schema)
  <2>1. Namespace(s) = a \o b
    BY <1>2 DEF Namespace
  <2>2. a \in Seq(Entries) /\ b \in Seq(Entries)
    BY <1>0, OneTyped DEF OneKinds
  <2>3. log \o a \in Seq(Entries) /\ Stands(Told(log \o a), s.catalog, Null, warehouse)
    BY <1>0, ToldOne DEF OneKinds
  <2>4. Stands(Told((log \o a) \o b), s.catalog, s.schema, warehouse)
    BY <1>0, <2>3, ToldOne DEF OneKinds
  <2> HIDE DEF a, b
  <2>5. (log \o a) \o b = log \o (a \o b) /\ a \o b \in Seq(Entries)
    BY <2>2, ConcatAssociative
  <2> QED BY <2>1, <2>4, <2>5
<1> QED BY <1>1, <1>2

\* A connection told the context of a state has its namespace and its warehouse.
LEMMA ToldContext ==
  ASSUME NEW s \in Sessions
  PROVE  /\ Context(s) \in Seq(Entries)
         /\ Stands(Told(Context(s)), s.catalog, s.schema, s.warehouse)
<1> DEFINE none == <<>>
           role == One("use_role", s.role)
           house == One("use_warehouse", s.warehouse)
<1>0. none \in Seq(Entries) /\ Stands(Told(none), Null, Null, Null)
  BY ToldNothing, ConnectionStands
<1>1. s.role \in Texts \cup {Null} /\ s.warehouse \in Texts \cup {Null}
  BY DEF Sessions
<1>2. role \in Seq(Entries) /\ house \in Seq(Entries)
  BY <1>1, OneTyped DEF OneKinds
<1>3. CASE Family = "snowflake"
  <2>1. none \o role \in Seq(Entries) /\ Stands(Told(none \o role), Null, Null, Null)
    BY <1>0, <1>1, ToldOne DEF OneKinds
  <2>2. none \o role = role
    BY <1>2
  <2>3. role \o house \in Seq(Entries) /\ Stands(Told(role \o house), Null, Null, s.warehouse)
    BY <1>1, <1>2, <2>1, <2>2, ToldOne DEF OneKinds
  <2>4. Namespace(s) \in Seq(Entries)
        /\ Stands(Told((role \o house) \o Namespace(s)), s.catalog, s.schema, s.warehouse)
    BY <2>3, ToldNamespace
  <2>5. Context(s) = (role \o house) \o Namespace(s)
    BY <1>3 DEF Context
  <2>6. (role \o house) \o Namespace(s) \in Seq(Entries)
    BY <2>3, <2>4
  <2> QED BY <2>4, <2>5, <2>6
<1>4. CASE Family # "snowflake"
  <2> DEFINE space == Namespace(s)
  <2>1. space \in Seq(Entries) /\ Stands(Told(none \o space), s.catalog, s.schema, Null)
    BY <1>0, ToldNamespace
  <2> HIDE DEF space
  <2>2. none \o space = space
    BY <2>1
  <2>3. /\ space \o house \in Seq(Entries)
        /\ Stands(Told(space \o house), s.catalog, s.schema, s.warehouse)
    BY <1>1, <2>1, <2>2, ToldOne DEF OneKinds
  <2>4. /\ (space \o house) \o role \in Seq(Entries)
        /\ Stands(Told((space \o house) \o role), s.catalog, s.schema, s.warehouse)
    BY <1>1, <2>3, ToldOne DEF OneKinds
  <2>5. Context(s) = (space \o house) \o role
    BY <1>4 DEF Context, space
  <2> QED BY <2>4, <2>5
<1> QED BY <1>3, <1>4

-----------------------------------------------------------------------------
(* The variables: each is rendered as a SET that is read back as itself.     *)

\* A variable under the name the family's table gives it, tracked nowhere else, whose raw
\* text is that of its value.
PlainVariable(v) ==
  /\ Canonical(v.key) = v.key
  /\ ~Resettable(v.key)
  /\ v.raw # Null => v.value = v.raw.text

OneKeyEach(vars) == \A i, j \in DOMAIN vars : vars[i].key = vars[j].key => i = j

RawOf(v) == IF Family \in {"databricks", "snowflake"} THEN Written(SetEntry(v))
            ELSE [text |-> Literal(v.value).text, quoted |-> TRUE]

ItemOf(v) == [key |-> v.key, raw |-> RawOf(v), scope |-> "session"]

\* The variable that its rendered statement leaves.
ReadBack(v) == [key |-> v.key, value |-> Literal(v.value).text, raw |-> RawOf(v)]

LEMMA RenderedSet ==
  ASSUME NEW v
  PROVE  RenderEntry(SetEntry(v)) = [form |-> IF Family = "snowflake" THEN "alter" ELSE "set",
                                     items |-> <<ItemOf(v)>>]
<1> DEFINE entry == SetEntry(v)
<1>1. entry.kind = "set" /\ entry.key = v.key /\ entry.value = v.value
  BY DEF SetEntry
<1> HIDE DEF entry
<1>2. RenderSet(entry) = [form |-> IF Family = "snowflake" THEN "alter" ELSE "set",
                          items |-> <<ItemOf(v)>>]
  BY <1>1 DEF RenderSet, ItemOf, RawOf, entry
<1> QED BY <1>1, <1>2 DEF RenderEntry, entry

LEMMA LiteralIsText ==
  ASSUME Empty \in Texts, NEW value \in Texts \cup {Null}
  PROVE  /\ Literal(value).text \in Texts
         /\ Literal(value).text = IF value = Null THEN Empty ELSE value
         /\ Literal(value) \in Raws
         /\ Literal(Literal(value).text).text = Literal(value).text
<1> DEFINE text == IF value = Null THEN Empty ELSE value
<1>1. text \in Texts /\ text # Null
  BY NullAssumption
<1>2. Literal(value) = [text |-> text, quoted |-> text \notin Bare]
  BY DEF Literal
<1>3. Literal(text) = [text |-> text, quoted |-> text \notin Bare]
  BY <1>1 DEF Literal
<1> HIDE DEF text
<1>4. Literal(value).text = text /\ Literal(text).text = text
  BY <1>2, <1>3
<1>5. Literal(value) \in Raws
  BY <1>1, <1>2 DEF Raws
<1> QED BY <1>1, <1>4, <1>5 DEF text

LEMMA RawOfVariable ==
  ASSUME Empty \in Texts, NEW v \in Variables, PlainVariable(v)
  PROVE  /\ RawOf(v) \in Raws
         /\ RawOf(v).text = Literal(v.value).text
         /\ Literal(v.value).text \in Texts
<1>1. v.value \in Texts \cup {Null} /\ v.raw \in Raws \cup {Null}
  BY DEF Variables
<1>2. Literal(v.value).text \in Texts /\ Literal(v.value) \in Raws
  BY <1>1, LiteralIsText
<1>3. CASE Family \in {"databricks", "snowflake"} /\ v.raw # Null
  <2>1. RawOf(v) = v.raw /\ v.value = v.raw.text /\ v.raw \in Raws
    BY <1>1, <1>3 DEF RawOf, Written, SetEntry, PlainVariable
  <2>2. v.value \in Texts /\ v.value # Null
    BY <2>1, NullAssumption DEF Raws
  <2>3. Literal(v.value).text = v.value
    BY <2>2, <1>1, LiteralIsText
  <2> QED BY <1>2, <2>1, <2>3
<1>4. CASE Family \in {"databricks", "snowflake"} /\ v.raw = Null
  <2>1. RawOf(v) = Literal(v.value)
    BY <1>4 DEF RawOf, Written, SetEntry
  <2> QED BY <1>2, <2>1
<1>5. CASE Family \notin {"databricks", "snowflake"}
  <2>1. RawOf(v) = [text |-> Literal(v.value).text, quoted |-> TRUE]
    BY <1>5 DEF RawOf
  <2> QED BY <1>2, <2>1 DEF Raws
<1> QED BY <1>3, <1>4, <1>5

\* The statement is classified as a set of that variable.
LEMMA SetReads ==
  ASSUME Empty \in Texts, NEW v \in Variables, PlainVariable(v), NEW s, s = RenderEntry(SetEntry(v))
  PROVE  /\ Classify(s) = <<ItemEffect(ItemOf(v))>>
         /\ ItemEffect(ItemOf(v)) \in GoodEffects
         /\ LET e == ItemEffect(ItemOf(v)) IN
            /\ e.kind = "set" /\ e.scope = "session"
            /\ [key |-> e.key, value |-> e.value, raw |-> e.raw] = ReadBack(v)
            /\ ~(e.key = "search_path" /\ Family = "postgres")
<1> DEFINE item == ItemOf(v)
           e == ItemEffect(item)
<1>1. /\ RawOf(v) \in Raws /\ RawOf(v).text = Literal(v.value).text
      /\ v.key \in Keys /\ Canonical(v.key) = v.key /\ ~Resettable(v.key)
  BY RawOfVariable DEF Variables, PlainVariable
<1>2. item.key = v.key /\ item.raw = RawOf(v) /\ item.scope = "session" /\ item \in Items
  BY <1>1 DEF ItemOf, Items
<1>3. e \in GoodEffects
  BY <1>2, ItemEffectOK DEF GoodEffects, EffectOK
<1>4. s.form \in {"set", "alter"} /\ s.items = <<item>>
  BY RenderedSet
<1>5. [i \in DOMAIN <<item>> |-> ItemEffect(<<item>>[i])] = <<e>>
  <2> HIDE DEF item
  <2>1. DOMAIN <<item>> = 1 .. 1 /\ <<item>>[1] = item
    OBVIOUS
  <2> QED BY <2>1
<1>6. Classify(s) = <<e>>
  BY <1>4, <1>5 DEF Classify
<1>7. KindOf(v.key) = "set"
  BY <1>1 DEF KindOf, Resettable
<1> HIDE DEF item
<1>8. e = [NoEffect EXCEPT !.kind = "set", !.scope = "session", !.key = v.key,
                           !.value = RawOf(v).text, !.raw = RawOf(v)]
  BY <1>1, <1>2, <1>7 DEF ItemEffect
<1>9. e.kind = "set" /\ e.scope = "session" /\ e.key = v.key /\ e.value = RawOf(v).text
      /\ e.raw = RawOf(v)
  BY <1>8 DEF NoEffect
<1>10. ~(v.key = "search_path" /\ Family = "postgres")
  BY <1>1 DEF Resettable
<1> HIDE DEF e
<1>11. [key |-> e.key, value |-> e.value, raw |-> e.raw] = ReadBack(v)
  BY <1>1, <1>9 DEF ReadBack
<1> QED BY <1>3, <1>6, <1>9, <1>10, <1>11 DEF e, item

LEMMA SetRuns ==
  ASSUME Empty \in Texts, NEW v \in Variables, PlainVariable(v), NEW c, c.session \in Sessions
  PROVE  LET t == Run(c, RenderEntry(SetEntry(v))).session IN
         /\ t \in Sessions
         /\ t.catalog = c.session.catalog
         /\ t.schema = c.session.schema
         /\ t.warehouse = c.session.warehouse
         /\ t.variables = Assigned(c.session.variables, ReadBack(v))
<1> DEFINE s == RenderEntry(SetEntry(v))
           t == Run(c, s).session
           e == ItemEffect(ItemOf(v))
           vars == Assigned(c.session.variables, ReadBack(v))
           u == [c.session EXCEPT !.variables = vars]
<1>1. /\ Classify(s) = <<e>> /\ e \in GoodEffects
      /\ e.kind = "set" /\ e.scope = "session"
      /\ [key |-> e.key, value |-> e.value, raw |-> e.raw] = ReadBack(v)
      /\ ~(e.key = "search_path" /\ Family = "postgres")
  BY SetReads
<1> HIDE DEF e, s
<1>2. t = Applied(c.session, <<e>>)
  BY <1>1 DEF Run
<1>3. Applied(c.session, <<e>>) = Apply(c.session, e)
  BY DEF Applied
<1>4. t = Apply(c.session, e)
  BY <1>2, <1>3
<1>5. t \in Sessions
  BY <1>1, <1>4, ApplyTyped
<1>6. t = ApplySet(c.session, e)
  BY <1>1, <1>4 DEF Apply
<1>7. ApplySet(c.session, e) = Rebuilt(u)
  BY <1>1 DEF ApplySet
<1>8. /\ u.catalog = c.session.catalog /\ u.schema = c.session.schema
      /\ u.warehouse = c.session.warehouse /\ u.variables = vars
  <2> HIDE DEF vars
  <2> QED BY DEF Sessions
<1>9. u.replayLog = c.session.replayLog /\ DOMAIN u = DOMAIN c.session
  BY DEF Sessions
<1> HIDE DEF vars
<1>10. /\ Rebuilt(u).catalog = u.catalog /\ Rebuilt(u).schema = u.schema
       /\ Rebuilt(u).warehouse = u.warehouse /\ Rebuilt(u).variables = u.variables
  BY DEF Rebuilt, Sessions
<1> HIDE DEF t, u
<1>11. /\ t.catalog = c.session.catalog /\ t.schema = c.session.schema
       /\ t.warehouse = c.session.warehouse /\ t.variables = vars
  BY <1>6, <1>7, <1>8, <1>10
<1> QED BY <1>5, <1>11 DEF t, s, vars

\* The first k variables after the context, as the log holds them.
LogUpTo(s, k) == Context(s) \o [i \in 1 .. k |-> SetEntry(s.variables[i])]

LEMMA LogGrows ==
  ASSUME NEW s \in Sessions
  PROVE  /\ LogUpTo(s, 0) = Context(s)
         /\ LogUpTo(s, Len(s.variables)) = Log(s)
         /\ \A k \in 1 .. Len(s.variables) :
              /\ LogUpTo(s, k - 1) \in Seq(Entries)
              /\ SetEntry(s.variables[k]) \in Entries
              /\ LogUpTo(s, k) = Append(LogUpTo(s, k - 1), SetEntry(s.variables[k]))
<1> DEFINE vars == s.variables
           base == Context(s)
<1>1. vars \in Seq(Variables) /\ base \in Seq(Entries)
  BY ToldContext DEF Sessions
<1>2. \A v \in Variables : SetEntry(v) \in Entries
  BY DEF Variables, SetEntry, Entries
<1> DEFINE Assigning(k) == [i \in 1 .. k |-> SetEntry(vars[i])]
<1>3. LogUpTo(s, 0) = base
  <2>1. Assigning(0) = <<>>
    OBVIOUS
  <2> HIDE DEF Assigning
  <2>2. base \o <<>> = base
    BY <1>1
  <2> QED BY <2>1, <2>2 DEF LogUpTo, Assigning
<1>4. LogUpTo(s, Len(vars)) = Log(s)
  <2>1. DOMAIN vars = 1 .. Len(vars)
    BY <1>1
  <2> QED BY <2>1 DEF LogUpTo, Log
<1>5. ASSUME NEW k \in 1 .. Len(vars)
      PROVE  /\ LogUpTo(s, k - 1) \in Seq(Entries)
             /\ SetEntry(vars[k]) \in Entries
             /\ LogUpTo(s, k) = Append(LogUpTo(s, k - 1), SetEntry(vars[k]))
  <2> DEFINE x == SetEntry(vars[k])
             a == Assigning(k - 1)
             b == Assigning(k)
  <2>1. k \in Nat /\ \A i \in 1 .. k : i \in 1 .. Len(vars) /\ vars[i] \in Variables
    BY <1>1
  <2>2. a \in Seq(Entries) /\ b \in Seq(Entries) /\ x \in Entries
    <3>1. \A i \in 1 .. k : SetEntry(vars[i]) \in Entries
      BY <1>2, <2>1
    <3>2. k - 1 \in Nat /\ \A i \in 1 .. (k - 1) : i \in 1 .. k
      BY <2>1
    <3> QED BY <2>1, <3>1, <3>2
  <2>3. b = Append(a, x)
    <3>1. /\ Len(b) = k /\ Len(a) = k - 1 /\ b[k] = x
          /\ \A i \in 1 .. (k - 1) : b[i] = a[i]
      BY <2>1
    <3> HIDE DEF a, b, x
    <3>2. Append(a, x) \in Seq(Entries) /\ Len(Append(a, x)) = k
          /\ Append(a, x)[k] = x /\ \A i \in 1 .. (k - 1) : Append(a, x)[i] = a[i]
      BY <2>1, <2>2, <3>1
    <3>3. \A i \in 1 .. k : b[i] = Append(a, x)[i]
      BY <2>1, <3>1, <3>2
    <3> QED BY <2>2, <3>1, <3>2, <3>3, SeqEqual
  <2> HIDE DEF a, b, x
  <2>4. base \o Append(a, x) = Append(base \o a, x) /\ base \o a \in Seq(Entries)
    BY <1>1, <2>2
  <2>5. LogUpTo(s, k) = base \o b /\ LogUpTo(s, k - 1) = base \o a
    BY DEF LogUpTo, a, b
  <2> HIDE DEF base
  <2> QED BY <2>2, <2>3, <2>4, <2>5 DEF x
<1> QED BY <1>3, <1>4, <1>5

\* A new variable goes to the end.
LEMMA AssignedLast ==
  ASSUME NEW n \in Nat, NEW f, NEW k \in Nat, k = n + 1, \A i \in 1 .. n : f[i].key # f[k].key
  PROVE  Assigned([i \in 1 .. n |-> f[i]], f[k]) = [i \in 1 .. k |-> f[i]]
<1> DEFINE a == [i \in 1 .. n |-> f[i]]
           b == [i \in 1 .. k |-> f[i]]
<1>1. ~Known(a, f[k].key)
  BY DEF Known
<1>2. Assigned(a, f[k]) = Append(a, f[k])
  BY <1>1 DEF Assigned
<1>3. Append(a, f[k]) = b
  OBVIOUS
<1> QED BY <1>2, <1>3

\* A connection told the whole log has the namespace, the warehouse and the variables.
LEMMA ToldLog ==
  ASSUME Empty \in Texts, NEW s \in Sessions, OneKeyEach(s.variables),
         \A i \in DOMAIN s.variables : PlainVariable(s.variables[i])
  PROVE  LET t == Told(Log(s)).session IN
         /\ t.catalog = s.catalog
         /\ t.schema = s.schema
         /\ t.warehouse = s.warehouse
         /\ t.variables = [i \in DOMAIN s.variables |-> ReadBack(s.variables[i])]
<1> DEFINE vars == s.variables
           n == Len(vars)
           back == [i \in 1 .. n |-> ReadBack(vars[i])]
           Good(k) == LET t == Told(LogUpTo(s, k)).session IN
                      /\ t \in Sessions
                      /\ t.catalog = s.catalog
                      /\ t.schema = s.schema
                      /\ t.warehouse = s.warehouse
                      /\ t.variables = [i \in 1 .. k |-> back[i]]
           K == {k \in 0 .. n : Good(k)}
<1>0. vars \in Seq(Variables) /\ n \in Nat /\ DOMAIN vars = 1 .. n
  BY DEF Sessions
<1>1. 0 \in K
  <2>1. Stands(Told(LogUpTo(s, 0)), s.catalog, s.schema, s.warehouse)
    BY LogGrows, ToldContext
  <2>2. [i \in 1 .. 0 |-> back[i]] = <<>>
    OBVIOUS
  <2> HIDE DEF back
  <2>3. Good(0)
    BY <2>1, <2>2 DEF Stands
  <2> HIDE DEF Good
  <2> QED BY <1>0, <2>3
<1>2. ASSUME NEW k \in 1 .. n, k - 1 \in K PROVE k \in K
  <2> DEFINE v == vars[k]
             log == LogUpTo(s, k - 1)
             c == Told(log)
             t == Told(LogUpTo(s, k)).session
  <2>1. /\ log \in Seq(Entries) /\ SetEntry(v) \in Entries
        /\ LogUpTo(s, k) = Append(log, SetEntry(v))
    BY LogGrows
  <2>2. v \in Variables /\ PlainVariable(v)
    BY <1>0
  <2>3. Good(k - 1)
    BY <1>2
  <2>4. Told(LogUpTo(s, k)) = Run(c, RenderEntry(SetEntry(v)))
    BY <2>1, ToldAppend
  <2>5. /\ c.session \in Sessions
        /\ c.session.catalog = s.catalog
        /\ c.session.schema = s.schema
        /\ c.session.warehouse = s.warehouse
        /\ c.session.variables = [i \in 1 .. (k - 1) |-> back[i]]
    BY <2>3
  <2> HIDE DEF v, log, c
  <2>6. /\ t \in Sessions
        /\ t.catalog = s.catalog
        /\ t.schema = s.schema
        /\ t.warehouse = s.warehouse
        /\ t.variables = Assigned([i \in 1 .. (k - 1) |-> back[i]], ReadBack(v))
    <3> DEFINE d == Run(c, RenderEntry(SetEntry(v)))
               before == [i \in 1 .. (k - 1) |-> back[i]]
    <3>1. /\ d.session \in Sessions
          /\ d.session.catalog = c.session.catalog
          /\ d.session.schema = c.session.schema
          /\ d.session.warehouse = c.session.warehouse
          /\ d.session.variables = Assigned(c.session.variables, ReadBack(v))
      BY <2>2, <2>5, SetRuns
    <3>2. c.session.variables = before
      BY <2>5
    <3> HIDE DEF d, before
    <3>3. t = d.session
      BY <2>4 DEF d
    <3> HIDE DEF t
    <3>4. /\ t \in Sessions
          /\ t.catalog = s.catalog
          /\ t.schema = s.schema
          /\ t.warehouse = s.warehouse
          /\ t.variables = Assigned(before, ReadBack(v))
      BY <2>5, <3>1, <3>2, <3>3
    <3> QED BY <3>4 DEF before, t
  <2>7. k \in Nat /\ k - 1 \in Nat /\ k = (k - 1) + 1 /\ k \in 0 .. n
    BY <1>0
  <2>8. back[k] = ReadBack(v) /\ \A i \in 1 .. (k - 1) : back[i].key # back[k].key
    <3>1. \A i \in 1 .. n : back[i].key = vars[i].key
      BY DEF ReadBack
    <3>2. \A i \in 1 .. (k - 1) : i \in 1 .. n /\ i # k
      BY <1>0
    <3>3. \A i \in 1 .. (k - 1) : vars[i].key # vars[k].key
      BY <1>0, <3>2 DEF OneKeyEach
    <3>4. back[k] = ReadBack(v)
      BY DEF v
    <3> HIDE DEF back, vars
    <3> QED BY <3>1, <3>2, <3>3, <3>4
  <2> HIDE DEF back, t
  <2>9. Assigned([i \in 1 .. (k - 1) |-> back[i]], ReadBack(v)) = [i \in 1 .. k |-> back[i]]
    BY <2>7, <2>8, AssignedLast
  <2>10. Good(k)
    BY <2>6, <2>9 DEF t
  <2> HIDE DEF Good
  <2> QED BY <2>7, <2>10
<1>3. Good(n)
  <2> HIDE DEF K, n
  <2>1. 0 .. n \subseteq K
    BY <1>0, <1>1, <1>2, InductionUpTo
  <2>2. n \in K
    BY <1>0, <2>1
  <2> QED BY <2>2 DEF K
<1>4. LogUpTo(s, n) = Log(s)
  BY LogGrows
<1>5. [i \in 1 .. n |-> back[i]] = [i \in DOMAIN vars |-> ReadBack(vars[i])]
  BY <1>0
<1> HIDE DEF back
<1> QED BY <1>3, <1>4, <1>5

\* Neither the session role nor the one in the log matters to what RoundTrip compares.
LEMMA ToldReplayLog ==
  ASSUME NEW s \in Sessions, Lags(s)
  PROVE  \E u \in Sessions : /\ s.replayLog = Log(u)
                             /\ u.catalog = s.catalog
                             /\ u.schema = s.schema
                             /\ u.warehouse = s.warehouse
                             /\ u.variables = s.variables
<1>1. PICK r \in Texts \cup {Null} : s.replayLog = Log([s EXCEPT !.role = r])
  BY DEF Lags
<1> DEFINE u == [s EXCEPT !.role = r]
<1>2. u \in Sessions /\ u.catalog = s.catalog /\ u.schema = s.schema /\ u.warehouse = s.warehouse
      /\ u.variables = s.variables
  BY DEF Sessions
<1> HIDE DEF u
<1> QED BY <1>1, <1>2 DEF u

LEMMA RoundTripOf ==
  ASSUME Empty \in Texts, session \in Sessions, Lags(session), OneKeyEach(session.variables),
         \A i \in DOMAIN session.variables : PlainVariable(session.variables[i])
  PROVE  RoundTrip
<1> DEFINE again == Replayed(Render(session)).session
           vars == session.variables
           back == [i \in DOMAIN vars |-> ReadBack(vars[i])]
<1>1. PICK u \in Sessions : /\ session.replayLog = Log(u)
                            /\ u.catalog = session.catalog
                            /\ u.schema = session.schema
                            /\ u.warehouse = session.warehouse
                            /\ u.variables = session.variables
  BY ToldReplayLog
<1>2. again = Told(Log(u)).session
  BY <1>1 DEF Told, Rendered, Render
<1>3. /\ again.catalog = session.catalog
      /\ again.schema = session.schema
      /\ again.warehouse = session.warehouse
      /\ again.variables = back
  <2> HIDE DEF again
  <2> QED BY <1>1, <1>2, ToldLog
<1>4. Shown(back) = Shown(vars)
  <2>1. ASSUME NEW i \in DOMAIN vars
        PROVE  <<back[i].key, Literal(back[i].value).text>> = <<vars[i].key, Literal(vars[i].value).text>>
    <3>1. vars[i].value \in Texts \cup {Null}
      <4>1. vars \in Seq(Variables)
        BY DEF Sessions
      <4>2. vars[i] \in Variables
        BY <4>1
      <4> QED BY <4>2 DEF Variables
    <3>2. Literal(Literal(vars[i].value).text).text = Literal(vars[i].value).text
      BY <3>1, LiteralIsText
    <3>3. back[i].key = vars[i].key /\ back[i].value = Literal(vars[i].value).text
      BY DEF ReadBack
    <3> QED BY <3>2, <3>3
  <2>2. DOMAIN back = DOMAIN vars
    OBVIOUS
  <2> HIDE DEF back, vars
  <2> QED BY <2>1, <2>2 DEF Shown
<1> QED BY <1>3, <1>4 DEF RoundTrip

-----------------------------------------------------------------------------
(* What the statements do to the variables.                                  *)

\* The variables are a set of which each assignment replaces the one of its key.
LEMMA AssignedHolds ==
  ASSUME NEW vars \in Seq(Variables), OneKeyEach(vars), NEW v \in Variables
  PROVE  /\ OneKeyEach(Assigned(vars, v))
         /\ Range(Assigned(vars, v)) = {w \in Range(vars) : w.key # v.key} \cup {v}
<1> DEFINE n == Len(vars)
           new == Assigned(vars, v)
           H == {w \in Range(vars) : w.key # v.key} \cup {v}
<1>0. n \in Nat /\ DOMAIN vars = 1 .. n /\ Range(vars) = {vars[i] : i \in 1 .. n}
  BY DEF Range
<1>1. CASE Known(vars, v.key)
  <2>1. new = [i \in 1 .. n |-> IF vars[i].key = v.key THEN v ELSE vars[i]]
    BY <1>0, <1>1 DEF Assigned
  <2>2. PICK at \in 1 .. n : vars[at].key = v.key
    BY <1>0, <1>1 DEF Known
  <2>3. DOMAIN new = 1 .. n /\ \A i \in 1 .. n : new[i].key = vars[i].key
    BY <2>1
  <2>4. OneKeyEach(new)
    BY <1>0, <2>3 DEF OneKeyEach
  <2>5. \A i \in 1 .. n : new[i] \in H
    BY <1>0, <2>1
  <2>6. new[at] = v
    BY <2>1, <2>2
  <2>7. \A i \in 1 .. n : vars[i].key # v.key => new[i] = vars[i]
    BY <2>1
  <2> HIDE DEF new
  <2>8. Range(new) = H
    <3>1. Range(new) = {new[i] : i \in 1 .. n}
      BY <2>3 DEF Range
    <3> QED BY <1>0, <2>2, <2>5, <2>6, <2>7, <3>1
  <2> QED BY <2>4, <2>8 DEF new
<1>2. CASE ~Known(vars, v.key)
  <2>1. new = Append(vars, v)
    BY <1>2 DEF Assigned
  <2>2. \A i \in 1 .. n : vars[i].key # v.key
    BY <1>0, <1>2 DEF Known
  <2>3. /\ DOMAIN new = 1 .. (n + 1) /\ new[n + 1] = v
        /\ \A i \in 1 .. n : new[i] = vars[i]
    BY <2>1
  <2> HIDE DEF new
  <2>4. OneKeyEach(new)
    <3>1. \A i \in 1 .. (n + 1) : i \in 1 .. n \/ i = n + 1
      BY <1>0
    <3> QED BY <1>0, <2>2, <2>3, <3>1 DEF OneKeyEach
  <2>5. Range(new) = H
    <3>1. Range(new) = {new[i] : i \in 1 .. (n + 1)}
      BY <2>3 DEF Range
    <3>2. \A i \in 1 .. (n + 1) : i \in 1 .. n \/ i = n + 1
      BY <1>0
    <3>3. \A i \in 1 .. n : i \in 1 .. (n + 1)
      BY <1>0
    <3>4. n + 1 \in 1 .. (n + 1)
      BY <1>0
    <3> QED BY <1>0, <2>2, <2>3, <3>1, <3>2, <3>3, <3>4
  <2> QED BY <2>4, <2>5 DEF new
<1> QED BY <1>1, <1>2

LEMMA DeletedHolds ==
  ASSUME NEW vars \in Seq(Variables), OneKeyEach(vars), NEW k
  PROVE  /\ OneKeyEach(Deleted(vars, k))
         /\ Range(Deleted(vars, k)) = {w \in Range(vars) : w.key # k}
<1> DEFINE n == Len(vars)
           new == Deleted(vars, k)
           H == {w \in Range(vars) : w.key # k}
<1>0. n \in Nat /\ DOMAIN vars = 1 .. n /\ Range(vars) = {vars[i] : i \in 1 .. n}
  BY DEF Range
<1>1. CASE Known(vars, k)
  <2> DEFINE at == CHOOSE i \in DOMAIN vars : vars[i].key = k
             a == SubSeq(vars, 1, at - 1)
             b == SubSeq(vars, at + 1, n)
             old(i) == IF i < at THEN i ELSE i + 1
  <2>1. at \in 1 .. n /\ vars[at].key = k
    BY <1>0, <1>1 DEF Known
  <2>2. new = a \o b
    BY <1>1 DEF Deleted
  <2> HIDE DEF at
  <2>3. \A i \in 1 .. n : vars[i].key = k <=> i = at
    BY <1>0, <2>1 DEF OneKeyEach
  <2>4. /\ a \in Seq(Variables) /\ Len(a) = at - 1 /\ \A i \in 1 .. (at - 1) : a[i] = vars[i]
        /\ b \in Seq(Variables) /\ Len(b) = n - at /\ \A i \in 1 .. (n - at) : b[i] = vars[at + i]
    <3>1. at \in Int /\ at - 1 \in Int /\ at + 1 \in Int /\ n \in Int /\ 1 \in Int
      BY <1>0, <2>1
    <3>2. /\ \A i \in 1 .. (at - 1) : vars[i] \in Variables
          /\ \A i \in (at + 1) .. n : vars[i] \in Variables
      BY <1>0, <2>1
    <3>3. /\ a \in Seq(Variables) /\ Len(a) = IF 1 <= at - 1 THEN (at - 1) - 1 + 1 ELSE 0
          /\ \A i \in 1 .. ((at - 1) - 1 + 1) : a[i] = vars[1 + i - 1]
      <4> HIDE DEF n
      <4> QED BY <3>1, <3>2, SubSeqProperties
    <3>4. /\ b \in Seq(Variables) /\ Len(b) = IF at + 1 <= n THEN n - (at + 1) + 1 ELSE 0
          /\ \A i \in 1 .. (n - (at + 1) + 1) : b[i] = vars[(at + 1) + i - 1]
      <4> HIDE DEF n
      <4> QED BY <3>1, <3>2, SubSeqProperties
    <3> HIDE DEF a, b
    <3>5. Len(a) = at - 1 /\ Len(b) = n - at
      <4>1. /\ at - 1 = IF 1 <= at - 1 THEN (at - 1) - 1 + 1 ELSE 0
            /\ n - at = IF at + 1 <= n THEN n - (at + 1) + 1 ELSE 0
        <5>1. 1 <= at /\ at <= n
          BY <1>0, <2>1
        <5> HIDE DEF n
        <5> QED BY <3>1, <5>1
      <4>2. Len(a) = IF 1 <= at - 1 THEN (at - 1) - 1 + 1 ELSE 0
        BY <3>3, Zenon
      <4>3. Len(b) = IF at + 1 <= n THEN n - (at + 1) + 1 ELSE 0
        BY <3>4, Zenon
      <4> QED BY <4>1, <4>2, <4>3
    <3>6. \A i \in 1 .. (at - 1) : a[i] = vars[i]
      <4>1. (at - 1) - 1 + 1 = at - 1 /\ \A i \in 1 .. (at - 1) : 1 + i - 1 = i
        BY <3>1
      <4> QED BY <3>3, <4>1
    <3>7. \A i \in 1 .. (n - at) : b[i] = vars[at + i]
      <4>1. n - (at + 1) + 1 = n - at /\ \A i \in 1 .. (n - at) : (at + 1) + i - 1 = at + i
        BY <3>1
      <4> QED BY <3>4, <4>1
    <3> QED BY <3>3, <3>4, <3>5, <3>6, <3>7
  <2> HIDE DEF a, b, new
  <2>5. /\ new \in Seq(Variables) /\ Len(new) = n - 1
        /\ \A i \in 1 .. (n - 1) : new[i] = IF i <= at - 1 THEN a[i] ELSE b[i - (at - 1)]
    <3>1. (at - 1) + (n - at) = n - 1
      BY <1>0, <2>1
    <3> QED BY <2>2, <2>4, <3>1, ConcatProperties
  <2>6. DOMAIN new = 1 .. (n - 1) /\ \A i \in 1 .. (n - 1) : new[i] = vars[old(i)]
    <3>1. DOMAIN new = 1 .. (n - 1)
      BY <2>5
    <3>2. ASSUME NEW i \in 1 .. (n - 1) PROVE new[i] = vars[old(i)]
      <4>1. i \in Int /\ at \in Int /\ n \in Int
        BY <1>0, <2>1
      <4>2. CASE i < at
        <5>1. i <= at - 1 /\ i \in 1 .. (at - 1)
          BY <4>1, <4>2
        <5> QED BY <2>4, <2>5, <4>2, <5>1
      <4>3. CASE ~(i < at)
        <5>1. ~(i <= at - 1) /\ i - (at - 1) \in 1 .. (n - at) /\ at + (i - (at - 1)) = i + 1
          BY <4>1, <4>3
        <5>2. new[i] = b[i - (at - 1)]
          BY <2>5, <5>1
        <5>3. b[i - (at - 1)] = vars[at + (i - (at - 1))]
          BY <2>4, <5>1
        <5> QED BY <4>3, <5>1, <5>2, <5>3
      <4> QED BY <4>2, <4>3
    <3> QED BY <3>1, <3>2
  <2>7. /\ \A i \in 1 .. (n - 1) : old(i) \in 1 .. n /\ old(i) # at
        /\ \A i, j \in 1 .. (n - 1) : old(i) = old(j) => i = j
        /\ \A j \in 1 .. n : j # at => \E i \in 1 .. (n - 1) : old(i) = j
    <3>1. \A i \in 1 .. (n - 1) : old(i) \in 1 .. n /\ old(i) # at
      BY <1>0, <2>1
    <3>2. \A i, j \in 1 .. (n - 1) : old(i) = old(j) => i = j
      BY <1>0, <2>1
    <3>3. ASSUME NEW j \in 1 .. n, j # at PROVE \E i \in 1 .. (n - 1) : old(i) = j
      <4> DEFINE i == IF j < at THEN j ELSE j - 1
      <4>1. i \in 1 .. (n - 1) /\ old(i) = j
        BY <1>0, <2>1, <3>3
      <4> QED BY <4>1
    <3> HIDE DEF old
    <3> QED BY <3>1, <3>2, <3>3
  <2> HIDE DEF old
  <2>8. OneKeyEach(new)
    <3>1. ASSUME NEW i \in 1 .. (n - 1), NEW j \in 1 .. (n - 1), new[i].key = new[j].key PROVE i = j
      <4>1. vars[old(i)].key = vars[old(j)].key
        BY <2>6, <3>1
      <4>2. old(i) = old(j)
        BY <1>0, <2>7, <4>1 DEF OneKeyEach
      <4> QED BY <2>7, <4>2
    <3> QED BY <2>6, <3>1 DEF OneKeyEach
  <2>9. Range(new) = H
    <3>1. Range(new) = {new[i] : i \in 1 .. (n - 1)}
      BY <2>6 DEF Range
    <3>2. \A i \in 1 .. (n - 1) : new[i] \in H
      BY <1>0, <2>3, <2>6, <2>7
    <3>3. ASSUME NEW w \in H PROVE \E i \in 1 .. (n - 1) : new[i] = w
      <4>1. PICK j \in 1 .. n : vars[j] = w /\ w.key # k
        BY <1>0
      <4>2. j # at
        BY <2>3, <4>1
      <4>3. PICK i \in 1 .. (n - 1) : old(i) = j
        BY <2>7, <4>2
      <4> QED BY <2>6, <4>1, <4>3
    <3> HIDE DEF H
    <3> QED BY <3>1, <3>2, <3>3
  <2> QED BY <2>8, <2>9 DEF new
<1>2. CASE ~Known(vars, k)
  <2>1. new = vars
    BY <1>2 DEF Deleted
  <2>2. \A i \in 1 .. n : vars[i].key # k
    BY <1>0, <1>2 DEF Known
  <2> HIDE DEF new
  <2> QED BY <1>0, <2>1, <2>2 DEF new
<1> QED BY <1>1, <1>2

VariableOf(e) == [key |-> e.key, value |-> e.value, raw |-> e.raw]

\* The effects that assign a variable, and those that delete one.
Stores(e) == /\ e.scope # "local" /\ e.kind \in {"set", "variable"}
             /\ ~(e.key = "search_path" /\ Family = "postgres")
Drops(e) == e.scope # "local" /\ e.kind = "reset" /\ ~Resettable(e.key)

LEMMA ApplyToVariables ==
  ASSUME NEW s \in Sessions, NEW e \in GoodEffects
  PROVE  /\ Stores(e) => /\ VariableOf(e) \in Variables
                         /\ Apply(s, e).variables = Assigned(s.variables, VariableOf(e))
         /\ Drops(e) => Apply(s, e).variables = Deleted(s.variables, e.key)
         /\ ~Stores(e) /\ ~Drops(e) => Apply(s, e).variables = s.variables
<1>e. EffectOK(e) /\ e \in Effects
  BY DEF GoodEffects
<1>0. \A u \in Sessions : Rebuilt(u).variables = u.variables
  BY DEF Rebuilt, Sessions
<1>1. CASE e.scope # "local" /\ e.kind = "use"
  <2>1. Named(s, e) \in Sessions
    BY <1>e DEF Named, Sessions, Effects
  <2>2. Apply(s, e) = Rebuilt(Named(s, e))
    BY <1>1 DEF Apply, ApplyUse
  <2>3. Named(s, e).variables = s.variables
    BY DEF Named, Sessions
  <2> QED BY <1>0, <1>1, <2>1, <2>2, <2>3 DEF Stores, Drops
<1>2. CASE e.scope # "local" /\ e.kind \in {"role", "auth", "discard"}
  <2>1. Apply(s, e) \in {ApplyRole(s, e), ApplyAuth(s), ApplyDiscard(s)}
    BY <1>2 DEF Apply
  <2>2. Apply(s, e).variables = s.variables
    BY <2>1 DEF ApplyRole, ApplyAuth, ApplyDiscard, Sessions
  <2> QED BY <1>2, <2>2 DEF Stores, Drops
<1>3. CASE e.scope # "local" /\ e.kind = "reset"
  <2> DEFINE left == Deleted(s.variables, e.key)
  <2>1. left \in Seq(Variables)
    BY DeletedTyped DEF Sessions
  <2> HIDE DEF left
  <2>2. Cleared(s, e) \in Sessions
    BY <2>1 DEF Cleared, Sessions, left
  <2>3. Apply(s, e) = Rebuilt(Cleared(s, e))
    BY <1>3 DEF Apply, ApplyReset
  <2>4. CASE Resettable(e.key)
    <3>1. Cleared(s, e).variables = s.variables
      BY <2>4 DEF Cleared, Resettable, Sessions
    <3> QED BY <1>0, <1>3, <2>2, <2>3, <2>4, <3>1 DEF Stores, Drops
  <2>5. CASE ~Resettable(e.key)
    <3>1. Cleared(s, e) = [s EXCEPT !.variables = left]
      BY <2>5 DEF Cleared, Resettable, left
    <3>2. Cleared(s, e).variables = left
      BY <3>1 DEF Sessions
    <3> QED BY <1>0, <1>3, <2>2, <2>3, <2>5, <3>2 DEF Stores, Drops, left
  <2> QED BY <2>4, <2>5
<1>4. CASE e.scope # "local" /\ e.kind \in {"set", "variable"}
  <2>1. Apply(s, e) = ApplySet(s, e)
    BY <1>4 DEF Apply
  <2>2. CASE e.key = "search_path" /\ Family = "postgres"
    <3>1. Apply(s, e).variables = s.variables
      BY <2>1, <2>2 DEF ApplySet, Sessions
    <3> QED BY <1>4, <2>2, <3>1 DEF Stores, Drops
  <2>3. CASE ~(e.key = "search_path" /\ Family = "postgres")
    <3> DEFINE v == VariableOf(e)
               vars == Assigned(s.variables, v)
               u == [s EXCEPT !.variables = vars]
    <3>1. v \in Variables
      BY <1>4, <1>e DEF EffectOK, Effects, Variables, VariableOf
    <3>2. vars \in Seq(Variables)
      BY <3>1, AssignedTyped DEF Sessions
    <3>3. ApplySet(s, e) = Rebuilt(u)
      BY <2>3 DEF ApplySet, VariableOf
    <3> HIDE DEF vars, v
    <3>4. u \in Sessions /\ u.variables = vars
      BY <3>2 DEF Sessions
    <3> HIDE DEF u
    <3>5. Apply(s, e).variables = vars
      BY <1>0, <2>1, <3>3, <3>4
    <3> QED BY <1>4, <2>3, <3>1, <3>5 DEF Stores, Drops, vars, v
  <2> QED BY <2>2, <2>3
<1>5. CASE \/ e.scope = "local"
           \/ e.kind \notin {"use", "role", "auth", "reset", "discard", "set", "variable"}
  <2>1. Apply(s, e) = s
    BY <1>5 DEF Apply
  <2> QED BY <1>5, <2>1 DEF Stores, Drops
<1> QED BY <1>1, <1>2, <1>3, <1>4, <1>5

-----------------------------------------------------------------------------
(* RoundTrip of every reachable state.                                       *)

PlainVariables(s) == OneKeyEach(s.variables) /\ \A w \in Range(s.variables) : PlainVariable(w)

PlainEffects == {e \in GoodEffects : Stores(e) => PlainVariable(VariableOf(e))}

LEMMA CanonicalTwice ==
  ASSUME UpperTwice, NEW k \in Keys PROVE Canonical(Canonical(k)) = Canonical(k)
<1>1. CASE Family = "postgres"
  <2>1. CASE Lower[k] = "schema"
    <3>1. Canonical(k) = "search_path"
      BY <1>1, <2>1 DEF Canonical, SpecialKeys
    <3>2. Lower["search_path"] = "search_path"
      BY KeysAssumption DEF SpecialKeys
    <3> QED BY <1>1, <3>1, <3>2 DEF Canonical, SpecialKeys
  <2>2. CASE Lower[k] \in SpecialKeys \ {"all"}
    <3>1. Canonical(k) = Lower[k]
      BY <1>1, <2>2 DEF Canonical, SpecialKeys
    <3>2. Lower[Lower[k]] = Lower[k]
      BY <2>2, KeysAssumption
    <3> QED BY <1>1, <2>2, <3>1, <3>2 DEF Canonical, SpecialKeys
  <2>3. CASE Lower[k] # "schema" /\ Lower[k] \notin SpecialKeys \ {"all"}
    <3>1. Canonical(k) = k
      BY <1>1, <2>3 DEF Canonical
    <3> QED BY <3>1
  <2> QED BY <2>1, <2>2, <2>3
<1>2. CASE Family = "snowflake"
  <2>1. \A l : Canonical(l) = Upper[l]
    BY <1>2 DEF Canonical
  <2> QED BY <2>1 DEF UpperTwice
<1>3. CASE Family \notin {"postgres", "snowflake"}
  <2>1. \A l : Canonical(l) = l
    BY <1>3 DEF Canonical
  <2> QED BY <2>1
<1> QED BY <1>1, <1>2, <1>3

LEMMA ItemPlain ==
  ASSUME UpperTwice, NEW item \in Items PROVE ItemEffect(item) \in PlainEffects
<1> DEFINE e == ItemEffect(item)
           k == Canonical(item.key)
           isReset == Resettable(k) /\ item.raw.text \in Sentinels
<1>1. e \in GoodEffects
  BY ItemEffectOK DEF GoodEffects, EffectOK
<1>2. e.kind = (IF isReset THEN "reset" ELSE KindOf(k)) /\ e.key = k
      /\ e.value = item.raw.text /\ e.raw = item.raw
  BY DEF ItemEffect, NoEffect
<1>3. Canonical(k) = k
  BY CanonicalTwice DEF Items
<1> HIDE DEF e, k
<1>4. Stores(e) => ~Resettable(k)
  BY <1>2 DEF Stores, Resettable, KindOf
<1>5. VariableOf(e) = [key |-> k, value |-> item.raw.text, raw |-> item.raw]
  BY <1>2 DEF VariableOf
<1>6. Stores(e) => PlainVariable(VariableOf(e))
  BY <1>3, <1>4, <1>5 DEF PlainVariable
<1> QED BY <1>1, <1>6 DEF PlainEffects, e

LEMMA ShortIsSeq ==
  ASSUME NEW S, NEW q \in Short(S)
  PROVE  /\ q \in Seq(S) /\ Len(q) \in {1, 2}
         /\ q[1] \in S /\ (Len(q) = 2 => q[2] \in S)
<1>1. CASE \E x \in S : q = <<x>>
  BY <1>1
<1>2. CASE \E x, y \in S : q = <<x, y>>
  BY <1>2
<1> QED BY <1>1, <1>2 DEF Short

\* A statement of one effect or two, where the two come from the items of a SET.
LEMMA ClassifyPlain ==
  ASSUME UpperTwice, DeclaresPlainly, NEW s \in Statements
  PROVE  ShortOf(PlainEffects, Classify(s))
<1> DEFINE es == Classify(s)
<1> SUFFICES ShortOf(PlainEffects, es)
  OBVIOUS
<1>0. ShortOf(GoodEffects, es)
  BY ClassifyOK
<1>a. ASSUME \A i \in 1 .. Len(es) : Stores(es[i]) => PlainVariable(VariableOf(es[i]))
      PROVE  ShortOf(PlainEffects, es)
  <2> HIDE DEF es
  <2>1. CASE Len(es) = 1
    <3>1. 1 \in 1 .. Len(es)
      BY <2>1
    <3> QED BY <1>0, <1>a, <2>1, <3>1 DEF ShortOf, PlainEffects
  <2>2. CASE Len(es) = 2
    <3>1. 1 \in 1 .. Len(es) /\ 2 \in 1 .. Len(es)
      BY <2>2
    <3> QED BY <1>0, <1>a, <2>2, <3>1 DEF ShortOf, PlainEffects
  <2> QED BY <1>0, <2>1, <2>2 DEF ShortOf
<1>b. ASSUME NEW e, es = <<e>>, Stores(e) => PlainVariable(VariableOf(e))
      PROVE  ShortOf(PlainEffects, es)
  <2>1. Len(es) = 1 /\ \A i \in 1 .. Len(es) : es[i] = e
    BY <1>b
  <2> HIDE DEF es
  <2> QED BY <1>a, <1>b, <2>1
<1>1. CASE s \in Uses
  <2>1. es = <<UseEffect(s)>>
    BY <1>1 DEF Uses, Classify
  <2>2. UseEffect(s).kind \in {"use", "role"}
    BY DEF UseEffect, NoEffect
  <2> QED BY <1>b, <2>1, <2>2 DEF Stores
<1>2. CASE s \in Sets
  <2>1. es = [i \in DOMAIN s.items |-> ItemEffect(s.items[i])]
    BY <1>2 DEF Sets, Classify
  <2>3. s.items \in Seq(Items)
    BY <1>2, ShortIsSeq DEF Sets
  <2>4. \A i \in 1 .. Len(es) : s.items[i] \in Items /\ es[i] = ItemEffect(s.items[i])
    BY <2>1, <2>3
  <2> HIDE DEF es
  <2> QED BY <1>a, <2>4, ItemPlain DEF PlainEffects
<1>3. CASE s \in Unsets
  <2>1. es = [i \in DOMAIN s.items |-> UnsetEffect(s.items[i])]
    BY <1>3 DEF Unsets, Classify
  <2>2. s.items \in Seq(Keys)
    BY <1>3, ShortIsSeq DEF Unsets
  <2>3. \A k : UnsetEffect(k).kind = "reset"
    BY DEF UnsetEffect, NoEffect
  <2>4. \A i \in 1 .. Len(es) : es[i].kind = "reset"
    BY <2>1, <2>2, <2>3
  <2> HIDE DEF es
  <2> QED BY <1>a, <2>4 DEF Stores
<1>4. CASE s \in Resets
  <2>1. es = <<ResetEffect(s.key)>>
    BY <1>4 DEF Resets, Classify
  <2>2. ResetEffect(s.key).kind \in {"reset", "none"}
    BY DEF ResetEffect, NoEffect
  <2> QED BY <1>b, <2>1, <2>2 DEF Stores
<1>5. CASE s \in Commands
  <2>1. es = <<CommandEffect(s)>>
    BY <1>5 DEF Commands, Classify
  <2> DEFINE e == CommandEffect(s)
  <2>2. CASE Family # "postgres"
    <3>1. e.kind = "none"
      BY <2>2 DEF CommandEffect, NoEffect
    <3> QED BY <1>b, <2>1, <3>1 DEF Stores
  <2>3. CASE Family = "postgres"
    <3>1. s.key \in {"search_path", "role", "session_authorization"}
      BY <1>5 DEF Commands
    <3>2. e.key = s.key /\ e.kind \in {"reset", KindOf(s.key)}
      BY <2>3 DEF CommandEffect, NoEffect
    <3>3. ~Stores(e)
      BY <2>3, <3>1, <3>2 DEF Stores, KindOf
    <3> QED BY <1>b, <2>1, <3>3
  <2> QED BY <2>2, <2>3
<1>6. CASE s \in Declares
  <2> DEFINE e == DeclareEffect(s)
  <2>1. es = <<e>>
    BY <1>6 DEF Declares, Classify
  <2>2. s.form = "declare"
    BY <1>6 DEF Declares
  <2>3. Canonical(s.key) = s.key /\ ~Resettable(s.key)
    BY <2>2 DEF DeclaresPlainly
  <2>4. e.key = s.key /\ (e.raw # Null => e.value = e.raw.text)
    <3>1. s.raw \in Raws \cup {Null}
      BY <1>6 DEF Declares
    <3>2. e.key = s.key /\ e.value = (IF s.raw = Null THEN Null ELSE s.raw.text)
          /\ e.raw = (IF s.raw = Null THEN Null ELSE [s.raw EXCEPT !.quoted = FALSE])
      BY DEF DeclareEffect, NoEffect
    <3>3. s.raw # Null => [s.raw EXCEPT !.quoted = FALSE].text = s.raw.text
      BY <3>1 DEF Raws
    <3> QED BY <3>2, <3>3
  <2> HIDE DEF e
  <2>5. PlainVariable(VariableOf(e))
    BY <2>3, <2>4 DEF PlainVariable, VariableOf
  <2> QED BY <1>b, <2>1, <2>5
<1>7. CASE s \in Plain
  <2>1. s.form \in {"discard", "opaque", "other"}
    BY <1>7 DEF Plain
  <2>2. \/ es = <<DiscardEffect>>
        \/ es = <<[NoEffect EXCEPT !.kind = "unknown"]>>
        \/ es = <<NoEffect>>
    BY <2>1 DEF Classify
  <2>3. /\ DiscardEffect.kind \in {"discard", "none"}
        /\ [NoEffect EXCEPT !.kind = "unknown"].kind = "unknown"
        /\ NoEffect.kind = "none"
    BY DEF DiscardEffect, NoEffect
  <2>4. /\ ~Stores(DiscardEffect)
        /\ ~Stores([NoEffect EXCEPT !.kind = "unknown"])
        /\ ~Stores(NoEffect)
    BY <2>3 DEF Stores
  <2> HIDE DEF es
  <2> QED BY <1>b, <2>2, <2>4
<1> QED BY <1>1, <1>2, <1>3, <1>4, <1>5, <1>6, <1>7, StatementsAssumption DEF AllStatements

LEMMA ApplyPlain ==
  ASSUME NEW s \in Sessions, PlainVariables(s), NEW e \in PlainEffects
  PROVE  Apply(s, e) \in Sessions /\ PlainVariables(Apply(s, e))
<1> DEFINE t == Apply(s, e)
<1>0. e \in GoodEffects /\ s.variables \in Seq(Variables) /\ OneKeyEach(s.variables)
      /\ (Stores(e) => PlainVariable(VariableOf(e)))
      /\ \A w \in Range(s.variables) : PlainVariable(w)
  BY DEF PlainEffects, Sessions, PlainVariables
<1>1. t \in Sessions
  BY <1>0, ApplyTyped
<1>2. /\ Stores(e) => /\ VariableOf(e) \in Variables
                      /\ t.variables = Assigned(s.variables, VariableOf(e))
      /\ Drops(e) => t.variables = Deleted(s.variables, e.key)
      /\ ~Stores(e) /\ ~Drops(e) => t.variables = s.variables
  BY <1>0, ApplyToVariables
<1> HIDE DEF t
<1>3. CASE Stores(e)
  <2> DEFINE v == VariableOf(e)
             new == Assigned(s.variables, v)
  <2>1. v \in Variables /\ PlainVariable(v) /\ t.variables = new
    BY <1>0, <1>2, <1>3
  <2> HIDE DEF v
  <2>2. OneKeyEach(new) /\ Range(new) = {w \in Range(s.variables) : w.key # v.key} \cup {v}
    BY <1>0, <2>1, AssignedHolds
  <2> HIDE DEF new
  <2> QED BY <1>0, <1>1, <2>1, <2>2 DEF PlainVariables, t
<1>4. CASE Drops(e)
  <2> DEFINE new == Deleted(s.variables, e.key)
  <2>1. OneKeyEach(new) /\ Range(new) = {w \in Range(s.variables) : w.key # e.key}
    BY <1>0, DeletedHolds
  <2>2. t.variables = new
    BY <1>2, <1>4
  <2> HIDE DEF new
  <2> QED BY <1>0, <1>1, <2>1, <2>2 DEF PlainVariables, t
<1>5. CASE ~Stores(e) /\ ~Drops(e)
  BY <1>0, <1>1, <1>2, <1>5 DEF PlainVariables, t
<1> QED BY <1>3, <1>4, <1>5

LEMMA AppliedPlain ==
  ASSUME NEW s \in Sessions, PlainVariables(s), NEW es, ShortOf(PlainEffects, es)
  PROVE  PlainVariables(Applied(s, es))
<1>1. CASE Len(es) = 2
  <2>1. Apply(s, es[1]) \in Sessions /\ PlainVariables(Apply(s, es[1]))
    BY <1>1, ApplyPlain DEF ShortOf
  <2>2. PlainVariables(Apply(Apply(s, es[1]), es[2]))
    BY <1>1, <2>1, ApplyPlain DEF ShortOf
  <2> QED BY <1>1, <2>2 DEF Applied
<1>2. CASE Len(es) # 2
  BY <1>2, ApplyPlain DEF ShortOf, Applied
<1> QED BY <1>1, <1>2

\* The client of the replay is a client of the tracker.
LEMMA ReplayIsTracked == ReplaySpec => Spec
<1>1. ReplayInit => Init
  BY DEF ReplayInit
<1>2. [ReplayNext]_<<session, settings>> => [Next]_session
  BY DEF ReplayNext, Ran, Next
<1> QED BY <1>1, <1>2, PTL DEF ReplaySpec, Spec

LEMMA NewSessionPlain == PlainVariables(NewSession) /\ Range(NewSession.variables) = {}
<1>1. NewSession.variables = <<>> /\ DOMAIN <<>> = {}
  BY DEF NewSession
<1> QED BY <1>1 DEF PlainVariables, OneKeyEach, Range

\* For every family and key table: whatever the client sends in whatever order, the rendered
\* log, told to a fresh tracker, gives the catalog, the schema, the warehouse and the
\* variables that the old tracker had, provided a variable that is declared does not bear the
\* name of a setting that the family's table knows otherwise.
THEOREM RenderReadsBack ==
  ASSUME Empty \in Texts, UpperTwice, DeclaresPlainly
  PROVE  ReplaySpec => []RoundTrip
<1>1. Init => PlainVariables(session)
  BY NewSessionPlain DEF Init
<1>2. TypeOK /\ PlainVariables(session) /\ [Next]_session => PlainVariables(session)'
  <2> SUFFICES ASSUME TypeOK, PlainVariables(session), [Next]_session
               PROVE  PlainVariables(session)'
    OBVIOUS
  <2>1. CASE Next
    <3> PICK s \in Statements : Execute(s)
      BY <2>1 DEF Next
    <3>1. ShortOf(PlainEffects, Classify(s))
      BY ClassifyPlain
    <3>2. PlainVariables(Applied(session, Classify(s)))
      BY <3>1, AppliedPlain DEF TypeOK
    <3> QED BY <3>2 DEF Execute
  <2>2. CASE UNCHANGED session
    BY <2>2 DEF PlainVariables
  <2> QED BY <2>1, <2>2
<1>3. TypeOK /\ LogLagsOnlyInRole /\ PlainVariables(session) => RoundTrip
  <2> SUFFICES ASSUME TypeOK, LogLagsOnlyInRole, PlainVariables(session) PROVE RoundTrip
    OBVIOUS
  <2>1. session \in Sessions /\ Lags(session) /\ OneKeyEach(session.variables)
    BY DEF TypeOK, Lags, LogLagsOnlyInRole, PlainVariables
  <2>2. \A i \in DOMAIN session.variables : PlainVariable(session.variables[i])
    BY DEF PlainVariables, Range
  <2> QED BY <2>1, <2>2, RoundTripOf
<1> QED BY <1>1, <1>2, <1>3, ReplayIsTracked, SessionTyped, LogLags, PTL DEF Spec

-----------------------------------------------------------------------------
(* SettingsRestored of every reachable state.                                *)

\* What the server keeps of a variable whose statement is replayed.
Kept(v) == [name |-> ServerName(v.key), stored |-> Stored(RawOf(v)), of |-> "parameter"]

LEMMA SetStores ==
  ASSUME NEW v, NEW set
  PROVE  ServerRun(set, RenderEntry(SetEntry(v)))
           = Without(set, ServerName(v.key), "parameter") \cup {Kept(v)}
<1> DEFINE s == RenderEntry(SetEntry(v))
           item == ItemOf(v)
<1>1. /\ s.form = IF Family = "snowflake" THEN "alter" ELSE "set"
      /\ s.items = <<item>>
  BY RenderedSet
<1>2. item.key = v.key /\ item.raw = RawOf(v) /\ item.scope = "session"
  BY DEF ItemOf
<1> HIDE DEF s, item
<1>3. Len(s.items) = 1 /\ s.items[1] = item
  BY <1>1
<1>4. ServerRun(set, s) = ServerItem(set, s, item)
  BY <1>1, <1>3 DEF ServerRun, ServerItems
<1>5. Setting(s, item) = Kept(v)
  BY <1>1, <1>2 DEF Setting, Kept
<1>6. Kept(v).name = ServerName(v.key) /\ Kept(v).of = "parameter"
  BY DEF Kept
<1>7. ServerItem(set, s, item) = Without(set, ServerName(v.key), "parameter") \cup {Kept(v)}
  BY <1>1, <1>2, <1>5, <1>6 DEF ServerItem
<1> QED BY <1>4, <1>7 DEF s

OneNameEach(vars) ==
  \A i, j \in DOMAIN vars : ServerName(vars[i].key) = ServerName(vars[j].key) => i = j

\* A server told the whole log holds what it keeps of each variable.
LEMMA ToldSettings ==
  ASSUME NEW s \in Sessions, OneNameEach(s.variables)
  PROVE  Told(Log(s)).settings = {Kept(w) : w \in Range(s.variables)}
<1> DEFINE vars == s.variables
           n == Len(vars)
           Good(k) == Told(LogUpTo(s, k)).settings = {Kept(vars[i]) : i \in 1 .. k}
           K == {k \in 0 .. n : Good(k)}
<1>0. n \in Nat /\ DOMAIN vars = 1 .. n
  BY DEF Sessions
<1>1. 0 \in K
  <2>1. Stands(Told(LogUpTo(s, 0)), s.catalog, s.schema, s.warehouse)
    BY LogGrows, ToldContext
  <2>2. Good(0)
    BY <2>1 DEF Stands
  <2> HIDE DEF Good
  <2> QED BY <1>0, <2>2
<1>2. ASSUME NEW k \in 1 .. n, k - 1 \in K PROVE k \in K
  <2> DEFINE v == vars[k]
             log == LogUpTo(s, k - 1)
             before == {Kept(vars[i]) : i \in 1 .. (k - 1)}
  <2>1. /\ log \in Seq(Entries) /\ SetEntry(v) \in Entries
        /\ LogUpTo(s, k) = Append(log, SetEntry(v))
    BY LogGrows
  <2>2. Told(LogUpTo(s, k)) = Run(Told(log), RenderEntry(SetEntry(v)))
    BY <2>1, ToldAppend
  <2>3. Told(log).settings = before
    BY <1>2
  <2>4. Told(LogUpTo(s, k)).settings = ServerRun(before, RenderEntry(SetEntry(v)))
    <3> DEFINE c == Told(log)
               x == RenderEntry(SetEntry(v))
    <3>1. /\ Told(LogUpTo(s, k)) = Run(c, x)
          /\ c.settings = before
      BY <2>2, <2>3
    <3> SUFFICES Told(LogUpTo(s, k)).settings = ServerRun(before, x)
      OBVIOUS
    <3> HIDE DEF c, x, before
    <3>2. Run(c, x).settings = ServerRun(c.settings, x)
      BY DEF Run
    <3> QED BY <3>1, <3>2
  <2>5. ServerRun(before, RenderEntry(SetEntry(v)))
          = Without(before, ServerName(v.key), "parameter") \cup {Kept(v)}
    BY SetStores
  <2>6. k \in Nat /\ \A i \in 1 .. (k - 1) : i \in 1 .. n /\ i # k
    BY <1>0
  <2>7. \A i \in 1 .. (k - 1) : ServerName(vars[i].key) # ServerName(v.key)
    BY <1>0, <2>6 DEF OneNameEach
  <2>8. \A x \in before : x.name # ServerName(v.key)
    BY <2>7 DEF Kept
  <2>9. Without(before, ServerName(v.key), "parameter") = before
    <3> HIDE DEF before
    <3> QED BY <2>8 DEF Without
  <2>10. before \cup {Kept(v)} = {Kept(vars[i]) : i \in 1 .. k}
    <3>1. \A i \in 1 .. k : i \in 1 .. (k - 1) \/ i = k
      BY <2>6
    <3>2. k \in 1 .. k /\ \A i \in 1 .. (k - 1) : i \in 1 .. k
      BY <2>6
    <3> QED BY <3>1, <3>2
  <2> HIDE DEF before, v
  <2>11. Good(k)
    BY <2>4, <2>5, <2>9, <2>10
  <2>12. k \in 0 .. n
    BY <1>0
  <2> HIDE DEF Good
  <2> QED BY <2>11, <2>12
<1>3. Good(n)
  <2> HIDE DEF K, n
  <2>1. 0 .. n \subseteq K
    BY <1>0, <1>1, <1>2, InductionUpTo
  <2>2. n \in K
    BY <1>0, <2>1
  <2> QED BY <2>2 DEF K
<1>4. LogUpTo(s, n) = Log(s)
  BY LogGrows
<1>5. {Kept(vars[i]) : i \in 1 .. n} = {Kept(w) : w \in Range(vars)}
  BY <1>0 DEF Range
<1> HIDE DEF vars, n
<1> QED BY <1>3, <1>4, <1>5 DEF vars

-----------------------------------------------------------------------------
(* Tracker and server move together.                                         *)

\* The canonical names of the settings the client touches.
TrackedNames == {Canonical(k) : k \in ClientNames}

\* A variable that a SET has written.
WrittenVariable(w) == w.raw \in Raws /\ w.value = w.raw.text /\ w.key \in TrackedNames

InStep(s, set) ==
  /\ OneKeyEach(s.variables)
  /\ \A w \in Range(s.variables) : WrittenVariable(w)
  /\ set = {Kept(w) : w \in Range(s.variables)}

LEMMA ClientNamesAreKeys ==
  /\ ClientNames \subseteq Keys
  /\ \A s \in Statements : SettingNames(s) \subseteq ClientNames
<1>1. ASSUME NEW s \in Statements PROVE SettingNames(s) \subseteq Keys
  <2>1. CASE s \in Sets
    <3>1. SettingNames(s) = {s.items[i].key : i \in DOMAIN s.items}
      BY <2>1 DEF Sets, SettingNames
    <3>2. s.items \in Seq(Items)
      BY <2>1, ShortIsSeq DEF Sets
    <3>3. \A i \in DOMAIN s.items : s.items[i] \in Items
      BY <3>2
    <3> QED BY <3>1, <3>3 DEF Items
  <2>2. CASE s \in Unsets
    <3>1. SettingNames(s) = {s.items[i] : i \in DOMAIN s.items}
      BY <2>2 DEF Unsets, SettingNames
    <3>2. s.items \in Seq(Keys)
      BY <2>2, ShortIsSeq DEF Unsets
    <3> QED BY <3>1, <3>2
  <2>3. CASE s \in Resets
    BY <2>3 DEF Resets, SettingNames
  <2>4. CASE s \in Uses \cup Commands \cup Declares \cup Plain
    <3>1. s.form \notin {"set", "alter", "unset", "reset"}
      BY <2>4 DEF Uses, Commands, Declares, Plain
    <3> QED BY <3>1 DEF SettingNames
  <2> QED BY <2>1, <2>2, <2>3, <2>4, StatementsAssumption DEF AllStatements
<1> QED BY <1>1 DEF ClientNames

\* The server knows a setting by the same name under the client's spelling and the table's.
LEMMA ServerNameOfCanonical ==
  ASSUME UpperTwice, NEW k \in Keys, ~Resettable(Canonical(k))
  PROVE  ServerName(Canonical(k)) = ServerName(k)
<1>1. CASE Family = "postgres"
  <2>1. \A l : ServerName(l) = Lower[l]
    BY <1>1 DEF ServerName
  <2>2. CASE Lower[k] = "schema"
    <3>1. Canonical(k) = "search_path"
      BY <1>1, <2>2 DEF Canonical, SpecialKeys
    <3> QED BY <1>1, <3>1 DEF Resettable
  <2>3. CASE Lower[k] \in SpecialKeys \ {"all"}
    <3>1. Canonical(k) = Lower[k]
      BY <1>1, <2>3 DEF Canonical, SpecialKeys
    <3>2. Lower[Lower[k]] = Lower[k]
      BY <2>3, KeysAssumption
    <3> QED BY <2>1, <3>1, <3>2
  <2>4. CASE Lower[k] # "schema" /\ Lower[k] \notin SpecialKeys \ {"all"}
    <3>1. Canonical(k) = k
      BY <1>1, <2>4 DEF Canonical
    <3> QED BY <3>1
  <2> QED BY <2>2, <2>3, <2>4
<1>2. CASE Family = "snowflake"
  <2>1. \A l : Canonical(l) = Upper[l] /\ ServerName(l) = Upper[l]
    BY <1>2 DEF Canonical, ServerName
  <2> QED BY <2>1 DEF UpperTwice
<1>3. CASE Family \notin {"postgres", "snowflake"}
  <2>1. \A l : Canonical(l) = l
    BY <1>3 DEF Canonical
  <2> QED BY <2>1
<1> QED BY <1>1, <1>2, <1>3

\* So two settings have two names on the server.
LEMMA TrackedNamesApart ==
  ASSUME UpperTwice, SetsPlainly, NEW a \in TrackedNames, NEW b \in TrackedNames,
         ServerName(a) = ServerName(b)
  PROVE  a = b
<1>1. PICK k \in ClientNames : a = Canonical(k)
  BY DEF TrackedNames
<1>2. PICK l \in ClientNames : b = Canonical(l)
  BY DEF TrackedNames
<1>3. k \in Keys /\ l \in Keys /\ ~Resettable(Canonical(k)) /\ ~Resettable(Canonical(l))
  BY ClientNamesAreKeys DEF SetsPlainly
<1>4. ServerName(k) = ServerName(l)
  BY <1>1, <1>2, <1>3, ServerNameOfCanonical
<1> QED BY <1>1, <1>2, <1>4 DEF SetsPlainly

LEMMA InStepNames ==
  ASSUME UpperTwice, SetsPlainly, NEW s, NEW set, InStep(s, set)
  PROVE  OneNameEach(s.variables)
<1>1. \A i \in DOMAIN s.variables : s.variables[i].key \in TrackedNames
  BY DEF InStep, Range, WrittenVariable
<1> QED BY <1>1, TrackedNamesApart DEF InStep, OneNameEach, OneKeyEach

\* A variable assigned, and the same on the server.
LEMMA StoreInStep ==
  ASSUME UpperTwice, SetsPlainly, NEW s, NEW set, InStep(s, set), s.variables \in Seq(Variables),
         NEW v \in Variables, WrittenVariable(v), NEW t, t.variables = Assigned(s.variables, v)
  PROVE  InStep(t, Without(set, ServerName(v.key), "parameter") \cup {Kept(v)})
<1> DEFINE R == Range(s.variables)
           new == Assigned(s.variables, v)
<1>1. OneKeyEach(new) /\ Range(new) = {w \in R : w.key # v.key} \cup {v}
  BY AssignedHolds DEF InStep
<1>2. \A w \in R : WrittenVariable(w)
  BY DEF InStep
<1>3. \A w \in R : Kept(w).name = ServerName(v.key) <=> w.key = v.key
  <2>1. \A w \in R : w.key \in TrackedNames /\ Kept(w).name = ServerName(w.key)
    BY <1>2 DEF WrittenVariable, Kept
  <2>2. v.key \in TrackedNames
    BY DEF WrittenVariable
  <2> HIDE DEF R
  <2> QED BY <2>1, <2>2, TrackedNamesApart
<1> HIDE DEF R, new
<1>4. Without({Kept(w) : w \in R}, ServerName(v.key), "parameter")
        = {Kept(w) : w \in {x \in R : x.key # v.key}}
  <2>1. \A w : Kept(w).of = "parameter"
    BY DEF Kept
  <2> QED BY <1>3, <2>1 DEF Without
<1>5. {Kept(w) : w \in {x \in R : x.key # v.key}} \cup {Kept(v)} = {Kept(w) : w \in Range(new)}
  BY <1>1
<1>6. set = {Kept(w) : w \in R}
  BY DEF InStep, R
<1>7. Without(set, ServerName(v.key), "parameter") \cup {Kept(v)} = {Kept(w) : w \in Range(new)}
  BY <1>4, <1>5, <1>6
<1>8. \A w \in Range(new) : WrittenVariable(w)
  BY <1>1, <1>2
<1> QED BY <1>1, <1>7, <1>8 DEF InStep, new

LEMMA DropInStep ==
  ASSUME UpperTwice, SetsPlainly, NEW s, NEW set, InStep(s, set), s.variables \in Seq(Variables),
         NEW k \in TrackedNames, NEW t, t.variables = Deleted(s.variables, k)
  PROVE  InStep(t, Without(set, ServerName(k), "parameter"))
<1> DEFINE R == Range(s.variables)
           new == Deleted(s.variables, k)
<1>1. OneKeyEach(new) /\ Range(new) = {w \in R : w.key # k}
  BY DeletedHolds DEF InStep
<1>2. \A w \in R : WrittenVariable(w)
  BY DEF InStep
<1>3. \A w \in R : Kept(w).name = ServerName(k) <=> w.key = k
  <2>1. \A w \in R : w.key \in TrackedNames /\ Kept(w).name = ServerName(w.key)
    BY <1>2 DEF WrittenVariable, Kept
  <2> HIDE DEF R
  <2> QED BY <2>1, TrackedNamesApart
<1> HIDE DEF R, new
<1>4. Without({Kept(w) : w \in R}, ServerName(k), "parameter")
        = {Kept(w) : w \in {x \in R : x.key # k}}
  <2>1. \A w : Kept(w).of = "parameter"
    BY DEF Kept
  <2> QED BY <1>3, <2>1 DEF Without
<1>5. set = {Kept(w) : w \in R}
  BY DEF InStep, R
<1>6. Without(set, ServerName(k), "parameter") = {Kept(w) : w \in Range(new)}
  BY <1>1, <1>4, <1>5
<1> QED BY <1>1, <1>2, <1>6 DEF InStep, new

\* One item of a SET.
LEMMA SetItemInStep ==
  ASSUME UpperTwice, SetsPlainly, Empty \in Texts, NEW s \in Sessions, NEW set, InStep(s, set),
         NEW u \in Statements, u.form \in {"set", "alter"},
         NEW item \in Items, item.key \in SettingNames(u)
  PROVE  /\ Apply(s, ItemEffect(item)) \in Sessions
         /\ InStep(Apply(s, ItemEffect(item)), ServerItem(set, u, item))
<1> DEFINE e == ItemEffect(item)
           k == Canonical(item.key)
           t == Apply(s, e)
           v == VariableOf(e)
<1>1. e \in GoodEffects
  BY ItemEffectOK DEF GoodEffects, EffectOK
<1>2. t \in Sessions /\ s.variables \in Seq(Variables)
  BY <1>1, ApplyTyped DEF Sessions
<1>3. item.key \in ClientNames /\ item.key \in Keys
  BY ClientNamesAreKeys DEF Items
<1>4. k \in TrackedNames /\ ~Resettable(k) /\ ServerName(k) = ServerName(item.key)
  BY <1>3, ServerNameOfCanonical DEF TrackedNames, SetsPlainly
<1>5. e.kind = "set" /\ e.scope = item.scope /\ e.key = k /\ e.value = item.raw.text
      /\ e.raw = item.raw
  <2>1. KindOf(k) = "set"
    BY <1>4 DEF KindOf, Resettable
  <2> HIDE DEF k
  <2> QED BY <1>4, <2>1 DEF ItemEffect, NoEffect, k
<1>6. item.raw \in Raws /\ item.raw.text \in Texts
  BY DEF Items, Raws
<1>7. u.form = "set" => Family # "snowflake"
  BY DEF SetsPlainly
<1> HIDE DEF e, t
<1>8. CASE item.scope = "local"
  <2>1. ~Stores(e) /\ ~Drops(e)
    BY <1>5, <1>8 DEF Stores, Drops
  <2>2. t.variables = s.variables
    BY <1>1, <2>1, ApplyToVariables DEF t
  <2>3. ServerItem(set, u, item) = set
    BY <1>8 DEF ServerItem
  <2> QED BY <1>2, <2>2, <2>3 DEF InStep, e, t
<1>9. CASE item.scope # "local"
  <2>1. Stores(e)
    BY <1>4, <1>5, <1>9 DEF Stores, Resettable
  <2>2. v \in Variables /\ t.variables = Assigned(s.variables, v)
    BY <1>1, <2>1, ApplyToVariables DEF t
  <2>3. v.key = k /\ v.value = item.raw.text /\ v.raw = item.raw
    BY <1>5 DEF VariableOf
  <2> HIDE DEF v, k
  <2>4. WrittenVariable(v)
    BY <1>4, <1>6, <2>3 DEF WrittenVariable
  <2>5. Stored(item.raw) = Stored(RawOf(v))
    <3>1. item.raw # Null /\ item.raw.text # Null
      BY <1>6, NullAssumption
    <3>2. CASE Family \in {"databricks", "snowflake"}
      <4>1. RawOf(v) = item.raw
        BY <2>3, <3>1, <3>2 DEF RawOf, Written, SetEntry
      <4> QED BY <4>1
    <3>3. CASE Family \notin {"databricks", "snowflake"}
      <4>1. RawOf(v).text = Literal(v.value).text
        BY <3>3 DEF RawOf
      <4>2. Literal(v.value).text = item.raw.text
        BY <2>3, <3>1 DEF Literal
      <4> QED BY <3>3, <4>1, <4>2 DEF Stored
    <3> QED BY <3>2, <3>3
  <2>6. Setting(u, item) = Kept(v)
    BY <1>4, <1>7, <2>3, <2>5 DEF Setting, Kept
  <2>7. ServerItem(set, u, item) = Without(set, ServerName(v.key), "parameter") \cup {Kept(v)}
    <3>1. Kept(v).name = ServerName(v.key) /\ Kept(v).of = "parameter"
      BY DEF Kept
    <3> QED BY <1>9, <2>6, <3>1 DEF ServerItem
  <2>8. InStep(t, ServerItem(set, u, item))
    BY <1>2, <2>2, <2>4, <2>7, StoreInStep
  <2> QED BY <1>2, <2>8 DEF e, t
<1> QED BY <1>8, <1>9

\* One name of an UNSET, and the name of a RESET.
LEMMA UnsetInStep ==
  ASSUME UpperTwice, SetsPlainly, NEW s \in Sessions, NEW set, InStep(s, set),
         NEW k \in ClientNames, NEW e \in GoodEffects,
         e.scope = "session", e.kind = "reset", e.key = Canonical(k)
  PROVE  /\ Apply(s, e) \in Sessions
         /\ InStep(Apply(s, e), Without(set, ServerName(k), "parameter"))
<1>1. Apply(s, e) \in Sessions /\ s.variables \in Seq(Variables)
  BY ApplyTyped DEF Sessions
<1>2. e.key \in TrackedNames /\ ~Resettable(e.key) /\ k \in Keys
  BY ClientNamesAreKeys DEF TrackedNames, SetsPlainly
<1>3. ServerName(e.key) = ServerName(k)
  BY <1>2, ServerNameOfCanonical
<1>4. Drops(e)
  BY <1>2 DEF Drops
<1>5. Apply(s, e).variables = Deleted(s.variables, e.key)
  BY <1>4, ApplyToVariables
<1>6. InStep(Apply(s, e), Without(set, ServerName(e.key), "parameter"))
  BY <1>1, <1>2, <1>5, DropInStep
<1> QED BY <1>1, <1>3, <1>6

\* An effect that leaves the variables alone.
LEMMA ApplyElsewhere ==
  ASSUME NEW s \in Sessions, NEW set, InStep(s, set), NEW e \in GoodEffects, ~Stores(e), ~Drops(e)
  PROVE  InStep(Apply(s, e), set)
BY ApplyToVariables DEF InStep

\* Every statement moves the tracker and the server in step.
LEMMA StatementInStep ==
  ASSUME UpperTwice, SetsPlainly, Empty \in Texts, NEW s \in Sessions, NEW set, InStep(s, set),
         NEW u \in Statements
  PROVE  InStep(Applied(s, Classify(u)), ServerRun(set, u))
<1> DEFINE es == Classify(u)
<1> SUFFICES InStep(Applied(s, es), ServerRun(set, u))
  OBVIOUS
<1>a. ShortOf(GoodEffects, es)
  BY ClassifyOK
<1>b. ASSUME NEW e, es = <<e>>, ~Stores(e), ~Drops(e), ServerRun(set, u) = set
      PROVE  InStep(Applied(s, es), ServerRun(set, u))
  <2>1. e \in GoodEffects
    <3>1. Len(<<e>>) = 1 /\ <<e>>[1] = e
      OBVIOUS
    <3> QED BY <1>a, <1>b, <3>1 DEF ShortOf
  <2>2. Applied(s, <<e>>) = Apply(s, e)
    BY DEF Applied
  <2> HIDE DEF es
  <2> QED BY <1>b, <2>1, <2>2, ApplyElsewhere
<1>1. CASE u \in Sets
  <2> DEFINE q == u.items
  <2>1. u.form \in {"set", "alter"} /\ q \in Seq(Items) /\ Len(q) \in {1, 2}
        /\ q[1] \in Items /\ (Len(q) = 2 => q[2] \in Items)
    BY <1>1, ShortIsSeq DEF Sets
  <2>2. es = [i \in DOMAIN q |-> ItemEffect(q[i])]
    BY <2>1 DEF Classify
  <2>3. \A i \in DOMAIN q : q[i].key \in SettingNames(u)
    BY <2>1 DEF SettingNames
  <2>4. ServerRun(set, u) = ServerItems(set, u)
    BY <2>1 DEF ServerRun
  <2> DEFINE first == Apply(s, ItemEffect(q[1]))
             one == ServerItem(set, u, q[1])
  <2> HIDE DEF es, q
  <2>5. 1 \in DOMAIN q /\ es[1] = ItemEffect(q[1]) /\ Len(es) = Len(q)
    BY <2>1, <2>2
  <2>6. first \in Sessions /\ InStep(first, one)
    BY <2>1, <2>3, <2>5, SetItemInStep
  <2>7. CASE Len(q) = 2
    <3>1. 2 \in DOMAIN q /\ es[2] = ItemEffect(q[2]) /\ q[2] \in Items
      BY <2>1, <2>2, <2>7
    <3> HIDE DEF first, one
    <3>2. InStep(Apply(first, ItemEffect(q[2])), ServerItem(one, u, q[2]))
      BY <2>1, <2>3, <2>6, <3>1, SetItemInStep
    <3>3. Applied(s, es) = Apply(first, ItemEffect(q[2]))
      BY <2>5, <2>7, <3>1 DEF Applied, first
    <3>4. ServerItems(set, u) = ServerItem(one, u, q[2])
      BY <2>7 DEF ServerItems, one, q
    <3> QED BY <2>4, <3>2, <3>3, <3>4
  <2>8. CASE Len(q) # 2
    <3>1. Applied(s, es) = first
      BY <2>5, <2>8 DEF Applied
    <3>2. ServerItems(set, u) = one
      BY <2>8 DEF ServerItems, q
    <3> HIDE DEF first, one
    <3> QED BY <2>4, <2>6, <3>1, <3>2
  <2> QED BY <2>7, <2>8
<1>2. CASE u \in Unsets
  <2> DEFINE q == u.items
  <2>1. u.form = "unset" /\ q \in Seq(Keys) /\ Len(q) \in {1, 2}
        /\ q[1] \in Keys /\ (Len(q) = 2 => q[2] \in Keys)
    BY <1>2, ShortIsSeq DEF Unsets
  <2>2. es = [i \in DOMAIN q |-> UnsetEffect(q[i])]
    BY <2>1 DEF Classify
  <2>3. \A i \in DOMAIN q : q[i] \in ClientNames
    BY <2>1, ClientNamesAreKeys DEF SettingNames
  <2>4. ServerRun(set, u) = ServerItems(set, u)
    BY <2>1 DEF ServerRun
  <2>a. \A k \in Keys : /\ UnsetEffect(k) \in GoodEffects /\ UnsetEffect(k).scope = "session"
                        /\ UnsetEffect(k).kind = "reset" /\ UnsetEffect(k).key = Canonical(k)
    <3>1. \A k \in Keys : UnsetEffect(k) \in GoodEffects
      BY UnsetEffectOK DEF GoodEffects, EffectOK
    <3> QED BY <3>1 DEF UnsetEffect, NoEffect
  <2>b. \A x, k : ServerItem(x, u, k) = Without(x, ServerName(k), "parameter")
    BY <2>1 DEF ServerItem
  <2> DEFINE first == Apply(s, UnsetEffect(q[1]))
             one == ServerItem(set, u, q[1])
  <2> HIDE DEF es, q
  <2>5. 1 \in DOMAIN q /\ es[1] = UnsetEffect(q[1]) /\ Len(es) = Len(q)
    BY <2>1, <2>2
  <2>6. first \in Sessions /\ InStep(first, one)
    <3>1. q[1] \in ClientNames
      BY <2>3, <2>5
    <3> DEFINE e == UnsetEffect(q[1])
    <3>2. e \in GoodEffects /\ e.scope = "session" /\ e.kind = "reset" /\ e.key = Canonical(q[1])
      BY <2>1, <2>a
    <3> HIDE DEF e
    <3>3. Apply(s, e) \in Sessions /\ InStep(Apply(s, e), Without(set, ServerName(q[1]), "parameter"))
      BY <3>1, <3>2, UnsetInStep
    <3> QED BY <2>b, <3>3 DEF e
  <2>7. CASE Len(q) = 2
    <3>1. 2 \in DOMAIN q /\ es[2] = UnsetEffect(q[2]) /\ q[2] \in Keys
      BY <2>1, <2>2, <2>7
    <3> HIDE DEF first, one
    <3>2. InStep(Apply(first, UnsetEffect(q[2])), ServerItem(one, u, q[2]))
      <4>1. q[2] \in ClientNames
        BY <2>3, <3>1
      <4> DEFINE e == UnsetEffect(q[2])
      <4>2. e \in GoodEffects /\ e.scope = "session" /\ e.kind = "reset" /\ e.key = Canonical(q[2])
        BY <2>a, <3>1
      <4> HIDE DEF e
      <4>3. InStep(Apply(first, e), Without(one, ServerName(q[2]), "parameter"))
        BY <2>6, <4>1, <4>2, UnsetInStep
      <4> QED BY <2>b, <4>3 DEF e
    <3>3. Applied(s, es) = Apply(first, UnsetEffect(q[2]))
      BY <2>5, <2>7, <3>1 DEF Applied, first
    <3>4. ServerItems(set, u) = ServerItem(one, u, q[2])
      BY <2>7 DEF ServerItems, one, q
    <3> QED BY <2>4, <3>2, <3>3, <3>4
  <2>8. CASE Len(q) # 2
    <3>1. Applied(s, es) = first
      BY <2>5, <2>8 DEF Applied
    <3>2. ServerItems(set, u) = one
      BY <2>8 DEF ServerItems, q
    <3> HIDE DEF first, one
    <3> QED BY <2>4, <2>6, <3>1, <3>2
  <2> QED BY <2>7, <2>8
<1>3. CASE u \in Resets
  <2> DEFINE e == ResetEffect(u.key)
             k == u.key
  <2>1. u.form = "reset" /\ k \in Keys /\ es = <<e>>
    BY <1>3 DEF Resets, Classify
  <2>2. Family = "postgres" /\ Lower[k] # "all" /\ Canonical(k) = k
    BY <2>1 DEF SetsPlainly
  <2>3. k \in SettingNames(u)
    BY <2>1 DEF SettingNames
  <2>4. k \in ClientNames /\ ~Resettable(k)
    BY <2>2, <2>3, ClientNamesAreKeys DEF SetsPlainly
  <2>5. Lower[k] \notin {"role", "search_path"}
    <3>1. Lower[k] \in {"role", "search_path"} => Canonical(k) = Lower[k]
      BY <2>2 DEF Canonical, SpecialKeys
    <3> QED BY <2>2, <2>4, <3>1 DEF Resettable
  <2>6. e = [NoEffect EXCEPT !.kind = "reset", !.key = k]
    BY <2>2, <2>5 DEF ResetEffect
  <2>7. e.kind = "reset" /\ e.key = k /\ e.scope = "session"
    BY <2>6 DEF NoEffect
  <2>8. e \in GoodEffects
    BY <2>1, OtherEffectsOK DEF GoodEffects, EffectOK
  <2> HIDE DEF e, k
  <2>9. InStep(Apply(s, e), Without(set, ServerName(k), "parameter"))
    BY <2>2, <2>4, <2>7, <2>8, UnsetInStep
  <2>10. Applied(s, <<e>>) = Apply(s, e)
    BY DEF Applied
  <2>11. ServerRun(set, u) = Without(set, ServerName(k), "parameter")
    BY <2>1 DEF ServerRun, k
  <2> HIDE DEF es
  <2> QED BY <2>1, <2>9, <2>10, <2>11
<1>4. CASE u \in Uses
  <2>1. es = <<UseEffect(u)>> /\ ServerRun(set, u) = set
    BY <1>4 DEF Uses, Classify, ServerRun
  <2>2. UseEffect(u).kind \in {"use", "role"}
    BY DEF UseEffect, NoEffect
  <2> QED BY <1>b, <2>1, <2>2 DEF Stores, Drops
<1>5. CASE u \in Commands
  <2> DEFINE e == CommandEffect(u)
  <2>1. es = <<e>> /\ ServerRun(set, u) = set
    BY <1>5 DEF Commands, Classify, ServerRun
  <2>2. CASE Family # "postgres"
    <3>1. e.kind = "none"
      BY <2>2 DEF CommandEffect, NoEffect
    <3> QED BY <1>b, <2>1, <3>1 DEF Stores, Drops
  <2>3. CASE Family = "postgres"
    <3>1. u.key \in {"search_path", "role", "session_authorization"}
      BY <1>5 DEF Commands
    <3>2. e.key = u.key /\ e.kind \in {"reset", KindOf(u.key)}
      BY <2>3 DEF CommandEffect, NoEffect
    <3>3. ~Stores(e) /\ ~Drops(e)
      BY <2>3, <3>1, <3>2 DEF Stores, Drops, KindOf, Resettable
    <3> QED BY <1>b, <2>1, <3>3
  <2> QED BY <2>2, <2>3
<1>6. CASE u \in Declares
  BY <1>6 DEF Declares, SetsPlainly
<1>7. CASE u \in Plain
  <2>1. u.form \in {"discard", "opaque", "other"} /\ ServerRun(set, u) = set
    BY <1>7 DEF Plain, ServerRun
  <2>2. \/ es = <<DiscardEffect>>
        \/ es = <<[NoEffect EXCEPT !.kind = "unknown"]>>
        \/ es = <<NoEffect>>
    BY <2>1 DEF Classify
  <2>3. /\ DiscardEffect.kind \in {"discard", "none"}
        /\ [NoEffect EXCEPT !.kind = "unknown"].kind = "unknown"
        /\ NoEffect.kind = "none"
    BY DEF DiscardEffect, NoEffect
  <2>4. /\ ~Stores(DiscardEffect) /\ ~Drops(DiscardEffect)
        /\ ~Stores([NoEffect EXCEPT !.kind = "unknown"])
        /\ ~Drops([NoEffect EXCEPT !.kind = "unknown"])
        /\ ~Stores(NoEffect) /\ ~Drops(NoEffect)
    BY <2>3 DEF Stores, Drops
  <2> HIDE DEF es
  <2> QED BY <1>b, <2>1, <2>2, <2>4
<1> QED BY <1>1, <1>2, <1>3, <1>4, <1>5, <1>6, <1>7, StatementsAssumption DEF AllStatements

\* For every family and key table: a fresh server that is told the rendered log holds exactly
\* the settings that the old server held, under their names and with their quotes, provided
\* the client keeps to the statements that the tracker is known to follow.
THEOREM SettingsComeBack ==
  ASSUME Empty \in Texts, UpperTwice, SetsPlainly
  PROVE  ReplaySpec => []SettingsRestored
<1>1. ReplayInit => InStep(session, settings)
  BY NewSessionPlain DEF ReplayInit, Init, InStep, PlainVariables
<1>2. /\ TypeOK /\ InStep(session, settings) /\ [ReplayNext]_<<session, settings>>
      => InStep(session, settings)'
  <2> SUFFICES ASSUME TypeOK, InStep(session, settings), [ReplayNext]_<<session, settings>>
               PROVE  InStep(session, settings)'
    OBVIOUS
  <2>1. CASE ReplayNext
    <3> PICK u \in Statements : Ran(u)
      BY <2>1 DEF ReplayNext
    <3>1. InStep(Applied(session, Classify(u)), ServerRun(settings, u))
      BY StatementInStep DEF TypeOK
    <3> QED BY <3>1 DEF Ran, Execute
  <2>2. CASE UNCHANGED <<session, settings>>
    BY <2>2 DEF InStep
  <2> QED BY <2>1, <2>2
<1>3. TypeOK /\ LogLagsOnlyInRole /\ InStep(session, settings) => SettingsRestored
  <2> SUFFICES ASSUME TypeOK, LogLagsOnlyInRole, InStep(session, settings) PROVE SettingsRestored
    OBVIOUS
  <2>1. session \in Sessions /\ Lags(session)
    BY DEF TypeOK, Lags, LogLagsOnlyInRole
  <2>2. PICK w \in Sessions : session.replayLog = Log(w) /\ w.variables = session.variables
    BY <2>1, ToldReplayLog
  <2>3. Told(Log(w)).settings = {Kept(x) : x \in Range(session.variables)}
    BY <2>2, InStepNames, ToldSettings
  <2>4. Replayed(Render(session)) = Told(Log(w))
    BY <2>2 DEF Told, Rendered, Render
  <2> QED BY <2>3, <2>4 DEF SettingsRestored, InStep
<1> QED BY <1>1, <1>2, <1>3, ReplayIsTracked, SessionTyped, LogLags, PTL DEF ReplaySpec
=============================================================================
