--------------------------- MODULE MCMappingSchema ---------------------------
(* MappingSchema for TLC: a schema of two levels, a dialect that folds to    *)
(* lower case and one that folds to upper case.                              *)
EXTENDS MappingSchema

Lower == [t |-> "t", T |-> "t", d |-> "d", e |-> "e", a |-> "a", A |-> "a", b |-> "b"]
Upper == [t |-> "T", T |-> "T", d |-> "d", e |-> "e", a |-> "A", A |-> "A", b |-> "b"]
MCNames == DOMAIN Lower
MCFold == [postgres |-> Lower, snowflake |-> Upper]
MCDialects == DOMAIN MCFold
MCTypes == {"int", "text"}
MCTypeOf == [d \in MCDialects |-> [s \in MCTypes |-> IF s = "int" THEN "INT" ELSE "TEXT"]]

Id(n) == [name |-> n, quoted |-> FALSE]
Quoted(n) == [name |-> n, quoted |-> TRUE]
Ref(parts) == [parts |-> parts, alias |-> FALSE]
Aliased(parts) == [parts |-> parts, alias |-> TRUE]

Column(id, type) == [i \in {id} |-> type]

MCRequests ==
       [op: {"addTable"}, table: {Ref(<<Id("t"), Id("d")>>)}, dialect: {"postgres"},
        columns: {<< >>, Column(Id("A"), "int"), Column(Quoted("A"), "text")}]
  \cup [op: {"addTable"}, table: {Ref(<<Id("t"), Id("e")>>)}, dialect: MCDialects,
        columns: {Column(Id("A"), None)}]
  \cup [op: {"addTable"}, table: {Ref(<<Id("t")>>)}, dialect: {"postgres"}, columns: {<< >>}]
  \cup [op: {"columnNames"}, table: {Ref(<<Id("t")>>), Ref(<<Id("T"), Id("d")>>)}, dialect: MCDialects]
  \cup [op: {"getColumnType"}, table: {Ref(<<Id("t")>>)}, column: {Id("A")}, dialect: MCDialects]
  \cup [op: {"hasColumn"}, table: {Aliased(<<Id("t"), Id("d")>>)}, column: {Id("A")}, dialect: {"postgres"}]
  \cup [op: {"find"}, table: {Aliased(<<Id("t"), Id("d")>>), Ref(<<Id("t"), Id("d"), Id("e")>>)},
        ensure: {TRUE}]
  \cup [op: {"find"}, table: {Ref(<<Id("t"), Id("d")>>)}, ensure: BOOLEAN]

\* The client of this model stays within the theorem's hypotheses.
ASSUME MCRequestsAssumption == KeysFine /\ TypesAgree
=============================================================================
