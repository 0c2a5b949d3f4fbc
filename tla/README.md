# Verification of sqlglot-js

sqlglot-js is a port of Python's sqlglot: a tokenizer, a parser and a generator for some thirty SQL
dialects, an optimizer that rewrites expression trees, and, in `contrib/`, the adapters a SQL gateway
builds on top. This directory holds TLA+ models of the parts that keep state, their model-checking
configurations, and theorems about them proved with TLAPS. Paths below are relative to `src/`.

The library is synchronous and single-threaded; nothing is awaited and nothing is written to disk.
What is hard about it is not concurrency but **sequences of calls on shared mutable state**: one tree is
handed through fourteen rules that rewrite it in place, every node caches its hash, the schema answers
from five caches, and a session tracker follows a server it cannot see. A unit test fixes one order of
calls. The models let the client make every call in every order.

## 1. Inventory

| Part | State it keeps | Operations | Talks to | Correct when |
|---|---|---|---|---|
| Expression tree `src/expressions/core.js` | per node: arguments, back link (`parent`, `argKey`, `index`), cached `_hash` | constructor, `set` (four forms), `append`, `replace`, `pop`, `hash`, `equals`, `copy`, walks | everything | a cached hash is never outdated; back links name the slot that holds the node; a copy is equal and disjoint |
| Mutation journal `src/optimizer/journal.js` | list of (node, key, old value) | `record`, `revert` | tree, `eliminate_ctes`, `pushdown_projections` | a rule given up anywhere leaves the tree as it was |
| Schema `src/schema.js`, `src/trie.js` | nested mapping, trie, caches for finds, tables, names, types, depth | `addTable`, `columnNames`, `getColumnType`, `hasColumn`, `find` | qualify, annotate_types, resolver | an answer depends on the registered tables and the question only |
| Session tracker `contrib/sessionState.js` | tracked state of one connection, replay log | `classify`, `apply`, `effectiveSearchPath`, `render` | the SQL server, through the client's statements | a cache label is the server's path; replay restores the session |
| Scope tree `src/optimizer/scope.js` | scopes of a query, their sources, lazily collected columns and references | `traverseScope`, `refCount`, `addSource`, `clearCache` | every optimizer rule | a name is bound as SQL binds it; counts are those of the tree |
| Subquery and CTE elimination | maps of taken names and of known bodies; reference counts | lift, deduplicate, rename; drop | scope tree, journal | no name is captured, no used CTE is dropped, no unused one kept |
| Boolean rules `simplify.js`, `normalize.js` | the condition; a copy to go back to | simplify, distribute, to a fixed point | tree | same value in three-valued logic; restored when given up; the loops end |
| Diff `src/diff.js` | free nodes of two trees, two maps of pairs | leaf matching, node matching, edit script | tree (hashes) | every node and every move is accounted for once |
| Parser kernel `src/parser.js`, Trino's routines | cursor in the chunks, error level, error list, call stack | `_advance`, `_retreat`, `_try_parse`, `_parse_batch_statements`, `parse`, `parse_into` | tokenizer, productions | a speculation leaves no trace; no statement is lost; an error is reported |
| Pushdown and join rules `pushdown_predicates.js`, `optimize_joins.js`, `eliminate_joins.js` | reference counts, join order | move predicates, reorder and drop joins | scope tree | as many of every row as before |
| Subquery merging, unnesting; projection pushdown | CTE selections, reference counts | merge scopes, move projections | scope tree | same rows |
| Qualification, type annotation | resolver caches, visited sets | qualify, annotate | scope tree, schema | a column is bound to the one source that has it |
| Tokenizer, generator, dialects | one token list; none; static tables | one pass each | | the text means the same |
| Lineage | cache of nodes per scope | `lineage` | scope tree | |
| Anonymizer, transforms, helpers, shims, gateway metadata | none across calls | pure functions | | their own tests |

`PROJECT.json` lists every part with the reason where it is not modelled, and the main hazards, each at its line.

## 2. Modules

    ExprTree ─┬─ MCExprTree ──┐          SessionState ─┬─ SessionTrust ── MCSessionTrust
       │      └─ ExprTreeProofs│                │       │       └──────── SessionTrustProofs
       └─ ExprJournal ── MCTreeClients          └─ SessionReplay ─┬─ MCSessionReplay
                                                                  └─ SessionStateProofs
    Catalog ── MappingSchema ─┬─ MCMappingSchema
                              └─ MappingSchemaProofs
    Queries ─┬─ EliminateSubqueries ─┬─ QueryRewrite ── MCQueryRewrite
             └─ EliminateCtes ───────┘
    Formulas ── Simplify ── Normalize ── BooleanRules ── MCBooleanRules
    JoinQueries ─┬─ PushdownPredicates ─┐
                 ├─ OptimizeJoins ──────┼─ JoinRules ─┬─ MCJoinRules
                 └─ EliminateJoins ─────┘             └─ JoinRulesProofs
    Matching ── Diff (refines Matching) ─┬─ MCDiff        ParserKernel ─┬─ MCParserKernel
                                         └─ DiffProofs                  └─ ParserKernelProofs

### 2.1 The expression tree: `ExprTree`

A node has one scalar argument (`text`), one single-valued argument (`this`) and one list (`exprs`); the
code treats all keys of a kind alike. `link[n]` is `n.parent`, `n.argKey` and `n.index`, `hash[n]` is
`n._hash`: empty, or a singleton with the digest. A digest is the structure itself, so that equal digests
mean equal inputs; collisions of the 64-bit FNV lanes are abstracted away.

Each mutation of core.js is one action, because it runs to its end: `Construct`, `SetText`, `SetThis`,
`SetList`, `SetItem` (insert, overwrite and remove at an index), `AppendChild`, `Replace`,
`ReplaceByList` (with its climb to the first list) and `Pop`. Each first drops the cached hashes that
`invalidate` walks over: up the parent links, *ending at the first node that has none*. `hash()` and
`copy()` are modelled iteration by iteration (`HashBegin`, `Visit`, `Push`, `Collected`, `Fill`,
`HashReturn`; `CopyBegin`, `CopyStep`, `CopyReturn`), because the interesting claims are about the order
in which their loops meet the nodes.

`Owned` chooses the client. FALSE: one that attaches nodes that are attached elsewhere, overwrites them
and attaches them again, which the code permits. TRUE: one that keeps the convention of the rules, where
what is attached is a detached root.

- `HashCoherent`: the cached hash of a node whose children point back to it is the hash of its present
  arguments. For a node that lost a child to a second parent nothing is promised, and nothing is true.
- `FillOrder`, `HashAnswers`: the fill loop never reads a missing hash, and `hash()` ends with the right one.
- `LinksExact`, `PopTakesItself` (owned): the index never drifts from the position over splices, so that
  `pop()` takes out the popped node and no sibling. Both are about children whose link points back to their
  holder. Of the others nothing is promised: `replace()` by a node from below the replaced one leaves that
  node in the discarded subtree with a link elsewhere, `replace()` by a list that climbs to a parentless node
  leaves children there with no link, and an overwritten child keeps a stale link. `MayReplace` keeps the
  caller from following such a link, so that no run shows what happens if it does.
- `EqualsIsStructural`: equal hashes mean equal trees up to the case of scalars.
- `CopyFaithful`: a copy is equal to its source and disjoint from it, is linked exactly, and carries no
  hash its own arguments do not justify, although `CopyStep` first takes the source's hash along.

`MCTreeClients` puts the three owning clients into one run: one that moves nodes at will, one that builds,
hashes and copies, and the optimizer rule with its journal.

### 2.2 The journal: `ExprJournal`

`record` and `revert` over `ExprTree` with `Owned`. Between them a rule detaches, moves, reorders and
rewrites recorded arguments; at any point, also between a record and its mutation, the caller gives up.
`RevertRestores`: all arguments and all back links are those of before. The rule attaches only nodes that
hung in the tree when it started, which is what journal.js:33 asks of its users.

### 2.3 The schema: `Catalog` and `MappingSchema`

`Catalog` is what a client may rely on: a map from paths to columns, and for each question an answer that
is a function of the map and the question. `MappingSchema` is the code: mapping, trie, and the caches for
finds, normalized tables, names and types, with each cache's own key (a table is looked up under the
spelling given and stored under the normalized one; an Identifier's key drops its quotes; a type's key is
its string; `addTable` drops two find entries). The variables `mapping`, `request` and `answer` are shared,
so the refinement is the identity and the property is `CatalogSpec` itself: **no cache is ever visible**.

That is true only under three conditions, each of which is a definition:

- `Careful`/`Settled`: no reference that matches a table, other than the table's own, has been answered
  when that table is registered. `addTable` forgets its own reference only, so an aliased or partial
  reference keeps the old columns.
- `KeysFine`: no two requests name a column quoted and unquoted where that matters.
- `TypesAgree`: a type string means the same in every dialect that asks.

A reference is a record of parts, innermost first, and a flag for an alias; identity of table nodes is
structural, as with the code's cache by hash. The model is of a schema that normalizes, filled by
`addTable` with `matchDepth`. The nested constructor argument, `visible`, `normalize: false` and
user-defined functions are not modelled.

### 2.4 The session tracker: `SessionState`, `SessionTrust`, `SessionReplay`

`SessionState` is classify and apply. A statement is what the classifier reads of its tree: form, keys,
values with their quoting, scope. `Classify` gives the effects, one per item; `Apply` is the reducer, case
by case, with `rebuildReplayLog` only where the code calls it (`use`, `reset`, `set`, `variable`; *not*
`role`, `auth`, `discard`). `LogLagsOnlyInRole` is what that leaves true: the log is the log of the
present state under some role.

`SessionTrust` puts a Postgres server beside the tracker: its path, session user and role move as the
comments and the design document say. `PathTrusted`: as long as no statement was reported unknown, a label
handed out by `effectiveSearchPath` is the server's path, and one that depends on the current user is
handed out only for the login user.

`SessionReplay` adds `render` and a server that stores settings. At every state the replay log is rendered
and read back (`RoundTrip`: catalog, schema, warehouse, variables), and run on a fresh server
(`SettingsRestored`: names, values and, on Spark, quotes). `Run` is one statement on a connection, tracker and
server at once, and `Replayed` folds it over the rendered log from a fresh `Connection`. What the two
properties ask of the client is stated beside them, `DeclaresPlainly` and `SetsPlainly`, each conjunct for
something the tracker is known to lose (section 4); `ClientsAreCareful` has TLC evaluate them on the clients.

The servers are external. Their definitions are marked so in `PROJECT.json` and follow what the comments of
`sessionState.js` and `docs/proposals/session-state-module.md` say of them.

### 2.5 Subqueries and CTEs: `Queries`, `EliminateSubqueries`, `EliminateCtes`, `QueryRewrite`

`Queries` is the query as `scope.js` sees it: a heap of SELECTs and set operations, numbered, that hold one
another as CTEs, operands, derived tables and subqueries. `Sources` follows the code: `cteSources` passed
down by `Scope.branch`, a recursive CTE bound to its base branch within itself, semi-joined tables known but
not selected. Beside it, and independent of it, stands what SQL says: `Bound` finds the innermost WITH that
defines a name before the place it is used, and `Meanings` replaces every name by what it stands for.

`EliminateSubqueries` is one action per scope lifted, in the order of the loops, with the set of taken
names, the map from bodies to names and the reference that stays behind. `EliminateCtes` is the reverse
walk over the scopes with the counts taken *once* and lowered while CTEs are popped. `QueryRewrite` first
writes any query within the bounds, then lets the optimizer lift and drop, or drop at once.

- `LiftKeepsMeaning`, `DropKeepsMeaning`: the root means what it meant when the rule started.
- `NoneUnused`: one reverse walk is enough, however long the chain of unused CTEs was.

`LiftKeepsMeaning` asks that the query has none of four `Oddities`, which are definitions: `capture` (two
bodies with the same text, WITH apart, mean different things; the map of bodies compares the text),
`forward` (a derived table in an early CTE has the text of a later CTE: finding 1), `semi` (a nested CTE is
the right side of a SEMI or ANTI join: only selected sources are renamed), `recursive` (a CTE that is moved
is named within itself, or within something that is moved out of it).

### 2.6 Boolean rules: `Formulas`, `Simplify`, `Normalize`, `BooleanRules`

`Formulas` is the expression with its chains left-deep, as `combine` builds them, its value in three-valued
logic (`Holds`, external), and the printed order that sorting uses. `Simplify` is one pass of the
Simplifier: BETWEEN, NOT, connectors, complements, absorption and elimination, pairs of comparisons,
equations with a sum, `propagate_constants`. `Normalize` is the distance, the distributive law and its cap.
Both are recursive and pure; the state machine `BooleanRules` holds what is stateful: the conditions of a
statement one after the other, the copy that an OptimizeError puts back, and the two loops that run until
nothing changes.

- `ValueKept`: a condition without comparisons has the same value, NULL included, in every row.
- `RowsKept`: one with comparisons lets the same rows through. Two hypotheses: it has no comparison under a
  NOT, and no two order comparisons with *one* number where one is written number first or AND and OR are
  mixed. Both exclude errors of the code that section 4 lists.
- `NormalOrUntouched`: after `normalize`, every condition is in normal form or exactly as it was, and those
  after one that was given up are untouched.
- `Terminates`: the loops end.

A column is known to be not null, to be numeric, to be boolean, or nothing; the code reads that off types
and schema. Numbers are natural, and the sums are chosen so that what is moved across stays natural.
Complements are found by structure, as with the code's comparison by hash.

### 2.7 Diff: `Matching`, `Diff`

`Matching` promises that free nodes are paired one by one and that no pair is ever taken back. `Diff` is
the ChangeDistiller: leaf pairs by similarity, then by the similarity of their ancestors, then by the order
of the walk; the other nodes by common leaves and, below a size, a lower threshold; the edit script with
the moves from the longest common subsequence. It is shown to implement `Matching` by the mapping that
takes the two maps and the caller's pairs together (`MatchSpec`).

A node has a kind, which stands for its class; a name, for the Identifiers it holds, which diff leaves out
of its walk; a value, for its plain arguments with their keys, as they are written; and a slot, the argument of
its parent that holds it. The code compares nodes in three ways, and so does the model: `equals()` (`Same`:
kinds, names, children by slot, and the plain arguments as they are hashed, where strings are folded and false
and null count as none, which is the constant `Folded`); the value as it is written (`NonExpressionLeaves`, and
`SameType` for Anonymous and Join); and the bigrams of the text (`BigramHisto`: the constant `Grams` gives those
of the words a node adds; bigrams over the seam of two words are left out). Similarities are fractions, compared
with thresholds in tenths.

- `Accounted`: every node of both trees is kept, updated, removed or inserted exactly once.
- `Stable`: of two leaves that could have been paired and were not, one is in a pair at least as alike.
- `MovesComplete`, `MovesMinimal`: what is not said to move has not moved; no more is moved than must be.
- `DeltaFaithful`: a tree and its copy have an empty delta, and trees with an empty delta are `Alike`: from the
  roots down, two nodes are equal, or they agree in kind, in plain arguments as they are written and in the
  order of their children, which are alike in turn. Nothing stronger holds in the code: equal trees can have a
  delta, and trees that differ in a slot or an Identifier can have none (section 4).

`CallsAssumption` says what trees are, and TLC evaluates it for every call of the run: a tree is listed in the
order of `bfs()` (`Walk`), so that a node comes after its parent and the children of one before those of a later
one; a slot holds one node (a list has one slot for each place); a node adds finitely many bigrams; and the
caller's pairs name no node twice.

Excluded from `DeltaFaithful` by its hypotheses, because the code errs there: pairs of the caller with different
types, and copies that hang below other nodes or come with pairs. Left out: collisions of hashes, lists that mix
nodes and plain values, and arguments of a Join other than its side.

### 2.8 The parser kernel: `ParserKernel`

A script is cut into chunks at its semicolons; the call stack of the recursive descent is the variable
`stack`, with a frame for each batch loop, statement, speculation (`_try_parse`) and Trino routine. **The
grammar is arbitrary**: a production takes tokens, reports an error, speculates, opens a block or a routine,
throws something else, and returns, in any order. Two things are assumed of it: a production that rewinds
without failing has not moved, and a statement returns a tree exactly when it has moved. What is not
arbitrary is the kernel: where the cursor goes, which level is in force, which loop of several nested over
*the same chunks* stops where, when errors are thrown, collected or logged, and how `parse_into` tries types.

- `SpeculationContained`, `SpeculationSilent`: the caller's error level is in force exactly outside all
  speculations, and nothing inside one reports or logs.
- `ErrorsSurface`: RAISE returns only without errors; WARN has logged every one; IGNORE throws none.
- `LossesKnown`: a parse that returns without an error has put every token in a tree, but for three kinds
  of chunk: one in which the first statement of a block ended while the block read on; one that an
  abandoned speculation had read beyond its own; one that starts with ELSE with no block open, and all
  behind it.
- `OnePerStatement`: a script of plain statements has one slot for each stretch between its semicolons.
- `Terminates`: no loop waits for a terminator that cannot come.

The comments a token carries and the node limit are not modelled.

### 2.9 Pushdown and join rules: `JoinQueries`, `PushdownPredicates`, `OptimizeJoins`, `EliminateJoins`, `JoinRules`

`JoinQueries` is one SELECT with its FROM and JOINs over tables, CTEs, derived SELECTs and UNIONs, **and the
rows it gives**: inner, outer, semi-, anti- and cross joins with NULLs, WHERE, GROUP BY, MAX, MAX OVER (),
HAVING, DISTINCT, LIMIT 1. Rows carry tags, so that sets of rows count like bags; `Answer` is how often each
combination of the values of the sources used comes out. A predicate is a disjunction of conjunctions of
equalities, comparisons with a constant and IS NULL.

The three rules are functions on queries. `Pushdown` is both loops over a scope: predicates of the WHERE to
the ON of a join or the WHERE or HAVING of a subquery, then predicates of each ON to its own subquery, with
the choice of sources, the reference counts, and the order of the joins. `Optimize` is the extraction of
conjuncts by a map of references taken before the first one moves, `tsort`, which may raise (`CycleError`),
and `normalize`. `Eliminate` walks the joins from the last to the first. `JoinRules` runs them in the order
of `RULES`; the caller may leave out any, and remembers the query before each.

- `PushdownKeepsRows`, `OptimizeKeepsRows`, `EliminateKeepsRows`: each rule leaves a query in which every
  condition stands behind the sources it names, and as many of every row as before.

Each has a hypothesis on the query before the rule, a definition of its own, for what section 4 lists:
`PushdownCare` (no FULL join and at most one RIGHT; what is filtered selects nothing beside its aggregates; of
a disjunction all blocks are pushed or none), `OptimizeCare` (nothing is extracted from a SEMI join) and `EliminateCare` (`Vouched`: no UNION ALL, a
source of one row has one, DNF conditions agree). Without any clause of these TLC finds the rows changed.

The queries to start from are `WellFormed` (a condition mentions what comes before it), `Parsed` (conditions
are finitely many predicates in blocks of literals on columns, the FROM has none, and a HAVING has no window
function) and `Shaped`: the first item is one to select from, each item has an alias of its own, a CROSS
join has no condition, a source is a table, a CTE that is there, or a SELECT or UNION over tables. TLC
evaluates this on every query of the families (`FamiliesAssumption`); the proofs use no more.

## 3. What the runs show

| Run | Instance | States | Shows |
|---|---|---|---|
| `tree_any` | 3 nodes, lists of 1, unrestricted client | 308 k | `TypeOK`, `HashCoherent`, `FillOrder`, `HashAnswers` |
| `tree_clients` | 3 nodes, lists of 2, two texts that fold together; one client that moves nodes, one that copies, one that is a rule with a journal of two | 210 k | `LinksExact`, `EqualsIsStructural`, `PopTakesItself`, `CopyFaithful`, `RevertRestores` |
| `trust` | two users, one plain path, one that names the user | 9.9 k | `PathTrusted`, `LogLagsOnlyInRole` |
| `replay` | one client of each of four families | 9.8 k | `RoundTrip`, `SettingsRestored` |
| `schema` | two databases, two dialects, 16 requests, careful client | 152 k | `CatalogSpec`, `CachesAgree` |
| `queries` | every query of up to five SELECTs and four items over two names | 721 k | `LiftKeepsMeaning`, `DropKeepsMeaning`, `NoneUnused` |
| `boolean` | 13 k conditions of up to seven connectors, with several caps | 103 k | `ValueKept`, `RowsKept`, `NormalOrUntouched`, `Terminates` |
| `diff` | 26 k calls: all pairs of trees of up to three nodes, trees that `equals()` and diff see differently (folded names, false arguments, slots), permuted, nested and wide trees, the caller's pairs and options | 105 k | `MatchSpec`, `Accounted`, `Stable`, `MovesComplete`, `MovesMinimal`, `DeltaFaithful` |
| `script` | all scripts of four tokens, and scripts with blocks, ELSE branches and routines, at four levels, two nested speculations | 350 k | `SpeculationContained`, `SpeculationSilent`, `ErrorsSurface`, `LossesKnown`, `OnePerStatement`, `Terminates` |
| `joins` | 12.1 k queries of three or four sources in four families, two databases | 131 k | `PushdownKeepsRows`, `OptimizeKeepsRows`, `EliminateKeepsRows` |
| `queries_order`, `boolean_grouped` | the same, one property each | | violated: section 4 |

**Why the bounds are enough to be interesting.** Three nodes give a chain of two, two siblings under a
parent, and a node shared by two parents; lists of two give an insertion before and a removal of an
earlier sibling. In `tree_any` no hash may nest deeper than there are nodes: two holders that each keep an
outdated hash of the other's child could otherwise nest without end; the bound cuts no hash of a real tree.
Two journal entries are the least at which the order of reverting matters. The two databases have a table
of one name, so a partial reference is missing, unique and ambiguous in turn; a reference of three parts
meets a schema of two levels; the two dialects fold in opposite directions. The statements of the session
runs hold two spellings of a key, two scopes, values that need quotes, and statements of two items
(`Short`). Five queries give a chain of three CTEs below a root and a derived table, a recursive CTE with
its two operands beside a second CTE, and a CTE shadowed by a nested one; two names give capture and
shadowing, and `findNewName` adds suffixes of its own. The conditions of `boolean` are families, each
named for the rules it is about; the caps 0, 1, 2, 4 and 9 are crossed before the first step, between two
and in the second half of one. The trees of `diff` reach both sides of each threshold, ties, repeated
leaves, and the size at which the second threshold applies. In `script` two speculations nest, a block
stands in a block, a production opens two, and a body reads two chunks on. The families of `joins` put each
kind of source at each place under each pair of join sides, four joins of each kind under two orders of
their names, and chains of unused joins under each set of keys; the two databases have NULLs and duplicates,
rows without a partner on either side, and an empty table. All other bounds are in the
definitions that name them: `MaxLen`, `MaxJournal`, `MaxQueries`, `MaxItems`, `MaxTries`, `MaxDepth`.

**Symmetry** is over tree nodes and over written names, which no definition tells apart. The checked
temporal properties of those runs are action properties on steps, for which that is sound.

**Fairness.** The library has no scheduler: a call runs to its end or throws, and the client may always
stop. Fairness is therefore assumed *within one call* only, as WF of the next-state relation: `Terminates`
of `boolean` (both fixed-point loops of one optimizer call) and of `script` (one `parse`). In `BooleanRules`
the fairness is written out (`Running`), as every state but the last has a step.

**Deadlock** is left unchecked where the system stops: where the nodes of the tree run out, and where the
one call that is modelled has returned.

Every property of a passing run has a mutant: a change of one mapped definition, of the kind a slip in the
code would make, under which the run fails.

## 4. Where code and documentation disagree

Each of these is a run that TLC finds violated:

1. `queries_order`: a derived table in an early CTE with the text of a later CTE becomes a reference to the
   later one, which is not known there (eliminate_subqueries.js:210), against the comment that the DAG order
   is kept.
2. `boolean_grouped`: De Morgan leaves NOT above a bare chain (simplify.js:929); the generator prints it
   without parentheses, and NOT then takes the first operand only.

The following were met while modelling. The runs leave them out by a named condition of a definition, by
the inputs, or by a hypothesis of a property; a reader of the code should know them.

- *Session tracker.* A quoted name that spells a keyword, `SET search_path = "default"`, is taken for the
  reset (sessionState.js:479; excluded by `Unambiguous`). After `USE ROLE b` the replay log names the role
  before it until the next USE or SET (:1202; `LogLagsOnlyInRole` says that this is all). `RESET TimeZone`
  does not delete what `SET TimeZone` stored as `timezone` (:739), and a Snowflake `SET` of a SQL variable is
  replayed as a session parameter (:503); no statement of `replay` does either.
- *Schema.* A partial reference that has been answered keeps its answer when a second table of that name is
  registered, and hides the ambiguity that docs/api.md promises to raise (schema.js:348; `Settled`). The name
  cache drops the quotes of an Identifier (:565; `KeysFine`), the type cache the dialect (:585; `TypesAgree`).
- *Subqueries and CTEs.* A nested CTE that is renamed keeps its old name at SEMI and ANTI joins; two bodies
  with one text and different meanings are merged; a CTE in a nested WITH RECURSIVE can lose its own name.
- *Boolean rules.* Of two comparisons with one number the pair rule keeps the first (simplify.js:1062), which
  is right only after sorting: `3 >= x AND x < 3` becomes `x <= 3`, and
  `(x > 1 OR x >= 1) AND (x > 1 OR x >= 2)` becomes `x >= 1`. Contradicting comparisons become FALSE where x
  may be NULL, so that `NOT (x < 3 AND x > 5)` becomes TRUE. `propagate_constants` takes equations from under
  a NOT.
- *Diff.* It does not see all that `equals()` sees: `FROM (SELECT 1) AS a` against `AS b`, `USING (a)` against
  `USING (b)` and `x[1:]` against `x[:1]` have an empty delta. And it sees what `equals()` does not: `FOO(a)` and
  `foo(a)`, or `desc: false` and no `desc`, are equal and have a delta (diff.js:452, 508-524). Identical trees whose roots hang below
  unpaired nodes get a Move, a node may be said to move twice, and pairs of the caller do not count as common
  leaves. The hashes are dropped node by node, which leaves those above outdated.
- *Pushdown.* With a FULL join, or two RIGHT joins, a predicate of the WHERE is pushed into a source below the
  join, which then adds rows with NULLs that the predicate had stopped (pushdown_predicates.js:54-69 looks
  for RIGHT only, and takes the first). Of a disjunction not in CNF only the blocks that may move are pushed
  (:189-198), so that the rows of the others are lost. A predicate on a constant beside an aggregate has no
  aggregate in it and goes to the WHERE (:143): `SELECT MAX(a) AS a, 2 AS b FROM u`, filtered by b = 1, gave no
  row, and then gives one of a NULL and a 2.
- *Join order.* A conjunct extracted from a SEMI join's ON can name the semi-joined source, which is not
  visible where it is put (optimize_joins.js:67 exempts ANTI only). The extraction can also make two joins
  depend on each other; `tsort` then raises, as `CycleError` shows.
- *Join elimination.* `distinct != null` (eliminate_joins.js:115) also holds for UNION ALL, which the parser
  gives `distinct: false`: its columns are taken to be unique, against the comment at :42 that a join is removed
  "when we know that the join condition doesn't produce duplicate rows". LIMIT 1, HAVING and a false WHERE may
  leave no row, and GROUP BY with aggregates only may leave many, where the code counts one (:143-149). In DNF,
  a block without a common equality empties the list, which then starts afresh (:205).
- *Parser.* A chunk that starts with ELSE where no block is open ends the parse without an error, and all
  statements behind it are gone (parser.js:2612). Tokens behind the first statement of a block are skipped (`IF x SELECT 1 a b; SELECT 2`), a
  nested IF takes the ELSE of the outer one, a speculation over several chunks rewinds in the last of them,
  and under WARN every check logs the earlier errors again.

## 5. What is proved

All theorems hold for every value of the constants under the named assumptions beside the CONSTANTS.

**`ExprTreeProofs`** (both clients, any nodes, texts, lists). `HashInvariant`: `Spec => []HashInv`, from
which `TypeCorrect`, `HashesAreCoherent`, `FillMeetsChildrenFirst` and `HashAnswersItsReceiver` follow.
`HashCoherent` is not inductive: `invalidate` stops at the first unhashed node, and a stale hash could sit
above it. The missing half is `HashDown`: a hashed node holds no unhashed child that points back to it.
While `hash()` runs, `CollectInv` says that an unhashed child of a collected node is collected later, or is
still on the stack or being scanned; `FillInv` that it still comes later in the list, and that a node
collected twice already holds what its second turn would store. `CopyInv` keeps the destinations on the
copy stack distinct and unhashed, so that the hash carried over is dropped by the appends that follow. Each
action has one lemma; the mutations share `CommitKeepsInv`.
`StaysTree`: `Spec => []TreeInv` adds that no cycle of children arises (`Acyclic`: every set of nodes has one
with no child in it). `Below` is first shown to be the least set closed under children (`BelowIsLeast`); what
a caller may attach then lies in a closed set without the node that gets it, and a write of such children to
one node closes no cycle (`StaysAcyclic`). A node that is replaced must have a parent that exists
(`Parented`), and a node not yet constructed must have no child (`FreshBare`).
`EqualHashesEqualTrees`: `Spec => []EqualsIsStructural`. `Terms`, the structure below every node, is a
recursive function, which has a value because the nodes can be put in order, children first (`TableExists`).
A sound tree whose hash were not its structure would hold a smaller one (`HashedIsTerm`).
`CopiesAreFaithful`: `Spec => CopyFaithful`. The invariant, `CopyMapped`, is that while `copy()` runs there is
a map from its copies to nodes that are no copies: each pair on the stack is in the map, and every copy that
left the stack has the scalar, the copied arguments and the back links that its source has (`Stands`). An
iteration completes one copy and extends the map by its children (`CopyStepMaps`). TLC checked `TreeInv` and
`CopyMapped` on both tree runs before the proofs.

**`ExprOwnershipProofs`** (the client that keeps the convention, any nodes, lists and texts). `BackLinksAreExact`:
`Owned /\ Spec => [](LinkExact /\ HeldOnce)`: a child whose link points to its holder stands in one slot of it,
the one the link names; and nodes all of whose children point back to them hold no node twice, in one of them or
in two (`HeldOnce`). A child whose link points elsewhere is outside both (2.1). `LinkExact` is inductive next to the
types, provided the convention is stated exactly; `HeldOnce` follows from it (`ExactHeldOnce`). Two guards of it came out of the proof, each from a step that failed and then from a tree of
five nodes: a caller that replaces or wraps a node may use a node from below it only if that node hung
elsewhere than in the slot that is rewritten, and the list form of `replace` may climb only to a slot whose
node the caller may replace. Otherwise a holder that lost its back link on the way lets one node into a list
twice. Callers in src/ do neither. `PopIsExact`: the removed position is the one the link names, so that the
list left is the old one without that position; `PopTakesItself` says it with `LeftOut`, which the prover
can unfold.
`RevertRestoresTheTree`: `JournalInv` says that each recorded argument is what the tree had when the first
record of that slot was made (`Earlier`), that undoing all records gives the saved tree (`UndoKnown`), and
that every link that differs from the saved one is repaired by a record that will be put back
(`LinksKnown`); with it putting records back newest first ends in the saved state. `BackLinksUnderRules` is
`LinksExact` for the same specification.

**`SessionStateProofs`**. `SessionTyped`: the state keeps its shape, for every family, key table and
statement. `LogLags`: `Spec => []LogLagsOnlyInRole`.

`RenderReadsBack`: `ReplaySpec => []RoundTrip` for every family, key table and set of statements under
`DeclaresPlainly`, with the empty text among the texts and `UpperTwice`, that upper case is stable. The fold is
unfolded first, by induction over the prefixes of the log (`ReplayedAppend`), so that a log is told entry by
entry (`ToldAppend`): the catalog, schema and warehouse that its first entries leave (`ToldContext`), then one
variable for each SET (`ToldLog`). The variables of the state must then survive a second reading:
`PlainVariables` is the invariant, each variable is stored once, under the name the family's table gives
it, and its value is the text of its raw form.

`SettingsComeBack`: `ReplaySpec => []SettingsRestored` under `SetsPlainly`. `InStep` relates the two sides while the
client is still connected: the server holds one setting for each tracked variable, under the server's name for
it and as it stores the raw text, and no other. `SetReads` and `SetStores` say what one rendered SET does to a tracker and
to a server, `StatementInStep` that every statement of the client keeps them in step. The last-written role
that the log may lack (`LogLags`) touches neither theorem, because a role is not a setting. Both are about
one family at a time, whichever it is; the run's `RoundTrip` and `SettingsRestored` evaluate the same
definitions for the family of the client that was chosen.

**`SessionTrustProofs`**. `LabelTrusted`: `TrustSpec => []PathTrusted` provided every statement is
`Unambiguous`, that is, the words read as a reset are the server's keywords; without it the theorem is
false (section 4). The invariant relates the two flags of the tracker to the server: a role or user that is
not the login's implies its flag, and the tracked path is the server's as long as `blind` is FALSE. Every
statement is shown to *report* the server's step (`Reports`), and every report to keep the invariant
(`ReportSound`).

**`MappingSchemaProofs`**. `SchemaImplements`: under `KeysFine`, `TypesAgree` and `Careful`,
`SchemaSpec => CatalogSpec`, for all names, dialects, foldings, types and requests. `CachesStayRight`:
`[]CachesAgree` under the same. The invariant has one conjunct per cache (its entries are what would be
computed now), equal lengths of all paths, and that the trie holds the mapping's paths, so that the prefix
search finds what `Matches` defines; `Settled` is what keeps find entries right over `addTable`.

**`DiffProofs`**, for all families of trees, similarities and options under `CallsAssumption`. `AlwaysTyped`.
`DiffImplements`: `Spec => MatchSpec`, by the mapping that takes the pairs of both maps and the caller's
together; every step pairs one free node of each tree or stutters, which needs the types alone. `AlwaysStable`:
`[]Stable` is not inductive, since it speaks of the time after the leaves are paired. `StableInv` adds
`StillStable`: while leaves are paired, a candidate pair already passed over has both ends free, or one of them
went to a pair at least as alike (`Outdone`), because candidates come in descending order.
`AlwaysPartitioned`: under the same, every node is free or in exactly one pair, so that removals, insertions and
matches make up the two trees.

`EveryNodeOnce`: `Spec => []Accounted`. `PairedOnce` says that the two maps and the caller's pairs share no node
and that the free nodes are the rest, so that the matches pair each node at most once (`MatchesOnce`). Of a
script, `Says(s, A)` means that, moves apart, it is about the pairs in A, each once; a concatenation says the
union, and so does `FlattenSeq`, whose recursive function is unfolded by an induction over sets
(`FlattenKeeps`, `SaysFlat`). That a set is put in order without loss is `AscendingEnumerates`.

`NoNeedlessMove`: `Spec => []MovesMinimal`. The table of `Lcs` is filled by the sum of its two indices, and each cell
is `Longest`: the first members of a largest set of matched pairs between the two prefixes that is in the same
order on both sides. `LongestWithBoth` and `LongestWithoutOne` are the two cases of the recurrence, `LcsIsLongest`
the induction, `LcsIsRight` what it says of any two ascending lists and any matching. `NoMoveForgotten`:
`Spec => []MovesComplete`. The script holds the edits of every pair, so a child for which it holds no move is in the
common subsequence of its parents' children, which is in order. Only the optimality of the recurrence makes
`MovesMinimal` true: a table that returned any common subsequence would keep `MovesComplete`.

`DeltaIsFaithful`: `Spec => []DeltaFaithful`, for every folding and all bigrams. What the model computes on trees
(equality, parent score, ancestors, leaves, totals, `Alike`) are recursive functions; `TableByRank` gives the table of
any of them whose cells look only at places of a lower rank, and `InductionByRank` the induction over it. For a tree
and its copy (`Twins`) the greedy run must be followed, and `Mirrored` is its invariant: every pair is a node and
itself, and once the leaves are done every leaf is paired. No node is more like another than like itself
(`DiceIsAShare`, `DiceOfOneself`) nor has better ancestors with it (`ScoresOneselfMost`), and ties go to the earlier
leaf, so that no pair of two different leaves is before both of the pairs on the diagonal (`NotBeforeOneself`); a node
with all its leaves paired fits itself (`NodeFitsItself`), so the script keeps everything (`TwinsAreKept`).

For the converse, an empty delta pairs all nodes one to one (`SilentPairs`). A pair that is not equal has the children
of one node paired with children of the other in their order (`SilentChildren`), and none of these is left over: each
node below the root has a `Counterpart` below the partner of its parent (by its slot if the parents are equal, its
partner if not), different nodes have different ones, and so all nodes of the target are one
(`EveryNodeHasACounterpart`). Two partners that are not equal therefore have one kind and one value (`SilentFaces`) and
as children each other's partners (`ChildrenArePartners`), so that every node is alike to its partner, by induction
from the leaves up (`SilentNodes`). The root's partner is the root: otherwise one tree would be alike to a proper
subtree of the other and this one's root to a node of the first, and as alike trees are equally deep
(`AsDeepAsTheSource`, `AsDeepAsTheTarget`) there would be no deepest node (`RootsMeet`).

**`ParserKernelProofs`**, for all scripts, all grammars, all depths and levels: `AlwaysTyped`,
`AlwaysContained`, `AlwaysSurface`, `AlwaysSilent`. That the error level is the caller's outside all
speculations is not inductive, because it is put back from what a frame remembers. The invariant says so of
the whole call stack: `Remembers`, each speculation holds the level that the frames below it determine
(`LevelAt`); `WellNested`, a statement stands on the loop that called it; and the outermost frame is a batch.
Prefixes of a sound stack are sound (`PrefixOK`), which covers every return and every exception however far
it unwinds. `Settled` adds what is owed when the outermost loop returns: no error is uncollected at RAISE
and none unlogged at WARN.

`NoTokenIsLost`: `Spec => []LossesKnown`. `LossInv` accounts for every token behind the cursor, held by a tree
or in a chunk known to be lost (`Accounted`); the same of the place and the trees to which each speculation
on the stack would go back (`TriesAccounted`), which is what makes a retreat over several chunks provable;
and that a loop goes on only from a chunk that is read to its end or given up by a block (`ChunkDone`).

`OneSlotEach`: `Spec => []OnePerStatement`. `PlainInv` says of a plain script that the outermost batch has one
slot for each chunk before the present one, that only its statement and speculations stand above it, and
that the statement of an empty chunk is marked empty and moves nowhere. What the chunks are is a fact about
`Chunks`, a recursive function: `ChunksCounted` shows by induction over the tokens that there is one chunk for
each stretch and each commented semicolon, and an empty one for each bare stretch (`Counted` of every row of
the table). The library's induction theorems take an operator as a parameter, so the induction is done on
sets: `InductionUpTo` gets it from the least element of what is left out (`WFMin`).

**`JoinRulesProofs`**, for all tables and columns, all databases of finite tables, and all families of queries under
`FamiliesAssumption`: any number of items, sources, predicates and blocks. `AlwaysIInv` is the inductive
invariant. `Shaped` alone is inductive (`AlwaysShaped`: `PushdownShaped`, `OptimizeShaped`, `WithoutShaped`). The
rows are not: that tsort's order keeps them needs `WellFormed(query)`, which pushdown_predicates must not break
(`PushdownWellFormed`: a predicate goes where all else it mentions comes earlier, and into a subquery with nothing
but its own columns) and which no longer matters once optimize_joins has had its turn. `RuleDone` ties the query
to the one before the last rule.

`AlwaysEliminateKeepsRows`: `Spec => []EliminateKeepsRows`. Rows joined with a source `Mirror` those without it if it
matches every row exactly once; `UnneededMatchesOnce` derives this from the unique outputs (`KeysTellGroups`,
`SelectKeys`, `UnionKeys`: rows that agree on the keys are one row, through GROUP BY, DISTINCT and UNION) and from
the equalities of the ON (`KeysDetermined`), or from a source of one row (`SingleSelect`). `MirrorStep` carries the
mirror over every later join, ordinary, outer, SEMI or ANTI, none of which mentions the source; so both answers
have as many of every row (`WithoutSameAnswer`), and `EliminateSame` is the induction from the last join to the first.

`AlwaysOptimizeKeepsRows`: `Spec => []OptimizeKeepsRows`. Without sides, the joined rows are `Total`: one row of each
source, all predicates passed, wherever in the list each stands (`JoinedTotal`); an order in which every condition
stands behind what it mentions therefore gives the same rows (`RearrangedJoined`). `ExtractAllRegroups` says that
the conjuncts moved are the same conjuncts all along, `TSortSorts` that the levels of `tsort` name every join once
and behind what it mentions, unless it raises, and `RewordedJoined` that `normalize` writes the same joins.
Recursive functions (rows joined so far, levels of the sort, pairs extracted) are unfolded by inductions over sets.

`AlwaysPushdownKeepsRows`: `Spec => []PushdownKeepsRows`. `SimplifiedHolds`: simplify() asks what the condition asked.
`PushHolds`: so do, together, what is pushed and what is left (TRUE for a predicate that moved). A SELECT filtered
below its outputs gives those of its rows that pass (`BodyFiltered`): without GROUP BY, LIMIT and windows either
each row is a group of its own (`RowsApart`) or all are one and the filter goes to the HAVING. A CTE is filtered for
its one reader only (`AppliedBody`). `JoinFiltered` is the step over one join: if rows of the left and of the right
are filtered, and the ON gets more predicates, the joined rows are those that pass everything, as long as the
join's side permits it; `FilteredUpTo` carries this over all later joins, none of which may add rows
(`NothingAdded`). That the code sends predicates only where this holds is `WhereGoes`, `WhereToJoin` and `WhereToSelect`:
with a RIGHT join only its own source takes any. Hence the WHERE keeps the rows (`PushWhereKept`). For the
ONs every join, outer, SEMI or ANTI, finds the same matches in fewer rows (`OnMatches`), so that the rows joined are
the same at every step (`PushOnsJoined`).

Some definitions changed when their proofs failed. A constant beside an aggregate broke `BodyFiltered`; TLC, which
had no such source in its families, has one now and confirms it (section 4), and `PushdownCare` excludes it.
`PushdownCare` had judged where predicates of the ONs go by the query before its WHERE was pushed. `Keys` had taken
an equality between two columns of the *joined* source for a key, where `join_condition` gives neither of its sides;
TLC had no such condition in its families, and has one now. `Absorbed` and the parts of a disjunction no longer go
through `SelectSeq`, whose body is hidden from the prover. `Diff` had assumed no shape of its trees, with which
an empty delta says nothing: the list of children, which is in the order of the numbers, would not be that of the walk.

**Model-checked only**: the properties of the query and boolean rules, and both `Terminates`. The boolean
rules are defined by RECURSIVE operators, which leave the prover without its SMT backend. The query rules
rewrite the tree they walk, and a proof would have to carry the walk, the names in scope and the recursive
meanings over every rewrite; none is attempted. Liveness is out of the prover's reach.

## 6. Plan

1. **Subquery merging and unnesting** on top of `JoinQueries`, whose row semantics it would share: correlated
   conditions and nested select lists, with the property that every row stays as often as it was.
2. **Schema, second part**: `visible`, `copy()`, the nested constructor argument.
3. **Resolver and qualification**, on top of `Queries` and `Catalog`: a column is bound to the one source
   that has it, whatever the caches hold.
4. **Proofs**: the query and boolean rules, once their meanings are recursive functions.

## 7. Not modelled

Tokenizer, grammar, generator, dialect tables, type annotation, transforms, anonymizer and shims are
functions from input to output without state between calls; what they must preserve is the meaning of SQL,
and a model of it would repeat them. The corpus of golden outputs in `corpus/` checks them better. They are
also most of the source, which is why the map covers a small share of its lines. Subquery merging and
unnesting need select lists and correlation on top of `JoinQueries`. USING, UNNEST, OFFSET and QUALIFY are
left out of the join rules.

## 8. Running

    tlc -config ExprTree_any.cfg MCExprTree        (and so on; PROJECT.json pairs modules and cfgs)
    tlapm JoinRulesProofs.tla                      (7869 obligations; ParserKernelProofs 3642,
                                                    DiffProofs 5521, SessionStateProofs 2572,
                                                    ExprOwnershipProofs 2551, ExprTreeProofs 3244,
                                                    MappingSchemaProofs 757, SessionTrustProofs 727)

Each run ends within three minutes on two cores, each proof within twelve.
