--------------------------- MODULE ParserKernel ---------------------------
(***************************************************************************)
(* The kernel every dialect's parser runs on: a script is cut into chunks  *)
(* at its semicolons, batch loops parse one statement per chunk, a block   *)
(* (T-SQL's IF and procedure bodies) or a routine body (Trino) runs a loop *)
(* of its own over the SAME chunks, a speculative parse can be abandoned,  *)
(* and errors are thrown, collected or logged by the error level.          *)
(*                                                                         *)
(* The call stack of the recursive descent is the variable stack.  The     *)
(* grammar itself is not modelled: a production may take tokens, report an *)
(* error, speculate, open a block or a routine body, throw something that  *)
(* is not a ParseError, and return, in any order.  Two things are assumed  *)
(* of it: a production that rewinds without failing is one that has not    *)
(* moved, and a statement returns a tree exactly when it has moved.        *)
(***************************************************************************)
EXTENDS Integers, Sequences, FiniteSets

CONSTANTS
    Calls,     \* what the parser is asked for: [script, level, into, opens, calls]
    MaxTries,  \* bound on the speculations nested in each other
    MaxDepth   \* bound on the depth of the call stack

Levels == {"ignore", "warn", "raise", "immediate"}

\* ";" ends a statement, ";c" also carries comments; every token that no part
\* of the kernel looks at is "plain".
TokenKinds == {"plain", "begin", "else", "end", ";", ";c"}

\* into is the number of types parse_into tries, 0 for parse; opens, the bodies
\* the script's statements may have; calls bounds what one production reports,
\* tries and opens.
ASSUME CallsAssumption ==
    Calls \subseteq [script : Seq(TokenKinds), level : Levels, into : Nat,
                     opens : SUBSET {"block", "routine"}, calls : Nat]

ASSUME BoundsAssumption == MaxTries \in Nat /\ MaxDepth \in Nat \ {0, 1}

\* _parse opens a chunk behind every semicolon but a final one.
AlwaysOpened(script, i) == << <<>> >>
Opened(script, i) == IF i < Len(script) THEN << <<>> >> ELSE <<>>

\* The tokens between semicolons; a commented semicolon is a chunk of its own.
Chunks(script) ==
    LET upTo[i \in 0 .. Len(script)] ==
            IF i = 0 THEN << <<>> >>
            ELSE CASE script[i] = ";" -> upTo[i - 1] \o Opened(script, i)
                   [] script[i] = ";c" ->
                        upTo[i - 1] \o << <<";c">> >> \o Opened(script, i)
                   [] OTHER ->
                        [upTo[i - 1] EXCEPT ![Len(upTo[i - 1])] = Append(@, script[i])]
    IN  upTo[Len(script)]

VARIABLES
    call,        \* the request being served
    method,      \* which of its parse methods runs: parse_into tries several
    chunks,      \* _chunks
    chunkIndex,  \* _chunk_index, the number of chunks taken so far
    index,       \* _index, the number of tokens of the chunk behind the cursor
    errorLevel,  \* error_level
    errors,      \* errors, each as the chunk it was reported in
    logged,      \* how many of them a WARN parser has logged
    stack,       \* the methods that are running, outermost first
    outcome,     \* "running", "returned", "thrown" (a ParseError) or "crashed"
    result,      \* the list _parse returns: one slot per entry
    kept,        \* the tokens <<chunk, position>> that the trees hold
    joined,      \* the chunks in which the first statement of a block ended
    dropped      \* the chunks read by a speculation that was then abandoned

vars == <<call, method, chunks, chunkIndex, index, errorLevel, errors, logged,
          stack, outcome, result, kept, joined, dropped>>

cursor == <<chunkIndex, index>>
reports == <<errors, logged>>
answer == <<outcome, result>>
request == <<call, method, chunks>>

-----------------------------------------------------------------------------

Slots == {"null", "tree", "end"}

\* A batch is at "first" until it has parsed the statement that shares the chunk
\* of its IF, in its "loop", or waiting for the statement of a chunk.
BatchFrames == [kind : {"batch"}, at : {"first", "loop", "statement"}, out : Seq(Slots)]
StatementFrames ==
    [kind : {"statement"}, chunk : Nat, index : Nat, empty : BOOLEAN, calls : Nat]
TryFrames ==
    [kind : {"try"}, chunk : Nat, index : Nat, level : Levels, retreat : BOOLEAN,
     kept : SUBSET (Nat \X Nat), calls : Nat]
RoutineFrames == [kind : {"routine"}, until : {{"end"}, {"else", "end"}}]
Frames == BatchFrames \cup StatementFrames \cup TryFrames \cup RoutineFrames

\* parse runs one method; parse_into one for each type, until one succeeds.
Methods == IF call.into = 0 THEN 1 ELSE call.into

TypeOK ==
    /\ call \in Calls
    /\ method \in 1 .. Methods
    /\ chunks = Chunks(call.script)
    /\ chunkIndex \in Nat
    /\ index \in Nat
    /\ errorLevel \in Levels
    /\ errors \in Seq(Nat)
    /\ logged \in 0 .. Len(errors)
    /\ stack \in Seq(Frames)
    /\ outcome \in {"running", "returned", "thrown", "crashed"}
    /\ result \in Seq(Slots)
    /\ kept \subseteq Nat \X Nat
    /\ joined \subseteq Nat
    /\ dropped \subseteq Nat

-----------------------------------------------------------------------------

Tokens == IF chunkIndex = 0 THEN <<>> ELSE chunks[chunkIndex]
More == index < Len(Tokens)
Curr == IF More THEN Tokens[index + 1] ELSE "none"
ChunksLeft == chunkIndex < Len(chunks)

Depth == Len(stack)
Top == stack[Depth]
Below == SubSeq(stack, 1, Depth - 1)
WithTop(frame) == Append(Below, frame)
Running(kind) == outcome = "running" /\ stack # <<>> /\ Top.kind = kind

Batch(at) == [kind |-> "batch", at |-> at, out |-> <<>>]
Statement(empty, c, i) ==
    [kind |-> "statement", chunk |-> c, index |-> i, empty |-> empty, calls |-> 0]

\* _advance over the current token: _match and its kin, _advance_any.
Advance == index' = index + 1 /\ kept' = kept \cup {<<chunkIndex, index + 1>>}

\* _advance_chunk
AdvanceChunkOnly == chunkIndex' = chunkIndex + 1 /\ index' = -1
AdvanceChunk == chunkIndex' = chunkIndex + 1 /\ index' = 0

-----------------------------------------------------------------------------
(* Speculation and errors                                                  *)

Tries(s) == {k \in 1 .. Len(s) : s[k].kind = "try"}
Innermost(k) == \A j \in Tries(stack) : j =< k
Outermost(k) == \A j \in Tries(stack) : k =< j

\* Inside a speculation whatever goes wrong must throw, so the level is forced.
CallersLevel == errorLevel
ForcedLevel == "immediate"
KeepLevel(k) == errorLevel' = errorLevel
RestoreLevel(k) == errorLevel' = stack[k].level

\* _retreat: back to the INDEX a speculation started from, whatever chunk the
\* cursor is in now.
NoRetreat(k) == index' = index
Retreat(k) == index' = stack[k].index

\* _try_parse gives its speculation up.
Abandon(k) ==
    /\ stack' = SubSeq(stack, 1, k - 1)
    /\ Retreat(k)
    /\ RestoreLevel(k)
    /\ kept' = stack[k].kept
    /\ dropped' = IF stack[k].chunk = chunkIndex THEN dropped
                  ELSE dropped \cup stack[k].chunk .. chunkIndex
    /\ UNCHANGED <<chunkIndex, answer>>

\* A ParseError unwinds to the innermost speculation, or out of the parse.
Throw ==
    \/ \E k \in Tries(stack) : Innermost(k) /\ Abandon(k)
    \/ /\ Tries(stack) = {}
       /\ stack' = <<>>
       /\ outcome' = "thrown"
       /\ UNCHANGED <<cursor, errorLevel, result, kept, dropped>>

\* raise_error: unless it throws, the stack is goOn and nothing is rewound.
RaiseError(goOn) ==
    \/ /\ errorLevel = "immediate"
       /\ Throw
       /\ UNCHANGED errors
    \/ /\ errorLevel # "immediate"
       /\ errors' = Append(errors, chunkIndex)
       /\ stack' = goOn
       /\ UNCHANGED <<cursor, errorLevel, answer, kept, dropped>>

-----------------------------------------------------------------------------
(* _parse_batch_statements                                                 *)

\* A batch loop returns: the outermost one ends the parse, a block's goes back
\* to the production that opened it.
BatchReturns(out) ==
    IF Depth = 1
    THEN stack' = <<>> /\ outcome' = "returned" /\ result' = out
    ELSE stack' = Below /\ UNCHANGED answer

\* The statement in the chunk of the IF, after an optional BEGIN.
FirstStatement ==
    /\ Running("batch")
    /\ Top.at = "first"
    /\ IF Curr = "begin" THEN Advance ELSE UNCHANGED <<index, kept>>
    /\ stack' = Append(stack, Statement(index' >= Len(Tokens), chunkIndex, index'))
    /\ UNCHANGED <<request, chunkIndex, errorLevel, reports, answer, joined, dropped>>

NextChunk == Running("batch") /\ Top.at = "loop" /\ ChunksLeft /\ AdvanceChunk
NextTokens == chunks[chunkIndex + 1]
StartsWith(kind) == NextTokens # <<>> /\ NextTokens[1] = kind
OnlyEnd == Top.out # <<>> /\ NextTokens = <<"end">>

\* A chunk that starts with ELSE is left to the caller.
StopAtElse ==
    /\ NextChunk
    /\ StartsWith("else")
    /\ BatchReturns(Top.out)
    /\ UNCHANGED <<request, errorLevel, reports, kept, joined, dropped>>

TakeEnd ==
    /\ Running("batch") /\ Top.at = "loop" /\ ChunksLeft
    /\ OnlyEnd
    /\ chunkIndex' = chunkIndex + 1
    /\ index' = 1
    /\ kept' = kept \cup {<<chunkIndex + 1, 1>>}
    /\ stack' = WithTop([Top EXCEPT !.out = Append(@, "end")])
    /\ UNCHANGED <<request, errorLevel, reports, answer, joined, dropped>>

\* _parse_statement returns at once where there is no token; the methods
\* parse_into is given do not look.
ParseChunk ==
    /\ NextChunk
    /\ ~StartsWith("else") /\ ~OnlyEnd
    /\ LET empty == NextTokens = <<>> /\ (Depth > 1 \/ call.into = 0)
       IN  stack' = Append(WithTop([Top EXCEPT !.at = "statement"]),
                           Statement(empty, chunkIndex + 1, 0))
    /\ UNCHANGED <<request, errorLevel, reports, answer, kept, joined, dropped>>

ChunksEnd ==
    /\ Running("batch") /\ Top.at = "loop" /\ ~ChunksLeft
    /\ BatchReturns(Top.out)
    /\ UNCHANGED <<request, cursor, errorLevel, reports, kept, joined, dropped>>

\* check_errors of a WARN parser logs everything reported so far.
LogReported(found) == IF errorLevel = "warn" THEN Len(errors) ELSE logged
Log(found) == IF errorLevel = "warn" THEN Len(found) ELSE logged

\* After a statement: a token behind it is an error, then check_errors logs
\* or throws.  The slot of a statement that throws is lost with the batch.
CheckStatement(slot) ==
    LET batch == stack[Depth - 1]
        found == IF More THEN Append(errors, chunkIndex) ELSE errors
        goOn  == /\ stack' = Append(SubSeq(stack, 1, Depth - 2),
                                    [batch EXCEPT !.at = "loop", !.out = Append(@, slot)])
                 /\ UNCHANGED <<cursor, errorLevel, answer, kept, dropped>>
    IN  CASE More /\ errorLevel = "immediate" ->
                 Throw /\ UNCHANGED reports
          [] errorLevel = "raise" /\ found # <<>> ->
                 Throw /\ errors' = found /\ UNCHANGED logged
          [] OTHER ->
                 /\ goOn
                 /\ errors' = found
                 /\ logged' = Log(found)

\* The first statement of a block is appended without those checks.
JoinFirst(slot) ==
    /\ stack' = Append(SubSeq(stack, 1, Depth - 2),
                       [stack[Depth - 1] EXCEPT !.at = "loop", !.out = Append(@, slot)])
    /\ joined' = joined \cup {chunkIndex}
    /\ UNCHANGED <<cursor, errorLevel, reports, answer, kept, dropped>>

-----------------------------------------------------------------------------
(* Productions: a statement's, or the one inside a speculation             *)

Producing ==
    /\ outcome = "running" /\ stack # <<>>
    /\ Top.kind \in {"statement", "try"}
    /\ Top.kind = "statement" => ~Top.empty

Calling == Producing /\ Top.calls < call.calls
Called == WithTop([Top EXCEPT !.calls = @ + 1])

TakeToken ==
    /\ Producing
    /\ More
    /\ Advance
    /\ UNCHANGED <<request, chunkIndex, errorLevel, reports, stack, answer, joined, dropped>>

ReportError ==
    /\ Calling
    /\ RaiseError(Called)
    /\ UNCHANGED <<request, logged, joined>>

\* _try_parse
Speculate(retreat) ==
    /\ Calling
    /\ Cardinality(Tries(stack)) < MaxTries /\ Depth < MaxDepth
    /\ stack' = Append(Called,
                      [kind |-> "try", chunk |-> chunkIndex, index |-> index,
                       level |-> errorLevel, retreat |-> retreat, kept |-> kept,
                       calls |-> 0])
    /\ errorLevel' = ForcedLevel
    /\ UNCHANGED <<request, cursor, reports, answer, kept, joined, dropped>>

\* The speculation returns: a tree that is not just looked ahead at is kept.
EndSpeculation(found) ==
    /\ Running("try")
    /\ \/ /\ ~found \/ Top.retreat
          /\ Abandon(Depth)
       \/ /\ found /\ ~Top.retreat
          /\ stack' = Below
          /\ RestoreLevel(Depth)
          /\ UNCHANGED <<cursor, answer, kept, dropped>>
    /\ UNCHANGED <<request, reports, joined>>

\* _parse_block
OpenBlock ==
    /\ Calling
    /\ "block" \in call.opens
    /\ Depth + 1 < MaxDepth
    /\ stack' = Append(Called, Batch("first"))
    /\ UNCHANGED <<request, cursor, errorLevel, reports, answer, kept, joined, dropped>>

\* _parse_routine_statements of Trino, up to one of its terminators
OpenRoutine(until) ==
    /\ Calling
    /\ "routine" \in call.opens
    /\ Depth + 1 < MaxDepth
    /\ stack' = Append(Called, [kind |-> "routine", until |-> until])
    /\ UNCHANGED <<request, cursor, errorLevel, reports, answer, kept, joined, dropped>>

\* A statement returns its tree, or nothing from where it started.
EndStatement ==
    /\ Running("statement")
    /\ LET caller == stack[Depth - 1]
           slot == IF cursor = <<Top.chunk, Top.index>> THEN "null" ELSE "tree"
       IN  CASE caller.kind = "routine" ->
                    /\ stack' = SubSeq(stack, 1, IF slot = "null" THEN Depth - 2 ELSE Depth - 1)
                    /\ UNCHANGED <<cursor, errorLevel, reports, answer, kept, joined, dropped>>
             [] caller.kind = "batch" /\ caller.at = "first" -> JoinFirst(slot)
             [] OTHER -> CheckStatement(slot) /\ UNCHANGED joined
    /\ UNCHANGED request

-----------------------------------------------------------------------------
(* _parse_routine_statements                                               *)

RoutineEnds ==
    /\ Running("routine")
    /\ Curr \in Top.until
    /\ Advance
    /\ stack' = Below
    /\ UNCHANGED <<request, chunkIndex, errorLevel, reports, answer, joined, dropped>>

RoutineChunkStays ==
    Running("routine") /\ ~More /\ ChunksLeft /\ UNCHANGED vars

RoutineChunk ==
    /\ Running("routine")
    /\ ~More /\ ChunksLeft
    /\ AdvanceChunk
    /\ UNCHANGED <<request, errorLevel, reports, stack, answer, kept, joined, dropped>>

RoutineUnfinished ==
    /\ Running("routine")
    /\ ~More /\ ~ChunksLeft
    /\ RaiseError(Below)
    /\ UNCHANGED <<request, logged, joined>>

RoutineSemicolon ==
    /\ Running("routine")
    /\ Curr = ";c"
    /\ Advance
    /\ UNCHANGED <<request, chunkIndex, errorLevel, reports, stack, answer, joined, dropped>>

RoutineStatement ==
    /\ Running("routine")
    /\ More /\ Curr \notin Top.until \cup {";c"}
    /\ stack' = Append(stack, Statement(FALSE, chunkIndex, index))
    /\ UNCHANGED <<request, cursor, errorLevel, reports, answer, kept, joined, dropped>>

-----------------------------------------------------------------------------
(* The parse as a whole                                                    *)

Init ==
    /\ call \in Calls
    /\ method = 1
    /\ chunks = Chunks(call.script)
    /\ errorLevel = call.level
    /\ chunkIndex = 0 /\ index = 0
    /\ errors = <<>> /\ logged = 0
    /\ stack = <<Batch("loop")>>
    /\ outcome = "running" /\ result = <<>>
    /\ kept = {} /\ joined = {} /\ dropped = {}

\* Something that is no ParseError leaves through every speculation, and each
\* restores the level on its way.
GoWrong ==
    /\ Producing
    /\ stack' = <<>>
    /\ outcome' = "crashed"
    /\ \/ Tries(stack) = {} /\ UNCHANGED <<index, errorLevel>>
       \/ \E k \in Tries(stack) : Outermost(k) /\ Retreat(k) /\ RestoreLevel(k)
    /\ UNCHANGED <<request, chunkIndex, reports, result, kept, joined, dropped>>

\* parse_into tries the next type on the same parser; reset clears everything
\* but the error level.
NextMethod ==
    /\ outcome = "thrown"
    /\ method < Methods
    /\ method' = method + 1
    /\ chunkIndex' = 0 /\ index' = 0
    /\ errors' = <<>> /\ logged' = 0
    /\ stack' = <<Batch("loop")>>
    /\ outcome' = "running" /\ result' = <<>>
    /\ kept' = {} /\ joined' = {} /\ dropped' = {}
    /\ UNCHANGED <<call, chunks, errorLevel>>

Next ==
    \/ FirstStatement \/ StopAtElse \/ TakeEnd \/ ParseChunk \/ ChunksEnd
    \/ TakeToken \/ ReportError \/ OpenBlock \/ GoWrong \/ NextMethod
    \/ \E retreat \in BOOLEAN : Speculate(retreat)
    \/ \E found \in BOOLEAN : EndSpeculation(found)
    \/ \E until \in {{"end"}, {"else", "end"}} : OpenRoutine(until)
    \/ EndStatement \/ RoutineEnds \/ RoutineChunk \/ RoutineUnfinished
    \/ RoutineSemicolon \/ RoutineStatement

\* One synchronous call: while it can take a step, it takes one.
Spec == Init /\ [][Next]_vars /\ WF_vars(Next)

-----------------------------------------------------------------------------
(* Properties                                                              *)

\* The level a caller asked for is in force whenever no speculation runs, and
\* "immediate" whenever one does: nested, abandoned, kept, or left by an
\* exception, also when parse_into goes on with the next type.
SpeculationContained ==
    errorLevel = IF Tries(stack) = {} THEN call.level ELSE "immediate"

\* Nothing that happens inside a speculation reports or logs an error.
SpeculationSilent == [][Tries(stack) # {} => UNCHANGED reports]_vars

\* Each error level keeps its promise: "immediate" collects nothing, "raise"
\* never returns with an error in hand, "warn" and "ignore" never throw, and
\* "warn" has logged every error by the time it returns.
ErrorsSurface ==
    /\ call.level = "immediate" => errors = <<>>
    /\ outcome = "thrown" => call.level \in {"immediate", "raise"}
    /\ outcome = "returned" /\ call.level = "raise" => errors = <<>>
    /\ outcome = "returned" /\ call.level = "warn" => logged = Len(errors)

Lost == {t \in (1 .. Len(chunks)) \X (1 .. Len(call.script)) :
            t[2] =< Len(chunks[t[1]]) /\ t \notin kept}

\* A parse that returns with no error has put every token of the script in a
\* tree, but for three kinds of chunk: one in which the first statement of a
\* block ended while the block went on in the next, one an abandoned speculation
\* had read beyond its own chunk, and the chunk that starts with ELSE where no
\* block was open, with all that follow it.
LossesKnown ==
    outcome = "returned" /\ errors = <<>> =>
        \A lost \in Lost :
            \/ lost[1] \in joined /\ lost[1] < chunkIndex
            \/ lost[1] \in dropped
            \/ lost[1] >= chunkIndex /\ index = 0 /\ Curr = "else"

Semicolons(script) == {i \in 1 .. Len(script) : script[i] \in {";", ";c"}}

\* A script of plain statements has one slot for each stretch between its
\* semicolons, and one for each commented semicolon; a final semicolon opens no
\* stretch, and exactly the empty stretches have a null slot.
OnePerStatement ==
    LET script == call.script
        plain == call.opens = {} /\ \A c \in 1 .. Len(chunks) :
                    chunks[c] # <<>> => chunks[c][1] # "else"
        starts == {0} \cup (Semicolons(script) \ {Len(script)})
        commented == {i \in Semicolons(script) : script[i] = ";c"}
        bare == {i \in starts : i = Len(script) \/ i + 1 \in Semicolons(script)}
    IN  outcome = "returned" /\ plain =>
            /\ Len(result) = Cardinality(starts) + Cardinality(commented)
            /\ errors = <<>> /\ call.into = 0 =>
                  Cardinality({i \in 1 .. Len(result) : result[i] = "null"})
                      = Cardinality(bare)

\* Every request is answered: no loop over the chunks, of a batch or of a
\* routine body, waits for a chunk or a terminator that does not come.
Terminates == <>[](outcome # "running")

=============================================================================
