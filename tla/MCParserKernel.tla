-------------------------- MODULE MCParserKernel --------------------------
(* Scripts and requests for ParserKernel.                                  *)
EXTENDS ParserKernel

CONSTANTS
    Longest,  \* every script of the four kinds of Splitting up to this length
    Longer    \* and every one of plain tokens and ";" up to this length

ScriptsOf(kinds, n) == UNION {[1 .. k -> kinds] : k \in 0 .. n}

Requests(scripts, levels, into, opens, calls) ==
    [script : scripts, level : levels, into : {into}, opens : {opens}, calls : {calls}]

\* How a script is cut, and what stray keywords do to it.
Splitting ==
    Requests(ScriptsOf({"plain", "else", ";", ";c"}, Longest), {"immediate"}, 0, {}, 1)

\* Several statements, each of which may fail, at every level.
Failing == Requests(ScriptsOf({"plain", ";"}, Longer), Levels, 0, {}, 1)

\* parse_into goes on to its second type after the first has failed.
Typed == Requests({<<>>, <<"plain">>, <<"plain", ";", "plain">>}, Levels, 2, {}, 2)

\* Bodies that go on in the next chunks: leftovers behind the first statement,
\* ELSE and END at the start of a chunk, a loop at the end of the script.
Blocks ==
    Requests({<<"plain", "plain", ";", "plain">>,
              <<"plain", ";", "else", "plain", ";", "end">>,
              <<"begin", "plain", ";", "end", ";", "plain">>},
             Levels, 0, {"block"}, 1)

\* A production that opens two: the IF and the ELSE of one statement.
Branches ==
    Requests({<<"plain", "plain", ";", "else", "plain", ";", "plain">>},
             {"immediate"}, 0, {"block"}, 2)

Routines ==
    Requests({<<"plain", "plain", ";", "plain", "end">>,
              <<"plain", ";c", "plain", "else", "end">>},
             Levels, 0, {"routine"}, 1)

Mixed ==
    Requests({<<"plain", ";", "else", "end">>}, {"immediate", "raise"}, 0,
             {"block", "routine"}, 1)

MCCalls ==
    Splitting \cup Failing \cup Typed \cup Blocks \cup Branches \cup Routines \cup Mixed

===========================================================================
