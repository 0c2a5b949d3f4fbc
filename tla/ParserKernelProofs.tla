------------------------- MODULE ParserKernelProofs -------------------------
(***************************************************************************)
(* Speculation never leaks, no token is lost but where it is known, and a  *)
(* plain script gives one slot for each statement: for every script, every *)
(* grammar and every depth.                                                *)
(*                                                                         *)
(* Inv says of the call stack that each speculation on it remembers the    *)
(* level that was in force when it began, which is what the frames below   *)
(* it determine.  LossInv accounts for every token behind the cursor, as   *)
(* it is and as each speculation found it.  PlainInv counts the slots of   *)
(* the outermost batch against the chunks it has taken; what the chunks of *)
(* a script are is shown by an induction over its tokens.                  *)
(***************************************************************************)
EXTENDS ParserKernel, FiniteSetTheorems, NaturalsInduction, WellFoundedInduction, TLAPS

\* The level in force above the first n frames of s, for a caller's level l.
LevelAt(s, n, l) ==
    IF \E k \in 1 .. n : s[k].kind = "try" THEN "immediate" ELSE l

\* A statement stands on the loop that called it, and nothing else does.
WellNested(s) ==
    \A k \in 2 .. Len(s) :
        (s[k].kind = "statement") <=> (s[k - 1].kind \in {"batch", "routine"})

Remembers(s, l) ==
    \A k \in 1 .. Len(s) : s[k].kind = "try" => s[k].level = LevelAt(s, k - 1, l)

StackOK(s, l) ==
    /\ s \in Seq(Frames)
    /\ s # <<>> => s[1].kind = "batch" /\ s[1].at # "first"
    /\ WellNested(s)
    /\ Remembers(s, l)

-----------------------------------------------------------------------------

\* The fields that tell the kinds of frames apart.
LEMMA FrameKinds ==
  ASSUME NEW f \in Frames
  PROVE  /\ f.kind = "batch" => f \in BatchFrames
         /\ f.kind = "statement" => f \in StatementFrames
         /\ f.kind = "try" => f \in TryFrames
         /\ f.kind = "routine" => f \in RoutineFrames
         /\ f.kind \in {"batch", "statement", "try", "routine"}
BY DEF Frames, BatchFrames, StatementFrames, TryFrames, RoutineFrames

\* Two stacks with the same kinds have the same levels in force.
LEMMA SameLevel ==
  ASSUME NEW s, NEW t, NEW l, NEW n \in Nat,
         \A k \in 1 .. n : t[k].kind = s[k].kind
  PROVE  LevelAt(t, n, l) = LevelAt(s, n, l)
BY DEF LevelAt

\* What returns or unwinds leaves a sound stack.
LEMMA PrefixOK ==
  ASSUME NEW s, NEW l, StackOK(s, l), NEW n \in 0 .. Len(s)
  PROVE  /\ StackOK(SubSeq(s, 1, n), l)
         /\ Len(SubSeq(s, 1, n)) = n
         /\ \A k \in 1 .. n : SubSeq(s, 1, n)[k] = s[k]
         /\ LevelAt(SubSeq(s, 1, n), n, l) = LevelAt(s, n, l)
<1> DEFINE t == SubSeq(s, 1, n)
<1>1. s \in Seq(Frames) /\ n \in Nat
  BY DEF StackOK
<1>2. t \in Seq(Frames) /\ Len(t) = n /\ \A k \in 1 .. n : t[k] = s[k]
  BY <1>1
<1>3. ASSUME NEW m \in 0 .. n PROVE LevelAt(t, m, l) = LevelAt(s, m, l)
  <2>1. m \in Nat /\ \A k \in 1 .. m : t[k].kind = s[k].kind
    BY <1>1, <1>2
  <2> QED BY <2>1, SameLevel
<1>4. WellNested(t)
  <2>1. \A k \in 2 .. n : t[k] = s[k] /\ t[k - 1] = s[k - 1] /\ k \in 2 .. Len(s)
    BY <1>1, <1>2
  <2> QED BY <1>2, <2>1 DEF StackOK, WellNested
<1>5. Remembers(t, l)
  <2>1. \A k \in 1 .. n : k - 1 \in 0 .. n /\ k \in 1 .. Len(s)
    BY <1>1
  <2> QED BY <1>2, <1>3, <2>1 DEF StackOK, Remembers
<1>6. t # <<>> => t[1].kind = "batch" /\ t[1].at # "first"
  <2>1. t # <<>> => s # <<>> /\ t[1] = s[1]
    BY <1>1, <1>2
  <2> QED BY <2>1 DEF StackOK
<1> QED BY <1>2, <1>3, <1>4, <1>5, <1>6 DEF StackOK

\* What is called on top of a sound stack leaves one, when a speculation
\* remembers the level in force.
LEMMA PushOK ==
  ASSUME NEW s, NEW l, StackOK(s, l), s # <<>>, NEW f \in Frames,
         (f.kind = "statement") <=> (s[Len(s)].kind \in {"batch", "routine"}),
         f.kind = "try" => f.level = LevelAt(s, Len(s), l)
  PROVE  /\ StackOK(Append(s, f), l)
         /\ Len(Append(s, f)) = Len(s) + 1
         /\ LevelAt(Append(s, f), Len(s) + 1, l)
              = IF f.kind = "try" THEN "immediate" ELSE LevelAt(s, Len(s), l)
<1> DEFINE t == Append(s, f)
           n == Len(s)
<1>1. s \in Seq(Frames) /\ n \in Nat /\ n >= 1
  BY DEF StackOK
<1>2. /\ t \in Seq(Frames) /\ Len(t) = n + 1 /\ t # <<>>
      /\ \A k \in 1 .. n : t[k] = s[k]
      /\ t[n + 1] = f
  BY <1>1
<1>3. ASSUME NEW m \in 0 .. n PROVE LevelAt(t, m, l) = LevelAt(s, m, l)
  <2>1. m \in Nat /\ \A k \in 1 .. m : t[k].kind = s[k].kind
    BY <1>1, <1>2
  <2> QED BY <2>1, SameLevel
<1>4. LevelAt(t, n + 1, l) = IF f.kind = "try" THEN "immediate" ELSE LevelAt(s, n, l)
  <2>1. (\E k \in 1 .. n + 1 : t[k].kind = "try")
           <=> (f.kind = "try" \/ \E k \in 1 .. n : s[k].kind = "try")
    BY <1>1, <1>2
  <2> QED BY <2>1 DEF LevelAt
<1>5. WellNested(t)
  <2> SUFFICES ASSUME NEW k \in 2 .. n + 1
               PROVE  (t[k].kind = "statement") <=> (t[k - 1].kind \in {"batch", "routine"})
    BY <1>2 DEF WellNested
  <2>1. CASE k = n + 1
    <3>1. t[k] = f /\ t[k - 1] = s[n]
      BY <1>1, <1>2, <2>1
    <3> QED BY <3>1
  <2>2. CASE k # n + 1
    <3>1. k \in 2 .. Len(s) /\ t[k] = s[k] /\ t[k - 1] = s[k - 1]
      BY <1>1, <1>2, <2>2
    <3> QED BY <3>1 DEF StackOK, WellNested
  <2> QED BY <2>1, <2>2
<1>6. Remembers(t, l)
  <2> SUFFICES ASSUME NEW k \in 1 .. n + 1, t[k].kind = "try"
               PROVE  t[k].level = LevelAt(t, k - 1, l)
    BY <1>2 DEF Remembers
  <2>1. CASE k = n + 1
    <3>1. t[k] = f /\ k - 1 = n /\ n \in 0 .. n
      BY <1>1, <1>2, <2>1
    <3> QED BY <1>3, <3>1
  <2>2. CASE k # n + 1
    <3>1. k \in 1 .. Len(s) /\ t[k] = s[k] /\ k - 1 \in 0 .. n
      BY <1>1, <1>2, <2>2
    <3>2. s[k].level = LevelAt(s, k - 1, l)
      BY <3>1 DEF StackOK, Remembers
    <3> QED BY <1>3, <3>1, <3>2
  <2> QED BY <2>1, <2>2
<1>7. t[1].kind = "batch" /\ t[1].at # "first"
  <2>1. t[1] = s[1]
    BY <1>1, <1>2
  <2> QED BY <2>1 DEF StackOK
<1> QED BY <1>2, <1>4, <1>5, <1>6, <1>7 DEF StackOK

\* So does the top frame when it goes on as a frame of its kind.
LEMMA TopOK ==
  ASSUME NEW s, NEW l, StackOK(s, l), s # <<>>, NEW f \in Frames,
         f.kind = s[Len(s)].kind,
         f.kind = "try" => f.level = s[Len(s)].level,
         f.kind = "batch" => f.at # "first"
  PROVE  LET t == Append(SubSeq(s, 1, Len(s) - 1), f)
         IN  /\ StackOK(t, l)
             /\ Len(t) = Len(s)
             /\ t[Len(t)] = f
             /\ LevelAt(t, Len(t), l) = LevelAt(s, Len(s), l)
<1> DEFINE n == Len(s)
           t == Append(SubSeq(s, 1, n - 1), f)
<1>1. s \in Seq(Frames) /\ n \in Nat /\ n >= 1
  BY DEF StackOK
<1>2. /\ t \in Seq(Frames) /\ Len(t) = n /\ t # <<>>
      /\ \A k \in 1 .. n - 1 : t[k] = s[k]
      /\ t[n] = f
  <2> DEFINE b == SubSeq(s, 1, n - 1)
  <2>1. b \in Seq(Frames) /\ Len(b) = n - 1 /\ \A k \in 1 .. n - 1 : b[k] = s[k]
    <3>1. n - 1 \in 0 .. Len(s)
      BY <1>1
    <3> QED BY <3>1, PrefixOK DEF StackOK
  <2> HIDE DEF b
  <2>2. Append(b, f) \in Seq(Frames) /\ Len(Append(b, f)) = n /\ Append(b, f)[n] = f
        /\ \A k \in 1 .. n - 1 : Append(b, f)[k] = b[k]
    BY <1>1, <2>1
  <2> QED BY <1>1, <2>1, <2>2 DEF b
<1>3. \A k \in 1 .. n : t[k].kind = s[k].kind
  BY <1>1, <1>2
<1>4. ASSUME NEW m \in 0 .. n PROVE LevelAt(t, m, l) = LevelAt(s, m, l)
  <2>1. m \in Nat /\ \A k \in 1 .. m : t[k].kind = s[k].kind
    BY <1>1, <1>3
  <2> QED BY <2>1, SameLevel
<1>5. WellNested(t)
  <2>1. \A k \in 2 .. n : t[k - 1].kind = s[k - 1].kind /\ t[k].kind = s[k].kind
    BY <1>1, <1>3
  <2>2. \A k \in 2 .. n : (s[k].kind = "statement") <=> (s[k - 1].kind \in {"batch", "routine"})
    BY DEF StackOK, WellNested
  <2> QED BY <1>2, <2>1, <2>2 DEF WellNested
<1>6. Remembers(t, l)
  <2> SUFFICES ASSUME NEW k \in 1 .. n, t[k].kind = "try"
               PROVE  t[k].level = LevelAt(t, k - 1, l)
    BY <1>2 DEF Remembers
  <2>1. k - 1 \in 0 .. n /\ k \in 1 .. Len(s)
    BY <1>1
  <2>2. s[k].kind = "try" /\ t[k].level = s[k].level
    BY <1>1, <1>2, <1>3
  <2>3. s[k].level = LevelAt(s, k - 1, l)
    BY <2>1, <2>2 DEF StackOK, Remembers
  <2> QED BY <1>4, <2>1, <2>2, <2>3
<1>7. t[1].kind = "batch" /\ t[1].at # "first"
  <2>1. CASE n = 1
    BY <1>2, <2>1 DEF StackOK
  <2>2. CASE n # 1
    <3>1. t[1] = s[1]
      BY <1>1, <1>2, <2>2
    <3> QED BY <3>1 DEF StackOK
  <2> QED BY <2>1, <2>2
<1> QED BY <1>1, <1>2, <1>4, <1>5, <1>6, <1>7 DEF StackOK

-----------------------------------------------------------------------------

\* No error is left over between the statements of the outermost batch.
Settled ==
    /\ call.level = "raise" => errors = <<>>
    /\ call.level = "warn" => logged = Len(errors)

Inv ==
    /\ TypeOK
    /\ StackOK(stack, call.level)
    /\ errorLevel = LevelAt(stack, Depth, call.level)
    /\ (outcome = "running") <=> (stack # <<>>)
    /\ call.level = "immediate" => errors = <<>>
    /\ outcome = "thrown" => call.level \in {"immediate", "raise"}
    /\ Depth = 1 \/ outcome = "returned" => Settled

\* The invariant and what every proof below uses of it.
LEMMA Basics ==
  ASSUME Inv
  PROVE  /\ stack \in Seq(Frames) /\ Depth \in Nat
         /\ call.level \in Levels /\ call.script \in Seq(TokenKinds)
         /\ stack # <<>> => Depth >= 1 /\ Top \in Frames /\ stack[Depth] = Top
         /\ stack # <<>> => stack[1].kind = "batch" /\ stack[1].at # "first"
         /\ \A k \in 1 .. Depth : stack[k] \in Frames
<1>1. call \in Calls /\ stack \in Seq(Frames)
  BY DEF Inv, TypeOK
<1>2. call.level \in Levels /\ call.script \in Seq(TokenKinds)
  BY <1>1, CallsAssumption
<1>3. stack # <<>> => Len(stack) >= 1 /\ Len(stack) \in Nat
  BY <1>1
<1> QED BY <1>1, <1>2, <1>3 DEF Inv, StackOK, Depth, Top

\* A speculation stands above the outermost batch and a statement of it.
LEMMA TriesAreDeep ==
  ASSUME Inv, NEW k \in Tries(stack)
  PROVE  k \in 3 .. Depth /\ stack[k] \in TryFrames
<1>1. k \in 1 .. Depth /\ stack[k].kind = "try" /\ stack[k] \in TryFrames
  BY Basics, FrameKinds DEF Tries, Depth
<1>2. /\ stack # <<>> /\ k # 1
      /\ stack[1].kind = "batch" /\ Depth \in Nat
  <2>1. stack # <<>>
    BY <1>1, Basics DEF Depth
  <2> QED BY <1>1, <2>1, Basics
<1>3. k # 2
  <2>1. ASSUME k = 2 PROVE FALSE
    <3>1. 2 \in 2 .. Depth
      BY <1>1, <2>1, Basics
    <3>2. (stack[2].kind = "statement") <=> (stack[2 - 1].kind \in {"batch", "routine"})
      BY <3>1 DEF Inv, StackOK, WellNested, Depth
    <3> QED BY <1>1, <1>2, <2>1, <3>2
  <2> QED BY <2>1
<1> QED BY <1>1, <1>2, <1>3

\* A statement's caller is a loop, and the outermost one's is the outermost batch.
LEMMA Caller ==
  ASSUME Inv, Running("statement")
  PROVE  /\ Depth >= 2 /\ Depth - 1 \in 1 .. Depth
         /\ stack[Depth - 1] \in BatchFrames \cup RoutineFrames
         /\ stack[Depth - 1].kind = "routine" => Depth >= 4
<1>1. stack # <<>> /\ Top.kind = "statement" /\ Depth \in Nat /\ Depth >= 1
  BY Basics DEF Running
<1>2. Depth # 1
  BY <1>1, Basics DEF Top
<1>3. Depth \in 2 .. Depth /\ Depth - 1 \in 1 .. Depth
  BY <1>1, <1>2
<1>4. stack[Depth - 1].kind \in {"batch", "routine"}
  BY <1>1, <1>3 DEF Inv, StackOK, WellNested, Depth, Top
<1>5. stack[Depth - 1] \in BatchFrames \cup RoutineFrames
  BY <1>3, <1>4, Basics, FrameKinds
<1>6. ASSUME stack[Depth - 1].kind = "routine" PROVE Depth >= 4
  <2>1. Depth - 1 # 1
    BY <1>1, <1>6, Basics
  <2>2. ASSUME Depth = 3 PROVE FALSE
    <3>1. 2 \in 2 .. Len(stack) /\ 2 - 1 = 1 /\ Depth - 1 = 2
      BY <2>2 DEF Depth
    <3>2. (stack[2].kind = "statement") <=> (stack[2 - 1].kind \in {"batch", "routine"})
      BY <3>1 DEF Inv, StackOK, WellNested
    <3> QED BY <1>1, <1>6, <3>1, <3>2, Basics
  <2> QED BY <1>1, <1>3, <2>1, <2>2
<1> QED BY <1>1, <1>2, <1>3, <1>5, <1>6

-----------------------------------------------------------------------------

\* Where no speculation runs, the caller's level is in force.
LEMMA LevelFacts ==
  ASSUME Inv
  PROVE  /\ errorLevel = IF Tries(stack) = {} THEN call.level ELSE "immediate"
         /\ Depth =< 2 => Tries(stack) = {}
<1>1. (\E k \in 1 .. Depth : stack[k].kind = "try") <=> (Tries(stack) # {})
  BY DEF Tries, Depth
<1>2. errorLevel = IF Tries(stack) = {} THEN call.level ELSE "immediate"
  BY <1>1 DEF Inv, LevelAt
<1>3. ASSUME Depth =< 2 PROVE Tries(stack) = {}
  BY <1>3, TriesAreDeep, Basics
<1> QED BY <1>2, <1>3

\* What a step that goes on has to show.
LEMMA Continues ==
  ASSUME Inv, outcome = "running", UNCHANGED request, UNCHANGED answer,
         StackOK(stack', call.level), stack' # <<>>,
         errorLevel' = LevelAt(stack', Len(stack'), call.level),
         chunkIndex' \in Nat, index' \in Nat, kept' \subseteq Nat \X Nat,
         joined' \subseteq Nat, dropped' \subseteq Nat,
         errors' \in Seq(Nat), logged' \in 0 .. Len(errors'),
         call.level = "immediate" => errors' = <<>>,
         Len(stack') = 1 => Settled'
  PROVE  Inv'
<1>1. call' = call /\ method' = method /\ chunks' = chunks
      /\ outcome' = outcome /\ result' = result
  BY DEF request, answer
<1>2. errorLevel' \in Levels
  BY Basics DEF LevelAt, Levels
<1>3. TypeOK'
  BY <1>1, <1>2 DEF Inv, TypeOK, StackOK, Methods
<1> QED BY <1>1, <1>3 DEF Inv, Depth

\* The same for a step that reports nothing and leaves more than one frame, or
\* as many as there were.
LEMMA ContinuesSilently ==
  ASSUME Inv, outcome = "running", UNCHANGED request, UNCHANGED answer,
         StackOK(stack', call.level), stack' # <<>>,
         errorLevel' = LevelAt(stack', Len(stack'), call.level),
         chunkIndex' \in Nat, index' \in Nat, kept' \subseteq Nat \X Nat,
         joined' \subseteq Nat, dropped' \subseteq Nat,
         UNCHANGED reports, Len(stack') = 1 => Depth = 1
  PROVE  Inv'
<1>1. errors' = errors /\ logged' = logged /\ call' = call
  BY DEF reports, request
<1>2. errors' \in Seq(Nat) /\ logged' \in 0 .. Len(errors')
  BY <1>1 DEF Inv, TypeOK
<1>3. Len(stack') = 1 => Settled'
  BY <1>1 DEF Inv, Settled
<1>4. call.level = "immediate" => errors' = <<>>
  BY <1>1 DEF Inv
<1> QED BY <1>2, <1>3, <1>4, Continues

\* The types that a step which does not touch them leaves as they are.
LEMMA Types ==
  ASSUME Inv
  PROVE  /\ chunkIndex \in Nat /\ index \in Nat /\ kept \subseteq Nat \X Nat
         /\ joined \subseteq Nat /\ dropped \subseteq Nat
         /\ errors \in Seq(Nat) /\ logged \in 0 .. Len(errors)
         /\ errorLevel = LevelAt(stack, Len(stack), call.level)
         /\ StackOK(stack, call.level)
BY DEF Inv, TypeOK, Depth

-----------------------------------------------------------------------------
(* Unwinding                                                               *)

\* A speculation that is given up leaves the frames below it, the level that it
\* had found, and no error.
LEMMA AbandonKeeps ==
  ASSUME Inv, outcome = "running", NEW k \in Tries(stack), Abandon(k),
         UNCHANGED <<request, reports, joined>>
  PROVE  Inv'
<1>1. k \in 3 .. Depth /\ stack[k] \in TryFrames /\ Depth \in Nat
      /\ stack[k].kind = "try"
  BY TriesAreDeep, Basics DEF Tries
<1>2. k - 1 \in 0 .. Len(stack) /\ k - 1 >= 2 /\ k \in 1 .. Len(stack)
  BY <1>1 DEF Depth
<1>3. /\ StackOK(stack', call.level) /\ Len(stack') = k - 1
      /\ LevelAt(stack', Len(stack'), call.level) = LevelAt(stack, k - 1, call.level)
  BY <1>2, PrefixOK, Types DEF Abandon
<1>4. errorLevel' = LevelAt(stack', Len(stack'), call.level)
  BY <1>1, <1>2, <1>3, Types DEF Abandon, RestoreLevel, StackOK, Remembers
<1>5. stack' # <<>>
  BY <1>2, <1>3
<1>6. index' \in Nat /\ kept' \subseteq Nat \X Nat /\ chunkIndex' \in Nat
  BY <1>1, Types DEF TryFrames, Abandon, Retreat
<1>7. dropped' \subseteq Nat
  <2>1. stack[k].chunk \in Nat
    BY <1>1 DEF TryFrames
  <2>2. stack[k].chunk .. chunkIndex \subseteq Nat
    BY <2>1, Types
  <2> QED BY <2>2, Types DEF Abandon
<1>8. joined' \subseteq Nat /\ UNCHANGED request /\ UNCHANGED reports /\ UNCHANGED answer
  BY Types DEF Abandon
<1>9. Len(stack') # 1
  <2>1. k - 1 # 1
    BY <1>1
  <2> QED BY <1>3, <2>1
<1> QED BY <1>3, <1>4, <1>5, <1>6, <1>7, <1>8, <1>9, ContinuesSilently

\* A ParseError is thrown only under "immediate", where it leaves the errors
\* alone, or under "raise", where no speculation runs.
LEMMA ThrowKeeps ==
  ASSUME Inv, outcome = "running", Throw, UNCHANGED <<request, logged, joined>>,
         \/ errorLevel = "immediate" /\ errors' = errors
         \/ /\ errorLevel = "raise"
            /\ errors' \in Seq(Nat) /\ logged \in 0 .. Len(errors')
  PROVE  Inv'
<1>1. CASE \E k \in Tries(stack) : Innermost(k) /\ Abandon(k)
  <2>1. PICK k \in Tries(stack) : Abandon(k)
    BY <1>1
  <2>2. errors' = errors
    <3>1. call.level \in Levels /\ errorLevel = "immediate"
      BY <2>1, LevelFacts, Basics
    <3> QED BY <3>1
  <2>3. UNCHANGED <<request, reports, joined>>
    BY <2>2 DEF reports
  <2> QED BY <2>1, <2>3, AbandonKeeps
<1>2. CASE /\ Tries(stack) = {}
           /\ stack' = <<>>
           /\ outcome' = "thrown"
           /\ UNCHANGED <<cursor, errorLevel, result, kept, dropped>>
  <2>1. call' = call /\ method' = method /\ chunks' = chunks
        /\ chunkIndex' = chunkIndex /\ index' = index /\ errorLevel' = errorLevel
        /\ result' = result /\ kept' = kept /\ dropped' = dropped
        /\ joined' = joined /\ logged' = logged
    BY <1>2 DEF request, cursor
  <2>2. errorLevel = call.level
    BY <1>2, LevelFacts
  <2>3. errors' \in Seq(Nat) /\ logged \in 0 .. Len(errors')
    BY Types
  <2>4. TypeOK'
    <3>1. stack' \in Seq(Frames)
      BY <1>2
    <3> QED BY <1>2, <2>1, <2>3, <3>1 DEF Inv, TypeOK, Methods
  <2>5. Len(stack') = 0
    BY <1>2
  <2>6. StackOK(stack', call.level)
    <3>1. WellNested(stack') /\ Remembers(stack', call.level)
      BY <2>5 DEF WellNested, Remembers
    <3> QED BY <1>2, <3>1 DEF StackOK
  <2>7. LevelAt(stack', Len(stack'), call.level) = call.level
    BY <2>5 DEF LevelAt
  <2>8. call.level = "immediate" => errors' = <<>>
    BY <2>2 DEF Inv
  <2> QED BY <1>2, <2>1, <2>2, <2>4, <2>5, <2>6, <2>7, <2>8 DEF Inv, Depth
<1> QED BY <1>1, <1>2 DEF Throw

-----------------------------------------------------------------------------
(* Productions                                                             *)

\* A production that goes on is a frame of its kind, and remembers its level.
LEMMA CalledOK ==
  ASSUME Inv, Calling
  PROVE  /\ StackOK(Called, call.level) /\ Len(Called) = Depth /\ Called # <<>>
         /\ LevelAt(Called, Depth, call.level) = errorLevel
         /\ Called[Len(Called)].kind = Top.kind
<1> DEFINE f == [Top EXCEPT !.calls = @ + 1]
<1>1. stack # <<>> /\ Top \in Frames /\ Top.kind \in {"statement", "try"}
      /\ Depth \in Nat /\ Depth >= 1
  BY Basics DEF Calling, Producing
<1>2. f \in Frames /\ f.kind = Top.kind /\ (f.kind = "try" => f.level = Top.level)
  <2>1. CASE Top.kind = "statement"
    <3>1. Top \in StatementFrames
      BY <1>1, <2>1, FrameKinds
    <3>2. f \in StatementFrames /\ f.kind = Top.kind
      BY <3>1 DEF StatementFrames
    <3> QED BY <2>1, <3>2 DEF Frames
  <2>2. CASE Top.kind = "try"
    <3>1. Top \in TryFrames
      BY <1>1, <2>2, FrameKinds
    <3>2. f \in TryFrames /\ f.kind = Top.kind /\ f.level = Top.level
      BY <3>1 DEF TryFrames
    <3> QED BY <3>2 DEF Frames
  <2> QED BY <1>1, <2>1, <2>2
<1> HIDE DEF f
<1>3. f.kind # "batch"
  BY <1>1, <1>2
<1>4. LET t == Append(SubSeq(stack, 1, Len(stack) - 1), f)
      IN  /\ StackOK(t, call.level)
          /\ Len(t) = Len(stack)
          /\ t[Len(t)] = f
          /\ LevelAt(t, Len(t), call.level) = LevelAt(stack, Len(stack), call.level)
  BY <1>1, <1>2, <1>3, Types, TopOK DEF Top, Depth
<1>5. Called = Append(SubSeq(stack, 1, Len(stack) - 1), f)
  BY DEF Called, WithTop, Below, Depth, f
<1>6. StackOK(Called, call.level) /\ Len(Called) = Depth /\ Called[Len(Called)] = f
      /\ LevelAt(Called, Depth, call.level) = errorLevel
  BY <1>4, <1>5, Types DEF Depth
<1>7. Called # <<>>
  BY <1>1, <1>6
<1> QED BY <1>2, <1>6, <1>7

LEMMA TakeTokenKeeps ==
  ASSUME Inv, TakeToken
  PROVE  Inv'
<1>1. outcome = "running" /\ stack # <<>> /\ stack' = stack /\ errorLevel' = errorLevel
      /\ chunkIndex' = chunkIndex /\ joined' = joined /\ dropped' = dropped
      /\ UNCHANGED request /\ UNCHANGED answer /\ UNCHANGED reports
  BY DEF TakeToken, Producing
<1>2. call' = call
  BY <1>1 DEF request
<1>3. index' \in Nat /\ kept' \subseteq Nat \X Nat
  BY Types DEF TakeToken, Advance
<1> QED BY <1>1, <1>2, <1>3, Types, ContinuesSilently DEF Depth

LEMMA ReportErrorKeeps ==
  ASSUME Inv, ReportError
  PROVE  Inv'
<1>1. outcome = "running" /\ stack # <<>> /\ UNCHANGED <<request, logged, joined>>
  BY DEF ReportError, Calling, Producing
<1>2. CASE errorLevel = "immediate" /\ Throw /\ UNCHANGED errors
  BY <1>1, <1>2, ThrowKeeps
<1>3. CASE /\ errorLevel # "immediate"
           /\ errors' = Append(errors, chunkIndex)
           /\ stack' = Called
           /\ UNCHANGED <<cursor, errorLevel, answer, kept, dropped>>
  <2>1. StackOK(stack', call.level) /\ Len(stack') = Depth /\ stack' # <<>>
        /\ errorLevel' = LevelAt(stack', Len(stack'), call.level)
    BY <1>3, CalledOK DEF ReportError
  <2>2. errors' \in Seq(Nat) /\ logged' \in 0 .. Len(errors')
    BY <1>1, <1>3, Types
  <2>3. call.level # "immediate"
    BY <1>3, LevelFacts
  <2>4. Len(stack') # 1
    <3>1. Top.kind \in {"statement", "try"}
      BY DEF ReportError, Calling, Producing
    <3> QED BY <1>1, <2>1, <3>1, Basics DEF Top
  <2>5. UNCHANGED request /\ UNCHANGED answer /\ chunkIndex' \in Nat /\ index' \in Nat
        /\ kept' \subseteq Nat \X Nat /\ joined' \subseteq Nat /\ dropped' \subseteq Nat
    BY <1>1, <1>3, Types DEF cursor
  <2> QED BY <1>1, <2>1, <2>2, <2>3, <2>4, <2>5, Continues
<1> QED BY <1>2, <1>3 DEF ReportError, RaiseError

\* A production opens a speculation, a block or a routine body on top of itself.
LEMMA OpenKeeps ==
  ASSUME Inv, Calling, NEW f \in Frames, stack' = Append(Called, f),
         f.kind # "statement",
         f.kind = "try" => f.level = errorLevel,
         errorLevel' = IF f.kind = "try" THEN "immediate" ELSE errorLevel,
         UNCHANGED <<request, cursor, reports, answer, kept, joined, dropped>>
  PROVE  Inv'
<1>1. outcome = "running" /\ Depth \in Nat
  BY Basics DEF Calling, Producing
<1>2. Called[Len(Called)].kind \notin {"batch", "routine"}
  BY CalledOK DEF Calling, Producing
<1>3. /\ StackOK(stack', call.level) /\ Len(stack') = Depth + 1
      /\ LevelAt(stack', Len(stack'), call.level)
           = IF f.kind = "try" THEN "immediate" ELSE errorLevel
  BY <1>2, CalledOK, PushOK
<1>4. stack' # <<>> /\ (Len(stack') = 1 => Depth = 1)
  <2>1. Depth >= 1
    BY Basics DEF Calling, Producing
  <2> QED BY <1>1, <1>3, <2>1
<1>5. UNCHANGED request /\ UNCHANGED answer /\ UNCHANGED reports /\ chunkIndex' \in Nat
      /\ index' \in Nat /\ kept' \subseteq Nat \X Nat /\ joined' \subseteq Nat
      /\ dropped' \subseteq Nat
  BY Types DEF cursor
<1> QED BY <1>1, <1>3, <1>4, <1>5, ContinuesSilently

LEMMA SpeculateKeeps ==
  ASSUME Inv, NEW retreat \in BOOLEAN, Speculate(retreat)
  PROVE  Inv'
<1> DEFINE f == [kind |-> "try", chunk |-> chunkIndex, index |-> index,
                 level |-> errorLevel, retreat |-> retreat, kept |-> kept, calls |-> 0]
<1>1. f \in Frames /\ f.kind = "try" /\ f.level = errorLevel
  BY DEF Frames, TryFrames, Inv, TypeOK
<1>2. stack' = Append(Called, f) /\ errorLevel' = "immediate" /\ Calling
      /\ UNCHANGED <<request, cursor, reports, answer, kept, joined, dropped>>
  BY DEF Speculate, ForcedLevel
<1> HIDE DEF f
<1> QED BY <1>1, <1>2, OpenKeeps

LEMMA OpenBlockKeeps ==
  ASSUME Inv, OpenBlock
  PROVE  Inv'
<1>1. Batch("first") \in Frames /\ Batch("first").kind = "batch"
  BY DEF Batch, Frames, BatchFrames
<1>2. stack' = Append(Called, Batch("first")) /\ errorLevel' = errorLevel /\ Calling
      /\ UNCHANGED <<request, cursor, reports, answer, kept, joined, dropped>>
  BY DEF OpenBlock
<1> QED BY <1>1, <1>2, OpenKeeps

LEMMA OpenRoutineKeeps ==
  ASSUME Inv, NEW until \in {{"end"}, {"else", "end"}}, OpenRoutine(until)
  PROVE  Inv'
<1> DEFINE f == [kind |-> "routine", until |-> until]
<1>1. f \in Frames /\ f.kind = "routine"
  BY DEF Frames, RoutineFrames
<1>2. stack' = Append(Called, f) /\ errorLevel' = errorLevel /\ Calling
      /\ UNCHANGED <<request, cursor, reports, answer, kept, joined, dropped>>
  BY DEF OpenRoutine
<1> HIDE DEF f
<1> QED BY <1>1, <1>2, OpenKeeps

\* A kept speculation hands its frame's memory back as the level in force.
LEMMA EndSpeculationKeeps ==
  ASSUME Inv, NEW found \in BOOLEAN, EndSpeculation(found)
  PROVE  Inv'
<1>1. outcome = "running" /\ stack # <<>> /\ Top.kind = "try" /\ Depth \in Nat
      /\ UNCHANGED <<request, reports, joined>> /\ Depth >= 1 /\ stack[Depth] = Top
  BY Basics DEF EndSpeculation, Running
<1>2. Depth \in Tries(stack)
  BY <1>1 DEF Tries, Depth
<1>3. CASE Abandon(Depth)
  BY <1>1, <1>2, <1>3, AbandonKeeps
<1>4. CASE /\ stack' = Below
           /\ RestoreLevel(Depth)
           /\ UNCHANGED <<cursor, answer, kept, dropped>>
  <2>1. Depth >= 3 /\ Depth - 1 \in 0 .. Len(stack) /\ Depth \in 1 .. Len(stack)
    BY <1>1, <1>2, TriesAreDeep DEF Depth
  <2>2. /\ StackOK(stack', call.level) /\ Len(stack') = Depth - 1
        /\ LevelAt(stack', Len(stack'), call.level) = LevelAt(stack, Depth - 1, call.level)
    BY <1>4, <2>1, PrefixOK, Types DEF Below
  <2>3. errorLevel' = LevelAt(stack', Len(stack'), call.level)
    BY <1>1, <1>4, <2>1, <2>2, Types DEF RestoreLevel, StackOK, Remembers
  <2>4. Len(stack') # 1 /\ Len(stack') # 0
    <3>1. Depth - 1 # 1 /\ Depth - 1 # 0
      BY <1>1, <2>1
    <3> QED BY <2>2, <3>1
  <2>5. stack' # <<>>
    BY <2>4
  <2>6. UNCHANGED request /\ UNCHANGED answer /\ UNCHANGED reports /\ chunkIndex' \in Nat
        /\ index' \in Nat /\ kept' \subseteq Nat \X Nat /\ joined' \subseteq Nat
        /\ dropped' \subseteq Nat
    BY <1>1, <1>4, Types DEF cursor
  <2> QED BY <1>1, <2>2, <2>3, <2>4, <2>5, <2>6, ContinuesSilently
<1> QED BY <1>3, <1>4 DEF EndSpeculation

LEMMA GoWrongKeeps ==
  ASSUME Inv, GoWrong
  PROVE  Inv'
<1>1. stack' = <<>> /\ outcome' = "crashed" /\ call' = call /\ method' = method
      /\ chunks' = chunks /\ chunkIndex' = chunkIndex /\ errors' = errors
      /\ logged' = logged /\ result' = result /\ kept' = kept /\ joined' = joined
      /\ dropped' = dropped
  BY DEF GoWrong, request, reports
<1>2. errorLevel' = call.level /\ index' \in Nat
  <2>1. CASE Tries(stack) = {} /\ UNCHANGED <<index, errorLevel>>
    BY <2>1, LevelFacts, Types
  <2>2. CASE \E k \in Tries(stack) : Outermost(k) /\ Retreat(k) /\ RestoreLevel(k)
    <3>1. PICK k \in Tries(stack) : Outermost(k) /\ Retreat(k) /\ RestoreLevel(k)
      BY <2>2
    <3>2. k \in 3 .. Depth /\ stack[k] \in TryFrames /\ stack[k].kind = "try"
          /\ Depth \in Nat /\ k \in 1 .. Len(stack)
      BY <3>1, TriesAreDeep, Basics DEF Tries
    <3>3. ASSUME NEW j \in 1 .. k - 1 PROVE stack[j].kind # "try"
      <4>1. j \in 1 .. Len(stack) /\ ~(k =< j)
        BY <3>2
      <4> QED BY <3>1, <4>1 DEF Outermost, Tries
    <3>4. LevelAt(stack, k - 1, call.level) = call.level
      BY <3>3 DEF LevelAt
    <3>5. stack[k].level = call.level
      BY <3>2, <3>4, Types DEF StackOK, Remembers
    <3> QED BY <3>1, <3>2, <3>5 DEF Retreat, RestoreLevel, TryFrames
  <2> QED BY <2>1, <2>2 DEF GoWrong
<1>3. TypeOK'
  <2>1. stack' \in Seq(Frames) /\ call.level \in Levels
    BY <1>1, Basics
  <2> QED BY <1>1, <1>2, <2>1 DEF Inv, TypeOK, Methods
<1>4. Len(stack') = 0
  BY <1>1
<1>5. StackOK(stack', call.level)
  <2>1. WellNested(stack') /\ Remembers(stack', call.level)
    BY <1>4 DEF WellNested, Remembers
  <2> QED BY <1>1, <2>1 DEF StackOK
<1>6. LevelAt(stack', Len(stack'), call.level) = call.level
  BY <1>4 DEF LevelAt
<1> QED BY <1>1, <1>2, <1>3, <1>4, <1>5, <1>6 DEF Inv, Depth

-----------------------------------------------------------------------------
(* The loops over the chunks                                               *)

\* A frame that is no speculation changes no level, here or below it.
LEMMA PopLevel ==
  ASSUME Inv, stack # <<>>, Top.kind # "try"
  PROVE  LevelAt(stack, Depth - 1, call.level) = errorLevel
<1>1. Depth \in Nat /\ Depth >= 1 /\ stack[Depth] = Top
  BY Basics
<1>2. (\E k \in 1 .. Depth - 1 : stack[k].kind = "try")
         <=> (\E k \in 1 .. Depth : stack[k].kind = "try")
  BY <1>1
<1> QED BY <1>2 DEF LevelAt, Inv

\* A loop above the outermost one stands on a production, two frames up at least.
LEMMA BelowOK ==
  ASSUME Inv, stack # <<>>, Top.kind \in {"batch", "routine"}, Depth # 1
  PROVE  /\ StackOK(Below, call.level) /\ Len(Below) = Depth - 1
         /\ Len(Below) # 1 /\ Below # <<>>
         /\ LevelAt(Below, Len(Below), call.level) = errorLevel
<1>1. Depth \in Nat /\ Depth >= 2 /\ stack[Depth] = Top /\ Depth - 1 \in 0 .. Depth
  <2>1. Depth \in Nat /\ Depth >= 1 /\ stack[Depth] = Top
    BY Basics
  <2> QED BY <2>1
<1>2. Depth # 2
  <2>1. ASSUME Depth = 2 PROVE FALSE
    <3>1. 2 \in 2 .. Len(stack) /\ 2 - 1 = 1
      BY <2>1 DEF Depth
    <3>2. (stack[2].kind = "statement") <=> (stack[2 - 1].kind \in {"batch", "routine"})
      BY <3>1 DEF Inv, StackOK, WellNested
    <3>3. stack[2] = Top
      BY <1>1, <2>1
    <3> QED BY <3>1, <3>2, <3>3, Basics
  <2> QED BY <2>1
<1>3. /\ StackOK(Below, call.level) /\ Len(Below) = Depth - 1
      /\ LevelAt(Below, Len(Below), call.level) = LevelAt(stack, Depth - 1, call.level)
  BY <1>1, PrefixOK, Types DEF Below, Depth
<1>4. LevelAt(Below, Len(Below), call.level) = errorLevel
  BY <1>3, PopLevel
<1>5. Len(Below) # 1 /\ Len(Below) # 0
  <2>1. Depth - 1 # 1 /\ Depth - 1 # 0
    BY <1>1, <1>2
  <2> QED BY <1>3, <2>1
<1>6. Below # <<>>
  BY <1>5
<1> QED BY <1>3, <1>4, <1>5, <1>6

\* The outermost batch returns with its errors settled.
LEMMA BatchReturnsKeeps ==
  ASSUME Inv, Running("batch"), BatchReturns(Top.out),
         UNCHANGED <<request, errorLevel, reports, kept, joined, dropped>>,
         chunkIndex' \in Nat, index' \in Nat
  PROVE  Inv'
<1>1. outcome = "running" /\ stack # <<>> /\ Top.kind = "batch" /\ Top \in BatchFrames
  BY Basics, FrameKinds DEF Running
<1>2. errorLevel' = errorLevel /\ kept' = kept /\ joined' = joined /\ dropped' = dropped
      /\ call' = call /\ method' = method /\ chunks' = chunks
      /\ errors' = errors /\ logged' = logged
  BY DEF request, reports
<1>3. CASE Depth = 1
  <2>1. stack' = <<>> /\ outcome' = "returned" /\ result' = Top.out
    BY <1>3 DEF BatchReturns
  <2>2. errorLevel = call.level
    BY <1>3, LevelFacts
  <2>3. TypeOK'
    <3>1. stack' \in Seq(Frames) /\ result' \in Seq(Slots)
      BY <1>1, <2>1 DEF BatchFrames
    <3> QED BY <1>2, <2>1, <3>1 DEF Inv, TypeOK, Methods
  <2>4. Len(stack') = 0
    BY <2>1
  <2>5. StackOK(stack', call.level)
    <3>1. WellNested(stack') /\ Remembers(stack', call.level)
      BY <2>4 DEF WellNested, Remembers
    <3> QED BY <2>1, <3>1 DEF StackOK
  <2>6. LevelAt(stack', Len(stack'), call.level) = call.level
    BY <2>4 DEF LevelAt
  <2>7. Settled'
    BY <1>2, <1>3 DEF Inv, Settled
  <2> QED BY <1>2, <2>1, <2>2, <2>3, <2>4, <2>5, <2>6, <2>7 DEF Inv, Depth
<1>4. CASE Depth # 1
  <2>1. stack' = Below /\ UNCHANGED answer
    BY <1>4 DEF BatchReturns
  <2>2. /\ StackOK(stack', call.level) /\ Len(stack') # 1 /\ stack' # <<>>
        /\ LevelAt(stack', Len(stack'), call.level) = errorLevel'
    BY <1>1, <1>2, <1>4, <2>1, BelowOK
  <2> QED BY <1>1, <1>2, <2>1, <2>2, Types, ContinuesSilently
<1> QED BY <1>3, <1>4

LEMMA StopAtElseKeeps ==
  ASSUME Inv, StopAtElse
  PROVE  Inv'
<1>1. Running("batch") /\ BatchReturns(Top.out)
      /\ UNCHANGED <<request, errorLevel, reports, kept, joined, dropped>>
  BY DEF StopAtElse, NextChunk
<1>2. chunkIndex' \in Nat /\ index' \in Nat
  BY Types DEF StopAtElse, NextChunk, AdvanceChunk
<1> QED BY <1>1, <1>2, BatchReturnsKeeps

LEMMA ChunksEndKeeps ==
  ASSUME Inv, ChunksEnd
  PROVE  Inv'
<1>1. Running("batch") /\ BatchReturns(Top.out)
      /\ UNCHANGED <<request, errorLevel, reports, kept, joined, dropped>>
  BY DEF ChunksEnd
<1>2. chunkIndex' \in Nat /\ index' \in Nat
  BY Types DEF ChunksEnd, cursor
<1> QED BY <1>1, <1>2, BatchReturnsKeeps

\* A statement that a loop calls is pushed on it.
LEMMA StatementFrame ==
  ASSUME NEW empty \in BOOLEAN, NEW c \in Nat, NEW i \in Nat
  PROVE  Statement(empty, c, i) \in Frames /\ Statement(empty, c, i).kind = "statement"
BY DEF Statement, Frames, StatementFrames

LEMMA FirstStatementKeeps ==
  ASSUME Inv, FirstStatement
  PROVE  Inv'
<1>1. outcome = "running" /\ stack # <<>> /\ Top.kind = "batch" /\ Depth \in Nat
      /\ stack[Len(stack)] = Top /\ Depth >= 1
  BY Basics DEF FirstStatement, Running, Depth
<1>2. index' \in Nat /\ kept' \subseteq Nat \X Nat
  BY Types DEF FirstStatement, Advance
<1> DEFINE f == Statement(index' >= Len(Tokens), chunkIndex, index')
<1>3. f \in Frames /\ f.kind = "statement"
  <2>1. (index' >= Len(Tokens)) \in BOOLEAN
    OBVIOUS
  <2> QED BY <1>2, <2>1, StatementFrame, Types
<1>4. stack' = Append(stack, f)
  BY DEF FirstStatement
<1> HIDE DEF f
<1>5. /\ StackOK(stack', call.level) /\ Len(stack') = Depth + 1
      /\ LevelAt(stack', Len(stack'), call.level) = errorLevel
  BY <1>1, <1>3, <1>4, PushOK, Types DEF Depth
<1>6. stack' # <<>> /\ Len(stack') # 1
  BY <1>1, <1>5
<1>7. errorLevel' = errorLevel /\ chunkIndex' = chunkIndex /\ joined' = joined
      /\ dropped' = dropped /\ UNCHANGED request /\ UNCHANGED answer /\ UNCHANGED reports
  BY DEF FirstStatement
<1> QED BY <1>1, <1>2, <1>5, <1>6, <1>7, Types, ContinuesSilently

\* The batch waits in another place, or has one more slot.
LEMMA BatchOK ==
  ASSUME Inv, Running("batch"), NEW f \in BatchFrames, f.at # "first"
  PROVE  /\ StackOK(WithTop(f), call.level) /\ Len(WithTop(f)) = Depth
         /\ WithTop(f) # <<>> /\ WithTop(f)[Len(WithTop(f))] = f
         /\ LevelAt(WithTop(f), Depth, call.level) = errorLevel
<1>1. stack # <<>> /\ Top.kind = "batch" /\ Depth \in Nat /\ Depth >= 1
      /\ stack[Len(stack)] = Top
  BY Basics DEF Running, Depth
<1>2. f \in Frames /\ f.kind = "batch"
  BY DEF Frames, BatchFrames
<1>3. LET t == Append(SubSeq(stack, 1, Len(stack) - 1), f)
      IN  /\ StackOK(t, call.level)
          /\ Len(t) = Len(stack)
          /\ t[Len(t)] = f
          /\ LevelAt(t, Len(t), call.level) = LevelAt(stack, Len(stack), call.level)
  BY <1>1, <1>2, Types, TopOK
<1>4. WithTop(f) = Append(SubSeq(stack, 1, Len(stack) - 1), f)
  BY DEF WithTop, Below, Depth
<1>5. StackOK(WithTop(f), call.level) /\ Len(WithTop(f)) = Depth
      /\ WithTop(f)[Len(WithTop(f))] = f
      /\ LevelAt(WithTop(f), Depth, call.level) = errorLevel
  BY <1>3, <1>4, Types DEF Depth
<1>6. WithTop(f) # <<>>
  BY <1>1, <1>5
<1> QED BY <1>5, <1>6

LEMMA TakeEndKeeps ==
  ASSUME Inv, TakeEnd
  PROVE  Inv'
<1> DEFINE f == [Top EXCEPT !.out = Append(@, "end")]
<1>1. outcome = "running" /\ Running("batch") /\ Top \in BatchFrames /\ Top.at = "loop"
  BY Basics, FrameKinds DEF TakeEnd, Running
<1>2. f \in BatchFrames /\ f.at # "first" /\ stack' = WithTop(f)
  BY <1>1 DEF TakeEnd, BatchFrames, Slots
<1> HIDE DEF f
<1>3. /\ StackOK(stack', call.level) /\ Len(stack') = Depth /\ stack' # <<>>
      /\ LevelAt(stack', Len(stack'), call.level) = errorLevel
  BY <1>1, <1>2, BatchOK
<1>4. chunkIndex' \in Nat /\ index' \in Nat /\ kept' \subseteq Nat \X Nat
      /\ errorLevel' = errorLevel /\ joined' = joined /\ dropped' = dropped
      /\ UNCHANGED request /\ UNCHANGED answer /\ UNCHANGED reports
  BY Types DEF TakeEnd
<1> QED BY <1>1, <1>3, <1>4, Types, ContinuesSilently

LEMMA ParseChunkKeeps ==
  ASSUME Inv, ParseChunk
  PROVE  Inv'
<1> DEFINE f == [Top EXCEPT !.at = "statement"]
           empty == NextTokens = <<>> /\ (Depth > 1 \/ call.into = 0)
           g == Statement(empty, chunkIndex + 1, 0)
<1>1. outcome = "running" /\ Running("batch") /\ Top \in BatchFrames
      /\ Depth \in Nat /\ Depth >= 1
  BY Basics, FrameKinds DEF ParseChunk, NextChunk, Running
<1>2. f \in BatchFrames /\ f.at # "first" /\ f.kind = "batch"
  BY <1>1 DEF BatchFrames
<1>3. g \in Frames /\ g.kind = "statement"
  <2>1. empty \in BOOLEAN /\ chunkIndex + 1 \in Nat /\ 0 \in Nat
    BY Types
  <2> HIDE DEF empty
  <2> QED BY <2>1, StatementFrame
<1>4. stack' = Append(WithTop(f), g)
  BY DEF ParseChunk
<1> HIDE DEF f, g
<1>5. /\ StackOK(WithTop(f), call.level) /\ Len(WithTop(f)) = Depth
      /\ WithTop(f) # <<>> /\ WithTop(f)[Len(WithTop(f))] = f
      /\ LevelAt(WithTop(f), Depth, call.level) = errorLevel
  BY <1>1, <1>2, BatchOK
<1>6. /\ StackOK(stack', call.level) /\ Len(stack') = Depth + 1
      /\ LevelAt(stack', Len(stack'), call.level) = errorLevel
  BY <1>2, <1>3, <1>4, <1>5, PushOK
<1>7. stack' # <<>> /\ Len(stack') # 1
  BY <1>1, <1>6
<1>8. chunkIndex' \in Nat /\ index' \in Nat
  BY Types DEF ParseChunk, NextChunk, AdvanceChunk
<1>9. errorLevel' = errorLevel /\ kept' = kept /\ joined' = joined /\ dropped' = dropped
      /\ UNCHANGED request /\ UNCHANGED answer /\ UNCHANGED reports
  BY DEF ParseChunk
<1> QED BY <1>1, <1>6, <1>7, <1>8, <1>9, Types, ContinuesSilently

-----------------------------------------------------------------------------
(* Routine bodies                                                          *)

\* A routine body stands on a production.
LEMMA RoutineIsDeep ==
  ASSUME Inv, Running("routine")
  PROVE  outcome = "running" /\ stack # <<>> /\ Top.kind = "routine" /\ Depth # 1
BY Basics DEF Running, Top

LEMMA RoutineEndsKeeps ==
  ASSUME Inv, RoutineEnds
  PROVE  Inv'
<1>1. outcome = "running" /\ stack # <<>> /\ Top.kind = "routine" /\ Depth # 1
  BY RoutineIsDeep DEF RoutineEnds
<1>2. /\ StackOK(stack', call.level) /\ Len(stack') # 1 /\ stack' # <<>>
      /\ LevelAt(stack', Len(stack'), call.level) = errorLevel
  BY <1>1, BelowOK DEF RoutineEnds
<1>3. index' \in Nat /\ kept' \subseteq Nat \X Nat
  BY Types DEF RoutineEnds, Advance
<1>4. errorLevel' = errorLevel /\ chunkIndex' = chunkIndex /\ joined' = joined
      /\ dropped' = dropped /\ UNCHANGED request /\ UNCHANGED answer /\ UNCHANGED reports
  BY DEF RoutineEnds
<1> QED BY <1>1, <1>2, <1>3, <1>4, Types, ContinuesSilently

\* The body's loop moves the cursor and nothing else.
LEMMA RoutineMovesKeeps ==
  ASSUME Inv, RoutineChunk \/ RoutineSemicolon
  PROVE  Inv'
<1>1. outcome = "running" /\ stack # <<>> /\ stack' = stack /\ errorLevel' = errorLevel
      /\ joined' = joined /\ dropped' = dropped
      /\ UNCHANGED request /\ UNCHANGED answer /\ UNCHANGED reports
  BY DEF RoutineChunk, RoutineSemicolon, Running
<1>2. call' = call
  BY <1>1 DEF request
<1>3. chunkIndex' \in Nat /\ index' \in Nat /\ kept' \subseteq Nat \X Nat
  <2>1. CASE RoutineChunk
    <3>1. chunkIndex' = chunkIndex + 1 /\ index' = 0 /\ kept' = kept
      BY <2>1 DEF RoutineChunk, AdvanceChunk
    <3> QED BY <3>1, Types
  <2>2. CASE RoutineSemicolon
    <3>1. chunkIndex' = chunkIndex /\ index' = index + 1
          /\ kept' = kept \cup {<<chunkIndex, index + 1>>}
      BY <2>2 DEF RoutineSemicolon, Advance
    <3> QED BY <3>1, Types
  <2> QED BY <2>1, <2>2
<1> QED BY <1>1, <1>2, <1>3, Types, ContinuesSilently DEF Depth

LEMMA RoutineUnfinishedKeeps ==
  ASSUME Inv, RoutineUnfinished
  PROVE  Inv'
<1>1. outcome = "running" /\ stack # <<>> /\ Top.kind = "routine" /\ Depth # 1
      /\ UNCHANGED <<request, logged, joined>>
  BY RoutineIsDeep DEF RoutineUnfinished
<1>2. CASE errorLevel = "immediate" /\ Throw /\ UNCHANGED errors
  BY <1>1, <1>2, ThrowKeeps
<1>3. CASE /\ errorLevel # "immediate"
           /\ errors' = Append(errors, chunkIndex)
           /\ stack' = Below
           /\ UNCHANGED <<cursor, errorLevel, answer, kept, dropped>>
  <2>1. /\ StackOK(stack', call.level) /\ Len(stack') # 1 /\ stack' # <<>>
        /\ LevelAt(stack', Len(stack'), call.level) = errorLevel'
    BY <1>1, <1>3, BelowOK
  <2>2. errors' \in Seq(Nat) /\ logged' \in 0 .. Len(errors')
    BY <1>1, <1>3, Types
  <2>3. call.level # "immediate"
    BY <1>3, LevelFacts
  <2>4. UNCHANGED request /\ UNCHANGED answer /\ chunkIndex' \in Nat /\ index' \in Nat
        /\ kept' \subseteq Nat \X Nat /\ joined' \subseteq Nat /\ dropped' \subseteq Nat
    BY <1>1, <1>3, Types DEF cursor
  <2> QED BY <1>1, <2>1, <2>2, <2>3, <2>4, Continues
<1> QED BY <1>2, <1>3 DEF RoutineUnfinished, RaiseError

LEMMA RoutineStatementKeeps ==
  ASSUME Inv, RoutineStatement
  PROVE  Inv'
<1> DEFINE f == Statement(FALSE, chunkIndex, index)
<1>1. outcome = "running" /\ stack # <<>> /\ Top.kind = "routine" /\ Depth \in Nat
      /\ stack[Len(stack)] = Top /\ Depth >= 1
  BY Basics DEF RoutineStatement, Running, Depth
<1>2. f \in Frames /\ f.kind = "statement"
  BY StatementFrame, Types
<1>3. stack' = Append(stack, f)
  BY DEF RoutineStatement
<1> HIDE DEF f
<1>4. /\ StackOK(stack', call.level) /\ Len(stack') = Depth + 1
      /\ LevelAt(stack', Len(stack'), call.level) = errorLevel
  BY <1>1, <1>2, <1>3, PushOK, Types DEF Depth
<1>5. stack' # <<>> /\ Len(stack') # 1
  BY <1>1, <1>4
<1>6. errorLevel' = errorLevel /\ chunkIndex' = chunkIndex /\ index' = index /\ kept' = kept
      /\ joined' = joined /\ dropped' = dropped
      /\ UNCHANGED request /\ UNCHANGED answer /\ UNCHANGED reports
  BY DEF RoutineStatement, cursor
<1> QED BY <1>1, <1>4, <1>5, <1>6, Types, ContinuesSilently

-----------------------------------------------------------------------------
(* A statement returns                                                     *)

\* The statement is gone and the frame of its caller is on top.
LEMMA CallerOnTop ==
  ASSUME Inv, Running("statement")
  PROVE  LET t == SubSeq(stack, 1, Depth - 1)
         IN  /\ StackOK(t, call.level) /\ Len(t) = Depth - 1 /\ t # <<>>
             /\ t[Depth - 1] = stack[Depth - 1]
             /\ LevelAt(t, Depth - 1, call.level) = errorLevel
             /\ \A k \in 1 .. Depth - 1 : t[k] = stack[k]
<1> DEFINE t == SubSeq(stack, 1, Depth - 1)
<1>1. Depth \in Nat /\ Depth >= 2 /\ stack # <<>> /\ Top.kind = "statement"
  BY Basics, Caller DEF Running
<1>2. Depth - 1 \in 0 .. Len(stack) /\ Depth - 1 \in 1 .. Depth - 1
  BY <1>1 DEF Depth
<1>3. /\ StackOK(t, call.level) /\ Len(t) = Depth - 1
      /\ \A k \in 1 .. Depth - 1 : t[k] = stack[k]
      /\ LevelAt(t, Depth - 1, call.level) = LevelAt(stack, Depth - 1, call.level)
  BY <1>2, PrefixOK, Types
<1>4. LevelAt(t, Depth - 1, call.level) = errorLevel
  BY <1>1, <1>3, PopLevel
<1> HIDE DEF t
<1>5. t # <<>> /\ t[Depth - 1] = stack[Depth - 1]
  BY <1>1, <1>2, <1>3
<1> QED BY <1>3, <1>4, <1>5 DEF t

\* A batch takes the slot of the statement and goes on.
LEMMA SlotTaken ==
  ASSUME Inv, Running("statement"), stack[Depth - 1].kind = "batch", NEW slot \in Slots
  PROVE  LET t == Append(SubSeq(stack, 1, Depth - 2),
                         [stack[Depth - 1] EXCEPT !.at = "loop", !.out = Append(@, slot)])
         IN  /\ StackOK(t, call.level) /\ Len(t) = Depth - 1 /\ t # <<>>
             /\ LevelAt(t, Len(t), call.level) = errorLevel
<1> DEFINE u == SubSeq(stack, 1, Depth - 1)
           f == [stack[Depth - 1] EXCEPT !.at = "loop", !.out = Append(@, slot)]
           t == Append(SubSeq(stack, 1, Depth - 2), f)
<1>1. /\ StackOK(u, call.level) /\ Len(u) = Depth - 1 /\ u # <<>>
      /\ u[Depth - 1] = stack[Depth - 1]
      /\ LevelAt(u, Depth - 1, call.level) = errorLevel
  BY CallerOnTop
<1>2. Depth \in Nat /\ Depth >= 2 /\ stack[Depth - 1] \in BatchFrames
      /\ stack \in Seq(Frames) /\ Depth = Len(stack)
  BY Basics, Caller DEF RoutineFrames, Depth
<1>3. f \in BatchFrames /\ f.kind = "batch" /\ f.at = "loop"
  <2> DEFINE b == stack[Depth - 1]
  <2>1. b \in BatchFrames
    BY <1>2
  <2> HIDE DEF b
  <2>2. Append(b.out, slot) \in Seq(Slots)
    BY <2>1 DEF BatchFrames
  <2>3. [b EXCEPT !.at = "loop", !.out = Append(@, slot)] \in BatchFrames
    BY <2>1, <2>2 DEF BatchFrames
  <2>4. [b EXCEPT !.at = "loop", !.out = Append(@, slot)].at = "loop"
    BY <2>1 DEF BatchFrames
  <2> QED BY <2>3, <2>4 DEF b, BatchFrames
<1>4. f \in Frames
  BY <1>3 DEF Frames
<1>5. SubSeq(u, 1, Len(u) - 1) = SubSeq(stack, 1, Depth - 2)
  <2>1. Len(u) - 1 = Depth - 2
    BY <1>1, <1>2
  <2>2. Depth - 2 \in 0 .. Depth - 1
    BY <1>2
  <2> QED BY <1>1, <1>2, <2>1, <2>2
<1> HIDE DEF f, u
<1>6. LET v == Append(SubSeq(u, 1, Len(u) - 1), f)
      IN  /\ StackOK(v, call.level)
          /\ Len(v) = Len(u)
          /\ v[Len(v)] = f
          /\ LevelAt(v, Len(v), call.level) = LevelAt(u, Len(u), call.level)
  BY <1>1, <1>2, <1>3, <1>4, TopOK
<1>7. /\ StackOK(t, call.level) /\ Len(t) = Depth - 1
      /\ LevelAt(t, Len(t), call.level) = errorLevel
  BY <1>1, <1>5, <1>6
<1>8. t # <<>>
  BY <1>2, <1>7
<1> QED BY <1>7, <1>8 DEF f

\* With a routine for a caller, the statement or the routine as well returns.
LEMMA RoutineReturns ==
  ASSUME Inv, Running("statement"), stack[Depth - 1].kind = "routine",
         NEW n \in {Depth - 2, Depth - 1}, stack' = SubSeq(stack, 1, n),
         UNCHANGED <<request, cursor, errorLevel, reports, answer, kept, joined, dropped>>
  PROVE  Inv'
<1>1. Depth \in Nat /\ Depth >= 4 /\ outcome = "running" /\ Depth = Len(stack)
  BY Basics, Caller DEF Running, Depth
<1>2. n \in 0 .. Len(stack) /\ n # 0 /\ n # 1
  BY <1>1
<1>3. /\ StackOK(stack', call.level) /\ Len(stack') = n
      /\ LevelAt(stack', Len(stack'), call.level) = LevelAt(stack, n, call.level)
  BY <1>2, PrefixOK, Types
<1>4. LevelAt(stack, n, call.level) = errorLevel
  <2>1. stack[Depth].kind = "statement"
    BY DEF Running, Top
  <2>2. (\E k \in 1 .. n : stack[k].kind = "try")
           <=> (\E k \in 1 .. Depth : stack[k].kind = "try")
    <3>1. \A k \in 1 .. n : k \in 1 .. Depth
      BY <1>1
    <3>2. \A k \in 1 .. Depth : k \in 1 .. n \/ k = Depth \/ k = Depth - 1
      BY <1>1
    <3> QED BY <2>1, <3>1, <3>2
  <2> QED BY <2>2 DEF LevelAt, Inv
<1>5. stack' # <<>> /\ Len(stack') # 1
  BY <1>2, <1>3
<1>6. errorLevel' = LevelAt(stack', Len(stack'), call.level)
  BY <1>3, <1>4
<1>7. UNCHANGED request /\ UNCHANGED answer /\ UNCHANGED reports /\ chunkIndex' \in Nat
      /\ index' \in Nat /\ kept' \subseteq Nat \X Nat /\ joined' \subseteq Nat
      /\ dropped' \subseteq Nat
  BY Types DEF cursor
<1> QED BY <1>1, <1>3, <1>5, <1>6, <1>7, ContinuesSilently

LEMMA JoinFirstKeeps ==
  ASSUME Inv, Running("statement"), stack[Depth - 1].kind = "batch",
         stack[Depth - 1].at = "first", NEW slot \in Slots, JoinFirst(slot),
         UNCHANGED request
  PROVE  Inv'
<1>1. Depth \in Nat /\ Depth >= 2 /\ outcome = "running" /\ stack # <<>>
  BY Basics, Caller DEF Running
<1>2. Depth - 1 # 1
  BY <1>1, Basics
<1>3. /\ StackOK(stack', call.level) /\ Len(stack') = Depth - 1 /\ stack' # <<>>
      /\ LevelAt(stack', Len(stack'), call.level) = errorLevel
  BY SlotTaken DEF JoinFirst
<1>4. joined' \subseteq Nat
  BY Types DEF JoinFirst
<1>5. Len(stack') # 1
  BY <1>2, <1>3
<1>6. UNCHANGED answer /\ UNCHANGED reports /\ chunkIndex' \in Nat
      /\ index' \in Nat /\ kept' \subseteq Nat \X Nat /\ errorLevel' = errorLevel
      /\ dropped' \subseteq Nat
  BY Types DEF JoinFirst, cursor
<1> QED BY <1>1, <1>3, <1>4, <1>5, <1>6, ContinuesSilently

\* The errors a statement leaves behind are settled before the batch goes on.
LEMMA CheckStatementKeeps ==
  ASSUME Inv, Running("statement"), stack[Depth - 1].kind = "batch",
         NEW slot \in Slots, CheckStatement(slot), UNCHANGED <<request, joined>>
  PROVE  Inv'
<1> DEFINE found == IF More THEN Append(errors, chunkIndex) ELSE errors
<1>1. Depth \in Nat /\ Depth >= 2 /\ outcome = "running"
  BY Basics, Caller DEF Running
<1>2. found \in Seq(Nat) /\ Len(found) \in Nat /\ logged \in 0 .. Len(found)
      /\ (~More => found = errors)
  <2>1. CASE More
    BY <2>1, Types
  <2>2. CASE ~More
    BY <2>2, Types
  <2> QED BY <2>1, <2>2
<1>3. CASE More /\ errorLevel = "immediate"
  <2>1. Throw /\ UNCHANGED reports
    BY <1>3 DEF CheckStatement
  <2>2. errors' = errors /\ UNCHANGED <<request, logged, joined>>
    BY <2>1 DEF reports
  <2> HIDE DEF found
  <2> QED BY <1>1, <1>3, <2>1, <2>2, ThrowKeeps
<1>4. CASE ~(More /\ errorLevel = "immediate") /\ errorLevel = "raise" /\ found # <<>>
  <2>1. Throw /\ errors' = found /\ UNCHANGED logged
    BY <1>4 DEF CheckStatement
  <2> HIDE DEF found
  <2> QED BY <1>1, <1>2, <1>4, <2>1, ThrowKeeps
<1>5. CASE ~(More /\ errorLevel = "immediate") /\ ~(errorLevel = "raise" /\ found # <<>>)
  <2>1. /\ stack' = Append(SubSeq(stack, 1, Depth - 2),
                           [stack[Depth - 1] EXCEPT !.at = "loop", !.out = Append(@, slot)])
        /\ UNCHANGED <<cursor, errorLevel, answer, kept, dropped>>
        /\ errors' = found
        /\ logged' = Log(found)
    BY <1>5 DEF CheckStatement
  <2> HIDE DEF found
  <2>2. /\ StackOK(stack', call.level) /\ Len(stack') = Depth - 1 /\ stack' # <<>>
        /\ LevelAt(stack', Len(stack'), call.level) = errorLevel
    BY <2>1, SlotTaken
  <2>3. errors' \in Seq(Nat) /\ logged' \in 0 .. Len(errors')
    BY <1>2, <2>1, Types DEF Log
  <2>4. call.level = "immediate" => errors' = <<>>
    <3>1. ASSUME call.level = "immediate" PROVE errorLevel = "immediate"
      BY <3>1, LevelFacts
    <3>2. ASSUME call.level = "immediate" PROVE errors' = <<>>
      BY <1>2, <1>5, <2>1, <3>1, <3>2 DEF Inv
    <3> QED BY <3>2
  <2>5. Len(stack') = 1 => Settled'
    <3>1. ASSUME Len(stack') = 1 PROVE errorLevel = call.level
      <4>1. Depth - 1 = 1
        BY <2>2, <3>1
      <4>2. Depth =< 2
        BY <1>1, <4>1
      <4> QED BY <4>2, LevelFacts
    <3>2. ASSUME Len(stack') = 1, call.level = "raise" PROVE errors' = <<>>
      BY <1>5, <2>1, <3>1, <3>2
    <3>3. ASSUME Len(stack') = 1, call.level = "warn" PROVE logged' = Len(errors')
      BY <2>1, <3>1, <3>3 DEF Log
    <3>4. call' = call
      BY DEF request
    <3> QED BY <3>2, <3>3, <3>4 DEF Settled
  <2>6. UNCHANGED request /\ UNCHANGED answer /\ chunkIndex' \in Nat /\ index' \in Nat
        /\ kept' \subseteq Nat \X Nat /\ joined' \subseteq Nat /\ dropped' \subseteq Nat
        /\ errorLevel' = errorLevel
    BY <2>1, Types DEF cursor
  <2> QED BY <1>1, <2>2, <2>3, <2>4, <2>5, <2>6, Continues
<1> QED BY <1>3, <1>4, <1>5

LEMMA EndStatementKeeps ==
  ASSUME Inv, EndStatement
  PROVE  Inv'
<1> DEFINE slot == IF cursor = <<Top.chunk, Top.index>> THEN "null" ELSE "tree"
           caller == stack[Depth - 1]
<1>1. Running("statement") /\ UNCHANGED request /\ slot \in Slots
  BY DEF EndStatement, Slots
<1>2. caller \in BatchFrames \cup RoutineFrames
  BY <1>1, Caller
<1>3. CASE caller.kind = "routine"
  <2>1. /\ stack' = SubSeq(stack, 1, IF slot = "null" THEN Depth - 2 ELSE Depth - 1)
        /\ UNCHANGED <<cursor, errorLevel, reports, answer, kept, joined, dropped>>
    BY <1>3 DEF EndStatement
  <2> DEFINE n == IF slot = "null" THEN Depth - 2 ELSE Depth - 1
  <2>2. n \in {Depth - 2, Depth - 1} /\ stack' = SubSeq(stack, 1, n)
    BY <2>1
  <2> HIDE DEF n, slot
  <2> QED BY <1>1, <1>3, <2>1, <2>2, RoutineReturns
<1>4. CASE caller.kind = "batch" /\ caller.at = "first"
  <2>1. JoinFirst(slot)
    BY <1>4 DEF EndStatement
  <2> HIDE DEF slot
  <2> QED BY <1>1, <1>4, <2>1, JoinFirstKeeps
<1>5. CASE caller.kind = "batch" /\ caller.at # "first"
  <2>1. CheckStatement(slot) /\ UNCHANGED joined
    BY <1>5 DEF EndStatement
  <2> HIDE DEF slot
  <2> QED BY <1>1, <1>5, <2>1, CheckStatementKeeps
<1>6. caller.kind = "batch" \/ caller.kind = "routine"
  BY <1>2 DEF BatchFrames, RoutineFrames
<1> QED BY <1>3, <1>4, <1>5, <1>6

-----------------------------------------------------------------------------
(* The parse as a whole                                                    *)

\* A parse starts with the outermost batch and no speculation.
LEMMA StartOK ==
  ASSUME NEW l \in Levels
  PROVE  LET s == <<Batch("loop")>>
         IN  StackOK(s, l) /\ Len(s) = 1 /\ s # <<>> /\ LevelAt(s, 1, l) = l
<1> DEFINE s == <<Batch("loop")>>
<1>1. Batch("loop") \in Frames /\ Batch("loop").kind = "batch" /\ Batch("loop").at = "loop"
  BY DEF Batch, Frames, BatchFrames
<1>2. s \in Seq(Frames) /\ Len(s) = 1 /\ s[1] = Batch("loop") /\ s # <<>>
  BY <1>1
<1> HIDE DEF s
<1>3. LevelAt(s, 1, l) = l
  BY <1>1, <1>2 DEF LevelAt
<1>4. WellNested(s) /\ Remembers(s, l)
  BY <1>1, <1>2 DEF WellNested, Remembers
<1> QED BY <1>1, <1>2, <1>3, <1>4 DEF StackOK, s

LEMMA InitInv ==
  ASSUME Init
  PROVE  Inv
<1>1. call \in Calls /\ call.level \in Levels /\ call.into \in Nat
  BY CallsAssumption DEF Init
<1>2. /\ StackOK(stack, call.level) /\ Len(stack) = 1 /\ stack # <<>>
      /\ LevelAt(stack, 1, call.level) = call.level
  BY <1>1, StartOK DEF Init
<1>3. errors = <<>> /\ errors \in Seq(Nat) /\ logged \in 0 .. Len(errors) /\ Len(errors) = 0
  BY DEF Init
<1>4. method \in 1 .. Methods
  BY <1>1 DEF Init, Methods
<1>5. TypeOK
  BY <1>1, <1>2, <1>3, <1>4 DEF Init, TypeOK, StackOK
<1>6. Settled
  BY <1>3 DEF Settled, Init
<1>7. errorLevel = LevelAt(stack, Depth, call.level)
  BY <1>2 DEF Init, Depth
<1> QED BY <1>2, <1>3, <1>5, <1>6, <1>7 DEF Inv, Init

LEMMA NextMethodKeeps ==
  ASSUME Inv, NextMethod
  PROVE  Inv'
<1>1. call.level \in Levels /\ stack = <<>> /\ Depth = 0 /\ call' = call
      /\ call.into \in Nat
  BY Basics, CallsAssumption DEF NextMethod, Inv, Depth, TypeOK
<1>2. errorLevel = call.level
  BY <1>1, LevelFacts
<1>3. /\ StackOK(stack', call.level) /\ Len(stack') = 1 /\ stack' # <<>>
      /\ LevelAt(stack', 1, call.level) = call.level
  BY <1>1, StartOK DEF NextMethod
<1>4. errors' = <<>> /\ errors' \in Seq(Nat) /\ logged' = 0 /\ logged' \in 0 .. Len(errors')
  BY DEF NextMethod
<1>5. method' \in 1 .. Methods
  BY <1>1 DEF NextMethod, Inv, TypeOK, Methods
<1>6. TypeOK'
  <2>1. stack' \in Seq(Frames)
    BY <1>3 DEF StackOK
  <2> QED BY <1>1, <1>4, <1>5, <2>1 DEF NextMethod, Inv, TypeOK, Methods
<1>7. Settled'
  BY <1>4 DEF Settled
<1> QED BY <1>1, <1>2, <1>3, <1>4, <1>6, <1>7 DEF Inv, Depth, NextMethod

\* Every step keeps the invariant.
LEMMA NextInv ==
  ASSUME Inv, [Next]_vars
  PROVE  Inv'
<1>1. CASE UNCHANGED vars
  BY <1>1 DEF vars, Inv, TypeOK, Methods, Depth, Settled
<1>2. CASE Next
  BY <1>2, FirstStatementKeeps, StopAtElseKeeps, TakeEndKeeps, ParseChunkKeeps,
     ChunksEndKeeps, TakeTokenKeeps, ReportErrorKeeps, OpenBlockKeeps, GoWrongKeeps,
     NextMethodKeeps, SpeculateKeeps, EndSpeculationKeeps, OpenRoutineKeeps,
     EndStatementKeeps, RoutineEndsKeeps, RoutineMovesKeeps, RoutineUnfinishedKeeps,
     RoutineStatementKeeps DEF Next
<1> QED BY <1>1, <1>2

\* The invariant holds of every reachable state.
LEMMA AlwaysInv == Spec => []Inv
<1>1. Init => Inv
  BY InitInv
<1>2. Inv /\ [Next]_vars => Inv'
  BY NextInv
<1> QED BY <1>1, <1>2, PTL DEF Spec

-----------------------------------------------------------------------------

\* The cursor, the level, the errors and the call stack keep their types
\* through every operation of the kernel.
THEOREM AlwaysTyped == Spec => []TypeOK
<1>1. Inv => TypeOK
  BY DEF Inv
<1> QED BY <1>1, AlwaysInv, PTL

\* However speculations are nested, given up, kept or left by an exception, the
\* level of the caller is in force exactly outside all of them (_try_parse).
THEOREM AlwaysContained == Spec => []SpeculationContained
<1>1. Inv => SpeculationContained
  BY LevelFacts DEF SpeculationContained
<1> QED BY <1>1, AlwaysInv, PTL

\* Each error level keeps its promise at the end of every parse (raise_error,
\* check_errors, parse_into).
THEOREM AlwaysSurface == Spec => []ErrorsSurface
<1>1. Inv => ErrorsSurface
  BY DEF Inv, ErrorsSurface, Settled
<1> QED BY <1>1, AlwaysInv, PTL

\* Nothing that a speculation does reports or logs an error, however deep.
THEOREM AlwaysSilent == Spec => SpeculationSilent
<1>1. ASSUME Inv, Next, Tries(stack) # {} PROVE UNCHANGED reports
  <2>1. errorLevel = "immediate"
    BY <1>1, LevelFacts
  <2>2. outcome = "running"
    <3>1. stack # <<>>
      BY <1>1 DEF Tries
    <3> QED BY <1>1, <3>1 DEF Inv
  <2>3. CASE ReportError \/ RoutineUnfinished
    BY <2>1, <2>3 DEF ReportError, RoutineUnfinished, RaiseError, reports
  <2>4. CASE EndStatement
    <3>1. ASSUME NEW slot, CheckStatement(slot) PROVE UNCHANGED reports
      <4>1. CASE More
        BY <2>1, <3>1, <4>1 DEF CheckStatement
      <4>2. CASE ~More
        BY <2>1, <3>1, <4>2 DEF CheckStatement, Log, reports
      <4> QED BY <4>1, <4>2
    <3>2. ASSUME NEW slot, JoinFirst(slot) PROVE UNCHANGED reports
      BY <3>2 DEF JoinFirst
    <3> QED BY <2>4, <3>1, <3>2 DEF EndStatement
  <2>5. CASE NextMethod
    BY <2>2, <2>5 DEF NextMethod
  <2> QED BY <1>1, <2>3, <2>4, <2>5 DEF Next, FirstStatement, StopAtElse, TakeEnd, ParseChunk,
                ChunksEnd, TakeToken, OpenBlock, GoWrong, Speculate, EndSpeculation,
                OpenRoutine, RoutineEnds, RoutineChunk, RoutineSemicolon, RoutineStatement
<1>2. Inv /\ [Next]_vars => [Tries(stack) # {} => UNCHANGED reports]_vars
  BY <1>1
<1> QED BY <1>2, AlwaysInv, PTL DEF Spec, SpeculationSilent

(* Induction, over a set instead of a predicate: what holds of 0 and goes  *)
(* from i - 1 to i holds up to n.                                          *)
LEMMA InductionUpTo ==
  ASSUME NEW n \in Nat, NEW S, 0 \in S, \A i \in 1 .. n : i - 1 \in S => i \in S
  PROVE  0 .. n \subseteq S
<1> DEFINE R == {ss \in Nat \X Nat : ss[1] < ss[2]}
           T == (0 .. n) \ S
<1>1. IsWellFoundedOn(R, Nat)
  <2>1. R = OpToRel(<, Nat)
    BY Zenon DEF OpToRel
  <2>2. IsWellFoundedOn(OpToRel(<, Nat), Nat)
    BY NatLessThanWellFounded, Zenon
  <2> QED BY <2>1, <2>2, Zenon
<1>2. \A x, y \in Nat : <<y, x>> \in R <=> y < x
  OBVIOUS
<1>3. T \subseteq Nat
  OBVIOUS
<1> HIDE DEF R, T
<1>4. ASSUME T # {} PROVE FALSE
  <2>1. PICK x \in T : \A y \in T : ~(<<y, x>> \in R)
    BY <1>1, <1>3, <1>4, WFMin
  <2>2. \A y \in T : ~(y < x)
    BY <1>2, <1>3, <2>1
  <2>3. x \in 0 .. n /\ x \notin S
    BY DEF T
  <2>4. x \in 1 .. n /\ x - 1 \in 0 .. n /\ x - 1 < x
    BY <2>3
  <2>5. x - 1 \in S
    BY <2>2, <2>4 DEF T
  <2> QED BY <2>3, <2>4, <2>5
<1> QED BY <1>4 DEF T

\* Sequences of sequences are too much for the solver at once.
LEMMA Concatenated ==
  ASSUME NEW X, NEW s \in Seq(X), NEW t \in Seq(X)
  PROVE  /\ s \o t \in Seq(X) /\ Len(s \o t) = Len(s) + Len(t)
         /\ s # <<>> => s \o t # <<>>
         /\ \A i \in 1 .. Len(s) : (s \o t)[i] = s[i]
         /\ \A i \in 1 .. Len(t) : (s \o t)[Len(s) + i] = t[i]
OBVIOUS

LEMMA OneElement ==
  ASSUME NEW X, NEW x \in X
  PROVE  /\ <<x>> \in Seq(X) /\ Len(<<x>>) = 1 /\ <<x>>[1] = x
OBVIOUS

\* The table of Chunks, and its row i from the rows g before it.
Row(script, g, i) ==
    IF i = 0 THEN << <<>> >>
    ELSE CASE script[i] = ";" -> g[i - 1] \o Opened(script, i)
           [] script[i] = ";c" -> g[i - 1] \o << <<";c">> >> \o Opened(script, i)
           [] OTHER -> [g[i - 1] EXCEPT ![Len(g[i - 1])] = Append(@, script[i])]

UpTo(script) == CHOOSE g : g = [i \in 0 .. Len(script) |-> Row(script, g, i)]

LEMMA ChunksAreTheLastRow ==
  ASSUME NEW script PROVE Chunks(script) = UpTo(script)[Len(script)]
BY DEF Chunks, UpTo, Row

\* A row takes nothing but the row before it.
LEMMA RowNeedsTheLast ==
  ASSUME NEW script, NEW g, NEW h, NEW i, g[i - 1] = h[i - 1]
  PROVE  Row(script, g, i) = Row(script, h, i)
BY DEF Row

\* So there is such a table, and Chunks is read from one.
LEMMA UpToIsTheTable ==
  ASSUME NEW script \in Seq(TokenKinds)
  PROVE  UpTo(script) = [i \in 0 .. Len(script) |-> Row(script, UpTo(script), i)]
<1> DEFINE n == Len(script)
           Table(m, g) == g = [i \in 0 .. m |-> Row(script, g, i)]
           S == {m \in 0 .. n : \E g : Table(m, g)}
<1>0. n \in Nat
  OBVIOUS
<1>1. 0 \in S
  <2>1. Table(0, [i \in 0 .. 0 |-> << <<>> >>])
    <3> DEFINE g == [i \in 0 .. 0 |-> << <<>> >>]
    <3>1. \A i \in 0 .. 0 : i = 0 /\ Row(script, g, i) = << <<>> >>
      BY DEF Row
    <3> QED BY <3>1
  <2> HIDE DEF Table
  <2> QED BY <1>0, <2>1
<1>2. ASSUME NEW m \in 1 .. n, m - 1 \in S PROVE m \in S
  <2>1. PICK g : Table(m - 1, g)
    BY <1>2
  <2> DEFINE h == [i \in 0 .. m |-> IF i = m THEN Row(script, g, m) ELSE g[i]]
  <2>2. ASSUME NEW i \in 0 .. m PROVE h[i] = Row(script, h, i)
    <3>1. CASE i = 0
      <4>1. i \in 0 .. m - 1 /\ i # m
        BY <3>1
      <4>2. Row(script, g, i) = << <<>> >> /\ Row(script, h, i) = << <<>> >>
        BY <3>1 DEF Row
      <4>3. h[i] = g[i] /\ g[i] = Row(script, g, i)
        BY <2>1, <4>1
      <4> QED BY <4>2, <4>3
    <3>2. CASE i # 0
      <4>1. i - 1 \in 0 .. m /\ i - 1 # m
        BY <3>2
      <4>2. h[i - 1] = g[i - 1]
        BY <4>1
      <4>3. Row(script, h, i) = Row(script, g, i)
        BY <4>2, RowNeedsTheLast
      <4>4. h[i] = Row(script, g, i)
        <5>1. i # m => i \in 0 .. m - 1
          OBVIOUS
        <5>2. i # m => g[i] = Row(script, g, i)
          BY <2>1, <5>1
        <5> QED BY <5>2
      <4> QED BY <4>3, <4>4
    <3> QED BY <3>1, <3>2
  <2>3. Table(m, h)
    <3>1. h = [i \in 0 .. m |-> h[i]]
      OBVIOUS
    <3> HIDE DEF h
    <3> QED BY <2>2, <3>1
  <2> HIDE DEF Table, h
  <2>4. m \in 0 .. n
    OBVIOUS
  <2> QED BY <2>3, <2>4
<1>3. n \in S
  <2> HIDE DEF S
  <2>1. 0 .. n \subseteq S
    BY <1>0, <1>1, <1>2, InductionUpTo
  <2> QED BY <1>0, <2>1
<1>4. \E g : Table(n, g)
  BY <1>3
<1> QED BY <1>4 DEF UpTo

\* One row after the other.
LEMMA Rows ==
  ASSUME NEW script \in Seq(TokenKinds)
  PROVE  /\ UpTo(script)[0] = << <<>> >>
         /\ \A i \in 1 .. Len(script) :
              UpTo(script)[i] =
                CASE script[i] = ";" -> UpTo(script)[i - 1] \o Opened(script, i)
                  [] script[i] = ";c" ->
                       UpTo(script)[i - 1] \o << <<";c">> >> \o Opened(script, i)
                  [] OTHER ->
                       [UpTo(script)[i - 1] EXCEPT ![Len(UpTo(script)[i - 1])] =
                           Append(@, script[i])]
<1> DEFINE n == Len(script)
           g == UpTo(script)
<1>1. g = [i \in 0 .. n |-> Row(script, g, i)]
  BY UpToIsTheTable
<1>2. n \in Nat
  OBVIOUS
<1> HIDE DEF g
<1>3. \A i \in 0 .. n : g[i] = Row(script, g, i)
  BY <1>1
<1>4. g[0] = << <<>> >>
  <2>1. 0 \in 0 .. n
    BY <1>2
  <2>2. g[0] = Row(script, g, 0)
    BY <1>3, <2>1
  <2> QED BY <2>2 DEF Row
<1>5. ASSUME NEW i \in 1 .. n
      PROVE  g[i] = CASE script[i] = ";" -> g[i - 1] \o Opened(script, i)
                      [] script[i] = ";c" ->
                           g[i - 1] \o << <<";c">> >> \o Opened(script, i)
                      [] OTHER -> [g[i - 1] EXCEPT ![Len(g[i - 1])] = Append(@, script[i])]
  <2>1. i \in 0 .. n /\ i # 0
    BY <1>2
  <2>2. g[i] = Row(script, g, i)
    BY <1>3, <2>1
  <2> QED BY <2>1, <2>2 DEF Row
<1> QED BY <1>4, <1>5 DEF g

\* Every chunk is a sequence of tokens, and there is at least one.
LEMMA ChunksTyped ==
  ASSUME NEW script \in Seq(TokenKinds)
  PROVE  Chunks(script) \in Seq(Seq(TokenKinds)) /\ Chunks(script) # <<>>
<1> DEFINE n == Len(script)
           g == UpTo(script)
           Good(cs) == cs \in Seq(Seq(TokenKinds)) /\ cs # <<>>
           S == {i \in 0 .. n : Good(g[i])}
<1>0. n \in Nat
  OBVIOUS
<1>1. 0 \in S
  <2>1. g[0] = << <<>> >>
    BY Rows
  <2>2. <<>> \in Seq(TokenKinds)
    OBVIOUS
  <2>3. << <<>> >> \in Seq(Seq(TokenKinds)) /\ << <<>> >> # <<>>
    BY <2>2, OneElement
  <2>4. Good(g[0]) /\ 0 \in 0 .. n
    BY <1>0, <2>1, <2>3
  <2> HIDE DEF Good, g
  <2> QED BY <2>4
<1>2. ASSUME NEW i \in 1 .. n, i - 1 \in S PROVE i \in S
  <2>1. /\ g[i - 1] \in Seq(Seq(TokenKinds)) /\ g[i - 1] # <<>>
        /\ script[i] \in TokenKinds /\ i \in 0 .. n
    BY <1>0, <1>2
  <2> DEFINE before == g[i - 1]
             opened == Opened(script, i)
  <2>2. opened \in Seq(Seq(TokenKinds))
    BY DEF Opened
  <2>3. g[i] = CASE script[i] = ";" -> before \o opened
                 [] script[i] = ";c" -> before \o << <<";c">> >> \o opened
                 [] OTHER -> [before EXCEPT ![Len(before)] = Append(@, script[i])]
    BY Rows
  <2>4. before \in Seq(Seq(TokenKinds)) /\ before # <<>>
    BY <2>1
  <2> HIDE DEF before, opened, g
  <2>5. CASE script[i] = ";"
    <3>1. g[i] = before \o opened
      BY <2>3, <2>5
    <3>2. before \o opened \in Seq(Seq(TokenKinds)) /\ before \o opened # <<>>
      BY <2>2, <2>4, Concatenated
    <3> QED BY <2>1, <3>1, <3>2
  <2>6. CASE script[i] = ";c"
    <3>1. g[i] = before \o << <<";c">> >> \o opened
      BY <2>3, <2>6
    <3>2. << <<";c">> >> \in Seq(Seq(TokenKinds))
      <4>1. ";c" \in TokenKinds
        BY DEF TokenKinds
      <4>2. <<";c">> \in Seq(TokenKinds)
        BY <4>1, OneElement
      <4> QED BY <4>2, OneElement
    <3> DEFINE first == before \o << <<";c">> >>
    <3>3. first \in Seq(Seq(TokenKinds)) /\ first # <<>>
      BY <2>4, <3>2, Concatenated
    <3> HIDE DEF first
    <3>4. first \o opened \in Seq(Seq(TokenKinds)) /\ first \o opened # <<>>
      BY <2>2, <3>3, Concatenated
    <3> QED BY <2>1, <3>1, <3>4 DEF first
  <2>7. CASE script[i] \notin {";", ";c"}
    <3>1. g[i] = [before EXCEPT ![Len(before)] = Append(@, script[i])]
      BY <2>3, <2>7
    <3>2. Len(before) \in 1 .. Len(before) /\ before[Len(before)] \in Seq(TokenKinds)
      BY <2>4
    <3>3. Append(before[Len(before)], script[i]) \in Seq(TokenKinds)
      BY <2>1, <3>2
    <3>4. g[i] \in Seq(Seq(TokenKinds)) /\ Len(g[i]) = Len(before)
      BY <2>4, <3>1, <3>2, <3>3
    <3>5. g[i] # <<>>
      BY <3>2, <3>4
    <3> QED BY <2>1, <3>4, <3>5
  <2> QED BY <2>5, <2>6, <2>7
<1>3. n \in S
  <2> HIDE DEF S
  <2>1. 0 .. n \subseteq S
    BY <1>0, <1>1, <1>2, InductionUpTo
  <2> QED BY <1>0, <2>1
<1> QED BY <1>3, ChunksAreTheLastRow
-----------------------------------------------------------------------------
(* No token is lost                                                        *)

\* Every token up to the i-th of chunk c is in one of the trees, but for those of
\* the chunks gone, and of the chunks in ends that are behind the cursor.
Accounted(cs, gone, ends, c, i, trees) ==
    \A a \in 1 .. Len(cs) : \A b \in 1 .. Len(cs[a]) :
        a < c \/ (a = c /\ b =< i) =>
            \/ <<a, b>> \in trees
            \/ a \in gone
            \/ a \in ends /\ a < c

\* So it was when each speculation on the stack began.
TriesAccounted(cs, gone, ends, c, s) ==
    \A k \in 1 .. Len(s) : s[k].kind = "try" =>
        /\ s[k].chunk =< c
        /\ Accounted(cs, gone, ends, s[k].chunk, s[k].index, s[k].kept)

AtLoop(s) == s # <<>> /\ s[Len(s)].kind = "batch" /\ s[Len(s)].at = "loop"

\* What a loop may leave of the chunk c when it goes on to the next.
ChunkDone(cs, ends, c, i, depth) ==
    c = 0 \/ ~(i < Len(cs[c])) \/ (depth > 1 /\ c \in ends)

LossInv ==
    /\ outcome = "running" /\ errors = <<>> =>
          /\ Accounted(chunks, dropped, joined, chunkIndex, index, kept)
          /\ TriesAccounted(chunks, dropped, joined, chunkIndex, stack)
          /\ AtLoop(stack) => ChunkDone(chunks, joined, chunkIndex, index, Depth)
    /\ LossesKnown

\* The speculations of t are speculations of s.
SameTries(s, t) ==
    \A k \in 1 .. Len(t) : t[k].kind = "try" =>
        /\ k \in 1 .. Len(s) /\ s[k].kind = "try"
        /\ t[k].chunk = s[k].chunk /\ t[k].index = s[k].index /\ t[k].kept = s[k].kept

LEMMA AccountedGrows ==
  ASSUME NEW cs, NEW gone, NEW more, gone \subseteq more, NEW ends, NEW others,
         ends \subseteq others, NEW trees, NEW forest, trees \subseteq forest,
         NEW c, NEW i, Accounted(cs, gone, ends, c, i, trees)
  PROVE  Accounted(cs, more, others, c, i, forest)
BY DEF Accounted

LEMMA AccountedToken ==
  ASSUME NEW cs \in Seq(Seq(TokenKinds)), NEW gone, NEW ends, NEW trees,
         NEW c \in Nat, NEW i \in Nat, Accounted(cs, gone, ends, c, i, trees)
  PROVE  Accounted(cs, gone, ends, c, i + 1, trees \cup {<<c, i + 1>>})
<1> SUFFICES ASSUME NEW a \in 1 .. Len(cs), NEW b \in 1 .. Len(cs[a]),
                    a < c \/ (a = c /\ b =< i + 1)
             PROVE  \/ <<a, b>> \in trees \cup {<<c, i + 1>>}
                    \/ a \in gone
                    \/ a \in ends /\ a < c
  BY DEF Accounted
<1>1. b \in Nat
  OBVIOUS
<1>2. a < c \/ (a = c /\ b =< i) \/ (a = c /\ b = i + 1)
  BY <1>1
<1> QED BY <1>2 DEF Accounted

LEMMA AccountedChunk ==
  ASSUME NEW cs \in Seq(Seq(TokenKinds)), NEW gone, NEW ends, NEW trees,
         NEW c \in Nat, NEW i \in Nat, NEW depth, Accounted(cs, gone, ends, c, i, trees),
         ChunkDone(cs, ends, c, i, depth)
  PROVE  Accounted(cs, gone, ends, c + 1, 0, trees)
<1> SUFFICES ASSUME NEW a \in 1 .. Len(cs), NEW b \in 1 .. Len(cs[a]),
                    a < c + 1 \/ (a = c + 1 /\ b =< 0)
             PROVE  \/ <<a, b>> \in trees
                    \/ a \in gone
                    \/ a \in ends /\ a < c + 1
  BY DEF Accounted
<1>1. Len(cs[a]) \in Nat /\ b \in 1 .. Len(cs[a]) /\ b \in Nat /\ b >= 1 /\ b =< Len(cs[a])
  OBVIOUS
<1>2. a \in Nat /\ a >= 1 /\ (a < c \/ a = c)
  BY <1>1
<1>3. CASE a < c
  <2>1. \/ <<a, b>> \in trees
        \/ a \in gone
        \/ a \in ends /\ a < c
    BY <1>3 DEF Accounted
  <2>2. a < c + 1
    BY <1>2, <1>3
  <2> QED BY <2>1, <2>2
<1>4. CASE a = c
  <2>1. c # 0 /\ a < c + 1
    BY <1>2, <1>4
  <2>2. CASE c \in ends
    BY <1>4, <2>1, <2>2
  <2>3. CASE ~(i < Len(cs[c]))
    <3>1. b =< i
      BY <1>1, <1>4, <2>3
    <3>2. ~(a < c)
      BY <1>4
    <3> QED BY <1>4, <3>1, <3>2 DEF Accounted
  <2> QED BY <2>1, <2>2, <2>3 DEF ChunkDone
<1> QED BY <1>2, <1>3, <1>4

LEMMA AccountedAbandoned ==
  ASSUME NEW cs \in Seq(Seq(TokenKinds)), NEW gone, NEW ends, NEW trees,
         NEW c \in Nat, NEW i \in Nat, NEW d \in Nat, c =< d, NEW j,
         Accounted(cs, gone, ends, c, i, trees)
  PROVE  Accounted(cs, gone \cup c .. d, ends, d, j, trees)
<1> SUFFICES ASSUME NEW a \in 1 .. Len(cs), NEW b \in 1 .. Len(cs[a]),
                    a < d \/ (a = d /\ b =< j)
             PROVE  \/ <<a, b>> \in trees
                    \/ a \in gone \cup c .. d
                    \/ a \in ends /\ a < d
  BY DEF Accounted
<1>1. a \in Nat /\ (a < c \/ a \in c .. d)
  OBVIOUS
<1>2. CASE a < c
  <2>1. a < d
    BY <1>1, <1>2
  <2> QED BY <1>2, <2>1 DEF Accounted
<1> QED BY <1>1, <1>2

LEMMA TriesStay ==
  ASSUME NEW cs, NEW gone, NEW more, gone \subseteq more, NEW ends, NEW others,
         ends \subseteq others, NEW c \in Nat, NEW d \in Nat, c =< d,
         NEW s \in Seq(Frames), NEW t, SameTries(s, t), TriesAccounted(cs, gone, ends, c, s)
  PROVE  TriesAccounted(cs, more, others, d, t)
<1> SUFFICES ASSUME NEW k \in 1 .. Len(t), t[k].kind = "try"
             PROVE  /\ t[k].chunk =< d
                    /\ Accounted(cs, more, others, t[k].chunk, t[k].index, t[k].kept)
  BY DEF TriesAccounted
<1>1. /\ k \in 1 .. Len(s) /\ s[k].kind = "try"
      /\ t[k].chunk = s[k].chunk /\ t[k].index = s[k].index /\ t[k].kept = s[k].kept
  BY DEF SameTries
<1>2. s[k] \in TryFrames
  BY <1>1, FrameKinds
<1>3. s[k].chunk \in Nat
  BY <1>2 DEF TryFrames
<1>4. s[k].chunk =< c /\ Accounted(cs, gone, ends, s[k].chunk, s[k].index, s[k].kept)
  BY <1>1 DEF TriesAccounted
<1>5. Accounted(cs, more, others, t[k].chunk, t[k].index, t[k].kept)
  BY <1>1, <1>4, AccountedGrows
<1> QED BY <1>1, <1>3, <1>4, <1>5

LEMMA TriesPrefix ==
  ASSUME NEW s \in Seq(Frames), NEW n \in 0 .. Len(s)
  PROVE  SameTries(s, SubSeq(s, 1, n)) /\ SubSeq(s, 1, n) \in Seq(Frames)
<1>1. /\ SubSeq(s, 1, n) \in Seq(Frames) /\ Len(SubSeq(s, 1, n)) = n
      /\ \A k \in 1 .. n : SubSeq(s, 1, n)[k] = s[k] /\ k \in 1 .. Len(s)
  OBVIOUS
<1> QED BY <1>1 DEF SameTries

LEMMA TriesPushed ==
  ASSUME NEW r, NEW s \in Seq(Frames), SameTries(r, s), NEW f, f.kind # "try"
  PROVE  SameTries(r, Append(s, f))
<1>1. /\ Len(Append(s, f)) = Len(s) + 1
      /\ \A k \in 1 .. Len(s) + 1 : (k \in 1 .. Len(s) /\ Append(s, f)[k] = s[k])
                                    \/ Append(s, f)[k] = f
  OBVIOUS
<1> QED BY <1>1 DEF SameTries

LEMMA TriesCalled ==
  ASSUME Inv, Calling
  PROVE  SameTries(stack, Called) /\ Called \in Seq(Frames)
<1>1. Called \in Seq(Frames) /\ Len(Called) = Depth
  BY CalledOK DEF StackOK
<1>2. Top \in Frames /\ Top.kind \in {"statement", "try"} /\ stack[Depth] = Top
      /\ Depth \in Nat /\ stack \in Seq(Frames) /\ Depth >= 1
  BY Basics DEF Calling, Producing
<1> DEFINE f == [Top EXCEPT !.calls = @ + 1]
<1>3. /\ f.kind = Top.kind
      /\ Top.kind = "try" => f.chunk = Top.chunk /\ f.index = Top.index /\ f.kept = Top.kept
  <2>1. CASE Top.kind = "statement"
    BY <1>2, <2>1, FrameKinds DEF StatementFrames
  <2>2. CASE Top.kind = "try"
    BY <1>2, <2>2, FrameKinds DEF TryFrames
  <2> QED BY <1>2, <2>1, <2>2
<1> HIDE DEF f
<1>4. \A k \in 1 .. Depth : Called[k] = IF k = Depth THEN f ELSE stack[k]
  <2> DEFINE b == SubSeq(stack, 1, Depth - 1)
  <2>1. Called = Append(b, f)
    BY DEF Called, WithTop, Below, f
  <2>2. b \in Seq(Frames) /\ Len(b) = Depth - 1 /\ \A k \in 1 .. Depth - 1 : b[k] = stack[k]
    <3>1. Depth - 1 \in 0 .. Len(stack)
      BY <1>2 DEF Depth
    <3> QED BY <1>2, <3>1, PrefixOK, Types DEF StackOK
  <2> HIDE DEF b
  <2>3. \A k \in 1 .. Depth : Append(b, f)[k] = IF k = Depth THEN f ELSE b[k]
    BY <1>2, <2>2
  <2>4. \A k \in 1 .. Depth : k = Depth \/ k \in 1 .. Depth - 1
    BY <1>2
  <2> QED BY <2>1, <2>2, <2>3, <2>4
<1>5. \A k \in 1 .. Depth : k \in 1 .. Len(stack)
  BY DEF Depth
<1> QED BY <1>1, <1>2, <1>3, <1>4, <1>5 DEF SameTries

-----------------------------------------------------------------------------
(* The steps                                                               *)

LEMMA LossTypes ==
  ASSUME Inv
  PROVE  /\ chunks \in Seq(Seq(TokenKinds)) /\ chunkIndex \in Nat /\ index \in Nat
         /\ stack \in Seq(Frames)
         /\ \A c \in 1 .. Len(chunks) : Len(chunks[c]) \in Nat
<1>1. chunks = Chunks(call.script) /\ call.script \in Seq(TokenKinds)
  BY Basics DEF Inv, TypeOK
<1>2. chunks \in Seq(Seq(TokenKinds))
  BY <1>1, ChunksTyped
<1> QED BY <1>2, Types, Basics

\* A parse that does not return has nothing to show for but its running state.
LEMMA RunsOn ==
  ASSUME UNCHANGED request, outcome' # "returned",
         outcome' = "running" /\ errors' = <<>> =>
            /\ Accounted(chunks, dropped', joined', chunkIndex', index', kept')
            /\ TriesAccounted(chunks, dropped', joined', chunkIndex', stack')
            /\ AtLoop(stack') => ChunkDone(chunks, joined', chunkIndex', index', Len(stack'))
  PROVE  LossInv'
<1>1. chunks' = chunks
  BY DEF request
<1>2. LossesKnown'
  BY DEF LossesKnown
<1> QED BY <1>1, <1>2 DEF LossInv, Depth

\* A step that stays in its chunk takes at most the token under the cursor.
LEMMA StaysInChunk ==
  ASSUME Inv, LossInv, outcome = "running",
         UNCHANGED <<request, chunkIndex, joined, dropped, answer>>,
         errors' = <<>> => errors = <<>> /\ SameTries(stack, stack'),
         \/ index' = index /\ kept' = kept
         \/ index' = index + 1 /\ kept' = kept \cup {<<chunkIndex, index + 1>>},
         errors' = <<>> /\ AtLoop(stack') =>
            ChunkDone(chunks, joined, chunkIndex, index', Len(stack'))
  PROVE  LossInv'
<1>1. UNCHANGED request /\ chunkIndex' = chunkIndex /\ joined' = joined
      /\ dropped' = dropped /\ outcome' = outcome
  BY DEF answer
<1>2. ASSUME errors' = <<>>
      PROVE  Accounted(chunks, dropped, joined, chunkIndex, index', kept')
  <2>1. Accounted(chunks, dropped, joined, chunkIndex, index, kept)
    BY <1>2 DEF LossInv
  <2>2. CASE index' = index /\ kept' = kept
    BY <2>1, <2>2
  <2>3. CASE index' = index + 1 /\ kept' = kept \cup {<<chunkIndex, index + 1>>}
    BY <2>1, <2>3, LossTypes, AccountedToken
  <2> QED BY <2>2, <2>3
<1>3. ASSUME errors' = <<>>
      PROVE  TriesAccounted(chunks, dropped, joined, chunkIndex, stack')
  <2>1. TriesAccounted(chunks, dropped, joined, chunkIndex, stack)
        /\ SameTries(stack, stack')
    BY <1>3 DEF LossInv
  <2>2. chunkIndex =< chunkIndex
    BY LossTypes
  <2> QED BY <2>1, <2>2, LossTypes, TriesStay
<1> QED BY <1>1, <1>2, <1>3, RunsOn

\* A step that goes to the next chunk leaves a chunk that is done.
LEMMA NextChunkIsReached ==
  ASSUME Inv, LossInv, outcome = "running", errors = <<>>,
         chunkIndex' = chunkIndex + 1, joined' = joined, dropped' = dropped,
         NEW depth, ChunkDone(chunks, joined, chunkIndex, index, depth),
         \/ index' = 0 /\ kept' = kept
         \/ index' = 1 /\ kept' = kept \cup {<<chunkIndex + 1, 1>>}
  PROVE  Accounted(chunks, dropped', joined', chunkIndex', index', kept')
<1>1. Accounted(chunks, dropped, joined, chunkIndex, index, kept)
  BY DEF LossInv
<1>2. Accounted(chunks, dropped, joined, chunkIndex + 1, 0, kept)
  BY <1>1, LossTypes, AccountedChunk
<1>3. CASE index' = 0 /\ kept' = kept
  BY <1>2, <1>3
<1>4. CASE index' = 1 /\ kept' = kept \cup {<<chunkIndex + 1, 1>>}
  <2>1. chunkIndex + 1 \in Nat /\ 0 \in Nat /\ 0 + 1 = 1
    BY LossTypes
  <2>2. Accounted(chunks, dropped, joined, chunkIndex + 1, 0 + 1,
                  kept \cup {<<chunkIndex + 1, 0 + 1>>})
    BY <1>2, <2>1, LossTypes, AccountedToken
  <2> QED BY <1>4, <2>1, <2>2
<1> QED BY <1>3, <1>4

LEMMA GoesToNextChunk ==
  ASSUME Inv, LossInv, outcome = "running",
         UNCHANGED <<request, errors, joined, dropped, answer>>,
         chunkIndex' = chunkIndex + 1,
         SameTries(stack, stack'),
         NEW depth, errors = <<>> => ChunkDone(chunks, joined, chunkIndex, index, depth),
         \/ index' = 0 /\ kept' = kept
         \/ index' = 1 /\ kept' = kept \cup {<<chunkIndex + 1, 1>>},
         AtLoop(stack') => ChunkDone(chunks, joined, chunkIndex', index', Len(stack'))
  PROVE  LossInv'
<1>1. UNCHANGED request /\ joined' = joined /\ dropped' = dropped /\ outcome' = outcome
      /\ errors' = errors
  BY DEF answer
<1>2. ASSUME errors = <<>>
      PROVE  Accounted(chunks, dropped', joined', chunkIndex', index', kept')
  BY <1>1, <1>2, NextChunkIsReached
<1>3. ASSUME errors = <<>>
      PROVE  TriesAccounted(chunks, dropped, joined, chunkIndex', stack')
  <2>1. TriesAccounted(chunks, dropped, joined, chunkIndex, stack)
    BY <1>3 DEF LossInv
  <2>2. chunkIndex =< chunkIndex' /\ chunkIndex' \in Nat
    BY LossTypes
  <2> QED BY <2>1, <2>2, LossTypes, TriesStay
<1> QED BY <1>1, <1>2, <1>3, RunsOn

\* What a frame stands on is no batch, unless the frame is a statement.
LEMMA NotAtLoop ==
  ASSUME Inv, NEW n \in 1 .. Depth - 1, stack[n + 1].kind # "statement"
  PROVE  ~AtLoop(SubSeq(stack, 1, n))
<1>1. n \in 0 .. Len(stack) /\ n \in 1 .. n /\ n + 1 \in 2 .. Len(stack)
      /\ (n + 1) - 1 = n
  BY Basics DEF Depth
<1>2. /\ Len(SubSeq(stack, 1, n)) = n
      /\ SubSeq(stack, 1, n)[n] = stack[n]
  BY <1>1, PrefixOK, Types
<1>3. stack[n].kind # "batch"
  BY <1>1 DEF Inv, StackOK, WellNested
<1> QED BY <1>2, <1>3 DEF AtLoop

\* A frame on top that is not a waiting batch.
LEMMA TopNotAtLoop ==
  ASSUME NEW s \in Seq(Frames), NEW f, f.kind # "batch" \/ f.at # "loop"
  PROVE  ~AtLoop(Append(s, f))
<1>1. Append(s, f)[Len(Append(s, f))] = f
  OBVIOUS
<1> QED BY <1>1 DEF AtLoop

LEMMA TriesReflexive ==
  ASSUME NEW s PROVE SameTries(s, s)
BY DEF SameTries

-----------------------------------------------------------------------------
\* What an abandoned speculation had taken beyond its chunk is dropped, and in
\* its chunk the cursor is where the speculation found it.
LEMMA AbandonLoses ==
  ASSUME Inv, LossInv, outcome = "running", NEW k \in Tries(stack), Abandon(k),
         UNCHANGED <<request, joined>>, errors' = <<>> => errors = <<>>
  PROVE  LossInv'
<1>1. k \in 3 .. Depth /\ stack[k] \in TryFrames /\ Depth \in Nat
      /\ stack[k].kind = "try"
  BY TriesAreDeep, Basics DEF Tries
<1>2. k - 1 \in 0 .. Len(stack) /\ k - 1 \in 1 .. Depth - 1 /\ k \in 1 .. Len(stack)
      /\ (k - 1) + 1 = k
  BY <1>1 DEF Depth
<1>3. stack[k].chunk \in Nat /\ stack[k].index \in Nat
  BY <1>1 DEF TryFrames
<1>4. /\ stack' = SubSeq(stack, 1, k - 1) /\ index' = stack[k].index
      /\ kept' = stack[k].kept /\ chunkIndex' = chunkIndex /\ joined' = joined
      /\ outcome' = outcome
      /\ dropped' = IF stack[k].chunk = chunkIndex THEN dropped
                    ELSE dropped \cup stack[k].chunk .. chunkIndex
  BY DEF Abandon, Retreat, answer
<1>5. ASSUME errors' = <<>>
      PROVE  /\ Accounted(chunks, dropped', joined', chunkIndex', index', kept')
             /\ TriesAccounted(chunks, dropped', joined', chunkIndex', stack')
  <2>1. /\ TriesAccounted(chunks, dropped, joined, chunkIndex, stack)
        /\ stack[k].chunk =< chunkIndex
        /\ Accounted(chunks, dropped, joined, stack[k].chunk, stack[k].index, stack[k].kept)
    BY <1>1, <1>2, <1>5 DEF LossInv, TriesAccounted
  <2>2. Accounted(chunks, dropped', joined', chunkIndex', index', kept')
    <3>1. CASE stack[k].chunk = chunkIndex
      BY <1>4, <2>1, <3>1
    <3>2. CASE stack[k].chunk # chunkIndex
      <4>1. dropped' = dropped \cup stack[k].chunk .. chunkIndex
        BY <1>4, <3>2
      <4>2. Accounted(chunks, dropped \cup stack[k].chunk .. chunkIndex, joined,
                      chunkIndex, index', stack[k].kept)
        BY <1>3, <2>1, LossTypes, AccountedAbandoned
      <4> QED BY <1>4, <4>1, <4>2
    <3> QED BY <3>1, <3>2
  <2>3. TriesAccounted(chunks, dropped', joined', chunkIndex', stack')
    <3>1. dropped \subseteq dropped' /\ joined \subseteq joined' /\ chunkIndex =< chunkIndex'
      BY <1>4, LossTypes
    <3>2. SameTries(stack, stack')
      BY <1>2, <1>4, LossTypes, TriesPrefix
    <3>3. chunkIndex \in Nat /\ chunkIndex' \in Nat
      BY <1>4, LossTypes
    <3> QED BY <2>1, <3>1, <3>2, <3>3, LossTypes, TriesStay
  <2> QED BY <2>2, <2>3
<1>6. ~AtLoop(stack')
  BY <1>1, <1>2, <1>4, NotAtLoop
<1> QED BY <1>4, <1>5, <1>6, RunsOn

LEMMA ThrowLoses ==
  ASSUME Inv, LossInv, outcome = "running", Throw, UNCHANGED <<request, joined>>,
         errors' = <<>> => errors = <<>>
  PROVE  LossInv'
<1>1. CASE \E k \in Tries(stack) : Innermost(k) /\ Abandon(k)
  BY <1>1, AbandonLoses
<1>2. CASE outcome' = "thrown"
  BY <1>2, RunsOn
<1> QED BY <1>1, <1>2 DEF Throw

-----------------------------------------------------------------------------

LEMMA TakesToken ==
  ASSUME Inv, LossInv, TakeToken \/ RoutineSemicolon
  PROVE  LossInv'
<1>1. /\ outcome = "running" /\ stack # <<>> /\ stack' = stack /\ Top.kind # "batch"
      /\ UNCHANGED <<request, chunkIndex, joined, dropped, answer>>
      /\ errors' = errors
      /\ index' = index + 1 /\ kept' = kept \cup {<<chunkIndex, index + 1>>}
  BY DEF TakeToken, RoutineSemicolon, Producing, Running, Advance, reports
<1>2. ~AtLoop(stack')
  BY <1>1 DEF AtLoop, Top, Depth
<1>3. SameTries(stack, stack')
  BY <1>1, TriesReflexive
<1> QED BY <1>1, <1>2, <1>3, StaysInChunk

LEMMA FirstStatementLoses ==
  ASSUME Inv, LossInv, FirstStatement
  PROVE  LossInv'
<1> DEFINE f == Statement(index' >= Len(Tokens), chunkIndex, index')
<1>1. /\ outcome = "running" /\ stack' = Append(stack, f) /\ f.kind = "statement"
      /\ UNCHANGED <<request, chunkIndex, joined, dropped, answer>> /\ errors' = errors
  BY DEF FirstStatement, Running, reports, Statement
<1>2. \/ index' = index /\ kept' = kept
      \/ index' = index + 1 /\ kept' = kept \cup {<<chunkIndex, index + 1>>}
  BY DEF FirstStatement, Advance
<1> HIDE DEF f
<1>3. ~AtLoop(stack') /\ SameTries(stack, stack')
  BY <1>1, LossTypes, TopNotAtLoop, TriesReflexive, TriesPushed
<1> QED BY <1>1, <1>2, <1>3, StaysInChunk

\* What a production opens is no speculation and no waiting batch.
LEMMA OpensLoses ==
  ASSUME Inv, LossInv, Calling, NEW f, stack' = Append(Called, f), f.kind # "try",
         f.kind # "batch" \/ f.at # "loop",
         UNCHANGED <<request, cursor, reports, answer, kept, joined, dropped>>
  PROVE  LossInv'
<1>1. /\ outcome = "running" /\ errors' = errors /\ index' = index /\ kept' = kept
      /\ UNCHANGED <<request, chunkIndex, joined, dropped, answer>>
  BY DEF Calling, Producing, cursor, reports
<1>2. ~AtLoop(stack') /\ SameTries(stack, stack')
  BY TriesCalled, TopNotAtLoop, TriesPushed
<1> QED BY <1>1, <1>2, StaysInChunk

LEMMA OpenBlockLoses ==
  ASSUME Inv, LossInv, OpenBlock
  PROVE  LossInv'
<1>1. Batch("first").kind = "batch" /\ Batch("first").at = "first"
  BY DEF Batch
<1>2. stack' = Append(Called, Batch("first")) /\ Calling
      /\ UNCHANGED <<request, cursor, reports, answer, kept, joined, dropped>>
  BY DEF OpenBlock
<1> QED BY <1>1, <1>2, OpensLoses

LEMMA OpenRoutineLoses ==
  ASSUME Inv, LossInv, NEW until, OpenRoutine(until)
  PROVE  LossInv'
<1> DEFINE f == [kind |-> "routine", until |-> until]
<1>1. f.kind = "routine" /\ stack' = Append(Called, f) /\ Calling
      /\ UNCHANGED <<request, cursor, reports, answer, kept, joined, dropped>>
  BY DEF OpenRoutine
<1> HIDE DEF f
<1> QED BY <1>1, OpensLoses

\* A speculation remembers the trees as they are when it begins.
LEMMA SpeculateLoses ==
  ASSUME Inv, LossInv, NEW retreat \in BOOLEAN, Speculate(retreat)
  PROVE  LossInv'
<1> DEFINE f == [kind |-> "try", chunk |-> chunkIndex, index |-> index,
                 level |-> errorLevel, retreat |-> retreat, kept |-> kept, calls |-> 0]
<1>1. f.kind = "try" /\ f.chunk = chunkIndex /\ f.index = index /\ f.kept = kept
  OBVIOUS
<1>2. /\ stack' = Append(Called, f) /\ Calling /\ outcome = "running"
      /\ UNCHANGED request /\ outcome' = outcome /\ errors' = errors
      /\ chunkIndex' = chunkIndex /\ index' = index /\ kept' = kept
      /\ joined' = joined /\ dropped' = dropped
  BY DEF Speculate, Calling, Producing, cursor, reports, answer
<1> HIDE DEF f
<1>3. ~AtLoop(stack')
  BY <1>1, <1>2, TriesCalled, TopNotAtLoop
<1>4. ASSUME errors = <<>>
      PROVE  /\ Accounted(chunks, dropped, joined, chunkIndex, index, kept)
             /\ TriesAccounted(chunks, dropped, joined, chunkIndex, stack')
  <2>1. /\ Accounted(chunks, dropped, joined, chunkIndex, index, kept)
        /\ TriesAccounted(chunks, dropped, joined, chunkIndex, stack)
        /\ chunkIndex =< chunkIndex /\ chunkIndex \in Nat
    BY <1>2, <1>4, LossTypes DEF LossInv
  <2>2. TriesAccounted(chunks, dropped, joined, chunkIndex, Called)
    BY <1>2, <2>1, LossTypes, TriesCalled, TriesStay
  <2>3. /\ Len(stack') = Len(Called) + 1 /\ Len(Called) \in Nat
        /\ \A k \in 1 .. Len(Called) + 1 :
             (k \in 1 .. Len(Called) /\ stack'[k] = Called[k]) \/ stack'[k] = f
    <3>1. Called \in Seq(Frames)
      BY <1>2, TriesCalled
    <3> HIDE DEF Called
    <3> QED BY <1>2, <3>1
  <2> QED BY <1>1, <2>1, <2>2, <2>3 DEF TriesAccounted
<1> QED BY <1>2, <1>3, <1>4, RunsOn

LEMMA ReportErrorLoses ==
  ASSUME Inv, LossInv, ReportError
  PROVE  LossInv'
<1>1. outcome = "running" /\ UNCHANGED <<request, joined>>
  BY DEF ReportError, Calling, Producing
<1>2. CASE Throw /\ UNCHANGED errors
  BY <1>1, <1>2, ThrowLoses
<1>3. CASE errors' = Append(errors, chunkIndex) /\ UNCHANGED answer
  <2>1. errors' # <<>>
    BY <1>3, Types
  <2> QED BY <1>1, <1>3, <2>1, RunsOn DEF answer
<1> QED BY <1>2, <1>3 DEF ReportError, RaiseError

LEMMA RoutineUnfinishedLoses ==
  ASSUME Inv, LossInv, RoutineUnfinished
  PROVE  LossInv'
<1>1. outcome = "running" /\ UNCHANGED <<request, joined>>
  BY DEF RoutineUnfinished, Running
<1>2. CASE Throw /\ UNCHANGED errors
  BY <1>1, <1>2, ThrowLoses
<1>3. CASE errors' = Append(errors, chunkIndex) /\ UNCHANGED answer
  <2>1. errors' # <<>>
    BY <1>3, Types
  <2> QED BY <1>1, <1>3, <2>1, RunsOn DEF answer
<1> QED BY <1>2, <1>3 DEF RoutineUnfinished, RaiseError

\* What goes back to the frame below a speculation or a loop goes back to a production.
LEMMA BelowLoses ==
  ASSUME Inv, stack # <<>>, Top.kind # "statement", Depth # 1
  PROVE  SameTries(stack, Below) /\ ~AtLoop(Below)
<1>1. Depth \in Nat /\ Depth >= 1 /\ stack[Depth] = Top
  BY Basics
<1>2. Depth - 1 \in 0 .. Len(stack) /\ Depth - 1 \in 1 .. Depth - 1
      /\ (Depth - 1) + 1 = Depth
  <2>1. Depth = Len(stack)
    BY DEF Depth
  <2> QED BY <1>1, <2>1
<1>3. Below = SubSeq(stack, 1, Depth - 1)
  BY DEF Below
<1> HIDE DEF Below
<1>4. SameTries(stack, Below)
  BY <1>2, <1>3, LossTypes, TriesPrefix
<1>5. ~AtLoop(Below)
  <2> DEFINE n == Depth - 1
  <2>1. n \in 1 .. Depth - 1 /\ n + 1 = Depth
    BY <1>2
  <2> HIDE DEF n
  <2>2. stack[n + 1].kind # "statement"
    BY <1>1, <2>1
  <2>3. ~AtLoop(SubSeq(stack, 1, n))
    BY <2>1, <2>2, NotAtLoop
  <2> QED BY <1>3, <2>3 DEF n
<1> QED BY <1>4, <1>5

LEMMA EndSpeculationLoses ==
  ASSUME Inv, LossInv, NEW found \in BOOLEAN, EndSpeculation(found)
  PROVE  LossInv'
<1>1. /\ outcome = "running" /\ stack # <<>> /\ Top.kind = "try" /\ errors' = errors
      /\ UNCHANGED <<request, joined>> /\ stack[Depth] = Top /\ Depth \in 1 .. Len(stack)
  BY Basics DEF EndSpeculation, Running, reports, Depth
<1>2. Depth \in Tries(stack)
  BY <1>1 DEF Tries
<1>3. CASE Abandon(Depth)
  BY <1>1, <1>2, <1>3, AbandonLoses
<1>4. CASE stack' = Below /\ UNCHANGED <<cursor, answer, kept, dropped>>
  <2>1. SameTries(stack, stack') /\ ~AtLoop(stack')
    <3>1. Depth # 1
      BY <1>1, Basics
    <3> QED BY <1>1, <1>4, <3>1, BelowLoses
  <2>2. index' = index /\ kept' = kept
        /\ UNCHANGED <<request, chunkIndex, joined, dropped, answer>>
    BY <1>1, <1>4 DEF cursor
  <2> QED BY <1>1, <2>1, <2>2, StaysInChunk
<1> QED BY <1>3, <1>4 DEF EndSpeculation

LEMMA RoutineEndsLoses ==
  ASSUME Inv, LossInv, RoutineEnds
  PROVE  LossInv'
<1>1. /\ outcome = "running" /\ errors' = errors
      /\ UNCHANGED <<request, chunkIndex, joined, dropped, answer>>
      /\ index' = index + 1 /\ kept' = kept \cup {<<chunkIndex, index + 1>>}
  BY DEF RoutineEnds, Running, Advance, reports
<1>2. SameTries(stack, stack') /\ ~AtLoop(stack')
  BY RoutineIsDeep, BelowLoses DEF RoutineEnds
<1> QED BY <1>1, <1>2, StaysInChunk

LEMMA RoutineStatementLoses ==
  ASSUME Inv, LossInv, RoutineStatement
  PROVE  LossInv'
<1> DEFINE f == Statement(FALSE, chunkIndex, index)
<1>1. /\ outcome = "running" /\ stack' = Append(stack, f) /\ f.kind = "statement"
      /\ UNCHANGED <<request, chunkIndex, joined, dropped, answer>> /\ errors' = errors
      /\ index' = index /\ kept' = kept
  BY DEF RoutineStatement, Running, reports, cursor, Statement
<1> HIDE DEF f
<1>2. ~AtLoop(stack') /\ SameTries(stack, stack')
  BY <1>1, LossTypes, TopNotAtLoop, TriesReflexive, TriesPushed
<1> QED BY <1>1, <1>2, StaysInChunk

\* A routine body goes to the next chunk only when it has read the present one.
LEMMA RoutineChunkLoses ==
  ASSUME Inv, LossInv, RoutineChunk
  PROVE  LossInv'
<1>1. /\ outcome = "running" /\ stack # <<>> /\ stack' = stack /\ Top.kind = "routine"
      /\ UNCHANGED <<request, errors, joined, dropped, answer>>
      /\ chunkIndex' = chunkIndex + 1 /\ index' = 0 /\ kept' = kept /\ ~More
  BY DEF RoutineChunk, Running, AdvanceChunk, reports
<1>2. ~AtLoop(stack') /\ SameTries(stack, stack')
  BY <1>1, TriesReflexive DEF AtLoop, Top, Depth
<1>3. ChunkDone(chunks, joined, chunkIndex, index, 1)
  BY <1>1 DEF ChunkDone, More, Tokens
<1> QED BY <1>1, <1>2, <1>3, GoesToNextChunk

-----------------------------------------------------------------------------

LEMMA WithTopTries ==
  ASSUME Inv, stack # <<>>, NEW f \in Frames, f.kind # "try"
  PROVE  SameTries(stack, WithTop(f)) /\ WithTop(f) \in Seq(Frames)
<1>1. Depth - 1 \in 0 .. Len(stack)
  BY Basics DEF Depth
<1>2. SameTries(stack, Below) /\ Below \in Seq(Frames)
  BY <1>1, LossTypes, TriesPrefix DEF Below
<1> HIDE DEF Below
<1>3. SameTries(stack, Append(Below, f))
  BY <1>2, TriesPushed
<1> QED BY <1>2, <1>3 DEF WithTop

\* A batch in its loop has done with its chunk, unless an error was reported.
LEMMA LoopIsDone ==
  ASSUME Inv, LossInv, Running("batch"), Top.at = "loop", errors = <<>>
  PROVE  ChunkDone(chunks, joined, chunkIndex, index, Depth)
BY DEF LossInv, Running, AtLoop, Top, Depth

LEMMA TakeEndLoses ==
  ASSUME Inv, LossInv, TakeEnd
  PROVE  LossInv'
<1> DEFINE f == [Top EXCEPT !.out = Append(@, "end")]
<1>1. outcome = "running" /\ Running("batch") /\ Top \in BatchFrames /\ Top.at = "loop"
      /\ stack # <<>>
  BY Basics, FrameKinds DEF TakeEnd, Running
<1>2. f \in Frames /\ f.kind = "batch" /\ stack' = WithTop(f)
  BY <1>1 DEF TakeEnd, BatchFrames, Slots, Frames
<1> HIDE DEF f
<1>3. /\ UNCHANGED <<request, errors, joined, dropped, answer>>
      /\ chunkIndex' = chunkIndex + 1
      /\ index' = 1 /\ kept' = kept \cup {<<chunkIndex + 1, 1>>}
  BY DEF TakeEnd, reports
<1>4. SameTries(stack, stack')
  BY <1>1, <1>2, WithTopTries
<1>5. ChunkDone(chunks, joined, chunkIndex', index', Len(stack'))
  <2>1. chunks[chunkIndex + 1] = <<"end">> /\ chunkIndex' = chunkIndex + 1 /\ index' = 1
    BY <1>3 DEF TakeEnd, OnlyEnd, NextTokens
  <2>2. ~(1 < Len(<<"end">>))
    OBVIOUS
  <2>3. ~(index' < Len(chunks[chunkIndex']))
    BY <2>1, <2>2
  <2> QED BY <2>3 DEF ChunkDone
<1> QED BY <1>1, <1>3, <1>4, <1>5, LoopIsDone, GoesToNextChunk

LEMMA ParseChunkLoses ==
  ASSUME Inv, LossInv, ParseChunk
  PROVE  LossInv'
<1> DEFINE f == [Top EXCEPT !.at = "statement"]
           g == Statement(NextTokens = <<>> /\ (Depth > 1 \/ call.into = 0), chunkIndex + 1, 0)
<1>1. outcome = "running" /\ Running("batch") /\ Top \in BatchFrames /\ Top.at = "loop"
      /\ stack # <<>>
  BY Basics, FrameKinds DEF ParseChunk, NextChunk, Running
<1>2. f \in Frames /\ f.kind = "batch" /\ g.kind = "statement"
  BY <1>1 DEF BatchFrames, Frames, Statement
<1>3. stack' = Append(WithTop(f), g)
  BY DEF ParseChunk
<1> HIDE DEF f, g
<1>4. /\ UNCHANGED <<request, errors, joined, dropped, answer>>
      /\ chunkIndex' = chunkIndex + 1 /\ index' = 0 /\ kept' = kept
  BY DEF ParseChunk, NextChunk, AdvanceChunk, reports
<1>5. SameTries(stack, stack') /\ ~AtLoop(stack')
  BY <1>1, <1>2, <1>3, WithTopTries, TriesPushed, TopNotAtLoop
<1> QED BY <1>1, <1>4, <1>5, LoopIsDone, GoesToNextChunk

\* What is lost is a token of some chunk.
LEMMA LostFacts ==
  ASSUME NEW lost \in Lost
  PROVE  /\ lost[1] \in 1 .. Len(chunks) /\ lost[2] \in 1 .. Len(chunks[lost[1]])
         /\ lost = <<lost[1], lost[2]>> /\ lost \notin kept
<1>1. lost \in (1 .. Len(chunks)) \X (1 .. Len(call.script)) /\ lost[2] =< Len(chunks[lost[1]])
      /\ lost \notin kept
  BY DEF Lost
<1>2. lost[2] \in Nat /\ lost[2] >= 1
  BY <1>1
<1> QED BY <1>1, <1>2

\* The outermost loop stops before a chunk with ELSE: that and what follows is lost.
LEMMA StopAtElseLoses ==
  ASSUME Inv, LossInv, StopAtElse
  PROVE  LossInv'
<1>1. /\ outcome = "running" /\ Running("batch") /\ Top.at = "loop" /\ stack # <<>>
      /\ Top.kind = "batch" /\ BatchReturns(Top.out)
      /\ UNCHANGED <<request, errors, joined, dropped>>
      /\ chunkIndex' = chunkIndex + 1 /\ index' = 0 /\ kept' = kept
  BY DEF StopAtElse, NextChunk, AdvanceChunk, Running, reports
<1>2. CASE Depth # 1
  <2>1. stack' = Below /\ UNCHANGED answer
    BY <1>1, <1>2 DEF BatchReturns
  <2>2. SameTries(stack, stack') /\ ~AtLoop(stack')
    BY <1>1, <1>2, <2>1, BelowLoses
  <2> QED BY <1>1, <2>1, <2>2, LoopIsDone, GoesToNextChunk
<1>3. CASE Depth = 1
  <2>1. outcome' = "returned" /\ chunks' = chunks /\ Lost' = Lost
    BY <1>1, <1>3 DEF BatchReturns, request, Lost
  <2>2. ASSUME errors' = <<>>, NEW lost \in Lost
        PROVE  \/ lost[1] \in joined' /\ lost[1] < chunkIndex'
               \/ lost[1] \in dropped'
               \/ lost[1] >= chunkIndex' /\ index' = 0 /\ Curr' = "else"
    <3>1. errors = <<>> /\ ChunkDone(chunks, joined, chunkIndex, index, Depth)
      BY <1>1, <2>2, LoopIsDone
    <3>2. Accounted(chunks, dropped', joined', chunkIndex', index', kept')
      BY <1>1, <3>1, NextChunkIsReached
    <3>3. CASE lost[1] < chunkIndex'
      BY <1>1, <3>2, <3>3, LostFacts DEF Accounted
    <3>4. CASE ~(lost[1] < chunkIndex')
      <4>1. lost[1] >= chunkIndex'
        BY <1>1, <3>4, LostFacts, LossTypes
      <4>2. Curr' = "else"
        <5>1. chunks[chunkIndex + 1] # <<>> /\ chunks[chunkIndex + 1][1] = "else"
              /\ chunkIndex + 1 \in 1 .. Len(chunks)
          BY LossTypes DEF StopAtElse, NextChunk, ChunksLeft, StartsWith, NextTokens
        <5>2. chunkIndex + 1 # 0 /\ chunks[chunkIndex + 1] \in Seq(TokenKinds)
          BY <5>1, LossTypes
        <5>3. 0 < Len(chunks[chunkIndex + 1])
          BY <5>1, <5>2
        <5>4. Tokens' = chunks[chunkIndex + 1] /\ index' = 0
          BY <1>1, <2>1, <5>2 DEF Tokens
        <5>5. More' /\ index' + 1 = 1
          BY <5>3, <5>4 DEF More
        <5> QED BY <5>1, <5>4, <5>5 DEF Curr
      <4> QED BY <1>1, <4>1, <4>2
    <3> QED BY <3>3, <3>4
  <2>3. LossesKnown'
    BY <2>1, <2>2 DEF LossesKnown
  <2> QED BY <2>1, <2>3 DEF LossInv
<1> QED BY <1>2, <1>3

\* The outermost loop ends behind the last chunk, with which it is done.
LEMMA ChunksEndLoses ==
  ASSUME Inv, LossInv, ChunksEnd
  PROVE  LossInv'
<1>1. /\ outcome = "running" /\ Running("batch") /\ Top.at = "loop" /\ stack # <<>>
      /\ Top.kind = "batch" /\ BatchReturns(Top.out) /\ ~ChunksLeft
      /\ UNCHANGED <<request, chunkIndex, joined, dropped>> /\ errors' = errors
      /\ index' = index /\ kept' = kept
  BY DEF ChunksEnd, Running, reports, cursor
<1>2. CASE Depth # 1
  <2>1. stack' = Below /\ UNCHANGED answer
    BY <1>1, <1>2 DEF BatchReturns
  <2>2. SameTries(stack, stack') /\ ~AtLoop(stack')
    BY <1>1, <1>2, <2>1, BelowLoses
  <2> QED BY <1>1, <2>1, <2>2, StaysInChunk
<1>3. CASE Depth = 1
  <2>1. outcome' = "returned" /\ chunks' = chunks /\ Lost' = Lost
    BY <1>1, <1>3 DEF BatchReturns, request, Lost
  <2>2. ASSUME errors' = <<>>, NEW lost \in Lost
        PROVE  \/ lost[1] \in joined' /\ lost[1] < chunkIndex'
               \/ lost[1] \in dropped'
    <3>1. errors = <<>> /\ ChunkDone(chunks, joined, chunkIndex, index, Depth)
          /\ Accounted(chunks, dropped, joined, chunkIndex, index, kept)
      BY <1>1, <2>2, LoopIsDone DEF LossInv
    <3>2. lost[1] \in 1 .. Len(chunks) /\ lost[2] \in 1 .. Len(chunks[lost[1]])
          /\ <<lost[1], lost[2]>> \notin kept /\ chunkIndex \in Nat /\ index \in Nat
          /\ Len(chunks[lost[1]]) \in Nat /\ Len(chunks) \in Nat
      <4>1. /\ lost[1] \in 1 .. Len(chunks) /\ lost[2] \in 1 .. Len(chunks[lost[1]])
            /\ lost = <<lost[1], lost[2]>> /\ lost \notin kept
        BY LostFacts
      <4>2. Len(chunks) \in Nat /\ Len(chunks[lost[1]]) \in Nat
        BY <4>1, LossTypes
      <4> QED BY <4>1, <4>2, LossTypes
    <3>3. lost[1] < chunkIndex \/ lost[1] = chunkIndex
      BY <1>1, <3>2 DEF ChunksLeft
    <3>4. CASE lost[1] < chunkIndex
      BY <1>1, <3>1, <3>2, <3>4 DEF Accounted
    <3>5. CASE lost[1] = chunkIndex
      <4>1. chunkIndex # 0 /\ ~(1 > 1)
        BY <3>2, <3>5
      <4>2. ~(index < Len(chunks[lost[1]]))
        BY <1>3, <3>1, <3>5, <4>1 DEF ChunkDone
      <4>3. lost[2] =< index /\ ~(lost[1] < chunkIndex)
        BY <3>2, <3>5, <4>2
      <4> QED BY <1>1, <3>1, <3>2, <3>5, <4>3 DEF Accounted
    <3> QED BY <3>3, <3>4, <3>5
  <2>3. LossesKnown'
    BY <2>1, <2>2 DEF LossesKnown
  <2> QED BY <2>1, <2>3 DEF LossInv
<1> QED BY <1>2, <1>3

\* A batch that takes a slot.
LEMMA SlotTries ==
  ASSUME Inv, Running("statement"), stack[Depth - 1].kind = "batch", NEW f, f.kind = "batch"
  PROVE  SameTries(stack, Append(SubSeq(stack, 1, Depth - 2), f))
<1>1. Depth - 2 \in 0 .. Len(stack)
  BY Basics, Caller DEF Depth
<1> QED BY <1>1, LossTypes, TriesPrefix, TriesPushed

\* The chunk in which the first statement of a block ended is known as joined.
LEMMA JoinFirstLoses ==
  ASSUME Inv, LossInv, Running("statement"), stack[Depth - 1].kind = "batch",
         stack[Depth - 1].at = "first", NEW slot \in Slots, JoinFirst(slot),
         UNCHANGED request
  PROVE  LossInv'
<1> DEFINE f == [stack[Depth - 1] EXCEPT !.at = "loop", !.out = Append(@, slot)]
<1>1. Depth \in Nat /\ Depth >= 2 /\ outcome = "running" /\ stack # <<>>
      /\ stack[Depth - 1] \in BatchFrames
  BY Basics, Caller DEF Running, RoutineFrames
<1>2. Depth - 1 # 1
  BY <1>1, Basics
<1>3. /\ stack' = Append(SubSeq(stack, 1, Depth - 2), f)
      /\ joined' = joined \cup {chunkIndex} /\ errors' = errors
      /\ chunkIndex' = chunkIndex /\ index' = index /\ kept' = kept /\ dropped' = dropped
      /\ outcome' = outcome
  BY DEF JoinFirst, cursor, reports, answer
<1>4. Len(stack') = Depth - 1
  BY SlotTaken DEF JoinFirst
<1>5. f.kind = "batch"
  BY <1>1 DEF BatchFrames
<1> HIDE DEF f
<1>6. SameTries(stack, stack')
  BY <1>3, <1>5, SlotTries
<1>7. ASSUME errors = <<>>
      PROVE  /\ Accounted(chunks, dropped', joined', chunkIndex', index', kept')
             /\ TriesAccounted(chunks, dropped', joined', chunkIndex', stack')
  <2>1. /\ Accounted(chunks, dropped, joined, chunkIndex, index, kept)
        /\ TriesAccounted(chunks, dropped, joined, chunkIndex, stack)
    BY <1>1, <1>7 DEF LossInv
  <2>2. dropped \subseteq dropped' /\ joined \subseteq joined' /\ kept \subseteq kept'
        /\ chunkIndex =< chunkIndex' /\ chunkIndex' \in Nat
    BY <1>3, LossTypes
  <2>3. Accounted(chunks, dropped', joined', chunkIndex', index', kept')
    BY <1>3, <2>1, <2>2, AccountedGrows
  <2>4. TriesAccounted(chunks, dropped', joined', chunkIndex', stack')
    BY <1>6, <2>1, <2>2, LossTypes, TriesStay
  <2> QED BY <2>3, <2>4
<1>8. ChunkDone(chunks, joined', chunkIndex', index', Len(stack'))
  <2>1. Len(stack') > 1 /\ chunkIndex' \in joined'
    BY <1>1, <1>2, <1>3, <1>4
  <2> QED BY <2>1 DEF ChunkDone
<1> QED BY <1>1, <1>3, <1>7, <1>8, RunsOn

\* A batch goes on behind a statement without an error only at the chunk's end.
LEMMA CheckStatementLoses ==
  ASSUME Inv, LossInv, Running("statement"), stack[Depth - 1].kind = "batch",
         NEW slot \in Slots, CheckStatement(slot), UNCHANGED <<request, joined>>
  PROVE  LossInv'
<1> DEFINE found == IF More THEN Append(errors, chunkIndex) ELSE errors
           f == [stack[Depth - 1] EXCEPT !.at = "loop", !.out = Append(@, slot)]
<1>1. outcome = "running" /\ stack[Depth - 1] \in BatchFrames
  BY Basics, Caller DEF Running, RoutineFrames
<1>2. found = <<>> => ~More /\ errors = <<>>
  BY Types
<1>3. CASE More /\ errorLevel = "immediate"
  <2>1. Throw /\ errors' = errors
    BY <1>3 DEF CheckStatement, reports
  <2> HIDE DEF found
  <2> QED BY <1>1, <2>1, ThrowLoses
<1>4. CASE ~(More /\ errorLevel = "immediate") /\ errorLevel = "raise" /\ found # <<>>
  <2>1. Throw /\ errors' = found
    BY <1>4 DEF CheckStatement
  <2> HIDE DEF found
  <2> QED BY <1>1, <1>2, <1>4, <2>1, ThrowLoses
<1>5. CASE ~(More /\ errorLevel = "immediate") /\ ~(errorLevel = "raise" /\ found # <<>>)
  <2>1. /\ stack' = Append(SubSeq(stack, 1, Depth - 2), f)
        /\ UNCHANGED <<cursor, errorLevel, answer, kept, dropped>>
        /\ errors' = found
    BY <1>5 DEF CheckStatement
  <2>2. f.kind = "batch"
    BY <1>1 DEF BatchFrames
  <2> HIDE DEF found, f
  <2>3. SameTries(stack, stack')
    BY <2>1, <2>2, SlotTries
  <2>4. ASSUME errors' = <<>>
        PROVE  ChunkDone(chunks, joined, chunkIndex, index, Len(stack'))
    BY <1>2, <2>1, <2>4 DEF ChunkDone, More, Tokens
  <2>5. index' = index /\ kept' = kept
        /\ UNCHANGED <<request, chunkIndex, joined, dropped, answer>>
    BY <2>1 DEF cursor
  <2> QED BY <1>1, <1>2, <2>1, <2>3, <2>4, <2>5, StaysInChunk
<1> QED BY <1>3, <1>4, <1>5

\* With a routine for a caller, the statement or the routine as well is gone.
LEMMA RoutineReturnsLoses ==
  ASSUME Inv, LossInv, Running("statement"), stack[Depth - 1].kind = "routine",
         NEW n \in {Depth - 2, Depth - 1}, stack' = SubSeq(stack, 1, n),
         UNCHANGED <<request, cursor, errorLevel, reports, answer, kept, joined, dropped>>
  PROVE  LossInv'
<1>1. Depth \in Nat /\ Depth >= 4 /\ outcome = "running" /\ Depth = Len(stack)
  BY Basics, Caller DEF Running, Depth
<1>2. n \in 0 .. Len(stack) /\ n \in 1 .. n /\ n \in 1 .. Depth - 1
  BY <1>1
<1>3. SameTries(stack, stack')
  BY <1>2, LossTypes, TriesPrefix
<1>4. ~AtLoop(stack')
  <2>1. CASE n = Depth - 2
    <3>1. n + 1 = Depth - 1
      BY <1>1, <2>1
    <3> QED BY <1>2, <3>1, NotAtLoop
  <2>2. CASE n = Depth - 1
    <3>1. Len(SubSeq(stack, 1, n)) = n /\ SubSeq(stack, 1, n)[n] = stack[n]
      BY <1>2, PrefixOK, Types
    <3> QED BY <2>2, <3>1 DEF AtLoop
  <2> QED BY <2>1, <2>2
<1>5. /\ UNCHANGED <<request, chunkIndex, joined, dropped, answer>>
      /\ index' = index /\ kept' = kept /\ errors' = errors
  BY DEF cursor, reports
<1> QED BY <1>1, <1>3, <1>4, <1>5, StaysInChunk

LEMMA EndStatementLoses ==
  ASSUME Inv, LossInv, EndStatement
  PROVE  LossInv'
<1> DEFINE slot == IF cursor = <<Top.chunk, Top.index>> THEN "null" ELSE "tree"
           caller == stack[Depth - 1]
<1>1. Running("statement") /\ UNCHANGED request /\ slot \in Slots
  BY DEF EndStatement, Slots
<1>2. caller \in BatchFrames \cup RoutineFrames
  BY <1>1, Caller
<1>3. CASE caller.kind = "routine"
  <2> DEFINE n == IF slot = "null" THEN Depth - 2 ELSE Depth - 1
  <2>1. /\ stack' = SubSeq(stack, 1, n)
        /\ UNCHANGED <<cursor, errorLevel, reports, answer, kept, joined, dropped>>
    BY <1>3 DEF EndStatement
  <2>2. n \in {Depth - 2, Depth - 1}
    OBVIOUS
  <2> HIDE DEF n, slot
  <2> QED BY <1>1, <1>3, <2>1, <2>2, RoutineReturnsLoses
<1>4. CASE caller.kind = "batch" /\ caller.at = "first"
  <2>1. JoinFirst(slot)
    BY <1>4 DEF EndStatement
  <2> HIDE DEF slot
  <2> QED BY <1>1, <1>4, <2>1, JoinFirstLoses
<1>5. CASE caller.kind = "batch" /\ caller.at # "first"
  <2>1. CheckStatement(slot) /\ UNCHANGED joined
    BY <1>5 DEF EndStatement
  <2> HIDE DEF slot
  <2> QED BY <1>1, <1>5, <2>1, CheckStatementLoses
<1>6. caller.kind = "batch" \/ caller.kind = "routine"
  BY <1>2 DEF BatchFrames, RoutineFrames
<1> QED BY <1>3, <1>4, <1>5, <1>6

\* Before the first chunk there is nothing to account for.
LEMMA StartLoses ==
  ASSUME NEW cs \in Seq(Seq(TokenKinds))
  PROVE  /\ Accounted(cs, {}, {}, 0, 0, {})
         /\ TriesAccounted(cs, {}, {}, 0, <<Batch("loop")>>)
         /\ ChunkDone(cs, {}, 0, 0, 1)
<1>1. \A a \in 1 .. Len(cs) : ~(a < 0) /\ a # 0
  OBVIOUS
<1>2. Len(<<Batch("loop")>>) = 1 /\ <<Batch("loop")>>[1].kind = "batch"
  BY DEF Batch
<1>3. \A k \in 1 .. 1 : k = 1
  OBVIOUS
<1> QED BY <1>1, <1>2, <1>3 DEF Accounted, TriesAccounted, ChunkDone

LEMMA InitLoses ==
  ASSUME Init
  PROVE  LossInv
<1>1. Inv
  BY InitInv
<1>2. /\ chunkIndex = 0 /\ index = 0 /\ kept = {} /\ joined = {} /\ dropped = {}
      /\ stack = <<Batch("loop")>> /\ outcome = "running"
  BY DEF Init
<1>3. Accounted(chunks, {}, {}, 0, 0, {}) /\ TriesAccounted(chunks, {}, {}, 0, <<Batch("loop")>>)
      /\ ChunkDone(chunks, {}, 0, 0, Depth)
  BY <1>1, LossTypes, StartLoses DEF ChunkDone
<1> QED BY <1>2, <1>3 DEF LossInv, LossesKnown

LEMMA NextMethodLoses ==
  ASSUME Inv, LossInv, NextMethod
  PROVE  LossInv'
<1>1. /\ chunkIndex' = 0 /\ index' = 0 /\ kept' = {} /\ joined' = {} /\ dropped' = {}
      /\ stack' = <<Batch("loop")>> /\ outcome' = "running" /\ chunks' = chunks
  BY DEF NextMethod
<1>2. Accounted(chunks, {}, {}, 0, 0, {}) /\ TriesAccounted(chunks, {}, {}, 0, <<Batch("loop")>>)
      /\ \A depth : ChunkDone(chunks, {}, 0, 0, depth)
  BY LossTypes, StartLoses DEF ChunkDone
<1>3. LossesKnown'
  BY <1>1 DEF LossesKnown
<1> QED BY <1>1, <1>2, <1>3 DEF LossInv

LEMMA GoWrongLoses ==
  ASSUME Inv, LossInv, GoWrong
  PROVE  LossInv'
<1>1. outcome' = "crashed" /\ UNCHANGED request
  BY DEF GoWrong
<1> QED BY <1>1, RunsOn

LEMMA NextLoses ==
  ASSUME Inv, LossInv, [Next]_vars
  PROVE  LossInv'
<1>1. CASE UNCHANGED vars
  BY <1>1 DEF vars, LossInv, LossesKnown, Lost, Curr, More, Tokens, Depth
<1>2. CASE Next
  BY <1>2, FirstStatementLoses, StopAtElseLoses, TakeEndLoses, ParseChunkLoses,
     ChunksEndLoses, TakesToken, ReportErrorLoses, OpenBlockLoses, GoWrongLoses,
     NextMethodLoses, SpeculateLoses, EndSpeculationLoses, OpenRoutineLoses,
     EndStatementLoses, RoutineEndsLoses, RoutineChunkLoses, RoutineUnfinishedLoses,
     RoutineStatementLoses DEF Next
<1> QED BY <1>1, <1>2

\* A parse that returns without an error holds every token of the script in its
\* trees, but for the chunks that are known to be lost: whatever the script, the
\* grammar and the nesting (_parse_batch_statements, _try_parse, _parse_block).
THEOREM NoTokenIsLost == Spec => []LossesKnown
<1>1. Init => LossInv
  BY InitLoses
<1>2. Inv /\ LossInv /\ [Next]_vars => LossInv'
  BY NextLoses
<1>3. LossInv => LossesKnown
  BY DEF LossInv
<1> QED BY <1>1, <1>2, <1>3, AlwaysInv, PTL DEF Spec
-----------------------------------------------------------------------------
(* One slot for each statement of a plain script                           *)

\* A script of plain statements, for a request that opens no body.
Plain(c, cs) == c.opens = {} /\ \A k \in 1 .. Len(cs) : cs[k] # <<>> => cs[k][1] # "else"

\* Without an error, exactly the empty chunks have given a null slot so far.
Slotted(c, cs, found, out) ==
    c.into = 0 /\ found = <<>> => \A k \in 1 .. Len(out) : out[k] = "null" <=> cs[k] = <<>>

\* The outermost batch has a slot for each chunk before the one it is in, whose
\* statement, if it runs, is the frame above; that has begun with the chunk.
InLoop(s, i) == Len(s) = 1 /\ s[1].at = "loop" /\ Len(s[1].out) = i
InStatement(c, cs, s, i, at) ==
    /\ Len(s) > 1 /\ s[1].at = "statement" /\ Len(s[1].out) + 1 = i
    /\ \A k \in 2 .. Len(s) : s[k].kind \in {"statement", "try"}
    /\ s[2].chunk = i /\ s[2].index = 0
    /\ c.into = 0 => (s[2].empty <=> cs[i] = <<>>)
    /\ s[2].empty => Len(s) = 2 /\ at = 0

PlainInv ==
    Plain(call, chunks) =>
        /\ outcome = "running" =>
              /\ chunkIndex =< Len(chunks)
              /\ InLoop(stack, chunkIndex) \/ InStatement(call, chunks, stack, chunkIndex, index)
              /\ Slotted(call, chunks, errors, stack[1].out)
        /\ outcome = "returned" =>
              Len(result) = Len(chunks) /\ Slotted(call, chunks, errors, result)

LEMMA Appended ==
  ASSUME NEW X, NEW seq \in Seq(X), NEW x \in X
  PROVE  /\ Append(seq, x) \in Seq(X) /\ Append(seq, x) # <<>>
         /\ Len(Append(seq, x)) = Len(seq) + 1
         /\ \A k \in 1 .. Len(seq) : Append(seq, x)[k] = seq[k]
         /\ Append(seq, x)[Len(seq) + 1] = x
OBVIOUS

\* What stays of the stack while a statement of the outermost batch runs.
SameBottom(s, t) ==
    /\ Len(t) > 1 /\ t[1] = s[1]
    /\ \A k \in 2 .. Len(t) : t[k].kind \in {"statement", "try"}
    /\ t[2].chunk = s[2].chunk /\ t[2].index = s[2].index /\ t[2].empty = s[2].empty

LEMMA PlainStack ==
  ASSUME Inv, PlainInv, Plain(call, chunks), outcome = "running"
  PROVE  /\ stack \in Seq(Frames) /\ stack # <<>> /\ Depth = Len(stack) /\ Depth \in Nat
         /\ chunkIndex \in Nat /\ index \in Nat /\ chunkIndex =< Len(chunks)
         /\ InLoop(stack, chunkIndex) \/ InStatement(call, chunks, stack, chunkIndex, index)
         /\ Depth = 1 \/ Depth > 1
         /\ Depth = 1 => InLoop(stack, chunkIndex) /\ Top = stack[1] /\ Top.kind = "batch"
         /\ Depth > 1 => /\ InStatement(call, chunks, stack, chunkIndex, index)
                         /\ Top.kind \in {"statement", "try"}
<1>1. /\ stack \in Seq(Frames) /\ stack # <<>> /\ Depth \in Nat /\ Depth >= 1
      /\ stack[Depth] = Top /\ stack[1].kind = "batch" /\ Depth = Len(stack)
  BY Basics DEF Inv, Depth
<1>2. chunkIndex \in Nat /\ index \in Nat
  BY Types
<1>3. /\ chunkIndex =< Len(chunks)
      /\ InLoop(stack, chunkIndex) \/ InStatement(call, chunks, stack, chunkIndex, index)
  BY DEF PlainInv
<1>4. Depth = 1 => InLoop(stack, chunkIndex) /\ Top = stack[1]
  BY <1>1, <1>3 DEF InStatement
<1>5. ASSUME Depth > 1
      PROVE  InStatement(call, chunks, stack, chunkIndex, index) /\ Top.kind \in {"statement", "try"}
  <2>1. InStatement(call, chunks, stack, chunkIndex, index)
    BY <1>1, <1>3, <1>5 DEF InLoop
  <2>2. Depth \in 2 .. Len(stack)
    BY <1>1, <1>5
  <2> QED BY <1>1, <2>1, <2>2 DEF InStatement
<1> QED BY <1>1, <1>2, <1>3, <1>4, <1>5

\* A statement that produces anything is not the one of an empty chunk.
LEMMA PlainProduces ==
  ASSUME Inv, PlainInv, Plain(call, chunks), outcome = "running",
         \/ Producing
         \/ Tries(stack) # {}
  PROVE  /\ InStatement(call, chunks, stack, chunkIndex, index) /\ ~stack[2].empty
         /\ Depth > 1
<1>1. CASE Producing
  <2>1. Depth > 1
    BY <1>1, PlainStack DEF Producing
  <2>2. CASE Depth = 2
    <3>1. Top = stack[2]
      BY <2>2 DEF Top
    <3>2. Top.kind # "try"
      <4>0. Depth = Len(stack)
        BY DEF Depth
      <4>1. 2 \in 1 .. Len(stack) /\ 2 \notin 3 .. Depth
        BY <2>2, <4>0
      <4>2. 2 \notin Tries(stack)
        BY <4>1, TriesAreDeep
      <4> QED BY <3>1, <4>1, <4>2 DEF Tries
    <3> QED BY <1>1, <2>1, <3>1, <3>2, PlainStack DEF Producing
  <2>3. CASE Depth # 2
    BY <2>1, <2>3, PlainStack DEF InStatement
  <2> QED BY <2>1, <2>2, <2>3, PlainStack
<1>2. CASE Tries(stack) # {}
  <2>1. Depth > 2
    BY <1>2, TriesAreDeep, PlainStack
  <2>2. Len(stack) # 2 /\ Depth > 1
    BY <2>1, PlainStack
  <2> QED BY <2>2, PlainStack DEF InStatement
<1> QED BY <1>1, <1>2

\* A step of the running statement.
LEMMA PlainGoesOn ==
  ASSUME Inv, PlainInv, outcome = "running", UNCHANGED request, UNCHANGED answer,
         chunkIndex' = chunkIndex, errors' = <<>> => errors = <<>>,
         Plain(call, chunks) =>
            /\ SameBottom(stack, stack')
            /\ InStatement(call, chunks, stack, chunkIndex, index) /\ ~stack[2].empty
  PROVE  PlainInv'
<1>1. call' = call /\ chunks' = chunks /\ outcome' = "running"
  BY DEF request, answer
<1>2. ASSUME Plain(call, chunks)
      PROVE  /\ chunkIndex' =< Len(chunks)
             /\ InStatement(call, chunks, stack', chunkIndex', index')
             /\ Slotted(call, chunks, errors', stack'[1].out)
  <2>1. /\ SameBottom(stack, stack')
        /\ InStatement(call, chunks, stack, chunkIndex, index) /\ ~stack[2].empty
        /\ chunkIndex =< Len(chunks) /\ Slotted(call, chunks, errors, stack[1].out)
    BY <1>2 DEF PlainInv
  <2>2. InStatement(call, chunks, stack', chunkIndex', index')
    BY <2>1 DEF InStatement, SameBottom
  <2>3. Slotted(call, chunks, errors', stack'[1].out)
    BY <2>1 DEF Slotted, SameBottom
  <2> QED BY <2>1, <2>2, <2>3
<1> QED BY <1>1, <1>2 DEF PlainInv

\* A parse that is thrown out of, or crashes, promises nothing.
LEMMA PlainStops ==
  ASSUME outcome' \notin {"running", "returned"}
  PROVE  PlainInv'
BY DEF PlainInv

LEMMA BottomOfPrefix ==
  ASSUME NEW s \in Seq(Frames), NEW n \in 2 .. Len(s),
         \A k \in 2 .. Len(s) : s[k].kind \in {"statement", "try"}
  PROVE  SameBottom(s, SubSeq(s, 1, n)) /\ SubSeq(s, 1, n) \in Seq(Frames)
<1>1. /\ SubSeq(s, 1, n) \in Seq(Frames) /\ Len(SubSeq(s, 1, n)) = n
      /\ \A k \in 1 .. n : SubSeq(s, 1, n)[k] = s[k] /\ k \in 1 .. Len(s)
      /\ n > 1 /\ 1 \in 1 .. n /\ 2 \in 1 .. n
      /\ \A k \in 2 .. n : k \in 1 .. n /\ k \in 2 .. Len(s)
  OBVIOUS
<1> QED BY <1>1 DEF SameBottom

LEMMA BottomReflexive ==
  ASSUME NEW c, NEW cs, NEW s, NEW i, NEW at, InStatement(c, cs, s, i, at)
  PROVE  SameBottom(s, s)
BY DEF SameBottom, InStatement

LEMMA BottomPushed ==
  ASSUME NEW s, NEW t \in Seq(Frames), SameBottom(s, t), NEW f, f.kind = "try"
  PROVE  SameBottom(s, Append(t, f))
<1>1. /\ Len(Append(t, f)) = Len(t) + 1 /\ Len(t) \in Nat
      /\ \A k \in 1 .. Len(t) : Append(t, f)[k] = t[k]
      /\ Append(t, f)[Len(t) + 1] = f
  OBVIOUS
<1>2. Len(t) > 1 /\ 1 \in 1 .. Len(t) /\ 2 \in 1 .. Len(t)
  BY <1>1 DEF SameBottom
<1>3. \A k \in 2 .. Len(t) + 1 : k = Len(t) + 1 \/ (k \in 2 .. Len(t) /\ k \in 1 .. Len(t))
  BY <1>1
<1> QED BY <1>1, <1>2, <1>3 DEF SameBottom

LEMMA BottomCalled ==
  ASSUME Inv, Calling, NEW c, NEW cs, NEW i, NEW at, InStatement(c, cs, stack, i, at)
  PROVE  SameBottom(stack, Called) /\ Called \in Seq(Frames)
<1>1. Called \in Seq(Frames) /\ Len(Called) = Depth
  BY CalledOK DEF StackOK
<1>2. Top \in Frames /\ Top.kind \in {"statement", "try"} /\ stack[Depth] = Top
      /\ Depth \in Nat /\ stack \in Seq(Frames) /\ Depth > 1 /\ Depth = Len(stack)
  BY Basics DEF Calling, Producing, InStatement, Depth
<1> DEFINE f == [Top EXCEPT !.calls = @ + 1]
<1>3. /\ f.kind = Top.kind /\ f.chunk = Top.chunk /\ f.index = Top.index
      /\ Top.kind = "statement" => f.empty = Top.empty
  <2>1. CASE Top.kind = "statement"
    BY <1>2, <2>1, FrameKinds DEF StatementFrames
  <2>2. CASE Top.kind = "try"
    BY <1>2, <2>2, FrameKinds DEF TryFrames
  <2> QED BY <1>2, <2>1, <2>2
<1> HIDE DEF f
<1>4. \A k \in 1 .. Depth : Called[k] = IF k = Depth THEN f ELSE stack[k]
  <2> DEFINE b == SubSeq(stack, 1, Depth - 1)
  <2>1. Called = Append(b, f)
    BY DEF Called, WithTop, Below, f
  <2>2. b \in Seq(Frames) /\ Len(b) = Depth - 1 /\ \A k \in 1 .. Depth - 1 : b[k] = stack[k]
    <3>1. Depth - 1 \in 0 .. Len(stack)
      BY <1>2
    <3> QED BY <1>2, <3>1, PrefixOK, Types DEF StackOK
  <2> HIDE DEF b
  <2>3. \A k \in 1 .. Depth : Append(b, f)[k] = IF k = Depth THEN f ELSE b[k]
    BY <1>2, <2>2
  <2>4. \A k \in 1 .. Depth : k = Depth \/ k \in 1 .. Depth - 1
    BY <1>2
  <2> QED BY <2>1, <2>2, <2>3, <2>4
<1>5. 1 \in 1 .. Depth /\ 2 \in 1 .. Depth /\ 1 # Depth /\ 2 \in 2 .. Depth
      /\ \A k \in 2 .. Depth : k \in 1 .. Depth
  BY <1>2
<1>6. stack[2].kind = "statement"
  <2>1. (stack[2].kind = "statement") <=> (stack[2 - 1].kind \in {"batch", "routine"})
    BY <1>2, <1>5 DEF Inv, StackOK, WellNested
  <2>2. stack[1].kind = "batch" /\ 2 - 1 = 1
    BY <1>2, Basics DEF Calling, Producing
  <2> QED BY <2>1, <2>2
<1>7. \A k \in 2 .. Depth : Called[k].kind \in {"statement", "try"}
  BY <1>2, <1>3, <1>4, <1>5 DEF InStatement
<1>8. Called[1] = stack[1]
  BY <1>4, <1>5
<1>9. /\ Called[2].chunk = stack[2].chunk /\ Called[2].index = stack[2].index
      /\ Called[2].empty = stack[2].empty
  <2>1. CASE Depth = 2
    BY <1>2, <1>3, <1>4, <1>5, <1>6, <2>1
  <2>2. CASE Depth # 2
    BY <1>4, <1>5, <2>2
  <2> QED BY <2>1, <2>2
<1> QED BY <1>1, <1>2, <1>7, <1>8, <1>9 DEF SameBottom

-----------------------------------------------------------------------------
(* Its steps                                                               *)

LEMMA PlainAbandon ==
  ASSUME Inv, PlainInv, outcome = "running", NEW k \in Tries(stack), Abandon(k),
         UNCHANGED request, errors' = <<>> => errors = <<>>
  PROVE  PlainInv'
<1>1. stack' = SubSeq(stack, 1, k - 1) /\ UNCHANGED answer /\ chunkIndex' = chunkIndex
  BY DEF Abandon
<1>2. ASSUME Plain(call, chunks)
      PROVE  /\ SameBottom(stack, stack')
             /\ InStatement(call, chunks, stack, chunkIndex, index) /\ ~stack[2].empty
  <2>1. InStatement(call, chunks, stack, chunkIndex, index) /\ ~stack[2].empty
    BY <1>2, PlainProduces
  <2>2. k - 1 \in 2 .. Len(stack)
    BY <1>2, TriesAreDeep, PlainStack
  <2>3. stack \in Seq(Frames) /\ \A j \in 2 .. Len(stack) : stack[j].kind \in {"statement", "try"}
    BY <1>2, <2>1, PlainStack DEF InStatement
  <2> QED BY <1>1, <2>1, <2>2, <2>3, BottomOfPrefix
<1> QED BY <1>1, <1>2, PlainGoesOn

LEMMA PlainThrow ==
  ASSUME Inv, PlainInv, outcome = "running", Throw, UNCHANGED request,
         errors' = <<>> => errors = <<>>
  PROVE  PlainInv'
<1>1. CASE \E k \in Tries(stack) : Innermost(k) /\ Abandon(k)
  BY <1>1, PlainAbandon
<1>2. CASE outcome' = "thrown"
  BY <1>2, PlainStops
<1> QED BY <1>1, <1>2 DEF Throw

LEMMA PlainTakeToken ==
  ASSUME Inv, PlainInv, TakeToken
  PROVE  PlainInv'
<1>1. /\ Producing /\ outcome = "running" /\ stack' = stack /\ UNCHANGED request
      /\ UNCHANGED answer /\ chunkIndex' = chunkIndex /\ errors' = errors
  BY DEF TakeToken, Producing, reports
<1>2. ASSUME Plain(call, chunks)
      PROVE  /\ SameBottom(stack, stack')
             /\ InStatement(call, chunks, stack, chunkIndex, index) /\ ~stack[2].empty
  BY <1>1, <1>2, PlainProduces, BottomReflexive
<1> QED BY <1>1, <1>2, PlainGoesOn

LEMMA PlainSpeculate ==
  ASSUME Inv, PlainInv, NEW retreat \in BOOLEAN, Speculate(retreat)
  PROVE  PlainInv'
<1> DEFINE f == [kind |-> "try", chunk |-> chunkIndex, index |-> index,
                 level |-> errorLevel, retreat |-> retreat, kept |-> kept, calls |-> 0]
<1>1. f.kind = "try"
  OBVIOUS
<1>2. /\ stack' = Append(Called, f) /\ Calling /\ Producing /\ outcome = "running"
      /\ UNCHANGED request /\ UNCHANGED answer /\ errors' = errors /\ chunkIndex' = chunkIndex
  BY DEF Speculate, Calling, Producing, cursor, reports
<1> HIDE DEF f
<1>3. ASSUME Plain(call, chunks)
      PROVE  /\ SameBottom(stack, stack')
             /\ InStatement(call, chunks, stack, chunkIndex, index) /\ ~stack[2].empty
  <2>1. InStatement(call, chunks, stack, chunkIndex, index) /\ ~stack[2].empty
    BY <1>2, <1>3, PlainProduces
  <2>2. SameBottom(stack, Called) /\ Called \in Seq(Frames)
    BY <1>2, <2>1, BottomCalled
  <2>3. SameBottom(stack, Append(Called, f))
    BY <1>1, <2>2, BottomPushed
  <2> QED BY <1>2, <2>1, <2>3
<1> QED BY <1>2, <1>3, PlainGoesOn

LEMMA PlainReportError ==
  ASSUME Inv, PlainInv, ReportError
  PROVE  PlainInv'
<1>1. Calling /\ Producing /\ outcome = "running" /\ UNCHANGED request
  BY DEF ReportError, Calling, Producing
<1>2. CASE Throw /\ UNCHANGED errors
  BY <1>1, <1>2, PlainThrow
<1>3. CASE errors' = Append(errors, chunkIndex) /\ stack' = Called
           /\ UNCHANGED <<cursor, errorLevel, answer, kept, dropped>>
  <2>1. errors' # <<>> /\ chunkIndex' = chunkIndex /\ UNCHANGED answer
    BY <1>3, Types DEF cursor
  <2>2. ASSUME Plain(call, chunks)
        PROVE  /\ SameBottom(stack, stack')
               /\ InStatement(call, chunks, stack, chunkIndex, index) /\ ~stack[2].empty
    <3>1. InStatement(call, chunks, stack, chunkIndex, index) /\ ~stack[2].empty
      BY <1>1, <2>2, PlainProduces
    <3> QED BY <1>1, <1>3, <3>1, BottomCalled
  <2> QED BY <1>1, <2>1, <2>2, PlainGoesOn
<1> QED BY <1>2, <1>3 DEF ReportError, RaiseError

LEMMA PlainEndSpeculation ==
  ASSUME Inv, PlainInv, NEW found \in BOOLEAN, EndSpeculation(found)
  PROVE  PlainInv'
<1>1. /\ outcome = "running" /\ stack # <<>> /\ Top.kind = "try" /\ errors' = errors
      /\ UNCHANGED request /\ stack[Depth] = Top /\ Depth \in 1 .. Len(stack)
  BY Basics DEF EndSpeculation, Running, reports, Depth
<1>2. Depth \in Tries(stack)
  BY <1>1 DEF Tries
<1>3. CASE Abandon(Depth)
  BY <1>1, <1>2, <1>3, PlainAbandon
<1>4. CASE stack' = Below /\ UNCHANGED <<cursor, answer, kept, dropped>>
  <2>1. chunkIndex' = chunkIndex /\ UNCHANGED answer /\ stack' = SubSeq(stack, 1, Depth - 1)
    BY <1>4 DEF cursor, Below
  <2>2. ASSUME Plain(call, chunks)
        PROVE  /\ SameBottom(stack, stack')
               /\ InStatement(call, chunks, stack, chunkIndex, index) /\ ~stack[2].empty
    <3>1. InStatement(call, chunks, stack, chunkIndex, index) /\ ~stack[2].empty
      BY <1>1, <1>2, <2>2, PlainProduces
    <3>2. Depth - 1 \in 2 .. Len(stack)
      BY <1>1, <1>2, TriesAreDeep
    <3>3. stack \in Seq(Frames)
          /\ \A j \in 2 .. Len(stack) : stack[j].kind \in {"statement", "try"}
      BY <1>1, <2>2, <3>1, PlainStack DEF InStatement
    <3> QED BY <2>1, <3>1, <3>2, <3>3, BottomOfPrefix
  <2> QED BY <1>1, <2>1, <2>2, PlainGoesOn
<1> QED BY <1>3, <1>4 DEF EndSpeculation
-----------------------------------------------------------------------------
(* The outermost loop                                                      *)

LEMMA WithTopAtLoop ==
  ASSUME Inv, Depth = 1, NEW f \in Frames
  PROVE  WithTop(f) = <<f>> /\ WithTop(f) \in Seq(Frames)
<1>1. Below = <<>>
  BY Basics DEF Below, Depth
<1>2. Append(<<>>, f) = <<f>>
  OBVIOUS
<1>3. WithTop(f) = <<f>>
  BY <1>1, <1>2 DEF WithTop
<1> QED BY <1>3

\* A slot more, for the chunk that follows.
LEMMA SlottedMore ==
  ASSUME NEW c, NEW cs, NEW found, NEW more, more = <<>> => found = <<>>,
         NEW out \in Seq(Slots), Slotted(c, cs, found, out), NEW slot \in Slots,
         c.into = 0 /\ more = <<>> => (slot = "null" <=> cs[Len(out) + 1] = <<>>)
  PROVE  /\ Slotted(c, cs, more, Append(out, slot))
         /\ Len(Append(out, slot)) = Len(out) + 1
<1>1. /\ Len(Append(out, slot)) = Len(out) + 1
      /\ \A k \in 1 .. Len(out) + 1 :
           \/ k \in 1 .. Len(out) /\ Append(out, slot)[k] = out[k]
           \/ k = Len(out) + 1 /\ Append(out, slot)[k] = slot
  OBVIOUS
<1> QED BY <1>1 DEF Slotted

\* The batch of a plain script, and what it still waits for.
LEMMA PlainLoop ==
  ASSUME Inv, PlainInv, Plain(call, chunks), Running("batch")
  PROVE  /\ Depth = 1 /\ Top = stack[1] /\ Top \in BatchFrames /\ Top.at = "loop"
         /\ Len(Top.out) = chunkIndex /\ Top.out \in Seq(Slots)
         /\ Slotted(call, chunks, errors, Top.out) /\ stack = <<Top>>
         /\ chunkIndex \in Nat /\ chunkIndex =< Len(chunks)
         /\ ChunksLeft => chunkIndex + 1 \in 1 .. Len(chunks) /\ chunkIndex + 1 =< Len(chunks)
         /\ ~ChunksLeft => chunkIndex = Len(chunks)
<1>1. outcome = "running" /\ stack # <<>> /\ Top.kind = "batch"
  BY DEF Running
<1>2. Depth = 1 /\ Top = stack[1] /\ InLoop(stack, chunkIndex) /\ stack \in Seq(Frames)
      /\ chunkIndex \in Nat /\ chunkIndex =< Len(chunks) /\ Depth = Len(stack)
  BY <1>1, PlainStack
<1>3. Top \in BatchFrames
  BY <1>1, Basics, FrameKinds
<1>4. Top.at = "loop" /\ Len(Top.out) = chunkIndex /\ Top.out \in Seq(Slots)
  BY <1>2, <1>3 DEF InLoop, BatchFrames
<1>5. Slotted(call, chunks, errors, Top.out)
  BY <1>1, <1>2 DEF PlainInv
<1>6. stack = <<Top>>
  BY <1>2
<1>7. Len(chunks) \in Nat
  <2>1. chunks = Chunks(call.script) /\ call.script \in Seq(TokenKinds)
    BY Basics DEF Inv, TypeOK
  <2>2. chunks \in Seq(Seq(TokenKinds))
    BY <2>1, ChunksTyped
  <2> QED BY <2>2
<1>8. /\ ChunksLeft => chunkIndex + 1 \in 1 .. Len(chunks) /\ chunkIndex + 1 =< Len(chunks)
      /\ ~ChunksLeft => chunkIndex = Len(chunks)
  BY <1>2, <1>7 DEF ChunksLeft
<1> QED BY <1>2, <1>3, <1>4, <1>5, <1>6, <1>8

\* The batch goes on with a statement more, or with a slot more.
LEMMA PlainLoops ==
  ASSUME Inv, PlainInv, UNCHANGED request, outcome' = "running",
         Plain(call, chunks) =>
            /\ chunkIndex' =< Len(chunks)
            /\ \/ InLoop(stack', chunkIndex')
               \/ InStatement(call, chunks, stack', chunkIndex', index')
            /\ Slotted(call, chunks, errors', stack'[1].out)
  PROVE  PlainInv'
<1>1. call' = call /\ chunks' = chunks
  BY DEF request
<1> QED BY <1>1 DEF PlainInv

LEMMA PlainTakeEnd ==
  ASSUME Inv, PlainInv, TakeEnd
  PROVE  PlainInv'
<1> DEFINE f == [Top EXCEPT !.out = Append(@, "end")]
<1>1. /\ Running("batch") /\ outcome = "running" /\ outcome' = outcome /\ UNCHANGED request
      /\ errors' = errors /\ chunkIndex' = chunkIndex + 1 /\ stack' = WithTop(f)
      /\ ChunksLeft /\ NextTokens = <<"end">>
  BY DEF TakeEnd, Running, reports, answer, OnlyEnd
<1>2. ASSUME Plain(call, chunks)
      PROVE  /\ chunkIndex' =< Len(chunks)
             /\ InLoop(stack', chunkIndex')
             /\ Slotted(call, chunks, errors', stack'[1].out)
  <2>1. /\ Depth = 1 /\ Top \in BatchFrames /\ Top.at = "loop" /\ Len(Top.out) = chunkIndex
        /\ Top.out \in Seq(Slots) /\ Slotted(call, chunks, errors, Top.out)
        /\ chunkIndex + 1 =< Len(chunks)
    BY <1>1, <1>2, PlainLoop
  <2>2. f.at = "loop" /\ f.out = Append(Top.out, "end") /\ f \in Frames
    <3>1. f.at = "loop" /\ f.out = Append(Top.out, "end")
      BY <2>1 DEF BatchFrames
    <3>2. Append(Top.out, "end") \in Seq(Slots)
      BY <2>1 DEF Slots
    <3>3. f \in BatchFrames
      BY <2>1, <3>2 DEF BatchFrames
    <3> QED BY <3>1, <3>3 DEF Frames
  <2>3. chunks[Len(Top.out) + 1] # <<>>
    <3>1. <<"end">> # <<>>
      OBVIOUS
    <3>2. NextTokens = chunks[Len(Top.out) + 1]
      BY <2>1 DEF NextTokens
    <3> QED BY <1>1, <3>1, <3>2
  <2>4. /\ Slotted(call, chunks, errors', Append(Top.out, "end"))
        /\ Len(Append(Top.out, "end")) = Len(Top.out) + 1
    <3>1. "end" \in Slots /\ "end" # "null"
      BY DEF Slots
    <3> QED BY <1>1, <2>1, <2>3, <3>1, SlottedMore
  <2> HIDE DEF f
  <2>5. stack' = <<f>>
    BY <1>1, <2>1, <2>2, WithTopAtLoop
  <2>6. Len(stack') = 1 /\ stack'[1] = f
    BY <2>5
  <2> QED BY <1>1, <2>1, <2>2, <2>4, <2>6 DEF InLoop
<1> QED BY <1>1, <1>2, PlainLoops

LEMMA PlainParseChunk ==
  ASSUME Inv, PlainInv, ParseChunk
  PROVE  PlainInv'
<1> DEFINE f == [Top EXCEPT !.at = "statement"]
           empty == NextTokens = <<>> /\ (Depth > 1 \/ call.into = 0)
           g == Statement(empty, chunkIndex + 1, 0)
<1>1. /\ Running("batch") /\ outcome = "running" /\ outcome' = outcome /\ UNCHANGED request
      /\ errors' = errors /\ chunkIndex' = chunkIndex + 1 /\ index' = 0 /\ ChunksLeft
      /\ stack' = Append(WithTop(f), g)
  BY DEF ParseChunk, NextChunk, AdvanceChunk, Running, reports, answer
<1>2. /\ g.kind = "statement" /\ g.chunk = chunkIndex + 1 /\ g.index = 0
      /\ g.empty = empty
  BY DEF Statement
<1>3. ASSUME Plain(call, chunks)
      PROVE  /\ chunkIndex' =< Len(chunks)
             /\ InStatement(call, chunks, stack', chunkIndex', index')
             /\ Slotted(call, chunks, errors', stack'[1].out)
  <2>1. /\ Depth = 1 /\ Top \in BatchFrames /\ Top.at = "loop" /\ Len(Top.out) = chunkIndex
        /\ Top.out \in Seq(Slots) /\ Slotted(call, chunks, errors, Top.out)
        /\ chunkIndex + 1 =< Len(chunks)
    BY <1>1, <1>3, PlainLoop
  <2>2. f.at = "statement" /\ f.out = Top.out /\ f \in Frames
    BY <2>1 DEF BatchFrames, Frames
  <2>7. g \in Frames
    BY <2>1, PlainLoop, <1>1, <1>3 DEF Statement, StatementFrames, Frames
  <2>3. call.into = 0 => (g.empty <=> chunks[chunkIndex + 1] = <<>>)
    BY <1>2, <2>1 DEF NextTokens
  <2> HIDE DEF f, g, empty
  <2>4. Len(stack') = 2 /\ stack'[1] = f /\ stack'[2] = g
    <3> DEFINE one == WithTop(f)
    <3>1. one = <<f>> /\ one \in Seq(Frames)
      BY <2>1, <2>2, WithTopAtLoop
    <3>2. stack' = Append(one, g)
      BY <1>1
    <3>3. Len(one) = 1 /\ one[1] = f
      BY <3>1
    <3> HIDE DEF one
    <3>4. one \in Seq(Frames)
      BY <3>1
    <3>5. /\ Len(Append(one, g)) = Len(one) + 1 /\ Append(one, g)[Len(one) + 1] = g
          /\ \A k \in 1 .. Len(one) : Append(one, g)[k] = one[k]
      BY <2>7, <3>4, Appended
    <3> QED BY <3>2, <3>3, <3>5
  <2>6. \A k \in 2 .. Len(stack') : k = 2
    BY <2>4
  <2> QED BY <1>1, <1>2, <2>1, <2>2, <2>3, <2>4, <2>6 DEF InStatement
<1> QED BY <1>1, <1>3, PlainLoops

LEMMA PlainChunksEnd ==
  ASSUME Inv, PlainInv, ChunksEnd
  PROVE  PlainInv'
<1>1. /\ Running("batch") /\ ~ChunksLeft /\ BatchReturns(Top.out) /\ UNCHANGED request
      /\ errors' = errors
  BY DEF ChunksEnd, reports
<1>2. call' = call /\ chunks' = chunks
  BY <1>1 DEF request
<1>3. ASSUME Plain(call, chunks)
      PROVE  /\ outcome' = "returned" /\ Len(result') = Len(chunks)
             /\ Slotted(call, chunks, errors', result')
  BY <1>1, <1>3, PlainLoop DEF BatchReturns
<1> QED BY <1>2, <1>3 DEF PlainInv

\* No chunk starts with ELSE, and no body is opened.
LEMMA PlainNever ==
  ASSUME Inv, PlainInv,
         \/ StopAtElse
         \/ FirstStatement
         \/ OpenBlock
         \/ \E until \in {{"end"}, {"else", "end"}} : OpenRoutine(until)
         \/ Running("routine")
  PROVE  ~Plain(call, chunks)
<1> SUFFICES ASSUME Plain(call, chunks) PROVE FALSE
  OBVIOUS
<1>1. CASE StopAtElse
  <2>1. Running("batch") /\ ChunksLeft /\ NextTokens # <<>> /\ NextTokens[1] = "else"
    BY <1>1 DEF StopAtElse, NextChunk, StartsWith
  <2>2. chunkIndex + 1 \in 1 .. Len(chunks)
    BY <2>1, PlainLoop
  <2> QED BY <2>1, <2>2 DEF NextTokens, Plain
<1>2. CASE FirstStatement
  <2>1. Running("batch") /\ Top.at = "first"
    BY <1>2 DEF FirstStatement
  <2> QED BY <2>1, PlainLoop
<1>3. CASE OpenBlock
  BY <1>3 DEF OpenBlock, Plain
<1>4. CASE \E until \in {{"end"}, {"else", "end"}} : OpenRoutine(until)
  BY <1>4 DEF OpenRoutine, Plain
<1>5. CASE Running("routine")
  <2>1. outcome = "running" /\ Top.kind = "routine"
    BY <1>5 DEF Running
  <2> QED BY <2>1, PlainStack
<1> QED BY <1>1, <1>2, <1>3, <1>4, <1>5

-----------------------------------------------------------------------------
(* A statement of the outermost batch returns                              *)

\* The statement is the one of its chunk, the batch waits for it, and without an
\* error its slot is null exactly if the chunk is empty.
LEMMA PlainStatementEnds ==
  ASSUME Inv, PlainInv, Plain(call, chunks), Running("statement")
  PROVE  /\ Depth = 2 /\ Top = stack[2] /\ stack[Depth - 1] = stack[1]
         /\ stack[1] \in BatchFrames /\ stack[1].at = "statement"
         /\ InStatement(call, chunks, stack, chunkIndex, index)
         /\ call.into = 0 /\ ~More =>
              ((cursor = <<Top.chunk, Top.index>>) <=> (chunks[chunkIndex] = <<>>))
<1>1. outcome = "running" /\ stack # <<>> /\ Top.kind = "statement"
  BY DEF Running
<1>2. Depth > 1 /\ InStatement(call, chunks, stack, chunkIndex, index) /\ Depth \in Nat
      /\ Depth = Len(stack) /\ chunkIndex \in Nat /\ index \in Nat
  <2>1. Depth # 1
    BY <1>1, PlainStack
  <2> QED BY <1>1, <2>1, PlainStack
<1>3. Depth = 2
  <2>1. stack[Depth - 1].kind \in {"batch", "routine"}
    BY <1>1, Caller, FrameKinds DEF BatchFrames, RoutineFrames
  <2>2. Depth # 2 => Depth - 1 \in 2 .. Len(stack)
    BY <1>2
  <2> QED BY <2>1, <2>2, <1>2 DEF InStatement
<1>4. Top = stack[2] /\ stack[Depth - 1] = stack[1]
  BY <1>3 DEF Top
<1>5. stack[1] \in BatchFrames /\ stack[1].at = "statement"
  <2>1. stack[1].kind = "batch" /\ 1 \in 1 .. Depth /\ stack[1] \in Frames
    BY <1>1, <1>2, Basics
  <2> QED BY <1>2, <2>1, FrameKinds DEF InStatement
<1>6. ASSUME call.into = 0, ~More
      PROVE  (cursor = <<Top.chunk, Top.index>>) <=> (chunks[chunkIndex] = <<>>)
  <2>1. Top.chunk = chunkIndex /\ Top.index = 0 /\ (Top.empty <=> chunks[chunkIndex] = <<>>)
        /\ (Top.empty => index = 0)
    BY <1>2, <1>4, <1>6 DEF InStatement
  <2>2. (cursor = <<Top.chunk, Top.index>>) <=> (index = 0)
    BY <2>1 DEF cursor
  <2>3. chunks[chunkIndex] # <<>> => index # 0
    <3>1. chunkIndex \in 1 .. Len(chunks)
      <4>1. chunkIndex =< Len(chunks) /\ Len(stack[1].out) + 1 = chunkIndex
        BY <1>1, <1>2, PlainStack DEF InStatement
      <4>2. stack[1].out \in Seq(Slots)
        BY <1>5 DEF BatchFrames
      <4>3. chunkIndex >= 1
        BY <4>1, <4>2
      <4> QED BY <1>2, <4>1, <4>3
    <3>2. chunks \in Seq(Seq(TokenKinds))
      <4>1. chunks = Chunks(call.script) /\ call.script \in Seq(TokenKinds)
        BY Basics DEF Inv, TypeOK
      <4> QED BY <4>1, ChunksTyped
    <3>3. chunks[chunkIndex] \in Seq(TokenKinds)
      BY <3>1, <3>2
    <3>4. chunks[chunkIndex] # <<>> => Len(chunks[chunkIndex]) > 0
      BY <3>3
    <3>5. ~(index < Len(chunks[chunkIndex]))
      BY <1>2, <1>6, <3>1 DEF More, Tokens
    <3> QED BY <3>4, <3>5
  <2> QED BY <2>1, <2>2, <2>3
<1> QED BY <1>2, <1>3, <1>4, <1>5, <1>6

LEMMA PlainCheckStatement ==
  ASSUME Inv, PlainInv, Running("statement"), UNCHANGED request,
         NEW slot \in Slots, CheckStatement(slot),
         Plain(call, chunks) /\ call.into = 0 /\ ~More =>
            (slot = "null" <=> chunks[chunkIndex] = <<>>)
  PROVE  PlainInv'
<1> DEFINE found == IF More THEN Append(errors, chunkIndex) ELSE errors
<1>1. outcome = "running"
  BY DEF Running
<1>2. found = <<>> => errors = <<>> /\ ~More
  <2>1. CASE More
    BY <2>1, Types
  <2>2. CASE ~More
    BY <2>2
  <2> QED BY <2>1, <2>2
<1>3. CASE More /\ errorLevel = "immediate"
  <2>1. Throw /\ errors' = errors
    BY <1>3 DEF CheckStatement, reports
  <2> QED BY <1>1, <2>1, PlainThrow
<1>4. CASE ~(More /\ errorLevel = "immediate") /\ errorLevel = "raise" /\ found # <<>>
  <2>1. Throw /\ errors' = found
    BY <1>4 DEF CheckStatement
  <2> HIDE DEF found
  <2> QED BY <1>1, <1>2, <2>1, PlainThrow
<1>5. CASE ~(More /\ errorLevel = "immediate") /\ ~(errorLevel = "raise" /\ found # <<>>)
  <2>1. /\ stack' = Append(SubSeq(stack, 1, Depth - 2),
                           [stack[Depth - 1] EXCEPT !.at = "loop", !.out = Append(@, slot)])
        /\ UNCHANGED <<cursor, errorLevel, answer, kept, dropped>>
        /\ errors' = found
    BY <1>5 DEF CheckStatement
  <2> HIDE DEF found
  <2>2. outcome' = "running" /\ chunkIndex' = chunkIndex
    BY <1>1, <2>1 DEF answer, cursor
  <2>3. ASSUME Plain(call, chunks)
        PROVE  /\ chunkIndex' =< Len(chunks)
               /\ InLoop(stack', chunkIndex')
               /\ Slotted(call, chunks, errors', stack'[1].out)
    <3> DEFINE b == stack[1]
               f == [b EXCEPT !.at = "loop", !.out = Append(@, slot)]
    <3>1. /\ Depth = 2 /\ b \in BatchFrames /\ stack[Depth - 1] = b
          /\ Len(b.out) + 1 = chunkIndex /\ chunkIndex =< Len(chunks)
          /\ Slotted(call, chunks, errors, b.out)
      BY <1>1, <2>3, PlainStatementEnds DEF InStatement, PlainInv
    <3> HIDE DEF b
    <3>2. b.out \in Seq(Slots) /\ f.at = "loop" /\ f.out = Append(b.out, slot)
      BY <3>1 DEF BatchFrames
    <3>3. /\ Slotted(call, chunks, found, Append(b.out, slot))
          /\ Len(Append(b.out, slot)) = Len(b.out) + 1
      BY <1>2, <2>3, <3>1, <3>2, SlottedMore
    <3>4. SubSeq(stack, 1, Depth - 2) = <<>>
      BY <3>1, Basics
    <3>5. stack' = <<f>>
      <4>1. stack' = Append(SubSeq(stack, 1, Depth - 2), f)
        BY <2>1, <3>1
      <4> HIDE DEF f
      <4>2. stack' = Append(<<>>, f)
        BY <3>4, <4>1
      <4> QED BY <4>2
    <3> HIDE DEF f
    <3>6. Len(stack') = 1 /\ stack'[1] = f
      BY <3>5
    <3> QED BY <2>1, <2>2, <3>1, <3>2, <3>3, <3>6 DEF InLoop
  <2> QED BY <2>2, <2>3, PlainLoops
<1> QED BY <1>3, <1>4, <1>5

LEMMA PlainEndStatement ==
  ASSUME Inv, PlainInv, EndStatement
  PROVE  PlainInv'
<1> DEFINE slot == IF cursor = <<Top.chunk, Top.index>> THEN "null" ELSE "tree"
<1>1. Running("statement") /\ UNCHANGED request /\ slot \in Slots
      /\ (slot = "null" <=> cursor = <<Top.chunk, Top.index>>)
  BY DEF EndStatement, Slots
<1>2. CASE ~Plain(call, chunks)
  BY <1>1, <1>2 DEF PlainInv, request
<1>3. CASE Plain(call, chunks)
  <2>1. stack[Depth - 1].kind = "batch" /\ stack[Depth - 1].at = "statement"
    BY <1>1, <1>3, PlainStatementEnds DEF BatchFrames
  <2>2. CheckStatement(slot)
    BY <2>1 DEF EndStatement
  <2>3. call.into = 0 /\ ~More => (slot = "null" <=> chunks[chunkIndex] = <<>>)
    BY <1>1, <1>3, PlainStatementEnds
  <2> HIDE DEF slot
  <2> QED BY <1>1, <2>2, <2>3, PlainCheckStatement
<1> QED BY <1>2, <1>3

-----------------------------------------------------------------------------

LEMMA PlainStarts ==
  ASSUME NEW c, NEW cs
  PROVE  InLoop(<<Batch("loop")>>, 0) /\ Slotted(c, cs, <<>>, <<Batch("loop")>>[1].out)
<1>1. Batch("loop").at = "loop" /\ Batch("loop").out = <<>>
  BY DEF Batch
<1> QED BY <1>1 DEF InLoop, Slotted

LEMMA InitPlain ==
  ASSUME Init
  PROVE  PlainInv
<1>1. Inv
  BY InitInv
<1>2. chunks \in Seq(Seq(TokenKinds))
  BY <1>1, Basics, ChunksTyped DEF Inv, TypeOK
<1>3. chunkIndex = 0 /\ errors = <<>> /\ stack = <<Batch("loop")>> /\ outcome = "running"
  BY DEF Init
<1>4. 0 =< Len(chunks)
  BY <1>2
<1> QED BY <1>3, <1>4, PlainStarts DEF PlainInv

LEMMA PlainNextMethod ==
  ASSUME Inv, PlainInv, NextMethod
  PROVE  PlainInv'
<1>1. /\ chunkIndex' = 0 /\ errors' = <<>> /\ stack' = <<Batch("loop")>>
      /\ outcome' = "running" /\ chunks' = chunks /\ call' = call
  BY DEF NextMethod
<1>2. chunks \in Seq(Seq(TokenKinds))
  BY Basics, ChunksTyped DEF Inv, TypeOK
<1>3. 0 =< Len(chunks)
  BY <1>2
<1> QED BY <1>1, <1>3, PlainStarts DEF PlainInv

LEMMA NextPlain ==
  ASSUME Inv, PlainInv, [Next]_vars
  PROVE  PlainInv'
<1>1. CASE UNCHANGED vars
  BY <1>1 DEF vars, PlainInv
<1>2. ASSUME UNCHANGED request, ~Plain(call, chunks) PROVE PlainInv'
  BY <1>2 DEF PlainInv, request
<1>3. CASE StopAtElse \/ FirstStatement \/ OpenBlock \/ RoutineEnds \/ RoutineChunk
           \/ RoutineUnfinished \/ RoutineSemicolon \/ RoutineStatement
           \/ \E until \in {{"end"}, {"else", "end"}} : OpenRoutine(until)
  <2>1. UNCHANGED request
    BY <1>3 DEF StopAtElse, FirstStatement, OpenBlock, RoutineEnds, RoutineChunk,
       RoutineUnfinished, RoutineSemicolon, RoutineStatement, OpenRoutine
  <2>2. StopAtElse \/ FirstStatement \/ OpenBlock \/ Running("routine")
        \/ \E until \in {{"end"}, {"else", "end"}} : OpenRoutine(until)
    BY <1>3 DEF RoutineEnds, RoutineChunk, RoutineUnfinished, RoutineSemicolon, RoutineStatement
  <2>3. ~Plain(call, chunks)
    BY <2>2, PlainNever
  <2> QED BY <1>2, <2>1, <2>3
<1>4. CASE GoWrong
  <2>1. outcome' = "crashed"
    BY <1>4 DEF GoWrong
  <2> QED BY <2>1, PlainStops
<1>5. CASE TakeEnd \/ ParseChunk \/ ChunksEnd \/ TakeToken \/ ReportError \/ NextMethod
           \/ (\E retreat \in BOOLEAN : Speculate(retreat))
           \/ (\E found \in BOOLEAN : EndSpeculation(found)) \/ EndStatement
  BY <1>5, PlainTakeEnd, PlainParseChunk, PlainChunksEnd, PlainTakeToken, PlainReportError,
     PlainNextMethod, PlainSpeculate, PlainEndSpeculation, PlainEndStatement
<1>6. CASE Next
  BY <1>3, <1>4, <1>5, <1>6 DEF Next
<1> QED BY <1>1, <1>6
-----------------------------------------------------------------------------
(* One chunk for each stretch between semicolons                           *)

\* (A ";" in a proof obligation starts a comment for the SMT solver: the next two
\* definitions keep it out of sight.)
Cuts(script, i) == script[i] \in {";", ";c"}
Comments(script, i) == script[i] = ";c"

\* The stretches that have begun behind the first i tokens, the commented
\* semicolons among them, and the stretches that are empty so far.
Starts(script, i) == {0} \cup {j \in 1 .. i : Cuts(script, j) /\ j # Len(script)}
Commented(script, i) == {j \in 1 .. i : Comments(script, j)}
Bare(script, i) ==
    {j \in Starts(script, i) : j = i \/ (j + 1 =< i /\ Cuts(script, j + 1))}
EmptyChunks(cs) == {c \in 1 .. Len(cs) : cs[c] = <<>>}

LEMMA CountsAreFinite ==
  ASSUME NEW script, NEW i \in Nat
  PROVE  /\ IsFiniteSet(Starts(script, i)) /\ IsFiniteSet(Commented(script, i))
         /\ IsFiniteSet(Bare(script, i))
         /\ Cardinality(Starts(script, i)) \in Nat
         /\ Cardinality(Commented(script, i)) \in Nat
         /\ Cardinality(Bare(script, i)) \in Nat
<1>1. IsFiniteSet(0 .. i)
  BY FS_Interval
<1>2. Starts(script, i) \subseteq 0 .. i /\ Commented(script, i) \subseteq 0 .. i
  BY DEF Starts, Commented
<1>3. Bare(script, i) \subseteq 0 .. i
  BY <1>2 DEF Bare
<1>4. IsFiniteSet(Starts(script, i)) /\ IsFiniteSet(Commented(script, i))
      /\ IsFiniteSet(Bare(script, i))
  BY <1>1, <1>2, <1>3, FS_Subset
<1> QED BY <1>4, FS_CardinalityType

LEMMA EmptyChunksAreFinite ==
  ASSUME NEW cs \in Seq(Seq(TokenKinds))
  PROVE  IsFiniteSet(EmptyChunks(cs)) /\ Cardinality(EmptyChunks(cs)) \in Nat
<1>1. Len(cs) \in Int
  OBVIOUS
<1>2. IsFiniteSet(1 .. Len(cs))
  BY <1>1, FS_Interval
<1>3. EmptyChunks(cs) \subseteq 1 .. Len(cs)
  BY DEF EmptyChunks
<1>4. IsFiniteSet(EmptyChunks(cs))
  BY <1>2, <1>3, FS_Subset
<1> QED BY <1>4, FS_CardinalityType

\* What a chunk more or a token more makes of the empty chunks.
LEMMA ChunkAdded ==
  ASSUME NEW cs \in Seq(Seq(TokenKinds)), NEW x \in Seq(TokenKinds)
  PROVE  /\ cs \o <<x>> \in Seq(Seq(TokenKinds))
         /\ Len(cs \o <<x>>) = Len(cs) + 1
         /\ (cs \o <<x>>)[Len(cs) + 1] = x
         /\ Cardinality(EmptyChunks(cs \o <<x>>)) =
              Cardinality(EmptyChunks(cs)) + (IF x = <<>> THEN 1 ELSE 0)
<1> DEFINE ds == cs \o <<x>>
<1>1. <<x>> \in Seq(Seq(TokenKinds)) /\ Len(<<x>>) = 1 /\ <<x>>[1] = x
  BY OneElement
<1>2. /\ ds \in Seq(Seq(TokenKinds)) /\ Len(ds) = Len(cs) + 1
      /\ \A c \in 1 .. Len(cs) : ds[c] = cs[c]
      /\ \A c \in 1 .. 1 : ds[Len(cs) + c] = <<x>>[c]
  <2> DEFINE one == <<x>>
  <2>1. one \in Seq(Seq(TokenKinds)) /\ Len(one) = 1
    BY <1>1
  <2> HIDE DEF one
  <2> QED BY <2>1, Concatenated DEF ds, one
<1>3. Len(cs) \in Nat /\ ds[Len(cs) + 1] = x
  BY <1>1, <1>2
<1> HIDE DEF ds
<1>4. EmptyChunks(ds) = EmptyChunks(cs) \cup (IF x = <<>> THEN {Len(cs) + 1} ELSE {})
      /\ Len(cs) + 1 \notin EmptyChunks(cs)
  <2>1. \A c \in 1 .. Len(cs) + 1 : c = Len(cs) + 1 \/ c \in 1 .. Len(cs)
    BY <1>3
  <2>2. Len(cs) + 1 \in 1 .. Len(cs) + 1 /\ Len(cs) + 1 \notin 1 .. Len(cs)
        /\ \A c \in 1 .. Len(cs) : c \in 1 .. Len(cs) + 1
    BY <1>3
  <2> QED BY <1>2, <1>3, <2>1, <2>2 DEF EmptyChunks
<1>5. Cardinality(EmptyChunks(ds)) =
        Cardinality(EmptyChunks(cs)) + (IF x = <<>> THEN 1 ELSE 0)
  <2>1. CASE x = <<>>
    BY <1>4, <2>1, EmptyChunksAreFinite, FS_AddElement
  <2>2. CASE x # <<>>
    <3>1. EmptyChunks(ds) = EmptyChunks(cs)
      BY <1>4, <2>2
    <3> QED BY <2>2, <3>1, EmptyChunksAreFinite
  <2> QED BY <2>1, <2>2
<1> QED BY <1>2, <1>3, <1>5 DEF ds

LEMMA LastReplaced ==
  ASSUME NEW X, NEW seq \in Seq(X), seq # <<>>, NEW x \in X,
         NEW new, new = [seq EXCEPT ![Len(seq)] = x]
  PROVE  /\ new \in Seq(X) /\ Len(new) = Len(seq) /\ new[Len(seq)] = x /\ new # <<>>
         /\ \A k \in 1 .. Len(seq) : k # Len(seq) => new[k] = seq[k]
OBVIOUS

\* One less.
LEMMA OneLess ==
  ASSUME NEW S, NEW T, NEW x \in S, IsFiniteSet(S), T = S \ {x}
  PROVE  Cardinality(T) = Cardinality(S) - 1
BY FS_RemoveElement

LEMMA ChunkReplaced ==
  ASSUME NEW cs \in Seq(Seq(TokenKinds)), cs # <<>>,
         NEW longer \in Seq(TokenKinds), longer # <<>>,
         NEW ds, ds = [cs EXCEPT ![Len(cs)] = longer]
  PROVE  /\ ds \in Seq(Seq(TokenKinds)) /\ ds # <<>>
         /\ Len(ds) = Len(cs) /\ ds[Len(ds)] # <<>>
         /\ Cardinality(EmptyChunks(ds)) =
              IF cs[Len(cs)] = <<>> THEN Cardinality(EmptyChunks(cs)) - 1
                                    ELSE Cardinality(EmptyChunks(cs))
<1>1. Len(cs) \in Nat /\ Len(cs) \in 1 .. Len(cs)
  OBVIOUS
<1>2. /\ ds \in Seq(Seq(TokenKinds)) /\ Len(ds) = Len(cs) /\ ds[Len(cs)] = longer
      /\ ds # <<>>
      /\ \A c \in 1 .. Len(cs) : c # Len(cs) => ds[c] = cs[c]
  BY LastReplaced
<1>3. EmptyChunks(ds) = EmptyChunks(cs) \ {Len(cs)}
  BY <1>1, <1>2 DEF EmptyChunks
<1>4. CASE cs[Len(cs)] = <<>>
  <2>1. Len(cs) \in EmptyChunks(cs)
    BY <1>1, <1>4 DEF EmptyChunks
  <2>2. Cardinality(EmptyChunks(ds)) = Cardinality(EmptyChunks(cs)) - 1
    BY <1>3, <2>1, EmptyChunksAreFinite, OneLess
  <2> QED BY <1>2, <1>4, <2>2
<1>5. CASE cs[Len(cs)] # <<>>
  <2>1. Len(cs) \notin EmptyChunks(cs)
    BY <1>1, <1>5 DEF EmptyChunks
  <2>2. EmptyChunks(ds) = EmptyChunks(cs)
    BY <1>3, <2>1
  <2> QED BY <1>2, <1>5, <2>2
<1> QED BY <1>4, <1>5

LEMMA TokenAdded ==
  ASSUME NEW cs \in Seq(Seq(TokenKinds)), cs # <<>>, NEW t \in TokenKinds,
         NEW ds, ds = [cs EXCEPT ![Len(cs)] = Append(@, t)]
  PROVE  /\ ds \in Seq(Seq(TokenKinds)) /\ ds # <<>>
         /\ Len(ds) = Len(cs) /\ ds[Len(ds)] # <<>>
         /\ Cardinality(EmptyChunks(ds)) =
              IF cs[Len(cs)] = <<>> THEN Cardinality(EmptyChunks(cs)) - 1
                                    ELSE Cardinality(EmptyChunks(cs))
<1>1. cs[Len(cs)] \in Seq(TokenKinds)
  OBVIOUS
<1> DEFINE longer == Append(cs[Len(cs)], t)
<1>2. longer \in Seq(TokenKinds)
  BY <1>1, Appended
<1>3. longer # <<>>
  BY <1>1, Appended
<1>4. ds = [cs EXCEPT ![Len(cs)] = longer]
  OBVIOUS
<1> HIDE DEF longer
<1> QED BY <1>2, <1>3, <1>4, ChunkReplaced

\* The same of the stretches.
LEMMA StretchesAtToken ==
  ASSUME NEW script \in Seq(TokenKinds), NEW i \in 1 .. Len(script),
         ~Cuts(script, i), ~Comments(script, i)
  PROVE  /\ Starts(script, i) = Starts(script, i - 1)
         /\ Commented(script, i) = Commented(script, i - 1)
         /\ i \notin Starts(script, i)
         /\ Cardinality(Bare(script, i)) =
              IF i - 1 \in Starts(script, i - 1) THEN Cardinality(Bare(script, i - 1)) - 1
                                                 ELSE Cardinality(Bare(script, i - 1))
<1>1. /\ i - 1 \in Nat /\ i \in Nat /\ i # 0 /\ i \in 1 .. i
      /\ \A j \in 1 .. i : j = i \/ j \in 1 .. i - 1
      /\ \A j \in 1 .. i - 1 : j \in 1 .. i
  OBVIOUS
<1>2. Starts(script, i) = Starts(script, i - 1) /\ Commented(script, i) = Commented(script, i - 1)
  BY <1>1 DEF Starts, Commented
<1>3. i \notin Starts(script, i) /\ Starts(script, i) \subseteq Nat
  BY <1>1 DEF Starts
<1>4. Bare(script, i) = Bare(script, i - 1) \ {i - 1}
  <2>1. ASSUME NEW j \in Starts(script, i)
        PROVE  (j = i \/ (j + 1 =< i /\ Cuts(script, j + 1)))
                 <=> (j # i - 1
                      /\ (j = i - 1 \/ (j + 1 =< i - 1 /\ Cuts(script, j + 1))))
    <3>1. j \in Nat /\ j # i
      BY <1>3
    <3>2. j = i - 1 => j + 1 = i
      BY <1>1, <3>1
    <3>3. j # i - 1 => (j + 1 =< i <=> j + 1 =< i - 1)
      BY <1>1, <3>1
    <3> QED BY <3>1, <3>2, <3>3
  <2> QED BY <1>2, <2>1 DEF Bare
<1>5. CASE i - 1 \in Starts(script, i - 1)
  <2>1. i - 1 \in Bare(script, i - 1)
    BY <1>5 DEF Bare
  <2>2. Cardinality(Bare(script, i)) = Cardinality(Bare(script, i - 1)) - 1
    BY <1>1, <1>4, <2>1, CountsAreFinite, OneLess
  <2> QED BY <1>2, <1>3, <1>5, <2>2
<1>6. CASE i - 1 \notin Starts(script, i - 1)
  <2>1. i - 1 \notin Bare(script, i - 1)
    BY <1>6 DEF Bare
  <2> QED BY <1>2, <1>3, <1>4, <1>6, <2>1
<1> QED BY <1>5, <1>6

\* One more, or none.
LEMMA OneMore ==
  ASSUME NEW S, NEW T, NEW x, NEW more \in BOOLEAN, IsFiniteSet(S), Cardinality(S) \in Nat,
         x \notin S, T = S \cup (IF more THEN {x} ELSE {})
  PROVE  Cardinality(T) = Cardinality(S) + (IF more THEN 1 ELSE 0)
<1>1. CASE more
  BY <1>1, FS_AddElement
<1>2. CASE ~more
  BY <1>2
<1> QED BY <1>1, <1>2

LEMMA StretchesAtSemicolon ==
  ASSUME NEW script \in Seq(TokenKinds), NEW i \in 1 .. Len(script), Cuts(script, i)
  PROVE  /\ i \in Starts(script, i) <=> i < Len(script)
         /\ Cardinality(Starts(script, i)) =
              Cardinality(Starts(script, i - 1)) + (IF i < Len(script) THEN 1 ELSE 0)
         /\ Cardinality(Bare(script, i)) =
              Cardinality(Bare(script, i - 1)) + (IF i < Len(script) THEN 1 ELSE 0)
         /\ Cardinality(Commented(script, i)) =
              Cardinality(Commented(script, i - 1)) + (IF Comments(script, i) THEN 1 ELSE 0)
<1>1. /\ i - 1 \in Nat /\ i \in Nat /\ i # 0 /\ Len(script) \in Nat /\ i =< Len(script)
      /\ \A j \in 1 .. i : j = i \/ j \in 1 .. i - 1
      /\ \A j \in 1 .. i - 1 : j \in 1 .. i /\ j # i
      /\ i \in 1 .. i
  OBVIOUS
<1>2. \A j \in Starts(script, i - 1) : j \in Nat /\ j =< i - 1 /\ j # i
  BY <1>1 DEF Starts
<1>3. i < Len(script) <=> i # Len(script)
  BY <1>1
<1>4. Starts(script, i) = Starts(script, i - 1) \cup (IF i < Len(script) THEN {i} ELSE {})
  BY <1>1, <1>3 DEF Starts
<1>5. Commented(script, i) = Commented(script, i - 1) \cup (IF Comments(script, i) THEN {i} ELSE {})
      /\ i \notin Commented(script, i - 1)
  BY <1>1 DEF Commented
<1>6. Bare(script, i) = Bare(script, i - 1) \cup (IF i < Len(script) THEN {i} ELSE {})
      /\ i \notin Bare(script, i - 1)
  <2>1. ASSUME NEW j \in Starts(script, i - 1)
        PROVE  (j = i \/ (j + 1 =< i /\ Cuts(script, j + 1)))
                 <=> (j = i - 1 \/ (j + 1 =< i - 1 /\ Cuts(script, j + 1)))
    <3>1. j \in Nat /\ j =< i - 1 /\ j # i
      BY <1>2
    <3>2. j = i - 1 => j + 1 = i /\ j + 1 =< i
      BY <1>1, <3>1
    <3>3. j # i - 1 => (j + 1 =< i <=> j + 1 =< i - 1)
      BY <1>1, <3>1
    <3> QED BY <3>1, <3>2, <3>3
  <2>2. i \notin Bare(script, i - 1)
    BY <1>2 DEF Bare
  <2> QED BY <1>2, <1>4, <2>1, <2>2 DEF Bare
<1>7. i \notin Starts(script, i - 1)
  BY <1>2
<1>8. (i \in Starts(script, i)) <=> i < Len(script)
  BY <1>4, <1>7
<1>9. (i < Len(script)) \in BOOLEAN /\ Comments(script, i) \in BOOLEAN
  BY DEF Comments
<1>10. Cardinality(Starts(script, i)) =
         Cardinality(Starts(script, i - 1)) + (IF i < Len(script) THEN 1 ELSE 0)
  BY <1>1, <1>4, <1>7, <1>9, CountsAreFinite, OneMore
<1>11. Cardinality(Bare(script, i)) =
         Cardinality(Bare(script, i - 1)) + (IF i < Len(script) THEN 1 ELSE 0)
  BY <1>1, <1>6, <1>9, CountsAreFinite, OneMore
<1>12. Cardinality(Commented(script, i)) =
         Cardinality(Commented(script, i - 1)) + (IF Comments(script, i) THEN 1 ELSE 0)
  BY <1>1, <1>5, <1>9, CountsAreFinite, OneMore
<1> QED BY <1>8, <1>10, <1>11, <1>12

\* A row of Chunks in these terms.
LEMMA RowCases ==
  ASSUME NEW script \in Seq(TokenKinds), NEW i \in 1 .. Len(script)
  PROVE  LET before == UpTo(script)[i - 1]
             row == UpTo(script)[i]
         IN  /\ ~Cuts(script, i) =>
                  /\ ~Comments(script, i)
                  /\ row = [before EXCEPT ![Len(before)] = Append(@, script[i])]
             /\ Cuts(script, i) /\ ~Comments(script, i) => row = before \o Opened(script, i)
             /\ Comments(script, i) =>
                  \E x \in Seq(TokenKinds) :
                    x # <<>> /\ row = before \o <<x>> \o Opened(script, i)
             /\ Comments(script, i) => Cuts(script, i)
<1> DEFINE before == UpTo(script)[i - 1]
           row == UpTo(script)[i]
           comment == <<";c">>
<1>1. row = CASE script[i] = ";" -> before \o Opened(script, i)
              [] script[i] = ";c" -> before \o <<comment>> \o Opened(script, i)
              [] OTHER -> [before EXCEPT ![Len(before)] = Append(@, script[i])]
  BY Rows
<1> HIDE DEF before, row
<1>2. comment # <<>> /\ comment \in Seq(TokenKinds)
  <2>1. ";c" \in TokenKinds
    BY Zenon DEF TokenKinds
  <2> DEFINE c == ";c"
  <2> HIDE DEF c
  <2>2. c \in TokenKinds => <<c>> \in Seq(TokenKinds) /\ <<c>> # <<>>
    OBVIOUS
  <2> QED BY <2>1, <2>2, Zenon DEF c
<1> HIDE DEF comment
<1>3. ";" # ";c"
  BY Zenon
<1>4. CASE script[i] = ";"
  <2>1. row = before \o Opened(script, i) /\ Cuts(script, i) /\ ~Comments(script, i)
    BY <1>1, <1>3, <1>4, Zenon DEF Cuts, Comments
  <2> QED BY <2>1, Zenon DEF before, row
<1>5. CASE script[i] = ";c"
  <2>1. row = before \o <<comment>> \o Opened(script, i) /\ Cuts(script, i) /\ Comments(script, i)
    BY <1>1, <1>3, <1>5, Zenon DEF Cuts, Comments
  <2> QED BY <1>2, <2>1, Zenon DEF before, row
<1>6. CASE script[i] # ";" /\ script[i] # ";c"
  <2>1. /\ row = [before EXCEPT ![Len(before)] = Append(@, script[i])]
        /\ ~Cuts(script, i) /\ ~Comments(script, i)
    BY <1>1, <1>6, Zenon DEF Cuts, Comments
  <2> QED BY <2>1, Zenon DEF before, row
<1> QED BY <1>4, <1>5, <1>6, Zenon

Counted(script, i, cs) ==
    /\ cs \in Seq(Seq(TokenKinds)) /\ cs # <<>>
    /\ Len(cs) = Cardinality(Starts(script, i)) + Cardinality(Commented(script, i))
    /\ Cardinality(EmptyChunks(cs)) = Cardinality(Bare(script, i))
    /\ i < Len(script) => (cs[Len(cs)] = <<>> <=> i \in Starts(script, i))

LEMMA FirstRowCounted ==
  ASSUME NEW script \in Seq(TokenKinds)
  PROVE  Counted(script, 0, << <<>> >>)
<1>1. Starts(script, 0) = {0} /\ Commented(script, 0) = {}
  BY DEF Starts, Commented
<1>2. Bare(script, 0) = {0}
  BY <1>1 DEF Bare
<1>3. Cardinality({0}) = 1 /\ Cardinality({}) = 0 /\ Cardinality({1}) = 1
  BY FS_Singleton, FS_EmptySet
<1> DEFINE cs == << <<>> >>
<1>4. <<>> \in Seq(TokenKinds)
  OBVIOUS
<1>5. cs \in Seq(Seq(TokenKinds)) /\ cs # <<>> /\ Len(cs) = 1 /\ cs[1] = <<>>
  BY <1>4, OneElement
<1> HIDE DEF cs
<1>6. EmptyChunks(cs) = {1}
  BY <1>5 DEF EmptyChunks
<1>7. Cardinality(Starts(script, 0)) = 1 /\ Cardinality(Commented(script, 0)) = 0
      /\ Cardinality(Bare(script, 0)) = 1 /\ Cardinality(EmptyChunks(cs)) = 1
      /\ 0 \in Starts(script, 0)
  BY <1>1, <1>2, <1>3, <1>6
<1>8. Counted(script, 0, cs)
  BY <1>5, <1>7 DEF Counted
<1> QED BY <1>8 DEF cs

LEMMA NextRowCounted ==
  ASSUME NEW script \in Seq(TokenKinds), NEW i \in 1 .. Len(script),
         Counted(script, i - 1, UpTo(script)[i - 1])
  PROVE  Counted(script, i, UpTo(script)[i])
<1> DEFINE before == UpTo(script)[i - 1]
           row == UpTo(script)[i]
           s == Cardinality(Starts(script, i - 1))
           m == Cardinality(Commented(script, i - 1))
           b == Cardinality(Bare(script, i - 1))
<1>1. script[i] \in TokenKinds /\ i - 1 < Len(script) /\ i \in Nat /\ i - 1 \in Nat
      /\ Len(script) \in Nat
  OBVIOUS
<1>2. /\ ~Cuts(script, i) =>
           ~Comments(script, i) /\ row = [before EXCEPT ![Len(before)] = Append(@, script[i])]
      /\ Cuts(script, i) /\ ~Comments(script, i) => row = before \o Opened(script, i)
      /\ Comments(script, i) =>
           \E x \in Seq(TokenKinds) : x # <<>> /\ row = before \o <<x>> \o Opened(script, i)
  BY RowCases
<1>3. /\ before \in Seq(Seq(TokenKinds)) /\ before # <<>>
      /\ Len(before) = s + m /\ Cardinality(EmptyChunks(before)) = b
      /\ before[Len(before)] = <<>> <=> i - 1 \in Starts(script, i - 1)
  BY <1>1 DEF Counted
<1>4. s \in Nat /\ m \in Nat /\ b \in Nat
  BY <1>1, CountsAreFinite
<1> HIDE DEF before, row
<1>5. CASE ~Cuts(script, i)
  <2>1. ~Comments(script, i) /\ row = [before EXCEPT ![Len(before)] = Append(@, script[i])]
    BY <1>2, <1>5
  <2>2. /\ row \in Seq(Seq(TokenKinds)) /\ row # <<>>
        /\ Len(row) = Len(before) /\ row[Len(row)] # <<>>
        /\ Cardinality(EmptyChunks(row)) =
             IF before[Len(before)] = <<>> THEN Cardinality(EmptyChunks(before)) - 1
                                           ELSE Cardinality(EmptyChunks(before))
    BY <1>1, <1>3, <2>1, TokenAdded
  <2>3. /\ Cardinality(Starts(script, i)) = s /\ Cardinality(Commented(script, i)) = m
        /\ i \notin Starts(script, i)
        /\ Cardinality(Bare(script, i)) =
             IF i - 1 \in Starts(script, i - 1) THEN b - 1 ELSE b
    BY <1>5, <2>1, StretchesAtToken
  <2>4. Counted(script, i, row)
    BY <1>3, <2>2, <2>3 DEF Counted
  <2> QED BY <2>4 DEF row
<1>6. CASE Cuts(script, i)
  <2> DEFINE extra == IF Comments(script, i) THEN 1 ELSE 0
             more == IF i < Len(script) THEN 1 ELSE 0
  <2>1. /\ i \in Starts(script, i) <=> i < Len(script)
        /\ Cardinality(Starts(script, i)) = s + more
        /\ Cardinality(Bare(script, i)) = b + more
        /\ Cardinality(Commented(script, i)) = m + extra
    BY <1>6, StretchesAtSemicolon
  <2>2. PICK base : /\ base \in Seq(Seq(TokenKinds)) /\ row = base \o Opened(script, i)
                    /\ Cardinality(EmptyChunks(base)) = b /\ Len(base) = s + m + extra
                    /\ Len(base) \in Nat /\ base # <<>>
    <3>1. CASE ~Comments(script, i)
      <4>1. row = before \o Opened(script, i)
        BY <1>2, <1>6, <3>1
      <4>2. Len(before) \in Nat /\ extra = 0
        BY <1>3, <3>1
      <4>3. /\ before \in Seq(Seq(TokenKinds)) /\ row = before \o Opened(script, i)
            /\ Cardinality(EmptyChunks(before)) = b /\ Len(before) = s + m + extra
            /\ Len(before) \in Nat /\ before # <<>>
        BY <1>3, <1>4, <4>1, <4>2
      <4> QED BY <4>3, Zenon
    <3>2. CASE Comments(script, i)
      <4>1. PICK x \in Seq(TokenKinds) : x # <<>> /\ row = before \o <<x>> \o Opened(script, i)
        BY <1>2, <3>2
      <4> DEFINE base == before \o <<x>>
      <4>2. /\ base \in Seq(Seq(TokenKinds)) /\ Len(base) = Len(before) + 1
            /\ Cardinality(EmptyChunks(base)) = Cardinality(EmptyChunks(before)) + 0
        BY <1>3, <4>1, ChunkAdded
      <4>3. row = base \o Opened(script, i)
        BY <4>1
      <4> HIDE DEF base
      <4>4. Len(base) = s + m + extra /\ extra = 1 /\ Len(base) \in Nat /\ Len(base) > 0
        BY <1>3, <1>4, <3>2, <4>2
      <4>5. base # <<>>
        BY <4>4
      <4>6. /\ base \in Seq(Seq(TokenKinds)) /\ row = base \o Opened(script, i)
            /\ Cardinality(EmptyChunks(base)) = b /\ Len(base) = s + m + extra
            /\ Len(base) \in Nat /\ base # <<>>
        BY <1>3, <1>4, <4>2, <4>3, <4>4, <4>5
      <4> QED BY <4>6, Zenon
    <3> QED BY <3>1, <3>2
  <2>3. extra \in Nat
    OBVIOUS
  <2>4. CASE i < Len(script)
    <3>1. <<>> \in Seq(TokenKinds) /\ row = base \o << <<>> >>
      BY <2>2, <2>4 DEF Opened
    <3>2. /\ row \in Seq(Seq(TokenKinds)) /\ Len(row) = Len(base) + 1
          /\ row[Len(base) + 1] = <<>>
          /\ Cardinality(EmptyChunks(row)) = Cardinality(EmptyChunks(base)) + 1
      BY <2>2, <3>1, ChunkAdded
    <3>3. row # <<>> /\ row[Len(row)] = <<>>
      BY <2>2, <3>2
    <3> HIDE DEF extra
    <3>4. Len(row) = Cardinality(Starts(script, i)) + Cardinality(Commented(script, i))
          /\ Cardinality(EmptyChunks(row)) = Cardinality(Bare(script, i))
      BY <1>4, <2>1, <2>2, <2>3, <2>4, <3>2
    <3>5. Counted(script, i, row)
      BY <2>1, <2>4, <3>2, <3>3, <3>4 DEF Counted
    <3> QED BY <3>5 DEF row
  <2>5. CASE ~(i < Len(script))
    <3>1. row = base
      BY <2>2, <2>5 DEF Opened
    <3> HIDE DEF extra
    <3>2. Len(row) = Cardinality(Starts(script, i)) + Cardinality(Commented(script, i))
          /\ Cardinality(EmptyChunks(row)) = Cardinality(Bare(script, i))
      BY <1>4, <2>1, <2>2, <2>3, <2>5, <3>1
    <3>3. Counted(script, i, row)
      BY <2>2, <2>5, <3>1, <3>2 DEF Counted
    <3> QED BY <3>3 DEF row
  <2> QED BY <2>4, <2>5
<1> QED BY <1>5, <1>6

\* Cutting a script: one chunk for each stretch and each commented semicolon, and
\* an empty chunk for each bare stretch.
LEMMA ChunksCounted ==
  ASSUME NEW script \in Seq(TokenKinds)
  PROVE  Counted(script, Len(script), Chunks(script))
<1> DEFINE n == Len(script)
           g == UpTo(script)
           S == {i \in 0 .. n : Counted(script, i, g[i])}
<1>0. n \in Nat /\ 0 \in 0 .. n
  OBVIOUS
<1>1. 0 \in S
  <2>1. g[0] = << <<>> >>
    BY Rows
  <2>2. Counted(script, 0, g[0])
    BY <2>1, FirstRowCounted
  <2> HIDE DEF g
  <2> QED BY <1>0, <2>2
<1>2. ASSUME NEW i \in 1 .. n, i - 1 \in S PROVE i \in S
  <2>1. Counted(script, i - 1, g[i - 1])
    BY <1>2
  <2>2. Counted(script, i, g[i])
    BY <2>1, NextRowCounted
  <2>3. i \in 0 .. n
    BY <1>0
  <2> HIDE DEF g
  <2> QED BY <2>2, <2>3
<1>3. n \in S
  <2> HIDE DEF S
  <2>1. 0 .. n \subseteq S
    BY <1>0, <1>1, <1>2, InductionUpTo
  <2> QED BY <1>0, <2>1
<1> QED BY <1>3, ChunksAreTheLastRow
-----------------------------------------------------------------------------

LEMMA SemicolonsCut ==
  ASSUME NEW script
  PROVE  Semicolons(script) = {i \in 1 .. Len(script) : Cuts(script, i)}
BY Zenon DEF Semicolons, Cuts

LEMMA CommentedSemicolons ==
  ASSUME NEW script
  PROVE  {i \in Semicolons(script) : script[i] = ";c"} = Commented(script, Len(script))
<1>1. {i \in Semicolons(script) : script[i] = ";c"} =
        {i \in Semicolons(script) : Comments(script, i)}
  BY Zenon DEF Comments
<1>2. ASSUME NEW i, Comments(script, i) PROVE Cuts(script, i)
  BY <1>2, Zenon DEF Comments, Cuts
<1>3. {i \in Semicolons(script) : Comments(script, i)} = Commented(script, Len(script))
  BY <1>2, SemicolonsCut DEF Commented
<1> QED BY <1>1, <1>3, Zenon

LEMMA StretchesOfScript ==
  ASSUME NEW script \in Seq(TokenKinds)
  PROVE  /\ {0} \cup (Semicolons(script) \ {Len(script)}) = Starts(script, Len(script))
         /\ {i \in Starts(script, Len(script)) :
                i = Len(script) \/ i + 1 \in Semicolons(script)} = Bare(script, Len(script))
<1>1. Len(script) \in Nat
  OBVIOUS
<1>2. {0} \cup (Semicolons(script) \ {Len(script)}) = Starts(script, Len(script))
  BY SemicolonsCut DEF Starts
<1>3. ASSUME NEW i \in Starts(script, Len(script))
      PROVE  i + 1 \in Semicolons(script) <=> i + 1 =< Len(script) /\ Cuts(script, i + 1)
  <2>1. i \in Nat
    BY DEF Starts
  <2>2. i + 1 \in 1 .. Len(script) <=> i + 1 =< Len(script)
    BY <1>1, <2>1
  <2> QED BY <2>2, SemicolonsCut
<1>4. {i \in Starts(script, Len(script)) :
          i = Len(script) \/ i + 1 \in Semicolons(script)} = Bare(script, Len(script))
  BY <1>3 DEF Bare
<1> QED BY <1>2, <1>4

LEMMA PlainIsCounted ==
  ASSUME Inv, PlainInv
  PROVE  OnePerStatement
<1> DEFINE script == call.script
           n == Len(script)
           nulls == {i \in 1 .. Len(result) : result[i] = "null"}
           starts == {0} \cup (Semicolons(script) \ {n})
           commented == {i \in Semicolons(script) : script[i] = ";c"}
           bare == {i \in starts : i = n \/ i + 1 \in Semicolons(script)}
<1>1. script \in Seq(TokenKinds) /\ chunks = Chunks(script)
  BY Basics DEF Inv, TypeOK
<1>2. Counted(script, n, chunks)
  BY <1>1, ChunksCounted
<1>3. starts = Starts(script, n) /\ bare = Bare(script, n)
  BY <1>1, StretchesOfScript
<1>4. commented = Commented(script, n)
  BY CommentedSemicolons
<1>5. Len(chunks) = Cardinality(starts) + Cardinality(commented)
      /\ Cardinality(EmptyChunks(chunks)) = Cardinality(bare)
  <2> HIDE DEF starts, commented, bare, n, script
  <2> QED BY <1>2, <1>3, <1>4 DEF Counted
<1>6. ASSUME outcome = "returned", Plain(call, chunks)
      PROVE  /\ Len(result) = Cardinality(starts) + Cardinality(commented)
             /\ errors = <<>> /\ call.into = 0 => Cardinality(nulls) = Cardinality(bare)
  <2>1. Len(result) = Len(chunks) /\ Slotted(call, chunks, errors, result)
    BY <1>6 DEF PlainInv
  <2>2. ASSUME errors = <<>>, call.into = 0 PROVE nulls = EmptyChunks(chunks)
    BY <2>1, <2>2 DEF Slotted, EmptyChunks
  <2> HIDE DEF starts, commented, bare, nulls
  <2> QED BY <1>5, <2>1, <2>2
<1> QED BY <1>6, Zenon DEF OnePerStatement, Plain

\* A script of plain statements has one slot for each stretch between its
\* semicolons and one for each commented semicolon, and exactly the bare stretches
\* have a null slot: whatever the script and the statements (_parse,
\* _parse_batch_statements).
THEOREM OneSlotEach == Spec => []OnePerStatement
<1>1. Init => PlainInv
  BY InitPlain
<1>2. Inv /\ PlainInv /\ [Next]_vars => PlainInv'
  BY NextPlain
<1>3. Inv /\ PlainInv => OnePerStatement
  BY PlainIsCounted
<1> QED BY <1>1, <1>2, <1>3, AlwaysInv, PTL DEF Spec

=============================================================================
