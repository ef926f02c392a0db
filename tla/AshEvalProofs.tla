--------------------------- MODULE AshEvalProofs ---------------------------
(***************************************************************************)
(* Proofs about AshEval, for every set of constructs, every limit and      *)
(* every bound.                                                            *)
(*                                                                         *)
(* HandlersLive assumes nothing.  The other theorems name the situations   *)
(* they leave out: "command" in front of a special builtin, an interrupt,  *)
(* a compound command whose redirection fails, a trap action, and an       *)
(* init.c without the RESET blocks.  TLC shows what each of them breaks.   *)
(***************************************************************************)
EXTENDS AshEval, FiniteSetTheorems, WellFoundedInduction, TLAPS

USE SwitchAssumption, KindAssumption, LimitAssumption

-----------------------------------------------------------------------------
(* Innermost frames, and the numbers of frames.                            *)

\* A set of naturals that is not empty has a least element.
LEMMA LeastFrame ==
  ASSUME NEW S, S \subseteq Nat, S # {}
  PROVE  \E x \in S : \A y \in S : x <= y
  <1>1. PICK x \in S : \A y \in S : ~(<<y, x>> \in OpToRel(<, Nat))
    BY NatLessThanWellFounded, WFMin, Zenon
  <1>2. ASSUME NEW y \in S, y < x PROVE FALSE
    <2>1. <<y, x>> \in Nat \X Nat
      BY <1>2
    <2>2. <<y, x>>[1] < <<y, x>>[2]
      BY <1>2
    <2> QED
      BY <1>1, <2>1, <2>2 DEF OpToRel
  <1> QED
    BY <1>2

\* Innermost is 0 or the greatest of the frames, and nothing else is.
LEMMA InnermostIn ==
  ASSUME NEW n \in Nat, NEW S, S \subseteq 1..n, S # {}
  PROVE  Innermost(S) \in S /\ \A j \in S : j <= Innermost(S)
  <1> DEFINE T == {n - i : i \in S}
  <1>1. T \subseteq Nat /\ T # {}
    <2>1. \A i \in S : n - i \in Nat
      OBVIOUS
    <2>2. PICK i \in S : TRUE
      OBVIOUS
    <2> QED
      BY <2>1, <2>2
  <1>2. PICK x \in T : \A y \in T : x <= y
    <2> HIDE DEF T
    <2> QED
      BY <1>1, LeastFrame
  <1>3. PICK i \in S : x = n - i
    BY <1>2
  <1>4. \A j \in S : j <= i
    BY <1>2, <1>3
  <1> QED
    BY <1>4 DEF Innermost

LEMMA InnermostIs ==
  ASSUME NEW S, S \subseteq Nat, NEW x \in S, \A j \in S : j <= x
  PROVE  Innermost(S) = x
  <1> DEFINE y == CHOOSE i \in S : \A j \in S : j <= i
  <1>1. y \in S /\ \A j \in S : j <= y
    OBVIOUS
  <1>2. y <= x /\ x <= y /\ y \in Nat /\ x \in Nat
    BY <1>1
  <1>3. y = x
    BY <1>2
  <1> QED
    BY <1>3 DEF Innermost

LEMMA InnermostNone == Innermost({}) = 0
  BY DEF Innermost

LEMMA InnermostRange ==
  ASSUME NEW n \in Nat, NEW S, S \subseteq 1..n
  PROVE  /\ Innermost(S) \in 0..n
         /\ Innermost(S) = 0 <=> S = {}
         /\ Innermost(S) # 0 => Innermost(S) \in S
         /\ \A j \in S : j <= Innermost(S)
  <1>1. CASE S = {}
    BY <1>1, InnermostNone
  <1>2. CASE S # {}
    <2>1. Innermost(S) \in S /\ \A j \in S : j <= Innermost(S)
      BY <1>2, InnermostIn
    <2>2. Innermost(S) \in 1..n
      BY <2>1
    <2>3. Innermost(S) # 0
      BY <2>2
    <2> QED
      BY <1>2, <2>1, <2>2, <2>3
  <1> QED
    BY <1>1, <1>2

\* How many frames there are in a set of them.
LEMMA FramesCount ==
  ASSUME NEW n \in Nat, NEW S, S \subseteq 1..n
  PROVE  /\ IsFiniteSet(S) /\ Cardinality(S) \in Nat
         /\ \A m \in 1..(n+1) : m \notin S => Cardinality(S \cup {m}) = Cardinality(S) + 1
         /\ \A m \in S : Cardinality(S \ {m}) = Cardinality(S) - 1 /\ Cardinality(S) >= 1
         /\ \A T : T \subseteq S => Cardinality(T) <= Cardinality(S) /\ Cardinality(T) \in Nat
         /\ Cardinality(S) = 0 <=> S = {}
  <1>1. IsFiniteSet(S)
    <2>1. IsFiniteSet(1..n)
      BY FS_Interval
    <2> QED
      BY <2>1, FS_Subset
  <1>2. Cardinality(S) \in Nat
    BY <1>1, FS_CardinalityType
  <1>3. \A m \in 1..(n+1) : m \notin S => Cardinality(S \cup {m}) = Cardinality(S) + 1
    BY <1>1, FS_AddElement
  <1>4. Cardinality(S) = 0 <=> S = {}
    BY <1>1, FS_EmptySet
  <1>5. \A m \in S : Cardinality(S \ {m}) = Cardinality(S) - 1 /\ Cardinality(S) >= 1
    BY <1>1, <1>2, <1>4, FS_RemoveElement
  <1>6. \A T : T \subseteq S => Cardinality(T) <= Cardinality(S) /\ Cardinality(T) \in Nat
    <2> SUFFICES ASSUME NEW T, T \subseteq S
                 PROVE  Cardinality(T) <= Cardinality(S) /\ Cardinality(T) \in Nat
      OBVIOUS
    <2>1. IsFiniteSet(T) /\ Cardinality(T) <= Cardinality(S)
      BY <1>1, FS_Subset
    <2> QED
      BY <2>1, FS_CardinalityType
  <1> QED
    BY <1>1, <1>2, <1>3, <1>4, <1>5, <1>6

-----------------------------------------------------------------------------
(* The invariant of the stack.                                             *)

\* The innermost of the first n frames that called setjmp, and the frames among
\* them that read commands from a string or a file.
Top(n) == Innermost({i \in 1..n : stack[i].armed})
FileFrames(n) == {i \in 1..n : stack[i].kind \in {"eval", "dot", "trap"}}

\* The functions whose setjmp has been called.
Running == {i \in 1..Depth : stack[i].kind = "func" /\ stack[i].armed}

\* "handler" and the saved handlers lead through the frames that called setjmp.
Chain ==
  /\ handler = Top(Depth)
  /\ \A i \in 1..Depth : stack[i].armed => stack[i].handler = Top(i - 1)

\* Loops and trap actions call no setjmp, all other constructs do; only the
\* innermost function may be before or after it.
Places ==
  /\ \A i \in 1..Depth :
       /\ stack[i].kind \in {"loop", "trap"} => ~stack[i].armed
       /\ stack[i].kind \notin {"loop", "trap"} =>
            \/ stack[i].armed
            \/ /\ i = Depth /\ stack[i].kind = "func"
               /\ mode \in {"f_params", "f_handler", "f_done", "exc"}
  /\ mode \in {"f_params", "f_handler", "f_done"} =>
       Depth > 0 /\ Inner.kind = "func" /\ ~Inner.armed
  /\ mode \in {"f_params", "f_handler"} => Inner.handler = handler

\* The nesting levels and the number of files are never too low, so that none of
\* them is counted down below zero.
Levels ==
  /\ loopnest >= Cardinality(FramesOf({"loop"}))
  /\ funcnest >= Cardinality(Running)
  /\ files >= Cardinality(FileFrames(Depth))
  /\ \A i \in 1..Depth : stack[i].files >= Cardinality(FileFrames(i - 1))

\* While a break or continue is under way it has a loop left to end.
Counted(skip, count) == skip \in {"break", "cont"} => count >= 1
SkipCounts ==
  /\ Counted(evalskip, skipcount)
  /\ \A i \in 1..Depth : Counted(stack[i].skip[1], stack[i].skip[2])

\* The inductive invariant.
EInv == TypeOK /\ Chain /\ Places /\ Levels /\ SkipCounts

\* A frame differs from the one it was in "armed" only.
LEMMA Rearmed ==
  ASSUME NEW f \in Frames, NEW b \in BOOLEAN
  PROVE  LET g == [f EXCEPT !.armed = b]
         IN  /\ g \in Frames /\ g.armed = b /\ g.kind = f.kind /\ g.special = f.special
             /\ g.handler = f.handler /\ g.files = f.files /\ g.params = f.params
             /\ g.localvars = f.localvars /\ g.dot = f.dot /\ g.skip = f.skip
  BY DEF Frames

\* What a new frame holds is in range.
LEMMA FrameType ==
  ASSUME TypeOK, NEW k \in FrameKinds, NEW special \in BOOLEAN
  PROVE  LET f == Frame(k, special)
         IN  /\ f \in Frames /\ f.kind = k /\ f.special = special /\ f.armed = FALSE
             /\ f.handler = handler /\ f.files = files /\ f.params = params
             /\ f.localvars = localvars /\ f.dot = dot_funcnest /\ f.skip = skp
  <1>1. skp \in Skips \X Nat \X (0..MaxDepth)
    BY DEF TypeOK, skp
  <1>2. Frame(k, special) \in Frames
    BY <1>1 DEF TypeOK, Frames, Frame
  <1> QED
    BY <1>2 DEF Frame

\* What is known of a frame on the stack.
LEMMA FrameFacts ==
  ASSUME stack \in Seq(Frames), NEW i \in 1..Depth
  PROVE  /\ stack[i] \in Frames /\ stack[i].kind \in FrameKinds /\ stack[i].armed \in BOOLEAN
         /\ stack[i].handler \in 0..MaxDepth /\ stack[i].files \in Nat
         /\ stack[i].params \in 0..MaxDepth /\ stack[i].localvars \in 0..MaxDepth
         /\ stack[i].dot \in Nat /\ stack[i].skip[1] \in Skips /\ stack[i].skip[2] \in Nat
         /\ stack[i].skip[3] \in 0..MaxDepth /\ Depth \in Nat
         /\ stack[i].special \in BOOLEAN
  <1>1. stack[i] \in Frames /\ Depth \in Nat
    BY DEF Depth
  <1>2. stack[i].skip \in Skips \X Nat \X (0..MaxDepth)
    BY <1>1 DEF Frames
  <1> QED
    BY <1>1, <1>2 DEF Frames

\* A construct begins.
LEMMA PushFacts ==
  ASSUME stack \in Seq(Frames), NEW f \in Frames, stack' = Append(stack, f)
  PROVE  /\ stack' \in Seq(Frames) /\ Depth \in Nat /\ Depth' = Depth + 1
         /\ stack'[Depth + 1] = f
         /\ \A i \in 1..Depth : stack'[i] = stack[i]
  BY DEF Depth

\* Constructs end, by return or by longjmp.
LEMMA CutFacts ==
  ASSUME stack \in Seq(Frames), NEW n \in 0..Depth, stack' = SubSeq(stack, 1, n)
  PROVE  /\ stack' \in Seq(Frames) /\ Depth' = n
         /\ \A i \in 1..n : stack'[i] = stack[i]
  BY DEF Depth

\* A function calls setjmp, or is over.
LEMMA ArmFacts ==
  ASSUME stack \in Seq(Frames), Depth > 0, NEW b \in BOOLEAN,
         stack' = [stack EXCEPT ![Depth].armed = b]
  PROVE  /\ stack' \in Seq(Frames) /\ Depth' = Depth
         /\ \A i \in 1..Depth - 1 : stack'[i] = stack[i]
         /\ stack'[Depth].armed = b /\ stack'[Depth].kind = stack[Depth].kind
         /\ stack'[Depth].handler = stack[Depth].handler
         /\ stack'[Depth].files = stack[Depth].files
         /\ stack'[Depth].dot = stack[Depth].dot
         /\ stack'[Depth].params = stack[Depth].params
         /\ stack'[Depth].localvars = stack[Depth].localvars
         /\ stack'[Depth].skip = stack[Depth].skip
  <1>1. Depth \in Nat /\ Depth \in 1..Depth /\ Depth = Len(stack)
    BY DEF Depth
  <1>2. stack[Depth] \in Frames
    BY <1>1
  <1> DEFINE g == [stack[Depth] EXCEPT !.armed = b]
  <1>3. /\ g \in Frames /\ g.armed = b /\ g.kind = stack[Depth].kind
        /\ g.handler = stack[Depth].handler /\ g.files = stack[Depth].files
        /\ g.params = stack[Depth].params /\ g.localvars = stack[Depth].localvars
        /\ g.dot = stack[Depth].dot /\ g.skip = stack[Depth].skip
    BY <1>2, Rearmed
  <1>4. stack' = [stack EXCEPT ![Depth] = g]
    OBVIOUS
  <1> HIDE DEF g
  <1>5. /\ stack' \in Seq(Frames) /\ Len(stack') = Len(stack)
        /\ stack'[Depth] = g
        /\ \A i \in 1..Depth - 1 : stack'[i] = stack[i]
    BY <1>1, <1>2, <1>3, <1>4
  <1>6. Depth' = Depth
    BY <1>5 DEF Depth
  <1> QED
    BY <1>3, <1>5, <1>6 DEF g

\* What is said of a prefix of the stack stays true when the prefix stays.
LEMMA PrefixSame ==
  ASSUME NEW n \in Nat, \A j \in 1..n : stack'[j] = stack[j], NEW i \in 0..n
  PROVE  Top(i)' = Top(i) /\ FileFrames(i)' = FileFrames(i)
  <1>1. \A j \in 1..i : stack'[j] = stack[j]
    OBVIOUS
  <1>2. {j \in 1..i : stack'[j].armed} = {j \in 1..i : stack[j].armed}
    BY <1>1
  <1>3. {j \in 1..i : stack'[j].kind \in {"eval", "dot", "trap"}} =
          {j \in 1..i : stack[j].kind \in {"eval", "dot", "trap"}}
    BY <1>1
  <1> QED
    BY <1>2, <1>3 DEF Top, FileFrames

\* The frames of a kind after a push, a pop and a cut.
LEMMA PushSets ==
  ASSUME stack \in Seq(Frames), NEW f \in Frames, stack' = Append(stack, f), NEW K
  PROVE  /\ FramesOf(K) \subseteq 1..Depth
         /\ f.kind \in K => FramesOf(K)' = FramesOf(K) \cup {Depth + 1}
         /\ f.kind \notin K => FramesOf(K)' = FramesOf(K)
  <1>1. /\ Depth \in Nat /\ Depth' = Depth + 1 /\ stack'[Depth + 1] = f
        /\ \A i \in 1..Depth : stack'[i] = stack[i]
    BY PushFacts
  <1>2. FramesOf(K) = {i \in 1..Depth : stack[i].kind \in K}
    BY DEF FramesOf
  <1>3. FramesOf(K)' = {i \in 1..Depth + 1 : stack'[i].kind \in K}
    BY <1>1 DEF FramesOf
  <1>4. 1..Depth + 1 = (1..Depth) \cup {Depth + 1}
    BY <1>1
  <1> QED
    BY <1>1, <1>2, <1>3, <1>4

LEMMA CutSets ==
  ASSUME stack \in Seq(Frames), NEW n \in 0..Depth, stack' = SubSeq(stack, 1, n), NEW K
  PROVE  /\ FramesOf(K) \subseteq 1..Depth /\ FramesOf(K)' \subseteq FramesOf(K)
         /\ FramesOf(K)' = {i \in FramesOf(K) : i <= n}
         /\ n = Depth - 1 /\ stack[Depth].kind \in K => FramesOf(K)' = FramesOf(K) \ {Depth}
         /\ n = Depth - 1 /\ stack[Depth].kind \notin K => FramesOf(K)' = FramesOf(K)
  BY CutFacts DEF FramesOf, Depth

\* The frames of functions after setjmp, and those that read commands.
LEMMA RunningSets ==
  ASSUME stack \in Seq(Frames)
  PROVE  /\ Running \subseteq 1..Depth /\ FramesOf({"loop"}) \subseteq 1..Depth
         /\ FileFrames(Depth) = FramesOf({"eval", "dot", "trap"})
         /\ FileFrames(Depth) \subseteq 1..Depth /\ Depth \in Nat
  BY DEF Running, FramesOf, FileFrames, Depth

LEMMA CutRunning ==
  ASSUME stack \in Seq(Frames), NEW n \in 0..Depth, stack' = SubSeq(stack, 1, n)
  PROVE  /\ Running' = {i \in Running : i <= n} /\ Running' \subseteq Running
         /\ n = Depth - 1 /\ Depth \in Running => Running' = Running \ {Depth}
         /\ n = Depth - 1 /\ Depth \notin Running => Running' = Running
  BY CutFacts DEF Running, Depth

LEMMA PushRunning ==
  ASSUME stack \in Seq(Frames), NEW f \in Frames, stack' = Append(stack, f),
         f.kind # "func" \/ ~f.armed
  PROVE  Running' = Running
  <1>1. /\ Depth \in Nat /\ Depth' = Depth + 1 /\ stack'[Depth + 1] = f
        /\ \A i \in 1..Depth : stack'[i] = stack[i]
    BY PushFacts
  <1>2. Running' = {i \in 1..Depth + 1 : stack'[i].kind = "func" /\ stack'[i].armed}
    BY <1>1 DEF Running
  <1>3. 1..Depth + 1 = (1..Depth) \cup {Depth + 1}
    BY <1>1
  <1> QED
    BY <1>1, <1>2, <1>3 DEF Running

LEMMA ArmRunning ==
  ASSUME stack \in Seq(Frames), Depth > 0, NEW b \in BOOLEAN, stack[Depth].kind = "func",
         stack' = [stack EXCEPT ![Depth].armed = b]
  PROVE  /\ b => Running' = Running \cup {Depth}
         /\ ~b => Running' = Running \ {Depth}
  <1>1. /\ Depth \in Nat /\ Depth' = Depth
        /\ \A i \in 1..Depth - 1 : stack'[i] = stack[i]
        /\ stack'[Depth].armed = b /\ stack'[Depth].kind = "func"
    BY ArmFacts DEF Depth
  <1>2. Running' = {i \in 1..Depth : stack'[i].kind = "func" /\ stack'[i].armed}
    BY <1>1 DEF Running
  <1>3. 1..Depth = (1..Depth - 1) \cup {Depth} /\ Depth \notin 1..Depth - 1
    BY <1>1
  <1> QED
    BY <1>1, <1>2, <1>3 DEF Running

\* How the numbers change with the stack.
LEMMA PushNumbers ==
  ASSUME stack \in Seq(Frames), NEW f \in Frames, stack' = Append(stack, f), NEW K
  PROVE  /\ Cardinality(FramesOf(K)) \in Nat
         /\ Cardinality(FramesOf(K))' =
              Cardinality(FramesOf(K)) + (IF f.kind \in K THEN 1 ELSE 0)
  <1>1. Depth \in Nat /\ FramesOf(K) \subseteq 1..Depth
    BY PushSets DEF Depth
  <1>2. Depth + 1 \notin FramesOf(K) /\ Depth + 1 \in 1..(Depth + 1)
    BY <1>1
  <1>3. Cardinality(FramesOf(K)) \in Nat
    BY <1>1, FramesCount
  <1>4. Cardinality(FramesOf(K) \cup {Depth + 1}) = Cardinality(FramesOf(K)) + 1
    BY <1>1, <1>2, FramesCount
  <1>5. CASE f.kind \in K
    <2>1. FramesOf(K)' = FramesOf(K) \cup {Depth + 1}
      BY <1>5, PushSets
    <2> QED
      BY <1>3, <1>4, <1>5, <2>1
  <1>6. CASE f.kind \notin K
    <2>1. FramesOf(K)' = FramesOf(K)
      BY <1>6, PushSets
    <2> QED
      BY <1>3, <1>6, <2>1
  <1> QED
    BY <1>5, <1>6

LEMMA CutNumbers ==
  ASSUME stack \in Seq(Frames), NEW n \in 0..Depth, stack' = SubSeq(stack, 1, n), NEW K
  PROVE  /\ Cardinality(FramesOf(K)) \in Nat /\ Cardinality(FramesOf(K))' \in Nat
         /\ Cardinality(FramesOf(K))' <= Cardinality(FramesOf(K))
         /\ n = Depth - 1 =>
              Cardinality(FramesOf(K)) =
                Cardinality(FramesOf(K))' + (IF stack[Depth].kind \in K THEN 1 ELSE 0)
  <1>1. Depth \in Nat /\ FramesOf(K) \subseteq 1..Depth
    BY CutSets DEF Depth
  <1>2. /\ Cardinality(FramesOf(K)) \in Nat /\ Cardinality(FramesOf(K))' \in Nat
        /\ Cardinality(FramesOf(K))' <= Cardinality(FramesOf(K))
    BY <1>1, CutSets, FramesCount
  <1>3. ASSUME n = Depth - 1, stack[Depth].kind \in K
        PROVE  Cardinality(FramesOf(K)) = Cardinality(FramesOf(K))' + 1
    <2>1. Depth \in FramesOf(K)
      BY <1>1, <1>3 DEF FramesOf
    <2>2. FramesOf(K)' = FramesOf(K) \ {Depth}
      BY <1>3, CutSets
    <2>3. Cardinality(FramesOf(K) \ {Depth}) = Cardinality(FramesOf(K)) - 1
      BY <1>1, <2>1, FramesCount
    <2> QED
      BY <1>2, <2>2, <2>3
  <1>4. ASSUME n = Depth - 1, stack[Depth].kind \notin K
        PROVE  Cardinality(FramesOf(K)) = Cardinality(FramesOf(K))'
    BY <1>4, CutSets
  <1> QED
    BY <1>2, <1>3, <1>4

LEMMA RunningNat == ASSUME stack \in Seq(Frames) PROVE Cardinality(Running) \in Nat
  BY RunningSets, FramesCount

LEMMA CutRunningNumbers ==
  ASSUME stack \in Seq(Frames), NEW n \in 0..Depth, stack' = SubSeq(stack, 1, n)
  PROVE  /\ Cardinality(Running)' \in Nat /\ Cardinality(Running) \in Nat
         /\ Cardinality(Running)' <= Cardinality(Running)
         /\ n = Depth - 1 /\ Depth \notin Running =>
              Cardinality(Running)' = Cardinality(Running)
  <1>1. Depth \in Nat /\ Running \subseteq 1..Depth
    BY RunningSets
  <1> QED
    BY <1>1, CutRunning, FramesCount

LEMMA ArmNumbers ==
  ASSUME stack \in Seq(Frames), Depth > 0, NEW b \in BOOLEAN, stack[Depth].kind = "func",
         stack' = [stack EXCEPT ![Depth].armed = b], b # stack[Depth].armed
  PROVE  /\ Cardinality(Running) \in Nat /\ Cardinality(Running)' \in Nat
         /\ b => Cardinality(Running)' = Cardinality(Running) + 1
         /\ ~b => Cardinality(Running) = Cardinality(Running)' + 1
  <1>1. Depth \in Nat /\ Depth \in 1..Depth /\ Running \subseteq 1..Depth
    BY RunningSets
  <1>2. CASE b
    <2>1. Depth \notin Running
      BY <1>2, FrameFacts DEF Running
    <2>2. Running' = Running \cup {Depth}
      BY <1>2, ArmRunning
    <2>3. Cardinality(Running \cup {Depth}) = Cardinality(Running) + 1 /\ Cardinality(Running) \in Nat
      BY <1>1, <2>1, FramesCount
    <2> QED
      BY <1>2, <2>2, <2>3
  <1>3. CASE ~b
    <2>1. Depth \in Running
      BY <1>1, <1>3, FrameFacts DEF Running
    <2>2. Running' = Running \ {Depth}
      BY <1>3, ArmRunning
    <2>3. /\ Cardinality(Running \ {Depth}) = Cardinality(Running) - 1
          /\ Cardinality(Running) \in Nat /\ Cardinality(Running) >= 1
      BY <1>1, <2>1, FramesCount
    <2> QED
      BY <1>3, <2>2, <2>3
  <1> QED
    BY <1>2, <1>3

\* Which frames Top names.
LEMMA TopFacts ==
  ASSUME NEW n \in Nat
  PROVE  Top(n) \in 0..n /\ (Top(n) # 0 => stack[Top(n)].armed)
  <1> DEFINE S == {i \in 1..n : stack[i].armed}
  <1>1. S \subseteq 1..n
    OBVIOUS
  <1>2. Innermost(S) \in 0..n /\ (Innermost(S) # 0 => Innermost(S) \in S)
    <2> HIDE DEF S
    <2> QED
      BY <1>1, InnermostRange
  <1> QED
    BY <1>2 DEF Top

LEMMA TopUnarmed ==
  ASSUME NEW n \in Nat, n > 0, ~stack[n].armed
  PROVE  Top(n) = Top(n - 1)
  <1>1. {i \in 1..n : stack[i].armed} = {i \in 1..n - 1 : stack[i].armed}
    OBVIOUS
  <1> QED
    BY <1>1 DEF Top

LEMMA TopArmed ==
  ASSUME NEW n \in Nat, n > 0, stack[n].armed
  PROVE  Top(n) = n
  <1> DEFINE S == {i \in 1..n : stack[i].armed}
  <1>1. S \subseteq Nat /\ n \in S /\ \A j \in S : j <= n
    OBVIOUS
  <1>2. Innermost(S) = n
    <2> HIDE DEF S
    <2> QED
      BY <1>1, InnermostIs
  <1> QED
    BY <1>2 DEF Top

-----------------------------------------------------------------------------
(* The invariant after a step that leaves the stack, one that begins a     *)
(* construct and one that ends some.                                       *)

\* Of the modes only those inside of a function's code bind the stack.
Within == {"f_params", "f_handler", "f_done"}

\* The stack stays.
LEMMA FlatInv ==
  ASSUME EInv, TypeOK', UNCHANGED <<stack, handler, loopnest, funcnest, files>>,
         \/ mode' = mode
         \/ mode' = "exc"
         \/ mode \in {"run", "ret"} /\ mode' \in {"run", "ret", "dead"}
         \/ mode = "f_params" /\ mode' = "f_handler",
         Counted(evalskip, skipcount)'
  PROVE  EInv'
  <1> USE DEF EInv
  <1>1. /\ Depth' = Depth /\ Inner' = Inner
        /\ \A n : Top(n)' = Top(n) /\ FileFrames(n)' = FileFrames(n)
        /\ FramesOf({"loop"})' = FramesOf({"loop"}) /\ Running' = Running
    BY DEF Depth, Inner, Top, FileFrames, FramesOf, Running
  <1>2. Chain'
    BY <1>1 DEF Chain
  <1>3. Places'
    BY <1>1 DEF Places
  <1>4. Levels'
    BY <1>1 DEF Levels
  <1>5. SkipCounts'
    BY <1>1 DEF SkipCounts, Counted
  <1> QED
    BY <1>2, <1>3, <1>4, <1>5

\* Outside of a function's own code every frame below the innermost, and outside
\* of an exception every frame, has called setjmp if it ever does.
LEMMA Settled ==
  ASSUME Places, stack \in Seq(Frames)
  PROVE  /\ \A i \in 1..Depth - 1 : stack[i].kind \notin {"loop", "trap"} => stack[i].armed
         /\ mode \in {"run", "ret", "dead"} =>
              \A i \in 1..Depth : stack[i].kind \notin {"loop", "trap"} => stack[i].armed
  BY DEF Places, Depth

\* A construct begins: the handlers, ...
LEMMA PushChain ==
  ASSUME Chain, stack \in Seq(Frames), NEW f \in Frames, stack' = Append(stack, f),
         f.handler = handler, f.armed => handler' = Depth + 1, ~f.armed => handler' = handler
  PROVE  Chain'
  <1>1. /\ Depth \in Nat /\ Depth' = Depth + 1
        /\ stack'[Depth + 1] = f /\ \A i \in 1..Depth : stack'[i] = stack[i]
    BY PushFacts
  <1>2. \A i \in 0..Depth : Top(i)' = Top(i)
    BY <1>1, PrefixSame
  <1>3. \A i \in 1..Depth : i - 1 \in 0..Depth
    BY <1>1
  <1>4. f.armed \in BOOLEAN /\ 1..Depth + 1 = (1..Depth) \cup {Depth + 1}
    BY <1>1 DEF Frames
  <1>5. Top(Depth)' = handler'
    <2>1. CASE f.armed
      <3> DEFINE S == {i \in 1..Depth + 1 : stack'[i].armed}
      <3>0. S \subseteq Nat /\ \A j \in S : j <= Depth + 1
        BY <1>1
      <3>1. Depth + 1 \in S
        <4>1. Depth + 1 \in 1..Depth + 1
          BY <1>1
        <4>2. stack'[Depth + 1].armed
          BY <1>1, <2>1
        <4> QED
          BY <4>1, <4>2
      <3>2. Innermost(S) = Depth + 1
        <4> HIDE DEF S
        <4> QED
          BY <3>0, <3>1, InnermostIs
      <3> QED
        BY <1>1, <2>1, <3>2 DEF Top, Innermost
    <2>2. CASE ~f.armed
      <3>1. {i \in 1..Depth + 1 : stack'[i].armed} = {i \in 1..Depth : stack[i].armed}
        BY <1>1, <1>4, <2>2
      <3>2. Top(Depth)' = Top(Depth)
        <4>1. Top(Depth)' = Innermost({i \in 1..Depth + 1 : stack'[i].armed})
          BY <1>1 DEF Top, Innermost
        <4>2. Top(Depth) = Innermost({i \in 1..Depth : stack[i].armed})
          BY DEF Top
        <4> QED
          BY <3>1, <4>1, <4>2, Zenon
      <3> QED
        BY <2>2, <3>2 DEF Chain
    <2> QED
      BY <2>1, <2>2
  <1>6. ASSUME NEW i \in 1..Depth + 1, stack'[i].armed
        PROVE  stack'[i].handler = Top(i - 1)'
    <2>1. CASE i = Depth + 1
      <3>0. i - 1 = Depth
        BY ONLY <1>1, <2>1, SMT
      <3>1. i - 1 = Depth /\ stack'[i] = f
        BY <1>1, <2>1, <3>0
      <3>2. Top(i - 1)' = Top(Depth)
        BY <1>1, <1>2, <3>1
      <3> QED
        BY <3>1, <3>2 DEF Chain
    <2>2. CASE i \in 1..Depth
      BY <1>1, <1>2, <1>3, <1>6, <2>2 DEF Chain
    <2> QED
      BY <1>4, <2>1, <2>2
  <1> QED
    BY <1>1, <1>5, <1>6 DEF Chain

\* ... the kinds and the modes, ...
LEMMA PushPlaces ==
  ASSUME Places, stack \in Seq(Frames), NEW f \in Frames, stack' = Append(stack, f),
         mode \in {"run", "ret"},
         \/ f.kind \in {"loop", "trap"} /\ ~f.armed /\ mode' \in {"run", "ret"}
         \/ f.kind = "func" /\ ~f.armed /\ f.handler = handler' /\ mode' = "f_params"
         \/ f.kind \in {"redir", "eval", "dot"} /\ f.armed /\ mode' \in {"run", "ret"}
  PROVE  Places'
  <1>1. /\ Depth \in Nat /\ Depth' = Depth + 1
        /\ stack'[Depth + 1] = f /\ \A i \in 1..Depth : stack'[i] = stack[i]
    BY PushFacts
  <1>2. 1..Depth + 1 = (1..Depth) \cup {Depth + 1}
    BY <1>1
  <1>3. Inner' = f /\ Depth' > 0
    BY <1>1 DEF Inner, Depth
  <1>4. \A i \in 1..Depth : /\ stack[i].kind \in {"loop", "trap"} => ~stack[i].armed
                            /\ stack[i].kind \notin {"loop", "trap"} => stack[i].armed
    BY Settled DEF Places
  <1>5. ASSUME NEW i \in 1..Depth'
        PROVE  /\ stack'[i].kind \in {"loop", "trap"} => ~stack'[i].armed
               /\ stack'[i].kind \notin {"loop", "trap"} =>
                    \/ stack'[i].armed
                    \/ /\ i = Depth' /\ stack'[i].kind = "func"
                       /\ mode' \in {"f_params", "f_handler", "f_done", "exc"}
    <2>1. CASE i \in 1..Depth
      <3>1. stack'[i] = stack[i]
        BY <1>1, <2>1
      <3> QED
        BY <1>4, <2>1, <3>1
    <2>2. CASE i = Depth + 1
      <3>1. stack'[i] = f /\ i = Depth'
        BY <1>1, <2>2
      <3> QED
        BY <3>1
    <2>3. i \in 1..Depth \/ i = Depth + 1
      BY <1>1, <1>2
    <2> QED
      BY <2>1, <2>2, <2>3
  <1> HIDE DEF Depth
  <1> QED
    BY <1>3, <1>5 DEF Places

\* ... the levels ...
LEMMA PushLevels ==
  ASSUME Levels, TypeOK, NEW f \in Frames, stack' = Append(stack, f),
         f.files = files, f.kind # "func" \/ ~f.armed,
         f.kind = "loop" => loopnest' = loopnest + 1,
         f.kind # "loop" => loopnest' = loopnest,
         f.kind \in {"eval", "dot", "trap"} => files' = files + 1,
         f.kind \notin {"eval", "dot", "trap"} => files' = files,
         funcnest' = funcnest
  PROVE  Levels'
  <1>0. stack \in Seq(Frames) /\ loopnest \in Nat /\ files \in Nat
    BY DEF TypeOK
  <1>1. /\ Depth \in Nat /\ Depth' = Depth + 1
        /\ stack'[Depth + 1] = f /\ \A i \in 1..Depth : stack'[i] = stack[i]
    BY <1>0, PushFacts
  <1>2. \A i \in 0..Depth : FileFrames(i)' = FileFrames(i)
    BY <1>1, PrefixSame
  <1>3. loopnest' >= Cardinality(FramesOf({"loop"}))'
    <2>1. /\ Cardinality(FramesOf({"loop"})) \in Nat
          /\ Cardinality(FramesOf({"loop"}))' =
               Cardinality(FramesOf({"loop"})) + (IF f.kind \in {"loop"} THEN 1 ELSE 0)
      BY <1>0, PushNumbers
    <2>2. loopnest >= Cardinality(FramesOf({"loop"}))
      BY DEF Levels
    <2>3. CASE f.kind = "loop"
      BY <1>0, <2>1, <2>2, <2>3
    <2>4. CASE f.kind # "loop"
      BY <1>0, <2>1, <2>2, <2>4
    <2> QED
      BY <2>3, <2>4
  <1>4. funcnest' >= Cardinality(Running)'
    <2>1. Running' = Running
      BY <1>0, PushRunning
    <2> QED
      BY <2>1 DEF Levels
  <1>5. files' >= Cardinality(FileFrames(Depth))'
    <2>1. /\ FileFrames(Depth) = FramesOf({"eval", "dot", "trap"})
          /\ FileFrames(Depth)' = FramesOf({"eval", "dot", "trap"})'
      BY DEF FileFrames, FramesOf
    <2>2. /\ Cardinality(FileFrames(Depth)) \in Nat
          /\ Cardinality(FileFrames(Depth))' = Cardinality(FileFrames(Depth))
               + (IF f.kind \in {"eval", "dot", "trap"} THEN 1 ELSE 0)
      BY <1>0, <2>1, PushNumbers
    <2>3. files >= Cardinality(FileFrames(Depth))
      BY DEF Levels
    <2>4. CASE f.kind \in {"eval", "dot", "trap"}
      BY <1>0, <2>2, <2>3, <2>4
    <2>5. CASE f.kind \notin {"eval", "dot", "trap"}
      BY <1>0, <2>2, <2>3, <2>5
    <2> QED
      BY <2>4, <2>5
  <1>6. ASSUME NEW i \in 1..Depth'
        PROVE  stack'[i].files >= Cardinality(FileFrames(i - 1))'
    <2>1. CASE i = Depth + 1
      <3>0. i - 1 = Depth
        BY ONLY <1>1, <2>1, SMT
      <3>1. i - 1 = Depth /\ stack'[i] = f
        BY <1>1, <2>1, <3>0
      <3>2. FileFrames(i - 1)' = FileFrames(Depth)
        BY <1>1, <1>2, <3>1
      <3>3. files >= Cardinality(FileFrames(Depth))
        BY DEF Levels
      <3> QED
        BY <3>1, <3>2, <3>3
    <2>2. CASE i \in 1..Depth
      <3>1. FileFrames(i - 1)' = FileFrames(i - 1)
        BY <1>1, <1>2, <2>2
      <3>2. stack'[i].files >= Cardinality(FileFrames(i - 1))
        BY <1>1, <2>2 DEF Levels
      <3> QED
        BY <3>1, <3>2
    <2>3. i \in 1..Depth \/ i = Depth + 1
      BY <1>1
    <2> QED
      BY <2>1, <2>2, <2>3
  <1> QED
    BY <1>3, <1>4, <1>5, <1>6 DEF Levels

\* ... and the saved skip states.
LEMMA PushSkips ==
  ASSUME SkipCounts, stack \in Seq(Frames), NEW f \in Frames, stack' = Append(stack, f),
         f.skip = skp, UNCHANGED skp
  PROVE  SkipCounts'
  <1>1. /\ Depth \in Nat /\ Depth' = Depth + 1
        /\ stack'[Depth + 1] = f /\ \A i \in 1..Depth : stack'[i] = stack[i]
    BY PushFacts
  <1>2. f.skip[1] = evalskip /\ f.skip[2] = skipcount
    BY DEF skp
  <1>3. UNCHANGED <<evalskip, skipcount>>
    BY DEF skp
  <1>4. ASSUME NEW i \in 1..Depth'
        PROVE  Counted(stack'[i].skip[1], stack'[i].skip[2])
    <2>1. CASE i = Depth + 1
      <3>1. stack'[i] = f
        BY <1>1, <2>1
      <3> QED
        BY <1>2, <3>1 DEF SkipCounts
    <2>2. CASE i \in 1..Depth
      BY <1>1, <2>2 DEF SkipCounts
    <2>3. i \in 1..Depth \/ i = Depth + 1
      BY <1>1
    <2> QED
      BY <2>1, <2>2, <2>3
  <1> QED
    BY <1>3, <1>4 DEF SkipCounts, Counted

\* Constructs end.
LEMMA CutInv ==
  ASSUME EInv, TypeOK', NEW n \in 0..Depth, stack' = SubSeq(stack, 1, n), handler' = Top(n),
         \A i \in 1..n : stack[i].kind \notin {"loop", "trap"} => stack[i].armed,
         mode' \notin Within,
         loopnest' >= Cardinality(FramesOf({"loop"}))',
         funcnest' >= Cardinality(Running)',
         files' >= Cardinality(FileFrames(n)),
         Counted(evalskip, skipcount)'
  PROVE  EInv'
  <1> USE DEF EInv
  <1>1. /\ stack \in Seq(Frames) /\ Depth \in Nat /\ Depth' = n
        /\ \A i \in 1..n : stack'[i] = stack[i]
    <2>1. stack \in Seq(Frames)
      BY DEF TypeOK
    <2> QED
      BY <2>1, CutFacts, RunningSets
  <1>2. \A i \in 0..n : Top(i)' = Top(i) /\ FileFrames(i)' = FileFrames(i)
    BY <1>1, PrefixSame
  <1>3. Chain'
    BY <1>1, <1>2 DEF Chain
  <1>4. Places'
    BY <1>1 DEF Places, Within
  <1>5. Levels'
    <2>1. Cardinality(FileFrames(Depth))' = Cardinality(FileFrames(n))
      BY <1>1, <1>2
    <2>2. \A i \in 1..n : FileFrames(i - 1)' = FileFrames(i - 1) /\ i \in 1..Depth
      BY <1>1, <1>2
    <2> QED
      BY <1>1, <2>1, <2>2 DEF Levels
  <1>6. SkipCounts'
    BY <1>1 DEF SkipCounts, Counted
  <1> QED
    BY <1>3, <1>4, <1>5, <1>6

\* The levels when constructs end.
LEMMA CutLevels ==
  ASSUME Levels, TypeOK, NEW n \in 0..Depth, stack' = SubSeq(stack, 1, n)
  PROVE  /\ loopnest >= Cardinality(FramesOf({"loop"}))'
         /\ n = Depth - 1 /\ stack[Depth].kind = "loop" =>
              loopnest - 1 \in Nat /\ loopnest - 1 >= Cardinality(FramesOf({"loop"}))'
         /\ funcnest >= Cardinality(Running)'
         /\ files >= Cardinality(FileFrames(n))
         /\ n = Depth - 1 /\ stack[Depth].kind \in {"eval", "dot", "trap"} =>
              files - 1 \in Nat /\ files - 1 >= Cardinality(FileFrames(n))
         /\ stack' \in Seq(Frames) /\ Len(stack') <= MaxDepth
  <1>0. stack \in Seq(Frames) /\ loopnest \in Nat /\ files \in Nat /\ funcnest \in Nat
    BY DEF TypeOK
  <1>1. /\ Depth \in Nat /\ Depth' = n /\ stack' \in Seq(Frames)
        /\ \A i \in 1..n : stack'[i] = stack[i]
    BY <1>0, CutFacts, RunningSets
  <1>2. FileFrames(n) = FramesOf({"eval", "dot", "trap"})'
    BY <1>1 DEF FileFrames, FramesOf
  <1>3. FileFrames(Depth) = FramesOf({"eval", "dot", "trap"})
    BY DEF FileFrames, FramesOf
  <1>4. /\ loopnest >= Cardinality(FramesOf({"loop"})) /\ funcnest >= Cardinality(Running)
        /\ files >= Cardinality(FileFrames(Depth))
    BY DEF Levels
  <1>5. /\ Cardinality(FramesOf({"loop"})) \in Nat /\ Cardinality(FramesOf({"loop"}))' \in Nat
        /\ Cardinality(FramesOf({"loop"}))' <= Cardinality(FramesOf({"loop"}))
        /\ n = Depth - 1 =>
             Cardinality(FramesOf({"loop"})) =
               Cardinality(FramesOf({"loop"}))' + (IF stack[Depth].kind \in {"loop"} THEN 1 ELSE 0)
    BY <1>0, CutNumbers
  <1>6. /\ Cardinality(FileFrames(Depth)) \in Nat /\ Cardinality(FileFrames(n)) \in Nat
        /\ Cardinality(FileFrames(n)) <= Cardinality(FileFrames(Depth))
        /\ n = Depth - 1 =>
             Cardinality(FileFrames(Depth)) = Cardinality(FileFrames(n))
               + (IF stack[Depth].kind \in {"eval", "dot", "trap"} THEN 1 ELSE 0)
    BY <1>0, <1>2, <1>3, CutNumbers
  <1>7. /\ Cardinality(Running)' \in Nat /\ Cardinality(Running) \in Nat
        /\ Cardinality(Running)' <= Cardinality(Running)
    BY <1>0, CutRunningNumbers
  <1>8. Len(stack') <= MaxDepth
    <2>1. Len(stack) <= MaxDepth /\ Depth = Len(stack)
      BY DEF TypeOK, Depth
    <2>2. Len(stack') = n
      BY <1>1 DEF Depth
    <2> QED
      BY <1>1, <2>1, <2>2
  <1>9. n = Depth - 1 /\ stack[Depth].kind = "loop" =>
              loopnest - 1 \in Nat /\ loopnest - 1 >= Cardinality(FramesOf({"loop"}))'
    <2> SUFFICES ASSUME n = Depth - 1, stack[Depth].kind = "loop"
                 PROVE  loopnest - 1 \in Nat /\ loopnest - 1 >= Cardinality(FramesOf({"loop"}))'
      OBVIOUS
    <2>1. Cardinality(FramesOf({"loop"})) = Cardinality(FramesOf({"loop"}))' + 1
      BY <1>5
    <2> QED
      BY ONLY <1>0, <1>4, <1>5, <2>1
  <1>10. n = Depth - 1 /\ stack[Depth].kind \in {"eval", "dot", "trap"} =>
              files - 1 \in Nat /\ files - 1 >= Cardinality(FileFrames(n))
    <2> SUFFICES ASSUME n = Depth - 1, stack[Depth].kind \in {"eval", "dot", "trap"}
                 PROVE  files - 1 \in Nat /\ files - 1 >= Cardinality(FileFrames(n))
      OBVIOUS
    <2>1. Cardinality(FileFrames(Depth)) = Cardinality(FileFrames(n)) + 1
      BY <1>6
    <2>2. Cardinality(FileFrames(Depth)) \in Nat /\ Cardinality(FileFrames(n)) \in Nat
      BY <1>6
    <2> QED
      BY ONLY <1>0, <1>4, <2>1, <2>2
  <1>11. loopnest >= Cardinality(FramesOf({"loop"}))'
    BY ONLY <1>0, <1>4, <1>5
  <1>12. funcnest >= Cardinality(Running)'
    BY ONLY <1>0, <1>4, <1>7
  <1>13. files >= Cardinality(FileFrames(n))
    BY ONLY <1>0, <1>4, <1>6
  <1> QED
    BY <1>1, <1>8, <1>9, <1>10, <1>11, <1>12, <1>13

\* The frame that an exception goes to.
LEMMA Caught ==
  ASSUME EInv, handler > 0
  PROVE  /\ handler \in 1..Depth /\ handler - 1 \in 0..Depth
         /\ stack[handler].armed /\ stack[handler].handler = Top(handler - 1)
         /\ \A i \in 1..(handler - 1) : stack[i].kind \notin {"loop", "trap"} => stack[i].armed
         /\ Top(handler - 1) \in 0..MaxDepth
         /\ stack[handler].files >= Cardinality(FileFrames(handler - 1))
         /\ stack[handler].files \in Nat
  <1> USE DEF EInv
  <1>1. stack \in Seq(Frames) /\ Depth \in Nat /\ Depth <= MaxDepth
    BY DEF TypeOK, Depth
  <1>2. handler \in 0..Depth /\ stack[handler].armed
    BY <1>1, TopFacts DEF Chain
  <1>3. handler \in 1..Depth /\ handler - 1 \in 0..Depth /\ handler - 1 \in Nat
    BY <1>1, <1>2
  <1>4. stack[handler].handler = Top(handler - 1)
    BY <1>2, <1>3 DEF Chain
  <1>5. \A i \in 1..(handler - 1) : stack[i].kind \notin {"loop", "trap"} => stack[i].armed
    <2>1. \A i \in 1..(handler - 1) : i \in 1..Depth - 1
      BY <1>1, <1>3
    <2> QED
      BY <1>1, <2>1, Settled
  <1>6. Top(handler - 1) \in 0..MaxDepth
    <2>1. Top(handler - 1) \in 0..handler - 1
      BY <1>3, TopFacts
    <2> QED
      BY <1>1, <1>3, <2>1
  <1>7. stack[handler].files >= Cardinality(FileFrames(handler - 1))
    BY <1>3 DEF Levels
  <1>8. stack[handler].files \in Nat
    BY <1>1, <1>3, FrameFacts
  <1> QED
    BY <1>2, <1>3, <1>4, <1>5, <1>6, <1>7, <1>8

\* The frame that returns.
LEMMA Returned ==
  ASSUME EInv, mode = "ret", Depth > 0
  PROVE  /\ Depth \in Nat /\ Depth \in 1..Depth /\ Depth - 1 \in 0..Depth /\ Depth <= MaxDepth
         /\ stack \in Seq(Frames) /\ Inner = stack[Depth] /\ Len(stack) = Depth
         /\ Pop(stack) = SubSeq(stack, 1, Depth - 1)
         /\ \A i \in 1..Depth : stack[i].kind \notin {"loop", "trap"} => stack[i].armed
         /\ \A i \in 1..(Depth - 1) : stack[i].kind \notin {"loop", "trap"} => stack[i].armed
         /\ stack[Depth].armed => stack[Depth].handler = Top(Depth - 1)
         /\ ~stack[Depth].armed => handler = Top(Depth - 1)
         /\ Top(Depth - 1) \in 0..MaxDepth
  <1> USE DEF EInv
  <1>1. stack \in Seq(Frames) /\ Depth \in Nat /\ Depth <= MaxDepth /\ Depth = Len(stack)
    BY DEF TypeOK, Depth
  <1>2. Depth \in 1..Depth /\ Depth - 1 \in 0..Depth /\ Depth - 1 \in Nat
    BY <1>1
  <1>3. Inner = stack[Depth] /\ Pop(stack) = SubSeq(stack, 1, Depth - 1)
    BY <1>1 DEF Inner, Pop
  <1>4. \A i \in 1..Depth : stack[i].kind \notin {"loop", "trap"} => stack[i].armed
    BY <1>1, Settled
  <1>5. \A i \in 1..(Depth - 1) : i \in 1..Depth
    BY <1>1
  <1>6. stack[Depth].armed => stack[Depth].handler = Top(Depth - 1)
    BY <1>2 DEF Chain
  <1>7. ~stack[Depth].armed => handler = Top(Depth - 1)
    BY <1>1, TopUnarmed DEF Chain
  <1>8. Top(Depth - 1) \in 0..MaxDepth
    <2>1. Top(Depth - 1) \in 0..Depth - 1
      BY <1>2, TopFacts
    <2> QED
      BY <1>1, <2>1
  <1> QED
    BY <1>1, <1>2, <1>3, <1>4, <1>5, <1>6, <1>7, <1>8

\* A table is popped, or pushed.
LEMMA RedirTypes ==
  ASSUME TypeOK
  PROVE  /\ Pop(redirs) \in Seq(1..(MaxDepth + 1))
         /\ Append(redirs, Depth + 1) \in Seq(1..(MaxDepth + 1))
  <1>1. redirs \in Seq(1..(MaxDepth + 1)) /\ Depth + 1 \in 1..(MaxDepth + 1)
    BY DEF TypeOK, Depth
  <1>2. Pop(redirs) \in Seq(1..(MaxDepth + 1))
    <2> DEFINE R == 1..(MaxDepth + 1)
    <2>1. redirs \in Seq(R)
      BY <1>1
    <2> HIDE DEF R
    <2>2. Pop(redirs) \in Seq(R)
      BY <2>1 DEF Pop
    <2> QED
      BY <2>2 DEF R
  <1> QED
    BY <1>1, <1>2

-----------------------------------------------------------------------------
(* The actions keep the inductive invariant.                               *)

LEMMA EInitially == Init => EInv
  <1> SUFFICES ASSUME Init PROVE EInv
    OBVIOUS
  <1>1. Depth = 0 /\ stack = <<>>
    BY DEF Init, Depth
  <1>2. TypeOK
    <2>1. /\ stack \in Seq(Frames) /\ Len(stack) <= MaxDepth
          /\ redirs \in Seq(1..(MaxDepth + 1))
      BY DEF Init
    <2>2. /\ handler \in 0..MaxDepth /\ aim \in 0..MaxDepth /\ params \in 0..MaxDepth
          /\ localvars \in 0..MaxDepth /\ shadowed \subseteq 1..MaxDepth
          /\ ncmds \in 0..MaxCmds /\ nints \in 0..MaxInts /\ ntraps \in 0..MaxTraps
          /\ skipcount \in Nat /\ loopnest \in Nat /\ funcnest \in Nat
          /\ dot_funcnest \in Nat /\ files \in Nat /\ suppressint \in Nat
      BY DEF Init
    <2>3. /\ mode \in Modes /\ exception \in {"none", "ERROR", "INT"}
          /\ evalskip \in Skips /\ intpending \in BOOLEAN
      BY DEF Init, Skips, Modes
    <2> QED
      BY <2>1, <2>2, <2>3 DEF TypeOK
  <1>3. FramesOf({"loop"}) = {} /\ Running = {} /\ FileFrames(Depth) = {} /\ Top(Depth) = 0
    <2>1. {i \in 1..Depth : stack[i].armed} = {}
      BY <1>1
    <2> QED
      BY <1>1, <2>1, InnermostNone DEF FramesOf, Running, FileFrames, Top
  <1>4. Cardinality({}) = 0
    BY FS_EmptySet
  <1> QED
    BY <1>1, <1>2, <1>3, <1>4
    DEF Init, EInv, Chain, Places, Levels, SkipCounts, Counted

\* The steps that leave the stack of constructs alone.
LEMMA FlatTypes ==
  ASSUME TypeOK, UNCHANGED <<stack, handler, skp, nst, files, lcl>>,
         mode' \in Modes, exception' \in {"none", "ERROR", "INT"},
         redirs' \in Seq(1..(MaxDepth + 1)), suppressint' \in Nat, intpending' \in BOOLEAN,
         ncmds' \in 0..MaxCmds, nints' \in 0..MaxInts, ntraps' \in 0..MaxTraps
  PROVE  TypeOK'
  BY DEF TypeOK, skp, nst, lcl

\* A command that raises an exception.
LEMMA RaiseTypes ==
  ASSUME TypeOK, RaiseError, NewCommand, UNCHANGED <<stack, handler, skp, nst, files, lcl>>,
         redirs' \in Seq(1..(MaxDepth + 1))
  PROVE  TypeOK'
  <1>1. mode' \in Modes /\ exception' \in {"none", "ERROR", "INT"}
    BY DEF RaiseError, Modes
  <1>2. suppressint' \in Nat /\ intpending' \in BOOLEAN
    <2>1. suppressint \in Nat
      BY DEF TypeOK
    <2>2. suppressint' = suppressint + 1 /\ intpending' = FALSE
      BY DEF RaiseError
    <2>3. suppressint' \in Nat
      BY <2>1, <2>2
    <2>4. intpending' \in BOOLEAN
      BY <2>2
    <2> QED
      BY <2>3, <2>4
  <1>3. ncmds' \in 0..MaxCmds /\ nints' \in 0..MaxInts /\ ntraps' \in 0..MaxTraps
    BY DEF NewCommand, TypeOK
  <1> QED
    BY <1>1, <1>2, <1>3, FlatTypes

LEMMA EInterrupt == ASSUME EInv, Interrupt PROVE EInv'
  <1>1. TypeOK'
    <2>1. /\ mode' \in Modes /\ exception' \in {"none", "ERROR", "INT"}
          /\ intpending' \in BOOLEAN
      BY DEF EInv, TypeOK, Interrupt, Modes
    <2>2. ncmds' \in 0..MaxCmds /\ nints' \in 0..MaxInts /\ ntraps' \in 0..MaxTraps
      BY DEF EInv, TypeOK, Interrupt
    <2>3. UNCHANGED <<stack, handler, skp, nst, files, lcl, redirs, suppressint>>
      BY DEF Interrupt
    <2>4. TypeOK /\ redirs' \in Seq(1..(MaxDepth + 1)) /\ suppressint' \in Nat
      BY <2>3 DEF EInv, TypeOK
    <2> QED
      BY <2>1, <2>2, <2>3, <2>4, FlatTypes
  <1> QED
    BY <1>1, FlatInv DEF EInv, Interrupt, skp, nst, SkipCounts, Counted

LEMMA EBuiltin == ASSUME EInv, Builtin PROVE EInv'
  <1>1. TypeOK'
    BY DEF EInv, TypeOK, Builtin, skp, nst, lcl, itr, bnd, Modes
  <1> QED
    BY <1>1, FlatInv DEF EInv, Builtin, skp, nst, SkipCounts, Counted

LEMMA EExternal == ASSUME EInv, External PROVE EInv'
  <1>1. TypeOK'
    BY DEF EInv, TypeOK, External, ForceInton, skp, nst, lcl, itr, bnd, Modes
  <1> QED
    BY <1>1, FlatInv DEF EInv, External, ForceInton, skp, nst, SkipCounts, Counted

LEMMA ELocal == ASSUME EInv, Local PROVE EInv'
  <1>1. TypeOK'
    <2>1. UNCHANGED <<stack, handler, exception, skp, nst, redirs, files, params, localvars, itr>>
      BY DEF Local
    <2>2. ncmds' \in 0..MaxCmds /\ nints' \in 0..MaxInts /\ ntraps' \in 0..MaxTraps
      BY DEF EInv, TypeOK, Local, NewCommand
    <2>3. shadowed' \subseteq 1..MaxDepth
      BY DEF EInv, TypeOK, Local
    <2>4. mode' \in Modes
      BY DEF Local, Modes
    <2> QED
      BY <2>1, <2>2, <2>3, <2>4 DEF EInv, TypeOK, skp, nst, itr
  <1> QED
    BY <1>1, FlatInv DEF EInv, Local, NewCommand, skp, nst, SkipCounts, Counted

LEMMA EBreak ==
  ASSUME EInv, NEW skip \in {"break", "cont"}, NEW n \in 1..2, Break(skip, n)
  PROVE  EInv'
  <1> DEFINE count == IF n > loopnest THEN loopnest ELSE n
             loops == FramesOf({"loop"})
             far == IF n > Cardinality(loops) THEN Cardinality(loops) ELSE n
             A == {i \in loops : Cardinality({j \in loops : j >= i}) >= far}
  <1>0. stack \in Seq(Frames) /\ Depth \in Nat /\ Depth <= MaxDepth /\ loopnest \in Nat
    BY DEF EInv, TypeOK, Depth
  <1>1. A \subseteq 1..Depth
    BY DEF FramesOf
  <1>2. Innermost(A) \in 0..MaxDepth
    <2> HIDE DEF A
    <2>1. Innermost(A) \in 0..Depth
      BY <1>0, <1>1, InnermostRange
    <2> QED
      BY <1>0, <2>1
  <1>3. \/ count > 0 /\ evalskip' = skip /\ skipcount' = count /\ aim' = Innermost(A)
        \/ UNCHANGED skp
    BY DEF Break
  <1>4. count \in Nat
    BY <1>0
  <1>5. /\ UNCHANGED <<stack, handler, exception, nst, redirs, files, lcl, itr>>
        /\ mode = "run" /\ mode' = "ret"
        /\ ncmds < MaxCmds /\ ncmds' = ncmds + 1 /\ UNCHANGED <<nints, ntraps>>
    BY DEF Break, NewCommand
  <1> HIDE DEF A, count
  <1>6. evalskip' \in Skips /\ skipcount' \in Nat /\ aim' \in 0..MaxDepth /\ Counted(evalskip, skipcount)'
    <2>1. CASE count > 0 /\ evalskip' = skip /\ skipcount' = count /\ aim' = Innermost(A)
      BY <1>2, <1>4, <2>1 DEF Skips, Counted
    <2>2. CASE UNCHANGED skp
      BY <2>2 DEF skp, EInv, TypeOK, SkipCounts, Counted
    <2> QED
      BY <1>3, <2>1, <2>2
  <1>7. TypeOK'
    <2>1. ncmds' \in 0..MaxCmds
      BY <1>5 DEF EInv, TypeOK
    <2> QED
      BY <1>5, <1>6, <2>1 DEF EInv, TypeOK, nst, lcl, itr, Modes
  <1> QED
    BY <1>5, <1>6, <1>7, FlatInv DEF nst

LEMMA EReturn == ASSUME EInv, Return PROVE EInv'
  <1>0. Depth \in Nat /\ Depth <= MaxDepth
    BY DEF EInv, TypeOK, Depth
  <1>1. Innermost(FramesOf({"func", "dot"})) \in 0..MaxDepth
    <2>1. FramesOf({"func", "dot"}) \subseteq 1..Depth
      BY DEF FramesOf
    <2>2. Innermost(FramesOf({"func", "dot"})) \in 0..Depth
      BY <1>0, <2>1, InnermostRange
    <2> QED
      BY <1>0, <2>2
  <1>2. /\ UNCHANGED <<stack, handler, exception, nst, redirs, files, lcl, itr>>
        /\ mode = "run" /\ mode' = "ret"
        /\ ncmds < MaxCmds /\ ncmds' = ncmds + 1 /\ UNCHANGED <<nints, ntraps>>
    BY DEF Return, NewCommand
  <1>3. \/ /\ evalskip' \in {"func", "file"} /\ skipcount' = 1
           /\ aim' = Innermost(FramesOf({"func", "dot"}))
        \/ UNCHANGED skp
    BY DEF Return
  <1>4. /\ evalskip' \in Skips /\ skipcount' \in Nat /\ aim' \in 0..MaxDepth
        /\ Counted(evalskip, skipcount)'
    BY <1>1, <1>3 DEF skp, EInv, TypeOK, SkipCounts, Counted, Skips
  <1>5. TypeOK'
    <2>1. ncmds' \in 0..MaxCmds
      BY <1>2 DEF EInv, TypeOK
    <2> QED
      BY <1>2, <1>4, <2>1 DEF EInv, TypeOK, nst, lcl, itr, Modes
  <1> QED
    BY <1>2, <1>4, <1>5, FlatInv DEF nst

\* Commands that fail.
LEMMA EExpansionError == ASSUME EInv, ExpansionError PROVE EInv'
  <1>1. TypeOK'
    <2>1. redirs' = redirs /\ UNCHANGED <<stack, handler, skp, nst, files, lcl>>
      BY DEF ExpansionError
    <2> QED
      BY <2>1, RaiseTypes DEF EInv, TypeOK, ExpansionError
  <1> QED
    BY <1>1, FlatInv
    DEF EInv, ExpansionError, RaiseError, skp, nst, SkipCounts, Counted

LEMMA ESpecialError == ASSUME EInv, SpecialError PROVE EInv'
  <1>1. redirs' \in Seq(1..(MaxDepth + 1))
    BY RedirTypes DEF EInv, SpecialError
  <1>2. TypeOK'
    BY <1>1, RaiseTypes DEF EInv, SpecialError
  <1> QED
    BY <1>2, FlatInv DEF EInv, SpecialError, RaiseError, skp, nst, SkipCounts, Counted

LEMMA ERegularError == ASSUME EInv, RegularError PROVE EInv'
  <1>1. TypeOK'
    <2>1. mode' \in Modes /\ intpending' \in BOOLEAN /\ suppressint' \in Nat
      BY DEF RegularError, Modes
    <2>2. ncmds' \in 0..MaxCmds /\ nints' \in 0..MaxInts /\ ntraps' \in 0..MaxTraps
      BY DEF EInv, TypeOK, RegularError, NewCommand
    <2>3. UNCHANGED <<stack, handler, exception, skp, nst, redirs, files, lcl>>
      BY DEF RegularError
    <2>4. /\ TypeOK /\ redirs' \in Seq(1..(MaxDepth + 1))
          /\ exception' \in {"none", "ERROR", "INT"}
      BY <2>3 DEF EInv, TypeOK
    <2> QED
      BY <2>1, <2>2, <2>3, <2>4, FlatTypes
  <1> QED
    BY <1>1, FlatInv DEF EInv, RegularError, NewCommand, skp, nst, SkipCounts, Counted

LEMMA EFuncRedirFails == ASSUME EInv, FuncRedirFails PROVE EInv'
  <1>1. redirs' \in Seq(1..(MaxDepth + 1))
    BY RedirTypes DEF EInv, FuncRedirFails
  <1>2. TypeOK'
    BY <1>1, RaiseTypes DEF EInv, FuncRedirFails, NewConstruct
  <1> QED
    BY <1>2, FlatInv DEF EInv, FuncRedirFails, RaiseError, skp, nst, SkipCounts, Counted

LEMMA ERedirFails == ASSUME EInv, RedirFails PROVE EInv'
  <1>1. TypeOK'
    <2>1. mode' \in Modes /\ intpending' \in BOOLEAN
      BY DEF RedirFails, Modes
    <2>2. /\ ncmds' \in 0..MaxCmds /\ nints' \in 0..MaxInts /\ ntraps' \in 0..MaxTraps
          /\ suppressint' \in Nat
      BY DEF EInv, TypeOK, RedirFails, NewConstruct, NewCommand
    <2>3. UNCHANGED <<stack, handler, exception, skp, nst, redirs, files, lcl>>
      BY DEF RedirFails
    <2>4. /\ TypeOK /\ redirs' \in Seq(1..(MaxDepth + 1))
          /\ exception' \in {"none", "ERROR", "INT"}
      BY <2>3 DEF EInv, TypeOK
    <2> QED
      BY <2>1, <2>2, <2>3, <2>4, FlatTypes
  <1> QED
    BY <1>1, FlatInv
    DEF EInv, RedirFails, NewConstruct, NewCommand, skp, nst, SkipCounts, Counted

LEMMA ETopReturns == ASSUME EInv, TopReturns PROVE EInv'
  <1>1. mode = "ret" /\ mode' \in {"run", "dead"}
    BY DEF TopReturns
  <1>2. TypeOK'
    BY <1>1 DEF EInv, TypeOK, TopReturns, skp, nst, lcl, itr, bnd, Modes
  <1> QED
    BY <1>1, <1>2, FlatInv DEF EInv, TopReturns, skp, nst, SkipCounts, Counted

\* A function's parameters are set.
LEMMA EFuncParams == ASSUME EInv, FuncParams PROVE EInv'
  <1>1. Depth \in 0..MaxDepth
    BY DEF EInv, TypeOK, Depth
  <1>2. TypeOK'
    BY <1>1 DEF EInv, TypeOK, FuncParams, skp, nst, itr, bnd, Modes
  <1> QED
    BY <1>2, FlatInv DEF EInv, FuncParams, skp, nst, SkipCounts, Counted

\* The steps that begin a construct.
LEMMA PushTypes ==
  ASSUME TypeOK, Depth < MaxDepth, NEW f \in Frames, stack' = Append(stack, f)
  PROVE  /\ stack \in Seq(Frames) /\ stack' \in Seq(Frames) /\ Len(stack') <= MaxDepth
         /\ Depth + 1 \in 0..MaxDepth
  BY DEF TypeOK, Depth

LEMMA PushInv ==
  ASSUME EInv, TypeOK', NEW f \in Frames, stack' = Append(stack, f), mode \in {"run", "ret"},
         f.handler = handler, f.files = files, f.skip = skp,
         \/ /\ f.kind \in {"loop", "trap"} /\ f.armed = FALSE
            /\ handler' = handler /\ mode' \in {"run", "ret"}
         \/ f.kind = "func" /\ f.armed = FALSE /\ handler' = handler /\ mode' = "f_params"
         \/ /\ f.kind \in {"redir", "eval", "dot"} /\ f.armed = TRUE
            /\ handler' = Depth + 1 /\ mode' \in {"run", "ret"},
         f.kind = "loop" => loopnest' = loopnest + 1,
         f.kind # "loop" => loopnest' = loopnest,
         f.kind \in {"eval", "dot", "trap"} => files' = files + 1,
         f.kind \notin {"eval", "dot", "trap"} => files' = files,
         funcnest' = funcnest, UNCHANGED skp
  PROVE  EInv'
  <1>1. stack \in Seq(Frames) /\ TypeOK /\ Chain /\ Places /\ Levels /\ SkipCounts
    BY DEF EInv, TypeOK
  <1>2. (f.armed => handler' = Depth + 1) /\ (~f.armed => handler' = handler)
    OBVIOUS
  <1>3. Chain'
    BY <1>1, <1>2, PushChain
  <1>4. Places'
    BY <1>1, PushPlaces
  <1>5. Levels'
    BY <1>1, PushLevels
  <1>6. SkipCounts'
    BY <1>1, PushSkips
  <1> QED
    BY <1>3, <1>4, <1>5, <1>6 DEF EInv

LEMMA ELoopBegin == ASSUME EInv, LoopBegin PROVE EInv'
  <1> DEFINE f == Frame("loop", FALSE)
  <1>1. /\ f \in Frames /\ f.kind = "loop" /\ f.armed = FALSE /\ f.handler = handler
        /\ f.files = files /\ f.skip = skp
    BY FrameType DEF EInv, FrameKinds
  <1>2. stack' = Append(stack, f)
    BY DEF LoopBegin, Begin
  <1>3. /\ mode = "run" /\ Depth < MaxDepth /\ ncmds < MaxCmds /\ ncmds' = ncmds + 1
        /\ UNCHANGED <<nints, ntraps>> /\ loopnest' = loopnest + 1
        /\ UNCHANGED <<mode, handler, exception, skp, funcnest, dot_funcnest, redirs,
                       files, lcl, itr>>
    BY DEF LoopBegin, NewConstruct, NewCommand
  <1> HIDE DEF f
  <1>4. TypeOK'
    <2>1. stack' \in Seq(Frames) /\ Len(stack') <= MaxDepth
      BY <1>1, <1>2, <1>3, PushTypes DEF EInv
    <2>2. ncmds' \in 0..MaxCmds /\ loopnest' \in Nat
      BY <1>3 DEF EInv, TypeOK
    <2> QED
      BY <1>3, <2>1, <2>2 DEF EInv, TypeOK, skp, lcl, itr
  <1> QED
    BY <1>1, <1>2, <1>3, <1>4, PushInv

LEMMA EFuncBegin == ASSUME EInv, FuncBegin PROVE EInv'
  <1> DEFINE f == Frame("func", FALSE)
  <1>1. /\ f \in Frames /\ f.kind = "func" /\ f.armed = FALSE /\ f.handler = handler
        /\ f.files = files /\ f.skip = skp
    BY FrameType DEF EInv, FrameKinds
  <1>2. stack' = Append(stack, f)
    BY DEF FuncBegin, Begin
  <1>3. /\ mode = "run" /\ mode' = "f_params" /\ Depth < MaxDepth /\ ncmds < MaxCmds
        /\ ncmds' = ncmds + 1 /\ UNCHANGED <<nints, ntraps>>
        /\ UNCHANGED <<handler, exception, skp, nst, files, lcl, itr>>
        /\ redirs' = Append(redirs, Depth + 1)
    BY DEF FuncBegin, NewConstruct, NewCommand
  <1> HIDE DEF f
  <1>4. TypeOK'
    <2>1. stack' \in Seq(Frames) /\ Len(stack') <= MaxDepth
      BY <1>1, <1>2, <1>3, PushTypes DEF EInv
    <2>2. ncmds' \in 0..MaxCmds
      BY <1>3 DEF EInv, TypeOK
    <2>3. redirs' \in Seq(1..(MaxDepth + 1))
      BY <1>3, RedirTypes DEF EInv
    <2> QED
      BY <1>3, <2>1, <2>2, <2>3 DEF EInv, TypeOK, skp, nst, lcl, itr, Modes
  <1> QED
    BY <1>1, <1>2, <1>3, <1>4, PushInv DEF nst

LEMMA ERedirBegin == ASSUME EInv, RedirBegin PROVE EInv'
  <1> DEFINE f == [Frame("redir", FALSE) EXCEPT !.armed = TRUE]
  <1>1. /\ f \in Frames /\ f.kind = "redir" /\ f.armed = TRUE /\ f.handler = handler
        /\ f.files = files /\ f.skip = skp
    <2> DEFINE g == Frame("redir", FALSE)
    <2>1. /\ g \in Frames /\ g.kind = "redir" /\ g.handler = handler
          /\ g.files = files /\ g.skip = skp
      BY FrameType DEF EInv, FrameKinds
    <2> HIDE DEF g
    <2>2. LET h == [g EXCEPT !.armed = TRUE]
          IN  /\ h \in Frames /\ h.armed = TRUE /\ h.kind = g.kind
              /\ h.handler = g.handler /\ h.files = g.files /\ h.skip = g.skip
      BY <2>1, Rearmed
    <2>3. f = [g EXCEPT !.armed = TRUE]
      BY DEF g
    <2> QED
      BY <2>1, <2>2, <2>3
  <1>2. stack' = Append(stack, f)
    BY DEF RedirBegin, Armed
  <1>3. /\ mode = "run" /\ Depth < MaxDepth /\ ncmds < MaxCmds
        /\ ncmds' = ncmds + 1 /\ UNCHANGED <<nints, ntraps>>
        /\ UNCHANGED <<mode, exception, skp, nst, files, lcl, itr>>
        /\ redirs' = Append(redirs, Depth + 1) /\ handler' = Depth + 1
    BY DEF RedirBegin, NewConstruct, NewCommand
  <1> HIDE DEF f
  <1>4. TypeOK'
    <2>1. stack' \in Seq(Frames) /\ Len(stack') <= MaxDepth /\ Depth + 1 \in 0..MaxDepth
      BY <1>1, <1>2, <1>3, PushTypes DEF EInv
    <2>2. ncmds' \in 0..MaxCmds
      BY <1>3 DEF EInv, TypeOK
    <2>3. redirs' \in Seq(1..(MaxDepth + 1))
      BY <1>3, RedirTypes DEF EInv
    <2> QED
      BY <1>3, <2>1, <2>2, <2>3 DEF EInv, TypeOK, skp, nst, lcl, itr, Modes
  <1> QED
    BY <1>1, <1>2, <1>3, <1>4, PushInv DEF nst

LEMMA EBuiltinBegin ==
  ASSUME EInv, NEW k \in {"eval", "dot"}, NEW special \in BOOLEAN, BuiltinBegin(k, special)
  PROVE  EInv'
  <1> DEFINE f == [Frame(k, special) EXCEPT !.armed = TRUE]
  <1>1. /\ f \in Frames /\ f.kind = k /\ f.armed = TRUE /\ f.handler = handler
        /\ f.files = files /\ f.skip = skp
    <2> DEFINE g == Frame(k, special)
    <2>0. k \in FrameKinds
      BY DEF FrameKinds
    <2>1. /\ g \in Frames /\ g.kind = k /\ g.handler = handler
          /\ g.files = files /\ g.skip = skp
      BY <2>0, FrameType DEF EInv
    <2> HIDE DEF g
    <2>2. LET h == [g EXCEPT !.armed = TRUE]
          IN  /\ h \in Frames /\ h.armed = TRUE /\ h.kind = g.kind
              /\ h.handler = g.handler /\ h.files = g.files /\ h.skip = g.skip
      BY <2>1, Rearmed
    <2>3. f = [g EXCEPT !.armed = TRUE]
      BY DEF g
    <2> QED
      BY <2>1, <2>2, <2>3
  <1>2. stack' = Append(stack, f)
    BY DEF BuiltinBegin, Armed
  <1>3. /\ mode = "run" /\ Depth < MaxDepth /\ ncmds < MaxCmds
        /\ ncmds' = ncmds + 1 /\ UNCHANGED <<nints, ntraps>>
        /\ UNCHANGED <<mode, exception, skp, loopnest, funcnest, lcl, itr>>
        /\ redirs' = Append(redirs, Depth + 1) /\ handler' = Depth + 1
        /\ files' = files + 1
        /\ dot_funcnest' = funcnest + 1 \/ dot_funcnest' = dot_funcnest
    BY DEF BuiltinBegin, NewConstruct, NewCommand
  <1> HIDE DEF f
  <1>4. TypeOK'
    <2>1. stack' \in Seq(Frames) /\ Len(stack') <= MaxDepth /\ Depth + 1 \in 0..MaxDepth
      BY <1>1, <1>2, <1>3, PushTypes DEF EInv
    <2>2. ncmds' \in 0..MaxCmds /\ files' \in Nat /\ dot_funcnest' \in Nat
      BY <1>3 DEF EInv, TypeOK
    <2>3. redirs' \in Seq(1..(MaxDepth + 1))
      BY <1>3, RedirTypes DEF EInv
    <2> QED
      BY <1>3, <2>1, <2>2, <2>3 DEF EInv, TypeOK, skp, lcl, itr, Modes
  <1>5. f.kind # "loop" /\ f.kind \in {"eval", "dot", "trap"} /\ f.kind \in {"redir", "eval", "dot"}
    BY <1>1
  <1> QED
    BY <1>1, <1>2, <1>3, <1>4, <1>5, PushInv

LEMMA ETrapBegin == ASSUME EInv, TrapBegin PROVE EInv'
  <1> DEFINE f == Frame("trap", FALSE)
  <1>1. /\ f \in Frames /\ f.kind = "trap" /\ f.armed = FALSE /\ f.handler = handler
        /\ f.files = files /\ f.skip = skp
    BY FrameType DEF EInv, FrameKinds
  <1>2. stack' = Append(stack, f)
    BY DEF TrapBegin, Begin
  <1>3. /\ mode = "ret" /\ mode' = "run" /\ Depth < MaxDepth /\ ntraps < MaxTraps
        /\ ntraps' = ntraps + 1 /\ files' = files + 1
        /\ UNCHANGED <<handler, exception, skp, nst, redirs, lcl, itr, ncmds, nints>>
    BY DEF TrapBegin
  <1> HIDE DEF f
  <1>4. TypeOK'
    <2>1. stack' \in Seq(Frames) /\ Len(stack') <= MaxDepth
      BY <1>1, <1>2, <1>3, PushTypes DEF EInv
    <2>2. ntraps' \in 0..MaxTraps /\ files' \in Nat
      BY <1>3 DEF EInv, TypeOK
    <2> QED
      BY <1>3, <2>1, <2>2 DEF EInv, TypeOK, skp, nst, lcl, itr, Modes
  <1> QED
    BY <1>1, <1>2, <1>3, <1>4, PushInv DEF nst

\* The steps that end constructs: an exception is caught.
LEMMA CatchCut ==
  ASSUME EInv, TypeOK', handler > 0,
         stack' = SubSeq(stack, 1, handler - 1), handler' = stack[handler].handler,
         UNCHANGED <<skp, nst>>, files' = files \/ files' = stack[handler].files,
         mode' \notin Within
  PROVE  EInv'
  <1>1. /\ handler - 1 \in 0..Depth /\ stack[handler].handler = Top(handler - 1)
        /\ \A i \in 1..(handler - 1) : stack[i].kind \notin {"loop", "trap"} => stack[i].armed
        /\ stack[handler].files >= Cardinality(FileFrames(handler - 1))
    BY Caught
  <1>2. /\ loopnest >= Cardinality(FramesOf({"loop"}))' /\ funcnest >= Cardinality(Running)'
        /\ files >= Cardinality(FileFrames(handler - 1))
    BY <1>1, CutLevels DEF EInv
  <1>3. loopnest' = loopnest /\ funcnest' = funcnest
    BY DEF nst
  <1>4. Counted(evalskip, skipcount)'
    BY DEF EInv, SkipCounts, Counted, skp
  <1>5. files' >= Cardinality(FileFrames(handler - 1))
    BY <1>1, <1>2
  <1>6. loopnest' >= Cardinality(FramesOf({"loop"}))' /\ funcnest' >= Cardinality(Running)'
    BY <1>2, <1>3
  <1> QED
    BY <1>1, <1>4, <1>5, <1>6, CutInv

LEMMA CatchTypes ==
  ASSUME EInv, handler > 0, stack' = SubSeq(stack, 1, handler - 1),
         handler' = stack[handler].handler
  PROVE  /\ stack' \in Seq(Frames) /\ Len(stack') <= MaxDepth /\ handler' \in 0..MaxDepth
         /\ stack[handler].params \in 0..MaxDepth /\ stack[handler].localvars \in 0..MaxDepth
         /\ stack[handler].files \in Nat
  <1>1. handler \in 1..Depth /\ handler - 1 \in 0..Depth
    BY Caught
  <1>2. stack \in Seq(Frames)
    BY DEF EInv, TypeOK
  <1>3. stack' \in Seq(Frames) /\ Len(stack') <= MaxDepth
    BY <1>1, CutLevels DEF EInv
  <1> QED
    BY <1>1, <1>2, <1>3, FrameFacts

LEMMA ECatchFunction == ASSUME EInv, CatchFunction PROVE EInv'
  <1>1. /\ handler > 0 /\ stack' = SubSeq(stack, 1, handler - 1)
        /\ handler' = stack[handler].handler /\ params' = stack[handler].params
        /\ localvars' = stack[handler].localvars /\ shadowed' \subseteq shadowed
        /\ redirs' = Pop(redirs) /\ mode = "exc"
        /\ UNCHANGED <<mode, exception, skp, nst, files, itr, bnd>>
    BY DEF CatchFunction, PopLocals
  <1>2. TypeOK'
    <2>1. /\ stack' \in Seq(Frames) /\ Len(stack') <= MaxDepth /\ handler' \in 0..MaxDepth
          /\ params' \in 0..MaxDepth /\ localvars' \in 0..MaxDepth
      BY <1>1, CatchTypes
    <2>2. redirs' \in Seq(1..(MaxDepth + 1)) /\ shadowed' \subseteq 1..MaxDepth
      BY <1>1, RedirTypes DEF EInv, TypeOK
    <2> QED
      BY <1>1, <2>1, <2>2 DEF EInv, TypeOK, skp, nst, itr, bnd
  <1>3. mode' \notin Within
    BY <1>1 DEF Within
  <1> QED
    BY <1>1, <1>2, <1>3, CatchCut

LEMMA ECatchRedir == ASSUME EInv, CatchRedir PROVE EInv'
  <1>1. /\ handler > 0 /\ stack' = SubSeq(stack, 1, handler - 1)
        /\ handler' = stack[handler].handler /\ redirs' = Pop(redirs) /\ mode = "exc"
        /\ UNCHANGED <<mode, exception, skp, nst, files, lcl, itr, bnd>>
    BY DEF CatchRedir
  <1>2. TypeOK'
    <2>1. stack' \in Seq(Frames) /\ Len(stack') <= MaxDepth /\ handler' \in 0..MaxDepth
      BY <1>1, CatchTypes
    <2>2. redirs' \in Seq(1..(MaxDepth + 1))
      BY <1>1, RedirTypes DEF EInv
    <2> QED
      BY <1>1, <2>1, <2>2 DEF EInv, TypeOK, skp, nst, lcl, itr, bnd
  <1>3. mode' \notin Within
    BY <1>1 DEF Within
  <1> QED
    BY <1>1, <1>2, <1>3, CatchCut

LEMMA ECatchBuiltin == ASSUME EInv, CatchBuiltin PROVE EInv'
  <1>1. /\ handler > 0 /\ stack' = SubSeq(stack, 1, handler - 1)
        /\ handler' = stack[handler].handler /\ mode = "exc"
        /\ UNCHANGED <<skp, nst, lcl, bnd>>
    BY DEF CatchBuiltin
  <1>2. /\ redirs' = redirs \/ redirs' = Pop(redirs)
        /\ files' = files \/ files' = stack[handler].files
        /\ mode' \in {"exc", "ret"} /\ (exception' = exception \/ exception' = "INT")
        /\ suppressint' = suppressint \/ suppressint' = 0
        /\ intpending' = intpending \/ intpending' = FALSE
    BY <1>1 DEF CatchBuiltin, ForceInton, itr
  <1>3. TypeOK'
    <2>1. /\ stack' \in Seq(Frames) /\ Len(stack') <= MaxDepth /\ handler' \in 0..MaxDepth
          /\ stack[handler].files \in Nat
      BY <1>1, CatchTypes
    <2>2. redirs' \in Seq(1..(MaxDepth + 1))
      BY <1>2, RedirTypes DEF EInv, TypeOK
    <2>3. files' \in Nat
      BY <1>2, <2>1 DEF EInv, TypeOK
    <2>4. mode' \in Modes /\ exception' \in {"none", "ERROR", "INT"}
      BY <1>2 DEF EInv, TypeOK, Modes
    <2>5. suppressint' \in Nat
      BY <1>2 DEF EInv, TypeOK
    <2>6. intpending' \in BOOLEAN
      BY <1>2 DEF EInv, TypeOK
    <2> QED
      BY <1>1, <2>1, <2>2, <2>3, <2>4, <2>5, <2>6 DEF EInv, TypeOK, skp, nst, lcl, bnd
  <1>4. mode' \notin Within
    BY <1>2 DEF Within
  <1> QED
    BY <1>1, <1>2, <1>3, <1>4, CatchCut

LEMMA ECatchMain == ASSUME EInv, CatchMain PROVE EInv'
  <1>1. /\ mode = "exc" /\ handler = 0 /\ stack' = <<>>
        /\ UNCHANGED <<handler, lcl, bnd>>
    BY DEF CatchMain
  <1>2. /\ mode' \in {"exc", "run"} /\ (exception' = exception \/ exception' = "INT")
        /\ suppressint' = 0 /\ intpending' = FALSE
    BY <1>1 DEF CatchMain, ForceInton
  <1>3. /\ evalskip' \in {"none", evalskip} /\ skipcount' = skipcount /\ aim' = aim
        /\ (evalskip' = evalskip \/ evalskip' = "none")
    BY DEF CatchMain, Reset, skp
  <1>4. /\ loopnest' \in Nat /\ funcnest' \in Nat /\ dot_funcnest' \in Nat /\ files' \in Nat
    BY DEF CatchMain, Reset, nst, EInv, TypeOK
  <1>5. redirs' \in Seq(1..(MaxDepth + 1))
    <2>1. redirs' = redirs \/ redirs' = <<>>
      BY DEF CatchMain, Reset
    <2>2. redirs \in Seq(1..(MaxDepth + 1))
      BY DEF EInv, TypeOK
    <2>3. << >> \in Seq(1..(MaxDepth + 1))
      OBVIOUS
    <2> QED
      BY <2>1, <2>2, <2>3, Zenon
  <1>6. TypeOK'
    <2>1. mode' \in Modes /\ exception' \in {"none", "ERROR", "INT"} /\ evalskip' \in Skips
      BY <1>2, <1>3 DEF EInv, TypeOK, Modes, Skips
    <2>2. suppressint' \in Nat
      BY <1>2
    <2>3. intpending' \in BOOLEAN
      BY <1>2
    <2>4. stack' \in Seq(Frames) /\ Len(stack') <= MaxDepth
      BY <1>1
    <2> QED
      BY <1>1, <1>3, <1>4, <1>5, <2>1, <2>2, <2>3, <2>4 DEF EInv, TypeOK, lcl, bnd
  <1>7. Depth' = 0
    BY <1>1 DEF Depth
  <1>8. FramesOf({"loop"})' = {} /\ Running' = {} /\ FileFrames(Depth)' = {} /\ Top(Depth)' = 0
    <2>1. Top(Depth)' = Innermost({i \in 1..0 : stack'[i].armed})
      BY <1>7 DEF Top, Innermost
    <2>2. {i \in 1..0 : stack'[i].armed} = {}
      OBVIOUS
    <2>3. Top(Depth)' = 0
      BY <2>1, <2>2, InnermostNone
    <2> QED
      BY <1>7, <2>3 DEF FramesOf, Running, FileFrames
  <1>9. Cardinality({}) = 0
    BY FS_EmptySet
  <1>10. Chain'
    BY <1>1, <1>7, <1>8 DEF Chain
  <1>11. Places'
    BY <1>2, <1>7 DEF Places
  <1>12. Levels'
    BY <1>4, <1>7, <1>8, <1>9 DEF Levels
  <1>13. SkipCounts'
    BY <1>3, <1>7 DEF EInv, SkipCounts, Counted
  <1> QED
    BY <1>6, <1>10, <1>11, <1>12, <1>13 DEF EInv

\* A construct returns.
LEMMA ReturnCut ==
  ASSUME EInv, TypeOK', mode = "ret", Depth > 0, mode' = "ret",
         stack' = SubSeq(stack, 1, Depth - 1), handler' = Top(Depth - 1),
         stack[Depth].kind = "loop" => loopnest' = loopnest - 1,
         stack[Depth].kind # "loop" => loopnest' = loopnest,
         funcnest' = funcnest,
         stack[Depth].kind \in {"eval", "dot", "trap"} => files' = files - 1,
         stack[Depth].kind \notin {"eval", "dot", "trap"} => files' = files,
         Counted(evalskip, skipcount)'
  PROVE  EInv'
  <1> DEFINE n == Depth - 1
  <1>1. /\ n \in 0..Depth /\ stack' = SubSeq(stack, 1, n) /\ handler' = Top(n) /\ n = Depth - 1
        /\ \A i \in 1..n : stack[i].kind \notin {"loop", "trap"} => stack[i].armed
    BY Returned
  <1> HIDE DEF n
  <1>2. /\ loopnest >= Cardinality(FramesOf({"loop"}))'
        /\ stack[Depth].kind = "loop" => loopnest - 1 >= Cardinality(FramesOf({"loop"}))'
        /\ funcnest >= Cardinality(Running)'
        /\ files >= Cardinality(FileFrames(n))
        /\ stack[Depth].kind \in {"eval", "dot", "trap"} =>
             files - 1 >= Cardinality(FileFrames(n))
    BY <1>1, CutLevels DEF EInv
  <1>3. loopnest' >= Cardinality(FramesOf({"loop"}))'
    BY <1>2
  <1>4. files' >= Cardinality(FileFrames(n))
    BY <1>2
  <1>5. funcnest' >= Cardinality(Running)'
    BY <1>2
  <1>6. mode' \notin Within
    BY DEF Within
  <1> QED
    BY <1>1, <1>3, <1>4, <1>5, <1>6, CutInv

LEMMA ReturnTypes ==
  ASSUME EInv, mode = "ret", Depth > 0
  PROVE  /\ SubSeq(stack, 1, Depth - 1) \in Seq(Frames)
         /\ Len(SubSeq(stack, 1, Depth - 1)) <= MaxDepth
         /\ stack[Depth].kind = "loop" => loopnest - 1 \in Nat
         /\ stack[Depth].kind \in {"eval", "dot", "trap"} => files - 1 \in Nat
  <1> DEFINE n == Depth - 1
  <1>0. stack \in Seq(Frames) /\ Len(stack) <= MaxDepth /\ Depth = Len(stack)
        /\ loopnest \in Nat /\ files \in Nat
    BY DEF EInv, TypeOK, Depth
  <1>1. Depth \in Nat /\ Depth \in 1..Depth /\ n \in 0..Depth
    BY Returned
  <1>2. SubSeq(stack, 1, n) \in Seq(Frames) /\ Len(SubSeq(stack, 1, n)) = n
    BY <1>0, <1>1
  <1>3. ASSUME stack[Depth].kind = "loop" PROVE loopnest - 1 \in Nat
    <2>1. Depth \in FramesOf({"loop"}) /\ FramesOf({"loop"}) \subseteq 1..Depth
      BY <1>1, <1>3 DEF FramesOf
    <2>2. Cardinality(FramesOf({"loop"})) >= 1 /\ Cardinality(FramesOf({"loop"})) \in Nat
      BY <1>1, <2>1, FramesCount
    <2>3. loopnest >= Cardinality(FramesOf({"loop"}))
      BY DEF EInv, Levels
    <2> QED
      BY ONLY <1>0, <2>2, <2>3
  <1>4. ASSUME stack[Depth].kind \in {"eval", "dot", "trap"} PROVE files - 1 \in Nat
    <2>1. Depth \in FileFrames(Depth) /\ FileFrames(Depth) \subseteq 1..Depth
      BY <1>1, <1>4 DEF FileFrames
    <2>2. Cardinality(FileFrames(Depth)) >= 1 /\ Cardinality(FileFrames(Depth)) \in Nat
      BY <1>1, <2>1, FramesCount
    <2>3. files >= Cardinality(FileFrames(Depth))
      BY DEF EInv, Levels
    <2> QED
      BY ONLY <1>0, <2>2, <2>3
  <1>5. Len(SubSeq(stack, 1, n)) <= MaxDepth
    BY <1>0, <1>1, <1>2
  <1> QED
    BY <1>2, <1>3, <1>4, <1>5

LEMMA ELoopReturns == ASSUME EInv, LoopReturns PROVE EInv'
  <1>1. /\ mode = "ret" /\ Depth > 0 /\ Inner.kind = "loop"
        /\ UNCHANGED <<handler, exception, funcnest, dot_funcnest, redirs, files, lcl, itr, bnd>>
        /\ LoopAgain \/ LoopEnd
    BY DEF LoopReturns
  <1>2. /\ Inner = stack[Depth] /\ stack[Depth].kind = "loop" /\ stack[Depth].armed = FALSE
        /\ handler = Top(Depth - 1) /\ Pop(stack) = SubSeq(stack, 1, Depth - 1)
    <2>1. Inner = stack[Depth] /\ Depth \in 1..Depth /\ stack \in Seq(Frames)
      BY <1>1, Returned
    <2>2. ~stack[Depth].armed /\ stack[Depth].armed \in BOOLEAN
      BY <1>1, <2>1, FrameFacts DEF EInv, Places
    <2> QED
      BY <1>1, <2>1, <2>2, Returned
  <1>3. /\ aim' = aim /\ evalskip' \in Skips /\ skipcount' \in Nat
        /\ Counted(evalskip, skipcount)'
    <2>1. skipcount \in Nat /\ evalskip \in Skips
      BY DEF EInv, TypeOK
    <2>2. CASE evalskip \in {"cont", "break"}
      <3>1. skipcount >= 1
        BY <2>2 DEF EInv, SkipCounts, Counted
      <3>2. /\ skipcount' = skipcount - 1 /\ aim' = aim
            /\ evalskip' = IF skipcount <= 1 THEN "none" ELSE evalskip
        BY <2>2 DEF LoopReturns
      <3>3. CASE skipcount <= 1
        <4>1. evalskip' = "none"
          BY <3>2, <3>3
        <4>2. skipcount' \in Nat
          BY ONLY <2>1, <3>1, <3>2
        <4> QED
          BY <3>2, <4>1, <4>2 DEF Skips, Counted
      <3>4. CASE ~(skipcount <= 1)
        <4>1. evalskip' = evalskip
          BY <3>2, <3>4
        <4>2. skipcount' \in Nat /\ skipcount' >= 1
          BY ONLY <2>1, <3>1, <3>2, <3>4
        <4> QED
          BY <2>1, <3>2, <4>1, <4>2 DEF Counted
      <3> QED
        BY <3>3, <3>4
    <2>3. CASE evalskip \notin {"cont", "break"}
      <3>1. UNCHANGED <<evalskip, skipcount, aim>>
        BY <2>3 DEF LoopReturns, skp
      <3> QED
        BY <2>1, <2>3, <3>1 DEF Counted
    <2> QED
      BY <2>2, <2>3
  <1>4. CASE LoopAgain
    <2>1. UNCHANGED <<stack, loopnest>> /\ mode' = "run"
      BY <1>4 DEF LoopAgain
    <2>2. TypeOK'
      BY <1>1, <1>3, <2>1 DEF EInv, TypeOK, lcl, itr, bnd, Modes
    <2> QED
      BY <1>1, <1>3, <2>1, <2>2, FlatInv
  <1>5. CASE LoopEnd
    <2>1. stack' = SubSeq(stack, 1, Depth - 1) /\ loopnest' = loopnest - 1 /\ mode' = mode
      BY <1>2, <1>5 DEF LoopEnd
    <2>2. TypeOK'
      <3>1. stack' \in Seq(Frames) /\ Len(stack') <= MaxDepth /\ loopnest' \in Nat
        BY <1>1, <1>2, <2>1, ReturnTypes
      <3> QED
        BY <1>1, <1>3, <2>1, <3>1 DEF EInv, TypeOK, lcl, itr, bnd
    <2>3. handler' = Top(Depth - 1)
      BY <1>1, <1>2
    <2> QED
      BY <1>1, <1>2, <1>3, <2>1, <2>2, <2>3, ReturnCut
  <1> QED
    BY <1>1, <1>4, <1>5

LEMMA ERedirReturns == ASSUME EInv, RedirReturns PROVE EInv'
  <1>1. /\ mode = "ret" /\ Depth > 0 /\ Inner.kind = "redir" /\ handler' = Inner.handler
        /\ redirs' = Pop(redirs) /\ stack' = Pop(stack)
        /\ UNCHANGED <<mode, exception, skp, nst, files, lcl, itr, bnd>>
    BY DEF RedirReturns
  <1>2. /\ stack[Depth].kind = "redir" /\ handler' = Top(Depth - 1)
        /\ stack' = SubSeq(stack, 1, Depth - 1) /\ handler' \in 0..MaxDepth
    BY <1>1, Returned
  <1>3. TypeOK'
    <2>1. stack' \in Seq(Frames) /\ Len(stack') <= MaxDepth
      BY <1>1, <1>2, ReturnTypes
    <2>2. redirs' \in Seq(1..(MaxDepth + 1))
      BY <1>1, RedirTypes DEF EInv
    <2> QED
      BY <1>1, <1>2, <2>1, <2>2 DEF EInv, TypeOK, skp, nst, lcl, itr, bnd
  <1>4. UNCHANGED <<loopnest, funcnest, evalskip, skipcount>>
    BY <1>1 DEF nst, skp
  <1>5. Counted(evalskip, skipcount)'
    BY <1>4 DEF EInv, SkipCounts, Counted
  <1> QED
    BY <1>1, <1>2, <1>3, <1>4, <1>5, ReturnCut

\* The end of an eval, a dot file or a trap action.
LEMMA BuiltinEnds ==
  ASSUME EInv, mode = "ret", Depth > 0, Inner.kind \in {"eval", "dot"}, BuiltinEnd,
         UNCHANGED <<exception, loopnest, funcnest, lcl, itr, bnd>>,
         dot_funcnest' \in Nat, evalskip' \in Skips, skipcount' \in Nat, aim' = aim,
         Counted(evalskip, skipcount)'
  PROVE  EInv'
  <1>1. /\ files' = files - 1 /\ handler' = Inner.handler /\ redirs' = Pop(redirs)
        /\ stack' = Pop(stack) /\ mode' = mode
    BY DEF BuiltinEnd
  <1>2. /\ stack[Depth].kind \in {"eval", "dot", "trap"} /\ handler' = Top(Depth - 1)
        /\ stack[Depth].kind # "loop"
        /\ stack' = SubSeq(stack, 1, Depth - 1) /\ handler' \in 0..MaxDepth
    BY <1>1, Returned
  <1>3. TypeOK'
    <2>1. stack' \in Seq(Frames) /\ Len(stack') <= MaxDepth /\ files' \in Nat
      BY <1>1, <1>2, ReturnTypes
    <2>2. redirs' \in Seq(1..(MaxDepth + 1))
      BY <1>1, RedirTypes DEF EInv
    <2> QED
      BY <1>1, <1>2, <2>1, <2>2 DEF EInv, TypeOK, lcl, itr, bnd
  <1> QED
    BY <1>1, <1>2, <1>3, ReturnCut

LEMMA MoreInputs ==
  ASSUME EInv, mode = "ret", MoreInput,
         UNCHANGED <<exception, loopnest, funcnest, dot_funcnest, lcl, itr, bnd>>,
         evalskip' \in Skips, skipcount' \in Nat, aim' = aim,
         Counted(evalskip, skipcount)'
  PROVE  EInv'
  <1>1. UNCHANGED <<files, handler, redirs, stack>> /\ mode' = "run"
    BY DEF MoreInput
  <1>2. TypeOK'
    BY <1>1 DEF EInv, TypeOK, lcl, itr, bnd, Modes
  <1> QED
    BY <1>1, <1>2, FlatInv

LEMMA EEvalReturns == ASSUME EInv, EvalReturns PROVE EInv'
  <1>1. /\ mode = "ret" /\ Depth > 0 /\ Inner.kind = "eval" /\ (BuiltinEnd \/ MoreInput)
        /\ UNCHANGED <<exception, skp, nst, lcl, itr, bnd>>
    BY DEF EvalReturns
  <1>2. /\ UNCHANGED <<loopnest, funcnest, dot_funcnest>> /\ dot_funcnest' \in Nat
        /\ evalskip' \in Skips /\ skipcount' \in Nat /\ aim' = aim
        /\ Counted(evalskip, skipcount)'
    BY <1>1 DEF EInv, TypeOK, SkipCounts, Counted, skp, nst
  <1> QED
    BY <1>1, <1>2, BuiltinEnds, MoreInputs

LEMMA EDotReturns == ASSUME EInv, DotReturns PROVE EInv'
  <1>1. /\ mode = "ret" /\ Depth > 0 /\ Inner.kind = "dot"
        /\ UNCHANGED <<exception, loopnest, funcnest, lcl, itr, bnd>>
        /\ \/ BuiltinEnd /\ dot_funcnest' = Inner.dot
           \/ MoreInput /\ UNCHANGED dot_funcnest
        /\ \/ evalskip' = "none" /\ skipcount' = 0 /\ aim' = aim
           \/ UNCHANGED skp
    BY DEF DotReturns
  <1>2. /\ evalskip' \in Skips /\ skipcount' \in Nat /\ aim' = aim
        /\ Counted(evalskip, skipcount)'
    BY <1>1 DEF EInv, TypeOK, SkipCounts, Counted, skp, Skips
  <1>3. Inner.dot \in Nat
    BY <1>1, Returned, FrameFacts
  <1> QED
    BY <1>1, <1>2, <1>3, BuiltinEnds, MoreInputs

LEMMA ETrapReturns == ASSUME EInv, TrapReturns PROVE EInv'
  <1>1. /\ mode = "ret" /\ Depth > 0 /\ Inner.kind = "trap"
        /\ \/ TrapEnd
           \/ evalskip = "none" /\ mode' = "run" /\ UNCHANGED <<files, stack, skp>>
        /\ UNCHANGED <<handler, exception, nst, redirs, lcl, itr, bnd>>
    BY DEF TrapReturns
  <1>2. CASE TrapEnd
    <2>1. files' = files - 1 /\ stack' = Pop(stack) /\ mode' = mode
      BY <1>2 DEF TrapEnd
    <2>2. /\ Inner = stack[Depth] /\ stack[Depth].kind = "trap"
          /\ handler = Top(Depth - 1) /\ Pop(stack) = SubSeq(stack, 1, Depth - 1)
          /\ Depth \in 1..Depth /\ stack \in Seq(Frames)
      <3>1. Inner = stack[Depth] /\ Depth \in 1..Depth /\ stack \in Seq(Frames)
        BY <1>1, Returned
      <3>2. ~stack[Depth].armed
        BY <1>1, <3>1 DEF EInv, Places
      <3> QED
        BY <1>1, <3>1, <3>2, Returned
    <2>3. /\ evalskip' \in Skips /\ skipcount' \in Nat /\ aim' \in 0..MaxDepth
          /\ Counted(evalskip, skipcount)'
      <3>1. CASE evalskip' = Inner.skip[1] /\ skipcount' = Inner.skip[2] /\ aim' = Inner.skip[3]
        <4>1. Inner.skip[1] \in Skips /\ Inner.skip[2] \in Nat /\ Inner.skip[3] \in 0..MaxDepth
          BY <2>2, FrameFacts
        <4>2. Counted(Inner.skip[1], Inner.skip[2])
          BY <2>2 DEF EInv, SkipCounts
        <4> QED
          BY <3>1, <4>1, <4>2 DEF Counted
      <3>2. CASE UNCHANGED skp
        BY <3>2 DEF EInv, TypeOK, SkipCounts, Counted, skp
      <3> QED
        BY <1>2, <3>1, <3>2 DEF TrapEnd
    <2>4. TypeOK'
      <3>1. stack' \in Seq(Frames) /\ Len(stack') <= MaxDepth /\ files' \in Nat
        BY <1>1, <2>1, <2>2, ReturnTypes
      <3> QED
        BY <1>1, <2>1, <2>3, <3>1 DEF EInv, TypeOK, nst, lcl, itr, bnd
    <2>5. handler' = Top(Depth - 1) /\ UNCHANGED <<loopnest, funcnest>>
      BY <1>1, <2>2 DEF nst
    <2>6. stack[Depth].kind # "loop" /\ stack[Depth].kind \in {"eval", "dot", "trap"}
      BY <2>2
    <2> QED
      BY <1>1, <2>1, <2>2, <2>3, <2>4, <2>5, <2>6, ReturnCut
  <1>3. CASE evalskip = "none" /\ mode' = "run" /\ UNCHANGED <<files, stack, skp>>
    <2>1. TypeOK'
      BY <1>1, <1>3 DEF EInv, TypeOK, skp, nst, lcl, itr, bnd, Modes
    <2>2. UNCHANGED <<evalskip, skipcount, loopnest, funcnest>>
      BY <1>1, <1>3 DEF skp, nst
    <2>3. Counted(evalskip, skipcount)'
      BY <2>2 DEF EInv, SkipCounts, Counted
    <2> QED
      BY <1>1, <1>3, <2>1, <2>2, <2>3, FlatInv
  <1> QED
    BY <1>1, <1>2, <1>3

\* A function calls setjmp, is over, and is done.
LEMMA EFuncHandler == ASSUME EInv, FuncHandler PROVE EInv'
  <1> USE DEF EInv
  <1>1. /\ mode = "f_handler" /\ stack' = [stack EXCEPT ![Depth].armed = TRUE]
        /\ handler' = Depth /\ funcnest' = funcnest + 1
        /\ UNCHANGED <<skp, loopnest, dot_funcnest, redirs, files, lcl, bnd>>
        /\ RaiseError \/ (mode' = "run" /\ UNCHANGED <<exception, itr>>)
    BY DEF FuncHandler
  <1>2. /\ stack \in Seq(Frames) /\ Depth \in Nat /\ Depth > 0 /\ Depth <= MaxDepth
        /\ Inner = stack[Depth] /\ Len(stack) = Depth /\ Depth \in 1..Depth
        /\ stack[Depth].kind = "func" /\ ~stack[Depth].armed /\ stack[Depth].handler = handler
    <2>1. /\ stack \in Seq(Frames) /\ Depth \in Nat /\ Depth > 0 /\ Depth <= MaxDepth
          /\ Inner = stack[Depth] /\ Len(stack) = Depth
      BY <1>1 DEF TypeOK, Places, Inner, Depth
    <2>2. Inner.kind = "func" /\ ~Inner.armed /\ Inner.handler = handler
      BY <1>1 DEF Places
    <2>3. Depth \in 1..Depth
      BY <2>1
    <2> QED
      BY <2>1, <2>2, <2>3
  <1>3. /\ stack' \in Seq(Frames) /\ Depth' = Depth
        /\ \A i \in 1..Depth - 1 : stack'[i] = stack[i]
        /\ stack'[Depth].armed = TRUE /\ stack'[Depth].kind = stack[Depth].kind
        /\ stack'[Depth].handler = stack[Depth].handler
        /\ stack'[Depth].files = stack[Depth].files
        /\ stack'[Depth].skip = stack[Depth].skip
    BY <1>1, <1>2, ArmFacts
  <1>4. mode' \in {"run", "exc"} /\ exception' \in {exception, "ERROR"}
    BY <1>1 DEF RaiseError
  <1>5. TypeOK'
    <2>1. Len(stack') <= MaxDepth /\ handler' \in 0..MaxDepth /\ funcnest' \in Nat
      <3>1. Len(stack') <= MaxDepth
        BY <1>2, <1>3 DEF Depth
      <3>2. handler' \in 0..MaxDepth
        BY <1>1, <1>2
      <3>3. funcnest' \in Nat
        <4>1. funcnest \in Nat
          BY DEF TypeOK
        <4> QED
          BY <1>1, <4>1
      <3> QED
        BY <3>1, <3>2, <3>3
    <2>2. suppressint' \in Nat
      <3>1. suppressint \in Nat /\ (suppressint' = suppressint + 1 \/ suppressint' = suppressint)
        BY <1>1 DEF RaiseError, itr, TypeOK
      <3> QED
        BY <3>1
    <2>3. intpending' \in BOOLEAN
      BY <1>1 DEF RaiseError, itr, TypeOK
    <2>4. mode' \in Modes /\ exception' \in {"none", "ERROR", "INT"}
      BY <1>4 DEF TypeOK, Modes
    <2> QED
      BY <1>1, <1>3, <2>1, <2>2, <2>3, <2>4 DEF TypeOK, skp, lcl, bnd
  <1>6. \A i \in 0..Depth - 1 : Top(i)' = Top(i) /\ FileFrames(i)' = FileFrames(i)
    <2>1. Depth - 1 \in Nat
      BY <1>2
    <2> QED
      BY <1>3, <2>1, PrefixSame
  <1>7. \A i \in 1..Depth : i \in 1..Depth - 1 \/ i = Depth
    BY <1>2
  <1>8. \A i \in 1..Depth : i - 1 \in 0..Depth - 1
    BY <1>2
  <1>9. Chain'
    <2>1. Top(Depth)' = Depth
      <3> DEFINE S == {i \in 1..Depth : stack'[i].armed}
      <3>1. S \subseteq Nat /\ Depth \in S /\ \A j \in S : j <= Depth
        BY <1>2, <1>3
      <3>2. Innermost(S) = Depth
        <4> HIDE DEF S
        <4> QED
          BY <3>1, InnermostIs
      <3> QED
        BY <1>3, <3>2 DEF Top, Innermost
    <2>2. handler = Top(Depth - 1)
      BY <1>2, TopUnarmed DEF Chain
    <2>3. ASSUME NEW i \in 1..Depth, stack'[i].armed PROVE stack'[i].handler = Top(i - 1)'
      <3>1. Top(i - 1)' = Top(i - 1)
        BY <1>6, <1>8
      <3>2. CASE i \in 1..Depth - 1
        BY <1>2, <1>3, <2>3, <3>1, <3>2 DEF Chain
      <3>3. CASE i = Depth
        BY <1>2, <1>3, <2>2, <3>1, <3>3
      <3> QED
        BY <1>7, <3>2, <3>3
    <2> QED
      BY <1>1, <1>3, <2>1, <2>3 DEF Chain
  <1>10. Places'
    <2>1. \A i \in 1..Depth - 1 :
            /\ stack[i].kind \in {"loop", "trap"} => ~stack[i].armed
            /\ stack[i].kind \notin {"loop", "trap"} => stack[i].armed
      BY <1>2, Settled DEF Places
    <2>2. mode' \notin {"f_params", "f_handler", "f_done"}
      BY <1>4
    <2>3. stack'[Depth].kind = "func" /\ stack'[Depth].armed
      BY <1>2, <1>3
    <2>4. \A i \in 1..Depth :
            /\ stack'[i].kind \in {"loop", "trap"} => ~stack'[i].armed
            /\ stack'[i].kind \notin {"loop", "trap"} => stack'[i].armed
      BY <1>3, <1>7, <2>1, <2>3
    <2> QED
      BY <1>3, <2>2, <2>4 DEF Places
  <1>11. Levels'
    <2>1. FramesOf({"loop"})' = FramesOf({"loop"}) /\ FileFrames(Depth)' = FileFrames(Depth)
      <3>1. \A i \in 1..Depth : stack'[i].kind = stack[i].kind
        BY <1>3, <1>7
      <3> QED
        BY <1>3, <3>1 DEF FramesOf, FileFrames
    <2>2. Cardinality(Running) \in Nat /\ Cardinality(Running)' = Cardinality(Running) + 1
      BY <1>1, <1>2, ArmNumbers
    <2>3. funcnest' >= Cardinality(Running)'
      <3>1. funcnest \in Nat /\ funcnest >= Cardinality(Running) /\ funcnest' = funcnest + 1
        BY <1>1 DEF TypeOK, Levels
      <3> QED
        BY <2>2, <3>1
    <2>4. \A i \in 1..Depth : stack'[i].files >= Cardinality(FileFrames(i - 1))'
      <3>1. \A i \in 1..Depth : stack'[i].files = stack[i].files
        BY <1>3, <1>7
      <3> QED
        BY <1>6, <1>8, <3>1 DEF Levels
    <2> QED
      BY <1>1, <1>3, <2>1, <2>3, <2>4 DEF Levels
  <1>12. SkipCounts'
    <2>1. \A i \in 1..Depth : stack'[i].skip = stack[i].skip
      BY <1>3, <1>7
    <2> QED
      BY <1>1, <1>3, <2>1 DEF SkipCounts, Counted, skp
  <1> QED
    BY <1>5, <1>9, <1>10, <1>11, <1>12

LEMMA EFuncReturns == ASSUME EInv, FuncReturns PROVE EInv'
  <1>1. /\ mode = "ret" /\ mode' = "f_done" /\ Depth > 0 /\ Inner.kind = "func"
        /\ funcnest' = funcnest - 1 /\ handler' = Inner.handler /\ redirs' = Pop(redirs)
        /\ params' = Inner.params /\ localvars' = Inner.localvars /\ shadowed' \subseteq shadowed
        /\ stack' = [stack EXCEPT ![Depth].armed = FALSE]
        /\ UNCHANGED <<exception, skp, loopnest, dot_funcnest, files, itr, bnd>>
    BY DEF FuncReturns, PopLocals
  <1>2. /\ stack \in Seq(Frames) /\ Depth \in Nat /\ Depth <= MaxDepth
        /\ Inner = stack[Depth] /\ Len(stack) = Depth /\ Depth \in 1..Depth
        /\ stack[Depth].kind = "func" /\ stack[Depth].armed = TRUE
        /\ stack[Depth].handler = Top(Depth - 1) /\ Top(Depth - 1) \in 0..MaxDepth
    <2>1. Inner = stack[Depth] /\ Depth \in 1..Depth /\ stack \in Seq(Frames)
      BY <1>1, Returned
    <2>2. stack[Depth].armed /\ stack[Depth].armed \in BOOLEAN
      BY <1>1, <2>1, Returned, FrameFacts
    <2> QED
      BY <1>1, <2>1, <2>2, Returned
  <1> USE DEF EInv
  <1>3. /\ stack' \in Seq(Frames) /\ Depth' = Depth
        /\ \A i \in 1..Depth - 1 : stack'[i] = stack[i]
        /\ stack'[Depth].armed = FALSE /\ stack'[Depth].kind = stack[Depth].kind
        /\ stack'[Depth].files = stack[Depth].files
        /\ stack'[Depth].skip = stack[Depth].skip
    BY <1>1, <1>2, ArmFacts
  <1>4. /\ Cardinality(Running)' \in Nat /\ Cardinality(Running) = Cardinality(Running)' + 1
    BY <1>1, <1>2, ArmNumbers
  <1>5. funcnest' \in Nat /\ funcnest' >= Cardinality(Running)'
    <2>1. funcnest \in Nat /\ funcnest >= Cardinality(Running) /\ funcnest' = funcnest - 1
      BY <1>1 DEF TypeOK, Levels
    <2> QED
      BY ONLY <1>4, <2>1
  <1>6. TypeOK'
    <2>1. Len(stack') <= MaxDepth /\ handler' \in 0..MaxDepth
      BY <1>1, <1>2, <1>3 DEF Depth
    <2>2. redirs' \in Seq(1..(MaxDepth + 1))
      BY <1>1, RedirTypes
    <2>3. params' \in 0..MaxDepth /\ localvars' \in 0..MaxDepth /\ shadowed' \subseteq 1..MaxDepth
      BY <1>1, <1>2, FrameFacts DEF TypeOK
    <2> QED
      BY <1>1, <1>3, <1>5, <2>1, <2>2, <2>3 DEF TypeOK, skp, itr, bnd, Modes
  <1>7. \A i \in 0..Depth - 1 : Top(i)' = Top(i) /\ FileFrames(i)' = FileFrames(i)
    <2>1. Depth - 1 \in Nat
      BY <1>2
    <2> QED
      BY <1>3, <2>1, PrefixSame
  <1>8. \A i \in 1..Depth : i \in 1..Depth - 1 \/ i = Depth
    BY <1>2
  <1>9. \A i \in 1..Depth : i - 1 \in 0..Depth - 1
    BY <1>2
  <1>10. Chain'
    <2>1. Top(Depth)' = Top(Depth - 1)
      <3>1. {i \in 1..Depth : stack'[i].armed} = {i \in 1..Depth - 1 : stack[i].armed}
        BY <1>2, <1>3, <1>8
      <3>2. Top(Depth)' = Innermost({i \in 1..Depth : stack'[i].armed})
        BY <1>3 DEF Top, Innermost
      <3>3. Top(Depth - 1) = Innermost({i \in 1..Depth - 1 : stack[i].armed})
        BY DEF Top
      <3> QED
        BY <3>1, <3>2, <3>3, Zenon
    <2>2. ASSUME NEW i \in 1..Depth, stack'[i].armed PROVE stack'[i].handler = Top(i - 1)'
      <3>1. i \in 1..Depth - 1
        BY <1>3, <1>8, <2>2
      <3>2. Top(i - 1)' = Top(i - 1)
        BY <1>7, <1>9
      <3> QED
        BY <1>2, <1>3, <2>2, <3>1, <3>2 DEF Chain
    <2> QED
      BY <1>1, <1>2, <1>3, <2>1, <2>2 DEF Chain
  <1>11. Places'
    <2>1. \A i \in 1..Depth - 1 :
            /\ stack[i].kind \in {"loop", "trap"} => ~stack[i].armed
            /\ stack[i].kind \notin {"loop", "trap"} => stack[i].armed
      BY <1>2, Settled DEF Places
    <2>2. stack'[Depth].kind = "func" /\ ~stack'[Depth].armed
      BY <1>2, <1>3
    <2>3. Inner' = stack'[Depth] /\ Depth' > 0
      BY <1>2, <1>3 DEF Inner, Depth
    <2>4. \A i \in 1..Depth :
            /\ stack'[i].kind \in {"loop", "trap"} => ~stack'[i].armed
            /\ stack'[i].kind \notin {"loop", "trap"} =>
                 stack'[i].armed \/ (i = Depth /\ stack'[i].kind = "func")
      BY <1>3, <1>8, <2>1, <2>2
    <2> QED
      BY <1>1, <1>3, <2>2, <2>3, <2>4 DEF Places
  <1>12. Levels'
    <2>1. FramesOf({"loop"})' = FramesOf({"loop"}) /\ FileFrames(Depth)' = FileFrames(Depth)
      <3>1. \A i \in 1..Depth : stack'[i].kind = stack[i].kind
        BY <1>3, <1>8
      <3> QED
        BY <1>3, <3>1 DEF FramesOf, FileFrames
    <2>2. \A i \in 1..Depth : stack'[i].files >= Cardinality(FileFrames(i - 1))'
      <3>1. \A i \in 1..Depth : stack'[i].files = stack[i].files
        BY <1>3, <1>8
      <3> QED
        BY <1>7, <1>9, <3>1 DEF Levels
    <2> QED
      BY <1>1, <1>3, <1>5, <2>1, <2>2 DEF Levels
  <1>13. SkipCounts'
    <2>1. \A i \in 1..Depth : stack'[i].skip = stack[i].skip
      BY <1>3, <1>8
    <2> QED
      BY <1>1, <1>3, <2>1 DEF SkipCounts, Counted, skp
  <1> QED
    BY <1>6, <1>10, <1>11, <1>12, <1>13

LEMMA EFuncDone == ASSUME EInv, FuncDone PROVE EInv'
  <1> DEFINE n == Depth - 1
  <1>1. /\ mode = "f_done" /\ mode' = "ret" /\ stack' = Pop(stack)
        /\ UNCHANGED <<handler, exception, nst, redirs, files, lcl, itr, bnd>>
        /\ \/ evalskip' = "none" /\ skipcount' = 0 /\ aim' = aim
           \/ UNCHANGED skp
    BY DEF FuncDone
  <1>2. /\ stack \in Seq(Frames) /\ Depth \in Nat /\ Depth > 0 /\ Depth <= MaxDepth
        /\ n \in 0..Depth /\ n \in Nat /\ stack' = SubSeq(stack, 1, n)
        /\ ~stack[Depth].armed
        /\ \A i \in 1..n : stack[i].kind \notin {"loop", "trap"} => stack[i].armed
    <2>1. /\ stack \in Seq(Frames) /\ Depth \in Nat /\ Depth > 0 /\ Depth <= MaxDepth
          /\ Inner = stack[Depth] /\ ~stack[Depth].armed /\ Len(stack) = Depth
      BY <1>1 DEF EInv, TypeOK, Places, Inner, Depth
    <2>2. n \in 0..Depth /\ n \in Nat
      BY <2>1
    <2>3. stack' = SubSeq(stack, 1, n)
      BY <1>1, <2>1 DEF Pop
    <2>4. \A i \in 1..n : stack[i].kind \notin {"loop", "trap"} => stack[i].armed
      BY <2>1, Settled DEF EInv
    <2> QED
      BY <2>1, <2>2, <2>3, <2>4
  <1>3. handler' = Top(n)
    <2>1. Top(Depth) = Top(Depth - 1)
      BY <1>2, TopUnarmed
    <2> QED
      BY <1>1, <2>1 DEF EInv, Chain
  <1> HIDE DEF n
  <1>4. /\ loopnest >= Cardinality(FramesOf({"loop"}))' /\ funcnest >= Cardinality(Running)'
        /\ files >= Cardinality(FileFrames(n))
        /\ stack' \in Seq(Frames) /\ Len(stack') <= MaxDepth
    BY <1>2, CutLevels DEF EInv
  <1>5. /\ evalskip' \in Skips /\ skipcount' \in Nat /\ aim' \in 0..MaxDepth
        /\ Counted(evalskip, skipcount)'
    BY <1>1 DEF EInv, TypeOK, SkipCounts, Counted, skp, Skips
  <1>6. TypeOK'
    BY <1>1, <1>4, <1>5 DEF EInv, TypeOK, nst, lcl, itr, bnd, Modes
  <1>7. UNCHANGED <<loopnest, funcnest, files>> /\ mode' \notin Within
    BY <1>1 DEF nst, Within
  <1>8. /\ loopnest' >= Cardinality(FramesOf({"loop"}))' /\ funcnest' >= Cardinality(Running)'
        /\ files' >= Cardinality(FileFrames(n))
    BY <1>4, <1>7
  <1> QED
    BY <1>2, <1>3, <1>5, <1>6, <1>7, <1>8, CutInv

\* Nothing happens.
LEMMA EStutter == ASSUME EInv, UNCHANGED vars PROVE EInv'
  <1>1. UNCHANGED <<stack, mode, handler, exception, skp, nst, redirs, files, lcl, itr, bnd>>
    BY DEF vars
  <1>2. TypeOK'
    BY <1>1 DEF EInv, TypeOK, skp, nst, lcl, itr, bnd
  <1> QED
    BY <1>1, <1>2, FlatInv DEF EInv, skp, nst, SkipCounts, Counted

\* The inductive invariant, of every step and of every behaviour.
LEMMA ENext == ASSUME EInv, [Next]_vars PROVE EInv'
  <1>1. CASE Interrupt \/ CatchFunction \/ CatchRedir \/ CatchBuiltin \/ CatchMain
    BY <1>1, EInterrupt, ECatchFunction, ECatchRedir, ECatchBuiltin, ECatchMain
  <1>2. CASE Builtin \/ External \/ Local
    BY <1>2, EBuiltin, EExternal, ELocal
  <1>3. CASE \E skip \in {"break", "cont"}, n \in 1..2 : Break(skip, n)
    BY <1>3, EBreak
  <1>4. CASE Return \/ ExpansionError \/ SpecialError \/ RegularError
    BY <1>4, EReturn, EExpansionError, ESpecialError, ERegularError
  <1>5. CASE LoopBegin \/ LoopReturns
    BY <1>5, ELoopBegin, ELoopReturns
  <1>6. CASE FuncBegin \/ FuncRedirFails \/ FuncParams \/ FuncHandler \/ FuncReturns \/ FuncDone
    BY <1>6, EFuncBegin, EFuncRedirFails, EFuncParams, EFuncHandler, EFuncReturns, EFuncDone
  <1>7. CASE RedirBegin \/ RedirFails \/ RedirReturns
    BY <1>7, ERedirBegin, ERedirFails, ERedirReturns
  <1>8. CASE \E kind \in {"eval", "dot"}, special \in BOOLEAN : BuiltinBegin(kind, special)
    BY <1>8, EBuiltinBegin
  <1>9. CASE EvalReturns \/ DotReturns
    BY <1>9, EEvalReturns, EDotReturns
  <1>10. CASE TrapBegin \/ TrapReturns \/ TopReturns
    BY <1>10, ETrapBegin, ETrapReturns, ETopReturns
  <1>11. CASE UNCHANGED vars
    BY <1>11, EStutter
  <1> QED
    BY <1>1, <1>2, <1>3, <1>4, <1>5, <1>6, <1>7, <1>8, <1>9, <1>10, <1>11 DEF Next

THEOREM Chained == Spec => []EInv
  BY EInitially, ENext, PTL DEF Spec

\* No longjmp goes to a frame that has returned: whatever is nested in whatever,
\* whatever fails and whichever signals arrive (the setjmp and handler of
\* evalfun, evalredir, evalcommand and main).
THEOREM HandlersLive == Spec => []HandlerLive
  <1>1. EInv => HandlerLive
    BY DEF EInv, HandlerLive, Chain, Top
  <1> QED
    BY <1>1, Chained, PTL

-----------------------------------------------------------------------------
(* The counters that break, continue and return go by are exact, when      *)
(* init.c has the RESET blocks and no special builtin is made regular.     *)

\* The level a dot file saves, by the innermost of the first n frames
\* of s that is one.
DotFrame(s, n) == Innermost({i \in 1..n : s[i].kind = "dot"})
DotLevel(s, n) ==
  IF DotFrame(s, n) = 0 THEN 0
  ELSE 1 + Cardinality({i \in 1..(DotFrame(s, n) - 1) : s[i].kind = "func"})

\* Outside of an exception all levels are those of the stack.
Exact ==
  mode # "exc" =>
    /\ loopnest = Cardinality(FramesOf({"loop"}))
    /\ funcnest = Cardinality(Running)
    /\ dot_funcnest = DotLevel(stack, Depth)
    /\ \A i \in 1..Depth : stack[i].kind = "dot" => stack[i].dot = DotLevel(stack, i - 1)

\* No handler of eval or of a dot file goes on after an error.
Special == \A i \in 1..Depth : stack[i].kind \in {"eval", "dot"} => stack[i].special = TRUE

XInv == EInv /\ Exact /\ Special

LEMMA DotPrefix ==
  ASSUME NEW s, NEW t, NEW n \in Nat, \A j \in 1..n : t[j].kind = s[j].kind, NEW i \in 0..n
  PROVE  DotLevel(t, i) = DotLevel(s, i)
  <1>1. {j \in 1..i : t[j].kind = "dot"} = {j \in 1..i : s[j].kind = "dot"}
    OBVIOUS
  <1>2. DotFrame(t, i) = DotFrame(s, i)
    BY <1>1 DEF DotFrame
  <1>3. DotFrame(s, i) \in 0..i
    <2> DEFINE S == {j \in 1..i : s[j].kind = "dot"}
    <2>1. S \subseteq 1..i /\ i \in Nat
      OBVIOUS
    <2> HIDE DEF S
    <2>2. Innermost(S) \in 0..i
      BY <2>1, InnermostRange
    <2> QED
      BY <2>2 DEF DotFrame, S
  <1>4. {j \in 1..(DotFrame(s, i) - 1) : t[j].kind = "func"} =
          {j \in 1..(DotFrame(s, i) - 1) : s[j].kind = "func"}
    BY <1>3
  <1> QED
    BY <1>2, <1>3, <1>4 DEF DotLevel

LEMMA DotNone ==
  ASSUME NEW s, NEW n \in Nat, n > 0, s[n].kind # "dot"
  PROVE  DotLevel(s, n) = DotLevel(s, n - 1)
  <1>1. {i \in 1..n : s[i].kind = "dot"} = {i \in 1..n - 1 : s[i].kind = "dot"}
    OBVIOUS
  <1>2. DotFrame(s, n) = DotFrame(s, n - 1)
    BY <1>1 DEF DotFrame
  <1> QED
    BY <1>2 DEF DotLevel

LEMMA DotHere ==
  ASSUME NEW s, NEW n \in Nat, n > 0, s[n].kind = "dot"
  PROVE  DotLevel(s, n) = 1 + Cardinality({i \in 1..(n - 1) : s[i].kind = "func"})
  <1> DEFINE S == {i \in 1..n : s[i].kind = "dot"}
  <1>1. S \subseteq Nat /\ n \in S /\ \A j \in S : j <= n
    OBVIOUS
  <1>2. Innermost(S) = n
    <2> HIDE DEF S
    <2> QED
      BY <1>1, InnermostIs
  <1>3. DotFrame(s, n) = n
    BY <1>2 DEF DotFrame
  <1> QED
    BY <1>3 DEF DotLevel

\* Outside of an exception and of a function's own code, all functions run.
LEMMA AllRunning ==
  ASSUME EInv, mode \in {"run", "ret"}
  PROVE  Running = FramesOf({"func"})
  BY Settled DEF EInv, TypeOK, Running, FramesOf

\* The stack stays.
LEMMA XFlat ==
  ASSUME XInv, UNCHANGED <<stack, nst>>, mode' = "exc" \/ mode # "exc"
  PROVE  Exact' /\ Special'
  <1>1. /\ Depth' = Depth /\ FramesOf({"loop"})' = FramesOf({"loop"}) /\ Running' = Running
        /\ \A n : DotLevel(stack, n)' = DotLevel(stack, n)
    BY DEF Depth, FramesOf, Running, DotLevel, DotFrame
  <1>2. UNCHANGED <<loopnest, funcnest, dot_funcnest, stack>>
    BY DEF nst
  <1>3. CASE mode' = "exc"
    BY <1>1, <1>2, <1>3 DEF XInv, Exact, Special
  <1>4. CASE mode # "exc"
    BY <1>1, <1>2, <1>4 DEF XInv, Exact, Special
  <1> QED
    BY <1>3, <1>4

\* A construct begins.
LEMMA XPush ==
  ASSUME XInv, mode \in {"run", "ret"}, NEW f \in Frames, stack' = Append(stack, f),
         f.kind = "func" => f.armed = FALSE,
         f.dot = dot_funcnest,
         f.kind = "loop" => loopnest' = loopnest + 1,
         f.kind # "loop" => loopnest' = loopnest,
         funcnest' = funcnest,
         f.kind = "dot" => dot_funcnest' = funcnest + 1,
         f.kind # "dot" => dot_funcnest' = dot_funcnest,
         f.kind \in {"eval", "dot"} => f.special = TRUE
  PROVE  Exact' /\ Special'
  <1>1. stack \in Seq(Frames)
    BY DEF XInv, EInv, TypeOK
  <1>2. /\ Depth \in Nat /\ Depth' = Depth + 1
        /\ stack'[Depth + 1] = f /\ \A i \in 1..Depth : stack'[i] = stack[i]
    BY <1>1, PushFacts
  <1>3. \A i \in 1..Depth' : i \in 1..Depth \/ i = Depth + 1
    BY <1>2
  <1>4. \A i \in 0..Depth : DotLevel(stack', i) = DotLevel(stack, i)
    BY <1>2, DotPrefix
  <1>5. /\ loopnest = Cardinality(FramesOf({"loop"}))
        /\ funcnest = Cardinality(Running)
        /\ dot_funcnest = DotLevel(stack, Depth)
        /\ \A i \in 1..Depth : stack[i].kind = "dot" => stack[i].dot = DotLevel(stack, i - 1)
    BY DEF XInv, Exact
  <1>6. loopnest' = Cardinality(FramesOf({"loop"}))'
    <2>1. /\ Cardinality(FramesOf({"loop"})) \in Nat
          /\ Cardinality(FramesOf({"loop"}))' =
               Cardinality(FramesOf({"loop"})) + (IF f.kind \in {"loop"} THEN 1 ELSE 0)
      BY <1>1, PushNumbers
    <2>2. CASE f.kind = "loop"
      BY <1>5, <2>1, <2>2
    <2>3. CASE f.kind # "loop"
      BY <1>5, <2>1, <2>3
    <2> QED
      BY <2>2, <2>3
  <1>7. funcnest' = Cardinality(Running)'
    <2>1. f.kind # "func" \/ ~f.armed
      OBVIOUS
    <2>2. Running' = Running
      BY <1>1, <2>1, PushRunning
    <2> QED
      BY <1>5, <2>2
  <1>8. dot_funcnest' = DotLevel(stack', Depth')
    <2> DEFINE m == Depth + 1
    <2>0. m \in Nat /\ m > 0 /\ m - 1 = Depth /\ Depth' = m /\ stack'[m] = f
      BY <1>2
    <2> HIDE DEF m
    <2>1. CASE f.kind = "dot"
      <3>3. DotLevel(stack', Depth') = 1 + Cardinality({i \in 1..Depth : stack'[i].kind = "func"})
        <4>1. DotLevel(stack', m) = 1 + Cardinality({i \in 1..(m - 1) : stack'[i].kind = "func"})
          <5>1. m \in Nat /\ m > 0 /\ stack'[m].kind = "dot"
            BY <2>0, <2>1
          <5> QED
            BY ONLY <5>1, DotHere
        <4>2. m - 1 = Depth /\ Depth' = m
          BY <2>0
        <4> QED
          BY <4>1, <4>2, Zenon
      <3>4. {i \in 1..Depth : stack'[i].kind = "func"} = Running
        BY <1>2, AllRunning DEF XInv, FramesOf
      <3>5. funcnest \in Nat /\ funcnest = Cardinality(Running)
        BY <1>1, <1>5, RunningNat
      <3>6. dot_funcnest' = funcnest + 1
        BY <2>1
      <3>7. DotLevel(stack', Depth') = 1 + funcnest
        BY <3>3, <3>4, <3>5, Zenon
      <3> QED
        BY ONLY <3>5, <3>6, <3>7
    <2>2. CASE f.kind # "dot"
      <3>3. DotLevel(stack', Depth') = DotLevel(stack', m - 1)
        BY <2>0, <2>2, DotNone
      <3>4. DotLevel(stack', m - 1) = DotLevel(stack, Depth)
        BY <1>2, <1>4, <2>0
      <3> QED
        BY <1>4, <1>5, <2>2, <3>3, <3>4
    <2> QED
      BY <2>1, <2>2
  <1>9. \A i \in 1..Depth' : stack'[i].kind = "dot" => stack'[i].dot = DotLevel(stack', i - 1)
    <2> SUFFICES ASSUME NEW i \in 1..Depth', stack'[i].kind = "dot"
                 PROVE  stack'[i].dot = DotLevel(stack', i - 1)
      OBVIOUS
    <2>0. i - 1 \in 0..Depth
      BY <1>2
    <2>1. DotLevel(stack', i - 1) = DotLevel(stack, i - 1)
      BY <1>4, <2>0
    <2>2. CASE i \in 1..Depth
      BY <1>2, <1>5, <2>1, <2>2
    <2>3. CASE i = Depth + 1
      <3>1. i - 1 = Depth
        BY <1>2, <2>3
      <3> QED
        BY <1>2, <1>5, <2>1, <2>3, <3>1
    <2> QED
      BY <1>3, <2>2, <2>3
  <1>10. Special'
    BY <1>2, <1>3 DEF XInv, Special
  <1> QED
    BY <1>6, <1>7, <1>8, <1>9, <1>10 DEF Exact

\* A construct returns; of functions only the code after the end is left.
LEMMA XCut ==
  ASSUME XInv, mode # "exc", Depth > 0, stack' = SubSeq(stack, 1, Depth - 1),
         Depth \notin Running,
         stack[Depth].kind = "loop" => loopnest' = loopnest - 1,
         stack[Depth].kind # "loop" => loopnest' = loopnest,
         funcnest' = funcnest,
         stack[Depth].kind = "dot" => dot_funcnest' = stack[Depth].dot,
         stack[Depth].kind # "dot" => dot_funcnest' = dot_funcnest
  PROVE  Exact' /\ Special'
  <1> DEFINE n == Depth - 1
  <1>1. stack \in Seq(Frames)
    BY DEF XInv, EInv, TypeOK
  <1>2. Depth \in Nat /\ Depth \in 1..Depth /\ n \in 0..Depth /\ n \in Nat
    BY <1>1, RunningSets
  <1>3. Depth' = n /\ \A i \in 1..n : stack'[i] = stack[i]
    BY <1>1, <1>2, CutFacts
  <1>4. \A i \in 0..n : DotLevel(stack', i) = DotLevel(stack, i)
    BY <1>2, <1>3, DotPrefix
  <1>5. /\ loopnest = Cardinality(FramesOf({"loop"}))
        /\ funcnest = Cardinality(Running)
        /\ dot_funcnest = DotLevel(stack, Depth)
        /\ \A i \in 1..Depth : stack[i].kind = "dot" => stack[i].dot = DotLevel(stack, i - 1)
    BY DEF XInv, Exact
  <1>6. loopnest' = Cardinality(FramesOf({"loop"}))'
    <2>1. /\ Cardinality(FramesOf({"loop"})) \in Nat /\ Cardinality(FramesOf({"loop"}))' \in Nat
          /\ n = Depth - 1 =>
             Cardinality(FramesOf({"loop"})) =
               Cardinality(FramesOf({"loop"}))' + (IF stack[Depth].kind \in {"loop"} THEN 1 ELSE 0)
      BY <1>1, <1>2, CutNumbers
    <2>2. CASE stack[Depth].kind = "loop"
      <3>1. loopnest' = loopnest - 1
        BY <2>2
      <3>2. Cardinality(FramesOf({"loop"})) = Cardinality(FramesOf({"loop"}))' + 1
        BY <2>1, <2>2
      <3>3. loopnest = Cardinality(FramesOf({"loop"})) /\ Cardinality(FramesOf({"loop"}))' \in Nat
        BY <1>5, <2>1
      <3> QED
        BY ONLY <3>1, <3>2, <3>3
    <2>3. CASE stack[Depth].kind # "loop"
      <3>1. loopnest' = loopnest
        BY <2>3
      <3>2. Cardinality(FramesOf({"loop"})) = Cardinality(FramesOf({"loop"}))' + 0
        BY <2>1, <2>3
      <3>3. loopnest = Cardinality(FramesOf({"loop"})) /\ Cardinality(FramesOf({"loop"}))' \in Nat
        BY <1>5, <2>1
      <3> QED
        BY ONLY <3>1, <3>2, <3>3
    <2> QED
      BY <2>2, <2>3
  <1>7. funcnest' = Cardinality(Running)'
    <2>1. Running' = Running
      BY <1>1, <1>2, CutRunning
    <2> QED
      BY <1>5, <2>1
  <1>8. dot_funcnest' = DotLevel(stack', Depth')
    <2>1. DotLevel(stack', Depth') = DotLevel(stack, n)
      BY <1>2, <1>3, <1>4
    <2> HIDE DEF n
    <2>2. CASE stack[Depth].kind = "dot"
      BY <1>2, <1>5, <2>1, <2>2 DEF n
    <2>3. CASE stack[Depth].kind # "dot"
      <3>1. DotLevel(stack, Depth) = DotLevel(stack, n)
        BY <1>2, <2>3, DotNone DEF n
      <3> QED
        BY <1>5, <2>1, <2>3, <3>1
    <2> QED
      BY <2>2, <2>3
  <1>9. \A i \in 1..Depth' : stack'[i].kind = "dot" => stack'[i].dot = DotLevel(stack', i - 1)
    <2>1. \A i \in 1..n : i \in 1..Depth /\ i - 1 \in 0..n
      BY <1>2
    <2> HIDE DEF n
    <2> QED
      BY <1>3, <1>4, <1>5, <2>1
  <1>10. Special'
    <2>1. \A i \in 1..n : i \in 1..Depth
      BY <1>2
    <2> HIDE DEF n
    <2> QED
      BY <1>3, <2>1 DEF XInv, Special
  <1> QED
    BY <1>6, <1>7, <1>8, <1>9, <1>10 DEF Exact

\* A function calls setjmp, or is over.
LEMMA XArm ==
  ASSUME XInv, mode # "exc", Depth > 0, stack[Depth].kind = "func", NEW b \in BOOLEAN,
         stack' = [stack EXCEPT ![Depth].armed = b], b # stack[Depth].armed,
         b => funcnest' = funcnest + 1, ~b => funcnest' = funcnest - 1,
         UNCHANGED <<loopnest, dot_funcnest>>
  PROVE  Exact' /\ Special'
  <1>1. stack \in Seq(Frames)
    BY DEF XInv, EInv, TypeOK
  <1>2. Depth \in Nat /\ Depth' = Depth
    BY <1>1, ArmFacts, RunningSets
  <1>3. \A i \in 1..Depth : /\ stack'[i].kind = stack[i].kind /\ stack'[i].dot = stack[i].dot
                            /\ stack'[i].special = stack[i].special
    <2>1. stack[Depth] \in Frames
      BY <1>1, <1>2, FrameFacts
    <2>2. LET g == [stack[Depth] EXCEPT !.armed = b]
          IN  g.kind = stack[Depth].kind /\ g.special = stack[Depth].special
              /\ g.dot = stack[Depth].dot
      BY <2>1, Rearmed
    <2>3. Depth = Len(stack) /\ DOMAIN stack = 1..Len(stack)
      BY <1>1 DEF Depth
    <2>4. \A i \in 1..Depth : stack'[i] = IF i = Depth THEN [stack[Depth] EXCEPT !.armed = b]
                                          ELSE stack[i]
      BY <2>3, Zenon
    <2> QED
      BY <2>2, <2>4, Zenon
  <1>4. \A i \in 0..Depth : DotLevel(stack', i) = DotLevel(stack, i)
    <2>1. Depth \in Nat /\ \A i \in 1..Depth : stack'[i].kind = stack[i].kind
      BY <1>2, <1>3
    <2> QED
      BY ONLY <2>1, DotPrefix
  <1>5. /\ loopnest = Cardinality(FramesOf({"loop"}))
        /\ funcnest = Cardinality(Running)
        /\ dot_funcnest = DotLevel(stack, Depth)
        /\ \A i \in 1..Depth : stack[i].kind = "dot" => stack[i].dot = DotLevel(stack, i - 1)
    BY DEF XInv, Exact
  <1>6. FramesOf({"loop"})' = FramesOf({"loop"})
    BY <1>2, <1>3 DEF FramesOf
  <1>7. funcnest' = Cardinality(Running)'
    <2>1. /\ Cardinality(Running) \in Nat /\ Cardinality(Running)' \in Nat
          /\ b => Cardinality(Running)' = Cardinality(Running) + 1
          /\ ~b => Cardinality(Running) = Cardinality(Running)' + 1
      BY <1>1, ArmNumbers
    <2>2. CASE b
      <3>1. funcnest' = funcnest + 1 /\ Cardinality(Running)' = Cardinality(Running) + 1
        BY <2>1, <2>2
      <3> QED
        BY <1>5, <3>1
    <2>3. CASE ~b
      <3>1. funcnest' = funcnest - 1 /\ Cardinality(Running) = Cardinality(Running)' + 1
        BY <2>1, <2>3
      <3>2. funcnest = Cardinality(Running) /\ Cardinality(Running)' \in Nat
        BY <1>5, <2>1
      <3> QED
        BY ONLY <3>1, <3>2
    <2> QED
      BY <2>2, <2>3
  <1>8. dot_funcnest' = DotLevel(stack', Depth')
    <2>1. Depth \in 0..Depth /\ Depth' = Depth
      BY <1>2
    <2>2. DotLevel(stack', Depth') = DotLevel(stack, Depth)
      BY <1>4, <2>1
    <2> QED
      BY <1>5, <2>2
  <1>9. \A i \in 1..Depth' : stack'[i].kind = "dot" => stack'[i].dot = DotLevel(stack', i - 1)
    <2>1. \A i \in 1..Depth : i - 1 \in 0..Depth
      BY <1>2
    <2> QED
      BY <1>2, <1>3, <1>4, <1>5, <2>1
  <1>10. Special'
    BY <1>2, <1>3 DEF XInv, Special
  <1> QED
    BY <1>5, <1>6, <1>7, <1>8, <1>9, <1>10 DEF Exact

LEMMA XInitially == Init => Exact /\ Special
  <1> SUFFICES ASSUME Init PROVE Exact /\ Special
    OBVIOUS
  <1>1. Depth = 0
    BY DEF Init, Depth
  <1>2. FramesOf({"loop"}) = {} /\ Running = {}
    BY <1>1 DEF FramesOf, Running
  <1>3. DotLevel(stack, Depth) = 0
    <2>1. {i \in 1..0 : stack[i].kind = "dot"} = {}
      OBVIOUS
    <2> QED
      BY <1>1, <2>1, InnermostNone DEF DotLevel, DotFrame
  <1>4. Cardinality({}) = 0
    BY FS_EmptySet
  <1>5. loopnest = 0 /\ funcnest = 0 /\ dot_funcnest = 0
    BY DEF Init
  <1>6. \A i \in 1..Depth : FALSE
    BY ONLY <1>1
  <1>7. Exact
    BY ONLY <1>2, <1>3, <1>4, <1>5, <1>6 DEF Exact
  <1>8. Special
    BY ONLY <1>6 DEF Special
  <1> QED
    BY <1>7, <1>8

\* An exception goes on, or ends at the prompt with everything reset.
LEMMA XCatch ==
  ASSUME ResetBlocks = TRUE, XInv, CatchFunction \/ CatchRedir \/ CatchBuiltin \/ CatchMain
  PROVE  Exact' /\ Special'
  <1>1. stack \in Seq(Frames) /\ mode = "exc"
    BY DEF XInv, EInv, TypeOK, CatchFunction, CatchRedir, CatchBuiltin, CatchMain
  <1>2. CASE CatchMain
    <2>1. stack' = <<>> /\ loopnest' = 0 /\ funcnest' = 0 /\ dot_funcnest' = 0
      BY <1>2 DEF CatchMain, Reset
    <2>2. Depth' = 0
      BY <2>1 DEF Depth
    <2>3. FramesOf({"loop"})' = {} /\ Running' = {}
      BY <2>2 DEF FramesOf, Running
    <2>4. DotLevel(stack', Depth') = 0
      <3>1. {i \in 1..0 : stack'[i].kind = "dot"} = {}
        OBVIOUS
      <3> QED
        BY <2>2, <3>1, InnermostNone DEF DotLevel, DotFrame
    <2>5. Cardinality({}) = 0
      BY FS_EmptySet
    <2>6. /\ loopnest' = Cardinality(FramesOf({"loop"}))' /\ funcnest' = Cardinality(Running)'
          /\ dot_funcnest' = DotLevel(stack', Depth')
      BY <2>1, <2>3, <2>4, <2>5
    <2>7. \A i \in 1..Depth' : FALSE
      BY <2>2
    <2> QED
      BY <2>6, <2>7 DEF Exact, Special
  <1>3. CASE CatchFunction \/ CatchRedir \/ CatchBuiltin
    <2>1. handler > 0 /\ stack' = SubSeq(stack, 1, handler - 1)
      BY <1>3 DEF CatchFunction, CatchRedir, CatchBuiltin
    <2>2. handler \in 1..Depth /\ handler - 1 \in 0..Depth
      BY <2>1, Caught DEF XInv
    <2>3. Depth' = handler - 1 /\ \A i \in 1..(handler - 1) : stack'[i] = stack[i] /\ i \in 1..Depth
      <3>1. Depth' = handler - 1 /\ \A i \in 1..(handler - 1) : stack'[i] = stack[i]
        BY <1>1, <2>1, <2>2, CutFacts
      <3>2. \A i \in 1..(handler - 1) : i \in 1..Depth
        BY <1>1, <2>2, RunningSets
      <3> QED
        BY <3>1, <3>2
    <2>4. mode' = "exc"
      <3>1. CASE CatchFunction \/ CatchRedir
        BY <1>1, <3>1 DEF CatchFunction, CatchRedir
      <3>2. CASE CatchBuiltin
        <4>1. stack[handler].special = TRUE
          BY <2>2, <3>2 DEF CatchBuiltin, XInv, Special
        <4> QED
          BY <1>1, <3>2, <4>1 DEF CatchBuiltin
      <3> QED
        BY <1>3, <3>1, <3>2
    <2>5. Special'
      BY <2>3 DEF XInv, Special
    <2> QED
      BY <2>4, <2>5 DEF Exact
  <1> QED
    BY <1>2, <1>3

\* What a frame of each kind saves.
LEMMA Begun ==
  ASSUME EInv, NEW k \in FrameKinds, NEW special \in BOOLEAN
  PROVE  LET f == Frame(k, special)
             g == [f EXCEPT !.armed = TRUE]
         IN  /\ f \in Frames /\ f.kind = k /\ f.special = special /\ f.dot = dot_funcnest
             /\ f.armed = FALSE /\ f.params = params /\ f.localvars = localvars
             /\ f.skip = skp
             /\ g \in Frames /\ g.kind = k /\ g.special = special /\ g.dot = dot_funcnest
             /\ g.armed = TRUE /\ g.params = params /\ g.localvars = localvars
             /\ g.skip = skp
  <1> DEFINE f == Frame(k, special)
  <1>1. /\ f \in Frames /\ f.kind = k /\ f.special = special /\ f.dot = dot_funcnest
        /\ f.armed = FALSE /\ f.params = params /\ f.localvars = localvars /\ f.skip = skp
    BY FrameType DEF EInv
  <1> HIDE DEF f
  <1>2. LET g == [f EXCEPT !.armed = TRUE]
        IN  /\ g \in Frames /\ g.kind = f.kind /\ g.special = f.special /\ g.dot = f.dot
            /\ g.armed = TRUE /\ g.params = f.params /\ g.localvars = f.localvars
            /\ g.skip = f.skip
    BY <1>1, Rearmed
  <1> QED
    BY <1>1, <1>2 DEF f

LEMMA XBegin ==
  ASSUME XInv, WithCommand = FALSE,
         \/ LoopBegin \/ FuncBegin \/ RedirBegin \/ TrapBegin
         \/ \E kind \in {"eval", "dot"}, special \in BOOLEAN : BuiltinBegin(kind, special)
  PROVE  Exact' /\ Special'
  <1>0. EInv /\ TRUE \in BOOLEAN /\ FALSE \in BOOLEAN
    BY DEF XInv
  <1>1. CASE LoopBegin
    <2> DEFINE f == Frame("loop", FALSE)
    <2>1. f \in Frames /\ f.kind = "loop" /\ f.dot = dot_funcnest
      BY <1>0, Begun DEF FrameKinds
    <2>2. stack' = Append(stack, f)
      BY <1>1 DEF LoopBegin, Begin
    <2> HIDE DEF f
    <2>3. mode = "run" /\ loopnest' = loopnest + 1 /\ UNCHANGED <<funcnest, dot_funcnest>>
      BY <1>1 DEF LoopBegin, NewConstruct, NewCommand
    <2> QED
      BY <2>1, <2>2, <2>3, XPush
  <1>2. CASE FuncBegin
    <2> DEFINE f == Frame("func", FALSE)
    <2>1. f \in Frames /\ f.kind = "func" /\ f.dot = dot_funcnest /\ f.armed = FALSE
      BY <1>0, Begun DEF FrameKinds
    <2>2. stack' = Append(stack, f)
      BY <1>2 DEF FuncBegin, Begin
    <2> HIDE DEF f
    <2>3. mode = "run" /\ UNCHANGED <<loopnest, funcnest, dot_funcnest>>
      BY <1>2 DEF FuncBegin, NewConstruct, NewCommand, nst
    <2> QED
      BY <2>1, <2>2, <2>3, XPush
  <1>3. CASE RedirBegin
    <2> DEFINE f == [Frame("redir", FALSE) EXCEPT !.armed = TRUE]
    <2>1. f \in Frames /\ f.kind = "redir" /\ f.dot = dot_funcnest
      BY <1>0, Begun DEF FrameKinds
    <2>2. stack' = Append(stack, f)
      BY <1>3 DEF RedirBegin, Armed
    <2> HIDE DEF f
    <2>3. mode = "run" /\ UNCHANGED <<loopnest, funcnest, dot_funcnest>>
      BY <1>3 DEF RedirBegin, NewConstruct, NewCommand, nst
    <2> QED
      BY <2>1, <2>2, <2>3, XPush
  <1>4. CASE TrapBegin
    <2> DEFINE f == Frame("trap", FALSE)
    <2>1. f \in Frames /\ f.kind = "trap" /\ f.dot = dot_funcnest
      BY <1>0, Begun DEF FrameKinds
    <2>2. stack' = Append(stack, f)
      BY <1>4 DEF TrapBegin, Begin
    <2> HIDE DEF f
    <2>3. mode = "ret" /\ UNCHANGED <<loopnest, funcnest, dot_funcnest>>
      BY <1>4 DEF TrapBegin, nst
    <2> QED
      BY <2>1, <2>2, <2>3, XPush
  <1>5. ASSUME NEW k \in {"eval", "dot"}, NEW special \in BOOLEAN, BuiltinBegin(k, special)
        PROVE  Exact' /\ Special'
    <2> DEFINE f == [Frame(k, special) EXCEPT !.armed = TRUE]
    <2>0. k \in FrameKinds
      BY DEF FrameKinds
    <2>1. f \in Frames /\ f.kind = k /\ f.dot = dot_funcnest /\ f.special = special
      <3> DEFINE g == Frame(k, special)
      <3>1. g \in Frames /\ g.kind = k /\ g.dot = dot_funcnest /\ g.special = special
        BY <1>0, <2>0, FrameType DEF EInv
      <3> HIDE DEF g
      <3>2. LET h == [g EXCEPT !.armed = TRUE]
            IN  h \in Frames /\ h.kind = g.kind /\ h.dot = g.dot /\ h.special = g.special
        BY <3>1, Rearmed
      <3>3. f = [g EXCEPT !.armed = TRUE]
        BY DEF g
      <3> QED
        BY <3>1, <3>2, <3>3
    <2>2. stack' = Append(stack, f) /\ special = TRUE
      BY <1>5 DEF BuiltinBegin, Armed
    <2> HIDE DEF f
    <2>3. /\ mode = "run" /\ UNCHANGED <<loopnest, funcnest>>
          /\ k = "dot" => dot_funcnest' = funcnest + 1
          /\ k # "dot" => dot_funcnest' = dot_funcnest
      BY <1>5 DEF BuiltinBegin, NewConstruct, NewCommand
    <2>4. f.kind # "func" /\ f.kind # "loop"
      BY <2>1
    <2> QED
      BY <2>1, <2>2, <2>3, <2>4, XPush
  <1> QED
    BY <1>1, <1>2, <1>3, <1>4, <1>5

LEMMA XEnd ==
  ASSUME XInv,
         \/ LoopReturns \/ RedirReturns \/ EvalReturns \/ DotReturns \/ TrapReturns \/ FuncDone
  PROVE  Exact' /\ Special'
  <1>0. EInv /\ stack \in Seq(Frames)
    BY DEF XInv, EInv, TypeOK
  <1>1. CASE UNCHANGED <<stack, nst>>
    <2>1. mode # "exc"
      BY DEF LoopReturns, RedirReturns, EvalReturns, DotReturns, TrapReturns, FuncDone
    <2> QED
      BY <1>1, <2>1, XFlat
  <1>2. CASE FuncDone
    <2>1. /\ mode # "exc" /\ stack' = Pop(stack) /\ mode = "f_done"
          /\ UNCHANGED <<loopnest, funcnest, dot_funcnest>>
      BY <1>2 DEF FuncDone, nst
    <2>2. Depth > 0 /\ Inner.kind = "func" /\ ~Inner.armed
      BY <1>0, <2>1 DEF EInv, Places
    <2>3. Inner = stack[Depth] /\ stack' = SubSeq(stack, 1, Depth - 1)
      BY <2>1 DEF Inner, Depth, Pop
    <2>4. Depth \notin Running
      BY <2>2, <2>3 DEF Running
    <2>5. stack[Depth].kind # "loop" /\ stack[Depth].kind # "dot"
      BY <2>2, <2>3
    <2> QED
      BY <2>1, <2>2, <2>3, <2>4, <2>5, XCut
  <1>3. CASE ~(FuncDone \/ UNCHANGED <<stack, nst>>)
    <2>1. mode = "ret" /\ Depth > 0 /\ Inner.kind \in {"loop", "redir", "eval", "dot", "trap"}
      BY <1>3 DEF LoopReturns, RedirReturns, EvalReturns, DotReturns, TrapReturns
    <2>2. /\ stack[Depth] = Inner /\ Pop(stack) = SubSeq(stack, 1, Depth - 1)
      BY <1>0, <2>1, Returned
    <2>3. Depth \notin Running
      BY <2>1, <2>2 DEF Running
    <2>4. CASE LoopReturns
      <3>1. /\ stack[Depth].kind = "loop" /\ stack' = SubSeq(stack, 1, Depth - 1)
            /\ loopnest' = loopnest - 1 /\ UNCHANGED <<funcnest, dot_funcnest>>
        BY <1>3, <2>2, <2>4 DEF LoopReturns, LoopAgain, LoopEnd, nst
      <3> QED
        BY <2>1, <2>3, <3>1, XCut
    <2>5. CASE RedirReturns \/ EvalReturns \/ TrapReturns
      <3>1. /\ stack[Depth].kind \in {"redir", "eval", "trap"}
            /\ stack' = SubSeq(stack, 1, Depth - 1)
            /\ UNCHANGED <<loopnest, funcnest, dot_funcnest>>
        BY <1>3, <2>2, <2>5
        DEF RedirReturns, EvalReturns, TrapReturns, BuiltinEnd, MoreInput, TrapEnd, nst
      <3>2. stack[Depth].kind # "loop" /\ stack[Depth].kind # "dot"
        BY <3>1
      <3> QED
        BY <2>1, <2>3, <3>1, <3>2, XCut
    <2>6. CASE DotReturns
      <3>1. /\ stack[Depth].kind = "dot" /\ stack' = SubSeq(stack, 1, Depth - 1)
            /\ UNCHANGED <<loopnest, funcnest>> /\ dot_funcnest' = stack[Depth].dot
        BY <1>3, <2>2, <2>6 DEF DotReturns, BuiltinEnd, MoreInput, nst
      <3> QED
        BY <2>1, <2>3, <3>1, XCut
    <2> QED
      BY <1>3, <2>4, <2>5, <2>6
  <1> QED
    BY <1>1, <1>2, <1>3

LEMMA XFunction ==
  ASSUME XInv, FuncHandler \/ FuncReturns
  PROVE  Exact' /\ Special'
  <1>0. EInv /\ stack \in Seq(Frames)
    BY DEF XInv, EInv, TypeOK
  <1>1. CASE FuncHandler
    <2>1. /\ mode = "f_handler" /\ stack' = [stack EXCEPT ![Depth].armed = TRUE]
          /\ funcnest' = funcnest + 1 /\ UNCHANGED <<loopnest, dot_funcnest>>
      BY <1>1 DEF FuncHandler
    <2>2. Depth > 0 /\ Inner.kind = "func" /\ ~Inner.armed /\ Inner = stack[Depth]
      BY <1>0, <2>1 DEF EInv, Places, Inner, Depth
    <2>3. TRUE # stack[Depth].armed /\ TRUE \in BOOLEAN
      BY <2>2
    <2> QED
      BY <2>1, <2>2, <2>3, XArm
  <1>2. CASE FuncReturns
    <2>1. /\ mode = "ret" /\ stack' = [stack EXCEPT ![Depth].armed = FALSE]
          /\ funcnest' = funcnest - 1 /\ UNCHANGED <<loopnest, dot_funcnest>>
          /\ Depth > 0 /\ Inner.kind = "func"
      BY <1>2 DEF FuncReturns
    <2>2. Inner = stack[Depth] /\ stack[Depth].armed
      BY <1>0, <2>1, Returned
    <2>3. FALSE # stack[Depth].armed /\ FALSE \in BOOLEAN
      BY <2>2
    <2> QED
      BY <2>1, <2>2, <2>3, XArm
  <1> QED
    BY <1>1, <1>2

LEMMA XNext ==
  ASSUME ResetBlocks = TRUE, WithCommand = FALSE, XInv, [Next]_vars
  PROVE  XInv'
  <1>0. EInv'
    BY ENext DEF XInv
  <1>1. CASE CatchFunction \/ CatchRedir \/ CatchBuiltin \/ CatchMain
    BY <1>0, <1>1, XCatch DEF XInv
  <1>2. CASE \/ LoopBegin \/ FuncBegin \/ RedirBegin \/ TrapBegin
             \/ \E kind \in {"eval", "dot"}, special \in BOOLEAN : BuiltinBegin(kind, special)
    BY <1>0, <1>2, XBegin DEF XInv
  <1>3. CASE \/ LoopReturns \/ RedirReturns \/ EvalReturns \/ DotReturns \/ TrapReturns
             \/ FuncDone
    BY <1>0, <1>3, XEnd DEF XInv
  <1>4. CASE FuncHandler \/ FuncReturns
    BY <1>0, <1>4, XFunction DEF XInv
  <1>5. CASE \/ Interrupt \/ Builtin \/ External \/ Local \/ Return
             \/ ExpansionError \/ SpecialError \/ RegularError \/ FuncRedirFails
             \/ FuncParams \/ RedirFails \/ TopReturns \/ UNCHANGED vars
    <2>1. UNCHANGED <<stack, nst>>
      BY <1>5
      DEF Interrupt, Builtin, External, Local, Return, ExpansionError, SpecialError,
          RegularError, FuncRedirFails, FuncParams, RedirFails, TopReturns, vars
    <2>2. mode' = "exc" \/ mode # "exc" \/ mode' = mode
      BY <1>5
      DEF Interrupt, Builtin, External, Local, Return, ExpansionError, SpecialError,
          RegularError, FuncRedirFails, FuncParams, RedirFails, TopReturns, vars,
          NewConstruct, NewCommand
    <2> QED
      BY <1>0, <2>1, <2>2, XFlat DEF XInv
  <1>6. CASE \E skip \in {"break", "cont"}, n \in 1..2 : Break(skip, n)
    <2>1. UNCHANGED <<stack, nst>> /\ mode # "exc"
      BY <1>6 DEF Break, NewCommand
    <2> QED
      BY <1>0, <2>1, XFlat DEF XInv
  <1> QED
    BY <1>1, <1>2, <1>3, <1>4, <1>5, <1>6 DEF Next

THEOREM Exactly ==
  ASSUME ResetBlocks = TRUE, WithCommand = FALSE
  PROVE  Spec => []XInv
  <1>1. Init => XInv
    BY EInitially, XInitially DEF XInv
  <1>2. XInv /\ [Next]_vars => XInv'
    BY XNext
  <1> QED
    BY <1>1, <1>2, PTL DEF Spec

\* The counters that break, continue and return go by (loopnest and funcnest of
\* eval.c, dot_funcnest of main.c) are those of the constructs being evaluated,
\* whatever an exception, a break or a return left on the way.
THEOREM CountersAreExact ==
  ASSUME ResetBlocks = TRUE, WithCommand = FALSE
  PROVE  Spec => []CountersExact
  <1>1. XInv => CountersExact
    <2> SUFFICES ASSUME XInv, mode = "run" PROVE CountersExact
      BY DEF CountersExact
    <2>1. loopnest = Cardinality(FramesOf({"loop"})) /\ dot_funcnest = DotLevel(stack, Depth)
      BY DEF XInv, Exact
    <2>2. funcnest = Cardinality(FramesOf({"func"}))
      BY AllRunning DEF XInv, Exact
    <2> DEFINE dot == Innermost(FramesOf({"dot"}))
    <2>3. dot = DotFrame(stack, Depth) /\ dot \in 0..Depth /\ Depth \in Nat
      <3>1. FramesOf({"dot"}) = {i \in 1..Depth : stack[i].kind = "dot"}
        BY DEF FramesOf
      <3>2. FramesOf({"dot"}) \subseteq 1..Depth /\ Depth \in Nat
        BY RunningSets DEF FramesOf, XInv, EInv, TypeOK
      <3>3. dot \in 0..Depth
        BY <3>2, InnermostRange
      <3> QED
        BY <3>1, <3>2, <3>3 DEF DotFrame
    <2>4. {i \in FramesOf({"func"}) : i < dot} = {i \in 1..(dot - 1) : stack[i].kind = "func"}
      <3> HIDE DEF dot
      <3>1. \A i : i \in 1..Depth /\ i < dot <=> i \in 1..(dot - 1)
        BY <2>3
      <3> QED
        BY <3>1 DEF FramesOf
    <2>5. dot_funcnest = IF dot = 0 THEN 0
                         ELSE 1 + Cardinality({i \in FramesOf({"func"}) : i < dot})
      BY <2>1, <2>3, <2>4 DEF DotLevel
    <2> QED
      BY <2>1, <2>2, <2>5 DEF CountersExact
  <1> QED
    BY <1>1, Exactly, PTL

-----------------------------------------------------------------------------
(* All that a construct puts in place goes with it, when no interrupt      *)
(* comes and the redirections of compound commands do not fail.            *)

Redirecting == {"func", "redir", "eval", "dot"}

\* The constructs whose tables are on redirlist: a function that is over has
\* popped its own.
Held == {i \in FramesOf(Redirecting) : ~(mode = "f_done" /\ i = Depth)}

Elems(s) == {s[k] : k \in 1..Len(s)}
Ordered(s) == \A k, l \in 1..Len(s) : k < l => s[k] < s[l]

RedirInv == mode # "exc" => Elems(redirs) = Held /\ Ordered(redirs)
FilesInv == mode # "exc" => files = Cardinality(FileFrames(Depth))

\* The functions among the first n frames of s, and those whose parameters and
\* local variables are in place.
Funcs(s, n) == {i \in 1..n : s[i].kind = "func"}
Live == IF mode \in {"f_params", "f_done"} THEN Funcs(stack, Depth - 1) ELSE Funcs(stack, Depth)

LocalInv ==
  /\ params = Innermost(Live) /\ localvars = Innermost(Live) /\ shadowed \subseteq Live
  /\ \A i \in 1..Depth : stack[i].kind = "func" =>
       /\ stack[i].params = Innermost(Funcs(stack, i - 1))
       /\ stack[i].localvars = Innermost(Funcs(stack, i - 1))

\* Without interrupts no exception comes between a function's beginning and its
\* setjmp.
SettledToo ==
  mode = "exc" => \A i \in 1..Depth : stack[i].kind \notin {"loop", "trap"} => stack[i].armed

IntInv ==
  (mode # "exc" => suppressint = 0) /\ intpending = FALSE

RInv == XInv /\ RedirInv /\ FilesInv /\ LocalInv /\ SettledToo /\ IntInv

\* Tables are pushed and popped at the end of an ordered list.
LEMMA OrderedAppend ==
  ASSUME NEW S, S \subseteq Nat, NEW s \in Seq(S), Ordered(s), NEW x \in S,
         \A y \in Elems(s) : y < x
  PROVE  Ordered(Append(s, x)) /\ Elems(Append(s, x)) = Elems(s) \cup {x}
  <1> DEFINE t == Append(s, x)
  <1>1. /\ Len(s) \in Nat /\ Len(t) = Len(s) + 1 /\ t[Len(s) + 1] = x
        /\ \A k \in 1..Len(s) : t[k] = s[k] /\ s[k] \in S
    OBVIOUS
  <1>2. \A k \in 1..Len(t) : k \in 1..Len(s) \/ k = Len(s) + 1
    BY <1>1
  <1> HIDE DEF t
  <1>3. Elems(t) = Elems(s) \cup {x}
    <2>1. \A k \in 1..Len(s) : k \in 1..Len(t)
      BY <1>1
    <2>2. Len(s) + 1 \in 1..Len(t)
      BY <1>1
    <2> QED
      BY <1>1, <1>2, <2>1, <2>2 DEF Elems
  <1>4. ASSUME NEW k \in 1..Len(t), NEW l \in 1..Len(t), k < l PROVE t[k] < t[l]
    <2>1. k \in 1..Len(s)
      BY <1>1, <1>4
    <2>2. CASE l \in 1..Len(s)
      BY <1>1, <1>4, <2>1, <2>2 DEF Ordered
    <2>3. CASE l = Len(s) + 1
      BY <1>1, <2>1, <2>3 DEF Elems
    <2> QED
      BY <1>2, <2>2, <2>3
  <1> QED
    BY <1>3, <1>4 DEF t, Ordered

LEMMA OrderedPop ==
  ASSUME NEW S, S \subseteq Nat, NEW s \in Seq(S), Ordered(s), NEW x \in Elems(s),
         \A y \in Elems(s) : y <= x
  PROVE  Ordered(Pop(s)) /\ Elems(Pop(s)) = Elems(s) \ {x}
  <1> DEFINE t == Pop(s)
  <1>1. PICK m \in 1..Len(s) : x = s[m]
    BY DEF Elems
  <1>2. Len(s) \in Nat /\ Len(s) > 0 /\ \A k \in 1..Len(s) : s[k] \in S /\ s[k] \in Nat
    <2>1. Len(s) \in Nat /\ \A k \in 1..Len(s) : s[k] \in S
      OBVIOUS
    <2>2. Len(s) > 0
      BY <1>1, <2>1
    <2> QED
      BY <2>1, <2>2
  <1>3. Len(t) = Len(s) - 1 /\ \A k \in 1..Len(s) - 1 : t[k] = s[k]
    <2> DEFINE n == Len(s) - 1
    <2>1. n \in 0..Len(s) /\ t = SubSeq(s, 1, n)
      BY <1>2 DEF Pop
    <2> HIDE DEF n
    <2>2. Len(t) = n /\ \A k \in 1..n : t[k] = s[k]
      BY <1>2, <2>1
    <2> QED
      BY <2>2 DEF n
  <1>4. s[Len(s)] = x
    <2>1. Len(s) \in 1..Len(s) /\ s[Len(s)] <= x
      BY <1>2 DEF Elems
    <2>2. CASE m < Len(s)
      <3>1. s[m] < s[Len(s)]
        BY <2>1, <2>2 DEF Ordered
      <3> QED
        BY <1>1, <1>2, <2>1, <3>1
    <2>3. CASE m = Len(s)
      BY <1>1, <2>3
    <2> QED
      BY <1>1, <1>2, <2>2, <2>3
  <1>5. \A k \in 1..Len(s) : k \in 1..Len(s) - 1 \/ k = Len(s)
    BY <1>2
  <1>6. \A k \in 1..Len(t) : k \in 1..Len(s) /\ t[k] = s[k] /\ s[k] < x
    <2> SUFFICES ASSUME NEW k \in 1..Len(t) PROVE k \in 1..Len(s) /\ t[k] = s[k] /\ s[k] < x
      OBVIOUS
    <2>1. k \in 1..Len(s) /\ k < Len(s) /\ Len(s) \in 1..Len(s) /\ k \in 1..Len(s) - 1
      BY <1>2, <1>3
    <2>2. s[k] < s[Len(s)]
      BY <2>1 DEF Ordered
    <2> QED
      BY <1>3, <1>4, <2>1, <2>2
  <1> HIDE DEF t
  <1>7. Elems(t) = Elems(s) \ {x}
    <2>1. \A y \in Elems(t) : y \in Elems(s) /\ y # x
      BY <1>2, <1>6 DEF Elems
    <2>2. ASSUME NEW y \in Elems(s), y # x PROVE y \in Elems(t)
      <3>1. PICK k \in 1..Len(s) : y = s[k]
        BY DEF Elems
      <3>2. k \in 1..Len(t) /\ t[k] = s[k]
        BY <1>3, <1>4, <1>5, <2>2, <3>1
      <3> QED
        BY <3>1, <3>2 DEF Elems
    <2> QED
      BY <2>1, <2>2
  <1>8. Ordered(t)
    <2> SUFFICES ASSUME NEW k \in 1..Len(t), NEW l \in 1..Len(t), k < l PROVE t[k] < t[l]
      BY DEF Ordered
    <2> QED
      BY <1>6 DEF Ordered
  <1> QED
    BY <1>7, <1>8 DEF t

\* A construct with a table begins: its table comes on top, ...
LEMMA TablePushed ==
  ASSUME TypeOK, Elems(redirs) = FramesOf(Redirecting), Ordered(redirs)
  PROVE  LET r == Append(redirs, Depth + 1)
         IN  Ordered(r) /\ Elems(r) = FramesOf(Redirecting) \cup {Depth + 1}
  <1> DEFINE S == 1..(MaxDepth + 1)
  <1>1. redirs \in Seq(S) /\ S \subseteq Nat
    BY DEF TypeOK
  <1>2. Depth \in Nat /\ Depth + 1 \in S /\ FramesOf(Redirecting) \subseteq 1..Depth
    BY DEF TypeOK, FramesOf, Depth
  <1>3. \A y \in Elems(redirs) : y < Depth + 1
    BY <1>2
  <1> DEFINE x == Depth + 1
  <1>4. x \in S /\ \A y \in Elems(redirs) : y < x
    BY <1>2, <1>3
  <1> HIDE DEF S, x
  <1>5. /\ Ordered(Append(redirs, x))
        /\ Elems(Append(redirs, x)) = Elems(redirs) \cup {x}
    BY ONLY <1>1, <1>4, Ordered(redirs), OrderedAppend
  <1> QED
    BY <1>5 DEF x

\* ... and is popped when it ends.
LEMMA TablePopped ==
  ASSUME TypeOK, Elems(redirs) = FramesOf(Redirecting), Ordered(redirs),
         Depth > 0, stack[Depth].kind \in Redirecting
  PROVE  Ordered(Pop(redirs)) /\ Elems(Pop(redirs)) = FramesOf(Redirecting) \ {Depth}
  <1> DEFINE S == 1..(MaxDepth + 1)
  <1>1. redirs \in Seq(S) /\ S \subseteq Nat
    BY DEF TypeOK
  <1>2. Depth \in Nat /\ Depth \in 1..Depth
    BY DEF TypeOK, Depth
  <1>3. Depth \in Elems(redirs) /\ \A y \in Elems(redirs) : y <= Depth
    BY <1>2 DEF FramesOf
  <1> HIDE DEF S
  <1> QED
    BY <1>1, <1>2, <1>3, OrderedPop

\* What is known of the functions of a prefix.
LEMMA FuncsPrefix ==
  ASSUME NEW s, NEW t, NEW n \in Nat, \A j \in 1..n : t[j].kind = s[j].kind, NEW i \in 0..n
  PROVE  Funcs(t, i) = Funcs(s, i) /\ Funcs(s, i) \subseteq 1..i
  <1>1. \A j \in 1..i : j \in 1..n
    OBVIOUS
  <1> QED
    BY <1>1 DEF Funcs

LEMMA FuncsLast ==
  ASSUME NEW s, NEW n \in Nat, n > 0
  PROVE  /\ s[n].kind # "func" => Funcs(s, n) = Funcs(s, n - 1)
         /\ s[n].kind = "func" => Funcs(s, n) = Funcs(s, n - 1) \cup {n} /\ Innermost(Funcs(s, n)) = n
  <1>1. \A i \in 1..n : i \in 1..n - 1 \/ i = n
    OBVIOUS
  <1>2. \A i \in 1..n - 1 : i \in 1..n
    OBVIOUS
  <1>3. s[n].kind # "func" => Funcs(s, n) = Funcs(s, n - 1)
    BY <1>1, <1>2 DEF Funcs
  <1>4. ASSUME s[n].kind = "func"
        PROVE  Funcs(s, n) = Funcs(s, n - 1) \cup {n} /\ Innermost(Funcs(s, n)) = n
    <2>1. Funcs(s, n) = Funcs(s, n - 1) \cup {n}
      BY <1>1, <1>2, <1>4 DEF Funcs
    <2>2. Funcs(s, n) \subseteq Nat /\ n \in Funcs(s, n) /\ \A j \in Funcs(s, n) : j <= n
      BY <1>4 DEF Funcs
    <2> QED
      BY <2>1, <2>2, InnermostIs
  <1> QED
    BY <1>3, <1>4

\* The stack stays.
LEMMA RFlat ==
  ASSUME RInv, UNCHANGED <<stack, files, params, localvars>>,
         mode' = mode \/ (mode \in {"run", "ret"} /\ mode' \in {"run", "ret", "dead", "exc"}),
         mode' = "exc" \/ redirs' = redirs,
         shadowed' = shadowed \/ (localvars > 0 /\ shadowed' = shadowed \cup {localvars})
  PROVE  RedirInv' /\ FilesInv' /\ LocalInv' /\ SettledToo'
  <1>1. /\ Depth' = Depth /\ FramesOf(Redirecting)' = FramesOf(Redirecting)
        /\ FileFrames(Depth)' = FileFrames(Depth)
    BY DEF Depth, FramesOf, FileFrames, Redirecting
  <1>2. stack \in Seq(Frames) /\ Depth \in Nat /\ Places
    BY DEF RInv, XInv, EInv, TypeOK, Depth
  <1>3. Live' = Live
    BY <1>1 DEF Live
  <1>4. RedirInv'
    BY <1>1 DEF RInv, RedirInv, Held
  <1>5. FilesInv'
    BY <1>1 DEF RInv, FilesInv
  <1>6. SettledToo'
    BY <1>1, <1>2, Settled DEF RInv, SettledToo
  <1>7. LocalInv'
    <2>1. /\ params = Innermost(Live) /\ localvars = Innermost(Live) /\ shadowed \subseteq Live
      BY DEF RInv, LocalInv
    <2>2. Live \subseteq 1..Depth
      BY <1>2 DEF Live, Funcs
    <2>3. localvars \in 0..Depth /\ (localvars # 0 => localvars \in Live)
      BY <1>2, <2>1, <2>2, InnermostRange
    <2>4. shadowed' \subseteq Live'
      BY <1>3, <2>1, <2>3
    <2>5. params' = Innermost(Live') /\ localvars' = Innermost(Live')
      BY <1>3, <2>1
    <2>6. \A i \in 1..Depth' : stack'[i].kind = "func" =>
            /\ stack'[i].params = Innermost(Funcs(stack', i - 1))
            /\ stack'[i].localvars = Innermost(Funcs(stack', i - 1))
      BY <1>1 DEF RInv, LocalInv
    <2> QED
      BY <2>4, <2>5, <2>6 DEF LocalInv, Innermost
  <1> QED
    BY <1>4, <1>5, <1>6, <1>7

\* A construct begins.
LEMMA RPush ==
  ASSUME RInv, mode \in {"run", "ret"}, NEW f \in Frames, stack' = Append(stack, f),
         f.params = params, f.localvars = localvars, UNCHANGED lcl,
         f.kind \in Redirecting => redirs' = Append(redirs, Depth + 1),
         f.kind \notin Redirecting => redirs' = redirs,
         f.kind \in {"eval", "dot", "trap"} => files' = files + 1,
         f.kind \notin {"eval", "dot", "trap"} => files' = files,
         f.kind = "func" => mode' = "f_params",
         f.kind # "func" => mode' \in {"run", "ret"}
  PROVE  RedirInv' /\ FilesInv' /\ LocalInv' /\ SettledToo'
  <1>1. stack \in Seq(Frames) /\ TypeOK /\ EInv
    BY DEF RInv, XInv, EInv, TypeOK
  <1>2. /\ Depth \in Nat /\ Depth' = Depth + 1
        /\ stack'[Depth + 1] = f /\ \A i \in 1..Depth : stack'[i] = stack[i]
    BY <1>1, PushFacts
  <1>3. mode' \in {"run", "ret", "f_params"}
    OBVIOUS
  <1>4. Elems(redirs) = FramesOf(Redirecting) /\ Ordered(redirs)
    BY DEF RInv, RedirInv, Held
  <1>5. RedirInv'
    <2>1. Elems(redirs') = FramesOf(Redirecting)' /\ Ordered(redirs')
      <3>1. CASE f.kind \in Redirecting
        <4>1. FramesOf(Redirecting)' = FramesOf(Redirecting) \cup {Depth + 1}
          BY <1>1, <3>1, PushSets DEF Redirecting
        <4> QED
          BY <1>1, <1>4, <3>1, <4>1, TablePushed
      <3>2. CASE f.kind \notin Redirecting
        <4>1. FramesOf(Redirecting)' = FramesOf(Redirecting)
          BY <1>1, <3>2, PushSets DEF Redirecting
        <4> QED
          BY <1>4, <3>2, <4>1
      <3> QED
        BY <3>1, <3>2
    <2> QED
      BY <1>3, <2>1 DEF RedirInv, Held, Elems, Ordered
  <1>6. FilesInv'
    <2>1. /\ FileFrames(Depth) = FramesOf({"eval", "dot", "trap"})
          /\ FileFrames(Depth)' = FramesOf({"eval", "dot", "trap"})'
      BY DEF FileFrames, FramesOf
    <2>2. /\ Cardinality(FileFrames(Depth)) \in Nat
          /\ Cardinality(FileFrames(Depth))' = Cardinality(FileFrames(Depth))
               + (IF f.kind \in {"eval", "dot", "trap"} THEN 1 ELSE 0)
      BY <1>1, <2>1, PushNumbers
    <2>3. files = Cardinality(FileFrames(Depth))
      BY DEF RInv, FilesInv
    <2>4. CASE f.kind \in {"eval", "dot", "trap"}
      BY <2>2, <2>3, <2>4 DEF FilesInv
    <2>5. CASE f.kind \notin {"eval", "dot", "trap"}
      BY <2>2, <2>3, <2>5 DEF FilesInv
    <2> QED
      BY <2>4, <2>5
  <1>7. LocalInv'
    <2> DEFINE m == Depth + 1
    <2>0. m \in Nat /\ m > 0 /\ m - 1 = Depth /\ Depth' = m /\ stack'[m] = f
      BY <1>2
    <2>1. \A i \in 0..Depth : Funcs(stack', i) = Funcs(stack, i)
      <3>1. \A j \in 1..Depth : stack'[j].kind = stack[j].kind
        BY <1>2
      <3>2. Depth \in Nat
        BY <1>2
      <3> QED
        BY ONLY <3>1, <3>2, FuncsPrefix
    <2>2. Live = Funcs(stack, Depth)
      BY DEF Live
    <2> HIDE DEF m
    <2>3. Live' = Live
      <3>1. Depth' - 1 = Depth /\ Depth \in 0..Depth
        BY <1>2
      <3>2. CASE f.kind = "func"
        BY <2>1, <2>2, <3>1, <3>2 DEF Live
      <3>3. CASE f.kind # "func"
        <4>1. Funcs(stack', m) = Funcs(stack', m - 1)
          BY <2>0, <3>3, FuncsLast
        <4>2. Funcs(stack', Depth') = Funcs(stack, Depth)
          BY <2>0, <2>1, <3>1, <4>1
        <4> QED
          BY <1>3, <2>2, <3>3, <4>2 DEF Live
      <3> QED
        BY <3>2, <3>3
    <2>4. UNCHANGED <<params, localvars, shadowed>>
      BY DEF lcl
    <2>5. params = Innermost(Live) /\ localvars = Innermost(Live) /\ shadowed \subseteq Live
      BY DEF RInv, LocalInv
    <2>6. ASSUME NEW i \in 1..Depth', stack'[i].kind = "func"
          PROVE  /\ stack'[i].params = Innermost(Funcs(stack', i - 1))
                 /\ stack'[i].localvars = Innermost(Funcs(stack', i - 1))
      <3>1. CASE i = m
        <4>1. Funcs(stack', i - 1) = Live
          BY <1>2, <2>0, <2>1, <2>2, <3>1
        <4> QED
          BY <2>0, <2>5, <3>1, <4>1
      <3>2. CASE i \in 1..Depth
        <4>1. i - 1 \in 0..Depth
          BY <1>2, <3>2
        <4> QED
          BY <1>2, <2>1, <2>6, <3>2, <4>1 DEF RInv, LocalInv
      <3>3. i = m \/ i \in 1..Depth
        BY <1>2, <2>0
      <3> QED
        BY <3>1, <3>2, <3>3
    <2> QED
      BY <2>3, <2>4, <2>5, <2>6 DEF LocalInv, Innermost
  <1>8. SettledToo'
    BY <1>3 DEF SettledToo
  <1> QED
    BY <1>5, <1>6, <1>7, <1>8

\* A construct other than a function returns.
LEMMA RCut ==
  ASSUME RInv, mode = "ret", mode' = "ret", Depth > 0, stack' = SubSeq(stack, 1, Depth - 1),
         stack[Depth].kind # "func", UNCHANGED lcl,
         stack[Depth].kind \in Redirecting => redirs' = Pop(redirs),
         stack[Depth].kind \notin Redirecting => redirs' = redirs,
         stack[Depth].kind \in {"eval", "dot", "trap"} => files' = files - 1,
         stack[Depth].kind \notin {"eval", "dot", "trap"} => files' = files
  PROVE  RedirInv' /\ FilesInv' /\ LocalInv' /\ SettledToo'
  <1> DEFINE n == Depth - 1
  <1>1. stack \in Seq(Frames) /\ TypeOK /\ EInv
    BY DEF RInv, XInv, EInv, TypeOK
  <1>2. /\ Depth \in Nat /\ Depth \in 1..Depth /\ n \in 0..Depth /\ n \in Nat
        /\ n = Depth - 1 /\ stack' = SubSeq(stack, 1, n)
    BY <1>1, RunningSets
  <1> HIDE DEF n
  <1>3. Depth' = n /\ \A i \in 1..n : stack'[i] = stack[i]
    BY <1>1, <1>2, CutFacts
  <1>4. Elems(redirs) = FramesOf(Redirecting) /\ Ordered(redirs)
    BY DEF RInv, RedirInv, Held
  <1>5. RedirInv'
    <2>1. Elems(redirs') = FramesOf(Redirecting)' /\ Ordered(redirs')
      <3>1. CASE stack[Depth].kind \in Redirecting
        <4>1. FramesOf(Redirecting)' = FramesOf(Redirecting) \ {Depth}
          BY <1>1, <1>2, <3>1, CutSets DEF Redirecting
        <4> QED
          BY <1>1, <1>4, <3>1, <4>1, TablePopped
      <3>2. CASE stack[Depth].kind \notin Redirecting
        <4>1. FramesOf(Redirecting)' = FramesOf(Redirecting)
          BY <1>1, <1>2, <3>2, CutSets DEF Redirecting
        <4> QED
          BY <1>4, <3>2, <4>1
      <3> QED
        BY <3>1, <3>2
    <2> QED
      BY <2>1 DEF RedirInv, Held, Elems, Ordered
  <1>6. FilesInv'
    <2>1. /\ FileFrames(Depth) = FramesOf({"eval", "dot", "trap"})
          /\ FileFrames(Depth)' = FramesOf({"eval", "dot", "trap"})'
      BY DEF FileFrames, FramesOf
    <2>2. /\ Cardinality(FileFrames(Depth))' \in Nat
          /\ Cardinality(FileFrames(Depth)) = Cardinality(FileFrames(Depth))'
               + (IF stack[Depth].kind \in {"eval", "dot", "trap"} THEN 1 ELSE 0)
      BY <1>1, <1>2, <2>1, CutNumbers
    <2>3. files = Cardinality(FileFrames(Depth))
      BY DEF RInv, FilesInv
    <2>4. CASE stack[Depth].kind \in {"eval", "dot", "trap"}
      <3>1. files' = files - 1 /\ files = Cardinality(FileFrames(Depth))' + 1
        BY <2>2, <2>3, <2>4
      <3>2. files' = Cardinality(FileFrames(Depth))'
        BY ONLY <2>2, <3>1
      <3> QED
        BY <3>2 DEF FilesInv
    <2>5. CASE stack[Depth].kind \notin {"eval", "dot", "trap"}
      <3>1. files' = files /\ files = Cardinality(FileFrames(Depth))' + 0
        BY <2>2, <2>3, <2>5
      <3>2. files' = Cardinality(FileFrames(Depth))'
        BY ONLY <2>2, <3>1
      <3> QED
        BY <3>2 DEF FilesInv
    <2> QED
      BY <2>4, <2>5
  <1>7. LocalInv'
    <2>1. \A i \in 0..n : Funcs(stack', i) = Funcs(stack, i)
      <3>1. \A j \in 1..n : stack'[j].kind = stack[j].kind
        BY <1>3
      <3>2. n \in Nat
        BY <1>2
      <3> QED
        BY ONLY <3>1, <3>2, FuncsPrefix
    <2>2. Live' = Live
      <3>1. Funcs(stack, Depth) = Funcs(stack, n)
        BY <1>2, FuncsLast
      <3>2. n \in 0..n
        BY <1>2
      <3> QED
        BY <1>3, <2>1, <3>1, <3>2 DEF Live
    <2>3. UNCHANGED <<params, localvars, shadowed>>
      BY DEF lcl
    <2>4. params = Innermost(Live) /\ localvars = Innermost(Live) /\ shadowed \subseteq Live
      BY DEF RInv, LocalInv
    <2>5. ASSUME NEW i \in 1..Depth', stack'[i].kind = "func"
          PROVE  /\ stack'[i].params = Innermost(Funcs(stack', i - 1))
                 /\ stack'[i].localvars = Innermost(Funcs(stack', i - 1))
      <3>1. i \in 1..Depth /\ i \in 1..n /\ i - 1 \in 0..n
        BY <1>2, <1>3
      <3> QED
        BY <1>3, <2>1, <2>5, <3>1 DEF RInv, LocalInv
    <2>6. params' = Innermost(Live') /\ localvars' = Innermost(Live') /\ shadowed' \subseteq Live'
      BY <2>2, <2>3, <2>4
    <2> QED
      BY <2>5, <2>6 DEF LocalInv, Innermost
  <1>8. SettledToo'
    BY DEF SettledToo
  <1> QED
    BY <1>5, <1>6, <1>7, <1>8

\* A function's parameters are set, it calls setjmp, it is over and it is done.
LEMMA RFuncParams ==
  ASSUME RInv, FuncParams
  PROVE  RedirInv' /\ FilesInv' /\ LocalInv' /\ SettledToo'
  <1>1. /\ mode = "f_params" /\ mode' = "f_handler" /\ params' = Depth /\ localvars' = Depth
        /\ UNCHANGED <<shadowed, stack, redirs, files>>
    BY DEF FuncParams
  <1>2. /\ Depth' = Depth /\ FramesOf(Redirecting)' = FramesOf(Redirecting)
        /\ FileFrames(Depth)' = FileFrames(Depth)
    BY <1>1 DEF Depth, FramesOf, FileFrames, Redirecting
  <1>3. /\ Depth \in Nat /\ Depth > 0 /\ stack[Depth].kind = "func"
    BY <1>1 DEF RInv, XInv, EInv, TypeOK, Places, Inner, Depth
  <1>4. RedirInv' /\ FilesInv' /\ SettledToo'
    BY <1>1, <1>2 DEF RInv, RedirInv, FilesInv, SettledToo, Held
  <1>5. LocalInv'
    <2>1. Live' = Funcs(stack, Depth) /\ Live = Funcs(stack, Depth - 1)
      BY <1>1, <1>2 DEF Live
    <2>2. Innermost(Live') = Depth /\ Live' = Live \cup {Depth}
      BY <1>3, <2>1, FuncsLast
    <2>3. params' = Innermost(Live') /\ localvars' = Innermost(Live') /\ shadowed' \subseteq Live'
      BY <1>1, <2>2 DEF RInv, LocalInv
    <2>4. \A i \in 1..Depth' : stack'[i].kind = "func" =>
            /\ stack'[i].params = Innermost(Funcs(stack', i - 1))
            /\ stack'[i].localvars = Innermost(Funcs(stack', i - 1))
      BY <1>1, <1>2 DEF RInv, LocalInv
    <2> QED
      BY <2>3, <2>4 DEF LocalInv, Innermost
  <1> QED
    BY <1>4, <1>5

\* What does not change when setjmp is called, or the function is over.
LEMMA ArmSame ==
  ASSUME stack \in Seq(Frames), Depth > 0, NEW b \in BOOLEAN,
         stack' = [stack EXCEPT ![Depth].armed = b]
  PROVE  /\ Depth \in Nat /\ Depth' = Depth /\ Depth \in 1..Depth
         /\ \A i \in 1..Depth :
              /\ stack'[i].kind = stack[i].kind /\ stack'[i].params = stack[i].params
              /\ stack'[i].localvars = stack[i].localvars /\ stack'[i].skip = stack[i].skip
         /\ \A K : FramesOf(K)' = FramesOf(K)
         /\ FileFrames(Depth)' = FileFrames(Depth)
         /\ \A i \in 0..Depth : Funcs(stack', i) = Funcs(stack, i)
         /\ \A i \in 1..Depth - 1 : stack'[i] = stack[i]
         /\ stack'[Depth].armed = b
  <1>1. /\ Depth \in Nat /\ Depth' = Depth /\ Depth \in 1..Depth
        /\ \A i \in 1..Depth - 1 : stack'[i] = stack[i]
        /\ stack'[Depth].armed = b /\ stack'[Depth].kind = stack[Depth].kind
        /\ stack'[Depth].params = stack[Depth].params
        /\ stack'[Depth].localvars = stack[Depth].localvars
        /\ stack'[Depth].skip = stack[Depth].skip
    <2>1. Depth \in Nat /\ Depth \in 1..Depth
      BY RunningSets
    <2> QED
      BY <2>1, ArmFacts
  <1>2. \A i \in 1..Depth : i \in 1..Depth - 1 \/ i = Depth
    BY <1>1
  <1>3. \A i \in 1..Depth :
              /\ stack'[i].kind = stack[i].kind /\ stack'[i].params = stack[i].params
              /\ stack'[i].localvars = stack[i].localvars /\ stack'[i].skip = stack[i].skip
    BY <1>1, <1>2
  <1>4. (\A K : FramesOf(K)' = FramesOf(K)) /\ FileFrames(Depth)' = FileFrames(Depth)
    BY <1>1, <1>3 DEF FramesOf, FileFrames
  <1>5. \A i \in 0..Depth : Funcs(stack', i) = Funcs(stack, i)
    <2>1. Depth \in Nat /\ \A i \in 1..Depth : stack'[i].kind = stack[i].kind
      BY <1>1, <1>3
    <2> QED
      BY ONLY <2>1, FuncsPrefix
  <1> QED
    BY <1>1, <1>3, <1>4, <1>5

LEMMA RFuncHandler ==
  ASSUME RInv, FuncHandler
  PROVE  RedirInv' /\ FilesInv' /\ LocalInv' /\ SettledToo'
  <1>1. /\ mode = "f_handler" /\ mode' \in {"run", "exc"}
        /\ stack' = [stack EXCEPT ![Depth].armed = TRUE]
        /\ UNCHANGED <<redirs, files, params, localvars, shadowed>>
    BY DEF FuncHandler, RaiseError, lcl
  <1>2. stack \in Seq(Frames) /\ Places /\ Depth > 0
    BY <1>1 DEF RInv, XInv, EInv, TypeOK, Places
  <1>3. /\ Depth \in Nat /\ Depth' = Depth /\ Depth \in 1..Depth
        /\ \A i \in 1..Depth :
             /\ stack'[i].kind = stack[i].kind /\ stack'[i].params = stack[i].params
             /\ stack'[i].localvars = stack[i].localvars
        /\ FramesOf(Redirecting)' = FramesOf(Redirecting)
        /\ FileFrames(Depth)' = FileFrames(Depth)
        /\ \A i \in 0..Depth : Funcs(stack', i) = Funcs(stack, i)
        /\ \A i \in 1..Depth - 1 : stack'[i] = stack[i]
        /\ stack'[Depth].armed
    BY <1>1, <1>2, ArmSame DEF Redirecting
  <1>4. RedirInv' /\ FilesInv'
    BY <1>1, <1>3 DEF RInv, RedirInv, FilesInv, Held
  <1>5. SettledToo'
    <2>1. \A i \in 1..Depth : i \in 1..Depth - 1 \/ i = Depth
      BY <1>3
    <2>2. \A i \in 1..Depth : stack'[i].kind \notin {"loop", "trap"} => stack'[i].armed
      BY <1>2, <1>3, <2>1, Settled
    <2> QED
      BY <1>3, <2>2 DEF SettledToo
  <1>6. LocalInv'
    <2>1. Live' = Live
      <3>1. Depth \in 0..Depth
        BY <1>3
      <3> QED
        BY <1>1, <1>3, <3>1 DEF Live
    <2>2. params' = Innermost(Live') /\ localvars' = Innermost(Live') /\ shadowed' \subseteq Live'
      BY <1>1, <2>1 DEF RInv, LocalInv
    <2>3. \A i \in 1..Depth' : stack'[i].kind = "func" =>
            /\ stack'[i].params = Innermost(Funcs(stack', i - 1))
            /\ stack'[i].localvars = Innermost(Funcs(stack', i - 1))
      <3>1. \A i \in 1..Depth : i - 1 \in 0..Depth
        BY <1>3
      <3> QED
        BY <1>3, <3>1 DEF RInv, LocalInv
    <2> QED
      BY <2>2, <2>3 DEF LocalInv, Innermost
  <1> QED
    BY <1>4, <1>5, <1>6

LEMMA RFuncReturns ==
  ASSUME RInv, FuncReturns
  PROVE  RedirInv' /\ FilesInv' /\ LocalInv' /\ SettledToo'
  <1>1. /\ mode = "ret" /\ mode' = "f_done" /\ Depth > 0 /\ Inner.kind = "func"
        /\ redirs' = Pop(redirs) /\ params' = Inner.params /\ localvars' = Inner.localvars
        /\ shadowed' = shadowed \ {localvars}
        /\ stack' = [stack EXCEPT ![Depth].armed = FALSE]
        /\ UNCHANGED files
    BY DEF FuncReturns, PopLocals
  <1>2. stack \in Seq(Frames) /\ EInv /\ TypeOK /\ Inner = stack[Depth]
    BY DEF RInv, XInv, EInv, TypeOK, Inner, Depth
  <1>3. /\ Depth \in Nat /\ Depth' = Depth /\ Depth \in 1..Depth
        /\ \A i \in 1..Depth :
             /\ stack'[i].kind = stack[i].kind /\ stack'[i].params = stack[i].params
             /\ stack'[i].localvars = stack[i].localvars
        /\ FramesOf(Redirecting)' = FramesOf(Redirecting)
        /\ FileFrames(Depth)' = FileFrames(Depth)
        /\ \A i \in 0..Depth : Funcs(stack', i) = Funcs(stack, i)
    BY <1>1, <1>2, ArmSame DEF Redirecting
  <1>4. RedirInv'
    <2>1. Elems(redirs) = FramesOf(Redirecting) /\ Ordered(redirs)
      BY <1>1 DEF RInv, RedirInv, Held
    <2>2. stack[Depth].kind \in Redirecting
      BY <1>1, <1>2 DEF Redirecting
    <2>3. Ordered(redirs') /\ Elems(redirs') = FramesOf(Redirecting) \ {Depth}
      BY <1>1, <1>2, <2>1, <2>2, TablePopped
    <2>4. Held' = FramesOf(Redirecting) \ {Depth}
      BY <1>1, <1>3 DEF Held
    <2> QED
      BY <2>3, <2>4 DEF RedirInv, Elems, Ordered
  <1>5. FilesInv' /\ SettledToo'
    BY <1>1, <1>3 DEF RInv, FilesInv, SettledToo
  <1>6. LocalInv'
    <2>1. Live = Funcs(stack, Depth) /\ Live' = Funcs(stack', Depth - 1)
      BY <1>1, <1>3 DEF Live
    <2>2. Depth - 1 \in 0..Depth /\ \A i \in 1..Depth : i - 1 \in 0..Depth
      BY <1>3
    <2>3. Live' = Funcs(stack, Depth - 1)
      BY <1>3, <2>1, <2>2
    <2>4. Live = Live' \cup {Depth} /\ Innermost(Live) = Depth
      BY <1>1, <1>2, <1>3, <2>1, <2>3, FuncsLast
    <2>5. params' = Innermost(Live') /\ localvars' = Innermost(Live') /\ shadowed' \subseteq Live'
      BY <1>1, <1>2, <1>3, <2>3, <2>4 DEF RInv, LocalInv
    <2>6. \A i \in 1..Depth' : stack'[i].kind = "func" =>
            /\ stack'[i].params = Innermost(Funcs(stack', i - 1))
            /\ stack'[i].localvars = Innermost(Funcs(stack', i - 1))
      BY <1>3, <2>2 DEF RInv, LocalInv
    <2> QED
      BY <2>5, <2>6 DEF LocalInv, Innermost
  <1> QED
    BY <1>4, <1>5, <1>6

LEMMA RFuncDone ==
  ASSUME RInv, FuncDone
  PROVE  RedirInv' /\ FilesInv' /\ LocalInv' /\ SettledToo'
  <1> DEFINE n == Depth - 1
  <1>1. /\ mode = "f_done" /\ mode' = "ret" /\ stack' = Pop(stack)
        /\ UNCHANGED <<redirs, files, params, localvars, shadowed>>
    BY DEF FuncDone, lcl
  <1>2. /\ stack \in Seq(Frames) /\ Depth \in Nat /\ Depth > 0 /\ Len(stack) = Depth
        /\ stack[Depth].kind = "func"
    BY <1>1 DEF RInv, XInv, EInv, TypeOK, Places, Inner, Depth
  <1>3. /\ n \in 0..Depth /\ n \in Nat /\ stack' = SubSeq(stack, 1, n) /\ n = Depth - 1
        /\ Depth \in 1..Depth
    BY <1>1, <1>2 DEF Pop
  <1> HIDE DEF n
  <1>4. Depth' = n /\ \A i \in 1..n : stack'[i] = stack[i]
    BY <1>2, <1>3, CutFacts
  <1>5. RedirInv'
    <2>1. FramesOf(Redirecting)' = FramesOf(Redirecting) \ {Depth}
      BY <1>2, <1>3, CutSets DEF Redirecting
    <2>2. Held' = Held
      BY <1>1, <2>1 DEF Held
    <2> QED
      BY <1>1, <2>2 DEF RInv, RedirInv
  <1>6. FilesInv'
    <2>1. /\ FileFrames(Depth) = FramesOf({"eval", "dot", "trap"})
          /\ FileFrames(Depth)' = FramesOf({"eval", "dot", "trap"})'
      BY DEF FileFrames, FramesOf
    <2>2. FileFrames(Depth)' = FileFrames(Depth)
      BY <1>2, <1>3, <2>1, CutSets
    <2> QED
      BY <1>1, <2>2 DEF RInv, FilesInv
  <1>7. LocalInv'
    <2>1. \A i \in 0..n : Funcs(stack', i) = Funcs(stack, i)
      <3>1. \A j \in 1..n : stack'[j].kind = stack[j].kind
        BY <1>4
      <3>2. n \in Nat
        BY <1>3
      <3> QED
        BY ONLY <3>1, <3>2, FuncsPrefix
    <2>2. Live' = Live
      <3>1. n \in 0..n
        BY <1>3
      <3> QED
        BY <1>1, <1>3, <1>4, <2>1, <3>1 DEF Live
    <2>3. params' = Innermost(Live') /\ localvars' = Innermost(Live') /\ shadowed' \subseteq Live'
      BY <1>1, <2>2 DEF RInv, LocalInv
    <2>4. ASSUME NEW i \in 1..Depth', stack'[i].kind = "func"
          PROVE  /\ stack'[i].params = Innermost(Funcs(stack', i - 1))
                 /\ stack'[i].localvars = Innermost(Funcs(stack', i - 1))
      <3>1. i \in 1..Depth /\ i \in 1..n /\ i - 1 \in 0..n
        BY <1>3, <1>4
      <3> QED
        BY <1>4, <2>1, <2>4, <3>1 DEF RInv, LocalInv
    <2> QED
      BY <2>3, <2>4 DEF LocalInv, Innermost
  <1>8. SettledToo'
    BY <1>1 DEF SettledToo
  <1> QED
    BY <1>5, <1>6, <1>7, <1>8

\* An exception goes on, or ends at the prompt.
LEMMA RCatch ==
  ASSUME RInv, CatchFunction \/ CatchRedir \/ (CatchBuiltin /\ mode' = "exc")
  PROVE  RedirInv' /\ FilesInv' /\ LocalInv' /\ SettledToo'
  <1> DEFINE n == handler - 1
  <1>1. /\ mode = "exc" /\ mode' = "exc" /\ handler > 0 /\ stack' = SubSeq(stack, 1, n)
        /\ handler \in Int
    BY DEF CatchFunction, CatchRedir, CatchBuiltin, RInv, XInv, EInv, TypeOK
  <1>2. stack \in Seq(Frames) /\ EInv /\ Depth \in Nat /\ Places /\ handler = Top(Depth)
    BY DEF RInv, XInv, EInv, TypeOK, Chain, Depth
  <1>3. handler \in 1..Depth /\ n \in 0..Depth /\ n \in Nat /\ stack[handler].armed
    BY <1>1, <1>2, Caught
  <1> HIDE DEF n
  <1>4. Depth' = n /\ \A i \in 1..n : stack'[i] = stack[i]
    BY <1>1, <1>2, <1>3, CutFacts
  <1>5. \A i \in 1..Depth : stack[i].kind = "func" => i <= handler
    <2> SUFFICES ASSUME NEW i \in 1..Depth, stack[i].kind = "func" PROVE i <= handler
      OBVIOUS
    <2>1. stack[i].armed
      BY <1>1 DEF RInv, SettledToo
    <2> DEFINE S == {j \in 1..Depth : stack[j].armed}
    <2>2. i \in S /\ S \subseteq 1..Depth /\ handler = Innermost(S)
      BY <1>2, <2>1 DEF Top
    <2> HIDE DEF S
    <2>3. Depth \in Nat /\ S \subseteq 1..Depth
      BY <1>2, <2>2
    <2>4. \A j \in S : j <= Innermost(S)
      BY ONLY <2>3, InnermostRange
    <2> QED
      BY <2>2, <2>4
  <1>6. \A i \in 0..n : Funcs(stack', i) = Funcs(stack, i)
    <2>1. \A j \in 1..n : stack'[j].kind = stack[j].kind
      BY <1>4
    <2>2. n \in Nat
      BY <1>3
    <2> QED
      BY ONLY <2>1, <2>2, FuncsPrefix
  <1>7. \A i \in 1..Depth' : stack'[i].kind = "func" =>
          /\ stack'[i].params = Innermost(Funcs(stack', i - 1))
          /\ stack'[i].localvars = Innermost(Funcs(stack', i - 1))
    <2> SUFFICES ASSUME NEW i \in 1..Depth', stack'[i].kind = "func"
                 PROVE  /\ stack'[i].params = Innermost(Funcs(stack', i - 1))
                        /\ stack'[i].localvars = Innermost(Funcs(stack', i - 1))
      OBVIOUS
    <2>1. i \in 1..Depth /\ i \in 1..n /\ i - 1 \in 0..n
      BY <1>2, <1>3, <1>4
    <2> QED
      BY <1>4, <1>6, <2>1 DEF RInv, LocalInv
  <1>8. Live' = Funcs(stack, n) /\ Live = Funcs(stack, Depth)
    <2>1. n \in 0..n
      BY <1>3
    <2> QED
      BY <1>1, <1>4, <1>6, <2>1 DEF Live
  <1>9. Funcs(stack, Depth) =
          IF stack[handler].kind = "func" THEN Funcs(stack, n) \cup {handler} ELSE Funcs(stack, n)
    <2>1. \A i \in 1..Depth : i <= handler => i \in 1..n \/ i = handler
      BY <1>3 DEF n
    <2>2. \A i \in 1..n : i \in 1..Depth
      BY <1>2, <1>3
    <2> QED
      BY <1>3, <1>5, <2>1, <2>2 DEF Funcs
  <1>10. params' = Innermost(Live') /\ localvars' = Innermost(Live') /\ shadowed' \subseteq Live'
    <2>1. params = Innermost(Live) /\ localvars = Innermost(Live) /\ shadowed \subseteq Live
      BY DEF RInv, LocalInv
    <2>2. CASE CatchFunction
      <3>1. /\ stack[handler].kind = "func" /\ params' = stack[handler].params
            /\ localvars' = stack[handler].localvars /\ shadowed' = shadowed \ {localvars}
        BY <2>2 DEF CatchFunction, PopLocals
      <3>2. params' = Innermost(Funcs(stack, n)) /\ localvars' = Innermost(Funcs(stack, n))
        BY <1>3, <3>1 DEF RInv, LocalInv, n
      <3>3. localvars = handler
        <4>1. Live \subseteq Nat /\ handler \in Live /\ \A j \in Live : j <= handler
          BY <1>3, <1>5, <1>8, <3>1 DEF Funcs
        <4> QED
          BY <2>1, <4>1, InnermostIs
      <3> QED
        BY <1>8, <1>9, <2>1, <3>1, <3>2, <3>3
    <2>3. CASE ~CatchFunction
      <3>1. stack[handler].kind # "func" /\ UNCHANGED <<params, localvars, shadowed>>
        BY <2>3 DEF CatchRedir, CatchBuiltin, lcl
      <3> QED
        BY <1>8, <1>9, <2>1, <3>1
    <2> QED
      BY <2>2, <2>3
  <1>11. LocalInv'
    BY <1>7, <1>10 DEF LocalInv, Innermost
  <1>12. SettledToo'
    <2>1. \A i \in 1..n : i \in 1..Depth
      BY <1>2, <1>3
    <2> QED
      BY <1>1, <1>4, <2>1 DEF RInv, SettledToo
  <1> QED
    BY <1>1, <1>11, <1>12 DEF RedirInv, FilesInv

\* The prompt: nothing is left.
LEMMA RCatchMain ==
  ASSUME ResetBlocks = TRUE, RInv, CatchMain
  PROVE  RedirInv' /\ FilesInv' /\ LocalInv' /\ SettledToo'
  <1>1. /\ mode = "exc" /\ handler = 0 /\ stack' = <<>> /\ redirs' = <<>> /\ files' = 0
        /\ mode' \in {"exc", "run"} /\ UNCHANGED <<params, localvars, shadowed>>
    BY DEF CatchMain, Reset, ForceInton, lcl
  <1>2. Depth' = 0 /\ Depth \in Nat /\ handler = Top(Depth)
    BY <1>1 DEF Depth, RInv, XInv, EInv, TypeOK, Chain
  <1>3. FramesOf(Redirecting)' = {} /\ FileFrames(Depth)' = {} /\ Held' = {}
    BY <1>2 DEF FramesOf, FileFrames, Held
  <1>4. RedirInv'
    <2>1. Len(<<>>) = 0
      OBVIOUS
    <2>2. Elems(<<>>) = {} /\ Ordered(<<>>)
      BY <2>1 DEF Elems, Ordered
    <2> QED
      BY <1>1, <1>3, <2>2 DEF RedirInv, Elems, Ordered
  <1>5. FilesInv'
    <2>1. Cardinality({}) = 0
      BY FS_EmptySet
    <2> QED
      BY <1>1, <1>3, <2>1 DEF FilesInv
  <1>6. \A i \in 1..Depth' : FALSE
    BY <1>2
  <1>7. Live = {} /\ Live' = {}
    <2> DEFINE S == {j \in 1..Depth : stack[j].armed}
    <2>1. S \subseteq 1..Depth /\ Innermost(S) = 0
      BY <1>1, <1>2 DEF Top
    <2> HIDE DEF S
    <2>2. S = {}
      BY <1>2, <2>1, InnermostRange
    <2>3. \A j \in 1..Depth : stack[j].kind # "func"
      BY <1>1, <2>2 DEF S, RInv, SettledToo
    <2> QED
      BY <1>1, <1>2, <2>3 DEF Live, Funcs
  <1>8. LocalInv'
    <2>1. params' = Innermost(Live') /\ localvars' = Innermost(Live') /\ shadowed' \subseteq Live'
      BY <1>1, <1>7 DEF RInv, LocalInv
    <2> QED
      BY <1>6, <2>1 DEF LocalInv, Innermost
  <1>9. SettledToo'
    BY <1>6 DEF SettledToo
  <1> QED
    BY <1>4, <1>5, <1>8, <1>9

LEMMA RBegin ==
  ASSUME RInv,
         \/ LoopBegin \/ FuncBegin \/ RedirBegin \/ TrapBegin
         \/ \E kind \in {"eval", "dot"}, special \in BOOLEAN : BuiltinBegin(kind, special)
  PROVE  RedirInv' /\ FilesInv' /\ LocalInv' /\ SettledToo'
  <1>0. EInv /\ TRUE \in BOOLEAN /\ FALSE \in BOOLEAN
    BY DEF RInv, XInv
  <1>1. CASE LoopBegin
    <2> DEFINE f == Frame("loop", FALSE)
    <2>1. f \in Frames /\ f.kind = "loop" /\ f.params = params /\ f.localvars = localvars
      BY <1>0, Begun DEF FrameKinds
    <2>2. stack' = Append(stack, f)
      BY <1>1 DEF LoopBegin, Begin
    <2> HIDE DEF f
    <2>3. mode = "run" /\ UNCHANGED <<mode, redirs, files, lcl>>
      BY <1>1 DEF LoopBegin, NewConstruct, NewCommand
    <2>4. f.kind \notin Redirecting
      BY <2>1 DEF Redirecting
    <2> QED
      BY <2>1, <2>2, <2>3, <2>4, RPush
  <1>2. CASE FuncBegin
    <2> DEFINE f == Frame("func", FALSE)
    <2>1. f \in Frames /\ f.kind = "func" /\ f.params = params /\ f.localvars = localvars
      BY <1>0, Begun DEF FrameKinds
    <2>2. stack' = Append(stack, f)
      BY <1>2 DEF FuncBegin, Begin
    <2> HIDE DEF f
    <2>3. /\ mode = "run" /\ mode' = "f_params" /\ redirs' = Append(redirs, Depth + 1)
          /\ UNCHANGED <<files, lcl>>
      BY <1>2 DEF FuncBegin, NewConstruct, NewCommand
    <2>4. f.kind \in Redirecting
      BY <2>1 DEF Redirecting
    <2> QED
      BY <2>1, <2>2, <2>3, <2>4, RPush
  <1>3. CASE RedirBegin
    <2> DEFINE f == [Frame("redir", FALSE) EXCEPT !.armed = TRUE]
    <2>1. f \in Frames /\ f.kind = "redir" /\ f.params = params /\ f.localvars = localvars
      BY <1>0, Begun DEF FrameKinds
    <2>2. stack' = Append(stack, f)
      BY <1>3 DEF RedirBegin, Armed
    <2> HIDE DEF f
    <2>3. /\ mode = "run" /\ redirs' = Append(redirs, Depth + 1)
          /\ UNCHANGED <<mode, files, lcl>>
      BY <1>3 DEF RedirBegin, NewConstruct, NewCommand
    <2>4. f.kind \in Redirecting
      BY <2>1 DEF Redirecting
    <2> QED
      BY <2>1, <2>2, <2>3, <2>4, RPush
  <1>4. CASE TrapBegin
    <2> DEFINE f == Frame("trap", FALSE)
    <2>1. f \in Frames /\ f.kind = "trap" /\ f.params = params /\ f.localvars = localvars
      BY <1>0, Begun DEF FrameKinds
    <2>2. stack' = Append(stack, f)
      BY <1>4 DEF TrapBegin, Begin
    <2> HIDE DEF f
    <2>3. mode = "ret" /\ mode' = "run" /\ files' = files + 1 /\ UNCHANGED <<redirs, lcl>>
      BY <1>4 DEF TrapBegin
    <2>4. f.kind \notin Redirecting
      BY <2>1 DEF Redirecting
    <2> QED
      BY <2>1, <2>2, <2>3, <2>4, RPush
  <1>5. ASSUME NEW k \in {"eval", "dot"}, NEW special \in BOOLEAN, BuiltinBegin(k, special)
        PROVE  RedirInv' /\ FilesInv' /\ LocalInv' /\ SettledToo'
    <2> DEFINE f == [Frame(k, special) EXCEPT !.armed = TRUE]
    <2>0. k \in FrameKinds
      BY DEF FrameKinds
    <2>1. f \in Frames /\ f.kind = k /\ f.params = params /\ f.localvars = localvars
      <3> DEFINE g == Frame(k, special)
      <3>1. g \in Frames /\ g.kind = k /\ g.params = params /\ g.localvars = localvars
        BY <1>0, <2>0, FrameType DEF EInv
      <3> HIDE DEF g
      <3>2. LET h == [g EXCEPT !.armed = TRUE]
            IN  h \in Frames /\ h.kind = g.kind /\ h.params = g.params /\ h.localvars = g.localvars
        BY <3>1, Rearmed
      <3>3. f = [g EXCEPT !.armed = TRUE]
        BY DEF g
      <3> QED
        BY <3>1, <3>2, <3>3
    <2>2. stack' = Append(stack, f)
      BY <1>5 DEF BuiltinBegin, Armed
    <2> HIDE DEF f
    <2>3. /\ mode = "run" /\ redirs' = Append(redirs, Depth + 1) /\ files' = files + 1
          /\ UNCHANGED <<mode, lcl>>
      BY <1>5 DEF BuiltinBegin, NewConstruct, NewCommand
    <2>4. /\ f.kind \in Redirecting /\ f.kind \in {"eval", "dot", "trap"} /\ f.kind # "func"
      BY <2>1 DEF Redirecting
    <2> QED
      BY <2>1, <2>2, <2>3, <2>4, RPush
  <1> QED
    BY <1>1, <1>2, <1>3, <1>4, <1>5

LEMMA REnd ==
  ASSUME RInv, LoopReturns \/ RedirReturns \/ EvalReturns \/ DotReturns \/ TrapReturns
  PROVE  RedirInv' /\ FilesInv' /\ LocalInv' /\ SettledToo'
  <1>0. EInv /\ stack \in Seq(Frames)
    BY DEF RInv, XInv, EInv, TypeOK
  <1>1. mode = "ret" /\ Depth > 0 /\ UNCHANGED <<params, localvars, shadowed>> /\ UNCHANGED lcl
    BY DEF LoopReturns, RedirReturns, EvalReturns, DotReturns, TrapReturns, lcl
  <1>2. /\ stack[Depth] = Inner /\ Pop(stack) = SubSeq(stack, 1, Depth - 1)
    BY <1>0, <1>1, Returned
  <1>3. CASE LoopReturns
    <2>1. stack[Depth].kind = "loop" /\ UNCHANGED <<redirs, files>> /\ (LoopAgain \/ LoopEnd)
      BY <1>2, <1>3 DEF LoopReturns
    <2>2. CASE LoopAgain
      BY <1>1, <2>1, <2>2, RFlat DEF LoopAgain
    <2>3. CASE LoopEnd
      <3>1. stack[Depth].kind \notin Redirecting
        BY <2>1 DEF Redirecting
      <3>2. stack' = SubSeq(stack, 1, Depth - 1) /\ mode' = "ret"
        BY <1>1, <1>2, <2>3 DEF LoopEnd
      <3> QED
        BY <1>1, <2>1, <3>1, <3>2, RCut
    <2> QED
      BY <2>1, <2>2, <2>3
  <1>4. CASE RedirReturns
    <2>1. /\ stack[Depth].kind = "redir" /\ redirs' = Pop(redirs) /\ files' = files
          /\ mode' = "ret" /\ stack' = SubSeq(stack, 1, Depth - 1)
      BY <1>2, <1>4 DEF RedirReturns
    <2>2. stack[Depth].kind \in Redirecting
      BY <2>1 DEF Redirecting
    <2> QED
      BY <1>1, <2>1, <2>2, RCut
  <1>5. CASE EvalReturns \/ DotReturns
    <2>1. stack[Depth].kind \in {"eval", "dot"} /\ (BuiltinEnd \/ MoreInput)
      BY <1>2, <1>5 DEF EvalReturns, DotReturns
    <2>2. CASE MoreInput
      BY <1>1, <2>2, RFlat DEF MoreInput
    <2>3. CASE BuiltinEnd
      <3>1. /\ redirs' = Pop(redirs) /\ files' = files - 1 /\ mode' = "ret"
            /\ stack' = SubSeq(stack, 1, Depth - 1)
        BY <1>1, <1>2, <2>3 DEF BuiltinEnd
      <3>2. /\ stack[Depth].kind \in Redirecting /\ stack[Depth].kind # "func"
            /\ stack[Depth].kind \in {"eval", "dot", "trap"}
        BY <2>1 DEF Redirecting
      <3> QED
        BY <1>1, <3>1, <3>2, RCut
    <2> QED
      BY <2>1, <2>2, <2>3
  <1>6. CASE TrapReturns
    <2>1. /\ stack[Depth].kind = "trap" /\ redirs' = redirs
          /\ TrapEnd \/ (mode' = "run" /\ UNCHANGED <<files, stack>>)
      BY <1>2, <1>6 DEF TrapReturns
    <2>2. CASE TrapEnd
      <3>1. files' = files - 1 /\ mode' = "ret" /\ stack' = SubSeq(stack, 1, Depth - 1)
        BY <1>1, <1>2, <2>2 DEF TrapEnd
      <3>2. stack[Depth].kind \notin Redirecting
        BY <2>1 DEF Redirecting
      <3> QED
        BY <1>1, <2>1, <3>1, <3>2, RCut
    <2>3. CASE mode' = "run" /\ UNCHANGED <<files, stack>>
      BY <1>1, <2>1, <2>3, RFlat
    <2> QED
      BY <2>1, <2>2, <2>3
  <1> QED
    BY <1>3, <1>4, <1>5, <1>6

\* The steps that leave the stack of constructs alone.
LEMMA RStays ==
  ASSUME RInv,
         \/ Builtin \/ External \/ Local \/ Return \/ ExpansionError \/ SpecialError
         \/ RegularError \/ FuncRedirFails \/ TopReturns \/ UNCHANGED vars
         \/ \E skip \in {"break", "cont"}, n \in 1..2 : Break(skip, n)
  PROVE  RedirInv' /\ FilesInv' /\ LocalInv' /\ SettledToo'
  <1>1. CASE Builtin \/ Return \/ RegularError \/ TopReturns
    <2>1. /\ UNCHANGED <<stack, files, params, localvars, shadowed, redirs>>
          /\ mode \in {"run", "ret"} /\ mode' \in {"run", "ret", "dead", "exc"}
      BY <1>1 DEF Builtin, Return, RegularError, TopReturns, NewCommand, lcl
    <2> QED
      BY <2>1, RFlat
  <1>2. CASE External
    <2>1. /\ UNCHANGED <<stack, files, params, localvars, shadowed, redirs>>
          /\ mode \in {"run", "ret"} /\ mode' \in {"run", "ret", "dead", "exc"}
      BY <1>2 DEF External, ForceInton, lcl
    <2> QED
      BY <2>1, RFlat
  <1>3. CASE Local
    <2>1. /\ UNCHANGED <<stack, files, params, localvars, redirs>>
          /\ localvars > 0 /\ shadowed' = shadowed \cup {localvars}
          /\ mode \in {"run", "ret"} /\ mode' \in {"run", "ret", "dead", "exc"}
      BY <1>3 DEF Local, NewCommand
    <2> QED
      BY <2>1, RFlat
  <1>4. CASE ExpansionError \/ SpecialError \/ FuncRedirFails
    <2>1. /\ UNCHANGED <<stack, files, params, localvars, shadowed>>
          /\ mode \in {"run", "ret"} /\ mode' = "exc"
      BY <1>4 DEF ExpansionError, SpecialError, FuncRedirFails, RaiseError, NewCommand,
                  NewConstruct, lcl
    <2> QED
      BY <2>1, RFlat
  <1>5. CASE UNCHANGED vars
    <2>1. UNCHANGED <<stack, files, params, localvars, shadowed, redirs, mode>>
      BY <1>5 DEF vars, lcl
    <2> QED
      BY <2>1, RFlat
  <1>6. CASE \E skip \in {"break", "cont"}, n \in 1..2 : Break(skip, n)
    <2>1. /\ UNCHANGED <<stack, files, params, localvars, shadowed, redirs>>
          /\ mode = "run" /\ mode' = "ret"
      BY <1>6 DEF Break, NewCommand, lcl
    <2> QED
      BY <2>1, RFlat
  <1> QED
    BY <1>1, <1>2, <1>3, <1>4, <1>5, <1>6

\* Interrupts are held back only while an error is on its way to a handler.
LEMMA RInterrupts ==
  ASSUME ResetBlocks = TRUE, WithBadRedirs = FALSE, MaxInts = 0, RInv, [Next]_vars
  PROVE  IntInv' /\ ~Interrupt /\ ~RedirFails /\ (CatchBuiltin => mode' = "exc")
  <1>1. /\ mode # "exc" => suppressint = 0
        /\ intpending = FALSE /\ suppressint \in Nat /\ nints \in 0..0
    BY DEF RInv, XInv, EInv, TypeOK, IntInv
  <1>2. ~Interrupt
    BY <1>1 DEF Interrupt
  <1>3. ~RedirFails
    BY DEF RedirFails
  <1>4. CatchBuiltin => mode = "exc" /\ mode' = "exc" /\ UNCHANGED itr
    <2> SUFFICES ASSUME CatchBuiltin PROVE mode = "exc" /\ mode' = "exc" /\ UNCHANGED itr
      OBVIOUS
    <2>1. mode = "exc" /\ handler > 0 /\ stack[handler].kind \in {"eval", "dot"}
      BY DEF CatchBuiltin
    <2>2. handler \in 1..Depth
      BY <2>1, Caught DEF RInv, XInv
    <2>3. stack[handler].special = TRUE
      BY <2>1, <2>2 DEF RInv, XInv, Special
    <2> QED
      BY <2>1, <2>3 DEF CatchBuiltin
  <1>5. CASE ExpansionError \/ SpecialError \/ FuncRedirFails
    <2>1. mode' = "exc" /\ intpending' = FALSE
      BY <1>5 DEF ExpansionError, SpecialError, FuncRedirFails, RaiseError
    <2> QED
      BY <1>2, <1>3, <1>4, <2>1 DEF IntInv
  <1>6. CASE CatchMain \/ External
    <2>1. suppressint' = 0 /\ intpending' = FALSE
      BY <1>6 DEF CatchMain, External, ForceInton
    <2> QED
      BY <1>2, <1>3, <1>4, <2>1 DEF IntInv
  <1>7. CASE RegularError
    <2>1. suppressint' = 0 /\ intpending' = FALSE
      BY <1>7 DEF RegularError
    <2> QED
      BY <1>2, <1>3, <1>4, <2>1 DEF IntInv
  <1>8. CASE FuncHandler
    <2>1. mode = "f_handler"
      BY <1>8 DEF FuncHandler
    <2>2. \/ mode' = "exc" /\ intpending' = FALSE
          \/ UNCHANGED <<suppressint, intpending>>
      BY <1>8 DEF FuncHandler, RaiseError, itr
    <2> QED
      BY <1>1, <1>2, <1>3, <1>4, <2>1, <2>2 DEF IntInv
  <1>9. CASE CatchFunction \/ CatchRedir \/ CatchBuiltin
    <2>1. mode = "exc" /\ mode' = "exc" /\ UNCHANGED <<suppressint, intpending>>
      BY <1>4, <1>9 DEF CatchFunction, CatchRedir, itr
    <2> QED
      BY <1>1, <1>2, <1>3, <1>4, <2>1 DEF IntInv
  <1>10. CASE \/ Builtin \/ Local \/ Return \/ TopReturns \/ UNCHANGED vars
              \/ \E skip \in {"break", "cont"}, n \in 1..2 : Break(skip, n)
    <2>1. UNCHANGED <<suppressint, intpending>> /\ (mode # "exc" \/ mode' = mode)
      BY <1>10 DEF Builtin, Local, Return, TopReturns, Break, NewCommand, vars, itr
    <2> QED
      BY <1>1, <1>2, <1>3, <1>4, <2>1 DEF IntInv
  <1>11. CASE \/ LoopBegin \/ FuncBegin \/ RedirBegin \/ TrapBegin
              \/ \E kind \in {"eval", "dot"}, special \in BOOLEAN : BuiltinBegin(kind, special)
    <2>1. UNCHANGED <<suppressint, intpending>> /\ mode # "exc"
      BY <1>11 DEF LoopBegin, FuncBegin, RedirBegin, TrapBegin, BuiltinBegin, NewConstruct,
                   NewCommand, itr
    <2> QED
      BY <1>1, <1>2, <1>3, <1>4, <2>1 DEF IntInv
  <1>12. CASE \/ LoopReturns \/ RedirReturns \/ EvalReturns \/ DotReturns \/ TrapReturns
              \/ FuncParams \/ FuncReturns \/ FuncDone
    <2>1. UNCHANGED <<suppressint, intpending>> /\ mode # "exc"
      BY <1>12 DEF LoopReturns, RedirReturns, EvalReturns, DotReturns, TrapReturns,
                   FuncParams, FuncReturns, FuncDone, itr
    <2> QED
      BY <1>1, <1>2, <1>3, <1>4, <2>1 DEF IntInv
  <1> QED
    BY <1>2, <1>3, <1>5, <1>6, <1>7, <1>8, <1>9, <1>10, <1>11, <1>12 DEF Next

LEMMA RInitially == Init => RedirInv /\ FilesInv /\ LocalInv /\ SettledToo /\ IntInv
  <1> SUFFICES ASSUME Init PROVE RedirInv /\ FilesInv /\ LocalInv /\ SettledToo /\ IntInv
    OBVIOUS
  <1>1. Depth = 0 /\ mode = "run"
    BY DEF Init, Depth
  <1>2. FramesOf(Redirecting) = {} /\ Held = {} /\ FileFrames(Depth) = {} /\ Live = {}
    BY <1>1 DEF FramesOf, Held, FileFrames, Live, Funcs
  <1>3. Elems(<<>>) = {} /\ Ordered(<<>>)
    <2>1. Len(<<>>) = 0
      OBVIOUS
    <2> QED
      BY <2>1 DEF Elems, Ordered
  <1>4. Cardinality({}) = 0
    BY FS_EmptySet
  <1>5. RedirInv /\ FilesInv
    BY <1>2, <1>3, <1>4 DEF Init, RedirInv, FilesInv
  <1>6. LocalInv
    BY <1>1, <1>2, InnermostNone DEF Init, LocalInv
  <1> QED
    BY <1>1, <1>5, <1>6 DEF Init, SettledToo, IntInv

LEMMA RNext ==
  ASSUME ResetBlocks = TRUE, WithCommand = FALSE, WithBadRedirs = FALSE, MaxInts = 0,
         RInv, [Next]_vars
  PROVE  RInv'
  <1>1. XInv'
    BY XNext DEF RInv
  <1>2. IntInv' /\ ~Interrupt /\ ~RedirFails /\ (CatchBuiltin => mode' = "exc")
    BY RInterrupts
  <1>3. CASE CatchFunction \/ CatchRedir \/ CatchBuiltin
    BY <1>1, <1>2, <1>3, RCatch DEF RInv
  <1>4. CASE CatchMain
    BY <1>1, <1>2, <1>4, RCatchMain DEF RInv
  <1>5. CASE \/ LoopBegin \/ FuncBegin \/ RedirBegin \/ TrapBegin
             \/ \E kind \in {"eval", "dot"}, special \in BOOLEAN : BuiltinBegin(kind, special)
    BY <1>1, <1>2, <1>5, RBegin DEF RInv
  <1>6. CASE LoopReturns \/ RedirReturns \/ EvalReturns \/ DotReturns \/ TrapReturns
    BY <1>1, <1>2, <1>6, REnd DEF RInv
  <1>7. CASE FuncParams \/ FuncHandler \/ FuncReturns \/ FuncDone
    BY <1>1, <1>2, <1>7, RFuncParams, RFuncHandler, RFuncReturns, RFuncDone DEF RInv
  <1>8. CASE \/ Builtin \/ External \/ Local \/ Return \/ ExpansionError \/ SpecialError
             \/ RegularError \/ FuncRedirFails \/ TopReturns \/ UNCHANGED vars
             \/ \E skip \in {"break", "cont"}, n \in 1..2 : Break(skip, n)
    BY <1>1, <1>2, <1>8, RStays DEF RInv
  <1> QED
    BY <1>2, <1>3, <1>4, <1>5, <1>6, <1>7, <1>8 DEF Next

THEOREM Restoring ==
  ASSUME ResetBlocks = TRUE, WithCommand = FALSE, WithBadRedirs = FALSE, MaxInts = 0
  PROVE  Spec => []RInv
  <1>1. Init => RInv
    BY EInitially, XInitially, RInitially DEF RInv, XInv
  <1>2. RInv /\ [Next]_vars => RInv'
    BY RNext
  <1> QED
    BY <1>1, <1>2, PTL DEF Spec

\* Whenever a command is evaluated, the redirections, the files pushed, the
\* parameters and the local variables are those of the constructs around it, and
\* interrupts are on: evalfun, evalredir, evalcommand, evalloop, cmdloop and the
\* setjmp of each undo what they put in place, in whatever way they are left.
THEOREM StateIsRestored ==
  ASSUME ResetBlocks = TRUE, WithCommand = FALSE, WithBadRedirs = FALSE, MaxInts = 0
  PROVE  Spec => []StateRestored
  <1>1. RInv => StateRestored
    <2> SUFFICES ASSUME RInv PROVE StateRestored
      OBVIOUS
    <2>1. CASE mode # "run"
      BY <2>1 DEF StateRestored, RedirsExact, FilesExact, ParamsExact, LocalsExact,
                  InterruptsOn
    <2>2. CASE mode = "run"
      <3>1. RedirsExact
        <4>1. Held = FramesOf({"func", "redir", "eval", "dot"})
          BY <2>2 DEF Held, Redirecting
        <4>2. Elems(redirs) = Held /\ Ordered(redirs)
          BY <2>2 DEF RInv, RedirInv
        <4> QED
          BY <4>1, <4>2 DEF RedirsExact, Elems, Ordered
      <3>2. FilesExact
        <4>1. FileFrames(Depth) = FramesOf({"eval", "dot", "trap"})
          BY DEF FileFrames, FramesOf
        <4> QED
          BY <2>2, <4>1 DEF RInv, FilesInv, FilesExact
      <3>3. ParamsExact /\ LocalsExact
        <4>1. Live = FramesOf({"func"})
          BY <2>2 DEF Live, Funcs, FramesOf
        <4> QED
          BY <4>1 DEF RInv, LocalInv, ParamsExact, LocalsExact
      <3>4. InterruptsOn
        BY <2>2 DEF RInv, IntInv, InterruptsOn
      <3> QED
        BY <3>1, <3>2, <3>3, <3>4 DEF StateRestored
    <2> QED
      BY <2>1, <2>2
  <1> QED
    BY <1>1, Restoring, PTL

-----------------------------------------------------------------------------
(* A break, continue or return ends where it is meant to, when no trap     *)
(* action comes between.                                                   *)

\* The loops among the first n frames of s from frame k in.
From(s, n, k) == {j \in 1..n : s[j].kind = "loop" /\ j >= k}

\* The skipping is meant for a construct around: a break or continue for the
\* loop that skipcount counts to, a return for the innermost function or file.
Aims(s, n) ==
  /\ aim \in 1..n
  /\ evalskip \in {"break", "cont"} =>
       s[aim].kind = "loop" /\ Cardinality(From(s, n, aim)) = skipcount
  /\ evalskip = "func" => s[aim].kind = "func"
  /\ evalskip = "file" => s[aim].kind = "dot"
  /\ evalskip \in {"func", "file"} => \A j \in 1..n : s[j].kind \in {"func", "dot"} => j <= aim

Aimed ==
  /\ mode \in {"run", "f_params", "f_handler"} => evalskip = "none"
  /\ mode \in {"ret", "f_done"} /\ evalskip # "none" => Aims(stack, Depth)
  /\ \A i \in 1..Depth : stack[i].kind # "trap"

AInv == XInv /\ Aimed

\* The stack keeps its constructs.
LEMMA AFlat ==
  ASSUME AInv, Depth' = Depth, \A i \in 1..Depth : stack'[i].kind = stack[i].kind,
         UNCHANGED skp,
         \/ mode' \in {"exc", "dead"}
         \/ mode \in {"ret", "f_done"} /\ mode' \in {"ret", "f_done"}
         \/ evalskip = "none" /\ mode # "exc"
         \/ mode \in {"run", "f_params", "f_handler"}
         \/ mode' = mode
  PROVE  Aimed'
  <1>1. evalskip' = evalskip /\ skipcount' = skipcount /\ aim' = aim
    BY DEF skp
  <1>2. \A i \in 1..Depth' : stack'[i].kind # "trap"
    BY DEF AInv, Aimed
  <1>3. ASSUME Aims(stack, Depth) PROVE Aims(stack, Depth)'
    <2>1. From(stack, Depth, aim)' = From(stack, Depth, aim)
      BY <1>1 DEF From
    <2>2. aim \in 1..Depth
      BY <1>3 DEF Aims
    <2> QED
      BY <1>1, <1>3, <2>1, <2>2 DEF Aims
  <1>4. /\ mode \in {"run", "f_params", "f_handler"} => evalskip = "none"
        /\ mode \in {"ret", "f_done"} /\ evalskip # "none" => Aims(stack, Depth)
    BY DEF AInv, Aimed
  <1>5. mode' \in {"run", "f_params", "f_handler"} => evalskip' = "none"
    BY <1>1, <1>4
  <1>6. mode' \in {"ret", "f_done"} /\ evalskip' # "none" => Aims(stack, Depth)'
    BY <1>1, <1>3, <1>4
  <1> QED
    BY <1>2, <1>5, <1>6 DEF Aimed

\* A construct begins.
LEMMA APush ==
  ASSUME AInv, mode = "run", NEW f \in Frames, stack' = Append(stack, f), f.kind # "trap",
         UNCHANGED skp
  PROVE  Aimed'
  <1>1. stack \in Seq(Frames)
    BY DEF AInv, XInv, EInv, TypeOK
  <1>2. /\ Depth \in Nat /\ Depth' = Depth + 1 /\ stack'[Depth + 1] = f
        /\ \A i \in 1..Depth : stack'[i] = stack[i]
    BY <1>1, PushFacts
  <1>3. \A i \in 1..Depth + 1 : i \in 1..Depth \/ i = Depth + 1
    BY <1>2
  <1>4. \A i \in 1..Depth' : stack'[i].kind # "trap"
    BY <1>2, <1>3 DEF AInv, Aimed
  <1>5. evalskip' = "none"
    BY DEF AInv, Aimed, skp
  <1> QED
    BY <1>4, <1>5 DEF Aimed

\* A construct ends that the skipping is not meant for, or nothing is skipped.
LEMMA ACut ==
  ASSUME AInv, mode \in {"ret", "f_done"}, mode' = "ret", Depth > 0,
         stack' = SubSeq(stack, 1, Depth - 1),
         \/ evalskip' = "none"
         \/ /\ UNCHANGED skp
            /\ evalskip \in {"break", "cont"} => stack[Depth].kind # "loop"
            /\ evalskip = "func" => stack[Depth].kind # "func"
            /\ evalskip = "file" => stack[Depth].kind # "dot"
  PROVE  Aimed'
  <1> DEFINE n == Depth - 1
  <1>1. stack \in Seq(Frames) /\ evalskip \in Skips
    BY DEF AInv, XInv, EInv, TypeOK
  <1>2. Depth \in Nat /\ n \in 0..Depth /\ n = Depth - 1 /\ stack' = SubSeq(stack, 1, n)
    BY <1>1, RunningSets
  <1> HIDE DEF n
  <1>3. Depth' = n /\ \A i \in 1..n : stack'[i] = stack[i]
    BY <1>1, <1>2, CutFacts
  <1>4. \A i \in 1..n : i \in 1..Depth
    BY <1>2
  <1>5. \A i \in 1..Depth' : stack'[i].kind # "trap"
    BY <1>3, <1>4 DEF AInv, Aimed
  <1>6. CASE evalskip' = "none"
    BY <1>5, <1>6 DEF Aimed
  <1>7. CASE evalskip' # "none"
    <2>1. evalskip' = evalskip /\ skipcount' = skipcount /\ aim' = aim /\ evalskip # "none"
      BY <1>7 DEF skp
    <2>2. Aims(stack, Depth)
      BY <2>1 DEF AInv, Aimed
    <2>3. /\ evalskip \in {"break", "cont"} => stack[Depth].kind # "loop"
          /\ evalskip = "func" => stack[Depth].kind # "func"
          /\ evalskip = "file" => stack[Depth].kind # "dot"
      BY <1>7
    <2>4. aim # Depth
      BY <1>1, <2>1, <2>2, <2>3 DEF Aims, Skips
    <2>5. aim \in 1..n
      BY <1>2, <2>2, <2>4 DEF Aims
    <2>6. evalskip \in {"break", "cont"} => From(stack, Depth, aim)' = From(stack, Depth, aim)
      <3> SUFFICES ASSUME evalskip \in {"break", "cont"}
                   PROVE  From(stack, Depth, aim)' = From(stack, Depth, aim)
        OBVIOUS
      <3>1. stack[Depth].kind # "loop"
        BY <2>3
      <3>2. \A i \in 1..Depth : i \in 1..n \/ i = Depth
        BY <1>2
      <3> QED
        BY <1>3, <1>4, <2>1, <3>1, <3>2 DEF From
    <2>7. \A j \in 1..n : stack'[j].kind \in {"func", "dot"} => stack[j].kind \in {"func", "dot"}
      BY <1>3
    <2>8. Aims(stack, Depth)'
      BY <1>3, <1>4, <2>1, <2>2, <2>5, <2>6, <2>7 DEF Aims
    <2> QED
      BY <1>5, <2>1, <2>8 DEF Aimed
  <1> QED
    BY <1>6, <1>7

\* Where a break or continue is after one loop less.
LEMMA ALoop ==
  ASSUME AInv, mode = "ret", Depth > 0, stack[Depth].kind = "loop",
         evalskip \in {"break", "cont"}
  PROVE  /\ skipcount \in Nat /\ skipcount >= 1
         /\ skipcount <= 1 => aim = Depth
         /\ skipcount > 1 => aim \in 1..(Depth - 1)
         /\ Cardinality(From(stack, Depth - 1, aim)) = skipcount - 1
  <1> DEFINE S == From(stack, Depth, aim)
  <1>1. stack \in Seq(Frames) /\ skipcount \in Nat /\ skipcount >= 1
    BY DEF AInv, XInv, EInv, TypeOK, SkipCounts, Counted
  <1>2. Depth \in Nat /\ Depth \in 1..Depth /\ aim \in 1..Depth
    BY <1>1 DEF AInv, Aimed, Aims, Depth
  <1>3. /\ S \subseteq 1..Depth /\ Depth \in S /\ aim \in S
        /\ S \ {Depth} = From(stack, Depth - 1, aim)
    <2>1. stack[aim].kind = "loop"
      BY DEF AInv, Aimed, Aims
    <2>2. \A i \in 1..Depth : i \in 1..(Depth - 1) <=> i # Depth
      BY <1>2
    <2>3. \A i \in 1..(Depth - 1) : i \in 1..Depth
      BY <1>2
    <2> QED
      BY <1>2, <2>1, <2>2, <2>3 DEF From
  <1>4. Cardinality(S) = skipcount
    BY DEF AInv, Aimed, Aims
  <1> HIDE DEF S
  <1>5. Cardinality(S \ {Depth}) = skipcount - 1
    BY <1>2, <1>3, <1>4, FramesCount
  <1>6. skipcount <= 1 => aim = Depth
    <2> SUFFICES ASSUME skipcount <= 1, aim # Depth PROVE FALSE
      OBVIOUS
    <2>1. skipcount - 1 = 0
      BY <1>1
    <2>2. S \ {Depth} \subseteq 1..Depth /\ aim \in S \ {Depth}
      BY <1>3
    <2>3. S \ {Depth} = {}
      BY <1>2, <1>5, <2>1, <2>2, FramesCount
    <2> QED
      BY <2>2, <2>3
  <1>7. ASSUME skipcount > 1 PROVE aim \in 1..(Depth - 1)
    <2>1. aim # Depth
      <3> SUFFICES ASSUME aim = Depth PROVE FALSE
        OBVIOUS
      <3>1. From(stack, Depth - 1, aim) = {}
        BY <1>2 DEF From
      <3>2. skipcount - 1 = 0
        BY <1>3, <1>5, <3>1, FS_EmptySet
      <3> QED
        BY <1>1, <1>7, <3>2
    <2> QED
      BY <1>2, <2>1
  <1> QED
    BY <1>1, <1>3, <1>5, <1>6, <1>7

LEMMA ALoopReturns ==
  ASSUME AInv, LoopReturns
  PROVE  /\ Aimed'
         /\ evalskip # "none" /\ evalskip' = "none" => Depth = aim
  <1>0. EInv /\ stack \in Seq(Frames) /\ Aimed
    BY DEF AInv, XInv, EInv, TypeOK
  <1>1. mode = "ret" /\ Depth > 0 /\ Inner.kind = "loop"
    BY DEF LoopReturns
  <1>2. /\ stack[Depth] = Inner /\ Pop(stack) = SubSeq(stack, 1, Depth - 1)
        /\ Depth \in Nat /\ Depth - 1 \in 0..Depth
    BY <1>0, <1>1, Returned
  <1>3. CASE evalskip \notin {"break", "cont"}
    <2>1. UNCHANGED skp /\ (LoopAgain \/ LoopEnd)
      BY <1>3 DEF LoopReturns, skp
    <2>2. CASE LoopEnd
      <3>1. stack' = SubSeq(stack, 1, Depth - 1) /\ mode' = "ret" /\ stack[Depth].kind = "loop"
        BY <1>1, <1>2, <2>2 DEF LoopEnd
      <3> QED
        BY <1>1, <1>3, <2>1, <3>1, ACut DEF skp
    <2>3. CASE ~LoopEnd
      <3>0. evalskip = "none"
        <4>1. evalskip # "none" => LoopEnd
          BY <1>3 DEF LoopReturns
        <4> QED
          BY <2>3, <4>1
      <3>1. UNCHANGED stack /\ mode' = "run" /\ evalskip = "none"
        BY <2>1, <2>3, <3>0 DEF LoopAgain
      <3>2. Depth' = Depth
        BY <3>1 DEF Depth
      <3> QED
        BY <1>1, <2>1, <3>1, <3>2, AFlat
    <2> QED
      BY <2>2, <2>3
  <1>4. CASE evalskip \in {"break", "cont"}
    <2> DEFINE n == Depth - 1
    <2>1. /\ skipcount \in Nat /\ skipcount >= 1
          /\ skipcount <= 1 => aim = Depth
          /\ skipcount > 1 => aim \in 1..n
          /\ Cardinality(From(stack, n, aim)) = skipcount - 1
      BY <1>1, <1>2, <1>4, ALoop
    <2>2. /\ skipcount' = skipcount - 1 /\ aim' = aim
          /\ skipcount <= 1 => evalskip' = "none"
          /\ skipcount > 1 => evalskip' = evalskip
          /\ evalskip = "cont" /\ skipcount <= 1 => LoopAgain
          /\ ~(evalskip = "cont" /\ skipcount <= 1) => LoopEnd
      <3>1. evalskip # "none"
        BY <1>4
      <3>2. skipcount > 1 <=> ~(skipcount <= 1)
        BY <2>1
      <3>3. /\ skipcount' = skipcount - 1 /\ aim' = aim
            /\ evalskip' = IF skipcount <= 1 THEN "none" ELSE evalskip
        BY <1>4, <3>1 DEF LoopReturns
      <3>4. IF evalskip = "cont" /\ skipcount <= 1 THEN LoopAgain ELSE LoopEnd
        BY <3>1 DEF LoopReturns
      <3> QED
        BY <3>2, <3>3, <3>4
    <2>3. CASE LoopAgain
      <3>1. UNCHANGED stack /\ mode' = "run" /\ mode' # mode
        BY <1>1, <2>3 DEF LoopAgain
      <3>2. evalskip' = "none"
        <4>1. ~LoopEnd
          BY <3>1 DEF LoopEnd
        <4> QED
          BY <2>2, <4>1
      <3>3. Aimed'
        BY <1>0, <3>1, <3>2 DEF Aimed, Depth
      <3>4. aim = Depth
        BY <1>4, <2>1, <2>2, <3>2
      <3> QED
        BY <3>3, <3>4
    <2>4. CASE ~LoopAgain
      <3>1. stack' = SubSeq(stack, 1, n) /\ mode' = "ret"
        BY <1>1, <1>2, <2>2, <2>4 DEF LoopEnd
      <3>2. n \in 0..Depth /\ Depth \in Nat /\ \A i \in 1..n : i \in 1..Depth
        BY <1>2
      <3> HIDE DEF n
      <3>3. Depth' = n /\ \A i \in 1..n : stack'[i] = stack[i]
        BY <1>0, <3>1, <3>2, CutFacts
      <3>4. \A i \in 1..Depth' : stack'[i].kind # "trap"
        BY <1>0, <3>2, <3>3 DEF Aimed
      <3>5. CASE skipcount <= 1
        BY <2>1, <2>2, <3>1, <3>4, <3>5 DEF Aimed
      <3>6. CASE skipcount > 1
        <4>1. From(stack, Depth, aim)' = From(stack, n, aim)
          BY <2>2, <3>3 DEF From
        <4>2. stack[aim].kind = "loop"
          BY <1>0, <1>1, <1>4 DEF Aimed, Aims
        <4>3. Aims(stack, Depth)'
          BY <1>4, <2>1, <2>2, <3>3, <3>6, <4>1, <4>2 DEF Aims
        <4> QED
          BY <1>4, <2>2, <3>1, <3>4, <3>6, <4>3 DEF Aimed
      <3> QED
        BY <2>1, <3>5, <3>6
    <2> QED
      BY <2>3, <2>4
  <1> QED
    BY <1>3, <1>4

\* The loop that break n and continue n are meant for is the nth from inside.
LEMMA Farthest ==
  ASSUME NEW n \in Nat, NEW S, S \subseteq 1..n, NEW k \in 1..2, k <= Cardinality(S)
  PROVE  LET a == Innermost({i \in S : Cardinality({j \in S : j >= i}) >= k})
         IN  a \in S /\ Cardinality({j \in S : j >= a}) = k
  <1> DEFINE Above(i) == {j \in S : j >= i}
             T == {i \in S : Cardinality(Above(i)) >= k}
             m == Innermost(S)
             R == S \ {m}
             r == Innermost(R)
  <1>1. Cardinality(S) \in Nat /\ S # {}
    <2>1. Cardinality(S) \in Nat /\ (S = {} => Cardinality(S) = 0)
      BY FramesCount
    <2>2. k # 0 /\ k \in Nat
      OBVIOUS
    <2>3. Cardinality(S) # 0
      BY <2>1, <2>2
    <2> QED
      BY <2>1, <2>3
  <1>2. m \in S /\ m \in Nat /\ \A j \in S : j <= m /\ j \in Nat
    <2>1. m \in S /\ \A j \in S : j <= m
      BY <1>1, InnermostIn
    <2> HIDE DEF m
    <2> QED
      BY <2>1
  <1>3. Cardinality(Above(m)) = 1
    <2>1. \A j \in S : j >= m => j = m
      <3> HIDE DEF m
      <3> QED
        BY <1>2
    <2>2. Above(m) = {m}
      <3> HIDE DEF m
      <3> QED
        BY <1>2, <2>1
    <2> QED
      BY <2>2, FS_Singleton
  <1> T \subseteq Nat
    BY <1>2
  <1>4. CASE k = 1
    <2>1. m \in T /\ \A j \in T : j <= m
      BY <1>2, <1>3, <1>4
    <2>2. Innermost(T) = m
      <3> HIDE DEF T, m
      <3> QED
        BY <2>1, InnermostIs
    <2> QED
      BY <1>2, <1>3, <1>4, <2>2
  <1>5. CASE k = 2
    <2>1. R \subseteq 1..n /\ R # {} /\ Cardinality(R) = Cardinality(S) - 1
      <3>1. Cardinality(R) = Cardinality(S) - 1
        <4> HIDE DEF m
        <4> QED
          BY <1>2, FramesCount
      <3>2. Cardinality(R) # 0
        <4> HIDE DEF R
        <4> QED
          BY <1>1, <1>5, <3>1
      <3> QED
        BY <3>1, <3>2, FS_EmptySet
    <2>2. r \in R /\ \A j \in R : j <= r
      <3> HIDE DEF R
      <3> QED
        BY <2>1, InnermostIn
    <2>3. r \in S /\ r # m /\ r \in Nat /\ r < m /\ \A j \in S : j = m \/ j <= r
      <3>1. r \in S /\ r # m /\ \A j \in S : j = m \/ j <= r
        BY <2>2
      <3> HIDE DEF m, r
      <3> QED
        BY <1>2, <3>1
    <2>4. Cardinality(Above(r)) = 2
      <3>1. Above(r) = {r} \cup {m}
        <4> HIDE DEF m, r
        <4>1. \A j \in S : j >= r => j = r \/ j = m
          BY <1>2, <2>3
        <4> QED
          BY <1>2, <2>3, <4>1
      <3>2. Cardinality({r} \cup {m}) = 2
        <4> HIDE DEF m, r
        <4>1. IsFiniteSet({r}) /\ Cardinality({r}) = 1 /\ m \notin {r}
          BY <2>3, FS_Singleton
        <4> QED
          BY <4>1, FS_AddElement
      <3> QED
        BY <3>1, <3>2
    <2>5. r \in T /\ \A j \in T : j <= r
      <3>1. m \notin T
        <4>1. ~(Cardinality(Above(m)) >= k)
          <5> HIDE DEF Above, m
          <5> QED
            BY <1>3, <1>5
        <4> QED
          BY <4>1
      <3>2. Cardinality(Above(r)) >= k
        <4> HIDE DEF Above, r
        <4> QED
          BY <1>5, <2>4
      <3>3. r \in T
        BY <2>3, <3>2
      <3> QED
        BY <2>3, <3>1, <3>3
    <2>6. Innermost(T) = r
      <3> HIDE DEF T, r
      <3> QED
        BY <2>5, InnermostIs
    <2> QED
      BY <1>5, <2>3, <2>4, <2>6
  <1> QED
    BY <1>4, <1>5

LEMMA ABreak ==
  ASSUME AInv, NEW skip \in {"break", "cont"}, NEW n \in 1..2, Break(skip, n)
  PROVE  Aimed'
  <1> DEFINE loops == FramesOf({"loop"})
             far == IF n > Cardinality(loops) THEN Cardinality(loops) ELSE n
             a == Innermost({i \in loops : Cardinality({j \in loops : j >= i}) >= far})
  <1>1. mode = "run" /\ mode' = "ret" /\ UNCHANGED stack
    BY DEF Break, NewCommand
  <1>2. Depth \in Nat /\ Depth' = Depth /\ loops \subseteq 1..Depth
    BY <1>1 DEF AInv, XInv, EInv, TypeOK, Depth, FramesOf
  <1>3. loopnest = Cardinality(loops) /\ Cardinality(loops) \in Nat
    <2>1. Cardinality(loops) \in Nat
      <3> HIDE DEF loops
      <3> QED
        BY <1>2, FramesCount
    <2> QED
      BY <1>1, <2>1 DEF AInv, XInv, Exact
  <1>4. \A i \in 1..Depth' : stack'[i].kind # "trap"
    BY <1>1, <1>2 DEF AInv, Aimed
  <1>5. CASE loopnest = 0
    <2>1. ~((IF n > loopnest THEN loopnest ELSE n) > 0)
      BY <1>5
    <2>2. UNCHANGED skp
      BY <2>1 DEF Break
    <2> QED
      BY <1>1, <1>2, <2>2, AFlat
  <1>6. CASE loopnest # 0
    <2>1. (IF n > loopnest THEN loopnest ELSE n) = far /\ far \in 1..2 /\ far <= Cardinality(loops)
      <3> HIDE DEF loops
      <3> QED
        BY <1>3, <1>6
    <2>2. far > 0
      <3> HIDE DEF far
      <3> QED
        BY <2>1
    <2>3. evalskip' = skip /\ skipcount' = far /\ aim' = a
      BY <2>1, <2>2 DEF Break
    <2>4. a \in loops /\ Cardinality({j \in loops : j >= a}) = far
      <3> HIDE DEF loops, far
      <3> QED
        BY <1>2, <2>1, Farthest
    <2>5. From(stack, Depth, a) = {j \in loops : j >= a}
      <3> HIDE DEF a
      <3> QED
        BY DEF From, FramesOf
    <2>6. a \in 1..Depth /\ stack[a].kind = "loop"
      <3> HIDE DEF a
      <3> QED
        BY <2>4 DEF FramesOf
    <2>7. Aims(stack, Depth)'
      <3> HIDE DEF a, far, loops
      <3>1. From(stack, Depth, aim)' = From(stack, Depth, a)
        BY <1>1, <1>2, <2>3 DEF From
      <3> QED
        BY <1>1, <1>2, <2>3, <2>4, <2>5, <2>6, <3>1 DEF Aims
    <2> QED
      BY <1>1, <1>4, <2>7 DEF Aimed
  <1> QED
    BY <1>5, <1>6

LEMMA AReturn ==
  ASSUME AInv, Return
  PROVE  Aimed'
  <1> DEFINE F == FramesOf({"func"})
             D == FramesOf({"dot"})
             B == FramesOf({"func", "dot"})
             d == DotFrame(stack, Depth)
             G == {i \in 1..(d - 1) : stack[i].kind = "func"}
             infunc == \/ dot_funcnest = 0 /\ funcnest > 0
                       \/ dot_funcnest > 0 /\ funcnest + 1 > dot_funcnest
             a == Innermost(B)
  <1>1. mode = "run" /\ mode' = "ret" /\ UNCHANGED stack
    BY DEF Return, NewCommand
  <1>2. Depth \in Nat /\ Depth' = Depth /\ F \subseteq 1..Depth /\ B \subseteq 1..Depth
    BY <1>1 DEF AInv, XInv, EInv, TypeOK, Depth, FramesOf
  <1>3. \A i \in 1..Depth' : stack'[i].kind # "trap"
    BY <1>1, <1>2 DEF AInv, Aimed
  <1>4. d = Innermost(D) /\ D \subseteq 1..Depth
    <2>1. D = {i \in 1..Depth : stack[i].kind = "dot"}
      BY DEF FramesOf
    <2> QED
      BY <2>1 DEF DotFrame
  <1>5. /\ d \in 0..Depth /\ (d = 0 <=> D = {}) /\ (d # 0 => d \in D)
        /\ \A j \in D : j <= d
    <2> HIDE DEF D, d
    <2> QED
      BY <1>2, <1>4, InnermostRange
  <1>6. /\ a \in 0..Depth /\ (a = 0 <=> B = {}) /\ (a # 0 => a \in B)
        /\ \A j \in B : j <= a
    <2> HIDE DEF B
    <2> QED
      BY <1>2, InnermostRange
  <1>7. /\ IsFiniteSet(F) /\ Cardinality(F) \in Nat /\ (Cardinality(F) = 0 <=> F = {})
        /\ Cardinality(F) = funcnest
    <2>1. IsFiniteSet(F) /\ Cardinality(F) \in Nat /\ (Cardinality(F) = 0 <=> F = {})
      <3> HIDE DEF F
      <3> QED
        BY <1>2, FramesCount
    <2>2. Running = F
      BY <1>1, AllRunning DEF AInv, XInv
    <2> QED
      BY <1>1, <2>1, <2>2 DEF AInv, XInv, Exact
  <1>8. dot_funcnest = IF d = 0 THEN 0 ELSE 1 + Cardinality(G)
    BY <1>1 DEF AInv, XInv, Exact, DotLevel
  <1>9. G \subseteq F /\ G = {i \in F : i < d}
    <2> HIDE DEF d
    <2>1. \A i : i \in 1..Depth /\ i < d <=> i \in 1..(d - 1)
      BY <1>2, <1>5
    <2> QED
      BY <2>1 DEF FramesOf
  <1>10. Cardinality(G) \in Nat /\ Cardinality(G) <= Cardinality(F)
         /\ (Cardinality(G) = Cardinality(F) => G = F)
    <2> HIDE DEF G, F
    <2>1. G \in SUBSET F
      BY <1>9
    <2>2. IsFiniteSet(G) /\ Cardinality(G) <= Cardinality(F) /\ (Cardinality(F) = Cardinality(G) => F = G)
      BY <1>7, <2>1, FS_Subset
    <2> QED
      BY <2>2, FS_CardinalityType
  <1>11. ASSUME infunc PROVE \E i \in F : i > d
    <2>1. CASE d = 0
      <3>1. funcnest > 0
        <4>1. dot_funcnest = 0
          BY <1>8, <2>1
        <4> QED
          BY <1>11, <4>1
      <3>2. F # {}
        <4> HIDE DEF F
        <4> QED
          BY <1>7, <3>1
      <3>3. \A i \in F : i > d
        <4> HIDE DEF d
        <4> QED
          BY <1>2, <2>1
      <3> QED
        BY <3>2, <3>3
    <2>2. CASE d # 0
      <3>1. dot_funcnest = 1 + Cardinality(G)
        BY <1>8, <2>2
      <3>2. Cardinality(F) # Cardinality(G)
        <4> HIDE DEF F, G
        <4> QED
          BY <1>7, <1>10, <1>11, <3>1
      <3>3. PICK i \in F : ~(i < d)
        BY <1>9, <3>2
      <3>4. i # d
        <4>1. stack[i].kind = "func"
          BY DEF FramesOf
        <4>2. stack[d].kind = "dot"
          <5> HIDE DEF d
          <5> QED
            BY <1>5, <2>2 DEF FramesOf
        <4> QED
          BY <4>1, <4>2
      <3>5. i > d
        <4> HIDE DEF d
        <4> QED
          BY <1>2, <1>5, <3>3, <3>4
      <3> QED
        BY <3>5
    <2> QED
      BY <2>1, <2>2
  <1>12. ASSUME ~infunc, dot_funcnest > 0 PROVE d # 0 /\ \A i \in F : i < d
    <2>1. d # 0
      BY <1>8, <1>12
    <2>2. Cardinality(F) = Cardinality(G)
      <3>1. dot_funcnest = 1 + Cardinality(G)
        BY <1>8, <2>1
      <3> HIDE DEF F, G
      <3> QED
        BY <1>7, <1>10, <1>12, <3>1
    <2> QED
      BY <1>9, <1>10, <2>1, <2>2
  <1>13. B = F \cup D
    BY DEF FramesOf
  <1> HIDE DEF a, d, G
  <1>14. ASSUME infunc PROVE a \in F
    <2>1. PICK i \in F : i > d
      BY <1>11, <1>14
    <2>2. i \in B /\ i <= a /\ i \in Nat /\ a # 0 /\ a \in B
      <3>1. i \in B /\ i \in 1..Depth
        BY <1>2, <1>13
      <3> HIDE DEF B
      <3> QED
        BY <1>2, <1>6, <3>1
    <2>3. a \notin D
      <3> HIDE DEF D
      <3> QED
        BY <1>2, <1>5, <1>6, <2>1, <2>2
    <2> QED
      BY <1>13, <2>2, <2>3
  <1>15. ASSUME ~infunc, dot_funcnest > 0 PROVE a \in D
    <2>1. d # 0 /\ \A i \in F : i < d
      BY <1>12, <1>15
    <2>2. d \in D /\ d \in B /\ d <= a /\ a \in B
      <3>1. d \in D /\ d \in B
        BY <1>5, <1>13, <2>1
      <3> HIDE DEF B, D
      <3> QED
        BY <1>2, <1>5, <1>6, <2>1, <3>1
    <2>3. a \notin F
      <3> HIDE DEF F
      <3> QED
        BY <1>2, <1>5, <1>6, <2>1, <2>2
    <2> QED
      BY <1>13, <2>2, <2>3
  <1>16. CASE infunc \/ dot_funcnest > 0
    <2>1. evalskip' = (IF infunc THEN "func" ELSE "file") /\ aim' = a
      BY <1>16 DEF Return, a
    <2>2. a \in B /\ (infunc => stack[a].kind = "func") /\ (~infunc => stack[a].kind = "dot")
      BY <1>13, <1>14, <1>15, <1>16 DEF FramesOf
    <2>3. \A j \in 1..Depth : stack[j].kind \in {"func", "dot"} => j <= a
      BY <1>6 DEF FramesOf
    <2>4. a \in 1..Depth
      BY <1>2, <2>2
    <2>5. Aims(stack, Depth)'
      <3> HIDE DEF infunc, B
      <3> QED
        BY <1>1, <1>2, <2>1, <2>2, <2>3, <2>4 DEF Aims
    <2> QED
      BY <1>1, <1>3, <2>5 DEF Aimed
  <1>17. CASE ~(infunc \/ dot_funcnest > 0)
    <2>1. UNCHANGED skp
      BY <1>17 DEF Return
    <2> QED
      BY <1>1, <1>2, <2>1, AFlat
  <1> QED
    BY <1>16, <1>17

\* A function, a redirected command, an eval or a dot file ends; a return that
\* stops there was meant for it.
LEMMA AEnds ==
  ASSUME AInv, FuncDone \/ RedirReturns \/ EvalReturns \/ DotReturns
  PROVE  /\ Aimed'
         /\ evalskip # "none" /\ evalskip' = "none" => Depth = aim
  <1>0. EInv /\ stack \in Seq(Frames) /\ Depth \in Nat /\ Aimed
    BY DEF AInv, XInv, EInv, TypeOK, Depth
  <1>1. CASE FuncDone
    <2>1. /\ mode = "f_done" /\ mode' = "ret" /\ stack' = Pop(stack)
          /\ \/ evalskip = "func" /\ evalskip' = "none"
             \/ evalskip # "func" /\ UNCHANGED skp
      BY <1>1 DEF FuncDone
    <2>2. Depth > 0 /\ stack[Depth].kind = "func" /\ stack' = SubSeq(stack, 1, Depth - 1)
      BY <1>0, <2>1 DEF EInv, Places, Inner, Depth, Pop
    <2>3. Aimed'
      BY <2>1, <2>2, ACut
    <2>4. evalskip = "func" => Depth = aim
      <3> SUFFICES ASSUME evalskip = "func" PROVE Depth = aim
        OBVIOUS
      <3>1. aim \in 1..Depth /\ Depth \in 1..Depth /\ \A j \in 1..Depth :
              stack[j].kind \in {"func", "dot"} => j <= aim
        BY <1>0, <2>1, <2>2 DEF Aimed, Aims
      <3>2. Depth <= aim
        BY <2>2, <3>1
      <3> QED
        BY <1>0, <3>1, <3>2
    <2> QED
      BY <2>1, <2>3, <2>4 DEF skp
  <1>2. CASE RedirReturns \/ EvalReturns \/ DotReturns
    <2>1. mode = "ret" /\ Depth > 0
      BY <1>2 DEF RedirReturns, EvalReturns, DotReturns
    <2>2. stack[Depth] = Inner /\ Pop(stack) = SubSeq(stack, 1, Depth - 1)
      BY <1>0, <2>1, Returned
    <2>3. CASE RedirReturns
      <3>1. /\ stack' = SubSeq(stack, 1, Depth - 1) /\ mode' = "ret" /\ UNCHANGED skp
            /\ stack[Depth].kind = "redir"
        BY <2>1, <2>2, <2>3 DEF RedirReturns
      <3>2. Aimed'
        BY <2>1, <3>1, ACut
      <3> QED
        BY <3>1, <3>2 DEF skp
    <2>4. CASE EvalReturns
      <3>1. stack[Depth].kind = "eval" /\ UNCHANGED skp
        BY <2>2, <2>4 DEF EvalReturns
      <3>2. CASE BuiltinEnd
        <4>1. stack' = SubSeq(stack, 1, Depth - 1) /\ mode' = "ret"
          BY <2>1, <2>2, <3>2 DEF BuiltinEnd
        <4>2. Aimed'
          BY <2>1, <3>1, <4>1, ACut
        <4> QED
          BY <3>1, <4>2 DEF skp
      <3>3. CASE ~BuiltinEnd
        <4>1. evalskip = "none" /\ UNCHANGED stack
          BY <2>4, <3>3 DEF EvalReturns, MoreInput
        <4>2. Depth' = Depth
          BY <4>1 DEF Depth
        <4>3. Aimed'
          BY <2>1, <3>1, <4>1, <4>2, AFlat
        <4> QED
          BY <4>1, <4>3
      <3> QED
        BY <3>2, <3>3
    <2>5. CASE DotReturns
      <3>1. /\ stack[Depth].kind = "dot"
            /\ \/ evalskip = "file" /\ evalskip' = "none"
               \/ evalskip # "file" /\ UNCHANGED skp
        BY <2>2, <2>5 DEF DotReturns
      <3>2. evalskip = "file" => Depth = aim
        <4> SUFFICES ASSUME evalskip = "file" PROVE Depth = aim
          OBVIOUS
        <4>1. aim \in 1..Depth /\ Depth \in 1..Depth /\ \A j \in 1..Depth :
                stack[j].kind \in {"func", "dot"} => j <= aim
          BY <1>0, <2>1 DEF Aimed, Aims
        <4>2. Depth <= aim
          BY <3>1, <4>1
        <4> QED
          BY <1>0, <4>1, <4>2
      <3>3. CASE BuiltinEnd
        <4>1. stack' = SubSeq(stack, 1, Depth - 1) /\ mode' = "ret"
          BY <2>1, <2>2, <3>3 DEF BuiltinEnd
        <4>2. Aimed'
          BY <2>1, <3>1, <4>1, ACut
        <4> QED
          BY <3>1, <3>2, <4>2 DEF skp
      <3>4. CASE ~BuiltinEnd
        <4>1. evalskip = "none" /\ UNCHANGED stack /\ UNCHANGED skp
          BY <2>5, <3>1, <3>4 DEF DotReturns, MoreInput
        <4>2. Depth' = Depth
          BY <4>1 DEF Depth
        <4>3. Aimed'
          BY <2>1, <4>1, <4>2, AFlat
        <4> QED
          BY <4>1, <4>3
      <3> QED
        BY <3>3, <3>4
    <2> QED
      BY <1>2, <2>3, <2>4, <2>5
  <1> QED
    BY <1>1, <1>2

\* A construct begins.
LEMMA ABegin ==
  ASSUME AInv,
         \/ LoopBegin \/ FuncBegin \/ RedirBegin
         \/ \E kind \in {"eval", "dot"}, special \in BOOLEAN : BuiltinBegin(kind, special)
  PROVE  Aimed'
  <1>0. EInv /\ TRUE \in BOOLEAN /\ FALSE \in BOOLEAN
    BY DEF AInv, XInv
  <1>1. mode = "run" /\ UNCHANGED skp
    BY DEF LoopBegin, FuncBegin, RedirBegin, BuiltinBegin, NewConstruct, NewCommand
  <1>2. ASSUME NEW k \in {"loop", "func"}, stack' = Begin(k, FALSE)
        PROVE  Aimed'
    <2> DEFINE f == Frame(k, FALSE)
    <2>0. k \in FrameKinds
      BY DEF FrameKinds
    <2>1. f \in Frames /\ f.kind = k
      BY <1>0, <2>0, FrameType DEF EInv
    <2>2. stack' = Append(stack, f)
      BY <1>2 DEF Begin
    <2> HIDE DEF f
    <2> QED
      BY <1>1, <2>1, <2>2, APush
  <1>3. ASSUME NEW k \in {"redir", "eval", "dot"}, NEW special \in BOOLEAN,
               stack' = Armed(k, special)
        PROVE  Aimed'
    <2> DEFINE g == Frame(k, special)
               f == [g EXCEPT !.armed = TRUE]
    <2>0. k \in FrameKinds
      BY DEF FrameKinds
    <2>1. g \in Frames /\ g.kind = k
      BY <1>0, <2>0, FrameType DEF EInv
    <2>2. stack' = Append(stack, f)
      BY <1>3 DEF Armed
    <2> HIDE DEF g
    <2>3. f \in Frames /\ f.kind = k
      BY <2>1, Rearmed
    <2> HIDE DEF f
    <2> QED
      BY <1>1, <2>2, <2>3, APush
  <1>4. CASE LoopBegin \/ FuncBegin
    BY <1>2, <1>4 DEF LoopBegin, FuncBegin
  <1>5. CASE RedirBegin
    BY <1>0, <1>3, <1>5 DEF RedirBegin
  <1>6. CASE \E kind \in {"eval", "dot"}, special \in BOOLEAN : BuiltinBegin(kind, special)
    BY <1>3, <1>6 DEF BuiltinBegin
  <1> QED
    BY <1>4, <1>5, <1>6

\* An exception goes on, or ends at the prompt with nothing skipped.
LEMMA ACatch ==
  ASSUME ResetBlocks = TRUE, AInv,
         CatchFunction \/ CatchRedir \/ CatchBuiltin \/ CatchMain
  PROVE  Aimed'
  <1>1. EInv /\ stack \in Seq(Frames) /\ mode = "exc"
    BY DEF AInv, XInv, EInv, TypeOK, CatchFunction, CatchRedir, CatchBuiltin, CatchMain
  <1>2. CASE CatchMain
    <2>1. stack' = <<>> /\ evalskip' = "none"
      BY <1>2 DEF CatchMain, Reset
    <2>2. \A i \in 1..Depth' : FALSE
      BY <2>1 DEF Depth
    <2> QED
      BY <2>1, <2>2 DEF Aimed
  <1>3. CASE CatchFunction \/ CatchRedir \/ CatchBuiltin
    <2> DEFINE n == handler - 1
    <2>1. handler > 0 /\ stack' = SubSeq(stack, 1, n)
      BY <1>3 DEF CatchFunction, CatchRedir, CatchBuiltin
    <2>2. handler \in 1..Depth /\ n \in 0..Depth
      BY <1>1, <2>1, Caught
    <2>3. mode' = "exc"
      <3>1. CASE CatchFunction \/ CatchRedir
        BY <1>1, <3>1 DEF CatchFunction, CatchRedir
      <3>2. CASE CatchBuiltin
        <4>1. stack[handler].special = TRUE
          BY <2>2, <3>2 DEF CatchBuiltin, AInv, XInv, Special
        <4> QED
          BY <1>1, <3>2, <4>1 DEF CatchBuiltin
      <3> QED
        BY <1>3, <3>1, <3>2
    <2>4. \A i \in 1..n : i \in 1..Depth
      BY <1>1, <2>2, RunningSets
    <2> HIDE DEF n
    <2>5. Depth' = n /\ \A i \in 1..n : stack'[i] = stack[i]
      BY <1>1, <2>1, <2>2, CutFacts
    <2> QED
      BY <2>3, <2>4, <2>5 DEF AInv, Aimed
  <1> QED
    BY <1>2, <1>3

\* The steps that leave the stack of constructs and the skip state alone.
LEMMA AStays ==
  ASSUME AInv,
         \/ Interrupt \/ Builtin \/ External \/ Local \/ ExpansionError \/ SpecialError
         \/ RegularError \/ FuncRedirFails \/ RedirFails \/ FuncParams \/ FuncHandler
         \/ FuncReturns \/ TopReturns \/ UNCHANGED vars
  PROVE  Aimed' /\ UNCHANGED skp
  <1>0. EInv /\ stack \in Seq(Frames)
    BY DEF AInv, XInv, EInv, TypeOK
  <1>1. UNCHANGED skp
    BY DEF Interrupt, Builtin, External, Local, ExpansionError, SpecialError, RegularError,
           FuncRedirFails, RedirFails, FuncParams, FuncHandler, FuncReturns, TopReturns, vars
  <1>2. CASE FuncHandler \/ FuncReturns
    <2>1. /\ Depth > 0 /\ \E b \in BOOLEAN : stack' = [stack EXCEPT ![Depth].armed = b]
          /\ mode = "f_handler" \/ (mode = "ret" /\ mode' = "f_done")
      BY <1>0, <1>2 DEF FuncHandler, FuncReturns, EInv, Places
    <2>2. Depth' = Depth /\ \A i \in 1..Depth : stack'[i].kind = stack[i].kind
      BY <1>0, <2>1, ArmSame
    <2> QED
      BY <1>1, <2>1, <2>2, AFlat
  <1>3. CASE ~(FuncHandler \/ FuncReturns)
    <2>1. UNCHANGED stack
      BY <1>3 DEF Interrupt, Builtin, External, Local, ExpansionError, SpecialError,
           RegularError, FuncRedirFails, RedirFails, FuncParams, TopReturns, vars
    <2>2. \/ mode' \in {"exc", "dead"} \/ (evalskip = "none" /\ mode # "exc")
          \/ mode \in {"run", "f_params", "f_handler"} \/ mode' = mode
      BY <1>3 DEF Interrupt, Builtin, External, Local, ExpansionError, SpecialError,
           RegularError, FuncRedirFails, RedirFails, FuncParams, TopReturns, vars,
           NewCommand, NewConstruct, RaiseError
    <2>3. Depth' = Depth
      BY <2>1 DEF Depth
    <2> QED
      BY <1>1, <2>1, <2>2, <2>3, AFlat
  <1> QED
    BY <1>2, <1>3

\* One step: the invariant, and where the skipping stops.
LEMMA ANext ==
  ASSUME ResetBlocks = TRUE, WithCommand = FALSE, MaxTraps = 0, AInv, [Next]_vars
  PROVE  /\ AInv'
         /\ evalskip # "none" /\ evalskip' = "none" /\ mode \in {"ret", "f_done"} => Depth = aim
  <1>0. XInv'
    BY XNext DEF AInv
  <1>1. ~TrapBegin
    <2>1. ntraps \in 0..0
      BY DEF AInv, XInv, EInv, TypeOK
    <2> QED
      BY <2>1 DEF TrapBegin
  <1>2. ~TrapReturns
    <2> SUFFICES ASSUME TrapReturns PROVE FALSE
      OBVIOUS
    <2>1. mode = "ret" /\ Depth > 0 /\ Inner.kind = "trap"
      BY DEF TrapReturns
    <2>2. Depth \in 1..Depth /\ Inner = stack[Depth]
      BY <2>1, Returned DEF AInv, XInv
    <2> QED
      BY <2>1, <2>2 DEF AInv, Aimed
  <1>3. CASE CatchFunction \/ CatchRedir \/ CatchBuiltin \/ CatchMain
    <2>1. mode = "exc"
      BY <1>3 DEF CatchFunction, CatchRedir, CatchBuiltin, CatchMain
    <2> QED
      BY <1>0, <1>3, <2>1, ACatch DEF AInv
  <1>4. CASE \/ LoopBegin \/ FuncBegin \/ RedirBegin
             \/ \E kind \in {"eval", "dot"}, special \in BOOLEAN : BuiltinBegin(kind, special)
    <2>1. mode = "run"
      BY <1>4 DEF LoopBegin, FuncBegin, RedirBegin, BuiltinBegin, NewConstruct, NewCommand
    <2> QED
      BY <1>0, <1>4, <2>1, ABegin DEF AInv
  <1>5. CASE LoopReturns
    BY <1>0, <1>5, ALoopReturns DEF AInv
  <1>6. CASE FuncDone \/ RedirReturns \/ EvalReturns \/ DotReturns
    BY <1>0, <1>6, AEnds DEF AInv
  <1>7. CASE Return \/ \E skip \in {"break", "cont"}, n \in 1..2 : Break(skip, n)
    <2>1. mode = "run"
      BY <1>7 DEF Return, Break, NewCommand
    <2> QED
      BY <1>0, <1>7, <2>1, AReturn, ABreak DEF AInv
  <1>8. CASE \/ Interrupt \/ Builtin \/ External \/ Local \/ ExpansionError \/ SpecialError
             \/ RegularError \/ FuncRedirFails \/ RedirFails \/ FuncParams \/ FuncHandler
             \/ FuncReturns \/ TopReturns \/ UNCHANGED vars
    BY <1>0, <1>8, AStays DEF AInv, skp
  <1> QED
    BY <1>1, <1>2, <1>3, <1>4, <1>5, <1>6, <1>7, <1>8 DEF Next

THEOREM Aiming ==
  ASSUME ResetBlocks = TRUE, WithCommand = FALSE, MaxTraps = 0
  PROVE  Spec => []AInv
  <1>1. Init => AInv
    <2> SUFFICES ASSUME Init PROVE AInv
      OBVIOUS
    <2>1. XInv
      BY EInitially, XInitially DEF XInv
    <2>2. evalskip = "none" /\ \A i \in 1..Depth : FALSE
      BY DEF Init, Depth
    <2> QED
      BY <2>1, <2>2 DEF AInv, Aimed
  <1>2. AInv /\ [Next]_vars => AInv'
    BY ANext
  <1> QED
    BY <1>1, <1>2, PTL DEF Spec

\* While commands are skipped none is evaluated, and the construct that a break,
\* continue or return is meant for is still there: what evalskip and skipcount
\* make evalloop, evalfun, evalstring and cmdloop leave never reaches beyond it.
THEOREM SkipStaysInScope ==
  ASSUME ResetBlocks = TRUE, WithCommand = FALSE, MaxTraps = 0
  PROVE  Spec => []SkipInScope
  <1>1. AInv => SkipInScope
    BY DEF AInv, Aimed, Aims, SkipInScope, SkippedNotRun
  <1> QED
    BY <1>1, Aiming, PTL

\* The skipping stops at that construct, and at no other.
THEOREM SkipLandsWhereMeant ==
  ASSUME ResetBlocks = TRUE, WithCommand = FALSE, MaxTraps = 0
  PROVE  Spec => SkipLands
  <1>1. AInv /\ [Next]_vars =>
          [evalskip # "none" /\ evalskip' = "none" /\ mode \in {"ret", "f_done"}
             => Depth = aim]_vars
    BY ANext
  <1> QED
    BY <1>1, Aiming, PTL DEF Spec, SkipLands

=============================================================================
