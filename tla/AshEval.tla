------------------------------ MODULE AshEval ------------------------------
(***************************************************************************)
(* Evaluation in the ash shell: the nesting of loops, functions, compound  *)
(* commands with redirections, eval, the dot command and trap actions      *)
(* (eval.c, cmdloop in main.c, dotrap in trap.c), the skipping of commands *)
(* by break, continue and return, and what exceptions unwind (error.c,     *)
(* main.c, reset in init.c).                                               *)
(*                                                                         *)
(* "stack" is the C stack: one frame for every construct being evaluated,  *)
(* with what that construct saved in its local variables.  The globals the *)
(* constructs change and restore are variables.  Which commands a program  *)
(* consists of is open: every construct may be met at every point.         *)
(*                                                                         *)
(* Not modelled: subshells (AshTrap follows a fork into its child), -e and *)
(* -n, EV_EXIT, exit statuses, and what commands print.                    *)
(***************************************************************************)
EXTENDS Naturals, Sequences, FiniteSets

CONSTANTS
  ResetBlocks,     \* init.c was generated from the RESET blocks; the init.c
                   \* of the repository has an empty reset()
  FuncLimit,       \* how deep functions may nest (1000)
  Kinds,           \* the constructs the instance uses
  WithErrors,      \* whether commands fail
  WithCommand,     \* whether "command" makes special builtins regular
  WithBadRedirs,   \* whether the redirections of a compound command fail
  MaxDepth, MaxCmds, MaxInts, MaxTraps     \* bounds of the instance

ASSUME SwitchAssumption ==
  /\ ResetBlocks \in BOOLEAN /\ WithErrors \in BOOLEAN
  /\ WithCommand \in BOOLEAN /\ WithBadRedirs \in BOOLEAN
ASSUME KindAssumption == Kinds \subseteq {"loop", "func", "redir", "eval", "dot"}
ASSUME LimitAssumption ==
  /\ FuncLimit \in Nat /\ MaxDepth \in Nat /\ MaxCmds \in Nat
  /\ MaxInts \in Nat /\ MaxTraps \in Nat

VARIABLES
  stack, mode,            \* mode: what the innermost frame does next
  handler,                \* the frame whose setjmp "handler" names; 0 is main
  exception,
  evalskip, skipcount,
  loopnest, funcnest, dot_funcnest,
  redirs,                 \* redirlist: who pushed each table, the last on top
  files,                  \* how many files are pushed on basepf
  params, localvars,      \* whose parameters and local variable list is current
  shadowed,               \* the functions that hide a variable by a local one
  suppressint, intpending,
  aim,                    \* history: the frame a break or return is meant for
  ncmds, nints, ntraps

skp == <<evalskip, skipcount, aim>>
nst == <<loopnest, funcnest, dot_funcnest>>
lcl == <<params, localvars, shadowed>>
itr == <<suppressint, intpending>>
bnd == <<ncmds, nints, ntraps>>
vars == <<stack, mode, handler, exception, skp, nst, redirs, files, lcl, itr, bnd>>

Depth == Len(stack)
Inner == stack[Len(stack)]
Pop(s) == SubSeq(s, 1, Len(s) - 1)

\* The frames of one kind, from the outermost in.
FramesOf(K) == {i \in 1..Depth : stack[i].kind \in K}
Innermost(S) == IF S = {} THEN 0 ELSE CHOOSE i \in S : \A j \in S : j <= i

\* What a construct saves when it begins.
Frame(kind, special) ==
  [kind |-> kind, special |-> special, armed |-> FALSE, handler |-> handler,
   files |-> files, params |-> params, localvars |-> localvars,
   dot |-> dot_funcnest, skip |-> skp]

Begin(kind, special) == Append(stack, Frame(kind, special))
Armed(kind, special) ==
  Append(stack, [Frame(kind, special) EXCEPT !.armed = TRUE])

NewCommand == mode = "run" /\ ncmds < MaxCmds /\ ncmds' = ncmds + 1
               /\ UNCHANGED <<nints, ntraps>>
NewConstruct(kind) == kind \in Kinds /\ Depth < MaxDepth /\ NewCommand

-----------------------------------------------------------------------------
(* Exceptions.                                                             *)

\* exverror and exraise(EXERROR): interrupts stay off until they are forced on.
RaiseError ==
  /\ exception' = "ERROR" /\ mode' = "exc"
  /\ suppressint' = suppressint + 1 /\ intpending' = FALSE

\* FORCEINTON, and then go on as m unless an interrupt was held back.
ForceInton(m) ==
  /\ suppressint' = 0 /\ intpending' = FALSE
  /\ IF intpending THEN exception' = "INT" /\ mode' = "exc"
                   ELSE mode' = m /\ UNCHANGED exception

\* SIGINT: onint.
Interrupt ==
  /\ mode \notin {"dead", "exc"} \/ suppressint > 0
  /\ mode # "dead" /\ nints < MaxInts
  /\ nints' = nints + 1
  /\ IF suppressint > 0
     THEN intpending' = TRUE /\ UNCHANGED <<mode, exception>>
     ELSE exception' = "INT" /\ mode' = "exc" /\ UNCHANGED intpending
  /\ UNCHANGED <<stack, handler, skp, nst, redirs, files, lcl, suppressint,
                 ncmds, ntraps>>

\* poplocalvars: the current list is undone.
PopLocals(saved) ==
  /\ shadowed' = shadowed \ {localvars}
  /\ localvars' = saved

\* Mutant: a function leaves its local variables to its caller.
CatchFunctionKeepsLocals ==
  /\ mode = "exc" /\ handler > 0 /\ stack[handler].kind = "func"
  /\ params' = stack[handler].params
  /\ redirs' = Pop(redirs)
  /\ handler' = stack[handler].handler
  /\ stack' = SubSeq(stack, 1, handler - 1)
  /\ UNCHANGED <<localvars, shadowed, mode, exception, skp, nst, files, itr, bnd>>

\* The setjmp of a function: everything but the nesting level is restored.
CatchFunction ==
  /\ mode = "exc" /\ handler > 0 /\ stack[handler].kind = "func"
  /\ params' = stack[handler].params
  /\ redirs' = Pop(redirs)
  /\ PopLocals(stack[handler].localvars)
  /\ handler' = stack[handler].handler
  /\ stack' = SubSeq(stack, 1, handler - 1)
  /\ UNCHANGED <<mode, exception, skp, nst, files, itr, bnd>>

\* The setjmp of evalredir; the redirections were done.
CatchRedir ==
  /\ mode = "exc" /\ handler > 0 /\ stack[handler].kind = "redir"
  /\ handler' = stack[handler].handler
  /\ redirs' = Pop(redirs)
  /\ stack' = SubSeq(stack, 1, handler - 1)
  /\ UNCHANGED <<mode, exception, skp, nst, files, lcl, itr, bnd>>

\* The setjmp of a builtin.  A regular builtin ends with its files and its
\* redirection undone; a special one, and an interrupt, only raises again.
CatchBuiltin ==
  /\ mode = "exc" /\ handler > 0 /\ stack[handler].kind \in {"eval", "dot"}
  /\ handler' = stack[handler].handler
  /\ stack' = SubSeq(stack, 1, handler - 1)
  /\ IF exception = "INT" \/ stack[handler].special
     THEN UNCHANGED <<mode, exception, files, redirs, itr>>
     ELSE /\ files' = stack[handler].files
          /\ redirs' = Pop(redirs)
          /\ ForceInton("ret")
  /\ UNCHANGED <<skp, nst, lcl, bnd>>

\* Mutants: a RESET block is left out of init.c.
ResetNotEval ==
  IF ResetBlocks
  THEN files' = 0 /\ redirs' = <<>> /\ UNCHANGED <<skp, nst>>
  ELSE UNCHANGED <<skp, nst, files, redirs>>

ResetNotInput ==
  IF ResetBlocks
  THEN /\ evalskip' = "none" /\ UNCHANGED <<skipcount, aim>>
       /\ loopnest' = 0 /\ funcnest' = 0 /\ dot_funcnest' = 0
       /\ redirs' = <<>> /\ UNCHANGED files
  ELSE UNCHANGED <<skp, nst, files, redirs>>

ResetNotRedir ==
  IF ResetBlocks
  THEN /\ evalskip' = "none" /\ UNCHANGED <<skipcount, aim>>
       /\ loopnest' = 0 /\ funcnest' = 0 /\ dot_funcnest' = 0
       /\ files' = 0 /\ UNCHANGED redirs
  ELSE UNCHANGED <<skp, nst, files, redirs>>

\* reset(): the RESET blocks of eval.c, input.c and redir.c, or nothing.
Reset ==
  IF ResetBlocks
  THEN /\ evalskip' = "none" /\ UNCHANGED <<skipcount, aim>>
       /\ loopnest' = 0 /\ funcnest' = 0 /\ dot_funcnest' = 0
       /\ files' = 0 /\ redirs' = <<>>
  ELSE UNCHANGED <<skp, nst, files, redirs>>

\* The setjmp of main: the interactive shell is back at its prompt.
CatchMain ==
  /\ mode = "exc" /\ handler = 0
  /\ stack' = <<>>
  /\ Reset
  /\ ForceInton("run")
  /\ UNCHANGED <<handler, lcl, bnd>>

-----------------------------------------------------------------------------
(* Commands that begin no construct.                                       *)

\* A builtin that succeeds.
Builtin ==
  /\ mode = "run" /\ mode' = "ret"
  /\ UNCHANGED <<stack, handler, exception, skp, nst, redirs, files, lcl, itr, bnd>>

\* A command that was forked for ends with FORCEINTON in the parent.
External ==
  /\ mode = "run"
  /\ ForceInton("ret")
  /\ UNCHANGED <<stack, handler, skp, nst, redirs, files, lcl, bnd>>

\* local hides a variable until the list it is on is popped.
Local ==
  /\ NewCommand /\ localvars > 0
  /\ shadowed' = shadowed \cup {localvars}
  /\ mode' = "ret"
  /\ UNCHANGED <<stack, handler, exception, skp, nst, redirs, files, params,
                 localvars, itr>>

\* break n and continue n: no more loops than there are.
Break(skip, n) ==
  /\ NewCommand
  /\ LET count == IF n > loopnest THEN loopnest ELSE n
         loops == FramesOf({"loop"})
         far == IF n > Cardinality(loops) THEN Cardinality(loops) ELSE n
     IN IF count > 0
        THEN /\ evalskip' = skip /\ skipcount' = count
             /\ aim' = Innermost({i \in loops :
                         Cardinality({j \in loops : j >= i}) >= far})
        ELSE UNCHANGED skp
  /\ mode' = "ret"
  /\ UNCHANGED <<stack, handler, exception, nst, redirs, files, lcl, itr>>

\* Mutant: return in a dot file that was read from a function ends the function.
ReturnNoDot ==
  /\ NewCommand
  /\ evalskip' = IF funcnest > 0 THEN "func"
                 ELSE IF dot_funcnest > 0 THEN "file" ELSE evalskip
  /\ skipcount' = IF funcnest > 0 \/ dot_funcnest > 0 THEN 1 ELSE skipcount
  /\ aim' = Innermost(FramesOf({"func", "dot"}))
  /\ mode' = "ret"
  /\ UNCHANGED <<stack, handler, exception, nst, redirs, files, lcl, itr>>

\* return: from a function, from a dot file, or nothing.
Return ==
  /\ NewCommand
  /\ LET infunc == \/ dot_funcnest = 0 /\ funcnest > 0
                   \/ dot_funcnest > 0 /\ funcnest + 1 > dot_funcnest
     IN IF infunc \/ dot_funcnest > 0
        THEN /\ evalskip' = IF infunc THEN "func" ELSE "file"
             /\ skipcount' = 1
             /\ aim' = Innermost(FramesOf({"func", "dot"}))
        ELSE UNCHANGED skp
  /\ mode' = "ret"
  /\ UNCHANGED <<stack, handler, exception, nst, redirs, files, lcl, itr>>

\* An expansion fails, or anything else outside of a builtin.
ExpansionError ==
  /\ WithErrors /\ NewCommand
  /\ RaiseError
  /\ UNCHANGED <<stack, handler, skp, nst, redirs, files, lcl>>

\* A special builtin (or its redirection) fails: its handler raises again,
\* and its redirection stays.
SpecialError ==
  /\ WithErrors /\ NewCommand
  /\ redirs' = Append(redirs, Depth + 1)
  /\ RaiseError
  /\ UNCHANGED <<stack, handler, skp, nst, files, lcl>>

\* Mutant: the handler of a builtin does not force interrupts on.
RegularErrorIntoff ==
  /\ WithErrors /\ NewCommand
  /\ suppressint' = suppressint + 1 /\ intpending' = FALSE
  /\ mode' = "ret"
  /\ UNCHANGED <<stack, handler, exception, skp, nst, redirs, files, lcl>>

\* A regular builtin (or its redirection) fails: its handler carries on.
RegularError ==
  /\ WithErrors /\ NewCommand
  /\ suppressint' = 0 /\ intpending' = FALSE
  /\ mode' = "ret"
  /\ UNCHANGED <<stack, handler, exception, skp, nst, redirs, files, lcl>>

-----------------------------------------------------------------------------
(* Loops.                                                                  *)

LoopBegin ==
  /\ NewConstruct("loop")
  /\ stack' = Begin("loop", FALSE)
  /\ loopnest' = loopnest + 1
  /\ UNCHANGED <<mode, handler, exception, skp, funcnest, dot_funcnest, redirs,
                 files, lcl, itr>>

LoopAgain ==
  UNCHANGED <<stack, loopnest>> /\ mode' = "run"

LoopEnd ==
  stack' = Pop(stack) /\ loopnest' = loopnest - 1 /\ UNCHANGED mode

\* Mutant: continue n ends one loop too many.
LoopReturnsLate ==
  /\ mode = "ret" /\ Depth > 0 /\ Inner.kind = "loop"
  /\ IF evalskip = "none" THEN UNCHANGED skp /\ (LoopAgain \/ LoopEnd)
     ELSE /\ IF evalskip \in {"cont", "break"}
             THEN /\ skipcount' = skipcount - 1
                  /\ evalskip' = IF skipcount < 1 THEN "none" ELSE evalskip
             ELSE UNCHANGED <<evalskip, skipcount>>
          /\ UNCHANGED aim
          /\ IF evalskip = "cont" /\ skipcount < 1 THEN LoopAgain ELSE LoopEnd
  /\ UNCHANGED <<handler, exception, funcnest, dot_funcnest, redirs, files, lcl,
                 itr, bnd>>

\* A command of a loop is done: evalloop and evalfor look at evalskip.
LoopReturns ==
  /\ mode = "ret" /\ Depth > 0 /\ Inner.kind = "loop"
  /\ IF evalskip = "none" THEN UNCHANGED skp /\ (LoopAgain \/ LoopEnd)
     ELSE /\ IF evalskip \in {"cont", "break"}
             THEN /\ skipcount' = skipcount - 1
                  /\ evalskip' = IF skipcount <= 1 THEN "none" ELSE evalskip
             ELSE UNCHANGED <<evalskip, skipcount>>
          /\ UNCHANGED aim
          /\ IF evalskip = "cont" /\ skipcount <= 1 THEN LoopAgain ELSE LoopEnd
  /\ UNCHANGED <<handler, exception, funcnest, dot_funcnest, redirs, files, lcl,
                 itr, bnd>>

-----------------------------------------------------------------------------
(* Functions.                                                              *)

\* The redirections come first, before any handler is set.
FuncBegin ==
  /\ NewConstruct("func")
  /\ stack' = Begin("func", FALSE)
  /\ redirs' = Append(redirs, Depth + 1)
  /\ mode' = "f_params"
  /\ UNCHANGED <<handler, exception, skp, nst, files, lcl, itr>>

FuncRedirFails ==
  /\ WithErrors /\ NewConstruct("func")
  /\ redirs' = Append(redirs, Depth + 1)
  /\ RaiseError
  /\ UNCHANGED <<stack, handler, skp, nst, files, lcl>>

\* shellparam, then localvars between INTOFF and INTON.
FuncParams ==
  /\ mode = "f_params"
  /\ params' = Depth /\ localvars' = Depth
  /\ mode' = "f_handler"
  /\ UNCHANGED <<shadowed, stack, handler, exception, skp, nst, redirs, files, itr,
                 bnd>>

\* setjmp, the handler, and the limit on nesting.
FuncHandler ==
  /\ mode = "f_handler"
  /\ stack' = [stack EXCEPT ![Depth].armed = TRUE]
  /\ handler' = Depth
  /\ funcnest' = funcnest + 1
  /\ IF funcnest + 1 > FuncLimit THEN RaiseError
                                 ELSE mode' = "run" /\ UNCHANGED <<exception, itr>>
  /\ UNCHANGED <<skp, loopnest, dot_funcnest, redirs, files, lcl, bnd>>

\* Mutant: the caller's parameters are not put back.
FuncReturnsKeepsParams ==
  /\ mode = "ret" /\ Depth > 0 /\ Inner.kind = "func"
  /\ funcnest' = funcnest - 1
  /\ PopLocals(Inner.localvars)
  /\ handler' = Inner.handler
  /\ redirs' = Pop(redirs)
  /\ stack' = [stack EXCEPT ![Depth].armed = FALSE]
  /\ mode' = "f_done"
  /\ UNCHANGED <<params, exception, skp, loopnest, dot_funcnest, files, itr, bnd>>

\* The body is done: all is restored before INTON.
FuncReturns ==
  /\ mode = "ret" /\ Depth > 0 /\ Inner.kind = "func"
  /\ funcnest' = funcnest - 1
  /\ PopLocals(Inner.localvars)
  /\ params' = Inner.params
  /\ handler' = Inner.handler
  /\ redirs' = Pop(redirs)
  /\ stack' = [stack EXCEPT ![Depth].armed = FALSE]
  /\ mode' = "f_done"
  /\ UNCHANGED <<exception, skp, loopnest, dot_funcnest, files, itr, bnd>>

\* Mutant: the nesting level is counted down once more.
FuncDoneTwice ==
  /\ mode = "f_done"
  /\ IF evalskip = "func"
     THEN evalskip' = "none" /\ skipcount' = 0 /\ UNCHANGED aim
     ELSE UNCHANGED skp
  /\ stack' = Pop(stack)
  /\ funcnest' = funcnest - 1
  /\ mode' = "ret"
  /\ UNCHANGED <<handler, exception, loopnest, dot_funcnest, redirs, files, lcl,
                 itr, bnd>>

\* After INTON: the return has arrived.
FuncDone ==
  /\ mode = "f_done"
  /\ IF evalskip = "func"
     THEN evalskip' = "none" /\ skipcount' = 0 /\ UNCHANGED aim
     ELSE UNCHANGED skp
  /\ stack' = Pop(stack)
  /\ mode' = "ret"
  /\ UNCHANGED <<handler, exception, nst, redirs, files, lcl, itr, bnd>>

-----------------------------------------------------------------------------
(* Compound commands with redirections.                                    *)

RedirBegin ==
  /\ NewConstruct("redir")
  /\ stack' = Armed("redir", FALSE)
  /\ handler' = Depth + 1
  /\ redirs' = Append(redirs, Depth + 1)
  /\ UNCHANGED <<mode, exception, skp, nst, files, lcl, itr>>

\* A redirection fails: evalredir returns with its own INTOFF and that of
\* exverror still counted.
RedirFails ==
  /\ WithBadRedirs /\ NewConstruct("redir")
  /\ suppressint' = suppressint + 2 /\ intpending' = FALSE
  /\ mode' = "ret"
  /\ UNCHANGED <<stack, handler, exception, skp, nst, redirs, files, lcl>>

\* Mutant: the handler of evalredir outlives it.
RedirReturnsKeepsHandler ==
  /\ mode = "ret" /\ Depth > 0 /\ Inner.kind = "redir"
  /\ redirs' = Pop(redirs)
  /\ stack' = Pop(stack)
  /\ UNCHANGED <<handler, mode, exception, skp, nst, files, lcl, itr, bnd>>

RedirReturns ==
  /\ mode = "ret" /\ Depth > 0 /\ Inner.kind = "redir"
  /\ handler' = Inner.handler
  /\ redirs' = Pop(redirs)
  /\ stack' = Pop(stack)
  /\ UNCHANGED <<mode, exception, skp, nst, files, lcl, itr, bnd>>

-----------------------------------------------------------------------------
(* eval and the dot command.                                               *)

BuiltinBegin(kind, special) ==
  /\ NewConstruct(kind)
  /\ special \/ WithCommand
  /\ stack' = Armed(kind, special)
  /\ handler' = Depth + 1
  /\ redirs' = Append(redirs, Depth + 1)
  /\ files' = files + 1
  /\ dot_funcnest' = IF kind = "dot" THEN funcnest + 1 ELSE dot_funcnest
  /\ UNCHANGED <<mode, exception, skp, loopnest, funcnest, lcl, itr>>

\* The end of the string or the file, and of the builtin.
BuiltinEnd ==
  /\ files' = files - 1
  /\ handler' = Inner.handler
  /\ redirs' = Pop(redirs)
  /\ stack' = Pop(stack)
  /\ UNCHANGED mode

MoreInput ==
  UNCHANGED <<files, handler, redirs, stack>> /\ mode' = "run"

\* Mutant: evalstring reads on while commands are skipped.
EvalReturnsReadsOn ==
  /\ mode = "ret" /\ Depth > 0 /\ Inner.kind = "eval"
  /\ BuiltinEnd \/ MoreInput
  /\ UNCHANGED <<exception, skp, nst, lcl, itr, bnd>>

\* A command of an eval is done: evalstring stops when commands are skipped.
EvalReturns ==
  /\ mode = "ret" /\ Depth > 0 /\ Inner.kind = "eval"
  /\ IF evalskip = "none" THEN BuiltinEnd \/ MoreInput ELSE BuiltinEnd
  /\ UNCHANGED <<exception, skp, nst, lcl, itr, bnd>>

\* Mutant: cmdloop leaves SKIPFILE to its caller.
DotReturnsSkipping ==
  /\ mode = "ret" /\ Depth > 0 /\ Inner.kind = "dot"
  /\ UNCHANGED skp
  /\ IF evalskip = "none"
     THEN \/ BuiltinEnd /\ dot_funcnest' = Inner.dot
          \/ MoreInput /\ UNCHANGED dot_funcnest
     ELSE BuiltinEnd /\ dot_funcnest' = Inner.dot
  /\ UNCHANGED <<exception, loopnest, funcnest, lcl, itr, bnd>>

\* A command of a dot file is done: cmdloop(0) looks at the skip state.
DotReturns ==
  /\ mode = "ret" /\ Depth > 0 /\ Inner.kind = "dot"
  /\ IF evalskip = "file"
     THEN evalskip' = "none" /\ skipcount' = 0 /\ UNCHANGED aim
     ELSE UNCHANGED skp
  /\ IF evalskip = "none"
     THEN \/ BuiltinEnd /\ dot_funcnest' = Inner.dot
          \/ MoreInput /\ UNCHANGED dot_funcnest
     ELSE BuiltinEnd /\ dot_funcnest' = Inner.dot
  /\ UNCHANGED <<exception, loopnest, funcnest, lcl, itr, bnd>>

-----------------------------------------------------------------------------
(* Trap actions, and the top level.                                        *)

\* evaltree finds a pending signal when a command is done: dotrap saves the
\* skip state and calls evalstring, but does not stop the skipping.
TrapBegin ==
  /\ mode = "ret" /\ Depth < MaxDepth /\ ntraps < MaxTraps
  /\ ntraps' = ntraps + 1
  /\ stack' = Begin("trap", FALSE)
  /\ files' = files + 1
  /\ mode' = "run"
  /\ UNCHANGED <<handler, exception, skp, nst, redirs, lcl, itr, ncmds, nints>>

TrapEnd ==
  /\ files' = files - 1
  /\ stack' = Pop(stack)
  /\ IF evalskip = "none" \/ Inner.skip[1] # "none"
     THEN /\ evalskip' = Inner.skip[1] /\ skipcount' = Inner.skip[2]
          /\ aim' = Inner.skip[3]
     ELSE UNCHANGED skp
  /\ UNCHANGED mode

TrapReturns ==
  /\ mode = "ret" /\ Depth > 0 /\ Inner.kind = "trap"
  /\ \/ TrapEnd
     \/ evalskip = "none" /\ mode' = "run" /\ UNCHANGED <<files, stack, skp>>
  /\ UNCHANGED <<handler, exception, nst, redirs, lcl, itr, bnd>>

\* cmdloop(1) has evaluated a command: any skipping ends the shell.
TopReturns ==
  /\ mode = "ret" /\ Depth = 0
  /\ mode' = IF evalskip = "none" THEN "run" ELSE "dead"
  /\ UNCHANGED <<stack, handler, exception, skp, nst, redirs, files, lcl, itr, bnd>>

-----------------------------------------------------------------------------
(* The specification.                                                      *)

Init ==
  /\ stack = <<>> /\ mode = "run" /\ handler = 0 /\ exception = "none"
  /\ evalskip = "none" /\ skipcount = 0 /\ aim = 0
  /\ loopnest = 0 /\ funcnest = 0 /\ dot_funcnest = 0
  /\ redirs = <<>> /\ files = 0
  /\ params = 0 /\ localvars = 0 /\ shadowed = {}
  /\ suppressint = 0 /\ intpending = FALSE
  /\ ncmds = 0 /\ nints = 0 /\ ntraps = 0

Next ==
  \/ Interrupt
  \/ CatchFunction \/ CatchRedir \/ CatchBuiltin \/ CatchMain
  \/ Builtin \/ External \/ Local
  \/ \E skip \in {"break", "cont"}, n \in 1..2 : Break(skip, n)
  \/ Return
  \/ ExpansionError \/ SpecialError \/ RegularError
  \/ LoopBegin \/ LoopReturns
  \/ FuncBegin \/ FuncRedirFails \/ FuncParams \/ FuncHandler
  \/ FuncReturns \/ FuncDone
  \/ RedirBegin \/ RedirFails \/ RedirReturns
  \/ \E kind \in {"eval", "dot"}, special \in BOOLEAN : BuiltinBegin(kind, special)
  \/ EvalReturns \/ DotReturns
  \/ TrapBegin \/ TrapReturns \/ TopReturns

Spec == Init /\ [][Next]_vars

-----------------------------------------------------------------------------
(* Properties.                                                             *)

FrameKinds == {"loop", "func", "redir", "eval", "dot", "trap"}
Skips == {"none", "break", "cont", "func", "file"}
Modes == {"run", "ret", "exc", "f_params", "f_handler", "f_done", "dead"}

Frames ==
  [kind : FrameKinds, special : BOOLEAN, armed : BOOLEAN, handler : 0..MaxDepth,
   files : Nat, params : 0..MaxDepth, localvars : 0..MaxDepth, dot : Nat,
   skip : Skips \X Nat \X (0..MaxDepth)]

\* Every variable stays in its range; the nesting counters never go negative.
TypeOK ==
  /\ stack \in Seq(Frames) /\ Len(stack) <= MaxDepth
  /\ mode \in Modes /\ handler \in 0..MaxDepth
  /\ exception \in {"none", "ERROR", "INT"}
  /\ evalskip \in Skips /\ skipcount \in Nat /\ aim \in 0..MaxDepth
  /\ loopnest \in Nat /\ funcnest \in Nat /\ dot_funcnest \in Nat
  /\ redirs \in Seq(1..(MaxDepth + 1)) /\ files \in Nat
  /\ params \in 0..MaxDepth /\ localvars \in 0..MaxDepth
  /\ shadowed \subseteq 1..MaxDepth
  /\ suppressint \in Nat /\ intpending \in BOOLEAN
  /\ ncmds \in 0..MaxCmds /\ nints \in 0..MaxInts /\ ntraps \in 0..MaxTraps

\* No longjmp goes to a frame that has returned: "handler" and the saved
\* handlers lead through all the frames that called setjmp, innermost first.
HandlerLive ==
  TypeOK /\
  LET armed(n) == Innermost({i \in 1..n : stack[i].armed})
  IN /\ handler = armed(Depth)
     /\ \A i \in 1..Depth : stack[i].armed => stack[i].handler = armed(i - 1)

\* The counters break, continue and return go by are those of the constructs
\* being evaluated, whatever was unwound before.
CountersExact ==
  mode = "run" =>
    /\ loopnest = Cardinality(FramesOf({"loop"}))
    /\ funcnest = Cardinality(FramesOf({"func"}))
    /\ LET dot == Innermost(FramesOf({"dot"}))
       IN dot_funcnest = IF dot = 0 THEN 0
                         ELSE 1 + Cardinality({i \in FramesOf({"func"}) : i < dot})

\* The redirections in effect are those of the constructs being evaluated, each
\* once, the innermost last.
RedirsExact ==
  mode = "run" =>
    /\ {redirs[k] : k \in 1..Len(redirs)} = FramesOf({"func", "redir", "eval", "dot"})
    /\ \A k, l \in 1..Len(redirs) : k < l => redirs[k] < redirs[l]

\* Commands are read from the string or file of the innermost eval, dot or
\* trap action, and at the prompt from the terminal.
FilesExact ==
  mode = "run" => files = Cardinality(FramesOf({"eval", "dot", "trap"}))

\* The positional parameters are those of the function being evaluated.
ParamsExact == mode = "run" => params = Innermost(FramesOf({"func"}))

\* A variable is hidden only by a function that is being evaluated.
LocalsExact ==
  mode = "run" => /\ shadowed \subseteq FramesOf({"func"})
                  /\ localvars = Innermost(FramesOf({"func"}))

\* Between commands interrupts are not held back.
InterruptsOn == mode = "run" => suppressint = 0

\* What an exception, a return or a break leaves behind is undone: all that a
\* construct puts in place goes with it, in whatever way it is left.
StateRestored == RedirsExact /\ FilesExact /\ ParamsExact /\ LocalsExact /\ InterruptsOn

\* No command is evaluated while commands are being skipped.
SkippedNotRun == mode = "run" => evalskip = "none"

\* A break, continue or return stays within the construct it is meant for, no
\* command runs on the way, ...
SkipInScope ==
  /\ SkippedNotRun
  /\ evalskip # "none" /\ mode \in {"ret", "f_done"} => aim \in 1..Depth

\* ... and that construct is where the skipping stops.
SkipLands ==
  [][evalskip # "none" /\ evalskip' = "none" /\ mode \in {"ret", "f_done"}
       => Depth = aim]_vars

\* A trap action is evaluated to its end, whatever the command before it was.
TrapRunsWhole ==
  mode = "ret" /\ Depth > 0 /\ Inner.kind = "trap"
    => evalskip = "none" \/ Inner.skip[1] = "none"

\* What ash.1 says of return outside of a function or dot file: a no-op.
ReturnNoOp ==
  ~(mode = "ret" /\ stack = <<>> /\ evalskip \in {"func", "file"})
=============================================================================
