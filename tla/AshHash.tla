------------------------------ MODULE AshHash ------------------------------
(***************************************************************************)
(* The command table of ash (exec.c): find_command, which remembers where  *)
(* on PATH a command was found, and the operations that must forget it     *)
(* again: changepath, hashcd, hash, defun, unset -f.                       *)
(*                                                                         *)
(* The operators work on a record s that has, among others, the fields     *)
(*   cmdtable    what is known of each command                             *)
(*   builtinloc  the place of %builtin on PATH, or -1                      *)
(*   cwd         the current directory                                     *)
(*   funcs       the reference count of each function body, 0 when free    *)
(* and return it changed.  A PATH is the sequence of its components; the   *)
(* empty string is a PATH of one component, the current directory.         *)
(***************************************************************************)
EXTENDS Integers, FiniteSets, SequencesExt, FiniteSetsExt

CONSTANTS
  Commands,   \* names of commands
  Builtins,   \* those that builtins.c knows
  Files,      \* pairs <<directory, command>>: the programs that exist
  MaxFuncs    \* bound: bodies of functions that exist at a time

ASSUME HashConstants ==
  /\ Builtins \subseteq Commands
  /\ MaxFuncs \in Nat \ {0}

FuncIds == 1 .. MaxFuncs    \* where the body of a function may be kept

Here == "."                 \* a component relative to the current directory
BuiltinMark == "%builtin"   \* a component that stands for the builtins

CmdTypes == {"none", "normal", "builtin", "function"}

\* struct tblentry.  "param" is the union of the place on PATH of a program
\* and the body of a function.
NoEntry == [cmdtype |-> "none", param |-> 0, rehash |-> FALSE]

\* Positions of a PATH are counted from 0.
Component(path, i) == path[i + 1]
Positions(path) == 0 .. Len(path) - 1

BuiltinPos(path) ==
  LET at == {i \in Positions(path) : Component(path, i) = BuiltinMark}
  IN IF at = {} THEN -1 ELSE Min(at)

Exists(s, dir, c) == <<IF dir = Here THEN s.cwd ELSE dir, c>> \in Files

----------------------------------------------------------------------------
\* reffunc and unreffunc; function bodies are counted from copyfunc on.
Unref(s, f) == [s EXCEPT !.funcs[f] = Max({@ - 1, 0})]
Ref(s, f) == [s EXCEPT !.funcs[f] = @ + 1]

DeleteEntry(s, c) == [s EXCEPT !.cmdtable[c] = NoEntry]

\* clearcmdentry: forget what was found at or behind a place of PATH.
ClearCmdEntry(s, first) ==
  [s EXCEPT !.cmdtable =
     [c \in Commands |->
        LET e == s.cmdtable[c]
        IN IF \/ e.cmdtype = "normal" /\ e.param >= first
              \/ e.cmdtype = "builtin" /\ s.builtinloc >= first
           THEN NoEntry ELSE e]]

\* changepath: called just before PATH is changed from old to new.  The first
\* place where they differ is the number of components they share.
ChangePath(s, old, new) ==
  LET bltin == BuiltinPos(new)
      loc == IF s.builtinloc < 0 /\ bltin >= 0 THEN bltin ELSE s.builtinloc
      shared == IF old = new THEN 9999 ELSE Len(LongestCommonPrefix({old, new}))
      first == IF loc >= 0 /\ bltin < 0 THEN 0 ELSE shared
  IN [ClearCmdEntry([s EXCEPT !.builtinloc = loc], first)
        EXCEPT !.builtinloc = bltin]

\* hashcd: after cd every place found through PATH is in doubt.
HashCd(s) ==
  [s EXCEPT !.cmdtable =
     [c \in Commands |->
        LET e == s.cmdtable[c]
        IN IF \/ e.cmdtype = "normal"
              \/ e.cmdtype = "builtin" /\ s.builtinloc >= 0
           THEN [e EXCEPT !.rehash = TRUE] ELSE e]]

\* defun and addcmdentry: the entry of the command is reused, its mark rehash
\* with it.
Defun(s, c, f) ==
  LET e == s.cmdtable[c]
      s1 == IF e.cmdtype = "function" THEN Unref(s, e.param) ELSE s
  IN [s1 EXCEPT !.funcs[f] = 1,
                !.cmdtable[c] = [e EXCEPT !.cmdtype = "function", !.param = f]]

UnsetFunc(s, c) ==
  LET e == s.cmdtable[c]
  IN IF e.cmdtype = "function" THEN DeleteEntry(Unref(s, e.param), c) ELSE s

----------------------------------------------------------------------------
\* The search of find_command along path.  prev is the place where the
\* command was found before: what is absolute up to there is not looked at
\* again, and the place itself is taken for good.
Found(s, c, path, prev) ==
  LET Skipped(i) == Component(path, i) \notin {Here, BuiltinMark} /\ i <= prev
      hits == {i \in Positions(path) :
                 \/ Component(path, i) = BuiltinMark /\ c \in Builtins
                 \/ Component(path, i) # BuiltinMark /\ Skipped(i) /\ i = prev
                 \/ /\ Component(path, i) # BuiltinMark
                    /\ ~Skipped(i)
                    /\ Exists(s, Component(path, i), c)}
  IN IF hits = {} THEN -1 ELSE Min(hits)

\* find_command.  alt: path is not the value of PATH (DO_ALTPATH).  nofunc:
\* functions are not wanted (DO_NOFUNC).  garbage is what the place on PATH of
\* an entry reads as when the entry holds a function.  The result is the new
\* s, with what was found in s.entry.
FindCommand(s, c, path, alt, nofunc, garbage) ==
  LET pathbltin == IF alt THEN BuiltinPos(path) >= 0 ELSE s.builtinloc >= 0
      known == s.cmdtable[c]
      usable == /\ known.cmdtype # "none"
                /\ known.cmdtype = "normal" => ~alt
                /\ known.cmdtype = "function" => ~nofunc
                /\ known.cmdtype = "builtin" =>
                     ~(alt /\ pathbltin) /\ s.builtinloc < 0
      prev == IF ~usable THEN -1
              ELSE CASE known.cmdtype = "builtin" -> s.builtinloc
                     [] known.cmdtype = "function" -> garbage
                     [] OTHER -> known.param
      at == Found(s, c, path, prev)
      isbltin == \/ ~pathbltin /\ c \in Builtins
                 \/ at >= 0 /\ Component(path, at) = BuiltinMark
      BuiltinSuccess ==
        LET new == [known EXCEPT !.cmdtype = "builtin", !.param = 0,
                                 !.rehash = FALSE]
        IN IF alt \/ known.cmdtype = "function" THEN [s EXCEPT !.entry = new]
           ELSE [s EXCEPT !.entry = new, !.cmdtable[c] = new]
      NormalSuccess ==
        LET new == [known EXCEPT !.cmdtype = "normal", !.param = at,
                                 !.rehash = FALSE]
        IN IF alt THEN [s EXCEPT !.entry = new]
           ELSE [s EXCEPT !.entry = new, !.cmdtable[c] = new]
      Unchanged ==
        LET new == [known EXCEPT !.rehash = FALSE]
        IN [s EXCEPT !.entry = new, !.cmdtable[c] = new]
      Failed == [(IF usable THEN DeleteEntry(s, c) ELSE s) EXCEPT !.entry = NoEntry]
  IN IF usable /\ ~known.rehash THEN [s EXCEPT !.entry = known]
     ELSE CASE isbltin -> BuiltinSuccess
            [] ~isbltin /\ at < 0 -> Failed
            [] ~isbltin /\ at >= 0 /\ at = prev /\ Component(path, at) # Here -> Unchanged
            [] OTHER -> NormalSuccess

----------------------------------------------------------------------------
\* What a command name means when nothing has been remembered: a function, a
\* builtin where PATH leaves the builtins their usual place, the first hit on
\* PATH otherwise.
Fresh(s, c, path) ==
  LET at == Found(s, c, path, -1)
      isbltin == \/ BuiltinPos(path) < 0 /\ c \in Builtins
                 \/ at >= 0 /\ Component(path, at) = BuiltinMark
  IN CASE s.cmdtable[c].cmdtype = "function" -> <<"function", s.cmdtable[c].param>>
       [] s.cmdtable[c].cmdtype # "function" /\ isbltin -> <<"builtin", 0>>
       [] OTHER -> IF at < 0 THEN <<"none", 0>> ELSE <<"normal", at>>
=============================================================================
