---------------------------- MODULE AshCommands ----------------------------
(***************************************************************************)
(* Commands of ash that use variables and the command table together       *)
(* (evalcommand in eval.c, with var.c and exec.c): an assignment to PATH,  *)
(* for good, for one function or as a local variable, must be followed by  *)
(* the table of the places where commands were found; what a function      *)
(* changes locally comes back when it returns or is unwound by an error.   *)
(*                                                                         *)
(* The shell is interactive: an error that reaches no builtin unwinds all  *)
(* functions and the shell goes on.  Programs and the directories on PATH  *)
(* do not change while they are remembered: that such an entry may be      *)
(* stale is what the manual says of hash.                                  *)
(***************************************************************************)
EXTENDS AshVar

CONSTANTS
  Paths,          \* values of PATH
  Values,         \* values of the other variables
  Dirs,           \* directories to cd to
  Defined,        \* commands for which functions are defined
  Attributes,     \* attributes given with export and readonly,
  PathAttributes, \*   and those given to PATH
  WithCommand,    \* whether "command" is used to get around functions
  MaxFrames,      \* bound: functions being run, plus one
  MaxLocals,      \* bound: variables saved by one function
  MaxPathChanges, \* bound: commands that change variables and options, in the
  MaxChanges,     \*   behaviours that are about PATH and in those that are not
  FarPlace        \* a place behind the end of every PATH

ASSUME CommandsConstants ==
  /\ Empty \in Values /\ Defined \subseteq Commands
  /\ \A x \in UNION {Paths, Values} : x \in Seq(Range(x)) \ {Free, Freed}
  /\ Attributes \cup PathAttributes \subseteq {"VEXPORT", "VREADONLY", "VNOEXPORT"}
  /\ MaxFrames \in Nat \ {0} /\ MaxLocals \in Nat /\ WithCommand \in BOOLEAN
  /\ MaxPathChanges \in Nat /\ MaxChanges \in Nat

VARIABLES vartab, texts, frames, aflag, cmdtable, builtinloc, funcs, cwd, raising,
          focus,    \* bound: the variable that this behaviour is about
          changes   \* bound: how often variables and options have been changed

vars == <<vartab, texts, frames, aflag, cmdtable, builtinloc, funcs, cwd, raising,
          focus, changes>>

St == [vartab |-> vartab, texts |-> texts, frames |-> frames, aflag |-> aflag,
       cmdtable |-> cmdtable, builtinloc |-> builtinloc, funcs |-> funcs,
       cwd |-> cwd, err |-> FALSE, entry |-> NoEntry]

\* There are as many texts as one command may need.
Room == Cardinality({t \in TextIds : texts[t] = Free}) >= MaxLocals + 2

Becomes(s) ==
  \E z \in {Swept(s)} :
    /\ Room
    /\ vartab' = z.vartab /\ texts' = z.texts /\ frames' = z.frames
    /\ aflag' = z.aflag /\ cmdtable' = z.cmdtable
    /\ builtinloc' = z.builtinloc
    /\ funcs' = z.funcs /\ cwd' = z.cwd

\* A builtin command that fails has its error caught by evalcommand.
Caught(s) == ~raising /\ Becomes(s) /\ UNCHANGED raising
\* Elsewhere an error unwinds the functions being run.
Raised(s) == ~raising /\ Becomes(s) /\ raising' = (s.err /\ Len(s.frames) > 1)
\* A special builtin's error is raised again, unless the builtin command ran it.
Special(s) == Caught(s) \/ Raised(s)

\* A command that changes variables or options.
Counted ==
  /\ changes < (IF focus = "PATH" THEN MaxPathChanges ELSE MaxChanges)
  /\ changes' = changes + 1

ValuesOf(v) == IF v = "PATH" THEN Paths ELSE Values
Optional(S) == {{}} \cup {{x} : x \in S}

\* What is read where the entry of a function is taken for that of a program.
Garbage == {-1, FarPlace}

----------------------------------------------------------------------------
\* Variables.
Assign(v) ==
  Counted /\ \E val \in ValuesOf(v) : Raised(SetVarEq(St, v, val, {}))

Export(v) ==
  Counted /\ \E flag \in (IF v = "PATH" THEN PathAttributes ELSE Attributes), unexport \in BOOLEAN, val \in Optional(ValuesOf(v)) :
    /\ unexport => flag = "VEXPORT"
    /\ Special(ExportCmd(St, v, flag, unexport, val))

Unset(v) == Counted /\ \E how \in {{}, {"e"}, {"x"}} : Special(UnsetVar(St, v, how))

SetOption == Counted /\ Caught([St EXCEPT !.aflag = ~@])

\* local, in a function.  With -N the variable starts unset, -x exports it.
Local(v) ==
  /\ Counted /\ Len(frames) > 1 /\ Len(frames[Len(frames)].localvars) < MaxLocals
  /\ \E given \in SUBSET {"VUNSET", "VEXPORT"}, val \in Optional(ValuesOf(v)) :
       Caught(MkLocal(St, v, val, given))

LocalOptions ==
  /\ Counted /\ Len(frames) > 1 /\ Len(frames[Len(frames)].localvars) < MaxLocals
  /\ Caught(MkLocalOptions(St))

----------------------------------------------------------------------------
\* Functions.  The body of the one being run is counted once more.
DefineFunction(c) ==
  /\ \E f \in FuncIds : funcs[f] = 0
  /\ Caught(Defun(St, c, Min({f \in FuncIds : funcs[f] = 0})))

UndefineFunction(c) == Caught(UnsetFunc(St, c))

Call(s, f) == [Ref(s, f) EXCEPT !.frames = Append(@, [func |-> f, localvars |-> << >>])]

PopFrame(s) ==
  LET s1 == PopLocalVars(Unref(s, s.frames[Top(s)].func))
  IN [s1 EXCEPT !.frames = Front(@)]

Return == Len(frames) > 1 /\ Caught(PopFrame(St))

\* A failed expansion, or an interrupt.
Fail == ~raising /\ Len(frames) > 1 /\ Becomes(St) /\ raising' = TRUE

\* The handler in evalcommand of the function being run; it raises again.
Unwind ==
  /\ raising
  /\ Becomes(PopFrame(St))
  /\ raising' = (Len(frames) > 2)

----------------------------------------------------------------------------
\* evalcommand with a command name.  An assignment to PATH before the name
\* gives the path for the search; before a function it is a local variable,
\* before anything else it is for the child or for the builtin alone.
Lookup(c, nofunc, alt, g) ==
  IF alt = {} THEN FindCommand(St, c, PathVal(St), FALSE, nofunc, g)
  ELSE FindCommand(St, c, CHOOSE p \in alt : TRUE, TRUE, nofunc, g)

Run(c) ==
  \E nofunc \in (IF WithCommand THEN BOOLEAN ELSE {FALSE}), g \in Garbage,
     val \in Optional(ValuesOf(focus)) :
    /\ cmdtable[c].cmdtype # "function" => g = -1
    /\ \E s \in {Lookup(c, nofunc, IF focus = "PATH" THEN val ELSE {}, g)} :
         \/ s.entry.cmdtype # "function" /\ Caught(s)
         \/ /\ s.entry.cmdtype = "function" /\ Len(frames) < MaxFrames
            /\ LET s1 == Call(s, s.entry.param)
               IN Raised(IF val = {} THEN s1
                         ELSE MkLocal(s1, focus, val, {"VDOEXPORT", "VEXPORT"}))

Cd(d) == cwd # d /\ Caught(HashCd([St EXCEPT !.cwd = d]))

HashReset == Caught(ClearCmdEntry(St, 0))

\* hash with a name: forget it and look it up, under a PATH assigned for the
\* time of the command if there is one.
Rehash(s, c, g) ==
  LET e == s.cmdtable[c]
      s1 == IF \/ e.cmdtype = "normal"
               \/ e.cmdtype = "builtin" /\ s.builtinloc >= 0
            THEN DeleteEntry(s, c) ELSE s
  IN FindCommand(s1, c, PathVal(s1), FALSE, FALSE, g)

HashName(c) ==
  \E alt \in Optional(Paths), g \in Garbage :
    /\ cmdtable[c].cmdtype # "function" => g = -1
    /\ LET s1 == [St EXCEPT !.frames = Append(@, [func |-> 0, localvars |-> << >>])]
           s2 == MkLocal(s1, "PATH", alt, {})
           s3 == IF s2.err THEN s2 ELSE PopLocalVars(Rehash(s2, c, g))
       IN Caught(IF alt = {} THEN Rehash(St, c, g) ELSE [s3 EXCEPT !.frames = Front(@)])

----------------------------------------------------------------------------
\* PATH is imported from the environment; no other variable is known.
Init ==
  /\ \E p \in Paths :
       /\ vartab = [v \in Vars |->
            IF v = "PATH" THEN [text |-> 1, flags |-> {"VSTRFIXED", "VEXPORT"}]
            ELSE NoVar]
       /\ texts = [t \in TextIds |-> IF t = 1 THEN p ELSE Free]
       /\ builtinloc = BuiltinPos(p)
  /\ frames = <<[func |-> 0, localvars |-> << >>]>>
  /\ aflag = FALSE /\ raising = FALSE
  /\ changes = 0 /\ focus \in Vars
  /\ cmdtable = [c \in Commands |-> NoEntry]
  /\ funcs = [f \in FuncIds |-> 0]
  /\ cwd \in Dirs
  /\ focus # "PATH" =>
       cwd = (CHOOSE d \in Dirs : TRUE) /\ texts[1] = (CHOOSE p \in Paths : TRUE)

\* Commands other than functions are looked up where PATH may change.
Next ==
  \/ /\ \/ Assign(focus) \/ Export(focus) \/ Unset(focus) \/ Local(focus)
        \/ SetOption \/ LocalOptions
     /\ UNCHANGED focus
  \/ /\ \/ \E c \in Defined : DefineFunction(c) \/ UndefineFunction(c)
        \/ \E c \in Commands : (focus = "PATH" \/ c \in Defined) /\ Run(c)
        \/ \E c \in Commands : focus = "PATH" /\ HashName(c)
        \/ \E d \in Dirs : focus = "PATH" /\ Cd(d)
        \/ focus = "PATH" /\ HashReset
        \/ Return \/ Fail \/ Unwind
     /\ UNCHANGED <<focus, changes>>

Spec == Init /\ [][Next]_vars

----------------------------------------------------------------------------
Texts == UNION {Paths, Values, {Empty}}

TypeOK ==
  /\ vartab \in [Vars -> [text : TextIds \cup {0}, flags : SUBSET Flags]]
  /\ texts \in [TextIds -> Texts \cup {Free, Freed}]
  /\ \A i \in DOMAIN frames :
       /\ frames[i].func \in FuncIds \cup {0}
       /\ frames[i].localvars \in
            Seq([var : Vars \cup {"-"}, text : TextIds \cup {0},
                 flags : SUBSET Flags, aflag : BOOLEAN])
  /\ cmdtable \in [Commands -> [cmdtype : CmdTypes, param : Nat, rehash : BOOLEAN]]
  /\ builtinloc \in Nat \cup {-1} /\ funcs \in [FuncIds -> Nat]
  /\ changes \in 0 .. Max({MaxChanges, MaxPathChanges}) /\ focus \in Vars
  /\ aflag \in BOOLEAN /\ raising \in BOOLEAN /\ cwd \in Dirs

\* Whatever has happened to PATH, the current directory and the table, a name
\* that is no function is found where a search that remembers nothing would
\* find it: on PATH and on any path given for one command.  (changepath and
\* clearcmdentry, hashcd, the search of find_command and its shortcuts.)
HashedRight ==
  TypeOK /\
  \A c \in Commands : cmdtable[c].cmdtype # "function" =>
    \A alt \in Optional(Paths) :
      LET e == Lookup(c, FALSE, alt, -1).entry
          path == IF alt = {} THEN PathVal(St) ELSE CHOOSE p \in alt : TRUE
      IN <<e.cmdtype, e.param>> = Fresh(St, c, path)

\* No variable, saved copy, table entry or running function points to a text
\* or a body that has been freed, and no text is about to be freed for two
\* owners.  (VTEXTFIXED in mklocal and poplocalvars, reffunc in evalcommand.)
NothingDangling ==
  /\ \A t \in TextsInUse(St) \ {0} : texts[t] \notin {Free, Freed}
  /\ \A f \in FuncsInUse(St) \ {0} : funcs[f] > 0
  /\ \A v \in Vars : \A i \in DOMAIN frames : \A j \in DOMAIN frames[i].localvars :
       /\ vartab[v].text # 0 /\ vartab[v].text = frames[i].localvars[j].text
       => v = frames[i].localvars[j].var /\ "VTEXTFIXED" \in vartab[v].flags

\* A function stays defined until it is replaced or undefined: a state without
\* it is reached by unset -f only.  (The manual looks for functions before
\* builtins and programs.)
FunctionsKept ==
  [][\A c \in Commands :
       cmdtable[c].cmdtype = "function" /\ cmdtable'[c].cmdtype # "function"
       => UndefineFunction(c)]_vars

----------------------------------------------------------------------------
\* What the variables are bound to, as ShellScopes sees it; the options are
\* one more name.
Visible == {"VEXPORT", "VREADONLY", "VNOEXPORT"}
NotSet == <<"(unset)">>
Binding(text, flags) ==
  [value |-> IF text = 0 \/ "VUNSET" \in flags THEN NotSet ELSE texts[text],
   attributes |-> flags \cap Visible]
OptionBinding(on) ==
  [value |-> IF on THEN <<"(on)">> ELSE <<"(off)">>, attributes |-> {}]
SavedBinding(lvp) ==
  IF lvp.var = "-" THEN OptionBinding(lvp.aflag) ELSE Binding(lvp.text, lvp.flags)
ScopeOf(localvars) ==
  [n \in {lvp.var : lvp \in Range(localvars)} |->
     SavedBinding(localvars[Min({j \in DOMAIN localvars : localvars[j].var = n})])]

ShellNames == Vars \cup {"-"}
ShellBindings ==
  [value : Texts \cup {NotSet, <<"(on)">>, <<"(off)">>}, attributes : SUBSET Visible]
ShellBound ==
  [n \in ShellNames |-> IF n = "-" THEN OptionBinding(aflag)
                        ELSE Binding(vartab[n].text, vartab[n].flags)]
SavedScopes == [i \in 1 .. Len(frames) - 1 |-> ScopeOf(frames[i + 1].localvars)]

Scopes == INSTANCE ShellScopes WITH
  Names <- ShellNames, NoValue <- NotSet, Bindings <- ShellBindings,
  bound <- ShellBound, scopes <- SavedScopes

\* The list of saved copies, popped one by one, whatever was declared how often,
\* by the prefix of a call, by local or twice, and however the function is
\* left, gives back what ShellScopes promises.  (mklocal, poplocalvars,
\* unsetvar, exportcmd, evalcommand.)
ImplementsScopes == Scopes!Spec

\* What the manual promises without exception: "the previous status (and value)
\* of the variable is returned" when the function returns.
RestoredExactly ==
  [][Len(frames') < Len(frames) =>
       LET old == ScopeOf(frames[Len(frames)].localvars)
       IN \A v \in Vars \cap DOMAIN old :
            Binding(vartab[v].text, vartab[v].flags)' = old[v]]_vars
=============================================================================
