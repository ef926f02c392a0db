------------------------------ MODULE AshVar ------------------------------
(***************************************************************************)
(* Shell variables (var.c): setting and unsetting them, their attributes,  *)
(* local variables and what poplocalvars gives back, and who owns the text *)
(* a variable points to.                                                   *)
(*                                                                         *)
(* The operators work on a record s with the fields of AshHash and         *)
(*   vartab   each variable: its text and its flags                        *)
(*   texts    what each text in the heap holds                             *)
(*   frames   one record per function being run (the first: none), with    *)
(*            its list of saved variables, the newest last                 *)
(*   aflag    the option allexport                                         *)
(*   err      whether an error has been raised                             *)
(***************************************************************************)
EXTENDS AshHash

CONSTANTS
  Vars,       \* names of variables; "PATH" is one of them
  MaxTexts    \* bound: texts that exist at a time

ASSUME VarConstants ==
  /\ "PATH" \in Vars /\ "-" \notin Vars
  /\ MaxTexts \in Nat \ {0}

TextIds == 1 .. MaxTexts    \* where a text may be kept

Empty == <<Here>>        \* the empty string (as a PATH: the current directory)
Free == <<"(free)">>           \* a place of the heap that nobody uses
Freed == <<"(freed)">>         \* one that was freed while something points to it

Flags == {"VUNSET", "VEXPORT", "VREADONLY", "VNOEXPORT", "VSTRFIXED", "VTEXTFIXED"}
NoVar == [text |-> 0, flags |-> {}]

PathVal(s) == s.texts[s.vartab["PATH"].text]
IsSet(s, v) == s.vartab[v] # NoVar /\ "VUNSET" \notin s.vartab[v].flags

\* ckmalloc and ckfree for a text.
NewText(s) == Min({t \in TextIds : s.texts[t] = Free})
FreeText(s, t) == [s EXCEPT !.texts[t] = Freed]
FreeUnlessFixed(s, x) ==
  IF "VTEXTFIXED" \in x.flags THEN s ELSE FreeText(s, x.text)

----------------------------------------------------------------------------
FlagsAfterAll(old, given) ==
  (old \ {"VTEXTFIXED", "VUNSET"}) \cup given

\* The flags of a variable after an assignment with the flags given.
FlagsAfter(old, given) ==
  LET kept == (old \ {"VTEXTFIXED", "VUNSET"})
                \ ((IF "VNOEXPORT" \in given THEN {"VEXPORT"} ELSE {}) \cup
                   (IF "VDOEXPORT" \in given THEN {"VNOEXPORT"} ELSE {}))
  IN kept \cup (given \ ({"VDOEXPORT"} \cup
                          (IF "VNOEXPORT" \in kept THEN {"VEXPORT"} ELSE {})))

\* setvareq.  The function of PATH sees the new value while the old one is
\* still in the table.
SetVarEq(s, v, val, given) ==
  LET exp == IF s.aflag /\ "VNOEXPORT" \notin given
             THEN given \cup {"VEXPORT"} ELSE given
      vp == s.vartab[v]
      t == NewText(s)
      called == IF v = "PATH" THEN ChangePath(s, PathVal(s), val) ELSE s
  IN IF vp = NoVar
     THEN [s EXCEPT !.texts[t] = val,
                    !.vartab[v] = [text |-> t, flags |-> exp \ {"VDOEXPORT"}]]
     ELSE IF "VREADONLY" \in vp.flags THEN [s EXCEPT !.err = TRUE]
     ELSE [FreeUnlessFixed(called, vp) EXCEPT
             !.texts[t] = val,
             !.vartab[v] = [text |-> t, flags |-> FlagsAfter(vp.flags, exp)]]

\* setvar without a value.
SetVarUnset(s, v, given) == SetVarEq(s, v, Empty, given \cup {"VUNSET"})

\* unsetvar; how is {}, {"e"} (unexport only) or {"x"} (keep the export).
UnsetVar(s, v, how) ==
  LET vp == s.vartab[v]
      s1 == IF s.texts[vp.text] # Empty THEN SetVarEq(s, v, Empty, {}) ELSE s
      flags == (s1.vartab[v].flags \ (IF "x" \in how THEN {} ELSE {"VEXPORT"}))
                 \cup {"VUNSET"}
  IN IF vp = NoVar \/ ("VREADONLY" \in vp.flags /\ "e" \notin how) THEN s
     ELSE IF "e" \in how THEN [s EXCEPT !.vartab[v].flags = @ \ {"VEXPORT"}]
     ELSE IF flags \cap {"VEXPORT", "VSTRFIXED", "VREADONLY", "VNOEXPORT"} = {}
     THEN [FreeUnlessFixed(s1, s1.vartab[v]) EXCEPT !.vartab[v] = NoVar]
     ELSE [s1 EXCEPT !.vartab[v].flags = flags]

\* exportcmd for one name; flag is what the command is about, unexport its
\* option -n, val the value given with the name, if any.
ExportCmd(s, v, flag, unexport, val) ==
  LET vp == s.vartab[v]
      refused == flag = "VEXPORT" /\ "VNOEXPORT" \in vp.flags
      flags == IF unexport THEN vp.flags \ {flag}
               ELSE IF refused THEN vp.flags
               ELSE (vp.flags \ (IF flag = "VNOEXPORT" THEN {"VEXPORT"} ELSE {}))
                      \cup (IF val = {} THEN {flag} ELSE {})
      s1 == IF vp = NoVar THEN s ELSE [s EXCEPT !.vartab[v].flags = flags]
  IN IF val # {} THEN SetVarEq(s1, v, CHOOSE x \in val : TRUE, {flag})
     ELSE IF vp = NoVar /\ ~unexport THEN SetVarUnset(s, v, {flag})
     ELSE s1

----------------------------------------------------------------------------
\* The list of saved variables of the function being run.
Top(s) == Len(s.frames)
Saved(v, text, flags, aflag) ==
  [var |-> v, text |-> text, flags |-> flags, aflag |-> aflag]
PushLocal(s, lvp) == [s EXCEPT !.frames[Top(s)].localvars = Append(@, lvp)]

\* mklocal for "-": the options.
MkLocalOptions(s) == PushLocal(s, Saved("-", 0, {}, s.aflag))

LocalFlagsOnly(old) == old \cup {"VSTRFIXED"}

\* What mklocal does to the flags of a variable that exists.
LocalFlags(old) == old \cup {"VSTRFIXED", "VTEXTFIXED"}

\* mklocal.  The text of an existing variable now belongs to the saved copy:
\* VTEXTFIXED keeps the next assignment from freeing it.  When the value
\* cannot be assigned, what has been changed before stays changed and the
\* copy is lost.
MkLocal(s, v, val, given) ==
  LET vp == s.vartab[v]
      isnew == vp = NoVar
      s0 == IF val # {} THEN SetVarEq(s, v, CHOOSE x \in val : TRUE,
                       {"VSTRFIXED"} \cup (given \ {"VUNSET", "VNOEXPORT"}))
            ELSE SetVarUnset(s, v, {"VSTRFIXED"} \cup (given \ {"VNOEXPORT"}))
      f1 == LocalFlags(vp.flags)
      f2 == IF given \cap {"VDOEXPORT", "VUNSET"} # {} THEN f1 \ {"VNOEXPORT"} ELSE f1
      given2 == IF /\ "VNOEXPORT" \in f2
                   /\ given \cap {"VEXPORT", "VDOEXPORT", "VUNSET"} = {"VEXPORT"}
                THEN given \ {"VEXPORT"} ELSE given
      f3 == IF given2 \cap {"VNOEXPORT", "VUNSET"} # {} THEN f2 \ {"VEXPORT"} ELSE f2
      given3 == given2 \ {"VNOEXPORT"}
      s1 == [s EXCEPT !.vartab[v].flags = f3]
      s2 == IF val # {} THEN SetVarEq(s1, v, CHOOSE x \in val : TRUE, given3 \ {"VUNSET"})
            ELSE IF "VUNSET" \in given3 THEN UnsetVar(s1, v, {})
            ELSE [s1 EXCEPT !.vartab[v].flags = @ \cup (given3 \cap {"VEXPORT"})]
  IN IF isnew THEN PushLocal(s0, Saved(v, 0, {"VUNSET"}, FALSE))
     ELSE IF s2.err THEN s2
     ELSE PushLocal(s2, Saved(v, vp.text, vp.flags, FALSE))

RestoreCallsNone(s, v, text) == s

\* The function of a variable is called when poplocalvars restores it, too.
RestoreCalls(s, v, text) ==
  IF v = "PATH" THEN ChangePath(s, PathVal(s), s.texts[text]) ELSE s

\* poplocalvars for one saved variable: the options, a variable that was not
\* set (and is not one of the shell's own), any other.
PopLocal(s, lvp) ==
  LET v == lvp.var
      vp == s.vartab[v]
      called == RestoreCalls(s, v, lvp.text)
  IN CASE v = "-" -> [s EXCEPT !.aflag = lvp.aflag]
       [] v # "-" /\ lvp.flags \cap {"VUNSET", "VSTRFIXED"} = {"VUNSET"} ->
            UnsetVar(s, v, {})
       [] OTHER -> [FreeUnlessFixed(called, vp) EXCEPT
                      !.vartab[v] = [text |-> lvp.text, flags |-> lvp.flags]]

PopLocalVarsOldestFirst(s) ==
  [FoldLeft(PopLocal, s, s.frames[Top(s)].localvars)
     EXCEPT !.frames[Top(s)].localvars = << >>]

PopLocalVars(s) ==
  [FoldRight(LAMBDA lvp, t : PopLocal(t, lvp), s.frames[Top(s)].localvars, s)
     EXCEPT !.frames[Top(s)].localvars = << >>]

----------------------------------------------------------------------------
\* What points to a text: the table and the saved copies.
TextsInUse(s) ==
  {s.vartab[v].text : v \in Vars} \cup
  UNION {{lvp.text : lvp \in Range(s.frames[i].localvars)} : i \in DOMAIN s.frames}
FuncsInUse(s) ==
  {s.cmdtable[c].param : c \in {c \in Commands : s.cmdtable[c].cmdtype = "function"}}
    \cup {s.frames[i].func : i \in DOMAIN s.frames}

\* What nothing points to is not followed any further.
Swept(s) ==
  [s EXCEPT !.texts = [t \in TextIds |-> IF t \in TextsInUse(s) THEN s.texts[t] ELSE Free],
            !.funcs = [f \in FuncIds |-> IF f \in FuncsInUse(s) THEN s.funcs[f] ELSE 0],
            !.entry = NoEntry]
=============================================================================
