--------------------------- MODULE AshTrapProofs ---------------------------
(***************************************************************************)
(* Proofs about AshTrap, for every number of signals, every assignment of  *)
(* the named signals, every option and every bound.                        *)
(***************************************************************************)
EXTENDS AshTrap, TLAPS

\* Where the process is: in dotrap, and between INTOFF and INTON.
InDotrap == pc \in {"zero", "scan"}
InSection == pc \in {"critical", "tc_assign", "tc_probe", "tc_set", "rs_null", "rs_set",
                     "forked", "clear"}

\* Each activation of dotrap on the C stack and each unit of pendingsigs was paid
\* for by a delivered signal.  Only in "zero", between the call of dotrap and its
\* clearing of pendingsigs, one signal counts for both.  This bounds live by
\* MaxSignals, which savestatus is indexed by.
Nesting ==
  /\ pc \in {"zero", "dead"} => live <= nsent /\ live + pendingsigs <= nsent + 1
  /\ pc \notin {"zero", "dead"} => live + pendingsigs <= nsent

\* What control flow says of the counters: the handler in force was set below
\* every activation of dotrap that is scanning, in_dotrap counts at least the
\* activations there are (a longjmp may leave it too high, never too low), and
\* interrupts are off in the sections that must not be unwound.
Control ==
  /\ phase = "none" => base = 0
  /\ pc = "exit3" => phase = "exittrap"
  /\ InDotrap => live > base
  /\ live <= in_dotrap
  /\ InSection => suppressint >= 1
  /\ Nesting

\* The inductive invariant.  NoTrapForgotten needs InDotrap => live > base, or an
\* unwinding could leave a scan that no frame is in; TrapTableGuarded needs
\* InSection => suppressint >= 1, or an interrupt could leave tc_assign or rs_null.
IInv == TypeOK /\ Control /\ TrapTableGuarded /\ NoTrapForgotten

USE NsigAssumption, FlagAssumption, SetAssumption, BoundAssumption

-----------------------------------------------------------------------------
(* The operators the actions are built from.                               *)

\* setsignal wants one of three dispositions.
LEMMA ActionRange ==
  ASSUME NEW s, NEW tv, NEW inv \in BOOLEAN, NEW root \in BOOLEAN,
         NEW i \in BOOLEAN, NEW m \in BOOLEAN
  PROVE  Action(s, tv, inv, root, i, m) \in {"dfl", "catch", "ign"}
  BY DEF Action

\* ... and does so for every signal.
LEMMA ActionsType ==
  ASSUME NEW t, NEW inv \in BOOLEAN, NEW root \in BOOLEAN,
         NEW i \in BOOLEAN, NEW m \in BOOLEAN
  PROVE  Actions(t, inv, root, i, m) \in [Sigs -> {"dfl", "catch", "ign"}]
  BY ActionRange DEF Actions

\* setsignal keeps sigmode[] and the kernel's table in range.
LEMMA SetSignalsType ==
  ASSUME sigmode \in [Sigs -> Modes], kern \in [Sigs -> Dispositions], NEW S,
         NEW act \in [Sigs -> {"dfl", "catch", "ign"}], SetSignals(S, act)
  PROVE  sigmode' \in [Sigs -> Modes] /\ kern' \in [Sigs -> Dispositions]
  BY DEF SetSignals, ModeAfter, KernAfter, Modes, Dispositions

\* Dropping the parent's traps adds no dangling pointer.
LEMMA DropType ==
  ASSUME trap \in [Conds -> TrapValues]
  PROVE  /\ TrapsForCommand \in [Conds -> TrapValues]
         /\ \A c \in Conds : TrapsForCommand[c] = "freed" => trap[c] = "freed"
  BY DEF TrapsForCommand, FreeTraps, TrapValues

-----------------------------------------------------------------------------
\* The invariant holds when main begins to run commands.
LEMMA InitIInv == Init => IInv
  <1> SUFFICES ASSUME Init PROVE IInv
    OBVIOUS
  <1>1. TblOK
    <2> DEFINE act == Actions(trap, FALSE, TRUE, IflagInit, MflagInit)
    <2>1. act \in [Sigs -> {"dfl", "catch", "ign"}]
      BY ActionsType
    <2>2. trap \in [Conds -> TrapValues] /\ traps_invalid \in BOOLEAN
      BY DEF Init, TrapValues
    <2>3. /\ sigmode = ModeAfter(StartupSignals, act, [s \in Sigs |-> "unknown"])
          /\ kern = KernAfter(StartupSignals, act, [s \in Sigs |-> "unknown"],
                      [s \in Sigs |-> IF s \in EntryIgnored THEN "ign" ELSE "dfl"])
      BY DEF Init
    <2> HIDE DEF act
    <2> QED
      BY <2>1, <2>2, <2>3 DEF TblOK, ModeAfter, KernAfter, Modes, Dispositions
  <1>2. /\ PndOK /\ ItrOK /\ FlgOK
        /\ DtrOK
        /\ StsOK
        /\ ArgOK
    <2>1. PndOK /\ ItrOK /\ FlgOK
      BY DEF Init, PndOK, ItrOK, FlgOK
    <2>2. DtrOK
      BY DEF Init, DtrOK, Conds
    <2>3. StsOK
      BY DEF Init, StsOK, Conds
    <2>4. ArgOK
      BY DEF Init, ArgOK, Conds
    <2> QED
      BY <2>1, <2>2, <2>3, <2>4
  <1>3. CtlOK /\ HdlOK /\ HisOK /\ BndOK
    <2>1. CtlOK
      <3>1. pc \in Places /\ live \in 0..MaxSignals
        BY DEF Init, Places
      <3>2. abandoned \in BOOLEAN
        BY DEF Init
      <3> QED
        BY <3>1, <3>2 DEF Init, CtlOK
    <2>2. HdlOK /\ BndOK
      BY DEF Init, HdlOK, BndOK
    <2>3. HisOK
      BY DEF Init, HisOK
    <2> QED
      BY <2>1, <2>2, <2>3
  <1>4. Control
    BY DEF Init, Control, InDotrap, InSection, Nesting
  <1>5. TrapTableGuarded
    BY DEF Init, TrapTableGuarded
  <1>6. NoTrapForgotten
    BY DEF Init, NoTrapForgotten
  <1> QED
    BY <1>1, <1>2, <1>3, <1>4, <1>5, <1>6 DEF IInv, TypeOK

\* A step that starts outside of the window of trapcmd and frees nothing
\* leaves no dangling pointer.
LEMMA NoDangling ==
  ASSUME TrapTableGuarded, pc \notin {"tc_assign", "rs_null", "dead"},
         \A c \in Conds : trap'[c] = "freed" => trap[c] = "freed"
  PROVE  TrapTableGuarded'
  BY DEF TrapTableGuarded

\* What a longjmp does to the control state.
LEMMA UnwindType ==
  ASSUME CtlOK, HdlOK, NEW e \in {"INT", "ERROR", "EXIT"}, Unwind(e), UNCHANGED hdl
  PROVE  CtlOK' /\ HdlOK'
  <1>1. /\ pc' \in {"handler", "exit2", "exit3"}
        /\ live' = base /\ base' = base /\ phase' = phase
    BY DEF Unwind, HdlOK, hdl
  <1>2. live' \in 0..MaxSignals /\ base' \in 0..live'
    BY <1>1 DEF CtlOK, HdlOK
  <1>3. abandoned' \in BOOLEAN
    BY DEF Unwind
  <1>4. exc' = e /\ outcome' = outcome
    BY DEF Unwind
  <1>5. pc' \in Places
    BY <1>1 DEF Places
  <1> QED
    BY <1>1, <1>2, <1>3, <1>4, <1>5 DEF CtlOK, HdlOK

\* ... and that a longjmp keeps what is known of the activations of dotrap,
\* also when a signal was counted in the same step.
LEMMA UnwindKeeps ==
  ASSUME IInv, pc # "dead", NEW e, Unwind(e), UNCHANGED <<hdl, dtr>>,
         PndOK', \/ pendingsigs' = pendingsigs /\ nsent' = nsent
                 \/ pendingsigs' = pendingsigs /\ nsent' = nsent + 1
                 \/ pendingsigs' = pendingsigs + 1 /\ nsent' = nsent + 1,
         \A s \in Sigs : gotsig'[s] => gotsig[s] \/ pendingsigs' > 0
  PROVE  Control' /\ NoTrapForgotten'
  <1> USE DEF IInv, TypeOK
  <1>0. base + pendingsigs' <= nsent' /\ base <= in_dotrap /\ base \in Nat
    <2>1. /\ live \in Nat /\ base \in Nat /\ base <= live /\ in_dotrap \in Nat
          /\ pendingsigs \in Nat /\ pendingsigs' \in Nat /\ nsent \in Nat
      BY DEF HdlOK, CtlOK, DtrOK, PndOK, BndOK
    <2>2. base + pendingsigs <= nsent
      <3>1. CASE pc = "zero"
        BY <2>1, <3>1 DEF Control, Nesting, InDotrap
      <3>2. CASE pc # "zero"
        BY <2>1, <3>2 DEF Control, Nesting
      <3> QED
        BY <3>1, <3>2
    <2>3. live <= in_dotrap
      BY DEF Control
    <2>4. base + pendingsigs' <= nsent'
      BY <2>1, <2>2
    <2>5. base <= in_dotrap
      BY <2>1, <2>3
    <2> QED
      BY <2>1, <2>4, <2>5
  <1>1. CASE phase = "none"
    <2>1. /\ pc' = "handler" /\ live' = base /\ base' = base /\ phase' = phase
          /\ in_dotrap' = in_dotrap
      BY <1>1 DEF Unwind, hdl, dtr
    <2>2. Control'
      BY <1>0, <2>1 DEF Control, InDotrap, InSection, Nesting
    <2>3. abandoned' <=> (abandoned \/ live > base)
      BY DEF Unwind
    <2>4. NoTrapForgotten'
      BY <1>1, <2>1, <2>3 DEF NoTrapForgotten, WillScan, Control, InDotrap, HdlOK, CtlOK, PndOK
    <2> QED
      BY <2>2, <2>4
  <1>2. CASE phase = "traps"
    <2>1. /\ pc' = "exit2" /\ live' = base /\ base' = base /\ phase' = phase
          /\ in_dotrap' = in_dotrap
      BY <1>2 DEF Unwind, hdl, dtr
    <2>2. Control'
      BY <1>2, <1>0, <2>1 DEF Control, InDotrap, InSection, Nesting
    <2>3. abandoned' <=> (abandoned \/ live > base)
      BY DEF Unwind
    <2>4. NoTrapForgotten'
      BY <1>2, <2>1, <2>3 DEF NoTrapForgotten, WillScan, Control, InDotrap, HdlOK, CtlOK, PndOK
    <2> QED
      BY <2>2, <2>4
  <1>3. CASE phase = "exittrap"
    <2>1. /\ pc' = "exit3" /\ live' = base /\ base' = base /\ phase' = phase
          /\ in_dotrap' = in_dotrap
      BY <1>3 DEF Unwind, hdl, dtr
    <2>2. Control'
      BY <1>3, <1>0, <2>1 DEF Control, InDotrap, InSection, Nesting
    <2>3. NoTrapForgotten'
      BY <2>1 DEF NoTrapForgotten
    <2> QED
      BY <2>2, <2>3
  <1> QED
    BY <1>1, <1>2, <1>3 DEF HdlOK

\* What INTON does outside of dotrap: it goes on at p, or takes the interrupt
\* that was held back.
LEMMA IntonStep ==
  ASSUME IInv, NEW k \in Nat, NEW p \in {"cmd", "check", "reset"}, Inton(k, p),
         pc \notin {"zero", "scan", "exit3", "dead"}, UNCHANGED <<pnd, dtr, hdl, bnd>>
  PROVE  ItrOK' /\ CtlOK' /\ HdlOK' /\ Control' /\ NoTrapForgotten'
  <1> USE DEF IInv, TypeOK
  <1>1. ItrOK'
    BY DEF Inton, TakeInterrupt, ItrOK
  <1>2. CASE pc' = p /\ UNCHANGED <<live, exc, abandoned, outcome>>
    <2>1. CtlOK' /\ HdlOK'
      BY <1>2 DEF CtlOK, HdlOK, hdl, Places
    <2>2. Control'
      BY <1>2 DEF Control, InDotrap, InSection, Nesting, pnd, dtr, hdl, bnd
    <2>3. NoTrapForgotten'
      BY <1>2 DEF NoTrapForgotten, WillScan, pnd, hdl
    <2> QED
      BY <1>1, <2>1, <2>2, <2>3
  <1>3. CASE Unwind("INT")
    <2>1. UNCHANGED hdl /\ UNCHANGED dtr /\ PndOK' /\ UNCHANGED <<pendingsigs, nsent, gotsig>>
      BY DEF pnd, bnd, PndOK
    <2>2. CtlOK' /\ HdlOK'
      BY <1>3, <2>1, UnwindType
    <2>3. Control' /\ NoTrapForgotten'
      BY <1>3, <2>1, UnwindKeeps
    <2> QED
      BY <1>1, <2>2, <2>3
  <1>4. CASE Die("killed")
    <2>1. CtlOK' /\ HdlOK'
      BY <1>4 DEF Die, CtlOK, HdlOK, hdl, Places
    <2>2. Control'
      <3>1. live \in Nat /\ pendingsigs \in Nat /\ nsent \in Nat /\ live + pendingsigs <= nsent
        BY DEF CtlOK, PndOK, BndOK, Control, Nesting
      <3>2. live <= nsent /\ live + pendingsigs <= nsent + 1
        BY <3>1
      <3> QED
        BY <1>4, <3>1, <3>2 DEF Die, Control, InDotrap, InSection, Nesting, pnd, dtr, hdl, bnd
    <2>3. NoTrapForgotten'
      BY <1>4 DEF Die, NoTrapForgotten
    <2> QED
      BY <1>1, <2>1, <2>2, <2>3
  <1> QED
    BY <1>1, <1>2, <1>3, <1>4 DEF Inton, TakeInterrupt, Go

-----------------------------------------------------------------------------
(* One lemma for each action.                                              *)

\* A command that leaves signals alone keeps the invariant.
LEMMA CommandStep == ASSUME IInv, NEW st \in {0, 1}, Command(st) PROVE IInv'
  <1> USE DEF IInv, TypeOK, Command, DropParentTraps, Go
  <1>1. TblOK'
    BY DropType DEF TblOK
  <1>2. StsOK' /\ CtlOK' /\ HdlOK'
    BY DEF StsOK, CtlOK, HdlOK, Places, hdl
  <1>3. PndOK' /\ ItrOK' /\ FlgOK' /\ DtrOK'
    BY DEF PndOK, ItrOK, FlgOK, DtrOK, pnd, itr, flg, dtr
  <1>4. ArgOK' /\ HisOK' /\ BndOK'
    BY DEF ArgOK, HisOK, BndOK, arg, his, bnd
  <1>5. Control'
    BY DEF Control, InDotrap, InSection, Nesting, pnd, itr, dtr, hdl, bnd
  <1>6. TrapTableGuarded'
    BY DropType, NoDangling DEF TblOK
  <1>7. NoTrapForgotten'
    BY DEF NoTrapForgotten, WillScan, pnd, hdl
  <1> QED
    BY <1>1, <1>2, <1>3, <1>4, <1>5, <1>6, <1>7

\* INTOFF keeps the invariant.
LEMMA EnterStep == ASSUME IInv, EnterCritical PROVE IInv'
  <1> USE DEF IInv, TypeOK, EnterCritical, DropParentTraps, Go
  <1>1. TblOK'
    BY DropType DEF TblOK
  <1>2. ItrOK' /\ CtlOK' /\ HdlOK'
    BY DEF ItrOK, CtlOK, HdlOK, Places, hdl
  <1>3. PndOK' /\ FlgOK' /\ DtrOK' /\ StsOK'
    BY DEF PndOK, FlgOK, DtrOK, StsOK, pnd, flg, dtr, sts
  <1>4. ArgOK' /\ HisOK' /\ BndOK'
    BY DEF ArgOK, HisOK, BndOK, arg, his, bnd
  <1>5. Control'
    BY DEF Control, InDotrap, InSection, Nesting, ItrOK, pnd, dtr, hdl, bnd
  <1>6. TrapTableGuarded'
    BY DropType, NoDangling DEF TblOK
  <1>7. NoTrapForgotten'
    BY DEF NoTrapForgotten, WillScan, pnd, hdl
  <1> QED
    BY <1>1, <1>2, <1>3, <1>4, <1>5, <1>6, <1>7

\* INTON keeps the invariant, also when it takes an interrupt.
LEMMA LeaveStep == ASSUME IInv, LeaveCritical PROVE IInv'
  <1> USE DEF IInv, TypeOK, LeaveCritical
  <1>1. ItrOK' /\ CtlOK' /\ HdlOK' /\ Control' /\ NoTrapForgotten'
    <2>1. suppressint - 1 \in Nat
      BY DEF Control, InSection, ItrOK
    <2> QED
      BY <2>1, IntonStep
  <1>2. TblOK' /\ PndOK' /\ FlgOK' /\ DtrOK'
    BY DEF TblOK, PndOK, FlgOK, DtrOK, tbl, pnd, flg, dtr
  <1>3. StsOK' /\ ArgOK' /\ HisOK' /\ BndOK'
    BY DEF StsOK, ArgOK, HisOK, BndOK, sts, arg, his, bnd
  <1>4. TrapTableGuarded'
    BY NoDangling DEF tbl
  <1> QED
    BY <1>1, <1>2, <1>3, <1>4

\* Entering dotrap from evaltree keeps the invariant.
LEMMA CheckStep == ASSUME IInv, CheckPending PROVE IInv'
  <1> USE DEF IInv, TypeOK, CheckPending, Go
  <1>1. CtlOK' /\ HdlOK' /\ DtrOK' /\ Control'
    <2>1. /\ live \in Nat /\ base \in Nat /\ base <= live /\ in_dotrap \in Nat
          /\ pendingsigs \in Nat /\ nsent \in Nat /\ MaxSignals \in Nat
          /\ live <= MaxSignals /\ nsent <= MaxSignals /\ live + pendingsigs <= nsent
      BY DEF CtlOK, HdlOK, DtrOK, PndOK, BndOK, Control, Nesting
    <2>2. CASE pendingsigs > 0
      <3>1. /\ pc' = "zero" /\ live' = live + 1 /\ in_dotrap' = in_dotrap + 1
            /\ UNCHANGED <<exc, abandoned, outcome, last_trapsig, savestatus>>
        BY <2>2
      <3>2. live' \in 0..MaxSignals /\ in_dotrap' \in Nat /\ live' <= nsent
        BY <2>1, <2>2, <3>1
      <3>3. CtlOK'
        BY <3>1, <3>2 DEF CtlOK, Places
      <3>4. HdlOK' /\ DtrOK'
        BY <2>1, <3>1, <3>2 DEF HdlOK, DtrOK, hdl
      <3>5. Control'
        BY <2>1, <3>1, <3>2 DEF Control, InDotrap, InSection, Nesting, pnd, itr, hdl, bnd
      <3> QED
        BY <3>3, <3>4, <3>5
    <2>3. CASE ~(pendingsigs > 0)
      <3>1. pc' = "cmd" /\ UNCHANGED dtr /\ UNCHANGED <<live, exc, abandoned, outcome>>
        BY <2>3
      <3>2. CtlOK' /\ HdlOK' /\ DtrOK'
        BY <3>1 DEF CtlOK, HdlOK, DtrOK, Places, hdl, dtr
      <3>3. Control'
        BY <3>1 DEF Control, InDotrap, InSection, Nesting, pnd, itr, dtr, hdl, bnd
      <3> QED
        BY <3>2, <3>3
    <2> QED
      BY <2>2, <2>3
  <1>2. TblOK' /\ PndOK' /\ ItrOK' /\ FlgOK'
    BY DEF TblOK, PndOK, ItrOK, FlgOK, tbl, pnd, itr, flg
  <1>3. StsOK' /\ ArgOK' /\ HisOK' /\ BndOK'
    BY DEF StsOK, ArgOK, HisOK, BndOK, sts, arg, his, bnd
  <1>4. TrapTableGuarded'
    BY NoDangling DEF tbl
  <1>5. NoTrapForgotten'
    BY DEF NoTrapForgotten, WillScan, PndOK, pnd, hdl
  <1> QED
    BY <1>1, <1>2, <1>3, <1>4, <1>5

\* An error that a builtin catches keeps the invariant.
LEMMA CaughtStep == ASSUME IInv, NEW d \in 0..MaxSignals, CaughtError(d) PROVE IInv'
  <1> USE DEF IInv, TypeOK, CaughtError
  <1>1. TblOK'
    BY DropType DEF DropParentTraps, TblOK, tbl
  <1>2. ItrOK' /\ StsOK' /\ CtlOK' /\ HdlOK'
    <2>1. /\ live' = d /\ d \in Nat /\ base \in Nat /\ base <= d /\ UNCHANGED <<base, phase>>
      BY DEF HdlOK, CtlOK, hdl
    <2>2. HdlOK'
      BY <2>1 DEF HdlOK
    <2>3. ItrOK' /\ StsOK'
      BY DEF ItrOK, StsOK
    <2>4. pc' \in Places /\ abandoned' \in BOOLEAN
      BY DEF Places
    <2>5. CtlOK'
      BY <2>1, <2>4 DEF CtlOK
    <2> QED
      BY <2>2, <2>3, <2>5
  <1>3. PndOK' /\ FlgOK' /\ DtrOK' /\ ArgOK'
    BY DEF PndOK, FlgOK, DtrOK, ArgOK, pnd, flg, dtr, arg
  <1>4. HisOK' /\ BndOK'
    BY DEF HisOK, BndOK, his, bnd
  <1>5. Control'
    BY DEF Control, InDotrap, InSection, Nesting, CtlOK, HdlOK, DtrOK, PndOK, BndOK, pnd, dtr, hdl, bnd
  <1>6. TrapTableGuarded'
    BY DropType, NoDangling DEF DropParentTraps, TblOK, tbl
  <1>7. NoTrapForgotten'
    <2>1. abandoned' <=> (abandoned \/ live > d)
      OBVIOUS
    <2>2. /\ live' = d /\ d \in Nat /\ live \in Nat /\ base \in Nat /\ d <= live
          /\ base' = base /\ pc' = "check" /\ UNCHANGED <<gotsig, pendingsigs>>
      BY DEF HdlOK, CtlOK, hdl, pnd
    <2>3. \A s \in Sigs : gotsig[s] => pendingsigs > 0 \/ live > base \/ abandoned
      BY DEF NoTrapForgotten, WillScan
    <2> QED
      BY <2>1, <2>2, <2>3 DEF NoTrapForgotten, WillScan
  <1> QED
    BY <1>1, <1>2, <1>3, <1>4, <1>5, <1>6, <1>7

\* An error that unwinds to the handler keeps the invariant.
LEMMA UncaughtStep == ASSUME IInv, UncaughtError PROVE IInv'
  <1> USE DEF IInv, TypeOK, UncaughtError
  <1>1. TblOK'
    BY DropType DEF DropParentTraps, TblOK, tbl
  <1>2. ItrOK'
    <2>1. suppressint' \in Nat
      BY DEF ItrOK
    <2>2. intpending' = FALSE
      OBVIOUS
    <2> QED
      BY <2>1, <2>2 DEF ItrOK
  <1>3. CtlOK' /\ HdlOK'
    BY UnwindType
  <1>4. Control' /\ NoTrapForgotten'
    <2>1. UNCHANGED hdl /\ UNCHANGED dtr /\ PndOK' /\ UNCHANGED <<pendingsigs, nsent, gotsig>>
      BY DEF pnd, bnd, PndOK
    <2> QED
      BY <2>1, UnwindKeeps
  <1>5. PndOK' /\ FlgOK' /\ DtrOK' /\ StsOK'
    BY DEF PndOK, FlgOK, DtrOK, StsOK, pnd, flg, dtr, sts
  <1>6. ArgOK' /\ HisOK' /\ BndOK'
    BY DEF ArgOK, HisOK, BndOK, arg, his, bnd
  <1>7. TrapTableGuarded'
    BY DropType, NoDangling DEF DropParentTraps, TblOK, tbl
  <1> QED
    BY <1>1, <1>2, <1>3, <1>4, <1>5, <1>6, <1>7

\* The end of a subshell keeps the invariant.
LEMMA SubshellEndStep == ASSUME IInv, SubshellEnd PROVE IInv'
  <1> USE DEF IInv, TypeOK, SubshellEnd
  <1>1. CtlOK' /\ HdlOK'
    BY UnwindType
  <1>2. Control' /\ NoTrapForgotten'
    <2>1. UNCHANGED hdl /\ UNCHANGED dtr /\ PndOK' /\ UNCHANGED <<pendingsigs, nsent, gotsig>>
      BY DEF pnd, bnd, PndOK
    <2> QED
      BY <2>1, UnwindKeeps
  <1>3. TblOK' /\ PndOK' /\ ItrOK' /\ FlgOK'
    BY DEF TblOK, PndOK, ItrOK, FlgOK, tbl, pnd, itr, flg
  <1>4. DtrOK' /\ StsOK' /\ ArgOK' /\ HisOK'
    BY DEF DtrOK, StsOK, ArgOK, HisOK, dtr, sts, arg, his
  <1>5. BndOK'
    BY DEF BndOK, bnd
  <1>6. TrapTableGuarded'
    BY NoDangling DEF tbl
  <1> QED
    BY <1>1, <1>2, <1>3, <1>4, <1>5, <1>6

\* Clearing pendingsigs keeps the invariant: the scan that follows sees all.
LEMMA ZeroStep == ASSUME IInv, ZeroPending PROVE IInv'
  <1> USE DEF IInv, TypeOK, ZeroPending
  <1>1. PndOK' /\ ArgOK'
    BY DEF PndOK, ArgOK
  <1>2. CtlOK' /\ HdlOK'
    BY DEF CtlOK, HdlOK, Places, hdl
  <1>3. TblOK' /\ ItrOK' /\ FlgOK' /\ DtrOK'
    BY DEF TblOK, ItrOK, FlgOK, DtrOK, tbl, itr, flg, dtr
  <1>4. StsOK' /\ HisOK' /\ BndOK'
    BY DEF StsOK, HisOK, BndOK, sts, his, bnd
  <1>5. Control'
    BY DEF Control, InDotrap, InSection, Nesting, CtlOK, PndOK, BndOK, itr, dtr, hdl, bnd
  <1>6. TrapTableGuarded'
    BY NoDangling DEF tbl
  <1>7. NoTrapForgotten'
    BY DEF NoTrapForgotten, WillScan, Sigs, hdl
  <1> QED
    BY <1>1, <1>2, <1>3, <1>4, <1>5, <1>6, <1>7

\* Passing a signal that was not got keeps the invariant.
LEMMA ScanNextStep == ASSUME IInv, ScanNext PROVE IInv'
  <1> USE DEF IInv, TypeOK, ScanNext
  <1>1. ArgOK'
    BY DEF ArgOK
  <1>2. CtlOK' /\ HdlOK'
    BY DEF CtlOK, HdlOK, ctl, hdl
  <1>3. TblOK' /\ PndOK' /\ ItrOK' /\ FlgOK'
    BY DEF TblOK, PndOK, ItrOK, FlgOK, tbl, pnd, itr, flg
  <1>4. DtrOK' /\ StsOK' /\ HisOK' /\ BndOK'
    BY DEF DtrOK, StsOK, HisOK, BndOK, dtr, sts, his, bnd
  <1>5. Control'
    BY DEF Control, InDotrap, InSection, Nesting, pnd, itr, dtr, ctl, hdl, bnd
  <1>6. TrapTableGuarded'
    BY NoDangling DEF tbl, ctl
  <1>7. NoTrapForgotten'
    <2>1. \A s \in Sigs : gotsig[s] /\ idx <= s => idx + 1 <= s
      BY DEF Sigs, ArgOK
    <2> QED
      BY <2>1 DEF NoTrapForgotten, WillScan, pnd, ctl, hdl
  <1> QED
    BY <1>1, <1>2, <1>3, <1>4, <1>5, <1>6, <1>7

\* Taking a signal and starting its action keeps the invariant.
LEMMA TakeStep == ASSUME IInv, TakeSignal PROVE IInv'
  <1> USE DEF IInv, TypeOK, TakeSignal, Go
  <1>1. PndOK' /\ CtlOK' /\ HdlOK'
    BY DEF PndOK, CtlOK, HdlOK, Places, hdl
  <1>2. DtrOK'
    <2>1. idx \in Conds
      BY DEF ArgOK, Conds, Sigs
    <2>2. savestatus' \in [1..MaxSignals -> Nat]
      BY DEF DtrOK, StsOK
    <2> QED
      BY <2>1, <2>2 DEF DtrOK
  <1>3. HisOK'
    BY DEF HisOK
  <1>4. TblOK' /\ ItrOK' /\ FlgOK' /\ StsOK'
    BY DEF TblOK, ItrOK, FlgOK, StsOK, tbl, itr, flg, sts
  <1>5. ArgOK' /\ BndOK'
    BY DEF ArgOK, BndOK, arg, bnd
  <1>6. Control'
    <2>1. live > base /\ UNCHANGED <<live, base, phase, pendingsigs, nsent, suppressint, in_dotrap>>
      BY DEF Control, InDotrap, itr, hdl, bnd
    <2>2. /\ live \in Nat /\ pendingsigs \in Nat /\ nsent \in Nat /\ live + pendingsigs <= nsent
          /\ (phase = "none" => base = 0) /\ live <= in_dotrap
      BY DEF CtlOK, PndOK, BndOK, Control, Nesting
    <2>3. pc' \in {"zero", "cmd"}
      OBVIOUS
    <2> QED
      BY <2>1, <2>2, <2>3 DEF Control, InDotrap, InSection, Nesting
  <1>7. TrapTableGuarded'
    BY NoDangling DEF tbl
  <1>8. NoTrapForgotten'
    <2>1. \A s \in Sigs : gotsig'[s] => gotsig[s]
      BY DEF PndOK
    <2>2. live > base /\ UNCHANGED <<live, base>>
      BY DEF Control, InDotrap, hdl
    <2> QED
      BY <2>1, <2>2 DEF NoTrapForgotten, WillScan
  <1> QED
    BY <1>1, <1>2, <1>3, <1>4, <1>5, <1>6, <1>7, <1>8

\* The end of an action keeps the invariant: dotrap starts over.
LEMMA ActionDoneStep == ASSUME IInv, ActionDone PROVE IInv'
  <1> USE DEF IInv, TypeOK, ActionDone, Go
  <1>1. StsOK'
    <2>1. live \in 1..MaxSignals
      BY DEF CtlOK, HdlOK
    <2> QED
      BY <2>1 DEF StsOK, DtrOK
  <1>2. CtlOK' /\ HdlOK'
    BY DEF CtlOK, HdlOK, Places, hdl
  <1>3. TblOK' /\ PndOK' /\ ItrOK' /\ FlgOK'
    BY DEF TblOK, PndOK, ItrOK, FlgOK, tbl, pnd, itr, flg
  <1>4. DtrOK' /\ ArgOK' /\ HisOK' /\ BndOK'
    BY DEF DtrOK, ArgOK, HisOK, BndOK, dtr, arg, his, bnd
  <1>5. Control'
    BY DEF Control, InDotrap, InSection, Nesting, CtlOK, PndOK, BndOK, pnd, itr, dtr, hdl, bnd
  <1>6. TrapTableGuarded'
    BY NoDangling DEF tbl
  <1>7. NoTrapForgotten'
    BY DEF NoTrapForgotten, WillScan
  <1> QED
    BY <1>1, <1>2, <1>3, <1>4, <1>5, <1>6, <1>7

\* The end of a scan keeps the invariant.
LEMMA ScanDoneStep == ASSUME IInv, ScanDone PROVE IInv'
  <1> USE DEF IInv, TypeOK, ScanDone
  <1>1. /\ live \in Nat /\ base \in Nat /\ live > base /\ live <= MaxSignals
        /\ in_dotrap \in Nat /\ live <= in_dotrap /\ UNCHANGED <<base, phase>>
    BY DEF Control, InDotrap, CtlOK, HdlOK, DtrOK, BndOK, hdl
  <1>2. DtrOK' /\ HdlOK'
    BY <1>1 DEF DtrOK, HdlOK
  <1>3. CtlOK'
    BY <1>1 DEF CtlOK, Places
  <1>4. TblOK' /\ PndOK' /\ ItrOK' /\ FlgOK'
    BY DEF TblOK, PndOK, ItrOK, FlgOK, tbl, pnd, itr, flg
  <1>5. StsOK' /\ ArgOK' /\ HisOK' /\ BndOK'
    BY DEF StsOK, ArgOK, HisOK, BndOK, sts, arg, his, bnd
  <1>6. Control'
    BY <1>1 DEF Control, InDotrap, InSection, Nesting, PndOK, BndOK, pnd, itr, bnd
  <1>7. TrapTableGuarded'
    BY NoDangling DEF tbl
  <1>8. NoTrapForgotten'
    <2>1. \A s \in Sigs : ~(idx <= s)
      BY DEF Sigs
    <2> QED
      BY <1>1, <2>1 DEF NoTrapForgotten, WillScan, pnd
  <1> QED
    BY <1>1, <1>2, <1>3, <1>4, <1>5, <1>6, <1>7, <1>8

\* The first half of trapcmd keeps the invariant.
LEMMA TrapFreeStep == ASSUME IInv, NEW c \in Conditions, NEW act \in {"null", "empty", "cmd"},
             TrapCmdFree(c, act) PROVE IInv'
  <1> USE DEF IInv, TypeOK, TrapCmdFree, Go
  <1>1. TblOK'
    BY DropType DEF TblOK, TrapValues
  <1>2. ItrOK' /\ CtlOK' /\ HdlOK'
    BY DEF ItrOK, CtlOK, HdlOK, Places, hdl
  <1>3. ArgOK' /\ BndOK'
    BY DEF ArgOK, BndOK
  <1>4. PndOK' /\ FlgOK' /\ DtrOK' /\ StsOK'
    BY DEF PndOK, FlgOK, DtrOK, StsOK, pnd, flg, dtr, sts
  <1>5. HisOK'
    BY DEF HisOK, his
  <1>6. Control'
    BY DEF Control, InDotrap, InSection, Nesting, ItrOK, pnd, dtr, hdl
  <1>7. TrapTableGuarded'
    BY DropType DEF TrapTableGuarded, TblOK
  <1>8. NoTrapForgotten'
    BY DEF NoTrapForgotten, WillScan, pnd, hdl
  <1> QED
    BY <1>1, <1>2, <1>3, <1>4, <1>5, <1>6, <1>7, <1>8

\* Storing the new action closes the window of trapcmd.
LEMMA TrapAssignStep == ASSUME IInv, TrapCmdAssign PROVE IInv'
  <1> USE DEF IInv, TypeOK, TrapCmdAssign, Go
  <1>1. TblOK'
    BY DEF TblOK, ArgOK, TrapValues
  <1>2. CtlOK' /\ HdlOK'
    BY DEF CtlOK, HdlOK, Places, hdl
  <1>3. HisOK'
    BY DEF HisOK, ArgOK
  <1>4. PndOK' /\ ItrOK' /\ FlgOK' /\ DtrOK'
    BY DEF PndOK, ItrOK, FlgOK, DtrOK, pnd, itr, flg, dtr
  <1>5. StsOK' /\ ArgOK' /\ BndOK'
    BY DEF StsOK, ArgOK, BndOK, sts, arg, bnd
  <1>6. Control'
    BY DEF Control, InDotrap, InSection, Nesting, pnd, itr, dtr, hdl, bnd
  <1>7. TrapTableGuarded'
    BY DEF TrapTableGuarded, TblOK, ArgOK
  <1>8. NoTrapForgotten'
    BY DEF NoTrapForgotten, WillScan, pnd, hdl
  <1> QED
    BY <1>1, <1>2, <1>3, <1>4, <1>5, <1>6, <1>7, <1>8

\* The call of sigaction in setsignal keeps the invariant.
LEMMA TrapProbeStep == ASSUME IInv, TrapCmdProbe PROVE IInv'
  <1> USE DEF IInv, TypeOK, TrapCmdProbe, Go
  <1>1. TblOK'
    BY DEF TblOK, Dispositions
  <1>2. CtlOK' /\ HdlOK'
    BY DEF CtlOK, HdlOK, Places, hdl
  <1>3. PndOK' /\ ItrOK' /\ FlgOK' /\ DtrOK'
    BY DEF PndOK, ItrOK, FlgOK, DtrOK, pnd, itr, flg, dtr
  <1>4. StsOK' /\ ArgOK' /\ HisOK' /\ BndOK'
    BY DEF StsOK, ArgOK, HisOK, BndOK, sts, arg, his, bnd
  <1>5. Control'
    BY DEF Control, InDotrap, InSection, Nesting, pnd, itr, dtr, hdl, bnd
  <1>6. TrapTableGuarded'
    BY NoDangling
  <1>7. NoTrapForgotten'
    BY DEF NoTrapForgotten, WillScan, pnd, hdl
  <1> QED
    BY <1>1, <1>2, <1>3, <1>4, <1>5, <1>6, <1>7

\* The end of setsignal, and INTON, keep the invariant.
LEMMA TrapSetStep == ASSUME IInv, TrapCmdSet PROVE IInv'
  <1> USE DEF IInv, TypeOK, TrapCmdSet
  <1>1. TblOK'
    BY ActionsType, SetSignalsType DEF TblOK, FlgOK
  <1>2. ItrOK' /\ CtlOK' /\ HdlOK' /\ Control' /\ NoTrapForgotten'
    <2>1. suppressint - 1 \in Nat
      BY DEF Control, InSection, ItrOK
    <2> QED
      BY <2>1, IntonStep
  <1>3. PndOK' /\ FlgOK' /\ DtrOK' /\ StsOK'
    BY DEF PndOK, FlgOK, DtrOK, StsOK, pnd, flg, dtr, sts
  <1>4. ArgOK' /\ HisOK' /\ BndOK'
    BY DEF ArgOK, HisOK, BndOK, arg, his, bnd
  <1>5. TrapTableGuarded'
    BY NoDangling
  <1> QED
    BY <1>1, <1>2, <1>3, <1>4, <1>5

\* The beginning and the end of trap - keep the invariant.
LEMMA TrapResetStep == ASSUME IInv, TrapReset \/ TrapResetDone PROVE IInv'
  <1> USE DEF IInv, TypeOK, TrapReset, TrapResetDone, Go
  <1>1. TblOK'
    BY DEF TblOK, tbl
  <1>8. BndOK'
    <2>1. CASE TrapReset
      BY <2>1 DEF BndOK
    <2>2. CASE TrapResetDone
      BY <2>2 DEF BndOK, bnd
    <2> QED
      BY <2>1, <2>2
  <1>2. CtlOK' /\ HdlOK'
    BY DEF CtlOK, HdlOK, Places, hdl
  <1>3. PndOK' /\ ItrOK' /\ FlgOK' /\ DtrOK'
    BY DEF PndOK, ItrOK, FlgOK, DtrOK, pnd, itr, flg, dtr
  <1>4. StsOK' /\ ArgOK' /\ HisOK'
    BY DEF StsOK, ArgOK, HisOK, sts, arg, his
  <1>5. Control'
    BY DEF Control, InDotrap, InSection, Nesting, pnd, itr, dtr, hdl, bnd
  <1>6. TrapTableGuarded'
    BY NoDangling DEF tbl
  <1>7. NoTrapForgotten'
    BY DEF NoTrapForgotten, WillScan, pnd, hdl
  <1> QED
    BY <1>1, <1>8, <1>2, <1>3, <1>4, <1>5, <1>6, <1>7

\* trap -: the old action is freed under INTOFF.
LEMMA TrapResetFreeStep == ASSUME IInv, NEW c \in Conds, TrapResetFree(c) PROVE IInv'
  <1> USE DEF IInv, TypeOK, TrapResetFree, Go
  <1>1. TblOK'
    BY DEF TblOK, TrapValues
  <1>2. ItrOK' /\ CtlOK' /\ HdlOK'
    BY DEF ItrOK, CtlOK, HdlOK, Places, hdl
  <1>3. ArgOK' /\ BndOK'
    BY DEF ArgOK, BndOK, bnd
  <1>4. PndOK' /\ FlgOK' /\ DtrOK' /\ StsOK' /\ HisOK'
    BY DEF PndOK, FlgOK, DtrOK, StsOK, HisOK, pnd, flg, dtr, sts, his
  <1>5. Control'
    BY DEF Control, InDotrap, InSection, Nesting, ItrOK, pnd, dtr, hdl, bnd
  <1>6. TrapTableGuarded'
    BY DEF TrapTableGuarded, TblOK
  <1>7. NoTrapForgotten'
    BY DEF NoTrapForgotten, WillScan, pnd, hdl
  <1> QED
    BY <1>1, <1>2, <1>3, <1>4, <1>5, <1>6, <1>7

\* trap -: NULL closes the window of the pointer that was freed.
LEMMA TrapResetNullStep == ASSUME IInv, TrapResetNull PROVE IInv'
  <1> USE DEF IInv, TypeOK, TrapResetNull, Go
  <1>1. TblOK'
    BY DEF TblOK, ArgOK, TrapValues
  <1>2. CtlOK' /\ HdlOK'
    BY DEF CtlOK, HdlOK, Places, hdl
  <1>3. HisOK'
    BY DEF HisOK, ArgOK
  <1>4. PndOK' /\ ItrOK' /\ FlgOK' /\ DtrOK'
    BY DEF PndOK, ItrOK, FlgOK, DtrOK, pnd, itr, flg, dtr
  <1>5. StsOK' /\ ArgOK' /\ BndOK'
    BY DEF StsOK, ArgOK, BndOK, sts, arg, bnd
  <1>6. Control'
    BY DEF Control, InDotrap, InSection, Nesting, pnd, itr, dtr, hdl, bnd
  <1>7. TrapTableGuarded'
    BY DEF TrapTableGuarded, TblOK, ArgOK
  <1>8. NoTrapForgotten'
    BY DEF NoTrapForgotten, WillScan, pnd, hdl
  <1> QED
    BY <1>1, <1>2, <1>3, <1>4, <1>5, <1>6, <1>7, <1>8

\* trap -: setsignal, and INTON, keep the invariant.
LEMMA TrapResetSetStep == ASSUME IInv, TrapResetSet PROVE IInv'
  <1> USE DEF IInv, TypeOK, TrapResetSet
  <1>1. TblOK'
    BY ActionsType, SetSignalsType DEF TblOK, FlgOK
  <1>2. ItrOK' /\ CtlOK' /\ HdlOK' /\ Control' /\ NoTrapForgotten'
    <2>1. suppressint - 1 \in Nat
      BY DEF Control, InSection, ItrOK
    <2> QED
      BY <2>1, IntonStep
  <1>3. PndOK' /\ FlgOK' /\ DtrOK' /\ StsOK'
    BY DEF PndOK, FlgOK, DtrOK, StsOK, pnd, flg, dtr, sts
  <1>4. ArgOK' /\ HisOK' /\ BndOK'
    BY DEF ArgOK, HisOK, BndOK, arg, his, bnd
  <1>5. TrapTableGuarded'
    BY NoDangling
  <1> QED
    BY <1>1, <1>2, <1>3, <1>4, <1>5

\* set -i and set -m keep the invariant.
LEMMA SetOptionsStep == ASSUME IInv, NEW i \in BOOLEAN, NEW m \in BOOLEAN, SetOptions(i, m) PROVE IInv'
  <1> USE DEF IInv, TypeOK, SetOptions, Go
  <1>1. TblOK'
    <2>1. trap' \in [Conds -> TrapValues]
      BY DropType DEF TblOK
    <2>2. sigmode' \in [Sigs -> Modes] /\ kern' \in [Sigs -> Dispositions]
      BY ActionsType, SetSignalsType DEF TblOK, FlgOK
    <2> QED
      BY <2>1, <2>2 DEF TblOK
  <1>2. FlgOK'
    BY DEF FlgOK
  <1>3. CtlOK' /\ HdlOK'
    BY DEF CtlOK, HdlOK, Places, hdl
  <1>4. BndOK'
    BY DEF BndOK
  <1>5. PndOK' /\ ItrOK' /\ DtrOK' /\ StsOK'
    BY DEF PndOK, ItrOK, DtrOK, StsOK, pnd, itr, dtr, sts
  <1>6. ArgOK' /\ HisOK'
    BY DEF ArgOK, HisOK, arg, his
  <1>7. Control'
    BY DEF Control, InDotrap, InSection, Nesting, pnd, itr, dtr, hdl
  <1>8. TrapTableGuarded'
    BY DropType, NoDangling DEF TblOK
  <1>9. NoTrapForgotten'
    BY DEF NoTrapForgotten, WillScan, pnd, hdl
  <1> QED
    BY <1>1, <1>2, <1>3, <1>4, <1>5, <1>6, <1>7, <1>8, <1>9

\* fork keeps the invariant.
LEMMA ForkStep == ASSUME IInv, NEW mode \in ForkModes, Fork(mode) PROVE IInv'
  <1> USE DEF IInv, TypeOK, Fork, DropParentTraps, Go
  <1>1. TblOK'
    BY DropType DEF TblOK
  <1>2. ItrOK' /\ CtlOK' /\ HdlOK'
    BY DEF ItrOK, CtlOK, HdlOK, Places, hdl
  <1>3. ArgOK'
    BY DEF ArgOK, FlgOK
  <1>4. HisOK' /\ BndOK'
    BY DEF HisOK, BndOK
  <1>5. PndOK' /\ FlgOK' /\ DtrOK' /\ StsOK'
    BY DEF PndOK, FlgOK, DtrOK, StsOK, pnd, flg, dtr, sts
  <1>6. Control'
    BY DEF Control, InDotrap, InSection, Nesting, ItrOK, pnd, dtr, hdl
  <1>7. TrapTableGuarded'
    BY DropType, NoDangling DEF TblOK
  <1>8. NoTrapForgotten'
    BY DEF NoTrapForgotten, WillScan, pnd, hdl
  <1> QED
    BY <1>1, <1>2, <1>3, <1>4, <1>5, <1>6, <1>7, <1>8

\* The child that starts anew keeps the invariant.
LEMMA ForkedChildStep == ASSUME IInv, ForkedChild PROVE IInv'
  <1> USE DEF IInv, TypeOK, ForkedChild
  <1>1. TblOK' /\ FlgOK'
    BY DEF TblOK, FlgOK
  <1>2. CtlOK' /\ HdlOK'
    <2>1. pc' \in Places /\ live' \in 0..MaxSignals /\ base' \in 0..live'
      BY DEF Places
    <2>2. abandoned' \in BOOLEAN
      OBVIOUS
    <2> QED
      BY <2>1, <2>2 DEF CtlOK, HdlOK
  <1>3. ArgOK'
    BY DEF ArgOK
  <1>4. PndOK' /\ ItrOK' /\ DtrOK' /\ StsOK'
    BY DEF PndOK, ItrOK, DtrOK, StsOK, pnd, itr, dtr, sts
  <1>5. HisOK' /\ BndOK'
    BY DEF HisOK, BndOK, his, bnd
  <1>6. Control'
    BY DEF Control, InDotrap, InSection, Nesting, CtlOK, PndOK, DtrOK, BndOK, pnd, itr, dtr, bnd
  <1>7. TrapTableGuarded'
    BY NoDangling
  <1>8. NoTrapForgotten'
    <2>1. abandoned' <=> (abandoned \/ live > 0)
      OBVIOUS
    <2> QED
      BY <2>1 DEF NoTrapForgotten, WillScan, HdlOK, CtlOK, pnd
  <1> QED
    BY <1>1, <1>2, <1>3, <1>4, <1>5, <1>6, <1>7, <1>8

\* A step of clear_traps keeps the invariant.
LEMMA ClearTrapsStep == ASSUME IInv, ClearTraps PROVE IInv'
  <1> USE DEF IInv, TypeOK, ClearTraps
  <1>1. TblOK'
    BY ActionsType, SetSignalsType DEF TblOK, FlgOK
  <1>2. CtlOK' /\ HdlOK' /\ ArgOK'
    BY DEF CtlOK, HdlOK, ArgOK, ctl, hdl
  <1>3. PndOK' /\ ItrOK' /\ FlgOK' /\ DtrOK'
    BY DEF PndOK, ItrOK, FlgOK, DtrOK, pnd, itr, flg, dtr
  <1>4. StsOK' /\ HisOK' /\ BndOK'
    BY DEF StsOK, HisOK, BndOK, sts, his, bnd
  <1>5. Control'
    BY DEF Control, InDotrap, InSection, Nesting, pnd, itr, dtr, ctl, hdl, bnd
  <1>6. TrapTableGuarded'
    BY NoDangling
  <1>7. NoTrapForgotten'
    BY DEF NoTrapForgotten, WillScan, pnd, ctl, hdl
  <1> QED
    BY <1>1, <1>2, <1>3, <1>4, <1>5, <1>6, <1>7

\* ignoresig keeps sigmode[] and the table of the kernel in range.
LEMMA IgnoreType ==
  ASSUME NEW S, NEW mode \in [Sigs -> Modes], NEW k \in [Sigs -> Dispositions]
  PROVE  /\ IgnoreSignals(S, mode, k).mode \in [Sigs -> Modes]
         /\ IgnoreSignals(S, mode, k).kern \in [Sigs -> Dispositions]
  BY DEF IgnoreSignals, Modes, Dispositions

\* So does setsignal, as an operator.
LEMMA SetType ==
  ASSUME NEW S, NEW mode \in [Sigs -> Modes], NEW k \in [Sigs -> Dispositions],
         NEW act \in [Sigs -> {"dfl", "catch", "ign"}]
  PROVE  /\ ModeAfter(S, act, mode) \in [Sigs -> Modes]
         /\ KernAfter(S, act, mode, k) \in [Sigs -> Dispositions]
  BY DEF ModeAfter, KernAfter, Modes, Dispositions

\* The rest of forkchild keeps the invariant.
LEMMA ForkModeStep == ASSUME IInv, ForkMode PROVE IInv'
  <1> USE DEF IInv, TypeOK
  <1> DEFINE act == Actions(trap, TRUE, rootshell, iflag, mflag)
             jobctl == wasroot /\ forkmode # "NOJOB" /\ mflag
             tty == IF jobctl THEN Sigs \cap StopSignals ELSE {}
             m1 == ModeAfter(tty, act, sigmode)
             k1 == KernAfter(tty, act, sigmode, kern)
             bg == IF ~jobctl /\ forkmode = "BG"
                   THEN Sigs \cap {SIGINT, SIGQUIT} ELSE {}
             two == IgnoreSignals(bg, m1, k1)
             job == IF wasroot /\ iflag
                    THEN Sigs \cap {SIGINT, SIGQUIT, SIGTERM} ELSE {}
  <1>1. TblOK'
    <2>1. act \in [Sigs -> {"dfl", "catch", "ign"}]
      BY ActionsType DEF FlgOK
    <2>2. /\ sigmode' = ModeAfter(job, act, two.mode)
          /\ kern' = KernAfter(job, act, two.mode, two.kern)
          /\ UNCHANGED <<trap, traps_invalid>>
      BY DEF ForkMode
    <2> HIDE DEF act, jobctl, tty, bg, job
    <2>3. m1 \in [Sigs -> Modes] /\ k1 \in [Sigs -> Dispositions]
      BY <2>1, SetType DEF TblOK
    <2> HIDE DEF m1, k1
    <2>4. two.mode \in [Sigs -> Modes] /\ two.kern \in [Sigs -> Dispositions]
      BY <2>3, IgnoreType
    <2> HIDE DEF two
    <2>5. sigmode' \in [Sigs -> Modes] /\ kern' \in [Sigs -> Dispositions]
      BY <2>1, <2>2, <2>4, SetType
    <2> QED
      BY <2>2, <2>5 DEF TblOK
  <1>2. /\ Inton(IF forkmode = "NOJOB" THEN 0 ELSE suppressint - 1, "cmd")
        /\ pc = "clear" /\ UNCHANGED trap
        /\ UNCHANGED <<pnd, flg, dtr, sts, hdl, arg, his, bnd>>
    BY DEF ForkMode
  <1>3. (IF forkmode = "NOJOB" THEN 0 ELSE suppressint - 1) \in Nat
    BY <1>2 DEF Control, InSection, ItrOK
  <1>4. ItrOK' /\ CtlOK' /\ HdlOK' /\ Control' /\ NoTrapForgotten'
    BY <1>2, <1>3, IntonStep
  <1>5. PndOK' /\ FlgOK' /\ DtrOK' /\ StsOK'
    BY <1>2 DEF PndOK, FlgOK, DtrOK, StsOK, pnd, flg, dtr, sts
  <1>6. ArgOK' /\ HisOK' /\ BndOK'
    BY <1>2 DEF ArgOK, HisOK, BndOK, arg, his, bnd
  <1>7. TrapTableGuarded'
    BY <1>2, NoDangling
  <1> QED
    BY <1>1, <1>4, <1>5, <1>6, <1>7

\* The start of exitshell keeps the statuses in range.
LEMMA StartExitType ==
  ASSUME DtrOK, StsOK, NEW given, NEW st \in Nat, StartExit(given, st)
  PROVE  StsOK'
  <1>1. last_trapsig \in Nat /\ 0 \in Conds
    BY DEF DtrOK, Conds, Sigs
  <1>2. exitsig' \in Conds
    BY <1>1 DEF StartExit, DtrOK
  <1>3. exiting_status' \in Nat /\ exitstatus' \in Nat
    BY <1>1 DEF StartExit, StsOK
  <1>4. exiting' \in BOOLEAN
    BY DEF StartExit
  <1> QED
    BY <1>2, <1>3, <1>4 DEF StsOK

\* The exit builtin keeps the invariant.
LEMMA ExitCmdStep == ASSUME IInv, NEW given \in BOOLEAN, NEW st \in {0, 1},
             ExitCmd(given, st) PROVE IInv'
  <1> USE DEF IInv, TypeOK, ExitCmd, DropParentTraps, Go
  <1>1. TblOK'
    BY DropType DEF TblOK
  <1>2. StsOK'
    BY StartExitType
  <1>3. CtlOK' /\ HdlOK'
    BY DEF CtlOK, HdlOK, Places, hdl
  <1>4. HisOK'
    BY DEF HisOK, StsOK
  <1>5. PndOK' /\ ItrOK' /\ FlgOK' /\ DtrOK'
    BY DEF PndOK, ItrOK, FlgOK, DtrOK, pnd, itr, flg, dtr
  <1>6. ArgOK' /\ BndOK'
    BY DEF ArgOK, BndOK, arg, bnd
  <1>7. Control'
    BY DEF Control, InDotrap, InSection, Nesting, pnd, itr, dtr, hdl, bnd
  <1>8. TrapTableGuarded'
    BY DropType, NoDangling DEF TblOK
  <1>9. NoTrapForgotten'
    BY DEF NoTrapForgotten, WillScan, pnd, hdl
  <1> QED
    BY <1>1, <1>2, <1>3, <1>4, <1>5, <1>6, <1>7, <1>8, <1>9

\* The handler of main keeps the invariant.
LEMMA HandlerStep == ASSUME IInv, Handler PROVE IInv'
  <1> USE DEF IInv, TypeOK
  <1> DEFINE st == IF exc = "ERROR" THEN 2 ELSE exitstatus
  <1>1. /\ pc = "handler" /\ UNCHANGED <<tbl, pnd, flg, dtr, hdl, arg, bnd>>
        /\ UNCHANGED <<mine, recv, exitruns>>
    BY DEF Handler
  <1>2. st \in Nat
    BY DEF StsOK
  <1>3. StsOK' /\ HisOK' /\ ItrOK' /\ CtlOK' /\ HdlOK' /\ Control' /\ NoTrapForgotten'
    <2>1. CASE ~iflag \/ ~rootshell \/ exc = "EXIT"
      <3>1. StartExit(TRUE, st) /\ want' = st /\ Go("exit1") /\ UNCHANGED itr
        BY <2>1 DEF Handler
      <3> HIDE DEF st
      <3>2. StsOK'
        BY <1>2, <3>1, StartExitType
      <3>3. HisOK'
        BY <1>1, <1>2, <3>1 DEF HisOK
      <3>4. ItrOK' /\ CtlOK' /\ HdlOK'
        BY <1>1, <3>1 DEF Go, ItrOK, CtlOK, HdlOK, Places, itr, hdl
      <3>5. Control'
        BY <1>1, <3>1 DEF Go, Control, InDotrap, InSection, Nesting, pnd, itr, dtr, hdl, bnd
      <3>6. NoTrapForgotten'
        BY <1>1, <3>1 DEF Go, NoTrapForgotten, WillScan, pnd, hdl
      <3> QED
        BY <3>2, <3>3, <3>4, <3>5, <3>6
    <2>2. CASE ~(~iflag \/ ~rootshell \/ exc = "EXIT")
      <3>1. /\ exitstatus' = st /\ UNCHANGED <<exiting, exiting_status, exitsig, want>>
            /\ Inton(0, "check")
        BY <2>2 DEF Handler
      <3> HIDE DEF st
      <3>2. StsOK'
        BY <1>2, <3>1 DEF StsOK
      <3>3. HisOK'
        BY <1>1, <3>1 DEF HisOK
      <3>4. ItrOK' /\ CtlOK' /\ HdlOK' /\ Control' /\ NoTrapForgotten'
        BY <1>1, <3>1, IntonStep
      <3> QED
        BY <3>2, <3>3, <3>4
    <2> QED
      BY <2>1, <2>2
  <1>4. TblOK' /\ PndOK' /\ FlgOK' /\ DtrOK' /\ ArgOK' /\ BndOK'
    BY <1>1 DEF TblOK, PndOK, FlgOK, DtrOK, ArgOK, BndOK, tbl, pnd, flg, dtr, arg, bnd
  <1>5. TrapTableGuarded'
    BY <1>1, NoDangling DEF tbl
  <1> QED
    BY <1>3, <1>4, <1>5

\* The last call of dotrap keeps the invariant.
LEMMA ExitTrapsStep == ASSUME IInv, ExitTraps PROVE IInv'
  <1> USE DEF IInv, TypeOK, ExitTraps, Go
  <1>1. CtlOK' /\ HdlOK' /\ DtrOK' /\ Control'
    <2>1. /\ live \in Nat /\ base \in Nat /\ base <= live /\ in_dotrap \in Nat
          /\ pendingsigs \in Nat /\ nsent \in Nat /\ MaxSignals \in Nat
          /\ live <= MaxSignals /\ nsent <= MaxSignals /\ live + pendingsigs <= nsent
      BY DEF CtlOK, HdlOK, DtrOK, PndOK, BndOK, Control, Nesting
    <2>2. CASE pendingsigs > 0
      <3>1. /\ pc' = "zero" /\ live' = live + 1 /\ in_dotrap' = in_dotrap + 1
            /\ phase' = "traps" /\ base' = live
            /\ UNCHANGED <<exc, outcome, last_trapsig, savestatus>>
        BY <2>2
      <3>2. live' \in 0..MaxSignals /\ in_dotrap' \in Nat /\ live' <= nsent
        BY <2>1, <2>2, <3>1
      <3>3. abandoned' \in BOOLEAN
        BY <2>2
      <3>4. CtlOK'
        BY <3>1, <3>2, <3>3 DEF CtlOK, Places
      <3>5. HdlOK' /\ DtrOK'
        BY <2>1, <3>1, <3>2 DEF HdlOK, DtrOK, hdl
      <3>6. Control'
        BY <2>1, <3>1, <3>2 DEF Control, InDotrap, InSection, Nesting, pnd, itr, bnd
      <3> QED
        BY <3>4, <3>5, <3>6
    <2>3. CASE ~(pendingsigs > 0)
      <3>1. /\ pc' = "exit2" /\ UNCHANGED dtr /\ UNCHANGED hdl
            /\ UNCHANGED <<live, exc, abandoned, outcome>>
        BY <2>3
      <3>2. CtlOK' /\ HdlOK' /\ DtrOK'
        BY <3>1 DEF CtlOK, HdlOK, DtrOK, Places, hdl, dtr
      <3>3. Control'
        BY <3>1 DEF Control, InDotrap, InSection, Nesting, pnd, itr, dtr, hdl, bnd
      <3> QED
        BY <3>2, <3>3
    <2> QED
      BY <2>2, <2>3
  <1>2. TblOK' /\ PndOK' /\ ItrOK' /\ FlgOK'
    BY DEF TblOK, PndOK, ItrOK, FlgOK, tbl, pnd, itr, flg
  <1>3. StsOK' /\ ArgOK' /\ HisOK' /\ BndOK'
    BY DEF StsOK, ArgOK, HisOK, BndOK, sts, arg, his, bnd
  <1>4. TrapTableGuarded'
    BY NoDangling DEF tbl
  <1>5. NoTrapForgotten'
    BY DEF NoTrapForgotten, WillScan, PndOK, pnd, hdl
  <1> QED
    BY <1>1, <1>2, <1>3, <1>4, <1>5

\* Starting the EXIT action keeps the invariant.
LEMMA ExitActionStep == ASSUME IInv, ExitAction PROVE IInv'
  <1> USE DEF IInv, TypeOK
  <1>1. /\ pc = "exit2" /\ phase' = "exittrap" /\ base' = live /\ pc' \in {"cmd", "exit3"}
        /\ live' = live /\ (abandoned' <=> (abandoned \/ live > 0))
        /\ UNCHANGED <<exc, outcome, sigmode, kern, traps_invalid, mine, recv, want>>
        /\ UNCHANGED <<pnd, itr, flg, dtr, sts, arg, bnd>>
    BY DEF ExitAction
  <1>2. TblOK'
    BY <1>1 DEF ExitAction, TblOK, TrapValues
  <1>3. HdlOK'
    BY <1>1 DEF HdlOK, CtlOK
  <1>4. CtlOK'
    <2>1. abandoned' \in BOOLEAN
      BY DEF ExitAction
    <2>2. pc' \in Places
      BY <1>1 DEF Places
    <2> QED
      BY <1>1, <2>1, <2>2 DEF CtlOK
  <1>5. HisOK'
    BY <1>1 DEF ExitAction, HisOK
  <1>6. PndOK' /\ ItrOK' /\ FlgOK' /\ DtrOK'
    BY <1>1 DEF PndOK, ItrOK, FlgOK, DtrOK, pnd, itr, flg, dtr
  <1>7. StsOK' /\ ArgOK' /\ BndOK'
    BY <1>1 DEF StsOK, ArgOK, BndOK, sts, arg, bnd
  <1>8. Control'
    BY <1>1 DEF Control, InDotrap, InSection, Nesting, pnd, itr, dtr, bnd
  <1>9. \A c \in Conds : trap'[c] = "freed" => trap[c] = "freed"
    BY DEF ExitAction, TblOK
  <1>10. TrapTableGuarded'
    BY <1>1, <1>9, NoDangling
  <1>11. NoTrapForgotten'
    BY <1>1 DEF NoTrapForgotten, WillScan, CtlOK, HdlOK, pnd
  <1> QED
    BY <1>2, <1>3, <1>4, <1>5, <1>6, <1>7, <1>8, <1>10, <1>11

\* The end of the EXIT action keeps the invariant.
LEMMA ExitActionDoneStep == ASSUME IInv, ExitActionDone PROVE IInv'
  <1> USE DEF IInv, TypeOK, ExitActionDone, Go
  <1>1. CtlOK' /\ HdlOK'
    BY DEF CtlOK, HdlOK, Places, hdl
  <1>2. TblOK' /\ PndOK' /\ ItrOK' /\ FlgOK'
    BY DEF TblOK, PndOK, ItrOK, FlgOK, tbl, pnd, itr, flg
  <1>3. DtrOK' /\ StsOK' /\ ArgOK' /\ HisOK'
    BY DEF DtrOK, StsOK, ArgOK, HisOK, dtr, sts, arg, his
  <1>4. BndOK'
    BY DEF BndOK, bnd
  <1>5. Control'
    BY DEF Control, InDotrap, InSection, Nesting, pnd, itr, dtr, hdl, bnd
  <1>6. TrapTableGuarded'
    BY NoDangling DEF tbl
  <1>7. NoTrapForgotten'
    BY DEF NoTrapForgotten, WillScan
  <1> QED
    BY <1>1, <1>2, <1>3, <1>4, <1>5, <1>6, <1>7

\* The end of the process keeps the invariant.
LEMMA ExitFinalStep == ASSUME IInv, ExitFinal PROVE IInv'
  <1> USE DEF IInv, TypeOK, ExitFinal, Die
  <1>1. CtlOK' /\ HdlOK'
    BY DEF CtlOK, HdlOK, Places, hdl
  <1>2. TblOK' /\ PndOK' /\ ItrOK' /\ FlgOK'
    BY DEF TblOK, PndOK, ItrOK, FlgOK, tbl, pnd, itr, flg
  <1>3. DtrOK' /\ StsOK' /\ ArgOK' /\ HisOK'
    BY DEF DtrOK, StsOK, ArgOK, HisOK, dtr, sts, arg, his
  <1>4. BndOK'
    BY DEF BndOK, bnd
  <1>5. Control'
    <2>1. live \in Nat /\ pendingsigs \in Nat /\ nsent \in Nat /\ live + pendingsigs <= nsent
      BY DEF CtlOK, PndOK, BndOK, Control, Nesting
    <2>2. live <= nsent /\ live + pendingsigs <= nsent + 1
      BY <2>1
    <2> QED
      BY <2>2 DEF Control, InDotrap, InSection, Nesting, pnd, itr, dtr, hdl, bnd
  <1>6. TrapTableGuarded'
    BY NoDangling DEF tbl
  <1>7. NoTrapForgotten'
    BY DEF NoTrapForgotten, WillScan
  <1> QED
    BY <1>1, <1>2, <1>3, <1>4, <1>5, <1>6, <1>7

\* What a delivered signal does to the control state: nothing, death, or a
\* longjmp, and a longjmp only while interrupts are allowed.
LEMMA DeliverControl ==
  ASSUME IInv, NEW s \in Sigs, Deliver(s)
  PROVE  \/ UNCHANGED ctl
         \/ \E how \in {"killed", "crashed"} : Die(how)
         \/ ~(suppressint > 0) /\ Unwind("INT")
  <1>1. CASE kern[s] = "catch"
    <2>1. OnInt => \/ UNCHANGED ctl
                   \/ \E how \in {"killed", "crashed"} : Die(how)
                   \/ ~(suppressint > 0) /\ Unwind("INT")
      BY DEF OnInt, TakeInterrupt
    <2>2. Onsig(s)
      BY <1>1 DEF Deliver
    <2>3. OnInt \/ UNCHANGED ctl
      BY <2>2 DEF Onsig, ctl
    <2> QED
      BY <2>1, <2>3
  <1>2. CASE kern[s] # "catch"
    BY <1>2 DEF Deliver
  <1> QED
    BY <1>1, <1>2

\* ... and to the pending signals: it may add one.
LEMMA DeliverPending ==
  ASSUME IInv, NEW s \in Sigs, Deliver(s)
  PROVE  /\ PndOK' /\ intpending' \in BOOLEAN
         /\ pendingsigs' = pendingsigs \/ pendingsigs' = pendingsigs + 1
         /\ \A r \in Sigs : gotsig'[r] => gotsig[r] \/ pendingsigs' > 0
  <1> USE DEF IInv, TypeOK
  <1>1. \/ UNCHANGED <<gotsig, pendingsigs>>
        \/ /\ gotsig' = [gotsig EXCEPT ![s] = TRUE]
           /\ pendingsigs' = pendingsigs + 1
    <2>1. CASE kern[s] = "catch"
      <3>1. Onsig(s)
        BY <2>1 DEF Deliver
      <3> QED
        BY <3>1 DEF Onsig, pnd
    <2>2. CASE kern[s] # "catch"
      BY <2>2 DEF Deliver, pnd
    <2> QED
      BY <2>1, <2>2
  <1>2. intpending' \in BOOLEAN
    <2>1. OnInt => intpending' \in BOOLEAN \/ UNCHANGED intpending
      BY DEF OnInt, TakeInterrupt
    <2>2. CASE kern[s] = "catch"
      <3>1. Onsig(s)
        BY <2>2 DEF Deliver
      <3>2. OnInt \/ intpending' = TRUE \/ UNCHANGED intpending
        BY <3>1 DEF Onsig
      <3> QED
        BY <2>1, <3>2 DEF ItrOK
    <2>3. CASE kern[s] # "catch"
      BY <2>3 DEF Deliver, ItrOK
    <2> QED
      BY <2>2, <2>3
  <1>3. CASE UNCHANGED <<gotsig, pendingsigs>>
    BY <1>2, <1>3 DEF PndOK
  <1>4. CASE /\ gotsig' = [gotsig EXCEPT ![s] = TRUE]
             /\ pendingsigs' = pendingsigs + 1
    BY <1>2, <1>4 DEF PndOK
  <1> QED
    BY <1>1, <1>3, <1>4

\* A signal, delivered at any point, keeps the invariant.
LEMMA DeliverStep == ASSUME IInv, NEW s \in Sigs, Deliver(s) PROVE IInv'
  <1> USE DEF IInv, TypeOK
  <1>1. /\ pc # "dead" /\ nsent < MaxSignals /\ nsent' = nsent + 1
        /\ UNCHANGED <<tbl, suppressint, flg, dtr, sts, hdl, arg, mine, exitruns,
                       want, ncmds, nforks>>
    BY DEF Deliver
  <1>2. /\ PndOK' /\ intpending' \in BOOLEAN
        /\ pendingsigs' = pendingsigs \/ pendingsigs' = pendingsigs + 1
        /\ \A r \in Sigs : gotsig'[r] => gotsig[r] \/ pendingsigs' > 0
    BY DeliverPending
  <1>3. TblOK' /\ FlgOK' /\ DtrOK' /\ StsOK' /\ ArgOK'
    BY <1>1 DEF TblOK, FlgOK, DtrOK, StsOK, ArgOK, tbl, flg, dtr, sts, arg
  <1>4. ItrOK' /\ BndOK'
    BY <1>1, <1>2 DEF ItrOK, BndOK
  <1>5. HisOK'
    <2>1. recv' = recv \cup {s} \/ recv' = recv
      BY DEF Deliver
    <2> QED
      BY <1>1, <2>1 DEF HisOK
  <1>6. /\ live \in Nat /\ in_dotrap \in Nat /\ pendingsigs \in Nat /\ pendingsigs' \in Nat
        /\ nsent \in Nat
    BY <1>2 DEF CtlOK, DtrOK, PndOK, BndOK
  <1>10. /\ live <= nsent => live <= nsent'
         /\ live + pendingsigs <= nsent + 1 => live + pendingsigs' <= nsent' + 1
         /\ live + pendingsigs <= nsent => /\ live + pendingsigs' <= nsent'
                                          /\ live <= nsent'
                                          /\ live + pendingsigs' <= nsent' + 1
    <2>1. nsent' = nsent + 1
      BY <1>1
    <2>2. CASE pendingsigs' = pendingsigs
      BY <1>6, <2>1, <2>2
    <2>3. CASE pendingsigs' = pendingsigs + 1
      BY <1>6, <2>1, <2>3
    <2> QED
      BY <1>2, <2>2, <2>3
  <1>7. CASE UNCHANGED ctl
    <2>1. CtlOK' /\ HdlOK'
      BY <1>1, <1>7 DEF CtlOK, HdlOK, ctl, hdl
    <2>2. Control'
      <3>1. Nesting'
        BY <1>7, <1>10 DEF Control, Nesting, ctl
      <3> QED
        BY <1>1, <1>7, <3>1 DEF Control, InDotrap, InSection, ctl, hdl, dtr
    <2>3. TrapTableGuarded'
      BY <1>1, <1>7 DEF TrapTableGuarded, ctl, tbl, arg
    <2>4. pendingsigs > 0 => pendingsigs' > 0
      BY <1>2, <1>6
    <2>5. NoTrapForgotten'
      BY <1>1, <1>2, <1>7, <2>4 DEF NoTrapForgotten, WillScan, ctl, hdl, arg
    <2> QED
      BY <1>2, <1>3, <1>4, <1>5, <2>1, <2>2, <2>3, <2>5
  <1>8. CASE \E how \in {"killed", "crashed"} : Die(how)
    <2>1. /\ pc' = "dead" /\ outcome' \in {"killed", "crashed"}
          /\ UNCHANGED <<live, exc, abandoned>>
      BY <1>8 DEF Die
    <2>2. CtlOK' /\ HdlOK'
      BY <1>1, <2>1 DEF CtlOK, HdlOK, Places, hdl
    <2>3. Control'
      <3>1. Nesting'
        BY <1>10, <2>1 DEF Control, Nesting
      <3> QED
        BY <1>1, <2>1, <3>1 DEF Control, InDotrap, InSection, hdl, dtr
    <2>4. TrapTableGuarded'
      BY <1>1, <2>1 DEF TrapTableGuarded, tbl, arg
    <2>5. NoTrapForgotten'
      BY <2>1 DEF NoTrapForgotten
    <2> QED
      BY <1>2, <1>3, <1>4, <1>5, <2>2, <2>3, <2>4, <2>5
  <1>9. CASE ~(suppressint > 0) /\ Unwind("INT")
    <2>1. UNCHANGED hdl /\ UNCHANGED dtr
      BY <1>1
    <2>2. CtlOK' /\ HdlOK'
      BY <1>9, <2>1, UnwindType
    <2>3. Control' /\ NoTrapForgotten'
      BY <1>1, <1>2, <1>9, <2>1, UnwindKeeps
    <2>4. pc \notin {"tc_assign", "rs_null"}
      BY <1>9 DEF Control, InSection, ItrOK
    <2>5. TrapTableGuarded'
      BY <1>1, <2>4, NoDangling DEF tbl
    <2> QED
      BY <1>2, <1>3, <1>4, <1>5, <2>2, <2>3, <2>5
  <1> QED
    BY <1>7, <1>8, <1>9, DeliverControl

-----------------------------------------------------------------------------
\* Every step of the shell, and every signal, keeps the invariant.
LEMMA NextIInv == ASSUME IInv, [Next]_vars PROVE IInv'
  <1>1. CASE UserCommand
    <2>1. ASSUME NEW st \in {0, 1}, Command(st) PROVE IInv'
      BY <2>1, CommandStep
    <2>2. CASE EnterCritical
      BY <2>2, EnterStep
    <2>3. ASSUME NEW c \in Conditions, NEW act \in {"null", "empty", "cmd"},
                 TrapCmdFree(c, act)
          PROVE  IInv'
      BY <2>3, TrapFreeStep
    <2>4. CASE TrapReset
      BY <2>4, TrapResetStep
    <2>5. ASSUME NEW i \in BOOLEAN, NEW m \in BOOLEAN, SetOptions(i, m) PROVE IInv'
      BY <2>5, SetOptionsStep
    <2>6. ASSUME NEW mode \in ForkModes, Fork(mode) PROVE IInv'
      BY <2>6, ForkStep
    <2>7. ASSUME NEW given \in BOOLEAN, NEW st \in {0, 1}, ExitCmd(given, st)
          PROVE  IInv'
      BY <2>7, ExitCmdStep
    <2>8. ASSUME NEW d \in 0..MaxSignals, CaughtError(d) PROVE IInv'
      BY <2>8, CaughtStep
    <2>9. CASE UncaughtError
      BY <2>9, UncaughtStep
    <2> QED
      BY <1>1, <2>1, <2>2, <2>3, <2>4, <2>5, <2>6, <2>7, <2>8, <2>9 DEF UserCommand
  <1>2. CASE LeaveCritical \/ CheckPending \/ SubshellEnd
    BY <1>2, LeaveStep, CheckStep, SubshellEndStep
  <1>3. CASE ZeroPending \/ ScanNext \/ TakeSignal \/ ActionDone \/ ScanDone
    BY <1>3, ZeroStep, ScanNextStep, TakeStep, ActionDoneStep, ScanDoneStep
  <1>4. CASE TrapCmdAssign \/ TrapCmdProbe \/ TrapCmdSet
    BY <1>4, TrapAssignStep, TrapProbeStep, TrapSetStep
  <1>5. CASE ForkedChild \/ ClearTraps \/ ForkMode
    BY <1>5, ForkedChildStep, ClearTrapsStep, ForkModeStep
  <1>9. CASE (\E c \in Conds : TrapResetFree(c)) \/ TrapResetNull \/ TrapResetSet \/ TrapResetDone
    BY <1>9, TrapResetFreeStep, TrapResetNullStep, TrapResetSetStep, TrapResetStep
  <1>6. CASE Handler \/ ExitTraps \/ ExitAction \/ ExitActionDone \/ ExitFinal
    BY <1>6, HandlerStep, ExitTrapsStep, ExitActionStep, ExitActionDoneStep, ExitFinalStep
  <1>7. ASSUME NEW s \in Sigs, Deliver(s) PROVE IInv'
    BY <1>7, DeliverStep
  <1>8. CASE UNCHANGED vars
    <2>1. UNCHANGED <<tbl, pnd, itr, flg, dtr, sts, ctl, hdl, arg, his, bnd>>
      BY <1>8 DEF vars
    <2>2. TblOK' /\ PndOK' /\ ItrOK' /\ FlgOK' /\ DtrOK' /\ StsOK'
      BY <2>1 DEF IInv, TypeOK, TblOK, PndOK, ItrOK, FlgOK, DtrOK, StsOK,
                  tbl, pnd, itr, flg, dtr, sts
    <2>3. CtlOK' /\ HdlOK' /\ ArgOK' /\ HisOK' /\ BndOK'
      BY <2>1 DEF IInv, TypeOK, CtlOK, HdlOK, ArgOK, HisOK, BndOK,
                  ctl, hdl, arg, his, bnd
    <2>4. Control' /\ TrapTableGuarded' /\ NoTrapForgotten'
      BY <2>1 DEF IInv, Control, InDotrap, InSection, Nesting, TrapTableGuarded,
                  NoTrapForgotten, WillScan, tbl, pnd, itr, dtr, ctl, hdl, arg, bnd
    <2> QED
      BY <2>2, <2>3, <2>4 DEF IInv, TypeOK
  <1> QED
    BY <1>1, <1>2, <1>3, <1>4, <1>5, <1>9, <1>6, <1>7, <1>8 DEF Next, ShellStep

\* The invariant holds in every behaviour of the shell.
THEOREM Inductive == Spec => []IInv
  <1>1. Init => IInv
    BY InitIInv
  <1>2. IInv /\ [Next]_vars => IInv'
    BY NextIInv
  <1> QED
    BY <1>1, <1>2, PTL DEF Spec

\* Type correctness, for every number of signals and every bound.
THEOREM TypeCorrect == Spec => []TypeOK
  <1>1. IInv => TypeOK
    BY DEF IInv
  <1> QED
    BY <1>1, Inductive, PTL

\* While a signal that was caught waits for its action, the shell is bound to
\* look at it: pendingsigs is set or a scan of dotrap has yet to reach it, in
\* every interleaving of handler and scan (trap.c onsig and dotrap).
THEOREM NoneForgotten == Spec => []NoTrapForgotten
  <1>1. IInv => NoTrapForgotten
    BY DEF IInv
  <1> QED
    BY <1>1, Inductive, PTL

\* No interrupt unwinds trapcmd while trap[] holds a pointer to freed memory.
THEOREM TableGuarded == Spec => []TrapTableGuarded
  <1>1. IInv => TrapTableGuarded
    BY DEF IInv
  <1> QED
    BY <1>1, Inductive, PTL

-----------------------------------------------------------------------------
(* Dispositions, owners of traps, and the EXIT action.                     *)

\* trapcmd is between its free of the old action and its setsignal, as it sets a
\* trap or as it drops one.
InTrapCmd == pc \in {"tc_assign", "tc_probe", "tc_set"}
InReset == pc \in {"rs_null", "rs_set"}
Settled(s) == ~((InTrapCmd \/ InReset) /\ s = tcsig)

\* What the shell believes the disposition is, it is.
ModeMatches == \A s \in Sigs : sigmode[s] # "unknown" => kern[s] = sigmode[s]

\* In the root shell every known disposition is the one setsignal would choose.
RootSettled ==
  rootshell /\ pc # "dead" =>
    \A s \in Sigs : Settled(s) /\ sigmode[s] # "unknown" =>
      kern[s] = Action(s, trap[s], FALSE, TRUE, iflag, mflag)

\* A signal that has a trap went through setsignal; trapcmd probes one that did
\* not.
ModeKnown ==
  /\ pc # "dead" =>
       \A s \in Sigs : Settled(s) /\ trap[s] # "null" => sigmode[s] # "unknown"
  /\ pc = "tc_probe" => tcsig \in Sigs /\ sigmode[tcsig] = "unknown"

\* Only a subshell holds its parent's traps, and no longer once it runs trap.
ParentTraps ==
  /\ traps_invalid => ~rootshell /\ ~InTrapCmd /\ pc # "forked"
  /\ pc = "clear" => traps_invalid

\* clear_traps has reset every trapped signal it has passed.
ChildReset ==
  traps_invalid /\ pc # "dead" =>
    \A s \in Sigs : (pc = "clear" => s < idx) /\ trap[s] = "cmd" => kern[s] # "catch"

\* A trap that may run was set by this process.
OwnTraps ==
  ~traps_invalid /\ pc \notin {"forked", "dead"} =>
    \A c \in Conds : trap[c] = "cmd" => c \in mine

\* While the EXIT trap is set its action has not run.
ExitUnused == exitruns <= 1 /\ (trap[0] = "cmd" => exitruns = 0)

\* The inductive invariant of the dispositions.
DInv == /\ ModeMatches /\ RootSettled /\ ModeKnown /\ ParentTraps /\ ChildReset
        /\ OwnTraps /\ OwnActions /\ ExitUnused

\* Without -i and -m: trap '' holds in every subshell too, and the keyboard
\* does not reach a background command.
KeptIgnored ==
  pc # "dead" =>
    \A s \in Sigs : trap[s] = "empty" /\ ~(pc \in {"tc_probe", "tc_set"} /\ s = tcsig) =>
      kern[s] = "ign" /\ sigmode[s] = "ign"

NoJobControl ==
  /\ ~iflag /\ ~mflag
  /\ KeptIgnored
  /\ BackgroundIgnoresKeyboard
  /\ pc \in {"tc_probe", "tc_set", "rs_set"} => tcsig \in mine
  /\ pc = "rs_set" => trap[tcsig] = "null"

\* A longjmp does not lead into trapcmd or the child half of a fork.
LEMMA UnwindPlaces ==
  ASSUME NEW e, Unwind(e), HdlOK
  PROVE  pc' \in {"handler", "exit2", "exit3"}
  BY DEF Unwind, HdlOK

\* ... nor does INTON.
LEMMA IntonPlaces ==
  ASSUME NEW k, NEW p, Inton(k, p), HdlOK
  PROVE  pc' \in {p, "handler", "exit2", "exit3", "dead"}
  BY UnwindPlaces DEF Inton, TakeInterrupt, Go, Die

\* A step that leaves traps, dispositions, options and their history alone, and
\* stays where it is, dies, or goes from a place outside of trapcmd and
\* the child half of a fork to another, keeps the invariant.
Away == {"cmd", "check", "critical", "zero", "scan", "reset", "handler", "exit1", "exit2",
         "exit3", "dead"}

LEMMA QuietStep ==
  ASSUME IInv, DInv, UNCHANGED <<tbl, flg, tcsig, mine, lastrun, exitruns>>,
         \/ pc' = pc /\ idx' = idx
         \/ pc' = "dead"
         \/ pc \in Away /\ pc' \in Away /\ pc # "dead"
  PROVE  DInv'
  <1> USE DEF DInv, tbl, flg
  <1>1. ModeMatches' /\ ExitUnused' /\ OwnActions'
    BY DEF ModeMatches, ExitUnused, OwnActions
  <1>2. RootSettled' /\ ModeKnown'
    BY DEF RootSettled, ModeKnown, Settled, InTrapCmd, InReset, Away
  <1>3. ParentTraps'
    BY DEF ParentTraps, InTrapCmd, Away
  <1>4. ChildReset' /\ OwnTraps'
    BY DEF ChildReset, OwnTraps, Away
  <1> QED
    BY <1>1, <1>2, <1>3, <1>4

\* The same for a step that begins by dropping the parent's traps.
LEMMA DropStep ==
  ASSUME IInv, DInv, DropParentTraps \/ UNCHANGED tbl,
         UNCHANGED <<flg, mine, lastrun, exitruns>>,
         pc \in Away, pc' \in Away, pc # "dead"
  PROVE  DInv'
  <1> USE DEF DInv, flg
  <1>0. CASE UNCHANGED tbl
    <2>1. ModeMatches' /\ ExitUnused' /\ OwnActions'
      BY <1>0 DEF ModeMatches, ExitUnused, OwnActions, tbl
    <2>2. RootSettled' /\ ModeKnown'
      BY <1>0 DEF RootSettled, ModeKnown, Settled, InTrapCmd, InReset, Away, tbl
    <2>3. ParentTraps' /\ ChildReset' /\ OwnTraps'
      BY <1>0 DEF ParentTraps, ChildReset, OwnTraps, InTrapCmd, Away, tbl
    <2> QED
      BY <2>1, <2>2, <2>3
  <1>1. CASE DropParentTraps
    <2>1. /\ UNCHANGED <<sigmode, kern>> /\ traps_invalid' = FALSE
          /\ trap \in [Conds -> TrapValues] /\ trap' \in [Conds -> TrapValues]
          /\ \A c \in Conds : trap'[c] # "null" => trap'[c] = trap[c]
          /\ \A c \in Conds : traps_invalid => trap'[c] # "cmd"
          /\ ~traps_invalid => trap' = trap
      <3>1. trap \in [Conds -> TrapValues]
        BY DEF IInv, TypeOK, TblOK
      <3> QED
        BY <1>1, <3>1 DEF DropParentTraps, TrapsForCommand, FreeTraps, TrapValues
    <2>2. ModeMatches'
      BY <2>1 DEF ModeMatches
    <2>3. ExitUnused' /\ OwnActions'
      BY <2>1 DEF ExitUnused, OwnActions, Conds
    <2>4. RootSettled'
      BY <2>1 DEF RootSettled, ParentTraps, Settled, InTrapCmd, InReset, Away
    <2>5. ModeKnown'
      BY <2>1 DEF ModeKnown, Settled, InTrapCmd, InReset, Away, Conds
    <2>6. ParentTraps' /\ ChildReset'
      BY <2>1 DEF ParentTraps, ChildReset, InTrapCmd, Away
    <2>7. OwnTraps'
      BY <2>1 DEF OwnTraps, Away
    <2> QED
      BY <2>2, <2>3, <2>4, <2>5, <2>6, <2>7
  <1> QED
    BY <1>0, <1>1

-----------------------------------------------------------------------------
\* setsignal, when the table is right before: it leaves the signals outside of S
\* alone and gives those of S the disposition it was told to.
LEMMA SetSignalsEffect ==
  ASSUME sigmode \in [Sigs -> Modes], kern \in [Sigs -> Dispositions], NEW S,
         NEW act \in [Sigs -> {"dfl", "catch", "ign"}], SetSignals(S, act),
         NEW s \in Sigs, sigmode[s] # "unknown" => kern[s] = sigmode[s]
  PROVE  /\ s \in S => sigmode'[s] = act[s] /\ kern'[s] = act[s]
         /\ s \notin S => sigmode'[s] = sigmode[s] /\ kern'[s] = kern[s]
         /\ sigmode'[s] # "unknown" => kern'[s] = sigmode'[s]
  <1>1. sigmode[s] # "hardign"
    BY DEF Dispositions
  <1>2. sigmode'[s] = IF s \in S THEN act[s] ELSE sigmode[s]
    BY <1>1 DEF SetSignals, ModeAfter
  <1>3. kern'[s] = IF s \in S /\ sigmode[s] # act[s] THEN act[s] ELSE kern[s]
    BY <1>1 DEF SetSignals, KernAfter
  <1>4. act[s] # "unknown"
    OBVIOUS
  <1> QED
    BY <1>2, <1>3, <1>4

\* The dispositions of DInv, by themselves.
LEMMA Tables ==
  ASSUME IInv
  PROVE  /\ sigmode \in [Sigs -> Modes] /\ kern \in [Sigs -> Dispositions]
         /\ trap \in [Conds -> TrapValues]
         /\ rootshell \in BOOLEAN /\ iflag \in BOOLEAN /\ mflag \in BOOLEAN
         /\ traps_invalid \in BOOLEAN /\ tcsig \in Conds /\ idx \in 1..NSIG
         /\ mine \subseteq Conds /\ exitruns \in Nat
  BY DEF IInv, TypeOK, TblOK, FlgOK, ArgOK, HisOK

-----------------------------------------------------------------------------
\* The dispositions main begins with.
LEMMA InitDInv == Init => DInv
  <1> SUFFICES ASSUME Init PROVE DInv
    OBVIOUS
  <1> DEFINE act == Actions(trap, FALSE, TRUE, IflagInit, MflagInit)
             unknown == [s \in Sigs |-> "unknown"]
             entry == [s \in Sigs |-> IF s \in EntryIgnored THEN "ign" ELSE "dfl"]
  <1>1. act \in [Sigs -> {"dfl", "catch", "ign"}]
    BY ActionsType
  <1>2. /\ sigmode = ModeAfter(StartupSignals, act, unknown)
        /\ kern = KernAfter(StartupSignals, act, unknown, entry)
    BY DEF Init
  <1>3. ASSUME NEW s \in Sigs
        PROVE  /\ sigmode[s] # "unknown" => sigmode[s] = act[s] /\ kern[s] = act[s]
    <2> HIDE DEF act, entry
    <2>1. /\ sigmode[s] = IF s \in StartupSignals THEN act[s] ELSE "unknown"
          /\ kern[s] = IF s \in StartupSignals /\ "unknown" # act[s] THEN act[s] ELSE entry[s]
      BY <1>2 DEF ModeAfter, KernAfter
    <2> QED
      BY <1>1, <2>1
  <1>4. /\ trap = [c \in Conds |-> "null"] /\ traps_invalid = FALSE /\ pc = "cmd"
        /\ iflag = IflagInit /\ mflag = MflagInit /\ exitruns = 0
    BY DEF Init
  <1>5. \A s \in Sigs : act[s] = Action(s, trap[s], FALSE, TRUE, iflag, mflag)
    BY <1>4 DEF Actions
  <1> HIDE DEF act
  <1>6. ModeMatches
    BY <1>3 DEF ModeMatches
  <1>7. RootSettled
    BY <1>3, <1>5 DEF RootSettled
  <1>8. ModeKnown /\ ChildReset /\ ParentTraps
    BY <1>4 DEF ModeKnown, ChildReset, ParentTraps, Conds
  <1>9. OwnTraps /\ ExitUnused
    BY <1>4 DEF OwnTraps, ExitUnused, Conds
  <1>10. OwnActions
    BY DEF Init, NoRun, OwnActions
  <1> QED
    BY <1>6, <1>7, <1>8, <1>9, <1>10 DEF DInv

\* trapcmd: the old action is freed.
LEMMA TrapFreeD ==
  ASSUME IInv, DInv, NEW c \in Conditions, NEW act \in {"null", "empty", "cmd"},
         TrapCmdFree(c, act)
  PROVE  DInv'
  <1> USE DEF DInv
  <1>1. /\ UNCHANGED <<sigmode, kern, flg, his>> /\ pc = "cmd" /\ pc' = "tc_assign"
        /\ tcsig' = c /\ traps_invalid' = FALSE /\ c \in Conds
    BY DEF TrapCmdFree, Go
  <1>2. /\ \A d \in Conds : d # c /\ trap'[d] # "null" => trap'[d] = trap[d]
        /\ \A d \in Conds : trap'[d] = "cmd" => trap[d] = "cmd" /\ ~traps_invalid /\ d # c
        /\ ~traps_invalid => \A d \in Conds : d # c => trap'[d] = trap[d]
    <2>1. /\ trap' = [TrapsForCommand EXCEPT ![c] = IF @ = "null" THEN @ ELSE "freed"]
          /\ TrapsForCommand \in [Conds -> TrapValues]
      BY Tables, DropType DEF TrapCmdFree
    <2>2. \A d \in Conds : d # c => trap'[d] = TrapsForCommand[d]
      BY <2>1
    <2>3. trap'[c] \in {"null", "freed"}
      BY <1>1, <2>1
    <2> QED
      BY <2>2, <2>3, Tables DEF TrapsForCommand, FreeTraps
  <1>3. ModeMatches' /\ OwnActions'
    BY <1>1 DEF ModeMatches, OwnActions, his
  <1>4. RootSettled'
    BY <1>1, <1>2 DEF RootSettled, ParentTraps, Settled, InTrapCmd, InReset, flg, Conds
  <1>5. ModeKnown'
    BY <1>1, <1>2 DEF ModeKnown, Settled, InTrapCmd, InReset, Conds
  <1>6. ParentTraps' /\ ChildReset'
    BY <1>1 DEF ParentTraps, ChildReset
  <1>7. OwnTraps'
    BY <1>1, <1>2 DEF OwnTraps, his
  <1>8. ExitUnused'
    BY <1>1, <1>2 DEF ExitUnused, his, Conds
  <1> QED
    BY <1>3, <1>4, <1>5, <1>6, <1>7, <1>8

\* trapcmd: the new action is stored.
LEMMA TrapAssignD == ASSUME IInv, DInv, TrapCmdAssign PROVE DInv'
  <1> USE DEF DInv
  <1>1. /\ UNCHANGED <<sigmode, kern, flg, traps_invalid, arg, lastrun>>
        /\ pc = "tc_assign" /\ pc' \in {"tc_probe", "tc_set"}
        /\ mine' = mine \cup {tcsig}
        /\ exitruns' = (IF tcsig = 0 THEN 0 ELSE exitruns)
        /\ trap' = [trap EXCEPT ![tcsig] = tcact]
        /\ pc' = "tc_probe" => tcsig # 0 /\ sigmode[tcsig] = "unknown"
    BY DEF TrapCmdAssign, Go
  <1>2. \A d \in Conds : d # tcsig => trap'[d] = trap[d]
    BY <1>1, Tables
  <1>3. ModeMatches' /\ OwnActions'
    BY <1>1 DEF ModeMatches, OwnActions
  <1>4. RootSettled'
    BY <1>1, <1>2 DEF RootSettled, Settled, InTrapCmd, InReset, flg, arg, Conds
  <1>8. ModeKnown'
    BY <1>1, <1>2, Tables DEF ModeKnown, Settled, InTrapCmd, InReset, arg, Conds
  <1>5. ParentTraps' /\ ChildReset'
    BY <1>1 DEF ParentTraps, ChildReset, InTrapCmd, flg
  <1>6. OwnTraps'
    BY <1>1, <1>2 DEF OwnTraps
  <1>7. ExitUnused'
    BY <1>1, <1>2 DEF ExitUnused, Conds
  <1> QED
    BY <1>3, <1>4, <1>5, <1>6, <1>7, <1>8

\* trapcmd: the probe with an uninitialised handler.
LEMMA TrapProbeD == ASSUME IInv, DInv, TrapCmdProbe PROVE DInv'
  <1> USE DEF DInv
  <1>1. /\ UNCHANGED <<trap, sigmode, traps_invalid, flg, arg, his>>
        /\ pc = "tc_probe" /\ pc' = "tc_set"
        /\ kern' = [kern EXCEPT ![tcsig] = "garbage"]
    BY DEF TrapCmdProbe, Go
  <1>2. /\ \A s \in Sigs : s # tcsig => kern'[s] = kern[s]
        /\ tcsig \in Sigs /\ sigmode[tcsig] = "unknown"
    BY <1>1, Tables DEF ModeKnown
  <1>3. ModeMatches' /\ OwnActions'
    BY <1>1, <1>2 DEF ModeMatches, OwnActions, his
  <1>4. RootSettled'
    BY <1>1, <1>2 DEF RootSettled, Settled, InTrapCmd, InReset, flg, arg
  <1>7. ModeKnown'
    BY <1>1, <1>2 DEF ModeKnown, Settled, InTrapCmd, InReset, arg
  <1>5. ParentTraps' /\ ChildReset'
    BY <1>1 DEF ParentTraps, ChildReset, InTrapCmd, flg
  <1>6. OwnTraps' /\ ExitUnused'
    BY <1>1 DEF OwnTraps, ExitUnused, his
  <1> QED
    BY <1>3, <1>4, <1>5, <1>6, <1>7

\* trapcmd: setsignal, and INTON.
LEMMA TrapSetD == ASSUME IInv, DInv, TrapCmdSet PROVE DInv'
  <1> USE DEF DInv
  <1> DEFINE act == Actions(trap, traps_invalid, rootshell, iflag, mflag)
  <1>1. /\ UNCHANGED <<trap, traps_invalid, flg, arg, his>>
        /\ pc = "tc_set" /\ SetSignals({tcsig} \ {0}, act)
        /\ Inton(suppressint - 1, "check")
    BY DEF TrapCmdSet
  <1>2. pc' \in {"check", "handler", "exit2", "exit3", "dead"}
    BY <1>1, IntonPlaces DEF IInv, TypeOK
  <1>3. act \in [Sigs -> {"dfl", "catch", "ign"}] /\ traps_invalid = FALSE
    BY <1>1, ActionsType, Tables DEF ParentTraps, InTrapCmd
  <1>4. \A s \in Sigs : act[s] = Action(s, trap[s], FALSE, rootshell, iflag, mflag)
    BY <1>3 DEF Actions
  <1> HIDE DEF act
  <1>5. ASSUME NEW s \in Sigs
        PROVE  /\ s = tcsig => sigmode'[s] = act[s] /\ kern'[s] = act[s]
               /\ s # tcsig => sigmode'[s] = sigmode[s] /\ kern'[s] = kern[s]
               /\ sigmode'[s] # "unknown" => kern'[s] = sigmode'[s]
    <2>1. s # 0
      BY DEF Sigs
    <2> QED
      BY <1>1, <1>3, <2>1, Tables, SetSignalsEffect DEF ModeMatches
  <1>6. ModeMatches' /\ OwnActions'
    BY <1>1, <1>5 DEF ModeMatches, OwnActions, his
  <1>7. RootSettled'
    BY <1>1, <1>2, <1>4, <1>5 DEF RootSettled, Settled, InTrapCmd, InReset, flg, arg
  <1>8. ModeKnown'
    BY <1>1, <1>2, <1>3, <1>5 DEF ModeKnown, Settled, InTrapCmd, InReset, arg
  <1>9. ParentTraps' /\ ChildReset'
    BY <1>1, <1>2, <1>3 DEF ParentTraps, ChildReset, flg
  <1>10. OwnTraps' /\ ExitUnused'
    BY <1>1, <1>2, <1>3 DEF OwnTraps, ExitUnused, his
  <1> QED
    BY <1>6, <1>7, <1>8, <1>9, <1>10

\* "trap -": INTOFF, and the action of one condition is freed.
LEMMA TrapResetFreeD == ASSUME IInv, DInv, NEW c \in Conds, TrapResetFree(c) PROVE DInv'
  <1> USE DEF DInv
  <1>1. /\ UNCHANGED <<sigmode, kern, flg, traps_invalid, his>> /\ tcsig' = c
        /\ pc = "reset" /\ pc' = "rs_null"
        /\ trap[c] # "null" /\ trap' = [trap EXCEPT ![c] = "freed"]
    BY DEF TrapResetFree, Go
  <1>2. trap'[c] = "freed" /\ \A d \in Conds : d # c => trap'[d] = trap[d]
    BY <1>1, Tables
  <1>3. ModeMatches' /\ OwnActions'
    BY <1>1 DEF ModeMatches, OwnActions, his
  <1>4. RootSettled'
    BY <1>1, <1>2 DEF RootSettled, Settled, InTrapCmd, InReset, flg, Conds
  <1>5. ModeKnown'
    BY <1>1, <1>2 DEF ModeKnown, Settled, InTrapCmd, InReset, Conds
  <1>6. ParentTraps'
    BY <1>1 DEF ParentTraps, InTrapCmd, flg
  <1>7. ChildReset'
    BY <1>1, <1>2 DEF ChildReset, Conds
  <1>8. OwnTraps' /\ ExitUnused'
    BY <1>1, <1>2 DEF OwnTraps, ExitUnused, his, Conds
  <1> QED
    BY <1>3, <1>4, <1>5, <1>6, <1>7, <1>8

\* "trap -": NULL takes the place of the action.
LEMMA TrapResetNullD == ASSUME IInv, DInv, TrapResetNull PROVE DInv'
  <1> USE DEF DInv
  <1>1. /\ UNCHANGED <<sigmode, kern, flg, traps_invalid, arg, lastrun, exitruns>>
        /\ pc = "rs_null" /\ pc' = "rs_set"
        /\ mine' = mine \cup {tcsig}
        /\ trap' = [trap EXCEPT ![tcsig] = "null"]
    BY DEF TrapResetNull, Go
  <1>2. trap'[tcsig] = "null" /\ \A d \in Conds : d # tcsig => trap'[d] = trap[d]
    BY <1>1, Tables
  <1>3. ModeMatches' /\ OwnActions'
    BY <1>1 DEF ModeMatches, OwnActions
  <1>4. RootSettled'
    BY <1>1, <1>2 DEF RootSettled, Settled, InTrapCmd, InReset, flg, arg, Conds
  <1>5. ModeKnown'
    BY <1>1, <1>2 DEF ModeKnown, Settled, InTrapCmd, InReset, arg, Conds
  <1>6. ParentTraps'
    BY <1>1 DEF ParentTraps, InTrapCmd, flg
  <1>7. ChildReset'
    BY <1>1, <1>2 DEF ChildReset, Conds
  <1>8. OwnTraps' /\ ExitUnused'
    BY <1>1, <1>2 DEF OwnTraps, ExitUnused, Conds
  <1> QED
    BY <1>3, <1>4, <1>5, <1>6, <1>7, <1>8

\* "trap -": setsignal, and INTON.  In a child that still has its parent's traps
\* the disposition becomes the default, whatever the parent's was.
LEMMA TrapResetSetD == ASSUME IInv, DInv, TrapResetSet PROVE DInv'
  <1> USE DEF DInv
  <1> DEFINE act == Actions(trap, traps_invalid, rootshell, iflag, mflag)
  <1>1. /\ UNCHANGED <<trap, traps_invalid, flg, arg, his>>
        /\ pc = "rs_set" /\ SetSignals({tcsig} \ {0}, act)
        /\ Inton(suppressint - 1, "reset")
    BY DEF TrapResetSet
  <1>2. pc' \in {"reset", "handler", "exit2", "exit3", "dead"}
    BY <1>1, IntonPlaces DEF IInv, TypeOK
  <1>3. act \in [Sigs -> {"dfl", "catch", "ign"}]
    BY <1>1, ActionsType, Tables
  <1>4. \A s \in Sigs : /\ rootshell => act[s] = Action(s, trap[s], FALSE, TRUE, iflag, mflag)
                        /\ traps_invalid => act[s] # "catch"
    BY DEF Actions, Action, ParentTraps
  <1> HIDE DEF act
  <1>5. ASSUME NEW s \in Sigs
        PROVE  /\ s = tcsig => sigmode'[s] = act[s] /\ kern'[s] = act[s]
               /\ s # tcsig => sigmode'[s] = sigmode[s] /\ kern'[s] = kern[s]
               /\ sigmode'[s] # "unknown" => kern'[s] = sigmode'[s]
    <2>1. s # 0
      BY DEF Sigs
    <2> QED
      BY <1>1, <1>3, <2>1, Tables, SetSignalsEffect DEF ModeMatches
  <1>6. ModeMatches' /\ OwnActions'
    BY <1>1, <1>5 DEF ModeMatches, OwnActions, his
  <1>7. RootSettled'
    BY <1>1, <1>2, <1>4, <1>5 DEF RootSettled, Settled, InTrapCmd, InReset, flg, arg
  <1>8. ModeKnown'
    BY <1>1, <1>2, <1>3, <1>5 DEF ModeKnown, Settled, InTrapCmd, InReset, arg
  <1>9. ParentTraps' /\ ChildReset'
    BY <1>1, <1>2, <1>4, <1>5 DEF ParentTraps, ChildReset, InTrapCmd, flg
  <1>10. OwnTraps' /\ ExitUnused'
    BY <1>1, <1>2 DEF OwnTraps, ExitUnused, his
  <1> QED
    BY <1>6, <1>7, <1>8, <1>9, <1>10

\* "trap -": the end of the loop; there are no traps left, the parent's or others.
LEMMA TrapResetDoneD == ASSUME IInv, DInv, TrapResetDone PROVE DInv'
  <1> USE DEF DInv
  <1>1. /\ UNCHANGED <<trap, sigmode, kern, flg, arg, his>> /\ traps_invalid' = FALSE
        /\ pc = "reset" /\ pc' = "check" /\ \A c \in Conds : trap[c] = "null"
    BY DEF TrapResetDone, Go
  <1>2. ModeMatches' /\ OwnActions' /\ ExitUnused'
    BY <1>1 DEF ModeMatches, OwnActions, ExitUnused, his
  <1>3. RootSettled' /\ ModeKnown'
    BY <1>1 DEF RootSettled, ModeKnown, Settled, InTrapCmd, InReset, flg, arg
  <1>4. ParentTraps' /\ ChildReset' /\ OwnTraps'
    BY <1>1 DEF ParentTraps, ChildReset, OwnTraps
  <1> QED
    BY <1>2, <1>3, <1>4

\* "trap -" begins, from a place outside of trapcmd to another.
LEMMA TrapResetD == ASSUME IInv, DInv, TrapReset PROVE DInv'
  BY QuietStep DEF TrapReset, Go, Away, arg, his

\* set -i, +i, -m, +m.
LEMMA SetOptionsD ==
  ASSUME IInv, DInv, NEW i \in BOOLEAN, NEW m \in BOOLEAN, SetOptions(i, m)
  PROVE  DInv'
  <1> USE DEF DInv
  <1> DEFINE set == Sigs \cap ((IF i # iflag THEN {SIGINT, SIGQUIT, SIGTERM} ELSE {})
                       \cup (IF m # mflag /\ rootshell THEN StopSignals ELSE {}))
             act == Actions(trap', FALSE, rootshell, i, m)
  <1>1. /\ UNCHANGED <<rootshell, arg, his>> /\ traps_invalid' = FALSE
        /\ iflag' = i /\ mflag' = m
        /\ pc = "cmd" /\ pc' = "check" /\ SetSignals(set, act)
        /\ trap' = TrapsForCommand
    BY DEF SetOptions, Go
  <1>2. /\ \A c \in Conds : trap'[c] # "null" => trap'[c] = trap[c]
        /\ \A c \in Conds : traps_invalid => trap'[c] # "cmd"
        /\ ~traps_invalid => trap' = trap
    BY <1>1, Tables DEF TrapsForCommand, FreeTraps, TrapValues
  <1>3. act \in [Sigs -> {"dfl", "catch", "ign"}]
    BY <1>1, ActionsType, Tables
  <1>4. rootshell => \A s \in Sigs : act[s] = Action(s, trap'[s], FALSE, TRUE, i, m)
    BY Tables DEF Actions
  <1> HIDE DEF act
  <1>5. ASSUME NEW s \in Sigs
        PROVE  /\ s \in set => sigmode'[s] = act[s] /\ kern'[s] = act[s]
               /\ s \notin set => sigmode'[s] = sigmode[s] /\ kern'[s] = kern[s]
               /\ sigmode'[s] # "unknown" => kern'[s] = sigmode'[s]
    <2> HIDE DEF set
    <2> QED
      BY <1>1, <1>3, Tables, SetSignalsEffect DEF ModeMatches
  <1>6. ModeMatches' /\ OwnActions'
    BY <1>1, <1>5 DEF ModeMatches, OwnActions, his
  <1>7. RootSettled'
    <2> SUFFICES ASSUME rootshell, NEW s \in Sigs, sigmode'[s] # "unknown"
                 PROVE  kern'[s] = Action(s, trap'[s], FALSE, TRUE, i, m)
      BY <1>1 DEF RootSettled
    <2>1. CASE s \in set
      BY <1>4, <1>5, <2>1
    <2>2. CASE s \notin set
      <3>1. kern[s] = Action(s, trap[s], FALSE, TRUE, iflag, mflag)
        BY <1>1, <1>5, <2>2 DEF RootSettled, Settled, InTrapCmd, InReset
      <3>2. trap' = trap
        BY <1>2 DEF ParentTraps
      <3>3. /\ iflag = i \/ s \notin {SIGINT, SIGQUIT, SIGTERM}
            /\ mflag = m \/ s \notin StopSignals
        BY <2>2
      <3>4. iflag \in BOOLEAN /\ mflag \in BOOLEAN
        BY Tables
      <3>5. Action(s, trap[s], FALSE, TRUE, iflag, mflag) = Action(s, trap[s], FALSE, TRUE, i, m)
        <4>1. CASE iflag = i /\ mflag = m
          BY <4>1
        <4>2. CASE iflag # i /\ mflag = m
          BY <3>3, <4>2 DEF Action
        <4>3. CASE iflag = i /\ mflag # m
          BY <3>3, <4>3 DEF Action, StopSignals
        <4>4. CASE iflag # i /\ mflag # m
          BY <3>3, <4>4 DEF Action, StopSignals
        <4> QED
          BY <4>1, <4>2, <4>3, <4>4
      <3> QED
        BY <1>5, <2>2, <3>1, <3>2, <3>5
    <2> QED
      BY <2>1, <2>2
  <1>8. ModeKnown'
    BY <1>1, <1>2, <1>3, <1>5 DEF ModeKnown, Settled, InTrapCmd, InReset, Conds
  <1>9. ParentTraps' /\ ChildReset'
    BY <1>1 DEF ParentTraps, ChildReset, InTrapCmd
  <1>10. OwnTraps' /\ ExitUnused'
    BY <1>1, <1>2 DEF OwnTraps, ExitUnused, Conds, his
  <1> QED
    BY <1>6, <1>7, <1>8, <1>9, <1>10

\* fork(): the traps are the parent's from here on.
LEMMA ForkD == ASSUME IInv, DInv, NEW mode \in ForkModes, Fork(mode) PROVE DInv'
  <1> USE DEF DInv
  <1>1. /\ UNCHANGED <<sigmode, kern, flg, tcsig, lastrun, exitruns>>
        /\ traps_invalid' = FALSE /\ pc = "cmd" /\ pc' = "forked"
        /\ trap' = TrapsForCommand
    BY DEF Fork, DropParentTraps, Go
  <1>2. /\ \A c \in Conds : trap'[c] # "null" => trap'[c] = trap[c]
        /\ ~traps_invalid => trap' = trap
    BY <1>1, Tables DEF TrapsForCommand, FreeTraps, TrapValues
  <1>3. ModeMatches' /\ OwnActions'
    BY <1>1 DEF ModeMatches, OwnActions
  <1>4. RootSettled'
    BY <1>1, <1>2 DEF RootSettled, ParentTraps, Settled, InTrapCmd, InReset, flg
  <1>5. ModeKnown'
    BY <1>1, <1>2 DEF ModeKnown, Settled, InTrapCmd, InReset, Conds
  <1>6. ParentTraps' /\ ChildReset' /\ OwnTraps'
    BY <1>1 DEF ParentTraps, ChildReset, OwnTraps
  <1>7. ExitUnused'
    BY <1>1, <1>2 DEF ExitUnused, Conds
  <1> QED
    BY <1>3, <1>4, <1>5, <1>6, <1>7

\* forkchild begins clear_traps.
LEMMA ForkedChildD == ASSUME IInv, DInv, ForkedChild PROVE DInv'
  <1> USE DEF DInv
  <1>1. /\ UNCHANGED <<trap, sigmode, kern, tcsig, his>> /\ rootshell' = FALSE
        /\ traps_invalid' = TRUE /\ pc = "forked" /\ pc' = "clear" /\ idx' = 1
    BY DEF ForkedChild
  <1>2. ModeMatches' /\ OwnActions' /\ RootSettled' /\ ExitUnused'
    BY <1>1 DEF ModeMatches, OwnActions, RootSettled, ExitUnused, his
  <1>3. ModeKnown' /\ ParentTraps' /\ OwnTraps'
    BY <1>1 DEF ModeKnown, ParentTraps, OwnTraps, Settled, InTrapCmd, InReset
  <1>4. ChildReset'
    <2>1. \A s \in Sigs : ~(s < 1)
      BY DEF Sigs
    <2> QED
      BY <1>1, <2>1 DEF ChildReset
  <1> QED
    BY <1>2, <1>3, <1>4

\* clear_traps resets one signal.
LEMMA ClearTrapsD == ASSUME IInv, DInv, ClearTraps PROVE DInv'
  <1> USE DEF DInv
  <1> DEFINE act == Actions(trap, TRUE, rootshell, iflag, mflag)
  <1>1. /\ UNCHANGED <<trap, traps_invalid, flg, pc, tcsig, his>> /\ pc = "clear"
        /\ idx < NSIG /\ idx' = idx + 1
        /\ \/ trap[idx] = "cmd" /\ SetSignals({idx}, act)
           \/ trap[idx] # "cmd" /\ UNCHANGED <<sigmode, kern>>
    BY DEF ClearTraps, ctl
  <1>2. traps_invalid = TRUE /\ rootshell = FALSE
    BY <1>1, Tables DEF ParentTraps
  <1>3. act \in [Sigs -> {"dfl", "catch", "ign"}] /\ \A s \in Sigs : act[s] = "dfl"
    <2>1. \A s \in Sigs : act[s] = "dfl"
      BY <1>2 DEF Actions, Action
    <2> QED
      BY <1>2, <2>1, ActionsType, Tables
  <1> HIDE DEF act
  <1>4. ASSUME NEW s \in Sigs
        PROVE  /\ s = idx /\ trap[s] = "cmd" => sigmode'[s] = "dfl" /\ kern'[s] = "dfl"
               /\ s # idx \/ trap[s] # "cmd" => sigmode'[s] = sigmode[s] /\ kern'[s] = kern[s]
               /\ sigmode'[s] # "unknown" => kern'[s] = sigmode'[s]
    <2>1. CASE trap[idx] = "cmd"
      BY <1>1, <1>3, <2>1, Tables, SetSignalsEffect DEF ModeMatches
    <2>2. CASE trap[idx] # "cmd"
      BY <1>1, <2>2 DEF ModeMatches
    <2> QED
      BY <2>1, <2>2
  <1>5. ModeMatches' /\ OwnActions'
    BY <1>1, <1>4 DEF ModeMatches, OwnActions, his
  <1>6. RootSettled' /\ ParentTraps' /\ OwnTraps' /\ ExitUnused'
    BY <1>1, <1>2 DEF RootSettled, ParentTraps, OwnTraps, ExitUnused, InTrapCmd, InReset, flg, his
  <1>7. ModeKnown'
    BY <1>1, <1>4 DEF ModeKnown, Settled, InTrapCmd, InReset
  <1>8. ChildReset'
    <2> SUFFICES ASSUME NEW s \in Sigs, s < idx + 1, trap[s] = "cmd" PROVE kern'[s] # "catch"
      BY <1>1 DEF ChildReset
    <2>1. CASE s = idx
      BY <1>4, <2>1
    <2>2. CASE s # idx
      <3>1. s < idx
        BY <2>2, Tables DEF Sigs
      <3> QED
        BY <1>1, <1>2, <1>4, <2>2, <3>1 DEF ChildReset
    <2> QED
      BY <2>1, <2>2
  <1> QED
    BY <1>5, <1>6, <1>7, <1>8

\* ignoresig, when the table is right before.
LEMMA IgnoreEffect ==
  ASSUME NEW mode \in [Sigs -> Modes], NEW k \in [Sigs -> Dispositions], NEW S,
         NEW s \in Sigs, mode[s] # "unknown" => k[s] = mode[s]
  PROVE  LET two == IgnoreSignals(S, mode, k)
         IN  /\ s \in S => two.mode[s] = "ign" /\ two.kern[s] = "ign"
             /\ s \notin S => two.mode[s] = mode[s] /\ two.kern[s] = k[s]
             /\ two.mode[s] # "unknown" => two.kern[s] = two.mode[s]
  <1>1. mode[s] # "hardign"
    BY DEF Dispositions
  <1>2. IgnoreSignals(S, mode, k).mode[s] =
          IF s \in S /\ mode[s] \notin {"ign", "hardign"} THEN "ign" ELSE mode[s]
    BY DEF IgnoreSignals
  <1>3. IgnoreSignals(S, mode, k).kern[s] =
          IF s \in S /\ mode[s] \notin {"ign", "hardign"} THEN "ign" ELSE k[s]
    BY DEF IgnoreSignals
  <1>4. CASE s \in S /\ mode[s] # "ign"
    BY <1>1, <1>2, <1>3, <1>4
  <1>5. CASE ~(s \in S /\ mode[s] # "ign")
    <2>1. IgnoreSignals(S, mode, k).mode[s] = mode[s] /\ IgnoreSignals(S, mode, k).kern[s] = k[s]
      BY <1>2, <1>3, <1>5
    <2> QED
      BY <1>5, <2>1
  <1> QED
    BY <1>4, <1>5

\* What the rest of forkchild does to a signal: SIG_DFL, SIG_IGN, or nothing.
ToDefault(s) ==
  \/ wasroot /\ forkmode # "NOJOB" /\ mflag /\ s \in StopSignals
  \/ wasroot /\ iflag /\ s \in {SIGINT, SIGQUIT, SIGTERM}
ToIgnore(s) ==
  ~(wasroot /\ mflag) /\ forkmode = "BG" /\ s \in {SIGINT, SIGQUIT}

LEMMA ForkModeEffect ==
  ASSUME IInv, ModeMatches, ParentTraps, ForkMode, NEW s \in Sigs
  PROVE  /\ sigmode'[s] # "unknown" => kern'[s] = sigmode'[s]
         /\ \/ sigmode'[s] = "dfl" /\ kern'[s] = "dfl" /\ ToDefault(s)
            \/ sigmode'[s] = "ign" /\ kern'[s] = "ign" /\ ToIgnore(s)
            \/ sigmode'[s] = sigmode[s] /\ kern'[s] = kern[s] /\ ~ToIgnore(s)
  <1> DEFINE act == Actions(trap, TRUE, rootshell, iflag, mflag)
             jobctl == wasroot /\ forkmode # "NOJOB" /\ mflag
             tty == IF jobctl THEN Sigs \cap StopSignals ELSE {}
             m1 == ModeAfter(tty, act, sigmode)
             k1 == KernAfter(tty, act, sigmode, kern)
             bg == IF ~jobctl /\ forkmode = "BG"
                   THEN Sigs \cap {SIGINT, SIGQUIT} ELSE {}
             two == IgnoreSignals(bg, m1, k1)
             job == IF wasroot /\ iflag
                    THEN Sigs \cap {SIGINT, SIGQUIT, SIGTERM} ELSE {}
  <1>1. sigmode' = ModeAfter(job, act, two.mode) /\ kern' = KernAfter(job, act, two.mode, two.kern)
    BY DEF ForkMode
  <1>2. pc = "clear" /\ traps_invalid = TRUE /\ rootshell = FALSE
    BY Tables DEF ForkMode, ParentTraps
  <1>3. act \in [Sigs -> {"dfl", "catch", "ign"}] /\ act[s] = "dfl"
    <2>1. act[s] = "dfl"
      BY <1>2 DEF Actions, Action
    <2> QED
      BY <1>2, <2>1, ActionsType, Tables
  <1>4. /\ s \in tty => s \in StopSignals /\ wasroot /\ forkmode # "NOJOB" /\ mflag
        /\ s \in job => wasroot /\ iflag /\ s \in {SIGINT, SIGQUIT, SIGTERM}
        /\ s \in bg <=> ToIgnore(s)
    BY DEF ToIgnore
  <1> HIDE DEF act, tty, bg, job
  <1>5. \A r \in Sigs : sigmode[r] \in Dispositions \cup {"unknown"}
    BY Tables DEF ModeMatches, Dispositions
  <1>6. \A r \in Sigs :
          /\ r \in tty => m1[r] = act[r] /\ k1[r] = act[r]
          /\ r \notin tty => m1[r] = sigmode[r] /\ k1[r] = kern[r]
    BY <1>3, <1>5, Tables DEF ModeAfter, KernAfter, ModeMatches, Dispositions
  <1>7. m1 \in [Sigs -> Modes] /\ k1 \in [Sigs -> Dispositions]
    BY <1>3, Tables DEF ModeAfter, KernAfter, Modes, Dispositions
  <1>8. m1[s] # "unknown" => k1[s] = m1[s]
    BY <1>3, <1>6 DEF ModeMatches
  <1> HIDE DEF m1, k1
  <1>9. /\ s \in bg => two.mode[s] = "ign" /\ two.kern[s] = "ign"
        /\ s \notin bg => two.mode[s] = m1[s] /\ two.kern[s] = k1[s]
        /\ two.mode[s] # "unknown" => two.kern[s] = two.mode[s]
    BY <1>7, <1>8, IgnoreEffect
  <1> HIDE DEF two
  <1>10. two.mode[s] # "hardign"
    BY <1>7, <1>8, <1>9 DEF Dispositions
  <1>11. /\ s \in job => sigmode'[s] = "dfl" /\ kern'[s] = "dfl"
         /\ s \notin job => sigmode'[s] = two.mode[s] /\ kern'[s] = two.kern[s]
    BY <1>1, <1>3, <1>9, <1>10 DEF ModeAfter, KernAfter
  <1>12. CASE s \in job
    BY <1>4, <1>11, <1>12 DEF ToDefault
  <1>13. CASE s \notin job /\ s \in bg
    BY <1>4, <1>9, <1>11, <1>13
  <1>14. CASE s \notin job /\ s \notin bg /\ s \in tty
    BY <1>3, <1>4, <1>6, <1>9, <1>11, <1>14 DEF ToDefault
  <1>15. CASE s \notin job /\ s \notin bg /\ s \notin tty
    BY <1>4, <1>6, <1>9, <1>11, <1>15
  <1> QED
    BY <1>12, <1>13, <1>14, <1>15

LEMMA ForkModeD == ASSUME IInv, DInv, ForkMode PROVE DInv'
  <1> USE DEF DInv
  <1>1. /\ UNCHANGED <<trap, traps_invalid, flg, arg, his>> /\ pc = "clear" /\ idx = NSIG
        /\ \E k : Inton(k, "cmd")
    BY DEF ForkMode
  <1>2. pc' \in {"cmd", "handler", "exit2", "exit3", "dead"}
    BY <1>1, IntonPlaces DEF IInv, TypeOK
  <1>3. traps_invalid = TRUE /\ rootshell = FALSE
    BY <1>1, Tables DEF ParentTraps
  <1>4. ModeMatches'
    BY ForkModeEffect DEF ModeMatches
  <1>5. RootSettled' /\ ParentTraps' /\ OwnTraps' /\ OwnActions' /\ ExitUnused'
    BY <1>1, <1>2, <1>3 DEF RootSettled, ParentTraps, OwnTraps, OwnActions, ExitUnused,
                            InTrapCmd, flg, his
  <1>6. ModeKnown'
    <2> SUFFICES ASSUME NEW s \in Sigs, trap[s] # "null" PROVE sigmode'[s] # "unknown"
      BY <1>1, <1>2 DEF ModeKnown
    <2>1. sigmode[s] # "unknown"
      BY <1>1 DEF ModeKnown, Settled, InTrapCmd, InReset
    <2> QED
      BY <2>1, ForkModeEffect
  <1>7. ChildReset'
    <2> SUFFICES ASSUME NEW s \in Sigs, trap[s] = "cmd" PROVE kern'[s] # "catch"
      BY <1>1 DEF ChildReset
    <2>1. s < idx
      BY <1>1 DEF Sigs
    <2>2. kern[s] # "catch"
      BY <1>1, <1>3, <2>1 DEF ChildReset
    <2> QED
      BY <2>2, ForkModeEffect
  <1> QED
    BY <1>4, <1>5, <1>6, <1>7

\* dotrap starts an action: its owner is this process.
LEMMA TakeD == ASSUME IInv, DInv, TakeSignal PROVE DInv'
  <1> USE DEF DInv
  <1>1. /\ UNCHANGED <<tbl, flg, arg, mine, exitruns>> /\ pc = "scan" /\ idx < NSIG
        /\ pc' \in {"zero", "cmd"}
        /\ \/ UNCHANGED lastrun
           \/ ~traps_invalid /\ trap[idx] = "cmd" /\ lastrun'.set = Provenance(idx)
    BY DEF TakeSignal, Go
  <1>2. OwnActions'
    <2>1. CASE UNCHANGED lastrun
      BY <2>1 DEF OwnActions
    <2>2. CASE ~traps_invalid /\ trap[idx] = "cmd" /\ lastrun'.set = Provenance(idx)
      <3>1. idx \in Conds
        BY <1>1, Tables DEF Conds, Sigs
      <3>2. idx \in mine
        BY <1>1, <2>2, <3>1 DEF OwnTraps
      <3> QED
        BY <2>2, <3>2 DEF OwnActions, Provenance
    <2> QED
      BY <1>1, <2>1, <2>2
  <1>3. ModeMatches' /\ RootSettled' /\ ModeKnown'
    BY <1>1 DEF ModeMatches, RootSettled, ModeKnown, Settled, InTrapCmd, InReset, tbl, flg, arg
  <1>4. ParentTraps' /\ ChildReset' /\ OwnTraps' /\ ExitUnused'
    BY <1>1 DEF ParentTraps, ChildReset, OwnTraps, ExitUnused, InTrapCmd, tbl, flg
  <1> QED
    BY <1>2, <1>3, <1>4

\* The EXIT action starts: it is this process's, and it is forgotten first.
LEMMA ExitActionD == ASSUME IInv, DInv, ExitAction PROVE DInv'
  <1> USE DEF DInv
  <1>1. /\ UNCHANGED <<sigmode, kern, traps_invalid, flg, arg, mine>>
        /\ pc = "exit2" /\ pc' \in {"exit3", "cmd"}
        /\ \/ UNCHANGED <<trap, exitruns, lastrun>>
           \/ /\ ~traps_invalid /\ trap[0] = "cmd" /\ lastrun'.set = Provenance(0)
              /\ trap' = [trap EXCEPT ![0] = "null"] /\ exitruns' = exitruns + 1
    BY DEF ExitAction
  <1>2. /\ \A s \in Sigs : trap'[s] = trap[s]
        /\ \A c \in Conds : trap'[c] = "cmd" => trap[c] = "cmd"
    <2>1. trap' = trap \/ trap' = [trap EXCEPT ![0] = "null"]
      BY <1>1
    <2>2. \A c \in Conds : c # 0 => trap'[c] = trap[c]
      BY <2>1, Tables
    <2>3. trap'[0] = trap[0] \/ trap'[0] = "null"
      BY <2>1, Tables DEF Conds
    <2> QED
      BY <2>2, <2>3 DEF Conds, Sigs
  <1>3. ModeMatches' /\ RootSettled' /\ ModeKnown'
    BY <1>1, <1>2 DEF ModeMatches, RootSettled, ModeKnown, Settled, InTrapCmd, InReset, flg, arg
  <1>4. ParentTraps' /\ ChildReset' /\ OwnTraps'
    BY <1>1, <1>2 DEF ParentTraps, ChildReset, OwnTraps, InTrapCmd, flg
  <1>5. CASE UNCHANGED <<trap, exitruns, lastrun>>
    BY <1>3, <1>4, <1>5 DEF OwnActions, ExitUnused
  <1>6. CASE /\ ~traps_invalid /\ trap[0] = "cmd" /\ lastrun'.set = Provenance(0)
             /\ trap' = [trap EXCEPT ![0] = "null"] /\ exitruns' = exitruns + 1
    <2>1. 0 \in mine
      BY <1>1, <1>6 DEF OwnTraps, Conds
    <2>2. OwnActions'
      BY <1>6, <2>1 DEF OwnActions, Provenance
    <2>3. exitruns' = 1 /\ trap'[0] = "null"
      BY <1>6, Tables DEF ExitUnused, Conds
    <2> QED
      BY <1>3, <1>4, <2>2, <2>3 DEF ExitUnused
  <1> QED
    BY <1>1, <1>5, <1>6

\* Where a signal leaves the process: no longjmp starts in trapcmd or in the child
\* half of a fork.
LEMMA DeliverPlaces ==
  ASSUME IInv, NEW s \in Sigs, Deliver(s)
  PROVE  pc' = pc \/ pc' = "dead" \/ (pc \in Away /\ pc' \in Away /\ pc # "dead")
  <1>0. HdlOK /\ CtlOK
    BY DEF IInv, TypeOK
  <1>1. CASE UNCHANGED ctl
    BY <1>1 DEF ctl
  <1>2. CASE \E how \in {"killed", "crashed"} : Die(how)
    BY <1>2 DEF Die
  <1>3. CASE ~(suppressint > 0) /\ Unwind("INT")
    <2>1. pc' \in {"handler", "exit2", "exit3"}
      BY <1>0, <1>3, UnwindPlaces
    <2>2. pc \in Places /\ ~InSection /\ pc # "dead"
      BY <1>0, <1>3 DEF IInv, TypeOK, Control, ItrOK, CtlOK, Deliver
    <2> QED
      BY <2>1, <2>2 DEF Places, InSection, Away
  <1> QED
    BY <1>1, <1>2, <1>3, DeliverControl

\* Every step keeps the dispositions in order.
LEMMA NextDInv == ASSUME IInv, DInv, [Next]_vars PROVE DInv'
  <1>0. HdlOK /\ CtlOK
    BY DEF IInv, TypeOK
  <1>1. CASE UserCommand
    <2>1. ASSUME NEW st \in {0, 1}, Command(st) PROVE DInv'
      BY <2>1, DropStep DEF Command, Go, Away, his
    <2>2. CASE EnterCritical
      BY <2>2, DropStep DEF EnterCritical, Go, Away, his
    <2>3. ASSUME NEW c \in Conditions, NEW act \in {"null", "empty", "cmd"},
                 TrapCmdFree(c, act)
          PROVE  DInv'
      BY <2>3, TrapFreeD
    <2>4. CASE TrapReset
      BY <2>4, TrapResetD
    <2>5. ASSUME NEW i \in BOOLEAN, NEW m \in BOOLEAN, SetOptions(i, m) PROVE DInv'
      BY <2>5, SetOptionsD
    <2>6. ASSUME NEW mode \in ForkModes, Fork(mode) PROVE DInv'
      BY <2>6, ForkD
    <2>7. ASSUME NEW given \in BOOLEAN, NEW st \in {0, 1}, ExitCmd(given, st)
          PROVE  DInv'
      BY <2>7, DropStep DEF ExitCmd, Go, Away
    <2>8. ASSUME NEW d \in 0..MaxSignals, CaughtError(d) PROVE DInv'
      BY <2>8, DropStep DEF CaughtError, Away, his
    <2>9. CASE UncaughtError
      <3>1. pc' \in {"handler", "exit2", "exit3"}
        BY <1>0, <2>9, UnwindPlaces DEF UncaughtError
      <3> QED
        BY <2>9, <3>1, DropStep DEF UncaughtError, Away, his
    <2> QED
      BY <1>1, <2>1, <2>2, <2>3, <2>4, <2>5, <2>6, <2>7, <2>8, <2>9 DEF UserCommand
  <1>2. CASE LeaveCritical \/ Handler
    <2>1. CASE LeaveCritical
      <3>1. pc' \in {"check", "handler", "exit2", "exit3", "dead"}
        BY <1>0, <2>1, IntonPlaces DEF LeaveCritical
      <3> QED
        BY <2>1, <3>1, QuietStep DEF LeaveCritical, Away, arg, his
    <2>2. CASE Handler
      <3>1. pc' \in {"exit1", "check", "handler", "exit2", "exit3", "dead"}
        BY <1>0, <2>2, IntonPlaces DEF Handler, Go
      <3> QED
        BY <2>2, <3>1, QuietStep DEF Handler, Away, arg
    <2> QED
      BY <1>2, <2>1, <2>2
  <1>3. CASE CheckPending \/ ZeroPending \/ ScanNext \/ ScanDone
    BY <1>3, QuietStep DEF CheckPending, ZeroPending, ScanNext, ScanDone, Go, Away, arg, his, ctl
  <1>4. CASE SubshellEnd
    <2>1. pc' \in {"handler", "exit2", "exit3"}
      BY <1>0, <1>4, UnwindPlaces DEF SubshellEnd
    <2> QED
      BY <1>4, <2>1, QuietStep DEF SubshellEnd, Away, arg, his
  <1>5. CASE ActionDone \/ ExitTraps \/ ExitActionDone \/ ExitFinal
    BY <1>5, QuietStep DEF ActionDone, ExitTraps, ExitActionDone, ExitFinal, Die, Go, Away, arg, his
  <1>6. CASE TakeSignal \/ ExitAction
    BY <1>6, TakeD, ExitActionD
  <1>7. CASE TrapCmdAssign \/ TrapCmdProbe \/ TrapCmdSet
    BY <1>7, TrapAssignD, TrapProbeD, TrapSetD
  <1>11. CASE (\E c \in Conds : TrapResetFree(c)) \/ TrapResetNull \/ TrapResetSet \/ TrapResetDone
    BY <1>11, TrapResetFreeD, TrapResetNullD, TrapResetSetD, TrapResetDoneD
  <1>8. CASE ForkedChild \/ ClearTraps \/ ForkMode
    BY <1>8, ForkedChildD, ClearTrapsD, ForkModeD
  <1>9. ASSUME NEW s \in Sigs, Deliver(s) PROVE DInv'
    <2>1. UNCHANGED <<tbl, flg, arg, mine, lastrun, exitruns>>
      BY <1>9 DEF Deliver
    <2>2. pc' = pc \/ pc' = "dead" \/ (pc \in Away /\ pc' \in Away /\ pc # "dead")
      BY <1>9, DeliverPlaces
    <2> QED
      BY <2>1, <2>2, QuietStep DEF arg
  <1>10. CASE UNCHANGED vars
    BY <1>10, QuietStep DEF vars, ctl, arg, his
  <1> QED
    BY <1>1, <1>2, <1>3, <1>4, <1>5, <1>6, <1>7, <1>11, <1>8, <1>9, <1>10 DEF Next, ShellStep

\* The dispositions, owners and counts are in order in every behaviour.
LEMMA DInductive == Spec => []DInv
  <1>1. Init => DInv
    BY InitDInv
  <1>2. IInv /\ DInv /\ [Next]_vars => DInv'
    BY NextDInv
  <1> QED
    BY <1>1, <1>2, Inductive, PTL DEF Spec

\* In the root shell, between commands, every disposition the shell has set is the
\* one trap[], -i and -m call for, in whatever order they were changed and
\* whatever signals came in between (setsignal in trap.c, setinteractive and
\* setjobctl).
THEOREM RootInOrder == Spec => []RootDispositions
  <1>1. DInv => RootDispositions
    BY DEF DInv, RootSettled, RootDispositions, Settled, InTrapCmd, InReset
  <1> QED
    BY <1>1, DInductive, PTL

\* A trap action or EXIT action runs only in the process that set it, through
\* every fork: clear_traps marks the table, and free_traps empties it before
\* anything else runs.
THEOREM ActionsOwned == Spec => []OwnActions
  <1>1. DInv => OwnActions
    BY DEF DInv
  <1> QED
    BY <1>1, DInductive, PTL

\* The EXIT action runs at most once, also when it exits, fails or is interrupted.
THEOREM ExitOnce == Spec => []ExitActionOnce
  <1>1. DInv => ExitActionOnce
    BY DEF DInv, ExitUnused, ExitActionOnce
  <1> QED
    BY <1>1, DInductive, PTL

\* After the fork no handler is left in a child for a signal its parent traps:
\* none of the parent's actions can become pending in it, with or without -i and -m.
THEOREM ChildResets == Spec => []SubshellResetsTrapped
  <1>1. DInv => SubshellResetsTrapped
    BY DEF DInv, ChildReset, SubshellResetsTrapped
  <1> QED
    BY <1>1, DInductive, PTL

-----------------------------------------------------------------------------
(* A shell without -i and -m: what a child does about signals.             *)

\* A step that leaves traps, dispositions and owners alone, and goes from a
\* place outside of trapcmd and the child half of a fork to another, stays where
\* it is, or dies.
LEMMA QuietN ==
  ASSUME NoJobControl, UNCHANGED <<tbl, flg, tcsig, mine, forkmode>>,
         \/ pc' = pc
         \/ pc' = "dead"
         \/ pc \in Away /\ pc' \in Away /\ pc # "dead"
  PROVE  NoJobControl'
  <1> USE DEF NoJobControl, tbl, flg
  <1>1. KeptIgnored'
    BY DEF KeptIgnored, Away
  <1>2. BackgroundIgnoresKeyboard'
    BY DEF BackgroundIgnoresKeyboard, Away
  <1> QED
    BY <1>1, <1>2 DEF Away

\* ... also when it begins by dropping the parent's traps.
LEMMA DropN ==
  ASSUME IInv, NoJobControl, DropParentTraps \/ UNCHANGED tbl,
         UNCHANGED <<flg, mine, forkmode>>,
         pc \in Away, pc' \in Away, pc # "dead"
  PROVE  NoJobControl'
  <1> USE DEF NoJobControl, flg
  <1>1. /\ UNCHANGED <<sigmode, kern>>
        /\ \A s \in Sigs : trap'[s] = "empty" => trap[s] = "empty"
    BY Tables DEF DropParentTraps, TrapsForCommand, FreeTraps, tbl, Conds
  <1>2. KeptIgnored'
    BY <1>1 DEF KeptIgnored, Away
  <1>3. BackgroundIgnoresKeyboard'
    BY <1>1 DEF BackgroundIgnoresKeyboard, Away
  <1> QED
    BY <1>2, <1>3 DEF Away

\* trapcmd up to its setsignal, and the start of a fork.
LEMMA WindowN ==
  ASSUME IInv, DInv, NoJobControl,
         \/ \E c \in Conditions, act \in {"null", "empty", "cmd"} : TrapCmdFree(c, act)
         \/ TrapCmdAssign \/ TrapCmdProbe
         \/ \E mode \in ForkModes : Fork(mode)
         \/ ForkedChild
  PROVE  NoJobControl'
  <1> USE DEF NoJobControl
  <1>1. ASSUME NEW c \in Conditions, NEW act \in {"null", "empty", "cmd"}, TrapCmdFree(c, act)
        PROVE  NoJobControl'
    <2>1. /\ UNCHANGED <<sigmode, kern, flg, mine, forkmode>> /\ tcsig' = c
          /\ pc = "cmd" /\ pc' = "tc_assign"
          /\ trap' = [TrapsForCommand EXCEPT ![c] = IF @ = "null" THEN @ ELSE "freed"]
      BY <1>1 DEF TrapCmdFree, Go, his
    <2>2. TrapsForCommand \in [Conds -> TrapValues] /\ c \in Conds
      BY <1>1, Tables, DropType
    <2>3. \A s \in Sigs : trap'[s] = "empty" => trap[s] = "empty"
      <3>1. trap'[c] # "empty"
        BY <2>1, <2>2
      <3>2. \A s \in Sigs : s # c => trap'[s] = TrapsForCommand[s]
        BY <2>1, <2>2 DEF Conds
      <3> QED
        BY <3>1, <3>2, Tables DEF TrapsForCommand, FreeTraps, Conds
    <2>4. KeptIgnored'
      BY <2>1, <2>3 DEF KeptIgnored
    <2>5. BackgroundIgnoresKeyboard'
      BY <2>1 DEF BackgroundIgnoresKeyboard, flg
    <2> QED
      BY <2>1, <2>4, <2>5 DEF flg
  <1>2. CASE TrapCmdAssign
    <2>1. /\ UNCHANGED <<sigmode, kern, flg, tcsig, forkmode>> /\ mine' = mine \cup {tcsig}
          /\ pc = "tc_assign" /\ pc' \in {"tc_probe", "tc_set"}
          /\ trap' = [trap EXCEPT ![tcsig] = tcact]
      BY <1>2 DEF TrapCmdAssign, Go, arg
    <2>2. \A s \in Sigs : s # tcsig => trap'[s] = trap[s]
      BY <2>1, Tables DEF Conds
    <2>3. KeptIgnored'
      BY <2>1, <2>2 DEF KeptIgnored
    <2>4. BackgroundIgnoresKeyboard'
      BY <2>1 DEF BackgroundIgnoresKeyboard, flg
    <2> QED
      BY <2>1, <2>3, <2>4 DEF flg
  <1>3. CASE TrapCmdProbe
    <2>1. /\ UNCHANGED <<trap, sigmode, flg, tcsig, forkmode, mine>>
          /\ pc = "tc_probe" /\ pc' = "tc_set"
          /\ kern' = [kern EXCEPT ![tcsig] = "garbage"]
      BY <1>3 DEF TrapCmdProbe, Go, arg, his
    <2>2. \A s \in Sigs : s # tcsig => kern'[s] = kern[s]
      BY <2>1, Tables
    <2>3. KeptIgnored'
      BY <2>1, <2>2 DEF KeptIgnored
    <2>4. BackgroundIgnoresKeyboard'
      BY <2>1, <2>2 DEF BackgroundIgnoresKeyboard, flg
    <2> QED
      BY <2>1, <2>3, <2>4 DEF flg
  <1>4. ASSUME NEW mode \in ForkModes, Fork(mode) PROVE NoJobControl'
    <2>1. /\ UNCHANGED <<sigmode, kern, flg, tcsig>> /\ pc = "cmd" /\ pc' = "forked"
          /\ trap' = TrapsForCommand
      BY <1>4 DEF Fork, DropParentTraps, Go
    <2>2. \A s \in Sigs : trap'[s] = "empty" => trap[s] = "empty"
      BY <2>1, Tables DEF TrapsForCommand, FreeTraps, Conds
    <2>3. KeptIgnored'
      BY <2>1, <2>2 DEF KeptIgnored
    <2>4. BackgroundIgnoresKeyboard'
      BY <2>1 DEF BackgroundIgnoresKeyboard
    <2> QED
      BY <2>1, <2>3, <2>4 DEF flg
  <1>5. CASE ForkedChild
    <2>1. /\ UNCHANGED <<trap, sigmode, kern, iflag, mflag, tcsig>>
          /\ pc = "forked" /\ pc' = "clear"
      BY <1>5 DEF ForkedChild
    <2>2. KeptIgnored'
      BY <2>1 DEF KeptIgnored
    <2>3. BackgroundIgnoresKeyboard'
      BY <2>1 DEF BackgroundIgnoresKeyboard
    <2> QED
      BY <2>1, <2>2, <2>3
  <1> QED
    BY <1>1, <1>2, <1>3, <1>4, <1>5

\* setsignal as trapcmd calls it.
LEMMA TrapSetN == ASSUME IInv, DInv, NoJobControl, TrapCmdSet PROVE NoJobControl'
  <1> USE DEF NoJobControl
  <1> DEFINE act == Actions(trap, traps_invalid, rootshell, iflag, mflag)
  <1>1. /\ UNCHANGED <<trap, flg, tcsig, forkmode, mine>>
        /\ pc = "tc_set" /\ SetSignals({tcsig} \ {0}, act)
        /\ Inton(suppressint - 1, "check")
    BY DEF TrapCmdSet, arg, his
  <1>2. pc' \in {"check", "handler", "exit2", "exit3", "dead"}
    BY <1>1, IntonPlaces DEF IInv, TypeOK
  <1>3. act \in [Sigs -> {"dfl", "catch", "ign"}]
    BY ActionsType, Tables
  <1>4. ~traps_invalid
    BY <1>1 DEF DInv, ParentTraps, InTrapCmd
  <1>5. \A s \in Sigs : trap[s] = "empty" => act[s] = "ign"
    BY <1>4 DEF Actions, Action
  <1> HIDE DEF act
  <1>6. ASSUME NEW s \in Sigs
        PROVE  /\ s = tcsig => sigmode'[s] = act[s] /\ kern'[s] = act[s]
               /\ s # tcsig => sigmode'[s] = sigmode[s] /\ kern'[s] = kern[s]
    <2>1. s # 0
      BY DEF Sigs
    <2> QED
      BY <1>1, <1>3, <2>1, Tables, SetSignalsEffect DEF DInv, ModeMatches
  <1>7. KeptIgnored'
    BY <1>1, <1>2, <1>5, <1>6 DEF KeptIgnored
  <1>8. BackgroundIgnoresKeyboard'
    BY <1>1, <1>6 DEF BackgroundIgnoresKeyboard, flg
  <1> QED
    BY <1>1, <1>2, <1>7, <1>8 DEF flg

\* "trap -": a signal it resets is one of this process's from then on.
LEMMA TrapResetN ==
  ASSUME IInv, DInv, NoJobControl,
         (\E c \in Conds : TrapResetFree(c)) \/ TrapResetNull \/ TrapResetSet
  PROVE  NoJobControl'
  <1> USE DEF NoJobControl
  <1>1. ASSUME NEW c \in Conds, TrapResetFree(c) PROVE NoJobControl'
    <2>1. /\ UNCHANGED <<sigmode, kern, flg, mine, forkmode>>
          /\ pc = "reset" /\ pc' = "rs_null" /\ trap' = [trap EXCEPT ![c] = "freed"]
      BY <1>1 DEF TrapResetFree, Go, his
    <2>2. \A s \in Sigs : trap'[s] = "empty" => trap[s] = "empty"
      BY <2>1, Tables DEF Conds
    <2>3. KeptIgnored'
      BY <2>1, <2>2 DEF KeptIgnored
    <2>4. BackgroundIgnoresKeyboard'
      BY <2>1 DEF BackgroundIgnoresKeyboard, flg
    <2> QED
      BY <2>1, <2>3, <2>4 DEF flg
  <1>2. CASE TrapResetNull
    <2>1. /\ UNCHANGED <<sigmode, kern, flg, tcsig, forkmode>> /\ mine' = mine \cup {tcsig}
          /\ pc = "rs_null" /\ pc' = "rs_set" /\ trap' = [trap EXCEPT ![tcsig] = "null"]
      BY <1>2 DEF TrapResetNull, Go, arg
    <2>2. /\ trap'[tcsig] = "null"
          /\ \A s \in Sigs : trap'[s] = "empty" => trap[s] = "empty"
      BY <2>1, Tables DEF Conds
    <2>3. KeptIgnored'
      BY <2>1, <2>2 DEF KeptIgnored
    <2>4. BackgroundIgnoresKeyboard'
      BY <2>1 DEF BackgroundIgnoresKeyboard, flg
    <2> QED
      BY <2>1, <2>2, <2>3, <2>4 DEF flg
  <1>3. CASE TrapResetSet
    <2> DEFINE act == Actions(trap, traps_invalid, rootshell, iflag, mflag)
    <2>1. /\ UNCHANGED <<trap, flg, tcsig, forkmode, mine>>
          /\ pc = "rs_set" /\ SetSignals({tcsig} \ {0}, act)
          /\ Inton(suppressint - 1, "reset")
      BY <1>3 DEF TrapResetSet, arg, his
    <2>2. pc' \in {"reset", "handler", "exit2", "exit3", "dead"}
      BY <2>1, IntonPlaces DEF IInv, TypeOK
    <2>3. act \in [Sigs -> {"dfl", "catch", "ign"}]
      BY ActionsType, Tables
    <2> HIDE DEF act
    <2>4. ASSUME NEW s \in Sigs, s # tcsig
          PROVE  sigmode'[s] = sigmode[s] /\ kern'[s] = kern[s]
      BY <2>1, <2>3, <2>4, Tables, SetSignalsEffect DEF DInv, ModeMatches
    <2>5. trap[tcsig] = "null"
      BY <2>1
    <2>6. KeptIgnored'
      BY <2>1, <2>2, <2>4, <2>5 DEF KeptIgnored
    <2>7. BackgroundIgnoresKeyboard'
      BY <2>1, <2>4 DEF BackgroundIgnoresKeyboard, flg
    <2> QED
      BY <2>1, <2>2, <2>6, <2>7 DEF flg
  <1> QED
    BY <1>1, <1>2, <1>3

\* clear_traps and the rest of forkchild leave trap '' alone, and a background
\* child ignores the keyboard's signals.
LEMMA ForkN ==
  ASSUME IInv, DInv, NoJobControl, ClearTraps \/ ForkMode PROVE NoJobControl'
  <1> USE DEF NoJobControl
  <1>1. CASE ClearTraps
    <2> DEFINE act == Actions(trap, TRUE, rootshell, iflag, mflag)
    <2>1. /\ UNCHANGED <<trap, flg, pc, tcsig, mine, forkmode>> /\ pc = "clear"
          /\ \/ trap[idx] = "cmd" /\ SetSignals({idx}, act)
             \/ trap[idx] # "cmd" /\ UNCHANGED <<sigmode, kern>>
      BY <1>1 DEF ClearTraps, ctl, his
    <2>2. act \in [Sigs -> {"dfl", "catch", "ign"}]
      BY ActionsType, Tables
    <2> HIDE DEF act
    <2>3. ASSUME NEW s \in Sigs, trap[s] = "empty"
          PROVE  sigmode'[s] = sigmode[s] /\ kern'[s] = kern[s]
      <3>1. CASE trap[idx] = "cmd"
        <4>1. s \notin {idx}
          BY <2>3, <3>1
        <4> QED
          BY <2>1, <2>2, <3>1, <4>1, Tables, SetSignalsEffect DEF DInv, ModeMatches
      <3>2. CASE trap[idx] # "cmd"
        BY <2>1, <3>2
      <3> QED
        BY <3>1, <3>2
    <2>4. KeptIgnored'
      BY <2>1, <2>3 DEF KeptIgnored
    <2>5. BackgroundIgnoresKeyboard'
      BY <2>1 DEF BackgroundIgnoresKeyboard
    <2> QED
      BY <2>1, <2>4, <2>5 DEF flg
  <1>2. CASE ForkMode
    <2>1. /\ UNCHANGED <<trap, flg, tcsig, mine, forkmode>> /\ pc = "clear"
          /\ \E k : Inton(k, "cmd")
      BY <1>2 DEF ForkMode, arg, his
    <2>2. pc' \in {"cmd", "handler", "exit2", "exit3", "dead"}
      BY <2>1, IntonPlaces DEF IInv, TypeOK
    <2>3. ASSUME NEW s \in Sigs
          PROVE  /\ \/ sigmode'[s] = "ign" /\ kern'[s] = "ign"
                    \/ sigmode'[s] = sigmode[s] /\ kern'[s] = kern[s]
                 /\ forkmode = "BG" /\ s \in {SIGINT, SIGQUIT} => kern'[s] = "ign"
      BY <1>2, ForkModeEffect DEF DInv, ToDefault, ToIgnore
    <2>4. KeptIgnored'
      BY <2>1, <2>2, <2>3 DEF KeptIgnored
    <2>5. BackgroundIgnoresKeyboard'
      BY <2>1, <2>3 DEF BackgroundIgnoresKeyboard
    <2> QED
      BY <2>1, <2>2, <2>4, <2>5 DEF flg
  <1> QED
    BY <1>1, <1>2

\* Every step of a shell that commands cannot make interactive.
LEMMA NextN ==
  ASSUME ~WithOptions, IInv, DInv, NoJobControl, [Next]_vars PROVE NoJobControl'
  <1>0. HdlOK /\ CtlOK
    BY DEF IInv, TypeOK
  <1>1. CASE UserCommand
    <2>1. ASSUME NEW st \in {0, 1}, Command(st) PROVE NoJobControl'
      BY <2>1, DropN DEF Command, Go, Away, his, arg
    <2>2. CASE EnterCritical
      BY <2>2, DropN DEF EnterCritical, Go, Away, his, arg
    <2>3. ASSUME NEW c \in Conditions, NEW act \in {"null", "empty", "cmd"},
                 TrapCmdFree(c, act)
          PROVE  NoJobControl'
      BY <2>3, WindowN
    <2>4. CASE TrapReset
      BY <2>4, QuietN DEF TrapReset, Go, Away, arg, his
    <2>5. ASSUME NEW i \in BOOLEAN, NEW m \in BOOLEAN, SetOptions(i, m) PROVE NoJobControl'
      BY <2>5 DEF SetOptions
    <2>6. ASSUME NEW mode \in ForkModes, Fork(mode) PROVE NoJobControl'
      BY <2>6, WindowN
    <2>7. ASSUME NEW given \in BOOLEAN, NEW st \in {0, 1}, ExitCmd(given, st)
          PROVE  NoJobControl'
      BY <2>7, DropN DEF ExitCmd, Go, Away, arg
    <2>8. ASSUME NEW d \in 0..MaxSignals, CaughtError(d) PROVE NoJobControl'
      BY <2>8, DropN DEF CaughtError, Away, his, arg
    <2>9. CASE UncaughtError
      <3>1. pc' \in {"handler", "exit2", "exit3"}
        BY <1>0, <2>9, UnwindPlaces DEF UncaughtError
      <3> QED
        BY <2>9, <3>1, DropN DEF UncaughtError, Away, his, arg
    <2> QED
      BY <1>1, <2>1, <2>2, <2>3, <2>4, <2>5, <2>6, <2>7, <2>8, <2>9 DEF UserCommand
  <1>2. CASE LeaveCritical
    <2>1. pc' \in {"check", "handler", "exit2", "exit3", "dead"}
      BY <1>0, <1>2, IntonPlaces DEF LeaveCritical
    <2> QED
      BY <1>2, <2>1, QuietN DEF LeaveCritical, Away, arg, his
  <1>3. CASE Handler
    <2>1. pc' \in {"exit1", "check", "handler", "exit2", "exit3", "dead"}
      BY <1>0, <1>3, IntonPlaces DEF Handler, Go
    <2> QED
      BY <1>3, <2>1, QuietN DEF Handler, Away, arg
  <1>4. CASE CheckPending \/ ZeroPending \/ ScanNext \/ ScanDone
    BY <1>4, QuietN DEF CheckPending, ZeroPending, ScanNext, ScanDone, Go, Away, arg, his, ctl
  <1>5. CASE SubshellEnd
    <2>1. pc' \in {"handler", "exit2", "exit3"}
      BY <1>0, <1>5, UnwindPlaces DEF SubshellEnd
    <2> QED
      BY <1>5, <2>1, QuietN DEF SubshellEnd, Away, arg, his
  <1>6. CASE ActionDone \/ ExitTraps \/ ExitActionDone \/ ExitFinal
    BY <1>6, QuietN DEF ActionDone, ExitTraps, ExitActionDone, ExitFinal, Die, Go, Away, arg, his
  <1>7. CASE TakeSignal
    BY <1>7, QuietN DEF TakeSignal, Go, Away, arg
  <1>8. CASE ExitAction
    <2>1. /\ UNCHANGED <<sigmode, kern, flg, arg, mine>>
          /\ pc = "exit2" /\ pc' \in {"exit3", "cmd"}
          /\ UNCHANGED trap \/ trap' = [trap EXCEPT ![0] = "null"]
      BY <1>8 DEF ExitAction
    <2>2. \A s \in Sigs : trap'[s] = trap[s]
      BY <2>1, Tables DEF Conds, Sigs
    <2>3. KeptIgnored'
      BY <2>1, <2>2 DEF NoJobControl, KeptIgnored, arg
    <2>4. BackgroundIgnoresKeyboard'
      BY <2>1 DEF NoJobControl, BackgroundIgnoresKeyboard, arg, flg
    <2> QED
      BY <2>1, <2>3, <2>4 DEF NoJobControl, flg
  <1>9. CASE TrapCmdAssign \/ TrapCmdProbe \/ ForkedChild
    BY <1>9, WindowN
  <1>10. CASE TrapCmdSet
    BY <1>10, TrapSetN
  <1>14. CASE (\E c \in Conds : TrapResetFree(c)) \/ TrapResetNull \/ TrapResetSet
    BY <1>14, TrapResetN
  <1>15. CASE TrapResetDone
    <2>1. /\ UNCHANGED <<trap, sigmode, kern, flg, arg, mine>> /\ pc = "reset" /\ pc' = "check"
      BY <1>15 DEF TrapResetDone, Go, his
    <2>2. KeptIgnored'
      BY <2>1 DEF NoJobControl, KeptIgnored, arg
    <2>3. BackgroundIgnoresKeyboard'
      BY <2>1 DEF NoJobControl, BackgroundIgnoresKeyboard, arg, flg
    <2> QED
      BY <2>1, <2>2, <2>3 DEF NoJobControl, flg
  <1>11. CASE ClearTraps \/ ForkMode
    BY <1>11, ForkN
  <1>12. ASSUME NEW s \in Sigs, Deliver(s) PROVE NoJobControl'
    <2>1. UNCHANGED <<tbl, flg, arg, mine>>
      BY <1>12 DEF Deliver
    <2>2. pc' = pc \/ pc' = "dead" \/ (pc \in Away /\ pc' \in Away /\ pc # "dead")
      BY <1>12, DeliverPlaces
    <2> QED
      BY <2>1, <2>2, QuietN DEF arg
  <1>13. CASE UNCHANGED vars
    BY <1>13, QuietN DEF vars, ctl, arg, his
  <1> QED
    BY <1>1, <1>2, <1>3, <1>4, <1>5, <1>6, <1>7, <1>8, <1>9, <1>10, <1>11, <1>12, <1>13, <1>14, <1>15
       DEF Next, ShellStep

\* In a shell without -i and -m a child treats signals as it must before it asks
\* for anything itself: what its parent trapped is reset, what its parent ignored
\* stays ignored, and the keyboard does not reach a background command
\* (forkchild in jobs.c, clear_traps).  With -i or -m the last two are false: the
\* calls of setsignal in forkchild then undo trap ''.
THEOREM ChildrenProtected ==
  ASSUME ~IflagInit, ~MflagInit, ~WithOptions
  PROVE  Spec => []ChildDispositions
  <1>1. Init => NoJobControl
    BY DEF Init, NoJobControl, KeptIgnored, BackgroundIgnoresKeyboard, Conds
  <1>2. IInv /\ DInv /\ NoJobControl /\ [Next]_vars => NoJobControl'
    BY NextN
  <1>3. DInv /\ NoJobControl => ChildDispositions
    BY DEF DInv, NoJobControl, ChildDispositions, ChildReset, SubshellResetsTrapped,
           KeptIgnored, SubshellKeepsIgnored
  <1> QED
    BY <1>1, <1>2, <1>3, Inductive, DInductive, PTL DEF Spec
=============================================================================
