------------------------------ MODULE AshTrap ------------------------------
(***************************************************************************)
(* Signals, traps, interrupt gating and exit of the ash shell: trap.c, the *)
(* exception primitives of error.c and error.h, the exception handler of   *)
(* main.c, and the child half of a fork (forkchild in jobs.c) as far as it *)
(* changes signal state.                                                   *)
(*                                                                         *)
(* One process is modelled.  Signals are delivered to it between any two   *)
(* steps.  When it forks, the model follows the child: what the parent     *)
(* does next is the behaviour in which the fork was not taken.             *)
(*                                                                         *)
(* Only the order of the signal numbers matters, so an instance numbers    *)
(* its signals 1 .. NSIG-1; a signal the instance leaves out is given a    *)
(* number that is not in that range.                                       *)
(***************************************************************************)
EXTENDS Naturals, FiniteSets

CONSTANTS
  NSIG,                                        \* one above the last signal
  SIGINT, SIGQUIT, SIGTERM, SIGTSTP, SIGTTOU,  \* numbers of the named signals
  ScriptMode,   \* minusc || sflag == 0: commands come from -c or a file
  IflagInit, MflagInit,                        \* -i and -m when main starts
  EntryIgnored, \* the signals that were ignored when the shell was entered
  Conditions,   \* the conditions the instance's trap commands name
  ForkModes,    \* the fork modes the instance uses
  WithErrors,   \* whether commands may raise EXERROR
  WithOptions,  \* whether commands may change -i and -m
  MaxSignals, MaxTrapCmds, MaxForks            \* bounds of the instance

Sigs == 1..(NSIG - 1)
Conds == {0} \cup Sigs                        \* 0 is EXIT

ASSUME NsigAssumption == NSIG \in Nat /\ NSIG > 1
ASSUME FlagAssumption ==
  /\ ScriptMode \in BOOLEAN /\ IflagInit \in BOOLEAN /\ MflagInit \in BOOLEAN
  /\ WithErrors \in BOOLEAN /\ WithOptions \in BOOLEAN
ASSUME SetAssumption ==
  /\ EntryIgnored \subseteq Sigs
  /\ Conditions \subseteq Conds
  /\ ForkModes \subseteq {"FG", "BG", "NOJOB"}
ASSUME BoundAssumption ==
  MaxSignals \in Nat /\ MaxTrapCmds \in Nat /\ MaxForks \in Nat

VARIABLES
  trap,           \* trap[]: "null", "empty" (''), "cmd", "freed" (dangling)
  sigmode,        \* sigmode[]: what the shell believes the disposition is
  kern,           \* the disposition the kernel has
  traps_invalid,
  gotsig, pendingsigs,
  suppressint, intpending,
  rootshell, iflag, mflag,
  in_dotrap, last_trapsig,
  exiting, exiting_status, exitstatus,
  savestatus,     \* the local "savestatus" of each activation of dotrap
  exitsig,        \* the local "sig" of exitshell_savedstatus
  pc,             \* where the process is
  live,           \* activations of dotrap that are on the C stack
  exc,            \* exception
  phase, base,    \* which setjmp "handler" names, and "live" at that setjmp
  idx,            \* "i" of dotrap's scan, "tp - trap" of clear_traps
  tcsig, tcact,   \* "signo" and "action" of trapcmd
  forkmode, wasroot,
  outcome,        \* how the process ended
  mine,           \* history: conditions whose trap this process set
  recv,           \* history: signals this process caught since its birth
  lastrun,        \* history: the trap action that was started last
  abandoned,      \* history: a longjmp discarded dotrap since its last scan
  exitruns,       \* history: starts of the EXIT action since it was set
  want,           \* history: the status the last exit command asked for
  nsent, ncmds, nforks

tbl == <<trap, sigmode, kern, traps_invalid>>
pnd == <<gotsig, pendingsigs>>
itr == <<suppressint, intpending>>
flg == <<rootshell, iflag, mflag>>
dtr == <<in_dotrap, last_trapsig, savestatus>>
sts == <<exiting, exiting_status, exitstatus, exitsig>>
ctl == <<pc, live, exc, abandoned, outcome>>
hdl == <<phase, base>>
arg == <<idx, tcsig, tcact, forkmode, wasroot>>
his == <<mine, recv, lastrun, exitruns, want>>
bnd == <<nsent, ncmds, nforks>>
vars == <<tbl, pnd, itr, flg, dtr, sts, ctl, hdl, arg, his, bnd>>

-----------------------------------------------------------------------------
(* setsignal: the disposition the shell wants, and what it does about it.  *)

\* The action setsignal computes from the trap table and the options.
Action(s, tv, inv, root, i, m) ==
  LET asked == IF inv \/ tv = "null" THEN "dfl"
               ELSE IF tv = "empty" THEN "ign" ELSE "catch"
      special == CASE s = SIGINT              -> IF i \/ ScriptMode
                                                 THEN "catch" ELSE "dfl"
                   [] s \in {SIGQUIT, SIGTERM} -> IF i THEN "ign" ELSE "dfl"
                   [] s \in {SIGTSTP, SIGTTOU} -> IF m THEN "ign" ELSE "dfl"
                   [] OTHER                   -> "dfl"
  IN IF root /\ asked = "dfl" THEN special ELSE asked

\* Mutant: sigmode[] is only written the first time.
ModeAfterOnce(S, act, mode) ==
  [s \in Sigs |-> IF s \in S /\ mode[s] = "unknown" THEN act[s] ELSE mode[s]]

\* sigmode[] and the kernel after setsignal(s) for every s of S.  A mode that
\* is not known yet is forced: sigact stays SIG_DFL, so it is never SIG_IGN.
ModeAfter(S, act, mode) ==
  [s \in Sigs |-> IF s \in S /\ mode[s] # "hardign" THEN act[s] ELSE mode[s]]

KernAfter(S, act, mode, k) ==
  [s \in Sigs |-> IF s \in S /\ mode[s] \notin {"hardign", act[s]}
                  THEN act[s] ELSE k[s]]

Actions(t, inv, root, i, m) ==
  [s \in Sigs |-> Action(s, t[s], inv, root, i, m)]

SetSignals(S, act) ==
  /\ sigmode' = ModeAfter(S, act, sigmode)
  /\ kern' = KernAfter(S, act, sigmode, kern)

\* Mutant: the loop starts at trap[1].
FreeTrapsNotExit(t) ==
  [c \in Conds |-> IF c # 0 /\ t[c] = "cmd" THEN "null" ELSE t[c]]

\* free_traps: only the traps that are commands are dropped.
FreeTraps(t) == [c \in Conds |-> IF t[c] = "cmd" THEN "null" ELSE t[c]]

\* evaltree and evalcommand drop the parent's traps before they run anything
\* but trap (or eval) in a subshell.  free_traps holds interrupts off, and onsig
\* does not look at trap[] before traps_invalid is cleared, so that no signal
\* tells one turn of its loop from the next.
TrapsForCommand == IF traps_invalid THEN FreeTraps(trap) ELSE trap

DropParentTraps ==
  /\ trap' = TrapsForCommand
  /\ traps_invalid' = FALSE
  /\ UNCHANGED <<sigmode, kern>>

-----------------------------------------------------------------------------
(* Exceptions: exraise, onint, INTON and FORCEINTON.                       *)

Go(p) == /\ pc' = p
         /\ UNCHANGED <<live, exc, abandoned, outcome>>

Die(how) == /\ pc' = "dead"
            /\ outcome' = how
            /\ UNCHANGED <<live, exc, abandoned>>

\* exraise: longjmp to the setjmp "handler" names.  Activations of dotrap
\* above it are gone.
Unwind(e) ==
  /\ exc' = e
  /\ pc' = CASE phase = "none"     -> "handler"
             [] phase = "traps"    -> "exit2"
             [] phase = "exittrap" -> "exit3"
  /\ live' = base
  /\ abandoned' = (abandoned \/ live > base)
  /\ UNCHANGED outcome

\* onint with interrupts allowed: back to the prompt, or die of SIGINT.
TakeInterrupt ==
  /\ intpending' = FALSE
  /\ IF rootshell /\ iflag THEN Unwind("INT") ELSE Die("killed")

\* Mutant: INTON forgets the interrupt that was held back.
IntonForgets(k, p) ==
  suppressint' = k /\ Go(p) /\ UNCHANGED intpending

\* suppressint drops to k, and control continues at p unless an interrupt was
\* held back and may be taken now.
Inton(k, p) ==
  /\ suppressint' = k
  /\ IF k = 0 /\ intpending THEN TakeInterrupt
                            ELSE Go(p) /\ UNCHANGED intpending

-----------------------------------------------------------------------------
(* The signal handler.                                                     *)

\* What the handler may read through trap[s]; freed memory reads as anything.
Readings(tv) == IF tv = "freed" THEN {"empty", "cmd"} ELSE {tv}

\* Mutant: onint does not look at suppressint.
OnIntUngated == TakeInterrupt

OnInt == IF suppressint > 0
         THEN intpending' = TRUE /\ UNCHANGED ctl
         ELSE TakeInterrupt

Onsig(s) ==
  \E tv \in Readings(trap[s]) :
    \/ /\ s = SIGINT /\ (traps_invalid \/ tv = "null")
       /\ IF suppressint > 0 /\ in_dotrap = 0
          THEN intpending' = TRUE /\ UNCHANGED ctl
          ELSE OnInt
       /\ UNCHANGED pnd
    \/ /\ ~traps_invalid /\ tv = "cmd"
       /\ gotsig' = [gotsig EXCEPT ![s] = TRUE]
       /\ pendingsigs' = pendingsigs + 1
       /\ IF iflag /\ s = SIGINT THEN OnInt ELSE UNCHANGED <<intpending, ctl>>
    \/ /\ ~(s = SIGINT /\ (traps_invalid \/ tv = "null"))
       /\ traps_invalid \/ tv # "cmd"
       /\ UNCHANGED <<pnd, intpending, ctl>>

StopSignals == {SIGTSTP, SIGTTOU}

Deliver(s) ==
  /\ pc # "dead" /\ nsent < MaxSignals
  /\ nsent' = nsent + 1
  /\ CASE kern[s] = "catch" ->
            /\ Onsig(s)
            /\ recv' = recv \cup {s}
       [] kern[s] = "dfl" /\ s \notin StopSignals ->
            Die("killed") /\ UNCHANGED <<pnd, intpending, recv>>
       [] kern[s] = "garbage" ->      \* an uninitialised handler is installed
            /\ Die("crashed") \/ UNCHANGED ctl
            /\ UNCHANGED <<pnd, intpending, recv>>
       [] OTHER -> UNCHANGED <<pnd, intpending, ctl, recv>>
  /\ UNCHANGED <<tbl, suppressint, flg, dtr, sts, hdl, arg,
                 mine, lastrun, exitruns, want, ncmds, nforks>>

-----------------------------------------------------------------------------
(* Evaluation, as far as signals see it: a command runs ("cmd"), then      *)
(* evaltree looks at pendingsigs ("check").                                *)

\* A command that does not touch signals; it sets $?.
Command(st) ==
  /\ pc = "cmd"
  /\ exitstatus' = st
  /\ DropParentTraps
  /\ Go("check")
  /\ UNCHANGED <<pnd, itr, flg, dtr, exiting, exiting_status, exitsig,
                 hdl, arg, his, bnd>>

\* A builtin enters and leaves a section between INTOFF and INTON.
EnterCritical ==
  /\ pc = "cmd"
  /\ suppressint' = suppressint + 1
  /\ DropParentTraps
  /\ Go("critical")
  /\ UNCHANGED <<pnd, intpending, flg, dtr, sts, hdl, arg, his, bnd>>

\* Mutant: a path with one INTON too many.
LeaveCriticalTwice ==
  /\ pc = "critical"
  /\ Inton(suppressint - 2, "check")
  /\ UNCHANGED <<tbl, pnd, flg, dtr, sts, hdl, arg, his, bnd>>

LeaveCritical ==
  /\ pc = "critical"
  /\ Inton(suppressint - 1, "check")
  /\ UNCHANGED <<tbl, pnd, flg, dtr, sts, hdl, arg, his, bnd>>

\* The end of evaltree.
CheckPending ==
  /\ pc = "check"
  /\ IF pendingsigs > 0
     THEN /\ in_dotrap' = in_dotrap + 1
          /\ live' = live + 1
          /\ pc' = "zero"
          /\ UNCHANGED <<exc, abandoned, outcome, last_trapsig, savestatus>>
     ELSE Go("cmd") /\ UNCHANGED dtr
  /\ UNCHANGED <<tbl, pnd, itr, flg, sts, hdl, arg, his, bnd>>

\* error(): EXERROR goes to a builtin on the stack that is not special, with
\* d activations of dotrap below it, or else to the innermost handler.
CaughtError(d) ==
  /\ WithErrors /\ pc \in {"cmd", "critical"}
  /\ d \in base..live
  /\ suppressint' = 0 /\ intpending' = FALSE
  /\ exitstatus' = 2
  /\ exc' = "ERROR" /\ pc' = "check"
  /\ live' = d
  /\ abandoned' = (abandoned \/ live > d)
  /\ phase = "traps" => d > base
  /\ DropParentTraps \/ UNCHANGED tbl
  /\ UNCHANGED <<pnd, flg, dtr, exiting, exiting_status, exitsig,
                 hdl, arg, his, bnd, outcome>>

UncaughtError ==
  /\ WithErrors /\ pc \in {"cmd", "critical"}
  /\ intpending' = FALSE
  /\ suppressint' = suppressint + 1
  /\ Unwind("ERROR")
  /\ DropParentTraps \/ UNCHANGED tbl
  /\ UNCHANGED <<pnd, flg, dtr, sts, hdl, arg, his, bnd>>

\* The end of the command of a subshell: EV_EXIT raises EXEXIT.
SubshellEnd ==
  /\ pc = "cmd" /\ ~rootshell /\ live = base /\ phase = "none"
  /\ Unwind("EXIT")
  /\ UNCHANGED <<tbl, pnd, itr, flg, dtr, sts, hdl, arg, his, bnd>>

-----------------------------------------------------------------------------
(* dotrap.                                                                 *)

ZeroPending ==
  /\ pc = "zero"
  /\ pendingsigs' = 0
  /\ idx' = 1
  /\ pc' = "scan" /\ abandoned' = FALSE
  /\ UNCHANGED <<gotsig, live, exc, outcome, tcsig, tcact, forkmode, wasroot,
                 tbl, itr, flg, dtr, sts, hdl, his, bnd>>

ScanNext ==
  /\ pc = "scan" /\ idx < NSIG /\ ~gotsig[idx]
  /\ idx' = idx + 1
  /\ UNCHANGED <<tcsig, tcact, forkmode, wasroot,
                 tbl, pnd, itr, flg, dtr, sts, ctl, hdl, his, bnd>>

\* A signal was got: start its action, or forget it if it has none any more.
Provenance(c) == IF c \in mine THEN "self" ELSE "parent"
Addressee(c)  == IF c \in recv THEN "self" ELSE "parent"

TakeSignal ==
  /\ pc = "scan" /\ idx < NSIG /\ gotsig[idx]
  /\ gotsig' = [gotsig EXCEPT ![idx] = FALSE]
  /\ IF traps_invalid \/ trap[idx] = "null"
     THEN Go("zero") /\ UNCHANGED <<last_trapsig, savestatus, lastrun>>
     ELSE /\ last_trapsig' = idx
          /\ savestatus' = [savestatus EXCEPT ![live] = exitstatus]
          /\ IF trap[idx] = "cmd"
             THEN /\ lastrun' = [cond |-> idx, set |-> Provenance(idx),
                                 sent |-> Addressee(idx)]
                  /\ Go("cmd")
             ELSE Go("zero") /\ UNCHANGED lastrun
  /\ UNCHANGED <<pendingsigs, in_dotrap, tbl, itr, flg, sts, hdl, arg,
                 mine, recv, exitruns, want, bnd>>

\* The action ends: $? is restored, but not if a break, continue or return in
\* the action reaches beyond it.
ActionDone ==
  /\ pc = "cmd" /\ live > base
  /\ exitstatus' \in {savestatus[live], exitstatus}
  /\ Go("zero")
  /\ UNCHANGED <<tbl, pnd, itr, flg, dtr, exiting, exiting_status, exitsig,
                 hdl, arg, his, bnd>>

\* Mutant: pendingsigs is cleared after the scan.
ScanDoneClears ==
  /\ pc = "scan" /\ idx = NSIG
  /\ in_dotrap' = in_dotrap - 1
  /\ live' = live - 1
  /\ pendingsigs' = 0
  /\ pc' = IF phase = "traps" /\ live - 1 = base THEN "exit2" ELSE "cmd"
  /\ UNCHANGED <<exc, abandoned, outcome, last_trapsig, savestatus,
                 tbl, gotsig, itr, flg, sts, hdl, arg, his, bnd>>

ScanDone ==
  /\ pc = "scan" /\ idx = NSIG
  /\ in_dotrap' = in_dotrap - 1
  /\ live' = live - 1
  /\ pc' = IF phase = "traps" /\ live - 1 = base THEN "exit2" ELSE "cmd"
  /\ UNCHANGED <<exc, abandoned, outcome, last_trapsig, savestatus,
                 tbl, pnd, itr, flg, sts, hdl, arg, his, bnd>>

-----------------------------------------------------------------------------
(* The trap builtin.                                                       *)

\* trap action condition: the parent's traps go, INTOFF, free the old action.
TrapCmdFree(c, act) ==
  /\ pc = "cmd" /\ ncmds < MaxTrapCmds
  /\ ncmds' = ncmds + 1
  /\ suppressint' = suppressint + 1
  /\ trap' = [TrapsForCommand EXCEPT ![c] = IF @ = "null" THEN @ ELSE "freed"]
  /\ traps_invalid' = FALSE
  /\ tcsig' = c /\ tcact' = act
  /\ Go("tc_assign")
  /\ UNCHANGED <<sigmode, kern, pnd, intpending, flg, dtr, sts, hdl, idx,
                 forkmode, wasroot, his, nsent, nforks>>

TrapCmdAssign ==
  /\ pc = "tc_assign"
  /\ trap' = [trap EXCEPT ![tcsig] = tcact]
  /\ mine' = mine \cup {tcsig}
  /\ exitruns' = IF tcsig = 0 THEN 0 ELSE exitruns
  /\ Go(IF tcsig # 0 /\ sigmode[tcsig] = "unknown" THEN "tc_probe" ELSE "tc_set")
  /\ UNCHANGED <<sigmode, kern, traps_invalid, pnd, itr, flg, dtr, sts, hdl,
                 arg, recv, lastrun, want, bnd>>

\* sigaction(signo, &act0, &act) installs act0, which nobody initialised.
TrapCmdProbe ==
  /\ pc = "tc_probe"
  /\ kern' = [kern EXCEPT ![tcsig] = "garbage"]
  /\ Go("tc_set")
  /\ UNCHANGED <<trap, sigmode, traps_invalid, pnd, itr, flg, dtr, sts, hdl,
                 arg, his, bnd>>

TrapCmdSet ==
  /\ pc = "tc_set"
  /\ SetSignals({tcsig} \ {0}, Actions(trap, traps_invalid, rootshell, iflag, mflag))
  /\ Inton(suppressint - 1, "check")
  /\ UNCHANGED <<trap, traps_invalid, pnd, flg, dtr, sts, hdl, arg, his, bnd>>

\* "trap -": one trap after the other is dropped, while traps_invalid still holds.
TrapReset ==
  /\ pc = "cmd" /\ ncmds < MaxTrapCmds
  /\ ncmds' = ncmds + 1
  /\ Go("reset")
  /\ UNCHANGED <<tbl, pnd, itr, flg, dtr, sts, hdl, arg, his, nsent, nforks>>

\* The next condition that has a trap: INTOFF, free the action.
TrapResetFree(c) ==
  /\ pc = "reset"
  /\ trap[c] # "null" /\ \A d \in Conds : d < c => trap[d] = "null"
  /\ suppressint' = suppressint + 1
  /\ trap' = [trap EXCEPT ![c] = "freed"]
  /\ tcsig' = c
  /\ Go("rs_null")
  /\ UNCHANGED <<sigmode, kern, traps_invalid, pnd, intpending, flg, dtr, sts,
                 hdl, idx, tcact, forkmode, wasroot, his, bnd>>

TrapResetNull ==
  /\ pc = "rs_null"
  /\ trap' = [trap EXCEPT ![tcsig] = "null"]
  /\ mine' = mine \cup {tcsig}
  /\ Go("rs_set")
  /\ UNCHANGED <<sigmode, kern, traps_invalid, pnd, itr, flg, dtr, sts, hdl,
                 arg, recv, lastrun, exitruns, want, bnd>>

TrapResetSet ==
  /\ pc = "rs_set"
  /\ SetSignals({tcsig} \ {0}, Actions(trap, traps_invalid, rootshell, iflag, mflag))
  /\ Inton(suppressint - 1, "reset")
  /\ UNCHANGED <<trap, traps_invalid, pnd, flg, dtr, sts, hdl, arg, his, bnd>>

TrapResetDone ==
  /\ pc = "reset" /\ \A c \in Conds : trap[c] = "null"
  /\ traps_invalid' = FALSE
  /\ Go("check")
  /\ UNCHANGED <<trap, sigmode, kern, pnd, itr, flg, dtr, sts, hdl, arg, his, bnd>>

\* set -i, +i, -m, +m: optschanged calls setinteractive, then setjobctl,
\* which leaves a subshell alone.
SetOptions(i, m) ==
  /\ WithOptions /\ pc = "cmd" /\ ncmds < MaxTrapCmds
  /\ ncmds' = ncmds + 1
  /\ iflag' = i /\ mflag' = m
  /\ trap' = TrapsForCommand /\ traps_invalid' = FALSE
  /\ SetSignals(Sigs \cap ((IF i # iflag THEN {SIGINT, SIGQUIT, SIGTERM} ELSE {})
                       \cup (IF m # mflag /\ rootshell
                             THEN StopSignals ELSE {})),
                Actions(trap', FALSE, rootshell, i, m))
  /\ Go("check")
  /\ UNCHANGED <<rootshell, pnd, itr, dtr, sts, hdl, arg, his, nsent, nforks>>

-----------------------------------------------------------------------------
(* fork, followed in the child: forkchild.                                 *)

\* INTOFF and fork(): the child inherits everything.
Fork(mode) ==
  /\ pc = "cmd" /\ nforks < MaxForks
  /\ nforks' = nforks + 1
  /\ suppressint' = suppressint + 1
  /\ DropParentTraps
  /\ forkmode' = mode /\ wasroot' = rootshell
  /\ mine' = {} /\ recv' = {}
  /\ Go("forked")
  /\ UNCHANGED <<pnd, intpending, flg, dtr, sts, hdl, idx, tcsig, tcact,
                 lastrun, exitruns, want, nsent, ncmds>>

\* rootshell = 0, handler = &main_handler, and clear_traps begins.
ForkedChild ==
  /\ pc = "forked"
  /\ rootshell' = FALSE
  /\ phase' = "none" /\ base' = 0
  /\ traps_invalid' = TRUE
  /\ idx' = 1
  /\ pc' = "clear" /\ live' = 0 /\ abandoned' = (abandoned \/ live > 0)
  /\ UNCHANGED <<exc, outcome, trap, sigmode, kern, iflag, mflag, pnd, itr, dtr,
                 sts, tcsig, tcact, forkmode, wasroot, his, bnd>>

\* Mutant: the test of *tp is inverted.
ClearTrapsEmpty ==
  /\ pc = "clear" /\ idx < NSIG
  /\ IF trap[idx] = "empty"
     THEN SetSignals({idx}, Actions(trap, TRUE, rootshell, iflag, mflag))
     ELSE UNCHANGED <<sigmode, kern>>
  /\ idx' = idx + 1
  /\ UNCHANGED <<trap, traps_invalid, pnd, itr, flg, sts, dtr, ctl, hdl, tcsig,
                 tcact, forkmode, wasroot, his, bnd>>

\* clear_traps, one signal at a time: trap not NULL and not "".
ClearTraps ==
  /\ pc = "clear" /\ idx < NSIG
  /\ IF trap[idx] = "cmd"
     THEN SetSignals({idx}, Actions(trap, TRUE, rootshell, iflag, mflag))
     ELSE UNCHANGED <<sigmode, kern>>
  /\ idx' = idx + 1
  /\ UNCHANGED <<trap, traps_invalid, pnd, itr, flg, dtr, sts, ctl, hdl, tcsig,
                 tcact, forkmode, wasroot, his, bnd>>

\* Mutant: a signal that is caught is not ignored.
IgnoreIfDefault(S, mode, k) ==
  [mode |-> [s \in Sigs |-> IF s \in S /\ mode[s] = "dfl" THEN "ign" ELSE mode[s]],
   kern |-> [s \in Sigs |-> IF s \in S /\ mode[s] = "dfl" THEN "ign" ELSE k[s]]]

\* ignoresig: like setsignal to SIG_IGN, whatever the trap says.
IgnoreSignals(S, mode, k) ==
  [mode |-> [s \in Sigs |-> IF s \in S /\ mode[s] \notin {"ign", "hardign"}
                            THEN "ign" ELSE mode[s]],
   kern |-> [s \in Sigs |-> IF s \in S /\ mode[s] \notin {"ign", "hardign"}
                            THEN "ign" ELSE k[s]]]

\* The rest of forkchild, and the INTON (or FORCEINTON) of its caller.
ForkMode ==
  /\ pc = "clear" /\ idx = NSIG
  /\ LET act == Actions(trap, TRUE, rootshell, iflag, mflag)
         jobctl == wasroot /\ forkmode # "NOJOB" /\ mflag
         tty == IF jobctl THEN Sigs \cap StopSignals ELSE {}
         m1 == ModeAfter(tty, act, sigmode)
         k1 == KernAfter(tty, act, sigmode, kern)
         bg == IF ~jobctl /\ forkmode = "BG"
               THEN Sigs \cap {SIGINT, SIGQUIT} ELSE {}
         two == IgnoreSignals(bg, m1, k1)
         job == IF wasroot /\ iflag
                THEN Sigs \cap {SIGINT, SIGQUIT, SIGTERM} ELSE {}
     IN /\ sigmode' = ModeAfter(job, act, two.mode)
        /\ kern' = KernAfter(job, act, two.mode, two.kern)
  /\ Inton(IF forkmode = "NOJOB" THEN 0 ELSE suppressint - 1, "cmd")
  /\ UNCHANGED <<trap, traps_invalid, pnd, flg, dtr, sts, hdl, arg, his, bnd>>

-----------------------------------------------------------------------------
(* The exception handler of main, and the way out of the shell.            *)

\* exitshell_savedstatus up to its first setjmp; "given" says whether
\* exitshell was called with a status, st is that status.
StartExit(given, st) ==
  LET self == ~exiting /\ ~given /\ in_dotrap > 0 /\ last_trapsig # 0
      status == IF given THEN st
                ELSE IF exiting THEN exiting_status
                ELSE IF self THEN 128 + last_trapsig ELSE exitstatus
  IN  /\ exitsig' = IF self THEN last_trapsig ELSE 0
      /\ exiting' = (exiting \/ given)
      /\ exiting_status' = status
      /\ exitstatus' = status

\* exit and exit n.  The operand is optional.  Stopped jobs, which make the first
\* exit of an interactive shell only warn, are a matter of AshJobs.
ExitCmd(given, st) ==
  /\ pc = "cmd"
  /\ DropParentTraps
  /\ StartExit(given, st)
  /\ want' = IF given THEN st
             ELSE IF live > 0 \/ phase # "none" THEN 999   \* in an action
             ELSE exitstatus
  /\ Go("exit1")
  /\ UNCHANGED <<pnd, itr, flg, dtr, hdl, arg, mine, recv, lastrun, exitruns,
                 bnd>>

\* The setjmp of main returned.
Handler ==
  /\ pc = "handler"
  /\ LET st == IF exc = "ERROR" THEN 2 ELSE exitstatus
     IN IF ~iflag \/ ~rootshell \/ exc = "EXIT"
        THEN /\ StartExit(TRUE, st)
             /\ want' = st
             /\ Go("exit1")
             /\ UNCHANGED itr
        ELSE /\ exitstatus' = st
             /\ UNCHANGED <<exiting, exiting_status, exitsig, want>>
             /\ Inton(0, "check")
  /\ UNCHANGED <<tbl, pnd, flg, dtr, hdl, arg, mine, recv, lastrun, exitruns,
                 bnd>>

\* if (pendingsigs && !setjmp(loc.loc)) { handler = &loc; dotrap(); }
ExitTraps ==
  /\ pc = "exit1"
  /\ IF pendingsigs > 0
     THEN /\ phase' = "traps" /\ base' = live
          /\ in_dotrap' = in_dotrap + 1
          /\ live' = live + 1
          /\ pc' = "zero"
          /\ abandoned' = (abandoned \/ live > 0)
          /\ UNCHANGED <<exc, outcome, last_trapsig, savestatus>>
     ELSE Go("exit2") /\ UNCHANGED <<hdl, dtr>>
  /\ UNCHANGED <<tbl, pnd, itr, flg, sts, arg, his, bnd>>

\* Mutant: the EXIT action stays set while it runs.
ExitActionKept ==
  /\ pc = "exit2"
  /\ phase' = "exittrap" /\ base' = live
  /\ IF ~traps_invalid /\ trap[0] = "cmd"
     THEN /\ exitruns' = exitruns + 1
          /\ lastrun' = [cond |-> 0, set |-> Provenance(0), sent |-> "self"]
          /\ pc' = "cmd"
     ELSE pc' = "exit3" /\ UNCHANGED <<exitruns, lastrun>>
  /\ abandoned' = (abandoned \/ live > 0)
  /\ UNCHANGED <<live, exc, outcome, trap, sigmode, kern, traps_invalid, pnd, itr,
                 flg, dtr, sts, arg, mine, recv, want, bnd>>

\* The second setjmp: the EXIT action, which is forgotten before it runs.
ExitAction ==
  /\ pc = "exit2"
  /\ phase' = "exittrap" /\ base' = live
  /\ IF ~traps_invalid /\ trap[0] = "cmd"
     THEN /\ trap' = [trap EXCEPT ![0] = "null"]
          /\ exitruns' = exitruns + 1
          /\ lastrun' = [cond |-> 0, set |-> Provenance(0), sent |-> "self"]
          /\ pc' = "cmd"
     ELSE pc' = "exit3" /\ UNCHANGED <<trap, exitruns, lastrun>>
  /\ abandoned' = (abandoned \/ live > 0)
  /\ UNCHANGED <<live, exc, outcome, sigmode, kern, traps_invalid, pnd, itr, flg,
                 dtr, sts, arg, mine, recv, want, bnd>>

ExitActionDone ==
  /\ pc = "cmd" /\ phase = "exittrap" /\ live = base
  /\ Go("exit3")
  /\ UNCHANGED <<tbl, pnd, itr, flg, dtr, sts, hdl, arg, his, bnd>>

\* INTOFF, flush, drop job control; die of the signal, or _exit.
ExitFinal ==
  /\ pc = "exit3"
  /\ Die(IF exitsig # 0 /\ exitsig \notin StopSignals THEN "killself" ELSE "exited")
  /\ UNCHANGED <<tbl, pnd, itr, flg, dtr, sts, hdl, arg, his, bnd>>

-----------------------------------------------------------------------------
(* The specification.                                                      *)

\* The state in which main begins to run commands: procargs has called
\* optschanged, and main has called setsignal for -c and script files.
StartupSignals ==
  Sigs \cap ((IF IflagInit THEN {SIGINT, SIGQUIT, SIGTERM} ELSE {})
        \cup (IF MflagInit THEN StopSignals ELSE {})
        \cup (IF ScriptMode THEN {SIGINT, SIGQUIT, SIGTSTP} ELSE {}))

NoRun == [cond |-> 0, set |-> "self", sent |-> "self"]

Init ==
  /\ trap = [c \in Conds |-> "null"]
  /\ traps_invalid = FALSE
  /\ LET act == Actions(trap, FALSE, TRUE, IflagInit, MflagInit)
         unknown == [s \in Sigs |-> "unknown"]
         entry == [s \in Sigs |-> IF s \in EntryIgnored THEN "ign" ELSE "dfl"]
     IN /\ sigmode = ModeAfter(StartupSignals, act, unknown)
        /\ kern = KernAfter(StartupSignals, act, unknown, entry)
  /\ gotsig = [s \in Sigs |-> FALSE] /\ pendingsigs = 0
  /\ suppressint = 0 /\ intpending = FALSE
  /\ rootshell = TRUE /\ iflag = IflagInit /\ mflag = MflagInit
  /\ in_dotrap = 0 /\ last_trapsig = 0
  /\ savestatus = [n \in 1..MaxSignals |-> 0]
  /\ exiting = FALSE /\ exiting_status = 0 /\ exitstatus = 0 /\ exitsig = 0
  /\ pc = "cmd" /\ live = 0 /\ exc = "none" /\ abandoned = FALSE
  /\ outcome = "none"
  /\ phase = "none" /\ base = 0
  /\ idx = 1 /\ tcsig = 0 /\ tcact = "null" /\ forkmode = "FG" /\ wasroot = TRUE
  /\ mine = {} /\ recv = {} /\ lastrun = NoRun /\ exitruns = 0 /\ want = 999
  /\ nsent = 0 /\ ncmds = 0 /\ nforks = 0

UserCommand ==
  \/ \E st \in {0, 1} : Command(st)
  \/ EnterCritical
  \/ \E c \in Conditions, act \in {"null", "empty", "cmd"} : TrapCmdFree(c, act)
  \/ TrapReset
  \/ \E i, m \in BOOLEAN : SetOptions(i, m)
  \/ \E mode \in ForkModes : Fork(mode)
  \/ \E given \in BOOLEAN, st \in {0, 1} : ExitCmd(given, st)
  \/ \E d \in 0..MaxSignals : CaughtError(d)
  \/ UncaughtError

ShellStep ==
  \/ UserCommand \/ LeaveCritical \/ CheckPending \/ SubshellEnd
  \/ ZeroPending \/ ScanNext \/ TakeSignal \/ ActionDone \/ ScanDone
  \/ TrapCmdAssign \/ TrapCmdProbe \/ TrapCmdSet
  \/ \E c \in Conds : TrapResetFree(c)
  \/ TrapResetNull \/ TrapResetSet \/ TrapResetDone
  \/ ForkedChild \/ ClearTraps \/ ForkMode
  \/ Handler \/ ExitTraps \/ ExitAction \/ ExitActionDone \/ ExitFinal

Next == ShellStep \/ \E s \in Sigs : Deliver(s)

Spec == Init /\ [][Next]_vars

\* The process keeps running, and the actions of traps come to an end.
Fairness == /\ WF_vars(ShellStep)
            /\ SF_vars(ActionDone)
            /\ SF_vars(ExitActionDone)

FairSpec == Spec /\ Fairness

-----------------------------------------------------------------------------
(* Properties.                                                             *)

TrapValues == {"null", "empty", "cmd", "freed"}
Modes == {"unknown", "dfl", "catch", "ign", "hardign"}
Dispositions == {"dfl", "catch", "ign", "garbage"}
Places == {"cmd", "check", "critical", "zero", "scan",
           "tc_assign", "tc_probe", "tc_set", "reset", "rs_null", "rs_set",
           "forked", "clear", "handler", "exit1", "exit2", "exit3", "dead"}

\* Every variable stays in its range, group by group.
TblOK ==
  /\ trap \in [Conds -> TrapValues]
  /\ sigmode \in [Sigs -> Modes] /\ kern \in [Sigs -> Dispositions]
  /\ traps_invalid \in BOOLEAN

PndOK == gotsig \in [Sigs -> BOOLEAN] /\ pendingsigs \in Nat

ItrOK == suppressint \in Nat /\ intpending \in BOOLEAN

FlgOK == rootshell \in BOOLEAN /\ iflag \in BOOLEAN /\ mflag \in BOOLEAN

DtrOK == /\ in_dotrap \in Nat /\ last_trapsig \in Conds
         /\ savestatus \in [1..MaxSignals -> Nat]

StsOK == /\ exiting \in BOOLEAN /\ exiting_status \in Nat
         /\ exitstatus \in Nat /\ exitsig \in Conds

CtlOK == /\ pc \in Places /\ live \in 0..MaxSignals
         /\ exc \in {"none", "INT", "ERROR", "EXIT"} /\ abandoned \in BOOLEAN
         /\ outcome \in {"none", "exited", "killed", "killself", "crashed"}

HdlOK == phase \in {"none", "traps", "exittrap"} /\ base \in 0..live

ArgOK == /\ idx \in 1..NSIG /\ tcsig \in Conds
         /\ tcact \in {"null", "empty", "cmd"}
         /\ forkmode \in {"FG", "BG", "NOJOB"} /\ wasroot \in BOOLEAN

HisOK == /\ mine \subseteq Conds /\ recv \subseteq Sigs
         /\ exitruns \in Nat /\ want \in Nat

BndOK == /\ nsent \in 0..MaxSignals /\ ncmds \in 0..MaxTrapCmds
         /\ nforks \in 0..MaxForks

TypeOK == /\ TblOK /\ PndOK /\ ItrOK /\ FlgOK /\ DtrOK /\ StsOK
          /\ CtlOK /\ HdlOK /\ ArgOK /\ HisOK /\ BndOK

\* dotrap clears pendingsigs before it scans, and the handler sets gotsig
\* before pendingsigs, so that no order of the two loses a trapped signal:
\* while gotsig[s] is set, either pendingsigs will bring the shell back to
\* dotrap or an activation of dotrap has yet to look at s.  A longjmp out of
\* dotrap is the one exception.
WillScan(s) ==
  \/ pc = "zero"
  \/ pc = "scan" /\ (idx <= s \/ live - 1 > base)
  \/ pc # "scan" /\ live > base

NoTrapForgotten ==
  pc \notin {"dead", "exit3"} =>
    \A s \in Sigs : gotsig[s] => pendingsigs > 0 \/ WillScan(s) \/ abandoned

\* INTOFF keeps onint from unwinding trapcmd while trap[] holds a pointer to
\* freed memory: the dangling pointer is never seen outside that window.
TrapTableGuarded ==
  \A c \in Conds : trap[c] = "freed" => c = tcsig /\ pc \in {"tc_assign", "rs_null", "dead"}

\* In the root shell the kernel's dispositions are, between commands, what
\* trap[], -i and -m call for, whatever order traps and options came in.
RootDispositions ==
  rootshell /\ pc \in {"cmd", "check", "critical", "zero", "scan", "reset", "handler"} =>
    \A s \in Sigs : sigmode[s] # "unknown" =>
      kern[s] = Action(s, trap[s], FALSE, TRUE, iflag, mflag)

\* Once a subshell is forked, no handler is left for a signal its parent
\* traps, so that none of the parent's actions can become pending in it.
SubshellResetsTrapped ==
  ~rootshell /\ traps_invalid /\ pc \notin {"clear", "dead"} =>
    \A s \in Sigs : trap[s] = "cmd" => kern[s] # "catch"

\* A trap action or EXIT action runs only in the process that set it.
OwnActions == lastrun.set = "self"

\* Signals ignored with trap '' stay ignored in a subshell, also when it is
\* forked for a background job or a command substitution.
SubshellKeepsIgnored ==
  ~rootshell /\ pc \notin {"forked", "clear", "tc_probe", "tc_set", "dead"} =>
    \A s \in Sigs : trap[s] = "empty" => kern[s] = "ign"

\* A background command of a shell without job control is not reached by the
\* keyboard's signals until it asks for them with trap.
BackgroundIgnoresKeyboard ==
  ~rootshell /\ forkmode = "BG" /\ pc \notin {"forked", "clear", "dead"} =>
    \A s \in Sigs \cap {SIGINT, SIGQUIT} : s \in mine \/ kern[s] = "ign"

\* What a child does about signals before it asks for anything itself: the
\* three together.
ChildDispositions ==
  SubshellResetsTrapped /\ SubshellKeepsIgnored /\ BackgroundIgnoresKeyboard

\* The EXIT action runs once, also when it calls exit, fails, or a trap or an
\* interrupt comes while it runs.
ExitActionOnce == exitruns <= 1

\* A trapped signal is dealt with, or the shell is over.
TrapsRun ==
  \A s \in Sigs : gotsig[s] /\ s \in recv ~> ~gotsig[s] \/ s \notin recv \/ pc = "dead"

\* An interrupt that was held back is taken, dropped by an error, or the
\* shell is over.
InterruptsTaken == intpending ~> (~intpending \/ pc = "dead")

\* What ash.1 says of trap in a non-interactive shell: it has no effect on a
\* signal that was ignored on entry.
EntryIgnoredStays ==
  ~iflag /\ pc = "cmd" => \A s \in EntryIgnored : kern[s] = "ign"

\* What ash.1 says of trap: the action runs when the signal is received; so a
\* process runs no action for a signal that only its parent received.
OwnSignals == lastrun.sent = "self"

\* What ash.1 says of exit: without an operand the status of the preceding
\* command is used (outside of a trap action, and when no signal comes).
ExitUsesLastStatus ==
  outcome = "exited" /\ want # 999 => exiting_status = want

\* ... so a shell that runs exit outside of a trap action ends by _exit; it
\* does not kill itself with the signal of a trap action that is long over.
ExitNotBySignal == outcome = "killself" => want = 999
=============================================================================
