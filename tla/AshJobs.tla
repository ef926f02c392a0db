------------------------------ MODULE AshJobs ------------------------------
(***************************************************************************)
(* The job table of the ash shell (jobs.c) and the processes in it: jobs   *)
(* are started in the foreground and background, stop, go on and end at    *)
(* any moment, and the shell learns of it one waitpid at a time, at the    *)
(* prompt, in the foreground wait and in the wait command.                 *)
(*                                                                         *)
(* The kernel remembers the last change of state of each child, and hands  *)
(* it out once.  Process groups are not modelled beyond what fg and bg     *)
(* need, nor the group that owns the terminal, nor what showjob prints.    *)
(***************************************************************************)
EXTENDS Integers, Sequences, FiniteSetsExt

CONSTANTS
  Interactive,            \* iflag
  MaxJobs,                \* bound: entries of jobtab (it grows when it is full)
  MaxProcs,               \* bound: processes ever forked
  MaxStops,               \* bound: how often processes are stopped
  MaxModes,               \* bound: changes of -m
  MaxForks                \* bound: subshells followed

ASSUME ConstAssumption ==
  /\ Interactive \in BOOLEAN
  /\ MaxJobs \in Nat \ {0} /\ MaxProcs \in Nat \ {0}
  /\ MaxStops \in Nat /\ MaxModes \in Nat /\ MaxForks \in Nat

Slots == 1..MaxJobs
Pids == 1..MaxProcs

VARIABLES
  jobtab,                 \* the job structures
  list,                   \* curjob and the prev_job fields; 0 is no job
  jobs_invalid, rootshell, mflag, job_warning,
  kern, chg,              \* state of each process; those with a change to report
  pc, wjob,               \* where the shell is; the job waitforjob waits for
  wany, found,            \* wait -n; how many jobs wait still has to find
  since,                  \* history: commands read since the last warning
  npids, nstops, nmodes, nforks

tbl == <<jobtab, list>>
krn == <<kern, chg>>
flg == <<jobs_invalid, rootshell, mflag>>
wrn == <<job_warning, since>>
ctl == <<pc, wjob, wany, found>>
bnd == <<npids, nstops, nmodes, nforks>>
vars == <<tbl, krn, flg, wrn, ctl, bnd>>

NoJob == [used |-> FALSE, state |-> "running", ps |-> <<>>, changed |-> FALSE,
          wanted |-> FALSE, jobctl |-> FALSE]
Used == {j \in Slots : jobtab[j].used}
Status(job) == {job.ps[k].st : k \in DOMAIN job.ps}

-----------------------------------------------------------------------------
(* The list of jobs, the current one first.                                *)

\* Mutant: only the head of the list is unlinked.
UnlinkHead(l, j) == IF l.cur = j THEN [l EXCEPT !.cur = l.prev[j]] ELSE l

Unlink(l, j) ==
  LET before == {i \in Slots : l.prev[i] = j}
  IN IF l.cur = j THEN [l EXCEPT !.cur = l.prev[j]]
     ELSE IF before = {} THEN l
     ELSE [l EXCEPT !.prev[Min(before)] = l.prev[j]]

\* set_curjob(jp, 0), for a job that is done or freed.
Delist(l, j) == [Unlink(l, j) EXCEPT !.prev[j] = 0]
DelistAll(l, S) == FoldSet(LAMBDA j, acc : Delist(acc, j), l, S)

\* The last of the stopped jobs at the head of the list.
LastStopped(l, tab) ==
  LET last[i \in Slots] ==
        IF l.prev[i] = 0 \/ tab[l.prev[i]].state # "stopped" THEN i
        ELSE last[l.prev[i]]
  IN last[l.cur]

\* set_curjob(jp, 2), for a job that was stopped in the foreground.
ToFront(l, j) == [cur |-> j, prev |-> [l.prev EXCEPT ![j] = l.cur]]
MakeCurrent(l, j) == ToFront(Unlink(l, j), j)

\* set_curjob(jp, 1): behind the stopped jobs.
MakeRunning(l, tab, j) ==
  LET u == Unlink(l, j)
  IN IF u.cur # 0 /\ tab[u.cur].state = "stopped"
     THEN LET s == LastStopped(u, tab)
          IN [u EXCEPT !.prev = [@ EXCEPT ![j] = u.prev[s], ![s] = j]]
     ELSE ToFront(u, j)

-----------------------------------------------------------------------------
(* Reporting.                                                              *)

\* freejob
Free(S) ==
  /\ jobtab' = [j \in Slots |-> IF j \in S THEN NoJob ELSE jobtab[j]]
  /\ list' = DelistAll(list, S)

NoFree == ~Interactive

\* showjobs, after the waits: "changed" is SHOW_CHANGED.
ShowJobs(changed, nofree) ==
  LET shown == {j \in Used : jobtab[j].ps # <<>> /\ (changed => jobtab[j].changed)}
      freed == {j \in Used : jobtab[j].ps = <<>> /\ ~jobs_invalid}
                 \cup {j \in shown : jobtab[j].state = "done" /\ ~nofree}
  IN /\ jobtab' = [j \in Slots |-> IF j \in freed THEN NoJob
                                   ELSE IF j \in shown
                                   THEN [jobtab[j] EXCEPT !.changed = FALSE]
                                   ELSE jobtab[j]]
     /\ list' = DelistAll(list, freed)

\* showjob with SHOW_SIGNALLED and SHOW_NO_FREE: only stops and signals show.
ShowSignalled(job) ==
  IF Status(job) \cap {"stop", "sig"} # {} THEN [job EXCEPT !.changed = FALSE] ELSE job

-----------------------------------------------------------------------------
(* dowait.                                                                 *)

\* The job's procstat is set to what waitpid said.
NoteStatus(job, p, st) ==
  LET old == {k \in DOMAIN job.ps : job.ps[k].pid = p /\ job.ps[k].st \in {"run", "stop"}}
  IN IF ~job.used \/ old = {} THEN job
     ELSE [job EXCEPT
             !.ps = [k \in DOMAIN @ |-> IF k \in old THEN [@[k] EXCEPT !.st = st]
                                                     ELSE @[k]],
             !.changed = @ \/ (st = "run" /\ \E k \in old : job.ps[k].st # "run"),
             !.state = IF st = "run" THEN "running" ELSE @]

\* Mutant: only an exit counts as the end of a process.
NoteStateExit(job) ==
  IF ~job.used \/ Status(job) \cap {"run", "sig"} # {} THEN job
  ELSE [job EXCEPT !.state = IF "stop" \in Status(job) THEN "stopped" ELSE "done"]

\* All stopped or done: the state of the job follows.
NoteState(job) ==
  IF ~job.used \/ "run" \in Status(job) THEN job
  ELSE [job EXCEPT !.state = IF "stop" \in Status(job) THEN "stopped" ELSE "done"]

Notify(job, silent) ==
  IF job.state = "running" /\ ~job.changed THEN job
  ELSE IF silent THEN [job EXCEPT !.changed = TRUE] ELSE ShowSignalled(job)

\* What waitpid may return: stops only with WUNTRACED.
Waitable(j) ==
  LET all == mflag \/ (j # 0 /\ jobtab[j].jobctl)
  IN {p \in chg : all \/ kern[p] \in {"exit", "sig"}}

Children == {p \in Pids : kern[p] \in {"run", "stop", "exit", "sig"}}

\* The job the process belongs to, if it is waited for (dowait's *changed).
JobOf(p) == {j \in Used : \E k \in DOMAIN jobtab[j].ps :
               jobtab[j].ps[k].pid = p /\ jobtab[j].ps[k].st \in {"run", "stop"}}

\* waitpid has returned p.  tab is the table afterwards.
Updated(p, silent) ==
  [j \in Slots |->
    LET noted == NoteState(NoteStatus(jobtab[j], p, kern[p]))
    IN IF j \in JobOf(p) THEN Notify(noted, silent) ELSE noted]

Relisted(tab) ==
  DelistAll(list, {j \in Used : tab[j].state = "done" /\ jobtab[j].state # "done"})

Reap(p) ==
  /\ kern' = [kern EXCEPT ![p] = IF @ \in {"exit", "sig"} THEN "gone" ELSE @]
  /\ chg' = chg \ {p}

Dowait(j, silent) ==
  \E p \in Waitable(j) : \E tab \in {Updated(p, silent)} :
    /\ jobtab' = tab
    /\ list' = Relisted(tab)
    /\ Reap(p)

-----------------------------------------------------------------------------
(* cmdloop.                                                                *)

\* At the prompt of an interactive shell, and in the jobs command, changes are
\* collected until there are none; then the jobs are shown.
CollectChanges ==
  /\ (pc = "prompt" /\ Interactive) \/ pc = "jobs"
  /\ Dowait(0, TRUE)
  /\ UNCHANGED <<flg, wrn, ctl, bnd>>

Prompt ==
  /\ pc = "prompt"
  /\ IF Interactive THEN Waitable(0) = {} /\ ShowJobs(TRUE, FALSE) ELSE UNCHANGED tbl
  /\ pc' = "read"
  /\ UNCHANGED <<krn, flg, wrn, wjob, wany, found, bnd>>

\* Mutant: a warning is good for every later exit.
ReadCommandKeepsWarning ==
  /\ pc = "read" /\ pc' = "cmd"
  /\ since' = Min({since + 1, 2})
  /\ UNCHANGED <<tbl, krn, flg, job_warning, wjob, wany, found, bnd>>

\* Mutant: the warning is counted down without a look at it.
ReadCommandCountsDown ==
  /\ pc = "read" /\ pc' = "cmd"
  /\ job_warning' = job_warning - 1
  /\ since' = Min({since + 1, 2})
  /\ UNCHANGED <<tbl, krn, flg, wjob, wany, found, bnd>>

ReadCommand ==
  /\ pc = "read" /\ pc' = "cmd"
  /\ job_warning' = IF job_warning = 2 THEN 1 ELSE 0
  /\ since' = Min({since + 1, 2})
  /\ UNCHANGED <<tbl, krn, flg, wjob, wany, found, bnd>>

\* stoppedjobs, and what exit and the end of the input do with it.
StoppedJobs ==
  job_warning = 0 /\ ~jobs_invalid /\ \E j \in Used : jobtab[j].state = "stopped"

TryToLeave(back) ==
  /\ IF StoppedJobs
     THEN pc' = back /\ job_warning' = 2 /\ since' = 0
     ELSE pc' = "left" /\ UNCHANGED wrn
  /\ UNCHANGED <<tbl, krn, flg, wjob, wany, found, bnd>>

EndOfInput == pc = "read" /\ TryToLeave("prompt")
ExitCmd == pc = "cmd" /\ TryToLeave("cmd")

\* A subshell has one command.
CommandDone ==
  /\ pc = "cmd"
  /\ pc' = IF rootshell THEN "prompt" ELSE "dead"
  /\ UNCHANGED <<tbl, krn, flg, wrn, wjob, wany, found, bnd>>

-----------------------------------------------------------------------------
(* Starting jobs.                                                          *)

\* makejob takes the first free entry; in a subshell it first frees them all.
MadeFrom == IF jobs_invalid THEN [j \in Slots |-> NoJob] ELSE jobtab
ListFrom == IF jobs_invalid THEN DelistAll(list, Used) ELSE list

\* A pipeline of n processes, of which k can be forked (evalpipe,
\* evalsubshell, evalcommand): makejob and forkparent.
StartJob(n, k, bg) ==
  /\ pc = "cmd" /\ k <= n /\ npids + k <= MaxProcs
  /\ {j \in Slots : ~MadeFrom[j].used} # {}
  /\ LET j == Min({i \in Slots : ~MadeFrom[i].used})
         job == [NoJob EXCEPT !.used = TRUE, !.jobctl = mflag /\ rootshell,
                   !.ps = [i \in 1..k |-> [pid |-> npids + i, st |-> "run"]]]
     IN /\ jobtab' = [MadeFrom EXCEPT ![j] = job]
        /\ list' = MakeRunning(ListFrom, MadeFrom, j)
        /\ kern' = [p \in Pids |-> IF p \in (npids + 1)..(npids + k) THEN "run"
                                   ELSE kern[p]]
        /\ npids' = npids + k
        /\ IF k < n                     \* error("Cannot fork")
           THEN /\ pc' = IF rootshell /\ Interactive THEN "prompt" ELSE "dead"
                /\ UNCHANGED wjob
           ELSE IF bg THEN UNCHANGED <<pc, wjob>>
           ELSE pc' = "fg" /\ wjob' = j
  /\ jobs_invalid' = FALSE
  /\ UNCHANGED <<chg, rootshell, mflag, wrn, wany, found, nstops, nmodes, nforks>>

\* The shell goes on as its own child: forkchild.
Subshell ==
  /\ pc = "cmd" /\ nforks < MaxForks
  /\ nforks' = nforks + 1
  /\ rootshell' = FALSE /\ jobs_invalid' = TRUE
  /\ kern' = [p \in Pids |-> IF kern[p] = "none" THEN "none" ELSE "gone"]
  /\ chg' = {}
  /\ UNCHANGED <<tbl, mflag, wrn, ctl, npids, nstops, nmodes>>

-----------------------------------------------------------------------------
(* waitforjob.                                                             *)

WaitForJob ==
  /\ pc = "fg" /\ jobtab[wjob].state = "running"
  /\ Dowait(wjob, FALSE)
  /\ UNCHANGED <<flg, wrn, ctl, bnd>>

\* Mutant: a job that stopped in the foreground is freed as well.
JobIsBackFreed ==
  /\ pc = "fg" /\ jobtab[wjob].state # "running"
  /\ Free({wjob})
  /\ pc' = "cmd" /\ wjob' = 0
  /\ UNCHANGED <<krn, flg, wrn, wany, found, bnd>>

JobIsBack ==
  /\ pc = "fg" /\ jobtab[wjob].state # "running"
  /\ IF jobtab[wjob].state = "done" THEN Free({wjob})
     ELSE list' = MakeCurrent(list, wjob) /\ UNCHANGED jobtab
  /\ pc' = "cmd" /\ wjob' = 0
  /\ UNCHANGED <<krn, flg, wrn, wany, found, bnd>>

-----------------------------------------------------------------------------
(* jobs, fg and bg.                                                        *)

JobsBegin ==
  /\ pc = "cmd" /\ pc' = "jobs"
  /\ UNCHANGED <<tbl, krn, flg, wrn, wjob, wany, found, bnd>>

JobsEnd ==
  /\ pc = "jobs" /\ Waitable(0) = {}
  /\ ShowJobs(FALSE, NoFree)
  /\ pc' = "cmd"
  /\ UNCHANGED <<krn, flg, wrn, wjob, wany, found, bnd>>

\* jobs %j does not wait.
JobsOne(j) ==
  /\ pc = "cmd" /\ jobtab[j].used /\ jobtab[j].ps # <<>>
  /\ IF jobtab[j].state = "done" /\ ~NoFree THEN Free({j})
     ELSE jobtab' = [jobtab EXCEPT ![j].changed = FALSE] /\ UNCHANGED list
  /\ UNCHANGED <<krn, flg, wrn, ctl, bnd>>

\* Mutant: the state of the job is left for dowait to find out.
RestartedStopped(job) ==
  [job EXCEPT !.ps = [k \in DOMAIN @ |-> IF @[k].st = "stop" THEN [@[k] EXCEPT !.st = "run"]
                                                             ELSE @[k]]]

\* restartjob: SIGCONT goes to the process group.
Continued(j) ==
  {p \in Children : kern[p] = "stop" /\ \E k \in DOMAIN jobtab[j].ps : jobtab[j].ps[k].pid = p}

Restarted(job) ==
  IF job.state = "done" \/ "stop" \notin Status(job) THEN job
  ELSE [job EXCEPT !.state = "running",
          !.ps = [k \in DOMAIN @ |-> IF @[k].st = "stop" THEN [@[k] EXCEPT !.st = "run"]
                                                         ELSE @[k]]]

Restart(j) ==
  /\ jobtab' = [jobtab EXCEPT ![j] = Restarted(@)]
  /\ kern' = [p \in Pids |-> IF p \in Continued(j) THEN "run" ELSE kern[p]]
  /\ chg' = chg \cup Continued(j)

UnderJobControl(j) ==
  pc = "cmd" /\ ~jobs_invalid /\ jobtab[j].used /\ jobtab[j].jobctl

\* fg gives the terminal away first, which needs a process group.
FgCmd(j) ==
  /\ UnderJobControl(j) /\ mflag
  /\ \E k \in DOMAIN jobtab[j].ps : jobtab[j].ps[k].pid \in Children
  /\ Restart(j)
  /\ pc' = "fg" /\ wjob' = j
  /\ UNCHANGED <<list, flg, wrn, wany, found, bnd>>

BgCmd(j) ==
  /\ UnderJobControl(j)
  /\ list' = MakeRunning(list, jobtab, j)
  /\ Restart(j)
  /\ UNCHANGED <<flg, wrn, ctl, bnd>>

\* set -m and set +m; only the root shell does job control.
SetMonitor ==
  /\ pc = "cmd" /\ Interactive /\ nmodes < MaxModes
  /\ nmodes' = nmodes + 1
  /\ mflag' = ~mflag
  /\ UNCHANGED <<tbl, krn, jobs_invalid, rootshell, wrn, ctl, npids, nstops, nforks>>

-----------------------------------------------------------------------------
(* The wait command.                                                       *)

\* wait (j = 0), wait %j and wait -n.
WaitBegin(any, j) ==
  /\ pc = "cmd" /\ ~jobs_invalid
  /\ j # 0 => ~any /\ jobtab[j].used
  /\ jobtab' = [i \in Slots |-> IF jobtab[i].used
                                THEN [jobtab[i] EXCEPT !.wanted = any \/ i = j]
                                ELSE jobtab[i]]
  /\ wany' = any /\ found' = IF j = 0 THEN 0 ELSE 1
  /\ pc' = "wait"
  /\ UNCHANGED <<list, krn, flg, wrn, wjob, bnd>>

\* waitcmd returns.  JOBWANTED means something in waitcmd only, which clears it
\* when it begins; here it is cleared at the end.
Over == pc' = "cmd" /\ wany' = FALSE /\ found' = 0
Unwanted(tab) == [j \in Slots |-> [tab[j] EXCEPT !.wanted = FALSE]]

\* A job was found done, or changed: the end of waitcmd's loop.  tab and l are
\* the table and the list so far.
Take(tab, l, j) ==
  LET done == tab[j].state = "done"
      freed == done /\ (tab[j].wanted \/ found = 0)
      left == IF freed THEN [tab EXCEPT ![j] = NoJob]
              ELSE [tab EXCEPT ![j].wanted = FALSE]
  IN /\ list' = IF freed THEN Delist(l, j) ELSE l
     /\ IF tab[j].wanted /\ (wany \/ found = 1)
        THEN jobtab' = Unwanted(left) /\ Over
        ELSE jobtab' = left /\ UNCHANGED <<pc, wany, found>>

WantedDone == {j \in Used : jobtab[j].wanted /\ jobtab[j].state = "done"}

Running == {j \in Used : jobtab[j].state = "running"}

WaitTake ==
  /\ pc = "wait" /\ WantedDone # {}
  /\ Take(jobtab, list, Min(WantedDone))
  /\ UNCHANGED <<krn, flg, wrn, wjob, bnd>>

WaitMore ==
  /\ pc = "wait" /\ WantedDone = {} /\ Running # {}
  /\ \E p \in Waitable(0) : \E tab \in {Updated(p, FALSE)} :
       LET hit == {j \in JobOf(p) : tab[j].state # "running"}
       IN /\ Reap(p)
          /\ IF hit = {}
             THEN /\ jobtab' = tab /\ list' = Relisted(tab)
                  /\ UNCHANGED <<pc, wany, found>>
             ELSE Take(tab, Relisted(tab), Min(hit))
  /\ UNCHANGED <<flg, wrn, wjob, bnd>>

WaitNothing ==
  /\ pc = "wait" /\ WantedDone = {} /\ Running = {}
  /\ Over /\ jobtab' = Unwanted(jobtab)
  /\ UNCHANGED <<list, krn, flg, wrn, wjob, bnd>>

\* waitpid fails with EINTR for a signal that is trapped.
WaitInterrupted ==
  /\ pc = "wait" /\ WantedDone = {} /\ Running # {} /\ Waitable(0) = {}
  /\ Over /\ jobtab' = Unwanted(jobtab)
  /\ UNCHANGED <<list, krn, flg, wrn, wjob, bnd>>

-----------------------------------------------------------------------------
(* The processes.                                                          *)

Changes(p, st) ==
  /\ kern' = [kern EXCEPT ![p] = st]
  /\ chg' = chg \cup {p}
  /\ UNCHANGED <<tbl, flg, wrn, ctl, npids, nmodes, nforks>>

ProcStops(p) == /\ kern[p] = "run" /\ nstops < MaxStops
                /\ nstops' = nstops + 1 /\ Changes(p, "stop")
ProcContinues(p) == kern[p] = "stop" /\ UNCHANGED nstops /\ Changes(p, "run")
ProcEnds(p, st) == /\ kern[p] \in {"run", "stop"} /\ UNCHANGED nstops
                   /\ st = "exit" => kern[p] = "run"
                   /\ Changes(p, st)

-----------------------------------------------------------------------------
(* The specification.                                                      *)

Init ==
  /\ jobtab = [j \in Slots |-> NoJob]
  /\ list = [cur |-> 0, prev |-> [j \in Slots |-> 0]]
  /\ jobs_invalid = FALSE /\ rootshell = TRUE /\ mflag = Interactive
  /\ job_warning = 0 /\ since = 2
  /\ kern = [p \in Pids |-> "none"] /\ chg = {}
  /\ pc = "prompt" /\ wjob = 0 /\ wany = FALSE /\ found = 0
  /\ npids = 0 /\ nstops = 0 /\ nmodes = 0 /\ nforks = 0

\* What the shell does by itself once it is in a wait or at its prompt.
ShellGoesOn ==
  \/ CollectChanges \/ Prompt
  \/ WaitForJob \/ JobIsBack \/ JobsEnd
  \/ WaitTake \/ WaitMore \/ WaitNothing

Next ==
  \/ ShellGoesOn
  \/ ReadCommand \/ EndOfInput \/ ExitCmd \/ CommandDone
  \/ \E n, k \in 0..2, bg \in BOOLEAN : n > 0 /\ StartJob(n, k, bg)
  \/ Subshell \/ SetMonitor \/ JobsBegin
  \/ \E j \in Slots : JobsOne(j) \/ FgCmd(j) \/ BgCmd(j)
  \/ \E any \in BOOLEAN, j \in 0..MaxJobs : WaitBegin(any, j)
  \/ WaitInterrupted
  \/ \E p \in Pids : \/ ProcStops(p) \/ ProcContinues(p)
                     \/ \E st \in {"exit", "sig"} : ProcEnds(p, st)

Spec == Init /\ [][Next]_vars

\* When one of these steps is possible, that is, ENABLED <<ShellGoesOn>>_vars.
CanGoOn ==
  \/ pc \in {"prompt", "jobs"}
  \/ pc = "fg" /\ (jobtab[wjob].state # "running" \/ Waitable(wjob) # {})
  \/ pc = "wait" /\ (WantedDone # {} \/ Running = {} \/ Waitable(0) # {})

\* The shell takes its own steps while it can, WF_vars(ShellGoesOn), written
\* with CanGoOn, which TLC evaluates faster; nothing is assumed of the user,
\* the processes and the signals.
FairSpec == Spec /\ ([]<>~CanGoOn \/ []<><<ShellGoesOn>>_vars)

-----------------------------------------------------------------------------
(* Properties.                                                             *)

JobRecords ==
  [used : BOOLEAN, state : {"running", "stopped", "done"},
   ps : Seq([pid : Pids, st : {"run", "stop", "exit", "sig"}]),
   changed : BOOLEAN, wanted : BOOLEAN, jobctl : BOOLEAN]

\* Every variable stays in its range.
TypeOK ==
  /\ jobtab \in [Slots -> JobRecords]
  /\ list \in [cur : 0..MaxJobs, prev : [Slots -> 0..MaxJobs]]
  /\ jobs_invalid \in BOOLEAN /\ rootshell \in BOOLEAN /\ mflag \in BOOLEAN
  /\ job_warning \in 0..2 /\ since \in 0..2
  /\ kern \in [Pids -> {"none", "run", "stop", "exit", "sig", "gone"}]
  /\ chg \subseteq Pids
  /\ pc \in {"prompt", "read", "cmd", "jobs", "fg", "wait", "left", "dead"}
  /\ wjob \in 0..MaxJobs /\ wany \in BOOLEAN /\ found \in 0..1
  /\ npids \in 0..MaxProcs /\ nstops \in 0..MaxStops
  /\ nmodes \in 0..MaxModes /\ nforks \in 0..MaxForks

\* The jobs %+, %- and so on lead to, each once: never to a freed entry, and to
\* every job that is not done.
ListOf ==
  LET at[n \in 0..MaxJobs] == IF n = 0 THEN list.cur
                              ELSE IF at[n - 1] = 0 THEN 0 ELSE list.prev[at[n - 1]]
  IN at

ListSound ==
  /\ TypeOK
  /\ ListOf[MaxJobs] = 0
  /\ {j \in Used : jobtab[j].state # "done"} \subseteq {ListOf[n] : n \in 0..MaxJobs}
  /\ {ListOf[n] : n \in 0..MaxJobs} \subseteq Used \cup {0}

\* A job is running, stopped or done exactly when its processes are, whatever
\* order their changes were reported in.
StatesAgree ==
  \A j \in Used : jobtab[j].ps # <<>> =>
    jobtab[j].state = IF "run" \in Status(jobtab[j]) THEN "running"
                      ELSE IF "stop" \in Status(jobtab[j]) THEN "stopped" ELSE "done"

\* waitforjob and wait never wait for a process that has been waited for: what
\* the table holds to be alive is still a child, and no child is missing in it.
ChildrenKnown ==
  ~jobs_invalid =>
    Children = UNION {{jobtab[j].ps[k].pid : k \in
                        {i \in DOMAIN jobtab[j].ps : jobtab[j].ps[i].st \in {"run", "stop"}}} :
                      j \in Used}

\* The shell does not leave stopped jobs behind unless it has warned of stopped
\* jobs at this command or the one before.
ExitWarned ==
  pc = "left" /\ ~jobs_invalid /\ (\E j \in Used : jobtab[j].state = "stopped") =>
    since <= 1

\* Once the processes waited for are gone the shell is back.
WaitEnds ==
  /\ (pc = "fg" /\ \A k \in DOMAIN jobtab[wjob].ps :
                      kern[jobtab[wjob].ps[k].pid] \in {"exit", "sig", "gone"})
       ~> pc # "fg"
  /\ (pc = "wait" /\ \A p \in Children : kern[p] \in {"exit", "sig"}) ~> pc # "wait"

\* What ash.1 says of an interactive shell: jobs that are known to be done are
\* reported before the next prompt and leave the table.
PromptCleansUp ==
  Interactive /\ pc = "read" => \A j \in Used : jobtab[j].state # "done"
=============================================================================
