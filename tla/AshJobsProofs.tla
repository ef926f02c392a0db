--------------------------- MODULE AshJobsProofs ---------------------------
(***************************************************************************)
(* Proofs about AshJobs, for every size of the job table and every number  *)
(* of processes, stops, changes of -m and subshells.                       *)
(***************************************************************************)
EXTENDS AshJobs, FiniteSetTheorems, NaturalsInduction, WellFoundedInduction, TLAPS

States == {"run", "stop", "exit", "sig"}
Procs == [pid : Pids, st : States]

\* What StatesAgree says of one job, and what ChildrenKnown counts: the job holds
\* process p to be alive.
Agrees(job) ==
  job.used /\ job.ps # <<>> =>
    job.state = IF "run" \in Status(job) THEN "running"
                ELSE IF "stop" \in Status(job) THEN "stopped" ELSE "done"
Holds(job, p) ==
  job.used /\ \E k \in DOMAIN job.ps : job.ps[k].pid = p /\ job.ps[k].st \in {"run", "stop"}

\* The table as a whole: its records, the freed ones among them, and the jobs'
\* states.
Sound(tab) ==
  /\ tab \in [Slots -> JobRecords]
  /\ \A j \in Slots : tab[j].used \/ tab[j] = NoJob
  /\ \A j \in Slots : Agrees(tab[j])

\* The children are the processes held to be alive.
Known(tab, children) ==
  \A p \in Pids : p \in children <=> \E j \in Slots : Holds(tab[j], p)

\* What ExitWarned needs: job_warning tells how long ago the warning was.
Warned ==
  /\ job_warning = 2 => since = 0
  /\ job_warning = 1 => since = 1

\* TypeOK without the list.
Ranges ==
  /\ jobs_invalid \in BOOLEAN /\ rootshell \in BOOLEAN /\ mflag \in BOOLEAN
  /\ job_warning \in 0..2 /\ since \in 0..2
  /\ kern \in [Pids -> {"none", "run", "stop", "exit", "sig", "gone"}]
  /\ chg \subseteq Pids
  /\ pc \in {"prompt", "read", "cmd", "jobs", "fg", "wait", "left", "dead"}
  /\ wjob \in 0..MaxJobs /\ wany \in BOOLEAN /\ found \in 0..1
  /\ npids \in 0..MaxProcs /\ nstops \in 0..MaxStops
  /\ nmodes \in 0..MaxModes /\ nforks \in 0..MaxForks

\* The inductive invariant, without the list.  The kernel has news of children
\* only, and a subshell that has not started a job has none.
TInv ==
  /\ Ranges
  /\ Sound(jobtab)
  /\ pc = "fg" => wjob \in Slots
  /\ chg \subseteq Children
  /\ jobs_invalid => Children = {}
  /\ ~jobs_invalid => Known(jobtab, Children)
  /\ Warned
  /\ ExitWarned

USE ConstAssumption

-----------------------------------------------------------------------------
(* One job.                                                                *)

LEMMA NoJobType == NoJob \in JobRecords /\ Agrees(NoJob) /\ ~NoJob.used
                   /\ \A p : ~Holds(NoJob, p)
  <1>1. <<>> \in Seq([pid : Pids, st : States])
    OBVIOUS
  <1> QED
    BY <1>1 DEF NoJob, JobRecords, States, Agrees, Holds

\* NoteStatus keeps the record in its type, and its processes.
LEMMA NoteStatusType ==
  ASSUME NEW job \in JobRecords, NEW p, NEW st \in States
  PROVE  /\ NoteStatus(job, p, st) \in JobRecords
         /\ NoteStatus(job, p, st).used = job.used
         /\ NoteStatus(job, p, st).ps = <<>> <=> job.ps = <<>>
  <1> DEFINE old == {k \in DOMAIN job.ps : job.ps[k].pid = p /\ job.ps[k].st \in {"run", "stop"}}
             new == [k \in DOMAIN job.ps |-> IF k \in old THEN [job.ps[k] EXCEPT !.st = st]
                                             ELSE job.ps[k]]
  <1>1. job.ps \in Seq(Procs)
    BY DEF JobRecords, Procs, States
  <1>2. DOMAIN job.ps = 1..Len(job.ps) /\ Len(job.ps) \in Nat
    BY <1>1
  <1>3. \A k \in DOMAIN job.ps : job.ps[k] \in Procs
    BY <1>1
  <1>4. \A k \in DOMAIN job.ps : new[k] \in Procs
    BY <1>3 DEF Procs
  <1>5. new \in Seq(Procs)
    <2>1. new \in [1..Len(job.ps) -> Procs]
      BY <1>2, <1>4
    <2> QED
      BY ONLY <1>2, <2>1
  <1>6. new = <<>> <=> job.ps = <<>>
    BY <1>1, <1>2, <1>5
  <1>7. CASE ~job.used \/ old = {}
    BY <1>7 DEF NoteStatus
  <1>8. CASE ~(~job.used \/ old = {})
    <2> HIDE DEF old
    <2> DEFINE chd == job.changed \/ (st = "run" /\ \E k \in old : job.ps[k].st # "run")
               stt == IF st = "run" THEN "running" ELSE job.state
    <2>1. NoteStatus(job, p, st) = [job EXCEPT !.ps = new, !.changed = chd, !.state = stt]
      BY <1>8 DEF NoteStatus, old
    <2>2. chd \in BOOLEAN /\ stt \in {"running", "stopped", "done"}
      BY DEF JobRecords
    <2> HIDE DEF chd, stt, new
    <2> QED
      BY <1>5, <1>6, <2>1, <2>2 DEF JobRecords, Procs, States
  <1> QED
    BY <1>7, <1>8

\* What it does to the status of one process of the job.
LEMMA NoteStatusEffect ==
  ASSUME NEW job \in JobRecords, NEW p, NEW st \in States, job.used,
         NEW k \in DOMAIN job.ps
  PROVE  LET was == job.ps[k] new == NoteStatus(job, p, st).ps[k]
         IN /\ DOMAIN NoteStatus(job, p, st).ps = DOMAIN job.ps
            /\ new.pid = was.pid
            /\ was.pid = p /\ was.st \in {"run", "stop"} => new.st = st
            /\ ~(was.pid = p /\ was.st \in {"run", "stop"}) => new.st = was.st
  <1> DEFINE old == {i \in DOMAIN job.ps : job.ps[i].pid = p /\ job.ps[i].st \in {"run", "stop"}}
             new == [i \in DOMAIN job.ps |-> IF i \in old THEN [job.ps[i] EXCEPT !.st = st]
                                             ELSE job.ps[i]]
  <1>1. job.ps[k] \in Procs
    <2>1. job.ps \in Seq(Procs)
      BY DEF JobRecords, Procs, States
    <2> QED
      BY ONLY <2>1, k \in DOMAIN job.ps
  <1>2. NoteStatus(job, p, st).ps = new
    <2>1. CASE old = {}
      <3>1. \A i \in DOMAIN job.ps : i \notin old
        BY <2>1
      <3>2. new = [i \in DOMAIN job.ps |-> job.ps[i]]
        BY <3>1
      <3>3. job.ps \in Seq(Procs)
        BY DEF JobRecords, Procs, States
      <3> QED
        BY <2>1, <3>2, <3>3 DEF NoteStatus
    <2>2. CASE old # {}
      <3> DEFINE chd == job.changed \/ (st = "run" /\ \E i \in old : job.ps[i].st # "run")
                 stt == IF st = "run" THEN "running" ELSE job.state
      <3>1. NoteStatus(job, p, st) = [job EXCEPT !.ps = new, !.changed = chd, !.state = stt]
        BY <2>2 DEF NoteStatus
      <3> HIDE DEF chd, stt, new
      <3> QED
        BY <3>1 DEF JobRecords
    <2> QED
      BY <2>1, <2>2
  <1>3. DOMAIN new = DOMAIN job.ps
    OBVIOUS
  <1>4. k \in old <=> job.ps[k].pid = p /\ job.ps[k].st \in {"run", "stop"}
    OBVIOUS
  <1>5. new[k] = IF k \in old THEN [job.ps[k] EXCEPT !.st = st] ELSE job.ps[k]
    OBVIOUS
  <1> HIDE DEF new, old
  <1> QED
    BY <1>1, <1>2, <1>3, <1>4, <1>5 DEF Procs

\* ... and to its state.
LEMMA NoteStatusState ==
  ASSUME NEW job \in JobRecords, NEW p, NEW st \in States, job.used
  PROVE  \/ NoteStatus(job, p, st) = job
         \/ NoteStatus(job, p, st).state = IF st = "run" THEN "running" ELSE job.state
  <1> DEFINE old == {k \in DOMAIN job.ps : job.ps[k].pid = p /\ job.ps[k].st \in {"run", "stop"}}
             new == [k \in DOMAIN job.ps |-> IF k \in old THEN [job.ps[k] EXCEPT !.st = st]
                                             ELSE job.ps[k]]
             chd == job.changed \/ (st = "run" /\ \E i \in old : job.ps[i].st # "run")
             stt == IF st = "run" THEN "running" ELSE job.state
  <1>1. NoteStatus(job, p, st) = job
        \/ NoteStatus(job, p, st) = [job EXCEPT !.ps = new, !.changed = chd, !.state = stt]
    BY DEF NoteStatus
  <1> HIDE DEF chd, new, old
  <1> QED
    BY <1>1 DEF JobRecords

\* NoteState only sets the state.
LEMMA NoteStateType ==
  ASSUME NEW job \in JobRecords
  PROVE  /\ NoteState(job) \in JobRecords
         /\ NoteState(job).used = job.used /\ NoteState(job).ps = job.ps
         /\ NoteState(job).wanted = job.wanted
         /\ ~job.used => NoteState(job) = job
  <1> DEFINE stt == IF "stop" \in Status(job) THEN "stopped" ELSE "done"
  <1>1. NoteState(job) = job \/ NoteState(job) = [job EXCEPT !.state = stt]
    BY DEF NoteState
  <1>2. stt \in {"running", "stopped", "done"}
    OBVIOUS
  <1> HIDE DEF stt
  <1> QED
    BY <1>1, <1>2 DEF JobRecords, NoteState

\* waitpid's answer is noted in a job: its state is right again, and it holds
\* the process alive no longer, unless it is.
LEMMA Noted ==
  ASSUME NEW job \in JobRecords, NEW p, NEW st \in States, Agrees(job)
  PROVE  LET noted == NoteState(NoteStatus(job, p, st))
         IN /\ noted \in JobRecords /\ noted.used = job.used
            /\ noted.ps = <<>> <=> job.ps = <<>>
            /\ ~job.used => noted = job
            /\ Agrees(noted)
            /\ \A q : Holds(noted, q) <=>
                   Holds(job, q) /\ (q = p => st \in {"run", "stop"})
  <1> DEFINE mid == NoteStatus(job, p, st)
             noted == NoteState(mid)
  <1>1. /\ mid \in JobRecords /\ mid.used = job.used
        /\ mid.ps = <<>> <=> job.ps = <<>>
    BY NoteStatusType
  <1>2. /\ noted \in JobRecords /\ noted.used = mid.used /\ noted.ps = mid.ps
        /\ ~mid.used => noted = mid
    BY <1>1, NoteStateType
  <1>3. ~job.used => noted = job
    BY <1>1, <1>2 DEF NoteStatus
  <1>4. ASSUME job.used
        PROVE  \A k \in DOMAIN job.ps :
                 /\ DOMAIN mid.ps = DOMAIN job.ps
                 /\ mid.ps[k].pid = job.ps[k].pid
                 /\ job.ps[k].pid = p /\ job.ps[k].st \in {"run", "stop"} => mid.ps[k].st = st
                 /\ ~(job.ps[k].pid = p /\ job.ps[k].st \in {"run", "stop"})
                      => mid.ps[k].st = job.ps[k].st
    BY <1>4, NoteStatusEffect
  <1>5. ASSUME job.used
        PROVE  DOMAIN mid.ps = DOMAIN job.ps
    <2>1. CASE DOMAIN job.ps # {}
      BY <1>4, <1>5, <2>1
    <2>2. CASE DOMAIN job.ps = {}
      <3>1. job.ps = <<>> /\ mid.ps = <<>>
        <4>1. job.ps \in Seq(Procs)
          BY DEF JobRecords, Procs, States
        <4>2. job.ps = <<>>
          <5>1. Len(job.ps) \in Nat /\ DOMAIN job.ps = 1..Len(job.ps)
            BY ONLY <4>1
          <5>2. Len(job.ps) # 0 => 1 \in DOMAIN job.ps
            BY ONLY <5>1
          <5> QED
            BY ONLY <4>1, <5>2, <2>2
        <4> QED
          BY <4>2, <1>1
      <3> QED
        BY <3>1
    <2> QED
      BY <2>1, <2>2
  <1>6. job.used => mid = job \/ mid.state = IF st = "run" THEN "running" ELSE job.state
    BY NoteStatusState
  <1>7. noted = NoteState(mid)
    OBVIOUS
  <1> HIDE DEF noted, mid
  <1>8. Agrees(noted)
    <2> SUFFICES ASSUME noted.used, noted.ps # <<>>
                 PROVE  noted.state = IF "run" \in Status(noted) THEN "running"
                                      ELSE IF "stop" \in Status(noted) THEN "stopped" ELSE "done"
      BY DEF Agrees
    <2>1. job.used /\ job.ps # <<>> /\ mid.used /\ Status(noted) = Status(mid)
      BY <1>1, <1>2 DEF Status
    <2>2. CASE "run" \in Status(mid)
      <3>1. noted = mid
        BY <1>7, <2>2 DEF NoteState
      <3>2. mid.state = "running"
        <4>1. CASE mid = job
          BY <2>1, <2>2, <4>1 DEF Agrees
        <4>2. CASE st = "run" /\ mid # job
          BY <1>6, <2>1, <4>2
        <4>3. CASE st # "run" /\ mid # job
          <5>1. PICK k \in DOMAIN mid.ps : mid.ps[k].st = "run"
            BY <2>2 DEF Status
          <5>2. k \in DOMAIN job.ps /\ job.ps[k].st = "run"
            BY <1>4, <1>5, <2>1, <4>3, <5>1
          <5>3. "run" \in Status(job)
            BY <5>2 DEF Status
          <5> QED
            BY <1>6, <2>1, <4>3, <5>3 DEF Agrees
        <4> QED
          BY <4>1, <4>2, <4>3
      <3> QED
        BY <2>1, <2>2, <3>1, <3>2
    <2>3. CASE "run" \notin Status(mid)
      <3>1. noted = [mid EXCEPT !.state = IF "stop" \in Status(mid) THEN "stopped" ELSE "done"]
        BY <1>7, <2>1, <2>3 DEF NoteState
      <3>2. noted.state = IF "stop" \in Status(mid) THEN "stopped" ELSE "done"
        BY <1>1, <3>1 DEF JobRecords
      <3> QED
        BY <2>1, <2>3, <3>2
    <2> QED
      BY <2>2, <2>3
  <1>9. ASSUME NEW q
        PROVE  Holds(noted, q) <=> Holds(job, q) /\ (q = p => st \in {"run", "stop"})
    <2>1. CASE ~job.used
      BY <1>1, <1>2, <2>1 DEF Holds
    <2>2. CASE job.used
      <3>1. Holds(noted, q) <=> \E k \in DOMAIN job.ps : mid.ps[k].pid = q
                                                    /\ mid.ps[k].st \in {"run", "stop"}
        BY <1>1, <1>2, <1>5, <2>2 DEF Holds
      <3>2. \A k \in DOMAIN job.ps :
              mid.ps[k].pid = q /\ mid.ps[k].st \in {"run", "stop"} <=>
              /\ job.ps[k].pid = q /\ job.ps[k].st \in {"run", "stop"}
              /\ q = p => st \in {"run", "stop"}
        BY <1>4, <2>2
      <3> QED
        BY <2>2, <3>1, <3>2 DEF Holds
    <2> QED
      BY <2>1, <2>2
  <1> QED
    BY <1>1, <1>2, <1>3, <1>8, <1>9 DEF noted, mid

\* Showing a job, or leaving that for later, changes its mark only.
LEMMA NotifyType ==
  ASSUME NEW job \in JobRecords, NEW silent
  PROVE  /\ Notify(job, silent) \in JobRecords
         /\ Notify(job, silent).used = job.used /\ Notify(job, silent).ps = job.ps
         /\ Notify(job, silent).state = job.state
  <1>1. \/ Notify(job, silent) = job
        \/ Notify(job, silent) = [job EXCEPT !.changed = TRUE]
        \/ Notify(job, silent) = [job EXCEPT !.changed = FALSE]
    BY DEF Notify, ShowSignalled
  <1> QED
    BY <1>1 DEF JobRecords

\* fg and bg: the stopped processes of the job run.
LEMMA RestartedType ==
  ASSUME NEW job \in JobRecords, Agrees(job)
  PROVE  /\ Restarted(job) \in JobRecords
         /\ Restarted(job).used = job.used
         /\ Agrees(Restarted(job))
         /\ \A q : Holds(Restarted(job), q) <=> Holds(job, q)
         /\ Restarted(job).state = "done" <=> job.state = "done"
  <1> DEFINE new == [k \in DOMAIN job.ps |-> IF job.ps[k].st = "stop"
                                             THEN [job.ps[k] EXCEPT !.st = "run"] ELSE job.ps[k]]
             back == [job EXCEPT !.state = "running", !.ps = new]
  <1>1. job.ps \in Seq(Procs)
    BY DEF JobRecords, Procs, States
  <1>2. DOMAIN job.ps = 1..Len(job.ps) /\ Len(job.ps) \in Nat
    BY ONLY <1>1
  <1>3. \A k \in DOMAIN job.ps : job.ps[k] \in Procs
    BY ONLY <1>1
  <1>4. \A k \in DOMAIN job.ps : new[k] \in Procs /\ new[k].pid = job.ps[k].pid
                  /\ new[k].st = IF job.ps[k].st = "stop" THEN "run" ELSE job.ps[k].st
    BY <1>3 DEF Procs, States
  <1>5. new \in Seq(Procs)
    <2>1. new \in [1..Len(job.ps) -> Procs]
      BY <1>2, <1>4
    <2> QED
      BY ONLY <1>2, <2>1
  <1>6. DOMAIN new = DOMAIN job.ps
    OBVIOUS
  <1>7. CASE job.state = "done" \/ "stop" \notin Status(job)
    BY <1>7 DEF Restarted
  <1>8. CASE ~(job.state = "done" \/ "stop" \notin Status(job))
    <2>1. Restarted(job) = back
      BY <1>8 DEF Restarted
    <2> HIDE DEF new
    <2>2. /\ back \in JobRecords /\ back.used = job.used /\ back.ps = new
          /\ back.state = "running"
      BY <1>5 DEF JobRecords, Procs, States
    <2> HIDE DEF back
    <2>3. PICK k \in DOMAIN job.ps : job.ps[k].st = "stop"
      BY <1>8 DEF Status
    <2>4. job.ps # <<>>
      BY <2>3
    <2>5. "run" \in Status(back)
      BY <1>4, <1>6, <2>2, <2>3 DEF Status
    <2>6. Agrees(back)
      BY <2>2, <2>5 DEF Agrees
    <2>7. ASSUME NEW q PROVE Holds(back, q) <=> Holds(job, q)
      <3>1. \A i \in DOMAIN job.ps :
              new[i].pid = q /\ new[i].st \in {"run", "stop"} <=>
              job.ps[i].pid = q /\ job.ps[i].st \in {"run", "stop"}
        BY <1>4
      <3> QED
        BY <1>6, <2>2, <3>1 DEF Holds
    <2>8. job.state # "done"
      BY <1>8
    <2> QED
      BY <2>1, <2>2, <2>6, <2>7, <2>8
  <1> QED
    BY <1>7, <1>8

-----------------------------------------------------------------------------
(* The table.                                                              *)

\* What freeing jobs and setting their marks does to an entry: an entry is freed
\* only when its job is done or has no process, and a mark changes nothing else.
Tidied(a, b) ==
  /\ b \in JobRecords
  /\ \/ b = NoJob /\ (a.used => a.state = "done" \/ a.ps = <<>>)
     \/ /\ b.used = a.used /\ b.state = a.state /\ b.ps = a.ps
        /\ a.used \/ b = a
TidiedAll(t, u) == u = [j \in Slots |-> u[j]] /\ \A j \in Slots : Tidied(t[j], u[j])

LEMMA TidiedSound ==
  ASSUME NEW t, NEW u, Sound(t), TidiedAll(t, u)
  PROVE  Sound(u) /\ \A p : (\E j \in Slots : Holds(u[j], p)) <=> (\E j \in Slots : Holds(t[j], p))
  <1>1. ASSUME NEW j \in Slots
        PROVE  /\ u[j] \in JobRecords
               /\ u[j].used \/ u[j] = NoJob
               /\ Agrees(u[j])
               /\ \A p : Holds(u[j], p) <=> Holds(t[j], p)
    <2>1. t[j] \in JobRecords /\ (t[j].used \/ t[j] = NoJob) /\ Agrees(t[j])
      BY DEF Sound
    <2>2. CASE u[j] = NoJob /\ (t[j].used => t[j].state = "done" \/ t[j].ps = <<>>)
      <3>1. ASSUME NEW p, Holds(t[j], p) PROVE FALSE
        <4>1. PICK k \in DOMAIN t[j].ps : t[j].ps[k].st \in {"run", "stop"}
          BY <3>1 DEF Holds
        <4>2. t[j].used /\ t[j].ps # <<>>
          BY <3>1, <4>1 DEF Holds
        <4>3. "run" \in Status(t[j]) \/ "stop" \in Status(t[j])
          BY <4>1 DEF Status
        <4> QED
          BY <2>1, <2>2, <4>2, <4>3 DEF Agrees
      <3> QED
        BY <2>2, <3>1, NoJobType
    <2>3. CASE /\ u[j].used = t[j].used /\ u[j].state = t[j].state /\ u[j].ps = t[j].ps
               /\ t[j].used \/ u[j] = t[j]
      BY <2>1, <2>3 DEF TidiedAll, Tidied, Agrees, Holds, Status
    <2> QED
      BY <2>2, <2>3 DEF TidiedAll, Tidied
  <1>2. u \in [Slots -> JobRecords]
    BY <1>1 DEF TidiedAll
  <1> QED
    BY <1>1, <1>2 DEF Sound

LEMMA TidiedRefl ==
  ASSUME NEW a \in JobRecords
  PROVE  Tidied(a, a)
  BY DEF Tidied

LEMMA TidiedFree ==
  ASSUME NEW a \in JobRecords, a.used => a.state = "done" \/ a.ps = <<>>
  PROVE  Tidied(a, NoJob)
  BY NoJobType DEF Tidied

LEMMA TidiedMark ==
  ASSUME NEW a \in JobRecords, a.used \/ a = NoJob, NEW b \in BOOLEAN
  PROVE  /\ a.used => Tidied(a, [a EXCEPT !.changed = b])
         /\ a.used => Tidied(a, [a EXCEPT !.wanted = b])
         /\ Tidied(a, [a EXCEPT !.wanted = FALSE])
  <1>1. CASE a.used
    BY <1>1 DEF Tidied, JobRecords
  <1>2. CASE ~a.used
    <2>1. [a EXCEPT !.wanted = FALSE] = a
      BY <1>2 DEF NoJob
    <2> QED
      BY <1>2, <2>1, TidiedRefl
  <1> QED
    BY <1>1, <1>2

\* What waitpid said is noted in the table.
LEMMA UpdatedSound ==
  ASSUME Sound(jobtab), NEW p, kern[p] \in States, NEW silent
  PROVE  LET tab == Updated(p, silent)
         IN /\ Sound(tab)
            /\ \A j \in Slots : tab[j].used = jobtab[j].used
            /\ \A q : (\E j \in Slots : Holds(tab[j], q)) <=>
                      /\ \E j \in Slots : Holds(jobtab[j], q)
                      /\ q = p => kern[p] \in {"run", "stop"}
  <1> DEFINE tab == Updated(p, silent)
             noted(j) == NoteState(NoteStatus(jobtab[j], p, kern[p]))
  <1>1. tab = [j \in Slots |-> tab[j]]
    BY DEF Updated
  <1>2. ASSUME NEW j \in Slots
        PROVE  /\ tab[j] \in JobRecords /\ tab[j].used = jobtab[j].used
               /\ ~jobtab[j].used => tab[j] = jobtab[j]
               /\ Agrees(tab[j])
               /\ \A q : Holds(tab[j], q) <=>
                      Holds(jobtab[j], q) /\ (q = p => kern[p] \in {"run", "stop"})
    <2>1. jobtab[j] \in JobRecords /\ Agrees(jobtab[j])
      BY DEF Sound
    <2>2. /\ noted(j) \in JobRecords /\ noted(j).used = jobtab[j].used
          /\ ~jobtab[j].used => noted(j) = jobtab[j]
          /\ Agrees(noted(j))
          /\ \A q : Holds(noted(j), q) <=>
                 Holds(jobtab[j], q) /\ (q = p => kern[p] \in {"run", "stop"})
      BY <2>1, Noted
    <2>3. tab[j] = IF j \in JobOf(p) THEN Notify(noted(j), silent) ELSE noted(j)
      BY DEF Updated
    <2> HIDE DEF tab, noted
    <2>4. CASE j \notin JobOf(p)
      BY <2>2, <2>3, <2>4
    <2>5. CASE j \in JobOf(p)
      <3>1. jobtab[j].used
        BY <2>5 DEF JobOf, Used
      <3>2. /\ tab[j] \in JobRecords /\ tab[j].used = noted(j).used
            /\ tab[j].ps = noted(j).ps /\ tab[j].state = noted(j).state
        BY <2>2, <2>3, <2>5, NotifyType
      <3>3. Agrees(tab[j])
        BY <2>2, <3>2 DEF Agrees, Status
      <3>4. \A q : Holds(tab[j], q) <=> Holds(noted(j), q)
        BY <3>2 DEF Holds
      <3> QED
        BY <2>2, <3>1, <3>2, <3>3, <3>4
    <2> QED
      BY <2>4, <2>5
  <1> HIDE DEF tab
  <1>3. tab \in [Slots -> JobRecords]
    BY <1>1, <1>2
  <1>4. Sound(tab)
    BY <1>2, <1>3 DEF Sound
  <1> QED
    BY <1>2, <1>4 DEF tab

-----------------------------------------------------------------------------
(* The steps and the table.                                                *)

LEMMA LeastOf ==
  ASSUME NEW S, S \subseteq Nat, S # {}
  PROVE  \E x \in S : \A y \in S : x <= y
  <1>1. PICK x \in S : \A y \in S : ~(<<y, x>> \in OpToRel(<, Nat))
    BY NatLessThanWellFounded, WFMin, Zenon
  <1>2. ASSUME NEW y \in S, y < x PROVE FALSE
    <2>1. <<y, x>> \in Nat \X Nat
      BY <1>2
    <2>2. <<y, x>>[1] < <<y, x>>[2]
      BY <1>2
    <2> QED
      BY <1>1, <2>1, <2>2 DEF OpToRel
  <1> QED
    BY <1>2

LEMMA MinIn ==
  ASSUME NEW S, S \subseteq Nat, S # {}
  PROVE  Min(S) \in S
  BY LeastOf DEF Min

LEMMA MinSince ==
  ASSUME NEW n \in 0..2
  PROVE  Min({n + 1, 2}) \in 0..2 /\ (n = 0 => Min({n + 1, 2}) = 1)
  <1>1. \E x \in {n + 1, 2} : \A y \in {n + 1, 2} : x <= y
    OBVIOUS
  <1>2. Min({n + 1, 2}) \in {n + 1, 2} /\ \A y \in {n + 1, 2} : Min({n + 1, 2}) <= y
    BY <1>1 DEF Min
  <1> QED
    BY <1>2

\* What the proofs of the steps establish first: the part of TInv about the
\* table and the kernel.
TableInv ==
  /\ kern \in [Pids -> {"none", "run", "stop", "exit", "sig", "gone"}]
  /\ Sound(jobtab)
  /\ chg \subseteq Children
  /\ jobs_invalid => Children = {}
  /\ ~jobs_invalid => Known(jobtab, Children)

LEMMA TidyKeeps ==
  ASSUME TableInv, TidiedAll(jobtab, jobtab'), UNCHANGED <<krn, flg>>
  PROVE  TableInv'
  <1>1. Sound(jobtab')
        /\ \A p : (\E j \in Slots : Holds(jobtab'[j], p)) <=> (\E j \in Slots : Holds(jobtab[j], p))
    BY TidiedSound DEF TableInv
  <1>2. Children' = Children
    BY DEF Children, krn
  <1>3. ~jobs_invalid => Known(jobtab', Children)
    BY <1>1 DEF TableInv, Known
  <1> QED
    BY <1>1, <1>2, <1>3 DEF TableInv, krn, flg

\* Waiting: the table learns what the kernel knows of the process, and the
\* kernel forgets a process that has ended.
LEMMA ReapKeeps ==
  ASSUME TableInv, NEW p \in chg, NEW silent, Reap(p), UNCHANGED flg,
         TidiedAll(Updated(p, silent), jobtab')
  PROVE  TableInv'
  <1>1. p \in Pids /\ kern[p] \in States
    BY DEF TableInv, Children, States
  <1> DEFINE tab == Updated(p, silent)
  <1>2. /\ Sound(tab)
        /\ \A q : (\E j \in Slots : Holds(tab[j], q)) <=>
                  /\ \E j \in Slots : Holds(jobtab[j], q)
                  /\ q = p => kern[p] \in {"run", "stop"}
    BY <1>1, UpdatedSound DEF TableInv
  <1> HIDE DEF tab
  <1>3. /\ Sound(jobtab')
        /\ \A q : (\E j \in Slots : Holds(jobtab'[j], q)) <=> (\E j \in Slots : Holds(tab[j], q))
    BY <1>2, TidiedSound DEF tab
  <1>4. kern' \in [Pids -> {"none", "run", "stop", "exit", "sig", "gone"}]
    BY <1>1 DEF Reap, TableInv
  <1>5. \A q \in Pids : kern'[q] = IF q = p /\ kern[p] \in {"exit", "sig"} THEN "gone" ELSE kern[q]
    BY <1>1 DEF Reap, TableInv
  <1>6. \A q \in Pids : q \in Children' <=> q \in Children /\ (q = p => kern[p] \in {"run", "stop"})
    BY <1>1, <1>5 DEF Children, States
  <1>7. chg' \subseteq Children'
    BY <1>6 DEF Reap, TableInv, Children
  <1>8. jobs_invalid => Children' = {}
    BY <1>6 DEF TableInv, Children
  <1>9. ~jobs_invalid => Known(jobtab', Children')
    BY <1>2, <1>3, <1>6 DEF TableInv, Known
  <1> QED
    BY <1>3, <1>4, <1>7, <1>8, <1>9 DEF TableInv, flg

\* freejob, for jobs that are done.
LEMMA FreeTidies ==
  ASSUME Sound(jobtab), NEW S, \A j \in S \cap Slots : jobtab[j].state = "done", Free(S)
  PROVE  TidiedAll(jobtab, jobtab')
  <1>1. ASSUME NEW j \in Slots PROVE Tidied(jobtab[j], jobtab'[j])
    <2>1. jobtab[j] \in JobRecords
      BY DEF Sound
    <2>2. jobtab'[j] = IF j \in S THEN NoJob ELSE jobtab[j]
      BY DEF Free
    <2> QED
      BY <2>1, <2>2, TidiedFree, TidiedRefl
  <1> QED
    BY <1>1 DEF TidiedAll, Free

LEMMA ShowJobsTidies ==
  ASSUME Sound(jobtab), NEW changed, NEW nofree, ShowJobs(changed, nofree)
  PROVE  TidiedAll(jobtab, jobtab')
  <1> DEFINE shown == {j \in Used : jobtab[j].ps # <<>> /\ (changed => jobtab[j].changed)}
             freed == {j \in Used : jobtab[j].ps = <<>> /\ ~jobs_invalid}
                        \cup {j \in shown : jobtab[j].state = "done" /\ ~nofree}
  <1>1. \A j \in freed : jobtab[j].state = "done" \/ jobtab[j].ps = <<>>
    OBVIOUS
  <1>2. \A j \in shown : jobtab[j].used
    BY DEF Used
  <1>3. jobtab' = [j \in Slots |-> IF j \in freed THEN NoJob
                                   ELSE IF j \in shown
                                   THEN [jobtab[j] EXCEPT !.changed = FALSE]
                                   ELSE jobtab[j]]
    BY DEF ShowJobs
  <1> HIDE DEF shown, freed
  <1>4. ASSUME NEW j \in Slots PROVE Tidied(jobtab[j], jobtab'[j])
    <2>1. jobtab[j] \in JobRecords /\ (jobtab[j].used \/ jobtab[j] = NoJob)
      BY DEF Sound
    <2>2. CASE j \in freed
      BY <1>1, <1>3, <2>1, <2>2, TidiedFree
    <2>3. CASE j \notin freed /\ j \in shown
      <3>1. jobtab'[j] = [jobtab[j] EXCEPT !.changed = FALSE]
        BY <1>3, <2>3
      <3> QED
        BY <1>2, <2>1, <2>3, <3>1, TidiedMark
    <2>4. CASE j \notin freed /\ j \notin shown
      BY <1>3, <2>1, <2>4, TidiedRefl
    <2> QED
      BY <2>2, <2>3, <2>4
  <1> QED
    BY <1>3, <1>4 DEF TidiedAll

LEMMA NoJobUnwanted == [NoJob EXCEPT !.wanted = FALSE] = NoJob
  <1>1. ASSUME NEW a \in JobRecords, ~a.wanted PROVE [a EXCEPT !.wanted = FALSE] = a
    BY ONLY <1>1 DEF JobRecords
  <1>2. ~NoJob.wanted
    BY DEF NoJob
  <1> QED
    BY <1>1, <1>2, NoJobType

\* The end of the wait command clears its marks.
LEMMA UnwantedTidies ==
  ASSUME NEW t, NEW u, Sound(t), TidiedAll(t, u)
  PROVE  TidiedAll(t, Unwanted(u))
  <1>1. ASSUME NEW j \in Slots PROVE Tidied(t[j], Unwanted(u)[j])
    <2>1. Unwanted(u)[j] = [u[j] EXCEPT !.wanted = FALSE]
      BY DEF Unwanted
    <2>2. t[j] \in JobRecords /\ (t[j].used \/ t[j] = NoJob) /\ Tidied(t[j], u[j])
      BY DEF Sound, TidiedAll
    <2>3. CASE u[j] = NoJob
      <3>1. Unwanted(u)[j] = u[j]
        BY ONLY <2>1, <2>3, NoJobUnwanted
      <3> QED
        BY <2>2, <3>1
    <2>4. CASE u[j] # NoJob
      <3>1. u[j] \in JobRecords /\ u[j].used = t[j].used /\ u[j].state = t[j].state /\ u[j].ps = t[j].ps
        BY <2>2, <2>4 DEF Tidied
      <3>2. t[j].used
        BY <2>2, <2>4 DEF Tidied
      <3> QED
        BY <2>1, <3>1, <3>2 DEF Tidied, JobRecords
    <2> QED
      BY <2>3, <2>4
  <1> QED
    BY <1>1 DEF TidiedAll, Unwanted

\* wait has found a job: it is freed when it is done, and unmarked.
LEMMA TakeTidies ==
  ASSUME NEW tab, NEW l, NEW j \in Slots, Sound(tab), Take(tab, l, j)
  PROVE  /\ TidiedAll(tab, jobtab')
         /\ Over \/ UNCHANGED <<pc, wany, found>>
  <1> DEFINE freed == tab[j].state = "done" /\ (tab[j].wanted \/ found = 0)
             left == IF freed THEN [tab EXCEPT ![j] = NoJob] ELSE [tab EXCEPT ![j].wanted = FALSE]
  <1>1. \/ jobtab' = Unwanted(left) /\ Over
        \/ jobtab' = left /\ UNCHANGED <<pc, wany, found>>
    BY DEF Take
  <1>2. tab \in [Slots -> JobRecords] /\ (tab[j].used \/ tab[j] = NoJob)
    BY DEF Sound
  <1>3. /\ left = [i \in Slots |-> left[i]]
        /\ \A i \in Slots : i # j => left[i] = tab[i]
        /\ left[j] = IF freed THEN NoJob ELSE [tab[j] EXCEPT !.wanted = FALSE]
    BY <1>2
  <1>4. freed => tab[j].state = "done"
    OBVIOUS
  <1> HIDE DEF left, freed
  <1>5. ASSUME NEW i \in Slots PROVE Tidied(tab[i], left[i])
    BY <1>2, <1>3, <1>4, TidiedRefl, TidiedFree, TidiedMark
  <1>6. TidiedAll(tab, left)
    BY <1>3, <1>5 DEF TidiedAll
  <1>7. TidiedAll(tab, Unwanted(left))
    BY <1>6, UnwantedTidies
  <1> QED
    BY <1>1, <1>6, <1>7

LEMMA AllRefl ==
  ASSUME NEW t, Sound(t)
  PROVE  TidiedAll(t, t)
  BY TidiedRefl DEF TidiedAll, Sound

\* dowait, as the prompt, jobs and the foreground wait call it.
LEMMA DowaitKeeps ==
  ASSUME TableInv, NEW j, NEW silent, Dowait(j, silent), UNCHANGED flg
  PROVE  TableInv'
  <1>1. PICK p \in Waitable(j) : jobtab' = Updated(p, silent) /\ Reap(p)
    BY DEF Dowait
  <1>2. p \in chg /\ kern[p] \in States
    BY <1>1 DEF Waitable, TableInv, Children, States
  <1>3. Sound(Updated(p, silent))
    BY <1>2, UpdatedSound DEF TableInv
  <1> QED
    BY <1>1, <1>2, <1>3, AllRefl, ReapKeeps

\* What starting a job starts from: in a subshell, an empty table.
LEMMA MadeFromSound ==
  ASSUME TableInv
  PROVE  /\ Sound(MadeFrom)
         /\ \A q \in Pids : (\E j \in Slots : Holds(MadeFrom[j], q)) <=> q \in Children
  <1>1. CASE jobs_invalid
    <2>1. MadeFrom = [j \in Slots |-> NoJob] /\ Children = {}
      BY <1>1 DEF MadeFrom, TableInv
    <2> QED
      BY <2>1, NoJobType DEF Sound
  <1>2. CASE ~jobs_invalid
    BY <1>2 DEF MadeFrom, TableInv, Known
  <1> QED
    BY <1>1, <1>2

\* The new job: as many processes as could be forked, all running.
LEMMA NewJob ==
  ASSUME NEW ctl1 \in BOOLEAN, NEW n \in 0..MaxProcs, NEW k \in Nat, n + k <= MaxProcs
  PROVE  LET job == [NoJob EXCEPT !.used = TRUE, !.jobctl = ctl1,
                       !.ps = [i \in 1..k |-> [pid |-> n + i, st |-> "run"]]]
         IN /\ job \in JobRecords /\ job.used /\ Agrees(job)
            /\ \A q \in Pids : Holds(job, q) <=> q \in (n + 1)..(n + k)
  <1> DEFINE ps == [i \in 1..k |-> [pid |-> n + i, st |-> "run"]]
             job == [NoJob EXCEPT !.used = TRUE, !.jobctl = ctl1, !.ps = ps]
  <1>1. \A i \in 1..k : n + i \in Pids
    BY DEF Pids
  <1>2. \A i \in 1..k : ps[i].pid = n + i /\ ps[i].st = "run" /\ ps[i] \in Procs
    BY <1>1 DEF Procs, States
  <1>3. ps \in Seq(Procs) /\ DOMAIN ps = 1..k
    <2>1. ps \in [1..k -> Procs]
      BY <1>2
    <2> QED
      BY ONLY <2>1, k \in Nat
  <1> HIDE DEF ps
  <1>4. /\ job \in JobRecords /\ job.used /\ job.ps = ps
        /\ job.state = "running"
    BY <1>3 DEF NoJob, JobRecords, Procs, States
  <1> HIDE DEF job
  <1>5. Agrees(job)
    <2>1. CASE k = 0
      <3>1. ps = <<>>
        BY <1>3, <2>1
      <3> QED
        BY <1>4, <3>1 DEF Agrees
    <2>2. CASE k # 0
      <3>1. 1 \in 1..k
        BY <2>2
      <3>2. ps[1].st = "run"
        BY <1>2, <3>1
      <3>3. "run" \in Status(job)
        BY <1>3, <1>4, <3>1, <3>2 DEF Status
      <3> QED
        BY <1>4, <3>3 DEF Agrees
    <2> QED
      BY <2>1, <2>2
  <1>6. ASSUME NEW q \in Pids PROVE Holds(job, q) <=> q \in (n + 1)..(n + k)
    <2>2. Holds(job, q) <=> \E i \in 1..k : n + i = q
      BY <1>2, <1>3, <1>4 DEF Holds
    <2>3. q \in Nat
      BY DEF Pids
    <2>4. (\E i \in 1..k : n + i = q) => q \in (n + 1)..(n + k)
      BY <2>3
    <2>5. q \in (n + 1)..(n + k) => q - n \in 1..k /\ n + (q - n) = q
      BY <2>3
    <2> QED
      BY <2>2, <2>4, <2>5
  <1> QED
    BY <1>4, <1>5, <1>6 DEF job, ps

\* makejob and forkparent.
LEMMA StartJobKeeps ==
  ASSUME TableInv, Ranges, NEW n \in 0..2, NEW k \in 0..2, NEW bg, StartJob(n, k, bg)
  PROVE  TableInv' /\ npids' \in 0..MaxProcs /\ wjob' \in 0..MaxJobs /\ (pc' = "fg" => wjob' \in Slots)
  <1> DEFINE free == {i \in Slots : ~MadeFrom[i].used}
             j == Min(free)
             job == [NoJob EXCEPT !.used = TRUE, !.jobctl = mflag /\ rootshell,
                       !.ps = [i \in 1..k |-> [pid |-> npids + i, st |-> "run"]]]
  <1>1. free # {} /\ free \subseteq Nat
    BY DEF StartJob, Slots
  <1>2. j \in free
    BY <1>1, MinIn
  <1>3. j \in Slots /\ ~MadeFrom[j].used
    BY <1>2
  <1>4. npids \in 0..MaxProcs /\ npids + k <= MaxProcs /\ k \in Nat /\ (mflag /\ rootshell) \in BOOLEAN
    BY DEF Ranges, StartJob
  <1>5. /\ job \in JobRecords /\ job.used /\ Agrees(job)
        /\ \A q \in Pids : Holds(job, q) <=> q \in (npids + 1)..(npids + k)
    BY <1>4, NewJob
  <1>6. /\ jobtab' = [MadeFrom EXCEPT ![j] = job]
        /\ kern' = [p \in Pids |-> IF p \in (npids + 1)..(npids + k) THEN "run" ELSE kern[p]]
        /\ npids' = npids + k
        /\ \/ pc' \in {"prompt", "dead"} /\ wjob' = wjob
           \/ pc' = pc /\ pc = "cmd" /\ wjob' = wjob
           \/ pc' = "fg" /\ wjob' = j
        /\ jobs_invalid' = FALSE /\ chg' = chg
    BY DEF StartJob
  <1> HIDE DEF job, j, free
  <1>7. /\ Sound(MadeFrom)
        /\ \A q \in Pids : (\E i \in Slots : Holds(MadeFrom[i], q)) <=> q \in Children
    BY MadeFromSound
  <1>8. /\ \A i \in Slots : jobtab'[i] = IF i = j THEN job ELSE MadeFrom[i]
        /\ jobtab' \in [Slots -> JobRecords]
    BY <1>3, <1>5, <1>6, <1>7 DEF Sound
  <1>9. Sound(jobtab')
    <2>1. ASSUME NEW i \in Slots
          PROVE  (jobtab'[i].used \/ jobtab'[i] = NoJob) /\ Agrees(jobtab'[i])
      BY <1>5, <1>7, <1>8 DEF Sound
    <2> QED
      BY <1>8, <2>1 DEF Sound
  <1>10. /\ kern' \in [Pids -> {"none", "run", "stop", "exit", "sig", "gone"}]
         /\ \A q \in Pids : kern'[q] = IF q \in (npids + 1)..(npids + k) THEN "run" ELSE kern[q]
    BY <1>6 DEF TableInv
  <1>11. \A q \in Pids : q \in Children' <=> q \in Children \/ q \in (npids + 1)..(npids + k)
    BY <1>10 DEF Children
  <1>12. \A q : ~Holds(MadeFrom[j], q)
    BY <1>3 DEF Holds
  <1>13. Known(jobtab', Children')
    <2> SUFFICES ASSUME NEW q \in Pids
                 PROVE  q \in Children' <=> \E i \in Slots : Holds(jobtab'[i], q)
      BY DEF Known
    <2>1. (\E i \in Slots : Holds(jobtab'[i], q)) <=>
          Holds(job, q) \/ \E i \in Slots : Holds(MadeFrom[i], q)
      BY <1>3, <1>8, <1>12
    <2> QED
      BY <1>5, <1>7, <1>11, <2>1
  <1>14. chg' \subseteq Children'
    BY <1>6, <1>10 DEF TableInv, Children
  <1>15. TableInv'
    BY <1>6, <1>9, <1>10, <1>13, <1>14 DEF TableInv
  <1>16. npids' \in 0..MaxProcs
    BY <1>4, <1>6
  <1>17. j \in 0..MaxJobs /\ wjob \in 0..MaxJobs
    BY <1>3 DEF Slots, Ranges
  <1> QED
    BY <1>3, <1>6, <1>15, <1>16, <1>17

\* restartjob: the job and its processes run again.
LEMMA RestartKeeps ==
  ASSUME TableInv, NEW j \in Slots, Restart(j), UNCHANGED flg, jobtab[j].used
  PROVE  TableInv'
  <1>1. jobtab[j] \in JobRecords /\ Agrees(jobtab[j])
    BY DEF TableInv, Sound
  <1>2. /\ Restarted(jobtab[j]) \in JobRecords /\ Restarted(jobtab[j]).used
        /\ Agrees(Restarted(jobtab[j]))
        /\ \A q : Holds(Restarted(jobtab[j]), q) <=> Holds(jobtab[j], q)
    BY <1>1, RestartedType
  <1>3. /\ \A i \in Slots : jobtab'[i] = IF i = j THEN Restarted(jobtab[j]) ELSE jobtab[i]
        /\ jobtab' \in [Slots -> JobRecords]
    BY <1>2 DEF TableInv, Sound, Restart
  <1>4. Sound(jobtab')
    <2>1. ASSUME NEW i \in Slots
          PROVE  (jobtab'[i].used \/ jobtab'[i] = NoJob) /\ Agrees(jobtab'[i])
      BY <1>2, <1>3 DEF TableInv, Sound
    <2> QED
      BY <1>3, <2>1 DEF Sound
  <1>5. /\ kern' \in [Pids -> {"none", "run", "stop", "exit", "sig", "gone"}]
        /\ \A q \in Pids : kern'[q] = IF q \in Continued(j) THEN "run" ELSE kern[q]
    BY DEF TableInv, Restart
  <1>6. Continued(j) \subseteq Children
    BY DEF Continued
  <1>7. Children' = Children
    BY <1>5, <1>6 DEF Children
  <1>8. chg' \subseteq Children'
    BY <1>6, <1>7 DEF TableInv, Restart
  <1>9. \A q : (\E i \in Slots : Holds(jobtab'[i], q)) <=> (\E i \in Slots : Holds(jobtab[i], q))
    BY <1>2, <1>3
  <1>10. ~jobs_invalid => Known(jobtab', Children')
    BY <1>7, <1>9 DEF TableInv, Known
  <1> QED
    BY <1>4, <1>5, <1>7, <1>8, <1>10 DEF TableInv, flg

\* forkchild: none of the processes is a child of the subshell.
LEMMA SubshellKeeps ==
  ASSUME TableInv, Subshell
  PROVE  TableInv'
  <1>1. /\ kern' \in [Pids -> {"none", "run", "stop", "exit", "sig", "gone"}]
        /\ \A q \in Pids : kern'[q] \in {"none", "gone"}
    BY DEF Subshell, TableInv
  <1>2. Children' = {}
    BY <1>1 DEF Children
  <1> QED
    BY <1>1, <1>2 DEF Subshell, tbl, TableInv

\* A process changes by itself.
LEMMA ChangesKeeps ==
  ASSUME TableInv, NEW p \in Pids, NEW st \in States, kern[p] \in States, Changes(p, st)
  PROVE  TableInv'
  <1>1. /\ kern' \in [Pids -> {"none", "run", "stop", "exit", "sig", "gone"}]
        /\ \A q \in Pids : kern'[q] = IF q = p THEN st ELSE kern[q]
    BY DEF Changes, TableInv, States
  <1>2. Children' = Children /\ p \in Children
    BY <1>1 DEF Children, States
  <1> QED
    BY <1>1, <1>2 DEF Changes, tbl, flg, TableInv

-----------------------------------------------------------------------------
(* TInv is inductive.                                                      *)

\* The part of TInv that is not about the table.
ControlInv == Ranges /\ (pc = "fg" => wjob \in Slots) /\ Warned /\ ExitWarned

\* A step that touches no warning and does not leave the shell.
LEMMA QuietControl ==
  ASSUME ControlInv, TableInv', pc' # "left", UNCHANGED wrn,
         pc' \in {"prompt", "read", "cmd", "jobs", "fg", "wait", "dead"},
         wjob' \in 0..MaxJobs, pc' = "fg" => wjob' \in Slots,
         wany' \in BOOLEAN, found' \in 0..1, chg' \subseteq Pids, UNCHANGED flg,
         npids' \in 0..MaxProcs, UNCHANGED <<nstops, nmodes, nforks>>
  PROVE  ControlInv'
  BY DEF ControlInv, Ranges, Warned, ExitWarned, TableInv, wrn, flg

\* Where the wait command goes.
LEMMA OverType ==
  ASSUME Ranges, pc = "wait", Over \/ UNCHANGED <<pc, wany, found>>
  PROVE  pc' \in {"cmd", "wait"} /\ wany' \in BOOLEAN /\ found' \in 0..1
  <1>1. CASE Over
    <2>1. wany' = FALSE /\ found' = 0 /\ pc' = "cmd"
      BY ONLY <1>1 DEF Over
    <2>2. wany' \in BOOLEAN
      BY ONLY <2>1, Zenon
    <2> QED
      BY ONLY <2>1, <2>2
  <1>2. CASE UNCHANGED <<pc, wany, found>>
    <2>1. wany \in BOOLEAN /\ wany' = wany
      BY <1>2 DEF Ranges
    <2>2. found \in 0..1 /\ found' = found /\ pc' = "wait"
      BY <1>2 DEF Ranges
    <2> QED
      BY ONLY <2>1, <2>2
  <1> QED
    BY <1>1, <1>2

\* The shell's own steps.
LEMMA ShellGoesOnT ==
  ASSUME TInv, ShellGoesOn
  PROVE  TInv'
  <1> USE DEF ControlInv, TInv
  <1>1. TableInv /\ ControlInv
    BY DEF TableInv, Ranges
  <1>2. Sound(jobtab)
    OBVIOUS
  <1>3. UNCHANGED <<flg, wrn, bnd>>
    BY DEF ShellGoesOn, CollectChanges, Prompt, WaitForJob, JobIsBack, JobsEnd, WaitTake,
           WaitMore, WaitNothing
  <1>4. CASE CollectChanges
    <2>1. TableInv' /\ pc' = pc /\ wjob' = wjob /\ wany' = wany /\ found' = found /\ pc # "left"
      BY <1>1, <1>4, DowaitKeeps DEF CollectChanges, flg, ctl
    <2> QED
      BY <1>1, <1>3, <2>1, QuietControl DEF TableInv, Ranges, bnd, flg, Children
  <1>5. CASE Prompt
    <2>1. TidiedAll(jobtab, jobtab')
      BY <1>2, <1>5, ShowJobsTidies, AllRefl DEF Prompt, tbl
    <2>2. TableInv'
      BY <1>1, <1>5, <2>1, TidyKeeps DEF Prompt
    <2> QED
      BY <1>1, <1>3, <1>5, <2>2, QuietControl DEF Prompt, TableInv, Ranges, bnd, Children
  <1>6. CASE WaitForJob
    <2>1. TableInv' /\ pc' = pc /\ wjob' = wjob /\ wany' = wany /\ found' = found /\ pc # "left"
      BY <1>1, <1>6, DowaitKeeps DEF WaitForJob, flg, ctl
    <2> QED
      BY <1>1, <1>3, <2>1, QuietControl DEF TableInv, Ranges, bnd, flg, Children
  <1>7. CASE JobIsBack
    <2>1. TidiedAll(jobtab, jobtab')
      <3>1. CASE jobtab[wjob].state = "done"
        BY <1>2, <1>7, <3>1, FreeTidies DEF JobIsBack
      <3>2. CASE jobtab[wjob].state # "done"
        BY <1>2, <1>7, <3>2, AllRefl DEF JobIsBack
      <3> QED
        BY <3>1, <3>2
    <2>2. TableInv'
      BY <1>1, <1>7, <2>1, TidyKeeps DEF JobIsBack
    <2> QED
      BY <1>1, <1>3, <1>7, <2>2, QuietControl DEF JobIsBack, TableInv, Ranges, bnd, Children
  <1>8. CASE JobsEnd
    <2>1. TidiedAll(jobtab, jobtab')
      BY <1>2, <1>8, ShowJobsTidies DEF JobsEnd
    <2>2. TableInv'
      BY <1>1, <1>8, <2>1, TidyKeeps DEF JobsEnd
    <2> QED
      BY <1>1, <1>3, <1>8, <2>2, QuietControl DEF JobsEnd, TableInv, Ranges, bnd, Children
  <1>9. CASE WaitTake
    <2>1. WantedDone # {} /\ WantedDone \subseteq Slots /\ Slots \subseteq Nat
      BY <1>9 DEF WaitTake, WantedDone, Used, Slots
    <2>2. Min(WantedDone) \in Slots
      BY <2>1, MinIn
    <2>3. TidiedAll(jobtab, jobtab') /\ (Over \/ UNCHANGED <<pc, wany, found>>)
      BY <1>2, <1>9, <2>2, TakeTidies DEF WaitTake
    <2>4. TableInv'
      BY <1>1, <1>9, <2>3, TidyKeeps DEF WaitTake
    <2>20. pc = "wait" /\ wjob' = wjob /\ (Over \/ UNCHANGED <<pc, wany, found>>)
      BY <1>9, <2>3 DEF WaitTake
    <2>21. /\ pc' \in {"cmd", "wait"} /\ wany' \in BOOLEAN /\ found' \in 0..1
      BY <2>20, OverType
    <2> QED
      BY <1>1, <1>3, <2>20, <2>21, <2>4, QuietControl DEF TableInv, Ranges, bnd, Children
  <1>10. CASE WaitMore
    <2>1. PICK p \in Waitable(0) :
            LET tab == Updated(p, FALSE)
                hit == {j \in JobOf(p) : tab[j].state # "running"}
            IN /\ Reap(p)
               /\ IF hit = {}
                  THEN jobtab' = tab /\ UNCHANGED <<pc, wany, found>>
                  ELSE Take(tab, Relisted(tab), Min(hit))
      BY <1>10 DEF WaitMore
    <2>2. p \in chg /\ kern[p] \in States
      BY <2>1 DEF Waitable, Children, States
    <2>3. Sound(Updated(p, FALSE))
      BY <1>2, <2>2, UpdatedSound
    <2> DEFINE tab == Updated(p, FALSE)
               hit == {j \in JobOf(p) : tab[j].state # "running"}
    <2>4. hit \subseteq Slots /\ Slots \subseteq Nat
      <3>1. JobOf(p) \subseteq Slots
        BY DEF JobOf, Used
      <3>2. Slots \subseteq Nat
        BY DEF Slots
      <3> QED
        BY <3>1, <3>2
    <2>5. TidiedAll(tab, jobtab') /\ (Over \/ UNCHANGED <<pc, wany, found>>)
      <3>1. CASE hit = {}
        BY <2>1, <2>3, <3>1, AllRefl
      <3>2. CASE hit # {}
        <4>1. Min(hit) \in Slots
          BY <2>4, <3>2, MinIn
        <4>2. Take(tab, Relisted(tab), Min(hit)) /\ Sound(tab)
          BY <2>1, <2>3, <3>2
        <4> QED
          BY ONLY <4>1, <4>2, TakeTidies
      <3> QED
        BY <3>1, <3>2
    <2>6. TidiedAll(Updated(p, FALSE), jobtab') /\ Reap(p) /\ UNCHANGED flg
      BY <1>3, <2>1, <2>5
    <2>7. TableInv'
      BY ONLY <1>1, <2>2, <2>6, ReapKeeps
    <2>20. pc = "wait" /\ wjob' = wjob /\ (Over \/ UNCHANGED <<pc, wany, found>>)
      BY <1>10, <2>5 DEF WaitMore
    <2>21. /\ pc' \in {"cmd", "wait"} /\ wany' \in BOOLEAN /\ found' \in 0..1
      BY <2>20, OverType
    <2> QED
      BY <1>1, <1>3, <2>20, <2>21, <2>7, QuietControl DEF TableInv, Ranges, bnd, Children
  <1>11. CASE WaitNothing
    <2>1. TidiedAll(jobtab, jobtab')
      BY <1>2, <1>11, AllRefl, UnwantedTidies DEF WaitNothing
    <2>2. TableInv'
      BY <1>1, <1>11, <2>1, TidyKeeps DEF WaitNothing
    <2>20. pc = "wait" /\ wjob' = wjob /\ (Over \/ UNCHANGED <<pc, wany, found>>)
      BY <1>11 DEF WaitNothing
    <2>21. /\ pc' \in {"cmd", "wait"} /\ wany' \in BOOLEAN /\ found' \in 0..1
      BY <2>20, OverType
    <2> QED
      BY <1>1, <1>3, <2>20, <2>21, <2>2, QuietControl DEF TableInv, Ranges, bnd, Children
  <1> QED
    BY <1>4, <1>5, <1>6, <1>7, <1>8, <1>9, <1>10, <1>11 DEF ShellGoesOn

\* exit and the end of the input: the shell leaves, or a warning has just been
\* given.
LEMMA TryToLeaveT ==
  ASSUME TInv, NEW back \in {"prompt", "cmd"}, TryToLeave(back)
  PROVE  TInv'
  <1>1. UNCHANGED <<tbl, krn, flg, wjob, wany, found, bnd>>
    BY DEF TryToLeave
  <1>2. Children' = Children /\ Used' = Used
    BY <1>1 DEF Children, Used, krn, tbl
  <1>3. CASE StoppedJobs
    <2>1. pc' = back /\ job_warning' = 2 /\ since' = 0
      BY <1>3 DEF TryToLeave
    <2> QED
      BY <1>1, <1>2, <2>1 DEF TInv, Ranges, Warned, ExitWarned, tbl, krn, flg, bnd
  <1>4. CASE ~StoppedJobs
    <2>1. pc' = "left" /\ job_warning' = job_warning /\ since' = since
      BY <1>4 DEF TryToLeave, wrn
    <2>2. job_warning # 0 => since <= 1
      BY DEF TInv, Ranges, Warned
    <2>3. ExitWarned'
      BY <1>1, <1>2, <1>4, <2>1, <2>2 DEF StoppedJobs, ExitWarned, tbl, flg
    <2> QED
      BY <1>1, <1>2, <2>1, <2>3 DEF TInv, Ranges, Warned, tbl, krn, flg, bnd
  <1> QED
    BY <1>3, <1>4

\* The user's commands, apart from those of the next lemma.
LEMMA CommandsT ==
  ASSUME TInv, ReadCommand \/ CommandDone \/ Subshell \/ SetMonitor \/ JobsBegin
  PROVE  TInv'
  <1>1. TableInv /\ ControlInv
    BY DEF TInv, TableInv, ControlInv, Ranges
  <1>2. CASE ReadCommand
    <2>1. since' \in 0..2 /\ (since = 0 => since' = 1)
      BY <1>2, MinSince DEF ReadCommand, TInv, Ranges
    <2>2. job_warning' \in {0, 1} /\ (job_warning' = 1 => job_warning = 2)
      BY <1>2 DEF ReadCommand
    <2>3. Children' = Children
      BY <1>2 DEF ReadCommand, krn, Children
    <2> QED
      BY <1>2, <2>1, <2>2, <2>3
         DEF ReadCommand, TInv, Ranges, Warned, ExitWarned, tbl, krn, flg, bnd
  <1>3. CASE CommandDone
    <2>1. Children' = Children /\ pc' \in {"prompt", "dead"}
      BY <1>3 DEF CommandDone, krn, Children
    <2> QED
      BY <1>3, <2>1 DEF CommandDone, TInv, Ranges, Warned, ExitWarned, tbl, krn, flg, wrn, bnd
  <1>4. CASE Subshell
    <2>1. TableInv'
      BY <1>1, <1>4, SubshellKeeps
    <2>2. nforks' \in 0..MaxForks
      BY <1>4 DEF Subshell, TInv, Ranges
    <2> QED
      BY <1>4, <2>1, <2>2
         DEF Subshell, TableInv, TInv, Ranges, Warned, ExitWarned, tbl, wrn, ctl
  <1>5. CASE SetMonitor
    <2>1. nmodes' \in 0..MaxModes /\ mflag' \in BOOLEAN
      BY <1>5 DEF SetMonitor, TInv, Ranges
    <2>2. Children' = Children
      BY <1>5 DEF SetMonitor, krn, Children
    <2> QED
      BY <1>5, <2>1, <2>2 DEF SetMonitor, TInv, Ranges, Warned, ExitWarned, tbl, krn, wrn, ctl
  <1>6. CASE JobsBegin
    <2>1. Children' = Children
      BY <1>6 DEF JobsBegin, krn, Children
    <2> QED
      BY <1>6, <2>1 DEF JobsBegin, TInv, Ranges, Warned, ExitWarned, tbl, krn, flg, wrn, bnd
  <1> QED
    BY <1>2, <1>3, <1>4, <1>5, <1>6

\* jobs %j, fg, bg and wait.
LEMMA JobCommandsT ==
  ASSUME TInv,
         \/ \E j \in Slots : JobsOne(j) \/ FgCmd(j) \/ BgCmd(j)
         \/ \E any \in BOOLEAN, j \in 0..MaxJobs : WaitBegin(any, j)
         \/ WaitInterrupted
  PROVE  TInv'
  <1>1. TableInv /\ ControlInv /\ Sound(jobtab)
    BY DEF TInv, TableInv, ControlInv, Ranges
  <1>2. ASSUME NEW j \in Slots, JobsOne(j) PROVE TInv'
    <2>1. UNCHANGED <<krn, flg, wrn, ctl, bnd>> /\ pc = "cmd" /\ jobtab[j].used
      BY <1>2 DEF JobsOne
    <2>2. TidiedAll(jobtab, jobtab')
      <3>1. CASE jobtab[j].state = "done" /\ ~NoFree
        BY <1>1, <1>2, <3>1, FreeTidies DEF JobsOne
      <3>2. CASE ~(jobtab[j].state = "done" /\ ~NoFree)
        <4>1. jobtab' = [jobtab EXCEPT ![j].changed = FALSE] /\ jobtab \in [Slots -> JobRecords]
          BY <1>1, <1>2, <3>2 DEF JobsOne, Sound
        <4>2. \A i \in Slots : jobtab'[i] = IF i = j THEN [jobtab[j] EXCEPT !.changed = FALSE]
                                            ELSE jobtab[i]
          BY <4>1
        <4>3. \A i \in Slots : Tidied(jobtab[i], jobtab'[i])
          BY <1>1, <2>1, <4>2, TidiedMark, TidiedRefl DEF Sound
        <4>4. jobtab' = [i \in Slots |-> jobtab'[i]]
          BY <4>1
        <4> QED
          BY <4>3, <4>4 DEF TidiedAll
      <3> QED
        BY <3>1, <3>2
    <2>3. TableInv'
      BY <1>1, <2>1, <2>2, TidyKeeps
    <2> QED
      BY <1>1, <2>1, <2>3
         DEF TInv, TableInv, ControlInv, Ranges, Warned, ExitWarned, krn, flg, wrn, ctl, bnd
  <1>3. ASSUME NEW j \in Slots, FgCmd(j) PROVE TInv'
    <2>1. Restart(j) /\ UNCHANGED <<flg, wrn, wany, found, bnd>> /\ jobtab[j].used
          /\ pc' = "fg" /\ wjob' = j
      BY <1>3 DEF FgCmd, UnderJobControl
    <2>2. TableInv'
      BY <1>1, <2>1, RestartKeeps
    <2>3. wjob' \in 0..MaxJobs /\ wjob' \in Slots
      BY <2>1 DEF Slots
    <2>4. chg' \subseteq Pids
      BY <2>2 DEF TableInv, Children
    <2> QED
      BY <1>1, <2>1, <2>2, <2>3, <2>4
         DEF TInv, TableInv, ControlInv, Ranges, Warned, ExitWarned, flg, wrn, bnd
  <1>4. ASSUME NEW j \in Slots, BgCmd(j) PROVE TInv'
    <2>1. Restart(j) /\ UNCHANGED <<flg, wrn, ctl, bnd>> /\ jobtab[j].used /\ pc = "cmd"
      BY <1>4 DEF BgCmd, UnderJobControl
    <2>2. TableInv'
      BY <1>1, <2>1, RestartKeeps
    <2>4. chg' \subseteq Pids
      BY <2>2 DEF TableInv, Children
    <2> QED
      BY <1>1, <2>1, <2>2, <2>4
         DEF TInv, TableInv, ControlInv, Ranges, Warned, ExitWarned, flg, wrn, ctl, bnd
  <1>5. ASSUME NEW any \in BOOLEAN, NEW j \in 0..MaxJobs, WaitBegin(any, j) PROVE TInv'
    <2>1. UNCHANGED <<krn, flg, wrn, wjob, bnd>> /\ pc' = "wait" /\ wany' = any /\ found' \in 0..1
      BY <1>5 DEF WaitBegin
    <2>2. \A i \in Slots : Tidied(jobtab[i], jobtab'[i])
      <3> SUFFICES ASSUME NEW i \in Slots PROVE Tidied(jobtab[i], jobtab'[i])
        OBVIOUS
      <3> DEFINE w == any \/ i = j
      <3>1. jobtab'[i] = IF jobtab[i].used THEN [jobtab[i] EXCEPT !.wanted = w] ELSE jobtab[i]
        BY <1>5 DEF WaitBegin
      <3>2. w \in BOOLEAN
        OBVIOUS
      <3>3. jobtab[i] \in JobRecords /\ (jobtab[i].used \/ jobtab[i] = NoJob)
        BY <1>1 DEF Sound
      <3> HIDE DEF w
      <3> QED
        BY <3>1, <3>2, <3>3, TidiedMark, TidiedRefl
    <2>3. TidiedAll(jobtab, jobtab')
      BY <1>5, <2>2 DEF TidiedAll, WaitBegin
    <2>4. TableInv'
      BY <1>1, <2>1, <2>3, TidyKeeps
    <2> QED
      BY <1>1, <2>1, <2>4
         DEF TInv, TableInv, ControlInv, Ranges, Warned, ExitWarned, krn, flg, wrn, bnd
  <1>6. CASE WaitInterrupted
    <2>1. UNCHANGED <<krn, flg, wrn, wjob, bnd>> /\ Over /\ jobtab' = Unwanted(jobtab)
      BY <1>6 DEF WaitInterrupted
    <2>2. TidiedAll(jobtab, jobtab')
      BY <1>1, <2>1, AllRefl, UnwantedTidies
    <2>3. TableInv'
      BY <1>1, <2>1, <2>2, TidyKeeps
    <2>4. /\ pc' \in {"cmd", "wait"} /\ wany' \in BOOLEAN /\ found' \in 0..1
      BY <1>6, <2>1, OverType DEF WaitInterrupted, TInv
    <2> QED
      BY <1>1, <2>1, <2>3, <2>4, QuietControl
         DEF TInv, TableInv, ControlInv, Ranges, Children, bnd, flg
  <1> QED
    BY <1>2, <1>3, <1>4, <1>5, <1>6

\* The processes.
LEMMA ProcsT ==
  ASSUME TInv, NEW p \in Pids,
         \/ ProcStops(p) \/ ProcContinues(p)
         \/ \E st \in {"exit", "sig"} : ProcEnds(p, st)
  PROVE  TInv'
  <1>1. TableInv /\ ControlInv
    BY DEF TInv, TableInv, ControlInv, Ranges
  <1>2. PICK st \in States : Changes(p, st) /\ kern[p] \in States
    BY DEF ProcStops, ProcContinues, ProcEnds, States
  <1>3. TableInv'
    BY <1>1, <1>2, ChangesKeeps
  <1>4. nstops' \in 0..MaxStops
    BY DEF ProcStops, ProcContinues, ProcEnds, TInv, Ranges
  <1>5. UNCHANGED <<tbl, flg, wrn, ctl, npids, nmodes, nforks>>
    BY <1>2 DEF Changes
  <1>6. ControlInv'
    BY <1>1, <1>3, <1>4, <1>5
       DEF ControlInv, TableInv, Children, Ranges, Warned, ExitWarned, Used, tbl, flg, wrn, ctl
  <1> QED
    BY <1>3, <1>6 DEF TInv, TableInv, ControlInv

LEMMA TInit == Init => TInv
  <1> SUFFICES ASSUME Init PROVE TInv
    OBVIOUS
  <1>1. Ranges
    <2>1. /\ jobs_invalid \in BOOLEAN /\ rootshell \in BOOLEAN /\ mflag \in BOOLEAN /\ wany \in BOOLEAN
      BY Zenon DEF Init, ConstAssumption
    <2>2. kern \in [Pids -> {"none", "run", "stop", "exit", "sig", "gone"}] /\ chg \subseteq Pids
      BY DEF Init
    <2> QED
      BY <2>1, <2>2 DEF Init, Ranges
  <1>2. jobtab \in [Slots -> JobRecords] /\ \A j \in Slots : jobtab[j] = NoJob
    BY NoJobType DEF Init
  <1>3. Sound(jobtab)
    BY <1>2, NoJobType DEF Sound
  <1>4. Children = {}
    BY DEF Init, Children
  <1>5. Known(jobtab, Children)
    BY <1>2, <1>4, NoJobType DEF Known
  <1> QED
    BY <1>1, <1>3, <1>4, <1>5 DEF Init, TInv, Warned, ExitWarned

LEMMA TNext == TInv /\ [Next]_vars => TInv'
  <1> SUFFICES ASSUME TInv, [Next]_vars PROVE TInv'
    OBVIOUS
  <1>1. CASE ShellGoesOn
    BY <1>1, ShellGoesOnT
  <1>2. CASE ReadCommand \/ CommandDone \/ Subshell \/ SetMonitor \/ JobsBegin
    BY <1>2, CommandsT
  <1>3. CASE EndOfInput \/ ExitCmd
    BY <1>3, TryToLeaveT DEF EndOfInput, ExitCmd
  <1>4. ASSUME NEW n \in 0..2, NEW k \in 0..2, NEW bg \in BOOLEAN, StartJob(n, k, bg)
        PROVE  TInv'
    <2>1. TableInv /\ ControlInv
      BY DEF TInv, TableInv, ControlInv, Ranges
    <2>2. /\ TableInv' /\ npids' \in 0..MaxProcs
          /\ wjob' \in 0..MaxJobs /\ (pc' = "fg" => wjob' \in Slots)
      BY <1>4, <2>1, StartJobKeeps DEF ControlInv
    <2>3. /\ pc' \in {"prompt", "dead", "cmd", "fg"} /\ jobs_invalid' = FALSE
          /\ UNCHANGED <<chg, rootshell, mflag, wrn, wany, found, nstops, nmodes, nforks>>
      BY <1>4 DEF StartJob
    <2> QED
      BY <2>1, <2>2, <2>3
         DEF TInv, TableInv, ControlInv, Ranges, Warned, ExitWarned, wrn
  <1>5. CASE \/ \E j \in Slots : JobsOne(j) \/ FgCmd(j) \/ BgCmd(j)
             \/ \E any \in BOOLEAN, j \in 0..MaxJobs : WaitBegin(any, j)
             \/ WaitInterrupted
    BY <1>5, JobCommandsT
  <1>6. ASSUME NEW p \in Pids,
               \/ ProcStops(p) \/ ProcContinues(p)
               \/ \E st \in {"exit", "sig"} : ProcEnds(p, st)
        PROVE  TInv'
    BY <1>6, ProcsT
  <1>7. CASE UNCHANGED vars
    BY <1>7 DEF vars, tbl, krn, flg, wrn, ctl, bnd, TInv, Ranges, Warned, ExitWarned, Children, Used
  <1> QED
    BY <1>1, <1>2, <1>3, <1>4, <1>5, <1>6, <1>7 DEF Next

\* TInv holds in every reachable state, whatever the bounds.
THEOREM TableRight == Spec => []TInv
  BY TInit, TNext, PTL DEF Spec

\* A job is running, stopped or done exactly when its processes are: dowait,
\* restartjob and makejob keep jp->state and the ps_status fields in step, in
\* whatever order waitpid reports the changes.
THEOREM JobStates == Spec => []StatesAgree
  <1>1. TInv => StatesAgree
    BY DEF TInv, Sound, Agrees, StatesAgree, Used
  <1> QED
    BY <1>1, TableRight, PTL

\* What the table holds to be alive is exactly the children the kernel has:
\* waitforjob and wait never wait for a process that waitpid has given out, and
\* no child is left out of the table.
THEOREM ChildrenAccounted == Spec => []ChildrenKnown
  <1>1. TInv => ChildrenKnown
    <2> SUFFICES ASSUME TInv, ~jobs_invalid
                 PROVE  Children = UNION {{jobtab[j].ps[k].pid : k \in
                          {i \in DOMAIN jobtab[j].ps : jobtab[j].ps[i].st \in {"run", "stop"}}} :
                        j \in Used}
      BY DEF ChildrenKnown
    <2>1. Known(jobtab, Children) /\ Children \subseteq Pids
      BY DEF TInv, Children
    <2>2. ASSUME NEW q
          PROVE  q \in Children <=> \E j \in Used : \E k \in DOMAIN jobtab[j].ps :
                    jobtab[j].ps[k].st \in {"run", "stop"} /\ jobtab[j].ps[k].pid = q
      <3>1. ASSUME NEW j \in Slots, NEW k \in DOMAIN jobtab[j].ps PROVE jobtab[j].ps[k].pid \in Pids
        <4>1. jobtab[j].ps \in Seq(Procs)
          BY DEF TInv, Sound, JobRecords, Procs, States
        <4>2. jobtab[j].ps[k] \in Procs
          BY ONLY <4>1, k \in DOMAIN jobtab[j].ps
        <4> QED
          BY <4>2 DEF Procs
      <3>2. (\E j \in Slots : Holds(jobtab[j], q)) <=> \E j \in Used : \E k \in DOMAIN jobtab[j].ps :
                    jobtab[j].ps[k].st \in {"run", "stop"} /\ jobtab[j].ps[k].pid = q
        BY DEF Holds, Used
      <3>3. (\E j \in Slots : Holds(jobtab[j], q)) => q \in Pids
        BY <3>1 DEF Holds
      <3> QED
        BY <2>1, <3>2, <3>3 DEF Known
    <2> QED
      BY <2>2
  <1> QED
    BY <1>1, TableRight, PTL

\* The shell does not leave stopped jobs behind unless it warned of them at this
\* command or the one before (stoppedjobs, and job_warning in cmdloop).
THEOREM LeavesWarned == Spec => []ExitWarned
  <1>1. TInv => ExitWarned
    BY DEF TInv
  <1> QED
    BY <1>1, TableRight, PTL

-----------------------------------------------------------------------------
(* The list of jobs.                                                       *)

Lists == [cur : 0..MaxJobs, prev : [Slots -> 0..MaxJobs]]

\* The jobs in L are linked: curjob is one of them, each but curjob is the
\* prev_job of exactly one other, and the links lead upwards in rk, so that they
\* end.
Linked(l, L, rk, b) ==
  /\ l \in Lists /\ L \subseteq Slots /\ b \in Nat /\ rk \in [Slots -> 0..b]
  /\ l.cur \in L \cup {0} /\ (L # {} => l.cur # 0)
  /\ \A i \in Slots : l.prev[i] # 0 => rk[i] < rk[l.prev[i]]
  /\ \A i \in L : l.prev[i] \in L \cup {0} /\ (l.prev[i] # 0 => l.prev[i] # l.cur)
  /\ \A i \in L, k \in L : l.prev[i] = l.prev[k] /\ l.prev[i] # 0 => i = k
  /\ \A j \in L : j # l.cur => \E i \in L : l.prev[i] = j

\* The jobs off the list, apart from j, have no prev_job.
Clean(l, L, j) == \A i \in Slots : i \in L \/ i = j \/ l.prev[i] = 0

\* Taking a job out of the list, as set_curjob does before it puts it elsewhere.
LEMMA UnlinkLinked ==
  ASSUME NEW l, NEW L, NEW rk, NEW b, Linked(l, L, rk, b), Clean(l, L, 0), NEW j \in Slots
  PROVE  Linked(Unlink(l, j), L \ {j}, rk, b) /\ Clean(Unlink(l, j), L \ {j}, j)
  <1> DEFINE before == {i \in Slots : l.prev[i] = j}
             M == L \ {j}
  <1>1. j # 0 /\ 0 \notin Slots
    BY DEF Slots
  <1>2. l.prev \in [Slots -> 0..MaxJobs] /\ l.cur \in 0..MaxJobs /\ \A i \in Slots : rk[i] \in Nat
    BY DEF Linked, Lists
  <1>3. \A i \in before : i \in L
    BY <1>1 DEF Clean
  <1>4. CASE l.cur = j
    <2> DEFINE u == [l EXCEPT !.cur = l.prev[j]]
    <2>1. Unlink(l, j) = u
      BY <1>4 DEF Unlink
    <2>2. u \in Lists /\ u.cur = l.prev[j] /\ u.prev = l.prev
      BY <1>2 DEF Linked, Lists
    <2> HIDE DEF u
    <2>3. j \in L /\ u.cur \in M \cup {0}
      <3>1. j \in L
        BY <1>1, <1>4 DEF Linked
      <3>2. l.prev[j] \in L \cup {0} /\ l.prev[j] # j
        BY <1>1, <1>4, <3>1 DEF Linked
      <3> QED
        BY <2>2, <3>1, <3>2
    <2>4. M # {} => u.cur # 0
      <3> SUFFICES ASSUME M # {} PROVE u.cur # 0
        OBVIOUS
      <3>1. {rk[i] : i \in M} \subseteq Nat /\ {rk[i] : i \in M} # {}
        BY <1>2 DEF Linked
      <3>2. PICK i \in M : \A k \in M : rk[i] <= rk[k]
        <4>1. \E n \in {rk[i] : i \in M} : \A y \in {rk[i] : i \in M} : n <= y
          BY ONLY <3>1, LeastOf
        <4> QED
          BY <4>1
      <3>3. PICK k \in L : l.prev[k] = i
        BY <1>4 DEF Linked
      <3>4. rk[k] < rk[i] /\ i # 0
        BY <1>1, <3>3 DEF Linked
      <3>5. k = j
        <4>1. k \in Slots /\ i \in Slots
          BY DEF Linked
        <4>2. rk[k] \in Nat /\ rk[i] \in Nat
          BY <1>2, <4>1
        <4>3. ~(rk[i] <= rk[k])
          BY <3>4, <4>2
        <4> QED
          BY <3>2, <4>3
      <3> QED
        BY <2>2, <3>3, <3>4, <3>5
    <2>5. \A i \in M : u.prev[i] \in M \cup {0} /\ (u.prev[i] # 0 => u.prev[i] # u.cur)
      <3> SUFFICES ASSUME NEW i \in M
                   PROVE  u.prev[i] \in M \cup {0} /\ (u.prev[i] # 0 => u.prev[i] # u.cur)
        OBVIOUS
      <3>1. i \in L /\ i # j /\ l.prev[i] \in L \cup {0} /\ (l.prev[i] # 0 => l.prev[i] # j)
        BY <1>4 DEF Linked
      <3>2. l.prev[i] # 0 => l.prev[i] # l.prev[j]
        BY <2>3, <3>1 DEF Linked
      <3> QED
        BY <2>2, <3>1, <3>2
    <2>6. \A i \in M, k \in M : u.prev[i] = u.prev[k] /\ u.prev[i] # 0 => i = k
      BY <2>2 DEF Linked
    <2>7. \A i \in M : i # u.cur => \E k \in M : u.prev[k] = i
      <3> SUFFICES ASSUME NEW i \in M, i # u.cur PROVE \E k \in M : u.prev[k] = i
        OBVIOUS
      <3>1. PICK k \in L : l.prev[k] = i
        BY <1>4 DEF Linked
      <3>2. k # j
        BY <2>2, <3>1
      <3> QED
        BY <2>2, <3>1, <3>2
    <2>8. Clean(u, M, j)
      BY <1>1, <2>2 DEF Clean
    <2>9. M \subseteq Slots /\ b \in Nat /\ rk \in [Slots -> 0..b]
          /\ \A i \in Slots : u.prev[i] # 0 => rk[i] < rk[u.prev[i]]
      BY <2>2 DEF Linked
    <2> HIDE DEF M
    <2>10. Linked(u, M, rk, b)
      BY ONLY <2>2, <2>3, <2>4, <2>5, <2>6, <2>7, <2>9 DEF Linked
    <2> QED
      BY <2>1, <2>8, <2>10 DEF M
  <1>5. CASE l.cur # j /\ before = {}
    <2>1. Unlink(l, j) = l
      BY <1>5 DEF Unlink
    <2>2. j \notin L
      <3>1. \A i \in L : l.prev[i] # j
        BY <1>5 DEF Linked
      <3> QED
        BY <1>5, <3>1 DEF Linked
    <2>3. L \ {j} = L
      BY <2>2
    <2> QED
      BY <1>1, <2>1, <2>3 DEF Clean
  <1>6. CASE l.cur # j /\ before # {}
    <2>1. PICK i \in L : l.prev[i] = j
      BY <1>3, <1>6
    <2>2. j \in L /\ i \in Slots /\ before = {i}
      <3>1. j \in L
        BY <1>1, <2>1 DEF Linked
      <3>2. \A k \in before : k = i
        BY <1>1, <1>3, <2>1 DEF Linked
      <3> QED
        BY <2>1, <3>1, <3>2 DEF Linked
    <2>3. Min(before) = i
      <3>1. Min(before) \in before
        BY <1>6, MinIn DEF Slots
      <3> QED
        BY <2>2, <3>1
    <2> DEFINE u == [l EXCEPT !.prev[i] = l.prev[j]]
    <2>4. Unlink(l, j) = u
      BY <1>6, <2>3 DEF Unlink
    <2>5. /\ u \in Lists /\ u.cur = l.cur
          /\ \A k \in Slots : u.prev[k] = IF k = i THEN l.prev[j] ELSE l.prev[k]
      BY <1>2, <2>2 DEF Linked, Lists
    <2> HIDE DEF u
    <2>6. i # j /\ l.prev[j] # j /\ rk[i] < rk[j] /\ (l.prev[j] # 0 => rk[j] < rk[l.prev[j]])
      <3>1. rk[i] < rk[j] /\ (l.prev[j] # 0 => rk[j] < rk[l.prev[j]])
        BY <1>1, <2>1, <2>2 DEF Linked
      <3>2. rk[i] \in Nat /\ rk[j] \in Nat
        BY <1>2, <2>2
      <3> QED
        BY <1>1, <3>1, <3>2
    <2>7. \A k \in Slots : u.prev[k] # 0 => rk[k] < rk[u.prev[k]]
      <3> SUFFICES ASSUME NEW k \in Slots, u.prev[k] # 0 PROVE rk[k] < rk[u.prev[k]]
        OBVIOUS
      <3>1. CASE k # i
        BY <2>5, <3>1 DEF Linked
      <3>2. CASE k = i
        <4>1. l.prev[j] # 0 /\ u.prev[k] = l.prev[j] /\ l.prev[j] \in Slots
          BY <1>2, <2>5, <3>2 DEF Slots
        <4>2. rk[i] \in Nat /\ rk[j] \in Nat /\ rk[l.prev[j]] \in Nat
          BY <1>2, <2>2, <4>1
        <4> QED
          BY <2>6, <3>2, <4>1, <4>2
      <3> QED
        BY <3>1, <3>2
    <2>8. \A k \in M : u.prev[k] \in M \cup {0} /\ (u.prev[k] # 0 => u.prev[k] # u.cur)
      <3> SUFFICES ASSUME NEW k \in M
                   PROVE  u.prev[k] \in M \cup {0} /\ (u.prev[k] # 0 => u.prev[k] # u.cur)
        OBVIOUS
      <3>1. k \in L /\ k \in Slots
        BY DEF Linked
      <3>2. CASE k = i
        <4>1. l.prev[j] \in L \cup {0} /\ (l.prev[j] # 0 => l.prev[j] # l.cur)
          BY <2>2 DEF Linked
        <4> QED
          BY <2>5, <2>6, <3>1, <3>2, <4>1
      <3>3. CASE k # i
        <4>1. l.prev[k] \in L \cup {0} /\ (l.prev[k] # 0 => l.prev[k] # l.cur)
          BY <3>1 DEF Linked
        <4>2. l.prev[k] # j
          BY <1>1, <2>1, <3>1, <3>3 DEF Linked
        <4> QED
          BY <2>5, <3>1, <3>3, <4>1, <4>2
      <3> QED
        BY <3>2, <3>3
    <2>9. \A k \in M, m \in M : u.prev[k] = u.prev[m] /\ u.prev[k] # 0 => k = m
      <3>1. \A k \in M : k \in L /\ k \in Slots /\ k # j
        BY DEF Linked
      <3>2. \A k \in M, m \in M : k # m /\ k # i => ~(u.prev[k] = u.prev[m] /\ u.prev[k] # 0)
        <4> SUFFICES ASSUME NEW k \in M, NEW m \in M, k # m, k # i, u.prev[k] # 0
                     PROVE  u.prev[k] # u.prev[m]
          OBVIOUS
        <4>1. u.prev[k] = l.prev[k] /\ u.prev[m] = IF m = i THEN l.prev[j] ELSE l.prev[m]
          BY <2>5, <3>1
        <4> QED
          BY <2>2, <3>1, <4>1 DEF Linked
      <3> QED
        BY <3>2
    <2>10. \A k \in M : k # u.cur => \E m \in M : u.prev[m] = k
      <3> SUFFICES ASSUME NEW k \in M, k # u.cur PROVE \E m \in M : u.prev[m] = k
        OBVIOUS
      <3>1. PICK m \in L : l.prev[m] = k
        BY <2>5 DEF Linked
      <3>2. m \in Slots
        BY DEF Linked
      <3>3. CASE m = j
        <4>1. u.prev[i] = k /\ i \in M
          BY <2>1, <2>2, <2>5, <2>6, <3>1, <3>3
        <4> QED
          BY <4>1
      <3>4. CASE m # j
        BY <2>1, <2>5, <3>1, <3>2, <3>4
      <3> QED
        BY <3>3, <3>4
    <2>11. Clean(u, M, j)
      BY <1>1, <2>1, <2>5 DEF Clean
    <2>12. M \subseteq Slots /\ b \in Nat /\ rk \in [Slots -> 0..b]
      BY DEF Linked
    <2>13. u.cur \in M \cup {0} /\ (M # {} => u.cur # 0)
      BY <1>6, <2>5 DEF Linked
    <2> HIDE DEF M
    <2>14. Linked(u, M, rk, b)
      BY ONLY <2>5, <2>7, <2>8, <2>9, <2>10, <2>12, <2>13 DEF Linked
    <2> QED
      BY <2>4, <2>11, <2>14 DEF M
  <1> QED
    BY <1>4, <1>5, <1>6

\* set_curjob(jp, 0).
LEMMA DelistLinked ==
  ASSUME NEW l, NEW L, NEW rk, NEW b, Linked(l, L, rk, b), Clean(l, L, 0), NEW j \in Slots
  PROVE  Linked(Delist(l, j), L \ {j}, rk, b) /\ Clean(Delist(l, j), L \ {j}, 0)
  <1> DEFINE u == Unlink(l, j)
             d == Delist(l, j)
             M == L \ {j}
  <1>1. Linked(u, M, rk, b) /\ Clean(u, M, j)
    BY UnlinkLinked
  <1>2. d = [u EXCEPT !.prev[j] = 0] /\ j \notin M
    BY DEF Delist
  <1> HIDE DEF u, d, M
  <1>3. u \in Lists /\ M \subseteq Slots
    BY <1>1 DEF Linked
  <1>4. /\ d \in Lists /\ d.cur = u.cur
        /\ \A i \in Slots : d.prev[i] = IF i = j THEN 0 ELSE u.prev[i]
    BY <1>2, <1>3 DEF Lists
  <1>5. \A i \in M : d.prev[i] = u.prev[i]
    BY <1>2, <1>3, <1>4
  <1>6. Clean(d, M, 0)
    BY <1>1, <1>4 DEF Clean
  <1>7. Linked(d, M, rk, b)
    BY <1>1, <1>3, <1>4, <1>5 DEF Linked
  <1> QED
    BY <1>6, <1>7 DEF d, M

AnyOf(s) == CHOOSE x \in s : TRUE

\* it holds the list after each of the jobs in S.
DelistSteps(it, l, S) ==
  /\ DelistAll(l, S) = it[S]
  /\ it[{}] = l
  /\ \A s \in SUBSET S : s # {} => it[s] = Delist(it[s \ {AnyOf(s)}], AnyOf(s))

\* DelistAll takes out the jobs one by one.
LEMMA DelistIterates ==
  ASSUME NEW l, NEW S, IsFiniteSet(S)
  PROVE  \E it : DelistSteps(it, l, S)
  <1> DEFINE D(m) == {s \in SUBSET S : Cardinality(s) < m}
             Good(g, m) == g = [s \in D(m) |-> IF s = {} THEN l ELSE Delist(g[s \ {AnyOf(s)}], AnyOf(s))]
             bad == {m \in Nat : ~\E g : Good(g, m)}
  <1>10. \A s \in SUBSET S : Cardinality(s) \in Nat /\ Cardinality(s) <= Cardinality(S)
    BY FS_Subset, FS_CardinalityType
  <1>1. \A s \in SUBSET S : /\ s # {} => AnyOf(s) \in s /\ s \ {AnyOf(s)} \in SUBSET S
                                        /\ Cardinality(s \ {AnyOf(s)}) = Cardinality(s) - 1
    <2> SUFFICES ASSUME NEW s \in SUBSET S
                 PROVE  /\ s # {} => AnyOf(s) \in s /\ s \ {AnyOf(s)} \in SUBSET S
                                     /\ Cardinality(s \ {AnyOf(s)}) = Cardinality(s) - 1
      OBVIOUS
    <2>1. IsFiniteSet(s) /\ Cardinality(s) <= Cardinality(S)
      BY FS_Subset
    <2>2. Cardinality(s) \in Nat
      BY <2>1, FS_CardinalityType
    <2>3. s # {} => AnyOf(s) \in s
      BY DEF AnyOf
    <2>4. s # {} => Cardinality(s \ {AnyOf(s)}) = Cardinality(s) - 1
      BY <2>1, <2>3, FS_RemoveElement
    <2> QED
      BY <2>1, <2>2, <2>3, <2>4
  <1>2. \A m : \A s : s \in D(m) <=> s \in SUBSET S /\ Cardinality(s) < m
    OBVIOUS
  <1> HIDE DEF D
  <1>3. bad = {}
    <2> SUFFICES ASSUME bad # {} PROVE FALSE
      OBVIOUS
    <2>1. PICK m \in bad : \A k \in bad : m <= k
      BY ONLY bad # {}, bad \subseteq Nat, LeastOf
    <2>2. m \in Nat /\ ~\E g : Good(g, m)
      <3> HIDE DEF Good
      <3> QED
        BY <2>1
    <2>3. \A k \in Nat : k < m => \E g : Good(g, k)
      <3> HIDE DEF Good
      <3> QED
        BY ONLY <2>1, <2>2
    <2>4. CASE m = 0
      <3>1. \A s \in SUBSET S : ~(Cardinality(s) < 0)
        BY ONLY <1>10
      <3>2. D(0) = {}
        BY <1>2, <3>1
      <3>3. Good([s \in {} |-> l], 0)
        BY <3>2
      <3> HIDE DEF Good
      <3> QED
        BY <2>2, <2>4, <3>3
    <2>5. CASE m # 0
      <3>1. m - 1 \in Nat /\ m - 1 < m
        BY ONLY <2>2, <2>5
      <3>2. PICK g : Good(g, m - 1)
        <4> HIDE DEF Good
        <4> QED
          BY <2>3, <3>1
      <3> DEFINE h == [s \in D(m) |-> IF s = {} THEN l ELSE Delist(g[s \ {AnyOf(s)}], AnyOf(s))]
      <3>3. \A s \in D(m) : s # {} => s \ {AnyOf(s)} \in D(m - 1)
        <4> SUFFICES ASSUME NEW s \in D(m), s # {} PROVE s \ {AnyOf(s)} \in D(m - 1)
          OBVIOUS
        <4>1. s \in SUBSET S /\ Cardinality(s) < m
          BY <1>2
        <4>2. s \ {AnyOf(s)} \in SUBSET S /\ Cardinality(s \ {AnyOf(s)}) = Cardinality(s) - 1
              /\ Cardinality(s) \in Nat
          BY <1>1, <1>10, <4>1
        <4>3. Cardinality(s \ {AnyOf(s)}) < m - 1
          BY ONLY <2>2, <4>1, <4>2
        <4> QED
          BY <1>2, <4>2, <4>3
      <3>4. \A s \in D(m - 1) : s \in D(m)
        <4> SUFFICES ASSUME NEW s \in D(m - 1) PROVE s \in D(m)
          OBVIOUS
        <4>1. s \in SUBSET S /\ Cardinality(s) < m - 1
          BY <1>2
        <4>2. Cardinality(s) \in Nat
          BY <1>10, <4>1
        <4>3. Cardinality(s) < m
          BY ONLY <2>2, <4>1, <4>2
        <4> QED
          BY <1>2, <4>1, <4>3
      <3>5. \A s \in D(m - 1) : h[s] = g[s]
        BY <3>2, <3>4
      <3>6. \A s \in D(m) : s # {} => h[s \ {AnyOf(s)}] = g[s \ {AnyOf(s)}]
        BY <3>3, <3>5
      <3>7. h = [s \in D(m) |-> IF s = {} THEN l ELSE Delist(h[s \ {AnyOf(s)}], AnyOf(s))]
        BY <3>6
      <3>8. \E k : Good(k, m)
        <4> HIDE DEF h
        <4> QED
          BY <3>7
      <3> HIDE DEF Good
      <3> QED
        BY <2>2, <3>8
    <2> QED
      BY <2>4, <2>5
  <1>8. D(Cardinality(S) + 1) = SUBSET S
    <2>1. Cardinality(S) \in Nat
      BY FS_CardinalityType
    <2>2. \A s \in SUBSET S : Cardinality(s) < Cardinality(S) + 1
      BY ONLY <1>10, <2>1
    <2> QED
      BY <1>2, <2>2
  <1>4. \E g : g = [s \in SUBSET S |-> IF s = {} THEN l ELSE Delist(g[s \ {AnyOf(s)}], AnyOf(s))]
    <2>1. Cardinality(S) + 1 \in Nat
      BY FS_CardinalityType
    <2>2. \E g : Good(g, Cardinality(S) + 1)
      <3> HIDE DEF Good
      <3> QED
        BY <1>3, <2>1
    <2> QED
      BY <1>8, <2>2
  <1> DEFINE Iter == CHOOSE it : it = [s \in SUBSET S |->
                        IF s = {} THEN l
                        ELSE Delist(it[s \ {CHOOSE x \in s : TRUE}], CHOOSE x \in s : TRUE)]
  <1>5. DelistAll(l, S) = Iter[S]
    BY DEF DelistAll, FoldSet, MapThenFoldSet
  <1>6. Iter = [s \in SUBSET S |-> IF s = {} THEN l ELSE Delist(Iter[s \ {AnyOf(s)}], AnyOf(s))]
    BY <1>4, Zenon DEF AnyOf
  <1> HIDE DEF Iter
  <1>7. /\ Iter[{}] = l
        /\ \A s \in SUBSET S : s # {} => Iter[s] = Delist(Iter[s \ {AnyOf(s)}], AnyOf(s))
    BY <1>6
  <1>9. DelistSteps(Iter, l, S)
    BY <1>5, <1>7 DEF DelistSteps
  <1> QED
    BY <1>9

LEMMA DelistAllLinked ==
  ASSUME NEW l, NEW L, NEW rk, NEW b, Linked(l, L, rk, b), Clean(l, L, 0), NEW S, S \subseteq Slots
  PROVE  Linked(DelistAll(l, S), L \ S, rk, b) /\ Clean(DelistAll(l, S), L \ S, 0)
  <1>1. IsFiniteSet(S)
    <2>1. IsFiniteSet(1..MaxJobs)
      BY FS_Interval
    <2> QED
      BY <2>1, FS_Subset DEF Slots
  <1>2. PICK it : DelistSteps(it, l, S)
    BY <1>1, DelistIterates
  <1>3. \A s \in SUBSET S : s # {} => /\ AnyOf(s) \in s /\ s \ {AnyOf(s)} \in SUBSET S
                                      /\ it[s] = Delist(it[s \ {AnyOf(s)}], AnyOf(s))
    BY <1>2 DEF AnyOf, DelistSteps
  <1>4. it[{}] = l /\ DelistAll(l, S) = it[S]
    BY <1>2 DEF DelistSteps
  <1> DEFINE Right(s) == Linked(it[s], L \ s, rk, b) /\ Clean(it[s], L \ s, 0)
             sizes == {Cardinality(s) : s \in {t \in SUBSET S : ~Right(t)}}
  <1>5. \A s \in SUBSET S : Right(s)
    <2> SUFFICES ASSUME NEW t \in SUBSET S, ~Right(t) PROVE FALSE
      OBVIOUS
    <2>1. \A s \in SUBSET S : IsFiniteSet(s) /\ Cardinality(s) \in Nat
      BY <1>1, FS_Subset, FS_CardinalityType
    <2>2. sizes \subseteq Nat /\ sizes # {}
      <3> HIDE DEF Right
      <3> QED
        BY <2>1
    <2>3. PICK n \in sizes : \A k \in sizes : n <= k
      BY ONLY <2>2, LeastOf
    <2>4. PICK s \in SUBSET S : ~Right(s) /\ \A k \in SUBSET S : ~Right(k) => Cardinality(s) <= Cardinality(k)
      <3> HIDE DEF Right
      <3> QED
        BY <2>3
    <2>5. s # {}
      <3>1. L \ {} = L
        OBVIOUS
      <3>2. Right({})
        BY <1>4, <3>1
      <3> HIDE DEF Right
      <3> QED
        BY <2>4, <3>2
    <2> DEFINE x == AnyOf(s)
               r == s \ {x}
    <2>6. x \in Slots /\ x \in s /\ r \in SUBSET S /\ it[s] = Delist(it[r], x)
      BY <1>3, <2>4, <2>5
    <2>7. Cardinality(r) = Cardinality(s) - 1
      BY <2>1, <2>4, <2>6, FS_RemoveElement
    <2>8. Right(r)
      <3>1. ~(Cardinality(s) <= Cardinality(r))
        BY <2>1, <2>4, <2>7
      <3> HIDE DEF Right, r
      <3> QED
        BY <2>4, <2>6, <3>1
    <2>9. (L \ r) \ {x} = L \ s
      BY <2>6
    <2> HIDE DEF x, r
    <2>10. Linked(Delist(it[r], x), (L \ r) \ {x}, rk, b) /\ Clean(Delist(it[r], x), (L \ r) \ {x}, 0)
      BY <2>6, <2>8, DelistLinked
    <2> QED
      BY <2>4, <2>6, <2>9, <2>10
  <1> QED
    BY <1>4, <1>5

\* A job that is off the list becomes curjob.
LEMMA ToFrontLinked ==
  ASSUME NEW u, NEW M, NEW rk, NEW b, NEW j \in Slots, Linked(u, M, rk, b), Clean(u, M, j), j \notin M
  PROVE  /\ \E r : Linked(ToFront(u, j), M \cup {j}, r, b + 1)
         /\ Clean(ToFront(u, j), M \cup {j}, 0)
  <1> DEFINE t == ToFront(u, j)
             r == [i \in Slots |-> IF i = j THEN 0 ELSE rk[i] + 1]
             N == M \cup {j}
  <1>1. j # 0 /\ 0 \notin Slots /\ j \in 0..MaxJobs
    BY DEF Slots
  <1>2. u.prev \in [Slots -> 0..MaxJobs] /\ u.cur \in 0..MaxJobs /\ M \subseteq Slots
        /\ b \in Nat /\ \A i \in Slots : rk[i] \in Nat /\ rk[i] <= b
    BY DEF Linked, Lists
  <1>3. /\ t \in Lists /\ t.cur = j
        /\ \A i \in Slots : t.prev[i] = IF i = j THEN u.cur ELSE u.prev[i]
    BY <1>1, <1>2 DEF ToFront, Lists
  <1>4. /\ r \in [Slots -> 0..(b + 1)] /\ b + 1 \in Nat
        /\ r[j] = 0 /\ \A i \in Slots : i # j => r[i] = rk[i] + 1
    BY <1>2
  <1> HIDE DEF t, r
  <1>5. \A i \in Slots : i # j => u.prev[i] # j
    BY <1>1 DEF Linked, Clean
  <1>6. \A i \in Slots : t.prev[i] # 0 => r[i] < r[t.prev[i]]
    <2> SUFFICES ASSUME NEW i \in Slots, t.prev[i] # 0 PROVE r[i] < r[t.prev[i]]
      OBVIOUS
    <2>1. t.prev[i] \in Slots
      BY <1>3 DEF Lists, Slots
    <2>2. CASE i = j
      <3>1. t.prev[i] # j
        BY <1>2, <1>3, <2>2 DEF Linked
      <3>2. r[i] = 0 /\ r[t.prev[i]] = rk[t.prev[i]] + 1 /\ rk[t.prev[i]] \in Nat
        BY <1>2, <1>4, <2>1, <2>2, <3>1
      <3> QED
        BY <3>2
    <2>3. CASE i # j
      <3>1. t.prev[i] = u.prev[i] /\ u.prev[i] # j /\ rk[i] < rk[u.prev[i]]
        BY <1>3, <1>5, <2>3 DEF Linked
      <3>2. r[i] = rk[i] + 1 /\ r[t.prev[i]] = rk[u.prev[i]] + 1 /\ rk[i] \in Nat /\ rk[u.prev[i]] \in Nat
        BY <1>2, <1>4, <2>1, <2>3, <3>1
      <3> QED
        BY <3>1, <3>2
    <2> QED
      BY <2>2, <2>3
  <1>7. \A i \in N : t.prev[i] \in N \cup {0} /\ (t.prev[i] # 0 => t.prev[i] # t.cur)
    <2> SUFFICES ASSUME NEW i \in N
                 PROVE  t.prev[i] \in N \cup {0} /\ (t.prev[i] # 0 => t.prev[i] # t.cur)
      OBVIOUS
    <2>1. CASE i = j
      BY <1>3, <2>1 DEF Linked
    <2>2. CASE i # j
      BY <1>2, <1>3, <1>5, <2>2 DEF Linked
    <2> QED
      BY <2>1, <2>2
  <1>8. \A i \in N, k \in N : t.prev[i] = t.prev[k] /\ t.prev[i] # 0 => i = k
    <2>1. \A k \in M : k \in Slots /\ k # j /\ t.prev[k] = u.prev[k] /\ (u.prev[k] # 0 => u.prev[k] # u.cur)
      BY <1>2, <1>3 DEF Linked
    <2>2. t.prev[j] = u.cur
      BY <1>3
    <2>3. \A i \in M, k \in M : t.prev[i] = t.prev[k] /\ t.prev[i] # 0 => i = k
      BY <2>1 DEF Linked
    <2> QED
      BY <2>1, <2>2, <2>3
  <1>9. \A k \in N : k # t.cur => \E i \in N : t.prev[i] = k
    <2> SUFFICES ASSUME NEW k \in M, k # j PROVE \E i \in N : t.prev[i] = k
      BY <1>3
    <2>1. CASE k = u.cur
      BY <1>3, <2>1
    <2>2. CASE k # u.cur
      <3>1. PICK i \in M : u.prev[i] = k
        BY <2>2 DEF Linked
      <3> QED
        BY <1>2, <1>3, <3>1
    <2> QED
      BY <2>1, <2>2
  <1>10. Clean(t, N, 0)
    BY <1>3 DEF Clean
  <1>11. N \subseteq Slots /\ t.cur \in N \cup {0} /\ (N # {} => t.cur # 0)
    BY <1>1, <1>2, <1>3
  <1> HIDE DEF N
  <1>12. Linked(t, N, r, b + 1)
    BY ONLY <1>3, <1>4, <1>6, <1>7, <1>8, <1>9, <1>11 DEF Linked
  <1> QED
    BY <1>10, <1>12 DEF t, N

\* A job that is off the list is put behind another.
LEMMA BehindLinked ==
  ASSUME NEW u, NEW M, NEW rk, NEW b, NEW j \in Slots, Linked(u, M, rk, b), Clean(u, M, j), j \notin M,
         NEW s \in M
  PROVE  LET t == [u EXCEPT !.prev = [@ EXCEPT ![j] = u.prev[s], ![s] = j]]
         IN (\E r : Linked(t, M \cup {j}, r, b + 1)) /\ Clean(t, M \cup {j}, 0)
  <1> DEFINE t == [u EXCEPT !.prev = [@ EXCEPT ![j] = u.prev[s], ![s] = j]]
             r == [i \in Slots |-> IF i = j THEN rk[s] + 1
                                   ELSE IF rk[s] < rk[i] THEN rk[i] + 1 ELSE rk[i]]
             N == M \cup {j}
  <1>1. j # 0 /\ 0 \notin Slots /\ j \in 0..MaxJobs /\ s \in Slots /\ s # j /\ s # 0
    BY DEF Slots, Linked
  <1>2. u.prev \in [Slots -> 0..MaxJobs] /\ u.cur \in 0..MaxJobs /\ M \subseteq Slots
        /\ b \in Nat /\ \A i \in Slots : rk[i] \in Nat /\ rk[i] <= b
    BY DEF Linked, Lists
  <1>3. /\ t \in Lists /\ t.cur = u.cur
        /\ \A i \in Slots : t.prev[i] = IF i = j THEN u.prev[s] ELSE IF i = s THEN j ELSE u.prev[i]
    <2>1. t.prev = [i \in Slots |-> IF i = j THEN u.prev[s] ELSE IF i = s THEN j ELSE u.prev[i]]
          /\ t.cur = u.cur /\ t = [cur |-> t.cur, prev |-> t.prev]
      BY <1>1, <1>2 DEF Linked, Lists
    <2>2. t.prev \in [Slots -> 0..MaxJobs]
      BY <1>1, <1>2, <2>1
    <2> HIDE DEF t
    <2> QED
      BY <1>2, <2>1, <2>2 DEF Lists
  <1>4. /\ r \in [Slots -> 0..(b + 1)] /\ b + 1 \in Nat
        /\ r[j] = rk[s] + 1
        /\ \A i \in Slots : i # j => r[i] = IF rk[s] < rk[i] THEN rk[i] + 1 ELSE rk[i]
    <2>1. \A i \in Slots : r[i] \in 0..(b + 1)
      BY <1>1, <1>2
    <2> QED
      BY <1>2, <2>1
  <1> HIDE DEF t, r
  <1>5. \A i \in Slots : i # j => u.prev[i] # j
    BY <1>1 DEF Linked, Clean
  <1>6. \A i \in Slots : t.prev[i] # 0 => r[i] < r[t.prev[i]]
    <2> SUFFICES ASSUME NEW i \in Slots, t.prev[i] # 0 PROVE r[i] < r[t.prev[i]]
      OBVIOUS
    <2>1. t.prev[i] \in Slots
      BY <1>3 DEF Lists, Slots
    <2>2. CASE i = j
      <3>1. t.prev[i] = u.prev[s] /\ u.prev[s] # j /\ rk[s] < rk[u.prev[s]]
        BY <1>1, <1>3, <1>5, <2>2 DEF Linked
      <3>2. r[i] = rk[s] + 1 /\ r[t.prev[i]] = rk[u.prev[s]] + 1 /\ rk[s] \in Nat /\ rk[u.prev[s]] \in Nat
        BY <1>1, <1>2, <1>4, <2>1, <2>2, <3>1
      <3> QED
        BY <3>1, <3>2
    <2>3. CASE i = s
      <3>1. t.prev[i] = j /\ r[i] = rk[s] /\ rk[s] \in Nat
        BY <1>1, <1>2, <1>3, <1>4, <2>3
      <3> QED
        BY <1>4, <3>1
    <2>4. CASE i # j /\ i # s
      <3>1. t.prev[i] = u.prev[i] /\ u.prev[i] # j /\ rk[i] < rk[u.prev[i]]
        BY <1>3, <1>5, <2>4 DEF Linked
      <3>2. rk[i] \in Nat /\ rk[u.prev[i]] \in Nat /\ rk[s] \in Nat
        BY <1>1, <1>2, <2>1, <3>1
      <3>3. /\ r[i] = IF rk[s] < rk[i] THEN rk[i] + 1 ELSE rk[i]
            /\ r[t.prev[i]] = IF rk[s] < rk[u.prev[i]] THEN rk[u.prev[i]] + 1 ELSE rk[u.prev[i]]
        BY <1>4, <2>1, <2>4, <3>1
      <3> QED
        BY <3>1, <3>2, <3>3
    <2> QED
      BY <2>2, <2>3, <2>4
  <1>7. \A i \in N : t.prev[i] \in N \cup {0} /\ (t.prev[i] # 0 => t.prev[i] # t.cur)
    <2> SUFFICES ASSUME NEW i \in N
                 PROVE  t.prev[i] \in N \cup {0} /\ (t.prev[i] # 0 => t.prev[i] # t.cur)
      OBVIOUS
    <2>1. CASE i = j
      BY <1>3, <2>1 DEF Linked
    <2>2. CASE i = s
      <3>1. j # u.cur
        BY <1>1 DEF Linked
      <3> QED
        BY <1>1, <1>3, <2>2, <3>1
    <2>3. CASE i # j /\ i # s
      BY <1>2, <1>3, <2>3 DEF Linked
    <2> QED
      BY <2>1, <2>2, <2>3
  <1>8. \A i \in N, k \in N : t.prev[i] = t.prev[k] /\ t.prev[i] # 0 => i = k
    <2>1. \A k \in M : k # s => k \in Slots /\ k # j /\ t.prev[k] = u.prev[k] /\ u.prev[k] # j
                              /\ (u.prev[k] # 0 => u.prev[k] # u.prev[s])
      BY <1>2, <1>3, <1>5 DEF Linked
    <2>2. t.prev[j] = u.prev[s] /\ t.prev[s] = j /\ u.prev[s] # j
      BY <1>1, <1>3, <1>5
    <2>3. \A i \in M, k \in M : i # s /\ k # s => (t.prev[i] = t.prev[k] /\ t.prev[i] # 0 => i = k)
      BY <2>1 DEF Linked
    <2> QED
      BY <2>1, <2>2, <2>3
  <1>9. \A k \in N : k # t.cur => \E i \in N : t.prev[i] = k
    <2> SUFFICES ASSUME NEW k \in N, k # u.cur PROVE \E i \in N : t.prev[i] = k
      BY <1>3
    <2>1. CASE k = j
      BY <1>1, <1>3, <2>1
    <2>2. CASE k # j
      <3>1. PICK i \in M : u.prev[i] = k
        BY <2>2 DEF Linked
      <3>2. CASE i = s
        BY <1>3, <3>1, <3>2
      <3>3. CASE i # s
        BY <1>2, <1>3, <3>1, <3>3
      <3> QED
        BY <3>2, <3>3
    <2> QED
      BY <2>1, <2>2
  <1>10. Clean(t, N, 0)
    BY <1>3 DEF Clean
  <1>11. N \subseteq Slots /\ t.cur \in N \cup {0} /\ (N # {} => t.cur # 0)
    BY <1>1, <1>2, <1>3 DEF Linked
  <1> HIDE DEF N
  <1>12. Linked(t, N, r, b + 1)
    BY ONLY <1>3, <1>4, <1>6, <1>7, <1>8, <1>9, <1>11 DEF Linked
  <1> QED
    BY <1>10, <1>12 DEF t, N

\* last holds, for each job, the last of the stopped jobs from it on.
LastSteps(last, l, tab) ==
  \A i \in Slots : last[i] = IF l.prev[i] = 0 \/ tab[l.prev[i]].state # "stopped" THEN i
                             ELSE last[l.prev[i]]

\* The walk along the stopped jobs ends, as the ranks rise to b.
LEMMA LastStoppedWalks ==
  ASSUME NEW l, NEW L, NEW rk, NEW b, Linked(l, L, rk, b), NEW tab
  PROVE  \E last : LastStopped(l, tab) = last[l.cur] /\ LastSteps(last, l, tab)
  <1> DEFINE ends(i) == l.prev[i] = 0 \/ tab[l.prev[i]].state # "stopped"
             D(m) == {i \in Slots : rk[i] + m > b}
             Good(g, m) == g = [i \in D(m) |-> IF ends(i) THEN i ELSE g[l.prev[i]]]
             bad == {m \in Nat : ~\E g : Good(g, m)}
  <1>1. b \in Nat /\ \A i \in Slots : rk[i] \in Nat /\ rk[i] <= b
    BY DEF Linked
  <1>2. \A i \in Slots : ~ends(i) => l.prev[i] \in Slots /\ rk[i] < rk[l.prev[i]]
    <2> SUFFICES ASSUME NEW i \in Slots, l.prev[i] # 0
                 PROVE  l.prev[i] \in Slots /\ rk[i] < rk[l.prev[i]]
      OBVIOUS
    <2>1. l.prev[i] \in 0..MaxJobs
      BY DEF Linked, Lists
    <2> QED
      BY <2>1 DEF Linked, Slots
  <1>3. \A m : \A i : i \in D(m) <=> i \in Slots /\ rk[i] + m > b
    OBVIOUS
  <1> HIDE DEF D, ends
  <1>4. bad = {}
    <2> SUFFICES ASSUME bad # {} PROVE FALSE
      OBVIOUS
    <2>1. PICK m \in bad : \A k \in bad : m <= k
      BY ONLY bad # {}, bad \subseteq Nat, LeastOf
    <2>2. m \in Nat /\ ~\E g : Good(g, m)
      <3> HIDE DEF Good
      <3> QED
        BY <2>1
    <2>3. \A k \in Nat : k < m => \E g : Good(g, k)
      <3> HIDE DEF Good
      <3> QED
        BY ONLY <2>1, <2>2
    <2>4. CASE m = 0
      <3>1. \A i \in Slots : ~(rk[i] + 0 > b)
        BY ONLY <1>1
      <3>2. D(0) = {}
        BY <1>3, <3>1
      <3>3. Good([i \in {} |-> i], 0)
        BY <3>2
      <3> HIDE DEF Good
      <3> QED
        BY <2>2, <2>4, <3>3
    <2>5. CASE m # 0
      <3>1. m - 1 \in Nat /\ m - 1 < m
        BY ONLY <2>2, <2>5
      <3>2. PICK g : Good(g, m - 1)
        <4> HIDE DEF Good
        <4> QED
          BY <2>3, <3>1
      <3> DEFINE h == [i \in D(m) |-> IF ends(i) THEN i ELSE g[l.prev[i]]]
      <3>3. \A i \in D(m) : ~ends(i) => l.prev[i] \in D(m - 1)
        <4> SUFFICES ASSUME NEW i \in D(m), ~ends(i) PROVE l.prev[i] \in D(m - 1)
          OBVIOUS
        <4>1. i \in Slots /\ rk[i] + m > b
          BY <1>3
        <4>2. l.prev[i] \in Slots /\ rk[i] < rk[l.prev[i]]
          BY <1>2, <4>1
        <4>3. rk[l.prev[i]] \in Nat /\ rk[i] \in Nat
          BY <1>1, <4>1, <4>2
        <4>4. rk[l.prev[i]] + (m - 1) > b
          BY ONLY <1>1, <2>2, <4>1, <4>2, <4>3
        <4> QED
          BY <1>3, <4>2, <4>4
      <3>4. \A i \in D(m - 1) : i \in D(m)
        <4> SUFFICES ASSUME NEW i \in D(m - 1) PROVE i \in D(m)
          OBVIOUS
        <4>1. i \in Slots /\ rk[i] + (m - 1) > b
          BY <1>3
        <4>2. rk[i] \in Nat
          BY <1>1, <4>1
        <4>3. rk[i] + m > b
          BY ONLY <1>1, <2>2, <4>1, <4>2
        <4> QED
          BY <1>3, <4>1, <4>3
      <3>5. \A i \in D(m - 1) : h[i] = g[i]
        BY <3>2, <3>4
      <3>6. \A i \in D(m) : ~ends(i) => h[l.prev[i]] = g[l.prev[i]]
        BY <3>3, <3>5
      <3>7. h = [i \in D(m) |-> IF ends(i) THEN i ELSE h[l.prev[i]]]
        BY <3>6
      <3>8. \E k : Good(k, m)
        <4> HIDE DEF h
        <4> QED
          BY <3>7
      <3> HIDE DEF Good
      <3> QED
        BY <2>2, <3>8
    <2> QED
      BY <2>4, <2>5
  <1>5. D(b + 1) = Slots
    <2>1. \A i \in Slots : rk[i] + (b + 1) > b
      BY ONLY <1>1
    <2> QED
      BY <1>3, <2>1
  <1>6. \E g : g = [i \in Slots |-> IF ends(i) THEN i ELSE g[l.prev[i]]]
    <2>1. b + 1 \in Nat
      BY <1>1
    <2>2. \E g : Good(g, b + 1)
      <3> HIDE DEF Good
      <3> QED
        BY <1>4, <2>1
    <2> QED
      BY <1>5, <2>2
  <1> DEFINE Last == CHOOSE last : last = [i \in Slots |->
                        IF l.prev[i] = 0 \/ tab[l.prev[i]].state # "stopped" THEN i
                        ELSE last[l.prev[i]]]
  <1>7. LastStopped(l, tab) = Last[l.cur]
    BY DEF LastStopped
  <1>8. Last = [i \in Slots |-> IF l.prev[i] = 0 \/ tab[l.prev[i]].state # "stopped" THEN i
                               ELSE Last[l.prev[i]]]
    BY <1>6, Zenon DEF ends
  <1> HIDE DEF Last
  <1>9. LastSteps(Last, l, tab)
    BY <1>8 DEF LastSteps
  <1> QED
    BY <1>7, <1>9

\* From a job on the list it stays on the list.
LEMMA LastStoppedIn ==
  ASSUME NEW l, NEW L, NEW rk, NEW b, Linked(l, L, rk, b), NEW tab, l.cur # 0
  PROVE  LastStopped(l, tab) \in L
  <1>1. PICK last : LastStopped(l, tab) = last[l.cur] /\ LastSteps(last, l, tab)
    BY LastStoppedWalks
  <1>2. b \in Nat /\ L \subseteq Slots /\ \A i \in Slots : rk[i] \in Nat /\ rk[i] <= b
    BY DEF Linked
  <1> DEFINE out == {i \in L : last[i] \notin L}
             left == {b - rk[i] : i \in out}
  <1>3. out = {}
    <2> SUFFICES ASSUME out # {} PROVE FALSE
      OBVIOUS
    <2>1. \A i \in out : b - rk[i] \in Nat
      BY <1>2
    <2>2. left \subseteq Nat /\ left # {}
      <3> HIDE DEF out
      <3> QED
        BY <2>1
    <2>3. PICK n \in left : \A k \in left : n <= k
      BY ONLY <2>2, LeastOf
    <2>4. PICK i \in out : \A k \in out : b - rk[i] <= b - rk[k]
      <3> HIDE DEF out
      <3> QED
        BY <2>3
    <2>5. i \in L /\ i \in Slots /\ last[i] \notin L
      BY <1>2
    <2>6. l.prev[i] # 0 /\ last[i] = last[l.prev[i]]
      BY <1>1, <2>5 DEF LastSteps
    <2>7. l.prev[i] \in L /\ rk[i] < rk[l.prev[i]]
      BY <2>5, <2>6 DEF Linked
    <2>8. l.prev[i] \in out
      BY <2>5, <2>6, <2>7
    <2>9. b - rk[i] <= b - rk[l.prev[i]]
      BY <2>4, <2>8
    <2>10. rk[i] \in Nat /\ rk[l.prev[i]] \in Nat
      BY <1>2, <2>5, <2>7
    <2> QED
      BY ONLY <1>2, <2>7, <2>9, <2>10
  <1>4. l.cur \in L
    BY DEF Linked
  <1> QED
    BY <1>1, <1>3, <1>4

\* A list that holds the jobs in L and no others.
Listed(l, L) == (\E rk : \E b : Linked(l, L, rk, b)) /\ Clean(l, L, 0)

\* set_curjob(jp, 0), 1 and 2.
LEMMA DelistListed ==
  ASSUME NEW l, NEW L, Listed(l, L), NEW S, S \subseteq Slots
  PROVE  Listed(DelistAll(l, S), L \ S) /\ \A j \in Slots : Listed(Delist(l, j), L \ {j})
  BY DelistAllLinked, DelistLinked DEF Listed

LEMMA MakeCurrentListed ==
  ASSUME NEW l, NEW L, Listed(l, L), NEW j \in Slots
  PROVE  Listed(MakeCurrent(l, j), L \cup {j})
  <1>1. PICK rk : \E b : Linked(l, L, rk, b)
    BY DEF Listed
  <1>2. PICK b : Linked(l, L, rk, b)
    BY <1>1
  <1> DEFINE u == Unlink(l, j)
             M == L \ {j}
  <1>3. Linked(u, M, rk, b) /\ Clean(u, M, j) /\ j \notin M
    BY <1>2, UnlinkLinked DEF Listed
  <1>4. MakeCurrent(l, j) = ToFront(u, j) /\ M \cup {j} = L \cup {j}
    BY DEF MakeCurrent
  <1> HIDE DEF u, M
  <1>5. (\E r : Linked(ToFront(u, j), M \cup {j}, r, b + 1)) /\ Clean(ToFront(u, j), M \cup {j}, 0)
    BY <1>3, ToFrontLinked
  <1> QED
    BY <1>4, <1>5 DEF Listed

LEMMA MakeRunningListed ==
  ASSUME NEW l, NEW L, Listed(l, L), NEW j \in Slots, NEW tab
  PROVE  Listed(MakeRunning(l, tab, j), L \cup {j})
  <1>1. PICK rk : \E b : Linked(l, L, rk, b)
    BY DEF Listed
  <1>2. PICK b : Linked(l, L, rk, b)
    BY <1>1
  <1> DEFINE u == Unlink(l, j)
             M == L \ {j}
             s == LastStopped(u, tab)
             t == [u EXCEPT !.prev = [@ EXCEPT ![j] = u.prev[s], ![s] = j]]
  <1>3. Linked(u, M, rk, b) /\ Clean(u, M, j) /\ j \notin M
    BY <1>2, UnlinkLinked DEF Listed
  <1>4. /\ M \cup {j} = L \cup {j}
        /\ MakeRunning(l, tab, j) = IF u.cur # 0 /\ tab[u.cur].state = "stopped" THEN t ELSE ToFront(u, j)
    BY DEF MakeRunning
  <1> HIDE DEF u, M
  <1>5. CASE u.cur # 0 /\ tab[u.cur].state = "stopped"
    <2>1. s \in M
      BY <1>3, <1>5, LastStoppedIn
    <2> HIDE DEF s
    <2>2. (\E r : Linked(t, M \cup {j}, r, b + 1)) /\ Clean(t, M \cup {j}, 0)
      BY <1>3, <2>1, BehindLinked
    <2> HIDE DEF t
    <2> QED
      BY <1>4, <1>5, <2>2 DEF Listed
  <1>6. CASE ~(u.cur # 0 /\ tab[u.cur].state = "stopped")
    <2>1. (\E r : Linked(ToFront(u, j), M \cup {j}, r, b + 1)) /\ Clean(ToFront(u, j), M \cup {j}, 0)
      BY <1>3, ToFrontLinked
    <2> HIDE DEF t
    <2> QED
      BY <1>4, <1>6, <2>1 DEF Listed
  <1> QED
    BY <1>5, <1>6

-----------------------------------------------------------------------------
(* The list and the table.                                                 *)

\* Only jobs in use are on the list, and all that are not done.
Reaches(l, tab) ==
  \E L : /\ Listed(l, L)
         /\ \A j \in L : tab[j].used
         /\ \A j \in Slots : tab[j].used /\ tab[j].state # "done" => j \in L

\* The inductive invariant for the list.
LInv == TInv /\ Reaches(list, jobtab)

\* Jobs are taken out of the list when they are done or freed, and no others
\* change in what matters to it.
LEMMA DelistReaches ==
  ASSUME NEW l, NEW t, NEW u, NEW F, Reaches(l, t), F \subseteq Slots,
         \A j \in F : ~u[j].used \/ u[j].state = "done",
         \A j \in Slots \ F : (u[j].used <=> t[j].used) /\ (t[j].state = "done" => u[j].state = "done")
  PROVE  /\ Reaches(DelistAll(l, F), u)
         /\ \A j \in Slots : F = {j} => Reaches(Delist(l, j), u)
         /\ F = {} => Reaches(l, u)
  <1>1. PICK L : /\ Listed(l, L)
                 /\ \A j \in L : t[j].used
                 /\ \A j \in Slots : t[j].used /\ t[j].state # "done" => j \in L
    BY DEF Reaches
  <1>2. L \subseteq Slots
    BY <1>1 DEF Listed, Linked
  <1>3. \A j \in L \ F : u[j].used
    BY <1>1, <1>2
  <1>4. \A j \in Slots : u[j].used /\ u[j].state # "done" => j \in L \ F
    BY <1>1
  <1>5. Listed(DelistAll(l, F), L \ F)
    BY <1>1, DelistListed
  <1>6. ASSUME NEW j \in Slots, F = {j} PROVE Listed(Delist(l, j), L \ F)
    BY <1>1, <1>6, DelistListed
  <1>7. F = {} => L \ F = L
    OBVIOUS
  <1> QED
    BY <1>1, <1>3, <1>4, <1>5, <1>6, <1>7 DEF Reaches

\* A job is put on the list.
LEMMA EnlistReaches ==
  ASSUME NEW l, NEW k, NEW t, NEW u, NEW j \in Slots, Reaches(l, t),
         \A L : Listed(l, L) => Listed(k, L \cup {j}),
         u[j].used,
         \A i \in Slots : i # j => (u[i].used <=> t[i].used) /\ (t[i].state = "done" => u[i].state = "done")
  PROVE  Reaches(k, u)
  <1>1. PICK L : /\ Listed(l, L)
                 /\ \A i \in L : t[i].used
                 /\ \A i \in Slots : t[i].used /\ t[i].state # "done" => i \in L
    BY DEF Reaches
  <1>2. L \subseteq Slots
    BY <1>1 DEF Listed, Linked
  <1>3. \A i \in L \cup {j} : u[i].used
    BY <1>1, <1>2
  <1>4. \A i \in Slots : u[i].used /\ u[i].state # "done" => i \in L \cup {j}
    BY <1>1
  <1> QED
    BY <1>1, <1>3, <1>4 DEF Reaches

\* A job that is done stays done, whatever waitpid says.
LEMMA DoneStays ==
  ASSUME NEW job \in JobRecords, Agrees(job), job.state = "done", job.used, NEW p, NEW st
  PROVE  NoteState(NoteStatus(job, p, st)).state = "done"
  <1>1. \A k \in DOMAIN job.ps : job.ps[k].st \notin {"run", "stop"}
    <2> SUFFICES ASSUME NEW k \in DOMAIN job.ps, job.ps[k].st \in {"run", "stop"} PROVE FALSE
      OBVIOUS
    <2>1. job.ps # <<>>
      OBVIOUS
    <2>2. "run" \in Status(job) \/ "stop" \in Status(job)
      BY DEF Status
    <2> QED
      BY <2>1, <2>2 DEF Agrees
  <1>2. NoteStatus(job, p, st) = job
    BY <1>1 DEF NoteStatus
  <1>3. "run" \notin Status(job) /\ "stop" \notin Status(job)
    BY <1>1 DEF Status
  <1>4. NoteState(job) = [job EXCEPT !.state = "done"]
    BY <1>3 DEF NoteState
  <1> QED
    BY <1>2, <1>4 DEF JobRecords

\* dowait takes the jobs that are done now out of the list.
LEMMA RelistedReaches ==
  ASSUME Sound(jobtab), Reaches(list, jobtab), NEW p, kern[p] \in States, NEW silent
  PROVE  Reaches(Relisted(Updated(p, silent)), Updated(p, silent))
  <1> DEFINE tab == Updated(p, silent)
             noted(j) == NoteState(NoteStatus(jobtab[j], p, kern[p]))
             F == {j \in Used : tab[j].state = "done" /\ jobtab[j].state # "done"}
  <1>1. \A j \in Slots : tab[j].used = jobtab[j].used
    BY UpdatedSound
  <1>2. ASSUME NEW j \in Slots, jobtab[j].used, jobtab[j].state = "done" PROVE tab[j].state = "done"
    <2>1. jobtab[j] \in JobRecords /\ Agrees(jobtab[j])
      BY DEF Sound
    <2>2. noted(j).state = "done" /\ noted(j) \in JobRecords
      BY <1>2, <2>1, DoneStays, Noted
    <2>3. tab[j] = IF j \in JobOf(p) THEN Notify(noted(j), silent) ELSE noted(j)
      BY DEF Updated
    <2> HIDE DEF tab, noted
    <2> QED
      BY <2>2, <2>3, NotifyType
  <1>3. F \subseteq Slots /\ \A j \in F : tab[j].state = "done"
    BY DEF Used
  <1>4. \A j \in Slots : ~jobtab[j].used => jobtab[j] = NoJob
    BY DEF Sound
  <1>5. \A j \in Slots \ F : (tab[j].used <=> jobtab[j].used) /\ (jobtab[j].state = "done" => tab[j].state = "done")
    BY <1>1, <1>2, <1>4 DEF NoJob
  <1>6. Relisted(tab) = DelistAll(list, F)
    BY DEF Relisted
  <1> HIDE DEF tab, F
  <1>7. Reaches(DelistAll(list, F), tab)
    BY <1>3, <1>5, DelistReaches
  <1> QED
    BY <1>6, <1>7 DEF tab

LEMMA DowaitReaches ==
  ASSUME TInv, Reaches(list, jobtab), NEW j, NEW silent, Dowait(j, silent)
  PROVE  Reaches(list', jobtab')
  <1>1. PICK p \in Waitable(j) : jobtab' = Updated(p, silent) /\ list' = Relisted(Updated(p, silent))
    BY DEF Dowait
  <1>2. kern[p] \in States
    BY <1>1 DEF Waitable, TInv, Children, States
  <1>3. Reaches(Relisted(Updated(p, silent)), Updated(p, silent))
    BY <1>2, RelistedReaches DEF TInv
  <1> QED
    BY <1>1, <1>3

LEMMA FreeReaches ==
  ASSUME Sound(jobtab), Reaches(list, jobtab), NEW S, S \subseteq Slots, Free(S)
  PROVE  Reaches(list', jobtab')
  <1>1. \A j \in Slots : jobtab'[j] = IF j \in S THEN NoJob ELSE jobtab[j]
    BY DEF Free
  <1>2. \A j \in S : ~jobtab'[j].used
    BY <1>1, NoJobType
  <1>3. \A j \in Slots \ S : jobtab'[j] = jobtab[j]
    BY <1>1
  <1>4. Reaches(DelistAll(list, S), jobtab')
    BY <1>2, <1>3, DelistReaches
  <1> QED
    BY <1>4 DEF Free

LEMMA ShowJobsReaches ==
  ASSUME Sound(jobtab), Reaches(list, jobtab), NEW changed, NEW nofree, ShowJobs(changed, nofree)
  PROVE  Reaches(list', jobtab')
  <1> DEFINE shown == {j \in Used : jobtab[j].ps # <<>> /\ (changed => jobtab[j].changed)}
             freed == {j \in Used : jobtab[j].ps = <<>> /\ ~jobs_invalid}
                        \cup {j \in shown : jobtab[j].state = "done" /\ ~nofree}
  <1>1. freed \subseteq Slots
    BY DEF Used
  <1>2. /\ list' = DelistAll(list, freed)
        /\ jobtab' = [j \in Slots |-> IF j \in freed THEN NoJob
                                      ELSE IF j \in shown
                                      THEN [jobtab[j] EXCEPT !.changed = FALSE]
                                      ELSE jobtab[j]]
    BY DEF ShowJobs
  <1> HIDE DEF shown, freed
  <1>3. \A j \in freed : ~jobtab'[j].used
    BY <1>1, <1>2, NoJobType
  <1>4. ASSUME NEW j \in Slots \ freed
        PROVE  jobtab'[j].used = jobtab[j].used /\ jobtab'[j].state = jobtab[j].state
    <2>1. jobtab[j] \in JobRecords
      BY DEF Sound
    <2>2. jobtab'[j] = [jobtab[j] EXCEPT !.changed = FALSE] \/ jobtab'[j] = jobtab[j]
      BY <1>2
    <2> QED
      BY <2>1, <2>2 DEF JobRecords
  <1>5. Reaches(DelistAll(list, freed), jobtab')
    BY <1>1, <1>3, <1>4, DelistReaches
  <1> QED
    BY <1>2, <1>5

\* Steps that leave the list and the jobs' states alone.
LEMMA SameReaches ==
  ASSUME NEW l, NEW t, NEW u, Reaches(l, t),
         \A j \in Slots : (u[j].used <=> t[j].used) /\ (t[j].state = "done" => u[j].state = "done")
  PROVE  Reaches(l, u)
  BY DelistReaches

LEMMA UnwantedReaches ==
  ASSUME NEW l, NEW t, Reaches(l, t), t \in [Slots -> JobRecords]
  PROVE  Reaches(l, Unwanted(t))
  <1>1. \A j \in Slots : Unwanted(t)[j].used = t[j].used /\ Unwanted(t)[j].state = t[j].state
    BY DEF Unwanted, JobRecords
  <1> QED
    BY <1>1, SameReaches

LEMMA TakeReaches ==
  ASSUME NEW tab, NEW l, NEW j \in Slots, Sound(tab), Reaches(l, tab), Take(tab, l, j)
  PROVE  Reaches(list', jobtab')
  <1> DEFINE freed == tab[j].state = "done" /\ (tab[j].wanted \/ found = 0)
             left == IF freed THEN [tab EXCEPT ![j] = NoJob] ELSE [tab EXCEPT ![j].wanted = FALSE]
  <1>1. /\ list' = IF freed THEN Delist(l, j) ELSE l
        /\ jobtab' = Unwanted(left) \/ jobtab' = left
    BY DEF Take
  <1>2. tab \in [Slots -> JobRecords] /\ tab[j] \in JobRecords
    BY DEF Sound
  <1>3. left \in [Slots -> JobRecords]
    <2>1. [tab EXCEPT ![j] = NoJob] \in [Slots -> JobRecords]
      BY <1>2, NoJobType
    <2>2. [tab[j] EXCEPT !.wanted = FALSE] \in JobRecords
      BY <1>2 DEF JobRecords
    <2>3. [tab EXCEPT ![j].wanted = FALSE] \in [Slots -> JobRecords]
      BY <1>2, <2>2
    <2> QED
      BY <2>1, <2>3
  <1>4. \A i \in Slots : i # j => left[i] = tab[i]
    BY <1>2
  <1>5. left[j] = IF freed THEN NoJob ELSE [tab[j] EXCEPT !.wanted = FALSE]
    BY <1>2
  <1> HIDE DEF left, freed
  <1>6. Reaches(list', left)
    <2>1. CASE freed
      <3>1. ~left[j].used
        BY <1>5, <2>1, NoJobType
      <3>2. Reaches(Delist(l, j), left)
        BY <1>4, <3>1, DelistReaches
      <3> QED
        BY <1>1, <2>1, <3>2
    <2>2. CASE ~freed
      <3>1. left[j].used = tab[j].used /\ left[j].state = tab[j].state
        BY <1>2, <1>5, <2>2 DEF JobRecords
      <3>2. \A i \in Slots : left[i].used = tab[i].used /\ left[i].state = tab[i].state
        BY <1>4, <3>1
      <3>3. Reaches(l, left)
        BY <3>2, SameReaches
      <3> QED
        BY <1>1, <2>2, <3>3
    <2> QED
      BY <2>1, <2>2
  <1> QED
    BY <1>1, <1>3, <1>6, UnwantedReaches

LEMMA StartJobReaches ==
  ASSUME TInv, Reaches(list, jobtab), NEW n \in 0..2, NEW k \in 0..2, NEW bg, StartJob(n, k, bg)
  PROVE  Reaches(list', jobtab')
  <1> DEFINE free == {i \in Slots : ~MadeFrom[i].used}
             j == Min(free)
             job == [NoJob EXCEPT !.used = TRUE, !.jobctl = mflag /\ rootshell,
                       !.ps = [i \in 1..k |-> [pid |-> npids + i, st |-> "run"]]]
  <1>1. free # {} /\ free \subseteq Nat
    BY DEF StartJob, Slots
  <1>2. j \in free
    BY <1>1, MinIn
  <1>3. j \in Slots
    BY <1>2
  <1>4. jobtab' = [MadeFrom EXCEPT ![j] = job] /\ list' = MakeRunning(ListFrom, MadeFrom, j)
    BY DEF StartJob
  <1>5. job.used
    BY DEF NoJob
  <1> HIDE DEF job, j, free
  <1>6. Reaches(ListFrom, MadeFrom)
    <2>1. CASE jobs_invalid
      <3>1. MadeFrom = [i \in Slots |-> NoJob] /\ ListFrom = DelistAll(list, Used) /\ Used \subseteq Slots
        BY <2>1 DEF MadeFrom, ListFrom, Used
      <3>2. \A i \in Slots : ~MadeFrom[i].used
        BY <3>1, NoJobType
      <3>3. \A i \in Slots \ Used : MadeFrom[i] = jobtab[i]
        BY <3>1 DEF TInv, Sound, Used
      <3> QED
        BY <3>1, <3>2, <3>3, DelistReaches
    <2>2. CASE ~jobs_invalid
      BY <2>2 DEF MadeFrom, ListFrom
    <2> QED
      BY <2>1, <2>2
  <1>7. MadeFrom \in [Slots -> JobRecords]
    <2>1. CASE jobs_invalid
      BY <2>1, NoJobType DEF MadeFrom
    <2>2. CASE ~jobs_invalid
      BY <2>2 DEF MadeFrom, TInv, Sound
    <2> QED
      BY <2>1, <2>2
  <1>8. jobtab'[j].used /\ \A i \in Slots : i # j => jobtab'[i] = MadeFrom[i]
    BY <1>3, <1>4, <1>5, <1>7
  <1>9. \A L : Listed(ListFrom, L) => Listed(MakeRunning(ListFrom, MadeFrom, j), L \cup {j})
    BY <1>3, MakeRunningListed
  <1>10. Reaches(MakeRunning(ListFrom, MadeFrom, j), jobtab')
    BY <1>3, <1>6, <1>8, <1>9, EnlistReaches
  <1> QED
    BY <1>4, <1>10

\* fg and bg leave a job that is done done.
LEMMA RestartDone ==
  ASSUME Sound(jobtab), NEW j \in Slots, Restart(j), jobtab[j].used
  PROVE  /\ jobtab'[j].used
         /\ \A i \in Slots : (jobtab'[i].used <=> jobtab[i].used)
                           /\ (jobtab[i].state = "done" => jobtab'[i].state = "done")
  <1>1. jobtab[j] \in JobRecords /\ Agrees(jobtab[j]) /\ jobtab \in [Slots -> JobRecords]
    BY DEF Sound
  <1>2. /\ Restarted(jobtab[j]).used = jobtab[j].used
        /\ Restarted(jobtab[j]).state = "done" <=> jobtab[j].state = "done"
    BY <1>1, RestartedType
  <1>3. \A i \in Slots : jobtab'[i] = IF i = j THEN Restarted(jobtab[j]) ELSE jobtab[i]
    BY <1>1 DEF Restart
  <1> QED
    BY <1>2, <1>3

LEMMA LNext == LInv /\ [Next]_vars => LInv'
  <1> SUFFICES ASSUME LInv, [Next]_vars PROVE Reaches(list', jobtab')
    BY TNext DEF LInv
  <1>1. TInv /\ Sound(jobtab) /\ Reaches(list, jobtab)
    BY DEF LInv, TInv
  <1>2. ASSUME UNCHANGED tbl PROVE Reaches(list', jobtab')
    BY <1>1, <1>2 DEF tbl
  <1>3. CASE ShellGoesOn
    <2>1. CASE CollectChanges \/ WaitForJob
      BY <1>1, <2>1, DowaitReaches DEF CollectChanges, WaitForJob
    <2>2. CASE Prompt \/ JobsEnd
      BY <1>1, <1>2, <2>2, ShowJobsReaches DEF Prompt, JobsEnd
    <2>3. CASE JobIsBack
      <3>1. wjob \in Slots /\ jobtab[wjob].state # "running"
        BY <1>1, <2>3 DEF JobIsBack, TInv
      <3>2. CASE jobtab[wjob].state = "done"
        BY <1>1, <2>3, <3>1, <3>2, FreeReaches DEF JobIsBack
      <3>3. CASE jobtab[wjob].state # "done"
        <4>1. list' = MakeCurrent(list, wjob) /\ jobtab' = jobtab
          BY <2>3, <3>3 DEF JobIsBack
        <4>2. jobtab[wjob].used
          BY <1>1, <3>1 DEF Sound, NoJob
        <4>3. \A L : Listed(list, L) => Listed(MakeCurrent(list, wjob), L \cup {wjob})
          BY <3>1, MakeCurrentListed
        <4>4. Reaches(MakeCurrent(list, wjob), jobtab)
          BY <1>1, <3>1, <4>2, <4>3, EnlistReaches
        <4> QED
          BY <4>1, <4>4
      <3> QED
        BY <3>2, <3>3
    <2>4. CASE WaitTake
      <3>1. WantedDone # {} /\ WantedDone \subseteq Slots /\ Slots \subseteq Nat
        BY <2>4 DEF WaitTake, WantedDone, Used, Slots
      <3>2. Min(WantedDone) \in Slots
        BY <3>1, MinIn
      <3> QED
        BY <1>1, <2>4, <3>2, TakeReaches DEF WaitTake
    <2>5. CASE WaitMore
      <3>1. PICK p \in Waitable(0) :
              LET tab == Updated(p, FALSE)
                  hit == {j \in JobOf(p) : tab[j].state # "running"}
              IN IF hit = {}
                 THEN jobtab' = tab /\ list' = Relisted(tab)
                 ELSE Take(tab, Relisted(tab), Min(hit))
        BY <2>5 DEF WaitMore
      <3> DEFINE tab == Updated(p, FALSE)
                 hit == {j \in JobOf(p) : tab[j].state # "running"}
      <3>2. kern[p] \in States
        BY <1>1 DEF Waitable, TInv, Children, States
      <3>3. Sound(Updated(p, FALSE)) /\ Reaches(Relisted(Updated(p, FALSE)), Updated(p, FALSE))
        BY <1>1, <3>2, UpdatedSound, RelistedReaches
      <3>4. CASE hit = {}
        BY <3>1, <3>3, <3>4
      <3>5. CASE hit # {}
        <4>1. JobOf(p) \subseteq Slots /\ Slots \subseteq Nat
          BY DEF JobOf, Used, Slots
        <4>2. Min(hit) \in Slots
          BY <3>5, <4>1, MinIn
        <4>3. Take(tab, Relisted(tab), Min(hit)) /\ Sound(tab) /\ Reaches(Relisted(tab), tab)
          BY <3>1, <3>3, <3>5
        <4> QED
          BY ONLY <4>2, <4>3, TakeReaches
      <3> QED
        BY <3>4, <3>5
    <2>6. CASE WaitNothing
      BY <1>1, <2>6, UnwantedReaches DEF WaitNothing, Sound
    <2> QED
      BY <1>3, <2>1, <2>2, <2>3, <2>4, <2>5, <2>6 DEF ShellGoesOn
  <1>4. CASE ReadCommand \/ EndOfInput \/ ExitCmd \/ CommandDone \/ Subshell \/ SetMonitor \/ JobsBegin
    <2>1. UNCHANGED tbl
      BY <1>4 DEF ReadCommand, EndOfInput, ExitCmd, TryToLeave, CommandDone, Subshell, SetMonitor,
                  JobsBegin
    <2> QED
      BY <1>2, <2>1
  <1>5. ASSUME NEW n \in 0..2, NEW k \in 0..2, NEW bg \in BOOLEAN, StartJob(n, k, bg)
        PROVE  Reaches(list', jobtab')
    BY <1>1, <1>5, StartJobReaches
  <1>6. ASSUME NEW j \in Slots, JobsOne(j) PROVE Reaches(list', jobtab')
    <2>1. CASE jobtab[j].state = "done" /\ ~NoFree
      BY <1>1, <1>6, <2>1, FreeReaches DEF JobsOne
    <2>2. CASE ~(jobtab[j].state = "done" /\ ~NoFree)
      <3>1. jobtab' = [jobtab EXCEPT ![j].changed = FALSE] /\ list' = list
            /\ jobtab \in [Slots -> JobRecords]
        BY <1>1, <1>6, <2>2 DEF JobsOne, Sound
      <3>2. \A i \in Slots : jobtab'[i].used = jobtab[i].used /\ jobtab'[i].state = jobtab[i].state
        BY <3>1 DEF JobRecords
      <3>3. Reaches(list, jobtab')
        BY <1>1, <3>2, SameReaches
      <3> QED
        BY <3>1, <3>3
    <2> QED
      BY <2>1, <2>2
  <1>7. ASSUME NEW j \in Slots, FgCmd(j) PROVE Reaches(list', jobtab')
    <2>1. Restart(j) /\ jobtab[j].used /\ list' = list
      BY <1>7 DEF FgCmd, UnderJobControl
    <2>2. Reaches(list, jobtab')
      BY <1>1, <2>1, RestartDone, SameReaches
    <2> QED
      BY <2>1, <2>2
  <1>8. ASSUME NEW j \in Slots, BgCmd(j) PROVE Reaches(list', jobtab')
    <2>1. Restart(j) /\ jobtab[j].used /\ list' = MakeRunning(list, jobtab, j)
      BY <1>8 DEF BgCmd, UnderJobControl
    <2>2. \A L : Listed(list, L) => Listed(MakeRunning(list, jobtab, j), L \cup {j})
      BY MakeRunningListed
    <2>3. Reaches(MakeRunning(list, jobtab, j), jobtab')
      BY <1>1, <2>1, <2>2, RestartDone, EnlistReaches
    <2> QED
      BY <2>1, <2>3
  <1>9. ASSUME NEW any \in BOOLEAN, NEW j \in 0..MaxJobs, WaitBegin(any, j) PROVE Reaches(list', jobtab')
    <2>1. \A i \in Slots : jobtab'[i].used = jobtab[i].used /\ jobtab'[i].state = jobtab[i].state
      <3> SUFFICES ASSUME NEW i \in Slots
                   PROVE  jobtab'[i].used = jobtab[i].used /\ jobtab'[i].state = jobtab[i].state
        OBVIOUS
      <3> DEFINE w == any \/ i = j
      <3>1. jobtab'[i] = IF jobtab[i].used THEN [jobtab[i] EXCEPT !.wanted = w] ELSE jobtab[i]
        BY <1>9 DEF WaitBegin
      <3>2. jobtab[i] \in JobRecords
        BY <1>1 DEF Sound
      <3> HIDE DEF w
      <3> QED
        BY <3>1, <3>2 DEF JobRecords
    <2>2. Reaches(list, jobtab')
      BY <1>1, <2>1, SameReaches
    <2> QED
      BY <1>9, <2>2 DEF WaitBegin
  <1>10. CASE WaitInterrupted
    BY <1>1, <1>10, UnwantedReaches DEF WaitInterrupted, Sound
  <1>11. ASSUME NEW p \in Pids,
                \/ ProcStops(p) \/ ProcContinues(p)
                \/ \E st \in {"exit", "sig"} : ProcEnds(p, st)
         PROVE  Reaches(list', jobtab')
    <2>1. UNCHANGED tbl
      BY <1>11 DEF ProcStops, ProcContinues, ProcEnds, Changes
    <2> QED
      BY <1>2, <2>1
  <1>12. CASE UNCHANGED vars
    BY <1>2, <1>12 DEF vars
  <1> QED
    BY <1>3, <1>4, <1>5, <1>6, <1>7, <1>8, <1>9, <1>10, <1>11, <1>12 DEF Next

LEMMA LInit == Init => LInv
  <1> SUFFICES ASSUME Init PROVE Reaches(list, jobtab)
    BY TInit DEF LInv
  <1>1. Linked(list, {}, [i \in Slots |-> 0], 0) /\ Clean(list, {}, 0)
    BY DEF Init, Linked, Clean, Lists
  <1>2. \A j \in Slots : ~jobtab[j].used
    BY NoJobType DEF Init
  <1> QED
    BY <1>1, <1>2 DEF Reaches, Listed

THEOREM ListRight == Spec => []LInv
  BY LInit, LNext, PTL DEF Spec

-----------------------------------------------------------------------------
(* What %+, %- and the rest of the list lead to.                           *)

\* ListOf follows the links.
LEMMA ListOfSteps ==
  /\ ListOf[0] = list.cur
  /\ \A n \in 1..MaxJobs : ListOf[n] = IF ListOf[n - 1] = 0 THEN 0 ELSE list.prev[ListOf[n - 1]]
  <1> DEFINE next(x) == IF x = 0 THEN 0 ELSE list.prev[x]
             D(m) == {n \in 0..MaxJobs : n < m}
             Good(g, m) == g = [n \in D(m) |-> IF n = 0 THEN list.cur ELSE next(g[n - 1])]
             bad == {m \in Nat : ~\E g : Good(g, m)}
  <1>1. \A m : \A n : n \in D(m) <=> n \in 0..MaxJobs /\ n < m
    OBVIOUS
  <1> HIDE DEF D, next
  <1>2. bad = {}
    <2> SUFFICES ASSUME bad # {} PROVE FALSE
      OBVIOUS
    <2>1. PICK m \in bad : \A k \in bad : m <= k
      BY ONLY bad # {}, bad \subseteq Nat, LeastOf
    <2>2. m \in Nat /\ ~\E g : Good(g, m)
      <3> HIDE DEF Good
      <3> QED
        BY <2>1
    <2>3. \A k \in Nat : k < m => \E g : Good(g, k)
      <3> HIDE DEF Good
      <3> QED
        BY ONLY <2>1, <2>2
    <2>4. CASE m = 0
      <3>1. \A n \in 0..MaxJobs : ~(n < 0)
        OBVIOUS
      <3>2. D(0) = {}
        BY <1>1, <3>1
      <3>3. Good([n \in {} |-> 0], 0)
        BY <3>2
      <3> HIDE DEF Good
      <3> QED
        BY <2>2, <2>4, <3>3
    <2>5. CASE m # 0
      <3>1. m - 1 \in Nat /\ m - 1 < m
        BY ONLY <2>2, <2>5
      <3>2. PICK g : Good(g, m - 1)
        <4> HIDE DEF Good
        <4> QED
          BY <2>3, <3>1
      <3> DEFINE h == [n \in D(m) |-> IF n = 0 THEN list.cur ELSE next(g[n - 1])]
      <3>3. \A n \in D(m) : n # 0 => n - 1 \in D(m - 1)
        BY <1>1, <2>2
      <3>4. \A n \in D(m - 1) : n \in D(m)
        BY <1>1, <2>2
      <3>5. \A n \in D(m - 1) : h[n] = g[n]
        BY <3>2, <3>4
      <3>6. \A n \in D(m) : n # 0 => h[n - 1] = g[n - 1]
        BY <3>3, <3>5
      <3>7. h = [n \in D(m) |-> IF n = 0 THEN list.cur ELSE next(h[n - 1])]
        BY <3>6
      <3>8. \E k : Good(k, m)
        <4> HIDE DEF h
        <4> QED
          BY <3>7
      <3> HIDE DEF Good
      <3> QED
        BY <2>2, <3>8
    <2> QED
      BY <2>4, <2>5
  <1>3. D(MaxJobs + 1) = 0..MaxJobs
    <2>1. \A n \in 0..MaxJobs : n < MaxJobs + 1
      OBVIOUS
    <2> QED
      BY <1>1, <2>1
  <1>4. \E g : g = [n \in 0..MaxJobs |-> IF n = 0 THEN list.cur ELSE next(g[n - 1])]
    <2>1. \E g : Good(g, MaxJobs + 1)
      <3>1. MaxJobs + 1 \in Nat
        OBVIOUS
      <3> HIDE DEF Good
      <3> QED
        BY <1>2, <3>1
    <2> QED
      BY <1>3, <2>1
  <1>5. ListOf = [n \in 0..MaxJobs |-> IF n = 0 THEN list.cur
                                      ELSE IF ListOf[n - 1] = 0 THEN 0 ELSE list.prev[ListOf[n - 1]]]
    BY <1>4, Zenon DEF ListOf, next
  <1> DEFINE at == ListOf
  <1>6. at = [n \in 0..MaxJobs |-> IF n = 0 THEN list.cur
                                  ELSE IF at[n - 1] = 0 THEN 0 ELSE list.prev[at[n - 1]]]
    BY <1>5
  <1> HIDE DEF at, Good, bad
  <1>7. at[0] = list.cur
    <2>1. 0 \in 0..MaxJobs
      OBVIOUS
    <2> QED
      BY ONLY <1>6, <2>1
  <1>8. ASSUME NEW n \in 1..MaxJobs
        PROVE  at[n] = IF at[n - 1] = 0 THEN 0 ELSE list.prev[at[n - 1]]
    <2>1. n \in 0..MaxJobs /\ n # 0
      OBVIOUS
    <2> QED
      BY ONLY <1>6, <2>1
  <1> QED
    BY <1>7, <1>8 DEF at

\* Following the links from curjob visits the jobs of the list and ends.
LEMMA ListOfLinked ==
  ASSUME NEW L, NEW rk, NEW b, Linked(list, L, rk, b)
  PROVE  /\ ListOf[MaxJobs] = 0
         /\ \A n \in 0..MaxJobs : ListOf[n] \in L \cup {0}
         /\ \A j \in L : \E n \in 0..MaxJobs : ListOf[n] = j
  <1> DEFINE at == ListOf
  <1>1. /\ at[0] = list.cur
        /\ \A n \in 1..MaxJobs : at[n] = IF at[n - 1] = 0 THEN 0 ELSE list.prev[at[n - 1]]
    BY ListOfSteps
  <1> HIDE DEF at
  <1>2. L \subseteq Slots /\ 0 \notin Slots /\ \A i \in L : rk[i] \in Nat
    BY DEF Linked, Slots
  <1>3. ASSUME NEW n \in 0..MaxJobs, at[n] \notin L \cup {0} PROVE FALSE
    <2> DEFINE out == {m \in 0..MaxJobs : at[m] \notin L \cup {0}}
    <2>1. PICK m \in out : \A k \in out : m <= k
      <3>1. out \subseteq Nat /\ out # {}
        BY <1>3
      <3> QED
        BY ONLY <3>1, LeastOf
    <2>2. m # 0
      BY <1>1, <2>1 DEF Linked
    <2>3. m \in 1..MaxJobs /\ m - 1 \in 0..MaxJobs /\ m - 1 \notin out
      BY <2>1, <2>2
    <2>4. at[m - 1] \in L \cup {0}
      BY <2>3
    <2>5. at[m] \in L \cup {0}
      BY <1>1, <2>3, <2>4 DEF Linked
    <2> QED
      BY <2>1, <2>5
  <1>4. ASSUME NEW m \in 0..MaxJobs, NEW n \in 0..MaxJobs, m <= n, at[m] = 0 PROVE at[n] = 0
    <2> DEFINE out == {k \in m..MaxJobs : at[k] # 0}
    <2> SUFFICES ASSUME at[n] # 0 PROVE FALSE
      OBVIOUS
    <2>1. PICK k \in out : \A i \in out : k <= i
      <3>1. out \subseteq Nat /\ out # {}
        BY <1>4
      <3> QED
        BY ONLY <3>1, LeastOf
    <2>2. k # m
      BY <1>4, <2>1
    <2>3. k \in 1..MaxJobs /\ k - 1 \in m..MaxJobs /\ k - 1 \notin out
      BY <2>1, <2>2
    <2>4. at[k - 1] = 0
      BY <2>3
    <2> QED
      BY <1>1, <2>1, <2>3, <2>4
  <1>5. at[MaxJobs] = 0
    <2> SUFFICES ASSUME at[MaxJobs] # 0 PROVE FALSE
      OBVIOUS
    <2>1. \A n \in 0..MaxJobs : at[n] \in L
      BY <1>3, <1>4
    <2>2. ASSUME NEW m \in 0..MaxJobs, NEW n \in 0..MaxJobs, m < n PROVE rk[at[m]] < rk[at[n]]
      <3> DEFINE out == {k \in (m + 1)..MaxJobs : ~(rk[at[m]] < rk[at[k]])}
      <3> SUFFICES ASSUME ~(rk[at[m]] < rk[at[n]]) PROVE FALSE
        OBVIOUS
      <3>1. PICK k \in out : \A i \in out : k <= i
        <4>1. out \subseteq Nat /\ out # {}
          BY <2>2
        <4> QED
          BY ONLY <4>1, LeastOf
      <3>2. k \in 1..MaxJobs /\ k - 1 \in m..MaxJobs /\ k - 1 \notin out /\ k - 1 \in 0..MaxJobs
        BY <3>1
      <3>3. at[k - 1] \in L /\ at[k] \in L /\ at[m] \in L
        BY <2>1, <3>2
      <3>4. at[k] = list.prev[at[k - 1]] /\ at[k] # 0
        BY <1>1, <1>2, <3>2, <3>3
      <3>5. rk[at[k - 1]] < rk[at[k]]
        BY <1>2, <3>3, <3>4 DEF Linked
      <3>6. k - 1 = m \/ rk[at[m]] < rk[at[k - 1]]
        BY <3>2
      <3>7. rk[at[m]] < rk[at[k]]
        <4>1. rk[at[m]] \in Nat /\ rk[at[k]] \in Nat /\ rk[at[k - 1]] \in Nat
          BY <1>2, <3>3
        <4> QED
          BY <3>5, <3>6, <4>1
      <3> QED
        BY <3>1, <3>7
    <2> DEFINE f == [n \in 0..MaxJobs |-> at[n]]
    <2>3. f \in [0..MaxJobs -> Slots] /\ \A n \in 0..MaxJobs : f[n] = at[n]
      BY <1>2, <2>1
    <2> HIDE DEF f
    <2>4. /\ IsFiniteSet(0..MaxJobs) /\ Cardinality(0..MaxJobs) = MaxJobs + 1
          /\ IsFiniteSet(Slots) /\ Cardinality(Slots) = MaxJobs
      BY FS_Interval DEF Slots
    <2>5. PICK m \in 0..MaxJobs, n \in 0..MaxJobs : m # n /\ at[m] = at[n]
      <3>1. Cardinality(Slots) < Cardinality(0..MaxJobs)
        BY <2>4
      <3> DEFINE P == 0..MaxJobs
      <3>2. f \in [P -> Slots] /\ IsFiniteSet(P) /\ IsFiniteSet(Slots) /\ Cardinality(Slots) < Cardinality(P)
        BY <2>3, <2>4, <3>1
      <3> HIDE DEF P
      <3>3. \E m, n \in P : m # n /\ f[m] = f[n]
        BY ONLY <3>2, FS_PigeonHole
      <3> QED
        BY <2>3, <3>3 DEF P
    <2>6. rk[at[m]] \in Nat
      BY <1>2, <2>1
    <2>7. m < n \/ n < m
      BY <2>5
    <2> QED
      BY <2>2, <2>5, <2>6, <2>7
  <1>6. ASSUME NEW j \in L, \A n \in 0..MaxJobs : at[n] # j PROVE FALSE
    <2> DEFINE out == {i \in L : \A n \in 0..MaxJobs : at[n] # i}
    <2>1. PICK i \in out : \A k \in out : rk[i] <= rk[k]
      <3>1. {rk[i] : i \in out} \subseteq Nat /\ {rk[i] : i \in out} # {}
        BY <1>2, <1>6
      <3>2. \E n \in {rk[i] : i \in out} : \A y \in {rk[i] : i \in out} : n <= y
        BY ONLY <3>1, LeastOf
      <3> QED
        BY <3>2
    <2>2. i \in L /\ i # list.cur
      <3>1. 0 \in 0..MaxJobs
        OBVIOUS
      <3> QED
        BY <1>1, <2>1, <3>1
    <2>3. PICK k \in L : list.prev[k] = i
      BY <2>2 DEF Linked
    <2>4. k \in Slots /\ i \in Slots /\ k # 0 /\ i # 0
      BY <1>2, <2>2
    <2>5. rk[k] < rk[i] /\ rk[k] \in Nat /\ rk[i] \in Nat
      BY <1>2, <2>2, <2>3, <2>4 DEF Linked
    <2>6. k \notin out
      BY <2>1, <2>5
    <2>7. PICK n \in 0..MaxJobs : at[n] = k
      BY <2>6
    <2>8. n # MaxJobs
      BY <1>5, <2>4, <2>7
    <2>9. n + 1 \in 1..MaxJobs /\ n + 1 \in 0..MaxJobs /\ (n + 1) - 1 = n
      BY <2>8
    <2>10. at[n + 1] = i
      BY <1>1, <2>3, <2>4, <2>7, <2>9
    <2> QED
      BY <2>1, <2>9, <2>10
  <1> QED
    BY <1>3, <1>5, <1>6 DEF at

\* The list from curjob along prev_job ends, leads to no entry that is free, and
\* leads to every job that is not done, whatever jobs are started, stopped,
\* continued, freed and waited for, and in whatever order (set_curjob, freejob).
THEOREM ListAlwaysSound == Spec => []ListSound
  <1>1. LInv => ListSound
    <2> SUFFICES ASSUME LInv PROVE ListSound
      OBVIOUS
    <2>1. PICK L : /\ Listed(list, L)
                   /\ \A j \in L : jobtab[j].used
                   /\ \A j \in Slots : jobtab[j].used /\ jobtab[j].state # "done" => j \in L
      BY DEF LInv, Reaches
    <2>2. PICK rk : \E b : Linked(list, L, rk, b)
      BY <2>1 DEF Listed
    <2>3. PICK b : Linked(list, L, rk, b)
      BY <2>2
    <2>4. /\ ListOf[MaxJobs] = 0
          /\ \A n \in 0..MaxJobs : ListOf[n] \in L \cup {0}
          /\ \A j \in L : \E n \in 0..MaxJobs : ListOf[n] = j
      BY <2>3, ListOfLinked
    <2>5. L \subseteq Used
      BY <2>1, <2>3 DEF Linked, Used
    <2>6. TypeOK
      BY <2>3 DEF LInv, TInv, Ranges, Sound, Linked, Lists, TypeOK
    <2>7. {j \in Used : jobtab[j].state # "done"} \subseteq {ListOf[n] : n \in 0..MaxJobs}
      BY <2>1, <2>4 DEF Used
    <2>8. {ListOf[n] : n \in 0..MaxJobs} \subseteq Used \cup {0}
      BY <2>4, <2>5
    <2> QED
      BY <2>4, <2>6, <2>7, <2>8 DEF ListSound
  <1> QED
    BY <1>1, ListRight, PTL
=============================================================================
