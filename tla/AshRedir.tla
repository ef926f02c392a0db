------------------------------ MODULE AshRedir ------------------------------
(***************************************************************************)
(* File descriptors of the ash shell (redir.c): redirections that are      *)
(* undone when their command is over, those of exec that are not, and the  *)
(* descriptors the shell keeps for itself, which have to make way.         *)
(*                                                                         *)
(* A redirection list is carried out one redirection at a time; any of     *)
(* them may fail.  Output to memory (REDIR_BACKQ), the process that writes *)
(* a long here document, and vfork are not modelled.                       *)
(***************************************************************************)
EXTENDS Integers, SequencesExt

CONSTANTS
  LastStd,                \* 2: descriptors above are closed on exec
  LowFd,                  \* 10: the shell's own descriptors are here or above
  Bases,                  \* what find_big_fd tries for big_sh_fd
  MaxFd,                  \* the limit of the process
  UserFds,                \* descriptors the user redirects
  Open0,                  \* those open at the start
  Owners,                 \* parts of the shell that hold a descriptor
  posix,
  Nested,                 \* they open it within redirected commands, too
  MaxScopes, MaxList,     \* bounds: commands within commands; redirections of one
  MaxStdin                \* bound: on fd0_redirected, which exec only ever adds to

ASSUME ConstAssumption ==
  /\ LastStd \in Nat /\ LowFd \in Nat /\ LastStd < LowFd /\ LowFd <= MaxFd
  /\ MaxFd \in Nat /\ UserFds \subseteq 0..MaxFd /\ Open0 \subseteq UserFds
  /\ Bases \subseteq LowFd..MaxFd
  /\ posix \in BOOLEAN /\ Nested \in BOOLEAN
  /\ MaxScopes \in Nat /\ MaxList \in Nat /\ MaxStdin \in Nat

Fds == 0..MaxFd
none == "none"                            \* "in" at the start, "a" if redirected

VARIABLES
  st,                     \* descriptors, and the variables of redir.c
  held,                   \* the descriptor as its owner knows it; -1: none
  pc, mode, cnt           \* the redirections of what are carried out; how many were

vars == <<st, held, pc, mode, cnt>>

\* st.fdt and st.cx are the kernel's: what each descriptor is open on, and
\* which are closed on exec.  st.redirlist has the innermost command first; snap
\* is history.  st.shfds is sh_fd_list, by owner.

-----------------------------------------------------------------------------
(* The kernel.                                                             *)

IsOpen(s, fd) == s.fdt[fd] # none
Free(s, min) == {fd \in Fds : fd >= min /\ ~IsOpen(s, fd)}

Set(s, fd, file, cloexec) ==
  [s EXCEPT !.fdt[fd] = file,
            !.cx = IF cloexec THEN @ \cup {fd} ELSE @ \ {fd}]
Close(s, fd) == Set(s, fd, none, FALSE)

\* dup2 and dup3.
copyfd(s, from, to, cloexec) == Set(s, to, s.fdt[from], cloexec /\ to > LastStd)

-----------------------------------------------------------------------------
(* redir.c                                                                 *)

\* find_big_fd tries with copies of descriptor 0, a little above what big_sh_fd
\* would be; each time it starts higher.
FindBig(s) ==
  LET n == Min({s.start + 1, Cardinality(Bases)})
      tried == {b \in Bases : Cardinality({c \in Bases : c < b}) < n}
      ok == {b \in tried : IsOpen(s, 0) /\ Free(s, b + 1) # {}}
  IN [s EXCEPT !.start = n, !.big = Max(ok \cup {LowFd})]

Based(s) == IF s.big < LowFd THEN FindBig(s) ELSE s

\* Mutant: the old descriptor stays open.
MovedKept(s, from, to, cloexec) ==
  IF from = to THEN s ELSE copyfd(Close(s, to), from, to, cloexec)

Moved(s, from, to, cloexec) ==
  IF from = to THEN s ELSE Close(copyfd(Close(s, to), from, to, cloexec), from)
movefd(s, from, to) == Moved(s, from, to, FALSE)

\* The results are the state and the descriptor; -1 is failure.
to_upper_fd(s, fd) ==
  LET b == Based(s)
      again == FindBig(b)
      at(x) == [s |-> Set(Moved(x, fd, Min(Free(x, x.big)), TRUE),
                          Min(Free(x, x.big)), x.fdt[fd], TRUE),
                fd |-> Min(Free(x, x.big))]
  IN IF Free(b, b.big) # {} THEN at(b)
     ELSE IF again.big > LowFd /\ Free(again, again.big) # {} THEN at(again)
     ELSE [s |-> Set(again, fd, again.fdt[fd], TRUE), fd |-> fd]

\* Where renumber_sh_fd tries to put the descriptor, the first that works.
Places(s, fd) == <<s.big, s.big \div 2, fd + 1, LowFd, LastStd + 1>>

\* Mutant: the owner is not told.
renumberSilent(s, h, fd) ==
  LET o == CHOOSE x \in Owners : s.shfds[x] = fd
      b == IF fd >= s.big THEN FindBig(s) ELSE s
      at == {k \in 1..5 : Free(b, Places(b, fd)[k]) # {}}
      to == Min(Free(b, Places(b, fd)[Min(at)]))
  IN IF fd \notin {s.shfds[x] : x \in Owners} THEN [s |-> s, held |-> h, ok |-> TRUE]
     ELSE IF at = {} THEN [s |-> b, held |-> h, ok |-> FALSE]
     ELSE [s |-> [Set(Close(b, fd), to, b.fdt[fd], TRUE) EXCEPT !.shfds[o] = to],
           held |-> h, ok |-> TRUE]

\* renumber_sh_fd(sh_fd(fd)), with the owner's callback.
renumber(s, h, fd) ==
  LET o == CHOOSE x \in Owners : s.shfds[x] = fd
      b == IF fd >= s.big THEN FindBig(s) ELSE s
      at == {k \in 1..5 : Free(b, Places(b, fd)[k]) # {}}
      to == Min(Free(b, Places(b, fd)[Min(at)]))
  IN IF fd \notin {s.shfds[x] : x \in Owners} THEN [s |-> s, held |-> h, ok |-> TRUE]
     ELSE IF at = {} THEN [s |-> b, held |-> h, ok |-> FALSE]
     ELSE [s |-> [Set(Close(b, fd), to, b.fdt[fd], TRUE) EXCEPT !.shfds[o] = to],
           held |-> [h EXCEPT ![o] = to], ok |-> TRUE]

Renamed(s) == {r.orig : r \in ToSet(s.redirlist[1].renamed)}

\* Mutant: the copy is passed on to commands.
SavedOpen(s, fd) ==
  LET b == Based(s)
      x == IF IsOpen(b, fd) /\ Free(b, b.big) = {} THEN FindBig(b) ELSE b
      into == IF IsOpen(x, fd) THEN Min(Free(x, x.big)) ELSE -1
      rename(y) == [y EXCEPT !.redirlist[1].renamed = <<[orig |-> fd, into |-> into]>> \o @]
  IN IF fd \in Renamed(s) THEN [s |-> s, ok |-> TRUE]
     ELSE IF IsOpen(x, fd) /\ Free(x, x.big) = {} THEN [s |-> x, ok |-> FALSE]
     ELSE [s |-> rename(IF into = -1 THEN x ELSE Set(x, into, x.fdt[fd], FALSE)), ok |-> TRUE]

\* redirect saves what fd is open on, once for each command.
Saved(s, fd) ==
  LET b == Based(s)
      x == IF IsOpen(b, fd) /\ Free(b, b.big) = {} THEN FindBig(b) ELSE b
      into == IF IsOpen(x, fd) THEN Min(Free(x, x.big)) ELSE -1
      rename(y) == [y EXCEPT !.redirlist[1].renamed = <<[orig |-> fd, into |-> into]>> \o @]
  IN IF fd \in Renamed(s) THEN [s |-> s, ok |-> TRUE]
     ELSE IF IsOpen(x, fd) /\ Free(x, x.big) = {} THEN [s |-> x, ok |-> FALSE]
     ELSE [s |-> rename(IF into = -1 THEN x ELSE Set(x, into, x.fdt[fd], TRUE)), ok |-> TRUE]

\* openredirect.
opens(s, fd, file, keep) ==
  LET f == Min(Free(s, 0))
      cloexec == fd > LastStd /\ ~keep /\ ~posix
      x == Set(s, f, file, FALSE)
  IN IF Free(s, 0) = {} THEN [s |-> s, ok |-> FALSE]
     ELSE [s |-> IF f = fd THEN Set(x, fd, file, cloexec)
                 ELSE Close(copyfd(x, f, fd, cloexec), f),
           ok |-> TRUE]

\* Here documents come through a pipe, whose other end is closed.
heres(s, fd, keep) ==
  LET f == Min(Free(s, 0))
  IN IF Cardinality(Free(s, 0)) < 2 THEN [s |-> s, ok |-> FALSE]
     ELSE opens(s, fd, "a", keep)

openredirect(s, r, keep) ==
  CASE r.op = "file" -> opens(s, r.fd, "a", keep)
    [] r.op = "here" -> heres(s, r.fd, keep)
    [] r.op = "fail" -> [s |-> s, ok |-> FALSE]
    [] r.op = "close" -> [s |-> Close(s, r.fd), ok |-> TRUE]
    [] r.op = "dup" -> IF IsOpen(s, r.from)
                       THEN [s |-> copyfd(s, r.from, r.fd, ~keep), ok |-> TRUE]
                       ELSE [s |-> s, ok |-> FALSE]

Redirections ==
  [fd : UserFds, op : {"file", "here", "fail", "close"}, from : {0}]
    \cup [fd : UserFds, op : {"dup"}, from : UserFds]

\* Mutant: what was closed before the command stays open.
UndoOpen(s, renamed) ==
  FoldLeft(LAMBDA x, r : IF r.into = -1 THEN x ELSE movefd(x, r.into, r.orig), s, renamed)

\* popredir: what was saved is put back, the last first.
Undo(s, renamed) ==
  FoldLeft(LAMBDA x, r : [IF r.into = -1 THEN Close(x, r.orig) ELSE movefd(x, r.into, r.orig)
                            EXCEPT !.fd0_redirected = IF r.orig = 0 THEN @ - 1 ELSE @],
           s, renamed)

popredir(s) == [Undo(s, s.redirlist[1].renamed) EXCEPT !.redirlist = Tail(@)]

\* reset, after an error: while (redirlist) popredir().
resets(s) ==
  LET popped[n \in 0..MaxScopes] == IF n = 0 THEN s ELSE popredir(popped[n - 1])
  IN popped[Len(s.redirlist)]

-----------------------------------------------------------------------------
(* The shell.                                                              *)

\* A builtin or function (REDIR_PUSH), a compound command (REDIR_KEEP as well)
\* and exec, with no flags.
Begin(m) ==
  /\ pc = "idle"
  /\ pc' = "redir" /\ mode' = m /\ cnt' = 0
  /\ IF m = "exec" THEN UNCHANGED st
     ELSE /\ Len(st.redirlist) < MaxScopes
          /\ st' = [st EXCEPT !.redirlist =
                      <<[renamed |-> <<>>, snap |-> st.fdt]>> \o @]
  /\ UNCHANGED held

\* One redirection: the loop of redirect.
Redirect(r) ==
  /\ pc = "redir" /\ cnt < MaxList
  /\ r.fd = 0 => st.fd0_redirected < MaxStdin
  /\ cnt' = cnt + 1
  /\ \E n \in {renumber(st, held, r.fd)} :
     \E v \in {IF n.ok /\ mode # "exec" /\ ~(r.op = "dup" /\ r.from = r.fd)
               THEN Saved(n.s, r.fd) ELSE [s |-> n.s, ok |-> n.ok]} :
     \E x \in {IF r.op = "dup" /\ r.from = r.fd
               THEN [s |-> [v.s EXCEPT !.cx = @ \ {r.fd}], ok |-> v.ok /\ IsOpen(v.s, r.fd)]
               ELSE IF ~v.ok THEN v
               ELSE openredirect([v.s EXCEPT !.fd0_redirected =
                                    IF r.fd = 0 THEN @ + 1 ELSE @],
                                 r, mode = "compound")} :
       /\ st' = x.s /\ held' = n.held
       /\ pc' = IF x.ok THEN pc ELSE "error"
  /\ UNCHANGED mode

\* mode and cnt are for redirect only.
Idle == pc' = "idle" /\ mode' = "exec" /\ cnt' = 0

\* The command runs.
Redirected ==
  /\ pc = "redir" /\ Idle
  /\ UNCHANGED <<st, held>>

\* The command is over.
Over ==
  /\ pc = "idle" /\ st.redirlist # <<>>
  /\ st' = popredir(st)
  /\ UNCHANGED <<held, pc, mode, cnt>>

\* evalredir, and evalcommand for builtins that are not special, go on after an
\* error in their own redirections; main resets.
Recover ==
  /\ pc = "error" /\ mode # "exec"
  /\ st' = popredir(st) /\ Idle
  /\ UNCHANGED held

Reset ==
  /\ pc \in {"error", "idle"}
  /\ st' = resets(st) /\ Idle
  /\ UNCHANGED held

\* Mutant: a script is read where it was opened if it cannot be moved.
AcquireAnyway(o) ==
  /\ pc = "idle" /\ held[o] = -1 /\ Free(st, 0) # {}
  /\ Nested \/ st.redirlist = <<>>
  /\ \E u \in {to_upper_fd(Set(st, Min(Free(st, 0)), o, FALSE), Min(Free(st, 0)))} :
       /\ st' = [u.s EXCEPT !.shfds[o] = u.fd]
       /\ held' = [held EXCEPT ![o] = u.fd]
  /\ UNCHANGED <<pc, mode, cnt>>

\* A script, the terminal or the trace file is opened and moved out of the way;
\* a script must be, the others are kept where they are.
Acquire(o) ==
  /\ pc = "idle" /\ held[o] = -1 /\ Free(st, 0) # {}
  /\ Nested \/ st.redirlist = <<>>
  /\ \E u \in {to_upper_fd(Set(st, Min(Free(st, 0)), o, FALSE), Min(Free(st, 0)))} :
       IF o = "script" /\ u.fd = Min(Free(st, 0))
       THEN /\ st' = Close(u.s, u.fd) /\ UNCHANGED held
            /\ pc' = "error"
       ELSE /\ st' = [u.s EXCEPT !.shfds[o] = u.fd]
            /\ held' = [held EXCEPT ![o] = u.fd]
            /\ UNCHANGED pc
  /\ UNCHANGED <<mode, cnt>>

\* sh_close.
Release(o) ==
  /\ pc = "idle" /\ held[o] # -1
  /\ st' = [Close(st, held[o]) EXCEPT !.shfds =
              [x \in Owners |-> IF st.shfds[x] = held[o] THEN -1 ELSE st.shfds[x]]]
  /\ held' = [held EXCEPT ![o] = -1]
  /\ UNCHANGED <<pc, mode, cnt>>

-----------------------------------------------------------------------------
(* The specification.                                                      *)

Init ==
  /\ st = [fdt |-> [fd \in Fds |-> IF fd \in Open0 THEN "in" ELSE none], cx |-> {},
           redirlist |-> <<>>, fd0_redirected |-> 0, big |-> 0, start |-> 0,
           shfds |-> [o \in Owners |-> -1]]
  /\ held = [o \in Owners |-> -1]
  /\ pc = "idle" /\ mode = "exec" /\ cnt = 0

Next ==
  \/ \E m \in {"builtin", "compound", "exec"} : Begin(m)
  \/ \E r \in Redirections : Redirect(r)
  \/ Redirected \/ Over \/ Recover \/ Reset
  \/ \E o \in Owners : Acquire(o) \/ Release(o)

Spec == Init /\ [][Next]_vars

-----------------------------------------------------------------------------
(* Properties.                                                             *)

\* What the user has there: the shell's own descriptors make way.
Users(file) == IF file \in Owners THEN none ELSE file

\* Whatever was redirected in between, and however it went wrong: when commands
\* are over each descriptor they redirected is open on what it was open on
\* before the outermost of them, copies they put into free descriptors are
\* closed, and the others are left alone.
Undone ==
  LET n == Len(st.redirlist) - Len(st'.redirlist)
      Renames(k) == ToSet(st.redirlist[k].renamed)
      saved(fd) == Max({0} \cup {k \in 1..n : \E r \in Renames(k) : r.orig = fd})
      copy(fd) == Max({0} \cup {k \in 1..n : \E r \in Renames(k) : r.into = fd})
  IN \A fd \in UserFds :
       n > 0 =>
         Users(st'.fdt[fd]) =
           IF saved(fd) > 0 /\ saved(fd) >= copy(fd)
           THEN Users(st.redirlist[saved(fd)].snap[fd])
           ELSE IF copy(fd) > 0 THEN none ELSE Users(st.fdt[fd])

RedirectionsUndone == [][Undone]_vars

\* The shell's own descriptors stay open on what they were opened on, and their
\* owners know where, however the user redirects.
ShellFdsSafe ==
  \A o \in Owners :
    /\ held[o] = st.shfds[o]
    /\ held[o] # -1 => st.fdt[held[o]] = o

Copies == {r.into : r \in UNION {ToSet(st.redirlist[k].renamed) : k \in DOMAIN st.redirlist}} \ {-1}

\* Above the user's descriptors there is nothing but what the shell needs: no
\* copy is left over after an error, and none is lost.  Commands inherit neither
\* the copies nor the shell's own descriptors.
NothingLeft ==
  /\ {fd \in Fds \ UserFds : IsOpen(st, fd)} =
       (Copies \cup {held[o] : o \in Owners}) \ ({-1} \cup UserFds)
  /\ (Copies \cup {held[o] : o \in Owners}) \ {-1} \subseteq st.cx

\* What ash.1 says of exec: descriptors above 2 that it opens are passed on to
\* commands in posix mode, and only then.
Passed ==
  pc = "redir" /\ mode = "exec" /\ pc' = "redir" =>
    \A fd \in UserFds :
      fd > LastStd /\ st'.fdt[fd] \notin {none, st.fdt[fd]} => (fd \in st'.cx <=> ~posix)

PassedOn == [][Passed]_vars

\* What redir.c says of fd0_redirected: it tells whether descriptor 0 is
\* redirected.
Fd0Known ==
  pc = "idle" /\ st.redirlist = <<>> /\ st.fd0_redirected > 0 => st.fdt[0] # "in"
=============================================================================
