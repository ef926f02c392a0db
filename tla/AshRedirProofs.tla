--------------------------- MODULE AshRedirProofs ---------------------------
(***************************************************************************)
(* Proofs about AshRedir, for every table of descriptors, every nesting of *)
(* commands and lists of redirections of every length.                     *)
(***************************************************************************)
EXTENDS AshRedir, FiniteSetTheorems, NaturalsInduction, WellFoundedInduction, TLAPS

\* The circumstances: users redirect descriptors below those of the shell, and the
\* shell holds nothing but a script, which it does not keep where it was opened.
Simple == (\A fd \in UserFds : fd < LowFd) /\ Owners \subseteq {"script"}

Files == {none, "in", "a"} \cup Owners
Kept == LowFd..MaxFd                        \* where the shell's descriptors are
Saves == [orig : UserFds, into : Kept \cup {-1}]
Scopes == [renamed : Seq(Saves), snap : [Fds -> Files]]
States == [fdt : [Fds -> Files], cx : SUBSET Fds, redirlist : Seq(Scopes),
           fd0_redirected : Int, big : {0} \cup Kept, start : Int,
           shfds : [Owners -> Kept \cup {-1}]]

\* What is saved for the k-th command, the innermost being the first.
Saving(s, k) == s.redirlist[k].renamed
Origs(s, k) == {Saving(s, k)[i].orig : i \in DOMAIN Saving(s, k)}

\* The shell's own descriptors are open on what they should be ...
Owned(s) ==
  \A o \in Owners : s.shfds[o] # -1 => s.fdt[s.shfds[o]] = o /\ s.shfds[o] \in s.cx

\* ... and the copies on what the user had there when the command began.
CopyKept(s, snap, r) ==
  IF r.into = -1 THEN snap[r.orig] = none
  ELSE /\ s.fdt[r.into] = snap[r.orig] /\ snap[r.orig] # none /\ r.into \in s.cx
       /\ \A o \in Owners : s.shfds[o] # r.into
Copied(s) ==
  \A k \in DOMAIN s.redirlist : \A i \in DOMAIN Saving(s, k) :
    CopyKept(s, s.redirlist[k].snap, Saving(s, k)[i])

\* No two copies are in the same place, and each descriptor is saved once for a
\* command.
Apart(s) ==
  \A k, l \in DOMAIN s.redirlist : \A i \in DOMAIN Saving(s, k), j \in DOMAIN Saving(s, l) :
    /\ Saving(s, k)[i].into = Saving(s, l)[j].into /\ Saving(s, k)[i].into # -1
         => k = l /\ i = j
    /\ k = l /\ Saving(s, k)[i].orig = Saving(s, l)[j].orig => i = j

\* Nothing else is open but what the user may redirect.
Full(s) ==
  \A fd \in Fds \ UserFds : s.fdt[fd] # none =>
    \/ \E o \in Owners : s.shfds[o] = fd
    \/ \E k \in DOMAIN s.redirlist : \E i \in DOMAIN Saving(s, k) :
         Saving(s, k)[i].into = fd

Sound(s) == s \in States /\ Owned(s) /\ Copied(s) /\ Apart(s) /\ Full(s)

\* While a command is redirected, what it has not yet redirected is as it was.
Begun(s) == \A fd \in UserFds \ Origs(s, 1) : s.fdt[fd] = s.redirlist[1].snap[fd]

\* The inductive invariant.
RInv ==
  /\ Sound(st) /\ held = st.shfds /\ Len(st.redirlist) <= MaxScopes
  /\ pc = "idle" => mode = "exec"
  /\ mode # "exec" => st.redirlist # <<>>
  /\ pc = "redir" /\ mode # "exec" => Begun(st)

USE ConstAssumption

-----------------------------------------------------------------------------
(* Numbers and sets of descriptors.                                        *)

LEMMA LeastOf ==
  ASSUME NEW S, S \subseteq Nat, S # {}
  PROVE  \E x \in S : \A y \in S : x <= y
  <1>1. PICK x \in S : \A y \in S : ~(<<y, x>> \in OpToRel(<, Nat))
    BY NatLessThanWellFounded, WFMin, Zenon
  <1>2. ASSUME NEW y \in S, y < x PROVE FALSE
    <2>1. <<y, x>> \in Nat \X Nat
      BY <1>2
    <2>2. <<y, x>>[1] < <<y, x>>[2]
      BY <1>2
    <2> QED
      BY <1>1, <2>1, <2>2 DEF OpToRel
  <1> QED
    BY <1>2

LEMMA MinIn ==
  ASSUME NEW S, S \subseteq Nat, S # {}
  PROVE  Min(S) \in S /\ \A y \in S : Min(S) <= y
  <1>1. \E x \in S : \A y \in S : x <= y
    BY LeastOf
  <1> QED
    BY <1>1 DEF Min

LEMMA MaxIn ==
  ASSUME NEW n \in Nat, NEW S, S \subseteq 0..n, S # {}
  PROVE  Max(S) \in S /\ \A y \in S : Max(S) >= y
  <1> DEFINE T == {n - x : x \in S}
  <1>1. T \subseteq Nat /\ T # {}
    <2>1. ASSUME NEW x \in S PROVE n - x \in Nat
      <3>1. x \in 0..n
        OBVIOUS
      <3> QED
        BY ONLY <3>1, n \in Nat
    <2> QED
      BY ONLY <2>1, S # {}
  <1>2. \E y \in T : \A z \in T : y <= z
    <2> HIDE DEF T
    <2> QED
      BY <1>1, LeastOf
  <1>3. PICK y \in T : \A z \in T : y <= z
    BY <1>2
  <1>4. PICK x \in S : y = n - x
    BY <1>3
  <1>5. ASSUME NEW z \in S PROVE x >= z
    <2>1. y <= n - z /\ z \in Int /\ x \in Int
      BY <1>3
    <2> QED
      BY ONLY <1>4, <2>1, n \in Nat
  <1> QED
    BY <1>5 DEF Max

\* With n elements or fewer: the larger of two numbers, and so on.
LEMMA MinPair ==
  ASSUME NEW a \in Int, NEW b \in Int
  PROVE  Min({a, b}) \in Int
  <1>1. \E x \in {a, b} : \A y \in {a, b} : x <= y
    OBVIOUS
  <1>2. Min({a, b}) \in {a, b}
    BY <1>1 DEF Min
  <1> QED
    BY <1>2

LEMMA Fd ==
  /\ \A x : x \in Fds <=> x \in Int /\ 0 <= x /\ x <= MaxFd
  /\ \A x : x \in Kept <=> x \in Int /\ LowFd <= x /\ x <= MaxFd
  /\ Kept \subseteq Fds /\ LowFd \in Kept /\ -1 \notin Fds /\ UserFds \subseteq Fds
  /\ LowFd \in Nat /\ MaxFd \in Nat /\ LastStd \in Nat /\ 0 < LowFd
  <1>1. 0 < LowFd
    BY ConstAssumption
  <1> QED
    BY <1>1 DEF Fds, Kept

\* The lowest free descriptor from min on.
LEMMA LowestFree ==
  ASSUME NEW s \in States, NEW min \in Int, Free(s, min) # {}
  PROVE  /\ Min(Free(s, min)) \in Fds /\ Min(Free(s, min)) >= min
         /\ s.fdt[Min(Free(s, min))] = none
  <1>1. Free(s, min) \subseteq Nat
    BY DEF Free, Fds
  <1>2. Min(Free(s, min)) \in Free(s, min)
    BY <1>1, MinIn
  <1> QED
    BY <1>2 DEF Free, IsOpen

-----------------------------------------------------------------------------
(* The kernel.                                                             *)

LEMMA SetState ==
  ASSUME NEW s \in States, NEW fd \in Fds, NEW file \in Files, NEW b \in BOOLEAN
  PROVE  LET x == Set(s, fd, file, b)
         IN  /\ x \in States /\ x.redirlist = s.redirlist /\ x.shfds = s.shfds
             /\ x.big = s.big
             /\ x.fdt[fd] = file /\ (b => fd \in x.cx)
             /\ \A g \in Fds \ {fd} : x.fdt[g] = s.fdt[g] /\ (g \in s.cx => g \in x.cx)
  BY DEF Set, States

LEMMA CloseState ==
  ASSUME NEW s \in States, NEW fd \in Fds
  PROVE  LET x == Close(s, fd)
         IN  /\ x \in States /\ x.redirlist = s.redirlist /\ x.shfds = s.shfds
             /\ x.big = s.big /\ x.fdt[fd] = none
             /\ \A g \in Fds \ {fd} : x.fdt[g] = s.fdt[g] /\ (g \in s.cx => g \in x.cx)
  <1>1. none \in Files
    BY DEF Files
  <1> QED
    BY <1>1, SetState DEF Close

LEMMA CopyState ==
  ASSUME NEW s \in States, NEW from \in Fds, NEW to \in Fds, NEW b \in BOOLEAN
  PROVE  LET x == copyfd(s, from, to, b)
         IN  /\ x \in States /\ x.redirlist = s.redirlist /\ x.shfds = s.shfds
             /\ x.big = s.big /\ x.fdt[to] = s.fdt[from]
             /\ \A g \in Fds \ {to} : x.fdt[g] = s.fdt[g] /\ (g \in s.cx => g \in x.cx)
  <1>1. s.fdt[from] \in Files /\ (b /\ to > LastStd) \in BOOLEAN
    BY DEF States
  <1> QED
    <2> DEFINE file == s.fdt[from]
               c == b /\ to > LastStd
    <2>1. file \in Files /\ c \in BOOLEAN /\ copyfd(s, from, to, b) = Set(s, to, file, c)
      BY <1>1 DEF copyfd
    <2> HIDE DEF file, c
    <2>2. LET x == Set(s, to, file, c)
          IN  /\ x \in States /\ x.redirlist = s.redirlist /\ x.shfds = s.shfds
              /\ x.big = s.big /\ x.fdt[to] = file
              /\ \A g \in Fds \ {to} : x.fdt[g] = s.fdt[g] /\ (g \in s.cx => g \in x.cx)
      BY <2>1, SetState
    <2> QED
      BY <2>1, <2>2 DEF file

\* Moving frees the descriptor it moves from.
LEMMA MoveState ==
  ASSUME NEW s \in States, NEW from \in Fds, NEW to \in Fds, from # to, NEW b \in BOOLEAN
  PROVE  LET x == Moved(s, from, to, b)
         IN  /\ x \in States /\ x.redirlist = s.redirlist /\ x.shfds = s.shfds
             /\ x.big = s.big /\ x.fdt[to] = s.fdt[from] /\ x.fdt[from] = none
             /\ \A g \in Fds \ {to, from} :
                  x.fdt[g] = s.fdt[g] /\ (g \in s.cx => g \in x.cx)
  <1> DEFINE c == Close(s, to)
             d == copyfd(c, from, to, b)
             e == Close(d, from)
  <1>1. /\ c \in States /\ c.redirlist = s.redirlist /\ c.shfds = s.shfds /\ c.big = s.big
        /\ \A g \in Fds \ {to} : c.fdt[g] = s.fdt[g] /\ (g \in s.cx => g \in c.cx)
    BY CloseState
  <1> HIDE DEF c
  <1>2. /\ d \in States /\ d.redirlist = c.redirlist /\ d.shfds = c.shfds /\ d.big = c.big
        /\ d.fdt[to] = c.fdt[from]
        /\ \A g \in Fds \ {to} : d.fdt[g] = c.fdt[g] /\ (g \in c.cx => g \in d.cx)
    BY <1>1, CopyState
  <1> HIDE DEF d
  <1>3. /\ e \in States /\ e.redirlist = d.redirlist /\ e.shfds = d.shfds /\ e.big = d.big
        /\ e.fdt[from] = none
        /\ \A g \in Fds \ {from} : e.fdt[g] = d.fdt[g] /\ (g \in d.cx => g \in e.cx)
    BY <1>2, CloseState
  <1> HIDE DEF e
  <1>4. Moved(s, from, to, b) = e
    BY DEF Moved, c, d, e
  <1> QED
    BY <1>1, <1>2, <1>3, <1>4

\* find_big_fd finds a base for the shell's descriptors.
LEMMA FindBigState ==
  ASSUME NEW s \in States
  PROVE  LET x == FindBig(s)
         IN  /\ x \in States /\ x.redirlist = s.redirlist /\ x.shfds = s.shfds
             /\ x.fdt = s.fdt /\ x.cx = s.cx /\ x.big \in Kept
  <1> DEFINE n == Min({s.start + 1, Cardinality(Bases)})
             ok == {b \in {c \in Bases : Cardinality({d \in Bases : d < c}) < n} :
                      IsOpen(s, 0) /\ Free(s, b + 1) # {}}
  <1>1. IsFiniteSet(Bases)
    <2>1. IsFiniteSet(LowFd..MaxFd)
      BY FS_Interval
    <2> QED
      BY <2>1, FS_Subset
  <1>2. Cardinality(Bases) \in Int /\ s.start + 1 \in Int
    BY <1>1, FS_CardinalityType DEF States
  <1>3. n \in Int
    BY <1>2, MinPair
  <1>4. ok \subseteq Bases
    OBVIOUS
  <1>5. FindBig(s) = [s EXCEPT !.start = n, !.big = Max(ok \cup {LowFd})]
    BY DEF FindBig
  <1> HIDE DEF n, ok
  <1>6. ok \cup {LowFd} \subseteq Kept
    BY <1>4, Fd DEF Kept
  <1>7. Kept \subseteq 0..MaxFd /\ MaxFd \in Nat
    BY Fd DEF Kept
  <1>8. Max(ok \cup {LowFd}) \in ok \cup {LowFd}
    BY ONLY <1>6, <1>7, MaxIn
  <1>9. Max(ok \cup {LowFd}) \in Kept
    BY <1>6, <1>8
  <1> QED
    BY <1>3, <1>5, <1>9 DEF States

LEMMA BasedState ==
  ASSUME NEW s \in States
  PROVE  LET x == Based(s)
         IN  /\ x \in States /\ x.redirlist = s.redirlist /\ x.shfds = s.shfds
             /\ x.fdt = s.fdt /\ x.cx = s.cx /\ x.big \in Kept
  <1>1. CASE s.big < LowFd
    BY <1>1, FindBigState DEF Based
  <1>2. CASE ~(s.big < LowFd)
    BY <1>2, Fd DEF Based, States
  <1> QED
    BY <1>1, <1>2

-----------------------------------------------------------------------------
(* What one redirection does.                                              *)

\* From s to x, nothing has changed but the descriptor fd, and what was not in use.
Touches(s, x, fd) ==
  /\ x \in States /\ x.redirlist = s.redirlist /\ x.shfds = s.shfds
  /\ \A g \in Fds \ {fd} :
       x.fdt[g] = s.fdt[g] /\ (g \in s.cx /\ s.fdt[g] # none => g \in x.cx)

LEMMA TouchesMore ==
  ASSUME NEW s, NEW x, NEW y, NEW fd, Touches(s, x, fd), Touches(x, y, fd)
  PROVE  Touches(s, y, fd)
  BY DEF Touches

\* That does no harm to what is saved or kept, since it is elsewhere.
LEMMA TouchSound ==
  ASSUME Simple, NEW s, NEW x, NEW fd \in UserFds, Sound(s), Touches(s, x, fd)
  PROVE  Sound(x)
  <1>1. \A g \in Kept : g \in Fds \ {fd}
    BY Fd DEF Simple
  <1>2. s \in States /\ s.shfds \in [Owners -> Kept \cup {-1}] /\ x \in States
    BY DEF Sound, Touches, States
  <1>3. /\ x.redirlist = s.redirlist /\ x.shfds = s.shfds
        /\ \A k : Saving(x, k) = Saving(s, k)
        /\ \A g \in Kept : x.fdt[g] = s.fdt[g] /\ (g \in s.cx /\ s.fdt[g] # none => g \in x.cx)
    BY <1>1 DEF Touches, Saving
  <1>4. \A o \in Owners : o # none
    BY DEF Simple, none
  <1>5. Owned(x)
    <2> SUFFICES ASSUME NEW o \in Owners, s.shfds[o] # -1
                 PROVE  x.fdt[s.shfds[o]] = o /\ s.shfds[o] \in x.cx
      BY <1>3 DEF Owned
    <2>1. s.shfds[o] \in Kept /\ s.fdt[s.shfds[o]] = o /\ s.shfds[o] \in s.cx
      BY <1>2 DEF Sound, Owned
    <2> QED
      BY <1>3, <1>4, <2>1
  <1>6. Copied(x)
    <2> SUFFICES ASSUME NEW k \in DOMAIN s.redirlist, NEW i \in DOMAIN Saving(s, k),
                        NEW r, r = Saving(s, k)[i], r.into # -1
                 PROVE  /\ x.fdt[r.into] = s.fdt[r.into]
                        /\ r.into \in s.cx /\ s.fdt[r.into] # none => r.into \in x.cx
      BY <1>3 DEF Sound, Copied, CopyKept
    <2>1. r.into \in Kept
      <3>1. s.redirlist \in Seq(Scopes)
        BY <1>2 DEF States
      <3>2. s.redirlist[k] \in Scopes
        BY <3>1
      <3>3. Saving(s, k) \in Seq(Saves)
        BY <3>2 DEF Scopes, Saving
      <3>4. r \in Saves
        BY <3>3
      <3> QED
        BY <3>4 DEF Saves
    <2> QED
      BY <1>3, <2>1
  <1>7. Apart(x)
    BY <1>3 DEF Sound, Apart
  <1>8. Full(x)
    <2>1. \A g \in Fds \ UserFds : x.fdt[g] = s.fdt[g]
      BY DEF Touches
    <2> QED
      BY <1>3, <2>1 DEF Sound, Full
  <1> QED
    BY <1>2, <1>5, <1>6, <1>7, <1>8 DEF Sound

LEMMA CopyTouches ==
  ASSUME NEW s \in States, NEW from \in Fds, NEW to \in Fds, NEW b \in BOOLEAN
  PROVE  Touches(s, copyfd(s, from, to, b), to)
  BY CopyState DEF Touches

LEMMA OpensTouches ==
  ASSUME NEW s \in States, NEW fd \in UserFds, NEW keep \in BOOLEAN
  PROVE  /\ Touches(s, opens(s, fd, "a", keep).s, fd)
         /\ opens(s, fd, "a", keep).ok \in BOOLEAN
  <1> DEFINE f == Min(Free(s, 0))
             cloexec == fd > LastStd /\ ~keep /\ ~posix
             x == Set(s, f, "a", FALSE)
             y == Set(x, fd, "a", cloexec)
             d == copyfd(x, f, fd, cloexec)
             e == Close(d, f)
  <1>1. CASE Free(s, 0) = {}
    BY <1>1 DEF opens, Touches
  <1>2. CASE Free(s, 0) # {}
    <2>1. f \in Fds /\ s.fdt[f] = none /\ fd \in Fds /\ "a" \in Files /\ cloexec \in BOOLEAN
      <3>1. 0 \in Int
        OBVIOUS
      <3> QED
        BY <1>2, <3>1, LowestFree, Fd DEF Files
    <2>2. opens(s, fd, "a", keep) = [s |-> IF f = fd THEN y ELSE e, ok |-> TRUE]
      BY <1>2 DEF opens
    <2> HIDE DEF f, cloexec
    <2>3. /\ x \in States /\ x.redirlist = s.redirlist /\ x.shfds = s.shfds
          /\ \A g \in Fds \ {f} : x.fdt[g] = s.fdt[g] /\ (g \in s.cx => g \in x.cx)
      BY <2>1, SetState
    <2> HIDE DEF x, y, d, e
    <2>4. CASE f = fd
      <3>1. /\ y \in States /\ y.redirlist = x.redirlist /\ y.shfds = x.shfds
            /\ \A g \in Fds \ {fd} : y.fdt[g] = x.fdt[g] /\ (g \in x.cx => g \in y.cx)
        BY <2>1, <2>3, SetState DEF y
      <3>2. Touches(s, y, fd)
        BY <2>3, <2>4, <3>1 DEF Touches
      <3>3. opens(s, fd, "a", keep).s = y /\ opens(s, fd, "a", keep).ok = TRUE
        BY ONLY <2>2, <2>4
      <3> QED
        BY <3>2, <3>3
    <2>5. CASE f # fd
      <3>1. /\ d \in States /\ d.redirlist = x.redirlist /\ d.shfds = x.shfds
            /\ \A g \in Fds \ {fd} :
                 d.fdt[g] = x.fdt[g] /\ (g \in x.cx /\ x.fdt[g] # none => g \in d.cx)
        <4>1. Touches(x, d, fd)
          BY <2>1, <2>3, CopyTouches DEF d
        <4> QED
          BY ONLY <4>1 DEF Touches
      <3>2. /\ e \in States /\ e.redirlist = d.redirlist /\ e.shfds = d.shfds
            /\ e.fdt[f] = none
            /\ \A g \in Fds \ {f} : e.fdt[g] = d.fdt[g] /\ (g \in d.cx => g \in e.cx)
        BY <2>1, <3>1, CloseState DEF e
      <3>3. ASSUME NEW g \in Fds \ {fd}
            PROVE  e.fdt[g] = s.fdt[g] /\ (g \in s.cx /\ s.fdt[g] # none => g \in e.cx)
        <4>1. CASE g = f
          BY <2>1, <3>2, <4>1
        <4>2. CASE g # f
          BY <2>3, <3>1, <3>2, <4>2
        <4> QED
          BY <4>1, <4>2
      <3>4. Touches(s, e, fd)
        BY <2>3, <3>1, <3>2, <3>3 DEF Touches
      <3>5. opens(s, fd, "a", keep).s = e /\ opens(s, fd, "a", keep).ok = TRUE
        BY ONLY <2>2, <2>5
      <3> QED
        BY <3>4, <3>5
    <2> QED
      BY <2>4, <2>5
  <1> QED
    BY <1>1, <1>2

LEMMA OpenTouches ==
  ASSUME NEW s \in States, NEW r \in Redirections, NEW keep \in BOOLEAN
  PROVE  /\ Touches(s, openredirect(s, r, keep).s, r.fd)
         /\ openredirect(s, r, keep).ok \in BOOLEAN
  <1> DEFINE o == openredirect(s, r, keep)
  <1>1. r.fd \in UserFds /\ r.fd \in Fds
    BY Fd DEF Redirections
  <1>2. Touches(s, s, r.fd)
    BY DEF Touches
  <1>3. r.op \in {"file", "here", "fail", "close", "dup"} /\ (r.op = "dup" => r.from \in UserFds)
    BY DEF Redirections
  <1>4. CASE r.op = "file"
    <2>1. o = opens(s, r.fd, "a", keep)
      BY <1>4 DEF openredirect
    <2> QED
      BY <1>1, <2>1, OpensTouches
  <1>5. CASE r.op = "here"
    <2>1. o = heres(s, r.fd, keep)
      BY <1>5 DEF openredirect
    <2>2. CASE Cardinality(Free(s, 0)) < 2
      BY <1>2, <2>1, <2>2 DEF heres
    <2>3. CASE ~(Cardinality(Free(s, 0)) < 2)
      <3>1. o = opens(s, r.fd, "a", keep)
        BY <2>1, <2>3 DEF heres
      <3> QED
        BY <1>1, <3>1, OpensTouches
    <2> QED
      BY <2>2, <2>3
  <1>6. CASE r.op = "fail"
    <2>1. o = [s |-> s, ok |-> FALSE]
      BY <1>6 DEF openredirect
    <2> QED
      BY <1>2, <2>1
  <1>7. CASE r.op = "close"
    <2>1. o = [s |-> Close(s, r.fd), ok |-> TRUE]
      BY <1>7 DEF openredirect
    <2>2. Touches(s, Close(s, r.fd), r.fd)
      BY <1>1, CloseState DEF Touches
    <2> QED
      BY <2>1, <2>2
  <1>8. CASE r.op = "dup"
    <2>1. o = IF IsOpen(s, r.from) THEN [s |-> copyfd(s, r.from, r.fd, ~keep), ok |-> TRUE]
              ELSE [s |-> s, ok |-> FALSE]
      BY <1>8 DEF openredirect
    <2>2. r.from \in Fds /\ (~keep) \in BOOLEAN
      BY <1>3, <1>8, Fd
    <2>3. Touches(s, copyfd(s, r.from, r.fd, ~keep), r.fd)
      BY <1>1, <2>2, CopyTouches
    <2> QED
      BY <1>2, <2>1, <2>3
  <1> QED
    BY <1>3, <1>4, <1>5, <1>6, <1>7, <1>8

-----------------------------------------------------------------------------
(* What redirect saves.                                                    *)

\* What a state records for its commands.
LEMMA SavesOf ==
  ASSUME NEW s \in States, NEW k \in DOMAIN s.redirlist
  PROVE  /\ Saving(s, k) \in Seq(Saves) /\ s.redirlist[k].snap \in [Fds -> Files]
         /\ \A i \in DOMAIN Saving(s, k) :
              /\ Saving(s, k)[i] \in Saves
              /\ Saving(s, k)[i].orig \in UserFds
              /\ Saving(s, k)[i].into \in Kept \cup {-1}
  <1>1. s.redirlist \in Seq(Scopes)
    BY DEF States
  <1>2. s.redirlist[k] \in Scopes
    BY <1>1
  <1>3. Saving(s, k) \in Seq(Saves) /\ s.redirlist[k].snap \in [Fds -> Files]
    BY <1>2 DEF Scopes, Saving
  <1>4. \A i \in DOMAIN Saving(s, k) : Saving(s, k)[i] \in Saves
    BY ONLY <1>3
  <1> QED
    BY <1>3, <1>4 DEF Saves

LEMMA RenamedOrigs ==
  ASSUME NEW s
  PROVE  Renamed(s) = Origs(s, 1)
  BY DEF Renamed, Origs, Saving, ToSet

WithSave(y, r) == [y EXCEPT !.redirlist[1].renamed = <<r>> \o @]

LEMMA PushSave ==
  ASSUME NEW y \in States, y.redirlist # <<>>, NEW r \in Saves
  PROVE  LET x == WithSave(y, r)
         IN  /\ x \in States /\ x.fdt = y.fdt /\ x.cx = y.cx /\ x.shfds = y.shfds
             /\ Len(x.redirlist) = Len(y.redirlist) /\ DOMAIN x.redirlist = DOMAIN y.redirlist
             /\ 1 \in DOMAIN y.redirlist
             /\ \A k \in DOMAIN y.redirlist :
                  /\ x.redirlist[k].snap = y.redirlist[k].snap
                  /\ k # 1 => Saving(x, k) = Saving(y, k)
             /\ DOMAIN Saving(y, 1) = 1..Len(Saving(y, 1)) /\ Len(Saving(y, 1)) \in Nat
             /\ DOMAIN Saving(x, 1) = 1..(Len(Saving(y, 1)) + 1)
             /\ Saving(x, 1)[1] = r
             /\ \A i \in DOMAIN Saving(y, 1) : Saving(x, 1)[i + 1] = Saving(y, 1)[i]
  <1> DEFINE q == y.redirlist
             rn == q[1].renamed
             rn2 == <<r>> \o rn
             sc == [q[1] EXCEPT !.renamed = rn2]
             q2 == [q EXCEPT ![1] = sc]
  <1>1. q \in Seq(Scopes) /\ q # <<>>
    BY DEF States
  <1>2. WithSave(y, r) = [y EXCEPT !.redirlist = q2]
    BY DEF WithSave
  <1> HIDE DEF q
  <1>3. 1 \in DOMAIN q /\ q[1] \in Scopes
    BY ONLY <1>1
  <1>4. rn \in Seq(Saves) /\ q[1].snap \in [Fds -> Files]
    BY <1>3 DEF Scopes
  <1> HIDE DEF rn
  <1>5. /\ rn2 \in Seq(Saves) /\ Len(rn2) = Len(rn) + 1 /\ rn2[1] = r
        /\ \A i \in DOMAIN rn : rn2[i + 1] = rn[i]
    BY ONLY <1>4, r \in Saves
  <1>6. DOMAIN rn = 1..Len(rn) /\ Len(rn) \in Nat /\ DOMAIN rn2 = 1..(Len(rn) + 1)
    BY ONLY <1>4, <1>5
  <1> HIDE DEF rn2
  <1>7. sc \in Scopes /\ sc.renamed = rn2 /\ sc.snap = q[1].snap
    BY <1>3, <1>4, <1>5 DEF Scopes
  <1> HIDE DEF sc
  <1>8. /\ q2 \in Seq(Scopes) /\ Len(q2) = Len(q) /\ DOMAIN q2 = DOMAIN q
        /\ q2[1] = sc /\ \A k \in DOMAIN q : k # 1 => q2[k] = q[k]
    BY ONLY <1>1, <1>3, <1>7
  <1> HIDE DEF q2
  <1>9. LET x == WithSave(y, r)
        IN  /\ x \in States /\ x.fdt = y.fdt /\ x.cx = y.cx /\ x.shfds = y.shfds
            /\ x.redirlist = q2
    BY <1>2, <1>8 DEF States
  <1>10. Saving(WithSave(y, r), 1) = rn2 /\ Saving(y, 1) = rn
    BY <1>7, <1>8, <1>9 DEF Saving, q, rn
  <1>11. \A k \in DOMAIN q : k # 1 => Saving(WithSave(y, r), k) = Saving(y, k)
    BY <1>8, <1>9 DEF Saving, q
  <1>12. \A k \in DOMAIN q : q2[k].snap = q[k].snap
    BY <1>7, <1>8
  <1>13. q = y.redirlist
    BY DEF q
  <1> QED
    BY ONLY <1>3, <1>5, <1>6, <1>8, <1>9, <1>10, <1>11, <1>12, <1>13

\* y differs from s at most in a new copy of fd, at into.
CopyMade(s, y, fd, into) ==
  /\ y \in States /\ y.redirlist = s.redirlist /\ y.shfds = s.shfds
  /\ into \in Kept \cup {-1}
  /\ \A g \in Fds : g # into => y.fdt[g] = s.fdt[g] /\ (g \in s.cx => g \in y.cx)
  /\ into = -1 => s.fdt[fd] = none
  /\ into # -1 => /\ s.fdt[into] = none /\ s.fdt[fd] # none
                  /\ y.fdt[into] = s.fdt[fd] /\ into \in y.cx

LEMMA SaveSound ==
  ASSUME Simple, NEW s, Sound(s), s.redirlist # <<>>, NEW fd \in UserFds, fd \notin Origs(s, 1),
         s.fdt[fd] = s.redirlist[1].snap[fd],
         NEW y, NEW into, CopyMade(s, y, fd, into)
  PROVE  LET x == WithSave(y, [orig |-> fd, into |-> into])
         IN  /\ Sound(x) /\ x.fdt = y.fdt /\ x.shfds = s.shfds
             /\ Len(x.redirlist) = Len(s.redirlist)
             /\ x.redirlist[1].snap = s.redirlist[1].snap
             /\ Origs(x, 1) = Origs(s, 1) \cup {fd}
  <1> DEFINE r == [orig |-> fd, into |-> into]
             x == WithSave(y, r)
             n == Len(Saving(s, 1))
  <1>1. s \in States /\ y \in States /\ y.redirlist # <<>> /\ r \in Saves
    BY DEF Sound, CopyMade, Saves
  <1>2. r.orig = fd /\ r.into = into
    OBVIOUS
  <1> HIDE DEF r
  <1>3. /\ \A k : Saving(y, k) = Saving(s, k)
        /\ y.redirlist = s.redirlist /\ y.shfds = s.shfds /\ into \in Kept \cup {-1}
    BY DEF CopyMade, Saving
  <1>4. /\ x \in States /\ x.fdt = y.fdt /\ x.cx = y.cx /\ x.shfds = s.shfds
        /\ Len(x.redirlist) = Len(s.redirlist) /\ DOMAIN x.redirlist = DOMAIN s.redirlist
        /\ 1 \in DOMAIN s.redirlist
        /\ \A k \in DOMAIN s.redirlist :
             /\ x.redirlist[k].snap = s.redirlist[k].snap
             /\ k # 1 => Saving(x, k) = Saving(s, k)
        /\ DOMAIN Saving(s, 1) = 1..n /\ n \in Nat
        /\ DOMAIN Saving(x, 1) = 1..(n + 1)
        /\ Saving(x, 1)[1] = r
        /\ \A i \in DOMAIN Saving(s, 1) : Saving(x, 1)[i + 1] = Saving(s, 1)[i]
    <2>1. LET z == WithSave(y, r)
         IN  /\ z \in States /\ z.fdt = y.fdt /\ z.cx = y.cx /\ z.shfds = y.shfds
             /\ Len(z.redirlist) = Len(y.redirlist) /\ DOMAIN z.redirlist = DOMAIN y.redirlist
             /\ 1 \in DOMAIN y.redirlist
             /\ \A k \in DOMAIN y.redirlist :
                  /\ z.redirlist[k].snap = y.redirlist[k].snap
                  /\ k # 1 => Saving(z, k) = Saving(y, k)
             /\ DOMAIN Saving(y, 1) = 1..Len(Saving(y, 1)) /\ Len(Saving(y, 1)) \in Nat
             /\ DOMAIN Saving(z, 1) = 1..(Len(Saving(y, 1)) + 1)
             /\ Saving(z, 1)[1] = r
             /\ \A i \in DOMAIN Saving(y, 1) : Saving(z, 1)[i + 1] = Saving(y, 1)[i]
      BY ONLY <1>1, PushSave
    <2> QED
      BY ONLY <1>3, <2>1
  <1> HIDE DEF x, n
  \* Each save of x is one of s, or the new one.
  <1>5. ASSUME NEW k \in DOMAIN s.redirlist, NEW i \in DOMAIN Saving(x, k)
        PROVE  \/ k = 1 /\ i = 1 /\ Saving(x, k)[i] = r
               \/ k = 1 /\ i # 1 /\ i - 1 \in DOMAIN Saving(s, k) /\ i \in Int
                  /\ Saving(x, k)[i] = Saving(s, k)[i - 1]
               \/ k # 1 /\ i \in DOMAIN Saving(s, k) /\ Saving(x, k)[i] = Saving(s, k)[i]
    <2>1. CASE k # 1
      BY <1>4, <2>1
    <2>2. CASE k = 1 /\ i = 1
      BY <1>4, <2>2
    <2>3. CASE k = 1 /\ i # 1
      <3>1. i \in 1..(n + 1)
        BY <1>4, <2>3
      <3>2. i - 1 \in 1..n /\ i \in Int /\ (i - 1) + 1 = i
        BY ONLY <1>4, <2>3, <3>1
      <3>3. Saving(x, 1)[(i - 1) + 1] = Saving(s, 1)[i - 1]
        BY <1>4, <3>2
      <3> QED
        BY <1>4, <2>3, <3>2, <3>3
    <2> QED
      BY <2>1, <2>2, <2>3
  <1>6. \A k \in DOMAIN s.redirlist : \A i \in DOMAIN Saving(x, k) :
          \/ k = 1 /\ i = 1 /\ Saving(x, k)[i] = r
          \/ \E j \in DOMAIN Saving(s, k) : Saving(x, k)[i] = Saving(s, k)[j]
    BY <1>5
  \* The copy is not where something is.
  <1>7. ASSUME into # -1
        PROVE  /\ \A o \in Owners : s.shfds[o] # into
               /\ \A k \in DOMAIN s.redirlist : \A j \in DOMAIN Saving(s, k) :
                    Saving(s, k)[j].into # into
    <2>1. s.fdt[into] = none
      BY <1>7 DEF CopyMade
    <2>2. \A o \in Owners : o # none
      BY DEF Simple, none
    <2>3. \A o \in Owners : s.shfds[o] # -1 => s.fdt[s.shfds[o]] = o
      BY DEF Sound, Owned
    <2>4. \A k \in DOMAIN s.redirlist : \A j \in DOMAIN Saving(s, k) :
            Saving(s, k)[j].into # -1 => s.fdt[Saving(s, k)[j].into] # none
      BY DEF Sound, Copied, CopyKept
    <2> QED
      BY <1>7, <2>1, <2>2, <2>3, <2>4
  <1>8. Owned(x)
    <2> SUFFICES ASSUME NEW o \in Owners, s.shfds[o] # -1
                 PROVE  y.fdt[s.shfds[o]] = o /\ s.shfds[o] \in y.cx
      BY <1>4 DEF Owned
    <2>1. s.fdt[s.shfds[o]] = o /\ s.shfds[o] \in s.cx
      BY DEF Sound, Owned
    <2>2. s.shfds[o] \in Fds
      BY <1>1, Fd DEF States
    <2>3. s.shfds[o] # into
      BY <1>7
    <2> QED
      BY <2>1, <2>2, <2>3 DEF CopyMade
  <1>9. Copied(x)
    <2>1. ASSUME NEW k \in DOMAIN s.redirlist, NEW j \in DOMAIN Saving(s, k),
                 NEW q, q = Saving(s, k)[j]
          PROVE  IF q.into = -1 THEN s.redirlist[k].snap[q.orig] = none
                 ELSE /\ y.fdt[q.into] = s.redirlist[k].snap[q.orig]
                      /\ s.redirlist[k].snap[q.orig] # none /\ q.into \in y.cx
                      /\ \A o \in Owners : s.shfds[o] # q.into
      <3>1. IF q.into = -1 THEN s.redirlist[k].snap[q.orig] = none
            ELSE /\ s.fdt[q.into] = s.redirlist[k].snap[q.orig]
                 /\ s.redirlist[k].snap[q.orig] # none /\ q.into \in s.cx
                 /\ \A o \in Owners : s.shfds[o] # q.into
        BY <2>1 DEF Sound, Copied, CopyKept
      <3>2. q.into # -1 => q.into \in Fds
        BY <1>1, <2>1, SavesOf, Fd
      <3>3. q.into # -1 => q.into # into
        BY <1>7, <2>1
      <3> QED
        BY <3>1, <3>2, <3>3 DEF CopyMade
    <2>2. IF into = -1 THEN s.redirlist[1].snap[fd] = none
          ELSE /\ y.fdt[into] = s.redirlist[1].snap[fd]
               /\ s.redirlist[1].snap[fd] # none /\ into \in y.cx
               /\ \A o \in Owners : s.shfds[o] # into
      BY <1>7 DEF CopyMade
    <2> SUFFICES ASSUME NEW k \in DOMAIN s.redirlist, NEW i \in DOMAIN Saving(x, k),
                        NEW q, q = Saving(x, k)[i]
                 PROVE  IF q.into = -1 THEN s.redirlist[k].snap[q.orig] = none
                        ELSE /\ y.fdt[q.into] = s.redirlist[k].snap[q.orig]
                             /\ s.redirlist[k].snap[q.orig] # none /\ q.into \in y.cx
                             /\ \A o \in Owners : s.shfds[o] # q.into
      BY <1>4 DEF Copied, CopyKept
    <2>3. CASE k = 1 /\ i = 1 /\ Saving(x, k)[i] = r
      BY <1>2, <2>2, <2>3
    <2>4. CASE \E j \in DOMAIN Saving(s, k) : Saving(x, k)[i] = Saving(s, k)[j]
      BY <2>1, <2>4
    <2> QED
      BY <1>6, <2>3, <2>4
  <1>10. Apart(x)
    <2> SUFFICES ASSUME NEW k \in DOMAIN s.redirlist, NEW l \in DOMAIN s.redirlist,
                        NEW i \in DOMAIN Saving(x, k), NEW j \in DOMAIN Saving(x, l),
                        NEW a, NEW b, a = Saving(x, k)[i], b = Saving(x, l)[j]
                 PROVE  /\ a.into = b.into /\ a.into # -1 => k = l /\ i = j
                        /\ k = l /\ a.orig = b.orig => i = j
      BY <1>4 DEF Apart
    <2>1. \A m \in DOMAIN Saving(s, 1) : Saving(s, 1)[m].orig # fd
      BY DEF Origs
    <2>2. ASSUME NEW u \in DOMAIN Saving(s, k), NEW v \in DOMAIN Saving(s, l),
                 a = Saving(s, k)[u], b = Saving(s, l)[v]
          PROVE  /\ a.into = b.into /\ a.into # -1 => k = l /\ u = v
                 /\ k = l /\ a.orig = b.orig => u = v
      BY <2>2 DEF Sound, Apart
    <2>3. CASE k = 1 /\ i = 1 /\ a = r
      <3>1. CASE l = 1 /\ j = 1 /\ b = r
        BY <2>3, <3>1
      <3>2. CASE l = 1 /\ j # 1 /\ j - 1 \in DOMAIN Saving(s, l) /\ b = Saving(s, l)[j - 1]
        <4>1. b.orig # fd /\ (into # -1 => b.into # into)
          BY <1>7, <2>1, <3>2
        <4> QED
          BY <1>2, <2>3, <3>2, <4>1
      <3>3. CASE l # 1 /\ j \in DOMAIN Saving(s, l) /\ b = Saving(s, l)[j]
        <4>1. into # -1 => b.into # into
          BY <1>7, <3>3
        <4> QED
          BY <1>2, <2>3, <3>3, <4>1
      <3> QED
        BY <1>5, <3>1, <3>2, <3>3
    <2>4. CASE l = 1 /\ j = 1 /\ b = r
      <3>1. CASE k = 1 /\ i = 1 /\ a = r
        BY <2>4, <3>1
      <3>2. CASE k = 1 /\ i # 1 /\ i - 1 \in DOMAIN Saving(s, k) /\ a = Saving(s, k)[i - 1]
        <4>1. a.orig # fd /\ (into # -1 => a.into # into)
          BY <1>7, <2>1, <3>2
        <4> QED
          BY <1>2, <2>4, <3>2, <4>1
      <3>3. CASE k # 1 /\ i \in DOMAIN Saving(s, k) /\ a = Saving(s, k)[i]
        <4>1. into # -1 => a.into # into
          BY <1>7, <3>3
        <4> QED
          BY <1>2, <2>4, <3>3, <4>1
      <3> QED
        BY <1>5, <3>1, <3>2, <3>3
    <2>5. ASSUME ~(k = 1 /\ i = 1), ~(l = 1 /\ j = 1)
          PROVE  /\ a.into = b.into /\ a.into # -1 => k = l /\ i = j
                 /\ k = l /\ a.orig = b.orig => i = j
      <3>1. CASE k = 1 /\ l = 1
        <4>1. /\ i - 1 \in DOMAIN Saving(s, k) /\ i \in Int /\ a = Saving(s, k)[i - 1]
              /\ j - 1 \in DOMAIN Saving(s, l) /\ j \in Int /\ b = Saving(s, l)[j - 1]
          BY <1>5, <2>5, <3>1
        <4>2. i - 1 = j - 1 => i = j
          BY ONLY <4>1
        <4> QED
          BY <2>2, <4>1, <4>2
      <3>2. CASE k = 1 /\ l # 1
        <4>1. /\ i - 1 \in DOMAIN Saving(s, k) /\ a = Saving(s, k)[i - 1]
              /\ j \in DOMAIN Saving(s, l) /\ b = Saving(s, l)[j]
          BY <1>5, <2>5, <3>2
        <4> QED
          BY <2>2, <3>2, <4>1
      <3>3. CASE k # 1 /\ l = 1
        <4>1. /\ i \in DOMAIN Saving(s, k) /\ a = Saving(s, k)[i]
              /\ j - 1 \in DOMAIN Saving(s, l) /\ b = Saving(s, l)[j - 1]
          BY <1>5, <2>5, <3>3
        <4> QED
          BY <2>2, <3>3, <4>1
      <3>4. CASE k # 1 /\ l # 1
        <4>1. /\ i \in DOMAIN Saving(s, k) /\ a = Saving(s, k)[i]
              /\ j \in DOMAIN Saving(s, l) /\ b = Saving(s, l)[j]
          BY <1>5, <2>5, <3>4
        <4> QED
          BY <2>2, <4>1
      <3> QED
        BY <3>1, <3>2, <3>3, <3>4
    <2>6. CASE k = 1 /\ i = 1
      BY <1>4, <2>3, <2>6
    <2>7. CASE l = 1 /\ j = 1
      BY <1>4, <2>4, <2>7
    <2> QED
      BY <2>5, <2>6, <2>7
  \* The saves of s are still there.
  <1>11. \A k \in DOMAIN s.redirlist : \A j \in DOMAIN Saving(s, k) :
           \E i \in DOMAIN Saving(x, k) : Saving(x, k)[i] = Saving(s, k)[j]
    <2> SUFFICES ASSUME NEW k \in DOMAIN s.redirlist, NEW j \in DOMAIN Saving(s, k)
                 PROVE  \E i \in DOMAIN Saving(x, k) : Saving(x, k)[i] = Saving(s, k)[j]
      OBVIOUS
    <2>1. CASE k # 1
      BY <1>4, <2>1
    <2>2. CASE k = 1
      <3>1. j \in 1..n
        BY <1>4, <2>2
      <3>2. j + 1 \in 1..(n + 1)
        BY ONLY <1>4, <3>1
      <3> QED
        BY <1>4, <2>2, <3>1, <3>2
    <2> QED
      BY <2>1, <2>2
  <1>12. 1 \in DOMAIN Saving(x, 1)
    <2>1. 1 \in 1..(n + 1)
      BY ONLY <1>4
    <2> QED
      BY <1>4, <2>1
  <1>13. Full(x)
    <2> SUFFICES ASSUME NEW g \in Fds \ UserFds, y.fdt[g] # none
                 PROVE  \/ \E o \in Owners : s.shfds[o] = g
                        \/ \E k \in DOMAIN s.redirlist : \E i \in DOMAIN Saving(x, k) :
                             Saving(x, k)[i].into = g
      BY <1>4 DEF Full
    <2>1. CASE g = into
      BY <1>2, <1>4, <1>12, <2>1
    <2>2. CASE g # into
      <3>1. s.fdt[g] # none
        BY <2>2 DEF CopyMade
      <3>2. \/ \E o \in Owners : s.shfds[o] = g
            \/ \E k \in DOMAIN s.redirlist : \E j \in DOMAIN Saving(s, k) :
                 Saving(s, k)[j].into = g
        BY <3>1 DEF Sound, Full
      <3> QED
        BY <1>11, <3>2
    <2> QED
      BY <2>1, <2>2
  <1>14. Origs(x, 1) = Origs(s, 1) \cup {fd}
    <2>1. \A g : g \in Origs(x, 1) => g \in Origs(s, 1) \cup {fd}
      BY <1>2, <1>4, <1>6 DEF Origs
    <2>2. \A g : g \in Origs(s, 1) => g \in Origs(x, 1)
      BY <1>4, <1>11 DEF Origs
    <2>3. fd \in Origs(x, 1)
      BY <1>2, <1>4, <1>12 DEF Origs
    <2> QED
      BY <2>1, <2>2, <2>3
  <1>15. Sound(x)
    BY <1>4, <1>8, <1>9, <1>10, <1>13 DEF Sound
  <1> QED
    BY <1>4, <1>14, <1>15 DEF x, r

\* From s to x, descriptor fd has been saved or was already, or is left alone.
SavedFor(s, x, fd, ok) ==
  /\ Sound(x) /\ Len(x.redirlist) = Len(s.redirlist) /\ x.shfds = s.shfds
  /\ x.redirlist[1].snap = s.redirlist[1].snap
  /\ \A g \in UserFds : x.fdt[g] = s.fdt[g]
  /\ Origs(s, 1) \subseteq Origs(x, 1)
  /\ ok \in BOOLEAN
  /\ ok => fd \in Origs(x, 1)

LEMMA SavedRight ==
  ASSUME Simple, NEW s, Sound(s), s.redirlist # <<>>, Begun(s), NEW fd \in UserFds
  PROVE  SavedFor(s, Saved(s, fd).s, fd, Saved(s, fd).ok)
  <1> DEFINE b == Based(s)
             x == IF IsOpen(b, fd) /\ Free(b, b.big) = {} THEN FindBig(b) ELSE b
             into == IF IsOpen(x, fd) THEN Min(Free(x, x.big)) ELSE -1
             y == IF into = -1 THEN x ELSE Set(x, into, x.fdt[fd], TRUE)
             v == Saved(s, fd)
  <1>1. s \in States /\ fd \in Fds
    BY Fd DEF Sound
  <1>2. v = IF fd \in Renamed(s) THEN [s |-> s, ok |-> TRUE]
            ELSE IF IsOpen(x, fd) /\ Free(x, x.big) = {} THEN [s |-> x, ok |-> FALSE]
            ELSE [s |-> WithSave(y, [orig |-> fd, into |-> into]), ok |-> TRUE]
    BY DEF Saved, WithSave
  <1>3. /\ b \in States /\ b.redirlist = s.redirlist /\ b.shfds = s.shfds
        /\ b.fdt = s.fdt /\ b.cx = s.cx /\ b.big \in Kept
    BY <1>1, BasedState
  <1> HIDE DEF b
  <1>4. /\ x \in States /\ x.redirlist = s.redirlist /\ x.shfds = s.shfds
        /\ x.fdt = s.fdt /\ x.cx = s.cx /\ x.big \in Kept
    BY <1>3, FindBigState
  <1> HIDE DEF x
  <1>5. CASE fd \in Renamed(s)
    <2>1. v.s = s /\ v.ok = TRUE
      BY <1>2, <1>5
    <2>2. fd \in Origs(s, 1)
      BY <1>5, RenamedOrigs
    <2>3. SavedFor(s, v.s, fd, v.ok)
      <3> HIDE DEF v
      <3> QED
        BY <2>1, <2>2 DEF SavedFor
    <2> QED
      BY <2>3
  <1>6. CASE fd \notin Renamed(s) /\ IsOpen(x, fd) /\ Free(x, x.big) = {}
    <2>1. v.s = x /\ v.ok = FALSE
      BY <1>2, <1>6
    <2>2. Touches(s, x, fd)
      BY <1>4 DEF Touches
    <2>3. Sound(x)
      BY <2>2, TouchSound
    <2>4. Origs(x, 1) = Origs(s, 1)
      BY <1>4 DEF Origs, Saving
    <2>5. SavedFor(s, v.s, fd, v.ok)
      <3> HIDE DEF v
      <3> QED
        BY <1>4, <2>1, <2>3, <2>4 DEF SavedFor
    <2> QED
      BY <2>5
  <1>7. CASE fd \notin Renamed(s) /\ ~(IsOpen(x, fd) /\ Free(x, x.big) = {})
    <2>1. v.s = WithSave(y, [orig |-> fd, into |-> into]) /\ v.ok = TRUE
      <3> HIDE DEF v, y, into
      <3> QED
        BY ONLY <1>2, <1>7
    <2>2. fd \notin Origs(s, 1)
      BY <1>7, RenamedOrigs
    <2>3. s.fdt[fd] = s.redirlist[1].snap[fd]
      BY <2>2 DEF Begun
    <2>4. CopyMade(s, y, fd, into)
      <3>1. CASE ~IsOpen(x, fd)
        <4>1. into = -1 /\ y = x /\ s.fdt[fd] = none
          BY <1>4, <3>1 DEF IsOpen
        <4> QED
          BY <1>4, <4>1 DEF CopyMade
      <3>2. CASE IsOpen(x, fd)
        <4>1. x.big \in Int /\ Free(x, x.big) # {}
          BY <1>4, <1>7, <3>2, Fd
        <4>2. into \in Fds /\ into >= x.big /\ x.fdt[into] = none
          BY <1>4, <3>2, <4>1, LowestFree
        <4>3. into \in Kept
          BY <1>4, <4>1, <4>2, Fd
        <4>4. into # -1
          BY <4>2, Fd
        <4>5. y = Set(x, into, x.fdt[fd], TRUE)
          BY <4>4
        <4> HIDE DEF y, into
        <4>6. s.fdt[fd] # none /\ x.fdt[fd] \in Files /\ TRUE \in BOOLEAN
          BY <1>1, <1>4, <3>2 DEF IsOpen, States
        <4>7. /\ y \in States /\ y.redirlist = x.redirlist /\ y.shfds = x.shfds
              /\ y.fdt[into] = x.fdt[fd] /\ into \in y.cx
              /\ \A g \in Fds \ {into} : y.fdt[g] = x.fdt[g] /\ (g \in x.cx => g \in y.cx)
          <5>1. PICK file \in Files : file = x.fdt[fd]
            BY <4>6
          <5>2. y = Set(x, into, file, TRUE)
            BY ONLY <4>5, <5>1
          <5>3. LET z == Set(x, into, file, TRUE)
                IN  /\ z \in States /\ z.redirlist = x.redirlist /\ z.shfds = x.shfds
                    /\ z.fdt[into] = file /\ (TRUE => into \in z.cx)
                    /\ \A g \in Fds \ {into} :
                         z.fdt[g] = x.fdt[g] /\ (g \in x.cx => g \in z.cx)
            BY ONLY <1>4, <4>2, <4>6, file \in Files, SetState
          <5> QED
            BY ONLY <5>1, <5>2, <5>3
        <4> QED
          BY <1>4, <4>2, <4>3, <4>4, <4>6, <4>7 DEF CopyMade
      <3> QED
        BY <3>1, <3>2
    <2>5. \A g \in UserFds : y.fdt[g] = s.fdt[g]
      <3>1. into \notin UserFds
        BY <2>4, Fd DEF CopyMade, Simple
      <3> QED
        BY <2>4, <3>1, Fd DEF CopyMade
    <2> HIDE DEF v, y, into
    <2>6. LET z == WithSave(y, [orig |-> fd, into |-> into])
          IN  /\ Sound(z) /\ z.fdt = y.fdt /\ z.shfds = s.shfds
              /\ Len(z.redirlist) = Len(s.redirlist)
              /\ z.redirlist[1].snap = s.redirlist[1].snap
              /\ Origs(z, 1) = Origs(s, 1) \cup {fd}
      BY <2>2, <2>3, <2>4, SaveSound
    <2>7. SavedFor(s, v.s, fd, v.ok)
      BY <2>1, <2>5, <2>6 DEF SavedFor
    <2> QED
      BY <2>7 DEF v
  <1> QED
    BY <1>5, <1>6, <1>7

\* The shell's own descriptors are nowhere near.
LEMMA NoRenumber ==
  ASSUME Simple, NEW s, Sound(s), NEW h, NEW fd \in UserFds
  PROVE  renumber(s, h, fd) = [s |-> s, held |-> h, ok |-> TRUE]
  <1>1. fd \notin {s.shfds[x] : x \in Owners}
    BY Fd DEF Sound, States, Simple
  <1> QED
    BY <1>1 DEF renumber

\* One redirection, whether it works or not.
LEMMA RedirectRight ==
  ASSUME Simple, RInv, NEW r \in Redirections, Redirect(r)
  PROVE  RInv' /\ Len(st'.redirlist) = Len(st.redirlist)
  <1>1. r.fd \in UserFds /\ Sound(st) /\ pc = "redir" /\ st \in States
    BY DEF RInv, Sound, Redirect, Redirections
  <1>2. PICK n \in {renumber(st, held, r.fd)} :
        \E v \in {IF n.ok /\ mode # "exec" /\ ~(r.op = "dup" /\ r.from = r.fd)
                  THEN Saved(n.s, r.fd) ELSE [s |-> n.s, ok |-> n.ok]} :
        \E x \in {IF r.op = "dup" /\ r.from = r.fd
                  THEN [s |-> [v.s EXCEPT !.cx = @ \ {r.fd}], ok |-> v.ok /\ IsOpen(v.s, r.fd)]
                  ELSE IF ~v.ok THEN v
                  ELSE openredirect([v.s EXCEPT !.fd0_redirected =
                                       IF r.fd = 0 THEN @ + 1 ELSE @],
                                    r, mode = "compound")} :
          /\ st' = x.s /\ held' = n.held
          /\ pc' = IF x.ok THEN pc ELSE "error"
    BY DEF Redirect
  <1>3. n.s = st /\ n.held = held /\ n.ok = TRUE
    BY <1>1, <1>2, NoRenumber
  <1>4. PICK v : /\ v = IF mode # "exec" /\ ~(r.op = "dup" /\ r.from = r.fd)
                        THEN Saved(st, r.fd) ELSE [s |-> st, ok |-> TRUE]
                 /\ \E x \in {IF r.op = "dup" /\ r.from = r.fd
                              THEN [s |-> [v.s EXCEPT !.cx = @ \ {r.fd}],
                                    ok |-> v.ok /\ IsOpen(v.s, r.fd)]
                              ELSE IF ~v.ok THEN v
                              ELSE openredirect([v.s EXCEPT !.fd0_redirected =
                                                   IF r.fd = 0 THEN @ + 1 ELSE @],
                                                r, mode = "compound")} :
                      /\ st' = x.s /\ held' = held
                      /\ pc' = IF x.ok THEN pc ELSE "error"
    BY <1>2, <1>3
  <1> DEFINE plus == [v.s EXCEPT !.fd0_redirected = IF r.fd = 0 THEN @ + 1 ELSE @]
             same == [v.s EXCEPT !.cx = @ \ {r.fd}]
  \* What was saved.
  <1>5. /\ Sound(v.s) /\ Len(v.s.redirlist) = Len(st.redirlist) /\ v.ok \in BOOLEAN
        /\ v.s.shfds = st.shfds
        /\ mode # "exec" => /\ v.s.redirlist[1].snap = st.redirlist[1].snap
                            /\ \A g \in UserFds : v.s.fdt[g] = st.fdt[g]
                            /\ Origs(st, 1) \subseteq Origs(v.s, 1)
                            /\ v.ok /\ ~(r.op = "dup" /\ r.from = r.fd) => r.fd \in Origs(v.s, 1)
    <2>1. CASE mode # "exec" /\ ~(r.op = "dup" /\ r.from = r.fd)
      <3>1. st.redirlist # <<>> /\ Begun(st)
        BY <1>1, <2>1 DEF RInv
      <3>2. SavedFor(st, Saved(st, r.fd).s, r.fd, Saved(st, r.fd).ok)
        BY <1>1, <3>1, SavedRight
      <3>3. v = Saved(st, r.fd)
        BY <1>4, <2>1
      <3>4. SavedFor(st, v.s, r.fd, v.ok)
        BY ONLY <3>2, <3>3
      <3> QED
        BY ONLY <3>4 DEF SavedFor
    <2>2. CASE ~(mode # "exec" /\ ~(r.op = "dup" /\ r.from = r.fd))
      <3>1. v = [s |-> st, ok |-> TRUE]
        BY ONLY <1>4, <2>2
      <3>2. v.s = st /\ v.ok = TRUE
        BY ONLY <3>1
      <3> QED
        BY ONLY <1>1, <2>2, <3>2
    <2> QED
      BY <2>1, <2>2
  <1>6. v.s \in States
    BY <1>5 DEF Sound
  <1>7. plus \in States /\ Touches(v.s, plus, r.fd)
    <2>1. PICK i \in Int : plus = [v.s EXCEPT !.fd0_redirected = i]
      <3>1. v.s.fd0_redirected \in Int
        BY <1>6 DEF States
      <3>2. CASE r.fd = 0
        <4>1. plus = [v.s EXCEPT !.fd0_redirected = v.s.fd0_redirected + 1]
          BY <3>2
        <4> HIDE DEF plus
        <4> QED
          BY <3>1, <4>1
      <3>3. CASE r.fd # 0
        <4>1. plus = [v.s EXCEPT !.fd0_redirected = v.s.fd0_redirected]
          BY <3>3
        <4> HIDE DEF plus
        <4> QED
          BY <3>1, <4>1
      <3> QED
        BY <3>2, <3>3
    <2> HIDE DEF plus
    <2> QED
      BY <1>6, <2>1 DEF Touches, States
  <1>8. Touches(v.s, same, r.fd)
    BY <1>6 DEF Touches, States
  <1>9. Touches(v.s, v.s, r.fd)
    BY <1>6 DEF Touches
  <1> HIDE DEF plus, same
  \* What was opened.
  <1>10. PICK x : /\ Touches(v.s, x.s, r.fd) /\ x.ok \in BOOLEAN
                  /\ x.ok /\ ~(r.op = "dup" /\ r.from = r.fd) => v.ok
                  /\ r.op = "dup" /\ r.from = r.fd => x.s.fdt = v.s.fdt
                  /\ st' = x.s /\ held' = held
                  /\ pc' = IF x.ok THEN pc ELSE "error"
    <2>1. PICK x : /\ x = IF r.op = "dup" /\ r.from = r.fd
                          THEN [s |-> same, ok |-> v.ok /\ IsOpen(v.s, r.fd)]
                          ELSE IF ~v.ok THEN v
                          ELSE openredirect(plus, r, mode = "compound")
                   /\ st' = x.s /\ held' = held /\ pc' = IF x.ok THEN pc ELSE "error"
      BY <1>4 DEF plus, same
    <2>2. CASE r.op = "dup" /\ r.from = r.fd
      <3>1. x = [s |-> same, ok |-> v.ok /\ IsOpen(v.s, r.fd)]
        BY ONLY <2>1, <2>2
      <3>2. x.s = same /\ x.ok \in BOOLEAN
        BY ONLY <1>5, <3>1 DEF IsOpen
      <3>3. same.fdt = v.s.fdt
        BY <1>6 DEF same, States
      <3> QED
        BY <1>8, <2>1, <2>2, <3>2, <3>3
    <2>3. CASE ~(r.op = "dup" /\ r.from = r.fd) /\ ~v.ok
      <3>1. x = v
        BY ONLY <2>1, <2>3
      <3> QED
        BY <1>5, <1>9, <2>1, <2>3, <3>1
    <2>4. CASE ~(r.op = "dup" /\ r.from = r.fd) /\ v.ok
      <3>1. x = openredirect(plus, r, mode = "compound")
        BY ONLY <2>1, <2>4
      <3>2. PICK keep \in BOOLEAN : keep = (mode = "compound")
        OBVIOUS
      <3>3. x = openredirect(plus, r, keep)
        BY ONLY <3>1, <3>2
      <3>4. Touches(plus, x.s, r.fd) /\ x.ok \in BOOLEAN
        BY ONLY <1>7, <3>2, <3>3, r \in Redirections, OpenTouches
      <3>5. Touches(v.s, x.s, r.fd)
        BY ONLY <1>7, <3>4, TouchesMore
      <3> QED
        BY <2>1, <2>4, <3>4, <3>5
    <2> QED
      BY <2>2, <2>3, <2>4
  <1>11. Sound(x.s)
    BY <1>1, <1>5, <1>10, TouchSound
  <1>12. x.s.redirlist = v.s.redirlist /\ x.s.shfds = v.s.shfds
    BY <1>10 DEF Touches
  <1>14. ASSUME pc' = "redir", mode # "exec" PROVE Begun(st)'
    <2>1. x.ok = TRUE
      BY <1>10, <1>14
    <2>2. Origs(x.s, 1) = Origs(v.s, 1) /\ x.s.redirlist[1].snap = st.redirlist[1].snap
      BY <1>5, <1>12, <1>14 DEF Origs, Saving
    <2>3. Begun(st)
      BY <1>1, <1>14 DEF RInv
    <2>4. ASSUME NEW g \in UserFds \ Origs(x.s, 1)
          PROVE  x.s.fdt[g] = x.s.redirlist[1].snap[g]
      <3>1. st.fdt[g] = st.redirlist[1].snap[g]
        BY <1>5, <1>14, <2>2, <2>3 DEF Begun
      <3>2. v.s.fdt[g] = st.fdt[g]
        BY <1>5, <1>14
      <3>3. x.s.fdt[g] = v.s.fdt[g]
        <4>1. CASE r.op = "dup" /\ r.from = r.fd
          BY <1>10, <4>1
        <4>2. CASE ~(r.op = "dup" /\ r.from = r.fd)
          <5>1. r.fd \in Origs(v.s, 1)
            BY <1>5, <1>10, <1>14, <2>1, <4>2
          <5>2. g # r.fd
            BY <2>2, <5>1
          <5> QED
            BY <1>10, <5>2, Fd DEF Touches
        <4> QED
          BY <4>1, <4>2
      <3> QED
        BY <2>2, <3>1, <3>2, <3>3
    <2> QED
      BY <1>10, <2>4 DEF Begun
  <1>15. Len(st'.redirlist) = Len(st.redirlist)
    BY <1>5, <1>10, <1>12
  <1>16. mode' = mode /\ pc' # "idle" /\ (mode # "exec" => st'.redirlist # <<>>)
    <2>1. mode # "exec" => Len(st.redirlist) # 0
      BY <1>1 DEF RInv, States
    <2>2. mode # "exec" => st'.redirlist # <<>>
      BY <1>15, <2>1
    <2>3. mode' = mode
      BY DEF Redirect
    <2> QED
      BY <1>1, <1>10, <2>2, <2>3
  <1> QED
    BY <1>5, <1>10, <1>11, <1>12, <1>14, <1>15, <1>16 DEF RInv

-----------------------------------------------------------------------------
(* Commands begin.                                                         *)

\* A command for which nothing is saved yet goes on top.
LEMMA PushScope ==
  ASSUME NEW s, Sound(s), NEW x,
         x = [s EXCEPT !.redirlist = <<[renamed |-> <<>>, snap |-> s.fdt]>> \o @]
  PROVE  /\ Sound(x) /\ x.fdt = s.fdt /\ x.shfds = s.shfds
         /\ Len(x.redirlist) = Len(s.redirlist) + 1 /\ Len(s.redirlist) \in Nat
         /\ x.redirlist # <<>> /\ x.redirlist[1].snap = s.fdt
  <1> DEFINE sc == [renamed |-> <<>>, snap |-> s.fdt]
             q == s.redirlist
             p == <<sc>> \o q
             n == Len(q)
  <1>1. s \in States /\ q \in Seq(Scopes) /\ s.fdt \in [Fds -> Files] /\ x = [s EXCEPT !.redirlist = p]
    BY DEF Sound, States
  <1>2. sc \in Scopes /\ sc.renamed = <<>> /\ sc.snap = s.fdt
    BY <1>1 DEF Scopes
  <1>10. q = s.redirlist
    OBVIOUS
  <1> HIDE DEF sc, q
  <1>3. /\ p \in Seq(Scopes) /\ Len(p) = n + 1 /\ n \in Nat /\ p[1] = sc
        /\ DOMAIN p = 1..(n + 1) /\ DOMAIN q = 1..n
        /\ \A k \in 1..n : p[k + 1] = q[k]
    BY ONLY <1>1, <1>2
  <1>11. p # <<>>
    <2>1. 1 \in DOMAIN p
      BY ONLY <1>3
    <2> QED
      BY <2>1
  <1> HIDE DEF p, n
  <1>4. /\ x \in States /\ x.redirlist = p /\ x.fdt = s.fdt /\ x.cx = s.cx /\ x.shfds = s.shfds
    BY <1>1, <1>3 DEF States
  <1>5. /\ DOMAIN Saving(x, 1) = {}
        /\ \A k \in 1..n : Saving(x, k + 1) = Saving(s, k)
                           /\ x.redirlist[k + 1].snap = s.redirlist[k].snap
    <2>1. Saving(x, 1) = <<>>
      BY <1>2, <1>3, <1>4 DEF Saving
    <2>2. DOMAIN Saving(x, 1) = {}
      BY ONLY <2>1
    <2>3. ASSUME NEW k \in 1..n PROVE x.redirlist[k + 1] = s.redirlist[k]
      BY ONLY <1>3, <1>4, <1>10, k \in 1..n
    <2> QED
      BY <2>2, <2>3 DEF Saving
  <1>6. ASSUME NEW k \in DOMAIN x.redirlist, NEW i \in DOMAIN Saving(x, k)
        PROVE  /\ k - 1 \in DOMAIN s.redirlist /\ k \in Int
               /\ Saving(x, k) = Saving(s, k - 1)
               /\ x.redirlist[k].snap = s.redirlist[k - 1].snap
    <2>1. k \in 1..(n + 1) /\ k # 1
      BY <1>3, <1>4, <1>5
    <2>2. k - 1 \in 1..n /\ k \in Int /\ (k - 1) + 1 = k
      BY ONLY <1>3, <2>1
    <2> QED
      BY <1>3, <1>5, <1>10, <2>2
  <1>7. Owned(x) /\ Copied(x)
    <2>1. Owned(x)
      BY <1>4 DEF Sound, Owned
    <2>2. Copied(x)
      <3> SUFFICES ASSUME NEW k \in DOMAIN x.redirlist, NEW i \in DOMAIN Saving(x, k)
                   PROVE  CopyKept(x, x.redirlist[k].snap, Saving(x, k)[i])
        BY DEF Copied
      <3>1. /\ k - 1 \in DOMAIN s.redirlist /\ Saving(x, k) = Saving(s, k - 1)
            /\ x.redirlist[k].snap = s.redirlist[k - 1].snap
        BY <1>6
      <3>2. PICK m \in DOMAIN s.redirlist : m = k - 1
        BY ONLY <3>1
      <3>3. i \in DOMAIN Saving(s, m)
        BY ONLY <3>1, <3>2, i \in DOMAIN Saving(x, k)
      <3>4. CopyKept(s, s.redirlist[m].snap, Saving(s, m)[i])
        BY <3>3 DEF Sound, Copied
      <3>5. CopyKept(x, s.redirlist[m].snap, Saving(s, m)[i])
        BY <1>4, <3>4 DEF CopyKept
      <3> QED
        BY ONLY <3>1, <3>2, <3>5
    <2> QED
      BY <2>1, <2>2
  <1>8. Apart(x)
    <2> SUFFICES ASSUME NEW k \in DOMAIN x.redirlist, NEW l \in DOMAIN x.redirlist,
                        NEW i \in DOMAIN Saving(x, k), NEW j \in DOMAIN Saving(x, l)
                 PROVE  /\ Saving(x, k)[i].into = Saving(x, l)[j].into /\ Saving(x, k)[i].into # -1
                             => k = l /\ i = j
                        /\ k = l /\ Saving(x, k)[i].orig = Saving(x, l)[j].orig => i = j
      BY DEF Apart
    <2>1. /\ k - 1 \in DOMAIN s.redirlist /\ k \in Int /\ Saving(x, k) = Saving(s, k - 1)
          /\ l - 1 \in DOMAIN s.redirlist /\ l \in Int /\ Saving(x, l) = Saving(s, l - 1)
      BY <1>6
    <2>2. k - 1 = l - 1 <=> k = l
      BY ONLY <2>1
    <2>3. /\ Saving(s, k - 1)[i].into = Saving(s, l - 1)[j].into /\ Saving(s, k - 1)[i].into # -1
               => k - 1 = l - 1 /\ i = j
          /\ k - 1 = l - 1 /\ Saving(s, k - 1)[i].orig = Saving(s, l - 1)[j].orig => i = j
      BY <2>1 DEF Sound, Apart
    <2> QED
      BY ONLY <2>1, <2>2, <2>3
  <1>9. Full(x)
    <2> SUFFICES ASSUME NEW g \in Fds \ UserFds, x.fdt[g] # none
                 PROVE  \/ \E o \in Owners : x.shfds[o] = g
                        \/ \E k \in DOMAIN x.redirlist : \E i \in DOMAIN Saving(x, k) :
                             Saving(x, k)[i].into = g
      BY DEF Full
    <2>1. CASE \E o \in Owners : s.shfds[o] = g
      BY <1>4, <2>1
    <2>2. ASSUME NEW k \in DOMAIN s.redirlist, NEW i \in DOMAIN Saving(s, k),
                 Saving(s, k)[i].into = g
          PROVE  \E l \in DOMAIN x.redirlist : \E j \in DOMAIN Saving(x, l) :
                   Saving(x, l)[j].into = g
      <3>1. k \in 1..n
        BY <1>3, <1>10
      <3>2. k + 1 \in 1..(n + 1)
        BY ONLY <1>3, <3>1
      <3>3. k + 1 \in DOMAIN x.redirlist /\ Saving(x, k + 1) = Saving(s, k)
        BY <1>3, <1>4, <1>5, <3>1, <3>2
      <3> QED
        BY <2>2, <3>3
    <2>3. \/ \E o \in Owners : s.shfds[o] = g
          \/ \E k \in DOMAIN s.redirlist : \E i \in DOMAIN Saving(s, k) :
               Saving(s, k)[i].into = g
      BY <1>4 DEF Sound, Full
    <2> QED
      BY <2>1, <2>2, <2>3
  <1> QED
    BY <1>2, <1>3, <1>4, <1>7, <1>8, <1>9, <1>10, <1>11 DEF Sound, n

LEMMA BeginRight ==
  ASSUME RInv, NEW m \in {"builtin", "compound", "exec"}, Begin(m)
  PROVE  RInv' /\ Len(st'.redirlist) >= Len(st.redirlist)
  <1>1. Sound(st) /\ held' = held /\ held = st.shfds /\ mode' = m /\ pc' = "redir"
        /\ Len(st.redirlist) <= MaxScopes
    BY DEF RInv, Begin
  <1>2. CASE m = "exec"
    <2>1. st' = st
      BY <1>2 DEF Begin
    <2>2. Len(st.redirlist) \in Nat
      BY <1>1 DEF Sound, States
    <2> QED
      BY <1>1, <1>2, <2>1, <2>2 DEF RInv
  <1>3. CASE m # "exec"
    <2>1. /\ Len(st.redirlist) < MaxScopes
          /\ st' = [st EXCEPT !.redirlist = <<[renamed |-> <<>>, snap |-> st.fdt]>> \o @]
      BY <1>3 DEF Begin
    <2>2. PICK x : x = st'
      OBVIOUS
    <2>3. /\ Sound(x) /\ x.fdt = st.fdt /\ x.shfds = st.shfds
          /\ Len(x.redirlist) = Len(st.redirlist) + 1 /\ Len(st.redirlist) \in Nat
          /\ x.redirlist # <<>> /\ x.redirlist[1].snap = st.fdt
      BY <1>1, <2>1, <2>2, PushScope
    <2>4. Begun(x)
      BY <2>3 DEF Begun
    <2>5. Len(x.redirlist) <= MaxScopes /\ Len(x.redirlist) >= Len(st.redirlist)
      BY <2>1, <2>3
    <2> QED
      BY <1>1, <1>3, <2>2, <2>3, <2>4, <2>5 DEF RInv
  <1> QED
    BY <1>2, <1>3

-----------------------------------------------------------------------------
(* The shell's own descriptors.                                            *)

\* The shell takes a descriptor that is free, and records it.
LEMMA TakeSound ==
  ASSUME Simple, NEW s, Sound(s), NEW o \in Owners, s.shfds[o] = -1,
         NEW x \in States, NEW t \in Kept, s.fdt[t] = none,
         x.redirlist = s.redirlist, x.shfds = [s.shfds EXCEPT ![o] = t],
         x.fdt[t] = o, t \in x.cx,
         \A g \in Fds \ {t} : x.fdt[g] = s.fdt[g] /\ (g \in s.cx /\ s.fdt[g] # none => g \in x.cx)
  PROVE  Sound(x)
  <1>1. s \in States /\ s.shfds \in [Owners -> Kept \cup {-1}] /\ t \in Fds /\ t # -1
    BY Fd DEF Sound, States
  <1>2. \A k : Saving(x, k) = Saving(s, k)
    BY DEF Saving
  <1>3. \A p \in Owners : p = o /\ o # none
    BY DEF Simple, none
  <1>4. x.shfds[o] = t
    BY <1>1
  <1>5. Owned(x)
    BY <1>3, <1>4 DEF Owned
  <1>6. Copied(x)
    <2> SUFFICES ASSUME NEW k \in DOMAIN s.redirlist, NEW i \in DOMAIN Saving(s, k),
                        NEW r, r = Saving(s, k)[i]
                 PROVE  IF r.into = -1 THEN s.redirlist[k].snap[r.orig] = none
                        ELSE /\ x.fdt[r.into] = s.redirlist[k].snap[r.orig]
                             /\ s.redirlist[k].snap[r.orig] # none /\ r.into \in x.cx
                             /\ \A p \in Owners : x.shfds[p] # r.into
      BY <1>2 DEF Copied, CopyKept
    <2>1. IF r.into = -1 THEN s.redirlist[k].snap[r.orig] = none
          ELSE /\ s.fdt[r.into] = s.redirlist[k].snap[r.orig]
               /\ s.redirlist[k].snap[r.orig] # none /\ r.into \in s.cx
      BY DEF Sound, Copied, CopyKept
    <2>2. r.into # -1 => r.into \in Fds /\ r.into # t
      BY <1>1, <2>1, SavesOf, Fd
    <2> QED
      BY <1>3, <1>4, <2>1, <2>2
  <1>7. Apart(x)
    BY <1>2 DEF Sound, Apart
  <1>8. Full(x)
    <2> SUFFICES ASSUME NEW g \in Fds \ UserFds, x.fdt[g] # none
                 PROVE  \/ \E p \in Owners : x.shfds[p] = g
                        \/ \E k \in DOMAIN s.redirlist : \E i \in DOMAIN Saving(s, k) :
                             Saving(s, k)[i].into = g
      BY <1>2 DEF Full
    <2>1. CASE g = t
      BY <1>4, <2>1
    <2>2. CASE g # t
      <3>1. s.fdt[g] # none
        BY <2>2
      <3>2. \A p \in Owners : s.shfds[p] # g
        BY <1>1, <1>3, Fd
      <3> QED
        BY <3>1, <3>2 DEF Sound, Full
    <2> QED
      BY <2>1, <2>2
  <1> QED
    BY <1>5, <1>6, <1>7, <1>8 DEF Sound

\* Opening a file and closing it again leaves what is in use alone.
LEMMA OpenedClosed ==
  ASSUME Simple, NEW s, Sound(s), NEW x \in States, NEW f \in Fds, s.fdt[f] = none,
         x.redirlist = s.redirlist, x.shfds = s.shfds, x.fdt = s.fdt,
         \A g \in Fds \ {f} : g \in s.cx => g \in x.cx
  PROVE  Sound(x)
  <1>1. s \in States /\ s.shfds \in [Owners -> Kept \cup {-1}]
    BY DEF Sound, States
  <1>2. \A k : Saving(x, k) = Saving(s, k)
    BY DEF Saving
  <1>3. \A o \in Owners : o # none
    BY DEF Simple, none
  <1>4. Owned(x)
    <2> SUFFICES ASSUME NEW o \in Owners, s.shfds[o] # -1
                 PROVE  s.fdt[s.shfds[o]] = o /\ s.shfds[o] \in x.cx
      BY DEF Owned
    <2>1. s.fdt[s.shfds[o]] = o /\ s.shfds[o] \in s.cx /\ s.shfds[o] \in Fds
      BY <1>1, Fd DEF Sound, Owned
    <2> QED
      BY <1>3, <2>1
  <1>5. Copied(x)
    <2> SUFFICES ASSUME NEW k \in DOMAIN s.redirlist, NEW i \in DOMAIN Saving(s, k),
                        NEW r, r = Saving(s, k)[i], r.into # -1
                 PROVE  r.into \in x.cx
      BY <1>2 DEF Copied, CopyKept, Sound
    <2>1. r.into \in s.cx /\ s.fdt[r.into] # none
      BY DEF Sound, Copied, CopyKept
    <2>2. r.into \in Fds
      BY <1>1, SavesOf, Fd
    <2> QED
      BY <2>1, <2>2
  <1>6. Apart(x) /\ Full(x)
    BY <1>2 DEF Sound, Apart, Full
  <1> QED
    BY <1>4, <1>5, <1>6 DEF Sound

LEMMA AcquireRight ==
  ASSUME Simple, RInv, NEW o \in Owners, Acquire(o)
  PROVE  RInv' /\ st'.redirlist = st.redirlist
  <1> DEFINE f == Min(Free(st, 0))
             a == Set(st, f, o, FALSE)
             b == Based(a)
             again == FindBig(b)
             t(x) == Min(Free(x, x.big))
             at(x) == [s |-> Set(Moved(x, f, t(x), TRUE), t(x), x.fdt[f], TRUE), fd |-> t(x)]
             u == to_upper_fd(a, f)
  <1>1. /\ Sound(st) /\ st \in States /\ held = st.shfds /\ Len(st.redirlist) <= MaxScopes
        /\ pc = "idle" /\ mode = "exec" /\ st.shfds[o] = -1 /\ Free(st, 0) # {}
        /\ mode' = mode
    BY DEF RInv, Acquire, Sound
  <1>2. f \in Fds /\ st.fdt[f] = none /\ o \in Files /\ FALSE \in BOOLEAN /\ o # none /\ o = "script"
    <2>1. 0 \in Int
      OBVIOUS
    <2>2. f \in Fds /\ st.fdt[f] = none
      BY <1>1, <2>1, LowestFree
    <2> HIDE DEF f
    <2> QED
      BY <2>2 DEF Files, Simple, none
  <1>3. u = IF Free(b, b.big) # {} THEN at(b)
            ELSE IF again.big > LowFd /\ Free(again, again.big) # {} THEN at(again)
            ELSE [s |-> Set(again, f, again.fdt[f], TRUE), fd |-> f]
    BY DEF to_upper_fd
  <1>4. IF u.fd = f
        THEN /\ st' = Close(u.s, u.fd) /\ held' = held /\ pc' = "error"
        ELSE /\ st' = [u.s EXCEPT !.shfds[o] = u.fd]
             /\ held' = [held EXCEPT ![o] = u.fd] /\ pc' = pc
    BY <1>2 DEF Acquire
  <1> HIDE DEF f, u
  <1>5. /\ a \in States /\ a.redirlist = st.redirlist /\ a.shfds = st.shfds /\ a.fdt[f] = o
        /\ \A g \in Fds \ {f} : a.fdt[g] = st.fdt[g] /\ (g \in st.cx => g \in a.cx)
    BY <1>1, <1>2, SetState
  <1> HIDE DEF a
  <1>6. /\ b \in States /\ b.redirlist = a.redirlist /\ b.shfds = a.shfds /\ b.fdt = a.fdt
        /\ b.cx = a.cx /\ b.big \in Kept
    BY <1>5, BasedState
  <1> HIDE DEF b
  <1>7. /\ again \in States /\ again.redirlist = a.redirlist /\ again.shfds = a.shfds
        /\ again.fdt = a.fdt /\ again.cx = a.cx /\ again.big \in Kept
    BY <1>6, FindBigState
  <1> HIDE DEF again
  \* It has been moved.
  <1>8. ASSUME NEW x \in States, x.redirlist = a.redirlist, x.shfds = a.shfds, x.fdt = a.fdt,
               x.cx = a.cx, x.big \in Kept, Free(x, x.big) # {}, u = at(x)
        PROVE  RInv' /\ st'.redirlist = st.redirlist
    <2> DEFINE n == t(x)
               m == Moved(x, f, n, TRUE)
               z == Set(m, n, o, TRUE)
    <2>1. n \in Fds /\ n >= x.big /\ x.fdt[n] = none
      <3>1. x.big \in Int
        BY <1>8, Fd
      <3> QED
        BY <1>8, <3>1, LowestFree
    <2>2. n \in Kept
      BY <1>8, <2>1, Fd
    <2>3. n # f
      BY <1>2, <1>5, <1>8, <2>1
    <2>4. st.fdt[n] = none
      BY <1>5, <1>8, <2>1, <2>3
    <2>5. u.s = z /\ u.fd = n
      BY <1>5, <1>8
    <2> HIDE DEF n, t
    <2>6. /\ m \in States /\ m.redirlist = x.redirlist /\ m.shfds = x.shfds /\ m.fdt[f] = none
          /\ \A g \in Fds \ {n, f} : m.fdt[g] = x.fdt[g] /\ (g \in x.cx => g \in m.cx)
      <3>1. TRUE \in BOOLEAN
        OBVIOUS
      <3> QED
        BY ONLY <1>2, <1>8, <2>1, <2>3, <3>1, MoveState
    <2> HIDE DEF m
    <2>7. /\ z \in States /\ z.redirlist = m.redirlist /\ z.shfds = m.shfds /\ z.fdt[n] = o
          /\ n \in z.cx
          /\ \A g \in Fds \ {n} : z.fdt[g] = m.fdt[g] /\ (g \in m.cx => g \in z.cx)
      <3>1. TRUE \in BOOLEAN
        OBVIOUS
      <3>2. PICK file \in Files : file = o
        BY <1>2
      <3>3. LET y == Set(m, n, file, TRUE)
            IN  /\ y \in States /\ y.redirlist = m.redirlist /\ y.shfds = m.shfds
                /\ y.fdt[n] = file /\ (TRUE => n \in y.cx)
                /\ \A g \in Fds \ {n} : y.fdt[g] = m.fdt[g] /\ (g \in m.cx => g \in y.cx)
        BY ONLY <2>1, <2>6, <3>1, file \in Files, SetState
      <3>4. z = Set(m, n, file, TRUE)
        BY ONLY <3>2
      <3> QED
        BY ONLY <3>2, <3>3, <3>4
    <2> HIDE DEF z
    <2>8. st' = [z EXCEPT !.shfds[o] = n] /\ held' = [held EXCEPT ![o] = n] /\ pc' = pc
      BY <1>4, <2>3, <2>5
    <2>9. PICK y : y = [z EXCEPT !.shfds[o] = n]
      OBVIOUS
    <2>10. /\ y \in States /\ y.redirlist = z.redirlist /\ y.shfds = [z.shfds EXCEPT ![o] = n]
           /\ y.fdt = z.fdt /\ y.cx = z.cx
      BY <2>2, <2>7, <2>9 DEF States
    <2>11. ASSUME NEW g \in Fds \ {n}
           PROVE  y.fdt[g] = st.fdt[g] /\ (g \in st.cx /\ st.fdt[g] # none => g \in y.cx)
      <3>1. CASE g = f
        BY <1>2, <2>6, <2>7, <2>10, <3>1
      <3>2. CASE g # f
        BY <1>5, <1>8, <2>6, <2>7, <2>10, <3>2
      <3> QED
        BY <3>1, <3>2
    <2>12. /\ y.redirlist = st.redirlist /\ y.shfds = [st.shfds EXCEPT ![o] = n]
           /\ y.fdt[n] = o /\ n \in y.cx
      BY <1>5, <1>8, <2>6, <2>7, <2>10
    <2>13. Sound(y)
      BY <1>1, <2>2, <2>4, <2>10, <2>11, <2>12, TakeSound
    <2> QED
      BY <1>1, <2>8, <2>9, <2>12, <2>13 DEF RInv
  \* There is no room, and it is closed.
  <1>9. ASSUME u = [s |-> Set(again, f, again.fdt[f], TRUE), fd |-> f]
        PROVE  RInv' /\ st'.redirlist = st.redirlist
    <2> DEFINE w == Set(again, f, o, TRUE)
               z == Close(w, f)
    <2>1. u.s = w /\ u.fd = f
      BY <1>5, <1>7, <1>9
    <2>2. st' = z /\ held' = held /\ pc' = "error"
      BY <1>4, <2>1
    <2>3. /\ w \in States /\ w.redirlist = again.redirlist /\ w.shfds = again.shfds
          /\ \A g \in Fds \ {f} : w.fdt[g] = again.fdt[g] /\ (g \in again.cx => g \in w.cx)
      <3>1. TRUE \in BOOLEAN
        OBVIOUS
      <3> QED
        BY ONLY <1>2, <1>7, <3>1, SetState
    <2> HIDE DEF w
    <2>4. /\ z \in States /\ z.redirlist = w.redirlist /\ z.shfds = w.shfds /\ z.fdt[f] = none
          /\ \A g \in Fds \ {f} : z.fdt[g] = w.fdt[g] /\ (g \in w.cx => g \in z.cx)
      BY <1>2, <2>3, CloseState
    <2> HIDE DEF z
    <2>5. z.redirlist = st.redirlist /\ z.shfds = st.shfds
      BY <1>5, <1>7, <2>3, <2>4
    <2>6. \A g \in Fds \ {f} : z.fdt[g] = st.fdt[g] /\ (g \in st.cx => g \in z.cx)
      BY <1>5, <1>7, <2>3, <2>4
    <2>7. z.fdt = st.fdt
      <3>1. \A g \in Fds : z.fdt[g] = st.fdt[g]
        BY <1>2, <2>4, <2>6
      <3>2. z.fdt \in [Fds -> Files] /\ st.fdt \in [Fds -> Files]
        BY <1>1, <2>4 DEF States
      <3> QED
        BY ONLY <3>1, <3>2
    <2>8. Sound(z)
      BY <1>1, <1>2, <2>4, <2>5, <2>6, <2>7, OpenedClosed
    <2> QED
      BY <1>1, <2>2, <2>5, <2>8 DEF RInv
  <1>10. CASE Free(b, b.big) # {}
    <2>1. u = at(b)
      BY ONLY <1>3, <1>10
    <2> QED
      BY <1>6, <1>8, <1>10, <2>1
  <1>11. CASE Free(b, b.big) = {} /\ again.big > LowFd /\ Free(again, again.big) # {}
    <2>1. u = at(again)
      BY ONLY <1>3, <1>11
    <2> QED
      BY <1>7, <1>8, <1>11, <2>1
  <1>12. CASE Free(b, b.big) = {} /\ ~(again.big > LowFd /\ Free(again, again.big) # {})
    <2>1. u = [s |-> Set(again, f, again.fdt[f], TRUE), fd |-> f]
      BY ONLY <1>3, <1>12
    <2> QED
      BY <1>9, <2>1
  <1> QED
    BY <1>10, <1>11, <1>12

\* sh_close: no copy is where the shell's descriptor was.
LEMMA ReleaseRight ==
  ASSUME Simple, RInv, NEW o \in Owners, Release(o)
  PROVE  RInv' /\ st'.redirlist = st.redirlist
  <1> DEFINE t == st.shfds[o]
             c == Close(st, t)
             sh == [x \in Owners |-> IF st.shfds[x] = t THEN -1 ELSE st.shfds[x]]
             y == [c EXCEPT !.shfds = sh]
  <1>1. /\ Sound(st) /\ st \in States /\ held = st.shfds /\ Len(st.redirlist) <= MaxScopes
        /\ pc = "idle" /\ mode = "exec" /\ pc' = pc /\ mode' = mode
        /\ t # -1 /\ held' = [held EXCEPT ![o] = -1]
        /\ st.shfds \in [Owners -> Kept \cup {-1}]
    BY DEF RInv, Release, Sound, States
  <1>2. \A p \in Owners : p = o
    BY DEF Simple
  <1>3. st' = y
    BY <1>1 DEF Release
  <1>4. t \in Kept /\ t \in Fds
    BY <1>1, Fd
  <1> HIDE DEF t
  <1>5. /\ c \in States /\ c.redirlist = st.redirlist /\ c.shfds = st.shfds /\ c.fdt[t] = none
        /\ \A g \in Fds \ {t} : c.fdt[g] = st.fdt[g] /\ (g \in st.cx => g \in c.cx)
    BY <1>1, <1>4, CloseState
  <1>6. sh \in [Owners -> Kept \cup {-1}] /\ sh[o] = -1 /\ sh = [st.shfds EXCEPT ![o] = -1]
    BY <1>1, <1>2 DEF t
  <1> HIDE DEF c, sh
  <1>7. /\ y \in States /\ y.redirlist = st.redirlist /\ y.shfds = sh /\ y.fdt = c.fdt
        /\ y.cx = c.cx
    BY <1>5, <1>6 DEF States
  <1> HIDE DEF y
  <1>8. \A k : Saving(y, k) = Saving(st, k)
    BY <1>7 DEF Saving
  <1>9. Owned(y)
    BY <1>2, <1>6, <1>7 DEF Owned
  <1>10. ASSUME NEW k \in DOMAIN st.redirlist, NEW i \in DOMAIN Saving(st, k)
         PROVE  Saving(st, k)[i].into # t
    <2>1. CopyKept(st, st.redirlist[k].snap, Saving(st, k)[i])
      BY <1>1 DEF Sound, Copied
    <2> QED
      BY <1>4, <2>1, Fd DEF CopyKept, t
  <1>11. Copied(y)
    <2> SUFFICES ASSUME NEW k \in DOMAIN st.redirlist, NEW i \in DOMAIN Saving(st, k)
                 PROVE  CopyKept(y, st.redirlist[k].snap, Saving(st, k)[i])
      BY <1>7, <1>8 DEF Copied
    <2> DEFINE r == Saving(st, k)[i]
    <2>1. CopyKept(st, st.redirlist[k].snap, r)
      BY <1>1 DEF Sound, Copied
    <2>2. r.into # t /\ (r.into # -1 => r.into \in Fds)
      BY <1>1, <1>10, SavesOf, Fd
    <2> HIDE DEF r
    <2>3. \A p \in Owners : r.into # -1 => y.shfds[p] # r.into
      BY <1>2, <1>6, <1>7
    <2> QED
      BY <1>5, <1>7, <2>1, <2>2, <2>3 DEF CopyKept, r
  <1>12. Apart(y)
    BY <1>1, <1>7, <1>8 DEF Sound, Apart
  <1>13. Full(y)
    <2> SUFFICES ASSUME NEW g \in Fds \ UserFds, y.fdt[g] # none
                 PROVE  \E k \in DOMAIN st.redirlist : \E i \in DOMAIN Saving(st, k) :
                          Saving(st, k)[i].into = g
      BY <1>7, <1>8 DEF Full
    <2>1. g # t
      BY <1>5, <1>7
    <2>2. st.fdt[g] # none
      BY <1>5, <1>7, <2>1
    <2>3. \A p \in Owners : st.shfds[p] # g
      BY <1>2, <2>1 DEF t
    <2> QED
      BY <1>1, <2>2, <2>3 DEF Sound, Full
  <1>14. Sound(y)
    BY <1>7, <1>9, <1>11, <1>12, <1>13 DEF Sound
  <1>15. held' = y.shfds
    BY <1>1, <1>6, <1>7
  <1> QED
    BY <1>1, <1>3, <1>7, <1>14, <1>15 DEF RInv

-----------------------------------------------------------------------------
(* Commands end: what popredir puts back.                                  *)

\* What Undo does for one save.
UndoStep(x, r) ==
  [IF r.into = -1 THEN Close(x, r.orig) ELSE movefd(x, r.into, r.orig)
     EXCEPT !.fd0_redirected = IF r.orig = 0 THEN @ - 1 ELSE @]

\* g holds the state after each of the saves.
UndoSteps(g, s, rn) ==
  /\ Undo(s, rn) = g[Len(rn)] /\ g[0] = s
  /\ \A m \in 1..Len(rn) : g[m] = UndoStep(g[m - 1], rn[m])

Greatest(s) == Max(s)

\* Undo takes the saves one by one.
LEMMA UndoIterates ==
  ASSUME NEW s, NEW T, NEW rn \in Seq(T)
  PROVE  \E g : UndoSteps(g, s, rn)
  <1> DEFINE n == Len(rn)
             S == 1..n
             D(m) == {u \in SUBSET S : Cardinality(u) < m}
             Good(g, m) == g = [u \in D(m) |-> IF u = {} THEN s
                                ELSE UndoStep(g[u \ {Greatest(u)}], rn[Greatest(u)])]
             bad == {m \in Nat : ~\E g : Good(g, m)}
  <1>9. n \in Nat /\ DOMAIN rn = S
    OBVIOUS
  <1>11. IsFiniteSet(S)
    <2> HIDE DEF n
    <2> QED
      BY <1>9, FS_Interval
  <1>12. S \subseteq 0..n
    <2> HIDE DEF n
    <2> QED
      BY ONLY <1>9
  <1> HIDE DEF S
  <1>10. \A u \in SUBSET S : Cardinality(u) \in Nat /\ Cardinality(u) <= Cardinality(S)
    BY <1>11, FS_Subset, FS_CardinalityType
  <1>1. \A u \in SUBSET S : u # {} => /\ Greatest(u) \in u /\ u \ {Greatest(u)} \in SUBSET S
                                      /\ Cardinality(u \ {Greatest(u)}) = Cardinality(u) - 1
    <2> SUFFICES ASSUME NEW u \in SUBSET S, u # {}
                 PROVE  /\ Greatest(u) \in u /\ u \ {Greatest(u)} \in SUBSET S
                        /\ Cardinality(u \ {Greatest(u)}) = Cardinality(u) - 1
      OBVIOUS
    <2>1. IsFiniteSet(u)
      BY <1>11, FS_Subset
    <2>2. Greatest(u) \in u
      <3>1. u \subseteq 0..n
        BY <1>12
      <3> HIDE DEF n
      <3> QED
        BY ONLY <1>9, <3>1, u # {}, MaxIn DEF Greatest
    <2>3. Cardinality(u \ {Greatest(u)}) = Cardinality(u) - 1
      BY <2>1, <2>2, FS_RemoveElement
    <2> QED
      BY <2>2, <2>3
  <1>2. \A m : \A u : u \in D(m) <=> u \in SUBSET S /\ Cardinality(u) < m
    OBVIOUS
  <1> HIDE DEF D, n
  <1>3. bad = {}
    <2> SUFFICES ASSUME bad # {} PROVE FALSE
      OBVIOUS
    <2>1. PICK m \in bad : \A k \in bad : m <= k
      BY ONLY bad # {}, bad \subseteq Nat, LeastOf
    <2>2. m \in Nat /\ ~\E g : Good(g, m)
      <3> HIDE DEF Good
      <3> QED
        BY <2>1
    <2>3. \A k \in Nat : k < m => \E g : Good(g, k)
      <3> HIDE DEF Good
      <3> QED
        BY ONLY <2>1, <2>2
    <2>4. CASE m = 0
      <3>1. \A u \in SUBSET S : ~(Cardinality(u) < 0)
        BY ONLY <1>10
      <3>2. D(0) = {}
        BY <1>2, <3>1
      <3>3. Good([u \in {} |-> s], 0)
        BY <3>2
      <3> HIDE DEF Good
      <3> QED
        BY <2>2, <2>4, <3>3
    <2>5. CASE m # 0
      <3>1. m - 1 \in Nat /\ m - 1 < m
        BY ONLY <2>2, <2>5
      <3>2. PICK g : Good(g, m - 1)
        <4> HIDE DEF Good
        <4> QED
          BY <2>3, <3>1
      <3> DEFINE h == [u \in D(m) |-> IF u = {} THEN s
                                      ELSE UndoStep(g[u \ {Greatest(u)}], rn[Greatest(u)])]
      <3>3. \A u \in D(m) : u # {} => u \ {Greatest(u)} \in D(m - 1)
        <4> SUFFICES ASSUME NEW u \in D(m), u # {} PROVE u \ {Greatest(u)} \in D(m - 1)
          OBVIOUS
        <4>1. u \in SUBSET S /\ Cardinality(u) < m
          BY <1>2
        <4>2. u \ {Greatest(u)} \in SUBSET S /\ Cardinality(u \ {Greatest(u)}) = Cardinality(u) - 1
              /\ Cardinality(u) \in Nat
          BY <1>1, <1>10, <4>1
        <4>3. Cardinality(u \ {Greatest(u)}) < m - 1
          BY ONLY <2>2, <4>1, <4>2
        <4> QED
          BY <1>2, <4>2, <4>3
      <3>4. \A u \in D(m - 1) : u \in D(m)
        <4> SUFFICES ASSUME NEW u \in D(m - 1) PROVE u \in D(m)
          OBVIOUS
        <4>1. u \in SUBSET S /\ Cardinality(u) < m - 1
          BY <1>2
        <4>2. Cardinality(u) \in Nat
          BY <1>10, <4>1
        <4>3. Cardinality(u) < m
          BY ONLY <2>2, <4>1, <4>2
        <4> QED
          BY <1>2, <4>1, <4>3
      <3>5. \A u \in D(m - 1) : h[u] = g[u]
        BY <3>2, <3>4
      <3>6. \A u \in D(m) : u # {} => h[u \ {Greatest(u)}] = g[u \ {Greatest(u)}]
        BY <3>3, <3>5
      <3>7. h = [u \in D(m) |-> IF u = {} THEN s
                                ELSE UndoStep(h[u \ {Greatest(u)}], rn[Greatest(u)])]
        BY <3>6
      <3>8. \E k : Good(k, m)
        <4> HIDE DEF h
        <4> QED
          BY <3>7
      <3> HIDE DEF Good
      <3> QED
        BY <2>2, <3>8
    <2> QED
      BY <2>4, <2>5
  <1>8. D(Cardinality(S) + 1) = SUBSET S
    <2>1. Cardinality(S) \in Nat
      BY <1>11, FS_CardinalityType
    <2>2. \A u \in SUBSET S : Cardinality(u) < Cardinality(S) + 1
      BY ONLY <1>10, <2>1
    <2> QED
      BY <1>2, <2>2
  <1>4. \E g : g = [u \in SUBSET S |-> IF u = {} THEN s
                                       ELSE UndoStep(g[u \ {Greatest(u)}], rn[Greatest(u)])]
    <2>1. Cardinality(S) + 1 \in Nat
      BY <1>11, FS_CardinalityType
    <2>2. \E g : Good(g, Cardinality(S) + 1)
      <3> HIDE DEF Good
      <3> QED
        BY <1>3, <2>1
    <2> QED
      BY <1>8, <2>2
  <1> DEFINE Iter == CHOOSE it : it = [u \in SUBSET (DOMAIN rn) |->
                        IF u = {} THEN s
                        ELSE [IF rn[Max(u)].into = -1 THEN Close(it[u \ {Max(u)}], rn[Max(u)].orig)
                              ELSE movefd(it[u \ {Max(u)}], rn[Max(u)].into, rn[Max(u)].orig)
                                EXCEPT !.fd0_redirected =
                                  IF rn[Max(u)].orig = 0 THEN @ - 1 ELSE @]]
  <1>5. Undo(s, rn) = Iter[DOMAIN rn]
    BY DEF Undo, FoldLeft, MapThenFoldSet
  <1>6. Iter = [u \in SUBSET S |-> IF u = {} THEN s
                                   ELSE UndoStep(Iter[u \ {Greatest(u)}], rn[Greatest(u)])]
    <2>1. Iter = CHOOSE it : it = [u \in SUBSET S |-> IF u = {} THEN s
                                   ELSE UndoStep(it[u \ {Greatest(u)}], rn[Greatest(u)])]
      BY <1>9, Zenon DEF UndoStep, Greatest
    <2> HIDE DEF Iter
    <2> QED
      BY <1>4, <2>1, Zenon
  <1> HIDE DEF Iter
  <1> DEFINE g == [m \in 0..n |-> Iter[1..m]]
  <1>13. Undo(s, rn) = g[n] /\ g[0] = s
    <2>1. 1..0 = {} /\ {} \in SUBSET S /\ n \in 0..n /\ 0 \in 0..n
      BY <1>9
    <2> QED
      BY <1>5, <1>6, <1>9, <2>1 DEF S
  <1>14. ASSUME NEW m \in 1..n PROVE g[m] = UndoStep(g[m - 1], rn[m])
    <2>1. /\ m \in 0..n /\ m - 1 \in 0..n /\ m \in Nat
          /\ 1..m \subseteq S /\ 1..m # {} /\ (1..m) \ {m} = 1..(m - 1)
      <3>1. n \in Nat /\ m \in 1..n /\ S = 1..n
        BY <1>9 DEF S
      <3>2. m \in 0..n /\ m - 1 \in 0..n /\ m \in Nat /\ m \in 1..m
        BY ONLY <3>1
      <3>3. 1..m \subseteq S
        BY ONLY <3>1
      <3>4. \A i : i \in (1..m) \ {m} <=> i \in 1..(m - 1)
        BY ONLY <3>2
      <3>5. (1..m) \ {m} = 1..(m - 1)
        BY ONLY <3>4
      <3> QED
        BY ONLY <3>2, <3>3, <3>5
    <2>2. Greatest(1..m) = m
      <3>1. m \in 1..m /\ 1..m \subseteq 0..m
        BY ONLY <2>1
      <3>2. Greatest(1..m) \in 1..m /\ Greatest(1..m) >= m
        BY ONLY <2>1, <3>1, MaxIn DEF Greatest
      <3> QED
        BY ONLY <2>1, <3>2
    <2>3. Iter[1..m] = UndoStep(Iter[(1..m) \ {Greatest(1..m)}], rn[Greatest(1..m)])
      BY ONLY <1>6, <2>1
    <2>4. Iter[1..m] = UndoStep(Iter[1..(m - 1)], rn[m])
      BY ONLY <2>1, <2>2, <2>3
    <2> QED
      BY <2>1, <2>4
  <1>15. UndoSteps(g, s, rn)
    <2> HIDE DEF g
    <2> QED
      BY <1>13, <1>14 DEF UndoSteps, n
  <1> QED
    BY <1>15

\* The m first of the saves rn are undone from s to x.
Partly(s, x, rn, m) ==
  /\ x \in States /\ x.redirlist = s.redirlist /\ x.shfds = s.shfds
  /\ \A i \in 1..m :
       /\ x.fdt[rn[i].orig] = IF rn[i].into = -1 THEN none ELSE s.fdt[rn[i].into]
       /\ rn[i].into # -1 => x.fdt[rn[i].into] = none
  /\ \A g \in Fds : (\A i \in 1..m : g # rn[i].orig /\ g # rn[i].into) =>
       x.fdt[g] = s.fdt[g] /\ (g \in s.cx => g \in x.cx)

\* Saves that can be undone in any order.
Separate(rn) ==
  \A i, j \in DOMAIN rn : /\ rn[i].orig = rn[j].orig => i = j
                          /\ rn[i].into = rn[j].into /\ rn[i].into # -1 => i = j

LEMMA UndoStepRight ==
  ASSUME NEW x \in States, NEW r \in Saves, r.orig \in Fds, r.orig # r.into
  PROVE  LET z == UndoStep(x, r)
         IN  /\ z \in States /\ z.redirlist = x.redirlist /\ z.shfds = x.shfds
             /\ z.fdt[r.orig] = IF r.into = -1 THEN none ELSE x.fdt[r.into]
             /\ r.into # -1 => z.fdt[r.into] = none
             /\ \A g \in Fds : g # r.orig /\ g # r.into =>
                  z.fdt[g] = x.fdt[g] /\ (g \in x.cx => g \in z.cx)
  <1>1. ASSUME NEW y \in States
        PROVE  LET z == [y EXCEPT !.fd0_redirected = IF r.orig = 0 THEN @ - 1 ELSE @]
               IN  /\ z \in States /\ z.redirlist = y.redirlist /\ z.shfds = y.shfds
                   /\ z.fdt = y.fdt /\ z.cx = y.cx
    <2> DEFINE z == [y EXCEPT !.fd0_redirected = IF r.orig = 0 THEN @ - 1 ELSE @]
    <2>1. PICK i \in Int : z = [y EXCEPT !.fd0_redirected = i]
      <3>1. y.fd0_redirected \in Int
        BY DEF States
      <3>2. CASE r.orig = 0
        <4>1. z = [y EXCEPT !.fd0_redirected = y.fd0_redirected - 1]
          BY <3>2
        <4> HIDE DEF z
        <4> QED
          BY <3>1, <4>1
      <3>3. CASE r.orig # 0
        <4>1. z = [y EXCEPT !.fd0_redirected = y.fd0_redirected]
          BY <3>3
        <4> HIDE DEF z
        <4> QED
          BY <3>1, <4>1
      <3> QED
        BY <3>2, <3>3
    <2> HIDE DEF z
    <2>2. /\ z \in States /\ z.redirlist = y.redirlist /\ z.shfds = y.shfds
          /\ z.fdt = y.fdt /\ z.cx = y.cx
      BY <2>1 DEF States
    <2> QED
      BY <2>2 DEF z
  <1>2. CASE r.into = -1
    <2> DEFINE y == Close(x, r.orig)
    <2>1. /\ y \in States /\ y.redirlist = x.redirlist /\ y.shfds = x.shfds
          /\ y.fdt[r.orig] = none
          /\ \A g \in Fds \ {r.orig} : y.fdt[g] = x.fdt[g] /\ (g \in x.cx => g \in y.cx)
      BY CloseState
    <2>2. UndoStep(x, r) = [y EXCEPT !.fd0_redirected = IF r.orig = 0 THEN @ - 1 ELSE @]
      BY <1>2 DEF UndoStep
    <2> HIDE DEF y
    <2> QED
      BY <1>1, <1>2, <2>1, <2>2
  <1>3. CASE r.into # -1
    <2> DEFINE y == movefd(x, r.into, r.orig)
    <2>1. r.into \in Fds
      BY <1>3, Fd DEF Saves
    <2>3. UndoStep(x, r) = [y EXCEPT !.fd0_redirected = IF r.orig = 0 THEN @ - 1 ELSE @]
      BY <1>3 DEF UndoStep
    <2>2. PICK from \in Fds, to \in Fds : from = r.into /\ to = r.orig
      BY <2>1
    <2>4. /\ y \in States /\ y.redirlist = x.redirlist /\ y.shfds = x.shfds
          /\ y.fdt[r.orig] = x.fdt[r.into] /\ y.fdt[r.into] = none
          /\ \A g \in Fds \ {r.orig, r.into} :
               y.fdt[g] = x.fdt[g] /\ (g \in x.cx => g \in y.cx)
      <3>1. PICK b \in BOOLEAN : b = FALSE
        OBVIOUS
      <3>3. from # to /\ y = Moved(x, from, to, FALSE)
        BY <2>2 DEF movefd
      <3>4. from # to /\ y = Moved(x, from, to, b)
        BY ONLY <3>1, <3>3
      <3> HIDE DEF y
      <3>2. /\ y \in States /\ y.redirlist = x.redirlist /\ y.shfds = x.shfds
            /\ y.fdt[to] = x.fdt[from] /\ y.fdt[from] = none
            /\ \A g \in Fds \ {to, from} :
                 y.fdt[g] = x.fdt[g] /\ (g \in x.cx => g \in y.cx)
        BY ONLY <3>4, x \in States, from \in Fds, to \in Fds, b \in BOOLEAN, MoveState
      <3> QED
        BY ONLY <2>2, <3>2
    <2> HIDE DEF y
    <2> QED
      BY <1>1, <1>3, <2>3, <2>4
  <1> QED
    BY <1>2, <1>3

\* One more save is undone.
LEMMA UndoMore ==
  ASSUME Simple, NEW s \in States, NEW rn \in Seq(Saves), Separate(rn), NEW m \in 1..Len(rn),
         NEW x, Partly(s, x, rn, m - 1)
  PROVE  Partly(s, UndoStep(x, rn[m]), rn, m)
  <1> DEFINE r == rn[m]
             z == UndoStep(x, r)
  <1>1. /\ m \in DOMAIN rn /\ m \in Nat /\ \A i \in 1..m : i \in DOMAIN rn
        /\ \A i \in 1..m : i \in 1..(m - 1) \/ i = m
        /\ \A i \in 1..(m - 1) : i \in 1..m /\ i # m
    <2>1. Len(rn) \in Nat /\ DOMAIN rn = 1..Len(rn)
      OBVIOUS
    <2>2. m \in Nat /\ m <= Len(rn) /\ 1 <= m
      OBVIOUS
    <2>3. \A i \in 1..m : i \in 1..Len(rn) /\ (i \in 1..(m - 1) \/ i = m)
      BY ONLY <2>1, <2>2
    <2>4. \A i \in 1..(m - 1) : i \in 1..m /\ i # m
      BY ONLY <2>2
    <2> QED
      BY ONLY <2>1, <2>2, <2>3, <2>4, m \in 1..Len(rn)
  <1>2. \A i \in DOMAIN rn : rn[i] \in Saves
    OBVIOUS
  <1>3. \A i, j \in DOMAIN rn : /\ rn[i].orig \in UserFds /\ rn[i].orig \in Fds
                                /\ rn[i].orig # rn[j].into
                                /\ rn[i].into # -1 => rn[i].into \in Fds
    <2> SUFFICES ASSUME NEW i \in DOMAIN rn, NEW j \in DOMAIN rn
                 PROVE  /\ rn[i].orig \in UserFds /\ rn[i].orig \in Fds
                        /\ rn[i].orig # rn[j].into
                        /\ rn[i].into # -1 => rn[i].into \in Fds
      OBVIOUS
    <2>1. rn[i].orig \in UserFds /\ rn[i].into \in Kept \cup {-1} /\ rn[j].into \in Kept \cup {-1}
      BY <1>2 DEF Saves
    <2>2. rn[i].orig \in Fds /\ rn[i].orig < LowFd
      BY <2>1, Fd DEF Simple
    <2>3. rn[i].orig # rn[j].into
      BY ONLY <2>1, <2>2, Fd
    <2> QED
      BY <2>1, <2>2, <2>3, Fd
  <1>4. r \in Saves /\ r.orig \in Fds /\ r.orig # r.into /\ (r.into # -1 => r.into \in Fds)
    BY <1>1, <1>2, <1>3
  <1>5. x \in States /\ x.redirlist = s.redirlist /\ x.shfds = s.shfds
    BY DEF Partly
  <1>6. /\ z \in States /\ z.redirlist = x.redirlist /\ z.shfds = x.shfds
        /\ z.fdt[r.orig] = IF r.into = -1 THEN none ELSE x.fdt[r.into]
        /\ r.into # -1 => z.fdt[r.into] = none
        /\ \A g \in Fds : g # r.orig /\ g # r.into =>
             z.fdt[g] = x.fdt[g] /\ (g \in x.cx => g \in z.cx)
    <2> HIDE DEF r
    <2> QED
      BY <1>4, <1>5, UndoStepRight
  <1> HIDE DEF z
  \* The copy is as it was.
  <1>7. r.into # -1 => x.fdt[r.into] = s.fdt[r.into]
    <2> SUFFICES ASSUME r.into # -1 PROVE x.fdt[r.into] = s.fdt[r.into]
      OBVIOUS
    <2>1. ASSUME NEW i \in 1..(m - 1) PROVE r.into # rn[i].orig /\ r.into # rn[i].into
      BY <1>1, <1>3 DEF Separate
    <2> QED
      BY <1>4, <2>1 DEF Partly
  <1>8. ASSUME NEW i \in 1..m
        PROVE  /\ z.fdt[rn[i].orig] = IF rn[i].into = -1 THEN none ELSE s.fdt[rn[i].into]
               /\ rn[i].into # -1 => z.fdt[rn[i].into] = none
    <2>1. CASE i = m
      BY <1>6, <1>7, <2>1
    <2>2. CASE i \in 1..(m - 1)
      <3>1. /\ x.fdt[rn[i].orig] = IF rn[i].into = -1 THEN none ELSE s.fdt[rn[i].into]
            /\ rn[i].into # -1 => x.fdt[rn[i].into] = none
        BY <2>2 DEF Partly
      <3>2. /\ rn[i].orig # r.orig /\ rn[i].orig # r.into /\ rn[i].orig \in Fds
            /\ rn[i].into # r.orig /\ (rn[i].into # -1 => rn[i].into # r.into /\ rn[i].into \in Fds)
        BY <1>1, <1>3, <2>2 DEF Separate
      <3> QED
        BY <1>6, <3>1, <3>2
    <2> QED
      BY <1>1, <2>1, <2>2
  <1>9. ASSUME NEW g \in Fds, \A i \in 1..m : g # rn[i].orig /\ g # rn[i].into
        PROVE  z.fdt[g] = s.fdt[g] /\ (g \in s.cx => g \in z.cx)
    <2>1. g # r.orig /\ g # r.into
      BY <1>9
    <2>2. x.fdt[g] = s.fdt[g] /\ (g \in s.cx => g \in x.cx)
      BY <1>1, <1>9 DEF Partly
    <2> QED
      BY <1>6, <2>1, <2>2
  <1>10. Partly(s, z, rn, m)
    BY <1>5, <1>6, <1>8, <1>9 DEF Partly
  <1> QED
    BY <1>10 DEF z

LEMMA UndoRight ==
  ASSUME Simple, NEW s \in States, NEW rn \in Seq(Saves), Separate(rn)
  PROVE  Partly(s, Undo(s, rn), rn, Len(rn))
  <1>1. PICK g : UndoSteps(g, s, rn)
    BY UndoIterates
  <1>2. Len(rn) \in Nat
    OBVIOUS
  <1> DEFINE bad == {m \in 0..Len(rn) : ~Partly(s, g[m], rn, m)}
  <1>3. bad = {}
    <2> SUFFICES ASSUME bad # {} PROVE FALSE
      OBVIOUS
    <2>1. bad \subseteq Nat
      BY <1>2
    <2>2. PICK m \in bad : \A k \in bad : m <= k
      BY ONLY <2>1, bad # {}, LeastOf
    <2>3. m \in 0..Len(rn) /\ ~Partly(s, g[m], rn, m)
      BY <2>2
    <2>4. CASE m = 0
      <3>1. g[0] = s
        BY <1>1 DEF UndoSteps
      <3>2. \A i \in 1..0 : FALSE
        OBVIOUS
      <3>3. Partly(s, s, rn, 0)
        BY <3>2 DEF Partly
      <3> QED
        BY <2>3, <2>4, <3>1, <3>3
    <2>5. CASE m # 0
      <3>1. m \in 1..Len(rn) /\ m - 1 \in 0..Len(rn) /\ ~(m <= m - 1)
        BY ONLY <1>2, <2>3, <2>5
      <3>2. Partly(s, g[m - 1], rn, m - 1)
        BY <2>2, <3>1
      <3>3. g[m] = UndoStep(g[m - 1], rn[m])
        BY <1>1, <3>1 DEF UndoSteps
      <3>4. Partly(s, UndoStep(g[m - 1], rn[m]), rn, m)
        BY <3>1, <3>2, UndoMore
      <3> QED
        BY <2>3, <3>3, <3>4
    <2> QED
      BY <2>4, <2>5
  <1>4. Partly(s, g[Len(rn)], rn, Len(rn))
    <2>1. Len(rn) \in 0..Len(rn)
      BY ONLY <1>2
    <2> QED
      BY <1>3, <2>1
  <1> QED
    BY <1>1, <1>4 DEF UndoSteps

\* popredir closes the copies of the innermost command and puts back what they
\* are copies of; the rest is as sound as before.
LEMMA PopRight ==
  ASSUME Simple, NEW s, Sound(s), s.redirlist # <<>>
  PROVE  LET z == popredir(s)
         IN  /\ Sound(z) /\ z.shfds = s.shfds
             /\ Len(s.redirlist) \in Nat /\ Len(s.redirlist) # 0
             /\ Len(z.redirlist) = Len(s.redirlist) - 1
             /\ \A k \in 1..(Len(s.redirlist) - 1) : z.redirlist[k] = s.redirlist[k + 1]
             /\ \A fd \in UserFds :
                  z.fdt[fd] = IF fd \in Origs(s, 1) THEN s.redirlist[1].snap[fd] ELSE s.fdt[fd]
  <1> DEFINE q == s.redirlist
             rn == Saving(s, 1)
             u == Undo(s, rn)
             n == Len(q)
             z == [u EXCEPT !.redirlist = Tail(q)]
  <1>1. s \in States /\ q \in Seq(Scopes) /\ q # <<>> /\ s.shfds \in [Owners -> Kept \cup {-1}]
    BY DEF Sound, States
  <1>2. q = s.redirlist
    OBVIOUS
  <1> HIDE DEF q
  <1>3. /\ 1 \in DOMAIN q /\ DOMAIN q = 1..n /\ n \in Nat /\ n # 0
        /\ Tail(q) \in Seq(Scopes) /\ Len(Tail(q)) = n - 1 /\ DOMAIN Tail(q) = 1..(n - 1)
        /\ \A k \in 1..(n - 1) : Tail(q)[k] = q[k + 1]
    BY ONLY <1>1
  <1>4. rn \in Seq(Saves)
    BY ONLY <1>1, <1>2, <1>3, SavesOf
  <1>5. DOMAIN rn = 1..Len(rn)
    BY ONLY <1>4
  <1> HIDE DEF rn, n
  <1>6. \A i \in 1..Len(rn) : /\ CopyKept(s, q[1].snap, rn[i])
                              /\ rn[i].orig \in UserFds /\ rn[i].into \in Kept \cup {-1}
    <2>1. \A i \in 1..Len(rn) : CopyKept(s, q[1].snap, rn[i])
      BY <1>2, <1>3, <1>5 DEF Sound, Copied, rn
    <2>2. \A i \in 1..Len(rn) : rn[i].orig \in UserFds /\ rn[i].into \in Kept \cup {-1}
      BY ONLY <1>1, <1>2, <1>3, <1>5, SavesOf DEF rn
    <2> QED
      BY ONLY <2>1, <2>2
  <1>7. Separate(rn)
    BY <1>2, <1>3 DEF Sound, Apart, Separate, rn
  <1>8. Partly(s, u, rn, Len(rn))
    BY <1>1, <1>4, <1>7, UndoRight
  <1> HIDE DEF u
  <1>9. u \in States /\ u.redirlist = q /\ u.shfds = s.shfds
    BY <1>2, <1>8 DEF Partly
  <1>10. popredir(s) = z
    BY <1>2, <1>9 DEF popredir, u, rn, Saving
  <1>11. /\ z \in States /\ z.redirlist = Tail(q) /\ z.shfds = s.shfds
         /\ z.fdt = u.fdt /\ z.cx = u.cx
    BY <1>3, <1>9 DEF States
  <1> HIDE DEF z
  \* The places of the other commands' saves have moved by one.
  <1>12. \A k \in DOMAIN z.redirlist :
           /\ k \in Int /\ k + 1 \in DOMAIN s.redirlist /\ k + 1 # 1
           /\ Saving(z, k) = Saving(s, k + 1)
           /\ z.redirlist[k].snap = s.redirlist[k + 1].snap
    <2> SUFFICES ASSUME NEW k \in DOMAIN z.redirlist
                 PROVE  /\ k \in Int /\ k + 1 \in DOMAIN s.redirlist /\ k + 1 # 1
                        /\ z.redirlist[k] = s.redirlist[k + 1]
      BY DEF Saving
    <2>1. k \in 1..(n - 1)
      BY <1>3, <1>11
    <2>2. k \in Int /\ k + 1 \in 1..n /\ k + 1 # 1
      BY ONLY <1>3, <2>1
    <2> QED
      BY <1>2, <1>3, <1>11, <2>1, <2>2
  <1>13. ASSUME NEW k \in DOMAIN s.redirlist, k # 1
         PROVE  k - 1 \in DOMAIN z.redirlist /\ Saving(z, k - 1) = Saving(s, k)
    <2>1. k \in 1..n
      BY <1>2, <1>3
    <2>2. k - 1 \in 1..(n - 1) /\ (k - 1) + 1 = k
      BY ONLY <1>3, <1>13, <2>1
    <2>3. z.redirlist[k - 1] = s.redirlist[k]
      BY ONLY <1>2, <1>3, <1>11, <2>2
    <2> QED
      BY <1>3, <1>11, <2>2, <2>3 DEF Saving
  \* What is not put back or closed stays.
  <1>14. ASSUME NEW g \in Fds, \A i \in 1..Len(rn) : g # rn[i].orig /\ g # rn[i].into
         PROVE  z.fdt[g] = s.fdt[g] /\ (g \in s.cx => g \in z.cx)
    BY <1>8, <1>11, <1>14 DEF Partly
  <1>15. ASSUME NEW g \in Kept, \A i \in 1..Len(rn) : g # rn[i].into
         PROVE  z.fdt[g] = s.fdt[g] /\ (g \in s.cx => g \in z.cx)
    <2>1. g \in Fds /\ g >= LowFd
      BY Fd
    <2>2. \A i \in 1..Len(rn) : rn[i].orig < LowFd /\ rn[i].orig \in Fds
      BY <1>6, Fd DEF Simple
    <2>3. \A i \in 1..Len(rn) : g # rn[i].orig
      BY ONLY <2>1, <2>2, Fd
    <2> QED
      BY <1>14, <1>15, <2>1, <2>3
  <1>16. Owned(z)
    <2> SUFFICES ASSUME NEW o \in Owners, s.shfds[o] # -1
                 PROVE  z.fdt[s.shfds[o]] = o /\ s.shfds[o] \in z.cx
      BY <1>11 DEF Owned
    <2>1. s.fdt[s.shfds[o]] = o /\ s.shfds[o] \in s.cx /\ s.shfds[o] \in Kept
      BY <1>1 DEF Sound, Owned
    <2>2. \A i \in 1..Len(rn) : s.shfds[o] # rn[i].into
      BY <1>6 DEF CopyKept
    <2> QED
      BY <1>15, <2>1, <2>2
  <1>17. Copied(z)
    <2> SUFFICES ASSUME NEW k \in DOMAIN z.redirlist, NEW i \in DOMAIN Saving(z, k)
                 PROVE  CopyKept(z, z.redirlist[k].snap, Saving(z, k)[i])
      BY DEF Copied
    <2>1. PICK l \in DOMAIN s.redirlist :
            l # 1 /\ Saving(z, k) = Saving(s, l) /\ z.redirlist[k].snap = s.redirlist[l].snap
      BY <1>12
    <2>2. PICK r : r = Saving(s, l)[i] /\ i \in DOMAIN Saving(s, l)
      BY <2>1
    <2>3. CopyKept(s, s.redirlist[l].snap, r)
      BY <2>2 DEF Sound, Copied
    <2>4. r.into \in Kept \cup {-1}
      BY ONLY <1>1, <2>2, l \in DOMAIN s.redirlist, SavesOf
    <2>5. \A j \in 1..Len(rn) : r.into # -1 => r.into # rn[j].into
      BY <1>2, <1>3, <1>5, <2>1, <2>2 DEF Sound, Apart, rn
    <2>6. CopyKept(z, s.redirlist[l].snap, r)
      BY <1>11, <1>15, <2>3, <2>4, <2>5 DEF CopyKept
    <2> QED
      BY <2>1, <2>2, <2>6
  <1>18. Apart(z)
    <2> SUFFICES ASSUME NEW k \in DOMAIN z.redirlist, NEW l \in DOMAIN z.redirlist,
                        NEW i \in DOMAIN Saving(z, k), NEW j \in DOMAIN Saving(z, l)
                 PROVE  /\ Saving(z, k)[i].into = Saving(z, l)[j].into /\ Saving(z, k)[i].into # -1
                             => k = l /\ i = j
                        /\ k = l /\ Saving(z, k)[i].orig = Saving(z, l)[j].orig => i = j
      BY DEF Apart
    <2>1. /\ k \in Int /\ l \in Int
          /\ k + 1 \in DOMAIN s.redirlist /\ l + 1 \in DOMAIN s.redirlist
          /\ Saving(z, k) = Saving(s, k + 1) /\ Saving(z, l) = Saving(s, l + 1)
      BY <1>12
    <2>2. k + 1 = l + 1 <=> k = l
      BY ONLY <2>1
    <2>3. /\ Saving(s, k + 1)[i].into = Saving(s, l + 1)[j].into /\ Saving(s, k + 1)[i].into # -1
               => k + 1 = l + 1 /\ i = j
          /\ k + 1 = l + 1 /\ Saving(s, k + 1)[i].orig = Saving(s, l + 1)[j].orig => i = j
      BY <2>1 DEF Sound, Apart
    <2> QED
      BY ONLY <2>1, <2>2, <2>3
  <1>19. Full(z)
    <2> SUFFICES ASSUME NEW g \in Fds \ UserFds, z.fdt[g] # none
                 PROVE  \/ \E o \in Owners : z.shfds[o] = g
                        \/ \E k \in DOMAIN z.redirlist : \E i \in DOMAIN Saving(z, k) :
                             Saving(z, k)[i].into = g
      BY DEF Full
    <2>1. \A i \in 1..Len(rn) : g # rn[i].orig
      BY <1>6
    <2>2. \A i \in 1..Len(rn) : g # rn[i].into
      <3>1. \A i \in 1..Len(rn) : rn[i].into # -1 => z.fdt[rn[i].into] = none
        BY <1>8, <1>11 DEF Partly
      <3> QED
        BY <3>1, Fd
    <2>3. s.fdt[g] # none
      BY <1>14, <2>1, <2>2
    <2>4. \/ \E o \in Owners : s.shfds[o] = g
          \/ \E k \in DOMAIN s.redirlist : \E i \in DOMAIN Saving(s, k) : Saving(s, k)[i].into = g
      BY <2>3 DEF Sound, Full
    <2>5. ASSUME NEW k \in DOMAIN s.redirlist, NEW i \in DOMAIN Saving(s, k),
                 Saving(s, k)[i].into = g
          PROVE  \E l \in DOMAIN z.redirlist : \E j \in DOMAIN Saving(z, l) : Saving(z, l)[j].into = g
      <3>1. k # 1
        BY <1>5, <2>2, <2>5 DEF rn
      <3> QED
        BY <1>13, <2>5, <3>1
    <2> QED
      BY <1>11, <2>4, <2>5
  <1>20. Sound(z)
    BY <1>11, <1>16, <1>17, <1>18, <1>19 DEF Sound
  <1>21. ASSUME NEW fd \in UserFds
         PROVE  z.fdt[fd] = IF fd \in Origs(s, 1) THEN s.redirlist[1].snap[fd] ELSE s.fdt[fd]
    <2>1. CASE fd \in Origs(s, 1)
      <3>1. PICK i \in 1..Len(rn) : rn[i].orig = fd
        BY <1>5, <2>1 DEF Origs, rn
      <3>2. z.fdt[fd] = IF rn[i].into = -1 THEN none ELSE s.fdt[rn[i].into]
        BY <1>8, <1>11, <3>1 DEF Partly
      <3>3. CopyKept(s, q[1].snap, rn[i])
        BY <1>6
      <3> QED
        BY <1>2, <2>1, <3>1, <3>2, <3>3 DEF CopyKept
    <2>2. CASE fd \notin Origs(s, 1)
      <3>1. \A i \in 1..Len(rn) : fd # rn[i].orig
        BY <1>5, <2>2 DEF Origs, rn
      <3>2. fd \in Fds /\ fd < LowFd
        BY Fd DEF Simple
      <3>3. \A i \in 1..Len(rn) : rn[i].into \in Kept \cup {-1}
        BY <1>6
      <3>4. \A i \in 1..Len(rn) : fd # rn[i].into
        BY ONLY <3>2, <3>3, Fd
      <3> QED
        BY <1>14, <2>2, <3>1, <3>2, <3>4
    <2> QED
      BY <2>1, <2>2
  <1>22. Len(z.redirlist) = Len(s.redirlist) - 1 /\ Len(s.redirlist) \in Nat /\ Len(s.redirlist) # 0
    BY <1>2, <1>3, <1>11 DEF n
  <1>23. \A k \in 1..(Len(s.redirlist) - 1) : z.redirlist[k] = s.redirlist[k + 1]
    BY <1>2, <1>3, <1>11 DEF n
  <1> QED
    BY ONLY <1>10, <1>11, <1>20, <1>21, <1>22, <1>23

-----------------------------------------------------------------------------
(* Commands that are over.                                                 *)

\* From s to x the n innermost commands are over: a descriptor is as it was when the
\* outermost of those that redirected it began, and the commands around are left.
PutBack(s, x, n) ==
  /\ Sound(x) /\ x.shfds = s.shfds
  /\ Len(x.redirlist) = Len(s.redirlist) - n
  /\ \A k \in 1..(Len(s.redirlist) - n) : x.redirlist[k] = s.redirlist[k + n]
  /\ \A fd \in UserFds : (\A k \in 1..n : fd \notin Origs(s, k)) => x.fdt[fd] = s.fdt[fd]
  /\ \A fd \in UserFds : \A k \in 1..n :
       fd \in Origs(s, k) /\ (\A l \in 1..n : l > k => fd \notin Origs(s, l)) =>
         x.fdt[fd] = s.redirlist[k].snap[fd]

LEMMA PutBackNone ==
  ASSUME NEW s, Sound(s)
  PROVE  PutBack(s, s, 0)
  <1>1. s.redirlist \in Seq(Scopes)
    BY DEF Sound, States
  <1>2. Len(s.redirlist) = Len(s.redirlist) - 0
    BY ONLY <1>1
  <1>3. ASSUME NEW k \in 1..(Len(s.redirlist) - 0) PROVE s.redirlist[k] = s.redirlist[k + 0]
    <2>1. k + 0 = k
      BY ONLY k \in 1..(Len(s.redirlist) - 0)
    <2> QED
      BY ONLY <2>1
  <1>4. \A k \in 1..0 : FALSE
    OBVIOUS
  <1> QED
    BY ONLY Sound(s), <1>2, <1>3, <1>4 DEF PutBack

LEMMA PutBackMore ==
  ASSUME Simple, NEW s, Sound(s), NEW n \in Nat, n < Len(s.redirlist),
         NEW x, PutBack(s, x, n)
  PROVE  PutBack(s, popredir(x), n + 1)
  <1> DEFINE z == popredir(x)
             m == Len(s.redirlist)
  <1>1. m \in Nat /\ n < m /\ n \in Nat
    BY DEF Sound, States
  <1>2. /\ Sound(x) /\ x.shfds = s.shfds /\ Len(x.redirlist) = m - n
        /\ \A k \in 1..(m - n) : x.redirlist[k] = s.redirlist[k + n]
    BY DEF PutBack
  <1> HIDE DEF m
  <1>3. x.redirlist # <<>>
    <2>1. Len(x.redirlist) # 0
      BY ONLY <1>1, <1>2
    <2> QED
      BY ONLY <2>1
  <1>4. /\ Sound(z) /\ z.shfds = x.shfds
        /\ Len(z.redirlist) = Len(x.redirlist) - 1
        /\ \A k \in 1..(Len(x.redirlist) - 1) : z.redirlist[k] = x.redirlist[k + 1]
        /\ \A fd \in UserFds :
             z.fdt[fd] = IF fd \in Origs(x, 1) THEN x.redirlist[1].snap[fd] ELSE x.fdt[fd]
    BY ONLY Simple, <1>2, <1>3, PopRight
  <1> HIDE DEF z
  <1>5. x.redirlist[1] = s.redirlist[n + 1] /\ Origs(x, 1) = Origs(s, n + 1)
    <2>1. 1 \in 1..(m - n) /\ 1 + n = n + 1
      BY ONLY <1>1
    <2>2. x.redirlist[1] = s.redirlist[n + 1]
      BY ONLY <1>2, <2>1
    <2> QED
      BY ONLY <2>2 DEF Origs, Saving
  <1>6. Len(z.redirlist) = m - (n + 1)
    BY ONLY <1>1, <1>2, <1>4
  <1>7. ASSUME NEW k \in 1..(m - (n + 1)) PROVE z.redirlist[k] = s.redirlist[k + (n + 1)]
    <2>1. k \in 1..((m - n) - 1) /\ k + 1 \in 1..(m - n) /\ (k + 1) + n = k + (n + 1)
      BY ONLY <1>1, k \in 1..(m - (n + 1))
    <2>2. z.redirlist[k] = x.redirlist[k + 1]
      BY ONLY <1>2, <1>4, <2>1
    <2>3. x.redirlist[k + 1] = s.redirlist[(k + 1) + n]
      BY ONLY <1>2, <2>1
    <2> QED
      BY ONLY <2>1, <2>2, <2>3
  <1>8. /\ n + 1 \in 1..(n + 1)
        /\ \A k \in 1..n : k \in 1..(n + 1) /\ n + 1 > k
        /\ \A k \in 1..(n + 1) : k \in 1..n \/ k = n + 1
        /\ \A l \in 1..(n + 1) : ~(l > n + 1)
    BY ONLY n \in Nat
  <1>9. ASSUME NEW fd \in UserFds, \A k \in 1..(n + 1) : fd \notin Origs(s, k)
        PROVE  z.fdt[fd] = s.fdt[fd]
    <2>1. fd \notin Origs(x, 1)
      BY ONLY <1>5, <1>8, <1>9
    <2>2. x.fdt[fd] = s.fdt[fd]
      BY ONLY <1>8, <1>9, fd \in UserFds, PutBack(s, x, n) DEF PutBack
    <2> QED
      BY ONLY <1>4, <2>1, <2>2, fd \in UserFds
  <1>10. ASSUME NEW fd \in UserFds, NEW k \in 1..(n + 1), fd \in Origs(s, k),
                \A l \in 1..(n + 1) : l > k => fd \notin Origs(s, l)
         PROVE  z.fdt[fd] = s.redirlist[k].snap[fd]
    <2>1. CASE k = n + 1
      BY ONLY <1>4, <1>5, <1>10, <2>1, fd \in UserFds
    <2>2. CASE k \in 1..n
      <3>1. fd \notin Origs(x, 1)
        BY ONLY <1>5, <1>8, <1>10, <2>2
      <3>2. x.fdt[fd] = s.redirlist[k].snap[fd]
        BY ONLY <1>8, <1>10, <2>2, fd \in UserFds, PutBack(s, x, n) DEF PutBack
      <3> QED
        BY ONLY <1>4, <3>1, <3>2, fd \in UserFds
    <2> QED
      BY ONLY <1>8, <2>1, <2>2, k \in 1..(n + 1)
  <1>11. PutBack(s, z, n + 1)
    BY ONLY <1>2, <1>4, <1>6, <1>7, <1>9, <1>10 DEF PutBack, m
  <1> QED
    BY ONLY <1>11 DEF z

\* What resets computes on the way: g[n] has the n innermost commands undone.
ResetSteps(g, s) ==
  /\ resets(s) = g[Len(s.redirlist)] /\ g[0] = s
  /\ \A n \in 1..MaxScopes : g[n] = popredir(g[n - 1])

LEMMA ResetIterates ==
  ASSUME NEW s
  PROVE  \E g : ResetSteps(g, s)
  <1> DEFINE D(m) == {n \in 0..MaxScopes : n < m}
             Good(g, m) == g = [n \in D(m) |-> IF n = 0 THEN s ELSE popredir(g[n - 1])]
             bad == {m \in Nat : ~\E g : Good(g, m)}
  <1>1. \A m : \A n : n \in D(m) <=> n \in 0..MaxScopes /\ n < m
    OBVIOUS
  <1> HIDE DEF D
  <1>2. bad = {}
    <2> SUFFICES ASSUME bad # {} PROVE FALSE
      OBVIOUS
    <2>1. PICK m \in bad : \A k \in bad : m <= k
      BY ONLY bad # {}, bad \subseteq Nat, LeastOf
    <2>2. m \in Nat /\ ~\E g : Good(g, m)
      <3> HIDE DEF Good
      <3> QED
        BY <2>1
    <2>3. \A k \in Nat : k < m => \E g : Good(g, k)
      <3> HIDE DEF Good
      <3> QED
        BY ONLY <2>1, <2>2
    <2>4. CASE m = 0
      <3>1. \A n \in 0..MaxScopes : ~(n < 0)
        OBVIOUS
      <3>2. D(0) = {}
        BY <1>1, <3>1
      <3>3. Good([n \in {} |-> s], 0)
        BY <3>2
      <3> HIDE DEF Good
      <3> QED
        BY <2>2, <2>4, <3>3
    <2>5. CASE m # 0
      <3>1. m - 1 \in Nat /\ m - 1 < m
        BY ONLY <2>2, <2>5
      <3>2. PICK g : Good(g, m - 1)
        <4> HIDE DEF Good
        <4> QED
          BY <2>3, <3>1
      <3> DEFINE h == [n \in D(m) |-> IF n = 0 THEN s ELSE popredir(g[n - 1])]
      <3>3. \A n \in D(m) : n # 0 => n - 1 \in D(m - 1)
        <4> SUFFICES ASSUME NEW n \in D(m), n # 0 PROVE n - 1 \in D(m - 1)
          OBVIOUS
        <4>1. n \in 0..MaxScopes /\ n < m
          BY ONLY <1>1, n \in D(m)
        <4>2. n - 1 \in 0..MaxScopes /\ n - 1 < m - 1
          BY ONLY <2>2, <4>1, n # 0, MaxScopes \in Nat
        <4> QED
          BY ONLY <1>1, <4>2
      <3>4. \A n \in D(m - 1) : n \in D(m)
        BY ONLY <1>1, <2>2, MaxScopes \in Nat
      <3>5. \A n \in D(m - 1) : h[n] = g[n]
        BY ONLY <3>2, <3>4
      <3>6. \A n \in D(m) : n # 0 => h[n - 1] = g[n - 1]
        BY ONLY <3>3, <3>5
      <3>7. h = [n \in D(m) |-> IF n = 0 THEN s ELSE popredir(h[n - 1])]
        BY ONLY <3>6
      <3>8. \E k : Good(k, m)
        <4> HIDE DEF h
        <4> QED
          BY ONLY <3>7
      <3> HIDE DEF Good
      <3> QED
        BY ONLY <2>2, <3>8
    <2> QED
      BY ONLY <2>4, <2>5
  <1>3. D(MaxScopes + 1) = 0..MaxScopes
    <2>1. \A n \in 0..MaxScopes : n < MaxScopes + 1
      BY ONLY MaxScopes \in Nat
    <2> QED
      BY ONLY <1>1, <2>1
  <1>4. \E g : g = [n \in 0..MaxScopes |-> IF n = 0 THEN s ELSE popredir(g[n - 1])]
    <2>1. \E g : Good(g, MaxScopes + 1)
      <3>1. MaxScopes + 1 \in Nat
        OBVIOUS
      <3> HIDE DEF Good
      <3> QED
        BY ONLY <1>2, <3>1
    <2> QED
      BY ONLY <1>3, <2>1
  <1> DEFINE popped == CHOOSE g : g = [n \in 0..MaxScopes |->
                                        IF n = 0 THEN s ELSE popredir(g[n - 1])]
  <1>5. resets(s) = popped[Len(s.redirlist)]
    BY ONLY DEF resets
  <1>6. popped = [n \in 0..MaxScopes |-> IF n = 0 THEN s ELSE popredir(popped[n - 1])]
    BY ONLY <1>4, Zenon
  <1> HIDE DEF popped, Good, bad
  <1>7. popped[0] = s
    <2>1. 0 \in 0..MaxScopes
      BY ONLY MaxScopes \in Nat
    <2> QED
      BY ONLY <1>6, <2>1
  <1>8. ASSUME NEW n \in 1..MaxScopes PROVE popped[n] = popredir(popped[n - 1])
    <2>1. n \in 0..MaxScopes /\ n # 0
      BY ONLY MaxScopes \in Nat, n \in 1..MaxScopes
    <2> QED
      BY ONLY <1>6, <2>1
  <1> QED
    BY ONLY <1>5, <1>7, <1>8 DEF ResetSteps

LEMMA ResetRight ==
  ASSUME Simple, NEW s, Sound(s), Len(s.redirlist) <= MaxScopes
  PROVE  PutBack(s, resets(s), Len(s.redirlist))
  <1>1. PICK g : ResetSteps(g, s)
    BY ONLY ResetIterates
  <1> DEFINE m == Len(s.redirlist)
             bad == {n \in 0..m : ~PutBack(s, g[n], n)}
  <1>2. m \in Nat /\ m <= MaxScopes
    BY DEF Sound, States
  <1>3. bad = {}
    <2> SUFFICES ASSUME bad # {} PROVE FALSE
      OBVIOUS
    <2>1. bad \subseteq Nat
      BY ONLY <1>2
    <2>2. PICK n \in bad : \A k \in bad : n <= k
      BY ONLY <2>1, bad # {}, LeastOf
    <2>3. n \in 0..m /\ ~PutBack(s, g[n], n)
      BY ONLY n \in bad
    <2>4. CASE n = 0
      <3>1. g[0] = s
        BY ONLY <1>1 DEF ResetSteps
      <3>2. PutBack(s, s, 0)
        BY ONLY Sound(s), PutBackNone
      <3> QED
        BY ONLY <2>3, <2>4, <3>1, <3>2
    <2>5. CASE n # 0
      <3>1. /\ n \in 1..MaxScopes /\ n - 1 \in 0..m /\ ~(n <= n - 1)
            /\ n - 1 \in Nat /\ n - 1 < m /\ (n - 1) + 1 = n
        BY ONLY <1>2, <2>3, <2>5, MaxScopes \in Nat
      <3>2. PutBack(s, g[n - 1], n - 1)
        BY ONLY <2>2, <3>1
      <3>3. g[n] = popredir(g[n - 1])
        BY ONLY <1>1, <3>1 DEF ResetSteps
      <3>4. PutBack(s, popredir(g[n - 1]), (n - 1) + 1)
        BY ONLY Simple, Sound(s), <3>1, <3>2, PutBackMore DEF m
      <3> QED
        BY ONLY <2>3, <3>1, <3>3, <3>4
    <2> QED
      BY ONLY <2>4, <2>5
  <1>4. m \in 0..m
    BY ONLY <1>2
  <1>5. PutBack(s, g[m], m)
    BY ONLY <1>3, <1>4
  <1> QED
    BY ONLY <1>1, <1>5 DEF ResetSteps, m

-----------------------------------------------------------------------------
(* Steps.                                                                  *)

\* Putting back what n commands saved is what Undone asks for.
LEMMA PutBackUndone ==
  ASSUME Simple, Sound(st), NEW n \in Nat, PutBack(st, st', n)
  PROVE  Undone
  <1> DEFINE names(k) == ToSet(st.redirlist[k].renamed)
             A(fd) == {k \in 1..n : \E r \in names(k) : r.orig = fd}
             B(fd) == {k \in 1..n : \E r \in names(k) : r.into = fd}
  <1>1. Len(st.redirlist) - Len(st'.redirlist) = n /\ n <= Len(st.redirlist)
    <2>1. Len(st.redirlist) \in Nat
      BY DEF Sound, States
    <2>2. Len(st'.redirlist) \in Nat /\ Len(st'.redirlist) = Len(st.redirlist) - n
      BY DEF PutBack, Sound, States
    <2> QED
      BY ONLY <2>1, <2>2, n \in Nat
  <1>2. \A k \in 1..n : k \in DOMAIN st.redirlist
    <2>1. Len(st.redirlist) \in Nat /\ DOMAIN st.redirlist = 1..Len(st.redirlist)
      BY DEF Sound, States
    <2>2. \A k \in 1..n : k \in 1..Len(st.redirlist)
      BY ONLY <1>1, <2>1, n \in Nat
    <2> QED
      BY ONLY <2>1, <2>2
  <1>3. \A k : \A r : r \in names(k) <=> \E i \in DOMAIN Saving(st, k) : r = Saving(st, k)[i]
    BY DEF ToSet, Saving
  <1>9. \A k \in 1..n : \A fd : k \in A(fd) <=> \E r \in names(k) : r.orig = fd
    <2> HIDE DEF names
    <2> QED
      OBVIOUS
  <1>10. \A k \in 1..n : \A fd : k \in B(fd) <=> \E r \in names(k) : r.into = fd
    <2> HIDE DEF names
    <2> QED
      OBVIOUS
  <1>11. \A fd : B(fd) \subseteq 1..n
    OBVIOUS
  <1> HIDE DEF names
  <1>4. \A fd : \A k \in 1..n : k \in A(fd) <=> fd \in Origs(st, k)
    <2> SUFFICES ASSUME NEW fd, NEW k \in 1..n PROVE k \in A(fd) <=> fd \in Origs(st, k)
      OBVIOUS
    <2>1. fd \in Origs(st, k) <=> \E i \in DOMAIN Saving(st, k) : Saving(st, k)[i].orig = fd
      BY ONLY DEF Origs
    <2>2. k \in A(fd) <=> \E r \in names(k) : r.orig = fd
      BY ONLY <1>9, k \in 1..n
    <2> HIDE DEF A
    <2> QED
      BY ONLY <1>3, <2>1, <2>2
  <1>5. ASSUME NEW fd \in UserFds PROVE B(fd) = {}
    <2> SUFFICES ASSUME NEW k \in 1..n, NEW i \in DOMAIN Saving(st, k),
                        Saving(st, k)[i].into = fd
                 PROVE  FALSE
      <3> HIDE DEF B
      <3>1. SUFFICES ASSUME NEW k \in B(fd) PROVE FALSE
        OBVIOUS
      <3>2. k \in 1..n
        BY ONLY <1>11, k \in B(fd)
      <3>3. PICK r \in names(k) : r.into = fd
        BY ONLY <1>10, <3>2, k \in B(fd)
      <3>4. PICK i \in DOMAIN Saving(st, k) : r = Saving(st, k)[i]
        BY ONLY <1>3, r \in names(k)
      <3> QED
        BY <3>2, <3>3, <3>4
    <2>1. st \in States /\ k \in DOMAIN st.redirlist
      BY <1>2 DEF Sound
    <2>2. Saving(st, k)[i].into \in Kept \cup {-1}
      <3>1. st.redirlist \in Seq(Scopes)
        BY ONLY <2>1 DEF States
      <3> QED
        BY ONLY <2>1, <3>1, i \in DOMAIN Saving(st, k), SavesOf
    <2>3. fd \in Fds /\ fd < LowFd
      BY Fd DEF Simple
    <2> QED
      BY ONLY <2>2, <2>3, Saving(st, k)[i].into = fd, Fd
  <1>6. ASSUME NEW fd \in UserFds
        PROVE  LET saved == Max({0} \cup A(fd))
               IN  /\ saved \in 0..n
                   /\ st'.fdt[fd] = IF saved > 0 THEN st.redirlist[saved].snap[fd]
                                    ELSE st.fdt[fd]
    <2> DEFINE saved == Max({0} \cup A(fd))
    <2>1. A(fd) \subseteq 1..n /\ {0} \cup A(fd) \subseteq 0..n
      <3>1. A(fd) \subseteq 1..n
        OBVIOUS
      <3> HIDE DEF A
      <3> QED
        BY ONLY <3>1, n \in Nat
    <2> HIDE DEF A
    <2>2. saved \in {0} \cup A(fd) /\ \A y \in {0} \cup A(fd) : saved >= y
      BY ONLY <2>1, n \in Nat, MaxIn
    <2> HIDE DEF saved
    <2>3. \A k \in 1..n : ~(k <= 0)
      BY ONLY n \in Nat
    <2>4. CASE saved \in A(fd)
      <3>1. saved \in 1..n /\ saved > 0
        BY ONLY <2>1, <2>4, n \in Nat
      <3>2. fd \in Origs(st, saved)
        BY ONLY <1>4, <2>4, <3>1
      <3>3. \A l \in 1..n : l > saved => fd \notin Origs(st, l)
        BY ONLY <1>4, <2>2, <3>1, n \in Nat
      <3>4. st'.fdt[fd] = st.redirlist[saved].snap[fd]
        BY ONLY <3>1, <3>2, <3>3, fd \in UserFds, PutBack(st, st', n) DEF PutBack
      <3> QED
        BY ONLY <3>1, <3>4, <2>1, <2>4 DEF saved
    <2>5. CASE saved = 0
      <3>1. \A k \in 1..n : k \notin A(fd)
        BY ONLY <2>2, <2>3, <2>5, n \in Nat
      <3>2. \A k \in 1..n : fd \notin Origs(st, k)
        BY ONLY <1>4, <3>1
      <3>3. st'.fdt[fd] = st.fdt[fd]
        BY ONLY <3>2, fd \in UserFds, PutBack(st, st', n) DEF PutBack
      <3>4. 0 \in 0..n /\ ~(0 > 0)
        BY ONLY n \in Nat
      <3> QED
        BY ONLY <2>5, <3>3, <3>4 DEF saved
    <2> QED
      BY ONLY <2>2, <2>4, <2>5
  <1>7. Max({0} \cup {}) = 0
    <2>1. {0} \cup {} \subseteq 0..0 /\ {0} \cup {} # {}
      OBVIOUS
    <2>2. Max({0} \cup {}) \in {0} \cup {}
      BY ONLY <2>1, 0 \in Nat, MaxIn
    <2> QED
      BY ONLY <2>2
  <1> HIDE DEF A, B
  <1>8. ASSUME NEW fd \in UserFds
        PROVE  Users(st'.fdt[fd]) =
                 IF Max({0} \cup A(fd)) > 0 /\ Max({0} \cup A(fd)) >= Max({0} \cup B(fd))
                 THEN Users(st.redirlist[Max({0} \cup A(fd))].snap[fd])
                 ELSE IF Max({0} \cup B(fd)) > 0 THEN none ELSE Users(st.fdt[fd])
    <2>1. Max({0} \cup B(fd)) = 0
      BY ONLY <1>5, <1>7, fd \in UserFds
    <2> DEFINE saved == Max({0} \cup A(fd))
    <2>2. /\ saved \in 0..n
          /\ st'.fdt[fd] = IF saved > 0 THEN st.redirlist[saved].snap[fd] ELSE st.fdt[fd]
      BY ONLY <1>6, fd \in UserFds
    <2> HIDE DEF saved
    <2>3. (saved > 0 /\ saved >= 0) <=> saved > 0
      BY ONLY <2>2, n \in Nat
    <2>4. ~(0 > 0)
      OBVIOUS
    <2>5. Users(st'.fdt[fd]) = IF saved > 0 /\ saved >= 0
                              THEN Users(st.redirlist[saved].snap[fd])
                              ELSE IF 0 > 0 THEN none ELSE Users(st.fdt[fd])
      <3>1. CASE saved > 0
        BY ONLY <2>2, <2>3, <3>1
      <3>2. CASE ~(saved > 0)
        BY ONLY <2>2, <2>3, <2>4, <3>2
      <3> QED
        BY ONLY <3>1, <3>2
    <2> QED
      BY ONLY <2>1, <2>5 DEF saved
  <1> QED
    BY ONLY <1>1, <1>8, Zenon DEF Undone, A, B, names

\* There is nothing to undo while no command is over.
LEMMA NoneOver ==
  ASSUME Sound(st), Sound(st'), Len(st'.redirlist) >= Len(st.redirlist)
  PROVE  Undone
  <1>1. Len(st.redirlist) \in Nat /\ Len(st'.redirlist) \in Nat
    BY DEF Sound, States
  <1>3. PICK a \in Nat, b \in Nat : a = Len(st.redirlist) /\ b = Len(st'.redirlist)
    BY ONLY <1>1
  <1>4. b >= a
    BY ONLY <1>3, Len(st'.redirlist) >= Len(st.redirlist)
  <1>5. ~(a - b > 0)
    BY ONLY <1>4, a \in Nat, b \in Nat
  <1>2. ~(Len(st.redirlist) - Len(st'.redirlist) > 0)
    BY ONLY <1>3, <1>5
  <1> QED
    BY ONLY <1>2, Zenon DEF Undone

\* When n commands are over, and nothing is being redirected, all is in order.
LEMMA OverRight ==
  ASSUME Simple, RInv, NEW n \in Nat, PutBack(st, st', n), held' = held,
         pc' = "idle", mode' = "exec"
  PROVE  RInv' /\ Undone
  <1>1. Sound(st) /\ held = st.shfds /\ Len(st.redirlist) <= MaxScopes
    BY DEF RInv
  <1>2. PICK x : x = st'
    OBVIOUS
  <1>3. Sound(x) /\ x.shfds = st.shfds /\ Len(x.redirlist) = Len(st.redirlist) - n
    BY ONLY <1>2, PutBack(st, st', n) DEF PutBack
  <1>4. Len(st.redirlist) \in Nat /\ MaxScopes \in Nat
    BY <1>1 DEF Sound, States
  <1>5. Len(x.redirlist) <= MaxScopes
    BY ONLY <1>1, <1>3, <1>4, n \in Nat
  <1>6. RInv'
    BY <1>1, <1>2, <1>3, <1>5 DEF RInv
  <1>7. Undone
    BY ONLY <1>1, Simple, n \in Nat, PutBack(st, st', n), PutBackUndone
  <1> QED
    BY ONLY <1>6, <1>7

\* One command is over, or its redirections have failed.
LEMMA PopsRight ==
  ASSUME Simple, RInv, Over \/ Recover
  PROVE  RInv' /\ Undone
  <1>1. Sound(st) /\ st.redirlist # <<>>
    BY DEF RInv, Over, Recover
  <1>2. st' = popredir(st) /\ held' = held /\ pc' = "idle" /\ mode' = "exec"
    BY DEF RInv, Over, Recover, Idle
  <1>3. 0 \in Nat /\ 0 < Len(st.redirlist) /\ 0 + 1 = 1 /\ 1 \in Nat
    <2>1. Len(st.redirlist) \in Nat /\ Len(st.redirlist) # 0
      BY ONLY Simple, <1>1, PopRight
    <2> QED
      BY ONLY <2>1
  <1>4. PutBack(st, st, 0)
    BY ONLY <1>1, PutBackNone
  <1>5. PutBack(st, popredir(st), 0 + 1)
    BY ONLY Simple, <1>1, <1>3, <1>4, PutBackMore
  <1>6. PutBack(st, st', 1)
    BY ONLY <1>2, <1>3, <1>5
  <1> QED
    BY ONLY Simple, RInv, <1>2, <1>3, <1>6, OverRight

\* After an error all commands are over.
LEMMA ResetsRight ==
  ASSUME Simple, RInv, Reset
  PROVE  RInv' /\ Undone
  <1>1. Sound(st) /\ Len(st.redirlist) <= MaxScopes
    BY DEF RInv
  <1>2. st' = resets(st) /\ held' = held /\ pc' = "idle" /\ mode' = "exec"
    BY DEF Reset, Idle
  <1>3. Len(st.redirlist) \in Nat
    BY <1>1 DEF Sound, States
  <1>4. PutBack(st, st', Len(st.redirlist))
    BY ONLY Simple, <1>1, <1>2, ResetRight
  <1> QED
    BY ONLY Simple, RInv, <1>2, <1>3, <1>4, OverRight

LEMMA InitRight ==
  ASSUME Init
  PROVE  RInv
  <1>1. /\ st.fdt = [fd \in Fds |-> IF fd \in Open0 THEN "in" ELSE none] /\ st.cx = {}
        /\ st.redirlist = <<>> /\ st.fd0_redirected = 0 /\ st.big = 0 /\ st.start = 0
        /\ st.shfds = [o \in Owners |-> -1]
        /\ st = [fdt |-> st.fdt, cx |-> st.cx, redirlist |-> st.redirlist,
                 fd0_redirected |-> st.fd0_redirected, big |-> st.big, start |-> st.start,
                 shfds |-> st.shfds]
    BY DEF Init
  <1>2. st \in States
    <2>1. st.fdt \in [Fds -> Files]
      BY <1>1 DEF Files
    <2>2. st.shfds \in [Owners -> Kept \cup {-1}]
      BY <1>1
    <2>3. st.redirlist \in Seq(Scopes)
      BY <1>1
    <2>4. PICK f \in [Fds -> Files], q \in Seq(Scopes), sh \in [Owners -> Kept \cup {-1}] :
            f = st.fdt /\ q = st.redirlist /\ sh = st.shfds
      BY ONLY <2>1, <2>2, <2>3
    <2>5. st = [fdt |-> f, cx |-> {}, redirlist |-> q, fd0_redirected |-> 0, big |-> 0,
                start |-> 0, shfds |-> sh]
      BY ONLY <1>1, <2>4
    <2> QED
      BY ONLY <2>5, f \in [Fds -> Files], q \in Seq(Scopes), sh \in [Owners -> Kept \cup {-1}]
         DEF States
  <1>3. DOMAIN st.redirlist = {} /\ Len(st.redirlist) = 0
    BY <1>1
  <1>4. Owned(st) /\ Copied(st) /\ Apart(st)
    BY <1>1, <1>3 DEF Owned, Copied, Apart
  <1>5. Full(st)
    BY <1>1 DEF Full
  <1>6. held = st.shfds /\ pc = "idle" /\ mode = "exec"
    BY DEF Init
  <1>7. Len(st.redirlist) <= MaxScopes
    BY <1>3
  <1> QED
    BY <1>2, <1>4, <1>5, <1>6, <1>7 DEF RInv, Sound

LEMMA NextRight ==
  ASSUME Simple, RInv, [Next]_vars
  PROVE  RInv' /\ Undone
  <1>1. ASSUME RInv', Len(st'.redirlist) >= Len(st.redirlist) PROVE Undone
    <2>1. Sound(st) /\ Sound(st')
      BY <1>1 DEF RInv
    <2> QED
      BY ONLY <1>1, <2>1, NoneOver
  <1>2. Len(st.redirlist) >= Len(st.redirlist)
    <2>1. Len(st.redirlist) \in Nat
      BY DEF RInv, Sound, States
    <2> QED
      BY ONLY <2>1
  <1>3. ASSUME NEW m \in {"builtin", "compound", "exec"}, Begin(m) PROVE RInv' /\ Undone
    BY ONLY <1>1, <1>3, RInv, BeginRight
  <1>4. ASSUME NEW r \in Redirections, Redirect(r) PROVE RInv' /\ Undone
    <2>1. RInv' /\ Len(st'.redirlist) = Len(st.redirlist)
      BY ONLY <1>4, Simple, RInv, RedirectRight
    <2> QED
      BY ONLY <1>1, <1>2, <2>1
  <1>5. CASE Redirected
    <2>1. st' = st /\ held' = held /\ pc' = "idle" /\ mode' = "exec"
      BY <1>5 DEF Redirected, Idle
    <2>2. RInv'
      BY <2>1 DEF RInv
    <2> QED
      BY ONLY <1>1, <1>2, <2>1, <2>2
  <1>6. CASE Over \/ Recover
    BY ONLY <1>6, Simple, RInv, PopsRight
  <1>7. CASE Reset
    BY ONLY <1>7, Simple, RInv, ResetsRight
  <1>8. ASSUME NEW o \in Owners, Acquire(o) \/ Release(o) PROVE RInv' /\ Undone
    <2>1. RInv' /\ st'.redirlist = st.redirlist
      BY ONLY <1>8, Simple, RInv, AcquireRight, ReleaseRight
    <2> QED
      BY ONLY <1>1, <1>2, <2>1
  <1>9. CASE UNCHANGED vars
    <2>1. st' = st /\ held' = held /\ pc' = pc /\ mode' = mode
      BY <1>9 DEF vars
    <2>2. RInv'
      BY <2>1 DEF RInv
    <2> QED
      BY ONLY <1>1, <1>2, <2>1, <2>2
  <1> QED
    BY ONLY <1>3, <1>4, <1>5, <1>6, <1>7, <1>8, <1>9, [Next]_vars DEF Next

-----------------------------------------------------------------------------
(* The theorems.                                                           *)

\* RInv holds in every reachable state, in the circumstances Simple.
THEOREM RedirRight == ASSUME Simple PROVE Spec => []RInv
  <1>1. Init => RInv
    BY InitRight
  <1>2. RInv /\ [Next]_vars => RInv'
    BY ONLY Simple, NextRight
  <1> QED
    BY <1>1, <1>2, PTL DEF Spec

\* The shell's own descriptor stays open on what it was opened on, and its owner
\* knows where (sh_fd_list, renumber_sh_fd and the callbacks): popredir never puts a
\* copy where the shell reads its script, and no redirection closes it.
THEOREM ShellFdsKept == ASSUME Simple PROVE Spec => []ShellFdsSafe
  <1>1. RInv => ShellFdsSafe
    BY DEF RInv, Sound, Owned, ShellFdsSafe
  <1> QED
    BY <1>1, RedirRight, PTL

\* Above the user's descriptors there is nothing but the copies redirect has made
\* for commands that are not over, and the shell's own, and neither is inherited:
\* popredir and the error paths of redirect leave none behind and lose none.
THEOREM NoCopyLeft == ASSUME Simple PROVE Spec => []NothingLeft
  <1>1. RInv => NothingLeft
    <2> SUFFICES ASSUME RInv PROVE NothingLeft
      OBVIOUS
    <2>1. Sound(st) /\ st \in States /\ held = st.shfds /\ held \in [Owners -> Kept \cup {-1}]
      BY DEF RInv, Sound, States
    <2> DEFINE Mine == {held[o] : o \in Owners}
    <2>2. ASSUME NEW fd
          PROVE  fd \in Copies <=> fd # -1 /\ \E k \in DOMAIN st.redirlist :
                                     \E i \in DOMAIN Saving(st, k) : Saving(st, k)[i].into = fd
      BY DEF Copies, ToSet, Saving
    <2>3. ASSUME NEW fd \in Copies
          PROVE  fd \in Kept /\ st.fdt[fd] # none /\ fd \in st.cx
      <3>4. PICK k \in DOMAIN st.redirlist :
              fd # -1 /\ \E i \in DOMAIN Saving(st, k) : Saving(st, k)[i].into = fd
        BY <2>2
      <3>1. PICK i \in DOMAIN Saving(st, k) : Saving(st, k)[i].into = fd /\ fd # -1
        BY <3>4
      <3>2. CopyKept(st, st.redirlist[k].snap, Saving(st, k)[i])
        BY <2>1 DEF Sound, Copied
      <3>3. fd \in Kept \cup {-1}
        BY ONLY <2>1, <3>1, k \in DOMAIN st.redirlist, i \in DOMAIN Saving(st, k), SavesOf
      <3> QED
        BY <3>1, <3>2, <3>3 DEF CopyKept
    <2>4. ASSUME NEW fd \in Mine, fd # -1
          PROVE  fd \in Kept /\ st.fdt[fd] # none /\ fd \in st.cx
      <3>1. PICK o \in Owners : held[o] = fd
        OBVIOUS
      <3>2. st.fdt[fd] = o /\ fd \in st.cx
        BY <2>1, <2>4, <3>1 DEF Sound, Owned
      <3>3. o # none
        BY DEF Simple, none
      <3> QED
        BY <2>1, <2>4, <3>1, <3>2, <3>3
    <2>5. ASSUME NEW fd \in Fds \ UserFds, st.fdt[fd] # none
          PROVE  fd \in Copies \cup Mine /\ fd # -1
      <3>1. fd # -1
        BY Fd
      <3>2. \/ \E o \in Owners : st.shfds[o] = fd
            \/ \E k \in DOMAIN st.redirlist : \E i \in DOMAIN Saving(st, k) :
                 Saving(st, k)[i].into = fd
        BY <2>1, <2>5 DEF Sound, Full
      <3> QED
        BY <2>1, <2>2, <3>1, <3>2
    <2> HIDE DEF Mine
    <2>6. {fd \in Fds \ UserFds : IsOpen(st, fd)} = (Copies \cup Mine) \ ({-1} \cup UserFds)
      BY <2>3, <2>4, <2>5, Fd DEF IsOpen
    <2>7. (Copies \cup Mine) \ {-1} \subseteq st.cx
      BY <2>3, <2>4
    <2> QED
      BY <2>6, <2>7 DEF NothingLeft, Mine
  <1> QED
    BY <1>1, RedirRight, PTL

\* However a command ends, and however its redirections went wrong, each descriptor
\* it redirected is open on what it was open on when it began, the outermost of
\* those that end together, and the others are left alone (popredir).
THEOREM RedirectionsAreUndone == ASSUME Simple PROVE Spec => RedirectionsUndone
  <1>1. RInv /\ [Next]_vars => [Undone]_vars
    BY ONLY Simple, NextRight
  <1> QED
    BY <1>1, RedirRight, PTL DEF Spec, RedirectionsUndone
=============================================================================
