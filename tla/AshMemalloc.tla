---------------------------- MODULE AshMemalloc ----------------------------
(***************************************************************************)
(* The stack allocator of the ash shell (memalloc.c) and the ways the      *)
(* shell uses it: commands that mark the stack and restore it, strings     *)
(* that grow on top of it, the expansions that put a string aside while    *)
(* something else uses the stack, and exceptions that leave frames behind. *)
(*                                                                         *)
(* Bytes are counted, not stored.  A pointer is a block and an offset; a   *)
(* block that realloc moves gets another name, and pointers to its old one *)
(* lead nowhere.                                                           *)
(***************************************************************************)
EXTENDS Integers, Sequences, SequencesExt

CONSTANTS
  Unit,                   \* SHELL_SIZE + 1, the alignment
  MINSIZE,                \* size of stackbase and least size of a block
  Extra,                  \* what growstackblock adds to twice the size (100)
  HereSize,               \* growstackstr writes a here document out (1024)
  Kinds,                  \* expansions that put the string aside
  MayFail,                \* the calls that may run out of space
  MaxBlocks, MaxSize,     \* bounds: blocks at a time, and their size
  MaxFrames, MaxAllocs    \* bounds: marks and allocations in use

ASSUME ConstAssumption ==
  /\ Unit \in Nat \ {0, 1} /\ MINSIZE \in Nat \ {0} /\ MINSIZE % Unit = 0
  /\ Extra \in Nat \ {0} /\ HereSize \in Nat \ {0}
  /\ Kinds \subseteq {"arith", "prompt", "backquote", "tilde"}
  /\ MayFail \subseteq {"malloc", "realloc"}
  /\ MaxBlocks \in Nat \ {0} /\ MaxSize \in Nat
  /\ MaxFrames \in Nat \ {0} /\ MaxAllocs \in Nat

VARIABLES
  st,                     \* the globals of memalloc.c
  frames,                 \* functions of the shell that hold a mark, innermost last
  str,                    \* the string that grows: expdest or the like
  allocs,                 \* history: what is allocated, and by which frame
  wild                    \* history: something was written where nothing is

vars == <<st, frames, str, allocs, wild>>

\* st.chain is stackp and the blocks behind it, oldest first; st.mark[f] the
\* mark in frame f, st.markp the frame whose mark is the first of the list.
NoMark == [blk |-> 1, nxt |-> [blk |-> 1, off |-> 0], left |-> MINSIZE,
           sstr |-> 0, next |-> 0]
NoStr == [on |-> FALSE, dest |-> [blk |-> 1, off |-> 0], here |-> FALSE]

Ids(s) == {b.id : b \in ToSet(s.chain)}
SizeOf(s, id) == (CHOOSE b \in ToSet(s.chain) : b.id = id).size
stackp(s) == Last(s.chain)
Length(s, dest) == dest.off - s.nxt.off
At(p, n) == [p EXCEPT !.off = @ + n]

-----------------------------------------------------------------------------
(* memalloc.c                                                              *)

Align(n) == ((n + Unit - 1) \div Unit) * Unit

Fresh(s) == (1..MaxBlocks) \ Ids(s)

stalloc(s, n) ==
  LET nbytes == Align(n)
      id == Min(Fresh(s))
      size == Max({nbytes, MINSIZE})
      room == IF nbytes <= s.left THEN s
              ELSE [s EXCEPT !.chain = Append(@, [id |-> id, size |-> size]),
                             !.nxt = [blk |-> id, off |-> 0], !.left = size]
  IN [room EXCEPT !.nxt = At(@, nbytes), !.left = @ - nbytes]

\* The address stalloc returns.
Allocated(s, n) == At(stalloc(s, n).nxt, -Align(n))

\* Mutant: the space is not counted as free again.
stunallocKeeps(s, p) == [s EXCEPT !.nxt = p]
stunalloc(s, p) == [s EXCEPT !.left = @ + s.nxt.off - p.off, !.nxt = p]

setstackmark(s, f) ==
  [s EXCEPT !.mark[f] = [blk |-> stackp(s).id, nxt |-> s.nxt, left |-> s.left,
                         sstr |-> s.sstr, next |-> s.markp],
            !.markp = f]

rststackmark(s, f) ==
  LET m == s.mark[f]
      kept == {k \in DOMAIN s.chain : s.chain[k].id = m.blk}
  IN [s EXCEPT !.chain = SubSeq(@, 1, Min(kept)),
               !.nxt = m.nxt, !.left = m.left, !.sstr = m.sstr]

\* The loop of rststackmark finds the block of the mark.
Restorable(s, f) == s.mark[f].blk \in Ids(s)

\* The mark is gone with its function, except main's.
popstackmark(s, f) ==
  [rststackmark(s, f) EXCEPT !.markp = s.mark[f].next,
     !.mark = [g \in DOMAIN @ |-> IF g >= f /\ g > 1 THEN NoMark ELSE @[g]]]

NewLen(s) == Align(s.left * 2 + Extra)

\* Mutant: whatever else is in the block.
InPlaceAlways(s) == Len(s.chain) > 1

\* realloc is for a block with nothing in it but the string.
InPlace(s) == s.nxt.off = 0 /\ Len(s.chain) > 1

\* Mutant: only the innermost mark is relocated.
RelocatedFirst(s, id) == {f \in 1..MaxFrames : f = s.markp /\ s.mark[f].blk = id}

\* The marks at the head of the list that point to the block id.
Relocated(s, id) ==
  {f \in 1..MaxFrames :
    /\ f <= s.markp
    /\ \A g \in f..s.markp : s.mark[g].blk = id}

\* realloc gives the block the name id.
Regrown(s, id) ==
  LET new == NewLen(s)
  IN [s EXCEPT
        !.chain[Len(s.chain)] = [id |-> id, size |-> new],
        !.nxt = [blk |-> id, off |-> 0],
        !.sstr = @ + new - s.left,
        !.left = new,
        !.mark = [f \in DOMAIN s.mark |->
                    IF f \in Relocated(s, stackp(s).id)
                    THEN [s.mark[f] EXCEPT !.blk = id, !.nxt = [blk |-> id, off |-> 0],
                                           !.sstr = @ + new - s.mark[f].left, !.left = new]
                    ELSE s.mark[f]]]

\* Otherwise the string moves on to a block of its own.
NewSpace(s) ==
  LET p == Allocated(s, NewLen(s))
      a == stalloc(s, NewLen(s))
  IN [a EXCEPT !.nxt = p, !.left = @ + NewLen(s)]

\* What growstackblock may leave behind.
growstackblock(s) ==
  IF InPlace(s) THEN {Regrown(s, id) : id \in {stackp(s).id} \cup Fresh(s)}
  ELSE {NewSpace(s)}

CanAlloc(s, n) == Align(n) > s.left => Fresh(s) # {} /\ Align(n) <= MaxSize
CanGrow(s) == NewLen(s) <= MaxSize /\ (InPlace(s) \/ Fresh(s) # {})

-----------------------------------------------------------------------------
(* Strings.                                                                *)

\* Nothing is written at p unless it is in a block.
Bad(s, p) == p.blk \notin Ids(s) \/ p.off < 0 \/ p.off >= SizeOf(s, p.blk)

\* Between two strings sstrnleft is what the last one left, and STARTSTACKSTR sets
\* it before it is read again: here it is 0.
Idle(s) == [s EXCEPT !.sstr = 0]

StartString(here) ==                     \* STARTSTACKSTR
  /\ ~str.on
  /\ st' = [st EXCEPT !.sstr = st.left]
  /\ str' = [on |-> TRUE, dest |-> st.nxt, here |-> here]
  /\ UNCHANGED <<frames, allocs, wild>>

\* Mutant: the new string space is counted without what the string has.
growstackstrAll(s, here) ==
  IF here /\ s.left >= HereSize
  THEN {[s |-> [s EXCEPT !.sstr = s.left - 1], p |-> s.nxt]}
  ELSE {[s |-> [g EXCEPT !.sstr = g.left - 1], p |-> At(g.nxt, s.left)] :
        g \in growstackblock(s)}

\* growstackstr returns the address of the next character.
growstackstr(s, here) ==
  IF here /\ s.left >= HereSize
  THEN {[s |-> [s EXCEPT !.sstr = s.left - 1], p |-> s.nxt]}
  ELSE {[s |-> [g EXCEPT !.sstr = g.left - s.left - 1], p |-> At(g.nxt, s.left)] :
        g \in growstackblock(s)}

Flushes(s, here) == here /\ s.left >= HereSize

STPUTC ==
  /\ str.on
  /\ IF st.sstr > 0
     THEN /\ st' = [st EXCEPT !.sstr = @ - 1]
          /\ str' = [str EXCEPT !.dest = At(@, 1)]
          /\ wild' = Bad(st, str.dest)
     ELSE /\ Flushes(st, str.here) \/ CanGrow(st)
          /\ \E g \in growstackstr(st, str.here) :
               /\ st' = g.s
               /\ str' = [str EXCEPT !.dest = At(g.p, 1)]
               /\ wild' = Bad(g.s, g.p)
  /\ UNCHANGED <<frames, allocs>>

\* The string is used where it is, and dropped.
STACKSTRNUL ==
  /\ str.on
  /\ IF st.sstr # 0
     THEN st' = Idle(st) /\ wild' = Bad(st, str.dest)
     ELSE /\ Flushes(st, str.here) \/ CanGrow(st)
          /\ \E g \in growstackstr(st, str.here) :
               st' = Idle(g.s) /\ wild' = Bad(g.s, g.p)
  /\ str' = NoStr
  /\ UNCHANGED <<frames, allocs>>

\* CHECKSTRSPACE(n, p) with makestrspace, and n times USTPUTC.
CheckPut(n) ==
  /\ str.on
  /\ st.sstr < n => CanGrow(st)
  /\ \E g \in IF st.sstr >= n THEN {[s |-> st, p |-> str.dest]}
              ELSE {[s |-> [x EXCEPT !.sstr = x.left - (st.left - st.sstr)],
                     p |-> At(x.nxt, st.left - st.sstr)] : x \in growstackblock(st)} :
       /\ st' = [g.s EXCEPT !.sstr = @ - n]
       /\ str' = [str EXCEPT !.dest = At(g.p, n)]
       /\ wild' = \E k \in 0..(n - 1) : Bad(g.s, At(g.p, k))
  /\ UNCHANGED <<frames, allocs>>

\* STADJUST: what an expansion has put there is taken back.
STADJUST(n) ==
  /\ str.on /\ n > 0 /\ n <= Length(st, str.dest)
  /\ st' = [st EXCEPT !.sstr = @ + n]
  /\ str' = [str EXCEPT !.dest = At(@, -n)]
  /\ UNCHANGED <<frames, allocs, wild>>

Note(p, n, depth, aside) ==
  Append(allocs, [blk |-> p.blk, off |-> p.off, len |-> n, depth |-> depth, aside |-> aside])

\* A string is grabbed with its final NUL.
grabstackstr ==
  /\ str.on /\ Len(allocs) < MaxAllocs /\ Length(st, str.dest) > 0
  /\ CanAlloc(st, Length(st, str.dest))
  /\ st' = Idle(stalloc(st, Length(st, str.dest)))
  /\ allocs' = Note(st.nxt, Length(st, str.dest), Len(frames), FALSE)
  /\ str' = NoStr
  /\ UNCHANGED <<frames, wild>>

\* The last thing allocated is this frame's, and on top.
OnTop ==
  /\ allocs # <<>> /\ Last(allocs).depth = Len(frames)
  /\ Last(allocs).blk = st.nxt.blk /\ ~Last(allocs).aside

\* ungrabstackstr(s, p): the string goes on to grow.
ungrabstackstr ==
  /\ ~str.on /\ OnTop
  /\ LET a == Last(allocs)
         s == [blk |-> a.blk, off |-> a.off]
         u == stunalloc(st, s)
     IN /\ st' = [u EXCEPT !.sstr = u.left - a.len]
        /\ str' = [on |-> TRUE, dest |-> At(s, a.len), here |-> FALSE]
  /\ allocs' = Front(allocs)
  /\ UNCHANGED <<frames, wild>>

-----------------------------------------------------------------------------
(* Allocation, marks, expansions.                                          *)

Alloc(n) ==
  /\ ~str.on /\ Len(allocs) < MaxAllocs /\ CanAlloc(st, n)
  /\ st' = stalloc(st, n)
  /\ allocs' = Note(Allocated(st, n), n, Len(frames), FALSE)
  /\ UNCHANGED <<frames, str, wild>>

Unalloc ==
  /\ ~str.on /\ OnTop
  /\ st' = stunalloc(st, [blk |-> Last(allocs).blk, off |-> Last(allocs).off])
  /\ allocs' = Front(allocs)
  /\ UNCHANGED <<frames, str, wild>>

\* padvance and parsebackq make room before they start.
GrowRoom ==
  /\ ~str.on /\ CanGrow(st)
  /\ \E g \in growstackblock(st) : st' = Idle(g)
  /\ UNCHANGED <<frames, str, allocs, wild>>

\* What was allocated before the k-th mark was set.
Before(k) == SubSeq(allocs, 1, Max({0} \cup {i \in DOMAIN allocs : allocs[i].depth < k}))

\* evaltree, evalcommand, evalstring, cmdloop and so on.
EnterCommand ==
  /\ ~str.on /\ Len(frames) < MaxFrames
  /\ frames' = Append(frames, [kind |-> "command", str |-> NoStr, loc |-> 0])
  /\ st' = setstackmark(st, Len(frames'))
  /\ UNCHANGED <<str, allocs, wild>>

LeaveCommand ==
  /\ Last(frames).kind = "command" /\ Len(frames) > 1
  /\ Restorable(st, Len(frames))
  /\ st' = Idle(popstackmark(st, Len(frames)))
  /\ frames' = Front(frames)
  /\ allocs' = Before(Len(frames))
  /\ str' = NoStr
  /\ UNCHANGED wild

\* The loops of evalstring and cmdloop restore the stack and go on.
NextCommand ==
  /\ Last(frames).kind = "command" /\ Len(frames) > 1
  /\ Restorable(st, Len(frames))
  /\ st' = Idle(rststackmark(st, Len(frames)))
  /\ allocs' = Before(Len(frames))
  /\ str' = NoStr
  /\ UNCHANGED <<frames, wild>>

\* expari, expandstr, expbackq and exptilde set a mark and put aside what there
\* is of the string; expandstr takes the whole block.
PutAside(kind) ==
  /\ str.on /\ Len(frames) < MaxFrames /\ Len(allocs) < MaxAllocs
  /\ kind = "arith" => Length(st, str.dest) > 0
  /\ LET marked == setstackmark(st, Len(frames) + 1)
         n == IF kind = "prompt" THEN st.left ELSE Length(st, str.dest)
     IN /\ CanAlloc(marked, n)
        /\ st' = IF kind = "tilde" THEN stalloc(marked, n) ELSE Idle(stalloc(marked, n))
        /\ allocs' = Note(st.nxt, Length(st, str.dest), Len(frames) + 1, TRUE)
  /\ \E loc \in 0..Length(st, str.dest) :
       /\ loc = Length(st, str.dest) \/ kind = "arith"
       /\ frames' = Append(frames, [kind |-> kind, str |-> str, loc |-> loc])
  /\ str' = IF kind = "tilde" THEN [str EXCEPT !.dest = st'.nxt] ELSE NoStr
  /\ UNCHANGED wild

\* popstackmark, and the string goes on; expari drops the expression first.
TakeUp ==
  /\ Last(frames).kind \in Kinds
  /\ Restorable(st, Len(frames))
  /\ LET s == popstackmark(st, Len(frames))
         f == Last(frames)
         n == IF f.kind = "arith" THEN Length(s, f.str.dest) - f.loc ELSE 0
     IN /\ st' = [s EXCEPT !.sstr = @ + n]
        /\ str' = [f.str EXCEPT !.dest = At(@, -n)]
  /\ frames' = Front(frames)
  /\ allocs' = Before(Len(frames))
  /\ UNCHANGED wild

\* Where exceptions are caught: evalcommand pops its mark, main the first one.
Caught(s, k) ==
  /\ frames[k].kind = "command"
  /\ IF Restorable(s, k)
     THEN st' = Idle(popstackmark(s, k)) /\ UNCHANGED wild
     ELSE UNCHANGED st /\ wild' = TRUE
  /\ frames' = SubSeq(frames, 1, IF k = 1 THEN 1 ELSE k - 1)
  /\ allocs' = Before(k)
  /\ str' = NoStr

Error == \E k \in DOMAIN frames : Caught(st, k)

\* ckmalloc and ckrealloc raise an error; growstackblock has already set stackp
\* to the block below.
OutOfSpace ==
  \E call \in MayFail, k \in DOMAIN frames :
    /\ call = "realloc" => InPlace(st)
    /\ Caught(IF call = "realloc" THEN [st EXCEPT !.chain = Front(@)] ELSE st, k)

-----------------------------------------------------------------------------
(* The specification.                                                      *)

\* main has set its mark, which looks like NoMark.
Init ==
  /\ st = [chain |-> <<[id |-> 1, size |-> MINSIZE]>>,
           nxt |-> [blk |-> 1, off |-> 0], left |-> MINSIZE, sstr |-> 0,
           mark |-> [f \in 1..MaxFrames |-> NoMark], markp |-> 1]
  /\ frames = <<[kind |-> "command", str |-> NoStr, loc |-> 0]>>
  /\ str = NoStr /\ allocs = <<>> /\ wild = FALSE

Next ==
  /\ ~wild
  /\ \/ \E here \in BOOLEAN : StartString(here)
     \/ STPUTC \/ STACKSTRNUL \/ CheckPut(2)
     \/ \E n \in 1..MaxSize : STADJUST(n)
     \/ grabstackstr \/ ungrabstackstr
     \/ \E n \in {1, MINSIZE, MINSIZE + 1} : Alloc(n)
     \/ Unalloc \/ GrowRoom
     \/ EnterCommand \/ LeaveCommand \/ NextCommand
     \/ \E kind \in Kinds : PutAside(kind)
     \/ TakeUp \/ Error \/ OutOfSpace

Spec == Init /\ [][Next]_vars

-----------------------------------------------------------------------------
(* Properties.                                                             *)

\* The space there is: what is free and what is in use make up the block on top,
\* in aligned pieces, so that an allocation that fits the string never moves it.
StackSound ==
  /\ st.chain # <<>> /\ st.chain[1] = [id |-> 1, size |-> MINSIZE]
  /\ \A i, j \in DOMAIN st.chain : st.chain[i].id = st.chain[j].id => i = j
  /\ st.nxt.blk = stackp(st).id
  /\ st.nxt.off >= 0 /\ st.left >= 0
  /\ st.nxt.off + st.left = stackp(st).size
  /\ st.nxt.off % Unit = 0 /\ st.left % Unit = 0

\* The list leads through the marks of the functions that are still running,
\* innermost first, also after an exception; every mark is a state the stack
\* can go back to, wherever realloc has moved the block.
MarksSound ==
  /\ StackSound
  /\ st.markp = Len(frames) \/ (st.markp = 0 /\ Len(frames) = 1)
  /\ \A f \in DOMAIN frames :
       LET m == st.mark[f]
       IN /\ f > 1 => m.next = f - 1 \/ (m.next = 0 /\ f = 2)
          /\ Restorable(st, f)
          /\ m.nxt.blk = m.blk /\ m.nxt.off >= 0 /\ m.left >= 0
          /\ m.nxt.off + m.left = SizeOf(st, m.blk)

\* p comes before q on the stack.
Below(p, q) ==
  LET Pos(id) == CHOOSE i \in DOMAIN st.chain : st.chain[i].id = id
  IN /\ {p.blk, q.blk} \subseteq Ids(st)
     /\ IF p.blk = q.blk THEN p.off <= q.off ELSE Pos(p.blk) < Pos(q.blk)

\* What is allocated stays where it is until it is released: it is below what
\* is free, below whatever was allocated later, and below the marks that were
\* set later, so that restoring one of them keeps it.
AllocsKept ==
  \A i \in DOMAIN allocs :
    LET end == [blk |-> allocs[i].blk, off |-> allocs[i].off + allocs[i].len]
    IN /\ Below(end, st.nxt)
       /\ i < Len(allocs) => Below(end, allocs[i + 1])
       /\ \A f \in DOMAIN frames : allocs[i].depth < f => Below(end, st.mark[f].nxt)

\* The characters of the string and those that may be added without growing it
\* are exactly the space on top of the stack.
StringExact ==
  str.on => /\ str.dest.blk = st.nxt.blk /\ Length(st, str.dest) >= 0
            /\ st.sstr = st.left - Length(st, str.dest)

\* What memalloc.c says of STPUTC: the stack is grown as necessary, so every
\* character goes into a block of the stack.
InSpace == ~wild
=============================================================================
