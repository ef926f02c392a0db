-------------------------- MODULE AshCommandsProofs --------------------------
(***************************************************************************)
(* Proofs about AshCommands, for every set of variables, values, commands  *)
(* and programs, and every nesting of functions.                           *)
(***************************************************************************)
EXTENDS AshCommands, FiniteSetTheorems, NaturalsInduction, WellFoundedInduction, TLAPS

Variables == [text : 0..MaxTexts, flags : SUBSET Flags]
Copies == [var : Vars \cup {"-"}, text : 0..MaxTexts, flags : SUBSET Flags, aflag : BOOLEAN]
Calls == [func : 0..MaxFuncs, localvars : Seq(Copies)]
Entries == [cmdtype : CmdTypes, param : Nat, rehash : BOOLEAN]
Contents == Texts \cup {Free, Freed}
Shells == [vartab : [Vars -> Variables], texts : [TextIds -> Contents], frames : Seq(Calls),
           aflag : BOOLEAN, cmdtable : [Commands -> Entries], builtinloc : Nat \cup {-1},
           funcs : [FuncIds -> Nat], cwd : Dirs, err : BOOLEAN, entry : Entries]

\* c is the j-th saved copy of the i-th function being run.
Has(fr, i, j, c) ==
  i \in 1..Len(fr) /\ j \in 1..Len(fr[i].localvars) /\ c = fr[i].localvars[j]
Earlier(i, j, k, l) == i < k \/ (i = k /\ j < l)

Alive(tx, t) == t # 0 => t \in TextIds /\ tx[t] \notin {Free, Freed}
Kept(x) == x.text # 0 /\ "VSTRFIXED" \in x.flags

\* Each text is freed by one owner at most: of the variable and its saved copies that
\* point to the same text, all but the oldest copy are marked VTEXTFIXED.
Owned(vt, tx, fr) ==
  /\ \A v \in Vars : Alive(tx, vt[v].text)
  /\ \A v, w \in Vars : vt[v].text # 0 /\ vt[v].text = vt[w].text => v = w
  /\ \A i, j, c : Has(fr, i, j, c) => Alive(tx, c.text)
  /\ \A i, j, c, v : Has(fr, i, j, c) /\ v \in Vars /\ vt[v].text # 0 /\ vt[v].text = c.text
       => v = c.var /\ "VTEXTFIXED" \in vt[v].flags
  /\ \A i, j, c, k, l, d :
       /\ Has(fr, i, j, c) /\ Has(fr, k, l, d) /\ Earlier(i, j, k, l)
       /\ d.text # 0 /\ c.text = d.text
       => c.var = d.var /\ "VTEXTFIXED" \in d.flags
  /\ Kept(vt["PATH"])
  /\ \A i, j, c : Has(fr, i, j, c) /\ c.var = "PATH" => Kept(c)

\* n texts more can be allocated.
Left(tx, n) == Cardinality({t \in TextIds : tx[t] = Free}) >= n

\* The texts and what points to them, with fr for the saved copies.
Heap(s, fr, n) == s \in Shells /\ Owned(s.vartab, s.texts, fr) /\ Left(s.texts, n)

IsFunction(ct, c) == ct[c].cmdtype = "function"
Runs(fr, f) == {i \in 1..Len(fr) : fr[i].func = f}

\* Each body is counted for the command that it belongs to and for each call.
Bodies(ct, fn, fr) ==
  /\ \A c \in Commands : IsFunction(ct, c) => ct[c].param \in FuncIds
  /\ \A c, d \in Commands :
       IsFunction(ct, c) /\ IsFunction(ct, d) /\ ct[c].param = ct[d].param => c = d
  /\ \A f \in FuncIds : fn[f] >= Cardinality(Runs(fr, f))
  /\ \A c \in Commands :
       IsFunction(ct, c) => fn[ct[c].param] >= Cardinality(Runs(fr, ct[c].param)) + 1

\* A search for c that remembers nothing would stop at the place i of a PATH.
Hit(s, c, path, i) ==
  IF Component(path, i) = BuiltinMark THEN c \in Builtins ELSE Exists(s, Component(path, i), c)

\* After cd the places that are relative to the current directory are in doubt.
Doubtful(e, path, i) == e.rehash /\ Component(path, i) = Here

\* What e says of c is so: the place of a program is the first hit on PATH, as far as it
\* is not in doubt.
TrueOf(s, e, c, path) ==
  /\ e.cmdtype = "function" => c \in Defined
  /\ e.cmdtype = "builtin" => c \in Builtins /\ e.param = 0
  /\ e.cmdtype = "normal" =>
       /\ e.param \in Positions(path) /\ Component(path, e.param) # BuiltinMark
       /\ BuiltinPos(path) < 0 => c \notin Builtins
       /\ \A i \in Positions(path) :
            i < e.param /\ ~Doubtful(e, path, i) => ~Hit(s, c, path, i)
       /\ ~Doubtful(e, path, e.param) => Hit(s, c, path, e.param)

\* The table is right for a PATH, and for the value that PATH has.
Recalls(s, path) ==
  /\ path \in Texts /\ s.builtinloc = BuiltinPos(path)
  /\ \A c \in Commands : TrueOf(s, s.cmdtable[c], c, path)
Remembered(s) == Recalls(s, PathVal(s))

\* What is read where the entry of a function is taken for that of a program does no harm:
\* there are no functions, or nothing comes before the current directory on a PATH.
GarbageHarmless ==
  Defined = {} \/ \A p \in Texts : /\ FarPlace \in Nat /\ FarPlace >= Len(p)
                                 /\ \A i \in Positions(p) : Component(p, i) = Here => i = 0

\* The functions and the commands that have them stay.
SameFuncs(s, r) ==
  /\ r.funcs = s.funcs
  /\ \A c \in Commands :
       \/ r.cmdtable[c] = s.cmdtable[c]
       \/ ~IsFunction(r.cmdtable, c) /\ ~IsFunction(s.cmdtable, c)

\* Variables change; functions, and what is being run, do not, and the table follows.
SameRest(s, r) ==
  /\ r.frames = s.frames /\ SameFuncs(s, r)
  /\ Remembered(s) => Remembered(r)

USE HashConstants, VarConstants, CommandsConstants

-----------------------------------------------------------------------------
(* Types.                                                                  *)

\* The fields of a shell.
LEMMA ShellTypes ==
  ASSUME NEW s \in Shells
  PROVE  /\ s.vartab \in [Vars -> Variables] /\ s.texts \in [TextIds -> Contents]
         /\ s.frames \in Seq(Calls) /\ s.aflag \in BOOLEAN
         /\ s.cmdtable \in [Commands -> Entries] /\ s.builtinloc \in Nat \cup {-1}
         /\ s.funcs \in [FuncIds -> Nat] /\ s.cwd \in Dirs /\ s.err \in BOOLEAN
         /\ s.entry \in Entries
  BY DEF Shells

\* The fields of a variable and of a copy.
LEMMA VariableTypes ==
  ASSUME NEW x \in Variables
  PROVE  x.text \in 0..MaxTexts /\ x.flags \in SUBSET Flags /\ x.flags \subseteq Flags
  BY DEF Variables

\* Every content is a sequence, so that it can be read as a PATH.
LEMMA ContentsRead == \A x \in Contents : x \in Seq(Range(x)) /\ Len(x) \in Nat
  <1>1. \A e : <<e>> \in Seq(Range(<<e>>))
    BY DEF Range
  <1>2. ASSUME NEW x \in Contents PROVE x \in Seq(Range(x))
    BY <1>1 DEF Contents, Texts, Empty, Free, Freed
  <1> QED
    BY <1>2

\* A text that a variable gets is neither Free nor Freed.
LEMMA TextsUsable == \A x \in Texts : x \in Contents /\ x \notin {Free, Freed}
  <1>1. Empty \notin {Free, Freed}
    <2>1. Empty[1] = "." /\ Free[1] = "(free)" /\ Freed[1] = "(freed)"
      BY DEF Empty, Free, Freed, Here
    <2>2. "." # "(free)" /\ "." # "(freed)"
      OBVIOUS
    <2> QED
      BY <2>1, <2>2
  <1> QED
    BY <1>1 DEF Contents, Texts

\* What is free is not freed.
LEMMA FreeNotFreed == Free # Freed
  <1>1. Free[1] = "(free)" /\ Freed[1] = "(freed)"
    BY DEF Free, Freed
  <1> QED
    BY <1>1

-----------------------------------------------------------------------------
(* Saved copies.                                                           *)

\* fr with one copy more.
WithCopy(fr, d) == [fr EXCEPT ![Len(fr)].localvars = Append(fr[Len(fr)].localvars, d)]

\* What is saved last comes behind everything else.
LEMMA Pushed ==
  ASSUME NEW fr \in Seq(Calls), fr # <<>>, NEW d \in Copies, NEW fr2,
         fr2 = WithCopy(fr, d)
  PROVE  /\ fr2 \in Seq(Calls) /\ Len(fr2) = Len(fr)
         /\ \A i \in 1..Len(fr) : fr2[i].func = fr[i].func
         /\ \A i \in 1..Len(fr) : Len(fr2[i].localvars) =
              IF i = Len(fr) THEN Len(fr[i].localvars) + 1 ELSE Len(fr[i].localvars)
         /\ \A i, j, c : Has(fr2, i, j, c) <=>
              \/ Has(fr, i, j, c)
              \/ i = Len(fr) /\ j = Len(fr[i].localvars) + 1 /\ c = d
  <1>1. PICK n \in Nat : n = Len(fr) /\ n \in 1..Len(fr) /\ fr[n] \in Calls
    OBVIOUS
  <1>2. PICK L \in Seq(Copies) : L = fr[n].localvars
    BY <1>1 DEF Calls
  <1>3. PICK r \in Calls : r = [fr[n] EXCEPT !.localvars = Append(L, d)]
                           /\ r.func = fr[n].func /\ r.localvars = Append(L, d)
    <2>0. Append(L, d) \in Seq(Copies)
      BY ONLY L \in Seq(Copies), d \in Copies
    <2>1. [fr[n] EXCEPT !.localvars = Append(L, d)] \in Calls
      BY ONLY <1>1, <2>0 DEF Calls
    <2> QED
      BY <1>1, <2>1 DEF Calls
  <1>4. /\ fr2 = [fr EXCEPT ![n] = r] /\ fr2 \in Seq(Calls) /\ Len(fr2) = n
        /\ \A i \in 1..n : fr2[i] = IF i = n THEN r ELSE fr[i]
    BY <1>1, <1>2, <1>3 DEF WithCopy
  <1>5. /\ Len(Append(L, d)) = Len(L) + 1 /\ Len(L) \in Nat
        /\ \A j \in 1..(Len(L) + 1) :
             Append(L, d)[j] = IF j = Len(L) + 1 THEN d ELSE L[j]
    OBVIOUS
  <1>6. ASSUME NEW i, NEW j, NEW c
        PROVE  Has(fr2, i, j, c) <=>
                 \/ Has(fr, i, j, c)
                 \/ i = n /\ j = Len(L) + 1 /\ c = d
    <2>1. CASE i = n
      <3>1. Has(fr2, i, j, c) <=> j \in 1..(Len(L) + 1) /\ c = Append(L, d)[j]
        BY ONLY <1>1, <1>3, <1>4, <1>5, <2>1 DEF Has
      <3>2. Has(fr, i, j, c) <=> j \in 1..Len(L) /\ c = L[j]
        BY ONLY <1>1, <1>2, <2>1 DEF Has
      <3> QED
        BY ONLY <1>5, <2>1, <3>1, <3>2
    <2>2. CASE i # n
      BY ONLY <1>1, <1>4, <2>2 DEF Has
    <2> QED
      BY ONLY <2>1, <2>2
  <1>7. \A i \in 1..n : fr2[i].func = fr[i].func
    BY ONLY <1>3, <1>4
  <1>8. \A i \in 1..n : Len(fr2[i].localvars) =
          IF i = n THEN Len(fr[i].localvars) + 1 ELSE Len(fr[i].localvars)
    BY ONLY <1>2, <1>3, <1>4, <1>5
  <1> QED
    BY ONLY <1>1, <1>2, <1>4, <1>6, <1>7, <1>8

\* The first k copies of the function being run.
Cut(fr, k) == [fr EXCEPT ![Len(fr)].localvars = SubSeq(fr[Len(fr)].localvars, 1, k)]

\* What is left when the newest copies are gone.
LEMMA CutRight ==
  ASSUME NEW fr \in Seq(Calls), fr # <<>>, NEW k \in 0..Len(fr[Len(fr)].localvars)
  PROVE  /\ Cut(fr, k) \in Seq(Calls) /\ Len(Cut(fr, k)) = Len(fr)
         /\ \A i \in 1..Len(fr) : Cut(fr, k)[i].func = fr[i].func
         /\ \A i \in 1..Len(fr) : i # Len(fr) => Cut(fr, k)[i] = fr[i]
         /\ \A i, j, c : Has(Cut(fr, k), i, j, c) <=>
              Has(fr, i, j, c) /\ (i = Len(fr) => j <= k)
  <1>1. PICK n \in Nat : n = Len(fr) /\ n \in 1..Len(fr) /\ fr[n] \in Calls
    OBVIOUS
  <1>2. PICK L \in Seq(Copies) : L = fr[n].localvars
    BY <1>1 DEF Calls
  <1>3. k \in 0..Len(L) /\ Len(L) \in Nat
    BY <1>1, <1>2
  <1>4. PICK K \in Seq(Copies) : /\ K = SubSeq(L, 1, k) /\ Len(K) = k
                                 /\ \A j \in 1..k : K[j] = L[j]
    <2>1. SubSeq(L, 1, k) \in Seq(Copies)
      BY ONLY <1>3, L \in Seq(Copies)
    <2>2. Len(SubSeq(L, 1, k)) = k /\ \A j \in 1..k : SubSeq(L, 1, k)[j] = L[j]
      BY ONLY <1>3, L \in Seq(Copies)
    <2> QED
      BY ONLY <2>1, <2>2
  <1>5. PICK r \in Calls : r = [fr[n] EXCEPT !.localvars = K]
                           /\ r.func = fr[n].func /\ r.localvars = K
    <2>1. [fr[n] EXCEPT !.localvars = K] \in Calls
      BY <1>1 DEF Calls
    <2> QED
      BY <1>1, <2>1 DEF Calls
  <1>6. PICK fr2 : fr2 = Cut(fr, k)
    OBVIOUS
  <1>7. /\ fr2 = [fr EXCEPT ![n] = r] /\ fr2 \in Seq(Calls) /\ Len(fr2) = n
        /\ \A i \in 1..n : fr2[i] = IF i = n THEN r ELSE fr[i]
    BY <1>1, <1>2, <1>4, <1>5, <1>6 DEF Cut
  <1>8. ASSUME NEW i, NEW j, NEW c
        PROVE  Has(fr2, i, j, c) <=> Has(fr, i, j, c) /\ (i = n => j <= k)
    <2>1. CASE i = n
      <3>1. Has(fr2, i, j, c) <=> j \in 1..k /\ c = K[j]
        BY ONLY <1>1, <1>4, <1>5, <1>7, <2>1 DEF Has
      <3>2. Has(fr, i, j, c) <=> j \in 1..Len(L) /\ c = L[j]
        BY ONLY <1>1, <1>2, <2>1 DEF Has
      <3> QED
        BY ONLY <1>3, <1>4, <2>1, <3>1, <3>2
    <2>2. CASE i # n
      BY ONLY <1>1, <1>7, <2>2 DEF Has
    <2> QED
      BY ONLY <2>1, <2>2
  <1>9. \A i \in 1..n : fr2[i].func = fr[i].func /\ (i # n => fr2[i] = fr[i])
    BY ONLY <1>5, <1>7
  <1> QED
    BY ONLY <1>1, <1>6, <1>7, <1>8, <1>9

\* fr with one call more.
WithCall(fr, f) == Append(fr, [func |-> f, localvars |-> <<>>])

\* A function that is called has no copies yet.
LEMMA Called ==
  ASSUME NEW fr \in Seq(Calls), NEW f \in 0..MaxFuncs, NEW fr2,
         fr2 = WithCall(fr, f)
  PROVE  /\ fr2 \in Seq(Calls) /\ Len(fr2) = Len(fr) + 1
         /\ fr2[Len(fr2)].func = f /\ fr2[Len(fr2)].localvars = <<>>
         /\ \A i \in 1..Len(fr) : fr2[i] = fr[i]
         /\ \A i, j, c : Has(fr2, i, j, c) <=> Has(fr, i, j, c)
  <1>1. PICK r \in Calls : r = [func |-> f, localvars |-> <<>>]
                           /\ r.func = f /\ r.localvars = <<>>
    <2>1. [func |-> f, localvars |-> <<>>] \in Calls
      BY DEF Calls
    <2> QED
      BY <2>1
  <1>2. PICK n \in Nat : n = Len(fr)
    OBVIOUS
  <1>3. /\ fr2 \in Seq(Calls) /\ Len(fr2) = n + 1
        /\ \A i \in 1..(n + 1) : fr2[i] = IF i = n + 1 THEN r ELSE fr[i]
    BY <1>1, <1>2 DEF WithCall
  <1>4. ASSUME NEW i, NEW j, NEW c
        PROVE  Has(fr2, i, j, c) <=> Has(fr, i, j, c)
    <2>1. ~Has(fr2, n + 1, j, c)
      <3>1. fr2[n + 1].localvars = <<>>
        BY ONLY <1>1, <1>3, n \in Nat
      <3>2. Len(fr2[n + 1].localvars) = 0
        BY ONLY <3>1
      <3> QED
        BY ONLY <3>2 DEF Has
    <2>2. i \in 1..n => (Has(fr2, i, j, c) <=> Has(fr, i, j, c))
      BY ONLY <1>2, <1>3, n \in Nat DEF Has
    <2>3. i \notin 1..n => ~Has(fr, i, j, c)
      BY ONLY <1>2 DEF Has
    <2>4. i \notin 1..(n + 1) => ~Has(fr2, i, j, c)
      BY ONLY <1>3 DEF Has
    <2>5. i \in 1..(n + 1) => i \in 1..n \/ i = n + 1
      BY ONLY n \in Nat
    <2> QED
      BY ONLY <2>1, <2>2, <2>3, <2>4, <2>5
  <1> QED
    BY ONLY <1>1, <1>2, <1>3, <1>4

\* A function that returns when its copies are gone leaves the others theirs.
LEMMA Returned ==
  ASSUME NEW fr \in Seq(Calls), fr # <<>>, NEW fr2, fr2 = Front(fr)
  PROVE  /\ fr2 \in Seq(Calls) /\ Len(fr2) = Len(fr) - 1
         /\ \A i \in 1..Len(fr2) : fr2[i] = fr[i]
         /\ \A i, j, c : Has(fr2, i, j, c) <=> Has(fr, i, j, c) /\ i # Len(fr)
  <1>1. PICK n \in Nat : n = Len(fr) /\ n >= 1
    OBVIOUS
  <1>2. fr2 \in Seq(Calls) /\ Len(fr2) = n - 1 /\ \A i \in 1..(n - 1) : fr2[i] = fr[i]
    BY <1>1 DEF Front
  <1>3. \A i : i \in 1..(n - 1) <=> i \in 1..n /\ i # n
    BY ONLY n \in Nat, <1>1
  <1>4. ASSUME NEW i, NEW j, NEW c
        PROVE  Has(fr2, i, j, c) <=> Has(fr, i, j, c) /\ i # n
    <2>1. i \in 1..(n - 1) => (Has(fr2, i, j, c) <=> Has(fr, i, j, c))
      BY ONLY <1>1, <1>2, <1>3 DEF Has
    <2>2. i \notin 1..(n - 1) => ~Has(fr2, i, j, c) /\ (Has(fr, i, j, c) => i = n)
      BY ONLY <1>1, <1>2, <1>3 DEF Has
    <2> QED
      BY ONLY <1>3, <2>1, <2>2
  <1> QED
    BY ONLY <1>1, <1>2, <1>4

-----------------------------------------------------------------------------
(* Numbers.                                                                *)

\* Every set of numbers has a least one.
LEMMA LeastOf ==
  ASSUME NEW S, S \subseteq Nat, S # {}
  PROVE  \E x \in S : \A y \in S : x <= y
  <1>1. PICK x \in S : \A y \in S : ~(<<y, x>> \in OpToRel(<, Nat))
    BY NatLessThanWellFounded, WFMin, Zenon
  <1>2. ASSUME NEW y \in S, y < x PROVE FALSE
    <2>1. <<y, x>> \in Nat \X Nat
      BY <1>2
    <2>2. <<y, x>>[1] < <<y, x>>[2]
      BY <1>2
    <2> QED
      BY <1>1, <2>1, <2>2 DEF OpToRel
  <1> QED
    BY <1>2

\* And Min finds it.
LEMMA MinIn ==
  ASSUME NEW S, S \subseteq Nat, S # {}
  PROVE  Min(S) \in S /\ \A y \in S : Min(S) <= y
  <1>1. \E x \in S : \A y \in S : x <= y
    BY LeastOf
  <1> QED
    BY <1>1 DEF Min

\* The greater of two numbers.
LEMMA MaxPair ==
  ASSUME NEW a \in Int, NEW b \in Int
  PROVE  Max({a, b}) = IF a >= b THEN a ELSE b
  <1>1. \E x \in {a, b} : \A y \in {a, b} : x >= y
    OBVIOUS
  <1> QED
    BY <1>1 DEF Max

-----------------------------------------------------------------------------
(* The search along a PATH.                                                *)

\* A PATH has a number of places.
LEMMA PositionsRight ==
  ASSUME NEW path \in Contents
  PROVE  /\ Len(path) \in Nat /\ Positions(path) = 0..(Len(path) - 1)
         /\ Positions(path) \subseteq Nat
  <1>1. Len(path) \in Nat
    BY ContentsRead
  <1> QED
    BY ONLY <1>1 DEF Positions

\* The search stops at the first place where it may, or nowhere.
Stops(s, c, path, prev, i) ==
  \/ Component(path, i) = BuiltinMark /\ c \in Builtins
  \/ /\ Component(path, i) \notin {Here, BuiltinMark} /\ i <= prev
     /\ i = prev
  \/ /\ Component(path, i) # BuiltinMark
     /\ ~(Component(path, i) \notin {Here, BuiltinMark} /\ i <= prev)
     /\ Exists(s, Component(path, i), c)

\* What Found finds.
LEMMA FoundIs ==
  ASSUME NEW s, NEW c, NEW path \in Contents, NEW prev, NEW at, at = Found(s, c, path, prev)
  PROVE  \/ at = -1 /\ \A i \in Positions(path) : ~Stops(s, c, path, prev, i)
         \/ /\ at \in Positions(path) /\ Stops(s, c, path, prev, at)
            /\ \A i \in Positions(path) : i < at => ~Stops(s, c, path, prev, i)
  <1> DEFINE hits == {i \in Positions(path) : Stops(s, c, path, prev, i)}
  <1>1. at = IF hits = {} THEN -1 ELSE Min(hits)
    BY Zenon DEF Found, Stops
  <1>2. Positions(path) \subseteq Nat
    BY PositionsRight
  <1>3. hits \subseteq Nat
    BY <1>2
  <1>4. CASE hits = {}
    BY <1>1, <1>4
  <1>5. CASE hits # {}
    <2>1. Min(hits) \in hits /\ \A y \in hits : Min(hits) <= y
      <3> HIDE DEF hits
      <3> QED
        BY <1>3, <1>5, MinIn
    <2>2. at \in hits /\ \A y \in hits : at <= y
      <3> HIDE DEF hits
      <3> QED
        BY <1>1, <1>5, <2>1
    <2>3. ASSUME NEW i \in Positions(path), i < at PROVE ~Stops(s, c, path, prev, i)
      <3>1. i \in hits => at <= i
        BY ONLY <2>2
      <3>2. i \in Nat /\ at \in Nat
        BY ONLY <1>2, <1>3, <2>2, i \in Positions(path)
      <3> QED
        BY ONLY <2>3, <3>1, <3>2, i \in Positions(path) DEF hits
    <2> QED
      BY <2>2, <2>3
  <1> QED
    BY <1>4, <1>5

\* at is where a search that remembers nothing stops.
FirstHit(s, c, path, at) ==
  \/ at = -1 /\ \A i \in Positions(path) : ~Hit(s, c, path, i)
  \/ /\ at \in Positions(path) /\ Hit(s, c, path, at)
     /\ \A i \in Positions(path) : i < at => ~Hit(s, c, path, i)

\* There is one such place at most.
LEMMA FirstHitOnce ==
  ASSUME NEW s, NEW c, NEW path \in Contents, NEW a, NEW b,
         FirstHit(s, c, path, a), FirstHit(s, c, path, b)
  PROVE  a = b
  <1>1. Positions(path) \subseteq Nat
    BY PositionsRight
  <1>2. CASE a = -1 \/ b = -1
    BY <1>1, <1>2 DEF FirstHit
  <1>3. CASE a # -1 /\ b # -1
    <2>1. a \in Positions(path) /\ b \in Positions(path) /\ ~(a < b) /\ ~(b < a)
      BY <1>3 DEF FirstHit
    <2> QED
      BY <1>1, <2>1
  <1> QED
    BY <1>2, <1>3

\* Without a place to start from nothing is skipped.
LEMMA FoundFresh ==
  ASSUME NEW s, NEW c, NEW path \in Contents
  PROVE  FirstHit(s, c, path, Found(s, c, path, -1))
  <1>1. PICK at : at = Found(s, c, path, -1)
    OBVIOUS
  <1>2. ASSUME NEW i \in Positions(path)
        PROVE  Stops(s, c, path, -1, i) <=> Hit(s, c, path, i)
    <2>1. i \in Nat
      BY PositionsRight
    <2>2. ~(i <= -1)
      BY ONLY <2>1
    <2> QED
      BY <2>2 DEF Stops, Hit
  <1>3. \/ at = -1 /\ \A i \in Positions(path) : ~Stops(s, c, path, -1, i)
        \/ /\ at \in Positions(path) /\ Stops(s, c, path, -1, at)
           /\ \A i \in Positions(path) : i < at => ~Stops(s, c, path, -1, i)
    BY ONLY <1>1, path \in Contents, FoundIs
  <1> QED
    BY ONLY <1>1, <1>2, <1>3 DEF FirstHit

\* A search that starts from the place of a program finds what it would find anyway.
LEMMA FoundAgain ==
  ASSUME NEW s, NEW c, NEW path \in Contents, NEW e, TrueOf(s, e, c, path), e.cmdtype = "normal"
  PROVE  FirstHit(s, c, path, Found(s, c, path, e.param))
  <1>1. PICK prev : prev = e.param
    OBVIOUS
  <1>2. PICK at : at = Found(s, c, path, prev)
    OBVIOUS
  <1>3. /\ prev \in Positions(path) /\ Component(path, prev) # BuiltinMark
        /\ \A i \in Positions(path) :
             i < prev /\ ~Doubtful(e, path, i) => ~Hit(s, c, path, i)
        /\ ~Doubtful(e, path, prev) => Hit(s, c, path, prev)
    BY <1>1 DEF TrueOf
  <1>4. Positions(path) \subseteq Nat
    BY PositionsRight
  <1>5. ASSUME NEW i \in Positions(path)
        PROVE  Stops(s, c, path, prev, i) <=> Hit(s, c, path, i)
    <2>1. CASE Component(path, i) \in {Here, BuiltinMark}
      BY <2>1 DEF Stops, Hit
    <2>2. CASE Component(path, i) \notin {Here, BuiltinMark}
      <3>1. ~Doubtful(e, path, i)
        BY <2>2 DEF Doubtful
      <3>2. i < prev \/ i = prev \/ ~(i <= prev)
        BY ONLY <1>3, <1>4, i \in Positions(path)
      <3>3. CASE i < prev
        <4>1. ~Hit(s, c, path, i)
          BY <1>3, <3>1, <3>3
        <4>2. i <= prev /\ i # prev
          BY ONLY <1>3, <1>4, <3>3, i \in Positions(path)
        <4> QED
          BY <2>2, <4>1, <4>2 DEF Stops
      <3>4. CASE i = prev
        <4>1. Hit(s, c, path, i)
          BY <1>3, <3>1, <3>4
        <4>2. i <= prev
          BY ONLY <1>3, <1>4, <3>4
        <4> QED
          BY <2>2, <3>4, <4>1, <4>2 DEF Stops
      <3>5. CASE ~(i <= prev)
        BY <2>2, <3>5 DEF Stops, Hit
      <3> QED
        BY <3>2, <3>3, <3>4, <3>5
    <2> QED
      BY <2>1, <2>2
  <1>6. \/ at = -1 /\ \A i \in Positions(path) : ~Stops(s, c, path, prev, i)
        \/ /\ at \in Positions(path) /\ Stops(s, c, path, prev, at)
           /\ \A i \in Positions(path) : i < at => ~Stops(s, c, path, prev, i)
    BY ONLY <1>2, path \in Contents, FoundIs
  <1>7. FirstHit(s, c, path, at)
    BY ONLY <1>5, <1>6 DEF FirstHit
  <1> QED
    BY ONLY <1>1, <1>2, <1>7

\* A search that starts behind the end of a PATH skips every other directory: what it finds
\* is the mark of the builtins, or the current directory and that at the front.
LEMMA FoundFar ==
  ASSUME NEW s, NEW c, NEW path \in Texts, GarbageHarmless, Defined # {},
         NEW at, at = Found(s, c, path, FarPlace)
  PROVE  \/ at = -1
         \/ at \in Positions(path) /\ Component(path, at) = BuiltinMark
         \/ at \in Positions(path) /\ FirstHit(s, c, path, at) /\ at # FarPlace
  <1>1. path \in Contents /\ Positions(path) = 0..(Len(path) - 1) /\ Len(path) \in Nat
    BY TextsUsable, PositionsRight
  <1>2. /\ FarPlace \in Nat /\ FarPlace >= Len(path)
        /\ \A i \in Positions(path) : Component(path, i) = Here => i = 0
    BY DEF GarbageHarmless
  <1>3. \A i \in Positions(path) : i \in Nat /\ i <= FarPlace /\ i # FarPlace
    BY ONLY <1>1, <1>2
  <1>4. \/ at = -1
        \/ /\ at \in Positions(path) /\ Stops(s, c, path, FarPlace, at)
           /\ \A i \in Positions(path) : i < at => ~Stops(s, c, path, FarPlace, i)
    BY ONLY <1>1, at = Found(s, c, path, FarPlace), FoundIs
  <1>5. ASSUME at \in Positions(path), Stops(s, c, path, FarPlace, at),
               Component(path, at) # BuiltinMark
        PROVE  FirstHit(s, c, path, at)
    <2>1. Component(path, at) = Here /\ Exists(s, Component(path, at), c)
      BY <1>3, <1>5 DEF Stops
    <2>2. at = 0
      BY <1>2, <1>5, <2>1
    <2>3. \A i \in Positions(path) : ~(i < at)
      BY ONLY <1>3, <2>2
    <2> QED
      BY <1>5, <2>1, <2>3 DEF FirstHit, Hit
  <1> QED
    BY <1>3, <1>4, <1>5

-----------------------------------------------------------------------------
\* Two PATHs agree up to the length of their longest common prefix.
LEMMA SharedRight ==
  ASSUME NEW old \in Contents, NEW new \in Contents, NEW k,
         k = Len(LongestCommonPrefix({old, new}))
  PROVE  /\ k \in Nat /\ k <= Len(old) /\ k <= Len(new)
         /\ \A j \in 1..k : old[j] = new[j]
  <1>1. /\ old \in Seq(Range(old)) /\ new \in Seq(Range(new))
        /\ Len(old) \in Nat /\ Len(new) \in Nat
    BY ContentsRead
  <1> DEFINE S == {old, new}
             CP == CommonPrefixes(S)
             Lengths == {Len(old) - Len(x) : x \in CP}
  <1>2. ASSUME NEW x \in CP
        PROVE  /\ Len(x) \in Nat /\ Len(x) <= Len(old) /\ Len(x) <= Len(new)
               /\ SubSeq(old, 1, Len(x)) = SubSeq(new, 1, Len(x))
    <2>1. x \in UNION {Prefixes(q) : q \in S} /\ IsPrefix(x, old) /\ IsPrefix(x, new)
      BY DEF CommonPrefixes
    <2>2. PICK q \in S : x \in Prefixes(q)
      BY <2>1
    <2>3. PICK l \in 0..Len(q) : x = SubSeq(q, 1, l)
      BY <2>2 DEF Prefixes
    <2>4. q \in Seq(Range(q)) /\ Len(q) \in Nat
      BY <1>1
    <2>5. Len(x) \in Nat
      BY ONLY <2>3, <2>4
    <2> QED
      BY <2>1, <2>5 DEF IsPrefix
  <1>3. <<>> \in CP
    <2>1. SubSeq(old, 1, 0) = <<>> /\ SubSeq(new, 1, 0) = <<>>
      BY <1>1
    <2>2. <<>> \in Prefixes(old)
      <3>1. 0 \in 0..Len(old)
        BY <1>1
      <3> QED
        BY <2>1, <3>1 DEF Prefixes
    <2>3. IsPrefix(<<>>, old) /\ IsPrefix(<<>>, new)
      <3>1. Len(<<>>) = 0 /\ SubSeq(<<>>, 1, 0) = <<>>
        OBVIOUS
      <3> QED
        BY <1>1, <2>1, <3>1 DEF IsPrefix
    <2> QED
      BY <2>2, <2>3 DEF CommonPrefixes
  <1> HIDE DEF CP
  <1>4. PICK longest \in CP : \A other \in CP : Len(other) <= Len(longest)
    <2>1. Lengths \subseteq Nat
      BY <1>1, <1>2
    <2>2. Lengths # {}
      BY <1>3
    <2>3. PICK n \in Lengths : \A m \in Lengths : n <= m
      <3> HIDE DEF Lengths
      <3> QED
        BY <2>1, <2>2, LeastOf
    <2>4. PICK x \in CP : n = Len(old) - Len(x)
      BY <2>3
    <2>5. \A y \in CP : n <= Len(old) - Len(y)
      BY <2>3
    <2>6. ASSUME NEW y \in CP PROVE Len(y) <= Len(x)
      BY <1>1, <1>2, <2>4, <2>5
    <2> QED
      BY <2>6
  <1>5. PICK l : l = LongestCommonPrefix(S)
    OBVIOUS
  <1>6. l = CHOOSE x \in CP : \A other \in CP : Len(other) <= Len(x)
    BY <1>5, Zenon DEF LongestCommonPrefix, CP
  <1>7. l \in CP
    BY ONLY <1>4, <1>6
  <1>8. k = Len(l)
    BY <1>5
  <1>9. /\ k \in Nat /\ k <= Len(old) /\ k <= Len(new)
        /\ SubSeq(old, 1, k) = SubSeq(new, 1, k)
    BY ONLY <1>2, <1>7, <1>8
  <1>10. ASSUME NEW j \in 1..k PROVE old[j] = new[j]
    <2>1. SubSeq(old, 1, k)[j] = old[j]
      BY ONLY <1>1, <1>9, j \in 1..k
    <2>2. SubSeq(new, 1, k)[j] = new[j]
      BY ONLY <1>1, <1>9, j \in 1..k
    <2> QED
      BY <1>9, <2>1, <2>2
  <1> QED
    BY <1>9, <1>10

-----------------------------------------------------------------------------
(* The command table.                                                      *)

\* A table of entries in which some that are no functions have changed.
LEMMA TableChanged ==
  ASSUME NEW s \in Shells, NEW ct, NEW b \in Nat \cup {-1}, NEW r,
         r = [s EXCEPT !.cmdtable = ct, !.builtinloc = b],
         ct \in [Commands -> Entries],
         \A c \in Commands : \/ ct[c] = s.cmdtable[c]
                             \/ ~IsFunction(ct, c) /\ ~IsFunction(s.cmdtable, c)
  PROVE  /\ r \in Shells /\ r.frames = s.frames /\ SameFuncs(s, r) /\ r.vartab = s.vartab
         /\ r.texts = s.texts /\ r.aflag = s.aflag /\ r.cwd = s.cwd /\ r.err = s.err
         /\ r.cmdtable = ct /\ r.builtinloc = b
  BY DEF Shells, SameFuncs

\* What is said of a command depends on the current directory and on PATH up to its place.
LEMMA TrueMoved ==
  ASSUME NEW s, NEW e, NEW c, NEW old, TrueOf(s, e, c, old), NEW r, NEW new,
         r.cwd = s.cwd,
         e.cmdtype = "normal" =>
           /\ e.param \in Positions(new) /\ e.param \in Nat
           /\ \A i \in Positions(new) : i <= e.param => /\ i \in Positions(old)
                                                      /\ Component(new, i) = Component(old, i)
           /\ Positions(new) \subseteq Nat
           /\ BuiltinPos(new) < 0 => BuiltinPos(old) < 0
  PROVE  TrueOf(r, e, c, new)
  <1>1. CASE e.cmdtype # "normal"
    BY <1>1 DEF TrueOf
  <1>2. CASE e.cmdtype = "normal"
    <2>1. PICK n \in Nat : n = e.param
      BY <1>2
    <2>2. /\ n \in Positions(new) /\ Positions(new) \subseteq Nat
          /\ \A i \in Positions(new) : i <= n => /\ i \in Positions(old)
                                               /\ Component(new, i) = Component(old, i)
          /\ BuiltinPos(new) < 0 => BuiltinPos(old) < 0
      BY <1>2, <2>1
    <2>3. /\ n \in Positions(old) /\ Component(old, n) # BuiltinMark
          /\ BuiltinPos(old) < 0 => c \notin Builtins
          /\ \A i \in Positions(old) :
               i < n /\ ~Doubtful(e, old, i) => ~Hit(s, c, old, i)
          /\ ~Doubtful(e, old, n) => Hit(s, c, old, n)
      BY <1>2, <2>1 DEF TrueOf
    <2>4. \A i \in Positions(new) : i <= n =>
            /\ Hit(r, c, new, i) <=> Hit(s, c, old, i)
            /\ Doubtful(e, new, i) <=> Doubtful(e, old, i)
      BY <2>2 DEF Hit, Doubtful, Exists
    <2>5. n <= n /\ \A i \in Positions(new) : i < n => i <= n
      BY ONLY <2>2
    <2>6. /\ Component(new, n) # BuiltinMark
          /\ ~Doubtful(e, new, n) => Hit(r, c, new, n)
          /\ \A i \in Positions(new) :
               i < n /\ ~Doubtful(e, new, i) => ~Hit(r, c, new, i)
      BY ONLY <2>2, <2>3, <2>4, <2>5
    <2> QED
      BY <1>2, <2>1, <2>2, <2>3, <2>6 DEF TrueOf
  <1> QED
    BY <1>1, <1>2

\* The table is as right as it was where neither it nor the current directory has changed.
LEMMA RecallsSame ==
  ASSUME NEW s, NEW r, NEW path, Recalls(s, path), r.cmdtable = s.cmdtable,
         r.builtinloc = s.builtinloc, r.cwd = s.cwd
  PROVE  Recalls(r, path)
  BY DEF Recalls, TrueOf, Hit, Exists

\* And it is right for PATH where PATH has not changed either.
LEMMA RememberedSame ==
  ASSUME NEW s, NEW r, r.cmdtable = s.cmdtable, r.builtinloc = s.builtinloc, r.cwd = s.cwd,
         PathVal(r) = PathVal(s)
  PROVE  Remembered(s) => Remembered(r)
  BY RecallsSame DEF Remembered

\* Nothing is said of a command that has no entry.
LEMMA NoEntryTrue == \A s, c, path : TrueOf(s, NoEntry, c, path)
  <1>1. NoEntry.cmdtype = "none"
    BY DEF NoEntry
  <1> QED
    BY <1>1 DEF TrueOf

\* clearcmdentry removes entries of programs and builtins only.
LEMMA ClearRight ==
  ASSUME NEW s \in Shells, NEW first, NEW r, r = ClearCmdEntry(s, first)
  PROVE  /\ r = [s EXCEPT !.cmdtable = r.cmdtable]
         /\ r.cmdtable \in [Commands -> Entries]
         /\ \A c \in Commands : \/ r.cmdtable[c] = s.cmdtable[c]
                                \/ ~IsFunction(r.cmdtable, c) /\ ~IsFunction(s.cmdtable, c)
         /\ \A c \in Commands :
              \/ r.cmdtable[c] = NoEntry
              \/ /\ r.cmdtable[c] = s.cmdtable[c]
                 /\ r.cmdtable[c].cmdtype = "normal" => ~(r.cmdtable[c].param >= first)
  <1> DEFINE Gone(c) == \/ s.cmdtable[c].cmdtype = "normal" /\ s.cmdtable[c].param >= first
                        \/ s.cmdtable[c].cmdtype = "builtin" /\ s.builtinloc >= first
  <1> DEFINE ct == [c \in Commands |-> IF Gone(c) THEN NoEntry ELSE s.cmdtable[c]]
  <1>1. r = [s EXCEPT !.cmdtable = ct]
    BY DEF ClearCmdEntry
  <1>2. r.cmdtable = ct
    <2> HIDE DEF ct
    <2> QED
      BY <1>1 DEF Shells
  <1>3. NoEntry \in Entries /\ NoEntry.cmdtype = "none"
    BY DEF NoEntry, Entries, CmdTypes
  <1>4. ct \in [Commands -> Entries]
    <2> HIDE DEF Gone
    <2> QED
      BY <1>3, ShellTypes
  <1>5. \A c \in Commands : \/ ct[c] = s.cmdtable[c]
                            \/ ~IsFunction(ct, c) /\ ~IsFunction(s.cmdtable, c)
    BY <1>3 DEF IsFunction
  <1>6. \A c \in Commands : \/ ct[c] = NoEntry
                            \/ /\ ct[c] = s.cmdtable[c]
                               /\ ct[c].cmdtype = "normal" => ~(ct[c].param >= first)
    OBVIOUS
  <1> HIDE DEF ct
  <1> QED
    BY ONLY <1>1, <1>2, <1>4, <1>5, <1>6

\* The place of %builtin is one, or none.
LEMMA BuiltinPosType ==
  ASSUME NEW path \in Contents
  PROVE  BuiltinPos(path) \in Nat \cup {-1}
  <1> DEFINE at == {i \in Positions(path) : Component(path, i) = BuiltinMark}
  <1>1. BuiltinPos(path) = IF at = {} THEN -1 ELSE Min(at)
    BY DEF BuiltinPos
  <1>2. at \subseteq Nat
    BY ContentsRead DEF Positions
  <1> HIDE DEF at
  <1> QED
    BY <1>1, <1>2, MinIn

\* changepath changes entries of programs and builtins, and what is known of %builtin: a
\* table that was right for the old PATH is right for the new one.
LEMMA ChangePathRight ==
  ASSUME NEW s \in Shells, NEW old, NEW new \in Contents, NEW r, r = ChangePath(s, old, new)
  PROVE  /\ r \in Shells /\ r.frames = s.frames /\ SameFuncs(s, r) /\ r.vartab = s.vartab
         /\ r.texts = s.texts /\ r.aflag = s.aflag /\ r.cwd = s.cwd /\ r.err = s.err
         /\ r.builtinloc = BuiltinPos(new)
         /\ new \in Texts /\ Recalls(s, old) => Recalls(r, new)
  <1>1. PICK b \in Nat \cup {-1} : b = BuiltinPos(new)
    BY BuiltinPosType
  <1>2. PICK loc \in Nat \cup {-1} :
          loc = IF s.builtinloc < 0 /\ b >= 0 THEN b ELSE s.builtinloc
    BY ShellTypes
  <1>3. PICK first :
          first = IF loc >= 0 /\ b < 0 THEN 0
                  ELSE IF old = new THEN 9999 ELSE Len(LongestCommonPrefix({old, new}))
    OBVIOUS
  <1>4. PICK x : x = [s EXCEPT !.builtinloc = loc]
    OBVIOUS
  <1>5. x \in Shells /\ x.cmdtable = s.cmdtable
    BY <1>4 DEF Shells
  <1>6. PICK y : y = ClearCmdEntry(x, first)
    OBVIOUS
  <1>7. r = [y EXCEPT !.builtinloc = b]
    BY <1>1, <1>2, <1>3, <1>4, <1>6 DEF ChangePath
  <1>8. PICK ct : /\ y = [x EXCEPT !.cmdtable = ct] /\ ct \in [Commands -> Entries]
                  /\ \A c \in Commands : \/ ct[c] = x.cmdtable[c]
                                         \/ ~IsFunction(ct, c) /\ ~IsFunction(x.cmdtable, c)
                  /\ \A c \in Commands :
                       \/ ct[c] = NoEntry
                       \/ /\ ct[c] = x.cmdtable[c]
                          /\ ct[c].cmdtype = "normal" => ~(ct[c].param >= first)
    BY ONLY <1>5, <1>6, ClearRight
  <1>9. r = [s EXCEPT !.cmdtable = ct, !.builtinloc = b]
    BY <1>4, <1>7, <1>8 DEF Shells
  <1>10. \A c \in Commands : \/ ct[c] = s.cmdtable[c]
                             \/ ~IsFunction(ct, c) /\ ~IsFunction(s.cmdtable, c)
    BY <1>5, <1>8 DEF IsFunction
  <1>11. /\ r \in Shells /\ r.frames = s.frames /\ SameFuncs(s, r) /\ r.vartab = s.vartab
         /\ r.texts = s.texts /\ r.aflag = s.aflag /\ r.cwd = s.cwd /\ r.err = s.err
         /\ r.builtinloc = b /\ r.cmdtable = ct
    <2>1. ct \in [Commands -> Entries]
      BY ONLY <1>8
    <2> QED
      BY ONLY <1>9, <1>10, <2>1, s \in Shells, b \in Nat \cup {-1} DEF Shells, SameFuncs
  <1>12. ASSUME new \in Texts, Recalls(s, old), NEW c \in Commands
         PROVE  TrueOf(r, ct[c], c, new)
    <2>1. PICK e \in Entries : e = ct[c]
      BY <1>8
    <2>2. e.param \in Nat
      BY DEF Entries
    <2>3. CASE e = NoEntry
      BY <2>1, <2>3, NoEntryTrue
    <2>4. CASE e # NoEntry
      <3>1. e = s.cmdtable[c] /\ (e.cmdtype = "normal" => ~(e.param >= first))
        BY <1>5, <1>8, <2>1, <2>4
      <3>2. TrueOf(s, e, c, old) /\ s.builtinloc = BuiltinPos(old) /\ old \in Contents
        BY <1>12, <3>1, TextsUsable DEF Recalls
      <3>3. ASSUME e.cmdtype = "normal"
            PROVE  /\ e.param \in Positions(new)
                   /\ \A i \in Positions(new) : i <= e.param =>
                        i \in Positions(old) /\ Component(new, i) = Component(old, i)
                   /\ BuiltinPos(new) < 0 => BuiltinPos(old) < 0
        <4>1. e.param \in Positions(old)
          BY <3>2, <3>3 DEF TrueOf
        <4>2. ~(loc >= 0 /\ b < 0)
          <5>1. loc >= 0 /\ b < 0 => first = 0
            BY ONLY <1>3
          <5> QED
            BY ONLY <2>2, <3>1, <3>3, <5>1
        <4>3. BuiltinPos(new) < 0 => BuiltinPos(old) < 0
          BY ONLY <1>1, <1>2, <3>2, <4>2, b \in Nat \cup {-1}, loc \in Nat \cup {-1}
        <4>4. CASE old = new
          BY <4>1, <4>3, <4>4
        <4>5. CASE old # new
          <5>1. first = Len(LongestCommonPrefix({old, new}))
            BY <1>3, <4>2, <4>5
          <5>2. /\ first \in Nat /\ first <= Len(old) /\ first <= Len(new)
                /\ \A j \in 1..first : old[j] = new[j]
            BY ONLY <3>2, <5>1, new \in Contents, SharedRight
          <5>3. /\ Positions(old) = 0..(Len(old) - 1) /\ Positions(new) = 0..(Len(new) - 1)
                /\ Len(old) \in Nat /\ Len(new) \in Nat
            BY <3>2, PositionsRight
          <5>4. e.param < first
            BY ONLY <2>2, <3>1, <3>3, <5>2
          <5>5. e.param \in Positions(new)
            BY ONLY <2>2, <5>2, <5>3, <5>4
          <5>6. ASSUME NEW i \in Positions(new), i <= e.param
                PROVE  i \in Positions(old) /\ Component(new, i) = Component(old, i)
            <6>1. i \in Positions(old) /\ i + 1 \in 1..first
              BY ONLY <2>2, <5>2, <5>3, <5>4, <5>6
            <6> QED
              BY <5>2, <6>1 DEF Component
          <5> QED
            BY <4>3, <5>5, <5>6
        <4> QED
          BY <4>4, <4>5
      <3>4. Positions(new) \subseteq Nat
        BY PositionsRight
      <3>5. r.cwd = s.cwd
        BY <1>11
      <3>6. TrueOf(r, e, c, new)
        BY ONLY <2>2, <3>2, <3>3, <3>4, <3>5, TrueMoved
      <3> QED
        BY <2>1, <3>6
    <2> QED
      BY <2>3, <2>4
  <1>13. new \in Texts /\ Recalls(s, old) => Recalls(r, new)
    BY <1>1, <1>11, <1>12 DEF Recalls
  <1> QED
    BY ONLY <1>1, <1>11, <1>13

-----------------------------------------------------------------------------
(* Texts.                                                                  *)

\* There are finitely many texts.
LEMMA TextIdsFinite == IsFiniteSet(TextIds)
  <1>1. MaxTexts \in Int /\ 1 \in Int
    BY VarConstants DEF VarConstants
  <1> QED
    BY ONLY <1>1, FS_Interval DEF TextIds

\* One text less is free.
LEMMA LeftLess ==
  ASSUME NEW tx, NEW tx2, NEW t \in TextIds, NEW n \in Nat, Left(tx, n + 1),
         \A u \in TextIds : u # t /\ tx[u] = Free => tx2[u] = Free
  PROVE  Left(tx2, n)
  <1> DEFINE A == {u \in TextIds : tx[u] = Free}
             B == {u \in TextIds : tx2[u] = Free}
  <1>1. IsFiniteSet(TextIds)
    BY ONLY TextIdsFinite
  <1>2. IsFiniteSet(A) /\ IsFiniteSet(B) /\ IsFiniteSet(A \ {t})
    BY <1>1, FS_Subset
  <1>3. Cardinality(A) >= n + 1
    BY DEF Left
  <1>4. A \ {t} \subseteq B
    OBVIOUS
  <1> HIDE DEF A, B
  <1>5. Cardinality(A \ {t}) <= Cardinality(B)
    BY ONLY <1>2, <1>4, FS_Subset
  <1>6. Cardinality(A) \in Nat /\ Cardinality(B) \in Nat /\ Cardinality(A \ {t}) \in Nat
    BY ONLY <1>2, FS_CardinalityType
  <1>7. Cardinality(A \ {t}) >= Cardinality(A) - 1
    BY ONLY <1>2, <1>6, FS_RemoveElement
  <1>8. Cardinality(B) >= n
    BY ONLY <1>3, <1>5, <1>6, <1>7, n \in Nat
  <1> QED
    BY <1>8 DEF Left, B

\* There is a text to be had while one is left.
LEMMA NewTextRight ==
  ASSUME NEW s \in Shells, NEW n \in Nat, Left(s.texts, n + 1)
  PROVE  NewText(s) \in TextIds /\ s.texts[NewText(s)] = Free
  <1> DEFINE A == {t \in TextIds : s.texts[t] = Free}
  <1>1. A # {}
    <2> SUFFICES ASSUME A = {} PROVE FALSE
      OBVIOUS
    <2>1. Cardinality(A) = 0
      BY FS_EmptySet
    <2> QED
      BY <2>1 DEF Left
  <1>2. A \subseteq Nat
    BY DEF TextIds
  <1>3. NewText(s) = Min(A)
    BY DEF NewText
  <1>4. Min(A) \in A
    <2> HIDE DEF A
    <2> QED
      BY <1>1, <1>2, MinIn
  <1> QED
    BY <1>3, <1>4

\* Room for many texts is room for few.
LEMMA LeftFewer ==
  ASSUME NEW tx, NEW n \in Nat, NEW m \in Nat, m <= n, Left(tx, n)
  PROVE  Left(tx, m)
  <1>1. IsFiniteSet(TextIds)
    BY ONLY TextIdsFinite
  <1>2. Cardinality({t \in TextIds : tx[t] = Free}) \in Nat
    BY <1>1, FS_Subset, FS_CardinalityType
  <1> QED
    BY <1>2 DEF Left

\* A variable gets a text that was free; its old one is freed unless it is fixed.
LEMMA ReplacedOwned ==
  ASSUME NEW vt, NEW tx, NEW fr, Owned(vt, tx, fr), NEW v \in Vars,
         NEW t \in TextIds, tx[t] = Free, NEW vt2, NEW tx2,
         vt2[v].text = t, tx2[t] \notin {Free, Freed},
         v = "PATH" => "VSTRFIXED" \in vt2[v].flags,
         \A w \in Vars \ {v} : vt2[w] = vt[w],
         \A u \in TextIds : u # t => \/ tx2[u] = tx[u]
                                     \/ u = vt[v].text /\ "VTEXTFIXED" \notin vt[v].flags
  PROVE  Owned(vt2, tx2, fr)
  <1>1. t # 0
    BY DEF TextIds
  <1>2. \A w \in Vars : vt[w].text # t
    BY <1>1 DEF Owned, Alive
  <1>3. \A i, j, c : Has(fr, i, j, c) => c.text # t
    BY <1>1 DEF Owned, Alive
  <1>4. ASSUME NEW w \in Vars PROVE Alive(tx2, vt2[w].text)
    <2>1. CASE w = v
      BY <2>1 DEF Alive
    <2>2. CASE w # v
      <3>1. vt2[w] = vt[w] /\ Alive(tx, vt[w].text) /\ vt[w].text # t
        BY <1>2, <2>2 DEF Owned
      <3>2. vt[w].text # 0 => vt[w].text # vt[v].text
        BY <2>2 DEF Owned
      <3> QED
        BY <3>1, <3>2 DEF Alive
    <2> QED
      BY <2>1, <2>2
  <1>5. ASSUME NEW w \in Vars, NEW x \in Vars, vt2[w].text # 0, vt2[w].text = vt2[x].text
        PROVE  w = x
    BY <1>2, <1>5 DEF Owned
  <1>6. ASSUME NEW i, NEW j, NEW c, Has(fr, i, j, c) PROVE Alive(tx2, c.text)
    <2>1. Alive(tx, c.text) /\ c.text # t
      BY <1>3, <1>6 DEF Owned
    <2>2. c.text # 0 /\ c.text = vt[v].text => "VTEXTFIXED" \in vt[v].flags
      BY <1>6 DEF Owned
    <2> QED
      BY <2>1, <2>2 DEF Alive
  <1>7. ASSUME NEW i, NEW j, NEW c, NEW w \in Vars, Has(fr, i, j, c), vt2[w].text # 0,
               vt2[w].text = c.text
        PROVE  w = c.var /\ "VTEXTFIXED" \in vt2[w].flags
    <2>1. w # v
      BY <1>3, <1>7
    <2>2. vt2[w] = vt[w]
      BY <2>1
    <2> QED
      BY <1>7, <2>2 DEF Owned
  <1>8. Kept(vt2["PATH"])
    BY <1>1 DEF Owned, Kept
  <1> QED
    BY <1>4, <1>5, <1>6, <1>7, <1>8 DEF Owned

\* A variable loses its text, which is freed unless it is fixed.
LEMMA RemovedOwned ==
  ASSUME NEW vt, NEW tx, NEW fr, Owned(vt, tx, fr), NEW v \in Vars, v # "PATH",
         NEW vt2, NEW tx2, vt2[v].text = 0, \A w \in Vars \ {v} : vt2[w] = vt[w],
         \A u \in TextIds : \/ tx2[u] = tx[u]
                            \/ u = vt[v].text /\ "VTEXTFIXED" \notin vt[v].flags
  PROVE  Owned(vt2, tx2, fr)
  <1>1. ASSUME NEW w \in Vars PROVE Alive(tx2, vt2[w].text)
    BY DEF Owned, Alive
  <1>2. ASSUME NEW i, NEW j, NEW c, Has(fr, i, j, c) PROVE Alive(tx2, c.text)
    <2>1. Alive(tx, c.text)
      BY <1>2 DEF Owned
    <2>2. c.text # 0 /\ c.text = vt[v].text => "VTEXTFIXED" \in vt[v].flags
      BY <1>2 DEF Owned
    <2> QED
      BY <2>1, <2>2 DEF Alive
  <1>3. ASSUME NEW i, NEW j, NEW c, NEW w \in Vars, Has(fr, i, j, c), vt2[w].text # 0,
               vt2[w].text = c.text
        PROVE  w = c.var /\ "VTEXTFIXED" \in vt2[w].flags
    <2>1. w # v
      BY <1>3
    <2>2. vt2[w] = vt[w]
      BY <2>1
    <2> QED
      BY <1>3, <2>2 DEF Owned
  <1>4. ASSUME NEW w \in Vars, NEW x \in Vars, vt2[w].text # 0, vt2[w].text = vt2[x].text
        PROVE  w = x
    BY <1>4 DEF Owned
  <1>5. Kept(vt2["PATH"])
    BY DEF Owned
  <1> QED
    BY <1>1, <1>2, <1>3, <1>4, <1>5 DEF Owned

\* The flags of a variable change, but none loses its mark.
LEMMA FlaggedOwned ==
  ASSUME NEW vt, NEW tx, NEW fr, Owned(vt, tx, fr), NEW v \in Vars, NEW vt2,
         vt2[v].text = vt[v].text, "VTEXTFIXED" \in vt[v].flags => "VTEXTFIXED" \in vt2[v].flags,
         v = "PATH" => "VSTRFIXED" \in vt2[v].flags,
         \A w \in Vars \ {v} : vt2[w] = vt[w]
  PROVE  Owned(vt2, tx, fr)
  <1>1. \A w \in Vars : vt2[w].text = vt[w].text
    OBVIOUS
  <1>2. \A w \in Vars : "VTEXTFIXED" \in vt[w].flags => "VTEXTFIXED" \in vt2[w].flags
    OBVIOUS
  <1>3. Kept(vt2["PATH"])
    BY DEF Owned, Kept
  <1> QED
    BY <1>1, <1>2, <1>3 DEF Owned

-----------------------------------------------------------------------------
(* Variables.                                                              *)

Given == Flags \cup {"VDOEXPORT"}

\* An assignment keeps the marks, and adds none that a variable cannot have.
LEMMA FlagsAfterRight ==
  ASSUME NEW old \in SUBSET Flags, NEW given \in SUBSET Given
  PROVE  /\ FlagsAfter(old, given) \in SUBSET Flags
         /\ "VSTRFIXED" \in old => "VSTRFIXED" \in FlagsAfter(old, given)
         /\ "VREADONLY" \in FlagsAfter(old, given) => "VREADONLY" \in old \cup given
  BY DEF FlagsAfter, Given, Flags

\* The texts after a variable's has been freed.
Released(tx, x) == IF "VTEXTFIXED" \in x.flags THEN tx ELSE [tx EXCEPT ![x.text] = Freed]

\* What freeing the text of a variable changes.
LEMMA FreeUnlessFixedRight ==
  ASSUME NEW s \in Shells, NEW x
  PROVE  /\ FreeUnlessFixed(s, x) = [s EXCEPT !.texts = Released(s.texts, x)]
         /\ Released(s.texts, x) \in [TextIds -> Contents]
         /\ \A u \in TextIds : Released(s.texts, x)[u] =
              IF u = x.text /\ "VTEXTFIXED" \notin x.flags THEN Freed ELSE s.texts[u]
  <1>1. CASE "VTEXTFIXED" \in x.flags
    BY <1>1 DEF FreeUnlessFixed, Released, Shells
  <1>2. CASE "VTEXTFIXED" \notin x.flags
    <2>1. Freed \in Contents
      BY DEF Contents
    <2> QED
      BY <1>2, <2>1 DEF FreeUnlessFixed, FreeText, Released, Shells
  <1> QED
    BY <1>1, <1>2

\* Texts that are free, or belong to another variable, are not the value of PATH.
LEMMA PathKept ==
  ASSUME NEW vt, NEW tx, NEW fr, Owned(vt, tx, fr), NEW v \in Vars, v # "PATH", NEW tx2,
         \A u \in TextIds : tx2[u] = tx[u] \/ tx[u] = Free \/ u = vt[v].text
  PROVE  tx2[vt["PATH"].text] = tx[vt["PATH"].text]
  <1>1. PICK t : t = vt["PATH"].text
    OBVIOUS
  <1>2. t # 0 /\ t \in TextIds /\ tx[t] # Free
    BY <1>1 DEF Owned, Kept, Alive
  <1>3. t # vt[v].text
    BY <1>1, <1>2 DEF Owned
  <1> QED
    BY <1>1, <1>2, <1>3

\* No variable but v changes, nor what it or a saved copy holds.
KeepsOthers(s, r, fr, v) ==
  /\ \A w \in Vars \ {v} :
       /\ r.vartab[w] = s.vartab[w]
       /\ s.vartab[w].text # 0 => r.texts[s.vartab[w].text] = s.texts[s.vartab[w].text]
  /\ \A i, j, c : Has(fr, i, j, c) /\ c.text # 0 => r.texts[c.text] = s.texts[c.text]

ReadOnly(s, v) == "VREADONLY" \in s.vartab[v].flags

\* And if v is read-only it remains so.
Touches(s, r, fr, v) ==
  KeepsOthers(s, r, fr, v) /\ r.aflag = s.aflag /\ (ReadOnly(s, v) => ReadOnly(r, v))

\* What setvareq refuses, and what it makes read-only.
Assigned(s, r, v, given) ==
  /\ ReadOnly(s, v) => r = [s EXCEPT !.err = TRUE]
  /\ ~ReadOnly(s, v) => r.err = s.err /\ (ReadOnly(r, v) => "VREADONLY" \in given)

\* Each text has one owner: what happens to that of v happens to no other.
LEMMA OthersKept ==
  ASSUME NEW s, NEW r, NEW fr, Owned(s.vartab, s.texts, fr), NEW v \in Vars,
         \A w \in Vars \ {v} : r.vartab[w] = s.vartab[w],
         \A u \in TextIds :
           \/ r.texts[u] = s.texts[u] \/ s.texts[u] = Free
           \/ u = s.vartab[v].text /\ "VTEXTFIXED" \notin s.vartab[v].flags
  PROVE  KeepsOthers(s, r, fr, v)
  <1>1. ASSUME NEW w \in Vars \ {v}, s.vartab[w].text # 0
        PROVE  r.texts[s.vartab[w].text] = s.texts[s.vartab[w].text]
    <2>1. s.vartab[w].text \in TextIds /\ s.texts[s.vartab[w].text] # Free
      BY <1>1 DEF Owned, Alive
    <2>2. s.vartab[w].text # s.vartab[v].text
      BY <1>1 DEF Owned
    <2> QED
      BY <2>1, <2>2
  <1>2. ASSUME NEW i, NEW j, NEW c, Has(fr, i, j, c), c.text # 0
        PROVE  r.texts[c.text] = s.texts[c.text]
    <2>1. c.text \in TextIds /\ s.texts[c.text] # Free
      BY <1>2 DEF Owned, Alive
    <2>2. c.text = s.vartab[v].text => "VTEXTFIXED" \in s.vartab[v].flags
      BY <1>2, <2>1 DEF Owned
    <2> QED
      BY <2>1, <2>2
  <1> QED
    BY <1>1, <1>2 DEF KeepsOthers

\* Two changes of one variable are one.
LEMMA TouchesTwice ==
  ASSUME NEW s, NEW x, NEW r, NEW fr, NEW v, Touches(s, x, fr, v), Touches(x, r, fr, v)
  PROVE  Touches(s, r, fr, v)
  <1>1. KeepsOthers(s, x, fr, v) /\ KeepsOthers(x, r, fr, v)
    BY DEF Touches
  <1>2. KeepsOthers(s, r, fr, v)
    BY <1>1 DEF KeepsOthers
  <1> QED
    BY <1>2 DEF Touches

\* And none is one.
LEMMA TouchesNone == \A s, fr, v : Touches(s, s, fr, v)
  BY DEF Touches, KeepsOthers

\* What setvareq leaves: one text less is free, and each text has its owner.
LEMMA SetVarEqRight ==
  ASSUME NEW s, NEW fr, NEW n \in Nat, Heap(s, fr, n + 1), NEW v \in Vars, NEW val \in Texts,
         NEW given \in SUBSET Given, NEW r, r = SetVarEq(s, v, val, given)
  PROVE  /\ Heap(r, fr, n) /\ SameRest(s, r) /\ r.aflag = s.aflag /\ r.cwd = s.cwd
         /\ Touches(s, r, fr, v) /\ Assigned(s, r, v, given)
  <1>1. /\ s \in Shells /\ Owned(s.vartab, s.texts, fr) /\ Left(s.texts, n + 1)
        /\ s.vartab \in [Vars -> Variables] /\ s.texts \in [TextIds -> Contents]
    BY ShellTypes DEF Heap
  <1>2. PICK vp \in Variables : vp = s.vartab[v]
    BY <1>1
  <1>3. PICK t \in TextIds : t = NewText(s) /\ s.texts[t] = Free
    BY <1>1, NewTextRight
  <1>4. PICK e \in SUBSET Given :
          e = IF s.aflag /\ "VNOEXPORT" \notin given THEN given \cup {"VEXPORT"} ELSE given
    BY DEF Given, Flags
  <1>5. PICK x : x = IF v = "PATH" THEN ChangePath(s, PathVal(s), val) ELSE s
    OBVIOUS
  <1>6. /\ x \in Shells /\ x.frames = s.frames /\ SameFuncs(s, x) /\ x.vartab = s.vartab
        /\ x.texts = s.texts /\ x.aflag = s.aflag /\ x.cwd = s.cwd /\ x.err = s.err
        /\ Remembered(s) => Recalls(x, IF v = "PATH" THEN val ELSE PathVal(s))
    <2>1. val \in Contents
      BY TextsUsable
    <2>2. CASE v = "PATH"
      BY <1>1, <1>5, <2>1, <2>2, ChangePathRight DEF Remembered
    <2>3. CASE v # "PATH"
      BY <1>1, <1>5, <2>3 DEF SameFuncs, Remembered
    <2> QED
      BY <2>2, <2>3
  <1>7. val \in Contents /\ val \notin {Free, Freed}
    BY TextsUsable
  <1>8. vp.flags \in SUBSET Flags /\ vp.text \in 0..MaxTexts
    BY VariableTypes
  <1>9. CASE vp = NoVar
    <2>1. PICK z \in Variables : z = [text |-> t, flags |-> e \ {"VDOEXPORT"}] /\ z.text = t
      <3>1. [text |-> t, flags |-> e \ {"VDOEXPORT"}] \in Variables
        BY DEF Variables, Given, TextIds
      <3> QED
        BY <3>1
    <2>2. r = [s EXCEPT !.texts = [s.texts EXCEPT ![t] = val], !.vartab = [s.vartab EXCEPT ![v] = z]]
      BY <1>2, <1>3, <1>4, <1>9, <2>1 DEF SetVarEq
    <2>3. PICK tx \in [TextIds -> Contents] : tx = [s.texts EXCEPT ![t] = val]
      BY <1>1, <1>7
    <2>4. PICK vt \in [Vars -> Variables] : vt = [s.vartab EXCEPT ![v] = z]
      BY <1>1
    <2>5. /\ r \in Shells /\ r.texts = tx /\ r.vartab = vt /\ r.cmdtable = s.cmdtable
          /\ r.frames = s.frames /\ r.funcs = s.funcs /\ r.aflag = s.aflag /\ r.cwd = s.cwd
          /\ r.builtinloc = s.builtinloc /\ r.err = s.err
      BY <1>1, <2>2, <2>3, <2>4 DEF Shells
    <2>6. v # "PATH"
      <3>1. s.vartab["PATH"].text # 0
        BY <1>1 DEF Owned, Kept
      <3>2. NoVar.text = 0
        BY DEF NoVar
      <3> QED
        BY <1>2, <1>9, <3>1, <3>2
    <2>7. Owned(vt, tx, fr)
      <3>1. vt[v].text = t /\ tx[t] = val /\ \A w \in Vars \ {v} : vt[w] = s.vartab[w]
        BY <1>1, <2>1, <2>3, <2>4
      <3>2. \A u \in TextIds : u # t => tx[u] = s.texts[u]
        BY <1>1, <2>3
      <3> QED
        BY ONLY <1>1, <1>3, <1>7, <2>6, <3>1, <3>2, v \in Vars, t \in TextIds, ReplacedOwned
    <2>8. Left(tx, n)
      BY <1>1, <1>3, <2>3, LeftLess
    <2>9. PathVal(r) = PathVal(s)
      <3>1. \A u \in TextIds : tx[u] = s.texts[u] \/ s.texts[u] = Free \/ u = s.vartab[v].text
        BY <1>1, <1>3, <2>3
      <3>2. tx[s.vartab["PATH"].text] = s.texts[s.vartab["PATH"].text]
        BY ONLY <1>1, <2>6, <3>1, v \in Vars, PathKept
      <3>3. vt["PATH"] = s.vartab["PATH"]
        BY <1>1, <2>4, <2>6
      <3> QED
        BY <2>5, <3>2, <3>3 DEF PathVal
    <2>10. Remembered(s) => Remembered(r)
      BY <2>5, <2>9, RememberedSame
    <2>11. KeepsOthers(s, r, fr, v)
      <3>1. \A w \in Vars \ {v} : r.vartab[w] = s.vartab[w]
        BY <1>1, <2>4, <2>5
      <3>2. \A u \in TextIds : r.texts[u] = s.texts[u] \/ s.texts[u] = Free
        BY <1>1, <1>3, <2>3, <2>5
      <3> QED
        BY ONLY <1>1, <3>1, <3>2, v \in Vars, OthersKept
    <2>12. ~ReadOnly(s, v) /\ (ReadOnly(r, v) => "VREADONLY" \in given)
      <3>1. r.vartab[v].flags = e \ {"VDOEXPORT"}
        BY <1>1, <2>1, <2>4, <2>5
      <3>2. s.vartab[v].flags = {}
        BY <1>2, <1>9 DEF NoVar
      <3> QED
        BY <1>4, <3>1, <3>2 DEF ReadOnly
    <2>13. Touches(s, r, fr, v) /\ Assigned(s, r, v, given)
      BY ONLY <2>5, <2>11, <2>12 DEF Touches, Assigned
    <2> QED
      BY <2>5, <2>7, <2>8, <2>10, <2>13 DEF Heap, SameRest, SameFuncs
  <1>10. CASE vp # NoVar /\ "VREADONLY" \in vp.flags
    <2>1. r = [s EXCEPT !.err = TRUE]
      BY <1>2, <1>10 DEF SetVarEq
    <2>2. /\ r \in Shells /\ r.texts = s.texts /\ r.vartab = s.vartab /\ r.cmdtable = s.cmdtable
          /\ r.frames = s.frames /\ r.funcs = s.funcs /\ r.aflag = s.aflag /\ r.cwd = s.cwd
          /\ r.builtinloc = s.builtinloc
      BY <1>1, <2>1 DEF Shells
    <2>3. Left(s.texts, n)
      BY <1>1, LeftFewer
    <2>4. Remembered(s) => Remembered(r)
      BY <2>2, RememberedSame DEF PathVal
    <2>5. Touches(s, r, fr, v)
      BY <2>2 DEF Touches, KeepsOthers, ReadOnly
    <2>6. Assigned(s, r, v, given)
      BY <1>2, <1>10, <2>1 DEF Assigned, ReadOnly
    <2> QED
      BY <1>1, <2>2, <2>3, <2>4, <2>5, <2>6 DEF Heap, SameRest, SameFuncs
  <1>11. CASE vp # NoVar /\ "VREADONLY" \notin vp.flags
    <2>1. PICK z \in Variables : /\ z = [text |-> t, flags |-> FlagsAfter(vp.flags, e)]
                                 /\ z.text = t /\ z.flags = FlagsAfter(vp.flags, e)
      <3>1. [text |-> t, flags |-> FlagsAfter(vp.flags, e)] \in Variables
        <4>1. FlagsAfter(vp.flags, e) \in SUBSET Flags
          BY <1>8, FlagsAfterRight
        <4> QED
          BY ONLY <4>1, t \in TextIds, MaxTexts \in Nat \ {0} DEF Variables, TextIds
      <3> QED
        BY <3>1
    <2>2. PICK tx1 \in [TextIds -> Contents] :
            /\ FreeUnlessFixed(x, vp) = [x EXCEPT !.texts = tx1]
            /\ \A u \in TextIds : tx1[u] = IF u = vp.text /\ "VTEXTFIXED" \notin vp.flags
                                           THEN Freed ELSE x.texts[u]
      <3>1. PICK tx1 : tx1 = Released(x.texts, vp)
        OBVIOUS
      <3>2. /\ FreeUnlessFixed(x, vp) = [x EXCEPT !.texts = tx1] /\ tx1 \in [TextIds -> Contents]
            /\ \A u \in TextIds : tx1[u] = IF u = vp.text /\ "VTEXTFIXED" \notin vp.flags
                                           THEN Freed ELSE x.texts[u]
        <4>1. x \in Shells
          BY ONLY <1>6
        <4>2. /\ FreeUnlessFixed(x, vp) = [x EXCEPT !.texts = Released(x.texts, vp)]
              /\ Released(x.texts, vp) \in [TextIds -> Contents]
              /\ \A u \in TextIds : Released(x.texts, vp)[u] =
                   IF u = vp.text /\ "VTEXTFIXED" \notin vp.flags THEN Freed ELSE x.texts[u]
          BY ONLY <4>1, FreeUnlessFixedRight, Zenon
        <4> QED
          BY ONLY <3>1, <4>2
      <3> QED
        BY ONLY <3>2
    <2>3. r = [FreeUnlessFixed(x, vp) EXCEPT !.texts[t] = val, !.vartab[v] = z]
      BY <1>2, <1>3, <1>4, <1>5, <1>11, <2>1 DEF SetVarEq
    <2>4. PICK tx \in [TextIds -> Contents] : tx = [tx1 EXCEPT ![t] = val]
      BY <1>7
    <2>5. PICK vt \in [Vars -> Variables] : vt = [s.vartab EXCEPT ![v] = z]
      BY <1>1
    <2>6. r = [x EXCEPT !.texts = tx, !.vartab = vt]
      BY <1>6, <2>2, <2>3, <2>4, <2>5 DEF Shells
    <2>7. /\ r \in Shells /\ r.texts = tx /\ r.vartab = vt /\ r.cmdtable = x.cmdtable
          /\ r.frames = x.frames /\ r.funcs = x.funcs /\ r.aflag = x.aflag /\ r.cwd = x.cwd
          /\ r.builtinloc = x.builtinloc /\ r.err = x.err
      BY <1>6, <2>6 DEF Shells
    <2>8. Owned(vt, tx, fr)
      <3>1. vt[v].text = t /\ tx[t] = val /\ \A w \in Vars \ {v} : vt[w] = s.vartab[w]
        BY <1>1, <2>1, <2>4, <2>5
      <3>2. \A u \in TextIds :
              u # t => \/ tx[u] = s.texts[u]
                       \/ u = s.vartab[v].text /\ "VTEXTFIXED" \notin s.vartab[v].flags
        BY <1>1, <1>2, <1>6, <2>2, <2>4
      <3>3. v = "PATH" => "VSTRFIXED" \in vt[v].flags
        <4>1. v = "PATH" => "VSTRFIXED" \in vp.flags
          BY <1>1, <1>2 DEF Owned, Kept
        <4>2. vt[v].flags = FlagsAfter(vp.flags, e)
          BY <1>1, <2>1, <2>5
        <4> QED
          BY <1>8, <4>1, <4>2, FlagsAfterRight
      <3> QED
        BY ONLY <1>1, <1>3, <1>7, <3>1, <3>2, <3>3, v \in Vars, t \in TextIds, ReplacedOwned
    <2>9. Left(tx, n)
      <3>1. \A u \in TextIds : u # t /\ s.texts[u] = Free => tx[u] = Free
        <4> SUFFICES ASSUME NEW u \in TextIds, u # t, s.texts[u] = Free PROVE tx[u] = Free
          OBVIOUS
        <4>1. u # vp.text
          BY <1>1, <1>2 DEF Owned, Alive, TextIds
        <4> QED
          BY <1>6, <2>2, <2>4, <4>1
      <3> QED
        BY <1>1, <3>1, LeftLess
    <2>10. PathVal(r) = IF v = "PATH" THEN val ELSE PathVal(s)
      <3>1. CASE v = "PATH"
        <4>1. vt["PATH"].text = t /\ tx[t] = val
          BY <1>1, <2>1, <2>4, <2>5, <3>1
        <4> QED
          BY <2>7, <3>1, <4>1 DEF PathVal
      <3>2. CASE v # "PATH"
        <4>1. \A u \in TextIds : tx[u] = s.texts[u] \/ s.texts[u] = Free \/ u = s.vartab[v].text
          BY <1>2, <1>3, <1>6, <2>2, <2>4
        <4>2. tx[s.vartab["PATH"].text] = s.texts[s.vartab["PATH"].text]
          BY ONLY <1>1, <3>2, <4>1, v \in Vars, PathKept
        <4>3. vt["PATH"] = s.vartab["PATH"]
          BY <1>1, <2>5, <3>2
        <4> QED
          BY <2>7, <3>2, <4>2, <4>3 DEF PathVal
      <3> QED
        BY <3>1, <3>2
    <2>11. Remembered(s) => Remembered(r)
      BY <1>6, <2>7, <2>10, RecallsSame DEF Remembered
    <2>12. KeepsOthers(s, r, fr, v)
      <3>1. \A w \in Vars \ {v} : r.vartab[w] = s.vartab[w]
        BY <1>1, <2>5, <2>7
      <3>2. \A u \in TextIds :
              \/ r.texts[u] = s.texts[u] \/ s.texts[u] = Free
              \/ u = s.vartab[v].text /\ "VTEXTFIXED" \notin s.vartab[v].flags
        BY <1>2, <1>3, <1>6, <2>2, <2>4, <2>7
      <3> QED
        BY ONLY <1>1, <3>1, <3>2, v \in Vars, OthersKept
    <2>13. ~ReadOnly(s, v) /\ (ReadOnly(r, v) => "VREADONLY" \in given)
      <3>1. r.vartab[v].flags = FlagsAfter(vp.flags, e)
        BY <1>1, <2>1, <2>5, <2>7
      <3>2. "VREADONLY" \in FlagsAfter(vp.flags, e) => "VREADONLY" \in vp.flags \cup e
        BY ONLY <1>8, e \in SUBSET Given, FlagsAfterRight
      <3>3. "VREADONLY" \in e => "VREADONLY" \in given
        BY <1>4
      <3> QED
        BY <1>2, <1>11, <3>1, <3>2, <3>3 DEF ReadOnly
    <2>14. Touches(s, r, fr, v) /\ Assigned(s, r, v, given)
      <3>1. r.aflag = s.aflag /\ r.err = s.err
        BY <1>6, <2>7
      <3> QED
        BY ONLY <2>12, <2>13, <3>1 DEF Touches, Assigned
    <2> QED
      BY <1>6, <2>7, <2>8, <2>9, <2>11, <2>14 DEF Heap, SameRest, SameFuncs, IsFunction
  <1> QED
    BY <1>9, <1>10, <1>11

WithFlags(s, v, F) == [s EXCEPT !.vartab[v].flags = F]
Removed(s, v) == [FreeUnlessFixed(s, s.vartab[v]) EXCEPT !.vartab[v] = NoVar]

\* Flags change, marks stay.
LEMMA FlagsRight ==
  ASSUME NEW s, NEW fr, NEW n \in Nat, Heap(s, fr, n), NEW v \in Vars, NEW F \in SUBSET Flags,
         "VTEXTFIXED" \in s.vartab[v].flags => "VTEXTFIXED" \in F,
         v = "PATH" => "VSTRFIXED" \in F, NEW r, r = WithFlags(s, v, F)
  PROVE  /\ Heap(r, fr, n) /\ SameRest(s, r) /\ r.aflag = s.aflag /\ r.cwd = s.cwd
         /\ r.err = s.err /\ r.vartab[v].flags = F /\ r.vartab[v].text = s.vartab[v].text
         /\ \A w \in Vars \ {v} : r.vartab[w] = s.vartab[w]
         /\ r.texts = s.texts
  <1>1. /\ s \in Shells /\ Owned(s.vartab, s.texts, fr) /\ Left(s.texts, n)
        /\ s.vartab \in [Vars -> Variables]
    BY ShellTypes DEF Heap
  <1>2. PICK z \in Variables : z = [s.vartab[v] EXCEPT !.flags = F]
                               /\ z.text = s.vartab[v].text /\ z.flags = F
    <2>1. PICK x \in Variables : x = s.vartab[v]
      BY <1>1
    <2>2. [x EXCEPT !.flags = F] \in Variables
      BY DEF Variables
    <2>3. [x EXCEPT !.flags = F].text = x.text /\ [x EXCEPT !.flags = F].flags = F
      BY DEF Variables
    <2> QED
      BY <2>1, <2>2, <2>3
  <1>3. PICK vt \in [Vars -> Variables] : vt = [s.vartab EXCEPT ![v] = z]
    BY <1>1
  <1>4. r = [s EXCEPT !.vartab = vt]
    BY <1>2, <1>3 DEF WithFlags
  <1>5. /\ r \in Shells /\ r.texts = s.texts /\ r.vartab = vt /\ r.cmdtable = s.cmdtable
        /\ r.frames = s.frames /\ r.funcs = s.funcs /\ r.aflag = s.aflag /\ r.cwd = s.cwd
        /\ r.err = s.err /\ r.builtinloc = s.builtinloc
    BY <1>1, <1>4 DEF Shells
  <1>6. vt[v] = z /\ \A w \in Vars \ {v} : vt[w] = s.vartab[w]
    BY <1>1, <1>3
  <1>7. Owned(vt, s.texts, fr)
    <2>1. /\ vt[v].text = s.vartab[v].text
          /\ "VTEXTFIXED" \in s.vartab[v].flags => "VTEXTFIXED" \in vt[v].flags
          /\ v = "PATH" => "VSTRFIXED" \in vt[v].flags
      BY <1>2, <1>6
    <2> QED
      BY ONLY <1>1, <1>6, <2>1, v \in Vars, FlaggedOwned
  <1>8. vt["PATH"].text = s.vartab["PATH"].text
    BY <1>2, <1>6
  <1>9. Remembered(s) => Remembered(r)
    BY <1>5, <1>8, RememberedSame DEF PathVal
  <1> QED
    BY <1>1, <1>2, <1>5, <1>6, <1>7, <1>9 DEF Heap, SameRest, SameFuncs

\* A variable is taken off the table.
LEMMA RemovedRight ==
  ASSUME NEW s, NEW fr, NEW n \in Nat, Heap(s, fr, n), NEW v \in Vars, v # "PATH",
         NEW r, r = Removed(s, v)
  PROVE  /\ Heap(r, fr, n) /\ SameRest(s, r) /\ r.aflag = s.aflag /\ r.cwd = s.cwd
         /\ KeepsOthers(s, r, fr, v) /\ r.vartab[v] = NoVar /\ r.err = s.err
  <1>1. /\ s \in Shells /\ Owned(s.vartab, s.texts, fr) /\ Left(s.texts, n)
        /\ s.vartab \in [Vars -> Variables] /\ s.texts \in [TextIds -> Contents]
    BY ShellTypes DEF Heap
  <1>2. PICK x \in Variables : x = s.vartab[v]
    BY <1>1
  <1>3. PICK tx : tx = Released(s.texts, x)
    OBVIOUS
  <1>4. /\ FreeUnlessFixed(s, x) = [s EXCEPT !.texts = tx] /\ tx \in [TextIds -> Contents]
        /\ \A u \in TextIds : tx[u] = IF u = x.text /\ "VTEXTFIXED" \notin x.flags
                                      THEN Freed ELSE s.texts[u]
    <2>1. s \in Shells
      BY ONLY <1>1
    <2>2. /\ FreeUnlessFixed(s, x) = [s EXCEPT !.texts = Released(s.texts, x)]
          /\ Released(s.texts, x) \in [TextIds -> Contents]
          /\ \A u \in TextIds : Released(s.texts, x)[u] =
               IF u = x.text /\ "VTEXTFIXED" \notin x.flags THEN Freed ELSE s.texts[u]
      BY ONLY <2>1, FreeUnlessFixedRight, Zenon
    <2> QED
      BY ONLY <1>3, <2>2
  <1>5. NoVar \in Variables /\ NoVar.text = 0
    BY DEF NoVar, Variables
  <1>6. PICK vt \in [Vars -> Variables] : vt = [s.vartab EXCEPT ![v] = NoVar]
    BY <1>1, <1>5
  <1>7. r = [s EXCEPT !.texts = tx, !.vartab = vt]
    BY <1>1, <1>2, <1>4, <1>6 DEF Shells, Removed
  <1>8. /\ r \in Shells /\ r.texts = tx /\ r.vartab = vt /\ r.cmdtable = s.cmdtable
        /\ r.frames = s.frames /\ r.funcs = s.funcs /\ r.aflag = s.aflag /\ r.cwd = s.cwd
        /\ r.builtinloc = s.builtinloc /\ r.err = s.err
    BY <1>1, <1>4, <1>7 DEF Shells
  <1>9. vt[v].text = 0 /\ \A w \in Vars \ {v} : vt[w] = s.vartab[w]
    BY <1>1, <1>5, <1>6
  <1>10. \A u \in TextIds : \/ tx[u] = s.texts[u]
                            \/ u = s.vartab[v].text /\ "VTEXTFIXED" \notin s.vartab[v].flags
    BY <1>2, <1>4
  <1>11. Owned(vt, tx, fr)
    BY ONLY <1>1, <1>9, <1>10, v \in Vars, v # "PATH", RemovedOwned
  <1>12. Left(tx, n)
    <2>1. \A u \in TextIds : tx[u] = Free <=> s.texts[u] = Free
      <3> SUFFICES ASSUME NEW u \in TextIds PROVE tx[u] = Free <=> s.texts[u] = Free
        OBVIOUS
      <3>1. u = x.text => s.texts[u] # Free
        BY <1>1, <1>2 DEF Owned, Alive, TextIds
      <3> QED
        BY <1>4, <3>1, FreeNotFreed
    <2>2. {u \in TextIds : tx[u] = Free} = {u \in TextIds : s.texts[u] = Free}
      BY <2>1
    <2> QED
      BY <1>1, <2>2 DEF Left
  <1>13. PathVal(r) = PathVal(s)
    <2>1. tx[s.vartab["PATH"].text] = s.texts[s.vartab["PATH"].text]
      BY ONLY <1>1, <1>10, v \in Vars, v # "PATH", PathKept
    <2>2. vt["PATH"] = s.vartab["PATH"]
      BY <1>9
    <2> QED
      BY <1>8, <2>1, <2>2 DEF PathVal
  <1>14. Remembered(s) => Remembered(r)
    BY <1>8, <1>13, RememberedSame
  <1>15. KeepsOthers(s, r, fr, v)
    <2>1. \A w \in Vars \ {v} : r.vartab[w] = s.vartab[w]
      BY <1>8, <1>9
    <2>2. \A u \in TextIds :
            \/ r.texts[u] = s.texts[u] \/ s.texts[u] = Free
            \/ u = s.vartab[v].text /\ "VTEXTFIXED" \notin s.vartab[v].flags
      BY <1>8, <1>10
    <2> QED
      BY ONLY <1>1, <2>1, <2>2, v \in Vars, OthersKept
  <1>16. r.vartab[v] = NoVar
    BY <1>1, <1>6, <1>8
  <1> QED
    BY <1>8, <1>11, <1>12, <1>14, <1>15, <1>16 DEF Heap, SameRest, SameFuncs

\* Two changes of variables are one.
LEMMA SameRestTwice ==
  ASSUME NEW s, NEW x, NEW r, SameRest(s, x), SameRest(x, r)
  PROVE  SameRest(s, r)
  BY DEF SameRest, SameFuncs, IsFunction

\* And none is one.
LEMMA SameRestNone == \A s : SameRest(s, s)
  BY DEF SameRest, SameFuncs

\* A change of its flags touches no other variable.
LEMMA FlagsTouch ==
  ASSUME NEW s, NEW r, NEW fr, NEW v, NEW F, \A w \in Vars \ {v} : r.vartab[w] = s.vartab[w],
         r.texts = s.texts, r.aflag = s.aflag, r.vartab[v].flags = F,
         "VREADONLY" \in s.vartab[v].flags => "VREADONLY" \in F
  PROVE  Touches(s, r, fr, v)
  BY DEF Touches, KeepsOthers, ReadOnly

\* The variable is not set, or read-only as it was.
Gone(s, r, v) ==
  /\ r.err = s.err /\ (ReadOnly(r, v) => ReadOnly(s, v))
  /\ \/ ReadOnly(s, v) /\ r = s
     \/ r.vartab[v].text = 0
     \/ "VUNSET" \in r.vartab[v].flags

\* What unsetvar leaves.
LEMMA UnsetVarRight ==
  ASSUME NEW s, NEW fr, NEW n \in Nat, Heap(s, fr, n + 1), NEW v \in Vars, NEW how,
         NEW r, r = UnsetVar(s, v, how)
  PROVE  /\ Heap(r, fr, n) /\ SameRest(s, r) /\ r.aflag = s.aflag /\ r.cwd = s.cwd
         /\ Touches(s, r, fr, v) /\ ("e" \notin how => Gone(s, r, v))
  <1>1. /\ s \in Shells /\ Owned(s.vartab, s.texts, fr) /\ Left(s.texts, n + 1)
        /\ s.vartab \in [Vars -> Variables]
    BY ShellTypes DEF Heap
  <1>2. PICK vp \in Variables : vp = s.vartab[v]
    BY <1>1
  <1>3. Heap(s, fr, n) /\ SameRest(s, s)
    BY <1>1, LeftFewer, SameRestNone DEF Heap
  <1>4. PICK s1 : s1 = IF s.texts[vp.text] # Empty THEN SetVarEq(s, v, Empty, {}) ELSE s
    OBVIOUS
  <1>5. /\ Heap(s1, fr, n) /\ SameRest(s, s1) /\ s1.aflag = s.aflag /\ s1.cwd = s.cwd
        /\ Touches(s, s1, fr, v)
        /\ ~ReadOnly(s, v) => s1.err = s.err /\ ~ReadOnly(s1, v)
    <2>1. Empty \in Texts /\ {} \in SUBSET Given
      BY DEF Texts
    <2>2. CASE s.texts[vp.text] # Empty
      <3>1. s1 = SetVarEq(s, v, Empty, {})
        BY <1>4, <2>2
      <3>2. /\ Heap(s1, fr, n) /\ SameRest(s, s1) /\ s1.aflag = s.aflag /\ s1.cwd = s.cwd
            /\ Touches(s, s1, fr, v) /\ Assigned(s, s1, v, {})
        BY <2>1, <3>1, SetVarEqRight
      <3> QED
        BY <3>2 DEF Assigned
    <2>3. CASE s.texts[vp.text] = Empty
      BY <1>3, <1>4, <2>3, TouchesNone
    <2> QED
      BY <2>2, <2>3
  <1>6. s1.vartab \in [Vars -> Variables] /\ Owned(s1.vartab, s1.texts, fr)
    BY <1>5, ShellTypes DEF Heap
  <1>7. PICK flags : flags = (s1.vartab[v].flags \ (IF "x" \in how THEN {} ELSE {"VEXPORT"}))
                               \cup {"VUNSET"}
    OBVIOUS
  <1>8. /\ flags \in SUBSET Flags
        /\ "VTEXTFIXED" \in s1.vartab[v].flags => "VTEXTFIXED" \in flags
        /\ v = "PATH" => "VSTRFIXED" \in flags
    <2>1. s1.vartab[v].flags \in SUBSET Flags
      BY <1>6, VariableTypes
    <2>2. v = "PATH" => "VSTRFIXED" \in s1.vartab[v].flags
      BY <1>6 DEF Owned, Kept
    <2> QED
      BY <1>7, <2>1, <2>2 DEF Flags
  <1>9. CASE vp = NoVar \/ ("VREADONLY" \in vp.flags /\ "e" \notin how)
    <2>1. r = s
      BY <1>2, <1>9 DEF UnsetVar
    <2>2. "e" \notin how => Gone(s, r, v)
      <3>1. vp = NoVar => r.vartab[v].text = 0
        BY <1>2, <2>1 DEF NoVar
      <3> QED
        BY <1>2, <1>9, <2>1, <3>1 DEF Gone, ReadOnly
    <2> QED
      BY <1>3, <2>1, <2>2, TouchesNone
  <1>10. CASE ~(vp = NoVar \/ ("VREADONLY" \in vp.flags /\ "e" \notin how)) /\ "e" \in how
    <2>1. PICK F : F = vp.flags \ {"VEXPORT"}
      OBVIOUS
    <2>2. r = WithFlags(s, v, F)
      BY <1>2, <1>10, <2>1 DEF UnsetVar, WithFlags
    <2>3. /\ F \in SUBSET Flags
          /\ "VTEXTFIXED" \in s.vartab[v].flags => "VTEXTFIXED" \in F
          /\ v = "PATH" => "VSTRFIXED" \in F
      BY <1>1, <1>2, <2>1, VariableTypes DEF Owned, Kept
    <2>4. /\ Heap(r, fr, n) /\ SameRest(s, r) /\ r.aflag = s.aflag /\ r.cwd = s.cwd
          /\ r.err = s.err /\ r.vartab[v].flags = F /\ r.vartab[v].text = s.vartab[v].text
          /\ \A w \in Vars \ {v} : r.vartab[w] = s.vartab[w]
          /\ r.texts = s.texts
      BY ONLY <1>3, <2>2, <2>3, v \in Vars, n \in Nat, FlagsRight
    <2>5. Touches(s, r, fr, v)
      <3>1. "VREADONLY" \in s.vartab[v].flags => "VREADONLY" \in F
        BY <1>2, <2>1
      <3> QED
        BY ONLY <2>4, <3>1, FlagsTouch
    <2> QED
      BY <1>10, <2>4, <2>5
  <1>11. CASE /\ ~(vp = NoVar \/ ("VREADONLY" \in vp.flags /\ "e" \notin how)) /\ "e" \notin how
              /\ flags \cap {"VEXPORT", "VSTRFIXED", "VREADONLY", "VNOEXPORT"} = {}
    <2>1. r = Removed(s1, v)
      BY <1>2, <1>4, <1>7, <1>11 DEF UnsetVar, Removed
    <2>2. v # "PATH"
      BY <1>8, <1>11
    <2>3. /\ Heap(r, fr, n) /\ SameRest(s1, r) /\ r.aflag = s1.aflag /\ r.cwd = s1.cwd
          /\ KeepsOthers(s1, r, fr, v) /\ r.vartab[v] = NoVar /\ r.err = s1.err
      BY ONLY <1>5, <2>1, <2>2, v \in Vars, n \in Nat, RemovedRight
    <2>4. ~ReadOnly(s, v) /\ ~ReadOnly(r, v) /\ r.vartab[v].text = 0
      BY <1>2, <1>11, <2>3 DEF ReadOnly, NoVar
    <2>5. Touches(s1, r, fr, v)
      BY ONLY <1>5, <2>3, <2>4 DEF Touches
    <2>6. Touches(s, r, fr, v)
      BY ONLY <1>5, <2>5, TouchesTwice
    <2>7. Gone(s, r, v)
      BY ONLY <1>5, <2>3, <2>4 DEF Gone
    <2> QED
      BY <1>5, <2>3, <2>6, <2>7, SameRestTwice
  <1>12. CASE /\ ~(vp = NoVar \/ ("VREADONLY" \in vp.flags /\ "e" \notin how)) /\ "e" \notin how
              /\ ~(flags \cap {"VEXPORT", "VSTRFIXED", "VREADONLY", "VNOEXPORT"} = {})
    <2>1. r = WithFlags(s1, v, flags)
      BY <1>2, <1>4, <1>7, <1>12 DEF UnsetVar, WithFlags
    <2>2. /\ Heap(r, fr, n) /\ SameRest(s1, r) /\ r.aflag = s1.aflag /\ r.cwd = s1.cwd
          /\ r.err = s1.err /\ r.vartab[v].flags = flags /\ r.vartab[v].text = s1.vartab[v].text
          /\ \A w \in Vars \ {v} : r.vartab[w] = s1.vartab[w]
          /\ r.texts = s1.texts
      BY ONLY <1>5, <1>8, <2>1, v \in Vars, n \in Nat, FlagsRight
    <2>3. ~ReadOnly(s, v) /\ ~ReadOnly(r, v) /\ "VUNSET" \in r.vartab[v].flags
      <3>1. ~ReadOnly(s, v)
        BY <1>2, <1>12 DEF ReadOnly
      <3>2. "VREADONLY" \notin s1.vartab[v].flags
        BY ONLY <1>5, <3>1 DEF ReadOnly
      <3>3. "VREADONLY" \notin flags /\ "VUNSET" \in flags
        BY <1>7, <3>2
      <3> QED
        BY <2>2, <3>1, <3>3 DEF ReadOnly
    <2>4. Touches(s1, r, fr, v)
      <3>1. "VREADONLY" \in s1.vartab[v].flags => "VREADONLY" \in flags
        BY ONLY <1>5, <2>3 DEF ReadOnly
      <3> QED
        BY ONLY <2>2, <3>1, FlagsTouch
    <2>5. Touches(s, r, fr, v)
      BY ONLY <1>5, <2>4, TouchesTwice
    <2>6. Gone(s, r, v)
      BY ONLY <1>5, <2>2, <2>3 DEF Gone
    <2> QED
      BY <1>5, <2>2, <2>5, <2>6, SameRestTwice
  <1> QED
    BY <1>9, <1>10, <1>11, <1>12

\* What exportcmd leaves.
LEMMA ExportCmdRight ==
  ASSUME NEW s, NEW fr, NEW n \in Nat, Heap(s, fr, n + 1), NEW v \in Vars,
         NEW flag \in {"VEXPORT", "VREADONLY", "VNOEXPORT"}, NEW unexport \in BOOLEAN,
         unexport => flag = "VEXPORT",
         NEW val \in SUBSET Texts, NEW r, r = ExportCmd(s, v, flag, unexport, val)
  PROVE  /\ Heap(r, fr, n) /\ SameRest(s, r) /\ r.aflag = s.aflag /\ r.cwd = s.cwd
         /\ Touches(s, r, fr, v)
  <1>1. /\ s \in Shells /\ Owned(s.vartab, s.texts, fr) /\ Left(s.texts, n + 1)
        /\ s.vartab \in [Vars -> Variables]
    BY ShellTypes DEF Heap
  <1>2. PICK vp \in Variables : vp = s.vartab[v]
    BY <1>1
  <1>3. PICK F : F = IF unexport THEN vp.flags \ {flag}
                     ELSE IF flag = "VEXPORT" /\ "VNOEXPORT" \in vp.flags THEN vp.flags
                     ELSE (vp.flags \ (IF flag = "VNOEXPORT" THEN {"VEXPORT"} ELSE {}))
                            \cup (IF val = {} THEN {flag} ELSE {})
    OBVIOUS
  <1>4. /\ F \in SUBSET Flags
        /\ "VTEXTFIXED" \in s.vartab[v].flags => "VTEXTFIXED" \in F
        /\ v = "PATH" => "VSTRFIXED" \in F
        /\ "VREADONLY" \in s.vartab[v].flags => "VREADONLY" \in F
    <2>1. vp.flags \in SUBSET Flags
      BY VariableTypes
    <2>2. v = "PATH" => "VSTRFIXED" \in vp.flags
      BY <1>1, <1>2 DEF Owned, Kept
    <2> QED
      BY <1>2, <1>3, <2>1, <2>2 DEF Flags
  <1>5. PICK s1 : s1 = IF vp = NoVar THEN s ELSE WithFlags(s, v, F)
    OBVIOUS
  <1>6. /\ Heap(s1, fr, n + 1) /\ SameRest(s, s1) /\ s1.aflag = s.aflag /\ s1.cwd = s.cwd
        /\ Touches(s, s1, fr, v)
    <2>1. CASE vp = NoVar
      BY <1>5, <2>1, SameRestNone, TouchesNone
    <2>2. CASE vp # NoVar
      <3>1. s1 = WithFlags(s, v, F)
        BY <1>5, <2>2
      <3>2. n + 1 \in Nat /\ Heap(s, fr, n + 1)
        OBVIOUS
      <3>3. /\ Heap(s1, fr, n + 1) /\ SameRest(s, s1) /\ s1.aflag = s.aflag /\ s1.cwd = s.cwd
            /\ s1.err = s.err /\ s1.vartab[v].flags = F /\ s1.vartab[v].text = s.vartab[v].text
            /\ \A w \in Vars \ {v} : s1.vartab[w] = s.vartab[w]
            /\ s1.texts = s.texts
        BY ONLY <1>4, <3>1, <3>2, v \in Vars, FlagsRight
      <3>4. Touches(s, s1, fr, v)
        BY ONLY <1>4, <3>3, FlagsTouch
      <3> QED
        BY <3>3, <3>4
    <2> QED
      BY <2>1, <2>2
  <1>7. /\ val # {} => r = SetVarEq(s1, v, CHOOSE x \in val : TRUE, {flag})
        /\ val = {} /\ vp = NoVar /\ ~unexport => r = SetVarEq(s, v, Empty, {flag} \cup {"VUNSET"})
        /\ val = {} /\ ~(vp = NoVar /\ ~unexport) => r = s1
    <2>1. s1 = IF s.vartab[v] = NoVar THEN s
               ELSE [s EXCEPT !.vartab[v].flags =
                       IF unexport THEN s.vartab[v].flags \ {flag}
                       ELSE IF flag = "VEXPORT" /\ "VNOEXPORT" \in s.vartab[v].flags
                       THEN s.vartab[v].flags
                       ELSE (s.vartab[v].flags \ (IF flag = "VNOEXPORT" THEN {"VEXPORT"} ELSE {}))
                              \cup (IF val = {} THEN {flag} ELSE {})]
      BY ONLY <1>2, <1>3, <1>5 DEF WithFlags
    <2>2. val # {} => r = SetVarEq(s1, v, CHOOSE x \in val : TRUE, {flag})
      BY ONLY <2>1, r = ExportCmd(s, v, flag, unexport, val) DEF ExportCmd
    <2>3. val = {} /\ s.vartab[v] = NoVar /\ ~unexport => r = SetVarUnset(s, v, {flag})
      BY ONLY r = ExportCmd(s, v, flag, unexport, val) DEF ExportCmd
    <2>4. val = {} /\ ~(s.vartab[v] = NoVar /\ ~unexport) => r = s1
      BY ONLY <2>1, r = ExportCmd(s, v, flag, unexport, val) DEF ExportCmd
    <2> QED
      BY ONLY <1>2, <2>2, <2>3, <2>4 DEF SetVarUnset
  <1>8. {flag} \in SUBSET Given /\ {flag} \cup {"VUNSET"} \in SUBSET Given /\ Empty \in Texts
    BY DEF Given, Flags, Texts
  <1>9. CASE val # {}
    <2>1. PICK x \in Texts : x = CHOOSE y \in val : TRUE
      BY <1>9
    <2>2. r = SetVarEq(s1, v, x, {flag})
      BY <1>7, <1>9, <2>1
    <2>3. /\ Heap(r, fr, n) /\ SameRest(s1, r) /\ r.aflag = s1.aflag /\ r.cwd = s1.cwd
          /\ Touches(s1, r, fr, v)
      BY ONLY <1>6, <1>8, <2>1, <2>2, v \in Vars, n \in Nat, SetVarEqRight
    <2> QED
      BY <1>6, <2>3, SameRestTwice, TouchesTwice
  <1>10. CASE val = {} /\ vp = NoVar /\ ~unexport
    <2>1. r = SetVarEq(s, v, Empty, {flag} \cup {"VUNSET"})
      BY <1>7, <1>10
    <2> QED
      BY <1>8, <2>1, SetVarEqRight
  <1>11. CASE val = {} /\ ~(vp = NoVar /\ ~unexport)
    <2>1. r = s1
      BY <1>7, <1>11
    <2>2. Heap(s1, fr, n)
      BY <1>6, LeftFewer DEF Heap
    <2> QED
      BY <1>6, <2>1, <2>2
  <1> QED
    BY <1>9, <1>10, <1>11

-----------------------------------------------------------------------------
(* Local variables.                                                        *)

\* With fewer copies fewer owners agree.
LEMMA FewerOwned ==
  ASSUME NEW vt, NEW tx, NEW fr, Owned(vt, tx, fr), NEW fr2,
         \A i, j, c : Has(fr2, i, j, c) => Has(fr, i, j, c)
  PROVE  Owned(vt, tx, fr2)
  BY DEF Owned

\* A copy is saved of a variable whose text is marked.
LEMMA CopiedOwned ==
  ASSUME NEW vt, NEW tx, NEW fr, Owned(vt, tx, fr), NEW v \in Vars, NEW vt2,
         NEW fr2, NEW d, NEW m, NEW k,
         vt2[v].text = vt[v].text, {"VTEXTFIXED", "VSTRFIXED"} \subseteq vt2[v].flags,
         \A w \in Vars \ {v} : vt2[w] = vt[w],
         d.var = v, d.text = vt[v].text, d.flags = vt[v].flags,
         \A i, j, c : Has(fr2, i, j, c) <=> Has(fr, i, j, c) \/ (i = m /\ j = k /\ c = d),
         \A i, j, c : Has(fr, i, j, c) => ~Earlier(m, k, i, j),
         ~Earlier(m, k, m, k)
  PROVE  Owned(vt2, tx, fr2)
  <1>1. \A w \in Vars : vt2[w].text = vt[w].text
    OBVIOUS
  <1>2. \A w \in Vars : "VTEXTFIXED" \in vt[w].flags => "VTEXTFIXED" \in vt2[w].flags
    OBVIOUS
  <1>3. Kept(vt2["PATH"])
    BY DEF Owned, Kept
  <1>4. \A i, j, c : Has(fr2, i, j, c) => Alive(tx, c.text)
    BY DEF Owned
  <1>5. ASSUME NEW i, NEW j, NEW c, NEW w \in Vars, Has(fr2, i, j, c), vt2[w].text # 0,
               vt2[w].text = c.text
        PROVE  w = c.var /\ "VTEXTFIXED" \in vt2[w].flags
    <2>1. CASE Has(fr, i, j, c)
      BY <1>1, <1>2, <1>5, <2>1 DEF Owned
    <2>2. CASE c = d
      BY <1>1, <1>5, <2>2 DEF Owned
    <2> QED
      BY <1>5, <2>1, <2>2
  <1>6. ASSUME NEW i, NEW j, NEW c, NEW k2, NEW l, NEW e, Has(fr2, i, j, c), Has(fr2, k2, l, e),
               Earlier(i, j, k2, l), e.text # 0, c.text = e.text
        PROVE  c.var = e.var /\ "VTEXTFIXED" \in e.flags
    <2>1. CASE Has(fr, i, j, c) /\ Has(fr, k2, l, e)
      BY <1>6, <2>1 DEF Owned
    <2>2. CASE Has(fr, i, j, c) /\ e = d
      BY <1>6, <2>2 DEF Owned
    <2>3. ~(i = m /\ j = k)
      BY <1>6
    <2> QED
      BY <1>6, <2>1, <2>2, <2>3
  <1>7. \A i, j, c : Has(fr2, i, j, c) /\ c.var = "PATH" => Kept(c)
    BY DEF Owned, Kept
  <1> QED
    BY <1>1, <1>3, <1>4, <1>5, <1>6, <1>7 DEF Owned

\* The functions stay and the table follows.
SameTable(s, r) == SameFuncs(s, r) /\ (Remembered(s) => Remembered(r))

\* At most one copy more, for the function being run.
Grown(fr, fr2) ==
  /\ Len(fr2) = Len(fr)
  /\ \A i \in 1..Len(fr) : fr2[i].func = fr[i].func
  /\ \A i \in 1..Len(fr) :
       Len(fr2[i].localvars) <= IF i = Len(fr) THEN Len(fr[i].localvars) + 1
                                ELSE Len(fr[i].localvars)

\* Each function being run has its list.
LEMMA LocalvarsTypes ==
  ASSUME NEW fr \in Seq(Calls)
  PROVE  /\ Len(fr) \in Nat
         /\ \A i \in 1..Len(fr) : /\ fr[i] \in Calls /\ fr[i].func \in 0..MaxFuncs
                                  /\ fr[i].localvars \in Seq(Copies)
                                  /\ Len(fr[i].localvars) \in Nat
  <1>1. \A i \in 1..Len(fr) : fr[i] \in Calls
    OBVIOUS
  <1>2. \A x \in Calls : x.func \in 0..MaxFuncs /\ x.localvars \in Seq(Copies)
                         /\ Len(x.localvars) \in Nat
    BY DEF Calls
  <1>3. Len(fr) \in Nat
    OBVIOUS
  <1> QED
    BY ONLY <1>1, <1>2, <1>3

\* Nothing has been saved.
LEMMA NotGrown ==
  ASSUME NEW fr \in Seq(Calls)
  PROVE  Grown(fr, fr)
  <1>1. \A i \in 1..Len(fr) : Len(fr[i].localvars) \in Nat
    BY LocalvarsTypes
  <1> QED
    BY ONLY <1>1 DEF Grown

\* What saving a copy does to the shell.
LEMMA PushLocalRight ==
  ASSUME NEW s \in Shells, s.frames # <<>>, NEW d \in Copies, NEW r, r = PushLocal(s, d)
  PROVE  /\ r \in Shells /\ r.vartab = s.vartab /\ r.texts = s.texts /\ SameTable(s, r)
         /\ r.aflag = s.aflag /\ r.cwd = s.cwd /\ r.err = s.err
         /\ r.frames = WithCopy(s.frames, d) /\ Grown(s.frames, r.frames)
  <1>1. PICK fr \in Seq(Calls) : fr = s.frames /\ fr # <<>>
    BY ShellTypes
  <1>2. PICK fr2 : fr2 = WithCopy(fr, d)
    OBVIOUS
  <1>3. /\ fr2 \in Seq(Calls) /\ Len(fr2) = Len(fr)
        /\ \A i \in 1..Len(fr) : fr2[i].func = fr[i].func
        /\ \A i \in 1..Len(fr) : Len(fr2[i].localvars) =
             IF i = Len(fr) THEN Len(fr[i].localvars) + 1 ELSE Len(fr[i].localvars)
    BY ONLY <1>1, <1>2, d \in Copies, Pushed
  <1>4. \A i \in 1..Len(fr) : Len(fr[i].localvars) \in Nat
    BY LocalvarsTypes
  <1>5. Grown(fr, fr2)
    BY ONLY <1>3, <1>4 DEF Grown
  <1>6. r = [s EXCEPT !.frames = fr2]
    BY <1>1, <1>2 DEF PushLocal, Top, WithCopy
  <1>7. /\ r \in Shells /\ r.vartab = s.vartab /\ r.texts = s.texts /\ SameFuncs(s, r)
        /\ r.aflag = s.aflag /\ r.cwd = s.cwd /\ r.err = s.err /\ r.frames = fr2
        /\ r.cmdtable = s.cmdtable /\ r.builtinloc = s.builtinloc
    BY ONLY <1>3, <1>6, s \in Shells DEF Shells, SameFuncs
  <1>8. SameTable(s, r)
    BY <1>7, RememberedSame DEF SameTable, PathVal
  <1> QED
    BY ONLY <1>1, <1>2, <1>5, <1>7, <1>8

\* What follows a change of variables.
LEMMA SameTableTwice ==
  ASSUME NEW s, NEW x, NEW r, SameRest(s, x), SameTable(x, r)
  PROVE  SameTable(s, r)
  BY DEF SameRest, SameTable, SameFuncs, IsFunction

\* A change of variables alone keeps the functions.
LEMMA SameRestTable ==
  ASSUME NEW s, NEW r, SameRest(s, r)
  PROVE  SameTable(s, r) /\ r.frames = s.frames
  BY DEF SameRest, SameTable

LocalMade(s, n, r) ==
  /\ Heap(r, r.frames, n) /\ Grown(s.frames, r.frames) /\ SameTable(s, r)
  /\ r.aflag = s.aflag /\ r.cwd = s.cwd

\* The copy d is what v was.
IsCopy(s, r, v, d) ==
  /\ d.var = v /\ (d.text # 0 => r.texts[d.text] = s.texts[d.text])
  /\ \/ d.text = s.vartab[v].text /\ d.flags = s.vartab[v].flags
     \/ s.vartab[v] = NoVar /\ d.text = 0 /\ d.flags = {"VUNSET"}

\* The value of v could not be assigned.
Unassigned(s, r, v) ==
  /\ ReadOnly(s, v) /\ r.texts = s.texts /\ r.vartab[v].text = s.vartab[v].text
  /\ "VUNSET" \in r.vartab[v].flags <=> "VUNSET" \in s.vartab[v].flags

\* What mklocal does to variables: v is saved and may change, or it is read-only.
LocalShown(s, v, r) ==
  /\ Touches(s, r, s.frames, v)
  /\ \/ r.err /\ r.frames = s.frames /\ (~s.err => Unassigned(s, r, v))
     \/ \E d \in Copies : r.frames = WithCopy(s.frames, d) /\ IsCopy(s, r, v, d)

\* With fewer copies fewer texts are kept.
LEMMA FewerTouch ==
  ASSUME NEW s, NEW r, NEW fr, NEW v, Touches(s, r, fr, v), NEW fr2,
         \A i, j, c : Has(fr2, i, j, c) => Has(fr, i, j, c)
  PROVE  Touches(s, r, fr2, v)
  BY DEF Touches, KeepsOthers

\* What mklocal leaves, for a variable that is not known.
LEMMA MkLocalNewRight ==
  ASSUME NEW s, NEW n \in Nat, Heap(s, s.frames, n + 1), s.frames # <<>>, NEW v \in Vars,
         NEW val \in SUBSET Texts, NEW given \in SUBSET Given, s.vartab[v] = NoVar,
         NEW r, r = MkLocal(s, v, val, given)
  PROVE  LocalMade(s, n, r) /\ LocalShown(s, v, r)
  <1>1. /\ s \in Shells /\ Owned(s.vartab, s.texts, s.frames) /\ Left(s.texts, n + 1)
        /\ s.vartab \in [Vars -> Variables] /\ s.frames \in Seq(Calls)
    BY ShellTypes DEF Heap
  <1>2. v # "PATH"
    <2>1. s.vartab["PATH"].text # 0
      BY <1>1 DEF Owned, Kept
    <2>2. NoVar.text = 0
      BY DEF NoVar
    <2> QED
      BY <2>1, <2>2
  <1>3. PICK g1 \in SUBSET Given, g2 \in SUBSET Given :
          /\ g1 = {"VSTRFIXED"} \cup (given \ {"VUNSET", "VNOEXPORT"})
          /\ g2 = {"VSTRFIXED"} \cup (given \ {"VNOEXPORT"}) \cup {"VUNSET"}
    BY DEF Given, Flags
  <1>4. PICK s0 : s0 = IF val # {} THEN SetVarEq(s, v, CHOOSE x \in val : TRUE, g1)
                       ELSE SetVarEq(s, v, Empty, g2)
    OBVIOUS
  <1>5. /\ Heap(s0, s.frames, n) /\ SameRest(s, s0) /\ s0.aflag = s.aflag /\ s0.cwd = s.cwd
        /\ Touches(s, s0, s.frames, v)
    <2>1. CASE val # {}
      <3>1. PICK x \in Texts : x = CHOOSE y \in val : TRUE
        BY <2>1
      <3>2. s0 = SetVarEq(s, v, x, g1)
        BY <1>4, <2>1, <3>1
      <3> QED
        BY <1>3, <3>1, <3>2, SetVarEqRight
    <2>2. CASE val = {}
      <3>1. s0 = SetVarEq(s, v, Empty, g2) /\ Empty \in Texts
        BY <1>4, <2>2 DEF Texts
      <3> QED
        BY <1>3, <3>1, SetVarEqRight
    <2> QED
      BY <2>1, <2>2
  <1>6. PICK d \in Copies : d = Saved(v, 0, {"VUNSET"}, FALSE) /\ d.text = 0 /\ d.var = v
    <2>1. Saved(v, 0, {"VUNSET"}, FALSE) \in Copies
      BY DEF Saved, Copies, Flags
    <2> QED
      BY <2>1 DEF Saved
  <1>7. r = PushLocal(s0, d)
    <2>1. val # {} => r = PushLocal(s0, d)
      BY ONLY <1>3, <1>4, <1>6, s.vartab[v] = NoVar, r = MkLocal(s, v, val, given) DEF MkLocal
    <2>2. val = {} => r = PushLocal(s0, d)
      BY ONLY <1>3, <1>4, <1>6, s.vartab[v] = NoVar, r = MkLocal(s, v, val, given)
         DEF MkLocal, SetVarUnset
    <2> QED
      BY <2>1, <2>2
  <1>8. s0 \in Shells /\ s0.frames = s.frames /\ s0.frames # <<>>
    BY <1>5 DEF Heap, SameRest
  <1>9. /\ r \in Shells /\ r.vartab = s0.vartab /\ r.texts = s0.texts /\ SameTable(s0, r)
        /\ r.aflag = s0.aflag /\ r.cwd = s0.cwd /\ Grown(s0.frames, r.frames)
        /\ r.frames = WithCopy(s0.frames, d)
    BY ONLY <1>6, <1>7, <1>8, PushLocalRight
  <1>10. \A i, j, c : Has(r.frames, i, j, c) => Has(s.frames, i, j, c) \/ c = d
    <2>1. r.frames = WithCopy(s.frames, d) /\ s.frames \in Seq(Calls) /\ s.frames # <<>>
          /\ d \in Copies
      BY <1>1, <1>6, <1>8, <1>9
    <2>2. \A i, j, c : Has(r.frames, i, j, c) <=>
            \/ Has(s.frames, i, j, c)
            \/ i = Len(s.frames) /\ j = Len(s.frames[i].localvars) + 1 /\ c = d
      BY ONLY <2>1, Pushed
    <2> QED
      BY ONLY <2>2
  <1>11. Owned(r.vartab, r.texts, r.frames)
    <2>1. Owned(r.vartab, r.texts, s.frames)
      BY <1>5, <1>9 DEF Heap
    <2> QED
      BY ONLY <1>2, <1>6, <1>10, <2>1 DEF Owned, Alive
  <1>12. Heap(r, r.frames, n)
    BY <1>5, <1>9, <1>11 DEF Heap
  <1>13. SameTable(s, r)
    BY <1>5, <1>9, SameTableTwice
  <1>14. LocalShown(s, v, r)
    <2>1. Touches(s, r, s.frames, v)
      BY <1>5, <1>9 DEF Touches, KeepsOthers, ReadOnly
    <2>2. r.frames = WithCopy(s.frames, d)
      BY <1>8, <1>9
    <2>3. d.flags = {"VUNSET"}
      BY <1>6 DEF Saved
    <2>4. IsCopy(s, r, v, d)
      BY ONLY <1>6, <2>3, s.vartab[v] = NoVar DEF IsCopy
    <2> QED
      BY ONLY <2>1, <2>2, <2>4, d \in Copies DEF LocalShown
  <1> QED
    BY <1>5, <1>8, <1>9, <1>12, <1>13, <1>14 DEF LocalMade

\* The flags a variable has while mklocal saves it, and what is left of those given.
LocalFlags2(old, given) ==
  IF given \cap {"VDOEXPORT", "VUNSET"} # {} THEN LocalFlags(old) \ {"VNOEXPORT"}
  ELSE LocalFlags(old)
LocalGiven(old, given) ==
  IF /\ "VNOEXPORT" \in LocalFlags2(old, given)
     /\ given \cap {"VEXPORT", "VDOEXPORT", "VUNSET"} = {"VEXPORT"}
  THEN given \ {"VEXPORT"} ELSE given
LocalFlags3(old, given) ==
  IF LocalGiven(old, given) \cap {"VNOEXPORT", "VUNSET"} # {}
  THEN LocalFlags2(old, given) \ {"VEXPORT"} ELSE LocalFlags2(old, given)

\* mklocal marks the text and keeps the variable known.
LEMMA LocalFlagsRight ==
  ASSUME NEW old \in SUBSET Flags, NEW given \in SUBSET Given
  PROVE  /\ LocalFlags3(old, given) \in SUBSET Flags
         /\ {"VTEXTFIXED", "VSTRFIXED"} \subseteq LocalFlags3(old, given)
         /\ LocalGiven(old, given) \in SUBSET Given
         /\ "VREADONLY" \in LocalFlags3(old, given) <=> "VREADONLY" \in old
         /\ "VUNSET" \in LocalFlags3(old, given) <=> "VUNSET" \in old
  <1>1. LocalFlags2(old, given) \in SUBSET Flags
    BY DEF LocalFlags2, LocalFlags, Flags
  <1>2. {"VTEXTFIXED", "VSTRFIXED"} \subseteq LocalFlags2(old, given)
    BY DEF LocalFlags2, LocalFlags
  <1>3. LocalGiven(old, given) \in SUBSET Given
    BY DEF LocalGiven
  <1>4. /\ "VREADONLY" \in LocalFlags2(old, given) <=> "VREADONLY" \in old
        /\ "VUNSET" \in LocalFlags2(old, given) <=> "VUNSET" \in old
    BY DEF LocalFlags2, LocalFlags
  <1> QED
    BY <1>1, <1>2, <1>3, <1>4 DEF LocalFlags3

\* The shell when the copy is about to be saved.
Localised(s, v, val, given) ==
  IF val # {} THEN SetVarEq(s, v, CHOOSE x \in val : TRUE, given \ {"VUNSET"})
  ELSE IF "VUNSET" \in given THEN UnsetVar(s, v, {})
  ELSE WithFlags(s, v, s.vartab[v].flags \cup (given \cap {"VEXPORT"}))

LocalState(s, v, val, given) ==
  Localised(WithFlags(s, v, LocalFlags3(s.vartab[v].flags, given)), v, val,
            LocalGiven(s.vartab[v].flags, given) \ {"VNOEXPORT"})

\* The steps of mklocal for a variable that is known.
LEMMA MkLocalIs ==
  ASSUME NEW s, NEW v, NEW val, NEW given, s.vartab[v] # NoVar
  PROVE  MkLocal(s, v, val, given) =
           IF LocalState(s, v, val, given).err THEN LocalState(s, v, val, given)
           ELSE PushLocal(LocalState(s, v, val, given),
                          Saved(v, s.vartab[v].text, s.vartab[v].flags, FALSE))
  BY DEF MkLocal, LocalState, Localised, LocalFlags2, LocalFlags3, LocalGiven, WithFlags

\* It raises no error, or the variable is read-only and nothing is changed.
Refused(s, r, v) == r.err = s.err \/ (ReadOnly(s, v) /\ r = [s EXCEPT !.err = TRUE])

\* The assignment that comes with local.
LEMMA LocalisedRight ==
  ASSUME NEW s, NEW fr, NEW n \in Nat, Heap(s, fr, n + 1), NEW v \in Vars,
         NEW val \in SUBSET Texts, NEW given \in SUBSET Given,
         NEW r, r = Localised(s, v, val, given)
  PROVE  /\ Heap(r, fr, n) /\ SameRest(s, r) /\ r.aflag = s.aflag /\ r.cwd = s.cwd
         /\ Touches(s, r, fr, v)
         /\ Refused(s, r, v)
  <1>1. CASE val # {}
    <2>1. PICK x \in Texts : x = CHOOSE y \in val : TRUE
      BY <1>1
    <2>2. PICK g \in SUBSET Given : g = given \ {"VUNSET"}
      OBVIOUS
    <2>3. r = SetVarEq(s, v, x, g)
      BY <1>1, <2>1, <2>2 DEF Localised
    <2>4. /\ Heap(r, fr, n) /\ SameRest(s, r) /\ r.aflag = s.aflag /\ r.cwd = s.cwd
          /\ Touches(s, r, fr, v) /\ Assigned(s, r, v, g)
      BY <2>3, SetVarEqRight
    <2> QED
      BY <2>4 DEF Assigned, Refused
  <1>2. CASE val = {} /\ "VUNSET" \in given
    <2>1. r = UnsetVar(s, v, {})
      BY <1>2 DEF Localised
    <2>2. /\ Heap(r, fr, n) /\ SameRest(s, r) /\ r.aflag = s.aflag /\ r.cwd = s.cwd
          /\ Touches(s, r, fr, v) /\ ("e" \notin {} => Gone(s, r, v))
      BY <2>1, UnsetVarRight
    <2> QED
      BY <2>2 DEF Gone, Refused
  <1>3. CASE val = {} /\ "VUNSET" \notin given
    <2>1. /\ s \in Shells /\ Owned(s.vartab, s.texts, fr) /\ Left(s.texts, n + 1)
          /\ s.vartab \in [Vars -> Variables]
      BY ShellTypes DEF Heap
    <2>2. PICK F : F = s.vartab[v].flags \cup (given \cap {"VEXPORT"})
      OBVIOUS
    <2>3. r = WithFlags(s, v, F)
      BY <1>3, <2>2 DEF Localised
    <2>4. /\ F \in SUBSET Flags
          /\ "VTEXTFIXED" \in s.vartab[v].flags => "VTEXTFIXED" \in F
          /\ v = "PATH" => "VSTRFIXED" \in F
      BY <2>1, <2>2, VariableTypes DEF Owned, Kept, Flags
    <2>5. Heap(s, fr, n)
      BY <2>1, LeftFewer DEF Heap
    <2>6. /\ Heap(r, fr, n) /\ SameRest(s, r) /\ r.aflag = s.aflag /\ r.cwd = s.cwd
          /\ r.err = s.err /\ r.vartab[v].flags = F /\ r.vartab[v].text = s.vartab[v].text
          /\ \A w \in Vars \ {v} : r.vartab[w] = s.vartab[w]
          /\ r.texts = s.texts
      BY ONLY <2>3, <2>4, <2>5, v \in Vars, n \in Nat, FlagsRight
    <2>7. "VREADONLY" \in s.vartab[v].flags => "VREADONLY" \in F
      BY <2>2
    <2>8. Touches(s, r, fr, v)
      BY ONLY <2>6, <2>7, FlagsTouch
    <2> QED
      BY <2>6, <2>8 DEF Refused
  <1> QED
    BY <1>1, <1>2, <1>3

\* What mklocal leaves, for a variable that is known: its text belongs to the copy.
LEMMA MkLocalOldRight ==
  ASSUME NEW s, NEW n \in Nat, Heap(s, s.frames, n + 1), s.frames # <<>>, NEW v \in Vars,
         NEW val \in SUBSET Texts, NEW given \in SUBSET Given, s.vartab[v] # NoVar,
         NEW r, r = MkLocal(s, v, val, given)
  PROVE  LocalMade(s, n, r) /\ LocalShown(s, v, r)
  <1>1. /\ s \in Shells /\ Owned(s.vartab, s.texts, s.frames) /\ Left(s.texts, n + 1)
        /\ s.vartab \in [Vars -> Variables] /\ s.frames \in Seq(Calls)
    BY ShellTypes DEF Heap
  <1>2. PICK vp \in Variables : vp = s.vartab[v]
    BY <1>1
  <1>3. PICK F : F = LocalFlags3(vp.flags, given)
    OBVIOUS
  <1>4. PICK g : g = LocalGiven(vp.flags, given) \ {"VNOEXPORT"}
    OBVIOUS
  <1>5. /\ F \in SUBSET Flags /\ {"VTEXTFIXED", "VSTRFIXED"} \subseteq F /\ g \in SUBSET Given
        /\ "VREADONLY" \in F <=> "VREADONLY" \in vp.flags
        /\ "VUNSET" \in F <=> "VUNSET" \in vp.flags
    <2>1. vp.flags \in SUBSET Flags
      BY VariableTypes
    <2>2. /\ LocalFlags3(vp.flags, given) \in SUBSET Flags
          /\ {"VTEXTFIXED", "VSTRFIXED"} \subseteq LocalFlags3(vp.flags, given)
          /\ LocalGiven(vp.flags, given) \in SUBSET Given
          /\ "VREADONLY" \in LocalFlags3(vp.flags, given) <=> "VREADONLY" \in vp.flags
          /\ "VUNSET" \in LocalFlags3(vp.flags, given) <=> "VUNSET" \in vp.flags
      BY ONLY <2>1, given \in SUBSET Given, LocalFlagsRight
    <2> QED
      BY ONLY <1>3, <1>4, <2>2
  <1>6. PICK s1 : s1 = WithFlags(s, v, F)
    OBVIOUS
  <1>7. PICK s2 : s2 = Localised(s1, v, val, g)
    OBVIOUS
  <1>8. PICK d \in Copies : /\ d = Saved(v, vp.text, vp.flags, FALSE)
                            /\ d.var = v /\ d.text = vp.text /\ d.flags = vp.flags
    <2>1. Saved(v, vp.text, vp.flags, FALSE) \in Copies
      BY VariableTypes DEF Saved, Copies
    <2> QED
      BY <2>1 DEF Saved
  <1>9. (s2.err => r = s2) /\ (~s2.err => r = PushLocal(s2, d))
    <2>1. s2 = LocalState(s, v, val, given)
      BY <1>2, <1>3, <1>4, <1>6, <1>7 DEF LocalState
    <2>2. MkLocal(s, v, val, given) =
            IF LocalState(s, v, val, given).err THEN LocalState(s, v, val, given)
            ELSE PushLocal(LocalState(s, v, val, given),
                           Saved(v, s.vartab[v].text, s.vartab[v].flags, FALSE))
      BY ONLY s.vartab[v] # NoVar, MkLocalIs
    <2>3. r = IF s2.err THEN s2 ELSE PushLocal(s2, d)
      BY ONLY <1>2, <1>8, <2>1, <2>2, r = MkLocal(s, v, val, given)
    <2> QED
      BY ONLY <2>3
  <1>10. /\ Heap(s1, s.frames, n + 1) /\ SameRest(s, s1) /\ s1.aflag = s.aflag /\ s1.cwd = s.cwd
         /\ s1.vartab[v].flags = F /\ s1.vartab[v].text = s.vartab[v].text
         /\ \A w \in Vars \ {v} : s1.vartab[w] = s.vartab[w]
         /\ s1.texts = s.texts /\ s1.err = s.err
    <2>1. n + 1 \in Nat /\ Heap(s, s.frames, n + 1)
      OBVIOUS
    <2>2. /\ "VTEXTFIXED" \in s.vartab[v].flags => "VTEXTFIXED" \in F
          /\ v = "PATH" => "VSTRFIXED" \in F
      BY <1>5
    <2>3. F \in SUBSET Flags
      BY ONLY <1>5
    <2> QED
      BY ONLY <1>6, <2>1, <2>2, <2>3, v \in Vars, FlagsRight
  <1>11. PICK fr2 \in Seq(Calls) :
           /\ fr2 = WithCopy(s.frames, d)
           /\ \A i, j, c : Has(fr2, i, j, c) <=>
                \/ Has(s.frames, i, j, c)
                \/ /\ i = Len(s.frames)
                   /\ j = Len(s.frames[Len(s.frames)].localvars) + 1 /\ c = d
    <2>1. PICK x : x = WithCopy(s.frames, d)
      OBVIOUS
    <2>2. /\ x \in Seq(Calls)
          /\ \A i, j, c : Has(x, i, j, c) <=>
                \/ Has(s.frames, i, j, c)
                \/ i = Len(s.frames) /\ j = Len(s.frames[i].localvars) + 1 /\ c = d
      BY ONLY <1>1, <2>1, s.frames # <<>>, d \in Copies, Pushed
    <2> QED
      BY <2>1, <2>2
  <1>12. Owned(s1.vartab, s1.texts, fr2)
    <2>1. \A i, j, c : Has(s.frames, i, j, c) =>
            ~Earlier(Len(s.frames), Len(s.frames[Len(s.frames)].localvars) + 1, i, j)
      <3>1. Len(s.frames) \in Nat
        BY <1>1
      <3>2. \A i \in 1..Len(s.frames) : Len(s.frames[i].localvars) \in Nat
        BY <1>1, LocalvarsTypes
      <3> QED
        BY ONLY <3>1, <3>2 DEF Has, Earlier
    <2>2. ~Earlier(Len(s.frames), Len(s.frames[Len(s.frames)].localvars) + 1,
                   Len(s.frames), Len(s.frames[Len(s.frames)].localvars) + 1)
      <3>1. Len(s.frames) \in 1..Len(s.frames) /\ Len(s.frames) \in Nat
        BY <1>1
      <3>2. Len(s.frames[Len(s.frames)].localvars) \in Nat
        BY <1>1, <3>1, LocalvarsTypes
      <3> QED
        BY ONLY <3>1, <3>2 DEF Earlier
    <2>3. /\ s1.vartab[v].text = s.vartab[v].text
          /\ {"VTEXTFIXED", "VSTRFIXED"} \subseteq s1.vartab[v].flags
          /\ \A w \in Vars \ {v} : s1.vartab[w] = s.vartab[w]
          /\ d.var = v /\ d.text = s.vartab[v].text /\ d.flags = s.vartab[v].flags
          /\ s1.texts = s.texts /\ Owned(s.vartab, s.texts, s.frames)
      BY <1>1, <1>2, <1>5, <1>8, <1>10
    <2> QED
      BY ONLY <1>11, <2>1, <2>2, <2>3, v \in Vars, CopiedOwned
  <1>13. Heap(s1, fr2, n + 1)
    BY <1>10, <1>12 DEF Heap
  <1>14. /\ Heap(s2, fr2, n) /\ SameRest(s1, s2) /\ s2.aflag = s1.aflag /\ s2.cwd = s1.cwd
         /\ Touches(s1, s2, fr2, v)
         /\ Refused(s1, s2, v)
    <2>1. g \in SUBSET Given
      BY ONLY <1>5
    <2> QED
      BY ONLY <2>1, <1>7, <1>13, n \in Nat, v \in Vars, val \in SUBSET Texts, LocalisedRight
  <1>15. SameRest(s, s2) /\ s2.aflag = s.aflag /\ s2.cwd = s.cwd
    BY <1>10, <1>14, SameRestTwice
  <1>16. SameTable(s, s2) /\ s2.frames = s.frames /\ s2 \in Shells
    BY <1>14, <1>15, SameRestTable DEF Heap
  <1>19. Touches(s, s2, s.frames, v)
    <2>1. \A i, j, c : Has(s.frames, i, j, c) => Has(fr2, i, j, c)
      BY ONLY <1>11
    <2>2. Touches(s1, s2, s.frames, v)
      BY ONLY <1>14, <2>1, FewerTouch
    <2>3. "VREADONLY" \in s.vartab[v].flags => "VREADONLY" \in F
      BY ONLY <1>2, <1>5
    <2>4. Touches(s, s1, s.frames, v)
      BY ONLY <1>10, <2>3, FlagsTouch
    <2> QED
      BY ONLY <2>2, <2>4, TouchesTwice
  <1>17. CASE s2.err
    <2>1. r = s2
      BY <1>9, <1>17
    <2>2. Heap(s2, s.frames, n)
      <3>1. Owned(s2.vartab, s2.texts, s.frames)
        BY <1>11, <1>14, FewerOwned DEF Heap
      <3> QED
        BY <1>14, <3>1 DEF Heap
    <2>3. ~s.err => Unassigned(s, s2, v)
      <3>1. ASSUME ~s.err PROVE ReadOnly(s1, v) /\ s2 = [s1 EXCEPT !.err = TRUE]
        BY ONLY <1>10, <1>14, <1>17, <3>1 DEF Refused
      <3>2. ~s.err => s2.texts = s1.texts /\ s2.vartab = s1.vartab
        BY <1>10, <3>1 DEF Heap, Shells
      <3>3. ~s.err => ReadOnly(s, v)
        BY ONLY <1>2, <1>5, <1>10, <3>1 DEF ReadOnly
      <3>4. "VUNSET" \in s1.vartab[v].flags <=> "VUNSET" \in s.vartab[v].flags
        BY ONLY <1>2, <1>5, <1>10
      <3> QED
        BY ONLY <1>10, <3>2, <3>3, <3>4 DEF Unassigned
    <2>4. LocalShown(s, v, r)
      BY ONLY <1>16, <1>17, <1>19, <2>1, <2>3 DEF LocalShown
    <2> QED
      BY <1>1, <1>15, <1>16, <2>1, <2>2, <2>4, NotGrown DEF LocalMade
  <1>18. CASE ~s2.err
    <2>1. r = PushLocal(s2, d)
      BY <1>9, <1>18
    <2>2. /\ r \in Shells /\ r.vartab = s2.vartab /\ r.texts = s2.texts /\ SameTable(s2, r)
          /\ r.aflag = s2.aflag /\ r.cwd = s2.cwd
          /\ r.frames = WithCopy(s2.frames, d) /\ Grown(s2.frames, r.frames)
      BY ONLY <1>8, <1>16, <2>1, s.frames # <<>>, PushLocalRight
    <2>3. r.frames = fr2
      BY <1>11, <1>16, <2>2
    <2>4. Heap(r, r.frames, n)
      BY <1>14, <2>2, <2>3 DEF Heap
    <2>5. LocalShown(s, v, r)
      <3>1. Touches(s, r, s.frames, v)
        BY ONLY <1>19, <2>2 DEF Touches, KeepsOthers, ReadOnly
      <3>2. r.frames = WithCopy(s.frames, d)
        BY ONLY <1>11, <2>3
      <3>3. d.text # 0 => r.texts[d.text] = s.texts[d.text]
        <4>1. \E i, j : Has(fr2, i, j, d)
          BY ONLY <1>11
        <4>2. d.text # 0 => s2.texts[d.text] = s1.texts[d.text]
          BY ONLY <1>14, <4>1 DEF Touches, KeepsOthers
        <4> QED
          BY ONLY <1>10, <2>2, <4>2
      <3>4. IsCopy(s, r, v, d)
        BY ONLY <1>2, <1>8, <3>3 DEF IsCopy
      <3> QED
        BY ONLY <3>1, <3>2, <3>4, d \in Copies DEF LocalShown
    <2> QED
      BY <1>15, <1>16, <2>2, <2>4, <2>5, SameTableTwice DEF LocalMade
  <1> QED
    BY <1>17, <1>18

\* What mklocal leaves.
LEMMA MkLocalRight ==
  ASSUME NEW s, NEW n \in Nat, Heap(s, s.frames, n + 1), s.frames # <<>>, NEW v \in Vars,
         NEW val \in SUBSET Texts, NEW given \in SUBSET Given,
         NEW r, r = MkLocal(s, v, val, given)
  PROVE  LocalMade(s, n, r) /\ LocalShown(s, v, r)
  <1>1. CASE s.vartab[v] = NoVar
    BY ONLY <1>1, n \in Nat, Heap(s, s.frames, n + 1), s.frames # <<>>, v \in Vars,
            val \in SUBSET Texts, given \in SUBSET Given, r = MkLocal(s, v, val, given),
            MkLocalNewRight
  <1>2. CASE s.vartab[v] # NoVar
    BY ONLY <1>2, n \in Nat, Heap(s, s.frames, n + 1), s.frames # <<>>, v \in Vars,
            val \in SUBSET Texts, given \in SUBSET Given, r = MkLocal(s, v, val, given),
            MkLocalOldRight
  <1> QED
    BY <1>1, <1>2

-----------------------------------------------------------------------------
(* What variables are bound to, as ShellScopes sees it.                    *)

BindingOf(tx, x) ==
  [value |-> IF x.text = 0 \/ "VUNSET" \in x.flags THEN NotSet ELSE tx[x.text],
   attributes |-> x.flags \cap Visible]
BoundIn(s) ==
  [n \in ShellNames |-> IF n = "-" THEN OptionBinding(s.aflag) ELSE BindingOf(s.texts, s.vartab[n])]
SavedIn(tx, c) == IF c.var = "-" THEN OptionBinding(c.aflag) ELSE BindingOf(tx, c)

\* The names are the variables and "-".
LEMMA BoundIs ==
  ASSUME NEW s
  PROVE  /\ "-" \in ShellNames /\ "-" \notin Vars /\ Vars \subseteq ShellNames
         /\ \A n \in ShellNames : n = "-" \/ n \in Vars
         /\ BoundIn(s)["-"] = OptionBinding(s.aflag)
         /\ \A v \in Vars : BoundIn(s)[v] = BindingOf(s.texts, s.vartab[v])
  BY DEF BoundIn, ShellNames

\* A binding tells whether a variable is read-only and whether it is set.
LEMMA BindingIs ==
  ASSUME NEW tx, NEW x
  PROVE  /\ "VREADONLY" \in BindingOf(tx, x).attributes <=> "VREADONLY" \in x.flags
         /\ x.text = 0 \/ "VUNSET" \in x.flags => BindingOf(tx, x).value = NotSet
  BY DEF BindingOf, Visible

\* An option is bound to one of two values.
LEMMA OptionType ==
  ASSUME NEW on
  PROVE  OptionBinding(on) \in ShellBindings
  BY DEF OptionBinding, ShellBindings

\* What points to a living text is bound to what it holds.
LEMMA BindingType ==
  ASSUME NEW tx \in [TextIds -> Contents], NEW x, Alive(tx, x.text)
  PROVE  BindingOf(tx, x) \in ShellBindings
  <1>1. CASE x.text = 0 \/ "VUNSET" \in x.flags
    BY <1>1 DEF BindingOf, ShellBindings
  <1>2. CASE ~(x.text = 0 \/ "VUNSET" \in x.flags)
    <2>1. tx[x.text] \in Texts
      BY <1>2 DEF Alive, Contents
    <2> QED
      BY <1>2, <2>1 DEF BindingOf, ShellBindings
  <1> QED
    BY <1>1, <1>2

\* The bindings of a shell and of its saved copies.
LEMMA BoundType ==
  ASSUME NEW s \in Shells, NEW fr, Owned(s.vartab, s.texts, fr)
  PROVE  /\ BoundIn(s) \in [ShellNames -> ShellBindings]
         /\ \A i, j, c : Has(fr, i, j, c) => SavedIn(s.texts, c) \in ShellBindings
  <1>1. s.texts \in [TextIds -> Contents]
    BY ShellTypes
  <1>2. \A v \in Vars : BindingOf(s.texts, s.vartab[v]) \in ShellBindings
    BY <1>1, BindingType DEF Owned
  <1>3. \A n \in ShellNames :
          (IF n = "-" THEN OptionBinding(s.aflag) ELSE BindingOf(s.texts, s.vartab[n])) \in ShellBindings
    BY <1>2, BoundIs, OptionType
  <1>4. BoundIn(s) \in [ShellNames -> ShellBindings]
    BY ONLY <1>3 DEF BoundIn
  <1>5. \A i, j, c : Has(fr, i, j, c) => SavedIn(s.texts, c) \in ShellBindings
    <2> SUFFICES ASSUME NEW i, NEW j, NEW c, Has(fr, i, j, c)
                 PROVE  SavedIn(s.texts, c) \in ShellBindings
      OBVIOUS
    <2>1. BindingOf(s.texts, c) \in ShellBindings
      BY <1>1, BindingType DEF Owned
    <2> QED
      BY <2>1, OptionType DEF SavedIn
  <1> QED
    BY <1>4, <1>5

\* A variable that is saved read-only is read-only, and so is each later copy of it:
\* only poplocalvars makes a variable writable again.
Locked(vt, fr) ==
  /\ \A i, j, c :
       Has(fr, i, j, c) /\ c.var \in Vars /\ "VREADONLY" \in c.flags
       => "VREADONLY" \in vt[c.var].flags
  /\ \A i, j, c, k, l, d :
       /\ Has(fr, i, j, c) /\ Has(fr, k, l, d) /\ Earlier(i, j, k, l)
       /\ c.var \in Vars /\ c.var = d.var /\ "VREADONLY" \in c.flags
       => "VREADONLY" \in d.flags

TextsKept(s, r, fr) ==
  \A i, j, c : Has(fr, i, j, c) /\ c.text # 0 => r.texts[c.text] = s.texts[c.text]

\* Only v may be bound to something else, and what is saved stays so.
ChangesOnly(s, r, fr, v) ==
  /\ \A n \in ShellNames \ {v} : BoundIn(r)[n] = BoundIn(s)[n]
  /\ TextsKept(s, r, fr)
  /\ Locked(s.vartab, fr) => Locked(r.vartab, fr)

\* A change of one variable is one.
LEMMA TouchesShown ==
  ASSUME NEW s, NEW r, NEW fr, NEW v \in Vars, Touches(s, r, fr, v)
  PROVE  ChangesOnly(s, r, fr, v)
  <1>1. /\ r.aflag = s.aflag /\ (ReadOnly(s, v) => ReadOnly(r, v))
        /\ \A w \in Vars \ {v} :
             /\ r.vartab[w] = s.vartab[w]
             /\ s.vartab[w].text # 0 => r.texts[s.vartab[w].text] = s.texts[s.vartab[w].text]
        /\ TextsKept(s, r, fr)
    BY DEF Touches, KeepsOthers, TextsKept
  <1>2. ASSUME NEW n \in ShellNames \ {v} PROVE BoundIn(r)[n] = BoundIn(s)[n]
    <2>1. CASE n = "-"
      BY ONLY <1>1, <2>1, BoundIs
    <2>2. CASE n \in Vars \ {v}
      <3>1. BindingOf(r.texts, r.vartab[n]) = BindingOf(s.texts, s.vartab[n])
        BY ONLY <1>1, <2>2 DEF BindingOf
      <3> QED
        BY ONLY <2>2, <3>1, BoundIs
    <2> QED
      BY <2>1, <2>2, BoundIs
  <1>3. Locked(s.vartab, fr) => Locked(r.vartab, fr)
    BY ONLY <1>1 DEF Locked, ReadOnly
  <1> QED
    BY ONLY <1>1, <1>2, <1>3 DEF ChangesOnly

\* With fewer copies fewer are locked.
LEMMA FewerLocked ==
  ASSUME NEW vt, NEW fr, Locked(vt, fr), NEW fr2, \A i, j, c : Has(fr2, i, j, c) => Has(fr, i, j, c)
  PROVE  Locked(vt, fr2)
  BY DEF Locked

-----------------------------------------------------------------------------
(* What is saved comes back.                                               *)

\* fr2 is fr without d, the copy saved last.
Without(fr, d, fr2) ==
  \E m, k : /\ Has(fr, m, k, d)
            /\ \A i, j, c : Has(fr2, i, j, c) => Has(fr, i, j, c) /\ Earlier(i, j, m, k)

\* A variable gets the text and the flags of the copy saved last; its own text is freed
\* unless it is fixed.
LEMMA RestoredOwned ==
  ASSUME NEW vt, NEW tx, NEW fr, Owned(vt, tx, fr), NEW v \in Vars, NEW d, NEW fr2,
         Without(fr, d, fr2), d.var = v, NEW vt2, NEW tx2,
         vt2[v].text = d.text, vt2[v].flags = d.flags,
         \A w \in Vars \ {v} : vt2[w] = vt[w],
         \A u \in TextIds : \/ tx2[u] = tx[u]
                            \/ u = vt[v].text /\ "VTEXTFIXED" \notin vt[v].flags
  PROVE  Owned(vt2, tx2, fr2)
  <1>1. PICK m, k : /\ Has(fr, m, k, d)
                    /\ \A i, j, c : Has(fr2, i, j, c) => Has(fr, i, j, c) /\ Earlier(i, j, m, k)
    BY DEF Without
  <1>2. \A i, j, c : Has(fr, i, j, c) => Alive(tx2, c.text)
    <2> SUFFICES ASSUME NEW i, NEW j, NEW c, Has(fr, i, j, c) PROVE Alive(tx2, c.text)
      OBVIOUS
    <2>1. Alive(tx, c.text)
      BY DEF Owned
    <2>2. c.text # 0 /\ c.text = vt[v].text => "VTEXTFIXED" \in vt[v].flags
      BY DEF Owned
    <2> QED
      BY <2>1, <2>2 DEF Alive
  <1>3. ASSUME NEW w \in Vars, w # v PROVE Alive(tx2, vt2[w].text)
    <2>1. Alive(tx, vt[w].text)
      BY DEF Owned
    <2>2. vt[w].text # 0 => vt[w].text # vt[v].text
      BY <1>3 DEF Owned
    <2> QED
      BY <1>3, <2>1, <2>2 DEF Alive
  <1>4. \A w \in Vars : vt[w].text # 0 /\ vt[w].text = d.text => w = v
    BY <1>1 DEF Owned
  <1>5. \A w, x \in Vars : vt2[w].text # 0 /\ vt2[w].text = vt2[x].text => w = x
    BY <1>4 DEF Owned
  <1>6. ASSUME NEW i, NEW j, NEW c, NEW w \in Vars, Has(fr2, i, j, c), vt2[w].text # 0,
               vt2[w].text = c.text
        PROVE  w = c.var /\ "VTEXTFIXED" \in vt2[w].flags
    <2>1. Has(fr, i, j, c) /\ Earlier(i, j, m, k)
      BY <1>1, <1>6
    <2>2. CASE w = v
      <3>1. c.text = d.text /\ d.text # 0
        BY <1>6, <2>2
      <3>2. c.var = d.var /\ "VTEXTFIXED" \in d.flags
        BY <1>1, <2>1, <3>1 DEF Owned
      <3> QED
        BY <2>2, <3>2
    <2>3. CASE w # v
      <3>1. vt2[w] = vt[w]
        BY <2>3
      <3> QED
        BY <1>6, <2>1, <3>1 DEF Owned
    <2> QED
      BY <2>2, <2>3
  <1>7. Kept(vt2["PATH"])
    BY <1>1 DEF Owned, Kept
  <1>8. \A i, j, c, k2, l, e :
          /\ Has(fr2, i, j, c) /\ Has(fr2, k2, l, e) /\ Earlier(i, j, k2, l)
          /\ e.text # 0 /\ c.text = e.text
          => c.var = e.var /\ "VTEXTFIXED" \in e.flags
    BY <1>1 DEF Owned
  <1>9. \A i, j, c : Has(fr2, i, j, c) /\ c.var = "PATH" => Kept(c)
    BY <1>1 DEF Owned
  <1>10. \A w \in Vars : Alive(tx2, vt2[w].text)
    BY <1>1, <1>2, <1>3
  <1>11. \A i, j, c : Has(fr2, i, j, c) => Alive(tx2, c.text)
    BY <1>1, <1>2
  <1> QED
    BY ONLY <1>5, <1>6, <1>7, <1>8, <1>9, <1>10, <1>11 DEF Owned

\* The variable after poplocalvars has restored it.
Renewed(s, d) ==
  [FreeUnlessFixed(RestoreCalls(s, d.var, d.text), s.vartab[d.var])
     EXCEPT !.vartab[d.var] = [text |-> d.text, flags |-> d.flags]]

\* It has the text and the flags of the copy, and nothing else changes.
Renews(s, r, fr, d) ==
  /\ KeepsOthers(s, r, fr, d.var) /\ r.aflag = s.aflag
  /\ r.vartab[d.var].text = d.text /\ r.vartab[d.var].flags = d.flags

\* What the restoring of a variable leaves.
LEMMA RenewedRight ==
  ASSUME NEW s, NEW fr, NEW n \in Nat, Heap(s, fr, n), NEW d \in Copies, d.var \in Vars,
         NEW fr2, Without(fr, d, fr2), NEW r, r = Renewed(s, d)
  PROVE  /\ Heap(r, fr2, n) /\ SameRest(s, r) /\ r.aflag = s.aflag /\ r.cwd = s.cwd
         /\ Renews(s, r, fr, d)
  <1>1. /\ s \in Shells /\ Owned(s.vartab, s.texts, fr) /\ Left(s.texts, n)
        /\ s.vartab \in [Vars -> Variables] /\ s.texts \in [TextIds -> Contents]
    BY ShellTypes DEF Heap
  <1>2. PICK v \in Vars : v = d.var
    OBVIOUS
  <1>3. PICK vp \in Variables : vp = s.vartab[v]
    BY <1>1
  <1>4. PICK x : x = RestoreCalls(s, v, d.text)
    OBVIOUS
  <1>5. /\ x \in Shells /\ x.frames = s.frames /\ SameFuncs(s, x) /\ x.vartab = s.vartab
        /\ x.texts = s.texts /\ x.aflag = s.aflag /\ x.cwd = s.cwd
        /\ Remembered(s) => Recalls(x, IF v = "PATH" THEN s.texts[d.text] ELSE PathVal(s))
    <2>1. CASE v = "PATH"
      <3>1. PICK i, j : Has(fr, i, j, d)
        BY DEF Without
      <3>2. d.text \in TextIds /\ s.texts[d.text] \notin {Free, Freed}
        BY <1>1, <1>2, <2>1, <3>1 DEF Owned, Kept, Alive
      <3>3. PICK new \in Contents : new = s.texts[d.text]
        BY <1>1, <3>2
      <3>4. x = ChangePath(s, PathVal(s), new)
        BY <1>4, <2>1, <3>3 DEF RestoreCalls
      <3>5. new \in Texts
        BY <3>2, <3>3 DEF Contents
      <3> QED
        BY <1>1, <2>1, <3>3, <3>4, <3>5, ChangePathRight DEF Remembered
    <2>2. CASE v # "PATH"
      BY <1>1, <1>4, <2>2 DEF RestoreCalls, SameFuncs, Remembered
    <2> QED
      BY <2>1, <2>2
  <1>6. PICK tx : tx = Released(x.texts, vp)
    OBVIOUS
  <1>7. /\ FreeUnlessFixed(x, vp) = [x EXCEPT !.texts = tx] /\ tx \in [TextIds -> Contents]
        /\ \A u \in TextIds : tx[u] = IF u = vp.text /\ "VTEXTFIXED" \notin vp.flags
                                      THEN Freed ELSE x.texts[u]
    <2>1. x \in Shells
      BY ONLY <1>5
    <2>2. /\ FreeUnlessFixed(x, vp) = [x EXCEPT !.texts = Released(x.texts, vp)]
          /\ Released(x.texts, vp) \in [TextIds -> Contents]
          /\ \A u \in TextIds : Released(x.texts, vp)[u] =
               IF u = vp.text /\ "VTEXTFIXED" \notin vp.flags THEN Freed ELSE x.texts[u]
      BY ONLY <2>1, FreeUnlessFixedRight, Zenon
    <2> QED
      BY ONLY <1>6, <2>2
  <1>8. PICK z \in Variables : /\ z = [text |-> d.text, flags |-> d.flags]
                               /\ z.text = d.text /\ z.flags = d.flags
    <2>1. [text |-> d.text, flags |-> d.flags] \in Variables
      BY DEF Copies, Variables
    <2> QED
      BY <2>1
  <1>9. PICK vt \in [Vars -> Variables] : vt = [s.vartab EXCEPT ![v] = z]
    BY <1>1
  <1>10. r = [x EXCEPT !.texts = tx, !.vartab = vt]
    <2>1. r = [FreeUnlessFixed(x, vp) EXCEPT !.vartab[v] = z]
      BY <1>2, <1>3, <1>4, <1>8 DEF Renewed
    <2> QED
      BY <1>5, <1>7, <1>9, <2>1 DEF Shells
  <1>11. /\ r \in Shells /\ r.texts = tx /\ r.vartab = vt /\ r.cmdtable = x.cmdtable
         /\ r.frames = x.frames /\ r.funcs = x.funcs /\ r.aflag = x.aflag /\ r.cwd = x.cwd
         /\ r.builtinloc = x.builtinloc
    BY <1>5, <1>7, <1>10 DEF Shells
  <1>12. PathVal(r) = IF v = "PATH" THEN s.texts[d.text] ELSE PathVal(s)
    <2>1. CASE v = "PATH"
      <3>1. PICK i, j : Has(fr, i, j, d)
        BY DEF Without
      <3>2. d.text \in TextIds /\ d.text # 0
        BY <1>1, <1>2, <2>1, <3>1 DEF Owned, Kept, Alive
      <3>3. d.text = vp.text => "VTEXTFIXED" \in vp.flags
        BY <1>1, <1>3, <3>1, <3>2 DEF Owned
      <3>4. tx[d.text] = s.texts[d.text]
        BY <1>5, <1>7, <3>2, <3>3
      <3>5. vt["PATH"].text = d.text
        BY <1>1, <1>8, <1>9, <2>1
      <3> QED
        BY <1>11, <2>1, <3>4, <3>5 DEF PathVal
    <2>2. CASE v # "PATH"
      <3>1. \A u \in TextIds : tx[u] = s.texts[u] \/ s.texts[u] = Free \/ u = s.vartab[v].text
        BY <1>3, <1>5, <1>7
      <3>2. tx[s.vartab["PATH"].text] = s.texts[s.vartab["PATH"].text]
        BY ONLY <1>1, <2>2, <3>1, v \in Vars, PathKept
      <3>3. vt["PATH"] = s.vartab["PATH"]
        BY <1>1, <1>9, <2>2
      <3> QED
        BY <1>11, <2>2, <3>2, <3>3 DEF PathVal
    <2> QED
      BY <2>1, <2>2
  <1>15. SameRest(s, r)
    <2>1. Remembered(s) => Remembered(r)
      BY <1>5, <1>11, <1>12, RecallsSame DEF Remembered
    <2> QED
      BY <1>5, <1>11, <2>1 DEF SameRest, SameFuncs
  <1>13. Owned(vt, tx, fr2)
    <2>1. vt[v].text = d.text /\ vt[v].flags = d.flags /\ \A w \in Vars \ {v} : vt[w] = s.vartab[w]
      BY <1>1, <1>8, <1>9
    <2>2. \A u \in TextIds : \/ tx[u] = s.texts[u]
                             \/ u = s.vartab[v].text /\ "VTEXTFIXED" \notin s.vartab[v].flags
      BY <1>3, <1>5, <1>7
    <2>3. d.var = v
      BY <1>2
    <2> QED
      BY ONLY <1>1, <2>1, <2>2, <2>3, v \in Vars, Without(fr, d, fr2), RestoredOwned
  <1>14. Left(tx, n)
    <2>1. \A u \in TextIds : tx[u] = Free <=> s.texts[u] = Free
      <3> SUFFICES ASSUME NEW u \in TextIds PROVE tx[u] = Free <=> s.texts[u] = Free
        OBVIOUS
      <3>1. u = vp.text => s.texts[u] # Free
        BY <1>1, <1>3 DEF Owned, Alive, TextIds
      <3> QED
        BY <1>5, <1>7, <3>1, FreeNotFreed
    <2>2. {u \in TextIds : tx[u] = Free} = {u \in TextIds : s.texts[u] = Free}
      BY <2>1
    <2> QED
      BY <1>1, <2>2 DEF Left
  <1>16. Renews(s, r, fr, d)
    <2>1. \A w \in Vars \ {v} : r.vartab[w] = s.vartab[w]
      BY <1>1, <1>9, <1>11
    <2>2. \A u \in TextIds :
            \/ r.texts[u] = s.texts[u] \/ s.texts[u] = Free
            \/ u = s.vartab[v].text /\ "VTEXTFIXED" \notin s.vartab[v].flags
      BY <1>3, <1>5, <1>7, <1>11
    <2>3. KeepsOthers(s, r, fr, v)
      BY ONLY <1>1, <2>1, <2>2, v \in Vars, OthersKept
    <2>4. r.vartab[v] = z
      BY <1>1, <1>9, <1>11
    <2>5. r.aflag = s.aflag
      BY <1>5, <1>11
    <2> QED
      BY ONLY <1>2, <1>8, <2>3, <2>4, <2>5 DEF Renews
  <1> QED
    BY <1>5, <1>11, <1>13, <1>14, <1>15, <1>16 DEF Heap

\* What poplocalvars leaves for the copy saved last.
LEMMA PopLocalRight ==
  ASSUME NEW s, NEW fr, NEW n \in Nat, Heap(s, fr, n + 1), NEW d \in Copies,
         NEW fr2, Without(fr, d, fr2), NEW r, r = PopLocal(s, d)
  PROVE  Heap(r, fr2, n) /\ SameRest(s, r) /\ r.cwd = s.cwd
  <1>1. /\ s \in Shells /\ Owned(s.vartab, s.texts, fr) /\ Left(s.texts, n + 1)
        /\ s.vartab \in [Vars -> Variables]
    BY ShellTypes DEF Heap
  <1>2. d.var \in Vars \cup {"-"} /\ d.aflag \in BOOLEAN
    BY DEF Copies
  <1>3. \A i, j, c : Has(fr2, i, j, c) => Has(fr, i, j, c)
    BY DEF Without
  <1>4. CASE d.var = "-"
    <2>1. r = [s EXCEPT !.aflag = d.aflag]
      BY <1>4 DEF PopLocal
    <2>2. /\ r \in Shells /\ r.texts = s.texts /\ r.vartab = s.vartab /\ r.cmdtable = s.cmdtable
          /\ r.frames = s.frames /\ r.funcs = s.funcs /\ r.cwd = s.cwd
          /\ r.builtinloc = s.builtinloc
      BY <1>1, <1>2, <2>1 DEF Shells
    <2>3. Owned(s.vartab, s.texts, fr2)
      BY <1>1, <1>3, FewerOwned
    <2>4. Left(s.texts, n)
      BY <1>1, LeftFewer
    <2>5. Remembered(s) => Remembered(r)
      BY <2>2, RememberedSame DEF PathVal
    <2> QED
      BY <2>2, <2>3, <2>4, <2>5 DEF Heap, SameRest, SameFuncs
  <1>5. CASE d.var # "-" /\ d.flags \cap {"VUNSET", "VSTRFIXED"} = {"VUNSET"}
    <2>1. r = UnsetVar(s, d.var, {})
      BY <1>5 DEF PopLocal
    <2>2. d.var \in Vars
      BY <1>2, <1>5
    <2>3. Heap(r, fr, n) /\ SameRest(s, r) /\ r.cwd = s.cwd
      BY <2>1, <2>2, UnsetVarRight
    <2>4. Owned(r.vartab, r.texts, fr2)
      BY <1>3, <2>3, FewerOwned DEF Heap
    <2> QED
      BY <2>3, <2>4 DEF Heap
  <1>6. CASE d.var # "-" /\ ~(d.flags \cap {"VUNSET", "VSTRFIXED"} = {"VUNSET"})
    <2>1. r = Renewed(s, d)
      BY <1>6 DEF PopLocal, Renewed
    <2>2. d.var \in Vars
      BY <1>2, <1>6
    <2>3. Heap(s, fr, n)
      BY <1>1, LeftFewer DEF Heap
    <2> QED
      BY <2>1, <2>2, <2>3, RenewedRight
  <1> QED
    BY <1>4, <1>5, <1>6

\* What one copy gives back.
Popped(s, d, fr2, r) ==
  /\ TextsKept(s, r, fr2) /\ Locked(r.vartab, fr2)
  /\ \A n \in ShellNames \ {d.var} : BoundIn(r)[n] = BoundIn(s)[n]
  /\ BoundIn(r)[d.var] \in Scopes!Restored(SavedIn(s.texts, d), BoundIn(s)[d.var])
  /\ \A n \in ShellNames : "VREADONLY" \in BoundIn(r)[n].attributes =>
                           "VREADONLY" \in BoundIn(s)[n].attributes

\* What was saved is what a name may be bound to again.
LEMMA RestoredSelf ==
  ASSUME NEW old \in ShellBindings, NEW now
  PROVE  old \in Scopes!Restored(old, now)
  BY DEF Scopes!Restored

\* And so is no value, or a read-only one that was there, where there was no value.
LEMMA RestoredUnset ==
  ASSUME NEW old \in ShellBindings, old.value = NotSet, NEW now, NEW b \in ShellBindings,
         \/ b.value = NotSet
         \/ "VREADONLY" \in b.attributes /\ "VREADONLY" \in now.attributes
  PROVE  b \in Scopes!Restored(old, now)
  BY DEF Scopes!Restored

\* poplocalvars gives back what the copy saved last says.
LEMMA PopLocalShown ==
  ASSUME NEW s, NEW fr, NEW n \in Nat, Heap(s, fr, n + 1), NEW d \in Copies,
         NEW fr2, Without(fr, d, fr2), NEW r, r = PopLocal(s, d), Heap(r, fr2, n),
         Locked(s.vartab, fr)
  PROVE  Popped(s, d, fr2, r)
  <1>1. /\ s \in Shells /\ Owned(s.vartab, s.texts, fr) /\ Left(s.texts, n + 1)
        /\ s.vartab \in [Vars -> Variables]
        /\ r \in Shells /\ Owned(r.vartab, r.texts, fr2) /\ r.vartab \in [Vars -> Variables]
    BY ShellTypes DEF Heap
  <1>2. PICK m, k : /\ Has(fr, m, k, d)
                    /\ \A i, j, c : Has(fr2, i, j, c) => Has(fr, i, j, c) /\ Earlier(i, j, m, k)
    BY DEF Without
  <1>3. d.var \in Vars \cup {"-"} /\ d.aflag \in BOOLEAN
    BY DEF Copies
  <1>4. PICK old \in ShellBindings : old = SavedIn(s.texts, d)
    BY <1>1, <1>2, BoundType
  <1>5. BoundIn(r) \in [ShellNames -> ShellBindings]
    BY <1>1, BoundType
  <1>6. Locked(s.vartab, fr2)
    BY <1>2, FewerLocked
  <1>7. CASE d.var = "-"
    <2>1. r = [s EXCEPT !.aflag = d.aflag]
      BY <1>7 DEF PopLocal
    <2>2. r.texts = s.texts /\ r.vartab = s.vartab /\ r.aflag = d.aflag
      BY <1>1, <2>1 DEF Shells
    <2>3. \A v \in Vars : BoundIn(r)[v] = BoundIn(s)[v]
      BY ONLY <2>2, BoundIs
    <2>4. BoundIn(r)["-"] = OptionBinding(d.aflag) /\ old = OptionBinding(d.aflag)
      BY ONLY <1>4, <1>7, <2>2, BoundIs DEF SavedIn
    <2>5. \A x \in ShellNames \ {d.var} : BoundIn(r)[x] = BoundIn(s)[x]
      BY ONLY <1>7, <2>3, BoundIs
    <2>6. BoundIn(r)[d.var] \in Scopes!Restored(old, BoundIn(s)[d.var])
      BY ONLY <1>7, <2>4, old \in ShellBindings, RestoredSelf
    <2>7. "VREADONLY" \notin OptionBinding(d.aflag).attributes
      BY DEF OptionBinding
    <2>8. \A x \in ShellNames : "VREADONLY" \in BoundIn(r)[x].attributes =>
                                "VREADONLY" \in BoundIn(s)[x].attributes
      BY ONLY <1>7, <2>4, <2>5, <2>7
    <2>9. TextsKept(s, r, fr2) /\ Locked(r.vartab, fr2)
      BY ONLY <1>6, <2>2 DEF TextsKept
    <2> QED
      BY ONLY <1>4, <2>5, <2>6, <2>8, <2>9 DEF Popped
  <1>8. CASE d.var # "-" /\ d.flags \cap {"VUNSET", "VSTRFIXED"} = {"VUNSET"}
    <2>1. r = UnsetVar(s, d.var, {}) /\ d.var \in Vars
      BY <1>3, <1>8 DEF PopLocal
    <2>2. /\ Heap(r, fr, n) /\ SameRest(s, r) /\ r.aflag = s.aflag /\ r.cwd = s.cwd
          /\ Touches(s, r, fr, d.var) /\ ("e" \notin {} => Gone(s, r, d.var))
      BY ONLY <2>1, n \in Nat, Heap(s, fr, n + 1), UnsetVarRight
    <2>3. ChangesOnly(s, r, fr, d.var)
      BY ONLY <2>1, <2>2, TouchesShown
    <2>4. Gone(s, r, d.var)
      BY <2>2
    <2>5. /\ BoundIn(r)[d.var] = BindingOf(r.texts, r.vartab[d.var])
          /\ BoundIn(s)[d.var] = BindingOf(s.texts, s.vartab[d.var])
      BY ONLY <2>1, BoundIs
    <2>6. \/ BoundIn(r)[d.var].value = NotSet
          \/ /\ "VREADONLY" \in BoundIn(r)[d.var].attributes
             /\ "VREADONLY" \in BoundIn(s)[d.var].attributes
      BY ONLY <2>4, <2>5, BindingIs DEF Gone, ReadOnly
    <2>7. BoundIn(r)[d.var] \in Scopes!Restored(old, BoundIn(s)[d.var])
      <3>1. old.value = NotSet
        <4>1. old = BindingOf(s.texts, d) /\ "VUNSET" \in d.flags
          BY <1>4, <1>8 DEF SavedIn
        <4> QED
          BY ONLY <4>1, BindingIs
      <3>2. BoundIn(r)[d.var] \in ShellBindings
        BY <1>5, <2>1, BoundIs
      <3> QED
        BY ONLY <2>6, <3>1, <3>2, old \in ShellBindings, RestoredUnset
    <2>8. \A x \in ShellNames \ {d.var} : BoundIn(r)[x] = BoundIn(s)[x]
      BY <2>3 DEF ChangesOnly
    <2>9. "VREADONLY" \in BoundIn(r)[d.var].attributes => "VREADONLY" \in BoundIn(s)[d.var].attributes
      BY ONLY <2>4, <2>5, BindingIs DEF Gone, ReadOnly
    <2>10. \A x \in ShellNames : "VREADONLY" \in BoundIn(r)[x].attributes =>
                                 "VREADONLY" \in BoundIn(s)[x].attributes
      BY ONLY <2>8, <2>9
    <2>11. TextsKept(s, r, fr2)
      BY <1>2, <2>3 DEF ChangesOnly, TextsKept
    <2>12. Locked(r.vartab, fr2)
      BY <1>2, <2>3, FewerLocked DEF ChangesOnly
    <2> QED
      BY ONLY <1>4, <2>7, <2>8, <2>10, <2>11, <2>12 DEF Popped
  <1>9. CASE d.var # "-" /\ ~(d.flags \cap {"VUNSET", "VSTRFIXED"} = {"VUNSET"})
    <2>1. r = Renewed(s, d)
      BY <1>9 DEF PopLocal, Renewed
    <2>2. d.var \in Vars
      BY <1>3, <1>9
    <2>3. Heap(s, fr, n)
      BY <1>1, LeftFewer DEF Heap
    <2>4. Renews(s, r, fr, d)
      BY ONLY <2>1, <2>2, <2>3, n \in Nat, d \in Copies, Without(fr, d, fr2), RenewedRight
    <2>5. /\ r.aflag = s.aflag /\ r.vartab[d.var].text = d.text /\ r.vartab[d.var].flags = d.flags
          /\ \A w \in Vars \ {d.var} :
               /\ r.vartab[w] = s.vartab[w]
               /\ s.vartab[w].text # 0 => r.texts[s.vartab[w].text] = s.texts[s.vartab[w].text]
          /\ TextsKept(s, r, fr)
      BY <2>4 DEF Renews, KeepsOthers, TextsKept
    <2>6. \A x \in ShellNames \ {d.var} : BoundIn(r)[x] = BoundIn(s)[x]
      <3> SUFFICES ASSUME NEW x \in ShellNames \ {d.var} PROVE BoundIn(r)[x] = BoundIn(s)[x]
        OBVIOUS
      <3>1. CASE x = "-"
        BY ONLY <2>5, <3>1, BoundIs
      <3>2. CASE x \in Vars
        <4>1. BindingOf(r.texts, r.vartab[x]) = BindingOf(s.texts, s.vartab[x])
          BY ONLY <2>5, <3>2, x \in ShellNames \ {d.var} DEF BindingOf
        <4> QED
          BY ONLY <3>2, <4>1, BoundIs
      <3> QED
        BY <3>1, <3>2, BoundIs
    <2>7. BoundIn(r)[d.var] = old
      <3>1. d.text # 0 => r.texts[d.text] = s.texts[d.text]
        BY <1>2, <2>5 DEF TextsKept
      <3>2. BindingOf(r.texts, r.vartab[d.var]) = BindingOf(s.texts, d)
        BY ONLY <2>5, <3>1 DEF BindingOf
      <3> QED
        BY ONLY <1>4, <1>9, <2>2, <3>2, BoundIs DEF SavedIn
    <2>8. BoundIn(r)[d.var] \in Scopes!Restored(old, BoundIn(s)[d.var])
      BY ONLY <2>7, old \in ShellBindings, RestoredSelf
    <2>9. "VREADONLY" \in BoundIn(r)[d.var].attributes => "VREADONLY" \in BoundIn(s)[d.var].attributes
      <3>1. "VREADONLY" \in d.flags => "VREADONLY" \in s.vartab[d.var].flags
        BY <1>2, <2>2 DEF Locked
      <3>2. /\ BoundIn(r)[d.var] = BindingOf(r.texts, r.vartab[d.var])
            /\ BoundIn(s)[d.var] = BindingOf(s.texts, s.vartab[d.var])
        BY ONLY <2>2, BoundIs
      <3> QED
        BY ONLY <2>5, <3>1, <3>2, BindingIs
    <2>10. \A x \in ShellNames : "VREADONLY" \in BoundIn(r)[x].attributes =>
                                 "VREADONLY" \in BoundIn(s)[x].attributes
      BY ONLY <2>6, <2>9
    <2>11. TextsKept(s, r, fr2)
      BY <1>2, <2>5 DEF TextsKept
    <2>12. Locked(r.vartab, fr2)
      <3>1. ASSUME NEW i, NEW j, NEW c, Has(fr2, i, j, c), c.var \in Vars, "VREADONLY" \in c.flags
            PROVE  "VREADONLY" \in r.vartab[c.var].flags
        <4>1. Has(fr, i, j, c) /\ Earlier(i, j, m, k)
          BY <1>2, <3>1
        <4>2. CASE c.var = d.var
          <5>1. "VREADONLY" \in d.flags
            BY <1>2, <3>1, <4>1, <4>2 DEF Locked
          <5> QED
            BY <2>5, <4>2, <5>1
        <4>3. CASE c.var # d.var
          <5>1. "VREADONLY" \in s.vartab[c.var].flags
            BY <3>1, <4>1 DEF Locked
          <5> QED
            BY <2>5, <3>1, <4>3, <5>1
        <4> QED
          BY <4>2, <4>3
      <3> QED
        BY ONLY <1>6, <3>1 DEF Locked
    <2> QED
      BY ONLY <1>4, <2>6, <2>8, <2>10, <2>11, <2>12 DEF Popped
  <1> QED
    BY <1>7, <1>8, <1>9

\* The shell after each of the copies, from the last to the first.
PopSteps(g, s, L, result) ==
  /\ result = g[0] /\ g[Len(L)] = s
  /\ \A m \in 1..Len(L) : g[m - 1] = PopLocal(g[m], L[m])

Least(S) == Min(S)

\* The copies are popped one by one, the newest first.
LEMMA PopsIterate ==
  ASSUME NEW s, NEW T, NEW L \in Seq(T)
  PROVE  \E g : PopSteps(g, s, L, FoldRight(LAMBDA lvp, t : PopLocal(t, lvp), L, s))
  <1> DEFINE n == Len(L)
             S == 1..n
             D(m) == {u \in SUBSET S : Cardinality(u) < m}
             Good(g, m) == g = [u \in D(m) |-> IF u = {} THEN s
                                ELSE PopLocal(g[u \ {Least(u)}], L[Least(u)])]
             bad == {m \in Nat : ~\E g : Good(g, m)}
  <1>1. n \in Nat /\ DOMAIN L = S
    OBVIOUS
  <1>2. IsFiniteSet(S) /\ S \subseteq Nat
    <2> HIDE DEF n
    <2> QED
      BY <1>1, FS_Interval
  <1> HIDE DEF S
  <1>3. \A u \in SUBSET S : Cardinality(u) \in Nat /\ Cardinality(u) <= Cardinality(S)
    BY <1>2, FS_Subset, FS_CardinalityType
  <1>4. \A u \in SUBSET S : u # {} => /\ Least(u) \in u /\ u \ {Least(u)} \in SUBSET S
                                      /\ Cardinality(u \ {Least(u)}) = Cardinality(u) - 1
    <2> SUFFICES ASSUME NEW u \in SUBSET S, u # {}
                 PROVE  /\ Least(u) \in u /\ u \ {Least(u)} \in SUBSET S
                        /\ Cardinality(u \ {Least(u)}) = Cardinality(u) - 1
      OBVIOUS
    <2>1. IsFiniteSet(u) /\ u \subseteq Nat
      BY <1>2, FS_Subset
    <2>2. Least(u) \in u
      BY ONLY <2>1, u # {}, MinIn DEF Least
    <2>3. Cardinality(u \ {Least(u)}) = Cardinality(u) - 1
      BY <2>1, <2>2, FS_RemoveElement
    <2> QED
      BY <2>2, <2>3
  <1>5. \A m : \A u : u \in D(m) <=> u \in SUBSET S /\ Cardinality(u) < m
    OBVIOUS
  <1> HIDE DEF D, n
  <1>6. bad = {}
    <2> SUFFICES ASSUME bad # {} PROVE FALSE
      OBVIOUS
    <2>1. PICK m \in bad : \A k \in bad : m <= k
      BY ONLY bad # {}, bad \subseteq Nat, LeastOf
    <2>2. m \in Nat /\ ~\E g : Good(g, m)
      <3> HIDE DEF Good
      <3> QED
        BY <2>1
    <2>3. \A k \in Nat : k < m => \E g : Good(g, k)
      <3> HIDE DEF Good
      <3> QED
        BY ONLY <2>1, <2>2
    <2>4. CASE m = 0
      <3>1. \A u \in SUBSET S : ~(Cardinality(u) < 0)
        BY ONLY <1>3
      <3>2. D(0) = {}
        BY <1>5, <3>1
      <3>3. Good([u \in {} |-> s], 0)
        BY <3>2
      <3> HIDE DEF Good
      <3> QED
        BY <2>2, <2>4, <3>3
    <2>5. CASE m # 0
      <3>1. m - 1 \in Nat /\ m - 1 < m
        BY ONLY <2>2, <2>5
      <3>2. PICK g : Good(g, m - 1)
        <4> HIDE DEF Good
        <4> QED
          BY <2>3, <3>1
      <3> DEFINE h == [u \in D(m) |-> IF u = {} THEN s
                                      ELSE PopLocal(g[u \ {Least(u)}], L[Least(u)])]
      <3>3. \A u \in D(m) : u # {} => u \ {Least(u)} \in D(m - 1)
        <4> SUFFICES ASSUME NEW u \in D(m), u # {} PROVE u \ {Least(u)} \in D(m - 1)
          OBVIOUS
        <4>1. u \in SUBSET S /\ Cardinality(u) < m
          BY <1>5
        <4>2. u \ {Least(u)} \in SUBSET S /\ Cardinality(u \ {Least(u)}) = Cardinality(u) - 1
              /\ Cardinality(u) \in Nat
          BY <1>3, <1>4, <4>1
        <4>3. Cardinality(u \ {Least(u)}) < m - 1
          BY ONLY <2>2, <4>1, <4>2
        <4> QED
          BY <1>5, <4>2, <4>3
      <3>4. \A u \in D(m - 1) : u \in D(m)
        <4> SUFFICES ASSUME NEW u \in D(m - 1) PROVE u \in D(m)
          OBVIOUS
        <4>1. u \in SUBSET S /\ Cardinality(u) < m - 1
          BY <1>5
        <4>2. Cardinality(u) \in Nat
          BY <1>3, <4>1
        <4>3. Cardinality(u) < m
          BY ONLY <2>2, <4>1, <4>2
        <4> QED
          BY <1>5, <4>1, <4>3
      <3>5. \A u \in D(m - 1) : h[u] = g[u]
        BY <3>2, <3>4
      <3>6. \A u \in D(m) : u # {} => h[u \ {Least(u)}] = g[u \ {Least(u)}]
        BY <3>3, <3>5
      <3>7. h = [u \in D(m) |-> IF u = {} THEN s
                                ELSE PopLocal(h[u \ {Least(u)}], L[Least(u)])]
        BY <3>6
      <3>8. \E k : Good(k, m)
        <4> HIDE DEF h
        <4> QED
          BY <3>7
      <3> HIDE DEF Good
      <3> QED
        BY <2>2, <3>8
    <2> QED
      BY <2>4, <2>5
  <1>7. D(Cardinality(S) + 1) = SUBSET S
    <2>1. Cardinality(S) \in Nat
      BY <1>2, FS_CardinalityType
    <2>2. \A u \in SUBSET S : Cardinality(u) < Cardinality(S) + 1
      BY ONLY <1>3, <2>1
    <2> QED
      BY <1>5, <2>2
  <1>8. \E g : g = [u \in SUBSET S |-> IF u = {} THEN s
                                       ELSE PopLocal(g[u \ {Least(u)}], L[Least(u)])]
    <2>1. Cardinality(S) + 1 \in Nat
      BY <1>2, FS_CardinalityType
    <2>2. \E g : Good(g, Cardinality(S) + 1)
      <3> HIDE DEF Good
      <3> QED
        BY <1>6, <2>1
    <2> QED
      BY <1>7, <2>2
  <1> DEFINE Iter == CHOOSE it : it = [u \in SUBSET (DOMAIN L) |->
                        IF u = {} THEN s ELSE PopLocal(it[u \ {Min(u)}], L[Min(u)])]
             result == FoldRight(LAMBDA lvp, t : PopLocal(t, lvp), L, s)
  <1>9. result = Iter[DOMAIN L]
    BY DEF FoldRight, MapThenFoldSet
  <1>10. Iter = [u \in SUBSET S |-> IF u = {} THEN s
                                    ELSE PopLocal(Iter[u \ {Least(u)}], L[Least(u)])]
    <2>1. Iter = CHOOSE it : it = [u \in SUBSET S |-> IF u = {} THEN s
                                   ELSE PopLocal(it[u \ {Least(u)}], L[Least(u)])]
      BY <1>1, Zenon DEF Least
    <2> HIDE DEF Iter
    <2> QED
      BY <1>8, <2>1, Zenon
  <1> HIDE DEF Iter, result
  <1> DEFINE g == [m \in 0..n |-> Iter[(m + 1)..n]]
  <1>11. result = g[0] /\ g[n] = s
    <2>1. (n + 1)..n = {} /\ (0 + 1)..n = S /\ n \in 0..n /\ 0 \in 0..n
      BY <1>1 DEF S
    <2>2. {} \in SUBSET S
      OBVIOUS
    <2> QED
      BY <1>1, <1>9, <1>10, <2>1, <2>2
  <1>12. ASSUME NEW m \in 1..n PROVE g[m - 1] = PopLocal(g[m], L[m])
    <2>1. /\ m \in 0..n /\ m - 1 \in 0..n /\ m \in Nat /\ m - 1 + 1 = m
          /\ m..n \subseteq S /\ m \in m..n /\ (m..n) \ {m} = (m + 1)..n
      <3>1. n \in Nat /\ m \in 1..n /\ S = 1..n
        BY <1>1 DEF S
      <3>2. m \in 0..n /\ m - 1 \in 0..n /\ m \in Nat /\ m - 1 + 1 = m /\ m \in m..n
        BY ONLY <3>1
      <3>3. m..n \subseteq S
        BY ONLY <3>1
      <3>4. \A i : i \in (m..n) \ {m} <=> i \in (m + 1)..n
        BY ONLY <3>1, <3>2
      <3>5. (m..n) \ {m} = (m + 1)..n
        BY ONLY <3>4
      <3> QED
        BY ONLY <3>2, <3>3, <3>5
    <2>2. Least(m..n) = m
      <3>1. m..n \subseteq Nat /\ m..n # {}
        BY ONLY <1>2, <2>1
      <3>2. Least(m..n) \in m..n /\ Least(m..n) <= m
        BY ONLY <2>1, <3>1, MinIn DEF Least
      <3> QED
        BY ONLY <1>1, <2>1, <3>2
    <2>3. Iter[m..n] = PopLocal(Iter[(m..n) \ {Least(m..n)}], L[Least(m..n)])
      BY ONLY <1>10, <2>1
    <2>4. Iter[m..n] = PopLocal(Iter[(m + 1)..n], L[m])
      BY ONLY <2>1, <2>2, <2>3
    <2> QED
      BY <2>1, <2>4
  <1>13. PopSteps(g, s, L, result)
    <2> HIDE DEF g
    <2> QED
      BY <1>11, <1>12 DEF PopSteps, n
  <1> QED
    BY <1>13 DEF result

\* The shells that poplocalvars goes through, one per copy.
Unfolds(g, s, fr, L, n) ==
  /\ g[Len(L)] = s
  /\ \A i \in 1..Len(L) : /\ g[i - 1] = PopLocal(g[i], L[i]) /\ L[i] \in Copies
                          /\ Without(Cut(fr, i), L[i], Cut(fr, i - 1))
  /\ \A i \in 0..Len(L) : /\ Heap(g[i], Cut(fr, i), n - Len(L) + i)
                          /\ SameRest(s, g[i]) /\ g[i].cwd = s.cwd

\* Each of them is one: as many texts are free as there are copies to pop.
LEMMA PopsRight ==
  ASSUME NEW s, NEW fr \in Seq(Calls), fr = s.frames, fr # <<>>, NEW n \in Nat,
         Len(fr[Len(fr)].localvars) <= n, Heap(s, fr, n)
  PROVE  \E g : /\ Unfolds(g, s, fr, fr[Len(fr)].localvars, n)
                /\ PopLocalVars(s) = [g[0] EXCEPT !.frames[Len(fr)].localvars = << >>]
  <1> DEFINE L == fr[Len(fr)].localvars
             k == Len(L)
  <1>1. L \in Seq(Copies) /\ k \in Nat /\ Len(fr) \in 1..Len(fr)
    <2>1. Len(fr) \in 1..Len(fr)
      OBVIOUS
    <2> QED
      BY <2>1, LocalvarsTypes
  <1>2. PICK x : x = FoldRight(LAMBDA lvp, t : PopLocal(t, lvp), L, s)
    OBVIOUS
  <1>3. PICK g : PopSteps(g, s, L, x)
    <2> HIDE DEF L
    <2> QED
      BY ONLY <1>1, <1>2, PopsIterate
  <1>4. \A i \in 0..k : /\ Cut(fr, i) \in Seq(Calls)
                        /\ \A a, b, c : Has(Cut(fr, i), a, b, c) <=>
                                          Has(fr, a, b, c) /\ (a = Len(fr) => b <= i)
    BY ONLY fr \in Seq(Calls), fr # <<>>, CutRight
  <1>5. ASSUME NEW i \in 1..k PROVE Without(Cut(fr, i), L[i], Cut(fr, i - 1))
    <2>1. i \in 0..k /\ i - 1 \in 0..k
      BY <1>1
    <2>2. Has(fr, Len(fr), i, L[i])
      BY <1>1 DEF Has
    <2>3. Has(Cut(fr, i), Len(fr), i, L[i])
      <3> HIDE DEF L, k
      <3>1. i <= i
        BY <1>1, <2>1
      <3> QED
        BY <1>4, <2>1, <2>2, <3>1
    <2>4. ASSUME NEW a, NEW b, NEW c, Has(Cut(fr, i - 1), a, b, c)
          PROVE  Has(Cut(fr, i), a, b, c) /\ Earlier(a, b, Len(fr), i)
      <3>1. Has(fr, a, b, c) /\ (a = Len(fr) => b <= i - 1)
        BY <1>4, <2>1, <2>4
      <3>2. a \in 1..Len(fr) /\ Len(fr) \in Nat
        BY <3>1 DEF Has
      <3>3. a = Len(fr) => b \in Nat
        BY <3>1 DEF Has
      <3>4. i \in Nat
        BY <1>1
      <3>5. a = Len(fr) => b <= i /\ b < i
        BY ONLY <3>1, <3>3, <3>4
      <3>6. a < Len(fr) \/ a = Len(fr)
        BY ONLY <3>2
      <3> HIDE DEF k, L
      <3>7. Has(Cut(fr, i), a, b, c)
        BY ONLY <1>4, <2>1, <3>1, <3>5
      <3> QED
        BY ONLY <3>5, <3>6, <3>7 DEF Earlier
    <2> QED
      BY <2>3, <2>4 DEF Without
  <1> DEFINE Right(i) == /\ Heap(g[i], Cut(fr, i), n - k + i) /\ SameRest(s, g[i])
                         /\ g[i].cwd = s.cwd
             bad == {j \in 0..k : ~Right(k - j)}
  <1>6. Right(k)
    <2>1. \A a, b, c : Has(Cut(fr, k), a, b, c) => Has(fr, a, b, c)
      <3>1. k \in 0..k
        BY <1>1
      <3> HIDE DEF k
      <3> QED
        BY <1>4, <3>1
    <2>2. g[k] = s /\ n - k + k = n
      BY <1>1, <1>3 DEF PopSteps
    <2>3. Heap(s, Cut(fr, k), n)
      <3> HIDE DEF k
      <3> QED
        BY <2>1, FewerOwned DEF Heap
    <2> QED
      BY <2>2, <2>3, SameRestNone
  <1>7. ASSUME NEW i \in 1..k, Right(i) PROVE Right(i - 1)
    <2>1. g[i - 1] = PopLocal(g[i], L[i]) /\ L[i] \in Copies
      BY <1>1, <1>3 DEF PopSteps
    <2>2. PICK m \in Nat : m = n - k + (i - 1) /\ m + 1 = n - k + i
      <3> HIDE DEF k
      <3>1. k \in Nat /\ n \in Nat /\ k <= n /\ i \in 1..k
        BY <1>1 DEF k
      <3>2. n - k + (i - 1) \in Nat /\ n - k + (i - 1) + 1 = n - k + i
        BY ONLY <3>1
      <3> QED
        BY ONLY <3>2
    <2>3. Heap(g[i], Cut(fr, i), m + 1) /\ SameRest(s, g[i]) /\ g[i].cwd = s.cwd
      BY <1>7, <2>2
    <2>4. PICK y : y = g[i - 1]
      OBVIOUS
    <2>5. Heap(y, Cut(fr, i - 1), m) /\ SameRest(g[i], y) /\ y.cwd = g[i].cwd
      <3> HIDE DEF L, k
      <3> QED
        BY ONLY <1>5, <2>1, <2>3, <2>4, i \in 1..k, m \in Nat, PopLocalRight
    <2> QED
      BY <2>2, <2>3, <2>4, <2>5, SameRestTwice
  <1>8. bad = {}
    <2> SUFFICES ASSUME bad # {} PROVE FALSE
      OBVIOUS
    <2> HIDE DEF Right
    <2>1. bad \subseteq Nat
      BY <1>1
    <2>2. PICK j \in bad : \A z \in bad : j <= z
      BY ONLY <2>1, bad # {}, LeastOf
    <2>3. j \in 0..k /\ ~Right(k - j)
      BY <2>2
    <2>4. CASE j = 0
      <3>1. k - j = k
        BY <1>1, <2>4
      <3> QED
        BY <1>6, <2>3, <3>1
    <2>5. CASE j # 0
      <3>1. j - 1 \in 0..k /\ ~(j <= j - 1) /\ k - (j - 1) \in 1..k /\ k - (j - 1) - 1 = k - j
        <4> HIDE DEF k
        <4>1. k \in Nat
          BY <1>1
        <4> QED
          BY ONLY <2>3, <2>5, <4>1
      <3>2. Right(k - (j - 1))
        BY <2>2, <3>1
      <3> QED
        BY <1>7, <2>3, <3>1, <3>2
    <2> QED
      BY <2>4, <2>5
  <1>9. \A i \in 0..k : Right(i)
    <2> HIDE DEF Right
    <2> SUFFICES ASSUME NEW i \in 0..k PROVE Right(i)
      OBVIOUS
    <2>1. k - i \in 0..k /\ k - (k - i) = i
      <3> HIDE DEF k
      <3>1. k \in Nat
        BY <1>1
      <3> QED
        BY ONLY <3>1, i \in 0..k
    <2> QED
      BY <1>8, <2>1
  <1>10. Unfolds(g, s, fr, L, n)
    <2>1. g[k] = s
      BY <1>3 DEF PopSteps
    <2>2. \A i \in 1..k : g[i - 1] = PopLocal(g[i], L[i]) /\ L[i] \in Copies
      BY <1>1, <1>3 DEF PopSteps
    <2> HIDE DEF L
    <2> QED
      BY ONLY <1>5, <1>9, <2>1, <2>2 DEF Unfolds, Right, k
  <1>11. PopLocalVars(s) = [g[0] EXCEPT !.frames[Len(fr)].localvars = << >>]
    <2>1. g[0] = x
      BY <1>3 DEF PopSteps
    <2>2. PopLocalVars(s) = [x EXCEPT !.frames[Len(fr)].localvars = << >>]
      BY <1>2 DEF PopLocalVars, Top
    <2> QED
      BY ONLY <2>1, <2>2
  <1> QED
    BY <1>10, <1>11

\* What poplocalvars leaves: no saved copy of the function being run.
LEMMA PopLocalVarsRight ==
  ASSUME NEW s, NEW fr \in Seq(Calls), fr = s.frames, fr # <<>>, NEW n \in Nat,
         Len(fr[Len(fr)].localvars) <= n, Heap(s, fr, n), NEW r, r = PopLocalVars(s)
  PROVE  /\ Heap(r, r.frames, 0) /\ r.frames = Cut(fr, 0) /\ SameTable(s, r) /\ r.cwd = s.cwd
         /\ \E g : /\ Unfolds(g, s, fr, fr[Len(fr)].localvars, n)
                   /\ r.vartab = g[0].vartab /\ r.texts = g[0].texts /\ r.aflag = g[0].aflag
  <1> DEFINE L == fr[Len(fr)].localvars
             k == Len(L)
  <1>1. L \in Seq(Copies) /\ k \in Nat /\ Len(fr) \in 1..Len(fr)
    <2>1. Len(fr) \in 1..Len(fr)
      OBVIOUS
    <2> QED
      BY <2>1, LocalvarsTypes
  <1>2. PICK g : /\ Unfolds(g, s, fr, L, n)
                 /\ PopLocalVars(s) = [g[0] EXCEPT !.frames[Len(fr)].localvars = << >>]
    BY PopsRight
  <1>3. PICK x : x = g[0]
    OBVIOUS
  <1>4. Cut(fr, 0) \in Seq(Calls)
    <2>1. 0 \in 0..k
      BY <1>1
    <2> QED
      BY <2>1, CutRight
  <1>10. /\ Heap(x, Cut(fr, 0), 0) /\ SameRest(s, x) /\ x.cwd = s.cwd
    <2>1. n - k + 0 \in Nat /\ 0 <= n - k + 0 /\ 0 \in Nat /\ 0 \in 0..k
      BY <1>1
    <2>2. Heap(x, Cut(fr, 0), n - k + 0) /\ SameRest(s, x) /\ x.cwd = s.cwd
      <3> HIDE DEF L
      <3> QED
        BY ONLY <1>2, <1>3, <2>1 DEF Unfolds, k
    <2>3. Left(x.texts, 0)
      <3> HIDE DEF k
      <3> QED
        BY <2>1, <2>2, LeftFewer DEF Heap
    <2> QED
      BY <2>2, <2>3 DEF Heap
  <1>11. x \in Shells /\ x.frames = fr
    BY <1>10 DEF Heap, SameRest
  <1>12. PICK fr2 \in Seq(Calls) : fr2 = Cut(fr, 0)
    BY <1>4
  <1>13. r = [x EXCEPT !.frames = fr2]
    <2>1. SubSeq(L, 1, 0) = <<>>
      BY <1>1
    <2>2. r = [x EXCEPT !.frames[Len(fr)].localvars = << >>]
      BY <1>2, <1>3
    <2>3. [fr EXCEPT ![Len(fr)].localvars = << >>] = fr2
      BY <1>12, <2>1 DEF Cut
    <2> HIDE DEF L
    <2> QED
      BY <1>11, <2>2, <2>3
  <1>14. /\ r \in Shells /\ r.texts = x.texts /\ r.vartab = x.vartab /\ r.frames = fr2
         /\ SameFuncs(x, r) /\ r.cwd = x.cwd /\ r.aflag = x.aflag
         /\ r.cmdtable = x.cmdtable /\ r.builtinloc = x.builtinloc
    BY ONLY <1>11, <1>13, fr2 \in Seq(Calls) DEF Shells, SameFuncs
  <1>15. SameTable(x, r)
    BY <1>14, RememberedSame DEF SameTable, PathVal
  <1>16. Heap(r, r.frames, 0)
    BY ONLY <1>10, <1>12, <1>14 DEF Heap
  <1>17. SameTable(s, r)
    BY ONLY <1>10, <1>15, SameTableTwice
  <1> HIDE DEF L
  <1> QED
    BY ONLY <1>2, <1>3, <1>10, <1>12, <1>14, <1>16, <1>17 DEF L

\* The copy at j is the first of n behind i.
IsFirst(L, i, n, j) ==
  /\ j \in (i + 1)..Len(L) /\ L[j].var = n
  /\ \A m \in (i + 1)..Len(L) : L[m].var = n => j <= m

\* What the copies of L behind i give back: the oldest of them decides.
PoppedTo(s, L, i, r, fr2) ==
  /\ TextsKept(s, r, fr2) /\ Locked(r.vartab, fr2)
  /\ \A n \in ShellNames : "VREADONLY" \in BoundIn(r)[n].attributes =>
                           "VREADONLY" \in BoundIn(s)[n].attributes
  /\ \A n \in ShellNames :
       (\A j \in (i + 1)..Len(L) : L[j].var # n) => BoundIn(r)[n] = BoundIn(s)[n]
  /\ \A n \in ShellNames : \A j : IsFirst(L, i, n, j) =>
       BoundIn(r)[n] \in Scopes!Restored(SavedIn(s.texts, L[j]), BoundIn(s)[n])

\* One more copy.
LEMMA PoppedMore ==
  ASSUME NEW s, NEW L, Len(L) \in Nat, NEW i \in 1..Len(L), NEW x, NEW fr1, NEW fr2, NEW y,
         PoppedTo(s, L, i, x, fr1), NEW d, d = L[i], Popped(x, d, fr2, y), Without(fr1, d, fr2)
  PROVE  PoppedTo(s, L, i - 1, y, fr2)
  <1>1. PICK a, b : Has(fr1, a, b, d)
    BY DEF Without
  <1>2. \A e, f, c : Has(fr2, e, f, c) => Has(fr1, e, f, c)
    BY DEF Without
  <1>3. SavedIn(x.texts, d) = SavedIn(s.texts, d)
    BY <1>1 DEF PoppedTo, TextsKept, SavedIn, BindingOf
  <1>4. TextsKept(s, y, fr2) /\ Locked(y.vartab, fr2)
    BY <1>2 DEF PoppedTo, Popped, TextsKept
  <1>5. \A n \in ShellNames : "VREADONLY" \in BoundIn(y)[n].attributes =>
                              "VREADONLY" \in BoundIn(s)[n].attributes
    BY DEF PoppedTo, Popped
  <1>6. i \in (i - 1 + 1)..Len(L) /\ \A j : j \in (i - 1 + 1)..Len(L) <=> j = i \/ j \in (i + 1)..Len(L)
    OBVIOUS
  <1>7. ASSUME NEW n \in ShellNames, \A j \in (i - 1 + 1)..Len(L) : L[j].var # n
        PROVE  BoundIn(y)[n] = BoundIn(s)[n]
    <2>1. n # d.var /\ \A j \in (i + 1)..Len(L) : L[j].var # n
      BY ONLY <1>6, <1>7, d = L[i]
    <2>2. BoundIn(y)[n] = BoundIn(x)[n]
      BY <2>1 DEF Popped
    <2>3. BoundIn(x)[n] = BoundIn(s)[n]
      BY <2>1 DEF PoppedTo
    <2> QED
      BY <2>2, <2>3
  <1>8. ASSUME NEW n \in ShellNames, NEW j, IsFirst(L, i - 1, n, j)
        PROVE  BoundIn(y)[n] \in Scopes!Restored(SavedIn(s.texts, L[j]), BoundIn(s)[n])
    <2>1. /\ j \in (i - 1 + 1)..Len(L) /\ L[j].var = n
          /\ \A m \in (i - 1 + 1)..Len(L) : L[m].var = n => j <= m
      BY <1>8 DEF IsFirst
    <2>2. CASE n = d.var
      <3>1. j = i
        <4>1. j <= i
          BY ONLY <1>6, <2>1, <2>2, d = L[i]
        <4> QED
          BY ONLY <2>1, <4>1, i \in 1..Len(L), Len(L) \in Nat
      <3>2. BoundIn(y)[n] \in Scopes!Restored(SavedIn(s.texts, d), BoundIn(x)[n])
        BY <1>3, <2>2 DEF Popped
      <3>3. "VREADONLY" \in BoundIn(x)[n].attributes => "VREADONLY" \in BoundIn(s)[n].attributes
        BY DEF PoppedTo
      <3>4. BoundIn(y)[n] \in Scopes!Restored(SavedIn(s.texts, d), BoundIn(s)[n])
        BY ONLY <3>2, <3>3 DEF Scopes!Restored
      <3> QED
        BY ONLY <3>1, <3>4, d = L[i]
    <2>3. CASE n # d.var
      <3>1. j # i
        BY <2>1, <2>3
      <3>2. IsFirst(L, i, n, j)
        BY ONLY <1>6, <2>1, <3>1 DEF IsFirst
      <3>3. BoundIn(x)[n] \in Scopes!Restored(SavedIn(s.texts, L[j]), BoundIn(s)[n])
        BY <3>2 DEF PoppedTo
      <3>4. BoundIn(y)[n] = BoundIn(x)[n]
        BY <2>3 DEF Popped
      <3> QED
        BY <3>3, <3>4
    <2> QED
      BY <2>2, <2>3
  <1> QED
    BY ONLY <1>4, <1>5, <1>7, <1>8 DEF PoppedTo

\* poplocalvars gives back what the first copy of each name says.
LEMMA PopLocalVarsShown ==
  ASSUME NEW s, NEW fr \in Seq(Calls), fr = s.frames, fr # <<>>, NEW n \in Nat,
         Len(fr[Len(fr)].localvars) <= n, Heap(s, fr, n), NEW r, r = PopLocalVars(s),
         Locked(s.vartab, fr)
  PROVE  PoppedTo(s, fr[Len(fr)].localvars, 0, r, Cut(fr, 0))
  <1>1. PICK L \in Seq(Copies) : L = fr[Len(fr)].localvars
    <2>1. Len(fr) \in 1..Len(fr)
      OBVIOUS
    <2> QED
      BY <2>1, LocalvarsTypes
  <1>2. PICK k \in Nat : k = Len(L)
    OBVIOUS
  <1>3. PICK g : /\ Unfolds(g, s, fr, L, n)
                 /\ r.vartab = g[0].vartab /\ r.texts = g[0].texts /\ r.aflag = g[0].aflag
    BY <1>1, PopLocalVarsRight
  <1>4. /\ g[k] = s
        /\ \A i \in 1..k : /\ g[i - 1] = PopLocal(g[i], L[i]) /\ L[i] \in Copies
                           /\ Without(Cut(fr, i), L[i], Cut(fr, i - 1))
        /\ \A i \in 0..k : Heap(g[i], Cut(fr, i), n - k + i)
    BY ONLY <1>2, <1>3 DEF Unfolds
  <1> DEFINE Done(i) == PoppedTo(s, L, i, g[i], Cut(fr, i)) /\ Locked(g[i].vartab, Cut(fr, i))
             bad == {j \in 0..k : ~Done(k - j)}
  <1>5. Done(k)
    <2>1. \A a, b, c : Has(Cut(fr, k), a, b, c) => Has(fr, a, b, c)
      <3>1. k \in 0..Len(fr[Len(fr)].localvars)
        BY <1>1, <1>2
      <3> QED
        BY ONLY <3>1, fr \in Seq(Calls), fr # <<>>, CutRight
    <2>2. Locked(s.vartab, Cut(fr, k))
      BY ONLY <2>1, Locked(s.vartab, fr), FewerLocked
    <2>3. \A a \in (k + 1)..Len(L) : FALSE
      BY ONLY <1>2, k \in Nat
    <2>4. PoppedTo(s, L, k, s, Cut(fr, k))
      BY ONLY <2>2, <2>3 DEF PoppedTo, IsFirst, TextsKept
    <2> QED
      BY ONLY <1>4, <2>2, <2>4
  <1>6. ASSUME NEW i \in 1..k, Done(i) PROVE Done(i - 1)
    <2>1. PICK m \in Nat : m = n - k + (i - 1) /\ m + 1 = n - k + i
      <3>1. k \in Nat /\ n \in Nat /\ k <= n /\ i \in 1..k
        BY <1>1, <1>2
      <3>2. n - k + (i - 1) \in Nat /\ n - k + (i - 1) + 1 = n - k + i
        BY ONLY <3>1
      <3> QED
        BY ONLY <3>2
    <2>2. PICK x, y : x = g[i] /\ y = g[i - 1]
      OBVIOUS
    <2>3. PICK d \in Copies : d = L[i]
      BY <1>4
    <2>4. i \in 0..k /\ i - 1 \in 0..k
      BY ONLY i \in 1..k, k \in Nat
    <2>5. /\ y = PopLocal(x, d) /\ Without(Cut(fr, i), d, Cut(fr, i - 1))
          /\ Heap(x, Cut(fr, i), m + 1) /\ Heap(y, Cut(fr, i - 1), m)
      BY ONLY <1>4, <2>1, <2>2, <2>3, <2>4, i \in 1..k
    <2>6. PoppedTo(s, L, i, x, Cut(fr, i)) /\ Locked(x.vartab, Cut(fr, i))
      BY ONLY <1>6, <2>2
    <2>7. Popped(x, d, Cut(fr, i - 1), y)
      BY ONLY <2>5, <2>6, m \in Nat, d \in Copies, PopLocalShown
    <2>8. PoppedTo(s, L, i - 1, y, Cut(fr, i - 1))
      <3>1. Len(L) \in Nat /\ i \in 1..Len(L)
        BY <1>2
      <3> QED
        BY ONLY <2>3, <2>5, <2>6, <2>7, <3>1, PoppedMore
    <2> QED
      BY ONLY <2>2, <2>7, <2>8 DEF Popped
  <1>7. bad = {}
    <2> SUFFICES ASSUME bad # {} PROVE FALSE
      OBVIOUS
    <2> HIDE DEF Done
    <2>1. PICK j \in bad : \A z \in bad : j <= z
      BY ONLY bad # {}, bad \subseteq Nat, LeastOf
    <2>2. j \in 0..k /\ ~Done(k - j)
      BY <2>1
    <2>3. CASE j = 0
      <3>1. k - j = k
        BY <2>3
      <3> QED
        BY <1>5, <2>2, <3>1
    <2>4. CASE j # 0
      <3>1. j - 1 \in 0..k /\ ~(j <= j - 1) /\ k - (j - 1) \in 1..k /\ k - (j - 1) - 1 = k - j
        BY ONLY <2>2, <2>4, k \in Nat
      <3>2. Done(k - (j - 1))
        BY <2>1, <3>1
      <3> QED
        BY <1>6, <2>2, <3>1, <3>2
    <2> QED
      BY <2>3, <2>4
  <1>8. Done(0)
    <2> HIDE DEF Done
    <2>1. k \in 0..k /\ k - k = 0
      OBVIOUS
    <2> QED
      BY <1>7, <2>1
  <1>9. BoundIn(r) = BoundIn(g[0])
    BY ONLY <1>3 DEF BoundIn
  <1> QED
    BY ONLY <1>1, <1>3, <1>8, <1>9 DEF PoppedTo, TextsKept

-----------------------------------------------------------------------------
(* Steps of ShellScopes.                                                   *)

\* The copy saved last is one of v, with what v was bound to.
Declares(s, r, fr, v) ==
  \E d \in Copies : r.frames = WithCopy(fr, d) /\ d.var = v /\ SavedIn(r.texts, d) = BoundIn(s)[v]

\* One variable changes; or it is made local; or a function is called, with fr for the calls
\* and their copies, and a variable is assigned for its time; or a function returns.
OneChanges(s, r) ==
  r.frames = s.frames /\ \E v \in ShellNames : ChangesOnly(s, r, s.frames, v)
OneDeclared(s, r) ==
  Len(s.frames) > 1 /\ \E v \in ShellNames : ChangesOnly(s, r, s.frames, v) /\ Declares(s, r, s.frames, v)
EnteredWith(s, r, fr) ==
  \E v \in ShellNames :
    /\ ChangesOnly(s, r, s.frames, v)
    /\ \/ Declares(s, r, fr, v)
       \/ /\ r.frames = fr
          /\ \/ BoundIn(r)[v] = BoundIn(s)[v]
             \/ /\ "VREADONLY" \in BoundIn(s)[v].attributes
                /\ BoundIn(r)[v].value = BoundIn(s)[v].value
OneEntered(s, r) == \E f \in 0..MaxFuncs : EnteredWith(s, r, WithCall(s.frames, f))
OneLeft(s, r) ==
  /\ Len(s.frames) > 1 /\ r.frames = Front(s.frames)
  /\ PoppedTo(s, s.frames[Len(s.frames)].localvars, 0, r, r.frames)

\* One step of ShellScopes, from the shell s to r.
Shown(s, r) ==
  Locked(s.vartab, s.frames) =>
    /\ Locked(r.vartab, r.frames)
    /\ OneChanges(s, r) \/ OneDeclared(s, r) \/ OneEntered(s, r) \/ OneLeft(s, r)

\* Where nothing changes no variable does.
LEMMA SameChanges ==
  ASSUME NEW s, NEW r, r.vartab = s.vartab, r.texts = s.texts, NEW fr, NEW v,
         r.aflag = s.aflag \/ v = "-"
  PROVE  ChangesOnly(s, r, fr, v)
  <1>1. \A n \in ShellNames \ {v} : BoundIn(r)[n] = BoundIn(s)[n]
    BY DEF BoundIn
  <1> QED
    BY <1>1 DEF ChangesOnly, TextsKept

\* Nor where only options change, or functions and the command table.
LEMMA ShownSame ==
  ASSUME NEW s, NEW r, r.vartab = s.vartab, r.texts = s.texts, r.frames = s.frames
  PROVE  Shown(s, r)
  <1>1. ChangesOnly(s, r, s.frames, "-") /\ "-" \in ShellNames
    BY SameChanges, BoundIs
  <1> QED
    BY <1>1 DEF Shown, OneChanges

\* A change of one variable.
LEMMA ShownTouched ==
  ASSUME NEW s, NEW r, r.frames = s.frames, NEW v \in Vars, Touches(s, r, s.frames, v)
  PROVE  Shown(s, r)
  <1>1. ChangesOnly(s, r, s.frames, v) /\ v \in ShellNames
    BY TouchesShown, BoundIs
  <1> QED
    BY <1>1 DEF Shown, OneChanges, ChangesOnly

\* A copy that is saved last, of a variable that stays read-only if it was.
LEMMA LockedPushed ==
  ASSUME NEW fr \in Seq(Calls), fr # <<>>, NEW d \in Copies, NEW vt, NEW vt2,
         Locked(vt, fr), Locked(vt2, fr),
         d.var \in Vars =>
           /\ "VREADONLY" \in d.flags <=> "VREADONLY" \in vt[d.var].flags
           /\ "VREADONLY" \in d.flags => "VREADONLY" \in vt2[d.var].flags
  PROVE  Locked(vt2, WithCopy(fr, d))
  <1>1. PICK fr2 : fr2 = WithCopy(fr, d)
    OBVIOUS
  <1>2. PICK n, m : n = Len(fr) /\ m = Len(fr[n].localvars)
    OBVIOUS
  <1>3. n \in Nat /\ n \in 1..Len(fr) /\ m \in Nat
    BY <1>2, LocalvarsTypes
  <1>4. \A i, j, c : Has(fr2, i, j, c) <=> Has(fr, i, j, c) \/ (i = n /\ j = m + 1 /\ c = d)
    BY ONLY <1>1, <1>2, fr \in Seq(Calls), fr # <<>>, d \in Copies, Pushed
  <1>5. \A i, j, c : Has(fr, i, j, c) => ~Earlier(n, m + 1, i, j)
    BY ONLY <1>2, <1>3 DEF Has, Earlier
  <1>6. ~Earlier(n, m + 1, n, m + 1)
    BY ONLY <1>3 DEF Earlier
  <1>7. ASSUME NEW i, NEW j, NEW c, Has(fr2, i, j, c), c.var \in Vars, "VREADONLY" \in c.flags
        PROVE  "VREADONLY" \in vt2[c.var].flags
    BY <1>4, <1>7 DEF Locked
  <1>8. ASSUME NEW i, NEW j, NEW c, NEW k, NEW l, NEW e,
               Has(fr2, i, j, c), Has(fr2, k, l, e), Earlier(i, j, k, l),
               c.var \in Vars, c.var = e.var, "VREADONLY" \in c.flags
        PROVE  "VREADONLY" \in e.flags
    <2>1. Has(fr, i, j, c)
      BY <1>4, <1>5, <1>6, <1>8
    <2>2. CASE Has(fr, k, l, e)
      BY <1>8, <2>1, <2>2 DEF Locked
    <2>3. CASE e = d
      <3>1. "VREADONLY" \in vt[c.var].flags
        BY <1>8, <2>1 DEF Locked
      <3> QED
        BY <1>8, <2>3, <3>1
    <2> QED
      BY <1>4, <1>8, <2>2, <2>3
  <1> QED
    BY ONLY <1>1, <1>7, <1>8 DEF Locked

\* What mklocal leaves: it fails, or v is declared.
LEMMA LocalDeclared ==
  ASSUME NEW s, NEW r, NEW v \in Vars, LocalShown(s, v, r), s.frames \in Seq(Calls), s.frames # <<>>,
         Locked(s.vartab, s.frames)
  PROVE  /\ ChangesOnly(s, r, s.frames, v) /\ Locked(r.vartab, r.frames)
         /\ \/ r.err /\ r.frames = s.frames /\ (~s.err => Unassigned(s, r, v))
            \/ Declares(s, r, s.frames, v)
  <1>1. Touches(s, r, s.frames, v) /\ ChangesOnly(s, r, s.frames, v)
    BY TouchesShown DEF LocalShown
  <1>2. Locked(r.vartab, s.frames)
    BY <1>1 DEF ChangesOnly
  <1>3. CASE r.err /\ r.frames = s.frames /\ (~s.err => Unassigned(s, r, v))
    BY <1>1, <1>2, <1>3
  <1>4. ASSUME NEW d \in Copies, r.frames = WithCopy(s.frames, d), IsCopy(s, r, v, d)
        PROVE  Locked(r.vartab, r.frames) /\ Declares(s, r, s.frames, v)
    <2>1. /\ d.var = v /\ v # "-" /\ (d.text # 0 => r.texts[d.text] = s.texts[d.text])
          /\ \/ d.text = s.vartab[v].text /\ d.flags = s.vartab[v].flags
             \/ s.vartab[v] = NoVar /\ d.text = 0 /\ d.flags = {"VUNSET"}
      BY <1>4 DEF IsCopy
    <2>2. "VREADONLY" \in d.flags <=> "VREADONLY" \in s.vartab[v].flags
      BY ONLY <2>1 DEF NoVar
    <2>3. "VREADONLY" \in d.flags => "VREADONLY" \in r.vartab[v].flags
      BY <1>1, <2>2 DEF Touches, ReadOnly
    <2>4. Locked(r.vartab, WithCopy(s.frames, d))
      <3>1. d.var \in Vars =>
              /\ "VREADONLY" \in d.flags <=> "VREADONLY" \in s.vartab[d.var].flags
              /\ "VREADONLY" \in d.flags => "VREADONLY" \in r.vartab[d.var].flags
        BY ONLY <2>1, <2>2, <2>3
      <3> QED
        BY ONLY <1>2, <3>1, d \in Copies, s.frames \in Seq(Calls), s.frames # <<>>,
                Locked(s.vartab, s.frames), LockedPushed
    <2>5. BindingOf(r.texts, d) = BindingOf(s.texts, s.vartab[v])
      BY ONLY <2>1 DEF BindingOf, NoVar, Visible
    <2>6. SavedIn(r.texts, d) = BoundIn(s)[v]
      BY <2>1, <2>5, BoundIs DEF SavedIn
    <2> QED
      BY ONLY <1>4, <2>1, <2>4, <2>6 DEF Declares
  <1> QED
    BY <1>1, <1>3, <1>4 DEF LocalShown

\* local in a function.
LEMMA ShownLocal ==
  ASSUME NEW s, NEW r, NEW v \in Vars, LocalShown(s, v, r), s.frames \in Seq(Calls), Len(s.frames) > 1
  PROVE  Shown(s, r)
  <1> SUFFICES ASSUME Locked(s.vartab, s.frames)
               PROVE  /\ Locked(r.vartab, r.frames)
                      /\ OneChanges(s, r) \/ OneDeclared(s, r)
    BY DEF Shown
  <1>1. s.frames # <<>> /\ v \in ShellNames
    BY BoundIs
  <1>2. /\ ChangesOnly(s, r, s.frames, v) /\ Locked(r.vartab, r.frames)
        /\ \/ r.frames = s.frames
           \/ Declares(s, r, s.frames, v)
    BY <1>1, LocalDeclared
  <1> QED
    BY <1>1, <1>2 DEF OneChanges, OneDeclared

\* local - in a function.
LEMMA ShownOptions ==
  ASSUME NEW s, NEW r, NEW d \in Copies, d.var = "-", d.aflag = s.aflag,
         r.vartab = s.vartab, r.texts = s.texts, r.aflag = s.aflag,
         r.frames = WithCopy(s.frames, d), s.frames \in Seq(Calls), Len(s.frames) > 1
  PROVE  Shown(s, r)
  <1> SUFFICES ASSUME Locked(s.vartab, s.frames)
               PROVE  Locked(r.vartab, r.frames) /\ OneDeclared(s, r)
    BY DEF Shown
  <1>1. s.frames # <<>> /\ "-" \in ShellNames /\ "-" \notin Vars
    BY BoundIs
  <1>2. Locked(r.vartab, WithCopy(s.frames, d))
    BY <1>1, LockedPushed
  <1>3. ChangesOnly(s, r, s.frames, "-")
    BY SameChanges
  <1>4. SavedIn(r.texts, d) = BoundIn(s)["-"]
    BY BoundIs DEF SavedIn
  <1> QED
    BY <1>1, <1>2, <1>3, <1>4 DEF OneDeclared, Declares

\* What a call that is entered has saved.
LEMMA LockedCalled ==
  ASSUME NEW s, NEW s1, s.frames \in Seq(Calls), NEW f \in 0..MaxFuncs,
         s1.vartab = s.vartab, s1.texts = s.texts, s1.aflag = s.aflag,
         s1.frames = WithCall(s.frames, f)
  PROVE  /\ s1.frames \in Seq(Calls)
         /\ Len(s1.frames) > 1 \/ s.frames = <<>>
         /\ \A i, j, c : Has(s1.frames, i, j, c) <=> Has(s.frames, i, j, c)
         /\ BoundIn(s1) = BoundIn(s)
         /\ Locked(s.vartab, s.frames) => Locked(s1.vartab, s1.frames)
  <1>1. PICK fr2 : fr2 = WithCall(s.frames, f)
    OBVIOUS
  <1>2. /\ fr2 \in Seq(Calls) /\ Len(fr2) = Len(s.frames) + 1
        /\ \A i, j, c : Has(fr2, i, j, c) <=> Has(s.frames, i, j, c)
    BY <1>1, Called
  <1>3. BoundIn(s1) = BoundIn(s)
    BY DEF BoundIn
  <1>4. Locked(s.vartab, s.frames) => Locked(s1.vartab, s1.frames)
    BY <1>1, <1>2, FewerLocked
  <1>5. s.frames # <<>> => Len(s.frames) + 1 > 1
    OBVIOUS
  <1> QED
    BY <1>1, <1>2, <1>3, <1>4, <1>5

\* A function is called.
LEMMA ShownCalled ==
  ASSUME NEW s, NEW s1, s.frames \in Seq(Calls), s.frames # <<>>, NEW f \in 0..MaxFuncs,
         s1.vartab = s.vartab, s1.texts = s.texts, s1.aflag = s.aflag,
         s1.frames = WithCall(s.frames, f)
  PROVE  Shown(s, s1)
  <1> SUFFICES ASSUME Locked(s.vartab, s.frames)
               PROVE  Locked(s1.vartab, s1.frames) /\ OneEntered(s, s1)
    BY DEF Shown
  <1>1. Locked(s1.vartab, s1.frames) /\ BoundIn(s1) = BoundIn(s)
    BY LockedCalled
  <1>2. ChangesOnly(s, s1, s.frames, "-") /\ "-" \in ShellNames
    BY SameChanges, BoundIs
  <1>3. EnteredWith(s, s1, WithCall(s.frames, f))
    BY ONLY <1>1, <1>2, s1.frames = WithCall(s.frames, f) DEF EnteredWith
  <1> QED
    BY <1>1, <1>3 DEF OneEntered

\* A function is called, and a variable is assigned for its time.
LEMMA ShownCalledWith ==
  ASSUME NEW s, NEW s1, s.frames \in Seq(Calls), s.frames # <<>>, NEW f \in 0..MaxFuncs,
         s1.vartab = s.vartab, s1.texts = s.texts, s1.aflag = s.aflag, ~s1.err,
         s1.frames = WithCall(s.frames, f), NEW v \in Vars, NEW r, LocalShown(s1, v, r)
  PROVE  Shown(s, r)
  <1> SUFFICES ASSUME Locked(s.vartab, s.frames)
               PROVE  Locked(r.vartab, r.frames) /\ OneEntered(s, r)
    BY DEF Shown
  <1>1. /\ s1.frames \in Seq(Calls) /\ Locked(s1.vartab, s1.frames) /\ BoundIn(s1) = BoundIn(s)
        /\ \A i, j, c : Has(s1.frames, i, j, c) <=> Has(s.frames, i, j, c)
        /\ s1.frames # <<>>
    <2>1. Len(s1.frames) > 1 => s1.frames # <<>>
      OBVIOUS
    <2> QED
      BY <2>1, LockedCalled
  <1>2. /\ ChangesOnly(s1, r, s1.frames, v) /\ Locked(r.vartab, r.frames)
        /\ \/ r.frames = s1.frames /\ Unassigned(s1, r, v)
           \/ Declares(s1, r, s1.frames, v)
    BY <1>1, LocalDeclared
  <1>3. ChangesOnly(s, r, s.frames, v)
    <2>1. \A n \in ShellNames \ {v} : BoundIn(r)[n] = BoundIn(s)[n]
      BY <1>1, <1>2 DEF ChangesOnly
    <2>2. TextsKept(s, r, s.frames)
      BY <1>1, <1>2 DEF ChangesOnly, TextsKept
    <2>3. Locked(r.vartab, s.frames)
      <3>1. Locked(r.vartab, s1.frames)
        BY <1>1, <1>2 DEF ChangesOnly
      <3> QED
        BY ONLY <1>1, <3>1, FewerLocked
    <2> QED
      BY <2>1, <2>2, <2>3 DEF ChangesOnly
  <1>4. v \in ShellNames /\ BoundIn(s)[v] = BindingOf(s.texts, s.vartab[v])
                         /\ BoundIn(r)[v] = BindingOf(r.texts, r.vartab[v])
    BY BoundIs
  <1>5. CASE r.frames = s1.frames /\ Unassigned(s1, r, v)
    <2>1. "VREADONLY" \in BoundIn(s)[v].attributes
      BY <1>4, <1>5, BindingIs DEF Unassigned, ReadOnly
    <2>2. BoundIn(r)[v].value = BoundIn(s)[v].value
      BY <1>4, <1>5 DEF Unassigned, BindingOf
    <2>3. EnteredWith(s, r, WithCall(s.frames, f))
      BY <1>3, <1>4, <1>5, <2>1, <2>2 DEF EnteredWith
    <2> QED
      BY <1>2, <2>3 DEF OneEntered
  <1>6. CASE Declares(s1, r, s1.frames, v)
    <2>1. Declares(s, r, WithCall(s.frames, f), v)
      BY <1>1, <1>6 DEF Declares
    <2>2. EnteredWith(s, r, WithCall(s.frames, f))
      BY <1>3, <1>4, <2>1 DEF EnteredWith
    <2> QED
      BY <1>2, <2>2 DEF OneEntered
  <1> QED
    BY <1>2, <1>5, <1>6

\* With fewer copies fewer texts are kept, and fewer copies are locked.
LEMMA FewerPopped ==
  ASSUME NEW s, NEW L, NEW i, NEW r, NEW fr, PoppedTo(s, L, i, r, fr), NEW fr2,
         \A a, b, c : Has(fr2, a, b, c) => Has(fr, a, b, c)
  PROVE  PoppedTo(s, L, i, r, fr2)
  <1>1. TextsKept(s, r, fr2) /\ Locked(r.vartab, fr2)
    BY FewerLocked DEF PoppedTo, TextsKept
  <1> QED
    BY <1>1 DEF PoppedTo

\* The calls and copies that were there before one more call.
LEMMA FrontIs ==
  ASSUME NEW fr \in Seq(Calls), NEW fr2 \in Seq(Calls), Len(fr2) = Len(fr) + 1,
         \A i \in 1..Len(fr) : fr2[i] = fr[i]
  PROVE  /\ Front(fr2) = fr
         /\ \A a, b, c : Has(fr, a, b, c) => Has(fr2, a, b, c)
  <1>1. PICK x : x = Front(fr2)
    OBVIOUS
  <1>2. fr2 # <<>> /\ Len(fr) \in Nat
    OBVIOUS
  <1>3. /\ x \in Seq(Calls) /\ Len(x) = Len(fr2) - 1 /\ \A i \in 1..Len(x) : x[i] = fr2[i]
        /\ \A i, j, c : Has(x, i, j, c) <=> Has(fr2, i, j, c) /\ i # Len(fr2)
    BY ONLY <1>1, <1>2, fr2 \in Seq(Calls), Returned
  <1>4. Len(x) = Len(fr)
    BY ONLY <1>2, <1>3, Len(fr2) = Len(fr) + 1
  <1>5. x = fr
    BY ONLY <1>3, <1>4, fr \in Seq(Calls), \A i \in 1..Len(fr) : fr2[i] = fr[i]
  <1> QED
    BY ONLY <1>1, <1>3, <1>5

\* What the last function has saved does not count for the others.
LEMMA FrontCut ==
  ASSUME NEW fr \in Seq(Calls), fr # <<>>
  PROVE  /\ Cut(fr, 0) \in Seq(Calls) /\ Len(Cut(fr, 0)) = Len(fr)
         /\ \A i \in 1..(Len(fr) - 1) : Cut(fr, 0)[i] = fr[i]
         /\ Front(Cut(fr, 0)) = Front(fr)
         /\ \A a, b, c : Has(Front(fr), a, b, c) => Has(Cut(fr, 0), a, b, c)
  <1>1. Len(fr) \in 1..Len(fr) /\ Len(fr) \in Nat
    OBVIOUS
  <1>2. 0 \in 0..Len(fr[Len(fr)].localvars)
    BY <1>1, LocalvarsTypes
  <1>3. PICK cf : cf = Cut(fr, 0)
    OBVIOUS
  <1>4. /\ cf \in Seq(Calls) /\ Len(cf) = Len(fr)
        /\ \A i \in 1..Len(fr) : i # Len(fr) => cf[i] = fr[i]
    BY ONLY <1>2, <1>3, fr \in Seq(Calls), fr # <<>>, CutRight
  <1>5. PICK fr1 : fr1 = Front(fr)
    OBVIOUS
  <1>6. fr1 \in Seq(Calls) /\ Len(fr1) = Len(fr) - 1 /\ \A i \in 1..Len(fr1) : fr1[i] = fr[i]
    BY ONLY <1>5, fr \in Seq(Calls), fr # <<>>, Returned
  <1>7. \A i \in 1..(Len(fr) - 1) : i \in 1..Len(fr) /\ i # Len(fr)
    BY ONLY <1>1
  <1>8. Len(cf) = Len(fr1) + 1 /\ \A i \in 1..Len(fr1) : cf[i] = fr1[i]
    BY ONLY <1>1, <1>4, <1>6, <1>7
  <1>9. Front(cf) = fr1 /\ \A a, b, c : Has(fr1, a, b, c) => Has(cf, a, b, c)
    BY ONLY <1>4, <1>6, <1>8, FrontIs
  <1> QED
    BY ONLY <1>3, <1>4, <1>5, <1>7, <1>9

\* Variables, texts and options are the same.
SameBound(s, r) == r.vartab = s.vartab /\ r.texts = s.texts /\ r.aflag = s.aflag

LEMMA SameBoundIn ==
  ASSUME NEW s, NEW r, SameBound(s, r)
  PROVE  BoundIn(r) = BoundIn(s) /\ \A fr : TextsKept(s, r, fr)
  BY DEF SameBound, BoundIn, TextsKept

\* A function returns when its copies have been popped.
LEMMA ShownLeft ==
  ASSUME NEW s, NEW x, NEW y, NEW r, NEW fr \in Seq(Calls), fr = s.frames, Len(fr) > 1,
         SameBound(s, x), SameBound(y, r), r.frames = Front(Cut(fr, 0)),
         Locked(x.vartab, fr) => PoppedTo(x, fr[Len(fr)].localvars, 0, y, Cut(fr, 0))
  PROVE  Shown(s, r)
  <1> SUFFICES ASSUME Locked(s.vartab, s.frames)
               PROVE  Locked(r.vartab, r.frames) /\ OneLeft(s, r)
    BY DEF Shown
  <1>1. PICK L : L = fr[Len(fr)].localvars
    OBVIOUS
  <1>2. fr # <<>>
    OBVIOUS
  <1>3. /\ r.frames = Front(fr)
        /\ \A a, b, c : Has(Front(fr), a, b, c) => Has(Cut(fr, 0), a, b, c)
    BY <1>2, FrontCut
  <1>4. PoppedTo(x, L, 0, y, Cut(fr, 0))
    BY <1>1 DEF SameBound
  <1>5. PoppedTo(x, L, 0, y, Front(fr))
    BY ONLY <1>3, <1>4, FewerPopped
  <1>6. /\ BoundIn(x) = BoundIn(s) /\ BoundIn(r) = BoundIn(y)
        /\ x.texts = s.texts /\ r.texts = y.texts /\ r.vartab = y.vartab
    BY SameBoundIn DEF SameBound
  <1>7. PoppedTo(s, L, 0, r, Front(fr))
    BY ONLY <1>5, <1>6 DEF PoppedTo, TextsKept
  <1> QED
    BY <1>1, <1>3, <1>7 DEF OneLeft, PoppedTo

\* PATH is local to a call that is popped before anybody sees it, or that is left as it is.
LEMMA ShownHashed ==
  ASSUME NEW s, s.frames \in Seq(Calls), s.frames # <<>>, NEW s1, SameBound(s, s1),
         s1.frames = WithCall(s.frames, 0), NEW s2, LocalShown(s1, "PATH", s2),
         NEW fr \in Seq(Calls), fr = s2.frames, NEW x, SameBound(s2, x), NEW y,
         \/ y = s2
         \/ /\ y.frames = Cut(fr, 0)
            /\ Locked(x.vartab, fr) => PoppedTo(x, fr[Len(fr)].localvars, 0, y, Cut(fr, 0)),
         NEW r, SameBound(y, r), r.frames = Front(y.frames)
  PROVE  Shown(s, r)
  <1> SUFFICES ASSUME Locked(s.vartab, s.frames)
               PROVE  Locked(r.vartab, r.frames) /\ OneChanges(s, r)
    BY DEF Shown
  <1>1. 0 \in 0..MaxFuncs /\ "PATH" \in Vars /\ "PATH" \in ShellNames
    BY BoundIs
  <1>2. /\ s1.frames \in Seq(Calls) /\ Locked(s1.vartab, s1.frames) /\ BoundIn(s1) = BoundIn(s)
        /\ \A i, j, c : Has(s1.frames, i, j, c) <=> Has(s.frames, i, j, c)
        /\ Len(s1.frames) = Len(s.frames) + 1 /\ s1.frames # <<>>
        /\ s1.frames[Len(s1.frames)].localvars = <<>>
        /\ \A i \in 1..Len(s.frames) : s1.frames[i] = s.frames[i]
    <2>1. /\ s1.frames \in Seq(Calls) /\ Len(s1.frames) = Len(s.frames) + 1
          /\ s1.frames[Len(s1.frames)].localvars = <<>>
          /\ \A i \in 1..Len(s.frames) : s1.frames[i] = s.frames[i]
      BY <1>1, Called
    <2>2. s1.frames # <<>>
      BY <2>1
    <2> QED
      BY <1>1, <2>1, <2>2, LockedCalled DEF SameBound
  <1>3. /\ ChangesOnly(s1, s2, s1.frames, "PATH") /\ Locked(s2.vartab, fr)
        /\ fr = s1.frames \/ Declares(s1, s2, s1.frames, "PATH")
    BY <1>1, <1>2, LocalDeclared
  <1>4. /\ Len(fr) = Len(s.frames) + 1 /\ \A i \in 1..Len(s.frames) : fr[i] = s.frames[i]
        /\ \A j \in (0 + 1)..Len(fr[Len(fr)].localvars) : fr[Len(fr)].localvars[j].var = "PATH"
    <2>1. CASE fr = s1.frames
      <3>1. Len(fr[Len(fr)].localvars) = 0
        BY <1>2, <2>1
      <3> QED
        BY <1>2, <2>1, <3>1
    <2>2. CASE Declares(s1, s2, s1.frames, "PATH")
      <3>1. PICK d \in Copies : fr = WithCopy(s1.frames, d) /\ d.var = "PATH"
        BY <2>2 DEF Declares
      <3>2. PICK n \in Nat : n = Len(s.frames) /\ Len(s1.frames) = n + 1
        BY <1>2
      <3>3. PICK e \in Calls : e = s1.frames[n + 1] /\ e.localvars = <<>>
        BY <1>2, <3>2
      <3>4. /\ fr = [s1.frames EXCEPT ![n + 1] = [e EXCEPT !.localvars = Append(<<>>, d)]]
            /\ DOMAIN s1.frames = 1..(n + 1)
        BY ONLY <1>2, <3>1, <3>2, <3>3 DEF WithCopy
      <3>5. [e EXCEPT !.localvars = Append(<<>>, d)].localvars = Append(<<>>, d)
        BY DEF Calls
      <3>6. fr[n + 1].localvars = Append(<<>>, d) /\ Len(fr) = n + 1
        BY ONLY <1>2, <3>2, <3>4, <3>5, n \in Nat, fr \in Seq(Calls)
      <3>7. \A i \in 1..n : fr[i] = s1.frames[i]
        BY ONLY <3>4, n \in Nat
      <3>8. Len(Append(<<>>, d)) = 1 /\ Append(<<>>, d)[1] = d
        OBVIOUS
      <3>9. \A j \in (0 + 1)..Len(fr[Len(fr)].localvars) : fr[Len(fr)].localvars[j].var = "PATH"
        <4>1. \A j \in (0 + 1)..1 : j = 1
          OBVIOUS
        <4> QED
          BY ONLY <3>1, <3>6, <3>8, <4>1
      <3> QED
        BY ONLY <1>2, <3>2, <3>6, <3>7, <3>9
    <2> QED
      BY <1>3, <2>1, <2>2
  <1>5. fr # <<>> /\ Len(s.frames) \in Nat
    BY <1>4
  <1>6. r.frames = s.frames /\ \A a, b, c : Has(s.frames, a, b, c) => Has(y.frames, a, b, c)
    <2>1. CASE y = s2
      <3>1. Front(fr) = s.frames /\ \A a, b, c : Has(s.frames, a, b, c) => Has(fr, a, b, c)
        BY ONLY <1>4, s.frames \in Seq(Calls), fr \in Seq(Calls), FrontIs
      <3> QED
        BY <2>1, <3>1
    <2>2. CASE y.frames = Cut(fr, 0)
      <3>1. PICK cf : cf = Cut(fr, 0)
        OBVIOUS
      <3>2. /\ cf \in Seq(Calls) /\ Len(cf) = Len(fr)
            /\ \A i \in 1..(Len(fr) - 1) : cf[i] = fr[i]
        BY ONLY <1>5, <3>1, fr \in Seq(Calls), FrontCut
      <3>3. Len(cf) = Len(s.frames) + 1 /\ \A i \in 1..Len(s.frames) : cf[i] = s.frames[i]
        BY ONLY <1>4, <1>5, <3>2
      <3>4. Front(cf) = s.frames /\ \A a, b, c : Has(s.frames, a, b, c) => Has(cf, a, b, c)
        BY ONLY <3>2, <3>3, s.frames \in Seq(Calls), FrontIs
      <3> QED
        BY <2>2, <3>1, <3>4
    <2> QED
      BY <2>1, <2>2
  <1>7. /\ \A n \in ShellNames \ {"PATH"} : BoundIn(y)[n] = BoundIn(s2)[n]
        /\ TextsKept(s2, y, s.frames) /\ Locked(y.vartab, s.frames)
    <2>1. CASE y = s2
      BY <1>3, <1>6, <2>1, FewerLocked DEF TextsKept
    <2>2. CASE y.frames = Cut(fr, 0) /\ PoppedTo(x, fr[Len(fr)].localvars, 0, y, Cut(fr, 0))
      <3>1. x.texts = s2.texts /\ BoundIn(x) = BoundIn(s2)
        BY SameBoundIn DEF SameBound
      <3>2. PoppedTo(x, fr[Len(fr)].localvars, 0, y, s.frames)
        BY ONLY <1>6, <2>2, FewerPopped
      <3>3. \A n \in ShellNames \ {"PATH"} : BoundIn(y)[n] = BoundIn(x)[n]
        BY ONLY <1>4, <3>2 DEF PoppedTo
      <3> QED
        BY ONLY <3>1, <3>2, <3>3 DEF PoppedTo, TextsKept
    <2> QED
      BY <1>3, <2>1, <2>2 DEF SameBound
  <1>8. BoundIn(r) = BoundIn(y) /\ r.texts = y.texts /\ r.vartab = y.vartab
    BY SameBoundIn DEF SameBound
  <1>9. /\ \A n \in ShellNames \ {"PATH"} : BoundIn(s2)[n] = BoundIn(s1)[n]
        /\ TextsKept(s1, s2, s.frames) /\ s1.texts = s.texts
    BY <1>2, <1>3 DEF ChangesOnly, TextsKept, SameBound
  <1>10. TextsKept(s, r, s.frames)
    BY ONLY <1>7, <1>8, <1>9 DEF TextsKept
  <1>11. ChangesOnly(s, r, s.frames, "PATH")
    BY ONLY <1>2, <1>7, <1>8, <1>9, <1>10 DEF ChangesOnly
  <1> QED
    BY <1>1, <1>6, <1>7, <1>8, <1>11 DEF OneChanges

-----------------------------------------------------------------------------
(* Bodies of functions.                                                    *)

\* The calls of a function can be counted.
LEMMA RunsCounted ==
  ASSUME NEW fr \in Seq(Calls), NEW f
  PROVE  IsFiniteSet(Runs(fr, f)) /\ Cardinality(Runs(fr, f)) \in Nat
  <1>1. IsFiniteSet(1..Len(fr))
    BY FS_Interval
  <1>2. IsFiniteSet(Runs(fr, f))
    BY <1>1, FS_Subset DEF Runs
  <1> QED
    BY <1>2, FS_CardinalityType

\* The calls of a function when one more is made.
LEMMA RunsCalled ==
  ASSUME NEW fr \in Seq(Calls), NEW f \in 0..MaxFuncs, NEW fr2,
         fr2 = WithCall(fr, f), NEW h
  PROVE  Cardinality(Runs(fr2, h)) =
           IF h = f THEN Cardinality(Runs(fr, h)) + 1 ELSE Cardinality(Runs(fr, h))
  <1>1. /\ fr2 \in Seq(Calls) /\ Len(fr2) = Len(fr) + 1 /\ fr2[Len(fr2)].func = f
        /\ \A i \in 1..Len(fr) : fr2[i] = fr[i]
    <2>1. fr2 = WithCall(fr, f)
      OBVIOUS
    <2> QED
      BY ONLY <2>1, fr \in Seq(Calls), f \in 0..MaxFuncs, Called, SMT
  <1>2. PICK n \in Nat : n = Len(fr)
    OBVIOUS
  <1>3. \A i : i \in 1..(n + 1) <=> i \in 1..n \/ i = n + 1
    OBVIOUS
  <1>4. \A i : i \in Runs(fr2, h) <=> i \in Runs(fr, h) \/ (i = n + 1 /\ h = f)
    BY ONLY <1>1, <1>2, <1>3 DEF Runs
  <1>5. n + 1 \notin Runs(fr, h)
    BY ONLY <1>2, n \in Nat DEF Runs
  <1>6. CASE h = f
    <2>1. Runs(fr2, h) = Runs(fr, h) \cup {n + 1}
      BY ONLY <1>4, <1>6
    <2>2. IsFiniteSet(Runs(fr, h))
      BY RunsCounted
    <2> QED
      BY ONLY <1>5, <1>6, <2>1, <2>2, FS_AddElement
  <1>7. CASE h # f
    <2>1. Runs(fr2, h) = Runs(fr, h)
      BY ONLY <1>4, <1>7
    <2> QED
      BY ONLY <1>7, <2>1
  <1> QED
    BY <1>6, <1>7

\* And when the last one returns.
LEMMA RunsReturned ==
  ASSUME NEW fr \in Seq(Calls), fr # <<>>, NEW fr2, fr2 = Front(fr), NEW h
  PROVE  Cardinality(Runs(fr2, h)) =
           IF h = fr[Len(fr)].func THEN Cardinality(Runs(fr, h)) - 1 ELSE Cardinality(Runs(fr, h))
  <1>1. /\ fr2 \in Seq(Calls) /\ Len(fr2) = Len(fr) - 1
        /\ \A i \in 1..Len(fr2) : fr2[i] = fr[i]
    BY Returned
  <1>2. PICK n \in Nat : n = Len(fr) /\ n >= 1
    OBVIOUS
  <1>3. \A i : i \in 1..n <=> i \in 1..(n - 1) \/ i = n
    BY ONLY <1>2, n \in Nat
  <1>4. n \notin 1..(n - 1)
    BY ONLY n \in Nat
  <1>5. \A i : i \in Runs(fr, h) <=> i \in Runs(fr2, h) \/ (i = n /\ h = fr[n].func)
    BY ONLY <1>1, <1>2, <1>3, <1>4 DEF Runs
  <1>6. n \notin Runs(fr2, h)
    BY ONLY <1>1, <1>2, <1>4 DEF Runs
  <1>7. IsFiniteSet(Runs(fr2, h)) /\ Cardinality(Runs(fr2, h)) \in Nat
    BY <1>1, RunsCounted
  <1>8. CASE h = fr[n].func
    <2>1. Runs(fr, h) = Runs(fr2, h) \cup {n}
      BY ONLY <1>5, <1>8
    <2>2. Cardinality(Runs(fr, h)) = Cardinality(Runs(fr2, h)) + 1
      BY ONLY <1>6, <1>7, <2>1, FS_AddElement
    <2> QED
      BY ONLY <1>2, <1>7, <1>8, <2>2
  <1>9. CASE h # fr[n].func
    <2>1. Runs(fr, h) = Runs(fr2, h)
      BY ONLY <1>5, <1>9
    <2> QED
      BY ONLY <1>2, <1>9, <2>1
  <1> QED
    BY <1>8, <1>9

\* Where neither functions nor calls change, the count is right as before.
LEMMA BodiesSame ==
  ASSUME NEW s, NEW r, Bodies(s.cmdtable, s.funcs, s.frames), SameTable(s, r),
         Len(r.frames) = Len(s.frames),
         \A i \in 1..Len(s.frames) : r.frames[i].func = s.frames[i].func
  PROVE  Bodies(r.cmdtable, r.funcs, r.frames)
  <1>1. \A f : Runs(r.frames, f) = Runs(s.frames, f)
    BY DEF Runs
  <1>2. \A c \in Commands : IsFunction(r.cmdtable, c) =>
          IsFunction(s.cmdtable, c) /\ r.cmdtable[c].param = s.cmdtable[c].param
    BY DEF SameTable, SameFuncs, IsFunction
  <1>3. r.funcs = s.funcs
    BY DEF SameTable, SameFuncs
  <1> QED
    BY ONLY <1>1, <1>2, <1>3, Bodies(s.cmdtable, s.funcs, s.frames) DEF Bodies

\* A function that is called is counted once more.
LEMMA BodiesCalled ==
  ASSUME NEW ct, NEW fn \in [FuncIds -> Nat], NEW fr \in Seq(Calls), Bodies(ct, fn, fr),
         NEW f \in FuncIds, NEW fn2, fn2 = [fn EXCEPT ![f] = fn[f] + 1],
         NEW fr2, fr2 = WithCall(fr, f)
  PROVE  Bodies(ct, fn2, fr2) /\ fn2 \in [FuncIds -> Nat]
  <1>1. f \in 0..MaxFuncs
    BY DEF FuncIds
  <1>2. \A h : Cardinality(Runs(fr2, h)) =
          IF h = f THEN Cardinality(Runs(fr, h)) + 1 ELSE Cardinality(Runs(fr, h))
    BY <1>1, RunsCalled
  <1>3. \A h : Cardinality(Runs(fr, h)) \in Nat
    BY RunsCounted
  <1>4. fn2 \in [FuncIds -> Nat] /\ \A h \in FuncIds : fn2[h] = IF h = f THEN fn[f] + 1 ELSE fn[h]
    OBVIOUS
  <1>5. \A h \in FuncIds : fn2[h] >= Cardinality(Runs(fr2, h))
    BY <1>2, <1>3, <1>4 DEF Bodies
  <1>6. ASSUME NEW c \in Commands, IsFunction(ct, c)
        PROVE  fn2[ct[c].param] >= Cardinality(Runs(fr2, ct[c].param)) + 1
    <2>1. PICK h \in FuncIds : h = ct[c].param /\ fn[h] >= Cardinality(Runs(fr, h)) + 1
      BY <1>6 DEF Bodies
    <2>2. fn[h] \in Nat /\ fn[f] \in Nat
      OBVIOUS
    <2>3. fn2[h] >= Cardinality(Runs(fr2, h)) + 1
      BY ONLY <1>2, <1>3, <1>4, <2>1, <2>2, h \in FuncIds
    <2> QED
      BY <2>1, <2>3
  <1> QED
    BY <1>4, <1>5, <1>6 DEF Bodies

\* A call that is counted for no command.
LEMMA BodiesPushed ==
  ASSUME NEW ct, NEW fn, NEW fr \in Seq(Calls), Bodies(ct, fn, fr),
         NEW fr2, fr2 = WithCall(fr, 0)
  PROVE  Bodies(ct, fn, fr2)
  <1>1. 0 \in 0..MaxFuncs
    OBVIOUS
  <1>2. \A h \in FuncIds : h # 0
    BY DEF FuncIds
  <1>3. \A h \in FuncIds : Cardinality(Runs(fr2, h)) = Cardinality(Runs(fr, h))
    BY <1>1, <1>2, RunsCalled
  <1> QED
    BY <1>3 DEF Bodies

\* What unreffunc leaves.
LEMMA UnrefRight ==
  ASSUME NEW s \in Shells, NEW f, NEW r, r = Unref(s, f)
  PROVE  /\ r = [s EXCEPT !.funcs = r.funcs] /\ r.funcs \in [FuncIds -> Nat]
         /\ \A h \in FuncIds : r.funcs[h] = IF h = f /\ s.funcs[h] >= 1 THEN s.funcs[h] - 1
                                            ELSE s.funcs[h]
  <1>1. s.funcs \in [FuncIds -> Nat]
    BY ShellTypes
  <1>2. PICK fn : fn = [s.funcs EXCEPT ![f] = Max({s.funcs[f] - 1, 0})]
    OBVIOUS
  <1>3. r = [s EXCEPT !.funcs = fn]
    BY <1>2 DEF Unref
  <1>4. f \in FuncIds => Max({s.funcs[f] - 1, 0}) = IF s.funcs[f] >= 1 THEN s.funcs[f] - 1
                                                    ELSE s.funcs[f]
    <2> SUFFICES ASSUME f \in FuncIds
                 PROVE  Max({s.funcs[f] - 1, 0}) = IF s.funcs[f] >= 1 THEN s.funcs[f] - 1
                                                   ELSE s.funcs[f]
      OBVIOUS
    <2>1. PICK a \in Nat : a = s.funcs[f]
      BY <1>1
    <2>2. a - 1 \in Int /\ 0 \in Int
      OBVIOUS
    <2>3. Max({a - 1, 0}) = IF a - 1 >= 0 THEN a - 1 ELSE 0
      BY ONLY <2>2, MaxPair
    <2> QED
      BY ONLY <2>1, <2>3, a \in Nat
  <1>5. /\ fn \in [FuncIds -> Nat]
        /\ \A h \in FuncIds : fn[h] = IF h = f /\ s.funcs[h] >= 1 THEN s.funcs[h] - 1
                                      ELSE s.funcs[h]
    <2>1. f \in FuncIds => Max({s.funcs[f] - 1, 0}) \in Nat
      BY <1>1, <1>4
    <2>2. \A h \in FuncIds : fn[h] = IF h = f THEN Max({s.funcs[f] - 1, 0}) ELSE s.funcs[h]
      BY ONLY <1>1, <1>2
    <2>3. fn \in [FuncIds -> Nat]
      BY ONLY <1>1, <1>2, <2>1
    <2> QED
      BY ONLY <1>4, <2>2, <2>3
  <1>6. r.funcs = fn
    BY ONLY <1>3, s \in Shells DEF Shells
  <1> QED
    BY ONLY <1>3, <1>5, <1>6

\* Functions change; variables, and what is known of PATH, do not.
SameVars(s, r) ==
  /\ r.vartab = s.vartab /\ r.texts = s.texts /\ r.frames = s.frames
  /\ r.aflag = s.aflag /\ r.cwd = s.cwd /\ r.builtinloc = s.builtinloc /\ r.err = s.err

\* The table stays right where what is new in it is true.
LEMMA RememberedChanged ==
  ASSUME NEW s, NEW r, SameVars(s, r), Remembered(s),
         \A c \in Commands : \/ r.cmdtable[c] = s.cmdtable[c]
                             \/ TrueOf(s, r.cmdtable[c], c, PathVal(s))
  PROVE  Remembered(r)
  <1>1. PathVal(r) = PathVal(s) /\ r.cwd = s.cwd /\ r.builtinloc = s.builtinloc
    BY DEF SameVars, PathVal
  <1>2. \A c \in Commands : TrueOf(s, r.cmdtable[c], c, PathVal(s))
    BY DEF Remembered, Recalls
  <1>3. \A e, c, path : TrueOf(s, e, c, path) => TrueOf(r, e, c, path)
    BY <1>1 DEF TrueOf, Hit, Exists
  <1> QED
    BY <1>1, <1>2, <1>3 DEF Remembered, Recalls

\* What defun leaves.
LEMMA DefunRight ==
  ASSUME NEW s \in Shells, Bodies(s.cmdtable, s.funcs, s.frames), NEW c \in Commands,
         NEW f \in FuncIds, s.funcs[f] = 0, NEW r, r = Defun(s, c, f)
  PROVE  /\ r \in Shells /\ SameVars(s, r) /\ Bodies(r.cmdtable, r.funcs, r.frames)
         /\ c \in Defined /\ Remembered(s) => Remembered(r)
  <1>1. /\ s.cmdtable \in [Commands -> Entries] /\ s.funcs \in [FuncIds -> Nat]
        /\ s.frames \in Seq(Calls)
    BY ShellTypes
  <1>2. PICK e \in Entries : e = s.cmdtable[c]
    BY <1>1
  <1>3. PICK s1 : s1 = IF e.cmdtype = "function" THEN Unref(s, e.param) ELSE s
    OBVIOUS
  <1>4. /\ s1 = [s EXCEPT !.funcs = s1.funcs] /\ s1.funcs \in [FuncIds -> Nat]
        /\ \A h \in FuncIds : \/ s1.funcs[h] = s.funcs[h]
                              \/ h = e.param /\ e.cmdtype = "function" /\ s1.funcs[h] = s.funcs[h] - 1
    <2>1. CASE e.cmdtype = "function"
      <3>1. s1 = Unref(s, e.param)
        BY <1>3, <2>1
      <3>2. /\ s1 = [s EXCEPT !.funcs = s1.funcs] /\ s1.funcs \in [FuncIds -> Nat]
            /\ \A h \in FuncIds : s1.funcs[h] = IF h = e.param /\ s.funcs[h] >= 1
                                                THEN s.funcs[h] - 1 ELSE s.funcs[h]
        BY ONLY <3>1, s \in Shells, UnrefRight
      <3> QED
        BY ONLY <2>1, <3>2
    <2>2. CASE e.cmdtype # "function"
      BY <1>1, <1>3, <2>2 DEF Shells
    <2> QED
      BY <2>1, <2>2
  <1>5. PICK z \in Entries : /\ z = [e EXCEPT !.cmdtype = "function", !.param = f]
                             /\ z.cmdtype = "function" /\ z.param = f
    <2>1. [e EXCEPT !.cmdtype = "function", !.param = f] \in Entries
      <3>1. f \in Nat /\ "function" \in CmdTypes
        BY DEF CmdTypes, FuncIds
      <3> QED
        BY ONLY <3>1, e \in Entries DEF Entries
    <2> QED
      BY <2>1 DEF Entries
  <1>6. PICK ct \in [Commands -> Entries] : ct = [s.cmdtable EXCEPT ![c] = z]
    BY <1>1
  <1>7. PICK fn \in [FuncIds -> Nat] : fn = [s1.funcs EXCEPT ![f] = 1]
    BY <1>4
  <1>8. r = [s EXCEPT !.funcs = fn, !.cmdtable = ct]
    <2>1. r = [s1 EXCEPT !.funcs[f] = 1, !.cmdtable[c] = z]
      BY <1>2, <1>3, <1>5 DEF Defun
    <2> QED
      BY <1>4, <1>6, <1>7, <2>1 DEF Shells
  <1>9. r \in Shells /\ SameVars(s, r) /\ r.funcs = fn /\ r.cmdtable = ct
    BY <1>8 DEF Shells, SameVars
  <1>10. \A h : Cardinality(Runs(s.frames, h)) \in Nat
    BY <1>1, RunsCounted
  <1>11. Cardinality(Runs(s.frames, f)) = 0
    <2>1. 0 >= Cardinality(Runs(s.frames, f))
      BY DEF Bodies
    <2> QED
      BY <1>10, <2>1
  <1>12. \A d \in Commands : IsFunction(s.cmdtable, d) => s.cmdtable[d].param # f
    <2> SUFFICES ASSUME NEW d \in Commands, IsFunction(s.cmdtable, d), s.cmdtable[d].param = f
                 PROVE  FALSE
      OBVIOUS
    <2>1. 0 >= 0 + 1
      BY <1>11 DEF Bodies
    <2> QED
      BY <2>1
  <1>13. /\ IsFunction(ct, c) /\ ct[c].param = f
         /\ \A d \in Commands \ {c} : ct[d] = s.cmdtable[d]
    BY <1>1, <1>5, <1>6 DEF IsFunction
  <1>14. \A h \in FuncIds : fn[h] = IF h = f THEN 1 ELSE s1.funcs[h]
    BY <1>4, <1>7
  <1>15. IsFunction(s.cmdtable, c) <=> e.cmdtype = "function"
    BY <1>2 DEF IsFunction
  <1>16. ASSUME NEW h \in FuncIds PROVE fn[h] >= Cardinality(Runs(s.frames, h))
    <2>1. CASE h = f
      BY <1>11, <1>14, <2>1
    <2>2. CASE h # f /\ s1.funcs[h] = s.funcs[h]
      BY <1>14, <2>2 DEF Bodies
    <2>3. CASE h # f /\ h = e.param /\ e.cmdtype = "function" /\ s1.funcs[h] = s.funcs[h] - 1
      <3>1. s.funcs[h] >= Cardinality(Runs(s.frames, h)) + 1 /\ s.funcs[h] \in Nat
        BY <1>1, <1>2, <1>15, <2>3 DEF Bodies
      <3> QED
        BY ONLY <1>10, <1>14, <2>3, <3>1, h \in FuncIds
    <2> QED
      BY <1>4, <2>1, <2>2, <2>3
  <1>17. ASSUME NEW d \in Commands, IsFunction(ct, d)
         PROVE  /\ ct[d].param \in FuncIds
                /\ fn[ct[d].param] >= Cardinality(Runs(s.frames, ct[d].param)) + 1
    <2>1. CASE d = c
      BY <1>11, <1>13, <1>14, <2>1
    <2>2. CASE d # c
      <3>1. IsFunction(s.cmdtable, d) /\ ct[d] = s.cmdtable[d]
        BY <1>13, <1>17, <2>2 DEF IsFunction
      <3>2. PICK h \in FuncIds : h = ct[d].param /\ s.funcs[h] >= Cardinality(Runs(s.frames, h)) + 1
        BY <3>1 DEF Bodies
      <3>3. h # f
        BY <1>12, <3>1, <3>2
      <3>4. ~(h = e.param /\ e.cmdtype = "function")
        BY <1>2, <1>15, <2>2, <3>1, <3>2 DEF Bodies
      <3>5. fn[h] = s.funcs[h]
        BY <1>4, <1>14, <3>3, <3>4
      <3> QED
        BY <3>2, <3>5
    <2> QED
      BY <2>1, <2>2
  <1>18. \A d, d2 \in Commands :
           IsFunction(ct, d) /\ IsFunction(ct, d2) /\ ct[d].param = ct[d2].param => d = d2
    BY <1>12, <1>13 DEF Bodies, IsFunction
  <1>19. Bodies(ct, fn, s.frames)
    BY ONLY <1>16, <1>17, <1>18 DEF Bodies
  <1>20. ASSUME c \in Defined, Remembered(s) PROVE Remembered(r)
    <2>1. TrueOf(s, r.cmdtable[c], c, PathVal(s))
      BY <1>9, <1>13, <1>20 DEF TrueOf, IsFunction
    <2> QED
      BY <1>9, <1>13, <1>20, <2>1, RememberedChanged
  <1> QED
    BY <1>9, <1>19, <1>20 DEF SameVars

\* Commands may lose their functions, but not to each other.
Fewer(ct, ct2) ==
  \A c \in Commands : IsFunction(ct2, c) => IsFunction(ct, c) /\ ct2[c].param = ct[c].param

\* What is counted for commands that have lost their functions may be too much, never too little.
LEMMA BodiesFewer ==
  ASSUME NEW ct, NEW ct2, NEW fn, NEW fr, Bodies(ct, fn, fr), Fewer(ct, ct2)
  PROVE  Bodies(ct2, fn, fr)
  BY DEF Bodies, Fewer

\* What deletecmdentry leaves.
LEMMA DeleteEntryRight ==
  ASSUME NEW s \in Shells, NEW c \in Commands, NEW r, r = DeleteEntry(s, c)
  PROVE  /\ r \in Shells /\ SameVars(s, r) /\ r.funcs = s.funcs /\ r.builtinloc = s.builtinloc
         /\ Fewer(s.cmdtable, r.cmdtable) /\ ~IsFunction(r.cmdtable, c) /\ r.entry = s.entry
         /\ r = [s EXCEPT !.cmdtable = r.cmdtable]
         /\ \A d \in Commands \ {c} : r.cmdtable[d] = s.cmdtable[d]
         /\ Remembered(s) => Remembered(r)
  <1>1. s.cmdtable \in [Commands -> Entries]
    BY ShellTypes
  <1>2. NoEntry \in Entries /\ NoEntry.cmdtype = "none"
    BY DEF NoEntry, Entries, CmdTypes
  <1>3. PICK ct \in [Commands -> Entries] : ct = [s.cmdtable EXCEPT ![c] = NoEntry]
    BY <1>1, <1>2
  <1>4. r = [s EXCEPT !.cmdtable = ct]
    BY <1>3 DEF DeleteEntry
  <1>5. /\ r \in Shells /\ SameVars(s, r) /\ r.funcs = s.funcs /\ r.builtinloc = s.builtinloc
        /\ r.cmdtable = ct /\ r.entry = s.entry
    BY <1>4 DEF Shells, SameVars
  <1>6. ct[c].cmdtype = "none" /\ \A d \in Commands \ {c} : ct[d] = s.cmdtable[d]
    BY <1>1, <1>2, <1>3
  <1>7. Remembered(s) => Remembered(r)
    <2>1. ct[c] = NoEntry
      BY <1>1, <1>3
    <2> QED
      BY <1>5, <1>6, <2>1, NoEntryTrue, RememberedChanged
  <1> QED
    BY <1>4, <1>5, <1>6, <1>7 DEF Fewer, IsFunction

\* What unset -f leaves.
LEMMA UnsetFuncRight ==
  ASSUME NEW s \in Shells, Bodies(s.cmdtable, s.funcs, s.frames), NEW c \in Commands,
         NEW r, r = UnsetFunc(s, c)
  PROVE  /\ r \in Shells /\ SameVars(s, r) /\ Bodies(r.cmdtable, r.funcs, r.frames)
         /\ Remembered(s) => Remembered(r)
  <1>1. CASE s.cmdtable[c].cmdtype # "function"
    BY <1>1 DEF UnsetFunc, SameVars
  <1>2. CASE s.cmdtable[c].cmdtype = "function"
    <2>1. PICK f \in FuncIds : f = s.cmdtable[c].param
      BY <1>2 DEF Bodies, IsFunction
    <2>2. PICK x : x = Unref(s, f)
      OBVIOUS
    <2>3. /\ x = [s EXCEPT !.funcs = x.funcs] /\ x.funcs \in [FuncIds -> Nat]
          /\ \A h \in FuncIds : x.funcs[h] = IF h = f /\ s.funcs[h] >= 1 THEN s.funcs[h] - 1
                                             ELSE s.funcs[h]
      BY ONLY <2>2, s \in Shells, UnrefRight
    <2>4. x \in Shells /\ SameVars(s, x) /\ x.cmdtable = s.cmdtable
      BY <2>3 DEF Shells, SameVars
    <2>5. r = DeleteEntry(x, c)
      BY <1>2, <2>1, <2>2 DEF UnsetFunc
    <2>6. /\ r \in Shells /\ SameVars(x, r) /\ r.funcs = x.funcs
          /\ Fewer(x.cmdtable, r.cmdtable) /\ ~IsFunction(r.cmdtable, c)
          /\ Remembered(x) => Remembered(r)
      BY ONLY <2>4, <2>5, c \in Commands, DeleteEntryRight
    <2>7. /\ s.funcs \in [FuncIds -> Nat] /\ s.frames \in Seq(Calls)
          /\ \A h : Cardinality(Runs(s.frames, h)) \in Nat
      BY ShellTypes, RunsCounted
    <2>8. s.funcs[f] >= Cardinality(Runs(s.frames, f)) + 1
      BY <1>2, <2>1 DEF Bodies, IsFunction
    <2>9. \A h \in FuncIds : r.funcs[h] >= Cardinality(Runs(s.frames, h))
      <3> SUFFICES ASSUME NEW h \in FuncIds PROVE x.funcs[h] >= Cardinality(Runs(s.frames, h))
        BY <2>6
      <3>1. s.funcs[h] >= Cardinality(Runs(s.frames, h)) /\ s.funcs[h] \in Nat
        BY <2>7 DEF Bodies
      <3> QED
        BY ONLY <2>3, <2>7, <2>8, <3>1, h \in FuncIds
    <2>10. ASSUME NEW d \in Commands, IsFunction(r.cmdtable, d)
           PROVE  /\ IsFunction(s.cmdtable, d) /\ r.cmdtable[d].param = s.cmdtable[d].param
                  /\ r.funcs[r.cmdtable[d].param] = s.funcs[s.cmdtable[d].param]
      <3>1. /\ IsFunction(s.cmdtable, d) /\ r.cmdtable[d].param = s.cmdtable[d].param /\ d # c
        BY <2>4, <2>6, <2>10 DEF Fewer
      <3>2. s.cmdtable[d].param # f /\ s.cmdtable[d].param \in FuncIds
        BY <1>2, <2>1, <3>1 DEF Bodies, IsFunction
      <3> QED
        BY <2>3, <2>6, <3>1, <3>2
    <2>11. Bodies(r.cmdtable, r.funcs, s.frames)
      BY ONLY <2>9, <2>10, Bodies(s.cmdtable, s.funcs, s.frames) DEF Bodies
    <2>12. Remembered(s) => Remembered(x)
      BY <2>4, RememberedChanged
    <2> QED
      BY <2>4, <2>6, <2>11, <2>12 DEF SameVars
  <1> QED
    BY <1>1, <1>2

-----------------------------------------------------------------------------
(* The search for commands.                                                *)

\* The place where a command is found is one, or none.
LEMMA FoundType ==
  ASSUME NEW s, NEW c, NEW path \in Contents, NEW prev
  PROVE  Found(s, c, path, prev) \in Nat \cup {-1}
  <1> DEFINE Skipped(i) == Component(path, i) \notin {Here, BuiltinMark} /\ i <= prev
             hits == {i \in Positions(path) :
                        \/ Component(path, i) = BuiltinMark /\ c \in Builtins
                        \/ Component(path, i) # BuiltinMark /\ Skipped(i) /\ i = prev
                        \/ /\ Component(path, i) # BuiltinMark
                           /\ ~Skipped(i)
                           /\ Exists(s, Component(path, i), c)}
  <1>1. Found(s, c, path, prev) = IF hits = {} THEN -1 ELSE Min(hits)
    BY DEF Found
  <1>2. hits \subseteq Nat
    <2>1. Positions(path) \subseteq Nat
      BY ContentsRead DEF Positions
    <2> QED
      BY ONLY <2>1
  <1> HIDE DEF hits
  <1> QED
    BY <1>1, <1>2, MinIn

\* An entry is found, and remembered or not.
Noted(s, c, e) == [s EXCEPT !.entry = e, !.cmdtable[c] = e]

\* What is remembered belongs to that command alone.
LEMMA NotedRight ==
  ASSUME NEW s \in Shells, NEW c \in Commands, NEW e \in Entries, NEW r, r = Noted(s, c, e)
  PROVE  /\ r \in Shells /\ SameVars(s, r) /\ r.funcs = s.funcs /\ r.entry = e
         /\ r.cmdtable[c] = e /\ \A d \in Commands \ {c} : r.cmdtable[d] = s.cmdtable[d]
  <1>1. s.cmdtable \in [Commands -> Entries]
    BY ShellTypes
  <1>2. PICK ct \in [Commands -> Entries] : ct = [s.cmdtable EXCEPT ![c] = e]
    BY <1>1
  <1>3. r = [s EXCEPT !.entry = e, !.cmdtable = ct]
    BY <1>2 DEF Noted
  <1>4. r \in Shells /\ SameVars(s, r) /\ r.funcs = s.funcs /\ r.entry = e /\ r.cmdtable = ct
    BY <1>3 DEF Shells, SameVars
  <1> QED
    BY <1>1, <1>2, <1>4

\* What is found and not remembered changes no table.
LEMMA EntrySet ==
  ASSUME NEW s \in Shells, NEW e \in Entries, NEW r, r = [s EXCEPT !.entry = e]
  PROVE  /\ r \in Shells /\ SameVars(s, r) /\ r.funcs = s.funcs /\ r.entry = e
         /\ r.cmdtable = s.cmdtable
  BY DEF Shells, SameVars

\* What a search leaves: a function that is found is the one in the table.
Searched(s, c, r) ==
  /\ r \in Shells /\ SameVars(s, r) /\ r.funcs = s.funcs
  /\ Fewer(s.cmdtable, r.cmdtable)
  /\ r.entry.cmdtype = "function" => IsFunction(r.cmdtable, c) /\ r.cmdtable[c].param = r.entry.param
  /\ GarbageHarmless /\ Remembered(s) => Remembered(r)

\* What a search has found is true.
LEMMA ProgramTrue ==
  ASSUME NEW s, NEW c, NEW path, NEW at, FirstHit(s, c, path, at), at # -1,
         Component(path, at) # BuiltinMark, BuiltinPos(path) < 0 => c \notin Builtins,
         NEW e, e.cmdtype = "normal", e.param = at, e.rehash = FALSE
  PROVE  TrueOf(s, e, c, path)
  BY DEF TrueOf, FirstHit, Doubtful

\* Whatever find_command takes for the entry of the command, and wherever it looks.
LEMMA FindCommandRight ==
  ASSUME NEW s \in Shells, NEW c \in Commands, NEW path \in Contents, NEW alt \in BOOLEAN,
         NEW nofunc \in BOOLEAN, NEW garbage \in Garbage, NEW r,
         r = FindCommand(s, c, path, alt, nofunc, garbage),
         ~alt => path = PathVal(s)
  PROVE  Searched(s, c, r)
  <1>1. s.cmdtable \in [Commands -> Entries] /\ s.cmdtable[c] \in Entries
    BY ShellTypes
  <1>2. PICK known \in Entries : known = s.cmdtable[c]
    BY <1>1
  <1> DEFINE pathbltin == IF alt THEN BuiltinPos(path) >= 0 ELSE s.builtinloc >= 0
             usable == /\ known.cmdtype # "none"
                       /\ known.cmdtype = "normal" => ~alt
                       /\ known.cmdtype = "function" => ~nofunc
                       /\ known.cmdtype = "builtin" => ~(alt /\ pathbltin) /\ s.builtinloc < 0
             prev == IF ~usable THEN -1
                     ELSE CASE known.cmdtype = "builtin" -> s.builtinloc
                            [] known.cmdtype = "function" -> garbage
                            [] OTHER -> known.param
             at == Found(s, c, path, prev)
             isbltin == \/ ~pathbltin /\ c \in Builtins
                        \/ at >= 0 /\ Component(path, at) = BuiltinMark
             Builtin == [known EXCEPT !.cmdtype = "builtin", !.param = 0, !.rehash = FALSE]
             Program == [known EXCEPT !.cmdtype = "normal", !.param = at, !.rehash = FALSE]
             Same == [known EXCEPT !.rehash = FALSE]
  <1>3. r = IF usable /\ ~known.rehash THEN [s EXCEPT !.entry = known]
            ELSE CASE isbltin -> IF alt \/ known.cmdtype = "function"
                                 THEN [s EXCEPT !.entry = Builtin] ELSE Noted(s, c, Builtin)
                   [] ~isbltin /\ at < 0 ->
                        [(IF usable THEN DeleteEntry(s, c) ELSE s) EXCEPT !.entry = NoEntry]
                   [] ~isbltin /\ at >= 0 /\ at = prev /\ Component(path, at) # Here ->
                        Noted(s, c, Same)
                   [] OTHER -> IF alt THEN [s EXCEPT !.entry = Program]
                               ELSE Noted(s, c, Program)
    BY <1>2, SMTT(60) DEF FindCommand, Noted
  <1>4. at \in Nat \cup {-1}
    BY FoundType
  <1>5. Fewer(s.cmdtable, s.cmdtable)
    BY DEF Fewer
  <1>6. \A e \in Entries : e.cmdtype # "function" =>
          /\ Searched(s, c, [s EXCEPT !.entry = e])
          /\ (GarbageHarmless /\ Remembered(s) => TrueOf(s, e, c, PathVal(s)))
             => Searched(s, c, Noted(s, c, e))
    <2> SUFFICES ASSUME NEW e \in Entries, e.cmdtype # "function"
                 PROVE  /\ Searched(s, c, [s EXCEPT !.entry = e])
                        /\ (GarbageHarmless /\ Remembered(s) => TrueOf(s, e, c, PathVal(s)))
                           => Searched(s, c, Noted(s, c, e))
      OBVIOUS
    <2>1. PICK x : x = [s EXCEPT !.entry = e]
      OBVIOUS
    <2>2. Searched(s, c, x)
      <3>1. /\ x \in Shells /\ SameVars(s, x) /\ x.funcs = s.funcs /\ x.entry = e
            /\ x.cmdtable = s.cmdtable
        BY ONLY <2>1, s \in Shells, e \in Entries, EntrySet
      <3>2. Remembered(s) => Remembered(x)
        BY <3>1, RememberedChanged
      <3> QED
        BY <1>5, <3>1, <3>2 DEF Searched
    <2>3. PICK y : y = Noted(s, c, e)
      OBVIOUS
    <2>4. /\ y \in Shells /\ SameVars(s, y) /\ y.funcs = s.funcs /\ y.entry = e
          /\ y.cmdtable[c] = e /\ \A d \in Commands \ {c} : y.cmdtable[d] = s.cmdtable[d]
      BY ONLY <2>3, s \in Shells, c \in Commands, e \in Entries, NotedRight
    <2>5. ASSUME GarbageHarmless /\ Remembered(s) => TrueOf(s, e, c, PathVal(s))
          PROVE  Searched(s, c, y)
      <3>1. GarbageHarmless /\ Remembered(s) => Remembered(y)
        BY <2>4, <2>5, RememberedChanged
      <3> QED
        BY <2>4, <3>1 DEF Searched, Fewer, IsFunction
    <2> QED
      BY ONLY <2>1, <2>2, <2>3, <2>5
  <1> HIDE DEF pathbltin, usable, prev, at, isbltin
  <1>7. at = Found(s, c, path, prev)
    BY DEF at
  <1>8. ASSUME at >= 0, Component(path, at) = BuiltinMark PROVE c \in Builtins
    <2>1. at # -1
      BY <1>4, <1>8
    <2>2. Stops(s, c, path, prev, at)
      BY ONLY <1>7, <2>1, path \in Contents, FoundIs
    <2> QED
      BY <1>8, <2>2 DEF Stops
  <1>9. ASSUME GarbageHarmless, Remembered(s), ~alt, ~isbltin, at >= 0
         PROVE  /\ FirstHit(s, c, path, at) /\ at # -1 /\ Component(path, at) # BuiltinMark
                /\ BuiltinPos(path) < 0 => c \notin Builtins
    <2>1. /\ path = PathVal(s) /\ path \in Texts /\ s.builtinloc = BuiltinPos(path)
          /\ TrueOf(s, known, c, path)
      BY <1>2, <1>9 DEF Remembered, Recalls
    <2>2. BuiltinPos(path) \in Nat \cup {-1}
      BY BuiltinPosType
    <2>3. at # -1 /\ Component(path, at) # BuiltinMark
      BY <1>4, <1>9 DEF isbltin
    <2>4. BuiltinPos(path) < 0 => c \notin Builtins
      <3>1. pathbltin <=> s.builtinloc >= 0
        BY <1>9 DEF pathbltin
      <3>2. BuiltinPos(path) < 0 => ~pathbltin
        BY ONLY <2>1, <2>2, <3>1
      <3> QED
        BY <1>9, <3>2 DEF isbltin
    <2>5. CASE prev = -1
      <3>1. at = Found(s, c, path, -1)
        BY <1>7, <2>5
      <3>2. FirstHit(s, c, path, at)
        BY ONLY <3>1, path \in Contents, FoundFresh
      <3> QED
        BY <2>3, <2>4, <3>2
    <2>6. CASE usable /\ known.cmdtype = "normal"
      <3>1. prev = known.param
        BY <2>6 DEF prev
      <3>2. at = Found(s, c, path, known.param)
        BY <1>7, <3>1
      <3>3. FirstHit(s, c, path, at)
        BY ONLY <2>1, <2>6, <3>2, path \in Contents, FoundAgain
      <3> QED
        BY <2>3, <2>4, <3>3
    <2>7. CASE usable /\ known.cmdtype = "function" /\ prev # -1
      <3>1. prev = garbage
        BY <2>7 DEF prev
      <3>2. at = Found(s, c, path, FarPlace)
        BY <1>7, <2>7, <3>1 DEF Garbage
      <3>3. Defined # {}
        BY <2>1, <2>7 DEF TrueOf
      <3>4. FirstHit(s, c, path, at)
        BY ONLY <1>9, <2>1, <2>3, <3>2, <3>3, FoundFar
      <3> QED
        BY <2>3, <2>4, <3>4
    <2>8. usable /\ known.cmdtype = "builtin" => prev = -1
      <3>1. s.builtinloc \in Nat \cup {-1}
        BY ShellTypes
      <3>2. usable /\ known.cmdtype = "builtin" => s.builtinloc < 0 /\ prev = s.builtinloc
        BY DEF usable, prev
      <3> QED
        BY ONLY <3>1, <3>2
    <2>9. ~usable => prev = -1
      BY DEF prev
    <2>10. usable => known.cmdtype \in {"normal", "builtin", "function"}
      <3>1. known.cmdtype \in CmdTypes
        BY DEF Entries
      <3> QED
        BY <3>1 DEF usable, CmdTypes
    <2> QED
      BY ONLY <2>5, <2>6, <2>7, <2>8, <2>9, <2>10
  <1>10. CASE usable /\ ~known.rehash
    <2>1. r = [s EXCEPT !.entry = known]
      BY <1>3, <1>10
    <2>2. r \in Shells /\ SameVars(s, r) /\ r.funcs = s.funcs /\ r.entry = known
          /\ r.cmdtable = s.cmdtable
      BY ONLY <2>1, s \in Shells, known \in Entries, EntrySet
    <2>3. Remembered(s) => Remembered(r)
      BY <2>2, RememberedChanged
    <2> QED
      BY <1>2, <1>5, <2>2, <2>3 DEF Searched, IsFunction
  <1>11. CASE ~(usable /\ ~known.rehash) /\ isbltin
    <2>1. Builtin \in Entries /\ Builtin.cmdtype = "builtin" /\ Builtin.param = 0
      <3>1. "builtin" \in CmdTypes /\ 0 \in Nat
        BY DEF CmdTypes
      <3> QED
        BY ONLY <3>1, known \in Entries DEF Entries
    <2>2. r = [s EXCEPT !.entry = Builtin] \/ r = Noted(s, c, Builtin)
      BY <1>3, <1>11
    <2> HIDE DEF Builtin
    <2>3. c \in Builtins
      BY <1>11, <1>8 DEF isbltin
    <2>4. TrueOf(s, Builtin, c, PathVal(s))
      BY <2>1, <2>3 DEF TrueOf
    <2> QED
      BY <1>6, <2>1, <2>2, <2>4
  <1>12. CASE ~(usable /\ ~known.rehash) /\ ~isbltin /\ at < 0
    <2>1. PICK x : x = IF usable THEN DeleteEntry(s, c) ELSE s
      OBVIOUS
    <2>2. r = [x EXCEPT !.entry = NoEntry]
      BY <1>3, <1>4, <1>12, <2>1
    <2>3. /\ x \in Shells /\ SameVars(s, x) /\ x.funcs = s.funcs
          /\ Fewer(s.cmdtable, x.cmdtable)
          /\ Remembered(s) => Remembered(x)
      <3>1. CASE usable
        <4>1. x = DeleteEntry(s, c)
          BY <2>1, <3>1
        <4> QED
          BY ONLY <4>1, s \in Shells, c \in Commands, DeleteEntryRight
      <3>2. CASE ~usable
        BY <1>5, <2>1, <3>2 DEF SameVars
      <3> QED
        BY <3>1, <3>2
    <2>4. NoEntry \in Entries /\ NoEntry.cmdtype = "none"
      BY DEF NoEntry, Entries, CmdTypes
    <2>5. r \in Shells /\ SameVars(x, r) /\ r.funcs = x.funcs /\ r.entry = NoEntry
          /\ r.cmdtable = x.cmdtable
      BY ONLY <2>2, <2>3, <2>4, EntrySet
    <2>6. Remembered(x) => Remembered(r)
      BY <2>5, RememberedChanged
    <2> QED
      BY <2>3, <2>4, <2>5, <2>6 DEF Searched, SameVars
  <1>13. CASE /\ ~(usable /\ ~known.rehash) /\ ~isbltin
              /\ at >= 0 /\ at = prev /\ Component(path, at) # Here
    <2>1. /\ Same \in Entries /\ Same.cmdtype = known.cmdtype /\ Same.param = known.param
          /\ Same.rehash = FALSE
      BY ONLY known \in Entries DEF Entries
    <2>2. r = Noted(s, c, Same)
      BY <1>3, <1>4, <1>13
    <2> HIDE DEF Same
    <2>3. /\ r \in Shells /\ SameVars(s, r) /\ r.funcs = s.funcs /\ r.entry = Same
          /\ r.cmdtable[c] = Same /\ \A d \in Commands \ {c} : r.cmdtable[d] = s.cmdtable[d]
      BY ONLY <2>1, <2>2, s \in Shells, c \in Commands, NotedRight
    <2>4. ASSUME GarbageHarmless, Remembered(s) PROVE TrueOf(s, Same, c, PathVal(s))
      <3>1. TrueOf(s, known, c, PathVal(s))
        BY <1>2, <2>4 DEF Remembered, Recalls
      <3>2. CASE known.cmdtype # "normal"
        BY <2>1, <3>1, <3>2 DEF TrueOf
      <3>3. CASE known.cmdtype = "normal"
        <4>1. at # -1 /\ prev # -1
          BY <1>4, <1>13
        <4>2. usable /\ ~alt
          BY <3>3, <4>1 DEF prev, usable
        <4>3. /\ FirstHit(s, c, path, at) /\ at # -1 /\ Component(path, at) # BuiltinMark
              /\ BuiltinPos(path) < 0 => c \notin Builtins
          BY <1>13, <1>9, <2>4, <4>2
        <4>4. prev = known.param
          BY <3>3, <4>2 DEF prev
        <4>5. Same.cmdtype = "normal" /\ Same.param = at /\ Same.rehash = FALSE
          BY <1>13, <2>1, <3>3, <4>4
        <4>6. TrueOf(s, Same, c, path)
          BY ONLY <4>3, <4>5, ProgramTrue
        <4> QED
          BY <4>2, <4>6
      <3> QED
        BY <3>2, <3>3
    <2>5. GarbageHarmless /\ Remembered(s) => Remembered(r)
      BY <2>3, <2>4, RememberedChanged
    <2> QED
      BY <1>2, <2>1, <2>3, <2>5 DEF Searched, Fewer, IsFunction
  <1>14. CASE /\ ~(usable /\ ~known.rehash) /\ ~isbltin
              /\ at >= 0 /\ ~(at = prev /\ Component(path, at) # Here)
    <2>1. /\ Program \in Entries /\ Program.cmdtype = "normal" /\ Program.param = at
          /\ Program.rehash = FALSE
      <3>1. "normal" \in CmdTypes /\ at \in Nat
        BY <1>4, <1>14 DEF CmdTypes
      <3> QED
        BY ONLY <3>1, known \in Entries DEF Entries
    <2>2. r = [s EXCEPT !.entry = Program] \/ (~alt /\ r = Noted(s, c, Program))
      BY <1>3, <1>4, <1>14
    <2> HIDE DEF Program
    <2>3. ASSUME GarbageHarmless, Remembered(s), ~alt PROVE TrueOf(s, Program, c, PathVal(s))
      <3>1. /\ FirstHit(s, c, path, at) /\ at # -1 /\ Component(path, at) # BuiltinMark
            /\ BuiltinPos(path) < 0 => c \notin Builtins
        BY <1>14, <1>9, <2>3
      <3>2. TrueOf(s, Program, c, path)
        BY ONLY <2>1, <3>1, ProgramTrue
      <3> QED
        BY <2>3, <3>2
    <2> QED
      BY <1>6, <2>1, <2>2, <2>3
  <1>15. at < 0 \/ at >= 0
    BY <1>4
  <1> QED
    BY <1>10, <1>11, <1>12, <1>13, <1>14, <1>15

-----------------------------------------------------------------------------
(* The invariant of the shell.                                             *)

Lens(fr) == \A i \in 1..Len(fr) : Len(fr[i].localvars) <= MaxLocals + 1

\* All that the variables, the copies, the functions and the table of a shell must satisfy.
Good(s) ==
  /\ s \in Shells /\ s.frames # <<>> /\ Lens(s.frames)
  /\ Owned(s.vartab, s.texts, s.frames)
  /\ Bodies(s.cmdtable, s.funcs, s.frames)
  /\ GarbageHarmless => Remembered(s)

\* A good shell with room for n texts.
Can(s, n) == Good(s) /\ Left(s.texts, n)

\* The types of the fields of a good shell.
LEMMA GoodTypes ==
  ASSUME NEW s, Good(s)
  PROVE  /\ s \in Shells /\ s.frames \in Seq(Calls) /\ s.frames # <<>>
         /\ s.vartab \in [Vars -> Variables] /\ s.texts \in [TextIds -> Contents]
         /\ PathVal(s) \in Contents
         /\ Len(s.frames) \in Nat /\ Len(s.frames) >= 1 /\ Len(s.frames) \in 1..Len(s.frames)
  <1>1. /\ s \in Shells /\ s.frames \in Seq(Calls) /\ s.frames # <<>>
        /\ s.vartab \in [Vars -> Variables] /\ s.texts \in [TextIds -> Contents]
    BY ShellTypes DEF Good
  <1>2. s.vartab["PATH"].text \in TextIds
    BY DEF Good, Owned, Kept, Alive
  <1>3. PathVal(s) \in Contents
    BY <1>1, <1>2 DEF PathVal
  <1>4. Len(s.frames) \in Nat /\ Len(s.frames) >= 1 /\ Len(s.frames) \in 1..Len(s.frames)
    BY <1>1
  <1> QED
    BY <1>1, <1>3, <1>4

\* A change of variables alone keeps a shell good.
LEMMA GoodVars ==
  ASSUME NEW s, Good(s), NEW r, NEW n \in Nat, Heap(r, s.frames, n), SameRest(s, r)
  PROVE  Good(r) /\ r.frames = s.frames
  <1>1. SameTable(s, r) /\ r.frames = s.frames
    BY SameRestTable
  <1>2. Bodies(r.cmdtable, r.funcs, r.frames)
    BY <1>1, BodiesSame DEF Good
  <1>3. GarbageHarmless => Remembered(r)
    BY DEF Good, SameRest
  <1> QED
    BY <1>1, <1>2, <1>3 DEF Good, Heap

\* And so does a change of functions alone.
LEMMA GoodFuncs ==
  ASSUME NEW s, Good(s), NEW r \in Shells, SameVars(s, r), Bodies(r.cmdtable, r.funcs, r.frames),
         GarbageHarmless /\ Remembered(s) => Remembered(r)
  PROVE  Good(r) /\ r.frames = s.frames /\ r.texts = s.texts
  BY DEF Good, SameVars

\* A search keeps a shell good.
LEMMA GoodSearched ==
  ASSUME NEW s, Good(s), NEW c, NEW r, Searched(s, c, r)
  PROVE  Good(r) /\ r.frames = s.frames /\ r.texts = s.texts
  <1>1. r \in Shells /\ SameVars(s, r) /\ r.funcs = s.funcs /\ Fewer(s.cmdtable, r.cmdtable)
    BY DEF Searched
  <1>2. Bodies(r.cmdtable, r.funcs, r.frames)
    BY <1>1, BodiesFewer DEF Good, SameVars
  <1>3. GarbageHarmless /\ Remembered(s) => Remembered(r)
    BY DEF Searched
  <1> QED
    BY ONLY <1>1, <1>2, <1>3, Good(s), GoodFuncs

\* mklocal keeps a shell good.
LEMMA GoodLocal ==
  ASSUME NEW s, NEW n \in Nat, Can(s, n + 1), Len(s.frames[Len(s.frames)].localvars) <= MaxLocals,
         NEW v \in Vars, NEW val \in SUBSET Texts, NEW given \in SUBSET Given,
         NEW r, r = MkLocal(s, v, val, given)
  PROVE  Can(r, n) /\ Grown(s.frames, r.frames) /\ LocalShown(s, v, r)
  <1>1. Good(s) /\ Left(s.texts, n + 1)
    BY DEF Can
  <1>2. s.frames # <<>> /\ s.frames \in Seq(Calls) /\ Heap(s, s.frames, n + 1)
    BY <1>1, GoodTypes DEF Good, Heap
  <1>3. LocalMade(s, n, r) /\ LocalShown(s, v, r)
    BY ONLY <1>2, n \in Nat, v \in Vars, val \in SUBSET Texts, given \in SUBSET Given,
            r = MkLocal(s, v, val, given), MkLocalRight
  <1>4. Heap(r, r.frames, n) /\ Grown(s.frames, r.frames) /\ SameTable(s, r)
    BY <1>3 DEF LocalMade
  <1>5. Bodies(r.cmdtable, r.funcs, r.frames)
    BY <1>1, <1>4, BodiesSame DEF Good, Grown
  <1>6. r.frames # <<>> /\ Lens(r.frames)
    <2>1. Len(s.frames) \in 1..Len(s.frames) /\ Len(r.frames) = Len(s.frames) /\ r.frames \in Seq(Calls)
      BY <1>1, <1>4, GoodTypes, ShellTypes DEF Heap, Grown
    <2>2. \A i \in 1..Len(r.frames) : Len(r.frames[i].localvars) \in Nat
      BY <2>1, LocalvarsTypes
    <2>3. \A i \in 1..Len(s.frames) : Len(s.frames[i].localvars) \in Nat
      BY <1>2, LocalvarsTypes
    <2>4. Lens(r.frames)
      <3>1. Lens(s.frames)
        BY <1>1 DEF Good
      <3> SUFFICES ASSUME NEW i \in 1..Len(s.frames)
                   PROVE  Len(r.frames[i].localvars) <= MaxLocals + 1
        BY <2>1 DEF Lens
      <3>2. PICK a \in Nat : a = Len(s.frames[i].localvars)
        BY <2>3
      <3>3. PICK b \in Nat : b = Len(r.frames[i].localvars)
        BY <2>1, <2>2
      <3>4. b <= IF i = Len(s.frames) THEN a + 1 ELSE a
        BY ONLY <1>4, <3>2, <3>3, i \in 1..Len(s.frames) DEF Grown
      <3>5. a <= MaxLocals + 1 /\ (i = Len(s.frames) => a <= MaxLocals)
        BY <3>1, <3>2 DEF Lens
      <3>6. b <= MaxLocals + 1
        BY ONLY <3>4, <3>5, a \in Nat, b \in Nat, MaxLocals \in Nat
      <3> QED
        BY <3>3, <3>6
    <2> QED
      BY <2>1, <2>4
  <1>7. GarbageHarmless => Remembered(r)
    BY <1>1, <1>4 DEF Good, SameTable
  <1> QED
    BY <1>3, <1>4, <1>5, <1>6, <1>7 DEF Can, Good, Heap

\* The body of a function stays while one of its calls returns.
LEMMA BodiesReturned ==
  ASSUME NEW ct, NEW fn \in [FuncIds -> Nat], NEW fr \in Seq(Calls), fr # <<>>, Bodies(ct, fn, fr),
         NEW fn2, \A h \in FuncIds : \/ fn2[h] = fn[h]
                                     \/ h = fr[Len(fr)].func /\ fn2[h] = fn[h] - 1,
         NEW fr2, fr2 = Front(fr)
  PROVE  Bodies(ct, fn2, fr2)
  <1>1. \A h : Cardinality(Runs(fr2, h)) =
           IF h = fr[Len(fr)].func THEN Cardinality(Runs(fr, h)) - 1 ELSE Cardinality(Runs(fr, h))
    BY RunsReturned
  <1>2. \A h : Cardinality(Runs(fr, h)) \in Nat
    BY RunsCounted
  <1>3. ASSUME NEW h \in FuncIds, NEW k \in Nat, fn[h] >= Cardinality(Runs(fr, h)) + k
        PROVE  fn2[h] >= Cardinality(Runs(fr2, h)) + k
    <2>1. PICK a \in Nat, b \in Nat : a = fn[h] /\ b = Cardinality(Runs(fr, h))
      BY <1>2
    <2>2. fn2[h] = a \/ (h = fr[Len(fr)].func /\ fn2[h] = a - 1)
      BY <2>1
    <2>3. Cardinality(Runs(fr2, h)) = IF h = fr[Len(fr)].func THEN b - 1 ELSE b
      BY <1>1, <2>1
    <2> QED
      BY ONLY <1>3, <2>1, <2>2, <2>3, a \in Nat, b \in Nat, k \in Nat
  <1>4. \A h \in FuncIds : fn2[h] >= Cardinality(Runs(fr2, h))
    <2> SUFFICES ASSUME NEW h \in FuncIds PROVE fn2[h] >= Cardinality(Runs(fr2, h))
      OBVIOUS
    <2>1. fn[h] >= Cardinality(Runs(fr, h)) + 0
      BY <1>2 DEF Bodies
    <2>2. fn2[h] >= Cardinality(Runs(fr2, h)) + 0
      BY <1>3, <2>1
    <2>3. Cardinality(Runs(fr2, h)) \in Int
      <3>1. Cardinality(Runs(fr, h)) \in Nat
        BY <1>2
      <3> QED
        BY <1>1, <3>1
    <2> QED
      BY <2>2, <2>3
  <1>5. \A c \in Commands :
          IsFunction(ct, c) => fn2[ct[c].param] >= Cardinality(Runs(fr2, ct[c].param)) + 1
    BY <1>3 DEF Bodies
  <1> QED
    BY <1>4, <1>5 DEF Bodies

\* The list of the function being run is gone, and then the function.
LEMMA GoodFront ==
  ASSUME NEW s \in Shells, NEW n \in Nat, NEW fr \in Seq(Calls), fr = s.frames, Len(fr) > 1,
         Owned(s.vartab, s.texts, fr), \A i \in 1..(Len(fr) - 1) : Len(fr[i].localvars) <= MaxLocals + 1,
         NEW r, r = [s EXCEPT !.frames = Front(s.frames)],
         Bodies(s.cmdtable, s.funcs, Front(fr)), GarbageHarmless => Remembered(s)
  PROVE  Good(r) /\ Len(r.frames) = Len(fr) - 1
  <1>1. fr # <<>>
    OBVIOUS
  <1>2. PICK fr2 : fr2 = Front(fr)
    OBVIOUS
  <1>3. /\ fr2 \in Seq(Calls) /\ Len(fr2) = Len(fr) - 1
        /\ \A i \in 1..Len(fr2) : fr2[i] = fr[i]
        /\ \A i, j, c : Has(fr2, i, j, c) <=> Has(fr, i, j, c) /\ i # Len(fr)
    BY ONLY <1>1, <1>2, fr \in Seq(Calls), Returned
  <1>4. fr2 # <<>> /\ Lens(fr2)
    <2>1. Len(fr2) \in Nat /\ Len(fr2) # 0
      BY ONLY <1>3, Len(fr) > 1, fr \in Seq(Calls)
    <2>2. Lens(fr2)
      BY ONLY <1>3, \A i \in 1..(Len(fr) - 1) : Len(fr[i].localvars) <= MaxLocals + 1 DEF Lens
    <2> QED
      BY <2>1, <2>2
  <1>5. /\ r \in Shells /\ r.frames = fr2 /\ r.vartab = s.vartab /\ r.texts = s.texts
        /\ r.cmdtable = s.cmdtable /\ r.funcs = s.funcs /\ r.builtinloc = s.builtinloc
        /\ r.cwd = s.cwd
    <2>1. r = [s EXCEPT !.frames = fr2]
      BY <1>2
    <2> QED
      BY <1>3, <2>1 DEF Shells
  <1>6. Owned(r.vartab, r.texts, fr2)
    BY <1>3, <1>5, FewerOwned
  <1>7. GarbageHarmless => Remembered(r)
    <2>1. PathVal(r) = PathVal(s)
      BY ONLY <1>5 DEF PathVal
    <2>2. Remembered(s) => Remembered(r)
      BY ONLY <1>5, <2>1, RememberedSame
    <2> QED
      BY ONLY <2>2, GarbageHarmless => Remembered(s)
  <1> QED
    BY <1>2, <1>3, <1>4, <1>5, <1>6, <1>7 DEF Good

\* A function returns, or is unwound.
LEMMA PopFrameRight ==
  ASSUME NEW s, Can(s, MaxLocals + 1), Len(s.frames) > 1, NEW r, r = PopFrame(s)
  PROVE  Good(r) /\ Len(r.frames) = Len(s.frames) - 1 /\ Shown(s, r)
  <1>1. Good(s) /\ Left(s.texts, MaxLocals + 1) /\ s \in Shells
    BY DEF Can, Good
  <1>2. PICK fr \in Seq(Calls) : fr = s.frames /\ fr # <<>> /\ Len(fr) > 1
    BY <1>1, GoodTypes
  <1>3. PICK f : f = fr[Len(fr)].func
    OBVIOUS
  <1>4. PICK x : x = Unref(s, f)
    OBVIOUS
  <1>5. /\ x = [s EXCEPT !.funcs = x.funcs] /\ x.funcs \in [FuncIds -> Nat]
        /\ \A h \in FuncIds : x.funcs[h] = IF h = f /\ s.funcs[h] >= 1 THEN s.funcs[h] - 1
                                           ELSE s.funcs[h]
    BY ONLY <1>1, <1>4, UnrefRight
  <1>6. /\ x \in Shells /\ x.frames = fr /\ x.vartab = s.vartab /\ x.texts = s.texts
        /\ x.cmdtable = s.cmdtable /\ x.builtinloc = s.builtinloc /\ x.cwd = s.cwd
        /\ SameBound(s, x)
    BY <1>1, <1>2, <1>5 DEF Shells, SameBound
  <1>7. Heap(x, fr, MaxLocals + 1)
    BY <1>1, <1>2, <1>6 DEF Heap, Good
  <1>8. PICK y : y = PopLocalVars(x)
    OBVIOUS
  <1>9. /\ Heap(y, y.frames, 0) /\ y.frames = Cut(fr, 0) /\ SameTable(x, y)
        /\ Locked(x.vartab, fr) => PoppedTo(x, fr[Len(fr)].localvars, 0, y, Cut(fr, 0))
    <2>1. Len(fr[Len(fr)].localvars) <= MaxLocals + 1 /\ MaxLocals + 1 \in Nat
      <3>1. Len(fr) \in 1..Len(fr)
        BY <1>2
      <3> QED
        BY <1>1, <1>2, <3>1 DEF Good, Lens
    <2>2. fr = x.frames
      BY <1>6
    <2> QED
      BY ONLY <1>2, <1>7, <1>8, <2>1, <2>2, PopLocalVarsRight, PopLocalVarsShown
  <1>10. r = [y EXCEPT !.frames = Front(y.frames)]
    BY <1>2, <1>3, <1>4, <1>8 DEF PopFrame, Top
  <1>11. PICK cf \in Seq(Calls) :
           /\ cf = y.frames /\ Len(cf) = Len(fr) /\ \A i \in 1..Len(fr) : cf[i].func = fr[i].func
           /\ \A i \in 1..Len(fr) : i # Len(fr) => cf[i] = fr[i]
    <2>1. 0 \in 0..Len(fr[Len(fr)].localvars)
      <3>1. Len(fr) \in 1..Len(fr)
        BY <1>2
      <3>2. Len(fr[Len(fr)].localvars) \in Nat
        BY <3>1, LocalvarsTypes
      <3> QED
        BY <3>2
    <2>2. /\ Cut(fr, 0) \in Seq(Calls) /\ Len(Cut(fr, 0)) = Len(fr)
          /\ \A i \in 1..Len(fr) : Cut(fr, 0)[i].func = fr[i].func
          /\ \A i \in 1..Len(fr) : i # Len(fr) => Cut(fr, 0)[i] = fr[i]
      BY ONLY <1>2, <2>1, CutRight
    <2> QED
      BY <1>9, <2>2
  <1>12. Bodies(y.cmdtable, y.funcs, Front(cf))
    <2>1. Bodies(s.cmdtable, s.funcs, fr)
      BY <1>1, <1>2 DEF Good
    <2>2. Bodies(s.cmdtable, s.funcs, cf)
      <3>1. \A h : Runs(cf, h) = Runs(fr, h)
        BY <1>11 DEF Runs
      <3> QED
        BY ONLY <2>1, <3>1 DEF Bodies
    <2>3. PICK fr2 : fr2 = Front(cf)
      OBVIOUS
    <2>4. Bodies(s.cmdtable, x.funcs, fr2)
      <3>1. \A h \in FuncIds : \/ x.funcs[h] = s.funcs[h]
                               \/ h = cf[Len(cf)].func /\ x.funcs[h] = s.funcs[h] - 1
        <4>1. cf[Len(cf)].func = f
          BY <1>2, <1>3, <1>11
        <4> QED
          BY <1>5, <4>1
      <3>2. s.funcs \in [FuncIds -> Nat] /\ cf # <<>>
        BY <1>1, <1>2, <1>11, ShellTypes
      <3> QED
        BY ONLY <2>2, <2>3, <3>1, <3>2, cf \in Seq(Calls), BodiesReturned
    <2>5. Fewer(x.cmdtable, y.cmdtable) /\ y.funcs = x.funcs
      BY <1>9 DEF SameTable, SameFuncs, Fewer, IsFunction
    <2> QED
      BY <1>6, <2>3, <2>4, <2>5, BodiesFewer
  <1>13. \A i \in 1..(Len(cf) - 1) : Len(cf[i].localvars) <= MaxLocals + 1
    <2>1. Lens(fr) /\ Len(fr) \in Nat
      BY <1>1, <1>2 DEF Good
    <2>2. \A i \in 1..(Len(fr) - 1) : i \in 1..Len(fr) /\ i # Len(fr)
      BY ONLY <2>1
    <2> QED
      BY ONLY <1>11, <2>1, <2>2 DEF Lens
  <1>14. y \in Shells /\ Owned(y.vartab, y.texts, cf) /\ Len(cf) > 1
    BY <1>2, <1>9, <1>11 DEF Heap
  <1>15. GarbageHarmless => Remembered(y)
    <2>1. Remembered(s) => Remembered(x)
      BY <1>6, RememberedSame DEF PathVal
    <2> QED
      BY <1>1, <1>9, <2>1 DEF Good, SameTable
  <1>16. Good(r) /\ Len(r.frames) = Len(cf) - 1
    BY ONLY <1>10, <1>11, <1>12, <1>13, <1>14, <1>15, GoodFront
  <1>17. Shown(s, r)
    <2>1. PICK cut : cut = Front(Cut(fr, 0))
      OBVIOUS
    <2>2. SameBound(y, r) /\ r.frames = cut
      BY <1>9, <1>10, <1>14, <2>1 DEF SameBound, Shells
    <2> QED
      BY ONLY <1>2, <1>6, <1>9, <2>1, <2>2, ShownLeft
  <1> QED
    BY <1>2, <1>11, <1>16, <1>17

\* hash forgets a name and searches for it.
LEMMA RehashRight ==
  ASSUME NEW s, Good(s), NEW c \in Commands, NEW g \in Garbage, NEW r, r = Rehash(s, c, g)
  PROVE  Searched(s, c, r)
  <1>1. PICK x : x = IF \/ s.cmdtable[c].cmdtype = "normal"
                        \/ s.cmdtable[c].cmdtype = "builtin" /\ s.builtinloc >= 0
                     THEN DeleteEntry(s, c) ELSE s
    OBVIOUS
  <1>2. s \in Shells /\ PathVal(s) \in Contents
    BY GoodTypes
  <1>3. /\ x \in Shells /\ SameVars(s, x) /\ x.funcs = s.funcs /\ Fewer(s.cmdtable, x.cmdtable)
        /\ Remembered(s) => Remembered(x)
    <2>1. PICK y : y = DeleteEntry(s, c)
      OBVIOUS
    <2>2. /\ y \in Shells /\ SameVars(s, y) /\ y.funcs = s.funcs /\ Fewer(s.cmdtable, y.cmdtable)
          /\ Remembered(s) => Remembered(y)
      BY ONLY <1>2, <2>1, c \in Commands, DeleteEntryRight
    <2>3. s \in Shells /\ SameVars(s, s) /\ Fewer(s.cmdtable, s.cmdtable)
      BY <1>2 DEF SameVars, Fewer
    <2> QED
      BY <1>1, <2>1, <2>2, <2>3
  <1>4. PICK path \in Contents : path = PathVal(x)
    BY <1>2, <1>3 DEF SameVars, PathVal
  <1>5. r = FindCommand(x, c, path, FALSE, FALSE, g)
    BY <1>1, <1>4 DEF Rehash
  <1>6. Searched(x, c, r)
    <2>1. FALSE \in BOOLEAN /\ (~FALSE => path = PathVal(x))
      BY <1>4
    <2> QED
      BY ONLY <1>3, <1>5, <2>1, c \in Commands, path \in Contents, g \in Garbage, FindCommandRight
  <1>7. /\ SameVars(s, r) /\ r.funcs = s.funcs /\ Fewer(s.cmdtable, r.cmdtable)
        /\ GarbageHarmless /\ Remembered(s) => Remembered(r)
    BY <1>3, <1>6 DEF Searched, SameVars, Fewer
  <1> QED
    BY ONLY <1>6, <1>7 DEF Searched

\* The shell with one call more that is counted for no command.
Entered(s) == [s EXCEPT !.frames = WithCall(s.frames, 0)]

\* Such a call keeps a shell good.
LEMMA EnteredGood ==
  ASSUME NEW s, Good(s), NEW r, r = Entered(s)
  PROVE  /\ Good(r) /\ r.texts = s.texts /\ Len(r.frames) = Len(s.frames) + 1
         /\ r.frames[Len(r.frames)].localvars = <<>>
         /\ SameBound(s, r) /\ r.frames = WithCall(s.frames, 0)
  <1>1. s \in Shells /\ s.frames \in Seq(Calls) /\ 0 \in 0..MaxFuncs
    BY GoodTypes
  <1>2. PICK fr2 : fr2 = WithCall(s.frames, 0)
    OBVIOUS
  <1>3. /\ fr2 \in Seq(Calls) /\ Len(fr2) = Len(s.frames) + 1
        /\ fr2[Len(fr2)].func = 0 /\ fr2[Len(fr2)].localvars = <<>>
        /\ \A i \in 1..Len(s.frames) : fr2[i] = s.frames[i]
        /\ \A i, j, c : Has(fr2, i, j, c) <=> Has(s.frames, i, j, c)
    BY ONLY <1>1, <1>2, Called
  <1>4. r = [s EXCEPT !.frames = fr2]
    BY <1>2 DEF Entered
  <1>5. /\ r \in Shells /\ r.frames = fr2 /\ r.vartab = s.vartab /\ r.texts = s.texts
        /\ r.cmdtable = s.cmdtable /\ r.funcs = s.funcs /\ r.builtinloc = s.builtinloc
        /\ r.cwd = s.cwd /\ r.aflag = s.aflag
    BY <1>1, <1>3, <1>4 DEF Shells
  <1>6. Owned(r.vartab, r.texts, fr2)
    BY <1>3, <1>5, FewerOwned DEF Good
  <1>7. Bodies(r.cmdtable, r.funcs, fr2)
    BY <1>1, <1>2, <1>5, BodiesPushed DEF Good
  <1>8. fr2 # <<>> /\ Lens(fr2)
    <2>1. Len(s.frames) \in Nat /\ Lens(s.frames)
      BY GoodTypes DEF Good
    <2>2. Len(fr2) # 0
      BY <1>3, <2>1
    <2>3. Len(fr2[Len(fr2)].localvars) = 0
      BY <1>3
    <2>4. \A i \in 1..Len(fr2) : i \in 1..Len(s.frames) \/ i = Len(fr2)
      BY ONLY <1>3, <2>1
    <2>5. Lens(fr2)
      BY ONLY <1>3, <2>1, <2>3, <2>4, MaxLocals \in Nat DEF Lens
    <2> QED
      BY <2>2, <2>5
  <1>9. GarbageHarmless => Remembered(r)
    BY <1>5, RememberedSame DEF Good, PathVal
  <1> QED
    BY <1>2, <1>3, <1>5, <1>6, <1>7, <1>8, <1>9 DEF Good, SameBound

\* Fewer calls of the same functions.
LEMMA BodiesFront ==
  ASSUME NEW ct, NEW fn \in [FuncIds -> Nat], NEW fr \in Seq(Calls), fr # <<>>, Bodies(ct, fn, fr)
  PROVE  Bodies(ct, fn, Front(fr))
  <1>1. PICK fr2 : fr2 = Front(fr)
    OBVIOUS
  <1>2. Bodies(ct, fn, fr2)
    BY <1>1, BodiesReturned
  <1> QED
    BY <1>1, <1>2

\* Such a call returns.
LEMMA GoodLeft ==
  ASSUME NEW s, Good(s), Len(s.frames) > 1, NEW r, r = [s EXCEPT !.frames = Front(s.frames)]
  PROVE  Good(r) /\ Len(r.frames) = Len(s.frames) - 1
  <1>1. PICK fr \in Seq(Calls) : fr = s.frames /\ fr # <<>> /\ Len(fr) > 1
    BY GoodTypes
  <1>2. Bodies(s.cmdtable, s.funcs, Front(fr))
    BY <1>1, BodiesFront, ShellTypes DEF Good
  <1>3. \A i \in 1..(Len(fr) - 1) : Len(fr[i].localvars) <= MaxLocals + 1
    BY <1>1 DEF Good, Lens
  <1>4. s \in Shells /\ Owned(s.vartab, s.texts, fr) /\ (GarbageHarmless => Remembered(s))
    BY <1>1 DEF Good
  <1> QED
    BY ONLY <1>1, <1>2, <1>3, <1>4, r = [s EXCEPT !.frames = Front(s.frames)], GoodFront

\* hash with a name, while a value is assigned to PATH for it.
HashedUnder(s, c, alt, g) ==
  LET s2 == MkLocal(Entered(s), "PATH", alt, {})
      s3 == IF s2.err THEN s2 ELSE PopLocalVars(Rehash(s2, c, g))
  IN [s3 EXCEPT !.frames = Front(s3.frames)]

\* It keeps a shell good.
LEMMA HashedUnderRight ==
  ASSUME NEW s, Can(s, MaxLocals + 2), NEW c \in Commands, NEW alt \in SUBSET Texts,
         NEW g \in Garbage, NEW r, r = HashedUnder(s, c, alt, g)
  PROVE  Good(r) /\ Len(r.frames) = Len(s.frames) /\ Shown(s, r)
  <1>1. Good(s) /\ Left(s.texts, MaxLocals + 2) /\ Len(s.frames) \in Nat /\ Len(s.frames) >= 1
    BY GoodTypes DEF Can
  <1>2. PICK s1 : s1 = Entered(s)
    OBVIOUS
  <1>3. /\ Good(s1) /\ s1.texts = s.texts /\ Len(s1.frames) = Len(s.frames) + 1
        /\ s1.frames[Len(s1.frames)].localvars = <<>>
        /\ SameBound(s, s1) /\ s1.frames = WithCall(s.frames, 0)
    BY ONLY <1>1, <1>2, EnteredGood
  <1>4. PICK n \in Nat : n = MaxLocals + 1 /\ MaxLocals + 2 = n + 1 /\ 1 <= n
    OBVIOUS
  <1>5. Can(s1, n + 1) /\ Len(s1.frames[Len(s1.frames)].localvars) <= MaxLocals
    BY <1>1, <1>3, <1>4 DEF Can
  <1>6. PICK s2 : s2 = MkLocal(s1, "PATH", alt, {})
    OBVIOUS
  <1>7. Can(s2, n) /\ Grown(s1.frames, s2.frames) /\ LocalShown(s1, "PATH", s2)
    <2>1. "PATH" \in Vars /\ {} \in SUBSET Given
      OBVIOUS
    <2> QED
      BY ONLY <1>5, <1>6, <2>1, n \in Nat, alt \in SUBSET Texts, GoodLocal
  <1>8. /\ Good(s2) /\ Left(s2.texts, n) /\ Len(s2.frames) = Len(s.frames) + 1
        /\ Len(s2.frames[Len(s2.frames)].localvars) <= n
    <2>1. Len(s2.frames[Len(s2.frames)].localvars) <= 1
      <3>1. Len(s1.frames) \in 1..Len(s1.frames) /\ Len(<<>>) + 1 = 1
        BY <1>1, <1>3
      <3> QED
        BY ONLY <1>3, <1>7, <3>1 DEF Grown
    <2>2. Good(s2) /\ Left(s2.texts, n) /\ Len(s2.frames) = Len(s.frames) + 1
      BY <1>3, <1>7 DEF Can, Grown
    <2>3. Len(s2.frames[Len(s2.frames)].localvars) \in Nat
      BY <2>2, GoodTypes, LocalvarsTypes
    <2> QED
      BY ONLY <1>4, <2>1, <2>2, <2>3, n \in Nat
  <1>9. CASE s2.err
    <2>1. r = [s2 EXCEPT !.frames = Front(s2.frames)]
      BY <1>2, <1>6, <1>9 DEF HashedUnder
    <2>2. Len(s2.frames) > 1
      BY <1>1, <1>8
    <2>3. Good(r) /\ Len(r.frames) = Len(s2.frames) - 1
      BY ONLY <1>8, <2>1, <2>2, GoodLeft
    <2>4. s2.frames \in Seq(Calls) /\ SameBound(s2, s2) /\ SameBound(s2, r) /\ r.frames = Front(s2.frames)
      <3>1. s2 \in Shells
        BY <1>8 DEF Good
      <3> QED
        BY <2>1, <3>1 DEF SameBound, Shells
    <2>5. s.frames \in Seq(Calls) /\ s.frames # <<>>
      BY <1>1, GoodTypes
    <2>6. Shown(s, r)
      BY ONLY <1>3, <1>7, <2>4, <2>5, ShownHashed
    <2> QED
      BY <1>1, <1>8, <2>3, <2>6
  <1>10. CASE ~s2.err
    <2>1. PICK x : x = Rehash(s2, c, g)
      OBVIOUS
    <2>2. Searched(s2, c, x)
      BY <1>8, <2>1, RehashRight
    <2>3. Good(x) /\ x.frames = s2.frames /\ x.texts = s2.texts /\ SameBound(s2, x)
      BY <1>8, <2>2, GoodSearched DEF Searched, SameVars, SameBound
    <2>4. PICK y : y = PopLocalVars(x)
      OBVIOUS
    <2>5. PICK fr \in Seq(Calls) : fr = x.frames /\ fr # <<>>
      BY <2>3, GoodTypes
    <2>6. /\ Heap(y, y.frames, 0) /\ y.frames = Cut(fr, 0) /\ SameTable(x, y)
          /\ Locked(x.vartab, fr) => PoppedTo(x, fr[Len(fr)].localvars, 0, y, Cut(fr, 0))
      <3>1. Heap(x, fr, n) /\ Len(fr[Len(fr)].localvars) <= n
        BY <1>8, <2>3, <2>5 DEF Heap, Good
      <3> QED
        BY ONLY <2>4, <2>5, <3>1, n \in Nat, PopLocalVarsRight, PopLocalVarsShown
    <2>7. /\ Len(Cut(fr, 0)) = Len(fr)
          /\ \A i \in 1..Len(fr) : Cut(fr, 0)[i].func = fr[i].func
          /\ \A i \in 1..Len(fr) : i # Len(fr) => Cut(fr, 0)[i] = fr[i]
      <3>1. 0 \in 0..Len(fr[Len(fr)].localvars)
        <4>1. Len(fr) \in 1..Len(fr)
          BY <2>5
        <4>2. Len(fr[Len(fr)].localvars) \in Nat
          BY <4>1, LocalvarsTypes
        <4> QED
          BY <4>2
      <3> QED
        BY ONLY <2>5, <3>1, CutRight
    <2>8. Bodies(y.cmdtable, y.funcs, y.frames)
      BY <2>3, <2>5, <2>6, <2>7, BodiesSame DEF Good
    <2>9. Lens(y.frames) /\ y.frames # <<>>
      <3>1. Lens(fr) /\ Len(fr) \in Nat /\ Len(fr) # 0
        BY <2>3, <2>5 DEF Good
      <3>2. Len(Cut(fr, 0)[Len(fr)].localvars) = 0
        <4>1. Len(fr) \in 1..Len(fr) /\ fr[Len(fr)].localvars \in Seq(Copies)
          BY <3>1, LocalvarsTypes
        <4>2. PICK L \in Seq(Copies) : L = fr[Len(fr)].localvars
          BY <4>1
        <4>3. Cut(fr, 0)[Len(fr)] = [fr[Len(fr)] EXCEPT !.localvars = SubSeq(L, 1, 0)]
          BY <4>1, <4>2 DEF Cut
        <4>4. fr[Len(fr)] \in Calls
          BY <4>1
        <4>5. Cut(fr, 0)[Len(fr)].localvars = SubSeq(L, 1, 0)
          BY ONLY <4>3, <4>4 DEF Calls
        <4>6. SubSeq(L, 1, 0) = <<>>
          BY ONLY L \in Seq(Copies)
        <4>7. Len(<<>>) = 0
          OBVIOUS
        <4> QED
          BY ONLY <4>5, <4>6, <4>7
      <3>3. Lens(Cut(fr, 0))
        BY ONLY <2>7, <3>1, <3>2, MaxLocals \in Nat DEF Lens
      <3>4. Len(y.frames) # 0
        BY <2>6, <2>7, <3>1
      <3> QED
        BY <2>6, <3>3, <3>4
    <2>10. Good(y)
      <3>1. GarbageHarmless => Remembered(y)
        BY <2>3, <2>6 DEF Good, SameTable
      <3> QED
        BY <2>6, <2>8, <2>9, <3>1 DEF Good, Heap
    <2>11. r = [y EXCEPT !.frames = Front(y.frames)]
      BY <1>2, <1>6, <1>10, <2>1, <2>4 DEF HashedUnder
    <2>12. Len(y.frames) = Len(s.frames) + 1
      BY <1>8, <2>3, <2>5, <2>6, <2>7
    <2>13. Good(r) /\ Len(r.frames) = Len(y.frames) - 1
      <3>1. Len(y.frames) > 1
        BY <1>1, <2>12
      <3> QED
        BY ONLY <2>10, <2>11, <3>1, GoodLeft
    <2>14. SameBound(y, r) /\ r.frames = Front(y.frames)
      <3>1. y \in Shells
        BY <2>10 DEF Good
      <3> QED
        BY <2>11, <3>1 DEF SameBound, Shells
    <2>15. s.frames \in Seq(Calls) /\ s.frames # <<>> /\ fr = s2.frames
      BY <1>1, <2>3, <2>5, GoodTypes
    <2>16. Shown(s, r)
      BY ONLY <1>3, <1>7, <2>3, <2>6, <2>14, <2>15, fr \in Seq(Calls), ShownHashed
    <2> QED
      BY <1>1, <2>12, <2>13, <2>16
  <1> QED
    BY <1>9, <1>10

-----------------------------------------------------------------------------
(* From one state to the next.                                             *)

\* The texts of the saved copies are in use.
LEMMA CopiesInUse ==
  ASSUME NEW s, s.frames \in Seq(Calls), NEW i, NEW j, NEW c, Has(s.frames, i, j, c)
  PROVE  c.text \in TextsInUse(s)
  <1>1. i \in DOMAIN s.frames
    BY DEF Has
  <1>2. PICK L \in Seq(Copies) : L = s.frames[i].localvars
    BY LocalvarsTypes DEF Has
  <1>3. c \in Range(L)
    BY <1>2 DEF Has, Range
  <1>4. c.text \in {lvp.text : lvp \in Range(s.frames[i].localvars)}
    BY <1>2, <1>3
  <1> QED
    BY <1>1, <1>4 DEF TextsInUse

\* What is swept is not in use.
LEMMA SweptRight ==
  ASSUME NEW s, Good(s), NEW r, r = Swept(s)
  PROVE  Good([r EXCEPT !.err = FALSE]) /\ r \in Shells /\ r.frames = s.frames /\ r.entry = NoEntry
  <1>1. /\ s \in Shells /\ s.vartab \in [Vars -> Variables] /\ s.texts \in [TextIds -> Contents]
        /\ s.frames \in Seq(Calls) /\ s.funcs \in [FuncIds -> Nat]
        /\ s.cmdtable \in [Commands -> Entries]
    BY GoodTypes, ShellTypes
  <1>2. Free \in Contents /\ NoEntry \in Entries
    BY DEF Contents, NoEntry, Entries, CmdTypes
  <1>3. PICK tx \in [TextIds -> Contents] :
          tx = [t \in TextIds |-> IF t \in TextsInUse(s) THEN s.texts[t] ELSE Free]
    BY <1>1, <1>2
  <1>4. PICK fn \in [FuncIds -> Nat] :
          fn = [f \in FuncIds |-> IF f \in FuncsInUse(s) THEN s.funcs[f] ELSE 0]
    BY <1>1
  <1>5. r = [s EXCEPT !.texts = tx, !.funcs = fn, !.entry = NoEntry]
    BY <1>3, <1>4 DEF Swept
  <1>6. PICK x : x = [r EXCEPT !.err = FALSE]
    OBVIOUS
  <1>7. /\ r \in Shells /\ x \in Shells /\ r.entry = NoEntry
        /\ r.frames = s.frames /\ x.frames = s.frames /\ x.vartab = s.vartab
        /\ x.texts = tx /\ x.funcs = fn /\ x.cmdtable = s.cmdtable
        /\ x.builtinloc = s.builtinloc /\ x.cwd = s.cwd
    <2>1. /\ r \in Shells /\ r.frames = s.frames /\ r.vartab = s.vartab /\ r.texts = tx
          /\ r.funcs = fn /\ r.cmdtable = s.cmdtable /\ r.entry = NoEntry
          /\ r.builtinloc = s.builtinloc /\ r.cwd = s.cwd
      BY ONLY <1>1, <1>2, <1>5, tx \in [TextIds -> Contents], fn \in [FuncIds -> Nat] DEF Shells
    <2>2. /\ x \in Shells /\ x.frames = r.frames /\ x.vartab = r.vartab /\ x.texts = r.texts
          /\ x.funcs = r.funcs /\ x.cmdtable = r.cmdtable /\ x.builtinloc = r.builtinloc
          /\ x.cwd = r.cwd
      BY ONLY <1>6, <2>1 DEF Shells
    <2> QED
      BY ONLY <2>1, <2>2
  <1>8. \A v \in Vars : s.vartab[v].text \in TextsInUse(s)
    BY DEF TextsInUse
  <1>9. \A i, j, c : Has(s.frames, i, j, c) => c.text \in TextsInUse(s)
    BY <1>1, CopiesInUse
  <1>10. \A t \in TextsInUse(s) : Alive(s.texts, t) => Alive(tx, t)
    BY <1>3 DEF Alive
  <1>11. Owned(s.vartab, tx, s.frames)
    <2>1. Owned(s.vartab, s.texts, s.frames)
      BY DEF Good
    <2> QED
      BY ONLY <1>8, <1>9, <1>10, <2>1 DEF Owned
  <1>12. \A f \in FuncIds : f \in FuncsInUse(s) \/ Cardinality(Runs(s.frames, f)) = 0
    <2> SUFFICES ASSUME NEW f \in FuncIds, f \notin FuncsInUse(s)
                 PROVE  Cardinality(Runs(s.frames, f)) = 0
      OBVIOUS
    <2>1. \A i \in 1..Len(s.frames) : s.frames[i].func # f
      BY <1>1 DEF FuncsInUse
    <2>2. Runs(s.frames, f) = {}
      BY <2>1 DEF Runs
    <2> QED
      BY <2>2, FS_EmptySet
  <1>13. \A c \in Commands : IsFunction(s.cmdtable, c) => s.cmdtable[c].param \in FuncsInUse(s)
    BY DEF FuncsInUse, IsFunction
  <1>14. Bodies(s.cmdtable, fn, s.frames)
    <2>1. Bodies(s.cmdtable, s.funcs, s.frames)
      BY DEF Good
    <2>2. \A f \in FuncIds : fn[f] = IF f \in FuncsInUse(s) THEN s.funcs[f] ELSE 0
      BY <1>4
    <2>3. \A f \in FuncIds : fn[f] >= Cardinality(Runs(s.frames, f))
      BY ONLY <1>12, <2>1, <2>2 DEF Bodies
    <2>4. \A c \in Commands : IsFunction(s.cmdtable, c) =>
            fn[s.cmdtable[c].param] >= Cardinality(Runs(s.frames, s.cmdtable[c].param)) + 1
      BY ONLY <1>13, <2>1, <2>2 DEF Bodies
    <2> QED
      BY ONLY <2>1, <2>3, <2>4 DEF Bodies
  <1>15. GarbageHarmless => Remembered(x)
    <2>1. s.vartab["PATH"].text \in TextIds
      BY DEF Good, Owned, Kept, Alive
    <2>2. PathVal(x) = PathVal(s)
      BY <1>3, <1>7, <1>8, <2>1 DEF PathVal
    <2> QED
      BY <1>7, <2>2, RememberedSame DEF Good
  <1>16. Good(x)
    BY <1>7, <1>11, <1>14, <1>15 DEF Good
  <1> QED
    BY <1>6, <1>7, <1>16

\* A command that leaves a good shell leads to one.
LEMMA BecomesGood ==
  ASSUME NEW s, Good(s), Becomes(s)
  PROVE  Good(St)' /\ frames' = s.frames
  <1>1. PICK z : z = Swept(s)
    OBVIOUS
  <1>2. /\ vartab' = z.vartab /\ texts' = z.texts /\ frames' = z.frames
        /\ aflag' = z.aflag /\ cmdtable' = z.cmdtable /\ builtinloc' = z.builtinloc
        /\ funcs' = z.funcs /\ cwd' = z.cwd
    BY <1>1 DEF Becomes
  <1>3. PICK x : x = [z EXCEPT !.err = FALSE]
    OBVIOUS
  <1>4. Good(x) /\ z \in Shells /\ z.frames = s.frames /\ z.entry = NoEntry
    BY <1>1, <1>3, SweptRight
  <1>5. St' = x
    <2>1. z = [vartab |-> z.vartab, texts |-> z.texts, frames |-> z.frames, aflag |-> z.aflag,
               cmdtable |-> z.cmdtable, builtinloc |-> z.builtinloc, funcs |-> z.funcs,
               cwd |-> z.cwd, err |-> z.err, entry |-> z.entry]
      BY <1>4 DEF Shells
    <2>2. x = [vartab |-> z.vartab, texts |-> z.texts, frames |-> z.frames, aflag |-> z.aflag,
               cmdtable |-> z.cmdtable, builtinloc |-> z.builtinloc, funcs |-> z.funcs,
               cwd |-> z.cwd, err |-> FALSE, entry |-> z.entry]
      BY <1>3, <2>1
    <2> QED
      BY <1>2, <1>4, <2>2 DEF St
  <1> QED
    BY <1>2, <1>4, <1>5 DEF Good

\* The shell between two commands.
ShellInv ==
  /\ Good(St) /\ raising \in BOOLEAN
  /\ raising => Len(frames) > 1

\* The fields of the shell are the variables of the model.
LEMMA StFields ==
  /\ St.vartab = vartab /\ St.texts = texts /\ St.frames = frames /\ St.aflag = aflag
  /\ St.cmdtable = cmdtable /\ St.builtinloc = builtinloc /\ St.funcs = funcs /\ St.cwd = cwd
  BY DEF St

\* A step to a good shell that is one of ShellScopes.
Led == \E r : Good(r) /\ Becomes(r) /\ Shown(St, r)

\* A builtin that leaves a good shell keeps the invariant.
LEMMA CaughtGood ==
  ASSUME ShellInv, NEW s, Good(s), Caught(s), Shown(St, s)
  PROVE  ShellInv' /\ Led
  <1>1. Good(St)'
    BY BecomesGood DEF Caught
  <1>2. raising' = raising /\ ~raising
    BY DEF Caught
  <1>3. ShellInv'
    BY <1>1, <1>2, Zenon DEF ShellInv
  <1> QED
    BY <1>3 DEF Caught, Led

\* And so does anything else, whether an error is raised or not.
LEMMA RaisedGood ==
  ASSUME NEW s, Good(s), Raised(s), Shown(St, s)
  PROVE  ShellInv' /\ Led
  <1>1. Good(St)' /\ frames' = s.frames
    BY BecomesGood DEF Raised
  <1>2. raising' = (s.err /\ Len(s.frames) > 1)
    BY DEF Raised
  <1>3. raising' \in BOOLEAN
    BY <1>2
  <1>4. raising' => Len(frames') > 1
    BY ONLY <1>1, <1>2, Zenon
  <1> QED
    BY <1>1, <1>3, <1>4 DEF ShellInv, Raised, Led

\* The shell that a command finds.
LEMMA Found0 ==
  ASSUME ShellInv, NEW s, Becomes(s)
  PROVE  /\ Can(St, MaxLocals + 2) /\ Good(St) /\ St \in Shells
         /\ Heap(St, St.frames, MaxLocals + 2) /\ Heap(St, St.frames, (MaxLocals + 1) + 1)
         /\ MaxLocals + 1 \in Nat /\ MaxLocals + 2 \in Nat
  <1>1. Left(St.texts, MaxLocals + 2)
    BY StFields DEF Becomes, Room, Left
  <1>2. Good(St) /\ St \in Shells
    BY DEF ShellInv, Good
  <1>3. (MaxLocals + 1) + 1 = MaxLocals + 2
    OBVIOUS
  <1>4. Heap(St, St.frames, MaxLocals + 2)
    BY <1>1, <1>2 DEF Heap, Good
  <1> QED
    BY <1>1, <1>2, <1>3, <1>4 DEF Can

\* The values that are assigned can be read.
LEMMA ValuesUsable ==
  ASSUME NEW v
  PROVE  ValuesOf(v) \subseteq Texts /\ \A val \in Optional(ValuesOf(v)) : val \in SUBSET Texts
  BY DEF ValuesOf, Texts, Optional

\* An assignment (setvareq).
LEMMA AssignStep ==
  ASSUME ShellInv, NEW v \in Vars, Assign(v)
  PROVE  ShellInv' /\ Led
  <1>1. PICK val \in ValuesOf(v) : Raised(SetVarEq(St, v, val, {}))
    BY DEF Assign
  <1>2. PICK r : r = SetVarEq(St, v, val, {})
    OBVIOUS
  <1>3. Raised(r)
    BY <1>1, <1>2
  <1>4. Good(St) /\ Heap(St, St.frames, (MaxLocals + 1) + 1) /\ MaxLocals + 1 \in Nat
    BY <1>3, Found0 DEF Raised
  <1>5. val \in Texts /\ {} \in SUBSET Given
    BY ValuesUsable
  <1>6. Heap(r, St.frames, MaxLocals + 1) /\ SameRest(St, r) /\ Touches(St, r, St.frames, v)
    BY ONLY <1>2, <1>4, <1>5, v \in Vars, SetVarEqRight
  <1>7. Good(r) /\ r.frames = St.frames
    BY ONLY <1>4, <1>6, GoodVars
  <1>8. Shown(St, r)
    BY ONLY <1>6, <1>7, v \in Vars, ShownTouched
  <1> QED
    BY <1>3, <1>7, <1>8, RaisedGood

\* export and readonly (exportcmd).
LEMMA ExportStep ==
  ASSUME ShellInv, NEW v \in Vars, Export(v)
  PROVE  ShellInv' /\ Led
  <1>1. PICK flag \in (IF v = "PATH" THEN PathAttributes ELSE Attributes), unexport \in BOOLEAN,
             val \in Optional(ValuesOf(v)) :
               /\ unexport => flag = "VEXPORT"
               /\ Special(ExportCmd(St, v, flag, unexport, val))
    BY DEF Export
  <1>2. PICK r : r = ExportCmd(St, v, flag, unexport, val)
    OBVIOUS
  <1>3. Caught(r) \/ Raised(r)
    BY <1>1, <1>2 DEF Special
  <1>4. Good(St) /\ Heap(St, St.frames, (MaxLocals + 1) + 1) /\ MaxLocals + 1 \in Nat
    BY <1>3, Found0 DEF Caught, Raised
  <1>5. /\ val \in SUBSET Texts /\ flag \in {"VEXPORT", "VREADONLY", "VNOEXPORT"}
        /\ unexport => flag = "VEXPORT"
    <2>1. val \in SUBSET Texts
      BY ValuesUsable
    <2>2. flag \in Attributes \cup PathAttributes
      OBVIOUS
    <2> QED
      BY <1>1, <2>1, <2>2
  <1>6. Heap(r, St.frames, MaxLocals + 1) /\ SameRest(St, r) /\ Touches(St, r, St.frames, v)
    BY ONLY <1>2, <1>4, <1>5, v \in Vars, unexport \in BOOLEAN, ExportCmdRight
  <1>7. Good(r) /\ r.frames = St.frames
    BY ONLY <1>4, <1>6, GoodVars
  <1>8. Shown(St, r)
    BY ONLY <1>6, <1>7, v \in Vars, ShownTouched
  <1> QED
    BY <1>3, <1>7, <1>8, CaughtGood, RaisedGood

\* unset and export -n (unsetvar).
LEMMA UnsetStep ==
  ASSUME ShellInv, NEW v \in Vars, Unset(v)
  PROVE  ShellInv' /\ Led
  <1>1. PICK how : Special(UnsetVar(St, v, how))
    BY DEF Unset
  <1>2. PICK r : r = UnsetVar(St, v, how)
    OBVIOUS
  <1>3. Caught(r) \/ Raised(r)
    BY <1>1, <1>2 DEF Special
  <1>4. Good(St) /\ Heap(St, St.frames, (MaxLocals + 1) + 1) /\ MaxLocals + 1 \in Nat
    BY <1>3, Found0 DEF Caught, Raised
  <1>5. Heap(r, St.frames, MaxLocals + 1) /\ SameRest(St, r) /\ Touches(St, r, St.frames, v)
    BY ONLY <1>2, <1>4, v \in Vars, UnsetVarRight
  <1>6. Good(r) /\ r.frames = St.frames
    BY ONLY <1>4, <1>5, GoodVars
  <1>7. Shown(St, r)
    BY ONLY <1>5, <1>6, v \in Vars, ShownTouched
  <1> QED
    BY <1>3, <1>6, <1>7, CaughtGood, RaisedGood

\* set -a.
LEMMA SetOptionStep ==
  ASSUME ShellInv, SetOption
  PROVE  ShellInv' /\ Led
  <1>1. PICK r : r = [St EXCEPT !.aflag = ~St.aflag]
    OBVIOUS
  <1>2. Caught(r)
    BY <1>1 DEF SetOption
  <1>3. Good(St) /\ St \in Shells
    BY DEF ShellInv, Good
  <1>4. /\ r \in Shells /\ r.frames = St.frames /\ r.vartab = St.vartab /\ r.texts = St.texts
        /\ r.funcs = St.funcs /\ r.cmdtable = St.cmdtable
        /\ r.builtinloc = St.builtinloc /\ r.cwd = St.cwd
    BY <1>1, <1>3 DEF Shells
  <1>5. GarbageHarmless => Remembered(r)
    BY <1>3, <1>4, RememberedSame DEF Good, PathVal
  <1>6. Good(r)
    BY <1>3, <1>4, <1>5 DEF Good
  <1>7. Shown(St, r)
    BY <1>4, ShownSame
  <1> QED
    BY <1>2, <1>6, <1>7, CaughtGood

\* local (mklocal).
LEMMA LocalStep ==
  ASSUME ShellInv, NEW v \in Vars, Local(v)
  PROVE  ShellInv' /\ Led
  <1>1. PICK given \in SUBSET {"VUNSET", "VEXPORT"}, val \in Optional(ValuesOf(v)) :
          Caught(MkLocal(St, v, val, given))
    BY DEF Local
  <1>2. PICK r : r = MkLocal(St, v, val, given)
    OBVIOUS
  <1>3. Caught(r)
    BY <1>1, <1>2
  <1>4. PICK n \in Nat : n = MaxLocals + 1 /\ n + 1 = MaxLocals + 2
    OBVIOUS
  <1>5. Can(St, n + 1)
    BY <1>3, <1>4, Found0 DEF Caught
  <1>6. Len(St.frames[Len(St.frames)].localvars) <= MaxLocals
    <2>1. Len(frames[Len(frames)].localvars) < MaxLocals
      BY DEF Local
    <2>2. Good(St) /\ St.frames = frames
      BY StFields DEF ShellInv
    <2>3. Len(frames[Len(frames)].localvars) \in Nat
      BY <2>2, GoodTypes, LocalvarsTypes
    <2> QED
      BY <2>1, <2>2, <2>3
  <1>7. val \in SUBSET Texts /\ given \in SUBSET Given
    BY ValuesUsable DEF Given, Flags
  <1>8. Can(r, n) /\ LocalShown(St, v, r)
    BY ONLY <1>2, <1>5, <1>6, <1>7, n \in Nat, v \in Vars, GoodLocal
  <1>9. Shown(St, r)
    <2>1. St.frames \in Seq(Calls) /\ Len(St.frames) > 1
      BY <1>5, GoodTypes, StFields DEF Local, Can
    <2> QED
      BY ONLY <1>8, <2>1, v \in Vars, ShownLocal
  <1> QED
    BY <1>3, <1>8, <1>9, CaughtGood DEF Can

\* local - (mklocal).
LEMMA LocalOptionsStep ==
  ASSUME ShellInv, LocalOptions
  PROVE  ShellInv' /\ Led
  <1>1. PICK r : r = MkLocalOptions(St)
    OBVIOUS
  <1>2. Caught(r)
    BY <1>1 DEF LocalOptions
  <1>3. Good(St) /\ St \in Shells /\ St.frames = frames /\ St.aflag \in BOOLEAN
    BY StFields, ShellTypes DEF ShellInv, Good
  <1>4. PICK d \in Copies : d = Saved("-", 0, {}, St.aflag) /\ d.text = 0 /\ d.var = "-"
                           /\ d.aflag = St.aflag
    <2>1. Saved("-", 0, {}, St.aflag) \in Copies
      BY <1>3 DEF Saved, Copies
    <2> QED
      BY <2>1 DEF Saved
  <1>5. r = PushLocal(St, d)
    BY <1>1, <1>4 DEF MkLocalOptions
  <1>6. St.frames # <<>> /\ St.frames \in Seq(Calls)
    BY <1>3, GoodTypes
  <1>7. /\ r \in Shells /\ r.vartab = St.vartab /\ r.texts = St.texts /\ SameTable(St, r)
        /\ r.frames = WithCopy(St.frames, d) /\ Grown(St.frames, r.frames)
        /\ r.aflag = St.aflag
    BY ONLY <1>3, <1>4, <1>5, <1>6, PushLocalRight
  <1>8. \A i, j, c : Has(r.frames, i, j, c) <=>
          \/ Has(St.frames, i, j, c)
          \/ i = Len(St.frames) /\ j = Len(St.frames[i].localvars) + 1 /\ c = d
    BY ONLY <1>4, <1>6, <1>7, Pushed
  <1>9. Owned(r.vartab, r.texts, r.frames)
    <2>1. "-" # "PATH"
      OBVIOUS
    <2>2. Owned(r.vartab, r.texts, St.frames)
      BY <1>3, <1>7 DEF Good
    <2>3. \A i, j, c : Has(r.frames, i, j, c) => Has(St.frames, i, j, c) \/ c = d
      BY ONLY <1>8
    <2> QED
      BY ONLY <1>4, <2>1, <2>2, <2>3 DEF Owned, Alive
  <1>10. Bodies(r.cmdtable, r.funcs, r.frames)
    BY <1>3, <1>7, BodiesSame DEF Good, Grown
  <1>11. r.frames # <<>> /\ Lens(r.frames)
    <2>1. Len(frames[Len(frames)].localvars) < MaxLocals
      BY DEF LocalOptions
    <2>2. \A i \in 1..Len(St.frames) : Len(St.frames[i].localvars) \in Nat
      BY <1>6, LocalvarsTypes
    <2>3. Len(r.frames) = Len(St.frames) /\ Len(St.frames) # 0
      BY <1>6, <1>7 DEF Grown
    <2>4. Lens(St.frames)
      BY <1>3 DEF Good
    <2>5. ASSUME NEW i \in 1..Len(St.frames) PROVE Len(r.frames[i].localvars) <= MaxLocals + 1
      <3>1. PICK a \in Nat : a = Len(St.frames[i].localvars)
        BY <2>2
      <3>2. Len(r.frames[i].localvars) \in Nat
        BY <1>7, <2>3, ShellTypes, LocalvarsTypes
      <3>3. Len(r.frames[i].localvars) <= IF i = Len(St.frames) THEN a + 1 ELSE a
        BY <1>7, <3>1 DEF Grown
      <3>4. a <= MaxLocals + 1 /\ (i = Len(St.frames) => a < MaxLocals)
        BY <1>3, <2>1, <2>4, <3>1 DEF Lens
      <3> QED
        BY ONLY <3>2, <3>3, <3>4, a \in Nat, MaxLocals \in Nat
    <2> QED
      BY <2>3, <2>5 DEF Lens
  <1>12. GarbageHarmless => Remembered(r)
    BY <1>3, <1>7 DEF Good, SameTable
  <1>13. Good(r)
    BY <1>7, <1>9, <1>10, <1>11, <1>12 DEF Good
  <1>14. Shown(St, r)
    <2>1. Len(St.frames) > 1
      BY <1>3 DEF LocalOptions
    <2> QED
      BY ONLY <1>4, <1>6, <1>7, <2>1, ShownOptions
  <1> QED
    BY <1>2, <1>13, <1>14, CaughtGood

\* A definition of a function (defun).
LEMMA DefineStep ==
  ASSUME ShellInv, NEW c \in Defined, DefineFunction(c)
  PROVE  ShellInv' /\ Led
  <1>1. PICK f \in FuncIds : f = Min({h \in FuncIds : funcs[h] = 0}) /\ funcs[f] = 0
    <2>1. PICK S : S = {h \in FuncIds : funcs[h] = 0}
      OBVIOUS
    <2>2. S \subseteq Nat /\ S # {}
      BY <2>1 DEF DefineFunction, FuncIds
    <2>3. Min(S) \in S
      BY ONLY <2>2, MinIn
    <2> QED
      BY <2>1, <2>3
  <1>2. PICK r : r = Defun(St, c, f)
    OBVIOUS
  <1>3. Caught(r)
    BY <1>1, <1>2 DEF DefineFunction
  <1>4. Good(St) /\ St \in Shells /\ St.funcs[f] = 0
    BY <1>1, StFields DEF ShellInv, Good
  <1>5. Bodies(St.cmdtable, St.funcs, St.frames)
    BY <1>4 DEF Good
  <1>6. /\ r \in Shells /\ SameVars(St, r) /\ Bodies(r.cmdtable, r.funcs, r.frames)
        /\ c \in Defined /\ Remembered(St) => Remembered(r)
    <2>1. c \in Commands
      OBVIOUS
    <2> QED
      BY ONLY <1>2, <1>4, <1>5, <2>1, f \in FuncIds, DefunRight
  <1>7. Good(r)
    BY ONLY <1>4, <1>6, c \in Defined, GoodFuncs
  <1>8. Shown(St, r)
    BY <1>6, ShownSame DEF SameVars
  <1> QED
    BY <1>3, <1>7, <1>8, CaughtGood

\* unset -f (unsetfunc).
LEMMA UndefineStep ==
  ASSUME ShellInv, NEW c \in Commands, UndefineFunction(c)
  PROVE  ShellInv' /\ Led
  <1>1. PICK r : r = UnsetFunc(St, c)
    OBVIOUS
  <1>2. Caught(r)
    BY <1>1 DEF UndefineFunction
  <1>3. Good(St) /\ St \in Shells /\ Bodies(St.cmdtable, St.funcs, St.frames)
    BY DEF ShellInv, Good
  <1>4. /\ r \in Shells /\ SameVars(St, r) /\ Bodies(r.cmdtable, r.funcs, r.frames)
        /\ Remembered(St) => Remembered(r)
    BY ONLY <1>1, <1>3, c \in Commands, UnsetFuncRight
  <1>5. Good(r)
    BY ONLY <1>3, <1>4, GoodFuncs
  <1>6. Shown(St, r)
    BY <1>4, ShownSame DEF SameVars
  <1> QED
    BY <1>2, <1>5, <1>6, CaughtGood

\* A function returns (evalcommand, poplocalvars).
LEMMA ReturnStep ==
  ASSUME ShellInv, Return
  PROVE  ShellInv' /\ Led
  <1>1. PICK r : r = PopFrame(St)
    OBVIOUS
  <1>2. Caught(r) /\ Len(St.frames) > 1
    BY <1>1, StFields DEF Return
  <1>3. Can(St, MaxLocals + 1)
    <2>1. Good(St) /\ Left(St.texts, MaxLocals + 2)
      BY <1>2, Found0 DEF Caught, Can
    <2> QED
      BY <2>1, LeftFewer DEF Can
  <1>4. Good(r) /\ Shown(St, r)
    BY ONLY <1>1, <1>2, <1>3, PopFrameRight
  <1> QED
    BY <1>2, <1>4, CaughtGood

\* An error is raised in a function.
LEMMA FailStep ==
  ASSUME ShellInv, Fail
  PROVE  ShellInv' /\ Led
  <1>1. Good(St) /\ Becomes(St) /\ Len(frames) > 1 /\ raising' = TRUE
    BY DEF ShellInv, Fail
  <1>2. Good(St)' /\ frames' = St.frames
    BY <1>1, BecomesGood
  <1>3. Len(frames') > 1
    BY <1>1, <1>2, StFields
  <1>4. Shown(St, St)
    BY ShownSame
  <1> QED
    BY <1>1, <1>2, <1>3, <1>4 DEF ShellInv, Led

\* A function is unwound (the handler in evalcommand, poplocalvars).
LEMMA UnwindStep ==
  ASSUME ShellInv, Unwind
  PROVE  ShellInv' /\ Led
  <1>1. PICK r : r = PopFrame(St)
    OBVIOUS
  <1>2. Becomes(r) /\ Len(St.frames) > 1 /\ raising' = (Len(frames) > 2) /\ Good(St)
    BY <1>1, StFields DEF Unwind, ShellInv
  <1>3. Can(St, MaxLocals + 1)
    <2>1. Good(St) /\ Left(St.texts, MaxLocals + 2)
      BY <1>2, Found0 DEF Can
    <2> QED
      BY <2>1, LeftFewer DEF Can
  <1>4. Good(r) /\ Len(r.frames) = Len(St.frames) - 1 /\ Shown(St, r)
    BY ONLY <1>1, <1>2, <1>3, PopFrameRight
  <1>5. Good(St)' /\ frames' = r.frames
    BY <1>2, <1>4, BecomesGood
  <1>6. raising' \in BOOLEAN
    BY <1>2
  <1>7. Len(St.frames) \in Nat /\ St.frames = frames
    BY <1>2, GoodTypes, StFields
  <1>8. Len(frames) > 2 => Len(frames') > 1
    BY ONLY <1>4, <1>5, <1>7
  <1>9. raising' => Len(frames') > 1
    BY ONLY <1>2, <1>8, Zenon
  <1>10. ShellInv'
    BY <1>5, <1>6, <1>9, Zenon DEF ShellInv
  <1> QED
    BY <1>2, <1>4, <1>10 DEF Led

\* A function that is called: its body is counted once more.
LEMMA CallGood ==
  ASSUME NEW s, Good(s), NEW f \in FuncIds, NEW r, r = Call(s, f)
  PROVE  /\ Good(r) /\ r.texts = s.texts /\ Len(r.frames) = Len(s.frames) + 1
         /\ r.frames[Len(r.frames)].localvars = <<>>
         /\ SameBound(s, r) /\ r.frames = WithCall(s.frames, f) /\ r.err = s.err
  <1>1. /\ s \in Shells /\ s.frames \in Seq(Calls) /\ f \in 0..MaxFuncs
        /\ s.funcs \in [FuncIds -> Nat]
    BY GoodTypes, ShellTypes DEF FuncIds
  <1>2. PICK fr2 : fr2 = WithCall(s.frames, f)
    OBVIOUS
  <1>3. /\ fr2 \in Seq(Calls) /\ Len(fr2) = Len(s.frames) + 1
        /\ fr2[Len(fr2)].func = f /\ fr2[Len(fr2)].localvars = <<>>
        /\ \A i \in 1..Len(s.frames) : fr2[i] = s.frames[i]
        /\ \A i, j, c : Has(fr2, i, j, c) <=> Has(s.frames, i, j, c)
    BY ONLY <1>1, <1>2, Called
  <1>4. PICK fn2 : fn2 = [s.funcs EXCEPT ![f] = s.funcs[f] + 1]
    OBVIOUS
  <1>5. Bodies(s.cmdtable, fn2, fr2) /\ fn2 \in [FuncIds -> Nat]
    <2>1. Bodies(s.cmdtable, s.funcs, s.frames)
      BY DEF Good
    <2> QED
      BY ONLY <1>1, <1>2, <1>4, <2>1, f \in FuncIds, BodiesCalled
  <1>6. r = [[s EXCEPT !.funcs = fn2] EXCEPT !.frames = fr2]
    <2>1. PICK x : x = [s EXCEPT !.funcs = fn2]
      OBVIOUS
    <2>2. x = Ref(s, f) /\ x.frames = s.frames
      BY <1>1, <1>4, <2>1 DEF Ref, Shells
    <2>3. r = [x EXCEPT !.frames = WithCall(x.frames, f)]
      BY <2>2 DEF Call, WithCall
    <2> QED
      BY ONLY <1>2, <2>1, <2>2, <2>3
  <1>7. /\ r \in Shells /\ r.frames = fr2 /\ r.vartab = s.vartab /\ r.texts = s.texts
        /\ r.cmdtable = s.cmdtable /\ r.funcs = fn2 /\ r.builtinloc = s.builtinloc
        /\ r.cwd = s.cwd /\ r.aflag = s.aflag /\ r.err = s.err
    BY ONLY <1>1, <1>3, <1>5, <1>6 DEF Shells
  <1>8. Owned(r.vartab, r.texts, fr2)
    BY <1>3, <1>7, FewerOwned DEF Good
  <1>9. fr2 # <<>> /\ Lens(fr2)
    <2>1. Len(s.frames) \in Nat /\ Lens(s.frames)
      BY GoodTypes DEF Good
    <2>2. Len(fr2) # 0
      BY <1>3, <2>1
    <2>3. Len(fr2[Len(fr2)].localvars) = 0
      BY <1>3
    <2>4. \A i \in 1..Len(fr2) : i \in 1..Len(s.frames) \/ i = Len(fr2)
      BY ONLY <1>3, <2>1
    <2>5. Lens(fr2)
      BY ONLY <1>3, <2>1, <2>3, <2>4, MaxLocals \in Nat DEF Lens
    <2> QED
      BY <2>2, <2>5
  <1>10. GarbageHarmless => Remembered(r)
    BY <1>7, RememberedSame DEF Good, PathVal
  <1> QED
    BY <1>2, <1>3, <1>5, <1>7, <1>8, <1>9, <1>10 DEF Good, SameBound

\* The search of a command that is run.
LEMMA LookupGood ==
  ASSUME ShellInv, NEW c \in Commands, NEW nofunc \in BOOLEAN, NEW alt, NEW v,
         alt \in Optional(ValuesOf(v)), NEW g \in Garbage, NEW s, s = Lookup(c, nofunc, alt, g)
  PROVE  Good(s) /\ s.texts = St.texts /\ s.frames = St.frames /\ Searched(St, c, s)
  <1>1. Good(St) /\ St \in Shells /\ PathVal(St) \in Contents
    BY GoodTypes DEF ShellInv
  <1>2. PICK path \in Contents : path = PathVal(St)
    BY <1>1
  <1>3. Searched(St, c, s)
    <2>1. CASE alt = {}
      <3>1. s = FindCommand(St, c, path, FALSE, nofunc, g)
        BY <1>2, <2>1 DEF Lookup
      <3>2. FALSE \in BOOLEAN /\ (~FALSE => path = PathVal(St))
        BY <1>2
      <3> QED
        BY ONLY <1>1, <3>1, <3>2, c \in Commands, path \in Contents, nofunc \in BOOLEAN,
                g \in Garbage, FindCommandRight
    <2>2. CASE alt # {}
      <3>1. PICK p : p = CHOOSE q \in alt : TRUE
        OBVIOUS
      <3>2. p \in alt
        BY <2>2, <3>1
      <3>3. p \in Contents
        BY <3>2, ValuesUsable, TextsUsable
      <3>4. s = FindCommand(St, c, p, TRUE, nofunc, g)
        BY <2>2, <3>1 DEF Lookup
      <3>5. TRUE \in BOOLEAN /\ (~TRUE => p = PathVal(St))
        OBVIOUS
      <3> QED
        BY ONLY <1>1, <3>3, <3>4, <3>5, c \in Commands, nofunc \in BOOLEAN, g \in Garbage,
                FindCommandRight
    <2> QED
      BY <2>1, <2>2
  <1>4. Good(s) /\ s.frames = St.frames /\ s.texts = St.texts
    BY ONLY <1>1, <1>3, GoodSearched
  <1> QED
    BY <1>3, <1>4

\* evalcommand.
LEMMA RunStep ==
  ASSUME ShellInv, focus \in Vars, NEW c \in Commands, Run(c)
  PROVE  ShellInv' /\ Led
  <1>0. PICK nofunc \in BOOLEAN, g \in Garbage, val \in Optional(ValuesOf(focus)) :
          \E s :
            /\ s = Lookup(c, nofunc, IF focus = "PATH" THEN val ELSE {}, g)
            /\ \/ s.entry.cmdtype # "function" /\ Caught(s)
               \/ /\ s.entry.cmdtype = "function" /\ Len(frames) < MaxFrames
                  /\ Raised(IF val = {} THEN Call(s, s.entry.param)
                            ELSE MkLocal(Call(s, s.entry.param), focus, val, {"VDOEXPORT", "VEXPORT"}))
    BY DEF Run
  <1>1. PICK s :
          /\ s = Lookup(c, nofunc, IF focus = "PATH" THEN val ELSE {}, g)
          /\ \/ s.entry.cmdtype # "function" /\ Caught(s)
             \/ /\ s.entry.cmdtype = "function" /\ Len(frames) < MaxFrames
                /\ Raised(IF val = {} THEN Call(s, s.entry.param)
                          ELSE MkLocal(Call(s, s.entry.param), focus, val, {"VDOEXPORT", "VEXPORT"}))
    BY <1>0
  <1>2. PICK alt \in Optional(ValuesOf(focus)) : alt = IF focus = "PATH" THEN val ELSE {}
    BY DEF Optional
  <1>3. s = Lookup(c, nofunc, alt, g)
    BY <1>1, <1>2
  <1>4. Good(s) /\ s.texts = St.texts /\ s.frames = St.frames /\ Searched(St, c, s)
    BY ONLY <1>3, ShellInv, c \in Commands, nofunc \in BOOLEAN,
            alt \in Optional(ValuesOf(focus)), g \in Garbage, LookupGood
  <1>5. CASE s.entry.cmdtype # "function" /\ Caught(s)
    <2>1. Shown(St, s)
      BY <1>4, ShownSame DEF Searched, SameVars
    <2> QED
      BY <1>4, <1>5, <2>1, CaughtGood
  <1>6. ASSUME s.entry.cmdtype = "function", NEW x, Raised(x), NEW f, f = s.entry.param, NEW s1,
               s1 = Call(s, f),
               x = IF val = {} THEN s1 ELSE MkLocal(s1, focus, val, {"VDOEXPORT", "VEXPORT"})
        PROVE  ShellInv' /\ Led
    <2>1. f \in FuncIds
      <3>1. IsFunction(s.cmdtable, c) /\ s.cmdtable[c].param = f
        BY <1>4, <1>6 DEF Searched
      <3> QED
        BY <1>4, <3>1 DEF Good, Bodies
    <2>2. /\ Good(s1) /\ s1.texts = s.texts /\ Len(s1.frames) = Len(s.frames) + 1
          /\ s1.frames[Len(s1.frames)].localvars = <<>>
          /\ SameBound(s, s1) /\ s1.frames = WithCall(s.frames, f) /\ s1.err = s.err
      BY ONLY <1>4, <1>6, <2>1, CallGood
    <2>5. /\ St.frames \in Seq(Calls) /\ St.frames # <<>> /\ f \in 0..MaxFuncs
          /\ s1.vartab = St.vartab /\ s1.texts = St.texts /\ s1.aflag = St.aflag /\ ~s1.err
          /\ s1.frames = WithCall(St.frames, f)
      <3>1. St.frames \in Seq(Calls) /\ St.frames # <<>> /\ f \in 0..MaxFuncs
        BY <2>1, GoodTypes DEF ShellInv, FuncIds
      <3>2. ~St.err
        BY DEF St
      <3>3. SameVars(St, s)
        BY <1>4 DEF Searched
      <3> QED
        BY ONLY <2>2, <3>1, <3>2, <3>3 DEF SameVars, SameBound
    <2>3. CASE val = {}
      <3>1. x = s1
        BY <1>6, <2>3
      <3>2. Shown(St, s1)
        BY ONLY <2>5, ShownCalled
      <3> QED
        BY <1>6, <2>2, <3>1, <3>2, RaisedGood
    <2>4. CASE val # {}
      <3>1. x = MkLocal(s1, focus, val, {"VDOEXPORT", "VEXPORT"})
        BY <1>6, <2>4
      <3>2. PICK n \in Nat : n = MaxLocals + 1 /\ n + 1 = MaxLocals + 2
        OBVIOUS
      <3>3. Can(s1, n + 1)
        <4>1. Left(St.texts, MaxLocals + 2)
          BY <1>6, Found0 DEF Raised, Can
        <4> QED
          BY <1>4, <2>2, <3>2, <4>1 DEF Can
      <3>4. Len(s1.frames[Len(s1.frames)].localvars) <= MaxLocals
        BY <2>2
      <3>5. val \in SUBSET Texts /\ {"VDOEXPORT", "VEXPORT"} \in SUBSET Given
        BY ValuesUsable DEF Given, Flags
      <3>6. Can(x, n) /\ LocalShown(s1, focus, x)
        BY ONLY <3>1, <3>3, <3>4, <3>5, n \in Nat, focus \in Vars, GoodLocal
      <3>7. Shown(St, x)
        BY ONLY <2>5, <3>6, focus \in Vars, ShownCalledWith
      <3> QED
        BY <1>6, <3>6, <3>7, RaisedGood DEF Can
    <2> QED
      BY <2>3, <2>4
  <1> QED
    BY <1>1, <1>5, <1>6

\* Where commands lose what was remembered of them, and their functions stay.
LEMMA GoodTable ==
  ASSUME NEW s, Good(s), NEW r \in Shells, r.vartab = s.vartab, r.texts = s.texts,
         r.frames = s.frames, r.funcs = s.funcs, Fewer(s.cmdtable, r.cmdtable),
         GarbageHarmless /\ Remembered(s) => Remembered(r)
  PROVE  Good(r)
  <1>1. Bodies(r.cmdtable, r.funcs, r.frames)
    BY BodiesFewer DEF Good
  <1> QED
    BY <1>1 DEF Good

\* After cd nothing that is said of a place which depends on the current directory counts.
LEMMA DoubtedTrue ==
  ASSUME NEW s, NEW e \in Entries, NEW c, NEW path, TrueOf(s, e, c, path),
         NEW r, NEW e2 \in Entries, e2.cmdtype = e.cmdtype, e2.param = e.param,
         e.cmdtype = "normal" => e2.rehash
  PROVE  TrueOf(r, e2, c, path)
  <1>1. CASE e.cmdtype # "normal"
    BY <1>1 DEF TrueOf
  <1>2. CASE e.cmdtype = "normal"
    <2>1. PICK n : n = e.param
      OBVIOUS
    <2>2. /\ n \in Positions(path) /\ Component(path, n) # BuiltinMark
          /\ BuiltinPos(path) < 0 => c \notin Builtins
          /\ \A i \in Positions(path) :
               i < n /\ ~Doubtful(e, path, i) => ~Hit(s, c, path, i)
          /\ ~Doubtful(e, path, n) => Hit(s, c, path, n)
      BY <1>2, <2>1 DEF TrueOf
    <2>3. ASSUME NEW i, ~Doubtful(e2, path, i)
          PROVE  ~Doubtful(e, path, i) /\ (Hit(r, c, path, i) <=> Hit(s, c, path, i))
      <3>1. Component(path, i) # Here
        BY <1>2, <2>3 DEF Doubtful
      <3> QED
        BY <3>1 DEF Doubtful, Hit, Exists
    <2>4. /\ \A i \in Positions(path) :
               i < n /\ ~Doubtful(e2, path, i) => ~Hit(r, c, path, i)
          /\ ~Doubtful(e2, path, n) => Hit(r, c, path, n)
      BY ONLY <2>2, <2>3
    <2>5. e2.cmdtype = "normal" /\ e2.param = n
      BY <1>2, <2>1
    <2> QED
      BY <2>2, <2>4, <2>5 DEF TrueOf
  <1> QED
    BY <1>1, <1>2

\* cd, and hashcd.
LEMMA CdStep ==
  ASSUME ShellInv, NEW d \in Dirs, Cd(d)
  PROVE  ShellInv' /\ Led
  <1>1. PICK x : x = [St EXCEPT !.cwd = d]
    OBVIOUS
  <1>2. PICK r : r = HashCd(x)
    OBVIOUS
  <1>3. Caught(r)
    BY <1>1, <1>2 DEF Cd
  <1>4. Good(St) /\ St \in Shells
    BY DEF ShellInv, Good
  <1>5. /\ x \in Shells /\ x.vartab = St.vartab /\ x.texts = St.texts /\ x.frames = St.frames
        /\ x.funcs = St.funcs /\ x.cmdtable = St.cmdtable /\ x.builtinloc = St.builtinloc
    BY ONLY <1>1, <1>4, d \in Dirs DEF Shells
  <1> DEFINE Doubted(c) == \/ x.cmdtable[c].cmdtype = "normal"
                           \/ x.cmdtable[c].cmdtype = "builtin" /\ x.builtinloc >= 0
  <1> DEFINE ct == [c \in Commands |-> IF Doubted(c) THEN [x.cmdtable[c] EXCEPT !.rehash = TRUE]
                                       ELSE x.cmdtable[c]]
  <1>6. r = [x EXCEPT !.cmdtable = ct]
    BY <1>2 DEF HashCd
  <1>7. x.cmdtable \in [Commands -> Entries]
    BY <1>5, ShellTypes
  <1>8. \A c \in Commands : /\ [x.cmdtable[c] EXCEPT !.rehash = TRUE] \in Entries
                            /\ [x.cmdtable[c] EXCEPT !.rehash = TRUE].cmdtype = x.cmdtable[c].cmdtype
                            /\ [x.cmdtable[c] EXCEPT !.rehash = TRUE].param = x.cmdtable[c].param
                            /\ [x.cmdtable[c] EXCEPT !.rehash = TRUE].rehash = TRUE
    BY <1>7 DEF Entries
  <1>9. ct \in [Commands -> Entries]
    <2> HIDE DEF Doubted
    <2> QED
      BY <1>7, <1>8
  <1>10. Fewer(x.cmdtable, ct)
    BY <1>8 DEF Fewer, IsFunction
  <1>11. \A c \in Commands : /\ ct[c].cmdtype = x.cmdtable[c].cmdtype
                             /\ ct[c].param = x.cmdtable[c].param
                             /\ x.cmdtable[c].cmdtype = "normal" => ct[c].rehash
    BY <1>8
  <1> HIDE DEF ct
  <1>12. /\ r \in Shells /\ r.vartab = x.vartab /\ r.texts = x.texts /\ r.frames = x.frames
         /\ r.funcs = x.funcs /\ r.cmdtable = ct /\ r.builtinloc = x.builtinloc
    BY ONLY <1>5, <1>6, <1>9 DEF Shells
  <1>13. ASSUME Remembered(St) PROVE Remembered(r)
    <2>1. PICK path : path = PathVal(St)
      OBVIOUS
    <2>2. /\ path \in Texts /\ St.builtinloc = BuiltinPos(path)
          /\ \A c \in Commands : TrueOf(St, x.cmdtable[c], c, path)
      BY <1>5, <1>13, <2>1 DEF Remembered, Recalls
    <2>3. PathVal(r) = path /\ r.builtinloc = BuiltinPos(path) /\ r.cmdtable = ct
      BY <1>5, <1>12, <2>1, <2>2 DEF PathVal
    <2>4. ASSUME NEW c \in Commands PROVE TrueOf(r, ct[c], c, path)
      <3>1. x.cmdtable[c] \in Entries /\ ct[c] \in Entries
        BY <1>7, <1>9
      <3>2. TrueOf(St, x.cmdtable[c], c, path)
        BY <2>2
      <3> QED
        BY ONLY <1>11, <3>1, <3>2, c \in Commands, DoubtedTrue
    <2> QED
      BY <2>2, <2>3, <2>4 DEF Remembered, Recalls
  <1>14. Good(r)
    BY ONLY <1>4, <1>5, <1>10, <1>12, <1>13, GoodTable
  <1>15. Shown(St, r)
    BY <1>5, <1>12, ShownSame
  <1> QED
    BY <1>3, <1>14, <1>15, CaughtGood

\* hash -r.
LEMMA HashResetStep ==
  ASSUME ShellInv, HashReset
  PROVE  ShellInv' /\ Led
  <1>1. PICK r : r = ClearCmdEntry(St, 0)
    OBVIOUS
  <1>2. Caught(r)
    BY <1>1 DEF HashReset
  <1>3. Good(St) /\ St \in Shells
    BY DEF ShellInv, Good
  <1>4. PICK ct \in [Commands -> Entries] :
          /\ r = [St EXCEPT !.cmdtable = ct]
          /\ \A c \in Commands : \/ ct[c] = St.cmdtable[c]
                                 \/ ~IsFunction(ct, c) /\ ~IsFunction(St.cmdtable, c)
          /\ \A c \in Commands : ct[c] = NoEntry \/ ct[c] = St.cmdtable[c]
    BY ONLY <1>1, <1>3, ClearRight DEF IsFunction
  <1>5. /\ r \in Shells /\ r.vartab = St.vartab /\ r.texts = St.texts /\ r.frames = St.frames
        /\ r.funcs = St.funcs /\ r.cmdtable = ct /\ r.aflag = St.aflag /\ r.cwd = St.cwd
        /\ r.builtinloc = St.builtinloc /\ r.err = St.err
    BY ONLY <1>3, <1>4, ct \in [Commands -> Entries] DEF Shells
  <1>6. Fewer(St.cmdtable, ct)
    BY <1>4 DEF Fewer, IsFunction
  <1>7. Remembered(St) => Remembered(r)
    <2>1. SameVars(St, r)
      BY <1>5 DEF SameVars
    <2>2. \A c \in Commands : \/ r.cmdtable[c] = St.cmdtable[c]
                              \/ TrueOf(St, r.cmdtable[c], c, PathVal(St))
      BY <1>4, <1>5, NoEntryTrue
    <2> QED
      BY ONLY <2>1, <2>2, RememberedChanged
  <1>8. Good(r)
    BY ONLY <1>3, <1>5, <1>6, <1>7, GoodTable
  <1>9. Shown(St, r)
    BY <1>5, ShownSame
  <1> QED
    BY <1>2, <1>8, <1>9, CaughtGood

\* hash with a name.
LEMMA HashNameStep ==
  ASSUME ShellInv, NEW c \in Commands, HashName(c)
  PROVE  ShellInv' /\ Led
  <1>1. PICK alt \in Optional(Paths), g \in Garbage :
          Caught(IF alt = {} THEN Rehash(St, c, g) ELSE HashedUnder(St, c, alt, g))
    BY DEF HashName, HashedUnder, Entered, WithCall
  <1>2. Good(St)
    BY DEF ShellInv
  <1>3. CASE alt = {}
    <2>1. PICK r : r = Rehash(St, c, g)
      OBVIOUS
    <2>2. Caught(r)
      BY <1>1, <1>3, <2>1
    <2>3. Searched(St, c, r)
      BY ONLY <1>2, <2>1, c \in Commands, g \in Garbage, RehashRight
    <2>4. Good(r)
      BY ONLY <1>2, <2>3, GoodSearched
    <2>5. Shown(St, r)
      BY <2>3, ShownSame DEF Searched, SameVars
    <2> QED
      BY <2>2, <2>4, <2>5, CaughtGood
  <1>4. CASE alt # {}
    <2>1. PICK r : r = HashedUnder(St, c, alt, g)
      OBVIOUS
    <2>2. Caught(r)
      BY <1>1, <1>4, <2>1
    <2>3. Can(St, MaxLocals + 2)
      BY <2>2, Found0 DEF Caught
    <2>4. alt \in SUBSET Texts
      BY DEF Optional, Texts
    <2>5. Good(r) /\ Shown(St, r)
      BY ONLY <2>1, <2>3, <2>4, c \in Commands, g \in Garbage, HashedUnderRight
    <2> QED
      BY <2>2, <2>5, CaughtGood
  <1> QED
    BY <1>3, <1>4

-----------------------------------------------------------------------------
(* The invariant.                                                          *)

MostChanges == Max({MaxChanges, MaxPathChanges})

\* The inductive invariant: a good shell, and the bounds of the behaviour.
CommandsInv == ShellInv /\ focus \in Vars /\ changes \in 0..MostChanges

\* No command has run: PATH is the only variable, and nothing has been saved.
LEMMA InitGood ==
  ASSUME Init
  PROVE  ShellInv
  <1>1. PICK p \in Paths :
          /\ vartab = [v \in Vars |-> IF v = "PATH"
                                      THEN [text |-> 1, flags |-> {"VSTRFIXED", "VEXPORT"}] ELSE NoVar]
          /\ texts = [t \in TextIds |-> IF t = 1 THEN p ELSE Free]
          /\ builtinloc = BuiltinPos(p)
    BY DEF Init
  <1>2. /\ frames = <<[func |-> 0, localvars |-> << >>]>> /\ aflag = FALSE /\ raising = FALSE
        /\ cmdtable = [c \in Commands |-> NoEntry] /\ funcs = [f \in FuncIds |-> 0] /\ cwd \in Dirs
    BY DEF Init
  <1>3. p \in Texts /\ p \in Contents /\ p \notin {Free, Freed} /\ 1 \in TextIds /\ Free \in Contents
    BY TextsUsable DEF Texts, TextIds, Contents
  <1>4. /\ [text |-> 1, flags |-> {"VSTRFIXED", "VEXPORT"}] \in Variables /\ NoVar \in Variables
        /\ NoEntry \in Entries /\ NoEntry.cmdtype = "none"
    BY DEF Variables, NoVar, NoEntry, Entries, Flags, CmdTypes
  <1>5. PICK call \in Calls : call = [func |-> 0, localvars |-> << >>]
    <2>1. << >> \in Seq(Copies) /\ 0 \in 0..MaxFuncs
      OBVIOUS
    <2>2. [func |-> 0, localvars |-> << >>] \in Calls
      BY ONLY <2>1 DEF Calls
    <2> QED
      BY ONLY <2>2
  <1>6. /\ frames \in Seq(Calls) /\ Len(frames) = 1 /\ frames[1].localvars = <<>>
        /\ frames[1].func = 0 /\ frames # <<>>
    BY ONLY <1>2, <1>5
  <1>7. St \in Shells
    <2>1. /\ vartab \in [Vars -> Variables] /\ texts \in [TextIds -> Contents]
          /\ cmdtable \in [Commands -> Entries] /\ funcs \in [FuncIds -> Nat]
      BY <1>1, <1>2, <1>3, <1>4
    <2>2. builtinloc \in Nat \cup {-1}
      BY <1>1, <1>3, BuiltinPosType
    <2>3. aflag \in BOOLEAN /\ FALSE \in BOOLEAN
      BY <1>2
    <2> QED
      BY ONLY <1>2, <1>4, <1>6, <2>1, <2>2, <2>3 DEF Shells, St
  <1>8. \A i, j, c : ~Has(frames, i, j, c)
    BY ONLY <1>6 DEF Has
  <1>9. Owned(vartab, texts, frames)
    <2>1. \A v \in Vars : /\ vartab[v].text = IF v = "PATH" THEN 1 ELSE 0
                          /\ v = "PATH" => vartab[v].flags = {"VSTRFIXED", "VEXPORT"}
      BY <1>1 DEF NoVar
    <2>2. texts[1] = p
      BY <1>1, <1>3
    <2>3. \A v \in Vars : Alive(texts, vartab[v].text)
      BY <1>3, <2>1, <2>2 DEF Alive
    <2>4. \A v, w \in Vars : vartab[v].text # 0 /\ vartab[v].text = vartab[w].text => v = w
      BY ONLY <2>1
    <2>5. Kept(vartab["PATH"])
      BY <2>1 DEF Kept
    <2> QED
      BY ONLY <1>8, <2>3, <2>4, <2>5 DEF Owned
  <1>10. Bodies(cmdtable, funcs, frames)
    <2>1. \A c \in Commands : ~IsFunction(cmdtable, c)
      BY <1>2, <1>4 DEF IsFunction
    <2>2. ASSUME NEW f \in FuncIds PROVE funcs[f] >= Cardinality(Runs(frames, f))
      <3>1. Runs(frames, f) = {}
        BY <1>6 DEF Runs, FuncIds
      <3>2. Cardinality(Runs(frames, f)) = 0
        BY ONLY <3>1, FS_EmptySet
      <3>3. funcs[f] = 0
        BY <1>2
      <3> QED
        BY ONLY <3>2, <3>3
    <2> QED
      BY ONLY <2>1, <2>2 DEF Bodies
  <1>11. Lens(frames)
    BY <1>6 DEF Lens
  <1>12. Remembered(St)
    <2>1. vartab["PATH"].text = 1 /\ texts[1] = p
      BY <1>1, <1>3
    <2>2. PathVal(St) = p
      BY <2>1, StFields DEF PathVal
    <2>3. St.builtinloc = BuiltinPos(p) /\ \A c \in Commands : St.cmdtable[c] = NoEntry
      BY <1>1, <1>2, StFields
    <2> QED
      BY <1>3, <2>2, <2>3, NoEntryTrue DEF Remembered, Recalls
  <1> QED
    BY <1>2, <1>6, <1>7, <1>9, <1>10, <1>11, <1>12, StFields DEF ShellInv, Good

\* Both bounds are below the greater one.
LEMMA MostChangesType ==
  MostChanges \in Nat /\ MaxChanges <= MostChanges /\ MaxPathChanges <= MostChanges
  BY MaxPair DEF MostChanges

\* A behaviour counts its changes up to its bound.
LEMMA CountedStays ==
  ASSUME changes \in 0..MostChanges, Counted
  PROVE  changes' \in 0..MostChanges
  <1>1. changes < MaxPathChanges \/ changes < MaxChanges
    BY DEF Counted
  <1>2. changes' = changes + 1
    BY DEF Counted
  <1> QED
    BY <1>1, <1>2, MostChangesType

\* What Good says is said of the same variables.
LEMMA ShellInvSame ==
  ASSUME ShellInv, UNCHANGED vars
  PROVE  ShellInv'
  <1>1. St' = St
    BY DEF St, vars
  <1>2. raising' = raising /\ frames' = frames
    BY DEF vars
  <1> QED
    BY <1>1, <1>2 DEF ShellInv, Good

\* Every step leads from a good shell to one, and is a step of ShellScopes.
LEMMA NextStep ==
  ASSUME ShellInv, focus \in Vars, Next
  PROVE  ShellInv' /\ Led
  <1>1. CASE /\ \/ Assign(focus) \/ Export(focus) \/ Unset(focus) \/ Local(focus)
                \/ SetOption \/ LocalOptions
             /\ UNCHANGED focus
    BY <1>1, AssignStep, ExportStep, UnsetStep, LocalStep, SetOptionStep, LocalOptionsStep
  <1>2. CASE /\ \/ \E c \in Defined : DefineFunction(c) \/ UndefineFunction(c)
                \/ \E c \in Commands : (focus = "PATH" \/ c \in Defined) /\ Run(c)
                \/ \E c \in Commands : focus = "PATH" /\ HashName(c)
                \/ \E d \in Dirs : focus = "PATH" /\ Cd(d)
                \/ focus = "PATH" /\ HashReset
                \/ Return \/ Fail \/ Unwind
             /\ UNCHANGED <<focus, changes>>
    <2>1. ASSUME NEW c \in Defined, DefineFunction(c) \/ UndefineFunction(c)
          PROVE  ShellInv' /\ Led
      <3>1. c \in Commands
        OBVIOUS
      <3> QED
        BY <2>1, <3>1, DefineStep, UndefineStep
    <2>2. ASSUME NEW c \in Commands, Run(c) \/ HashName(c) PROVE ShellInv' /\ Led
      BY <2>2, RunStep, HashNameStep
    <2>3. ASSUME NEW d \in Dirs, Cd(d) PROVE ShellInv' /\ Led
      BY <2>3, CdStep
    <2>4. ASSUME HashReset \/ Return \/ Fail \/ Unwind PROVE ShellInv' /\ Led
      BY <2>4, HashResetStep, ReturnStep, FailStep, UnwindStep
    <2> QED
      BY <1>2, <2>1, <2>2, <2>3, <2>4
  <1> QED
    BY <1>1, <1>2 DEF Next

\* The invariant holds in the beginning, and every step keeps it.
LEMMA InvHolds == Spec => []CommandsInv
  <1>1. Init => CommandsInv
    <2> SUFFICES ASSUME Init PROVE CommandsInv
      OBVIOUS
    <2>1. focus \in Vars /\ changes = 0
      BY DEF Init
    <2> QED
      BY <2>1, InitGood, MostChangesType DEF CommandsInv
  <1>2. CommandsInv /\ [Next]_vars => CommandsInv'
    <2> SUFFICES ASSUME CommandsInv, [Next]_vars PROVE CommandsInv'
      OBVIOUS
    <2>1. ShellInv /\ focus \in Vars /\ changes \in 0..MostChanges
      BY DEF CommandsInv
    <2>2. CASE UNCHANGED vars
      <3>1. ShellInv' /\ focus' = focus /\ changes' = changes
        BY <2>1, <2>2, ShellInvSame DEF vars
      <3> QED
        BY <2>1, <3>1 DEF CommandsInv
    <2>3. CASE Next
      <3>1. ShellInv'
        BY <2>1, <2>3, NextStep
      <3>2. changes' \in 0..MostChanges
        <4>1. Counted \/ UNCHANGED changes
          BY <2>3 DEF Next, Assign, Export, Unset, Local, SetOption, LocalOptions
        <4> QED
          BY <2>1, <4>1, CountedStays
      <3>3. focus' \in Vars
        BY <2>1, <2>3 DEF Next
      <3> QED
        BY <3>1, <3>2, <3>3 DEF CommandsInv
    <2> QED
      BY <2>2, <2>3
  <1> QED
    BY <1>1, <1>2, PTL DEF Spec

-----------------------------------------------------------------------------
(* What follows from the invariant.                                        *)

\* The invariant gives every variable of the model its type.
LEMMA InvTypes ==
  ASSUME CommandsInv
  PROVE  TypeOK
  <1>1. St \in Shells /\ raising \in BOOLEAN /\ focus \in Vars /\ changes \in 0..MostChanges
    BY DEF CommandsInv, ShellInv, Good
  <1>2. /\ vartab \in [Vars -> Variables] /\ texts \in [TextIds -> Contents]
        /\ frames \in Seq(Calls) /\ aflag \in BOOLEAN
        /\ cmdtable \in [Commands -> Entries] /\ builtinloc \in Nat \cup {-1}
        /\ funcs \in [FuncIds -> Nat] /\ cwd \in Dirs
    BY <1>1, ShellTypes, StFields
  <1>3. 0..MaxTexts = TextIds \cup {0} /\ 0..MaxFuncs = FuncIds \cup {0}
    BY DEF TextIds, FuncIds
  <1>4. /\ Variables = [text : TextIds \cup {0}, flags : SUBSET Flags]
        /\ Copies = [var : Vars \cup {"-"}, text : TextIds \cup {0}, flags : SUBSET Flags,
                     aflag : BOOLEAN]
    BY ONLY <1>3 DEF Variables, Copies
  <1>5. ASSUME NEW i \in DOMAIN frames
        PROVE  frames[i].func \in FuncIds \cup {0} /\ frames[i].localvars \in Seq(Copies)
    <2>1. frames[i] \in Calls
      BY <1>2
    <2> QED
      BY <1>3, <2>1 DEF Calls
  <1> QED
    BY <1>1, <1>2, <1>4, <1>5 DEF TypeOK, Contents, Entries, MostChanges

\* The invariant leaves nothing that points to what has been freed.
LEMMA InvDangling ==
  ASSUME CommandsInv
  PROVE  NothingDangling
  <1>1. /\ Owned(vartab, texts, frames) /\ Bodies(cmdtable, funcs, frames)
        /\ frames \in Seq(Calls) /\ funcs \in [FuncIds -> Nat]
    <2>1. Good(St)
      BY DEF CommandsInv, ShellInv
    <2>2. Owned(St.vartab, St.texts, St.frames) /\ Bodies(St.cmdtable, St.funcs, St.frames)
      BY <2>1 DEF Good
    <2>3. St.frames \in Seq(Calls) /\ St.funcs \in [FuncIds -> Nat]
      BY <2>1, GoodTypes, ShellTypes
    <2> QED
      BY ONLY <2>2, <2>3, StFields
  <1>2. \A i \in DOMAIN frames : \A j \in DOMAIN frames[i].localvars :
          Has(frames, i, j, frames[i].localvars[j])
    BY <1>1, LocalvarsTypes DEF Has
  <1>3. ASSUME NEW t \in TextsInUse(St) \ {0}
        PROVE  texts[t] \notin {Free, Freed}
    <2>1. CASE \E v \in Vars : t = vartab[v].text
      BY <1>1, <2>1 DEF Owned, Alive
    <2>2. CASE \E i \in DOMAIN frames : \E lvp \in Range(frames[i].localvars) : t = lvp.text
      <3>1. PICK i \in DOMAIN frames : \E j \in DOMAIN frames[i].localvars :
                                         t = frames[i].localvars[j].text
        BY <2>2 DEF Range
      <3>2. PICK j : Has(frames, i, j, frames[i].localvars[j]) /\ t = frames[i].localvars[j].text
        BY <1>2, <3>1
      <3> QED
        BY <1>1, <3>2 DEF Owned, Alive
    <2>3. t \in {vartab[v].text : v \in Vars} \cup
               UNION {{lvp.text : lvp \in Range(frames[i].localvars)} : i \in DOMAIN frames}
      BY StFields DEF TextsInUse
    <2> QED
      BY <2>1, <2>2, <2>3
  <1>4. ASSUME NEW f \in FuncsInUse(St) \ {0}
        PROVE  funcs[f] > 0
    <2>1. CASE \E c \in Commands : IsFunction(cmdtable, c) /\ f = cmdtable[c].param
      <3>1. PICK c \in Commands : IsFunction(cmdtable, c) /\ f = cmdtable[c].param
        BY <2>1
      <3>2. f \in FuncIds /\ funcs[f] >= Cardinality(Runs(frames, f)) + 1
        BY <1>1, <3>1 DEF Bodies
      <3> QED
        BY <1>1, <3>2, RunsCounted
    <2>2. CASE \E i \in DOMAIN frames : f = frames[i].func
      <3>1. PICK i \in 1..Len(frames) : f = frames[i].func
        BY <1>1, <2>2
      <3>2. f \in FuncIds
        <4>1. frames[i] \in Calls
          BY <1>1
        <4>2. f \in 0..MaxFuncs
          BY <3>1, <4>1 DEF Calls
        <4> QED
          BY <4>2 DEF FuncIds
      <3>3. i \in Runs(frames, f)
        BY <3>1 DEF Runs
      <3>4. Cardinality(Runs(frames, f)) # 0
        BY <1>1, <3>3, RunsCounted, FS_EmptySet
      <3>5. funcs[f] >= Cardinality(Runs(frames, f))
        BY <1>1, <3>2 DEF Bodies
      <3> QED
        BY <1>1, <3>2, <3>4, <3>5, RunsCounted
    <2>3. f \in {cmdtable[c].param : c \in {c \in Commands : cmdtable[c].cmdtype = "function"}}
                  \cup {frames[i].func : i \in DOMAIN frames}
      BY StFields DEF FuncsInUse
    <2> QED
      BY <2>1, <2>2, <2>3 DEF IsFunction
  <1>5. ASSUME NEW v \in Vars, NEW i \in DOMAIN frames, NEW j \in DOMAIN frames[i].localvars,
               vartab[v].text # 0, vartab[v].text = frames[i].localvars[j].text
        PROVE  v = frames[i].localvars[j].var /\ "VTEXTFIXED" \in vartab[v].flags
    BY ONLY <1>1, <1>2, <1>5, v \in Vars, i \in DOMAIN frames, j \in DOMAIN frames[i].localvars
       DEF Owned
  <1> QED
    BY <1>3, <1>4, <1>5 DEF NothingDangling

\* A search along a PATH that is not PATH, or from nothing, is one that remembers nothing.
LEMMA FreshIs ==
  ASSUME NEW s, NEW c, NEW path \in Contents, s.cmdtable[c].cmdtype # "function", NEW at,
         FirstHit(s, c, path, at)
  PROVE  Fresh(s, c, path) =
           IF \/ BuiltinPos(path) < 0 /\ c \in Builtins
              \/ at >= 0 /\ Component(path, at) = BuiltinMark
           THEN <<"builtin", 0>>
           ELSE IF at < 0 THEN <<"none", 0>> ELSE <<"normal", at>>
  <1>1. PICK a : a = Found(s, c, path, -1)
    OBVIOUS
  <1>2. FirstHit(s, c, path, a)
    BY <1>1, FoundFresh
  <1>3. a = at
    BY ONLY <1>2, path \in Contents, FirstHit(s, c, path, at), FirstHitOnce
  <1> QED
    BY <1>1, <1>3 DEF Fresh

\* What is remembered is what a search that remembers nothing would find.
LEMMA KnownFresh ==
  ASSUME NEW s \in Shells, NEW c \in Commands, NEW path \in Texts, Recalls(s, path),
         NEW e, e = s.cmdtable[c], e.cmdtype \in {"normal", "builtin"}, ~e.rehash,
         e.cmdtype = "builtin" => s.builtinloc < 0
  PROVE  <<e.cmdtype, e.param>> = Fresh(s, c, path)
  <1>1. path \in Contents /\ s.builtinloc = BuiltinPos(path) /\ TrueOf(s, e, c, path)
    BY TextsUsable DEF Recalls
  <1>2. CASE e.cmdtype = "builtin"
    <2>1. BuiltinPos(path) < 0 /\ c \in Builtins /\ e.param = 0
      BY <1>1, <1>2 DEF TrueOf
    <2>2. FirstHit(s, c, path, Found(s, c, path, -1))
      BY ONLY <1>1, FoundFresh
    <2>3. Fresh(s, c, path) = <<"builtin", 0>>
      BY <1>1, <1>2, <2>1, <2>2, FreshIs
    <2> QED
      BY <1>2, <2>1, <2>3
  <1>3. CASE e.cmdtype = "normal"
    <2>1. PICK at : at = e.param
      OBVIOUS
    <2>2. /\ at \in Positions(path) /\ Component(path, at) # BuiltinMark
          /\ BuiltinPos(path) < 0 => c \notin Builtins
          /\ FirstHit(s, c, path, at)
      BY <1>1, <1>3, <2>1 DEF TrueOf, Doubtful, FirstHit
    <2>3. at \in Nat
      BY <1>1, <2>2, PositionsRight
    <2>4. ~(at < 0)
      BY ONLY <2>3
    <2>5. Fresh(s, c, path) = <<"normal", at>>
      BY <1>1, <1>3, <2>2, <2>4, FreshIs
    <2> QED
      BY <1>3, <2>1, <2>5
  <1> QED
    BY <1>2, <1>3

\* Where the table is right, find_command finds what a search that remembers nothing would.
LEMMA LookupFresh ==
  ASSUME NEW s \in Shells, NEW c \in Commands, NEW path \in Texts, NEW alt \in BOOLEAN,
         Remembered(s), ~alt => path = PathVal(s), ~IsFunction(s.cmdtable, c),
         NEW r, r = FindCommand(s, c, path, alt, FALSE, -1)
  PROVE  <<r.entry.cmdtype, r.entry.param>> = Fresh(s, c, path)
  <1>1. s.cmdtable \in [Commands -> Entries] /\ s.builtinloc \in Nat \cup {-1}
    BY ShellTypes
  <1>2. PICK known \in Entries : known = s.cmdtable[c]
    BY <1>1
  <1>3. /\ path \in Contents /\ known.cmdtype # "function" /\ known.cmdtype \in CmdTypes
        /\ BuiltinPos(path) \in Nat \cup {-1}
    BY <1>2, TextsUsable, BuiltinPosType DEF IsFunction, Entries
  <1> DEFINE pathbltin == IF alt THEN BuiltinPos(path) >= 0 ELSE s.builtinloc >= 0
             usable == /\ known.cmdtype # "none"
                       /\ known.cmdtype = "normal" => ~alt
                       /\ known.cmdtype = "function" => ~FALSE
                       /\ known.cmdtype = "builtin" => ~(alt /\ pathbltin) /\ s.builtinloc < 0
             prev == IF ~usable THEN -1
                     ELSE CASE known.cmdtype = "builtin" -> s.builtinloc
                            [] known.cmdtype = "function" -> -1
                            [] OTHER -> known.param
             at == Found(s, c, path, prev)
             isbltin == \/ ~pathbltin /\ c \in Builtins
                        \/ at >= 0 /\ Component(path, at) = BuiltinMark
             Builtin == [known EXCEPT !.cmdtype = "builtin", !.param = 0, !.rehash = FALSE]
             Program == [known EXCEPT !.cmdtype = "normal", !.param = at, !.rehash = FALSE]
             Same == [known EXCEPT !.rehash = FALSE]
  <1>4. r = IF usable /\ ~known.rehash THEN [s EXCEPT !.entry = known]
            ELSE CASE isbltin -> IF alt \/ known.cmdtype = "function"
                                 THEN [s EXCEPT !.entry = Builtin] ELSE Noted(s, c, Builtin)
                   [] ~isbltin /\ at < 0 ->
                        [(IF usable THEN DeleteEntry(s, c) ELSE s) EXCEPT !.entry = NoEntry]
                   [] ~isbltin /\ at >= 0 /\ at = prev /\ Component(path, at) # Here ->
                        Noted(s, c, Same)
                   [] OTHER -> IF alt THEN [s EXCEPT !.entry = Program]
                               ELSE Noted(s, c, Program)
    BY <1>2, SMTT(60) DEF FindCommand, Noted
  <1>5. at \in Nat \cup {-1}
    BY <1>3, FoundType
  <1>6. \A e \in Entries : [s EXCEPT !.entry = e].entry = e /\ Noted(s, c, e).entry = e
    BY EntrySet, NotedRight
  <1> HIDE DEF pathbltin, usable, prev, at, isbltin
  <1>7. at = Found(s, c, path, prev)
    BY DEF at
  <1>8. pathbltin <=> BuiltinPos(path) >= 0
    BY DEF pathbltin, Remembered, Recalls
  <1>9. ~alt => Recalls(s, path)
    BY DEF Remembered
  <1>10. /\ known.cmdtype = "builtin" => c \in Builtins /\ known.param = 0
         /\ ~alt => TrueOf(s, known, c, path)
    BY <1>2, <1>9 DEF Remembered, Recalls, TrueOf
  <1>11. known.cmdtype \in {"none", "normal", "builtin"}
    BY <1>3 DEF CmdTypes
  <1>12. CASE usable /\ ~known.rehash
    <2>1. r.entry = known
      BY <1>4, <1>6, <1>12
    <2>2. CASE ~alt
      <3>1. known.cmdtype \in {"normal", "builtin"} /\ (known.cmdtype = "builtin" => s.builtinloc < 0)
        BY <1>11, <1>12 DEF usable
      <3> QED
        BY <1>2, <1>9, <1>12, <2>1, <2>2, <3>1, KnownFresh
    <2>3. CASE alt
      <3>1. known.cmdtype = "builtin" /\ ~pathbltin
        BY <1>11, <1>12, <2>3 DEF usable
      <3>2. BuiltinPos(path) < 0 /\ c \in Builtins /\ known.param = 0
        BY <1>3, <1>8, <1>10, <3>1
      <3>3. FirstHit(s, c, path, Found(s, c, path, -1))
        BY ONLY <1>3, FoundFresh
      <3>4. Fresh(s, c, path) = <<"builtin", 0>>
        BY <1>2, <1>3, <3>2, <3>3, FreshIs
      <3> QED
        BY <2>1, <3>1, <3>2, <3>4
    <2> QED
      BY <2>2, <2>3
  <1>13. usable /\ known.cmdtype = "builtin" => prev = -1
    <2>1. usable /\ known.cmdtype = "builtin" => s.builtinloc < 0 /\ prev = s.builtinloc
      BY DEF usable, prev
    <2> QED
      BY ONLY <1>1, <2>1
  <1>14. FirstHit(s, c, path, at)
    <2>1. CASE prev = -1
      <3>1. at = Found(s, c, path, -1)
        BY <1>7, <2>1
      <3> QED
        BY ONLY <1>3, <3>1, FoundFresh
    <2>2. CASE usable /\ known.cmdtype = "normal"
      <3>1. at = Found(s, c, path, known.param)
        BY <1>7, <2>2 DEF prev
      <3>2. TrueOf(s, known, c, path)
        BY <1>10, <2>2 DEF usable
      <3> QED
        BY ONLY <1>3, <2>2, <3>1, <3>2, FoundAgain
    <2>3. prev = -1 \/ (usable /\ known.cmdtype = "normal")
      <3>1. ~usable => prev = -1
        BY DEF prev
      <3>2. usable => known.cmdtype # "none"
        BY DEF usable
      <3> QED
        BY ONLY <1>11, <1>13, <3>1, <3>2
    <2> QED
      BY <2>1, <2>2, <2>3
  <1>15. Fresh(s, c, path) =
           IF isbltin THEN <<"builtin", 0>>
           ELSE IF at < 0 THEN <<"none", 0>> ELSE <<"normal", at>>
    <2>1. Fresh(s, c, path) =
            IF \/ BuiltinPos(path) < 0 /\ c \in Builtins
               \/ at >= 0 /\ Component(path, at) = BuiltinMark
            THEN <<"builtin", 0>>
            ELSE IF at < 0 THEN <<"none", 0>> ELSE <<"normal", at>>
      BY <1>2, <1>3, <1>14, FreshIs
    <2>2. BuiltinPos(path) < 0 <=> ~pathbltin
      BY ONLY <1>3, <1>8
    <2> QED
      BY <2>1, <2>2 DEF isbltin
  <1>16. CASE ~(usable /\ ~known.rehash) /\ isbltin
    <2>1. Builtin \in Entries /\ Builtin.cmdtype = "builtin" /\ Builtin.param = 0
      <3>1. "builtin" \in CmdTypes /\ 0 \in Nat
        BY DEF CmdTypes
      <3> QED
        BY ONLY <3>1, known \in Entries DEF Entries
    <2>2. r = [s EXCEPT !.entry = Builtin] \/ r = Noted(s, c, Builtin)
      BY <1>4, <1>16
    <2> HIDE DEF Builtin
    <2>3. r.entry = Builtin
      BY <1>6, <2>1, <2>2
    <2> QED
      BY <1>15, <1>16, <2>1, <2>3
  <1>17. CASE ~(usable /\ ~known.rehash) /\ ~isbltin /\ at < 0
    <2>1. PICK x : x = IF usable THEN DeleteEntry(s, c) ELSE s
      OBVIOUS
    <2>2. r = [x EXCEPT !.entry = NoEntry]
      BY ONLY <1>4, <1>5, <1>17, <2>1
    <2>3. x \in Shells
      BY <2>1, DeleteEntryRight
    <2>4. NoEntry \in Entries /\ NoEntry.cmdtype = "none" /\ NoEntry.param = 0
      BY DEF NoEntry, Entries, CmdTypes
    <2>5. r.entry = NoEntry
      BY ONLY <2>2, <2>3, <2>4, EntrySet
    <2> QED
      BY <1>15, <1>17, <2>4, <2>5
  <1>18. CASE /\ ~(usable /\ ~known.rehash) /\ ~isbltin
              /\ at >= 0 /\ at = prev /\ Component(path, at) # Here
    <2>1. /\ Same \in Entries /\ Same.cmdtype = known.cmdtype /\ Same.param = known.param
      BY ONLY known \in Entries DEF Entries
    <2>2. r = Noted(s, c, Same)
      BY ONLY <1>4, <1>5, <1>18
    <2> HIDE DEF Same
    <2>3. r.entry = Same
      BY <1>6, <2>1, <2>2
    <2>4. prev # -1 /\ ~(at < 0)
      BY ONLY <1>5, <1>18
    <2>5. usable /\ known.cmdtype = "normal"
      <3>1. usable /\ known.cmdtype # "none"
        BY <2>4 DEF prev, usable
      <3> QED
        BY ONLY <1>11, <1>13, <2>4, <3>1
    <2>6. at = known.param
      BY <1>18, <2>5 DEF prev
    <2> QED
      BY <1>15, <1>18, <2>1, <2>3, <2>4, <2>5, <2>6
  <1>19. CASE /\ ~(usable /\ ~known.rehash) /\ ~isbltin
              /\ at >= 0 /\ ~(at = prev /\ Component(path, at) # Here)
    <2>1. Program \in Entries /\ Program.cmdtype = "normal" /\ Program.param = at
      <3>1. "normal" \in CmdTypes /\ at \in Nat
        BY <1>5, <1>19 DEF CmdTypes
      <3> QED
        BY ONLY <3>1, known \in Entries DEF Entries
    <2>2. r = [s EXCEPT !.entry = Program] \/ r = Noted(s, c, Program)
      BY ONLY <1>4, <1>5, <1>19
    <2> HIDE DEF Program
    <2>3. r.entry = Program
      BY <1>6, <2>1, <2>2
    <2>4. ~(at < 0)
      BY ONLY <1>5, <1>19
    <2> QED
      BY <1>15, <1>19, <2>1, <2>3, <2>4
  <1>20. at < 0 \/ at >= 0
    BY <1>5
  <1> QED
    BY <1>12, <1>16, <1>17, <1>18, <1>19, <1>20

\* The invariant makes every search right.
LEMMA InvHashed ==
  ASSUME GarbageHarmless, CommandsInv
  PROVE  HashedRight
  <1>1. Good(St) /\ Remembered(St) /\ St \in Shells /\ St.cmdtable = cmdtable
    BY StFields DEF CommandsInv, ShellInv, Good
  <1>2. \A c \in Commands : cmdtable[c].cmdtype # "function" =>
          \A alt \in Optional(Paths) :
            <<Lookup(c, FALSE, alt, -1).entry.cmdtype, Lookup(c, FALSE, alt, -1).entry.param>>
            = Fresh(St, c, IF alt = {} THEN PathVal(St) ELSE CHOOSE p \in alt : TRUE)
    <2> SUFFICES ASSUME NEW c \in Commands, cmdtable[c].cmdtype # "function",
                        NEW alt \in Optional(Paths)
                 PROVE  <<Lookup(c, FALSE, alt, -1).entry.cmdtype,
                          Lookup(c, FALSE, alt, -1).entry.param>>
                        = Fresh(St, c, IF alt = {} THEN PathVal(St) ELSE CHOOSE p \in alt : TRUE)
      OBVIOUS
    <2>1. PICK e : e = Lookup(c, FALSE, alt, -1).entry
      OBVIOUS
    <2>2. PICK path : path = IF alt = {} THEN PathVal(St) ELSE CHOOSE p \in alt : TRUE
      OBVIOUS
    <2>3. ~IsFunction(St.cmdtable, c)
      BY <1>1 DEF IsFunction
    <2>4. path \in Texts
      <3>1. CASE alt = {}
        BY <1>1, <2>2, <3>1 DEF Remembered, Recalls
      <3>2. CASE alt # {}
        <4>1. path \in alt
          BY <2>2, <3>2
        <4> QED
          BY <4>1 DEF Optional, Texts
      <3> QED
        BY <3>1, <3>2
    <2>5. PICK given \in BOOLEAN : given <=> alt # {}
      OBVIOUS
    <2>6. PICK r : r = FindCommand(St, c, path, given, FALSE, -1)
      OBVIOUS
    <2>7. ~given => path = PathVal(St)
      BY <2>2, <2>5
    <2>8. <<r.entry.cmdtype, r.entry.param>> = Fresh(St, c, path)
      BY ONLY <1>1, <2>3, <2>4, <2>6, <2>7, c \in Commands, given \in BOOLEAN, LookupFresh
    <2>9. e = r.entry
      <3>1. CASE alt = {}
        <4>1. given = FALSE
          BY <2>5, <3>1
        <4> QED
          BY <2>1, <2>2, <2>6, <3>1, <4>1 DEF Lookup
      <3>2. CASE alt # {}
        <4>1. given = TRUE
          BY <2>5, <3>2
        <4> QED
          BY <2>1, <2>2, <2>6, <3>2, <4>1 DEF Lookup
      <3> QED
        BY <3>1, <3>2
    <2>10. <<e.cmdtype, e.param>> = Fresh(St, c, path)
      BY <2>8, <2>9
    <2> QED
      BY <2>1, <2>2, <2>10, Zenon
  <1> QED
    BY <1>2, InvTypes, Zenon DEF HashedRight

\* The types, for every set of variables, values, commands and programs (setvareq,
\* poplocalvars, find_command, evalcommand).
THEOREM TypesRight == Spec => []TypeOK
  BY InvHolds, InvTypes, PTL

\* Whatever is assigned, exported, saved, restored, defined, undefined, called, unwound and
\* forgotten, in whatever order and depth: no variable and no saved copy points to a text that
\* has been freed, none is about to be freed for two owners, and the body of each function
\* that is defined or being run is there (VTEXTFIXED in mklocal and poplocalvars, reffunc in
\* evalcommand).
THEOREM NothingDanglingAlways == Spec => []NothingDangling
  BY InvHolds, InvDangling, PTL

\* However often PATH, the current directory and the functions change, at any depth, for good,
\* for one function or for one command, and whatever hash and unset make the shell forget: a
\* name that is no function is found where a search that remembers nothing would find it
\* (changepath and clearcmdentry, hashcd, and the shortcuts of find_command).  The premise is
\* needed: an entry in doubt stays in doubt when a function gets its place (exec.c:1007), and
\* the next search reads the address of the body as a place on PATH.
THEOREM HashedRightAlways ==
  ASSUME GarbageHarmless
  PROVE  Spec => []HashedRight
  BY InvHolds, InvHashed, PTL

-----------------------------------------------------------------------------
(* AshCommands implements ShellScopes.                                     *)

\* What the copies of a list, and those of each function, say that names were bound to.
ScopeIn(tx, L) ==
  [n \in {c.var : c \in Range(L)} |-> SavedIn(tx, L[Min({j \in DOMAIN L : L[j].var = n})])]
ScopesIn(tx, fr) == [i \in 1..(Len(fr) - 1) |-> ScopeIn(tx, fr[i + 1].localvars)]

\* The first copy of a name decides.
LEMMA ScopeIs ==
  ASSUME NEW tx, NEW L \in Seq(Copies)
  PROVE  /\ \A n \in DOMAIN ScopeIn(tx, L) : \E j : IsFirst(L, 0, n, j)
         /\ \A n, j : IsFirst(L, 0, n, j) =>
              n \in DOMAIN ScopeIn(tx, L) /\ ScopeIn(tx, L)[n] = SavedIn(tx, L[j])
         /\ \A n : n \in DOMAIN ScopeIn(tx, L) <=> \E j \in 1..Len(L) : L[j].var = n
         /\ ScopeIn(tx, L) = [n \in DOMAIN ScopeIn(tx, L) |-> ScopeIn(tx, L)[n]]
  <1> DEFINE At(n) == {j \in DOMAIN L : L[j].var = n}
  <1>1. DOMAIN L = 1..Len(L) /\ Len(L) \in Nat
    OBVIOUS
  <1>2. \A n : n \in {c.var : c \in Range(L)} <=> \E j \in 1..Len(L) : L[j].var = n
    BY <1>1 DEF Range
  <1>3. /\ DOMAIN ScopeIn(tx, L) = {c.var : c \in Range(L)}
        /\ \A n \in {c.var : c \in Range(L)} : ScopeIn(tx, L)[n] = SavedIn(tx, L[Min(At(n))])
    BY DEF ScopeIn
  <1>4. ASSUME NEW n \in {c.var : c \in Range(L)} PROVE IsFirst(L, 0, n, Min(At(n)))
    <2>1. PICK S : S = At(n)
      OBVIOUS
    <2>2. S \subseteq Nat /\ S # {}
      <3>1. PICK j \in 1..Len(L) : L[j].var = n
        BY ONLY <1>2, n \in {c.var : c \in Range(L)}
      <3>2. j \in S
        BY ONLY <1>1, <2>1, <3>1
      <3>3. S \subseteq 1..Len(L)
        BY ONLY <1>1, <2>1
      <3> QED
        BY ONLY <3>2, <3>3
    <2>3. Min(S) \in S /\ \A y \in S : Min(S) <= y
      BY ONLY <2>2, MinIn
    <2>4. \A m \in (0 + 1)..Len(L) : L[m].var = n => m \in S
      BY <1>1, <2>1
    <2>5. Min(S) \in (0 + 1)..Len(L) /\ L[Min(S)].var = n
      BY <1>1, <2>1, <2>3
    <2> HIDE DEF At
    <2> QED
      BY ONLY <2>1, <2>3, <2>4, <2>5 DEF IsFirst
  <1>5. ASSUME NEW n, NEW j, NEW k, IsFirst(L, 0, n, j), IsFirst(L, 0, n, k) PROVE j = k
    BY <1>1, <1>5 DEF IsFirst
  <1>6. ASSUME NEW n, NEW j, IsFirst(L, 0, n, j) PROVE n \in {c.var : c \in Range(L)}
    <2>1. j \in (0 + 1)..Len(L) /\ L[j].var = n
      BY ONLY IsFirst(L, 0, n, j) DEF IsFirst
    <2>2. j \in 1..Len(L)
      BY ONLY <1>1, <2>1
    <2> QED
      BY ONLY <1>2, <2>1, <2>2
  <1>7. ScopeIn(tx, L) = [n \in DOMAIN ScopeIn(tx, L) |-> ScopeIn(tx, L)[n]]
    BY DEF ScopeIn
  <1> HIDE DEF At
  <1>8. ASSUME NEW n, NEW j, IsFirst(L, 0, n, j)
        PROVE  n \in DOMAIN ScopeIn(tx, L) /\ ScopeIn(tx, L)[n] = SavedIn(tx, L[j])
    BY <1>3, <1>4, <1>5, <1>6, <1>8
  <1>9. \A n \in DOMAIN ScopeIn(tx, L) : \E j : IsFirst(L, 0, n, j)
    BY <1>3, <1>4
  <1> QED
    BY ONLY <1>2, <1>3, <1>7, <1>8, <1>9

\* The same texts say the same.
LEMMA ScopeKept ==
  ASSUME NEW L \in Seq(Copies), NEW tx, NEW tx2,
         \A j \in 1..Len(L) : L[j].text # 0 => tx2[L[j].text] = tx[L[j].text]
  PROVE  ScopeIn(tx2, L) = ScopeIn(tx, L)
  <1>1. PICK f, g : f = ScopeIn(tx, L) /\ g = ScopeIn(tx2, L)
    OBVIOUS
  <1>2. DOMAIN f = DOMAIN g
    BY <1>1 DEF ScopeIn
  <1>3. f = [n \in DOMAIN f |-> f[n]] /\ g = [n \in DOMAIN g |-> g[n]]
    BY <1>1, ScopeIs
  <1>4. ASSUME NEW n \in DOMAIN f PROVE f[n] = g[n]
    <2>1. PICK j : IsFirst(L, 0, n, j)
      BY <1>1, ScopeIs
    <2>2. f[n] = SavedIn(tx, L[j]) /\ g[n] = SavedIn(tx2, L[j])
      BY <1>1, <2>1, ScopeIs
    <2>3. j \in 1..Len(L)
      BY <2>1 DEF IsFirst
    <2> QED
      BY <2>2, <2>3 DEF SavedIn, BindingOf
  <1> QED
    BY ONLY <1>1, <1>2, <1>3, <1>4

\* No copy says nothing.
LEMMA ScopeNone ==
  ASSUME NEW tx, NEW x
  PROVE  ScopeIn(tx, <<>>) = [n \in {} |-> x]
  <1>1. PICK f : f = ScopeIn(tx, <<>>)
    OBVIOUS
  <1>2. <<>> \in Seq(Copies) /\ Len(<<>>) = 0
    OBVIOUS
  <1>3. f = [n \in DOMAIN f |-> f[n]]
    BY ONLY <1>1 DEF ScopeIn
  <1>4. \A n : n \in DOMAIN f <=> \E j \in 1..Len(<<>>) : <<>>[j].var = n
    BY ONLY <1>1, <1>2, ScopeIs
  <1>5. DOMAIN f = {}
    BY ONLY <1>2, <1>4
  <1> QED
    BY ONLY <1>1, <1>3, <1>5

\* A name more, if it is one.
WithName(f, v, b) ==
  IF v \in DOMAIN f THEN f ELSE [n \in DOMAIN f \cup {v} |-> IF n = v THEN b ELSE f[n]]

\* A copy that is saved last counts if there is none of its name.
LEMMA ScopeAppended ==
  ASSUME NEW tx, NEW L \in Seq(Copies), NEW d \in Copies, NEW f, f = ScopeIn(tx, L), NEW b,
         b = SavedIn(tx, d)
  PROVE  ScopeIn(tx, Append(L, d)) = WithName(f, d.var, b)
  <1>1. PICK L2 : L2 = Append(L, d)
    OBVIOUS
  <1>2. PICK m \in Nat : m = Len(L)
    OBVIOUS
  <1>3. /\ L2 \in Seq(Copies) /\ Len(L2) = m + 1
        /\ \A j \in 1..(m + 1) : L2[j] = IF j = m + 1 THEN d ELSE L[j]
    BY <1>1, <1>2
  <1>4. PICK g : g = ScopeIn(tx, L2)
    OBVIOUS
  <1>5. /\ \A n \in DOMAIN f : \E j : IsFirst(L, 0, n, j)
        /\ \A n, j : IsFirst(L, 0, n, j) => n \in DOMAIN f /\ f[n] = SavedIn(tx, L[j])
        /\ \A n : n \in DOMAIN f <=> \E j \in 1..Len(L) : L[j].var = n
        /\ f = [n \in DOMAIN f |-> f[n]]
    BY ONLY f = ScopeIn(tx, L), L \in Seq(Copies), ScopeIs
  <1>6. /\ \A n, j : IsFirst(L2, 0, n, j) => n \in DOMAIN g /\ g[n] = SavedIn(tx, L2[j])
        /\ \A n : n \in DOMAIN g <=> \E j \in 1..Len(L2) : L2[j].var = n
        /\ g = [n \in DOMAIN g |-> g[n]]
    BY ONLY <1>3, <1>4, ScopeIs
  <1>7. DOMAIN g = DOMAIN f \cup {d.var}
    <2>1. \A n : (\E j \in 1..Len(L2) : L2[j].var = n) <=> (\E j \in 1..Len(L) : L[j].var = n) \/ n = d.var
      <3>1. \A j : j \in 1..(m + 1) <=> j \in 1..m \/ j = m + 1
        BY ONLY m \in Nat
      <3>2. \A j \in 1..m : j # m + 1
        BY ONLY m \in Nat
      <3> QED
        BY ONLY <1>2, <1>3, <3>1, <3>2
    <2>2. \A n : n \in DOMAIN g <=> n \in DOMAIN f \/ n = d.var
      BY ONLY <1>5, <1>6, <2>1
    <2> QED
      BY ONLY <2>2
  <1>8. ASSUME NEW n \in DOMAIN f PROVE g[n] = f[n]
    <2>1. PICK j : IsFirst(L, 0, n, j)
      BY <1>5
    <2>2. j \in 1..m /\ L[j].var = n /\ \A i \in 1..m : L[i].var = n => j <= i
      BY <1>2, <2>1 DEF IsFirst
    <2>3. L2[j] = L[j]
      BY ONLY <1>3, <2>2, m \in Nat
    <2>4. IsFirst(L2, 0, n, j)
      <3>1. j \in (0 + 1)..Len(L2) /\ L2[j].var = n
        BY ONLY <1>3, <2>2, <2>3, m \in Nat
      <3>2. ASSUME NEW i \in (0 + 1)..Len(L2), L2[i].var = n PROVE j <= i
        BY ONLY <1>3, <2>2, <3>2, m \in Nat
      <3> QED
        BY ONLY <3>1, <3>2 DEF IsFirst
    <2> QED
      BY <1>5, <1>6, <2>1, <2>3, <2>4
  <1>9. ASSUME d.var \notin DOMAIN f PROVE g[d.var] = b
    <2>1. \A i \in 1..m : L[i].var # d.var
      BY <1>2, <1>5, <1>9
    <2>2. IsFirst(L2, 0, d.var, m + 1)
      <3>1. m + 1 \in (0 + 1)..Len(L2) /\ L2[m + 1].var = d.var
        BY ONLY <1>3, m \in Nat
      <3>2. ASSUME NEW i \in (0 + 1)..Len(L2), L2[i].var = d.var PROVE m + 1 <= i
        BY ONLY <1>3, <2>1, <3>2, m \in Nat
      <3> QED
        BY ONLY <3>1, <3>2 DEF IsFirst
    <2>3. L2[m + 1] = d
      BY ONLY <1>3, m \in Nat
    <2> QED
      BY <1>6, <2>2, <2>3
  <1>10. CASE d.var \in DOMAIN f
    <2>1. DOMAIN g = DOMAIN f
      BY <1>7, <1>10
    <2>2. g = f
      BY ONLY <1>5, <1>6, <1>8, <2>1
    <2> QED
      BY <1>1, <1>4, <1>10, <2>2 DEF WithName
  <1>11. CASE d.var \notin DOMAIN f
    <2>1. \A n \in DOMAIN g : g[n] = IF n = d.var THEN b ELSE f[n]
      BY <1>7, <1>8, <1>9, <1>11
    <2>2. g = [n \in DOMAIN f \cup {d.var} |-> IF n = d.var THEN b ELSE f[n]]
      BY ONLY <1>6, <1>7, <2>1
    <2> QED
      BY ONLY <1>1, <1>4, <1>11, <2>2 DEF WithName
  <1> QED
    BY <1>10, <1>11

\* The scopes of the functions being run are a sequence.
Scoped(tx) == {ScopeIn(tx, L) : L \in Seq(Copies)}

LEMMA ScopesType ==
  ASSUME NEW tx, NEW fr \in Seq(Calls), fr # <<>>
  PROVE  /\ ScopesIn(tx, fr) \in Seq(Scoped(tx)) /\ Len(ScopesIn(tx, fr)) = Len(fr) - 1
         /\ Len(fr) - 1 \in Nat
         /\ \A i \in 1..(Len(fr) - 1) : /\ ScopesIn(tx, fr)[i] = ScopeIn(tx, fr[i + 1].localvars)
                                       /\ fr[i + 1].localvars \in Seq(Copies)
  <1>1. PICK n \in Nat : n = Len(fr) - 1
    OBVIOUS
  <1>2. \A i \in 1..n : fr[i + 1].localvars \in Seq(Copies)
    <2>1. \A i \in 1..n : i + 1 \in 1..Len(fr)
      BY <1>1
    <2> QED
      BY <2>1, LocalvarsTypes
  <1>3. PICK S : S = ScopesIn(tx, fr)
    OBVIOUS
  <1>4. S = [i \in 1..n |-> ScopeIn(tx, fr[i + 1].localvars)]
    BY ONLY <1>1, <1>3 DEF ScopesIn
  <1>5. \A i \in 1..n : ScopeIn(tx, fr[i + 1].localvars) \in Scoped(tx)
    BY <1>2 DEF Scoped
  <1>6. \A i \in 1..n : S[i] = ScopeIn(tx, fr[i + 1].localvars) /\ S[i] \in Scoped(tx)
    BY ONLY <1>4, <1>5
  <1>7. S = [i \in 1..n |-> S[i]]
    BY ONLY <1>4
  <1>8. S \in Seq(Scoped(tx)) /\ Len(S) = n
    BY ONLY <1>6, <1>7, n \in Nat
  <1> QED
    BY ONLY <1>1, <1>2, <1>3, <1>6, <1>8

\* A sequence is given by its elements.
LEMMA SameSeq ==
  ASSUME NEW T, NEW a \in Seq(T), NEW U, NEW b \in Seq(U), Len(a) = Len(b), \A i \in 1..Len(a) : a[i] = b[i]
  PROVE  a = b
  OBVIOUS

\* The same texts say the same of every function.
LEMMA ScopesKept ==
  ASSUME NEW s, NEW r, NEW fr \in Seq(Calls), fr # <<>>, TextsKept(s, r, fr)
  PROVE  ScopesIn(r.texts, fr) = ScopesIn(s.texts, fr)
  <1>1. PICK a, b, n : a = ScopesIn(r.texts, fr) /\ b = ScopesIn(s.texts, fr) /\ n = Len(fr) - 1
    OBVIOUS
  <1>2. /\ a \in Seq(Scoped(r.texts)) /\ Len(a) = n /\ n \in Nat
        /\ \A i \in 1..n : /\ a[i] = ScopeIn(r.texts, fr[i + 1].localvars)
                           /\ fr[i + 1].localvars \in Seq(Copies)
    BY <1>1, ScopesType
  <1>3. /\ b \in Seq(Scoped(s.texts)) /\ Len(b) = n
        /\ \A i \in 1..n : b[i] = ScopeIn(s.texts, fr[i + 1].localvars)
    BY <1>1, ScopesType
  <1>4. ASSUME NEW i \in 1..n PROVE a[i] = b[i]
    <2>1. PICK L \in Seq(Copies) : L = fr[i + 1].localvars
      BY <1>2
    <2>2. i + 1 \in 1..Len(fr)
      BY <1>1, <1>2
    <2>3. \A j \in 1..Len(L) : Has(fr, i + 1, j, L[j])
      BY <2>1, <2>2 DEF Has
    <2>4. \A j \in 1..Len(L) : L[j].text # 0 => r.texts[L[j].text] = s.texts[L[j].text]
      BY <2>3 DEF TextsKept
    <2>5. ScopeIn(r.texts, L) = ScopeIn(s.texts, L)
      BY ONLY <2>4, L \in Seq(Copies), ScopeKept
    <2> QED
      BY <1>2, <1>3, <2>1, <2>5
  <1>5. a = b
    BY ONLY <1>2, <1>3, <1>4, SameSeq
  <1> QED
    BY <1>1, <1>5

\* A copy more for the function being run.
LEMMA ScopesDeclared ==
  ASSUME NEW tx, NEW fr \in Seq(Calls), Len(fr) > 1, NEW d \in Copies, NEW S, S = ScopesIn(tx, fr),
         NEW L, L = fr[Len(fr)].localvars, NEW X, X = ScopeIn(tx, Append(L, d))
  PROVE  /\ S[Len(S)] = ScopeIn(tx, L) /\ S # <<>> /\ Len(S) \in 1..Len(S)
         /\ ScopesIn(tx, WithCopy(fr, d)) = [S EXCEPT ![Len(S)] = X]
  <1>1. PICK n : n = Len(fr) - 1
    OBVIOUS
  <1>2. fr # <<>> /\ n \in Nat /\ n >= 1 /\ Len(fr) = n + 1
    BY <1>1
  <1>3. /\ S \in Seq(Scoped(tx)) /\ Len(S) = n
        /\ \A i \in 1..n : /\ S[i] = ScopeIn(tx, fr[i + 1].localvars)
                           /\ fr[i + 1].localvars \in Seq(Copies)
    BY <1>1, <1>2, ScopesType
  <1>4. L \in Seq(Copies) /\ S[n] = ScopeIn(tx, L)
    BY ONLY <1>2, <1>3, L = fr[Len(fr)].localvars
  <1>5. Append(L, d) \in Seq(Copies)
    BY ONLY <1>4, d \in Copies
  <1>6. PICK fr2 : fr2 = WithCopy(fr, d)
    OBVIOUS
  <1>7. fr2 \in Seq(Calls) /\ Len(fr2) = n + 1
    BY ONLY <1>2, <1>6, fr \in Seq(Calls), d \in Copies, Pushed
  <1>8. PICK e \in Calls : e = fr[n + 1] /\ e.localvars = L
    BY <1>2
  <1>9. /\ fr2 = [fr EXCEPT ![n + 1] = [e EXCEPT !.localvars = Append(L, d)]]
        /\ DOMAIN fr = 1..(n + 1)
    BY ONLY <1>2, <1>6, <1>8, fr \in Seq(Calls), L = fr[Len(fr)].localvars DEF WithCopy
  <1>10. [e EXCEPT !.localvars = Append(L, d)].localvars = Append(L, d)
    BY DEF Calls
  <1>11. /\ fr2[n + 1].localvars = Append(L, d)
         /\ \A i \in 1..n : fr2[i] = fr[i]
    BY ONLY <1>2, <1>9, <1>10
  <1>12. PICK S2 : S2 = ScopesIn(tx, fr2)
    OBVIOUS
  <1>13. /\ S2 \in Seq(Scoped(tx)) /\ Len(S2) = n
         /\ \A i \in 1..n : S2[i] = ScopeIn(tx, fr2[i + 1].localvars)
    <2>1. fr2 # <<>> /\ Len(fr2) - 1 = n
      BY ONLY <1>2, <1>7
    <2> QED
      BY ONLY <1>7, <1>12, <2>1, ScopesType
  <1>14. \A i \in 1..n : S2[i] = IF i = n THEN X ELSE S[i]
    <2>1. S2[n] = X
      <3>1. n \in 1..n
        BY ONLY <1>2
      <3>2. S2[n] = ScopeIn(tx, fr2[n + 1].localvars)
        BY ONLY <1>13, <3>1
      <3> QED
        BY ONLY <1>11, <3>2, X = ScopeIn(tx, Append(L, d))
    <2>2. ASSUME NEW i \in 1..n, i # n PROVE S2[i] = S[i]
      <3>1. i + 1 \in 1..n
        BY ONLY <1>2, <2>2
      <3>2. fr2[i + 1] = fr[i + 1]
        BY ONLY <1>11, <3>1
      <3> QED
        BY ONLY <1>3, <1>13, <3>2, i \in 1..n
    <2> QED
      BY ONLY <2>1, <2>2
  <1>15. X \in Scoped(tx)
    BY <1>5 DEF Scoped
  <1>16. S2 = [S EXCEPT ![n] = X]
    BY ONLY <1>2, <1>3, <1>13, <1>14, <1>15
  <1>17. S # <<>> /\ n \in 1..n
    BY ONLY <1>2, <1>3
  <1> QED
    BY ONLY <1>3, <1>4, <1>6, <1>12, <1>16, <1>17

\* A function more, and one less.
LEMMA ScopesCalled ==
  ASSUME NEW tx, NEW fr \in Seq(Calls), fr # <<>>, NEW f \in 0..MaxFuncs, NEW S, S = ScopesIn(tx, fr)
  PROVE  ScopesIn(tx, WithCall(fr, f)) = Append(S, ScopeIn(tx, <<>>))
  <1>1. PICK n, fr2 : n = Len(fr) - 1 /\ fr2 = WithCall(fr, f)
    OBVIOUS
  <1>2. n \in Nat /\ Len(fr) = n + 1
    BY <1>1
  <1>3. /\ S \in Seq(Scoped(tx)) /\ Len(S) = n
        /\ \A i \in 1..n : S[i] = ScopeIn(tx, fr[i + 1].localvars)
    BY <1>1, ScopesType
  <1>4. /\ fr2 \in Seq(Calls) /\ Len(fr2) = n + 2 /\ fr2[n + 2].localvars = <<>>
        /\ \A i \in 1..(n + 1) : fr2[i] = fr[i]
    <2>1. /\ fr2 \in Seq(Calls) /\ Len(fr2) = Len(fr) + 1 /\ fr2[Len(fr2)].localvars = <<>>
          /\ \A i \in 1..Len(fr) : fr2[i] = fr[i]
      BY <1>1, Called
    <2>2. Len(fr) + 1 = n + 2
      BY ONLY <1>2
    <2> QED
      BY ONLY <1>2, <2>1, <2>2
  <1>5. PICK S2 : S2 = ScopesIn(tx, fr2)
    OBVIOUS
  <1>6. /\ S2 \in Seq(Scoped(tx)) /\ Len(S2) = n + 1
        /\ \A i \in 1..(n + 1) : S2[i] = ScopeIn(tx, fr2[i + 1].localvars)
    <2>1. fr2 # <<>> /\ Len(fr2) - 1 = n + 1
      BY ONLY <1>2, <1>4
    <2> QED
      BY ONLY <1>4, <1>5, <2>1, ScopesType
  <1>7. PICK X \in Scoped(tx) : X = ScopeIn(tx, <<>>)
    <2>1. <<>> \in Seq(Copies)
      OBVIOUS
    <2> QED
      BY ONLY <2>1 DEF Scoped
  <1>8. \A i \in 1..(n + 1) : S2[i] = IF i = n + 1 THEN X ELSE S[i]
    <2>1. S2[n + 1] = X
      <3>1. n + 1 \in 1..(n + 1) /\ n + 1 + 1 = n + 2
        BY ONLY <1>2
      <3> QED
        BY ONLY <1>4, <1>6, <1>7, <3>1
    <2>2. ASSUME NEW i \in 1..(n + 1), i # n + 1 PROVE S2[i] = S[i]
      <3>1. i + 1 \in 1..(n + 1) /\ i \in 1..n
        BY ONLY <1>2, <2>2
      <3>2. fr2[i + 1] = fr[i + 1]
        BY ONLY <1>4, <3>1
      <3> QED
        BY ONLY <1>3, <1>6, <3>1, <3>2, i \in 1..(n + 1)
    <2> QED
      BY ONLY <2>1, <2>2
  <1>9. /\ Append(S, X) \in Seq(Scoped(tx)) /\ Len(Append(S, X)) = n + 1
        /\ \A i \in 1..(n + 1) : Append(S, X)[i] = IF i = n + 1 THEN X ELSE S[i]
    BY ONLY <1>2, <1>3, X \in Scoped(tx)
  <1>10. S2 = Append(S, X)
    BY ONLY <1>6, <1>8, <1>9, SameSeq
  <1> QED
    BY ONLY <1>1, <1>5, <1>7, <1>10

\* The function being run takes what it saved with it.
LEMMA ScopesLeft ==
  ASSUME NEW tx, NEW fr \in Seq(Calls), Len(fr) > 1, NEW S, S = ScopesIn(tx, fr)
  PROVE  ScopesIn(tx, Front(fr)) = SubSeq(S, 1, Len(S) - 1)
  <1>1. PICK n, fr2 : n = Len(fr) - 1 /\ fr2 = Front(fr)
    OBVIOUS
  <1>2. n \in Nat /\ Len(fr) = n + 1 /\ n >= 1 /\ fr # <<>> /\ n - 1 \in Nat
    BY <1>1
  <1>3. /\ S \in Seq(Scoped(tx)) /\ Len(S) = n
        /\ \A i \in 1..n : S[i] = ScopeIn(tx, fr[i + 1].localvars)
    BY <1>1, <1>2, ScopesType
  <1>4. fr2 \in Seq(Calls) /\ Len(fr2) = n /\ \A i \in 1..n : fr2[i] = fr[i]
    <2>1. fr2 \in Seq(Calls) /\ Len(fr2) = Len(fr) - 1 /\ \A i \in 1..Len(fr2) : fr2[i] = fr[i]
      BY ONLY <1>1, <1>2, fr \in Seq(Calls), Returned
    <2> QED
      BY ONLY <1>1, <2>1
  <1>5. PICK S2 : S2 = ScopesIn(tx, fr2)
    OBVIOUS
  <1>6. /\ S2 \in Seq(Scoped(tx)) /\ Len(S2) = n - 1
        /\ \A i \in 1..(n - 1) : S2[i] = ScopeIn(tx, fr2[i + 1].localvars)
    <2>1. fr2 # <<>> /\ Len(fr2) - 1 = n - 1
      BY ONLY <1>2, <1>4
    <2> QED
      BY ONLY <1>4, <1>5, <2>1, ScopesType
  <1>7. ASSUME NEW i \in 1..(n - 1) PROVE S2[i] = S[i]
    <2>1. i + 1 \in 1..n /\ i \in 1..n
      BY ONLY <1>2, i \in 1..(n - 1)
    <2>2. fr2[i + 1] = fr[i + 1]
      BY ONLY <1>4, <2>1
    <2> QED
      BY ONLY <1>3, <1>6, <2>1, <2>2, i \in 1..(n - 1)
  <1>8. /\ SubSeq(S, 1, n - 1) \in Seq(Scoped(tx)) /\ Len(SubSeq(S, 1, n - 1)) = n - 1
        /\ \A i \in 1..(n - 1) : SubSeq(S, 1, n - 1)[i] = S[i]
    BY ONLY <1>2, <1>3
  <1>9. S2 = SubSeq(S, 1, n - 1)
    BY ONLY <1>6, <1>7, <1>8, SameSeq
  <1> QED
    BY ONLY <1>1, <1>3, <1>5, <1>9

\* What a good shell has in use is not swept.
LEMMA SweptKeeps ==
  ASSUME NEW s, Good(s), NEW z, z = Swept(s)
  PROVE  /\ z.vartab = s.vartab /\ z.frames = s.frames /\ z.aflag = s.aflag
         /\ BoundIn(z) = BoundIn(s) /\ ScopesIn(z.texts, s.frames) = ScopesIn(s.texts, s.frames)
  <1>1. /\ s \in Shells /\ s.vartab \in [Vars -> Variables] /\ s.texts \in [TextIds -> Contents]
        /\ s.frames \in Seq(Calls) /\ s.frames # <<>>
    BY GoodTypes, ShellTypes DEF Good
  <1>2. PICK tx, fn :
          /\ tx = [t \in TextIds |-> IF t \in TextsInUse(s) THEN s.texts[t] ELSE Free]
          /\ fn = [f \in FuncIds |-> IF f \in FuncsInUse(s) THEN s.funcs[f] ELSE 0]
    OBVIOUS
  <1>3. z = [s EXCEPT !.texts = tx, !.funcs = fn, !.entry = NoEntry]
    BY <1>2 DEF Swept
  <1>4. z.vartab = s.vartab /\ z.frames = s.frames /\ z.aflag = s.aflag /\ z.texts = tx
    BY ONLY <1>1, <1>3 DEF Shells
  <1>5. /\ \A v \in Vars : s.vartab[v].text # 0 => s.vartab[v].text \in TextIds
        /\ \A i, j, c : Has(s.frames, i, j, c) /\ c.text # 0 => c.text \in TextIds
    BY DEF Good, Owned, Alive
  <1>6. \A v \in Vars : s.vartab[v].text \in TextsInUse(s)
    BY DEF TextsInUse
  <1>7. \A i, j, c : Has(s.frames, i, j, c) => c.text \in TextsInUse(s)
    BY <1>1, CopiesInUse
  <1>8. \A v \in Vars : BindingOf(tx, s.vartab[v]) = BindingOf(s.texts, s.vartab[v])
    BY <1>2, <1>5, <1>6 DEF BindingOf
  <1>9. BoundIn(z) = BoundIn(s)
    <2>1. \A n \in ShellNames : n = "-" \/ n \in Vars
      BY BoundIs
    <2> QED
      BY ONLY <1>4, <1>8, <2>1 DEF BoundIn
  <1>10. TextsKept(s, z, s.frames)
    BY <1>2, <1>4, <1>5, <1>7 DEF TextsKept
  <1>11. ScopesIn(z.texts, s.frames) = ScopesIn(s.texts, s.frames)
    BY <1>1, <1>10, ScopesKept
  <1> QED
    BY <1>4, <1>9, <1>11

\* The variables and the scopes of the shell are those of ShellScopes.
LEMMA StShown ==
  ShellBound = BoundIn(St) /\ SavedScopes = ScopesIn(texts, frames)
  <1>1. ShellBound = BoundIn(St)
    BY StFields DEF ShellBound, BoundIn, Binding, BindingOf
  <1>2. \A L : ScopeOf(L) = ScopeIn(texts, L)
    BY DEF ScopeOf, ScopeIn, SavedBinding, SavedIn, Binding, BindingOf
  <1>3. SavedScopes = ScopesIn(texts, frames)
    BY <1>2 DEF SavedScopes, ScopesIn
  <1> QED
    BY <1>1, <1>3

LEMMA StShownNext ==
  ASSUME NEW z, vartab' = z.vartab, texts' = z.texts, frames' = z.frames, aflag' = z.aflag
  PROVE  ShellBound' = BoundIn(z) /\ SavedScopes' = ScopesIn(z.texts, z.frames)
  <1>1. ShellBound' = BoundIn(z)
    BY DEF ShellBound, BoundIn, Binding, BindingOf, OptionBinding
  <1>2. \A L : ScopeOf(L)' = ScopeIn(z.texts, L')
    BY DEF ScopeOf, ScopeIn, SavedBinding, SavedIn, Binding, BindingOf, OptionBinding
  <1>3. SavedScopes' = ScopesIn(z.texts, z.frames)
    BY <1>2 DEF SavedScopes, ScopesIn
  <1> QED
    BY <1>1, <1>3

\* The last element of a sequence is replaced.
LEMMA AppendedAgain ==
  ASSUME NEW T, NEW S \in Seq(T), NEW x, NEW y, NEW S2, S2 = Append(S, x)
  PROVE  [S2 EXCEPT ![Len(S2)] = y] = Append(S, y)
  <1>1. PICK m \in Nat : m = Len(S)
    OBVIOUS
  <1>2. PICK U : U = T \cup {x, y}
    OBVIOUS
  <1>3. S \in Seq(U) /\ x \in U /\ y \in U
    <2>1. \A i \in 1..Len(S) : S[i] \in U
      BY <1>2
    <2>2. S = [i \in 1..Len(S) |-> S[i]]
      OBVIOUS
    <2>3. S \in Seq(U)
      BY ONLY <1>1, <2>1, <2>2
    <2> QED
      BY ONLY <1>2, <2>3
  <1>4. /\ S2 \in Seq(U) /\ Len(S2) = m + 1
        /\ \A i \in 1..(m + 1) : S2[i] = IF i = m + 1 THEN x ELSE S[i]
    BY ONLY <1>1, <1>3, S2 = Append(S, x)
  <1>5. /\ Append(S, y) \in Seq(U) /\ Len(Append(S, y)) = m + 1
        /\ \A i \in 1..(m + 1) : Append(S, y)[i] = IF i = m + 1 THEN y ELSE S[i]
    BY ONLY <1>1, <1>3
  <1>6. PICK S3 : S3 = [S2 EXCEPT ![m + 1] = y]
    OBVIOUS
  <1>7. /\ S3 \in Seq(U) /\ Len(S3) = m + 1
        /\ \A i \in 1..(m + 1) : S3[i] = IF i = m + 1 THEN y ELSE S2[i]
    BY ONLY <1>3, <1>4, <1>6, m \in Nat
  <1>8. S3 = Append(S, y)
    BY ONLY <1>4, <1>5, <1>7, SameSeq
  <1> QED
    BY ONLY <1>4, <1>6, <1>8

\* There is something to save.
LEMMA CopiesThere == \E d : d \in Copies
  <1>1. 0 \in 0..MaxTexts
    BY VarConstants
  <1>2. [var |-> "-", text |-> 0, flags |-> {}, aflag |-> FALSE] \in Copies
    BY ONLY <1>1 DEF Copies
  <1> QED
    BY ONLY <1>2

\* What a command leaves behind, as ShellScopes sees it.
LEMMA StepShown ==
  ASSUME Good(St), NEW r, Good(r), Becomes(r)
  PROVE  /\ ShellBound = BoundIn(St) /\ SavedScopes = ScopesIn(St.texts, St.frames)
         /\ ShellBound' = BoundIn(r) /\ SavedScopes' = ScopesIn(r.texts, r.frames)
         /\ ShellBound' \in [ShellNames -> ShellBindings]
         /\ ShellBound \in [ShellNames -> ShellBindings]
         /\ vartab' = r.vartab /\ frames' = r.frames
         /\ St.frames \in Seq(Calls) /\ St.frames # <<>>
  <1>1. PICK z : z = Swept(r)
    OBVIOUS
  <1>2. vartab' = z.vartab /\ texts' = z.texts /\ frames' = z.frames /\ aflag' = z.aflag
    BY <1>1 DEF Becomes
  <1>3. /\ z.vartab = r.vartab /\ z.frames = r.frames
        /\ BoundIn(z) = BoundIn(r) /\ ScopesIn(z.texts, r.frames) = ScopesIn(r.texts, r.frames)
    BY <1>1, SweptKeeps
  <1>4. ShellBound' = BoundIn(z) /\ SavedScopes' = ScopesIn(z.texts, z.frames)
    BY ONLY <1>2, StShownNext
  <1>5. /\ BoundIn(r) \in [ShellNames -> ShellBindings]
        /\ BoundIn(St) \in [ShellNames -> ShellBindings]
    BY BoundType DEF Good
  <1>6. St.frames \in Seq(Calls) /\ St.frames # <<>>
    BY ShellTypes DEF Good
  <1> QED
    BY ONLY <1>2, <1>3, <1>4, <1>5, <1>6, StShown, StFields

\* A change of one variable is one.
LEMMA ChangesImplemented ==
  ASSUME Good(St), NEW r, Good(r), Becomes(r), OneChanges(St, r)
  PROVE  Scopes!Next
  <1>1. /\ ShellBound = BoundIn(St) /\ SavedScopes = ScopesIn(St.texts, St.frames)
        /\ ShellBound' = BoundIn(r) /\ SavedScopes' = ScopesIn(r.texts, r.frames)
        /\ ShellBound' \in [ShellNames -> ShellBindings]
        /\ St.frames \in Seq(Calls) /\ St.frames # <<>>
    BY StepShown
  <1>2. PICK v \in ShellNames : ChangesOnly(St, r, St.frames, v) /\ r.frames = St.frames
    BY DEF OneChanges
  <1>3. ScopesIn(r.texts, St.frames) = ScopesIn(St.texts, St.frames)
    BY <1>1, <1>2, ScopesKept DEF ChangesOnly
  <1>4. UNCHANGED SavedScopes
    BY <1>1, <1>2, <1>3
  <1>5. Scopes!Changed(v)
    BY <1>1, <1>2 DEF Scopes!Changed, ChangesOnly
  <1> QED
    BY <1>4, <1>5 DEF Scopes!Next, Scopes!Change

\* A variable that is made local is declared.
LEMMA DeclaresImplemented ==
  ASSUME Good(St), NEW r, Good(r), Becomes(r), OneDeclared(St, r)
  PROVE  Scopes!Next
  <1>1. /\ ShellBound = BoundIn(St) /\ SavedScopes = ScopesIn(St.texts, St.frames)
        /\ ShellBound' = BoundIn(r) /\ SavedScopes' = ScopesIn(r.texts, r.frames)
        /\ ShellBound' \in [ShellNames -> ShellBindings]
        /\ St.frames \in Seq(Calls) /\ St.frames # <<>>
    BY StepShown
  <1>2. PICK v \in ShellNames : /\ ChangesOnly(St, r, St.frames, v)
                                /\ Declares(St, r, St.frames, v)
    BY DEF OneDeclared
  <1>3. PICK d \in Copies : /\ r.frames = WithCopy(St.frames, d) /\ d.var = v
                            /\ SavedIn(r.texts, d) = BoundIn(St)[v]
    BY <1>2 DEF Declares
  <1>4. PICK S : S = ScopesIn(r.texts, St.frames)
    OBVIOUS
  <1>5. SavedScopes = S
    BY <1>1, <1>2, <1>4, ScopesKept DEF ChangesOnly
  <1>6. Len(St.frames) > 1
    BY DEF OneDeclared
  <1>7. PICK L : L = St.frames[Len(St.frames)].localvars
    OBVIOUS
  <1>8. L \in Seq(Copies)
    BY <1>1, <1>7, LocalvarsTypes
  <1>9. PICK X : X = ScopeIn(r.texts, Append(L, d))
    OBVIOUS
  <1>10. PICK f : f = ScopeIn(r.texts, L)
    OBVIOUS
  <1>11. /\ S[Len(S)] = f /\ S # <<>>
         /\ ScopesIn(r.texts, r.frames) = [S EXCEPT ![Len(S)] = X]
    BY <1>1, <1>3, <1>4, <1>6, <1>7, <1>9, <1>10, ScopesDeclared
  <1>12. X = IF v \in DOMAIN f THEN f
             ELSE [n \in DOMAIN f \cup {v} |-> IF n = v THEN BoundIn(St)[v] ELSE f[n]]
    <2>1. PICK b : b = SavedIn(r.texts, d)
      OBVIOUS
    <2>2. X = WithName(f, d.var, b)
      BY ONLY <1>8, <1>9, <1>10, <2>1, d \in Copies, ScopeAppended
    <2> QED
      BY ONLY <1>3, <2>1, <2>2 DEF WithName
  <1>13. X = Scopes!With(f, v)
    BY ONLY <1>1, <1>12 DEF Scopes!With
  <1>14. SavedScopes' = [SavedScopes EXCEPT ![Len(SavedScopes)] = Scopes!With(@, v)]
    BY ONLY <1>1, <1>5, <1>11, <1>13
  <1>15. Scopes!Changed(v)
    BY <1>1, <1>2 DEF Scopes!Changed, ChangesOnly
  <1>16. Scopes!Declare(v)
    BY ONLY <1>5, <1>11, <1>14, <1>15 DEF Scopes!Declare
  <1> QED
    BY <1>16 DEF Scopes!Next

\* A function that is called enters a scope, which may have a name already.
LEMMA EntersImplemented ==
  ASSUME Good(St), NEW r, Good(r), Becomes(r), OneEntered(St, r)
  PROVE  Scopes!Next
  <1>1. /\ ShellBound = BoundIn(St) /\ SavedScopes = ScopesIn(St.texts, St.frames)
        /\ ShellBound' = BoundIn(r) /\ SavedScopes' = ScopesIn(r.texts, r.frames)
        /\ ShellBound' \in [ShellNames -> ShellBindings]
        /\ ShellBound \in [ShellNames -> ShellBindings]
        /\ St.frames \in Seq(Calls) /\ St.frames # <<>>
    BY StepShown
  <1>2. PICK f \in 0..MaxFuncs : EnteredWith(St, r, WithCall(St.frames, f))
    BY DEF OneEntered
  <1>3. PICK fr : fr = WithCall(St.frames, f)
    OBVIOUS
  <1>4. PICK v \in ShellNames :
          /\ ChangesOnly(St, r, St.frames, v)
          /\ \/ Declares(St, r, fr, v)
             \/ /\ r.frames = fr
                /\ \/ BoundIn(r)[v] = BoundIn(St)[v]
                   \/ /\ "VREADONLY" \in BoundIn(St)[v].attributes
                      /\ BoundIn(r)[v].value = BoundIn(St)[v].value
    BY <1>2, <1>3 DEF EnteredWith
  <1>5. ScopesIn(r.texts, St.frames) = SavedScopes
    BY <1>1, <1>4, ScopesKept DEF ChangesOnly
  <1>6. PICK none : none = [n \in {} |-> Scopes!Plain]
    OBVIOUS
  <1>7. ScopeIn(r.texts, <<>>) = none
    BY ONLY <1>6, ScopeNone
  <1>8. ScopesIn(r.texts, fr) = Append(SavedScopes, none)
    BY ONLY <1>1, <1>3, <1>5, <1>7, f \in 0..MaxFuncs, ScopesCalled
  <1>9. Scopes!Changed(v)
    BY <1>1, <1>4 DEF Scopes!Changed, ChangesOnly
  <1>10. CASE Declares(St, r, fr, v)
    <2>1. PICK d \in Copies : /\ r.frames = WithCopy(fr, d) /\ d.var = v
                              /\ SavedIn(r.texts, d) = BoundIn(St)[v]
      BY <1>10 DEF Declares
    <2>2. /\ fr \in Seq(Calls) /\ Len(fr) > 1 /\ fr[Len(fr)].localvars = <<>>
          /\ Len(fr) = Len(St.frames) + 1
      <3>1. /\ fr \in Seq(Calls) /\ Len(fr) = Len(St.frames) + 1
            /\ fr[Len(fr)].localvars = <<>>
        BY ONLY <1>1, <1>3, f \in 0..MaxFuncs, Called
      <3>2. Len(St.frames) + 1 > 1
        BY ONLY <1>1
      <3> QED
        BY ONLY <3>1, <3>2
    <2>3. PICK S : S = ScopesIn(r.texts, fr)
      OBVIOUS
    <2>4. PICK X : X = ScopeIn(r.texts, Append(<<>>, d))
      OBVIOUS
    <2>5. ScopesIn(r.texts, r.frames) = [S EXCEPT ![Len(S)] = X]
      <3>1. PICK L : L = fr[Len(fr)].localvars
        OBVIOUS
      <3>2. X = ScopeIn(r.texts, Append(L, d))
        BY ONLY <2>2, <2>4, <3>1
      <3>3. ScopesIn(r.texts, WithCopy(fr, d)) = [S EXCEPT ![Len(S)] = X]
        BY ONLY <2>2, <2>3, <3>1, <3>2, d \in Copies, ScopesDeclared
      <3> QED
        BY ONLY <2>1, <3>3
    <2>6. X = [n \in {v} |-> BoundIn(St)[v]]
      <3>1. <<>> \in Seq(Copies)
        OBVIOUS
      <3>2. X = WithName(none, d.var, BoundIn(St)[v])
        <4>1. PICK b : b = SavedIn(r.texts, d)
          OBVIOUS
        <4>2. X = WithName(none, d.var, b)
          <5>1. PICK L \in Seq(Copies) : L = <<>>
            BY ONLY <3>1
          <5>2. none = ScopeIn(r.texts, L)
            BY ONLY <1>7, <5>1
          <5>3. X = ScopeIn(r.texts, Append(L, d))
            BY ONLY <2>4, <5>1
          <5> QED
            BY ONLY <4>1, <5>2, <5>3, L \in Seq(Copies), d \in Copies, ScopeAppended
        <4> QED
          BY ONLY <2>1, <4>1, <4>2
      <3>3. DOMAIN none = {}
        BY ONLY <1>6
      <3> QED
        BY ONLY <2>1, <3>2, <3>3 DEF WithName
    <2>7. SavedScopes' = Append(SavedScopes, [n \in {v} |-> ShellBound[v]])
      <3>1. PICK S0 \in Seq(Scoped(St.texts)) : S0 = SavedScopes
        BY <1>1, ScopesType
      <3>2. S = Append(S0, none)
        BY ONLY <1>8, <2>3, <3>1
      <3>3. [S EXCEPT ![Len(S)] = X] = Append(S0, X)
        BY ONLY <3>1, <3>2, AppendedAgain
      <3> QED
        BY ONLY <1>1, <2>5, <2>6, <3>1, <3>3
    <2> QED
      BY ONLY <1>9, <2>7, v \in ShellNames DEF Scopes!Next, Scopes!Enter
  <1>11. CASE r.frames = fr /\ BoundIn(r)[v] = BoundIn(St)[v]
    <2>1. SavedScopes' = Append(SavedScopes, [n \in {} |-> Scopes!Plain])
      BY ONLY <1>1, <1>6, <1>8, <1>11
    <2>2. \A n \in ShellNames : ShellBound'[n] = ShellBound[n]
      BY <1>1, <1>4, <1>11 DEF ChangesOnly
    <2>3. UNCHANGED ShellBound
      BY ONLY <1>1, <2>2
    <2> QED
      BY ONLY <2>1, <2>3 DEF Scopes!Next, Scopes!Enter
  <1>12. CASE /\ r.frames = fr /\ "VREADONLY" \in BoundIn(St)[v].attributes
              /\ BoundIn(r)[v].value = BoundIn(St)[v].value
    <2>1. SavedScopes' = Append(SavedScopes, [n \in {} |-> Scopes!Plain])
      BY ONLY <1>1, <1>6, <1>8, <1>12
    <2> QED
      BY ONLY <1>1, <1>9, <1>12, <2>1, v \in ShellNames DEF Scopes!Next, Scopes!Enter
  <1> QED
    BY ONLY <1>4, <1>10, <1>11, <1>12

\* A function that returns leaves its scope.
LEMMA LeavesImplemented ==
  ASSUME Good(St), NEW r, Good(r), Becomes(r), OneLeft(St, r)
  PROVE  Scopes!Next
  <1>1. /\ ShellBound = BoundIn(St) /\ SavedScopes = ScopesIn(St.texts, St.frames)
        /\ ShellBound' = BoundIn(r) /\ SavedScopes' = ScopesIn(r.texts, r.frames)
        /\ ShellBound' \in [ShellNames -> ShellBindings]
        /\ St.frames \in Seq(Calls) /\ St.frames # <<>>
    BY StepShown
  <1>2. PICK L : L = St.frames[Len(St.frames)].localvars
    OBVIOUS
  <1>3. /\ Len(St.frames) > 1 /\ r.frames = Front(St.frames)
        /\ PoppedTo(St, L, 0, r, r.frames)
    BY <1>2 DEF OneLeft
  <1>4. L \in Seq(Copies)
    BY <1>1, <1>2, LocalvarsTypes
  <1>5. PICK S : S = ScopesIn(St.texts, St.frames)
    OBVIOUS
  <1>6. SavedScopes' = SubSeq(S, 1, Len(S) - 1)
    <2>1. r.frames \in Seq(Calls) /\ r.frames # <<>>
      BY ShellTypes DEF Good
    <2>2. ScopesIn(r.texts, r.frames) = ScopesIn(St.texts, r.frames)
      BY <1>3, <2>1, ScopesKept DEF PoppedTo
    <2>3. ScopesIn(St.texts, Front(St.frames)) = SubSeq(S, 1, Len(S) - 1)
      BY <1>1, <1>3, <1>5, ScopesLeft
    <2> QED
      BY ONLY <1>1, <1>3, <2>2, <2>3
  <1>7. PICK g : g = ScopeIn(St.texts, L)
    OBVIOUS
  <1>8. S # <<>> /\ S[Len(S)] = g
    <2>1. PICK d \in Copies : TRUE
      BY CopiesThere
    <2> QED
      BY ONLY <1>1, <1>2, <1>3, <1>5, <1>7, d \in Copies, ScopesDeclared
  <1>9. /\ \A n \in DOMAIN g : \E j : IsFirst(L, 0, n, j)
        /\ \A n, j : IsFirst(L, 0, n, j) => n \in DOMAIN g /\ g[n] = SavedIn(St.texts, L[j])
        /\ \A n : n \in DOMAIN g <=> \E j \in 1..Len(L) : L[j].var = n
    BY ONLY <1>4, <1>7, ScopeIs
  <1>10. ASSUME NEW v \in ShellNames
         PROVE  ShellBound'[v] \in IF v \in Scopes!Declared(Len(SavedScopes))
                                   THEN Scopes!Restored(SavedScopes[Len(SavedScopes)][v], ShellBound[v])
                                   ELSE {ShellBound[v]}
    <2>1. Scopes!Declared(Len(SavedScopes)) = DOMAIN g
      BY ONLY <1>1, <1>5, <1>8 DEF Scopes!Declared
    <2>2. CASE v \in DOMAIN g
      <3>1. PICK j : IsFirst(L, 0, v, j) /\ g[v] = SavedIn(St.texts, L[j])
        BY ONLY <1>9, <2>2
      <3>2. BoundIn(r)[v] \in Scopes!Restored(SavedIn(St.texts, L[j]), BoundIn(St)[v])
        BY ONLY <1>3, <3>1, v \in ShellNames DEF PoppedTo
      <3>3. ShellBound'[v] \in Scopes!Restored(SavedScopes[Len(SavedScopes)][v], ShellBound[v])
        BY ONLY <1>1, <1>5, <1>8, <3>1, <3>2
      <3> QED
        BY ONLY <2>1, <2>2, <3>3
    <2>3. CASE v \notin DOMAIN g
      <3>1. \A j \in (0 + 1)..Len(L) : L[j].var # v
        BY ONLY <1>9, <2>3
      <3>2. BoundIn(r)[v] = BoundIn(St)[v]
        BY ONLY <1>3, <3>1, v \in ShellNames DEF PoppedTo
      <3> QED
        BY ONLY <1>1, <2>1, <2>3, <3>2
    <2> QED
      BY ONLY <2>2, <2>3
  <1>11. Scopes!Leave
    BY ONLY <1>1, <1>5, <1>6, <1>8, <1>10 DEF Scopes!Leave
  <1> QED
    BY ONLY <1>11 DEF Scopes!Next

\* A good shell that does a step of ShellScopes is led by one.
LEMMA ShownImplemented ==
  ASSUME ShellInv, Locked(vartab, frames), Led
  PROVE  Scopes!Next /\ Locked(vartab, frames)'
  <1>1. Good(St) /\ Locked(St.vartab, St.frames)
    BY StFields DEF ShellInv
  <1>2. PICK r : Good(r) /\ Becomes(r) /\ Shown(St, r)
    BY DEF Led
  <1>3. /\ Locked(r.vartab, r.frames)
        /\ OneChanges(St, r) \/ OneDeclared(St, r) \/ OneEntered(St, r) \/ OneLeft(St, r)
    BY <1>1, <1>2 DEF Shown
  <1>4. Scopes!Next
    BY <1>1, <1>2, <1>3, ChangesImplemented, DeclaresImplemented, EntersImplemented,
       LeavesImplemented
  <1>5. vartab' = r.vartab /\ frames' = r.frames
    BY <1>1, <1>2, StepShown
  <1>6. Locked(vartab', frames')
    BY ONLY <1>3, <1>5
  <1>7. Locked(vartab, frames)'
    BY ONLY <1>6 DEF Locked, Has, Earlier
  <1> QED
    BY <1>4, <1>7

\* In the beginning no function is being run, and nothing is saved.
LEMMA InitImplemented ==
  ASSUME Init
  PROVE  Scopes!Init /\ Locked(vartab, frames)
  <1>1. Good(St)
    BY InitGood DEF ShellInv
  <1>2. BoundIn(St) \in [ShellNames -> ShellBindings]
    BY <1>1, BoundType DEF Good
  <1>3. frames = <<[func |-> 0, localvars |-> << >>]>>
    BY DEF Init
  <1>4. Len(frames) = 1 /\ frames[1].localvars = << >>
    BY ONLY <1>3
  <1>5. SavedScopes = << >>
    BY ONLY <1>4 DEF SavedScopes
  <1>6. Locked(vartab, frames)
    BY ONLY <1>4 DEF Locked, Has
  <1> QED
    BY ONLY <1>2, <1>5, <1>6, StShown DEF Scopes!Init

\* What local variables promise is kept: each function that is left gives back what each
\* name it declared was bound to before, and touches no other, whatever was declared how
\* often by local or before a call, and however the function is left.  The list of saved
\* copies, the table and the texts implement a stack of scopes.  (mklocal, poplocalvars,
\* unsetvar, exportcmd, evalcommand; ash.1, "local".)
THEOREM ScopesImplemented == Spec => ImplementsScopes
  <1>1. Init => Scopes!Init /\ Locked(vartab, frames)
    BY InitImplemented
  <1>2. CommandsInv /\ Locked(vartab, frames) /\ [Next]_vars
          => [Scopes!Next]_(Scopes!vars) /\ Locked(vartab, frames)'
    <2> SUFFICES ASSUME CommandsInv, Locked(vartab, frames), [Next]_vars
                 PROVE  [Scopes!Next]_(Scopes!vars) /\ Locked(vartab, frames)'
      OBVIOUS
    <2>1. CASE Next
      <3>1. ShellInv /\ Led
        BY <2>1, NextStep DEF CommandsInv
      <3> QED
        BY <3>1, ShownImplemented
    <2>2. CASE UNCHANGED vars
      <3>1. vartab' = vartab /\ frames' = frames /\ texts' = texts /\ aflag' = aflag
        BY <2>2 DEF vars
      <3>2. UNCHANGED ShellBound
        BY ONLY <3>1 DEF ShellBound, Binding, OptionBinding
      <3>3. UNCHANGED SavedScopes
        BY ONLY <3>1 DEF SavedScopes, ScopeOf, SavedBinding, Binding, OptionBinding
      <3>4. Locked(vartab, frames)'
        BY <3>1 DEF Locked, Has, Earlier
      <3> QED
        BY <3>2, <3>3, <3>4 DEF Scopes!vars
    <2> QED
      BY <2>1, <2>2
  <1> QED
    BY <1>1, <1>2, InvHolds, PTL DEF Spec, ImplementsScopes, Scopes!Spec

=============================================================================
