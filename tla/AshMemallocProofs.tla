-------------------------- MODULE AshMemallocProofs --------------------------
(***************************************************************************)
(* Proofs about AshMemalloc, for every alignment, every size of blocks and *)
(* of what is allocated, and every nesting of commands and expansions.     *)
(***************************************************************************)
EXTENDS AshMemalloc, NaturalsInduction, WellFoundedInduction, TLAPS

\* The circumstances: no expansion that keeps a pointer into a block it has put
\* nothing in, and no realloc that fails.
Usual == Kinds \subseteq {"arith", "prompt"} /\ MayFail \subseteq {"malloc"}

Names == 1..MaxBlocks
Blocks == [id : Names, size : Nat \ {0}]
Ptrs == [blk : Names, off : Int]
Marks == [blk : Names, nxt : Ptrs, left : Int, sstr : Int, next : Int]
States == [chain : Seq(Blocks), nxt : Ptrs, left : Int, sstr : Int,
           mark : [1..MaxFrames -> Marks], markp : Int]
Strings == [on : BOOLEAN, dest : Ptrs, here : BOOLEAN]
Frames == [kind : {"command", "arith", "prompt"}, str : Strings, loc : Int]
Allocs == [blk : Names, off : Int, len : Nat, depth : Int, aside : BOOLEAN]

Aligned(n) == n % Unit = 0

\* Where the block id is in the chain.
Pos(s, id) == CHOOSE i \in DOMAIN s.chain : s.chain[i].id = id

\* p comes before q on the stack, as in AshMemalloc.
Under(s, p, q) ==
  /\ p.blk \in Ids(s) /\ q.blk \in Ids(s)
  /\ IF p.blk = q.blk THEN p.off <= q.off ELSE Pos(s, p.blk) < Pos(s, q.blk)

\* What is below p in its block, and what is left, make up the block.
Room(s, p, left) ==
  /\ p.blk \in Ids(s) /\ p.off >= 0 /\ left >= 0 /\ p.off + left = SizeOf(s, p.blk)
  /\ Aligned(p.off) /\ Aligned(left)

End(a) == [blk |-> a.blk, off |-> a.off + a.len]

\* What is allocated at a is below p, and if it is in the same block it keeps the
\* block from being moved.
Clear(s, a, p) == Under(s, End(a), p) /\ (a.blk = p.blk => p.off > 0)

\* The blocks.
Listed(s) ==
  /\ s.chain \in Seq(Blocks) /\ s.chain # <<>> /\ s.chain[1] = [id |-> 1, size |-> MINSIZE]
  /\ \A i, j \in DOMAIN s.chain : s.chain[i].id = s.chain[j].id => i = j
Topped(s) == s.nxt.blk = stackp(s).id /\ Room(s, s.nxt, s.left)
Chained(s) == s \in States /\ Listed(s) /\ Topped(s)

\* The marks, in the order in which they were set.
Marked(s, fr) ==
  /\ fr \in Seq(Frames) /\ Len(fr) \in 1..MaxFrames /\ fr[1].kind = "command"
  /\ s.markp = Len(fr) \/ (s.markp = 0 /\ Len(fr) = 1)
  /\ s.mark[1].blk = 1
  /\ \A f \in 1..Len(fr) :
       /\ f > 1 => s.mark[f].next = f - 1 \/ (s.mark[f].next = 0 /\ f = 2)
       /\ f = 1 => s.mark[f].next = 0
       /\ s.mark[f].nxt.blk = s.mark[f].blk
       /\ Room(s, s.mark[f].nxt, s.mark[f].left)
       /\ Under(s, s.mark[f].nxt, s.nxt)
  /\ \A f, g \in 1..Len(fr) : f <= g => Under(s, s.mark[f].nxt, s.mark[g].nxt)

\* What is allocated, in order, between the marks.
Noted(s, fr, al) ==
  /\ al \in Seq(Allocs)
  /\ \A i \in DOMAIN al :
       /\ al[i].blk \in Ids(s) /\ al[i].off >= 0 /\ Aligned(al[i].off)
       /\ al[i].depth \in 1..Len(fr) /\ Clear(s, al[i], s.nxt)
       /\ \A f \in 1..Len(fr) : IF al[i].depth < f THEN Clear(s, al[i], s.mark[f].nxt)
                                ELSE Under(s, s.mark[f].nxt, al[i])
  /\ \A i, j \in DOMAIN al : i < j => al[i].depth <= al[j].depth /\ Clear(s, al[i], al[j])

\* A string that was put aside can go on from its mark; until then what it has is
\* allocated there.
Resumes(m, fr) ==
  /\ fr.str.on /\ fr.str.dest.blk = m.blk
  /\ LET len == fr.str.dest.off - m.nxt.off
     IN fr.loc \in 0..len /\ len <= m.left /\ m.sstr = m.left - len
Asides(s, fr, al) ==
  \A f \in 1..Len(fr) : fr[f].kind # "command" =>
    /\ Resumes(s.mark[f], fr[f])
    /\ \E i \in DOMAIN al : al[i].depth = f /\ al[i].aside /\ al[i].blk = s.mark[f].blk

\* The string that grows has the space on top of the stack.
Growing(s, u) ==
  /\ u \in Strings
  /\ u.on => LET len == u.dest.off - s.nxt.off
             IN /\ u.dest.blk = s.nxt.blk /\ 0 <= len /\ len <= s.left
                /\ s.sstr = s.left - len

Stacked(s, fr, al) == Chained(s) /\ Marked(s, fr) /\ Noted(s, fr, al) /\ Asides(s, fr, al)

\* The inductive invariant.
MInv == Stacked(st, frames, allocs) /\ Growing(st, str)

USE ConstAssumption

-----------------------------------------------------------------------------
(* Numbers.                                                                *)

LEMMA LeastOf ==
  ASSUME NEW S, S \subseteq Nat, S # {}
  PROVE  \E x \in S : \A y \in S : x <= y
  <1>1. PICK x \in S : \A y \in S : ~(<<y, x>> \in OpToRel(<, Nat))
    BY NatLessThanWellFounded, WFMin, Zenon
  <1>2. ASSUME NEW y \in S, y < x PROVE FALSE
    <2>1. <<y, x>> \in Nat \X Nat
      BY <1>2
    <2>2. <<y, x>>[1] < <<y, x>>[2]
      BY <1>2
    <2> QED
      BY <1>1, <2>1, <2>2 DEF OpToRel
  <1> QED
    BY <1>2

LEMMA MinIn ==
  ASSUME NEW S, S \subseteq Nat, S # {}
  PROVE  Min(S) \in S /\ \A y \in S : Min(S) <= y
  <1>1. \E x \in S : \A y \in S : x <= y
    BY LeastOf
  <1> QED
    BY <1>1 DEF Min

LEMMA MaxIn ==
  ASSUME NEW n \in Nat, NEW S, S \subseteq 0..n, S # {}
  PROVE  Max(S) \in S /\ \A y \in S : Max(S) >= y
  <1> DEFINE T == {n - x : x \in S}
  <1>1. T \subseteq Nat /\ T # {}
    <2>1. ASSUME NEW x \in S PROVE n - x \in Nat
      <3>1. x \in 0..n
        OBVIOUS
      <3> QED
        BY ONLY <3>1, n \in Nat
    <2> QED
      BY ONLY <2>1, S # {}
  <1>2. \E y \in T : \A z \in T : y <= z
    <2> HIDE DEF T
    <2> QED
      BY <1>1, LeastOf
  <1>3. PICK y \in T : \A z \in T : y <= z
    BY <1>2
  <1>4. PICK x \in S : y = n - x
    BY <1>3
  <1>5. ASSUME NEW z \in S PROVE x >= z
    <2>1. y <= n - z /\ z \in Int /\ x \in Int
      BY <1>3
    <2> QED
      BY ONLY <1>4, <2>1, n \in Nat
  <1> QED
    BY <1>5 DEF Max

LEMMA Units ==
  ASSUME NEW n \in Int
  PROVE  /\ n \div Unit \in Int /\ n % Unit \in 0..(Unit - 1)
         /\ n = (n \div Unit) * Unit + (n % Unit)
  BY Unit \in Nat \ {0, 1}

LEMMA Multiple ==
  ASSUME NEW k \in Int
  PROVE  Aligned(k * Unit)
  BY Unit \in Nat \ {0, 1} DEF Aligned

LEMMA Multiples ==
  ASSUME NEW n \in Int, Aligned(n)
  PROVE  \E k \in Int : n = k * Unit
  <1>1. n \div Unit \in Int /\ n = (n \div Unit) * Unit + (n % Unit) /\ n % Unit = 0
    BY Units DEF Aligned
  <1>2. PICK k \in Int : k = n \div Unit
    BY <1>1
  <1>3. n = k * Unit
    BY ONLY <1>1, <1>2, k \in Int, Unit \in Nat \ {0, 1}
  <1> QED
    BY <1>3

\* Sums and differences of aligned sizes are aligned.
LEMMA AlignedSum ==
  ASSUME NEW a \in Int, NEW b \in Int, Aligned(a), Aligned(b)
  PROVE  Aligned(a + b) /\ Aligned(a - b)
  <1>1. PICK k \in Int : a = k * Unit
    BY Multiples
  <1>2. PICK l \in Int : b = l * Unit
    BY Multiples
  <1>3. a + b = (k + l) * Unit /\ a - b = (k - l) * Unit /\ k + l \in Int /\ k - l \in Int
    BY ONLY <1>1, <1>2, k \in Int, l \in Int, Unit \in Nat \ {0, 1}
  <1> QED
    BY <1>3, Multiple

\* What SHELL_ALIGN makes of a size is aligned, enough, and no more than what is left
\* when that is enough.
LEMMA AlignRight ==
  ASSUME NEW n \in Int
  PROVE  /\ Align(n) \in Int /\ Aligned(Align(n)) /\ n <= Align(n)
         /\ \A m \in Int : Aligned(m) /\ n <= m => Align(n) <= m
  <1>1. PICK k \in Int, r \in 0..(Unit - 1) :
          k = (n + Unit - 1) \div Unit /\ n + Unit - 1 = k * Unit + r
    <2>1. n + Unit - 1 \in Int
      OBVIOUS
    <2>2. PICK m \in Int : m = n + Unit - 1
      BY <2>1
    <2>3. /\ m \div Unit \in Int /\ m % Unit \in 0..(Unit - 1)
          /\ m = (m \div Unit) * Unit + (m % Unit)
      BY ONLY Units, m \in Int
    <2> QED
      BY ONLY <2>2, <2>3
  <1>2. Align(n) = k * Unit
    BY <1>1 DEF Align
  <1>3. k * Unit \in Int /\ n <= k * Unit
    BY ONLY <1>1, n \in Int, k \in Int, r \in 0..(Unit - 1), Unit \in Nat \ {0, 1}
  <1>4. ASSUME NEW m \in Int, Aligned(m), n <= m PROVE k * Unit <= m
    <2>1. PICK l \in Int : m = l * Unit
      BY <1>4, Multiples
    <2>2. k * Unit < l * Unit + Unit
      <3>1. PICK a \in Int, b \in Int : a = k * Unit /\ b = l * Unit
        BY ONLY k \in Int, l \in Int, Unit \in Nat \ {0, 1}
      <3>2. a < b + Unit
        BY ONLY <1>1, <1>4, <2>1, <3>1, n \in Int, Unit \in Nat \ {0, 1}
      <3> QED
        BY ONLY <3>1, <3>2
    <2>3. k * Unit <= l * Unit
      BY ONLY <2>2, k \in Int, l \in Int, Unit \in Nat \ {0, 1}
    <2> QED
      BY ONLY <2>1, <2>3
  <1> QED
    BY <1>2, <1>3, <1>4, Multiple

-----------------------------------------------------------------------------
(* Blocks.                                                                 *)

\* Each block has its place in the chain.
LEMMA Places ==
  ASSUME NEW s, Listed(s)
  PROVE  /\ Len(s.chain) \in Nat \ {0}
         /\ \A b \in Ids(s) : /\ Pos(s, b) \in 1..Len(s.chain) /\ b \in Names
                              /\ s.chain[Pos(s, b)].id = b
                              /\ SizeOf(s, b) = s.chain[Pos(s, b)].size
                              /\ SizeOf(s, b) \in Nat \ {0}
         /\ \A i \in 1..Len(s.chain) : /\ s.chain[i] \in Blocks /\ s.chain[i].id \in Ids(s)
                                       /\ Pos(s, s.chain[i].id) = i
                                       /\ SizeOf(s, s.chain[i].id) = s.chain[i].size
         /\ stackp(s).id \in Ids(s) /\ Pos(s, stackp(s).id) = Len(s.chain)
         /\ SizeOf(s, stackp(s).id) = stackp(s).size
         /\ 1 \in Ids(s) /\ Pos(s, 1) = 1
  <1> DEFINE q == s.chain
  <1>1. q \in Seq(Blocks) /\ q # <<>> /\ q[1].id = 1
    BY DEF Listed
  <1>2. \A i, j \in DOMAIN q : q[i].id = q[j].id => i = j
    BY DEF Listed
  <1>3. \A b : b \in Ids(s) <=> \E i \in DOMAIN q : q[i].id = b
    BY DEF Ids, ToSet
  <1>4. stackp(s) = q[Len(q)]
    BY DEF stackp, Last
  <1>5. \A b : Pos(s, b) = CHOOSE i \in DOMAIN q : q[i].id = b
    BY DEF Pos
  <1>6. \A b : SizeOf(s, b) = (CHOOSE c \in ToSet(q) : c.id = b).size
    BY DEF SizeOf
  <1>7. \A c : c \in ToSet(q) <=> \E i \in DOMAIN q : c = q[i]
    BY DEF ToSet
  <1> HIDE DEF q
  <1>8. /\ DOMAIN q = 1..Len(q) /\ Len(q) \in Nat \ {0} /\ Len(q) \in DOMAIN q /\ 1 \in DOMAIN q
        /\ \A i \in DOMAIN q : q[i] \in Blocks
    BY ONLY <1>1
  <1>9. ASSUME NEW i \in DOMAIN q
        PROVE  q[i].id \in Ids(s) /\ Pos(s, q[i].id) = i /\ SizeOf(s, q[i].id) = q[i].size
    <2>1. q[i].id \in Ids(s)
      BY ONLY <1>3, i \in DOMAIN q
    <2>2. Pos(s, q[i].id) \in DOMAIN q /\ q[Pos(s, q[i].id)].id = q[i].id
      BY ONLY <1>5, i \in DOMAIN q
    <2>3. Pos(s, q[i].id) = i
      BY ONLY <1>2, <2>2, i \in DOMAIN q
    <2> DEFINE c == CHOOSE c \in ToSet(q) : c.id = q[i].id
    <2>4. c \in ToSet(q) /\ c.id = q[i].id
      BY ONLY <1>7, i \in DOMAIN q
    <2>5. c = q[i]
      <3> HIDE DEF c
      <3> QED
        BY ONLY <1>2, <1>7, <2>4, i \in DOMAIN q
    <2> QED
      BY ONLY <1>6, <2>1, <2>3, <2>5
  <1>10. ASSUME NEW b \in Ids(s)
         PROVE  /\ Pos(s, b) \in DOMAIN q /\ b \in Names /\ q[Pos(s, b)].id = b
                /\ SizeOf(s, b) = q[Pos(s, b)].size /\ SizeOf(s, b) \in Nat \ {0}
    <2>1. PICK i \in DOMAIN q : q[i].id = b
      BY <1>3
    <2>2. Pos(s, b) = i /\ SizeOf(s, b) = q[i].size
      BY ONLY <1>9, <2>1
    <2>3. q[i] \in Blocks
      BY ONLY <1>8, i \in DOMAIN q
    <2>4. q[i].id \in Names /\ q[i].size \in Nat \ {0}
      BY ONLY <2>3 DEF Blocks
    <2> QED
      BY ONLY <2>1, <2>2, <2>4, i \in DOMAIN q
  <1>11. q = s.chain
    BY DEF q
  <1> QED
    BY ONLY <1>1, <1>4, <1>8, <1>9, <1>10, <1>11

\* The blocks of N are where they were, and as large.
Keeps(s, x, N) ==
  \A b \in N : b \in Ids(x) /\ Pos(x, b) = Pos(s, b) /\ SizeOf(x, b) = SizeOf(s, b)

LEMMA KeepsUnder ==
  ASSUME NEW s, NEW x, NEW N, Keeps(s, x, N), NEW p, NEW q, p.blk \in N, q.blk \in N,
         Under(s, p, q)
  PROVE  Under(x, p, q)
  BY DEF Keeps, Under

LEMMA KeepsClear ==
  ASSUME NEW s, NEW x, NEW N, Keeps(s, x, N), NEW a, NEW q, a.blk \in N, q.blk \in N,
         Clear(s, a, q)
  PROVE  Clear(x, a, q)
  <1>1. End(a).blk = a.blk
    BY DEF End
  <1> QED
    BY <1>1, KeepsUnder DEF Clear

LEMMA KeepsRoom ==
  ASSUME NEW s, NEW x, NEW N, Keeps(s, x, N), NEW p, p.blk \in N, NEW left, Room(s, p, left)
  PROVE  Room(x, p, left)
  BY DEF Keeps, Room

\* Pointers are ordered.
LEMMA UnderOver ==
  ASSUME NEW s, Listed(s), NEW p, NEW q, NEW r, p.off \in Int, q.off \in Int, r.off \in Int,
         Under(s, p, q), Under(s, q, r)
  PROVE  Under(s, p, r)
  <1>1. /\ p.blk \in Ids(s) /\ q.blk \in Ids(s) /\ r.blk \in Ids(s)
        /\ Pos(s, p.blk) \in Int /\ Pos(s, q.blk) \in Int /\ Pos(s, r.blk) \in Int
    BY Places DEF Under
  <1> QED
    BY <1>1 DEF Under

LEMMA ClearOver ==
  ASSUME NEW s, Listed(s), NEW a \in Allocs, NEW q, NEW r, q.off \in Int, r.off \in Int,
         Clear(s, a, q), Under(s, q, r)
  PROVE  Clear(s, a, r)
  <1>1. End(a).off \in Int /\ End(a).blk = a.blk
    BY DEF End, Allocs
  <1>2. Under(s, End(a), r)
    BY <1>1, UnderOver DEF Clear
  <1>3. ASSUME a.blk = r.blk PROVE r.off > 0
    <2>1. Pos(s, a.blk) \in Int /\ Pos(s, q.blk) \in Int
      BY Places DEF Under, Clear, End
    <2>2. a.blk = q.blk
      BY <1>1, <1>3, <2>1 DEF Under, Clear
    <2>3. q.off > 0 /\ q.off <= r.off
      BY <1>3, <2>2 DEF Under, Clear
    <2> QED
      BY ONLY <2>3, q.off \in Int, r.off \in Int
  <1> QED
    BY <1>2, <1>3 DEF Clear

\* Blocks whose place in the chain is as it was are kept.
LEMMA KeepsFrom ==
  ASSUME NEW s, NEW x, Listed(s), Listed(x), NEW N, N \subseteq Ids(s),
         \A b \in N : Pos(s, b) \in 1..Len(x.chain)
                      /\ x.chain[Pos(s, b)] = s.chain[Pos(s, b)]
  PROVE  Keeps(s, x, N)
  <1> SUFFICES ASSUME NEW b \in N
               PROVE  b \in Ids(x) /\ Pos(x, b) = Pos(s, b) /\ SizeOf(x, b) = SizeOf(s, b)
    BY DEF Keeps
  <1>1. /\ Pos(s, b) \in 1..Len(x.chain) /\ x.chain[Pos(s, b)] = s.chain[Pos(s, b)]
        /\ s.chain[Pos(s, b)].id = b /\ SizeOf(s, b) = s.chain[Pos(s, b)].size
    BY Places
  <1>2. PICK i \in 1..Len(x.chain) : i = Pos(s, b)
    BY <1>1
  <1>3. x.chain[i].id \in Ids(x) /\ Pos(x, x.chain[i].id) = i
        /\ SizeOf(x, x.chain[i].id) = x.chain[i].size
    BY ONLY Listed(x), i \in 1..Len(x.chain), Places
  <1> QED
    BY ONLY <1>1, <1>2, <1>3

LEMMA SameChain ==
  ASSUME NEW s, NEW x, x.chain = s.chain
  PROVE  /\ Ids(x) = Ids(s) /\ stackp(x) = stackp(s) /\ (Listed(s) => Listed(x))
         /\ Keeps(s, x, Ids(s))
         /\ \A p, q : Under(x, p, q) <=> Under(s, p, q)
         /\ \A a, q : Clear(x, a, q) <=> Clear(s, a, q)
         /\ \A p, left : Room(x, p, left) <=> Room(s, p, left)
  <1>1. Ids(x) = Ids(s) /\ stackp(x) = stackp(s) /\ (Listed(s) => Listed(x))
    BY DEF Ids, stackp, Listed
  <1>2. \A b : Pos(x, b) = Pos(s, b) /\ SizeOf(x, b) = SizeOf(s, b)
    BY DEF Pos, SizeOf
  <1>3. Keeps(s, x, Ids(s))
    BY <1>1, <1>2 DEF Keeps
  <1>4. \A p, q : Under(x, p, q) <=> Under(s, p, q)
    BY ONLY <1>1, <1>2 DEF Under
  <1>5. \A a, q : Clear(x, a, q) <=> Clear(s, a, q)
    BY ONLY <1>4 DEF Clear
  <1>6. \A p, left : Room(x, p, left) <=> Room(s, p, left)
    BY ONLY <1>1, <1>2 DEF Room
  <1> QED
    BY ONLY <1>1, <1>3, <1>4, <1>5, <1>6

\* A block that is new goes on top.
LEMMA AddedBlock ==
  ASSUME NEW s, NEW x, Listed(s), NEW b \in Blocks, b.id \notin Ids(s),
         x.chain = Append(s.chain, b)
  PROVE  /\ Listed(x) /\ Keeps(s, x, Ids(s)) /\ stackp(x) = b
         /\ b.id \in Ids(x) /\ SizeOf(x, b.id) = b.size
         /\ \A c \in Ids(s) : Pos(x, c) < Pos(x, b.id)
  <1> DEFINE q == s.chain
             n == Len(s.chain)
  <1>1. /\ q \in Seq(Blocks) /\ q # <<>> /\ q[1] = [id |-> 1, size |-> MINSIZE]
        /\ \A i, j \in DOMAIN q : q[i].id = q[j].id => i = j
    BY DEF Listed
  <1>2. n \in Nat \ {0} /\ \A i \in 1..n : q[i].id \in Ids(s)
    BY Places
  <1>3. x.chain = Append(q, b) /\ n = Len(q)
    OBVIOUS
  <1>12. s.chain = q
    OBVIOUS
  <1> HIDE DEF q, n
  <1>4. /\ x.chain \in Seq(Blocks) /\ Len(x.chain) = n + 1 /\ DOMAIN x.chain = 1..(n + 1)
        /\ x.chain[n + 1] = b /\ \A i \in 1..n : x.chain[i] = q[i]
        /\ DOMAIN q = 1..n
    BY ONLY <1>1, <1>2, <1>3, b \in Blocks
  <1>5. /\ \A i \in 1..(n + 1) : i \in 1..n \/ i = n + 1
        /\ 1 \in 1..n /\ n + 1 \in 1..(n + 1) /\ \A i \in 1..n : i \in 1..(n + 1) /\ i < n + 1
        /\ n + 1 \in Nat /\ n + 1 # 0
    BY ONLY <1>2
  <1>6. x.chain # <<>> /\ x.chain[1] = [id |-> 1, size |-> MINSIZE]
    <2>1. Len(x.chain) # 0
      BY ONLY <1>4, <1>5
    <2>2. x.chain # <<>>
      BY ONLY <2>1
    <2> QED
      BY ONLY <1>1, <1>4, <1>5, <2>2
  <1>7. ASSUME NEW i \in 1..(n + 1), NEW j \in 1..(n + 1), x.chain[i].id = x.chain[j].id
        PROVE  i = j
    BY ONLY <1>1, <1>2, <1>4, <1>5, <1>7, b.id \notin Ids(s)
  <1>8. Listed(x)
    BY ONLY <1>4, <1>6, <1>7 DEF Listed
  <1>9. Keeps(s, x, Ids(s))
    <2>1. ASSUME NEW c \in Ids(s)
          PROVE  Pos(s, c) \in 1..Len(x.chain) /\ x.chain[Pos(s, c)] = s.chain[Pos(s, c)]
      <3>1. Pos(s, c) \in 1..n
        BY Places DEF n
      <3> QED
        BY ONLY <1>4, <1>5, <1>12, <3>1
    <2> QED
      BY ONLY <1>8, <2>1, Listed(s), KeepsFrom
  <1>10. stackp(x) = b /\ b.id \in Ids(x) /\ SizeOf(x, b.id) = b.size /\ Pos(x, b.id) = n + 1
    <2>1. stackp(x) = b
      BY <1>4 DEF stackp, Last
    <2> QED
      BY ONLY <1>4, <1>8, <2>1, Places
  <1>11. ASSUME NEW c \in Ids(s) PROVE Pos(x, c) < Pos(x, b.id)
    <2>1. Pos(s, c) \in 1..n
      BY Places DEF n
    <2>2. Pos(x, c) = Pos(s, c)
      BY ONLY <1>9, c \in Ids(s) DEF Keeps
    <2> QED
      BY ONLY <1>5, <1>10, <2>1, <2>2
  <1> QED
    BY ONLY <1>8, <1>9, <1>10, <1>11

\* The blocks above the block b are released.
LEMMA CutBlocks ==
  ASSUME NEW s, NEW x, Listed(s), NEW b \in Ids(s), x.chain = SubSeq(s.chain, 1, Pos(s, b))
  PROVE  /\ Listed(x) /\ stackp(x).id = b
         /\ Keeps(s, x, {c \in Ids(s) : Pos(s, c) <= Pos(s, b)})
  <1> DEFINE q == s.chain
             n == Len(s.chain)
             k == Pos(s, b)
             N == {c \in Ids(s) : Pos(s, c) <= k}
  <1>1. /\ q \in Seq(Blocks) /\ q # <<>> /\ q[1] = [id |-> 1, size |-> MINSIZE]
        /\ \A i, j \in DOMAIN q : q[i].id = q[j].id => i = j
    BY DEF Listed
  <1>2. n \in Nat \ {0} /\ k \in 1..n /\ q[k].id = b
    BY Places
  <1>3. x.chain = SubSeq(q, 1, k) /\ n = Len(q) /\ s.chain = q
    OBVIOUS
  <1>9. \A c \in Ids(s) : Pos(s, c) \in 1..n
    BY Places
  <1> HIDE DEF q, n, k
  <1>4. /\ x.chain \in Seq(Blocks) /\ Len(x.chain) = k /\ DOMAIN x.chain = 1..k
        /\ \A i \in 1..k : x.chain[i] = q[i] /\ i \in 1..n
        /\ DOMAIN q = 1..n /\ 1 \in 1..k /\ k \in 1..k
    <2>1. k \in Nat \ {0} /\ k <= n
      BY ONLY <1>2
    <2>2. \A i \in 1..k : i \in 1..n
      BY ONLY <1>2
    <2>3. \A i \in 1..k : q[i] \in Blocks
      BY ONLY <1>1, <1>3, <2>2
    <2>4. Len(x.chain) = k /\ DOMAIN x.chain = 1..k /\ \A i \in 1..k : x.chain[i] = q[i]
      BY ONLY <1>1, <1>3, <2>1
    <2>5. x.chain \in Seq(Blocks)
      BY ONLY <1>1, <1>3, <2>1, <2>2, <2>3, <2>4
    <2> QED
      BY ONLY <1>1, <1>3, <2>1, <2>2, <2>4, <2>5
  <1>5. x.chain # <<>> /\ x.chain[1] = [id |-> 1, size |-> MINSIZE]
    <2>1. Len(x.chain) # 0
      BY ONLY <1>2, <1>4
    <2> QED
      BY ONLY <1>1, <1>4, <2>1
  <1>6. Listed(x)
    BY ONLY <1>1, <1>4, <1>5 DEF Listed
  <1>7. stackp(x).id = b
    BY ONLY <1>2, <1>4 DEF stackp, Last
  <1>8. Keeps(s, x, N)
    <2>1. ASSUME NEW c \in N
          PROVE  Pos(s, c) \in 1..Len(x.chain) /\ x.chain[Pos(s, c)] = s.chain[Pos(s, c)]
      <3>1. Pos(s, c) \in 1..n /\ Pos(s, c) <= k
        BY <1>9
      <3>2. Pos(s, c) \in 1..k
        BY ONLY <1>2, <3>1
      <3> QED
        BY ONLY <1>3, <1>4, <3>2
    <2>2. N \subseteq Ids(s)
      OBVIOUS
    <2> QED
      BY ONLY <1>6, <2>1, <2>2, Listed(s), KeepsFrom
  <1> QED
    BY <1>6, <1>7, <1>8 DEF k

\* The block on top, which is not the first, has moved and has another size.
LEMMA MovedBlock ==
  ASSUME NEW s, NEW x, Listed(s), Len(s.chain) > 1, NEW b \in Blocks,
         b.id \notin Ids(s) \ {stackp(s).id},
         x.chain = [s.chain EXCEPT ![Len(s.chain)] = b]
  PROVE  /\ Listed(x) /\ Keeps(s, x, Ids(s) \ {stackp(s).id}) /\ stackp(x) = b
         /\ b.id \in Ids(x) /\ SizeOf(x, b.id) = b.size
         /\ \A c \in Ids(s) \ {stackp(s).id} : Pos(x, c) < Pos(x, b.id)
         /\ stackp(s).id # 1
  <1> DEFINE q == s.chain
             n == Len(s.chain)
             t == stackp(s).id
             N == Ids(s) \ {t}
  <1>1. /\ q \in Seq(Blocks) /\ q # <<>> /\ q[1] = [id |-> 1, size |-> MINSIZE]
        /\ \A i, j \in DOMAIN q : q[i].id = q[j].id => i = j
    BY DEF Listed
  <1>2. n \in Nat \ {0} /\ n > 1 /\ (\A i \in 1..n : q[i].id \in Ids(s)) /\ q[n].id = t
    BY Places DEF stackp, Last
  <1>3. x.chain = [q EXCEPT ![n] = b] /\ n = Len(q) /\ s.chain = q
    OBVIOUS
  <1>4. \A c \in N : Pos(s, c) \in 1..n /\ Pos(s, c) # n
    <2> SUFFICES ASSUME NEW c \in N PROVE Pos(s, c) \in 1..n /\ Pos(s, c) # n
      OBVIOUS
    <2>1. Pos(s, c) \in 1..n /\ q[Pos(s, c)].id = c
      BY Places
    <2> QED
      BY ONLY <1>2, <2>1, c \in N
  <1>13. N \subseteq Ids(s) /\ b.id \notin N
    OBVIOUS
  <1> HIDE DEF q, n, t
  <1>5. /\ DOMAIN q = 1..n /\ n \in 1..n /\ 1 \in 1..n /\ 1 # n
        /\ \A i \in 1..n : i < n \/ i = n
    BY ONLY <1>1, <1>2, <1>3
  <1>6. /\ x.chain \in Seq(Blocks) /\ Len(x.chain) = n /\ DOMAIN x.chain = 1..n
        /\ x.chain[n] = b /\ \A i \in 1..n : i # n => x.chain[i] = q[i]
    BY ONLY <1>1, <1>2, <1>3, <1>5, b \in Blocks
  <1>7. x.chain # <<>> /\ x.chain[1] = [id |-> 1, size |-> MINSIZE]
    <2>1. Len(x.chain) # 0
      BY ONLY <1>2, <1>6
    <2> QED
      BY ONLY <1>1, <1>5, <1>6, <2>1
  <1>8. \A i \in 1..n : i # n => q[i].id \in N
    BY ONLY <1>1, <1>2, <1>5 DEF N
  <1>9. ASSUME NEW i \in 1..n, NEW j \in 1..n, x.chain[i].id = x.chain[j].id
        PROVE  i = j
    BY ONLY <1>1, <1>5, <1>6, <1>8, <1>9, <1>13
  <1>10. Listed(x)
    BY ONLY <1>6, <1>7, <1>9 DEF Listed
  <1>11. Keeps(s, x, N)
    <2>1. ASSUME NEW c \in N
          PROVE  Pos(s, c) \in 1..Len(x.chain) /\ x.chain[Pos(s, c)] = s.chain[Pos(s, c)]
      BY ONLY <1>3, <1>4, <1>6, c \in N
    <2> QED
      BY ONLY <1>10, <1>13, <2>1, Listed(s), KeepsFrom
  <1>12. stackp(x) = b /\ b.id \in Ids(x) /\ SizeOf(x, b.id) = b.size /\ Pos(x, b.id) = n
    <2>1. stackp(x) = b
      BY <1>6 DEF stackp, Last
    <2> QED
      BY ONLY <1>6, <1>10, <2>1, Places
  <1>14. ASSUME NEW c \in N PROVE Pos(x, c) < Pos(x, b.id)
    <2>1. Pos(x, c) = Pos(s, c)
      BY ONLY <1>11, c \in N DEF Keeps
    <2>2. Pos(s, c) \in 1..n /\ Pos(s, c) # n
      BY ONLY <1>4, c \in N
    <2> QED
      BY ONLY <1>5, <1>12, <2>1, <2>2
  <1>15. t # 1
    BY ONLY <1>1, <1>2, <1>5
  <1> QED
    BY <1>10, <1>11, <1>12, <1>14, <1>15 DEF t

-----------------------------------------------------------------------------
(* The stack.                                                              *)

\* Types, for the steps below.
LEMMA StackTypes ==
  ASSUME NEW s, Chained(s)
  PROVE  /\ s \in States /\ Listed(s) /\ s.chain \in Seq(Blocks)
         /\ s.nxt \in Ptrs /\ s.nxt.blk \in Names /\ s.nxt.off \in Int /\ s.left \in Int
         /\ s.sstr \in Int /\ s.markp \in Int
         /\ s.mark \in [1..MaxFrames -> Marks]
         /\ \A f \in 1..MaxFrames : /\ s.mark[f] \in Marks /\ s.mark[f].nxt \in Ptrs
                                    /\ s.mark[f].nxt.off \in Int /\ s.mark[f].left \in Int
                                    /\ s.mark[f].sstr \in Int /\ s.mark[f].next \in Int
         /\ s.nxt.blk = stackp(s).id /\ s.nxt.blk \in Ids(s) /\ Room(s, s.nxt, s.left)
         /\ s.nxt.off >= 0 /\ s.left >= 0 /\ s.nxt.off + s.left = SizeOf(s, s.nxt.blk)
         /\ SizeOf(s, s.nxt.blk) = stackp(s).size /\ SizeOf(s, s.nxt.blk) \in Nat \ {0}
         /\ Aligned(s.nxt.off) /\ Aligned(s.left)
  <1>1. s \in States /\ Listed(s) /\ Topped(s)
    BY DEF Chained
  <1>2. /\ s.chain \in Seq(Blocks) /\ s.nxt \in Ptrs /\ s.left \in Int /\ s.sstr \in Int
        /\ s.markp \in Int /\ s.mark \in [1..MaxFrames -> Marks]
    BY ONLY <1>1 DEF States
  <1>3. s.nxt.blk \in Names /\ s.nxt.off \in Int
    BY ONLY <1>2 DEF Ptrs
  <1>4. ASSUME NEW f \in 1..MaxFrames
        PROVE  /\ s.mark[f] \in Marks /\ s.mark[f].nxt \in Ptrs
               /\ s.mark[f].nxt.off \in Int /\ s.mark[f].left \in Int
               /\ s.mark[f].sstr \in Int /\ s.mark[f].next \in Int
    <2>1. PICK m \in Marks : m = s.mark[f]
      BY ONLY <1>2
    <2>2. m.nxt \in Ptrs /\ m.left \in Int /\ m.sstr \in Int /\ m.next \in Int
      BY ONLY m \in Marks DEF Marks
    <2>3. m.nxt.off \in Int
      BY ONLY <2>2 DEF Ptrs
    <2> QED
      BY ONLY <2>1, <2>2, <2>3
  <1>5. s.nxt.blk = stackp(s).id /\ Room(s, s.nxt, s.left)
    BY ONLY <1>1 DEF Topped
  <1>6. /\ s.nxt.blk \in Ids(s) /\ s.nxt.off >= 0 /\ s.left >= 0
        /\ s.nxt.off + s.left = SizeOf(s, s.nxt.blk)
        /\ Aligned(s.nxt.off) /\ Aligned(s.left)
    BY ONLY <1>5 DEF Room
  <1>7. SizeOf(s, s.nxt.blk) = stackp(s).size /\ SizeOf(s, s.nxt.blk) \in Nat \ {0}
    BY ONLY <1>1, <1>5, <1>6, Places
  <1> QED
    BY ONLY <1>1, <1>2, <1>3, <1>4, <1>5, <1>6, <1>7

\* From s to x the top has gone up, and everything below is there.
Higher(s, x) ==
  /\ Chained(x) /\ Keeps(s, x, Ids(s)) /\ x.mark = s.mark /\ x.markp = s.markp
  /\ Under(x, s.nxt, x.nxt)

LEMMA HigherMarked ==
  ASSUME NEW s, Chained(s), NEW x, Higher(s, x), NEW fr, Marked(s, fr)
  PROVE  Marked(x, fr)
  <1>1. Listed(x) /\ Keeps(s, x, Ids(s)) /\ x.mark = s.mark /\ x.markp = s.markp
        /\ Under(x, s.nxt, x.nxt) /\ x.nxt.off \in Int
    BY StackTypes DEF Higher
  <1>2. Len(fr) \in 1..MaxFrames /\ \A f \in 1..Len(fr) : f \in 1..MaxFrames
    <2>1. Len(fr) \in 1..MaxFrames
      BY DEF Marked
    <2> QED
      BY ONLY <2>1, MaxFrames \in Nat \ {0}
  <1>3. ASSUME NEW f \in 1..Len(fr)
        PROVE  /\ Room(s, s.mark[f].nxt, s.mark[f].left) /\ Under(s, s.mark[f].nxt, s.nxt)
               /\ s.mark[f].nxt.blk \in Ids(s)
               /\ Room(x, s.mark[f].nxt, s.mark[f].left) /\ Under(x, s.mark[f].nxt, x.nxt)
    <2>1. Room(s, s.mark[f].nxt, s.mark[f].left) /\ Under(s, s.mark[f].nxt, s.nxt)
      BY DEF Marked
    <2>2. s.mark[f].nxt.blk \in Ids(s) /\ s.nxt.blk \in Ids(s)
      BY ONLY <2>1 DEF Under
    <2>3. Under(x, s.mark[f].nxt, s.nxt)
      BY ONLY <1>1, <2>1, <2>2, KeepsUnder
    <2>4. s.mark[f].nxt.off \in Int /\ s.nxt.off \in Int
      BY <1>2, StackTypes
    <2>5. Under(x, s.mark[f].nxt, x.nxt)
      BY ONLY <1>1, <2>3, <2>4, UnderOver
    <2>6. Room(x, s.mark[f].nxt, s.mark[f].left)
      BY ONLY <1>1, <2>1, <2>2, KeepsRoom
    <2> QED
      BY ONLY <2>1, <2>2, <2>5, <2>6
  <1>4. ASSUME NEW f \in 1..Len(fr), NEW g \in 1..Len(fr), f <= g
        PROVE  Under(x, s.mark[f].nxt, s.mark[g].nxt)
    <2>1. Under(s, s.mark[f].nxt, s.mark[g].nxt)
      BY <1>4 DEF Marked
    <2> QED
      BY ONLY <1>1, <1>3, <2>1, f \in 1..Len(fr), g \in 1..Len(fr), KeepsUnder
  <1> QED
    BY ONLY <1>1, <1>3, <1>4, Marked(s, fr) DEF Marked

LEMMA HigherNoted ==
  ASSUME NEW s, Chained(s), NEW x, Higher(s, x), NEW fr, Marked(s, fr), NEW al, Noted(s, fr, al)
  PROVE  Noted(x, fr, al)
  <1>1. Listed(x) /\ Keeps(s, x, Ids(s)) /\ x.mark = s.mark
        /\ Under(x, s.nxt, x.nxt) /\ x.nxt.off \in Int
    BY StackTypes DEF Higher
  <1>2. \A f \in 1..Len(fr) : s.mark[f].nxt.blk \in Ids(s)
    BY DEF Marked, Under
  <1>3. ASSUME NEW i \in DOMAIN al
        PROVE  al[i].blk \in Ids(s) /\ al[i].blk \in Ids(x) /\ Clear(x, al[i], x.nxt)
    <2>1. al[i] \in Allocs /\ al[i].blk \in Ids(s) /\ Clear(s, al[i], s.nxt)
      BY DEF Noted
    <2>2. s.nxt.blk \in Ids(s) /\ s.nxt.off \in Int
      BY StackTypes
    <2>3. Clear(x, al[i], s.nxt)
      BY ONLY <1>1, <2>1, <2>2, KeepsClear
    <2>4. Clear(x, al[i], x.nxt)
      BY ONLY <1>1, <2>1, <2>2, <2>3, ClearOver
    <2> QED
      BY ONLY <1>1, <2>1, <2>4 DEF Keeps
  <1>4. ASSUME NEW i \in DOMAIN al, NEW f \in 1..Len(fr)
        PROVE  IF al[i].depth < f THEN Clear(x, al[i], s.mark[f].nxt)
               ELSE Under(x, s.mark[f].nxt, al[i])
    <2>1. IF al[i].depth < f THEN Clear(s, al[i], s.mark[f].nxt)
          ELSE Under(s, s.mark[f].nxt, al[i])
      BY DEF Noted
    <2>2. Clear(s, al[i], s.mark[f].nxt) => Clear(x, al[i], s.mark[f].nxt)
      BY ONLY <1>1, <1>2, <1>3, i \in DOMAIN al, f \in 1..Len(fr), KeepsClear
    <2>3. Under(s, s.mark[f].nxt, al[i]) => Under(x, s.mark[f].nxt, al[i])
      BY ONLY <1>1, <1>2, <1>3, i \in DOMAIN al, f \in 1..Len(fr), KeepsUnder
    <2> QED
      BY ONLY <2>1, <2>2, <2>3
  <1>5. ASSUME NEW i \in DOMAIN al, NEW j \in DOMAIN al, i < j
        PROVE  al[i].depth <= al[j].depth /\ Clear(x, al[i], al[j])
    <2>1. al[i].depth <= al[j].depth /\ Clear(s, al[i], al[j])
      BY <1>5 DEF Noted
    <2> QED
      BY ONLY <1>1, <1>3, <2>1, i \in DOMAIN al, j \in DOMAIN al, KeepsClear
  <1> QED
    BY ONLY <1>1, <1>3, <1>4, <1>5, Noted(s, fr, al) DEF Noted

LEMMA HigherStacked ==
  ASSUME NEW s, NEW x, Higher(s, x), NEW fr, NEW al, Stacked(s, fr, al)
  PROVE  Stacked(x, fr, al)
  <1>1. Chained(s) /\ Marked(s, fr) /\ Noted(s, fr, al) /\ Asides(s, fr, al)
    BY DEF Stacked
  <1>2. Marked(x, fr) /\ Noted(x, fr, al)
    BY ONLY <1>1, Higher(s, x), HigherMarked, HigherNoted
  <1>3. Asides(x, fr, al)
    BY <1>1 DEF Higher, Asides
  <1> QED
    BY <1>2, <1>3 DEF Higher, Stacked

\* What sstrnleft says is of no concern to the stack.
LEMMA SameStack ==
  ASSUME NEW s, NEW x, Chained(s), x \in States, x.chain = s.chain, x.nxt = s.nxt,
         x.left = s.left, x.mark = s.mark, x.markp = s.markp
  PROVE  Higher(s, x)
  <1>1. Listed(x) /\ Keeps(s, x, Ids(s)) /\ stackp(x) = stackp(s) /\ Ids(x) = Ids(s)
        /\ \A p, left : Room(x, p, left) <=> Room(s, p, left)
    BY StackTypes, SameChain
  <1>2. Topped(x)
    BY <1>1, StackTypes DEF Topped
  <1>3. Under(x, s.nxt, x.nxt)
    BY <1>1, StackTypes DEF Under
  <1> QED
    BY <1>1, <1>2, <1>3 DEF Higher, Chained

LEMMA IdleStack ==
  ASSUME NEW s, Chained(s)
  PROVE  Higher(s, Idle(s)) /\ \A u : (u \in Strings /\ ~u.on) => Growing(Idle(s), u)
  <1> DEFINE x == Idle(s)
  <1>1. /\ x \in States /\ x.chain = s.chain /\ x.nxt = s.nxt /\ x.left = s.left
        /\ x.mark = s.mark /\ x.markp = s.markp
    <2>1. s \in States
      BY StackTypes
    <2> QED
      BY ONLY <2>1 DEF Idle, States
  <1> HIDE DEF x
  <1>2. Higher(s, x)
    BY ONLY <1>1, Chained(s), SameStack
  <1> QED
    BY <1>2 DEF x, Growing

LEMMA MaxPair ==
  ASSUME NEW a \in Int, NEW b \in Int
  PROVE  Max({a, b}) \in {a, b} /\ Max({a, b}) >= a /\ Max({a, b}) >= b
  <1>1. \E x \in {a, b} : \A y \in {a, b} : x >= y
    OBVIOUS
  <1>2. Max({a, b}) \in {a, b} /\ \A y \in {a, b} : Max({a, b}) >= y
    BY <1>1 DEF Max
  <1> QED
    BY <1>2

LEMMA AtRight ==
  ASSUME NEW p \in Ptrs, NEW n \in Int
  PROVE  At(p, n) \in Ptrs /\ At(p, n).blk = p.blk /\ At(p, n).off = p.off + n
  BY DEF At, Ptrs

\* stalloc allocates above everything, in the block on top or in a new one; what fits
\* into the block on top never needs a new one.
LEMMA StallocRight ==
  ASSUME NEW s, Chained(s), NEW n \in Nat, CanAlloc(s, n)
  PROVE  LET x == stalloc(s, n)
             p == Allocated(s, n)
         IN  /\ Higher(s, x) /\ x.sstr = s.sstr /\ x.left >= 0
             /\ p \in Ptrs /\ p.blk = x.nxt.blk /\ p.off >= 0 /\ Aligned(p.off)
             /\ x.nxt.off = p.off + Align(n) /\ Under(x, s.nxt, p)
             /\ n <= s.left => /\ p = s.nxt /\ x.chain = s.chain
                               /\ x.left = s.left - Align(n)
             /\ Align(n) > s.left => p.off = 0
  <1> DEFINE nb == Align(n)
             x == stalloc(s, n)
             p == Allocated(s, n)
             id == Min(Fresh(s))
             size == Max({nb, MINSIZE})
             b == [id |-> id, size |-> size]
  <1>1. nb \in Int /\ Aligned(nb) /\ n <= nb /\ \A m \in Int : Aligned(m) /\ n <= m => nb <= m
    BY AlignRight
  <1>2. /\ s \in States /\ Listed(s) /\ s.chain \in Seq(Blocks)
        /\ s.nxt \in Ptrs /\ s.nxt.off \in Int /\ s.left \in Int
        /\ s.nxt.blk = stackp(s).id /\ s.nxt.blk \in Ids(s)
        /\ s.nxt.off >= 0 /\ s.left >= 0 /\ s.nxt.off + s.left = SizeOf(s, s.nxt.blk)
        /\ Aligned(s.nxt.off) /\ Aligned(s.left)
    BY StackTypes
  <1>3. p = At(x.nxt, -nb)
    BY DEF Allocated
  <1>4. CASE nb <= s.left
    <2>1. x = [s EXCEPT !.nxt = At(s.nxt, nb), !.left = s.left - nb]
      BY <1>4 DEF stalloc
    <2> HIDE DEF nb, x, p
    <2>2. At(s.nxt, nb) \in Ptrs /\ At(s.nxt, nb).blk = s.nxt.blk /\ At(s.nxt, nb).off = s.nxt.off + nb
      BY ONLY <1>1, <1>2, AtRight
    <2>3. s.left - nb \in Int /\ s.left - nb >= 0 /\ nb >= 0
      BY ONLY <1>1, <1>2, <1>4, n \in Nat
    <2>4. /\ x \in States /\ x.chain = s.chain /\ x.nxt = At(s.nxt, nb) /\ x.left = s.left - nb
          /\ x.sstr = s.sstr /\ x.mark = s.mark /\ x.markp = s.markp
      BY ONLY <1>2, <2>1, <2>2, <2>3 DEF States
    <2>5. Listed(x) /\ Keeps(s, x, Ids(s)) /\ stackp(x) = stackp(s) /\ Ids(x) = Ids(s)
          /\ (\A c \in Ids(s) : SizeOf(x, c) = SizeOf(s, c))
          /\ \A y, z : Under(x, y, z) <=> Under(s, y, z)
      BY ONLY <1>2, <2>4, SameChain DEF Keeps
    <2>6. Topped(x)
      <3>1. Aligned(x.nxt.off) /\ Aligned(x.left)
        BY ONLY <1>1, <1>2, <2>2, <2>4, AlignedSum
      <3>2. x.nxt.off >= 0 /\ x.left >= 0 /\ x.nxt.off + x.left = SizeOf(x, x.nxt.blk)
        BY ONLY <1>1, <1>2, <2>2, <2>3, <2>4, <2>5
      <3>3. x.nxt.blk \in Ids(x) /\ x.nxt.blk = stackp(x).id
        BY ONLY <1>2, <2>2, <2>4, <2>5
      <3> QED
        BY ONLY <3>1, <3>2, <3>3 DEF Topped, Room
    <2>7. p = s.nxt
      <3>1. p = At(At(s.nxt, nb), -nb)
        BY ONLY <1>3, <2>4
      <3>2. -nb \in Int /\ (s.nxt.off + nb) + (-nb) = s.nxt.off
        BY ONLY <1>1, <1>2
      <3>3. p \in Ptrs /\ p.blk = s.nxt.blk /\ p.off = (s.nxt.off + nb) + (-nb)
        BY ONLY <2>2, <3>1, <3>2, AtRight
      <3> QED
        BY ONLY <1>2, <3>2, <3>3 DEF Ptrs
    <2>8. Under(x, s.nxt, x.nxt) /\ Under(x, s.nxt, s.nxt)
      <3>1. x.nxt.blk = s.nxt.blk /\ s.nxt.off <= x.nxt.off /\ s.nxt.off <= s.nxt.off
        BY ONLY <1>1, <1>2, <2>2, <2>3, <2>4
      <3> QED
        BY ONLY <1>2, <2>5, <3>1 DEF Under
    <2>9. Higher(s, x)
      BY ONLY <2>4, <2>5, <2>6, <2>8 DEF Higher, Chained
    <2>10. ~(nb > s.left)
      BY ONLY <1>1, <1>2, <1>4
    <2> QED
      BY ONLY <1>2, <2>2, <2>3, <2>4, <2>7, <2>8, <2>9, <2>10 DEF nb, x, p
  <1>5. CASE ~(nb <= s.left)
    <2>1. x = [s EXCEPT !.chain = Append(s.chain, b), !.nxt = At([blk |-> id, off |-> 0], nb),
                        !.left = size - nb]
      <3>1. x = [[s EXCEPT !.chain = Append(@, b), !.nxt = [blk |-> id, off |-> 0],
                           !.left = size]
                   EXCEPT !.nxt = At(@, nb), !.left = @ - nb]
        BY <1>5 DEF stalloc
      <3> HIDE DEF nb, x, p, size, id, b
      <3>2. s.chain = s.chain /\ s \in States
        BY ONLY <1>2
      <3> QED
        BY ONLY <3>1, <3>2 DEF States
    <2>2. id \in Names /\ id \notin Ids(s)
      <3>1. Fresh(s) # {}
        BY <1>1, <1>2, <1>5 DEF CanAlloc
      <3>2. Fresh(s) \subseteq Nat
        BY DEF Fresh
      <3>3. id \in Fresh(s)
        BY ONLY <3>1, <3>2, MinIn
      <3> QED
        BY ONLY <3>3 DEF Fresh, Names
    <2>3. size \in {nb, MINSIZE} /\ size >= nb /\ size >= MINSIZE
      BY ONLY <1>1, MINSIZE \in Nat \ {0}, MaxPair
    <2>4. size \in Nat \ {0} /\ Aligned(size) /\ size - nb \in Int /\ size - nb >= 0 /\ nb >= 0
      <3>1. Aligned(MINSIZE)
        BY DEF Aligned
      <3> HIDE DEF nb, size
      <3> QED
        BY ONLY <1>1, <2>3, <3>1, MINSIZE \in Nat \ {0}, n \in Nat
    <2> HIDE DEF nb, x, p, size, id
    <2>5. b \in Blocks
      BY ONLY <2>2, <2>4 DEF Blocks
    <2> DEFINE z == [blk |-> id, off |-> 0]
    <2>6. z \in Ptrs /\ z.blk = id /\ z.off = 0
      BY ONLY <2>2 DEF Ptrs
    <2>7. At(z, nb) \in Ptrs /\ At(z, nb).blk = id /\ At(z, nb).off = nb
      <3>1. At(z, nb) \in Ptrs /\ At(z, nb).blk = z.blk /\ At(z, nb).off = z.off + nb
        BY ONLY <1>1, <2>6, AtRight
      <3> QED
        BY ONLY <1>1, <2>6, <3>1
    <2>17. b.id = id /\ b.size = size
      OBVIOUS
    <2> HIDE DEF z, b
    <2>8. /\ x \in States /\ x.chain = Append(s.chain, b) /\ x.nxt = At(z, nb) /\ x.left = size - nb
          /\ x.sstr = s.sstr /\ x.mark = s.mark /\ x.markp = s.markp
      <3>1. Append(s.chain, b) \in Seq(Blocks)
        BY ONLY <1>2, <2>5
      <3> QED
        BY ONLY <1>2, <2>1, <2>4, <2>7, <3>1 DEF States, z
    <2>9. /\ Listed(x) /\ Keeps(s, x, Ids(s)) /\ stackp(x) = b
          /\ id \in Ids(x) /\ SizeOf(x, id) = size
          /\ \A c \in Ids(s) : Pos(x, c) < Pos(x, id)
      BY ONLY <1>2, <2>2, <2>5, <2>8, <2>17, AddedBlock
    <2>10. Topped(x)
      <3>1. Aligned(x.nxt.off) /\ Aligned(x.left)
        <4>1. size \in Int /\ Aligned(size)
          BY ONLY <2>4
        <4>2. Aligned(size - nb)
          BY ONLY <1>1, <4>1, AlignedSum
        <4> QED
          BY ONLY <1>1, <2>7, <2>8, <4>2
      <3>2. x.nxt.off >= 0 /\ x.left >= 0 /\ x.nxt.off + x.left = SizeOf(x, x.nxt.blk)
        BY ONLY <1>1, <2>4, <2>7, <2>8, <2>9
      <3>3. x.nxt.blk \in Ids(x) /\ x.nxt.blk = stackp(x).id
        BY ONLY <2>7, <2>8, <2>9, <2>17
      <3> QED
        BY ONLY <3>1, <3>2, <3>3 DEF Topped, Room
    <2>11. p \in Ptrs /\ p.blk = id /\ p.off = 0
      <3>1. p = At(At(z, nb), -nb)
        BY ONLY <1>3, <2>8
      <3>2. -nb \in Int /\ nb + (-nb) = 0
        BY ONLY <1>1
      <3>3. p \in Ptrs /\ p.blk = id /\ p.off = nb + (-nb)
        BY ONLY <2>7, <3>1, <3>2, AtRight
      <3> QED
        BY ONLY <3>2, <3>3
    <2>12. Under(x, s.nxt, x.nxt) /\ Under(x, s.nxt, p)
      <3>1. s.nxt.blk \in Ids(x) /\ s.nxt.blk # id /\ Pos(x, s.nxt.blk) < Pos(x, id)
        BY ONLY <1>2, <2>2, <2>9 DEF Keeps
      <3> QED
        BY ONLY <2>7, <2>8, <2>9, <2>11, <3>1 DEF Under
    <2>13. Higher(s, x)
      BY ONLY <2>8, <2>9, <2>10, <2>12 DEF Higher, Chained
    <2>14. ~(n <= s.left)
      BY ONLY <1>1, <1>2, <1>5
    <2>15. Aligned(0)
      <3>1. Aligned(0 * Unit)
        BY ONLY 0 \in Int, Multiple
      <3> QED
        BY ONLY <3>1, Unit \in Nat \ {0, 1}
    <2>16. x.nxt.blk = id /\ x.nxt.off = 0 + nb /\ x.left >= 0
      BY ONLY <1>1, <2>4, <2>7, <2>8
    <2> QED
      BY ONLY <2>8, <2>11, <2>12, <2>13, <2>14, <2>15, <2>16 DEF nb, x, p
  <1> QED
    BY ONLY <1>4, <1>5

\* Growing adds at least two characters to what there is.
LEMMA NewLenRight ==
  ASSUME NEW s, Chained(s)
  PROVE  /\ NewLen(s) \in Nat \ {0} /\ Aligned(NewLen(s)) /\ NewLen(s) >= s.left + 2
         /\ Align(NewLen(s)) = NewLen(s)
  <1>1. s.left \in Int /\ s.left >= 0 /\ Extra \in Nat \ {0}
    BY StackTypes
  <1>2. PICK e \in Int : e = s.left * 2 + Extra /\ NewLen(s) = Align(e)
    BY <1>1 DEF NewLen
  <1>3. NewLen(s) \in Int /\ Aligned(NewLen(s)) /\ e <= NewLen(s)
    BY ONLY <1>2, AlignRight
  <1>4. PICK l \in Int : l = NewLen(s)
    BY ONLY <1>3
  <1>5. l >= 1
    BY ONLY <1>1, <1>2, <1>3, <1>4
  <1>6. l # 1
    <2> SUFFICES ASSUME l = 1 PROVE FALSE
      OBVIOUS
    <2>1. PICK k \in Int : l = k * Unit
      BY ONLY <1>3, <1>4, Multiples
    <2> QED
      BY ONLY <2>1, l = 1, k \in Int, Unit \in Nat \ {0, 1}
  <1>7. Align(l) = l
    <2>1. Align(l) \in Int /\ l <= Align(l) /\ Align(l) <= l
      BY ONLY <1>3, <1>4, AlignRight
    <2> QED
      BY ONLY <2>1
  <1> QED
    BY ONLY <1>1, <1>2, <1>3, <1>4, <1>5, <1>6, <1>7

\* The string moves to a block of its own.
LEMMA NewSpaceRight ==
  ASSUME NEW s, Chained(s), CanGrow(s), ~InPlace(s)
  PROVE  LET x == NewSpace(s)
         IN  Higher(s, x) /\ x.left >= NewLen(s)
  <1> DEFINE n == NewLen(s)
             a == stalloc(s, n)
             p == Allocated(s, n)
             x == [a EXCEPT !.nxt = p, !.left = @ + n]
  <1>1. n \in Nat \ {0} /\ Aligned(n) /\ n >= s.left + 2 /\ Align(n) = n
    BY NewLenRight
  <1>2. s.left \in Int /\ s.left >= 0
    BY StackTypes
  <1>3. CanAlloc(s, n)
    BY <1>1 DEF CanGrow, CanAlloc
  <1>4. x = NewSpace(s)
    BY DEF NewSpace
  <1> HIDE DEF n
  <1>5. n \in Nat /\ n > s.left
    BY ONLY <1>1, <1>2
  <1>6. /\ Higher(s, a) /\ a.left >= 0 /\ p \in Ptrs /\ p.blk = a.nxt.blk
        /\ a.nxt.off = p.off + Align(n) /\ Under(a, s.nxt, p) /\ p.off = 0 /\ Aligned(p.off)
    BY ONLY <1>1, <1>3, <1>5, Chained(s), StallocRight
  <1> HIDE DEF a, p
  <1>7. /\ Chained(a) /\ Keeps(s, a, Ids(s)) /\ a.mark = s.mark /\ a.markp = s.markp
    BY ONLY <1>6 DEF Higher
  <1>8. /\ a \in States /\ Listed(a) /\ a.left \in Int /\ a.nxt.blk = stackp(a).id
        /\ a.nxt.blk \in Ids(a) /\ a.nxt.off + a.left = SizeOf(a, a.nxt.blk) /\ Aligned(a.left)
    BY ONLY <1>7, StackTypes
  <1>9. /\ x \in States /\ x.chain = a.chain /\ x.nxt = p /\ x.left = a.left + n
        /\ x.mark = a.mark /\ x.markp = a.markp
    <2>1. PICK k \in Int : k = a.left + n
      BY ONLY <1>5, <1>8
    <2>2. x = [a EXCEPT !.nxt = p, !.left = k]
      BY ONLY <2>1
    <2> HIDE DEF x
    <2> QED
      BY ONLY <1>6, <1>8, <2>1, <2>2, k \in Int DEF States
  <1> HIDE DEF x
  <1>10. /\ Listed(x) /\ Ids(x) = Ids(a) /\ stackp(x) = stackp(a)
         /\ \A y, z : Under(x, y, z) <=> Under(a, y, z)
         /\ \A y, l : Room(x, y, l) <=> Room(a, y, l)
    BY ONLY <1>8, <1>9, SameChain
  <1>11. Room(a, p, x.left)
    <2>1. Aligned(x.left)
      <3>1. n \in Int /\ a.left \in Int /\ Aligned(n) /\ Aligned(a.left)
        BY ONLY <1>1, <1>5, <1>8
      <3>2. Aligned(a.left + n)
        BY ONLY <3>1, AlignedSum
      <3> QED
        BY ONLY <1>9, <3>2
    <2>2. x.left >= 0 /\ p.off >= 0 /\ p.off + x.left = SizeOf(a, p.blk)
      BY ONLY <1>1, <1>5, <1>6, <1>8, <1>9
    <2> QED
      BY ONLY <1>6, <1>8, <2>1, <2>2 DEF Room
  <1>12. Chained(x)
    BY ONLY <1>6, <1>8, <1>9, <1>10, <1>11 DEF Chained, Topped
  <1>13. Keeps(s, x, Ids(s))
    <2>1. \A c : Pos(x, c) = Pos(a, c) /\ SizeOf(x, c) = SizeOf(a, c)
      BY <1>9 DEF Pos, SizeOf
    <2> QED
      BY ONLY <1>7, <1>10, <2>1 DEF Keeps
  <1>14. Higher(s, x)
    BY ONLY <1>6, <1>7, <1>9, <1>10, <1>12, <1>13 DEF Higher
  <1>15. x.left >= n
    BY ONLY <1>5, <1>6, <1>8, <1>9
  <1> QED
    BY ONLY <1>4, <1>14, <1>15 DEF n

\* From s to x realloc has given the block on top the name id and another size, and
\* the marks at its start with it.
Renewed(s, x, id) ==
  LET t == stackp(s).id
  IN /\ Chained(x) /\ Keeps(s, x, Ids(s) \ {t}) /\ t # 1 /\ id \notin Ids(s) \ {t}
     /\ x.nxt.blk = id /\ x.nxt.off = 0 /\ x.left = NewLen(s) /\ x.markp = s.markp
     /\ \A c \in Ids(s) \ {t} : Pos(x, c) < Pos(x, id)
     /\ \A f \in 1..MaxFrames :
          IF f \in Relocated(s, t)
          THEN /\ x.mark[f].blk = id /\ x.mark[f].nxt = x.nxt
               /\ x.mark[f].left = x.left /\ x.mark[f].next = s.mark[f].next
          ELSE x.mark[f] = s.mark[f]

LEMMA RegrownRight ==
  ASSUME NEW s, Chained(s), InPlace(s), NEW id \in {stackp(s).id} \cup Fresh(s),
         NEW x, x = Regrown(s, id)
  PROVE  Renewed(s, x, id)
  <1> DEFINE new == NewLen(s)
             t == stackp(s).id
             b == [id |-> id, size |-> new]
             z == [blk |-> id, off |-> 0]
             R == Relocated(s, t)
             mk == [f \in 1..MaxFrames |->
                      IF f \in R
                      THEN [s.mark[f] EXCEPT !.blk = id, !.nxt = z,
                                             !.sstr = @ + new - s.mark[f].left, !.left = new]
                      ELSE s.mark[f]]
  <1>1. /\ s \in States /\ Listed(s) /\ s.chain \in Seq(Blocks) /\ s.sstr \in Int /\ s.left \in Int
        /\ s.mark \in [1..MaxFrames -> Marks] /\ t \in Ids(s)
        /\ \A f \in 1..MaxFrames : s.mark[f] \in Marks
    BY StackTypes
  <1>2. new \in Nat \ {0} /\ Aligned(new)
    BY NewLenRight
  <1>3. id \in Names /\ id \notin Ids(s) \ {t}
    <2>1. t \in Names
      BY <1>1, Places
    <2> QED
      BY <2>1 DEF Fresh, Names
  <1>4. Len(s.chain) > 1
    BY DEF InPlace
  <1>5. x = [s EXCEPT !.chain[Len(s.chain)] = b, !.nxt = z, !.sstr = @ + new - s.left,
                      !.left = new, !.mark = mk]
    <2> DEFINE y == [f \in DOMAIN s.mark |->
                       IF f \in R
                       THEN [s.mark[f] EXCEPT !.blk = id, !.nxt = [blk |-> id, off |-> 0],
                                              !.sstr = @ + new - s.mark[f].left, !.left = new]
                       ELSE s.mark[f]]
    <2>1. x = [s EXCEPT !.chain[Len(s.chain)] = b, !.nxt = z, !.sstr = @ + new - s.left,
                        !.left = new, !.mark = y]
      BY DEF Regrown
    <2>2. DOMAIN s.mark = 1..MaxFrames
      BY ONLY <1>1
    <2> HIDE DEF new, R
    <2>3. mk = y
      BY ONLY <2>2
    <2> HIDE DEF mk, y
    <2> QED
      BY ONLY <2>1, <2>3
  <1> HIDE DEF new, t, R
  <1>6. b \in Blocks /\ z \in Ptrs
    BY ONLY <1>2, <1>3 DEF Blocks, Ptrs
  <1>7. ASSUME NEW f \in 1..MaxFrames
        PROVE  /\ mk[f] \in Marks
               /\ IF f \in R THEN mk[f].blk = id /\ mk[f].nxt = z /\ mk[f].left = new
                                  /\ mk[f].next = s.mark[f].next
                  ELSE mk[f] = s.mark[f]
    <2>1. PICK m \in Marks : m = s.mark[f]
      BY ONLY <1>1, f \in 1..MaxFrames
    <2>2. m.sstr \in Int /\ m.left \in Int
      BY ONLY m \in Marks DEF Marks
    <2>3. PICK k \in Int : k = m.sstr + new - m.left
      BY ONLY <1>2, <2>2
    <2>4. CASE f \in R
      <3>1. mk[f] = [m EXCEPT !.blk = id, !.nxt = z, !.sstr = k, !.left = new]
        BY ONLY <2>1, <2>3, <2>4, f \in 1..MaxFrames
      <3> HIDE DEF mk, z
      <3>2. new \in Int
        BY ONLY <1>2
      <3>3. /\ mk[f] \in Marks /\ mk[f].blk = id /\ mk[f].nxt = z /\ mk[f].left = new
            /\ mk[f].next = m.next
        BY ONLY <1>3, <1>6, <3>1, <3>2, m \in Marks, k \in Int DEF Marks
      <3> QED
        BY ONLY <2>1, <2>4, <3>3
    <2>5. CASE f \notin R
      BY ONLY <2>1, <2>5, f \in 1..MaxFrames, m \in Marks
    <2> QED
      BY ONLY <2>4, <2>5
  <1>8. mk \in [1..MaxFrames -> Marks]
    BY ONLY <1>7
  <1>16. z.blk = id /\ z.off = 0 /\ b.id = id /\ b.size = new
    OBVIOUS
  <1> HIDE DEF mk, z, b
  <1>9. /\ x \in States /\ x.chain = [s.chain EXCEPT ![Len(s.chain)] = b] /\ x.nxt = z
        /\ x.left = new /\ x.mark = mk /\ x.markp = s.markp
    <2>1. PICK q \in Seq(Blocks) : q = [s.chain EXCEPT ![Len(s.chain)] = b]
      <3>1. PICK c \in Seq(Blocks) : c = s.chain
        BY ONLY <1>1
      <3> DEFINE n == Len(c)
                 d == [c EXCEPT ![n] = b]
      <3>3. n \in Nat /\ DOMAIN c = 1..n /\ \A i \in 1..n : c[i] \in Blocks
        BY ONLY c \in Seq(Blocks)
      <3> HIDE DEF n
      <3>4. DOMAIN d = 1..n /\ \A i \in 1..n : d[i] \in Blocks
        BY ONLY <1>6, <3>3
      <3>5. d = [i \in 1..n |-> d[i]]
        BY ONLY <3>3
      <3>2. d \in Seq(Blocks)
        <4> HIDE DEF d
        <4> QED
          BY ONLY <3>3, <3>4, <3>5
      <3>6. d = [s.chain EXCEPT ![Len(s.chain)] = b]
        BY ONLY <3>1 DEF d, n
      <3> HIDE DEF d
      <3> QED
        BY ONLY <3>2, <3>6
    <2>2. PICK k \in Int : k = s.sstr + new - s.left
      BY ONLY <1>1, <1>2
    <2>3. x = [s EXCEPT !.chain = q, !.nxt = z, !.sstr = k, !.left = new, !.mark = mk]
      BY ONLY <1>1, <1>5, <2>1, <2>2 DEF States
    <2>4. new \in Int
      BY ONLY <1>2
    <2>5. /\ x \in States /\ x.chain = q /\ x.nxt = z
          /\ x.left = new /\ x.mark = mk /\ x.markp = s.markp
      BY ONLY <1>1, <1>6, <1>8, <2>3, <2>4, q \in Seq(Blocks), k \in Int DEF States
    <2> QED
      BY ONLY <2>1, <2>5
  <1>10. /\ Listed(x) /\ Keeps(s, x, Ids(s) \ {t}) /\ stackp(x) = b
         /\ id \in Ids(x) /\ SizeOf(x, id) = new
         /\ (\A c \in Ids(s) \ {t} : Pos(x, c) < Pos(x, id)) /\ t # 1
    <2>1. b.id \notin Ids(s) \ {stackp(s).id}
      BY ONLY <1>3, <1>16 DEF t
    <2>2. Listed(s) /\ Len(s.chain) > 1 /\ b \in Blocks
          /\ x.chain = [s.chain EXCEPT ![Len(s.chain)] = b]
      BY ONLY <1>1, <1>4, <1>6, <1>9
    <2>3. /\ Listed(x) /\ Keeps(s, x, Ids(s) \ {stackp(s).id}) /\ stackp(x) = b
          /\ b.id \in Ids(x) /\ SizeOf(x, b.id) = b.size
          /\ \A c \in Ids(s) \ {stackp(s).id} : Pos(x, c) < Pos(x, b.id)
          /\ stackp(s).id # 1
      BY ONLY <2>1, <2>2, MovedBlock
    <2> QED
      BY ONLY <1>16, <2>3 DEF t
  <1>11. Room(x, x.nxt, x.left)
    <2>1. Aligned(0)
      <3>1. Aligned(0 * Unit)
        BY ONLY 0 \in Int, Multiple
      <3> QED
        BY ONLY <3>1, Unit \in Nat \ {0, 1}
    <2> QED
      BY ONLY <1>2, <1>9, <1>10, <1>16, <2>1 DEF Room
  <1>12. Chained(x)
    BY ONLY <1>9, <1>10, <1>11, <1>16 DEF Chained, Topped
  <1>13. \A f \in 1..MaxFrames :
           IF f \in R
           THEN /\ x.mark[f].blk = id /\ x.mark[f].nxt = x.nxt
                /\ x.mark[f].left = x.left /\ x.mark[f].next = s.mark[f].next
           ELSE x.mark[f] = s.mark[f]
    BY ONLY <1>7, <1>9
  <1> QED
    BY ONLY <1>3, <1>9, <1>10, <1>12, <1>13, <1>16 DEF Renewed, new, t, R

\* Where realloc leaves the pointers to the start of the block on top.
Moved(s, x, p) == IF p.blk = stackp(s).id THEN x.nxt ELSE p

LEMMA MovedUnder ==
  ASSUME NEW s, Chained(s), InPlace(s), NEW x, NEW id, Renewed(s, x, id), NEW p, NEW q, Under(s, p, q)
  PROVE  Under(x, Moved(s, x, p), Moved(s, x, q))
  <1> DEFINE t == stackp(s).id
  <1>1. /\ Chained(x) /\ Keeps(s, x, Ids(s) \ {t}) /\ id \notin Ids(s) \ {t}
        /\ x.nxt.blk = id /\ x.nxt.off = 0
        /\ \A c \in Ids(s) \ {t} : Pos(x, c) < Pos(x, id)
    BY DEF Renewed
  <1>2. id \in Ids(x)
    BY <1>1, StackTypes
  <1>3. p.blk \in Ids(s) /\ q.blk \in Ids(s)
        /\ IF p.blk = q.blk THEN p.off <= q.off ELSE Pos(s, p.blk) < Pos(s, q.blk)
    BY DEF Under
  <1>4. Pos(s, q.blk) \in 1..Len(s.chain) /\ Pos(s, t) = Len(s.chain) /\ Len(s.chain) \in Nat
    <2>1. Listed(s)
      BY StackTypes
    <2> QED
      BY <1>3, <2>1, Places
  <1> HIDE DEF t
  <1>5. /\ Moved(s, x, p) = IF p.blk = t THEN x.nxt ELSE p
        /\ Moved(s, x, q) = IF q.blk = t THEN x.nxt ELSE q
    BY DEF Moved, t
  <1>6. CASE p.blk = t
    <2>1. q.blk = t
      BY ONLY <1>3, <1>4, <1>6
    <2>2. Moved(s, x, p) = x.nxt /\ Moved(s, x, q) = x.nxt
      BY ONLY <1>5, <1>6, <2>1
    <2> QED
      BY ONLY <1>1, <1>2, <2>2 DEF Under
  <1>7. CASE p.blk # t /\ q.blk = t
    <2>1. p.blk \in Ids(x) /\ p.blk # id /\ Pos(x, p.blk) < Pos(x, id)
      BY ONLY <1>1, <1>3, <1>7 DEF Keeps
    <2>2. Moved(s, x, p) = p /\ Moved(s, x, q) = x.nxt
      BY ONLY <1>5, <1>7
    <2> QED
      BY ONLY <1>1, <1>2, <2>1, <2>2 DEF Under
  <1>8. CASE p.blk # t /\ q.blk # t
    <2>1. p.blk \in Ids(s) \ {t} /\ q.blk \in Ids(s) \ {t}
      BY ONLY <1>3, <1>8
    <2>2. Under(x, p, q)
      BY ONLY <1>1, <2>1, Under(s, p, q), KeepsUnder
    <2> QED
      BY ONLY <1>5, <1>8, <2>2
  <1> QED
    BY ONLY <1>6, <1>7, <1>8

\* A block that realloc moves is one in which nothing is allocated.
LEMMA NothingInPlace ==
  ASSUME NEW s, Chained(s), InPlace(s), NEW a, Clear(s, a, s.nxt)
  PROVE  a.blk # stackp(s).id
  <1>1. s.nxt.blk = stackp(s).id /\ s.nxt.off = 0
    BY StackTypes DEF InPlace
  <1> QED
    BY <1>1 DEF Clear

LEMMA MovedClear ==
  ASSUME NEW s, Chained(s), InPlace(s), NEW x, NEW id, Renewed(s, x, id), NEW a, NEW q, Clear(s, a, q), a.blk # stackp(s).id
  PROVE  Clear(x, a, Moved(s, x, q))
  <1> DEFINE t == stackp(s).id
  <1>1. x.nxt.blk = id /\ id \notin Ids(s) \ {t}
    BY DEF Renewed
  <1>2. End(a).blk = a.blk
    BY DEF End
  <1>3. Under(s, End(a), q) /\ (a.blk = q.blk => q.off > 0)
    BY DEF Clear
  <1>4. Under(x, Moved(s, x, End(a)), Moved(s, x, q))
    BY <1>3, MovedUnder
  <1>5. Moved(s, x, End(a)) = End(a)
    BY <1>2 DEF Moved
  <1>6. a.blk # id
    <2>1. a.blk \in Ids(s)
      BY ONLY <1>2, <1>3 DEF Under
    <2> QED
      BY <1>1, <2>1
  <1>7. a.blk = Moved(s, x, q).blk => Moved(s, x, q).off > 0
    BY <1>1, <1>3, <1>6 DEF Moved
  <1> QED
    BY ONLY <1>4, <1>5, <1>7 DEF Clear

\* The marks that realloc moves are all those that point into the block.
LEMMA MovedMarks ==
  ASSUME NEW s, Chained(s), InPlace(s), NEW x, NEW id, Renewed(s, x, id), NEW fr, Marked(s, fr), NEW f \in 1..Len(fr)
  PROVE  /\ x.mark[f].nxt = Moved(s, x, s.mark[f].nxt)
         /\ x.mark[f].nxt.blk = x.mark[f].blk /\ x.mark[f].next = s.mark[f].next
         /\ Room(x, x.mark[f].nxt, x.mark[f].left)
         /\ s.mark[f].blk # stackp(s).id => x.mark[f] = s.mark[f]
  <1> DEFINE t == stackp(s).id
             n == Len(fr)
             R == Relocated(s, t)
  <1>1. n \in 1..MaxFrames /\ (s.markp = n \/ (s.markp = 0 /\ n = 1)) /\ s.mark[1].blk = 1
    BY DEF Marked
  <1>2. \A g \in 1..n : /\ s.mark[g].nxt.blk = s.mark[g].blk
                        /\ Room(s, s.mark[g].nxt, s.mark[g].left)
    BY DEF Marked
  <1>3. \A g, h \in 1..n : g <= h => Under(s, s.mark[g].nxt, s.mark[h].nxt)
    BY DEF Marked
  <1>4. /\ Chained(x) /\ Keeps(s, x, Ids(s) \ {t}) /\ t # 1 /\ x.nxt.blk = id
        /\ \A g \in 1..MaxFrames :
             IF g \in R
             THEN /\ x.mark[g].blk = id /\ x.mark[g].nxt = x.nxt
                  /\ x.mark[g].left = x.left /\ x.mark[g].next = s.mark[g].next
             ELSE x.mark[g] = s.mark[g]
    BY DEF Renewed
  <1>5. \A g : g \in R <=> g \in 1..MaxFrames /\ g <= s.markp
                           /\ \A h \in g..s.markp : s.mark[h].blk = t
    BY DEF Relocated
  <1>6. /\ Pos(s, t) = Len(s.chain) /\ Len(s.chain) \in Nat
        /\ \A c \in Ids(s) : Pos(s, c) \in 1..Len(s.chain)
    <2>1. Listed(s)
      BY StackTypes
    <2> QED
      BY <2>1, Places
  <1>14. f \in 1..n
    OBVIOUS
  <1>15. \A y : Moved(s, x, y) = IF y.blk = t THEN x.nxt ELSE y
    BY DEF Moved
  <1> HIDE DEF t, n, R
  <1>7. f \in 1..MaxFrames /\ f \in Nat /\ f >= 1 /\ f <= n /\ n \in Nat
    BY ONLY <1>1, <1>14, MaxFrames \in Nat \ {0}
  <1>8. f \in R => s.mark[f].blk = t
    <2> SUFFICES ASSUME f \in R PROVE s.mark[f].blk = t
      OBVIOUS
    <2>1. f <= s.markp /\ s.markp \in Nat
      BY ONLY <1>1, <1>5, <1>7, f \in R
    <2>2. f \in f..s.markp
      BY ONLY <1>7, <2>1
    <2> QED
      BY ONLY <1>5, <2>2, f \in R
  <1>9. s.mark[f].blk = t => f \in R
    <2> SUFFICES ASSUME s.mark[f].blk = t PROVE f \in R
      OBVIOUS
    <2>1. s.markp = n
      BY ONLY <1>1, <1>4, <1>7, s.mark[f].blk = t
    <2>2. ASSUME NEW h \in f..n PROVE s.mark[h].blk = t
      <3>1. h \in 1..n /\ f <= h
        BY ONLY <1>7, h \in f..n
      <3>2. Under(s, s.mark[f].nxt, s.mark[h].nxt) /\ s.mark[f].nxt.blk = t
            /\ s.mark[h].nxt.blk = s.mark[h].blk
        BY ONLY <1>2, <1>3, <1>14, <3>1, s.mark[f].blk = t
      <3>3. s.mark[h].blk \in Ids(s) /\ (t = s.mark[h].blk \/ Pos(s, t) < Pos(s, s.mark[h].blk))
        BY ONLY <3>2 DEF Under
      <3> QED
        BY ONLY <1>6, <3>3
    <2> QED
      BY ONLY <1>5, <1>7, <2>1, <2>2
  <1>10. Room(x, x.nxt, x.left)
    BY ONLY <1>4, StackTypes
  <1>11. CASE f \in R
    <2>1. /\ x.mark[f].blk = id /\ x.mark[f].nxt = x.nxt
          /\ x.mark[f].left = x.left /\ x.mark[f].next = s.mark[f].next
      BY ONLY <1>4, <1>7, <1>11
    <2>2. s.mark[f].blk = t /\ s.mark[f].nxt.blk = t
      BY ONLY <1>2, <1>8, <1>11, <1>14
    <2> QED
      BY ONLY <1>4, <1>10, <1>15, <2>1, <2>2 DEF t
  <1>12. CASE f \notin R
    <2>1. x.mark[f] = s.mark[f]
      BY ONLY <1>4, <1>7, <1>12
    <2>2. s.mark[f].nxt.blk # t /\ s.mark[f].nxt.blk = s.mark[f].blk
          /\ Room(s, s.mark[f].nxt, s.mark[f].left)
      BY ONLY <1>2, <1>9, <1>12, <1>14
    <2>3. s.mark[f].nxt.blk \in Ids(s) \ {t}
      BY ONLY <2>2 DEF Room
    <2>4. Room(x, s.mark[f].nxt, s.mark[f].left)
      BY ONLY <1>4, <2>2, <2>3, KeepsRoom
    <2> QED
      BY ONLY <1>15, <2>1, <2>2, <2>4
  <1> QED
    BY ONLY <1>11, <1>12

LEMMA RenewedMarked ==
  ASSUME NEW s, Chained(s), InPlace(s), NEW x, NEW id, Renewed(s, x, id),
         NEW fr, Marked(s, fr)
  PROVE  Marked(x, fr)
  <1>1. /\ fr \in Seq(Frames) /\ Len(fr) \in 1..MaxFrames /\ fr[1].kind = "command"
        /\ (s.markp = Len(fr) \/ (s.markp = 0 /\ Len(fr) = 1)) /\ s.mark[1].blk = 1
    BY DEF Marked
  <1>2. \A f \in 1..Len(fr) :
          /\ f > 1 => s.mark[f].next = f - 1 \/ (s.mark[f].next = 0 /\ f = 2)
          /\ f = 1 => s.mark[f].next = 0
          /\ Under(s, s.mark[f].nxt, s.nxt)
    BY DEF Marked
  <1>3. \A f, g \in 1..Len(fr) : f <= g => Under(s, s.mark[f].nxt, s.mark[g].nxt)
    BY DEF Marked
  <1>4. stackp(s).id # 1 /\ x.markp = s.markp
    BY DEF Renewed
  <1>5. \A f \in 1..Len(fr) :
          /\ x.mark[f].nxt = Moved(s, x, s.mark[f].nxt)
          /\ x.mark[f].nxt.blk = x.mark[f].blk /\ x.mark[f].next = s.mark[f].next
          /\ Room(x, x.mark[f].nxt, x.mark[f].left)
          /\ s.mark[f].blk # stackp(s).id => x.mark[f] = s.mark[f]
    BY MovedMarks
  <1>6. \A p, q : Under(s, p, q) => Under(x, Moved(s, x, p), Moved(s, x, q))
    BY MovedUnder
  <1>7. Moved(s, x, s.nxt) = x.nxt
    BY StackTypes DEF Moved
  <1>8. x.mark[1].blk = 1
    <2>1. 1 \in 1..Len(fr)
      BY ONLY <1>1
    <2> QED
      BY ONLY <1>1, <1>4, <1>5, <2>1
  <1>9. \A f \in 1..Len(fr) : Under(x, x.mark[f].nxt, x.nxt)
    BY ONLY <1>2, <1>5, <1>6, <1>7
  <1>10. \A f, g \in 1..Len(fr) : f <= g => Under(x, x.mark[f].nxt, x.mark[g].nxt)
    BY ONLY <1>3, <1>5, <1>6
  <1> QED
    BY ONLY <1>1, <1>2, <1>4, <1>5, <1>8, <1>9, <1>10 DEF Marked

LEMMA RenewedNoted ==
  ASSUME NEW s, Chained(s), InPlace(s), NEW x, NEW id, Renewed(s, x, id),
         NEW fr, Marked(s, fr), NEW al, Noted(s, fr, al)
  PROVE  Noted(x, fr, al)
  <1> DEFINE t == stackp(s).id
  <1>1. /\ al \in Seq(Allocs)
        /\ \A i \in DOMAIN al :
             /\ al[i].blk \in Ids(s) /\ al[i].off >= 0 /\ Aligned(al[i].off)
             /\ al[i].depth \in 1..Len(fr) /\ Clear(s, al[i], s.nxt)
    BY DEF Noted
  <1>2. \A i \in DOMAIN al : \A f \in 1..Len(fr) :
           IF al[i].depth < f THEN Clear(s, al[i], s.mark[f].nxt)
           ELSE Under(s, s.mark[f].nxt, al[i])
    BY DEF Noted
  <1>3. \A i, j \in DOMAIN al : i < j => al[i].depth <= al[j].depth /\ Clear(s, al[i], al[j])
    BY DEF Noted
  <1>4. \A i \in DOMAIN al : al[i].blk # t
    BY <1>1, NothingInPlace
  <1>5. \A f \in 1..Len(fr) : x.mark[f].nxt = Moved(s, x, s.mark[f].nxt)
    BY MovedMarks
  <1>6. \A p, q : Under(s, p, q) => Under(x, Moved(s, x, p), Moved(s, x, q))
    BY MovedUnder
  <1>7. \A a, q : Clear(s, a, q) /\ a.blk # t => Clear(x, a, Moved(s, x, q))
    BY MovedClear
  <1>8. Moved(s, x, s.nxt) = x.nxt
    BY StackTypes DEF Moved
  <1>9. \A i \in DOMAIN al : Moved(s, x, al[i]) = al[i]
    BY <1>4 DEF Moved
  <1>10. \A i \in DOMAIN al : al[i].blk \in Ids(x)
    BY <1>1, <1>4 DEF Renewed, Keeps
  <1> HIDE DEF t
  <1>11. \A i \in DOMAIN al : Clear(x, al[i], x.nxt)
    BY ONLY <1>1, <1>4, <1>7, <1>8
  <1>12. \A i \in DOMAIN al : \A f \in 1..Len(fr) :
           IF al[i].depth < f THEN Clear(x, al[i], x.mark[f].nxt)
           ELSE Under(x, x.mark[f].nxt, al[i])
    <2> SUFFICES ASSUME NEW i \in DOMAIN al, NEW f \in 1..Len(fr)
                 PROVE  IF al[i].depth < f THEN Clear(x, al[i], x.mark[f].nxt)
                        ELSE Under(x, x.mark[f].nxt, al[i])
      OBVIOUS
    <2>1. CASE al[i].depth < f
      BY ONLY <1>2, <1>4, <1>5, <1>7, <2>1, i \in DOMAIN al, f \in 1..Len(fr)
    <2>2. CASE ~(al[i].depth < f)
      BY ONLY <1>2, <1>5, <1>6, <1>9, <2>2, i \in DOMAIN al, f \in 1..Len(fr)
    <2> QED
      BY ONLY <2>1, <2>2
  <1>13. \A i, j \in DOMAIN al : i < j => al[i].depth <= al[j].depth /\ Clear(x, al[i], al[j])
    BY ONLY <1>3, <1>4, <1>7, <1>9
  <1> QED
    BY ONLY <1>1, <1>10, <1>11, <1>12, <1>13 DEF Noted

LEMMA RenewedStacked ==
  ASSUME NEW s, InPlace(s), NEW x, NEW id, Renewed(s, x, id), NEW fr, NEW al, Stacked(s, fr, al)
  PROVE  Stacked(x, fr, al)
  <1>1. Chained(s) /\ Marked(s, fr) /\ Noted(s, fr, al) /\ Asides(s, fr, al)
    BY DEF Stacked
  <1>2. Chained(x) /\ Marked(x, fr) /\ Noted(x, fr, al)
    BY <1>1, RenewedMarked, RenewedNoted DEF Renewed
  <1>3. ASSUME NEW f \in 1..Len(fr), fr[f].kind # "command"
        PROVE  /\ Resumes(x.mark[f], fr[f])
               /\ \E i \in DOMAIN al : al[i].depth = f /\ al[i].aside /\ al[i].blk = x.mark[f].blk
    <2>1. Resumes(s.mark[f], fr[f])
      BY <1>1, <1>3 DEF Asides
    <2>2. PICK i \in DOMAIN al : al[i].depth = f /\ al[i].aside /\ al[i].blk = s.mark[f].blk
      BY <1>1, <1>3 DEF Asides
    <2>3. Clear(s, al[i], s.nxt)
      BY <1>1 DEF Noted
    <2>4. s.mark[f].blk # stackp(s).id
      BY <1>1, <2>2, <2>3, NothingInPlace
    <2>5. x.mark[f] = s.mark[f]
      BY <1>1, <2>4, MovedMarks
    <2> QED
      BY ONLY <2>1, <2>2, <2>5
  <1> QED
    BY ONLY <1>2, <1>3 DEF Stacked, Asides

\* growstackblock leaves everything on the stack as it was, and there are at least two
\* characters more than there were.
LEMMA GrowRight ==
  ASSUME NEW s, NEW fr, NEW al, Stacked(s, fr, al), CanGrow(s), NEW x, x \in growstackblock(s)
  PROVE  Stacked(x, fr, al) /\ x.left >= s.left + 2
  <1>1. Chained(s)
    BY DEF Stacked
  <1>2. NewLen(s) \in Nat \ {0} /\ NewLen(s) >= s.left + 2 /\ s.left \in Int
    BY <1>1, NewLenRight, StackTypes
  <1>3. CASE InPlace(s)
    <2>1. PICK id \in {stackp(s).id} \cup Fresh(s) : x = Regrown(s, id)
      BY <1>3 DEF growstackblock
    <2>2. Renewed(s, x, id)
      BY <1>1, <1>3, <2>1, RegrownRight
    <2>3. x.left = NewLen(s)
      BY <2>2 DEF Renewed
    <2>4. Stacked(x, fr, al)
      BY <1>3, <2>2, RenewedStacked
    <2> QED
      BY ONLY <1>2, <2>3, <2>4
  <1>4. CASE ~InPlace(s)
    <2>1. x = NewSpace(s)
      BY <1>4 DEF growstackblock
    <2>2. Higher(s, x) /\ x.left >= NewLen(s)
      BY <1>1, <1>4, <2>1, NewSpaceRight
    <2>3. Stacked(x, fr, al) /\ Chained(x)
      BY <2>2, HigherStacked DEF Higher
    <2>4. x.left \in Int
      BY <2>3, StackTypes
    <2> QED
      BY ONLY <1>2, <2>2, <2>3, <2>4
  <1> QED
    BY <1>3, <1>4

-----------------------------------------------------------------------------
(* The string that grows.                                                  *)

LEMMA SetSstr ==
  ASSUME NEW s, NEW fr, NEW al, Stacked(s, fr, al), NEW n \in Int,
         NEW x, x = [s EXCEPT !.sstr = n]
  PROVE  /\ Stacked(x, fr, al) /\ Chained(x) /\ x.chain = s.chain /\ x.nxt = s.nxt
         /\ x.left = s.left /\ x.sstr = n /\ x.mark = s.mark /\ x.markp = s.markp
  <1>1. Chained(s) /\ s \in States
    BY StackTypes DEF Stacked
  <1>2. /\ x \in States /\ x.chain = s.chain /\ x.nxt = s.nxt /\ x.left = s.left /\ x.sstr = n
        /\ x.mark = s.mark /\ x.markp = s.markp
    BY ONLY <1>1, n \in Int, x = [s EXCEPT !.sstr = n] DEF States
  <1>3. Higher(s, x)
    BY ONLY <1>1, <1>2, SameStack
  <1>4. Stacked(x, fr, al)
    BY ONLY <1>3, Stacked(s, fr, al), HigherStacked
  <1> QED
    BY ONLY <1>2, <1>3, <1>4 DEF Higher

\* The string of length n ends at p.
LEMMA GrowsOn ==
  ASSUME NEW x, NEW u \in Strings, NEW p \in Ptrs, NEW n \in Int, Chained(x),
         p.blk = x.nxt.blk, p.off = x.nxt.off + n, 0 <= n, n <= x.left, x.sstr = x.left - n,
         NEW w, w = [u EXCEPT !.dest = p]
  PROVE  Growing(x, w)
  <1>1. w \in Strings /\ w.dest = p
    BY ONLY u \in Strings, p \in Ptrs, w = [u EXCEPT !.dest = p] DEF Strings
  <1>2. x.nxt.off \in Int
    BY StackTypes
  <1>3. p.off - x.nxt.off = n
    BY <1>2
  <1> QED
    BY <1>1, <1>3 DEF Growing

\* What is known of the string.
LEMMA StringTypes ==
  ASSUME NEW s, Chained(s), NEW u, Growing(s, u), u.on
  PROVE  /\ u \in Strings /\ u.dest \in Ptrs /\ u.dest.off \in Int
         /\ \E n \in Nat : /\ n = Length(s, u.dest) /\ u.dest.off = s.nxt.off + n
                           /\ n <= s.left /\ s.sstr = s.left - n /\ u.dest.blk = s.nxt.blk
  <1>1. u \in Strings /\ u.dest \in Ptrs /\ u.dest.off \in Int
    BY DEF Growing, Strings, Ptrs
  <1>2. s.nxt.off \in Int /\ s.left \in Int
    BY StackTypes
  <1>3. PICK n \in Int : n = u.dest.off - s.nxt.off
    BY <1>1, <1>2
  <1>4. 0 <= n /\ n <= s.left /\ s.sstr = s.left - n /\ u.dest.blk = s.nxt.blk
    BY <1>3 DEF Growing
  <1>5. n \in Nat /\ u.dest.off = s.nxt.off + n
    BY ONLY <1>1, <1>2, <1>3, <1>4
  <1> QED
    BY <1>1, <1>3, <1>4, <1>5 DEF Length

\* There is a block where the next character of a string of length n goes.
LEMMA RoomForNext ==
  ASSUME NEW s, Chained(s), NEW p, NEW n \in Nat, p.blk = s.nxt.blk,
         p.off = s.nxt.off + n, n + 1 <= s.left
  PROVE  ~Bad(s, p)
  <1>1. /\ s.nxt.off \in Int /\ s.left \in Int /\ s.nxt.blk \in Ids(s) /\ s.nxt.off >= 0
        /\ s.nxt.off + s.left = SizeOf(s, s.nxt.blk)
    BY StackTypes
  <1>2. PICK o \in Int, l \in Int : o = s.nxt.off /\ l = s.left
    BY ONLY <1>1
  <1>3. o + n >= 0 /\ ~(o + n >= o + l)
    BY ONLY <1>1, <1>2, n \in Nat, n + 1 <= s.left
  <1>4. p.off = o + n /\ SizeOf(s, p.blk) = o + l /\ p.blk \in Ids(s)
    BY ONLY <1>1, <1>2, p.blk = s.nxt.blk, p.off = s.nxt.off + n
  <1>5. ~(p.off < 0)
    BY ONLY <1>3, <1>4, n \in Nat
  <1> QED
    BY ONLY <1>3, <1>4, <1>5 DEF Bad

\* growstackstr, when the string takes up all there is: there is room for another
\* character.
LEMMA GrowstrRight ==
  ASSUME NEW s, NEW fr, NEW al, Stacked(s, fr, al), NEW here,
         Flushes(s, here) \/ CanGrow(s), NEW g, g \in growstackstr(s, here)
  PROVE  /\ Stacked(g.s, fr, al) /\ g.p \in Ptrs /\ g.p.blk = g.s.nxt.blk
         /\ \E n \in Nat : /\ g.p.off = g.s.nxt.off + n /\ n + 1 <= g.s.left
                           /\ g.s.sstr = g.s.left - (n + 1)
  <1>1. Chained(s)
    BY DEF Stacked
  <1>2. s.left \in Int /\ s.left >= 0 /\ s.nxt \in Ptrs /\ s.nxt.off \in Int
    BY <1>1, StackTypes
  <1>3. CASE Flushes(s, here)
    <2>1. PICK k \in Int : k = s.left - 1
      BY <1>2
    <2> DEFINE y == [s EXCEPT !.sstr = k]
    <2>2. g = [s |-> y, p |-> s.nxt] /\ s.left >= HereSize
      BY <1>3, <2>1 DEF growstackstr, Flushes
    <2>3. g.s = y /\ g.p = s.nxt
      BY ONLY <2>2
    <2>4. Stacked(y, fr, al) /\ y.nxt = s.nxt /\ y.left = s.left /\ y.sstr = k
      BY SetSstr
    <2> HIDE DEF y
    <2>5. /\ g.p.off = g.s.nxt.off + 0 /\ 0 + 1 <= g.s.left
          /\ g.s.sstr = g.s.left - (0 + 1) /\ 0 \in Nat
      BY ONLY <1>2, <2>1, <2>2, <2>3, <2>4, HereSize \in Nat \ {0}
    <2>6. g.p \in Ptrs /\ g.p.blk = g.s.nxt.blk
      BY ONLY <1>2, <2>3, <2>4
    <2>7. Stacked(g.s, fr, al)
      BY ONLY <2>3, <2>4
    <2> QED
      BY ONLY <2>5, <2>6, <2>7
  <1>4. CASE ~Flushes(s, here)
    <2>1. PICK x \in growstackblock(s) :
            g = [s |-> [x EXCEPT !.sstr = x.left - s.left - 1], p |-> At(x.nxt, s.left)]
      BY <1>4 DEF growstackstr, Flushes
    <2>2. Stacked(x, fr, al) /\ x.left >= s.left + 2
      BY <1>4, GrowRight
    <2>3. x.left \in Int /\ x.nxt \in Ptrs /\ x.nxt.off \in Int
      BY <2>2, StackTypes DEF Stacked
    <2>4. PICK k \in Int : k = x.left - s.left - 1
      BY ONLY <1>2, <2>3
    <2> DEFINE y == [x EXCEPT !.sstr = k]
    <2>5. g.s = y /\ g.p = At(x.nxt, s.left)
      BY ONLY <2>1, <2>4
    <2>6. Stacked(y, fr, al) /\ y.nxt = x.nxt /\ y.left = x.left /\ y.sstr = k
      BY <2>2, SetSstr
    <2> HIDE DEF y
    <2>7. g.p \in Ptrs /\ g.p.blk = x.nxt.blk /\ g.p.off = x.nxt.off + s.left
      <3>1. /\ At(x.nxt, s.left) \in Ptrs /\ At(x.nxt, s.left).blk = x.nxt.blk
            /\ At(x.nxt, s.left).off = x.nxt.off + s.left
        BY ONLY <1>2, <2>3, AtRight
      <3> QED
        BY ONLY <2>5, <3>1
    <2>8. PICK n \in Nat : n = s.left
      BY ONLY <1>2
    <2>9. /\ g.p.off = g.s.nxt.off + n /\ n + 1 <= g.s.left
          /\ g.s.sstr = g.s.left - (n + 1)
      BY ONLY <2>2, <2>3, <2>4, <2>5, <2>6, <2>7, <2>8
    <2>10. g.p.blk = g.s.nxt.blk /\ Stacked(g.s, fr, al)
      BY ONLY <2>5, <2>6, <2>7
    <2> QED
      BY ONLY <2>7, <2>9, <2>10, n \in Nat
  <1> QED
    BY <1>3, <1>4

-----------------------------------------------------------------------------
(* The actions of the string.                                              *)

LEMMA StringStarts ==
  ASSUME MInv, NEW here \in BOOLEAN, StartString(here)
  PROVE  Stacked(st', frames', allocs') /\ Growing(st', str')
  <1>1. Stacked(st, frames, allocs) /\ Chained(st)
    BY DEF MInv, Stacked
  <1>2. st.left \in Int /\ st.left >= 0 /\ st.nxt \in Ptrs /\ st.nxt.off \in Int
    BY <1>1, StackTypes
  <1>3. st' = [st EXCEPT !.sstr = st.left] /\ frames' = frames /\ allocs' = allocs
    BY DEF StartString
  <1>4. Stacked(st', frames, allocs) /\ st'.nxt = st.nxt /\ st'.left = st.left /\ st'.sstr = st.left
    BY ONLY <1>1, <1>2, <1>3, SetSstr
  <1>5. str' \in Strings /\ str'.dest = st.nxt
    BY ONLY <1>2, here \in BOOLEAN, StartString(here) DEF StartString, Strings
  <1>6. str'.dest.off - st'.nxt.off = 0
    BY ONLY <1>2, <1>4, <1>5
  <1>7. Growing(st', str')
    BY ONLY <1>2, <1>4, <1>5, <1>6 DEF Growing
  <1> QED
    BY ONLY <1>3, <1>4, <1>7

LEMMA CharacterPut ==
  ASSUME MInv, STPUTC
  PROVE  Stacked(st', frames', allocs') /\ Growing(st', str') /\ ~wild'
  <1>1. Stacked(st, frames, allocs) /\ Chained(st) /\ Growing(st, str) /\ str.on
    BY DEF MInv, Stacked, STPUTC
  <1>2. st.left \in Int /\ st.left >= 0 /\ st.nxt \in Ptrs /\ st.nxt.off \in Int /\ st.sstr \in Int
    BY <1>1, StackTypes
  <1>3. frames' = frames /\ allocs' = allocs
    BY DEF STPUTC
  <1>4. PICK n \in Nat : /\ str.dest.off = st.nxt.off + n /\ n <= st.left
                         /\ st.sstr = st.left - n /\ str.dest.blk = st.nxt.blk
    BY <1>1, StringTypes
  <1>5. str \in Strings /\ str.dest \in Ptrs /\ str.dest.off \in Int
    BY <1>1, StringTypes
  <1>6. CASE st.sstr > 0
    <2>1. PICK k \in Int : k = st.sstr - 1
      BY <1>2
    <2>2. st' = [st EXCEPT !.sstr = k] /\ str' = [str EXCEPT !.dest = At(str.dest, 1)]
      BY <1>6, <2>1 DEF STPUTC
    <2>3. /\ Stacked(st', frames, allocs) /\ Chained(st') /\ st'.nxt = st.nxt
          /\ st'.left = st.left /\ st'.sstr = k
      BY ONLY <1>1, <2>2, k \in Int, SetSstr
    <2>4. PICK p \in Ptrs : p = At(str.dest, 1) /\ p.blk = str.dest.blk /\ p.off = str.dest.off + 1
      BY ONLY <1>5, 1 \in Int, AtRight
    <2>5. /\ p.blk = st'.nxt.blk /\ p.off = st'.nxt.off + (n + 1) /\ 0 <= n + 1
          /\ n + 1 <= st'.left /\ st'.sstr = st'.left - (n + 1) /\ n + 1 \in Int
      BY ONLY <1>2, <1>4, <1>5, <1>6, <2>1, <2>3, <2>4
    <2>6. Growing(st', str')
      BY ONLY <1>5, <2>2, <2>3, <2>4, <2>5, p \in Ptrs, GrowsOn
    <2>7. wild' = Bad(st, str.dest)
      BY <1>6 DEF STPUTC
    <2>8. n + 1 <= st.left
      BY ONLY <1>2, <1>4, <1>6
    <2>9. ~Bad(st, str.dest)
      BY ONLY <1>1, <1>4, <2>8, n \in Nat, RoomForNext
    <2> QED
      BY ONLY <1>3, <2>3, <2>6, <2>7, <2>9
  <1>7. CASE ~(st.sstr > 0)
    <2>1. Flushes(st, str.here) \/ CanGrow(st)
      BY <1>7 DEF STPUTC
    <2>2. PICK g \in growstackstr(st, str.here) :
            /\ st' = g.s /\ str' = [str EXCEPT !.dest = At(g.p, 1)]
            /\ wild' = Bad(g.s, g.p)
      BY <1>7 DEF STPUTC
    <2>3. /\ Stacked(g.s, frames, allocs) /\ g.p \in Ptrs /\ g.p.blk = g.s.nxt.blk
          /\ \E m \in Nat : /\ g.p.off = g.s.nxt.off + m /\ m + 1 <= g.s.left
                            /\ g.s.sstr = g.s.left - (m + 1)
      BY ONLY <1>1, <2>1, g \in growstackstr(st, str.here), GrowstrRight
    <2>4. PICK m \in Nat : /\ g.p.off = g.s.nxt.off + m /\ m + 1 <= g.s.left
                           /\ g.s.sstr = g.s.left - (m + 1)
      BY ONLY <2>3
    <2>5. Chained(st') /\ st'.nxt.off \in Int /\ Stacked(st', frames, allocs)
      BY ONLY <2>2, <2>3, StackTypes DEF Stacked
    <2>6. PICK p \in Ptrs : p = At(g.p, 1) /\ p.blk = g.p.blk /\ p.off = g.p.off + 1
      BY ONLY <2>3, 1 \in Int, AtRight
    <2>7. /\ p.blk = st'.nxt.blk /\ p.off = st'.nxt.off + (m + 1) /\ 0 <= m + 1
          /\ m + 1 <= st'.left /\ st'.sstr = st'.left - (m + 1) /\ m + 1 \in Int
      BY ONLY <2>2, <2>3, <2>4, <2>5, <2>6
    <2>8. Growing(st', str')
      BY ONLY <1>5, <2>2, <2>5, <2>6, <2>7, p \in Ptrs, GrowsOn
    <2>9. ~Bad(g.s, g.p)
      BY ONLY <2>2, <2>3, <2>4, <2>5, m \in Nat, RoomForNext
    <2> QED
      BY ONLY <1>3, <2>2, <2>5, <2>8, <2>9
  <1> QED
    BY <1>6, <1>7

LEMMA StringDropped ==
  ASSUME MInv, STACKSTRNUL
  PROVE  Stacked(st', frames', allocs') /\ Growing(st', str') /\ ~wild'
  <1>1. Stacked(st, frames, allocs) /\ Chained(st) /\ Growing(st, str) /\ str.on
    BY DEF MInv, Stacked, STACKSTRNUL
  <1>2. frames' = frames /\ allocs' = allocs /\ str' = NoStr
    BY DEF STACKSTRNUL
  <1>3. PICK x : st' = Idle(x) /\ Stacked(x, frames, allocs) /\ ~wild'
    <2>1. CASE st.sstr # 0
      <3>1. st' = Idle(st) /\ wild' = Bad(st, str.dest)
        BY ONLY <2>1, STACKSTRNUL DEF STACKSTRNUL
      <3>2. PICK n \in Nat : /\ str.dest.off = st.nxt.off + n /\ n <= st.left
                             /\ st.sstr = st.left - n /\ str.dest.blk = st.nxt.blk
        BY ONLY <1>1, StringTypes
      <3>3. st.left \in Int
        BY ONLY <1>1, StackTypes
      <3>4. n + 1 <= st.left
        BY ONLY <2>1, <3>2, <3>3, n \in Nat
      <3>5. ~Bad(st, str.dest)
        BY ONLY <1>1, <3>2, <3>4, n \in Nat, RoomForNext
      <3> QED
        BY ONLY <1>1, <3>1, <3>5
    <2>2. CASE ~(st.sstr # 0)
      <3>1. Flushes(st, str.here) \/ CanGrow(st)
        BY <2>2 DEF STACKSTRNUL
      <3>2. PICK g \in growstackstr(st, str.here) : st' = Idle(g.s) /\ wild' = Bad(g.s, g.p)
        BY <2>2 DEF STACKSTRNUL
      <3>3. /\ Stacked(g.s, frames, allocs) /\ g.p.blk = g.s.nxt.blk
            /\ \E m \in Nat : g.p.off = g.s.nxt.off + m /\ m + 1 <= g.s.left
        BY ONLY <1>1, <3>1, g \in growstackstr(st, str.here), GrowstrRight
      <3>4. ~Bad(g.s, g.p)
        BY ONLY <3>3, RoomForNext DEF Stacked
      <3> QED
        BY ONLY <3>2, <3>3, <3>4
    <2> QED
      BY <2>1, <2>2
  <1>4. NoStr \in Strings /\ ~NoStr.on
    BY DEF NoStr, Strings, Ptrs, Names
  <1> QED
    BY <1>2, <1>3, <1>4, IdleStack, HigherStacked DEF Stacked

LEMMA CharactersPut ==
  ASSUME MInv, CheckPut(2)
  PROVE  Stacked(st', frames', allocs') /\ Growing(st', str') /\ ~wild'
  <1>1. Stacked(st, frames, allocs) /\ Chained(st) /\ Growing(st, str) /\ str.on
    BY DEF MInv, Stacked, CheckPut
  <1>2. st.left \in Int /\ st.left >= 0 /\ st.nxt \in Ptrs /\ st.nxt.off \in Int /\ st.sstr \in Int
    BY <1>1, StackTypes
  <1>3. frames' = frames /\ allocs' = allocs
    BY DEF CheckPut
  <1>4. PICK n \in Nat : /\ str.dest.off = st.nxt.off + n /\ n <= st.left
                         /\ st.sstr = st.left - n /\ str.dest.blk = st.nxt.blk
    BY <1>1, StringTypes
  <1>5. str \in Strings /\ str.dest \in Ptrs /\ str.dest.off \in Int
    BY <1>1, StringTypes
  <1>6. PICK x, q :
          /\ q \in Ptrs /\ Stacked(x, frames, allocs) /\ q.blk = x.nxt.blk /\ q.off = x.nxt.off + n
          /\ x.sstr = x.left - n /\ n + 2 <= x.left
          /\ st' = [x EXCEPT !.sstr = x.sstr - 2] /\ str' = [str EXCEPT !.dest = At(q, 2)]
          /\ wild' = \E c \in 0..(2 - 1) : Bad(x, At(q, c))
    <2>1. CASE st.sstr >= 2
      <3>1. PICK g \in {[s |-> st, p |-> str.dest]} :
              /\ st' = [g.s EXCEPT !.sstr = g.s.sstr - 2]
              /\ str' = [str EXCEPT !.dest = At(g.p, 2)]
              /\ wild' = \E c \in 0..(2 - 1) : Bad(g.s, At(g.p, c))
        BY <2>1 DEF CheckPut
      <3>2. g.s = st /\ g.p = str.dest
        OBVIOUS
      <3>3. n + 2 <= st.left
        BY ONLY <1>2, <1>4, <2>1
      <3> QED
        BY ONLY <1>1, <1>4, <1>5, <3>1, <3>2, <3>3
    <2>2. CASE ~(st.sstr >= 2)
      <3>1. CanGrow(st)
        BY <1>2, <2>2 DEF CheckPut
      <3>11. PICK g \in {[s |-> [y EXCEPT !.sstr = y.left - (st.left - st.sstr)],
                          p |-> At(y.nxt, st.left - st.sstr)] : y \in growstackblock(st)} :
               /\ st' = [g.s EXCEPT !.sstr = g.s.sstr - 2]
               /\ str' = [str EXCEPT !.dest = At(g.p, 2)]
               /\ wild' = \E c \in 0..(2 - 1) : Bad(g.s, At(g.p, c))
        BY <2>2 DEF CheckPut
      <3>2. PICK y \in growstackblock(st) :
              g = [s |-> [y EXCEPT !.sstr = y.left - (st.left - st.sstr)],
                   p |-> At(y.nxt, st.left - st.sstr)]
        OBVIOUS
      <3>3. st.left - st.sstr = n
        BY ONLY <1>2, <1>4
      <3>4. Stacked(y, frames, allocs) /\ y.left >= st.left + 2
        BY ONLY <1>1, <3>1, y \in growstackblock(st), GrowRight
      <3>5. y.left \in Int /\ y.nxt \in Ptrs /\ y.nxt.off \in Int
        BY ONLY <3>4, StackTypes DEF Stacked
      <3>6. PICK k \in Int : k = y.left - n
        BY ONLY <3>5
      <3> DEFINE x == [y EXCEPT !.sstr = k]
                 q == At(y.nxt, n)
      <3>7. g.s = x /\ g.p = q
        BY ONLY <3>2, <3>3, <3>6
      <3>8. Stacked(x, frames, allocs) /\ x.nxt = y.nxt /\ x.left = y.left /\ x.sstr = k
        BY ONLY <3>4, k \in Int, SetSstr
      <3>9. q \in Ptrs /\ q.blk = y.nxt.blk /\ q.off = y.nxt.off + n
        <4>1. n \in Int
          OBVIOUS
        <4> QED
          BY ONLY <3>5, <4>1, AtRight
      <3> HIDE DEF x, q
      <3>10. /\ q.blk = x.nxt.blk /\ q.off = x.nxt.off + n /\ x.sstr = x.left - n
             /\ n + 2 <= x.left
        BY ONLY <1>2, <1>4, <3>4, <3>5, <3>6, <3>8, <3>9
      <3> QED
        BY ONLY <3>11, <3>7, <3>8, <3>9, <3>10
    <2> QED
      BY <2>1, <2>2
  <1>7. x.left \in Int /\ x.sstr \in Int /\ x.nxt.off \in Int
    BY ONLY <1>6, StackTypes DEF Stacked
  <1>8. PICK k \in Int : k = x.sstr - 2
    BY ONLY <1>7
  <1>9. /\ Stacked(st', frames, allocs) /\ Chained(st') /\ st'.nxt = x.nxt
        /\ st'.left = x.left /\ st'.sstr = k
    BY ONLY <1>6, <1>8, k \in Int, SetSstr
  <1>10. PICK p \in Ptrs : p = At(q, 2) /\ p.blk = q.blk /\ p.off = q.off + 2
    BY ONLY <1>6, 2 \in Int, AtRight
  <1>11. q.off \in Int
    BY ONLY <1>6 DEF Ptrs
  <1>12. /\ p.blk = st'.nxt.blk /\ p.off = st'.nxt.off + (n + 2) /\ 0 <= n + 2
         /\ n + 2 <= st'.left /\ st'.sstr = st'.left - (n + 2) /\ n + 2 \in Int
    BY ONLY <1>6, <1>7, <1>8, <1>9, <1>10, <1>11, n \in Nat
  <1>13. Growing(st', str')
    BY ONLY <1>5, <1>6, <1>9, <1>10, <1>12, p \in Ptrs, GrowsOn
  <1>14. ASSUME NEW c \in 0..(2 - 1) PROVE ~Bad(x, At(q, c))
    <2>1. c \in Int /\ c \in Nat /\ n + c \in Nat /\ (n + c) + 1 <= n + 2
      BY ONLY c \in 0..(2 - 1), n \in Nat
    <2>2. At(q, c).blk = q.blk /\ At(q, c).off = q.off + c
      BY ONLY <1>6, <2>1, AtRight
    <2>3. PICK o \in Int, l \in Int : o = x.nxt.off /\ l = x.left
      BY ONLY <1>7
    <2>4. (o + n) + c = o + (n + c) /\ (n + c) + 1 <= l
      BY ONLY <1>6, <2>1, <2>3, n \in Nat
    <2>5. At(q, c).off = x.nxt.off + (n + c) /\ (n + c) + 1 <= x.left
      BY ONLY <1>6, <2>2, <2>3, <2>4
    <2>6. PICK d \in Nat : d = n + c
      BY ONLY <2>1
    <2>7. At(q, c).off = x.nxt.off + d /\ d + 1 <= x.left /\ At(q, c).blk = x.nxt.blk
      BY ONLY <1>6, <2>2, <2>5, <2>6
    <2>8. Chained(x)
      BY ONLY <1>6 DEF Stacked
    <2> QED
      BY ONLY <2>7, <2>8, d \in Nat, RoomForNext
  <1>15. ~wild'
    BY ONLY <1>6, <1>14
  <1> QED
    BY ONLY <1>3, <1>9, <1>13, <1>15

LEMMA StringAdjusted ==
  ASSUME MInv, NEW d \in 1..MaxSize, STADJUST(d)
  PROVE  Stacked(st', frames', allocs') /\ Growing(st', str')
  <1>1. Stacked(st, frames, allocs) /\ Chained(st) /\ Growing(st, str) /\ str.on
    BY DEF MInv, Stacked, STADJUST
  <1>2. st.left \in Int /\ st.left >= 0 /\ st.nxt \in Ptrs /\ st.nxt.off \in Int /\ st.sstr \in Int
    BY <1>1, StackTypes
  <1>3. frames' = frames /\ allocs' = allocs
    BY DEF STADJUST
  <1>4. PICK n \in Nat : /\ n = Length(st, str.dest) /\ str.dest.off = st.nxt.off + n
                         /\ n <= st.left
                         /\ st.sstr = st.left - n /\ str.dest.blk = st.nxt.blk
    BY <1>1, StringTypes
  <1>5. str \in Strings /\ str.dest \in Ptrs /\ str.dest.off \in Int
    BY <1>1, StringTypes
  <1>6. d \in Int /\ d > 0 /\ d <= n
    BY <1>4 DEF STADJUST
  <1>7. PICK k \in Int : k = st.sstr + d
    BY ONLY <1>2, <1>6
  <1>8. PICK e \in Int : e = -d
    BY ONLY <1>6
  <1>9. st' = [st EXCEPT !.sstr = k] /\ str' = [str EXCEPT !.dest = At(str.dest, e)]
    BY <1>7, <1>8 DEF STADJUST
  <1>10. /\ Stacked(st', frames, allocs) /\ Chained(st') /\ st'.nxt = st.nxt
         /\ st'.left = st.left /\ st'.sstr = k
    BY ONLY <1>1, <1>9, k \in Int, SetSstr
  <1>11. PICK p \in Ptrs : p = At(str.dest, e) /\ p.blk = str.dest.blk /\ p.off = str.dest.off + e
    BY ONLY <1>5, e \in Int, AtRight
  <1>12. /\ p.blk = st'.nxt.blk /\ p.off = st'.nxt.off + (n - d) /\ 0 <= n - d
         /\ n - d <= st'.left /\ st'.sstr = st'.left - (n - d) /\ n - d \in Int
    BY ONLY <1>2, <1>4, <1>5, <1>6, <1>7, <1>8, <1>10, <1>11
  <1>13. Growing(st', str')
    BY ONLY <1>5, <1>9, <1>10, <1>11, <1>12, p \in Ptrs, GrowsOn
  <1> QED
    BY ONLY <1>3, <1>10, <1>13

LEMMA RoomGrown ==
  ASSUME MInv, GrowRoom
  PROVE  Stacked(st', frames', allocs') /\ Growing(st', str')
  <1>1. Stacked(st, frames, allocs) /\ str \in Strings /\ ~str.on
    BY DEF MInv, Growing, GrowRoom
  <1>2. frames' = frames /\ allocs' = allocs /\ str' = str /\ CanGrow(st)
    BY DEF GrowRoom
  <1>3. PICK g \in growstackblock(st) : st' = Idle(g)
    BY DEF GrowRoom
  <1>4. Stacked(g, frames, allocs)
    BY ONLY <1>1, <1>2, g \in growstackblock(st), GrowRight
  <1>5. Higher(g, Idle(g)) /\ Growing(Idle(g), str)
    BY ONLY <1>1, <1>4, IdleStack DEF Stacked
  <1>6. Stacked(Idle(g), frames, allocs)
    BY ONLY <1>4, <1>5, HigherStacked
  <1> QED
    BY ONLY <1>2, <1>3, <1>5, <1>6

-----------------------------------------------------------------------------
(* Allocations.                                                            *)

LEMMA Appended ==
  ASSUME NEW S, NEW q \in Seq(S), NEW e \in S
  PROVE  /\ Append(q, e) \in Seq(S) /\ DOMAIN q = 1..Len(q) /\ Len(q) \in Nat
         /\ Len(Append(q, e)) = Len(q) + 1 /\ DOMAIN Append(q, e) = 1..(Len(q) + 1)
         /\ Append(q, e)[Len(q) + 1] = e /\ \A i \in 1..Len(q) : Append(q, e)[i] = q[i]
         /\ \A i \in DOMAIN Append(q, e) : i \in 1..Len(q) \/ i = Len(q) + 1
         /\ \A i \in DOMAIN q : i \in DOMAIN Append(q, e)
  OBVIOUS

\* What is new above everything that is allocated.
LEMMA NotedMore ==
  ASSUME NEW s, Chained(s), NEW x, Higher(s, x), NEW fr, Marked(s, fr), NEW al, Noted(s, fr, al),
         NEW e \in Allocs, e.blk \in Ids(x), e.off >= 0, Aligned(e.off), e.depth = Len(fr),
         Clear(x, e, x.nxt), Under(x, s.nxt, e)
  PROVE  Noted(x, fr, Append(al, e))
  <1> DEFINE n == Len(al)
             al2 == Append(al, e)
  <1>1. Noted(x, fr, al)
    BY HigherNoted
  <1>2. al \in Seq(Allocs)
    BY DEF Noted
  <1>3. /\ al2 \in Seq(Allocs) /\ n \in Nat /\ DOMAIN al2 = 1..(n + 1) /\ DOMAIN al = 1..n
        /\ al2[n + 1] = e /\ \A i \in 1..n : al2[i] = al[i]
        /\ \A i \in DOMAIN al2 : i \in 1..n \/ i = n + 1
    BY ONLY <1>2, e \in Allocs, Appended
  <1> HIDE DEF n, al2
  <1>4. Len(fr) \in 1..MaxFrames
    BY DEF Marked
  <1>5. /\ Chained(x) /\ Listed(x) /\ Keeps(s, x, Ids(s)) /\ x.mark = s.mark
        /\ s.nxt.blk \in Ids(s) /\ s.nxt.off \in Int
    BY StackTypes DEF Higher
  <1>6. e.off \in Int /\ e.depth \in Int
    BY DEF Allocs
  <1>7. ASSUME NEW i \in 1..n
        PROVE  /\ Clear(x, al[i], e) /\ al[i].depth <= e.depth
               /\ al[i] \in Allocs /\ al[i].depth \in 1..Len(fr)
    <2>1. al[i] \in Allocs /\ al[i].blk \in Ids(s) /\ Clear(s, al[i], s.nxt)
          /\ al[i].depth \in 1..Len(fr)
      BY <1>3 DEF Noted
    <2>2. Clear(x, al[i], s.nxt)
      BY ONLY <1>5, <2>1, KeepsClear
    <2>3. Clear(x, al[i], e)
      BY ONLY <1>5, <1>6, <2>1, <2>2, Under(x, s.nxt, e), ClearOver
    <2>4. al[i].depth <= Len(fr)
      BY ONLY <1>4, <2>1
    <2> QED
      BY ONLY <2>1, <2>3, <2>4, e.depth = Len(fr)
  <1>8. ASSUME NEW f \in 1..Len(fr) PROVE ~(e.depth < f) /\ Under(x, x.mark[f].nxt, e)
    <2>1. Under(s, s.mark[f].nxt, s.nxt)
      BY DEF Marked
    <2>2. s.mark[f].nxt.blk \in Ids(s)
      BY ONLY <2>1 DEF Under
    <2>3. Under(x, s.mark[f].nxt, s.nxt)
      BY ONLY <1>5, <2>1, <2>2, KeepsUnder
    <2>4. f \in 1..MaxFrames
      BY ONLY <1>4, f \in 1..Len(fr), MaxFrames \in Nat \ {0}
    <2>5. s.mark[f].nxt.off \in Int
      BY <2>4, StackTypes
    <2>6. Under(x, s.mark[f].nxt, e)
      BY ONLY <1>5, <1>6, <2>3, <2>5, Under(x, s.nxt, e), UnderOver
    <2>7. ~(Len(fr) < f)
      BY ONLY <1>4, f \in 1..Len(fr)
    <2> QED
      BY ONLY <1>5, <2>6, <2>7, e.depth = Len(fr)
  <1>9. ASSUME NEW i \in DOMAIN al2
        PROVE  /\ al2[i].blk \in Ids(x) /\ al2[i].off >= 0 /\ Aligned(al2[i].off)
               /\ al2[i].depth \in 1..Len(fr) /\ Clear(x, al2[i], x.nxt)
               /\ \A f \in 1..Len(fr) : IF al2[i].depth < f THEN Clear(x, al2[i], x.mark[f].nxt)
                                        ELSE Under(x, x.mark[f].nxt, al2[i])
    <2>1. CASE i \in 1..n
      <3>1. i \in DOMAIN al /\ al2[i] = al[i]
        BY ONLY <1>3, <2>1
      <3> QED
        BY ONLY <1>1, <3>1 DEF Noted
    <2>2. CASE i = n + 1
      <3>1. al2[i] = e
        BY ONLY <1>3, <2>2
      <3>2. e.depth \in 1..Len(fr)
        BY ONLY <1>4, e.depth = Len(fr)
      <3> QED
        BY ONLY <1>8, <3>1, <3>2, e.blk \in Ids(x), e.off >= 0, Aligned(e.off),
                Clear(x, e, x.nxt)
    <2> QED
      BY ONLY <1>3, <2>1, <2>2, i \in DOMAIN al2
  <1>10. ASSUME NEW i \in DOMAIN al2, NEW j \in DOMAIN al2, i < j
         PROVE  al2[i].depth <= al2[j].depth /\ Clear(x, al2[i], al2[j])
    <2>1. i \in 1..n /\ al2[i] = al[i]
      BY ONLY <1>3, <1>10
    <2>2. CASE j \in 1..n
      <3>1. j \in DOMAIN al /\ i \in DOMAIN al /\ al2[j] = al[j]
        BY ONLY <1>3, <2>1, <2>2
      <3> QED
        BY ONLY <1>1, <1>10, <2>1, <3>1 DEF Noted
    <2>3. CASE j = n + 1
      BY ONLY <1>3, <1>7, <2>1, <2>3
    <2> QED
      BY ONLY <1>3, <2>2, <2>3, j \in DOMAIN al2
  <1> QED
    BY ONLY <1>3, <1>9, <1>10 DEF Noted, al2

\* stalloc(s, n) allocates e, of which len bytes are used.
LEMMA StallocNoted ==
  ASSUME NEW s, NEW fr, NEW al, Chained(s), Marked(s, fr), Noted(s, fr, al),
         NEW n \in Nat, CanAlloc(s, n), NEW x, x = stalloc(s, n), NEW e \in Allocs,
         e.blk = Allocated(s, n).blk, e.off = Allocated(s, n).off, e.len <= n,
         e.depth = Len(fr), n > 0 \/ s.left = 0
  PROVE  Higher(s, x) /\ Noted(x, fr, Append(al, e))
  <1> DEFINE p == Allocated(s, n)
  <1>1. /\ Higher(s, x) /\ p \in Ptrs /\ p.blk = x.nxt.blk /\ p.off >= 0 /\ Aligned(p.off)
        /\ x.nxt.off = p.off + Align(n) /\ Under(x, s.nxt, p)
        /\ n <= s.left => p = s.nxt
    BY StallocRight
  <1>2. Align(n) \in Int /\ n <= Align(n)
    BY AlignRight
  <1>3. e.blk = p.blk /\ e.off = p.off
    OBVIOUS
  <1>4. s.left \in Int /\ s.nxt.off + s.left = SizeOf(s, s.nxt.blk) /\ s.nxt.off \in Int
        /\ SizeOf(s, s.nxt.blk) \in Nat \ {0}
    BY StackTypes
  <1> HIDE DEF p
  <1>5. e.off \in Int /\ e.len \in Nat /\ e.depth \in Int
    BY DEF Allocs
  <1>6. Under(x, s.nxt, e) /\ e.blk \in Ids(x)
    BY <1>1, <1>3 DEF Under
  <1>7. Clear(x, e, x.nxt)
    <2>1. e.off + e.len <= x.nxt.off
      BY ONLY <1>1, <1>2, <1>3, <1>5, n \in Nat, e.len <= n
    <2>2. x.nxt.off > 0
      <3>1. CASE n > 0
        BY ONLY <1>1, <1>2, <1>3, <1>5, <3>1, n \in Nat
      <3>2. CASE n = 0 /\ s.left = 0
        <4>1. p = s.nxt
          BY ONLY <1>1, <3>2
        <4> QED
          BY ONLY <1>1, <1>2, <1>4, <3>2, <4>1
      <3> QED
        BY ONLY <3>1, <3>2, n \in Nat, n > 0 \/ s.left = 0
    <2>3. End(e).blk = x.nxt.blk /\ End(e).off = e.off + e.len /\ x.nxt.blk \in Ids(x)
      BY <1>1, <1>3, <1>6 DEF End
    <2> QED
      BY ONLY <2>1, <2>2, <2>3 DEF Clear, Under
  <1>8. e.off >= 0 /\ Aligned(e.off)
    BY ONLY <1>1, <1>3
  <1> QED
    BY ONLY <1>1, <1>6, <1>7, <1>8, Chained(s), Marked(s, fr), Noted(s, fr, al), e \in Allocs,
            e.depth = Len(fr), NotedMore

LEMMA StallocStacked ==
  ASSUME NEW s, NEW fr, NEW al, Stacked(s, fr, al),
         NEW n \in Nat, CanAlloc(s, n), NEW x, x = stalloc(s, n), NEW e \in Allocs,
         e.blk = Allocated(s, n).blk, e.off = Allocated(s, n).off, e.len <= n,
         e.depth = Len(fr), n > 0 \/ s.left = 0
  PROVE  Stacked(x, fr, Append(al, e))
  <1>1. Chained(s) /\ Marked(s, fr) /\ Noted(s, fr, al) /\ Asides(s, fr, al)
    BY DEF Stacked
  <1>2. Higher(s, x) /\ Noted(x, fr, Append(al, e))
    BY ONLY <1>1, n \in Nat, CanAlloc(s, n), x = stalloc(s, n), e \in Allocs,
            e.blk = Allocated(s, n).blk, e.off = Allocated(s, n).off, e.len <= n,
            e.depth = Len(fr), n > 0 \/ s.left = 0, StallocNoted
  <1>3. Stacked(x, fr, al)
    BY <1>2, HigherStacked
  <1>4. /\ \A i \in DOMAIN al : i \in DOMAIN Append(al, e) /\ Append(al, e)[i] = al[i]
    <2>1. al \in Seq(Allocs)
      BY <1>1 DEF Noted
    <2> QED
      BY ONLY <2>1, e \in Allocs, Appended
  <1>5. ASSUME NEW f \in 1..Len(fr), fr[f].kind # "command"
        PROVE  /\ Resumes(x.mark[f], fr[f])
               /\ \E i \in DOMAIN Append(al, e) :
                    /\ Append(al, e)[i].depth = f /\ Append(al, e)[i].aside
                    /\ Append(al, e)[i].blk = x.mark[f].blk
    <2>1. /\ Resumes(x.mark[f], fr[f])
          /\ \E i \in DOMAIN al : al[i].depth = f /\ al[i].aside /\ al[i].blk = x.mark[f].blk
      BY <1>3, <1>5 DEF Stacked, Asides
    <2> QED
      BY ONLY <1>4, <2>1
  <1> QED
    BY ONLY <1>2, <1>3, <1>5 DEF Stacked, Asides

\* An entry of the history.
LEMMA NoteRight ==
  ASSUME NEW p \in Ptrs, NEW n \in Nat, NEW depth \in Int, NEW aside \in BOOLEAN,
         NEW e, e = [blk |-> p.blk, off |-> p.off, len |-> n, depth |-> depth, aside |-> aside]
  PROVE  /\ e \in Allocs /\ e.blk = p.blk /\ e.off = p.off /\ e.len = n /\ e.depth = depth
         /\ e.aside = aside
  <1>1. p.blk \in Names /\ p.off \in Int
    BY DEF Ptrs
  <1> QED
    BY <1>1 DEF Allocs

LEMMA StringGrabbed ==
  ASSUME MInv, grabstackstr
  PROVE  Stacked(st', frames', allocs') /\ Growing(st', str')
  <1>1. Stacked(st, frames, allocs) /\ Chained(st) /\ Growing(st, str) /\ str.on
    BY DEF MInv, Stacked, grabstackstr
  <1>2. PICK n \in Nat : n = Length(st, str.dest) /\ n <= st.left
    BY <1>1, StringTypes
  <1>3. /\ n > 0 /\ CanAlloc(st, n) /\ st' = Idle(stalloc(st, n)) /\ str' = NoStr
        /\ frames' = frames /\ allocs' = Note(st.nxt, n, Len(frames), FALSE)
    BY <1>2 DEF grabstackstr
  <1>4. st.nxt \in Ptrs /\ Len(frames) \in Int
    BY <1>1, StackTypes DEF Stacked, Marked
  <1>5. PICK e : e = [blk |-> st.nxt.blk, off |-> st.nxt.off, len |-> n,
                      depth |-> Len(frames), aside |-> FALSE]
    OBVIOUS
  <1>12. allocs' = Append(allocs, e)
    BY ONLY <1>3, <1>5 DEF Note
  <1>13. /\ e \in Allocs /\ e.blk = st.nxt.blk /\ e.off = st.nxt.off /\ e.len = n
         /\ e.depth = Len(frames)
    <2>1. PICK p \in Ptrs : p = st.nxt
      BY ONLY <1>4
    <2>2. e = [blk |-> p.blk, off |-> p.off, len |-> n, depth |-> Len(frames), aside |-> FALSE]
      BY ONLY <1>5, <2>1
    <2>3. /\ e \in Allocs /\ e.blk = p.blk /\ e.off = p.off /\ e.len = n
          /\ e.depth = Len(frames)
      BY ONLY <1>4, <2>2, p \in Ptrs, n \in Nat, FALSE \in BOOLEAN, NoteRight
    <2> QED
      BY ONLY <2>1, <2>3
  <1>6. Allocated(st, n) = st.nxt
    BY ONLY <1>1, <1>2, <1>3, n \in Nat, StallocRight
  <1>7. PICK x : x = stalloc(st, n)
    OBVIOUS
  <1>14. e.len <= n /\ (n > 0 \/ st.left = 0)
    BY ONLY <1>3, <1>13, n \in Nat
  <1>8. Stacked(x, frames, Append(allocs, e))
    BY ONLY <1>1, <1>3, <1>6, <1>7, <1>13, <1>14, n \in Nat, StallocStacked
  <1>9. NoStr \in Strings /\ ~NoStr.on
    BY DEF NoStr, Strings, Ptrs, Names
  <1>10. Higher(x, Idle(x)) /\ Growing(Idle(x), NoStr)
    BY ONLY <1>8, <1>9, IdleStack DEF Stacked
  <1>11. Stacked(Idle(x), frames, Append(allocs, e))
    BY ONLY <1>8, <1>10, HigherStacked
  <1> QED
    BY ONLY <1>3, <1>7, <1>10, <1>11, <1>12

LEMMA BytesAllocated ==
  ASSUME MInv, NEW n \in Nat \ {0}, Alloc(n)
  PROVE  Stacked(st', frames', allocs') /\ Growing(st', str')
  <1>1. Stacked(st, frames, allocs) /\ Chained(st) /\ Growing(st, str) /\ ~str.on
    BY DEF MInv, Stacked, Alloc
  <1>2. /\ CanAlloc(st, n) /\ st' = stalloc(st, n) /\ str' = str
        /\ frames' = frames /\ allocs' = Note(Allocated(st, n), n, Len(frames), FALSE)
    BY DEF Alloc
  <1>3. n \in Nat /\ n > 0
    OBVIOUS
  <1>4. Allocated(st, n) \in Ptrs
    BY ONLY <1>1, <1>2, <1>3, StallocRight
  <1>5. Len(frames) \in Int
    BY <1>1 DEF Stacked, Marked
  <1>6. PICK p \in Ptrs : p = Allocated(st, n)
    BY <1>4
  <1>10. PICK e : e = [blk |-> p.blk, off |-> p.off, len |-> n,
                       depth |-> Len(frames), aside |-> FALSE]
    OBVIOUS
  <1>11. allocs' = Append(allocs, e)
    BY ONLY <1>2, <1>6, <1>10 DEF Note
  <1>12. /\ e \in Allocs /\ e.blk = p.blk /\ e.off = p.off /\ e.len = n
         /\ e.depth = Len(frames)
    BY ONLY <1>3, <1>5, <1>10, p \in Ptrs, FALSE \in BOOLEAN, NoteRight
  <1>7. e.len <= n /\ (n > 0 \/ st.left = 0)
    BY ONLY <1>3, <1>12
  <1>8. Stacked(st', frames, Append(allocs, e))
    BY ONLY <1>1, <1>2, <1>3, <1>6, <1>7, <1>12, StallocStacked
  <1>9. Growing(st', str)
    BY <1>1 DEF Growing
  <1> QED
    BY ONLY <1>2, <1>8, <1>9, <1>11

-----------------------------------------------------------------------------
(* What is released.                                                       *)

LEMMA Shortened ==
  ASSUME NEW S, NEW q \in Seq(S), NEW m \in 0..Len(q)
  PROVE  /\ SubSeq(q, 1, m) \in Seq(S) /\ Len(SubSeq(q, 1, m)) = m
         /\ DOMAIN SubSeq(q, 1, m) = 1..m /\ DOMAIN q = 1..Len(q) /\ Len(q) \in Nat
         /\ \A i \in 1..m : SubSeq(q, 1, m)[i] = q[i] /\ i \in DOMAIN q
         /\ m = Len(q) => SubSeq(q, 1, m) = q
  <1>1. Len(q) \in Nat /\ m \in Nat /\ m <= Len(q) /\ DOMAIN q = 1..Len(q)
    OBVIOUS
  <1>2. \A i \in 1..m : i \in 1..Len(q) /\ q[i] \in S
    BY ONLY <1>1, q \in Seq(S)
  <1>3. Len(SubSeq(q, 1, m)) = m /\ DOMAIN SubSeq(q, 1, m) = 1..m
        /\ \A i \in 1..m : SubSeq(q, 1, m)[i] = q[i]
    BY ONLY <1>1, q \in Seq(S)
  <1>4. SubSeq(q, 1, m) \in Seq(S)
    BY ONLY <1>1, <1>2, <1>3, q \in Seq(S)
  <1>5. m = Len(q) => SubSeq(q, 1, m) = q
    <2> SUFFICES ASSUME m = Len(q) PROVE SubSeq(q, 1, m) = q
      OBVIOUS
    <2>1. Len(SubSeq(q, 1, m)) = Len(q) /\ \A i \in 1..Len(q) : SubSeq(q, 1, m)[i] = q[i]
      BY ONLY <1>3, m = Len(q)
    <2> DEFINE r == SubSeq(q, 1, m)
    <2>2. r \in Seq(S) /\ Len(r) = Len(q) /\ \A i \in 1..Len(q) : r[i] = q[i]
      BY ONLY <1>4, <2>1
    <2> HIDE DEF r
    <2>3. r = q
      BY ONLY <2>2, q \in Seq(S)
    <2> QED
      BY ONLY <2>3 DEF r
  <1> QED
    BY ONLY <1>1, <1>2, <1>3, <1>4, <1>5

\* From s the stack goes back to x: what is there in x is what was below x.nxt in s,
\* the first j marks and the first m allocations.
LEMMA Lowered ==
  ASSUME NEW s, NEW fr, NEW al, Stacked(s, fr, al), NEW x, Chained(x),
         NEW N, Keeps(s, x, N), x.nxt.blk \in N,
         NEW j \in 1..Len(fr), x.markp = j \/ (x.markp = 0 /\ j = 1),
         \A f \in 1..j : /\ x.mark[f] = s.mark[f] /\ s.mark[f].blk \in N
                         /\ Under(s, s.mark[f].nxt, x.nxt),
         NEW m \in 0..Len(al),
         \A i \in 1..m : al[i].blk \in N /\ al[i].depth <= j /\ Clear(s, al[i], x.nxt),
         \A f \in 1..j : fr[f].kind # "command" =>
            \E i \in 1..m : al[i].depth = f /\ al[i].aside /\ al[i].blk = s.mark[f].blk
  PROVE  Stacked(x, SubSeq(fr, 1, j), SubSeq(al, 1, m))
  <1> DEFINE fr2 == SubSeq(fr, 1, j)
             al2 == SubSeq(al, 1, m)
  <1>1. Marked(s, fr) /\ Noted(s, fr, al) /\ Asides(s, fr, al)
    BY DEF Stacked
  <1>2. fr \in Seq(Frames) /\ Len(fr) \in 1..MaxFrames /\ fr[1].kind = "command"
        /\ s.mark[1].blk = 1
    BY ONLY <1>1 DEF Marked
  <1>3. j \in 0..Len(fr) /\ j \in 1..MaxFrames /\ 1 \in 1..j /\ \A f \in 1..j : f \in 1..Len(fr)
    BY ONLY <1>2, j \in 1..Len(fr), MaxFrames \in Nat \ {0}
  <1>4. fr2 \in Seq(Frames) /\ Len(fr2) = j /\ \A f \in 1..j : fr2[f] = fr[f]
    BY ONLY <1>2, <1>3, Shortened
  <1>5. al \in Seq(Allocs)
    BY ONLY <1>1 DEF Noted
  <1>6. /\ al2 \in Seq(Allocs) /\ DOMAIN al2 = 1..m
        /\ \A i \in 1..m : al2[i] = al[i] /\ i \in DOMAIN al
    BY ONLY <1>5, m \in 0..Len(al), Shortened
  <1>7. \A f \in 1..Len(fr) :
          /\ f > 1 => s.mark[f].next = f - 1 \/ (s.mark[f].next = 0 /\ f = 2)
          /\ f = 1 => s.mark[f].next = 0
          /\ s.mark[f].nxt.blk = s.mark[f].blk
          /\ Room(s, s.mark[f].nxt, s.mark[f].left)
    BY ONLY <1>1 DEF Marked
  <1>8. \A f, g \in 1..Len(fr) : f <= g => Under(s, s.mark[f].nxt, s.mark[g].nxt)
    BY ONLY <1>1 DEF Marked
  <1>9. \A f \in 1..j : /\ x.mark[f] = s.mark[f] /\ s.mark[f].blk \in N
                        /\ Under(s, s.mark[f].nxt, x.nxt)
    OBVIOUS
  <1>10. \A i \in 1..m : al[i].blk \in N /\ al[i].depth <= j /\ Clear(s, al[i], x.nxt)
    OBVIOUS
  <1> HIDE DEF fr2, al2
  <1>11. Marked(x, fr2)
    <2>1. ASSUME NEW f \in 1..j
          PROVE  /\ f > 1 => x.mark[f].next = f - 1 \/ (x.mark[f].next = 0 /\ f = 2)
                 /\ f = 1 => x.mark[f].next = 0
                 /\ x.mark[f].nxt.blk = x.mark[f].blk
                 /\ Room(x, x.mark[f].nxt, x.mark[f].left) /\ Under(x, x.mark[f].nxt, x.nxt)
      <3>1. /\ f \in 1..Len(fr) /\ x.mark[f] = s.mark[f] /\ s.mark[f].nxt.blk \in N
            /\ Under(s, s.mark[f].nxt, x.nxt) /\ Room(s, s.mark[f].nxt, s.mark[f].left)
        BY ONLY <1>3, <1>7, <1>9, f \in 1..j
      <3>2. Under(x, s.mark[f].nxt, x.nxt)
        BY ONLY <3>1, Keeps(s, x, N), x.nxt.blk \in N, KeepsUnder
      <3>3. Room(x, s.mark[f].nxt, s.mark[f].left)
        BY ONLY <3>1, Keeps(s, x, N), KeepsRoom
      <3> QED
        BY ONLY <1>7, <3>1, <3>2, <3>3
    <2>2. ASSUME NEW f \in 1..j, NEW g \in 1..j, f <= g
          PROVE  Under(x, x.mark[f].nxt, x.mark[g].nxt)
      <3>1. Under(s, s.mark[f].nxt, s.mark[g].nxt)
        BY ONLY <1>3, <1>8, <2>2
      <3>2. s.mark[f].nxt.blk \in N /\ s.mark[g].nxt.blk \in N
        BY ONLY <1>3, <1>7, <1>9, f \in 1..j, g \in 1..j
      <3> QED
        BY ONLY <1>9, <3>1, <3>2, f \in 1..j, g \in 1..j, Keeps(s, x, N), KeepsUnder
    <2>3. x.mark[1].blk = 1 /\ fr2[1].kind = "command"
      BY ONLY <1>2, <1>3, <1>4, <1>9
    <2> QED
      BY ONLY <1>3, <1>4, <2>1, <2>2, <2>3, x.markp = j \/ (x.markp = 0 /\ j = 1) DEF Marked
  <1>12. Noted(x, fr2, al2)
    <2>1. ASSUME NEW i \in 1..m
          PROVE  /\ al2[i] = al[i] /\ al[i].blk \in N /\ al[i].blk \in Ids(x) /\ al[i].off >= 0
                 /\ Aligned(al[i].off) /\ al[i].depth \in 1..j /\ Clear(x, al[i], x.nxt)
      <3>1. /\ i \in DOMAIN al /\ al2[i] = al[i] /\ al[i].blk \in N /\ al[i].depth <= j
            /\ Clear(s, al[i], x.nxt)
        BY ONLY <1>6, <1>10, i \in 1..m
      <3>2. al[i].off >= 0 /\ Aligned(al[i].off) /\ al[i].depth \in 1..Len(fr)
        BY ONLY <1>1, <3>1 DEF Noted
      <3>3. al[i].depth \in 1..j
        BY ONLY <1>2, <1>3, <3>1, <3>2
      <3>4. Clear(x, al[i], x.nxt)
        BY ONLY <3>1, Keeps(s, x, N), x.nxt.blk \in N, KeepsClear
      <3>5. al[i].blk \in Ids(x)
        BY ONLY <3>1, Keeps(s, x, N) DEF Keeps
      <3> QED
        BY ONLY <3>1, <3>2, <3>3, <3>4, <3>5
    <2>2. ASSUME NEW i \in 1..m, NEW f \in 1..j
          PROVE  IF al2[i].depth < f THEN Clear(x, al2[i], x.mark[f].nxt)
                 ELSE Under(x, x.mark[f].nxt, al2[i])
      <3>1. i \in DOMAIN al /\ f \in 1..Len(fr) /\ al2[i] = al[i] /\ al[i].blk \in N
            /\ x.mark[f] = s.mark[f] /\ s.mark[f].nxt.blk \in N
        BY ONLY <1>3, <1>6, <1>7, <1>9, <2>1, i \in 1..m, f \in 1..j
      <3>2. IF al[i].depth < f THEN Clear(s, al[i], s.mark[f].nxt)
            ELSE Under(s, s.mark[f].nxt, al[i])
        BY ONLY <1>1, <3>1 DEF Noted
      <3>3. Clear(s, al[i], s.mark[f].nxt) => Clear(x, al[i], s.mark[f].nxt)
        BY ONLY <3>1, Keeps(s, x, N), KeepsClear
      <3>4. Under(s, s.mark[f].nxt, al[i]) => Under(x, s.mark[f].nxt, al[i])
        BY ONLY <3>1, Keeps(s, x, N), KeepsUnder
      <3> QED
        BY ONLY <3>1, <3>2, <3>3, <3>4
    <2>3. ASSUME NEW i \in 1..m, NEW k \in 1..m, i < k
          PROVE  al2[i].depth <= al2[k].depth /\ Clear(x, al2[i], al2[k])
      <3>1. al[i].depth <= al[k].depth /\ Clear(s, al[i], al[k])
        BY ONLY <1>1, <1>6, <2>3 DEF Noted
      <3> QED
        BY ONLY <2>1, <3>1, i \in 1..m, k \in 1..m, Keeps(s, x, N), KeepsClear
    <2> QED
      BY ONLY <1>4, <1>6, <2>1, <2>2, <2>3 DEF Noted
  <1>13. Asides(x, fr2, al2)
    <2>1. ASSUME NEW f \in 1..j, fr[f].kind # "command"
          PROVE  /\ Resumes(x.mark[f], fr[f])
                 /\ \E i \in 1..m : /\ al2[i].depth = f /\ al2[i].aside
                                    /\ al2[i].blk = x.mark[f].blk
      <3>1. Resumes(s.mark[f], fr[f])
        BY <1>1, <1>3, <2>1 DEF Asides
      <3>2. PICK i \in 1..m : al[i].depth = f /\ al[i].aside /\ al[i].blk = s.mark[f].blk
        BY <2>1
      <3> QED
        BY ONLY <1>6, <1>9, <3>1, <3>2, f \in 1..j
    <2> QED
      BY ONLY <1>4, <1>6, <2>1 DEF Asides
  <1> QED
    BY <1>11, <1>12, <1>13 DEF Stacked, fr2, al2

\* The last allocation, which is on top, is released.
LEMMA LastReleased ==
  ASSUME NEW s, NEW fr, NEW al, Stacked(s, fr, al), al # <<>>,
         NEW a, a = Last(al), a.depth = Len(fr), a.blk = s.nxt.blk, ~a.aside,
         NEW p, p = [blk |-> a.blk, off |-> a.off], NEW x, x = stunalloc(s, p)
  PROVE  /\ Stacked(x, fr, Front(al)) /\ Chained(x) /\ x.nxt = p /\ p \in Ptrs
         /\ p.blk = a.blk /\ p.off = a.off
         /\ a.len \in Nat /\ a.len <= x.left
  <1> DEFINE n == Len(al)
  <1>1. Chained(s) /\ Marked(s, fr) /\ Noted(s, fr, al) /\ Asides(s, fr, al)
    BY DEF Stacked
  <1>2. al \in Seq(Allocs) /\ fr \in Seq(Frames) /\ Len(fr) \in 1..MaxFrames
    BY <1>1 DEF Noted, Marked
  <1>3. n \in Nat \ {0} /\ DOMAIN al = 1..n /\ n \in DOMAIN al /\ a = al[n] /\ a \in Allocs
    BY ONLY <1>2, al # <<>>, a = Last(al) DEF Last
  <1>4. /\ s \in States /\ Listed(s) /\ s.nxt \in Ptrs /\ s.nxt.off \in Int /\ s.left \in Int
        /\ s.nxt.blk = stackp(s).id /\ s.nxt.blk \in Ids(s)
        /\ s.nxt.off >= 0 /\ s.left >= 0 /\ s.nxt.off + s.left = SizeOf(s, s.nxt.blk)
        /\ Aligned(s.nxt.off) /\ Aligned(s.left)
    BY ONLY <1>1, StackTypes
  <1>5. a.off \in Int /\ a.len \in Nat /\ a.blk \in Names
    BY ONLY <1>3 DEF Allocs
  <1>6. a.off >= 0 /\ Aligned(a.off) /\ Clear(s, a, s.nxt)
    BY ONLY <1>1, <1>3 DEF Noted
  <1>7. a.off + a.len <= s.nxt.off
    <2>1. End(a).blk = s.nxt.blk /\ End(a).off = a.off + a.len
      BY DEF End
    <2> QED
      BY ONLY <1>6, <2>1 DEF Clear, Under
  <1>8. p \in Ptrs /\ p.blk = a.blk /\ p.off = a.off
    BY ONLY <1>5, p = [blk |-> a.blk, off |-> a.off] DEF Ptrs
  <1>9. PICK l \in Int : l = s.left + s.nxt.off - a.off
    BY ONLY <1>4, <1>5
  <1>10. x = [s EXCEPT !.left = l, !.nxt = p]
    BY ONLY <1>8, <1>9, x = stunalloc(s, p) DEF stunalloc
  <1>11. /\ x \in States /\ x.chain = s.chain /\ x.nxt = p /\ x.left = l
         /\ x.mark = s.mark /\ x.markp = s.markp
    BY ONLY <1>4, <1>8, <1>10, l \in Int DEF States
  <1>12. /\ Listed(x) /\ Keeps(s, x, Ids(s)) /\ stackp(x) = stackp(s) /\ Ids(x) = Ids(s)
         /\ \A c \in Ids(s) : SizeOf(x, c) = SizeOf(s, c)
    BY ONLY <1>4, <1>11, SameChain DEF Keeps
  <1>13. Aligned(l)
    <2>1. PICK k \in Int : k = s.left + s.nxt.off
      BY ONLY <1>4
    <2>2. Aligned(k)
      BY ONLY <1>4, <2>1, AlignedSum
    <2>3. l = k - a.off
      BY ONLY <1>4, <1>5, <1>9, <2>1
    <2> QED
      BY ONLY <1>5, <1>6, <2>2, <2>3, AlignedSum
  <1>14. l >= a.len /\ l >= 0 /\ a.off + l = SizeOf(s, s.nxt.blk)
    BY ONLY <1>4, <1>5, <1>7, <1>9
  <1>15. Chained(x)
    BY ONLY <1>4, <1>6, <1>8, <1>11, <1>12, <1>13, <1>14, a.blk = s.nxt.blk
       DEF Chained, Topped, Room
  <1>16. PICK m \in 0..n : m = n - 1
    <2> HIDE DEF n
    <2> QED
      BY ONLY <1>3
  <1>17. Front(al) = SubSeq(al, 1, m)
    BY ONLY <1>16 DEF Front
  <1>18. SubSeq(fr, 1, Len(fr)) = fr /\ Len(fr) \in 1..Len(fr)
    <2>1. Len(fr) \in 0..Len(fr) /\ Len(fr) \in 1..Len(fr)
      BY ONLY <1>2
    <2> QED
      BY ONLY <1>2, <2>1, Shortened
  <1>19. \A f \in 1..Len(fr) : /\ x.mark[f] = s.mark[f] /\ s.mark[f].blk \in Ids(s)
                               /\ Under(s, s.mark[f].nxt, x.nxt)
    <2> SUFFICES ASSUME NEW f \in 1..Len(fr)
                 PROVE  /\ s.mark[f].blk \in Ids(s) /\ Under(s, s.mark[f].nxt, x.nxt)
      BY <1>11
    <2>1. Room(s, s.mark[f].nxt, s.mark[f].left) /\ s.mark[f].nxt.blk = s.mark[f].blk
      BY <1>1 DEF Marked
    <2>2. ~(a.depth < f)
      BY <1>2
    <2>3. Under(s, s.mark[f].nxt, a)
      BY ONLY <1>1, <1>3, <2>2, f \in 1..Len(fr) DEF Noted
    <2>4. Under(s, s.mark[f].nxt, p)
      BY ONLY <1>8, <2>3 DEF Under
    <2> QED
      BY ONLY <1>11, <2>1, <2>4 DEF Room
  <1>20. \A i \in 1..m : /\ al[i].blk \in Ids(s) /\ al[i].depth <= Len(fr)
                         /\ Clear(s, al[i], x.nxt)
    <2> SUFFICES ASSUME NEW i \in 1..m
                 PROVE  /\ al[i].blk \in Ids(s) /\ al[i].depth <= Len(fr)
                        /\ Clear(s, al[i], x.nxt)
      OBVIOUS
    <2>1. i \in DOMAIN al /\ i < n
      BY ONLY <1>3, <1>16, i \in 1..m
    <2>2. al[i].blk \in Ids(s) /\ al[i].depth \in 1..Len(fr)
      BY ONLY <1>1, <2>1 DEF Noted
    <2>3. Clear(s, al[i], a)
      BY ONLY <1>1, <1>3, <2>1 DEF Noted
    <2>4. Clear(s, al[i], p)
      BY ONLY <1>8, <2>3 DEF Clear, Under
    <2>5. al[i].depth <= Len(fr)
      BY ONLY <1>2, <2>2
    <2> QED
      BY ONLY <1>11, <2>2, <2>4, <2>5
  <1>21. \A f \in 1..Len(fr) : fr[f].kind # "command" =>
           \E i \in 1..m : al[i].depth = f /\ al[i].aside /\ al[i].blk = s.mark[f].blk
    <2> SUFFICES ASSUME NEW f \in 1..Len(fr), fr[f].kind # "command"
                 PROVE  \E i \in 1..m : /\ al[i].depth = f /\ al[i].aside
                                        /\ al[i].blk = s.mark[f].blk
      OBVIOUS
    <2>1. PICK i \in DOMAIN al : al[i].depth = f /\ al[i].aside /\ al[i].blk = s.mark[f].blk
      BY <1>1 DEF Asides
    <2>2. i # n
      BY <1>3, <2>1
    <2>3. i \in 1..m
      BY ONLY <1>3, <1>16, <2>2, i \in DOMAIN al
    <2> QED
      BY <2>1, <2>3
  <1>22. x.markp = Len(fr) \/ (x.markp = 0 /\ Len(fr) = 1)
    BY ONLY <1>1, <1>11 DEF Marked
  <1>23. x.nxt.blk \in Ids(s)
    BY ONLY <1>4, <1>8, <1>11, a.blk = s.nxt.blk
  <1>24. Stacked(x, SubSeq(fr, 1, Len(fr)), SubSeq(al, 1, m))
    BY ONLY <1>12, <1>15, <1>18, <1>19, <1>20, <1>21, <1>22, <1>23, Stacked(s, fr, al),
            m \in 0..Len(al), Lowered
  <1> QED
    BY ONLY <1>5, <1>8, <1>11, <1>14, <1>15, <1>17, <1>18, <1>24

LEMMA BytesReleased ==
  ASSUME MInv, Unalloc
  PROVE  Stacked(st', frames', allocs') /\ Growing(st', str')
  <1>1. Stacked(st, frames, allocs) /\ Growing(st, str) /\ ~str.on
    BY DEF MInv, Unalloc
  <1>2. PICK a : a = Last(allocs)
    OBVIOUS
  <1>3. PICK p : p = [blk |-> a.blk, off |-> a.off]
    OBVIOUS
  <1>4. allocs # <<>> /\ a.depth = Len(frames) /\ a.blk = st.nxt.blk /\ ~a.aside
    BY ONLY <1>2, Unalloc DEF Unalloc, OnTop
  <1>5. st' = stunalloc(st, p) /\ frames' = frames /\ str' = str /\ allocs' = Front(allocs)
    BY ONLY <1>2, <1>3, Unalloc DEF Unalloc
  <1>6. Stacked(st', frames, Front(allocs))
    BY ONLY <1>1, <1>2, <1>3, <1>4, <1>5, LastReleased
  <1>7. Growing(st', str)
    BY ONLY <1>1 DEF Growing
  <1> QED
    BY ONLY <1>5, <1>6, <1>7

LEMMA StringUngrabbed ==
  ASSUME MInv, ungrabstackstr
  PROVE  Stacked(st', frames', allocs') /\ Growing(st', str')
  <1>1. Stacked(st, frames, allocs)
    BY DEF MInv
  <1>2. PICK a : a = Last(allocs)
    OBVIOUS
  <1>3. PICK p : p = [blk |-> a.blk, off |-> a.off]
    OBVIOUS
  <1>4. allocs # <<>> /\ a.depth = Len(frames) /\ a.blk = st.nxt.blk /\ ~a.aside
    BY ONLY <1>2, ungrabstackstr DEF ungrabstackstr, OnTop
  <1>5. PICK u : u = stunalloc(st, p)
    OBVIOUS
  <1>6. /\ st' = [u EXCEPT !.sstr = u.left - a.len]
        /\ str' = [on |-> TRUE, dest |-> At(p, a.len), here |-> FALSE]
        /\ frames' = frames /\ allocs' = Front(allocs)
    BY ONLY <1>2, <1>3, <1>5, ungrabstackstr DEF ungrabstackstr
  <1>7. /\ Stacked(u, frames, Front(allocs)) /\ Chained(u) /\ u.nxt = p /\ p \in Ptrs
        /\ p.blk = a.blk /\ p.off = a.off /\ a.len \in Nat /\ a.len <= u.left
    BY ONLY <1>1, <1>2, <1>3, <1>4, <1>5, LastReleased
  <1>8. u.left \in Int /\ p.off \in Int
    BY ONLY <1>7, StackTypes DEF Ptrs
  <1>9. PICK k \in Int : k = u.left - a.len
    BY ONLY <1>7, <1>8
  <1>10. /\ Stacked(st', frames, Front(allocs)) /\ Chained(st') /\ st'.nxt = u.nxt
         /\ st'.left = u.left /\ st'.sstr = k
    BY ONLY <1>6, <1>7, <1>9, k \in Int, SetSstr
  <1>11. At(p, a.len) \in Ptrs /\ At(p, a.len).blk = p.blk /\ At(p, a.len).off = p.off + a.len
    BY ONLY <1>7, a.len \in Int, AtRight
  <1>12. str' \in Strings /\ str'.dest = At(p, a.len)
    BY ONLY <1>6, <1>11 DEF Strings
  <1>13. str'.dest.off - st'.nxt.off = a.len
    BY ONLY <1>7, <1>8, <1>10, <1>11, <1>12
  <1>14. Growing(st', str')
    BY ONLY <1>7, <1>9, <1>10, <1>11, <1>12, <1>13 DEF Growing
  <1> QED
    BY ONLY <1>6, <1>10, <1>14

-----------------------------------------------------------------------------
(* Marks.                                                                  *)

\* A mark is set.
LEMMA MarkSet ==
  ASSUME NEW s, NEW fr, NEW al, Stacked(s, fr, al), Len(fr) < MaxFrames,
         NEW r \in Frames, NEW x, x = setstackmark(s, Len(fr) + 1)
  PROVE  /\ Chained(x) /\ Marked(x, Append(fr, r)) /\ Noted(x, Append(fr, r), al)
         /\ Asides(x, fr, al) /\ \A f \in 1..Len(fr) : Append(fr, r)[f] = fr[f]
         /\ x.chain = s.chain /\ x.nxt = s.nxt /\ x.left = s.left /\ x.sstr = s.sstr
         /\ x.markp = Len(fr) + 1
         /\ LET m == x.mark[Len(fr) + 1]
            IN m.blk = s.nxt.blk /\ m.nxt = s.nxt /\ m.left = s.left /\ m.sstr = s.sstr
         /\ \A f \in 1..Len(fr) : x.mark[f] = s.mark[f]
  <1>1. Chained(s) /\ Marked(s, fr) /\ Noted(s, fr, al) /\ Asides(s, fr, al)
    BY DEF Stacked
  <1>2. /\ fr \in Seq(Frames) /\ Len(fr) \in 1..MaxFrames /\ fr[1].kind = "command"
        /\ (s.markp = Len(fr) \/ (s.markp = 0 /\ Len(fr) = 1)) /\ s.mark[1].blk = 1
    BY <1>1 DEF Marked
  <1>3. PICK n \in Nat : n = Len(fr) /\ n + 1 \in 1..MaxFrames /\ n >= 1
    BY ONLY <1>2, Len(fr) < MaxFrames, MaxFrames \in Nat \ {0}
  <1>4. PICK q : q = Append(fr, r)
    OBVIOUS
  <1>5. /\ q \in Seq(Frames) /\ Len(q) = n + 1 /\ q[n + 1] = r /\ \A f \in 1..n : q[f] = fr[f]
    BY ONLY <1>2, <1>3, <1>4, r \in Frames, Appended
  <1>6. /\ s \in States /\ Listed(s) /\ s.nxt \in Ptrs /\ s.nxt.blk \in Names
        /\ s.left \in Int /\ s.sstr \in Int /\ s.nxt.off \in Int
        /\ s.markp \in Int /\ s.mark \in [1..MaxFrames -> Marks]
        /\ s.nxt.blk = stackp(s).id /\ s.nxt.blk \in Ids(s) /\ Room(s, s.nxt, s.left)
    BY ONLY <1>1, StackTypes
  <1>7. PICK m : m = [blk |-> stackp(s).id, nxt |-> s.nxt, left |-> s.left,
                      sstr |-> s.sstr, next |-> s.markp]
    OBVIOUS
  <1>8. /\ m \in Marks /\ m.blk = s.nxt.blk /\ m.nxt = s.nxt /\ m.left = s.left /\ m.sstr = s.sstr
        /\ m.next = s.markp
    BY ONLY <1>6, <1>7 DEF Marks
  <1>9. x = [s EXCEPT !.mark = [s.mark EXCEPT ![n + 1] = m], !.markp = n + 1]
    BY ONLY <1>3, <1>7, x = setstackmark(s, Len(fr) + 1) DEF setstackmark
  <1>10. PICK mk \in [1..MaxFrames -> Marks] : mk = [s.mark EXCEPT ![n + 1] = m]
    BY ONLY <1>6, <1>8
  <1>11. /\ x \in States /\ x.chain = s.chain /\ x.nxt = s.nxt /\ x.left = s.left
         /\ x.sstr = s.sstr /\ x.mark = mk /\ x.markp = n + 1
    <2>1. PICK k \in Int : k = n + 1
      BY ONLY n \in Nat
    <2>2. x = [s EXCEPT !.mark = mk, !.markp = k]
      BY ONLY <1>9, <1>10, <2>1
    <2>3. mk \in [1..MaxFrames -> Marks]
      OBVIOUS
    <2> QED
      BY ONLY <1>6, <2>1, <2>2, <2>3, k \in Int DEF States
  <1>12. x.mark[n + 1] = m /\ \A f \in 1..n : x.mark[f] = s.mark[f]
    <2>1. \A f \in 1..n : f \in 1..MaxFrames /\ f # n + 1
      BY ONLY <1>3, MaxFrames \in Nat \ {0}, n \in Nat
    <2> QED
      BY ONLY <1>3, <1>6, <1>10, <1>11, <2>1
  <1>13. /\ Listed(x) /\ Ids(x) = Ids(s) /\ stackp(x) = stackp(s)
         /\ (\A y, z : Under(x, y, z) <=> Under(s, y, z))
         /\ (\A y, z : Clear(x, y, z) <=> Clear(s, y, z))
         /\ (\A y, l : Room(x, y, l) <=> Room(s, y, l))
    BY ONLY <1>6, <1>11, SameChain
  <1>14. Chained(x)
    BY ONLY <1>6, <1>11, <1>13 DEF Chained, Topped
  <1>15. Under(s, s.nxt, s.nxt)
    BY ONLY <1>6 DEF Under
  <1>16. \A f \in 1..(n + 1) : f \in 1..n \/ f = n + 1
    BY ONLY n \in Nat
  <1>17. Marked(x, q)
    <2>1. ASSUME NEW f \in 1..(n + 1)
          PROVE  /\ f > 1 => x.mark[f].next = f - 1 \/ (x.mark[f].next = 0 /\ f = 2)
                 /\ f = 1 => x.mark[f].next = 0
                 /\ x.mark[f].nxt.blk = x.mark[f].blk
                 /\ Room(x, x.mark[f].nxt, x.mark[f].left)
                 /\ Under(x, x.mark[f].nxt, x.nxt)
      <3>1. CASE f \in 1..n
        <4>1. /\ f > 1 => s.mark[f].next = f - 1 \/ (s.mark[f].next = 0 /\ f = 2)
              /\ f = 1 => s.mark[f].next = 0
              /\ s.mark[f].nxt.blk = s.mark[f].blk
              /\ Room(s, s.mark[f].nxt, s.mark[f].left) /\ Under(s, s.mark[f].nxt, s.nxt)
          BY ONLY <1>1, <1>3, <3>1 DEF Marked
        <4> QED
          BY ONLY <1>11, <1>12, <1>13, <3>1, <4>1
      <3>2. CASE f = n + 1
        <4>1. x.mark[f] = m /\ f # 1
          BY ONLY <1>3, <1>12, <3>2
        <4>2. m.next = f - 1 \/ (m.next = 0 /\ f = 2)
          BY ONLY <1>2, <1>3, <1>8, <3>2
        <4> QED
          BY ONLY <1>6, <1>8, <1>11, <1>13, <1>15, <4>1, <4>2
      <3> QED
        BY ONLY <1>16, <3>1, <3>2, f \in 1..(n + 1)
    <2>2. ASSUME NEW f \in 1..(n + 1), NEW g \in 1..(n + 1), f <= g
          PROVE  Under(x, x.mark[f].nxt, x.mark[g].nxt)
      <3>1. CASE g \in 1..n
        <4>1. f \in 1..n
          BY ONLY <2>2, <3>1, n \in Nat
        <4>2. Under(s, s.mark[f].nxt, s.mark[g].nxt)
          BY ONLY <1>1, <1>3, <2>2, <3>1, <4>1 DEF Marked
        <4> QED
          BY ONLY <1>12, <1>13, <3>1, <4>1, <4>2
      <3>2. CASE g = n + 1
        <4>1. x.mark[g].nxt = x.nxt
          BY ONLY <1>8, <1>11, <1>12, <3>2
        <4> QED
          BY ONLY <2>1, <4>1, f \in 1..(n + 1)
      <3> QED
        BY ONLY <1>16, <3>1, <3>2, g \in 1..(n + 1)
    <2>3. 1 \in 1..n
      BY ONLY <1>3
    <2>4. x.mark[1].blk = 1 /\ q[1].kind = "command"
      BY ONLY <1>2, <1>5, <1>12, <2>3
    <2> QED
      BY ONLY <1>3, <1>5, <1>11, <2>1, <2>2, <2>4 DEF Marked
  <1>18. Noted(x, q, al)
    <2>1. ASSUME NEW i \in DOMAIN al
          PROVE  /\ al[i].blk \in Ids(x) /\ al[i].off >= 0 /\ Aligned(al[i].off)
                 /\ al[i].depth \in 1..n /\ Clear(x, al[i], x.nxt)
      <3>1. /\ al[i].blk \in Ids(s) /\ al[i].off >= 0 /\ Aligned(al[i].off)
            /\ al[i].depth \in 1..n /\ Clear(s, al[i], s.nxt)
        BY ONLY <1>1, <1>3, i \in DOMAIN al DEF Noted
      <3> QED
        BY ONLY <1>11, <1>13, <3>1
    <2>2. ASSUME NEW i \in DOMAIN al, NEW f \in 1..(n + 1)
          PROVE  IF al[i].depth < f THEN Clear(x, al[i], x.mark[f].nxt)
                 ELSE Under(x, x.mark[f].nxt, al[i])
      <3>1. CASE f \in 1..n
        <4>1. IF al[i].depth < f THEN Clear(s, al[i], s.mark[f].nxt)
              ELSE Under(s, s.mark[f].nxt, al[i])
          BY ONLY <1>1, <1>3, <3>1, i \in DOMAIN al DEF Noted
        <4> QED
          BY ONLY <1>12, <1>13, <3>1, <4>1
      <3>2. CASE f = n + 1
        <4>1. al[i].depth < f
          BY ONLY <2>1, <3>2, i \in DOMAIN al, n \in Nat
        <4>2. x.mark[f].nxt = x.nxt
          BY ONLY <1>8, <1>11, <1>12, <3>2
        <4> QED
          BY ONLY <2>1, <4>1, <4>2, i \in DOMAIN al
      <3> QED
        BY ONLY <1>16, <3>1, <3>2, f \in 1..(n + 1)
    <2>3. ASSUME NEW i \in DOMAIN al, NEW j \in DOMAIN al, i < j
          PROVE  al[i].depth <= al[j].depth /\ Clear(x, al[i], al[j])
      <3>1. al[i].depth <= al[j].depth /\ Clear(s, al[i], al[j])
        BY ONLY <1>1, <2>3 DEF Noted
      <3> QED
        BY ONLY <1>13, <3>1
    <2>4. al \in Seq(Allocs) /\ \A i \in DOMAIN al : al[i].depth \in 1..(n + 1)
      <3>1. al \in Seq(Allocs)
        BY ONLY <1>1 DEF Noted
      <3>2. \A k \in 1..n : k \in 1..(n + 1)
        BY ONLY n \in Nat
      <3> QED
        BY ONLY <2>1, <3>1, <3>2
    <2> QED
      BY ONLY <1>5, <2>1, <2>2, <2>3, <2>4 DEF Noted
  <1>19. Asides(x, fr, al)
    BY ONLY <1>1, <1>3, <1>12 DEF Asides
  <1> QED
    BY ONLY <1>3, <1>4, <1>5, <1>8, <1>11, <1>12, <1>14, <1>17, <1>18, <1>19

LEMMA CommandEntered ==
  ASSUME MInv, EnterCommand
  PROVE  Stacked(st', frames', allocs') /\ Growing(st', str')
  <1>1. Stacked(st, frames, allocs) /\ Growing(st, str) /\ ~str.on
    BY DEF MInv, EnterCommand
  <1>2. PICK r \in Frames : r = [kind |-> "command", str |-> NoStr, loc |-> 0]
    <2>1. NoStr \in Strings
      BY DEF NoStr, Strings, Ptrs, Names
    <2>2. [kind |-> "command", str |-> NoStr, loc |-> 0] \in Frames
      BY ONLY <2>1 DEF Frames
    <2> QED
      BY ONLY <2>2
  <1>3. Len(frames) < MaxFrames /\ frames' = Append(frames, r) /\ str' = str /\ allocs' = allocs
        /\ st' = setstackmark(st, Len(frames'))
    BY <1>2 DEF EnterCommand
  <1>4. frames \in Seq(Frames) /\ Len(frames) \in 1..MaxFrames
    BY <1>1 DEF Stacked, Marked
  <1>5. PICK q : q = Append(frames, r)
    OBVIOUS
  <1>6. Len(q) = Len(frames) + 1 /\ q[Len(frames) + 1] = r /\ Len(frames) \in Nat
    BY ONLY <1>4, <1>5, r \in Frames, Appended
  <1>7. st' = setstackmark(st, Len(frames) + 1)
    BY ONLY <1>3, <1>5, <1>6
  <1>8. /\ Chained(st') /\ Marked(st', q) /\ Noted(st', q, allocs)
        /\ Asides(st', frames, allocs) /\ \A f \in 1..Len(frames) : q[f] = frames[f]
    BY ONLY <1>1, <1>3, <1>5, <1>7, r \in Frames, MarkSet
  <1>9. Asides(st', q, allocs)
    <2>1. ASSUME NEW f \in 1..Len(q), q[f].kind # "command" PROVE f \in 1..Len(frames)
      <3>1. r.kind = "command"
        BY ONLY <1>2
      <3>2. f # Len(frames) + 1
        BY ONLY <1>6, <2>1, <3>1
      <3> QED
        BY ONLY <1>6, <3>2, f \in 1..Len(q)
    <2> QED
      BY ONLY <1>8, <2>1 DEF Asides
  <1>10. Growing(st', str)
    BY <1>1 DEF Growing
  <1> QED
    BY ONLY <1>3, <1>5, <1>8, <1>9, <1>10 DEF Stacked

\* An expansion puts the string aside, where its mark is.
LEMMA StringPutAside ==
  ASSUME MInv, NEW kind \in {"arith", "prompt"}, PutAside(kind)
  PROVE  Stacked(st', frames', allocs') /\ Growing(st', str')
  <1>1. Stacked(st, frames, allocs) /\ Chained(st) /\ Growing(st, str) /\ str.on
    BY DEF MInv, Stacked, PutAside
  <1>2. PICK len \in Nat : /\ len = Length(st, str.dest) /\ str.dest.off = st.nxt.off + len
                           /\ len <= st.left /\ st.sstr = st.left - len
                           /\ str.dest.blk = st.nxt.blk
    BY <1>1, StringTypes
  <1>3. /\ str \in Strings /\ st.left \in Int /\ st.left >= 0 /\ st.nxt \in Ptrs
        /\ st.nxt.off \in Int /\ str.dest.off \in Int
    BY <1>1, StringTypes, StackTypes
  <1>4. frames \in Seq(Frames) /\ Len(frames) \in 1..MaxFrames
    BY <1>1 DEF Stacked, Marked
  <1>5. PICK k \in Nat : k = Len(frames) /\ k < MaxFrames
    <2>1. Len(frames) < MaxFrames
      BY DEF PutAside
    <2> QED
      BY ONLY <1>4, <2>1, MaxFrames \in Nat \ {0}
  <1>6. PICK y : y = setstackmark(st, k + 1)
    OBVIOUS
  <1>7. PICK n \in Nat : n = IF kind = "prompt" THEN st.left ELSE len
    BY <1>3
  <1>8. /\ CanAlloc(y, n) /\ st' = Idle(stalloc(y, n))
        /\ allocs' = Note(st.nxt, len, k + 1, TRUE) /\ str' = NoStr
        /\ (kind = "arith" => len > 0) /\ kind # "tilde"
    BY <1>2, <1>5, <1>6, <1>7 DEF PutAside
  <1>9. PICK loc \in 0..len : frames' = Append(frames, [kind |-> kind, str |-> str, loc |-> loc])
    BY <1>2 DEF PutAside
  <1>10. PICK r \in Frames : r = [kind |-> kind, str |-> str, loc |-> loc]
    <2>1. loc \in Int
      BY ONLY len \in Nat, loc \in 0..len
    <2>2. [kind |-> kind, str |-> str, loc |-> loc] \in Frames
      BY ONLY <1>3, <2>1, kind \in {"arith", "prompt"} DEF Frames
    <2> QED
      BY ONLY <2>2
  <1>11. PICK q : q = Append(frames, r)
    OBVIOUS
  <1>12. /\ Len(q) = k + 1 /\ q[k + 1] = r /\ k + 1 \in Int
         /\ \A f \in 1..(k + 1) : f \in 1..k \/ f = k + 1
    <2>1. Len(q) = k + 1 /\ q[k + 1] = r
      BY ONLY <1>4, <1>5, <1>11, r \in Frames, Appended
    <2> QED
      BY ONLY <2>1, k \in Nat
  <1>13. /\ Chained(y) /\ Marked(y, q) /\ Noted(y, q, allocs)
         /\ Asides(y, frames, allocs) /\ (\A f \in 1..k : q[f] = frames[f])
         /\ y.nxt = st.nxt /\ y.left = st.left
         /\ LET m == y.mark[k + 1]
            IN m.blk = st.nxt.blk /\ m.nxt = st.nxt /\ m.left = st.left /\ m.sstr = st.sstr
    BY ONLY <1>1, <1>5, <1>6, <1>11, r \in Frames, MarkSet
  <1>14. PICK e : e = [blk |-> st.nxt.blk, off |-> st.nxt.off, len |-> len,
                       depth |-> k + 1, aside |-> TRUE]
    OBVIOUS
  <1>15. allocs' = Append(allocs, e)
    BY ONLY <1>8, <1>14 DEF Note
  <1>16. /\ e \in Allocs /\ e.blk = st.nxt.blk /\ e.off = st.nxt.off /\ e.len = len
         /\ e.depth = k + 1 /\ e.aside
    <2>1. st.nxt.blk \in Names
      BY ONLY <1>3 DEF Ptrs
    <2>2. PICK b \in Names, o \in Int, d \in Int : b = st.nxt.blk /\ o = st.nxt.off /\ d = k + 1
      BY ONLY <1>3, <1>12, <2>1
    <2>3. e = [blk |-> b, off |-> o, len |-> len, depth |-> d, aside |-> TRUE]
      BY ONLY <1>14, <2>2
    <2>4. e \in Allocs /\ e.blk = b /\ e.off = o /\ e.len = len /\ e.depth = d /\ e.aside
      BY ONLY <2>3, b \in Names, o \in Int, d \in Int, len \in Nat DEF Allocs
    <2> QED
      BY ONLY <2>2, <2>4
  <1>17. n <= y.left /\ e.len <= n /\ (n > 0 \/ y.left = 0)
    BY ONLY <1>2, <1>3, <1>7, <1>8, <1>13, <1>16, kind \in {"arith", "prompt"}
  <1>18. Allocated(y, n) = y.nxt
    BY ONLY <1>8, <1>13, <1>17, n \in Nat, StallocRight
  <1>19. PICK x : x = stalloc(y, n)
    OBVIOUS
  <1>20. /\ e.blk = Allocated(y, n).blk /\ e.off = Allocated(y, n).off /\ e.depth = Len(q)
    BY ONLY <1>12, <1>13, <1>16, <1>18
  <1>21. PICK al2 : al2 = Append(allocs, e)
    OBVIOUS
  <1>22. Higher(y, x) /\ Noted(x, q, al2)
    BY ONLY <1>8, <1>13, <1>16, <1>17, <1>19, <1>20, <1>21, n \in Nat, StallocNoted
  <1>23. Chained(x) /\ Marked(x, q) /\ x.mark = y.mark
    BY ONLY <1>13, <1>22, HigherMarked DEF Higher
  <1>24. PICK l \in Nat : /\ l = Len(allocs) /\ (\A i \in DOMAIN allocs : i \in DOMAIN al2)
                          /\ (\A i \in DOMAIN allocs : al2[i] = allocs[i])
                          /\ l + 1 \in DOMAIN al2 /\ al2[l + 1] = e
    <2>1. allocs \in Seq(Allocs)
      BY <1>1 DEF Stacked, Noted
    <2>2. /\ DOMAIN allocs = 1..Len(allocs) /\ Len(allocs) \in Nat
          /\ DOMAIN al2 = 1..(Len(allocs) + 1)
          /\ al2[Len(allocs) + 1] = e /\ (\A i \in 1..Len(allocs) : al2[i] = allocs[i])
          /\ \A i \in DOMAIN allocs : i \in DOMAIN al2
      BY ONLY <1>16, <1>21, <2>1, Appended
    <2>3. Len(allocs) + 1 \in 1..(Len(allocs) + 1)
      BY ONLY <2>2
    <2> QED
      BY ONLY <2>2, <2>3
  <1>25. Asides(x, q, al2)
    <2>1. ASSUME NEW f \in 1..Len(q), q[f].kind # "command"
          PROVE  /\ Resumes(x.mark[f], q[f])
                 /\ \E i \in DOMAIN al2 : /\ al2[i].depth = f /\ al2[i].aside
                                          /\ al2[i].blk = x.mark[f].blk
      <3>1. CASE f \in 1..k
        <4>1. /\ Resumes(y.mark[f], frames[f])
              /\ \E i \in DOMAIN allocs : /\ allocs[i].depth = f /\ allocs[i].aside
                                          /\ allocs[i].blk = y.mark[f].blk
          BY ONLY <1>5, <1>13, <2>1, <3>1 DEF Asides
        <4> QED
          BY ONLY <1>13, <1>23, <1>24, <3>1, <4>1
      <3>2. CASE f = k + 1
        <4>1. PICK m : /\ m = x.mark[f] /\ m.blk = st.nxt.blk /\ m.nxt = st.nxt
                       /\ m.left = st.left /\ m.sstr = st.sstr
          BY ONLY <1>13, <1>23, <3>2
        <4>2. r.str = str /\ r.loc = loc /\ q[f] = r
          BY ONLY <1>10, <1>12, <3>2
        <4>3. str.dest.off - m.nxt.off = len
          BY ONLY <1>2, <1>3, <4>1
        <4>4. Resumes(m, r)
          BY ONLY <1>1, <1>2, <4>1, <4>2, <4>3, loc \in 0..len DEF Resumes
        <4> QED
          BY ONLY <1>16, <1>24, <3>2, <4>1, <4>2, <4>4
      <3> QED
        BY ONLY <1>12, <3>1, <3>2, f \in 1..Len(q)
    <2> QED
      BY ONLY <2>1 DEF Asides
  <1>26. Stacked(x, q, al2)
    BY ONLY <1>22, <1>23, <1>25 DEF Stacked
  <1>27. NoStr \in Strings /\ ~NoStr.on
    BY DEF NoStr, Strings, Ptrs, Names
  <1>28. Higher(x, Idle(x)) /\ Growing(Idle(x), NoStr)
    BY ONLY <1>23, <1>27, IdleStack
  <1>29. Stacked(Idle(x), q, al2)
    BY ONLY <1>26, <1>28, HigherStacked
  <1> QED
    BY ONLY <1>8, <1>9, <1>10, <1>11, <1>15, <1>19, <1>21, <1>28, <1>29

\* What was allocated before the k-th mark is the beginning of what is allocated.
LEMMA BeforeRight ==
  ASSUME NEW k \in Int, NEW s, NEW fr, Noted(s, fr, allocs)
  PROVE  \E m \in 0..Len(allocs) :
           /\ Before(k) = SubSeq(allocs, 1, m)
           /\ \A i \in 1..Len(allocs) : allocs[i].depth < k <=> i <= m
  <1> DEFINE n == Len(allocs)
             S == {0} \cup {i \in DOMAIN allocs : allocs[i].depth < k}
  <1>1. allocs \in Seq(Allocs) /\ \A i, j \in DOMAIN allocs : i < j => allocs[i].depth <= allocs[j].depth
    BY DEF Noted
  <1>2. n \in Nat /\ DOMAIN allocs = 1..n /\ \A i \in 1..n : allocs[i].depth \in Int
    <2>1. n \in Nat /\ DOMAIN allocs = 1..n /\ \A i \in 1..n : allocs[i] \in Allocs
      BY ONLY <1>1
    <2> QED
      BY ONLY <2>1 DEF Allocs
  <1> HIDE DEF n
  <1>3. S \subseteq 0..n /\ S # {}
    BY ONLY <1>2
  <1>4. PICK m : m = Max(S)
    OBVIOUS
  <1>5. m \in S /\ \A y \in S : m >= y
    <2> HIDE DEF S
    <2> QED
      BY ONLY <1>2, <1>3, <1>4, MaxIn
  <1>6. m \in 0..n
    BY ONLY <1>3, <1>5
  <1>7. Before(k) = SubSeq(allocs, 1, m)
    BY ONLY <1>4 DEF Before
  <1>8. ASSUME NEW i \in 1..n PROVE allocs[i].depth < k <=> i <= m
    <2>1. CASE allocs[i].depth < k
      <3>1. i \in S
        BY ONLY <1>2, <2>1, i \in 1..n
      <3>2. m >= i
        BY ONLY <1>5, <3>1
      <3> QED
        BY ONLY <1>6, <2>1, <3>2, <1>2, i \in 1..n
    <2>2. CASE i <= m
      <3>1. m \in DOMAIN allocs /\ allocs[m].depth < k /\ m \in 1..n
        BY ONLY <1>2, <1>5, <1>6, <2>2, i \in 1..n
      <3>2. CASE i = m
        BY ONLY <2>2, <3>1, <3>2
      <3>3. CASE i < m
        <4>1. allocs[i].depth <= allocs[m].depth
          BY ONLY <1>1, <1>2, <3>1, <3>3, i \in 1..n
        <4>2. PICK a \in Int, b \in Int : a = allocs[i].depth /\ b = allocs[m].depth
          BY ONLY <1>2, <3>1, i \in 1..n
        <4>3. a < k
          BY ONLY <3>1, <4>1, <4>2, k \in Int
        <4> QED
          BY ONLY <2>2, <4>2, <4>3
      <3> QED
        BY ONLY <1>2, <1>6, <2>2, <3>2, <3>3, i \in 1..n
    <2>3. CASE ~(allocs[i].depth < k) /\ ~(i <= m)
      BY ONLY <2>3
    <2> QED
      BY ONLY <2>1, <2>2, <2>3
  <1> QED
    BY <1>6, <1>7, <1>8 DEF n

\* rststackmark goes back to the block of the mark, and to what was free in it.
LEMMA Restored ==
  ASSUME NEW s, NEW fr, NEW al, Stacked(s, fr, al), NEW k \in 1..Len(fr),
         NEW x, x = rststackmark(s, k)
  PROVE  /\ x \in States /\ x.mark = s.mark /\ x.markp = s.markp
         /\ x.chain = SubSeq(s.chain, 1, Pos(s, s.mark[k].blk))
         /\ x.nxt = s.mark[k].nxt /\ x.left = s.mark[k].left /\ x.sstr = s.mark[k].sstr
         /\ k \in 1..MaxFrames /\ s.mark[k].blk \in Ids(s) /\ s.mark[k].nxt.blk = s.mark[k].blk
  <1>1. Chained(s) /\ Marked(s, fr)
    BY DEF Stacked
  <1>2. k \in 1..MaxFrames
    <2>1. Len(fr) \in 1..MaxFrames
      BY ONLY <1>1 DEF Marked
    <2> QED
      BY ONLY <2>1, k \in 1..Len(fr), MaxFrames \in Nat \ {0}
  <1>3. s \in States /\ Listed(s) /\ s.chain \in Seq(Blocks) /\ s.mark[k] \in Marks
    BY ONLY <1>1, <1>2, StackTypes
  <1>4. PICK m \in Marks : m = s.mark[k]
    BY ONLY <1>3
  <1>5. m.blk \in Ids(s) /\ m.nxt.blk = m.blk
    <2>1. s.mark[k].nxt.blk = s.mark[k].blk /\ Room(s, s.mark[k].nxt, s.mark[k].left)
      BY ONLY <1>1, k \in 1..Len(fr) DEF Marked
    <2> QED
      BY ONLY <1>4, <2>1 DEF Room
  <1>6. m.nxt \in Ptrs /\ m.left \in Int /\ m.sstr \in Int
    BY ONLY m \in Marks DEF Marks
  <1>7. /\ Len(s.chain) \in Nat \ {0} /\ Pos(s, m.blk) \in 1..Len(s.chain)
        /\ s.chain[Pos(s, m.blk)].id = m.blk
        /\ \A i, j \in DOMAIN s.chain : s.chain[i].id = s.chain[j].id => i = j
    BY ONLY <1>3, <1>5, Places DEF Listed
  <1> DEFINE kept == {i \in DOMAIN s.chain : s.chain[i].id = m.blk}
  <1>8. DOMAIN s.chain = 1..Len(s.chain)
    BY ONLY <1>3
  <1>9. PICK b : b = Pos(s, m.blk)
    OBVIOUS
  <1>10. kept = {b} /\ b \in Nat
    BY ONLY <1>7, <1>8, <1>9
  <1>11. Min(kept) = b
    <2>1. {b} \subseteq Nat /\ {b} # {}
      BY ONLY <1>10
    <2>2. Min({b}) \in {b}
      BY ONLY <2>1, MinIn
    <2> HIDE DEF kept
    <2> QED
      BY ONLY <1>10, <2>2
  <1>12. PICK q : q = SubSeq(s.chain, 1, b)
    OBVIOUS
  <1>13. x = [s EXCEPT !.chain = q, !.nxt = m.nxt, !.left = m.left, !.sstr = m.sstr]
    <2>1. x = [s EXCEPT !.chain = SubSeq(s.chain, 1, Min(kept)), !.nxt = m.nxt, !.left = m.left,
                        !.sstr = m.sstr]
      BY ONLY <1>4, x = rststackmark(s, k) DEF rststackmark
    <2> HIDE DEF kept
    <2> QED
      BY ONLY <1>11, <1>12, <2>1
  <1>14. q \in Seq(Blocks)
    <2>1. PICK c \in Seq(Blocks) : c = s.chain
      BY ONLY <1>3
    <2>2. b \in 0..Len(c)
      BY ONLY <1>7, <1>9, <2>1
    <2>3. SubSeq(c, 1, b) \in Seq(Blocks)
      BY ONLY <2>2, c \in Seq(Blocks), Shortened
    <2> QED
      BY ONLY <1>12, <2>1, <2>3
  <1>15. /\ x \in States /\ x.mark = s.mark /\ x.markp = s.markp /\ x.chain = q
         /\ x.nxt = m.nxt /\ x.left = m.left /\ x.sstr = m.sstr
    BY ONLY <1>3, <1>6, <1>13, <1>14 DEF States
  <1> QED
    BY ONLY <1>2, <1>4, <1>5, <1>9, <1>12, <1>15

\* The stack as it was when the k-th mark was set: the j frames that are left are those
\* below it, or it is that of a command that goes on.
LEMMA BackToMark ==
  ASSUME NEW s, NEW fr, NEW al, Stacked(s, fr, al), NEW k \in 1..Len(fr),
         NEW x \in States, x.chain = SubSeq(s.chain, 1, Pos(s, s.mark[k].blk)),
         x.nxt = s.mark[k].nxt, x.left = s.mark[k].left,
         NEW j \in 1..k, j = k - 1 \/ (j = k /\ fr[k].kind = "command"),
         x.markp = j \/ (x.markp = 0 /\ j = 1), \A f \in 1..j : x.mark[f] = s.mark[f],
         NEW m \in 0..Len(al), \A i \in 1..Len(al) : al[i].depth < k <=> i <= m
  PROVE  Stacked(x, SubSeq(fr, 1, j), SubSeq(al, 1, m))
  <1> DEFINE b == s.mark[k].blk
             N == {c \in Ids(s) : Pos(s, c) <= Pos(s, b)}
             p == s.mark[k].nxt
  <1>1. Chained(s) /\ Marked(s, fr) /\ Noted(s, fr, al) /\ Asides(s, fr, al)
    BY DEF Stacked
  <1>2. Listed(s)
    BY ONLY <1>1, StackTypes
  <1>3. p.blk = b /\ Room(s, p, s.mark[k].left)
    BY ONLY <1>1, k \in 1..Len(fr) DEF Marked
  <1>4. b \in Ids(s)
    BY ONLY <1>3 DEF Room
  <1>5. /\ \A c \in Ids(s) : Pos(s, c) \in Nat
        /\ Len(fr) \in 1..MaxFrames
    <2>1. \A c \in Ids(s) : Pos(s, c) \in 1..Len(s.chain)
      BY ONLY <1>2, Places
    <2>2. Len(fr) \in 1..MaxFrames
      BY ONLY <1>1 DEF Marked
    <2> QED
      BY ONLY <2>1, <2>2
  <1>6. b \in N
    BY ONLY <1>4, <1>5
  <1>7. x.chain = SubSeq(s.chain, 1, Pos(s, b)) /\ x.nxt = p /\ x.left = s.mark[k].left
    OBVIOUS
  <1>8. \A c \in Ids(s) : Pos(s, c) <= Pos(s, b) => c \in N
    OBVIOUS
  <1>9. Listed(x) /\ stackp(x).id = b /\ Keeps(s, x, N)
    BY ONLY <1>2, <1>4, <1>7, CutBlocks
  <1> HIDE DEF b, N, p
  <1>10. Room(x, p, s.mark[k].left)
    BY ONLY <1>3, <1>6, <1>9, KeepsRoom
  <1>11. Chained(x)
    BY ONLY <1>3, <1>7, <1>9, <1>10, x \in States DEF Chained, Topped
  <1>12. ASSUME NEW q, Under(s, q, p) PROVE q.blk \in N
    BY ONLY <1>3, <1>5, <1>8, <1>12 DEF Under
  <1>13. j \in 1..Len(fr) /\ \A f \in 1..j : f \in 1..Len(fr) /\ f <= k
    BY ONLY <1>5, k \in 1..Len(fr), j \in 1..k, MaxFrames \in Nat \ {0}
  <1>14. ASSUME NEW f \in 1..j
         PROVE  /\ x.mark[f] = s.mark[f] /\ s.mark[f].blk \in N
                /\ Under(s, s.mark[f].nxt, x.nxt)
    <2>1. Under(s, s.mark[f].nxt, p)
      BY ONLY <1>1, <1>13, f \in 1..j, k \in 1..Len(fr) DEF Marked, p
    <2>2. s.mark[f].nxt.blk = s.mark[f].blk
      BY ONLY <1>1, <1>13, f \in 1..j DEF Marked
    <2>3. s.mark[f].nxt.blk \in N
      BY ONLY <1>12, <2>1
    <2>4. x.mark[f] = s.mark[f]
      OBVIOUS
    <2> QED
      BY ONLY <1>7, <2>1, <2>2, <2>3, <2>4
  <1>15. al \in Seq(Allocs) /\ Len(al) \in Nat /\ DOMAIN al = 1..Len(al)
    <2>1. al \in Seq(Allocs)
      BY ONLY <1>1 DEF Noted
    <2> QED
      BY ONLY <2>1
  <1>16. \A i \in 1..Len(al) : al[i].depth < k <=> i <= m
    OBVIOUS
  <1>17. ASSUME NEW i \in 1..m
         PROVE  al[i].blk \in N /\ al[i].depth <= j /\ Clear(s, al[i], x.nxt)
    <2>1. i \in DOMAIN al /\ al[i].depth < k
      BY ONLY <1>15, <1>16, i \in 1..m, m \in 0..Len(al)
    <2>2. Clear(s, al[i], p) /\ al[i].depth \in 1..Len(fr)
      BY ONLY <1>1, <2>1, k \in 1..Len(fr) DEF Noted, p
    <2>3. End(al[i]).blk = al[i].blk
      BY DEF End
    <2>4. End(al[i]).blk \in N
      BY ONLY <1>12, <2>2 DEF Clear
    <2>5. al[i].depth <= j
      BY ONLY <1>5, <2>1, <2>2, k \in 1..Len(fr), j \in 1..k,
              j = k - 1 \/ (j = k /\ fr[k].kind = "command")
    <2> QED
      BY ONLY <1>7, <2>2, <2>3, <2>4, <2>5
  <1>18. ASSUME NEW f \in 1..j, fr[f].kind # "command"
         PROVE  \E i \in 1..m : al[i].depth = f /\ al[i].aside /\ al[i].blk = s.mark[f].blk
    <2>1. PICK i \in DOMAIN al : al[i].depth = f /\ al[i].aside /\ al[i].blk = s.mark[f].blk
      BY ONLY <1>1, <1>13, <1>18 DEF Asides
    <2>2. f < k
      <3>1. f # k
        BY <1>18
      <3> QED
        BY ONLY <1>5, <1>13, <3>1, k \in 1..Len(fr), f \in 1..j, MaxFrames \in Nat \ {0}
    <2>3. i \in 1..m
      BY ONLY <1>15, <1>16, <2>1, <2>2, i \in DOMAIN al, m \in 0..Len(al)
    <2> QED
      BY ONLY <2>1, <2>3
  <1>19. x.nxt.blk \in N
    BY ONLY <1>3, <1>6, <1>7
  <1> QED
    BY ONLY <1>9, <1>11, <1>13, <1>14, <1>17, <1>18, <1>19, Stacked(s, fr, al),
            x.markp = j \/ (x.markp = 0 /\ j = 1), m \in 0..Len(al), Lowered

LEMMA Popped ==
  ASSUME NEW s, NEW fr, NEW al, Stacked(s, fr, al), NEW k \in 1..Len(fr),
         NEW x, x = popstackmark(s, k), NEW j, j = IF k = 1 THEN 1 ELSE k - 1,
         NEW m \in 0..Len(al), \A i \in 1..Len(al) : al[i].depth < k <=> i <= m
  PROVE  /\ Stacked(x, SubSeq(fr, 1, j), SubSeq(al, 1, m))
         /\ x.nxt = s.mark[k].nxt /\ x.left = s.mark[k].left /\ x.sstr = s.mark[k].sstr
  <1>1. PICK y : y = rststackmark(s, k)
    OBVIOUS
  <1>2. /\ y \in States /\ y.mark = s.mark /\ y.markp = s.markp
        /\ y.chain = SubSeq(s.chain, 1, Pos(s, s.mark[k].blk))
        /\ y.nxt = s.mark[k].nxt /\ y.left = s.mark[k].left /\ y.sstr = s.mark[k].sstr
        /\ k \in 1..MaxFrames
    BY ONLY <1>1, Stacked(s, fr, al), k \in 1..Len(fr), Restored
  <1>3. Chained(s) /\ Marked(s, fr)
    BY DEF Stacked
  <1>4. /\ s.mark \in [1..MaxFrames -> Marks]
        /\ \A f \in 1..MaxFrames : s.mark[f] \in Marks /\ s.mark[f].next \in Int
    BY ONLY <1>3, StackTypes
  <1>5. /\ k > 1 => s.mark[k].next = k - 1 \/ (s.mark[k].next = 0 /\ k = 2)
        /\ k = 1 => s.mark[k].next = 0
        /\ Len(fr) \in 1..MaxFrames /\ fr[1].kind = "command"
    BY ONLY <1>3, k \in 1..Len(fr) DEF Marked
  <1>6. k \in Nat /\ k >= 1 /\ j \in 1..k /\ j \in Nat
    BY ONLY <1>2, MaxFrames \in Nat \ {0}, j = IF k = 1 THEN 1 ELSE k - 1
  <1> DEFINE mk == [g \in 1..MaxFrames |-> IF g >= k /\ g > 1 THEN NoMark ELSE s.mark[g]]
  <1>7. x = [y EXCEPT !.markp = s.mark[k].next, !.mark = mk]
    <2>1. x = [y EXCEPT !.markp = s.mark[k].next,
                        !.mark = [g \in DOMAIN y.mark |->
                                    IF g >= k /\ g > 1 THEN NoMark ELSE y.mark[g]]]
      BY ONLY <1>1, x = popstackmark(s, k) DEF popstackmark
    <2>2. DOMAIN y.mark = 1..MaxFrames /\ y.mark = s.mark
      BY ONLY <1>2, <1>4
    <2>3. [g \in DOMAIN y.mark |-> IF g >= k /\ g > 1 THEN NoMark ELSE y.mark[g]] = mk
      BY ONLY <2>2
    <2> HIDE DEF mk
    <2> QED
      BY ONLY <2>1, <2>3
  <1>8. NoMark \in Marks
    <2>1. 1 \in Names /\ MINSIZE \in Int /\ 0 \in Int
      BY DEF Names
    <2>2. [blk |-> 1, off |-> 0] \in Ptrs
      BY ONLY <2>1 DEF Ptrs
    <2> QED
      BY ONLY <2>1, <2>2 DEF NoMark, Marks
  <1>9. mk \in [1..MaxFrames -> Marks]
    BY ONLY <1>4, <1>8
  <1>10. \A f \in 1..j : mk[f] = s.mark[f]
    <2>1. ASSUME NEW f \in 1..j PROVE f \in 1..MaxFrames /\ ~(f >= k /\ f > 1)
      BY ONLY <1>2, <1>6, f \in 1..j, j = (IF k = 1 THEN 1 ELSE k - 1), MaxFrames \in Nat \ {0}
    <2> QED
      BY ONLY <2>1
  <1>11. s.mark[k].next \in Int
    BY ONLY <1>2, <1>4
  <1> HIDE DEF mk
  <1>12. /\ x \in States /\ x.chain = y.chain /\ x.nxt = y.nxt /\ x.left = y.left
         /\ x.sstr = y.sstr /\ x.mark = mk /\ x.markp = s.mark[k].next
    <2>1. PICK p \in Int : p = s.mark[k].next
      BY ONLY <1>11
    <2> QED
      BY ONLY <1>2, <1>7, <1>9, <2>1, p \in Int DEF States
  <1>13. x.markp = j \/ (x.markp = 0 /\ j = 1)
    BY ONLY <1>5, <1>6, <1>12, j = IF k = 1 THEN 1 ELSE k - 1
  <1>14. j = k - 1 \/ (j = k /\ fr[k].kind = "command")
    BY ONLY <1>5, <1>6, j = IF k = 1 THEN 1 ELSE k - 1
  <1>15. x.chain = SubSeq(s.chain, 1, Pos(s, s.mark[k].blk)) /\ x.nxt = s.mark[k].nxt
         /\ x.left = s.mark[k].left /\ x.sstr = s.mark[k].sstr
    BY ONLY <1>2, <1>12
  <1>16. \A f \in 1..j : x.mark[f] = s.mark[f]
    BY ONLY <1>10, <1>12
  <1>17. Stacked(x, SubSeq(fr, 1, j), SubSeq(al, 1, m))
    BY ONLY <1>6, <1>12, <1>13, <1>14, <1>15, <1>16, Stacked(s, fr, al), k \in 1..Len(fr),
            m \in 0..Len(al), \A i \in 1..Len(al) : al[i].depth < k <=> i <= m, BackToMark
  <1> QED
    BY ONLY <1>15, <1>17

LEMMA CommandLeft ==
  ASSUME MInv, LeaveCommand
  PROVE  Stacked(st', frames', allocs') /\ Growing(st', str')
  <1>1. Stacked(st, frames, allocs) /\ Noted(st, frames, allocs)
    BY DEF MInv, Stacked
  <1>2. frames \in Seq(Frames) /\ Len(frames) \in 1..MaxFrames
    BY <1>1 DEF Stacked, Marked
  <1>3. PICK k \in 1..Len(frames) : k = Len(frames) /\ k > 1 /\ k \in Nat
    BY ONLY <1>2, LeaveCommand DEF LeaveCommand
  <1>4. PICK m \in 0..Len(allocs) : /\ Before(k) = SubSeq(allocs, 1, m)
                                    /\ \A i \in 1..Len(allocs) : allocs[i].depth < k <=> i <= m
    BY ONLY <1>1, k \in Int, <1>3, BeforeRight
  <1>5. PICK x : x = popstackmark(st, k)
    OBVIOUS
  <1>6. /\ st' = Idle(x) /\ frames' = SubSeq(frames, 1, k - 1) /\ allocs' = SubSeq(allocs, 1, m)
        /\ str' = NoStr
    BY ONLY <1>3, <1>4, <1>5, LeaveCommand DEF LeaveCommand, Front
  <1>7. k - 1 = IF k = 1 THEN 1 ELSE k - 1
    BY ONLY <1>3
  <1>8. Stacked(x, frames', allocs')
    BY ONLY <1>1, <1>4, <1>5, <1>6, <1>7, k \in 1..Len(frames), m \in 0..Len(allocs), Popped
  <1>9. NoStr \in Strings /\ ~NoStr.on
    BY DEF NoStr, Strings, Ptrs, Names
  <1>10. Higher(x, Idle(x)) /\ Growing(Idle(x), NoStr)
    BY ONLY <1>8, <1>9, IdleStack DEF Stacked
  <1>11. Stacked(Idle(x), frames', allocs')
    BY ONLY <1>8, <1>10, HigherStacked
  <1> QED
    BY ONLY <1>6, <1>10, <1>11

LEMMA CommandNext ==
  ASSUME MInv, NextCommand
  PROVE  Stacked(st', frames', allocs') /\ Growing(st', str')
  <1>1. Stacked(st, frames, allocs) /\ Noted(st, frames, allocs) /\ Marked(st, frames)
    BY DEF MInv, Stacked
  <1>2. frames \in Seq(Frames) /\ Len(frames) \in 1..MaxFrames
    BY <1>1 DEF Marked
  <1>3. PICK k \in 1..Len(frames) : /\ k = Len(frames) /\ k > 1 /\ k \in Nat
                                    /\ frames[k].kind = "command"
    BY ONLY <1>2, NextCommand DEF NextCommand, Last
  <1>4. PICK m \in 0..Len(allocs) : /\ Before(k) = SubSeq(allocs, 1, m)
                                    /\ \A i \in 1..Len(allocs) : allocs[i].depth < k <=> i <= m
    BY ONLY <1>1, k \in Int, <1>3, BeforeRight
  <1>5. PICK x : x = rststackmark(st, k)
    OBVIOUS
  <1>6. /\ st' = Idle(x) /\ frames' = frames /\ allocs' = SubSeq(allocs, 1, m) /\ str' = NoStr
    BY ONLY <1>3, <1>4, <1>5, NextCommand DEF NextCommand
  <1>7. /\ x \in States /\ x.mark = st.mark /\ x.markp = st.markp
        /\ x.chain = SubSeq(st.chain, 1, Pos(st, st.mark[k].blk))
        /\ x.nxt = st.mark[k].nxt /\ x.left = st.mark[k].left
    BY ONLY <1>1, <1>5, k \in 1..Len(frames), Restored
  <1>8. st.markp = k \/ (st.markp = 0 /\ k = 1)
    BY ONLY <1>1, <1>3 DEF Marked
  <1>9. k \in 1..k /\ SubSeq(frames, 1, k) = frames
    <2>1. k \in 1..k /\ k \in 0..Len(frames)
      BY ONLY <1>3
    <2> QED
      BY ONLY <1>2, <1>3, <2>1, Shortened
  <1>10. Stacked(x, SubSeq(frames, 1, k), SubSeq(allocs, 1, m))
    BY ONLY <1>1, <1>3, <1>4, <1>7, <1>8, <1>9, k \in 1..Len(frames), m \in 0..Len(allocs),
            BackToMark
  <1>11. Stacked(x, frames', allocs')
    BY ONLY <1>6, <1>9, <1>10
  <1>12. NoStr \in Strings /\ ~NoStr.on
    BY DEF NoStr, Strings, Ptrs, Names
  <1>13. Higher(x, Idle(x)) /\ Growing(Idle(x), NoStr)
    BY ONLY <1>11, <1>12, IdleStack DEF Stacked
  <1>14. Stacked(Idle(x), frames', allocs')
    BY ONLY <1>11, <1>13, HigherStacked
  <1> QED
    BY ONLY <1>6, <1>13, <1>14

\* Also an exception restores the mark of the command it is caught in.
LEMMA ErrorCaught ==
  ASSUME MInv, NEW k \in DOMAIN frames, Caught(st, k)
  PROVE  Stacked(st', frames', allocs') /\ Growing(st', str') /\ wild' = wild
  <1>1. Stacked(st, frames, allocs) /\ Noted(st, frames, allocs)
    BY DEF MInv, Stacked
  <1>2. frames \in Seq(Frames) /\ Len(frames) \in 1..MaxFrames
    BY <1>1 DEF Stacked, Marked
  <1>3. k \in 1..Len(frames) /\ k \in Nat /\ k \in Int /\ DOMAIN frames = 1..Len(frames)
    BY ONLY <1>2, k \in DOMAIN frames
  <1>4. PICK m \in 0..Len(allocs) : /\ Before(k) = SubSeq(allocs, 1, m)
                                    /\ \A i \in 1..Len(allocs) : allocs[i].depth < k <=> i <= m
    BY ONLY <1>1, <1>3, BeforeRight
  <1>5. PICK x : x = popstackmark(st, k)
    OBVIOUS
  <1>6. PICK j : j = IF k = 1 THEN 1 ELSE k - 1
    OBVIOUS
  <1>7. Restorable(st, k)
    <2>1. PICK y : y = rststackmark(st, k)
      OBVIOUS
    <2>2. st.mark[k].blk \in Ids(st)
      BY ONLY <1>1, <1>3, <2>1, Restored
    <2> QED
      BY ONLY <2>2 DEF Restorable
  <1>8. /\ st' = Idle(x) /\ frames' = SubSeq(frames, 1, j) /\ allocs' = SubSeq(allocs, 1, m)
        /\ str' = NoStr /\ wild' = wild
    BY ONLY <1>4, <1>5, <1>6, <1>7, Caught(st, k) DEF Caught
  <1>9. Stacked(x, frames', allocs')
    BY ONLY <1>1, <1>3, <1>4, <1>5, <1>6, <1>8, m \in 0..Len(allocs), Popped
  <1>10. NoStr \in Strings /\ ~NoStr.on
    BY DEF NoStr, Strings, Ptrs, Names
  <1>11. Higher(x, Idle(x)) /\ Growing(Idle(x), NoStr)
    BY ONLY <1>9, <1>10, IdleStack DEF Stacked
  <1>12. Stacked(Idle(x), frames', allocs')
    BY ONLY <1>9, <1>11, HigherStacked
  <1> QED
    BY ONLY <1>8, <1>11, <1>12

\* The string that was put aside goes on from its mark.
LEMMA StringTakenUp ==
  ASSUME Usual, MInv, TakeUp
  PROVE  Stacked(st', frames', allocs') /\ Growing(st', str')
  <1>1. Stacked(st, frames, allocs) /\ Noted(st, frames, allocs) /\ Marked(st, frames)
        /\ Asides(st, frames, allocs) /\ Chained(st)
    BY DEF MInv, Stacked
  <1>2. frames \in Seq(Frames) /\ Len(frames) \in 1..MaxFrames /\ frames[1].kind = "command"
    BY <1>1 DEF Marked
  <1>3. PICK k \in 1..Len(frames) : k = Len(frames) /\ k \in Nat /\ k \in Int /\ k \in 1..MaxFrames
    BY ONLY <1>2
  <1>4. PICK r \in Frames : r = frames[k]
    BY ONLY <1>2, <1>3
  <1>5. Last(frames) = r
    BY ONLY <1>3, <1>4 DEF Last
  <1>6. r.kind \in {"arith", "prompt"} /\ r.kind # "command"
    BY ONLY <1>5, Usual, TakeUp DEF TakeUp, Usual
  <1>7. k # 1
    BY ONLY <1>2, <1>4, <1>6
  <1>8. PICK m \in 0..Len(allocs) : /\ Before(k) = SubSeq(allocs, 1, m)
                                    /\ \A i \in 1..Len(allocs) : allocs[i].depth < k <=> i <= m
    BY ONLY <1>1, <1>3, BeforeRight
  <1>9. PICK x : x = popstackmark(st, k)
    OBVIOUS
  <1>10. PICK n : n = IF r.kind = "arith" THEN Length(x, r.str.dest) - r.loc ELSE 0
    OBVIOUS
  <1>11. /\ st' = [x EXCEPT !.sstr = x.sstr + n]
         /\ str' = [r.str EXCEPT !.dest = At(r.str.dest, -n)]
         /\ frames' = SubSeq(frames, 1, k - 1) /\ allocs' = SubSeq(allocs, 1, m)
    BY ONLY <1>3, <1>5, <1>8, <1>9, <1>10, TakeUp DEF TakeUp, Front
  <1>12. PICK j : j = (IF k = 1 THEN 1 ELSE k - 1) /\ j = k - 1
    BY ONLY <1>7
  <1>13. Stacked(x, frames', allocs') /\ x.nxt = st.mark[k].nxt /\ x.left = st.mark[k].left
         /\ x.sstr = st.mark[k].sstr
    <2>1. /\ Stacked(x, SubSeq(frames, 1, j), SubSeq(allocs, 1, m))
          /\ x.nxt = st.mark[k].nxt /\ x.left = st.mark[k].left /\ x.sstr = st.mark[k].sstr
      BY ONLY <1>1, <1>8, <1>9, <1>12, k \in 1..Len(frames), m \in 0..Len(allocs), Popped
    <2> QED
      BY ONLY <1>11, <1>12, <2>1
  <1>14. Chained(x) /\ x.nxt.off \in Int /\ x.left \in Int /\ x.sstr \in Int
    BY ONLY <1>13, StackTypes DEF Stacked
  <1>15. Resumes(st.mark[k], r)
    BY ONLY <1>1, <1>4, <1>6, k \in 1..Len(frames) DEF Asides
  <1>16. st.mark[k].nxt.blk = st.mark[k].blk
    BY ONLY <1>1, k \in 1..Len(frames) DEF Marked
  <1>17. /\ r.str \in Strings /\ r.str.dest \in Ptrs /\ r.str.dest.off \in Int
    BY ONLY r \in Frames DEF Frames, Strings, Ptrs
  <1>18. PICK len \in Int : len = r.str.dest.off - x.nxt.off
    BY ONLY <1>14, <1>17
  <1>19. /\ r.str.dest.blk = x.nxt.blk /\ r.loc \in 0..len /\ len <= x.left
         /\ x.sstr = x.left - len
    BY ONLY <1>13, <1>15, <1>16, <1>18 DEF Resumes
  <1>20. n \in Int /\ 0 <= n /\ n <= len
    BY ONLY <1>10, <1>18, <1>19, len \in Int DEF Length
  <1>21. PICK l \in Int, e \in Int : l = x.sstr + n /\ e = -n
    BY ONLY <1>14, <1>20
  <1>22. /\ Stacked(st', frames', allocs') /\ Chained(st') /\ st'.nxt = x.nxt
         /\ st'.left = x.left /\ st'.sstr = l
    <2>1. st' = [x EXCEPT !.sstr = l]
      BY ONLY <1>11, <1>21
    <2> QED
      BY ONLY <1>13, <2>1, l \in Int, SetSstr
  <1>23. PICK p \in Ptrs : /\ p = At(r.str.dest, e) /\ p.blk = r.str.dest.blk
                           /\ p.off = r.str.dest.off + e
    BY ONLY <1>17, e \in Int, AtRight
  <1>24. str' = [r.str EXCEPT !.dest = p]
    BY ONLY <1>11, <1>21, <1>23
  <1>25. /\ p.blk = st'.nxt.blk /\ p.off = st'.nxt.off + (len - n) /\ 0 <= len - n
         /\ len - n <= st'.left /\ st'.sstr = st'.left - (len - n) /\ len - n \in Int
    <2>1. PICK o \in Int, z \in Int, w \in Int :
            o = r.str.dest.off /\ z = x.nxt.off /\ w = x.left
      BY ONLY <1>14, <1>17
    <2>4. PICK c \in Int : c = n
      BY ONLY <1>20
    <2>2. st'.nxt.off = z /\ st'.left = w /\ st'.sstr = l /\ l = (w - len) + c /\ e = -c
          /\ p.off = o + e /\ len = o - z
      BY ONLY <1>18, <1>19, <1>21, <1>22, <1>23, <2>1, <2>4
    <2>3. p.blk = st'.nxt.blk
      BY ONLY <1>19, <1>22, <1>23
    <2>5. p.off = z + (len - c) /\ l = w - (len - c) /\ len - c \in Int
      <3>1. l = (w - len) + c /\ e = -c /\ len = o - z
        BY ONLY <2>2
      <3>2. o + e = z + (len - c) /\ l = w - (len - c) /\ len - c \in Int
        BY ONLY <3>1, o \in Int, e \in Int, z \in Int, c \in Int, l \in Int, w \in Int, len \in Int
      <3>3. p.off = o + e
        BY ONLY <2>2
      <3> QED
        BY ONLY <3>2, <3>3
    <2>6. 0 <= len - c /\ len - c <= w
      BY ONLY <1>19, <1>20, <2>1, <2>4
    <2> QED
      BY ONLY <2>2, <2>3, <2>4, <2>5, <2>6
  <1>26. Growing(st', str')
    BY ONLY <1>17, <1>22, <1>24, <1>25, p \in Ptrs, GrowsOn
  <1> QED
    BY ONLY <1>22, <1>26

-----------------------------------------------------------------------------
(* The invariant.                                                          *)

\* main starts with stackbase, its own mark and nothing else.
LEMMA InitRight ==
  ASSUME Init
  PROVE  MInv /\ ~wild
  <1>1. PICK b \in Blocks : b = [id |-> 1, size |-> MINSIZE]
    <2>1. [id |-> 1, size |-> MINSIZE] \in Blocks
      BY DEF Blocks, Names
    <2> QED
      BY ONLY <2>1
  <1>2. PICK p \in Ptrs : p = [blk |-> 1, off |-> 0]
    <2>1. [blk |-> 1, off |-> 0] \in Ptrs
      BY DEF Ptrs, Names
    <2> QED
      BY ONLY <2>1
  <1>3. PICK m \in Marks : m = NoMark
    <2>1. [blk |-> 1, nxt |-> p, left |-> MINSIZE, sstr |-> 0, next |-> 0] \in Marks
      BY DEF Marks, Names
    <2>2. NoMark \in Marks
      BY ONLY <1>2, <2>1 DEF NoMark
    <2> QED
      BY ONLY <2>2
  <1>4. PICK u \in Strings : u = NoStr
    BY <1>2 DEF NoStr, Strings
  <1>5. PICK r \in Frames : r = [kind |-> "command", str |-> u, loc |-> 0]
    <2>1. [kind |-> "command", str |-> u, loc |-> 0] \in Frames
      BY DEF Frames
    <2> QED
      BY ONLY <2>1
  <1>6. /\ st = [chain |-> <<b>>, nxt |-> p, left |-> MINSIZE, sstr |-> 0,
                 mark |-> [f \in 1..MaxFrames |-> m], markp |-> 1]
        /\ frames = <<r>> /\ str = u /\ allocs = <<>> /\ ~wild
    BY <1>1, <1>2, <1>3, <1>4, <1>5 DEF Init
  <1>7. /\ st.chain = <<b>> /\ st.nxt = p /\ st.left = MINSIZE /\ st.sstr = 0 /\ st.markp = 1
        /\ st.mark = [f \in 1..MaxFrames |-> m]
    BY ONLY <1>6
  <1>8. m.blk = 1 /\ m.nxt = p /\ m.left = MINSIZE /\ m.next = 0
    BY ONLY <1>2, <1>3 DEF NoMark
  <1>9. st \in States
    BY ONLY <1>6, b \in Blocks, p \in Ptrs, m \in Marks, MINSIZE \in Nat \ {0} DEF States
  <1>10. Listed(st)
    <2>1. st.chain \in Seq(Blocks) /\ st.chain # <<>> /\ st.chain[1] = b /\ DOMAIN st.chain = {1}
      BY ONLY <1>7, b \in Blocks
    <2> QED
      BY ONLY <1>1, <2>1 DEF Listed
  <1>11. stackp(st) = b /\ b.id = 1 /\ b.size = MINSIZE
    BY ONLY <1>1, <1>7 DEF stackp, Last
  <1>12. p.blk = 1 /\ p.off = 0 /\ 1 \in Ids(st) /\ SizeOf(st, 1) = MINSIZE
    BY ONLY <1>2, <1>10, <1>11, Places
  <1>13. Room(st, p, MINSIZE)
    <2>1. Aligned(0)
      <3> PICK k \in Int : k = 0
        OBVIOUS
      <3>1. Aligned(k * Unit)
        BY Multiple
      <3>2. k * Unit = 0
        BY ONLY k = 0, Unit \in Nat \ {0, 1}
      <3> QED
        BY ONLY <3>1, <3>2
    <2>2. Aligned(MINSIZE)
      BY DEF Aligned
    <2> QED
      BY ONLY <1>12, <2>1, <2>2, MINSIZE \in Nat \ {0} DEF Room
  <1>14. Chained(st)
    BY ONLY <1>7, <1>9, <1>10, <1>11, <1>12, <1>13 DEF Chained, Topped
  <1>15. Under(st, p, p)
    BY ONLY <1>12 DEF Under
  <1>16. /\ frames \in Seq(Frames) /\ Len(frames) = 1 /\ frames[1] = r
         /\ frames[1].kind = "command"
    BY ONLY <1>5, <1>6, r \in Frames
  <1>17. 1 \in 1..MaxFrames /\ st.mark[1] = m
    BY ONLY <1>7, MaxFrames \in Nat \ {0}
  <1>18. ASSUME NEW f \in 1..Len(frames) PROVE f = 1
    BY ONLY <1>16, f \in 1..Len(frames)
  <1>19. Marked(st, frames)
    <2>1. /\ st.mark[1] = m /\ m.nxt = p /\ m.blk = 1 /\ p.blk = 1 /\ m.next = 0
          /\ m.left = MINSIZE /\ st.nxt = p
      BY ONLY <1>7, <1>8, <1>12, <1>17
    <2>2. /\ Len(frames) \in 1..MaxFrames /\ st.markp = Len(frames)
      BY ONLY <1>7, <1>16, <1>17
    <2>3. ASSUME NEW f \in 1..Len(frames)
          PROVE  /\ f > 1 => st.mark[f].next = f - 1 \/ (st.mark[f].next = 0 /\ f = 2)
                 /\ f = 1 => st.mark[f].next = 0
                 /\ st.mark[f].nxt.blk = st.mark[f].blk
                 /\ Room(st, st.mark[f].nxt, st.mark[f].left)
                 /\ Under(st, st.mark[f].nxt, st.nxt)
      <3>1. f = 1
        BY ONLY <1>18, f \in 1..Len(frames)
      <3>2. ~(1 > 1)
        OBVIOUS
      <3> QED
        BY ONLY <1>13, <1>15, <2>1, <3>1, <3>2
    <2>4. ASSUME NEW f \in 1..Len(frames), NEW g \in 1..Len(frames)
          PROVE  Under(st, st.mark[f].nxt, st.mark[g].nxt)
      <3>1. f = 1 /\ g = 1
        BY ONLY <1>18, f \in 1..Len(frames), g \in 1..Len(frames)
      <3> QED
        BY ONLY <1>15, <2>1, <3>1
    <2> QED
      BY ONLY <1>16, <2>1, <2>2, <2>3, <2>4 DEF Marked
  <1>20. Noted(st, frames, allocs)
    BY ONLY <1>6 DEF Noted
  <1>21. Asides(st, frames, allocs)
    BY ONLY <1>16, <1>18 DEF Asides
  <1>22. Growing(st, str)
    BY ONLY <1>4, <1>6, u \in Strings DEF Growing, NoStr
  <1> QED
    BY ONLY <1>6, <1>14, <1>19, <1>20, <1>21, <1>22 DEF MInv, Stacked

\* Every step of the shell leaves the stack as MInv says, and what it writes goes
\* where there is a block.
LEMMA StepRight ==
  ASSUME Usual, MInv, ~wild, [Next]_vars
  PROVE  (MInv /\ ~wild)'
  <1>1. SUFFICES Stacked(st', frames', allocs') /\ Growing(st', str') /\ ~wild'
    BY DEF MInv, Stacked, Growing, Chained, Marked, Noted, Asides
  <1>2. ASSUME NEW here \in BOOLEAN, StartString(here)
        PROVE  Stacked(st', frames', allocs') /\ Growing(st', str') /\ ~wild'
    <2>1. wild' = wild
      BY ONLY <1>2 DEF StartString
    <2> QED
      BY <1>2, <2>1, StringStarts
  <1>3. ASSUME NEW d \in 1..MaxSize, STADJUST(d)
        PROVE  Stacked(st', frames', allocs') /\ Growing(st', str') /\ ~wild'
    <2>1. wild' = wild
      BY ONLY <1>3 DEF STADJUST
    <2> QED
      BY <1>3, <2>1, StringAdjusted
  <1>4. CASE grabstackstr
    <2>1. wild' = wild
      BY ONLY <1>4 DEF grabstackstr
    <2> QED
      BY <1>4, <2>1, StringGrabbed
  <1>5. CASE ungrabstackstr
    <2>1. wild' = wild
      BY ONLY <1>5 DEF ungrabstackstr
    <2> QED
      BY <1>5, <2>1, StringUngrabbed
  <1>6. ASSUME NEW n \in {1, MINSIZE, MINSIZE + 1}, Alloc(n)
        PROVE  Stacked(st', frames', allocs') /\ Growing(st', str') /\ ~wild'
    <2>1. wild' = wild
      BY ONLY <1>6 DEF Alloc
    <2>2. n \in Nat \ {0}
      BY ONLY n \in {1, MINSIZE, MINSIZE + 1}, MINSIZE \in Nat \ {0}
    <2> QED
      BY <1>6, <2>1, <2>2, BytesAllocated
  <1>7. CASE Unalloc
    <2>1. wild' = wild
      BY ONLY <1>7 DEF Unalloc
    <2> QED
      BY <1>7, <2>1, BytesReleased
  <1>8. CASE GrowRoom
    <2>1. wild' = wild
      BY ONLY <1>8 DEF GrowRoom
    <2> QED
      BY <1>8, <2>1, RoomGrown
  <1>9. CASE EnterCommand
    <2>1. wild' = wild
      BY ONLY <1>9 DEF EnterCommand
    <2> QED
      BY <1>9, <2>1, CommandEntered
  <1>10. CASE LeaveCommand
    <2>1. wild' = wild
      BY ONLY <1>10 DEF LeaveCommand
    <2> QED
      BY <1>10, <2>1, CommandLeft
  <1>11. CASE NextCommand
    <2>1. wild' = wild
      BY ONLY <1>11 DEF NextCommand
    <2> QED
      BY <1>11, <2>1, CommandNext
  <1>12. ASSUME NEW kind \in Kinds, PutAside(kind)
         PROVE  Stacked(st', frames', allocs') /\ Growing(st', str') /\ ~wild'
    <2>1. wild' = wild
      BY ONLY <1>12 DEF PutAside
    <2>2. kind \in {"arith", "prompt"}
      BY ONLY Usual, kind \in Kinds DEF Usual
    <2> QED
      BY <1>12, <2>1, <2>2, StringPutAside
  <1>13. CASE TakeUp
    <2>1. wild' = wild
      BY ONLY <1>13 DEF TakeUp
    <2> QED
      BY <1>13, <2>1, StringTakenUp
  <1>14. ASSUME NEW k \in DOMAIN frames, Caught(st, k)
         PROVE  Stacked(st', frames', allocs') /\ Growing(st', str') /\ ~wild'
    BY <1>14, ErrorCaught
  <1>15. CASE OutOfSpace
    <2>1. PICK call, k : /\ call \in MayFail /\ k \in DOMAIN frames
                         /\ Caught(IF call = "realloc" THEN [st EXCEPT !.chain = Front(@)]
                                   ELSE st, k)
      BY ONLY <1>15 DEF OutOfSpace
    <2>2. call # "realloc"
      BY ONLY Usual, <2>1 DEF Usual
    <2>3. Caught(st, k)
      BY ONLY <2>1, <2>2
    <2> QED
      BY ONLY <1>14, <2>1, <2>3
  <1>16. CASE UNCHANGED vars
    <2>1. st' = st /\ frames' = frames /\ str' = str /\ allocs' = allocs /\ wild' = wild
      BY ONLY <1>16 DEF vars
    <2> QED
      BY <2>1 DEF MInv
  <1>17. CASE STPUTC
    BY <1>17, CharacterPut
  <1>18. CASE STACKSTRNUL
    BY <1>18, StringDropped
  <1>19. CASE CheckPut(2)
    BY <1>19, CharactersPut
  <1> QED
    BY ONLY [Next]_vars, <1>2, <1>3, <1>4, <1>5, <1>6, <1>7, <1>8, <1>9, <1>10, <1>11, <1>12,
            <1>13, <1>14, <1>15, <1>16, <1>17, <1>18, <1>19, Zenon DEF Next, Error

\* The blocks, the marks, what is allocated, the strings that were put aside and the
\* one that grows are always as MInv says.
THEOREM StackRight ==
  ASSUME Usual
  PROVE  Spec => [](MInv /\ ~wild)
  <1>1. Init => MInv /\ ~wild
    BY InitRight
  <1>2. (MInv /\ ~wild) /\ [Next]_vars => (MInv /\ ~wild)'
    BY StepRight
  <1> QED
    BY <1>1, <1>2, PTL DEF Spec

\* Under is what AshMemalloc calls Below.
LEMMA UnderBelow ==
  ASSUME NEW p, NEW q, Under(st, p, q)
  PROVE  Below(p, q)
  <1>1. /\ p.blk \in Ids(st) /\ q.blk \in Ids(st)
        /\ IF p.blk = q.blk THEN p.off <= q.off ELSE Pos(st, p.blk) < Pos(st, q.blk)
    BY DEF Under
  <1>2. /\ Pos(st, p.blk) = CHOOSE i \in DOMAIN st.chain : st.chain[i].id = p.blk
        /\ Pos(st, q.blk) = CHOOSE i \in DOMAIN st.chain : st.chain[i].id = q.blk
    BY DEF Pos
  <1> QED
    BY ONLY <1>1, <1>2 DEF Below

\* What is free and what is in use make up the block on top, in aligned pieces, and
\* the list of marks leads through the functions that are running, whatever realloc
\* has moved (stalloc, growstackblock, popstackmark): for all sizes and nestings.
THEOREM MarksAlwaysSound ==
  ASSUME Usual
  PROVE  Spec => []MarksSound
  <1>1. MInv => MarksSound
    <2> SUFFICES ASSUME MInv PROVE MarksSound
      OBVIOUS
    <2>1. Chained(st) /\ Marked(st, frames)
      BY DEF MInv, Stacked
    <2>2. /\ st.nxt.blk = stackp(st).id /\ st.nxt.off >= 0 /\ st.left >= 0
          /\ st.nxt.off + st.left = stackp(st).size /\ Aligned(st.nxt.off) /\ Aligned(st.left)
          /\ Listed(st)
      BY ONLY <2>1, StackTypes
    <2>3. StackSound
      BY ONLY <2>2 DEF StackSound, Listed, Aligned
    <2>4. /\ st.markp = Len(frames) \/ (st.markp = 0 /\ Len(frames) = 1)
          /\ DOMAIN frames = 1..Len(frames)
      BY ONLY <2>1 DEF Marked
    <2>5. ASSUME NEW f \in DOMAIN frames
          PROVE  /\ f > 1 => st.mark[f].next = f - 1 \/ (st.mark[f].next = 0 /\ f = 2)
                 /\ Restorable(st, f)
                 /\ st.mark[f].nxt.blk = st.mark[f].blk /\ st.mark[f].nxt.off >= 0
                 /\ st.mark[f].left >= 0
                 /\ st.mark[f].nxt.off + st.mark[f].left = SizeOf(st, st.mark[f].blk)
      <3>1. /\ f > 1 => st.mark[f].next = f - 1 \/ (st.mark[f].next = 0 /\ f = 2)
            /\ st.mark[f].nxt.blk = st.mark[f].blk
            /\ Room(st, st.mark[f].nxt, st.mark[f].left)
        BY ONLY <2>1, <2>4, f \in DOMAIN frames DEF Marked
      <3> QED
        BY ONLY <3>1 DEF Room, Restorable
    <2> QED
      BY ONLY <2>3, <2>4, <2>5 DEF MarksSound
  <1> QED
    BY <1>1, StackRight, PTL

\* What is allocated stays below what is free, below what was allocated later and
\* below the marks that were set later, until the function that allocated it has
\* returned (stalloc, stunalloc, rststackmark, growstackblock).
THEOREM AllocsAreKept ==
  ASSUME Usual
  PROVE  Spec => []AllocsKept
  <1>1. MInv => AllocsKept
    <2> SUFFICES ASSUME MInv, NEW i \in DOMAIN allocs
                 PROVE  /\ Below(End(allocs[i]), st.nxt)
                        /\ i < Len(allocs) => Below(End(allocs[i]), allocs[i + 1])
                        /\ \A f \in DOMAIN frames :
                             allocs[i].depth < f => Below(End(allocs[i]), st.mark[f].nxt)
      BY DEF AllocsKept, End
    <2>1. Noted(st, frames, allocs) /\ DOMAIN frames = 1..Len(frames)
      BY DEF MInv, Stacked, Marked
    <2>2. allocs \in Seq(Allocs) /\ Len(allocs) \in Nat /\ DOMAIN allocs = 1..Len(allocs)
      BY ONLY <2>1 DEF Noted
    <2>3. Clear(st, allocs[i], st.nxt)
      BY ONLY <2>1, i \in DOMAIN allocs DEF Noted
    <2>4. ASSUME i < Len(allocs) PROVE Clear(st, allocs[i], allocs[i + 1])
      <3>1. i + 1 \in DOMAIN allocs /\ i < i + 1
        BY ONLY <2>2, <2>4, i \in DOMAIN allocs
      <3> QED
        BY ONLY <2>1, <3>1, i \in DOMAIN allocs DEF Noted
    <2>5. ASSUME NEW f \in DOMAIN frames, allocs[i].depth < f
          PROVE  Clear(st, allocs[i], st.mark[f].nxt)
      BY ONLY <2>1, <2>5, i \in DOMAIN allocs DEF Noted
    <2> QED
      BY <2>3, <2>4, <2>5, UnderBelow DEF Clear
  <1> QED
    BY <1>1, StackRight, PTL

\* The characters of the string and those that may be put without growing it are
\* exactly the space on top of the stack (STPUTC, CHECKSTRSPACE, STADJUST and
\* growstackstr keep sstrnleft by hand).
THEOREM StringAlwaysExact ==
  ASSUME Usual
  PROVE  Spec => []StringExact
  <1>1. MInv => StringExact
    BY DEF MInv, Growing, StringExact, Length
  <1> QED
    BY <1>1, StackRight, PTL

\* Every character that STPUTC, USTPUTC and STACKSTRNUL write goes into a block of
\* the stack, as memalloc.c says of it: it is grown as necessary.
THEOREM CharactersInSpace ==
  ASSUME Usual
  PROVE  Spec => []InSpace
  <1>1. ~wild => InSpace
    BY DEF InSpace
  <1> QED
    BY <1>1, StackRight, PTL
=============================================================================
