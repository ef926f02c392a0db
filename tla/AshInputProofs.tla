--------------------------- MODULE AshInputProofs ---------------------------
(***************************************************************************)
(* Proofs about AshInput, for every set of files, strings and alias texts, *)
(* every block size, every nesting and every order of what the parser and  *)
(* the builtins do: at_eof tells truly whether anything follows, an alias  *)
(* is in use exactly while its text is pushed, and what pgetc returns is   *)
(* the stream of InputStream.                                              *)
(*                                                                         *)
(* The invariant (IInv) says of the current input, with the counters in    *)
(* the globals, and of each input that is saved on the parsefile stack,    *)
(* with the counters in its record, that the counters fit the texts        *)
(* (LevelGood): what parsenleft counts lies in the text parsenextc points  *)
(* into, and so do the places that strpush saves for each pushed string;   *)
(* below the pushed strings the place is in the file's own buffer, with    *)
(* parselleft counting what follows it there, or at the end of the file.   *)
(* It says besides that the aliases in use are those of the strings pushed *)
(* (UsesGood), and in which modes of the parser an end has been seen       *)
(* (ModeGood).                                                             *)
(*                                                                         *)
(* The text that is left to be read is that of the current place, followed *)
(* by what each frame of strpush saved and by the rest of the file (Left). *)
(* There is one lemma for each function of input.c that tells what it does *)
(* to the counters and to this text (TakeIs to GetIs), one for each action *)
(* (TokenMakes to ClosesKeeps), and from these follow the invariant and    *)
(* the refinement (Keeps, PassesImplemented).                              *)
(***************************************************************************)
EXTENDS AshInput, SequenceTheorems, FiniteSetTheorems, WellFoundedInduction, TLAPS

(* A set of natural numbers that is not empty has a least member.          *)

LEMMA Least ==
  ASSUME NEW S, S \subseteq Nat, S # {}
  PROVE  \E x \in S : \A y \in S : x <= y
<1>1. PICK x \in S : \A y \in S : ~(<<y, x>> \in OpToRel(<, Nat))
  BY NatLessThanWellFounded, WFMin, Zenon
<1>2. ASSUME NEW y \in S, y < x PROVE FALSE
  <2>1. <<y, x>> \in Nat \X Nat
    BY <1>2
  <2>2. <<y, x>>[1] < <<y, x>>[2]
    BY <1>2
  <2> QED BY <1>1, <2>1, <2>2 DEF OpToRel
<1> QED BY <1>2


LEMMA MinIs ==
  ASSUME NEW S, S \subseteq Nat, S # {}
  PROVE  Min(S) \in S /\ \A y \in S : Min(S) <= y
BY Least DEF Min

(* Functions that are defined by going on from the value before.           *)

RunOf(n, x, F, r) == r = [k \in 0 .. n |-> IF k = 0 THEN x ELSE F[<<k, r[k - 1]>>]]

LEMMA Iterates ==
  ASSUME NEW S, NEW n \in Nat, NEW x \in S, NEW F \in [(1 .. n) \X S -> S]
  PROVE  \E r \in [0 .. n -> S] : RunOf(n, x, F, r)
<1> DEFINE Runs(m) == {r \in [0 .. m -> S] : \A k \in 0 .. m : r[k] = IF k = 0 THEN x ELSE F[<<k, r[k - 1]>>]}
           Bad == {m \in 0 .. n : Runs(m) = {}}
<1>1. Bad = {}
  <2> SUFFICES ASSUME Bad # {} PROVE FALSE
    OBVIOUS
  <2>1. Bad \subseteq Nat
    OBVIOUS
  <2>2. PICK m \in Bad : \A j \in Bad : m <= j
    <3> HIDE DEF Bad
    <3> QED BY <2>1, Least
  <2>3. m \in 0 .. n /\ Runs(m) = {} /\ \A j \in 0 .. n : j < m => Runs(j) # {}
    <3> HIDE DEF Runs
    <3>1. m \in 0 .. n /\ Runs(m) = {}
      OBVIOUS
    <3>2. ASSUME NEW j \in 0 .. n, j < m, Runs(j) = {} PROVE FALSE
      <4>1. j \in Bad
        BY <3>2
      <4> QED BY <2>2, <3>1, <3>2, <4>1
    <3> QED BY <3>1, <3>2
  <2>4. CASE m = 0
    <3>1. PICK r : r = [k \in 0 .. 0 |-> x]
      OBVIOUS
    <3>2. r \in [0 .. 0 -> S] /\ \A k \in 0 .. 0 : r[k] = IF k = 0 THEN x ELSE F[<<k, r[k - 1]>>]
      BY <3>1
    <3> QED BY <2>3, <2>4, <3>2
  <2>5. CASE m # 0
    <3>1. m - 1 \in 0 .. n /\ m - 1 < m /\ m \in 1 .. n
      BY <2>3, <2>5
    <3>2. PICK d : d \in Runs(m - 1)
      BY <2>3, <3>1
    <3>3. /\ d \in [0 .. (m - 1) -> S]
          /\ \A k \in 0 .. (m - 1) : d[k] = IF k = 0 THEN x ELSE F[<<k, d[k - 1]>>]
      BY <3>2
    <3>4. PICK last : last = F[<<m, d[m - 1]>>]
      OBVIOUS
    <3>5. last \in S
      <4>1. <<m, d[m - 1]>> \in (1 .. n) \X S
        BY <3>1, <3>3
      <4> QED BY <3>4, <4>1
    <3>6. PICK r : r = [k \in 0 .. m |-> IF k = m THEN last ELSE d[k]]
      OBVIOUS
    <3>7. r \in [0 .. m -> S]
      <4>1. \A k \in 0 .. m : k # m => k \in 0 .. (m - 1)
        BY <3>1
      <4> QED BY <3>3, <3>5, <3>6, <4>1
    <3>8. ASSUME NEW k \in 0 .. m PROVE r[k] = IF k = 0 THEN x ELSE F[<<k, r[k - 1]>>]
      <4>1. CASE k = m
        <5>1. k # 0 /\ m - 1 \in 0 .. m /\ m - 1 # m
          BY <2>5, <3>1, <4>1
        <5>2. r[m - 1] = d[m - 1]
          BY <3>6, <5>1
        <5> QED BY <3>4, <3>6, <4>1, <5>1, <5>2
      <4>2. CASE k # m
        <5>1. k \in 0 .. (m - 1)
          BY <3>1, <4>2
        <5>2. r[k] = d[k]
          BY <3>6, <4>2
        <5>3. k # 0 => k - 1 \in 0 .. m /\ k - 1 # m
          BY <3>1, <5>1
        <5>4. k # 0 => r[k - 1] = d[k - 1]
          BY <3>6, <5>3
        <5> QED BY <3>3, <5>1, <5>2, <5>4
      <4> QED BY <4>1, <4>2
    <3>9. r \in Runs(m)
      BY <3>7, <3>8
    <3> QED BY <2>3, <3>9
  <2> QED BY <2>4, <2>5
<1>2. PICK r : r \in Runs(n)
  BY <1>1
<1>3. r \in [0 .. n -> S] /\ \A k \in 0 .. n : r[k] = IF k = 0 THEN x ELSE F[<<k, r[k - 1]>>]
  BY <1>2
<1>4. RunOf(n, x, F, r)
  BY <1>3 DEF RunOf
<1> QED BY <1>3, <1>4

(* What holds at 0 and goes from each number to the next.                  *)
LEMMA UpTo ==
  ASSUME NEW n \in Nat, NEW J, 0 \in J, \A k \in 1 .. n : k - 1 \in J => k \in J
  PROVE  \A k \in 0 .. n : k \in J
<1> DEFINE Bad == {k \in 0 .. n : k \notin J}
<1>1. Bad \subseteq Nat
  OBVIOUS
<1>2. CASE Bad # {}
  <2>1. PICK m \in Bad : \A j \in Bad : m <= j
    <3> HIDE DEF Bad
    <3> QED BY <1>1, <1>2, Least
  <2>2. m \in 0 .. n /\ m \notin J /\ m # 0
    BY <2>1
  <2>3. m \in 1 .. n /\ m - 1 \in 0 .. n /\ m - 1 < m
    BY <2>2
  <2>4. m - 1 \in J
    BY <2>1, <2>3
  <2> QED BY <2>2, <2>3, <2>4
<1>3. CASE Bad = {}
  BY <1>3
<1> QED BY <1>2, <1>3

KeptRun(text) ==
  CHOOSE r : r = [i \in 0 .. Len(text) |->
                    IF i = 0 THEN << >> ELSE IF text[i] = "0" THEN r[i - 1] ELSE Append(r[i - 1], text[i])]

LEMMA ReadableRun ==
  ASSUME NEW S, NEW text \in Seq(S), NEW r, r = KeptRun(text)
  PROVE  r[0] = << >> /\ \A k \in 1 .. Len(text) :
           r[k] = IF text[k] = "0" THEN r[k - 1] ELSE Append(r[k - 1], text[k])
<1> DEFINE n == Len(text)
           Q == Seq(S)
<1>1. n \in Nat /\ \A k \in 1 .. n : text[k] \in S
  OBVIOUS
<1>2. PICK F : F = [p \in (1 .. n) \X Q |-> IF text[p[1]] = "0" THEN p[2] ELSE Append(p[2], text[p[1]])]
  OBVIOUS
<1>3. F \in [(1 .. n) \X Q -> Q]
  <2>1. ASSUME NEW p \in (1 .. n) \X Q
        PROVE  (IF text[p[1]] = "0" THEN p[2] ELSE Append(p[2], text[p[1]])) \in Q
    <3>1. p[1] \in 1 .. n /\ p[2] \in Q
      OBVIOUS
    <3> QED BY <1>1, <3>1
  <2> HIDE DEF Q, n
  <2> QED BY <1>2, <2>1
<1>4. PICK d \in [0 .. n -> Q] : RunOf(n, << >>, F, d)
  <2>1. << >> \in Q
    OBVIOUS
  <2> HIDE DEF Q, n
  <2> QED BY <1>1, <1>3, <2>1, Iterates
<1>5. \A k \in 0 .. n : k # 0 =>
        F[<<k, d[k - 1]>>] = IF text[k] = "0" THEN d[k - 1] ELSE Append(d[k - 1], text[k])
  <2> HIDE DEF Q, n
  <2> TAKE k \in 0 .. n
  <2> HAVE k # 0
  <2>1. k \in 1 .. n /\ k - 1 \in 0 .. n
    BY <1>1
  <2>2. d[k - 1] \in Q
    BY <1>4, <2>1
  <2>3. <<k, d[k - 1]>> \in (1 .. n) \X Q
    BY <2>1, <2>2
  <2> QED BY <1>2, <2>3
<1>6. d = [k \in 0 .. n |-> IF k = 0 THEN << >>
                            ELSE IF text[k] = "0" THEN d[k - 1] ELSE Append(d[k - 1], text[k])]
  <2>1. \A k \in 0 .. n : d[k] = IF k = 0 THEN << >>
                            ELSE IF text[k] = "0" THEN d[k - 1] ELSE Append(d[k - 1], text[k])
    <3> HIDE DEF Q, n
    <3> TAKE k \in 0 .. n
    <3>1. d[k] = IF k = 0 THEN << >> ELSE F[<<k, d[k - 1]>>]
      BY <1>4 DEF RunOf
    <3> QED BY <1>5, <3>1
  <2> HIDE DEF Q, n
  <2> QED BY <1>4, <2>1
<1>7. r = [k \in 0 .. n |-> IF k = 0 THEN << >>
                            ELSE IF text[k] = "0" THEN r[k - 1] ELSE Append(r[k - 1], text[k])]
  <2>1. \E e : e = [k \in 0 .. n |-> IF k = 0 THEN << >>
                            ELSE IF text[k] = "0" THEN e[k - 1] ELSE Append(e[k - 1], text[k])]
    <3> HIDE DEF n
    <3> QED BY <1>6, Zenon
  <2> QED BY <2>1, Zenon DEF KeptRun
<1>8. \A k \in 0 .. n : r[k] = IF k = 0 THEN << >>
                            ELSE IF text[k] = "0" THEN r[k - 1] ELSE Append(r[k - 1], text[k])
  <2> HIDE DEF n
  <2> QED BY <1>7, Zenon
<1> HIDE DEF n
<1>9. r[0] = << >>
  BY <1>1, <1>8
<1>10. ASSUME NEW k \in 1 .. n
       PROVE  r[k] = IF text[k] = "0" THEN r[k - 1] ELSE Append(r[k - 1], text[k])
  <2>1. k \in 0 .. n /\ k # 0
    BY <1>1
  <2> QED BY <1>8, <2>1
<1> QED BY <1>9, <1>10 DEF n

LEMMA ReadableIs ==
  ASSUME NEW S, NEW text \in Seq(S)
  PROVE  /\ Readable(text) \in Seq(S \ {"0"})
         /\ Len(Readable(text)) <= Len(text)
         /\ Readable(text) = << >> <=> \A i \in 1 .. Len(text) : text[i] = "0"
         /\ (\A i \in 1 .. Len(text) : text[i] # "0") => Readable(text) = text
<1> DEFINE n == Len(text)
<1>1. PICK r : r = KeptRun(text)
  OBVIOUS
<1>2. r[0] = << >> /\ \A k \in 1 .. n : r[k] = IF text[k] = "0" THEN r[k - 1] ELSE Append(r[k - 1], text[k])
  BY <1>1, ReadableRun
<1>3. Readable(text) = r[n]
  BY <1>1 DEF Readable, KeptRun
<1> DEFINE J == {k \in 0 .. n :
             /\ r[k] \in Seq(S \ {"0"}) /\ Len(r[k]) <= k
             /\ r[k] = << >> <=> \A i \in 1 .. k : text[i] = "0"
             /\ (\A i \in 1 .. k : text[i] # "0") => Len(r[k]) = k /\ \A i \in 1 .. k : r[k][i] = text[i]}
<1>4. n \in Nat /\ \A k \in 1 .. n : text[k] \in S
  OBVIOUS
<1>5. 0 \in J
  <2>1. r[0] \in Seq(S \ {"0"}) /\ Len(r[0]) = 0
    BY <1>2
  <2>2. 0 \in 0 .. n /\ \A i \in 1 .. 0 : FALSE
    BY <1>4
  <2>3. /\ r[0] = << >> <=> \A i \in 1 .. 0 : text[i] = "0"
        /\ \A i \in 1 .. 0 : r[0][i] = text[i]
    BY <1>2, <2>2, Zenon
  <2>4. Len(r[0]) <= 0
    BY <2>1
  <2> HIDE DEF n
  <2> QED BY <2>1, <2>2, <2>3, <2>4
<1>6. ASSUME NEW k \in 1 .. n, k - 1 \in J PROVE k \in J
  <2>1. /\ r[k - 1] \in Seq(S \ {"0"}) /\ Len(r[k - 1]) <= k - 1
        /\ r[k - 1] = << >> <=> \A i \in 1 .. k - 1 : text[i] = "0"
        /\ (\A i \in 1 .. k - 1 : text[i] # "0") =>
             Len(r[k - 1]) = k - 1 /\ \A i \in 1 .. k - 1 : r[k - 1][i] = text[i]
    BY <1>6
  <2>2. k \in Nat /\ k - 1 \in Nat /\ k \in 0 .. n /\ \A i \in 1 .. k : i \in 1 .. k - 1 \/ i = k
    BY <1>4
  <2>3. CASE text[k] = "0"
    <3>1. r[k] = r[k - 1]
      BY <1>2, <2>3
    <3> QED BY <2>1, <2>2, <2>3, <3>1
  <2>4. CASE text[k] # "0"
    <3>1. r[k] = Append(r[k - 1], text[k])
      BY <1>2, <2>4
    <3>2. text[k] \in S \ {"0"}
      BY <1>4, <2>4
    <3>3. /\ r[k] \in Seq(S \ {"0"}) /\ r[k] # << >> /\ Len(r[k]) = Len(r[k - 1]) + 1
          /\ \A i \in 1 .. Len(r[k - 1]) : r[k][i] = r[k - 1][i]
          /\ r[k][Len(r[k - 1]) + 1] = text[k]
      <4>1. PICK t : t = r[k - 1]
        OBVIOUS
      <4>2. t \in Seq(S \ {"0"})
        BY <2>1, <4>1
      <4>3. PICK e : e = text[k]
        OBVIOUS
      <4>4. e \in S \ {"0"} /\ r[k] = Append(t, e)
        BY ONLY <3>1, <3>2, <4>1, <4>3
      <4>5. /\ Append(t, e) \in Seq(S \ {"0"}) /\ Append(t, e) # << >> /\ Len(Append(t, e)) = Len(t) + 1
            /\ \A i \in 1 .. Len(t) : Append(t, e)[i] = t[i]
            /\ Append(t, e)[Len(t) + 1] = e
        BY ONLY <4>2, <4>4, AppendProperties
      <4> QED BY ONLY <4>1, <4>3, <4>4, <4>5
    <3>4. Len(r[k - 1]) \in Nat
      BY <2>1
    <3>5. ~ \A i \in 1 .. k : text[i] = "0"
      BY <2>2, <2>4
    <3>6. ASSUME \A i \in 1 .. k : text[i] # "0"
          PROVE  Len(r[k]) = k /\ \A i \in 1 .. k : r[k][i] = text[i]
      <4>1. Len(r[k - 1]) = k - 1 /\ \A i \in 1 .. k - 1 : r[k - 1][i] = text[i]
        BY <2>1, <2>2, <3>6
      <4> QED BY <2>2, <3>3, <3>4, <4>1
    <3> QED BY <2>1, <2>2, <3>3, <3>4, <3>5, <3>6
  <2> QED BY <2>3, <2>4
<1>7. n \in J
  <2>1. \A k \in 0 .. n : k \in J
    <3> HIDE DEF J, n
    <3> QED BY <1>4, <1>5, <1>6, UpTo
  <2>2. n \in 0 .. n
    BY <1>4
  <2> HIDE DEF J, n
  <2> QED BY <2>1, <2>2
<1>8. (\A i \in 1 .. n : text[i] # "0") => r[n] = text
  <2>1. r[n] \in Seq(S)
    <3>1. S \ {"0"} \subseteq S
      OBVIOUS
    <3> QED BY <1>7, <3>1, SeqMonotonic
  <2> QED BY <1>4, <1>7, <2>1, SeqEqual
<1> QED BY <1>3, <1>7, <1>8

------------------------------------------------------------------------------
(* The data.                                                               *)
FileChars == Chars \cup UNION {Range(t) : t \in Files}
Places == [inbuf : BOOLEAN, text : Seq(Chars), at : Int]
LLefts == Nat \cup {EOF_NLEFT}
Frames == [prevstring : Places, prevnleft : Int, prevlleft : LLefts, ap : AliasIds \cup {0}]
PFiles == [hasbuf : BOOLEAN, unread : Seq(FileChars), buf : Seq(FileChars), strpush : Seq(Frames),
           nextc : Places, nleft : Int, lleft : LLefts]
Entries == [name : Letters \cup {"", "free"}, val : Values \cup {<< >>}, inuse : BOOLEAN]

(* n characters can be read from a place on.                               *)
Reads(f, p, n) ==
  n > 0 => /\ p.at >= 1 /\ p.at + n - 1 <= Len(Text(f, p))
           /\ \A i \in p.at .. p.at + n - 1 : Text(f, p)[i] \in Chars

Ended(n) == n \in {EOF_NLEFT, EOF_NLEFT + 1}

(* The place in a file's or string's own text, and what follows it there.  *)
BaseGood(f, b) ==
  /\ Reads(f, b.place, b.nleft)
  /\ IF f.hasbuf
     THEN /\ b.place.inbuf
          /\ \/ /\ b.nleft >= 0
                /\ b.lleft > 0 => b.place.at + b.nleft >= 1 /\ b.place.at + b.nleft + b.lleft - 1 <= Len(f.buf)
             \/ Ended(b.nleft) /\ b.lleft = EOF_NLEFT /\ f.unread = << >>
     ELSE ~b.place.inbuf /\ b.nleft >= -2

StackGood(f) ==
  \A j \in DOMAIN f.strpush :
    /\ Reads(f, f.strpush[j].prevstring, f.strpush[j].prevnleft)
    /\ f.strpush[j].prevnleft >= 0 \/ (j = 1 /\ f.hasbuf /\ f.strpush[j].prevnleft = EOF_NLEFT + 1)

LevelGood(f, p, nleft, lleft) ==
  /\ f \in PFiles /\ p \in Places /\ nleft \in Int /\ lleft \in LLefts
  /\ Len(f.buf) <= Bufsiz
  /\ Reads(f, p, nleft)
  /\ BaseGood(f, Base(f, p, nleft, lleft))
  /\ f.strpush # << >> => nleft >= -1
  /\ StackGood(f)

------------------------------------------------------------------------------
(* Texts and places in them.                                               *)

LEMMA CharsFact == Chars \subseteq FileChars
BY DEF FileChars

LEMMA TextIs ==
  ASSUME NEW f \in PFiles, NEW p \in Places
  PROVE  Text(f, p) \in Seq(FileChars) /\ Len(Text(f, p)) \in Nat
<1>1. CASE p.inbuf
  BY <1>1 DEF Text, PFiles
<1>2. CASE ~p.inbuf
  <2>1. p.text \in Seq(Chars)
    BY DEF Places
  <2>2. p.text \in Seq(FileChars)
    BY <2>1, CharsFact, SeqMonotonic
  <2> QED BY <1>2, <2>2 DEF Text
<1> QED BY <1>1, <1>2

LEMMA SliceIs ==
  ASSUME NEW f \in PFiles, NEW p \in Places, NEW n \in Int, Reads(f, p, n)
  PROVE  /\ Slice(f, p, n) \in Seq(Chars)
         /\ Slice(f, p, n) \in Seq(FileChars)
         /\ Len(Slice(f, p, n)) = IF n > 0 THEN n ELSE 0
         /\ n <= 0 => Slice(f, p, n) = << >>
<1> DEFINE at == p.at
           to == p.at + n - 1
           t == Text(f, p)
<1>1. at \in Int /\ to \in Int
  BY DEF Places
<1>2. \A i \in at .. to : t[i] \in Chars
  <2>1. CASE n > 0
    BY <2>1 DEF Reads
  <2>2. CASE n <= 0
    BY <1>1, <2>2
  <2> QED BY <2>1, <2>2
<1>3. Slice(f, p, n) = SubSeq(t, at, to)
  BY DEF Slice
<1>4. SubSeq(t, at, to) \in Seq(Chars) /\ Len(SubSeq(t, at, to)) = IF at <= to THEN to - at + 1 ELSE 0
  <2> HIDE DEF t, at, to
  <2> QED BY <1>1, <1>2, SubSeqProperties
<1>5. (at <= to <=> n > 0) /\ to - at + 1 = n
  BY <1>1
<1>6. n <= 0 => SubSeq(t, at, to) = << >>
  <2> HAVE n <= 0
  <2>1. to < at
    BY <1>1, <1>5
  <2> HIDE DEF t, at, to
  <2> QED BY <1>1, <2>1, SubSeqEmpty
<1>7. SubSeq(t, at, to) \in Seq(FileChars)
  <2> HIDE DEF t, at, to
  <2> QED BY <1>4, CharsFact, SeqMonotonic
<1> HIDE DEF t, at, to
<1> QED BY <1>3, <1>4, <1>5, <1>6, <1>7

(* A base, as a record.                                                    *)
Bases == [place : Places, nleft : Int, lleft : LLefts]

LinesAt(b) == [b.place EXCEPT !.at = @ + IF b.nleft > 0 THEN b.nleft ELSE 0]

LEMMA LinesIs ==
  ASSUME NEW f \in PFiles, NEW b \in Bases, BaseGood(f, b)
  PROVE  /\ Lines(f, b) \in Seq(FileChars)
         /\ ~f.hasbuf => Lines(f, b) = << >>
         /\ f.hasbuf => /\ Lines(f, b) = Slice(f, LinesAt(b), b.lleft) \o f.unread
                        /\ Slice(f, LinesAt(b), b.lleft) \in Seq(FileChars)
                        /\ b.lleft <= 0 => Lines(f, b) = f.unread
<1>1. CASE ~f.hasbuf
  <2>1. Lines(f, b) = << >>
    BY <1>1 DEF Lines
  <2> QED BY <1>1, <2>1, EmptySeq
<1>2. CASE f.hasbuf
  <2> DEFINE q == LinesAt(b)
             at == q.at
             to == q.at + b.lleft - 1
             t == Text(f, q)
  <2>1. q \in Places /\ at \in Int /\ to \in Int /\ b.lleft \in Int /\ q.inbuf
    BY <1>2 DEF LinesAt, Places, Bases, LLefts, EOF_NLEFT, BaseGood
  <2>2. t = f.buf /\ t \in Seq(FileChars) /\ Len(t) \in Nat
    BY <2>1 DEF Text, PFiles
  <2>3. \A i \in at .. to : t[i] \in FileChars
    <3>1. CASE b.lleft > 0
      <4>1. b.nleft >= 0 /\ b.place.at + b.nleft >= 1 /\ b.place.at + b.nleft + b.lleft - 1 <= Len(f.buf)
        BY <1>2, <3>1 DEF BaseGood, EOF_NLEFT
      <4>2. at = b.place.at + b.nleft /\ b.nleft \in Int /\ b.place.at \in Int
        BY <4>1 DEF LinesAt, Bases, Places
      <4>3. at >= 1 /\ to <= Len(t)
        BY <2>1, <2>2, <4>1, <4>2
      <4> HIDE DEF at, to, t
      <4> QED BY <2>1, <2>2, <4>3
    <3>2. CASE b.lleft <= 0
      BY <2>1, <3>2
    <3> QED BY <2>1, <3>1, <3>2
  <2>4. Slice(f, q, b.lleft) = SubSeq(t, at, to)
    BY DEF Slice
  <2>5. SubSeq(t, at, to) \in Seq(FileChars)
    <3> HIDE DEF at, to, t
    <3> QED BY <2>1, <2>3, SubSeqProperties
  <2>6. b.lleft <= 0 => SubSeq(t, at, to) = << >>
    <3> HAVE b.lleft <= 0
    <3>1. to < at
      BY <2>1
    <3> HIDE DEF at, to, t
    <3> QED BY <2>1, <3>1, SubSeqEmpty
  <2>7. f.unread \in Seq(FileChars)
    BY DEF PFiles
  <2>8. Lines(f, b) = Slice(f, q, b.lleft) \o f.unread
    BY <1>2 DEF Lines, LinesAt
  <2> HIDE DEF q, at, to, t
  <2>9. Lines(f, b) \in Seq(FileChars)
    BY <2>4, <2>5, <2>7, <2>8, ConcatProperties
  <2>10. b.lleft <= 0 => Lines(f, b) = f.unread
    BY <2>4, <2>6, <2>7, <2>8, ConcatEmptySeq
  <2> QED BY <1>2, <2>4, <2>5, <2>8, <2>9, <2>10 DEF q
<1> QED BY <1>1, <1>2

BelowRun(f, b) ==
  CHOOSE r : r = [j \in 0 .. Len(f.strpush) |->
                    IF j = 0 THEN Lines(f, b)
                    ELSE Slice(f, f.strpush[j].prevstring, f.strpush[j].prevnleft) \o r[j - 1]]

LEMMA BelowIs ==
  ASSUME NEW f \in PFiles, NEW b \in Bases, BaseGood(f, b), StackGood(f)
  PROVE  /\ Below(f, b)[0] = Lines(f, b)
         /\ \A j \in 1 .. Len(f.strpush) :
              Below(f, b)[j] = Slice(f, f.strpush[j].prevstring, f.strpush[j].prevnleft) \o Below(f, b)[j - 1]
         /\ \A j \in 0 .. Len(f.strpush) : Below(f, b)[j] \in Seq(FileChars)
<1> DEFINE n == Len(f.strpush)
           Q == Seq(FileChars)
           L == Lines(f, b)
           G(j) == Slice(f, f.strpush[j].prevstring, f.strpush[j].prevnleft)
<1>1. n \in Nat /\ DOMAIN f.strpush = 1 .. n /\ \A j \in 1 .. n : f.strpush[j] \in Frames
  BY DEF PFiles
<1>2. \A j \in 1 .. n : G(j) \in Q
  <2> TAKE j \in 1 .. n
  <2>1. /\ f.strpush[j].prevstring \in Places /\ f.strpush[j].prevnleft \in Int
        /\ Reads(f, f.strpush[j].prevstring, f.strpush[j].prevnleft)
    BY <1>1 DEF Frames, StackGood
  <2> QED BY <2>1, SliceIs
<1>3. L \in Q
  BY LinesIs
<1>4. PICK F : F = [p \in (1 .. n) \X Q |-> G(p[1]) \o p[2]]
  OBVIOUS
<1>5. F \in [(1 .. n) \X Q -> Q]
  <2>1. ASSUME NEW p \in (1 .. n) \X Q PROVE G(p[1]) \o p[2] \in Q
    <3>1. p[1] \in 1 .. n /\ p[2] \in Q
      OBVIOUS
    <3>2. G(p[1]) \in Q
      BY <1>2, <3>1
    <3> HIDE DEF G
    <3> QED BY <3>1, <3>2, ConcatProperties
  <2> HIDE DEF Q, n, G
  <2> QED BY <1>4, <2>1
<1>6. PICK d \in [0 .. n -> Q] : RunOf(n, L, F, d)
  <2> HIDE DEF Q, n, L
  <2> QED BY <1>1, <1>3, <1>5, Iterates
<1>7. \A k \in 0 .. n : k # 0 => F[<<k, d[k - 1]>>] = G(k) \o d[k - 1]
  <2> HIDE DEF Q, n, G
  <2> TAKE k \in 0 .. n
  <2> HAVE k # 0
  <2>1. k \in 1 .. n /\ k - 1 \in 0 .. n
    BY <1>1
  <2>2. d[k - 1] \in Q
    BY <1>6, <2>1
  <2>3. <<k, d[k - 1]>> \in (1 .. n) \X Q
    BY <2>1, <2>2
  <2> QED BY <1>4, <2>3
<1>8. d = [k \in 0 .. n |-> IF k = 0 THEN L ELSE G(k) \o d[k - 1]]
  <2>1. \A k \in 0 .. n : d[k] = IF k = 0 THEN L ELSE G(k) \o d[k - 1]
    <3> HIDE DEF Q, n, G, L
    <3> TAKE k \in 0 .. n
    <3>1. d[k] = IF k = 0 THEN L ELSE F[<<k, d[k - 1]>>]
      BY <1>6 DEF RunOf
    <3> QED BY <1>7, <3>1
  <2> HIDE DEF Q, n, G, L
  <2> QED BY <1>6, <2>1
<1>9. PICK r : r = BelowRun(f, b)
  OBVIOUS
<1>10. r = [k \in 0 .. n |-> IF k = 0 THEN L ELSE G(k) \o r[k - 1]]
  <2>1. \E e : e = [k \in 0 .. n |-> IF k = 0 THEN L ELSE G(k) \o e[k - 1]]
    <3> HIDE DEF n, L, G
    <3> QED BY <1>8, Zenon
  <2> QED BY <1>9, <2>1, Zenon DEF BelowRun
<1>11. \A k \in 0 .. n : r[k] = IF k = 0 THEN L ELSE G(k) \o r[k - 1]
  <2> HIDE DEF n, L, G
  <2> QED BY <1>10, Zenon
<1>12. Below(f, b) = r
  BY <1>9 DEF Below, BelowRun
<1>13. r[0] = L
  <2>1. 0 \in 0 .. n
    BY <1>1
  <2> HIDE DEF n, L, G
  <2> QED BY <1>11, <2>1
<1>14. \A k \in 1 .. n : r[k] = G(k) \o r[k - 1]
  <2> TAKE k \in 1 .. n
  <2>1. k \in 0 .. n /\ k # 0
    BY <1>1
  <2> HIDE DEF n, L, G
  <2> QED BY <1>11, <2>1
<1>15. \A k \in 0 .. n : r[k] \in Q
  <2> DEFINE J == {k \in 0 .. n : r[k] \in Q}
  <2>1. 0 \in J
    BY <1>1, <1>3, <1>13
  <2>2. ASSUME NEW k \in 1 .. n, k - 1 \in J PROVE k \in J
    <3>1. G(k) \in Q /\ r[k - 1] \in Q /\ r[k] = G(k) \o r[k - 1]
      BY <1>2, <1>14, <2>2
    <3>2. k \in 0 .. n
      BY <1>1
    <3>3. r[k] \in Q
      <4> HIDE DEF G, J
      <4> QED BY <3>1, ConcatProperties
    <3> QED BY <3>2, <3>3
  <2>3. \A k \in 0 .. n : k \in J
    <3> HIDE DEF J, n, Q
    <3> QED BY <1>1, <2>1, <2>2, UpTo
  <2> QED BY <2>3
<1> QED BY <1>12, <1>13, <1>14, <1>15

------------------------------------------------------------------------------
(* Reading.                                                                *)
Got == Chars \cup {PEOF, PFAKE, NoChar}
Recs == [file : PFiles, nextc : Places, nleft : Int, lleft : LLefts,
         atab : [AliasIds -> Entries], check : BOOLEAN, c : Got, block : Nat \ {0}]

PendL(f, p, nleft, lleft) == Slice(f, p, nleft) \o Below(f, Base(f, p, nleft, lleft))[Len(f.strpush)]

Level(s) == LevelGood(s.file, s.nextc, s.nleft, s.lleft)
Left(s) == PendL(s.file, s.nextc, s.nleft, s.lleft)

LEMMA FileIs ==
  ASSUME NEW f \in PFiles
  PROVE  /\ Len(f.strpush) \in Nat /\ DOMAIN f.strpush = 1 .. Len(f.strpush)
         /\ \A j \in 1 .. Len(f.strpush) : f.strpush[j] \in Frames
         /\ f.strpush # << >> <=> Len(f.strpush) >= 1
         /\ f.buf \in Seq(FileChars) /\ f.unread \in Seq(FileChars)
         /\ Len(f.buf) \in Nat /\ Len(f.unread) \in Nat
BY DEF PFiles

LEMMA BaseIs ==
  ASSUME NEW f \in PFiles, NEW p \in Places, NEW nleft \in Int, NEW lleft \in LLefts
  PROVE  Base(f, p, nleft, lleft) \in Bases
<1>1. CASE f.strpush = << >>
  BY <1>1 DEF Base, Bases
<1>2. CASE f.strpush # << >>
  <2>1. f.strpush[1] \in Frames
    BY <1>2, FileIs
  <2> QED BY <1>2, <2>1 DEF Base, Bases, Frames
<1> QED BY <1>1, <1>2

LEMMA CatIs ==
  \A x, y \in Seq(FileChars) : x \o y \in Seq(FileChars) /\ << >> \o x = x /\ x \o << >> = x
<1> TAKE x, y \in Seq(FileChars)
<1>1. x \o y \in Seq(FileChars)
  BY ConcatProperties
<1>2. << >> \o x = x /\ x \o << >> = x
  BY ConcatEmptySeq
<1> QED BY <1>1, <1>2

LEMMA CatAssoc ==
  \A x, y, z \in Seq(FileChars) : (x \o y) \o z = x \o (y \o z)
<1> TAKE x, y, z \in Seq(FileChars)
<1> QED BY ConcatAssociative

LEMMA PendIs ==
  ASSUME NEW f, NEW p, NEW nleft, NEW lleft, LevelGood(f, p, nleft, lleft)
  PROVE  /\ PendL(f, p, nleft, lleft) \in Seq(FileChars)
         /\ Below(f, Base(f, p, nleft, lleft))[Len(f.strpush)] \in Seq(FileChars)
         /\ nleft <= 0 => PendL(f, p, nleft, lleft) = Below(f, Base(f, p, nleft, lleft))[Len(f.strpush)]
<1>1. /\ f \in PFiles /\ p \in Places /\ nleft \in Int /\ lleft \in LLefts
      /\ Reads(f, p, nleft) /\ BaseGood(f, Base(f, p, nleft, lleft)) /\ StackGood(f)
  BY DEF LevelGood
<1>2. PICK b : b = Base(f, p, nleft, lleft)
  OBVIOUS
<1>3. b \in Bases /\ BaseGood(f, b)
  BY <1>1, <1>2, BaseIs
<1>4. Len(f.strpush) \in 0 .. Len(f.strpush)
  BY <1>1, FileIs
<1>5. Below(f, b)[Len(f.strpush)] \in Seq(FileChars)
  BY <1>1, <1>3, <1>4, BelowIs
<1>6. Slice(f, p, nleft) \in Seq(FileChars) /\ (nleft <= 0 => Slice(f, p, nleft) = << >>)
  BY <1>1, SliceIs
<1>7. PendL(f, p, nleft, lleft) = Slice(f, p, nleft) \o Below(f, b)[Len(f.strpush)]
  BY <1>2 DEF PendL
<1>8. PICK x, y : x = Slice(f, p, nleft) /\ y = Below(f, b)[Len(f.strpush)]
  OBVIOUS
<1>9. x \in Seq(FileChars) /\ y \in Seq(FileChars) /\ (nleft <= 0 => x = << >>) /\ PendL(f, p, nleft, lleft) = x \o y
  BY <1>5, <1>6, <1>7, <1>8
<1>10. x \o y \in Seq(FileChars) /\ << >> \o y = y
  BY <1>9, CatIs, Zenon
<1> QED BY <1>2, <1>8, <1>9, <1>10

(* The stack up to a place decides what is left below.                     *)
LEMMA BelowSame ==
  ASSUME NEW f \in PFiles, NEW g \in PFiles, NEW b \in Bases,
         BaseGood(f, b), StackGood(f), BaseGood(g, b), StackGood(g),
         f.buf = g.buf, f.unread = g.unread, f.hasbuf = g.hasbuf,
         NEW m \in Nat, m <= Len(f.strpush), m <= Len(g.strpush),
         \A j \in 1 .. m : f.strpush[j] = g.strpush[j]
  PROVE  \A j \in 0 .. m : Below(f, b)[j] = Below(g, b)[j]
<1>1. Lines(f, b) = Lines(g, b)
  BY DEF Lines, Slice, Text
<1>2. ASSUME NEW p, NEW n PROVE Slice(f, p, n) = Slice(g, p, n)
  BY DEF Slice, Text
<1> DEFINE J == {j \in 0 .. m : Below(f, b)[j] = Below(g, b)[j]}
<1>3. 0 \in J
  <2>1. Below(f, b)[0] = Lines(f, b) /\ Below(g, b)[0] = Lines(g, b)
    BY BelowIs
  <2> QED BY <1>1, <2>1
<1>4. ASSUME NEW j \in 1 .. m, j - 1 \in J PROVE j \in J
  <2>1. j \in 1 .. Len(f.strpush) /\ j \in 1 .. Len(g.strpush) /\ j \in 0 .. m
    BY FileIs
  <2>2. Below(f, b)[j] = Slice(f, f.strpush[j].prevstring, f.strpush[j].prevnleft) \o Below(f, b)[j - 1]
    BY <2>1, BelowIs
  <2>3. Below(g, b)[j] = Slice(g, g.strpush[j].prevstring, g.strpush[j].prevnleft) \o Below(g, b)[j - 1]
    BY <2>1, BelowIs
  <2> QED BY <1>2, <1>4, <2>1, <2>2, <2>3
<1>5. \A j \in 0 .. m : j \in J
  <2> HIDE DEF J
  <2> QED BY <1>3, <1>4, UpTo
<1> QED BY <1>5

(* One character is taken from the current line, or put back.              *)
After(p) == [p EXCEPT !.at = @ + 1]

LEMMA OneTaken ==
  ASSUME NEW f, NEW p, NEW n, NEW lleft, LevelGood(f, p, n, lleft), n >= 1
  PROVE  /\ LevelGood(f, After(p), n - 1, lleft)
         /\ Text(f, p)[p.at] \in Chars
         /\ PendL(f, p, n, lleft) = <<Text(f, p)[p.at]>> \o PendL(f, After(p), n - 1, lleft)
<1>1. /\ f \in PFiles /\ p \in Places /\ n \in Int /\ lleft \in LLefts /\ Len(f.buf) <= Bufsiz
      /\ Reads(f, p, n) /\ BaseGood(f, Base(f, p, n, lleft)) /\ StackGood(f)
  BY DEF LevelGood
<1> DEFINE q == After(p)
           t == Text(f, p)
<1>2. q \in Places /\ q.at = p.at + 1 /\ q.inbuf = p.inbuf /\ q.text = p.text /\ p.at \in Int /\ n - 1 \in Int
  BY <1>1 DEF After, Places
<1>3. Text(f, q) = t
  BY <1>2 DEF Text
<1>4. p.at >= 1 /\ p.at + n - 1 <= Len(t) /\ \A i \in p.at .. p.at + n - 1 : t[i] \in Chars
  BY DEF LevelGood, Reads
<1>5. t[p.at] \in Chars
  BY <1>1, <1>2, <1>4
<1>6. Reads(f, q, n - 1)
  <2>1. q.at >= 1 /\ q.at + (n - 1) - 1 = p.at + n - 1
    <3>1. PICK a, d : a = p.at /\ d = q.at
      OBVIOUS
    <3>2. a \in Int /\ d = a + 1 /\ a >= 1 /\ n \in Int
      BY <1>1, <1>2, <1>4, <3>1
    <3>3. d >= 1 /\ d + (n - 1) - 1 = a + n - 1
      BY ONLY <3>2
    <3> QED BY ONLY <3>1, <3>3
  <2>2. \A i \in q.at .. q.at + (n - 1) - 1 : i \in p.at .. p.at + n - 1
    BY <1>1, <1>2, <2>1
  <2> HIDE DEF t, q
  <2> QED BY <1>3, <1>4, <2>1, <2>2 DEF Reads
<1>7. PICK b, e : b = Base(f, p, n, lleft) /\ e = Base(f, q, n - 1, lleft)
  OBVIOUS
<1>8. b \in Bases /\ e \in Bases /\ BaseGood(f, b)
  <2> HIDE DEF q
  <2> QED BY <1>1, <1>2, <1>7, BaseIs
<1>9. BaseGood(f, e) /\ Below(f, e)[Len(f.strpush)] = Below(f, b)[Len(f.strpush)]
  <2>1. CASE f.strpush # << >>
    <3>1. e = b
      BY <1>7, <2>1 DEF Base
    <3> QED BY <1>8, <3>1
  <2>2. CASE f.strpush = << >>
    <3>1. b = [place |-> p, nleft |-> n, lleft |-> lleft] /\ e = [place |-> q, nleft |-> n - 1, lleft |-> lleft]
      BY <1>7, <2>2 DEF Base
    <3>2. ~Ended(n)
      BY <1>1 DEF Ended, EOF_NLEFT
    <3>3. q.at + (n - 1) = p.at + n /\ n - 1 >= 0 /\ n - 1 >= -2
      BY <1>1, <1>2
    <3>4. /\ b.place = p /\ b.nleft = n /\ b.lleft = lleft
          /\ e.place = q /\ e.nleft = n - 1 /\ e.lleft = lleft
      BY <3>1
    <3>5. BaseGood(f, e)
      <4> HIDE DEF q, t
      <4> QED BY <1>2, <1>6, <1>8, <3>2, <3>3, <3>4 DEF BaseGood
    <3>6. LinesAt(b) = LinesAt(e)
      <4>1. LinesAt(b) = [p EXCEPT !.at = p.at + n]
        BY <1>1, <3>4 DEF LinesAt
      <4>2. LinesAt(e) = [q EXCEPT !.at = q.at + (n - 1)]
        <5>1. n - 1 <= 0 => n - 1 = 0
          BY <3>3, <1>1
        <5> HIDE DEF q
        <5> QED BY <1>2, <3>4, <5>1 DEF LinesAt
      <4>3. [q EXCEPT !.at = q.at + (n - 1)] = [p EXCEPT !.at = q.at + (n - 1)]
        BY <1>1 DEF After, Places
      <4> QED BY <3>3, <4>1, <4>2, <4>3
    <3>7. Lines(f, b) = Lines(f, e)
      <4>1. ASSUME NEW x PROVE Lines(f, x) = IF f.hasbuf THEN Slice(f, LinesAt(x), x.lleft) \o f.unread ELSE << >>
        BY DEF Lines, LinesAt
      <4> QED BY <3>4, <3>6, <4>1
    <3>8. Len(f.strpush) = 0
      BY <2>2
    <3> QED BY <1>1, <1>8, <3>5, <3>7, <3>8, BelowIs
  <2> QED BY <2>1, <2>2
<1>10. LevelGood(f, q, n - 1, lleft)
  <2>1. n - 1 >= -1
    BY <1>1
  <2> HIDE DEF q, t
  <2> QED BY <1>1, <1>2, <1>6, <1>7, <1>9, <2>1 DEF LevelGood
<1>11. Slice(f, p, n) = <<t[p.at]>> \o Slice(f, q, n - 1)
  <2>1. t \in Seq(FileChars)
    BY <1>1, TextIs
  <2>2. p.at \in 1 .. Len(t) /\ p.at + n - 1 \in p.at .. Len(t)
    <3> HIDE DEF t
    <3> QED BY <1>1, <1>2, <1>4
  <2>3. SubSeq(t, p.at, p.at + n - 1) = <<t[p.at]>> \o SubSeq(t, p.at + 1, p.at + n - 1)
    <3> HIDE DEF t
    <3> QED BY <2>1, <2>2, SubSeqRecursiveFirst
  <2>4. q.at + (n - 1) - 1 = p.at + n - 1
    BY <1>1, <1>2
  <2>5. Slice(f, q, n - 1) = SubSeq(t, q.at, q.at + (n - 1) - 1) /\ Slice(f, p, n) = SubSeq(t, p.at, p.at + n - 1)
    BY <1>3 DEF Slice
  <2> HIDE DEF t, q
  <2> QED BY <1>2, <2>3, <2>4, <2>5
<1>12. PendL(f, p, n, lleft) = <<t[p.at]>> \o PendL(f, q, n - 1, lleft)
  <2>1. PICK x, y, z : x = <<t[p.at]>> /\ y = Slice(f, q, n - 1) /\ z = Below(f, b)[Len(f.strpush)]
    OBVIOUS
  <2>2. PendL(f, p, n, lleft) = (x \o y) \o z
    BY <1>7, <1>11, <2>1 DEF PendL
  <2>3. PendL(f, q, n - 1, lleft) = y \o z
    BY <1>7, <1>9, <2>1 DEF PendL
  <2>4. x \in Seq(FileChars)
    BY <1>5, <2>1, CharsFact
  <2>5. y \in Seq(FileChars)
    <3> HIDE DEF q
    <3> QED BY <1>1, <1>2, <1>6, <2>1, SliceIs
  <2>6. z \in Seq(FileChars)
    BY <1>7, <2>1, PendIs
  <2> HIDE DEF q, t
  <2>7. (x \o y) \o z = x \o (y \o z)
    BY <2>4, <2>5, <2>6, CatAssoc, Zenon
  <2> QED BY <2>1, <2>2, <2>3, <2>7, Zenon
<1> QED BY <1>5, <1>10, <1>12

LEMMA RecIs ==
  ASSUME NEW s \in Recs
  PROVE  /\ s.file \in PFiles /\ s.nextc \in Places /\ s.nleft \in Int /\ s.lleft \in LLefts
         /\ s.atab \in [AliasIds -> Entries] /\ s.check \in BOOLEAN /\ s.c \in Got
         /\ s.block \in Nat \ {0} /\ s.lleft \in Int
BY DEF Recs, LLefts, EOF_NLEFT

(* What reading leaves alone.                                              *)
Same(s, r) == r.atab = s.atab /\ r.check = s.check /\ r.block = s.block

LEMMA TakeIs ==
  ASSUME NEW s \in Recs, s.nleft >= 0, LevelGood(s.file, s.nextc, s.nleft + 1, s.lleft),
         NEW r, r = Take(s)
  PROVE  /\ r \in Recs /\ Level(r) /\ Same(s, r)
         /\ r.file = s.file /\ r.nleft = s.nleft /\ r.lleft = s.lleft /\ r.nextc = After(s.nextc)
         /\ r.c \in Chars
         /\ PendL(s.file, s.nextc, s.nleft + 1, s.lleft) = <<r.c>> \o Left(r)
<1>1. s.nleft + 1 >= 1 /\ (s.nleft + 1) - 1 = s.nleft
  BY RecIs
<1>2. PICK ch : ch = Text(s.file, s.nextc)[s.nextc.at]
  OBVIOUS
<1>3. /\ LevelGood(s.file, After(s.nextc), s.nleft, s.lleft) /\ ch \in Chars
      /\ PendL(s.file, s.nextc, s.nleft + 1, s.lleft) = <<ch>> \o PendL(s.file, After(s.nextc), s.nleft, s.lleft)
  BY <1>1, <1>2, OneTaken
<1>4. r = [s EXCEPT !.c = ch, !.nextc = After(s.nextc)]
  BY <1>2 DEF Take, After, Recs, Places
<1>5. After(s.nextc) \in Places
  BY <1>3 DEF LevelGood
<1>6. /\ r.file = s.file /\ r.nleft = s.nleft /\ r.lleft = s.lleft /\ r.nextc = After(s.nextc) /\ r.c = ch
      /\ r.atab = s.atab /\ r.check = s.check /\ r.block = s.block
  BY <1>4 DEF Recs
<1>7. r \in Recs
  BY <1>3, <1>4, <1>5 DEF Recs, Got
<1> QED BY <1>3, <1>6, <1>7 DEF Level, Left, Same

(* pungetc undoes it.                                                      *)
LEMMA UngetIs ==
  ASSUME NEW r \in Recs, NEW u, u = pungetc(r)
  PROVE  /\ u \in Recs /\ Same(r, u) /\ u.file = r.file /\ u.nleft = r.nleft + 1 /\ u.lleft = r.lleft
         /\ u.nextc = [r.nextc EXCEPT !.at = @ - 1] /\ u.c = NoChar
<1>1. u = [r EXCEPT !.nleft = r.nleft + 1, !.nextc = [r.nextc EXCEPT !.at = @ - 1], !.c = NoChar]
  BY DEF pungetc, Recs
<1>2. [r.nextc EXCEPT !.at = @ - 1] \in Places
  BY RecIs DEF Places
<1>3. u \in Recs
  <2>1. PICK p, n : p = [r.nextc EXCEPT !.at = @ - 1] /\ n = r.nleft + 1
    OBVIOUS
  <2>2. p \in Places /\ n \in Int /\ NoChar \in Got
    BY <1>2, <2>1, RecIs DEF Got
  <2>3. u = [r EXCEPT !.nleft = n, !.nextc = p, !.c = NoChar]
    BY <1>1, <2>1
  <2> QED BY <2>2, <2>3 DEF Recs
<1> QED BY <1>1, <1>3 DEF Recs, Same

LEMMA UngetTaken ==
  ASSUME NEW s \in Recs, NEW r \in Recs, r.file = s.file, r.nleft = s.nleft, r.lleft = s.lleft,
         r.nextc = After(s.nextc), NEW u, u = pungetc(r)
  PROVE  u.file = s.file /\ u.nextc = s.nextc /\ u.nleft = s.nleft + 1 /\ u.lleft = s.lleft
<1>1. u.file = r.file /\ u.nleft = r.nleft + 1 /\ u.lleft = r.lleft /\ u.nextc = [r.nextc EXCEPT !.at = @ - 1]
  BY UngetIs
<1>2. [After(s.nextc) EXCEPT !.at = @ - 1] = s.nextc
  <2>1. PICK p : p = s.nextc
    OBVIOUS
  <2>2. p \in Places /\ (p.at + 1) - 1 = p.at
    BY <2>1, RecIs DEF Places
  <2>3. [p EXCEPT !.at = p.at] = p
    BY <2>2 DEF Places
  <2>4. [After(p) EXCEPT !.at = @ - 1] = [p EXCEPT !.at = (p.at + 1) - 1]
    BY <2>2 DEF After, Places
  <2> QED BY <2>1, <2>2, <2>3, <2>4
<1> QED BY <1>1, <1>2

------------------------------------------------------------------------------
(* Strings are popped.                                                     *)
Cleared(table, S) == [a \in AliasIds |-> IF a \in S THEN [table[a] EXCEPT !.inuse = FALSE] ELSE table[a]]
ApsFrom(stack, m) == {stack[j].ap : j \in m + 1 .. Len(stack)}

Popping(s, r) ==
  \E m \in 0 .. Len(s.file.strpush) :
    /\ r.file.strpush = SubSeq(s.file.strpush, 1, m)
    /\ r.atab = Cleared(s.atab, ApsFrom(s.file.strpush, m))

LEMMA ClearedIs ==
  ASSUME NEW table \in [AliasIds -> Entries], NEW S
  PROVE  Cleared(table, S) \in [AliasIds -> Entries]
BY DEF Cleared, Entries

LEMMA FrontIs ==
  ASSUME NEW S, NEW x \in Seq(S), NEW m \in 0 .. Len(x)
  PROVE  /\ SubSeq(x, 1, m) \in Seq(S) /\ Len(SubSeq(x, 1, m)) = m
         /\ \A j \in 1 .. m : SubSeq(x, 1, m)[j] = x[j]
         /\ SubSeq(x, 1, m) = << >> <=> m = 0
<1>1. /\ SubSeq(x, 1, m) \in Seq(S) /\ Len(SubSeq(x, 1, m)) = (IF 1 <= m THEN m - 1 + 1 ELSE 0)
      /\ \A j \in 1 .. m - 1 + 1 : SubSeq(x, 1, m)[j] = x[1 + j - 1]
  <2>1. m \in Int /\ 1 \in Int /\ \A j \in 1 .. m : x[j] \in S
    OBVIOUS
  <2> QED BY <2>1, SubSeqProperties
<1> QED BY <1>1

PoppedIs(s, b, k, r) ==
  LET n == Len(s.file.strpush) IN
  /\ r \in Recs /\ Level(r) /\ r.block = s.block
  /\ r.file = [s.file EXCEPT !.strpush = SubSeq(s.file.strpush, 1, n - k)]
  /\ r.file.strpush = SubSeq(s.file.strpush, 1, n - k)
  /\ r.nleft = s.file.strpush[n - k + 1].prevnleft
  /\ r.atab = Cleared(s.atab, ApsFrom(s.file.strpush, n - k))
  /\ Left(r) = Below(s.file, b)[n - k + 1]

LEMMA PopIs ==
  ASSUME NEW s \in Recs, s.file.strpush # << >>, Len(s.file.buf) <= Bufsiz, StackGood(s.file),
         NEW b, b = Base(s.file, s.nextc, s.nleft, s.lleft), BaseGood(s.file, b),
         NEW k \in 1 .. Len(s.file.strpush), NEW r, r = popstring(s, k),
         NEW n, n = Len(s.file.strpush), NEW sp, sp = s.file.strpush[n - k + 1]
  PROVE  PoppedIs(s, b, k, r)
<1>0. PICK f, g, m : /\ f = s.file /\ m = n - k
                     /\ g = [s.file EXCEPT !.strpush = SubSeq(s.file.strpush, 1, n - k)]
  OBVIOUS
<1>1. /\ f \in PFiles /\ n \in Nat /\ \A j \in 1 .. n : f.strpush[j] \in Frames
      /\ m \in 0 .. n /\ m + 1 \in 1 .. n /\ m \in Nat /\ n - k + 1 = m + 1 /\ n - m = k /\ n >= 1
      /\ n = Len(f.strpush) /\ DOMAIN f.strpush = 1 .. n /\ BaseGood(f, b) /\ StackGood(f)
  <2>1. f \in PFiles /\ f.strpush # << >>
    BY <1>0, RecIs
  <2>2. /\ n = Len(f.strpush) /\ n \in Nat /\ \A j \in 1 .. n : f.strpush[j] \in Frames
        /\ DOMAIN f.strpush = 1 .. n /\ n >= 1
    BY <1>0, <2>1, FileIs
  <2>3. k \in 1 .. n
    OBVIOUS
  <2>4. m \in 0 .. n /\ m + 1 \in 1 .. n /\ m \in Nat /\ n - k + 1 = m + 1 /\ n - m = k
    <3>1. m = n - k /\ n \in Nat /\ k \in Nat /\ 1 <= k /\ k <= n
      BY <1>0, <2>2, <2>3
    <3> QED BY ONLY <3>1
  <2>5. BaseGood(f, b) /\ StackGood(f)
    BY <1>0
  <2> QED BY <2>1, <2>2, <2>4, <2>5
<1>2. /\ sp \in Frames /\ sp.prevstring \in Places /\ sp.prevnleft \in Int /\ sp.prevlleft \in LLefts
      /\ sp = f.strpush[m + 1]
  BY <1>0, <1>1 DEF Frames
<1>3. /\ Reads(f, sp.prevstring, sp.prevnleft)
      /\ sp.prevnleft >= 0 \/ (m + 1 = 1 /\ f.hasbuf /\ sp.prevnleft = EOF_NLEFT + 1)
  <2>1. m + 1 \in DOMAIN f.strpush
    BY <1>1, FileIs
  <2> QED BY <1>0, <1>2, <2>1 DEF StackGood
<1>4. f.strpush \in Seq(Frames)
  BY <1>1 DEF PFiles
<1>5. /\ SubSeq(f.strpush, 1, m) \in Seq(Frames) /\ Len(SubSeq(f.strpush, 1, m)) = m
      /\ \A j \in 1 .. m : SubSeq(f.strpush, 1, m)[j] = f.strpush[j]
      /\ SubSeq(f.strpush, 1, m) = << >> <=> m = 0
  BY <1>1, <1>4, FrontIs
<1>6. /\ g \in PFiles /\ g.strpush = SubSeq(f.strpush, 1, m) /\ g.buf = f.buf /\ g.unread = f.unread
      /\ g.hasbuf = f.hasbuf
  BY <1>0, <1>1, <1>5 DEF PFiles
<1>7. ASSUME NEW q, NEW i PROVE Slice(g, q, i) = Slice(f, q, i) /\ (Reads(g, q, i) <=> Reads(f, q, i))
  BY <1>6 DEF Slice, Text, Reads
<1>8. StackGood(g)
  <2>1. ASSUME NEW j \in DOMAIN g.strpush
        PROVE  /\ Reads(g, g.strpush[j].prevstring, g.strpush[j].prevnleft)
               /\ g.strpush[j].prevnleft >= 0 \/ (j = 1 /\ g.hasbuf /\ g.strpush[j].prevnleft = EOF_NLEFT + 1)
    <3>1. j \in 1 .. m
      BY <1>5, <1>6
    <3>2. j \in DOMAIN f.strpush /\ g.strpush[j] = f.strpush[j]
      BY <1>1, <1>5, <1>6, <3>1, FileIs
    <3>3. /\ Reads(f, f.strpush[j].prevstring, f.strpush[j].prevnleft)
          /\ f.strpush[j].prevnleft >= 0 \/ (j = 1 /\ f.hasbuf /\ f.strpush[j].prevnleft = EOF_NLEFT + 1)
      BY <1>0, <3>2 DEF StackGood
    <3> QED BY <1>6, <1>7, <3>2, <3>3
  <2> QED BY <2>1 DEF StackGood
<1>9. Base(g, sp.prevstring, sp.prevnleft, sp.prevlleft) = b
  <2>1. b = [place |-> f.strpush[1].prevstring, nleft |-> f.strpush[1].prevnleft, lleft |-> f.strpush[1].prevlleft]
    BY <1>0 DEF Base
  <2>2. CASE m = 0
    BY <1>2, <1>5, <1>6, <2>1, <2>2 DEF Base
  <2>3. CASE m # 0
    <3>1. g.strpush # << >> /\ g.strpush[1] = f.strpush[1]
      <4>1. 1 \in 1 .. m
        BY <1>1, <2>3
      <4>2. PICK x : x = SubSeq(f.strpush, 1, m)
        OBVIOUS
      <4>3. x # << >> /\ x[1] = f.strpush[1]
        BY <1>5, <2>3, <4>1, <4>2
      <4> QED BY <1>6, <4>2, <4>3
    <3> QED BY <2>1, <3>1 DEF Base
  <2> QED BY <2>2, <2>3
<1>10. BaseGood(g, b)
  BY <1>0, <1>6, <1>7 DEF BaseGood
<1>11. LevelGood(g, sp.prevstring, sp.prevnleft, sp.prevlleft)
  <2>1. g.strpush # << >> => sp.prevnleft >= 0 /\ sp.prevnleft >= -1
    <3> HAVE g.strpush # << >>
    <3>1. m # 0 /\ m + 1 # 1
      BY <1>1, <1>5, <1>6
    <3> QED BY <1>2, <1>3, <3>1
  <2> QED BY <1>0, <1>2, <1>3, <1>6, <1>7, <1>8, <1>9, <1>10, <2>1 DEF LevelGood
<1>12. PendL(g, sp.prevstring, sp.prevnleft, sp.prevlleft) = Below(f, b)[m + 1]
  <2>1. b \in Bases
    BY RecIs, BaseIs
  <2>2. \A j \in 0 .. m : Below(g, b)[j] = Below(f, b)[j]
    <3>1. m <= Len(f.strpush) /\ m <= Len(g.strpush) /\ \A j \in 1 .. m : g.strpush[j] = f.strpush[j]
      BY <1>1, <1>5, <1>6
    <3> QED BY <1>1, <1>6, <1>8, <1>10, <2>1, <3>1, BelowSame
  <2>3. Below(g, b)[Len(g.strpush)] = Below(f, b)[m]
    BY <1>1, <1>5, <1>6, <2>2
  <2>4. Below(f, b)[m + 1] = Slice(f, sp.prevstring, sp.prevnleft) \o Below(f, b)[(m + 1) - 1]
    <3> QED BY <1>1, <1>2, <2>1, BelowIs
  <2>5. (m + 1) - 1 = m
    BY <1>1
  <2> QED BY <1>7, <1>9, <2>3, <2>4, <2>5 DEF PendL
<1> DEFINE aps == {f.strpush[j].ap : j \in m + 1 .. Len(f.strpush)}
           chk == s.check \/ \E a \in aps \ {0} : EndsInBlank(s.atab[a].val)
<1>13. r = [s EXCEPT !.nextc = sp.prevstring, !.nleft = sp.prevnleft, !.lleft = sp.prevlleft,
                     !.file = g, !.check = chk, !.atab = Cleared(s.atab, aps)]
  <2>1. k # 0
    OBVIOUS
  <2>2. \A a \in AliasIds : a \in aps \ {0} <=> a \in aps
    BY DEF AliasIds
  <2>3. Cleared(s.atab, aps) =
          [a \in AliasIds |-> IF a \in aps \ {0} THEN [s.atab[a] EXCEPT !.inuse = FALSE] ELSE s.atab[a]]
    BY <2>2 DEF Cleared
  <2>4. popstring(s, k) =
          [s EXCEPT !.nextc = f.strpush[m + 1].prevstring, !.nleft = f.strpush[m + 1].prevnleft,
                    !.lleft = f.strpush[m + 1].prevlleft, !.file = g, !.check = chk,
                    !.atab = [a \in AliasIds |-> IF a \in aps \ {0} THEN [s.atab[a] EXCEPT !.inuse = FALSE] ELSE s.atab[a]]]
    BY <1>0, <1>1, <2>1 DEF popstring, Recs
  <2> HIDE DEF aps, chk
  <2> QED BY <1>2, <2>3, <2>4
<1>14. /\ r.file = g /\ r.nextc = sp.prevstring /\ r.nleft = sp.prevnleft /\ r.lleft = sp.prevlleft
       /\ r.atab = Cleared(s.atab, aps) /\ r.block = s.block
  <2> HIDE DEF aps, chk
  <2> QED BY <1>13 DEF Recs
<1>15. r \in Recs
  <2>1. Cleared(s.atab, aps) \in [AliasIds -> Entries]
    <3> HIDE DEF aps
    <3> QED BY RecIs, ClearedIs
  <2>2. chk \in BOOLEAN
    BY RecIs
  <2> HIDE DEF aps, chk
  <2> QED BY <1>2, <1>6, <1>13, <2>1, <2>2 DEF Recs
<1>17. aps = ApsFrom(s.file.strpush, m)
  BY <1>0 DEF ApsFrom
<1> HIDE DEF aps
<1>18. Level(r) /\ Left(r) = Below(s.file, b)[n - k + 1]
  BY <1>0, <1>1, <1>11, <1>12, <1>14 DEF Level, Left
<1>19. /\ r.file = [s.file EXCEPT !.strpush = SubSeq(s.file.strpush, 1, n - k)]
       /\ r.file.strpush = SubSeq(s.file.strpush, 1, n - k)
       /\ r.atab = Cleared(s.atab, ApsFrom(s.file.strpush, n - k))
  BY <1>0, <1>6, <1>14, <1>17
<1>20. r.nleft = s.file.strpush[n - k + 1].prevnleft
  BY <1>14
<1> QED BY <1>14, <1>15, <1>18, <1>19, <1>20 DEF PoppedIs

------------------------------------------------------------------------------
(* Blocks are read, and lines are made readable.                           *)
InBlock(t) ==
  /\ t \in Recs /\ t.file.hasbuf /\ t.file.strpush = << >> /\ t.nextc.inbuf
  /\ Len(t.file.buf) <= Bufsiz /\ t.block <= Bufsiz
  /\ t.lleft > 0 => t.nextc.at >= 1 /\ t.nextc.at + t.lleft - 1 <= Len(t.file.buf)

Rest(t) == Slice(t.file, t.nextc, t.lleft) \o t.file.unread

Kept(t, r) == Same(t, r) /\ r.file.hasbuf /\ r.file.strpush = << >> /\ r.nextc.inbuf

LEMMA PreadIs ==
  ASSUME NEW t, InBlock(t), NEW r, r = preadfd(t)
  PROVE  /\ t.file.unread = << >> => r = [t EXCEPT !.nextc = InBuf(1), !.lleft = -1]
         /\ t.file.unread # << >> =>
              /\ InBlock(r) /\ Kept(t, r) /\ r.lleft > 0 /\ Rest(r) = t.file.unread
              /\ Len(r.file.unread) < Len(t.file.unread)
<1>1. PICK u, n : u = t.file.unread /\ n = Min({t.block, Len(u)})
  OBVIOUS
<1>2. t \in Recs /\ t.block \in Nat \ {0} /\ u \in Seq(FileChars) /\ Len(u) \in Nat /\ t.block <= Bufsiz
  BY <1>1, RecIs, FileIs DEF InBlock
<1>3. n \in Nat /\ n <= Len(u) /\ n <= t.block /\ (n = Len(u) \/ n = t.block)
  <2>1. {t.block, Len(u)} \subseteq Nat /\ {t.block, Len(u)} # {}
    BY <1>2
  <2>2. n \in {t.block, Len(u)} /\ \A y \in {t.block, Len(u)} : n <= y
    BY <1>1, <2>1, MinIs
  <2> QED BY <1>2, <2>2
<1>4. u = << >> <=> n = 0
  BY <1>2, <1>3, EmptySeq
<1>5. CASE u = << >>
  <2>1. r = [[t EXCEPT !.nextc = InBuf(1)] EXCEPT !.lleft = -1]
    BY <1>1, <1>4, <1>5 DEF preadfd
  <2> QED BY <1>1, <1>5, <2>1
<1>6. CASE u # << >>
  <2>1. n >= 1 /\ n \in Nat /\ n \in 1 .. Len(u) /\ n \in 0 .. Len(u)
    BY <1>2, <1>3, <1>4, <1>6
  <2>2. PICK x, y : x = SubSeq(u, 1, n) /\ y = SubSeq(u, n + 1, Len(u))
    OBVIOUS
  <2>3. x \in Seq(FileChars) /\ Len(x) = n
    BY <1>2, <2>1, <2>2, FrontIs
  <2>4. y \in Seq(FileChars) /\ Len(y) < Len(u)
    <3>1. \A i \in n + 1 .. Len(u) : u[i] \in FileChars
      BY <1>2, <2>1
    <3>2. n + 1 \in Int /\ Len(u) \in Int
      BY <1>2, <2>1
    <3>3. y \in Seq(FileChars) /\ Len(y) = IF n + 1 <= Len(u) THEN Len(u) - (n + 1) + 1 ELSE 0
      BY <2>2, <3>1, <3>2, SubSeqProperties
    <3> QED BY <1>2, <2>1, <3>3
  <2>5. x \o y = u
    <3>1. 1 \in 1 .. Len(u) + 1 /\ n \in 1 - 1 .. Len(u) /\ Len(u) \in n .. Len(u)
      BY <1>2, <2>1
    <3>2. x \o y = SubSeq(u, 1, Len(u))
      BY <1>2, <2>2, <3>1, ConcatAdjacentSubSeq
    <3> QED BY <1>2, <3>2, SubSeqFull
  <2>6. PICK g : g = [t.file EXCEPT !.buf = x, !.unread = y]
    OBVIOUS
  <2>7. /\ g \in PFiles /\ g.buf = x /\ g.unread = y /\ g.hasbuf = t.file.hasbuf /\ g.strpush = t.file.strpush
    <3>1. t.file \in PFiles
      BY <1>2, RecIs
    <3> QED BY <2>3, <2>4, <2>6, <3>1 DEF PFiles
  <2>8. InBuf(1) \in Places /\ InBuf(1).inbuf /\ InBuf(1).at = 1
    BY DEF InBuf, Places
  <2>9. r = [t EXCEPT !.nextc = InBuf(1), !.file = g, !.lleft = n]
    <3>1. n # 0
      BY <2>1
    <3> QED BY <1>1, <1>2, <2>2, <2>6, <3>1 DEF preadfd, Recs
  <2>10. n \in LLefts
    BY <2>1 DEF LLefts
  <2>11. r.file = g /\ r.nextc = InBuf(1) /\ r.lleft = n /\ Same(t, r)
    BY <1>2, <2>9 DEF Recs, Same
  <2>12. r \in Recs
    BY <1>2, <2>7, <2>8, <2>9, <2>10 DEF Recs
  <2>13. InBlock(r) /\ Kept(t, r)
    <3>1. r.block = t.block
      BY <2>11 DEF Same
    <3>2. r.nextc.at >= 1 /\ r.nextc.at + r.lleft - 1 <= Len(r.file.buf) /\ Len(r.file.buf) <= Bufsiz
      <4>1. Bufsiz \in Nat
        BY InputConstants
      <4> QED BY <1>2, <1>3, <2>1, <2>3, <2>7, <2>8, <2>11, <4>1
    <3> QED BY <1>2, <2>7, <2>8, <2>11, <2>12, <3>1, <3>2 DEF InBlock, Kept
  <2>14. Rest(r) = u
    <3>1. Slice(g, InBuf(1), n) = SubSeq(x, 1, n)
      <4>1. 1 + n - 1 = n
        BY <2>1
      <4> QED BY <2>7, <2>8, <4>1 DEF Slice, Text
    <3>2. SubSeq(x, 1, n) = x
      BY <2>3, SubSeqFull
    <3> QED BY <2>5, <2>7, <2>11, <3>1, <3>2 DEF Rest
  <2>15. r.lleft > 0 /\ Len(r.file.unread) < Len(u)
    BY <2>1, <2>4, <2>7, <2>11
  <2> QED BY <1>1, <1>6, <2>13, <2>14, <2>15
<1> QED BY <1>5, <1>6

LEMMA CharsAre == "0" \notin Chars /\ FileChars \ {"0"} = Chars /\ FileChars \subseteq Chars \cup {"0"}
<1>1. "0" \notin Chars
  BY InputConstants DEF Chars
<1>2. \A t \in Files : Range(t) \subseteq Chars \cup {"0"}
  <2> TAKE t \in Files
  <2>1. t \in Seq(Chars \cup {"0"})
    BY InputConstants
  <2> QED BY <2>1, RangeOfSeq
<1>3. FileChars \subseteq Chars \cup {"0"}
  BY <1>2 DEF FileChars
<1> QED BY <1>1, <1>3, CharsFact

(* The parts of NextLine.                                                  *)
BlockOf(t) == SubSeq(t.file.buf, t.nextc.at, t.nextc.at + t.lleft - 1)
NewLinesOf(t) == {i \in DOMAIN BlockOf(t) : BlockOf(t)[i] = "n"}
TakenOf(t) == IF NewLinesOf(t) = {} THEN t.lleft ELSE Min(NewLinesOf(t))
KeptOf(t) == Readable(SubSeq(BlockOf(t), 1, TakenOf(t)))
BufOf(t) ==
  [i \in DOMAIN t.file.buf |->
     IF i \in t.nextc.at .. t.nextc.at + Len(KeptOf(t)) - 1 THEN KeptOf(t)[i - t.nextc.at + 1]
     ELSE t.file.buf[i]]

LEMMA NextLineIs ==
  ASSUME NEW t, InBlock(t), t.lleft > 0, NEW r, r = NextLine(t)
  PROVE  /\ r \in Recs /\ Kept(t, r) /\ r.file.unread = t.file.unread
         /\ \/ /\ r.nleft >= 0 /\ LevelGood(r.file, r.nextc, r.nleft + 1, r.lleft)
               /\ FileChars = Chars => PendL(r.file, r.nextc, r.nleft + 1, r.lleft) = Rest(t)
            \/ r.nleft = -1 /\ r.lleft = 0 /\ InBlock(r) /\ FileChars # Chars
<1>1. PICK f, p, at, n, buf : f = t.file /\ p = t.nextc /\ at = p.at /\ n = t.lleft /\ buf = f.buf
  OBVIOUS
<1>2. /\ t \in Recs /\ f \in PFiles /\ p \in Places /\ at \in Int /\ n \in Nat /\ n >= 1 /\ p.inbuf
      /\ buf \in Seq(FileChars) /\ Len(buf) \in Nat /\ at >= 1 /\ at + n - 1 <= Len(buf)
      /\ Len(buf) <= Bufsiz /\ f.hasbuf /\ f.strpush = << >> /\ DOMAIN buf = 1 .. Len(buf)
      /\ f.unread \in Seq(FileChars)
  <2>1. t \in Recs /\ f \in PFiles /\ p \in Places /\ n \in LLefts /\ n > 0
    BY <1>1, RecIs DEF InBlock
  <2>2. at \in Int
    BY <1>1, <2>1 DEF Places
  <2>3. n \in Nat /\ n >= 1
    BY <2>1 DEF LLefts, EOF_NLEFT
  <2>4. buf \in Seq(FileChars) /\ Len(buf) \in Nat /\ DOMAIN buf = 1 .. Len(buf) /\ f.unread \in Seq(FileChars)
    BY <1>1, <2>1, FileIs
  <2> QED BY <1>1, <2>1, <2>2, <2>3, <2>4 DEF InBlock
<1>3. PICK block : block = SubSeq(buf, at, at + n - 1)
  OBVIOUS
<1>4. /\ block \in Seq(FileChars) /\ Len(block) = n /\ DOMAIN block = 1 .. n
      /\ \A i \in 1 .. n : block[i] = buf[at + i - 1]
  <2>1. at + n - 1 \in Int /\ at <= at + n - 1 /\ (at + n - 1) - at + 1 = n
    BY <1>2
  <2>2. \A i \in at .. at + n - 1 : buf[i] \in FileChars
    BY <1>2, <2>1
  <2>3. /\ block \in Seq(FileChars)
        /\ Len(block) = IF at <= at + n - 1 THEN (at + n - 1) - at + 1 ELSE 0
        /\ \A i \in 1 .. (at + n - 1) - at + 1 : block[i] = buf[at + i - 1]
    BY <1>2, <1>3, <2>1, <2>2, SubSeqProperties
  <2> QED BY <2>1, <2>3, LenProperties
<1>5. PICK nl : nl = {i \in DOMAIN block : block[i] = "n"}
  OBVIOUS
<1>6. PICK taken : taken = IF nl = {} THEN n ELSE Min(nl)
  OBVIOUS
<1>7. taken \in 1 .. n /\ (taken # n => block[taken] = "n")
  <2>1. nl \subseteq 1 .. n /\ nl \subseteq Nat /\ \A i \in nl : block[i] = "n"
    BY <1>4, <1>5
  <2>2. CASE nl = {}
    BY <1>2, <1>6, <2>2
  <2>3. CASE nl # {}
    <3>1. taken \in nl
      BY <1>6, <2>1, <2>3, MinIs
    <3> QED BY <2>1, <3>1
  <2> QED BY <2>2, <2>3
<1>8. PICK cut : cut = SubSeq(block, 1, taken)
  OBVIOUS
<1>9. cut \in Seq(FileChars) /\ Len(cut) = taken /\ \A i \in 1 .. taken : cut[i] = block[i] /\ block[i] = buf[at + i - 1]
  <2>1. taken \in 0 .. Len(block)
    BY <1>2, <1>4, <1>7
  <2>2. \A i \in 1 .. taken : i \in 1 .. n
    BY <1>2, <1>7
  <2> QED BY <1>4, <1>8, <2>1, <2>2, FrontIs
<1>10. PICK kept, len : kept = Readable(cut) /\ len = Len(kept)
  OBVIOUS
<1>11. /\ kept \in Seq(Chars) /\ len \in Nat /\ len <= taken
       /\ len = 0 <=> \A i \in 1 .. taken : cut[i] = "0"
       /\ FileChars = Chars => kept = cut
  <2>1. /\ kept \in Seq(FileChars \ {"0"}) /\ Len(kept) <= Len(cut)
        /\ kept = << >> <=> \A i \in 1 .. Len(cut) : cut[i] = "0"
        /\ (\A i \in 1 .. Len(cut) : cut[i] # "0") => kept = cut
    BY <1>9, <1>10, ReadableIs
  <2>2. kept \in Seq(Chars)
    BY <2>1, CharsAre
  <2>3. len \in Nat /\ (kept = << >> <=> len = 0)
    BY <1>10, <2>2, EmptySeq
  <2>4. FileChars = Chars => \A i \in 1 .. taken : cut[i] # "0"
    BY <1>9, CharsAre
  <2> QED BY <1>9, <1>10, <2>1, <2>2, <2>3, <2>4
<1>25. PICK size : size = Len(buf)
  OBVIOUS
<1>26. /\ at \in Int /\ n \in Int /\ taken \in Int /\ len \in Int /\ size \in Int
       /\ taken >= 1 /\ taken <= n /\ len <= taken /\ len >= 0 /\ at >= 1 /\ at + n - 1 <= size
  BY <1>2, <1>7, <1>11, <1>25
<1>12. PICK buf1 : buf1 = [i \in DOMAIN buf |-> IF i \in at .. at + len - 1 THEN kept[i - at + 1] ELSE buf[i]]
  OBVIOUS
<1>13. \A i \in 1 .. Len(buf) : i \in at .. at + len - 1 => i - at + 1 \in 1 .. len /\ kept[i - at + 1] \in Chars
  <2>1. \A i \in 1 .. len : kept[i] \in Chars
    BY <1>10, <1>11
  <2> TAKE i \in 1 .. Len(buf)
  <2> HAVE i \in at .. at + len - 1
  <2>2. i - at + 1 \in 1 .. len
    BY <1>2, <1>11
  <2> QED BY <2>1, <2>2
<1>14. buf1 \in Seq(FileChars) /\ Len(buf1) = Len(buf) /\ DOMAIN buf1 = DOMAIN buf
  <2>1. \A i \in 1 .. Len(buf) : buf1[i] \in FileChars
    <3> TAKE i \in 1 .. Len(buf)
    <3>1. buf[i] \in FileChars
      BY <1>2
    <3> QED BY <1>2, <1>12, <1>13, <3>1, CharsFact
  <2>2. buf1 \in [1 .. Len(buf) -> FileChars]
    BY <1>2, <1>12, <2>1
  <2> QED BY <1>2, <2>2
<1>15. \A i \in at .. at + len - 1 : buf1[i] \in Chars
  <2> TAKE i \in at .. at + len - 1
  <2>1. i \in 1 .. Len(buf)
    BY <1>2, <1>7, <1>11
  <2> QED BY <1>2, <1>12, <1>13, <2>1
<1>16. PICK g : g = [f EXCEPT !.buf = buf1]
  OBVIOUS
<1>17. /\ g \in PFiles /\ g.buf = buf1 /\ g.unread = f.unread /\ g.hasbuf = f.hasbuf /\ g.strpush = << >>
  BY <1>2, <1>14, <1>16 DEF PFiles
<1>18. r = [t EXCEPT !.file = g, !.nleft = len - 1, !.lleft = n - taken]
  <2>1. at = t.nextc.at /\ n = t.lleft /\ buf = t.file.buf
    BY <1>1
  <2>4. block = BlockOf(t)
    BY <1>3, <2>1 DEF BlockOf
  <2>5. nl = NewLinesOf(t)
    BY <1>5, <2>4 DEF NewLinesOf
  <2>6. taken = TakenOf(t)
    BY <1>6, <2>1, <2>5 DEF TakenOf
  <2>7. kept = KeptOf(t)
    BY <1>8, <1>10, <2>4, <2>6 DEF KeptOf
  <2>8. buf1 = BufOf(t)
    <3>1. BufOf(t) = [i \in DOMAIN buf |-> IF i \in at .. at + Len(kept) - 1 THEN kept[i - at + 1] ELSE buf[i]]
      BY <2>1, <2>7, Zenon DEF BufOf
    <3> QED BY <1>10, <1>12, <3>1, Zenon
  <2>2. r = [t EXCEPT !.file.buf = buf1, !.nleft = len - 1, !.lleft = t.lleft - taken]
    <3>1. r = [t EXCEPT !.file.buf = BufOf(t), !.nleft = Len(KeptOf(t)) - 1, !.lleft = t.lleft - TakenOf(t)]
      BY Zenon DEF NextLine, BufOf, KeptOf, TakenOf, NewLinesOf, BlockOf
    <3> QED BY <1>10, <2>6, <2>7, <2>8, <3>1, Zenon
  <2>3. [t EXCEPT !.file.buf = buf1, !.nleft = len - 1, !.lleft = t.lleft - taken]
          = [t EXCEPT !.file = [t.file EXCEPT !.buf = buf1], !.nleft = len - 1, !.lleft = t.lleft - taken]
    BY <1>2 DEF Recs
  <2> QED BY <1>1, <1>16, <2>2, <2>3
<1>19. /\ r.file = g /\ r.nextc = p /\ r.nleft = len - 1 /\ r.lleft = n - taken
       /\ Same(t, r) /\ r.block = t.block
  BY <1>1, <1>2, <1>18 DEF Recs, Same
<1>20. n - taken \in Nat /\ n - taken \in LLefts /\ len - 1 \in Int /\ (len - 1) + 1 = len
  BY <1>2, <1>7, <1>11 DEF LLefts
<1>21. r \in Recs
  BY <1>2, <1>17, <1>18, <1>20 DEF Recs
<1>22. Kept(t, r) /\ r.file.unread = t.file.unread
  BY <1>1, <1>2, <1>17, <1>19 DEF Kept
<1>23. CASE len = 0
  <2>1. \A i \in 1 .. taken : block[i] = "0"
    BY <1>9, <1>11, <1>23
  <2>2. taken = n
    <3>1. taken \in 1 .. taken
      BY <1>26
    <3>2. block[taken] = "0"
      BY <2>1, <3>1
    <3> QED BY <1>7, <3>2
  <2>3. r.lleft = 0 /\ r.nleft = -1
    BY <1>2, <1>19, <1>23, <2>2
  <2>4. InBlock(r)
    <3>1. t.block <= Bufsiz
      BY DEF InBlock
    <3>2. r.file.hasbuf /\ r.file.strpush = << >> /\ r.nextc.inbuf /\ Len(r.file.buf) <= Bufsiz
      BY <1>2, <1>14, <1>17, <1>19
    <3>3. ~(r.lleft > 0)
      BY <2>3
    <3> QED BY <1>19, <1>21, <3>1, <3>2, <3>3 DEF InBlock
  <2>5. FileChars # Chars
    <3>1. 1 \in 1 .. taken /\ cut[1] \in FileChars /\ cut[1] = "0"
      BY <1>7, <1>9, <1>11, <1>23
    <3> QED BY <3>1, CharsAre
  <2> QED BY <1>21, <1>22, <2>3, <2>4, <2>5
<1>24. CASE len # 0
  <2>1. len >= 1
    BY <1>11, <1>24
  <2>2. Base(g, p, len, n - taken) = [place |-> p, nleft |-> len, lleft |-> n - taken]
    BY <1>17 DEF Base
  <2>3. PICK b : b = [place |-> p, nleft |-> len, lleft |-> n - taken]
    OBVIOUS
  <2>4. b.place = p /\ b.nleft = len /\ b.lleft = n - taken /\ b \in Bases
    BY <1>2, <1>11, <1>20, <2>3 DEF Bases
  <2>5. Text(g, p) = buf1
    BY <1>2, <1>17 DEF Text
  <2>6. Reads(g, p, len)
    <3>1. p.at >= 1 /\ p.at + len - 1 <= Len(buf1)
      <4>1. at + len - 1 <= size
        BY ONLY <1>26
      <4> QED BY <1>1, <1>14, <1>25, <1>26, <4>1
    <3> QED BY <1>1, <1>15, <2>5, <3>1 DEF Reads
  <2>7. BaseGood(g, b)
    <3>1. p.at + len >= 1 /\ p.at + len + (n - taken) - 1 <= Len(g.buf) /\ len >= 0
      <4>1. at + len >= 1 /\ at + len + (n - taken) - 1 <= size
        BY ONLY <1>26
      <4>2. p.at = at /\ Len(g.buf) = size
        BY <1>1, <1>14, <1>17, <1>25
      <4> QED BY <1>26, <4>1, <4>2
    <3> QED BY <1>2, <1>17, <2>4, <2>6, <3>1 DEF BaseGood
  <2>8. StackGood(g)
    BY <1>17 DEF StackGood
  <2>9. LevelGood(g, p, len, n - taken)
    <3>1. len \in Int
      BY <1>11
    <3> QED BY <1>2, <1>14, <1>17, <1>20, <2>2, <2>3, <2>6, <2>7, <2>8, <3>1 DEF LevelGood
  <2>10. ASSUME FileChars = Chars PROVE PendL(g, p, len, n - taken) = Rest(t)
    <3>1. kept = cut /\ len = taken
      BY <1>9, <1>10, <1>11, <2>10
    <3>2. buf1 = buf
      <4>1. \A i \in 1 .. Len(buf) : buf1[i] = buf[i]
        <5> TAKE i \in 1 .. Len(buf)
        <5>1. CASE i \in at .. at + len - 1
          <6>1. i - at + 1 \in 1 .. taken /\ at + (i - at + 1) - 1 = i
            BY <1>2, <1>13, <3>1, <5>1
          <6> QED BY <1>2, <1>9, <1>12, <3>1, <5>1, <6>1
        <5>2. CASE i \notin at .. at + len - 1
          BY <1>2, <1>12, <5>2
        <5> QED BY <5>1, <5>2
      <4> QED BY <1>2, <1>14, <4>1, SeqEqual
    <3>3. Slice(g, p, len) = SubSeq(buf, at, at + taken - 1)
      BY <1>1, <2>5, <3>1, <3>2 DEF Slice
    <3>4. LinesAt(b) = [p EXCEPT !.at = at + taken]
      <4>1. LinesAt(b) = [p EXCEPT !.at = @ + IF b.nleft > 0 THEN b.nleft ELSE 0]
        BY <2>4 DEF LinesAt
      <4>2. b.nleft = taken /\ taken > 0
        BY <1>26, <2>4, <3>1
      <4> QED BY <1>1, <4>1, <4>2
    <3>5. [p EXCEPT !.at = at + taken].inbuf /\ [p EXCEPT !.at = at + taken].at = at + taken
      BY <1>2 DEF Places
    <3>6. Slice(g, LinesAt(b), b.lleft) = SubSeq(buf, at + taken, at + n - 1)
      <4>1. at + taken + (n - taken) - 1 = at + n - 1
        BY <1>2, <1>7
      <4> QED BY <1>17, <2>4, <3>2, <3>4, <3>5, <4>1 DEF Slice, Text
    <3>7. Below(g, b)[0] = Slice(g, LinesAt(b), b.lleft) \o f.unread
      <4>1. Lines(g, b) = Slice(g, LinesAt(b), b.lleft) \o g.unread
        BY <1>2, <1>17, <2>4, <2>7, LinesIs
      <4> QED BY <1>17, <2>4, <2>7, <2>8, <4>1, BelowIs
    <3>8. PICK x, y, z : x = SubSeq(buf, at, at + taken - 1) /\ y = SubSeq(buf, at + taken, at + n - 1) /\ z = f.unread
      OBVIOUS
    <3>9. x \o y = block /\ x \in Seq(FileChars) /\ y \in Seq(FileChars) /\ z \in Seq(FileChars)
      <4>1. /\ at \in 1 .. Len(buf) + 1 /\ at + taken - 1 \in at - 1 .. Len(buf)
            /\ at + n - 1 \in at + taken - 1 .. Len(buf) /\ (at + taken - 1) + 1 = at + taken
        BY <1>2, <1>7
      <4>2. x \o y = block
        BY <1>2, <1>3, <3>8, <4>1, ConcatAdjacentSubSeq
      <4>3. x \in Seq(FileChars)
        <5>1. \A i \in at .. at + taken - 1 : buf[i] \in FileChars
          BY <1>2, <4>1
        <5> QED BY <1>2, <3>8, <4>1, <5>1, SubSeqProperties
      <4>4. y \in Seq(FileChars)
        <5>1. \A i \in at + taken .. at + n - 1 : buf[i] \in FileChars
          BY <1>2, <1>7
        <5>2. at + taken \in Int /\ at + n - 1 \in Int
          BY <1>2, <1>7
        <5> QED BY <3>8, <5>1, <5>2, SubSeqProperties
      <4> QED BY <1>2, <3>8, <4>2, <4>3, <4>4
    <3>10. x \o (y \o z) = (x \o y) \o z
      BY <3>9, CatAssoc, Zenon
    <3>11. Rest(t) = block \o z
      BY <1>1, <1>2, <1>3, <3>8 DEF Rest, Slice, Text
    <3>12. PendL(g, p, len, n - taken) = x \o (y \o z)
      <4>1. Len(g.strpush) = 0
        BY <1>17
      <4> QED BY <2>2, <2>3, <3>3, <3>6, <3>7, <3>8, <4>1 DEF PendL
    <3> QED BY <3>9, <3>10, <3>11, <3>12
  <2>11. r.nleft >= 0 /\ r.nleft + 1 = len
    BY <1>11, <1>19, <1>20, <2>1
  <2> QED BY <1>19, <1>21, <1>22, <2>9, <2>10, <2>11
<1> QED BY <1>23, <1>24

(* What the loop in preadbuffer comes to: a line, or the end.              *)
Ready(t, r) ==
  /\ r \in Recs /\ Kept(t, r)
  /\ \/ /\ r.nleft >= 0 /\ LevelGood(r.file, r.nextc, r.nleft + 1, r.lleft)
        /\ FileChars = Chars => PendL(r.file, r.nextc, r.nleft + 1, r.lleft) = Rest(t)
     \/ /\ r.nleft = EOF_NLEFT /\ Level(r) /\ Left(r) = << >>
        /\ FileChars = Chars => Rest(t) = << >>

(* A line of NUL characters only.                                          *)
Spent(t, r) == r.nleft = -1 /\ r.lleft = 0 /\ InBlock(r) /\ Kept(t, r) /\ FileChars # Chars

LEMMA RestIs ==
  ASSUME NEW t, InBlock(t), t.lleft <= 0
  PROVE  Rest(t) = t.file.unread
<1>1. t \in Recs /\ t.file \in PFiles /\ t.nextc \in Places /\ t.lleft \in Int /\ t.file.unread \in Seq(FileChars)
  BY RecIs, FileIs DEF InBlock
<1>2. Slice(t.file, t.nextc, t.lleft) = << >>
  <2>1. Reads(t.file, t.nextc, t.lleft)
    BY <1>1 DEF Reads
  <2> QED BY <1>1, <2>1, SliceIs
<1>3. PICK u : u = t.file.unread
  OBVIOUS
<1>4. << >> \o u = u
  BY <1>1, <1>3, CatIs, Zenon
<1> QED BY <1>2, <1>3, <1>4 DEF Rest

LEMMA EofIs ==
  ASSUME NEW t, InBlock(t), t.file.unread = << >>,
         NEW p \in Places, p.inbuf,
         NEW r, r = [t EXCEPT !.nextc = p, !.nleft = EOF_NLEFT, !.lleft = EOF_NLEFT]
  PROVE  r \in Recs /\ Kept(t, r) /\ r.c = t.c /\ Level(r) /\ Left(r) = << >> /\ r.nleft = EOF_NLEFT
<1>1. t \in Recs /\ t.file \in PFiles /\ t.file.strpush = << >> /\ t.file.hasbuf /\ Len(t.file.buf) <= Bufsiz
  BY RecIs DEF InBlock
<1>2. EOF_NLEFT \in Int /\ EOF_NLEFT \in LLefts /\ EOF_NLEFT <= 0 /\ Ended(EOF_NLEFT)
  BY DEF EOF_NLEFT, LLefts, Ended
<1>3. /\ r.file = t.file /\ r.nextc = p /\ r.nleft = EOF_NLEFT /\ r.lleft = EOF_NLEFT /\ Same(t, r) /\ r.c = t.c
  BY <1>1 DEF Recs, Same
<1>4. r \in Recs
  BY <1>1, <1>2 DEF Recs
<1>5. PICK b : b = Base(t.file, p, EOF_NLEFT, EOF_NLEFT)
  OBVIOUS
<1>6. b = [place |-> p, nleft |-> EOF_NLEFT, lleft |-> EOF_NLEFT] /\ b \in Bases
  BY <1>1, <1>2, <1>5 DEF Base, Bases
<1>7. Reads(t.file, p, EOF_NLEFT)
  BY <1>2 DEF Reads
<1>8. BaseGood(t.file, b)
  BY <1>1, <1>2, <1>6, <1>7 DEF BaseGood
<1>9. StackGood(t.file)
  BY <1>1 DEF StackGood
<1>10. LevelGood(t.file, p, EOF_NLEFT, EOF_NLEFT)
  BY <1>1, <1>2, <1>5, <1>7, <1>8, <1>9 DEF LevelGood
<1>11. PendL(t.file, p, EOF_NLEFT, EOF_NLEFT) = << >>
  <2>1. PendL(t.file, p, EOF_NLEFT, EOF_NLEFT) = Below(t.file, b)[Len(t.file.strpush)]
    BY <1>2, <1>5, <1>10, PendIs
  <2>2. Len(t.file.strpush) = 0
    BY <1>1
  <2>3. Below(t.file, b)[0] = Lines(t.file, b)
    BY <1>1, <1>6, <1>8, <1>9, BelowIs
  <2>4. Lines(t.file, b) = << >>
    BY <1>1, <1>2, <1>6, <1>8, LinesIs
  <2> QED BY <2>1, <2>2, <2>3, <2>4
<1> QED BY <1>1, <1>3, <1>4, <1>10, <1>11 DEF Level, Left, Kept

LEMMA AgainIs ==
  ASSUME NEW t, InBlock(t), NEW r, r = Again(t)
  PROVE  \/ Ready(t, r)
         \/ /\ Spent(t, r) /\ Len(r.file.unread) <= Len(t.file.unread)
            /\ t.lleft <= 0 => Len(r.file.unread) < Len(t.file.unread)
<1>1. t \in Recs /\ t.lleft \in Int /\ t.file.unread \in Seq(FileChars) /\ Len(t.file.unread) \in Nat
  BY RecIs, FileIs DEF InBlock
<1>2. CASE t.lleft > 0
  <2>1. t.lleft # -1 /\ ~(t.lleft <= 0)
    BY <1>1, <1>2
  <2>2. r = NextLine(t)
    BY <2>1 DEF Again
  <2>3. /\ r \in Recs /\ Kept(t, r) /\ r.file.unread = t.file.unread
        /\ \/ /\ r.nleft >= 0 /\ LevelGood(r.file, r.nextc, r.nleft + 1, r.lleft)
              /\ FileChars = Chars => PendL(r.file, r.nextc, r.nleft + 1, r.lleft) = Rest(t)
           \/ r.nleft = -1 /\ r.lleft = 0 /\ InBlock(r) /\ FileChars # Chars
    BY <1>2, <2>2, NextLineIs
  <2>4. Len(r.file.unread) <= Len(t.file.unread)
    BY <1>1, <2>3
  <2> QED BY <2>1, <2>3, <2>4 DEF Ready, Spent
<1>3. CASE t.lleft <= 0
  <2>1. PICK s : s = preadfd(t)
    OBVIOUS
  <2>2. Rest(t) = t.file.unread
    BY <1>3, RestIs
  <2>3. CASE t.file.unread = << >>
    <3>1. s = [t EXCEPT !.nextc = InBuf(1), !.lleft = -1]
      BY <2>1, <2>3, PreadIs
    <3>2. s.lleft = -1
      BY <1>1, <3>1 DEF Recs
    <3>3. r = [s EXCEPT !.nleft = EOF_NLEFT, !.lleft = EOF_NLEFT]
      BY <1>3, <2>1, <3>2 DEF Again
    <3>4. r = [t EXCEPT !.nextc = InBuf(1), !.nleft = EOF_NLEFT, !.lleft = EOF_NLEFT]
      BY <1>1, <3>1, <3>3 DEF Recs
    <3>5. InBuf(1) \in Places /\ InBuf(1).inbuf
      BY DEF InBuf, Places
    <3>6. r \in Recs /\ Kept(t, r) /\ Level(r) /\ Left(r) = << >> /\ r.nleft = EOF_NLEFT
      BY <2>3, <3>4, <3>5, EofIs
    <3> QED BY <2>2, <2>3, <3>6 DEF Ready
  <2>4. CASE t.file.unread # << >>
    <3>1. /\ InBlock(s) /\ Kept(t, s) /\ s.lleft > 0 /\ Rest(s) = t.file.unread
          /\ Len(s.file.unread) < Len(t.file.unread)
      BY <2>1, <2>4, PreadIs
    <3>2. s \in Recs /\ s.lleft \in Int
      BY <3>1, RecIs DEF InBlock
    <3>3. r = NextLine(s)
      <4>1. s.lleft # -1
        BY <3>1, <3>2
      <4> QED BY <1>3, <2>1, <4>1 DEF Again
    <3>4. /\ r \in Recs /\ Kept(s, r) /\ r.file.unread = s.file.unread
          /\ \/ /\ r.nleft >= 0 /\ LevelGood(r.file, r.nextc, r.nleft + 1, r.lleft)
                /\ FileChars = Chars => PendL(r.file, r.nextc, r.nleft + 1, r.lleft) = Rest(s)
             \/ r.nleft = -1 /\ r.lleft = 0 /\ InBlock(r) /\ FileChars # Chars
      BY <3>1, <3>3, NextLineIs
    <3>5. Kept(t, r)
      BY <3>1, <3>4 DEF Kept, Same
    <3>6. Len(r.file.unread) <= Len(t.file.unread) /\ Len(r.file.unread) < Len(t.file.unread)
      <4>1. Len(s.file.unread) \in Nat
        BY <3>2, RecIs, FileIs
      <4> QED BY <1>1, <3>1, <3>4, <4>1
    <3> QED BY <2>2, <3>1, <3>4, <3>5, <3>6 DEF Ready, Spent
  <2> QED BY <2>3, <2>4
<1> QED BY <1>1, <1>2, <1>3

LEMMA KeptOn ==
  ASSUME NEW s, NEW x, NEW y, Kept(s, x), Kept(x, y)
  PROVE  Kept(s, y)
BY DEF Kept, Same

TurnRun(s) ==
  CHOOSE r : r = [k \in 0 .. Len(s.file.unread) + 1 |->
                    IF k = 0 THEN Again(s) ELSE AgainIfEmpty(r[k - 1])]

LEMMA TurnIs ==
  ASSUME NEW s, InBlock(s), NEW r, r = TurnRun(s)[Len(s.file.unread) + 1]
  PROVE  Ready(s, r)
<1>1. PICK N, n, d : N = Len(s.file.unread) /\ n = N + 1 /\ d = TurnRun(s)
  OBVIOUS
<1>2. N \in Nat /\ n \in Nat /\ n >= 1 /\ s \in Recs
  BY <1>1, RecIs, FileIs DEF InBlock
<1> DEFINE Q == {x \in Recs : x.nleft = -1 => InBlock(x)}
<1>3. ASSUME NEW x, InBlock(x) PROVE Again(x) \in Q
  <2>1. Ready(x, Again(x)) \/ Spent(x, Again(x))
    BY <1>3, AgainIs
  <2> QED BY <2>1 DEF Ready, Spent, InBlock, EOF_NLEFT
<1>4. PICK F : F = [p \in (1 .. n) \X Q |-> AgainIfEmpty(p[2])]
  OBVIOUS
<1>5. F \in [(1 .. n) \X Q -> Q]
  <2>1. ASSUME NEW p \in (1 .. n) \X Q PROVE AgainIfEmpty(p[2]) \in Q
    <3>1. p[2] \in Q
      OBVIOUS
    <3>2. CASE p[2].nleft = -1
      <4>1. InBlock(p[2]) /\ AgainIfEmpty(p[2]) = Again(p[2])
        BY <3>1, <3>2 DEF AgainIfEmpty
      <4> HIDE DEF Q
      <4> QED BY <1>3, <4>1
    <3>3. CASE p[2].nleft # -1
      BY <3>1, <3>3 DEF AgainIfEmpty
    <3> QED BY <3>2, <3>3
  <2> HIDE DEF Q
  <2> QED BY <1>4, <2>1
<1>6. PICK e \in [0 .. n -> Q] : RunOf(n, Again(s), F, e)
  <2>1. Again(s) \in Q
    BY <1>3
  <2> HIDE DEF Q
  <2> QED BY <1>2, <1>5, <2>1, Iterates
<1>7. \A k \in 0 .. n : k # 0 => F[<<k, e[k - 1]>>] = AgainIfEmpty(e[k - 1])
  <2> HIDE DEF Q
  <2> TAKE k \in 0 .. n
  <2> HAVE k # 0
  <2>1. k \in 1 .. n /\ k - 1 \in 0 .. n
    BY <1>2
  <2>2. e[k - 1] \in Q
    BY <1>6, <2>1
  <2>3. <<k, e[k - 1]>> \in (1 .. n) \X Q
    BY <2>1, <2>2
  <2> QED BY <1>4, <2>3
<1>8. e = [k \in 0 .. n |-> IF k = 0 THEN Again(s) ELSE AgainIfEmpty(e[k - 1])]
  <2>1. \A k \in 0 .. n : e[k] = IF k = 0 THEN Again(s) ELSE AgainIfEmpty(e[k - 1])
    <3> HIDE DEF Q
    <3> TAKE k \in 0 .. n
    <3>1. e[k] = IF k = 0 THEN Again(s) ELSE F[<<k, e[k - 1]>>]
      BY <1>6 DEF RunOf
    <3> QED BY <1>7, <3>1
  <2> HIDE DEF Q
  <2> QED BY <1>6, <2>1
<1>9. d = [k \in 0 .. n |-> IF k = 0 THEN Again(s) ELSE AgainIfEmpty(d[k - 1])]
  <2>1. \E x : x = [k \in 0 .. n |-> IF k = 0 THEN Again(s) ELSE AgainIfEmpty(x[k - 1])]
    BY <1>8, Zenon
  <2> QED BY <1>1, <2>1, Zenon DEF TurnRun
<1>10. \A k \in 0 .. n : d[k] = IF k = 0 THEN Again(s) ELSE AgainIfEmpty(d[k - 1])
  BY <1>9, Zenon
<1> DEFINE J == {k \in 0 .. n : Ready(s, d[k]) \/ (Spent(s, d[k]) /\ Len(d[k].file.unread) <= N - k)}
<1>11. 0 \in J
  <2>1. d[0] = Again(s) /\ 0 \in 0 .. n
    BY <1>2, <1>10
  <2>2. Ready(s, d[0]) \/ (Spent(s, d[0]) /\ Len(d[0].file.unread) <= N)
    BY <1>1, <2>1, AgainIs
  <2>3. N - 0 = N
    BY <1>2
  <2> QED BY <2>1, <2>2, <2>3
<1>12. ASSUME NEW k \in 1 .. n, k - 1 \in J PROVE k \in J
  <2>1. PICK x, y : x = d[k - 1] /\ y = d[k]
    OBVIOUS
  <2>2. Ready(s, x) \/ (Spent(s, x) /\ Len(x.file.unread) <= N - (k - 1))
    BY <1>12, <2>1
  <2>3. k \in 0 .. n /\ y = AgainIfEmpty(x)
    <3>1. k \in 0 .. n /\ k # 0
      BY <1>2
    <3> HIDE DEF J
    <3> QED BY <1>10, <2>1, <3>1
  <2>4. CASE Ready(s, x)
    <3>1. x.nleft # -1
      BY <2>4, RecIs DEF Ready, EOF_NLEFT
    <3>2. y = x
      BY <2>3, <3>1 DEF AgainIfEmpty
    <3> HIDE DEF J
    <3> QED BY <2>1, <2>3, <2>4, <3>2 DEF J
  <2>5. CASE Spent(s, x) /\ Len(x.file.unread) <= N - (k - 1)
    <3>1. InBlock(x) /\ x.nleft = -1 /\ x.lleft <= 0 /\ FileChars # Chars /\ Kept(s, x)
      BY <2>5 DEF Spent
    <3>2. y = Again(x)
      BY <2>3, <3>1 DEF AgainIfEmpty
    <3>3. Ready(x, y) \/ (Spent(x, y) /\ Len(y.file.unread) < Len(x.file.unread))
      BY <3>1, <3>2, AgainIs
    <3>4. CASE Ready(x, y)
      <4>1. Kept(s, y)
        BY <3>1, <3>4, KeptOn DEF Ready
      <4>2. Ready(s, y)
        BY <3>1, <3>4, <4>1 DEF Ready
      <4> QED BY <2>1, <2>3, <4>2
    <3>5. CASE Spent(x, y) /\ Len(y.file.unread) < Len(x.file.unread)
      <4>1. Kept(s, y)
        BY <3>1, <3>5, KeptOn DEF Spent
      <4>2. Spent(s, y)
        BY <3>5, <4>1 DEF Spent
      <4>3. Len(y.file.unread) \in Nat /\ Len(x.file.unread) \in Nat
        <5>1. x \in Recs /\ y \in Recs
          BY <3>1, <3>5 DEF Spent, InBlock
        <5> QED BY <5>1, RecIs, FileIs
      <4>4. Len(y.file.unread) <= N - k
        BY <1>2, <2>5, <3>5, <4>3
      <4> QED BY <2>1, <2>3, <4>2, <4>4
    <3> QED BY <3>3, <3>4, <3>5
  <2> QED BY <2>2, <2>4, <2>5
<1>13. n \in J
  <2>1. \A k \in 0 .. n : k \in J
    <3> HIDE DEF J
    <3> QED BY <1>2, <1>11, <1>12, UpTo
  <2> HIDE DEF J
  <2> QED BY <1>2, <2>1
<1>14. r = d[n]
  BY <1>1
<1>15. Ready(s, d[n]) \/ (Spent(s, d[n]) /\ Len(d[n].file.unread) <= N - n)
  BY <1>13
<1>16. CASE Spent(s, d[n]) /\ Len(d[n].file.unread) <= N - n
  <2>1. d[n] \in Recs
    BY <1>16 DEF Spent, InBlock
  <2>2. Len(d[n].file.unread) \in Nat
    BY <2>1, RecIs, FileIs
  <2>3. N - n = -1
    BY <1>1, <1>2
  <2> QED BY <1>16, <2>2, <2>3
<1> QED BY <1>14, <1>15, <1>16

------------------------------------------------------------------------------
(* What comes of reading a character, where text was to come.              *)
CharOf(text, r) ==
  /\ r.c \in Chars /\ r.nleft >= 0 /\ Level(pungetc(r))
  /\ Left(pungetc(r)) = <<r.c>> \o Left(r)
  /\ FileChars = Chars => text = <<r.c>> \o Left(r)

EndOf(text, r) ==
  /\ r.c = PEOF /\ r.file.strpush = << >> /\ Left(r) = << >>
  /\ r.nleft \in IF r.file.hasbuf THEN {EOF_NLEFT} ELSE {-1, -2}
  /\ FileChars = Chars => text = << >>

FakeOf(text, r) == r.c = PFAKE /\ r.file.strpush # << >> /\ r.nleft = -1 /\ Left(r) = text

Outcome(s, text, r) ==
  /\ r \in Recs /\ Level(r) /\ r.block = s.block /\ r.file.hasbuf = s.file.hasbuf /\ Popping(s, r)
  /\ r.nleft = -2 => s.nleft = -2 /\ s.file.strpush = << >>
  /\ CharOf(text, r) \/ EndOf(text, r) \/ FakeOf(text, r)

(* A place from which the next character is wanted: nleft is one less than *)
(* what is left in the line.                                               *)
Before(s) == PendL(s.file, s.nextc, s.nleft + 1, s.lleft)

Wanting(s) ==
  s \in Recs /\ LevelGood(s.file, s.nextc, s.nleft + 1, s.lleft) /\ s.block <= Bufsiz /\ s.nleft # -3

LEMMA SetIs ==
  ASSUME NEW s \in Recs, NEW x \in Got, NEW r, r = [s EXCEPT !.c = x]
  PROVE  /\ r \in Recs /\ Same(s, r) /\ r.file = s.file /\ r.nextc = s.nextc /\ r.nleft = s.nleft
         /\ r.lleft = s.lleft /\ r.c = x /\ r.atab = s.atab /\ r.check = s.check /\ r.block = s.block
         /\ (Level(r) <=> Level(s)) /\ Left(r) = Left(s)
<1>1. /\ r \in Recs /\ r.file = s.file /\ r.nextc = s.nextc /\ r.nleft = s.nleft /\ r.lleft = s.lleft
      /\ r.c = x /\ r.atab = s.atab /\ r.check = s.check /\ r.block = s.block
  BY DEF Recs
<1> QED BY <1>1 DEF Same, Level, Left

LEMMA NotPopped ==
  ASSUME NEW s \in Recs, NEW r \in Recs, r.file.strpush = s.file.strpush, r.atab = s.atab
  PROVE  Popping(s, r)
<1>1. PICK x, n : x = s.file.strpush /\ n = Len(x)
  OBVIOUS
<1>2. x \in Seq(Frames) /\ n \in Nat /\ n \in 0 .. n
  <2>1. s.file \in PFiles
    BY RecIs
  <2> QED BY <1>1, <2>1 DEF PFiles
<1>3. SubSeq(x, 1, n) = x
  BY <1>1, <1>2, SubSeqFull
<1>4. ApsFrom(x, n) = {}
  <2>1. \A j \in n + 1 .. Len(x) : FALSE
    BY <1>1, <1>2
  <2> QED BY <2>1 DEF ApsFrom
<1>5. Cleared(s.atab, {}) = s.atab
  BY RecIs DEF Cleared
<1> QED BY <1>1, <1>2, <1>3, <1>4, <1>5 DEF Popping

LEMMA TakenIs ==
  ASSUME NEW s \in Recs, s.nleft >= 0, LevelGood(s.file, s.nextc, s.nleft + 1, s.lleft),
         NEW text, FileChars = Chars => text = Before(s),
         NEW r, r = Take(s)
  PROVE  /\ CharOf(text, r) /\ r \in Recs /\ Level(r) /\ Same(s, r) /\ r.file = s.file
         /\ r.nleft = s.nleft
<1>1. /\ r \in Recs /\ Level(r) /\ Same(s, r)
      /\ r.file = s.file /\ r.nleft = s.nleft /\ r.lleft = s.lleft /\ r.nextc = After(s.nextc)
      /\ r.c \in Chars
      /\ PendL(s.file, s.nextc, s.nleft + 1, s.lleft) = <<r.c>> \o Left(r)
  BY TakeIs
<1>2. PICK u : u = pungetc(r)
  OBVIOUS
<1>3. u.file = s.file /\ u.nextc = s.nextc /\ u.nleft = s.nleft + 1 /\ u.lleft = s.lleft
  BY <1>1, <1>2, UngetTaken
<1>4. Level(u) /\ Left(u) = <<r.c>> \o Left(r)
  BY <1>1, <1>3 DEF Level, Left
<1> QED BY <1>1, <1>2, <1>4 DEF CharOf, Before

LEMMA RefillIs ==
  ASSUME NEW s, Wanting(s), s.nleft < 0, s.file.strpush = << >>, NEW R, R = Refill(s)
  PROVE  Outcome(s, Before(s), R)
<1>1. PICK f, p, n, l, b : /\ f = s.file /\ p = s.nextc /\ n = s.nleft + 1 /\ l = s.lleft
                           /\ b = Base(f, p, n, l)
  OBVIOUS
<1>2. /\ s \in Recs /\ f \in PFiles /\ p \in Places /\ n \in Int /\ l \in LLefts /\ l \in Int
      /\ f.strpush = << >> /\ LevelGood(f, p, n, l) /\ n <= 0 /\ s.nleft \in Int /\ s.nleft = n - 1
      /\ n # -2
  <2>1. s \in Recs /\ LevelGood(f, p, n, l)
    BY <1>1 DEF Wanting
  <2>2. f \in PFiles /\ p \in Places /\ l \in LLefts /\ l \in Int /\ s.nleft \in Int
    BY <1>1, <2>1, RecIs
  <2>3. n \in Int /\ n <= 0 /\ s.nleft = n - 1 /\ n # -2
    BY <1>1, <2>2 DEF Wanting
  <2> QED BY <1>1, <2>1, <2>2, <2>3
<1>3. b = [place |-> p, nleft |-> n, lleft |-> l] /\ b \in Bases
  BY <1>1, <1>2 DEF Base, Bases
<1>4. b.place = p /\ b.nleft = n /\ b.lleft = l /\ BaseGood(f, b) /\ StackGood(f) /\ Len(f.buf) <= Bufsiz
  BY <1>1, <1>2, <1>3 DEF LevelGood
<1>5. Before(s) = Lines(f, b)
  <2>1. Before(s) = Below(f, b)[Len(f.strpush)]
    <3>1. Before(s) = PendL(f, p, n, l)
      BY <1>1 DEF Before
    <3>2. PendL(f, p, n, l) = Below(f, Base(f, p, n, l))[Len(f.strpush)]
      BY <1>2, PendIs
    <3> QED BY <1>1, <3>1, <3>2
  <2>2. Len(f.strpush) = 0
    BY <1>2
  <2> QED BY <1>2, <1>3, <1>4, <2>1, <2>2, BelowIs
<1>6. PEOF \in Got
  BY DEF Got
<1>7. CASE ~f.hasbuf
  <2>1. R = [s EXCEPT !.c = PEOF]
    BY <1>1, <1>7 DEF Refill
  <2>2. /\ R \in Recs /\ Same(s, R) /\ R.file = s.file /\ R.nextc = s.nextc /\ R.nleft = s.nleft
        /\ R.lleft = s.lleft /\ R.c = PEOF /\ R.atab = s.atab /\ R.block = s.block
    BY <1>2, <1>6, <2>1, SetIs
  <2>3. n >= -2 /\ ~p.inbuf
    BY <1>4, <1>7 DEF BaseGood
  <2>4. s.nleft \in {-1, -2} /\ s.nleft <= 0 /\ s.nleft >= -2
    BY <1>2, <2>3
  <2>5. PICK e : e = Base(f, p, s.nleft, l)
    OBVIOUS
  <2>6. e = [place |-> p, nleft |-> s.nleft, lleft |-> l] /\ e \in Bases
    BY <1>2, <2>5 DEF Base, Bases
  <2>7. Reads(f, p, s.nleft)
    BY <2>4 DEF Reads
  <2>8. BaseGood(f, e)
    BY <1>7, <2>3, <2>4, <2>6, <2>7 DEF BaseGood
  <2>9. LevelGood(f, p, s.nleft, l)
    BY <1>2, <1>4, <2>5, <2>7, <2>8 DEF LevelGood
  <2>10. PendL(f, p, s.nleft, l) = << >>
    <3>1. PendL(f, p, s.nleft, l) = Below(f, e)[Len(f.strpush)]
      BY <2>4, <2>5, <2>9, PendIs
    <3>2. Len(f.strpush) = 0
      BY <1>2
    <3>3. Below(f, e)[0] = Lines(f, e)
      BY <1>2, <1>4, <2>6, <2>8, BelowIs
    <3>4. Lines(f, e) = << >>
      BY <1>2, <1>7, <2>6, <2>8, LinesIs
    <3> QED BY <3>1, <3>2, <3>3, <3>4
  <2>11. Lines(f, b) = << >>
    BY <1>2, <1>3, <1>4, <1>7, LinesIs
  <2>12. Level(R) /\ Left(R) = << >>
    BY <1>1, <2>2, <2>9, <2>10 DEF Level, Left
  <2>13. EndOf(Before(s), R)
    BY <1>1, <1>2, <1>5, <1>7, <2>2, <2>4, <2>11, <2>12 DEF EndOf
  <2>14. Popping(s, R)
    BY <1>2, <2>2, NotPopped
  <2> QED BY <1>1, <1>2, <2>2, <2>12, <2>13, <2>14 DEF Outcome
<1>8. CASE f.hasbuf
  <2>1. p.inbuf /\ (n >= 0 \/ (Ended(n) /\ l = EOF_NLEFT /\ f.unread = << >>))
    BY <1>4, <1>8 DEF BaseGood
  <2>2. InBlock(s)
    <3>1. l > 0 => p.at >= 1 /\ p.at + l - 1 <= Len(f.buf)
      <4> HAVE l > 0
      <4>1. n = 0 /\ p.at + n >= 1 /\ p.at + n + l - 1 <= Len(f.buf)
        BY <1>2, <1>4, <1>8 DEF BaseGood, EOF_NLEFT
      <4>2. p.at \in Int
        BY <1>2 DEF Places
      <4> QED BY <1>2, <4>1, <4>2
    <3> QED BY <1>1, <1>2, <1>4, <1>8, <2>1, <3>1 DEF InBlock, Wanting
  <2>3. Lines(f, b) = Rest(s)
    <3>1. LinesAt(b) = p
      <4>1. LinesAt(b) = [p EXCEPT !.at = @ + 0]
        BY <1>2, <1>4 DEF LinesAt
      <4>2. p.at \in Int
        BY <1>2 DEF Places
      <4> QED BY <1>2, <4>1, <4>2 DEF Places
    <3> QED BY <1>1, <1>2, <1>3, <1>4, <1>8, <3>1, LinesIs DEF Rest
  <2>4. CASE s.nleft = EOF_NLEFT
    <3>1. l = EOF_NLEFT /\ f.unread = << >>
      BY <1>2, <2>1, <2>4 DEF EOF_NLEFT
    <3>2. R = [s EXCEPT !.c = PEOF]
      BY <2>4 DEF Refill
    <3>3. s = [s EXCEPT !.nextc = p, !.nleft = EOF_NLEFT, !.lleft = EOF_NLEFT]
      BY <1>1, <1>2, <2>4, <3>1 DEF Recs
    <3>4. Level(s) /\ Left(s) = << >>
      <4>1. s.file.unread = << >>
        BY <1>1, <3>1
      <4> QED BY <1>2, <2>1, <2>2, <3>3, <4>1, EofIs
    <3>5. /\ R \in Recs /\ R.file = s.file /\ R.nleft = s.nleft /\ R.c = PEOF /\ R.atab = s.atab
          /\ R.block = s.block /\ Level(R) /\ Left(R) = << >>
      BY <1>2, <1>6, <3>2, <3>4, SetIs
    <3>6. Rest(s) = << >>
      <4>1. l <= 0
        BY <3>1 DEF EOF_NLEFT
      <4> QED BY <1>1, <2>2, <3>1, <4>1, RestIs
    <3>7. EndOf(Before(s), R)
      BY <1>1, <1>2, <1>5, <1>8, <2>3, <2>4, <3>5, <3>6 DEF EndOf
    <3>8. Popping(s, R)
      BY <1>2, <3>5, NotPopped
    <3>9. R.nleft # -2
      BY <2>4, <3>5 DEF EOF_NLEFT
    <3> QED BY <3>5, <3>7, <3>8, <3>9 DEF Outcome
  <2>5. CASE s.nleft # EOF_NLEFT
    <3>1. PICK t : t = TurnRun(s)[Len(s.file.unread) + 1]
      OBVIOUS
    <3>2. R = IF t.nleft = EOF_NLEFT THEN [t EXCEPT !.c = PEOF] ELSE Take(t)
      BY <1>1, <1>8, <2>5, <3>1 DEF Refill, TurnRun
    <3>3. Ready(s, t)
      BY <2>2, <3>1, TurnIs
    <3>4. t \in Recs /\ Kept(s, t) /\ t.file.strpush = << >> /\ t.file.hasbuf /\ t.block = s.block /\ t.atab = s.atab
      BY <3>3 DEF Ready, Kept, Same
    <3>7. t.file.hasbuf = s.file.hasbuf
      <4>1. t.file.hasbuf \in BOOLEAN /\ s.file.hasbuf \in BOOLEAN
        BY <1>2, <3>4, RecIs DEF PFiles
      <4> QED BY <1>1, <1>8, <3>4, <4>1
    <3>5. CASE t.nleft = EOF_NLEFT
      <4>1. Level(t) /\ Left(t) = << >> /\ (FileChars = Chars => Rest(s) = << >>)
        BY <3>3, <3>5 DEF Ready, EOF_NLEFT
      <4>2. R = [t EXCEPT !.c = PEOF]
        BY <3>2, <3>5
      <4>3. /\ R \in Recs /\ R.file = t.file /\ R.nleft = t.nleft /\ R.c = PEOF /\ R.atab = t.atab
            /\ R.block = t.block /\ Level(R) /\ Left(R) = << >>
        BY <1>6, <3>4, <4>1, <4>2, SetIs
      <4>4. EndOf(Before(s), R)
        BY <1>5, <2>3, <3>4, <3>5, <4>1, <4>3 DEF EndOf
      <4>5. Popping(s, R)
        BY <1>1, <1>2, <3>4, <4>3, NotPopped
      <4>6. R.nleft # -2
        BY <3>5, <4>3 DEF EOF_NLEFT
      <4> QED BY <3>4, <3>7, <4>3, <4>4, <4>5, <4>6 DEF Outcome
    <3>6. CASE t.nleft # EOF_NLEFT
      <4>1. /\ t.nleft >= 0 /\ LevelGood(t.file, t.nextc, t.nleft + 1, t.lleft)
            /\ FileChars = Chars => Before(t) = Before(s)
        BY <1>5, <2>3, <3>3, <3>6 DEF Ready, Before
      <4>2. R = Take(t)
        BY <3>2, <3>6
      <4>3. CharOf(Before(s), R) /\ R \in Recs /\ Level(R) /\ Same(t, R) /\ R.file = t.file /\ R.nleft = t.nleft
        BY <3>4, <4>1, <4>2, TakenIs
      <4>4. Popping(s, R)
        BY <1>1, <1>2, <3>4, <4>3, NotPopped DEF Same
      <4>5. R.nleft # -2
        BY <3>4, <4>1, <4>3, RecIs
      <4> QED BY <3>4, <3>7, <4>3, <4>4, <4>5 DEF Outcome, Same
    <3> QED BY <3>5, <3>6
  <2> QED BY <2>4, <2>5
<1> QED BY <1>7, <1>8

LEMMA FrontOfFront ==
  ASSUME NEW S, NEW x \in Seq(S), NEW m \in 0 .. Len(x), NEW k \in 0 .. m
  PROVE  SubSeq(SubSeq(x, 1, m), 1, k) = SubSeq(x, 1, k)
<1>1. PICK y, u, v : y = SubSeq(x, 1, m) /\ u = SubSeq(y, 1, k) /\ v = SubSeq(x, 1, k)
  OBVIOUS
<1>2. y \in Seq(S) /\ Len(y) = m /\ \A j \in 1 .. m : y[j] = x[j]
  BY <1>1, FrontIs
<1>3. k \in 0 .. Len(y) /\ k \in 0 .. Len(x) /\ \A j \in 1 .. k : j \in 1 .. m
  BY <1>2
<1>4. u \in Seq(S) /\ Len(u) = k /\ \A j \in 1 .. k : u[j] = y[j]
  BY <1>1, <1>2, <1>3, FrontIs
<1>5. v \in Seq(S) /\ Len(v) = k /\ \A j \in 1 .. k : v[j] = x[j]
  BY <1>1, <1>3, FrontIs
<1>6. u = v
  BY <1>2, <1>3, <1>4, <1>5, SeqEqual
<1> QED BY <1>1, <1>6

LEMMA ClearedOn ==
  ASSUME NEW table \in [AliasIds -> Entries], NEW A, NEW B
  PROVE  Cleared(Cleared(table, A), B) = Cleared(table, A \cup B)
<1>1. PICK y : y = Cleared(table, A)
  OBVIOUS
<1>2. y \in [AliasIds -> Entries]
  BY <1>1, ClearedIs
<1>3. \A a \in AliasIds : y[a] = IF a \in A THEN [table[a] EXCEPT !.inuse = FALSE] ELSE table[a]
  BY <1>1 DEF Cleared
<1>4. ASSUME NEW a \in AliasIds
      PROVE  (IF a \in B THEN [y[a] EXCEPT !.inuse = FALSE] ELSE y[a])
               = IF a \in A \cup B THEN [table[a] EXCEPT !.inuse = FALSE] ELSE table[a]
  <2>1. PICK e : e = table[a]
    OBVIOUS
  <2>2. e \in Entries
    BY <2>1
  <2>3. [[e EXCEPT !.inuse = FALSE] EXCEPT !.inuse = FALSE] = [e EXCEPT !.inuse = FALSE]
    BY <2>2 DEF Entries
  <2>4. y[a] = IF a \in A THEN [e EXCEPT !.inuse = FALSE] ELSE e
    BY <1>3, <2>1
  <2> QED BY <2>1, <2>3, <2>4
<1>5. Cleared(y, B) = Cleared(table, A \cup B)
  BY <1>4 DEF Cleared
<1> QED BY <1>1, <1>5

LEMMA PoppedOn ==
  ASSUME NEW s \in Recs, NEW t \in Recs, NEW r \in Recs, Popping(s, t), Popping(t, r)
  PROVE  Popping(s, r)
<1>1. PICK x, n : x = s.file.strpush /\ n = Len(x)
  OBVIOUS
<1>2. x \in Seq(Frames) /\ n \in Nat
  <2>1. s.file \in PFiles
    BY RecIs
  <2> QED BY <1>1, <2>1 DEF PFiles
<1>3. PICK m \in 0 .. n : t.file.strpush = SubSeq(x, 1, m) /\ t.atab = Cleared(s.atab, ApsFrom(x, m))
  BY <1>1 DEF Popping
<1>4. PICK y : y = SubSeq(x, 1, m)
  OBVIOUS
<1>5. y \in Seq(Frames) /\ Len(y) = m /\ \A j \in 1 .. m : y[j] = x[j]
  BY <1>1, <1>2, <1>4, FrontIs
<1>6. PICK k \in 0 .. m : r.file.strpush = SubSeq(y, 1, k) /\ r.atab = Cleared(t.atab, ApsFrom(y, k))
  BY <1>3, <1>4, <1>5 DEF Popping
<1>7. k \in 0 .. n /\ SubSeq(y, 1, k) = SubSeq(x, 1, k)
  <2>1. k \in 0 .. n
    BY <1>2
  <2> QED BY <1>1, <1>2, <1>4, <2>1, FrontOfFront
<1>8. ApsFrom(x, m) \cup ApsFrom(y, k) = ApsFrom(x, k)
  <2>1. \A j \in k + 1 .. n : j \in m + 1 .. n \/ (j \in k + 1 .. m /\ y[j] = x[j])
    BY <1>2, <1>5
  <2>2. \A j \in m + 1 .. n : j \in k + 1 .. n
    BY <1>2
  <2>3. \A j \in k + 1 .. m : j \in k + 1 .. n /\ y[j] = x[j]
    BY <1>2, <1>5
  <2> QED BY <1>1, <1>5, <2>1, <2>2, <2>3 DEF ApsFrom
<1>9. r.atab = Cleared(s.atab, ApsFrom(x, k))
  <2>1. PICK table, A, B : table = s.atab /\ A = ApsFrom(x, m) /\ B = ApsFrom(y, k)
    OBVIOUS
  <2>2. table \in [AliasIds -> Entries]
    BY <2>1, RecIs
  <2>3. Cleared(Cleared(table, A), B) = Cleared(table, A \cup B)
    BY ONLY <2>2, ClearedOn
  <2> QED BY ONLY <1>3, <1>6, <1>8, <2>1, <2>3
<1> QED BY <1>1, <1>6, <1>7, <1>9 DEF Popping

(* Above a pushed string it does not matter how far nleft is below zero.   *)
LEMMA LowerIs ==
  ASSUME NEW f, NEW p, NEW n, NEW l, LevelGood(f, p, n, l), n <= 0, f.strpush # << >>,
         NEW k \in Int, k >= -1, k <= 0
  PROVE  LevelGood(f, p, k, l) /\ PendL(f, p, k, l) = PendL(f, p, n, l)
<1>1. Base(f, p, k, l) = Base(f, p, n, l)
  BY DEF Base
<1>2. Reads(f, p, k)
  BY DEF Reads
<1>3. LevelGood(f, p, k, l)
  BY <1>1, <1>2 DEF LevelGood
<1>4. /\ PendL(f, p, n, l) = Below(f, Base(f, p, n, l))[Len(f.strpush)]
      /\ PendL(f, p, k, l) = Below(f, Base(f, p, k, l))[Len(f.strpush)]
  BY <1>3, PendIs
<1> QED BY <1>1, <1>3, <1>4

(* The first m strings have been popped, and nleft is counted down.        *)
Underneath(s, m, r) ==
  /\ r \in Recs /\ r.block = s.block
  /\ r.file.hasbuf = s.file.hasbuf /\ Popping(s, r)
  /\ LevelGood(r.file, r.nextc, r.nleft + 1, r.lleft)
  /\ Before(r) = Before(s)
  /\ r.file.strpush = << >> <=> m = Len(s.file.strpush)
  /\ r.nleft >= -1 \/ r.nleft = EOF_NLEFT

LEMMA StringsPopped ==
  ASSUME NEW s, Wanting(s), s.nleft < 0, s.file.strpush # << >>,
         NEW n, n = Len(s.file.strpush), NEW m \in 1 .. n,
         \A i \in 1 .. m - 1 : popstring(s, i).nleft - 1 < 0,
         NEW q, q = popstring(s, m), NEW r, r = [q EXCEPT !.nleft = @ - 1]
  PROVE  Underneath(s, m, r) /\ r.nleft = q.nleft - 1
<1>1. PICK f, b : f = s.file /\ b = Base(s.file, s.nextc, s.nleft, s.lleft)
  OBVIOUS
<1>2. /\ s \in Recs /\ f \in PFiles /\ n = Len(f.strpush) /\ n \in Nat
      /\ Len(f.buf) <= Bufsiz /\ StackGood(f) /\ BaseGood(f, b) /\ b \in Bases
      /\ b = Base(f, s.nextc, s.nleft + 1, s.lleft) /\ s.nleft + 1 <= 0
  <2>1. s \in Recs
    BY DEF Wanting
  <2>2. f \in PFiles /\ n = Len(f.strpush) /\ n \in Nat /\ s.nleft + 1 <= 0
    BY <1>1, <2>1, RecIs, FileIs
  <2>3. b = Base(f, s.nextc, s.nleft + 1, s.lleft)
    BY <1>1 DEF Base
  <2>4. LevelGood(f, s.nextc, s.nleft + 1, s.lleft)
    BY <1>1 DEF Wanting
  <2>5. Len(f.buf) <= Bufsiz /\ StackGood(f) /\ BaseGood(f, b)
    BY <2>3, <2>4 DEF LevelGood
  <2>6. b \in Bases
    BY <1>1, <2>1, RecIs, BaseIs
  <2> QED BY <2>1, <2>2, <2>3, <2>5, <2>6
<1>3. ASSUME NEW k \in 1 .. n
      PROVE  LET o == popstring(s, k)
             IN /\ o \in Recs /\ Level(o) /\ o.block = s.block
                /\ o.file = [f EXCEPT !.strpush = SubSeq(f.strpush, 1, n - k)]
                /\ o.file.strpush = SubSeq(f.strpush, 1, n - k)
                /\ o.nleft = f.strpush[n - k + 1].prevnleft
                /\ o.atab = Cleared(s.atab, ApsFrom(f.strpush, n - k))
                /\ Left(o) = Below(f, b)[n - k + 1]
  <2>1. k \in 1 .. Len(s.file.strpush)
    BY <1>1
  <2>2. PICK o, sp : o = popstring(s, k) /\ sp = s.file.strpush[n - k + 1]
    OBVIOUS
  <2>3. /\ o \in Recs /\ Level(o) /\ o.block = s.block
        /\ o.file = [s.file EXCEPT !.strpush = SubSeq(s.file.strpush, 1, n - k)]
        /\ o.file.strpush = SubSeq(s.file.strpush, 1, n - k)
        /\ o.nleft = sp.prevnleft
        /\ o.atab = Cleared(s.atab, ApsFrom(s.file.strpush, n - k))
        /\ Left(o) = Below(s.file, b)[n - k + 1]
    <3>1. /\ s \in Recs /\ s.file.strpush # << >> /\ Len(s.file.buf) <= Bufsiz /\ StackGood(s.file)
          /\ b = Base(s.file, s.nextc, s.nleft, s.lleft) /\ BaseGood(s.file, b)
      BY <1>1, <1>2
    <3>2. n = Len(s.file.strpush)
      OBVIOUS
    <3>3. PoppedIs(s, b, k, o)
      BY <2>1, <2>2, <3>1, <3>2, PopIs, Zenon
    <3> QED BY <2>2, <3>2, <3>3 DEF PoppedIs
  <2> QED BY <1>1, <2>2, <2>3
<1>4. ASSUME NEW k \in 1 .. n
      PROVE  /\ n - k + 1 \in 1 .. n /\ (n - k + 1) - 1 = n - k /\ n - k \in 0 .. n
             /\ Reads(f, f.strpush[n - k + 1].prevstring, f.strpush[n - k + 1].prevnleft)
             /\ f.strpush[n - k + 1].prevstring \in Places /\ f.strpush[n - k + 1].prevnleft \in Int
             /\ \/ f.strpush[n - k + 1].prevnleft >= 0
                \/ f.strpush[n - k + 1].prevnleft = EOF_NLEFT + 1
  <2>1. n - k + 1 \in 1 .. n /\ (n - k + 1) - 1 = n - k /\ n - k \in 0 .. n
    BY <1>2
  <2>2. n - k + 1 \in DOMAIN f.strpush /\ f.strpush[n - k + 1] \in Frames
    BY <1>2, <2>1, FileIs
  <2>3. PICK j : j = n - k + 1
    OBVIOUS
  <2>4. /\ Reads(f, f.strpush[j].prevstring, f.strpush[j].prevnleft)
        /\ f.strpush[j].prevnleft >= 0 \/ f.strpush[j].prevnleft = EOF_NLEFT + 1
    BY <1>2, <2>2, <2>3 DEF StackGood
  <2>5. f.strpush[j].prevstring \in Places /\ f.strpush[j].prevnleft \in Int
    BY <2>2, <2>3 DEF Frames
  <2> QED BY <2>1, <2>3, <2>4, <2>5
<1> DEFINE J == {i \in 0 .. m - 1 : Below(f, b)[n - i] = Below(f, b)[n]}
<1>5. m - 1 \in J
  <2>1. 0 \in J
    <3>1. n - 0 = n /\ 0 \in 0 .. m - 1
      BY <1>2
    <3> QED BY <3>1
  <2>2. ASSUME NEW i \in 1 .. m - 1, i - 1 \in J PROVE i \in J
    <3>1. i \in 0 .. m - 1 /\ i \in 1 .. n /\ n - (i - 1) = n - i + 1
      BY <1>2
    <3>2. PICK pl, pn : pl = f.strpush[n - i + 1].prevstring /\ pn = f.strpush[n - i + 1].prevnleft
      OBVIOUS
    <3>3. pn \in Int /\ pl \in Places /\ Reads(f, pl, pn) /\ n - i + 1 \in 1 .. n /\ (n - i + 1) - 1 = n - i
          /\ n - i \in 0 .. n
      BY <1>4, <3>1, <3>2
    <3>4. pn - 1 < 0
      BY <1>3, <3>1, <3>2
    <3>5. Slice(f, pl, pn) = << >>
      <4>1. pn <= 0
        BY <3>3, <3>4
      <4> QED BY <1>2, <3>3, <4>1, SliceIs
    <3>6. PICK below : below = Below(f, b)
      OBVIOUS
    <3>7. below[n - i + 1] = << >> \o below[n - i] /\ below[n - i] \in Seq(FileChars)
      <4>1. PICK j : j = n - i + 1
        OBVIOUS
      <4>2. j \in 1 .. n /\ j - 1 = n - i
        BY <3>3, <4>1
      <4>3. below[j] = Slice(f, f.strpush[j].prevstring, f.strpush[j].prevnleft) \o below[j - 1]
        BY <1>2, <3>6, <4>2, BelowIs
      <4>4. below[n - i] \in Seq(FileChars)
        BY <1>2, <3>3, <3>6, BelowIs
      <4> QED BY <3>2, <3>5, <4>1, <4>2, <4>3, <4>4
    <3>8. PICK y : y = below[n - i]
      OBVIOUS
    <3>9. << >> \o y = y
      BY <3>7, <3>8, CatIs, Zenon
    <3>10. below[n - (i - 1)] = below[n]
      BY <2>2, <3>6
    <3>11. below[n - i] = below[n]
      BY <3>1, <3>7, <3>8, <3>9, <3>10
    <3> QED BY <3>1, <3>6, <3>11
  <2>3. m - 1 \in Nat /\ m - 1 \in 0 .. m - 1
    BY <1>2
  <2>4. \A i \in 0 .. m - 1 : i \in J
    <3> HIDE DEF J
    <3> QED BY <2>1, <2>2, <2>3, UpTo
  <2> HIDE DEF J
  <2> QED BY <2>3, <2>4
<1>6. /\ q \in Recs /\ Level(q) /\ q.block = s.block
      /\ q.file = [f EXCEPT !.strpush = SubSeq(f.strpush, 1, n - m)]
      /\ q.file.strpush = SubSeq(f.strpush, 1, n - m)
      /\ q.nleft = f.strpush[n - m + 1].prevnleft
      /\ q.atab = Cleared(s.atab, ApsFrom(f.strpush, n - m))
      /\ Left(q) = Below(f, b)[n - m + 1]
  BY <1>3
<1>7. q.nleft \in Int /\ (q.nleft >= 0 \/ q.nleft = EOF_NLEFT + 1) /\ n - m \in 0 .. n /\ (q.nleft - 1) + 1 = q.nleft
  <2>1. PICK x : x = f.strpush[n - m + 1].prevnleft
    OBVIOUS
  <2>2. x \in Int /\ (x >= 0 \/ x = EOF_NLEFT + 1) /\ n - m \in 0 .. n
    BY <1>4, <2>1
  <2>3. q.nleft = x
    BY ONLY <1>6, <2>1
  <2>4. (x - 1) + 1 = x
    BY ONLY <2>2
  <2> QED BY ONLY <2>2, <2>3, <2>4
<1>8. /\ r.file = q.file /\ r.nextc = q.nextc /\ r.lleft = q.lleft /\ r.nleft = q.nleft - 1
      /\ r.atab = q.atab /\ r.block = q.block
  BY <1>6 DEF Recs
<1>9. r \in Recs
  <2>1. q.nleft - 1 \in Int
    BY <1>7
  <2> QED BY <1>6, <2>1 DEF Recs
<1>10. r.file.hasbuf = s.file.hasbuf
  BY <1>1, <1>2, <1>6, <1>8 DEF PFiles
<1>11. Popping(s, r)
  BY <1>1, <1>2, <1>6, <1>7, <1>8 DEF Popping
<1>12. LevelGood(r.file, r.nextc, r.nleft + 1, r.lleft) /\ Before(r) = Left(q)
  BY <1>6, <1>7, <1>8 DEF Level, Left, Before
<1>13. Left(q) = Before(s)
  <2>1. n - (m - 1) = n - m + 1
    BY <1>2
  <2>2. Left(q) = Below(f, b)[n]
    BY <1>5, <1>6, <2>1
  <2>3. LevelGood(f, s.nextc, s.nleft + 1, s.lleft)
    BY <1>1 DEF Wanting
  <2>4. PendL(f, s.nextc, s.nleft + 1, s.lleft) = Below(f, Base(f, s.nextc, s.nleft + 1, s.lleft))[Len(f.strpush)]
    BY <1>2, <2>3, PendIs
  <2> QED BY <1>1, <1>2, <2>2, <2>4 DEF Before
<1>14. r.file.strpush = << >> <=> m = n
  <2>1. f.strpush \in Seq(Frames)
    BY <1>2 DEF PFiles
  <2>2. SubSeq(f.strpush, 1, n - m) = << >> <=> n - m = 0
    BY <1>2, <1>7, <2>1, FrontIs
  <2>3. n - m = 0 <=> m = n
    BY <1>2
  <2> QED BY <1>6, <1>8, <2>2, <2>3
<1>15. r.nleft >= -1 \/ r.nleft = EOF_NLEFT
  BY <1>7, <1>8 DEF EOF_NLEFT
<1> QED BY <1>6, <1>8, <1>9, <1>10, <1>11, <1>12, <1>13, <1>14, <1>15 DEF Underneath

LEMMA OneIs ==
  ASSUME NEW s, Wanting(s), s.file.strpush # << >>, NEW k \in 1 .. Len(s.file.strpush)
  PROVE  popstring(s, k) \in Recs
<1>1. PICK b, o, n, sp : /\ b = Base(s.file, s.nextc, s.nleft, s.lleft) /\ o = popstring(s, k)
                         /\ n = Len(s.file.strpush) /\ sp = s.file.strpush[n - k + 1]
  OBVIOUS
<1>2. s \in Recs /\ LevelGood(s.file, s.nextc, s.nleft + 1, s.lleft)
  BY DEF Wanting
<1>3. b = Base(s.file, s.nextc, s.nleft + 1, s.lleft)
  BY <1>1 DEF Base
<1>4. Len(s.file.buf) <= Bufsiz /\ StackGood(s.file) /\ BaseGood(s.file, b)
  BY <1>2, <1>3 DEF LevelGood
<1>5. PoppedIs(s, b, k, o)
  BY <1>1, <1>2, <1>4, PopIs, Zenon
<1> QED BY <1>1, <1>5 DEF PoppedIs

LEMMA FakeIs ==
  ASSUME NEW s \in Recs, LevelGood(s.file, s.nextc, s.nleft + 1, s.lleft), s.nleft = -1,
         s.file.strpush # << >>, NEW r, r = [s EXCEPT !.c = PFAKE]
  PROVE  FakeOf(Before(s), r) /\ r \in Recs /\ Level(r) /\ r.file = s.file /\ r.atab = s.atab
         /\ r.block = s.block /\ r.nleft = -1
<1>1. PFAKE \in Got
  BY DEF Got
<1>2. /\ r \in Recs /\ r.file = s.file /\ r.nleft = s.nleft /\ r.c = PFAKE /\ r.atab = s.atab
      /\ r.block = s.block /\ (Level(r) <=> Level(s)) /\ Left(r) = Left(s)
  BY <1>1, SetIs
<1>3. s.nleft + 1 = 0
  OBVIOUS
<1>4. /\ LevelGood(s.file, s.nextc, -1, s.lleft)
      /\ PendL(s.file, s.nextc, -1, s.lleft) = PendL(s.file, s.nextc, s.nleft + 1, s.lleft)
  BY <1>3, LowerIs
<1>5. Level(s) /\ Left(s) = Before(s)
  BY <1>4 DEF Level, Left, Before
<1> QED BY <1>2, <1>5 DEF FakeOf

(* The parts of preadbuffer.                                               *)
PoppedOf(s) ==
  [k \in 0 .. Len(s.file.strpush) |-> IF k = 0 THEN s ELSE [popstring(s, k) EXCEPT !.nleft = @ - 1]]
StopsOf(s) ==
  {k \in 0 .. Len(s.file.strpush) :
     k = Len(s.file.strpush) \/ PoppedOf(s)[k].nleft >= 0 \/ FakeWanted(PoppedOf(s)[k])}
GotFrom(t) ==
  IF t.nleft >= 0 THEN Take(t)
  ELSE IF t.file.strpush = << >> THEN Refill(t)
  ELSE [t EXCEPT !.c = PFAKE]

LEMMA BufferBy ==
  ASSUME NEW s
  PROVE  preadbuffer(s) = GotFrom(PoppedOf(s)[Min(StopsOf(s))])
BY Zenon DEF preadbuffer, GotFrom, PoppedOf, StopsOf

LEMMA BufferIs ==
  ASSUME NEW s, Wanting(s), s.nleft < 0, NEW R, R = preadbuffer(s)
  PROVE  Outcome(s, Before(s), R)
<1>1. PICK n : n = Len(s.file.strpush)
  OBVIOUS
<1>2. PICK popped : popped = [k \in 0 .. n |-> IF k = 0 THEN s ELSE [popstring(s, k) EXCEPT !.nleft = @ - 1]]
  OBVIOUS
<1>3. PICK S : S = {k \in 0 .. n : k = n \/ popped[k].nleft >= 0 \/ FakeWanted(popped[k])}
  OBVIOUS
<1>4. PICK m, t : m = Min(S) /\ t = popped[m]
  OBVIOUS
<1>5. R = IF t.nleft >= 0 THEN Take(t)
          ELSE IF t.file.strpush = << >> THEN Refill(t) ELSE [t EXCEPT !.c = PFAKE]
  <2>1. popped = PoppedOf(s)
    BY <1>1, <1>2, Zenon DEF PoppedOf
  <2>2. S = StopsOf(s)
    BY <1>1, <1>3, <2>1, Zenon DEF StopsOf
  <2>3. R = GotFrom(t)
    BY <1>4, <2>1, <2>2, BufferBy, Zenon
  <2> QED BY <2>3, Zenon DEF GotFrom
<1>6. s \in Recs /\ s.file \in PFiles /\ n \in Nat /\ s.nleft \in Int
  <2>1. s \in Recs
    BY DEF Wanting
  <2> QED BY <1>1, <2>1, RecIs, FileIs
<1>7. m \in S /\ \A k \in S : m <= k
  <2>1. n \in S
    BY <1>3, <1>6
  <2>2. S \subseteq Nat
    BY <1>3, <1>6
  <2> QED BY <1>4, <2>1, <2>2, MinIs
<1>8. m \in 0 .. n /\ (m = n \/ t.nleft >= 0 \/ FakeWanted(t))
  BY <1>3, <1>4, <1>7
<1>9. \A i \in 1 .. m - 1 : popped[i] = [popstring(s, i) EXCEPT !.nleft = @ - 1] /\ ~(popped[i].nleft >= 0)
  <2> TAKE i \in 1 .. m - 1
  <2>1. i \in 0 .. n /\ i # 0 /\ i < m
    BY <1>6, <1>8
  <2>2. i \notin S
    BY <1>6, <1>7, <1>8, <2>1
  <2> QED BY <1>2, <1>3, <2>1, <2>2
<1>10. CASE m = 0
  <2>1. t = s
    BY <1>2, <1>4, <1>8, <1>10
  <2>2. CASE n = 0
    <3>1. s.file.strpush = << >>
      <4>1. PICK f : f = s.file
        OBVIOUS
      <4>2. f \in PFiles /\ Len(f.strpush) = 0
        BY <1>1, <1>6, <2>2, <4>1
      <4> QED BY <4>1, <4>2, FileIs
    <3>2. R = Refill(s)
      BY <1>5, <1>6, <2>1, <3>1
    <3> QED BY <3>1, <3>2, RefillIs
  <2>3. CASE n # 0
    <3>1. s.file.strpush # << >>
      BY <1>1, <2>3
    <3>2. s.nleft = -1
      BY <1>6, <1>8, <1>10, <2>1, <2>3 DEF FakeWanted
    <3>3. R = [s EXCEPT !.c = PFAKE]
      BY <1>5, <1>6, <2>1, <3>1
    <3>4. /\ FakeOf(Before(s), R) /\ R \in Recs /\ Level(R) /\ R.file = s.file /\ R.atab = s.atab
          /\ R.block = s.block /\ R.nleft = -1
      BY <1>6, <3>1, <3>2, <3>3, FakeIs DEF Wanting
    <3>5. Popping(s, R)
      BY <1>6, <3>4, NotPopped
    <3> QED BY <3>4, <3>5 DEF Outcome
  <2> QED BY <2>2, <2>3
<1>11. CASE m # 0
  <2>1. m \in 1 .. n /\ s.file.strpush # << >>
    BY <1>1, <1>6, <1>8, <1>11
  <2>2. PICK q : q = popstring(s, m)
    OBVIOUS
  <2>3. t = [q EXCEPT !.nleft = @ - 1]
    BY <1>2, <1>4, <1>8, <1>11, <2>2
  <2>4. \A i \in 1 .. m - 1 : popstring(s, i).nleft - 1 < 0
    <3> TAKE i \in 1 .. m - 1
    <3>1. PICK o : o = popstring(s, i)
      OBVIOUS
    <3>2. popped[i] = [o EXCEPT !.nleft = @ - 1] /\ ~(popped[i].nleft >= 0)
      BY <1>9, <3>1
    <3>3. o \in Recs
      <4>1. i \in 1 .. n
        BY <1>6, <1>8
      <4> QED BY <1>1, <2>1, <3>1, <4>1, OneIs
    <3>4. popped[i].nleft = o.nleft - 1 /\ o.nleft \in Int
      BY <3>2, <3>3, RecIs DEF Recs
    <3> QED BY <3>1, <3>2, <3>4
  <2>5. Underneath(s, m, t)
    BY <1>1, <2>1, <2>2, <2>3, <2>4, StringsPopped
  <2>6. /\ t \in Recs /\ t.block = s.block /\ t.nleft \in Int
        /\ t.file.hasbuf = s.file.hasbuf /\ Popping(s, t)
        /\ LevelGood(t.file, t.nextc, t.nleft + 1, t.lleft)
        /\ Before(t) = Before(s)
        /\ t.file.strpush = << >> <=> m = n
        /\ t.nleft >= -1 \/ t.nleft = EOF_NLEFT
    BY <1>1, <2>5, RecIs DEF Underneath
  <2>7. CASE t.nleft >= 0
    <3>1. R = Take(t)
      BY <1>5, <2>7
    <3>2. CharOf(Before(s), R) /\ R \in Recs /\ Level(R) /\ Same(t, R) /\ R.file = t.file /\ R.nleft = t.nleft
      BY <2>6, <2>7, <3>1, TakenIs
    <3>3. Popping(s, R)
      BY <2>6, <3>2 DEF Popping, Same
    <3>4. R.nleft # -2
      BY <2>6, <2>7, <3>2
    <3> QED BY <2>6, <3>2, <3>3, <3>4 DEF Outcome, Same
  <2>8. CASE ~(t.nleft >= 0) /\ t.file.strpush = << >>
    <3>1. R = Refill(t) /\ t.nleft < 0 /\ t.nleft # -2 /\ t.nleft # -3
      BY <1>5, <2>6, <2>8 DEF EOF_NLEFT
    <3>2. Wanting(t)
      BY <2>6, <3>1 DEF Wanting
    <3>3. Outcome(t, Before(t), R)
      BY <2>8, <3>1, <3>2, RefillIs
    <3>4. Popping(s, R)
      BY <1>6, <2>6, <3>3, PoppedOn DEF Outcome
    <3> QED BY <2>6, <3>1, <3>3, <3>4 DEF Outcome
  <2>9. CASE ~(t.nleft >= 0) /\ t.file.strpush # << >>
    <3>1. R = [t EXCEPT !.c = PFAKE]
      BY <1>5, <2>9
    <3>2. t.nleft = -1
      BY <1>8, <2>6, <2>9 DEF FakeWanted
    <3>3. /\ FakeOf(Before(t), R) /\ R \in Recs /\ Level(R) /\ R.file = t.file /\ R.atab = t.atab
          /\ R.block = t.block /\ R.nleft = -1
      BY <2>6, <2>9, <3>1, <3>2, FakeIs
    <3>4. Popping(s, R)
      BY <2>6, <3>3 DEF Popping
    <3> QED BY <2>6, <3>3, <3>4 DEF Outcome
  <2> QED BY <2>7, <2>8, <2>9
<1> QED BY <1>10, <1>11

------------------------------------------------------------------------------
(* Characters are got and put back, and strings are pushed.                *)
LEMMA Kinds ==
  /\ PEOF \notin Chars /\ PFAKE \notin Chars /\ NoChar \notin Chars
  /\ PEOF # PFAKE /\ PEOF # NoChar /\ PFAKE # NoChar
BY InputConstants DEF Chars, PEOF, PFAKE, NoChar

Obtained(s, r) ==
  /\ r \in Recs /\ Level(r) /\ r.block = s.block /\ r.file.hasbuf = s.file.hasbuf /\ Popping(s, r)
  /\ r.nleft = -2 => s.nleft = -1 /\ s.file.strpush = << >>
  /\ CharOf(Left(s), r) \/ EndOf(Left(s), r) \/ FakeOf(Left(s), r)

LEMMA MacroIs ==
  ASSUME NEW s \in Recs, Level(s), s.block <= Bufsiz, s.nleft # -2, NEW R, R = pgetc_macro(s)
  PROVE  Obtained(s, R)
<1>1. PICK t : t = [s EXCEPT !.nleft = @ - 1]
  OBVIOUS
<1>2. s.nleft \in Int /\ s.nleft - 1 \in Int /\ (s.nleft - 1) + 1 = s.nleft
  BY RecIs
<1>3. /\ t.file = s.file /\ t.nextc = s.nextc /\ t.nleft = s.nleft - 1 /\ t.lleft = s.lleft
      /\ t.atab = s.atab /\ t.block = s.block
  BY <1>1 DEF Recs
<1>4. t \in Recs
  BY <1>1, <1>2 DEF Recs
<1>5. Before(t) = Left(s) /\ LevelGood(t.file, t.nextc, t.nleft + 1, t.lleft)
  BY <1>2, <1>3 DEF Before, Left, Level
<1>6. CASE t.nleft >= 0
  <2>1. R = Take(t)
    BY <1>1, <1>6 DEF pgetc_macro
  <2>2. CharOf(Left(s), R) /\ R \in Recs /\ Level(R) /\ Same(t, R) /\ R.file = t.file /\ R.nleft = t.nleft
    BY <1>4, <1>5, <1>6, <2>1, TakenIs
  <2>3. Popping(s, R)
    BY <1>3, <2>2, NotPopped DEF Same
  <2>4. R.nleft # -2
    BY <1>2, <1>3, <1>6, <2>2
  <2> QED BY <1>3, <2>2, <2>3, <2>4 DEF Obtained, Same
<1>7. CASE ~(t.nleft >= 0)
  <2>1. R = preadbuffer(t)
    BY <1>1, <1>7 DEF pgetc_macro
  <2>2. Wanting(t) /\ t.nleft < 0
    BY <1>2, <1>3, <1>4, <1>5, <1>7 DEF Wanting
  <2>3. Outcome(t, Before(t), R)
    BY <2>1, <2>2, BufferIs
  <2>4. Popping(s, R)
    BY <1>3, <2>3 DEF Outcome, Popping
  <2>5. R.nleft = -2 => s.nleft = -1 /\ s.file.strpush = << >>
    BY <1>2, <1>3, <2>3 DEF Outcome
  <2> QED BY <1>3, <1>5, <2>3, <2>4, <2>5 DEF Outcome, Obtained
<1> QED BY <1>6, <1>7

LEMMA GetIs ==
  ASSUME NEW s \in Recs, Level(s), s.block <= Bufsiz, s.nleft # -2, NEW R, R = pgetc(s)
  PROVE  Obtained(s, R)
<1>1. PICK t : t = pgetc_macro(s)
  OBVIOUS
<1>2. Obtained(s, t)
  BY <1>1, MacroIs
<1>3. CASE t.c # PFAKE
  BY <1>1, <1>2, <1>3 DEF pgetc
<1>4. CASE t.c = PFAKE
  <2>1. R = pgetc_macro(t)
    BY <1>1, <1>4 DEF pgetc
  <2>2. FakeOf(Left(s), t)
    BY <1>2, <1>4, Kinds DEF Obtained, CharOf, EndOf
  <2>3. t \in Recs /\ Level(t) /\ t.block = s.block /\ t.file.hasbuf = s.file.hasbuf /\ Popping(s, t)
    BY <1>2 DEF Obtained
  <2>4. t.nleft = -1 /\ t.file.strpush # << >> /\ Left(t) = Left(s)
    BY <2>2 DEF FakeOf
  <2>5. Obtained(t, R)
    BY <2>1, <2>3, <2>4, MacroIs
  <2>6. Popping(s, R)
    BY <2>3, <2>5, PoppedOn DEF Obtained
  <2> QED BY <2>3, <2>4, <2>5, <2>6 DEF Obtained
<1> QED BY <1>3, <1>4

(* A place at which a string may be pushed.                                *)
Pushable(u) ==
  u.nleft >= 0 \/ (u.file.strpush = << >> /\ u.file.hasbuf /\ u.nleft = EOF_NLEFT + 1)

Restored(s, u) ==
  /\ u \in Recs /\ Level(u) /\ u.block = s.block /\ u.file.hasbuf = s.file.hasbuf /\ Popping(s, u)
  /\ Pushable(u) /\ u.c = NoChar
  /\ FileChars = Chars => Left(u) = Left(s)

LEMMA UngetOther ==
  ASSUME NEW text, NEW r \in Recs, Level(r), EndOf(text, r) \/ FakeOf(text, r), r.nleft # -2,
         NEW u, u = pungetc(r)
  PROVE  Level(u) /\ Left(u) = Left(r) /\ Pushable(u)
<1>1. PICK f, p, q, l : f = r.file /\ p = r.nextc /\ q = [r.nextc EXCEPT !.at = @ - 1] /\ l = r.lleft
  OBVIOUS
<1>2. u.file = f /\ u.nleft = r.nleft + 1 /\ u.lleft = l /\ u.nextc = q
  BY <1>1, UngetIs
<1>3. /\ f \in PFiles /\ p \in Places /\ l \in LLefts /\ l \in Int /\ r.nleft \in Int
      /\ LevelGood(f, p, r.nleft, l) /\ StackGood(f) /\ Len(f.buf) <= Bufsiz
  BY <1>1, RecIs DEF Level, LevelGood
<1>4. q \in Places /\ q.inbuf = p.inbuf
  BY <1>1, <1>3 DEF Places
<1>5. PICK n : n = r.nleft + 1
  OBVIOUS
<1>6. CASE FakeOf(text, r)
  <2>1. f.strpush # << >> /\ r.nleft = -1 /\ n = 0
    BY <1>1, <1>5, <1>6 DEF FakeOf
  <2>2. Base(f, q, n, l) = Base(f, p, r.nleft, l)
    BY <2>1 DEF Base
  <2>3. Reads(f, q, n)
    BY <2>1 DEF Reads
  <2>4. LevelGood(f, q, n, l)
    BY <1>3, <1>4, <2>1, <2>2, <2>3 DEF LevelGood
  <2>5. /\ PendL(f, q, n, l) = Below(f, Base(f, q, n, l))[Len(f.strpush)]
        /\ PendL(f, p, r.nleft, l) = Below(f, Base(f, p, r.nleft, l))[Len(f.strpush)]
    BY <1>3, <2>1, <2>4, PendIs
  <2> QED BY <1>1, <1>2, <1>5, <2>1, <2>2, <2>4, <2>5 DEF Level, Left, Pushable
<1>7. CASE EndOf(text, r)
  <2>1. f.strpush = << >> /\ Left(r) = << >>
    BY <1>1, <1>7 DEF EndOf
  <2>2. (f.hasbuf /\ n = EOF_NLEFT + 1 /\ r.nleft = EOF_NLEFT) \/ (~f.hasbuf /\ n = 0 /\ r.nleft = -1)
    BY <1>1, <1>5, <1>7 DEF EndOf
  <2>3. n \in Int /\ n <= 0 /\ r.nleft <= 0
    BY <2>2 DEF EOF_NLEFT
  <2>4. PICK b, e : b = Base(f, q, n, l) /\ e = Base(f, p, r.nleft, l)
    OBVIOUS
  <2>5. /\ b = [place |-> q, nleft |-> n, lleft |-> l] /\ b \in Bases
        /\ e = [place |-> p, nleft |-> r.nleft, lleft |-> l] /\ BaseGood(f, e)
    BY <1>3, <1>4, <2>1, <2>3, <2>4 DEF Base, Bases, LevelGood
  <2>6. Reads(f, q, n)
    BY <2>3 DEF Reads
  <2>7. BaseGood(f, b)
    <3>1. CASE f.hasbuf
      <4>1. /\ e.place = p /\ e.nleft = r.nleft /\ e.lleft = l
            /\ b.place = q /\ b.nleft = n /\ b.lleft = l
        BY <2>5
      <4>2. n = EOF_NLEFT + 1 /\ ~(r.nleft >= 0)
        BY <2>2, <3>1 DEF EOF_NLEFT
      <4>3. p.inbuf /\ l = EOF_NLEFT /\ f.unread = << >>
        BY <2>5, <3>1, <4>1, <4>2 DEF BaseGood
      <4> QED BY <1>4, <2>6, <3>1, <4>1, <4>2, <4>3 DEF BaseGood, Ended
    <3>2. CASE ~f.hasbuf
      <4>1. n >= -2
        BY <2>2, <3>2
      <4> QED BY <1>4, <2>5, <2>6, <3>2, <4>1 DEF BaseGood
    <3> QED BY <3>1, <3>2
  <2>8. LevelGood(f, q, n, l)
    BY <1>3, <1>4, <2>1, <2>3, <2>4, <2>6, <2>7 DEF LevelGood
  <2>9. PendL(f, q, n, l) = << >>
    <3>1. PendL(f, q, n, l) = Below(f, b)[Len(f.strpush)]
      BY <2>3, <2>4, <2>8, PendIs
    <3>2. Len(f.strpush) = 0 /\ Below(f, b)[0] = Lines(f, b)
      BY <1>3, <2>1, <2>5, <2>7, BelowIs
    <3>3. Lines(f, b) = << >>
      <4>1. CASE ~f.hasbuf
        BY <1>3, <2>5, <2>7, <4>1, LinesIs
      <4>2. CASE f.hasbuf
        <5>1. b.nleft < 0 /\ b.lleft = l
          BY <2>2, <2>5, <4>2 DEF EOF_NLEFT
        <5>2. l = EOF_NLEFT /\ f.unread = << >>
          <6>1. ~(b.nleft >= 0)
            BY <5>1, <2>3, <2>5
          <6> QED BY <2>7, <4>2, <5>1, <6>1 DEF BaseGood
        <5>3. b.lleft <= 0
          BY <5>1, <5>2 DEF EOF_NLEFT
        <5> QED BY <1>3, <2>5, <2>7, <4>2, <5>2, <5>3, LinesIs
      <4> QED BY <4>1, <4>2
    <3> QED BY <3>1, <3>2, <3>3
  <2>10. Pushable(u)
    BY <1>2, <1>5, <2>1, <2>2 DEF Pushable
  <2> QED BY <1>2, <1>5, <2>1, <2>8, <2>9, <2>10 DEF Level, Left
<1> QED BY <1>6, <1>7

LEMMA PutIs ==
  ASSUME NEW s \in Recs, NEW r, Obtained(s, r), r.nleft # -2, NEW u, u = pungetc(r)
  PROVE  Restored(s, u)
<1>1. /\ r \in Recs /\ Level(r) /\ r.block = s.block /\ r.file.hasbuf = s.file.hasbuf /\ Popping(s, r)
      /\ CharOf(Left(s), r) \/ EndOf(Left(s), r) \/ FakeOf(Left(s), r)
  BY DEF Obtained
<1>2. u \in Recs /\ Same(r, u) /\ u.file = r.file /\ u.nleft = r.nleft + 1 /\ u.c = NoChar
  BY <1>1, UngetIs
<1>3. Popping(s, u) /\ u.block = s.block
  BY <1>1, <1>2 DEF Popping, Same
<1>4. Level(u) /\ Pushable(u) /\ (FileChars = Chars => Left(u) = Left(s))
  <2>1. CASE CharOf(Left(s), r)
    <3>1. u.nleft >= 0
      BY <1>1, <1>2, <2>1, RecIs DEF CharOf
    <3> QED BY <2>1, <3>1 DEF CharOf, Pushable
  <2>2. CASE EndOf(Left(s), r) \/ FakeOf(Left(s), r)
    <3>1. Level(u) /\ Left(u) = Left(r) /\ Pushable(u)
      BY <1>1, <2>2, UngetOther
    <3> QED BY <2>2, <3>1 DEF EndOf, FakeOf
  <2> QED BY <1>1, <2>1, <2>2
<1> QED BY <1>1, <1>2, <1>3, <1>4 DEF Restored

PushedIs(u, text, ap, r) ==
  /\ r \in Recs /\ Level(r) /\ Left(r) = text \o Left(u)
  /\ \E frame \in Frames : frame.ap = ap /\ r.file.strpush = Append(u.file.strpush, frame)
  /\ r.atab = IF ap = 0 THEN u.atab ELSE [u.atab EXCEPT ![ap].inuse = TRUE]
  /\ r.nleft = Len(text) /\ r.c = u.c /\ r.check = u.check /\ r.block = u.block
  /\ r.file.hasbuf = u.file.hasbuf /\ r.file.strpush # << >>

LEMMA PushIs ==
  ASSUME NEW u \in Recs, Level(u), Pushable(u), NEW text \in Seq(Chars), NEW ap \in AliasIds \cup {0},
         NEW r, r = pushstring(u, text, ap)
  PROVE  PushedIs(u, text, ap, r)
<1>1. PICK f, p, n, l, table : f = u.file /\ p = u.nextc /\ n = u.nleft /\ l = u.lleft /\ table = u.atab
  OBVIOUS
<1>2. PICK N, k, q, fr : /\ N = Len(f.strpush) /\ k = Len(text) /\ q = InText(text)
                         /\ fr = [prevstring |-> p, prevnleft |-> n, prevlleft |-> l, ap |-> ap]
  OBVIOUS
<1>3. /\ f \in PFiles /\ p \in Places /\ n \in Int /\ l \in LLefts /\ LevelGood(f, p, n, l)
      /\ Len(f.buf) <= Bufsiz /\ StackGood(f) /\ Reads(f, p, n) /\ table \in [AliasIds -> Entries]
      /\ N \in Nat /\ DOMAIN f.strpush = 1 .. N /\ f.strpush \in Seq(Frames)
  <2>1. LevelGood(f, p, n, l) /\ table \in [AliasIds -> Entries]
    BY <1>1, RecIs DEF Level
  <2>2. /\ f \in PFiles /\ p \in Places /\ n \in Int /\ l \in LLefts
        /\ Len(f.buf) <= Bufsiz /\ StackGood(f) /\ Reads(f, p, n)
    BY <2>1 DEF LevelGood
  <2>3. f.strpush \in Seq(Frames)
    BY <2>2 DEF PFiles
  <2> QED BY <1>2, <2>1, <2>2, <2>3, FileIs
<1>4. k \in Nat /\ q \in Places /\ ~q.inbuf /\ q.text = text /\ q.at = 1
  BY <1>2 DEF InText, Places
<1>5. fr \in Frames /\ fr.prevstring = p /\ fr.prevnleft = n /\ fr.prevlleft = l /\ fr.ap = ap
  BY <1>2, <1>3 DEF Frames
<1>6. PICK x : x = Append(f.strpush, fr)
  OBVIOUS
<1>7. /\ x \in Seq(Frames) /\ x # << >> /\ Len(x) = N + 1 /\ DOMAIN x = 1 .. N + 1
      /\ \A j \in 1 .. N : x[j] = f.strpush[j]
      /\ x[N + 1] = fr
  BY <1>2, <1>3, <1>5, <1>6, AppendProperties, LenProperties
<1>8. PICK g : g = [f EXCEPT !.strpush = x]
  OBVIOUS
<1>9. /\ g \in PFiles /\ g.strpush = x /\ g.buf = f.buf /\ g.unread = f.unread /\ g.hasbuf = f.hasbuf
  BY <1>3, <1>7, <1>8 DEF PFiles
<1>10. ASSUME NEW y, NEW i PROVE Slice(g, y, i) = Slice(f, y, i) /\ (Reads(g, y, i) <=> Reads(f, y, i))
  BY <1>9 DEF Slice, Text, Reads
<1>11. PICK b : b = Base(f, p, n, l)
  OBVIOUS
<1>12. b \in Bases /\ BaseGood(f, b)
  BY <1>3, <1>11, BaseIs DEF LevelGood
<1>13. Base(g, q, k, l) = b
  <2>1. Base(g, q, k, l) = [place |-> x[1].prevstring, nleft |-> x[1].prevnleft, lleft |-> x[1].prevlleft]
    BY <1>7, <1>9 DEF Base
  <2>2. CASE f.strpush = << >>
    <3>1. N = 0
      BY <1>2, <2>2
    <3>2. x[1] = fr
      BY <1>7, <3>1
    <3>3. b = [place |-> p, nleft |-> n, lleft |-> l]
      BY <1>11, <2>2 DEF Base
    <3> QED BY <1>5, <2>1, <3>2, <3>3
  <2>3. CASE f.strpush # << >>
    <3>1. N >= 1
      BY <1>2, <1>3, <2>3, FileIs
    <3>2. 1 \in 1 .. N
      BY <1>3, <3>1
    <3>3. x[1] = f.strpush[1]
      BY <1>7, <3>2
    <3> QED BY <1>11, <2>1, <2>3, <3>3 DEF Base
  <2> QED BY <2>2, <2>3
<1>14. BaseGood(g, b)
  BY <1>9, <1>10, <1>12 DEF BaseGood
<1>15. StackGood(g)
  <2>1. ASSUME NEW j \in DOMAIN x
        PROVE  /\ Reads(g, x[j].prevstring, x[j].prevnleft)
               /\ x[j].prevnleft >= 0 \/ (j = 1 /\ g.hasbuf /\ x[j].prevnleft = EOF_NLEFT + 1)
    <3>1. CASE j = N + 1
      <4>1. x[j] = fr
        BY <1>7, <3>1
      <4>2. n >= 0 \/ (N = 0 /\ f.hasbuf /\ n = EOF_NLEFT + 1)
        BY <1>1, <1>2 DEF Pushable
      <4>3. Reads(g, p, n)
        BY <1>3, <1>10
      <4> QED BY <1>3, <1>5, <1>9, <3>1, <4>1, <4>2, <4>3
    <3>2. CASE j # N + 1
      <4>1. j \in 1 .. N
        BY <1>3, <1>7, <3>2
      <4>2. j \in DOMAIN f.strpush /\ x[j] = f.strpush[j]
        BY <1>3, <1>7, <4>1
      <4>3. /\ Reads(f, f.strpush[j].prevstring, f.strpush[j].prevnleft)
            /\ f.strpush[j].prevnleft >= 0 \/ (j = 1 /\ f.hasbuf /\ f.strpush[j].prevnleft = EOF_NLEFT + 1)
        BY <1>3, <4>2 DEF StackGood
      <4> QED BY <1>9, <1>10, <4>2, <4>3
    <3> QED BY <3>1, <3>2
  <2> QED BY <1>9, <2>1 DEF StackGood
<1>16. Text(g, q) = text
  BY <1>4 DEF Text
<1>17. Reads(g, q, k)
  <2>1. \A i \in 1 .. k : text[i] \in Chars
    BY <1>2
  <2>2. q.at + k - 1 = k
    BY <1>4
  <2> QED BY <1>2, <1>4, <1>16, <2>1, <2>2 DEF Reads
<1>18. LevelGood(g, q, k, l)
  <2>1. k \in Int /\ k >= -1
    BY <1>4
  <2> QED BY <1>3, <1>4, <1>9, <1>13, <1>14, <1>15, <1>17, <2>1 DEF LevelGood
<1>19. PendL(g, q, k, l) = text \o PendL(f, p, n, l)
  <2>1. Slice(g, q, k) = text
    <3>1. 1 + k - 1 = k
      BY <1>4
    <3>2. SubSeq(text, 1, k) = text
      BY <1>2, SubSeqFull
    <3> QED BY <1>4, <1>16, <3>1, <3>2 DEF Slice
  <2>2. PICK bg, bf : bg = Below(g, b) /\ bf = Below(f, b)
    OBVIOUS
  <2>3. bg[N] = bf[N]
    <3>1. N <= Len(f.strpush) /\ N <= Len(g.strpush) /\ N \in 0 .. N
      BY <1>2, <1>3, <1>7, <1>9
    <3>2. \A j \in 1 .. N : f.strpush[j] = g.strpush[j]
      BY <1>7, <1>9
    <3>3. \A j \in 0 .. N : bf[j] = bg[j]
      BY <1>3, <1>9, <1>12, <1>14, <1>15, <2>2, <3>1, <3>2, BelowSame
    <3> QED BY <3>1, <3>3
  <2>4. bg[N + 1] = Slice(f, p, n) \o bg[N]
    <3>1. PICK j : j = N + 1
      OBVIOUS
    <3>2. j \in 1 .. Len(g.strpush) /\ j - 1 = N /\ g.strpush[j] = fr
      BY <1>3, <1>7, <1>9, <3>1
    <3>3. bg[j] = Slice(g, g.strpush[j].prevstring, g.strpush[j].prevnleft) \o bg[j - 1]
      BY <1>9, <1>12, <1>14, <1>15, <2>2, <3>2, BelowIs
    <3> QED BY <1>5, <1>10, <3>1, <3>2, <3>3
  <2>5. PendL(g, q, k, l) = text \o bg[N + 1]
    BY <1>7, <1>9, <1>13, <2>1, <2>2 DEF PendL
  <2>6. PendL(f, p, n, l) = Slice(f, p, n) \o bf[N]
    BY <1>2, <1>11, <2>2 DEF PendL
  <2> QED BY <2>3, <2>4, <2>5, <2>6
<1>20. PICK table1 : table1 = IF ap = 0 THEN table ELSE [table EXCEPT ![ap].inuse = TRUE]
  OBVIOUS
<1>21. table1 \in [AliasIds -> Entries]
  BY <1>3, <1>20 DEF Entries
<1>22. r = [u EXCEPT !.atab = table1, !.file = g, !.nextc = q, !.nleft = k]
  <2>1. PICK v : v = IF ap = 0 THEN u ELSE [u EXCEPT !.atab[ap].inuse = TRUE]
    OBVIOUS
  <2>2. v = [u EXCEPT !.atab = table1] /\ v.file = f /\ v.nextc = p /\ v.nleft = n /\ v.lleft = l
    BY <1>1, <1>20, <2>1 DEF Recs
  <2>3. r = [v EXCEPT !.file.strpush = Append(@, [prevstring |-> u.nextc, prevnleft |-> u.nleft,
                                                  prevlleft |-> u.lleft, ap |-> ap]),
                      !.nextc = InText(text), !.nleft = Len(text)]
    BY <2>1 DEF pushstring
  <2>4. r = [v EXCEPT !.file.strpush = Append(@, fr), !.nextc = q, !.nleft = k]
    BY <1>1, <1>2, <2>3
  <2>5. v \in Recs
    BY <1>21, <2>2 DEF Recs
  <2>6. r = [v EXCEPT !.file = g, !.nextc = q, !.nleft = k]
    BY <1>6, <1>8, <2>2, <2>4, <2>5 DEF Recs
  <2> QED BY <2>2, <2>6 DEF Recs
<1>23. /\ r.file = g /\ r.nextc = q /\ r.nleft = k /\ r.lleft = l /\ r.atab = table1 /\ r.c = u.c
       /\ r.check = u.check /\ r.block = u.block
  BY <1>1, <1>22 DEF Recs
<1>24. r \in Recs
  <2>1. k \in Int
    BY <1>4
  <2>2. u \in Recs /\ g \in PFiles /\ q \in Places
    BY <1>4, <1>9
  <2> QED BY ONLY <2>1, <2>2, <1>21, <1>22 DEF Recs
<1>25. Level(r) /\ Left(r) = text \o Left(u)
  BY <1>1, <1>18, <1>19, <1>23 DEF Level, Left
<1> QED BY <1>1, <1>2, <1>5, <1>6, <1>7, <1>9, <1>20, <1>23, <1>24, <1>25 DEF PushedIs

------------------------------------------------------------------------------
(* Where aliases are pushed, in a stack of files.                          *)
Slots(files) == UNION {{<<i, j>> : j \in DOMAIN files[i].strpush} : i \in DOMAIN files}
ApAt(files, p) == files[p[1]].strpush[p[2]].ap

UsesGood(files, table) ==
  /\ \A p \in Slots(files) : ApAt(files, p) # 0 =>
       table[ApAt(files, p)].inuse /\ table[ApAt(files, p)].name # "free"
  /\ \A p, q \in Slots(files) : ApAt(files, p) # 0 /\ ApAt(files, p) = ApAt(files, q) => p = q
  /\ \A a \in AliasIds : table[a].inuse => \E p \in Slots(files) : ApAt(files, p) = a

LEMMA FewerUses ==
  ASSUME NEW files, NEW files1, NEW table \in [AliasIds -> Entries], UsesGood(files, table),
         \A p \in Slots(files) : ApAt(files, p) \in AliasIds \cup {0},
         \A p \in Slots(files1) : p \in Slots(files) /\ ApAt(files1, p) = ApAt(files, p),
         NEW S, \A a \in AliasIds : a \in S <=> \E p \in Slots(files) : p \notin Slots(files1) /\ ApAt(files, p) = a
  PROVE  UsesGood(files1, Cleared(table, S))
<1>1. PICK table1 : table1 = Cleared(table, S)
  OBVIOUS
<1>2. ASSUME NEW a \in AliasIds
      PROVE  /\ table1[a].name = table[a].name
             /\ a \in S => ~table1[a].inuse
             /\ a \notin S => table1[a].inuse = table[a].inuse
  BY <1>1 DEF Cleared, Entries
<1>3. ASSUME NEW p \in Slots(files1), ApAt(files1, p) # 0
      PROVE  ApAt(files1, p) \in AliasIds /\ ApAt(files1, p) \notin S
  <2>1. p \in Slots(files) /\ ApAt(files, p) = ApAt(files1, p) /\ ApAt(files, p) \in AliasIds
    BY <1>3
  <2>2. ASSUME NEW q \in Slots(files), q \notin Slots(files1), ApAt(files, q) = ApAt(files, p) PROVE FALSE
    BY <1>3, <2>1, <2>2 DEF UsesGood
  <2> QED BY <2>1, <2>2
<1>4. ASSUME NEW p \in Slots(files1), ApAt(files1, p) # 0
      PROVE  table1[ApAt(files1, p)].inuse /\ table1[ApAt(files1, p)].name # "free"
  <2>1. PICK a : a = ApAt(files1, p)
    OBVIOUS
  <2>2. a \in AliasIds /\ a \notin S /\ p \in Slots(files) /\ ApAt(files, p) = a /\ a # 0
    BY <1>3, <1>4, <2>1
  <2>3. table[a].inuse /\ table[a].name # "free"
    BY <2>2 DEF UsesGood
  <2> QED BY <1>2, <2>1, <2>2, <2>3
<1>5. ASSUME NEW p \in Slots(files1), NEW q \in Slots(files1), ApAt(files1, p) # 0,
             ApAt(files1, p) = ApAt(files1, q)
      PROVE  p = q
  BY <1>5 DEF UsesGood
<1>6. ASSUME NEW a \in AliasIds, table1[a].inuse PROVE \E p \in Slots(files1) : ApAt(files1, p) = a
  <2>1. a \notin S /\ table[a].inuse
    BY <1>2, <1>6
  <2>2. PICK p \in Slots(files) : ApAt(files, p) = a
    BY <2>1 DEF UsesGood
  <2>3. p \in Slots(files1)
    BY <2>1, <2>2
  <2> QED BY <2>2, <2>3
<1> QED BY <1>1, <1>4, <1>5, <1>6 DEF UsesGood

LEMMA MoreUses ==
  ASSUME NEW files, NEW files1, NEW table \in [AliasIds -> Entries], UsesGood(files, table),
         NEW q, q \notin Slots(files), q \in Slots(files1), NEW ap \in AliasIds \cup {0},
         ApAt(files1, q) = ap,
         \A p \in Slots(files) : ApAt(files, p) \in AliasIds \cup {0},
         \A p \in Slots(files) : p \in Slots(files1) /\ ApAt(files1, p) = ApAt(files, p),
         \A p \in Slots(files1) : p \in Slots(files) \/ p = q,
         ap # 0 => ~table[ap].inuse /\ table[ap].name # "free",
         NEW table1, table1 = IF ap = 0 THEN table ELSE [table EXCEPT ![ap].inuse = TRUE]
  PROVE  UsesGood(files1, table1)
<1>1. ASSUME NEW a \in AliasIds
      PROVE  /\ table1[a].name = table[a].name
             /\ a # ap => table1[a].inuse = table[a].inuse
             /\ a = ap => table1[a].inuse
  <2>1. CASE ap = 0
    <3>1. a # ap
      BY <2>1 DEF AliasIds
    <3> QED BY <2>1, <3>1
  <2>2. CASE ap # 0
    BY <2>2 DEF Entries
  <2> QED BY <2>1, <2>2
<1>2. ASSUME NEW p \in Slots(files), ApAt(files, p) # 0
      PROVE  ApAt(files, p) \in AliasIds /\ ApAt(files, p) # ap /\ table[ApAt(files, p)].inuse
             /\ table[ApAt(files, p)].name # "free"
  BY <1>2 DEF UsesGood
<1>3. ASSUME NEW p \in Slots(files1), ApAt(files1, p) # 0
      PROVE  table1[ApAt(files1, p)].inuse /\ table1[ApAt(files1, p)].name # "free"
  <2>1. CASE p = q
    <3>1. ap # 0 /\ ap \in AliasIds
      BY <1>3, <2>1
    <3> QED BY <1>1, <2>1, <3>1
  <2>2. CASE p # q
    <3>1. PICK a : a = ApAt(files1, p)
      OBVIOUS
    <3>2. a \in AliasIds /\ a # ap /\ table[a].inuse /\ table[a].name # "free"
      BY <1>2, <1>3, <2>2, <3>1
    <3> QED BY <1>1, <3>1, <3>2
  <2> QED BY <2>1, <2>2
<1>4. ASSUME NEW p \in Slots(files1), NEW o \in Slots(files1), ApAt(files1, p) # 0,
             ApAt(files1, p) = ApAt(files1, o)
      PROVE  p = o
  BY <1>2, <1>4 DEF UsesGood
<1>5. ASSUME NEW a \in AliasIds, table1[a].inuse PROVE \E p \in Slots(files1) : ApAt(files1, p) = a
  <2>1. CASE a = ap
    BY <2>1
  <2>2. CASE a # ap
    <3>1. table[a].inuse
      BY <1>1, <1>5, <2>2
    <3>2. PICK p \in Slots(files) : ApAt(files, p) = a
      BY <3>1 DEF UsesGood
    <3> QED BY <3>2
  <2> QED BY <2>1, <2>2
<1> QED BY <1>3, <1>4, <1>5 DEF UsesGood

(* Aliases change, but not what is in use.                                 *)
LEMMA OtherUses ==
  ASSUME NEW files, NEW table, UsesGood(files, table),
         \A p \in Slots(files) : ApAt(files, p) \in AliasIds \cup {0},
         NEW table1, \A a \in AliasIds : (table1[a].inuse <=> table[a].inuse) /\
                       (table[a].inuse /\ table[a].name # "free" => table1[a].name # "free")
  PROVE  UsesGood(files, table1)
<1>1. ASSUME NEW p \in Slots(files), ApAt(files, p) # 0
      PROVE  table1[ApAt(files, p)].inuse /\ table1[ApAt(files, p)].name # "free"
  <2>1. PICK a : a = ApAt(files, p)
    OBVIOUS
  <2>2. a \in AliasIds /\ table[a].inuse /\ table[a].name # "free"
    BY <1>1, <2>1 DEF UsesGood
  <2> QED BY <2>1, <2>2
<1>2. \A p, q \in Slots(files) : ApAt(files, p) # 0 /\ ApAt(files, p) = ApAt(files, q) => p = q
  BY Zenon DEF UsesGood
<1>3. ASSUME NEW a \in AliasIds, table1[a].inuse PROVE \E p \in Slots(files) : ApAt(files, p) = a
  <2>1. table[a].inuse
    BY <1>3
  <2> QED BY <2>1 DEF UsesGood
<1> QED BY <1>1, <1>2, <1>3 DEF UsesGood

------------------------------------------------------------------------------
(* The stack of files, with the current place in a record of its own.      *)
Current(files, f) == Append(Front(files), f)

Saved(f) == LevelGood(f, f.nextc, f.nleft, f.lleft) /\ f.nleft # -2

Held(files, s) ==
  /\ files \in Seq(PFiles) /\ Len(files) \in 1 .. MaxFiles /\ files[1].hasbuf
  /\ files[Len(files)] = s.file
  /\ \A i \in 1 .. Len(files) - 1 : Saved(files[i])
  /\ s \in Recs /\ Level(s)
  /\ UsesGood(files, s.atab)

LEMMA CurrentIs ==
  ASSUME NEW files \in Seq(PFiles), files # << >>, NEW f \in PFiles
  PROVE  /\ Current(files, f) \in Seq(PFiles) /\ Len(Current(files, f)) = Len(files)
         /\ Current(files, f) # << >>
         /\ \A i \in 1 .. Len(files) - 1 : Current(files, f)[i] = files[i]
         /\ Current(files, f)[Len(files)] = f
         /\ \A g \in PFiles : Current(Current(files, f), g) = Current(files, g)
         /\ f = files[Len(files)] => Current(files, f) = files
<1>1. PICK N : N = Len(files)
  OBVIOUS
<1>2. N \in Nat /\ N >= 1
  BY <1>1
<1>3. PICK x : x = SubSeq(files, 1, N - 1)
  OBVIOUS
<1>4. x \in Seq(PFiles) /\ Len(x) = N - 1 /\ \A i \in 1 .. N - 1 : x[i] = files[i]
  <2>1. N - 1 \in 0 .. N
    BY <1>2
  <2> QED BY <1>1, <1>3, <2>1, FrontIs
<1>5. \A g \in PFiles : Current(files, g) = Append(x, g)
  BY <1>1, <1>3 DEF Current, Front
<1>6. \A g \in PFiles : /\ Append(x, g) \in Seq(PFiles) /\ Append(x, g) # << >> /\ Len(Append(x, g)) = N
                        /\ \A i \in 1 .. N - 1 : Append(x, g)[i] = files[i]
                        /\ Append(x, g)[N] = g
  <2> TAKE g \in PFiles
  <2>1. /\ Append(x, g) \in Seq(PFiles) /\ Append(x, g) # << >> /\ Len(Append(x, g)) = (N - 1) + 1
        /\ \A i \in 1 .. N - 1 : Append(x, g)[i] = x[i]
        /\ Append(x, g)[(N - 1) + 1] = g
    BY <1>4, AppendProperties
  <2>2. (N - 1) + 1 = N
    BY <1>2
  <2> QED BY <1>4, <2>1, <2>2
<1>7. PICK y : y = Append(x, f)
  OBVIOUS
<1>8. /\ y \in Seq(PFiles) /\ Len(y) = N /\ y # << >> /\ \A i \in 1 .. N - 1 : y[i] = files[i]
      /\ y[N] = f
  BY <1>6, <1>7
<1>9. ASSUME NEW g \in PFiles PROVE Current(y, g) = Append(x, g)
  <2>1. N - 1 \in 0 .. N /\ \A i \in 1 .. N - 1 : i \in 1 .. N
    BY <1>2
  <2>2. PICK z : z = SubSeq(y, 1, N - 1)
    OBVIOUS
  <2>3. z \in Seq(PFiles) /\ Len(z) = N - 1 /\ \A i \in 1 .. N - 1 : z[i] = y[i]
    BY <1>8, <2>1, <2>2, FrontIs
  <2>4. z = x
    BY <1>4, <1>8, <2>3, SeqEqual
  <2> QED BY <1>8, <2>2, <2>4 DEF Current, Front
<1>10. f = files[N] => y = files
  <2> HAVE f = files[N]
  <2>1. \A i \in 1 .. N : y[i] = files[i]
    <3> TAKE i \in 1 .. N
    <3>1. i \in 1 .. N - 1 \/ i = N
      BY <1>2
    <3> QED BY <1>8, <3>1
  <2> QED BY <1>1, <1>8, <2>1, SeqEqual
<1>11. Current(files, f) = y
  BY <1>5, <1>7
<1> QED BY <1>1, <1>5, <1>8, <1>9, <1>10, <1>11

LEMMA SlotsIs ==
  ASSUME NEW files \in Seq(PFiles)
  PROVE  /\ \A p \in Slots(files) : ApAt(files, p) \in AliasIds \cup {0}
         /\ \A i, j : <<i, j>> \in Slots(files) <=> i \in 1 .. Len(files) /\ j \in 1 .. Len(files[i].strpush)
         /\ \A p \in Slots(files) : p = <<p[1], p[2]>>
<1>1. ASSUME NEW i \in 1 .. Len(files)
      PROVE  DOMAIN files[i].strpush = 1 .. Len(files[i].strpush) /\ files[i] \in PFiles /\ Len(files[i].strpush) \in Nat
             /\ \A j \in 1 .. Len(files[i].strpush) : files[i].strpush[j] \in Frames
  BY FileIs
<1>2. DOMAIN files = 1 .. Len(files)
  OBVIOUS
<1>3. ASSUME NEW p \in Slots(files)
      PROVE  p[1] \in 1 .. Len(files) /\ p[2] \in 1 .. Len(files[p[1]].strpush) /\ p = <<p[1], p[2]>>
  BY <1>1, <1>2 DEF Slots
<1>4. ASSUME NEW i \in 1 .. Len(files), NEW j \in 1 .. Len(files[i].strpush) PROVE <<i, j>> \in Slots(files)
  <2>1. j \in Nat /\ j \in DOMAIN files[i].strpush
    BY <1>1
  <2> QED BY <1>2, <2>1 DEF Slots
<1>5. ASSUME NEW p \in Slots(files) PROVE ApAt(files, p) \in AliasIds \cup {0}
  <2>1. files[p[1]].strpush[p[2]] \in Frames
    BY <1>1, <1>3
  <2> QED BY <2>1 DEF ApAt, Frames
<1>6. ASSUME NEW i, NEW j, <<i, j>> \in Slots(files)
      PROVE  i \in 1 .. Len(files) /\ j \in 1 .. Len(files[i].strpush)
  <2>1. PICK p : p = <<i, j>>
    OBVIOUS
  <2>2. p[1] = i /\ p[2] = j
    BY <2>1
  <2> QED BY <1>3, <1>6, <2>1, <2>2
<1> QED BY <1>3, <1>4, <1>5, <1>6

LEMMA HeldPopped ==
  ASSUME NEW files, NEW s, Held(files, s), NEW r \in Recs, Level(r), r.file.hasbuf = s.file.hasbuf, Popping(s, r)
  PROVE  Held(Current(files, r.file), r)
<1>1. PICK N, g, f, x, y : N = Len(files) /\ g = r.file /\ f = s.file /\ x = Current(files, g) /\ y = f.strpush
  OBVIOUS
<1>2. /\ files \in Seq(PFiles) /\ N \in 1 .. MaxFiles /\ N \in Nat /\ N >= 1 /\ files # << >> /\ files[1].hasbuf
      /\ files[N] = f /\ \A i \in 1 .. N - 1 : Saved(files[i])
      /\ s \in Recs /\ UsesGood(files, s.atab) /\ f \in PFiles /\ g \in PFiles
      /\ s.atab \in [AliasIds -> Entries]
  BY <1>1, RecIs DEF Held
<1>3. /\ x \in Seq(PFiles) /\ Len(x) = N /\ \A i \in 1 .. N - 1 : x[i] = files[i]
      /\ x[N] = g
  BY <1>1, <1>2, CurrentIs
<1>4. x[1].hasbuf
  <2>1. CASE N = 1
    BY <1>1, <1>2, <1>3, <2>1
  <2>2. CASE N # 1
    <3>1. 1 \in 1 .. N - 1
      BY <1>2, <2>2
    <3> QED BY <1>2, <1>3, <3>1
  <2> QED BY <2>1, <2>2
<1>5. PICK m \in 0 .. Len(y) : g.strpush = SubSeq(y, 1, m) /\ r.atab = Cleared(s.atab, ApsFrom(y, m))
  BY <1>1 DEF Popping
<1>6. /\ y \in Seq(Frames) /\ Len(y) \in Nat /\ m \in Nat /\ Len(g.strpush) = m
      /\ \A j \in 1 .. m : g.strpush[j] = y[j]
  <2>1. y \in Seq(Frames) /\ Len(y) \in Nat
    BY <1>1, <1>2 DEF PFiles
  <2> QED BY <1>5, <2>1, FrontIs
<1>7. ASSUME NEW p \in Slots(x) PROVE p \in Slots(files) /\ ApAt(x, p) = ApAt(files, p)
  <2>1. PICK i, j : p = <<i, j>> /\ i \in 1 .. N /\ j \in 1 .. Len(x[i].strpush)
    <3>1. p = <<p[1], p[2]>>
      BY <1>3, SlotsIs
    <3>2. p[1] \in 1 .. N /\ p[2] \in 1 .. Len(x[p[1]].strpush)
      BY <1>3, <3>1, SlotsIs
    <3> QED BY <3>1, <3>2
  <2>2. CASE i = N
    <3>1. j \in 1 .. m /\ j \in 1 .. Len(y)
      BY <1>3, <1>6, <2>1, <2>2
    <3>2. p \in Slots(files)
      BY <1>1, <1>2, <2>1, <2>2, <3>1, SlotsIs
    <3> QED BY <1>1, <1>2, <1>3, <1>6, <2>1, <2>2, <3>1, <3>2 DEF ApAt
  <2>3. CASE i # N
    <3>1. i \in 1 .. N - 1
      BY <1>2, <2>1, <2>3
    <3>2. x[i] = files[i]
      BY <1>3, <3>1
    <3>3. p \in Slots(files)
      BY <1>1, <1>2, <2>1, <3>2, SlotsIs
    <3> QED BY <2>1, <3>2, <3>3 DEF ApAt
  <2> QED BY <2>2, <2>3
<1>8. ASSUME NEW a \in AliasIds
      PROVE  a \in ApsFrom(y, m) <=> \E p \in Slots(files) : p \notin Slots(x) /\ ApAt(files, p) = a
  <2>1. ASSUME a \in ApsFrom(y, m)
        PROVE  \E p \in Slots(files) : p \notin Slots(x) /\ ApAt(files, p) = a
    <3>1. PICK j \in m + 1 .. Len(y) : y[j].ap = a
      BY <2>1 DEF ApsFrom
    <3>2. PICK p : p = <<N, j>>
      OBVIOUS
    <3>3. j \in 1 .. Len(y) /\ j \notin 1 .. m
      BY <1>6
    <3>4. p \in Slots(files)
      BY <1>1, <1>2, <3>2, <3>3, SlotsIs
    <3>5. p \notin Slots(x)
      BY <1>3, <1>6, <3>2, <3>3, SlotsIs
    <3>6. ApAt(files, p) = a
      BY <1>1, <1>2, <3>1, <3>2 DEF ApAt
    <3> QED BY <3>4, <3>5, <3>6
  <2>2. ASSUME NEW p \in Slots(files), p \notin Slots(x), ApAt(files, p) = a PROVE a \in ApsFrom(y, m)
    <3>1. PICK i, j : p = <<i, j>> /\ i \in 1 .. N /\ j \in 1 .. Len(files[i].strpush)
      <4>1. p = <<p[1], p[2]>>
        BY <1>2, SlotsIs
      <4>2. p[1] \in 1 .. N /\ p[2] \in 1 .. Len(files[p[1]].strpush)
        BY <1>1, <1>2, <4>1, SlotsIs
      <4> QED BY <4>1, <4>2
    <3>2. i = N
      <4>1. CASE i # N
        <5>1. i \in 1 .. N - 1
          BY <1>2, <3>1, <4>1
        <5>2. x[i] = files[i]
          BY <1>3, <5>1
        <5>3. p \in Slots(x)
          BY <1>3, <3>1, <5>2, SlotsIs
        <5> QED BY <2>2, <5>3
      <4> QED BY <4>1
    <3>3. j \in 1 .. Len(y) /\ y[j].ap = a
      BY <1>1, <1>2, <2>2, <3>1, <3>2 DEF ApAt
    <3>4. j \notin 1 .. m
      <4>1. CASE j \in 1 .. m
        <5>1. p \in Slots(x)
          BY <1>3, <1>6, <3>1, <3>2, <4>1, SlotsIs
        <5> QED BY <2>2, <5>1
      <4> QED BY <4>1
    <3>5. j \in m + 1 .. Len(y)
      BY <1>6, <3>3, <3>4
    <3> QED BY <3>3, <3>5 DEF ApsFrom
  <2> QED BY <2>1, <2>2
<1>9. UsesGood(x, r.atab)
  <2>1. \A p \in Slots(files) : ApAt(files, p) \in AliasIds \cup {0}
    BY <1>2, SlotsIs
  <2>2. PICK S : S = ApsFrom(y, m)
    OBVIOUS
  <2>3. UsesGood(x, Cleared(s.atab, S))
    BY <1>2, <1>7, <1>8, <2>1, <2>2, FewerUses
  <2> QED BY <1>5, <2>2, <2>3
<1>10. \A i \in 1 .. N - 1 : Saved(x[i])
  BY <1>2, <1>3
<1> QED BY <1>1, <1>2, <1>3, <1>4, <1>9, <1>10 DEF Held

LEMMA HeldPushed ==
  ASSUME NEW files, NEW u, Held(files, u), Pushable(u), NEW text \in Seq(Chars), NEW ap \in AliasIds \cup {0},
         ap # 0 => ~u.atab[ap].inuse /\ u.atab[ap].name # "free",
         NEW r, r = pushstring(u, text, ap)
  PROVE  Held(Current(files, r.file), r)
<1>1. PICK N, g, f, x, y : N = Len(files) /\ g = r.file /\ f = u.file /\ x = Current(files, g) /\ y = f.strpush
  OBVIOUS
<1>2. /\ files \in Seq(PFiles) /\ N \in 1 .. MaxFiles /\ N \in Nat /\ N >= 1 /\ files # << >> /\ files[1].hasbuf
      /\ files[N] = f /\ \A i \in 1 .. N - 1 : Saved(files[i])
      /\ u \in Recs /\ UsesGood(files, u.atab) /\ f \in PFiles /\ Level(u)
      /\ u.atab \in [AliasIds -> Entries]
  BY <1>1, RecIs DEF Held
<1>3. /\ r \in Recs /\ Level(r) /\ g.hasbuf = f.hasbuf
      /\ \E frame \in Frames : frame.ap = ap /\ g.strpush = Append(y, frame)
      /\ r.atab = IF ap = 0 THEN u.atab ELSE [u.atab EXCEPT ![ap].inuse = TRUE]
  <2>1. PushedIs(u, text, ap, r)
    BY <1>2, PushIs, Zenon
  <2> QED BY <1>1, <2>1, Zenon DEF PushedIs
<1>4. PICK frame \in Frames : frame.ap = ap /\ g.strpush = Append(y, frame)
  BY <1>3
<1>5. g \in PFiles /\ y \in Seq(Frames) /\ Len(y) \in Nat
  BY <1>1, <1>2, <1>3, RecIs DEF PFiles
<1>6. /\ Len(g.strpush) = Len(y) + 1 /\ \A j \in 1 .. Len(y) : g.strpush[j] = y[j]
      /\ g.strpush[Len(y) + 1] = frame
  BY <1>4, <1>5, AppendProperties
<1>7. /\ x \in Seq(PFiles) /\ Len(x) = N /\ \A i \in 1 .. N - 1 : x[i] = files[i]
      /\ x[N] = g
  <2>1. /\ Current(files, g) \in Seq(PFiles) /\ Len(Current(files, g)) = Len(files)
        /\ \A i \in 1 .. Len(files) - 1 : Current(files, g)[i] = files[i]
        /\ Current(files, g)[Len(files)] = g
    BY ONLY <1>2, <1>5, CurrentIs
  <2> QED BY ONLY <1>1, <2>1
<1>8. x[1].hasbuf
  <2>1. CASE N = 1
    BY <1>1, <1>2, <1>3, <1>7, <2>1
  <2>2. CASE N # 1
    <3>1. 1 \in 1 .. N - 1
      BY <1>2, <2>2
    <3> QED BY <1>2, <1>7, <3>1
  <2> QED BY <2>1, <2>2
<1>9. PICK k, q : k = Len(y) + 1 /\ q = <<N, k>>
  OBVIOUS
<1>10. k \in 1 .. Len(g.strpush) /\ k \notin 1 .. Len(y) /\ \A j \in 1 .. Len(g.strpush) : j \in 1 .. Len(y) \/ j = k
  BY <1>5, <1>6, <1>9
<1>11. q \in Slots(x) /\ q \notin Slots(files) /\ ApAt(x, q) = ap
  <2>1. q \in Slots(x)
    BY <1>2, <1>7, <1>9, <1>10, SlotsIs
  <2>2. q \notin Slots(files)
    BY <1>1, <1>2, <1>9, <1>10, SlotsIs
  <2>3. ApAt(x, q) = ap
    BY <1>4, <1>6, <1>7, <1>9 DEF ApAt
  <2> QED BY <2>1, <2>2, <2>3
<1>12. ASSUME NEW p \in Slots(files) PROVE p \in Slots(x) /\ ApAt(x, p) = ApAt(files, p)
  <2>1. PICK i, j : p = <<i, j>> /\ i \in 1 .. N /\ j \in 1 .. Len(files[i].strpush)
    <3>1. p = <<p[1], p[2]>>
      BY <1>2, SlotsIs
    <3>2. p[1] \in 1 .. N /\ p[2] \in 1 .. Len(files[p[1]].strpush)
      BY <1>1, <1>2, <3>1, SlotsIs
    <3> QED BY <3>1, <3>2
  <2>2. CASE i = N
    <3>1. j \in 1 .. Len(y) /\ j \in 1 .. Len(g.strpush)
      BY <1>1, <1>2, <1>5, <1>6, <2>1, <2>2
    <3>2. p \in Slots(x)
      BY <1>7, <2>1, <2>2, <3>1, SlotsIs
    <3>3. g.strpush[j] = y[j] /\ x[i] = g /\ files[i].strpush = y
      BY ONLY <1>1, <1>2, <1>6, <1>7, <2>2, <3>1
    <3> QED BY ONLY <2>1, <3>2, <3>3 DEF ApAt
  <2>3. CASE i # N
    <3>1. i \in 1 .. N - 1
      BY <1>2, <2>1, <2>3
    <3>2. x[i] = files[i]
      BY <1>7, <3>1
    <3>3. p \in Slots(x)
      BY <1>7, <2>1, <3>2, SlotsIs
    <3> QED BY <2>1, <3>2, <3>3 DEF ApAt
  <2> QED BY <2>2, <2>3
<1>13. ASSUME NEW p \in Slots(x) PROVE p \in Slots(files) \/ p = q
  <2>1. PICK i, j : p = <<i, j>> /\ i \in 1 .. N /\ j \in 1 .. Len(x[i].strpush)
    <3>1. p = <<p[1], p[2]>>
      BY <1>7, SlotsIs
    <3>2. p[1] \in 1 .. N /\ p[2] \in 1 .. Len(x[p[1]].strpush)
      BY <1>7, <3>1, SlotsIs
    <3> QED BY <3>1, <3>2
  <2>2. CASE i = N
    <3>1. j \in 1 .. Len(y) \/ j = k
      BY <1>7, <1>10, <2>1, <2>2
    <3> QED BY <1>1, <1>2, <1>9, <2>1, <2>2, <3>1, SlotsIs
  <2>3. CASE i # N
    <3>1. i \in 1 .. N - 1
      BY <1>2, <2>1, <2>3
    <3>2. x[i] = files[i]
      BY <1>7, <3>1
    <3> QED BY <1>1, <1>2, <2>1, <3>2, SlotsIs
  <2> QED BY <2>2, <2>3
<1>14. UsesGood(x, r.atab)
  <2>1. \A p \in Slots(files) : ApAt(files, p) \in AliasIds \cup {0}
    BY <1>2, SlotsIs
  <2>2. PICK table, table1 : table = u.atab /\ table1 = r.atab
    OBVIOUS
  <2>3. /\ table \in [AliasIds -> Entries] /\ UsesGood(files, table)
        /\ (ap # 0 => ~table[ap].inuse /\ table[ap].name # "free")
        /\ table1 = IF ap = 0 THEN table ELSE [table EXCEPT ![ap].inuse = TRUE]
    BY <1>2, <1>3, <2>2
  <2>4. UsesGood(x, table1)
    BY <1>11, <1>12, <1>13, <2>1, <2>3, MoreUses
  <2> QED BY <2>2, <2>4
<1>15. \A i \in 1 .. N - 1 : Saved(x[i])
  BY <1>2, <1>7
<1> QED BY <1>1, <1>2, <1>3, <1>7, <1>8, <1>14, <1>15 DEF Held

------------------------------------------------------------------------------
(* Nothing moves.                                                          *)
Alike(s, r) == r.file = s.file /\ r.nextc = s.nextc /\ r.nleft = s.nleft /\ r.lleft = s.lleft

LEMMA HeldAlike ==
  ASSUME NEW files, NEW s, Held(files, s), NEW r \in Recs, Alike(s, r),
         \A a \in AliasIds : (r.atab[a].inuse <=> s.atab[a].inuse) /\
            (s.atab[a].inuse /\ s.atab[a].name # "free" => r.atab[a].name # "free")
  PROVE  Held(files, r) /\ Left(r) = Left(s)
<1>1. Level(r) /\ Left(r) = Left(s)
  BY DEF Held, Alike, Level, Left
<1>2. /\ files \in Seq(PFiles) /\ UsesGood(files, s.atab)
      /\ \A p \in Slots(files) : ApAt(files, p) \in AliasIds \cup {0}
  BY SlotsIs DEF Held
<1>3. UsesGood(files, r.atab)
  <2>1. PICK table, table1 : table = s.atab /\ table1 = r.atab
    OBVIOUS
  <2>2. UsesGood(files, table1)
    BY <1>2, <2>1, OtherUses
  <2> QED BY <2>1, <2>2
<1> QED BY <1>1, <1>3 DEF Held, Alike

(* The end mark of a here document.                                        *)
Fresh(s) == s \in Recs /\ Level(s) /\ s.block <= Bufsiz /\ s.nleft # -2 /\ ~(s.nleft = -1 /\ s.file.strpush = << >>)

MarkSoFar(s, m) ==
  /\ m[1] \in Recs /\ m[2] \in 2 .. Len(Mark) + 1 /\ m[1].nleft # -2
  /\ \E u \in Recs :
       /\ Obtained(u, m[1]) /\ u.block = s.block /\ u.file.hasbuf = s.file.hasbuf /\ Popping(s, u)
       /\ Level(u) /\ (FileChars = Chars => Left(s) = SubSeq(Mark, 2, m[2] - 1) \o Left(u))

LEMMA MarkIs == Mark \in Seq(Chars) /\ Mark \in Seq(FileChars) /\ Len(Mark) \in Nat /\ Len(Mark) >= 1
<1>1. Mark \in Seq(Chars) /\ Mark # << >>
  BY InputConstants
<1>2. Mark \in Seq(FileChars)
  BY <1>1, CharsFact, SeqMonotonic
<1> QED BY <1>1, <1>2

LEMMA MarkBegun ==
  ASSUME NEW s, Fresh(s), NEW m, m = <<pgetc(s), 2>>
  PROVE  MarkSoFar(s, m)
<1>1. PICK t : t = pgetc(s)
  OBVIOUS
<1>2. Obtained(s, t) /\ s \in Recs /\ Level(s)
  BY <1>1, GetIs DEF Fresh
<1>3. t \in Recs /\ t.nleft # -2
  BY <1>2 DEF Obtained, Fresh
<1>4. Popping(s, s)
  BY <1>2, NotPopped
<1>5. Left(s) = SubSeq(Mark, 2, 2 - 1) \o Left(s)
  <2>1. PICK x : x = Left(s)
    OBVIOUS
  <2>2. x \in Seq(FileChars)
    BY <1>2, <2>1, PendIs DEF Left, Level
  <2>3. SubSeq(Mark, 2, 2 - 1) = << >>
    BY SubSeqEmpty
  <2>4. << >> \o x = x
    BY <2>2, CatIs
  <2> QED BY <2>1, <2>3, <2>4
<1>6. 2 \in 2 .. Len(Mark) + 1 /\ m[1] = t /\ m[2] = 2
  BY <1>1, MarkIs
<1> QED BY <1>2, <1>3, <1>4, <1>5, <1>6 DEF MarkSoFar

LEMMA MarkGoesOn ==
  ASSUME NEW s, Fresh(s), NEW m, MarkSoFar(s, m)
  PROVE  GoOn(m) = m \/ (MarkSoFar(s, GoOn(m)) /\ GoOn(m) \in Recs \X Nat)
<1>1. CASE ~(m[2] <= Len(Mark) /\ m[1].c = Mark[m[2]])
  BY <1>1 DEF GoOn
<1>2. CASE m[2] <= Len(Mark) /\ m[1].c = Mark[m[2]]
  <2>1. PICK t, j, w : t = m[1] /\ j = m[2] /\ w = pgetc(t)
    OBVIOUS
  <2>2. PICK u \in Recs :
          /\ Obtained(u, t) /\ u.block = s.block /\ u.file.hasbuf = s.file.hasbuf /\ Popping(s, u)
          /\ Level(u) /\ (FileChars = Chars => Left(s) = SubSeq(Mark, 2, j - 1) \o Left(u))
    BY <2>1 DEF MarkSoFar
  <2>3. j \in 2 .. Len(Mark) /\ j \in Nat /\ Mark[j] \in Chars /\ t.c = Mark[j] /\ t.nleft # -2 /\ t \in Recs
    BY <1>2, <2>1, MarkIs DEF MarkSoFar
  <2>4. CharOf(Left(u), t)
    BY <2>2, <2>3, Kinds DEF Obtained, EndOf, FakeOf
  <2>5. Level(t) /\ t.block = s.block /\ t.file.hasbuf = s.file.hasbuf /\ Popping(u, t) /\ t.nleft >= 0
    BY <2>2, <2>4 DEF Obtained, CharOf
  <2>6. Obtained(t, w)
    BY <2>1, <2>3, <2>5, GetIs DEF Fresh
  <2>7. w \in Recs /\ w.nleft # -2
    BY <2>3, <2>5, <2>6 DEF Obtained
  <2>8. Popping(s, t)
    <3>1. s \in Recs
      BY DEF Fresh
    <3> QED BY <2>2, <2>3, <2>5, <3>1, PoppedOn
  <2>9. FileChars = Chars => Left(s) = SubSeq(Mark, 2, j) \o Left(t)
    <3> HAVE FileChars = Chars
    <3>1. PICK x, y, z : x = SubSeq(Mark, 2, j - 1) /\ y = <<t.c>> /\ z = Left(t)
      OBVIOUS
    <3>2. Left(s) = x \o (y \o z)
      BY <2>2, <2>4, <3>1 DEF CharOf
    <3>3. x \in Seq(FileChars)
      <4>1. \A i \in 2 .. j - 1 : Mark[i] \in FileChars
        BY <2>3, MarkIs
      <4> QED BY <2>3, <3>1, <4>1, SubSeqProperties
    <3>4. y \in Seq(FileChars)
      BY <2>3, <3>1, CharsFact
    <3>5. z \in Seq(FileChars)
      BY <2>5, <3>1, PendIs DEF Left, Level
    <3>6. x \o (y \o z) = (x \o y) \o z
      BY <3>3, <3>4, <3>5, CatAssoc
    <3>7. SubSeq(Mark, 2, j) = SubSeq(Mark, 2, j - 1) \o <<Mark[j]>>
      <4>1. 2 \in 1 .. Len(Mark) /\ j \in 2 .. Len(Mark)
        BY <2>3, MarkIs
      <4> QED BY <4>1, MarkIs, SubSeqRecursiveSecond
    <3> QED BY <2>3, <3>1, <3>2, <3>6, <3>7
  <2>10. PICK n : n = GoOn(m)
    OBVIOUS
  <2>11. n = <<w, j + 1>>
    BY <1>2, <2>1, <2>10 DEF GoOn
  <2>12. n[1] = w /\ n[2] = j + 1 /\ j + 1 \in 2 .. Len(Mark) + 1 /\ (j + 1) - 1 = j /\ j + 1 \in Nat
    BY <2>3, <2>11, MarkIs
  <2>13. MarkSoFar(s, n)
    BY <2>3, <2>5, <2>6, <2>7, <2>8, <2>9, <2>12 DEF MarkSoFar
  <2>14. n \in Recs \X Nat
    BY <2>7, <2>11, <2>12
  <2> QED BY <2>10, <2>13, <2>14
<1> QED BY <1>1, <1>2

MarkRun(s) == CHOOSE r : r = [k \in 0 .. Len(Mark) |-> IF k = 0 THEN <<pgetc(s), 2>> ELSE GoOn(r[k - 1])]

LEMMA MatchedIs ==
  ASSUME NEW s, Fresh(s), NEW m, m = Matched(s)
  PROVE  MarkSoFar(s, m)
<1>1. PICK n, d, x : n = Len(Mark) /\ d = MarkRun(s) /\ x = <<pgetc(s), 2>>
  OBVIOUS
<1>2. n \in Nat /\ m = d[n]
  BY <1>1, MarkIs DEF Matched, MarkRun
<1> DEFINE Q == {o \in Recs \X Nat : MarkSoFar(s, o)}
<1>3. x \in Q
  <2>1. MarkSoFar(s, x)
    BY <1>1, MarkBegun
  <2>2. x[1] \in Recs /\ x = <<x[1], 2>>
    BY <1>1, <2>1 DEF MarkSoFar
  <2>3. x \in Recs \X Nat
    BY <2>2
  <2> QED BY <2>1, <2>3
<1>4. \A o \in Q : GoOn(o) \in Q
  <2> TAKE o \in Q
  <2>1. MarkSoFar(s, o) /\ o \in Recs \X Nat
    OBVIOUS
  <2>2. PICK y : y = GoOn(o)
    OBVIOUS
  <2>3. y = o \/ (MarkSoFar(s, y) /\ y \in Recs \X Nat)
    BY <2>1, <2>2, MarkGoesOn
  <2> QED BY <2>1, <2>2, <2>3
<1>5. PICK F : F = [p \in (1 .. n) \X Q |-> GoOn(p[2])]
  OBVIOUS
<1>6. F \in [(1 .. n) \X Q -> Q]
  <2>1. ASSUME NEW p \in (1 .. n) \X Q PROVE GoOn(p[2]) \in Q
    <3> HIDE DEF Q
    <3>1. p[2] \in Q
      OBVIOUS
    <3> QED BY <1>4, <3>1
  <2> HIDE DEF Q
  <2> QED BY <1>5, <2>1
<1>7. PICK e \in [0 .. n -> Q] : RunOf(n, x, F, e)
  <2> HIDE DEF Q
  <2> QED BY <1>2, <1>3, <1>6, Iterates
<1>8. \A k \in 0 .. n : k # 0 => F[<<k, e[k - 1]>>] = GoOn(e[k - 1])
  <2> HIDE DEF Q
  <2> TAKE k \in 0 .. n
  <2> HAVE k # 0
  <2>1. k \in 1 .. n /\ k - 1 \in 0 .. n
    BY <1>2
  <2>2. e[k - 1] \in Q
    BY <1>7, <2>1
  <2>3. <<k, e[k - 1]>> \in (1 .. n) \X Q
    BY <2>1, <2>2
  <2> QED BY <1>5, <2>3
<1>9. e = [k \in 0 .. n |-> IF k = 0 THEN x ELSE GoOn(e[k - 1])]
  <2>1. \A k \in 0 .. n : e[k] = IF k = 0 THEN x ELSE GoOn(e[k - 1])
    <3> HIDE DEF Q
    <3> TAKE k \in 0 .. n
    <3>1. e[k] = IF k = 0 THEN x ELSE F[<<k, e[k - 1]>>]
      BY <1>7 DEF RunOf
    <3> QED BY <1>8, <3>1
  <2> HIDE DEF Q
  <2> QED BY <1>7, <2>1
<1>10. d = [k \in 0 .. n |-> IF k = 0 THEN x ELSE GoOn(d[k - 1])]
  <2>1. \E y : y = [k \in 0 .. n |-> IF k = 0 THEN x ELSE GoOn(y[k - 1])]
    BY <1>9, Zenon
  <2> QED BY <1>1, <2>1, Zenon DEF MarkRun
<1> DEFINE J == {k \in 0 .. n : d[k] \in Q}
<1>11. 0 \in J
  <2> HIDE DEF Q
  <2>1. d[0] = x /\ 0 \in 0 .. n
    BY <1>2, <1>10
  <2> QED BY <1>3, <2>1
<1>12. ASSUME NEW k \in 1 .. n, k - 1 \in J PROVE k \in J
  <2> HIDE DEF Q
  <2>1. k \in 0 .. n /\ k # 0
    BY <1>2
  <2>2. d[k] = GoOn(d[k - 1])
    BY <1>10, <2>1
  <2>3. d[k - 1] \in Q
    BY <1>12
  <2> QED BY <1>4, <2>1, <2>2, <2>3
<1>13. n \in J
  <2>1. \A k \in 0 .. n : k \in J
    <3> HIDE DEF J
    <3> QED BY <1>2, <1>11, <1>12, UpTo
  <2> HIDE DEF J
  <2> QED BY <1>2, <2>1
<1> QED BY <1>2, <1>13

LEMMA MarkEnds ==
  ASSUME NEW s, Fresh(s), NEW m, MarkSoFar(s, m), m[2] > Len(Mark), m[1].c \in {PEOF, "n"}, FileChars = Chars
  PROVE  \E end \in {<< >>, <<"n">>} :
           /\ Left(s) = (Tail(Mark) \o end) \o Left(m[1]) /\ (end = << >> => Left(m[1]) = << >>)
<1>1. PICK t : t = m[1]
  OBVIOUS
<1>2. PICK u \in Recs : Obtained(u, t) /\ Level(u) /\ Left(s) = SubSeq(Mark, 2, m[2] - 1) \o Left(u)
  BY <1>1 DEF MarkSoFar
<1>3. m[2] - 1 = Len(Mark)
  BY MarkIs DEF MarkSoFar
<1>4. Left(s) = Tail(Mark) \o Left(u)
  <2>1. Mark # << >>
    BY MarkIs
  <2>2. Tail(Mark) = SubSeq(Mark, 2, Len(Mark))
    BY <2>1, MarkIs, TailIsSubSeq
  <2> QED BY <1>2, <1>3, <2>2
<1>5. PICK x, z : x = Tail(Mark) /\ z = Left(t)
  OBVIOUS
<1>6. x \in Seq(FileChars)
  <2>1. Mark # << >>
    BY MarkIs
  <2> QED BY <1>5, <2>1, MarkIs, HeadTailProperties
<1>7. z \in Seq(FileChars)
  BY <1>2, <1>5, PendIs DEF Obtained, Left, Level
<1>8. CASE t.c = PEOF
  <2>1. EndOf(Left(u), t)
    BY <1>2, <1>8, Kinds DEF Obtained, CharOf, FakeOf
  <2>2. Left(u) = << >> /\ z = << >>
    BY <1>5, <2>1 DEF EndOf
  <2>3. Left(s) = (x \o << >>) \o z
    BY <1>4, <1>5, <1>6, <2>2, CatIs
  <2> QED BY <1>1, <1>5, <2>2, <2>3
<1>9. CASE t.c = "n"
  <2>1. t.c \in Chars
    BY <1>9 DEF Chars
  <2>2. CharOf(Left(u), t)
    BY <1>2, <2>1, Kinds DEF Obtained, EndOf, FakeOf
  <2>3. Left(u) = <<"n">> \o z
    BY <1>5, <1>9, <2>2 DEF CharOf
  <2>4. PICK y : y = <<"n">>
    OBVIOUS
  <2>5. y \in Seq(FileChars) /\ y # << >>
    BY <1>9, <2>1, <2>4, CharsFact
  <2>6. Left(s) = (x \o y) \o z
    <3>1. Left(s) = x \o (y \o z)
      BY <1>4, <1>5, <2>3, <2>4
    <3>2. x \o (y \o z) = (x \o y) \o z
      BY <1>6, <1>7, <2>5, CatAssoc
    <3> QED BY <3>1, <3>2
  <2> QED BY <1>1, <1>5, <2>4, <2>5, <2>6
<1> QED BY <1>1, <1>8, <1>9

PutBack(s, u, text) ==
  /\ u \in Recs /\ Level(u) /\ Pushable(u) /\ Popping(s, u) /\ u.file.hasbuf = s.file.hasbuf
  /\ u.c = NoChar /\ text \in Seq(Chars)
  /\ FileChars = Chars => Left(s) = text \o Left(u)

LEMMA MarkBack ==
  ASSUME NEW s, Fresh(s), NEW m, MarkSoFar(s, m), NEW u, u = pungetc(m[1]),
         NEW text, text = SubSeq(Mark, 2, m[2] - 1)
  PROVE  PutBack(s, u, text)
<1>1. PICK t : t = m[1]
  OBVIOUS
<1>2. PICK v \in Recs : /\ Obtained(v, t) /\ v.block = s.block /\ v.file.hasbuf = s.file.hasbuf /\ Popping(s, v)
                        /\ Level(v) /\ (FileChars = Chars => Left(s) = text \o Left(v))
  BY <1>1 DEF MarkSoFar
<1>3. t.nleft # -2 /\ s \in Recs
  BY <1>1 DEF MarkSoFar, Fresh
<1>4. Restored(v, u)
  BY <1>1, <1>2, <1>3, PutIs
<1>5. Popping(s, u)
  BY <1>2, <1>3, <1>4, PoppedOn DEF Restored
<1>6. text \in Seq(Chars)
  <2>1. m[2] - 1 \in 1 .. Len(Mark) /\ m[2] - 1 \in Int
    BY MarkIs DEF MarkSoFar
  <2>2. \A i \in 2 .. m[2] - 1 : Mark[i] \in Chars
    BY <2>1, MarkIs
  <2> QED BY <2>1, <2>2, SubSeqProperties
<1> QED BY <1>2, <1>4, <1>5, <1>6 DEF Restored, PutBack

------------------------------------------------------------------------------
(* The invariant.                                                          *)
Modes == {"token", "word", "peek", "linecont", "quote", "heredoc", "checkend", "line", "run", "eof", "done"}

ModeGood(s, m, levels) ==
  /\ s.nleft = -2 => m \in {"eof", "done"}
  /\ s.nleft = -1 /\ s.file.strpush = << >> => m \in {"run", "token", "eof", "done"}
  /\ m = "linecont" => s.c = "\\"
  /\ m = "checkend" => s.c = Head(Mark)
  /\ m = "done" => levels = 1

IInv ==
  /\ Held(parsefile, St(1))
  /\ ModeGood(St(1), mode, Len(parsefile))
  /\ word \in Letters \cup {NoChar} /\ commands \in 0 .. MaxCommands /\ mode \in Modes

LEMMA StIs ==
  ASSUME NEW n
  PROVE  /\ St(n).file = parsefile[Len(parsefile)] /\ St(n).nextc = parsenextc /\ St(n).nleft = parsenleft
         /\ St(n).lleft = parselleft /\ St(n).atab = atab /\ St(n).check = checkkwd /\ St(n).c = c
         /\ St(n).block = n /\ St(n) = [St(1) EXCEPT !.block = n]
BY DEF St, Last

(* The state from which the parser reads.                                  *)
LEMMA Reading ==
  ASSUME IInv, NEW n \in 1 .. Bufsiz, NEW s, s = St(n)
  PROVE  /\ s \in Recs /\ Level(s) /\ s.block <= Bufsiz /\ Held(parsefile, s) /\ Left(s) = Left(St(1))
         /\ mode \notin {"eof", "done"} => s.nleft # -2
         /\ mode \notin {"run", "token", "eof", "done"} => Fresh(s)
<1>1. PICK o : o = St(1)
  OBVIOUS
<1>2. o \in Recs /\ Held(parsefile, o) /\ ModeGood(o, mode, Len(parsefile))
  BY <1>1 DEF IInv, Held
<1>3. Bufsiz \in Nat
  BY InputConstants
<1>4. n \in Nat \ {0} /\ n <= Bufsiz
  BY <1>3
<1>5. s = [o EXCEPT !.block = n]
  BY <1>1, StIs
<1>6. s \in Recs /\ s.block = n /\ Alike(o, s) /\ s.atab = o.atab
  BY <1>2, <1>4, <1>5 DEF Recs, Alike
<1>7. Held(parsefile, s) /\ Left(s) = Left(o)
  BY <1>2, <1>6, HeldAlike
<1>8. Level(s)
  BY <1>7 DEF Held
<1> QED BY <1>1, <1>2, <1>4, <1>6, <1>7, <1>8 DEF ModeGood, Fresh, Alike

(* What becomes of the state.                                              *)
LEMMA BecomesIs ==
  ASSUME IInv, NEW r, Held(Current(parsefile, r.file), r), CurrentBecomes(r), NEW o, o = St(1)'
  PROVE  /\ Held(parsefile', o) /\ parsefile' = Current(parsefile, r.file) /\ Len(parsefile') = Len(parsefile)
         /\ Left(o) = Left(r) /\ o.nleft = r.nleft /\ o.file = r.file /\ o.c = r.c
<1>1. PICK x : x = Current(parsefile, r.file)
  OBVIOUS
<1>2. /\ parsefile' = x /\ parsenextc' = r.nextc /\ parsenleft' = r.nleft /\ parselleft' = r.lleft
      /\ atab' = r.atab /\ checkkwd' = r.check /\ c' = r.c
  BY <1>1, Zenon DEF CurrentBecomes, Current
<1>3. r \in Recs /\ r.file \in PFiles /\ Held(x, r)
  BY <1>1, RecIs DEF Held
<1>4. parsefile \in Seq(PFiles) /\ parsefile # << >>
  BY DEF IInv, Held
<1>5. Len(x) = Len(parsefile) /\ x[Len(x)] = r.file
  BY <1>1, <1>3, <1>4, CurrentIs
<1>6. o = [file |-> x[Len(x)], nextc |-> r.nextc, nleft |-> r.nleft, lleft |-> r.lleft, atab |-> r.atab,
           check |-> r.check, c |-> r.c, block |-> 1]
  BY <1>2 DEF St, Last
<1>7. o = [file |-> r.file, nextc |-> r.nextc, nleft |-> r.nleft, lleft |-> r.lleft, atab |-> r.atab,
           check |-> r.check, c |-> r.c, block |-> 1]
  BY <1>5, <1>6
<1>8. o \in Recs
  <2>1. /\ r.file \in PFiles /\ r.nextc \in Places /\ r.nleft \in Int /\ r.lleft \in LLefts
        /\ r.atab \in [AliasIds -> Entries] /\ r.check \in BOOLEAN /\ r.c \in Got
    BY <1>3, RecIs
  <2>2. 1 \in Nat \ {0}
    OBVIOUS
  <2> QED BY ONLY <1>7, <2>1, <2>2 DEF Recs
<1>9. Alike(r, o) /\ o.atab = r.atab /\ o.c = r.c
  BY <1>7 DEF Alike
<1>10. Held(x, o) /\ Left(o) = Left(r)
  BY <1>3, <1>8, <1>9, HeldAlike
<1> QED BY <1>1, <1>2, <1>5, <1>9, <1>10 DEF Alike

LEMMA Kept1 ==
  ASSUME IInv, NEW r, Held(Current(parsefile, r.file), r), CurrentBecomes(r),
         ModeGood(r, mode', Len(parsefile)), mode' \in Modes, word' \in Letters \cup {NoChar},
         commands' \in 0 .. MaxCommands
  PROVE  IInv'
<1>1. PICK o : o = St(1)'
  OBVIOUS
<1>2. Held(parsefile', o) /\ Len(parsefile') = Len(parsefile) /\ o.nleft = r.nleft /\ o.file = r.file /\ o.c = r.c
  BY <1>1, BecomesIs
<1>3. ModeGood(o, mode', Len(parsefile'))
  BY <1>2 DEF ModeGood
<1> QED BY <1>1, <1>2, <1>3 DEF IInv

------------------------------------------------------------------------------
(* Actions that read.                                                      *)
LEMMA GotHeld ==
  ASSUME NEW files, NEW s, Held(files, s), NEW r, Obtained(s, r)
  PROVE  /\ Held(Current(files, r.file), r) /\ r \in Recs
         /\ r.nleft = -2 => r.c = PEOF /\ s.nleft = -1 /\ s.file.strpush = << >>
         /\ r.nleft = -1 /\ r.file.strpush = << >> => r.c = PEOF
<1>1. r \in Recs /\ Level(r) /\ r.file.hasbuf = s.file.hasbuf /\ Popping(s, r)
  BY DEF Obtained
<1>2. Held(Current(files, r.file), r)
  BY <1>1, HeldPopped
<1>3. r.c = PEOF \/ r.nleft >= 0 \/ (r.file.strpush # << >> /\ r.nleft = -1)
  BY DEF Obtained, CharOf, EndOf, FakeOf
<1>4. r.nleft = -2 => s.nleft = -1 /\ s.file.strpush = << >>
  BY DEF Obtained
<1> QED BY <1>1, <1>2, <1>3, <1>4

LEMMA PutHeld ==
  ASSUME NEW files, NEW s, Held(files, s), NEW u, Restored(s, u)
  PROVE  /\ Held(Current(files, u.file), u) /\ u \in Recs /\ u.nleft # -2 /\ u.nleft # -1
<1>1. u \in Recs /\ Level(u) /\ u.file.hasbuf = s.file.hasbuf /\ Popping(s, u)
  BY DEF Restored
<1>2. Held(Current(files, u.file), u)
  BY <1>1, HeldPopped
<1>3. u.nleft >= 0 \/ u.nleft = EOF_NLEFT + 1
  BY DEF Restored, Pushable
<1> QED BY <1>1, <1>2, <1>3, RecIs DEF EOF_NLEFT

LEMMA PushHeld ==
  ASSUME NEW files, NEW s, Held(files, s), NEW u \in Recs, Level(u), u.file.hasbuf = s.file.hasbuf,
         Popping(s, u), Pushable(u), NEW text \in Seq(Chars), NEW ap \in AliasIds \cup {0},
         ap # 0 => ~u.atab[ap].inuse /\ u.atab[ap].name # "free",
         NEW r, r = pushstring(u, text, ap)
  PROVE  /\ Held(Current(files, r.file), r) /\ PushedIs(u, text, ap, r) /\ r \in Recs
         /\ r.nleft # -2 /\ r.nleft # -1
<1>1. PICK x : x = Current(files, u.file)
  OBVIOUS
<1>2. Held(x, u)
  BY <1>1, HeldPopped
<1>3. Held(Current(x, r.file), r)
  BY <1>2, HeldPushed
<1>4. PushedIs(u, text, ap, r)
  BY PushIs, Zenon
<1>5. r \in Recs /\ r.nleft = Len(text)
  BY <1>4, Zenon DEF PushedIs
<1>6. Current(x, r.file) = Current(files, r.file)
  <2>1. files \in Seq(PFiles) /\ files # << >> /\ u.file \in PFiles /\ r.file \in PFiles
    BY <1>5, RecIs DEF Held
  <2> QED BY <1>1, <2>1, CurrentIs
<1> QED BY <1>3, <1>4, <1>5, <1>6

(* The character and the mark for aliases may be set then.                 *)
SetTo(s, b, x) == [s EXCEPT !.check = b, !.c = x]

LEMMA HeldSet ==
  ASSUME NEW files, NEW s, Held(files, s), NEW b \in BOOLEAN, NEW x \in Got,
         NEW r, r = SetTo(s, b, x)
  PROVE  /\ Held(files, r) /\ r \in Recs /\ Alike(s, r) /\ r.atab = s.atab /\ Left(r) = Left(s)
         /\ r.c = x /\ r.check = b
<1>1. s \in Recs
  BY DEF Held
<1>2. r \in Recs
  BY <1>1 DEF Recs, SetTo
<1>3. Alike(s, r) /\ r.atab = s.atab /\ r.c = x /\ r.check = b
  BY <1>1 DEF Alike, Recs, SetTo
<1>4. Held(files, r) /\ Left(r) = Left(s)
  BY <1>2, <1>3, HeldAlike
<1> QED BY <1>2, <1>3, <1>4

LEMMA SetAll ==
  ASSUME NEW s \in Recs
  PROVE  /\ \A b \in BOOLEAN : [s EXCEPT !.check = b] = SetTo(s, b, s.c)
         /\ [s EXCEPT !.c = NoChar] = SetTo(s, s.check, NoChar)
         /\ NewCommand(s) = SetTo(s, TRUE, NoChar)
         /\ s.c \in Got /\ s.check \in BOOLEAN /\ NoChar \in Got
BY DEF Recs, NewCommand, Got, SetTo

(* What an action makes of the state, and of what is to be read.           *)
Makes(r) ==
  /\ r \in Recs /\ Held(Current(parsefile, r.file), r) /\ CurrentBecomes(r)
  /\ ModeGood(r, mode', Len(parsefile)) /\ mode' \in Modes
  /\ word' \in Letters \cup {NoChar} /\ commands' \in 0 .. MaxCommands

Advances(x, r) ==
  \/ r.c \in Chars /\ (FileChars = Chars => Left(x) = <<r.c>> \o Left(r))
  \/ r.c \in {PEOF, PFAKE} /\ (FileChars = Chars => Left(r) = Left(x))
Rests(x, r) == r.c = NoChar /\ (FileChars = Chars => Left(r) = Left(x))
Inserts(x, r) == r.c = NoChar /\ \E t \in Values \cup {<< >>} : FileChars = Chars => Left(r) = t \o Left(x)
Unreads(x, r) == r.c = NoChar /\ x.c = "\\" /\ (FileChars = Chars => Left(r) = <<"\\">> \o Left(x))
EndsMark(x, r) ==
  /\ r.c = NoChar /\ x.c = Head(Mark)
  /\ FileChars = Chars => \E end \in {<< >>, <<"n">>} :
       Left(x) = (Tail(Mark) \o end) \o Left(r) /\ (end = << >> => Left(r) = << >>)

LEMMA MakesKeeps ==
  ASSUME IInv, NEW r, Makes(r)
  PROVE  IInv'
BY Kept1 DEF Makes

LEMMA GetMakes ==
  ASSUME IInv, NEW n \in 1 .. Bufsiz, NEW r, Obtained(St(n), r), CurrentBecomes(r),
         r.nleft = -2 => mode' = "eof",
         r.c = PEOF => mode' \in {"eof", "token"} \/ r.nleft # -1,
         mode' = "linecont" => r.c = "\\", mode' = "checkend" => r.c = Head(Mark),
         mode' \in Modes \ {"done"}, word' \in Letters \cup {NoChar}, commands' = commands
  PROVE  Makes(r) /\ Advances(St(1), r)
<1>1. PICK s, x : s = St(n) /\ x = St(1)
  OBVIOUS
<1>2. Held(parsefile, s) /\ Left(s) = Left(x)
  BY <1>1, Reading
<1>3. /\ Held(Current(parsefile, r.file), r) /\ r \in Recs
      /\ r.nleft = -2 => r.c = PEOF
      /\ r.nleft = -1 /\ r.file.strpush = << >> => r.c = PEOF
  BY <1>1, <1>2, GotHeld
<1>4. ModeGood(r, mode', Len(parsefile))
  BY <1>3 DEF ModeGood
<1>5. commands' \in 0 .. MaxCommands
  BY DEF IInv
<1>6. CharOf(Left(x), r) \/ EndOf(Left(x), r) \/ FakeOf(Left(x), r)
  BY <1>1, <1>2 DEF Obtained
<1>7. Advances(x, r)
  BY <1>6 DEF Advances, CharOf, EndOf, FakeOf
<1> QED BY <1>1, <1>3, <1>4, <1>5, <1>7 DEF Makes

LEMMA PutMakes ==
  ASSUME IInv, NEW n \in 1 .. Bufsiz, NEW u, Restored(St(n), u), NEW b \in BOOLEAN,
         NEW r, r = SetTo(u, b, NoChar), CurrentBecomes(r),
         mode' \in Modes \ {"done", "linecont", "checkend"}, word' \in Letters \cup {NoChar}, commands' = commands
  PROVE  Makes(r) /\ Rests(St(1), r)
<1>1. PICK s, x : s = St(n) /\ x = St(1)
  OBVIOUS
<1>2. Held(parsefile, s) /\ Left(s) = Left(x)
  BY <1>1, Reading
<1>3. /\ Held(Current(parsefile, u.file), u) /\ u.nleft # -2 /\ u.nleft # -1
      /\ (FileChars = Chars => Left(u) = Left(s))
  BY <1>1, <1>2, PutHeld DEF Restored
<1>4. NoChar \in Got
  BY DEF Got
<1>5. /\ Held(Current(parsefile, u.file), r) /\ r \in Recs /\ Alike(u, r) /\ Left(r) = Left(u) /\ r.c = NoChar
  <2>1. PICK y : y = Current(parsefile, u.file)
    OBVIOUS
  <2>2. Held(y, u)
    BY <1>3, <2>1
  <2>3. Held(y, r) /\ r \in Recs /\ Alike(u, r) /\ Left(r) = Left(u) /\ r.c = NoChar
    BY <1>4, <2>2, HeldSet
  <2> QED BY <2>1, <2>3
<1>6. r.file = u.file /\ r.nleft # -2 /\ r.nleft # -1
  BY <1>3, <1>5 DEF Alike
<1>7. ModeGood(r, mode', Len(parsefile))
  BY <1>6 DEF ModeGood
<1>8. commands' \in 0 .. MaxCommands
  BY DEF IInv
<1> QED BY <1>1, <1>2, <1>3, <1>5, <1>6, <1>7, <1>8 DEF Makes, Rests

LEMMA PushMakes ==
  ASSUME IInv, NEW n \in 1 .. Bufsiz, NEW u \in Recs, Level(u), u.file.hasbuf = St(n).file.hasbuf,
         Popping(St(n), u), Pushable(u), NEW text \in Seq(Chars), NEW ap \in AliasIds \cup {0},
         ap # 0 => ~u.atab[ap].inuse /\ u.atab[ap].name # "free",
         NEW r, r = pushstring(u, text, ap), CurrentBecomes(r),
         mode' \in Modes \ {"done", "linecont", "checkend"}, word' \in Letters \cup {NoChar}, commands' = commands
  PROVE  Makes(r) /\ r.c = u.c /\ Left(r) = text \o Left(u)
<1>1. PICK s : s = St(n)
  OBVIOUS
<1>2. Held(parsefile, s)
  BY <1>1, Reading
<1>3. /\ Held(Current(parsefile, r.file), r) /\ PushedIs(u, text, ap, r) /\ r \in Recs
      /\ r.nleft # -2 /\ r.nleft # -1
  BY <1>1, <1>2, PushHeld
<1>4. r.c = u.c /\ Left(r) = text \o Left(u)
  BY <1>3, Zenon DEF PushedIs
<1>5. ModeGood(r, mode', Len(parsefile))
  BY <1>3 DEF ModeGood
<1>6. commands' \in 0 .. MaxCommands
  BY DEF IInv
<1> QED BY <1>3, <1>4, <1>5, <1>6 DEF Makes

LEMMA TokenMakes ==
  ASSUME IInv, Token
  PROVE  \E r \in Recs : Makes(r) /\ Advances(St(1), r)
<1>1. PICK n \in 1 .. Bufsiz : \E s \in {pgetc_macro(St(n))} :
       CASE s.c \in {" ", PFAKE} -> CurrentBecomes(s) /\ To("token")
         [] s.c = "n" -> CurrentBecomes(s) /\ (To("run") \/ To("heredoc"))
         [] s.c = PEOF -> CurrentBecomes(s) /\ To("eof")
         [] s.c = ";" -> CurrentBecomes(s) /\ To("peek")
         [] s.c = "\\" -> CurrentBecomes(s) /\ To("quote")
         [] OTHER -> CurrentBecomes(s) /\ mode' = "word" /\ word' = s.c
  BY DEF Token
<1>2. PICK r, s : r = pgetc_macro(s) /\ s = St(n)
  OBVIOUS
<1>3. mode = "token" /\ commands' = commands
  BY DEF Token
<1>4. s \in Recs /\ Level(s) /\ s.block <= Bufsiz /\ Held(parsefile, s) /\ s.nleft # -2
  BY <1>2, <1>3, Reading
<1>5. Obtained(s, r)
  BY <1>2, <1>4, MacroIs
<1>6. /\ CurrentBecomes(r)
      /\ r.c = PEOF => mode' = "eof"
      /\ mode' \in {"token", "run", "heredoc", "eof", "peek", "quote", "word"}
  BY <1>1, <1>2, Kinds DEF To, Chars
<1>7. r.c \in Letters \cup {" ", "n", ";", "\\", PEOF, PFAKE}
  BY <1>5 DEF Obtained, CharOf, EndOf, FakeOf, Chars
<1>8. word' \in Letters \cup {NoChar}
  BY <1>1, <1>2, <1>7 DEF To
<1>9. (r.nleft = -2 => r.c = PEOF) /\ r \in Recs
  BY <1>4, <1>5, GotHeld
<1>10. Makes(r) /\ Advances(St(1), r)
  BY <1>2, <1>3, <1>5, <1>6, <1>8, <1>9, GetMakes DEF Modes
<1> QED BY <1>9, <1>10

LEMMA ValueIs ==
  ASSUME NEW table \in [AliasIds -> Entries], NEW a \in AliasIds
  PROVE  table[a].val \in Seq(Chars) /\ table[a].val \in Values \cup {<< >>}
<1>1. table[a] \in Entries
  OBVIOUS
<1>2. PICK v : v = table[a].val
  OBVIOUS
<1>3. v \in Values \cup {<< >>}
  BY <1>1, <1>2 DEF Entries
<1>4. Values \subseteq Seq(Chars)
  BY InputConstants
<1>5. << >> \in Seq(Chars)
  OBVIOUS
<1> QED BY <1>2, <1>3, <1>4, <1>5

LEMMA Continues ==
  ASSUME IInv, mode \notin {"run", "token", "eof", "done"}, NEW n \in 1 .. Bufsiz, NEW s, s = St(n)
  PROVE  Fresh(s) /\ Obtained(s, pgetc(s)) /\ pgetc(s).nleft # -2 /\ Obtained(s, pgetc_macro(s)) /\ pgetc_macro(s).nleft # -2
<1>1. Fresh(s)
  BY Reading
<1>2. s \in Recs /\ Level(s) /\ s.block <= Bufsiz /\ s.nleft # -2 /\ ~(s.nleft = -1 /\ s.file.strpush = << >>)
  BY <1>1 DEF Fresh
<1>3. Obtained(s, pgetc(s)) /\ Obtained(s, pgetc_macro(s))
  BY <1>2, GetIs, MacroIs
<1> QED BY <1>1, <1>2, <1>3 DEF Obtained

LEMMA WordMakes ==
  ASSUME IInv, Word
  PROVE  \E r \in Recs : Makes(r) /\ (Advances(St(1), r) \/ Rests(St(1), r) \/ Inserts(St(1), r))
<1>1. PICK n \in 1 .. Bufsiz : \E s \in {pgetc_macro(St(n))} :
       IF s.c \in Letters \cup {"\\"} THEN CurrentBecomes(s) /\ To("word")
       ELSE LET s1 == pungetc(s)
                found == IF s1.check THEN lookupalias(s1, word) ELSE {}
            IN IF found = {} THEN CurrentBecomes([s1 EXCEPT !.check = FALSE]) /\ To("token")
               ELSE \E a \in found :
                      CurrentBecomes(pushstring(s1, s1.atab[a].val, a)) /\ To("token")
  BY DEF Word
<1>2. PICK t, s, u : t = pgetc_macro(s) /\ s = St(n) /\ u = pungetc(t)
  OBVIOUS
<1>3. mode = "word" /\ commands' = commands
  BY DEF Word
<1>4. Obtained(s, t) /\ t.nleft # -2 /\ s \in Recs /\ Left(s) = Left(St(1))
  BY <1>2, <1>3, Continues, Reading
<1>5. CASE t.c \in Letters \cup {"\\"}
  <2>1. CurrentBecomes(t) /\ To("word")
    BY <1>1, <1>2, <1>5
  <2>2. mode' = "word" /\ word' \in Letters \cup {NoChar}
    BY <2>1 DEF To
  <2>3. t.c # PEOF
    BY <1>5, Kinds DEF Chars
  <2>4. Makes(t) /\ Advances(St(1), t)
    BY <1>2, <1>3, <1>4, <2>1, <2>2, <2>3, GetMakes DEF Modes
  <2> QED BY <2>4 DEF Makes
<1>6. CASE t.c \notin Letters \cup {"\\"}
  <2>1. Restored(s, u)
    BY <1>2, <1>4, PutIs
  <2>2. u \in Recs /\ Level(u) /\ u.file.hasbuf = s.file.hasbuf /\ Popping(s, u) /\ Pushable(u) /\ u.c = NoChar
    BY <2>1 DEF Restored
  <2>3. PICK found : found = IF u.check THEN lookupalias(u, word) ELSE {}
    OBVIOUS
  <2>4. CASE found = {}
    <3>1. PICK r : r = [u EXCEPT !.check = FALSE]
      OBVIOUS
    <3>2. CurrentBecomes(r) /\ To("token")
      BY <1>1, <1>2, <1>6, <2>3, <2>4, <3>1
    <3>3. mode' = "token" /\ word' \in Letters \cup {NoChar}
      BY <3>2 DEF To
    <3>4. r = SetTo(u, FALSE, NoChar)
      BY <2>2, <3>1, SetAll
    <3>5. Makes(r) /\ Rests(St(1), r)
      BY <1>2, <1>3, <2>1, <3>2, <3>3, <3>4, PutMakes DEF Modes
    <3> QED BY <3>5 DEF Makes
  <2>5. CASE found # {}
    <3>1. PICK a \in found : CurrentBecomes(pushstring(u, u.atab[a].val, a)) /\ To("token")
      BY <1>1, <1>2, <1>6, <2>3, <2>5
    <3>2. a \in AliasIds /\ ~u.atab[a].inuse /\ u.atab[a].name = word
      BY <2>3, <2>5 DEF lookupalias, Named
    <3>3. word # "free"
      BY InputConstants DEF IInv, NoChar
    <3>4. PICK text, r : text = u.atab[a].val /\ r = pushstring(u, text, a)
      OBVIOUS
    <3>5. text \in Seq(Chars) /\ text \in Values \cup {<< >>}
      <4>1. u.atab \in [AliasIds -> Entries]
        BY <2>2, RecIs
      <4> QED BY <3>2, <3>4, <4>1, ValueIs
    <3>6. mode' = "token" /\ word' \in Letters \cup {NoChar} /\ CurrentBecomes(r)
      BY <3>1, <3>4 DEF To
    <3>7. mode' \in Modes \ {"done", "linecont", "checkend"}
      BY <3>6 DEF Modes
    <3>8. Makes(r) /\ r.c = u.c /\ Left(r) = text \o Left(u)
      <4>1. a \in AliasIds \cup {0} /\ (a # 0 => ~u.atab[a].inuse /\ u.atab[a].name # "free")
        BY <3>2, <3>3
      <4>2. u \in Recs /\ Level(u) /\ u.file.hasbuf = St(n).file.hasbuf /\ Popping(St(n), u) /\ Pushable(u)
        BY <1>2, <2>2
      <4>3. IInv /\ n \in 1 .. Bufsiz /\ text \in Seq(Chars) /\ commands' = commands
        BY <1>3, <3>5
      <4>4. r = pushstring(u, text, a)
        BY <3>4
      <4> QED BY ONLY <3>6, <3>7, <4>1, <4>2, <4>3, <4>4, PushMakes, ZenonT(60)
    <3>9. Inserts(St(1), r)
      BY <1>4, <2>1, <2>2, <3>5, <3>8 DEF Inserts, Restored
    <3> QED BY <3>8, <3>9 DEF Makes
  <2> QED BY <2>4, <2>5
<1> QED BY <1>5, <1>6

LEMMA PeekMakes ==
  ASSUME IInv, Peek
  PROVE  \E r \in Recs : Makes(r) /\ (Advances(St(1), r) \/ Rests(St(1), r))
<1>1. PICK n \in 1 .. Bufsiz : \E s \in {pgetc(St(n))} :
       CASE s.c = ";" -> CurrentBecomes([s EXCEPT !.check = TRUE]) /\ To("token")
         [] s.c = "\\" -> CurrentBecomes(s) /\ To("linecont")
         [] OTHER -> CurrentBecomes(NewCommand(pungetc(s))) /\ To("token")
  BY DEF Peek
<1>2. PICK t, s, u : t = pgetc(s) /\ s = St(n) /\ u = pungetc(t)
  OBVIOUS
<1>3. mode = "peek" /\ commands' = commands
  BY DEF Peek
<1>4. Obtained(s, t) /\ t.nleft # -2 /\ s \in Recs /\ Left(s) = Left(St(1)) /\ Held(parsefile, s)
  BY <1>2, <1>3, Continues, Reading
<1>5. t \in Recs
  BY <1>4 DEF Obtained
<1>6. CASE t.c = ";"
  <2>1. PICK r : r = [t EXCEPT !.check = TRUE]
    OBVIOUS
  <2>2. CurrentBecomes(r) /\ To("token")
    BY <1>1, <1>2, <1>6, <2>1
  <2>3. r = SetTo(t, TRUE, t.c) /\ t.c \in Got
    BY <1>5, <2>1, SetAll
  <2>4. t.c \in Chars
    BY <1>6 DEF Chars
  <2>5. CharOf(Left(s), t)
    BY <1>4, <2>4, Kinds DEF Obtained, EndOf, FakeOf
  <2>6. PICK y : y = Current(parsefile, t.file)
    OBVIOUS
  <2>7. Held(y, t)
    BY <1>4, <2>6, GotHeld
  <2>8. Held(y, r) /\ r \in Recs /\ Alike(t, r) /\ Left(r) = Left(t) /\ r.c = t.c
    <3>1. PICK b, x : b = TRUE /\ x = t.c
      OBVIOUS
    <3>2. b \in BOOLEAN /\ x \in Got /\ r = SetTo(t, b, x)
      BY <2>3, <3>1
    <3>3. Held(y, r) /\ r \in Recs /\ Alike(t, r) /\ Left(r) = Left(t) /\ r.c = x
      BY <2>7, <3>2, HeldSet
    <3> QED BY <3>1, <3>3
  <2>9. r.nleft # -2 /\ r.nleft # -1
    BY <1>5, <2>5, <2>8, RecIs DEF CharOf, Alike
  <2>10. ModeGood(r, mode', Len(parsefile)) /\ mode' \in Modes /\ word' \in Letters \cup {NoChar}
    BY <2>2, <2>9 DEF ModeGood, Modes, To
  <2>11. commands' \in 0 .. MaxCommands
    BY <1>3 DEF IInv
  <2>12. Makes(r)
    BY <2>2, <2>6, <2>8, <2>10, <2>11 DEF Makes, Alike
  <2>13. Advances(St(1), r)
    BY <1>4, <2>4, <2>5, <2>8 DEF Advances, CharOf
  <2> QED BY <2>8, <2>12, <2>13
<1>7. CASE t.c = "\\"
  <2>1. CurrentBecomes(t) /\ To("linecont")
    BY <1>1, <1>2, <1>7
  <2>2. t.c # PEOF
    BY <1>7, Kinds DEF Chars
  <2>3. mode' = "linecont" /\ word' \in Letters \cup {NoChar}
    BY <2>1 DEF To
  <2>4. Makes(t) /\ Advances(St(1), t)
    BY <1>2, <1>3, <1>4, <1>7, <2>1, <2>2, <2>3, GetMakes DEF Modes
  <2> QED BY <1>5, <2>4
<1>8. CASE t.c # ";" /\ t.c # "\\"
  <2>1. PICK r : r = NewCommand(u)
    OBVIOUS
  <2>2. CurrentBecomes(r) /\ To("token")
    BY <1>1, <1>2, <1>8, <2>1
  <2>3. mode' = "token" /\ word' \in Letters \cup {NoChar}
    BY <2>2 DEF To
  <2>4. Restored(s, u)
    BY <1>2, <1>4, PutIs
  <2>5. r = SetTo(u, TRUE, NoChar)
    BY <2>1, <2>4, SetAll DEF Restored
  <2>6. Makes(r) /\ Rests(St(1), r)
    BY <1>2, <1>3, <2>2, <2>3, <2>4, <2>5, PutMakes DEF Modes
  <2> QED BY <2>6 DEF Makes
<1> QED BY <1>6, <1>7, <1>8

LEMMA LineContMakes ==
  ASSUME IInv, LineCont
  PROVE  \E r \in Recs : Makes(r) /\ (Advances(St(1), r) \/ Unreads(St(1), r))
<1>1. PICK n \in 1 .. Bufsiz : \E s \in {pgetc(St(n))} :
       IF s.c = "n" THEN CurrentBecomes(s) /\ To("peek")
       ELSE /\ CurrentBecomes(NewCommand(pungetc(pgetc(
                  pushstring(pungetc(s), <<"\\">>, 0)))))
            /\ To("token")
  BY DEF LineCont
<1>2. PICK t, s, u : t = pgetc(s) /\ s = St(n) /\ u = pungetc(t)
  OBVIOUS
<1>3. mode = "linecont" /\ commands' = commands
  BY DEF LineCont
<1>4. Obtained(s, t) /\ t.nleft # -2 /\ s \in Recs /\ Left(s) = Left(St(1)) /\ Held(parsefile, s) /\ s.block <= Bufsiz
  BY <1>2, <1>3, Continues, Reading
<1>5. CASE t.c = "n"
  <2>1. CurrentBecomes(t) /\ To("peek")
    BY <1>1, <1>2, <1>5
  <2>2. mode' = "peek" /\ word' \in Letters \cup {NoChar}
    BY <2>1 DEF To
  <2>3. t.c # PEOF
    BY <1>5, Kinds DEF Chars
  <2>4. Makes(t) /\ Advances(St(1), t)
    BY <1>2, <1>3, <1>4, <2>1, <2>2, <2>3, GetMakes DEF Modes
  <2> QED BY <2>4 DEF Makes
<1>6. CASE t.c # "n"
  <2>1. PICK text, v, w, x, r : /\ text = <<"\\">> /\ v = pushstring(u, text, 0) /\ w = pgetc(v) /\ x = pungetc(w)
                                /\ r = NewCommand(x)
    OBVIOUS
  <2>2. CurrentBecomes(r) /\ To("token")
    BY <1>1, <1>2, <1>6, <2>1
  <2>3. mode' = "token" /\ word' \in Letters \cup {NoChar}
    BY <2>2 DEF To
  <2>4. Restored(s, u)
    BY <1>2, <1>4, PutIs
  <2>5. /\ u \in Recs /\ Level(u) /\ u.file.hasbuf = s.file.hasbuf /\ Popping(s, u) /\ Pushable(u)
        /\ u.block = s.block
    BY <2>4 DEF Restored
  <2>6. text \in Seq(Chars) /\ 0 \in AliasIds \cup {0} /\ Len(text) = 1
    BY <2>1 DEF Chars
  <2>7. /\ Held(Current(parsefile, v.file), v) /\ PushedIs(u, text, 0, v) /\ v \in Recs
    BY <1>4, <2>1, <2>5, <2>6, PushHeld
  <2>8. v.nleft = 1 /\ v.block = s.block /\ Level(v) /\ Left(v) = text \o Left(u)
    <3>1. v.nleft = Len(text) /\ v.block = u.block /\ Level(v) /\ Left(v) = text \o Left(u)
      BY <2>7, Zenon DEF PushedIs
    <3> QED BY <2>5, <2>6, <3>1
  <2>9. Obtained(v, w) /\ w.nleft # -2
    <3>1. Obtained(v, w)
      BY <1>4, <2>1, <2>7, <2>8, GetIs
    <3> QED BY <2>8, <3>1 DEF Obtained
  <2>10. Restored(v, x)
    BY <2>1, <2>7, <2>9, PutIs
  <2>11. PICK y : y = Current(parsefile, v.file)
    OBVIOUS
  <2>12. /\ Held(Current(y, x.file), x) /\ x \in Recs /\ x.nleft # -2 /\ x.nleft # -1
    BY <2>7, <2>10, <2>11, PutHeld
  <2>13. Current(y, x.file) = Current(parsefile, x.file)
    <3>1. parsefile \in Seq(PFiles) /\ parsefile # << >> /\ v.file \in PFiles /\ x.file \in PFiles
      BY <1>4, <2>7, <2>12, RecIs DEF Held
    <3> QED BY <2>11, <3>1, CurrentIs
  <2>14. PICK z, b : z = Current(parsefile, x.file) /\ b = TRUE
    OBVIOUS
  <2>15. Held(z, x) /\ b \in BOOLEAN
    BY <2>12, <2>13, <2>14
  <2>16. r = SetTo(x, b, NoChar) /\ NoChar \in Got
    BY <2>1, <2>12, <2>14, SetAll
  <2>17. Held(z, r) /\ r \in Recs /\ Alike(x, r) /\ Left(r) = Left(x) /\ r.c = NoChar
    BY <2>15, <2>16, HeldSet
  <2>18. r.file = x.file /\ r.nleft # -2 /\ r.nleft # -1
    BY <2>12, <2>17 DEF Alike
  <2>19. ModeGood(r, mode', Len(parsefile)) /\ mode' \in Modes
    BY <2>3, <2>18 DEF ModeGood, Modes
  <2>20. commands' \in 0 .. MaxCommands
    BY <1>3 DEF IInv
  <2>21. Makes(r)
    BY <2>2, <2>3, <2>14, <2>17, <2>18, <2>19, <2>20 DEF Makes
  <2>22. St(1).c = "\\"
    BY <1>3 DEF IInv, ModeGood
  <2>23. FileChars = Chars => Left(r) = <<"\\">> \o Left(St(1))
    BY <1>4, <2>1, <2>4, <2>8, <2>10, <2>17 DEF Restored
  <2> QED BY <2>17, <2>21, <2>22, <2>23 DEF Unreads
<1> QED BY <1>5, <1>6

LEMMA QuoteMakes ==
  ASSUME IInv, Quote
  PROVE  \E r \in Recs : Makes(r) /\ Advances(St(1), r)
<1>1. PICK n \in 1 .. Bufsiz : \E s \in {pgetc(St(n))} :
       CASE s.c = "n" -> CurrentBecomes(s) /\ To("token")
         [] s.c = PEOF -> CurrentBecomes(s) /\ To("eof")
         [] OTHER -> CurrentBecomes(s) /\ To("word")
  BY DEF Quote
<1>2. PICK t, s : t = pgetc(s) /\ s = St(n)
  OBVIOUS
<1>3. mode = "quote" /\ commands' = commands
  BY DEF Quote
<1>4. Obtained(s, t) /\ t.nleft # -2
  BY <1>2, <1>3, Continues
<1>5. CurrentBecomes(t) /\ mode' \in {"token", "eof", "word"} /\ (t.c = PEOF => mode' = "eof") /\ word' = NoChar
  BY <1>1, <1>2, Kinds DEF To, Chars
<1>6. Makes(t) /\ Advances(St(1), t)
  BY <1>2, <1>3, <1>4, <1>5, GetMakes DEF Modes
<1> QED BY <1>6 DEF Makes

LEMMA HereDocMakes ==
  ASSUME IInv, HereDoc
  PROVE  \E r \in Recs : Makes(r) /\ Advances(St(1), r)
<1>1. PICK n \in 1 .. Bufsiz : \E s \in {pgetc(St(n))} :
       /\ s.c # PEOF
       /\ CurrentBecomes(s)
       /\ To(CASE s.c = Head(Mark) -> "checkend"
             [] s.c = "n" -> "heredoc"
             [] OTHER -> "line")
  BY DEF HereDoc
<1>2. PICK t, s : t = pgetc(s) /\ s = St(n)
  OBVIOUS
<1>3. mode = "heredoc" /\ commands' = commands
  BY DEF HereDoc
<1>4. Obtained(s, t) /\ t.nleft # -2
  BY <1>2, <1>3, Continues
<1>5. PICK h : h = Head(Mark)
  OBVIOUS
<1>6. /\ CurrentBecomes(t) /\ t.c # PEOF /\ word' = NoChar /\ mode' \in {"checkend", "heredoc", "line"}
      /\ (mode' = "checkend" => t.c = h)
  BY <1>1, <1>2, <1>5 DEF To
<1>7. Makes(t) /\ Advances(St(1), t)
  BY <1>2, <1>3, <1>4, <1>5, <1>6, GetMakes DEF Modes
<1> QED BY <1>7 DEF Makes

LEMMA LineMakes ==
  ASSUME IInv, Line
  PROVE  \E r \in Recs : Makes(r) /\ Advances(St(1), r)
<1>1. PICK n \in 1 .. Bufsiz : \E s \in {pgetc(St(n))} :
       /\ s.c # PEOF
       /\ CurrentBecomes(s)
       /\ To(IF s.c = "n" THEN "heredoc" ELSE "line")
  BY DEF Line
<1>2. PICK t, s : t = pgetc(s) /\ s = St(n)
  OBVIOUS
<1>3. mode = "line" /\ commands' = commands
  BY DEF Line
<1>4. Obtained(s, t) /\ t.nleft # -2
  BY <1>2, <1>3, Continues
<1>5. CurrentBecomes(t) /\ t.c # PEOF /\ word' = NoChar /\ mode' \in {"heredoc", "line"}
  BY <1>1, <1>2 DEF To
<1>6. Makes(t) /\ Advances(St(1), t)
  BY <1>2, <1>3, <1>4, <1>5, GetMakes DEF Modes
<1> QED BY <1>6 DEF Makes

LEMMA CheckEndMakes ==
  ASSUME IInv, checkend
  PROVE  \E r \in Recs : Makes(r) /\ (EndsMark(St(1), r) \/ Rests(St(1), r))
<1>1. PICK n \in 1 .. Bufsiz : \E m \in {Matched(St(n))} :
       IF m[1].c \in {PEOF, "n"} /\ m[2] > Len(Mark)
       THEN CurrentBecomes([m[1] EXCEPT !.c = NoChar]) /\ To("run")
       ELSE /\ CurrentBecomes(pushstring(pungetc(m[1]), SubSeq(Mark, 2, m[2] - 1), 0))
            /\ To("line")
  BY DEF checkend
<1>2. PICK m, s : m = Matched(s) /\ s = St(n)
  OBVIOUS
<1>3. PICK t, u, text : t = m[1] /\ u = pungetc(t) /\ text = SubSeq(Mark, 2, m[2] - 1)
  OBVIOUS
<1>4. mode = "checkend" /\ commands' = commands
  BY DEF checkend
<1>5. Fresh(s) /\ s \in Recs /\ Left(s) = Left(St(1)) /\ Held(parsefile, s)
  BY <1>2, <1>4, Continues, Reading
<1>6. MarkSoFar(s, m)
  BY <1>2, <1>5, MatchedIs
<1>7. CASE t.c \in {PEOF, "n"} /\ m[2] > Len(Mark)
  <2>1. PICK r : r = [t EXCEPT !.c = NoChar]
    OBVIOUS
  <2>2. CurrentBecomes(r) /\ To("run")
    BY <1>1, <1>2, <1>3, <1>7, <2>1
  <2>3. PICK v \in Recs : Obtained(v, t) /\ v.file.hasbuf = s.file.hasbuf /\ Popping(s, v) /\ Level(v)
    BY <1>3, <1>6 DEF MarkSoFar
  <2>4. t \in Recs /\ t.nleft # -2 /\ Level(t) /\ t.file.hasbuf = s.file.hasbuf /\ Popping(v, t)
    BY <1>3, <1>6, <2>3 DEF MarkSoFar, Obtained
  <2>5. Popping(s, t)
    BY <1>5, <2>3, <2>4, PoppedOn
  <2>6. PICK y, b : y = Current(parsefile, t.file) /\ b = t.check
    OBVIOUS
  <2>7. Held(y, t)
    BY <1>5, <2>4, <2>5, <2>6, HeldPopped
  <2>8. r = SetTo(t, b, NoChar) /\ b \in BOOLEAN /\ NoChar \in Got
    BY <2>1, <2>4, <2>6, SetAll
  <2>9. Held(y, r) /\ r \in Recs /\ Alike(t, r) /\ Left(r) = Left(t) /\ r.c = NoChar
    BY <2>7, <2>8, HeldSet
  <2>10. mode' = "run" /\ word' \in Letters \cup {NoChar}
    BY <2>2 DEF To
  <2>11. r.file = t.file /\ r.nleft # -2
    BY <2>4, <2>9 DEF Alike
  <2>12. ModeGood(r, mode', Len(parsefile)) /\ mode' \in Modes
    BY <2>10, <2>11 DEF ModeGood, Modes
  <2>13. commands' \in 0 .. MaxCommands
    BY <1>4 DEF IInv
  <2>14. Makes(r)
    BY <2>2, <2>6, <2>9, <2>10, <2>11, <2>12, <2>13 DEF Makes
  <2>15. St(1).c = Head(Mark)
    BY <1>4 DEF IInv, ModeGood
  <2>16. FileChars = Chars => \E end \in {<< >>, <<"n">>} :
           Left(s) = (Tail(Mark) \o end) \o Left(t) /\ (end = << >> => Left(t) = << >>)
    BY <1>3, <1>5, <1>6, <1>7, MarkEnds
  <2>17. EndsMark(St(1), r)
    BY <1>5, <2>9, <2>15, <2>16 DEF EndsMark
  <2> QED BY <2>9, <2>14, <2>17
<1>8. CASE ~(t.c \in {PEOF, "n"} /\ m[2] > Len(Mark))
  <2>1. PICK r : r = pushstring(u, text, 0)
    OBVIOUS
  <2>2. CurrentBecomes(r) /\ To("line")
    BY <1>1, <1>2, <1>3, <1>8, <2>1
  <2>3. mode' = "line" /\ word' \in Letters \cup {NoChar} /\ mode' \in Modes \ {"done", "linecont", "checkend"}
    BY <2>2 DEF To, Modes
  <2>4. /\ u \in Recs /\ Level(u) /\ Pushable(u) /\ Popping(s, u) /\ u.file.hasbuf = s.file.hasbuf
        /\ u.c = NoChar /\ text \in Seq(Chars)
        /\ FileChars = Chars => Left(s) = text \o Left(u)
    <3>1. u = pungetc(m[1]) /\ text = SubSeq(Mark, 2, m[2] - 1)
      BY <1>3
    <3>2. PutBack(s, u, text)
      BY <1>5, <1>6, <3>1, MarkBack, Zenon
    <3> QED BY <3>2, Zenon DEF PutBack
  <2>5. Makes(r) /\ r.c = u.c /\ Left(r) = text \o Left(u)
    <3>1. 0 \in AliasIds \cup {0}
      OBVIOUS
    <3>2. u.file.hasbuf = St(n).file.hasbuf /\ Popping(St(n), u)
      BY <1>2, <2>4
    <3> QED BY <1>4, <2>1, <2>2, <2>3, <2>4, <3>1, <3>2, PushMakes
  <2>6. Rests(St(1), r)
    BY <1>5, <2>4, <2>5 DEF Rests
  <2> QED BY <2>5, <2>6 DEF Makes
<1> QED BY <1>7, <1>8

------------------------------------------------------------------------------
(* Commands that change the aliases.                                       *)
Stays(x, r) == r.c = x.c /\ Left(r) = Left(x)

Frees(table, S) == [a \in AliasIds |-> IF a \in S THEN freealias(table[a]) ELSE table[a]]

NamesInUse(table) == \A a \in AliasIds : table[a].inuse => table[a].name # "free"

LEMMA FreesIs ==
  ASSUME NEW table \in [AliasIds -> Entries], NamesInUse(table), NEW S, NEW table1, table1 = Frees(table, S)
  PROVE  /\ table1 \in [AliasIds -> Entries] /\ NamesInUse(table1)
         /\ \A a \in AliasIds : table1[a].inuse = table[a].inuse
         /\ \A a \in AliasIds : table[a].name = "free" => table1[a].name = "free"
<1>1. ASSUME NEW a \in AliasIds
      PROVE  /\ table1[a] \in Entries /\ table1[a].inuse = table[a].inuse
             /\ (table1[a].inuse => table1[a].name # "free")
             /\ (table[a].name = "free" => table1[a].name = "free")
  <2>1. PICK e, f : e = table[a] /\ f = table1[a]
    OBVIOUS
  <2>2. e \in Entries /\ (e.inuse => e.name # "free")
    BY <2>1 DEF NamesInUse
  <2>3. CASE a \notin S
    <3>1. f = e
      BY <2>1, <2>3 DEF Frees
    <3> QED BY <2>1, <2>2, <3>1
  <2>4. CASE a \in S /\ e.inuse
    <3>1. f = [e EXCEPT !.name = ""]
      BY <2>1, <2>4 DEF Frees, freealias
    <3>2. f \in Entries /\ f.inuse = e.inuse /\ f.name = ""
      BY <2>2, <3>1 DEF Entries
    <3> QED BY <2>1, <2>2, <2>4, <3>2
  <2>5. CASE a \in S /\ ~e.inuse
    <3>1. f = NoAlias
      BY <2>1, <2>5 DEF Frees, freealias
    <3>2. f \in Entries /\ f.name = "free" /\ f.inuse = FALSE
      BY <3>1 DEF Entries, NoAlias
    <3>3. e.inuse = FALSE
      BY <2>2, <2>5 DEF Entries
    <3> QED BY <2>1, <3>2, <3>3
  <2> QED BY <2>3, <2>4, <2>5
<1>2. table1 = [a \in AliasIds |-> table1[a]]
  BY DEF Frees
<1>3. table1 \in [AliasIds -> Entries]
  BY <1>1, <1>2
<1> QED BY <1>1, <1>3 DEF NamesInUse

LEMMA HeldNames ==
  ASSUME NEW files, NEW s, Held(files, s)
  PROVE  NamesInUse(s.atab) /\ s.atab \in [AliasIds -> Entries]
<1>1. UsesGood(files, s.atab) /\ s \in Recs
  BY DEF Held
<1>2. PICK table : table = s.atab
  OBVIOUS
<1>3. ASSUME NEW a \in AliasIds, table[a].inuse PROVE table[a].name # "free"
  <2>1. PICK p \in Slots(files) : ApAt(files, p) = a
    BY <1>1, <1>2, <1>3 DEF UsesGood
  <2>2. a # 0
    BY DEF AliasIds
  <2> QED BY <1>1, <1>2, <2>1, <2>2 DEF UsesGood
<1> QED BY <1>1, <1>2, <1>3, RecIs DEF NamesInUse

TableMade(table, table1) ==
  /\ table1 \in [AliasIds -> Entries] /\ NamesInUse(table1)
  /\ \A a \in AliasIds : table1[a].inuse = table[a].inuse

LEMMA TableMakes ==
  ASSUME IInv, mode = "run", NEW table1, TableMade(atab, table1),
         NEW r, r = [St(1) EXCEPT !.atab = table1], CurrentBecomes(r),
         UNCHANGED <<mode, word>>, commands' \in 0 .. MaxCommands
  PROVE  Makes(r) /\ Stays(St(1), r)
<1>1. PICK s : s = St(1)
  OBVIOUS
<1>2. Held(parsefile, s) /\ s \in Recs /\ s.atab = atab /\ ModeGood(s, mode, Len(parsefile))
  BY <1>1, StIs DEF IInv, Held
<1>3. r \in Recs /\ Alike(s, r) /\ r.c = s.c /\ r.atab = table1
  BY <1>1, <1>2 DEF TableMade, Recs, Alike
<1>4. \A a \in AliasIds : (r.atab[a].inuse <=> s.atab[a].inuse) /\
            (s.atab[a].inuse /\ s.atab[a].name # "free" => r.atab[a].name # "free")
  BY <1>2, <1>3 DEF TableMade, NamesInUse
<1>5. Held(parsefile, r) /\ Left(r) = Left(s)
  BY <1>2, <1>3, <1>4, HeldAlike
<1>6. Current(parsefile, r.file) = parsefile
  <2>1. /\ parsefile \in Seq(PFiles) /\ parsefile # << >> /\ r.file \in PFiles /\ r.file = parsefile[Len(parsefile)]
    BY <1>3, <1>5, RecIs DEF Held
  <2> QED BY <2>1, CurrentIs
<1>7. ModeGood(r, mode', Len(parsefile))
  BY <1>2, <1>3 DEF ModeGood, Alike
<1> QED BY <1>1, <1>3, <1>5, <1>6, <1>7 DEF Makes, Stays, IInv

LEMMA FreeMade ==
  ASSUME NEW s \in Recs, NamesInUse(s.atab), NEW S, NEW r, r = freealiases(s, S)
  PROVE  /\ r \in Recs /\ r = [s EXCEPT !.atab = r.atab] /\ TableMade(s.atab, r.atab)
         /\ \A a \in AliasIds : s.atab[a].name = "free" => r.atab[a].name = "free"
<1>1. PICK table, table1 : table = s.atab /\ table1 = Frees(table, S)
  OBVIOUS
<1>2. table \in [AliasIds -> Entries] /\ NamesInUse(table)
  BY <1>1, RecIs
<1>3. TableMade(table, table1) /\ \A a \in AliasIds : table[a].name = "free" => table1[a].name = "free"
  BY <1>1, <1>2, FreesIs DEF TableMade
<1>4. r = [s EXCEPT !.atab = table1]
  BY <1>1 DEF freealiases, Frees, Recs
<1>5. r \in Recs /\ r.atab = table1
  BY <1>3, <1>4 DEF TableMade, Recs
<1> QED BY <1>1, <1>3, <1>4, <1>5

LEMMA SetMade ==
  ASSUME NEW s \in Recs, NamesInUse(s.atab), Named(s, "free") # {}, NEW w \in Letters, NEW val \in Values,
         NEW r, r = setalias(s, w, val)
  PROVE  r = [s EXCEPT !.atab = r.atab] /\ TableMade(s.atab, r.atab)
<1>1. PICK t, table : t = unalias(s, w) /\ table = t.atab
  OBVIOUS
<1>2. t = freealiases(s, Named(s, w))
  BY <1>1 DEF unalias
<1>3. /\ t \in Recs /\ t = [s EXCEPT !.atab = t.atab] /\ TableMade(s.atab, t.atab)
      /\ \A a \in AliasIds : s.atab[a].name = "free" => t.atab[a].name = "free"
  BY <1>2, FreeMade
<1>4. PICK free, a : free = {x \in AliasIds : table[x].name = "free"} /\ a = Min(free)
  OBVIOUS
<1>5. a \in free
  <2>1. free \subseteq Nat
    BY <1>4 DEF AliasIds
  <2>2. free # {}
    BY <1>1, <1>3, <1>4 DEF Named
  <2> QED BY <1>4, <2>1, <2>2, MinIs
<1>6. a \in AliasIds /\ table[a].name = "free"
  BY <1>4, <1>5
<1>7. PICK e, table1 : e = [name |-> w, val |-> val, inuse |-> FALSE] /\ table1 = [table EXCEPT ![a] = e]
  OBVIOUS
<1>8. r = [t EXCEPT !.atab = table1]
  <2>1. r = [t EXCEPT !.atab[Min({x \in AliasIds : t.atab[x].name = "free"})] =
                        [name |-> w, val |-> val, inuse |-> FALSE]]
    BY <1>1, Zenon DEF setalias
  <2>2. r = [t EXCEPT !.atab[a] = e]
    BY <1>1, <1>4, <1>7, <2>1
  <2> QED BY <1>1, <1>3, <1>7, <2>2 DEF Recs
<1>9. TableMade(s.atab, table)
  BY <1>1, <1>3
<1>10. e \in Entries /\ e.inuse = FALSE /\ w # "free"
  BY <1>7, InputConstants DEF Entries
<1>11. table \in [AliasIds -> Entries] /\ NamesInUse(table) /\ \A x \in AliasIds : table[x].inuse = s.atab[x].inuse
  BY <1>9 DEF TableMade
<1>12. table[a].inuse = FALSE
  <2>1. ~table[a].inuse
    BY <1>6, <1>11 DEF NamesInUse
  <2>2. table[a].inuse \in BOOLEAN
    BY <1>6, <1>11 DEF Entries
  <2> QED BY <2>1, <2>2
<1>13. table1 \in [AliasIds -> Entries] /\ table1[a] = e /\ \A x \in AliasIds : x # a => table1[x] = table[x]
  BY <1>6, <1>7, <1>10, <1>11
<1>14. TableMade(s.atab, table1)
  <2>1. ASSUME NEW x \in AliasIds
        PROVE  table1[x].inuse = s.atab[x].inuse /\ (table1[x].inuse => table1[x].name # "free")
    <3>1. CASE x = a
      BY <1>10, <1>11, <1>12, <1>13, <3>1
    <3>2. CASE x # a
      BY <1>11, <1>13, <3>2 DEF NamesInUse
    <3> QED BY <3>1, <3>2
  <2> QED BY <1>13, <2>1 DEF TableMade, NamesInUse
<1>15. r = [s EXCEPT !.atab = table1] /\ r.atab = table1
  BY <1>1, <1>3, <1>8 DEF Recs
<1> QED BY <1>14, <1>15

LEMMA CountIs ==
  ASSUME commands \in 0 .. MaxCommands, Counted
  PROVE  commands' \in 0 .. MaxCommands
<1>1. MaxCommands \in Nat
  BY InputConstants
<1>2. commands \in Nat
  BY <1>1
<1>3. commands < MaxCommands /\ commands' = commands + 1
  BY DEF Counted
<1> QED BY <1>1, <1>2, <1>3

LEMMA AliasMakes ==
  ASSUME IInv, aliascmd
  PROVE  \E r \in Recs : Makes(r) /\ Stays(St(1), r)
<1>1. PICK s : s = St(1)
  OBVIOUS
<1>2. PICK w \in Letters, val \in Values : CurrentBecomes(setalias(s, w, val))
  BY <1>1 DEF aliascmd
<1>3. mode = "run" /\ Counted /\ Named(s, "free") # {} /\ UNCHANGED <<mode, word>>
  BY <1>1 DEF aliascmd
<1>4. s \in Recs /\ NamesInUse(s.atab) /\ s.atab = atab
  BY <1>1, HeldNames, StIs DEF IInv, Held
<1>5. PICK r, table : r = setalias(s, w, val) /\ table = r.atab
  OBVIOUS
<1>6. r = [s EXCEPT !.atab = table] /\ TableMade(atab, table)
  BY <1>3, <1>4, <1>5, SetMade
<1>7. commands' \in 0 .. MaxCommands
  BY <1>3, CountIs DEF IInv
<1>8. Makes(r) /\ Stays(s, r)
  BY <1>1, <1>2, <1>3, <1>5, <1>6, <1>7, TableMakes
<1> QED BY <1>1, <1>8 DEF Makes

LEMMA UnaliasMakes ==
  ASSUME IInv, unaliascmd
  PROVE  \E r \in Recs : Makes(r) /\ Stays(St(1), r)
<1>1. PICK s : s = St(1)
  OBVIOUS
<1>2. mode = "run" /\ Counted /\ UNCHANGED <<mode, word>>
  BY DEF unaliascmd
<1>3. s \in Recs /\ NamesInUse(s.atab) /\ s.atab = atab
  BY <1>1, HeldNames, StIs DEF IInv, Held
<1>4. commands' \in 0 .. MaxCommands
  BY <1>2, CountIs DEF IInv
<1>5. ASSUME NEW w \in Letters, CurrentBecomes(unalias(countaliases(s), w))
      PROVE  \E r \in Recs : Makes(r) /\ Stays(s, r)
  <2>1. PICK t, r, table, table1 : t = countaliases(s) /\ r = unalias(t, w) /\ table = t.atab /\ table1 = r.atab
    OBVIOUS
  <2>2. t \in Recs /\ t = [s EXCEPT !.atab = table] /\ TableMade(atab, table)
    BY <1>3, <2>1, FreeMade DEF countaliases
  <2>3. NamesInUse(t.atab)
    BY <2>1, <2>2 DEF TableMade
  <2>4. r = [t EXCEPT !.atab = table1] /\ TableMade(table, table1)
    <3>1. PICK S : S = Named(t, w)
      OBVIOUS
    <3>2. r = freealiases(t, S)
      BY <2>1, <3>1 DEF unalias
    <3>3. r = [t EXCEPT !.atab = r.atab] /\ TableMade(t.atab, r.atab)
      <4>1. t \in Recs
        BY <2>2
      <4> QED BY ONLY <4>1, <2>3, <3>2, FreeMade
    <3> QED BY <2>1, <3>3
  <2>5. r = [s EXCEPT !.atab = table1]
    BY <1>3, <2>2, <2>4 DEF Recs
  <2>6. TableMade(atab, table1)
    BY <2>2, <2>4 DEF TableMade
  <2>7. Makes(r) /\ Stays(s, r)
    BY <1>1, <1>2, <1>4, <1>5, <2>1, <2>5, <2>6, TableMakes
  <2> QED BY <2>7 DEF Makes
<1>6. ASSUME NEW S, CurrentBecomes(freealiases(s, S))
      PROVE  \E r \in Recs : Makes(r) /\ Stays(s, r)
  <2>1. PICK r, table : r = freealiases(s, S) /\ table = r.atab
    OBVIOUS
  <2>2. r = [s EXCEPT !.atab = table] /\ TableMade(atab, table)
    BY <1>3, <2>1, FreeMade
  <2>3. Makes(r) /\ Stays(s, r)
    BY <1>1, <1>2, <1>4, <1>6, <2>1, <2>2, TableMakes
  <2> QED BY <2>3 DEF Makes
<1> QED BY <1>1, <1>5, <1>6 DEF unaliascmd

LEMMA GoMakes ==
  ASSUME IInv, Go
  PROVE  \E r \in Recs : Makes(r) /\ Rests(St(1), r)
<1>1. PICK s, r, b : s = St(1) /\ r = NewCommand(s) /\ b = TRUE
  OBVIOUS
<1>2. mode = "run" /\ To("token") /\ CurrentBecomes(r) /\ commands' = commands
  BY <1>1 DEF Go
<1>3. Held(parsefile, s) /\ s \in Recs /\ ModeGood(s, mode, Len(parsefile))
  BY <1>1 DEF IInv, Held
<1>4. r = SetTo(s, b, NoChar) /\ NoChar \in Got /\ b \in BOOLEAN
  BY <1>1, <1>3, SetAll
<1>5. Held(parsefile, r) /\ r \in Recs /\ Alike(s, r) /\ Left(r) = Left(s) /\ r.c = NoChar
  BY <1>3, <1>4, HeldSet
<1>6. Current(parsefile, r.file) = parsefile
  <2>1. /\ parsefile \in Seq(PFiles) /\ parsefile # << >> /\ r.file \in PFiles /\ r.file = parsefile[Len(parsefile)]
    BY <1>5, RecIs DEF Held
  <2> QED BY <2>1, CurrentIs
<1>7. mode' = "token" /\ word' \in Letters \cup {NoChar}
  BY <1>2 DEF To
<1>8. ModeGood(r, mode', Len(parsefile)) /\ mode' \in Modes
  BY <1>2, <1>3, <1>5, <1>7 DEF ModeGood, Alike, Modes
<1>9. Makes(r)
  BY <1>2, <1>5, <1>6, <1>7, <1>8 DEF Makes, IInv
<1> QED BY <1>1, <1>5, <1>9 DEF Rests

------------------------------------------------------------------------------
(* Files and strings are opened and closed.                                *)
Contents(files, s) ==
  [i \in 1 .. Len(files) |->
     IF i = Len(files) THEN Left(s) ELSE PendL(files[i], files[i].nextc, files[i].nleft, files[i].lleft)]

LEMMA SameUses ==
  ASSUME NEW files, NEW files1, NEW table, UsesGood(files, table),
         \A p : p \in Slots(files1) <=> p \in Slots(files),
         \A p \in Slots(files) : ApAt(files1, p) = ApAt(files, p)
  PROVE  UsesGood(files1, table)
<1>1. \A p \in Slots(files1) : ApAt(files1, p) # 0 =>
        table[ApAt(files1, p)].inuse /\ table[ApAt(files1, p)].name # "free"
  BY DEF UsesGood
<1>2. \A p, q \in Slots(files1) : ApAt(files1, p) # 0 /\ ApAt(files1, p) = ApAt(files1, q) => p = q
  BY DEF UsesGood
<1>3. \A a \in AliasIds : table[a].inuse => \E p \in Slots(files1) : ApAt(files1, p) = a
  BY DEF UsesGood
<1> QED BY <1>1, <1>2, <1>3 DEF UsesGood

Save(f, p, n, l) == [f EXCEPT !.nextc = p, !.nleft = n, !.lleft = l]

LEMMA SavedIs ==
  ASSUME NEW f, NEW p, NEW n, NEW l, LevelGood(f, p, n, l), NEW g, g = Save(f, p, n, l)
  PROVE  /\ g \in PFiles /\ g.strpush = f.strpush /\ g.hasbuf = f.hasbuf
         /\ g.nextc = p /\ g.nleft = n /\ g.lleft = l
         /\ LevelGood(g, p, n, l) /\ PendL(g, p, n, l) = PendL(f, p, n, l)
<1>1. f \in PFiles /\ p \in Places /\ n \in Int /\ l \in LLefts
  BY DEF LevelGood
<1>2. /\ g \in PFiles /\ g.strpush = f.strpush /\ g.hasbuf = f.hasbuf /\ g.buf = f.buf /\ g.unread = f.unread
      /\ g.nextc = p /\ g.nleft = n /\ g.lleft = l
  BY <1>1 DEF PFiles, Save
<1>3. ASSUME NEW y, NEW i PROVE Slice(g, y, i) = Slice(f, y, i) /\ (Reads(g, y, i) <=> Reads(f, y, i))
  BY <1>2 DEF Slice, Text, Reads
<1>4. PICK b : b = Base(f, p, n, l)
  OBVIOUS
<1>5. Base(g, p, n, l) = b
  BY <1>2, <1>4 DEF Base
<1>6. /\ b \in Bases /\ BaseGood(f, b) /\ StackGood(f) /\ Reads(f, p, n) /\ Len(f.buf) <= Bufsiz
      /\ (f.strpush # << >> => n >= -1)
  BY <1>1, <1>4, BaseIs DEF LevelGood
<1>7. BaseGood(g, b)
  BY <1>2, <1>3, <1>6 DEF BaseGood
<1>8. StackGood(g)
  BY <1>2, <1>3, <1>6 DEF StackGood
<1>9. LevelGood(g, p, n, l)
  BY <1>1, <1>2, <1>3, <1>5, <1>6, <1>7, <1>8 DEF LevelGood
<1>10. PICK N : N = Len(f.strpush)
  OBVIOUS
<1>11. Below(g, b)[N] = Below(f, b)[N]
  <2>1. N \in Nat /\ N \in 0 .. N /\ N <= Len(f.strpush) /\ N <= Len(g.strpush)
    BY <1>1, <1>2, <1>10, FileIs
  <2>2. \A j \in 1 .. N : f.strpush[j] = g.strpush[j]
    BY <1>2
  <2>3. \A j \in 0 .. N : Below(f, b)[j] = Below(g, b)[j]
    BY <1>1, <1>2, <1>6, <1>7, <1>8, <2>1, <2>2, BelowSame
  <2> QED BY <2>1, <2>3
<1>12. PendL(g, p, n, l) = PendL(f, p, n, l)
  BY <1>2, <1>3, <1>4, <1>5, <1>10, <1>11 DEF PendL
<1> QED BY <1>2, <1>9, <1>12

LEMMA ContentIs ==
  ASSUME NEW files, NEW s, Held(files, s)
  PROVE  /\ Contents(files, s) \in Seq(Seq(FileChars)) /\ Len(Contents(files, s)) = Len(files)
         /\ Contents(files, s) # << >>
         /\ Contents(files, s)[Len(files)] = Left(s)
         /\ \A i \in 1 .. Len(files) - 1 :
              Contents(files, s)[i] = PendL(files[i], files[i].nextc, files[i].nleft, files[i].lleft)
<1>1. PICK N, x : N = Len(files) /\ x = Contents(files, s)
  OBVIOUS
<1>2. N \in Nat /\ N >= 1 /\ \A i \in 1 .. N - 1 : Saved(files[i])
  BY <1>1 DEF Held
<1>3. Left(s) \in Seq(FileChars)
  BY PendIs DEF Held, Level, Left
<1>4. \A i \in 1 .. N - 1 : PendL(files[i], files[i].nextc, files[i].nleft, files[i].lleft) \in Seq(FileChars)
  BY <1>2, PendIs DEF Saved
<1>5. x = [i \in 1 .. N |-> IF i = N THEN Left(s) ELSE PendL(files[i], files[i].nextc, files[i].nleft, files[i].lleft)]
  BY <1>1 DEF Contents
<1>6. \A i \in 1 .. N - 1 : i \in 1 .. N /\ i # N
  BY <1>2
<1>7. \A i \in 1 .. N : i = N \/ i \in 1 .. N - 1
  BY <1>2
<1>8. \A i \in 1 .. N : x[i] \in Seq(FileChars)
  BY <1>3, <1>4, <1>5, <1>7
<1>9. x \in Seq(Seq(FileChars)) /\ Len(x) = N
  <2>1. x \in [1 .. N -> Seq(FileChars)]
    BY <1>5, <1>8
  <2>2. x \in Seq(Seq(FileChars))
    BY <1>2, <2>1, SeqDef
  <2> QED BY <1>2, <2>1, <2>2
<1>10. x[N] = Left(s) /\ \A i \in 1 .. N - 1 : x[i] = PendL(files[i], files[i].nextc, files[i].nleft, files[i].lleft)
  BY <1>2, <1>5, <1>6
<1> QED BY <1>1, <1>2, <1>9, <1>10

LEMMA SlotsWithin ==
  ASSUME NEW x \in Seq(PFiles), NEW y \in Seq(PFiles),
         \A i \in 1 .. Len(x) : x[i].strpush = << >> \/ (i \in 1 .. Len(y) /\ x[i].strpush = y[i].strpush)
  PROVE  \A p \in Slots(x) : p \in Slots(y) /\ ApAt(x, p) = ApAt(y, p)
<1> TAKE p \in Slots(x)
<1>1. PICK i, j : p = <<i, j>> /\ i \in 1 .. Len(x) /\ j \in 1 .. Len(x[i].strpush)
  <2>1. p = <<p[1], p[2]>>
    BY SlotsIs
  <2>2. p[1] \in 1 .. Len(x) /\ p[2] \in 1 .. Len(x[p[1]].strpush)
    BY <2>1, SlotsIs
  <2> QED BY <2>1, <2>2
<1>2. x[i].strpush # << >>
  <2>1. CASE x[i].strpush = << >>
    <3>1. Len(x[i].strpush) = 0
      BY <2>1
    <3>2. j \in 1 .. 0
      BY <1>1, <3>1
    <3> QED BY <3>2
  <2> QED BY <2>1
<1>3. i \in 1 .. Len(y) /\ x[i].strpush = y[i].strpush
  BY <1>1, <1>2
<1>4. p \in Slots(y)
  BY <1>1, <1>3, SlotsIs
<1> QED BY <1>1, <1>3, <1>4 DEF ApAt

Opening(files, s, o, y) ==
  /\ s.nleft # -2 /\ Len(files) < MaxFiles
  /\ o \in Recs /\ Level(o) /\ o.file.strpush = << >> /\ o.atab = s.atab
  /\ y = Append(Current(files, Save(s.file, s.nextc, s.nleft, s.lleft)), o.file)

Opened(files, s, o, y) ==
  Held(y, o) /\ Len(y) = Len(files) + 1 /\ Contents(y, o) = Append(Contents(files, s), Left(o))

LEMMA OpenHeld ==
  ASSUME NEW files, NEW s, Held(files, s), NEW o, NEW y, Opening(files, s, o, y)
  PROVE  Opened(files, s, o, y)
<1>0. PICK g : g = Save(s.file, s.nextc, s.nleft, s.lleft)
  OBVIOUS
<1>a. /\ s.nleft # -2 /\ Len(files) < MaxFiles
      /\ o \in Recs /\ Level(o) /\ o.file.strpush = << >> /\ o.atab = s.atab
      /\ y = Append(Current(files, g), o.file)
  BY <1>0 DEF Opening
<1>1. PICK N, f, x, h : N = Len(files) /\ f = s.file /\ x = Current(files, g) /\ h = o.file
  OBVIOUS
<1>2. /\ files \in Seq(PFiles) /\ N \in Nat /\ N >= 1 /\ N + 1 \in 1 .. MaxFiles /\ files # << >> /\ files[1].hasbuf
      /\ files[N] = f /\ \A i \in 1 .. N - 1 : Saved(files[i])
      /\ s \in Recs /\ UsesGood(files, s.atab) /\ f \in PFiles /\ h \in PFiles
      /\ DOMAIN files = 1 .. N
  <2>1. MaxFiles \in Nat
    BY InputConstants
  <2> QED BY <1>1, <1>a, <2>1, RecIs DEF Held
<1>3. /\ g \in PFiles /\ g.strpush = f.strpush /\ g.hasbuf = f.hasbuf /\ Saved(g)
      /\ PendL(g, g.nextc, g.nleft, g.lleft) = Left(s)
  <2>0. PICK p, n, l : p = s.nextc /\ n = s.nleft /\ l = s.lleft
    OBVIOUS
  <2>1. LevelGood(f, p, n, l) /\ g = Save(f, p, n, l)
    BY <1>0, <1>1, <2>0 DEF Held, Level
  <2>2. /\ g \in PFiles /\ g.strpush = f.strpush /\ g.hasbuf = f.hasbuf
        /\ g.nextc = p /\ g.nleft = n /\ g.lleft = l
        /\ LevelGood(g, p, n, l) /\ PendL(g, p, n, l) = PendL(f, p, n, l)
    BY ONLY <2>1, SavedIs
  <2>3. n # -2
    BY <1>a, <2>0
  <2>4. Left(s) = PendL(f, p, n, l)
    BY <1>1, <2>0 DEF Left
  <2> QED BY ONLY <2>2, <2>3, <2>4 DEF Saved
<1>4. /\ x \in Seq(PFiles) /\ Len(x) = N /\ \A i \in 1 .. N - 1 : x[i] = files[i]
      /\ x[N] = g
  BY <1>1, <1>2, <1>3, CurrentIs
<1>5. /\ y \in Seq(PFiles) /\ Len(y) = N + 1 /\ \A i \in 1 .. N : y[i] = x[i]
      /\ y[N + 1] = h
  BY <1>1, <1>2, <1>4, <1>a, AppendProperties
<1>6. \A i \in 1 .. N - 1 : i \in 1 .. N /\ y[i] = files[i] /\ i # N
  BY <1>2, <1>4, <1>5
<1>7. \A i \in 1 .. N : i = N \/ i \in 1 .. N - 1
  BY <1>2
<1>8. N \in 1 .. N /\ y[N] = g
  BY <1>2, <1>4, <1>5
<1>9. y[1].hasbuf
  <2>1. 1 \in 1 .. N
    BY <1>2
  <2>2. CASE 1 = N
    BY <1>2, <1>3, <1>8, <2>2
  <2>3. CASE 1 \in 1 .. N - 1
    BY <1>2, <1>6, <2>3
  <2> QED BY <1>7, <2>1, <2>2, <2>3
<1>10. \A i \in 1 .. N : Saved(y[i])
  BY <1>2, <1>3, <1>6, <1>7, <1>8
<1>11. \A i \in 1 .. N : y[i].strpush = files[i].strpush
  BY <1>2, <1>3, <1>6, <1>7, <1>8
<1>12. UsesGood(y, s.atab)
  <2>1. \A i \in 1 .. N : i \in 1 .. N + 1
    BY <1>2
  <2>2. \A i \in 1 .. Len(files) : files[i].strpush = << >> \/ (i \in 1 .. Len(y) /\ files[i].strpush = y[i].strpush)
    BY <1>1, <1>5, <1>11, <2>1
  <2>3. \A i \in 1 .. Len(y) : y[i].strpush = << >> \/ (i \in 1 .. Len(files) /\ y[i].strpush = files[i].strpush)
    <3>1. \A i \in 1 .. N + 1 : i = N + 1 \/ i \in 1 .. N
      BY <1>2
    <3>2. y[N + 1].strpush = << >>
      BY <1>1, <1>5, <1>a
    <3> QED BY <1>1, <1>5, <1>11, <3>1, <3>2
  <2>4. \A p \in Slots(files) : p \in Slots(y) /\ ApAt(files, p) = ApAt(y, p)
    BY <1>2, <1>5, <2>2, SlotsWithin
  <2>5. \A p \in Slots(y) : p \in Slots(files) /\ ApAt(y, p) = ApAt(files, p)
    BY <1>2, <1>5, <2>3, SlotsWithin
  <2>6. \A p : p \in Slots(y) <=> p \in Slots(files)
    BY <2>4, <2>5
  <2>7. PICK t : t = s.atab
    OBVIOUS
  <2>8. UsesGood(y, t)
    BY <1>2, <2>4, <2>6, <2>7, SameUses
  <2> QED BY <2>7, <2>8
<1>13. Held(y, o)
  <2>1. Len(y) - 1 = N
    BY <1>2, <1>5
  <2>2. y[Len(y)] = o.file
    BY <1>1, <1>5
  <2>3. \A i \in 1 .. Len(y) - 1 : Saved(y[i])
    BY <1>10, <2>1
  <2> QED BY <1>2, <1>5, <1>9, <1>12, <1>a, <2>2, <2>3 DEF Held
<1>14. PICK d, e : d = Contents(files, s) /\ e = Contents(y, o)
  OBVIOUS
<1>15. /\ d \in Seq(Seq(FileChars)) /\ Len(d) = N /\ d[N] = Left(s)
       /\ \A i \in 1 .. N - 1 : d[i] = PendL(files[i], files[i].nextc, files[i].nleft, files[i].lleft)
  BY <1>1, <1>14, ContentIs
<1>16. /\ e \in Seq(Seq(FileChars)) /\ Len(e) = N + 1 /\ e[N + 1] = Left(o)
       /\ \A i \in 1 .. N : e[i] = PendL(y[i], y[i].nextc, y[i].nleft, y[i].lleft)
  <2>1. /\ e \in Seq(Seq(FileChars)) /\ Len(e) = Len(y) /\ e[Len(y)] = Left(o)
        /\ \A i \in 1 .. Len(y) - 1 : e[i] = PendL(y[i], y[i].nextc, y[i].nleft, y[i].lleft)
    BY <1>13, <1>14, ContentIs
  <2>2. Len(y) - 1 = N
    BY <1>2, <1>5
  <2> QED BY <1>5, <2>1, <2>2
<1>17. \A i \in 1 .. N : e[i] = d[i]
  <2>1. e[N] = d[N]
    BY <1>3, <1>8, <1>15, <1>16
  <2>2. ASSUME NEW i \in 1 .. N - 1 PROVE e[i] = d[i]
    <3>1. i \in 1 .. N /\ y[i] = files[i]
      BY <1>6
    <3> QED BY ONLY <3>1, <1>15, <1>16
  <2> QED BY <1>7, <2>1, <2>2
<1>18. PICK L : L = Left(o)
  OBVIOUS
<1>19. L \in Seq(FileChars)
  <2>1. N + 1 \in 1 .. N + 1
    BY <1>2
  <2> QED BY <1>16, <1>18, <2>1
<1>20. /\ Append(d, L) \in Seq(Seq(FileChars)) /\ Len(Append(d, L)) = N + 1
       /\ \A i \in 1 .. N : Append(d, L)[i] = d[i]
       /\ Append(d, L)[N + 1] = L
  BY <1>15, <1>19, AppendProperties
<1>21. e = Append(d, L)
  <2>1. \A i \in 1 .. N + 1 : e[i] = Append(d, L)[i]
    <3>1. \A i \in 1 .. N + 1 : i = N + 1 \/ i \in 1 .. N
      BY <1>2
    <3> QED BY <1>16, <1>17, <1>18, <1>20, <3>1
  <2>2. DOMAIN e = 1 .. N + 1 /\ DOMAIN Append(d, L) = 1 .. N + 1
    BY <1>16, <1>20
  <2> QED BY <1>16, <1>20, <2>1, <2>2, SeqEqual
<1> QED BY <1>1, <1>5, <1>13, <1>14, <1>18, <1>21 DEF Opened

ApsAbove(files, k) == UNION {ApsFrom(files[i].strpush, 0) : i \in k + 1 .. Len(files)}

Closing(files, s, k, S, o, y) ==
  /\ k \in 1 .. Len(files) - 1
  /\ \A a \in AliasIds : a \in S <=> a \in ApsAbove(files, k)
  /\ o \in Recs /\ o.file = files[k] /\ o.nextc = files[k].nextc /\ o.nleft = files[k].nleft
  /\ o.lleft = files[k].lleft /\ o.atab = Cleared(s.atab, S)
  /\ y = SubSeq(files, 1, k)

ClosedTo(files, s, k, o, y) ==
  Held(y, o) /\ Len(y) = k /\ Contents(y, o) = SubSeq(Contents(files, s), 1, k) /\ o.nleft # -2

LEMMA CloseHeld ==
  ASSUME NEW files, NEW s, Held(files, s), NEW k, NEW S, NEW o, NEW y, Closing(files, s, k, S, o, y)
  PROVE  ClosedTo(files, s, k, o, y)
<1>a. /\ k \in 1 .. Len(files) - 1
      /\ \A a \in AliasIds : a \in S <=> a \in ApsAbove(files, k)
      /\ o \in Recs /\ o.file = files[k] /\ o.nextc = files[k].nextc /\ o.nleft = files[k].nleft
      /\ o.lleft = files[k].lleft /\ o.atab = Cleared(s.atab, S)
      /\ y = SubSeq(files, 1, k)
  BY DEF Closing
<1>1. PICK N, table : N = Len(files) /\ table = s.atab
  OBVIOUS
<1>2. /\ files \in Seq(PFiles) /\ N \in Nat /\ N >= 1 /\ N \in 1 .. MaxFiles /\ files[1].hasbuf
      /\ \A i \in 1 .. N - 1 : Saved(files[i])
      /\ UsesGood(files, table) /\ table \in [AliasIds -> Entries]
  BY <1>1, RecIs DEF Held
<1>3. k \in Nat /\ k >= 1 /\ k <= N - 1 /\ k \in 0 .. N /\ k \in 1 .. N - 1
  BY <1>1, <1>2, <1>a
<1>4. y \in Seq(PFiles) /\ Len(y) = k /\ \A i \in 1 .. k : y[i] = files[i]
  BY <1>1, <1>2, <1>3, <1>a, FrontIs
<1>5. \A i \in 1 .. k : i \in 1 .. N - 1 /\ i \in 1 .. N
  BY <1>2, <1>3
<1>6. Level(o) /\ o.nleft # -2
  <2>1. Saved(files[k])
    BY <1>2, <1>3
  <2> QED BY <1>a, <2>1 DEF Saved, Level
<1>7. ASSUME NEW p \in Slots(y) PROVE p \in Slots(files) /\ ApAt(y, p) = ApAt(files, p)
  <2>1. \A i \in 1 .. Len(y) : y[i].strpush = << >> \/ (i \in 1 .. Len(files) /\ y[i].strpush = files[i].strpush)
    BY <1>1, <1>4, <1>5
  <2> QED BY <1>2, <1>4, <2>1, SlotsWithin
<1>8. ASSUME NEW a \in AliasIds
      PROVE  a \in S <=> \E p \in Slots(files) : p \notin Slots(y) /\ ApAt(files, p) = a
  <2>1. ASSUME a \in S
        PROVE  \E p \in Slots(files) : p \notin Slots(y) /\ ApAt(files, p) = a
    <3>1. PICK i \in k + 1 .. N : a \in ApsFrom(files[i].strpush, 0)
      BY <1>1, <1>a, <2>1 DEF ApsAbove
    <3>2. PICK j \in 1 .. Len(files[i].strpush) : files[i].strpush[j].ap = a
      BY <3>1 DEF ApsFrom
    <3>3. i \in 1 .. N /\ i \notin 1 .. k
      BY <1>3
    <3>4. PICK p : p = <<i, j>>
      OBVIOUS
    <3>5. p \in Slots(files)
      BY <1>1, <1>2, <3>3, <3>4, SlotsIs
    <3>6. p \notin Slots(y)
      BY <1>4, <3>3, <3>4, SlotsIs
    <3>7. ApAt(files, p) = a
      BY <3>2, <3>4 DEF ApAt
    <3> QED BY <3>5, <3>6, <3>7
  <2>2. ASSUME NEW p \in Slots(files), p \notin Slots(y), ApAt(files, p) = a PROVE a \in S
    <3>1. PICK i, j : p = <<i, j>> /\ i \in 1 .. N /\ j \in 1 .. Len(files[i].strpush)
      <4>1. p = <<p[1], p[2]>>
        BY <1>2, SlotsIs
      <4>2. p[1] \in 1 .. N /\ p[2] \in 1 .. Len(files[p[1]].strpush)
        BY <1>1, <1>2, <4>1, SlotsIs
      <4> QED BY <4>1, <4>2
    <3>2. i \notin 1 .. k
      <4>1. CASE i \in 1 .. k
        <5>1. p \in Slots(y)
          BY <1>4, <3>1, <4>1, SlotsIs
        <5> QED BY <2>2, <5>1
      <4> QED BY <4>1
    <3>3. i \in k + 1 .. N
      BY <1>3, <3>1, <3>2
    <3>4. files[i].strpush[j].ap = a
      BY <2>2, <3>1 DEF ApAt
    <3>5. a \in ApsFrom(files[i].strpush, 0)
      BY <3>1, <3>4 DEF ApsFrom
    <3> QED BY <1>1, <1>a, <3>3, <3>5 DEF ApsAbove
  <2> QED BY <2>1, <2>2
<1>9. UsesGood(y, o.atab)
  <2>1. \A p \in Slots(files) : ApAt(files, p) \in AliasIds \cup {0}
    BY <1>2, SlotsIs
  <2>2. UsesGood(y, Cleared(table, S))
    BY <1>2, <1>7, <1>8, <2>1, FewerUses
  <2> QED BY <1>1, <1>a, <2>2
<1>10. Held(y, o)
  <2>1. k \in 1 .. MaxFiles
    <3>1. MaxFiles \in Nat
      BY InputConstants
    <3> QED BY <1>2, <1>3, <3>1
  <2>2. 1 \in 1 .. k /\ k \in 1 .. k /\ \A i \in 1 .. k - 1 : i \in 1 .. k
    BY <1>3
  <2>3. y[1].hasbuf /\ y[Len(y)] = o.file
    BY <1>2, <1>4, <1>a, <2>2
  <2>4. \A i \in 1 .. Len(y) - 1 : Saved(y[i])
    BY <1>2, <1>4, <1>5, <2>2
  <2> QED BY <1>4, <1>6, <1>9, <1>a, <2>1, <2>3, <2>4 DEF Held
<1>11. PICK d, e : d = Contents(files, s) /\ e = Contents(y, o)
  OBVIOUS
<1>12. /\ d \in Seq(Seq(FileChars)) /\ Len(d) = N
       /\ \A i \in 1 .. N - 1 : d[i] = PendL(files[i], files[i].nextc, files[i].nleft, files[i].lleft)
  BY <1>1, <1>11, ContentIs
<1>13. /\ e \in Seq(Seq(FileChars)) /\ Len(e) = k /\ e[k] = Left(o)
       /\ \A i \in 1 .. k - 1 : e[i] = PendL(y[i], y[i].nextc, y[i].nleft, y[i].lleft)
  <2>1. /\ e \in Seq(Seq(FileChars)) /\ Len(e) = Len(y) /\ e[Len(y)] = Left(o)
        /\ \A i \in 1 .. Len(y) - 1 : e[i] = PendL(y[i], y[i].nextc, y[i].nleft, y[i].lleft)
    BY <1>10, <1>11, ContentIs
  <2> QED BY ONLY <1>4, <2>1
<1>14. Left(o) = PendL(files[k], files[k].nextc, files[k].nleft, files[k].lleft)
  BY <1>a DEF Left
<1>15. \A i \in 1 .. k : e[i] = d[i]
  <2>1. \A i \in 1 .. k : i = k \/ i \in 1 .. k - 1
    BY <1>3
  <2>2. e[k] = d[k]
    BY <1>3, <1>12, <1>13, <1>14
  <2>3. ASSUME NEW i \in 1 .. k - 1 PROVE e[i] = d[i]
    <3>1. i \in 1 .. k /\ i \in 1 .. N - 1
      BY <1>3, <1>5
    <3>2. y[i] = files[i]
      BY <1>4, <3>1
    <3> QED BY ONLY <3>1, <3>2, <1>12, <1>13
  <2> QED BY <2>1, <2>2, <2>3
<1>16. e = SubSeq(d, 1, k)
  <2>1. /\ SubSeq(d, 1, k) \in Seq(Seq(FileChars)) /\ Len(SubSeq(d, 1, k)) = k
        /\ \A i \in 1 .. k : SubSeq(d, 1, k)[i] = d[i]
    BY <1>3, <1>12, FrontIs
  <2> QED BY <1>13, <1>15, <2>1, SeqEqual
<1> QED BY <1>4, <1>6, <1>10, <1>11, <1>16 DEF ClosedTo

New(h, p, n, table) ==
  [file |-> h, nextc |-> p, nleft |-> n, lleft |-> n, atab |-> table, check |-> TRUE, c |-> NoChar, block |-> 1]

LEMMA NewIs ==
  ASSUME NEW h \in PFiles, h.strpush = << >>, h.buf = << >>, NEW p \in Places, NEW n \in Nat,
         Reads(h, p, n), h.hasbuf = p.inbuf, p.inbuf => n = 0,
         NEW table \in [AliasIds -> Entries], NEW o, o = New(h, p, n, table)
  PROVE  /\ o \in Recs /\ Level(o) /\ o.atab = table /\ o.file = h /\ o.c = NoChar /\ o.nleft = n
         /\ Left(o) = Slice(h, p, n) \o h.unread \/ (~h.hasbuf /\ Left(o) = Slice(h, p, n) \o << >>)
<1>1. /\ n \in Int /\ n \in LLefts /\ 1 \in Nat \ {0} /\ NoChar \in Got /\ TRUE \in BOOLEAN
  BY DEF LLefts, Got
<1>2. /\ o \in Recs /\ o.atab = table /\ o.file = h /\ o.c = NoChar /\ o.nleft = n /\ o.nextc = p /\ o.lleft = n
  BY <1>1 DEF Recs, New
<1>3. PICK b : b = Base(h, p, n, n)
  OBVIOUS
<1>4. b = [place |-> p, nleft |-> n, lleft |-> n]
  BY <1>3 DEF Base
<1>5. b \in Bases /\ b.place = p /\ b.nleft = n /\ b.lleft = n
  BY <1>1, <1>4 DEF Bases
<1>6. BaseGood(h, b)
  <2>1. CASE h.hasbuf
    <3>1. n = 0 /\ b.place.inbuf
      BY <1>5, <2>1
    <3> QED BY <1>5, <2>1, <3>1 DEF BaseGood
  <2>2. CASE ~h.hasbuf
    <3>1. ~b.place.inbuf /\ b.nleft >= -2
      BY <1>5, <2>2
    <3> QED BY <1>5, <2>2, <3>1 DEF BaseGood
  <2> QED BY <2>1, <2>2
<1>7. Len(h.strpush) = 0 /\ Len(h.buf) = 0 /\ DOMAIN h.strpush = {}
  BY FileIs
<1>8. StackGood(h)
  BY <1>7 DEF StackGood
<1>9. Len(h.buf) <= Bufsiz
  <2>1. Bufsiz \in Nat
    BY InputConstants
  <2> QED BY <1>7, <2>1
<1>10. LevelGood(h, p, n, n)
  BY <1>1, <1>3, <1>6, <1>8, <1>9 DEF LevelGood
<1>11. Below(h, b)[0] = Lines(h, b)
  BY <1>5, <1>6, <1>8, BelowIs
<1>12. PendL(h, p, n, n) = Slice(h, p, n) \o Lines(h, b)
  BY <1>3, <1>7, <1>11 DEF PendL
<1>13. Lines(h, b) = h.unread \/ (~h.hasbuf /\ Lines(h, b) = << >>)
  <2>1. CASE h.hasbuf
    <3>1. b.lleft <= 0
      BY <1>5, <2>1
    <3> QED BY <1>5, <1>6, <2>1, <3>1, LinesIs
  <2>2. CASE ~h.hasbuf
    BY <1>5, <1>6, <2>2, LinesIs
  <2> QED BY <2>1, <2>2
<1>14. Level(o) /\ Left(o) = PendL(h, p, n, n)
  BY <1>2, <1>10 DEF Level, Left
<1> QED BY <1>2, <1>12, <1>13, <1>14

IsNew(o, h, table, t) ==
  /\ o \in Recs /\ Level(o) /\ o.atab = table /\ o.file = h /\ h.strpush = << >>
  /\ o.c = NoChar /\ o.nleft \in Nat /\ Left(o) = t

LEMMA TextOpened ==
  ASSUME NEW t \in Strings, NEW table \in [AliasIds -> Entries],
         NEW o, o = New(File(FALSE, << >>), InText(t), Len(t), table)
  PROVE  IsNew(o, File(FALSE, << >>), table, t)
<1>1. t \in Seq(Chars) /\ Len(t) \in Nat /\ DOMAIN t = 1 .. Len(t) /\ \A i \in 1 .. Len(t) : t[i] \in Chars
  <2>1. Strings \cup Values \subseteq Seq(Chars)
    BY InputConstants, Zenon
  <2>2. t \in Seq(Chars)
    BY <2>1
  <2> QED BY ONLY <2>2
<1>2. PICK h, p, n : h = File(FALSE, << >>) /\ p = InText(t) /\ n = Len(t)
  OBVIOUS
<1>3. InBuf(1) \in Places /\ 0 \in LLefts /\ 0 \in Int
  <2>1. << >> \in Seq(Chars)
    OBVIOUS
  <2> QED BY <2>1 DEF InBuf, Places, LLefts
<1>4. /\ h \in PFiles /\ h.strpush = << >> /\ h.buf = << >> /\ h.hasbuf = FALSE
  BY <1>2, <1>3 DEF File, PFiles
<1>5. p \in Places /\ p.inbuf = FALSE /\ p.at = 1 /\ p.text = t
  BY <1>1, <1>2 DEF InText, Places
<1>6. Text(h, p) = t
  BY <1>5 DEF Text
<1>n. n = Len(t) /\ n \in Nat
  BY <1>1, <1>2
<1>7. Reads(h, p, n)
  BY ONLY <1>1, <1>n, <1>5, <1>6 DEF Reads
<1>8. Slice(h, p, n) = t
  <2>1. Slice(h, p, n) = SubSeq(t, 1, n)
    BY ONLY <1>n, <1>5, <1>6 DEF Slice
  <2>2. SubSeq(t, 1, n) = t
    BY ONLY <1>1, <1>n
  <2> QED BY <2>1, <2>2
<1>9. t \in Seq(FileChars) /\ t \o << >> = t /\ h.unread = << >>
  <2>1. t \in Seq(FileChars)
    BY <1>1, CharsFact, SeqMonotonic
  <2> QED BY <1>2, <2>1, CatIs DEF File
<1>10. /\ o \in Recs /\ Level(o) /\ o.atab = table /\ o.file = h /\ o.c = NoChar /\ o.nleft = n
       /\ Left(o) = Slice(h, p, n) \o h.unread \/ (~h.hasbuf /\ Left(o) = Slice(h, p, n) \o << >>)
  <2>1. o = New(h, p, n, table) /\ n \in Nat /\ h.hasbuf = p.inbuf /\ (p.inbuf => n = 0)
    BY <1>1, <1>2, <1>4, <1>5
  <2> QED BY ONLY <1>4, <1>5, <1>7, <2>1, NewIs, table \in [AliasIds -> Entries]
<1>11. Left(o) = t
  BY <1>8, <1>9, <1>10
<1>12. o.nleft \in Nat
  BY ONLY <1>n, <1>10
<1> QED BY <1>2, <1>4, <1>10, <1>11, <1>12, Zenon DEF IsNew

LEMMA FileOpened ==
  ASSUME NEW t \in Files, NEW table \in [AliasIds -> Entries],
         NEW o, o = New(File(TRUE, t), InBuf(1), 0, table)
  PROVE  IsNew(o, File(TRUE, t), table, t)
<1>1. t \in Seq(FileChars)
  <2>1. t \in Seq(Chars \cup {"0"})
    BY InputConstants
  <2>2. \A i \in 1 .. Len(t) : t[i] \in FileChars
    BY <2>1 DEF FileChars, Range
  <2> QED BY <2>1, <2>2
<1>2. PICK h, p, n : h = File(TRUE, t) /\ p = InBuf(1) /\ n = 0
  OBVIOUS
<1>3. p \in Places /\ n \in LLefts /\ n \in Nat /\ p.inbuf = TRUE
  <2>1. << >> \in Seq(Chars)
    OBVIOUS
  <2> QED BY <1>2, <2>1 DEF InBuf, Places, LLefts
<1>4. /\ h \in PFiles /\ h.strpush = << >> /\ h.buf = << >> /\ h.hasbuf = TRUE /\ h.unread = t
  BY <1>1, <1>2, <1>3 DEF File, PFiles
<1>5. Reads(h, p, n)
  BY <1>2 DEF Reads
<1>6. Slice(h, p, n) = << >>
  <2>1. n \in Int /\ n <= 0
    BY <1>2
  <2> QED BY ONLY <1>3, <1>4, <1>5, <2>1, SliceIs
<1>7. << >> \o t = t
  BY <1>1, CatIs
<1>8. /\ o \in Recs /\ Level(o) /\ o.atab = table /\ o.file = h /\ o.c = NoChar /\ o.nleft = n
      /\ Left(o) = Slice(h, p, n) \o h.unread \/ (~h.hasbuf /\ Left(o) = Slice(h, p, n) \o << >>)
  <2>1. o = New(h, p, n, table) /\ h.hasbuf = p.inbuf /\ (p.inbuf => n = 0)
    BY <1>2, <1>3, <1>4
  <2> QED BY ONLY <1>3, <1>4, <1>5, <2>1, NewIs, table \in [AliasIds -> Entries]
<1>9. o.nleft \in Nat /\ Left(o) = t
  BY <1>3, <1>4, <1>6, <1>7, <1>8
<1> QED BY <1>2, <1>4, <1>8, <1>9, Zenon DEF IsNew

LEMMA PushedFile ==
  ASSUME IInv, NEW h \in PFiles, NEW p, NEW n, parsefile' = Append(pushfile, h),
         parsenextc' = p, parsenleft' = n, parselleft' = n, checkkwd' = TRUE, c' = NoChar, UNCHANGED atab,
         NEW s, s = St(1), NEW g, g = Save(s.file, s.nextc, s.nleft, s.lleft)
  PROVE  St(1)' = New(h, p, n, s.atab) /\ parsefile' = Append(Current(parsefile, g), h)
<1>1. PICK N, f : N = Len(parsefile) /\ f = s.file
  OBVIOUS
<1>2. /\ Held(parsefile, s) /\ s.nextc = parsenextc /\ s.nleft = parsenleft /\ s.lleft = parselleft
      /\ s.atab = atab /\ f = parsefile[N]
  BY <1>1, StIs DEF IInv
<1>3. pushfile = Append(Front(parsefile), Save(f, parsenextc, parsenleft, parselleft))
  BY <1>1, <1>2 DEF pushfile, Save, Last
<1>4. pushfile = Current(parsefile, g)
  BY <1>1, <1>2, <1>3 DEF Current
<1>5. g \in PFiles
  <2>0. PICK q, m, l : q = s.nextc /\ m = s.nleft /\ l = s.lleft
    OBVIOUS
  <2>1. LevelGood(f, q, m, l) /\ g = Save(f, q, m, l)
    BY <1>1, <1>2, <2>0 DEF Held, Level
  <2> QED BY ONLY <2>1, SavedIs
<1>6. parsefile \in Seq(PFiles) /\ parsefile # << >>
  BY <1>2 DEF Held
<1>7. pushfile \in Seq(PFiles)
  BY <1>4, <1>5, <1>6, CurrentIs
<1>8. PICK y : y = Append(pushfile, h)
  OBVIOUS
<1>9. y[Len(y)] = h
  BY <1>7, <1>8, AppendProperties
<1>10. St(1)' = [file |-> y[Len(y)], nextc |-> p, nleft |-> n, lleft |-> n, atab |-> atab, check |-> TRUE,
                 c |-> NoChar, block |-> 1]
  BY <1>8 DEF St, Last
<1> QED BY <1>2, <1>4, <1>9, <1>10 DEF New

Opens(t) == c' = NoChar /\ Contents(parsefile, St(1))' = Append(Contents(parsefile, St(1)), t)

LEMMA OpensKeeps ==
  ASSUME IInv, mode = "run", Counted, To("token"), Len(parsefile) < MaxFiles,
         NEW s, s = St(1), NEW g, g = Save(s.file, s.nextc, s.nleft, s.lleft),
         NEW o \in Recs, o = St(1)', Level(o), o.file.strpush = << >>, o.atab = s.atab, o.nleft # -2,
         o.nleft # -1, o.c = NoChar,
         parsefile' = Append(Current(parsefile, g), o.file)
  PROVE  IInv' /\ Opens(Left(o))
<1>1. Held(parsefile, s) /\ ModeGood(s, mode, Len(parsefile))
  BY DEF IInv
<1>2. s.nleft # -2
  BY <1>1 DEF ModeGood
<1>3. PICK y : y = parsefile'
  OBVIOUS
<1>4. Held(y, o) /\ Contents(y, o) = Append(Contents(parsefile, s), Left(o))
  <2>1. y = Append(Current(parsefile, Save(s.file, s.nextc, s.nleft, s.lleft)), o.file)
    BY <1>3
  <2>2. Opening(parsefile, s, o, y)
    BY <1>2, <2>1 DEF Opening
  <2>3. Opened(parsefile, s, o, y)
    BY <1>1, <2>2, OpenHeld, Zenon
  <2> QED BY <2>3 DEF Opened
<1>5. c' = NoChar
  BY DEF St
<1>6. mode' = "token" /\ word' \in Letters \cup {NoChar} /\ mode' \in Modes
  BY DEF To, Modes
<1>7. ModeGood(o, mode', Len(y))
  BY <1>6 DEF ModeGood
<1>8. commands' \in 0 .. MaxCommands
  BY CountIs DEF IInv
<1>9. IInv'
  BY <1>3, <1>4, <1>6, <1>7, <1>8 DEF IInv
<1>10. Contents(parsefile, St(1))' = Append(Contents(parsefile, St(1)), Left(o))
  BY <1>3, <1>4
<1> QED BY <1>5, <1>9, <1>10 DEF Opens

LEMMA EvalMakes ==
  ASSUME IInv, evalstring
  PROVE  IInv' /\ \E t \in Strings : Opens(t)
<1>1. PICK s, g, o : s = St(1) /\ g = Save(s.file, s.nextc, s.nleft, s.lleft) /\ o = St(1)'
  OBVIOUS
<1>2. PICK t \in Strings : /\ parsefile' = Append(pushfile, File(FALSE, << >>))
                           /\ parsenextc' = InText(t) /\ parsenleft' = Len(t) /\ parselleft' = Len(t)
  BY DEF evalstring
<1>3. PICK h, p, n : h = File(FALSE, << >>) /\ p = InText(t) /\ n = Len(t)
  OBVIOUS
<1>4. /\ mode = "run" /\ Counted /\ Len(parsefile) < MaxFiles /\ To("token")
      /\ checkkwd' = TRUE /\ c' = NoChar /\ UNCHANGED atab
  BY DEF evalstring
<1>5. Held(parsefile, s) /\ s.atab \in [AliasIds -> Entries]
  BY <1>1, RecIs DEF IInv, Held
<1>6. PICK table : table = s.atab
  OBVIOUS
<1>6t. table \in [AliasIds -> Entries]
  BY <1>5, <1>6
<1>7. PICK e : e = New(File(FALSE, << >>), InText(t), Len(t), table)
  OBVIOUS
<1>8. /\ e \in Recs /\ Level(e) /\ e.atab = table /\ e.file = File(FALSE, << >>) /\ e.file.strpush = << >>
      /\ e.c = NoChar /\ e.nleft \in Nat /\ Left(e) = t
  <2>1. IsNew(e, File(FALSE, << >>), table, t)
    BY <1>6t, <1>7, TextOpened, Zenon
  <2> QED BY <2>1 DEF IsNew
<1>9. h \in PFiles
  BY <1>3, <1>8, RecIs
<1>10. o = New(h, p, n, s.atab) /\ parsefile' = Append(Current(parsefile, g), h)
  BY <1>1, <1>2, <1>3, <1>4, <1>9, PushedFile
<1>11. o = e
  BY <1>3, <1>6, <1>7, <1>10
<1>12. o.nleft # -1 /\ o.nleft # -2
  BY ONLY <1>8, <1>11
<1>13. IInv' /\ Opens(Left(o))
  BY <1>1, <1>3, <1>4, <1>6, <1>8, <1>10, <1>11, <1>12, OpensKeeps
<1> QED BY <1>8, <1>11, <1>13

LEMMA DotMakes ==
  ASSUME IInv, dotcmd
  PROVE  IInv' /\ \E t \in Files : Opens(t)
<1>1. PICK s, g, o : s = St(1) /\ g = Save(s.file, s.nextc, s.nleft, s.lleft) /\ o = St(1)'
  OBVIOUS
<1>2. PICK t \in Files : parsefile' = Append(pushfile, File(TRUE, t))
  BY DEF dotcmd
<1>3. PICK h, p, n : h = File(TRUE, t) /\ p = InBuf(1) /\ n = 0
  OBVIOUS
<1>4. /\ mode = "run" /\ Counted /\ Len(parsefile) < MaxFiles /\ To("token")
      /\ parsenextc' = p /\ parsenleft' = n /\ parselleft' = n
      /\ checkkwd' = TRUE /\ c' = NoChar /\ UNCHANGED atab
  BY <1>3 DEF dotcmd
<1>5. Held(parsefile, s) /\ s.atab \in [AliasIds -> Entries]
  BY <1>1, RecIs DEF IInv, Held
<1>6. PICK table : table = s.atab
  OBVIOUS
<1>6t. table \in [AliasIds -> Entries]
  BY <1>5, <1>6
<1>7. PICK e : e = New(File(TRUE, t), InBuf(1), 0, table)
  OBVIOUS
<1>8. /\ e \in Recs /\ Level(e) /\ e.atab = table /\ e.file = File(TRUE, t) /\ e.file.strpush = << >>
      /\ e.c = NoChar /\ e.nleft \in Nat /\ Left(e) = t
  <2>1. IsNew(e, File(TRUE, t), table, t)
    BY <1>6t, <1>7, FileOpened, Zenon
  <2> QED BY <2>1 DEF IsNew
<1>9. h \in PFiles
  BY <1>3, <1>8, RecIs
<1>10. o = New(h, p, n, s.atab) /\ parsefile' = Append(Current(parsefile, g), h)
  BY <1>1, <1>2, <1>3, <1>4, <1>9, PushedFile
<1>11. o = e
  BY <1>3, <1>6, <1>7, <1>10
<1>12. o.nleft # -1 /\ o.nleft # -2
  BY ONLY <1>8, <1>11
<1>13. IInv' /\ Opens(Left(o))
  BY <1>1, <1>3, <1>4, <1>6, <1>8, <1>10, <1>11, <1>12, OpensKeeps
<1> QED BY <1>8, <1>11, <1>13

Closes(k) == c' = NoChar /\ Contents(parsefile, St(1))' = SubSeq(Contents(parsefile, St(1)), 1, k)

LEMMA PopToKeeps ==
  ASSUME IInv, NEW k \in 1 .. Len(parsefile) - 1, NEW S, \A a \in AliasIds : a \in S <=> a \in ApsAbove(parsefile, k),
         NEW b \in BOOLEAN, PopTo(k, Cleared(atab, S), b), mode' \in {"run", "token"}, word' = NoChar,
         commands' \in 0 .. MaxCommands
  PROVE  IInv' /\ Closes(k)
<1>1. PICK s, o, y, N, g : s = St(1) /\ o = St(1)' /\ y = parsefile' /\ N = Len(parsefile) /\ g = parsefile[k]
  OBVIOUS
<1>2. Held(parsefile, s) /\ s.atab = atab
  BY <1>1, StIs DEF IInv
<1>3. /\ parsefile \in Seq(PFiles) /\ N \in Nat /\ atab \in [AliasIds -> Entries] /\ Saved(parsefile[k])
  <2>1. k \in 1 .. N - 1
    BY <1>1
  <2> QED BY <1>1, <1>2, <2>1, RecIs DEF Held
<1>4. y = SubSeq(parsefile, 1, k) /\ c' = NoChar
  BY <1>1 DEF PopTo
<1>5. k \in 0 .. N /\ k \in 1 .. k
  BY <1>1, <1>3
<1>6. y \in Seq(PFiles) /\ Len(y) = k /\ y[Len(y)] = g
  BY <1>1, <1>3, <1>4, <1>5, FrontIs
<1>7. PICK table : table = Cleared(atab, S)
  OBVIOUS
<1>8. table \in [AliasIds -> Entries]
  BY <1>3, <1>7, ClearedIs
<1>9. o = [file |-> y[Len(y)], nextc |-> g.nextc, nleft |-> g.nleft, lleft |-> g.lleft, atab |-> table,
           check |-> b, c |-> NoChar, block |-> 1]
  BY <1>1, <1>7 DEF PopTo, St, Last
<1>10. o = [file |-> g, nextc |-> g.nextc, nleft |-> g.nleft, lleft |-> g.lleft, atab |-> table,
           check |-> b, c |-> NoChar, block |-> 1]
  BY <1>6, <1>9
<1>11. g \in PFiles /\ g.nextc \in Places /\ g.nleft \in Int /\ g.lleft \in LLefts
  BY <1>1, <1>3 DEF Saved, LevelGood
<1>12. o \in Recs /\ o.file = g /\ o.nextc = g.nextc /\ o.nleft = g.nleft /\ o.lleft = g.lleft /\ o.atab = table
  <2>1. 1 \in Nat \ {0} /\ NoChar \in Got
    BY DEF Got
  <2>2. b \in BOOLEAN
    OBVIOUS
  <2> QED BY ONLY <1>8, <1>10, <1>11, <2>1, <2>2 DEF Recs
<1>13. Closing(parsefile, s, k, S, o, y)
  BY <1>1, <1>2, <1>4, <1>7, <1>12 DEF Closing
<1>14. ClosedTo(parsefile, s, k, o, y)
  BY <1>2, <1>13, CloseHeld
<1>15. Held(y, o) /\ Contents(y, o) = SubSeq(Contents(parsefile, s), 1, k) /\ o.nleft # -2
  BY <1>14 DEF ClosedTo
<1>16. ModeGood(o, mode', Len(y)) /\ mode' \in Modes
  BY <1>15 DEF ModeGood, Modes
<1>17. IInv'
  BY <1>1, <1>15, <1>16 DEF IInv
<1>18. Contents(parsefile, St(1))' = SubSeq(Contents(parsefile, St(1)), 1, k)
  BY <1>1, <1>15
<1> QED BY <1>4, <1>17, <1>18 DEF Closes

LEMMA AllPopped ==
  ASSUME NEW s \in Recs, Level(s), NEW r, r = popstring(s, Len(s.file.strpush))
  PROVE  r.atab = Cleared(s.atab, ApsFrom(s.file.strpush, 0)) /\ r.check \in BOOLEAN
<1>1. PICK n : n = Len(s.file.strpush)
  OBVIOUS
<1>2. n \in Nat /\ (s.file.strpush # << >> <=> n >= 1)
  BY <1>1, RecIs, FileIs
<1>3. CASE n = 0
  <2>1. r = s
    BY <1>1, <1>3 DEF popstring
  <2>2. ApsFrom(s.file.strpush, 0) = {}
    BY <1>1, <1>3 DEF ApsFrom
  <2>3. PICK table : table = s.atab
    OBVIOUS
  <2>4. table \in [AliasIds -> Entries]
    BY <2>3, RecIs
  <2>5. Cleared(table, {}) = table
    BY <2>4 DEF Cleared
  <2> QED BY <2>1, <2>2, <2>3, <2>5, RecIs
<1>4. CASE n # 0
  <2>1. PICK b, sp : b = Base(s.file, s.nextc, s.nleft, s.lleft) /\ sp = s.file.strpush[n - n + 1]
    OBVIOUS
  <2>2. BaseGood(s.file, b) /\ StackGood(s.file) /\ Len(s.file.buf) <= Bufsiz
    BY <2>1 DEF Level, LevelGood
  <2>3. n \in 1 .. n /\ r = popstring(s, n) /\ s.file.strpush # << >>
    BY <1>1, <1>2, <1>4
  <2>4. PoppedIs(s, b, n, r)
    BY <1>1, <2>1, <2>2, <2>3, PopIs
  <2>5. n - n = 0
    BY <1>2
  <2>6. r.atab = Cleared(s.atab, ApsFrom(s.file.strpush, n - n)) /\ r \in Recs
    BY <1>1, <2>4 DEF PoppedIs
  <2> QED BY <2>5, <2>6, RecIs
<1> QED BY <1>2, <1>3, <1>4

LEMMA PopMakes ==
  ASSUME IInv, popfile
  PROVE  IInv' /\ Len(parsefile) > 1 /\ Closes(Len(parsefile) - 1)
<1>1. PICK s, r, N, k, f : s = St(1) /\ r = popstring(s, Len(s.file.strpush)) /\ N = Len(parsefile) /\ k = N - 1
                        /\ f = parsefile[N]
  OBVIOUS
<1>2. Held(parsefile, s) /\ s.atab = atab /\ s.file = f /\ s \in Recs /\ Level(s) /\ N \in Nat
  BY <1>1, StIs DEF IInv, Held
<1>3. Last(parsefile) = f
  BY <1>1 DEF Last
<1>4. N > 1 /\ PopTo(k, r.atab, r.check) /\ To("run") /\ UNCHANGED commands
  BY <1>1, <1>2, <1>3 DEF popfile
<1>5. r.atab = Cleared(atab, ApsFrom(f.strpush, 0)) /\ r.check \in BOOLEAN
  BY <1>1, <1>2, AllPopped
<1>6. PICK S, b : S = ApsFrom(f.strpush, 0) /\ b = r.check
  OBVIOUS
<1>7. \A a \in AliasIds : a \in S <=> a \in ApsAbove(parsefile, k)
  <2>1. k + 1 .. N = {N}
    BY <1>1, <1>2
  <2>2. ApsAbove(parsefile, k) = UNION {S}
    BY <1>1, <1>6, <2>1 DEF ApsAbove
  <2> QED BY <2>2
<1>8. k \in 1 .. Len(parsefile) - 1 /\ b \in BOOLEAN /\ PopTo(k, Cleared(atab, S), b)
  BY <1>1, <1>2, <1>4, <1>5, <1>6
<1>9. mode' \in {"run", "token"} /\ word' = NoChar /\ commands' \in 0 .. MaxCommands
  BY <1>4 DEF To, IInv
<1>10. IInv' /\ Closes(k)
  BY <1>7, <1>8, <1>9, PopToKeeps
<1> QED BY <1>1, <1>4, <1>10

(* After an error.                                                         *)
Resets == c' = NoChar /\ \E pre, x \in Seq(FileChars) :
             Contents(parsefile, St(1))[1] = pre \o x /\ Contents(parsefile, St(1))' = <<x>>

ResetTo(s) == [NewCommand(s) EXCEPT !.nleft = 0, !.lleft = 0]

LEMMA ResetIs ==
  ASSUME NEW s \in Recs, Level(s), s.file.hasbuf, NEW r, r = ResetTo(s)
  PROVE  /\ r \in Recs /\ Level(r) /\ r.file = s.file /\ r.nleft = 0 /\ r.c = NoChar /\ r.atab = s.atab
         /\ \E pre \in Seq(FileChars) : Left(s) = pre \o Left(r)
<1>1. PICK f, p, n, l : f = s.file /\ p = s.nextc /\ n = s.nleft /\ l = s.lleft
  OBVIOUS
<1>2. 0 \in Int /\ 0 \in LLefts /\ NoChar \in Got /\ TRUE \in BOOLEAN
  BY DEF Got, LLefts
<1>3. /\ r \in Recs /\ r.file = f /\ r.nextc = p /\ r.nleft = 0 /\ r.lleft = 0 /\ r.c = NoChar
      /\ r.atab = s.atab
  BY <1>1, <1>2 DEF Recs, ResetTo, NewCommand
<1>4. LevelGood(f, p, n, l) /\ f \in PFiles /\ p \in Places /\ n \in Int /\ l \in LLefts
  BY <1>1, RecIs DEF Level
<1>5. PICK b, d : b = Base(f, p, n, l) /\ d = Base(f, p, 0, 0)
  OBVIOUS
<1>6. /\ b \in Bases /\ d \in Bases /\ BaseGood(f, b) /\ StackGood(f) /\ Len(f.buf) <= Bufsiz /\ f.hasbuf
      /\ Reads(f, p, n)
  BY <1>1, <1>2, <1>4, <1>5, BaseIs DEF LevelGood
<1>7. CASE f.strpush # << >>
  <2>1. d = b
    BY <1>5, <1>7 DEF Base
  <2>2. Reads(f, p, 0)
    BY DEF Reads
  <2>3. LevelGood(f, p, 0, 0)
    BY <1>2, <1>4, <1>5, <1>6, <2>1, <2>2 DEF LevelGood
  <2>4. PICK N, x : N = Len(f.strpush) /\ x = Below(f, b)[N]
    OBVIOUS
  <2>5. PendL(f, p, n, l) = Slice(f, p, n) \o x /\ x \in Seq(FileChars)
    BY <1>4, <1>5, <2>4, PendIs DEF PendL
  <2>6. PendL(f, p, 0, 0) = x
    BY <1>5, <2>1, <2>3, <2>4, PendIs
  <2>7. Slice(f, p, n) \in Seq(FileChars)
    BY <1>4, <1>6, SliceIs
  <2>8. Level(r) /\ Left(r) = x /\ Left(s) = Slice(f, p, n) \o x
    BY <1>1, <1>3, <2>3, <2>5, <2>6 DEF Level, Left
  <2> QED BY <1>1, <1>3, <2>7, <2>8
<1>8. CASE f.strpush = << >>
  <2>1. d = [place |-> p, nleft |-> 0, lleft |-> 0] /\ b = [place |-> p, nleft |-> n, lleft |-> l]
    BY <1>5, <1>8 DEF Base
  <2>2. d.place = p /\ d.nleft = 0 /\ d.lleft = 0 /\ b.place = p /\ b.nleft = n /\ b.lleft = l
    BY <2>1
  <2>3. p.inbuf
    BY <1>6, <2>2 DEF BaseGood
  <2>4. BaseGood(f, d) /\ Reads(f, p, 0)
    BY <1>6, <2>2, <2>3 DEF BaseGood, Reads
  <2>5. LevelGood(f, p, 0, 0)
    BY <1>2, <1>4, <1>5, <1>6, <1>8, <2>4 DEF LevelGood
  <2>6. Len(f.strpush) = 0
    BY <1>8
  <2>7. Below(f, b)[0] = Lines(f, b) /\ Below(f, d)[0] = Lines(f, d)
    BY <1>4, <1>6, <2>4, BelowIs
  <2>8. Lines(f, d) = f.unread
    <3>1. d.lleft <= 0
      BY <2>2
    <3> QED BY <1>4, <1>6, <2>4, <3>1, LinesIs
  <2>9. PICK y, x, z : y = Slice(f, LinesAt(b), b.lleft) /\ x = f.unread /\ z = Slice(f, p, n)
    OBVIOUS
  <2>10. Lines(f, b) = y \o x /\ y \in Seq(FileChars) /\ x \in Seq(FileChars) /\ z \in Seq(FileChars)
    BY <1>4, <1>6, <2>9, LinesIs, SliceIs, FileIs
  <2>11. PendL(f, p, n, l) = z \o (y \o x)
    BY <1>5, <2>6, <2>7, <2>9, <2>10 DEF PendL
  <2>12. PendL(f, p, 0, 0) = x
    BY <1>5, <2>5, <2>6, <2>7, <2>8, <2>9, PendIs
  <2>13. z \o (y \o x) = (z \o y) \o x /\ z \o y \in Seq(FileChars)
    <3>1. PICK S : S = Seq(FileChars)
      OBVIOUS
    <3>2. \A u, v, w \in S : (u \o v) \o w = u \o (v \o w)
      BY ONLY CatAssoc, <3>1
    <3>3. \A u, v \in S : u \o v \in S
      BY ONLY CatIs, <3>1, Zenon
    <3>4. x \in S /\ y \in S /\ z \in S
      BY ONLY <2>10, <3>1
    <3>5. (z \o y) \o x = z \o (y \o x) /\ z \o y \in S
      BY ONLY <3>2, <3>3, <3>4
    <3> QED BY ONLY <3>1, <3>5
  <2>14. Level(r) /\ Left(r) = x /\ Left(s) = (z \o y) \o x
    BY <1>1, <1>3, <2>5, <2>11, <2>12, <2>13 DEF Level, Left
  <2> QED BY <1>1, <1>3, <2>13, <2>14
<1> QED BY <1>7, <1>8

LEMMA ResetMakes ==
  ASSUME IInv, Reset, mode \notin {"eof", "done"}, commands' \in 0 .. MaxCommands
  PROVE  IInv' /\ Resets
<1>1. PICK s, N : s = St(1) /\ N = Len(parsefile)
  OBVIOUS
<1>2. /\ Held(parsefile, s) /\ s.atab = atab /\ s \in Recs /\ Level(s) /\ N \in Nat /\ N >= 1
      /\ parsefile \in Seq(PFiles) /\ parsefile[1].hasbuf /\ s.file = parsefile[N] /\ UsesGood(parsefile, s.atab)
      /\ parsefile # << >>
  BY <1>1, StIs DEF IInv, Held
<1>3. mode' = "token" /\ word' = NoChar
  BY DEF Reset, To
<1>4. PICK d : d = Contents(parsefile, s)
  OBVIOUS
<1>5. d \in Seq(Seq(FileChars)) /\ Len(d) = N /\ d[N] = Left(s)
  BY <1>1, <1>2, <1>4, ContentIs
<1>6. CASE N = 1
  <2>1. PICK r : r = ResetTo(s)
    OBVIOUS
  <2>2. CurrentBecomes(r)
    BY <1>1, <1>6, <2>1 DEF Reset, ResetTo
  <2>3. s.file.hasbuf
    BY <1>2, <1>6
  <2>4. /\ r \in Recs /\ Level(r) /\ r.file = s.file /\ r.nleft = 0 /\ r.c = NoChar /\ r.atab = s.atab
        /\ \E pre \in Seq(FileChars) : Left(s) = pre \o Left(r)
    BY <1>2, <2>1, <2>3, ResetIs
  <2>5. Held(parsefile, r)
    BY <1>2, <2>4 DEF Held
  <2>6. Current(parsefile, r.file) = parsefile
    <3>1. r.file \in PFiles
      BY <2>4, RecIs
    <3> QED BY <1>1, <1>2, <2>4, <3>1, CurrentIs
  <2>7. ModeGood(r, mode', Len(parsefile)) /\ mode' \in Modes
    BY <1>3, <2>4 DEF ModeGood, Modes
  <2>8. Held(Current(parsefile, r.file), r)
    BY <2>5, <2>6
  <2>9. IInv'
    BY <1>3, <2>2, <2>7, <2>8, Kept1
  <2>10. PICK o : o = St(1)'
    OBVIOUS
  <2>11. Left(o) = Left(r) /\ o.c = r.c /\ Len(parsefile') = 1
    BY <1>1, <1>6, <2>2, <2>8, <2>10, BecomesIs
  <2>12. c' = NoChar
    BY <2>4, <2>10, <2>11 DEF St
  <2>13. PICK e : e = Contents(parsefile, St(1))'
    OBVIOUS
  <2>14. e = <<Left(r)>>
    <3>1. e = Contents(parsefile', o)
      BY <2>10, <2>13
    <3>2. e = [i \in 1 .. 1 |-> Left(o)]
      BY <2>11, <3>1 DEF Contents
    <3> QED BY <2>11, <3>2
  <2>15. Left(r) \in Seq(FileChars)
    BY <2>4, PendIs DEF Left, Level
  <2>16. PICK pre \in Seq(FileChars) : d[1] = pre \o Left(r)
    BY <1>5, <1>6, <2>4
  <2> QED BY <1>1, <1>4, <2>9, <2>12, <2>13, <2>14, <2>15, <2>16 DEF Resets
<1>7. CASE N # 1
  <2>1. PICK S : S = {sp.ap : sp \in UNION {Range(parsefile[i].strpush) : i \in 2 .. Len(parsefile)}}
    OBVIOUS
  <2>2. PopTo(1, Cleared(atab, S), TRUE)
    BY <1>1, <1>7, <2>1 DEF Reset, Cleared
  <2>3. \A a \in AliasIds : a \in S <=> a \in ApsAbove(parsefile, 1)
    <3>1. ASSUME NEW i \in 2 .. N
          PROVE  Range(parsefile[i].strpush) = {parsefile[i].strpush[j] : j \in 1 .. Len(parsefile[i].strpush)}
      <4>1. parsefile[i] \in PFiles
        BY <1>1, <1>2
      <4>2. DOMAIN parsefile[i].strpush = 1 .. Len(parsefile[i].strpush)
        BY <4>1, FileIs
      <4> QED BY <4>2 DEF Range
    <3>2. ASSUME NEW a \in S PROVE a \in ApsAbove(parsefile, 1)
      <4>1. PICK i \in 2 .. N : \E sp \in Range(parsefile[i].strpush) : sp.ap = a
        BY <1>1, <2>1
      <4>0. PICK w : w = parsefile[i].strpush
        OBVIOUS
      <4>b. Range(w) = {w[j] : j \in 1 .. Len(w)} /\ \E sp \in Range(w) : sp.ap = a
        BY <3>1, <4>0, <4>1
      <4>c. \E i1 \in 1 .. Len(w) : w[i1].ap = a
        BY ONLY <4>b
      <4>2. PICK j \in 1 .. Len(parsefile[i].strpush) : parsefile[i].strpush[j].ap = a
        BY ONLY <4>0, <4>c
      <4>3. a \in ApsFrom(parsefile[i].strpush, 0)
        BY <4>2 DEF ApsFrom
      <4> QED BY <1>1, <4>3 DEF ApsAbove
    <3>3. ASSUME NEW a \in ApsAbove(parsefile, 1) PROVE a \in S
      <4>1. PICK i \in 2 .. N : a \in ApsFrom(parsefile[i].strpush, 0)
        BY <1>1 DEF ApsAbove
      <4>2. PICK j \in 1 .. Len(parsefile[i].strpush) : parsefile[i].strpush[j].ap = a
        BY <4>1 DEF ApsFrom
      <4>3. parsefile[i].strpush[j] \in Range(parsefile[i].strpush)
        BY <3>1
      <4> QED BY <1>1, <2>1, <4>2, <4>3
    <3> QED BY <3>2, <3>3
  <2>4. 1 \in 1 .. Len(parsefile) - 1 /\ TRUE \in BOOLEAN /\ mode' \in {"run", "token"}
    BY <1>1, <1>2, <1>3, <1>7
  <2>5. IInv' /\ Closes(1)
    <3>1. PICK k, b : k = 1 /\ b = TRUE
      OBVIOUS
    <3>2. /\ k \in 1 .. Len(parsefile) - 1 /\ b \in BOOLEAN /\ PopTo(k, Cleared(atab, S), b)
          /\ \A a \in AliasIds : a \in S <=> a \in ApsAbove(parsefile, k)
      BY <2>2, <2>3, <2>4, <3>1
    <3>3. IInv' /\ Closes(k)
      BY <1>3, <2>4, <3>2, PopToKeeps
    <3> QED BY <3>1, <3>3
  <2>6. PICK e, x : e = Contents(parsefile, St(1))' /\ x = d[1]
    OBVIOUS
  <2>7. c' = NoChar /\ e = SubSeq(d, 1, 1)
    BY <1>1, <1>4, <2>5, <2>6 DEF Closes
  <2>8. x \in Seq(FileChars) /\ SubSeq(d, 1, 1) = <<x>>
    <3>1. 1 \in 1 .. N /\ 1 \in 0 .. N /\ 1 \in 1 .. 1
      BY <1>2
    <3>2. x \in Seq(FileChars)
      BY <1>5, <2>6, <3>1
    <3>3. PICK w : w = SubSeq(d, 1, 1)
      OBVIOUS
    <3>4. w \in Seq(Seq(FileChars)) /\ Len(w) = 1 /\ w[1] = d[1]
      BY <1>5, <3>1, <3>3, FrontIs
    <3>5. w = <<x>>
      BY ONLY <2>6, <3>4
    <3> QED BY <3>2, <3>3, <3>5
  <2>9. << >> \in Seq(FileChars) /\ << >> \o x = x
    BY <2>8, CatIs
  <2>10. PICK pre : pre = << >>
    OBVIOUS
  <2>11. d[1] = pre \o x /\ pre \in Seq(FileChars) /\ e = <<x>>
    BY <2>6, <2>7, <2>8, <2>9, <2>10
  <2> QED BY <1>1, <1>4, <2>5, <2>6, <2>7, <2>8, <2>11 DEF Resets
<1> QED BY <1>6, <1>7

------------------------------------------------------------------------------
(* The invariant is one.                                                   *)
LEMMA Begins ==
  ASSUME Init
  PROVE  IInv /\ c = NoChar /\ \E t \in Files : Contents(parsefile, St(1)) = <<t>>
<1>1. PICK t \in Files : parsefile = <<File(TRUE, t)>>
  BY DEF Init
<1>2. PICK s, table, y : s = St(1) /\ table = atab /\ y = parsefile
  OBVIOUS
<1>3. table = [a \in AliasIds |-> NoAlias]
  BY <1>2 DEF Init
<1>4. NoAlias \in Entries /\ NoAlias.inuse = FALSE
  BY DEF NoAlias, Entries
<1>5. table \in [AliasIds -> Entries]
  BY <1>3, <1>4
<1>6. s = New(File(TRUE, t), InBuf(1), 0, table)
  BY <1>1, <1>2 DEF Init, St, Last, New
<1>7. IsNew(s, File(TRUE, t), table, t)
  BY <1>5, <1>6, FileOpened, Zenon
<1>8. /\ s \in Recs /\ Level(s) /\ s.atab = table /\ s.file = File(TRUE, t) /\ s.file.strpush = << >>
      /\ s.c = NoChar /\ s.nleft = 0 /\ Left(s) = t
  <2>1. s.nleft = 0
    BY <1>6 DEF New
  <2> QED BY <1>7, <2>1 DEF IsNew
<1>9. y \in Seq(PFiles) /\ Len(y) = 1 /\ y[1] = s.file /\ y[1].hasbuf /\ y[1].strpush = << >>
  <2>1. s.file \in PFiles
    BY <1>8, RecIs
  <2>2. y = <<s.file>>
    BY <1>1, <1>2, <1>8
  <2>3. s.file.hasbuf
    BY <1>8 DEF File
  <2>4. PICK h : h = s.file
    OBVIOUS
  <2>5. h \in PFiles /\ h.hasbuf /\ h.strpush = << >> /\ y = <<h>>
    BY <1>8, <2>1, <2>2, <2>3, <2>4
  <2>6. y \in Seq(PFiles) /\ Len(y) = 1 /\ y[1] = h
    BY ONLY <2>5
  <2> QED BY <2>4, <2>5, <2>6
<1>10. UsesGood(y, table)
  <2>1. \A p : p \notin Slots(y)
    <3>1. ASSUME NEW p \in Slots(y) PROVE FALSE
      <4>1. p = <<p[1], p[2]>>
        BY <1>9, SlotsIs
      <4>2. p[1] \in 1 .. 1 /\ p[2] \in 1 .. Len(y[p[1]].strpush)
        BY <1>9, <4>1, SlotsIs
      <4>3. Len(y[p[1]].strpush) = 0
        BY <1>9, <4>2
      <4> QED BY <4>2, <4>3
    <3> QED BY <3>1
  <2>2. \A a \in AliasIds : ~table[a].inuse
    BY <1>3, <1>4
  <2> QED BY <2>1, <2>2 DEF UsesGood
<1>11. Held(y, s)
  <2>1. MaxFiles \in Nat \ {0}
    BY InputConstants
  <2>2. 1 \in 1 .. MaxFiles
    BY <2>1
  <2> QED BY <1>8, <1>9, <1>10, <2>2 DEF Held
<1>12. mode = "token" /\ word \in Letters \cup {NoChar} /\ commands \in 0 .. MaxCommands /\ c = NoChar
  <2>1. MaxCommands \in Nat
    BY InputConstants
  <2> QED BY <2>1 DEF Init
<1>13. ModeGood(s, mode, Len(y)) /\ mode \in Modes
  BY <1>8, <1>12 DEF ModeGood, Modes
<1>14. IInv
  BY <1>2, <1>11, <1>12, <1>13 DEF IInv
<1>15. Contents(y, s) = <<t>>
  <2>1. Contents(y, s) = [i \in 1 .. 1 |-> Left(s)]
    BY <1>9 DEF Contents
  <2> QED BY <1>8, <2>1
<1> QED BY <1>2, <1>12, <1>14, <1>15

LEMMA Same1 ==
  ASSUME UNCHANGED <<parsefile, parsenextc, parsenleft, parselleft, atab, checkkwd, c>>
  PROVE  St(1)' = St(1) /\ Contents(parsefile, St(1))' = Contents(parsefile, St(1))
<1>1. St(1)' = St(1)
  BY DEF St, Last
<1>2. PICK s, o : s = St(1) /\ o = St(1)'
  OBVIOUS
<1>3. Contents(parsefile', o) = Contents(parsefile, s)
  BY <1>1, <1>2
<1> QED BY <1>1, <1>2, <1>3

LEMMA EofKeeps ==
  ASSUME IInv, Eof
  PROVE  IInv' /\ c' = c /\ Contents(parsefile, St(1))' = Contents(parsefile, St(1))
<1>1. /\ Len(parsefile) = 1 /\ mode' = "done" /\ word' = NoChar /\ mode = "eof"
      /\ UNCHANGED <<parsefile, parsenextc, parsenleft, parselleft, atab, checkkwd, c, commands>>
  BY DEF Eof, To
<1>2. St(1)' = St(1) /\ Contents(parsefile, St(1))' = Contents(parsefile, St(1))
  BY <1>1, Same1
<1>3. PICK s, o : s = St(1) /\ o = St(1)'
  OBVIOUS
<1>4. Held(parsefile, s) /\ ModeGood(s, "eof", 1) /\ commands \in 0 .. MaxCommands
  BY <1>1, <1>3 DEF IInv
<1>5. Held(parsefile', o)
  BY <1>1, <1>2, <1>3, <1>4
<1>6. ModeGood(o, "done", 1) /\ "done" \in Modes
  BY <1>2, <1>3, <1>4 DEF ModeGood, Modes
<1>7. IInv'
  BY <1>1, <1>3, <1>4, <1>5, <1>6 DEF IInv
<1> QED BY <1>1, <1>2, <1>7

LEMMA UnchangedKeeps ==
  ASSUME IInv, UNCHANGED vars
  PROVE  IInv' /\ c' = c /\ Contents(parsefile, St(1))' = Contents(parsefile, St(1))
<1>1. UNCHANGED <<parsefile, parsenextc, parsenleft, parselleft, atab, checkkwd, c, mode, word, commands>>
  BY DEF vars
<1>2. St(1)' = St(1) /\ Contents(parsefile, St(1))' = Contents(parsefile, St(1))
  BY <1>1, Same1
<1>3. PICK s, o : s = St(1) /\ o = St(1)'
  OBVIOUS
<1>4. Held(parsefile', o) /\ ModeGood(o, mode', Len(parsefile'))
  BY <1>1, <1>2, <1>3 DEF IInv
<1> QED BY <1>1, <1>2, <1>3, <1>4 DEF IInv

(* What a step does to what is still to be read.                           *)
Effect(x, r) ==
  Advances(x, r) \/ Rests(x, r) \/ Inserts(x, r) \/ Unreads(x, r) \/ EndsMark(x, r) \/ Stays(x, r)

Passes ==
  \/ \E r \in Recs : Makes(r) /\ Effect(St(1), r)
  \/ \E t \in Strings \cup Files : Opens(t)
  \/ Len(parsefile) > 1 /\ Closes(Len(parsefile) - 1)
  \/ Resets
  \/ c' = c /\ Contents(parsefile, St(1))' = Contents(parsefile, St(1))

LEMMA Keeps ==
  ASSUME IInv, [Next]_vars
  PROVE  IInv' /\ Passes
<1>1. ASSUME NEW r \in Recs, Makes(r), Effect(St(1), r)
      PROVE  IInv' /\ Passes
  BY <1>1, MakesKeeps DEF Passes
<1>2. CASE Token
  BY <1>1, <1>2, TokenMakes DEF Effect
<1>3. CASE Word
  BY <1>1, <1>3, WordMakes DEF Effect
<1>4. CASE Peek
  BY <1>1, <1>4, PeekMakes DEF Effect
<1>5. CASE LineCont
  BY <1>1, <1>5, LineContMakes DEF Effect
<1>6. CASE Quote
  BY <1>1, <1>6, QuoteMakes DEF Effect
<1>7. CASE HereDoc
  BY <1>1, <1>7, HereDocMakes DEF Effect
<1>8. CASE checkend
  BY <1>1, <1>8, CheckEndMakes DEF Effect
<1>9. CASE Line
  BY <1>1, <1>9, LineMakes DEF Effect
<1>10. CASE Go
  BY <1>1, <1>10, GoMakes DEF Effect
<1>11. CASE aliascmd
  BY <1>1, <1>11, AliasMakes DEF Effect
<1>12. CASE unaliascmd
  BY <1>1, <1>12, UnaliasMakes DEF Effect
<1>13. CASE evalstring
  BY <1>13, EvalMakes DEF Passes
<1>14. CASE dotcmd
  BY <1>14, DotMakes DEF Passes
<1>15. CASE popfile
  BY <1>15, PopMakes DEF Passes
<1>16. CASE Eof
  BY <1>16, EofKeeps DEF Passes
<1>17. CASE Error
  <2>1. mode \notin {"eof", "done"} /\ Counted /\ Reset
    BY <1>17 DEF Error
  <2>2. commands' \in 0 .. MaxCommands
    BY <2>1, CountIs DEF IInv
  <2> QED BY <2>1, <2>2, ResetMakes DEF Passes
<1>18. CASE HereDocUnended
  <2>1. mode \notin {"eof", "done"} /\ Reset /\ commands' = commands
    BY <1>18 DEF HereDocUnended
  <2>2. commands' \in 0 .. MaxCommands
    BY <2>1 DEF IInv
  <2> QED BY <2>1, <2>2, ResetMakes DEF Passes
<1>19. CASE Done
  BY <1>19, UnchangedKeeps DEF Done, Passes
<1>20. CASE UNCHANGED vars
  BY <1>20, UnchangedKeeps DEF Passes
<1> QED BY <1>2, <1>3, <1>4, <1>5, <1>6, <1>7, <1>8, <1>9, <1>10, <1>11, <1>12, <1>13, <1>14, <1>15, <1>16,
           <1>17, <1>18, <1>19, <1>20 DEF Next

(* The counters of every input, the current one and those saved, fit what  *)
(* their texts and buffers hold, through every function of input.c.        *)
THEOREM Inductive == Spec => []IInv
<1>1. Init => IInv
  BY Begins
<1>2. IInv /\ [Next]_vars => IInv'
  BY Keeps
<1> QED BY <1>1, <1>2, PTL DEF Spec

------------------------------------------------------------------------------
(* What is in use.                                                         *)
LEMMA EachLevel ==
  ASSUME NEW files, NEW s, Held(files, s), NEW i \in 1 .. Len(files)
  PROVE  files[i] \in PFiles /\ files[i].hasbuf \in BOOLEAN /\ Len(files[i].buf) <= Bufsiz
         /\ \A sp \in Range(files[i].strpush) : sp.ap \in AliasIds \cup {0}
<1>1. PICK N : N = Len(files)
  OBVIOUS
<1>2. N \in Nat /\ files \in Seq(PFiles) /\ i \in 1 .. N /\ (i = N \/ i \in 1 .. N - 1)
  BY <1>1 DEF Held
<1>3. PICK f : f = files[i]
  OBVIOUS
<1>4. f \in PFiles
  BY <1>1, <1>2, <1>3
<1>5. Len(f.buf) <= Bufsiz
  <2>1. CASE i = N
    <3>1. f = s.file /\ Level(s)
      BY <1>1, <1>3, <2>1 DEF Held
    <3> QED BY <3>1 DEF Level, LevelGood
  <2>2. CASE i \in 1 .. N - 1
    <3>1. Saved(f)
      BY <1>1, <1>3, <2>2 DEF Held
    <3> QED BY <3>1 DEF Saved, LevelGood
  <2> QED BY <1>2, <2>1, <2>2
<1>6. \A sp \in Range(f.strpush) : sp \in Frames
  BY <1>4, FileIs DEF Range
<1>7. f.hasbuf \in BOOLEAN
  BY <1>4 DEF PFiles
<1> QED BY <1>3, <1>4, <1>5, <1>6, <1>7 DEF Frames

LEMMA Typed ==
  ASSUME IInv
  PROVE  TypeOK
<1>1. PICK s, files : s = St(1) /\ files = parsefile
  OBVIOUS
<1>2. /\ Held(files, s) /\ s \in Recs /\ Level(s) /\ s.nleft = parsenleft /\ s.lleft = parselleft /\ s.atab = atab
      /\ s.check = checkkwd
  BY <1>1, StIs DEF IInv, Held
<1>3. parsenleft \in Int /\ parselleft \in Nat \cup {EOF_NLEFT} /\ checkkwd \in BOOLEAN
  BY <1>2, RecIs DEF LLefts
<1>4. parsenleft >= -2 \/ parsenleft \in {EOF_NLEFT, EOF_NLEFT + 1}
  <2>1. PICK f, b : f = s.file /\ b = Base(f, s.nextc, s.nleft, s.lleft)
    OBVIOUS
  <2>2. BaseGood(f, b) /\ (f.strpush # << >> => s.nleft >= -1)
    BY <1>2, <2>1 DEF Level, LevelGood
  <2>3. f.strpush = << >> => b.nleft = s.nleft
    BY <2>1 DEF Base
  <2>4. b.nleft >= 0 \/ b.nleft >= -2 \/ Ended(b.nleft)
    BY <2>2 DEF BaseGood
  <2>5. CASE f.strpush # << >>
    BY <1>2, <1>3, <2>2, <2>5
  <2>6. CASE f.strpush = << >>
    BY <1>2, <1>3, <2>3, <2>4, <2>6 DEF Ended
  <2> QED BY <2>5, <2>6
<1>5. Len(parsefile) \in 1 .. MaxFiles /\ parsefile[1].hasbuf
  BY <1>1, <1>2 DEF Held
<1>6. \A i \in DOMAIN parsefile :
        /\ parsefile[i].hasbuf \in BOOLEAN /\ Len(parsefile[i].buf) <= Bufsiz
        /\ \A sp \in Range(parsefile[i].strpush) : sp.ap \in AliasIds \cup {0}
  <2>1. DOMAIN parsefile = 1 .. Len(files)
    BY <1>1, <1>2 DEF Held
  <2> QED BY <1>1, <1>2, <2>1, EachLevel
<1>7. atab \in [AliasIds -> [name : Letters \cup {"", "free"}, val : Values \cup {<< >>}, inuse : BOOLEAN]]
  BY <1>2, RecIs DEF Entries
<1> QED BY <1>3, <1>4, <1>5, <1>6, <1>7 DEF TypeOK, IInv, Modes

LEMMA UsesCounted ==
  ASSUME NEW files \in Seq(PFiles), NEW table, UsesGood(files, table), NEW a \in AliasIds,
         table[a].inuse \in BOOLEAN,
         NEW pushed, pushed = {p \in Slots(files) : ApAt(files, p) = a}
  PROVE  /\ Cardinality(pushed) = IF table[a].inuse THEN 1 ELSE 0
         /\ table[a].inuse => table[a].name # "free"
<1>1. a # 0
  BY DEF AliasIds
<1>2. CASE table[a].inuse
  <2>1. PICK p \in Slots(files) : ApAt(files, p) = a
    BY <1>2 DEF UsesGood
  <2>2. \A q \in Slots(files) : ApAt(files, q) = a => q = p
    BY <1>1, <2>1 DEF UsesGood
  <2>3. pushed = {p}
    BY <2>1, <2>2
  <2>4. Cardinality({p}) = 1
    BY FS_Singleton
  <2>5. table[a].name # "free"
    BY <1>1, <2>1 DEF UsesGood
  <2> QED BY <1>2, <2>3, <2>4, <2>5
<1>3. CASE ~table[a].inuse
  <2>1. \A q \in Slots(files) : ApAt(files, q) # a
    BY <1>1, <1>3 DEF UsesGood
  <2>2. pushed = {}
    BY <2>1
  <2>3. Cardinality({}) = 0
    BY FS_EmptySet
  <2> QED BY <1>3, <2>2, <2>3
<1> QED BY <1>2, <1>3

LEMMA Uses ==
  ASSUME IInv
  PROVE  InUseExact
<1>1. PICK files, table : files = parsefile /\ table = atab
  OBVIOUS
<1>2. files \in Seq(PFiles) /\ UsesGood(files, table) /\ table \in [AliasIds -> Entries]
  <2>1. Held(parsefile, St(1)) /\ St(1).atab = atab
    BY StIs DEF IInv
  <2> QED BY <1>1, <2>1, RecIs DEF Held
<1>3. ASSUME NEW a \in AliasIds,
             NEW pushed, pushed = UNION {{<<i, j>> : j \in {j \in DOMAIN files[i].strpush : files[i].strpush[j].ap = a}} :
                                         i \in DOMAIN files}
      PROVE  /\ Cardinality(pushed) = IF table[a].inuse THEN 1 ELSE 0
             /\ table[a].inuse => table[a].name # "free"
  <2>1. \A i, j : ApAt(files, <<i, j>>) = files[i].strpush[j].ap
    BY DEF ApAt
  <2>2. pushed = {p \in Slots(files) : ApAt(files, p) = a}
    <3>1. ASSUME NEW p \in pushed PROVE p \in Slots(files) /\ ApAt(files, p) = a
      <4>1. PICK i \in DOMAIN files : \E j \in DOMAIN files[i].strpush : files[i].strpush[j].ap = a /\ p = <<i, j>>
        BY <1>3
      <4>2. PICK j \in DOMAIN files[i].strpush : files[i].strpush[j].ap = a /\ p = <<i, j>>
        BY <4>1
      <4> QED BY <2>1, <4>2 DEF Slots
    <3>2. ASSUME NEW p \in Slots(files), ApAt(files, p) = a PROVE p \in pushed
      <4>1. PICK i \in DOMAIN files : \E j \in DOMAIN files[i].strpush : p = <<i, j>>
        BY DEF Slots
      <4>2. PICK j \in DOMAIN files[i].strpush : p = <<i, j>>
        BY <4>1
      <4>3. files[i].strpush[j].ap = a
        BY <2>1, <3>2, <4>2
      <4> QED BY <1>3, <4>2, <4>3
    <3> QED BY <3>1, <3>2
  <2>3. table[a].inuse \in BOOLEAN
    BY <1>2 DEF Entries
  <2> QED BY <1>2, <2>2, <2>3, UsesCounted
<1> QED BY <1>1, <1>3, Typed DEF InUseExact

(* An alias is marked in use exactly while its text is on the stack of some *)
(* input, and is there once, and it has not been freed: whatever is pushed, *)
(* popped, nested, unaliased or left by an error.                           *)
THEOREM AliasesInUse == Spec => []InUseExact
<1>1. IInv => InUseExact
  BY Uses
<1> QED BY <1>1, Inductive, PTL

------------------------------------------------------------------------------
(* Where nothing is left.                                                  *)
AllNul(text) == \A i \in 1 .. Len(text) : text[i] = "0"

LEMMA NulCat ==
  ASSUME NEW x \in Seq(FileChars), NEW y \in Seq(FileChars)
  PROVE  AllNul(x \o y) <=> AllNul(x) /\ AllNul(y)
<1>1. PICK m, n, z : m = Len(x) /\ n = Len(y) /\ z = x \o y
  OBVIOUS
<1>2. m \in Nat /\ n \in Nat /\ Len(z) = m + n
  BY <1>1, ConcatProperties
<1>3. \A i \in 1 .. m + n : z[i] = IF i <= m THEN x[i] ELSE y[i - m]
  BY <1>1, ConcatProperties
<1>4. ASSUME AllNul(z) PROVE AllNul(x) /\ AllNul(y)
  <2>1. ASSUME NEW i \in 1 .. m PROVE x[i] = "0"
    <3>1. i \in 1 .. m + n /\ i <= m
      BY <1>2
    <3> QED BY <1>2, <1>3, <1>4, <3>1 DEF AllNul
  <2>2. ASSUME NEW i \in 1 .. n PROVE y[i] = "0"
    <3>1. m + i \in 1 .. m + n /\ ~(m + i <= m) /\ (m + i) - m = i
      BY <1>2
    <3>2. z[m + i] = y[i]
      BY <1>3, <3>1
    <3> QED BY <1>2, <1>4, <3>1, <3>2 DEF AllNul
  <2> QED BY <1>1, <2>1, <2>2 DEF AllNul
<1>5. ASSUME AllNul(x), AllNul(y) PROVE AllNul(z)
  <2>1. ASSUME NEW i \in 1 .. m + n PROVE z[i] = "0"
    <3>1. CASE i <= m
      <4>1. i \in 1 .. m
        BY <1>2, <3>1
      <4> QED BY <1>1, <1>3, <1>5, <3>1, <4>1 DEF AllNul
    <3>2. CASE ~(i <= m)
      <4>1. i - m \in 1 .. n
        BY <1>2, <3>2
      <4> QED BY <1>1, <1>3, <1>5, <3>2, <4>1 DEF AllNul
    <3> QED BY <3>1, <3>2
  <2> QED BY <1>2, <2>1 DEF AllNul
<1> QED BY <1>1, <1>4, <1>5

LEMMA NulSlice ==
  ASSUME NEW f \in PFiles, NEW p \in Places, NEW n \in Int, Reads(f, p, n)
  PROVE  AllNul(Slice(f, p, n)) <=> n <= 0
<1>1. PICK x : x = Slice(f, p, n)
  OBVIOUS
<1>2. x \in Seq(Chars) /\ Len(x) = IF n > 0 THEN n ELSE 0
  BY <1>1, SliceIs
<1>3. CASE n > 0
  <2>1. 1 \in 1 .. Len(x) /\ x[1] \in Chars
    BY <1>2, <1>3
  <2>2. x[1] # "0"
    BY <2>1, CharsAre
  <2> QED BY <1>1, <1>3, <2>1, <2>2 DEF AllNul
<1>4. CASE ~(n > 0)
  BY <1>1, <1>2, <1>4 DEF AllNul
<1> QED BY <1>3, <1>4

LEMMA NulBelow ==
  ASSUME NEW f \in PFiles, NEW b \in Bases, BaseGood(f, b), StackGood(f),
         NEW n, n = Len(f.strpush)
  PROVE  AllNul(Below(f, b)[n]) <=> /\ AllNul(Lines(f, b))
                                    /\ \A j \in 1 .. n : f.strpush[j].prevnleft <= 0
<1>1. n \in Nat /\ n = Len(f.strpush) /\ DOMAIN f.strpush = 1 .. n
  BY FileIs
<1>2. PICK B : B = Below(f, b)
  OBVIOUS
<1>3. /\ B[0] = Lines(f, b)
      /\ \A j \in 1 .. n : B[j] = Slice(f, f.strpush[j].prevstring, f.strpush[j].prevnleft) \o B[j - 1]
      /\ \A j \in 0 .. n : B[j] \in Seq(FileChars)
  BY <1>1, <1>2, BelowIs
<1> DEFINE J == {j \in 0 .. n : AllNul(B[j]) <=> /\ AllNul(B[0])
                                                  /\ \A i \in 1 .. j : f.strpush[i].prevnleft <= 0}
<1>4. 0 \in J
  BY <1>1
<1>5. ASSUME NEW j \in 1 .. n, j - 1 \in J PROVE j \in J
  <2>1. j - 1 \in 0 .. n /\ j \in 0 .. n
    BY <1>1
  <2>2. PICK p, m : p = f.strpush[j].prevstring /\ m = f.strpush[j].prevnleft
    OBVIOUS
  <2>3. p \in Places /\ m \in Int
    <3>1. f.strpush[j] \in Frames
      BY <1>1, FileIs
    <3> QED BY <2>2, <3>1 DEF Frames
  <2>4. Reads(f, p, m)
    BY <1>1, <2>2 DEF StackGood
  <2>5. AllNul(Slice(f, p, m)) <=> m <= 0
    BY <2>3, <2>4, NulSlice
  <2>6. Slice(f, p, m) \in Seq(FileChars)
    BY <2>3, <2>4, SliceIs
  <2>7. B[j] = Slice(f, p, m) \o B[j - 1] /\ B[j - 1] \in Seq(FileChars)
    BY <1>3, <2>1, <2>2
  <2>8. AllNul(B[j]) <=> m <= 0 /\ AllNul(B[j - 1])
    BY <2>5, <2>6, <2>7, NulCat
  <2>9. \A i : i \in 1 .. j <=> i = j \/ i \in 1 .. j - 1
    BY <1>1
  <2>10. AllNul(B[j - 1]) <=> AllNul(B[0]) /\ \A i \in 1 .. j - 1 : f.strpush[i].prevnleft <= 0
    BY <1>5
  <2>11. AllNul(B[j]) <=> AllNul(B[0]) /\ \A i \in 1 .. j : f.strpush[i].prevnleft <= 0
    BY <2>2, <2>8, <2>9, <2>10
  <2> QED BY <2>1, <2>11
<1>6. \A j \in 0 .. n : j \in J
  <2> HIDE DEF J
  <2> QED BY <1>1, <1>4, <1>5, UpTo
<1>7. n \in 0 .. n
  BY <1>1
<1>8. n \in J
  BY <1>6, <1>7
<1> QED BY <1>2, <1>3, <1>8

LEMMA NulLeft ==
  ASSUME NEW s \in Recs, Level(s)
  PROVE  /\ at_eof(s) => AllNul(Left(s))
         /\ AllNul(Left(s)) /\ ~s.file.hasbuf => at_eof(s)
<1>1. PICK f, p, m, l, b, n : /\ f = s.file /\ p = s.nextc /\ m = s.nleft /\ l = s.lleft
                              /\ b = Base(s.file, s.nextc, s.nleft, s.lleft) /\ n = Len(s.file.strpush)
  OBVIOUS
<1>2. /\ LevelGood(f, p, m, l) /\ f \in PFiles /\ p \in Places /\ m \in Int /\ l \in LLefts /\ Reads(f, p, m)
      /\ b = Base(f, p, m, l) /\ BaseGood(f, b) /\ StackGood(f) /\ (f.strpush # << >> => m >= -1) /\ b \in Bases
  BY <1>1, RecIs, BaseIs DEF Level, LevelGood
<1>3. n = Len(f.strpush) /\ n \in Nat /\ DOMAIN f.strpush = 1 .. n
  BY <1>1, <1>2, FileIs
<1>4. PICK x, y : x = Slice(f, p, m) /\ y = Below(f, b)[n]
  OBVIOUS
<1>5. x \in Seq(FileChars) /\ y \in Seq(FileChars)
  BY <1>2, <1>3, <1>4, SliceIs, PendIs
<1>6. Left(s) = x \o y
  BY <1>1, <1>3, <1>4 DEF Left, PendL
<1>7. AllNul(x) <=> m <= 0
  BY <1>2, <1>4, NulSlice
<1>8. AllNul(y) <=> AllNul(Lines(f, b)) /\ \A j \in 1 .. n : f.strpush[j].prevnleft <= 0
  BY <1>2, <1>3, <1>4, NulBelow
<1>9. AllNul(Left(s)) <=> m <= 0 /\ AllNul(Lines(f, b)) /\ \A j \in 1 .. n : f.strpush[j].prevnleft <= 0
  BY <1>5, <1>6, <1>7, <1>8, NulCat
<1>10. AllNul(<< >>)
  BY DEF AllNul
<1>11. ~f.hasbuf => AllNul(Lines(f, b))
  BY <1>2, <1>10, LinesIs
<1>12. at_eof(s) <=> /\ m <= 0 /\ \A j \in 1 .. n : f.strpush[j].prevnleft <= 0
                     /\ m = EOF_NLEFT \/ ~f.hasbuf
  BY <1>1, <1>3 DEF at_eof
<1>13. ASSUME m = EOF_NLEFT, f.hasbuf PROVE AllNul(Lines(f, b))
  <2>1. f.strpush = << >>
    BY <1>2, <1>13 DEF EOF_NLEFT
  <2>2. b.nleft = m
    BY <1>2, <2>1 DEF Base
  <2>3. f.unread = << >> /\ b.lleft <= 0
    BY <1>2, <1>13, <2>2 DEF BaseGood, EOF_NLEFT
  <2> QED BY <1>2, <1>10, <1>13, <2>3, LinesIs
<1> QED BY <1>1, <1>9, <1>11, <1>12, <1>13

LEMMA PendingIs ==
  ASSUME IInv, NEW i \in 1 .. Len(parsefile)
  PROVE  PendingAt(i) = Readable(Contents(parsefile, St(1))[i])
<1>1. PICK s, N : s = St(1) /\ N = Len(parsefile)
  OBVIOUS
<1>2. Held(parsefile, s) /\ N \in Nat /\ (i = N \/ i \in 1 .. N - 1) /\ i \in 1 .. N
  BY <1>1 DEF IInv, Held
<1>3. /\ s.file = parsefile[N] /\ s.nextc = parsenextc /\ s.nleft = parsenleft /\ s.lleft = parselleft
  BY <1>1, StIs
<1>4. PICK d : d = Contents(parsefile, s)
  OBVIOUS
<1>5. d[N] = Left(s) /\ \A k \in 1 .. N - 1 : d[k] = PendL(parsefile[k], parsefile[k].nextc, parsefile[k].nleft, parsefile[k].lleft)
  BY <1>1, <1>2, <1>4, ContentIs
<1>6. ASSUME NEW f, NEW p, NEW m, NEW l
      PROVE  Pending(f, p, m, l) = Readable(PendL(f, p, m, l))
  BY DEF Pending, PendL
<1>7. CASE i = N
  <2>1. PendingAt(i) = Pending(parsefile[i], parsenextc, parsenleft, parselleft)
    BY <1>1, <1>7 DEF PendingAt
  <2>2. d[i] = PendL(parsefile[i], parsenextc, parsenleft, parselleft)
    BY <1>3, <1>5, <1>7 DEF Left
  <2> QED BY <1>1, <1>4, <1>6, <2>1, <2>2
<1>8. CASE i \in 1 .. N - 1
  <2>1. i # N
    BY <1>2, <1>8
  <2>2. PendingAt(i) = Pending(parsefile[i], parsefile[i].nextc, parsefile[i].nleft, parsefile[i].lleft)
    BY <1>1, <2>1 DEF PendingAt
  <2>3. d[i] = PendL(parsefile[i], parsefile[i].nextc, parsefile[i].nleft, parsefile[i].lleft)
    BY <1>5, <1>8
  <2> QED BY <1>1, <1>4, <1>6, <2>2, <2>3
<1> QED BY <1>2, <1>7, <1>8

LEMMA EofExact ==
  ASSUME IInv
  PROVE  AtEofExact
<1>1. PICK s, N, x : s = St(1) /\ N = Len(parsefile) /\ x = Left(s)
  OBVIOUS
<1>2. Held(parsefile, s) /\ s \in Recs /\ Level(s) /\ N \in 1 .. N /\ s.file = parsefile[N]
  BY <1>1, StIs DEF IInv, Held
<1>3. x \in Seq(FileChars)
  BY <1>1, <1>2, PendIs DEF Left, Level
<1>4. PendingAt(N) = Readable(x)
  <2>1. Contents(parsefile, s)[N] = x
    BY <1>1, <1>2, ContentIs
  <2> QED BY <1>1, <1>2, <2>1, PendingIs
<1>5. Readable(x) = << >> <=> AllNul(x)
  BY <1>3, ReadableIs DEF AllNul
<1>6. Last(parsefile) = s.file
  BY <1>1, <1>2 DEF Last
<1>7. at_eof(s) => AllNul(x)
  BY <1>1, <1>2, NulLeft
<1>8. AllNul(x) /\ ~s.file.hasbuf => at_eof(s)
  BY <1>1, <1>2, NulLeft
<1> QED BY <1>1, <1>4, <1>5, <1>6, <1>7, <1>8 DEF AtEofExact

(* The last command of an eval is executed without a fork exactly when      *)
(* nothing follows it, and that of a file never too early: at_eof looks at  *)
(* the counters of each string pushed, and they do not deceive it.          *)
THEOREM EndsSeen == Spec => []AtEofExact
<1>1. IInv => AtEofExact
  BY EofExact
<1> QED BY <1>1, Inductive, PTL

------------------------------------------------------------------------------
(* The stream.  If no file has NUL characters, what is left is just what   *)
(* the buffers hold.                                                       *)
LEMMA CutIs ==
  ASSUME NEW x \in Seq(FileChars), NEW y \in Seq(FileChars), NEW z, z = x \o y
  PROVE  /\ IsPrefix(x, z) /\ SubSeq(z, Len(x) + 1, Len(z)) = y
         /\ Len(x) + 1 \in 1 .. Len(z) + 1
<1>1. PICK m, n : m = Len(x) /\ n = Len(y)
  OBVIOUS
<1>2. m \in Nat /\ n \in Nat /\ Len(z) = m + n /\ z \in Seq(FileChars)
  BY <1>1, ConcatProperties
<1>3. \A i \in 1 .. m + n : z[i] = IF i <= m THEN x[i] ELSE y[i - m]
  BY <1>1, ConcatProperties
<1>4. IsPrefix(x, z)
  <2>1. m \in 0 .. m /\ m \in 0 .. m + n
    BY <1>2
  <2>2. PICK p, q : p = SubSeq(x, 1, m) /\ q = SubSeq(z, 1, m)
    OBVIOUS
  <2>3. p \in Seq(FileChars) /\ Len(p) = m /\ \A i \in 1 .. m : p[i] = x[i]
    BY <1>1, <2>1, <2>2, FrontIs
  <2>4. q \in Seq(FileChars) /\ Len(q) = m /\ \A i \in 1 .. m : q[i] = z[i]
    BY <1>2, <2>1, <2>2, FrontIs
  <2>5. \A i \in 1 .. m : i \in 1 .. m + n /\ i <= m
    BY <1>2
  <2>6. p = q
    BY <1>3, <2>3, <2>4, <2>5, SeqEqual
  <2>7. m <= m + n
    BY <1>2
  <2> QED BY <1>1, <1>2, <2>2, <2>6, <2>7 DEF IsPrefix
<1>5. SubSeq(z, m + 1, m + n) = y
  <2>1. PICK q : q = SubSeq(z, m + 1, m + n)
    OBVIOUS
  <2>2. m + 1 \in Int /\ m + n \in Int /\ \A i \in m + 1 .. m + n : z[i] \in FileChars
    <3>1. \A i \in m + 1 .. m + n : i \in 1 .. m + n
      BY <1>2
    <3> QED BY <1>2, <3>1
  <2>3. /\ q \in Seq(FileChars) /\ Len(q) = (IF m + 1 <= m + n THEN (m + n) - (m + 1) + 1 ELSE 0)
        /\ \A i \in 1 .. (m + n) - (m + 1) + 1 : q[i] = z[(m + 1) + i - 1]
    <3>1. PICK u, v : u = m + 1 /\ v = m + n
      OBVIOUS
    <3>2. u \in Int /\ v \in Int /\ \A i \in u .. v : z[i] \in FileChars
      BY ONLY <2>2, <3>1
    <3>3. /\ SubSeq(z, u, v) \in Seq(FileChars) /\ Len(SubSeq(z, u, v)) = (IF u <= v THEN v - u + 1 ELSE 0)
          /\ \A i \in 1 .. v - u + 1 : SubSeq(z, u, v)[i] = z[u + i - 1]
      BY ONLY <3>2, SubSeqProperties
    <3> QED BY ONLY <2>1, <3>1, <3>3
  <2>4. Len(q) = n
    BY <1>2, <2>3
  <2>5. ASSUME NEW i \in 1 .. n PROVE q[i] = y[i]
    <3>1. i \in 1 .. (m + n) - (m + 1) + 1 /\ (m + 1) + i - 1 = m + i
      BY <1>2
    <3>2. q[i] = z[m + i]
      BY <2>3, <3>1
    <3>3. m + i \in 1 .. m + n /\ ~(m + i <= m) /\ (m + i) - m = i
      BY <1>2
    <3>4. z[m + i] = y[i]
      BY <1>3, <3>3
    <3> QED BY <3>2, <3>4
  <2>6. q = y
    BY <1>1, <2>3, <2>4, <2>5, SeqEqual
  <2> QED BY <2>1, <2>6
<1>6. m + 1 \in 1 .. (m + n) + 1
  BY <1>2
<1> QED BY <1>1, <1>2, <1>4, <1>5, <1>6

LEMMA HeadOf ==
  ASSUME NEW a \in FileChars, NEW y \in Seq(FileChars)
  PROVE  Head(<<a>> \o y) = a /\ Tail(<<a>> \o y) = y /\ <<a>> \o y # << >>
<1>1. PICK x, z : x = <<a>> /\ z = <<a>> \o y
  OBVIOUS
<1>2. x \in Seq(FileChars) /\ Len(x) = 1 /\ x[1] = a /\ z = x \o y
  BY <1>1
<1>3. /\ z \in Seq(FileChars) /\ Len(z) = 1 + Len(y) /\ Len(y) \in Nat
      /\ \A i \in 1 .. 1 + Len(y) : z[i] = IF i <= 1 THEN x[i] ELSE y[i - 1]
  <2>1. PICK S : S = FileChars
    OBVIOUS
  <2>2. /\ x \o y \in Seq(S) /\ Len(x \o y) = Len(x) + Len(y)
        /\ \A i \in 1 .. Len(x) + Len(y) : (x \o y)[i] = IF i <= Len(x) THEN x[i] ELSE y[i - Len(x)]
    <3>1. x \in Seq(S) /\ y \in Seq(S)
      BY <1>2, <2>1
    <3> QED BY ONLY <3>1, ConcatProperties
  <2>3. Len(y) \in Nat
    OBVIOUS
  <2> QED BY ONLY <1>2, <2>1, <2>2, <2>3
<1>4. z # << >> /\ z[1] = a
  <2>1. 1 \in 1 .. 1 + Len(y) /\ 1 <= 1 /\ Len(z) # 0
    BY <1>3
  <2> QED BY <1>2, <1>3, <2>1
<1>5. Head(z) = a
  BY <1>3, <1>4
<1>6. Tail(z) = SubSeq(z, 2, Len(z))
  BY <1>3, <1>4, TailIsSubSeq
<1>7. SubSeq(z, Len(x) + 1, Len(z)) = y
  BY <1>2, CutIs
<1>8. Len(x) + 1 = 2
  BY <1>2
<1> QED BY <1>1, <1>4, <1>5, <1>6, <1>7, <1>8

LEMMA PlainIs ==
  ASSUME FileChars = Chars, NEW x \in Seq(FileChars)
  PROVE  Readable(x) = x
<1>1. \A i \in 1 .. Len(x) : x[i] # "0"
  BY CharsAre
<1> QED BY <1>1, ReadableIs

(* What has been read and not been read yet of all files.                  *)
LEMMA PendingsAre ==
  ASSUME FileChars = Chars, NEW files, NEW s, Held(files, s), NEW e,
         e = [i \in DOMAIN files |->
                IF i = Len(files) THEN Pending(files[i], s.nextc, s.nleft, s.lleft)
                ELSE Pending(files[i], files[i].nextc, files[i].nleft, files[i].lleft)]
  PROVE  e = Contents(files, s)
<1>1. PICK N, d : N = Len(files) /\ d = Contents(files, s)
  OBVIOUS
<1>2. /\ d \in Seq(Seq(FileChars)) /\ Len(d) = N
      /\ d[N] = Left(s)
      /\ \A i \in 1 .. N - 1 : d[i] = PendL(files[i], files[i].nextc, files[i].nleft, files[i].lleft)
  BY <1>1, ContentIs
<1>3. DOMAIN files = 1 .. N /\ N \in Nat /\ files[N] = s.file /\ N >= 1
  BY <1>1 DEF Held
<1>4. ASSUME NEW f, NEW p, NEW m, NEW l
      PROVE  Pending(f, p, m, l) = Readable(PendL(f, p, m, l))
  BY DEF Pending, PendL
<1>5. \A i \in 1 .. N : Readable(d[i]) = d[i]
  <2> TAKE i \in 1 .. N
  <2>1. d[i] \in Seq(FileChars)
    BY <1>2
  <2> QED BY <2>1, PlainIs
<1>6. ASSUME NEW i \in 1 .. N PROVE e[i] = d[i]
  <2>1. CASE i = N
    <3>1. e[i] = Pending(s.file, s.nextc, s.nleft, s.lleft)
      BY <1>1, <1>3, <2>1
    <3>2. e[i] = Readable(d[i])
      BY <1>2, <1>4, <2>1, <3>1 DEF Left
    <3> QED BY <1>5, <3>2
  <2>2. CASE i # N
    <3>1. i \in 1 .. N - 1
      BY <1>3, <2>2
    <3>2. e[i] = Pending(files[i], files[i].nextc, files[i].nleft, files[i].lleft)
      BY <1>1, <1>3, <2>2
    <3>3. e[i] = Readable(d[i])
      BY <1>2, <1>4, <3>1, <3>2
    <3> QED BY <1>5, <3>3
  <2> QED BY <2>1, <2>2
<1>7. e = [i \in 1 .. N |-> e[i]]
  BY <1>3
<1>8. d = [i \in 1 .. N |-> d[i]]
  BY <1>2
<1> QED BY <1>1, <1>6, <1>7, <1>8

LEMMA LevelsAre ==
  ASSUME FileChars = Chars, IInv
  PROVE  Levels = Contents(parsefile, St(1)) /\ Levels \in Seq(Seq(FileChars)) /\ Len(Levels) = Len(parsefile)
<1>1. PICK s, files : s = St(1) /\ files = parsefile
  OBVIOUS
<1>2. Held(files, s) /\ s.nextc = parsenextc /\ s.nleft = parsenleft /\ s.lleft = parselleft
  BY <1>1, StIs DEF IInv
<1>3. Levels = [i \in DOMAIN files |->
                  IF i = Len(files) THEN Pending(files[i], s.nextc, s.nleft, s.lleft)
                  ELSE Pending(files[i], files[i].nextc, files[i].nleft, files[i].lleft)]
  BY <1>1, <1>2 DEF Levels, PendingAt
<1>4. Levels = Contents(files, s)
  <2>1. PICK e : e = Levels
    OBVIOUS
  <2>2. e = [i \in DOMAIN files |->
                  IF i = Len(files) THEN Pending(files[i], s.nextc, s.nleft, s.lleft)
                  ELSE Pending(files[i], files[i].nextc, files[i].nleft, files[i].lleft)]
    BY <1>3, <2>1
  <2> QED BY <1>2, <2>1, <2>2, PendingsAre
<1> QED BY <1>1, <1>2, <1>4, ContentIs

LEMMA LevelsAfter ==
  ASSUME FileChars = Chars, IInv'
  PROVE  Levels' = Contents(parsefile, St(1))'
<1>1. PICK s, files : s = St(1)' /\ files = parsefile'
  OBVIOUS
<1>2. Held(files, s) /\ s.nextc = parsenextc' /\ s.nleft = parsenleft' /\ s.lleft = parselleft'
  BY <1>1 DEF IInv, St
<1>3. PICK e : e = Levels'
  OBVIOUS
<1>4. e = [i \in DOMAIN files |->
                  IF i = Len(files) THEN Pending(files[i], s.nextc, s.nleft, s.lleft)
                  ELSE Pending(files[i], files[i].nextc, files[i].nleft, files[i].lleft)]
  BY <1>1, <1>2, <1>3 DEF Levels, PendingAt
<1>5. e = Contents(files, s)
  BY <1>2, <1>4, PendingsAre
<1>6. Contents(parsefile, St(1))' = Contents(files, s)
  BY <1>1
<1> QED BY <1>3, <1>5, <1>6

LEMMA MakesContents ==
  ASSUME IInv, NEW r, Makes(r), NEW d, d = Contents(parsefile, St(1))
  PROVE  Contents(parsefile, St(1))' = [d EXCEPT ![Len(parsefile)] = Left(r)] /\ c' = r.c
<1>1. PICK N, o, y, h, files : N = Len(parsefile) /\ o = St(1)' /\ y = parsefile' /\ h = r.file /\ files = parsefile
  OBVIOUS
<1>2. Held(Current(parsefile, r.file), r) /\ CurrentBecomes(r) /\ h \in PFiles
  BY <1>1, RecIs DEF Makes
<1>3. Held(y, o) /\ y = Current(files, h) /\ Len(y) = N /\ Left(o) = Left(r) /\ o.c = r.c
  BY <1>1, <1>2, BecomesIs
<1>4. files \in Seq(PFiles) /\ files # << >> /\ N \in Nat /\ N >= 1 /\ Held(files, St(1))
  BY <1>1 DEF IInv, Held
<1>5. \A i \in 1 .. N - 1 : y[i] = files[i]
  <2>1. \A i \in 1 .. Len(files) - 1 : Current(files, h)[i] = files[i]
    BY ONLY <1>2, <1>4, CurrentIs
  <2>2. Len(files) = N
    BY <1>1
  <2> QED BY ONLY <1>3, <2>1, <2>2
<1>6. PICK e : e = Contents(y, o)
  OBVIOUS
<1>7. /\ d \in Seq(Seq(FileChars)) /\ Len(d) = N
      /\ \A i \in 1 .. N - 1 : d[i] = PendL(files[i], files[i].nextc, files[i].nleft, files[i].lleft)
  BY <1>1, <1>4, ContentIs
<1>8. /\ e \in Seq(Seq(FileChars)) /\ Len(e) = N /\ e[N] = Left(r)
      /\ \A i \in 1 .. N - 1 : e[i] = PendL(y[i], y[i].nextc, y[i].nleft, y[i].lleft)
  <2>1. /\ e \in Seq(Seq(FileChars)) /\ Len(e) = Len(y) /\ e[Len(y)] = Left(o)
        /\ \A i \in 1 .. Len(y) - 1 : e[i] = PendL(y[i], y[i].nextc, y[i].nleft, y[i].lleft)
    BY <1>3, <1>6, ContentIs
  <2> QED BY ONLY <1>3, <2>1
<1>9. \A i \in 1 .. N - 1 : e[i] = d[i]
  <2> TAKE i \in 1 .. N - 1
  <2>1. y[i] = files[i]
    BY <1>5
  <2> QED BY ONLY <1>7, <1>8, <2>1, i \in 1 .. N - 1
<1>10. e = [d EXCEPT ![N] = Left(r)]
  <2>1. PICK z, x : x = Left(r) /\ z = [d EXCEPT ![N] = x]
    OBVIOUS
  <2>2. z = [i \in 1 .. N |-> IF i = N THEN x ELSE d[i]]
    BY <1>7, <2>1
  <2>3. e = [i \in 1 .. N |-> e[i]]
    BY <1>8
  <2>4. \A i \in 1 .. N : e[i] = IF i = N THEN x ELSE d[i]
    <3>1. \A i \in 1 .. N : i = N \/ i \in 1 .. N - 1
      BY <1>4
    <3> QED BY <1>8, <1>9, <2>1, <3>1
  <2> QED BY <2>1, <2>2, <2>3, <2>4
<1>11. c' = o.c
  BY <1>1 DEF St
<1> QED BY <1>1, <1>3, <1>6, <1>10, <1>11

LEMMA Distinct ==
  /\ \A x \in Chars : x # NoChar /\ x \notin {PEOF, PFAKE}
  /\ NoChar \notin {PEOF, PFAKE}
BY InputConstants DEF Chars, NoChar, PEOF, PFAKE

LEMMA Opens1 ==
  ASSUME FileChars = Chars, NEW t \in Values \cup Strings \cup Files
  PROVE  t \in Readables /\ t \in Seq(FileChars)
<1>1. t \in Seq(FileChars)
  <2>1. CASE t \in Strings \cup Values
    <3>1. Strings \cup Values \subseteq Seq(Chars)
      BY InputConstants, Zenon
    <3> QED BY <2>1, <3>1
  <2>2. CASE t \in Files
    <3>1. t \in Seq(Chars \cup {"0"})
      BY <2>2, InputConstants
    <3>2. \A i \in 1 .. Len(t) : t[i] \in FileChars
      BY <2>2, <3>1 DEF FileChars, Range
    <3> QED BY <3>1, <3>2
  <2> QED BY <2>1, <2>2
<1>2. Readable(t) = t
  BY <1>1, PlainIs
<1> QED BY <1>1, <1>2 DEF Readables

(* Each effect on what is left is a step of the stream.                    *)
LEMMA EffectImplemented ==
  ASSUME FileChars = Chars, IInv, IInv', NEW r \in Recs, Makes(r), Effect(St(1), r)
  PROVE  Stream!Next \/ (UNCHANGED Levels /\ UNCHANGED Latest)
<1>1. PICK d, e, x, N, y, z : /\ d = Levels /\ e = Levels' /\ x = St(1) /\ N = Len(Levels)
                              /\ y = Left(x) /\ z = Left(r)
  OBVIOUS
<1>2. d = Contents(parsefile, x) /\ d \in Seq(Seq(FileChars)) /\ N = Len(parsefile) /\ N = Len(d)
  BY <1>1, LevelsAre
<1>3. Held(parsefile, x) /\ x \in Recs /\ Level(x) /\ x.c = c
  BY <1>1, StIs DEF IInv, Held
<1>4. d[N] = y /\ N \in 1 .. N /\ N >= 1
  <2>1. Contents(parsefile, x)[Len(parsefile)] = Left(x)
    BY <1>3, ContentIs
  <2>2. Len(parsefile) \in 1 .. MaxFiles
    BY <1>3 DEF Held
  <2>3. N \in 1 .. MaxFiles
    BY <1>2, <2>2
  <2>4. N \in Nat /\ N >= 1
    BY <2>3
  <2> QED BY <1>1, <1>2, <2>1, <2>4
<1>5. e = [d EXCEPT ![N] = z] /\ c' = r.c
  <2>1. PICK g : g = Contents(parsefile, St(1))
    OBVIOUS
  <2>2. Contents(parsefile, St(1))' = [g EXCEPT ![Len(parsefile)] = Left(r)] /\ c' = r.c
    BY <2>1, MakesContents
  <2>3. g = d
    BY <1>1, <1>2, <2>1
  <2>4. Levels' = Contents(parsefile, St(1))'
    BY LevelsAfter
  <2> QED BY <1>1, <1>2, <2>2, <2>3, <2>4
<1>6. y \in Seq(FileChars) /\ z \in Seq(FileChars)
  <2>1. Level(r)
    BY DEF Makes, Held
  <2> QED BY <1>1, <1>3, <2>1, PendIs DEF Left, Level
<1>7. Levels' = [Levels EXCEPT ![Len(Levels)] = z] /\ Levels[Len(Levels)] = y
  BY <1>1, <1>4, <1>5
<1>8. y = z => Levels' = Levels
  <2> HAVE y = z
  <2>1. [d EXCEPT ![N] = d[N]] = d
    BY <1>2
  <2> QED BY <1>1, <1>4, <1>5, <2>1
<1>9. r.c = NoChar => Latest' = NoChar
  BY <1>5, Distinct DEF Latest
<1>10. CASE Advances(x, r)
  <2>1. CASE r.c \in Chars /\ y = <<r.c>> \o z
    <3>1. Latest' = r.c /\ r.c # NoChar
      BY <1>5, <2>1, Distinct DEF Latest
    <3>2. Head(y) = r.c /\ Tail(y) = z /\ y # << >>
      BY <1>6, <2>1, HeadOf
    <3>3. Stream!Read
      BY <1>7, <3>1, <3>2 DEF Stream!Read, Stream!Becomes, Stream!Top
    <3> QED BY <3>3 DEF Stream!Next
  <2>2. CASE r.c \in {PEOF, PFAKE} /\ y = z
    <3>1. Latest' = NoChar
      BY <1>5, <2>2 DEF Latest
    <3>2. Stream!Forget
      BY <1>8, <2>2, <3>1 DEF Stream!Forget
    <3> QED BY <3>2 DEF Stream!Next
  <2> QED BY <1>1, <1>10, <2>1, <2>2 DEF Advances
<1>11. CASE Rests(x, r)
  <2>1. r.c = NoChar /\ y = z
    BY <1>1, <1>11 DEF Rests
  <2>2. Stream!Forget
    BY <1>8, <1>9, <2>1 DEF Stream!Forget
  <2> QED BY <2>2 DEF Stream!Next
<1>12. CASE Inserts(x, r)
  <2>1. PICK t \in Values \cup {<< >>} : z = t \o y
    BY <1>1, <1>12 DEF Inserts
  <2>2. Latest' = NoChar
    BY <1>9, <1>12 DEF Inserts
  <2>3. CASE t \in Values
    <3>1. t \in Readables
      BY <2>3, Opens1
    <3>2. Stream!Insert
      BY <1>7, <2>1, <2>2, <3>1 DEF Stream!Insert, Stream!Becomes, Stream!Top
    <3> QED BY <3>2 DEF Stream!Next
  <2>4. CASE t = << >>
    <3>1. z = y
      BY <1>6, <2>1, <2>4, CatIs
    <3>2. Stream!Forget
      BY <1>8, <2>2, <3>1 DEF Stream!Forget
    <3> QED BY <3>2 DEF Stream!Next
  <2> QED BY <2>3, <2>4
<1>13. CASE Unreads(x, r)
  <2>1. r.c = NoChar /\ c = "\\" /\ z = <<"\\">> \o y
    BY <1>1, <1>3, <1>13 DEF Unreads
  <2>2. "\\" \in Chars
    BY DEF Chars
  <2>3. Latest = "\\"
    BY <2>1, <2>2, Distinct DEF Latest
  <2>4. Stream!Unread
    BY <1>7, <1>9, <2>1, <2>3 DEF Stream!Unread, Stream!Becomes, Stream!Top
  <2> QED BY <2>4 DEF Stream!Next
<1>14. CASE EndsMark(x, r)
  <2>1. r.c = NoChar /\ c = Head(Mark)
    BY <1>1, <1>3, <1>14 DEF EndsMark
  <2>2. PICK end \in {<< >>, <<"n">>} : y = (Tail(Mark) \o end) \o z /\ (end = << >> => z = << >>)
    BY <1>1, <1>14 DEF EndsMark
  <2>3. Tail(Mark) \o end \in Seq(FileChars)
    <3>1. Mark # << >> /\ Mark \in Seq(FileChars)
      BY MarkIs
    <3>2. Tail(Mark) \in Seq(FileChars)
      BY <3>1, HeadTailProperties
    <3>3. "n" \in FileChars
      BY DEF Chars
    <3>4. end \in Seq(FileChars)
      <4>1. PICK S, w : S = FileChars /\ w = "n"
        OBVIOUS
      <4>2. w \in S
        BY <3>3, <4>1
      <4>3. << >> \in Seq(S) /\ <<w>> \in Seq(S)
        BY ONLY <4>2
      <4> QED BY <4>1, <4>3
    <3> QED BY <3>2, <3>4, CatIs
  <2>4. PICK used : used = Tail(Mark) \o end
    OBVIOUS
  <2>5. IsPrefix(used, y) /\ SubSeq(y, Len(used) + 1, Len(y)) = z
    <3>1. used \in Seq(FileChars) /\ y = used \o z /\ z \in Seq(FileChars)
      BY <1>6, <2>2, <2>3, <2>4
    <3>2. /\ IsPrefix(used, used \o z) /\ SubSeq(used \o z, Len(used) + 1, Len(used \o z)) = z
      BY ONLY <3>1, CutIs
    <3> QED BY <3>1, <3>2
  <2>6. Latest = Head(Mark)
    <3>1. Mark # << >> /\ Mark \in Seq(Chars)
      BY MarkIs
    <3>2. Head(Mark) \in Chars
      BY <3>1, HeadTailProperties
    <3> QED BY <2>1, <3>2, Distinct DEF Latest
  <2>7. Stream!SkipMark
    <3>1. PICK top : top = Levels[Len(Levels)]
      OBVIOUS
    <3>2. top = y /\ Levels' = [Levels EXCEPT ![Len(Levels)] = SubSeq(top, Len(used) + 1, Len(top))]
      BY <1>7, <2>5, <3>1
    <3>a. Stream!IsPrefix(used, top)
      BY <2>5, <3>2 DEF IsPrefix, Stream!IsPrefix
    <3>3. Stream!IsPrefix(used, top) /\ (end = << >> => SubSeq(top, Len(used) + 1, Len(top)) = << >>)
      BY <2>2, <2>5, <3>2, <3>a
    <3>4. Latest = Head(Mark) /\ Latest' = NoChar
      BY <1>9, <2>1, <2>6
    <3>5. /\ Stream!IsPrefix(Tail(Mark) \o end, Levels[Len(Levels)])
          /\ end = << >> => SubSeq(Levels[Len(Levels)], Len(Tail(Mark) \o end) + 1, Len(Levels[Len(Levels)])) = << >>
          /\ Levels' = [Levels EXCEPT ![Len(Levels)] =
                          SubSeq(Levels[Len(Levels)], Len(Tail(Mark) \o end) + 1, Len(Levels[Len(Levels)]))]
      BY ONLY <2>4, <3>1, <3>2, <3>3
    <3>6. \E end1 \in {<< >>, <<"n">>} :
            /\ Stream!IsPrefix(Tail(Mark) \o end1, Levels[Len(Levels)])
            /\ end1 = << >> => SubSeq(Levels[Len(Levels)], Len(Tail(Mark) \o end1) + 1, Len(Levels[Len(Levels)])) = << >>
            /\ Levels' = [Levels EXCEPT ![Len(Levels)] =
                            SubSeq(Levels[Len(Levels)], Len(Tail(Mark) \o end1) + 1, Len(Levels[Len(Levels)]))]
      BY ONLY <3>5, end \in {<< >>, <<"n">>}
    <3> QED BY ONLY <3>4, <3>6 DEF Stream!SkipMark, Stream!Becomes, Stream!Top
  <2> QED BY <2>7 DEF Stream!Next
<1>15. CASE Stays(x, r)
  <2>1. c' = c /\ y = z
    BY <1>1, <1>3, <1>5, <1>15 DEF Stays
  <2>2. UNCHANGED Latest
    BY <2>1 DEF Latest
  <2> QED BY <1>8, <2>1, <2>2
<1> QED BY <1>1, <1>10, <1>11, <1>12, <1>13, <1>14, <1>15 DEF Effect

LEMMA PassesImplemented ==
  ASSUME FileChars = Chars, IInv, IInv', Passes
  PROVE  Stream!Next \/ (UNCHANGED Levels /\ UNCHANGED Latest)
<1>1. PICK d, N : d = Levels /\ N = Len(Levels)
  OBVIOUS
<1>2. d = Contents(parsefile, St(1)) /\ d \in Seq(Seq(FileChars)) /\ N = Len(parsefile) /\ N = Len(d)
  BY <1>1, LevelsAre
<1>3. Levels' = Contents(parsefile, St(1))'
  BY LevelsAfter
<1>4. c' = NoChar => Latest' = NoChar
  BY Distinct DEF Latest
<1>5. ASSUME NEW r \in Recs, Makes(r), Effect(St(1), r)
      PROVE  Stream!Next \/ (UNCHANGED Levels /\ UNCHANGED Latest)
  BY <1>5, EffectImplemented
<1>6. ASSUME NEW t \in Strings \cup Files, Opens(t)
      PROVE  Stream!Next
  <2>1. c' = NoChar /\ Levels' = Append(Levels, t)
    BY <1>1, <1>2, <1>3, <1>6 DEF Opens
  <2>2. t \in Readables
    BY Opens1
  <2>3. Stream!Open
    BY <1>4, <2>1, <2>2 DEF Stream!Open
  <2> QED BY <2>3 DEF Stream!Next
<1>7. ASSUME Len(parsefile) > 1, Closes(Len(parsefile) - 1)
      PROVE  Stream!Next
  <2>1. c' = NoChar /\ Levels' = SubSeq(Levels, 1, Len(Levels) - 1) /\ Len(Levels) > 1
    BY <1>1, <1>2, <1>3, <1>7 DEF Closes
  <2>2. Stream!Close
    BY <1>4, <2>1 DEF Stream!Close, Stream!Front, Stream!Top
  <2> QED BY <2>2 DEF Stream!Next
<1>8. ASSUME Resets
      PROVE  Stream!Next
  <2>1. PICK pre \in Seq(FileChars), x \in Seq(FileChars) :
          Contents(parsefile, St(1))[1] = pre \o x /\ Contents(parsefile, St(1))' = <<x>>
    BY <1>8 DEF Resets
  <2>2. PICK y, k : y = Levels[1] /\ k = Len(pre) + 1
    OBVIOUS
  <2>3. y = pre \o x /\ Levels' = <<x>>
    BY <1>1, <1>2, <1>3, <2>1, <2>2
  <2>4. SubSeq(y, k, Len(y)) = x /\ k \in 1 .. Len(y) + 1
    <3>1. SubSeq(pre \o x, Len(pre) + 1, Len(pre \o x)) = x /\ Len(pre) + 1 \in 1 .. Len(pre \o x) + 1
      BY CutIs
    <3> QED BY ONLY <2>2, <2>3, <3>1
  <2>5. c' = NoChar
    BY <1>8 DEF Resets
  <2>6. Levels' = <<SubSeq(Levels[1], k, Len(Levels[1]))>> /\ k \in 1 .. Len(Levels[1]) + 1
    BY <2>2, <2>3, <2>4
  <2>7. Stream!Clear
    BY <1>4, <2>5, <2>6 DEF Stream!Clear
  <2> QED BY <2>7 DEF Stream!Next
<1>9. ASSUME c' = c, Contents(parsefile, St(1))' = Contents(parsefile, St(1))
      PROVE  UNCHANGED Levels /\ UNCHANGED Latest
  BY <1>1, <1>2, <1>3, <1>9 DEF Latest
<1> QED BY <1>5, <1>6, <1>7, <1>8, <1>9 DEF Passes

LEMMA BeginsStream ==
  ASSUME FileChars = Chars, Init
  PROVE  Stream!Init
<1>1. IInv /\ c = NoChar
  BY Begins
<1>2. PICK t \in Files : Contents(parsefile, St(1)) = <<t>>
  BY Begins
<1>3. Levels = <<t>>
  BY <1>1, <1>2, LevelsAre
<1>4. t \in Readables
  BY Opens1
<1>5. Latest = NoChar
  BY <1>1, Distinct DEF Latest
<1> QED BY <1>3, <1>4, <1>5 DEF Stream!Init

LEMMA NoNuls ==
  ASSUME Files \subseteq Seq(Chars)
  PROVE  FileChars = Chars
<1>1. ASSUME NEW t \in Files PROVE Range(t) \subseteq Chars
  <2>1. t \in Seq(Chars)
    OBVIOUS
  <2> QED BY <2>1 DEF Range
<1> QED BY <1>1 DEF FileChars

(* The parser gets each character once and in order, however reads cut the *)
(* input into blocks, whatever is pushed, popped, nested or put back, and  *)
(* wherever an alias ends: the buffers, the counters and the stack of      *)
(* pushed strings implement a stream.  The files must have no NUL          *)
(* characters: with them what stays in the buffer behind a NUL that was    *)
(* removed is read again, as part of the next line.                        *)
THEOREM StreamImplemented ==
  ASSUME Files \subseteq Seq(Chars)
  PROVE  Spec => ImplementsStream
<1>1. Init => Stream!Init
  BY NoNuls, BeginsStream
<1>2. IInv /\ IInv' /\ [Next]_vars => [Stream!Next]_(Stream!vars)
  <2> SUFFICES ASSUME IInv, IInv', [Next]_vars
               PROVE  [Stream!Next]_(Stream!vars)
    OBVIOUS
  <2>1. Passes
    BY Keeps
  <2>2. Stream!Next \/ (UNCHANGED Levels /\ UNCHANGED Latest)
    BY <2>1, NoNuls, PassesImplemented
  <2> QED BY <2>2 DEF Stream!vars
<1> QED BY <1>1, <1>2, Inductive, PTL DEF Spec, ImplementsStream, Stream!Spec
=============================================================================
