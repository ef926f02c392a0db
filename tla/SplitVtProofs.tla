----------------------------- MODULE SplitVtProofs -----------------------------
(***************************************************************************)
(* First the handlers of SplitVtWindow and PaintVideo, for windows and     *)
(* terminals of every size.  No handler writes outside the memory of its   *)
(* window: each leaves a window that is sound, when the item it handles is *)
(* harmless.  How a program's window got its region, cursor and tab stops  *)
(* does not matter (Sound, HandledSound).  And what a handler sends to the *)
(* terminal has the effect there that it has on the window's memory,       *)
(* within the window's lines, when the item is tidy (Mirrored, After,      *)
(* HandledAfter); a repaint likewise (PaintVideoIs).                       *)
(*                                                                         *)
(* Then which window is set up when (SplitVt), for every terminal, every   *)
(* input and every bound: between two reads the keyboard's window is the   *)
(* current one, and its program lives as long as one of them does; and     *)
(* unless SIGWINCH comes within a write, what a program wrote goes to its  *)
(* window.                                                                 *)
(*                                                                         *)
(* Where the programs keep clear of four situations, nothing is ever       *)
(* written outside the memory of a window, by handlers, by moves of the    *)
(* bar or by changes of the terminal's height.                             *)
(*                                                                         *)
(* And where they keep clear of all situations that are named but a signal *)
(* within a write, the terminal is set up for the current window and shows *)
(* both windows and the bar whenever the main loop runs.                   *)
(***************************************************************************)
EXTENDS SplitVt, WellFoundedInduction, TLAPS

(* A set of natural numbers that is not empty has a least member.          *)

LEMMA Least ==
  ASSUME NEW S, S \subseteq Nat, S # {}
  PROVE  \E x \in S : \A y \in S : x <= y
<1>1. PICK x \in S : \A y \in S : ~(<<y, x>> \in OpToRel(<, Nat))
  BY NatLessThanWellFounded, WFMin, Zenon
<1>2. ASSUME NEW y \in S, y < x PROVE FALSE
  <2>1. <<y, x>> \in Nat \X Nat
    BY <1>2
  <2>2. <<y, x>>[1] < <<y, x>>[2]
    BY <1>2
  <2> QED BY <1>1, <2>1, <2>2 DEF OpToRel
<1> QED BY <1>2

Screen(r) == [1 .. r -> [1 .. Cols -> Cells]]
Colours == {"none", "red"}
WindowOf(r) ==
  [x : 1 .. r, y : Nat \ {0}, rows : {r}, off : Nat, up : 1 .. r, low : 1 .. r,
   attr : SUBSET Attributes, keys : {"normal", "application"}, charset : {"US", "graphics"},
   colour : Colours,
   sx : Nat, sy : Nat, sattr : SUBSET Attributes,
   tabs : SUBSET (1 .. Cols), mem : Screen(r), wild : {FALSE}]

(* The memory has the window's size, the cursor is in one of its lines and *)
(* may be past its last column, the region has two lines or more; nothing  *)
(* was written outside.  A position that was saved has a column.           *)
Sound(w) ==
  /\ w.rows \in Nat /\ w.rows >= 3
  /\ w \in WindowOf(w.rows)
  /\ w.up < w.low
  /\ w.sx > 0 => w.sy > 0

(* What a handler may change in a sound window.                            *)
LEMMA MemSound ==
  ASSUME NEW w, Sound(w), NEW mem \in Screen(w.rows)
  PROVE  Sound([w EXCEPT !.mem = mem])
BY DEF Sound, WindowOf

LEMMA LineSound ==
  ASSUME NEW w, Sound(w), NEW x \in 1 .. w.rows
  PROVE  Sound([w EXCEPT !.x = x])
BY DEF Sound, WindowOf

LEMMA ColumnSound ==
  ASSUME NEW w, Sound(w), NEW y \in Nat \ {0}
  PROVE  Sound([w EXCEPT !.y = y]) /\ [w EXCEPT !.y = y].y = y
<1>1. Sound([w EXCEPT !.y = y])
  BY DEF Sound, WindowOf
<1>2. [w EXCEPT !.y = y].y = y
  BY DEF Sound, WindowOf
<1> QED BY <1>1, <1>2

LEMMA AttrSound ==
  ASSUME NEW w, Sound(w), NEW attr \in SUBSET Attributes, NEW colour \in Colours
  PROVE  Sound([w EXCEPT !.attr = attr, !.colour = colour])
<1> DEFINE v == [w EXCEPT !.attr = attr, !.colour = colour]
<1>1. v \in WindowOf(w.rows)
  BY DEF Sound, WindowOf
<1>2. v.rows = w.rows /\ v.up = w.up /\ v.low = w.low /\ v.sx = w.sx /\ v.sy = w.sy
  BY DEF Sound, WindowOf
<1> HIDE DEF v
<1>3. Sound(v)
  BY <1>1, <1>2 DEF Sound
<1> QED BY <1>3 DEF v

LEMMA RegionSound ==
  ASSUME NEW w, Sound(w), NEW a \in 1 .. w.rows, NEW b \in 1 .. w.rows, a < b
  PROVE  Sound([w EXCEPT !.up = a, !.low = b, !.x = 1, !.y = 1])
<1> DEFINE v == [w EXCEPT !.up = a, !.low = b, !.x = 1, !.y = 1]
<1>1. v \in WindowOf(w.rows)
  <2>1. w.rows \in Nat /\ w.rows >= 3 /\ w \in WindowOf(w.rows)
    BY DEF Sound
  <2>2. 1 \in 1 .. w.rows /\ 1 \in Nat \ {0}
    BY <2>1
  <2> QED BY <2>1, <2>2 DEF WindowOf
<1>2. v.rows = w.rows /\ v.sx = w.sx /\ v.sy = w.sy
  BY DEF Sound, WindowOf
<1>3. v.up = a /\ v.low = b
  BY DEF Sound, WindowOf
<1> HIDE DEF v
<1>4. Sound(v)
  BY <1>1, <1>2, <1>3 DEF Sound
<1> QED BY <1>4 DEF v

(* What a sound window is known to have, one fact at a time.               *)
LEMMA RowsFact ==
  ASSUME NEW w, Sound(w)
  PROVE  w.rows \in Nat /\ w.rows >= 3
BY DEF Sound, WindowOf

LEMMA LineFact ==
  ASSUME NEW w, Sound(w)
  PROVE  w.x \in 1 .. w.rows
BY DEF Sound, WindowOf

LEMMA ColumnFact ==
  ASSUME NEW w, Sound(w)
  PROVE  w.y \in Nat \ {0}
BY DEF Sound, WindowOf

LEMMA RegionFact ==
  ASSUME NEW w, Sound(w)
  PROVE  w.up \in 1 .. w.rows /\ w.low \in 1 .. w.rows /\ w.up < w.low
BY DEF Sound, WindowOf

LEMMA SavedFact ==
  ASSUME NEW w, Sound(w)
  PROVE  w.sx \in Nat /\ w.sy \in Nat /\ (w.sx > 0 => w.sy > 0)
BY DEF Sound, WindowOf

LEMMA TabsFact ==
  ASSUME NEW w, Sound(w)
  PROVE  w.tabs \subseteq 1 .. Cols
BY DEF Sound, WindowOf

LEMMA MemFact ==
  ASSUME NEW w, Sound(w)
  PROVE  w.mem \in Screen(w.rows)
BY DEF Sound, WindowOf

------------------------------------------------------------------------------
(* videomem.c: what moves and erases cells.                                *)

LEMMA StoreCellSound ==
  ASSUME NEW w, Sound(w), NEW x, NEW y, Inside(w, x, y), NEW cell \in Cells
  PROVE  Sound(StoreCell(w, x, y, cell))
<1> DEFINE mem == [w.mem EXCEPT ![x][y] = cell]
<1>1. w.mem \in Screen(w.rows)
  BY DEF Sound, WindowOf
<1>2. mem \in Screen(w.rows)
  BY <1>1 DEF Screen, Inside
<1>3. StoreCell(w, x, y, cell) = [w EXCEPT !.mem = mem]
  BY DEF StoreCell
<1> QED BY <1>2, <1>3, MemSound

LEMMA Rolled ==
  ASSUME NEW r \in Nat, NEW mem \in Screen(r), NEW a \in 1 .. r, NEW b \in 1 .. r
  PROVE  RolledUp(mem, a, b) \in Screen(r) /\ RolledDown(mem, a, b) \in Screen(r)
<1>1. BlankRow \in [1 .. Cols -> Cells]
  BY DEF BlankRow, Cells
<1>2. RolledUp(mem, a, b) \in Screen(r)
  BY <1>1 DEF RolledUp, Screen
<1>3. RolledDown(mem, a, b) \in Screen(r)
  BY <1>1 DEF RolledDown, Screen
<1> QED BY <1>2, <1>3

LEMMA AddVideoSound ==
  ASSUME NEW w, Sound(w), w.y <= Cols, NEW n
  PROVE  Sound(AddVideo(w, n))
<1>1. PICK attr : attr = (IF n < EightBit THEN w.attr ELSE Attributes)
  OBVIOUS
<1>2. attr \in SUBSET Attributes
  BY <1>1 DEF Sound, WindowOf
<1>3. {"char"} \cup attr \in Cells
  BY <1>2 DEF Cells
<1>4. Inside(w, w.x, w.y)
  BY ColsAssumption DEF Sound, WindowOf, Inside
<1>5. AddVideo(w, n) = StoreCell(w, w.x, w.y, {"char"} \cup attr)
  BY <1>1 DEF AddVideo
<1> QED BY <1>3, <1>4, <1>5, StoreCellSound

LEMMA EraseVideoSound ==
  ASSUME NEW w, Sound(w), NEW x1, NEW x2, NEW y1, NEW y2,
         x1 > x2 \/ y1 > y2 \/ (Inside(w, x1, y1) /\ Inside(w, x2, y2))
  PROVE  Sound(EraseVideo(w, x1, x2, y1, y2))
<1> DEFINE mem == [i \in DOMAIN w.mem |-> [j \in 1 .. Cols |->
                     IF i \in x1 .. x2 /\ j \in y1 .. y2 THEN {} ELSE w.mem[i][j]]]
<1>1. w.mem \in Screen(w.rows)
  BY DEF Sound, WindowOf
<1>2. mem \in Screen(w.rows)
  BY <1>1 DEF Screen, Cells
<1>3. EraseVideo(w, x1, x2, y1, y2) \in {w, [w EXCEPT !.mem = mem]}
  BY DEF EraseVideo
<1> QED BY <1>2, <1>3, MemSound

LEMMA ScrollVideoSound ==
  ASSUME NEW w, Sound(w)
  PROVE  Sound(ScrollVideo(w)) /\ Sound(RevScrollVideo(w))
<1>1. /\ w.mem \in Screen(w.rows) /\ w.up \in 1 .. w.rows /\ w.low \in 1 .. w.rows
      /\ w.rows \in Nat /\ ~(w.up > w.low)
  BY RowsFact, RegionFact, MemFact
<1>2. ScrollVideo(w) \in {w, [w EXCEPT !.mem = RolledUp(w.mem, w.up, w.low)]}
  BY <1>1 DEF ScrollVideo, RegionInside
<1>3. RevScrollVideo(w) \in {w, [w EXCEPT !.mem = RolledDown(w.mem, w.up, w.low)]}
  BY <1>1 DEF RevScrollVideo, RegionInside
<1>4. /\ RolledUp(w.mem, w.up, w.low) \in Screen(w.rows)
      /\ RolledDown(w.mem, w.up, w.low) \in Screen(w.rows)
  BY <1>1, Rolled
<1>5. Sound(ScrollVideo(w))
  BY <1>2, <1>4, MemSound
<1>6. Sound(RevScrollVideo(w))
  BY <1>3, <1>4, MemSound
<1> QED BY <1>5, <1>6

LEMMA RShiftVideoSound ==
  ASSUME NEW w, Sound(w), NEW n \in Nat
  PROVE  Sound(RShiftVideo(w, n))
<1> DEFINE old == w.mem[w.x]
           line == [j \in 1 .. Cols |-> IF j <= w.y THEN old[j]
                                      ELSE IF j - n >= 1 THEN old[j - n] ELSE {}]
           mem == [w.mem EXCEPT ![w.x] = line]
<1>1. w.mem \in Screen(w.rows) /\ w.x \in 1 .. w.rows /\ w.y \in Nat \ {0} /\ w.rows \in Nat
  BY RowsFact, LineFact, ColumnFact, MemFact
<1>2. old \in [1 .. Cols -> Cells]
  BY <1>1 DEF Screen
<1>3. {} \in Cells
  BY DEF Cells
<1> HIDE DEF old
<1>4. line \in [1 .. Cols -> Cells]
  BY <1>1, <1>2, <1>3, ColsAssumption
<1> HIDE DEF line
<1>5. mem \in Screen(w.rows)
  BY <1>1, <1>4 DEF Screen
<1>6. RShiftVideo(w, n) \in {w, [w EXCEPT !.mem = mem]}
  BY <1>1, ColsAssumption DEF RShiftVideo, Inside, line, old
<1> HIDE DEF mem
<1> QED BY <1>5, <1>6, MemSound

------------------------------------------------------------------------------
(* vt100.c: one lemma for each handler, or group of handlers.              *)

LEMMA AdvanceSound ==
  ASSUME NEW w, Sound(w)
  PROVE  Sound(Advance(w))
<1>1. CASE w.x < w.low
  <2>1. Advance(w) = [w EXCEPT !.x = w.x + 1] /\ w.x + 1 \in 1 .. w.rows
    BY <1>1, RowsFact, LineFact, ColumnFact, RegionFact DEF Advance
  <2> QED BY <2>1, LineSound, ColumnSound
<1>2. CASE ~(w.x < w.low)
  BY <1>2, ScrollVideoSound DEF Advance
<1> QED BY <1>1, <1>2

LEMMA CharacterSound ==
  ASSUME NEW s, Sound(s.w), NEW n
  PROVE  Sound(Character(s, n).w)
<1> DEFINE p == IF s.w.y > Cols THEN NextLine(s) ELSE s
<1>1. Sound(p.w) /\ p.w.y <= Cols
  <2>1. CASE s.w.y > Cols
    <3>1. p.w = [Advance(s.w) EXCEPT !.y = 1]
      BY <2>1 DEF NextLine
    <3>2. Sound([Advance(s.w) EXCEPT !.y = 1]) /\ [Advance(s.w) EXCEPT !.y = 1].y = 1
      BY AdvanceSound, ColumnSound
    <3>3. 1 <= Cols
      BY ColsAssumption
    <3> QED BY <3>1, <3>2, <3>3
  <2>2. CASE ~(s.w.y > Cols)
    BY <2>2, ColsAssumption, RowsFact, LineFact, ColumnFact, RegionFact
  <2> QED BY <2>1, <2>2
<1>2. Sound(AddVideo(p.w, n))
  BY <1>1, AddVideoSound
<1>3. Character(s, n).w = [AddVideo(p.w, n) EXCEPT !.y = AddVideo(p.w, n).y + 1]
  BY DEF Character
<1>4. AddVideo(p.w, n).y + 1 \in Nat \ {0}
  BY <1>2, RowsFact, LineFact, ColumnFact, RegionFact
<1> HIDE DEF p
<1> QED BY <1>2, <1>3, <1>4, LineSound, ColumnSound, RowsFact, LineFact, ColumnFact, RegionFact

LEMMA BackSpaceSound ==
  ASSUME NEW s, Sound(s.w)
  PROVE  Sound(BackSpace(s).w)
<1>1. CASE s.w.y # 1
  <2>1. BackSpace(s).w = [s.w EXCEPT !.y = s.w.y - 1]
    BY <1>1 DEF BackSpace
  <2>2. s.w.y - 1 \in Nat \ {0}
    BY <1>1, RowsFact, LineFact, ColumnFact, RegionFact
  <2> QED BY <2>1, <2>2, LineSound, ColumnSound, RowsFact, LineFact, ColumnFact, RegionFact
<1>2. CASE s.w.y = 1
  BY <1>2 DEF BackSpace
<1> QED BY <1>1, <1>2

LEMMA NextTabPlace ==
  ASSUME NEW w, Sound(w)
  PROVE  NextTab(w) \in Nat \ {0}
<1> DEFINE stops == {j \in w.tabs : j > w.y} \cup {j \in {Cols} : j > w.y}
<1>1. stops \subseteq Nat \ {0} /\ w.y + 1 \in Nat \ {0}
  <2>1. w.tabs \subseteq 1 .. Cols /\ w.y \in Nat \ {0} /\ Cols \in Nat \ {0}
    BY TabsFact, ColumnFact, ColsAssumption
  <2> QED BY <2>1
<1>2. NextTab(w) = IF stops = {} THEN w.y + 1 ELSE CHOOSE j \in stops : \A k \in stops : j <= k
  BY DEF NextTab
<1> HIDE DEF stops
<1>3. CASE stops # {}
  <2>1. \E j \in stops : \A k \in stops : j <= k
    BY <1>1, <1>3, Least
  <2>2. (CHOOSE j \in stops : \A k \in stops : j <= k) \in stops
    BY <2>1
  <2> QED BY <1>1, <1>2, <1>3, <2>2
<1> QED BY <1>1, <1>2, <1>3

LEMMA TabOnSound ==
  ASSUME NEW s, Sound(s.w)
  PROVE  Sound(TabOn(s).w)
<1>1. TabOn(s).w = [s.w EXCEPT !.y = NextTab(s.w)]
  BY DEF TabOn
<1> QED BY <1>1, NextTabPlace, LineSound, ColumnSound, RowsFact, LineFact, ColumnFact, RegionFact

LEMMA ReverseIndexSound ==
  ASSUME NEW s, Sound(s.w)
  PROVE  Sound(ReverseIndex(s).w)
<1>1. CASE s.w.x > s.w.up
  <2>1. ReverseIndex(s).w = [s.w EXCEPT !.x = s.w.x - 1] /\ s.w.x - 1 \in 1 .. s.w.rows
    BY <1>1, RowsFact, LineFact, ColumnFact, RegionFact DEF ReverseIndex
  <2> QED BY <2>1, LineSound, ColumnSound
<1>2. CASE ~(s.w.x > s.w.up)
  BY <1>2, ScrollVideoSound DEF ReverseIndex
<1> QED BY <1>1, <1>2

LEMMA RestoreItSound ==
  ASSUME NEW s, Sound(s.w), s.w.sx > 0
  PROVE  Sound(RestoreIt(s).w)
<1> DEFINE x == IF s.w.sx > s.w.rows THEN s.w.rows ELSE s.w.sx
           y == IF s.w.sy > Cols THEN Cols ELSE s.w.sy
<1>1. x \in 1 .. s.w.rows /\ y \in Nat \ {0}
  <2>1. s.w.sx \in Nat \ {0} /\ s.w.sy \in Nat \ {0} /\ s.w.rows \in Nat \ {0} /\ Cols \in Nat \ {0}
    BY SavedFact, RowsFact, ColsAssumption
  <2> QED BY <2>1
<1>2. RestoreIt(s).w = [s.w EXCEPT !.x = x, !.y = y, !.attr = s.w.sattr, !.colour = "none"]
  BY DEF RestoreIt, SetAttr, ToCursor
<1>3. s.w.sattr \in SUBSET Attributes
  BY DEF Sound, WindowOf
<1> HIDE DEF x, y
<1>4. Sound([s.w EXCEPT !.x = x, !.y = y])
  <2>1. [s.w EXCEPT !.x = x, !.y = y] = [[s.w EXCEPT !.x = x] EXCEPT !.y = y]
    OBVIOUS
  <2> QED BY <1>1, <2>1, LineSound, ColumnSound
<1>5. RestoreIt(s).w = [[s.w EXCEPT !.x = x, !.y = y] EXCEPT !.attr = s.w.sattr, !.colour = "none"]
  BY <1>2
<1> DEFINE v == [s.w EXCEPT !.x = x, !.y = y]
<1> HIDE DEF v
<1>6. Sound([v EXCEPT !.attr = s.w.sattr, !.colour = "none"])
  <2>1. Sound(v)
    BY <1>4 DEF v
  <2> QED BY <1>3, <2>1, AttrSound DEF Colours
<1> QED BY <1>5, <1>6 DEF v

LEMMA TabsSound ==
  ASSUME NEW w, Sound(w), w.y <= Cols, NEW n
  PROVE  Sound(SetTab(w)) /\ Sound(ClearTab(w, n))
<1>1. ASSUME NEW tabs \in SUBSET (1 .. Cols) PROVE Sound([w EXCEPT !.tabs = tabs])
  BY DEF Sound, WindowOf
<1>2. SetTab(w) = [w EXCEPT !.tabs = w.tabs \cup {w.y}]
  BY DEF SetTab
<1>3. ClearTab(w, n) \in {w, [w EXCEPT !.tabs = {}], [w EXCEPT !.tabs = w.tabs \ {w.y}]}
  BY DEF ClearTab
<1>4. w.tabs \cup {w.y} \in SUBSET (1 .. Cols) /\ w.tabs \ {w.y} \in SUBSET (1 .. Cols)
  <2>1. w.y \in 1 .. Cols
    BY ColumnFact, ColsAssumption
  <2> QED BY <2>1, TabsFact
<1> QED BY <1>1, <1>2, <1>3, <1>4

LEMMA ScrollRegionSound ==
  ASSUME NEW s, Sound(s.w), NEW n \in Nat, NEW m \in Nat,
         Between(1, n, s.w.rows + 1) # Between(0, m, s.w.rows)
  PROVE  Sound(ScrollRegion(s, n, m).w)
<1> DEFINE upper == IF n < 1 THEN 1 ELSE n
           lower == IF m > s.w.rows THEN s.w.rows ELSE m
           whole == (n = 0 /\ m = 0) \/ upper > lower
           up == IF whole THEN 1 ELSE upper
           low == IF whole THEN s.w.rows ELSE lower
<1>1. up \in 1 .. s.w.rows /\ low \in 1 .. s.w.rows /\ up < low
  BY RowsFact, LineFact, ColumnFact, RegionFact DEF Between
<1>2. ScrollRegion(s, n, m).w = [s.w EXCEPT !.up = up, !.low = low, !.x = 1, !.y = 1]
  BY DEF ScrollRegion, ToCursor
<1> HIDE DEF up, low
<1>3. Sound([s.w EXCEPT !.up = up, !.low = low, !.x = 1, !.y = 1])
  BY <1>1, RegionSound
<1> QED BY <1>2, <1>3

LEMMA MovesSound ==
  ASSUME NEW w, NEW t, Sound(w), NEW n \in Nat, NEW m \in Nat
  PROVE  /\ Sound(CursorUp([w |-> w, t |-> t], n).w)
         /\ Sound(CursorDown([w |-> w, t |-> t], n).w)
         /\ Sound(CursorRight([w |-> w, t |-> t], n).w)
         /\ Sound(CursorLeft([w |-> w, t |-> t], n).w)
         /\ Sound(MoveTo([w |-> w, t |-> t], n, m).w)
<1> DEFINE s == [w |-> w, t |-> t]
<1>0. Count(n) \in Nat \ {0} /\ Count(m) \in Nat \ {0}
  BY DEF Count
<1>1. Sound(CursorUp(s, n).w)
  <2>1. \/ CursorUp(s, n).w \in {w, [w EXCEPT !.x = w.up]}
        \/ w.x - Count(n) > w.up /\ CursorUp(s, n).w = [w EXCEPT !.x = w.x - Count(n)]
    BY DEF CursorUp, ToCursor
  <2> QED BY <1>0, <2>1, LineSound, ColumnSound, RowsFact, LineFact, ColumnFact, RegionFact
<1>2. Sound(CursorDown(s, n).w)
  <2>1. \/ CursorDown(s, n).w \in {w, [w EXCEPT !.x = w.low]}
        \/ w.x + Count(n) <= w.low /\ CursorDown(s, n).w = [w EXCEPT !.x = w.x + Count(n)]
    BY DEF CursorDown, ToCursor
  <2> QED BY <1>0, <2>1, LineSound, ColumnSound, RowsFact, LineFact, ColumnFact, RegionFact
<1>3. Sound(CursorRight(s, n).w)
  <2>1. CursorRight(s, n).w \in {w, [w EXCEPT !.y = Cols], [w EXCEPT !.y = w.y + Count(n)]}
    BY DEF CursorRight, ToCursor
  <2> QED BY <1>0, <2>1, LineSound, ColumnSound, RowsFact, LineFact, ColumnFact, RegionFact, ColsAssumption
<1>4. Sound(CursorLeft(s, n).w)
  <2>1. \/ CursorLeft(s, n).w \in {w, [w EXCEPT !.y = 1]}
        \/ w.y - Count(n) > 1 /\ CursorLeft(s, n).w = [w EXCEPT !.y = w.y - Count(n)]
    BY DEF CursorLeft, Return
  <2> QED BY <1>0, <2>1, LineSound, ColumnSound, RowsFact, LineFact, ColumnFact, RegionFact
<1>5. Sound(MoveTo(s, n, m).w)
  <2> DEFINE x == IF Count(n) > w.rows THEN w.rows ELSE Count(n)
             y == IF Count(m) > Cols THEN Cols ELSE Count(m)
  <2>1. MoveTo(s, n, m).w = [[w EXCEPT !.x = x] EXCEPT !.y = y]
    BY DEF MoveTo, ToCursor
  <2>2. x \in 1 .. w.rows /\ y \in Nat \ {0}
    BY <1>0, RowsFact, LineFact, ColumnFact, RegionFact, ColsAssumption
  <2>3. Sound([w EXCEPT !.x = x])
    BY <2>2, LineSound
  <2> HIDE DEF x, y
  <2> QED BY <2>1, <2>2, <2>3, ColumnSound
<1> QED BY <1>1, <1>2, <1>3, <1>4, <1>5

LEMMA AttributeSound ==
  ASSUME NEW w, NEW t, Sound(w), NEW n \in Nat
  PROVE  LET s == Attribute([w |-> w, t |-> t], n) IN Sound(s.w) /\ s = [w |-> s.w, t |-> s.t]
<1> DEFINE s == Attribute([w |-> w, t |-> t], n)
<1>1. s = [w |-> s.w, t |-> s.t]
  BY DEF Attribute
<1>2. ASSUME NEW attr \in SUBSET Attributes PROVE Sound([w EXCEPT !.attr = attr])
  BY DEF Sound, WindowOf
<1>3. ASSUME NEW colour \in Colours PROVE Sound([w EXCEPT !.colour = colour])
  BY DEF Sound, WindowOf
<1>4. w.attr \in SUBSET Attributes
  BY DEF Sound, WindowOf
<1>5. s.w \in {w, [w EXCEPT !.attr = {}, !.colour = "none"], [w EXCEPT !.attr = w.attr \cup {"bold"}],
               [w EXCEPT !.attr = w.attr \cup {"reverse"}], [w EXCEPT !.attr = w.attr \ {"bold"}],
               [w EXCEPT !.attr = w.attr \ {"reverse"}], [w EXCEPT !.colour = "red"]}
  BY DEF Attribute
<1>6. /\ w.attr \cup {"bold"} \in SUBSET Attributes /\ w.attr \cup {"reverse"} \in SUBSET Attributes
      /\ w.attr \ {"bold"} \in SUBSET Attributes /\ w.attr \ {"reverse"} \in SUBSET Attributes
      /\ {} \in SUBSET Attributes /\ "none" \in Colours /\ "red" \in Colours
  BY <1>4 DEF Attributes, Colours
<1>7. Sound([w EXCEPT !.attr = {}, !.colour = "none"])
  BY <1>6, AttrSound
<1> HIDE DEF s
<1>8. Sound(s.w)
  BY <1>2, <1>3, <1>5, <1>6, <1>7
<1> QED BY <1>1, <1>8 DEF s

LEMMA AttributesSound ==
  ASSUME NEW w, NEW t, Sound(w), NEW n \in Nat, NEW m \in Nat
  PROVE  Sound(Attributes2([w |-> w, t |-> t], n, m).w)
<1> DEFINE first == Attribute([w |-> w, t |-> t], n)
           v == first.w
           u == first.t
<1>1. Sound(v) /\ first = [w |-> v, t |-> u]
  BY AttributeSound
<1>2. Attributes2([w |-> w, t |-> t], n, m) \in {first, Attribute(first, m)}
  BY DEF Attributes2
<1>3. Sound(Attribute([w |-> v, t |-> u], m).w)
  <2> HIDE DEF v, u
  <2> QED BY <1>1, AttributeSound
<1> HIDE DEF first
<1> QED BY <1>1, <1>2, <1>3

LEMMA ClearScreenSound ==
  ASSUME NEW w, NEW t, Sound(w), NEW n \in Nat
  PROVE  Sound(ClearScreen([w |-> w, t |-> t], n).w)
<1>1. /\ Inside(w, w.x, 1) /\ Inside(w, w.rows, Cols) /\ Inside(w, 1, 1) /\ Inside(w, w.x, Cols)
  BY RowsFact, LineFact, ColsAssumption DEF Inside
<1>2. /\ Sound(EraseVideo(w, w.x, w.rows, 1, Cols)) /\ Sound(EraseVideo(w, 1, w.x, 1, Cols))
      /\ Sound(EraseVideo(w, 1, w.rows, 1, Cols))
  BY <1>1, EraseVideoSound
<1>3. \/ ClearScreen([w |-> w, t |-> t], n).w
           \in {w, EraseVideo(w, w.x, w.rows, 1, Cols), EraseVideo(w, 1, w.x, 1, Cols)}
      \/ ClearScreen([w |-> w, t |-> t], n).w
           = [[EraseVideo(w, 1, w.rows, 1, Cols) EXCEPT !.x = 1] EXCEPT !.y = 1]
  BY DEF ClearScreen
<1>4. Sound([[EraseVideo(w, 1, w.rows, 1, Cols) EXCEPT !.x = 1] EXCEPT !.y = 1])
  <2> DEFINE v == EraseVideo(w, 1, w.rows, 1, Cols)
  <2> HIDE DEF v
  <2>1. Sound(v)
    BY <1>2 DEF v
  <2>2. 1 \in 1 .. v.rows
    BY <2>1, RowsFact
  <2>3. Sound([v EXCEPT !.x = 1])
    BY <2>1, <2>2, LineSound
  <2> DEFINE u == [v EXCEPT !.x = 1]
  <2> HIDE DEF u
  <2>4. Sound(u)
    BY <2>3 DEF u
  <2>5. Sound([u EXCEPT !.y = 1])
    BY <2>4, ColumnSound
  <2> QED BY <2>5 DEF u, v
<1> QED BY <1>2, <1>3, <1>4

LEMMA ClearLineSound ==
  ASSUME NEW w, NEW t, Sound(w), NEW n \in Nat, w.y <= Cols, NEW k
  PROVE  Sound(ClearLine([w |-> w, t |-> t], n).w) /\ Sound(DeleteUnder([w |-> w, t |-> t], k).w)
<1>1. /\ Inside(w, w.x, 1) /\ Inside(w, w.x, w.y) /\ Inside(w, w.x, Cols)
  BY LineFact, ColumnFact, ColsAssumption DEF Inside
<1>2. /\ Sound(EraseVideo(w, w.x, w.x, w.y, Cols)) /\ Sound(EraseVideo(w, w.x, w.x, 1, w.y))
      /\ Sound(EraseVideo(w, w.x, w.x, 1, Cols)) /\ Sound(EraseVideo(w, w.x, w.x, w.y, w.y))
  BY <1>1, EraseVideoSound
<1>3. ClearLine([w |-> w, t |-> t], n).w \in
        {w, EraseVideo(w, w.x, w.x, w.y, Cols), EraseVideo(w, w.x, w.x, 1, w.y),
         EraseVideo(w, w.x, w.x, 1, Cols)}
  BY DEF ClearLine
<1>4. DeleteUnder([w |-> w, t |-> t], k).w = EraseVideo(w, w.x, w.x, w.y, w.y)
  BY DEF DeleteUnder
<1> QED BY <1>2, <1>3, <1>4

------------------------------------------------------------------------------
LEMMA ResetWinSound ==
  ASSUME NEW w, Sound(w)
  PROVE  Sound(ResetWin(w))
<1> DEFINE v == ResetWin(w)
<1>1. v \in WindowOf(w.rows)
  <2>1. w.rows \in Nat /\ w.rows >= 3 /\ w \in WindowOf(w.rows)
    BY DEF Sound
  <2>2. 1 \in 1 .. w.rows /\ 1 \in Nat \ {0} /\ w.rows \in 1 .. w.rows /\ {} \in SUBSET Attributes
    BY <2>1
  <2> QED BY <2>1, <2>2 DEF WindowOf, ResetWin, Colours
<1>2. v.rows = w.rows /\ v.sx = 0 /\ v.up = 1 /\ v.low = w.rows
  BY DEF Sound, WindowOf, ResetWin
<1> HIDE DEF v
<1>3. Sound(v)
  BY <1>1, <1>2 DEF Sound
<1> QED BY <1>3 DEF v

------------------------------------------------------------------------------
(* What is asked of an item so that nothing is written outside: the cursor *)
(* is not past the margin where it is used as a place, a region is longer  *)
(* than a line, and what is restored has been saved.                       *)
Harmless(w, c) ==
    /\ c.op \in {"K", "P", "ESC H", "g"} => w.y <= Cols
    /\ c.op = "r" => Between(1, c.n, w.rows + 1) # Between(0, c.m, w.rows)
    /\ c.op = "ESC 8" => w.sx > 0

(* The handlers together: whatever harmless item a program writes, its     *)
(* window stays sound (vt_write and what it calls, vt100.c).               *)
THEOREM HandledSound ==
  ASSUME NEW w, NEW t, Sound(w), NEW c \in [op : Ops, n : Nat, m : Nat], Harmless(w, c)
  PROVE  Sound(Handled([w |-> w, t |-> t], c).w)
<1> DEFINE s == [w |-> w, t |-> t]
<1>0. s.w = w /\ Sound(s.w) /\ c.n \in Nat /\ c.m \in Nat
  OBVIOUS
<1>1. CASE c.op = "char"
  BY <1>0, <1>1, CharacterSound DEF Handled
<1>2. CASE c.op = "nl" \/ c.op = "ESC D"
  BY <1>0, <1>2, AdvanceSound DEF Handled, NewLine
<1>3. CASE c.op = "cr"
  BY <1>0, <1>3, ColumnSound DEF Handled, Return
<1>4. CASE c.op = "bs"
  BY <1>0, <1>4, BackSpaceSound DEF Handled
<1>5. CASE c.op = "tab"
  BY <1>0, <1>5, TabOnSound DEF Handled
<1>6. CASE c.op = "ESC M"
  BY <1>0, <1>6, ReverseIndexSound DEF Handled
<1>7. CASE c.op = "ESC E"
  <2>1. Handled(s, c).w = [Advance(w) EXCEPT !.y = 1]
    BY <1>7 DEF Handled, NextLine
  <2> QED BY <2>1, AdvanceSound, ColumnSound
<1>8. CASE c.op = "ESC 7"
  <2>1. Handled(s, c).w = [w EXCEPT !.sx = w.x, !.sy = w.y, !.sattr = w.attr]
    BY <1>8 DEF Handled, SaveIt
  <2> DEFINE v == [w EXCEPT !.sx = w.x, !.sy = w.y, !.sattr = w.attr]
  <2>2. v \in WindowOf(w.rows)
    <3>1. w.x \in Nat /\ w.y \in Nat
      BY RowsFact, LineFact, ColumnFact
    <3>2. w.attr \in SUBSET Attributes /\ w \in WindowOf(w.rows)
      BY DEF Sound, WindowOf
    <3> QED BY <3>1, <3>2 DEF WindowOf
  <2>3. v.rows = w.rows /\ v.up = w.up /\ v.low = w.low /\ v.sx = w.x /\ v.sy = w.y
    BY DEF Sound, WindowOf
  <2> HIDE DEF v
  <2>4. Sound(v)
    BY <2>2, <2>3, ColumnFact DEF Sound
  <2> QED BY <2>1, <2>4 DEF v
<1>9. CASE c.op = "ESC 8"
  BY <1>0, <1>9, RestoreItSound DEF Handled, Harmless
<1>10. CASE c.op \in {"ESC =", "ESC >", "ESC (0", "ESC (B"}
  <2>1. ASSUME NEW k \in {"normal", "application"} PROVE Sound([w EXCEPT !.keys = k])
    BY DEF Sound, WindowOf
  <2>2. ASSUME NEW k \in {"US", "graphics"} PROVE Sound([w EXCEPT !.charset = k])
    BY DEF Sound, WindowOf
  <2>3. Handled(s, c).w \in {[w EXCEPT !.keys = "normal"], [w EXCEPT !.keys = "application"],
                             [w EXCEPT !.charset = "US"], [w EXCEPT !.charset = "graphics"]}
    BY <1>10 DEF Handled, KeyState, AltCharset
  <2> QED BY <2>1, <2>2, <2>3
<1>11. CASE c.op = "ESC H" \/ c.op = "g"
  BY <1>0, <1>11, TabsSound DEF Handled, Harmless
<1>12. CASE c.op = "ESC c"
  BY <1>0, <1>12, ResetWinSound DEF Handled
<1>13. CASE c.op = "r"
  BY <1>0, <1>13, ScrollRegionSound DEF Handled, Harmless
<1>14. CASE c.op \in {"A", "B", "C", "D", "H"}
  BY <1>0, <1>14, MovesSound DEF Handled
<1>15. CASE c.op = "m"
  BY <1>0, <1>15, AttributesSound DEF Handled
<1>16. CASE c.op = "J"
  BY <1>0, <1>16, ClearScreenSound DEF Handled
<1>17. CASE c.op = "K" \/ c.op = "P"
  BY <1>0, <1>17, ClearLineSound DEF Handled, Harmless
<1>18. CASE c.op = "M" \/ c.op = "L"
  BY <1>0, <1>18, ScrollVideoSound DEF Handled, DeleteLines, InsertLines
<1>19. CASE c.op = "@"
  <2>1. Count(c.n) \in Nat
    BY DEF Count
  <2> QED BY <1>19, <2>1, RShiftVideoSound DEF Handled, InsertBlanks
<1> QED
  BY <1>1, <1>2, <1>3, <1>4, <1>5, <1>6, <1>7, <1>8, <1>9, <1>10, <1>11, <1>12, <1>13, <1>14, <1>15,
     <1>16, <1>17, <1>18, <1>19 DEF Ops

------------------------------------------------------------------------------
(* The terminal.                                                           *)

TermOf(r) ==
  [rows : {r}, x : 1 .. r, y : 1 .. Cols, top : 1 .. r, bottom : 1 .. r, cell : Screen(r),
   attr : SUBSET Attributes, keys : {"normal", "application"}, charset : {"US", "graphics"},
   colour : Colours, saved : [x : 1 .. r, y : 1 .. Cols, attr : SUBSET Attributes]]

(* Nothing has changed but the cursor's place and cells.                   *)
Steady(t, u) ==
  /\ u.top = t.top /\ u.bottom = t.bottom /\ u.saved = t.saved
  /\ u.attr = t.attr /\ u.keys = t.keys /\ u.charset = t.charset

LEMMA TermFact ==
  ASSUME NEW r, NEW t \in TermOf(r)
  PROVE  /\ t.rows = r /\ t.x \in 1 .. r /\ t.y \in 1 .. Cols /\ t.top \in 1 .. r /\ t.bottom \in 1 .. r
         /\ t.cell \in Screen(r) /\ t.attr \in SUBSET Attributes
         /\ t.saved.x \in 1 .. r /\ t.saved.y \in 1 .. Cols /\ t.saved.attr \in SUBSET Attributes
BY DEF TermOf

CursorAt(t, x, y) == [t EXCEPT !.x = x, !.y = y]

LEMMA Placed ==
  ASSUME NEW r, NEW t \in TermOf(r), NEW x \in 1 .. r, NEW y \in 1 .. Cols, NEW u, u = CursorAt(t, x, y)
  PROVE  u \in TermOf(r) /\ u.x = x /\ u.y = y /\ u.cell = t.cell /\ Steady(t, u)
BY DEF TermOf, Steady, CursorAt

LEMMA Celled ==
  ASSUME NEW r, NEW t \in TermOf(r), NEW cell \in Screen(r), NEW u, u = [t EXCEPT !.cell = cell]
  PROVE  u \in TermOf(r) /\ u.x = t.x /\ u.y = t.y /\ u.cell = cell /\ Steady(t, u)
BY DEF TermOf, Steady

LEMMA BetweenIs ==
  ASSUME NEW low \in Int, NEW high \in Int, low <= high, NEW n \in Int
  PROVE  /\ Between(low, n, high) \in low .. high
         /\ low <= n /\ n <= high => Between(low, n, high) = n
         /\ n <= low => Between(low, n, high) = low
         /\ n >= high => Between(low, n, high) = high
BY DEF Between

LEMMA GotoIs ==
  ASSUME NEW r \in Nat, NEW t \in TermOf(r), NEW row \in Int, NEW col \in Int, NEW u, u = Goto(t, row, col)
  PROVE  /\ u \in TermOf(r) /\ u.x = Between(1, row, r) /\ u.y = Between(1, col, Cols)
         /\ u.cell = t.cell /\ Steady(t, u)
<1>1. r >= 1 /\ Cols \in Int /\ Cols >= 1
  BY TermFact, ColsAssumption
<1>2. Between(1, row, r) \in 1 .. r /\ Between(1, col, Cols) \in 1 .. Cols
  BY <1>1, BetweenIs
<1>3. t.rows = r
  BY TermFact
<1>4. PICK x, y : x = Between(1, row, r) /\ y = Between(1, col, Cols)
  OBVIOUS
<1>5. x \in 1 .. r /\ y \in 1 .. Cols /\ u = CursorAt(t, x, y)
  BY <1>2, <1>3, <1>4 DEF Goto, CursorAt
<1>6. u \in TermOf(r) /\ u.x = x /\ u.y = y /\ u.cell = t.cell /\ Steady(t, u)
  BY <1>5, Placed
<1> QED BY <1>4, <1>6

LEMMA CRIs ==
  ASSUME NEW r \in Nat, NEW t \in TermOf(r), NEW u, u = CR(t)
  PROVE  u \in TermOf(r) /\ u.x = t.x /\ u.y = 1 /\ u.cell = t.cell /\ Steady(t, u)
<1>1. 1 \in 1 .. Cols /\ t.x \in 1 .. r
  BY TermFact, ColsAssumption
<1>2. PICK x : x = t.x
  OBVIOUS
<1>3. u = CursorAt(t, x, 1)
  BY <1>2 DEF CR, TermOf, CursorAt
<1>4. u \in TermOf(r) /\ u.x = x /\ u.y = 1 /\ u.cell = t.cell /\ Steady(t, u)
  BY <1>1, <1>2, <1>3, Placed
<1> QED BY <1>2, <1>4

LEMMA RolledIs ==
  ASSUME NEW r \in Nat, NEW cell \in Screen(r), NEW a \in 1 .. r, NEW b \in 1 .. r
  PROVE  /\ RolledUp(cell, a, b) \in Screen(r) /\ RolledDown(cell, a, b) \in Screen(r)
         /\ \A i \in 1 .. r : RolledUp(cell, a, b)[i] =
              IF i \in a .. (b - 1) THEN cell[i + 1] ELSE IF i = b /\ a <= b THEN BlankRow ELSE cell[i]
         /\ \A i \in 1 .. r : RolledDown(cell, a, b)[i] =
              IF i \in (a + 1) .. b THEN cell[i - 1] ELSE IF i = a /\ a <= b THEN BlankRow ELSE cell[i]
<1>1. DOMAIN cell = 1 .. r
  BY DEF Screen
<1>2. RolledUp(cell, a, b) \in Screen(r) /\ RolledDown(cell, a, b) \in Screen(r)
  BY Rolled
<1> QED BY <1>1, <1>2 DEF RolledUp, RolledDown

LEMMA LFIs ==
  ASSUME NEW r \in Nat, NEW t \in TermOf(r), NEW u, u = LF(t)
  PROVE  /\ u \in TermOf(r) /\ Steady(t, u) /\ u.y = t.y
         /\ t.x = t.bottom => u.x = t.x /\ u.cell = RolledUp(t.cell, t.top, t.bottom)
         /\ t.x # t.bottom => u.x = Between(1, t.x + 1, r) /\ u.cell = t.cell
<1>1. /\ t.top \in 1 .. r /\ t.bottom \in 1 .. r /\ t.cell \in Screen(r) /\ t.x \in 1 .. r
      /\ t.y \in 1 .. Cols
  BY TermFact
<1>2. CASE t.x = t.bottom
  <2>1. u = [t EXCEPT !.cell = RolledUp(t.cell, t.top, t.bottom)]
    BY <1>2 DEF LF
  <2>2. RolledUp(t.cell, t.top, t.bottom) \in Screen(r)
    BY <1>1, RolledIs
  <2> QED BY <1>2, <2>1, <2>2, Celled
<1>3. CASE t.x # t.bottom
  <2>1. u = Goto(t, t.x + 1, t.y)
    BY <1>3 DEF LF
  <2>2. t.x + 1 \in Int /\ t.y \in Int /\ Between(1, t.y, Cols) = t.y
    BY <1>1, ColsAssumption DEF Between
  <2> QED BY <1>3, <2>1, <2>2, GotoIs
<1> QED BY <1>2, <1>3

LEMMA RevScrollIs ==
  ASSUME NEW r \in Nat, NEW t \in TermOf(r), NEW u, u = RevScroll(t)
  PROVE  /\ u \in TermOf(r) /\ Steady(t, u) /\ u.y = t.y
         /\ t.x = t.top => u.x = t.x /\ u.cell = RolledDown(t.cell, t.top, t.bottom)
         /\ t.x # t.top => u.x = Between(1, t.x - 1, r) /\ u.cell = t.cell
<1>1. /\ t.top \in 1 .. r /\ t.bottom \in 1 .. r /\ t.cell \in Screen(r) /\ t.x \in 1 .. r
      /\ t.y \in 1 .. Cols
  BY TermFact
<1>2. CASE t.x = t.top
  <2>1. u = [t EXCEPT !.cell = RolledDown(t.cell, t.top, t.bottom)]
    BY <1>2 DEF RevScroll
  <2>2. RolledDown(t.cell, t.top, t.bottom) \in Screen(r)
    BY <1>1, RolledIs
  <2> QED BY <1>2, <2>1, <2>2, Celled
<1>3. CASE t.x # t.top
  <2>1. u = Goto(t, t.x - 1, t.y)
    BY <1>3 DEF RevScroll
  <2>2. t.x - 1 \in Int /\ t.y \in Int /\ Between(1, t.y, Cols) = t.y
    BY <1>1, ColsAssumption DEF Between
  <2> QED BY <1>3, <2>1, <2>2, GotoIs
<1> QED BY <1>2, <1>3

LEMMA PutIs ==
  ASSUME NEW r \in Nat, NEW t \in TermOf(r), NEW c \in Cells, NEW u, u = Put(t, c)
  PROVE  /\ u \in TermOf(r) /\ Steady(t, u) /\ u.x = t.x /\ u.y = Between(1, t.y + 1, Cols)
         /\ u.cell = [t.cell EXCEPT ![t.x][t.y] = c]
<1>1. t.cell \in Screen(r) /\ t.x \in 1 .. r /\ t.y \in 1 .. Cols
  BY TermFact
<1>2. PICK cell : cell = [t.cell EXCEPT ![t.x][t.y] = c]
  OBVIOUS
<1>3. cell \in Screen(r)
  BY <1>1, <1>2 DEF Screen
<1>4. PICK v : v = [t EXCEPT !.cell = cell]
  OBVIOUS
<1>5. v \in TermOf(r) /\ v.x = t.x /\ v.y = t.y /\ v.cell = cell /\ Steady(t, v)
  BY <1>3, <1>4, Celled
<1>6. PICK x, y : x = t.x /\ y = Between(1, t.y + 1, Cols)
  OBVIOUS
<1>7. x \in 1 .. r /\ y \in 1 .. Cols
  BY <1>1, <1>6, ColsAssumption DEF Between
<1>8. u = CursorAt(v, x, y)
  BY <1>1, <1>2, <1>4, <1>6 DEF Put, TermOf, CursorAt
<1>9. u \in TermOf(r) /\ u.x = x /\ u.y = y /\ u.cell = v.cell /\ Steady(v, u)
  BY <1>5, <1>7, <1>8, Placed
<1> QED BY <1>2, <1>5, <1>6, <1>9 DEF Steady

(* A region of two lines of the screen is set, and the cursor goes home.    *)
LEMMA SetScrollIs ==
  ASSUME NEW r \in Nat, NEW t \in TermOf(r), NEW a \in 1 .. r, NEW b \in 1 .. r, a < b, NEW u,
         u = SetScroll(t, a, b)
  PROVE  /\ u \in TermOf(r) /\ u.top = a /\ u.bottom = b /\ u.cell = t.cell /\ u.saved = t.saved
         /\ u.attr = t.attr /\ u.keys = t.keys /\ u.charset = t.charset
<1>1. t.rows = r
  BY TermFact
<1>2. PICK v : v = [t EXCEPT !.top = a, !.bottom = b]
  OBVIOUS
<1>3. /\ v \in TermOf(r) /\ v.top = a /\ v.bottom = b /\ v.cell = t.cell /\ v.saved = t.saved
      /\ v.attr = t.attr /\ v.keys = t.keys /\ v.charset = t.charset
  BY <1>2 DEF TermOf
<1>4. u = Goto(v, 1, 1)
  BY <1>1, <1>2 DEF SetScroll, Home
<1>5. u \in TermOf(r) /\ u.cell = v.cell /\ Steady(v, u)
  BY <1>3, <1>4, GotoIs
<1> QED BY <1>3, <1>5 DEF Steady

(* What erases within the line of the cursor.                              *)
Erased(line, y1, y2) == [j \in 1 .. Cols |-> IF j \in y1 .. y2 THEN {} ELSE line[j]]

LEMMA EraseIs ==
  ASSUME NEW r \in Nat, NEW t \in TermOf(r), NEW from, NEW to, NEW u, u = EraseCells(t, from, to)
  PROVE  /\ u \in TermOf(r) /\ Steady(t, u) /\ u.x = t.x /\ u.y = t.y
         /\ \A i \in 1 .. r : i # t.x => u.cell[i] = t.cell[i]
         /\ u.cell[t.x] = Erased(t.cell[t.x], from, to)
<1>1. t.cell \in Screen(r) /\ t.x \in 1 .. r /\ t.y \in 1 .. Cols
  BY TermFact
<1>2. PICK line : line = [j \in 1 .. Cols |-> IF j \in from .. to THEN {} ELSE t.cell[t.x][j]]
  OBVIOUS
<1>3. line \in [1 .. Cols -> Cells]
  <2>1. {} \in Cells
    BY DEF Cells
  <2> QED BY <1>1, <1>2, <2>1 DEF Screen
<1>4. PICK cell : cell = [t.cell EXCEPT ![t.x] = line]
  OBVIOUS
<1>5. cell \in Screen(r) /\ cell[t.x] = line /\ \A i \in 1 .. r : i # t.x => cell[i] = t.cell[i]
  BY <1>1, <1>3, <1>4 DEF Screen
<1>6. u = [t EXCEPT !.cell = cell]
  BY <1>2, <1>4 DEF EraseCells
<1>7. u \in TermOf(r) /\ u.x = t.x /\ u.y = t.y /\ u.cell = cell /\ Steady(t, u)
  BY <1>5, <1>6, Celled
<1> QED BY <1>2, <1>5, <1>7 DEF Erased

LEMMA SaveCursorIs ==
  ASSUME NEW r \in Nat, NEW t \in TermOf(r), NEW u, u = SaveCursor(t)
  PROVE  /\ u \in TermOf(r) /\ u.x = t.x /\ u.y = t.y /\ u.cell = t.cell /\ u.top = t.top /\ u.bottom = t.bottom
         /\ u.attr = t.attr /\ u.keys = t.keys /\ u.charset = t.charset
         /\ u.saved.x = t.x /\ u.saved.y = t.y /\ u.saved.attr = t.attr
BY DEF SaveCursor, TermOf

LEMMA RestCursorIs ==
  ASSUME NEW r \in Nat, NEW t \in TermOf(r), NEW u, u = RestCursor(t)
  PROVE  /\ u \in TermOf(r) /\ u.x = t.saved.x /\ u.y = t.saved.y /\ u.cell = t.cell /\ u.top = t.top /\ u.bottom = t.bottom
         /\ u.attr = t.saved.attr /\ u.keys = t.keys /\ u.charset = t.charset /\ u.saved = t.saved
<1>1. t.saved.x \in 1 .. r /\ t.saved.y \in 1 .. Cols /\ t.saved.attr \in SUBSET Attributes
  BY TermFact
<1>2. PICK v : v = Goto(t, t.saved.x, t.saved.y)
  OBVIOUS
<1>3. Between(1, t.saved.x, r) = t.saved.x /\ Between(1, t.saved.y, Cols) = t.saved.y
  BY <1>1, ColsAssumption DEF Between
<1>4. v \in TermOf(r) /\ v.x = t.saved.x /\ v.y = t.saved.y /\ v.cell = t.cell /\ Steady(t, v)
  BY <1>1, <1>2, <1>3, GotoIs
<1>5. u = [v EXCEPT !.attr = t.saved.attr]
  BY <1>2 DEF RestCursor
<1> QED BY <1>1, <1>4, <1>5 DEF TermOf, Steady

(* Modes.                                                                  *)
LEMMA AttrIs ==
  ASSUME NEW r \in Nat, NEW t \in TermOf(r), NEW attr \in SUBSET Attributes, NEW colour \in Colours, NEW u,
         u \in {[t EXCEPT !.attr = attr], [t EXCEPT !.attr = attr, !.colour = colour]}
  PROVE  /\ u \in TermOf(r) /\ u.attr = attr /\ u.x = t.x /\ u.y = t.y /\ u.cell = t.cell
         /\ u.top = t.top /\ u.bottom = t.bottom /\ u.saved = t.saved
         /\ u.keys = t.keys /\ u.charset = t.charset
BY DEF TermOf

------------------------------------------------------------------------------
(* A window and the terminal that shows it.                                *)

Lit(a) == {{}, {a}}
Shades(a) == {{}, {"char"}, {"char", a}}
Column(y) == IF y > Cols THEN Cols ELSE y

(* Only one attribute is in use in the window.                             *)
Tame(a, w) ==
  /\ w.attr \in Lit(a) /\ w.sattr \in Lit(a)
  /\ \A i \in 1 .. w.rows : \A j \in 1 .. Cols : w.mem[i][j] \in Shades(a)

(* The terminal has the cursor, the region and the modes of the window.    *)
Follows(w, t) ==
  /\ t.x = w.x + w.off /\ t.y = Column(w.y)
  /\ t.top = w.up + w.off /\ t.bottom = w.low + w.off
  /\ t.attr = w.attr /\ t.keys = w.keys /\ t.charset = w.charset

(* The window's lines of the terminal show its memory.                     *)
Shows(w, t) == \A i \in 1 .. w.rows : t.cell[w.off + i] = w.mem[i]

Mirrored(a, r, s) ==
  /\ r \in Nat /\ a \in Attributes /\ s = [w |-> s.w, t |-> s.t]
  /\ Sound(s.w) /\ Tame(a, s.w) /\ s.t \in TermOf(r) /\ s.w.off + s.w.rows <= r
  /\ Follows(s.w, s.t) /\ Shows(s.w, s.t)

(* No line outside the window's has changed.                               *)
Beside(w, t, u) ==
  \A i \in 1 .. t.rows : i \notin (w.off + 1) .. (w.off + w.rows) => u.cell[i] = t.cell[i]

(* What a handler is to leave behind.                                      *)
After(a, r, s, z) ==
  /\ Tame(a, z.w) /\ z.t \in TermOf(r) /\ z.w.off = s.w.off /\ z.w.rows = s.w.rows
  /\ Follows(z.w, z.t) /\ Shows(z.w, z.t) /\ Beside(s.w, s.t, z.t)

(* What the handlers that move the cursor or write leave alone.            *)
Kin(w, v) ==
  /\ v.off = w.off /\ v.rows = w.rows /\ v.up = w.up /\ v.low = w.low
  /\ v.attr = w.attr /\ v.keys = w.keys /\ v.charset = w.charset

LEMMA MirrorFact ==
  ASSUME NEW a, NEW r, NEW s, Mirrored(a, r, s)
  PROVE  /\ r \in Nat /\ Cols \in Nat /\ Cols >= 1 /\ s.w.off \in Nat /\ s.w.rows \in Nat /\ s.w.rows >= 3
         /\ s.w.off + s.w.rows <= r
         /\ s.w.x \in 1 .. s.w.rows /\ s.w.y \in Nat \ {0}
         /\ s.w.up \in 1 .. s.w.rows /\ s.w.low \in 1 .. s.w.rows /\ s.w.up < s.w.low
         /\ s.t.x = s.w.x + s.w.off /\ s.t.y = Column(s.w.y)
         /\ s.t.top = s.w.up + s.w.off /\ s.t.bottom = s.w.low + s.w.off
         /\ s.t.x \in 1 .. r /\ s.t.y \in 1 .. Cols
<1>1. Sound(s.w) /\ s.t \in TermOf(r) /\ r \in Nat /\ s.w.off + s.w.rows <= r /\ Follows(s.w, s.t)
  BY DEF Mirrored
<1>2. s.w.off \in Nat
  BY <1>1 DEF Sound, WindowOf
<1>3. s.t.x \in 1 .. r /\ s.t.y \in 1 .. Cols
  BY <1>1, TermFact
<1>4. Cols \in Nat /\ Cols >= 1
  BY ColsAssumption
<1> QED BY <1>1, <1>2, <1>3, <1>4, RowsFact, LineFact, ColumnFact, RegionFact DEF Follows

LEMMA WindowAt ==
  ASSUME NEW w, Sound(w), NEW x, NEW y, NEW v, v = CursorAt(w, x, y)
  PROVE  Kin(w, v) /\ v.sattr = w.sattr /\ v.mem = w.mem /\ v.x = x /\ v.y = y
BY DEF Sound, WindowOf, CursorAt, Kin

(* The cursor alone has moved.                                             *)
LEMMA Moved ==
  ASSUME NEW a, NEW r, NEW s, Mirrored(a, r, s), NEW z,
         Kin(s.w, z.w), z.w.sattr \in Lit(a), z.w.mem = s.w.mem,
         z.t \in TermOf(r), Steady(s.t, z.t), z.t.cell = s.t.cell,
         z.t.x = z.w.x + s.w.off, z.t.y = Column(z.w.y)
  PROVE  After(a, r, s, z)
<1>1. Tame(a, z.w)
  BY DEF Mirrored, Tame, Kin
<1>2. Follows(z.w, z.t)
  BY DEF Mirrored, Follows, Kin, Steady
<1>3. Shows(z.w, z.t)
  BY DEF Mirrored, Shows, Kin
<1>4. Beside(s.w, s.t, z.t)
  BY DEF Beside
<1> QED BY <1>1, <1>2, <1>3, <1>4 DEF After, Kin

LEMMA Went ==
  ASSUME NEW a, NEW r, NEW s, Mirrored(a, r, s), NEW z, NEW x, NEW y,
         z.w = CursorAt(s.w, x, y),
         z.t \in TermOf(r), Steady(s.t, z.t), z.t.cell = s.t.cell,
         z.t.x = x + s.w.off, z.t.y = Column(y)
  PROVE  After(a, r, s, z)
<1>1. Sound(s.w) /\ s.w.sattr \in Lit(a)
  BY DEF Mirrored, Tame
<1>2. Kin(s.w, z.w) /\ z.w.sattr = s.w.sattr /\ z.w.mem = s.w.mem /\ z.w.x = x /\ z.w.y = y
  BY <1>1, WindowAt
<1> QED BY <1>1, <1>2, Moved

(* The cursor is sent to where the window's is.                            *)
LEMMA WentTo ==
  ASSUME NEW a, NEW r, NEW s, Mirrored(a, r, s), NEW z, NEW x \in Int, NEW y \in Int, NEW row \in Int, NEW col \in Int,
         z.w = CursorAt(s.w, x, y), z.t = Goto(s.t, row, col),
         Between(1, row, r) = x + s.w.off, Between(1, col, Cols) = Column(y)
  PROVE  After(a, r, s, z)
<1>1. r \in Nat /\ s.t \in TermOf(r)
  BY DEF Mirrored
<1>2. PICK u : u = z.t
  OBVIOUS
<1>3. /\ u \in TermOf(r) /\ u.x = Between(1, row, r) /\ u.y = Between(1, col, Cols)
      /\ u.cell = s.t.cell /\ Steady(s.t, u)
  <2>1. PICK t : t = s.t
    OBVIOUS
  <2>2. t \in TermOf(r) /\ u = Goto(t, row, col)
    BY <1>1, <1>2, <2>1
  <2>3. r \in Nat /\ row \in Int /\ col \in Int
    BY <1>1
  <2>4. /\ u \in TermOf(r) /\ u.x = Between(1, row, r) /\ u.y = Between(1, col, Cols)
        /\ u.cell = t.cell /\ Steady(t, u)
    BY ONLY <2>2, <2>3, GotoIs
  <2> QED BY ONLY <2>1, <2>4
<1> QED BY <1>2, <1>3, Went

LEMMA ReturnAfter ==
  ASSUME NEW a, NEW r, NEW s, Mirrored(a, r, s), NEW z, z = Return(s)
  PROVE  After(a, r, s, z)
<1>1. PICK x : x = s.w.x
  OBVIOUS
<1>2. z.w = CursorAt(s.w, x, 1)
  BY <1>1 DEF Return, CursorAt, Mirrored, Sound, WindowOf
<1>3. z.t = CR(s.t) /\ r \in Nat /\ s.t \in TermOf(r)
  BY DEF Return, Mirrored
<1>4. z.t \in TermOf(r) /\ z.t.x = s.t.x /\ z.t.y = 1 /\ z.t.cell = s.t.cell /\ Steady(s.t, z.t)
  BY <1>3, CRIs
<1>5. s.t.x = x + s.w.off /\ Column(1) = 1
  BY <1>1, MirrorFact DEF Column
<1> QED BY <1>2, <1>4, <1>5, Went

LEMMA Sent ==
  ASSUME NEW a, NEW r, NEW s, Mirrored(a, r, s), NEW z, NEW x \in 1 .. s.w.rows, NEW y \in Nat \ {0},
         z.w = CursorAt(s.w, x, y), z.t = Goto(s.t, x + s.w.off, y)
  PROVE  After(a, r, s, z)
<1>1. PICK row : row = x + s.w.off
  OBVIOUS
<1>2. x \in Int /\ y \in Int /\ row \in Int
  BY <1>1, MirrorFact
<1>3. Between(1, row, r) = x + s.w.off /\ Between(1, y, Cols) = Column(y)
  BY <1>1, MirrorFact DEF Between, Column
<1> QED BY <1>1, <1>2, <1>3, WentTo

(* Nothing is sent, and nothing but what is saved and the tabs changes.    *)
LEMMA Silent ==
  ASSUME NEW a, NEW r, NEW s, Mirrored(a, r, s), NEW z,
         Kin(s.w, z.w), z.w.sattr \in Lit(a), z.w.mem = s.w.mem, z.w.x = s.w.x, z.w.y = s.w.y, z.t = s.t
  PROVE  After(a, r, s, z)
<1>1. z.t.x = z.w.x + s.w.off /\ z.t.y = Column(z.w.y) /\ z.t \in TermOf(r) /\ z.t.cell = s.t.cell
  BY MirrorFact DEF Mirrored
<1>2. Steady(s.t, z.t)
  BY DEF Steady
<1> QED BY <1>1, <1>2, Moved

LEMMA Unchanged ==
  ASSUME NEW a, NEW r, NEW s, Mirrored(a, r, s)
  PROVE  After(a, r, s, s)
<1>1. s.w.sattr \in Lit(a)
  BY DEF Mirrored, Tame
<1> QED BY <1>1, Silent DEF Kin

LEMMA BackSpaceAfter ==
  ASSUME NEW a, NEW r, NEW s, Mirrored(a, r, s), s.w.y <= Cols, NEW z, z = BackSpace(s)
  PROVE  After(a, r, s, z)
<1>1. CASE s.w.y # 1
  <2>1. PICK x, y, row, col : x = s.w.x /\ y = s.w.y - 1 /\ row = s.t.x /\ col = s.t.y - 1
    OBVIOUS
  <2>2. x \in Int /\ y \in Int /\ row \in Int /\ col \in Int
    BY <2>1, MirrorFact
  <2>3. Between(1, row, r) = x + s.w.off /\ Between(1, col, Cols) = Column(y)
    BY <1>1, <2>1, MirrorFact DEF Between, Column
  <2>4. z.w = CursorAt(s.w, x, y)
    BY <1>1, <2>1 DEF BackSpace, CursorAt, Mirrored, Sound, WindowOf
  <2>5. z.t = Goto(s.t, row, col)
    BY <1>1, <2>1 DEF BackSpace, Left, Count
  <2> QED BY <2>2, <2>3, <2>4, <2>5, WentTo
<1>2. CASE s.w.y = 1
  BY <1>2, Unchanged DEF BackSpace
<1> QED BY <1>1, <1>2

LEMMA NextTabBeyond ==
  ASSUME NEW w, Sound(w)
  PROVE  NextTab(w) \in Nat /\ NextTab(w) > w.y
<1> DEFINE stops == {j \in w.tabs : j > w.y} \cup {j \in {Cols} : j > w.y}
<1>1. stops \subseteq Nat /\ w.y \in Nat /\ \A j \in stops : j > w.y
  <2>1. w.tabs \subseteq 1 .. Cols /\ w.y \in Nat \ {0} /\ Cols \in Nat \ {0}
    BY TabsFact, ColumnFact, ColsAssumption
  <2> QED BY <2>1
<1>2. NextTab(w) = IF stops = {} THEN w.y + 1 ELSE CHOOSE j \in stops : \A k \in stops : j <= k
  BY DEF NextTab
<1> HIDE DEF stops
<1>3. CASE stops # {}
  <2>1. \E j \in stops : \A k \in stops : j <= k
    BY <1>1, <1>3, Least
  <2>2. (CHOOSE j \in stops : \A k \in stops : j <= k) \in stops
    BY <2>1
  <2> QED BY <1>1, <1>2, <1>3, <2>2
<1> QED BY <1>1, <1>2, <1>3

LEMMA TabOnAfter ==
  ASSUME NEW a, NEW r, NEW s, Mirrored(a, r, s), NEW z, z = TabOn(s)
  PROVE  After(a, r, s, z)
<1>1. PICK x, y, row, col : x = s.w.x /\ y = NextTab(s.w) /\ row = s.t.x /\ col = s.t.y + (NextTab(s.w) - s.w.y)
  OBVIOUS
<1>2. y \in Nat /\ y > s.w.y
  BY <1>1, NextTabBeyond DEF Mirrored
<1>3. x \in Int /\ y \in Int /\ row \in Int /\ col \in Int
  BY <1>1, <1>2, MirrorFact
<1>4. Between(1, row, r) = x + s.w.off /\ Between(1, col, Cols) = Column(y)
  BY <1>1, <1>2, MirrorFact DEF Between, Column
<1>5. z.w = CursorAt(s.w, x, y)
  BY <1>1 DEF TabOn, CursorAt, Mirrored, Sound, WindowOf
<1>6. z.t = Goto(s.t, row, col)
  BY <1>1, <1>2, MirrorFact DEF TabOn, Right, Count
<1> QED BY <1>3, <1>4, <1>5, <1>6, WentTo

LEMMA UpAfter ==
  ASSUME NEW a, NEW r, NEW s, Mirrored(a, r, s), NEW n \in Nat, NEW z, z = CursorUp(s, n)
  PROVE  After(a, r, s, z)
<1>1. CASE s.w.x = s.w.up
  BY <1>1, Unchanged DEF CursorUp
<1>2. CASE s.w.x # s.w.up /\ s.w.x - Count(n) > s.w.up
  <2>1. PICK x, y, row, col : x = s.w.x - Count(n) /\ y = s.w.y /\ row = s.t.x - Count(n) /\ col = s.t.y
    OBVIOUS
  <2>2. x \in Int /\ y \in Int /\ row \in Int /\ col \in Int
    BY <2>1, MirrorFact DEF Count
  <2>3. Between(1, row, r) = x + s.w.off /\ Between(1, col, Cols) = Column(y)
    <3>1. Count(n) \in Nat
      BY DEF Count
    <3>2. row = x + s.w.off /\ row \in 1 .. r /\ r \in Nat
      BY <1>2, <2>1, <3>1, MirrorFact
    <3>3. col = Column(y) /\ col \in 1 .. Cols /\ Cols \in Nat
      BY <2>1, MirrorFact
    <3> QED BY <3>2, <3>3 DEF Between
  <2>4. z.w = CursorAt(s.w, x, y)
    BY <1>2, <2>1 DEF CursorUp, CursorAt, Mirrored, Sound, WindowOf
  <2>5. z.t = Up(s.t, n)
    BY <1>2 DEF CursorUp
  <2>6. s.t.x >= s.t.top /\ Between(s.t.top, s.t.x - Count(n), s.t.x) = row
    BY <1>2, <2>1, MirrorFact DEF Between, Count
  <2>7. z.t = Goto(s.t, row, col)
    BY <2>1, <2>5, <2>6 DEF Up
  <2> QED BY <2>2, <2>3, <2>4, <2>7, WentTo
<1>3. CASE s.w.x # s.w.up /\ ~(s.w.x - Count(n) > s.w.up)
  <2>1. PICK x, y : x = s.w.up /\ y = s.w.y
    OBVIOUS
  <2>2. x \in 1 .. s.w.rows /\ y \in Nat \ {0}
    BY <2>1, MirrorFact
  <2>3. z = ToCursor([s EXCEPT !.w.x = x])
    BY <1>3, <2>1 DEF CursorUp
  <2>4. z.w = [s.w EXCEPT !.x = x] /\ s.w \in WindowOf(s.w.rows)
    BY <2>3 DEF ToCursor, Mirrored, Sound
  <2>5. z.w.x = x /\ z.w.y = y /\ z.w.off = s.w.off
    BY <2>1, <2>4 DEF WindowOf
  <2>6. z.t = Goto(s.t, z.w.x + z.w.off, z.w.y)
    BY <2>3 DEF ToCursor, Mirrored
  <2>7. z.w = CursorAt(s.w, x, y)
    BY <2>1, <2>4 DEF CursorAt, WindowOf
  <2> QED BY <2>2, <2>5, <2>6, <2>7, Sent
<1> QED BY <1>1, <1>2, <1>3

LEMMA DownAfter ==
  ASSUME NEW a, NEW r, NEW s, Mirrored(a, r, s), NEW n \in Nat, NEW z, z = CursorDown(s, n)
  PROVE  After(a, r, s, z)
<1>1. CASE s.w.x = s.w.low
  BY <1>1, Unchanged DEF CursorDown
<1>2. CASE s.w.x # s.w.low /\ s.w.x + Count(n) <= s.w.low
  <2>1. PICK x, y, row, col : x = s.w.x + Count(n) /\ y = s.w.y /\ row = s.t.x + Count(n) /\ col = s.t.y
    OBVIOUS
  <2>2. x \in Int /\ y \in Int /\ row \in Int /\ col \in Int
    BY <2>1, MirrorFact DEF Count
  <2>3. Between(1, row, r) = x + s.w.off /\ Between(1, col, Cols) = Column(y)
    BY <1>2, <2>1, MirrorFact DEF Between, Column, Count
  <2>4. z.w = CursorAt(s.w, x, y)
    BY <1>2, <2>1 DEF CursorDown, CursorAt, Mirrored, Sound, WindowOf
  <2>5. z.t = Down(s.t, n)
    BY <1>2 DEF CursorDown
  <2>6. s.t.x <= s.t.bottom /\ Between(s.t.x, s.t.x + Count(n), s.t.bottom) = row
    BY <1>2, <2>1, MirrorFact DEF Between, Count
  <2>7. z.t = Goto(s.t, row, col)
    BY <2>1, <2>5, <2>6 DEF Down
  <2> QED BY <2>2, <2>3, <2>4, <2>7, WentTo
<1>3. CASE s.w.x # s.w.low /\ ~(s.w.x + Count(n) <= s.w.low)
  <2>1. PICK x, y : x = s.w.low /\ y = s.w.y
    OBVIOUS
  <2>2. x \in 1 .. s.w.rows /\ y \in Nat \ {0}
    BY <2>1, MirrorFact
  <2>3. z = ToCursor([s EXCEPT !.w.x = x])
    BY <1>3, <2>1 DEF CursorDown
  <2>4. z.w = [s.w EXCEPT !.x = x] /\ s.w \in WindowOf(s.w.rows)
    BY <2>3 DEF ToCursor, Mirrored, Sound
  <2>5. z.w.x = x /\ z.w.y = y /\ z.w.off = s.w.off
    BY <2>1, <2>4 DEF WindowOf
  <2>6. z.t = Goto(s.t, z.w.x + z.w.off, z.w.y)
    BY <2>3 DEF ToCursor, Mirrored
  <2>7. z.w = CursorAt(s.w, x, y)
    BY <2>1, <2>4 DEF CursorAt, WindowOf
  <2> QED BY <2>2, <2>5, <2>6, <2>7, Sent
<1> QED BY <1>1, <1>2, <1>3

LEMMA RightAfter ==
  ASSUME NEW a, NEW r, NEW s, Mirrored(a, r, s), NEW n \in Nat, NEW z, z = CursorRight(s, n)
  PROVE  After(a, r, s, z)
<1>1. CASE s.w.y = Cols
  BY <1>1, Unchanged DEF CursorRight
<1>2. CASE s.w.y # Cols /\ s.w.y + Count(n) < Cols
  <2>1. PICK x, y, row, col : x = s.w.x /\ y = s.w.y + Count(n) /\ row = s.t.x /\ col = s.t.y + Count(n)
    OBVIOUS
  <2>2. x \in Int /\ y \in Int /\ row \in Int /\ col \in Int
    BY <2>1, MirrorFact DEF Count
  <2>3. Between(1, row, r) = x + s.w.off /\ Between(1, col, Cols) = Column(y)
    BY <1>2, <2>1, MirrorFact DEF Between, Column, Count
  <2>4. z.w = CursorAt(s.w, x, y)
    BY <1>2, <2>1 DEF CursorRight, CursorAt, Mirrored, Sound, WindowOf
  <2>5. z.t = Goto(s.t, row, col)
    BY <1>2, <2>1 DEF CursorRight, Right
  <2> QED BY <2>2, <2>3, <2>4, <2>5, WentTo
<1>3. CASE s.w.y # Cols /\ ~(s.w.y + Count(n) < Cols)
  <2>1. PICK x, y : x = s.w.x /\ y = Cols
    OBVIOUS
  <2>2. x \in 1 .. s.w.rows /\ y \in Nat \ {0}
    BY <2>1, MirrorFact
  <2>3. z = ToCursor([s EXCEPT !.w.y = y])
    BY <1>3, <2>1 DEF CursorRight
  <2>4. z.w = [s.w EXCEPT !.y = y] /\ s.w \in WindowOf(s.w.rows)
    BY <2>3 DEF ToCursor, Mirrored, Sound
  <2>5. z.w.x = x /\ z.w.y = y /\ z.w.off = s.w.off
    BY <2>1, <2>4 DEF WindowOf
  <2>6. z.t = Goto(s.t, z.w.x + z.w.off, z.w.y)
    BY <2>3 DEF ToCursor, Mirrored
  <2>7. z.w = CursorAt(s.w, x, y)
    BY <2>1, <2>4 DEF CursorAt, WindowOf
  <2> QED BY <2>2, <2>5, <2>6, <2>7, Sent
<1> QED BY <1>1, <1>2, <1>3

LEMMA LeftAfter ==
  ASSUME NEW a, NEW r, NEW s, Mirrored(a, r, s), s.w.y <= Cols, NEW n \in Nat, NEW z, z = CursorLeft(s, n)
  PROVE  After(a, r, s, z)
<1>1. CASE s.w.y = 1
  BY <1>1, Unchanged DEF CursorLeft
<1>2. CASE s.w.y # 1 /\ s.w.y - Count(n) > 1
  <2>1. PICK x, y, row, col : x = s.w.x /\ y = s.w.y - Count(n) /\ row = s.t.x /\ col = s.t.y - Count(n)
    OBVIOUS
  <2>2. x \in Int /\ y \in Int /\ row \in Int /\ col \in Int
    BY <2>1, MirrorFact DEF Count
  <2>3. Between(1, row, r) = x + s.w.off /\ Between(1, col, Cols) = Column(y)
    BY <1>2, <2>1, MirrorFact DEF Between, Column, Count
  <2>4. z.w = CursorAt(s.w, x, y)
    BY <1>2, <2>1 DEF CursorLeft, CursorAt, Mirrored, Sound, WindowOf
  <2>5. z.t = Goto(s.t, row, col)
    BY <1>2, <2>1 DEF CursorLeft, Left
  <2> QED BY <2>2, <2>3, <2>4, <2>5, WentTo
<1>3. CASE s.w.y # 1 /\ ~(s.w.y - Count(n) > 1)
  BY <1>3, ReturnAfter DEF CursorLeft
<1> QED BY <1>1, <1>2, <1>3

LEMMA MoveToAfter ==
  ASSUME NEW a, NEW r, NEW s, Mirrored(a, r, s), NEW n \in Nat, NEW m \in Nat, NEW z, z = MoveTo(s, n, m)
  PROVE  After(a, r, s, z)
<1>1. PICK x, y : /\ x = (IF Count(n) > s.w.rows THEN s.w.rows ELSE Count(n))
                  /\ y = (IF Count(m) > Cols THEN Cols ELSE Count(m))
  OBVIOUS
<1>2. x \in 1 .. s.w.rows /\ y \in Nat \ {0}
  BY <1>1, MirrorFact DEF Count
<1>3. z = ToCursor([s EXCEPT !.w.x = x, !.w.y = y])
  BY <1>1 DEF MoveTo
<1>4. z.w = CursorAt(s.w, x, y) /\ z.t = Goto(s.t, x + s.w.off, y)
  BY <1>3 DEF ToCursor, CursorAt, Mirrored, Sound, WindowOf
<1> QED BY <1>2, <1>4, Sent

LEMMA SaveItAfter ==
  ASSUME NEW a, NEW r, NEW s, Mirrored(a, r, s), NEW z, z = SaveIt(s)
  PROVE  After(a, r, s, z)
<1>1. z.w = [s.w EXCEPT !.sx = s.w.x, !.sy = s.w.y, !.sattr = s.w.attr] /\ z.t = s.t
  BY DEF SaveIt, Mirrored
<1>2. Kin(s.w, z.w) /\ z.w.sattr = s.w.attr /\ z.w.mem = s.w.mem /\ z.w.x = s.w.x /\ z.w.y = s.w.y
  BY <1>1 DEF Kin, Mirrored, Sound, WindowOf
<1>3. s.w.attr \in Lit(a)
  BY DEF Mirrored, Tame
<1> QED BY <1>1, <1>2, <1>3, Silent

LEMMA TabsAfter ==
  ASSUME NEW a, NEW r, NEW s, Mirrored(a, r, s), s.w.y <= Cols, NEW n, NEW z,
         z \in {[s EXCEPT !.w = SetTab(s.w)], [s EXCEPT !.w = ClearTab(s.w, n)]}
  PROVE  After(a, r, s, z)
<1>1. SetTab(s.w) = [s.w EXCEPT !.tabs = s.w.tabs \cup {s.w.y}]
  BY DEF SetTab
<1>2. ClearTab(s.w, n) \in {s.w, [s.w EXCEPT !.tabs = {}], [s.w EXCEPT !.tabs = s.w.tabs \ {s.w.y}]}
  BY DEF ClearTab
<1>3. z.w \in {SetTab(s.w), ClearTab(s.w, n)} /\ z.t = s.t
  BY DEF Mirrored
<1>4. Kin(s.w, z.w) /\ z.w.sattr = s.w.sattr /\ z.w.mem = s.w.mem /\ z.w.x = s.w.x /\ z.w.y = s.w.y
  BY <1>1, <1>2, <1>3 DEF Kin, Mirrored, Sound, WindowOf
<1>5. s.w.sattr \in Lit(a)
  BY DEF Mirrored, Tame
<1> QED BY <1>3, <1>4, <1>5, Silent

------------------------------------------------------------------------------
(* Lines that move.                                                        *)

(* The lines of the window and those of the terminal are moved alike.      *)
Framed(n, off, cell, mem) == \A i \in 1 .. n : cell[off + i] = mem[i]
Outside(r, n, off, cell, new) == \A i \in 1 .. r : i \notin (off + 1) .. (off + n) => new[i] = cell[i]

LEMMA RolledAlike ==
  ASSUME NEW r \in Nat, NEW n \in Nat, NEW off \in Nat, off + n <= r,
         NEW cell \in Screen(r), NEW mem \in Screen(n), Framed(n, off, cell, mem),
         NEW x \in 1 .. n, NEW y \in 1 .. n, NEW p, NEW q, p = x + off, q = y + off
  PROVE  /\ Framed(n, off, RolledUp(cell, p, q), RolledUp(mem, x, y))
         /\ Framed(n, off, RolledDown(cell, p, q), RolledDown(mem, x, y))
         /\ Outside(r, n, off, cell, RolledUp(cell, p, q))
         /\ Outside(r, n, off, cell, RolledDown(cell, p, q))
<1>0. \A i \in 1 .. n : cell[off + i] = mem[i]
  BY DEF Framed
<1>1. DOMAIN cell = 1 .. r /\ DOMAIN mem = 1 .. n
  BY DEF Screen
<1>2. ASSUME NEW i \in 1 .. n PROVE RolledUp(cell, p, q)[off + i] = RolledUp(mem, x, y)[i]
  <2>1. off + i \in 1 .. r
    OBVIOUS
  <2>2. RolledUp(cell, p, q)[off + i] = IF off + i \in p .. (q - 1) THEN cell[off + i + 1]
                           ELSE IF off + i = q /\ p <= q THEN BlankRow ELSE cell[off + i]
    BY <1>1, <2>1 DEF RolledUp
  <2>3. RolledUp(mem, x, y)[i] = IF i \in x .. (y - 1) THEN mem[i + 1]
                           ELSE IF i = y /\ x <= y THEN BlankRow ELSE mem[i]
    BY <1>1 DEF RolledUp
  <2>4. CASE i \in x .. (y - 1)
    <3>1. i + 1 \in 1 .. n /\ off + (i + 1) = off + i + 1 /\ off + i \in p .. (q - 1)
      BY <2>4
    <3>2. cell[off + (i + 1)] = mem[i + 1]
      BY <1>0, <3>1
    <3> QED BY <2>2, <2>3, <2>4, <3>1, <3>2
  <2>5. CASE i \notin x .. (y - 1)
    <3>1. off + i \notin p .. (q - 1) /\ (off + i = q <=> i = y) /\ (p <= q <=> x <= y)
      BY <2>5
    <3> QED BY <1>0, <2>2, <2>3, <2>5, <3>1
  <2> QED BY <2>4, <2>5
<1>3. ASSUME NEW i \in 1 .. n PROVE RolledDown(cell, p, q)[off + i] = RolledDown(mem, x, y)[i]
  <2>1. off + i \in 1 .. r
    OBVIOUS
  <2>2. RolledDown(cell, p, q)[off + i] = IF off + i \in (p + 1) .. q THEN cell[off + i - 1]
                           ELSE IF off + i = p /\ p <= q THEN BlankRow ELSE cell[off + i]
    BY <1>1, <2>1 DEF RolledDown
  <2>3. RolledDown(mem, x, y)[i] = IF i \in (x + 1) .. y THEN mem[i - 1]
                           ELSE IF i = x /\ x <= y THEN BlankRow ELSE mem[i]
    BY <1>1 DEF RolledDown
  <2>4. CASE i \in (x + 1) .. y
    <3>1. i - 1 \in 1 .. n /\ off + (i - 1) = off + i - 1 /\ off + i \in (p + 1) .. q
      BY <2>4
    <3>2. cell[off + (i - 1)] = mem[i - 1]
      BY <1>0, <3>1
    <3> QED BY <2>2, <2>3, <2>4, <3>1, <3>2
  <2>5. CASE i \notin (x + 1) .. y
    <3>1. off + i \notin (p + 1) .. q /\ (off + i = p <=> i = x) /\ (p <= q <=> x <= y)
      BY <2>5
    <3> QED BY <1>0, <2>2, <2>3, <2>5, <3>1
  <2> QED BY <2>4, <2>5
<1>4. ASSUME NEW i \in 1 .. r, i \notin (off + 1) .. (off + n)
      PROVE  RolledUp(cell, p, q)[i] = cell[i] /\ RolledDown(cell, p, q)[i] = cell[i]
  <2>1. i \notin p .. (q - 1) /\ i # q /\ i \notin (p + 1) .. q /\ i # p
    BY <1>4
  <2> QED BY <1>1, <2>1 DEF RolledUp, RolledDown
<1>5. Framed(n, off, RolledUp(cell, p, q), RolledUp(mem, x, y))
  BY <1>2 DEF Framed
<1>6. Framed(n, off, RolledDown(cell, p, q), RolledDown(mem, x, y))
  BY <1>3 DEF Framed
<1>7. Outside(r, n, off, cell, RolledUp(cell, p, q)) /\ Outside(r, n, off, cell, RolledDown(cell, p, q))
  BY <1>4 DEF Outside
<1> QED BY <1>5, <1>6, <1>7

LEMMA RolledTame ==
  ASSUME NEW a, NEW n \in Nat, NEW mem \in Screen(n), NEW x \in 1 .. n, NEW y \in 1 .. n,
         \A i \in 1 .. n : \A j \in 1 .. Cols : mem[i][j] \in Shades(a)
  PROVE  \A i \in 1 .. n : \A j \in 1 .. Cols :
            RolledUp(mem, x, y)[i][j] \in Shades(a) /\ RolledDown(mem, x, y)[i][j] \in Shades(a)
<1> TAKE i \in 1 .. n
<1> TAKE j \in 1 .. Cols
<1>1. BlankRow[j] \in Shades(a)
  BY DEF BlankRow, Shades
<1>2. RolledUp(mem, x, y)[i] = (IF i \in x .. (y - 1) THEN mem[i + 1] ELSE IF i = y /\ x <= y THEN BlankRow ELSE mem[i])
  BY DEF RolledUp, Screen
<1>3. RolledDown(mem, x, y)[i] = (IF i \in (x + 1) .. y THEN mem[i - 1] ELSE IF i = x /\ x <= y THEN BlankRow ELSE mem[i])
  BY DEF RolledDown, Screen
<1>4. i \in x .. (y - 1) => i + 1 \in 1 .. n
  OBVIOUS
<1>5. i \in (x + 1) .. y => i - 1 \in 1 .. n
  OBVIOUS
<1>6. RolledUp(mem, x, y)[i][j] \in Shades(a)
  BY <1>1, <1>2, <1>4
<1>7. RolledDown(mem, x, y)[i][j] \in Shades(a)
  BY <1>1, <1>3, <1>5
<1> QED BY <1>6, <1>7

(* The cells of the window's lines have changed, and the memory with them. *)
LEMMA Drawn ==
  ASSUME NEW a, NEW r, NEW s, Mirrored(a, r, s), NEW z,
         Kin(s.w, z.w), z.w.sattr \in Lit(a),
         z.t \in TermOf(r), Steady(s.t, z.t), z.t.x = z.w.x + s.w.off, z.t.y = Column(z.w.y),
         \A i \in 1 .. s.w.rows : \A j \in 1 .. Cols : z.w.mem[i][j] \in Shades(a),
         \A i \in 1 .. s.w.rows : z.t.cell[s.w.off + i] = z.w.mem[i],
         \A i \in 1 .. r : i \notin (s.w.off + 1) .. (s.w.off + s.w.rows) => z.t.cell[i] = s.t.cell[i]
  PROVE  After(a, r, s, z)
<1>1. Tame(a, z.w)
  BY DEF Mirrored, Tame, Kin
<1>2. Follows(z.w, z.t)
  BY DEF Mirrored, Follows, Kin, Steady
<1>3. Shows(z.w, z.t)
  BY DEF Mirrored, Shows, Kin
<1>4. Beside(s.w, s.t, z.t)
  BY DEF Beside, Mirrored, TermOf
<1> QED BY <1>1, <1>2, <1>3, <1>4 DEF After, Kin

MemoryAs(w, mem) == [w EXCEPT !.mem = mem]

LEMMA WindowMem ==
  ASSUME NEW w, Sound(w), NEW mem, NEW v, v = MemoryAs(w, mem)
  PROVE  Kin(w, v) /\ v.sattr = w.sattr /\ v.mem = mem /\ v.x = w.x /\ v.y = w.y
BY DEF Sound, WindowOf, MemoryAs, Kin

(* The lines from the p-th to the last of the region have moved.           *)
LEMMA RolledAfter ==
  ASSUME NEW a, NEW r, NEW s, Mirrored(a, r, s), NEW p \in 1 .. s.w.rows, NEW z,
         NEW q, NEW b, q = p + s.w.off, b = s.w.low + s.w.off,
         z.t \in TermOf(r), Steady(s.t, z.t), z.t.x = s.t.x, z.t.y = s.t.y,
         \/ z.w = MemoryAs(s.w, RolledUp(s.w.mem, p, s.w.low)) /\ z.t.cell = RolledUp(s.t.cell, q, b)
         \/ z.w = MemoryAs(s.w, RolledDown(s.w.mem, p, s.w.low)) /\ z.t.cell = RolledDown(s.t.cell, q, b)
  PROVE  After(a, r, s, z)
<1>1. PICK mem : z.w = MemoryAs(s.w, mem) /\ \/ mem = RolledUp(s.w.mem, p, s.w.low) /\ z.t.cell = RolledUp(s.t.cell, q, b)
                                             \/ mem = RolledDown(s.w.mem, p, s.w.low) /\ z.t.cell = RolledDown(s.t.cell, q, b)
  OBVIOUS
<1>2. PICK n, off, old, cell, low : n = s.w.rows /\ off = s.w.off /\ old = s.w.mem /\ cell = s.t.cell /\ low = s.w.low
  OBVIOUS
<1>3. /\ r \in Nat /\ n \in Nat /\ off \in Nat /\ off + n <= r /\ p \in 1 .. n /\ low \in 1 .. n
      /\ q = p + off /\ b = low + off
  BY <1>2, MirrorFact
<1>4. old \in Screen(n) /\ cell \in Screen(r) /\ Framed(n, off, cell, old)
  BY <1>2, MemFact, TermFact DEF Mirrored, Shows, Framed
<1>5. \A i \in 1 .. n : \A j \in 1 .. Cols : old[i][j] \in Shades(a)
  BY <1>2 DEF Mirrored, Tame
<1>6. /\ \A i \in 1 .. n : z.t.cell[off + i] = mem[i]
      /\ \A i \in 1 .. r : i \notin (off + 1) .. (off + n) => z.t.cell[i] = cell[i]
  <2>1. /\ Framed(n, off, RolledUp(cell, q, b), RolledUp(old, p, low))
        /\ Framed(n, off, RolledDown(cell, q, b), RolledDown(old, p, low))
        /\ Outside(r, n, off, cell, RolledUp(cell, q, b))
        /\ Outside(r, n, off, cell, RolledDown(cell, q, b))
    BY <1>3, <1>4, RolledAlike
  <2> QED BY <1>1, <1>2, <2>1 DEF Framed, Outside
<1>7. \A i \in 1 .. n : \A j \in 1 .. Cols : mem[i][j] \in Shades(a)
  <2>1. mem = RolledUp(old, p, low) \/ mem = RolledDown(old, p, low)
    BY ONLY <1>1, <1>2
  <2>2. ASSUME NEW i \in 1 .. n, NEW j \in 1 .. Cols
        PROVE  RolledUp(old, p, low)[i][j] \in Shades(a) /\ RolledDown(old, p, low)[i][j] \in Shades(a)
    BY ONLY <1>3, <1>4, <1>5, <2>2, RolledTame
  <2> QED BY ONLY <2>1, <2>2
<1>8. Kin(s.w, z.w) /\ z.w.sattr = s.w.sattr /\ z.w.mem = mem /\ z.w.x = s.w.x /\ z.w.y = s.w.y
  BY <1>1, WindowMem DEF Mirrored
<1>9. s.w.sattr \in Lit(a) /\ s.t.x = s.w.x + s.w.off /\ s.t.y = Column(s.w.y)
  BY MirrorFact DEF Mirrored, Tame
<1> QED BY <1>2, <1>6, <1>7, <1>8, <1>9, Drawn

LEMMA NewLineAfter ==
  ASSUME NEW a, NEW r, NEW s, Mirrored(a, r, s), s.w.x <= s.w.low, NEW z, z = NewLine(s)
  PROVE  After(a, r, s, z)
<1>0. z.w = Advance(s.w) /\ z.t = LF(s.t) /\ r \in Nat /\ s.t \in TermOf(r) /\ Sound(s.w)
  BY DEF NewLine, Mirrored
<1>1. CASE s.w.x < s.w.low
  <2>1. PICK x, y, row, col : x = s.w.x + 1 /\ y = s.w.y /\ row = s.t.x + 1 /\ col = s.t.y
    OBVIOUS
  <2>2. x \in Int /\ y \in Int /\ row \in Int /\ col \in Int
    BY <2>1, MirrorFact
  <2>3. Between(1, row, r) = x + s.w.off /\ Between(1, col, Cols) = Column(y)
    BY <1>1, <2>1, MirrorFact DEF Between, Column
  <2>4. z.w = CursorAt(s.w, x, y)
    BY <1>0, <1>1, <2>1 DEF Advance, CursorAt, Sound, WindowOf
  <2>5. s.t.x # s.t.bottom
    BY <1>1, MirrorFact
  <2>6. z.t = Goto(s.t, row, col)
    BY <1>0, <2>1, <2>5 DEF LF
  <2> QED BY <2>2, <2>3, <2>4, <2>6, WentTo
<1>2. CASE s.w.x = s.w.low
  <2>1. PICK p, q, b : p = s.w.up /\ q = p + s.w.off /\ b = s.w.low + s.w.off
    OBVIOUS
  <2>2. ~(s.w.x < s.w.low) /\ ~(s.w.x > s.w.low) /\ RegionInside(s.w) /\ ~(s.w.up > s.w.low) /\ p \in 1 .. s.w.rows
    BY <1>2, <2>1, MirrorFact DEF RegionInside
  <2>3. z.w = MemoryAs(s.w, RolledUp(s.w.mem, p, s.w.low))
    BY <1>0, <2>1, <2>2 DEF Advance, ScrollVideo, MemoryAs
  <2>4. s.t.x = s.t.bottom /\ s.t.top = q /\ s.t.bottom = b
    BY <1>2, <2>1, MirrorFact
  <2>5. PICK u : u = z.t
    OBVIOUS
  <2>6. u \in TermOf(r) /\ Steady(s.t, u) /\ u.y = s.t.y /\ u.x = s.t.x /\ u.cell = RolledUp(s.t.cell, s.t.top, s.t.bottom)
    BY <1>0, <2>4, <2>5, LFIs
  <2> QED BY <2>1, <2>2, <2>3, <2>4, <2>5, <2>6, RolledAfter
<1> QED BY <1>1, <1>2, MirrorFact

LEMMA ReverseIndexAfter ==
  ASSUME NEW a, NEW r, NEW s, Mirrored(a, r, s), s.w.x >= s.w.up, NEW z, z = ReverseIndex(s)
  PROVE  After(a, r, s, z)
<1>0. z.t = RevScroll(s.t) /\ r \in Nat /\ s.t \in TermOf(r) /\ Sound(s.w)
  BY DEF ReverseIndex, Mirrored
<1>1. CASE s.w.x > s.w.up
  <2>1. PICK x, y, row, col : x = s.w.x - 1 /\ y = s.w.y /\ row = s.t.x - 1 /\ col = s.t.y
    OBVIOUS
  <2>2. x \in Int /\ y \in Int /\ row \in Int /\ col \in Int
    BY <2>1, MirrorFact
  <2>3. Between(1, row, r) = x + s.w.off /\ Between(1, col, Cols) = Column(y)
    <3>0. /\ s.t.x = s.w.x + s.w.off /\ s.w.x \in 1 .. s.w.rows /\ s.w.up \in 1 .. s.w.rows
          /\ s.w.rows \in Nat /\ s.w.off \in Nat /\ s.w.off + s.w.rows <= r /\ r \in Nat
      BY MirrorFact
    <3>1. row = x + s.w.off /\ row \in 1 .. r /\ r \in Nat
      BY <1>1, <2>1, <3>0
    <3>2. col = Column(y) /\ col \in 1 .. Cols /\ Cols \in Nat
      BY <2>1, MirrorFact
    <3> QED BY <3>1, <3>2 DEF Between
  <2>4. z.w = CursorAt(s.w, x, y)
    BY <1>0, <1>1, <2>1 DEF ReverseIndex, CursorAt, Sound, WindowOf
  <2>5. s.t.x # s.t.top
    BY <1>1, MirrorFact
  <2>6. z.t = Goto(s.t, row, col)
    BY <1>0, <2>1, <2>5 DEF RevScroll
  <2> QED BY <2>2, <2>3, <2>4, <2>6, WentTo
<1>2. CASE s.w.x = s.w.up
  <2>1. PICK p, q, b : p = s.w.up /\ q = p + s.w.off /\ b = s.w.low + s.w.off
    OBVIOUS
  <2>2. ~(s.w.x > s.w.up) /\ ~(s.w.x < s.w.up) /\ RegionInside(s.w) /\ ~(s.w.up > s.w.low) /\ p \in 1 .. s.w.rows
    BY <1>2, <2>1, MirrorFact DEF RegionInside
  <2>3. z.w = MemoryAs(s.w, RolledDown(s.w.mem, p, s.w.low))
    BY <2>1, <2>2 DEF ReverseIndex, RevScrollVideo, MemoryAs
  <2>4. s.t.x = s.t.top /\ s.t.top = q /\ s.t.bottom = b
    BY <1>2, <2>1, MirrorFact
  <2>5. PICK u : u = z.t
    OBVIOUS
  <2>6. u \in TermOf(r) /\ Steady(s.t, u) /\ u.y = s.t.y /\ u.x = s.t.x /\ u.cell = RolledDown(s.t.cell, s.t.top, s.t.bottom)
    BY <1>0, <2>4, <2>5, RevScrollIs
  <2> QED BY <2>1, <2>2, <2>3, <2>4, <2>5, <2>6, RolledAfter
<1> QED BY <1>1, <1>2, MirrorFact

(* One handler after another.                                              *)
LEMMA Chain ==
  ASSUME NEW a, NEW r, NEW s, Mirrored(a, r, s), NEW p, After(a, r, s, p), Sound(p.w), p = [w |-> p.w, t |-> p.t]
  PROVE  Mirrored(a, r, p) /\ \A z : After(a, r, p, z) => After(a, r, s, z)
<1>1. Mirrored(a, r, p)
  BY DEF Mirrored, After
<1>2. ASSUME NEW z, After(a, r, p, z) PROVE After(a, r, s, z)
  <2>1. z.w.off = s.w.off /\ z.w.rows = s.w.rows
    BY <1>2 DEF After
  <2>2. s.t.rows = p.t.rows
    <3>1. s.t \in TermOf(r) /\ p.t \in TermOf(r)
      BY DEF Mirrored, After
    <3> QED BY <3>1, TermFact
  <2>3. p.w.off = s.w.off /\ p.w.rows = s.w.rows /\ Beside(s.w, s.t, p.t) /\ Beside(p.w, p.t, z.t)
    BY <1>2 DEF After
  <2>4. Beside(s.w, s.t, z.t)
    BY <2>2, <2>3 DEF Beside
  <2> QED BY <1>2, <2>1, <2>4 DEF After
<1> QED BY <1>1, <1>2

LEMMA Commutes ==
  ASSUME NEW n, NEW w \in WindowOf(n), NEW x, NEW y, NEW mem
  PROVE  /\ [[w EXCEPT !.y = y] EXCEPT !.x = x] = [[w EXCEPT !.x = x] EXCEPT !.y = y]
         /\ [[w EXCEPT !.y = y] EXCEPT !.mem = mem] = [[w EXCEPT !.mem = mem] EXCEPT !.y = y]
BY DEF WindowOf

LEMMA NextLineAfter ==
  ASSUME NEW a, NEW r, NEW s, Mirrored(a, r, s), s.w.x <= s.w.low, NEW z, z = NextLine(s)
  PROVE  After(a, r, s, z)
<1>1. PICK p : p = Return(s)
  OBVIOUS
<1>2. p.w = [s.w EXCEPT !.y = 1] /\ p.t = CR(s.t) /\ p = [w |-> p.w, t |-> p.t]
  BY <1>1 DEF Return
<1>3. Sound(s.w) /\ s.w \in WindowOf(s.w.rows)
  BY DEF Mirrored, Sound
<1>4. Sound(p.w)
  BY <1>2, <1>3, ColumnSound
<1>5. After(a, r, s, p)
  BY <1>1, ReturnAfter
<1>6. Mirrored(a, r, p) /\ \A u : After(a, r, p, u) => After(a, r, s, u)
  BY <1>2, <1>4, <1>5, Chain
<1>7. p.w.x = s.w.x /\ p.w.low = s.w.low /\ p.w.up = s.w.up /\ p.w.mem = s.w.mem /\ p.w.rows = s.w.rows
  BY <1>2, <1>3 DEF WindowOf
<1>8. Advance(p.w) = [Advance(s.w) EXCEPT !.y = 1]
  <2>1. CASE s.w.x < s.w.low
    <3>1. Advance(s.w) = [s.w EXCEPT !.x = s.w.x + 1]
      BY <2>1 DEF Advance
    <3>2. Advance(p.w) = [p.w EXCEPT !.x = s.w.x + 1]
      BY <1>7, <2>1 DEF Advance
    <3>3. [[s.w EXCEPT !.y = 1] EXCEPT !.x = s.w.x + 1] = [[s.w EXCEPT !.x = s.w.x + 1] EXCEPT !.y = 1]
      BY <1>3, Commutes
    <3> QED BY <1>2, <3>1, <3>2, <3>3
  <2>2. CASE ~(s.w.x < s.w.low)
    <3>1. ~(s.w.x > s.w.low) /\ RegionInside(s.w) /\ RegionInside(p.w) /\ ~(s.w.up > s.w.low)
      BY <1>3, <1>7, <2>2, LineFact, RegionFact, RowsFact DEF RegionInside
    <3>2. Advance(s.w) = [s.w EXCEPT !.mem = RolledUp(s.w.mem, s.w.up, s.w.low)]
      BY <2>2, <3>1 DEF Advance, ScrollVideo
    <3>3. Advance(p.w) = [p.w EXCEPT !.mem = RolledUp(s.w.mem, s.w.up, s.w.low)]
      BY <1>7, <2>2, <3>1 DEF Advance, ScrollVideo
    <3>4. PICK mem : mem = RolledUp(s.w.mem, s.w.up, s.w.low)
      OBVIOUS
    <3>5. [[s.w EXCEPT !.y = 1] EXCEPT !.mem = mem] = [[s.w EXCEPT !.mem = mem] EXCEPT !.y = 1]
      BY <1>3, Commutes
    <3> QED BY <1>2, <3>2, <3>3, <3>4, <3>5
  <2> QED BY <2>1, <2>2
<1>9. z = NewLine(p)
  BY <1>2, <1>8 DEF NewLine, NextLine
<1>10. After(a, r, p, z)
  BY <1>6, <1>7, <1>9, NewLineAfter
<1> QED BY <1>6, <1>10

(* AddVideo and the character that is sent, which has seven bits.          *)
Written(s, byte) == [w |-> [AddVideo(s.w, byte) EXCEPT !.y = @ + 1], t |-> PutChar(s.t)]

LEMMA WrittenAfter ==
  ASSUME NEW a, NEW r, NEW s, Mirrored(a, r, s), s.w.y <= Cols, NEW byte, byte < EightBit,
         NEW z, z = Written(s, byte)
  PROVE  After(a, r, s, z)
<1>1. PICK x, y, off, n, c : x = s.w.x /\ y = s.w.y /\ off = s.w.off /\ n = s.w.rows /\ c = {"char"} \cup s.w.attr
  OBVIOUS
<1>2. /\ x \in 1 .. n /\ y \in 1 .. Cols /\ off \in Nat /\ n \in Nat /\ off + n <= r /\ r \in Nat
      /\ s.t.x = off + x /\ s.t.y = y
  BY <1>1, MirrorFact DEF Column
<1>3. s.w.attr \in Lit(a) /\ s.w.sattr \in Lit(a) /\ a \in Attributes /\ Sound(s.w) /\ s.t \in TermOf(r) /\ s.t.attr = s.w.attr
  BY DEF Mirrored, Tame, Follows
<1>4. c \in Shades(a) /\ c \in Cells
  BY <1>1, <1>3 DEF Lit, Shades, Cells
<1>5. PICK mem, cell : mem = [s.w.mem EXCEPT ![x][y] = c] /\ cell = [s.t.cell EXCEPT ![off + x][y] = c]
  OBVIOUS
<1>6. s.w.mem \in Screen(n) /\ s.t.cell \in Screen(r)
  BY <1>1, <1>3, MemFact, TermFact
<1>7. AddVideo(s.w, byte) = [s.w EXCEPT !.mem = mem]
  BY <1>1, <1>2, <1>5 DEF AddVideo, StoreCell, Inside
<1>8. z.w = [s.w EXCEPT !.mem = mem, !.y = y + 1]
  BY <1>1, <1>3, <1>7 DEF Written, Sound, WindowOf
<1>9. Kin(s.w, z.w) /\ z.w.sattr = s.w.sattr /\ z.w.mem = mem /\ z.w.x = x /\ z.w.y = y + 1
  BY <1>1, <1>3, <1>8 DEF Kin, Sound, WindowOf
<1>10. PICK u : u = z.t
  OBVIOUS
<1>11. u = Put(s.t, c)
  BY <1>1, <1>3, <1>10 DEF Written, PutChar
<1>12. /\ u \in TermOf(r) /\ Steady(s.t, u) /\ u.x = s.t.x /\ u.y = Between(1, s.t.y + 1, Cols)
       /\ u.cell = [s.t.cell EXCEPT ![s.t.x][s.t.y] = c]
  BY <1>2, <1>3, <1>4, <1>11, PutIs
<1>13. u.cell = cell /\ u.x = x + off /\ u.y = Column(y + 1)
  BY <1>2, <1>5, <1>12, ColsAssumption DEF Between, Column
<1>14. \A i \in 1 .. n : \A j \in 1 .. Cols : s.w.mem[i][j] \in Shades(a)
  BY <1>1 DEF Mirrored, Tame
<1>15. \A i \in 1 .. n : \A j \in 1 .. Cols : mem[i][j] \in Shades(a)
  BY <1>2, <1>4, <1>5, <1>6, <1>14 DEF Screen
<1>16. \A i \in 1 .. n : s.t.cell[off + i] = s.w.mem[i]
  BY <1>1 DEF Mirrored, Shows
<1>17. \A i \in 1 .. n : cell[off + i] = mem[i]
  <2>1. mem[x] = [s.w.mem[x] EXCEPT ![y] = c] /\ \A i \in 1 .. n : i # x => mem[i] = s.w.mem[i]
    BY <1>2, <1>5, <1>6 DEF Screen
  <2>2. /\ cell[off + x] = [s.t.cell[off + x] EXCEPT ![y] = c]
        /\ \A i \in 1 .. r : i # off + x => cell[i] = s.t.cell[i]
    BY <1>2, <1>5, <1>6 DEF Screen
  <2>3. \A i \in 1 .. n : off + i \in 1 .. r /\ (i # x => off + i # off + x)
    BY <1>2
  <2> QED BY <1>2, <1>16, <2>1, <2>2, <2>3
<1>18. \A i \in 1 .. r : i \notin (off + 1) .. (off + n) => cell[i] = s.t.cell[i]
  BY <1>2, <1>5, <1>6 DEF Screen
<1> QED BY <1>1, <1>3, <1>9, <1>10, <1>12, <1>13, <1>15, <1>17, <1>18, Drawn

LEMMA CharacterAfter ==
  ASSUME NEW a, NEW r, NEW s, Mirrored(a, r, s), s.w.y > Cols => s.w.x <= s.w.low,
         NEW byte, byte < EightBit, NEW z, z = Character(s, byte)
  PROVE  After(a, r, s, z)
<1>0. Sound(s.w)
  BY DEF Mirrored
<1>1. CASE s.w.y > Cols
  <2>1. PICK p : p = NextLine(s)
    OBVIOUS
  <2>2. p.w = [Advance(s.w) EXCEPT !.y = 1] /\ p = [w |-> p.w, t |-> p.t]
    BY <2>1 DEF NextLine
  <2>3. Sound(p.w) /\ p.w.y = 1
    BY <1>0, <2>2, AdvanceSound, ColumnSound
  <2>4. After(a, r, s, p)
    BY <1>1, <2>1, NextLineAfter
  <2>5. Mirrored(a, r, p) /\ \A u : After(a, r, p, u) => After(a, r, s, u)
    BY <2>2, <2>3, <2>4, Chain
  <2>6. z = Written(p, byte)
    BY <1>1, <2>1 DEF Character, Written
  <2>7. p.w.y <= Cols
    BY <2>3, ColsAssumption
  <2>8. After(a, r, p, z)
    BY <2>5, <2>6, <2>7, WrittenAfter
  <2> QED BY <2>5, <2>8
<1>2. CASE ~(s.w.y > Cols)
  <2>1. z = Written(s, byte)
    BY <1>2 DEF Character, Written
  <2>2. s.w.y <= Cols
    BY <1>2, MirrorFact
  <2> QED BY <2>1, <2>2, WrittenAfter
<1> QED BY <1>1, <1>2

------------------------------------------------------------------------------
(* Regions and modes.                                                      *)

LEMMA ScrollRegionAfter ==
  ASSUME NEW a, NEW r, NEW s, Mirrored(a, r, s), NEW n \in Nat, NEW m \in Nat,
         Between(1, n, s.w.rows + 1) # Between(0, m, s.w.rows), NEW z, z = ScrollRegion(s, n, m)
  PROVE  After(a, r, s, z)
<1> DEFINE upper == IF n < 1 THEN 1 ELSE n
           lower == IF m > s.w.rows THEN s.w.rows ELSE m
           whole == (n = 0 /\ m = 0) \/ upper > lower
<1>1. PICK up, low : up = (IF whole THEN 1 ELSE upper) /\ low = (IF whole THEN s.w.rows ELSE lower)
  OBVIOUS
<1>2. up \in 1 .. s.w.rows /\ low \in 1 .. s.w.rows /\ up < low
  BY <1>1, MirrorFact DEF Between
<1>3. Sound(s.w) /\ s.w \in WindowOf(s.w.rows) /\ s.t \in TermOf(r) /\ r \in Nat
  BY DEF Mirrored, Sound
<1>4. z.w = [s.w EXCEPT !.up = up, !.low = low, !.x = 1, !.y = 1]
  BY <1>1 DEF ScrollRegion, ToCursor
<1>5. /\ z.w.up = up /\ z.w.low = low /\ z.w.x = 1 /\ z.w.y = 1 /\ z.w.off = s.w.off /\ z.w.rows = s.w.rows
      /\ z.w.attr = s.w.attr /\ z.w.sattr = s.w.sattr /\ z.w.keys = s.w.keys /\ z.w.charset = s.w.charset
      /\ z.w.mem = s.w.mem
  BY <1>3, <1>4 DEF WindowOf
<1>6. PICK p, q, t, u : /\ p = up + s.w.off /\ q = low + s.w.off /\ t = SetScroll(s.t, p, q)
                        /\ u = Goto(t, 1 + s.w.off, 1)
  OBVIOUS
<1>7. z.t = u
  BY <1>1, <1>3, <1>5, <1>6 DEF ScrollRegion, ToCursor, WindowOf
<1>8. /\ p \in 1 .. r /\ q \in 1 .. r /\ p < q /\ 1 + s.w.off \in 1 .. r /\ s.w.off \in Nat
      /\ Cols \in Nat /\ Cols >= 1
  <2>1. s.w.off \in Nat /\ s.w.rows \in Nat /\ s.w.rows >= 3 /\ s.w.off + s.w.rows <= r /\ r \in Nat
    BY MirrorFact
  <2> QED BY <1>2, <1>6, <2>1, ColsAssumption
<1>9. /\ t \in TermOf(r) /\ t.top = p /\ t.bottom = q /\ t.cell = s.t.cell /\ t.attr = s.t.attr
      /\ t.keys = s.t.keys /\ t.charset = s.t.charset
  BY <1>3, <1>6, <1>8, SetScrollIs
<1>10. PICK row : row = 1 + s.w.off
  OBVIOUS
<1>11. row \in Int /\ u = Goto(t, row, 1) /\ Between(1, row, r) = row /\ Between(1, 1, Cols) = 1
  BY <1>3, <1>6, <1>8, <1>10 DEF Between
<1>12. u \in TermOf(r) /\ u.x = row /\ u.y = 1 /\ u.cell = t.cell /\ Steady(t, u)
  BY <1>3, <1>9, <1>11, GotoIs
<1>13. Tame(a, z.w)
  BY <1>5 DEF Mirrored, Tame
<1>14. Follows(z.w, z.t)
  <2>1. Column(1) = 1
    BY <1>8 DEF Column
  <2>2. /\ u.top = p /\ u.bottom = q /\ u.attr = s.t.attr /\ u.keys = s.t.keys /\ u.charset = s.t.charset
    BY <1>9, <1>12 DEF Steady
  <2>3. s.t.attr = s.w.attr /\ s.t.keys = s.w.keys /\ s.t.charset = s.w.charset
    BY DEF Mirrored, Follows
  <2> QED BY <1>5, <1>6, <1>7, <1>10, <1>12, <2>1, <2>2, <2>3 DEF Follows
<1>15. Shows(z.w, z.t) /\ Beside(s.w, s.t, z.t)
  BY <1>5, <1>7, <1>9, <1>12 DEF Mirrored, Shows, Beside
<1> QED BY <1>5, <1>7, <1>12, <1>13, <1>14, <1>15 DEF After

Tinted(w, attr, colour) == [w EXCEPT !.attr = attr, !.colour = colour]

LEMMA TintedAfter ==
  ASSUME NEW a, NEW r, NEW s, Mirrored(a, r, s), NEW attr \in Lit(a), NEW colour, NEW hue \in Colours, NEW z,
         z.w = Tinted(s.w, attr, colour), z.t = Tinted(s.t, attr, hue)
  PROVE  After(a, r, s, z)
<1>1. Sound(s.w) /\ s.t \in TermOf(r) /\ a \in Attributes /\ Follows(s.w, s.t) /\ Shows(s.w, s.t) /\ Tame(a, s.w)
      /\ r \in Nat
  BY DEF Mirrored
<1>2. attr \in SUBSET Attributes
  BY <1>1 DEF Lit
<1>3. PICK u : u = z.t
  OBVIOUS
<1>4. u = Tinted(s.t, attr, hue)
  BY <1>3
<1>5. /\ u \in TermOf(r) /\ u.attr = attr /\ u.x = s.t.x /\ u.y = s.t.y /\ u.cell = s.t.cell
      /\ u.top = s.t.top /\ u.bottom = s.t.bottom /\ u.saved = s.t.saved
      /\ u.keys = s.t.keys /\ u.charset = s.t.charset
  BY <1>1, <1>2, <1>4 DEF Tinted, TermOf
<1>6. /\ z.w.attr = attr /\ z.w.x = s.w.x /\ z.w.y = s.w.y /\ z.w.up = s.w.up /\ z.w.low = s.w.low
      /\ z.w.off = s.w.off /\ z.w.rows = s.w.rows /\ z.w.mem = s.w.mem /\ z.w.sattr = s.w.sattr
      /\ z.w.keys = s.w.keys /\ z.w.charset = s.w.charset
  BY <1>1 DEF Tinted, Sound, WindowOf
<1>7. Tame(a, z.w)
  BY <1>1, <1>6 DEF Tame
<1>8. Follows(z.w, z.t)
  BY <1>1, <1>3, <1>5, <1>6 DEF Follows
<1>9. Shows(z.w, z.t) /\ Beside(s.w, s.t, z.t)
  BY <1>1, <1>3, <1>5, <1>6 DEF Shows, Beside
<1> QED BY <1>3, <1>5, <1>6, <1>7, <1>8, <1>9 DEF After

(* The item switches on no attribute but a.                                *)
Only(a, c) == c.op = "m" => /\ 1 \in {c.n, c.m} => a = "bold"
                            /\ 7 \in {c.n, c.m} => a = "reverse"

LEMMA AttributeAfter ==
  ASSUME NEW a, NEW r, NEW s, Mirrored(a, r, s), NEW n \in Nat, n = 1 => a = "bold", n = 7 => a = "reverse",
         NEW z, z = Attribute(s, n)
  PROVE  After(a, r, s, z)
<1>0. /\ s.w.attr \in Lit(a) /\ s.t.attr = s.w.attr /\ s.w \in WindowOf(s.w.rows) /\ s.t \in TermOf(r)
      /\ a \in Attributes
  BY DEF Mirrored, Tame, Follows, Sound
<1>1. PICK attr, colour, hue : colour = s.w.colour /\ hue = s.t.colour /\ attr = s.w.attr
  OBVIOUS
<1>2. hue \in Colours /\ {} \in Lit(a)
  BY <1>0, <1>1 DEF TermOf, Lit
<1>3. CASE n = 0
  <2>1. z.w = Tinted(s.w, {}, "none") /\ z.t = Tinted(s.t, {}, "none")
    BY <1>3 DEF Attribute, Tinted, ResetAttr
  <2> QED BY <1>2, <2>1, TintedAfter DEF Colours
<1>4. CASE n \in {1, 7, 22, 27}
  <2>1. PICK now : now = (IF n = 1 THEN attr \cup {"bold"} ELSE IF n = 7 THEN attr \cup {"reverse"}
                          ELSE IF n = 22 THEN attr \ {"bold"} ELSE attr \ {"reverse"})
    OBVIOUS
  <2>2. now \in Lit(a)
    BY <1>0, <1>1, <1>4, <2>1 DEF Lit
  <2>3. PICK w, t : w = s.w /\ t = s.t
    OBVIOUS
  <2>4. w.attr = attr /\ t.attr = attr /\ w \in WindowOf(w.rows) /\ t \in TermOf(r)
    BY <1>0, <1>1, <2>3
  <2>5. z.w = [w EXCEPT !.attr = now] /\ z.t = [t EXCEPT !.attr = now]
    <3>1. CASE n = 1
      <4>1. /\ now = attr \cup {"bold"}
            /\ z.w = [w EXCEPT !.attr = w.attr \cup {"bold"}]
            /\ z.t = [t EXCEPT !.attr = t.attr \cup {"bold"}]
        BY <2>1, <2>3, <3>1 DEF Attribute
      <4> QED BY <2>4, <4>1
    <3>2. CASE n = 7
      <4>1. /\ now = attr \cup {"reverse"}
            /\ z.w = [w EXCEPT !.attr = w.attr \cup {"reverse"}]
            /\ z.t = [t EXCEPT !.attr = t.attr \cup {"reverse"}]
        BY <2>1, <2>3, <3>2 DEF Attribute
      <4> QED BY <2>4, <4>1
    <3>3. CASE n = 22
      <4>1. now = attr \ {"bold"}
        BY <2>1, <3>3
      <4>2. z = [w |-> [s.w EXCEPT !.attr = s.w.attr \ {"bold"}], t |-> [s.t EXCEPT !.attr = s.t.attr \ {"bold"}]]
        BY <3>3 DEF Attribute
      <4>3. z.w = [w EXCEPT !.attr = w.attr \ {"bold"}] /\ z.t = [t EXCEPT !.attr = t.attr \ {"bold"}]
        BY <2>3, <4>2
      <4> QED BY <2>4, <4>1, <4>3
    <3>4. CASE n = 27
      <4>1. now = attr \ {"reverse"}
        BY <2>1, <3>4
      <4>2. z = [w |-> [s.w EXCEPT !.attr = s.w.attr \ {"reverse"}], t |-> [s.t EXCEPT !.attr = s.t.attr \ {"reverse"}]]
        BY <3>4 DEF Attribute
      <4>3. z.w = [w EXCEPT !.attr = w.attr \ {"reverse"}] /\ z.t = [t EXCEPT !.attr = t.attr \ {"reverse"}]
        BY <2>3, <4>2
      <4> QED BY <2>4, <4>1, <4>3
    <3>5. n = 1 \/ n = 7 \/ n = 22 \/ n = 27
      BY <1>4
    <3> QED BY <3>1, <3>2, <3>3, <3>4, <3>5, Zenon
  <2>6. z.w = Tinted(s.w, now, colour) /\ z.t = Tinted(s.t, now, hue)
    <3>1. [w EXCEPT !.attr = now] = Tinted(w, now, w.colour)
      BY ONLY <2>4 DEF WindowOf, Tinted
    <3>2. [t EXCEPT !.attr = now] = Tinted(t, now, t.colour)
      BY ONLY <2>4 DEF TermOf, Tinted
    <3> QED BY <1>1, <2>3, <2>5, <3>1, <3>2
  <2> QED BY <1>2, <2>2, <2>6, TintedAfter
<1>5. CASE n = 31
  <2>1. z.w = [s.w EXCEPT !.colour = "red"] /\ z.t = [s.t EXCEPT !.colour = "red"]
    BY <1>5 DEF Attribute
  <2>2. z.w = Tinted(s.w, attr, "red") /\ z.t = Tinted(s.t, attr, "red")
    <3>1. /\ [s.w EXCEPT !.colour = "red"] = Tinted(s.w, s.w.attr, "red")
          /\ [s.t EXCEPT !.colour = "red"] = Tinted(s.t, s.t.attr, "red")
      <4>1. PICK w, t : w = s.w /\ t = s.t
        OBVIOUS
      <4>2. w \in WindowOf(w.rows) /\ t \in TermOf(r)
        BY <1>0, <4>1
      <4>3. [w EXCEPT !.colour = "red"] = Tinted(w, w.attr, "red")
        BY ONLY <4>2 DEF WindowOf, Tinted
      <4>4. [t EXCEPT !.colour = "red"] = Tinted(t, t.attr, "red")
        BY ONLY <4>2 DEF TermOf, Tinted
      <4> QED BY <4>1, <4>3, <4>4
    <3> QED BY <1>0, <1>1, <2>1, <3>1
  <2> QED BY <1>0, <1>1, <2>2, TintedAfter DEF Colours
<1>6. CASE n \notin {0, 1, 7, 22, 27, 31}
  BY <1>6, Unchanged DEF Attribute
<1> QED BY <1>3, <1>4, <1>5, <1>6

LEMMA Attributes2After ==
  ASSUME NEW a, NEW r, NEW s, Mirrored(a, r, s), NEW n \in Nat, NEW m \in Nat,
         1 \in {n, m} => a = "bold", 7 \in {n, m} => a = "reverse", NEW z, z = Attributes2(s, n, m)
  PROVE  After(a, r, s, z)
<1>1. PICK p : p = Attribute(s, n)
  OBVIOUS
<1>2. After(a, r, s, p)
  BY <1>1, AttributeAfter
<1>3. CASE m = 0
  BY <1>1, <1>2, <1>3 DEF Attributes2
<1>4. CASE m # 0
  <2>1. Sound(p.w) /\ p = [w |-> p.w, t |-> p.t]
    <3>1. PICK w, t : s = [w |-> w, t |-> t] /\ Sound(w)
      BY DEF Mirrored
    <3> QED BY <1>1, <3>1, AttributeSound
  <2>2. Mirrored(a, r, p) /\ \A u : After(a, r, p, u) => After(a, r, s, u)
    BY <1>2, <2>1, Chain
  <2>3. z = Attribute(p, m)
    BY <1>1, <1>4 DEF Attributes2
  <2>4. After(a, r, p, z)
    BY <2>2, <2>3, AttributeAfter
  <2> QED BY <2>2, <2>4
<1> QED BY <1>3, <1>4

(* What was saved has no attributes: set_attr would not set them.          *)
LEMMA RestoreItAfter ==
  ASSUME NEW a, NEW r, NEW s, Mirrored(a, r, s), s.w.sx > 0, s.w.sattr = {}, NEW z, z = RestoreIt(s)
  PROVE  After(a, r, s, z)
<1>1. PICK x, y : /\ x = (IF s.w.sx > s.w.rows THEN s.w.rows ELSE s.w.sx)
                  /\ y = (IF s.w.sy > Cols THEN Cols ELSE s.w.sy)
  OBVIOUS
<1>2. /\ Sound(s.w) /\ s.w \in WindowOf(s.w.rows) /\ s.t \in TermOf(r) /\ s.w.sattr \in Lit(a) /\ a \in Attributes
      /\ r \in Nat
  BY DEF Mirrored, Sound, Tame
<1>3. x \in 1 .. s.w.rows /\ y \in Nat \ {0}
  <2>1. s.w.sx \in Nat \ {0} /\ s.w.sy \in Nat \ {0} /\ s.w.rows \in Nat \ {0} /\ Cols \in Nat \ {0}
    BY <1>2, SavedFact, RowsFact, ColsAssumption
  <2> QED BY <1>1, <2>1
<1>4. PICK v, u, p : v = CursorAt(s.w, x, y) /\ u = Goto(s.t, x + s.w.off, y) /\ p = [w |-> v, t |-> u]
  OBVIOUS
<1>5. p.w = v /\ p.t = u /\ p = [w |-> p.w, t |-> p.t]
  BY <1>4
<1>6. After(a, r, s, p)
  BY <1>3, <1>4, <1>5, Sent
<1>7. Sound(p.w)
  <2>1. v = [[s.w EXCEPT !.x = x] EXCEPT !.y = y]
    BY <1>4 DEF CursorAt
  <2>2. PICK q : q = [s.w EXCEPT !.x = x]
    OBVIOUS
  <2>3. Sound(q)
    BY <1>2, <1>3, <2>2, LineSound
  <2>4. Sound([q EXCEPT !.y = y])
    BY <1>3, <2>3, ColumnSound
  <2> QED BY <1>5, <2>1, <2>2, <2>4
<1>8. Mirrored(a, r, p) /\ \A q : After(a, r, p, q) => After(a, r, s, q)
  BY <1>5, <1>6, <1>7, Chain
<1>9. z.w = Tinted(v, {}, "none")
  <2>1. z.w = [s.w EXCEPT !.x = x, !.y = y, !.attr = {}, !.colour = "none"]
    BY <1>1 DEF RestoreIt, SetAttr, ToCursor
  <2> QED BY <1>4, <2>1 DEF Tinted, CursorAt
<1>10. z.w.x = x /\ z.w.y = y /\ z.w.off = s.w.off
  BY <1>2, <1>4, <1>9 DEF Tinted, CursorAt, WindowOf
<1>11. z.t = ResetAttr(Goto(s.t, z.w.x + z.w.off, z.w.y))
  BY DEF RestoreIt, SetAttr, ToCursor
<1>12. z.t = Tinted(u, {}, "none")
  BY <1>4, <1>10, <1>11 DEF ResetAttr, Tinted
<1>13. {} \in Lit(a) /\ "none" \in Colours
  BY DEF Lit, Colours
<1>14. After(a, r, p, z)
  BY <1>5, <1>8, <1>9, <1>12, <1>13, TintedAfter
<1> QED BY <1>8, <1>14

LEMMA KeysAfter ==
  ASSUME NEW a, NEW r, NEW s, Mirrored(a, r, s), NEW z,
         \E k \in {"normal", "application"} : z = KeyState(s, k)
  PROVE  After(a, r, s, z)
<1>1. PICK k \in {"normal", "application"} : z.w = [s.w EXCEPT !.keys = k] /\ z.t = [s.t EXCEPT !.keys = k]
  BY DEF KeyState
<1>2. Sound(s.w) /\ s.t \in TermOf(r) /\ Follows(s.w, s.t) /\ Shows(s.w, s.t) /\ Tame(a, s.w)
  BY DEF Mirrored
<1>3. /\ z.t \in TermOf(r) /\ z.t.attr = s.t.attr /\ z.t.x = s.t.x /\ z.t.y = s.t.y /\ z.t.cell = s.t.cell
      /\ z.t.top = s.t.top /\ z.t.bottom = s.t.bottom /\ z.t.keys = k /\ z.t.charset = s.t.charset
  BY <1>1, <1>2 DEF TermOf
<1>4. /\ z.w.attr = s.w.attr /\ z.w.x = s.w.x /\ z.w.y = s.w.y /\ z.w.up = s.w.up /\ z.w.low = s.w.low
      /\ z.w.off = s.w.off /\ z.w.rows = s.w.rows /\ z.w.mem = s.w.mem /\ z.w.sattr = s.w.sattr
      /\ z.w.keys = k /\ z.w.charset = s.w.charset
  BY <1>1, <1>2 DEF Sound, WindowOf
<1>5. Tame(a, z.w)
  BY <1>2, <1>4 DEF Tame
<1>6. Follows(z.w, z.t)
  BY <1>2, <1>3, <1>4 DEF Follows
<1>7. Shows(z.w, z.t) /\ Beside(s.w, s.t, z.t)
  BY <1>2, <1>3, <1>4 DEF Shows, Beside
<1> QED BY <1>3, <1>4, <1>5, <1>6, <1>7 DEF After

LEMMA CharsetAfter ==
  ASSUME NEW a, NEW r, NEW s, Mirrored(a, r, s), NEW z,
         \E k \in {"US", "graphics"} : z = AltCharset(s, k)
  PROVE  After(a, r, s, z)
<1>1. PICK k \in {"US", "graphics"} : z.w = [s.w EXCEPT !.charset = k] /\ z.t = [s.t EXCEPT !.charset = k]
  BY DEF AltCharset
<1>2. Sound(s.w) /\ s.t \in TermOf(r) /\ Follows(s.w, s.t) /\ Shows(s.w, s.t) /\ Tame(a, s.w)
  BY DEF Mirrored
<1>3. /\ z.t \in TermOf(r) /\ z.t.attr = s.t.attr /\ z.t.x = s.t.x /\ z.t.y = s.t.y /\ z.t.cell = s.t.cell
      /\ z.t.top = s.t.top /\ z.t.bottom = s.t.bottom /\ z.t.keys = s.t.keys /\ z.t.charset = k
  BY <1>1, <1>2 DEF TermOf
<1>4. /\ z.w.attr = s.w.attr /\ z.w.x = s.w.x /\ z.w.y = s.w.y /\ z.w.up = s.w.up /\ z.w.low = s.w.low
      /\ z.w.off = s.w.off /\ z.w.rows = s.w.rows /\ z.w.mem = s.w.mem /\ z.w.sattr = s.w.sattr
      /\ z.w.keys = s.w.keys /\ z.w.charset = k
  BY <1>1, <1>2 DEF Sound, WindowOf
<1>5. Tame(a, z.w)
  BY <1>2, <1>4 DEF Tame
<1>6. Follows(z.w, z.t)
  BY <1>2, <1>3, <1>4 DEF Follows
<1>7. Shows(z.w, z.t) /\ Beside(s.w, s.t, z.t)
  BY <1>2, <1>3, <1>4 DEF Shows, Beside
<1> QED BY <1>3, <1>4, <1>5, <1>6, <1>7 DEF After

(* A reset of a window that is as it was at the start.                     *)
LEMMA ResetAfter ==
  ASSUME NEW a, NEW r, NEW s, Mirrored(a, r, s), NEW z, z = [s EXCEPT !.w = ResetWin(s.w)],
         s.w = [ResetWin(s.w) EXCEPT !.sx = s.w.sx, !.sy = s.w.sy]
  PROVE  After(a, r, s, z)
<1>1. z.w = ResetWin(s.w) /\ z.t = s.t
  BY DEF Mirrored
<1>2. PICK v : v = ResetWin(s.w)
  OBVIOUS
<1>3. Sound(v) /\ v.rows = s.w.rows
  <2>1. Sound(s.w)
    BY DEF Mirrored
  <2>2. Sound(v)
    BY <1>2, <2>1, ResetWinSound
  <2>3. v.rows = s.w.rows
    BY <1>2, <2>1 DEF ResetWin, Sound, WindowOf
  <2> QED BY <2>2, <2>3
<1>4. PICK sx, sy : s.w = [v EXCEPT !.sx = sx, !.sy = sy]
  BY <1>2
<1>5. Kin(s.w, v) /\ v.sattr = s.w.sattr /\ v.mem = s.w.mem /\ v.x = s.w.x /\ v.y = s.w.y
  BY <1>3, <1>4 DEF Kin, Sound, WindowOf
<1>6. s.w.sattr \in Lit(a)
  BY DEF Mirrored, Tame
<1> QED BY <1>1, <1>2, <1>5, <1>6, Silent

------------------------------------------------------------------------------
(* Within a line.                                                          *)

LineAs(t, line) == [t EXCEPT !.cell[t.x] = line]

LEMMA LineIs ==
  ASSUME NEW r \in Nat, NEW t \in TermOf(r), NEW line \in [1 .. Cols -> Cells], NEW u, u = LineAs(t, line)
  PROVE  /\ u \in TermOf(r) /\ Steady(t, u) /\ u.x = t.x /\ u.y = t.y
         /\ \A i \in 1 .. r : i # t.x => u.cell[i] = t.cell[i]
         /\ u.cell[t.x] = line
<1>1. t.cell \in Screen(r) /\ t.x \in 1 .. r /\ t.y \in 1 .. Cols
  BY TermFact
<1>2. PICK cell : cell = [t.cell EXCEPT ![t.x] = line]
  OBVIOUS
<1>3. cell \in Screen(r) /\ cell[t.x] = line /\ \A i \in 1 .. r : i # t.x => cell[i] = t.cell[i]
  BY <1>1, <1>2 DEF Screen
<1>4. u = [t EXCEPT !.cell = cell]
  BY <1>2 DEF LineAs
<1>5. u \in TermOf(r) /\ u.x = t.x /\ u.y = t.y /\ u.cell = cell /\ Steady(t, u)
  BY <1>3, <1>4, Celled
<1> QED BY <1>3, <1>5

(* Only the cursor's line has changed, here and there.                     *)
LEMMA LineDrawn ==
  ASSUME NEW a, NEW r, NEW s, Mirrored(a, r, s), NEW z, NEW line \in [1 .. Cols -> Cells],
         Kin(s.w, z.w), z.w.sattr = s.w.sattr, z.w.x = s.w.x, z.w.y = s.w.y,
         z.w.mem[s.w.x] = line, \A i \in 1 .. s.w.rows : i # s.w.x => z.w.mem[i] = s.w.mem[i],
         z.t = LineAs(s.t, line), \A j \in 1 .. Cols : line[j] \in Shades(a)
  PROVE  After(a, r, s, z)
<1>1. PICK x, n, off, u : x = s.w.x /\ n = s.w.rows /\ off = s.w.off /\ u = z.t
  OBVIOUS
<1>2. /\ x \in 1 .. n /\ off \in Nat /\ n \in Nat /\ off + n <= r /\ r \in Nat
      /\ s.t.x = x + off /\ s.t.y = Column(s.w.y)
  BY <1>1, MirrorFact
<1>3. s.t \in TermOf(r) /\ s.w.sattr \in Lit(a)
  BY DEF Mirrored, Tame
<1>4. /\ u \in TermOf(r) /\ Steady(s.t, u) /\ u.x = s.t.x /\ u.y = s.t.y
      /\ \A i \in 1 .. r : i # s.t.x => u.cell[i] = s.t.cell[i]
      /\ u.cell[s.t.x] = line
  BY <1>1, <1>2, <1>3, LineIs
<1>5. \A i \in 1 .. n : s.t.cell[off + i] = s.w.mem[i]
  BY <1>1 DEF Mirrored, Shows
<1>6. \A i \in 1 .. n : u.cell[off + i] = z.w.mem[i]
  <2>1. \A i \in 1 .. n : off + i \in 1 .. r /\ (i # x => off + i # s.t.x) /\ off + x = s.t.x
    BY <1>2
  <2> QED BY <1>1, <1>4, <1>5, <2>1
<1>7. \A i \in 1 .. r : i \notin (off + 1) .. (off + n) => u.cell[i] = s.t.cell[i]
  <2>1. s.t.x \in (off + 1) .. (off + n)
    BY <1>2
  <2> QED BY <1>4, <2>1
<1>8. \A i \in 1 .. n : \A j \in 1 .. Cols : z.w.mem[i][j] \in Shades(a)
  <2>1. \A i \in 1 .. n : \A j \in 1 .. Cols : s.w.mem[i][j] \in Shades(a)
    BY <1>1 DEF Mirrored, Tame
  <2> QED BY <1>1, <2>1
<1> QED BY <1>1, <1>2, <1>3, <1>4, <1>6, <1>7, <1>8, Drawn

(* A part of the cursor's line is erased in the memory.                    *)
OtherLines(w, v) == \A i \in 1 .. w.rows : i # w.x => v.mem[i] = w.mem[i]

LEMMA LineErased ==
  ASSUME NEW w, Sound(w), NEW y1 \in 1 .. Cols, NEW y2 \in 1 .. Cols, y1 <= y2, NEW v, v = EraseVideo(w, w.x, w.x, y1, y2)
  PROVE  /\ Kin(w, v) /\ v.sattr = w.sattr /\ v.x = w.x /\ v.y = w.y
         /\ v.mem[w.x] = Erased(w.mem[w.x], y1, y2)
         /\ OtherLines(w, v)
<1>1. w.mem \in Screen(w.rows) /\ w.x \in 1 .. w.rows /\ w.rows \in Nat /\ Cols \in Nat
  BY MemFact, LineFact, RowsFact, ColsAssumption
<1>2. PICK mem : mem = [i \in DOMAIN w.mem |-> [j \in 1 .. Cols |->
                          IF i \in w.x .. w.x /\ j \in y1 .. y2 THEN {} ELSE w.mem[i][j]]]
  OBVIOUS
<1>3. v = MemoryAs(w, mem)
  BY <1>1, <1>2 DEF EraseVideo, Inside, MemoryAs
<1>4. Kin(w, v) /\ v.sattr = w.sattr /\ v.mem = mem /\ v.x = w.x /\ v.y = w.y
  BY <1>3, WindowMem
<1>5. mem[w.x] = [j \in 1 .. Cols |-> IF j \in y1 .. y2 THEN {} ELSE w.mem[w.x][j]]
  <2>1. w.x \in DOMAIN w.mem /\ w.x \in w.x .. w.x
    BY <1>1 DEF Screen
  <2>2. mem[w.x] = [j \in 1 .. Cols |-> IF w.x \in w.x .. w.x /\ j \in y1 .. y2 THEN {} ELSE w.mem[w.x][j]]
    BY <1>2, <2>1
  <2> QED BY <2>1, <2>2
<1>6. ASSUME NEW i \in 1 .. w.rows, i # w.x PROVE mem[i] = w.mem[i]
  <2>1. mem[i] = [j \in 1 .. Cols |-> w.mem[i][j]]
    BY <1>1, <1>2, <1>6 DEF Screen
  <2> QED BY <1>1, <2>1 DEF Screen
<1> QED BY <1>4, <1>5, <1>6 DEF Erased, OtherLines

LEMMA LineFacts ==
  ASSUME NEW a, NEW r, NEW s, Mirrored(a, r, s), s.w.y <= Cols
  PROVE  /\ s.w.y \in 1 .. Cols /\ s.t.y = s.w.y /\ s.w.x \in 1 .. s.w.rows /\ Cols \in Nat /\ Cols >= 1
         /\ s.w.mem[s.w.x] \in [1 .. Cols -> Cells] /\ s.t.cell[s.t.x] = s.w.mem[s.w.x]
         /\ \A j \in 1 .. Cols : s.w.mem[s.w.x][j] \in Shades(a)
         /\ s.t.cell \in Screen(r) /\ s.t.x \in 1 .. r
<1>1. s.w.y \in 1 .. Cols /\ s.t.y = s.w.y /\ s.w.x \in 1 .. s.w.rows /\ Cols \in Nat /\ Cols >= 1
  BY MirrorFact DEF Column
<1>2. Sound(s.w) /\ s.t \in TermOf(r)
  BY DEF Mirrored
<1>3. s.w.mem[s.w.x] \in [1 .. Cols -> Cells]
  BY <1>1, <1>2, MemFact DEF Screen
<1>4. s.t.x = s.w.off + s.w.x
  <2>1. s.t.x = s.w.x + s.w.off /\ s.w.off \in Nat /\ s.w.rows \in Nat
    BY MirrorFact
  <2> QED BY <1>1, <2>1
<1>5. s.t.cell[s.t.x] = s.w.mem[s.w.x]
  BY <1>1, <1>4 DEF Mirrored, Shows
<1>6. \A j \in 1 .. Cols : s.w.mem[s.w.x][j] \in Shades(a)
  BY <1>1 DEF Mirrored, Tame
<1> QED BY <1>1, <1>2, <1>3, <1>5, <1>6, TermFact

LEMMA ErasedAfter ==
  ASSUME NEW a, NEW r, NEW s, Mirrored(a, r, s), s.w.y <= Cols, NEW y1 \in 1 .. Cols, NEW y2 \in 1 .. Cols, y1 <= y2,
         NEW z, z.w = EraseVideo(s.w, s.w.x, s.w.x, y1, y2), z.t = EraseCells(s.t, y1, y2)
  PROVE  After(a, r, s, z)
<1>1. PICK line : line = Erased(s.w.mem[s.w.x], y1, y2)
  OBVIOUS
<1>2. line \in [1 .. Cols -> Cells] /\ \A j \in 1 .. Cols : line[j] \in Shades(a)
  <2>1. {} \in Cells /\ {} \in Shades(a)
    BY DEF Cells, Shades
  <2> QED BY <1>1, <2>1, LineFacts DEF Erased
<1>3. z.t = LineAs(s.t, line)
  <2>1. z.t = LineAs(s.t, Erased(s.t.cell[s.t.x], y1, y2))
    BY DEF EraseCells, LineAs, Erased
  <2> QED BY <1>1, <2>1, LineFacts
<1>4. PICK v : v = z.w
  OBVIOUS
<1>5. v = EraseVideo(s.w, s.w.x, s.w.x, y1, y2) /\ Sound(s.w)
  BY <1>4 DEF Mirrored
<1>6. /\ Kin(s.w, v) /\ v.sattr = s.w.sattr /\ v.x = s.w.x /\ v.y = s.w.y
      /\ v.mem[s.w.x] = Erased(s.w.mem[s.w.x], y1, y2) /\ OtherLines(s.w, v)
  BY <1>5, LineErased
<1> QED BY <1>1, <1>2, <1>3, <1>4, <1>6, LineDrawn DEF OtherLines

LEMMA ClearLineAfter ==
  ASSUME NEW a, NEW r, NEW s, Mirrored(a, r, s), s.w.y <= Cols, NEW n, NEW z, z = ClearLine(s, n)
  PROVE  After(a, r, s, z)
<1> DEFINE y == s.w.y
<1>0. /\ y \in 1 .. Cols /\ s.t.y = y /\ 1 \in 1 .. Cols /\ Cols \in 1 .. Cols
      /\ 1 <= Cols /\ 1 <= y /\ y <= Cols
  <2>1. s.w.y \in 1 .. Cols /\ s.t.y = s.w.y /\ Cols \in Nat /\ Cols >= 1
    BY LineFacts
  <2> QED BY <2>1
<1>1. CASE n = 0
  <2>1. z.w = EraseVideo(s.w, s.w.x, s.w.x, y, Cols) /\ z.t = EraseCells(s.t, y, Cols)
    BY <1>0, <1>1 DEF ClearLine, ClrEol
  <2> QED BY <1>0, <2>1, ErasedAfter
<1>2. CASE n = 1
  <2>1. z.w = EraseVideo(s.w, s.w.x, s.w.x, 1, y) /\ z.t = EraseCells(s.t, 1, y)
    BY <1>0, <1>2 DEF ClearLine, ClrBgl
  <2> QED BY <1>0, <2>1, ErasedAfter
<1>3. CASE n = 2
  <2>1. z.w = EraseVideo(s.w, s.w.x, s.w.x, 1, Cols) /\ z.t = EraseCells(s.t, 1, Cols)
    BY <1>0, <1>3 DEF ClearLine, ClrLine
  <2> QED BY <1>0, <2>1, ErasedAfter
<1>4. CASE n \notin {0, 1, 2}
  BY <1>4, Unchanged DEF ClearLine
<1> QED BY <1>1, <1>2, <1>3, <1>4

LEMMA DeleteUnderAfter ==
  ASSUME NEW a, NEW r, NEW s, Mirrored(a, r, s), s.w.y <= Cols, NEW n \in Nat,
         \A j \in (s.w.y + 1) .. Cols : s.w.mem[s.w.x][j] = {}, NEW z, z = DeleteUnder(s, n)
  PROVE  After(a, r, s, z)
<1>0. PICK y, old, d : /\ y = s.w.y /\ y \in 1 .. Cols /\ s.t.y = y /\ old = s.w.mem[s.w.x] /\ old \in [1 .. Cols -> Cells]
                       /\ s.t.cell[s.t.x] = old /\ d = Count(n) /\ d \in Nat \ {0} /\ Cols \in Nat
  <2>1. PICK y, old, d : y = s.w.y /\ old = s.w.mem[s.w.x] /\ d = Count(n)
    OBVIOUS
  <2>2. d \in Nat \ {0}
    BY <2>1 DEF Count
  <2>3. /\ y \in 1 .. Cols /\ s.t.y = y /\ Cols \in Nat /\ old \in [1 .. Cols -> Cells]
        /\ s.t.cell[s.t.x] = old
    <3>1. /\ s.w.y \in 1 .. Cols /\ s.t.y = s.w.y /\ s.w.x \in 1 .. s.w.rows /\ Cols \in Nat /\ Cols >= 1
          /\ s.w.mem[s.w.x] \in [1 .. Cols -> Cells] /\ s.t.cell[s.t.x] = s.w.mem[s.w.x]
          /\ \A j \in 1 .. Cols : s.w.mem[s.w.x][j] \in Shades(a)
          /\ s.t.cell \in Screen(r) /\ s.t.x \in 1 .. r
      BY LineFacts
    <3> QED BY <2>1, <3>1
  <2> QED BY <2>1, <2>2, <2>3
<1>1. PICK line : line = Erased(old, y, y)
  OBVIOUS
<1>2. line \in [1 .. Cols -> Cells] /\ \A j \in 1 .. Cols : line[j] \in Shades(a)
  <2>1. {} \in Cells /\ {} \in Shades(a)
    BY DEF Cells, Shades
  <2>2. \A j \in 1 .. Cols : old[j] \in Shades(a)
    BY <1>0, LineFacts
  <2> QED BY <1>0, <1>1, <2>1, <2>2 DEF Erased
<1>3. line = [j \in 1 .. Cols |-> IF j < y THEN old[j] ELSE IF j + d <= Cols THEN old[j + d] ELSE {}]
  <2>1. \A j \in (y + 1) .. Cols : old[j] = {}
    BY <1>0
  <2>2. ASSUME NEW j \in 1 .. Cols
        PROVE  line[j] = IF j < y THEN old[j] ELSE IF j + d <= Cols THEN old[j + d] ELSE {}
    <3>1. line[j] = IF j = y THEN {} ELSE old[j]
      BY <1>0, <1>1 DEF Erased
    <3>2. j > y => old[j] = {}
      BY <1>0, <2>1
    <3>3. j >= y /\ j + d <= Cols => j + d \in (y + 1) .. Cols
      BY <1>0
    <3>4. j >= y /\ j + d <= Cols => old[j + d] = {}
      BY <2>1, <3>3
    <3>5. CASE j < y
      <4>1. j # y
        BY <1>0, <3>5
      <4> QED BY <3>1, <3>5, <4>1
    <3>6. CASE ~(j < y)
      <4>1. line[j] = {}
        BY <1>0, <3>1, <3>2, <3>6
      <4>2. j >= y
        BY <1>0, <3>6
      <4> QED BY <3>4, <3>6, <4>1, <4>2
    <3> QED BY <3>5, <3>6
  <2> QED BY <1>1, <2>2 DEF Erased
<1>4. z.t = LineAs(s.t, line)
  BY <1>0, <1>3 DEF DeleteUnder, DeleteChars, LineAs
<1>5. PICK v : v = z.w
  OBVIOUS
<1>6. v = EraseVideo(s.w, s.w.x, s.w.x, y, y) /\ Sound(s.w) /\ y <= y
  BY <1>0, <1>5 DEF DeleteUnder, Mirrored
<1>7. /\ Kin(s.w, v) /\ v.sattr = s.w.sattr /\ v.x = s.w.x /\ v.y = s.w.y
      /\ v.mem[s.w.x] = Erased(s.w.mem[s.w.x], y, y) /\ OtherLines(s.w, v)
  BY <1>0, <1>6, LineErased
<1> QED BY <1>0, <1>1, <1>2, <1>4, <1>5, <1>7, LineDrawn DEF OtherLines

LEMMA InsertBlanksAfter ==
  ASSUME NEW a, NEW r, NEW s, Mirrored(a, r, s), s.w.y <= Cols, NEW n \in Nat, Count(n) = 1,
         \A j \in s.w.y .. Cols : s.w.mem[s.w.x][j] = {}, NEW z, z = InsertBlanks(s, n)
  PROVE  After(a, r, s, z)
<1>0. PICK x, y, old : /\ x = s.w.x /\ y = s.w.y /\ y \in 1 .. Cols /\ s.t.y = y /\ old = s.w.mem[s.w.x]
                       /\ old \in [1 .. Cols -> Cells] /\ s.t.cell[s.t.x] = old /\ Cols \in Nat /\ x \in 1 .. s.w.rows
  BY LineFacts
<1>1. Sound(s.w)
  BY DEF Mirrored
<1>2. \A j \in y .. Cols : old[j] = {}
  BY <1>0
<1>3. \A j \in 1 .. Cols : old[j] \in Shades(a)
  BY <1>0, LineFacts
<1>4. z.t = LineAs(s.t, old)
  <2>1. old = [j \in 1 .. Cols |-> IF j < y THEN old[j] ELSE IF j - 1 >= y THEN old[j - 1] ELSE {}]
    <3>1. ASSUME NEW j \in 1 .. Cols
          PROVE  old[j] = IF j < y THEN old[j] ELSE IF j - 1 >= y THEN old[j - 1] ELSE {}
      <4>1. ~(j < y) => old[j] = {}
        BY <1>0, <1>2
      <4>2. j - 1 >= y => j - 1 \in y .. Cols
        BY <1>0
      <4>3. j - 1 >= y => old[j - 1] = {}
        BY <1>2, <4>2
      <4> QED BY <1>0, <4>1, <4>3
    <3> QED BY <1>0, <3>1
  <2>2. z.t = [s.t EXCEPT !.cell[s.t.x] = [j \in 1 .. Cols |->
                 IF j < y THEN old[j] ELSE IF j - 1 >= y THEN old[j - 1] ELSE {}]]
    BY <1>0 DEF InsertBlanks, InsertChars
  <2> QED BY <2>1, <2>2 DEF LineAs
<1>5. z.w \in {s.w, MemoryAs(s.w, [s.w.mem EXCEPT ![x] = old])}
  <2>1. CASE y >= Cols
    BY <1>0, <2>1 DEF InsertBlanks, RShiftVideo
  <2>2. CASE ~(y >= Cols)
    <3>1. z.w = MemoryAs(s.w, [s.w.mem EXCEPT ![x] = [j \in 1 .. Cols |->
                    IF j <= y THEN old[j] ELSE IF j - 1 >= 1 THEN old[j - 1] ELSE {}]])
      BY <1>0, <2>2 DEF InsertBlanks, RShiftVideo, Inside, MemoryAs
    <3>2. ASSUME NEW j \in 1 .. Cols
          PROVE  old[j] = IF j <= y THEN old[j] ELSE IF j - 1 >= 1 THEN old[j - 1] ELSE {}
      <4>1. ~(j <= y) => old[j] = {}
        BY <1>0, <1>2
      <4>2. ~(j <= y) => j - 1 \in y .. Cols
        BY <1>0
      <4>3. ~(j <= y) => old[j - 1] = {}
        BY <1>2, <4>2
      <4> QED BY <1>0, <4>1, <4>3
    <3>3. old = [j \in 1 .. Cols |-> IF j <= y THEN old[j] ELSE IF j - 1 >= 1 THEN old[j - 1] ELSE {}]
      BY <1>0, <3>2
    <3> QED BY <3>1, <3>3
  <2> QED BY <2>1, <2>2
<1>6. s.w.mem \in Screen(s.w.rows)
  BY <1>1, MemFact
<1>7. [s.w.mem EXCEPT ![x] = old] = s.w.mem
  BY <1>0, <1>6 DEF Screen
<1>8. MemoryAs(s.w, s.w.mem) = s.w
  BY <1>1 DEF MemoryAs, Sound, WindowOf
<1>9. z.w = s.w
  BY <1>5, <1>7, <1>8
<1> QED BY <1>0, <1>3, <1>4, <1>9, LineDrawn DEF Kin

(* Where the lines of the region are blank, moving them changes nothing.   *)
BlankLines(cell, p, q) == \A i \in p .. q : cell[i] = BlankRow
SameLines(r, cell, new) == \A i \in 1 .. r : new[i] = cell[i]

LEMMA RolledBlank ==
  ASSUME NEW r \in Nat, NEW cell \in Screen(r), NEW p \in 1 .. r, NEW q \in 1 .. r, BlankLines(cell, p, q)
  PROVE  SameLines(r, cell, RolledUp(cell, p, q)) /\ SameLines(r, cell, RolledDown(cell, p, q))
<1>0. \A i \in p .. q : cell[i] = BlankRow
  BY DEF BlankLines
<1> SUFFICES ASSUME NEW i \in 1 .. r
             PROVE  RolledUp(cell, p, q)[i] = cell[i] /\ RolledDown(cell, p, q)[i] = cell[i]
  BY DEF SameLines
<1>1. RolledUp(cell, p, q)[i] = (IF i \in p .. (q - 1) THEN cell[i + 1] ELSE IF i = q /\ p <= q THEN BlankRow ELSE cell[i])
  BY DEF RolledUp, Screen
<1>2. RolledDown(cell, p, q)[i] = (IF i \in (p + 1) .. q THEN cell[i - 1] ELSE IF i = p /\ p <= q THEN BlankRow ELSE cell[i])
  BY DEF RolledDown, Screen
<1>3. i \in p .. (q - 1) => i + 1 \in p .. q /\ i \in p .. q
  OBVIOUS
<1>4. i \in (p + 1) .. q => i - 1 \in p .. q /\ i \in p .. q
  OBVIOUS
<1>5. (i = q \/ i = p) /\ p <= q => i \in p .. q
  OBVIOUS
<1>6. RolledUp(cell, p, q)[i] = cell[i]
  BY <1>0, <1>1, <1>3, <1>5
<1>7. RolledDown(cell, p, q)[i] = cell[i]
  BY <1>0, <1>2, <1>4, <1>5
<1> QED BY <1>6, <1>7

(* However many lines the terminal is asked to insert or delete.           *)
LEMMA MovedBlank ==
  ASSUME NEW r \in Nat, NEW t \in TermOf(r), BlankLines(t.cell, t.x, t.bottom), NEW c,
         NEW u \in {InsertLine(t, c), DeleteLine(t, c)}
  PROVE  u \in TermOf(r) /\ Steady(t, u) /\ u.x = t.x /\ u.y = t.y /\ SameLines(r, t.cell, u.cell)
<1>1. PICK cell, n : cell = t.cell /\ n = Count(c)
  OBVIOUS
<1>2. cell \in Screen(r)
  BY <1>1, TermFact
<1>3. CASE u = t
  BY <1>3 DEF Steady, SameLines
<1>4. CASE u # t
  <2> DEFINE in == LinesFrom(t)
             Later(i) == IF i \notin in THEN cell[i] ELSE IF i - n \in in THEN cell[i - n] ELSE BlankRow
             Sooner(i) == IF i \notin in THEN cell[i] ELSE IF i + n \in in THEN cell[i + n] ELSE BlankRow
  <2>1. DOMAIN t.cell = 1 .. r
    BY <1>1, <1>2 DEF Screen
  <2>2. PICK new : u = [t EXCEPT !.cell = new] /\ new \in {[i \in 1 .. r |-> Later(i)], [i \in 1 .. r |-> Sooner(i)]}
    BY <1>1, <1>4, <2>1 DEF InsertLine, DeleteLine
  <2>3. \A i \in in : cell[i] = BlankRow
    BY <1>1 DEF BlankLines, LinesFrom
  <2>4. ASSUME NEW i \in 1 .. r PROVE Later(i) = cell[i] /\ Sooner(i) = cell[i]
    BY <2>3
  <2> HIDE DEF in, Later, Sooner
  <2>5. \A i \in 1 .. r : new[i] = cell[i]
    BY <2>2, <2>4
  <2>6. new = cell
    BY <1>2, <2>2, <2>5 DEF Screen
  <2> QED BY <1>1, <1>2, <2>2, <2>6, Celled DEF SameLines
<1> QED BY <1>3, <1>4

LEMMA LinesAfter ==
  ASSUME NEW a, NEW r, NEW s, Mirrored(a, r, s), NEW c, NEW z, z \in {InsertLines(s, c), DeleteLines(s, c)},
         \A i \in s.w.up .. s.w.low : \A j \in 1 .. Cols : s.w.mem[i][j] = {}
  PROVE  After(a, r, s, z)
<1>1. PICK n, off, up, low, mem, cell, p : n = s.w.rows /\ off = s.w.off /\ up = s.w.up /\ low = s.w.low
                                   /\ mem = s.w.mem /\ cell = s.t.cell /\ p = s.t.x
  OBVIOUS
<1>2. /\ n \in Nat /\ off \in Nat /\ r \in Nat /\ off + n <= r /\ up \in 1 .. n /\ low \in 1 .. n /\ up < low
      /\ s.t.top = up + off /\ s.t.bottom = low + off /\ s.t.x = s.w.x + off /\ s.w.x \in 1 .. n /\ p \in 1 .. r
  BY <1>1, MirrorFact
<1>3. /\ mem \in Screen(n) /\ cell \in Screen(r) /\ \A i \in 1 .. n : cell[off + i] = mem[i]
      /\ Sound(s.w) /\ s.t \in TermOf(r)
  BY <1>1, MemFact, TermFact DEF Mirrored, Shows
<1>4. ASSUME NEW i \in up .. low PROVE mem[i] = BlankRow
  <2>1. i \in 1 .. n
    BY <1>2
  <2>2. mem[i] \in [1 .. Cols -> Cells] /\ \A j \in 1 .. Cols : mem[i][j] = {}
    BY <1>1, <1>3, <2>1 DEF Screen
  <2> QED BY <2>2 DEF BlankRow
<1>5. ASSUME NEW i \in (up + off) .. (low + off) PROVE cell[i] = BlankRow
  <2>1. PICK k : k = i - off
    OBVIOUS
  <2>2. k \in up .. low /\ k \in 1 .. n /\ off + k = i
    BY <1>2, <2>1
  <2> QED BY <1>3, <1>4, <2>2
<1>6. PICK v : v = z.w
  OBVIOUS
<1>7. /\ Kin(s.w, v) /\ v.sattr = s.w.sattr /\ v.x = s.w.x /\ v.y = s.w.y
      /\ \A i \in 1 .. n : v.mem[i] = mem[i]
  <2>1. CASE v = s.w
    BY <1>1, <2>1 DEF Kin
  <2>2. CASE v # s.w
    <3>1. v = MemoryAs(s.w, RolledDown(mem, up, low))
      <4>1. v = RevScrollVideo(s.w)
        BY <1>6, <2>2 DEF InsertLines, DeleteLines, Mirrored
      <4>2. RegionInside(s.w) /\ ~(s.w.up > s.w.low)
        BY <1>1, <1>2 DEF RegionInside
      <4> QED BY <1>1, <2>2, <4>1, <4>2 DEF RevScrollVideo, MemoryAs
    <3>2. BlankLines(mem, up, low)
      BY <1>4 DEF BlankLines
    <3>3. SameLines(n, mem, RolledDown(mem, up, low))
      BY <1>2, <1>3, <3>2, RolledBlank
    <3> QED BY <1>3, <3>1, <3>3, WindowMem DEF SameLines
  <2> QED BY <2>1, <2>2
<1>8. PICK u : u = z.t
  OBVIOUS
<1>9. u \in TermOf(r) /\ Steady(s.t, u) /\ u.x = s.t.x /\ u.y = s.t.y /\ \A i \in 1 .. r : u.cell[i] = cell[i]
  <2>1. CASE u = s.t
    BY <1>1, <1>3, <2>1 DEF Steady
  <2>2. CASE u # s.t
    <3>1. PICK q, t : q = low + off /\ t = s.t
      OBVIOUS
    <3>2. u \in {InsertLine(t, c), DeleteLine(t, c)}
      BY <1>8, <3>1 DEF InsertLines, DeleteLines, Mirrored
    <3>3. InRegion(t)
      BY <2>2, <3>1, <3>2 DEF InsertLine, DeleteLine
    <3>4. p \in (up + off) .. q
      BY <1>1, <1>2, <3>1, <3>3 DEF InRegion
    <3>5. BlankLines(cell, p, q)
      BY <1>2, <1>5, <3>1, <3>4 DEF BlankLines
    <3>6. BlankLines(t.cell, t.x, t.bottom) /\ t \in TermOf(r)
      BY <1>1, <1>2, <1>3, <3>1, <3>5
    <3>7. u \in TermOf(r) /\ Steady(t, u) /\ u.x = t.x /\ u.y = t.y /\ SameLines(r, t.cell, u.cell)
      BY <1>2, <3>2, <3>6, MovedBlank
    <3> QED BY <1>1, <3>1, <3>7 DEF SameLines
  <2> QED BY <2>1, <2>2
<1>10. \A i \in 1 .. n : \A j \in 1 .. Cols : v.mem[i][j] \in Shades(a)
  BY <1>1, <1>7 DEF Mirrored, Tame
<1>11. \A i \in 1 .. n : u.cell[off + i] = v.mem[i]
  BY <1>2, <1>3, <1>7, <1>9
<1>12. s.w.sattr \in Lit(a) /\ u.x = v.x + off /\ u.y = Column(v.y)
  BY <1>1, <1>2, <1>7, <1>9, MirrorFact DEF Mirrored, Tame
<1> QED BY <1>1, <1>6, <1>7, <1>8, <1>9, <1>10, <1>11, <1>12, Drawn

------------------------------------------------------------------------------
(* Functions that are defined by going on from the value before.           *)

RunOf(n, x, F, c) == c = [k \in 0 .. n |-> IF k = 0 THEN x ELSE F[<<k, c[k - 1]>>]]

LEMMA Iterates ==
  ASSUME NEW S, NEW n \in Nat, NEW x \in S, NEW F \in [(1 .. n) \X S -> S]
  PROVE  \E c \in [0 .. n -> S] : RunOf(n, x, F, c)
<1> DEFINE Runs(m) == {c \in [0 .. m -> S] : \A k \in 0 .. m : c[k] = IF k = 0 THEN x ELSE F[<<k, c[k - 1]>>]}
           Bad == {m \in 0 .. n : Runs(m) = {}}
<1>1. Bad = {}
  <2> SUFFICES ASSUME Bad # {} PROVE FALSE
    OBVIOUS
  <2>1. Bad \subseteq Nat
    OBVIOUS
  <2>2. PICK m \in Bad : \A j \in Bad : m <= j
    <3> HIDE DEF Bad
    <3> QED BY <2>1, Least
  <2>3. m \in 0 .. n /\ Runs(m) = {} /\ \A j \in 0 .. n : j < m => Runs(j) # {}
    <3> HIDE DEF Runs
    <3>1. m \in 0 .. n /\ Runs(m) = {}
      OBVIOUS
    <3>2. ASSUME NEW j \in 0 .. n, j < m, Runs(j) = {} PROVE FALSE
      <4>1. j \in Bad
        BY <3>2
      <4> QED BY <2>2, <3>1, <3>2, <4>1
    <3> QED BY <3>1, <3>2
  <2>4. CASE m = 0
    <3>1. PICK c : c = [k \in 0 .. 0 |-> x]
      OBVIOUS
    <3>2. c \in [0 .. 0 -> S] /\ \A k \in 0 .. 0 : c[k] = IF k = 0 THEN x ELSE F[<<k, c[k - 1]>>]
      BY <3>1
    <3> QED BY <2>3, <2>4, <3>2
  <2>5. CASE m # 0
    <3>1. m - 1 \in 0 .. n /\ m - 1 < m /\ m \in 1 .. n
      BY <2>3, <2>5
    <3>2. PICK d : d \in Runs(m - 1)
      BY <2>3, <3>1
    <3>3. /\ d \in [0 .. (m - 1) -> S]
          /\ \A k \in 0 .. (m - 1) : d[k] = IF k = 0 THEN x ELSE F[<<k, d[k - 1]>>]
      BY <3>2
    <3>4. PICK last : last = F[<<m, d[m - 1]>>]
      OBVIOUS
    <3>5. last \in S
      <4>1. <<m, d[m - 1]>> \in (1 .. n) \X S
        BY <3>1, <3>3
      <4> QED BY <3>4, <4>1
    <3>6. PICK c : c = [k \in 0 .. m |-> IF k = m THEN last ELSE d[k]]
      OBVIOUS
    <3>7. c \in [0 .. m -> S]
      <4>1. \A k \in 0 .. m : k # m => k \in 0 .. (m - 1)
        BY <3>1
      <4> QED BY <3>3, <3>5, <3>6, <4>1
    <3>8. ASSUME NEW k \in 0 .. m PROVE c[k] = IF k = 0 THEN x ELSE F[<<k, c[k - 1]>>]
      <4>1. CASE k = m
        <5>1. k # 0 /\ m - 1 \in 0 .. m /\ m - 1 # m
          BY <2>5, <3>1, <4>1
        <5>2. c[m - 1] = d[m - 1]
          BY <3>6, <5>1
        <5> QED BY <3>4, <3>6, <4>1, <5>1, <5>2
      <4>2. CASE k # m
        <5>1. k \in 0 .. (m - 1)
          BY <3>1, <4>2
        <5>2. c[k] = d[k]
          BY <3>6, <4>2
        <5>3. k # 0 => k - 1 \in 0 .. m /\ k - 1 # m
          BY <3>1, <5>1
        <5>4. k # 0 => c[k - 1] = d[k - 1]
          BY <3>6, <5>3
        <5> QED BY <3>3, <5>1, <5>2, <5>4
      <4> QED BY <4>1, <4>2
    <3>9. c \in Runs(m)
      BY <3>7, <3>8
    <3> QED BY <2>3, <3>9
  <2> QED BY <2>4, <2>5
<1>2. PICK c : c \in Runs(n)
  BY <1>1
<1>3. c \in [0 .. n -> S] /\ \A k \in 0 .. n : c[k] = IF k = 0 THEN x ELSE F[<<k, c[k - 1]>>]
  BY <1>2
<1>4. RunOf(n, x, F, c)
  BY <1>3 DEF RunOf
<1> QED BY <1>3, <1>4

(* What holds at 0 and goes from each number to the next.                  *)
LEMMA UpTo ==
  ASSUME NEW n \in Nat, NEW J, 0 \in J, \A k \in 1 .. n : k - 1 \in J => k \in J
  PROVE  \A k \in 0 .. n : k \in J
<1> DEFINE Bad == {k \in 0 .. n : k \notin J}
<1>1. Bad \subseteq Nat
  OBVIOUS
<1>2. CASE Bad # {}
  <2>1. PICK m \in Bad : \A j \in Bad : m <= j
    <3> HIDE DEF Bad
    <3> QED BY <1>1, <1>2, Least
  <2>2. m \in 0 .. n /\ m \notin J /\ m # 0
    BY <2>1
  <2>3. m \in 1 .. n /\ m - 1 \in 0 .. n /\ m - 1 < m
    BY <2>2
  <2>4. m - 1 \in J
    BY <2>1, <2>3
  <2> QED BY <2>2, <2>3, <2>4
<1>3. CASE Bad = {}
  BY <1>3
<1> QED BY <1>2, <1>3

DownRun(t, lines) == CHOOSE c : c = [k \in 0 .. lines |-> IF k = 0 THEN t ELSE LF(ClrEol(c[k - 1]))]
UpRun(t, lines) == CHOOSE c : c = [k \in 0 .. lines |-> IF k = 0 THEN t ELSE Up(ClrEol(c[k - 1]), 1)]

LEMMA RunsAre ==
  ASSUME NEW t, NEW lines
  PROVE  /\ ClearedDown(t, lines) = ClrEol(DownRun(t, lines)[lines])
         /\ ClearedUp(t, lines) = ClrEol(UpRun(t, lines)[lines])
BY DEF ClearedDown, ClearedUp, DownRun, UpRun

(* Line by line, downwards and upwards.                                    *)
LEMMA DownRunGoes ==
  ASSUME NEW r \in Nat, NEW t \in TermOf(r), NEW lines \in Nat, NEW c, c = DownRun(t, lines)
  PROVE  c[0] = t /\ \A k \in 1 .. lines : c[k] = LF(ClrEol(c[k - 1]))
<1> DEFINE S == TermOf(r)
<1>1. ASSUME NEW u \in S PROVE LF(ClrEol(u)) \in S
  <2>1. PICK v, z : v = ClrEol(u) /\ z = LF(v)
    OBVIOUS
  <2>2. v \in TermOf(r)
    BY <2>1, EraseIs DEF ClrEol
  <2>3. z \in TermOf(r)
    BY <2>1, <2>2, LFIs
  <2> QED BY <2>1, <2>3
<1>2. PICK F : F = [p \in (1 .. lines) \X S |-> LF(ClrEol(p[2]))]
  OBVIOUS
<1>3. F \in [(1 .. lines) \X S -> S]
  <2>1. \A p \in (1 .. lines) \X S : p[2] \in S
    OBVIOUS
  <2> HIDE DEF S
  <2> QED BY <1>1, <1>2, <2>1
<1>4. PICK d \in [0 .. lines -> S] : RunOf(lines, t, F, d)
  <2> HIDE DEF S
  <2>1. t \in S
    BY DEF S
  <2> QED BY <1>3, <2>1, Iterates
<1>5. \A k \in 0 .. lines : k # 0 => F[<<k, d[k - 1]>>] = LF(ClrEol(d[k - 1]))
  <2> HIDE DEF S
  <2> TAKE k \in 0 .. lines
  <2> HAVE k # 0
  <2>1. k \in 1 .. lines /\ k - 1 \in 0 .. lines
    OBVIOUS
  <2>2. d[k - 1] \in S
    BY <1>4, <2>1
  <2>3. <<k, d[k - 1]>> \in (1 .. lines) \X S
    BY <2>1, <2>2
  <2> QED BY <1>2, <2>3
<1>6. d = [k \in 0 .. lines |-> IF k = 0 THEN t ELSE LF(ClrEol(d[k - 1]))]
  <2>1. \A k \in 0 .. lines : d[k] = IF k = 0 THEN t ELSE LF(ClrEol(d[k - 1]))
    <3> HIDE DEF S
    <3> TAKE k \in 0 .. lines
    <3>1. d[k] = IF k = 0 THEN t ELSE F[<<k, d[k - 1]>>]
      BY <1>4 DEF RunOf
    <3> QED BY <1>5, <3>1
  <2> HIDE DEF S
  <2> QED BY <1>4, <2>1
<1>7. c = [k \in 0 .. lines |-> IF k = 0 THEN t ELSE LF(ClrEol(c[k - 1]))]
  <2> HIDE DEF S
  <2>1. \E e : e = [k \in 0 .. lines |-> IF k = 0 THEN t ELSE LF(ClrEol(e[k - 1]))]
    BY <1>6, Zenon
  <2> QED BY <2>1, Zenon DEF DownRun
<1>8. ASSUME NEW k \in 0 .. lines PROVE c[k] = IF k = 0 THEN t ELSE LF(ClrEol(c[k - 1]))
  BY <1>7, Zenon
<1> HIDE DEF S
<1>9. c[0] = t
  BY <1>8
<1>10. ASSUME NEW k \in 1 .. lines PROVE c[k] = LF(ClrEol(c[k - 1]))
  <2>1. k \in 0 .. lines /\ k # 0
    OBVIOUS
  <2> QED BY <1>8, <2>1
<1> QED BY <1>9, <1>10

LEMMA UpRunGoes ==
  ASSUME NEW r \in Nat, NEW t \in TermOf(r), NEW lines \in Nat, NEW c, c = UpRun(t, lines)
  PROVE  c[0] = t /\ \A k \in 1 .. lines : c[k] = Up(ClrEol(c[k - 1]), 1)
<1> DEFINE S == TermOf(r)
<1>1. ASSUME NEW u \in S PROVE Up(ClrEol(u), 1) \in S
  <2>1. PICK v, z : v = ClrEol(u) /\ z = Up(v, 1)
    OBVIOUS
  <2>2. v \in TermOf(r)
    BY <2>1, EraseIs DEF ClrEol
  <2>3. PICK row, col : /\ row = (IF v.x >= v.top THEN Between(v.top, v.x - Count(1), v.x) ELSE v.x - Count(1))
                        /\ col = v.y
    OBVIOUS
  <2>4. v.x \in 1 .. r /\ v.top \in 1 .. r /\ v.y \in 1 .. Cols
    BY <2>2, TermFact
  <2>5. row \in Int /\ col \in Int
    BY <2>3, <2>4, ColsAssumption DEF Between, Count
  <2>6. z = Goto(v, row, col)
    BY <2>1, <2>3 DEF Up
  <2>7. z \in TermOf(r)
    BY <2>2, <2>5, <2>6, GotoIs
  <2> QED BY <2>1, <2>7
<1>2. PICK F : F = [p \in (1 .. lines) \X S |-> Up(ClrEol(p[2]), 1)]
  OBVIOUS
<1>3. F \in [(1 .. lines) \X S -> S]
  <2>1. \A p \in (1 .. lines) \X S : p[2] \in S
    OBVIOUS
  <2> HIDE DEF S
  <2> QED BY <1>1, <1>2, <2>1
<1>4. PICK d \in [0 .. lines -> S] : RunOf(lines, t, F, d)
  <2> HIDE DEF S
  <2>1. t \in S
    BY DEF S
  <2> QED BY <1>3, <2>1, Iterates
<1>5. \A k \in 0 .. lines : k # 0 => F[<<k, d[k - 1]>>] = Up(ClrEol(d[k - 1]), 1)
  <2> HIDE DEF S
  <2> TAKE k \in 0 .. lines
  <2> HAVE k # 0
  <2>1. k \in 1 .. lines /\ k - 1 \in 0 .. lines
    OBVIOUS
  <2>2. d[k - 1] \in S
    BY <1>4, <2>1
  <2>3. <<k, d[k - 1]>> \in (1 .. lines) \X S
    BY <2>1, <2>2
  <2> QED BY <1>2, <2>3
<1>6. d = [k \in 0 .. lines |-> IF k = 0 THEN t ELSE Up(ClrEol(d[k - 1]), 1)]
  <2>1. \A k \in 0 .. lines : d[k] = IF k = 0 THEN t ELSE Up(ClrEol(d[k - 1]), 1)
    <3> HIDE DEF S
    <3> TAKE k \in 0 .. lines
    <3>1. d[k] = IF k = 0 THEN t ELSE F[<<k, d[k - 1]>>]
      BY <1>4 DEF RunOf
    <3> QED BY <1>5, <3>1
  <2> HIDE DEF S
  <2> QED BY <1>4, <2>1
<1>7. c = [k \in 0 .. lines |-> IF k = 0 THEN t ELSE Up(ClrEol(c[k - 1]), 1)]
  <2> HIDE DEF S
  <2>1. \E e : e = [k \in 0 .. lines |-> IF k = 0 THEN t ELSE Up(ClrEol(e[k - 1]), 1)]
    BY <1>6, Zenon
  <2> QED BY <2>1, Zenon DEF UpRun
<1>8. ASSUME NEW k \in 0 .. lines PROVE c[k] = IF k = 0 THEN t ELSE Up(ClrEol(c[k - 1]), 1)
  BY <1>7, Zenon
<1> HIDE DEF S
<1>9. c[0] = t
  BY <1>8
<1>10. ASSUME NEW k \in 1 .. lines PROVE c[k] = Up(ClrEol(c[k - 1]), 1)
  <2>1. k \in 0 .. lines /\ k # 0
    OBVIOUS
  <2> QED BY <1>8, <2>1
<1> QED BY <1>9, <1>10

(* Lines lo .. hi have been cleared, and the cursor is at the start of x.  *)
Cleared(r, t, u, lo, hi, x) ==
  /\ u \in TermOf(r) /\ Steady(t, u) /\ u.x = x /\ u.y = 1
  /\ \A i \in 1 .. r : u.cell[i] = IF i \in lo .. hi THEN BlankRow ELSE t.cell[i]

LEMMA ClearedLine ==
  ASSUME NEW r \in Nat, NEW t, NEW u, NEW lo \in Int, NEW hi \in Int, NEW x, Cleared(r, t, u, lo, hi, x), NEW v, v = ClrEol(u)
  PROVE  /\ v \in TermOf(r) /\ Steady(t, v) /\ v.x = x /\ v.y = 1
         /\ \A i \in 1 .. r : v.cell[i] = IF i = x \/ i \in lo .. hi THEN BlankRow ELSE t.cell[i]
<1>1. u \in TermOf(r) /\ Steady(t, u) /\ u.x = x /\ u.y = 1
  BY DEF Cleared
<1>2. PICK from, to : from = u.y /\ to = Cols
  OBVIOUS
<1>3. v = EraseCells(u, from, to)
  BY <1>2 DEF ClrEol
<1>4. /\ v \in TermOf(r) /\ Steady(u, v) /\ v.x = u.x /\ v.y = u.y
      /\ \A i \in 1 .. r : i # u.x => v.cell[i] = u.cell[i]
      /\ v.cell[u.x] = Erased(u.cell[u.x], from, to)
  BY <1>1, <1>3, EraseIs
<1>5. v.cell[x] = BlankRow
  BY <1>1, <1>2, <1>4 DEF BlankRow, Erased
<1>6. \A i \in 1 .. r : u.cell[i] = IF i \in lo .. hi THEN BlankRow ELSE t.cell[i]
  BY DEF Cleared
<1>7. \A i \in 1 .. r : v.cell[i] = IF i = x \/ i \in lo .. hi THEN BlankRow ELSE t.cell[i]
  BY <1>1, <1>4, <1>5, <1>6
<1>8. Steady(t, v)
  BY <1>1, <1>4 DEF Steady
<1> QED BY <1>1, <1>4, <1>7, <1>8

LEMMA DownClears ==
  ASSUME NEW r \in Nat, NEW t \in TermOf(r), t.y = 1, NEW lines \in Nat, t.x + lines <= t.bottom, NEW u, u = ClearedDown(t, lines)
  PROVE  Cleared(r, t, u, t.x, t.x + lines, t.x + lines)
<1>1. PICK c, x : c = DownRun(t, lines) /\ x = t.x
  OBVIOUS
<1>2. c[0] = t /\ \A k \in 1 .. lines : c[k] = LF(ClrEol(c[k - 1]))
  BY <1>1, DownRunGoes
<1>3. x \in 1 .. r /\ t.bottom \in 1 .. r /\ x + lines <= t.bottom
  BY <1>1, TermFact
<1> DEFINE J == {k \in 0 .. lines : Cleared(r, t, c[k], x, x + k - 1, x + k)}
<1>4. 0 \in J
  <2>1. Cleared(r, t, t, x, x + 0 - 1, x + 0)
    BY <1>1, <1>3 DEF Cleared, Steady
  <2> QED BY <1>2, <2>1
<1>5. ASSUME NEW k \in 1 .. lines, k - 1 \in J PROVE k \in J
  <2>1. PICK lo, hi, y : lo = x /\ hi = x + (k - 1) - 1 /\ y = x + (k - 1)
    OBVIOUS
  <2>2. Cleared(r, t, c[k - 1], lo, hi, y) /\ lo \in Int /\ hi \in Int
    BY <1>3, <1>5, <2>1
  <2>3. PICK v, z : v = ClrEol(c[k - 1]) /\ z = LF(v)
    OBVIOUS
  <2>4. /\ v \in TermOf(r) /\ Steady(t, v) /\ v.x = y /\ v.y = 1
        /\ \A i \in 1 .. r : v.cell[i] = IF i = y \/ i \in lo .. hi THEN BlankRow ELSE t.cell[i]
    BY <2>2, <2>3, ClearedLine
  <2>5. v.x # v.bottom /\ y + 1 \in 1 .. r
    BY <1>3, <2>1, <2>4 DEF Steady
  <2>6. z \in TermOf(r) /\ Steady(v, z) /\ z.y = v.y /\ z.x = Between(1, v.x + 1, r) /\ z.cell = v.cell
    BY <2>3, <2>4, <2>5, LFIs
  <2>7. z.x = x + k /\ z.y = 1
    BY <1>3, <2>1, <2>4, <2>5, <2>6 DEF Between
  <2>8. \A i \in 1 .. r : i = y \/ i \in lo .. hi <=> i \in x .. (x + k - 1)
    BY <1>3, <2>1
  <2>9. \A i \in 1 .. r : z.cell[i] = IF i \in x .. (x + k - 1) THEN BlankRow ELSE t.cell[i]
    BY <2>4, <2>6, <2>8
  <2>10. Steady(t, z)
    BY <2>4, <2>6 DEF Steady
  <2>11. Cleared(r, t, z, x, x + k - 1, x + k)
    BY <2>6, <2>7, <2>9, <2>10 DEF Cleared
  <2> QED BY <1>2, <2>3, <2>11
<1>6. \A k \in 0 .. lines : k \in J
  <2> HIDE DEF J
  <2> QED BY <1>4, <1>5, UpTo
<1>7. PICK hi, y : hi = x + lines - 1 /\ y = x + lines
  OBVIOUS
<1>8. Cleared(r, t, c[lines], x, hi, y) /\ x \in Int /\ hi \in Int
  <2>1. lines \in J
    <3> HIDE DEF J
    <3> QED BY <1>6
  <2> QED BY <1>3, <1>7, <2>1
<1>9. u = ClrEol(c[lines])
  BY <1>1, RunsAre
<1>10. /\ u \in TermOf(r) /\ Steady(t, u) /\ u.x = y /\ u.y = 1
       /\ \A i \in 1 .. r : u.cell[i] = IF i = y \/ i \in x .. hi THEN BlankRow ELSE t.cell[i]
  BY <1>8, <1>9, ClearedLine
<1>11. \A i \in 1 .. r : i = y \/ i \in x .. hi <=> i \in x .. y
  BY <1>3, <1>7
<1>12. Cleared(r, t, u, x, y, y)
  BY <1>10, <1>11 DEF Cleared
<1> QED BY <1>1, <1>7, <1>12

LEMMA UpClears ==
  ASSUME NEW r \in Nat, NEW t \in TermOf(r), t.y = 1, NEW lines \in Nat, t.x - lines >= t.top, NEW u, u = ClearedUp(t, lines)
  PROVE  Cleared(r, t, u, t.x - lines, t.x, t.x - lines)
<1>1. PICK c, x : c = UpRun(t, lines) /\ x = t.x
  OBVIOUS
<1>2. c[0] = t /\ \A k \in 1 .. lines : c[k] = Up(ClrEol(c[k - 1]), 1)
  BY <1>1, UpRunGoes
<1>3. x \in 1 .. r /\ t.top \in 1 .. r /\ x - lines >= t.top
  BY <1>1, TermFact
<1> DEFINE J == {k \in 0 .. lines : Cleared(r, t, c[k], x - k + 1, x, x - k)}
<1>4. 0 \in J
  <2>1. Cleared(r, t, t, x - 0 + 1, x, x - 0)
    BY <1>1, <1>3 DEF Cleared, Steady
  <2> QED BY <1>2, <2>1
<1>5. ASSUME NEW k \in 1 .. lines, k - 1 \in J PROVE k \in J
  <2>1. PICK lo, hi, y : lo = x - (k - 1) + 1 /\ hi = x /\ y = x - (k - 1)
    OBVIOUS
  <2>2. Cleared(r, t, c[k - 1], lo, hi, y) /\ lo \in Int /\ hi \in Int
    BY <1>3, <1>5, <2>1
  <2>3. PICK v, z : v = ClrEol(c[k - 1]) /\ z = Up(v, 1)
    OBVIOUS
  <2>4. /\ v \in TermOf(r) /\ Steady(t, v) /\ v.x = y /\ v.y = 1
        /\ \A i \in 1 .. r : v.cell[i] = IF i = y \/ i \in lo .. hi THEN BlankRow ELSE t.cell[i]
    BY <2>2, <2>3, ClearedLine
  <2>5. v.top = t.top /\ v.x >= v.top /\ v.x - 1 >= v.top /\ y - 1 \in 1 .. r
    BY <1>3, <2>1, <2>4 DEF Steady
  <2>6. PICK row : row = y - 1 /\ row \in Int /\ 1 \in Int
    BY <1>3, <2>1
  <2>7. z = Goto(v, row, 1)
    <3>1. Between(v.top, v.x - Count(1), v.x) = row
      BY <1>3, <2>1, <2>4, <2>5, <2>6 DEF Between, Count
    <3> QED BY <2>3, <2>4, <2>5, <3>1 DEF Up
  <2>8. z \in TermOf(r) /\ Steady(v, z) /\ z.y = Between(1, 1, Cols) /\ z.x = Between(1, row, r) /\ z.cell = v.cell
    <3>1. PICK one : one = 1 /\ one \in Int
      OBVIOUS
    <3>2. r \in Nat /\ v \in TermOf(r) /\ row \in Int /\ z = Goto(v, row, one)
      BY <2>4, <2>6, <2>7, <3>1
    <3>3. z \in TermOf(r) /\ z.x = Between(1, row, r) /\ z.y = Between(1, one, Cols) /\ z.cell = v.cell /\ Steady(v, z)
      BY ONLY <3>1, <3>2, GotoIs
    <3> QED BY <3>1, <3>3
  <2>9. z.x = x - k /\ z.y = 1
    BY <1>3, <2>1, <2>5, <2>6, <2>8, ColsAssumption DEF Between
  <2>10. \A i \in 1 .. r : i = y \/ i \in lo .. hi <=> i \in (x - k + 1) .. x
    BY <1>3, <2>1
  <2>11. \A i \in 1 .. r : z.cell[i] = IF i \in (x - k + 1) .. x THEN BlankRow ELSE t.cell[i]
    BY <2>4, <2>8, <2>10
  <2>12. Steady(t, z)
    BY <2>4, <2>8 DEF Steady
  <2>13. Cleared(r, t, z, x - k + 1, x, x - k)
    BY <2>8, <2>9, <2>11, <2>12 DEF Cleared
  <2> QED BY <1>2, <2>3, <2>13
<1>6. \A k \in 0 .. lines : k \in J
  <2> HIDE DEF J
  <2> QED BY <1>4, <1>5, UpTo
<1>7. PICK lo, y : lo = x - lines + 1 /\ y = x - lines
  OBVIOUS
<1>8. Cleared(r, t, c[lines], lo, x, y) /\ x \in Int /\ lo \in Int
  <2>1. lines \in J
    <3> HIDE DEF J
    <3> QED BY <1>6
  <2> QED BY <1>3, <1>7, <2>1
<1>9. u = ClrEol(c[lines])
  BY <1>1, RunsAre
<1>10. /\ u \in TermOf(r) /\ Steady(t, u) /\ u.x = y /\ u.y = 1
       /\ \A i \in 1 .. r : u.cell[i] = IF i = y \/ i \in lo .. x THEN BlankRow ELSE t.cell[i]
  BY <1>8, <1>9, ClearedLine
<1>11. \A i \in 1 .. r : i = y \/ i \in lo .. x <=> i \in y .. x
  BY <1>3, <1>7
<1>12. Cleared(r, t, u, y, x, y)
  BY <1>10, <1>11 DEF Cleared
<1> QED BY <1>1, <1>7, <1>12

------------------------------------------------------------------------------
(* Whole lines are cleared, here and there.                                *)

Swept(r, t, z, lo, hi) ==
  /\ z \in TermOf(r) /\ z.x = t.x /\ z.y = t.y /\ z.top = t.top /\ z.bottom = t.bottom
  /\ z.attr = t.attr /\ z.keys = t.keys /\ z.charset = t.charset
  /\ \A i \in 1 .. r : z.cell[i] = IF i \in lo .. hi THEN BlankRow ELSE t.cell[i]

LEMMA SweptIs ==
  ASSUME NEW r \in Nat, NEW t \in TermOf(r), NEW c, c = CR(SaveCursor(t)),
         NEW u, NEW lo, NEW hi, NEW x, Cleared(r, c, u, lo, hi, x), NEW z, z = RestCursor(u)
  PROVE  Swept(r, t, z, lo, hi)
<1>1. PICK b : b = SaveCursor(t)
  OBVIOUS
<1>2. /\ b \in TermOf(r) /\ b.x = t.x /\ b.y = t.y /\ b.cell = t.cell /\ b.top = t.top /\ b.bottom = t.bottom
      /\ b.attr = t.attr /\ b.keys = t.keys /\ b.charset = t.charset
      /\ b.saved.x = t.x /\ b.saved.y = t.y /\ b.saved.attr = t.attr
  BY <1>1, SaveCursorIs
<1>3. c = CR(b)
  BY <1>1
<1>4. c \in TermOf(r) /\ c.cell = b.cell /\ Steady(b, c)
  BY <1>2, <1>3, CRIs
<1>5. u \in TermOf(r) /\ Steady(c, u) /\ \A i \in 1 .. r : u.cell[i] = IF i \in lo .. hi THEN BlankRow ELSE c.cell[i]
  BY DEF Cleared
<1>6. /\ z \in TermOf(r) /\ z.x = u.saved.x /\ z.y = u.saved.y /\ z.cell = u.cell /\ z.top = u.top /\ z.bottom = u.bottom
      /\ z.attr = u.saved.attr /\ z.keys = u.keys /\ z.charset = u.charset /\ z.saved = u.saved
  BY <1>5, RestCursorIs
<1>7. u.saved = b.saved /\ u.top = b.top /\ u.bottom = b.bottom /\ u.keys = b.keys /\ u.charset = b.charset
  BY <1>4, <1>5 DEF Steady
<1> QED BY <1>2, <1>4, <1>5, <1>6, <1>7 DEF Swept

LinesBlank(w, v, x1, x2) == \A i \in 1 .. w.rows : v.mem[i] = IF i \in x1 .. x2 THEN BlankRow ELSE w.mem[i]

LEMMA LinesErased ==
  ASSUME NEW w, Sound(w), NEW x1 \in 1 .. w.rows, NEW x2 \in 1 .. w.rows, x1 <= x2,
         NEW v, v = EraseVideo(w, x1, x2, 1, Cols)
  PROVE  /\ Kin(w, v) /\ v.sattr = w.sattr /\ v.x = w.x /\ v.y = w.y
         /\ LinesBlank(w, v, x1, x2) /\ v = MemoryAs(w, v.mem)
<1>1. w.mem \in Screen(w.rows) /\ w.rows \in Nat /\ Cols \in Nat /\ Cols >= 1
  BY MemFact, RowsFact, ColsAssumption
<1>2. PICK mem : mem = [i \in DOMAIN w.mem |-> [j \in 1 .. Cols |->
                          IF i \in x1 .. x2 /\ j \in 1 .. Cols THEN {} ELSE w.mem[i][j]]]
  OBVIOUS
<1>3. v = MemoryAs(w, mem)
  BY <1>1, <1>2 DEF EraseVideo, Inside, MemoryAs
<1>4. Kin(w, v) /\ v.sattr = w.sattr /\ v.mem = mem /\ v.x = w.x /\ v.y = w.y
  BY <1>3, WindowMem
<1>5. ASSUME NEW i \in 1 .. w.rows PROVE mem[i] = IF i \in x1 .. x2 THEN BlankRow ELSE w.mem[i]
  <2>1. mem[i] = [j \in 1 .. Cols |-> IF i \in x1 .. x2 /\ j \in 1 .. Cols THEN {} ELSE w.mem[i][j]]
    BY <1>1, <1>2 DEF Screen
  <2>2. CASE i \in x1 .. x2
    BY <2>1, <2>2 DEF BlankRow
  <2>3. CASE i \notin x1 .. x2
    <3>1. mem[i] = [j \in 1 .. Cols |-> w.mem[i][j]] /\ w.mem[i] \in [1 .. Cols -> Cells]
      BY <1>1, <2>1, <2>3 DEF Screen
    <3> QED BY <2>3, <3>1
  <2> QED BY <2>2, <2>3
<1> QED BY <1>3, <1>4, <1>5 DEF LinesBlank

LEMMA SweptAfter ==
  ASSUME NEW a, NEW r, NEW s, Mirrored(a, r, s), NEW z, NEW t, NEW x1 \in 1 .. s.w.rows, NEW x2 \in 1 .. s.w.rows,
         Kin(s.w, z.w), z.w.sattr = s.w.sattr, LinesBlank(s.w, z.w, x1, x2),
         t \in TermOf(r), Steady(s.t, t), t.cell = s.t.cell, t.x = z.w.x + s.w.off, t.y = Column(z.w.y),
         NEW lo, NEW hi, lo = x1 + s.w.off, hi = x2 + s.w.off, Swept(r, t, z.t, lo, hi)
  PROVE  After(a, r, s, z)
<1>1. PICK n, off, u : n = s.w.rows /\ off = s.w.off /\ u = z.t
  OBVIOUS
<1>2. n \in Nat /\ off \in Nat /\ r \in Nat /\ off + n <= r /\ x1 \in 1 .. n /\ x2 \in 1 .. n
  BY <1>1, MirrorFact
<1>3. /\ u \in TermOf(r) /\ u.x = t.x /\ u.y = t.y /\ u.top = t.top /\ u.bottom = t.bottom
      /\ u.attr = t.attr /\ u.keys = t.keys /\ u.charset = t.charset
      /\ \A i \in 1 .. r : u.cell[i] = IF i \in lo .. hi THEN BlankRow ELSE s.t.cell[i]
  BY <1>1 DEF Swept
<1>4. \A i \in 1 .. n : z.w.mem[i] = IF i \in x1 .. x2 THEN BlankRow ELSE s.w.mem[i]
  BY <1>1 DEF LinesBlank
<1>5. Follows(s.w, s.t) /\ Tame(a, s.w) /\ Shows(s.w, s.t) /\ s.t \in TermOf(r) /\ a \in Attributes
  BY DEF Mirrored
<1>6. Tame(a, z.w)
  <2>1. {} \in Shades(a)
    BY DEF Shades
  <2>2. \A i \in 1 .. n : \A j \in 1 .. Cols : s.w.mem[i][j] \in Shades(a)
    BY <1>1, <1>5 DEF Tame
  <2>3. \A j \in 1 .. Cols : BlankRow[j] = {}
    BY DEF BlankRow
  <2>4. \A i \in 1 .. n : \A j \in 1 .. Cols : z.w.mem[i][j] \in Shades(a)
    BY <1>4, <2>1, <2>2, <2>3
  <2> QED BY <1>1, <1>5, <2>4 DEF Tame, Kin
<1>7. Follows(z.w, z.t)
  BY <1>1, <1>3, <1>5 DEF Follows, Kin, Steady
<1>8. Shows(z.w, z.t)
  <2>1. \A i \in 1 .. n : off + i \in 1 .. r /\ (off + i \in lo .. hi <=> i \in x1 .. x2)
    BY <1>1, <1>2
  <2>2. \A i \in 1 .. n : s.t.cell[off + i] = s.w.mem[i]
    BY <1>1, <1>5 DEF Shows
  <2>3. \A i \in 1 .. n : u.cell[off + i] = z.w.mem[i]
    BY <1>3, <1>4, <2>1, <2>2
  <2> QED BY <1>1, <2>3 DEF Shows, Kin
<1>9. Beside(s.w, s.t, z.t)
  <2>1. \A i \in 1 .. r : i \notin (off + 1) .. (off + n) => i \notin lo .. hi
    BY <1>1, <1>2
  <2>2. s.t.rows = r
    BY <1>5, TermFact
  <2> QED BY <1>1, <1>3, <2>1, <2>2 DEF Beside
<1> QED BY <1>1, <1>3, <1>6, <1>7, <1>8, <1>9 DEF After, Kin

LEMMA ClearScreenAfter ==
  ASSUME NEW a, NEW r, NEW s, Mirrored(a, r, s), s.w.up = 1, s.w.low = s.w.rows, NEW n, NEW z, z = ClearScreen(s, n)
  PROVE  After(a, r, s, z)
<1>1. PICK x, rows, off : x = s.w.x /\ rows = s.w.rows /\ off = s.w.off
  OBVIOUS
<1>2. /\ x \in 1 .. rows /\ rows \in Nat /\ rows >= 3 /\ off \in Nat /\ r \in Nat /\ off + rows <= r
      /\ s.t.x = x + off /\ s.t.y = Column(s.w.y) /\ s.t.top = 1 + off /\ s.t.bottom = rows + off
      /\ Cols \in Nat /\ Cols >= 1
  BY <1>1, MirrorFact
<1>3. Sound(s.w) /\ s.t \in TermOf(r)
  BY DEF Mirrored
<1>4. Steady(s.t, s.t)
  BY DEF Steady
<1>5. ASSUME NEW t \in TermOf(r), NEW c, c = CR(SaveCursor(t))
      PROVE  c \in TermOf(r) /\ c.x = t.x /\ c.y = 1 /\ c.top = t.top /\ c.bottom = t.bottom
  <2>1. PICK b : b = SaveCursor(t)
    OBVIOUS
  <2>2. b \in TermOf(r) /\ b.x = t.x /\ b.top = t.top /\ b.bottom = t.bottom
    BY <1>2, <2>1, SaveCursorIs
  <2>3. c = CR(b)
    BY <1>5, <2>1
  <2>4. c \in TermOf(r) /\ c.x = b.x /\ c.y = 1 /\ Steady(b, c)
    BY <1>2, <2>2, <2>3, CRIs
  <2> QED BY <2>2, <2>4 DEF Steady
<1>6. CASE n = 0
  <2>1. PICK c, u, v, lines : /\ c = CR(SaveCursor(s.t)) /\ lines = rows - x /\ u = ClearedDown(c, lines)
                              /\ v = EraseVideo(s.w, x, rows, 1, Cols)
    OBVIOUS
  <2>2. z.w = v /\ z.t = RestCursor(u)
    BY <1>1, <1>6, <2>1 DEF ClearScreen
  <2>3. c \in TermOf(r) /\ c.x = x + off /\ c.y = 1 /\ c.top = 1 + off /\ c.bottom = rows + off
    BY <1>2, <1>3, <1>5, <2>1
  <2>4. lines \in Nat /\ c.x + lines <= c.bottom
    BY <1>2, <2>1, <2>3
  <2>5. Cleared(r, c, u, c.x, c.x + lines, c.x + lines)
    BY <1>2, <2>1, <2>3, <2>4, DownClears
  <2>6. PICK lo, hi : lo = x + off /\ hi = rows + off
    OBVIOUS
  <2>7. Cleared(r, c, u, lo, hi, hi)
    <3>1. c.x = lo /\ c.x + lines = hi
      BY <1>2, <2>1, <2>3, <2>6
    <3> QED BY <2>5, <3>1
  <2>8. Swept(r, s.t, z.t, lo, hi)
    BY <1>2, <1>3, <2>1, <2>2, <2>7, SweptIs
  <2>9. x \in 1 .. rows /\ rows \in 1 .. rows /\ x <= rows
    BY <1>2
  <2>10. Kin(s.w, v) /\ v.sattr = s.w.sattr /\ v.x = s.w.x /\ v.y = s.w.y /\ LinesBlank(s.w, v, x, rows)
    BY <1>1, <1>3, <2>1, <2>9, LinesErased
  <2>11. s.t.x = z.w.x + s.w.off /\ s.t.y = Column(z.w.y)
    BY <1>1, <1>2, <2>2, <2>10
  <2> QED BY <1>1, <1>3, <1>4, <2>2, <2>6, <2>8, <2>9, <2>10, <2>11, SweptAfter
<1>7. CASE n = 1
  <2>1. PICK c, u, v, lines : /\ c = CR(SaveCursor(s.t)) /\ lines = (IF x > 1 THEN x - 1 ELSE 0) /\ u = ClearedUp(c, lines)
                              /\ v = EraseVideo(s.w, 1, x, 1, Cols)
    OBVIOUS
  <2>2. z.w = v /\ z.t = RestCursor(u)
    BY <1>1, <1>7, <2>1 DEF ClearScreen
  <2>3. c \in TermOf(r) /\ c.x = x + off /\ c.y = 1 /\ c.top = 1 + off /\ c.bottom = rows + off
    BY <1>2, <1>3, <1>5, <2>1
  <2>4. lines \in Nat /\ lines = x - 1 /\ c.x - lines >= c.top
    BY <1>2, <2>1, <2>3
  <2>5. Cleared(r, c, u, c.x - lines, c.x, c.x - lines)
    BY <1>2, <2>1, <2>3, <2>4, UpClears
  <2>6. PICK lo, hi : lo = 1 + off /\ hi = x + off
    OBVIOUS
  <2>7. Cleared(r, c, u, lo, hi, lo)
    <3>1. c.x = hi /\ c.x - lines = lo
      BY <1>2, <2>3, <2>4, <2>6
    <3> QED BY <2>5, <3>1
  <2>8. Swept(r, s.t, z.t, lo, hi)
    BY <1>2, <1>3, <2>1, <2>2, <2>7, SweptIs
  <2>9. x \in 1 .. rows /\ 1 \in 1 .. rows /\ 1 <= x
    BY <1>2
  <2>10. Kin(s.w, v) /\ v.sattr = s.w.sattr /\ v.x = s.w.x /\ v.y = s.w.y /\ LinesBlank(s.w, v, 1, x)
    BY <1>1, <1>3, <2>1, <2>9, LinesErased
  <2>11. s.t.x = z.w.x + s.w.off /\ s.t.y = Column(z.w.y)
    BY <1>1, <1>2, <2>2, <2>10
  <2> QED BY <1>1, <1>3, <1>4, <2>2, <2>6, <2>8, <2>9, <2>10, <2>11, SweptAfter
<1>8. CASE n = 2
  <2>1. PICK t, c, u, v, w, lines :
          /\ t = Goto(s.t, off + 1, 1) /\ c = CR(SaveCursor(t)) /\ lines = rows - 1 /\ u = ClearedDown(c, lines)
          /\ v = EraseVideo(s.w, 1, rows, 1, Cols) /\ w = CursorAt(v, 1, 1)
    OBVIOUS
  <2>2. 1 \in 1 .. rows /\ rows \in 1 .. rows /\ 1 <= rows
    BY <1>2
  <2>3. /\ Kin(s.w, v) /\ v.sattr = s.w.sattr /\ LinesBlank(s.w, v, 1, rows) /\ v = MemoryAs(s.w, v.mem)
    BY <1>1, <1>3, <2>1, <2>2, LinesErased
  <2>4. Kin(s.w, w) /\ w.sattr = s.w.sattr /\ w.mem = v.mem /\ w.x = 1 /\ w.y = 1
    <3>1. Inside(s.w, 1, 1) /\ Inside(s.w, rows, Cols)
      BY <1>1, <1>2 DEF Inside
    <3>2. Sound(v)
      BY <1>3, <2>1, <3>1, EraseVideoSound
    <3>3. Kin(v, w) /\ w.sattr = v.sattr /\ w.mem = v.mem /\ w.x = 1 /\ w.y = 1
      BY <2>1, <3>2, WindowAt
    <3> QED BY <2>3, <3>3 DEF Kin
  <2>5. z.w = w /\ z.t = RestCursor(u)
    <3>1. w = [v EXCEPT !.x = 1, !.y = 1] /\ w.off = off /\ w.rows = rows
      BY <1>1, <2>1, <2>4 DEF CursorAt, Kin
    <3>2. z = LET ww == [EraseVideo(s.w, 1, s.w.rows, 1, Cols) EXCEPT !.x = 1, !.y = 1]
              IN [w |-> ww, t |-> RestCursor(ClearedDown(CR(SaveCursor(Goto(s.t, ww.off + 1, 1))), ww.rows - 1))]
      BY <1>8 DEF ClearScreen
    <3>3. z = [w |-> w, t |-> RestCursor(ClearedDown(CR(SaveCursor(Goto(s.t, w.off + 1, 1))), w.rows - 1))]
      BY <1>1, <2>1, <3>1, <3>2
    <3> QED BY <2>1, <3>1, <3>3
  <2>6. PICK row : row = off + 1
    OBVIOUS
  <2>7. row \in Int /\ 1 \in Int /\ t = Goto(s.t, row, 1) /\ Between(1, row, r) = row /\ Between(1, 1, Cols) = 1
    <3>1. row \in 1 .. r /\ row \in Int /\ t = Goto(s.t, row, 1)
      BY <1>2, <2>1, <2>6
    <3>2. Between(1, row, r) = row /\ Between(1, 1, Cols) = 1
      BY <1>2, <3>1 DEF Between
    <3> QED BY <3>1, <3>2
  <2>8. t \in TermOf(r) /\ t.x = row /\ t.y = 1 /\ t.cell = s.t.cell /\ Steady(s.t, t)
    BY <1>2, <1>3, <2>7, GotoIs
  <2>9. c \in TermOf(r) /\ c.x = row /\ c.y = 1 /\ c.top = 1 + off /\ c.bottom = rows + off
    <3>1. c \in TermOf(r) /\ c.x = t.x /\ c.y = 1 /\ c.top = t.top /\ c.bottom = t.bottom
      BY <1>5, <2>1, <2>8
    <3> QED BY <1>2, <2>8, <3>1 DEF Steady
  <2>10. lines \in Nat /\ c.x + lines <= c.bottom
    BY <1>2, <2>1, <2>6, <2>9
  <2>11. Cleared(r, c, u, c.x, c.x + lines, c.x + lines)
    BY <1>2, <2>1, <2>9, <2>10, DownClears
  <2>12. PICK lo, hi : lo = 1 + off /\ hi = rows + off
    OBVIOUS
  <2>13. Cleared(r, c, u, lo, hi, hi)
    <3>1. c.x = lo /\ c.x + lines = hi
      BY <1>2, <2>1, <2>6, <2>9, <2>12
    <3> QED BY <2>11, <3>1
  <2>14. Swept(r, t, z.t, lo, hi)
    BY <1>2, <2>1, <2>5, <2>8, <2>13, SweptIs
  <2>15. t.x = z.w.x + s.w.off /\ t.y = Column(z.w.y)
    BY <1>1, <1>2, <2>4, <2>5, <2>6, <2>8 DEF Column
  <2>16. LinesBlank(s.w, z.w, 1, rows)
    BY <2>3, <2>4, <2>5 DEF LinesBlank
  <2> QED BY <1>1, <2>2, <2>4, <2>5, <2>8, <2>12, <2>14, <2>15, <2>16, SweptAfter
<1>9. CASE n \notin {0, 1, 2}
  BY <1>9, Unchanged DEF ClearScreen
<1> QED BY <1>6, <1>7, <1>8, <1>9

------------------------------------------------------------------------------
(* What is asked of an item so that the terminal shows what is meant: see   *)
(* Careful in SplitVt, whose conditions these are.                          *)
Tidy(w, c) ==
    /\ c.op \in {"bs", "D", "K", "P", "@", "ESC H", "g"} => w.y <= Cols
    /\ c.op \in {"nl", "ESC D", "ESC E"} \/ (c.op = "char" /\ w.y > Cols) => w.x <= w.low
    /\ c.op = "ESC M" => w.x >= w.up
    /\ c.op = "r" => Between(1, c.n, w.rows + 1) # Between(0, c.m, w.rows)
    /\ c.op = "J" => w.up = 1 /\ w.low = w.rows
    /\ c.op = "ESC 8" => w.sx > 0 /\ w.sattr = {}
    /\ c.op = "char" => c.n < EightBit
    /\ c.op = "@" => Count(c.n) = 1 /\ \A j \in w.y .. Cols : w.mem[w.x][j] = {}
    /\ c.op = "P" => \A j \in (w.y + 1) .. Cols : w.mem[w.x][j] = {}
    /\ c.op \in {"L", "M"} => \A i \in w.up .. w.low : \A j \in 1 .. Cols : w.mem[i][j] = {}
    /\ c.op = "ESC c" => w = [ResetWin(w) EXCEPT !.sx = w.sx, !.sy = w.sy]

LEMMA HandledDrawn ==
  ASSUME NEW a, NEW r, NEW s, Mirrored(a, r, s), NEW c \in [op : Ops, n : Nat, m : Nat],
         Tidy(s.w, c), Only(a, c), NEW z, z = Handled(s, c)
  PROVE  After(a, r, s, z)
<1>0. c.n \in Nat /\ c.m \in Nat /\ c.op \in Ops
  OBVIOUS
<1>1. CASE c.op = "char"
  BY <1>1, CharacterAfter DEF Handled, Tidy
<1>2. CASE c.op = "nl" \/ c.op = "ESC D"
  BY <1>2, NewLineAfter DEF Handled, Tidy
<1>3. CASE c.op = "cr"
  BY <1>3, ReturnAfter DEF Handled
<1>4. CASE c.op = "bs"
  BY <1>4, BackSpaceAfter DEF Handled, Tidy
<1>5. CASE c.op = "tab"
  BY <1>5, TabOnAfter DEF Handled
<1>6. CASE c.op = "ESC M"
  BY <1>6, ReverseIndexAfter DEF Handled, Tidy
<1>7. CASE c.op = "ESC E"
  BY <1>7, NextLineAfter DEF Handled, Tidy
<1>8. CASE c.op = "ESC 7"
  BY <1>8, SaveItAfter DEF Handled
<1>9. CASE c.op = "ESC 8"
  BY <1>9, RestoreItAfter DEF Handled, Tidy
<1>10. CASE c.op \in {"ESC =", "ESC >"}
  <2>1. \E k \in {"normal", "application"} : z = KeyState(s, k)
    BY <1>10 DEF Handled
  <2> QED BY <2>1, KeysAfter
<1>11. CASE c.op \in {"ESC (0", "ESC (B"}
  <2>1. \E k \in {"US", "graphics"} : z = AltCharset(s, k)
    BY <1>11 DEF Handled
  <2> QED BY <2>1, CharsetAfter
<1>12. CASE c.op = "ESC H" \/ c.op = "g"
  <2>1. s.w.y <= Cols
    BY <1>12 DEF Tidy
  <2>2. z \in {[s EXCEPT !.w = SetTab(s.w)], [s EXCEPT !.w = ClearTab(s.w, c.n)]}
    BY <1>12 DEF Handled
  <2> QED BY <2>1, <2>2, TabsAfter
<1>13. CASE c.op = "ESC c"
  <2>1. s.w = [ResetWin(s.w) EXCEPT !.sx = s.w.sx, !.sy = s.w.sy]
    BY <1>13 DEF Tidy
  <2>2. z = [s EXCEPT !.w = ResetWin(s.w)]
    BY <1>13 DEF Handled
  <2> QED BY <2>1, <2>2, ResetAfter
<1>14. CASE c.op = "r"
  <2>1. Between(1, c.n, s.w.rows + 1) # Between(0, c.m, s.w.rows)
    BY <1>14 DEF Tidy
  <2>2. z = ScrollRegion(s, c.n, c.m)
    BY <1>14 DEF Handled
  <2> QED BY <1>0, <2>1, <2>2, ScrollRegionAfter
<1>15. CASE c.op \in {"A", "B", "C", "H"}
  BY <1>0, <1>15, UpAfter, DownAfter, RightAfter, MoveToAfter DEF Handled
<1>16. CASE c.op = "D"
  BY <1>0, <1>16, LeftAfter DEF Handled, Tidy
<1>17. CASE c.op = "m"
  <2>1. z = Attributes2(s, c.n, c.m) /\ (1 \in {c.n, c.m} => a = "bold") /\ (7 \in {c.n, c.m} => a = "reverse")
    BY <1>17 DEF Handled, Only
  <2> QED BY <1>0, <2>1, Attributes2After
<1>18. CASE c.op = "J"
  BY <1>18, ClearScreenAfter DEF Handled, Tidy
<1>19. CASE c.op = "K"
  BY <1>19, ClearLineAfter DEF Handled, Tidy
<1>20. CASE c.op = "P"
  <2>1. s.w.y <= Cols /\ \A j \in (s.w.y + 1) .. Cols : s.w.mem[s.w.x][j] = {}
    BY <1>20 DEF Tidy
  <2>2. z = DeleteUnder(s, c.n)
    BY <1>20 DEF Handled
  <2> QED BY <1>0, <2>1, <2>2, DeleteUnderAfter
<1>21. CASE c.op \in {"L", "M"}
  <2>1. \A i \in s.w.up .. s.w.low : \A j \in 1 .. Cols : s.w.mem[i][j] = {}
    BY <1>21 DEF Tidy
  <2>2. z \in {InsertLines(s, c.n), DeleteLines(s, c.n)}
    BY <1>21 DEF Handled
  <2> QED BY <2>1, <2>2, LinesAfter
<1>22. CASE c.op = "@"
  <2>1. s.w.y <= Cols /\ Count(c.n) = 1 /\ \A j \in s.w.y .. Cols : s.w.mem[s.w.x][j] = {}
    BY <1>22 DEF Tidy
  <2>2. z = InsertBlanks(s, c.n)
    BY <1>22 DEF Handled
  <2> QED BY <1>0, <2>1, <2>2, InsertBlanksAfter
<1> QED
  BY <1>0, <1>1, <1>2, <1>3, <1>4, <1>5, <1>6, <1>7, <1>8, <1>9, <1>10, <1>11, <1>12, <1>13, <1>14, <1>15,
     <1>16, <1>17, <1>18, <1>19, <1>20, <1>21, <1>22 DEF Ops

(* The handlers together: whatever tidy item a program writes, what is sent *)
(* to the terminal has the same effect inside the window's lines as the     *)
(* handler has on the window's memory, leaves the cursor, the region and    *)
(* the modes where the window's are, and touches no other line (vt_write    *)
(* and what it calls, vt100.c).                                             *)
THEOREM HandledAfter ==
  ASSUME NEW a, NEW r, NEW s, Mirrored(a, r, s), NEW c \in [op : Ops, n : Nat, m : Nat],
         Tidy(s.w, c), Only(a, c), NEW z, z = Handled(s, c)
  PROVE  After(a, r, s, z) /\ Sound(z.w)
<1>1. After(a, r, s, z)
  BY HandledDrawn
<1>2. Sound(z.w)
  <2>1. PICK w, t : s = [w |-> w, t |-> t] /\ w = s.w /\ Sound(w)
    BY DEF Mirrored
  <2>2. Harmless(w, c)
    BY <2>1 DEF Tidy, Harmless
  <2>3. Sound(Handled([w |-> w, t |-> t], c).w)
    BY <2>1, <2>2, HandledSound
  <2> QED BY <2>1, <2>3
<1> QED BY <1>1, <1>2

------------------------------------------------------------------------------
(* paint_video: the cells are numbered line by line.                       *)

LEMMA DivMod ==
  ASSUME NEW c \in Nat \ {0}, NEW k \in Nat
  PROVE  /\ k \div c \in Nat /\ k % c \in 0 .. (c - 1)
         /\ k = (k \div c) * c + (k % c)
<1>1. k % c \in 0 .. (c - 1)
  OBVIOUS
<1>2. k \div c \in Int
  OBVIOUS
<1>3. k = c * (k \div c) + (k % c)
  OBVIOUS
<1>4. k \div c >= 0
  BY <1>1, <1>2, <1>3
<1> QED BY <1>1, <1>2, <1>3, <1>4

LEMMA Times ==
  ASSUME NEW c \in Nat \ {0}, NEW x \in Int, NEW y \in Int, x < y
  PROVE  x * c + c <= y * c
<1>1. PICK d \in Nat : y = x + 1 + d
  <2>1. y - x - 1 \in Nat /\ y = x + 1 + (y - x - 1)
    OBVIOUS
  <2> QED BY <2>1
<1>2. d * c >= 0
  OBVIOUS
<1>3. y * c = x * c + c + d * c
  BY <1>1
<1> QED BY <1>2, <1>3

PaintLine(k) == 1 + ((k - 1) \div Cols)
PaintColumn(k) == 1 + ((k - 1) % Cols)
Number(i, j) == (i - 1) * Cols + j

LEMMA NumberIs ==
  ASSUME NEW rows \in Nat, NEW k \in 1 .. (rows * Cols)
  PROVE  /\ PaintLine(k) \in 1 .. rows /\ PaintColumn(k) \in 1 .. Cols
         /\ Number(PaintLine(k), PaintColumn(k)) = k
<1>1. Cols \in Nat \ {0} /\ rows * Cols \in Nat /\ k - 1 \in Nat
  BY ColsAssumption
<1>2. PICK n, q, m : n = k - 1 /\ q = n \div Cols /\ m = n % Cols
  OBVIOUS
<1>3. n \in Nat
  BY <1>1, <1>2
<1>4. q \in Nat /\ m \in 0 .. (Cols - 1) /\ n = q * Cols + m
  BY <1>1, <1>2, <1>3, DivMod
<1>5. q < rows
  <2>1. CASE rows < q
    <3>1. rows * Cols + Cols <= q * Cols
      BY <1>1, <1>4, <2>1, Times
    <3> QED BY <1>1, <1>2, <1>4, <3>1
  <2>2. CASE rows = q
    BY <1>1, <1>2, <1>4, <2>2
  <2> QED BY <1>4, <2>1, <2>2
<1>6. PaintLine(k) = 1 + q /\ PaintColumn(k) = 1 + m
  BY <1>2 DEF PaintLine, PaintColumn
<1>7. Number(1 + q, 1 + m) = q * Cols + (1 + m)
  <2>1. (1 + q) - 1 = q
    BY <1>4
  <2> QED BY <2>1 DEF Number
<1>8. q * Cols \in Nat
  BY <1>1, <1>4
<1> QED BY <1>1, <1>2, <1>4, <1>5, <1>6, <1>7, <1>8

LEMMA NumberOnce ==
  ASSUME NEW i \in Int, NEW k \in Int, NEW j \in 1 .. Cols, NEW l \in 1 .. Cols, Number(i, j) = Number(k, l)
  PROVE  i = k /\ j = l
<1>0. Cols \in Nat \ {0}
  BY ColsAssumption
<1>1. PICK x, y : x = i - 1 /\ y = k - 1
  OBVIOUS
<1>2. x \in Int /\ y \in Int /\ x * Cols + j = y * Cols + l
  BY <1>1 DEF Number
<1>3. x * Cols \in Int /\ y * Cols \in Int
  BY <1>0, <1>2
<1>4. CASE x < y
  <2>1. x * Cols + Cols <= y * Cols
    BY <1>0, <1>2, <1>4, Times
  <2> QED BY <1>0, <1>2, <1>3, <2>1
<1>5. CASE y < x
  <2>1. y * Cols + Cols <= x * Cols
    BY <1>0, <1>2, <1>5, Times
  <2> QED BY <1>0, <1>2, <1>3, <2>1
<1>6. CASE x = y
  BY <1>1, <1>2, <1>3, <1>6
<1> QED BY <1>2, <1>4, <1>5, <1>6

LEMMA NumberWithin ==
  ASSUME NEW rows \in Nat, NEW i \in 1 .. rows, NEW j \in 1 .. Cols
  PROVE  Number(i, j) \in 1 .. (rows * Cols)
<1>0. Cols \in Nat \ {0} /\ rows * Cols \in Nat
  BY ColsAssumption
<1>1. PICK x : x = i - 1
  OBVIOUS
<1>2. x \in Nat /\ x < rows
  BY <1>1
<1>3. x * Cols \in Nat
  BY <1>0, <1>2
<1>4. x * Cols + Cols <= rows * Cols
  BY <1>0, <1>2, Times
<1>5. Number(i, j) = x * Cols + j
  BY <1>1 DEF Number
<1> QED BY <1>0, <1>3, <1>4, <1>5

PaintAt(w, s, k) == CursorAt(s.t, w.off + PaintLine(k), PaintColumn(k))
PaintCell(w, k) == w.mem[PaintLine(k)][PaintColumn(k)]
PaintStart(t) == [t |-> ResetAttr(WholeScreen(t)), last |-> {}, on |-> {}]
PaintStep(w, s, k) ==
  IF PaintCell(w, k) = {}
  THEN [t |-> Put(IF s.on # {} THEN ResetAttr(PaintAt(w, s, k)) ELSE PaintAt(w, s, k), {}), last |-> {}, on |-> {}]
  ELSE [t |-> PutChar(CheckAttr(PaintAt(w, s, k), PaintCell(w, k) \ {"char"}, s.last, s.on).t),
        last |-> PaintCell(w, k) \ {"char"},
        on |-> CheckAttr(PaintAt(w, s, k), PaintCell(w, k) \ {"char"}, s.last, s.on).on]
Painting(t, w) == CHOOSE p : p = [k \in 0 .. w.rows * Cols |-> IF k = 0 THEN PaintStart(t) ELSE PaintStep(w, p[k - 1], k)]

LEMMA PaintingIs ==
  ASSUME NEW t, NEW w
  PROVE  PaintVideo(t, w) = Goto(SetScroll(Painting(t, w)[w.rows * Cols].t, w.up + w.off, w.low + w.off), w.x + w.off, w.y)
BY DEF PaintVideo, Painting, PaintStart, PaintStep, PaintAt, PaintCell, PaintLine, PaintColumn, CursorAt

(* What is believed of the attributes is so.                               *)
Palette(a, r) == {s \in [t : TermOf(r), last : Lit(a), on : Lit(a)] : s.last = s.t.attr /\ s.on = s.t.attr}

(* One cell is put, and nothing else changes.                              *)
OneCell(t, u, x, y, c) ==
  /\ u.cell = [t.cell EXCEPT ![x][y] = c]
  /\ u.keys = t.keys /\ u.charset = t.charset /\ u.top = t.top /\ u.bottom = t.bottom /\ u.saved = t.saved

(* From one attribute to another.                                          *)
LEMMA CheckAttrIs ==
  ASSUME NEW a \in Attributes, NEW r, NEW t \in TermOf(r), NEW b \in Lit(a), t.attr \in Lit(a), NEW c,
         c = CheckAttr(t, b, t.attr, t.attr)
  PROVE  c.on = b /\ \E hue \in Colours : c.t = Tinted(t, b, hue)
<1>1. PICK last : last = t.attr /\ last \in Lit(a)
  OBVIOUS
<1>2. Simple(last) = last /\ Simple(b) = b
  BY <1>1 DEF Simple, Lit, Attributes
<1>3. PICK changed : changed = Xor(last, b)
  OBVIOUS
<1>4. CASE "reverse" \in changed \cap last
  <2>1. last = {"reverse"} /\ a = "reverse" /\ b = {}
    BY <1>1, <1>3, <1>4 DEF Lit, Xor, Attributes
  <2>2. PICK u : u = ResetAttr(t)
    OBVIOUS
  <2>3. c = Flipped(u, last \ {"reverse"}, last \ {"reverse"})
    BY <1>1, <1>2, <1>3, <1>4, <2>2 DEF CheckAttr
  <2>4. last \ {"reverse"} = {}
    BY <2>1
  <2>5. c = Flipped(u, {}, {})
    BY <2>3, <2>4
  <2>6. u.attr = {}
    BY <2>2 DEF ResetAttr, TermOf
  <2>7. (u.attr \ ({} \cap {})) \cup ({} \ {}) = {} /\ Xor({}, {}) = {}
    BY <2>6 DEF Xor
  <2>8. c.on = {} /\ c.t = [u EXCEPT !.attr = {}]
    BY <2>5, <2>7 DEF Flipped
  <2>9. [u EXCEPT !.attr = {}] = Tinted(t, {}, "none")
    BY <2>2 DEF Tinted, ResetAttr, TermOf
  <2> QED BY <2>1, <2>8, <2>9 DEF Colours
<1>5. CASE "reverse" \notin changed \cap last
  <2>1. c = Flipped(t, changed, last)
    BY <1>1, <1>2, <1>3, <1>5 DEF CheckAttr
  <2>2. (last \ (changed \cap last)) \cup (changed \ last) = b /\ Xor(last, changed) = b
    BY <1>3 DEF Xor
  <2>3. c.on = b /\ c.t = [t EXCEPT !.attr = b]
    BY <1>1, <2>1, <2>2 DEF Flipped
  <2>4. [t EXCEPT !.attr = b] = Tinted(t, b, t.colour) /\ t.colour \in Colours
    BY DEF Tinted, TermOf
  <2> QED BY <2>3, <2>4
<1> QED BY <1>4, <1>5

LEMMA TintedIs ==
  ASSUME NEW r, NEW t \in TermOf(r), NEW b \in SUBSET Attributes, NEW hue \in Colours, NEW u, u = Tinted(t, b, hue)
  PROVE  /\ u \in TermOf(r) /\ u.attr = b /\ u.x = t.x /\ u.y = t.y /\ u.cell = t.cell
         /\ u.top = t.top /\ u.bottom = t.bottom /\ u.saved = t.saved
         /\ u.keys = t.keys /\ u.charset = t.charset
BY DEF TermOf, Tinted

LEMMA PaintStepIs ==
  ASSUME NEW a \in Attributes, NEW r \in Nat, NEW w, Sound(w), Tame(a, w), w.off + w.rows <= r,
         NEW k \in 1 .. (w.rows * Cols), NEW s \in Palette(a, r), NEW z, z = PaintStep(w, s, k)
  PROVE  /\ z \in Palette(a, r) /\ z.on = PaintCell(w, k) \ {"char"}
         /\ OneCell(s.t, z.t, w.off + PaintLine(k), PaintColumn(k), PaintCell(w, k))
<1>1. PICK i, j, x, c, b : i = PaintLine(k) /\ j = PaintColumn(k) /\ x = w.off + i /\ c = PaintCell(w, k) /\ b = c \ {"char"}
  OBVIOUS
<1>2. w.rows \in Nat /\ w.off \in Nat
  BY RowsFact DEF Sound, WindowOf
<1>3. i \in 1 .. w.rows /\ j \in 1 .. Cols
  BY <1>1, <1>2, NumberIs
<1>4. x \in 1 .. r
  BY <1>1, <1>2, <1>3
<1>5. c = w.mem[i][j] /\ c \in Shades(a)
  BY <1>1, <1>3 DEF PaintCell, Tame
<1>6. b \in Lit(a) /\ c \in Cells /\ (c # {} => c = {"char"} \cup b) /\ (c = {} => b = {})
  <2>1. a # "char" /\ b = c \ {"char"} /\ c \in {{}, {"char"}, {"char", a}}
    BY <1>1, <1>5 DEF Shades, Attributes
  <2>2. CASE c = {}
    <3>1. b = {}
      BY <2>1, <2>2
    <3> QED BY <2>2, <3>1 DEF Lit, Cells
  <2>3. CASE c = {"char"}
    <3>1. b = {} /\ c # {} /\ c = {"char"} \cup b
      BY <2>1, <2>3
    <3>2. {} \in SUBSET Attributes
      OBVIOUS
    <3> QED BY <3>1, <3>2 DEF Lit, Cells
  <2>4. CASE c = {"char", a}
    <3>1. b = {a} /\ c # {} /\ c = {"char"} \cup b
      BY <2>1, <2>4
    <3>2. {a} \in SUBSET Attributes
      OBVIOUS
    <3> QED BY <3>1, <3>2 DEF Lit, Cells
  <2> QED BY <2>1, <2>2, <2>3, <2>4
<1>7. PICK u : u = CursorAt(s.t, x, j)
  OBVIOUS
<1>8. s.t \in TermOf(r) /\ s.last = s.t.attr /\ s.on = s.t.attr /\ s.t.attr \in Lit(a)
  BY DEF Palette
<1>9. u \in TermOf(r) /\ u.x = x /\ u.y = j /\ u.cell = s.t.cell /\ Steady(s.t, u)
  BY <1>3, <1>4, <1>7, <1>8, Placed
<1>10. u = PaintAt(w, s, k)
  BY <1>1, <1>7 DEF PaintAt
<1>11. b \in SUBSET Attributes /\ {} \in Lit(a)
  BY <1>6 DEF Lit
<1>12. ASSUME NEW hue \in Colours, NEW v, v = Tinted(u, b, hue), z.t = Put(v, c), z.last = b, z.on = b,
              z = [t |-> z.t, last |-> z.last, on |-> z.on]
       PROVE  /\ z \in Palette(a, r) /\ z.on = b /\ OneCell(s.t, z.t, x, j, c)
  <2>1. /\ v \in TermOf(r) /\ v.attr = b /\ v.x = u.x /\ v.y = u.y /\ v.cell = u.cell
        /\ v.top = u.top /\ v.bottom = u.bottom /\ v.saved = u.saved
        /\ v.keys = u.keys /\ v.charset = u.charset
    BY <1>9, <1>11, <1>12, TintedIs
  <2>2. PICK q : q = z.t
    OBVIOUS
  <2>3. q = Put(v, c)
    BY <1>12, <2>2
  <2>4. q \in TermOf(r) /\ Steady(v, q) /\ q.cell = [v.cell EXCEPT ![v.x][v.y] = c]
    BY <1>6, <2>1, <2>3, PutIs
  <2>5. z \in Palette(a, r)
    BY <1>6, <1>12, <2>1, <2>2, <2>4 DEF Palette, Steady
  <2>6. OneCell(s.t, z.t, x, j, c)
    BY <1>9, <2>1, <2>2, <2>4 DEF OneCell, Steady
  <2> QED BY <1>12, <2>5, <2>6
<1>13. CASE c = {}
  <2>1. PICK v : v = (IF s.on # {} THEN ResetAttr(u) ELSE u)
    OBVIOUS
  <2>2. z = [t |-> Put(v, {}), last |-> {}, on |-> {}]
    BY <1>1, <1>10, <1>13, <2>1 DEF PaintStep
  <2>3. \E hue \in Colours : v = Tinted(u, {}, hue)
    <3>1. CASE s.on # {}
      <4>1. v = Tinted(u, {}, "none")
        BY <2>1, <3>1 DEF ResetAttr, Tinted
      <4> QED BY <4>1 DEF Colours
    <3>2. CASE s.on = {}
      <4>1. v = u /\ u.attr = {}
        BY <1>8, <1>9, <2>1, <3>2 DEF Steady
      <4>2. u = Tinted(u, {}, u.colour) /\ u.colour \in Colours
        BY <1>9, <4>1 DEF Tinted, TermOf
      <4> QED BY <4>1, <4>2
    <3> QED BY <3>1, <3>2
  <2>4. z.t = Put(v, c) /\ z.last = b /\ z.on = b /\ z = [t |-> z.t, last |-> z.last, on |-> z.on]
    BY <1>6, <1>13, <2>2
  <2> QED BY <1>1, <1>6, <1>12, <1>13, <2>3, <2>4
<1>14. CASE c # {}
  <2>1. PICK d : d = CheckAttr(u, b, u.attr, u.attr)
    OBVIOUS
  <2>2. u.attr = s.last /\ u.attr = s.on /\ u.attr \in Lit(a)
    BY <1>8, <1>9 DEF Steady
  <2>3. d.on = b /\ \E hue \in Colours : d.t = Tinted(u, b, hue)
    BY <1>6, <1>9, <2>1, <2>2, CheckAttrIs
  <2>4. z = [t |-> PutChar(d.t), last |-> b, on |-> d.on]
    BY <1>1, <1>10, <1>14, <2>1, <2>2 DEF PaintStep
  <2>5. PICK hue \in Colours : d.t = Tinted(u, b, hue)
    BY <2>3
  <2>6. PICK v : v = d.t
    OBVIOUS
  <2>7. v = Tinted(u, b, hue) /\ v.attr = b
    BY <1>9, <1>11, <2>5, <2>6, TintedIs
  <2>8. PutChar(v) = Put(v, c)
    BY <1>6, <1>14, <2>7 DEF PutChar
  <2>9. z.t = Put(v, c) /\ z.last = b /\ z.on = b /\ z = [t |-> z.t, last |-> z.last, on |-> z.on]
    BY <2>3, <2>4, <2>6, <2>8
  <2> QED BY <1>1, <1>12, <2>7, <2>9
<1> QED BY <1>13, <1>14

LEMMA WholeScreenIs ==
  ASSUME NEW r \in Nat, NEW t \in TermOf(r), NEW u, u = WholeScreen(t)
  PROVE  /\ u \in TermOf(r) /\ u.top = 1 /\ u.bottom = r /\ u.x = 1 /\ u.y = 1 /\ u.cell = t.cell /\ u.saved = t.saved
         /\ u.attr = t.attr /\ u.keys = t.keys /\ u.charset = t.charset
<1>1. t.rows = r /\ 1 \in 1 .. r /\ r \in 1 .. r /\ Cols \in Nat /\ Cols >= 1
  BY TermFact, ColsAssumption
<1>2. PICK v : v = [t EXCEPT !.top = 1, !.bottom = r]
  OBVIOUS
<1>3. /\ v \in TermOf(r) /\ v.top = 1 /\ v.bottom = r /\ v.cell = t.cell /\ v.saved = t.saved
      /\ v.attr = t.attr /\ v.keys = t.keys /\ v.charset = t.charset
  BY <1>1, <1>2 DEF TermOf
<1>4. u = Goto(v, 1, 1)
  BY <1>1, <1>2 DEF WholeScreen, Home
<1>5. u \in TermOf(r) /\ u.x = Between(1, 1, r) /\ u.y = Between(1, 1, Cols) /\ u.cell = v.cell /\ Steady(v, u)
  BY <1>3, <1>4, GotoIs
<1>6. Between(1, 1, r) = 1 /\ Between(1, 1, Cols) = 1
  BY <1>1 DEF Between
<1> QED BY <1>3, <1>5, <1>6 DEF Steady

LEMMA PaintingGoes ==
  ASSUME NEW a \in Attributes, NEW r \in Nat, NEW w, Sound(w), Tame(a, w), w.off + w.rows <= r,
         NEW t \in TermOf(r), NEW p, p = Painting(t, w)
  PROVE  /\ p[0] = PaintStart(t) /\ PaintStart(t) \in Palette(a, r)
         /\ \A k \in 1 .. (w.rows * Cols) : p[k] = PaintStep(w, p[k - 1], k)
<1>0. PICK n : n = w.rows * Cols
  OBVIOUS
<1>1. n \in Nat
  <2>1. w.rows \in Nat /\ Cols \in Nat
    BY RowsFact, ColsAssumption
  <2> QED BY <1>0, <2>1
<1>2. PICK S : S = Palette(a, r)
  OBVIOUS
<1>3. PICK x : x = PaintStart(t)
  OBVIOUS
<1>4. x \in S
  <2>1. PICK u : u = WholeScreen(t)
    OBVIOUS
  <2>2. u \in TermOf(r)
    BY <2>1, WholeScreenIs
  <2>3. PICK v : v = Tinted(u, {}, "none")
    OBVIOUS
  <2>4. {} \in SUBSET Attributes /\ "none" \in Colours /\ {} \in Lit(a)
    BY DEF Colours, Lit
  <2>5. v \in TermOf(r) /\ v.attr = {}
    BY <2>2, <2>3, <2>4, TintedIs
  <2>6. x = [t |-> v, last |-> {}, on |-> {}]
    BY <1>3, <2>1, <2>3 DEF PaintStart, ResetAttr, Tinted
  <2> QED BY <1>2, <2>4, <2>5, <2>6 DEF Palette
<1>5. PICK F : F = [q \in (1 .. n) \X S |-> PaintStep(w, q[2], q[1])]
  OBVIOUS
<1>6. F \in [(1 .. n) \X S -> S]
  <2>1. ASSUME NEW q \in (1 .. n) \X S PROVE PaintStep(w, q[2], q[1]) \in S
    <3>1. PICK k, s, z : k = q[1] /\ s = q[2] /\ z = PaintStep(w, s, k)
      OBVIOUS
    <3>2. k \in 1 .. (w.rows * Cols) /\ s \in Palette(a, r)
      BY <1>0, <1>2, <3>1
    <3>3. z \in Palette(a, r)
      BY <3>1, <3>2, PaintStepIs
    <3> QED BY <1>2, <3>1, <3>3
  <2> QED BY <1>5, <2>1
<1>7. PICK d \in [0 .. n -> S] : RunOf(n, x, F, d)
  BY <1>1, <1>4, <1>6, Iterates
<1>8. d = [k \in 0 .. n |-> IF k = 0 THEN x ELSE PaintStep(w, d[k - 1], k)]
  <2>1. ASSUME NEW k \in 0 .. n PROVE d[k] = IF k = 0 THEN x ELSE PaintStep(w, d[k - 1], k)
    <3>1. d[k] = IF k = 0 THEN x ELSE F[<<k, d[k - 1]>>]
      BY <1>7 DEF RunOf
    <3>2. CASE k = 0
      BY <3>1, <3>2
    <3>3. CASE k # 0
      <4>1. k \in 1 .. n /\ k - 1 \in 0 .. n
        BY <1>1, <3>3
      <4>2. <<k, d[k - 1]>> \in (1 .. n) \X S
        BY <1>7, <4>1
      <4>3. F[<<k, d[k - 1]>>] = PaintStep(w, d[k - 1], k)
        BY <1>5, <4>2
      <4> QED BY <3>1, <3>3, <4>3
    <3> QED BY <3>2, <3>3
  <2> QED BY <1>7, <2>1
<1>9. p = [k \in 0 .. n |-> IF k = 0 THEN x ELSE PaintStep(w, p[k - 1], k)]
  <2>1. \E e : e = [k \in 0 .. n |-> IF k = 0 THEN x ELSE PaintStep(w, e[k - 1], k)]
    BY <1>8, Zenon
  <2>2. p = CHOOSE e : e = [k \in 0 .. n |-> IF k = 0 THEN x ELSE PaintStep(w, e[k - 1], k)]
    BY <1>0, <1>3 DEF Painting
  <2> QED BY <2>1, <2>2, Zenon
<1>10. ASSUME NEW k \in 0 .. n PROVE p[k] = IF k = 0 THEN x ELSE PaintStep(w, p[k - 1], k)
  BY <1>9, Zenon
<1>11. p[0] = x
  BY <1>1, <1>10
<1>12. ASSUME NEW k \in 1 .. n PROVE p[k] = PaintStep(w, p[k - 1], k)
  <2>1. k \in 0 .. n /\ k # 0
    BY <1>1
  <2> QED BY <1>10, <2>1
<1> QED BY <1>0, <1>2, <1>3, <1>4, <1>11, <1>12

(* After k cells: these show the memory, the rest is as it was.            *)
PaintedTo(a, r, t, w, k, s) ==
  /\ s \in Palette(a, r) /\ s.t.keys = t.keys /\ s.t.charset = t.charset
  /\ \A i \in 1 .. r : i \notin (w.off + 1) .. (w.off + w.rows) => s.t.cell[i] = t.cell[i]
  /\ \A i \in 1 .. w.rows : \A j \in 1 .. Cols : Number(i, j) <= k => s.t.cell[w.off + i][j] = w.mem[i][j]
  /\ k > 0 => s.on = PaintCell(w, k) \ {"char"}

LEMMA PaintedOne ==
  ASSUME NEW a \in Attributes, NEW r \in Nat, NEW t, NEW w, Sound(w), Tame(a, w), w.off + w.rows <= r,
         NEW k \in 1 .. (w.rows * Cols), NEW s, NEW l, l = k - 1, PaintedTo(a, r, t, w, l, s), NEW z, z = PaintStep(w, s, k)
  PROVE  PaintedTo(a, r, t, w, k, z)
<1>0. /\ s \in Palette(a, r) /\ s.t.keys = t.keys /\ s.t.charset = t.charset
      /\ \A i \in 1 .. r : i \notin (w.off + 1) .. (w.off + w.rows) => s.t.cell[i] = t.cell[i]
      /\ \A i \in 1 .. w.rows : \A j \in 1 .. Cols : Number(i, j) <= l => s.t.cell[w.off + i][j] = w.mem[i][j]
  BY DEF PaintedTo
<1>1. PICK x, y, c : x = PaintLine(k) /\ y = PaintColumn(k) /\ c = PaintCell(w, k)
  OBVIOUS
<1>2. z \in Palette(a, r) /\ z.on = PaintCell(w, k) \ {"char"}
  BY <1>0, PaintStepIs
<1>3. OneCell(s.t, z.t, w.off + x, y, c)
  <2>1. OneCell(s.t, z.t, w.off + PaintLine(k), PaintColumn(k), PaintCell(w, k))
    BY <1>0, PaintStepIs
  <2> QED BY <1>1, <2>1
<1>4. w.rows \in Nat /\ w.off \in Nat /\ Cols \in Nat
  BY RowsFact, ColsAssumption DEF Sound, WindowOf
<1>5. x \in 1 .. w.rows /\ y \in 1 .. Cols /\ Number(x, y) = k
  BY <1>1, <1>4, NumberIs
<1>6. s.t.cell \in Screen(r)
  <2>1. s.t \in TermOf(r)
    BY <1>0 DEF Palette
  <2> QED BY <2>1, TermFact
<1>7. PICK e, old, new : e = w.off + x /\ old = s.t.cell /\ new = z.t.cell
  OBVIOUS
<1>8. e \in 1 .. r /\ e \in (w.off + 1) .. (w.off + w.rows) /\ new = [old EXCEPT ![e][y] = c] /\ old \in Screen(r)
      /\ c = w.mem[x][y]
  BY <1>1, <1>3, <1>4, <1>5, <1>6, <1>7 DEF OneCell, PaintCell
<1>9. /\ \A i \in 1 .. r : i # e => new[i] = old[i]
      /\ \A j \in 1 .. Cols : new[e][j] = IF j = y THEN c ELSE old[e][j]
  BY <1>5, <1>8 DEF Screen
<1>10. \A i \in 1 .. r : i \notin (w.off + 1) .. (w.off + w.rows) => new[i] = t.cell[i]
  BY <1>0, <1>7, <1>8, <1>9
<1>11. ASSUME NEW i \in 1 .. w.rows, NEW j \in 1 .. Cols, Number(i, j) <= k PROVE new[w.off + i][j] = w.mem[i][j]
  <2>1. w.off + i \in 1 .. r
    BY <1>4
  <2>2. Number(i, j) \in Int
    <3>1. Number(i, j) \in 1 .. (w.rows * Cols)
      BY <1>4, NumberWithin
    <3> QED BY <3>1
  <2>3. CASE Number(i, j) = k
    <3>1. i = x /\ j = y
      <4>1. i \in Int /\ x \in Int /\ Number(i, j) = Number(x, y)
        BY <1>4, <1>5, <2>3
      <4> QED BY <1>5, <4>1, NumberOnce
    <3> QED BY <1>7, <1>8, <1>9, <3>1
  <2>4. CASE Number(i, j) # k
    <3>1. Number(i, j) <= l
      BY <1>4, <1>11, <2>2, <2>4
    <3>2. old[w.off + i][j] = w.mem[i][j]
      BY <1>0, <1>7, <3>1
    <3>3. w.off + i = e => j # y
      <4>1. w.off + i = e => i = x
        BY <1>4, <1>5, <1>7
      <4> QED BY <1>5, <2>4, <4>1
    <3> QED BY <1>9, <2>1, <3>2, <3>3
  <2> QED BY <2>3, <2>4
<1>12. z.t.keys = t.keys /\ z.t.charset = t.charset
  BY <1>0, <1>3 DEF OneCell
<1> QED BY <1>2, <1>7, <1>10, <1>11, <1>12 DEF PaintedTo

(* Two functions that agree everywhere are the same.                       *)
LEMMA SameFunction ==
  ASSUME NEW D, NEW S, NEW f \in [D -> S], NEW g \in [D -> S], \A j \in D : f[j] = g[j]
  PROVE  f = g
OBVIOUS

(* A repaint of a window: its lines show its memory, the cursor and the    *)
(* region are the window's, and the attributes those of the last cell.     *)
LEMMA PaintVideoIs ==
  ASSUME NEW a \in Attributes, NEW r \in Nat, NEW w, Sound(w), Tame(a, w), w.off + w.rows <= r,
         NEW t \in TermOf(r), NEW u, u = PaintVideo(t, w)
  PROVE  /\ u \in TermOf(r) /\ u.x = w.x + w.off /\ u.y = Column(w.y) /\ u.top = w.up + w.off /\ u.bottom = w.low + w.off
         /\ u.attr = w.mem[w.rows][Cols] \ {"char"} /\ u.keys = t.keys /\ u.charset = t.charset
         /\ Shows(w, u) /\ Beside(w, t, u)
<1>1. PICK p, n : p = Painting(t, w) /\ n = w.rows * Cols
  OBVIOUS
<1>2. /\ p[0] = PaintStart(t) /\ PaintStart(t) \in Palette(a, r)
      /\ \A k \in 1 .. n : p[k] = PaintStep(w, p[k - 1], k)
  BY <1>1, PaintingGoes
<1>3. w.rows \in Nat /\ w.rows >= 3 /\ w.off \in Nat /\ Cols \in Nat /\ Cols >= 1
  BY RowsFact, ColsAssumption DEF Sound, WindowOf
<1>4. w.rows \in 1 .. w.rows /\ Cols \in 1 .. Cols
  BY <1>3
<1>5. Number(w.rows, Cols) = n /\ n \in Nat /\ n > 0
  <2>1. Number(w.rows, Cols) \in 1 .. n
    BY <1>1, <1>3, <1>4, NumberWithin
  <2>2. (w.rows - 1) * Cols + Cols = w.rows * Cols
    BY <1>3
  <2>3. n \in Nat
    BY <1>1, <1>3
  <2> QED BY <1>1, <2>1, <2>2, <2>3 DEF Number
<1> DEFINE J == {k \in 0 .. n : PaintedTo(a, r, t, w, k, p[k])}
<1>6. 0 \in J
  <2>1. PICK s : s = PaintStart(t)
    OBVIOUS
  <2>2. s.t.keys = t.keys /\ s.t.charset = t.charset /\ s.t.cell = t.cell
    <3>1. PICK v : v = WholeScreen(t)
      OBVIOUS
    <3>2. v \in TermOf(r) /\ v.cell = t.cell /\ v.keys = t.keys /\ v.charset = t.charset
      BY <3>1, WholeScreenIs
    <3>3. s.t = ResetAttr(v)
      BY <2>1, <3>1 DEF PaintStart
    <3> QED BY <3>2, <3>3 DEF ResetAttr, TermOf
  <2>3. \A i \in 1 .. w.rows : \A j \in 1 .. Cols : ~(Number(i, j) <= 0)
    <3> SUFFICES ASSUME NEW i \in 1 .. w.rows, NEW j \in 1 .. Cols PROVE ~(Number(i, j) <= 0)
      OBVIOUS
    <3>1. Number(i, j) \in 1 .. (w.rows * Cols)
      BY <1>3, NumberWithin
    <3> QED BY <3>1
  <2>4. PaintedTo(a, r, t, w, 0, s)
    BY <1>2, <2>1, <2>2, <2>3 DEF PaintedTo
  <2> QED BY <1>2, <1>5, <2>1, <2>4
<1>7. ASSUME NEW k \in 1 .. n, k - 1 \in J PROVE k \in J
  <2>1. PICK l, s, z : l = k - 1 /\ s = p[k - 1] /\ z = p[k]
    OBVIOUS
  <2>2. PaintedTo(a, r, t, w, l, s)
    BY <1>7, <2>1
  <2>3. z = PaintStep(w, s, k) /\ k \in 1 .. (w.rows * Cols)
    BY <1>1, <1>2, <2>1
  <2>4. PaintedTo(a, r, t, w, k, z)
    BY <2>1, <2>2, <2>3, PaintedOne
  <2> QED BY <1>5, <2>1, <2>4
<1>8. PICK s : s = p[n]
  OBVIOUS
<1>9. PaintedTo(a, r, t, w, n, s)
  <2>1. \A k \in 0 .. n : k \in J
    <3> HIDE DEF J
    <3> QED BY <1>5, <1>6, <1>7, UpTo
  <2>2. n \in J
    <3> HIDE DEF J
    <3> QED BY <1>5, <2>1
  <2> QED BY <1>8, <2>2
<1>10. /\ s \in Palette(a, r) /\ s.t.keys = t.keys /\ s.t.charset = t.charset
       /\ \A i \in 1 .. r : i \notin (w.off + 1) .. (w.off + w.rows) => s.t.cell[i] = t.cell[i]
       /\ \A i \in 1 .. w.rows : \A j \in 1 .. Cols : Number(i, j) <= n => s.t.cell[w.off + i][j] = w.mem[i][j]
       /\ s.on = PaintCell(w, n) \ {"char"}
  BY <1>5, <1>9 DEF PaintedTo
<1>11. PaintCell(w, n) = w.mem[w.rows][Cols]
  <2>1. n \in 1 .. (w.rows * Cols)
    BY <1>1, <1>5
  <2>2. PaintLine(n) \in 1 .. w.rows /\ PaintColumn(n) \in 1 .. Cols /\ Number(PaintLine(n), PaintColumn(n)) = n
    BY <1>3, <2>1, NumberIs
  <2>3. PaintLine(n) \in Int /\ w.rows \in Int
    BY <1>3, <2>2
  <2>4. PaintLine(n) = w.rows /\ PaintColumn(n) = Cols
    BY <1>4, <1>5, <2>2, <2>3, NumberOnce
  <2> QED BY <2>4 DEF PaintCell
<1>12. s.t \in TermOf(r) /\ s.t.attr = w.mem[w.rows][Cols] \ {"char"}
  BY <1>10, <1>11 DEF Palette
<1>13. s.t.cell \in Screen(r) /\ w.mem \in Screen(w.rows)
  BY <1>12, TermFact, MemFact
<1>14. ASSUME NEW i \in 1 .. w.rows PROVE s.t.cell[w.off + i] = w.mem[i]
  <2>1. w.off + i \in 1 .. r
    BY <1>3
  <2>2. s.t.cell[w.off + i] \in [1 .. Cols -> Cells] /\ w.mem[i] \in [1 .. Cols -> Cells]
    BY <1>13, <2>1 DEF Screen
  <2>3. ASSUME NEW j \in 1 .. Cols PROVE s.t.cell[w.off + i][j] = w.mem[i][j]
    <3>1. Number(i, j) \in 1 .. (w.rows * Cols)
      BY <1>3, NumberWithin
    <3>2. Number(i, j) <= n
      BY <1>1, <1>5, <3>1
    <3> QED BY <1>10, <3>2
  <2>4. PICK f, g : f = s.t.cell[w.off + i] /\ g = w.mem[i]
    OBVIOUS
  <2>5. f \in [1 .. Cols -> Cells] /\ g \in [1 .. Cols -> Cells] /\ \A j \in 1 .. Cols : f[j] = g[j]
    BY <2>2, <2>3, <2>4
  <2>6. f = g
    <3>1. PICK D : D = 1 .. Cols
      OBVIOUS
    <3>2. f \in [D -> Cells] /\ g \in [D -> Cells] /\ \A j \in D : f[j] = g[j]
      BY <2>5, <3>1
    <3> QED BY ONLY <3>2, SameFunction
  <2> QED BY <2>4, <2>6
<1>15. PICK up, low, v : up = w.up + w.off /\ low = w.low + w.off /\ v = SetScroll(s.t, up, low)
  OBVIOUS
<1>16. up \in 1 .. r /\ low \in 1 .. r /\ up < low /\ w.x \in 1 .. w.rows /\ w.y \in Nat \ {0}
  <2>1. w.up \in 1 .. w.rows /\ w.low \in 1 .. w.rows /\ w.up < w.low /\ w.x \in 1 .. w.rows /\ w.y \in Nat \ {0}
    BY RegionFact, LineFact, ColumnFact
  <2> QED BY <1>3, <1>15, <2>1
<1>17. /\ v \in TermOf(r) /\ v.top = up /\ v.bottom = low /\ v.cell = s.t.cell /\ v.saved = s.t.saved
       /\ v.attr = s.t.attr /\ v.keys = s.t.keys /\ v.charset = s.t.charset
  BY <1>12, <1>15, <1>16, SetScrollIs
<1>18. PICK row, col : row = w.x + w.off /\ col = w.y
  OBVIOUS
<1>19. row \in Int /\ col \in Int /\ Between(1, row, r) = row /\ Between(1, col, Cols) = Column(col)
  <2>1. row \in 1 .. r /\ col \in Nat \ {0}
    BY <1>3, <1>16, <1>18
  <2> QED BY <1>3, <2>1 DEF Between, Column
<1>20. u = Goto(v, row, col)
  BY <1>1, <1>8, <1>15, <1>18, PaintingIs
<1>21. u \in TermOf(r) /\ u.x = Between(1, row, r) /\ u.y = Between(1, col, Cols) /\ u.cell = v.cell /\ Steady(v, u)
  BY <1>17, <1>19, <1>20, GotoIs
<1>22. Shows(w, u)
  BY <1>14, <1>17, <1>21 DEF Shows
<1>23. Beside(w, t, u)
  <2>1. t.rows = r
    BY TermFact
  <2> QED BY <1>10, <1>17, <1>21, <2>1 DEF Beside
<1> QED BY <1>10, <1>12, <1>15, <1>17, <1>18, <1>19, <1>21, <1>22, <1>23 DEF Steady

------------------------------------------------------------------------------
(* The parts of the type invariant the argument needs.                     *)
Focus ==
    /\ this \in Windows /\ ok \in [Windows -> BOOLEAN]
    /\ lastwin \in Windows \cup {"none"} /\ writing \in Windows \cup {"none"}
    /\ mode \in {"run", "prompt", "done"}

(* The prompt is only shown between two reads, and until the end the       *)
(* current window is that of the keyboard or, while a program's output is  *)
(* handled, any.                                                           *)
Followed ==
    /\ mode = "prompt" => writing = "none"
    /\ mode # "done" /\ writing = "none" => lastwin = this
    /\ mode # "done" /\ (\E w \in Windows : ok[w]) => ok[this]

FInv == Focus /\ Followed

------------------------------------------------------------------------------
(* One lemma for each step that sets a window up, ends or changes mode.    *)

LEMMA InitFocus == Init => FInv
BY DEF Init, FInv, Focus, Followed, Windows

LEMMA ReadFocus == ASSUME FInv, NEW w \in Windows, Read(w) PROVE FInv'
BY DEF FInv, Focus, Followed, Windows, Read, InLoop

LEMMA ItemFocus == ASSUME FInv, NEW c \in Inputs, Item(c) PROVE FInv'
BY DEF FInv, Focus, Followed, Windows, Item

LEMMA EndOfReadFocus == ASSUME FInv, EndOfRead PROVE FInv'
BY DEF FInv, Focus, Followed, Windows, EndOfRead

LEMMA DiesFocus == ASSUME FInv, NEW w \in Windows, Dies(w) PROVE FInv'
<1>1. Focus'
  BY DEF FInv, Focus, Windows, Dies, InLoop, Other
<1>2. mode' = "run" /\ writing' = "none" /\ lastwin' = this'
  BY DEF Dies, InLoop
<1>3. (\E v \in Windows : ok'[v]) => ok'[this']
  <2>1. CASE this = w
    BY <2>1 DEF FInv, Focus, Windows, Dies, Other
  <2>2. CASE this # w
    BY <2>2 DEF FInv, Focus, Followed, Windows, Dies, InLoop
  <2> QED BY <2>1, <2>2
<1> QED BY <1>1, <1>2, <1>3 DEF FInv, Followed

LEMMA SwitchFocus == ASSUME FInv, Switch PROVE FInv'
BY DEF FInv, Focus, Followed, Windows, Switch, InLoop

LEMMA AskFocus == ASSUME FInv, AskCommand PROVE FInv'
BY DEF FInv, Focus, Followed, Windows, AskCommand, InLoop

LEMMA AnswerFocus == ASSUME FInv, NEW k \in Keys, Answer(k) PROVE FInv'
BY DEF FInv, Focus, Followed, Windows, Answer

LEMMA DigitFocus == ASSUME FInv, NEW d \in Digits, AnswerDigit(d) PROVE FInv'
BY DEF FInv, Focus, Followed, Windows, AnswerDigit

LEMMA WinchFocus == ASSUME FInv, NEW rows \in Heights, Winch(rows) PROVE FInv'
<1>1. CASE TallEnough(rows)
  BY <1>1 DEF FInv, Focus, Followed, Windows, Winch
<1>2. CASE ~TallEnough(rows)
  BY <1>2 DEF FInv, Focus, Followed, Windows, Winch
<1> QED BY <1>1, <1>2

LEMMA FinishFocus == ASSUME FInv, Finish PROVE FInv'
BY DEF FInv, Focus, Followed, Windows, Finish, InLoop

LEMMA StutterFocus == ASSUME FInv, UNCHANGED vars PROVE FInv'
BY DEF FInv, Focus, Followed, Windows, vars

LEMMA NextFocus == FInv /\ [Next]_vars => FInv'
<1> SUFFICES ASSUME FInv, [Next]_vars PROVE FInv'
  OBVIOUS
<1>1. CASE UNCHANGED vars
  BY <1>1, StutterFocus
<1>2. CASE Next
  BY <1>2, ReadFocus, ItemFocus, EndOfReadFocus, DiesFocus, SwitchFocus, AskFocus, AnswerFocus,
     DigitFocus, WinchFocus, FinishFocus, StutterFocus DEF Next
<1> QED BY <1>1, <1>2

(* Between two reads the keyboard's window is the one the terminal is set  *)
(* up for, whatever was switched, resized or asked in between, and its     *)
(* program has not ended as long as the other one has not ended either     *)
(* (set_win, isalive, winch in splitvt.c).                                 *)
THEOREM KeyboardIsFollowed == Spec => []KeyboardFollowed
<1>1. Spec => []FInv
  BY InitFocus, NextFocus, PTL DEF Spec
<1>2. FInv => KeyboardFollowed
  BY DEF FInv, Focus, Followed, KeyboardFollowed, InLoop
<1> QED BY <1>1, <1>2, PTL

------------------------------------------------------------------------------
(* While output is handled, the current window is the one it came from.    *)
Routed ==
    /\ writing # "none" => lastwin = writing
    /\ ~misrouted

LEMMA NextRouted ==
  ASSUME "winch" \in Assumed, FInv, Routed, [Next]_vars
  PROVE Routed'
<1>1. ASSUME NEW w \in Windows, Read(w) PROVE Routed'
  BY <1>1 DEF Routed, Read
<1>2. ASSUME NEW c \in Inputs, Item(c) PROVE Routed'
  BY <1>2 DEF Routed, Item
<1>3. CASE EndOfRead
  BY <1>3 DEF Routed, EndOfRead
<1>4. ASSUME NEW w \in Windows, Dies(w) PROVE Routed'
  BY <1>4 DEF Routed, Dies, InLoop
<1>5. CASE Switch
  BY <1>5 DEF Routed, Switch, InLoop
<1>6. CASE AskCommand
  BY <1>6 DEF Routed, AskCommand
<1>7. ASSUME NEW k \in Keys, Answer(k) PROVE Routed'
  BY <1>7 DEF Routed, Answer
<1>8. ASSUME NEW d \in Digits, AnswerDigit(d) PROVE Routed'
  BY <1>8 DEF Routed, AnswerDigit
<1>9. ASSUME NEW rows \in Heights, Winch(rows) PROVE Routed'
  BY <1>9, "winch" \in Assumed DEF Routed, Winch
<1>10. CASE Finish
  BY <1>10 DEF Routed, Finish, InLoop, FInv, Followed
<1>11. CASE UNCHANGED vars
  BY <1>11 DEF Routed, vars
<1> QED
  BY <1>1, <1>2, <1>3, <1>4, <1>5, <1>6, <1>7, <1>8, <1>9, <1>10, <1>11 DEF Next

(* When SIGWINCH does not come within a write, every item goes to the      *)
(* window of the program that wrote it: the switches, the prompts and the  *)
(* ends of programs in between change nothing about it (vt_write).         *)
THEOREM WholeWritesAreRouted == "winch" \in Assumed => (Spec => []RightWindow)
<1> SUFFICES ASSUME "winch" \in Assumed PROVE Spec => []RightWindow
  OBVIOUS
<1>1. Init => FInv /\ Routed
  BY InitFocus DEF Init, Routed
<1>2. FInv /\ Routed /\ [Next]_vars => (FInv /\ Routed)'
  BY NextFocus, NextRouted
<1>3. FInv /\ Routed => RightWindow
  BY DEF Routed, RightWindow
<1> QED BY <1>1, <1>2, <1>3, PTL DEF Spec

------------------------------------------------------------------------------
(* Both windows are sound.                                                 *)
Kept(ws) == \A v \in Windows : Sound(ws[v])

(* init_vt100: windows that are made and windows that are made anew.       *)
LEMMA NewWindowSound ==
  ASSUME NEW rows \in Nat, rows >= 3, NEW off \in Nat
  PROVE  Sound(NewWindow(rows, off)) /\ NewWindow(rows, off).rows = rows
<1> DEFINE w == [x |-> 1, y |-> 1, rows |-> rows, off |-> off, up |-> 1, low |-> rows,
                 attr |-> {}, keys |-> "normal", charset |-> "US", colour |-> "none",
                 sx |-> 0, sy |-> 0, sattr |-> {}, tabs |-> DefaultTabs,
                 mem |-> Blank(rows), wild |-> FALSE]
<1>1. Blank(rows) \in Screen(rows)
  BY DEF Blank, BlankRow, Screen, Cells
<1>2. DefaultTabs \in SUBSET (1 .. Cols)
  BY DEF DefaultTabs
<1>3. w \in WindowOf(rows)
  <2>1. 1 \in 1 .. rows /\ rows \in 1 .. rows /\ 1 \in Nat \ {0} /\ 0 \in Nat /\ {} \in SUBSET Attributes
    OBVIOUS
  <2> QED BY <1>1, <1>2, <2>1 DEF WindowOf, Colours
<1>4. w.rows = rows /\ w.up = 1 /\ w.low = rows /\ w.sx = 0
  OBVIOUS
<1>5. NewWindow(rows, off) = ResetWin(w)
  BY DEF NewWindow
<1> HIDE DEF w
<1>6. Sound(w)
  BY <1>3, <1>4 DEF Sound
<1>7. ResetWin(w).rows = w.rows
  BY <1>6 DEF Sound, WindowOf, ResetWin
<1> QED BY <1>4, <1>5, <1>6, <1>7, ResetWinSound

LEMMA ResizedSound ==
  ASSUME NEW w, Sound(w), NEW rows \in Nat, rows >= 3, NEW off \in Nat,
         Resized(w, rows, off).up < Resized(w, rows, off).low
  PROVE  Sound(Resized(w, rows, off)) /\ Resized(w, rows, off).rows = rows
<1> DEFINE shift == rows - w.rows
           x == IF w.x >= 1 /\ w.x + shift >= 1 THEN w.x + shift ELSE 1
           y == IF w.y > Cols THEN Cols ELSE w.y
           mem == [i \in 1 .. rows |-> IF i - shift >= 1 THEN w.mem[i - shift] ELSE BlankRow]
           full == IF w.low = w.rows THEN rows ELSE w.low
           low == IF full > rows THEN rows ELSE full
           v == [w EXCEPT !.rows = rows, !.mem = mem, !.x = x, !.y = y, !.off = off,
                          !.tabs = DefaultTabs, !.low = low]
<1>1. mem \in Screen(rows)
  <2>1. w.mem \in Screen(w.rows) /\ w.rows \in Nat
    BY MemFact, RowsFact
  <2>2. ASSUME NEW i \in 1 .. rows, i - shift >= 1 PROVE i - shift \in 1 .. w.rows
    BY <2>1, <2>2
  <2>3. BlankRow \in [1 .. Cols -> Cells]
    BY DEF BlankRow, Cells
  <2> QED BY <2>1, <2>2, <2>3 DEF Screen
<1>2. x \in 1 .. rows /\ y \in Nat \ {0} /\ y <= Cols /\ low \in 1 .. rows
  BY RowsFact, LineFact, ColumnFact, RegionFact, ColsAssumption
<1>3. Resized(w, rows, off) = v
  <2>1. CopiedVideo(w, rows) = [w EXCEPT !.rows = rows, !.mem = mem, !.x = x, !.y = y]
    BY DEF CopiedVideo
  <2> DEFINE placed == [w EXCEPT !.rows = rows, !.mem = mem, !.x = x, !.y = y, !.off = off,
                                 !.tabs = DefaultTabs, !.low = full]
  <2> HIDE DEF mem, x, y
  <2>2. Resized(w, rows, off) = CheckWin(placed)
    BY <2>1 DEF Resized, Sound, WindowOf
  <2>3. placed.rows = rows /\ placed.x = x /\ placed.y = y /\ placed.low = full
    BY DEF Sound, WindowOf
  <2>4. CheckWin(placed) = [placed EXCEPT !.x = x, !.y = y, !.low = low]
    <3> HIDE DEF placed, full, shift
    <3>1. ~(x > rows) /\ ~(y > Cols)
      BY <1>2, ColsAssumption
    <3> QED BY <2>3, <3>1 DEF CheckWin, low
  <2>5. [placed EXCEPT !.x = x, !.y = y, !.low = low] = v
    BY DEF Sound, WindowOf
  <2> QED BY <2>2, <2>4, <2>5
<1> HIDE DEF mem, x, y, low
<1>4. v \in [x : 1 .. rows, y : Nat \ {0}, rows : {rows}, off : Nat, up : 1 .. w.rows, low : 1 .. rows,
              attr : SUBSET Attributes, keys : {"normal", "application"}, charset : {"US", "graphics"},
              colour : Colours, sx : Nat, sy : Nat, sattr : SUBSET Attributes,
              tabs : SUBSET (1 .. Cols), mem : Screen(rows), wild : {FALSE}]
  <2>1. DefaultTabs \in SUBSET (1 .. Cols)
    BY DEF DefaultTabs
  <2>2. w \in WindowOf(w.rows)
    BY DEF Sound
  <2> QED BY <1>1, <1>2, <2>1, <2>2 DEF WindowOf
<1>5. v.rows = rows /\ v.up = w.up /\ v.low = low /\ v.sx = w.sx /\ v.sy = w.sy
  BY DEF Sound, WindowOf
<1> HIDE DEF v
<1>6. v.up < low
  BY <1>3, <1>5
<1>7. v.up \in 1 .. rows
  BY <1>2, <1>5, <1>6, RegionFact, RowsFact
<1>8. v \in WindowOf(rows)
  BY <1>4, <1>7 DEF WindowOf
<1>9. Sound(v)
  BY <1>5, <1>6, <1>8, SavedFact DEF Sound
<1> QED BY <1>3, <1>5, <1>9

(* Each window gets three lines of a terminal that has seven, wherever the *)
(* bar is asked to go.                                                     *)
LEMMA HeightsSplit ==
  ASSUME NEW rows \in Nat, TallEnough(rows), NEW lines \in Int
  PROVE  /\ UpperRows(rows, lines) \in Nat /\ UpperRows(rows, lines) >= 3
         /\ LowerRows(rows, lines) \in Nat /\ LowerRows(rows, lines) >= 3
<1>1. CASE lines = 0
  <2>1. (rows - 1) \div 2 \in Nat /\ (rows - 1) \div 2 >= 3
    BY DEF TallEnough
  <2> QED BY <1>1, <2>1 DEF UpperRows, LowerRows
<1>2. CASE lines # 0
  <2>1. /\ Between(3, lines, rows - 4) \in Nat /\ Between(3, lines, rows - 4) >= 3
        /\ Between(3, lines, rows - 4) <= rows - 4
    BY DEF Between, TallEnough
  <2> QED BY <1>2, <2>1 DEF UpperRows, LowerRows
<1> QED BY <1>1, <1>2

LEMMA ResizedBothSound ==
  ASSUME NEW ws, Kept(ws), NEW rows \in Nat, TallEnough(rows), NEW lines \in Int,
         RegionFits(ResizedBoth(ws, rows, lines)), "shrink" \in Assumed
  PROVE  Kept(ResizedBoth(ws, rows, lines))
<1> DEFINE up == UpperRows(rows, lines)
           low == LowerRows(rows, lines)
           u == Resized(ws["upper"], up, 0)
           l == Resized(ws["lower"], low, up + 1)
           new == ResizedBoth(ws, rows, lines)
<1>1. up \in Nat /\ up >= 3 /\ low \in Nat /\ low >= 3 /\ up + 1 \in Nat /\ 0 \in Nat
  BY HeightsSplit
<1>2. new["upper"] = u /\ new["lower"] = l
  BY DEF ResizedBoth
<1>3. Sound(ws["upper"]) /\ Sound(ws["lower"])
  BY DEF Kept, Windows
<1> HIDE DEF new
<1>4. u.up < u.low /\ l.up < l.low
  BY <1>2 DEF RegionFits, Windows, new
<1> HIDE DEF up, low
<1>5. Sound(u) /\ Sound(l)
  BY <1>1, <1>3, <1>4, ResizedSound
<1>6. Kept(new)
  BY <1>2, <1>5 DEF Kept, Windows
<1> QED BY <1>6 DEF new

(* The parts of the type invariant the argument needs: the windows and the  *)
(* height they share.                                                       *)
Layout ==
    /\ wins = [v \in Windows |-> wins[v]] /\ Kept(wins)
    /\ winsize \in Nat /\ param \in Nat
    /\ lastwin \in Windows \cup {"none"}
    /\ mode # "done" => winsize >= 7 /\ lastwin \in Windows

(* What is taken of the programs and the user: see Careful and RegionFits. *)
Watched == "margin" \in Assumed /\ "one line" \in Assumed /\ "saved" \in Assumed /\ "shrink" \in Assumed

LEMMA InitLayout == Init => Layout
<1> SUFFICES ASSUME Init PROVE Layout
  OBVIOUS
<1> DEFINE upper == NewWindow(UpperRows(StartRows, UserLines), 0)
           lower == NewWindow(LowerRows(StartRows, UserLines), upper.rows + 1)
<1>1. /\ TallEnough(StartRows) /\ wins = [upper |-> upper, lower |-> lower]
      /\ winsize = StartRows /\ lastwin \in Windows /\ param = 0
  BY DEF Init
<1>2. /\ UpperRows(StartRows, UserLines) \in Nat /\ UpperRows(StartRows, UserLines) >= 3
      /\ LowerRows(StartRows, UserLines) \in Nat /\ LowerRows(StartRows, UserLines) >= 3
      /\ StartRows \in Nat /\ UserLines \in Int
  BY <1>1, HeightsSplit, SplitVtAssumption
<1>3. Sound(upper) /\ upper.rows + 1 \in Nat
  BY <1>2, NewWindowSound
<1> HIDE DEF upper
<1>4. Sound(lower)
  BY <1>2, <1>3, NewWindowSound
<1> HIDE DEF lower
<1>5. Kept(wins) /\ wins = [v \in Windows |-> wins[v]]
  BY <1>1, <1>3, <1>4 DEF Kept, Windows
<1> QED BY <1>1, <1>2, <1>5 DEF Layout, TallEnough

LEMMA CarefulIsHarmless ==
  ASSUME Watched, NEW w, NEW c, Careful(w, c)
  PROVE  Harmless(w, c)
BY DEF Watched, Careful, Harmless, Is

LEMMA ItemLayout == ASSUME Layout, Watched, NEW c \in Inputs, Item(c) PROVE Layout'
<1> DEFINE w == wins[lastwin]
           v == Handled([w |-> w, t |-> term], c).w
<1>1. lastwin \in Windows /\ mode' = mode /\ winsize' = winsize /\ param' = param /\ lastwin' = lastwin
  BY DEF Item, Layout
<1>2. Sound(w) /\ Careful(w, c) /\ c \in [op : Ops, n : Nat, m : Nat]
  BY <1>1, SplitVtAssumption DEF Layout, Kept, Item
<1>3. wins' = [wins EXCEPT ![lastwin] = v]
  BY DEF Item
<1> HIDE DEF w
<1>4. Sound(v)
  BY <1>2, CarefulIsHarmless, HandledSound
<1> HIDE DEF v
<1>5. wins = [u \in Windows |-> wins[u]] /\ Kept(wins)
  BY DEF Layout
<1>6. wins' = [u \in Windows |-> wins'[u]] /\ Kept(wins')
  BY <1>1, <1>3, <1>4, <1>5 DEF Kept
<1> QED BY <1>1, <1>6 DEF Layout

LEMMA MoveBarLayout ==
  ASSUME Layout, Watched, mode = "prompt", NEW t, NEW howfar \in Int, MoveBar(t, howfar)
  PROVE  wins' = [v \in Windows |-> wins'[v]] /\ Kept(wins')
<1> DEFINE ws == ResizedBoth(wins, winsize, wins["upper"].rows + howfar)
<1>1. wins' = ws /\ RegionFits(ws)
  BY DEF MoveBar
<1>2. TallEnough(winsize) /\ winsize \in Nat /\ wins["upper"].rows \in Nat /\ Kept(wins)
  BY RowsFact DEF Layout, TallEnough, Kept, Windows
<1>3. "shrink" \in Assumed
  BY Zenon DEF Watched
<1>4. wins["upper"].rows + howfar \in Int
  BY <1>2
<1>5. Kept(ws)
  BY <1>1, <1>2, <1>3, <1>4, ResizedBothSound
<1>6. ws = [v \in Windows |-> ws[v]]
  BY DEF ResizedBoth, Windows
<1> QED BY <1>1, <1>5, <1>6

LEMMA AnswerLayout == ASSUME Layout, Watched, NEW k \in Keys, Answer(k) PROVE Layout'
<1>1. mode = "prompt" /\ mode' = "run" /\ winsize' = winsize /\ lastwin' = lastwin
  BY DEF Answer
<1>2. Toward(1) \in Int /\ Toward(-1) \in Int
  BY DEF Layout, Toward, Count
<1>3. CASE \/ MoveBar(PromptGone(term), Toward(1)) /\ param' = 0
           \/ MoveBar(PromptGone(term), Toward(-1)) /\ param' = 0
  <2>1. wins' = [v \in Windows |-> wins'[v]] /\ Kept(wins')
    BY <1>1, <1>2, <1>3, MoveBarLayout
  <2> QED BY <1>1, <1>3, <2>1 DEF Layout
<1>4. CASE UNCHANGED <<wins, param>>
  BY <1>1, <1>4 DEF Layout
<1> QED BY <1>3, <1>4 DEF Answer

LEMMA WinchLayout == ASSUME FInv, Layout, Watched, NEW rows \in Heights, Winch(rows) PROVE Layout'
<1>1. rows \in Nat /\ winsize' = rows /\ param' = param /\ this' = this /\ mode # "done"
  BY SplitVtAssumption DEF Winch
<1>2. CASE TallEnough(rows)
  <2> DEFINE ws == ResizedBoth(wins, rows, UserLines)
  <2>1. wins' = ws /\ RegionFits(ws) /\ lastwin' = this /\ mode' = mode
    BY <1>2 DEF Winch
  <2>2. "shrink" \in Assumed
    BY Zenon DEF Watched
  <2>3. UserLines \in Int /\ Kept(wins)
    BY SplitVtAssumption DEF Layout
  <2>4. Kept(ws)
    BY <1>1, <1>2, <2>1, <2>2, <2>3, ResizedBothSound
  <2>5. ws = [v \in Windows |-> ws[v]]
    BY DEF ResizedBoth, Windows
  <2>6. this \in Windows
    BY DEF FInv, Focus
  <2> HIDE DEF ws
  <2> QED BY <1>1, <1>2, <2>1, <2>4, <2>5, <2>6 DEF Layout, TallEnough
<1>3. CASE ~TallEnough(rows)
  BY <1>1, <1>3 DEF Winch, Layout
<1> QED BY <1>2, <1>3

(* The steps that leave the windows and the terminal's height alone.       *)
LEMMA OthersLayout ==
  ASSUME FInv, Layout, UNCHANGED <<winsize, wins>>, param' \in Nat,
         lastwin' \in Windows \cup {"none"},
         mode' # "done" => mode # "done" /\ lastwin' \in Windows
  PROVE  Layout'
BY DEF Layout

LEMMA NextLayout == ASSUME Watched, FInv, Layout, [Next]_vars PROVE Layout'
<1>0. param \in Nat /\ (mode # "done" => lastwin \in Windows) /\ lastwin \in Windows \cup {"none"}
  BY DEF Layout
<1>1. ASSUME NEW w \in Windows, Read(w) PROVE Layout'
  BY <1>0, <1>1, OthersLayout DEF Read, InLoop
<1>2. ASSUME NEW c \in Inputs, Item(c) PROVE Layout'
  BY <1>2, ItemLayout
<1>3. CASE EndOfRead
  BY <1>0, <1>3, OthersLayout DEF EndOfRead, FInv, Focus
<1>4. ASSUME NEW w \in Windows, Dies(w) PROVE Layout'
  <2>1. this' \in Windows
    BY <1>4, DiesFocus DEF FInv, Focus
  <2> QED BY <1>0, <1>4, <2>1, OthersLayout DEF Dies, InLoop
<1>5. CASE Switch
  <2>1. this' \in Windows
    BY <1>5, SwitchFocus DEF FInv, Focus
  <2> QED BY <1>0, <1>5, <2>1, OthersLayout DEF Switch, InLoop
<1>6. CASE AskCommand
  BY <1>0, <1>6, OthersLayout DEF AskCommand, InLoop
<1>7. ASSUME NEW k \in Keys, Answer(k) PROVE Layout'
  BY <1>7, AnswerLayout
<1>8. ASSUME NEW d \in Digits, AnswerDigit(d) PROVE Layout'
  <2>1. param * 10 + d \in Nat
    BY <1>0, SplitVtAssumption
  <2> QED BY <1>0, <1>8, <2>1, OthersLayout DEF AnswerDigit
<1>9. ASSUME NEW rows \in Heights, Winch(rows) PROVE Layout'
  BY <1>9, WinchLayout
<1>10. CASE Finish
  BY <1>0, <1>10, OthersLayout DEF Finish
<1>11. CASE UNCHANGED vars
  BY <1>0, <1>11, OthersLayout DEF vars
<1> QED
  BY <1>1, <1>2, <1>3, <1>4, <1>5, <1>6, <1>7, <1>8, <1>9, <1>10, <1>11 DEF Next

(* As long as the programs keep clear of the four situations, no item, no  *)
(* move of the bar and no change of the terminal's height writes outside a *)
(* window's memory or leaves a region or a cursor from which the next one  *)
(* would (vt_write, init_vt100, and videomem.c).                           *)
THEOREM MemoryIsKept == Watched => (Spec => []InMemory)
<1> SUFFICES ASSUME Watched PROVE Spec => []InMemory
  OBVIOUS
<1>1. Init => FInv /\ Layout
  BY InitFocus, InitLayout
<1>2. FInv /\ Layout /\ [Next]_vars => (FInv /\ Layout)'
  BY NextFocus, NextLayout
<1>3. FInv /\ Layout => InMemory
  <2> SUFFICES ASSUME Layout, NEW v \in Windows
               PROVE LET w == wins[v]
                     IN /\ ~w.wild
                        /\ 1 <= w.up /\ w.up < w.low /\ w.low <= w.rows
                        /\ w.x \in 1 .. w.rows /\ w.y >= 1
    BY DEF InMemory
  <2>1. Sound(wins[v])
    BY DEF Layout, Kept
  <2>2. ~wins[v].wild
    BY <2>1 DEF Sound, WindowOf
  <2> QED BY <2>1, <2>2, RegionFact, LineFact, ColumnFact, RowsFact
<1> QED BY <1>1, <1>2, <1>3, PTL DEF Spec

------------------------------------------------------------------------------
(* The screen: two windows one above the other, and the bar between them.  *)

BarLine(ws) == ws["upper"].rows + 1
Placement(ws) == ws["upper"].off = 0 /\ ws["lower"].off = BarLine(ws)

(* Windows that fill a terminal of r lines but for one, at most.           *)
Scene(a, r, ws) ==
    /\ r \in Nat /\ a \in Attributes
    /\ ws = [v \in Windows |-> ws[v]] /\ Kept(ws)
    /\ \A v \in Windows : Tame(a, ws[v])
    /\ Placement(ws) /\ ws["lower"].off + ws["lower"].rows \in {r - 1, r}

Panes(ws, t) == \A v \in Windows : Shows(ws[v], t)
Seen(ws, t) == Panes(ws, t) /\ t.cell[BarLine(ws)] = BarRow

LEMMA SceneFact ==
  ASSUME NEW a, NEW r, NEW ws, Scene(a, r, ws)
  PROVE  /\ r \in Nat /\ a \in Attributes /\ ws["upper"].off = 0 /\ ws["lower"].off = BarLine(ws)
         /\ ws["upper"].rows \in Nat /\ ws["upper"].rows >= 3
         /\ ws["lower"].rows \in Nat /\ ws["lower"].rows >= 3
         /\ BarLine(ws) = ws["upper"].rows + 1 /\ BarLine(ws) \in 1 .. r
         /\ ws["lower"].off + ws["lower"].rows <= r
<1>1. Sound(ws["upper"]) /\ Sound(ws["lower"])
  BY DEF Scene, Kept, Windows
<1>2. ws["upper"].rows \in Nat /\ ws["upper"].rows >= 3 /\ ws["lower"].rows \in Nat /\ ws["lower"].rows >= 3
  BY <1>1, RowsFact
<1>3. r \in Nat /\ a \in Attributes /\ Placement(ws) /\ ws["lower"].off + ws["lower"].rows \in {r - 1, r}
  BY DEF Scene
<1> QED BY <1>2, <1>3 DEF Placement, BarLine

LEMMA PaneFact ==
  ASSUME NEW a, NEW r, NEW ws, Scene(a, r, ws), NEW v \in Windows
  PROVE  /\ Sound(ws[v]) /\ Tame(a, ws[v]) /\ ws[v].off \in Nat /\ ws[v].rows \in Nat /\ ws[v].rows >= 3
         /\ ws[v].off + ws[v].rows <= r
         /\ BarLine(ws) \notin (ws[v].off + 1) .. (ws[v].off + ws[v].rows)
         /\ \A i \in 1 .. ws[Other(v)].rows :
              /\ ws[Other(v)].off + i \in 1 .. r
              /\ ws[Other(v)].off + i \notin (ws[v].off + 1) .. (ws[v].off + ws[v].rows)
<1>1. Sound(ws[v]) /\ Tame(a, ws[v])
  BY DEF Scene, Kept
<1>2. PICK p, q : p = ws["upper"].rows /\ q = ws["lower"].rows
  OBVIOUS
<1>3. /\ p \in Nat /\ p >= 3 /\ q \in Nat /\ q >= 3 /\ r \in Nat /\ p + 1 + q <= r
      /\ ws["upper"].off = 0 /\ ws["lower"].off = p + 1 /\ BarLine(ws) = p + 1
  BY <1>2, SceneFact
<1>4. CASE v = "upper"
  <2>1. Other(v) = "lower"
    BY <1>4 DEF Other
  <2> QED BY <1>1, <1>2, <1>3, <1>4, <2>1
<1>5. CASE v = "lower"
  <2>1. Other(v) = "upper"
    BY <1>5 DEF Other
  <2> QED BY <1>1, <1>2, <1>3, <1>5, <2>1
<1> QED BY <1>4, <1>5 DEF Windows

(* What is drawn in one window's lines leaves the others as they were.      *)
LEMMA OthersStay ==
  ASSUME NEW a, NEW r, NEW ws, Scene(a, r, ws), NEW v \in Windows, NEW t \in TermOf(r), NEW u,
         Beside(ws[v], t, u)
  PROVE  /\ Shows(ws[Other(v)], t) => Shows(ws[Other(v)], u)
         /\ u.cell[BarLine(ws)] = t.cell[BarLine(ws)]
<1>1. t.rows = r /\ BarLine(ws) \in 1 .. r
  BY TermFact, SceneFact
<1>2. BarLine(ws) \notin (ws[v].off + 1) .. (ws[v].off + ws[v].rows)
  BY PaneFact
<1>3. \A i \in 1 .. ws[Other(v)].rows :
         /\ ws[Other(v)].off + i \in 1 .. r
         /\ ws[Other(v)].off + i \notin (ws[v].off + 1) .. (ws[v].off + ws[v].rows)
  BY PaneFact
<1> QED BY <1>1, <1>2, <1>3 DEF Beside, Shows

(* What is drawn in the line of the bar leaves both windows as they were.  *)
LEMMA PanesStay ==
  ASSUME NEW a, NEW r, NEW ws, Scene(a, r, ws), NEW t, Panes(ws, t), NEW u,
         \A i \in 1 .. r : i # BarLine(ws) => u.cell[i] = t.cell[i]
  PROVE  Panes(ws, u)
<1> SUFFICES ASSUME NEW v \in Windows, NEW i \in 1 .. ws[v].rows
             PROVE  u.cell[ws[v].off + i] = ws[v].mem[i]
  BY DEF Panes, Shows
<1>1. ws[v].off + i \in 1 .. r /\ ws[v].off + i # BarLine(ws)
  <2>1. /\ ws[v].off \in Nat /\ ws[v].rows \in Nat /\ ws[v].off + ws[v].rows <= r
        /\ BarLine(ws) \notin (ws[v].off + 1) .. (ws[v].off + ws[v].rows)
    BY PaneFact
  <2>2. r \in Nat
    BY SceneFact
  <2> QED BY <2>1, <2>2
<1>2. t.cell[ws[v].off + i] = ws[v].mem[i]
  BY DEF Panes, Shows
<1> QED BY <1>1, <1>2

------------------------------------------------------------------------------
(* set_win.                                                                *)

LEMMA Recoloured ==
  ASSUME NEW r, NEW t \in TermOf(r), NEW attr \in SUBSET Attributes, NEW u, u = Tinted(t, attr, "none")
  PROVE  /\ u \in TermOf(r) /\ u.attr = attr /\ u.x = t.x /\ u.y = t.y /\ u.cell = t.cell
         /\ u.top = t.top /\ u.bottom = t.bottom /\ u.saved = t.saved
         /\ u.keys = t.keys /\ u.charset = t.charset
<1>1. "none" \in Colours
  BY DEF Colours
<1> QED BY <1>1, TintedIs

LEMMA ResetAttrIs ==
  ASSUME NEW r, NEW t \in TermOf(r), NEW u, u = ResetAttr(t)
  PROVE  /\ u \in TermOf(r) /\ u.attr = {} /\ u.x = t.x /\ u.y = t.y /\ u.cell = t.cell
         /\ u.top = t.top /\ u.bottom = t.bottom /\ u.saved = t.saved
         /\ u.keys = t.keys /\ u.charset = t.charset
<1>1. u = Tinted(t, {}, "none") /\ {} \in SUBSET Attributes
  BY DEF ResetAttr, Tinted
<1> QED BY <1>1, Recoloured

LEMMA SetWinIs ==
  ASSUME NEW a, NEW r, NEW ws, Scene(a, r, ws), NEW t \in TermOf(r), NEW last, NEW which \in Windows, which # last,
         t.attr = ws[Other(which)].attr, t.keys = ws[Other(which)].keys, t.charset = ws[Other(which)].charset,
         NEW u, u = SetWin(ws, t, last, which)
  PROVE  u \in TermOf(r) /\ Follows(ws[which], u) /\ u.cell = t.cell
<1>1. PICK w, o : w = ws[which] /\ o = ws[Other(which)]
  OBVIOUS
<1>2. Sound(w) /\ w.off \in Nat /\ w.rows \in Nat /\ w.off + w.rows <= r /\ r \in Nat
  BY <1>1, PaneFact, SceneFact
<1>3. PICK up, low, row, col : up = w.up + w.off /\ low = w.low + w.off /\ row = w.x + w.off /\ col = w.y
  OBVIOUS
<1>4. up \in 1 .. r /\ low \in 1 .. r /\ up < low /\ row \in 1 .. r /\ col \in Nat \ {0}
  BY <1>2, <1>3, RegionFact, LineFact, ColumnFact
<1>5. PICK s, p : s = SetScroll(t, up, low) /\ p = Goto(s, row, col)
  OBVIOUS
<1>6. /\ s \in TermOf(r) /\ s.top = up /\ s.bottom = low /\ s.cell = t.cell /\ s.saved = t.saved
      /\ s.attr = t.attr /\ s.keys = t.keys /\ s.charset = t.charset
  BY <1>2, <1>4, <1>5, SetScrollIs
<1>7. row \in Int /\ col \in Int
  BY <1>4
<1>8. p \in TermOf(r) /\ p.x = Between(1, row, r) /\ p.y = Between(1, col, Cols) /\ p.cell = s.cell /\ Steady(s, p)
  BY <1>2, <1>5, <1>6, <1>7, GotoIs
<1>9. Between(1, row, r) = row /\ Between(1, col, Cols) = Column(col)
  BY <1>2, <1>4, ColsAssumption DEF Between, Column
<1>10. /\ p \in TermOf(r) /\ p.x = row /\ p.y = Column(col) /\ p.top = up /\ p.bottom = low /\ p.cell = t.cell
       /\ p.attr = o.attr /\ p.keys = o.keys /\ p.charset = o.charset
  BY <1>1, <1>6, <1>8, <1>9 DEF Steady
<1>11. w.attr \in SUBSET Attributes /\ w.keys \in {"normal", "application"} /\ w.charset \in {"US", "graphics"}
  BY <1>2 DEF Sound, WindowOf
<1>12. PICK c : c = (IF w.charset # o.charset THEN [p EXCEPT !.charset = w.charset] ELSE p)
  OBVIOUS
<1>13. /\ c \in TermOf(r) /\ c.x = row /\ c.y = Column(col) /\ c.top = up /\ c.bottom = low /\ c.cell = t.cell
       /\ c.attr = o.attr /\ c.keys = o.keys /\ c.charset = w.charset
  BY <1>10, <1>11, <1>12 DEF TermOf
<1>14. PICK k : k = (IF w.keys # o.keys THEN [c EXCEPT !.keys = w.keys] ELSE c)
  OBVIOUS
<1>15. /\ k \in TermOf(r) /\ k.x = row /\ k.y = Column(col) /\ k.top = up /\ k.bottom = low /\ k.cell = t.cell
       /\ k.attr = o.attr /\ k.keys = w.keys /\ k.charset = w.charset
  BY <1>11, <1>13, <1>14 DEF TermOf
<1>16. u = (IF w.attr # o.attr THEN [ResetAttr(k) EXCEPT !.attr = w.attr] ELSE k)
  BY <1>1, <1>3, <1>5, <1>12, <1>14 DEF SetWin
<1>17. /\ u \in TermOf(r) /\ u.x = row /\ u.y = Column(col) /\ u.top = up /\ u.bottom = low /\ u.cell = t.cell
       /\ u.attr = w.attr /\ u.keys = w.keys /\ u.charset = w.charset
  <2>1. CASE w.attr = o.attr
    BY <1>15, <1>16, <2>1
  <2>2. CASE w.attr # o.attr
    <3>1. [ResetAttr(k) EXCEPT !.attr = w.attr] = Tinted(k, w.attr, "none")
      BY <1>15 DEF ResetAttr, Tinted, TermOf
    <3>2. PICK attr : attr = w.attr
      OBVIOUS
    <3>3. u = Tinted(k, attr, "none") /\ attr \in SUBSET Attributes
      BY <1>11, <1>16, <2>2, <3>1, <3>2
    <3>4. /\ u \in TermOf(r) /\ u.attr = attr /\ u.x = k.x /\ u.y = k.y /\ u.cell = k.cell
          /\ u.top = k.top /\ u.bottom = k.bottom /\ u.keys = k.keys /\ u.charset = k.charset
      BY <1>15, <3>3, Recoloured
    <3> QED BY <1>15, <3>2, <3>4
  <2> QED BY <2>1, <2>2
<1> QED BY <1>1, <1>3, <1>17 DEF Follows

LEMMA SetWinSeen ==
  ASSUME NEW a, NEW r, NEW ws, Scene(a, r, ws), NEW t \in TermOf(r), Seen(ws, t),
         NEW last \in Windows, Follows(ws[last], t), NEW which \in Windows, NEW u, u = SetWin(ws, t, last, which)
  PROVE  u \in TermOf(r) /\ Follows(ws[which], u) /\ Seen(ws, u)
<1>1. CASE which = last
  BY <1>1 DEF SetWin
<1>2. CASE which # last
  <2>1. Other(which) = last
    BY <1>2 DEF Other, Windows
  <2>2. t.attr = ws[last].attr /\ t.keys = ws[last].keys /\ t.charset = ws[last].charset
    BY DEF Follows
  <2>3. u \in TermOf(r) /\ Follows(ws[which], u) /\ u.cell = t.cell
    BY <1>2, <2>1, <2>2, SetWinIs
  <2> QED BY <2>3 DEF Seen, Panes, Shows
<1> QED BY <1>1, <1>2

------------------------------------------------------------------------------
(* The bar, and the prompt that stands in its place.                       *)

LEMMA BarRowCells == BarRow \in [1 .. Cols -> Cells]
BY DEF BarRow, Cells

LEMMA BarIs ==
  ASSUME NEW r \in Nat, NEW t \in TermOf(r), t.cell[t.x][Cols] = {}, NEW u, u = Bar(t)
  PROVE  /\ u \in TermOf(r) /\ Steady(t, u) /\ u.x = t.x
         /\ \A i \in 1 .. r : i # t.x => u.cell[i] = t.cell[i]
         /\ u.cell[t.x] = BarRow
<1>1. PICK line : line = [j \in 1 .. Cols |-> IF j < Cols THEN {"bar"} ELSE t.cell[t.x][j]]
  OBVIOUS
<1>2. line = BarRow
  <2>1. \A j \in 1 .. Cols : ~(j < Cols) => j = Cols
    BY ColsAssumption
  <2>2. \A j \in 1 .. Cols : (IF j < Cols THEN {"bar"} ELSE t.cell[t.x][j]) = (IF j < Cols THEN {"bar"} ELSE {})
    BY <2>1
  <2> QED BY <1>1, <2>2 DEF BarRow
<1>3. PICK v : v = LineAs(t, line)
  OBVIOUS
<1>4. /\ v \in TermOf(r) /\ Steady(t, v) /\ v.x = t.x
      /\ \A i \in 1 .. r : i # t.x => v.cell[i] = t.cell[i]
      /\ v.cell[t.x] = line
  BY <1>2, <1>3, BarRowCells, LineIs
<1>5. PICK x : x = t.x
  OBVIOUS
<1>6. x \in 1 .. r /\ Cols \in 1 .. Cols
  BY <1>5, TermFact, ColsAssumption
<1>7. u = CursorAt(v, x, Cols)
  BY <1>1, <1>3, <1>5 DEF Bar, LineAs, CursorAt, TermOf
<1>8. u \in TermOf(r) /\ u.x = x /\ u.cell = v.cell /\ Steady(v, u)
  BY <1>4, <1>6, <1>7, Placed
<1> QED BY <1>2, <1>4, <1>5, <1>8 DEF Steady

(* While the prompt is shown, the saved cursor is the window's.            *)
Asked(ws, w, t) ==
    /\ w.attr = {} /\ t.x = BarLine(ws) /\ t.cell[BarLine(ws)][Cols] = {}
    /\ t.saved.x = w.x + w.off /\ t.saved.y = Column(w.y)
    /\ t.top = w.up + w.off /\ t.bottom = w.low + w.off
    /\ t.keys = w.keys /\ t.charset = w.charset

LEMMA PromptedIs ==
  ASSUME NEW a, NEW r, Scene(a, r, wins), NEW t \in TermOf(r), Panes(wins, t), NEW v \in Windows,
         Follows(wins[v], t), wins[v].attr = {}, PromptLength < Cols, NEW u, u = Prompted(t)
  PROVE  u \in TermOf(r) /\ Panes(wins, u) /\ Asked(wins, wins[v], u)
<1>1. PICK b, w : b = BarLine(wins) /\ w = wins[v]
  OBVIOUS
<1>2. r \in Nat /\ b \in 1 .. r /\ b = wins["upper"].rows + 1 /\ Cols \in Nat /\ Cols >= 1
  BY <1>1, SceneFact, ColsAssumption
<1>3. PICK s, p, g, e : s = SaveCursor(t) /\ p = ResetAttr(s) /\ g = Goto(p, b, 0) /\ e = ClrEol(g)
  OBVIOUS
<1>4. /\ s \in TermOf(r) /\ s.cell = t.cell /\ s.top = t.top /\ s.bottom = t.bottom
      /\ s.keys = t.keys /\ s.charset = t.charset /\ s.saved.x = t.x /\ s.saved.y = t.y
  BY <1>2, <1>3, SaveCursorIs
<1>5. /\ p \in TermOf(r) /\ p.cell = s.cell /\ p.top = s.top /\ p.bottom = s.bottom
      /\ p.keys = s.keys /\ p.charset = s.charset /\ p.saved = s.saved
  BY <1>3, <1>4, ResetAttrIs
<1>6. g \in TermOf(r) /\ g.x = Between(1, b, r) /\ g.cell = p.cell /\ Steady(p, g)
  BY <1>2, <1>3, <1>5, GotoIs
<1>7. g.x = b
  BY <1>2, <1>6 DEF Between
<1>8. g.y = 1
  BY <1>2, <1>3, <1>5 DEF Goto, TermOf, Between
<1>9. /\ e \in TermOf(r) /\ Steady(g, e) /\ e.x = g.x
      /\ \A i \in 1 .. r : i # b => e.cell[i] = g.cell[i]
      /\ e.cell[b] = Erased(g.cell[b], 1, Cols)
  BY <1>2, <1>3, <1>6, <1>7, <1>8, EraseIs DEF ClrEol
<1>10. \A j \in 1 .. Cols : e.cell[b][j] = {}
  BY <1>9 DEF Erased
<1>11. PICK line : line = [j \in 1 .. Cols |-> IF j <= PromptLength THEN {"char", "bold"} ELSE e.cell[b][j]]
  OBVIOUS
<1>12. line \in [1 .. Cols -> Cells] /\ line[Cols] = {}
  <2>1. {"char", "bold"} \in Cells
    <3>1. {"char", "bold"} = {"char"} \cup {"bold"} /\ {"bold"} \in SUBSET Attributes
      BY DEF Attributes
    <3> QED BY <3>1 DEF Cells
  <2>2. {} \in Cells /\ Cols \in 1 .. Cols /\ ~(Cols <= PromptLength)
    BY <1>2, SplitVtAssumption DEF Cells
  <2> QED BY <1>10, <1>11, <2>1, <2>2
<1>13. PICK l : l = LineAs(e, line)
  OBVIOUS
<1>14. /\ l \in TermOf(r) /\ Steady(e, l) /\ l.x = b
       /\ \A i \in 1 .. r : i # b => l.cell[i] = e.cell[i]
       /\ l.cell[b] = line
  BY <1>2, <1>7, <1>9, <1>12, <1>13, LineIs
<1>15. u = [l EXCEPT !.attr = {"bold"}, !.y = Between(1, PromptLength + 1, Cols)]
  <2>1. e.x = b
    BY <1>7, <1>9
  <2>2. Prompted(t) = [e EXCEPT !.cell[e.x] = [j \in 1 .. Cols |-> IF j <= PromptLength THEN {"char", "bold"} ELSE @[j]],
                                !.attr = {"bold"}, !.y = Between(1, PromptLength + 1, Cols)]
    BY <1>2, <1>3 DEF Prompted
  <2>3. l = [e EXCEPT !.cell[e.x] = line]
    BY <1>13 DEF LineAs
  <2> QED BY <1>9, <1>11, <2>1, <2>2, <2>3 DEF TermOf
<1>16. /\ u \in TermOf(r) /\ u.x = l.x /\ u.cell = l.cell /\ u.top = l.top /\ u.bottom = l.bottom
       /\ u.keys = l.keys /\ u.charset = l.charset /\ u.saved = l.saved
  <2>1. PICK attr, y : attr = {"bold"} /\ y = Between(1, PromptLength + 1, Cols)
    OBVIOUS
  <2>2. attr \in SUBSET Attributes /\ y \in 1 .. Cols
    BY <1>2, <2>1, SplitVtAssumption DEF Attributes, Between
  <2>3. u = [l EXCEPT !.attr = attr, !.y = y]
    BY <1>15, <2>1
  <2> QED BY ONLY <1>14, <2>2, <2>3 DEF TermOf
<1>17. \A i \in 1 .. r : i # b => u.cell[i] = t.cell[i]
  BY <1>4, <1>5, <1>6, <1>9, <1>14, <1>16
<1>18. Panes(wins, u)
  BY <1>1, <1>17, PanesStay
<1>19. /\ u.saved.x = t.x /\ u.saved.y = t.y /\ u.top = t.top /\ u.bottom = t.bottom
       /\ u.keys = t.keys /\ u.charset = t.charset
  BY <1>4, <1>5, <1>6, <1>9, <1>14, <1>16 DEF Steady
<1>20. Asked(wins, w, u)
  BY <1>1, <1>12, <1>14, <1>16, <1>19 DEF Asked, Follows
<1> QED BY <1>1, <1>16, <1>18, <1>20

LEMMA PromptGoneIs ==
  ASSUME NEW a, NEW r, Scene(a, r, wins), NEW t \in TermOf(r), Panes(wins, t), lastwin \in Windows,
         Asked(wins, wins[lastwin], t), NEW u, u = PromptGone(t)
  PROVE  u \in TermOf(r) /\ Follows(wins[lastwin], u) /\ Seen(wins, u)
<1>1. PICK b, w : b = BarLine(wins) /\ w = wins[lastwin]
  OBVIOUS
<1>2. r \in Nat /\ b \in 1 .. r /\ a \in Attributes
  BY <1>1, SceneFact
<1>3. w.attr = {}
  BY <1>1 DEF Asked
<1>4. PICK p, c, k, g : p = ResetAttr(t) /\ c = CR(p) /\ k = Bar(c) /\ g = RestCursor(k)
  OBVIOUS
<1>5. /\ p \in TermOf(r) /\ p.x = t.x /\ p.cell = t.cell /\ p.top = t.top /\ p.bottom = t.bottom
      /\ p.keys = t.keys /\ p.charset = t.charset /\ p.saved = t.saved
  BY <1>4, ResetAttrIs
<1>6. c \in TermOf(r) /\ c.x = p.x /\ c.cell = p.cell /\ Steady(p, c)
  BY <1>2, <1>4, <1>5, CRIs
<1>7. c.x = b /\ c.cell[c.x][Cols] = {}
  BY <1>1, <1>5, <1>6 DEF Asked
<1>8. /\ k \in TermOf(r) /\ Steady(c, k)
      /\ \A i \in 1 .. r : i # b => k.cell[i] = c.cell[i]
      /\ k.cell[b] = BarRow
  BY <1>2, <1>4, <1>6, <1>7, BarIs
<1>9. /\ g \in TermOf(r) /\ g.x = k.saved.x /\ g.y = k.saved.y /\ g.cell = k.cell /\ g.top = k.top /\ g.bottom = k.bottom
      /\ g.keys = k.keys /\ g.charset = k.charset
  BY <1>2, <1>4, <1>8, RestCursorIs
<1>13. u = ResetAttr(g)
  BY <1>4 DEF PromptGone, SetAttr
<1>14. /\ u \in TermOf(r) /\ u.attr = {} /\ u.x = g.x /\ u.y = g.y /\ u.cell = g.cell
       /\ u.top = g.top /\ u.bottom = g.bottom /\ u.keys = g.keys /\ u.charset = g.charset
  BY <1>9, <1>13, ResetAttrIs
<1>15. \A i \in 1 .. r : i # b => u.cell[i] = t.cell[i]
  BY <1>5, <1>6, <1>8, <1>9, <1>14
<1>16. Panes(wins, u)
  BY <1>1, <1>15, PanesStay
<1>17. u.cell[b] = BarRow
  BY <1>8, <1>9, <1>14
<1>18. /\ u.x = t.saved.x /\ u.y = t.saved.y /\ u.top = t.top /\ u.bottom = t.bottom
       /\ u.keys = t.keys /\ u.charset = t.charset
  BY <1>5, <1>6, <1>8, <1>9, <1>14 DEF Steady
<1>19. Follows(w, u)
  BY <1>1, <1>3, <1>14, <1>18 DEF Follows, Asked
<1> QED BY <1>1, <1>14, <1>16, <1>17, <1>19 DEF Seen

------------------------------------------------------------------------------
(* Redraw: both windows and the bar are painted on a blank screen.          *)

LEMMA ClrScrIs ==
  ASSUME NEW r, NEW t \in TermOf(r), NEW u, u = ClrScr(t)
  PROVE  /\ u \in TermOf(r) /\ u.keys = t.keys /\ u.charset = t.charset
         /\ \A i \in 1 .. r : u.cell[i][Cols] = {}
<1>1. PICK cell : cell = Blank(r)
  OBVIOUS
<1>2. cell \in Screen(r)
  BY <1>1 DEF Blank, BlankRow, Screen, Cells
<1>3. u = [t EXCEPT !.cell = cell]
  BY <1>1, TermFact DEF ClrScr
<1>4. u \in TermOf(r) /\ u.cell = cell /\ u.keys = t.keys /\ u.charset = t.charset
  BY <1>2, <1>3 DEF TermOf
<1>5. Cols \in 1 .. Cols
  BY ColsAssumption
<1>6. \A i \in 1 .. r : cell[i][Cols] = {}
  BY <1>1, <1>5 DEF Blank, BlankRow
<1> QED BY <1>4, <1>6

LEMMA RedrawIs ==
  ASSUME NEW a, NEW r, NEW ws, Scene(a, r, ws), PlainScreen(ws), NEW t \in TermOf(r), NEW last \in Windows,
         t.keys = ws[last].keys, t.charset = ws[last].charset, NEW u, u = Redraw(ws, t, last)
  PROVE  u \in TermOf(r) /\ Follows(ws[last], u) /\ Seen(ws, u)
<1>1. PICK b, w, o : b = BarLine(ws) /\ w = ws[last] /\ o = ws[Other(last)]
  OBVIOUS
<1>2. r \in Nat /\ a \in Attributes /\ b \in 1 .. r /\ b = ws["upper"].rows + 1
  BY <1>1, SceneFact
<1>3. Other(last) \in Windows /\ Other(Other(last)) = last
  BY DEF Other, Windows
<1>4. /\ Sound(w) /\ Tame(a, w) /\ w.off + w.rows <= r
      /\ Sound(o) /\ Tame(a, o) /\ o.off + o.rows <= r
  BY <1>1, <1>3, PaneFact
<1>5. PICK e, f, g, k : e = ClrScr(t) /\ f = PaintVideo(e, o) /\ g = Goto(f, b, 0) /\ k = Bar(g)
  OBVIOUS
<1>6. u = PaintVideo(k, w)
  <2>1. (IF last = "upper" THEN "upper" ELSE "lower") = last
    BY DEF Windows
  <2> QED BY <1>1, <1>2, <1>5, <2>1 DEF Redraw
<1>7. /\ e \in TermOf(r) /\ e.keys = t.keys /\ e.charset = t.charset
      /\ \A i \in 1 .. r : e.cell[i][Cols] = {}
  BY <1>5, ClrScrIs
<1>8. f \in TermOf(r) /\ f.keys = e.keys /\ f.charset = e.charset /\ Shows(o, f) /\ Beside(o, e, f)
  BY <1>2, <1>4, <1>5, <1>7, PaintVideoIs
<1>9. f.cell[b] = e.cell[b]
  BY <1>1, <1>3, <1>7, <1>8, OthersStay
<1>10. g \in TermOf(r) /\ g.x = Between(1, b, r) /\ g.cell = f.cell /\ Steady(f, g)
  BY <1>2, <1>5, <1>8, GotoIs
<1>11. g.x = b
  BY <1>2, <1>10 DEF Between
<1>12. g.cell[g.x][Cols] = {}
  BY <1>2, <1>7, <1>9, <1>10, <1>11
<1>13. /\ k \in TermOf(r) /\ Steady(g, k)
       /\ \A i \in 1 .. r : i # b => k.cell[i] = g.cell[i]
       /\ k.cell[b] = BarRow
  BY <1>2, <1>5, <1>10, <1>11, <1>12, BarIs
<1>14. Shows(o, k)
  <2>1. ASSUME NEW i \in 1 .. o.rows PROVE o.off + i \in 1 .. r /\ o.off + i # b
    <3>1. o.off \in Nat /\ o.rows \in Nat /\ b \notin (o.off + 1) .. (o.off + o.rows)
      BY <1>1, <1>3, PaneFact
    <3> QED BY <1>2, <1>4, <3>1
  <2> QED BY <1>8, <1>10, <1>13, <2>1 DEF Shows
<1>15. /\ u \in TermOf(r) /\ u.x = w.x + w.off /\ u.y = Column(w.y) /\ u.top = w.up + w.off /\ u.bottom = w.low + w.off
       /\ u.attr = w.mem[w.rows][Cols] \ {"char"} /\ u.keys = k.keys /\ u.charset = k.charset
       /\ Shows(w, u) /\ Beside(w, k, u)
  BY <1>2, <1>4, <1>6, <1>13, PaintVideoIs
<1>16. Shows(o, u) /\ u.cell[b] = BarRow
  BY <1>1, <1>13, <1>14, <1>15, OthersStay
<1>17. w.attr = {} /\ w.mem[w.rows][Cols] \subseteq {"char"}
  BY <1>1 DEF PlainScreen
<1>18. u.attr = w.attr /\ u.keys = w.keys /\ u.charset = w.charset
  BY <1>1, <1>7, <1>8, <1>10, <1>13, <1>15, <1>17 DEF Steady
<1>19. Panes(ws, u)
  <2>1. \A v \in Windows : v = last \/ v = Other(last)
    BY DEF Other, Windows
  <2> QED BY <1>1, <1>15, <1>16, <2>1 DEF Panes
<1> QED BY <1>1, <1>15, <1>16, <1>18, <1>19 DEF Follows, Seen

(* The user changes the terminal's height.                                 *)
LEMMA ResizeIs ==
  ASSUME NEW r \in Nat, NEW t \in TermOf(r), NEW rows \in Nat, rows >= 7, NEW u, u = Resize(t, rows)
  PROVE  u \in TermOf(rows) /\ u.keys = t.keys /\ u.charset = t.charset
<1>1. PICK x, sx, cell : /\ x = Between(1, t.x, rows) /\ sx = Between(1, t.saved.x, rows)
                         /\ cell = [i \in 1 .. rows |-> IF i <= t.rows THEN t.cell[i] ELSE BlankRow]
  OBVIOUS
<1>2. x \in 1 .. rows /\ sx \in 1 .. rows /\ 1 \in 1 .. rows /\ rows \in 1 .. rows
  BY <1>1, TermFact DEF Between
<1>3. cell \in Screen(rows)
  <2>1. BlankRow \in [1 .. Cols -> Cells]
    BY DEF BlankRow, Cells
  <2>2. t.rows = r /\ t.cell \in Screen(r)
    BY TermFact
  <2>3. \A i \in 1 .. rows : i <= r => i \in 1 .. r
    OBVIOUS
  <2> QED BY <1>1, <2>1, <2>2, <2>3 DEF Screen
<1>4. u = [t EXCEPT !.rows = rows, !.x = x, !.top = 1, !.bottom = rows, !.cell = cell, !.saved.x = sx]
  BY <1>1 DEF Resize
<1>5. PICK saved : saved = [t.saved EXCEPT !.x = sx]
  OBVIOUS
<1>6. saved \in [x : 1 .. rows, y : 1 .. Cols, attr : SUBSET Attributes]
  <2>1. t.saved \in [x : 1 .. r, y : 1 .. Cols, attr : SUBSET Attributes]
    BY DEF TermOf
  <2> QED BY <1>2, <1>5, <2>1
<1>7. u = [t EXCEPT !.rows = rows, !.x = x, !.top = 1, !.bottom = rows, !.cell = cell, !.saved = saved]
  BY <1>4, <1>5 DEF TermOf
<1>8. u.keys = t.keys /\ u.charset = t.charset
  BY <1>7 DEF TermOf
<1>9. u = [rows |-> rows, x |-> x, y |-> t.y, top |-> 1, bottom |-> rows, cell |-> cell, attr |-> t.attr,
           keys |-> t.keys, charset |-> t.charset, colour |-> t.colour, saved |-> saved]
  BY <1>7 DEF TermOf
<1>10. /\ t.y \in 1 .. Cols /\ t.attr \in SUBSET Attributes /\ t.keys \in {"normal", "application"}
       /\ t.charset \in {"US", "graphics"} /\ t.colour \in Colours
  BY DEF TermOf
<1>11. u \in TermOf(rows)
  BY ONLY <1>2, <1>3, <1>6, <1>9, <1>10 DEF TermOf
<1> QED BY <1>8, <1>11

(* What a window keeps at another height.                                  *)
LEMMA ResizedIs ==
  ASSUME NEW w, Sound(w), NEW rows, NEW off, NEW v, v = Resized(w, rows, off)
  PROVE  /\ v.off = off /\ v.attr = w.attr /\ v.sattr = w.sattr /\ v.keys = w.keys /\ v.charset = w.charset
         /\ v.mem = [i \in 1 .. rows |->
                        IF i - (rows - w.rows) >= 1 THEN w.mem[i - (rows - w.rows)] ELSE BlankRow]
<1>1. PICK c : c = CopiedVideo(w, rows)
  OBVIOUS
<1>2. PICK mem, x, y :
        /\ mem = [i \in 1 .. rows |-> IF i - (rows - w.rows) >= 1 THEN w.mem[i - (rows - w.rows)] ELSE BlankRow]
        /\ x = (IF w.x >= 1 /\ w.x + (rows - w.rows) >= 1 THEN w.x + (rows - w.rows) ELSE 1)
        /\ y = (IF w.y > Cols THEN Cols ELSE w.y)
  OBVIOUS
<1>3. c = [w EXCEPT !.rows = rows, !.mem = mem, !.x = x, !.y = y]
  BY <1>1, <1>2 DEF CopiedVideo
<1>4. PICK low : low = (IF c.low = w.rows THEN rows ELSE c.low)
  OBVIOUS
<1>5. PICK p : p = [c EXCEPT !.off = off, !.tabs = DefaultTabs, !.low = low]
  OBVIOUS
<1>6. p = [w EXCEPT !.rows = rows, !.mem = mem, !.x = x, !.y = y, !.off = off, !.tabs = DefaultTabs, !.low = low]
  BY <1>3, <1>5 DEF Sound, WindowOf
<1>7. v = CheckWin(p)
  BY <1>1, <1>4, <1>5 DEF Resized
<1>8. PICK i, j, k : v = [p EXCEPT !.x = i, !.y = j, !.low = k]
  BY <1>7 DEF CheckWin
<1>9. /\ p.off = off /\ p.attr = w.attr /\ p.sattr = w.sattr /\ p.keys = w.keys /\ p.charset = w.charset
      /\ p.mem = mem
  BY <1>6 DEF Sound, WindowOf
<1>10. /\ v.off = p.off /\ v.attr = p.attr /\ v.sattr = p.sattr /\ v.keys = p.keys /\ v.charset = p.charset
       /\ v.mem = p.mem
  BY <1>6, <1>8 DEF Sound, WindowOf
<1> QED BY <1>2, <1>9, <1>10

LEMMA ResizedTame ==
  ASSUME NEW a, NEW w, Sound(w), Tame(a, w), NEW rows \in Nat, rows >= 3, NEW off, NEW v, v = Resized(w, rows, off),
         v.rows = rows
  PROVE  Tame(a, v) /\ v.mem[rows][Cols] = w.mem[w.rows][Cols]
<1>1. PICK n, mem : n = w.rows /\ mem = w.mem
  OBVIOUS
<1>2. /\ v.attr = w.attr /\ v.sattr = w.sattr
      /\ v.mem = [i \in 1 .. rows |-> IF i - (rows - n) >= 1 THEN mem[i - (rows - n)] ELSE BlankRow]
  BY <1>1, ResizedIs
<1>3. n \in Nat /\ n >= 3
  BY <1>1, RowsFact
<1>4. w.attr \in Lit(a) /\ w.sattr \in Lit(a) /\ \A i \in 1 .. n : \A j \in 1 .. Cols : mem[i][j] \in Shades(a)
  BY <1>1 DEF Tame
<1>5. ASSUME NEW i \in 1 .. rows, NEW j \in 1 .. Cols PROVE v.mem[i][j] \in Shades(a)
  <2>1. CASE i - (rows - n) >= 1
    <3>1. i - (rows - n) \in 1 .. n
      BY <1>3, <2>1
    <3> QED BY <1>2, <1>4, <2>1, <3>1
  <2>2. CASE ~(i - (rows - n) >= 1)
    <3>1. v.mem[i] = BlankRow
      BY <1>2, <2>2
    <3> QED BY <3>1 DEF BlankRow, Shades
  <2> QED BY <2>1, <2>2
<1>6. v.mem[rows] = mem[n]
  <2>1. rows \in 1 .. rows /\ rows - (rows - n) = n /\ n >= 1
    BY <1>3
  <2> QED BY <1>2, <2>1
<1> QED BY <1>1, <1>2, <1>4, <1>5, <1>6 DEF Tame

(* The two windows fill a terminal that has seven lines.                   *)
LEMMA HeightsFill ==
  ASSUME NEW rows \in Nat, TallEnough(rows), NEW lines \in Int
  PROVE  UpperRows(rows, lines) + 1 + LowerRows(rows, lines) \in {rows - 1, rows}
<1>1. CASE lines = 0
  <2>1. PICK h : h = (rows - 1) \div 2
    OBVIOUS
  <2>2. h \in Nat /\ h + 1 + h \in {rows - 1, rows}
    <3>1. h \in Nat /\ 2 * h <= rows - 1 /\ rows - 1 <= 2 * h + 1
      BY <2>1 DEF TallEnough
    <3> QED BY <3>1
  <2> QED BY <1>1, <2>1, <2>2 DEF UpperRows, LowerRows
<1>2. CASE lines # 0
  <2>1. UpperRows(rows, lines) \in Nat
    BY HeightsSplit
  <2>2. LowerRows(rows, lines) = rows - 1 - UpperRows(rows, lines)
    BY <1>2 DEF LowerRows
  <2> QED BY <2>1, <2>2
<1> QED BY <1>1, <1>2

(* Windows that were made anew fill the terminal as the old ones did, and   *)
(* keep their modes and the last cell that was written.                    *)
LEMMA ResizedScene ==
  ASSUME NEW a, NEW r, NEW ws, Scene(a, r, ws), NEW rows \in Nat, TallEnough(rows), NEW lines \in Int,
         "shrink" \in Assumed, NEW new, new = ResizedBoth(ws, rows, lines), RegionFits(new)
  PROVE  /\ Scene(a, rows, new) /\ (PlainScreen(ws) => PlainScreen(new))
         /\ \A v \in Windows : new[v].keys = ws[v].keys /\ new[v].charset = ws[v].charset
<1>1. PICK up, low, off : up = UpperRows(rows, lines) /\ low = LowerRows(rows, lines) /\ off = up + 1
  OBVIOUS
<1>2. up \in Nat /\ up >= 3 /\ low \in Nat /\ low >= 3 /\ off \in Nat /\ off + low \in {rows - 1, rows}
  BY <1>1, HeightsSplit, HeightsFill
<1>3. PICK u, l : u = Resized(ws["upper"], up, 0) /\ l = Resized(ws["lower"], low, off)
  OBVIOUS
<1>4. new = [upper |-> u, lower |-> l] /\ new["upper"] = u /\ new["lower"] = l
  BY <1>1, <1>3 DEF ResizedBoth
<1>5. u.up < u.low /\ l.up < l.low
  BY <1>4 DEF RegionFits, Windows
<1>6. Sound(ws["upper"]) /\ Sound(ws["lower"]) /\ Tame(a, ws["upper"]) /\ Tame(a, ws["lower"])
  BY DEF Scene, Kept, Windows
<1>7. Sound(u) /\ u.rows = up /\ Sound(l) /\ l.rows = low
  BY <1>2, <1>3, <1>5, <1>6, ResizedSound
<1>8. /\ u.off = 0 /\ u.attr = ws["upper"].attr /\ u.keys = ws["upper"].keys /\ u.charset = ws["upper"].charset
      /\ l.off = off /\ l.attr = ws["lower"].attr /\ l.keys = ws["lower"].keys /\ l.charset = ws["lower"].charset
  <2>1. PICK wu, wl : wu = ws["upper"] /\ wl = ws["lower"]
    OBVIOUS
  <2>2. u = Resized(wu, up, 0) /\ l = Resized(wl, low, off) /\ Sound(wu) /\ Sound(wl)
    BY <1>3, <1>6, <2>1
  <2>3. /\ u.off = 0 /\ u.attr = wu.attr /\ u.sattr = wu.sattr /\ u.keys = wu.keys /\ u.charset = wu.charset
        /\ u.mem = [i \in 1 .. up |-> IF i - (up - wu.rows) >= 1 THEN wu.mem[i - (up - wu.rows)] ELSE BlankRow]
    BY ONLY <2>2, ResizedIs
  <2>4. /\ l.off = off /\ l.attr = wl.attr /\ l.sattr = wl.sattr /\ l.keys = wl.keys /\ l.charset = wl.charset
        /\ l.mem = [i \in 1 .. low |-> IF i - (low - wl.rows) >= 1 THEN wl.mem[i - (low - wl.rows)] ELSE BlankRow]
    BY ONLY <2>2, ResizedIs
  <2> QED BY <2>1, <2>3, <2>4
<1>9. /\ Tame(a, u) /\ u.mem[up][Cols] = ws["upper"].mem[ws["upper"].rows][Cols]
      /\ Tame(a, l) /\ l.mem[low][Cols] = ws["lower"].mem[ws["lower"].rows][Cols]
  BY <1>2, <1>3, <1>6, <1>7, ResizedTame
<1>10. a \in Attributes
  BY DEF Scene
<1>11. Kept(new) /\ \A v \in Windows : Tame(a, new[v])
  BY <1>4, <1>7, <1>9 DEF Kept, Windows
<1>12. new = [v \in Windows |-> new[v]]
  BY <1>4 DEF Windows
<1>13. Placement(new) /\ new["lower"].off + new["lower"].rows \in {rows - 1, rows}
  BY <1>1, <1>2, <1>4, <1>7, <1>8 DEF Placement, BarLine
<1>14. Scene(a, rows, new)
  BY <1>10, <1>11, <1>12, <1>13 DEF Scene
<1>15. PlainScreen(ws) => PlainScreen(new)
  BY <1>4, <1>7, <1>8, <1>9 DEF PlainScreen, Windows
<1>16. \A v \in Windows : new[v].keys = ws[v].keys /\ new[v].charset = ws[v].charset
  BY <1>4, <1>8 DEF Windows
<1> QED BY <1>14, <1>15, <1>16

------------------------------------------------------------------------------
(* The inductive invariant: until the end the terminal shows what both      *)
(* windows hold; in the main loop it also shows the bar and is set up for   *)
(* the current window, and at the prompt it is to be again.                 *)
Drawing(a) ==
    /\ misrouted \in BOOLEAN /\ term.rows = winsize /\ Placement(wins)
    /\ mode # "done" => Scene(a, winsize, wins) /\ term \in TermOf(winsize) /\ Panes(wins, term)
    /\ mode = "run" => term.cell[BarLine(wins)] = BarRow /\ Follows(wins[lastwin], term)
    /\ mode = "prompt" => Asked(wins, wins[lastwin], term)

(* The programs and the user keep clear of all that Careful and the other   *)
(* conditions name but "winch", no more than one of bold and reverse is in  *)
(* use, and the prompt is shorter than the line.                            *)
Orderly(a) ==
    /\ a \in Attributes /\ Assumptions \ {"winch"} \subseteq Assumed
    /\ \A c \in Inputs : Only(a, c)
    /\ PromptLength < Cols

LEMMA OrderlyIsWatched == ASSUME NEW a, Orderly(a) PROVE Watched
<1>1. {"margin", "one line", "saved", "shrink"} \subseteq Assumptions \ {"winch"}
  BY DEF Assumptions
<1>2. {"margin", "one line", "saved", "shrink"} \subseteq Assumed
  BY <1>1 DEF Orderly
<1> QED BY <1>2, Zenon DEF Watched

LEMMA CarefulIsTidy ==
  ASSUME NEW a, Orderly(a), NEW w, Sound(w), NEW c, Careful(w, c)
  PROVE  Tidy(w, c)
<1>1. Assumptions \ {"winch"} \subseteq Assumed
  BY DEF Orderly
<1>2. /\ "margin" \in Assumed /\ "region" \in Assumed /\ "reverse margin" \in Assumed /\ "one line" \in Assumed
      /\ "erase" \in Assumed /\ "saved" \in Assumed /\ "insert" \in Assumed /\ "delete" \in Assumed
      /\ "lines" \in Assumed /\ "reset" \in Assumed /\ "attributes" \in Assumed /\ "8-bit" \in Assumed
  BY <1>1 DEF Assumptions
<1>3. Line(w) = w.mem[w.x]
  BY LineFact DEF Line
<1>4. /\ c.op \in {"bs", "D", "K", "P", "@", "ESC H", "g"} => w.y <= Cols
      /\ c.op \in {"nl", "ESC D", "ESC E"} \/ (c.op = "char" /\ w.y > Cols) => w.x <= w.low
      /\ c.op = "ESC M" => w.x >= w.up
      /\ c.op = "r" => Between(1, c.n, w.rows + 1) # Between(0, c.m, w.rows)
  BY <1>2 DEF Careful, Is
<1>5. /\ c.op = "J" => w.up = 1 /\ w.low = w.rows
      /\ c.op = "ESC 8" => w.sx > 0 /\ w.sattr = {}
      /\ c.op = "char" => c.n < EightBit
      /\ c.op = "ESC c" => w = [ResetWin(w) EXCEPT !.sx = w.sx, !.sy = w.sy]
  BY <1>2 DEF Careful, Is
<1>6. c.op = "@" => Count(c.n) = 1 /\ \A j \in w.y .. Cols : w.mem[w.x][j] = {}
  BY <1>2, <1>3 DEF Careful, Is, BlankFrom
<1>7. c.op = "P" => \A j \in (w.y + 1) .. Cols : w.mem[w.x][j] = {}
  BY <1>2, <1>3 DEF Careful, Is, BlankFrom
<1>8. c.op \in {"L", "M"} => \A i \in w.up .. w.low : \A j \in 1 .. Cols : w.mem[i][j] = {}
  BY <1>2 DEF Careful, Is, BlankFrom
<1> QED BY <1>4, <1>5, <1>6, <1>7, <1>8 DEF Tidy

------------------------------------------------------------------------------
(* The start.                                                              *)

LEMMA NewWindowIs ==
  ASSUME NEW rows, NEW off, NEW w, w = NewWindow(rows, off)
  PROVE  /\ w.rows = rows /\ w.off = off /\ w.mem = Blank(rows) /\ w.attr = {} /\ w.sattr = {}
         /\ w.keys = "normal" /\ w.charset = "US"
BY DEF NewWindow, ResetWin

LEMMA BlankTame ==
  ASSUME NEW a, NEW w, w.mem = Blank(w.rows), w.attr = {}, w.sattr = {}
  PROVE  Tame(a, w)
<1>1. \A i \in 1 .. w.rows : \A j \in 1 .. Cols : w.mem[i][j] = {}
  BY DEF Blank, BlankRow
<1> QED BY <1>1 DEF Tame, Lit, Shades

LEMMA TerminalIs ==
  ASSUME NEW r \in Nat, r >= 7, NEW t, t = Terminal(r)
  PROVE  /\ t \in TermOf(r) /\ t.attr = {} /\ t.keys = "normal" /\ t.charset = "US" /\ t.cell = Blank(r)
<1>1. Blank(r) \in Screen(r)
  BY DEF Blank, BlankRow, Screen, Cells
<1>2. 1 \in 1 .. r /\ r \in 1 .. r /\ 1 \in 1 .. Cols /\ "none" \in Colours /\ {} \in SUBSET Attributes
  BY ColsAssumption DEF Colours
<1>3. t = [rows |-> r, x |-> 1, y |-> 1, top |-> 1, bottom |-> r, cell |-> Blank(r),
           attr |-> {}, keys |-> "normal", charset |-> "US", colour |-> "none",
           saved |-> [x |-> 1, y |-> 1, attr |-> {}]]
  BY DEF Terminal
<1>4. [x |-> 1, y |-> 1, attr |-> {}] \in [x : 1 .. r, y : 1 .. Cols, attr : SUBSET Attributes]
  BY <1>2
<1> QED BY <1>1, <1>2, <1>3, <1>4 DEF TermOf

(* The main loop goes on with a terminal that shows both windows.          *)
LEMMA LoopGoesOn ==
  ASSUME NEW a, mode' = "run", misrouted' \in BOOLEAN, Scene(a, winsize', wins'), term' \in TermOf(winsize'),
         Follows(wins'[lastwin'], term'), Seen(wins', term')
  PROVE  Drawing(a)'
<1>1. term'.rows = winsize'
  BY TermFact
<1>2. Placement(wins')
  BY DEF Scene
<1> QED BY <1>1, <1>2 DEF Drawing, Seen

LEMMA InitDrawing == ASSUME NEW a, Orderly(a), Init PROVE Drawing(a)
<1>1. PICK first \in Windows :
        /\ TallEnough(StartRows) /\ winsize = StartRows /\ lastwin = first /\ mode = "run" /\ misrouted = FALSE
        /\ LET upper == NewWindow(UpperRows(StartRows, UserLines), 0)
               lower == NewWindow(LowerRows(StartRows, UserLines), upper.rows + 1)
           IN /\ wins = [upper |-> upper, lower |-> lower]
              /\ term = SetWin(wins, ResetAttr(Bar(Goto(Terminal(StartRows), upper.rows + 1, 1))), "none", first)
  BY DEF Init
<1>2. PICK r, p, q, off : /\ r = StartRows /\ p = UpperRows(StartRows, UserLines)
                          /\ q = LowerRows(StartRows, UserLines) /\ off = p + 1
  OBVIOUS
<1>3. /\ r \in Nat /\ r >= 7 /\ p \in Nat /\ p >= 3 /\ q \in Nat /\ q >= 3 /\ off \in Nat
      /\ off + q \in {r - 1, r}
  BY <1>1, <1>2, SplitVtAssumption, HeightsSplit, HeightsFill DEF TallEnough
<1>4. PICK upper, lower : upper = NewWindow(p, 0) /\ lower = NewWindow(q, off)
  OBVIOUS
<1>5. /\ Tame(a, upper) /\ upper.rows = p /\ upper.off = 0 /\ upper.mem = Blank(p)
      /\ upper.attr = {} /\ upper.keys = "normal" /\ upper.charset = "US" /\ Sound(upper)
  <2>1. /\ upper.rows = p /\ upper.off = 0 /\ upper.mem = Blank(p) /\ upper.attr = {} /\ upper.sattr = {}
        /\ upper.keys = "normal" /\ upper.charset = "US"
    BY ONLY <1>4, NewWindowIs
  <2>2. Tame(a, upper)
    BY <2>1, BlankTame
  <2>3. PICK zero : zero = 0
    OBVIOUS
  <2>4. zero \in Nat
    BY <2>3
  <2>5. Sound(NewWindow(p, zero)) /\ NewWindow(p, zero).rows = p
    BY ONLY <1>3, <2>4, NewWindowSound
  <2> QED BY <1>4, <2>1, <2>2, <2>3, <2>5
<1>6. /\ Tame(a, lower) /\ lower.rows = q /\ lower.off = off /\ lower.mem = Blank(q)
      /\ lower.attr = {} /\ lower.keys = "normal" /\ lower.charset = "US" /\ Sound(lower)
  <2>1. /\ lower.rows = q /\ lower.off = off /\ lower.mem = Blank(q) /\ lower.attr = {} /\ lower.sattr = {}
        /\ lower.keys = "normal" /\ lower.charset = "US"
    BY ONLY <1>4, NewWindowIs
  <2>2. Tame(a, lower)
    BY <2>1, BlankTame
  <2>3. Sound(NewWindow(q, off)) /\ NewWindow(q, off).rows = q
    BY ONLY <1>3, NewWindowSound
  <2> QED BY <1>4, <2>1, <2>2, <2>3
<1>7. wins = [upper |-> upper, lower |-> lower] /\ wins["upper"] = upper /\ wins["lower"] = lower
  BY <1>1, <1>2, <1>4, <1>5
<1>8. Scene(a, r, wins)
  <2>1. Kept(wins) /\ \A v \in Windows : Tame(a, wins[v])
    BY <1>5, <1>6, <1>7 DEF Kept, Windows
  <2>2. wins = [v \in Windows |-> wins[v]]
    BY <1>7 DEF Windows
  <2>3. Placement(wins) /\ wins["lower"].off + wins["lower"].rows \in {r - 1, r}
    BY <1>2, <1>3, <1>5, <1>6, <1>7 DEF Placement, BarLine
  <2>4. a \in Attributes
    BY DEF Orderly
  <2> QED BY <1>3, <2>1, <2>2, <2>3, <2>4 DEF Scene
<1>9. PICK t, g, k, e : t = Terminal(r) /\ g = Goto(t, off, 1) /\ k = Bar(g) /\ e = ResetAttr(k)
  OBVIOUS
<1>10. term = SetWin(wins, e, "none", first)
  BY <1>1, <1>2, <1>4, <1>5, <1>9
<1>11. t \in TermOf(r) /\ t.attr = {} /\ t.keys = "normal" /\ t.charset = "US" /\ t.cell = Blank(r)
  BY <1>3, <1>9, TerminalIs
<1>12. off \in Int /\ off \in 1 .. r /\ Cols \in 1 .. Cols
  BY <1>2, <1>3, ColsAssumption
<1>13. g \in TermOf(r) /\ g.x = Between(1, off, r) /\ g.cell = t.cell /\ Steady(t, g)
  <2>1. PICK one : one = 1
    OBVIOUS
  <2>2. one \in Int /\ g = Goto(t, off, one)
    BY <1>9, <2>1
  <2>3. g \in TermOf(r) /\ g.x = Between(1, off, r) /\ g.y = Between(1, one, Cols) /\ g.cell = t.cell /\ Steady(t, g)
    BY ONLY <1>3, <1>11, <1>12, <2>2, GotoIs
  <2> QED BY <2>3
<1>14. g.x = off
  BY <1>3, <1>12, <1>13 DEF Between
<1>15. g.cell[g.x][Cols] = {}
  BY <1>11, <1>12, <1>13, <1>14 DEF Blank, BlankRow
<1>16. /\ k \in TermOf(r) /\ Steady(g, k)
       /\ \A i \in 1 .. r : i # off => k.cell[i] = g.cell[i]
       /\ k.cell[off] = BarRow
  BY <1>3, <1>9, <1>13, <1>14, <1>15, BarIs
<1>17. e \in TermOf(r) /\ e.attr = {} /\ e.cell = k.cell /\ e.keys = k.keys /\ e.charset = k.charset
  BY <1>9, <1>16, ResetAttrIs
<1>18. e.keys = "normal" /\ e.charset = "US"
  BY <1>11, <1>13, <1>16, <1>17 DEF Steady
<1>19. Other(first) \in Windows
  BY DEF Other, Windows
<1>20. /\ e.attr = wins[Other(first)].attr /\ e.keys = wins[Other(first)].keys
       /\ e.charset = wins[Other(first)].charset
  BY <1>5, <1>6, <1>7, <1>17, <1>18, <1>19 DEF Windows
<1>21. first # "none"
  BY DEF Windows
<1>22. term \in TermOf(r) /\ Follows(wins[first], term) /\ term.cell = e.cell
  BY <1>8, <1>10, <1>17, <1>20, <1>21, SetWinIs
<1>23. \A i \in 1 .. r : i # off => term.cell[i] = BlankRow
  BY <1>11, <1>13, <1>16, <1>17, <1>22 DEF Blank
<1>24. Panes(wins, term)
  <2>1. \A i \in 1 .. p : i \in 1 .. r /\ i # off /\ 0 + i = i
    BY <1>2, <1>3
  <2>2. Shows(upper, term)
    BY <1>5, <1>23, <2>1 DEF Shows, Blank
  <2>3. \A i \in 1 .. q : off + i \in 1 .. r /\ off + i # off
    BY <1>3
  <2>4. Shows(lower, term)
    BY <1>6, <1>23, <2>3 DEF Shows, Blank
  <2> QED BY <1>7, <2>2, <2>4 DEF Panes, Windows
<1>25. term.cell[BarLine(wins)] = BarRow
  BY <1>2, <1>5, <1>7, <1>16, <1>17, <1>22 DEF BarLine
<1>26. term.rows = r
  BY <1>22, TermFact
<1>27. Placement(wins)
  BY <1>8 DEF Scene
<1> QED BY <1>1, <1>2, <1>8, <1>22, <1>24, <1>25, <1>26, <1>27 DEF Drawing

------------------------------------------------------------------------------
(* One lemma for each step.                                                *)

LEMMA LoopFact ==
  ASSUME NEW a, Layout, Drawing(a), mode = "run"
  PROVE  /\ misrouted \in BOOLEAN /\ lastwin \in Windows /\ Scene(a, winsize, wins)
         /\ term \in TermOf(winsize) /\ Seen(wins, term) /\ Follows(wins[lastwin], term)
BY DEF Layout, Drawing, Seen

LEMMA PromptFact ==
  ASSUME NEW a, Layout, Drawing(a), mode = "prompt"
  PROVE  /\ misrouted \in BOOLEAN /\ lastwin \in Windows /\ Scene(a, winsize, wins)
         /\ term \in TermOf(winsize) /\ Panes(wins, term) /\ Asked(wins, wins[lastwin], term)
BY DEF Layout, Drawing

(* Read, EndOfRead, Dies and Switch set the terminal up for a window.      *)
LEMMA FocusDrawing ==
  ASSUME NEW a, Layout, Drawing(a), mode = "run", NEW which \in Windows,
         term' = SetWin(wins, term, lastwin, which), lastwin' = which,
         UNCHANGED <<winsize, wins, mode, misrouted>>
  PROVE  Drawing(a)'
<1>1. /\ misrouted \in BOOLEAN /\ lastwin \in Windows /\ Scene(a, winsize, wins)
      /\ term \in TermOf(winsize) /\ Seen(wins, term) /\ Follows(wins[lastwin], term)
  BY LoopFact
<1>2. PICK r, ws, t, u, last : r = winsize /\ ws = wins /\ t = term /\ u = term' /\ last = lastwin
  OBVIOUS
<1>3. u \in TermOf(r) /\ Follows(ws[which], u) /\ Seen(ws, u)
  BY <1>1, <1>2, SetWinSeen
<1>4. mode' = "run" /\ misrouted' \in BOOLEAN /\ Scene(a, winsize', wins')
  BY <1>1
<1>5. term' \in TermOf(winsize') /\ Follows(wins'[lastwin'], term') /\ Seen(wins', term')
  BY <1>2, <1>3
<1> QED BY <1>4, <1>5, LoopGoesOn

(* What a handler leaves behind, seen from both windows.                   *)
LEMMA HandledScene ==
  ASSUME NEW a, NEW r, NEW ws, Scene(a, r, ws), NEW t \in TermOf(r), Seen(ws, t), NEW v \in Windows,
         Follows(ws[v], t), NEW c \in [op : Ops, n : Nat, m : Nat], Tidy(ws[v], c), Only(a, c),
         NEW z, z = Handled([w |-> ws[v], t |-> t], c), NEW new, new = [ws EXCEPT ![v] = z.w]
  PROVE  Scene(a, r, new) /\ z.t \in TermOf(r) /\ Follows(new[v], z.t) /\ Seen(new, z.t)
<1>1. PICK w, s : w = ws[v] /\ s = [w |-> w, t |-> t]
  OBVIOUS
<1>2. s.w = w /\ s.t = t /\ s = [w |-> s.w, t |-> s.t]
  BY <1>1
<1>3. /\ r \in Nat /\ a \in Attributes /\ Sound(w) /\ Tame(a, w) /\ w.off + w.rows <= r
  BY <1>1, SceneFact, PaneFact
<1>4. Mirrored(a, r, s)
  BY <1>1, <1>2, <1>3 DEF Mirrored, Seen, Panes
<1>5. Tidy(s.w, c) /\ z = Handled(s, c)
  BY <1>1, <1>2
<1>6. After(a, r, s, z) /\ Sound(z.w)
  BY <1>4, <1>5, HandledAfter
<1>7. /\ Tame(a, z.w) /\ z.t \in TermOf(r) /\ z.w.off = w.off /\ z.w.rows = w.rows
      /\ Follows(z.w, z.t) /\ Shows(z.w, z.t) /\ Beside(w, t, z.t)
  BY <1>2, <1>6 DEF After
<1>8. ws = [u \in Windows |-> ws[u]]
  BY DEF Scene
<1>9. /\ new = [u \in Windows |-> new[u]] /\ new[v] = z.w
      /\ \A u \in Windows : u # v => new[u] = ws[u]
  BY <1>8
<1>10. \A u \in Windows : new[u].off = ws[u].off /\ new[u].rows = ws[u].rows
  BY <1>1, <1>7, <1>9
<1>11. BarLine(new) = BarLine(ws)
  BY <1>10 DEF BarLine, Windows
<1>12. Scene(a, r, new)
  <2>1. Kept(new) /\ \A u \in Windows : Tame(a, new[u])
    BY <1>6, <1>7, <1>9 DEF Scene, Kept
  <2>2. Placement(new) /\ new["lower"].off + new["lower"].rows \in {r - 1, r}
    BY <1>10, <1>11 DEF Scene, Placement, Windows
  <2> QED BY <1>3, <1>9, <2>1, <2>2 DEF Scene
<1>13. Beside(ws[v], t, z.t)
  BY <1>1, <1>7
<1>14. PICK u : u = z.t
  OBVIOUS
<1>15. /\ Shows(ws[Other(v)], t) => Shows(ws[Other(v)], u)
       /\ u.cell[BarLine(ws)] = t.cell[BarLine(ws)]
  BY <1>13, <1>14, OthersStay
<1>16. Other(v) \in Windows /\ Other(v) # v /\ \A q \in Windows : q = v \/ q = Other(v)
  BY DEF Other, Windows
<1>17. Shows(new[Other(v)], u) /\ u.cell[BarLine(new)] = BarRow
  BY <1>9, <1>11, <1>15, <1>16 DEF Seen, Panes
<1>18. Panes(new, u)
  BY <1>7, <1>9, <1>14, <1>16, <1>17 DEF Panes
<1> QED BY <1>7, <1>9, <1>12, <1>14, <1>17, <1>18 DEF Seen

LEMMA ItemDrawing ==
  ASSUME NEW a, Orderly(a), Layout, Drawing(a), NEW c \in Inputs, Item(c)
  PROVE  Drawing(a)'
<1>1. mode = "run"
  BY DEF Item
<1>2. /\ misrouted \in BOOLEAN /\ lastwin \in Windows /\ Scene(a, winsize, wins)
      /\ term \in TermOf(winsize) /\ Seen(wins, term) /\ Follows(wins[lastwin], term)
  BY <1>1, LoopFact
<1>3. PICK r, ws, t, v : r = winsize /\ ws = wins /\ t = term /\ v = lastwin
  OBVIOUS
<1>4. PICK z, new : z = Handled([w |-> ws[v], t |-> t], c) /\ new = [ws EXCEPT ![v] = z.w]
  OBVIOUS
<1>5. wins' = new /\ term' = z.t
  BY <1>3, <1>4 DEF Item
<1>6. Sound(ws[v]) /\ Careful(ws[v], c)
  BY <1>2, <1>3 DEF Layout, Kept, Item
<1>7. PICK w : w = ws[v]
  OBVIOUS
<1>8. Tidy(w, c)
  BY <1>6, <1>7, CarefulIsTidy
<1>9. Only(a, c) /\ c \in [op : Ops, n : Nat, m : Nat]
  BY SplitVtAssumption DEF Orderly
<1>10. Scene(a, r, new) /\ z.t \in TermOf(r) /\ Follows(new[v], z.t) /\ Seen(new, z.t)
  BY <1>2, <1>3, <1>4, <1>7, <1>8, <1>9, HandledScene
<1>11. mode' = "run" /\ misrouted' \in BOOLEAN /\ winsize' = r /\ lastwin' = v
  BY <1>1, <1>2, <1>3 DEF Item
<1> QED BY <1>5, <1>10, <1>11, LoopGoesOn

(* A prompt is shown, again or for the first time.                         *)
LEMMA PromptShown ==
  ASSUME NEW a, Layout, Scene(a, winsize, wins), misrouted \in BOOLEAN, lastwin \in Windows,
         NEW t \in TermOf(winsize), Panes(wins, t), Follows(wins[lastwin], t),
         wins[lastwin].attr = {}, PromptLength < Cols, term' = Prompted(t), mode' = "prompt", UNCHANGED <<winsize, wins, lastwin, misrouted>>
  PROVE  Drawing(a)'
<1>1. PICK r, v, u : r = winsize /\ v = lastwin /\ u = term'
  OBVIOUS
<1>2. u \in TermOf(r) /\ Panes(wins, u) /\ Asked(wins, wins[v], u)
  <2>1. Scene(a, r, wins) /\ t \in TermOf(r) /\ Follows(wins[v], t) /\ wins[v].attr = {} /\ u = Prompted(t)
    BY <1>1
  <2> QED BY <1>1, <2>1, PromptedIs
<1>3. term'.rows = winsize' /\ Placement(wins')
  BY <1>1, <1>2, TermFact DEF Scene
<1>4. Scene(a, winsize', wins') /\ term' \in TermOf(winsize') /\ Panes(wins', term')
  BY <1>1, <1>2
<1>5. Asked(wins', wins'[lastwin'], term')
  BY <1>1, <1>2
<1> QED BY <1>3, <1>4, <1>5 DEF Drawing

LEMMA AskDrawing == ASSUME NEW a, Orderly(a), Layout, Drawing(a), AskCommand PROVE Drawing(a)'
<1>1. mode = "run"
  BY DEF AskCommand, InLoop
<1>2. /\ misrouted \in BOOLEAN /\ lastwin \in Windows /\ Scene(a, winsize, wins)
      /\ term \in TermOf(winsize) /\ Seen(wins, term) /\ Follows(wins[lastwin], term)
  BY <1>1, LoopFact
<1>3. PICK t : t = term
  OBVIOUS
<1>4. t \in TermOf(winsize) /\ Panes(wins, t) /\ Follows(wins[lastwin], t)
  BY <1>2, <1>3 DEF Seen
<1>5. term' = Prompted(t) /\ mode' = "prompt" /\ UNCHANGED <<winsize, wins, lastwin, misrouted>>
  BY <1>3 DEF AskCommand
<1>6. wins[lastwin].attr = {} /\ PromptLength < Cols
  <2>1. "attributes" \in Assumed
    BY DEF Orderly, Assumptions
  <2> QED BY <2>1 DEF AskCommand, PromptIsPlain, Orderly
<1> QED BY <1>2, <1>4, <1>5, <1>6, PromptShown

(* The prompt has gone when an answer is acted on.                         *)
LEMMA PromptWent ==
  ASSUME NEW a, Layout, Drawing(a), mode = "prompt", NEW t, t = PromptGone(term)
  PROVE  t \in TermOf(winsize) /\ Follows(wins[lastwin], t) /\ Seen(wins, t)
<1>1. /\ lastwin \in Windows /\ Scene(a, winsize, wins)
      /\ term \in TermOf(winsize) /\ Panes(wins, term) /\ Asked(wins, wins[lastwin], term)
  BY PromptFact
<1>2. PICK r, u : r = winsize /\ u = term
  OBVIOUS
<1>3. t \in TermOf(r) /\ Follows(wins[lastwin], t) /\ Seen(wins, t)
  BY <1>1, <1>2, PromptGoneIs
<1> QED BY <1>2, <1>3

LEMMA DigitDrawing ==
  ASSUME NEW a, Orderly(a), Layout, Drawing(a), NEW d \in Digits, AnswerDigit(d)
  PROVE  Drawing(a)'
<1>1. mode = "prompt"
  BY DEF AnswerDigit
<1>2. misrouted \in BOOLEAN /\ lastwin \in Windows /\ Scene(a, winsize, wins) /\ wins[lastwin].attr = {}
  BY <1>1, PromptFact DEF Asked
<1>3. PICK t : t = PromptGone(term)
  OBVIOUS
<1>4. t \in TermOf(winsize) /\ Follows(wins[lastwin], t) /\ Panes(wins, t)
  BY <1>1, <1>3, PromptWent DEF Seen
<1>5. term' = Prompted(t) /\ mode' = "prompt" /\ UNCHANGED <<winsize, wins, lastwin, misrouted>>
  BY <1>1, <1>3 DEF AnswerDigit
<1>6. PromptLength < Cols
  BY DEF Orderly
<1> QED BY <1>2, <1>4, <1>5, <1>6, PromptShown

(* Everything is painted anew, in windows that have just been made.        *)
LEMMA Repainted ==
  ASSUME NEW a, NEW r, NEW ws, Scene(a, r, ws), PlainScreen(ws), NEW t \in TermOf(r), NEW last \in Windows,
         t.keys = ws[last].keys, t.charset = ws[last].charset,
         mode' = "run", misrouted' \in BOOLEAN, winsize' = r, wins' = ws, lastwin' = last,
         term' = Redraw(ws, t, last)
  PROVE  Drawing(a)'
<1>1. PICK u : u = Redraw(ws, t, last)
  OBVIOUS
<1>2. u \in TermOf(r) /\ Follows(ws[last], u) /\ Seen(ws, u)
  BY <1>1, RedrawIs
<1>3. Scene(a, winsize', wins') /\ term' \in TermOf(winsize') /\ Follows(wins'[lastwin'], term') /\ Seen(wins', term')
  BY <1>1, <1>2
<1> QED BY <1>3, LoopGoesOn

LEMMA OrderlyRepaints ==
  ASSUME NEW a, Orderly(a)
  PROVE  (RepaintIsPlain => PlainScreen(wins)) /\ "shrink" \in Assumed /\ "prompt" \in Assumed
<1>1. {"plain", "shrink", "prompt"} \subseteq Assumptions \ {"winch"}
  BY DEF Assumptions
<1>2. {"plain", "shrink", "prompt"} \subseteq Assumed
  BY <1>1 DEF Orderly
<1> QED BY <1>2 DEF RepaintIsPlain

LEMMA MoveBarDrawing ==
  ASSUME NEW a, Orderly(a), Layout, Drawing(a), mode = "prompt", mode' = "run",
         UNCHANGED <<winsize, lastwin, misrouted>>, NEW howfar \in Int, MoveBar(PromptGone(term), howfar)
  PROVE  Drawing(a)'
<1>1. misrouted \in BOOLEAN /\ lastwin \in Windows /\ Scene(a, winsize, wins)
  BY PromptFact
<1>2. PICK r, ws, t, last, lines : /\ r = winsize /\ ws = wins /\ t = PromptGone(term) /\ last = lastwin
                                   /\ lines = wins["upper"].rows + howfar
  OBVIOUS
<1>3. t \in TermOf(r) /\ Follows(ws[last], t)
  BY <1>2, PromptWent
<1>4. PICK new : new = ResizedBoth(ws, r, lines)
  OBVIOUS
<1>5. RepaintIsPlain /\ RegionFits(new) /\ wins' = new /\ term' = Redraw(new, t, last)
  BY <1>2, <1>4 DEF MoveBar
<1>6. r \in Nat /\ TallEnough(r)
  BY <1>2 DEF Layout, TallEnough
<1>7. lines \in Int
  BY <1>1, <1>2, SceneFact
<1>8. PlainScreen(ws) /\ "shrink" \in Assumed
  BY <1>2, <1>5, OrderlyRepaints
<1>9. Scene(a, r, ws)
  BY <1>1, <1>2
<1>10. /\ Scene(a, r, new) /\ (PlainScreen(ws) => PlainScreen(new))
       /\ \A v \in Windows : new[v].keys = ws[v].keys /\ new[v].charset = ws[v].charset
  BY <1>4, <1>5, <1>6, <1>7, <1>8, <1>9, ResizedScene
<1>11. last \in Windows /\ t.keys = new[last].keys /\ t.charset = new[last].charset
  BY <1>1, <1>2, <1>3, <1>10 DEF Follows
<1>12. misrouted' \in BOOLEAN /\ winsize' = r /\ lastwin' = last
  BY <1>1, <1>2
<1> QED BY <1>3, <1>5, <1>8, <1>10, <1>11, <1>12, Repainted

LEMMA AnswerDrawing ==
  ASSUME NEW a, Orderly(a), Layout, Drawing(a), NEW k \in Keys, Answer(k)
  PROVE  Drawing(a)'
<1>1. mode = "prompt" /\ mode' = "run" /\ UNCHANGED <<winsize, lastwin, misrouted>>
  BY DEF Answer
<1>2. misrouted \in BOOLEAN /\ lastwin \in Windows /\ Scene(a, winsize, wins)
  BY <1>1, PromptFact
<1>3. PICK t : t = PromptGone(term)
  OBVIOUS
<1>4. t \in TermOf(winsize) /\ Follows(wins[lastwin], t) /\ Seen(wins, t)
  BY <1>1, <1>3, PromptWent
<1>5. CASE \/ MoveBar(PromptGone(term), Toward(1))
           \/ MoveBar(PromptGone(term), Toward(-1))
  <2>1. Toward(1) \in Int /\ Toward(-1) \in Int
    BY DEF Layout, Toward, Count
  <2>2. PICK howfar \in Int : MoveBar(PromptGone(term), howfar)
    BY <1>5, <2>1
  <2> QED BY <1>1, <2>2, MoveBarDrawing
<1>6. CASE RepaintIsPlain /\ term' = Redraw(wins, PromptGone(term), lastwin) /\ UNCHANGED wins
  <2>1. PICK r, ws, last : r = winsize /\ ws = wins /\ last = lastwin
    OBVIOUS
  <2>2. PlainScreen(ws) /\ Scene(a, r, ws) /\ t \in TermOf(r) /\ last \in Windows
    BY <1>2, <1>4, <1>6, <2>1, OrderlyRepaints
  <2>3. t.keys = ws[last].keys /\ t.charset = ws[last].charset
    BY <1>4, <2>1 DEF Follows
  <2>4. /\ mode' = "run" /\ misrouted' \in BOOLEAN /\ winsize' = r /\ wins' = ws /\ lastwin' = last
        /\ term' = Redraw(ws, t, last)
    BY <1>1, <1>2, <1>3, <1>6, <2>1
  <2> QED BY <2>2, <2>3, <2>4, Repainted
<1>7. CASE term' = PromptGone(term) /\ UNCHANGED wins
  <2>1. Scene(a, winsize', wins') /\ misrouted' \in BOOLEAN
    BY <1>1, <1>2, <1>7
  <2>2. term' \in TermOf(winsize') /\ Follows(wins'[lastwin'], term') /\ Seen(wins', term')
    BY <1>1, <1>3, <1>4, <1>7
  <2> QED BY <1>1, <2>1, <2>2, LoopGoesOn
<1>8. \/ MoveBar(PromptGone(term), Toward(1))
      \/ MoveBar(PromptGone(term), Toward(-1))
      \/ RepaintIsPlain /\ term' = Redraw(wins, PromptGone(term), lastwin) /\ UNCHANGED wins
      \/ term' = PromptGone(term) /\ UNCHANGED wins
  BY DEF Answer
<1> QED BY <1>5, <1>6, <1>7, <1>8

------------------------------------------------------------------------------
(* Changes of the terminal's height, and the end.                          *)

LEMMA EndDrawing ==
  ASSUME NEW a, Drawing(a), mode' = "done", misrouted' = misrouted, UNCHANGED wins, term'.rows = winsize'
  PROVE  Drawing(a)'
BY DEF Drawing

LEMMA FinishedRows ==
  ASSUME NEW r, NEW t \in TermOf(r), NEW rows
  PROVE  /\ Finished(t).rows = r
         /\ Finished(Resize(t, rows)).rows = rows
<1>1. ASSUME NEW u, u = [rows |-> u.rows, x |-> u.x, y |-> u.y, top |-> u.top, bottom |-> u.bottom, cell |-> u.cell,
                        attr |-> u.attr, keys |-> u.keys, charset |-> u.charset, colour |-> u.colour, saved |-> u.saved]
      PROVE  Finished(u).rows = u.rows
  BY <1>1 DEF Finished, ResetAttr, ClrEol, EraseCells, Goto, WholeScreen, Home
<1>2. t.rows = r
  BY TermFact
<1>3. Finished(t).rows = t.rows
  BY <1>1 DEF TermOf
<1>4. PICK u : u = Resize(t, rows)
  OBVIOUS
<1>5. /\ u.rows = rows
      /\ u = [rows |-> u.rows, x |-> u.x, y |-> u.y, top |-> u.top, bottom |-> u.bottom, cell |-> u.cell,
              attr |-> u.attr, keys |-> u.keys, charset |-> u.charset, colour |-> u.colour, saved |-> u.saved]
  BY <1>4 DEF Resize, TermOf
<1>6. Finished(u).rows = rows
  BY <1>1, <1>5
<1> QED BY <1>2, <1>3, <1>4, <1>6

LEMMA FinishDrawing == ASSUME NEW a, Layout, Drawing(a), Finish PROVE Drawing(a)'
<1>1. mode # "done" /\ mode' = "done" /\ term' = Finished(term) /\ UNCHANGED <<winsize, wins, misrouted>>
  BY DEF Finish, InLoop
<1>2. term \in TermOf(winsize)
  BY <1>1 DEF Drawing
<1>3. PICK r, t : r = winsize /\ t = term
  OBVIOUS
<1>4. Finished(t).rows = r
  BY <1>2, <1>3, FinishedRows
<1> QED BY <1>1, <1>3, <1>4, EndDrawing

LEMMA WinchDrawing ==
  ASSUME NEW a, Orderly(a), FInv, Layout, Drawing(a), NEW rows \in Heights, Winch(rows)
  PROVE  Drawing(a)'
<1>1. mode = "run" /\ rows \in Nat /\ winsize' = rows /\ misrouted' = misrouted
  BY OrderlyRepaints, SplitVtAssumption DEF Winch
<1>2. /\ misrouted \in BOOLEAN /\ lastwin \in Windows /\ Scene(a, winsize, wins)
      /\ term \in TermOf(winsize) /\ Seen(wins, term) /\ Follows(wins[lastwin], term)
  BY <1>1, LoopFact
<1>3. PICK r, ws, t, last : r = winsize /\ ws = wins /\ t = term /\ last = lastwin
  OBVIOUS
<1>4. CASE TallEnough(rows)
  <2>1. PICK new, e, u : /\ new = ResizedBoth(ws, rows, UserLines) /\ e = Resize(t, rows)
                         /\ u = Redraw(new, e, last)
    OBVIOUS
  <2>2. /\ RepaintIsPlain /\ RegionFits(new) /\ wins' = new /\ lastwin' = this /\ mode' = mode
        /\ term' = SetWin(new, u, last, this)
    BY <1>3, <1>4, <2>1 DEF Winch
  <2>3. PlainScreen(ws) /\ "shrink" \in Assumed
    BY <1>3, <2>2, OrderlyRepaints
  <2>4. UserLines \in Int /\ Scene(a, r, ws)
    BY <1>2, <1>3, SplitVtAssumption
  <2>5. /\ Scene(a, rows, new) /\ (PlainScreen(ws) => PlainScreen(new))
        /\ \A v \in Windows : new[v].keys = ws[v].keys /\ new[v].charset = ws[v].charset
    BY <1>1, <1>4, <2>1, <2>2, <2>3, <2>4, ResizedScene
  <2>6. r \in Nat /\ t \in TermOf(r) /\ rows >= 7
    BY <1>2, <1>3, <1>4 DEF Scene, TallEnough
  <2>7. e \in TermOf(rows) /\ e.keys = t.keys /\ e.charset = t.charset
    BY <1>1, <2>1, <2>6, ResizeIs
  <2>8. last \in Windows /\ e.keys = new[last].keys /\ e.charset = new[last].charset
    BY <1>2, <1>3, <2>5, <2>7 DEF Follows
  <2>9. u \in TermOf(rows) /\ Follows(new[last], u) /\ Seen(new, u)
    BY <2>1, <2>3, <2>5, <2>7, <2>8, RedrawIs
  <2>10. PICK which, v : which = this /\ v = term'
    OBVIOUS
  <2>11. which \in Windows
    BY <2>10 DEF FInv, Focus
  <2>12. v \in TermOf(rows) /\ Follows(new[which], v) /\ Seen(new, v)
    BY <2>2, <2>5, <2>8, <2>9, <2>10, <2>11, SetWinSeen
  <2>13. mode' = "run" /\ misrouted' \in BOOLEAN /\ Scene(a, winsize', wins')
    BY <1>1, <1>2, <2>2, <2>5
  <2>14. term' \in TermOf(winsize') /\ Follows(wins'[lastwin'], term') /\ Seen(wins', term')
    BY <1>1, <2>2, <2>10, <2>12
  <2> QED BY <2>13, <2>14, LoopGoesOn
<1>5. CASE ~TallEnough(rows)
  <2>1. mode' = "done" /\ term' = Finished(Resize(t, rows)) /\ UNCHANGED wins
    BY <1>3, <1>5 DEF Winch
  <2>2. Finished(Resize(t, rows)).rows = rows
    BY <1>2, <1>3, FinishedRows
  <2> QED BY <1>1, <2>1, <2>2, EndDrawing
<1> QED BY <1>4, <1>5

LEMMA StutterDrawing == ASSUME NEW a, Drawing(a), UNCHANGED vars PROVE Drawing(a)'
BY DEF Drawing, vars

LEMMA NextDrawing ==
  ASSUME NEW a, Orderly(a), FInv, Layout, Drawing(a), [Next]_vars
  PROVE  Drawing(a)'
<1>1. ASSUME NEW w \in Windows, Read(w) PROVE Drawing(a)'
  BY <1>1, FocusDrawing DEF Read, InLoop
<1>2. ASSUME NEW c \in Inputs, Item(c) PROVE Drawing(a)'
  BY <1>2, ItemDrawing
<1>3. CASE EndOfRead
  <2>1. this \in Windows
    BY DEF FInv, Focus
  <2> QED BY <1>3, <2>1, FocusDrawing DEF EndOfRead
<1>4. ASSUME NEW w \in Windows, Dies(w) PROVE Drawing(a)'
  <2>1. this' \in Windows
    BY <1>4, DiesFocus DEF FInv, Focus
  <2>2. PICK which : which = this'
    OBVIOUS
  <2>3. /\ mode = "run" /\ which \in Windows /\ term' = SetWin(wins, term, lastwin, which) /\ lastwin' = which
        /\ UNCHANGED <<winsize, wins, mode, misrouted>>
    BY <1>4, <2>1, <2>2 DEF Dies, InLoop
  <2> QED BY <2>3, FocusDrawing
<1>5. CASE Switch
  <2>1. this' \in Windows
    BY <1>5, SwitchFocus DEF FInv, Focus
  <2>2. PICK which : which = this'
    OBVIOUS
  <2>3. /\ mode = "run" /\ which \in Windows /\ term' = SetWin(wins, term, lastwin, which) /\ lastwin' = which
        /\ UNCHANGED <<winsize, wins, mode, misrouted>>
    BY <1>5, <2>1, <2>2 DEF Switch, InLoop
  <2> QED BY <2>3, FocusDrawing
<1>6. CASE AskCommand
  BY <1>6, AskDrawing
<1>7. ASSUME NEW k \in Keys, Answer(k) PROVE Drawing(a)'
  BY <1>7, AnswerDrawing
<1>8. ASSUME NEW d \in Digits, AnswerDigit(d) PROVE Drawing(a)'
  BY <1>8, DigitDrawing
<1>9. ASSUME NEW rows \in Heights, Winch(rows) PROVE Drawing(a)'
  BY <1>9, WinchDrawing
<1>10. CASE Finish
  BY <1>10, FinishDrawing
<1>11. CASE UNCHANGED vars
  BY <1>11, StutterDrawing
<1> QED
  BY <1>1, <1>2, <1>3, <1>4, <1>5, <1>6, <1>7, <1>8, <1>9, <1>10, <1>11 DEF Next

------------------------------------------------------------------------------
(* What follows.                                                           *)

LEMMA DrawingHolds ==
  ASSUME NEW a, Orderly(a)
  PROVE  Spec => [](FInv /\ Layout /\ Drawing(a))
<1>1. Watched
  BY OrderlyIsWatched
<1>2. Init => FInv /\ Layout /\ Drawing(a)
  BY InitFocus, InitLayout, InitDrawing
<1>3. (FInv /\ Layout /\ Drawing(a)) /\ [Next]_vars => (FInv /\ Layout /\ Drawing(a))'
  BY <1>1, NextFocus, NextLayout, NextDrawing
<1> QED BY <1>2, <1>3, PTL DEF Spec

LEMMA DrawingTypes ==
  ASSUME NEW a, FInv, Layout, Drawing(a)
  PROVE  TypeOK
<1>1. ASSUME NEW v \in Windows
      PROVE  /\ DOMAIN wins[v].mem = 1 .. wins[v].rows
             /\ \A i \in 1 .. wins[v].rows : wins[v].mem[i] \in [1 .. Cols -> Cells]
             /\ wins[v].tabs \subseteq 1 .. Cols
             /\ wins[v].rows >= 3
  <2>1. Sound(wins[v])
    BY DEF Layout, Kept
  <2>2. wins[v].mem \in Screen(wins[v].rows) /\ wins[v].tabs \subseteq 1 .. Cols /\ wins[v].rows >= 3
    BY <2>1, MemFact, TabsFact, RowsFact
  <2> QED BY <2>2 DEF Screen
<1>2. wins["lower"].off = wins["upper"].rows + 1 /\ term.rows = winsize /\ misrouted \in BOOLEAN
  BY DEF Drawing, Placement, BarLine
<1>3. mode # "done" => wins["lower"].off + wins["lower"].rows \in {winsize - 1, winsize}
  BY DEF Drawing, Scene
<1>4. /\ lastwin \in Windows \cup {"none"} /\ this \in Windows /\ ok \in [Windows -> BOOLEAN]
      /\ writing \in Windows \cup {"none"}
  BY DEF FInv, Focus
<1> QED BY <1>1, <1>2, <1>3, <1>4 DEF TypeOK

(* Where the programs keep clear of the situations the code is known to get *)
(* wrong, the real cursor, region and modes are those of the current window *)
(* whenever the main loop runs, whatever was written, switched, asked,      *)
(* moved or resized before (vt100.c:2-4).                                   *)
THEOREM CursorIsKept == (\E a \in Attributes : Orderly(a)) => (Spec => []CursorFollowed)
<1> SUFFICES ASSUME NEW a \in Attributes, Orderly(a) PROVE Spec => []CursorFollowed
  OBVIOUS
<1>1. Spec => [](FInv /\ Layout /\ Drawing(a))
  BY DrawingHolds
<1>2. FInv /\ Layout /\ Drawing(a) => CursorFollowed
  <2> SUFFICES ASSUME FInv, Layout, Drawing(a) PROVE CursorFollowed
    OBVIOUS
  <2>1. KeyboardFollowed
    BY DEF FInv, Focus, Followed, KeyboardFollowed, InLoop
  <2>2. mode = "run" => Follows(wins[lastwin], term)
    BY DEF Drawing
  <2> QED BY <2>1, <2>2 DEF CursorFollowed, Follows, Column
<1> QED BY <1>1, <1>2, PTL

(* And the terminal shows what both windows hold, each in its own lines,    *)
(* with the bar between them: no write of one program lands in the lines of *)
(* the other, and no move of the bar, change of the height or prompt leaves *)
(* anything behind.                                                         *)
THEOREM ScreenIsKept == (\E a \in Attributes : Orderly(a)) => (Spec => []ScreenIsMemory)
<1> SUFFICES ASSUME NEW a \in Attributes, Orderly(a) PROVE Spec => []ScreenIsMemory
  OBVIOUS
<1>1. Spec => [](FInv /\ Layout /\ Drawing(a))
  BY DrawingHolds
<1>2. FInv /\ Layout /\ Drawing(a) => ScreenIsMemory
  <2> SUFFICES ASSUME FInv, Layout, Drawing(a) PROVE ScreenIsMemory
    OBVIOUS
  <2>1. TypeOK
    BY DrawingTypes
  <2>2. mode = "run" => Panes(wins, term) /\ term.cell[wins["upper"].rows + 1] = BarRow
    BY DEF Drawing, BarLine
  <2> QED BY <2>1, <2>2 DEF ScreenIsMemory, Panes, Shows
<1> QED BY <1>1, <1>2, PTL

==============================================================================
