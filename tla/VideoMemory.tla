----------------------------- MODULE VideoMemory -----------------------------
(***************************************************************************)
(* The memory splitvt keeps of one window's screen (videomem.c): what      *)
(* moves, erases, copies and repaints it.  A window is a record; a write   *)
(* outside the memory that was allocated for it sets its field "wild", and *)
(* leaves the rest alone.  x is the line and y the column, as in the code; *)
(* y may be past the last column, when the next character is to wrap.      *)
(***************************************************************************)
EXTENDS Vt100

CONSTANT TabStop        \* the distance between the tab stops a window starts with

ASSUME TabStopAssumption == TabStop \in Nat \ {0}

DefaultTabs == {j \in 1 .. Cols : (j - 1) % TabStop = 0}

Inside(w, x, y) == x \in 1 .. w.rows /\ y \in 1 .. Cols
Wild(w) == [w EXCEPT !.wild = TRUE]
StoreCell(w, x, y, cell) == IF Inside(w, x, y) THEN [w EXCEPT !.mem[x][y] = cell] ELSE Wild(w)

\* A byte is a signed char, so that one of 128 and more fills all that stands
\* above its eight bits, where a cell has its attributes.
EightBit == 128
AddVideo(w, n) == StoreCell(w, w.x, w.y, {"char"} \cup (IF n < EightBit THEN w.attr ELSE Attributes))

EraseVideo(w, x1, x2, y1, y2) ==
    IF x1 > x2 \/ y1 > y2 THEN w
    ELSE IF Inside(w, x1, y1) /\ Inside(w, x2, y2)
         THEN [w EXCEPT !.mem = [i \in DOMAIN @ |-> [j \in 1 .. Cols |->
                   IF i \in x1 .. x2 /\ j \in y1 .. y2 THEN {} ELSE @[i][j]]]]
         ELSE Wild(w)

\* A region that reaches past the memory of the window (one that was set
\* when the window was taller) is where lines are taken from.
RegionInside(w) == w.up \in 1 .. w.rows /\ w.low \in 1 .. w.rows

\* When the region is empty because up is below low, only line up is cleared:
\* the loop does not run, and the line is put back where it came from.
ScrollVideo(w) ==
    IF w.x > w.low THEN w
    ELSE IF ~RegionInside(w) THEN Wild(w)
    ELSE IF w.up > w.low THEN [w EXCEPT !.mem[w.up] = BlankRow]
    ELSE [w EXCEPT !.mem = RolledUp(@, w.up, w.low)]
RevScrollVideo(w) ==
    IF w.x < w.up THEN w
    ELSE IF ~RegionInside(w) THEN Wild(w)
    ELSE IF w.up > w.low THEN [w EXCEPT !.mem[w.low] = BlankRow]
    ELSE [w EXCEPT !.mem = RolledDown(@, w.up, w.low)]

\* The columns right of the cursor take what stands n columns before them;
\* the cursor's own column keeps what it has.
RShiftVideo(w, n) ==
    IF w.y >= Cols THEN w
    ELSE IF ~Inside(w, w.x, w.y) THEN Wild(w)
    ELSE [w EXCEPT !.mem[w.x] = [j \in 1 .. Cols |->
              IF j <= w.y THEN @[j] ELSE IF j - n >= 1 THEN @[j - n] ELSE {}]]

\* A window's memory and cursor at another height: lines are kept from the
\* bottom up, and a cursor in a line that is lost goes to the first.
CopiedVideo(w, rows) ==
    LET shift == rows - w.rows
        reached == w.x >= 1 /\ w.x + shift >= 1
    IN [w EXCEPT !.rows = rows,
                 !.mem = [i \in 1 .. rows |-> IF i - shift >= 1 THEN @[i - shift] ELSE BlankRow],
                 !.x = IF reached THEN w.x + shift ELSE 1,
                 !.y = IF @ > Cols THEN Cols ELSE @]

------------------------------------------------------------------------------
(* Repainting.  check_attr compares a cell with the one before: reverse is  *)
(* wanted only when no other attribute is ("selected" and "reversed" are    *)
(* both true when there is one), and switching it off resets everything and *)
(* gives up the rest of the comparison.  on is what it believes is on.      *)

Simple(attr) == IF "bold" \in attr THEN attr \ {"reverse"} ELSE attr

Xor(a, b) == (a \ b) \cup (b \ a)
Flipped(t, flip, on) ==
    [t |-> [t EXCEPT !.attr = (@ \ (flip \cap on)) \cup (flip \ on)], on |-> Xor(on, flip)]

CheckAttr(t, attr, last, on) ==
    LET was == Simple(last)
        changed == Xor(was, Simple(attr))
    IN IF "reverse" \in changed \cap on
       THEN Flipped(ResetAttr(t), was \ {"reverse"}, on \ {"reverse"})
       ELSE Flipped(t, changed, on)

\* One cell after the other, from left to right and from top to bottom.
PaintVideo(t, w) ==
    LET line(k) == 1 + ((k - 1) \div Cols)
        column(k) == 1 + ((k - 1) % Cols)
        Cell(k) == w.mem[line(k)][column(k)]
        At(s, k) == [s.t EXCEPT !.x = w.off + line(k), !.y = column(k)]
        painted[k \in 0 .. w.rows * Cols] ==
            IF k = 0 THEN [t |-> ResetAttr(WholeScreen(t)), last |-> {}, on |-> {}]
            ELSE LET s == painted[k - 1]
                 IN IF Cell(k) = {}
                    THEN [t |-> Put(IF s.on # {} THEN ResetAttr(At(s, k)) ELSE At(s, k), {}),
                          last |-> {}, on |-> {}]
                    ELSE LET c == CheckAttr(At(s, k), Cell(k) \ {"char"}, s.last, s.on)
                         IN [t |-> PutChar(c.t), last |-> Cell(k) \ {"char"}, on |-> c.on]
    IN Goto(SetScroll(painted[w.rows * Cols].t, w.up + w.off, w.low + w.off), w.x + w.off, w.y)
==============================================================================
