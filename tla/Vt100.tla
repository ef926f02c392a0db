-------------------------------- MODULE Vt100 --------------------------------
(***************************************************************************)
(* The real terminal splitvt runs on, as far as splitvt uses it: a screen  *)
(* of cells, a cursor, one scrolling region, a saved cursor and the modes  *)
(* that an escape sequence sets.  It is not part of the repository: what   *)
(* each sequence does is taken from how terminal.c sends it and from what  *)
(* vt100.c expects of it.                                                  *)
(*                                                                         *)
(* A cell is {} when it is blank, otherwise {"char"} and the attributes    *)
(* the character is shown with.  A line the cursor has filled does not     *)
(* wrap: splitvt always goes to the next line itself.                      *)
(***************************************************************************)
EXTENDS Integers

CONSTANT Cols           \* the columns of the screen

ASSUME ColsAssumption == Cols \in Nat \ {0}

Attributes == {"bold", "reverse"}
Cells == {{}} \cup {{"char"} \cup a : a \in SUBSET Attributes} \cup {{"bar"}}
BlankRow == [j \in 1 .. Cols |-> {}]
BarRow == [j \in 1 .. Cols |-> IF j < Cols THEN {"bar"} ELSE {}]

Between(low, n, high) == IF n < low THEN low ELSE IF n > high THEN high ELSE n
Count(n) == IF n = 0 THEN 1 ELSE n

Blank(rows) == [i \in 1 .. rows |-> BlankRow]
Terminal(rows) ==
    [rows |-> rows, x |-> 1, y |-> 1, top |-> 1, bottom |-> rows, cell |-> Blank(rows),
     attr |-> {}, keys |-> "normal", charset |-> "US", colour |-> "none",
     saved |-> [x |-> 1, y |-> 1, attr |-> {}]]

\* Lines a .. b of a screen of lines moved by one, up or down: the line that
\* comes in is blank.
RolledUp(cell, a, b) ==
    [i \in DOMAIN cell |-> IF i \in a .. (b - 1) THEN cell[i + 1]
                           ELSE IF i = b /\ a <= b THEN BlankRow ELSE cell[i]]
RolledDown(cell, a, b) ==
    [i \in DOMAIN cell |-> IF i \in (a + 1) .. b THEN cell[i - 1]
                           ELSE IF i = a /\ a <= b THEN BlankRow ELSE cell[i]]

Goto(t, row, col) == [t EXCEPT !.x = Between(1, row, t.rows), !.y = Between(1, col, Cols)]
Home(t) == Goto(t, 1, 1)
CR(t) == [t EXCEPT !.y = 1]
LF(t) == IF t.x = t.bottom THEN [t EXCEPT !.cell = RolledUp(@, t.top, t.bottom)]
         ELSE Goto(t, t.x + 1, t.y)
RevScroll(t) == IF t.x = t.top THEN [t EXCEPT !.cell = RolledDown(@, t.top, t.bottom)]
                ELSE Goto(t, t.x - 1, t.y)
Up(t, n) == Goto(t, IF t.x >= t.top THEN Between(t.top, t.x - Count(n), t.x)
                    ELSE t.x - Count(n), t.y)
Down(t, n) == Goto(t, IF t.x <= t.bottom THEN Between(t.x, t.x + Count(n), t.bottom)
                      ELSE t.x + Count(n), t.y)
Right(t, n) == Goto(t, t.x, t.y + Count(n))
Left(t, n) == Goto(t, t.x, t.y - Count(n))
Put(t, cell) == [t EXCEPT !.cell[t.x][t.y] = cell, !.y = Between(1, @ + 1, Cols)]
PutChar(t) == Put(t, {"char"} \cup t.attr)

\* A region of less than two lines is refused, and nothing happens.
SetScroll(t, upper, lower) ==
    IF upper < lower /\ upper >= 1 /\ lower <= t.rows
    THEN Home([t EXCEPT !.top = upper, !.bottom = lower]) ELSE t
WholeScreen(t) == Home([t EXCEPT !.top = 1, !.bottom = t.rows])

EraseCells(t, from, to) == [t EXCEPT !.cell[t.x] = [j \in 1 .. Cols |->
                                IF j \in from .. to THEN {} ELSE @[j]]]
ClrEol(t) == EraseCells(t, t.y, Cols)
ClrBgl(t) == EraseCells(t, 1, t.y)
ClrLine(t) == EraseCells(t, 1, Cols)
ClrScr(t) == [t EXCEPT !.cell = Blank(t.rows)]

DeleteChars(t, n) == [t EXCEPT !.cell[t.x] = [j \in 1 .. Cols |->
    IF j < t.y THEN @[j] ELSE IF j + Count(n) <= Cols THEN @[j + Count(n)] ELSE {}]]
InsertChars(t, n) == [t EXCEPT !.cell[t.x] = [j \in 1 .. Cols |->
    IF j < t.y THEN @[j] ELSE IF j - Count(n) >= t.y THEN @[j - Count(n)] ELSE {}]]
InRegion(t) == t.x \in t.top .. t.bottom
\* Lines from the cursor's to the end of the region, which move by Count(n).
LinesFrom(t) == t.x .. t.bottom
InsertLine(t, n) ==
    IF ~InRegion(t) THEN t
    ELSE [t EXCEPT !.cell = [i \in DOMAIN @ |->
              IF i \notin LinesFrom(t) THEN @[i]
              ELSE IF i - Count(n) \in LinesFrom(t) THEN @[i - Count(n)] ELSE BlankRow]]
DeleteLine(t, n) ==
    IF ~InRegion(t) THEN t
    ELSE [t EXCEPT !.cell = [i \in DOMAIN @ |->
              IF i \notin LinesFrom(t) THEN @[i]
              ELSE IF i + Count(n) \in LinesFrom(t) THEN @[i + Count(n)] ELSE BlankRow]]

SaveCursor(t) == [t EXCEPT !.saved = [x |-> t.x, y |-> t.y, attr |-> t.attr]]
RestCursor(t) == [Goto(t, t.saved.x, t.saved.y) EXCEPT !.attr = t.saved.attr]
ResetAttr(t) == [t EXCEPT !.attr = {}, !.colour = "none"]

\* The user changes the size of the terminal's window.
Resize(t, rows) ==
    [t EXCEPT !.rows = rows, !.x = Between(1, @, rows), !.top = 1, !.bottom = rows,
              !.cell = [i \in 1 .. rows |-> IF i <= t.rows THEN @[i] ELSE BlankRow],
              !.saved.x = Between(1, @, rows)]
==============================================================================
