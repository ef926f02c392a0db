---------------------------- MODULE SplitVtWindow ----------------------------
(***************************************************************************)
(* What splitvt does with the output of a program in one of its windows    *)
(* (the handlers of vt100.c): it keeps the window's own cursor, region,    *)
(* modes and video memory, and sends sequences to the real terminal that   *)
(* are to have the same effect inside the window's lines.                  *)
(*                                                                         *)
(* A handler maps a pair s = [w, t] of the window and the terminal to the  *)
(* pair it leaves.  An item of output is a character or a complete control *)
(* sequence [op, n, m] with its two first parameters, 0 when not given; n  *)
(* is the value of a character's byte, where that matters.                 *)
(***************************************************************************)
EXTENDS VideoMemory, FiniteSets

ResetWin(w) ==
    [w EXCEPT !.x = 1, !.y = 1, !.sx = 0, !.sy = 0, !.up = 1, !.low = w.rows,
              !.keys = "normal", !.attr = {}, !.sattr = {}, !.charset = "US"]

NewWindow(rows, off) ==
    ResetWin([x |-> 1, y |-> 1, rows |-> rows, off |-> off, up |-> 1, low |-> rows,
              attr |-> {}, keys |-> "normal", charset |-> "US", colour |-> "none",
              sx |-> 0, sy |-> 0, sattr |-> {}, tabs |-> DefaultTabs,
              mem |-> Blank(rows), wild |-> FALSE])

CheckWin(w) == [w EXCEPT !.x = IF @ > w.rows THEN w.rows ELSE @,
                         !.y = IF @ > Cols THEN Cols ELSE @,
                         !.low = IF @ > w.rows THEN w.rows ELSE @]

ToCursor(s) == [s EXCEPT !.t = Goto(@, s.w.x + s.w.off, s.w.y)]
\* set_attr hands the attributes to check_attr in the place where that expects
\* a cell, which has them above its eight bits of character: check_attr finds
\* none and switches nothing on.  What is left is the reset.
SetAttr(s) == [s EXCEPT !.t = ResetAttr(@)]

------------------------------------------------------------------------------
(* scan_for_esc: characters and single controls.                            *)

\* Mutant of Advance: the memory of the last line is not scrolled away.
AdvanceStill(w) == IF w.x < w.low THEN [w EXCEPT !.x = @ + 1] ELSE w
Advance(w) == IF w.x < w.low THEN [w EXCEPT !.x = @ + 1] ELSE ScrollVideo(w)

NewLine(s) == [w |-> Advance(s.w), t |-> LF(s.t)]
Return(s) == [w |-> [s.w EXCEPT !.y = 1], t |-> CR(s.t)]
NextLine(s) == [w |-> [Advance(s.w) EXCEPT !.y = 1], t |-> LF(CR(s.t))]

Character(s, n) ==
    LET p == IF s.w.y > Cols THEN NextLine(s) ELSE s
    IN [w |-> [AddVideo(p.w, n) EXCEPT !.y = @ + 1], t |-> PutChar(p.t)]

BackSpace(s) == IF s.w.y # 1 THEN [w |-> [s.w EXCEPT !.y = @ - 1], t |-> Left(s.t, 0)] ELSE s

\* To the next tab stop, but at least one column, even from the last one.
NextTab(w) == LET stops == {j \in w.tabs : j > w.y} \cup {j \in {Cols} : j > w.y}
              IN IF stops = {} THEN w.y + 1 ELSE CHOOSE j \in stops : \A k \in stops : j <= k
TabOn(s) == [w |-> [s.w EXCEPT !.y = NextTab(s.w)], t |-> Right(s.t, NextTab(s.w) - s.w.y)]

------------------------------------------------------------------------------
(* E_: ESC and a letter.                                                    *)

ReverseIndex(s) ==
    [w |-> IF s.w.x > s.w.up THEN [s.w EXCEPT !.x = @ - 1] ELSE RevScrollVideo(s.w),
     t |-> RevScroll(s.t)]
SaveIt(s) == [s EXCEPT !.w = [@ EXCEPT !.sx = s.w.x, !.sy = s.w.y, !.sattr = s.w.attr]]
\* Mutant of RestoreIt: the line that was saved is taken as it is.
RestoreLine(s) ==
    LET w == [s.w EXCEPT !.x = s.w.sx, !.y = IF s.w.sy > Cols THEN Cols ELSE s.w.sy,
                         !.attr = s.w.sattr, !.colour = "none"]
    IN SetAttr(ToCursor([w |-> w, t |-> s.t]))
RestoreIt(s) ==
    LET w == [s.w EXCEPT !.x = IF s.w.sx > s.w.rows THEN s.w.rows ELSE s.w.sx,
                         !.y = IF s.w.sy > Cols THEN Cols ELSE s.w.sy,
                         !.attr = s.w.sattr, !.colour = "none"]
    IN SetAttr(ToCursor([w |-> w, t |-> s.t]))
KeyState(s, mode) == [w |-> [s.w EXCEPT !.keys = mode], t |-> [s.t EXCEPT !.keys = mode]]
AltCharset(s, chars) == [w |-> [s.w EXCEPT !.charset = chars], t |-> [s.t EXCEPT !.charset = chars]]
SetTab(w) == IF w.y <= Cols THEN [w EXCEPT !.tabs = @ \cup {w.y}] ELSE Wild(w)

------------------------------------------------------------------------------
(* E_brac: ESC [ and parameters.                                            *)

ScrollRegion(s, n, m) ==
    LET upper == IF n < 1 THEN 1 ELSE n
        lower == IF m > s.w.rows THEN s.w.rows ELSE m
        whole == (n = 0 /\ m = 0) \/ upper > lower
        w == [s.w EXCEPT !.up = IF whole THEN 1 ELSE upper,
                         !.low = IF whole THEN s.w.rows ELSE lower, !.x = 1, !.y = 1]
    IN ToCursor([w |-> w, t |-> SetScroll(s.t, w.up + w.off, w.low + w.off)])

CursorUp(s, n) ==
    LET newx == s.w.x - Count(n)
    IN IF s.w.x = s.w.up THEN s
       ELSE IF newx > s.w.up THEN [w |-> [s.w EXCEPT !.x = newx], t |-> Up(s.t, n)]
       ELSE ToCursor([s EXCEPT !.w.x = s.w.up])
CursorDown(s, n) ==
    LET newx == s.w.x + Count(n)
    IN IF s.w.x = s.w.low THEN s
       ELSE IF newx <= s.w.low THEN [w |-> [s.w EXCEPT !.x = newx], t |-> Down(s.t, n)]
       ELSE ToCursor([s EXCEPT !.w.x = s.w.low])
CursorRight(s, n) ==
    LET newy == s.w.y + Count(n)
    IN IF s.w.y = Cols THEN s
       ELSE IF newy < Cols THEN [w |-> [s.w EXCEPT !.y = newy], t |-> Right(s.t, n)]
       ELSE ToCursor([s EXCEPT !.w.y = Cols])
CursorLeft(s, n) ==
    LET newy == s.w.y - Count(n)
    IN IF s.w.y = 1 THEN s
       ELSE IF newy > 1 THEN [w |-> [s.w EXCEPT !.y = newy], t |-> Left(s.t, n)]
       ELSE Return(s)
MoveTo(s, n, m) ==
    LET row == Count(n)
        col == Count(m)
    IN ToCursor([s EXCEPT !.w.x = IF row > s.w.rows THEN s.w.rows ELSE row,
                          !.w.y = IF col > Cols THEN Cols ELSE col])

ClearTab(w, n) == IF n = 3 THEN [w EXCEPT !.tabs = {}]
                  ELSE IF n # 0 THEN w
                  ELSE IF w.y <= Cols THEN [w EXCEPT !.tabs = @ \ {w.y}] ELSE Wild(w)

Attribute(s, n) ==
    CASE n = 0 -> [w |-> [s.w EXCEPT !.attr = {}, !.colour = "none"], t |-> ResetAttr(s.t)]
      [] n = 1 -> [w |-> [s.w EXCEPT !.attr = @ \cup {"bold"}], t |-> [s.t EXCEPT !.attr = @ \cup {"bold"}]]
      [] n = 7 -> [w |-> [s.w EXCEPT !.attr = @ \cup {"reverse"}], t |-> [s.t EXCEPT !.attr = @ \cup {"reverse"}]]
      [] n = 22 -> [w |-> [s.w EXCEPT !.attr = @ \ {"bold"}], t |-> [s.t EXCEPT !.attr = @ \ {"bold"}]]
      [] n = 27 -> [w |-> [s.w EXCEPT !.attr = @ \ {"reverse"}], t |-> [s.t EXCEPT !.attr = @ \ {"reverse"}]]
      [] n = 31 -> [w |-> [s.w EXCEPT !.colour = "red"], t |-> [s.t EXCEPT !.colour = "red"]]
      [] OTHER -> s
\* The second parameter and the ones after it end at the first that is zero.
Attributes2(s, n, m) == IF m = 0 THEN Attribute(s, n) ELSE Attribute(Attribute(s, n), m)

\* J clears whole lines, one after the other, with the real terminal's own
\* line feeds and cursor movements in between.
ClearedDown(t, lines) == LET c[k \in 0 .. lines] == IF k = 0 THEN t ELSE LF(ClrEol(c[k - 1]))
                         IN ClrEol(c[lines])
ClearedUp(t, lines) == LET c[k \in 0 .. lines] == IF k = 0 THEN t ELSE Up(ClrEol(c[k - 1]), 1)
                       IN ClrEol(c[lines])
ClearScreen(s, n) ==
    CASE n = 0 -> [w |-> EraseVideo(s.w, s.w.x, s.w.rows, 1, Cols),
                   t |-> RestCursor(ClearedDown(CR(SaveCursor(s.t)), s.w.rows - s.w.x))]
      [] n = 1 -> [w |-> EraseVideo(s.w, 1, s.w.x, 1, Cols),
                   t |-> RestCursor(ClearedUp(CR(SaveCursor(s.t)), IF s.w.x > 1 THEN s.w.x - 1 ELSE 0))]
      [] n = 2 -> LET w == [EraseVideo(s.w, 1, s.w.rows, 1, Cols) EXCEPT !.x = 1, !.y = 1]
                  IN [w |-> w, t |-> RestCursor(ClearedDown(CR(SaveCursor(Goto(s.t, w.off + 1, 1))), w.rows - 1))]
      [] OTHER -> s
ClearLine(s, n) ==
    CASE n = 0 -> [w |-> EraseVideo(s.w, s.w.x, s.w.x, s.w.y, Cols), t |-> ClrEol(s.t)]
      [] n = 1 -> [w |-> EraseVideo(s.w, s.w.x, s.w.x, 1, s.w.y), t |-> ClrBgl(s.t)]
      [] n = 2 -> [w |-> EraseVideo(s.w, s.w.x, s.w.x, 1, Cols), t |-> ClrLine(s.t)]
      [] OTHER -> s
DeleteUnder(s, n) == [w |-> EraseVideo(s.w, s.w.x, s.w.x, s.w.y, s.w.y), t |-> DeleteChars(s.t, n)]
DeleteLines(s, n) == [w |-> RevScrollVideo(s.w), t |-> DeleteLine(s.t, n)]
InsertLines(s, n) == [s EXCEPT !.t = InsertLine(@, n)]
InsertBlanks(s, n) == [w |-> RShiftVideo(s.w, Count(n)), t |-> InsertChars(s.t, n)]

------------------------------------------------------------------------------
(* One item of output, whose characters the function process_char points   *)
(* at is called for one after the other.                                    *)

Ops == {"char", "nl", "cr", "bs", "tab", "ESC D", "ESC M", "ESC E", "ESC 7", "ESC 8", "ESC =", "ESC >",
        "ESC (0", "ESC (B", "ESC H", "ESC c", "r", "A", "B", "C", "D", "H", "g", "m", "J", "K", "P", "M",
        "L", "@"}

Handled(s, c) ==
    CASE c.op = "char" -> Character(s, c.n)
      [] c.op = "nl" -> NewLine(s)
      [] c.op = "cr" -> Return(s)
      [] c.op = "bs" -> BackSpace(s)
      [] c.op = "tab" -> TabOn(s)
      [] c.op = "ESC D" -> NewLine(s)
      [] c.op = "ESC M" -> ReverseIndex(s)
      [] c.op = "ESC E" -> NextLine(s)
      [] c.op = "ESC 7" -> SaveIt(s)
      [] c.op = "ESC 8" -> RestoreIt(s)
      [] c.op = "ESC =" -> KeyState(s, "application")
      [] c.op = "ESC >" -> KeyState(s, "normal")
      [] c.op = "ESC (0" -> AltCharset(s, "graphics")
      [] c.op = "ESC (B" -> AltCharset(s, "US")
      [] c.op = "ESC H" -> [s EXCEPT !.w = SetTab(@)]
      [] c.op = "ESC c" -> [s EXCEPT !.w = ResetWin(@)]
      [] c.op = "r" -> ScrollRegion(s, c.n, c.m)
      [] c.op = "A" -> CursorUp(s, c.n)
      [] c.op = "B" -> CursorDown(s, c.n)
      [] c.op = "C" -> CursorRight(s, c.n)
      [] c.op = "D" -> CursorLeft(s, c.n)
      [] c.op = "H" -> MoveTo(s, c.n, c.m)
      [] c.op = "g" -> [s EXCEPT !.w = ClearTab(@, c.n)]
      [] c.op = "m" -> Attributes2(s, c.n, c.m)
      [] c.op = "J" -> ClearScreen(s, c.n)
      [] c.op = "K" -> ClearLine(s, c.n)
      [] c.op = "P" -> DeleteUnder(s, c.n)
      [] c.op = "M" -> DeleteLines(s, c.n)
      [] c.op = "L" -> InsertLines(s, c.n)
      [] c.op = "@" -> InsertBlanks(s, c.n)
==============================================================================
