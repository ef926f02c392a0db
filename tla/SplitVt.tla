------------------------------- MODULE SplitVt -------------------------------
(***************************************************************************)
(* splitvt: two programs share one terminal, each in its own lines of it,  *)
(* with a separator bar between them (vt100.c, splitvt.c).  The main loop  *)
(* reads what a program wrote and runs it through the handlers of          *)
(* SplitVtWindow on that window; in between the user switches windows,     *)
(* moves the bar or asks for a repaint at a prompt shown on the bar, and   *)
(* SIGWINCH, whose handler runs at any moment, lays everything out anew.   *)
(*                                                                         *)
(* The real terminal is a part of the state: what is worth knowing is      *)
(* whether it shows what the two windows hold.  The programs and the user  *)
(* may do anything unless Assumed says otherwise; each of its members      *)
(* names one situation the code is known to get wrong.                     *)
(***************************************************************************)
EXTENDS SplitVtWindow

CONSTANTS
    StartRows,      \* the height of the terminal when splitvt starts
    Heights,        \* the heights it may be given later
    UserLines,      \* the -s option: lines of the upper window, 0 for one half
    PromptLength,   \* the length of PROMPT
    Inputs,         \* the items programs may write
    Keys,           \* what the user may answer at the prompt
    Digits,         \* the digits of these answers, as numbers
    Assumed,        \* see Careful
    MaxOutputs,     \* bound: items written
    MaxCommands,    \* bound: prompts
    MaxResizes      \* bound: changes of the terminal's height

Assumptions == {"margin", "region", "reverse margin", "one line", "erase", "saved", "attributes", "8-bit",
                "insert", "delete", "lines", "reset", "plain", "shrink", "winch", "prompt"}

ASSUME SplitVtAssumption ==
    /\ StartRows \in Nat /\ Heights \subseteq Nat /\ UserLines \in Nat /\ Digits \subseteq 0 .. 9
    /\ PromptLength \in Nat
    /\ Inputs \subseteq [op : Ops, n : Nat, m : Nat]
    /\ Assumed \subseteq Assumptions

VARIABLES
    term,           \* the real terminal
    winsize,        \* its height, as the kernel tells it (TIOCGWINSZ)
    wins,           \* upper and lower
    lastwin,        \* the window the terminal is set up for (curwin)
    this,           \* thisfd: the window that has the keyboard
    ok,             \* topok, bottomok
    mode,           \* "run", in the main loop, "prompt", in vt_prompt, or "done"
    writing,        \* vt_write runs for this window, or "none"
    param,          \* the number typed before a command; static in normal_input
    misrouted,      \* ghost: an item has gone to the other window
    outputs, commands, resizes      \* counters for the bounds

vars == <<term, winsize, wins, lastwin, this, ok, mode, writing, param, misrouted, outputs, commands, resizes>>

Windows == {"upper", "lower"}
Other(w) == IF w = "upper" THEN "lower" ELSE "upper"

------------------------------------------------------------------------------
(* Setting the terminal up for a window, and repainting.                    *)

SetWin(ws, t, last, which) ==
    LET w == ws[which]
        o == ws[Other(which)]
        placed == Goto(SetScroll(t, w.up + w.off, w.low + w.off), w.x + w.off, w.y)
        chars == IF w.charset # o.charset THEN [placed EXCEPT !.charset = w.charset] ELSE placed
        keyed == IF w.keys # o.keys THEN [chars EXCEPT !.keys = w.keys] ELSE chars
    IN IF which = last THEN t
       ELSE IF w.attr # o.attr THEN [ResetAttr(keyed) EXCEPT !.attr = w.attr] ELSE keyed

\* The bar is written from the cursor on; it is one short of the full width.
Bar(t) == [t EXCEPT !.cell[t.x] = [j \in 1 .. Cols |-> IF j < Cols THEN {"bar"} ELSE @[j]],
                    !.y = Cols]

\* Mutant of Redraw: the current window is painted first.
RedrawFirst(ws, t, last) ==
    LET now == IF last = "upper" THEN "upper" ELSE "lower"
        first == PaintVideo(ClrScr(t), ws[now])
    IN PaintVideo(Bar(Goto(first, ws["upper"].rows + 1, 0)), ws[Other(now)])

\* The current window is painted last, so that its region and cursor stay.
Redraw(ws, t, last) ==
    LET now == IF last = "upper" THEN "upper" ELSE "lower"
        first == PaintVideo(ClrScr(t), ws[Other(now)])
    IN PaintVideo(Bar(Goto(first, ws["upper"].rows + 1, 0)), ws[now])

------------------------------------------------------------------------------
(* init_vt100: the heights of the windows, and the windows at these heights *)

\* Mutant of UpperRows: one line too few is kept for the lower window.
UpperRowsShort(rows, lines) ==
    IF lines = 0 THEN (rows - 1) \div 2 ELSE Between(3, lines, rows - 3)
UpperRows(rows, lines) ==
    IF lines = 0 THEN (rows - 1) \div 2 ELSE Between(3, lines, rows - 4)
LowerRows(rows, lines) ==
    IF lines = 0 THEN (rows - 1) \div 2 ELSE rows - 1 - UpperRows(rows, lines)

Resized(w, rows, off) ==
    CheckWin([CopiedVideo(w, rows) EXCEPT
                  !.off = off, !.tabs = DefaultTabs, !.low = IF @ = w.rows THEN rows ELSE @])
ResizedBoth(ws, rows, lines) ==
    [upper |-> Resized(ws["upper"], UpperRows(rows, lines), 0),
     lower |-> Resized(ws["lower"], LowerRows(rows, lines), UpperRows(rows, lines) + 1)]

TallEnough(rows) == rows >= 7

Init ==
    \E first \in Windows :
        LET upper == NewWindow(UpperRows(StartRows, UserLines), 0)
            lower == NewWindow(LowerRows(StartRows, UserLines), upper.rows + 1)
        IN /\ TallEnough(StartRows)
           /\ wins = [upper |-> upper, lower |-> lower]
           /\ term = SetWin(wins, ResetAttr(Bar(Goto(Terminal(StartRows), upper.rows + 1, 1))), "none", first)
           /\ winsize = StartRows
           /\ this = first /\ lastwin = first
           /\ ok = [w \in Windows |-> TRUE]
           /\ mode = "run" /\ writing = "none" /\ param = 0 /\ misrouted = FALSE
           /\ outputs = 0 /\ commands = 0 /\ resizes = 0

------------------------------------------------------------------------------
(* What the programs and the user are taken to do.                          *)

BlankFrom(row, col) == \A j \in col .. Cols : row[j] = {}
Is(c, ops) == c.op \in ops
\* The current line of a window, where it has one.
Line(w) == IF w.x \in 1 .. w.rows THEN w.mem[w.x] ELSE BlankRow

Careful(w, c) ==
    \* past the last column the real cursor is one column behind
    /\ "margin" \in Assumed => (Is(c, {"bs", "D", "K", "P", "@", "ESC H", "g"}) => w.y <= Cols)
    \* below its region the real cursor moves on, beyond the window
    /\ "region" \in Assumed =>
        (Is(c, {"nl", "ESC D", "ESC E"}) \/ (Is(c, {"char"}) /\ w.y > Cols) => w.x <= w.low)
    /\ "reverse margin" \in Assumed => (Is(c, {"ESC M"}) => w.x >= w.up)
    \* a region of one line is refused by the terminal
    /\ "one line" \in Assumed => (Is(c, {"r"}) =>
            Between(1, c.n, w.rows + 1) # Between(0, c.m, w.rows))
    \* line feeds and upward movements within a screen erase stop at the region
    /\ "erase" \in Assumed => (Is(c, {"J"}) => w.up = 1 /\ w.low = w.rows)
    \* ESC 8 before any ESC 7
    /\ "saved" \in Assumed => (Is(c, {"ESC 8"}) => w.sx > 0)
    \* set_attr switches no attribute on
    /\ "attributes" \in Assumed => (Is(c, {"ESC 8"}) => w.sattr = {})
    \* characters of eight bits are kept with all attributes
    /\ "8-bit" \in Assumed => (Is(c, {"char"}) => c.n < EightBit)
    /\ "insert" \in Assumed => (Is(c, {"@"}) => Count(c.n) = 1 /\ BlankFrom(Line(w), w.y))
    /\ "delete" \in Assumed => (Is(c, {"P"}) => BlankFrom(Line(w), w.y + 1))
    /\ "lines" \in Assumed => (Is(c, {"L", "M"}) =>
            \A i \in w.up .. w.low : BlankFrom(w.mem[i], 1))
    /\ "reset" \in Assumed => (Is(c, {"ESC c"}) =>
            w = [ResetWin(w) EXCEPT !.sx = w.sx, !.sy = w.sy])

\* A repaint leaves the terminal with the attributes of the last cell.
PlainScreen(ws) == \A v \in Windows : ws[v].attr = {} /\ ws[v].mem[ws[v].rows][Cols] \subseteq {"char"}
RepaintIsPlain == "plain" \in Assumed => PlainScreen(wins)
\* After the prompt set_attr is to switch the window's attributes on again.
PromptIsPlain == "attributes" \in Assumed => wins[lastwin].attr = {}
\* A window may become smaller than the first line of its region.
RegionFits(ws) == "shrink" \in Assumed => \A v \in Windows : ws[v].up < ws[v].low

------------------------------------------------------------------------------
(* The main loop.                                                           *)

InLoop == mode = "run" /\ writing = "none"

Read(w) ==
    /\ InLoop /\ ok[w] /\ outputs < MaxOutputs
    /\ writing' = w
    /\ term' = SetWin(wins, term, lastwin, w)
    /\ lastwin' = w
    /\ UNCHANGED <<winsize, wins, this, ok, mode, param, misrouted, outputs, commands, resizes>>

\* The handler is called for curwin, whichever window that is by now.
Item(c) ==
    /\ mode = "run" /\ writing # "none" /\ outputs < MaxOutputs
    /\ Careful(wins[lastwin], c)
    /\ LET s == Handled([w |-> wins[lastwin], t |-> term], c)
       IN wins' = [wins EXCEPT ![lastwin] = s.w] /\ term' = s.t
    /\ misrouted' = (misrouted \/ lastwin # writing)
    /\ outputs' = outputs + 1
    /\ UNCHANGED <<winsize, lastwin, this, ok, mode, writing, param, commands, resizes>>

\* Mutant of EndOfRead: the window that was written stays the current one.
EndOfReadThere ==
    /\ mode = "run" /\ writing # "none"
    /\ writing' = "none"
    /\ UNCHANGED <<winsize, term, lastwin, wins, this, ok, mode, param, misrouted, outputs, commands, resizes>>

EndOfRead ==
    /\ mode = "run" /\ writing # "none"
    /\ writing' = "none"
    /\ term' = SetWin(wins, term, lastwin, this)
    /\ lastwin' = this
    /\ UNCHANGED <<winsize, wins, this, ok, mode, param, misrouted, outputs, commands, resizes>>

\* isalive finds that the program of a window has ended.
Dies(w) ==
    /\ InLoop /\ ok[w]
    /\ ok' = [ok EXCEPT ![w] = FALSE]
    /\ this' = IF this = w THEN Other(w) ELSE this
    /\ term' = SetWin(wins, term, lastwin, this')
    /\ lastwin' = this'
    /\ UNCHANGED <<winsize, wins, mode, writing, param, misrouted, outputs, commands, resizes>>

Switch ==
    /\ InLoop
    /\ this' = IF this = "upper" /\ ok["lower"] THEN "lower"
               ELSE IF ok["upper"] THEN "upper" ELSE this
    /\ term' = SetWin(wins, term, lastwin, this')
    /\ lastwin' = this'
    /\ UNCHANGED <<winsize, wins, ok, mode, writing, param, misrouted, outputs, commands, resizes>>

\* vt_prompt, up to its read: the prompt is cut at the last column.
Prompted(t) ==
    LET line == ClrEol(Goto(ResetAttr(SaveCursor(t)), wins["upper"].rows + 1, 0))
    IN [line EXCEPT !.cell[line.x] = [j \in 1 .. Cols |-> IF j <= PromptLength THEN {"char", "bold"} ELSE @[j]],
                    !.attr = {"bold"}, !.y = Between(1, PromptLength + 1, Cols)]
AskCommand ==
    /\ InLoop /\ commands < MaxCommands
    /\ PromptIsPlain
    /\ mode' = "prompt" /\ commands' = commands + 1
    /\ term' = Prompted(term)
    /\ UNCHANGED <<winsize, wins, lastwin, this, ok, writing, param, misrouted, outputs, resizes>>

\* The rest of vt_prompt: the bar is written in the line the cursor is in.
PromptGone(t) == SetAttr([w |-> wins[lastwin], t |-> RestCursor(Bar(CR(ResetAttr(t))))]).t

MoveBar(t, howfar) ==
    LET lines == wins["upper"].rows + howfar
        ws == ResizedBoth(wins, winsize, lines)
    IN /\ RepaintIsPlain /\ RegionFits(ws)
       /\ wins' = ws
       /\ term' = Redraw(ws, t, lastwin)

Toward(sign) == IF this = "upper" THEN sign * Count(param) ELSE -(sign * Count(param))

Answer(key) ==
    /\ mode = "prompt"
    /\ mode' = "run"
    /\ \/ key = "+" /\ MoveBar(PromptGone(term), Toward(1)) /\ param' = 0
       \/ key = "-" /\ MoveBar(PromptGone(term), Toward(-1)) /\ param' = 0
       \/ key \in {"r", "h"} /\ RepaintIsPlain
          /\ term' = Redraw(wins, PromptGone(term), lastwin) /\ UNCHANGED <<wins, param>>
       \/ key = "other" /\ term' = PromptGone(term) /\ UNCHANGED <<wins, param>>
    /\ UNCHANGED <<winsize, lastwin, this, ok, writing, misrouted, outputs, commands, resizes>>

AnswerDigit(d) ==
    /\ mode = "prompt" /\ param = 0
    /\ param' = param * 10 + d
    /\ term' = Prompted(PromptGone(term))
    /\ UNCHANGED <<winsize, wins, lastwin, this, ok, mode, writing, misrouted, outputs, commands, resizes>>

------------------------------------------------------------------------------
(* SIGWINCH, and the end.                                                   *)

Finished(t) == ResetAttr(ClrEol(Goto(WholeScreen(t), t.rows, 1)))

Winch(rows) ==
    /\ mode # "done" /\ resizes < MaxResizes /\ rows # winsize
    /\ "winch" \in Assumed => writing = "none"
    /\ "prompt" \in Assumed => mode = "run"
    /\ resizes' = resizes + 1 /\ winsize' = rows
    /\ IF TallEnough(rows)
       THEN LET ws == ResizedBoth(wins, rows, UserLines)
            IN /\ RepaintIsPlain /\ RegionFits(ws)
               /\ wins' = ws
               /\ term' = SetWin(ws, Redraw(ws, Resize(term, rows), lastwin), lastwin, this)
               /\ lastwin' = this
               /\ UNCHANGED <<mode, writing>>
       ELSE /\ mode' = "done" /\ writing' = "none"
            /\ term' = Finished(Resize(term, rows)) /\ lastwin' = "none"
            /\ UNCHANGED wins
    /\ UNCHANGED <<this, ok, param, misrouted, outputs, commands>>

\* Both programs have ended, or the user or a signal ends splitvt.
Finish ==
    /\ \/ InLoop /\ \A w \in Windows : ~ok[w]
       \/ mode = "prompt"
    /\ mode' = "done" /\ term' = Finished(term) /\ lastwin' = "none"
    /\ UNCHANGED <<winsize, wins, this, ok, writing, param, misrouted, outputs, commands, resizes>>

Next ==
    \/ \E w \in Windows : Read(w) \/ Dies(w)
    \/ \E c \in Inputs : Item(c)
    \/ EndOfRead
    \/ Switch
    \/ AskCommand
    \/ \E k \in Keys : Answer(k)
    \/ \E d \in Digits : AnswerDigit(d)
    \/ \E rows \in Heights : Winch(rows)
    \/ Finish
    \/ mode = "done" /\ UNCHANGED vars

Spec == Init /\ [][Next]_vars

------------------------------------------------------------------------------
(* Properties.                                                              *)

\* The type invariant: the windows' heights and offsets cover the terminal
\* (one line may be left over), and their memory has the windows' size.
TypeOK ==
    /\ \A v \in Windows :
        /\ DOMAIN wins[v].mem = 1 .. wins[v].rows
        /\ \A i \in 1 .. wins[v].rows : wins[v].mem[i] \in [1 .. Cols -> Cells]
        /\ wins[v].tabs \subseteq 1 .. Cols
        /\ wins[v].rows >= 3
    /\ wins["lower"].off = wins["upper"].rows + 1
    /\ mode # "done" => wins["lower"].off + wins["lower"].rows \in {winsize - 1, winsize}
    /\ term.rows = winsize
    /\ lastwin \in Windows \cup {"none"} /\ this \in Windows /\ ok \in [Windows -> BOOLEAN]
    /\ writing \in Windows \cup {"none"} /\ misrouted \in BOOLEAN

\* Between two reads the cursor is where the keyboard goes, and that is a
\* window whose program lives as long as there is one.
KeyboardFollowed ==
    InLoop => /\ lastwin = this
              /\ (\E w \in Windows : ok[w]) => ok[this]

\* vt100.c:2-4: the routines keep track of the position of the cursor: while
\* the main loop runs, the real cursor, the real scrolling region and the
\* real modes are those of the current window, and between two reads this is
\* the window that has the keyboard.
CursorFollowed ==
    /\ KeyboardFollowed
    /\ mode = "run" =>
         LET w == wins[lastwin]
         IN /\ term.x = w.x + w.off
            /\ term.y = IF w.y > Cols THEN Cols ELSE w.y
            /\ term.top = w.up + w.off /\ term.bottom = w.low + w.off
            /\ term.attr = w.attr /\ term.keys = w.keys /\ term.charset = w.charset

\* The terminal shows what the windows hold, each in its own lines, and the
\* bar between them: whatever one program writes, nothing of it lands in the
\* other's lines, and a repaint would change nothing.
ScreenIsMemory ==
    /\ TypeOK
    /\ mode = "run" =>
        /\ \A v \in Windows : \A i \in 1 .. wins[v].rows : term.cell[wins[v].off + i] = wins[v].mem[i]
        /\ term.cell[wins["upper"].rows + 1] = BarRow

\* No write of video memory or tab stops is outside what was allocated, and
\* the region and the cursor that lead the next ones are within the window.
InMemory ==
    \A v \in Windows :
      LET w == wins[v]
      IN /\ ~w.wild
         /\ 1 <= w.up /\ w.up < w.low /\ w.low <= w.rows
         /\ w.x \in 1 .. w.rows /\ w.y >= 1

\* vt100.c:1021: "First set the proper window": what was read from a program
\* goes to the window of this program.
RightWindow == ~misrouted

\* The colour last set for the current window is the one in use.
ColourFollowed == mode = "run" => term.colour = wins[lastwin].colour

\* splitvt.c:515-516: "Shrink the current window", "Expand the current
\* window": - and + do not move the bar the other way.
BarMovesAsAsked ==
    [][LET grown == wins'[this].rows - wins[this].rows
       IN /\ Answer("-") => grown <= 0
          /\ Answer("+") => grown >= 0]_vars
==============================================================================
