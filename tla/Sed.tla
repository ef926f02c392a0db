--------------------------------- MODULE Sed ---------------------------------
(***************************************************************************)
(* The stream editor minised at work (sed/sedexec.c, and the loop over the *)
(* files in sed/sedcomp.c): the cycle that reads a line, runs the selected *)
(* commands on it and prints it; ranges of lines; the hold space; the text *)
(* queued by a and r; n and N, which read on their own and wait for the    *)
(* next file when the current one ends.                                    *)
(*                                                                         *)
(* A line is a sequence of characters, "n" the newline.  A regular         *)
(* expression is in its compiled form (SedMatch).  What lies beyond a      *)
(* buffer is not modelled: mode "overrun" stands for a program that has    *)
(* left one.                                                               *)
(***************************************************************************)
EXTENDS Integers, FiniteSetsExt, SedScript, SedMatch

CONSTANTS
  Scripts,     \* scripts, as sequences of tokens
  Inputs,      \* sequences of files
  Quiet,       \* the values of -n to consider
  MAXBUF,      \* size of the line buffer and of the hold space
  MAXAPPENDS   \* size of the queue of a and r commands

ASSUME SedConstants == MAXBUF \in Nat \ {0} /\ MAXAPPENDS \in Nat \ {0} /\ Quiet \subseteq BOOLEAN

VARIABLES
  tokens, cmds,      \* the script and what it is compiled to
  nflag,             \* -n
  files, input,      \* the files not opened yet, the rest of the current one
  linebuf, holdsp,   \* pattern space and hold space
  ipc,               \* number of the command to look at
  pending,           \* number of an n or N that found the end of its file
  inrange,           \* the commands whose range is open
  appends,           \* the queue of a and r commands
  didsub,            \* the last s succeeded
  delete,            \* the rest of the cycle is skipped
  lnum, lastline,    \* line number, and whether it is known to be the last
  mode,              \* "open", "read", "select", "command", "end", "done", "overrun"
  out,               \* history: what was printed, see Flush
  held, dropped,     \* history: lines in the pattern space, lines deleted
  again,             \* history: an n or N was begun in one file and ended in another
  fresh,             \* history: an s succeeded since the last line, t or T
  seen,              \* history: per command, the lines it was looked at for
  parts              \* history: what the last s left of its line

data == <<linebuf, holdsp, input, lnum, lastline>>
history == <<out, held, dropped, again, fresh, seen, parts>>
vars == <<tokens, cmds, nflag, files, ipc, pending, inrange, appends, didsub, delete, mode,
          data, history>>

NL == "n"

\* A printed pattern space stands for the lines in it; a text that was queued
\* for the line it was queued for and the line it was printed for.
Space == [what |-> "space", lines |-> held]
Queued(e) == [what |-> "text", lines |-> <<e.line, lnum>>, number |-> e.number]
Readout == [i \in DOMAIN appends |-> Queued(appends[i])]

\* The line is printed if show is TRUE, then everything that is queued.
FlushLate(show) ==
  /\ out' = out \o (IF show THEN <<Space>> ELSE << >>)
            \o (IF mode = "command" THEN << >> ELSE Readout)
  /\ appends' = IF mode = "command" THEN appends ELSE << >>

Flush(show) ==
  /\ out' = out \o (IF show THEN <<Space>> ELSE << >>) \o Readout
  /\ appends' = << >>

----------------------------------------------------------------------------
\* sed_getline: at most room - 1 characters, up to a newline, which is cut off.
LineEnd == IF Contains(input, NL) THEN Min({i \in DOMAIN input : input[i] = NL}) ELSE Len(input)
Taken(room) == Min({LineEnd, room - 1})
GotLine(room) == SelectSeq(SubSeq(input, 1, Taken(room)), LAMBDA c : c # NL)

UsesLast == \E i \in DOMAIN cmds : "last" \in {cmds[i].a1.kind, cmds[i].a2.kind}

GetLine(room) ==
  LET rest == SubSeq(input, Taken(room) + 1, Len(input)) IN
  /\ input' = rest
  /\ lnum' = lnum + 1
  /\ lastline' = (lastline \/ (UsesLast /\ rest = << >> /\ files = << >>))
  /\ fresh' = FALSE /\ UNCHANGED parts

\* An address looked at by the code, as a condition on the current state.
Matches(a) ==
  CASE a.kind = "last" -> lastline
    [] a.kind = "line" -> lnum = a.value
    [] a.kind = "re" -> match(linebuf, a.value).ok

EndsRangeExactly(a) == a.kind # "last" /\ Matches(a)

EndsRange(a) ==
  CASE a.kind = "last" -> FALSE
    [] a.kind = "line" -> lnum >= a.value
    [] a.kind = "re" -> match(linebuf, a.value).ok

\* The function selected, for command c: is the line selected, and is the
\* command in its range afterwards?
Selected(c, i) ==
  IF i \in inrange
    THEN [chosen |-> TRUE, range |-> ~EndsRange(c.a2)]
    ELSE [chosen |-> Matches(c.a1),
          range |-> Matches(c.a1) /\ c.a1.kind # "last" /\ c.a2 # NoAddress]

\* The same addresses as the manual explains them.
NoMoreInput == \A f \in {input} \cup Range(files) : f = << >>
MatchesTruly(a) ==
  CASE a.kind = "none" -> FALSE
    [] a.kind = "last" -> NoMoreInput
    [] a.kind = "line" -> lnum = a.value
    [] a.kind = "re" -> Means(linebuf, a.value)
Look(c, chosen) ==
  [line |-> lnum, first |-> MatchesTruly(c.a1), second |-> MatchesTruly(c.a2), chosen |-> chosen]

----------------------------------------------------------------------------
Init ==
  /\ tokens \in Scripts /\ nflag \in Quiet /\ files \in Inputs
  /\ cmds = Compile(tokens).cmds
  /\ mode = IF Compile(tokens).ok THEN "open" ELSE "done"
  /\ input = << >> /\ linebuf = << >> /\ holdsp = << >>
  /\ ipc = 1 /\ pending = 0 /\ inrange = {} /\ appends = << >>
  /\ didsub = FALSE /\ delete = FALSE /\ lnum = 0 /\ lastline = FALSE
  /\ out = << >> /\ held = << >> /\ dropped = {} /\ again = FALSE /\ fresh = FALSE
  /\ seen = [i \in DOMAIN cmds |-> << >>] /\ parts = [at |-> 0, left |-> << >>]

\* execute begins with a file; a command that waits for it goes first.
Open ==
  /\ mode = "open" /\ files # << >>
  /\ files' = Tail(files) /\ input' = Head(files)
  /\ pending' = 0
  /\ IF pending # 0 THEN mode' = "command" /\ ipc' = pending ELSE mode' = "read" /\ UNCHANGED ipc
  /\ again' = (again \/ pending # 0)
  /\ UNCHANGED <<tokens, cmds, nflag, inrange, appends, didsub, delete, linebuf, holdsp, lnum,
                 lastline, out, held, dropped, fresh, seen, parts>>

NoMoreFiles ==
  /\ mode = "open" /\ files = << >>
  /\ mode' = "done"
  /\ UNCHANGED <<tokens, cmds, nflag, files, ipc, pending, inrange, appends, didsub, delete,
                 data, history>>

\* The main loop reads the next line of the file, or is done with it.
Read ==
  /\ mode = "read"
  /\ IF input = << >>
       THEN mode' = "open" /\ UNCHANGED <<ipc, data, held, fresh, parts>>
       ELSE /\ GetLine(MAXBUF + 1) /\ linebuf' = GotLine(MAXBUF + 1)
            /\ held' = <<lnum + 1>>
            /\ mode' = "select" /\ ipc' = 1
            /\ UNCHANGED holdsp
  /\ UNCHANGED <<tokens, cmds, nflag, files, pending, inrange, appends, didsub, delete, out,
                 dropped, again, seen>>

\* The loop over the commands asks whether the next one is selected.
Select ==
  /\ mode = "select" /\ ipc \in DOMAIN cmds
  /\ LET c == cmds[ipc]
         s == Selected(c, ipc)
     IN IF c.a1 = NoAddress
          THEN /\ IF c.not THEN ipc' = ipc + 1 /\ UNCHANGED mode
                  ELSE mode' = "command" /\ UNCHANGED ipc
               /\ UNCHANGED <<inrange, seen>>
          ELSE /\ inrange' = IF s.range THEN inrange \cup {ipc} ELSE inrange \ {ipc}
               /\ seen' = [seen EXCEPT ![ipc] = Append(@, Look(c, s.chosen))]
               /\ IF s.chosen # c.not THEN mode' = "command" /\ UNCHANGED ipc
                  ELSE ipc' = ipc + 1 /\ UNCHANGED mode
  /\ UNCHANGED <<tokens, cmds, nflag, files, pending, appends, didsub, delete, data, out, held,
                 dropped, again, fresh, parts>>

\* The end of the cycle: the line is printed, then what was queued for it.
EndCycle ==
  /\ \/ mode = "end"
     \/ mode = "select" /\ ipc \notin DOMAIN cmds
  /\ Flush(~nflag /\ ~delete)
  /\ delete' = FALSE
  /\ dropped' = IF delete /\ pending = 0 THEN dropped \cup Range(held) ELSE dropped
  /\ mode' = "read"
  /\ UNCHANGED <<tokens, cmds, nflag, files, ipc, pending, inrange, didsub, data, held, again,
                 fresh, seen, parts>>

----------------------------------------------------------------------------
\* The commands.
Do(op) == mode = "command" /\ cmds[ipc].op \in op
Continue == ipc' = ipc + 1 /\ mode' = "select"
Jump == IF cmds[ipc].link = 0 THEN mode' = "end" /\ UNCHANGED ipc
                              ELSE mode' = "select" /\ ipc' = cmds[ipc].link
StopCycleShown == delete' = FALSE /\ mode' = "end" /\ UNCHANGED ipc
StopCycle == delete' = TRUE /\ mode' = "end" /\ UNCHANGED ipc

\* What no command changes.
Frame == UNCHANGED <<tokens, cmds, nflag, files, inrange, seen>>
NoRead == UNCHANGED <<input, lnum, lastline, fresh, parts>>

\* a and r: the queue ends in a null pointer, for which there must be room.
QueueText ==
  /\ Do({"a", "r"})
  /\ IF Len(appends) + 1 < MAXAPPENDS
       THEN /\ appends' = Append(appends, [number |-> ipc, line |-> lnum])
            /\ Continue
       ELSE mode' = "overrun" /\ UNCHANGED <<appends, ipc>>
  /\ Frame /\ NoRead
  /\ UNCHANGED <<pending, didsub, delete, linebuf, holdsp, out, held, dropped, again>>

\* c prints its text outside of a range and at its end.
Change ==
  /\ Do({"c"})
  /\ out' = IF ipc \notin inrange \/ lastline
              THEN Append(out, [what |-> "change", lines |-> held]) ELSE out
  /\ StopCycle
  /\ Frame /\ NoRead
  /\ UNCHANGED <<pending, appends, didsub, linebuf, holdsp, held, dropped, again>>

Delete ==
  /\ Do({"d"})
  /\ StopCycle
  /\ Frame /\ NoRead
  /\ UNCHANGED <<pending, appends, didsub, linebuf, holdsp, out, held, dropped, again>>

\* D starts the script again with what follows the first newline, or is d.
AfterNewlineWith(s) == SubSeq(s, Min({i \in DOMAIN s : s[i] = NL}), Len(s))

AfterNewline(s) == SubSeq(s, Min({i \in DOMAIN s : s[i] = NL}) + 1, Len(s))

DeleteFirst ==
  /\ Do({"D"})
  /\ IF Contains(linebuf, NL)
       THEN /\ linebuf' = AfterNewline(linebuf)
            /\ Jump
            /\ held' = IF Len(held) > 1 THEN Tail(held) ELSE held
            /\ dropped' = IF Len(held) > 1 THEN dropped \cup {Head(held)} ELSE dropped
            /\ UNCHANGED delete
       ELSE StopCycle /\ UNCHANGED <<linebuf, held, dropped>>
  /\ Frame /\ NoRead
  /\ UNCHANGED <<pending, appends, didsub, holdsp, out, again>>

\* g, G, h, H and x.  A copy that does not fit is cut off by G and H, which
\* leaves room for no more than the terminating null; h and x do not look.
CutLate(s) == SubSeq(s, 1, Min({Len(s), MAXBUF + 1}))
Cut(s) == SubSeq(s, 1, Min({Len(s), MAXBUF}))

Get ==
  /\ Do({"g", "G"})
  /\ linebuf' = IF cmds[ipc].op = "g" THEN holdsp ELSE Cut(linebuf \o <<NL>> \o holdsp)
  /\ Continue
  /\ Frame /\ NoRead
  /\ UNCHANGED <<pending, appends, didsub, delete, holdsp, out, held, dropped, again>>

Hold ==
  /\ Do({"h", "H", "x"})
  /\ LET new == IF cmds[ipc].op = "H" THEN Cut(holdsp \o <<NL>> \o linebuf) ELSE linebuf IN
     IF Len(new) < MAXBUF
       THEN /\ holdsp' = new
            /\ linebuf' = IF cmds[ipc].op = "x" THEN holdsp ELSE linebuf
            /\ Continue
       ELSE mode' = "overrun" /\ UNCHANGED <<holdsp, linebuf, ipc>>
  /\ Frame /\ NoRead
  /\ UNCHANGED <<pending, appends, didsub, delete, out, held, dropped, again>>

\* b, and "{" compiled to it.
BranchAway ==
  /\ Do({"b"})
  /\ Jump
  /\ Frame /\ NoRead
  /\ UNCHANGED <<pending, appends, didsub, delete, linebuf, holdsp, out, held, dropped, again>>

Test ==
  /\ Do({"t", "T"})
  /\ IF didsub = (cmds[ipc].op = "T")
       THEN Continue /\ UNCHANGED <<didsub, fresh>>
       ELSE Jump /\ didsub' = FALSE /\ fresh' = FALSE
  /\ Frame
  /\ UNCHANGED <<pending, appends, delete, data, out, held, dropped, again, parts>>

\* n prints the line and the queue and reads the next line, N appends it.  At
\* the end of the file both wait for the next file and give the line up.
NextLine ==
  /\ Do({"n"})
  /\ Flush(~nflag)
  /\ IF input = << >>
       THEN /\ pending' = ipc /\ StopCycle
            /\ NoRead /\ UNCHANGED <<linebuf, held>>
       ELSE /\ GetLine(MAXBUF + 1) /\ linebuf' = GotLine(MAXBUF + 1)
            /\ held' = <<lnum + 1>>
            /\ Continue /\ UNCHANGED <<pending, delete>>
  /\ Frame
  /\ UNCHANGED <<didsub, holdsp, dropped, again>>

AppendLine ==
  /\ Do({"N"})
  /\ Flush(FALSE)
  /\ LET room == MAXBUF - Len(linebuf) IN
     CASE room < 2 -> mode' = "overrun" /\ NoRead /\ UNCHANGED <<linebuf, held, pending, delete, ipc>>
       [] room >= 2 /\ input = << >> ->
            /\ linebuf' = Append(linebuf, NL)
            /\ pending' = ipc /\ StopCycle
            /\ NoRead /\ UNCHANGED held
       [] OTHER ->
            /\ GetLine(room)
            /\ linebuf' = linebuf \o <<NL>> \o GotLine(room)
            /\ held' = Append(held, lnum + 1)
            /\ Continue /\ UNCHANGED <<pending, delete>>
  /\ Frame
  /\ UNCHANGED <<didsub, holdsp, dropped, again>>

\* p, P, i, =, l, L, w and W print and change nothing.
PrintOnly ==
  /\ Do({"p", "P", "i", "=", "l", "L", "w", "W"})
  /\ Continue
  /\ Frame /\ NoRead
  /\ UNCHANGED <<pending, appends, didsub, delete, linebuf, holdsp, out, held, dropped, again>>

Quit ==
  /\ Do({"q"})
  /\ Flush(~nflag)
  /\ mode' = "done"
  /\ Frame /\ NoRead
  /\ UNCHANGED <<ipc, pending, didsub, delete, linebuf, holdsp, held, dropped, again>>

\* s replaces a match, the nth one if it has a number, or with g that one and
\* the others behind it.  A match is taken to have at least one character;
\* parts are the stretches of the line before, between and behind the matches.
RECURSIVE Nth(_, _, _, _), Rest(_, _, _)
Nth(s, arg, m, n) ==
  IF n >= arg.nth \/ ~m.ok THEN m ELSE Nth(s, arg, matchAgain(s, arg.re, m.loc2), n + 1)

Rest(s, arg, m) ==
  LET next == matchAgain(s, arg.re, m.loc2) IN
  IF arg.all /\ m.loc2 < Len(s) /\ next.ok
    THEN <<SubSeq(s, m.loc2 + 1, next.loc1)>> \o Rest(s, arg, next)
    ELSE <<SubSeq(s, m.loc2 + 1, Len(s))>>

Parts(s, arg) ==
  LET m == Nth(s, arg, match(s, arg.re), 1) IN
  IF m.ok THEN <<SubSeq(s, 1, m.loc1)>> \o Rest(s, arg, m) ELSE <<s>>

Joined(ps, by) == FoldLeft(LAMBDA done, p : done \o by \o p, Head(ps), Tail(ps))

Substitute ==
  /\ Do({"s"})
  /\ LET arg == cmds[ipc].arg
         ps == Parts(linebuf, arg)
         new == Joined(ps, arg.by)
     IN IF Len(ps) > 1 /\ Len(new) >= MAXBUF
          THEN mode' = "overrun" /\ UNCHANGED <<linebuf, didsub, fresh, ipc>>
          ELSE /\ linebuf' = new
               /\ didsub' = match(linebuf, arg.re).ok
               /\ fresh' = (fresh \/ Len(ps) > 1)
               /\ Continue
  /\ parts' = [at |-> ipc, left |-> Parts(linebuf, cmds[ipc].arg)]
  /\ Frame
  /\ UNCHANGED <<pending, appends, delete, holdsp, input, lnum, lastline, out, held, dropped, again>>

\* y maps each character to one.
Transliterate ==
  /\ Do({"y"})
  /\ linebuf' = [i \in DOMAIN linebuf |-> IF linebuf[i] = cmds[ipc].arg.char
                                            THEN cmds[ipc].arg.by[1] ELSE linebuf[i]]
  /\ Continue
  /\ Frame /\ NoRead
  /\ UNCHANGED <<pending, appends, didsub, delete, holdsp, out, held, dropped, again>>

Stopped == mode \in {"done", "overrun"} /\ UNCHANGED vars

Next ==
  \/ Open \/ NoMoreFiles \/ Read \/ Select \/ EndCycle
  \/ QueueText \/ Change \/ Delete \/ DeleteFirst \/ Get \/ Hold \/ BranchAway \/ Test
  \/ NextLine \/ AppendLine \/ PrintOnly \/ Quit \/ Substitute \/ Transliterate
  \/ Stopped

Spec == Init /\ [][Next]_vars

\* The editor is one process that goes on until it is done: WF_vars(Next),
\* written without ENABLED, since Next is enabled until then.
FairSpec == Spec /\ ([]<>(mode \in {"done", "overrun"}) \/ []<><<TRUE>>_vars)

----------------------------------------------------------------------------
\* Properties.

Modes == {"open", "read", "select", "command", "end", "done", "overrun"}

\* The buffers keep within their sizes, with room for the null at their end,
\* and what waits or is in its range is a command of the script.
TypeOK ==
  /\ mode \in Modes /\ didsub \in BOOLEAN /\ delete \in BOOLEAN /\ lnum \in Nat
  /\ Len(linebuf) <= MAXBUF + (IF pending # 0 THEN 1 ELSE 0) /\ Len(holdsp) < MAXBUF
  /\ Len(appends) < MAXAPPENDS
  /\ pending \in DOMAIN cmds \cup {0} /\ inrange \subseteq DOMAIN cmds

\* The command that a place in the script stands for.
IsCommand(t) == t.op \notin {"}", ":"}
CommandAt(n) == 1 + Len(SelectSeq(SubSeq(tokens, 1, n - 1), IsCommand))
Depth(n, m) == Len(SelectSeq(SubSeq(tokens, n, m), LAMBDA t : t.op = "{"))
               - Len(SelectSeq(SubSeq(tokens, n, m), LAMBDA t : t.op = "}"))
GroupEnd(n) == Min({m \in n .. Len(tokens) : Depth(n, m) = 0})
Target(n) ==
  LET t == tokens[n]
      place == {m \in DOMAIN tokens : tokens[m].op = ":" /\ tokens[m].arg = t.arg}
  IN CASE t.op = "{" -> CommandAt(GroupEnd(n))
       [] t.op \in Branches /\ t.arg = NoLabel -> Len(cmds) + 1
       [] t.op \in Branches /\ t.arg # NoLabel -> CommandAt(CHOOSE m \in place : TRUE)

\* Chaining references through the commands and resolving them at the end
\* gives each group and each branch the place it names: a group that is not
\* selected goes on behind its own brace, a branch goes to its own label,
\* however labels and references are mixed, and a branch without a label to
\* the end of the script.
LinksRight ==
  /\ TypeOK
  /\ Compile(tokens).ok =>
       \A n \in DOMAIN tokens :
         tokens[n].op \in Branches \cup {"{"} => cmds[CommandAt(n)].link = Target(n)

\* Text that a or r queues for a line is printed while that line is the
\* current one, before another line is read in whatever way (the next cycle, n
\* or N), each text once, in the order of the commands, and also if the editor
\* ends by q or the line is deleted.
TextWithItsLine ==
  /\ \A k \in DOMAIN out : out[k].what = "text" => out[k].lines[1] = out[k].lines[2]
  /\ \A k \in DOMAIN appends : appends[k].line = lnum
  /\ mode = "done" => appends = << >>

Shown(n) == {k \in DOMAIN out : out[k].what = "space" /\ Contains(out[k].lines, n)}
Unfinished == IF pending # 0 /\ cmds[pending].op = "N" THEN Range(held) ELSE {}

\* Without -n each line that was read is printed in a pattern space exactly
\* once, unless it was deleted, whichever of the cycle, n and q prints it, and
\* whether N joined it or D took it apart; only lines that an N at the end of
\* the input keeps waiting for more are neither.  (Files that an n or N spans
\* are what OnceAcrossFiles is about.)
EachLineOnce ==
  (mode = "done" /\ ~nflag /\ ~again) =>
    \A n \in 1 .. lnum :
      Cardinality(Shown(n)) = IF n \in dropped \cup Unfinished THEN 0 ELSE 1

\* No line and no text is lost, shown twice or shown at another place, whichever
\* commands read, print, join and delete lines on the way.
LinesAndTexts == TextWithItsLine /\ EachLineOnce

\* What the manual says of a command that is looked at for some lines: a range
\* starts at a line the first address matches and ends at the next line the
\* second one matches; it is one line if the second address is a number not
\* after its first line.
Documented(i) ==
  LET c == cmds[i]
      s == seen[i]
      open[k \in 0 .. Len(s)] ==
        IF k = 0 \/ c.a2 = NoAddress THEN FALSE
        ELSE IF open[k - 1] THEN ~(IF c.a2.kind = "line" THEN s[k].line >= c.a2.value ELSE s[k].second)
        ELSE s[k].first /\ (c.a2.kind = "line" => s[k].line < c.a2.value)
  IN [k \in DOMAIN s |-> open[k - 1] \/ s[k].first]

\* For every line a command is looked at, the flag kept in the command and the
\* line number give the answer the manual gives, also when lines in between
\* were swallowed by n and N or branched around.
AddressesAsDocumented ==
  \A i \in DOMAIN seen : \A k \in DOMAIN seen[i] : seen[i][k].chosen = Documented(i)[k]

\* s with g leaves no match: nothing between two replacements and nothing
\* behind the last one matches (minised.1: "for all nonoverlapping instances").
NoneLeft ==
  (parts.at # 0 /\ cmds[parts.at].arg.all /\ Len(parts.left) > 1) =>
    \A k \in 2 .. Len(parts.left) : ~Means(parts.left[k], cmds[parts.at].arg.re)

\* A command s that reports success has replaced something (minised.1: "if a
\* replacement is made").
SuccessIsReplaced ==
  (parts.at # 0 /\ ipc = parts.at + 1 /\ mode = "select" /\ didsub) => Len(parts.left) > 1

\* The editor comes to its end: a D with lines left, a loop of t, and an n or N
\* that waits for another file use up what they work on.
SedEnds == <>(mode \in {"done", "overrun"})

\* t and T go by "any substitutes made since the most recent read of an input
\* line or execution of a t or T" (minised.1).
TestIsRecent == mode = "command" /\ cmds[ipc].op \in {"t", "T"} => didsub = fresh

\* n copies the line to the output once, N puts one newline between two lines
\* (minised.1), also when the next line is in the next file.
OnceAcrossFiles == \A n \in 1 .. lnum : Cardinality(Shown(n)) <= 1

\* With two addresses c prints its text at the end of the range (minised.1).
ChangeShown ==
  mode = "done" =>
    ((\E i \in DOMAIN cmds : cmds[i].op = "c" /\ seen[i] # << >> /\ Last(seen[i]).chosen)
       => \E k \in DOMAIN out : out[k].what = "change")

\* No buffer and no queue is left.
NoOverrun == mode # "overrun"
=============================================================================
