------------------------------ MODULE AshInput ------------------------------
(***************************************************************************)
(* The input of ash (input.c) with the aliases (alias.c), as the parser    *)
(* and the commands use them: the buffer of a file, read block by block    *)
(* and handed out line by line; strings pushed back, for aliases and where *)
(* one character of push-back is not enough; eval and dot, which nest; the *)
(* life of an alias while its text is being read.                          *)
(*                                                                         *)
(* Words of one letter are the names of aliases.  "n" is the newline, "0"  *)
(* the NUL character.                                                      *)
(***************************************************************************)
EXTENDS Integers, FiniteSets, SequencesExt, FiniteSetsExt

CONSTANTS
  Letters,       \* letters, and names of aliases
  Files,         \* texts of files: the first input, and what dot reads
  Strings,       \* texts for eval
  Values,        \* values of aliases
  Mark,          \* the end mark of the here documents
  Bufsiz,        \* the largest block that one read returns
  MaxFiles,      \* bound: nested inputs
  MaxAliases,    \* bound: aliases that exist at a time
  MaxCommands    \* bound: commands that change inputs or aliases, and errors

EOF_NLEFT == -99
PEOF == "PEOF"
PFAKE == "PFAKE"
NoChar == "none"

\* What a text is made of.  Only a file can have NUL characters.
Chars == Letters \cup {" ", "n", ";", "\\"}

ASSUME InputConstants ==
  /\ Bufsiz \in Nat \ {0} /\ MaxFiles \in Nat \ {0} /\ MaxAliases \in Nat /\ MaxCommands \in Nat
  /\ Letters \cap {"free", "", "0", " ", "n", ";", "\\", PEOF, PFAKE, NoChar} = {}
  /\ Files \subseteq Seq(Chars \cup {"0"}) /\ Strings \cup Values \subseteq Seq(Chars)
  /\ Mark \in Seq(Chars) /\ Mark # << >>

VARIABLES
  parsefile,     \* the stack of inputs, the current one last
  parsenextc, parsenleft, parselleft,   \* the current place, as in the code
  atab,          \* the aliases
  checkkwd,      \* CHKALIAS in checkkwd: the next word may be an alias
  c,             \* the character got last, while the parser may put it back
  mode,          \* where the parser is, or "run" while a command is executed
  word,          \* the word being read, if it is of one letter so far
  commands       \* bound: commands counted so far

vars == <<parsefile, parsenextc, parsenleft, parselleft, atab, checkkwd, c,
          mode, word, commands>>

AliasIds == 1 .. MaxAliases
NoAlias == [name |-> "free", val |-> << >>, inuse |-> FALSE]

\* A pointer into the buffer of the current file or into some text.
InBuf(i) == [inbuf |-> TRUE, text |-> << >>, at |-> i]
InText(t) == [inbuf |-> FALSE, text |-> t, at |-> 1]

\* struct parsefile.  A string has no buffer; unread is what read has not
\* returned yet.
File(hasbuf, text) ==
  [hasbuf |-> hasbuf, unread |-> text, buf |-> << >>, strpush |-> << >>,
   nextc |-> InBuf(1), nleft |-> 0, lleft |-> 0]

St(n) == [file |-> Last(parsefile), nextc |-> parsenextc, nleft |-> parsenleft,
          lleft |-> parselleft, atab |-> atab, check |-> checkkwd, c |-> c,
          block |-> n]

----------------------------------------------------------------------------
\* Reading.  The operators work on a record s = St(n), where n is how much the
\* next read returns at most.
Text(f, place) == IF place.inbuf THEN f.buf ELSE place.text
Take(s) == [s EXCEPT !.c = Text(s.file, s.nextc)[s.nextc.at], !.nextc.at = @ + 1]

\* A text without its NUL characters.
Readable(text) ==
  LET kept[i \in 0 .. Len(text)] ==
        IF i = 0 THEN << >>
        ELSE IF text[i] = "0" THEN kept[i - 1] ELSE Append(kept[i - 1], text[i])
  IN kept[Len(text)]

EndsInBlank(t) == t # << >> /\ Last(t) = " "

\* popstring, k times: what was pushed last goes first.
popstring(s, k) ==
  LET pushed == s.file.strpush
      n == Len(pushed) - k
      aliases == {pushed[j].ap : j \in n + 1 .. Len(pushed)} \ {0}
  IN IF k = 0 THEN s
     ELSE [s EXCEPT
            !.nextc = pushed[n + 1].prevstring, !.nleft = pushed[n + 1].prevnleft,
            !.lleft = pushed[n + 1].prevlleft, !.file.strpush = SubSeq(pushed, 1, n),
            !.check = @ \/ \E a \in aliases : EndsInBlank(s.atab[a].val),
            !.atab = [a \in AliasIds |-> IF a \in aliases THEN [@[a] EXCEPT !.inuse = FALSE]
                                         ELSE @[a]]]

pushstringLate(s, text, ap) ==
  [(IF ap = 0 THEN s ELSE [s EXCEPT !.atab[ap].inuse = TRUE]) EXCEPT
     !.file.strpush = Append(@, [prevstring |-> s.nextc, prevnleft |-> Len(text),
                                 prevlleft |-> s.lleft, ap |-> ap]),
     !.nextc = InText(text), !.nleft = Len(text)]

pushstring(s, text, ap) ==
  [(IF ap = 0 THEN s ELSE [s EXCEPT !.atab[ap].inuse = TRUE]) EXCEPT
     !.file.strpush = Append(@, [prevstring |-> s.nextc, prevnleft |-> s.nleft,
                                 prevlleft |-> s.lleft, ap |-> ap]),
     !.nextc = InText(text), !.nleft = Len(text)]

preadfdUnbounded(s) ==
  [s EXCEPT !.nextc = InBuf(1), !.file.buf = s.file.unread, !.file.unread = << >>,
            !.lleft = IF s.file.unread = << >> THEN -1 ELSE Len(s.file.unread)]

\* preadfd: one block of the file, or the end.
preadfd(s) ==
  LET nr == Min({s.block, Len(s.file.unread)})
      s1 == [s EXCEPT !.nextc = InBuf(1)]
  IN IF nr = 0 THEN [s1 EXCEPT !.lleft = -1]
     ELSE [s1 EXCEPT !.file.buf = SubSeq(s.file.unread, 1, nr),
                     !.file.unread = SubSeq(@, nr + 1, Len(@)),
                     !.lleft = nr]

\* The end of preadbuffer: the next line of the buffer becomes readable.  NUL
\* characters in it are removed by moving the rest of the line down.
NextLine(s) ==
  LET at == s.nextc.at
      block == SubSeq(s.file.buf, at, at + s.lleft - 1)
      nl == {i \in DOMAIN block : block[i] = "n"}
      taken == IF nl = {} THEN s.lleft ELSE Min(nl)
      kept == Readable(SubSeq(block, 1, taken))
  IN [s EXCEPT
       !.file.buf = [i \in DOMAIN @ |->
                       IF i \in at .. at + Len(kept) - 1 THEN kept[i - at + 1] ELSE @[i]],
       !.nleft = Len(kept) - 1, !.lleft = @ - taken]

\* The loop in preadbuffer, until something is left in a line.
Again(s) ==
  LET s1 == IF s.lleft <= 0 THEN preadfd(s) ELSE s
  IN IF s1.lleft = -1 THEN [s1 EXCEPT !.nleft = EOF_NLEFT, !.lleft = EOF_NLEFT]
     ELSE NextLine(s1)
AgainIfEmpty(s) == IF s.nleft = -1 THEN Again(s) ELSE s

Refill(s) ==
  LET most == Len(s.file.unread) + 1
      turn[k \in 0 .. most] == IF k = 0 THEN Again(s) ELSE AgainIfEmpty(turn[k - 1])
      s1 == turn[most]
  IN IF s.nleft = EOF_NLEFT \/ ~s.file.hasbuf THEN [s EXCEPT !.c = PEOF]
     ELSE IF s1.nleft = EOF_NLEFT THEN [s1 EXCEPT !.c = PEOF]
     ELSE Take(s1)

FakeNever(s) == FALSE

\* The text of an alias is left only when a character behind it is wanted: its
\* last word is still part of it when it is looked up.
FakeWanted(s) == s.nleft = -1 /\ Last(s.file.strpush).ap # 0

\* Strings are popped until something is left of the one below.
preadbuffer(s) ==
  LET n == Len(s.file.strpush)
      popped == [k \in 0 .. n |->
                   IF k = 0 THEN s ELSE [popstring(s, k) EXCEPT !.nleft = @ - 1]]
      s1 == popped[Min({k \in 0 .. n : k = n \/ popped[k].nleft >= 0 \/ FakeWanted(popped[k])})]
  IN IF s1.nleft >= 0 THEN Take(s1)
     ELSE IF s1.file.strpush = << >> THEN Refill(s1)
     ELSE [s1 EXCEPT !.c = PFAKE]

pgetc_macro(s) ==
  LET s1 == [s EXCEPT !.nleft = @ - 1]
  IN IF s1.nleft >= 0 THEN Take(s1) ELSE preadbuffer(s1)

pgetc(s) ==
  LET s1 == pgetc_macro(s) IN IF s1.c = PFAKE THEN pgetc_macro(s1) ELSE s1

pungetc(s) == [s EXCEPT !.nleft = @ + 1, !.nextc.at = @ - 1, !.c = NoChar]

at_eofTop(s) == s.nleft <= 0 /\ (s.nleft = EOF_NLEFT \/ ~s.file.hasbuf)

at_eof(s) ==
  /\ s.nleft <= 0
  /\ \A i \in DOMAIN s.file.strpush : s.file.strpush[i].prevnleft <= 0
  /\ s.nleft = EOF_NLEFT \/ ~s.file.hasbuf

----------------------------------------------------------------------------
\* Aliases.  The entry of one that is being read loses its name only.
Named(s, w) == {a \in AliasIds : s.atab[a].name = w}
lookupalias(s, w) == {a \in Named(s, w) : ~s.atab[a].inuse}

freealiasAlways(ap) == NoAlias

freealias(ap) == IF ap.inuse THEN [ap EXCEPT !.name = ""] ELSE NoAlias
freealiases(s, S) ==
  [s EXCEPT !.atab = [a \in AliasIds |-> IF a \in S THEN freealias(@[a]) ELSE @[a]]]

unalias(s, w) == freealiases(s, Named(s, w))

setalias(s, w, val) ==
  LET s1 == unalias(s, w)
      a == Min({a \in AliasIds : s1.atab[a].name = "free"})
  IN [s1 EXCEPT !.atab[a] = [name |-> w, val |-> val, inuse |-> FALSE]]

countaliases(s) == freealiases(s, Named(s, ""))

----------------------------------------------------------------------------
\* The parser.  Each of its actions reads on from where the last one was.
CurrentBecomes(new) == \E s \in {new} :
  /\ parsefile' = Append(Front(parsefile), s.file)
  /\ parsenextc' = s.nextc /\ parsenleft' = s.nleft /\ parselleft' = s.lleft
  /\ atab' = s.atab /\ checkkwd' = s.check /\ c' = s.c

To(m) == mode' = m /\ word' = NoChar

\* After end-of-command characters a new command begins.
NewCommand(s) == [s EXCEPT !.check = TRUE, !.c = NoChar]

\* xxreadtoken: blanks and the ends of aliases are skipped.
Token ==
  /\ mode = "token"
  /\ \E n \in 1 .. Bufsiz : \E s \in {pgetc_macro(St(n))} :
       CASE s.c \in {" ", PFAKE} -> CurrentBecomes(s) /\ To("token")
         [] s.c = "n" -> CurrentBecomes(s) /\ (To("run") \/ To("heredoc"))
         [] s.c = PEOF -> CurrentBecomes(s) /\ To("eof")
         [] s.c = ";" -> CurrentBecomes(s) /\ To("peek")
         [] s.c = "\\" -> CurrentBecomes(s) /\ To("quote")
         [] OTHER -> CurrentBecomes(s) /\ mode' = "word" /\ word' = s.c
  /\ UNCHANGED commands

\* readtoken1 up to the end of the word, and readtoken, which looks it up.
Word ==
  /\ mode = "word"
  /\ \E n \in 1 .. Bufsiz : \E s \in {pgetc_macro(St(n))} :
       IF s.c \in Letters \cup {"\\"} THEN CurrentBecomes(s) /\ To("word")
       ELSE LET s1 == pungetc(s)
                found == IF s1.check THEN lookupalias(s1, word) ELSE {}
            IN IF found = {} THEN CurrentBecomes([s1 EXCEPT !.check = FALSE]) /\ To("token")
               ELSE \E a \in found :
                      CurrentBecomes(pushstring(s1, s1.atab[a].val, a)) /\ To("token")
  /\ UNCHANGED commands

\* pgetc_linecont after an operator, which may become longer with the next
\* character.
Peek ==
  /\ mode = "peek"
  /\ \E n \in 1 .. Bufsiz : \E s \in {pgetc(St(n))} :
       CASE s.c = ";" -> CurrentBecomes([s EXCEPT !.check = TRUE]) /\ To("token")
         [] s.c = "\\" -> CurrentBecomes(s) /\ To("linecont")
         [] OTHER -> CurrentBecomes(NewCommand(pungetc(s))) /\ To("token")
  /\ UNCHANGED commands

\* A backslash in pgetc_linecont: unless the line goes on, two characters are
\* put back.
LineCont ==
  /\ mode = "linecont"
  /\ \E n \in 1 .. Bufsiz : \E s \in {pgetc(St(n))} :
       IF s.c = "n" THEN CurrentBecomes(s) /\ To("peek")
       ELSE /\ CurrentBecomes(NewCommand(pungetc(pgetc(
                  pushstring(pungetc(s), <<"\\">>, 0)))))
            /\ To("token")
  /\ UNCHANGED commands

\* A backslash between words.
Quote ==
  /\ mode = "quote"
  /\ \E n \in 1 .. Bufsiz : \E s \in {pgetc(St(n))} :
       CASE s.c = "n" -> CurrentBecomes(s) /\ To("token")
         [] s.c = PEOF -> CurrentBecomes(s) /\ To("eof")
         [] OTHER -> CurrentBecomes(s) /\ To("word")
  /\ UNCHANGED commands

\* readheredocs, line by line: the first character, the end mark, the rest.
HereDoc ==
  /\ mode = "heredoc"
  /\ \E n \in 1 .. Bufsiz : \E s \in {pgetc(St(n))} :
       /\ s.c # PEOF
       /\ CurrentBecomes(s)
       /\ To(CASE s.c = Head(Mark) -> "checkend"
             [] s.c = "n" -> "heredoc"
             [] OTHER -> "line")
  /\ UNCHANGED commands

\* Characters are got as long as they are those of the mark: the state then, and
\* the number of the character in the mark that the last one is not.
GoOn(m) ==
  IF m[2] <= Len(Mark) /\ m[1].c = Mark[m[2]] THEN <<pgetc(m[1]), m[2] + 1>> ELSE m

Matched(s) ==
  LET got[k \in 0 .. Len(Mark)] == IF k = 0 THEN <<pgetc(s), 2>> ELSE GoOn(got[k - 1])
  IN got[Len(Mark)]

checkend ==
  /\ mode = "checkend"
  /\ \E n \in 1 .. Bufsiz : \E m \in {Matched(St(n))} :
       IF m[1].c \in {PEOF, "n"} /\ m[2] > Len(Mark)
       THEN CurrentBecomes([m[1] EXCEPT !.c = NoChar]) /\ To("run")
       ELSE /\ CurrentBecomes(pushstring(pungetc(m[1]), SubSeq(Mark, 2, m[2] - 1), 0))
            /\ To("line")
  /\ UNCHANGED commands

Line ==
  /\ mode = "line"
  /\ \E n \in 1 .. Bufsiz : \E s \in {pgetc(St(n))} :
       /\ s.c # PEOF
       /\ CurrentBecomes(s)
       /\ To(IF s.c = "n" THEN "heredoc" ELSE "line")
  /\ UNCHANGED commands

----------------------------------------------------------------------------
\* Commands.
Counted == commands < MaxCommands /\ commands' = commands + 1

\* The next command is read.
Go ==
  /\ mode = "run" /\ To("token")
  /\ CurrentBecomes(NewCommand(St(1)))
  /\ UNCHANGED commands

aliascmd ==
  /\ mode = "run" /\ Counted
  /\ Named(St(1), "free") # {}
  /\ \E w \in Letters, val \in Values : CurrentBecomes(setalias(St(1), w, val))
  /\ UNCHANGED <<mode, word>>

unaliascmd ==
  /\ mode = "run" /\ Counted
  /\ \/ \E w \in Letters : CurrentBecomes(unalias(countaliases(St(1)), w))
     \/ CurrentBecomes(freealiases(St(1), {a \in AliasIds : atab[a].name # "free"}))
  /\ UNCHANGED <<mode, word>>

pushfile ==
  Append(Front(parsefile), [Last(parsefile) EXCEPT
    !.nextc = parsenextc, !.nleft = parsenleft, !.lleft = parselleft])

\* eval: setinputstring.
evalstring ==
  /\ mode = "run" /\ Counted /\ Len(parsefile) < MaxFiles
  /\ \E t \in Strings :
       /\ parsefile' = Append(pushfile, File(FALSE, << >>))
       /\ parsenextc' = InText(t) /\ parsenleft' = Len(t) /\ parselleft' = Len(t)
  /\ checkkwd' = TRUE /\ c' = NoChar /\ To("token") /\ UNCHANGED atab

\* dot: setinputfile.
dotcmd ==
  /\ mode = "run" /\ Counted /\ Len(parsefile) < MaxFiles
  /\ \E t \in Files : parsefile' = Append(pushfile, File(TRUE, t))
  /\ parsenextc' = InBuf(1) /\ parsenleft' = 0 /\ parselleft' = 0
  /\ checkkwd' = TRUE /\ c' = NoChar /\ To("token") /\ UNCHANGED atab

PopTo(k, atab1, check1) ==
  /\ parsefile' = SubSeq(parsefile, 1, k)
  /\ parsenextc' = parsefile[k].nextc
  /\ parsenleft' = parsefile[k].nleft
  /\ parselleft' = parsefile[k].lleft
  /\ atab' = atab1 /\ checkkwd' = check1 /\ c' = NoChar

\* The string or file has ended, or is left by return or break; the strings
\* pushed at its level go with it.
popfile ==
  /\ mode \in {"eof", "run"} /\ Len(parsefile) > 1
  /\ \E s \in {popstring(St(1), Len(Last(parsefile).strpush))} :
       PopTo(Len(parsefile) - 1, s.atab, s.check)
  /\ To("run") /\ UNCHANGED commands

Eof ==
  /\ mode = "eof" /\ Len(parsefile) = 1 /\ To("done")
  /\ UNCHANGED <<parsefile, parsenextc, parsenleft, parselleft, atab, checkkwd, c, commands>>

\* RESET after an error: the counters are cleared, then all inputs but the
\* first are popped, whose counters come back with it.
Reset ==
  /\ IF Len(parsefile) = 1
     THEN CurrentBecomes([NewCommand(St(1)) EXCEPT !.nleft = 0, !.lleft = 0])
     ELSE LET pushed == {sp.ap : sp \in UNION {Range(parsefile[i].strpush) :
                                             i \in 2 .. Len(parsefile)}}
          IN PopTo(1, [a \in AliasIds |-> IF a \in pushed
                          THEN [atab[a] EXCEPT !.inuse = FALSE] ELSE atab[a]], TRUE)
  /\ To("token")

Error == mode \notin {"eof", "done"} /\ Counted /\ Reset

\* The input ends within a here document.
HereDocUnended ==
  /\ mode \in {"heredoc", "line"} /\ pgetc(St(1)).c = PEOF
  /\ Reset /\ UNCHANGED commands

Done == mode = "done" /\ UNCHANGED vars

Init ==
  /\ \E t \in Files : parsefile = <<File(TRUE, t)>>
  /\ parsenextc = InBuf(1) /\ parsenleft = 0 /\ parselleft = 0
  /\ atab = [a \in AliasIds |-> NoAlias]
  /\ checkkwd = TRUE /\ c = NoChar /\ word = NoChar /\ mode = "token"
  /\ commands = 0

Next ==
  \/ Token \/ Word \/ Peek \/ LineCont \/ Quote \/ HereDoc \/ checkend \/ Line
  \/ Go \/ aliascmd \/ unaliascmd \/ evalstring \/ dotcmd \/ popfile \/ Eof
  \/ Error \/ HereDocUnended \/ Done

Spec == Init /\ [][Next]_vars

\* The shell goes on reading until it is done.  (Next is enabled until then:
\* this is weak fairness of Next, in a form that does not need ENABLED.)
FairSpec == Spec /\ ([]<>(mode = "done") \/ []<><<TRUE>>_vars)

----------------------------------------------------------------------------
TypeOK ==
  /\ parsenleft \in Int /\ (parsenleft >= -2 \/ parsenleft \in {EOF_NLEFT, EOF_NLEFT + 1})
  /\ parselleft \in Nat \cup {EOF_NLEFT}
  /\ Len(parsefile) \in 1 .. MaxFiles /\ parsefile[1].hasbuf
  /\ \A i \in DOMAIN parsefile :
       /\ parsefile[i].hasbuf \in BOOLEAN /\ Len(parsefile[i].buf) <= Bufsiz
       /\ \A sp \in Range(parsefile[i].strpush) : sp.ap \in AliasIds \cup {0}
  /\ atab \in [AliasIds -> [name : Letters \cup {"", "free"}, val : Values \cup {<< >>},
                           inuse : BOOLEAN]]
  /\ checkkwd \in BOOLEAN /\ word \in Letters \cup {NoChar} /\ commands \in 0 .. MaxCommands
  /\ mode \in {"token", "word", "peek", "linecont", "quote", "heredoc", "checkend",
               "line", "run", "eof", "done"}

\* An alias is marked in use exactly while its text is on the stack of some
\* input, and is there once; what is being read has not been freed.  So no
\* alias is expanded within itself and none is lost for later use.  (pushstring,
\* popstring, freealias, lookupalias, RESET.)
InUseExact ==
  TypeOK /\
  \A a \in AliasIds :
    LET pushed == UNION {{<<i, j>> : j \in {j \in DOMAIN parsefile[i].strpush :
                                             parsefile[i].strpush[j].ap = a}} :
                         i \in DOMAIN parsefile}
    IN /\ Cardinality(pushed) = IF atab[a].inuse THEN 1 ELSE 0
       /\ atab[a].inuse => atab[a].name # "free"

----------------------------------------------------------------------------
\* What is still to be read, as InputStream sees it.  NUL characters do not
\* count: the comment on pgetc says that they are discarded.
Slice(f, place, len) == SubSeq(Text(f, place), place.at, place.at + len - 1)

\* The place in the file's or string's own text, below what is pushed.
Base(f, place, nleft, lleft) ==
  IF f.strpush = << >> THEN [place |-> place, nleft |-> nleft, lleft |-> lleft]
  ELSE [place |-> f.strpush[1].prevstring, nleft |-> f.strpush[1].prevnleft,
        lleft |-> f.strpush[1].prevlleft]

\* The lines that follow the current one.
Lines(f, base) ==
  IF f.hasbuf
  THEN Slice(f, [base.place EXCEPT !.at = @ + IF base.nleft > 0 THEN base.nleft ELSE 0], base.lleft)
       \o f.unread
  ELSE << >>

\* What was left below each of the strings when it was pushed.
Below(f, base) ==
  LET below[j \in 0 .. Len(f.strpush)] ==
        IF j = 0 THEN Lines(f, base)
        ELSE Slice(f, f.strpush[j].prevstring, f.strpush[j].prevnleft) \o below[j - 1]
  IN below

Pending(f, place, nleft, lleft) ==
  Readable(Slice(f, place, nleft) \o Below(f, Base(f, place, nleft, lleft))[Len(f.strpush)])

PendingAt(i) ==
  LET f == parsefile[i]
  IN IF i = Len(parsefile) THEN Pending(f, parsenextc, parsenleft, parselleft)
     ELSE Pending(f, f.nextc, f.nleft, f.lleft)

\* evalstring executes the last command without a fork when at_eof says that
\* nothing follows: for a string that must be exactly right, for a file it
\* must not be said too early.
AtEofExact ==
  mode = "run" =>
    LET empty == PendingAt(Len(parsefile)) = << >>
    IN /\ at_eof(St(1)) => empty
       /\ empty /\ ~Last(parsefile).hasbuf => at_eof(St(1))

Levels == [i \in DOMAIN parsefile |-> PendingAt(i)]
Latest == IF c \in {PEOF, PFAKE} THEN NoChar ELSE c
Readables == {Readable(t) : t \in Values \cup Strings \cup Files}

Stream == INSTANCE InputStream WITH Texts <- Readables, levels <- Levels, last <- Latest

\* However reads cut the input into blocks, whatever is pushed, popped, nested
\* or put back, and wherever an alias ends, the parser gets each character once
\* and in order.  (preadbuffer, pushstring, popstring, pushfile, popfile.)
ImplementsStream == Stream!Spec

\* "clear input buffer": after an error the parser goes on with what has not
\* been read from the first input.
ErrorClearsInput == [][Error => PendingAt(1)' = parsefile'[1].unread]_vars

\* Aliases that name each other do not keep the parser from getting to the end
\* of its input.  (PFAKE, ALIASINUSE.)
ReadingEnds == <>(mode = "done")
=============================================================================
