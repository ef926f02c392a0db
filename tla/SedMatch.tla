------------------------------ MODULE SedMatch ------------------------------
(***************************************************************************)
(* The matcher of minised (advance, _match and match in sed/sedexec.c) on  *)
(* compiled regular expressions, and beside it what such an expression     *)
(* means.  A text is a sequence of characters, a place in it the number of *)
(* characters before it.  An expression is a record of                     *)
(*     bol     it begins with ^                                            *)
(*     elems   its elements in order, each with kind and star:             *)
(*       "char", "dot", "set"   one character of chars ("dot": any)        *)
(*       "eol"                  the end of the text                        *)
(*       "open", "close"        \( and \), of the group with number tag    *)
(*       "back"                 what the group with number tag matched     *)
(***************************************************************************)
EXTENDS Naturals, Sequences, FiniteSetsExt, SequencesExt

Singles == {"char", "dot", "set"}
Fits(el, c) == el.kind = "dot" \/ c \in el.chars

\* How many characters from place i on fit the element.
Run(s, i, el) == Max({n \in 0 .. Len(s) - i : \A k \in 1 .. n : Fits(el, s[i + k])})

\* The end of a starred group is taken to be the first one that comes.
Closing(re, e) == Min({k \in e .. Len(re) : re[k].kind = "close"})

Fail == [ok |-> FALSE, at |-> 0, tags |-> << >>]
Found(at, tags) == [ok |-> TRUE, at |-> at, tags |-> tags]

\* advance: match the elements from number e on at place lp; tags has the
\* places where the groups begin and end; locs is where a repeated search
\* began, or -1.  A starred element takes as much as it can and gives back
\* one character at a time, but never all of them at locs.
RECURSIVE advance(_, _, _, _, _, _), Repeat(_, _, _, _, _, _)

\* \(...\)*: match the group as often as it goes on; it is what it matched last.
Repeat(s, re, tag, lp, tags, locs) ==
  LET once == advance(s, re, 1, lp, tags, locs) IN
  IF once.ok /\ once.at # lp
    THEN Repeat(s, re, tag, once.at, [once.tags EXCEPT ![tag] = <<lp, once.at>>], locs)
    ELSE Found(lp, tags)

\* The last of the places from low to high where the rest matches.
GiveBack(s, re, e, low, high, tags, locs) ==
  LET tried == [lp \in low .. high |-> advance(s, re, e, lp, tags, locs)]
      good == {lp \in low .. high : lp # locs /\ tried[lp].ok}
  IN IF high = low THEN tried[low] ELSE IF good = {} THEN Fail ELSE tried[Max(good)]

advance(s, re, e, lp, tags, locs) ==
  IF e > Len(re) THEN Found(lp, tags) ELSE
  LET el == re[e] IN
  CASE el.kind \in Singles /\ ~el.star ->
         IF lp < Len(s) /\ Fits(el, s[lp + 1]) THEN advance(s, re, e + 1, lp + 1, tags, locs) ELSE Fail
    [] el.kind \in Singles /\ el.star ->
         GiveBack(s, re, e + 1, lp, lp + Run(s, lp, el), tags, locs)
    [] el.kind = "eol" ->
         IF lp = Len(s) THEN advance(s, re, e + 1, lp, tags, locs) ELSE Fail
    [] el.kind = "open" /\ ~el.star ->
         advance(s, re, e + 1, lp, [tags EXCEPT ![el.tag] = <<lp, lp>>], locs)
    [] el.kind = "open" /\ el.star ->
         LET close == Closing(re, e)
             most == Repeat(s, SubSeq(re, e + 1, close - 1), el.tag, lp,
                            [tags EXCEPT ![el.tag] = <<lp, lp>>], locs)
         IN GiveBack(s, re, close + 1, lp, most.at, most.tags, locs)
    [] el.kind = "close" ->
         advance(s, re, e + 1, lp, [tags EXCEPT ![el.tag][2] = lp], locs)
    [] el.kind = "back" ->
         LET text == SubSeq(s, tags[el.tag][1] + 1, tags[el.tag][2])
             next == lp + Len(text)
         IN IF next <= Len(s) /\ SubSeq(s, lp + 1, next) = text
              THEN advance(s, re, e + 1, next, tags, locs) ELSE Fail

NoTags == [k \in 1 .. 9 |-> <<0, 0>>]

\* match: the first place where the expression matches, from the beginning or,
\* when a search is repeated, from where the last match ended.
MatchFrom(s, re, from, locs) ==
  LET tried == [p \in from .. Len(s) |-> advance(s, re.elems, 1, p, NoTags, locs)]
      places == {p \in (IF re.bol THEN {0} ELSE from .. Len(s)) : tried[p].ok}
  IN IF places = {} THEN [ok |-> FALSE, loc1 |-> 0, loc2 |-> 0]
     ELSE [ok |-> TRUE, loc1 |-> Min(places), loc2 |-> tried[Min(places)].at]

match(s, re) == MatchFrom(s, re, 0, -1)
matchAgainLate(s, re, loc2) == MatchFrom(s, re, Min({loc2 + 1, Len(s)}), loc2)
matchAgain(s, re, loc2) ==
  IF re.bol THEN [ok |-> FALSE, loc1 |-> 0, loc2 |-> 0] ELSE MatchFrom(s, re, loc2, loc2)

----------------------------------------------------------------------------
\* What an expression without references to groups means: the places where it
\* can end if it begins at one of a set of places.
RECURSIVE Ends(_, _, _, _), Often(_, _, _)

Often(s, re, places) ==
  LET more == places \cup Ends(s, re, 1, places) IN
  IF more = places THEN places ELSE Often(s, re, more)

Ends(s, re, e, places) ==
  IF e > Len(re) THEN places ELSE
  LET el == re[e]
      one(ps) == {p + 1 : p \in {q \in ps : q < Len(s) /\ Fits(el, s[q + 1])}}
  IN CASE el.kind \in Singles /\ ~el.star -> Ends(s, re, e + 1, one(places))
       [] el.kind \in Singles /\ el.star ->
            Ends(s, re, e + 1, Often(s, <<[el EXCEPT !.star = FALSE]>>, places))
       [] el.kind = "eol" -> Ends(s, re, e + 1, places \cap {Len(s)})
       [] el.kind = "open" /\ el.star ->
            Ends(s, re, Closing(re, e) + 1,
                 Often(s, SubSeq(re, e + 1, Closing(re, e) - 1), places))
       [] OTHER -> Ends(s, re, e + 1, places)

Means(s, re) == Ends(s, re.elems, 1, IF re.bol THEN {0} ELSE 0 .. Len(s)) # {}
=============================================================================
