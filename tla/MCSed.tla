-------------------------------- MODULE MCSed --------------------------------
(***************************************************************************)
(* Values for Sed: scripts of a few commands put together in every order,  *)
(* scripts with labels and groups, and inputs of one and two files.        *)
(***************************************************************************)
EXTENDS Sed

Line(n) == [kind |-> "line", value |-> n]
El(kind, chars, star, tag) == [kind |-> kind, chars |-> chars, star |-> star, tag |-> tag]
Char(c) == El("char", {c}, FALSE, 0)
Star(c) == El("char", {c}, TRUE, 0)
Dots == El("dot", {}, TRUE, 0)
Open1 == El("open", {}, FALSE, 1)
Close1 == El("close", {}, FALSE, 1)
Exp(bol, elems) == [bol |-> bol, elems |-> elems]
Find(exp) == [kind |-> "re", value |-> exp]
Re(c) == Find(Exp(FALSE, <<Char(c)>>))
AStarB == Exp(FALSE, <<Star("a"), Char("b")>>)
Dollar == [kind |-> "last", value |-> 0]

Tok(op, a1, a2, not, arg) == [op |-> op, a1 |-> a1, a2 |-> a2, not |-> not, arg |-> arg]
Plain(op) == Tok(op, NoAddress, NoAddress, FALSE, NoLabel)
One(op, a) == Tok(op, a, NoAddress, FALSE, NoLabel)
Two(op, a, b) == Tok(op, a, b, FALSE, NoLabel)
To(op, label) == Tok(op, NoAddress, NoAddress, FALSE, label)
SubNth(exp, by, all, nth) ==
  Tok("s", NoAddress, NoAddress, FALSE, [re |-> exp, by |-> by, all |-> all, nth |-> nth])
Sub(c, by, all) == SubNth(Exp(FALSE, <<Char(c)>>), by, all, 0)

\* Commands that end, whatever the order.
Menu ==
  {Plain("a"), Plain("n"), Plain("N"), Plain("x"), Plain("H"), Plain("P"),
   One("q", Line(2)), One("d", Re("a")), One("b", Dollar), Two("d", Line(2), Line(3)),
   Two("n", Re("a"), Re("b")), Two("c", Re("b"), Dollar), Sub("b", <<"a">>, TRUE),
   Tok("r", Re("a"), NoAddress, TRUE, NoLabel), Tok("n", Line(1), Line(2), TRUE, NoLabel)}

Orders == UNION {[1 .. n -> Menu] : n \in 1 .. 3}

\* Each expression as an address, alone and negated, and substituted.
Expressions ==
  {Exp(FALSE, <<Star("b"), Char("a"), El("eol", {}, FALSE, 0)>>), Exp(TRUE, <<Dots, Char("b")>>),
   Exp(FALSE, <<Star("a"), Star("b"), Char("a")>>), Exp(TRUE, <<Star("a"), El("set", {"b", "n"}, TRUE, 0), Char("a")>>),
   Exp(FALSE, <<Open1, Dots, Char("a"), Close1, Char("b"), Char("a")>>),
   Exp(FALSE, <<Char("b"), El("open", {}, TRUE, 1), Char("a"), Close1, El("set", {"b"}, FALSE, 0)>>)}
Searching ==
  UNION {{<<Plain("N"), One("d", Find(e))>>, <<Plain("N"), Tok("d", Find(e), NoAddress, TRUE, NoLabel)>>,
          <<Two("d", Line(1), Find(e))>>,
          <<Plain("N"), SubNth(e, <<"a">>, FALSE, 0), Tok("b", Find(e), NoAddress, FALSE, NoLabel), Plain("n")>>} : e \in Expressions}
  \cup {<<SubNth(e, <<"b">>, TRUE, n), To("t", NoLabel), Plain("d")>> :
          e \in {AStarB, Exp(FALSE, <<Char("a"), Star("b")>>)}, n \in {0, 1, 2}}
  \cup {<<SubNth(Exp(FALSE, <<El("open", {}, starred, 1), Char("a"), Star("b"), Close1, El("back", {}, FALSE, 1)>>),
                 <<"b">>, FALSE, 0)>> : starred \in BOOLEAN}

\* Groups, labels before and after their references, D, t and T.
Written ==
  {<<Plain("N"), Plain("a"), Plain("P"), Plain("D")>>,
   <<One("{", Line(1)), Plain("N"), Two("{", Line(2), Line(3)), Plain("h"), Plain("}"), Plain("a"),
     Plain("}"), Plain("G")>>,
   <<To("b", "x"), To("t", "x"), Plain("d"), To(":", "x"), To("T", "y"), To("b", NoLabel), Plain("d"),
     To(":", "y"), Plain("g"), To("b", NoLabel)>>,
   <<To(":", "x"), Sub("b", <<"a">>, FALSE), To("t", "x"), Plain("y")>>,
   <<To(":", "x"), Sub("b", <<"a", "a">>, FALSE), To("T", NoLabel), Plain("N"), To("b", "x")>>,
   <<One("{", Dollar), To("b", "x"), Plain("}"), Plain("N"), To(":", "x"), Plain("G"), Plain("h")>>,
   <<Plain("H"), Plain("G"), Plain("G"), Plain("d")>>,
   <<Plain("{"), Plain("p"), Plain("}")>>, <<Sub("b", <<"n">>, FALSE), Plain("D")>>,
   <<Plain("a"), Plain("a"), Plain("a"), Plain("a")>>, <<Plain("G"), Plain("h"), Plain("N")>>,
   <<Plain("}")>>, <<To("b", "x")>>, <<To(":", "x"), To(":", "x")>>, <<Two("q", Line(1), Line(2))>>}

Scripted(s) == [i \in DOMAIN s |-> IF s[i].op = "y" THEN [s[i] EXCEPT !.arg = [char |-> "a", by |-> <<"b">>]]
                                   ELSE s[i]]

MCScripts == Orders \cup Searching \cup {Scripted(s) : s \in Written}
MCInputs ==
  {<< << >> >>, << <<"a", "n", "b", "n", "a">> >>, << <<"b", "n", "n", "a", "n", "b", "n">> >>,
   << <<"a", "b", "a", "b", "a", "b", "a", "b", "a">> >>,
   << <<"a", "n", "b", "n">>, << >>, <<"b", "n", "a", "n">> >>}

\* What the manual says and the code does not do.
ShortRange == {<<Two("d", Line(2), Line(1))>>}
MCLines == {<< <<"a", "n", "b", "n", "a", "n", "b", "n">> >>}
Trailing == {<<One("d", Dollar)>>}
MCTrailing == {<< <<"a", "n", "b", "n">>, << >> >>}
OldTest == {<<Sub("b", <<"a">>, FALSE), Sub("a", <<"b">>, FALSE), Sub("x", <<"b">>, FALSE), To("t", NoLabel)>>}
Boundary == {<<Plain("n")>>}
MCBoundary == {<< <<"a", "n">>, <<"b", "n">> >>}
CutShort == {<<Two("c", Line(2), Line(5))>>}
ManyTexts == {<<Plain("a"), Plain("a"), Plain("a"), Plain("a")>>}
FullHold == {<<Plain("h")>>}
GlobalStar == {<<SubNth(Exp(FALSE, <<Star("a"), Char("a"), Char("b")>>), <<"b">>, TRUE, 0)>>}
GroupStar == {<<One("d", Find(Exp(TRUE, <<El("open", {}, TRUE, 1), Char("a"), Char("b"), Close1, Char("b")>>)))>>}
Third == {<<SubNth(Exp(FALSE, <<Char("a")>>), <<"b">>, FALSE, 3)>>}
MCTwice == {<< <<"a", "b", "a", "b", "n">> >>}
MCFull == {<< <<"a", "a", "a", "a", "a", "a", "n">> >>}
=============================================================================
