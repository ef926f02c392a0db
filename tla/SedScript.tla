------------------------------ MODULE SedScript ------------------------------
(***************************************************************************)
(* How minised compiles a script (sed/sedcomp.c): the commands in the      *)
(* order they are written, the groups "{ ... }" turned into branches over  *)
(* the group, and the branches to labels, which are chained through their  *)
(* link fields until the whole script is known.  The text of the script,   *)
(* its regular expressions and its error messages are left out: a token    *)
(* is a record                                                             *)
(*     op     the command letter, "{", "}" or ":"                          *)
(*     a1, a2 the addresses, NoAddress when missing                        *)
(*     not    "!" was written                                              *)
(*     arg    a label (NoLabel when missing), or the text of the command   *)
(* and a compiled command the same record with the number of the command   *)
(* it jumps to, 0 when there is none.                                      *)
(***************************************************************************)
EXTENDS Naturals, Sequences, FiniteSets, SequencesExt

NoAddress == [kind |-> "none", value |-> 0]
NoLabel == "no label"

Branches == {"b", "t", "T"}

(* The state of compile(): the commands, the open groups, the table of     *)
(* labels, whose first entry stands for the end of the script.             *)
Empty == [cmds |-> <<>>, open |-> <<>>,
          labels |-> <<[name |-> NoLabel, last |-> 0, address |-> 0]>>, ok |-> TRUE]

Command(t, link) == [op |-> t.op, a1 |-> t.a1, a2 |-> t.a2, not |-> t.not, arg |-> t.arg,
                     link |-> link]

Here(s) == Len(s.cmds) + 1
Emit(s, c) == [s EXCEPT !.cmds = Append(@, c)]
Die(s) == [s EXCEPT !.ok = FALSE]

(* The chain of the references to a label that is not yet defined.         *)
Chain(cmds) ==
  LET f[i \in 0 .. Len(cmds)] == IF i = 0 THEN <<>> ELSE <<i>> \o f[cmds[i].link] IN f

(* The label of this name, 0 when there is none.                           *)
Search(s, name) ==
  LET found == {k \in DOMAIN s.labels : s.labels[k].name = name} IN
  IF found = {} THEN 0 ELSE CHOOSE k \in found : TRUE

OpenGroup(s, t) ==
  [Emit(s, Command([t EXCEPT !.op = "b", !.not = ~t.not], 0)) EXCEPT !.open = Append(@, Here(s))]

CloseGroup(s, t) ==
  IF t.a1 # NoAddress \/ s.open = <<>>
    THEN Die(s)
    ELSE [s EXCEPT !.cmds[Last(s.open)].link = Here(s), !.open = Front(@)]

DefineLabel(s, t) ==
  LET k == Search(s, t.arg) IN
  CASE t.a1 # NoAddress \/ (k # 0 /\ s.labels[k].address # 0) -> Die(s)
    [] k # 0 /\ s.labels[k].address = 0 -> [s EXCEPT !.labels[k].address = Here(s)]
    [] OTHER -> [s EXCEPT !.labels = Append(@, [name |-> t.arg, last |-> 0, address |-> Here(s)])]

(* A reference to label k that has no address yet joins the label's chain. *)
ReferLast(s, t, k) == [Emit(s, Command(t, 0)) EXCEPT !.labels[k].last = Here(s)]

Refer(s, t, k) ==
  IF s.labels[k].last = 0
    THEN [Emit(s, Command(t, 0)) EXCEPT !.labels[k].last = Here(s)]
    ELSE Emit([s EXCEPT !.cmds[Last(Chain(s.cmds)[s.labels[k].last])].link = Here(s)], Command(t, 0))

Branch(s, t) ==
  LET k == Search(s, t.arg) IN
  CASE k = 0 -> [Emit(s, Command(t, 0)) EXCEPT
                   !.labels = Append(@, [name |-> t.arg, last |-> Here(s), address |-> 0])]
    [] k # 0 /\ s.labels[k].address # 0 -> Emit(s, Command(t, s.labels[k].address))
    [] OTHER -> Refer(s, t, k)

CompileToken(s, t) ==
  CASE t.op = "{" -> OpenGroup(s, t)
    [] t.op = "}" -> CloseGroup(s, t)
    [] t.op = ":" -> DefineLabel(s, t)
    [] t.op \in Branches -> Branch(s, t)
    [] t.op = "D" -> Emit(s, Command(t, 1))
    [] OTHER -> IF t.op \in {"=", "q", "a", "i", "r"} /\ t.a2 # NoAddress
                  THEN Die(s) ELSE Emit(s, Command(t, 0))

(* Every reference in a label's chain gets the label's address.            *)
Resolve(s) ==
  LET references(k) == {i \in DOMAIN s.cmds :
                          /\ s.labels[k].last # 0
                          /\ \E n \in DOMAIN Chain(s.cmds)[s.labels[k].last] :
                               Chain(s.cmds)[s.labels[k].last][n] = i}
      label(i) == {k \in DOMAIN s.labels : i \in references(k)}
  IN [s EXCEPT
        !.cmds = [i \in DOMAIN s.cmds |->
                    IF label(i) = {} THEN s.cmds[i]
                    ELSE [s.cmds[i] EXCEPT !.link = s.labels[CHOOSE k \in label(i) : TRUE].address]],
        !.ok = @ /\ \A k \in DOMAIN s.labels : s.labels[k].address # 0]

Compile(tokens) ==
  LET read == FoldLeft(CompileToken, Empty, tokens)
      ended == [read EXCEPT !.labels[1].address = Here(read), !.ok = @ /\ read.open = <<>>]
  IN Resolve(ended)
=============================================================================
