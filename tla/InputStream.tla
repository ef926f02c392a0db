---------------------------- MODULE InputStream ----------------------------
(***************************************************************************)
(* What the input of a shell promises to its parser: characters come in    *)
(* order, each once; what is inserted (the text of an alias) comes next;   *)
(* the input below a string or file being read is as it was when that ends.*)
(* Only an error discards input.  AshInput implements this with buffers,   *)
(* counters and a stack of pushed strings.                                 *)
(***************************************************************************)
EXTENDS Naturals, Sequences, SequencesExt

CONSTANTS
  Texts,      \* what may be inserted or opened
  Mark,       \* the end mark of a here document
  NoChar

VARIABLES
  levels,     \* what is still to be read of each input, the current one last
  last        \* the character read last, until it is put back or used up

vars == <<levels, last>>

Top == Len(levels)
Becomes(text) == levels' = [levels EXCEPT ![Top] = text]

Read ==
  /\ last' # NoChar
  /\ levels[Top] # << >>
  /\ last' = Head(levels[Top])
  /\ Becomes(Tail(levels[Top]))

Forget == last' = NoChar /\ UNCHANGED levels

Unread == last' = NoChar /\ Becomes(<<last>> \o levels[Top])

Insert == last' = NoChar /\ \E t \in Texts : Becomes(t \o levels[Top])

\* The rest of a line that ends a here document is used up.
SkipMark ==
  /\ last = Head(Mark) /\ last' = NoChar
  /\ \E end \in {<< >>, <<"n">>} :
       LET used == Tail(Mark) \o end
           rest == SubSeq(levels[Top], Len(used) + 1, Len(levels[Top]))
       IN /\ IsPrefix(used, levels[Top])
          /\ end = << >> => rest = << >>
          /\ Becomes(rest)

Open == last' = NoChar /\ \E t \in Texts : levels' = Append(levels, t)

Close == Top > 1 /\ last' = NoChar /\ levels' = Front(levels)

\* An error ends all inputs but the first, and may discard some of that.
Clear ==
  /\ last' = NoChar
  /\ \E k \in 1 .. Len(levels[1]) + 1 :
       levels' = <<SubSeq(levels[1], k, Len(levels[1]))>>

Init == last = NoChar /\ \E t \in Texts : levels = <<t>>

Next == Read \/ Forget \/ Unread \/ Insert \/ SkipMark \/ Open \/ Close \/ Clear

Spec == Init /\ [][Next]_vars
=============================================================================
