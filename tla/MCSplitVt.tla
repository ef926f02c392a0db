------------------------------ MODULE MCSplitVt ------------------------------
(* Values for SplitVt's constants that a configuration cannot write.         *)
EXTENDS SplitVt

Item0(op) == [op |-> op, n |-> 0, m |-> 0]
Item1(op, n) == [op |-> op, n |-> n, m |-> 0]
Item2(op, n, m) == [op |-> op, n |-> n, m |-> m]

MCInputs ==
    {Item0(op) : op \in {"char", "nl", "cr", "bs", "tab", "ESC M", "ESC E", "ESC 7", "ESC 8", "ESC H", "ESC c",
                         "ESC =", "ESC (0", "A", "B", "C", "D", "J", "K", "P", "M", "L", "@"}}
    \cup {Item1("m", 1), Item1("g", 0), Item1("J", 1), Item1("J", 2), Item1("K", 1)}
    \cup {Item2("r", 2, 3), Item2("H", 4, 1), Item2("H", 1, 9)}
==============================================================================
