\* Two windows of three lines and two columns; the programs keep clear of what
\* the code is known to get wrong.
SPECIFICATION Spec
CONSTANTS
    Cols = 2
    TabStop = 2
    StartRows = 9
    Heights = {6, 7}
    UserLines = 0
    PromptLength = 1
    Inputs <- MCInputs
    Keys = {"+", "-", "r", "other"}
    Digits = {2}
    Assumed = {"margin", "region", "reverse margin", "one line", "erase", "saved", "attributes", "8-bit", "insert", "delete", "lines", "reset", "plain", "shrink", "winch", "prompt"}
    MaxOutputs = 3
    MaxCommands = 1
    MaxResizes = 1
INVARIANTS CursorFollowed ScreenIsMemory InMemory
