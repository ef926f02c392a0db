\* SIGWINCH may come while what a program wrote is being handled.
SPECIFICATION Spec
CONSTANTS
    Cols = 2
    TabStop = 2
    StartRows = 9
    Heights = {7}
    UserLines = 0
    PromptLength = 1
    Inputs <- MCInputs
    Keys = {"r"}
    Digits = {}
    Assumed = {"margin", "region", "reverse margin", "one line", "erase", "saved", "attributes", "8-bit", "insert", "delete", "lines", "reset", "plain", "shrink", "prompt"}
    MaxOutputs = 2
    MaxCommands = 1
    MaxResizes = 1
INVARIANT RightWindow
