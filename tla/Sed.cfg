CONSTANTS
  Scripts <- MCScripts
  Inputs <- MCInputs
  Quiet = {TRUE, FALSE}
  MAXBUF = 6
  MAXAPPENDS = 4
SPECIFICATION FairSpec
INVARIANT LinksRight
INVARIANT LinesAndTexts
INVARIANT AddressesAsDocumented
INVARIANT NoneLeft
PROPERTY SedEnds
