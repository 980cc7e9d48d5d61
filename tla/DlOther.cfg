SPECIFICATION Spec
CONSTANTS
  p1 = p1
  p2 = p2
  p3 = p3
  good = good
  evil = evil
  NoFile = NoFile
  Partial = Partial
  NoProc = NoProc
  Content <- MCContent
  NoCheck = {}
  Proc <- Three
  NUris = 1
  HasHash <- Three
  HashLines <- OtherLines
  CanLink = TRUE
  PostProcess = FALSE
  Faults = {}
  MaxRuns = 2
INVARIANTS NoLitter
PROPERTIES OnlyWrongRemoved Termination
CHECK_DEADLOCK FALSE
