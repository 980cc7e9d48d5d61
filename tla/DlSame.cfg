SPECIFICATION Spec
CONSTANTS
  p1 = p1
  p2 = p2
  p3 = p3
  good = good
  evil = evil
  NoFile = NoFile
  Partial = Partial
  NoProc = NoProc
  Content <- MCContent
  NoCheck = {}
  Proc <- Two
  NUris = 2
  HasHash <- Two
  HashLines <- SameLines
  CanLink = FALSE
  PostProcess = TRUE
  Faults = {"kill", "mktemp"}
  MaxRuns = 2
CHECK_DEADLOCK FALSE
INVARIANTS IInv VerifiedDone BuiltFromGood
PROPERTIES StoreSpec
