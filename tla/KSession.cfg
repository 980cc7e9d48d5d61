CONSTANTS
  Consts = {"y", "m", "n", "1", "5", "0x9", "9", "x", ""}
  StrRanks <- MCStrRank
  Nums <- MCNum
  NaN <- MCNaN
  Width = 256
  Printed <- MCPrinted
  Prefixed <- MCPrefixed
  Programs <- Trees
  First = {1, 2, 3, 4, 5}
  Updates <- MCUpdates
  Order <- MCOrder
  Files <- MCFiles
  Strings = {"x", "1", "9"}
  Modes = {"olddefconfig", "defconfig", "savedefconfig", "def_no", "def_yes", "def_mod", "def_random"}
  MaxEdits = 2
  MaxRuns = 2
  MaxSyncs = 3
SPECIFICATION Spec
CHECK_DEADLOCK FALSE
INVARIANTS ValuesRight ChoiceExclusive QuitLosesNothing RoundTrips
PROPERTIES ValuesAsSet SyncTouches
