CONSTANTS
  Consts = {"y", "m", "n", "1", "5", "0x9", "9", "x", ""}
  StrRanks <- MCStrRank
  Nums <- MCNum
  NaN <- MCNaN
  Width = 256
  Printed <- MCPrinted
  Prefixed <- MCPrefixed
  Programs <- Trees
  First = {1, 2, 3, 4, 5}
  Order <- MCOrder
  Files <- MCFiles
  Strings = {"x", "5"}
  AskModes = {"oldaskconfig", "oldconfig", "syncconfig", "listnewconfig"}
  MaxAnswers = 6
SPECIFICATION Spec
CHECK_DEADLOCK FALSE
INVARIANTS AllAnswered AsksNoMore
PROPERTIES Ends
