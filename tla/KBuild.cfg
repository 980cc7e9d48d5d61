CONSTANTS
  Consts = {"y", "m", "n"}
  StrRanks <- MCStrRank
  Nums <- MCNum
  NaN = 999
  Width = 256
  Printed <- MCPrinted
  Prefixed <- MCPrefixed
  Names <- MCNames
  Types <- MCTypes
  Choice = "CH"
  Bodies <- MCBodies
  Blocks <- MCBlocks
  MaxBlocks = 2
SPECIFICATION Spec
CHECK_DEADLOCK FALSE
INVARIANTS TreeRight FilesMeant NoHiddenLoop
