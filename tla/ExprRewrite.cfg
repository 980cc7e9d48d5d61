CONSTANTS
  Consts = {"y", "m", "n", "-1", "0x9", "x"}
  StrRanks <- MCStrRank
  Nums <- MCNum
  NaN <- MCNaN
  Width = 256
  Type <- MCType
  Valuations <- MCValuations
  Singles <- MCSingles
  Pairs <- MCPairs
  MaxCompares = 1
SPECIFICATION Spec
INVARIANTS AnswersSound PrintedReadsBack
PROPERTIES MeaningKept
