SPECIFICATION FrontSpec
CONSTANTS
  Nil = Nil
  Screens <- MCScreens
  Entries <- MCEntries
  Root = "root"
  Depth = 3
  Letters = {"d", "s", "n", "slash", "x", "h"}
  ItemLists <- MCItemLists
  MemberLists <- MCMemberLists
  InputSizes <- MCInputSizes
  TextBoxes <- MCTextBoxes
  ListHeight = 2
  CheckRows = 21
  CheckCols = 71
  YesRows = 10
  YesCols = 64
  BoxWidth = 3
  MAX_LEN = 5
  MaxHscroll = 1
  Text <- MCText
  Characters = {"a", "b"}
  MaxPattern = 2
  MaxWindows = 3
  Pads <- MCPads
  ButtonNumbers = {0, 1, 2}
  prompt_width = 3
  MaxChars = 6
CHECK_DEADLOCK FALSE
INVARIANTS QuitsSaved CursorsRight SearchRight
PROPERTIES PlaceKept KeysRight Responds
