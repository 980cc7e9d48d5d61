CONSTANTS
  Options <- MCOptions
  Builds <- MCBuilds
  Arguments <- MCArguments
  Epochs = {"valid", "invalid"}
  CcacheVars = {"unset", "0", "1"}
  DEFAULT_MAX_ARGS = 19
  MaxArgs = 0
  Trees <- MCTrees
  Tables <- MCTables
  Users = {"root", "web"}
  XATTR = TRUE
  MaxLines = 1
SPECIFICATION Spec
CHECK_DEADLOCK FALSE
INVARIANTS DanglingSkipped
