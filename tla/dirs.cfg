SPECIFICATION Spec
CONSTANTS
  Drivers = {"quark", "cloudreve", "thunder", "ali", "ali_open", "baidu"}
  Names = {"a", "b"}
  MaxId = 4
  MaxTries = 1
  MaxOps = 2
  MaxItems = 2
  WithB = FALSE
  Func <- MCFunc
  Tree0 <- MCTree0
  Paths <- MCPaths
INVARIANTS TypeOK ListingsCurrent
PROPERTIES MkdirFinds   BatchRenamesAll OpReturns
CHECK_DEADLOCK FALSE
