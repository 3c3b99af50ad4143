SPECIFICATION Spec
CONSTANTS
  Names <- MCNames
  Tokens <- MCTokens
  Agents = {"a1", "a2"}
  LF = LF
  CRLF = CRLF
  Sep = Sep
  Bin = Bin
  None = None
  Junk = Junk
  Dir = Dir
  UserOf <- MCUserOf
  WorkspaceOf <- MCWorkspaceOf
  Mounts = {"shared"}
  Workspace = "workspace"
  Up = ".."
  Order <- MCOrder
  Ignored = {"e"}
  ExcludedNames = {"secret"}
  ExcludedTrees = {}
  MaxFileSize = 2
  Paths <- MCPaths
  Targets <- MCTargets
  Inputs <- MCInputs
  Ranges <- MCRanges
  Queries = {"e", "f"}
  Edits <- MCEdits
  StartTree <- MCStartTree
  StartView <- MCStartView
  MaxTokens = 3
  MaxLength = 5
  MaxSteps = 2
  DiskFails = TRUE
INVARIANTS ListingIsExact EditsKeepLines
PROPERTIES CarefulLosesNothing FailedChangesNoFile
