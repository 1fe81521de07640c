SPECIFICATION Spec
CONSTANTS
  Surveys <- MCSurveys
  Lists <- MCLists
  Networks = {"n"}
  MaxQueue = 3
  MaxCalls = 2
  MaxLosses = 1
  Functions = {"f"}
  Events = {"e1", "e2"}
  MaxIds = 4
  Callers = {"t1", "t2"}
  Names <- MCNames
  Peers = {"p", "q"}
  PacketBytes = {"x"}
  TxSize = 2
  MaxData = 1
  MaxWaiting = 1
  Host <- MCHost
  Responses <- MCResponses
  Follows = {"strict"}
  RedirectLimit = 1
  MaxWire = 6
  Room = 2
  MaxTasks = 2
  Sizes = {1, 2}
  Values = {"0", "v"}
  MaxHandles = 2
  FilePaths = {"/p", "/q"}
  Objects = {"f1", "f2"}
  MaxLength = 1
  HandlerConfig <- MCConfig
  Rewrites <- MCRewrites
  Urls <- MCUrls
  Pieces = {2}
  Paths <- MCPaths
  Contents = {"x", "y"}
  ContentSize <- MCSize
  MaxWrites = 1
INVARIANTS AnswersAreOwn StatusIsTrue StoredIsKept AnsweredOnce
PROPERTIES ActsRightly FilesAreServed CallsReturn
CHECK_DEADLOCK FALSE
