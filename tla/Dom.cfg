SPECIFICATION DomSpec
CONSTANTS
  Parts = {"inputs", "server", "events", "responder", "children", "native", "element", "hydration", "class", "context",
           "types", "text", "selection"}
  R1 = R1
  R2 = R2
  Radios = {R1, R2}
  TextField = TextField
  TextValues = {0, 1}
  MaxUserChanges = 3
  MaxNesting = 2
  Requests <- MCRequests
  NestedElement <- MCNested
  ContextDefaults <- MCDefaults
  MaxStreams = 3
  ChunkSizes = {3}
  Nodes = {1, 2, 3, 4}
  NoNode = 0
  Parent <- MCParent
  Around <- MCAround
  ListenerSets <- MCListenerSets
  Clickable = {2}
  EVENT_POOL_SIZE = 2
  MaxDispatches = 2
  Views = {1, 2, 3}
  Identifiers = {1, 2}
  NoTouch = 0
  MaxReactTag = 13
  MaxInitialChildren = 2
  NoParent = 0
  Styles <- MCStyles
  Attributes <- MCAttributes
  NullValue = "null"
  UndefinedValue = "u"
  PropSets <- MCPropSets
  Apps <- MCApps
  Documents <- MCDocuments
  MaxRestarts = 1
  ComponentKinds <- MCKinds
  ClassLevels = {1, 2}
  SetContents = {1}
  MaxSets = 1
  MaxAttempts = 3
  Chains <- MCChains
  ContextKeys = {"a", "b"}
  NoKeyGiven = "none"
  ContextLevels = {1, 2}
  MaxContextUpdates = 3
  Components <- MCComponents
  PropValues = {"u", "x", "slow"}
  Slow = {"slow"}
  Refs = {"r", "s"}
  NotGiven = "u"
  Nil = "none"
  Browsers <- MCBrowsers
  Letters = {"a", "b"}
  Space = " "
  MaxText = 3
  TextFields = {1, 2}
  NoField = 0
  MaxSelection = 1
INVARIANTS
  FieldsShowState
  UndisturbedStreamsAreRight
  EventsAreDelivered
  RespondersAreBookended
  HostsShowWhatWasRendered
  HydrationShowsTheElement
  CommitsAreHeard
  ConsumersSeeTheirContext
CHECK_DEADLOCK FALSE
