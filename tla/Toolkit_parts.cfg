SPECIFICATION Spec
CONSTANTS
  None = None
  Empty = ""
  Keys <- MCKeys
  Placeholder = "placeholder"
  MaxUses = 4
  Widgets = {1, 2}
  Root = "/"
  Dirs = {"d"}
  Files = {"f", "g"}
  HeldBy <- MCHeldBy
  MaxClicks = 3
  Groups = {"g", "h", "k"}
  Views <- MCViews
  PathOf <- MCPathOf
  Panes <- MCPanes
  NoPane = NoPane
  MaxMoves = 5
  Types <- MCTypes
  Contents <- MCContents
  MaxNesting = 4
  Addresses <- MCAddresses
  Words = 4
  Unknown = "x"
  Glued = "a,b"
  Kinds = {"value", "list", "radio", "flag", "multi", "dynlist", "text", "button", "file", "dummy", "network", "device", "zone"}
  MaxSaves = 2
  Shapes <- MCShapes
  Top = "top"
  Values = {"", "0", "1"}
  MaxInputs = 2
  Nodes <- MCNodes
  MaxOdd = 1
  NoPage = NoPage
  Base <- MCBase
  Objects = {"a", "b", "c"}
  ClassOf <- MCClassOf
  MaxDepth = 4
  MaxSends = 4
  W = 2
  Half = 4
  Multipliers <- MCMultipliers
  Names = {"lan", "guest"}
  Devs = {"eth0"}
  Refs = {"route"}
  Radio = {1, 2}
  ZoneIds = {"lan", "cfg1"}
  ZoneNames = {"lan", "wan"}
  Fwds = {1, 2}
  MaxCalls = 3
  Ports = {p}
  Bridges = {b1, b2}
  Callers = {c1, c2}
  Unset = Unset
  MaxChanges = 2
  MaxRefreshes = 2
  Unread = Unread
  MaxAsked = 2
  MaxStaged = 2
  MaxTries = 4
  Texts <- MCTexts
  Radios <- MCRadios
  Given = {"wlan0", "guest"}
  Made <- MCMade
  Ifnames = {"wlan0", "wlan1"}
  Faces = {1, 2}
  Metrics = {0, 1}
  MaxEdits = 2
  Uploads = {u1, u2}
  Targets = {"a", "b"}
  Ids = {1, 2}
  Somebody = Somebody
  MaxActs = 4
INVARIANTS PartsShowWhatIs ComputedRightly OnlyMetAreShown MenuLeads  DeletedIsForgotten
PROPERTIES InputIsKept FlushIsFresh
CHECK_DEADLOCK FALSE
