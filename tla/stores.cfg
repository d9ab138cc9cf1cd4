SPECIFICATION PartsSpec
CHECK_DEADLOCK FALSE
CONSTANTS
  Kinds = {"connections", "folders", "vault", "settings", "queries", "history", "local"}
  Items = {i, j}
  Calls = {a, b, c}
  MaxEdits = 2
  MaxSaves = 2
  MaxCrashes = 1
  Unreadable = FALSE
  None = None
  Torn = Torn
  KeyKinds = {"connections", "folders", "settings"}
  NoKey = NoKey
  Legacy = Legacy
  MaxKeys = 2
  MaxKeyEvents = 3
  Folders = {f, g, h}
  Servers = {s}
  Root = Root
  Unborn = Unborn
  Gone = Gone
  NoDialog = NoDialog
  Tasks = {t1, t2, t3}
  MaxToolEvents = 5
  Tabs = {o1, o2}
  Links = {l1}
  Picky = {}
  Names = {q}
  MaxText = 2
  MaxSteps = 5
  Nil = Nil
INVARIANTS ListsAreKept SealedStaysReadable DrawnWhereLastPut LoneDownloadsAreWhole TextIsKept
PROPERTIES ReplacedWhole
