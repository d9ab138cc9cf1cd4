SPECIFICATION TabSpec
CONSTANTS
  LoadCalls = {r1, r2}
  CloseCalls = {r1, r2}
  SelectCalls = {}
  RunCalls = {r1, r2}
  CancelCalls = {}
  Dbs = {d1}
  ServerDbs = {d1}
  Tabs = {t1, t2}
  ClosedTabs = {t1, t2}
  Pools = {p1, p2}
  Conns = {s1,s2}
  None = None
INVARIANTS TabsNeverShare OnlyDeadSessionsDropped
PROPERTIES PromiseKept
SYMMETRY Symmetry
