SPECIFICATION StopSpec
CONSTANTS
  LoadCalls = {m}
  CloseCalls = {m}
  SelectCalls = {k}
  RunCalls = {r1, m}
  CancelCalls = {k}
  Dbs = {d1}
  ServerDbs = {d1}
  Tabs = {t1}
  ClosedTabs = {t1}
  Pools = {p1}
  Conns = {s1, s2}
  None = None
PROPERTIES CancelReturns StoppedRunAnswers CallsReturn
