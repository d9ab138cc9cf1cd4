SPECIFICATION Spec
CONSTANTS
  LoadCalls = {a, b}
  CloseCalls = {b, x}
  SelectCalls = {q}
  RunCalls = {}
  CancelCalls = {}
  Dbs = {d1, d2}
  ServerDbs = {d1}
  Tabs = {t}
  ClosedTabs = {}
  Pools = {p1, p2, p3, p4}
  Conns = {s1}
  None = None
INVARIANTS RegistrySafety
