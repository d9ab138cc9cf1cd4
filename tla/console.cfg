SPECIFICATION Spec
CONSTANTS
  r1 = r1
  r2 = r2
  t1 = t1
  t2 = t2
  Runs = {r1, r2}
  Tabs = {t1, t2}
  MaxStatements = 2
  MaxGen = 3
  MaxClears = 1
  None = None
INVARIANTS GateReopens EntryIsOwn
PROPERTIES EntriesKept StoppedEnds
