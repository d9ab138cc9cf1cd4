SPECIFICATION Spec
CONSTANTS
  Calls = {a, b, c}
  Conns = {i}
  Dbs = {d}
  MaxCloses = 2
  None = None
INVARIANTS PendingHasLoader
PROPERTIES EvictedNotUsed
