SPECIFICATION Spec
CONSTANTS
  a = a
  d1 = d1
  Conns = {a, b}
  Pg = {a}
  Dbs = {d1, d2}
  Home = d1
  Tasks = {t1, t2, t3}
  MaxClicks = 4
  Fetched <- TabTargets
  None = None
  Failed = Failed
INVARIANTS ShownBelongs EvictedStaysOut SettledCommandsArrive
SYMMETRY Symmetry
