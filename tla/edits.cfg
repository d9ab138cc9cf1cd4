SPECIFICATION EditsSpec
CHECK_DEADLOCK FALSE
CONSTANTS
  t = t
  u = u
  a = a
  b = b
  n = n
  j1 = j1
  j2 = j2
  Tabs = {t, u}
  Tables = {a, b}
  Ids = {1, 2, 3, 4}
  News = {n}
  Jobs = {j1, j2}
  MaxEvents = 4
  Missing = Missing
INVARIANTS AddedOnce
PROPERTIES BatchAsMeant
SYMMETRY Symmetry
