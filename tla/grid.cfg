SPECIFICATION Spec
CHECK_DEADLOCK FALSE
CONSTANTS
  Tabs = {t, u}
  Batches = {a, b}
  Statements = {c, d}
  Engines = {"postgres", "mysql"}
  MaxJobs = 3
  Rows = 2
  MaxLosses = 1
  None = None
SYMMETRY Symmetry
INVARIANTS IndicatorHonest
PROPERTIES BatchIsWhole TransactionKept
