SPECIFICATION HistorySpec
CONSTANTS
  Runs = {r1, r2}
  Tools = {save}
  Tabs = {t1, t2}
  MaxStatements = 2
  MaxGen = 5
  None = None
INVARIANTS GateHasOwner OnlyStoppedOverlap
PROPERTIES OnlyOwnerOpensGate OutcomeShown StoppedScriptEnds
