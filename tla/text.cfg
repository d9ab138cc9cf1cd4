SPECIFICATION PartsSpec
CHECK_DEADLOCK FALSE
CONSTANTS
  Scripts <- EditorScripts
  Nodes = {c, d}
  Schemas = {x, y}
  Default = x
  Width = 2
  Rounds = {r1, r2}
  Requests = {k1, k2}
  MaxLength = 1
  MaxVisits = 2
  MaxActs = 3
  Nil = Nil
INVARIANTS SplitsAtTerminators StrippedAlone CursorRunsWhatItShows RowsAreTheRuns
SYMMETRY Symmetry
