SPECIFICATION Spec
CONSTANTS
  Turn = {t1, t2}
  Account = {a1, a2}
  Id = {i1, i2}
  Refresh = {q1}
  Main = Main
  NoOne = NoOne
  MaxEdits = 1
  MaxBoots = 1
SYMMETRY Symmetry
INVARIANTS TypeOK SavedTurnsAreOnDisk ChargedOnce HistoryFollowsKey ExitKeepsAll
CHECK_DEADLOCK FALSE
