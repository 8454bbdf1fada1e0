SPECIFICATION LibrarySpec
CONSTANTS
  Call = {c1, c2}
  Feed = {f1, f2}
  Title = {t1, t2}
  Root = Root
  Foreign <- MCForeign
  MaxFolders = 4
  MaxCalls = 3
SYMMETRY MCSymmetry
CHECK_DEADLOCK FALSE
INVARIANTS ExportComplete ImportFaithful RequestsKept
