SPECIFICATION Spec
CONSTANTS
  Readers = {r1}
  Sharers = {s1}
  Feeds = {f1, f2}
  Articles = {a1}
  Jobs = {j1, j2}
  NoFeed = NoFeed
  Unlinked = Unlinked
SYMMETRY MCSymmetry
INVARIANTS VerdictKept HistoryFaithful NoticesDelivered
