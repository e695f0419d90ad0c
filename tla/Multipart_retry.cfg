CONSTANTS
  u1 = u1
  u2 = u2
  a = a
  b = b
  Uploads = {u1}
  MaxPart = 1
  Chunks = {a, b}
  Sends <- MCSendsOne
  Writers = {w}
  Completers = {c1, c2}
  None = None
  Merged = Merged
  Unlinked = Unlinked
  Unacked = Unacked
  Hole = Hole
SPECIFICATION Spec
SYMMETRY MCSymmetry
INVARIANTS SettledContent
