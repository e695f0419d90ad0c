CONSTANTS
  u1 = u1
  u2 = u2
  a = a
  b = b
  Uploads = {u1, u2}
  MaxPart = 2
  Chunks = {a, b}
  Sends <- MCSends
  Writers = {w}
  Completers = {c1, c2}
  None = None
  Merged = Merged
  Unlinked = Unlinked
  Unacked = Unacked
  Hole = Hole
SPECIFICATION OneCallSpec
SYMMETRY MCSymmetry
INVARIANTS TypeOK ContentMatchesHash ReceiptIsStored ReceiptIsWhole AckedPartsKept
