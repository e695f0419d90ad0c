CONSTANTS
  Hashes = {h1, h2}
  Callers = {c1, c2, c3}
  None = None
SPECIFICATION Spec
SYMMETRY MCSymmetry
INVARIANTS RaisesOnlyFailed
PROPERTIES StoreSpec MissingIsNotKept
