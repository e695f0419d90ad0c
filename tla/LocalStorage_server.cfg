CONSTANTS
  Hashes = {h1, h2}
  Callers = {c1, c2, c3}
  Sources = {up1, up2}
  None = None
SPECIFICATION ApartSpec
SYMMETRY MCSymmetry
INVARIANTS TypeOK ReadsAreWhole AnsweredIsStored RaisesOnlyDisturbed CopiesNothing
PROPERTIES StoreSpec
