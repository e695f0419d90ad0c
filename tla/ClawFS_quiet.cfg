CONSTANTS
  default = default
  alice = alice
  h1 = h1
  h2 = h2
  Tenants = {default, alice}
  Default = default
  Paths = {p}
  Hashes = {h1, h2}
  Size <- MCSize
  Tokens = {tok}
  Writers = {server, cli}
  ByteQuotas = {}
  ObjectQuotas = {}
  MaxLink = 2
  None = None
  Missing = Missing
SPECIFICATION QuietSpec
SYMMETRY MCSymmetry
INVARIANTS RefcountExact NoDangling
PROPERTIES FSSpec
