CONSTANTS
  default = default
  alice = alice
  h1 = h1
  h2 = h2
  Tenants = {default, alice}
  Default = default
  Paths = {p}
  Hashes = {h1}
  Size <- MCSize
  Tokens = {}
  Writers = {server}
  Threads = {t1, t2}
  ByteQuotas = {}
  ObjectQuotas = {}
  MaxLink = 3
  None = None
  Missing = Missing
SPECIFICATION QuietGcSpec
SYMMETRY MCSymmetry
INVARIANTS NeverFreed
