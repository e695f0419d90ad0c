CONSTANTS
  default = default
  alice = alice
  h1 = h1
  h2 = h2
  Tenants = {alice}
  Default = alice
  Paths = {p, q}
  Hashes = {h1, h2}
  Size <- MCSize
  Tokens = {tok}
  Writers = {server}
  Threads = {t1, t2}
  ByteQuotas = {2, 3}
  ObjectQuotas = {None}
  MaxLink = 2
  None = None
  Missing = Missing
SPECIFICATION TurnsSpec
SYMMETRY MCSymmetry
INVARIANTS UsageExact NoFreeStorage
PROPERTIES AtomicSessions
