CONSTANTS
  default = default
  alice = alice
  h1 = h1
  h2 = h2
  Tenants = {alice}
  Default = alice
  Paths = {p, q}
  Hashes = {h1, h2}
  Size <- MCSize
  Tokens = {}
  Writers = {server, cli}
  ByteQuotas = {None, 2}
  ObjectQuotas = {None, 1}
  MaxLink = 3
  None = None
  Missing = Missing
SPECIFICATION Spec
SYMMETRY MCSymmetry
INVARIANTS TypeOK RefcountNeverOver LinkCoversRefs UsageNeverOver
PROPERTIES QuotaGate
