CONSTANTS
  default = default
  alice = alice
  h1 = h1
  h2 = h2
  Tenants = {default}
  Default = default
  Paths = {p}
  Hashes = {h1, h2}
  Size <- MCSize
  Tokens = {}
  Writers = {server}
  ByteQuotas = {}
  ObjectQuotas = {}
  MaxLink = 2
  None = None
  Missing = Missing
SPECIFICATION AnyTimeSpec
INVARIANTS GcSafeAnyTime
