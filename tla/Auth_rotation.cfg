CONSTANTS
  default = default
  alice = alice
  Tenants = {default, alice}
  Default = default
  Tokens = {k1, k2}
  Requests = {r1}
  Uploads = {u1}
  Unused = Unused
  Gone = Gone
  NoToken = NoToken
  Env = Env
SPECIFICATION Spec
SYMMETRY MCSymmetry
INVARIANTS RevokedStaysOut ActsForOwner HeldThroughout
