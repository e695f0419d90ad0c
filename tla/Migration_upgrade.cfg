CONSTANTS
  default = default
  DEFAULT = DEFAULT
  alice = alice
  a = a
  Processes = {server, cli}
  Server = server
  Tenants = {default, alice}
  Default = default
  Alike = {default, DEFAULT}
  Legacy <- MCLegacy
  NewPaths <- MCNewPaths
  MaxDeaths = 2
SPECIFICATION Spec
INVARIANTS ServesComplete RefsResolve
PROPERTIES EventuallyServes
