CONSTANTS
  Hashes = {h1}
  Callers = {server, cli}
  Sources = {up}
  None = None
SPECIFICATION SharedSpec
INVARIANTS SettledWhole
