SPECIFICATION Spec
CONSTANTS
  Procs = {p1, p2}
  Archives = {a1, a2}
  Selections <- AllArchives
  Contents = {c1, c2}
  Dicts = {d1, d2}
  Clears = 1
  Patches = 1
  None = None
SYMMETRY Symmetry
INVARIANTS
  TypeOK
  MountDescribesItsHeaders
  EntriesDescribeTheirKey
