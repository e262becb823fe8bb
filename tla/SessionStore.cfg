SPECIFICATION Spec
CONSTANTS
  Shim = {p}
  Sid = {s1, s2}
  Keep = 1
  MaxAge = 2
  StateDir = "unset"
  MaxVer = 3
  MaxTime = 5
SYMMETRY Perms
INVARIANTS TypeOK DirBounded WriteThrough
PROPERTIES Refinement
