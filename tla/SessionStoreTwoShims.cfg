SPECIFICATION Spec
CONSTANTS
  Shim = {p, q}
  Sid = {s1, s2}
  Keep = 2
  MaxAge = 2
  StateDir = "unset"
  MaxVer = 2
  MaxTime = 4
SYMMETRY Perms
INVARIANTS LeftoversDead
