SPECIFICATION Spec
CONSTANTS
  Reqs = {r1, r2, r3}
  Clears = {k1}
  Jars = {j1, j2, j3}
  MaxHops = 1
SYMMETRY CallSymmetry
INVARIANTS JarInv
PROPERTIES SessionContinuity RedirectKeepsCookies
