SPECIFICATION Spec
CONSTANTS
  a = a
  b = b
  Star = Star
  Dot = Dot
  Segments = {a, b, Star, Dot}
  Requests = {r1}
  NextBound = 1
  Methods = {GET}
  Patterns <- MCPatterns
  MidPaths <- MCMidPaths
  Paths <- MCPaths
  Func = {f1, f2, m1, m2}
  Funcs = {f1, f2}
  Mids = {m1, m2}
  MaxRegs = 4
SYMMETRY MCSymmetry
CHECK_DEADLOCK FALSE
INVARIANTS InOrder BestPatternWins MidwirsGuard
