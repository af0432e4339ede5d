SPECIFICATION FairSpec
CONSTANTS
  na = na nb = nb nc = nc nd = nd k1 = k1 k2 = k2 k3 = k3 k4 = k4
  p1 = p1 p2 = p2
  None = None Err = Err
  Clients = {p1, p2}
  Nodes = {na, nb, nc, nd}
  Keys = {k1, k2, k3, k4}
  Ring <- Tangled
  Grouped = {na, nb}
  Unreachable = {nd}
  KeyLen = 1
  Lengths = {0, 1}
  MaxBytes = 1
INVARIANTS CacheIsSound OneLoadPerKey
PROPERTIES AddedIsKept ErrorsAreLocal RoutedGetsReturn
CHECK_DEADLOCK FALSE
