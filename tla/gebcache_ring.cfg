SPECIFICATION RingSpec
CONSTANTS
  NoPeer = NoPeer
  Processes = {n1, n2}
  Peers = {x, y, z}
  Replicas = 1
  MaxHash = 3
INVARIANTS PickIsSuccessor RingsAgree
PROPERTIES MovesOnlyToNewPeer
CHECK_DEADLOCK FALSE
