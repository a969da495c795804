SPECIFICATION FairSpec
CONSTANTS
  srv1 = srv1
  srv2 = srv2
  Addr <- MCAddr
  Cap = 1
  Period = 2
  MaxPings = 3
INVARIANTS TypeOK NoneForgotten OwnEcho NoSendOnClosed
PROPERTY KeySettles
CHECK_DEADLOCK FALSE
