SPECIFICATION MCSpec
CONSTANTS
  w1 = w1
  w2 = w2
  up = up
  down1 = down1
  down2 = down2
  ClientWriter <- MCClientWriter
  GatewayWriter <- MCGatewayWriter
  MaxConn = 3
  Numbers = 3
  Records = 4
INVARIANTS TablesTypeOK AcceptedByPeer NilSendNeedsTwo OneRecordPerLoop
PROPERTIES SilentLosesEntry LostAckIsFatal KeptWhileUsed NumbersRunOn
CHECK_DEADLOCK FALSE
