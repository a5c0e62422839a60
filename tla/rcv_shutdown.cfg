\* Stop while a connection is open: a handler sends on the closed ChanPointBagsReceived.
CONSTANTS
  c1 = c1
  c2 = c2
  Conns <- MCConns
  MaxLines = 2
  ChanCap = 1
SPECIFICATION Spec
INVARIANT NoSendOnClosed
CHECK_DEADLOCK FALSE
