SPECIFICATION TcpFairSpec
CONSTANTS
  Servers = {s1, s2}
  Clients = {c1}
  NoSock = NoSock
  MaxBytes = 2
  Tries = {0, 2}
INVARIANTS ListsTellSockets GoneIsGone
PROPERTIES ReadEnds FlushEnds
CHECK_DEADLOCK FALSE
