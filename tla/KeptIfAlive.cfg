CONSTANTS
  Proc = {p1, p2}
  Pinger = {p1}
  Addr = {a1}
  Id = {i1, i2}
  Nobody = Nobody
  Conn = {k1, k2}
  NoConn = NoConn
  NoProc = NoProc
  NoCand = NoCand
  K = 1

SPECIFICATION SoundSpec
PROPERTY KeptIfAlive
