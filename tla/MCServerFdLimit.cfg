SPECIFICATION IdleSpec
CONSTANTS
  Conns = {c1, c2}
  Fds = {f1}
  Workers = {w1, w2}
  Main = Main
  None = None
  MaxEvents = 2
  MaxSegs = 0
  SegsPerRequest = 1
  RespLen = 1
  IdleExpiry = "any"
PROPERTY Accepted
