SPECIFICATION IdleSpec
CONSTANTS
  Conns = {c1, c2}
  Fds = {f1, f2}
  Workers = {w1}
  Main = Main
  None = None
  MaxEvents = 1
  MaxSegs = 0
  SegsPerRequest = 1
  RespLen = 1
  IdleExpiry = "any"
PROPERTIES IdleReclaimed Accepted
