SPECIFICATION FairSpec
CONSTANTS
  Conns = {c1}
  Fds = {f1}
  Workers = {w1, w2}
  Main = Main
  None = None
  MaxEvents = 2
  MaxSegs = 4
  SegsPerRequest = 2
  RespLen = 2
  IdleExpiry = "never"
PROPERTIES Answered Stopped
