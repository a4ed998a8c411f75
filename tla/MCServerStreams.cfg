SPECIFICATION Spec
CONSTANTS
  Conns = {c1, c2}
  Fds = {f1}
  Workers = {w1, w2}
  Main = Main
  None = None
  MaxEvents = 2
  MaxSegs = 2
  SegsPerRequest = 1
  RespLen = 2
  IdleExpiry = "quiet"
SYMMETRY ServerSymmetry
INVARIANTS TypeOK ResponsesInOrder
