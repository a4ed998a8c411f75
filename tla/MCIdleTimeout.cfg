SPECIFICATION IdleSpec
CONSTANTS
  Fds = {f1, f2}
  Times = {0, 1, 2, 3, 4, 5}
  None = None
  MaxNodes = 3
  Timeout = 2
  MaxClock = 3
SYMMETRY FdSymmetry
INVARIANTS IdleTypeOK NoDoubleExpiry
PROPERTIES ImplementsTimers ExactlyIdle
