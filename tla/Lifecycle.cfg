SPECIFICATION LifecycleFairSpec
CONSTANTS
  Workers = {w1, w2}
  Callers = {Main}
  Tasks = {1, 2, 3}
  None = None
  Main = Main
  MaxLines = 2
INVARIANTS LifecycleTypeOK ExactlyOnce NoLostWakeup
INVARIANTS WrittenInOrder AllOut CleanExit
PROPERTIES EventuallyRun Flushed Ends
