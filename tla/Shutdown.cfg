SPECIFICATION FairSpec
CONSTANTS
  h1 = h1
  h2 = h2
  h3 = h3
  c1 = c1
  w1 = w1
  c2 = c2
  Handlers = {h1, h2, h3}
  Hanging = {h3}
  Callers = {c1, c2}
  Watchers = {w1}
  MaxSignals = 2
CHECK_DEADLOCK FALSE
INVARIANTS
  ShutdownInv
  ReverseOrderOnce
  ReturnedMeansRun
PROPERTIES
  SignalEndsProcess
  CallsReturn
  OnceSpec
