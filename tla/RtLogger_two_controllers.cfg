SPECIFICATION Spec
CONSTANTS
  w1 = w1
  w2 = w2
  c1 = c1
  c2 = c2
  e1 = e1
  e2 = e2
  e3 = e3
  k1 = k1
  Writer = {w1}
  Controller = {c1, c2}
  Entry = {e1, e2, e3}
  Level <- MCLevel
  Sink = {k1}
  SinkLevel <- MCErrorSink
  RingSize = 2
  MaxSinks = 1
  MinLevels = {5}
  NoEntry = NoEntry
  NoThread = NoThread
INVARIANTS DispatchedInOrder NoTornCopy
