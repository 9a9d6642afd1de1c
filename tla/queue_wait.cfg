SPECIFICATION Spec
CONSTANTS
  g1 = g1
  g2 = g2
  inner = inner
  first = first
  second = second
  c1 = c1
  c2 = c2
  c3 = c3
  Env = env
  Goroutine = {g1, g2}
  Event = {inner, first, second}
  Call = {c1, c2, c3}
  Work <- MCWork
  Body <- MCBody
  Main <- MCMain
INVARIANTS
  TypeOK
  FlagTellsQueued
  OneDrain
PROPERTIES
  FifoSpec
  PolledCallsRun
  EventEndsWait
CHECK_DEADLOCK FALSE
