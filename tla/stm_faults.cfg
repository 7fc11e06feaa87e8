SPECIFICATION FairSpec
CONSTANTS
  r1 = r1  r2 = r2  t1 = t1  t2 = t2  NIL = NIL
  Refs = {r1, r2}
  Threads = {t1, t2}
  Values = {0}
  Fns <- MCFns
  Accepts <- AcceptAll
  FaultyWatch = {r1}
  MovingGC = TRUE
  Ops = {"alter"}
  MaxOps = 2
  MaxDosyncs = 1
  MaxRetries = 0
CHECK_DEADLOCK FALSE
INVARIANTS NoWaitCycle
PROPERTIES DosyncEnds
