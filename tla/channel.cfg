SPECIFICATION Spec
CONSTANTS
  p1 = p1  p2 = p2  t1 = t1  t2 = t2  o = o
  v1 = v1  v2 = v2  v3 = v3  v4 = v4
  Threads = {p1, p2, t1, t2, o}
  Values = {v1, v2, v3, v4}
  Filtered = {v4}
  Setups <- AllSetups
  NoValue = NoValue
  Abandoned = Abandoned
CHECK_DEADLOCK FALSE
INVARIANTS AcceptedNotLost RefusedNeverTaken
PROPERTIES FifoOrder PutSeesSpace PairMeets CloseFreesPutters
