SPECIFICATION FairSpec
CONSTANTS
  w1 = w1  w2 = w2  a1 = a1  a2 = a2  NIL = NIL
  Workers = {w1, w2}
  Awaiters = {a1, a2}
  Timed = {a2}
  Modes = {"fail", "continue"}
  MaySignal = TRUE
  MaxSends = 2
  MaxRestarts = 1
INVARIANTS OneWorker InOrderOnce NoLostUpdate AwaitMeansDone
PROPERTIES NobodyStuck
