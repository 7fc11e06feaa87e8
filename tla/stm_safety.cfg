SPECIFICATION Spec
CONSTANTS
  r1 = r1  r2 = r2  t1 = t1  t2 = t2  NIL = NIL
  Refs = {r1, r2}
  Threads = {t1, t2}
  Values = {0, 1, 2}
  Fns <- MCFns
  Accepts <- RejectsTwo
  FaultyWatch = {}
  MovingGC = FALSE
  Ops = {"deref", "ref-set", "alter", "commute", "ensure"}
  MaxOps = 2
  MaxDosyncs = 1
  MaxRetries = 1
SYMMETRY Symmetry
INVARIANTS ReadsCurrent ConflictHasCause
PROPERTIES AtomicTransactions
