SPECIFICATION FairSpec
CONSTANTS
  c1 = c1  c2 = c2  i1 = i1  i2 = i2  i3 = i3  NIL = NIL
  N = 2
  Clients = {c1, c2}
  Roots <- TwoClients
  Items = {i1, i2, i3}
  Fork <- OneForks
CHECK_DEADLOCK FALSE
INVARIANTS ItemsKept
PROPERTIES AwakeWorkerFindsWork WaitReturnsOrStranded
