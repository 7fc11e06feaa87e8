SPECIFICATION Spec
CONSTANTS
  Threads = {t1, t2, t3}
  Keys = {1, 2}
  Values = {0, 2}
  MaxValue = 4
  Validators = {{0, 1, 2, 3, 4, 5}, {0, 1, 2}}
  Ops = {"reset", "swap", "cas", "reset-vals", "add-watch", "remove-watch", "set-validator"}
  MaxCalls = 3
CHECK_DEADLOCK FALSE
INVARIANTS NoLostSwap ValueValid WatchSeesTransitions WatchesExact
