SPECIFICATION Spec
CONSTANTS
  ka = ka  kb = kb  kc = kc  kd = kd
  Keys = {ka, kb, kc, kd}
  Values = {1}
  Hash <- ChunksOf
  Threads = {t1, t2}
  NoThread = NoThread
  Kinds = {"dict", "vector"}
  NPers = {1, 2}
  NTrans = 2
  Loads <- PairLists
  B = 2
  Unset = Unset
  Lengths = {0, 3, 8}
  MaxCalls <- CallsOf
SYMMETRY Symmetry
CHECK_DEADLOCK FALSE
INVARIANTS PersistentKeeps TransientExact NotShared
