SPECIFICATION Spec
CONSTANTS
  Nil = Nil
  Unresolved = Unresolved
  Abandoned = Abandoned
  Error = Error
  Xf <- MCXf
  Results <- MCResults
  Topic <- MCTopic
  Setups <- AllSetups
CHECK_DEADLOCK FALSE
INVARIANTS DeliversInOrder ClosedMeansAll
PROPERTIES UnsubscribedIsQuiet EndReaches AltsReturn
