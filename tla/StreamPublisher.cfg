SPECIFICATION FairSpec
CONSTANTS
  Executions = {e1, e2}
  Partitions = {"p", "q"}
  PartitionOf <- OneOfThree
  QueueLimit = 2
INVARIANTS DoneIsComplete WrittenInOrder
PROPERTY ExecutionEnds
CHECK_DEADLOCK FALSE
