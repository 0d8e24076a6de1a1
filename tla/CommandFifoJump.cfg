\* One queue and one jump back to the start.
CONSTANTS
  Queues = {q1}
  NoQueue = NoQueue
  LineWords = 2
  FifoWords = 4
  EndWord = 6
  MaxCommands = 3
  MaxBatch = 2
  MaxLaps = 1
  MaxReuse = 0
  MaxExecuted = 4
SPECIFICATION Spec
INVARIANTS EmptyMeansExecuted
CHECK_DEADLOCK FALSE
