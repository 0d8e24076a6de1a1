\* Two queues of six words with a window of four, three instructions in all; one jump
\* back to the start and one queue allocated anew.  An SPU that walks an old lap again
\* (CommandFifoJump.cfg) ends at MaxExecuted or behind the end of the buffer, so
\* behaviours may stop.
CONSTANTS
  Queues = {q1, q2}
  NoQueue = NoQueue
  LineWords = 2
  FifoWords = 4
  EndWord = 6
  MaxCommands = 3
  MaxBatch = 2
  MaxLaps = 1
  MaxReuse = 1
  MaxExecuted = 4
SPECIFICATION Spec
INVARIANTS TypeOK StraightIsExecuted QueueExecutesItsOwn
PROPERTIES WritePointerIsTheClients StreamSpec
CHECK_DEADLOCK FALSE
