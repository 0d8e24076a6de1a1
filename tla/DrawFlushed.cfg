\* Violates FlushCompletes: glFlush returns while a triangle of the client is pending
\* on the frame before.
CONSTANTS
  Clients = {c1}
  Queues = {q1}
  NumFrames = 2
  NULL = NULL
  MaxFlips = 2
  MaxCommands = 4
  MaxPending = 2
SPECIFICATION Spec
INVARIANT FlushCompletes
CHECK_DEADLOCK FALSE
