\* Violates ShaderIsRetained: a client vanishes while a triangle with its pixel shader
\* is pending.
CONSTANTS
  Clients = {c1}
  Queues = {q1}
  NumFrames = 2
  NULL = NULL
  MaxFlips = 2
  MaxCommands = 4
  MaxPending = 2
SPECIFICATION Spec
INVARIANT ShaderIsRetained
CHECK_DEADLOCK FALSE
