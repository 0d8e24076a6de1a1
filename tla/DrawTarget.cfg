\* Two clients and two queue slots; two frames to draw; a triangle each and a clear
\* each, buffers of two triangles.
CONSTANTS
  Clients = {c1, c2}
  Queues = {q1, q2}
  NumFrames = 2
  NULL = NULL
  MaxFlips = 2
  MaxCommands = 4
  MaxPending = 2
SPECIFICATION FairSpec
INVARIANTS TypeOK FlushedMeansDrawn ShownIsFinished ShaderOutlivesTriangle
PROPERTIES OnlyTheFirstGoesAstray PrimitivesAreOnesOwn FrameIsFinished
CHECK_DEADLOCK FALSE
