\* Two clients that connect, two flushes between them.
CONSTANTS
  Clients = {c1, c2}
  Nil = Nil
  MaxFlushes = 2
SPECIFICATION Spec
INVARIANTS TypeOK AnswerMeansFlushed GivenUpOnce WalkFindsTheOpen
PROPERTIES RecordedIsAnswered WalkEnds
