\* One connected client that flushes once.
CONSTANTS
  Clients = {c1}
  Nil = Nil
  MaxFlushes = 1
SPECIFICATION Spec
PROPERTIES EveryFlushIsAnswered
