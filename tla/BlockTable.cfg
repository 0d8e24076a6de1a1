\* Two queue slots and one data slot, two to a word; two mmap addresses, one
\* connection.
CONSTANTS
  NumCommand = 2
  NumBuffers = 3
  WordSize = 2
  Addrs = {a1, a2}
  Conns = {c1}
  NoAddr = NoAddr
  NoAlloc = NoAlloc
  NoSlot = NoSlot
SPECIFICATION SpuFairSpec
INVARIANTS TypeOK QueueMemoryStays NoSharedSlot LockAccounting
PROPERTIES LifetimeSpec EveryQueueIsServed GivenUpIsReclaimed
