----------------------------- MODULE BlockTable -----------------------------
(***************************************************************************)
(* The block table shared by the server and the primary SPU: the lock      *)
(* bytes and buffer addresses of server/blockmanagement.c, the allocation  *)
(* lists of server/connection.c that own the slots, and the queue locking  *)
(* loop process_queues of server/primaryspu/main.c.                        *)
(*                                                                         *)
(* A lock byte is -1 when the slot is free, 0 when it may be freed, and    *)
(* otherwise counts the client (1) plus the SPU while it works on the      *)
(* queue.  Both processors change it with load-and-reserve and             *)
(* store-conditional: the server (ppu) on words of the table, the SPU on   *)
(* its whole first cache line.  A store by either one kills the            *)
(* reservation of the other.                                               *)
(*                                                                         *)
(* The lists of a connection are one function from the mmapped address,    *)
(* which is what an allocation is unique by, to the allocation.            *)
(***************************************************************************)
EXTENDS Integers, FiniteSets

CONSTANTS NumCommand,  \* MAX_COMMAND_BUFFERS: slots for command queues
          NumBuffers,  \* MAX_DATA_BUFFERS: all slots
          WordSize,    \* lock bytes per lwarx/stwcx. word
          Addrs,       \* the memory mmap can return
          Conns,       \* client connections
          NoAddr, NoAlloc, NoSlot

ASSUME BlockTableAssumption ==
  /\ NumCommand \in Nat \ {0}
  /\ NumBuffers \in Nat
  /\ NumCommand < NumBuffers
  /\ WordSize \in Nat \ {0}
  /\ NoAddr \notin Addrs

Slots == 0 .. (NumBuffers - 1)
QueueSlots == 0 .. (NumCommand - 1)

ASSUME SentinelAssumption ==
  /\ NoAlloc \notin [slot : Slots, conn : Conns, disposed : BOOLEAN]
  /\ NoSlot \notin Slots

VARIABLES
  lock,     \* _block_mgr_lock_table
  ea,       \* _block_mgr_ea_table
  allocs,   \* the Allocation nodes of all connections, by n->buffer
  open,     \* connections whose fd is not yet -1
  resv,     \* the processors that hold a live reservation on the lock line
  ppc,      \* where the server's main thread is
  ppuAddr,  \* the buffer it works on
  ppuConn,  \* the connection it works for
  ppuBase,  \* the loop variable i of blockManagementAllocateBlock
  ppuSlot,  \* the slot it works on
  ppuWord,  \* the word it loaded
  ppuTodo,  \* the allocations processOutstandingRequests has still to visit
  spc,      \* where the primary SPU is
  line,     \* buf_ptr: its copy of the lock line
  current, stopat, nextQueue,   \* of process_queues
  spuAddr   \* the address process_queue reads the queue at

tableVars == <<lock, ea, resv>>
ppuLocals == <<ppc, ppuAddr, ppuBase, ppuSlot, ppuWord>>
ppuVars   == <<allocs, open, ppuConn, ppuTodo, ppuLocals>>
spuVars   == <<spc, line, current, stopat, nextQueue, spuAddr>>
vars      == <<tableVars, ppuVars, spuVars>>

LockValue  == -1 .. 2
Allocation == [slot : Slots, conn : Conns, disposed : BOOLEAN]

\* The slots whose lock bytes lie in the word of slot s.
Word(s) == {t \in Slots : t \div WordSize = s \div WordSize}

Mapped(a) == allocs[a] # NoAlloc

-----------------------------------------------------------------------------
(* Atomic accesses to the lock line.  A processor's copy is a local of the *)
(* function that loaded it: Blank once that function is through with it.   *)

Blank == [s \in Slots |-> -1]

PpuLoad ==
  /\ ppuWord' = [s \in Slots |-> IF s \in Word(ppuSlot) THEN lock[s] ELSE -1]
  /\ resv' = resv \cup {"ppu"}

\* stwcx. succeeds exactly while the reservation of lwarx is alive.
PpuStored == "ppu" \in resv

PpuStore(value) ==
  /\ lock' = [s \in Slots |-> IF s = ppuSlot THEN value
                              ELSE IF s \in Word(ppuSlot) THEN ppuWord[s]
                              ELSE lock[s]]
  /\ resv' = {}

SpuLoad ==
  /\ line' = lock
  /\ resv' = resv \cup {"spu"}

\* Mutant: the SPU stores without asking for the outcome of PUTLLC.
SpuStoredAlways == TRUE

\* PUTLLC succeeds exactly while the reservation of GETLLAR is alive.
SpuStored == "spu" \in resv

SpuStore(value) ==
  /\ lock' = [line EXCEPT ![current] = value]
  /\ resv' = {}

-----------------------------------------------------------------------------
(* The server: the requests of a connection.                               *)

Goto(pc) == ppc' = pc

\* The locals of the server's functions go out of scope.
Return(pc) ==
  /\ Goto(pc)
  /\ ppuAddr' = NoAddr
  /\ ppuBase' = 0
  /\ ppuSlot' = 0
  /\ ppuWord' = Blank

Connect(c) ==
  /\ ppc = "poll"
  /\ c \notin open
  /\ \A a \in Addrs : Mapped(a) => allocs[a].conn # c
  /\ open' = open \cup {c}
  /\ UNCHANGED <<tableVars, spuVars, allocs, ppuConn, ppuTodo, ppuLocals>>

\* allocateBuffer up to the call of blockManagementAllocateBlock: mmap has
\* returned an address that is not in use.
RequestBuffer(c, queue, a) ==
  /\ ppc = "poll"
  /\ c \in open
  /\ ~Mapped(a)
  /\ ppuAddr' = a
  /\ ppuConn' = c
  /\ ppuBase' = IF queue THEN 0 ELSE NumCommand
  /\ ppuSlot' = ppuBase'
  /\ Goto("alloc_lwarx")
  /\ UNCHANGED <<tableVars, spuVars, allocs, open, ppuWord, ppuTodo>>

AllocEnd == IF ppuBase < NumCommand THEN NumCommand ELSE NumBuffers

\* Mutant: a slot that may be freed counts as free.
FreeInWordEager == {s \in Word(ppuSlot) : lock[s] <= 0}

FreeInWord == {s \in Word(ppuSlot) : lock[s] < 0}

\* lwarx finds a free byte in the word: take the first.
AllocLoad ==
  /\ ppc = "alloc_lwarx"
  /\ PpuLoad
  /\ \E s \in FreeInWord : (\A t \in FreeInWord : s <= t) /\ ppuSlot' = s
  /\ Goto("alloc_ea")
  /\ UNCHANGED <<lock, ea, spuVars, allocs, open, ppuAddr, ppuBase, ppuConn, ppuTodo>>

\* It finds none: on with the next word, or OUT_OF_BUFFERS, when the memory is
\* unmapped again and no allocation is linked.
AllocNextWord ==
  /\ ppc = "alloc_lwarx"
  /\ FreeInWord = {}
  /\ resv' = resv \cup {"ppu"}
  /\ \/ /\ ppuBase + WordSize < AllocEnd
        /\ ppuBase' = ppuBase + WordSize
        /\ ppuSlot' = ppuBase + WordSize
        /\ UNCHANGED <<ppc, ppuAddr, ppuWord>>
     \/ ppuBase + WordSize >= AllocEnd /\ Return("poll")
  /\ UNCHANGED <<lock, ea, spuVars, allocs, open, ppuConn, ppuTodo>>

\* The address goes into the table, and lwsync orders it, before the lock byte.
AllocWriteEa ==
  /\ ppc = "alloc_ea"
  /\ ea' = [ea EXCEPT ![ppuSlot] = ppuAddr]
  /\ Goto("alloc_stwcx")
  /\ UNCHANGED <<lock, resv, spuVars, allocs, open, ppuAddr, ppuConn, ppuBase,
                 ppuSlot, ppuWord, ppuTodo>>

AllocStore ==
  /\ ppc = "alloc_stwcx"
  /\ \/ PpuStored /\ PpuStore(1) /\ Goto("alloc_link") /\ UNCHANGED ppuSlot
     \/ ~PpuStored /\ Goto("alloc_lwarx") /\ ppuSlot' = ppuBase /\ UNCHANGED <<lock, resv>>
  /\ ppuWord' = Blank
  /\ UNCHANGED <<ea, spuVars, allocs, open, ppuAddr, ppuConn, ppuBase, ppuTodo>>

\* The rest of allocateBuffer: link the allocation and send the reply.
AllocLink ==
  /\ ppc = "alloc_link"
  /\ allocs' = [allocs EXCEPT ![ppuAddr] =
                  [slot |-> ppuSlot, conn |-> ppuConn, disposed |-> FALSE]]
  /\ Return("poll")
  /\ UNCHANGED <<tableVars, spuVars, open, ppuConn, ppuTodo>>

-----------------------------------------------------------------------------
(* The server: giving a buffer up.                                         *)

Dispose(a) ==
  /\ allocs' = [allocs EXCEPT ![a].disposed = TRUE]
  /\ ppuSlot' = allocs[a].slot
  /\ ppuConn' = allocs[a].conn
  /\ Goto("dispose_lwarx")
  /\ UNCHANGED <<tableVars, spuVars, open, ppuAddr, ppuBase, ppuWord, ppuTodo>>

\* freeBuffer: a request for a buffer already given up changes nothing.
FreeBuffer(a) ==
  /\ ppc = "poll"
  /\ Mapped(a)
  /\ allocs[a].conn \in open
  /\ ~allocs[a].disposed
  /\ Dispose(a)

\* handleDisconnect: the connection is gone, then each of its buffers is
\* given up that the client had not given up itself.
Disconnect(c) ==
  /\ ppc = "poll"
  /\ c \in open
  /\ open' = open \ {c}
  /\ ppuConn' = c
  /\ Goto("disconnect")
  /\ UNCHANGED <<tableVars, spuVars, allocs, ppuAddr, ppuBase, ppuSlot, ppuWord, ppuTodo>>

NotGivenUp(c) == {a \in Addrs : Mapped(a) /\ allocs[a].conn = c /\ ~allocs[a].disposed}

DisconnectNext ==
  /\ ppc = "disconnect"
  /\ \E a \in NotGivenUp(ppuConn) : Dispose(a)

DisconnectDone ==
  /\ ppc = "disconnect"
  /\ NotGivenUp(ppuConn) = {}
  /\ Return("poll")
  /\ UNCHANGED <<tableVars, spuVars, allocs, open, ppuConn, ppuTodo>>

\* blockManagementBlockCountDispose.
DisposeLoad ==
  /\ ppc = "dispose_lwarx"
  /\ PpuLoad
  /\ Goto("dispose_stwcx")
  /\ UNCHANGED <<lock, ea, spuVars, allocs, open, ppuAddr, ppuConn, ppuBase, ppuSlot, ppuTodo>>

DisposeStore ==
  /\ ppc = "dispose_stwcx"
  /\ \/ /\ PpuStored
        /\ PpuStore(ppuWord[ppuSlot] - 1)
        /\ Return(IF ppuConn \in open THEN "poll" ELSE "disconnect")
     \/ /\ ~PpuStored
        /\ Goto("dispose_lwarx")
        /\ ppuWord' = Blank
        /\ UNCHANGED <<lock, resv, ppuAddr, ppuBase, ppuSlot>>
  /\ UNCHANGED <<ea, spuVars, allocs, open, ppuConn, ppuTodo>>

-----------------------------------------------------------------------------
(* The server: processOutstandingRequests, which follows every poll.       *)

SweepStart ==
  /\ ppc = "poll"
  /\ ppuTodo' = {a \in Addrs : Mapped(a)}
  /\ Goto("sweep")
  /\ UNCHANGED <<tableVars, spuVars, allocs, open, ppuAddr, ppuConn, ppuBase,
                 ppuSlot, ppuWord>>

SweepNext ==
  /\ ppc = "sweep"
  /\ \E a \in ppuTodo :
       /\ ppuTodo' = ppuTodo \ {a}
       /\ ppuAddr' = a
       /\ ppuSlot' = allocs[a].slot
  /\ Goto("free_lwarx")
  /\ UNCHANGED <<tableVars, spuVars, allocs, open, ppuConn, ppuBase, ppuWord>>

SweepDone ==
  /\ ppc = "sweep"
  /\ ppuTodo = {}
  /\ Goto("poll")
  /\ UNCHANGED <<tableVars, spuVars, allocs, open, ppuAddr, ppuConn, ppuBase,
                 ppuSlot, ppuWord, ppuTodo>>

\* Mutant: the SPU's count is not waited for.
MayFreeHeld(byte) == byte <= 1

\* Mutant: only a slot that is already free may be freed.
MayFreeNever(byte) == byte < 0

\* blockManagementTryFree.
MayFree(byte) == byte <= 0

FreeLoad ==
  /\ ppc = "free_lwarx"
  /\ resv' = resv \cup {"ppu"}
  /\ \/ /\ MayFree(lock[ppuSlot])
        /\ PpuLoad
        /\ Goto("free_stwcx")
        /\ UNCHANGED <<ppuAddr, ppuBase, ppuSlot>>
     \/ ~MayFree(lock[ppuSlot]) /\ Return("sweep")
  /\ UNCHANGED <<lock, ea, spuVars, allocs, open, ppuConn, ppuTodo>>

FreeStore ==
  /\ ppc = "free_stwcx"
  /\ \/ PpuStored /\ PpuStore(-1) /\ Goto("unmap")
     \/ ~PpuStored /\ Goto("free_lwarx") /\ UNCHANGED <<lock, resv>>
  /\ ppuWord' = Blank
  /\ UNCHANGED <<ea, spuVars, allocs, open, ppuAddr, ppuConn, ppuBase, ppuSlot, ppuTodo>>

\* Unlink the allocation, munmap its memory, free the node.
Unmap ==
  /\ ppc = "unmap"
  /\ allocs' = [allocs EXCEPT ![ppuAddr] = NoAlloc]
  /\ Return("sweep")
  /\ UNCHANGED <<tableVars, spuVars, open, ppuConn, ppuTodo>>

-----------------------------------------------------------------------------
(* The primary SPU: process_queues.                                        *)

SpuGoto(pc) == spc' = pc

\* Mutant: no wrap after the last queue.
NextSlotNoWrap(s) == s + 1

\* Mutant: the scan wraps one queue early.
NextSlotEarlyWrap(s) == IF s >= NumCommand - 2 THEN 0 ELSE s + 1

NextSlot(s) == IF s = NumCommand - 1 THEN 0 ELSE s + 1

\* The end of the do-while loop, with the copy the next round has; after the last
\* queue main calls process_queues again, which starts at next_queue and reads anew.
Advance(copy) ==
  \/ /\ NextSlot(current) # stopat
     /\ current' = NextSlot(current)
     /\ SpuGoto("scan")
     /\ line' = copy
     /\ UNCHANGED stopat
  \/ /\ NextSlot(current) = stopat
     /\ current' = nextQueue
     /\ stopat' = nextQueue
     /\ SpuGoto("getllar")
     /\ line' = Blank

SpuGetLine ==
  /\ spc = "getllar"
  /\ SpuLoad
  /\ SpuGoto("scan")
  /\ UNCHANGED <<lock, ea, ppuVars, current, stopat, nextQueue, spuAddr>>

\* Mutant: a queue given up is still processed.
ProcessableGivenUp(byte) == byte >= 0

Processable(byte) == byte > 0

SpuSkip ==
  /\ spc = "scan"
  /\ ~Processable(line[current])
  /\ Advance(line)
  /\ UNCHANGED <<tableVars, ppuVars, nextQueue, spuAddr>>

SpuLockFails ==
  /\ spc = "scan"
  /\ Processable(line[current])
  /\ ~SpuStored
  /\ SpuGoto("getllar")
  /\ line' = Blank
  /\ UNCHANGED <<tableVars, ppuVars, current, stopat, nextQueue, spuAddr>>

SpuLock ==
  /\ spc = "scan"
  /\ Processable(line[current])
  /\ SpuStored
  /\ SpuStore(line[current] + 1)
  /\ SpuGoto("read_ea")
  /\ line' = Blank        \* process_queue uses buf_ptr for the queue's header
  /\ UNCHANGED <<ea, ppuVars, current, stopat, nextQueue, spuAddr>>

\* The DMA at the top of process_queue.
SpuReadEa ==
  /\ spc = "read_ea"
  /\ spuAddr' = ea[current]
  /\ SpuGoto("process")
  /\ UNCHANGED <<tableVars, ppuVars, line, current, stopat, nextQueue>>

\* process_queue returns.  While spc is "process" it reads and writes the
\* memory at spuAddr; CommandFifo models what it does there.
SpuProcessed ==
  /\ spc = "process"
  /\ nextQueue' = NextSlot(current)
  /\ SpuGoto("unlock_getllar")
  /\ UNCHANGED <<tableVars, ppuVars, line, current, stopat, spuAddr>>

SpuUnlockGet ==
  /\ spc = "unlock_getllar"
  /\ SpuLoad
  /\ SpuGoto("unlock_putllc")
  /\ UNCHANGED <<lock, ea, ppuVars, current, stopat, nextQueue, spuAddr>>

SpuUnlockFails ==
  /\ spc = "unlock_putllc"
  /\ ~SpuStored
  /\ SpuGoto("unlock_getllar")
  /\ line' = Blank
  /\ UNCHANGED <<tableVars, ppuVars, current, stopat, nextQueue, spuAddr>>

SpuUnlock ==
  /\ spc = "unlock_putllc"
  /\ SpuStored
  /\ SpuStore(line[current] - 1)
  /\ spuAddr' = NoAddr
  /\ Advance(lock')
  /\ UNCHANGED <<ea, ppuVars, nextQueue>>

-----------------------------------------------------------------------------
Init ==
  /\ lock = [s \in Slots |-> -1]
  /\ ea = [s \in Slots |-> NoAddr]
  /\ resv = {}
  /\ allocs = [a \in Addrs |-> NoAlloc]
  /\ open = {}
  /\ ppc = "poll"
  /\ ppuAddr = NoAddr
  /\ ppuConn \in Conns
  /\ ppuBase = 0
  /\ ppuSlot = 0
  /\ ppuWord = Blank
  /\ ppuTodo = {}
  /\ spc = "getllar"
  /\ line = Blank
  /\ current = 0
  /\ stopat = 0
  /\ nextQueue = 0
  /\ spuAddr = NoAddr

PpuNext ==
  \/ \E c \in Conns : Connect(c) \/ Disconnect(c)
  \/ \E c \in Conns, queue \in BOOLEAN, a \in Addrs : RequestBuffer(c, queue, a)
  \/ AllocLoad \/ AllocNextWord \/ AllocWriteEa \/ AllocStore \/ AllocLink
  \/ \E a \in Addrs : FreeBuffer(a)
  \/ DisconnectNext \/ DisconnectDone
  \/ DisposeLoad \/ DisposeStore
  \/ SweepStart \/ SweepNext \/ SweepDone
  \/ FreeLoad \/ FreeStore \/ Unmap

SpuNext ==
  \/ SpuGetLine \/ SpuSkip \/ SpuLockFails \/ SpuLock
  \/ SpuReadEa \/ SpuProcessed
  \/ SpuUnlockGet \/ SpuUnlockFails \/ SpuUnlock

Next == PpuNext \/ SpuNext

Spec == Init /\ [][Next]_vars

-----------------------------------------------------------------------------
(* Properties.                                                             *)

SpuHolds(s) ==
  spc \in {"read_ea", "process", "unlock_getllar", "unlock_putllc"} /\ current = s

\* The memory the server has mapped: that of its allocations and that of the
\* allocation it is making.
Backed(a) ==
  \/ Mapped(a)
  \/ a = ppuAddr /\ ppc \in {"alloc_lwarx", "alloc_ea", "alloc_stwcx", "alloc_link"}

\* a is the memory that slot s names.
Names(s, a) ==
  \/ Mapped(a) /\ allocs[a].slot = s /\ ~(ppc = "unmap" /\ ppuAddr = a)
  \/ ppc = "alloc_link" /\ ppuAddr = a /\ ppuSlot = s

\* The client's count is in the lock byte: it is not given up, or the decrement
\* that gives it up has not been stored yet.
ClientHolds(s) ==
  \/ \E a \in Addrs : Mapped(a) /\ allocs[a].slot = s /\ ~allocs[a].disposed
  \/ ppc \in {"alloc_link", "dispose_lwarx", "dispose_stwcx"} /\ ppuSlot = s

\* Every variable has the type the code gives it; a lock byte never leaves
\* -1 .. 2, so the signed char cannot wrap.
TypeOK ==
  /\ lock \in [Slots -> LockValue]
  /\ ea \in [Slots -> Addrs \cup {NoAddr}]
  /\ allocs \in [Addrs -> Allocation \cup {NoAlloc}]
  /\ open \subseteq Conns
  /\ resv \subseteq {"ppu", "spu"}
  /\ ppc \in {"poll", "alloc_lwarx", "alloc_ea", "alloc_stwcx", "alloc_link",
              "disconnect", "dispose_lwarx", "dispose_stwcx",
              "sweep", "free_lwarx", "free_stwcx", "unmap"}
  /\ ppuAddr \in Addrs \cup {NoAddr}
  /\ ppuConn \in Conns
  /\ ppuBase \in Slots
  /\ ppuSlot \in Slots
  /\ ppuWord \in [Slots -> LockValue]
  /\ ppuTodo \subseteq Addrs
  /\ spc \in {"getllar", "scan", "read_ea", "process", "unlock_getllar", "unlock_putllc"}
  /\ line \in [Slots -> LockValue]
  /\ current \in QueueSlots
  /\ stopat \in QueueSlots
  /\ nextQueue \in QueueSlots
  /\ spuAddr \in Addrs \cup {NoAddr}

\* While the SPU works on a queue, the memory it reads is mapped and is the
\* memory of that queue: freeing, disconnecting and reusing slots and addresses
\* in the server never pull it away (doc/locking_on_server.txt, "so that the
\* server doesn't free memory that the SPU might still be using").
QueueMemoryStays ==
  spc = "process" => Backed(spuAddr) /\ Names(current, spuAddr)

\* No two buffers of any clients share a slot: an id a client was given names
\* its own memory (blockManagementAllocateBlock against TryFree and the SPU).
NoSharedSlot ==
  \A s \in Slots, a, b \in Addrs : Names(s, a) /\ Names(s, b) => a = b

\* The lock byte is exactly the count it stands for, whatever the interleaving
\* of the word and line stores: -1 for a slot that names nothing, otherwise one
\* for the client that has not given it up and one for the SPU that holds it.
LockAccounting ==
  \A s \in Slots :
    lock[s] = IF \E a \in Addrs : Names(s, a)
              THEN (IF ClientHolds(s) THEN 1 ELSE 0) + (IF SpuHolds(s) THEN 1 ELSE 0)
              ELSE -1

\* The state of BufferLifetime that a state of the table stands for.
SlotMemory == [s \in Slots |-> IF lock[s] = -1 THEN NoAddr ELSE ea[s]]
SlotsGivenUp == {s \in Slots : lock[s] = IF SpuHolds(s) THEN 1 ELSE 0}
SpuReads == \E s \in QueueSlots : SpuHolds(s)
SlotRead == IF SpuReads THEN current ELSE NoSlot
MemoryRead == IF SpuReads THEN ea[current] ELSE NoAddr

Lifetime == INSTANCE BufferLifetime WITH
  memory <- SlotMemory, given <- SlotsGivenUp, reading <- SlotRead, source <- MemoryRead

\* The table implements the lifetime promised to the SPU: a slot is allocated,
\* given up, read and recycled only in the order BufferLifetime allows.
LifetimeSpec == Lifetime!Spec

-----------------------------------------------------------------------------
(* Fairness.  The SPU and the server's main thread keep running.  ppoll     *)
(* returns at the latest after its one second timeout and a poll handles at *)
(* most one request per connection, so a sweep always comes again.  Stores  *)
(* to the lock line do not fail for ever.                                   *)
SpuFairness == WF_vars(SpuNext) /\ SF_vars(SpuLock \/ SpuUnlock)

PpuFairness ==
  /\ WF_vars(PpuNext)
  /\ SF_vars(SweepStart)
  /\ SF_vars((AllocStore \/ DisposeStore \/ FreeStore) /\ PpuStored)

SpuFairSpec == Spec /\ SpuFairness

\* A buffer that its client gave up, or whose client is gone, does not stay so: it is
\* unmapped in the end, as nothing takes back that it was given up.  Neither the SPU's
\* locking nor a lost reservation leaks it.
GivenUpIsReclaimed ==
  PpuFairness => \A a \in Addrs : []<>~(Mapped(a) /\ allocs[a].disposed)

\* The scan starves no queue: one that stays allocated and not given up is
\* processed again and again.
EveryQueueIsServed ==
  \A s \in QueueSlots : []<>(~ClientHolds(s) \/ (spc = "process" /\ current = s))
=============================================================================
