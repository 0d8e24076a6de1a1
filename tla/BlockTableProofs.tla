-------------------------- MODULE BlockTableProofs --------------------------
(***************************************************************************)
(* Proofs about BlockTable for every number of slots, word size, set of    *)
(* addresses and set of connections.                                       *)
(***************************************************************************)
EXTENDS BlockTable, TLAPS

Named(s) == \E a \in Addrs : Names(s, a)

\* A live reservation means that the copy is still what the table holds.
ReservationInv ==
  /\ "ppu" \in resv /\ ppc \in {"alloc_ea", "alloc_stwcx", "dispose_stwcx", "free_stwcx"}
       => \A s \in Word(ppuSlot) : ppuWord[s] = lock[s]
  /\ "spu" \in resv /\ spc \in {"scan", "unlock_putllc"} => line = lock

\* What the server's program counter says of its locals.
ServerInv ==
  /\ ppc \in {"alloc_lwarx", "alloc_ea", "alloc_stwcx", "alloc_link"}
       => ppuAddr \in Addrs /\ ~Mapped(ppuAddr)
  /\ ppc \in {"alloc_ea", "alloc_stwcx"} => ~Named(ppuSlot) /\ ppuSlot \in Word(ppuBase)
  /\ ppc = "alloc_lwarx" => ppuSlot = ppuBase
  /\ ppc = "alloc_stwcx" => ea[ppuSlot] = ppuAddr
  /\ ppc \in {"dispose_lwarx", "dispose_stwcx"}
       => \E a \in Addrs : Mapped(a) /\ allocs[a].slot = ppuSlot /\ allocs[a].disposed
  /\ ppc \in {"free_lwarx", "free_stwcx", "unmap"}
       => /\ ppuAddr \in Addrs
          /\ Mapped(ppuAddr)
          /\ allocs[ppuAddr].slot = ppuSlot
          /\ ppuAddr \notin ppuTodo
  /\ ppc = "free_stwcx" => ppuWord[ppuSlot] <= 0
  /\ ppc = "unmap" => allocs[ppuAddr].disposed /\ ~Named(ppuSlot)
  /\ \A a \in ppuTodo : Mapped(a)

\* The table names the right memory and the SPU reads what it names.
NamingInv ==
  /\ NoSharedSlot
  /\ \A s \in Slots, a \in Addrs : Names(s, a) => ea[s] = a
  /\ \A s \in Slots : SpuHolds(s) => Named(s)
  /\ spc \in {"process", "unlock_getllar", "unlock_putllc"} => spuAddr = ea[current]

IInv == TypeOK /\ ReservationInv /\ ServerInv /\ NamingInv /\ LockAccounting

-----------------------------------------------------------------------------
\* A slot lies in its own word, and the slots of a word share it.
LEMMA WordFacts ==
  ASSUME NEW s \in Slots
  PROVE  /\ Word(s) \subseteq Slots
         /\ s \in Word(s)
         /\ \A t \in Word(s) : Word(t) = Word(s)
  BY DEF Word

\* The queues are slots, and the scan of process_queues stays among them.
LEMMA SlotFacts ==
  /\ Slots \subseteq Int
  /\ QueueSlots \subseteq Slots
  /\ 0 \in QueueSlots
  /\ NumCommand \in Slots
  /\ \A s \in QueueSlots : NextSlot(s) \in QueueSlots
  BY BlockTableAssumption DEF Slots, QueueSlots, NextSlot

\* The invariant holds in the empty table.
LEMMA InitIInv == Init => IInv
  BY BlockTableAssumption, SlotFacts
  DEF Init, IInv, TypeOK, ReservationInv, ServerInv, NamingInv, LockAccounting, NoSharedSlot,
      Names, Named, Mapped, SpuHolds, ClientHolds, Blank, LockValue

\* What a lock byte of -1, 0, 1 or 2 says of the client and of the SPU.
LEMMA LockFacts ==
  ASSUME IInv, NEW s \in Slots
  PROVE  /\ lock[s] \in LockValue
         /\ lock[s] = -1 <=> ~Named(s)
         /\ ClientHolds(s) => Named(s) /\ lock[s] >= 1
         /\ SpuHolds(s) => Named(s) /\ lock[s] >= 1
         /\ ~SpuHolds(s) => lock[s] <= 1
         /\ Named(s) /\ ~SpuHolds(s) /\ ~ClientHolds(s) => lock[s] = 0
         /\ Named(s) /\ ~SpuHolds(s) /\ ClientHolds(s) => lock[s] = 1
         /\ Named(s) /\ SpuHolds(s) /\ ~ClientHolds(s) => lock[s] = 1
         /\ Named(s) /\ SpuHolds(s) /\ ClientHolds(s) => lock[s] = 2
<1>1. lock[s] = IF Named(s)
                THEN (IF ClientHolds(s) THEN 1 ELSE 0) + (IF SpuHolds(s) THEN 1 ELSE 0)
                ELSE -1
  BY DEF IInv, LockAccounting, Named
<1>2. SpuHolds(s) => Named(s)
  BY DEF IInv, NamingInv
<1>3. ClientHolds(s) => Named(s)
  <2> SUFFICES ASSUME ClientHolds(s) PROVE Named(s)
    OBVIOUS
  <2>1. CASE \E a \in Addrs : Mapped(a) /\ allocs[a].slot = s /\ ~allocs[a].disposed
    BY <2>1 DEF IInv, ServerInv, Named, Names
  <2>2. CASE ppc = "alloc_link" /\ ppuSlot = s
    BY <2>2 DEF IInv, ServerInv, Named, Names
  <2>3. CASE ppc \in {"dispose_lwarx", "dispose_stwcx"} /\ ppuSlot = s
    BY <2>3 DEF IInv, ServerInv, Named, Names
  <2> QED
    BY <2>1, <2>2, <2>3 DEF ClientHolds
<1>4. lock[s] \in LockValue
  BY DEF IInv, TypeOK
<1> QED
  BY <1>1, <1>2, <1>3, <1>4 DEF LockValue

\* A store of the server keeps the table well typed.
LEMMA PpuStoreFacts ==
  ASSUME TypeOK, NEW v \in LockValue, PpuStore(v)
  PROVE  /\ lock' \in [Slots -> LockValue]
         /\ lock'[ppuSlot] = v
         /\ resv' = {}
  BY DEF TypeOK, PpuStore

\* A store of the SPU keeps the table well typed.
LEMMA SpuStoreFacts ==
  ASSUME TypeOK, NEW v \in LockValue, SpuStore(v)
  PROVE  /\ lock' \in [Slots -> LockValue]
         /\ lock' = [line EXCEPT ![current] = v]
         /\ resv' = {}
  BY SlotFacts DEF TypeOK, SpuStore

\* A store of the server under a live reservation changes its slot and nothing
\* else, although it writes the whole word.
LEMMA PpuStoreExact ==
  ASSUME IInv, PpuStored, NEW v \in LockValue, PpuStore(v),
         ppc \in {"alloc_stwcx", "dispose_stwcx", "free_stwcx"}
  PROVE  /\ ppuWord[ppuSlot] = lock[ppuSlot]
         /\ lock' = [lock EXCEPT ![ppuSlot] = v]
<1>1. \A s \in Word(ppuSlot) : ppuWord[s] = lock[s]
  BY DEF IInv, ReservationInv, PpuStored
<1>2. ppuSlot \in Word(ppuSlot)
  BY WordFacts DEF IInv, TypeOK
<1> QED
  BY <1>1, <1>2 DEF PpuStore, IInv, TypeOK

\* The same for a store of the SPU, which writes the whole line.
LEMMA SpuStoreExact ==
  ASSUME IInv, SpuStored, NEW v \in LockValue, SpuStore(v),
         spc \in {"scan", "unlock_putllc"}
  PROVE  /\ line = lock
         /\ lock' = [lock EXCEPT ![current] = v]
  BY DEF IInv, ReservationInv, SpuStored, SpuStore

\* The new values that are stored are lock bytes.
LEMMA StoredValues ==
  ASSUME IInv
  PROVE  /\ DisposeStore /\ PpuStored => ppuWord[ppuSlot] - 1 \in LockValue
         /\ SpuLock => line[current] + 1 \in LockValue
         /\ SpuUnlock => line[current] - 1 \in LockValue
<1>1. ASSUME DisposeStore, PpuStored
      PROVE  ppuWord[ppuSlot] - 1 \in LockValue
  <2>1. ClientHolds(ppuSlot) /\ ppuSlot \in Slots
    BY <1>1 DEF DisposeStore, ClientHolds, IInv, TypeOK
  <2>2. ppuWord[ppuSlot] = lock[ppuSlot]
    BY <1>1, WordFacts DEF DisposeStore, IInv, TypeOK, ReservationInv, PpuStored
  <2> QED
    BY <2>1, <2>2, LockFacts DEF LockValue
<1>2. ASSUME SpuLock
      PROVE  line[current] + 1 \in LockValue
  <2>1. ~SpuHolds(current) /\ current \in Slots /\ line = lock /\ lock[current] > 0
    BY <1>2, SlotFacts
    DEF SpuLock, SpuHolds, IInv, TypeOK, ReservationInv, SpuStored, Processable
  <2> QED
    BY <2>1, LockFacts DEF LockValue
<1>3. ASSUME SpuUnlock
      PROVE  line[current] - 1 \in LockValue
  <2>1. SpuHolds(current) /\ current \in Slots /\ line = lock
    BY <1>3, SlotFacts DEF SpuUnlock, SpuHolds, IInv, TypeOK, ReservationInv, SpuStored
  <2> QED
    BY <2>1, LockFacts DEF LockValue
<1> QED
  BY <1>1, <1>2, <1>3

-----------------------------------------------------------------------------
\* Every step keeps the types; a lock byte stays in -1 .. 2.
LEMMA TypeStep == IInv /\ [Next]_vars => TypeOK'
<1> SUFFICES ASSUME IInv, [Next]_vars PROVE TypeOK'
  OBVIOUS
<1>t. TypeOK
  BY DEF IInv
<1>m. \A a \in Addrs : Mapped(a) => allocs[a] \in Allocation
  BY <1>t DEF TypeOK, Mapped
<1>b. Blank \in [Slots -> LockValue]
  BY DEF Blank, LockValue
<1>v. LockValue = {-1, 0, 1, 2}
  BY DEF LockValue
<1>w. ASSUME PpuLoad PROVE ppuWord' \in [Slots -> LockValue]
  BY <1>w, <1>t, <1>v DEF PpuLoad, TypeOK
<1>d. ASSUME NEW a \in Addrs, Mapped(a), Dispose(a) PROVE TypeOK'
  <2>1. allocs' \in [Addrs -> Allocation \cup {NoAlloc}]
    BY <1>d, <1>t, <1>m DEF Dispose, TypeOK, Allocation
  <2> QED
    BY <1>d, <1>t, <1>m, <2>1 DEF Dispose, TypeOK, Allocation, tableVars, spuVars, Goto
<1>a. ASSUME NEW copy \in [Slots -> LockValue], Advance(copy)
      PROVE  /\ current' \in QueueSlots /\ stopat' \in QueueSlots /\ spc' \in {"scan", "getllar"}
             /\ line' \in [Slots -> LockValue]
  BY <1>a, <1>b, <1>t, SlotFacts DEF Advance, TypeOK, SpuGoto
<1> USE <1>t, <1>b, <1>v, SlotFacts DEF TypeOK, tableVars, spuVars, ppuVars, ppuLocals,
        Goto, Return, SpuGoto
<1>1. ASSUME NEW c \in Conns, Connect(c) PROVE TypeOK'
  BY <1>1 DEF Connect
<1>2. ASSUME NEW c \in Conns, Disconnect(c) PROVE TypeOK'
  BY <1>2 DEF Disconnect
<1>3. ASSUME NEW c \in Conns, NEW q \in BOOLEAN, NEW a \in Addrs, RequestBuffer(c, q, a) PROVE TypeOK'
  BY <1>3 DEF RequestBuffer
<1>4. ASSUME AllocLoad PROVE TypeOK'
  BY <1>4, <1>w DEF AllocLoad, PpuLoad, FreeInWord, Word
<1>5. ASSUME AllocNextWord PROVE TypeOK'
  BY <1>5, BlockTableAssumption DEF AllocNextWord, AllocEnd, Slots
<1>6. ASSUME AllocWriteEa PROVE TypeOK'
  BY <1>6 DEF AllocWriteEa
<1>7. ASSUME AllocStore PROVE TypeOK'
  BY <1>7, PpuStoreFacts DEF AllocStore
<1>8. ASSUME AllocLink PROVE TypeOK'
  BY <1>8 DEF AllocLink, Allocation
<1>9. ASSUME NEW a \in Addrs, FreeBuffer(a) PROVE TypeOK'
  BY <1>9, <1>d DEF FreeBuffer
<1>10. ASSUME DisconnectNext PROVE TypeOK'
  BY <1>10, <1>d DEF DisconnectNext, NotGivenUp
<1>11. ASSUME DisconnectDone PROVE TypeOK'
  BY <1>11 DEF DisconnectDone
<1>12. ASSUME DisposeLoad PROVE TypeOK'
  BY <1>12, <1>w DEF DisposeLoad, PpuLoad
<1>13. ASSUME DisposeStore PROVE TypeOK'
  BY <1>13, PpuStoreFacts, StoredValues DEF DisposeStore
<1>14. ASSUME SweepStart PROVE TypeOK'
  BY <1>14 DEF SweepStart
<1>15. ASSUME SweepNext PROVE TypeOK'
  BY <1>15, <1>m DEF SweepNext, Allocation, IInv, ServerInv
<1>16. ASSUME SweepDone PROVE TypeOK'
  BY <1>16 DEF SweepDone
<1>17. ASSUME FreeLoad PROVE TypeOK'
  BY <1>17, <1>w DEF FreeLoad, PpuLoad
<1>18. ASSUME FreeStore PROVE TypeOK'
  BY <1>18, PpuStoreFacts DEF FreeStore
<1>19. ASSUME Unmap PROVE TypeOK'
  BY <1>19 DEF Unmap
<1>20. ASSUME SpuGetLine PROVE TypeOK'
  BY <1>20 DEF SpuGetLine, SpuLoad
<1>21. ASSUME SpuSkip PROVE TypeOK'
  BY <1>21, <1>a DEF SpuSkip
<1>22. ASSUME SpuLockFails PROVE TypeOK'
  BY <1>22 DEF SpuLockFails
<1>23. ASSUME SpuLock PROVE TypeOK'
  BY <1>23, SpuStoreFacts, StoredValues DEF SpuLock
<1>24. ASSUME SpuReadEa PROVE TypeOK'
  BY <1>24 DEF SpuReadEa
<1>25. ASSUME SpuProcessed PROVE TypeOK'
  BY <1>25 DEF SpuProcessed
<1>26. ASSUME SpuUnlockGet PROVE TypeOK'
  BY <1>26 DEF SpuUnlockGet, SpuLoad
<1>27. ASSUME SpuUnlockFails PROVE TypeOK'
  BY <1>27 DEF SpuUnlockFails
<1>28. ASSUME SpuUnlock PROVE TypeOK'
  <2>1. lock' \in [Slots -> LockValue]
    BY <1>28, SpuStoreFacts, StoredValues DEF SpuUnlock
  <2>2. Advance(lock')
    BY <1>28 DEF SpuUnlock
  <2>3. /\ current' \in QueueSlots /\ stopat' \in QueueSlots /\ spc' \in {"scan", "getllar"}
        /\ line' \in [Slots -> LockValue]
    BY <2>1, <2>2, <1>a
  <2> QED
    BY <1>28, <2>1, <2>3, SpuStoreFacts, StoredValues DEF SpuUnlock
<1>90. CASE UNCHANGED vars
  BY <1>90 DEF vars
<1> QED
  BY <1>1, <1>2, <1>3, <1>4, <1>5, <1>6, <1>7, <1>8, <1>9, <1>10, <1>11, <1>12, <1>13, <1>14, <1>15, <1>16, <1>17, <1>18, <1>19, <1>20, <1>21, <1>22, <1>23, <1>24, <1>25, <1>26, <1>27, <1>28, <1>90 DEF Next, PpuNext, SpuNext

-----------------------------------------------------------------------------
\* Every step that changes the table kills the reservations on it.
LEMMA ReservationStep == IInv /\ [Next]_vars => ReservationInv'
<1> SUFFICES ASSUME IInv, [Next]_vars PROVE ReservationInv'
  OBVIOUS
<1>r. ReservationInv
  BY DEF IInv
<1>t. TypeOK
  BY DEF IInv
<1> USE <1>r, <1>t DEF ReservationInv, tableVars, spuVars, ppuVars, ppuLocals, Goto, Return, SpuGoto
<1>1. ASSUME NEW c \in Conns, Connect(c) PROVE ReservationInv'
  BY <1>1 DEF Connect
<1>2. ASSUME NEW c \in Conns, Disconnect(c) PROVE ReservationInv'
  BY <1>2 DEF Disconnect
<1>3. ASSUME NEW c \in Conns, NEW q \in BOOLEAN, NEW a \in Addrs, RequestBuffer(c, q, a) PROVE ReservationInv'
  BY <1>3 DEF RequestBuffer
<1>4. ASSUME AllocLoad PROVE ReservationInv'
  BY <1>4, WordFacts DEF AllocLoad, PpuLoad, TypeOK, FreeInWord
<1>5. ASSUME AllocNextWord PROVE ReservationInv'
  BY <1>5 DEF AllocNextWord
<1>6. ASSUME AllocWriteEa PROVE ReservationInv'
  BY <1>6 DEF AllocWriteEa
<1>7. ASSUME AllocStore PROVE ReservationInv'
  BY <1>7 DEF AllocStore, PpuStore
<1>8. ASSUME AllocLink PROVE ReservationInv'
  BY <1>8 DEF AllocLink
<1>9. ASSUME NEW a \in Addrs, FreeBuffer(a) PROVE ReservationInv'
  BY <1>9 DEF FreeBuffer, Dispose
<1>10. ASSUME DisconnectNext PROVE ReservationInv'
  BY <1>10 DEF DisconnectNext, Dispose
<1>11. ASSUME DisconnectDone PROVE ReservationInv'
  BY <1>11 DEF DisconnectDone
<1>12. ASSUME DisposeLoad PROVE ReservationInv'
  BY <1>12, WordFacts DEF DisposeLoad, PpuLoad, TypeOK
<1>13. ASSUME DisposeStore PROVE ReservationInv'
  BY <1>13 DEF DisposeStore, PpuStore
<1>14. ASSUME SweepStart PROVE ReservationInv'
  BY <1>14 DEF SweepStart
<1>15. ASSUME SweepNext PROVE ReservationInv'
  BY <1>15 DEF SweepNext
<1>16. ASSUME SweepDone PROVE ReservationInv'
  BY <1>16 DEF SweepDone
<1>17. ASSUME FreeLoad PROVE ReservationInv'
  BY <1>17, WordFacts DEF FreeLoad, PpuLoad, TypeOK
<1>18. ASSUME FreeStore PROVE ReservationInv'
  BY <1>18 DEF FreeStore, PpuStore
<1>19. ASSUME Unmap PROVE ReservationInv'
  BY <1>19 DEF Unmap
<1>20. ASSUME SpuGetLine PROVE ReservationInv'
  BY <1>20 DEF SpuGetLine, SpuLoad
<1>21. ASSUME SpuSkip PROVE ReservationInv'
  BY <1>21 DEF SpuSkip, Advance
<1>22. ASSUME SpuLockFails PROVE ReservationInv'
  BY <1>22 DEF SpuLockFails
<1>23. ASSUME SpuLock PROVE ReservationInv'
  BY <1>23 DEF SpuLock, SpuStore
<1>24. ASSUME SpuReadEa PROVE ReservationInv'
  BY <1>24 DEF SpuReadEa
<1>25. ASSUME SpuProcessed PROVE ReservationInv'
  BY <1>25 DEF SpuProcessed
<1>26. ASSUME SpuUnlockGet PROVE ReservationInv'
  BY <1>26 DEF SpuUnlockGet, SpuLoad
<1>27. ASSUME SpuUnlockFails PROVE ReservationInv'
  BY <1>27 DEF SpuUnlockFails
<1>28. ASSUME SpuUnlock PROVE ReservationInv'
  BY <1>28 DEF SpuUnlock, SpuStore, Advance
<1>29. CASE UNCHANGED vars
  BY <1>29 DEF vars
<1> QED
  BY <1>1, <1>2, <1>3, <1>4, <1>5, <1>6, <1>7, <1>8, <1>9, <1>10, <1>11, <1>12, <1>13, <1>14, <1>15, <1>16, <1>17, <1>18, <1>19, <1>20, <1>21, <1>22, <1>23, <1>24, <1>25, <1>26, <1>27, <1>28, <1>29 DEF Next, PpuNext, SpuNext

-----------------------------------------------------------------------------
\* The sentinel is no allocation.
LEMMA NoAllocFact == NoAlloc \notin Allocation
  BY SentinelAssumption DEF Allocation

\* allocateBuffer links one allocation and leaves the others alone.
LEMMA LinkFacts ==
  ASSUME IInv, AllocLink
  PROVE  /\ ppuAddr \in Addrs /\ ~Mapped(ppuAddr) /\ ppuSlot \in Slots
         /\ \A b \in Addrs : b # ppuAddr => allocs'[b] = allocs[b]
         /\ allocs'[ppuAddr] # NoAlloc
         /\ allocs'[ppuAddr].slot = ppuSlot
         /\ ~allocs'[ppuAddr].disposed
<1> DEFINE new == [slot |-> ppuSlot, conn |-> ppuConn, disposed |-> FALSE]
<1>1. /\ ppuAddr \in Addrs /\ ~Mapped(ppuAddr) /\ ppuSlot \in Slots /\ ppuConn \in Conns
      /\ allocs' = [allocs EXCEPT ![ppuAddr] = new]
      /\ allocs \in [Addrs -> Allocation \cup {NoAlloc}]
  BY DEF AllocLink, IInv, ServerInv, TypeOK
<1>2. new \in Allocation /\ new.slot = ppuSlot /\ ~new.disposed
  BY <1>1 DEF Allocation
<1> HIDE DEF new
<1>3. allocs'[ppuAddr] = new /\ \A b \in Addrs : b # ppuAddr => allocs'[b] = allocs[b]
  BY <1>1
<1>4. new # NoAlloc
  BY <1>2, NoAllocFact
<1> QED
  BY <1>1, <1>2, <1>3, <1>4 DEF Mapped

\* Giving a buffer up changes nothing but its disposed flag.
LEMMA DisposeFacts ==
  ASSUME IInv, NEW a \in Addrs, Mapped(a), Dispose(a)
  PROVE  \A b \in Addrs :
           /\ Mapped(b)' = Mapped(b)
           /\ Mapped(b) => /\ allocs'[b].slot = allocs[b].slot
                           /\ allocs'[b].conn = allocs[b].conn
                           /\ b # a => allocs'[b].disposed = allocs[b].disposed
           /\ allocs'[a].disposed
<1>1. /\ allocs \in [Addrs -> Allocation \cup {NoAlloc}]
      /\ allocs[a] \in Allocation
      /\ allocs' = [allocs EXCEPT ![a].disposed = TRUE]
  BY DEF Dispose, IInv, TypeOK, Mapped
<1>2. /\ allocs'[a] = [allocs[a] EXCEPT !.disposed = TRUE]
      /\ \A b \in Addrs : b # a => allocs'[b] = allocs[b]
  BY <1>1
<1>3. /\ allocs'[a] \in Allocation
      /\ allocs'[a].slot = allocs[a].slot
      /\ allocs'[a].conn = allocs[a].conn
      /\ allocs'[a].disposed
  BY <1>1, <1>2 DEF Allocation
<1>4. Mapped(a)'
  BY <1>3, NoAllocFact DEF Mapped
<1> QED
  BY <1>2, <1>3, <1>4 DEF Mapped

-----------------------------------------------------------------------------
\* What a step does to the naming and to the two holds of a slot.
NamesKept == \A s \in Slots, a \in Addrs : Names(s, a)' <=> Names(s, a)
SpuHoldsKept == \A s \in Slots : SpuHolds(s)' <=> SpuHolds(s)
ClientHoldsKept == \A s \in Slots : ClientHolds(s)' <=> ClientHolds(s)

Kept == lock' = lock /\ NamesKept /\ SpuHoldsKept /\ ClientHoldsKept

Allocated ==
  /\ ppc = "alloc_stwcx" /\ ppc' = "alloc_link" /\ UNCHANGED <<ea, spuVars>>
  /\ lock' = [lock EXCEPT ![ppuSlot] = 1]
  /\ \A s \in Slots, a \in Addrs : Names(s, a)' <=> (Names(s, a) \/ (s = ppuSlot /\ a = ppuAddr))
  /\ \A s \in Slots : ClientHolds(s)' <=> (ClientHolds(s) \/ s = ppuSlot)
  /\ SpuHoldsKept

GivenUp ==
  /\ ppc = "dispose_stwcx" /\ UNCHANGED <<ea, spuVars>>
  /\ ClientHolds(ppuSlot)
  /\ lock' = [lock EXCEPT ![ppuSlot] = lock[ppuSlot] - 1]
  /\ \A s \in Slots : ClientHolds(s)' <=> (ClientHolds(s) /\ s # ppuSlot)
  /\ NamesKept /\ SpuHoldsKept

Freed ==
  /\ ppc = "free_stwcx" /\ ppc' = "unmap" /\ UNCHANGED <<ea, spuVars>>
  /\ lock[ppuSlot] <= 0
  /\ lock' = [lock EXCEPT ![ppuSlot] = -1]
  /\ \A s \in Slots, a \in Addrs : Names(s, a)' <=> (Names(s, a) /\ s # ppuSlot)
  /\ SpuHoldsKept /\ ClientHoldsKept

Locked ==
  /\ lock[current] > 0 /\ UNCHANGED <<ea, ppuVars>>
  /\ lock' = [lock EXCEPT ![current] = lock[current] + 1]
  /\ \A s \in Slots : ~SpuHolds(s) /\ (SpuHolds(s)' <=> s = current)
  /\ NamesKept /\ ClientHoldsKept

Unlocked ==
  /\ UNCHANGED <<ea, ppuVars>>
  /\ lock' = [lock EXCEPT ![current] = lock[current] - 1]
  /\ \A s \in Slots : ~SpuHolds(s)' /\ (SpuHolds(s) <=> s = current)
  /\ NamesKept /\ ClientHoldsKept

\* A stored -1 frees the slot the server works on and no other.
LEMMA FreedStep ==
  ASSUME IInv, FreeStore, PpuStored
  PROVE  Freed
<1>t. TypeOK /\ ServerInv /\ NoSharedSlot /\ ppuSlot \in Slots
  BY DEF IInv, NamingInv, TypeOK
<1> USE <1>t DEF Names, ClientHolds, SpuHolds, Mapped, NamesKept, ClientHoldsKept,
        SpuHoldsKept, spuVars, Goto
<1>1. lock' = [lock EXCEPT ![ppuSlot] = -1] /\ lock[ppuSlot] <= 0
  BY PpuStoreExact DEF FreeStore, LockValue, ServerInv
<1>2. ppuAddr \in Addrs /\ Names(ppuSlot, ppuAddr)
  BY DEF FreeStore, ServerInv
<1>3. \A a \in Addrs : Names(ppuSlot, a) => a = ppuAddr
  BY <1>2 DEF NoSharedSlot
<1>4. ppc' = "unmap" /\ allocs' = allocs /\ ppuAddr' = ppuAddr
  BY DEF FreeStore
<1>5. \A s \in Slots, a \in Addrs : Names(s, a)' <=> (Mapped(a) /\ allocs[a].slot = s /\ a # ppuAddr)
  BY <1>4
<1>6. \A s \in Slots, a \in Addrs : Names(s, a) <=> (Mapped(a) /\ allocs[a].slot = s)
  BY DEF FreeStore
<1>7. \A s \in Slots, a \in Addrs : Names(s, a)' <=> (Names(s, a) /\ s # ppuSlot)
  BY <1>2, <1>3, <1>5, <1>6
<1>8. ClientHoldsKept /\ SpuHoldsKept
  BY DEF FreeStore
<1> QED
  BY <1>1, <1>7, <1>8 DEF FreeStore, Freed

\* Five steps store into the lock table; every other step keeps all accounts.
LEMMA StoreStep ==
  ASSUME IInv, [Next]_vars
  PROVE  Kept \/ Allocated \/ GivenUp \/ Freed \/ Locked \/ Unlocked
<1> DEFINE Goal == Kept \/ Allocated \/ GivenUp \/ Freed \/ Locked \/ Unlocked
<1>t. TypeOK /\ ServerInv /\ NoSharedSlot
  BY DEF IInv, NamingInv
<1>s. current \in Slots /\ ppuSlot \in Slots
  BY <1>t, SlotFacts DEF TypeOK
<1> USE <1>t DEF Kept, Names, ClientHolds, SpuHolds, Mapped, NamesKept, ClientHoldsKept,
        SpuHoldsKept, tableVars, spuVars, ppuVars, ppuLocals, Goto, Return, SpuGoto
<1>1. ASSUME NEW c \in Conns, Connect(c) PROVE Goal
  BY <1>1 DEF Connect
<1>2. ASSUME NEW c \in Conns, Disconnect(c) PROVE Goal
  BY <1>2 DEF Disconnect
<1>3. ASSUME NEW c \in Conns, NEW q \in BOOLEAN, NEW a \in Addrs, RequestBuffer(c, q, a) PROVE Goal
  BY <1>3 DEF RequestBuffer
<1>4. ASSUME AllocLoad PROVE Goal
  BY <1>4 DEF AllocLoad, PpuLoad
<1>5. ASSUME AllocNextWord PROVE Goal
  BY <1>5 DEF AllocNextWord
<1>6. ASSUME AllocWriteEa PROVE Goal
  BY <1>6 DEF AllocWriteEa
<1>7. ASSUME AllocStore PROVE Goal
  <2>1. CASE PpuStored
    <3>1. lock' = [lock EXCEPT ![ppuSlot] = 1]
      BY <1>7, <2>1, PpuStoreExact DEF AllocStore, LockValue
    <3>2. ppuAddr \in Addrs /\ ~Mapped(ppuAddr)
      BY <1>7 DEF AllocStore, ServerInv
    <3> QED
      BY <1>7, <2>1, <3>1, <3>2 DEF AllocStore, Allocated
  <2>2. CASE ~PpuStored
    BY <1>7, <2>2 DEF AllocStore
  <2> QED
    BY <2>1, <2>2
<1>8. ASSUME AllocLink PROVE Goal
  BY <1>8, LinkFacts DEF AllocLink
<1>d. ASSUME NEW a \in Addrs, Mapped(a), ~allocs[a].disposed, Dispose(a), ppc \in {"poll", "disconnect"}
      PROVE  Goal
  <2>1. /\ ppc' = "dispose_lwarx" /\ ppuSlot' = allocs[a].slot /\ UNCHANGED <<tableVars, spuVars>>
        /\ ppc \notin {"alloc_link", "dispose_lwarx", "dispose_stwcx", "unmap"}
    BY <1>d DEF Dispose
  <2>2. \A b \in Addrs : /\ Mapped(b)' = Mapped(b)
                         /\ Mapped(b) => /\ allocs'[b].slot = allocs[b].slot
                                         /\ b # a => allocs'[b].disposed = allocs[b].disposed
                         /\ allocs'[a].disposed
    BY <1>d, DisposeFacts
  <2>3. ASSUME NEW s \in Slots, ClientHolds(s) PROVE ClientHolds(s)'
    BY <2>1, <2>2, <2>3
  <2>4. ASSUME NEW s \in Slots, ClientHolds(s)' PROVE ClientHolds(s)
    BY <1>d, <2>1, <2>2, <2>4
  <2>5. ClientHoldsKept
    BY <2>3, <2>4
  <2>6. NamesKept /\ SpuHoldsKept
    BY <2>1, <2>2
  <2> QED
    BY <2>1, <2>5, <2>6
<1>9. ASSUME NEW a \in Addrs, FreeBuffer(a) PROVE Goal
  BY <1>9, <1>d DEF FreeBuffer
<1>10. ASSUME DisconnectNext PROVE Goal
  BY <1>10, <1>d DEF DisconnectNext, NotGivenUp
<1>11. ASSUME DisconnectDone PROVE Goal
  BY <1>11 DEF DisconnectDone
<1>12. ASSUME DisposeLoad PROVE Goal
  BY <1>12 DEF DisposeLoad, PpuLoad
<1>13. ASSUME DisposeStore PROVE Goal
  <2>1. CASE PpuStored
    <3>1. lock' = [lock EXCEPT ![ppuSlot] = lock[ppuSlot] - 1]
      BY <1>13, <2>1, PpuStoreExact, StoredValues DEF DisposeStore
    <3>2. NamesKept /\ SpuHoldsKept
      BY <1>13, <2>1 DEF DisposeStore
    <3>3. ~\E a \in Addrs : Mapped(a) /\ allocs[a].slot = ppuSlot /\ ~allocs[a].disposed
      BY <1>13, <1>s DEF DisposeStore, ServerInv, NoSharedSlot
    <3>4. \A s \in Slots : ClientHolds(s)' <=> (ClientHolds(s) /\ s # ppuSlot)
      BY <1>13, <2>1, <3>3 DEF DisposeStore
    <3> QED
      BY <1>13, <2>1, <3>1, <3>2, <3>4 DEF DisposeStore, GivenUp
  <2>2. CASE ~PpuStored
    BY <1>13, <2>2 DEF DisposeStore
  <2> QED
    BY <2>1, <2>2
<1>14. ASSUME SweepStart PROVE Goal
  BY <1>14 DEF SweepStart
<1>15. ASSUME SweepNext PROVE Goal
  BY <1>15 DEF SweepNext, TypeOK
<1>16. ASSUME SweepDone PROVE Goal
  BY <1>16 DEF SweepDone
<1>17. ASSUME FreeLoad PROVE Goal
  BY <1>17 DEF FreeLoad, PpuLoad
<1>18. ASSUME FreeStore PROVE Goal
  <2>1. CASE PpuStored
    BY <1>18, <2>1, FreedStep
  <2>2. CASE ~PpuStored
    BY <1>18, <2>2 DEF FreeStore
  <2> QED
    BY <2>1, <2>2
<1>19. ASSUME Unmap PROVE Goal
  BY <1>19 DEF Unmap, TypeOK, ServerInv, NoSharedSlot, Named
<1>20. ASSUME SpuGetLine PROVE Goal
  BY <1>20 DEF SpuGetLine, SpuLoad
<1>21. ASSUME SpuSkip PROVE Goal
  BY <1>21 DEF SpuSkip, Advance
<1>22. ASSUME SpuLockFails PROVE Goal
  BY <1>22 DEF SpuLockFails
<1>23. ASSUME SpuLock PROVE Goal
  <2>1. lock' = [lock EXCEPT ![current] = lock[current] + 1] /\ lock[current] > 0
    BY <1>23, SpuStoreExact, StoredValues DEF SpuLock, Processable
  <2> QED
    BY <1>23, <2>1, <1>s DEF SpuLock, Locked
<1>24. ASSUME SpuReadEa PROVE Goal
  BY <1>24 DEF SpuReadEa
<1>25. ASSUME SpuProcessed PROVE Goal
  BY <1>25 DEF SpuProcessed
<1>26. ASSUME SpuUnlockGet PROVE Goal
  BY <1>26 DEF SpuUnlockGet, SpuLoad
<1>27. ASSUME SpuUnlockFails PROVE Goal
  BY <1>27 DEF SpuUnlockFails
<1>28. ASSUME SpuUnlock PROVE Goal
  <2>1. lock' = [lock EXCEPT ![current] = lock[current] - 1]
    BY <1>28, SpuStoreExact, StoredValues DEF SpuUnlock
  <2> QED
    BY <1>28, <2>1, <1>s DEF SpuUnlock, Unlocked, Advance
<1>29. CASE UNCHANGED vars
  BY <1>29 DEF vars
<1> QED
  BY <1>1, <1>2, <1>3, <1>4, <1>5, <1>6, <1>7, <1>8, <1>9, <1>10, <1>11, <1>12, <1>13, <1>14, <1>15, <1>16, <1>17, <1>18, <1>19, <1>20, <1>21, <1>22, <1>23, <1>24, <1>25, <1>26, <1>27, <1>28, <1>29 DEF Next, PpuNext, SpuNext

-----------------------------------------------------------------------------
\* Every step keeps each lock byte equal to the count it stands for.
LEMMA AccountingStep == IInv /\ [Next]_vars => LockAccounting'
<1> SUFFICES ASSUME IInv, [Next]_vars, NEW s \in Slots
             PROVE  /\ ~Named(s)' => lock'[s] = -1
                    /\ Named(s)' /\ ~ClientHolds(s)' /\ ~SpuHolds(s)' => lock'[s] = 0
                    /\ Named(s)' /\ ~ClientHolds(s)' /\ SpuHolds(s)' => lock'[s] = 1
                    /\ Named(s)' /\ ClientHolds(s)' /\ ~SpuHolds(s)' => lock'[s] = 1
                    /\ Named(s)' /\ ClientHolds(s)' /\ SpuHolds(s)' => lock'[s] = 2
  BY DEF LockAccounting, Named
<1>t. lock \in [Slots -> LockValue] /\ current \in Slots /\ ppuSlot \in Slots
  BY SlotFacts DEF IInv, TypeOK
<1>a. Kept \/ Allocated \/ GivenUp \/ Freed \/ Locked \/ Unlocked
  BY StoreStep
<1>1. CASE Kept
  <2>1. Named(s)' <=> Named(s)
    BY <1>1 DEF Kept, NamesKept, Named
  <2> QED
    BY <1>1, <2>1, LockFacts DEF Kept, SpuHoldsKept, ClientHoldsKept
<1>2. CASE Allocated
  <2>1. ~Named(ppuSlot) /\ ppuAddr \in Addrs
    BY <1>2 DEF Allocated, IInv, ServerInv
  <2>2. Named(s)' <=> (Named(s) \/ s = ppuSlot)
    BY <1>2, <2>1 DEF Allocated, Named
  <2>3. /\ SpuHolds(s)' <=> SpuHolds(s)
        /\ ClientHolds(s)' <=> (ClientHolds(s) \/ s = ppuSlot)
    BY <1>2 DEF Allocated, SpuHoldsKept
  <2>4. CASE s = ppuSlot
    <3>1. ~SpuHolds(s) /\ lock'[s] = 1
      BY <1>2, <1>t, <2>1, <2>4, LockFacts DEF Allocated
    <3> QED
      BY <2>2, <2>3, <2>4, <3>1
  <2>5. CASE s # ppuSlot
    <3>1. lock'[s] = lock[s]
      BY <1>2, <1>t, <2>5 DEF Allocated
    <3> QED
      BY <2>2, <2>3, <2>5, <3>1, LockFacts
  <2> QED
    BY <2>4, <2>5
<1>3. CASE GivenUp
  <2>1. Named(s)' <=> Named(s)
    BY <1>3 DEF GivenUp, NamesKept, Named
  <2> QED
    BY <1>3, <1>t, <2>1, LockFacts DEF GivenUp, SpuHoldsKept
<1>4. CASE Freed
  <2>1. Named(s)' <=> (Named(s) /\ s # ppuSlot)
    BY <1>4 DEF Freed, Named
  <2>2. /\ SpuHolds(s)' <=> SpuHolds(s)
        /\ ClientHolds(s)' <=> ClientHolds(s)
    BY <1>4 DEF Freed, SpuHoldsKept, ClientHoldsKept
  <2>3. CASE s = ppuSlot
    BY <1>4, <1>t, <2>1, <2>3 DEF Freed
  <2>4. CASE s # ppuSlot
    <3>1. lock'[s] = lock[s]
      BY <1>4, <1>t, <2>4 DEF Freed
    <3> QED
      BY <2>1, <2>2, <2>4, <3>1, LockFacts
  <2> QED
    BY <2>3, <2>4
<1>5. CASE Locked
  <2>1. Named(s)' <=> Named(s)
    BY <1>5 DEF Locked, NamesKept, Named
  <2> QED
    BY <1>5, <1>t, <2>1, LockFacts DEF Locked, ClientHoldsKept
<1>6. CASE Unlocked
  <2>1. Named(s)' <=> Named(s)
    BY <1>6 DEF Unlocked, NamesKept, Named
  <2> QED
    BY <1>6, <1>t, <2>1, LockFacts DEF Unlocked, ClientHoldsKept
<1> QED
  BY <1>a, <1>1, <1>2, <1>3, <1>4, <1>5, <1>6

-----------------------------------------------------------------------------
\* Every step keeps the addresses in the table right and the slots unshared.
LEMMA NamingStep == IInv /\ [Next]_vars => NamingInv'
<1> SUFFICES ASSUME IInv, [Next]_vars PROVE NamingInv'
  OBVIOUS
<1>t. TypeOK /\ NamingInv /\ ServerInv
  BY DEF IInv
<1>r. current \in Slots /\ ppuSlot \in Slots
  BY <1>t, SlotFacts DEF TypeOK
<1>a. Kept \/ Allocated \/ GivenUp \/ Freed \/ Locked \/ Unlocked
  BY StoreStep
<1>1. NoSharedSlot'
  <2> SUFFICES ASSUME NEW s \in Slots, NEW a \in Addrs, NEW b \in Addrs, Names(s, a)', Names(s, b)'
               PROVE  a = b
    BY DEF NoSharedSlot
  <2>1. CASE NamesKept
    BY <2>1, <1>t DEF NamesKept, NamingInv, NoSharedSlot
  <2>2. CASE Allocated
    <3>1. ~Names(ppuSlot, a) /\ ~Names(ppuSlot, b)
      BY <2>2, <1>t DEF Allocated, ServerInv, Named
    <3> QED
      BY <2>2, <3>1, <1>t DEF Allocated, NamingInv, NoSharedSlot
  <2>3. CASE Freed
    BY <2>3, <1>t DEF Freed, NamingInv, NoSharedSlot
  <2> QED
    BY <1>a, <2>1, <2>2, <2>3 DEF Kept, GivenUp, Locked, Unlocked
<1>2. (\A s \in Slots, a \in Addrs : Names(s, a) => ea[s] = a)'
  <2> SUFFICES ASSUME NEW s \in Slots, NEW a \in Addrs, Names(s, a)'
               PROVE  ea'[s] = a
    OBVIOUS
  <2>1. CASE AllocWriteEa
    <3>1. Names(s, a) /\ ~Named(ppuSlot)
      BY <2>1, <1>t DEF AllocWriteEa, ServerInv, Names, Mapped, Goto
    <3>2. s # ppuSlot
      BY <3>1 DEF Named
    <3> QED
      BY <2>1, <3>1, <3>2, <1>t DEF AllocWriteEa, NamingInv, TypeOK
  <2>2. CASE ~AllocWriteEa
    <3>1. ea' = ea
      BY <2>2 DEF Next, PpuNext, SpuNext, vars, tableVars, Connect, Disconnect, RequestBuffer,
          AllocLoad, AllocNextWord, AllocStore, AllocLink, FreeBuffer, DisconnectNext,
          DisconnectDone, Dispose, DisposeLoad, DisposeStore, SweepStart, SweepNext, SweepDone,
          FreeLoad, FreeStore, Unmap, SpuGetLine, SpuSkip, SpuLockFails, SpuLock, SpuReadEa,
          SpuProcessed, SpuUnlockGet, SpuUnlockFails, SpuUnlock
    <3>2. CASE Names(s, a)
      BY <3>1, <3>2, <1>t DEF NamingInv
    <3>3. CASE ~Names(s, a)
      <4>1. Allocated /\ s = ppuSlot /\ a = ppuAddr
        BY <1>a, <3>3 DEF Kept, GivenUp, Freed, Locked, Unlocked, NamesKept, Allocated
      <4> QED
        BY <3>1, <4>1, <1>t DEF Allocated, ServerInv
    <3> QED
      BY <3>2, <3>3
  <2> QED
    BY <2>1, <2>2
<1>3. (\A s \in Slots : SpuHolds(s) => Named(s))'
  <2> SUFFICES ASSUME NEW s \in Slots, SpuHolds(s)' PROVE Named(s)'
    OBVIOUS
  <2>1. CASE Kept \/ GivenUp \/ Unlocked
    BY <2>1, <1>t DEF Kept, GivenUp, Unlocked, NamesKept, SpuHoldsKept, NamingInv, Named
  <2>2. CASE Allocated
    BY <2>2, <1>t DEF Allocated, SpuHoldsKept, NamingInv, Named
  <2>3. CASE Freed
    <3>1. ~SpuHolds(ppuSlot)
      BY <2>3, <1>r, LockFacts DEF Freed
    <3> QED
      BY <2>3, <3>1, <1>t DEF Freed, SpuHoldsKept, NamingInv, Named
  <2>4. CASE Locked
    <3>1. s = current /\ Named(current)
      BY <2>4, <1>r, LockFacts DEF Locked
    <3> QED
      BY <2>4, <3>1 DEF Locked, NamesKept, Named
  <2> QED
    BY <1>a, <2>1, <2>2, <2>3, <2>4
<1>4. (spc \in {"process", "unlock_getllar", "unlock_putllc"} => spuAddr = ea[current])'
  <2> SUFFICES ASSUME spc' \in {"process", "unlock_getllar", "unlock_putllc"}
               PROVE  spuAddr' = ea'[current']
    OBVIOUS
  <2>1. CASE PpuNext
    <3>1. UNCHANGED spuVars
      BY <2>1 DEF PpuNext, Connect, Disconnect, RequestBuffer,
          AllocLoad, AllocNextWord, AllocWriteEa, AllocStore, AllocLink, FreeBuffer,
          DisconnectNext, DisconnectDone, Dispose, DisposeLoad, DisposeStore, SweepStart,
          SweepNext, SweepDone, FreeLoad, FreeStore, Unmap
    <3>2. spuAddr = ea[current] /\ Named(current)
      BY <3>1, <1>t, <1>r DEF NamingInv, SpuHolds, spuVars
    <3>3. ea'[current] = ea[current]
      <4>1. CASE AllocWriteEa
        BY <4>1, <3>2, <1>t DEF AllocWriteEa, ServerInv, TypeOK
      <4>2. CASE ~AllocWriteEa
        BY <2>1, <4>2 DEF PpuNext, tableVars, Connect, Disconnect, RequestBuffer,
          AllocLoad, AllocNextWord, AllocStore, AllocLink, FreeBuffer,
          DisconnectNext, DisconnectDone, Dispose, DisposeLoad, DisposeStore, SweepStart,
          SweepNext, SweepDone, FreeLoad, FreeStore, Unmap
      <4> QED
        BY <4>1, <4>2
    <3> QED
      BY <3>1, <3>2, <3>3 DEF spuVars
  <2>2. CASE SpuNext
    BY <2>2, <1>t DEF NamingInv, SpuNext, tableVars, Advance, SpuGoto, SpuGetLine, SpuSkip,
        SpuLockFails, SpuLock, SpuReadEa, SpuProcessed, SpuUnlockGet, SpuUnlockFails, SpuUnlock
  <2>3. CASE UNCHANGED vars
    BY <2>3, <1>t DEF NamingInv, vars, tableVars, spuVars
  <2> QED
    BY <2>1, <2>2, <2>3 DEF Next
<1> QED
  BY <1>1, <1>2, <1>3, <1>4 DEF NamingInv

-----------------------------------------------------------------------------
\* Every step keeps what the server's program counter says of its locals.
LEMMA ServerStep == IInv /\ [Next]_vars => ServerInv'
<1> SUFFICES ASSUME IInv, [Next]_vars PROVE ServerInv'
  OBVIOUS
<1>t. TypeOK /\ ServerInv /\ NamingInv
  BY DEF IInv
<1>r. ppuSlot \in Slots
  BY <1>t DEF TypeOK
<1>n. ASSUME NamesKept PROVE \A s \in Slots : Named(s)' <=> Named(s)
  BY <1>n DEF NamesKept, Named
<1>d. ASSUME NEW a \in Addrs, Mapped(a), Dispose(a) PROVE ServerInv'
  <2>1. /\ ppc' = "dispose_lwarx" /\ ppuSlot' = allocs[a].slot /\ ppuTodo' = ppuTodo
        /\ ppuTodo \subseteq Addrs
    BY <1>d, <1>t DEF Dispose, Goto, TypeOK
  <2> QED
    BY <1>d, <2>1, <1>t, DisposeFacts DEF ServerInv
<1>p. CASE SpuNext
  <2>1. UNCHANGED ppuVars /\ ea' = ea
    BY <1>p DEF SpuNext, SpuGetLine, SpuSkip, SpuLockFails, SpuLock, SpuReadEa, SpuProcessed,
        SpuUnlockGet, SpuUnlockFails, SpuUnlock, tableVars
  <2>2. \A s \in Slots, a \in Addrs : Names(s, a)' <=> Names(s, a)
    BY <2>1 DEF Names, Mapped, ppuVars, ppuLocals
  <2>3. Named(ppuSlot)' <=> Named(ppuSlot)
    BY <2>1, <2>2, <1>r DEF Named, ppuVars, ppuLocals
  <2> QED
    BY <2>1, <2>3, <1>t DEF ServerInv, Mapped, ppuVars, ppuLocals
<1> USE <1>t, <1>r DEF ServerInv, Mapped, tableVars, ppuLocals, Goto, Return
<1>1. ASSUME NEW c \in Conns, Connect(c) PROVE ServerInv'
  BY <1>1 DEF Connect
<1>2. ASSUME NEW c \in Conns, Disconnect(c) PROVE ServerInv'
  BY <1>2 DEF Disconnect
<1>3. ASSUME NEW c \in Conns, NEW q \in BOOLEAN, NEW a \in Addrs, RequestBuffer(c, q, a) PROVE ServerInv'
  BY <1>3 DEF RequestBuffer
<1>4. ASSUME AllocLoad PROVE ServerInv'
  <2>1. PICK s \in FreeInWord : ppuSlot' = s
    BY <1>4 DEF AllocLoad
  <2>2. s \in Slots /\ s \in Word(ppuBase) /\ lock[s] < 0
    BY <1>4, <2>1, WordFacts DEF AllocLoad, FreeInWord
  <2>3. ~Named(s)
    BY <2>2, LockFacts DEF LockValue
  <2>4. Named(ppuSlot)' <=> Named(s)
    BY <1>4, <2>1 DEF AllocLoad, Named, Names
  <2> QED
    BY <1>4, <2>1, <2>2, <2>3, <2>4 DEF AllocLoad
<1>5. ASSUME AllocNextWord PROVE ServerInv'
  BY <1>5 DEF AllocNextWord
<1>6. ASSUME AllocWriteEa PROVE ServerInv'
  BY <1>6 DEF AllocWriteEa, TypeOK, Names, Named
<1>7. ASSUME AllocStore PROVE ServerInv'
  BY <1>7 DEF AllocStore
<1>8. ASSUME AllocLink PROVE ServerInv'
  BY <1>8, LinkFacts DEF AllocLink, TypeOK
<1>9. ASSUME NEW a \in Addrs, FreeBuffer(a) PROVE ServerInv'
  BY <1>9, <1>d DEF FreeBuffer
<1>10. ASSUME DisconnectNext PROVE ServerInv'
  BY <1>10, <1>d DEF DisconnectNext, NotGivenUp
<1>11. ASSUME DisconnectDone PROVE ServerInv'
  BY <1>11 DEF DisconnectDone
<1>12. ASSUME DisposeLoad PROVE ServerInv'
  BY <1>12 DEF DisposeLoad, PpuLoad
<1>13. ASSUME DisposeStore PROVE ServerInv'
  BY <1>13 DEF DisposeStore
<1>14. ASSUME SweepStart PROVE ServerInv'
  BY <1>14 DEF SweepStart, TypeOK
<1>15. ASSUME SweepNext PROVE ServerInv'
  BY <1>15 DEF SweepNext, TypeOK
<1>16. ASSUME SweepDone PROVE ServerInv'
  BY <1>16 DEF SweepDone
<1>17. ASSUME FreeLoad PROVE ServerInv'
  BY <1>17 DEF FreeLoad, PpuLoad, MayFree, TypeOK
<1>18. ASSUME FreeStore PROVE ServerInv'
  <2>1. CASE PpuStored
    <3>1. Freed
      BY <1>18, <2>1, FreedStep
    <3>2. ~ClientHolds(ppuSlot)
      BY <3>1, LockFacts DEF Freed
    <3>3. allocs[ppuAddr].disposed
      BY <1>18, <3>2 DEF FreeStore, ClientHolds
    <3>4. ~Named(ppuSlot)'
      BY <1>18, <3>1 DEF FreeStore, Freed, Named
    <3> QED
      BY <1>18, <2>1, <3>3, <3>4 DEF FreeStore
  <2>2. CASE ~PpuStored
    BY <1>18, <2>2 DEF FreeStore
  <2> QED
    BY <2>1, <2>2
<1>19. ASSUME Unmap PROVE ServerInv'
  BY <1>19 DEF Unmap, TypeOK
<1>20. CASE UNCHANGED vars
  BY <1>20, <1>n DEF vars, ppuVars, Names, Named, NamesKept
<1> QED
  BY <1>p, <1>1, <1>2, <1>3, <1>4, <1>5, <1>6, <1>7, <1>8, <1>9, <1>10, <1>11, <1>12, <1>13, <1>14, <1>15, <1>16, <1>17, <1>18, <1>19, <1>20 DEF Next, PpuNext

-----------------------------------------------------------------------------
\* The inductive invariant.
LEMMA Invariance == Spec => []IInv
<1>1. Init => IInv
  BY InitIInv
<1>2. IInv /\ [Next]_vars => IInv'
  BY TypeStep, ReservationStep, ServerStep, NamingStep, AccountingStep DEF IInv
<1> QED
  BY <1>1, <1>2, PTL DEF Spec

\* Every lock byte stays within -1 .. 2 and every variable keeps its type, for
\* any number of slots, addresses and connections.
THEOREM TypeCorrect == Spec => []TypeOK
<1>1. IInv => TypeOK
  BY DEF IInv
<1> QED
  BY <1>1, Invariance, PTL

\* The lock bytes are exact counts in every reachable state: no interleaving of
\* word and line stores loses an update (blockmanagement.c, process_queues).
THEOREM LocksAreCounts == Spec => []LockAccounting
<1>1. IInv => LockAccounting
  BY DEF IInv
<1> QED
  BY <1>1, Invariance, PTL

\* Two buffers never share a slot (blockManagementAllocateBlock).
THEOREM SlotsAreUnique == Spec => []NoSharedSlot
<1>1. IInv => NoSharedSlot
  BY DEF IInv, NamingInv
<1> QED
  BY <1>1, Invariance, PTL

\* The memory of the queue the SPU works on stays mapped and stays that queue's
\* (processOutstandingRequests against process_queue).
THEOREM QueueMemoryIsSafe == Spec => []QueueMemoryStays
<1>1. IInv => QueueMemoryStays
  <2> SUFFICES ASSUME IInv, spc = "process" PROVE Backed(spuAddr) /\ Names(current, spuAddr)
    BY DEF QueueMemoryStays
  <2>1. current \in Slots /\ SpuHolds(current) /\ spuAddr = ea[current]
    BY SlotFacts DEF IInv, TypeOK, NamingInv, SpuHolds
  <2>2. PICK a \in Addrs : Names(current, a)
    BY <2>1 DEF IInv, NamingInv, Named
  <2>3. a = spuAddr
    BY <2>1, <2>2 DEF IInv, NamingInv
  <2> QED
    BY <2>2, <2>3 DEF Names, Backed
<1> QED
  BY <1>1, Invariance, PTL

-----------------------------------------------------------------------------
(* The table implements BufferLifetime.                                    *)

\* The empty table is an initial state of BufferLifetime.
LEMMA RefinementInit == Init => Lifetime!Init
<1> SUFFICES ASSUME Init PROVE Lifetime!Init
  OBVIOUS
<1>1. SlotMemory = [s \in Slots |-> NoAddr]
  BY DEF Init, SlotMemory
<1>2. ~SpuReads
  BY DEF Init, SpuReads, SpuHolds
<1>3. SlotsGivenUp = {}
  BY DEF Init, SlotsGivenUp, SpuHolds
<1> QED
  BY <1>1, <1>2, <1>3 DEF Lifetime!Init, SlotRead, MemoryRead

\* The SPU reads exactly when it holds its current slot.
LEMMA SpuReadsFacts ==
  ASSUME TypeOK
  PROVE  /\ SpuReads <=> SpuHolds(current)
         /\ \A s \in Slots : SpuHolds(s) => s = current
         /\ current \in QueueSlots /\ current \in Slots /\ ppuSlot \in Slots
  BY SlotFacts DEF TypeOK, SpuReads, SpuHolds

\* Only a store of the server into a free slot changes an address.
LEMMA EaStep ==
  ASSUME IInv, [Next]_vars, NEW s \in Slots, lock[s] # -1
  PROVE  ea'[s] = ea[s]
<1>1. CASE AllocWriteEa
  <2>1. ~Named(ppuSlot) /\ ea' = [ea EXCEPT ![ppuSlot] = ppuAddr]
    BY <1>1 DEF AllocWriteEa, IInv, ServerInv
  <2>2. s # ppuSlot
    BY <2>1, LockFacts
  <2> QED
    BY <2>1, <2>2 DEF IInv, TypeOK
<1>2. CASE ~AllocWriteEa
  BY <1>2 DEF Next, PpuNext, SpuNext, vars, tableVars, Connect, Disconnect, RequestBuffer,
     AllocLoad, AllocNextWord, AllocStore, AllocLink, FreeBuffer, DisconnectNext,
     DisconnectDone, Dispose, DisposeLoad, DisposeStore, SweepStart, SweepNext, SweepDone,
     FreeLoad, FreeStore, Unmap, SpuGetLine, SpuSkip, SpuLockFails, SpuLock, SpuReadEa,
     SpuProcessed, SpuUnlockGet, SpuUnlockFails, SpuUnlock
<1> QED
  BY <1>1, <1>2

\* While the SPU holds a slot it stays on it, and it keeps reading there.
LEMMA ReadingKept ==
  ASSUME IInv, IInv', [Next]_vars, SpuHoldsKept
  PROVE  UNCHANGED <<SlotRead, MemoryRead>>
<1>t. TypeOK /\ TypeOK'
  BY DEF IInv
<1>h. SpuHolds(current) => spc' \in {"read_ea", "process", "unlock_getllar", "unlock_putllc"} /\ current' = current
  BY <1>t, SpuReadsFacts DEF SpuHoldsKept, SpuHolds
<1>1. CASE SpuHolds(current)
  <2>1. SpuReads /\ SpuReads'
    BY <1>1, <1>h, <1>t, SpuReadsFacts DEF SpuReads, SpuHolds
  <2>2. ea'[current] = ea[current]
    BY <1>1, <1>t, EaStep, LockFacts, SpuReadsFacts
  <2> QED
    BY <1>1, <1>h, <2>1, <2>2 DEF SlotRead, MemoryRead
<1>2. CASE ~SpuHolds(current)
  <2>1. ~SpuReads /\ ~SpuReads'
    <3>1. ASSUME NEW s \in QueueSlots PROVE ~SpuHolds(s) /\ ~SpuHolds(s)'
      BY <1>2, <1>t, SpuReadsFacts, SlotFacts DEF SpuHoldsKept, SpuHolds
    <3> QED
      BY <3>1 DEF SpuReads
  <2> QED
    BY <2>1 DEF SlotRead, MemoryRead
<1> QED
  BY <1>1, <1>2

\* Every step is a step of BufferLifetime or leaves it alone.
LEMMA RefinementStep == IInv /\ IInv' /\ [Next]_vars => [Lifetime!Next]_(Lifetime!vars)
<1> SUFFICES ASSUME IInv, IInv', [Next]_vars
             PROVE  Lifetime!Next \/ UNCHANGED <<SlotMemory, SlotsGivenUp, SlotRead, MemoryRead>>
  BY DEF Lifetime!vars
<1>t. /\ TypeOK /\ TypeOK' /\ current \in QueueSlots /\ current \in Slots /\ ppuSlot \in Slots
      /\ lock \in [Slots -> LockValue]
  BY SpuReadsFacts DEF IInv, TypeOK
<1>a. Kept \/ Allocated \/ GivenUp \/ Freed \/ Locked \/ Unlocked
  BY StoreStep
<1>e. \A s \in Slots : lock[s] # -1 => ea'[s] = ea[s]
  BY EaStep
<1>1. CASE Kept
  <2>1. SlotMemory' = SlotMemory
    BY <1>1, <1>e DEF SlotMemory, Kept
  <2>2. SlotsGivenUp' = SlotsGivenUp
    BY <1>1 DEF SlotsGivenUp, Kept, SpuHoldsKept
  <2>3. UNCHANGED <<SlotRead, MemoryRead>>
    BY <1>1, ReadingKept DEF Kept
  <2> QED
    BY <2>1, <2>2, <2>3
<1>2. CASE Allocated
  <2>1. /\ ppuAddr \in Addrs /\ ~Mapped(ppuAddr) /\ ~Named(ppuSlot)
        /\ ea[ppuSlot] = ppuAddr /\ ppuAddr # NoAddr
    BY <1>2, BlockTableAssumption DEF Allocated, IInv, ServerInv
  <2>2. SlotMemory[ppuSlot] = NoAddr
    BY <1>t, <2>1, LockFacts DEF SlotMemory
  <2>3. \A t \in Slots : SlotMemory[t] # ppuAddr
    <3> SUFFICES ASSUME NEW t \in Slots, SlotMemory[t] = ppuAddr PROVE FALSE
      OBVIOUS
    <3>1. lock[t] # -1 /\ ea[t] = ppuAddr
      BY <2>1 DEF SlotMemory
    <3>2. PICK b \in Addrs : Names(t, b)
      BY <3>1, LockFacts DEF Named
    <3>3. b = ppuAddr
      BY <3>1, <3>2 DEF IInv, NamingInv
    <3> QED
      BY <1>2, <2>1, <3>2, <3>3 DEF Allocated, Names
  <2>4. SlotMemory' = [SlotMemory EXCEPT ![ppuSlot] = ppuAddr]
    <3>1. ea' = ea /\ lock' = [lock EXCEPT ![ppuSlot] = 1]
      BY <1>2 DEF Allocated
    <3>2. \A s \in Slots : lock'[s] = IF s = ppuSlot THEN 1 ELSE lock[s]
      BY <1>t, <3>1
    <3> QED
      <4>1. \A s \in Slots : (IF lock'[s] = -1 THEN NoAddr ELSE ea'[s])
                             = IF s = ppuSlot THEN ppuAddr ELSE SlotMemory[s]
        BY <2>1, <3>1, <3>2 DEF SlotMemory
      <4>2. SlotMemory' = [s \in Slots |-> IF s = ppuSlot THEN ppuAddr ELSE SlotMemory[s]]
        BY <4>1 DEF SlotMemory
      <4> QED
        BY <4>2, <1>t DEF SlotMemory
  <2>5. SlotsGivenUp' = SlotsGivenUp
    <3>1. ~SpuHolds(ppuSlot) /\ lock[ppuSlot] = -1
      BY <1>t, <2>1, LockFacts
    <3> QED
      BY <1>2, <1>t, <3>1 DEF SlotsGivenUp, Allocated, SpuHoldsKept
  <2>6. UNCHANGED <<SlotRead, MemoryRead>>
    BY <1>2, ReadingKept DEF Allocated
  <2>7. Lifetime!Allocate(ppuSlot, ppuAddr)
    BY <2>2, <2>3, <2>4, <2>5, <2>6 DEF Lifetime!Allocate
  <2> QED
    BY <1>t, <2>1, <2>7 DEF Lifetime!Next
<1>3. CASE GivenUp
  <2>1. lock[ppuSlot] >= 1 /\ ClientHolds(ppuSlot)
    BY <1>3, <1>t, LockFacts DEF GivenUp
  <2>2. lock[ppuSlot] = IF SpuHolds(ppuSlot) THEN 2 ELSE 1
    BY <2>1, <1>t, LockFacts
  <2>3. SlotMemory' = SlotMemory
    BY <1>3, <1>t, <2>1, <2>2 DEF SlotMemory, GivenUp
  <2>4. ppuSlot \notin SlotsGivenUp /\ SlotsGivenUp' = SlotsGivenUp \cup {ppuSlot}
    BY <1>3, <1>t, <2>2 DEF SlotsGivenUp, GivenUp, SpuHoldsKept
  <2>5. SlotMemory[ppuSlot] # NoAddr
    <3>1. PICK b \in Addrs : Names(ppuSlot, b)
      BY <1>t, <2>1, LockFacts DEF Named
    <3>2. ea[ppuSlot] = b
      BY <1>t, <3>1 DEF IInv, NamingInv
    <3> QED
      BY <1>t, <2>1, <3>2, BlockTableAssumption DEF SlotMemory
  <2>6. UNCHANGED <<SlotRead, MemoryRead>>
    BY <1>3, ReadingKept DEF GivenUp
  <2>7. Lifetime!GiveUp(ppuSlot)
    BY <2>3, <2>4, <2>5, <2>6 DEF Lifetime!GiveUp
  <2> QED
    BY <1>t, <2>7 DEF Lifetime!Next
<1>4. CASE Freed
  <2>1. ~SpuHolds(ppuSlot) /\ ~ClientHolds(ppuSlot)
    BY <1>4, <1>t, LockFacts DEF Freed
  <2>2. Named(ppuSlot)
    BY <1>4, <1>t DEF Freed, IInv, ServerInv, Named, Names
  <2>3. lock[ppuSlot] = 0
    BY <1>t, <2>1, <2>2, LockFacts
  <2>4. SlotMemory' = [SlotMemory EXCEPT ![ppuSlot] = NoAddr]
    BY <1>4, <1>t DEF SlotMemory, Freed
  <2>5. ppuSlot \in SlotsGivenUp /\ SlotsGivenUp' = SlotsGivenUp \ {ppuSlot}
    BY <1>4, <1>t, <2>1, <2>3 DEF SlotsGivenUp, Freed, SpuHoldsKept
  <2>6. ppuSlot # SlotRead
    BY <1>t, <2>1, SpuReadsFacts, SentinelAssumption DEF SlotRead
  <2>7. UNCHANGED <<SlotRead, MemoryRead>>
    BY <1>4, ReadingKept DEF Freed
  <2>8. Lifetime!Recycle(ppuSlot)
    BY <2>4, <2>5, <2>6, <2>7 DEF Lifetime!Recycle
  <2> QED
    BY <1>t, <2>8 DEF Lifetime!Next
<1>5. CASE Locked
  <2>1. ~SpuHolds(current) /\ lock[current] = 1
    BY <1>5, <1>t, LockFacts DEF Locked
  <2>2. Named(current)
    BY <1>t, <2>1, LockFacts
  <2>3. ~SpuReads
    BY <1>5, SlotFacts DEF Locked, SpuReads
  <2>4. SpuHolds(current)' /\ SpuReads' /\ current' = current
    BY <1>5, <1>t DEF Locked, SpuReads, SpuHolds
  <2>5. SlotMemory' = SlotMemory
    BY <1>5, <1>t, <2>1 DEF SlotMemory, Locked
  <2>6. SlotsGivenUp' = SlotsGivenUp /\ current \notin SlotsGivenUp
    BY <1>5, <1>t, <2>1 DEF SlotsGivenUp, Locked
  <2>7. SlotMemory[current] = ea[current] /\ ea'[current] = ea[current]
    BY <1>5, <1>t, <2>1 DEF SlotMemory, Locked
  <2>8. SlotMemory[current] # NoAddr
    <3>1. PICK b \in Addrs : Names(current, b)
      BY <2>2 DEF Named
    <3>2. ea[current] = b
      BY <1>t, <3>1 DEF IInv, NamingInv
    <3> QED
      BY <2>7, <3>2, BlockTableAssumption
  <2>9. Lifetime!BeginReading(current)
    BY <2>3, <2>4, <2>5, <2>6, <2>7, <2>8 DEF Lifetime!BeginReading, SlotRead, MemoryRead
  <2> QED
    BY <1>t, <2>9 DEF Lifetime!Next
<1>6. CASE Unlocked
  <2>1. SpuHolds(current) /\ lock[current] >= 1
    BY <1>6, <1>t, LockFacts DEF Unlocked
  <2>2. SpuReads /\ ~SpuReads'
    BY <1>6, <1>t, <2>1, SlotFacts DEF Unlocked, SpuReads
  <2>3. SlotMemory' = SlotMemory
    BY <1>6, <1>t, <2>1 DEF SlotMemory, Unlocked
  <2>4. SlotsGivenUp' = SlotsGivenUp
    <3>1. \A s \in Slots : lock'[s] = IF s = current THEN lock[s] - 1 ELSE lock[s]
      BY <1>6, <1>t DEF Unlocked
    <3>2. \A s \in Slots : ~SpuHolds(s)' /\ (SpuHolds(s) <=> s = current)
      BY <1>6 DEF Unlocked
    <3>3. \A s \in Slots : lock[s] \in -1 .. 2
      BY <1>t DEF LockValue
    <3> QED
      BY <3>1, <3>2, <3>3 DEF SlotsGivenUp
  <2>5. SlotRead # NoSlot
    BY <1>t, <2>2, SentinelAssumption DEF SlotRead
  <2>6. Lifetime!EndReading
    BY <2>2, <2>3, <2>4, <2>5 DEF Lifetime!EndReading, SlotRead, MemoryRead
  <2> QED
    BY <2>6 DEF Lifetime!Next
<1> QED
  BY <1>a, <1>1, <1>2, <1>3, <1>4, <1>5, <1>6

\* The lock table implements the lifetime promised to the SPU, for every number
\* of slots and every set of addresses and connections.
THEOREM TableImplementsLifetime == Spec => LifetimeSpec
<1>1. Init => Lifetime!Init
  BY RefinementInit
<1>2. IInv /\ IInv' /\ [Next]_vars => [Lifetime!Next]_(Lifetime!vars)
  BY RefinementStep
<1> QED
  BY <1>1, <1>2, Invariance, PTL DEF Spec, LifetimeSpec, Lifetime!Spec
=============================================================================
