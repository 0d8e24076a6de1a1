--------------------------- MODULE BufferLifetime ---------------------------
(***************************************************************************)
(* What the block management of the server promises to the primary SPU,    *)
(* independent of lock bytes, reservations and allocation lists.           *)
(*                                                                         *)
(* A slot of the block table names at most one piece of memory.  Its       *)
(* client gives the slot up once (by freeing it or by going away).  The    *)
(* SPU starts to read the memory of a slot only while the client still     *)
(* holds it, and the slot is recycled only when the client has given it up *)
(* and the SPU is not reading.  doc/locking_on_server.txt puts it as "the  *)
(* lock is to signal usage, so that the server doesn't free memory that    *)
(* the SPU might still be using".                                          *)
(***************************************************************************)
CONSTANTS Slots,      \* the slots of the block table
          QueueSlots, \* those that hold command queues, which the SPU reads
          Addrs,      \* the memory that can stand behind a slot
          NoAddr,
          NoSlot

VARIABLES memory,   \* memory[s]: what slot s names, NoAddr when s is free
          given,    \* the slots given up by their client, not yet recycled
          reading,  \* the slot the SPU holds
          source    \* the memory it reads while it holds that slot

vars == <<memory, given, reading, source>>

Init ==
  /\ memory = [s \in Slots |-> NoAddr]
  /\ given = {}
  /\ reading = NoSlot
  /\ source = NoAddr

Allocate(s, a) ==
  /\ memory[s] = NoAddr
  /\ \A t \in Slots : memory[t] # a
  /\ memory' = [memory EXCEPT ![s] = a]
  /\ UNCHANGED <<given, reading, source>>

GiveUp(s) ==
  /\ memory[s] # NoAddr
  /\ s \notin given
  /\ given' = given \cup {s}
  /\ UNCHANGED <<memory, reading, source>>

BeginReading(s) ==
  /\ reading = NoSlot
  /\ memory[s] # NoAddr
  /\ s \notin given
  /\ reading' = s
  /\ source' = memory[s]
  /\ UNCHANGED <<memory, given>>

EndReading ==
  /\ reading # NoSlot
  /\ reading' = NoSlot
  /\ source' = NoAddr
  /\ UNCHANGED <<memory, given>>

Recycle(s) ==
  /\ s \in given
  /\ s # reading
  /\ memory' = [memory EXCEPT ![s] = NoAddr]
  /\ given' = given \ {s}
  /\ UNCHANGED <<reading, source>>

Next ==
  \/ \E s \in Slots, a \in Addrs : Allocate(s, a)
  \/ \E s \in Slots : GiveUp(s) \/ Recycle(s)
  \/ \E s \in QueueSlots : BeginReading(s)
  \/ EndReading

Spec == Init /\ [][Next]_vars
=============================================================================
