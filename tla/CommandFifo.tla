---------------------------- MODULE CommandFifo ----------------------------
(* A command queue between a client and the primary SPU: the client writes
   instructions behind write_ptr and moves it (client/fifodefs.h,
   client/glfifo.c); process_queue of the SPU fetches a window of the queue
   into its local store, executes from it and stores read_ptr back with an
   atomic put that fails when the client has touched the line since
   (server/primaryspu/main.c).  The window is one for all the queues.

   Offsets count words from the first word of data, which is aligned to a
   line.  An instruction is a word that says what it is and how many words of
   data follow; a word carries the identity of the instruction it belongs to,
   so that a mixture of two instructions shows.                              *)
EXTENDS Naturals, Sequences, SequencesExt, FiniteSets

CONSTANTS
  Queues,       \* the addresses of the command queues
  NoQueue,      \* fifo_eah = fifo_eal = 0: nothing is cached
  LineWords,    \* words of a 128 byte line
  FifoWords,    \* FIFO_SIZE in words
  EndWord,      \* buffer_end: the words of a queue
  MaxCommands,  \* bound: instructions a client writes altogether
  MaxBatch,     \* bound: instructions published by one move of write_ptr
  MaxLaps,      \* bound: times a client returns to the start of its buffer
  MaxReuse,     \* bound: queues freed and allocated again at their address
  MaxExecuted   \* bound: executions on one queue (a lap may repeat them)

ASSUME FifoAssumption ==
  /\ NoQueue \notin Queues
  /\ {LineWords, FifoWords, EndWord} \subseteq Nat \ {0}
  /\ FifoWords % LineWords = 0
  /\ {MaxCommands, MaxBatch, MaxLaps, MaxReuse,
      MaxExecuted} \subseteq Nat

Commands == 1..MaxCommands

VARIABLES
  mem,          \* the words of each queue
  write_ptr,    \* of the line at the head of each queue
  read_ptr,
  ahead,        \* __fifo_ptr of the client, at or behind write_ptr
  pend,         \* the instructions between write_ptr and ahead
  client,       \* "free", "jumping" (JUMP is written), "jumped" (published)
  issuedTo,     \* history: the queue each instruction was written to
  laps, reuses, \* what the bounds count
  sent, done,   \* history: instructions published and executed, in order
  pc,           \* the SPU: "idle", "loop", "store", "jump"
  cur,          \* the queue process_queue works on
  copyWrite,    \* write_ptr in the SPU's copy of the line
  reserved,     \* the SPU's reservation on that line is intact
  wptr, rptr,   \* locals of process_queue
  fifo          \* the window: [ea, ofs, len, area]

clientVars == <<ahead, pend, client, issuedTo, laps, reuses, sent>>
spuVars == <<pc, cur, copyWrite, wptr, rptr, fifo>>
vars == <<mem, write_ptr, read_ptr, clientVars, done, spuVars, reserved>>
----------------------------------------------------------------------------
(* Words.  The file behind a queue starts as zeros, and a zero word is the
   instruction NOP; `id' 0 is no instruction of the client.                  *)
Word == [kind : {"command", "jump", "data"}, id : 0..MaxCommands, size : 0..1]

Blank == [kind |-> "command", id |-> 0, size |-> 0]
Header(c, s) == [kind |-> "command", id |-> c, size |-> s]
Data(v) == [kind |-> "data", id |-> v, size |-> 0]
JumpHeader == [kind |-> "jump", id |-> 0, size |-> 1]

(* OUT_RING: the words of an instruction go where the client's pointer is.   *)
OutRing(q, words) ==
  /\ ahead[q] + Len(words) <= EndWord
  /\ mem' = [mem EXCEPT ![q] =
               [o \in DOMAIN @ |-> IF o \in ahead[q] .. ahead[q] + Len(words) - 1
                                   THEN words[o - ahead[q] + 1] ELSE @[o]]]
  /\ ahead' = [ahead EXCEPT ![q] = @ + Len(words)]

(* A store to the line takes the reservation of the SPU away.                *)
ClientStores(q, w) ==
  /\ write_ptr' = [write_ptr EXCEPT ![q] = w]
  /\ reserved' = (reserved /\ cur # q)

----------------------------------------------------------------------------
(* The client.                                                               *)

(* BEGIN_RING and OUT_RING of an instruction with s words of data.           *)
WriteCommand(q, s) ==
  /\ client[q] = "free"
  /\ Len(issuedTo) < MaxCommands
  /\ Len(pend[q]) < MaxBatch
  /\ LET c == Len(issuedTo) + 1
     IN  /\ OutRing(q, IF s = 0 THEN <<Header(c, 0)>> ELSE <<Header(c, 1), Data(c)>>)
         /\ issuedTo' = Append(issuedTo, q)
         /\ pend' = [pend EXCEPT ![q] = Append(@, c)]
  /\ UNCHANGED <<write_ptr, read_ptr, client, laps, reuses, sent, done,
                 spuVars, reserved>>

(* FIFO_EPILOGUE.                                                            *)
Publish(q) ==
  /\ ahead[q] # write_ptr[q]
  /\ client[q] \in {"free", "jumping"}
  /\ ClientStores(q, ahead[q])
  /\ sent' = [sent EXCEPT ![q] = @ \o pend[q]]
  /\ pend' = [pend EXCEPT ![q] = <<>>]
  /\ client' = [client EXCEPT ![q] = IF @ = "jumping" THEN "jumped" ELSE @]
  /\ UNCHANGED <<mem, read_ptr, ahead, issuedTo, laps, reuses, done, spuVars>>

(* glFlush has returned: the last instruction published is executed.         *)
Flushed(q) ==
  /\ pend[q] = <<>>
  /\ sent[q] # <<>>
  /\ Last(sent[q]) \in ToSet(done[q])

(* spuglJump: the instruction JUMP with the start of the buffer.  The test
   programs call it when glFlush has returned.                               *)
WriteJump(q) ==
  /\ client[q] = "free"
  /\ laps < MaxLaps
  /\ Flushed(q)
  /\ OutRing(q, <<JumpHeader, Data(0)>>)
  /\ client' = [client EXCEPT ![q] = "jumping"]
  /\ laps' = laps + 1
  /\ UNCHANGED <<write_ptr, read_ptr, pend, issuedTo, reuses, sent, done,
                 spuVars, reserved>>

(* spuglSetTarget, the call that follows.                                    *)
SetTarget(q) ==
  /\ client[q] = "jumped"
  /\ ClientStores(q, 0)
  /\ ahead' = [ahead EXCEPT ![q] = 0]
  /\ client' = [client EXCEPT ![q] = "free"]
  /\ UNCHANGED <<mem, read_ptr, pend, issuedTo, laps, reuses, sent, done, spuVars>>

(* The client frees its queue; once the SPU has left it the server unmaps it,
   and the next queue that is allocated is mapped at the same address.       *)
Recreate(q) ==
  /\ reuses < MaxReuse
  /\ client[q] = "free"
  /\ pc = "idle" \/ cur # q
  /\ reuses' = reuses + 1
  /\ mem' = [mem EXCEPT ![q] = [o \in DOMAIN @ |-> Blank]]
  /\ ClientStores(q, 0)
  /\ read_ptr' = [read_ptr EXCEPT ![q] = 0]
  /\ ahead' = [ahead EXCEPT ![q] = 0]
  /\ pend' = [pend EXCEPT ![q] = <<>>]
  /\ sent' = [sent EXCEPT ![q] = <<>>]
  /\ done' = [done EXCEPT ![q] = <<>>]
  /\ UNCHANGED <<client, issuedTo, laps, spuVars>>
----------------------------------------------------------------------------
(* The SPU.                                                                  *)

(* process_queue begins: the line is read with a reservation.                *)
Visit(q) ==
  /\ pc = "idle"
  /\ pc' = "loop"
  /\ cur' = q
  /\ copyWrite' = write_ptr[q]
  /\ wptr' = write_ptr[q]
  /\ rptr' = read_ptr[q]
  /\ reserved' = TRUE
  /\ UNCHANGED <<mem, write_ptr, read_ptr, clientVars, done, fifo>>

(* while (wptr != rptr): the queue is drained as far as this copy says.      *)
Leave ==
  /\ pc = "loop"
  /\ wptr = rptr
  /\ pc' = "idle"
  /\ UNCHANGED <<mem, write_ptr, read_ptr, clientVars, done,
                 cur, copyWrite, wptr, rptr, fifo, reserved>>

(* Up to where the window is valid, and its word at rptr.                    *)
Upto == fifo.ofs + fifo.len
Current == fifo.area[rptr - fifo.ofs]

(* Deviation of Cached: whose words they are is not asked.                   *)
CachedForAnyQueue ==
  /\ fifo.ea # NoQueue
  /\ fifo.ofs <= rptr
  /\ Upto >= rptr + 1
  /\ Upto >= rptr + 1 + Current.size

(* The window holds the instruction at rptr and its data.                    *)
Cached ==
  /\ fifo.ea = cur
  /\ fifo.ofs <= rptr
  /\ Upto >= rptr + 1
  /\ Upto >= rptr + 1 + Current.size

LineOf(o) == o - (o % LineWords)
RoundUp(n) == LineOf(n + LineWords - 1)

(* Deviation of FetchLength: no cap.                                         *)
LengthUncapped(ofs) == IF wptr < rptr THEN FifoWords ELSE wptr - ofs

(* How many words of the window count as instructions.                       *)
FetchLength(ofs) ==
  IF wptr < rptr \/ wptr - ofs > FifoWords THEN FifoWords ELSE wptr - ofs

(* The transfer moves whole lines; what an earlier window left behind it is
   never looked at and left out.                                             *)
Fetch ==
  /\ pc = "loop"
  /\ wptr # rptr
  /\ ~Cached
  /\ LET ofs == LineOf(rptr)
         len == FetchLength(ofs)
     IN  fifo' = [ea |-> cur, ofs |-> ofs, len |-> len,
                  area |-> [i \in 0..FifoWords-1 |->
                              IF i < RoundUp(len) /\ ofs + i < EndWord
                              THEN mem[cur][ofs + i] ELSE Blank]]
  /\ UNCHANGED <<mem, write_ptr, read_ptr, clientVars, done, reserved,
                 pc, cur, copyWrite, wptr, rptr>>

(* The identity an execution is recorded with: 0 when the words are not those
   of one instruction of the client.                                         *)
Identity ==
  IF /\ Current.kind = "command"
     /\ Current.size = 1 => fifo.area[rptr + 1 - fifo.ofs] = Data(Current.id)
  THEN Current.id ELSE 0

(* The handler has done its work and returned 0.  A word that is none of the
   known instructions is skipped.  What lies behind the end of the buffer is
   not modelled: an SPU that gets there stops.                               *)
Execute ==
  /\ pc = "loop"
  /\ wptr # rptr
  /\ rptr < EndWord
  /\ Len(done[cur]) < MaxExecuted
  /\ Cached
  /\ Current.kind # "jump"
  /\ done' = [done EXCEPT ![cur] = Append(@, Identity)]
  /\ rptr' = rptr + 1 + Current.size
  /\ pc' = "store"
  /\ UNCHANGED <<mem, write_ptr, read_ptr, clientVars, reserved,
                 cur, copyWrite, wptr, fifo>>

(* Deviation of Busy: the read pointer moves on although nothing was done.   *)
BusySkips ==
  /\ pc = "loop"
  /\ wptr # rptr
  /\ Cached
  /\ Current.kind = "command"
  /\ rptr' = rptr + 1 + Current.size
  /\ pc' = "store"
  /\ UNCHANGED <<mem, write_ptr, read_ptr, clientVars, done,
                 cur, copyWrite, wptr, fifo, reserved>>

(* The handler cannot work now (the render SPUs are behind): the queue is
   left as it is and the instruction is tried again at a later visit.        *)
Busy ==
  /\ pc = "loop"
  /\ wptr # rptr
  /\ Cached
  /\ Current.kind = "command"
  /\ pc' = "idle"
  /\ UNCHANGED <<mem, write_ptr, read_ptr, clientVars, done,
                 cur, copyWrite, wptr, rptr, fifo, reserved>>

(* JUMP: the window is given up, the target becomes the read pointer.        *)
TakeJump ==
  /\ pc = "loop"
  /\ wptr # rptr
  /\ Cached
  /\ Current.kind = "jump"
  /\ rptr' = fifo.area[rptr + 1 - fifo.ofs].id
  /\ fifo' = [fifo EXCEPT !.ea = NoQueue]
  /\ pc' = "jump"
  /\ UNCHANGED <<mem, write_ptr, read_ptr, clientVars, done, reserved,
                 cur, copyWrite, wptr>>

(* Deviation of PutLine: MFC_PUT instead of MFC_PUTLLC.                      *)
PutRegardless ==
  /\ write_ptr' = [write_ptr EXCEPT ![cur] = copyWrite]
  /\ read_ptr' = [read_ptr EXCEPT ![cur] = rptr]
  /\ reserved' = FALSE

(* MFC_PUTLLC with the reservation intact: the whole line is stored, both
   pointers of it, and the reservation is spent.                             *)
PutLine ==
  /\ reserved
  /\ write_ptr' = [write_ptr EXCEPT ![cur] = copyWrite]
  /\ read_ptr' = [read_ptr EXCEPT ![cur] = rptr]
  /\ reserved' = FALSE

(* retry_update, retry_jump: the store succeeds.                             *)
Store ==
  /\ pc \in {"store", "jump"}
  /\ PutLine
  /\ IF pc = "store" THEN pc' = "loop" /\ wptr' = copyWrite
                     ELSE pc' = "idle" /\ UNCHANGED wptr
  /\ UNCHANGED <<mem, clientVars, done, cur, copyWrite, rptr, fifo>>

(* Deviation of Reload: the failed store is repeated with the old copy.      *)
ReloadNothing ==
  /\ pc \in {"store", "jump"}
  /\ ~reserved
  /\ reserved' = TRUE
  /\ UNCHANGED <<mem, write_ptr, read_ptr, clientVars, done,
                 pc, cur, copyWrite, wptr, rptr, fifo>>

(* ... or it fails, and the line is read again before the next attempt.      *)
Reload ==
  /\ pc \in {"store", "jump"}
  /\ ~reserved
  /\ copyWrite' = write_ptr[cur]
  /\ reserved' = TRUE
  /\ UNCHANGED <<mem, write_ptr, read_ptr, clientVars, done,
                 pc, cur, wptr, rptr, fifo>>

(* The reservation may be lost for reasons of the hardware; it matters only
   where a store is about to use it.                                         *)
LoseReservation ==
  /\ reserved
  /\ pc \in {"store", "jump"}
  /\ reserved' = FALSE
  /\ UNCHANGED <<mem, write_ptr, read_ptr, clientVars, done, spuVars>>
----------------------------------------------------------------------------
Init ==
  /\ mem = [q \in Queues |-> [o \in 0..EndWord-1 |-> Blank]]
  /\ write_ptr = [q \in Queues |-> 0]
  /\ read_ptr = [q \in Queues |-> 0]
  /\ ahead = [q \in Queues |-> 0]
  /\ pend = [q \in Queues |-> <<>>]
  /\ client = [q \in Queues |-> "free"]
  /\ issuedTo = <<>> /\ laps = 0 /\ reuses = 0
  /\ sent = [q \in Queues |-> <<>>]
  /\ done = [q \in Queues |-> <<>>]
  /\ pc = "idle"
  /\ cur \in Queues
  /\ copyWrite = 0 /\ wptr = 0 /\ rptr = 0
  /\ reserved = FALSE
  /\ fifo = [ea |-> NoQueue, ofs |-> 0, len |-> 0,
             area |-> [i \in 0..FifoWords-1 |-> Blank]]

Client(q) ==
  \/ \E s \in 0..1 : WriteCommand(q, s)
  \/ Publish(q) \/ WriteJump(q) \/ SetTarget(q) \/ Recreate(q)

Work == Leave \/ Fetch \/ Execute \/ Busy \/ TakeJump \/ Store \/ Reload

SPU == (\E q \in Queues : Visit(q)) \/ Work \/ LoseReservation

Next == (\E q \in Queues : Client(q)) \/ SPU

(* The SPU runs for ever and goes round the queues; the render SPUs catch up
   again and again, so no handler is busy for ever; a store that is tried
   again and again succeeds in the end.                                      *)
Fairness ==
  /\ \A q \in Queues : SF_vars(Visit(q))
  /\ WF_vars(Leave \/ Fetch \/ TakeJump \/ Reload)
  /\ \A q \in Queues : SF_vars(Execute /\ cur = q)
  /\ SF_vars(Store)

Spec == Init /\ [][Next]_vars /\ Fairness
----------------------------------------------------------------------------
(* Types.                                                                    *)
TypeOK ==
  /\ mem \in [Queues -> [0..EndWord-1 -> Word]]
  /\ {write_ptr, read_ptr, ahead} \subseteq [Queues -> 0..EndWord]
  /\ pend \in [Queues -> Seq(Commands)]
  /\ client \in [Queues -> {"free", "jumping", "jumped"}]
  /\ issuedTo \in Seq(Queues)
  /\ laps \in 0..MaxLaps /\ reuses \in 0..MaxReuse
  /\ sent \in [Queues -> Seq(Commands)]
  /\ done \in [Queues -> Seq(0..MaxCommands)]
  /\ pc \in {"idle", "loop", "store", "jump"}
  /\ cur \in Queues
  /\ {copyWrite, wptr, rptr} \subseteq 0..EndWord
  /\ reserved \in BOOLEAN
  /\ fifo \in [ea : Queues \cup {NoQueue}, ofs : 0..EndWord,
               len : 0..FifoWords, area : [0..FifoWords-1 -> Word]]

(* The SPU's store of the line, which holds both pointers, never takes back
   a write pointer the client has moved while the instruction was executed:
   server/primaryspu/main.c:140-151 against client/fifodefs.h:55-58.         *)
WritePointerIsTheClients == [][SPU => write_ptr' = write_ptr]_vars

(* When the two pointers of a queue meet, every instruction published on it
   has been executed: what the waiting loop of glFlush relies on
   (client/glfifo.c:318-323).                                                *)
EmptyMeansExecuted ==
  \A q \in Queues :
    (write_ptr[q] = read_ptr[q] /\ client[q] = "free") => done[q] = sent[q]

(* The window is one for all queues, and yet nothing is executed for a queue
   that was written to one at another address: server/primaryspu/main.c:90,
   117.                                                                      *)
QueueExecutesItsOwn ==
  \A q \in Queues : \A c \in ToSet(done[q]) \ {0} : issuedTo[c] = q

(* No queue has been jumped back in or allocated anew.                       *)
Straight == laps = 0 /\ reuses = 0

(* Until then they do meet only when everything is executed, whatever the
   client publishes while the SPU fetches, executes, and stores in vain.     *)
StraightIsExecuted == Straight => EmptyMeansExecuted

(* The queue keeps the promise of CommandStream: no instruction is executed
   twice, before another one published earlier, or not as it was written;
   and where queues are never started over, each is executed in the end.     *)
Stream == INSTANCE CommandStream WITH
  sent <- IF Straight THEN sent ELSE [q \in Queues |-> <<>>],
  done <- IF Straight THEN done ELSE [q \in Queues |-> <<>>],
  straight <- Straight

StreamSpec == Stream!Spec
============================================================================
