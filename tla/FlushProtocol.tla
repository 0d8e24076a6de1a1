--------------------------- MODULE FlushProtocol ---------------------------
(* glFlush between a client, the server's main loop and the thread that runs
   the primary SPU (client/glfifo.c, client/client.c, server/main.c,
   server/connection.c, server/control.c).

   The client puts FLUSH on its queue, sends a request and waits.  The main
   loop notes FLUSHWAIT in the flags of the queue's allocation; when the SPU
   executes FLUSH it stops, and the thread that runs it walks the list of
   connections, notes FLUSHDONE and raises SIGHUP.  The loop answers once it
   finds both flags.  A queue that is freed, or whose client hangs up, is given
   up, and COUNT_DISPOSED is noted so that this happens once.  Neither the flags
   nor the list are locked, and `|=' and `&=' are a load and a store.

   A client has one connection with one queue, and stands for both.          *)
EXTENDS Naturals, FiniteSets

CONSTANTS
  Clients,
  Nil,          \* the end of a list
  MaxFlushes    \* bound: calls of glFlush altogether

ASSUME FlushAssumption ==
  /\ IsFiniteSet(Clients) /\ Clients # {}
  /\ Nil \notin Clients
  /\ MaxFlushes \in Nat

Wait == "FLUSHWAIT"
Done == "FLUSHDONE"
Both == {Wait, Done}
Disposed == "COUNT_DISPOSED"
Flags == Both \cup {Disposed}

VARIABLES
  client,       \* "new", "connected", "allocating", "idle", "pushed" (FLUSH
                \* published), "asked", "freed" (its queue), "gone"
  fifo,         \* FLUSH is published and not executed yet
  request,      \* the request in the socket: "none", "alloc", "flush", "free"
  reply,        \* the answer to a flush is in the socket
  begun,        \* history: calls of glFlush
  executed,     \* history: FLUSH instructions executed
  answered,     \* history: calls of glFlush that have returned
  flags,        \* the flags of the queue's allocation
  disposals,    \* history: how often the queue's count was given up
  fd,           \* "none" before accept, "open", "closed" (-1)
  firstAllocation, \* "unset" after malloc, "null", "queue"
  first,        \* list.first
  firstClosed,  \* list.firstClosed
  next,         \* nextConnection
  freed,        \* connections whose memory is given back
  main,         \* the main loop: [pc, at, prev, seen, input, hup, knock, skip, wake]
  spu           \* the thread of the SPU: [pc, target, at, seen, lost]

clientVars == <<client, begun, answered>>
socketVars == <<request, reply>>
queueVars == <<flags, disposals, firstAllocation>>
listVars == <<fd, first, firstClosed, next, freed>>
vars == <<clientVars, fifo, socketVars, executed, queueVars, listVars, main, spu>>
----------------------------------------------------------------------------
(* The client.                                                               *)

(* spuglConnect, whose requests keep no state, and the request for a queue,   *)
Connect(c) ==
  /\ client[c] = "new"
  /\ client' = [client EXCEPT ![c] = "allocating"]
  /\ request' = [request EXCEPT ![c] = "alloc"]
  /\ UNCHANGED <<begun, answered, fifo, reply, executed, queueVars, listVars, main, spu>>

(* ... and waits for it.                                                     *)
ReceiveQueue(c) ==
  /\ client[c] = "allocating"
  /\ firstAllocation[c] = "queue"
  /\ client' = [client EXCEPT ![c] = "idle"]
  /\ UNCHANGED <<begun, answered, fifo, socketVars, executed, queueVars, listVars, main, spu>>

(* glFlush publishes SYNC and FLUSH.                                         *)
PushFlush(c) ==
  /\ client[c] = "idle"
  /\ begun < MaxFlushes
  /\ begun' = begun + 1
  /\ client' = [client EXCEPT ![c] = "pushed"]
  /\ fifo' = [fifo EXCEPT ![c] = TRUE]
  /\ UNCHANGED <<answered, socketVars, executed, queueVars, listVars, main, spu>>

(* spuglFlush sends its request,                                             *)
AskFlush(c) ==
  /\ client[c] = "pushed"
  /\ client' = [client EXCEPT ![c] = "asked"]
  /\ request' = [request EXCEPT ![c] = "flush"]
  /\ UNCHANGED <<begun, answered, fifo, reply, executed, queueVars, listVars, main, spu>>

(* ... and waits for the reply.                                              *)
ReceiveReply(c) ==
  /\ client[c] = "asked"
  /\ reply[c]
  /\ reply' = [reply EXCEPT ![c] = FALSE]
  /\ client' = [client EXCEPT ![c] = "idle"]
  /\ answered' = [answered EXCEPT ![c] = @ + 1]
  /\ UNCHANGED <<begun, fifo, request, executed, queueVars, listVars, main, spu>>

(* spuglFreeCommandQueue forgets the queue, and does not wait.               *)
FreeQueue(c) ==
  /\ client[c] = "idle"
  /\ client' = [client EXCEPT ![c] = "freed"]
  /\ request' = [request EXCEPT ![c] = "free"]
  /\ UNCHANGED <<begun, answered, fifo, reply, executed, queueVars, listVars, main, spu>>

(* The client ends, whatever it was doing.                                   *)
Exit(c) ==
  /\ client[c] \notin {"new", "gone"}
  /\ client' = [client EXCEPT ![c] = "gone"]
  /\ UNCHANGED <<begun, answered, fifo, socketVars, executed, queueVars, listVars, main, spu>>

----------------------------------------------------------------------------
(* The main loop.                                                            *)
At(pc) == main.pc = pc
Goto(pc, at, prev) == [main EXCEPT !.pc = pc, !.at = at, !.prev = prev, !.seen = {}]

(* What the poll would report: sockets with data, those hung up, and whether
   somebody wants to connect.                                                *)
Input == {c \in Clients : fd[c] = "open" /\ request[c] # "none"}
Hup == {c \in Clients : fd[c] = "open" /\ client[c] = "gone"}
Backlog == {c \in Clients : fd[c] = "none" /\ client[c] # "new"}

Polled == [main EXCEPT !.pc = "serve", !.at = first, !.prev = Nil, !.input = Input,
                       !.hup = Hup, !.knock = (Backlog # {}), !.wake = FALSE]

(* Deviation of PollReturns: after a timeout it is called again at once.     *)
PollReturnsOnEvent ==
  /\ At("poll")
  /\ main' = IF main.wake \/ Input # {} \/ Hup # {} \/ Backlog # {} THEN Polled ELSE main
  /\ UNCHANGED <<clientVars, fifo, socketVars, executed, queueVars, listVars, spu>>

(* ppoll comes back: for a socket, for a signal that arrives while it waits,
   or after its timeout of a second.                                         *)
PollReturns ==
  /\ At("poll")
  /\ main' = Polled
  /\ UNCHANGED <<clientVars, fifo, socketVars, executed, queueVars, listVars, spu>>

(* The connections from p on.                                                *)
From(p) ==
  {c \in Clients : \A S \in SUBSET Clients :
     (p \in S \cup {Nil} /\ \A d \in S : next[d] \in S \cup {Nil}) => c \in S}

(* A connection that leaves makes the loop end one too early.                *)
Serving == At("serve") /\ Cardinality(From(main.at)) > main.skip

(* handleConnectionData: one request of the connection.                      *)
HasData == main.at \in main.input
Receives(kind) ==
  /\ Serving
  /\ HasData
  /\ request[main.at] = kind
  /\ request' = [request EXCEPT ![main.at] = "none"]
Served == main.input \ {main.at}

(* allocateBuffer, as far as flushes go.                                     *)
AllocateQueue ==
  /\ Receives("alloc")
  /\ firstAllocation' = [firstAllocation EXCEPT ![main.at] = "queue"]
  /\ main' = [main EXCEPT !.input = Served]
  /\ UNCHANGED <<clientVars, fifo, reply, executed, flags, disposals, listVars, spu>>

(* ptr->flags |= ALLOCATION_FLAGS_FLUSHWAIT: the load,                       *)
FlushRequestLoad ==
  /\ Receives("flush")
  /\ main' = [main EXCEPT !.pc = "orwait", !.seen = flags[main.at], !.input = Served]
  /\ UNCHANGED <<clientVars, fifo, reply, executed, queueVars, listVars, spu>>

(* ... and the store.                                                        *)
FlushRequestStore ==
  /\ At("orwait")
  /\ flags' = [flags EXCEPT ![main.at] = main.seen \cup {Wait}]
  /\ main' = [main EXCEPT !.pc = "serve", !.seen = {}]
  /\ UNCHANGED <<clientVars, fifo, socketVars, executed, disposals, firstAllocation,
                 listVars, spu>>

(* The count of the queue is given up unless the flag says that it was.      *)
GiveUp ==
  IF Disposed \in main.seen
  THEN UNCHANGED <<flags, disposals>>
  ELSE /\ flags' = [flags EXCEPT ![main.at] = main.seen \cup {Disposed}]
       /\ disposals' = [disposals EXCEPT ![main.at] = @ + 1]

(* freeBuffer: the load of the flags,                                        *)
FreeLoad ==
  /\ Receives("free")
  /\ main' = [main EXCEPT !.pc = "free", !.seen = flags[main.at], !.input = Served]
  /\ UNCHANGED <<clientVars, fifo, reply, executed, queueVars, listVars, spu>>

(* ... and the store.                                                        *)
FreeStore ==
  /\ At("free")
  /\ GiveUp
  /\ main' = [main EXCEPT !.pc = "serve", !.seen = {}]
  /\ UNCHANGED <<clientVars, fifo, socketVars, executed, firstAllocation, listVars, spu>>

(* A hang-up that ppoll has reported, once the data is read.                 *)
HangsUp == Serving /\ main.at \in main.hup /\ ~HasData

(* handleDisconnect: the load of the flags,                                  *)
DisconnectLoad ==
  /\ HangsUp
  /\ firstAllocation[main.at] = "queue"
  /\ main' = [main EXCEPT !.pc = "disconnect", !.seen = flags[main.at]]
  /\ UNCHANGED <<clientVars, fifo, socketVars, executed, queueVars, listVars, spu>>

(* ... and the store, if there is a queue.                                   *)
DisconnectStore ==
  /\ \/ At("disconnect") /\ GiveUp
     \/ /\ HangsUp
        /\ firstAllocation[main.at] # "queue"
        /\ UNCHANGED <<flags, disposals>>
  /\ fd' = [fd EXCEPT ![main.at] = "closed"]
  /\ main' = [main EXCEPT !.pc = "unlink", !.seen = {}]
  /\ UNCHANGED <<clientVars, fifo, socketVars, executed, firstAllocation, first,
                 firstClosed, next, freed, spu>>

(* The connection leaves the list                                            *)
Unlink ==
  /\ At("unlink")
  /\ IF main.prev = Nil
     THEN first' = next[main.at] /\ UNCHANGED next
     ELSE next' = [next EXCEPT ![main.prev] = next[main.at]] /\ UNCHANGED first
  /\ main' = [main EXCEPT !.pc = "close"]
  /\ UNCHANGED <<clientVars, fifo, socketVars, executed, queueVars, fd, freed,
                 firstClosed, spu>>

(* ... for the closed list; and on to what curr_ptr points at now.           *)
LinkClosed ==
  /\ At("close")
  /\ next' = [next EXCEPT ![main.at] = firstClosed]
  /\ firstClosed' = main.at
  /\ main' = [Goto("serve", IF main.prev = Nil THEN first ELSE next[main.prev], main.prev)
                EXCEPT !.skip = @ + 1]
  /\ UNCHANGED <<clientVars, fifo, socketVars, executed, queueVars, fd, first, freed, spu>>

ServeNext ==
  /\ Serving
  /\ ~HasData
  /\ main.at \notin main.hup
  /\ main' = Goto("serve", next[main.at], main.at)
  /\ UNCHANGED <<clientVars, fifo, socketVars, executed, queueVars, listVars, spu>>

ServeDone ==
  /\ At("serve")
  /\ ~Serving
  /\ main' = [Goto("accept", Nil, Nil) EXCEPT !.input = {}, !.hup = {}, !.skip = 0]
  /\ UNCHANGED <<clientVars, fifo, socketVars, executed, queueVars, listVars, spu>>

NobodyKnocks ==
  /\ At("accept")
  /\ ~main.knock
  /\ main' = Goto("sweep", first, Nil)
  /\ UNCHANGED <<clientVars, fifo, socketVars, executed, queueVars, listVars, spu>>

(* accept: a connection, and what becomes its successor.                     *)
Accepting(c, n) ==
  /\ At("accept")
  /\ main.knock
  /\ fd' = [fd EXCEPT ![c] = "open"]
  /\ next' = [next EXCEPT ![c] = n]
  /\ main' = [Goto("publish", c, Nil) EXCEPT !.knock = FALSE]
  /\ UNCHANGED <<clientVars, fifo, socketVars, executed, queueVars, first,
                 firstClosed, freed, spu>>

(* Deviation of Accept: the new connection is the only one.                  *)
AcceptAlone == \E c \in Backlog : Accepting(c, Nil)

(* connection->nextConnection = list.first,                                  *)
Accept == \E c \in Backlog : Accepting(c, first)

(* list.first = connection,                                                  *)
Publish ==
  /\ At("publish")
  /\ first' = main.at
  /\ main' = [main EXCEPT !.pc = "connect"]
  /\ UNCHANGED <<clientVars, fifo, socketVars, executed, queueVars, fd, firstClosed,
                 next, freed, spu>>

(* ... and only then connection->firstAllocation = NULL.                     *)
handleConnect ==
  /\ At("connect")
  /\ firstAllocation' = [firstAllocation EXCEPT ![main.at] = "null"]
  /\ main' = Goto("sweep", first, Nil)
  /\ UNCHANGED <<clientVars, fifo, socketVars, executed, flags, disposals, listVars, spu>>

(* Deviation of FlushIsOver: any request is answered at once.                *)
FlushIsAsked(f) == Wait \in f

(* processOutstandingRequests: which flags stand for a flush that is over.   *)
FlushIsOver(f) == Both \subseteq f

(* del->flags &= ~(FLUSHWAIT|FLUSHDONE): what is left of them.               *)
Cleared(f) == f \ Both

(* The SPU works on the queue of c: its lock keeps the queue allocated.      *)
InUse(c) == spu.pc # "idle" /\ spu.target = c

Answers(c) == firstAllocation[c] = "queue" /\ FlushIsOver(flags[c])

AnswerLoad ==
  /\ At("sweep")
  /\ main.at # Nil
  /\ Answers(main.at)
  /\ main' = [main EXCEPT !.pc = "answer", !.seen = flags[main.at]]
  /\ UNCHANGED <<clientVars, fifo, socketVars, executed, queueVars, listVars, spu>>

AnswerStore ==
  /\ At("answer")
  /\ flags' = [flags EXCEPT ![main.at] = Cleared(main.seen)]
  /\ reply' = [reply EXCEPT ![main.at] = TRUE]
  /\ main' = [main EXCEPT !.pc = "tryfree", !.seen = {}]
  /\ UNCHANGED <<clientVars, fifo, request, executed, disposals, firstAllocation,
                 listVars, spu>>

Tries == At("tryfree") \/ (At("sweep") /\ main.at # Nil /\ ~Answers(main.at))

(* blockManagementTryFree of a queue that is given up and not in use,        *)
TryFree ==
  /\ Tries
  /\ firstAllocation[main.at] = "queue"
  /\ disposals[main.at] > 0
  /\ ~InUse(main.at)
  /\ firstAllocation' = [firstAllocation EXCEPT ![main.at] = "null"]
  /\ main' = Goto("sweep", next[main.at], main.at)
  /\ UNCHANGED <<clientVars, fifo, socketVars, executed, flags, disposals, listVars, spu>>

(* ... or of another, or of one that the SPU holds for other instructions.   *)
SweepNext ==
  /\ Tries
  /\ main' = Goto("sweep", next[main.at], main.at)
  /\ UNCHANGED <<clientVars, fifo, socketVars, executed, queueVars, listVars, spu>>

SweepDone ==
  /\ At("sweep")
  /\ main.at = Nil
  /\ main' = Goto("closed", firstClosed, Nil)
  /\ UNCHANGED <<clientVars, fifo, socketVars, executed, queueVars, listVars, spu>>

(* The sweep of the closed connections: one whose queue is gone is unlinked
   and its memory freed.                                                     *)
FreeClosed ==
  /\ At("closed")
  /\ main.at # Nil
  /\ firstAllocation[main.at] = "queue" => disposals[main.at] > 0 /\ ~InUse(main.at)
  /\ firstAllocation' = [firstAllocation EXCEPT ![main.at] = "null"]
  /\ IF main.prev = Nil
     THEN firstClosed' = next[main.at] /\ UNCHANGED next
     ELSE next' = [next EXCEPT ![main.prev] = next[main.at]] /\ UNCHANGED firstClosed
  /\ freed' = freed \cup {main.at}
  /\ main' = Goto("closed", next[main.at], main.prev)
  /\ UNCHANGED <<clientVars, fifo, socketVars, executed, flags, disposals, fd, first, spu>>

(* One whose queue the SPU holds, for this instruction or another, is kept.
   Its flags are cleared as well, and nothing is sent, its fd being -1.      *)
KeepClosed ==
  /\ At("closed")
  /\ main.at # Nil
  /\ firstAllocation[main.at] = "queue"
  /\ flags' = [flags EXCEPT ![main.at] = IF FlushIsOver(@) THEN Cleared(@) ELSE @]
  /\ main' = Goto("closed", next[main.at], main.at)
  /\ UNCHANGED <<clientVars, fifo, socketVars, executed, disposals, firstAllocation,
                 listVars, spu>>

ClosedDone ==
  /\ At("closed")
  /\ main.at = Nil
  /\ main' = Goto("poll", Nil, Nil)
  /\ UNCHANGED <<clientVars, fifo, socketVars, executed, queueVars, listVars, spu>>
----------------------------------------------------------------------------
(* The thread of the primary SPU.                                            *)
Idle == [pc |-> "idle", target |-> Nil, at |-> Nil, seen |-> {}, lost |-> FALSE]
Walk(c) == [pc |-> "walk", target |-> c, at |-> first, seen |-> {}, lost |-> FALSE]

(* Deviation of ExecuteFlush: the read pointer stays on the instruction.     *)
ExecuteFlushAgain(c) ==
  /\ spu.pc = "idle"
  /\ fifo[c]
  /\ firstAllocation[c] = "queue"
  /\ executed' = [executed EXCEPT ![c] = @ + 1]
  /\ spu' = Walk(c)
  /\ UNCHANGED <<fifo, clientVars, socketVars, queueVars, listVars, main>>

(* imp_glFlush stops the SPU; flush_callback calls receivedFlush.            *)
ExecuteFlush(c) ==
  /\ spu.pc = "idle"
  /\ fifo[c]
  /\ firstAllocation[c] = "queue"
  /\ fifo' = [fifo EXCEPT ![c] = FALSE]
  /\ executed' = [executed EXCEPT ![c] = @ + 1]
  /\ spu' = Walk(c)
  /\ UNCHANGED <<clientVars, socketVars, queueVars, listVars, main>>

(* A connection that is in the closed list, or freed.                        *)
Moved(c) == fd[c] = "closed" /\ ~(main.at = c /\ main.pc \in {"unlink", "close"})

(* On to the next connection.  Memory that has been given back may hold
   anything, taken here as the end of the list or any connection; a list of
   allocations that nobody has set yet is empty, or the walk ends in it.     *)
WalkNext ==
  /\ spu.pc = "walk"
  /\ spu.at \notin {Nil, spu.target}
  /\ \E c \in CASE spu.at \in freed -> {d \in Clients : fd[d] # "none"} \cup {Nil}
                [] spu.at \notin freed /\ firstAllocation[spu.at] = "unset" -> {next[spu.at], Nil}
                [] OTHER -> {next[spu.at]} :
       spu' = [spu EXCEPT !.at = c,
                          !.lost = @ \/ Moved(spu.at) \/ firstAllocation[spu.at] = "unset"]
  /\ UNCHANGED <<clientVars, fifo, socketVars, executed, queueVars, listVars, main>>

(* Deviation of WalkFails: the search begins anew.                           *)
WalkAgain ==
  /\ spu.pc = "walk"
  /\ spu.at = Nil
  /\ spu' = [spu EXCEPT !.at = first]
  /\ UNCHANGED <<clientVars, fifo, socketVars, executed, queueVars, listVars, main>>

(* "flush not found"                                                         *)
WalkFails ==
  /\ spu.pc = "walk"
  /\ spu.at = Nil
  /\ spu' = Idle
  /\ UNCHANGED <<clientVars, fifo, socketVars, executed, queueVars, listVars, main>>

(* ptr->flags |= ALLOCATION_FLAGS_FLUSHDONE: the load,                       *)
FlushDoneLoad ==
  /\ spu.pc = "walk"
  /\ spu.at = spu.target
  /\ spu' = [spu EXCEPT !.pc = "ordone", !.seen = flags[spu.at]]
  /\ UNCHANGED <<clientVars, fifo, socketVars, executed, queueVars, listVars, main>>

(* ... and the store; SIGHUP ends a ppoll that is waiting when the main
   thread is the one that gets it.                                           *)
FlushDoneStore ==
  /\ spu.pc = "ordone"
  /\ flags' = [flags EXCEPT ![spu.at] = spu.seen \cup {Done}]
  /\ \E w \in {main.wake, main.wake \/ main.pc = "poll"} :
       main' = [main EXCEPT !.wake = w]
  /\ spu' = Idle
  /\ UNCHANGED <<clientVars, fifo, socketVars, executed, disposals, firstAllocation, listVars>>
----------------------------------------------------------------------------
Init ==
  /\ client = [c \in Clients |-> "new"]
  /\ fifo = [c \in Clients |-> FALSE]
  /\ request = [c \in Clients |-> "none"]
  /\ reply = [c \in Clients |-> FALSE]
  /\ begun = 0
  /\ executed = [c \in Clients |-> 0]
  /\ answered = [c \in Clients |-> 0]
  /\ flags = [c \in Clients |-> {}]
  /\ disposals = [c \in Clients |-> 0]
  /\ fd = [c \in Clients |-> "none"]
  /\ firstAllocation = [c \in Clients |-> "unset"]
  /\ first = Nil
  /\ firstClosed = Nil
  /\ next = [c \in Clients |-> Nil]
  /\ freed = {}
  /\ main = [pc |-> "poll", at |-> Nil, prev |-> Nil, seen |-> {},
             input |-> {}, hup |-> {}, knock |-> FALSE, skip |-> 0, wake |-> FALSE]
  /\ spu = Idle

Client(c) ==
  \/ Connect(c) \/ ReceiveQueue(c)
  \/ PushFlush(c) \/ AskFlush(c) \/ ReceiveReply(c) \/ FreeQueue(c) \/ Exit(c)

MainStep ==
  \/ AllocateQueue \/ FlushRequestLoad \/ FlushRequestStore \/ FreeLoad \/ FreeStore
  \/ DisconnectLoad \/ DisconnectStore \/ Unlink \/ LinkClosed \/ ServeNext \/ ServeDone
  \/ NobodyKnocks \/ Accept \/ Publish \/ handleConnect
  \/ AnswerLoad \/ AnswerStore \/ TryFree \/ SweepNext \/ SweepDone
  \/ FreeClosed \/ KeepClosed \/ ClosedDone

Callback == WalkNext \/ WalkFails \/ FlushDoneLoad \/ FlushDoneStore

Next ==
  \/ \E c \in Clients : Client(c) \/ ExecuteFlush(c)
  \/ PollReturns \/ MainStep \/ Callback

(* The main thread and the thread of the SPU are scheduled, ppoll comes back
   after a second at the latest, the SPU goes round the queues, and a client
   that has begun a flush goes on with it.  No client has to begin or to end. *)
Fairness ==
  /\ WF_vars(PollReturns)
  /\ WF_vars(MainStep)
  /\ WF_vars(Callback)
  /\ \A c \in Clients : /\ SF_vars(ExecuteFlush(c))
                        /\ WF_vars(AskFlush(c) \/ ReceiveReply(c))

Spec == Init /\ [][Next]_vars /\ Fairness
----------------------------------------------------------------------------
(* Types.                                                                    *)
TypeOK ==
  /\ client \in [Clients -> {"new", "allocating", "idle", "pushed", "asked", "freed", "gone"}]
  /\ {fifo, reply} \subseteq [Clients -> BOOLEAN]
  /\ request \in [Clients -> {"none", "alloc", "flush", "free"}]
  /\ {executed, answered} \subseteq [Clients -> 0..MaxFlushes]
  /\ begun \in 0..MaxFlushes
  /\ flags \in [Clients -> SUBSET Flags]
  /\ disposals \in [Clients -> Nat]
  /\ fd \in [Clients -> {"none", "open", "closed"}]
  /\ firstAllocation \in [Clients -> {"unset", "null", "queue"}]
  /\ {first, firstClosed} \subseteq Clients \cup {Nil}
  /\ next \in [Clients -> Clients \cup {Nil}]
  /\ freed \subseteq Clients
  /\ main \in [pc : {"poll", "serve", "orwait", "free", "disconnect", "unlink", "close",
                     "accept", "publish", "connect", "sweep", "answer", "tryfree", "closed"},
               at : Clients \cup {Nil}, prev : Clients \cup {Nil},
               seen : SUBSET Flags, input : SUBSET Clients, hup : SUBSET Clients,
               knock : BOOLEAN, skip : Nat, wake : BOOLEAN]
  /\ spu \in [pc : {"idle", "walk", "ordone"}, target : Clients \cup {Nil},
              at : Clients \cup {Nil}, seen : SUBSET Flags, lost : BOOLEAN]

(* An answer stands for a FLUSH instruction that the SPU has executed, a new
   one for every answer: client/client.c:238, server/connection.c:121-129.   *)
AnswerMeansFlushed ==
  \A c \in Clients : answered[c] + (IF reply[c] THEN 1 ELSE 0) <= executed[c]

(* Freed by its client, and hung up later or before the free is read, a queue is
   given up once: server/connection.c:57, 74.  The flag that says so is written
   without a lock beside FLUSHDONE; it is kept because a client that waits for its
   flushes frees no queue while the SPU's thread has one to note.            *)
GivenUpOnce == \A c \in Clients : disposals[c] <= 1

(* A walk that has met no connection that was moved finds the one it looks for,
   while others are accepted and leave: server/main.c:64-76, 174, 197-198.   *)
WalkFindsTheOpen ==
  spu.pc = "walk" /\ ~spu.lost /\ fd[spu.target] = "open"
    => \/ spu.target \in From(spu.at)
       \/ spu.at # Nil /\ Moved(spu.at)

(* Once both flags of a queue are set its client gets the answer, whether or
   not the signal reaches a waiting ppoll: server/main.c:70, 160-163.        *)
RecordedIsAnswered ==
  \A c \in Clients :
    (Both \subseteq flags[c] /\ client[c] = "asked") ~> (client[c] \in {"idle", "gone"})

(* The walk over the connections ends, and with it the stop of the SPU, while
   connections leave the list under it: server/main.c:64-76, 171-178.        *)
WalkEnds == (spu.pc # "idle") ~> (spu.pc = "idle")

(* A client that waits for its flush is answered: client/client.c:238.       *)
EveryFlushIsAnswered ==
  \A c \in Clients : (client[c] = "asked") ~> (client[c] \in {"idle", "gone"})
============================================================================
