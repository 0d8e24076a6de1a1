------------------------ MODULE FlushProtocolProofs ------------------------
(***************************************************************************)
(* For any number of clients and flushes: an answer stands for a FLUSH     *)
(* that the SPU has executed, although two threads write the flags without *)
(* a lock.  Such stores lose flags, and bring back flags that were cleared;*)
(* what they cannot do is make a FLUSHDONE.                                *)
(*                                                                         *)
(* The list of connections under the main loop, which links new ones at    *)
(* its head and unlinks those that hang up, and under the walk of the SPU's*)
(* thread, which holds no lock: for any number of clients, a walk that has *)
(* not met a connection in the wrong list finds the one it looks for, and  *)
(* a queue is given up once.                                               *)
(***************************************************************************)
EXTENDS FlushProtocol, FiniteSetTheorems, TLAPS

Ptr == Clients \cup {Nil}
MainState == [pc : {"poll", "serve", "orwait", "free", "disconnect", "unlink", "close",
                    "accept", "publish", "connect", "sweep", "answer", "tryfree", "closed"},
              at : Ptr, prev : Ptr, seen : SUBSET Flags,
              input : SUBSET Clients, hup : SUBSET Clients,
              knock : BOOLEAN, skip : Nat, wake : BOOLEAN]
SpuState == [pc : {"idle", "walk", "ordone"}, target : Ptr, at : Ptr,
             seen : SUBSET Flags, lost : BOOLEAN]

\* The types, without the bounds of the counters.
Types ==
  /\ client \in [Clients -> {"new", "allocating", "idle", "pushed", "asked", "freed", "gone"}]
  /\ fifo \in [Clients -> BOOLEAN]
  /\ request \in [Clients -> {"none", "alloc", "flush", "free"}]
  /\ reply \in [Clients -> BOOLEAN]
  /\ executed \in [Clients -> Nat] /\ answered \in [Clients -> Nat]
  /\ flags \in [Clients -> SUBSET Flags]
  /\ disposals \in [Clients -> Nat]
  /\ fd \in [Clients -> {"none", "open", "closed"}]
  /\ firstAllocation \in [Clients -> {"unset", "null", "queue"}]
  /\ first \in Ptr /\ firstClosed \in Ptr
  /\ next \in [Clients -> Ptr]
  /\ freed \subseteq Clients
  /\ main \in MainState
  /\ spu \in SpuState

\* Where the loop works on a connection.
Working == {"orwait", "free", "disconnect", "unlink", "close", "publish", "connect",
            "answer", "tryfree"}

\* What the loop has loaded, and needs, is still there when it stores: nobody else
\* clears a FLUSHDONE.
MainInv ==
  /\ main.pc \in Working => main.at # Nil
  /\ main.pc \in {"orwait", "free", "disconnect"} =>
       (Done \in main.seen => Done \in flags[main.at])
  /\ At("answer") => Done \in flags[main.at]

\* The walk looks for a client, and stores where it has found it.
SpuInv ==
  /\ spu.pc # "idle" => spu.target # Nil
  /\ spu.pc = "ordone" => spu.at = spu.target

One(b) == IF b THEN 1 ELSE 0

\* A FLUSH that has been executed is being noted, or noted, or answered, or its
\* answer received; none counts twice.
Accounted(c) ==
  answered[c] + One(reply[c]) + One(Done \in flags[c]) + One(InUse(c)) <= executed[c]

IInv ==
  /\ Types
  /\ MainInv
  /\ SpuInv
  /\ \A c \in Clients : Accounted(c)

-----------------------------------------------------------------------------
LEMMA InitIInv == Init => IInv
<1> SUFFICES ASSUME Init PROVE IInv
  OBVIOUS
<1>1. main \in MainState /\ spu \in SpuState
  BY DEF Init, MainState, SpuState, Ptr, Idle
<1>2. Types
  BY <1>1 DEF Init, Types, Ptr
<1>3. MainInv /\ SpuInv
  BY DEF Init, MainInv, SpuInv, At, Idle, Working
<1>4. ASSUME NEW c \in Clients PROVE Accounted(c)
  BY DEF Init, Accounted, One, InUse, Idle
<1> QED
  BY <1>2, <1>3, <1>4 DEF IInv

\* The list of connections from Nil on is empty.
LEMMA NothingFromNil == From(Nil) = {}
<1> SUFFICES ASSUME NEW c \in From(Nil) PROVE FALSE
  OBVIOUS
<1>1. \A S \in SUBSET Clients :
        (Nil \in S \cup {Nil} /\ \A d \in S : next[d] \in S \cup {Nil}) => c \in S
  BY DEF From
<1>2. c \in {}
  BY <1>1
<1> QED BY <1>2

LEMMA ServingIsWorking ==
  ASSUME Types, Serving
  PROVE  main.at \in Clients
<1>1. main.at \in Ptr /\ main.skip \in Nat
  BY DEF Types, MainState
<1>2. Cardinality({}) = 0
  BY FS_EmptySet
<1>3. main.at # Nil
  BY <1>1, <1>2, NothingFromNil DEF Serving
<1> QED BY <1>1, <1>3 DEF Ptr

LEMMA TypesStep ==
  ASSUME IInv, [Next]_vars
  PROVE  Types'
<1> USE DEF IInv, Types, At, Ptr
<1>c. ASSUME NEW c \in Clients, Client(c) PROVE Types'
  <2>1. CASE Connect(c) BY <2>1 DEF Connect, queueVars, listVars
  <2>2. CASE ReceiveQueue(c) BY <2>2 DEF ReceiveQueue, socketVars, queueVars, listVars
  <2>3. CASE PushFlush(c) BY <2>3 DEF PushFlush, socketVars, queueVars, listVars
  <2>4. CASE AskFlush(c) BY <2>4 DEF AskFlush, queueVars, listVars
  <2>5. CASE ReceiveReply(c) BY <2>5 DEF ReceiveReply, queueVars, listVars
  <2>6. CASE FreeQueue(c) BY <2>6 DEF FreeQueue, queueVars, listVars
  <2>7. CASE Exit(c) BY <2>7 DEF Exit, socketVars, queueVars, listVars
  <2> QED BY <1>c, <2>1, <2>2, <2>3, <2>4, <2>5, <2>6, <2>7 DEF Client
<1> USE DEF clientVars, socketVars, queueVars, listVars
<1>g. ASSUME NEW pc \in {"serve", "accept", "sweep", "closed", "poll", "publish"},
             NEW at \in Ptr, NEW prev \in Ptr
      PROVE  Goto(pc, at, prev) \in MainState
  BY DEF Goto, MainState
<1>1. CASE PollReturns
  <2>1. Input \in SUBSET Clients /\ Hup \in SUBSET Clients /\ (Backlog # {}) \in BOOLEAN
    BY DEF Input, Hup
  <2>2. main' \in MainState
    BY <1>1, <2>1 DEF PollReturns, Polled, MainState
  <2> QED BY <1>1, <2>2 DEF PollReturns
<1>2. CASE AllocateQueue
  <2>1. main' \in MainState BY <1>2 DEF AllocateQueue, MainState, Served
  <2> QED BY <1>2, <2>1 DEF AllocateQueue, Receives
<1>3. CASE FlushRequestLoad
  <2>1. main.at \in Clients BY <1>3, ServingIsWorking DEF FlushRequestLoad, Receives
  <2>2. main' \in MainState BY <1>3, <2>1 DEF FlushRequestLoad, MainState, Served
  <2> QED BY <1>3, <2>2 DEF FlushRequestLoad, Receives
<1>4. CASE FlushRequestStore
  <2>1. main.seen \cup {Wait} \in SUBSET Flags
    BY DEF MainState, Flags, Both
  <2>2. main' \in MainState BY <1>4 DEF FlushRequestStore, MainState
  <2> QED BY <1>4, <2>1, <2>2 DEF FlushRequestStore
<1>5. ASSUME GiveUp PROVE flags' \in [Clients -> SUBSET Flags] /\ disposals' \in [Clients -> Nat]
  <2>1. main.seen \cup {Disposed} \in SUBSET Flags
    BY DEF MainState, Flags
  <2>2. CASE Disposed \in main.seen BY <1>5, <2>2 DEF GiveUp
  <2>3. CASE Disposed \notin main.seen
    <3>1. disposals' = [disposals EXCEPT ![main.at] = @ + 1] BY <1>5, <2>3 DEF GiveUp
    <3>2. \A n \in Nat : n + 1 \in Nat OBVIOUS
    <3> QED BY <1>5, <2>1, <2>3, <3>1, <3>2 DEF GiveUp
  <2> QED BY <2>2, <2>3
<1>6. CASE FreeLoad
  <2>1. main.at \in Clients BY <1>6, ServingIsWorking DEF FreeLoad, Receives
  <2>2. main' \in MainState BY <1>6, <2>1 DEF FreeLoad, MainState, Served
  <2> QED BY <1>6, <2>2 DEF FreeLoad, Receives
<1>7. CASE FreeStore
  <2>1. main' \in MainState BY <1>7 DEF FreeStore, MainState
  <2> QED BY <1>5, <1>7, <2>1 DEF FreeStore
<1>8. CASE DisconnectLoad
  <2>1. main.at \in Clients BY <1>8, ServingIsWorking DEF DisconnectLoad, HangsUp
  <2>2. main' \in MainState BY <1>8, <2>1 DEF DisconnectLoad, MainState
  <2> QED BY <1>8, <2>2 DEF DisconnectLoad
<1>9. CASE DisconnectStore
  <2>1. main' \in MainState BY <1>9 DEF DisconnectStore, MainState
  <2>2. flags' \in [Clients -> SUBSET Flags] /\ disposals' \in [Clients -> Nat]
    BY <1>5, <1>9 DEF DisconnectStore
  <2> QED BY <1>9, <2>1, <2>2 DEF DisconnectStore
<1>10. CASE Unlink
  <2>1. main.at \in Clients /\ main.prev \in Ptr
    BY <1>10 DEF Unlink, MainState, MainInv, Working
  <2>2. next' \in [Clients -> Ptr] /\ first' \in Ptr
    BY <1>10, <2>1 DEF Unlink
  <2>3. main' \in MainState BY <1>10 DEF Unlink, MainState
  <2> QED BY <1>10, <2>2, <2>3 DEF Unlink
<1>11. CASE LinkClosed
  <2>1. main.at \in Ptr /\ main.prev \in Ptr /\ main.skip + 1 \in Nat
    BY DEF MainState
  <2>2. (IF main.prev = Nil THEN first ELSE next[main.prev]) \in Ptr
    BY <2>1
  <2>3. next' \in [Clients -> Ptr] /\ firstClosed' \in Ptr
    BY <1>11, <2>1 DEF LinkClosed
  <2>4. main' \in MainState
    BY <1>11, <2>1, <2>2 DEF LinkClosed, Goto, MainState
  <2> QED BY <1>11, <2>3, <2>4 DEF LinkClosed
<1>12. CASE ServeNext
  <2>1. main.at \in Clients BY <1>12, ServingIsWorking DEF ServeNext
  <2> QED BY <1>12, <1>g, <2>1 DEF ServeNext
<1>13. CASE ServeDone
  <2>1. main' \in MainState BY <1>13 DEF ServeDone, Goto, MainState
  <2> QED BY <1>13, <2>1 DEF ServeDone
<1>14. CASE NobodyKnocks BY <1>14, <1>g DEF NobodyKnocks
<1>15. CASE Accept
  <2>1. PICK c \in Backlog : Accepting(c, first) BY <1>15 DEF Accept
  <2>2. c \in Clients BY DEF Backlog
  <2>3. main' \in MainState BY <2>1, <2>2 DEF Accepting, Goto, MainState
  <2> QED BY <2>1, <2>2, <2>3 DEF Accepting
<1>16. CASE Publish
  <2>1. main' \in MainState /\ main.at \in Ptr BY <1>16 DEF Publish, MainState
  <2> QED BY <1>16, <2>1 DEF Publish
<1>17. CASE handleConnect BY <1>17, <1>g DEF handleConnect
<1>18. CASE AnswerLoad
  <2>1. main.at \in Clients BY <1>18 DEF AnswerLoad, MainState
  <2>2. main' \in MainState BY <1>18, <2>1 DEF AnswerLoad, MainState
  <2> QED BY <1>18, <2>2 DEF AnswerLoad
<1>19. CASE AnswerStore
  <2>1. Cleared(main.seen) \in SUBSET Flags BY DEF MainState, Cleared
  <2>2. main' \in MainState BY <1>19 DEF AnswerStore, MainState
  <2> QED BY <1>19, <2>1, <2>2 DEF AnswerStore
<1>20. CASE TryFree \/ SweepNext
  <2>1. main.at \in Clients
    BY <1>20 DEF TryFree, SweepNext, Tries, MainState, MainInv, Working
  <2>2. main' \in MainState
    <3>1. main' = Goto("sweep", next[main.at], main.at) /\ next[main.at] \in Ptr
      BY <1>20, <2>1 DEF TryFree, SweepNext
    <3> QED BY <1>g, <2>1, <3>1
  <2>3. firstAllocation' \in [Clients -> {"unset", "null", "queue"}]
    BY <1>20 DEF TryFree, SweepNext
  <2> QED BY <1>20, <2>2, <2>3 DEF TryFree, SweepNext
<1>21. CASE SweepDone BY <1>21, <1>g DEF SweepDone
<1>22. CASE FreeClosed
  <2>1. main.at \in Clients /\ main.prev \in Ptr BY <1>22 DEF FreeClosed, MainState
  <2>2. next' \in [Clients -> Ptr] /\ firstClosed' \in Ptr BY <1>22, <2>1 DEF FreeClosed
  <2>3. main' \in MainState BY <1>22, <1>g, <2>1 DEF FreeClosed
  <2> QED BY <1>22, <2>1, <2>2, <2>3 DEF FreeClosed
<1>23. CASE KeepClosed
  <2>1. main.at \in Clients /\ flags[main.at] \subseteq Flags BY <1>23 DEF KeepClosed, MainState
  <2>2. flags' \in [Clients -> SUBSET Flags] BY <1>23, <2>1 DEF KeepClosed, Cleared
  <2>3. main' \in MainState BY <1>23, <1>g, <2>1 DEF KeepClosed
  <2> QED BY <1>23, <2>2, <2>3 DEF KeepClosed
<1>24. CASE ClosedDone BY <1>24, <1>g DEF ClosedDone
<1>25. ASSUME NEW c \in Clients, ExecuteFlush(c) PROVE Types'
  <2>1. spu' \in SpuState BY <1>25 DEF ExecuteFlush, SpuState, Walk
  <2>2. executed' \in [Clients -> Nat]
    <3>1. \A n \in Nat : n + 1 \in Nat OBVIOUS
    <3> QED BY <1>25, <3>1 DEF ExecuteFlush
  <2> QED BY <1>25, <2>1, <2>2 DEF ExecuteFlush
<1>26. CASE WalkNext
  <2>1. spu.at \in Clients BY <1>26 DEF WalkNext, SpuState
  <2>2. PICK c \in Ptr : spu' = [spu EXCEPT !.at = c,
                            !.lost = @ \/ Moved(spu.at) \/ firstAllocation[spu.at] = "unset"]
    BY <1>26, <2>1 DEF WalkNext
  <2>3. (spu.lost \/ Moved(spu.at) \/ firstAllocation[spu.at] = "unset") \in BOOLEAN
    BY DEF Moved, SpuState
  <2>4. spu' \in SpuState BY <2>2, <2>3 DEF SpuState
  <2> QED BY <1>26, <2>4 DEF WalkNext
<1>27. CASE WalkFails BY <1>27 DEF WalkFails, SpuState, Idle
<1>28. CASE FlushDoneLoad
  <2>1. spu.at \in Clients BY <1>28 DEF FlushDoneLoad, SpuInv, SpuState
  <2> QED BY <1>28, <2>1 DEF FlushDoneLoad, SpuState
<1>29. CASE FlushDoneStore
  <2>1. spu.seen \cup {Done} \in SUBSET Flags BY DEF SpuState, Flags, Both
  <2>2. PICK w \in BOOLEAN : main' = [main EXCEPT !.wake = w]
    BY <1>29 DEF FlushDoneStore, MainState
  <2>3. main' \in MainState /\ spu' \in SpuState
    BY <1>29, <2>2 DEF FlushDoneStore, MainState, SpuState, Idle
  <2> QED BY <1>29, <2>1, <2>3 DEF FlushDoneStore
<1>30. CASE UNCHANGED vars BY <1>30 DEF vars
<1> QED
  BY <1>c, <1>1, <1>2, <1>3, <1>4, <1>6, <1>7, <1>8, <1>9, <1>10, <1>11, <1>12, <1>13, <1>14,
     <1>15, <1>16, <1>17, <1>18, <1>19, <1>20, <1>21, <1>22, <1>23, <1>24, <1>25, <1>26, <1>27,
     <1>28, <1>29, <1>30 DEF Next, MainStep, Callback

-----------------------------------------------------------------------------
\* Steps of others leave the program counter of the loop alone and clear nothing.
LEMMA MainInvStep ==
  ASSUME IInv, [Next]_vars
  PROVE  MainInv'
<1> USE DEF IInv, Types, MainInv, At, Working
<1>1. CASE UNCHANGED <<main, flags>>
  BY <1>1
<1>2. CASE \E c \in Clients : Client(c) \/ ExecuteFlush(c)
  BY <1>2, <1>1 DEF Client, Connect, ReceiveQueue, PushFlush, AskFlush, ReceiveReply,
     FreeQueue, Exit, ExecuteFlush, queueVars
<1>3. CASE WalkNext \/ WalkFails \/ FlushDoneLoad
  BY <1>3, <1>1 DEF WalkNext, WalkFails, FlushDoneLoad, queueVars
<1>4. CASE FlushDoneStore
  <2>1. /\ main'.pc = main.pc /\ main'.at = main.at /\ main'.seen = main.seen
        /\ spu.at \in Clients
    BY <1>4 DEF FlushDoneStore, MainState, SpuState, SpuInv, Ptr
  <2>2. \A c \in Clients : Done \in flags[c] => Done \in flags'[c]
    BY <1>4, <2>1 DEF FlushDoneStore
  <2> QED
    BY <2>1, <2>2 DEF MainState, Ptr
<1>5. CASE FlushRequestLoad \/ FreeLoad \/ DisconnectLoad
  <2>1. main.at \in Clients /\ main.at # Nil
    BY <1>5, ServingIsWorking, FlushAssumption
       DEF FlushRequestLoad, FreeLoad, DisconnectLoad, HangsUp, Receives
  <2>2. /\ main'.pc \in {"orwait", "free", "disconnect"}
        /\ main'.at = main.at /\ main'.seen = flags[main.at] /\ flags' = flags
    <3>1. CASE FlushRequestLoad BY <3>1 DEF FlushRequestLoad, MainState, queueVars
    <3>2. CASE FreeLoad BY <3>2 DEF FreeLoad, MainState, queueVars
    <3>3. CASE DisconnectLoad BY <3>3 DEF DisconnectLoad, MainState, queueVars
    <3> QED BY <1>5, <3>1, <3>2, <3>3
  <2> QED
    BY <2>1, <2>2
<1>6. CASE DisconnectStore
  <2>1. main.at \in Clients /\ main.at # Nil
    BY <1>6, ServingIsWorking, FlushAssumption DEF DisconnectStore, HangsUp, MainState, Ptr
  <2>2. main'.pc = "unlink" /\ main'.at = main.at
    BY <1>6 DEF DisconnectStore, MainState
  <2> QED
    BY <2>1, <2>2
<1>7. CASE Unlink \/ Publish
  <2>1. CASE Unlink BY <2>1 DEF Unlink, Goto, MainState
  <2>2. CASE Publish BY <2>2 DEF Publish, MainState
  <2> QED BY <1>7, <2>1, <2>2
<1>8. CASE Accept
  <2>1. PICK c \in Clients : Accepting(c, first)
    BY <1>8 DEF Accept, Backlog
  <2>2. main'.pc = "publish" /\ main'.at = c
    BY <2>1 DEF Accepting, Goto, MainState
  <2> QED
    BY <2>2, FlushAssumption
<1>9. CASE PollReturns \/ AllocateQueue \/ FlushRequestStore \/ FreeStore
  <2>1. main'.pc = "serve"
    <3>1. CASE PollReturns BY <3>1 DEF PollReturns, Polled, MainState
    <3>2. CASE AllocateQueue BY <3>2 DEF AllocateQueue, Receives, Serving, MainState
    <3>3. CASE FlushRequestStore BY <3>3 DEF FlushRequestStore, MainState
    <3>4. CASE FreeStore BY <3>4 DEF FreeStore, MainState
    <3> QED BY <1>9, <3>1, <3>2, <3>3, <3>4
  <2> QED
    BY <2>1
<1>12. ASSUME NEW pc, NEW at, NEW prev, main' = Goto(pc, at, prev), pc \notin Working \cup {"answer"}
       PROVE  MainInv'
  BY <1>12 DEF Goto, MainState
<1>13. CASE \/ ServeNext \/ NobodyKnocks \/ handleConnect \/ TryFree \/ SweepNext
            \/ SweepDone \/ FreeClosed \/ KeepClosed \/ ClosedDone
  <2>1. CASE ServeNext BY <1>12, <2>1 DEF ServeNext
  <2>2. CASE NobodyKnocks BY <1>12, <2>2 DEF NobodyKnocks
  <2>3. CASE handleConnect BY <1>12, <2>3 DEF handleConnect
  <2>4. CASE TryFree BY <1>12, <2>4 DEF TryFree
  <2>5. CASE SweepNext BY <1>12, <2>5 DEF SweepNext
  <2>6. CASE SweepDone BY <1>12, <2>6 DEF SweepDone
  <2>7. CASE FreeClosed BY <1>12, <2>7 DEF FreeClosed
  <2>8. CASE KeepClosed BY <1>12, <2>8 DEF KeepClosed
  <2>9. CASE ClosedDone BY <1>12, <2>9 DEF ClosedDone
  <2> QED
    BY <1>13, <2>1, <2>2, <2>3, <2>4, <2>5, <2>6, <2>7, <2>8, <2>9
<1>14. CASE LinkClosed \/ ServeDone
  <2>1. CASE LinkClosed
    <3>1. main'.pc = "serve" BY <2>1 DEF LinkClosed, Goto, MainState
    <3> QED BY <3>1
  <2>2. CASE ServeDone
    <3>1. main'.pc = "accept" BY <2>2 DEF ServeDone, Goto, MainState
    <3> QED BY <3>1
  <2> QED BY <1>14, <2>1, <2>2
<1>10. CASE AnswerLoad
  <2>1. main'.pc = "answer" /\ main'.at = main.at /\ main.at # Nil /\ flags' = flags
    BY <1>10 DEF AnswerLoad, MainState, queueVars
  <2>2. Done \in flags[main.at]
    BY <1>10 DEF AnswerLoad, Answers, FlushIsOver, Both
  <2> QED
    BY <2>1, <2>2
<1>11. CASE AnswerStore
  <2>1. main'.pc = "tryfree" /\ main'.at = main.at /\ main.at # Nil
    BY <1>11 DEF AnswerStore, MainState
  <2> QED
    BY <2>1
<1> QED
  BY <1>1, <1>2, <1>3, <1>4, <1>5, <1>6, <1>7, <1>8, <1>9, <1>10, <1>11, <1>13, <1>14
     DEF Next, MainStep, Callback, vars, queueVars

LEMMA SpuInvStep ==
  ASSUME IInv, [Next]_vars
  PROVE  SpuInv'
<1> USE DEF IInv, Types, SpuInv
<1>1. CASE UNCHANGED spu
  BY <1>1
<1>2. ASSUME NEW c \in Clients, ExecuteFlush(c) PROVE SpuInv'
  BY <1>2, FlushAssumption DEF ExecuteFlush, Walk
<1>3. CASE WalkNext
  BY <1>3 DEF WalkNext, SpuState
<1>4. CASE WalkFails \/ FlushDoneStore
  <2>1. spu' = Idle
    BY <1>4 DEF WalkFails, FlushDoneStore
  <2> QED
    BY <2>1 DEF Idle
<1>7. CASE FlushDoneLoad
  BY <1>7 DEF FlushDoneLoad, SpuState
<1>5. CASE PollReturns \/ MainStep
  BY <1>5, <1>1 DEF PollReturns, MainStep, AllocateQueue, FlushRequestLoad, FlushRequestStore,
     FreeLoad, FreeStore, DisconnectLoad, DisconnectStore, Unlink, LinkClosed, ServeNext,
     ServeDone, NobodyKnocks, Accept, Accepting, Publish, handleConnect, AnswerLoad,
     AnswerStore, TryFree, SweepNext, SweepDone, FreeClosed, KeepClosed, ClosedDone
<1>6. ASSUME NEW c \in Clients, Client(c) PROVE SpuInv'
  BY <1>6, <1>1 DEF Client, Connect, ReceiveQueue, PushFlush, AskFlush, ReceiveReply,
     FreeQueue, Exit
<1> QED
  BY <1>1, <1>2, <1>3, <1>4, <1>5, <1>6, <1>7 DEF Next, Callback, vars
-----------------------------------------------------------------------------
\* A client whose counters stand still, and for whom nothing new is noted, stays
\* accounted for.
LEMMA NothingNew ==
  ASSUME IInv, Types', NEW c \in Clients,
         answered'[c] = answered[c], executed'[c] = executed[c],
         reply'[c] => reply[c],
         Done \in flags'[c] => Done \in flags[c],
         InUse(c)' => InUse(c)
  PROVE  Accounted(c)'
BY DEF IInv, Types, Accounted, One

LEMMA AccountedStep ==
  ASSUME IInv, [Next]_vars, Types', NEW c \in Clients
  PROVE  Accounted(c)'
<1> USE DEF IInv
<1> USE DEF clientVars, socketVars, queueVars
<1>1. CASE UNCHANGED <<answered, executed, reply, flags, spu>>
  BY <1>1, NothingNew DEF InUse
<1>2. ASSUME NEW d \in Clients,
             Connect(d) \/ ReceiveQueue(d) \/ PushFlush(d) \/ AskFlush(d) \/ FreeQueue(d) \/ Exit(d)
      PROVE  Accounted(c)'
  BY <1>2, <1>1 DEF Connect, ReceiveQueue, PushFlush, AskFlush, FreeQueue, Exit
<1>3. ASSUME NEW d \in Clients, ReceiveReply(d)
      PROVE  Accounted(c)'
  <2>1. UNCHANGED <<executed, flags, spu>> /\ reply[d]
    BY <1>3 DEF ReceiveReply
  <2>2. CASE c = d
    <3>1. reply'[c] = FALSE /\ answered'[c] = answered[c] + 1
      BY <1>3, <2>2 DEF ReceiveReply, Types
    <3> QED
      BY <2>1, <2>2, <3>1 DEF Types, Accounted, One, InUse
  <2>3. CASE c # d
    <3>1. reply'[c] = reply[c] /\ answered'[c] = answered[c]
      BY <1>3, <2>3 DEF ReceiveReply, Types
    <3> QED
      BY <2>1, <3>1, NothingNew DEF InUse
  <2> QED
    BY <2>2, <2>3
<1>4. ASSUME NEW d \in Clients, ExecuteFlush(d)
      PROVE  Accounted(c)'
  <2>1. /\ UNCHANGED <<answered, reply, flags>> /\ spu.pc = "idle"
        /\ spu'.pc = "walk" /\ spu'.target = d
    BY <1>4 DEF ExecuteFlush, Types, SpuState, Walk
  <2>2. CASE c = d
    <3>1. executed'[c] = executed[c] + 1
      BY <1>4, <2>2 DEF ExecuteFlush, Types
    <3> QED
      BY <2>1, <2>2, <3>1 DEF Types, Accounted, One, InUse
  <2>3. CASE c # d
    <3>1. executed'[c] = executed[c]
      BY <1>4, <2>3 DEF ExecuteFlush, Types
    <3> QED
      BY <2>1, <2>3, <3>1, NothingNew DEF InUse
  <2> QED
    BY <2>2, <2>3
<1>5. CASE WalkNext \/ WalkFails \/ FlushDoneLoad
  <2>1. UNCHANGED <<answered, executed, reply, flags>>
    BY <1>5 DEF WalkNext, WalkFails, FlushDoneLoad
  <2>2. spu'.pc # "idle" => spu.pc # "idle" /\ spu'.target = spu.target
    <3>1. CASE WalkNext BY <3>1 DEF WalkNext, Types, SpuState
    <3>2. CASE WalkFails BY <3>2 DEF WalkFails, Idle
    <3>3. CASE FlushDoneLoad BY <3>3 DEF FlushDoneLoad, Types, SpuState
    <3> QED BY <1>5, <3>1, <3>2, <3>3
  <2> QED
    BY <2>1, <2>2, NothingNew DEF InUse
<1>6. CASE FlushDoneStore
  <2>1. /\ UNCHANGED <<answered, executed, reply>>
        /\ spu.pc = "ordone" /\ spu.at = spu.target /\ spu'.pc = "idle"
    BY <1>6 DEF FlushDoneStore, SpuInv, Types, SpuState, Idle
  <2>2. CASE c = spu.target
    BY <2>1, <2>2 DEF Types, Accounted, One, InUse
  <2>3. CASE c # spu.target
    <3>1. flags'[c] = flags[c]
      BY <1>6, <2>1, <2>3 DEF FlushDoneStore, Types
    <3> QED
      BY <2>1, <3>1, NothingNew DEF InUse
  <2> QED
    BY <2>2, <2>3
<1>7. CASE \/ PollReturns \/ AllocateQueue \/ FlushRequestLoad \/ FreeLoad \/ DisconnectLoad
           \/ Unlink \/ LinkClosed \/ ServeNext \/ ServeDone \/ NobodyKnocks \/ Accept
           \/ Publish \/ handleConnect \/ AnswerLoad \/ TryFree \/ SweepNext \/ SweepDone
           \/ FreeClosed \/ ClosedDone
  BY <1>7, <1>1 DEF PollReturns, AllocateQueue, FlushRequestLoad, FreeLoad, DisconnectLoad,
     Unlink, LinkClosed, ServeNext, ServeDone, NobodyKnocks, Accept, Accepting, Publish,
     handleConnect, AnswerLoad, TryFree, SweepNext, SweepDone, FreeClosed, ClosedDone
<1>8. CASE FlushRequestStore \/ FreeStore \/ DisconnectStore
  <2>1. UNCHANGED <<answered, executed, reply, spu>>
    BY <1>8 DEF FlushRequestStore, FreeStore, DisconnectStore
  <2>2. CASE flags' = flags
    BY <2>1, <2>2, <1>1
  <2>3. CASE /\ main.pc \in {"orwait", "free", "disconnect"}
             /\ \E f \in {Wait, Disposed} : flags' = [flags EXCEPT ![main.at] = main.seen \cup {f}]
    <3>1. Done \in flags'[c] => Done \in flags[c]
      BY <2>3 DEF MainInv, Types, Wait, Disposed, Done
    <3> QED
      BY <2>1, <3>1, NothingNew DEF InUse
  <2> QED
    BY <1>8, <2>2, <2>3 DEF FlushRequestStore, FreeStore, DisconnectStore, GiveUp, At
<1>9. CASE AnswerStore
  <2>1. UNCHANGED <<answered, executed, spu>>
    BY <1>9 DEF AnswerStore
  <2>2. CASE c = main.at
    <3>1. Done \in flags[c] /\ Done \notin flags'[c] /\ reply'[c] = TRUE
      BY <1>9, <2>2 DEF AnswerStore, MainInv, At, Types, Cleared, Both
    <3> QED
      BY <2>1, <3>1 DEF Types, Accounted, One, InUse
  <2>3. CASE c # main.at
    <3>1. flags'[c] = flags[c] /\ reply'[c] = reply[c]
      BY <1>9, <2>3 DEF AnswerStore, Types
    <3> QED
      BY <2>1, <3>1, NothingNew DEF InUse
  <2> QED
    BY <2>2, <2>3
<1>10. CASE KeepClosed
  <2>1. UNCHANGED <<answered, executed, reply, spu>>
    BY <1>10 DEF KeepClosed
  <2>2. Done \in flags'[c] => Done \in flags[c]
    BY <1>10 DEF KeepClosed, Types, Cleared
  <2> QED
    BY <2>1, <2>2, NothingNew DEF InUse
<1> QED
  BY <1>1, <1>2, <1>3, <1>4, <1>5, <1>6, <1>7, <1>8, <1>9, <1>10
     DEF Next, Client, MainStep, Callback, vars

LEMMA Invariance == Spec => []IInv
<1>1. IInv /\ [Next]_vars => IInv'
  BY TypesStep, MainInvStep, SpuInvStep, AccountedStep DEF IInv
<1> QED
  BY InitIInv, <1>1, PTL DEF Spec

\* For any number of clients and flushes: a client has never received more answers
\* than its queue has executed FLUSH instructions, one on its way included
\* (client/client.c:238, server/connection.c:121-129).
THEOREM AnswersAreFlushes == Spec => []AnswerMeansFlushed
<1>1. IInv => AnswerMeansFlushed
  BY DEF IInv, Types, Accounted, One, AnswerMeansFlushed
<1> QED
  BY <1>1, Invariance, PTL

-----------------------------------------------------------------------------
(* Lists in general: L holds the elements, nx the links, f is the first.     *)

IsClosed(S, nx) == \A d \in S : nx[d] \in S \cup {Nil}

\* c comes after p, or is p: every part of L closed under the links with p has c.
Reaches(L, nx, p, c) ==
  \A S \in SUBSET L : p \in S \cup {Nil} /\ IsClosed(S, nx) => c \in S

IsList(L, nx, f) ==
  /\ f \in L \cup {Nil}
  /\ IsClosed(L, nx)
  /\ \A c, d \in L : nx[c] = nx[d] /\ nx[c] # Nil => c = d
  /\ \A c \in L : nx[c] # Nil => nx[c] # f
  /\ \A c \in L : Reaches(L, nx, f, c)

\* Only the links of its elements make a list.
LEMMA SameLinks ==
  ASSUME NEW L, NEW nx, NEW ny, NEW f, \A d \in L : ny[d] = nx[d]
  PROVE  /\ IsList(L, nx, f) => IsList(L, ny, f)
         /\ \A p, c : Reaches(L, nx, p, c) => Reaches(L, ny, p, c)
<1>1. \A S \in SUBSET L : IsClosed(S, ny) => IsClosed(S, nx)
  BY DEF IsClosed
<1>2. \A p, c : Reaches(L, nx, p, c) => Reaches(L, ny, p, c)
  BY <1>1 DEF Reaches
<1>3. IsClosed(L, nx) => IsClosed(L, ny)
  BY DEF IsClosed
<1>4. ASSUME IsList(L, nx, f) PROVE IsList(L, ny, f)
  BY <1>2, <1>3, <1>4 DEF IsList
<1> QED BY <1>2, <1>4

\* No element of a list follows itself.
LEMMA NoLoop ==
  ASSUME NEW L, NEW nx, NEW f, IsList(L, nx, f), Nil \notin L, NEW c \in L
  PROVE  nx[c] # c
<1> SUFFICES ASSUME nx[c] = c PROVE FALSE
  OBVIOUS
<1>1. c # Nil /\ f # c
  BY DEF IsList
<1>2. f \in (L \ {c}) \cup {Nil}
  BY <1>1 DEF IsList
<1>3. IsClosed(L \ {c}, nx)
  BY <1>1 DEF IsList, IsClosed
<1>4. c \in L \ {c}
  BY <1>2, <1>3 DEF IsList, Reaches
<1> QED BY <1>4

\* An element that reaches another one goes on to it.
LEMMA Onwards ==
  ASSUME NEW L, NEW nx, IsClosed(L, nx), Nil \notin L,
         NEW p \in L, NEW c \in L, c # p, Reaches(L, nx, p, c)
  PROVE  nx[p] \in L /\ Reaches(L, nx, nx[p], c)
<1>1. ASSUME NEW S \in SUBSET L, nx[p] \in S \cup {Nil}, IsClosed(S, nx)
      PROVE  c \in S
  <2>1. S \cup {p} \in SUBSET L /\ p \in (S \cup {p}) \cup {Nil}
    OBVIOUS
  <2>2. IsClosed(S \cup {p}, nx)
    BY <1>1 DEF IsClosed
  <2>3. c \in S \cup {p}
    BY <2>1, <2>2 DEF Reaches
  <2> QED BY <2>3
<1>2. Reaches(L, nx, nx[p], c)
  BY <1>1 DEF Reaches
<1>3. nx[p] # Nil
  <2> SUFFICES ASSUME nx[p] = Nil PROVE FALSE
    OBVIOUS
  <2>1. c \in {}
    BY <1>1 DEF IsClosed
  <2> QED BY <2>1
<1> QED BY <1>2, <1>3 DEF IsClosed

\* Nothing is reached from the end.
LEMMA EndReachesNothing ==
  ASSUME NEW L, NEW nx, NEW c, Reaches(L, nx, Nil, c)
  PROVE  FALSE
<1>1. c \in {}
  BY DEF Reaches, IsClosed
<1> QED BY <1>1

\* What is linked before the first is the first of a list.
LEMMA PushedList ==
  ASSUME NEW L, NEW nx, NEW f, IsList(L, nx, f), Nil \notin L,
         NEW x, x \notin L, x # Nil, nx[x] = f
  PROVE  /\ IsList(L \cup {x}, nx, x)
         /\ \A p \in L, c \in L : Reaches(L, nx, p, c) => Reaches(L \cup {x}, nx, p, c)
<1> DEFINE K == L \cup {x}
<1>1. ASSUME NEW p \in L, NEW c \in L, Reaches(L, nx, p, c), NEW S \in SUBSET K,
             p \in S \cup {Nil}, IsClosed(S, nx)
      PROVE  c \in S
  <2>1. S \cap L \in SUBSET L /\ p \in (S \cap L) \cup {Nil}
    BY <1>1
  <2>2. IsClosed(S \cap L, nx)
    BY <1>1 DEF IsClosed, IsList
  <2> QED BY <1>1, <2>1, <2>2 DEF Reaches
<1>2. ASSUME NEW c \in K, NEW S \in SUBSET K, x \in S \cup {Nil}, IsClosed(S, nx)
      PROVE  c \in S
  <2>1. x \in S
    BY <1>2
  <2>2. S \cap L \in SUBSET L /\ f \in (S \cap L) \cup {Nil}
    BY <1>2, <2>1 DEF IsClosed, IsList
  <2>3. IsClosed(S \cap L, nx)
    BY <1>2 DEF IsClosed, IsList
  <2>4. c \in L => c \in S
    BY <2>2, <2>3 DEF Reaches, IsList
  <2> QED BY <2>1, <2>4
<1>3. \A c \in K : Reaches(K, nx, x, c)
  BY <1>2 DEF Reaches
<1>4. IsClosed(K, nx)
  BY DEF IsClosed, IsList
<1>5. \A c, d \in K : nx[c] = nx[d] /\ nx[c] # Nil => c = d
  BY DEF IsList
<1>6. \A c \in K : nx[c] # Nil => nx[c] # x
  BY DEF IsList, IsClosed
<1>7. IsList(K, nx, x)
  BY <1>3, <1>4, <1>5, <1>6 DEF IsList
<1>8. \A p \in L, c \in L : Reaches(L, nx, p, c) => Reaches(K, nx, p, c)
  BY <1>1 DEF Reaches
<1> QED BY <1>7, <1>8

\* Without the first, a list is one.
LEMMA ListWithoutFirst ==
  ASSUME NEW L, NEW nx, NEW f, IsList(L, nx, f), Nil \notin L, f \in L
  PROVE  /\ IsList(L \ {f}, nx, nx[f])
         /\ \A p, c \in L \ {f} : Reaches(L, nx, p, c) => Reaches(L \ {f}, nx, p, c)
<1> DEFINE K == L \ {f}
<1>1. nx[f] # f /\ f # Nil
  BY NoLoop
<1>2. IsClosed(K, nx)
  BY <1>1 DEF IsList, IsClosed
<1>3. nx[f] \in K \cup {Nil}
  BY <1>1 DEF IsList, IsClosed
<1>4. ASSUME NEW c \in K, NEW S \in SUBSET K, nx[f] \in S \cup {Nil}, IsClosed(S, nx)
      PROVE  c \in S
  <2>1. S \cup {f} \in SUBSET L /\ IsClosed(S \cup {f}, nx)
    BY <1>4 DEF IsClosed
  <2>2. c \in S \cup {f}
    BY <2>1 DEF IsList, Reaches
  <2> QED BY <2>2
<1>5. \A c \in K : Reaches(K, nx, nx[f], c)
  BY <1>4 DEF Reaches
<1>6. /\ \A c, d \in K : nx[c] = nx[d] /\ nx[c] # Nil => c = d
      /\ \A c \in K : nx[c] # Nil => nx[c] # nx[f]
  BY DEF IsList
<1>7. IsList(K, nx, nx[f])
  BY <1>2, <1>3, <1>5, <1>6 DEF IsList
<1>8. \A p, c \in K : Reaches(L, nx, p, c) => Reaches(K, nx, p, c)
  BY DEF Reaches
<1> QED BY <1>7, <1>8

\* Without what follows q, a list is one, when q is linked to what came next.
LEMMA ListWithoutNext ==
  ASSUME NEW L, NEW nx, NEW ny, NEW f, IsList(L, nx, f), Nil \notin L,
         NEW q \in L, NEW x \in L, nx[q] = x,
         ny[q] = nx[x], \A d \in L \ {q} : ny[d] = nx[d]
  PROVE  /\ q # x
         /\ IsList(L \ {x}, ny, f)
         /\ \A p, c \in L \ {x} : Reaches(L, nx, p, c) => Reaches(L \ {x}, ny, p, c)
<1> DEFINE K == L \ {x}
<1>1. q # x /\ nx[x] # x /\ x # Nil /\ f # x
  BY NoLoop DEF IsList
<1>2. IsClosed(K, ny)
  BY <1>1 DEF IsList, IsClosed
<1>3. f \in K \cup {Nil}
  BY <1>1 DEF IsList
<1>4. ASSUME NEW p, p # x, NEW c \in K, Reaches(L, nx, p, c),
             NEW S \in SUBSET K, p \in S \cup {Nil}, IsClosed(S, ny)
      PROVE  c \in S
  <2>1. CASE q \in S
    <3>1. S \cup {x} \in SUBSET L /\ p \in (S \cup {x}) \cup {Nil}
      BY <1>4
    <3>2. IsClosed(S \cup {x}, nx)
      BY <1>1, <1>4, <2>1 DEF IsClosed
    <3>3. c \in S \cup {x}
      BY <1>4, <3>1, <3>2 DEF Reaches
    <3> QED BY <3>3
  <2>2. CASE q \notin S
    <3>1. IsClosed(S, nx)
      BY <1>4, <2>2 DEF IsClosed
    <3> QED BY <1>4, <3>1 DEF Reaches
  <2> QED BY <2>1, <2>2
<1>5. \A p, c \in K : Reaches(L, nx, p, c) => Reaches(K, ny, p, c)
  BY <1>4 DEF Reaches
<1>6. \A c \in K : Reaches(K, ny, f, c)
  <2>1. \A c \in K : Reaches(L, nx, f, c)
    BY DEF IsList
  <2> QED BY <1>1, <1>4, <2>1 DEF Reaches
<1>7. \A c, d \in K : ny[c] = ny[d] /\ ny[c] # Nil => c = d
  BY DEF IsList
<1>8. \A c \in K : ny[c] # Nil => ny[c] # f
  BY DEF IsList
<1>9. IsList(K, ny, f)
  BY <1>2, <1>3, <1>6, <1>7, <1>8 DEF IsList
<1> QED BY <1>1, <1>5, <1>9
-----------------------------------------------------------------------------
(* The lists of the main loop.                                               *)

\* The elements of list.first: a connection is accepted before it is linked, and
\* closed before it is unlinked.
Listed == {c \in Clients : \/ fd[c] = "open" /\ ~(At("publish") /\ main.at = c)
                           \/ At("unlink") /\ main.at = c}

MovedOnes == {c \in Clients : Moved(c)}

MovedInv ==
  /\ firstClosed \in MovedOnes \cup {Nil}
  /\ IsClosed(MovedOnes, next)
  /\ freed \subseteq MovedOnes
  /\ \A c \in Clients : firstAllocation[c] # "unset" => fd[c] # "none"

\* Where the loop is in the lists.
PlaceInv ==
  /\ main.pc \in {"serve", "orwait", "free", "disconnect", "unlink"} =>
       /\ main.at \in Listed \cup {Nil}
       /\ main.prev = Nil => main.at = first
       /\ main.prev # Nil => main.prev \in Listed /\ next[main.prev] = main.at
  /\ main.pc \in {"unlink", "close"} => fd[main.at] = "closed"
  /\ At("close") => main.prev \in Listed \cup {Nil} /\ next[main.at] \in Listed \cup {Nil}
  /\ At("publish") => /\ fd[main.at] = "open"
                      /\ next[main.at] = first
                      /\ firstAllocation[main.at] = "unset"
  /\ At("connect") => fd[main.at] = "open"
  /\ At("closed") => {main.at, main.prev} \subseteq MovedOnes \cup {Nil}

ListInv ==
  /\ IInv
  /\ IsList(Listed, next, first)
  /\ MovedInv
  /\ PlaceInv

LEMMA InitListInv == Init => ListInv
<1> SUFFICES ASSUME Init PROVE ListInv
  OBVIOUS
<1>1. Listed = {} /\ MovedOnes = {}
  BY DEF Init, Listed, MovedOnes, Moved, At
<1>2. IsList(Listed, next, first)
  BY <1>1 DEF Init, IsList, IsClosed, Reaches
<1>3. MovedInv
  BY <1>1 DEF Init, MovedInv, IsClosed
<1>4. PlaceInv
  BY DEF Init, PlaceInv, At
<1> QED
  BY <1>2, <1>3, <1>4, InitIInv DEF ListInv

\* The loop serves connections of the list, which are open.
LEMMA ServesListed ==
  ASSUME ListInv, Serving \/ main.pc \in {"orwait", "free", "disconnect"}
  PROVE  main.at \in Listed /\ fd[main.at] = "open" /\ main.at # Nil
<1>1. main.at \in Clients /\ main.at # Nil
  BY ServingIsWorking, FlushAssumption DEF ListInv, IInv, MainInv, Working, Types, MainState, Ptr
<1>2. main.at \in Listed
  BY <1>1 DEF ListInv, PlaceInv, Serving, At
<1> QED
  BY <1>1, <1>2 DEF Listed, Serving, At

\* The list and the loop's place in it are left alone.
OthersStep ==
  /\ UNCHANGED <<fd, first, firstClosed, next, freed, firstAllocation>>
  /\ main'.pc = main.pc /\ main'.at = main.at /\ main'.prev = main.prev

LEMMA OthersLeaveTheList ==
  ASSUME ListInv,
         \/ \E c \in Clients : Client(c) \/ ExecuteFlush(c)
         \/ Callback \/ UNCHANGED vars
  PROVE  OthersStep
<1> USE DEF OthersStep, listVars, queueVars
<1>1. ASSUME NEW c \in Clients, Client(c) PROVE OthersStep
  BY <1>1 DEF Client, Connect, ReceiveQueue, PushFlush, AskFlush, ReceiveReply, FreeQueue, Exit
<1>2. ASSUME NEW c \in Clients, ExecuteFlush(c) PROVE OthersStep
  BY <1>2 DEF ExecuteFlush
<1>3. CASE WalkNext \/ WalkFails \/ FlushDoneLoad
  BY <1>3 DEF WalkNext, WalkFails, FlushDoneLoad
<1>4. CASE FlushDoneStore
  BY <1>4 DEF FlushDoneStore, ListInv, IInv, Types, MainState
<1>5. CASE UNCHANGED vars
  BY <1>5 DEF vars
<1> QED BY <1>1, <1>2, <1>3, <1>4, <1>5 DEF Callback

\* Steps of the loop that keep the links, and where they lead.
LinksStand ==
  /\ UNCHANGED <<fd, first, firstClosed, next, freed>>
  /\ main.pc \notin {"publish", "unlink", "close"}
  /\ main'.pc \notin {"publish", "unlink", "close"}

LEMMA ServingKeepsLinks ==
  ASSUME ListInv,
         \/ AllocateQueue \/ FlushRequestLoad \/ FlushRequestStore
         \/ FreeLoad \/ FreeStore \/ DisconnectLoad
  PROVE  /\ LinksStand
         /\ main.pc \in {"serve", "orwait", "free"}
         /\ main'.pc \in {"serve", "orwait", "free", "disconnect"}
         /\ main'.at = main.at /\ main'.prev = main.prev
<1> USE DEF LinksStand, listVars, ListInv, IInv, Types, MainState, At
<1>1. CASE AllocateQueue BY <1>1 DEF AllocateQueue, Receives, Serving
<1>2. CASE FlushRequestLoad BY <1>2 DEF FlushRequestLoad, Receives, Serving
<1>3. CASE FlushRequestStore BY <1>3 DEF FlushRequestStore
<1>4. CASE FreeLoad BY <1>4 DEF FreeLoad, Receives, Serving
<1>5. CASE FreeStore BY <1>5 DEF FreeStore
<1>6. CASE DisconnectLoad BY <1>6 DEF DisconnectLoad, HangsUp, Serving
<1> QED BY <1>1, <1>2, <1>3, <1>4, <1>5, <1>6

LEMMA SweepingKeepsLinks ==
  ASSUME ListInv,
         \/ PollReturns \/ ServeNext \/ ServeDone \/ NobodyKnocks \/ handleConnect \/ AnswerLoad
         \/ AnswerStore \/ TryFree \/ SweepNext \/ SweepDone \/ KeepClosed \/ ClosedDone
  PROVE  LinksStand
<1> USE DEF LinksStand, listVars, ListInv, IInv, Types, At, Goto, MainState
<1>1. CASE PollReturns BY <1>1 DEF PollReturns, Polled
<1>2. CASE ServeNext BY <1>2 DEF ServeNext, Serving
<1>3. CASE ServeDone
  <2>1. main'.pc = "accept" BY <1>3 DEF ServeDone
  <2> QED BY <1>3, <2>1 DEF ServeDone
<1>4. CASE NobodyKnocks \/ handleConnect
  <2>1. CASE NobodyKnocks BY <2>1 DEF NobodyKnocks
  <2>2. CASE handleConnect BY <2>2 DEF handleConnect
  <2> QED BY <1>4, <2>1, <2>2
<1>5. CASE AnswerLoad \/ AnswerStore
  <2>1. CASE AnswerLoad BY <2>1 DEF AnswerLoad
  <2>2. CASE AnswerStore BY <2>2 DEF AnswerStore
  <2> QED BY <1>5, <2>1, <2>2
<1>6. CASE TryFree BY <1>6 DEF TryFree, Tries
<1>7. CASE SweepNext BY <1>7 DEF SweepNext, Tries
<1>8. CASE SweepDone BY <1>8 DEF SweepDone
<1>9. CASE KeepClosed BY <1>9 DEF KeepClosed
<1>10. CASE ClosedDone BY <1>10 DEF ClosedDone
<1> QED BY <1>1, <1>2, <1>3, <1>4, <1>5, <1>6, <1>7, <1>8, <1>9, <1>10

-----------------------------------------------------------------------------
(* What each kind of step does to the lists.                                 *)

LEMMA OthersKeepTheList ==
  ASSUME ListInv, OthersStep
  PROVE  /\ Listed' = Listed /\ MovedOnes' = MovedOnes
         /\ MovedInv' /\ PlaceInv'
<1> USE DEF OthersStep, At
<1>1. Listed' = Listed
  BY DEF Listed
<1>2. MovedOnes' = MovedOnes
  BY DEF MovedOnes, Moved
<1>3. MovedInv'
  BY <1>2 DEF ListInv, MovedInv
<1>4. PlaceInv'
  BY <1>1, <1>2 DEF ListInv, PlaceInv
<1> QED BY <1>1, <1>2, <1>3, <1>4

LEMMA LinksStandKeepsTheList ==
  ASSUME ListInv, LinksStand
  PROVE  Listed' = Listed /\ MovedOnes' = MovedOnes
<1>1. Listed' = Listed
  BY DEF Listed, LinksStand, At
<1>2. MovedOnes' = MovedOnes
  BY DEF MovedOnes, Moved, LinksStand
<1> QED BY <1>1, <1>2

\* Whoever has a list of allocations has been accepted.
LEMMA AllocationsStep ==
  ASSUME ListInv, [Next]_vars, NEW c \in Clients, firstAllocation'[c] # "unset"
  PROVE  fd'[c] # "none"
<1> USE DEF ListInv, MovedInv, IInv, Types, listVars, queueVars
<1>1. CASE UNCHANGED <<fd, firstAllocation>>
  BY <1>1
<1>2. CASE OthersStep
  BY <1>1, <1>2 DEF OthersStep
<1>3. CASE AllocateQueue
  <2>1. fd[main.at] = "open" BY <1>3, ServesListed DEF AllocateQueue, Receives
  <2> QED BY <1>3, <2>1 DEF AllocateQueue
<1>4. CASE handleConnect
  <2>1. fd[main.at] = "open" BY <1>4 DEF handleConnect, PlaceInv, At
  <2> QED BY <1>4, <2>1 DEF handleConnect
<1>5. CASE TryFree
  BY <1>5 DEF TryFree
<1>6. CASE FreeClosed
  <2>1. fd[main.at] = "closed"
    BY <1>6, FlushAssumption DEF FreeClosed, PlaceInv, At, MovedOnes, Moved
  <2> QED BY <1>6, <2>1 DEF FreeClosed
<1>7. CASE DisconnectStore
  <2>1. fd' = [fd EXCEPT ![main.at] = "closed"] /\ firstAllocation' = firstAllocation
    BY <1>7 DEF DisconnectStore
  <2> QED BY <2>1
<1>8. CASE Accept
  <2>1. PICK d \in Clients : fd' = [fd EXCEPT ![d] = "open"] /\ firstAllocation' = firstAllocation
    BY <1>8 DEF Accept, Accepting, Backlog
  <2> QED BY <2>1
<1>9. CASE \/ PollReturns \/ FlushRequestLoad \/ FlushRequestStore \/ FreeLoad \/ FreeStore
           \/ DisconnectLoad \/ ServeNext \/ ServeDone \/ NobodyKnocks \/ Unlink \/ LinkClosed
           \/ Publish \/ AnswerLoad \/ AnswerStore \/ SweepNext \/ SweepDone \/ KeepClosed
           \/ ClosedDone
  BY <1>9, <1>1 DEF PollReturns, FlushRequestLoad, FlushRequestStore, FreeLoad, FreeStore,
     DisconnectLoad, ServeNext, ServeDone, NobodyKnocks, Unlink, LinkClosed, Publish, AnswerLoad,
     AnswerStore, SweepNext, SweepDone, KeepClosed, ClosedDone
<1> QED
  BY <1>2, <1>3, <1>4, <1>5, <1>6, <1>7, <1>8, <1>9, OthersLeaveTheList DEF Next, MainStep

LEMMA DisconnectKeepsTheList ==
  ASSUME ListInv, DisconnectStore
  PROVE  /\ Listed' = Listed /\ MovedOnes' = MovedOnes /\ MovedInv' /\ PlaceInv'
         /\ UNCHANGED <<first, next>>
<1>1. main.at \in Listed /\ fd[main.at] = "open" /\ main.at # Nil /\ main.at \in Clients
  BY ServesListed DEF DisconnectStore, HangsUp, At, Listed
<1>2. /\ fd' = [fd EXCEPT ![main.at] = "closed"]
      /\ UNCHANGED <<firstAllocation, first, firstClosed, next, freed>>
      /\ main'.pc = "unlink" /\ main'.at = main.at /\ main'.prev = main.prev
      /\ main.pc \in {"serve", "disconnect"}
  BY DEF DisconnectStore, HangsUp, Serving, At, ListInv, IInv, Types, MainState
<1>3. fd \in [Clients -> {"none", "open", "closed"}]
  BY DEF ListInv, IInv, Types
<1>4. Listed' = Listed
  BY <1>1, <1>2, <1>3 DEF Listed, At
<1>5. MovedOnes' = MovedOnes
  BY <1>1, <1>2, <1>3 DEF MovedOnes, Moved
<1>6. MovedInv'
  BY <1>2, <1>3, <1>5 DEF ListInv, MovedInv
<1>7. PlaceInv'
  BY <1>1, <1>2, <1>3, <1>4 DEF ListInv, PlaceInv, At
<1> QED BY <1>2, <1>4, <1>5, <1>6, <1>7

LEMMA UnlinkStep ==
  ASSUME ListInv, Unlink
  PROVE  /\ main.at \in Listed /\ main'.pc = "close" /\ main'.at = main.at
         /\ next'[main.at] = next[main.at]
         /\ Listed' = Listed \ {main.at} /\ MovedOnes' = MovedOnes
         /\ IsList(Listed', next', first')
         /\ \A p, c \in Listed' : Reaches(Listed, next, p, c) => Reaches(Listed', next', p, c)
         /\ UNCHANGED <<fd, firstClosed, freed, firstAllocation>>
         /\ MovedInv' /\ PlaceInv'
<1>1. main.at \in Listed /\ main.at # Nil /\ fd[main.at] = "closed"
  BY DEF Unlink, ListInv, PlaceInv, IInv, MainInv, Working, At
<1>2. /\ main'.pc = "close" /\ main'.at = main.at /\ main'.prev = main.prev /\ main.pc = "unlink"
      /\ UNCHANGED <<fd, firstClosed, freed, firstAllocation>>
  BY DEF Unlink, At, queueVars, ListInv, IInv, Types, MainState
<1>3. Listed' = Listed \ {main.at}
  BY <1>1, <1>2 DEF Listed, At
<1>4. MovedOnes' = MovedOnes
  BY <1>2 DEF MovedOnes, Moved
<1>5. Nil \notin Listed /\ Listed \subseteq Clients
  BY FlushAssumption DEF Listed
<1>6. IsList(Listed, next, first) /\ next \in [Clients -> Ptr]
  BY DEF ListInv, IInv, Types
<1>7. /\ IsList(Listed \ {main.at}, next', first')
      /\ \A p, c \in Listed \ {main.at} :
           Reaches(Listed, next, p, c) => Reaches(Listed \ {main.at}, next', p, c)
      /\ next'[main.at] = next[main.at]
      /\ \A c \in Clients \ Listed : next'[c] = next[c]
      /\ main.prev \in (Listed \ {main.at}) \cup {Nil}
  <2>1. CASE main.prev = Nil
    <3>1. main.at = first /\ next' = next /\ first' = next[first]
      BY <1>2, <2>1 DEF Unlink, ListInv, PlaceInv
    <3> QED BY <1>1, <1>5, <1>6, <2>1, <3>1, ListWithoutFirst
  <2>2. CASE main.prev # Nil
    <3>1. main.prev \in Listed /\ next[main.prev] = main.at
      BY <1>2, <2>2 DEF ListInv, PlaceInv
    <3>2. next' = [next EXCEPT ![main.prev] = next[main.at]] /\ first' = first
      BY <2>2 DEF Unlink
    <3>3. next'[main.prev] = next[main.at] /\ \A d \in Clients \ {main.prev} : next'[d] = next[d]
      BY <1>5, <1>6, <3>1, <3>2
    <3>4. \A d \in Listed \ {main.prev} : next'[d] = next[d]
      BY <1>5, <3>3
    <3>5. /\ main.prev # main.at
          /\ IsList(Listed \ {main.at}, next', first)
          /\ \A p, c \in Listed \ {main.at} :
               Reaches(Listed, next, p, c) => Reaches(Listed \ {main.at}, next', p, c)
      BY <1>1, <1>5, <1>6, <3>1, <3>3, <3>4, ListWithoutNext
    <3> QED BY <1>1, <1>5, <3>1, <3>2, <3>3, <3>5
  <2> QED BY <2>1, <2>2
<1>8. MovedInv'
  <2>1. \A c \in MovedOnes : next'[c] = next[c]
    BY <1>2, <1>7 DEF MovedOnes, Moved, Listed, At
  <2> QED BY <1>2, <1>4, <2>1 DEF ListInv, MovedInv, IsClosed
<1>9. PlaceInv'
  <2>1. next[main.at] \in (Listed \ {main.at}) \cup {Nil}
    <3>1. next[main.at] # main.at
      BY <1>1, <1>5, <1>6, NoLoop
    <3> QED BY <1>1, <1>6, <3>1 DEF IsList, IsClosed
  <2> QED BY <1>1, <1>2, <1>3, <1>7, <2>1 DEF PlaceInv, At
<1> QED BY <1>1, <1>2, <1>3, <1>4, <1>7, <1>8, <1>9

LEMMA LinkClosedStep ==
  ASSUME ListInv, LinkClosed
  PROVE  /\ Listed' = Listed /\ MovedOnes' = MovedOnes \cup {main.at}
         /\ first' = first /\ \A c \in Listed : next'[c] = next[c]
         /\ MovedInv' /\ PlaceInv'
<1>1. /\ main.pc = "close" /\ main.at # Nil /\ main.at \in Clients /\ fd[main.at] = "closed"
      /\ main.at \notin Listed
  BY DEF LinkClosed, At, ListInv, PlaceInv, IInv, MainInv, Working, Listed, Types, MainState, Ptr
<1>2. main'.pc = "serve" /\ main'.prev = main.prev
      /\ main'.at = IF main.prev = Nil THEN first ELSE next[main.prev]
  BY DEF LinkClosed, Goto, ListInv, IInv, Types, MainState
<1>3. /\ UNCHANGED <<fd, first, freed, firstAllocation>> /\ firstClosed' = main.at
      /\ next' = [next EXCEPT ![main.at] = firstClosed] /\ next \in [Clients -> Ptr]
  BY DEF LinkClosed, queueVars, ListInv, IInv, Types
<1>4. Listed' = Listed
  BY <1>1, <1>2, <1>3 DEF Listed, At
<1>5. MovedOnes' = MovedOnes \cup {main.at}
  BY <1>1, <1>2, <1>3 DEF MovedOnes, Moved
<1>6. \A c \in Clients \ {main.at} : next'[c] = next[c]
  BY <1>3
<1>7. \A c \in Listed : next'[c] = next[c]
  BY <1>1, <1>6 DEF Listed
<1>8. MovedInv'
  <2>1. next'[main.at] = firstClosed /\ firstClosed \in MovedOnes \cup {Nil}
    BY <1>1, <1>3 DEF ListInv, MovedInv
  <2>2. \A c \in MovedOnes \ {main.at} : next'[c] = next[c] /\ next[c] \in MovedOnes \cup {Nil}
    BY <1>6 DEF MovedOnes, ListInv, MovedInv, IsClosed
  <2>3. IsClosed(MovedOnes', next')
    BY <1>5, <2>1, <2>2 DEF IsClosed
  <2> QED BY <1>3, <1>5, <2>3 DEF ListInv, MovedInv
<1>9. PlaceInv'
  <2>1. main.prev \in Listed \cup {Nil}
    BY <1>1 DEF ListInv, PlaceInv, At
  <2>2. main.prev = Nil => main'.at = first /\ first \in Listed \cup {Nil}
    BY <1>2 DEF ListInv, IsList
  <2>3. main.prev # Nil => /\ main.prev \in Listed /\ next'[main.prev] = main'.at
                           /\ main'.at \in Listed \cup {Nil}
    BY <1>2, <1>7, <2>1 DEF ListInv, IsList, IsClosed
  <2> QED BY <1>2, <1>3, <1>4, <2>1, <2>2, <2>3 DEF PlaceInv, At
<1> QED BY <1>3, <1>4, <1>5, <1>7, <1>8, <1>9

LEMMA AcceptStep ==
  ASSUME ListInv, [Next]_vars, Accept
  PROVE  /\ Listed' = Listed /\ MovedOnes' = MovedOnes
         /\ first' = first /\ \A c \in Listed : next'[c] = next[c]
         /\ main.pc = "accept" /\ fd[main'.at] = "none" /\ main'.at \in Clients
         /\ fd' = [fd EXCEPT ![main'.at] = "open"]
         /\ MovedInv' /\ PlaceInv'
<1>1. PICK c \in Clients : fd[c] = "none" /\ Accepting(c, first)
  BY DEF Accept, Backlog
<1>2. /\ main.pc = "accept" /\ main'.pc = "publish" /\ main'.at = c
      /\ fd' = [fd EXCEPT ![c] = "open"] /\ next' = [next EXCEPT ![c] = first]
      /\ UNCHANGED <<firstAllocation, first, firstClosed, freed>>
  BY <1>1 DEF Accepting, At, Goto, queueVars, ListInv, IInv, Types, MainState
<1>3. fd \in [Clients -> {"none", "open", "closed"}] /\ next \in [Clients -> Ptr]
      /\ firstAllocation \in [Clients -> {"unset", "null", "queue"}]
  BY DEF ListInv, IInv, Types
<1>4. Listed' = Listed
  BY <1>1, <1>2, <1>3 DEF Listed, At
<1>5. MovedOnes' = MovedOnes
  BY <1>1, <1>2, <1>3 DEF MovedOnes, Moved
<1>6. c \notin Listed /\ c \notin MovedOnes /\ Listed \subseteq Clients /\ MovedOnes \subseteq Clients
  BY <1>1, <1>2 DEF Listed, MovedOnes, Moved, At
<1>7. \A d \in Listed \cup MovedOnes : next'[d] = next[d]
  BY <1>2, <1>3, <1>6
<1>8. MovedInv'
  <2>1. IsClosed(MovedOnes', next')
    BY <1>5, <1>7 DEF ListInv, MovedInv, IsClosed
  <2>2. \A d \in Clients : firstAllocation'[d] # "unset" => fd'[d] # "none"
    BY AllocationsStep
  <2> QED BY <1>2, <1>5, <2>1, <2>2 DEF ListInv, MovedInv
<1>9. PlaceInv'
  <2>1. firstAllocation[c] = "unset"
    BY <1>1 DEF ListInv, MovedInv
  <2> QED BY <1>1, <1>2, <1>3, <1>4, <2>1 DEF PlaceInv, At
<1> QED BY <1>1, <1>2, <1>4, <1>5, <1>7, <1>8, <1>9

LEMMA PublishStep ==
  ASSUME ListInv, Publish
  PROVE  /\ Listed' = Listed \cup {main.at} /\ MovedOnes' = MovedOnes
         /\ main.pc = "publish" /\ main.at \notin Listed /\ UNCHANGED <<fd, next>>
         /\ main'.pc = "connect"
         /\ IsList(Listed', next', first')
         /\ \A p \in Listed, c \in Listed :
              Reaches(Listed, next, p, c) => Reaches(Listed', next', p, c)
         /\ MovedInv' /\ PlaceInv'
<1>1. main.pc = "publish" /\ main.at # Nil /\ fd[main.at] = "open" /\ main.at \notin Listed
      /\ next[main.at] = first /\ main.at \in Clients
  BY DEF Publish, At, ListInv, PlaceInv, IInv, MainInv, Working, Listed, Types, MainState, Ptr
<1>2. /\ main'.pc = "connect" /\ main'.at = main.at /\ first' = main.at
      /\ UNCHANGED <<fd, firstClosed, next, freed, firstAllocation>>
  BY DEF Publish, queueVars, ListInv, IInv, Types, MainState
<1>3. Listed' = Listed \cup {main.at}
  BY <1>1, <1>2 DEF Listed, At
<1>4. MovedOnes' = MovedOnes
  BY <1>1, <1>2 DEF MovedOnes, Moved
<1>5. Nil \notin Listed /\ IsList(Listed, next, first)
  BY FlushAssumption DEF Listed, ListInv
<1>6. /\ IsList(Listed \cup {main.at}, next, main.at)
      /\ \A p \in Listed, c \in Listed :
           Reaches(Listed, next, p, c) => Reaches(Listed \cup {main.at}, next, p, c)
  <2> DEFINE x == main.at
  <2>1. x \notin Listed /\ x # Nil /\ next[x] = first
    BY <1>1
  <2> HIDE DEF x
  <2>2. /\ IsList(Listed \cup {x}, next, x)
        /\ \A p \in Listed, c \in Listed :
             Reaches(Listed, next, p, c) => Reaches(Listed \cup {x}, next, p, c)
    BY <1>5, <2>1, PushedList
  <2> QED BY <2>2 DEF x
<1>7. MovedInv'
  BY <1>2, <1>4 DEF ListInv, MovedInv
<1>8. PlaceInv'
  BY <1>1, <1>2 DEF PlaceInv, At
<1> QED BY <1>1, <1>2, <1>3, <1>4, <1>6, <1>7, <1>8

LEMMA FreeClosedStep ==
  ASSUME ListInv, [Next]_vars, FreeClosed
  PROVE  /\ Listed' = Listed /\ MovedOnes' = MovedOnes
         /\ first' = first /\ \A c \in Listed : next'[c] = next[c]
         /\ main.pc = "closed" /\ main'.pc = "closed" /\ fd' = fd
         /\ MovedInv' /\ PlaceInv'
<1>1. main.pc = "closed" /\ main.at \in MovedOnes /\ main.prev \in MovedOnes \cup {Nil}
  BY DEF FreeClosed, At, ListInv, PlaceInv
<1>2. /\ main'.pc = "closed" /\ main'.at = next[main.at] /\ main'.prev = main.prev
      /\ fd' = fd /\ first' = first /\ freed' = freed \cup {main.at}
  BY DEF FreeClosed, Goto, ListInv, IInv, Types, MainState
<1>3. Listed' = Listed
  BY <1>1, <1>2 DEF Listed, At
<1>4. MovedOnes' = MovedOnes
  BY <1>1, <1>2 DEF MovedOnes, Moved
<1>5. next[main.at] \in MovedOnes \cup {Nil}
  BY <1>1 DEF ListInv, MovedInv, IsClosed
<1>6. /\ \A c \in Clients \ MovedOnes : next'[c] = next[c]
      /\ IsClosed(MovedOnes, next') /\ firstClosed' \in MovedOnes \cup {Nil}
  <2>1. CASE main.prev = Nil
    <3>1. next' = next /\ firstClosed' = next[main.at]
      BY <2>1 DEF FreeClosed
    <3> QED BY <1>5, <3>1 DEF ListInv, MovedInv
  <2>2. CASE main.prev # Nil
    <3>1. next' = [next EXCEPT ![main.prev] = next[main.at]] /\ firstClosed' = firstClosed
          /\ next \in [Clients -> Ptr] /\ main.prev \in MovedOnes /\ MovedOnes \subseteq Clients
      BY <1>1, <2>2 DEF FreeClosed, ListInv, IInv, Types, MovedOnes
    <3>2. \A c \in MovedOnes : next'[c] \in {next[c], next[main.at]}
      BY <3>1
    <3> QED BY <1>5, <3>1, <3>2 DEF ListInv, MovedInv, IsClosed
  <2> QED BY <2>1, <2>2
<1>7. \A c \in Listed : c \in Clients \ MovedOnes
  BY <1>1 DEF Listed, MovedOnes, Moved, At
<1>8. \A d \in Clients : firstAllocation'[d] # "unset" => fd'[d] # "none"
  BY AllocationsStep
<1>9. MovedInv'
  BY <1>1, <1>2, <1>4, <1>6, <1>8 DEF ListInv, MovedInv
<1>10. PlaceInv'
  BY <1>1, <1>2, <1>4, <1>5 DEF PlaceInv, At
<1> QED BY <1>1, <1>2, <1>3, <1>4, <1>6, <1>7, <1>9, <1>10

\* The steps of the loop that read the list, or work on one of its connections.
ReadsLists ==
  \/ AllocateQueue \/ FlushRequestLoad \/ FlushRequestStore
  \/ FreeLoad \/ FreeStore \/ DisconnectLoad
  \/ PollReturns \/ ServeNext \/ ServeDone \/ NobodyKnocks \/ handleConnect \/ AnswerLoad
  \/ AnswerStore \/ TryFree \/ SweepNext \/ SweepDone \/ KeepClosed \/ ClosedDone

LEMMA ReadingKeepsTheList ==
  ASSUME ListInv, [Next]_vars, ReadsLists
  PROVE  /\ LinksStand /\ Listed' = Listed /\ MovedOnes' = MovedOnes
         /\ MovedInv' /\ PlaceInv'
<1>1. LinksStand
  BY ServingKeepsLinks, SweepingKeepsLinks DEF ReadsLists
<1>2. Listed' = Listed /\ MovedOnes' = MovedOnes
  BY <1>1, LinksStandKeepsTheList
<1>3. UNCHANGED <<fd, first, firstClosed, next, freed>>
  BY <1>1 DEF LinksStand
<1>4. MovedInv'
  <2>1. \A d \in Clients : firstAllocation'[d] # "unset" => fd'[d] # "none"
    BY AllocationsStep
  <2> QED BY <1>2, <1>3, <2>1 DEF ListInv, MovedInv
<1>5. first \in Listed \cup {Nil} /\ firstClosed \in MovedOnes \cup {Nil}
  BY DEF ListInv, IsList, MovedInv
<1>6. ASSUME \/ AllocateQueue \/ FlushRequestLoad \/ FlushRequestStore
             \/ FreeLoad \/ FreeStore \/ DisconnectLoad
      PROVE  PlaceInv'
  <2>1. /\ main.pc \in {"serve", "orwait", "free"}
        /\ main'.pc \in {"serve", "orwait", "free", "disconnect"}
        /\ main'.at = main.at /\ main'.prev = main.prev
    BY <1>6, ServingKeepsLinks
  <2> QED BY <1>2, <1>3, <2>1 DEF ListInv, PlaceInv, At
<1>7. ASSUME PollReturns PROVE PlaceInv'
  <2>1. main'.pc = "serve" /\ main'.at = first /\ main'.prev = Nil
    BY <1>7 DEF PollReturns, Polled, ListInv, IInv, Types, MainState
  <2> QED BY <1>2, <1>3, <1>5, <2>1 DEF PlaceInv, At
<1>8. ASSUME ServeNext PROVE PlaceInv'
  <2>1. main'.pc = "serve" /\ main'.at = next[main.at] /\ main'.prev = main.at
    BY <1>8 DEF ServeNext, Goto, ListInv, IInv, Types, MainState
  <2>2. main.at \in Listed /\ main.at # Nil
    BY <1>8, ServesListed DEF ServeNext
  <2>3. next[main.at] \in Listed \cup {Nil}
    BY <2>2 DEF ListInv, IsList, IsClosed
  <2> QED BY <1>2, <1>3, <2>1, <2>2, <2>3 DEF PlaceInv, At
<1>9. ASSUME SweepDone PROVE PlaceInv'
  <2>1. main'.pc = "closed" /\ main'.at = firstClosed /\ main'.prev = Nil
    BY <1>9 DEF SweepDone, Goto, ListInv, IInv, Types, MainState
  <2> QED BY <1>2, <1>3, <1>5, <2>1 DEF PlaceInv, At
<1>10. ASSUME KeepClosed PROVE PlaceInv'
  <2>1. main.pc = "closed" /\ main.at # Nil
        /\ main'.pc = "closed" /\ main'.at = next[main.at] /\ main'.prev = main.at
    BY <1>10 DEF KeepClosed, Goto, At, ListInv, IInv, Types, MainState
  <2>2. main.at \in MovedOnes
    BY <2>1 DEF ListInv, PlaceInv, At
  <2>3. next[main.at] \in MovedOnes \cup {Nil}
    BY <2>2 DEF ListInv, MovedInv, IsClosed
  <2> QED BY <1>2, <1>3, <2>1, <2>2, <2>3 DEF PlaceInv, At
<1>11. ASSUME main'.pc \in {"poll", "accept", "sweep", "answer", "tryfree"} PROVE PlaceInv'
  BY <1>11 DEF PlaceInv, At
<1>12. ASSUME ServeDone PROVE PlaceInv'
  <2>1. main'.pc = "accept"
    BY <1>12 DEF ServeDone, Goto, ListInv, IInv, Types, MainState
  <2> QED BY <1>11, <2>1
<1>13. ASSUME NobodyKnocks \/ handleConnect \/ TryFree \/ SweepNext \/ ClosedDone PROVE PlaceInv'
  <2>1. main'.pc \in {"sweep", "poll"}
    <3> USE DEF Goto, ListInv, IInv, Types, MainState
    <3>1. CASE NobodyKnocks BY <3>1 DEF NobodyKnocks
    <3>2. CASE handleConnect BY <3>2 DEF handleConnect
    <3>3. CASE TryFree BY <3>3 DEF TryFree
    <3>4. CASE SweepNext BY <3>4 DEF SweepNext
    <3>5. CASE ClosedDone BY <3>5 DEF ClosedDone
    <3> QED BY <1>13, <3>1, <3>2, <3>3, <3>4, <3>5
  <2> QED BY <1>11, <2>1
<1>14. ASSUME AnswerLoad \/ AnswerStore PROVE PlaceInv'
  <2>1. main'.pc \in {"answer", "tryfree"}
    BY <1>14 DEF AnswerLoad, AnswerStore, ListInv, IInv, Types, MainState
  <2> QED BY <1>11, <2>1
<1>15. PlaceInv'
  BY <1>6, <1>7, <1>8, <1>9, <1>10, <1>12, <1>13, <1>14 DEF ReadsLists
<1> QED BY <1>1, <1>2, <1>4, <1>15

\* The kinds of steps.
LEMMA Kinds ==
  ASSUME ListInv, [Next]_vars
  PROVE  \/ OthersStep \/ ReadsLists \/ DisconnectStore \/ Unlink \/ LinkClosed
         \/ Accept \/ Publish \/ FreeClosed
BY OthersLeaveTheList DEF Next, MainStep, ReadsLists

\* Only Publish and Unlink change the list.
LEMMA ListKept ==
  ASSUME ListInv, [Next]_vars, ~Publish, ~Unlink
  PROVE  Listed' = Listed /\ first' = first /\ \A c \in Listed : next'[c] = next[c]
<1>1. CASE OthersStep
  BY <1>1, OthersKeepTheList DEF OthersStep
<1>2. CASE ReadsLists
  BY <1>2, ReadingKeepsTheList DEF LinksStand
<1>3. CASE DisconnectStore
  BY <1>3, DisconnectKeepsTheList
<1>4. CASE LinkClosed
  BY <1>4, LinkClosedStep
<1>5. CASE Accept
  BY <1>5, AcceptStep
<1>6. CASE FreeClosed
  BY <1>6, FreeClosedStep
<1> QED BY <1>1, <1>2, <1>3, <1>4, <1>5, <1>6, Kinds

LEMMA ListInvStep ==
  ASSUME ListInv, [Next]_vars
  PROVE  ListInv'
<1>1. IInv'
  BY TypesStep, MainInvStep, SpuInvStep, AccountedStep DEF ListInv, IInv
<1>2. MovedInv' /\ PlaceInv'
  BY Kinds, OthersKeepTheList, ReadingKeepsTheList, DisconnectKeepsTheList, UnlinkStep,
     LinkClosedStep, AcceptStep, PublishStep, FreeClosedStep
<1>3. IsList(Listed', next', first')
  <2>1. CASE ~Publish /\ ~Unlink
    <3>1. Listed' = Listed /\ first' = first /\ \A c \in Listed : next'[c] = next[c]
      BY <2>1, ListKept
    <3>2. IsList(Listed, next', first)
      BY <3>1, SameLinks DEF ListInv
    <3> QED BY <3>1, <3>2
  <2> QED BY <2>1, PublishStep, UnlinkStep
<1> QED BY <1>1, <1>2, <1>3 DEF ListInv

LEMMA ListInvariance == Spec => []ListInv
<1>1. ListInv /\ [Next]_vars => ListInv'
  BY ListInvStep
<1> QED
  BY InitListInv, <1>1, PTL DEF Spec
-----------------------------------------------------------------------------
(* The walk of the SPU's thread.                                             *)

\* Unless it is in the wrong list or has met a connection that nobody had set up,
\* the walk is where an open target is still ahead: in the list, or at a connection
\* that was unlinked under it and still leads into the list.
WalkInv ==
  /\ spu.pc # "idle" => /\ fd[spu.target] # "none"
                        /\ ~(At("publish") /\ main.at = spu.target)
  /\ spu.pc = "walk" /\ ~spu.lost /\ fd[spu.target] = "open" =>
       \/ spu.at \in MovedOnes
       \/ spu.at \in Listed /\ Reaches(Listed, next, spu.at, spu.target)
       \/ /\ At("close")
          /\ spu.at = main.at
          /\ Reaches(Listed, next, next[spu.at], spu.target)

\* Connections are not opened again.
LEMMA OpenedOnce ==
  ASSUME ListInv, [Next]_vars, NEW c \in Clients, fd[c] # "none"
  PROVE  fd'[c] # "none" /\ (fd'[c] = "open" => fd[c] = "open")
<1> USE DEF ListInv, IInv, Types
<1>1. CASE fd' = fd
  BY <1>1
<1>2. CASE OthersStep \/ LinkClosed \/ Publish \/ Unlink \/ FreeClosed
  BY <1>1, <1>2, PublishStep, UnlinkStep, FreeClosedStep DEF OthersStep, LinkClosed
<1>3. CASE ReadsLists
  BY <1>1, <1>3, ReadingKeepsTheList DEF LinksStand
<1>4. CASE DisconnectStore
  BY <1>4 DEF DisconnectStore
<1>5. CASE Accept
  BY <1>5, AcceptStep
<1> QED BY <1>2, <1>3, <1>4, <1>5, Kinds

LEMMA SpuKinds ==
  ASSUME [Next]_vars
  PROVE  \/ \E c \in Clients : ExecuteFlush(c)
         \/ Callback
         \/ spu' = spu
<1>1. ASSUME NEW c \in Clients, Client(c) PROVE spu' = spu
  BY <1>1 DEF Client, Connect, ReceiveQueue, PushFlush, AskFlush, ReceiveReply, FreeQueue, Exit
<1>2. CASE PollReturns \/ MainStep
  BY <1>2 DEF PollReturns, MainStep, AllocateQueue, FlushRequestLoad,
     FlushRequestStore, FreeLoad, FreeStore, DisconnectLoad, DisconnectStore, Unlink,
     LinkClosed, ServeNext, ServeDone, NobodyKnocks, Accept, Accepting, Publish,
     handleConnect, AnswerLoad, AnswerStore, TryFree, SweepNext, SweepDone, FreeClosed,
     KeepClosed, ClosedDone
<1> QED BY <1>1, <1>2 DEF Next, vars

\* A walk goes on for the target it began for.
LEMMA SameTarget ==
  ASSUME ListInv, [Next]_vars, ~\E c \in Clients : ExecuteFlush(c), spu'.pc # "idle"
  PROVE  spu.pc # "idle" /\ spu'.target = spu.target /\ spu.target \in Clients
<1>1. spu.pc # "idle" /\ spu'.target = spu.target
  <2> USE DEF ListInv, IInv, Types, SpuState
  <2>1. CASE spu' = spu BY <2>1
  <2>2. CASE WalkNext BY <2>2 DEF WalkNext
  <2>3. CASE WalkFails \/ FlushDoneStore
    <3>1. spu' = Idle BY <2>3 DEF WalkFails, FlushDoneStore
    <3> QED BY <3>1 DEF Idle
  <2>4. CASE FlushDoneLoad BY <2>4 DEF FlushDoneLoad
  <2> QED BY <2>1, <2>2, <2>3, <2>4, SpuKinds DEF Callback
<1> QED BY <1>1 DEF ListInv, IInv, SpuInv, Types, SpuState, Ptr

LEMMA WalkTargetStep ==
  ASSUME ListInv, WalkInv, [Next]_vars, spu'.pc # "idle"
  PROVE  fd'[spu'.target] # "none" /\ ~(main'.pc = "publish" /\ main'.at = spu'.target)
<1>1. ASSUME NEW c \in Clients, ExecuteFlush(c)
      PROVE  /\ fd'[spu'.target] # "none" /\ ~(main'.pc = "publish" /\ main'.at = spu'.target)
  <2>1. firstAllocation[c] = "queue" /\ spu'.target = c /\ fd' = fd /\ main' = main
    BY <1>1 DEF ExecuteFlush, Walk, listVars
  <2>2. fd[c] # "none" /\ ~(main.pc = "publish" /\ main.at = c)
    BY <2>1 DEF ListInv, MovedInv, PlaceInv, At
  <2> QED BY <2>1, <2>2
<1>3. ASSUME ~\E c \in Clients : ExecuteFlush(c)
      PROVE  /\ fd'[spu'.target] # "none" /\ ~(main'.pc = "publish" /\ main'.at = spu'.target)
  <2>1. spu.pc # "idle" /\ spu'.target = spu.target /\ spu.target \in Clients
        /\ fd[spu.target] # "none"
    BY <1>3, SameTarget DEF WalkInv
  <2>2. PICK t \in Clients : t = spu.target
    BY <2>1
  <2>3. fd'[t] # "none"
    BY <2>1, <2>2, OpenedOnce
  <2>4. ~(main'.pc = "publish" /\ main'.at = t)
    <3>1. CASE OthersStep
      BY <2>1, <2>2, <3>1 DEF OthersStep, WalkInv, At
    <3>2. CASE ReadsLists \/ DisconnectStore \/ Unlink \/ LinkClosed \/ Publish \/ FreeClosed
      <4>1. main'.pc # "publish"
        <5> USE DEF ListInv, IInv, Types, MainState
        <5>1. CASE ReadsLists BY <5>1, ReadingKeepsTheList DEF LinksStand
        <5>2. CASE DisconnectStore BY <5>2 DEF DisconnectStore
        <5>3. CASE LinkClosed BY <5>3 DEF LinkClosed, Goto
        <5> QED BY <3>2, <5>1, <5>2, <5>3, UnlinkStep, PublishStep, FreeClosedStep
      <4> QED BY <4>1
    <3>3. CASE Accept
      BY <2>1, <2>2, <3>3, AcceptStep
    <3> QED BY <3>1, <3>2, <3>3, Kinds
  <2> QED BY <2>1, <2>2, <2>3, <2>4
<1> QED BY <1>1, <1>3

LEMMA EndOfList == Nil \notin Listed /\ Listed \subseteq Clients
BY FlushAssumption DEF Listed

\* The walk begins at the head of the list, which has its target.
LEMMA WalkBegins ==
  ASSUME ListInv, NEW c \in Clients, ExecuteFlush(c), fd[c] = "open"
  PROVE  first \in Listed /\ Reaches(Listed, next, first, c)
<1>1. c \in Listed
  BY DEF ExecuteFlush, Listed, ListInv, PlaceInv, At
<1>2. Reaches(Listed, next, first, c)
  BY <1>1 DEF ListInv, IsList
<1>3. first # Nil
  BY <1>2, EndReachesNothing
<1> QED BY <1>2, <1>3 DEF ListInv, IsList

\* A step of the walk.
LEMMA WalkNextStep ==
  ASSUME ListInv, WalkInv, WalkNext, ~spu'.lost, fd[spu.target] = "open"
  PROVE  /\ spu'.at \in Listed /\ Reaches(Listed, next, spu'.at, spu.target)
         /\ spu'.target = spu.target /\ UNCHANGED <<main, fd, next, first>>
<1>1. /\ spu.pc = "walk" /\ spu.at \in Clients /\ spu.at # spu.target /\ spu.target \in Clients
      /\ UNCHANGED <<main, fd, next, first>>
  BY DEF WalkNext, listVars, ListInv, IInv, SpuInv, Types, SpuState, Ptr
<1>2. PICK c \in CASE spu.at \in freed -> {d \in Clients : fd[d] # "none"} \cup {Nil}
                   [] spu.at \notin freed /\ firstAllocation[spu.at] = "unset" -> {next[spu.at], Nil}
                   [] OTHER -> {next[spu.at]} :
        spu' = [spu EXCEPT !.at = c,
                           !.lost = @ \/ Moved(spu.at) \/ firstAllocation[spu.at] = "unset"]
  BY DEF WalkNext
<1>3. spu'.at = c /\ spu'.target = spu.target
      /\ ~spu.lost /\ ~Moved(spu.at) /\ firstAllocation[spu.at] # "unset"
  BY <1>2 DEF ListInv, IInv, Types, SpuState
<1>4. spu.at \notin MovedOnes /\ spu.at \notin freed
  BY <1>3 DEF MovedOnes, ListInv, MovedInv
<1>5. c = next[spu.at]
  BY <1>2, <1>3, <1>4
<1>6. CASE spu.at \in Listed /\ Reaches(Listed, next, spu.at, spu.target)
  <2>1. spu.target \in Listed
    BY <1>1, <1>6 DEF ListInv, IsList, Reaches
  <2>2. PICK p \in Listed : p = spu.at
    BY <1>6
  <2>3. PICK t \in Listed : t = spu.target
    BY <2>1
  <2>4. next[p] \in Listed /\ Reaches(Listed, next, next[p], t)
    BY <1>1, <1>6, <2>2, <2>3, Onwards, EndOfList DEF ListInv, IsList
  <2> QED BY <1>1, <1>3, <1>5, <2>2, <2>3, <2>4
<1>7. CASE At("close") /\ spu.at = main.at /\ Reaches(Listed, next, next[spu.at], spu.target)
  <2>1. next[spu.at] # Nil
    BY <1>7, EndReachesNothing
  <2>2. next[spu.at] \in Listed
    BY <1>7, <2>1 DEF ListInv, PlaceInv
  <2> QED BY <1>1, <1>3, <1>5, <1>7, <2>2
<1> QED BY <1>1, <1>3, <1>4, <1>6, <1>7 DEF WalkInv

\* A step of the loop under the walk.
LEMMA LoopStep ==
  ASSUME ListInv, WalkInv, [Next]_vars, spu' = spu,
         spu.pc = "walk", ~spu.lost, fd'[spu.target] = "open"
  PROVE  \/ spu.at \in MovedOnes'
         \/ spu.at \in Listed' /\ Reaches(Listed', next', spu.at, spu.target)
         \/ /\ main'.pc = "close" /\ spu.at = main'.at
            /\ Reaches(Listed', next', next'[spu.at], spu.target)
<1>1. spu.target \in Clients /\ fd[spu.target] # "none"
      /\ ~(main.pc = "publish" /\ main.at = spu.target)
  BY DEF ListInv, IInv, SpuInv, Types, SpuState, Ptr, WalkInv, At
<1>2. fd[spu.target] = "open"
  <2>1. PICK t \in Clients : t = spu.target
    BY <1>1
  <2> QED BY <1>1, <2>1, OpenedOnce
<1>3. spu.target \in Listed
  BY <1>1, <1>2 DEF Listed, At
<1>4. MovedOnes \subseteq MovedOnes'
  BY Kinds, OthersKeepTheList, ReadingKeepsTheList, DisconnectKeepsTheList, UnlinkStep,
     LinkClosedStep, AcceptStep, PublishStep, FreeClosedStep
<1>5. CASE spu.at \in MovedOnes
  BY <1>4, <1>5
<1>6. CASE spu.at \in Listed /\ Reaches(Listed, next, spu.at, spu.target)
  <2>1. CASE ~Publish /\ ~Unlink
    <3>1. Listed' = Listed /\ \A c \in Listed : next'[c] = next[c]
      BY <2>1, ListKept
    <3>2. Reaches(Listed, next', spu.at, spu.target)
      BY <1>6, <3>1, SameLinks
    <3> QED BY <1>6, <3>1, <3>2
  <2>2. CASE Publish
    BY <1>3, <1>6, <2>2, PublishStep
  <2>3. CASE Unlink
    <3>1. fd[main.at] = "closed" /\ main.at # spu.target
      BY <1>2, <2>3 DEF Unlink, At, ListInv, PlaceInv
    <3>2. /\ main.at \in Listed /\ main'.pc = "close" /\ main'.at = main.at
          /\ next'[main.at] = next[main.at] /\ Listed' = Listed \ {main.at}
          /\ \A p, c \in Listed' : Reaches(Listed, next, p, c) => Reaches(Listed', next', p, c)
      BY <2>3, UnlinkStep
    <3>3. spu.target \in Listed'
      BY <1>3, <3>1, <3>2
    <3>4. CASE spu.at # main.at
      BY <1>6, <3>2, <3>3, <3>4
    <3>5. CASE spu.at = main.at
      <4>1. next[main.at] \in Listed /\ Reaches(Listed, next, next[main.at], spu.target)
            /\ next[main.at] # main.at
        <5>1. PICK p \in Listed, t \in Listed : p = main.at /\ t = spu.target
          BY <1>3, <3>2
        <5>2. IsList(Listed, next, first) /\ IsClosed(Listed, next)
          BY DEF ListInv, IsList
        <5>3. next[p] \in Listed /\ Reaches(Listed, next, next[p], t)
          BY <1>6, <3>1, <3>5, <5>1, <5>2, Onwards, EndOfList
        <5>4. next[p] # p
          BY <5>2, NoLoop, EndOfList
        <5> QED BY <5>1, <5>3, <5>4
      <4>2. Reaches(Listed', next', next[main.at], spu.target)
        BY <3>2, <3>3, <4>1
      <4> QED BY <3>2, <3>5, <4>2
    <3> QED BY <3>4, <3>5
  <2> QED BY <2>1, <2>2, <2>3
<1>7. CASE main.pc = "close" /\ spu.at = main.at /\ Reaches(Listed, next, next[spu.at], spu.target)
  <2>1. CASE OthersStep
    <3>1. Listed' = Listed /\ next' = next /\ main'.pc = main.pc /\ main'.at = main.at
      BY <2>1, OthersKeepTheList DEF OthersStep
    <3> QED BY <1>7, <3>1
  <2>2. CASE LinkClosed
    BY <1>7, <2>2, LinkClosedStep
  <2>3. CASE ReadsLists \/ DisconnectStore \/ Unlink \/ Accept \/ Publish \/ FreeClosed
    <3>1. main.pc # "close"
      BY <2>3, ReadingKeepsTheList, AcceptStep, PublishStep, FreeClosedStep
         DEF LinksStand, DisconnectStore, HangsUp, Serving, Unlink, At
    <3> QED BY <1>7, <3>1
  <2> QED BY <2>1, <2>2, <2>3, Kinds
<1> QED BY <1>2, <1>5, <1>6, <1>7 DEF WalkInv, At

LEMMA WalkInvStep ==
  ASSUME ListInv, WalkInv, [Next]_vars
  PROVE  WalkInv'
<1>1. spu'.pc # "idle" => fd'[spu'.target] # "none"
                          /\ ~(main'.pc = "publish" /\ main'.at = spu'.target)
  BY WalkTargetStep
<1>2. ASSUME spu'.pc = "walk", ~spu'.lost, fd'[spu'.target] = "open"
      PROVE  \/ spu'.at \in MovedOnes'
             \/ spu'.at \in Listed' /\ Reaches(Listed', next', spu'.at, spu'.target)
             \/ /\ main'.pc = "close" /\ spu'.at = main'.at
                /\ Reaches(Listed', next', next'[spu'.at], spu'.target)
  <2>1. CASE spu' = spu
    BY <1>2, <2>1, LoopStep
  <2>2. ASSUME NEW c \in Clients, ExecuteFlush(c)
        PROVE  spu'.at \in Listed' /\ Reaches(Listed', next', spu'.at, spu'.target)
    <3>1. spu'.at = first /\ spu'.target = c /\ UNCHANGED <<main, fd, next>>
      BY <2>2 DEF ExecuteFlush, Walk, listVars
    <3>2. Listed' = Listed
      BY <3>1 DEF Listed, At
    <3>3. fd[c] = "open"
      BY <1>2, <3>1
    <3>4. first \in Listed /\ Reaches(Listed, next, first, c)
      BY <2>2, <3>3, WalkBegins
    <3> QED BY <3>1, <3>2, <3>4
  <2>3. CASE WalkNext
    <3>1. spu'.target = spu.target /\ fd' = fd
      BY <2>3 DEF WalkNext, listVars, ListInv, IInv, Types, SpuState
    <3>2. /\ spu'.at \in Listed /\ Reaches(Listed, next, spu'.at, spu.target)
          /\ UNCHANGED <<main, fd, next>>
      BY <1>2, <2>3, <3>1, WalkNextStep
    <3>3. Listed' = Listed
      BY <3>2 DEF Listed, At
    <3> QED BY <3>1, <3>2, <3>3
  <2>4. CASE WalkFails \/ FlushDoneStore
    <3>1. spu' = Idle BY <2>4 DEF WalkFails, FlushDoneStore
    <3> QED BY <1>2, <3>1 DEF Idle
  <2>5. CASE FlushDoneLoad
    <3>1. spu'.pc = "ordone"
      BY <2>5 DEF FlushDoneLoad, ListInv, IInv, Types, SpuState
    <3> QED BY <1>2, <3>1
  <2> QED BY <2>1, <2>2, <2>3, <2>4, <2>5, SpuKinds DEF Callback
<1> QED BY <1>1, <1>2 DEF WalkInv, At

LEMMA WalkInvariance == Spec => [](ListInv /\ WalkInv)
<1>1. Init => WalkInv
  BY DEF Init, Idle, WalkInv
<1>2. ListInv /\ WalkInv /\ [Next]_vars => (ListInv /\ WalkInv)'
  BY ListInvStep, WalkInvStep
<1> QED
  BY InitListInv, <1>1, <1>2, PTL DEF Spec

\* What is reached within the list is reached by From.
LEMMA ReachedFrom ==
  ASSUME ListInv, NEW p \in Listed, NEW c \in Clients, Reaches(Listed, next, p, c),
         NEW S \in SUBSET Clients, p \in S, IsClosed(S, next)
  PROVE  c \in S
<1>1. IsClosed(S \cap Listed, next)
  BY DEF ListInv, IsList, IsClosed
<1> QED BY <1>1 DEF Reaches

\* For any number of clients: while connections are accepted and leave, a walk that
\* has met none in the wrong list finds the one it looks for
\* (server/main.c:64-76, 171-178, 185-198).
THEOREM WalksFindTheOpen == Spec => []WalkFindsTheOpen
<1>1. ASSUME ListInv, WalkInv PROVE WalkFindsTheOpen
  <2> SUFFICES ASSUME spu.pc = "walk", ~spu.lost, fd[spu.target] = "open"
               PROVE  \/ spu.target \in From(spu.at)
                      \/ spu.at # Nil /\ Moved(spu.at)
    BY DEF WalkFindsTheOpen
  <2>1. spu.target \in Clients
    BY <1>1 DEF ListInv, IInv, SpuInv, Types, SpuState, Ptr
  <2>2. CASE spu.at \in MovedOnes
    BY <2>2, FlushAssumption DEF MovedOnes
  <2>3. ASSUME NEW S \in SUBSET Clients, spu.at \in S \cup {Nil},
               \A d \in S : next[d] \in S \cup {Nil},
               spu.at \in Listed, Reaches(Listed, next, spu.at, spu.target)
        PROVE  spu.target \in S
    <3>1. spu.at \in S /\ IsClosed(S, next)
      BY <2>3, EndOfList DEF IsClosed
    <3> QED BY <1>1, <2>1, <2>3, <3>1, ReachedFrom
  <2>4. ASSUME NEW S \in SUBSET Clients, spu.at \in S \cup {Nil},
               \A d \in S : next[d] \in S \cup {Nil},
               At("close"), spu.at = main.at, Reaches(Listed, next, next[spu.at], spu.target)
        PROVE  spu.target \in S
    <3>1. next[spu.at] \in Listed
      BY <1>1, <2>4, EndReachesNothing DEF ListInv, PlaceInv
    <3>2. spu.at \in S
      BY <1>1, <2>4 DEF ListInv, IInv, MainInv, Working, At
    <3>3. next[spu.at] \in S /\ IsClosed(S, next)
      BY <2>4, <3>1, <3>2, EndOfList DEF IsClosed
    <3> QED BY <1>1, <2>1, <2>4, <3>1, <3>3, ReachedFrom
  <2> QED BY <1>1, <2>1, <2>2, <2>3, <2>4 DEF WalkInv, From
<1> QED
  BY <1>1, WalkInvariance, PTL
-----------------------------------------------------------------------------
(* Queues that are given up.                                                 *)

\* No FLUSH of c is published, or being noted; and there will be none.
Quiet(c) == ~fifo[c] /\ ~InUse(c)
Over(c) == Quiet(c) /\ client[c] \in {"freed", "gone"}

\* A client waits for every FLUSH it has published.
Matched(c) ==
  client[c] # "gone" =>
    executed[c] + One(fifo[c]) = answered[c] + One(client[c] \in {"pushed", "asked"})

\* A queue in the list that is given up says so in its flags.
DisposedInv(c) ==
  /\ disposals[c] \in {0, 1}
  /\ request[c] = "free" => Over(c)
  /\ disposals[c] = 1 /\ fd[c] # "closed" =>
       Over(c) /\ request[c] # "free" /\ Disposed \in flags[c]

\* ... and in what the loop has loaded.
SeenInv ==
  /\ At("free") => Over(main.at) /\ request[main.at] # "free" /\ disposals[main.at] = 0
  /\ main.pc \in {"orwait", "disconnect", "answer"} =>
       (disposals[main.at] = 1 /\ fd[main.at] # "closed" => Disposed \in main.seen)

DisposalInv ==
  /\ ListInv
  /\ SeenInv
  /\ \A c \in Clients : Matched(c) /\ DisposedInv(c)

LEMMA InitDisposalInv == Init => DisposalInv
<1> SUFFICES ASSUME Init PROVE DisposalInv
  OBVIOUS
<1>1. SeenInv
  BY DEF Init, SeenInv, At
<1>2. ASSUME NEW c \in Clients PROVE Matched(c) /\ DisposedInv(c)
  BY DEF Init, Matched, DisposedInv, One
<1> QED BY <1>1, <1>2, InitListInv DEF DisposalInv

\* A client that waits for nothing has no FLUSH on its way.
LEMMA IdleIsQuiet ==
  ASSUME DisposalInv, NEW c \in Clients, client[c] = "idle"
  PROVE  Quiet(c)
<1>1. Matched(c) /\ Accounted(c)
  BY DEF DisposalInv, ListInv, IInv
<1>2. executed[c] \in Nat /\ answered[c] \in Nat
  BY DEF DisposalInv, ListInv, IInv, Types
<1>3. One(fifo[c]) = 0 /\ One(InUse(c)) = 0
  BY <1>1, <1>2 DEF Matched, Accounted, One
<1> QED BY <1>3 DEF One, Quiet

\* What each actor changes of a client.
LEMMA LoopLeavesClients ==
  ASSUME PollReturns \/ MainStep
  PROVE  UNCHANGED <<client, fifo, answered, executed, spu>>
<1> USE DEF clientVars
<1>1. CASE PollReturns BY <1>1 DEF PollReturns
<1>2. CASE MainStep
  BY <1>2 DEF MainStep, AllocateQueue, FlushRequestLoad,
     FlushRequestStore, FreeLoad, FreeStore, DisconnectLoad, DisconnectStore, Unlink,
     LinkClosed, ServeNext, ServeDone, NobodyKnocks, Accept, Accepting, Publish,
     handleConnect, AnswerLoad, AnswerStore, TryFree, SweepNext, SweepDone, FreeClosed,
     KeepClosed, ClosedDone
<1> QED BY <1>1, <1>2

LEMMA CallbackLeavesClients ==
  ASSUME Callback
  PROVE  UNCHANGED <<client, fifo, answered, executed, request, disposals, fd>>
BY DEF Callback, WalkNext, WalkFails, FlushDoneLoad, FlushDoneStore, clientVars, socketVars,
   queueVars, listVars

LEMMA ClientsLeaveTheServer ==
  ASSUME NEW d \in Clients, Client(d) \/ ExecuteFlush(d)
  PROVE  UNCHANGED <<flags, disposals, fd, main>>
BY DEF Client, Connect, ReceiveQueue, PushFlush, AskFlush, ReceiveReply, FreeQueue, Exit,
   ExecuteFlush, queueVars, listVars

\* Whoever has freed its queue, or is gone, publishes nothing any more.
LEMMA OverStep ==
  ASSUME DisposalInv, [Next]_vars, NEW c \in Clients, Over(c)
  PROVE  Over(c)'
<1> USE DEF DisposalInv, ListInv, IInv, Types
<1>1. CASE PollReturns \/ MainStep
  BY <1>1, LoopLeavesClients DEF Over, Quiet, InUse
<1>2. CASE Callback
  <2>1. client' = client /\ fifo' = fifo
    BY <1>2, CallbackLeavesClients
  <2>2. ~\E d \in Clients : ExecuteFlush(d)
    BY <1>2 DEF Callback, WalkNext, WalkFails, FlushDoneLoad, FlushDoneStore, ExecuteFlush
  <2>3. InUse(c)' => InUse(c)
    BY <2>2, SameTarget DEF InUse
  <2> QED BY <2>1, <2>3 DEF Over, Quiet
<1>3. ASSUME NEW d \in Clients, ExecuteFlush(d) PROVE Over(c)'
  <2>1. c # d
    BY <1>3 DEF ExecuteFlush, Over, Quiet
  <2>2. client' = client /\ fifo'[c] = fifo[c] /\ spu'.target = d
    BY <1>3, <2>1 DEF ExecuteFlush, Walk, clientVars
  <2> QED BY <2>1, <2>2 DEF Over, Quiet, InUse
<1>4. ASSUME NEW d \in Clients, Client(d) PROVE Over(c)'
  <2>1. client'[c] \in {"freed", "gone"} /\ fifo'[c] = fifo[c] /\ spu' = spu
    BY <1>4 DEF Over, Client, Connect, ReceiveQueue, PushFlush, AskFlush, ReceiveReply,
       FreeQueue, Exit
  <2> QED BY <2>1 DEF Over, Quiet, InUse
<1>5. CASE UNCHANGED vars
  BY <1>5 DEF vars, clientVars, Over, Quiet, InUse
<1> QED BY <1>1, <1>2, <1>3, <1>4, <1>5 DEF Next

LEMMA MatchedStep ==
  ASSUME DisposalInv, [Next]_vars, NEW c \in Clients
  PROVE  Matched(c)'
<1> USE DEF DisposalInv, ListInv, IInv, Types
<1>0. CASE /\ client'[c] = client[c] /\ fifo'[c] = fifo[c]
           /\ executed'[c] = executed[c] /\ answered'[c] = answered[c]
  BY <1>0 DEF Matched, One
<1>1. CASE PollReturns \/ MainStep
  BY <1>0, <1>1, LoopLeavesClients
<1>2. CASE Callback
  BY <1>0, <1>2, CallbackLeavesClients
<1>3. ASSUME NEW d \in Clients, ExecuteFlush(d) PROVE Matched(c)'
  <2>1. CASE c # d
    BY <1>0, <1>3, <2>1 DEF ExecuteFlush, clientVars
  <2>2. CASE c = d
    <3>1. client' = client /\ answered' = answered /\ fifo[c] /\ ~fifo'[c]
          /\ executed'[c] = executed[c] + 1
      BY <1>3, <2>2 DEF ExecuteFlush, clientVars
    <3>2. executed[c] \in Nat /\ answered[c] \in Nat
      OBVIOUS
    <3> QED BY <3>1, <3>2 DEF Matched, One
  <2> QED BY <2>1, <2>2
<1>4. ASSUME NEW d \in Clients, Client(d) PROVE Matched(c)'
  <2>1. CASE c # d
    BY <1>0, <1>4, <2>1 DEF Client, Connect, ReceiveQueue, PushFlush, AskFlush, ReceiveReply,
       FreeQueue, Exit
  <2>2. CASE c = d
    <3>1. executed[c] \in Nat /\ answered[c] \in Nat /\ fifo[c] \in BOOLEAN
      OBVIOUS
    <3>2. CASE Connect(d) \/ ReceiveQueue(d) \/ AskFlush(d) \/ FreeQueue(d)
      <4>1. /\ client[c] # "gone" /\ UNCHANGED <<fifo, executed, answered>>
            /\ client'[c] \in {"pushed", "asked"} <=> client[c] \in {"pushed", "asked"}
        BY <2>2, <3>2 DEF Connect, ReceiveQueue, AskFlush, FreeQueue
      <4> QED BY <4>1 DEF Matched, One
    <3>3. CASE PushFlush(d)
      <4>1. ~fifo[c]
        BY <2>2, <3>3, IdleIsQuiet DEF PushFlush, Quiet
      <4>2. client[c] = "idle" /\ client'[c] = "pushed" /\ fifo'[c] = TRUE
            /\ UNCHANGED <<executed, answered>>
        BY <2>2, <3>3 DEF PushFlush
      <4> QED BY <3>1, <4>1, <4>2 DEF Matched, One
    <3>4. CASE ReceiveReply(d)
      <4>1. client[c] = "asked" /\ client'[c] = "idle" /\ answered'[c] = answered[c] + 1
            /\ UNCHANGED <<executed, fifo>>
        BY <2>2, <3>4 DEF ReceiveReply
      <4> QED BY <3>1, <4>1 DEF Matched, One
    <3>5. CASE Exit(d)
      BY <2>2, <3>5 DEF Exit, Matched
    <3> QED BY <1>4, <3>2, <3>3, <3>4, <3>5 DEF Client
  <2> QED BY <2>1, <2>2
<1>5. CASE UNCHANGED vars
  BY <1>0, <1>5 DEF vars, clientVars
<1> QED BY <1>1, <1>2, <1>3, <1>4, <1>5 DEF Next

LEMMA ClosedStaysClosed ==
  ASSUME ListInv, [Next]_vars, NEW c \in Clients, fd[c] = "closed"
  PROVE  fd'[c] = "closed"
<1>1. fd'[c] \in {"none", "open", "closed"}
  BY ListInvStep DEF ListInv, IInv, Types
<1> QED BY <1>1, OpenedOnce

\* The loop only takes requests away.
LEMMA LoopTakesRequests ==
  ASSUME DisposalInv, PollReturns \/ MainStep, NEW c \in Clients, request'[c] = "free"
  PROVE  request[c] = "free"
<1> USE DEF socketVars, DisposalInv, ListInv, IInv, Types
<1>1. CASE request' = request
  BY <1>1
<1>2. CASE request' = [request EXCEPT ![main.at] = "none"]
  BY <1>2
<1>3. CASE PollReturns BY <1>1, <1>3 DEF PollReturns
<1>4. CASE MainStep
  BY <1>1, <1>2, <1>4 DEF MainStep, Receives, AllocateQueue, FlushRequestLoad,
     FlushRequestStore, FreeLoad, FreeStore, DisconnectLoad, DisconnectStore, Unlink,
     LinkClosed, ServeNext, ServeDone, NobodyKnocks, Accept, Accepting, Publish,
     handleConnect, AnswerLoad, AnswerStore, TryFree, SweepNext, SweepDone, FreeClosed,
     KeepClosed, ClosedDone
<1> QED BY <1>3, <1>4

\* A queue of which nothing new is asked, and whose flag is kept.
LEMMA DisposedKept ==
  ASSUME DisposalInv, [Next]_vars, NEW c \in Clients,
         disposals'[c] = disposals[c],
         request'[c] = "free" => request[c] = "free",
         disposals[c] = 1 /\ fd[c] # "closed" /\ Disposed \in flags[c] => Disposed \in flags'[c]
  PROVE  DisposedInv(c)'
<1>1. DisposedInv(c) /\ ListInv
  BY DEF DisposalInv
<1>2. Over(c) => Over(c)'
  BY OverStep
<1>3. fd[c] = "closed" => fd'[c] = "closed"
  BY <1>1, ClosedStaysClosed
<1> QED BY <1>1, <1>2, <1>3 DEF DisposedInv

LEMMA DisposedByOthers ==
  ASSUME DisposalInv, [Next]_vars, NEW c \in Clients,
         (\E d \in Clients : Client(d) \/ ExecuteFlush(d)) \/ Callback \/ UNCHANGED vars
  PROVE  DisposedInv(c)'
<1>1. ASSUME NEW d \in Clients, Client(d) \/ ExecuteFlush(d), ~FreeQueue(d) PROVE DisposedInv(c)'
  <2>1. UNCHANGED <<flags, disposals>>
    BY <1>1, ClientsLeaveTheServer
  <2>2. request'[c] = "free" => request[c] = "free"
    BY <1>1 DEF Client, Connect, ReceiveQueue, PushFlush, AskFlush, ReceiveReply, Exit,
       ExecuteFlush, socketVars, DisposalInv, ListInv, IInv, Types
  <2> QED BY <2>1, <2>2, DisposedKept
<1>2. ASSUME NEW d \in Clients, FreeQueue(d) PROVE DisposedInv(c)'
  <2>1. UNCHANGED <<flags, disposals, fd>>
    BY <1>2, ClientsLeaveTheServer DEF Client
  <2>2. CASE c # d
    <3>1. request'[c] = request[c]
      BY <1>2, <2>2 DEF FreeQueue
    <3> QED BY <2>1, <3>1, DisposedKept
  <2>3. CASE c = d
    <3>1. client[c] = "idle" /\ client'[c] = "freed" /\ UNCHANGED <<fifo, spu>>
      BY <1>2, <2>3 DEF FreeQueue, DisposalInv, ListInv, IInv, Types
    <3>2. Over(c)'
      BY <3>1, IdleIsQuiet DEF Over, Quiet, InUse
    <3>3. disposals[c] = 1 => fd[c] = "closed"
      BY <3>1 DEF DisposalInv, DisposedInv, Over
    <3> QED BY <2>1, <3>2, <3>3 DEF DisposalInv, DisposedInv
  <2> QED BY <2>2, <2>3
<1>3. CASE Callback
  <2>1. UNCHANGED <<disposals, request>>
    BY <1>3, CallbackLeavesClients
  <2>2. ASSUME disposals[c] = 1, fd[c] # "closed" PROVE flags'[c] = flags[c]
    <3>1. ~InUse(c)
      BY <2>2 DEF DisposalInv, DisposedInv, Over, Quiet
    <3>2. CASE FlushDoneStore
      <4>1. spu.at # c
        BY <3>1, <3>2 DEF FlushDoneStore, InUse, DisposalInv, ListInv, IInv, SpuInv
      <4> QED BY <3>2, <4>1 DEF FlushDoneStore, DisposalInv, ListInv, IInv, Types
    <3> QED BY <1>3, <3>2 DEF Callback, WalkNext, WalkFails, FlushDoneLoad, queueVars
  <2> QED BY <2>1, <2>2, DisposedKept
<1>4. CASE UNCHANGED vars
  BY <1>4, DisposedKept DEF vars, queueVars, socketVars
<1> QED BY <1>1, <1>2, <1>3, <1>4 DEF Client

\* The loop gives a queue up unless what it has loaded says that it was.
LEMMA GivingUp ==
  ASSUME DisposalInv, GiveUp, At("free") \/ At("disconnect")
  PROVE  /\ main.at \in Clients
         /\ \A c \in Clients \ {main.at} : flags'[c] = flags[c] /\ disposals'[c] = disposals[c]
         /\ disposals'[main.at] \in {0, 1}
         /\ At("free") /\ disposals'[main.at] = 1 => Disposed \in flags'[main.at]
<1> USE DEF DisposalInv, ListInv, IInv, Types
<1>1. main.at \in Clients /\ fd[main.at] = "open"
  BY ServesListed, EndOfList DEF At
<1>2. /\ disposals[main.at] \in {0, 1}
      /\ At("free") => disposals[main.at] = 0
      /\ At("disconnect") /\ disposals[main.at] = 1 => Disposed \in main.seen
  BY <1>1 DEF DisposedInv, SeenInv, At
<1>3. CASE Disposed \in main.seen
  <2>1. UNCHANGED <<flags, disposals>>
    BY <1>3 DEF GiveUp
  <2> QED BY <1>1, <1>2, <2>1
<1>4. CASE Disposed \notin main.seen
  <2>1. disposals[main.at] = 0
    BY <1>2, <1>4
  <2>2. flags' = [flags EXCEPT ![main.at] = main.seen \cup {Disposed}]
        /\ disposals' = [disposals EXCEPT ![main.at] = @ + 1]
    BY <1>4 DEF GiveUp
  <2>3. disposals'[main.at] = 1 /\ Disposed \in flags'[main.at]
    BY <1>1, <2>1, <2>2
  <2> QED BY <1>1, <2>2, <2>3
<1> QED BY <1>3, <1>4

LEMMA DisposedByLoop ==
  ASSUME DisposalInv, [Next]_vars, NEW c \in Clients, PollReturns \/ MainStep
  PROVE  DisposedInv(c)'
<1>1. request'[c] = "free" => request[c] = "free"
  BY LoopTakesRequests
<1>2. CASE UNCHANGED <<flags, disposals>>
  BY <1>1, <1>2, DisposedKept
<1>3. CASE FreeStore
  <2>1. /\ main.at \in Clients
        /\ \A d \in Clients \ {main.at} : flags'[d] = flags[d] /\ disposals'[d] = disposals[d]
        /\ disposals'[main.at] \in {0, 1}
        /\ disposals'[main.at] = 1 => Disposed \in flags'[main.at]
    BY <1>3, GivingUp DEF FreeStore
  <2>2. CASE c # main.at
    BY <1>1, <2>1, <2>2, DisposedKept
  <2>3. CASE c = main.at
    <3>1. Over(c) /\ request'[c] # "free"
      BY <1>1, <1>3, <2>3 DEF FreeStore, DisposalInv, SeenInv, At
    <3>2. Over(c)'
      BY <3>1, OverStep
    <3> QED BY <2>1, <2>3, <3>1, <3>2 DEF DisposedInv
  <2> QED BY <2>2, <2>3
<1>4. CASE DisconnectStore /\ At("disconnect")
  <2>1. GiveUp
    BY <1>4 DEF DisconnectStore, HangsUp, Serving, At
  <2>2. /\ main.at \in Clients
        /\ \A d \in Clients \ {main.at} : flags'[d] = flags[d] /\ disposals'[d] = disposals[d]
        /\ disposals'[main.at] \in {0, 1}
    BY <1>4, <2>1, GivingUp
  <2>3. CASE c # main.at
    BY <1>1, <2>2, <2>3, DisposedKept
  <2>4. CASE c = main.at
    <3>1. fd'[c] = "closed"
      BY <1>4, <2>2, <2>4 DEF DisconnectStore, DisposalInv, ListInv, IInv, Types
    <3>2. request'[c] = "free" => Over(c)'
      BY <1>1, OverStep DEF DisposalInv, DisposedInv
    <3> QED BY <2>2, <2>4, <3>1, <3>2 DEF DisposedInv
  <2> QED BY <2>3, <2>4
<1>5. CASE DisconnectStore /\ ~At("disconnect")
  BY <1>2, <1>5 DEF DisconnectStore
<1>6. CASE FlushRequestStore \/ AnswerStore
  <2>1. disposals' = disposals /\ main.pc \in {"orwait", "answer"}
    BY <1>6 DEF FlushRequestStore, AnswerStore, At
  <2>2. ASSUME disposals[c] = 1, fd[c] # "closed", Disposed \in flags[c]
        PROVE  Disposed \in flags'[c]
    <3>1. CASE c # main.at
      BY <1>6, <2>2, <3>1 DEF FlushRequestStore, AnswerStore, DisposalInv, ListInv, IInv, Types
    <3>2. CASE c = main.at
      <4>1. Disposed \in main.seen
        BY <2>1, <2>2, <3>2 DEF DisposalInv, SeenInv
      <4>2. flags'[c] \in {main.seen \cup {Wait}, Cleared(main.seen)}
        BY <1>6, <3>2 DEF FlushRequestStore, AnswerStore, DisposalInv, ListInv, IInv, Types
      <4> QED BY <4>1, <4>2 DEF Cleared, Disposed, Both, Wait, Done
    <3> QED BY <3>1, <3>2
  <2> QED BY <1>1, <2>1, <2>2, DisposedKept
<1>7. CASE KeepClosed
  <2>1. disposals' = disposals
    BY <1>7 DEF KeepClosed
  <2>2. Disposed \in flags[c] => Disposed \in flags'[c]
    BY <1>7 DEF KeepClosed, Cleared, Disposed, Both, Wait, Done, DisposalInv, ListInv, IInv, Types
  <2> QED BY <1>1, <2>1, <2>2, DisposedKept
<1>8. CASE \/ PollReturns \/ AllocateQueue \/ FlushRequestLoad \/ FreeLoad \/ DisconnectLoad
           \/ Unlink \/ LinkClosed \/ ServeNext \/ ServeDone \/ NobodyKnocks \/ Accept
           \/ Publish \/ handleConnect \/ AnswerLoad \/ TryFree \/ SweepNext \/ SweepDone
           \/ FreeClosed \/ ClosedDone
  BY <1>2, <1>8 DEF PollReturns, AllocateQueue, FlushRequestLoad, FreeLoad, DisconnectLoad,
     Unlink, LinkClosed, ServeNext, ServeDone, NobodyKnocks, Accept, Accepting, Publish,
     handleConnect, AnswerLoad, TryFree, SweepNext, SweepDone, FreeClosed, ClosedDone, queueVars
<1> QED BY <1>3, <1>4, <1>5, <1>6, <1>7, <1>8 DEF MainStep

LEMMA SeenByOthers ==
  ASSUME DisposalInv, [Next]_vars,
         (\E d \in Clients : Client(d) \/ ExecuteFlush(d)) \/ Callback \/ UNCHANGED vars
  PROVE  SeenInv'
<1>1. /\ main'.pc = main.pc /\ main'.at = main.at /\ main'.seen = main.seen
      /\ UNCHANGED <<disposals, fd>>
  <2>1. CASE UNCHANGED <<main, disposals, fd>>
    BY <2>1
  <2>2. CASE FlushDoneStore
    BY <2>2 DEF FlushDoneStore, listVars, DisposalInv, ListInv, IInv, Types, MainState
  <2>3. CASE WalkNext \/ WalkFails \/ FlushDoneLoad \/ UNCHANGED vars
    BY <2>1, <2>3 DEF WalkNext, WalkFails, FlushDoneLoad, vars, queueVars, listVars
  <2> QED BY <2>1, <2>2, <2>3, ClientsLeaveTheServer DEF Callback
<1>2. ASSUME main.pc = "free" PROVE Over(main.at)' /\ request'[main.at] # "free"
  <2>1. PICK a \in Clients : a = main.at
    BY <1>2 DEF DisposalInv, ListInv, IInv, Types, MainState, MainInv, Working, Ptr
  <2>2. Over(a) /\ request[a] # "free"
    BY <1>2, <2>1 DEF DisposalInv, SeenInv, At
  <2>3. Over(a)'
    BY <2>2, OverStep
  <2>4. request'[a] # "free"
    <3>1. ASSUME NEW d \in Clients, Client(d) \/ ExecuteFlush(d) PROVE request'[a] # "free"
      BY <2>2, <3>1 DEF Over, Client, Connect, ReceiveQueue, PushFlush, AskFlush, ReceiveReply,
         FreeQueue, Exit, ExecuteFlush, socketVars, DisposalInv, ListInv, IInv, Types
    <3>2. CASE Callback
      BY <2>2, <3>2, CallbackLeavesClients
    <3>3. CASE UNCHANGED vars
      BY <2>2, <3>3 DEF vars, socketVars
    <3> QED BY <3>1, <3>2, <3>3
  <2>5. client'[a] \in {"freed", "gone"} /\ ~fifo'[a] /\ ~(spu'.pc # "idle" /\ spu'.target = a)
    BY <2>3 DEF Over, Quiet, InUse
  <2> QED BY <1>1, <2>1, <2>4, <2>5 DEF Over, Quiet, InUse
<1>3. main.pc = "free" => /\ client'[main.at] \in {"freed", "gone"} /\ ~fifo'[main.at]
                          /\ ~(spu'.pc # "idle" /\ spu'.target = main.at)
                          /\ request'[main.at] # "free"
  BY <1>1, <1>2 DEF Over, Quiet, InUse
<1> QED BY <1>1, <1>3 DEF DisposalInv, SeenInv, At, Over, Quiet, InUse

LEMMA SeenByLoop ==
  ASSUME DisposalInv, [Next]_vars, PollReturns \/ MainStep
  PROVE  SeenInv'
<1> USE DEF DisposalInv, ListInv, IInv, Types, MainState
<1>1. CASE main'.pc \notin {"free", "orwait", "disconnect", "answer"}
  BY <1>1 DEF SeenInv, At
<1>2. CASE FlushRequestLoad \/ DisconnectLoad \/ AnswerLoad
  <2>1. main.at \in Clients
    BY <1>2, ServesListed, EndOfList
       DEF FlushRequestLoad, Receives, DisconnectLoad, HangsUp, AnswerLoad, Ptr
  <2>2. /\ main'.pc \in {"orwait", "disconnect", "answer"}
        /\ main'.at = main.at /\ main'.seen = flags[main.at] /\ UNCHANGED <<disposals, fd>>
    <3>1. CASE FlushRequestLoad BY <3>1 DEF FlushRequestLoad, queueVars, listVars
    <3>2. CASE DisconnectLoad BY <3>2 DEF DisconnectLoad, queueVars, listVars
    <3>3. CASE AnswerLoad BY <3>3 DEF AnswerLoad, queueVars, listVars
    <3> QED BY <1>2, <3>1, <3>2, <3>3
  <2> QED BY <2>1, <2>2 DEF SeenInv, DisposedInv, At
<1>3. CASE FreeLoad
  <2>1. main.at \in Clients /\ fd[main.at] = "open" /\ request[main.at] = "free"
    BY <1>3, ServesListed, EndOfList DEF FreeLoad, Receives
  <2>2. Over(main.at) /\ disposals[main.at] = 0
    BY <2>1 DEF DisposedInv
  <2>3. /\ main'.pc = "free" /\ main'.at = main.at /\ disposals' = disposals
        /\ request'[main.at] = "none" /\ UNCHANGED <<client, fifo, spu>>
    BY <1>3, <2>1 DEF FreeLoad, Receives, queueVars, clientVars
  <2> QED BY <2>2, <2>3 DEF SeenInv, At, Over, Quiet, InUse
<1>4. CASE ReadsLists /\ ~FlushRequestLoad /\ ~DisconnectLoad /\ ~AnswerLoad /\ ~FreeLoad
  <2>1. main'.pc \in {"poll", "serve", "accept", "sweep", "tryfree", "closed"}
    <3>1. CASE PollReturns BY <3>1 DEF PollReturns, Polled
    <3>2. CASE AllocateQueue BY <3>2 DEF AllocateQueue, Receives, Serving, At
    <3>3. CASE FlushRequestStore BY <3>3 DEF FlushRequestStore
    <3>4. CASE FreeStore BY <3>4 DEF FreeStore
    <3>5. CASE ServeNext BY <3>5 DEF ServeNext, Goto
    <3>6. CASE ServeDone
      <4>1. main'.pc = "accept" BY <3>6 DEF ServeDone, Goto
      <4> QED BY <4>1
    <3>7. CASE NobodyKnocks BY <3>7 DEF NobodyKnocks, Goto
    <3>8. CASE handleConnect BY <3>8 DEF handleConnect, Goto
    <3>9. CASE AnswerStore BY <3>9 DEF AnswerStore
    <3>10. CASE TryFree BY <3>10 DEF TryFree, Goto
    <3>11. CASE SweepNext BY <3>11 DEF SweepNext, Goto
    <3>12. CASE SweepDone BY <3>12 DEF SweepDone, Goto
    <3>13. CASE KeepClosed BY <3>13 DEF KeepClosed, Goto
    <3>14. CASE ClosedDone BY <3>14 DEF ClosedDone, Goto
    <3> QED BY <1>4, <3>1, <3>2, <3>3, <3>4, <3>5, <3>6, <3>7, <3>8, <3>9, <3>10, <3>11,
               <3>12, <3>13, <3>14 DEF ReadsLists
  <2> QED BY <1>1, <2>1
<1>5. CASE DisconnectStore \/ Unlink \/ LinkClosed \/ Accept \/ Publish \/ FreeClosed
  <2>1. main'.pc \in {"unlink", "close", "serve", "publish", "connect", "closed"}
    <3>1. CASE DisconnectStore BY <3>1 DEF DisconnectStore
    <3>2. CASE LinkClosed
      <4>1. main'.pc = "serve" BY <3>2 DEF LinkClosed, Goto
      <4> QED BY <4>1
    <3>3. CASE Accept
      <4>1. main'.pc = "publish" BY <3>3 DEF Accept, Accepting, Goto
      <4> QED BY <4>1
    <3> QED BY <1>5, <3>1, <3>2, <3>3, UnlinkStep, PublishStep, FreeClosedStep
  <2> QED BY <1>1, <2>1
<1> QED BY <1>2, <1>3, <1>4, <1>5 DEF MainStep, ReadsLists

LEMMA DisposalInvariance == Spec => []DisposalInv
<1>1. DisposalInv /\ [Next]_vars => DisposalInv'
  <2> SUFFICES ASSUME DisposalInv, [Next]_vars PROVE DisposalInv'
    OBVIOUS
  <2>1. ListInv'
    BY ListInvStep DEF DisposalInv
  <2>2. SeenInv'
    BY SeenByOthers, SeenByLoop DEF Next
  <2>3. ASSUME NEW c \in Clients PROVE Matched(c)' /\ DisposedInv(c)'
    BY MatchedStep, DisposedByOthers, DisposedByLoop DEF Next
  <2> QED BY <2>1, <2>2, <2>3 DEF DisposalInv
<1> QED
  BY InitDisposalInv, <1>1, PTL DEF Spec

\* For any number of clients and flushes: a queue is given up once, whether it is
\* freed, or its client hangs up, before or after, although COUNT_DISPOSED is noted
\* without a lock (server/connection.c:46-90).
THEOREM QueuesAreGivenUpOnce == Spec => []GivenUpOnce
<1>1. DisposalInv => GivenUpOnce
  BY DEF DisposalInv, DisposedInv, GivenUpOnce
<1> QED
  BY <1>1, DisposalInvariance, PTL
-----------------------------------------------------------------------------
(* The counters.                                                             *)

\* Every FLUSH on the queue of c or executed by it was begun.
BegunInv ==
  /\ begun \in 0..MaxFlushes
  /\ \A c \in Clients : executed[c] + One(fifo[c]) <= begun

LEMMA BegunStep ==
  ASSUME DisposalInv, BegunInv, [Next]_vars
  PROVE  BegunInv'
<1> USE FlushAssumption DEF DisposalInv, ListInv, IInv, Types, BegunInv
<1>1. CASE UNCHANGED <<begun, executed, fifo>>
  BY <1>1
<1>2. CASE PollReturns \/ MainStep \/ Callback
  <2>1. begun' = begun
    BY <1>2 DEF PollReturns, MainStep, AllocateQueue, FlushRequestLoad,
       FlushRequestStore, FreeLoad, FreeStore, DisconnectLoad, DisconnectStore, Unlink,
       LinkClosed, ServeNext, ServeDone, NobodyKnocks, Accept, Accepting, Publish,
       handleConnect, AnswerLoad, AnswerStore, TryFree, SweepNext, SweepDone, FreeClosed,
       KeepClosed, ClosedDone, Callback, WalkNext, WalkFails, FlushDoneLoad, FlushDoneStore,
       clientVars
  <2> QED BY <1>1, <1>2, <2>1, LoopLeavesClients, CallbackLeavesClients
<1>3. ASSUME NEW d \in Clients, PushFlush(d) PROVE BegunInv'
  <2>1. ~fifo[d]
    BY <1>3, IdleIsQuiet DEF PushFlush, Quiet
  <2>2. begun' = begun + 1 /\ begun < MaxFlushes /\ executed' = executed
        /\ fifo' = [fifo EXCEPT ![d] = TRUE]
    BY <1>3 DEF PushFlush
  <2>3. ASSUME NEW c \in Clients PROVE executed'[c] + One(fifo'[c]) <= begun'
    BY <2>1, <2>2 DEF One
  <2>4. begun' \in 0..MaxFlushes
    <3>1. begun \in 0..MaxFlushes /\ MaxFlushes \in Nat
      OBVIOUS
    <3> QED BY <2>2, <3>1
  <2> QED BY <2>3, <2>4
<1>4. ASSUME NEW d \in Clients, ExecuteFlush(d) PROVE BegunInv'
  <2>1. begun' = begun /\ fifo[d] /\ fifo' = [fifo EXCEPT ![d] = FALSE]
        /\ executed' = [executed EXCEPT ![d] = @ + 1]
    BY <1>4 DEF ExecuteFlush, clientVars
  <2>2. ASSUME NEW c \in Clients PROVE executed'[c] + One(fifo'[c]) <= begun'
    BY <2>1 DEF One
  <2> QED BY <2>1, <2>2
<1>5. ASSUME NEW d \in Clients, Client(d), ~PushFlush(d) PROVE BegunInv'
  BY <1>1, <1>5 DEF Client, Connect, ReceiveQueue, AskFlush, ReceiveReply, FreeQueue, Exit
<1>6. CASE UNCHANGED vars
  BY <1>1, <1>6 DEF vars, clientVars
<1> QED BY <1>2, <1>3, <1>4, <1>5, <1>6 DEF Next

\* For any number of clients and flushes: the state is of its type.
THEOREM FlushTypes == Spec => []TypeOK
<1>1. Init => BegunInv
  BY FlushAssumption DEF Init, BegunInv, One
<1>2. DisposalInv /\ BegunInv /\ [Next]_vars => BegunInv'
  BY BegunStep
<1>3. ASSUME DisposalInv, BegunInv PROVE TypeOK
  <2>1. Types /\ MaxFlushes \in Nat
    BY <1>3, FlushAssumption DEF DisposalInv, ListInv, IInv
  <2>2. ASSUME NEW c \in Clients
        PROVE  executed[c] \in 0..MaxFlushes /\ answered[c] \in 0..MaxFlushes
    <3>1. executed[c] \in Nat /\ answered[c] \in Nat
      BY <2>1 DEF Types
    <3>2. executed[c] <= begun /\ begun <= MaxFlushes /\ begun \in Nat
      BY <1>3, <2>1, <3>1 DEF BegunInv, One
    <3>3. answered[c] <= executed[c]
      BY <1>3, <3>1 DEF DisposalInv, ListInv, IInv, Accounted, One
    <3> QED BY <2>1, <3>1, <3>2, <3>3
  <2>3. executed \in [Clients -> 0..MaxFlushes] /\ answered \in [Clients -> 0..MaxFlushes]
    BY <2>1, <2>2 DEF Types
  <2>4. main \in MainState /\ spu \in SpuState
    BY <2>1 DEF Types
  <2>5. begun \in 0..MaxFlushes
    BY <1>3 DEF BegunInv
  <2>6. /\ {fifo, reply} \subseteq [Clients -> BOOLEAN]
        /\ {executed, answered} \subseteq [Clients -> 0..MaxFlushes]
        /\ {first, firstClosed} \subseteq Clients \cup {Nil}
        /\ next \in [Clients -> Clients \cup {Nil}]
    BY <2>1, <2>3 DEF Types, Ptr
  <2> QED BY <2>1, <2>4, <2>5, <2>6 DEF Types, TypeOK, MainState, SpuState, Ptr
<1> QED
  BY <1>1, <1>2, <1>3, DisposalInvariance, PTL DEF Spec
=============================================================================
