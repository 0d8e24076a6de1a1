--------------------------- MODULE CommandStream ---------------------------
(* What a command queue promises its client: the instructions published on a
   queue are executed in the order in which they were published, each of them
   once, and all of them in the end.  The promise ends when a client starts
   over at the beginning of its memory.  CommandFifo implements it with two
   pointers, a window of the queue in the local store of the SPU and stores
   that may fail.                                                            *)
EXTENDS Naturals, Sequences, SequencesExt

CONSTANTS
  Queues,      \* the command queues
  Commands     \* the identities of instructions

VARIABLES
  sent,        \* [Queues -> Seq(Commands)]: published
  done,        \* [Queues -> Seq(Commands)]: executed
  straight     \* no queue has been started over

vars == <<sent, done, straight>>

Init ==
  /\ sent = [q \in Queues |-> <<>>]
  /\ done = [q \in Queues |-> <<>>]
  /\ straight = TRUE

(* One move of the write pointer may publish several instructions.           *)
Publish(q) ==
  /\ straight
  /\ \E s \in {t \in UNION {[1..n -> Commands] : n \in 1..2} : IsInjective(t)} :
        sent' = [sent EXCEPT ![q] = @ \o s]
  /\ UNCHANGED <<done, straight>>

Execute(q) ==
  /\ straight
  /\ Len(done[q]) < Len(sent[q])
  /\ done' = [done EXCEPT ![q] = SubSeq(sent[q], 1, Len(@) + 1)]
  /\ UNCHANGED <<sent, straight>>

(* A client jumps back, or frees its queue and another one takes its place:
   what is executed from then on is not promised.                            *)
Restart ==
  /\ straight
  /\ straight' = FALSE
  /\ sent' = [q \in Queues |-> <<>>]
  /\ done' = [q \in Queues |-> <<>>]

Next == (\E q \in Queues : Publish(q) \/ Execute(q)) \/ Restart

SafetySpec == Init /\ [][Next]_vars

(* WF_vars(Execute(q)) for each q, with what enables Execute spelled out.    *)
Proceeds ==
  \A q \in Queues : []<>(done[q] = sent[q]) \/ []<><<Execute(q)>>_vars

Spec == SafetySpec /\ ([]straight => Proceeds)
============================================================================
