------------------------- MODULE CommandFifoProofs -------------------------
(***************************************************************************)
(* Facts about a command queue for any number of queues and any size of    *)
(* line, window and queue.                                                 *)
(*   - The store of the line by the SPU never takes back a move of the     *)
(*     client's write pointer (WritePointerIsKept).                        *)
(*   - Every offset stays within the queue and the window (TypeCorrect).   *)
(*   - No queue executes the instructions of another (WindowIsOwn).        *)
(*   - A queue that is written once, from its start to its end, and whose  *)
(*     pointers meet has executed what was published on it, in order       *)
(*     (EmptyQueueIsExecuted), and keeps the safety part of CommandStream  *)
(*     (QueueIsAStream).                                                   *)
(***************************************************************************)
EXTENDS CommandFifo, TLAPS

\* What a reservation is worth: while it is intact, the copy of the line holds
\* the write pointer as it is.
ReservationInv ==
  /\ cur \in Queues
  /\ DOMAIN write_ptr = Queues
  /\ write_ptr = [q \in Queues |-> write_ptr[q]]
  /\ reserved \in BOOLEAN
  /\ reserved => copyWrite = write_ptr[cur]

LEMMA ReservationInit == Init => ReservationInv
  BY DEF Init, ReservationInv

\* A store of the client ends the reservation on its own line and no other.
LEMMA ClientKeepsReservation ==
  ASSUME ReservationInv, NEW q \in Queues, Client(q)
  PROVE  ReservationInv'
<1>1. ASSUME NEW w, ClientStores(q, w), UNCHANGED spuVars
      PROVE  ReservationInv'
  BY <1>1 DEF ClientStores, ReservationInv, spuVars
<1>2. ASSUME NEW s \in 0..1, WriteCommand(q, s)
      PROVE  ReservationInv'
  BY <1>2 DEF WriteCommand, ReservationInv, spuVars
<1>3. CASE Publish(q)
  BY <1>1, <1>3 DEF Publish
<1>4. CASE WriteJump(q)
  BY <1>4 DEF WriteJump, ReservationInv, spuVars
<1>5. CASE SetTarget(q)
  BY <1>1, <1>5 DEF SetTarget
<1>6. CASE Recreate(q)
  BY <1>1, <1>6 DEF Recreate
<1> QED
  BY <1>2, <1>3, <1>4, <1>5, <1>6 DEF Client

\* No step of the SPU moves a write pointer, and each keeps the reservation true.
LEMMA SpuKeepsReservation ==
  ASSUME ReservationInv, SPU
  PROVE  ReservationInv' /\ write_ptr' = write_ptr
<1>1. ASSUME NEW q \in Queues, Visit(q)
      PROVE  ReservationInv' /\ write_ptr' = write_ptr
  BY <1>1 DEF Visit, ReservationInv
<1>2. ASSUME \/ Leave \/ Fetch \/ Execute \/ Busy \/ TakeJump
      PROVE  UNCHANGED <<write_ptr, cur, copyWrite, reserved>>
  BY <1>2 DEF Leave, Fetch, Execute, Busy, TakeJump
<1>3. CASE Store
  <2>1. write_ptr' = write_ptr
    BY <1>3 DEF Store, PutLine, ReservationInv
  <2> QED
    BY <1>3, <2>1 DEF Store, PutLine, ReservationInv
<1>4. CASE Reload
  BY <1>4 DEF Reload, ReservationInv
<1>5. CASE LoseReservation
  BY <1>5 DEF LoseReservation, ReservationInv, spuVars
<1> QED
  BY <1>1, <1>2, <1>3, <1>4, <1>5 DEF SPU, Work, ReservationInv

LEMMA ReservationStep ==
  ASSUME ReservationInv, [Next]_vars
  PROVE  ReservationInv'
<1>1. CASE UNCHANGED vars
  BY <1>1 DEF vars, spuVars, ReservationInv
<1> QED
  BY <1>1, ClientKeepsReservation, SpuKeepsReservation DEF Next

\* For every size of queue, line and window: the store of the line never undoes a
\* move of the write pointer that the client has made since the SPU read the line
\* (server/primaryspu/main.c:140-151 against client/fifodefs.h:55-58).
THEOREM WritePointerIsKept == Spec => WritePointerIsTheClients
<1>1. Spec => []ReservationInv
  BY ReservationInit, ReservationStep, PTL DEF Spec
<1>2. ReservationInv /\ [Next]_vars => [SPU => write_ptr' = write_ptr]_vars
  BY SpuKeepsReservation
<1> QED
  BY <1>1, <1>2, PTL DEF Spec, WritePointerIsTheClients

-----------------------------------------------------------------------------
(* What lies in the words of a queue and of the window.                     *)

\* An instruction with data does not begin in the last word, and JUMP is
\* followed by its target, the start of the buffer.
WordsInv(q) ==
  /\ \A o \in 0 .. (EndWord - 1) :
       /\ mem[q][o].size = 1 => o + 1 < EndWord
       /\ mem[q][o].kind = "jump" => mem[q][o].size = 1 /\ mem[q][o + 1].id = 0
  /\ ahead[q] > 0 => mem[q][ahead[q] - 1].kind # "jump"

WindowInv ==
  \A i \in 0 .. (FifoWords - 1) :
    /\ fifo.area[i].size = 1 => fifo.ofs + i + 1 < EndWord
    /\ fifo.area[i].kind = "jump" => /\ fifo.area[i].size = 1
                                     /\ i + 1 < FifoWords => fifo.area[i + 1].id = 0

TInv ==
  /\ TypeOK
  /\ \A q \in Queues : WordsInv(q)
  /\ WindowInv

\* Lines.
LEMMA LineOfIs ==
  ASSUME NEW o \in Nat
  PROVE  LineOf(o) \in 0 .. o
<1>1. LineWords \in Nat /\ LineWords > 0 BY FifoAssumption
<1>2. o % LineWords \in 0 .. (LineWords - 1) /\ o % LineWords <= o BY <1>1
<1> QED BY <1>2 DEF LineOf

LEMMA BlankIsWord == Blank \in Word /\ Blank.size = 0 /\ Blank.kind = "command" /\ Blank.id = 0
<1>1. MaxCommands \in Nat BY FifoAssumption
<1> QED BY <1>1 DEF Blank, Word

\* One word written where the client's pointer is.
LEMMA OneWord ==
  ASSUME TypeOK, NEW q \in Queues, NEW w \in Word, OutRing(q, <<w>>)
  PROVE  /\ ahead[q] + 1 <= EndWord
         /\ ahead' = [ahead EXCEPT ![q] = ahead[q] + 1]
         /\ mem' = [mem EXCEPT ![q] = [o \in 0 .. (EndWord - 1) |->
                      IF o = ahead[q] THEN w ELSE mem[q][o]]]
<1>1. DOMAIN mem[q] = 0 .. (EndWord - 1) /\ ahead[q] \in Nat BY FifoAssumption DEF TypeOK
<1>2. Len(<<w>>) = 1 /\ <<w>>[1] = w OBVIOUS
<1>3. \A o \in 0 .. (EndWord - 1) :
        (IF o \in ahead[q] .. ahead[q] + 1 - 1 THEN <<w>>[o - ahead[q] + 1] ELSE mem[q][o])
          = (IF o = ahead[q] THEN w ELSE mem[q][o])
  BY <1>1, <1>2
<1> QED BY <1>1, <1>2, <1>3 DEF OutRing

LEMMA TwoWords ==
  ASSUME TypeOK, NEW q \in Queues, NEW w \in Word, NEW v \in Word, OutRing(q, <<w, v>>)
  PROVE  /\ ahead[q] + 2 <= EndWord
         /\ ahead' = [ahead EXCEPT ![q] = ahead[q] + 2]
         /\ mem' = [mem EXCEPT ![q] = [o \in 0 .. (EndWord - 1) |->
                      IF o = ahead[q] THEN w ELSE IF o = ahead[q] + 1 THEN v ELSE mem[q][o]]]
<1>1. DOMAIN mem[q] = 0 .. (EndWord - 1) /\ ahead[q] \in Nat BY FifoAssumption DEF TypeOK
<1>2. Len(<<w, v>>) = 2 /\ <<w, v>>[1] = w /\ <<w, v>>[2] = v OBVIOUS
<1>3. \A o \in 0 .. (EndWord - 1) :
        (IF o \in ahead[q] .. ahead[q] + 2 - 1 THEN <<w, v>>[o - ahead[q] + 1] ELSE mem[q][o])
          = (IF o = ahead[q] THEN w ELSE IF o = ahead[q] + 1 THEN v ELSE mem[q][o])
  BY <1>1, <1>2
<1> QED BY <1>1, <1>2, <1>3 DEF OutRing

\* An instruction is written: its first word and, with s = 1, one of data.
LEMMA CommandWords ==
  ASSUME TypeOK, NEW q \in Queues, NEW s \in 0 .. 1, WriteCommand(q, s)
  PROVE  LET c == Len(issuedTo) + 1
         IN /\ c \in Commands
            /\ Header(c, s) \in Word /\ Data(c) \in Word
            /\ ahead[q] + 1 + s <= EndWord
            /\ ahead' = [ahead EXCEPT ![q] = ahead[q] + 1 + s]
            /\ mem' = [mem EXCEPT ![q] = [o \in 0 .. (EndWord - 1) |->
                         IF o = ahead[q] THEN Header(c, s)
                         ELSE IF s = 1 /\ o = ahead[q] + 1 THEN Data(c) ELSE mem[q][o]]]
<1> DEFINE c == Len(issuedTo) + 1
<1>1. Len(issuedTo) \in Nat BY DEF TypeOK
<1>2. c \in Commands /\ c \in 0 .. MaxCommands
  BY <1>1, FifoAssumption DEF WriteCommand, Commands
<1>3. Header(c, s) \in Word /\ Data(c) \in Word BY <1>2 DEF Header, Data, Word
<1>4. ahead[q] \in Nat BY FifoAssumption DEF TypeOK
<1> HIDE DEF c
<1>5. CASE s = 0
  <2>1. OutRing(q, <<Header(c, s)>>) BY <1>5 DEF WriteCommand, c
  <2> QED BY <1>2, <1>3, <1>4, <1>5, <2>1, OneWord DEF c
<1>6. CASE s = 1
  <2>1. OutRing(q, <<Header(c, s), Data(c)>>) BY <1>6 DEF WriteCommand, c
  <2>2. ahead[q] + 1 + s = ahead[q] + 2 BY <1>4, <1>6
  <2> QED BY <1>2, <1>3, <1>4, <1>6, <2>1, <2>2, TwoWords DEF c
<1> QED BY <1>5, <1>6

LEMMA JumpWords ==
  ASSUME TypeOK, NEW q \in Queues, WriteJump(q)
  PROVE  /\ JumpHeader \in Word /\ Data(0) \in Word
         /\ ahead[q] + 2 <= EndWord
         /\ ahead' = [ahead EXCEPT ![q] = ahead[q] + 2]
         /\ mem' = [mem EXCEPT ![q] = [o \in 0 .. (EndWord - 1) |->
                      IF o = ahead[q] THEN JumpHeader
                      ELSE IF o = ahead[q] + 1 THEN Data(0) ELSE mem[q][o]]]
<1>1. JumpHeader \in Word /\ Data(0) \in Word BY FifoAssumption DEF JumpHeader, Data, Word
<1>2. OutRing(q, <<JumpHeader, Data(0)>>) BY DEF WriteJump
<1> QED BY <1>1, <1>2, TwoWords

LEMMA TypesInit == Init => TInv
<1> SUFFICES ASSUME Init PROVE TInv
  OBVIOUS
<1>1. EndWord \in Nat /\ EndWord > 0 /\ FifoWords \in Nat /\ FifoWords > 0
      /\ MaxLaps \in Nat /\ MaxReuse \in Nat
  BY FifoAssumption
<1>2. TypeOK
  <2>1. 0 \in 0 .. EndWord /\ 0 \in 0 .. MaxLaps /\ 0 \in 0 .. MaxReuse /\ 0 \in 0 .. FifoWords
    BY <1>1
  <2>2. mem \in [Queues -> [0 .. (EndWord - 1) -> Word]] BY BlankIsWord DEF Init
  <2>3. {write_ptr, read_ptr, ahead} \subseteq [Queues -> 0 .. EndWord] BY <2>1 DEF Init
  <2>4. fifo \in [ea : Queues \cup {NoQueue}, ofs : 0 .. EndWord, len : 0 .. FifoWords,
                  area : [0 .. (FifoWords - 1) -> Word]]
    BY <2>1, BlankIsWord DEF Init
  <2>5. /\ pend \in [Queues -> Seq(Commands)] /\ sent \in [Queues -> Seq(Commands)]
        /\ done \in [Queues -> Seq(0 .. MaxCommands)] /\ issuedTo \in Seq(Queues)
    BY DEF Init
  <2> QED BY <2>1, <2>2, <2>3, <2>4, <2>5 DEF Init, TypeOK
<1>3. \A q \in Queues : WordsInv(q) BY <1>1, BlankIsWord DEF Init, WordsInv
<1>4. WindowInv BY <1>1, BlankIsWord DEF Init, WindowInv
<1> QED BY <1>2, <1>3, <1>4 DEF TInv

LEMMA ClientTypes ==
  ASSUME TInv, NEW q \in Queues, Client(q)
  PROVE  TInv'
<1>0. EndWord \in Nat /\ EndWord > 0 /\ MaxCommands \in Nat /\ MaxLaps \in Nat /\ MaxReuse \in Nat
  BY FifoAssumption
<1>1. TypeOK /\ WindowInv /\ \A p \in Queues : WordsInv(p) BY DEF TInv
<1>g. ASSUME UNCHANGED fifo PROVE WindowInv' BY <1>1, <1>g DEF WindowInv
<1>2. ASSUME NEW s \in 0 .. 1, WriteCommand(q, s) PROVE TInv'
  <2> DEFINE c == Len(issuedTo) + 1
  <2>1. /\ c \in Commands
        /\ Header(c, s) \in Word /\ Data(c) \in Word
        /\ ahead[q] + 1 + s <= EndWord
        /\ ahead' = [ahead EXCEPT ![q] = ahead[q] + 1 + s]
        /\ mem' = [mem EXCEPT ![q] = [o \in 0 .. (EndWord - 1) |->
                     IF o = ahead[q] THEN Header(c, s)
                     ELSE IF s = 1 /\ o = ahead[q] + 1 THEN Data(c) ELSE mem[q][o]]]
    BY <1>1, <1>2, CommandWords
  <2>2. TypeOK'
    <3>1. mem' \in [Queues -> [0 .. (EndWord - 1) -> Word]] BY <1>1, <2>1 DEF TypeOK
    <3>2. ahead' \in [Queues -> 0 .. EndWord]
      <4>1. ahead \in [Queues -> 0 .. EndWord] BY <1>1 DEF TypeOK
      <4>2. ahead[q] + 1 + s \in 0 .. EndWord BY <4>1, <2>1, <1>0
      <4> QED BY <4>1, <4>2, <2>1
    <3>3. pend' \in [Queues -> Seq(Commands)] BY <1>1, <1>2, <2>1 DEF TypeOK, WriteCommand
    <3>4. issuedTo' \in Seq(Queues) BY <1>1, <1>2 DEF TypeOK, WriteCommand
    <3> QED BY <1>1, <1>2, <3>1, <3>2, <3>3, <3>4 DEF TypeOK, WriteCommand, spuVars
  <2>3. ASSUME NEW p \in Queues PROVE WordsInv(p)'
    <3>1. CASE p # q
      <4>1. mem'[p] = mem[p] /\ ahead'[p] = ahead[p] BY <2>1, <3>1, <1>1 DEF TypeOK
      <4> QED BY <4>1, <1>1 DEF WordsInv
    <3>2. CASE p = q
      <4> DEFINE a == ahead[q]
      <4>1. a \in 0 .. EndWord /\ a \in Nat BY <1>0, <1>1 DEF TypeOK
      <4>2. \A o \in 0 .. (EndWord - 1) : mem'[q][o] =
               IF o = a THEN Header(c, s)
               ELSE IF s = 1 /\ o = a + 1 THEN Data(c) ELSE mem[q][o]
        BY <1>1, <2>1 DEF TypeOK
      <4>3. ahead'[q] = a + 1 + s BY <1>1, <2>1 DEF TypeOK
      <4>4. /\ Header(c, s).size = s /\ Header(c, s).kind = "command"
            /\ Data(c).size = 0 /\ Data(c).kind = "data"
        BY DEF Header, Data
      <4>5. a + 1 + s <= EndWord BY <2>1
      <4> HIDE DEF a, c
      <4>6. ASSUME NEW o \in 0 .. (EndWord - 1)
            PROVE  mem'[q][o].size = 1 => o + 1 < EndWord
        BY <1>0, <1>1, <4>1, <4>2, <4>4, <4>5 DEF WordsInv
      <4>7. ASSUME NEW o \in 0 .. (EndWord - 1), mem'[q][o].kind = "jump"
            PROVE  mem'[q][o].size = 1 /\ mem'[q][o + 1].id = 0
        <5>1. o # a /\ ~(s = 1 /\ o = a + 1) /\ mem'[q][o] = mem[q][o]
          BY <4>2, <4>4, <4>7
        <5>2. mem[q][o].size = 1 /\ mem[q][o + 1].id = 0 /\ o + 1 < EndWord
          BY <5>1, <4>7, <1>1 DEF WordsInv
        <5>3. o + 1 # a BY <5>1, <4>1, <4>7, <1>1, <1>0 DEF WordsInv, a
        <5>4. ~(s = 1 /\ o + 1 = a + 1) BY <5>1, <4>1
        <5>5. mem'[q][o + 1] = mem[q][o + 1] BY <5>2, <5>3, <5>4, <4>2, <1>0
        <5> QED BY <5>1, <5>2, <5>5
      <4>8. mem'[q][ahead'[q] - 1].kind # "jump"
        <5>1. CASE s = 0 BY <5>1, <4>1, <4>2, <4>3, <4>4, <4>5, <1>0
        <5>2. CASE s = 1
          <6>1. ahead'[q] - 1 = a + 1 /\ a + 1 \in 0 .. (EndWord - 1) /\ a + 1 # a
            BY <5>2, <4>1, <4>3, <4>5, <1>0
          <6> QED BY <5>2, <6>1, <4>2, <4>4
        <5> QED BY <5>1, <5>2
      <4> QED BY <3>2, <4>6, <4>7, <4>8 DEF WordsInv
    <3> QED BY <3>1, <3>2
  <2> QED BY <1>2, <1>g, <2>2, <2>3 DEF TInv, WriteCommand, spuVars
<1>3. CASE Publish(q)
  <2>1. TypeOK'
    <3>1. write_ptr' \in [Queues -> 0 .. EndWord]
      BY <1>1, <1>3 DEF TypeOK, Publish, ClientStores
    <3>2. sent' \in [Queues -> Seq(Commands)] /\ pend' \in [Queues -> Seq(Commands)]
      <4>1. sent[q] \o pend[q] \in Seq(Commands) /\ <<>> \in Seq(Commands)
        BY <1>1 DEF TypeOK
      <4> QED BY <1>1, <1>3, <4>1 DEF TypeOK, Publish
    <3>3. client' \in [Queues -> {"free", "jumping", "jumped"}]
      BY <1>1, <1>3 DEF TypeOK, Publish
    <3>4. reserved' \in BOOLEAN BY <1>1, <1>3 DEF TypeOK, Publish, ClientStores
    <3>5. UNCHANGED <<mem, read_ptr, ahead, issuedTo, laps, reuses, done, spuVars>>
      BY <1>3 DEF Publish
    <3>6. UNCHANGED <<pc, cur, copyWrite, wptr, rptr, fifo>> BY <3>5 DEF spuVars
    <3> QED BY <1>1, <3>1, <3>2, <3>3, <3>4, <3>5, <3>6 DEF TypeOK
  <2>2. \A p \in Queues : WordsInv(p)'
    <3>1. UNCHANGED <<mem, ahead>> BY <1>3 DEF Publish
    <3> QED BY <1>1, <3>1 DEF WordsInv
  <2> QED BY <1>3, <1>g, <2>1, <2>2 DEF TInv, Publish, spuVars
<1>4. CASE WriteJump(q)
  <2>1. /\ JumpHeader \in Word /\ Data(0) \in Word
        /\ ahead[q] + 2 <= EndWord
        /\ ahead' = [ahead EXCEPT ![q] = ahead[q] + 2]
        /\ mem' = [mem EXCEPT ![q] = [o \in 0 .. (EndWord - 1) |->
                     IF o = ahead[q] THEN JumpHeader
                     ELSE IF o = ahead[q] + 1 THEN Data(0) ELSE mem[q][o]]]
    BY <1>1, <1>4, JumpWords
  <2>2. TypeOK'
    <3>1. mem' \in [Queues -> [0 .. (EndWord - 1) -> Word]] BY <1>1, <2>1 DEF TypeOK
    <3>2. ahead' \in [Queues -> 0 .. EndWord]
      <4>1. ahead \in [Queues -> 0 .. EndWord] BY <1>1 DEF TypeOK
      <4>2. ahead[q] + 2 \in 0 .. EndWord BY <4>1, <2>1, <1>0
      <4> QED BY <4>1, <4>2, <2>1
    <3>3. client' \in [Queues -> {"free", "jumping", "jumped"}]
      BY <1>1, <1>4 DEF TypeOK, WriteJump
    <3>4. laps' \in 0 .. MaxLaps BY <1>0, <1>1, <1>4 DEF TypeOK, WriteJump
    <3> QED BY <1>1, <1>4, <3>1, <3>2, <3>3, <3>4 DEF TypeOK, WriteJump, spuVars
  <2>3. ASSUME NEW p \in Queues PROVE WordsInv(p)'
    <3>1. CASE p # q
      <4>1. mem'[p] = mem[p] /\ ahead'[p] = ahead[p] BY <2>1, <3>1, <1>1 DEF TypeOK
      <4> QED BY <4>1, <1>1 DEF WordsInv
    <3>2. CASE p = q
      <4> DEFINE a == ahead[q]
      <4>1. a \in 0 .. EndWord /\ a \in Nat BY <1>0, <1>1 DEF TypeOK
      <4>2. \A o \in 0 .. (EndWord - 1) : mem'[q][o] =
               IF o = a THEN JumpHeader ELSE IF o = a + 1 THEN Data(0) ELSE mem[q][o]
        BY <1>1, <2>1 DEF TypeOK
      <4>3. ahead'[q] = a + 2 BY <1>1, <2>1 DEF TypeOK
      <4>4. /\ JumpHeader.size = 1 /\ JumpHeader.kind = "jump"
            /\ Data(0).size = 0 /\ Data(0).kind = "data" /\ Data(0).id = 0
        BY DEF JumpHeader, Data
      <4>5. a + 2 <= EndWord BY <2>1
      <4> HIDE DEF a
      <4>6. ASSUME NEW o \in 0 .. (EndWord - 1)
            PROVE  mem'[q][o].size = 1 => o + 1 < EndWord
        BY <1>0, <1>1, <4>1, <4>2, <4>4, <4>5 DEF WordsInv
      <4>7. ASSUME NEW o \in 0 .. (EndWord - 1), mem'[q][o].kind = "jump"
            PROVE  mem'[q][o].size = 1 /\ mem'[q][o + 1].id = 0
        <5>1. CASE o = a
          <6>1. o + 1 \in 0 .. (EndWord - 1) /\ o + 1 = a + 1 /\ o + 1 # a
            BY <5>1, <4>1, <4>5, <1>0
          <6> QED BY <5>1, <6>1, <4>2, <4>4
        <5>2. CASE o # a
          <6>1. o # a + 1 /\ mem'[q][o] = mem[q][o] BY <5>2, <4>2, <4>4, <4>7
          <6>2. mem[q][o].size = 1 /\ mem[q][o + 1].id = 0 /\ o + 1 < EndWord
            BY <6>1, <4>7, <1>1 DEF WordsInv
          <6>3. o + 1 # a BY <6>1, <4>1, <4>7, <1>1, <1>0 DEF WordsInv, a
          <6>4. o + 1 # a + 1 BY <5>2, <4>1
          <6>5. mem'[q][o + 1] = mem[q][o + 1] BY <6>2, <6>3, <6>4, <4>2, <1>0
          <6> QED BY <6>1, <6>2, <6>5
        <5> QED BY <5>1, <5>2
      <4>8. mem'[q][ahead'[q] - 1].kind # "jump"
        <5>1. ahead'[q] - 1 = a + 1 /\ a + 1 \in 0 .. (EndWord - 1) /\ a + 1 # a
          BY <4>1, <4>3, <4>5, <1>0
        <5> QED BY <5>1, <4>2, <4>4
      <4> QED BY <3>2, <4>6, <4>7, <4>8 DEF WordsInv
    <3> QED BY <3>1, <3>2
  <2> QED BY <1>4, <1>g, <2>2, <2>3 DEF TInv, WriteJump, spuVars
<1>5. CASE SetTarget(q)
  <2>1. TypeOK'
    <3>1. write_ptr' \in [Queues -> 0 .. EndWord] /\ ahead' \in [Queues -> 0 .. EndWord]
      <4>1. 0 \in 0 .. EndWord BY <1>0
      <4> QED BY <4>1, <1>1, <1>5 DEF TypeOK, SetTarget, ClientStores
    <3>2. client' \in [Queues -> {"free", "jumping", "jumped"}]
      BY <1>1, <1>5 DEF TypeOK, SetTarget
    <3>3. reserved' \in BOOLEAN BY <1>1, <1>5 DEF TypeOK, SetTarget, ClientStores
    <3>4. UNCHANGED <<mem, read_ptr, pend, issuedTo, laps, reuses, sent, done, spuVars>>
      BY <1>5 DEF SetTarget
    <3>5. UNCHANGED <<pc, cur, copyWrite, wptr, rptr, fifo>> BY <3>4 DEF spuVars
    <3> QED BY <1>1, <3>1, <3>2, <3>3, <3>4, <3>5 DEF TypeOK
  <2>2. ASSUME NEW p \in Queues PROVE WordsInv(p)'
    <3>1. mem' = mem /\ (ahead'[p] = ahead[p] \/ ahead'[p] = 0)
      BY <1>1, <1>5 DEF SetTarget, TypeOK
    <3> QED BY <3>1, <1>1 DEF WordsInv
  <2> QED BY <1>5, <1>g, <2>1, <2>2 DEF TInv, SetTarget, spuVars
<1>6. CASE Recreate(q)
  <2>0. DOMAIN mem[q] = 0 .. (EndWord - 1) BY <1>1 DEF TypeOK
  <2>1. mem' = [mem EXCEPT ![q] = [o \in 0 .. (EndWord - 1) |-> Blank]]
    BY <1>6, <2>0 DEF Recreate
  <2>2. TypeOK'
    <3>1. /\ write_ptr' \in [Queues -> 0 .. EndWord] /\ ahead' \in [Queues -> 0 .. EndWord]
          /\ read_ptr' \in [Queues -> 0 .. EndWord]
      <4>1. 0 \in 0 .. EndWord BY <1>0
      <4> QED BY <4>1, <1>1, <1>6 DEF TypeOK, Recreate, ClientStores
    <3>2. mem' \in [Queues -> [0 .. (EndWord - 1) -> Word]]
      BY <1>1, <2>1, BlankIsWord DEF TypeOK
    <3>3. /\ sent' \in [Queues -> Seq(Commands)] /\ pend' \in [Queues -> Seq(Commands)]
          /\ done' \in [Queues -> Seq(0 .. MaxCommands)]
      <4>1. <<>> \in Seq(Commands) /\ <<>> \in Seq(0 .. MaxCommands) OBVIOUS
      <4> QED BY <4>1, <1>1, <1>6 DEF TypeOK, Recreate
    <3>4. reuses' \in 0 .. MaxReuse BY <1>0, <1>1, <1>6 DEF TypeOK, Recreate
    <3>5. reserved' \in BOOLEAN BY <1>1, <1>6 DEF TypeOK, Recreate, ClientStores
    <3>6. UNCHANGED <<client, issuedTo, laps, spuVars>> BY <1>6 DEF Recreate
    <3>7. UNCHANGED <<pc, cur, copyWrite, wptr, rptr, fifo>> BY <3>6 DEF spuVars
    <3> QED BY <1>1, <3>1, <3>2, <3>3, <3>4, <3>5, <3>6, <3>7 DEF TypeOK
  <2>3. ASSUME NEW p \in Queues PROVE WordsInv(p)'
    <3>1. CASE p # q
      <4>1. mem'[p] = mem[p] /\ ahead'[p] = ahead[p]
        BY <1>6, <2>1, <3>1, <1>1 DEF TypeOK, Recreate
      <4> QED BY <4>1, <1>1 DEF WordsInv
    <3>2. CASE p = q
      <4>1. ahead'[q] = 0 /\ \A o \in 0 .. (EndWord - 1) : mem'[q][o] = Blank
        BY <1>6, <2>1, <1>1 DEF TypeOK, Recreate
      <4> QED BY <3>2, <4>1, <1>0, BlankIsWord DEF WordsInv
    <3> QED BY <3>1, <3>2
  <2> QED BY <1>6, <1>g, <2>2, <2>3 DEF TInv, Recreate, spuVars
<1> QED BY <1>2, <1>3, <1>4, <1>5, <1>6 DEF Client

\* What the SPU has cached lies in the window.
LEMMA CachedFacts ==
  ASSUME TInv, Cached
  PROVE  /\ fifo.ea = cur
         /\ rptr - fifo.ofs \in 0 .. (FifoWords - 1)
         /\ rptr - fifo.ofs < fifo.len
         /\ Current \in Word
         /\ Current.size \in 0 .. 1
         /\ Current.size = 1 => /\ rptr + 1 - fifo.ofs \in 0 .. (FifoWords - 1)
                                /\ rptr + 1 - fifo.ofs < fifo.len
                                /\ rptr + 1 < EndWord
<1>0. EndWord \in Nat /\ FifoWords \in Nat BY FifoAssumption
<1>1. /\ rptr \in Nat /\ fifo.ofs \in Nat /\ fifo.len \in 0 .. FifoWords
      /\ fifo.area \in [0 .. (FifoWords - 1) -> Word]
  BY <1>0 DEF TInv, TypeOK
<1>2. rptr - fifo.ofs \in 0 .. (FifoWords - 1) /\ rptr - fifo.ofs < fifo.len
  BY <1>0, <1>1 DEF Cached, Upto
<1>3. Current \in Word BY <1>1, <1>2 DEF Current
<1>4. Current.size \in 0 .. 1 BY <1>3 DEF Word
<1>5. ASSUME Current.size = 1
      PROVE  /\ rptr + 1 - fifo.ofs \in 0 .. (FifoWords - 1)
             /\ rptr + 1 - fifo.ofs < fifo.len
             /\ rptr + 1 < EndWord
  <2>1. fifo.ofs + fifo.len >= rptr + 1 + 1 BY <1>5 DEF Cached, Upto
  <2>2. fifo.ofs + (rptr - fifo.ofs) + 1 < EndWord
    BY <1>2, <1>5 DEF TInv, WindowInv, Current
  <2>3. PICK r, o, n \in Nat : r = rptr /\ o = fifo.ofs /\ n = fifo.len
    BY <1>0, <1>1
  <2>4. n <= FifoWords /\ r >= o BY <1>0, <1>1, <1>2, <2>3
  <2> QED BY <1>0, <2>1, <2>2, <2>3, <2>4
<1> QED BY <1>2, <1>3, <1>4, <1>5 DEF Cached

\* A fetched window.
LEMMA FetchFacts ==
  ASSUME TInv, Fetch
  PROVE  /\ fifo'.ea = cur
         /\ fifo'.ofs = LineOf(rptr) /\ fifo'.ofs \in 0 .. rptr
         /\ fifo'.len = FetchLength(fifo'.ofs) /\ fifo'.len \in 0 .. FifoWords
         /\ fifo'.area \in [0 .. (FifoWords - 1) -> Word]
         /\ \A i \in 0 .. (FifoWords - 1) :
              fifo'.area[i] = IF i < RoundUp(fifo'.len) /\ fifo'.ofs + i < EndWord
                              THEN mem[cur][fifo'.ofs + i] ELSE Blank
         /\ fifo' \in [ea : Queues \cup {NoQueue}, ofs : 0 .. EndWord, len : 0 .. FifoWords,
                       area : [0 .. (FifoWords - 1) -> Word]]
<1> DEFINE ofs == LineOf(rptr)
           len == FetchLength(ofs)
           word(i) == IF i < RoundUp(len) /\ ofs + i < EndWord THEN mem[cur][ofs + i] ELSE Blank
<1>0. EndWord \in Nat /\ FifoWords \in Nat /\ FifoWords > 0 BY FifoAssumption
<1>1. rptr \in 0 .. EndWord /\ wptr \in 0 .. EndWord /\ rptr \in Nat /\ wptr \in Nat /\ cur \in Queues
  BY <1>0 DEF TInv, TypeOK
<1>2. ofs \in 0 .. rptr BY <1>1, LineOfIs
<1>3. fifo' = [ea |-> cur, ofs |-> ofs, len |-> len,
               area |-> [i \in 0 .. (FifoWords - 1) |-> word(i)]]
  BY DEF Fetch
<1>4. len \in 0 .. FifoWords
  <2> HIDE DEF ofs
  <2> QED BY <1>0, <1>1, <1>2 DEF FetchLength, Fetch
<1>5. ASSUME NEW i \in 0 .. (FifoWords - 1) PROVE word(i) \in Word
  <2>1. CASE i < RoundUp(len) /\ ofs + i < EndWord
    <3>1. ofs + i \in 0 .. (EndWord - 1) BY <1>0, <1>1, <1>2, <2>1
    <3>2. word(i) = mem[cur][ofs + i] BY <2>1
    <3> HIDE DEF ofs, word
    <3>3. mem[cur] \in [0 .. (EndWord - 1) -> Word] BY <1>1 DEF TInv, TypeOK
    <3> QED BY <3>1, <3>2, <3>3
  <2>2. CASE ~(i < RoundUp(len) /\ ofs + i < EndWord) BY <2>2, BlankIsWord
  <2> QED BY <2>1, <2>2
<1>6. ofs \in 0 .. EndWord BY <1>0, <1>1, <1>2
<1> HIDE DEF ofs, len, word
<1>7. [i \in 0 .. (FifoWords - 1) |-> word(i)] \in [0 .. (FifoWords - 1) -> Word]
  BY <1>5
<1>8. /\ fifo'.ea = cur /\ fifo'.ofs = ofs /\ fifo'.len = len
      /\ fifo'.area = [i \in 0 .. (FifoWords - 1) |-> word(i)]
  BY <1>3
<1>9. \A i \in 0 .. (FifoWords - 1) : fifo'.area[i] = word(i) BY <1>8
<1>10. fifo' \in [ea : Queues \cup {NoQueue}, ofs : 0 .. EndWord, len : 0 .. FifoWords,
                  area : [0 .. (FifoWords - 1) -> Word]]
  BY <1>1, <1>3, <1>4, <1>6, <1>7
<1> QED BY <1>2, <1>4, <1>7, <1>8, <1>9, <1>10 DEF ofs, len, word

LEMMA SpuTypes ==
  ASSUME TInv, SPU
  PROVE  TInv'
<1>0. EndWord \in Nat /\ EndWord > 0 /\ FifoWords \in Nat /\ FifoWords > 0 /\ MaxCommands \in Nat
  BY FifoAssumption
<1>1. TypeOK /\ WindowInv /\ \A q \in Queues : WordsInv(q) BY DEF TInv
<1>g. ASSUME UNCHANGED fifo PROVE WindowInv' BY <1>1, <1>g DEF WindowInv
<1>h. ASSUME UNCHANGED <<mem, ahead>> PROVE \A q \in Queues : WordsInv(q)'
  BY <1>1, <1>h DEF WordsInv
<1>2. ASSUME NEW q \in Queues, Visit(q) PROVE TInv'
  <2>1. {copyWrite', wptr', rptr'} \subseteq 0 .. EndWord
    <3>1. write_ptr[q] \in 0 .. EndWord /\ read_ptr[q] \in 0 .. EndWord BY <1>1 DEF TypeOK
    <3> QED BY <1>2, <3>1 DEF Visit
  <2>2. TypeOK' BY <1>1, <1>2, <2>1 DEF TypeOK, Visit, clientVars
  <2> QED BY <1>2, <1>g, <1>h, <2>2 DEF TInv, Visit, clientVars
<1>3. CASE Leave
  <2>1. TypeOK' BY <1>1, <1>3 DEF TypeOK, Leave, clientVars
  <2> QED BY <1>3, <1>g, <1>h, <2>1 DEF TInv, Leave, clientVars
<1>4. CASE Fetch
  <2>1. TypeOK' BY <1>1, <1>4, FetchFacts DEF TypeOK, Fetch, clientVars
  <2>2. ASSUME NEW i \in 0 .. (FifoWords - 1)
        PROVE  /\ fifo'.area[i].size = 1 => fifo'.ofs + i + 1 < EndWord
               /\ fifo'.area[i].kind = "jump" =>
                    /\ fifo'.area[i].size = 1
                    /\ i + 1 < FifoWords => fifo'.area[i + 1].id = 0
    <3>1. CASE i < RoundUp(fifo'.len) /\ fifo'.ofs + i < EndWord
      <4> DEFINE o == fifo'.ofs + i
      <4>1. fifo'.area[i] = mem[cur][o] BY <1>4, <3>1, FetchFacts
      <4>2. o \in 0 .. (EndWord - 1) /\ cur \in Queues
        <5>1. fifo'.ofs \in Nat BY <1>0, <1>1, <1>4, FetchFacts DEF TypeOK
        <5>2. PICK n \in Nat : n = fifo'.ofs BY <5>1
        <5>3. cur \in Queues BY <1>1 DEF TypeOK
        <5> QED BY <1>0, <3>1, <5>2, <5>3
      <4>3. ASSUME i + 1 < FifoWords, mem[cur][o].kind = "jump" PROVE fifo'.area[i + 1].id = 0
        <5>1. mem[cur][o + 1].id = 0 BY <1>1, <4>2, <4>3 DEF WordsInv
        <5>2. i + 1 \in 0 .. (FifoWords - 1) /\ fifo'.ofs + (i + 1) = o + 1
          <6>1. fifo'.ofs \in Nat BY <1>0, <1>1, <1>4, FetchFacts DEF TypeOK
          <6> QED BY <1>0, <4>3, <6>1
        <5> HIDE DEF o
        <5> QED BY <1>4, <5>1, <5>2, FetchFacts, BlankIsWord
      <4> HIDE DEF o
      <4>4. mem[cur][o].size = 1 => o + 1 < EndWord BY <1>1, <4>2 DEF WordsInv
      <4>5. mem[cur][o].kind = "jump" => mem[cur][o].size = 1 BY <1>1, <4>2 DEF WordsInv
      <4> QED BY <4>1, <4>3, <4>4, <4>5 DEF o
    <3>2. CASE ~(i < RoundUp(fifo'.len) /\ fifo'.ofs + i < EndWord)
      <4>1. fifo'.area[i] = Blank BY <1>4, <3>2, FetchFacts
      <4> QED BY <4>1, BlankIsWord
    <3> QED BY <3>1, <3>2
  <2>3. WindowInv' BY <2>2 DEF WindowInv
  <2> QED BY <1>4, <1>h, <2>1, <2>3 DEF TInv, Fetch, clientVars
<1>5. CASE Execute
  <2>1. Cached BY <1>5 DEF Execute
  <2>2. rptr' \in 0 .. EndWord
    <3>1. rptr \in Nat /\ rptr < EndWord /\ rptr' = rptr + 1 + Current.size
      BY <1>0, <1>1, <1>5 DEF TypeOK, Execute
    <3> QED BY <1>0, <2>1, <3>1, CachedFacts
  <2>3. Identity \in 0 .. MaxCommands
    <3>1. Current.id \in 0 .. MaxCommands BY <2>1, CachedFacts DEF Word
    <3> QED BY <1>0, <3>1 DEF Identity
  <2>4. done' \in [Queues -> Seq(0 .. MaxCommands)]
    BY <1>1, <1>5, <2>3 DEF TypeOK, Execute
  <2>5. TypeOK' BY <1>1, <1>5, <2>2, <2>4 DEF TypeOK, Execute, clientVars
  <2> QED BY <1>5, <1>g, <1>h, <2>5 DEF TInv, Execute, clientVars
<1>6. CASE Busy
  <2>1. TypeOK' BY <1>1, <1>6 DEF TypeOK, Busy, clientVars
  <2> QED BY <1>6, <1>g, <1>h, <2>1 DEF TInv, Busy, clientVars
<1>7. CASE TakeJump
  <2>1. Cached /\ Current.kind = "jump" BY <1>7 DEF TakeJump
  <2>2. rptr' = 0
    <3> DEFINE i == rptr - fifo.ofs
    <3>1. i \in 0 .. (FifoWords - 1) /\ rptr \in Nat /\ fifo.ofs \in Nat
      BY <1>0, <1>1, <2>1, CachedFacts DEF TypeOK
    <3>2. Current.size = 1 BY <1>1, <2>1, <3>1 DEF WindowInv, Current
    <3>3. rptr + 1 - fifo.ofs = i + 1 /\ i + 1 < FifoWords
      BY <1>0, <2>1, <3>1, <3>2, CachedFacts
    <3>4. fifo.area[i + 1].id = 0 BY <1>1, <2>1, <3>1, <3>3 DEF WindowInv, Current
    <3> QED BY <1>7, <3>3, <3>4 DEF TakeJump
  <2>3. fifo' = [fifo EXCEPT !.ea = NoQueue] BY <1>7 DEF TakeJump
  <2>4. fifo' \in [ea : Queues \cup {NoQueue}, ofs : 0 .. EndWord, len : 0 .. FifoWords,
                   area : [0 .. (FifoWords - 1) -> Word]]
    BY <1>1, <2>3 DEF TypeOK
  <2>5. 0 \in 0 .. EndWord BY <1>0
  <2>6. TypeOK' BY <1>1, <1>7, <2>2, <2>4, <2>5 DEF TypeOK, TakeJump, clientVars
  <2>7. fifo'.ofs = fifo.ofs /\ fifo'.area = fifo.area BY <1>1, <2>3 DEF TypeOK
  <2>8. WindowInv' BY <1>1, <2>7 DEF WindowInv
  <2> QED BY <1>7, <1>h, <2>6, <2>8 DEF TInv, TakeJump, clientVars
<1>8. CASE Store
  <2>1. /\ write_ptr' \in [Queues -> 0 .. EndWord] /\ read_ptr' \in [Queues -> 0 .. EndWord]
        /\ reserved' \in BOOLEAN
    BY <1>1, <1>8 DEF TypeOK, Store, PutLine
  <2>2. pc' \in {"idle", "loop", "store", "jump"} /\ wptr' \in 0 .. EndWord
    BY <1>1, <1>8 DEF TypeOK, Store
  <2>3. TypeOK' BY <1>1, <1>8, <2>1, <2>2 DEF TypeOK, Store, clientVars
  <2> QED BY <1>8, <1>g, <1>h, <2>3 DEF TInv, Store, clientVars
<1>9. CASE Reload
  <2>1. copyWrite' \in 0 .. EndWord BY <1>1, <1>9 DEF TypeOK, Reload
  <2>2. TypeOK' BY <1>1, <1>9, <2>1 DEF TypeOK, Reload, clientVars
  <2> QED BY <1>9, <1>g, <1>h, <2>2 DEF TInv, Reload, clientVars
<1>10. CASE LoseReservation
  <2>1. TypeOK' BY <1>1, <1>10 DEF TypeOK, LoseReservation, clientVars, spuVars
  <2> QED BY <1>10, <1>g, <1>h, <2>1 DEF TInv, LoseReservation, clientVars, spuVars
<1> QED BY <1>2, <1>3, <1>4, <1>5, <1>6, <1>7, <1>8, <1>9, <1>10 DEF SPU, Work

LEMMA TypesInvariance == Spec => []TInv
<1>1. TInv /\ UNCHANGED vars => TInv'
  <2> SUFFICES ASSUME TInv, UNCHANGED vars PROVE TInv'
    OBVIOUS
  <2>1. TypeOK' BY DEF vars, clientVars, spuVars, TInv, TypeOK
  <2>2. (\A q \in Queues : WordsInv(q))' BY DEF vars, clientVars, TInv, WordsInv
  <2>3. WindowInv' BY DEF vars, spuVars, TInv, WindowInv
  <2> QED BY <2>1, <2>2, <2>3 DEF TInv
<1>2. TInv /\ [Next]_vars => TInv'
  BY <1>1, ClientTypes, SpuTypes DEF Next
<1> QED BY <1>2, TypesInit, PTL DEF Spec

\* Offsets stay within the queue and the window, for every size of them: neither an
\* instruction with data nor a jump can lead the SPU behind the end of a queue
\* (server/primaryspu/main.c:108-128).
THEOREM TypeCorrect == Spec => []TypeOK
<1>1. TInv => TypeOK BY DEF TInv
<1> QED BY <1>1, TypesInvariance, PTL

-----------------------------------------------------------------------------
(* Whose instructions the words are.                                        *)

Own(c, q) == c # 0 => c \in 1 .. Len(issuedTo) /\ issuedTo[c] = q

OwnInv ==
  /\ \A q \in Queues, o \in 0 .. (EndWord - 1) : Own(mem[q][o].id, q)
  /\ \A q \in Queues : fifo.ea = q => \A i \in 0 .. (FifoWords - 1) : Own(fifo.area[i].id, q)
  /\ \A q \in Queues, k \in Nat : k \in 1 .. Len(done[q]) => Own(done[q][k], q)

LEMMA OwnInit == Init => OwnInv
  BY FifoAssumption, BlankIsWord DEF Init, OwnInv, Own

\* What was written stays where it was written to.
LEMMA OwnStays ==
  ASSUME TInv, NEW c, NEW q \in Queues, Own(c, q),
         \/ issuedTo' = issuedTo
         \/ \E p \in Queues : issuedTo' = Append(issuedTo, p)
  PROVE  Own(c, q)'
<1>1. issuedTo \in Seq(Queues) BY DEF TInv, TypeOK
<1>2. ASSUME NEW p \in Queues, issuedTo' = Append(issuedTo, p) PROVE Own(c, q)'
  <2>1. Len(issuedTo') = Len(issuedTo) + 1 /\ Len(issuedTo) \in Nat BY <1>1, <1>2
  <2>2. \A k \in 1 .. Len(issuedTo) : issuedTo'[k] = issuedTo[k] BY <1>1, <1>2
  <2> QED BY <2>1, <2>2 DEF Own
<1>3. CASE issuedTo' = issuedTo BY <1>3 DEF Own
<1> QED BY <1>2, <1>3

LEMMA OwnStep ==
  ASSUME TInv, TInv', OwnInv, [Next]_vars
  PROVE  OwnInv'
<1>0. EndWord \in Nat /\ FifoWords \in Nat BY FifoAssumption
<1>1. TypeOK BY DEF TInv
<1>2. ASSUME UNCHANGED <<mem, fifo, done, issuedTo>> PROVE OwnInv'
  BY <1>2 DEF OwnInv, Own
<1>3. ASSUME NEW q \in Queues, NEW s \in 0 .. 1, WriteCommand(q, s) PROVE OwnInv'
  <2> DEFINE c == Len(issuedTo) + 1
  <2>1. /\ mem' = [mem EXCEPT ![q] = [o \in 0 .. (EndWord - 1) |->
                     IF o = ahead[q] THEN Header(c, s)
                     ELSE IF s = 1 /\ o = ahead[q] + 1 THEN Data(c) ELSE mem[q][o]]]
    BY <1>1, <1>3, CommandWords
  <2>2. issuedTo' = Append(issuedTo, q) /\ fifo' = fifo /\ done' = done
    BY <1>3 DEF WriteCommand, spuVars
  <2>3. Header(c, s).id = c /\ Data(c).id = c BY DEF Header, Data
  <2>4. PICK b : b = c /\ Own(b, q)'
    <3>1. issuedTo \in Seq(Queues) BY <1>1 DEF TypeOK
    <3>2. PICK b : b = c OBVIOUS
    <3>3. Len(issuedTo') = b /\ b \in Nat /\ b >= 1 /\ issuedTo'[b] = q BY <2>2, <3>1, <3>2
    <3>4. Own(b, q)' BY <3>3 DEF Own
    <3> QED BY <3>2, <3>4
  <2>5. ASSUME NEW p \in Queues, NEW d, Own(d, p) PROVE Own(d, p)'
    BY <2>2, <2>5, OwnStays
  <2> HIDE DEF c
  <2>6. ASSUME NEW p \in Queues, NEW o \in 0 .. (EndWord - 1) PROVE Own(mem[p][o].id, p)'
    <3>1. Own(mem[p][o].id, p) BY DEF OwnInv
    <3>2. PICK d : d = mem[p][o].id OBVIOUS
    <3>3. PICK e : e = mem'[p][o].id OBVIOUS
    <3>4. e = d \/ (p = q /\ e = b)
      <4>1. CASE p # q BY <1>1, <2>1, <3>2, <3>3, <4>1 DEF TypeOK
      <4>2. CASE p = q
        <5>1. mem'[q][o] = IF o = ahead[q] THEN Header(c, s)
                           ELSE IF s = 1 /\ o = ahead[q] + 1 THEN Data(c) ELSE mem[q][o]
          BY <1>1, <2>1 DEF TypeOK
        <5> QED BY <2>3, <2>4, <3>2, <3>3, <4>2, <5>1
      <4> QED BY <4>1, <4>2
    <3>5. Own(d, p)' BY <2>5, <3>1, <3>2
    <3>6. Own(e, p)' BY <2>4, <3>4, <3>5
    <3> QED BY <3>3, <3>6 DEF Own
  <2>7. ASSUME NEW p \in Queues, fifo.ea = p, NEW i \in 0 .. (FifoWords - 1)
        PROVE  Own(fifo.area[i].id, p)'
    <3>1. PICK d : d = fifo.area[i].id OBVIOUS
    <3>2. Own(d, p) BY <2>7, <3>1 DEF OwnInv
    <3> QED BY <2>2, <2>5, <3>1, <3>2 DEF Own
  <2>8. ASSUME NEW p \in Queues, NEW k \in Nat, k \in 1 .. Len(done[p])
        PROVE  Own(done[p][k], p)'
    <3>1. PICK d : d = done[p][k] OBVIOUS
    <3>2. Own(d, p) BY <2>8, <3>1 DEF OwnInv
    <3> QED BY <2>2, <2>5, <3>1, <3>2 DEF Own
  <2> QED BY <2>2, <2>6, <2>7, <2>8 DEF OwnInv
<1>4. ASSUME NEW q \in Queues, WriteJump(q) PROVE OwnInv'
  <2>1. mem' = [mem EXCEPT ![q] = [o \in 0 .. (EndWord - 1) |->
                   IF o = ahead[q] THEN JumpHeader
                   ELSE IF o = ahead[q] + 1 THEN Data(0) ELSE mem[q][o]]]
    BY <1>1, <1>4, JumpWords
  <2>2. issuedTo' = issuedTo /\ fifo' = fifo /\ done' = done BY <1>4 DEF WriteJump, spuVars
  <2>3. JumpHeader.id = 0 /\ Data(0).id = 0 BY DEF JumpHeader, Data
  <2>4. ASSUME NEW p \in Queues, NEW o \in 0 .. (EndWord - 1)
        PROVE  mem'[p][o].id \in {mem[p][o].id, 0}
    <3>1. CASE p # q BY <1>1, <2>1, <3>1 DEF TypeOK
    <3>2. CASE p = q
      <4>1. mem'[q][o] = IF o = ahead[q] THEN JumpHeader
                         ELSE IF o = ahead[q] + 1 THEN Data(0) ELSE mem[q][o]
        BY <1>1, <2>1 DEF TypeOK
      <4> QED BY <2>3, <3>2, <4>1
    <3> QED BY <3>1, <3>2
  <2> QED BY <2>2, <2>4 DEF OwnInv, Own
<1>5. ASSUME NEW q \in Queues, Recreate(q) PROVE OwnInv'
  <2>1. \A p \in Queues, o \in 0 .. (EndWord - 1) : mem'[p][o] \in {mem[p][o], Blank}
    BY <1>1, <1>5 DEF TypeOK, Recreate
  <2>2. \A p \in Queues : done'[p] \in {done[p], <<>>} BY <1>1, <1>5 DEF TypeOK, Recreate
  <2>3. issuedTo' = issuedTo /\ fifo' = fifo BY <1>5 DEF Recreate, spuVars
  <2>4. Len(<<>>) = 0 OBVIOUS
  <2>5. \A p \in Queues, o \in 0 .. (EndWord - 1) : Own(mem[p][o].id, p)' 
    <3> SUFFICES ASSUME NEW p \in Queues, NEW o \in 0 .. (EndWord - 1)
                 PROVE  Own(mem[p][o].id, p)'
      OBVIOUS
    <3>1. Own(mem[p][o].id, p) BY DEF OwnInv
    <3> QED BY <2>1, <2>3, <3>1, BlankIsWord DEF Own
  <2>6. ASSUME NEW p \in Queues, NEW k \in Nat, k \in 1 .. Len(done'[p])
        PROVE  Own(done[p][k], p)'
    <3>1. done'[p] = done[p] BY <2>2, <2>4, <2>6
    <3>2. Own(done[p][k], p) BY <2>6, <3>1 DEF OwnInv
    <3> QED BY <2>3, <3>1, <3>2 DEF Own
  <2>7. (\A p \in Queues : fifo.ea = p => \A i \in 0 .. (FifoWords - 1) : Own(fifo.area[i].id, p))'
    BY <2>3 DEF OwnInv, Own
  <2> QED BY <2>5, <2>6, <2>7 DEF OwnInv
<1>6. CASE Fetch
  <2>1. UNCHANGED <<mem, done, issuedTo>> BY <1>6 DEF Fetch, clientVars
  <2>2. cur \in Queues /\ rptr \in Nat BY <1>0, <1>1 DEF TypeOK
  <2>3. ASSUME NEW i \in 0 .. (FifoWords - 1) PROVE Own(fifo'.area[i].id, cur)
    <3>1. CASE i < RoundUp(fifo'.len) /\ fifo'.ofs + i < EndWord
      <4>1. fifo'.area[i] = mem[cur][fifo'.ofs + i] BY <1>6, <3>1, FetchFacts
      <4>2. PICK n \in Nat : n = fifo'.ofs BY <1>6, <2>2, FetchFacts
      <4>3. fifo'.ofs + i \in 0 .. (EndWord - 1) BY <1>0, <3>1, <4>2
      <4> QED BY <2>2, <4>1, <4>3 DEF OwnInv
    <3>2. CASE ~(i < RoundUp(fifo'.len) /\ fifo'.ofs + i < EndWord)
      <4>1. fifo'.area[i] = Blank BY <1>6, <3>2, FetchFacts
      <4> QED BY <4>1, BlankIsWord DEF Own
    <3> QED BY <3>1, <3>2
  <2>4. fifo'.ea = cur BY <1>6, FetchFacts
  <2> QED BY <2>1, <2>3, <2>4 DEF OwnInv, Own
<1>7. CASE Execute
  <2>1. UNCHANGED <<mem, fifo, issuedTo>> BY <1>7 DEF Execute, clientVars
  <2>2. Cached /\ cur \in Queues BY <1>1, <1>7 DEF TypeOK, Execute
  <2>3. Own(Identity, cur)
    <3>1. Own(Current.id, cur) BY <2>2, CachedFacts DEF OwnInv, Current
    <3> QED BY <3>1 DEF Own, Identity
  <2>4. PICK e : e = Identity OBVIOUS
  <2>5. done' = [done EXCEPT ![cur] = Append(done[cur], e)] BY <1>7, <2>4 DEF Execute
  <2>6. ASSUME NEW p \in Queues, NEW k \in Nat, k \in 1 .. Len(done'[p])
        PROVE  Own(done'[p][k], p)
    <3>1. CASE p # cur
      <4>1. done'[p] = done[p] BY <1>1, <2>5, <3>1 DEF TypeOK
      <4> QED BY <2>6, <4>1 DEF OwnInv
    <3>2. CASE p = cur
      <4>1. done[p] \in Seq(0 .. MaxCommands) BY <1>1 DEF TypeOK
      <4>2. done'[p] = Append(done[p], e) BY <1>1, <2>5, <3>2 DEF TypeOK
      <4>3. (k \in 1 .. Len(done[p]) /\ done'[p][k] = done[p][k]) \/ done'[p][k] = e
        BY <2>6, <4>1, <4>2
      <4> QED BY <2>3, <2>4, <3>2, <4>3 DEF OwnInv
    <3> QED BY <3>1, <3>2
  <2> QED BY <2>1, <2>6 DEF OwnInv, Own
<1>8. CASE TakeJump
  <2>1. UNCHANGED <<mem, done, issuedTo>> BY <1>8 DEF TakeJump, clientVars
  <2>2. fifo' = [fifo EXCEPT !.ea = NoQueue] BY <1>8 DEF TakeJump
  <2>3. fifo'.ea = NoQueue /\ NoQueue \notin Queues BY <1>1, <2>2, FifoAssumption DEF TypeOK
  <2> QED BY <2>1, <2>3 DEF OwnInv, Own
<1>9. ASSUME NEW q \in Queues, Publish(q) \/ SetTarget(q) PROVE OwnInv'
  BY <1>2, <1>9 DEF Publish, SetTarget, spuVars
<1>10. ASSUME NEW q \in Queues, Visit(q) PROVE OwnInv'
  BY <1>2, <1>10 DEF Visit, clientVars
<1>11. CASE Leave \/ Busy BY <1>2, <1>11 DEF Leave, Busy, clientVars
<1>12. CASE Store \/ Reload BY <1>2, <1>12 DEF Store, Reload, clientVars
<1>13. CASE LoseReservation BY <1>2, <1>13 DEF LoseReservation, clientVars, spuVars
<1>14. CASE UNCHANGED vars BY <1>2, <1>14 DEF vars, clientVars, spuVars
<1> QED
  BY <1>3, <1>4, <1>5, <1>6, <1>7, <1>8, <1>9, <1>10, <1>11, <1>12, <1>13, <1>14
     DEF Next, Client, SPU, Work

\* With clients that return to the start of their buffers and queues that are freed and
\* allocated anew: the one window, recognised by an address, never serves a queue the
\* instructions of another one (server/primaryspu/main.c:90, 117).
THEOREM WindowIsOwn == Spec => []QueueExecutesItsOwn
<1>1. OwnInv /\ TInv => QueueExecutesItsOwn
  <2> SUFFICES ASSUME OwnInv, TInv, NEW q \in Queues, NEW c \in ToSet(done[q]), c # 0
               PROVE  issuedTo[c] = q
    BY DEF QueueExecutesItsOwn
  <2>1. done[q] \in Seq(0 .. MaxCommands) BY DEF TInv, TypeOK
  <2>2. PICK k \in 1 .. Len(done[q]) : c = done[q][k] BY <2>1 DEF ToSet
  <2>3. k \in Nat BY <2>1, <2>2
  <2> QED BY <2>2, <2>3 DEF OwnInv, Own
<1> QED BY <1>1, OwnInit, OwnStep, TypesInvariance, PTL DEF Spec

-----------------------------------------------------------------------------
(* Until a client jumps back or a queue is allocated anew, what is published *)
(* is executed.                                                              *)

\* The instructions written to a queue.
Of(q) == sent[q] \o pend[q]

\* What the SPU will take next, stored or not.
Position(q) == IF cur = q /\ pc \in {"loop", "store"} THEN rptr ELSE read_ptr[q]

\* Words m are n instructions one behind the other, the k-th at at[k], up to end.
LaidOut(n, instructions, m, at, end) ==
  /\ \A k \in 1 .. n :
       /\ m[at[k]].kind = "command"
       /\ m[at[k]].id = instructions[k]
       /\ m[at[k]].size = 1 => m[at[k] + 1] = Data(instructions[k])
       /\ at[k + 1] = at[k] + 1 + m[at[k]].size
  /\ \A j, k \in 1 .. (n + 1) : j < k => at[j] < at[k]
  /\ at[n + 1] = end

\* So are the words of a queue, and the pointers are where the sequences end.
Lies(q, at) ==
  /\ LaidOut(Len(Of(q)), Of(q), mem[q], at, ahead[q])
  /\ at[Len(sent[q]) + 1] = write_ptr[q]
  /\ at[Len(done[q]) + 1] = Position(q)
  /\ pc = "store" /\ cur = q => Len(done[q]) > 0 /\ at[Len(done[q])] = read_ptr[q]

StreamInv(q) ==
  /\ client[q] = "free"
  /\ Len(done[q]) <= Len(sent[q])
  /\ \A k \in 1 .. Len(done[q]) : done[q][k] = sent[q][k]
  /\ \E at \in [Nat -> Nat] : Lies(q, at)

\* The SPU keeps up to the write pointer it has seen, and its window holds what
\* has been published.
SpuInv ==
  /\ pc # "jump"
  /\ pc = "loop" => rptr = read_ptr[cur] /\ rptr <= wptr /\ wptr <= write_ptr[cur]
  /\ fifo.ea \in Queues =>
       /\ fifo.ofs + fifo.len <= write_ptr[fifo.ea]
       /\ \A k \in 0 .. (FifoWords - 1) :
            k < fifo.len => fifo.area[k] = mem[fifo.ea][fifo.ofs + k]

LInv ==
  /\ TInv
  /\ ReservationInv
  /\ SpuInv
  /\ \A q \in Queues : StreamInv(q)

LEMMA Naturals1 ==
  /\ EndWord \in Nat /\ EndWord > 0 /\ FifoWords \in Nat /\ FifoWords > 0
  /\ LineWords \in Nat /\ LineWords > 0 /\ MaxCommands \in Nat
  BY FifoAssumption

LEMMA Elements ==
  ASSUME NEW S, NEW t \in Seq(S)
  PROVE  Len(t) \in Nat /\ \A k \in 1 .. Len(t) : t[k] \in S
OBVIOUS

LEMMA Concatenated ==
  ASSUME NEW S, NEW t \in Seq(S), NEW u \in Seq(S)
  PROVE  /\ t \o u \in Seq(S)
         /\ Len(t \o u) = Len(t) + Len(u)
         /\ \A k \in 1 .. Len(t) : (t \o u)[k] = t[k]
         /\ \A k \in 1 .. Len(u) : (t \o u)[Len(t) + k] = u[k]
OBVIOUS

LEMMA QueueTypes ==
  ASSUME TInv, NEW q \in Queues
  PROVE  /\ sent[q] \in Seq(Commands) /\ pend[q] \in Seq(Commands)
         /\ done[q] \in Seq(0 .. MaxCommands)
         /\ Of(q) \in Seq(Commands) /\ Len(Of(q)) = Len(sent[q]) + Len(pend[q])
         /\ Len(sent[q]) \in Nat /\ Len(pend[q]) \in Nat /\ Len(done[q]) \in Nat
         /\ ahead[q] \in 0 .. EndWord /\ write_ptr[q] \in 0 .. EndWord
         /\ read_ptr[q] \in 0 .. EndWord
         /\ mem[q] \in [0 .. (EndWord - 1) -> Word]
         /\ \A k \in 1 .. Len(sent[q]) : Of(q)[k] = sent[q][k]
<1>1. sent[q] \in Seq(Commands) /\ pend[q] \in Seq(Commands) BY DEF TInv, TypeOK
<1>2. done[q] \in Seq(0 .. MaxCommands) BY DEF TInv, TypeOK
<1>3. /\ ahead[q] \in 0 .. EndWord /\ write_ptr[q] \in 0 .. EndWord
      /\ read_ptr[q] \in 0 .. EndWord /\ mem[q] \in [0 .. (EndWord - 1) -> Word]
  BY DEF TInv, TypeOK
<1>4. Of(q) \in Seq(Commands) /\ Len(Of(q)) = Len(sent[q]) + Len(pend[q])
      /\ \A k \in 1 .. Len(sent[q]) : Of(q)[k] = sent[q][k]
  <2>1. PICK t, u \in Seq(Commands) : t = sent[q] /\ u = pend[q] BY <1>1
  <2>2. Of(q) = t \o u BY <2>1 DEF Of
  <2>3. Of(q) \in Seq(Commands) BY <2>2, Concatenated
  <2>4. Len(Of(q)) = Len(t) + Len(u) BY <2>2, Concatenated
  <2>5. \A k \in 1 .. Len(t) : Of(q)[k] = t[k] BY <2>2, Concatenated
  <2> QED BY <2>1, <2>3, <2>4, <2>5
<1>5. Len(sent[q]) \in Nat /\ Len(pend[q]) \in Nat /\ Len(done[q]) \in Nat BY <1>1, <1>2
<1> QED BY <1>1, <1>2, <1>3, <1>4, <1>5

LEMMA Counts ==
  ASSUME TInv, NEW q \in Queues, StreamInv(q)
  PROVE  \E a, b, c \in Nat :
           /\ a = Len(done[q]) /\ b = Len(sent[q]) /\ c = Len(Of(q))
           /\ a <= b /\ b <= c /\ (b # c => Len(pend[q]) > 0)
<1>1. Len(done[q]) <= Len(sent[q]) BY DEF StreamInv
<1>2. /\ Len(sent[q]) \in Nat /\ Len(pend[q]) \in Nat /\ Len(done[q]) \in Nat
      /\ Len(Of(q)) = Len(sent[q]) + Len(pend[q])
  BY QueueTypes
<1>3. PICK a, b, d \in Nat : a = Len(done[q]) /\ b = Len(sent[q]) /\ d = Len(pend[q])
  BY <1>2
<1>4. PICK c : c = Len(Of(q)) OBVIOUS
<1>6. c = b + d BY <1>2, <1>3, <1>4
<1>7. a <= b BY <1>1, <1>3
<1>5. c \in Nat /\ a <= b /\ b <= c /\ (b # c => d > 0) BY <1>6, <1>7
<1> QED BY <1>3, <1>4, <1>5

\* What Lies says of the pointers.
LEMMA Pointers ==
  ASSUME TInv, NEW q \in Queues, StreamInv(q), NEW at \in [Nat -> Nat], Lies(q, at)
  PROVE  /\ write_ptr[q] <= ahead[q]
         /\ Position(q) <= write_ptr[q]
         /\ \A k \in 1 .. Len(Of(q)) : at[k] < ahead[q]
         /\ Position(q) = write_ptr[q] => Len(done[q]) = Len(sent[q])
         /\ ahead[q] # write_ptr[q] => Len(pend[q]) > 0
<1>1. PICK a, b, n \in Nat :
        /\ a = Len(done[q]) /\ b = Len(sent[q]) /\ n = Len(Of(q))
        /\ a <= b /\ b <= n /\ (b # n => Len(pend[q]) > 0)
  BY Counts
<1>2. /\ \A j, k \in 1 .. (n + 1) : j < k => at[j] < at[k]
      /\ at[n + 1] = ahead[q] /\ at[b + 1] = write_ptr[q] /\ at[a + 1] = Position(q)
  BY <1>1 DEF Lies, LaidOut
<1>3. a + 1 \in 1 .. (n + 1) /\ b + 1 \in 1 .. (n + 1) /\ n + 1 \in 1 .. (n + 1)
  <2>1. a <= b /\ b <= n BY <1>1
  <2> QED BY <2>1
<1>4. \A k \in Nat : at[k] \in Nat OBVIOUS
<1>0. a <= b /\ b <= n BY <1>1
<1>5. write_ptr[q] <= ahead[q] /\ write_ptr[q] \in Nat /\ ahead[q] \in Nat
  <2>1. CASE b = n BY <1>2, <1>4, <2>1
  <2>2. CASE b < n BY <1>2, <1>3, <1>4, <2>2
  <2> QED BY <1>0, <2>1, <2>2
<1>6. Position(q) <= write_ptr[q] /\ (Position(q) = write_ptr[q] => a = b)
  <2>1. CASE a = b BY <1>2, <1>4, <2>1
  <2>2. CASE a < b BY <1>2, <1>3, <1>4, <2>2
  <2> QED BY <1>0, <2>1, <2>2
<1>7. ASSUME NEW k \in 1 .. n PROVE at[k] < ahead[q]
  <2>1. k < n + 1 /\ k \in 1 .. (n + 1) OBVIOUS
  <2> QED BY <1>2, <1>3, <2>1
<1>8. ahead[q] # write_ptr[q] => Len(pend[q]) > 0
  <2>1. CASE b = n BY <1>2, <2>1
  <2>2. CASE b # n BY <1>1, <2>2
  <2> QED BY <2>1, <2>2
<1> QED BY <1>1, <1>5, <1>6, <1>7, <1>8

\* Steps that do not touch a queue.
LEMMA StreamKept ==
  ASSUME NEW q \in Queues, StreamInv(q),
         mem'[q] = mem[q], client'[q] = client[q], sent'[q] = sent[q], pend'[q] = pend[q],
         ahead'[q] = ahead[q], write_ptr'[q] = write_ptr[q], done'[q] = done[q],
         Position(q)' = Position(q),
         pc' = "store" /\ cur' = q => pc = "store" /\ cur = q /\ read_ptr'[q] = read_ptr[q]
  PROVE  StreamInv(q)'
<1>1. Of(q)' = Of(q) BY DEF Of
<1>2. PICK at \in [Nat -> Nat] : Lies(q, at) BY DEF StreamInv
<1>3. Lies(q, at)' BY <1>1, <1>2 DEF Lies
<1> QED BY <1>2, <1>3 DEF StreamInv

LEMMA SpuKept ==
  ASSUME SpuInv, UNCHANGED <<read_ptr, write_ptr, spuVars, mem>>
  PROVE  SpuInv'
  BY DEF SpuInv, spuVars

LEMMA StreamInit == Init => LInv
<1> SUFFICES ASSUME Init PROVE LInv
  OBVIOUS
<1>1. TInv /\ ReservationInv BY TypesInit, ReservationInit
<1>2. SpuInv BY FifoAssumption DEF Init, SpuInv
<1>3. ASSUME NEW q \in Queues PROVE StreamInv(q)
  <2> DEFINE at == [k \in Nat |-> 0]
  <2>1. /\ sent[q] = <<>> /\ pend[q] = <<>> /\ done[q] = <<>> /\ ahead[q] = 0
        /\ write_ptr[q] = 0 /\ read_ptr[q] = 0 /\ client[q] = "free" /\ pc = "idle"
    BY <1>3 DEF Init
  <2>2. Len(sent[q]) = 0 /\ Len(pend[q]) = 0 /\ Len(done[q]) = 0 BY <2>1
  <2>3. Len(Of(q)) = 0 BY <2>1 DEF Of
  <2>4. Position(q) = 0 BY <2>1 DEF Position
  <2>5. Lies(q, at) BY <2>1, <2>2, <2>3, <2>4 DEF Lies, LaidOut
  <2>6. at \in [Nat -> Nat] OBVIOUS
  <2> HIDE DEF at
  <2> QED BY <2>1, <2>2, <2>5, <2>6 DEF StreamInv
<1> QED BY <1>1, <1>2, <1>3 DEF LInv

\* The instruction in the window at the read pointer is the next one published.
LEMMA NextIsPublished ==
  ASSUME LInv, pc = "loop", wptr # rptr, Cached, NEW at \in [Nat -> Nat], Lies(cur, at)
  PROVE  LET k == Len(done[cur]) + 1
         IN /\ cur \in Queues
            /\ k \in 1 .. Len(sent[cur])
            /\ rptr = at[k]
            /\ Current.kind = "command"
            /\ Identity = sent[cur][k]
            /\ at[k + 1] = rptr + 1 + Current.size
<1> DEFINE k == Len(done[cur]) + 1
<1>0. TInv /\ SpuInv /\ cur \in Queues /\ StreamInv(cur) BY DEF LInv, TInv, TypeOK
<1>1. /\ rptr = Position(cur) /\ rptr \in 0 .. EndWord /\ wptr \in 0 .. EndWord
      /\ rptr <= wptr /\ wptr <= write_ptr[cur] /\ rptr \in Nat /\ wptr \in Nat
  BY <1>0, Naturals1 DEF Position, SpuInv, TInv, TypeOK
<1>2. write_ptr[cur] \in Nat
  <2>1. PICK q \in Queues : q = cur BY <1>0
  <2>2. write_ptr[q] \in 0 .. EndWord BY <1>0, QueueTypes
  <2> QED BY <2>1, <2>2
<1>3. Position(cur) # write_ptr[cur] BY <1>1, <1>2
<1>4. PICK a, b, n \in Nat : /\ a = Len(done[cur]) /\ b = Len(sent[cur]) /\ n = Len(Of(cur))
                           /\ a <= b /\ b <= n
  BY <1>0, Counts
<1>5. at[k] = rptr BY <1>1 DEF Lies
<1>6. Len(done[cur]) # Len(sent[cur])
  BY <1>3, <1>5, <1>1 DEF Lies
<1>7. k \in 1 .. Len(sent[cur]) /\ k \in 1 .. Len(Of(cur))
  <2>1. a <= b /\ b <= n /\ a # b BY <1>4, <1>6
  <2>2. a + 1 \in 1 .. b /\ a + 1 \in 1 .. n BY <2>1
  <2> QED BY <1>4, <2>2
<1>8. Of(cur)[k] = sent[cur][k] BY <1>0, <1>7, QueueTypes
<1> HIDE DEF k
<1>9. /\ mem[cur][rptr].kind = "command" /\ mem[cur][rptr].id = sent[cur][k]
      /\ mem[cur][rptr].size = 1 => mem[cur][rptr + 1] = Data(sent[cur][k])
      /\ at[k + 1] = rptr + 1 + mem[cur][rptr].size
  BY <1>5, <1>7, <1>8 DEF Lies, LaidOut
<1>10. PICK i : i = rptr - fifo.ofs OBVIOUS
<1>11. /\ fifo.ea = cur /\ i \in 0 .. (FifoWords - 1) /\ i < fifo.len /\ fifo.ofs \in Nat
       /\ Current = fifo.area[i]
       /\ Current.size = 1 => rptr + 1 - fifo.ofs \in 0 .. (FifoWords - 1)
                              /\ rptr + 1 - fifo.ofs < fifo.len
  <2>1. fifo.ofs \in Nat /\ fifo.len \in 0 .. FifoWords BY <1>0, Naturals1 DEF TInv, TypeOK
  <2> QED BY <1>0, <1>10, <2>1, CachedFacts DEF Current
<1>12. fifo.ofs + i = rptr BY <1>1, <1>10, <1>11
<1>13. Current = mem[cur][rptr] BY <1>0, <1>11, <1>12 DEF SpuInv
<1>14. ASSUME Current.size = 1 PROVE fifo.area[rptr + 1 - fifo.ofs] = Data(sent[cur][k])
  <2>1. PICK j \in 0 .. (FifoWords - 1) : j = rptr + 1 - fifo.ofs /\ j < fifo.len
    BY <1>11, <1>14
  <2>2. fifo.ofs + j = rptr + 1 BY <1>1, <1>11, <2>1
  <2>3. fifo.area[j] = mem[cur][rptr + 1] BY <1>0, <1>11, <2>1, <2>2 DEF SpuInv
  <2> QED BY <1>9, <1>13, <1>14, <2>1, <2>3
<1>15. Identity = sent[cur][k] BY <1>9, <1>13, <1>14 DEF Identity
<1> QED BY <1>0, <1>5, <1>7, <1>9, <1>13, <1>15 DEF k

\* The first n of old and then c.
Longer(n, old, new, c) == (\A k \in 1 .. n : new[k] = old[k]) /\ new[n + 1] = c

\* Words w are words m with instruction c and its s words of data at e.
Extended(m, w, e, c, s) ==
  /\ e + 1 + s <= EndWord
  /\ \A o \in 0 .. (EndWord - 1) : o < e => w[o] = m[o]
  /\ w[e] = Header(c, s)
  /\ s = 1 => w[e + 1] = Data(c)

LEMMA OneMore ==
  ASSUME NEW n \in Nat, NEW old, NEW new, NEW c, Longer(n, old, new, c),
         NEW e \in Nat, NEW s \in 0 .. 1, NEW m, NEW w, Extended(m, w, e, c, s),
         NEW at \in [Nat -> Nat], LaidOut(n, old, m, at, e)
  PROVE  \E be \in [Nat -> Nat] :
           /\ LaidOut(n + 1, new, w, be, e + 1 + s)
           /\ \A k \in 1 .. (n + 1) : be[k] = at[k]
<1> DEFINE be == [at EXCEPT ![n + 2] = e + 1 + s]
<1>a. /\ \A k \in 1 .. n : new[k] = old[k]
      /\ new[n + 1] = c /\ e + 1 + s <= EndWord
      /\ \A o \in 0 .. (EndWord - 1) : o < e => w[o] = m[o]
      /\ w[e] = Header(c, s) /\ (s = 1 => w[e + 1] = Data(c))
  BY DEF Longer, Extended
<1>0. EndWord \in Nat /\ (n + 1) + 1 = n + 2 BY Naturals1
<1>1. be \in [Nat -> Nat] OBVIOUS
<1>2. \A k \in 1 .. (n + 1) : be[k] = at[k] OBVIOUS
<1>3. be[n + 2] = e + 1 + s OBVIOUS
<1> HIDE DEF be
<1>4. /\ \A k \in 1 .. n : /\ m[at[k]].kind = "command"
                           /\ m[at[k]].id = old[k]
                           /\ m[at[k]].size = 1 => m[at[k] + 1] = Data(old[k])
                           /\ at[k + 1] = at[k] + 1 + m[at[k]].size
      /\ \A j, k \in 1 .. (n + 1) : j < k => at[j] < at[k]
      /\ at[n + 1] = e
  BY DEF LaidOut
<1>5. \A k \in Nat : at[k] \in Nat OBVIOUS
<1>6. \A k \in 1 .. (n + 1) : k \in Nat /\ k <= n + 1 OBVIOUS
<1>7. n + 1 \in 1 .. (n + 1) OBVIOUS
<1>8. \A k \in 1 .. (n + 1) : at[k] \in Nat /\ at[k] <= e
  <2> SUFFICES ASSUME NEW k \in 1 .. (n + 1) PROVE at[k] \in Nat /\ at[k] <= e
    OBVIOUS
  <2>1. k = n + 1 \/ k < n + 1 OBVIOUS
  <2> QED BY <1>4, <1>5, <1>6, <1>7, <2>1
<1>9. ASSUME NEW k \in 1 .. n
      PROVE  /\ w[be[k]].kind = "command"
             /\ w[be[k]].id = new[k]
             /\ w[be[k]].size = 1 => w[be[k] + 1] = Data(new[k])
             /\ be[k + 1] = be[k] + 1 + w[be[k]].size
  <2>1. k \in 1 .. (n + 1) /\ k + 1 \in 1 .. (n + 1) /\ k < k + 1 OBVIOUS
  <2>2. PICK x, y \in Nat : x = at[k] /\ y = at[k + 1] /\ x < y /\ y <= e
    BY <1>4, <1>8, <2>1
  <2>3. x \in 0 .. (EndWord - 1) /\ x < e BY <1>a, <1>0, <2>2
  <2>4. w[x] = m[x] BY <1>a, <2>3
  <2>5. ASSUME m[x].size = 1 PROVE w[x + 1] = m[x + 1]
    <3>1. y = x + 1 + 1 BY <1>4, <2>2, <2>5
    <3>2. x + 1 \in 0 .. (EndWord - 1) /\ x + 1 < e BY <1>a, <1>0, <2>2, <3>1
    <3> QED BY <1>a, <3>2
  <2>6. be[k] = x /\ be[k + 1] = y BY <1>2, <2>1, <2>2
  <2> QED BY <1>a, <1>4, <2>2, <2>4, <2>5, <2>6
<1>10. /\ w[be[n + 1]].kind = "command"
       /\ w[be[n + 1]].id = new[n + 1]
       /\ w[be[n + 1]].size = 1 => w[be[n + 1] + 1] = Data(new[n + 1])
       /\ be[n + 2] = be[n + 1] + 1 + w[be[n + 1]].size
  <2>1. be[n + 1] = e BY <1>2, <1>4, <1>7
  <2>2. Header(c, s).kind = "command" /\ Header(c, s).id = c /\ Header(c, s).size = s
    BY DEF Header
  <2> QED BY <1>a, <1>3, <2>1, <2>2
<1>11. ASSUME NEW j \in 1 .. (n + 2), NEW k \in 1 .. (n + 2), j < k PROVE be[j] < be[k]
  <2>1. j \in 1 .. (n + 1) BY <1>11
  <2>2. PICK x \in Nat : x = be[j] /\ x = at[j] /\ x <= e BY <1>2, <1>8, <2>1
  <2>3. CASE k = n + 2 BY <1>3, <2>2, <2>3
  <2>4. CASE k \in 1 .. (n + 1) BY <1>2, <1>4, <1>11, <2>1, <2>4
  <2>5. k = n + 2 \/ k \in 1 .. (n + 1) OBVIOUS
  <2> QED BY <2>3, <2>4, <2>5
<1>12. \A k \in 1 .. (n + 1) :
         /\ w[be[k]].kind = "command"
         /\ w[be[k]].id = new[k]
         /\ w[be[k]].size = 1 => w[be[k] + 1] = Data(new[k])
         /\ be[k + 1] = be[k] + 1 + w[be[k]].size
  <2> SUFFICES ASSUME NEW k \in 1 .. (n + 1)
               PROVE  /\ w[be[k]].kind = "command"
                      /\ w[be[k]].id = new[k]
                      /\ w[be[k]].size = 1 => w[be[k] + 1] = Data(new[k])
                      /\ be[k + 1] = be[k] + 1 + w[be[k]].size
    OBVIOUS
  <2>1. CASE k \in 1 .. n BY <1>9, <2>1
  <2>2. CASE k = n + 1 BY <1>0, <1>10, <2>2
  <2>3. k \in 1 .. n \/ k = n + 1 OBVIOUS
  <2> QED BY <2>1, <2>2, <2>3
<1>13. LaidOut(n + 1, new, w, be, e + 1 + s) BY <1>0, <1>3, <1>11, <1>12 DEF LaidOut
<1> QED BY <1>1, <1>2, <1>13

LEMMA Appended ==
  ASSUME NEW S, NEW t \in Seq(S), NEW u \in Seq(S), NEW c \in S
  PROVE  /\ Len(t \o Append(u, c)) = Len(t \o u) + 1
         /\ Longer(Len(t \o u), t \o u, t \o Append(u, c), c)
BY DEF Longer

\* An instruction more behind the others.
LEMMA WriteStream ==
  ASSUME LInv, TInv', NEW q \in Queues, NEW s \in 0 .. 1, WriteCommand(q, s)
  PROVE  SpuInv' /\ \A p \in Queues : StreamInv(p)'
<1> DEFINE c == Len(issuedTo) + 1
<1>0. TInv /\ SpuInv /\ \A p \in Queues : StreamInv(p) BY DEF LInv
<1>1. /\ ahead[q] + 1 + s <= EndWord
      /\ ahead' = [ahead EXCEPT ![q] = ahead[q] + 1 + s]
      /\ mem' = [mem EXCEPT ![q] = [o \in 0 .. (EndWord - 1) |->
                   IF o = ahead[q] THEN Header(c, s)
                   ELSE IF s = 1 /\ o = ahead[q] + 1 THEN Data(c) ELSE mem[q][o]]]
  BY <1>0, CommandWords DEF TInv
<1>2. /\ UNCHANGED <<write_ptr, read_ptr, client, sent, done, spuVars, reserved>>
      /\ pend' = [pend EXCEPT ![q] = Append(pend[q], c)]
      /\ issuedTo' = Append(issuedTo, q)
  BY DEF WriteCommand
<1> HIDE DEF c
<1>5. PICK e : e = ahead[q] OBVIOUS
<1>6. e \in Nat /\ write_ptr[q] <= e /\ write_ptr[q] \in 0 .. EndWord
  <2>1. PICK at \in [Nat -> Nat] : Lies(q, at) BY <1>0 DEF StreamInv
  <2>2. ahead[q] \in 0 .. EndWord /\ write_ptr[q] \in 0 .. EndWord BY <1>0, QueueTypes
  <2>3. write_ptr[q] <= ahead[q] BY <1>0, <2>1, Pointers
  <2> QED BY <1>5, <2>2, <2>3, Naturals1
<1>7. \A o \in 0 .. (EndWord - 1) : o < e => mem'[q][o] = mem[q][o]
  <2>1. \A o \in 0 .. (EndWord - 1) : o < e => o # e /\ o # e + 1
    BY <1>6, Naturals1
  <2>2. \A o \in 0 .. (EndWord - 1) : mem'[q][o] =
           IF o = e THEN Header(c, s) ELSE IF s = 1 /\ o = e + 1 THEN Data(c) ELSE mem[q][o]
    BY <1>0, <1>1, <1>5 DEF TInv, TypeOK
  <2> QED BY <2>1, <2>2
<1>8. \A p \in Queues \ {q} : /\ mem'[p] = mem[p] /\ ahead'[p] = ahead[p] /\ pend'[p] = pend[p]
  BY <1>0, <1>1, <1>2 DEF TInv, TypeOK
<1>9. SpuInv'
  <2>1. pc' = pc /\ rptr' = rptr /\ wptr' = wptr /\ fifo' = fifo /\ cur' = cur BY <1>2 DEF spuVars
  <2>2. ASSUME fifo.ea \in Queues, NEW k \in 0 .. (FifoWords - 1), k < fifo.len
        PROVE  fifo.area[k] = mem'[fifo.ea][fifo.ofs + k]
    <3>1. fifo.area[k] = mem[fifo.ea][fifo.ofs + k] /\ fifo.ofs + fifo.len <= write_ptr[fifo.ea]
      BY <1>0, <2>2 DEF SpuInv
    <3>2. CASE fifo.ea # q BY <1>8, <2>2, <3>1, <3>2
    <3>3. CASE fifo.ea = q
      <4>0. fifo.ofs \in Nat /\ fifo.len \in Nat
        <5>1. fifo.ofs \in 0 .. EndWord /\ fifo.len \in 0 .. FifoWords BY <1>0 DEF TInv, TypeOK
        <5> QED BY <5>1, Naturals1
      <4>1. PICK o, n, w \in Nat : o = fifo.ofs /\ n = fifo.len /\ w = write_ptr[q]
        BY <1>6, <4>0, Naturals1
      <4>2. o + n <= w /\ k < n /\ w <= e /\ w <= EndWord
        BY <1>6, <2>2, <3>1, <3>3, <4>1
      <4>3. o + k \in 0 .. (EndWord - 1) /\ o + k < e
        BY <1>6, <2>2, <4>2, Naturals1
      <4> QED BY <1>7, <3>1, <3>3, <4>1, <4>3
    <3> QED BY <3>2, <3>3
  <2> QED BY <1>0, <1>2, <2>1, <2>2 DEF SpuInv
<1>10. ASSUME NEW p \in Queues \ {q} PROVE StreamInv(p)'
  <2>1. Position(p)' = Position(p) BY <1>2 DEF Position, spuVars
  <2> QED BY <1>0, <1>2, <1>8, <1>10, <2>1, StreamKept DEF spuVars
<1>11. StreamInv(q)'
  <2>1. PICK at \in [Nat -> Nat] : Lies(q, at) BY <1>0 DEF StreamInv
  <2>2. PICK a, b, n \in Nat : /\ a = Len(done[q]) /\ b = Len(sent[q]) /\ n = Len(Of(q))
                               /\ a <= b /\ b <= n
    BY <1>0, Counts
  <2>3. PICK d : d = c OBVIOUS
  <2>4. pend'[q] = Append(pend[q], d) /\ sent'[q] = sent[q] /\ done'[q] = done[q]
    BY <1>0, <1>2, <2>3 DEF TInv, TypeOK
  <2>5. d \in Commands BY <1>0, <2>3, CommandWords DEF TInv, c
  <2>6. PICK x, y : x = Of(q) /\ y = Of(q)' OBVIOUS
  <2>7. Len(y) = n + 1 /\ Longer(n, x, y, d)
    <3>1. PICK t, u \in Seq(Commands) : t = sent[q] /\ u = pend[q] BY <1>0, QueueTypes
    <3>2. x = t \o u /\ y = t \o Append(u, d) BY <2>4, <2>6, <3>1 DEF Of
    <3>3. n = Len(t \o u) BY <2>2, <2>6, <3>2
    <3>4. d \in Commands BY <2>5
    <3>5. /\ Len(t \o Append(u, d)) = Len(t \o u) + 1
          /\ Longer(Len(t \o u), t \o u, t \o Append(u, d), d)
      BY <3>4, Appended
    <3> QED BY <3>2, <3>3, <3>5
  <2>8. /\ e + 1 + s <= EndWord /\ ahead'[q] = e + 1 + s
        /\ mem'[q][e] = Header(d, s) /\ (s = 1 => mem'[q][e + 1] = Data(d))
    <3>1. e + 1 + s <= EndWord /\ ahead'[q] = e + 1 + s
      BY <1>0, <1>1, <1>5 DEF TInv, TypeOK
    <3>2. e \in 0 .. (EndWord - 1) /\ (s = 1 => e + 1 \in 0 .. (EndWord - 1)) /\ e + 1 # e
      BY <1>6, <3>1, Naturals1
    <3>3. \A o \in 0 .. (EndWord - 1) : mem'[q][o] =
             IF o = e THEN Header(d, s) ELSE IF s = 1 /\ o = e + 1 THEN Data(d) ELSE mem[q][o]
      BY <1>0, <1>1, <1>5, <2>3 DEF TInv, TypeOK
    <3> QED BY <3>1, <3>2, <3>3
  <2>9. LaidOut(n, x, mem[q], at, e) BY <1>5, <2>1, <2>2, <2>6 DEF Lies
  <2>10. PICK be \in [Nat -> Nat] :
            /\ LaidOut(n + 1, y, mem'[q], be, e + 1 + s)
            /\ \A k \in 1 .. (n + 1) : be[k] = at[k]
    <3>1. PICK m, w : m = mem[q] /\ w = mem'[q] OBVIOUS
    <3>2. Extended(m, w, e, d, s) BY <1>7, <2>8, <3>1 DEF Extended
    <3>3. e \in Nat BY <1>6
    <3>4. LaidOut(n, x, m, at, e) BY <2>9, <3>1
    <3>5. Longer(n, x, y, d) BY <2>7
    <3>6. \E be \in [Nat -> Nat] : /\ LaidOut(n + 1, y, w, be, e + 1 + s)
                                   /\ \A k \in 1 .. (n + 1) : be[k] = at[k]
      BY <3>2, <3>3, <3>4, <3>5, OneMore
    <3> QED BY <3>1, <3>6
  <2>11. /\ be[b + 1] = write_ptr'[q]
         /\ be[a + 1] = Position(q)'
         /\ pc' = "store" /\ cur' = q => a > 0 /\ be[a] = read_ptr'[q]
    <3>1. b + 1 \in 1 .. (n + 1) /\ a + 1 \in 1 .. (n + 1) /\ (a > 0 => a \in 1 .. (n + 1))
      <4>1. a <= b /\ b <= n BY <2>2
      <4> QED BY <4>1
    <3>2. Position(q)' = Position(q) BY <1>2 DEF Position, spuVars
    <3>3. pc' = pc /\ cur' = cur /\ read_ptr' = read_ptr /\ write_ptr' = write_ptr
      BY <1>2 DEF spuVars
    <3>4. /\ at[b + 1] = write_ptr[q] /\ at[a + 1] = Position(q)
          /\ pc = "store" /\ cur = q => a > 0 /\ at[a] = read_ptr[q]
      BY <2>1, <2>2 DEF Lies
    <3> QED BY <2>10, <3>1, <3>2, <3>3, <3>4
  <2>12. Lies(q, be)'
    <3>1. Len(Of(q))' = n + 1 /\ Len(done'[q]) = a /\ Len(sent'[q]) = b
      BY <2>2, <2>4, <2>6, <2>7
    <3> QED BY <2>6, <2>8, <2>10, <2>11, <3>1 DEF Lies
  <2>13. /\ client'[q] = "free" /\ Len(done'[q]) <= Len(sent'[q])
         /\ \A k \in 1 .. Len(done'[q]) : done'[q][k] = sent'[q][k]
    BY <1>0, <1>2 DEF StreamInv
  <2> QED BY <2>10, <2>12, <2>13 DEF StreamInv
<1> QED BY <1>9, <1>10, <1>11

\* What was written becomes what is published; the words stay.
LEMMA PublishStream ==
  ASSUME LInv, NEW q \in Queues, Publish(q)
  PROVE  SpuInv' /\ \A p \in Queues : StreamInv(p)'
<1>0. TInv /\ SpuInv /\ \A p \in Queues : StreamInv(p) BY DEF LInv
<1>1. /\ UNCHANGED <<mem, read_ptr, ahead, done, pc, cur, rptr, wptr, fifo>>
      /\ write_ptr' = [write_ptr EXCEPT ![q] = ahead[q]]
      /\ sent' = [sent EXCEPT ![q] = sent[q] \o pend[q]]
      /\ pend' = [pend EXCEPT ![q] = <<>>]
      /\ client' = [client EXCEPT ![q] = IF client[q] = "jumping" THEN "jumped" ELSE client[q]]
  BY DEF Publish, ClientStores, spuVars
<1>2. /\ write_ptr'[q] = ahead[q] /\ sent'[q] = Of(q) /\ pend'[q] = <<>> /\ client'[q] = "free"
      /\ \A p \in Queues \ {q} : /\ write_ptr'[p] = write_ptr[p] /\ sent'[p] = sent[p]
                                 /\ pend'[p] = pend[p] /\ client'[p] = client[p]
  <2>1. client[q] = "free" BY <1>0 DEF StreamInv
  <2> QED BY <1>0, <1>1, <2>1 DEF TInv, TypeOK, Of
<1>3. write_ptr[q] <= ahead[q] /\ \A p \in Queues : write_ptr[p] \in Nat /\ ahead[p] \in Nat
  <2>1. PICK at \in [Nat -> Nat] : Lies(q, at) BY <1>0 DEF StreamInv
  <2>2. write_ptr[q] <= ahead[q] BY <1>0, <2>1, Pointers
  <2>3. \A p \in Queues : write_ptr[p] \in 0 .. EndWord /\ ahead[p] \in 0 .. EndWord
    BY <1>0, QueueTypes
  <2> QED BY <2>2, <2>3, Naturals1
<1>4. \A p \in Queues : write_ptr[p] <= write_ptr'[p] BY <1>2, <1>3
<1>5. SpuInv'
  <2>1. pc # "jump" BY <1>0 DEF SpuInv
  <2>2. ASSUME pc = "loop"
        PROVE  rptr = read_ptr[cur] /\ rptr <= wptr /\ wptr <= write_ptr'[cur]
    <3>1. cur \in Queues /\ wptr \in 0 .. EndWord BY <1>0 DEF TInv, TypeOK
    <3>2. rptr = read_ptr[cur] /\ rptr <= wptr /\ wptr <= write_ptr[cur] BY <1>0, <2>2 DEF SpuInv
    <3>3. PICK a, b, c : a = wptr /\ b = write_ptr[cur] /\ c = write_ptr'[cur] OBVIOUS
    <3>4. a \in Nat /\ b \in Nat /\ c \in Nat /\ a <= b /\ b <= c
      <4>1. write_ptr'[cur] \in Nat BY <1>2, <1>3, <3>1
      <4>2. write_ptr[cur] \in Nat /\ write_ptr[cur] <= write_ptr'[cur] BY <1>3, <1>4, <3>1
      <4>3. wptr \in Nat BY <3>1, Naturals1
      <4> QED BY <3>2, <3>3, <4>1, <4>2, <4>3
    <3>5. a <= c BY <3>4
    <3> QED BY <3>2, <3>3, <3>5
  <2>3. ASSUME fifo.ea \in Queues
        PROVE  /\ fifo.ofs + fifo.len <= write_ptr'[fifo.ea]
               /\ \A k \in 0 .. (FifoWords - 1) :
                    k < fifo.len => fifo.area[k] = mem[fifo.ea][fifo.ofs + k]
    <3>0. fifo.ofs \in 0 .. EndWord /\ fifo.len \in 0 .. FifoWords BY <1>0 DEF TInv, TypeOK
    <3>1. fifo.ofs + fifo.len <= write_ptr[fifo.ea] BY <1>0, <2>3 DEF SpuInv
    <3>2. PICK a, b, c, d : a = fifo.ofs /\ b = write_ptr[fifo.ea] /\ c = write_ptr'[fifo.ea]
                            /\ d = fifo.len
      OBVIOUS
    <3>3. a \in Nat /\ b \in Nat /\ c \in Nat /\ d \in Nat /\ a + d <= b /\ b <= c
      <4>1. write_ptr'[fifo.ea] \in Nat BY <1>2, <1>3, <2>3
      <4>2. write_ptr[fifo.ea] \in Nat /\ write_ptr[fifo.ea] <= write_ptr'[fifo.ea]
        BY <1>3, <1>4, <2>3
      <4>3. fifo.ofs \in Nat /\ fifo.len \in Nat BY <3>0, Naturals1
      <4> QED BY <3>1, <3>2, <4>1, <4>2, <4>3
    <3>4. a + d <= c BY <3>3
    <3> QED BY <1>0, <2>3, <3>2, <3>4 DEF SpuInv
  <2> QED BY <1>1, <2>1, <2>2, <2>3 DEF SpuInv
<1>6. ASSUME NEW p \in Queues \ {q} PROVE StreamInv(p)'
  <2>1. Position(p)' = Position(p) BY <1>1 DEF Position
  <2> QED BY <1>0, <1>1, <1>2, <1>6, <2>1, StreamKept
<1>7. StreamInv(q)'
  <2>1. PICK at \in [Nat -> Nat] : Lies(q, at) BY <1>0 DEF StreamInv
  <2>2. PICK a, b, n \in Nat : /\ a = Len(done[q]) /\ b = Len(sent[q]) /\ n = Len(Of(q))
                               /\ a <= b /\ b <= n
    BY <1>0, Counts
  <2>3. Of(q)' = Of(q)
    <3>1. Of(q) \in Seq(Commands) BY <1>0, QueueTypes
    <3>2. Of(q)' = Of(q) \o <<>> BY <1>2 DEF Of
    <3> QED BY <3>1, <3>2
  <2>4. Position(q)' = Position(q) BY <1>1 DEF Position
  <2>5. LaidOut(n, Of(q), mem[q], at, ahead[q]) BY <2>1, <2>2 DEF Lies
  <2>6. at[n + 1] = ahead[q] BY <2>5 DEF LaidOut
  <2>7. Lies(q, at)'
    BY <1>1, <1>2, <2>1, <2>2, <2>3, <2>4, <2>5, <2>6 DEF Lies
  <2>8. ASSUME NEW k \in 1 .. Len(done[q]) PROVE done[q][k] = sent'[q][k]
    <3>1. k \in 1 .. Len(sent[q])
      <4>1. k \in 1 .. a /\ a <= b BY <2>2
      <4>2. k \in 1 .. b BY <4>1
      <4> QED BY <2>2, <4>2
    <3>2. done[q][k] = sent[q][k] BY <1>0 DEF StreamInv
    <3>3. Of(q)[k] = sent[q][k] BY <1>0, <3>1, QueueTypes
    <3> QED BY <1>2, <3>2, <3>3
  <2>9. Len(done'[q]) <= Len(sent'[q])
    <3>1. a <= b /\ b <= n BY <2>2
    <3>2. a <= n BY <3>1
    <3> QED BY <1>1, <1>2, <2>2, <3>2
  <2> QED BY <1>1, <1>2, <2>7, <2>8, <2>9 DEF StreamInv
<1> QED BY <1>5, <1>6, <1>7

\* Jumping back and allocating anew are what ends it.
LEMMA OneLap ==
  ASSUME Straight, Straight', NEW q \in Queues
  PROVE  ~WriteJump(q) /\ ~Recreate(q) /\ (client[q] = "free" => ~SetTarget(q))
<1>1. laps = 0 /\ reuses = 0 /\ laps' = 0 /\ reuses' = 0 BY DEF Straight
<1> QED BY <1>1 DEF WriteJump, Recreate, SetTarget

\* It does not come back.
LEMMA StraightBefore ==
  ASSUME TInv, [Next]_vars, Straight'
  PROVE  Straight
<1>1. laps \in Nat /\ reuses \in Nat
  <2>1. laps \in 0 .. MaxLaps /\ reuses \in 0 .. MaxReuse BY DEF TInv, TypeOK
  <2> QED BY <2>1, FifoAssumption
<1>2. laps' = 0 /\ reuses' = 0 BY DEF Straight
<1>3. laps' \in {laps, laps + 1} /\ reuses' \in {reuses, reuses + 1}
  <2>1. ASSUME NEW q \in Queues, Client(q) PROVE <1>3!:
    BY <2>1 DEF Client, WriteCommand, Publish, WriteJump, SetTarget, Recreate
  <2>2. ASSUME NEW q \in Queues, Visit(q) PROVE <1>3!:
    BY <2>2 DEF Visit, clientVars
  <2>3. CASE Work
    BY <2>3 DEF Work, Leave, Fetch, Execute, Busy, TakeJump, Store, Reload, clientVars
  <2>4. CASE LoseReservation BY <2>4 DEF LoseReservation, clientVars
  <2>5. CASE UNCHANGED vars BY <2>5 DEF vars, clientVars
  <2> QED BY <2>1, <2>2, <2>3, <2>4, <2>5 DEF Next, SPU
<1> QED BY <1>1, <1>2, <1>3 DEF Straight

\* Steps of the SPU that leave every queue where it is.
LEMMA PositionsKept ==
  ASSUME \A q \in Queues : StreamInv(q), pc' # "store",
         UNCHANGED <<mem, write_ptr, clientVars, done>>,
         \A q \in Queues : Position(q)' = Position(q)
  PROVE  \A q \in Queues : StreamInv(q)'
<1> SUFFICES ASSUME NEW q \in Queues PROVE StreamInv(q)'
  OBVIOUS
<1>1. /\ mem'[q] = mem[q] /\ client'[q] = client[q] /\ sent'[q] = sent[q]
      /\ pend'[q] = pend[q] /\ ahead'[q] = ahead[q] /\ write_ptr'[q] = write_ptr[q]
      /\ done'[q] = done[q] /\ Position(q)' = Position(q)
  BY DEF clientVars
<1> QED BY <1>1, StreamKept

LEMMA VisitStream ==
  ASSUME LInv, NEW q \in Queues, Visit(q)
  PROVE  SpuInv' /\ \A p \in Queues : StreamInv(p)'
<1>0. TInv /\ SpuInv /\ \A p \in Queues : StreamInv(p) BY DEF LInv
<1>1. /\ pc = "idle" /\ pc' = "loop" /\ cur' = q /\ wptr' = write_ptr[q]
      /\ rptr' = read_ptr[q]
      /\ UNCHANGED <<mem, write_ptr, read_ptr, clientVars, done, fifo>>
  BY DEF Visit
<1>2. \A p \in Queues : Position(p) = read_ptr[p] /\ Position(p)' = read_ptr[p]
  BY <1>1 DEF Position
<1>3. read_ptr[q] <= write_ptr[q] /\ write_ptr[q] \in Nat
  <2>1. PICK at \in [Nat -> Nat] : Lies(q, at) BY <1>0 DEF StreamInv
  <2>2. write_ptr[q] \in 0 .. EndWord BY <1>0, QueueTypes
  <2>3. Position(q) <= write_ptr[q] BY <1>0, <2>1, Pointers
  <2> QED BY <1>2, <2>2, <2>3, Naturals1
<1>4. SpuInv' BY <1>0, <1>1, <1>3 DEF SpuInv
<1>5. \A p \in Queues : StreamInv(p)' BY <1>0, <1>1, <1>2, PositionsKept
<1> QED BY <1>4, <1>5

LEMMA LeaveStream ==
  ASSUME LInv, Leave \/ Busy
  PROVE  SpuInv' /\ \A p \in Queues : StreamInv(p)'
<1>0. TInv /\ SpuInv /\ \A p \in Queues : StreamInv(p) BY DEF LInv
<1>1. /\ pc = "loop" /\ pc' = "idle"
      /\ UNCHANGED <<mem, write_ptr, read_ptr, clientVars, done, cur, wptr, rptr, fifo>>
  BY DEF Leave, Busy
<1>2. rptr = read_ptr[cur] BY <1>0, <1>1 DEF SpuInv
<1>3. \A p \in Queues : Position(p)' = Position(p) BY <1>1, <1>2 DEF Position
<1>4. SpuInv' BY <1>0, <1>1 DEF SpuInv
<1>5. \A p \in Queues : StreamInv(p)' BY <1>0, <1>1, <1>3, PositionsKept
<1> QED BY <1>4, <1>5

LEMMA RoundUpCovers == \A n \in Nat : n <= RoundUp(n)
  BY FifoAssumption DEF RoundUp, LineOf

\* The window holds published words only.
LEMMA FetchStream ==
  ASSUME LInv, Fetch
  PROVE  SpuInv' /\ \A p \in Queues : StreamInv(p)'
<1>0. TInv /\ SpuInv /\ (\A p \in Queues : StreamInv(p)) /\ cur \in Queues
  BY DEF LInv, TInv, TypeOK
<1>1. /\ pc = "loop" /\ wptr # rptr
      /\ UNCHANGED <<mem, write_ptr, read_ptr, clientVars, done, pc, cur, wptr, rptr>>
  BY DEF Fetch
<1>2. \A p \in Queues : Position(p)' = Position(p) BY <1>1 DEF Position
<1>3. PICK o, n, r, w, p :
        /\ o = fifo'.ofs /\ n = fifo'.len /\ r = rptr /\ w = wptr /\ p = write_ptr[cur]
  OBVIOUS
<1>4. /\ o \in Nat /\ n \in Nat /\ r \in Nat /\ w \in Nat /\ p \in 0 .. EndWord
      /\ o <= r /\ r <= w /\ w <= p
  <2>1. fifo'.ofs \in 0 .. rptr /\ fifo'.len \in 0 .. FifoWords BY <1>0, FetchFacts
  <2>2. rptr \in 0 .. EndWord /\ wptr \in 0 .. EndWord BY <1>0 DEF TInv, TypeOK
  <2>3. rptr <= wptr /\ wptr <= write_ptr[cur] BY <1>0, <1>1 DEF SpuInv
  <2>4. write_ptr[cur] \in 0 .. EndWord BY <1>0, QueueTypes
  <2> QED BY <1>3, <2>1, <2>2, <2>3, <2>4, Naturals1
<1>5. o + n <= w
  <2>1. n = IF w < r \/ w - o > FifoWords THEN FifoWords ELSE w - o
    BY <1>0, <1>3, FetchFacts DEF FetchLength
  <2> QED BY <1>4, <2>1, Naturals1
<1>6. o + n <= p BY <1>4, <1>5, Naturals1
<1>7. ASSUME NEW k \in 0 .. (FifoWords - 1), k < n
      PROVE  fifo'.area[k] = mem[cur][o + k]
  <2>1. k < RoundUp(n)
    <3>1. PICK t : t = RoundUp(n) OBVIOUS
    <3>2. n <= t /\ t \in Nat
      <4>1. RoundUp(n) \in Nat BY <1>4, LineOfIs, FifoAssumption DEF RoundUp
      <4> QED BY <1>4, <3>1, <4>1, RoundUpCovers
    <3> QED BY <1>4, <1>7, <3>1, <3>2
  <2>2. o + k < EndWord BY <1>4, <1>6, <1>7, Naturals1
  <2> QED BY <1>0, <1>3, <2>1, <2>2, FetchFacts
<1>8. fifo'.ea = cur BY <1>0, FetchFacts
<1>9. SpuInv' BY <1>0, <1>1, <1>3, <1>6, <1>7, <1>8 DEF SpuInv
<1>10. \A q \in Queues : StreamInv(q)'
  <2>1. pc' # "store" BY <1>1
  <2> QED BY <1>0, <1>1, <1>2, <2>1, PositionsKept
<1> QED BY <1>9, <1>10

\* The store of the read pointer: the write pointer it carries is the client's.
LEMMA StoreStream ==
  ASSUME LInv, Store
  PROVE  SpuInv' /\ \A p \in Queues : StreamInv(p)'
<1>0. /\ TInv /\ SpuInv /\ (\A p \in Queues : StreamInv(p)) /\ cur \in Queues
      /\ ReservationInv
  BY DEF LInv, TInv, TypeOK
<1>1. /\ pc = "store" /\ pc' = "loop" /\ wptr' = copyWrite /\ reserved
      /\ write_ptr' = [write_ptr EXCEPT ![cur] = copyWrite]
      /\ read_ptr' = [read_ptr EXCEPT ![cur] = rptr]
      /\ UNCHANGED <<mem, clientVars, done, cur, rptr, fifo>>
  BY <1>0 DEF Store, PutLine, SpuInv
<1>2. copyWrite = write_ptr[cur] /\ write_ptr' = write_ptr
  BY <1>0, <1>1 DEF ReservationInv, TInv, TypeOK
<1>3. /\ read_ptr'[cur] = rptr
      /\ \A p \in Queues \ {cur} : read_ptr'[p] = read_ptr[p]
  BY <1>0, <1>1 DEF TInv, TypeOK
<1>4. \A p \in Queues : Position(p)' = Position(p) BY <1>1, <1>3 DEF Position
<1>5. rptr <= write_ptr[cur] /\ write_ptr[cur] \in Nat
  <2>1. PICK q \in Queues : q = cur BY <1>0
  <2>2. PICK at \in [Nat -> Nat] : Lies(q, at) BY <1>0 DEF StreamInv
  <2>3. Position(q) <= write_ptr[q] BY <1>0, <2>2, Pointers
  <2>4. write_ptr[q] \in 0 .. EndWord BY <1>0, QueueTypes
  <2>5. Position(q) = rptr BY <1>1, <2>1 DEF Position
  <2> QED BY <2>1, <2>3, <2>4, <2>5, Naturals1
<1>6. SpuInv' BY <1>0, <1>1, <1>2, <1>3, <1>5 DEF SpuInv
<1>7. \A q \in Queues : StreamInv(q)'
  <2>1. pc' # "store" BY <1>1
  <2> QED BY <1>0, <1>1, <1>2, <1>4, <2>1, PositionsKept
<1> QED BY <1>6, <1>7

\* The instruction executed is the next one published.
LEMMA ExecuteStream ==
  ASSUME LInv, Execute
  PROVE  SpuInv' /\ \A p \in Queues : StreamInv(p)'
<1>0. TInv /\ SpuInv /\ (\A p \in Queues : StreamInv(p)) /\ cur \in Queues
  BY DEF LInv, TInv, TypeOK
<1>1. /\ pc = "loop" /\ wptr # rptr /\ Cached /\ pc' = "store"
      /\ rptr' = rptr + 1 + Current.size
      /\ done' = [done EXCEPT ![cur] = Append(done[cur], Identity)]
      /\ UNCHANGED <<mem, write_ptr, read_ptr, clientVars, cur, wptr, fifo>>
  BY DEF Execute
<1>2. UNCHANGED <<ahead, pend, client, sent>> BY <1>1 DEF clientVars
<1>3. SpuInv' BY <1>0, <1>1 DEF SpuInv
<1>a. PICK c \in Queues : c = cur BY <1>0
<1>4. ASSUME NEW p \in Queues \ {c} PROVE StreamInv(p)'
  <2>1. done'[p] = done[p] BY <1>0, <1>1, <1>a DEF TInv, TypeOK
  <2>2. Position(p)' = Position(p) BY <1>1, <1>a DEF Position
  <2>3. ~(pc' = "store" /\ cur' = p) BY <1>1, <1>a
  <2> QED BY <1>0, <1>1, <1>2, <2>1, <2>2, <2>3, StreamKept
<1>5. StreamInv(c)'
  <2>1. PICK q \in Queues : q = cur /\ q = c BY <1>a
  <2>2. PICK at \in [Nat -> Nat] : Lies(q, at) BY <1>0 DEF StreamInv
  <2>3. PICK e : e = Identity OBVIOUS
  <2>4. PICK a, b, n \in Nat : /\ a = Len(done[q]) /\ b = Len(sent[q]) /\ n = Len(Of(q))
                               /\ a <= b /\ b <= n
    BY <1>0, Counts
  <2>5. /\ a + 1 \in 1 .. b /\ e = sent[q][a + 1] /\ rptr = at[a + 1]
        /\ at[a + 2] = rptr + 1 + Current.size
    <3>1. /\ Len(done[q]) + 1 \in 1 .. Len(sent[q]) /\ rptr = at[Len(done[q]) + 1]
          /\ Identity = sent[q][Len(done[q]) + 1]
          /\ at[(Len(done[q]) + 1) + 1] = rptr + 1 + Current.size
      BY <1>1, <2>1, <2>2, NextIsPublished
    <3>2. (a + 1) + 1 = a + 2 OBVIOUS
    <3> QED BY <2>3, <2>4, <3>1, <3>2
  <2>6. /\ Len(done'[q]) = a + 1 /\ done'[q][a + 1] = e
        /\ \A k \in 1 .. a : done'[q][k] = done[q][k]
    <3>1. done'[q] = Append(done[q], e) BY <1>0, <1>1, <2>1, <2>3 DEF TInv, TypeOK
    <3>2. PICK t \in Seq(0 .. MaxCommands) : t = done[q] BY <1>0, QueueTypes
    <3>3. /\ Len(Append(t, e)) = Len(t) + 1 /\ Append(t, e)[Len(t) + 1] = e
          /\ \A k \in 1 .. Len(t) : Append(t, e)[k] = t[k]
      BY <3>2
    <3> QED BY <2>4, <3>1, <3>2, <3>3
  <2>7. \A k \in 1 .. (a + 1) : done'[q][k] = sent[q][k]
    <3> SUFFICES ASSUME NEW k \in 1 .. (a + 1) PROVE done'[q][k] = sent[q][k]
      OBVIOUS
    <3>1. k \in 1 .. a \/ k = a + 1 OBVIOUS
    <3>2. CASE k = a + 1 BY <2>5, <2>6, <3>2
    <3>3. CASE k \in 1 .. a
      <4>1. done[q][k] = sent[q][k] BY <1>0, <2>4, <3>3 DEF StreamInv
      <4> QED BY <2>6, <3>3, <4>1
    <3> QED BY <3>1, <3>2, <3>3
  <2>8. Lies(q, at)'
    <3>1. Of(q)' = Of(q) BY <1>2 DEF Of
    <3>2. Position(q)' = at[a + 2] BY <1>1, <2>1, <2>5 DEF Position
    <3>3. at[a + 1] = read_ptr'[q] BY <1>0, <1>1, <2>1, <2>5 DEF SpuInv
    <3>4. a + 1 > 0 /\ (a + 1) + 1 = a + 2 OBVIOUS
    <3> QED BY <1>1, <1>2, <2>2, <2>6, <3>1, <3>2, <3>3, <3>4 DEF Lies
  <2>9. a + 1 <= b BY <2>4, <2>5
  <2>10. Len(done'[q]) <= Len(sent'[q])
         /\ \A k \in 1 .. Len(done'[q]) : done'[q][k] = sent'[q][k]
    BY <1>2, <2>4, <2>6, <2>7, <2>9
  <2>11. client'[q] = "free" BY <1>0, <1>2 DEF StreamInv
  <2>12. StreamInv(q)' BY <2>2, <2>8, <2>10, <2>11 DEF StreamInv
  <2> QED BY <2>1, <2>12
<1> QED BY <1>3, <1>4, <1>5

\* No jump is ever in the window.
LEMMA NothingToJump == LInv => ~TakeJump
<1> SUFFICES ASSUME LInv, TakeJump PROVE FALSE
  OBVIOUS
<1>1. pc = "loop" /\ wptr # rptr /\ Cached /\ Current.kind = "jump" BY DEF TakeJump
<1>2. cur \in Queues /\ StreamInv(cur) BY DEF LInv, TInv, TypeOK
<1>3. PICK at \in [Nat -> Nat] : Lies(cur, at) BY <1>2 DEF StreamInv
<1>4. Current.kind = "command" BY <1>1, <1>3, NextIsPublished
<1> QED BY <1>1, <1>4

\* What changes the SPU's copy of the line or its reservation only.
LEMMA LineStream ==
  ASSUME LInv, Reload \/ LoseReservation \/ UNCHANGED vars
  PROVE  SpuInv' /\ \A p \in Queues : StreamInv(p)'
<1>0. SpuInv /\ \A p \in Queues : StreamInv(p) BY DEF LInv
<1>1. UNCHANGED <<mem, write_ptr, read_ptr, clientVars, done, pc, cur, wptr, rptr, fifo>>
  <2>1. CASE Reload BY <2>1 DEF Reload
  <2>2. CASE LoseReservation BY <2>2 DEF LoseReservation, spuVars
  <2>3. CASE UNCHANGED vars BY <2>3 DEF vars, spuVars
  <2> QED BY <2>1, <2>2, <2>3
<1>2. SpuInv' BY <1>0, <1>1 DEF SpuInv
<1>3. ASSUME NEW p \in Queues PROVE StreamInv(p)'
  <2>1. Position(p)' = Position(p) BY <1>1 DEF Position
  <2>2. UNCHANGED <<ahead, pend, client, sent>> BY <1>1 DEF clientVars
  <2>3. pc' = "store" /\ cur' = p => pc = "store" /\ cur = p /\ read_ptr'[p] = read_ptr[p]
    BY <1>1
  <2> QED BY <1>0, <1>1, <2>1, <2>2, <2>3, StreamKept
<1> QED BY <1>2, <1>3

LEMMA StreamStep ==
  ASSUME Straight, Straight', LInv, TInv', ReservationInv', [Next]_vars
  PROVE  LInv'
<1>0. TInv /\ \A q \in Queues : client[q] = "free" BY DEF LInv, StreamInv
<1>1. SpuInv' /\ \A p \in Queues : StreamInv(p)'
  <2>1. ASSUME NEW q \in Queues, NEW s \in 0 .. 1, WriteCommand(q, s)
        PROVE  SpuInv' /\ \A p \in Queues : StreamInv(p)'
    BY <2>1, WriteStream
  <2>2. ASSUME NEW q \in Queues, Publish(q)
        PROVE  SpuInv' /\ \A p \in Queues : StreamInv(p)'
    BY <2>2, PublishStream
  <2>3. ASSUME NEW q \in Queues, WriteJump(q) \/ SetTarget(q) \/ Recreate(q) PROVE FALSE
    BY <1>0, <2>3, OneLap
  <2>4. ASSUME NEW q \in Queues, Visit(q)
        PROVE  SpuInv' /\ \A p \in Queues : StreamInv(p)'
    BY <2>4, VisitStream
  <2>5. CASE Leave \/ Busy BY <2>5, LeaveStream
  <2>6. CASE Fetch BY <2>6, FetchStream
  <2>7. CASE Execute BY <2>7, ExecuteStream
  <2>8. CASE TakeJump BY <2>8, NothingToJump
  <2>9. CASE Store BY <2>9, StoreStream
  <2>10. CASE Reload \/ LoseReservation \/ UNCHANGED vars BY <2>10, LineStream
  <2> QED
    BY <2>1, <2>2, <2>3, <2>4, <2>5, <2>6, <2>7, <2>8, <2>9, <2>10
       DEF Next, Client, SPU, Work
<1> QED BY <1>1 DEF LInv

StraightInv == TInv /\ ReservationInv /\ (Straight => LInv)

LEMMA StraightInvInit == Init => StraightInv
<1> SUFFICES ASSUME Init PROVE StraightInv
  OBVIOUS
<1> QED BY StreamInit DEF StraightInv, LInv

LEMMA StraightInvStep ==
  ASSUME StraightInv, TInv', [Next]_vars
  PROVE  StraightInv'
<1>1. TInv /\ ReservationInv BY DEF StraightInv
<1>2. ReservationInv' BY <1>1, ReservationStep
<1>3. ASSUME Straight' PROVE LInv'
  <2>1. Straight BY <1>1, <1>3, StraightBefore
  <2>2. LInv BY <2>1 DEF StraightInv
  <2> QED BY <1>2, <1>3, <2>1, <2>2, StreamStep
<1> QED BY <1>2, <1>3 DEF StraightInv

LEMMA SameSequence ==
  ASSUME NEW S, NEW T, NEW t \in Seq(S), NEW u \in Seq(T),
         Len(t) = Len(u), \A k \in 1 .. Len(t) : t[k] = u[k]
  PROVE  t = u
OBVIOUS

\* For any number of queues and clients, as long as no client has returned to the start
\* of its buffer and no queue has been allocated anew: when the two pointers of a queue
\* meet, every instruction published on it has been executed, each once and in its order
\* (client/glfifo.c:318-323).
THEOREM EmptyQueueIsExecuted == Spec => []StraightIsExecuted
<1>1. LInv => EmptyMeansExecuted
  <2> SUFFICES ASSUME LInv, NEW q \in Queues, write_ptr[q] = read_ptr[q]
               PROVE  done[q] = sent[q]
    BY DEF EmptyMeansExecuted
  <2>1. TInv /\ SpuInv /\ StreamInv(q) BY DEF LInv
  <2>2. PICK at \in [Nat -> Nat] : Lies(q, at) BY <2>1 DEF StreamInv
  <2>3. Len(done[q]) = Len(sent[q])
    <3>1. CASE Position(q) = read_ptr[q] BY <2>1, <2>2, <3>1, Pointers
    <3>2. CASE Position(q) # read_ptr[q]
      <4>1. cur = q /\ pc = "store" BY <2>1, <3>2 DEF Position, SpuInv
      <4>2. PICK a, b, n \in Nat : /\ a = Len(done[q]) /\ b = Len(sent[q]) /\ n = Len(Of(q))
                                   /\ a <= b /\ b <= n
        BY <2>1, Counts
      <4>3. a > 0 /\ at[a] = at[b + 1] /\ a \in 1 .. (n + 1) /\ b + 1 \in 1 .. (n + 1) /\ a < b + 1
        <5>1. a > 0 /\ at[a] = read_ptr[q] /\ at[b + 1] = write_ptr[q]
          BY <2>2, <4>1, <4>2 DEF Lies
        <5>2. a <= b /\ b <= n BY <4>2
        <5>3. a \in 1 .. (n + 1) /\ b + 1 \in 1 .. (n + 1) /\ a < b + 1 BY <5>1, <5>2
        <5> QED BY <5>1, <5>3
      <4>4. \A j, k \in 1 .. (n + 1) : j < k => at[j] < at[k]
        BY <2>2, <4>2 DEF Lies, LaidOut
      <4>5. at[a] < at[b + 1] /\ at[a] \in Nat BY <4>3, <4>4
      <4> QED BY <4>3, <4>5
    <3> QED BY <3>1, <3>2
  <2>4. \A k \in 1 .. Len(done[q]) : done[q][k] = sent[q][k] BY <2>1 DEF StreamInv
  <2>5. PICK t, u : t = done[q] /\ u = sent[q] OBVIOUS
  <2>6. t \in Seq(0 .. MaxCommands) /\ u \in Seq(Commands) BY <2>1, <2>5, QueueTypes
  <2>7. Len(t) = Len(u) /\ \A k \in 1 .. Len(t) : t[k] = u[k] BY <2>3, <2>4, <2>5
  <2>8. t = u BY <2>6, <2>7, SameSequence
  <2> QED BY <2>5, <2>8
<1>2. StraightInv => StraightIsExecuted BY <1>1 DEF StraightInv, StraightIsExecuted
<1> QED BY <1>2, StraightInvInit, StraightInvStep, TypesInvariance, PTL DEF Spec

-----------------------------------------------------------------------------
(* The promise of CommandStream.                                            *)

\* What is between the pointers of the client is a batch of new instructions.
BatchInv ==
  \A q \in Queues :
    /\ Len(pend[q]) <= MaxBatch
    /\ \A k \in 1 .. Len(pend[q]) : pend[q][k] <= Len(issuedTo)
    /\ \A j, k \in 1 .. Len(pend[q]) : j < k => pend[q][j] < pend[q][k]

LEMMA BatchInit == Init => BatchInv
<1> SUFFICES ASSUME Init, NEW q \in Queues
             PROVE  /\ Len(pend[q]) <= MaxBatch
                    /\ \A k \in 1 .. Len(pend[q]) : pend[q][k] <= Len(issuedTo)
                    /\ \A j, k \in 1 .. Len(pend[q]) : j < k => pend[q][j] < pend[q][k]
  BY DEF BatchInv
<1>1. Len(pend[q]) = 0 BY DEF Init
<1>2. MaxBatch \in Nat BY FifoAssumption
<1> QED BY <1>1, <1>2

\* A batch with one instruction more, the newest.
LEMMA BatchGrows ==
  ASSUME NEW S, S \subseteq Nat, NEW u \in Seq(S), NEW old \in Nat,
         \A k \in 1 .. Len(u) : u[k] <= old,
         \A j, k \in 1 .. Len(u) : j < k => u[j] < u[k],
         NEW v, v = Append(u, old + 1)
  PROVE  /\ Len(v) = Len(u) + 1
         /\ \A k \in 1 .. Len(v) : v[k] <= old + 1
         /\ \A j, k \in 1 .. Len(v) : j < k => v[j] < v[k]
<1>1. PICK n \in Nat : n = Len(u) OBVIOUS
<1>2. \A k \in 1 .. n : u[k] \in Nat
  <2>1. \A k \in 1 .. Len(u) : u[k] \in S BY Elements
  <2> QED BY <1>1, <2>1
<1>3. Len(v) = n + 1 /\ v[n + 1] = old + 1 /\ \A k \in 1 .. n : v[k] = u[k] BY <1>1
<1>4. \A k \in 1 .. (n + 1) : k \in 1 .. n \/ k = n + 1 OBVIOUS
<1>5. \A k \in 1 .. n : u[k] \in Nat /\ u[k] <= old BY <1>1, <1>2
<1>6. \A k \in 1 .. (n + 1) : v[k] <= old + 1
  <2> SUFFICES ASSUME NEW k \in 1 .. (n + 1) PROVE v[k] <= old + 1
    OBVIOUS
  <2>1. CASE k = n + 1 BY <1>3, <2>1
  <2>2. CASE k \in 1 .. n
    <3>1. PICK x \in Nat : x = u[k] /\ x <= old BY <1>5, <2>2
    <3>2. x <= old + 1 BY <3>1
    <3> QED BY <1>3, <2>2, <3>1, <3>2
  <2> QED BY <1>4, <2>1, <2>2
<1>7. \A j, k \in 1 .. (n + 1) : j < k => v[j] < v[k]
  <2> SUFFICES ASSUME NEW j \in 1 .. (n + 1), NEW k \in 1 .. (n + 1), j < k
               PROVE  v[j] < v[k]
    OBVIOUS
  <2>1. j \in 1 .. n OBVIOUS
  <2>2. PICK x \in Nat : x = u[j] /\ x <= old BY <1>5, <2>1
  <2>3. CASE k = n + 1
    <3>1. x < old + 1 BY <2>2
    <3> QED BY <1>3, <2>1, <2>2, <2>3, <3>1
  <2>4. CASE k \in 1 .. n
    <3>1. u[j] < u[k] BY <1>1, <2>1, <2>4
    <3> QED BY <1>3, <2>1, <2>4, <3>1
  <2> QED BY <1>4, <2>3, <2>4
<1> QED BY <1>1, <1>3, <1>6, <1>7

LEMMA BatchStep == TInv /\ BatchInv /\ [Next]_vars => BatchInv'
<1> SUFFICES ASSUME TInv, BatchInv, [Next]_vars PROVE BatchInv'
  OBVIOUS
<1>1. ASSUME UNCHANGED <<pend, issuedTo>> PROVE BatchInv' BY <1>1 DEF BatchInv
<1>2. ASSUME NEW q \in Queues, UNCHANGED issuedTo, pend' = [pend EXCEPT ![q] = <<>>]
      PROVE  BatchInv'
  <2> SUFFICES ASSUME NEW p \in Queues
               PROVE  /\ Len(pend'[p]) <= MaxBatch
                      /\ \A k \in 1 .. Len(pend'[p]) : pend'[p][k] <= Len(issuedTo')
                      /\ \A j, k \in 1 .. Len(pend'[p]) : j < k => pend'[p][j] < pend'[p][k]
    BY DEF BatchInv
  <2>1. pend \in [Queues -> Seq(Commands)] BY DEF TInv, TypeOK
  <2>2. CASE p # q
    <3>1. pend'[p] = pend[p] BY <1>2, <2>1, <2>2
    <3> QED BY <1>2, <3>1 DEF BatchInv
  <2>3. CASE p = q
    <3>1. Len(pend'[p]) = 0 BY <1>2, <2>1, <2>3
    <3> QED BY <3>1, FifoAssumption
  <2> QED BY <2>2, <2>3
<1>3. ASSUME NEW q \in Queues, NEW s \in 0 .. 1, WriteCommand(q, s) PROVE BatchInv'
  <2> SUFFICES ASSUME NEW p \in Queues
               PROVE  /\ Len(pend'[p]) <= MaxBatch
                      /\ \A k \in 1 .. Len(pend'[p]) : pend'[p][k] <= Len(issuedTo')
                      /\ \A j, k \in 1 .. Len(pend'[p]) : j < k => pend'[p][j] < pend'[p][k]
    BY DEF BatchInv
  <2>1. pend \in [Queues -> Seq(Commands)] /\ issuedTo \in Seq(Queues) BY DEF TInv, TypeOK
  <2>2. PICK old \in Nat : old = Len(issuedTo) BY <2>1
  <2>3. /\ issuedTo' = Append(issuedTo, q) /\ Len(pend[q]) < MaxBatch
        /\ pend' = [pend EXCEPT ![q] = Append(pend[q], old + 1)]
    BY <1>3, <2>2 DEF WriteCommand
  <2>4. Len(issuedTo') = old + 1 BY <2>1, <2>2, <2>3
  <2>5. Commands \subseteq Nat BY Naturals1 DEF Commands
  <2>6. PICK u \in Seq(Commands) : u = pend[p] BY <2>1
  <2>7. /\ Len(u) <= MaxBatch
        /\ \A k \in 1 .. Len(u) : u[k] <= old
        /\ \A j, k \in 1 .. Len(u) : j < k => u[j] < u[k]
    BY <2>2, <2>6 DEF BatchInv
  <2>8. CASE p # q
    <3>1. pend'[p] = u BY <2>1, <2>3, <2>6, <2>8
    <3>2. \A k \in 1 .. Len(u) : u[k] <= old + 1
      <4> SUFFICES ASSUME NEW k \in 1 .. Len(u) PROVE u[k] <= old + 1
        OBVIOUS
      <4>1. PICK x : x = u[k] OBVIOUS
      <4>2. x \in Nat /\ x <= old BY <2>5, <2>7, <4>1, Elements
      <4>3. x <= old + 1 BY <4>2
      <4> QED BY <4>1, <4>3
    <3> QED BY <2>4, <2>7, <3>1, <3>2
  <2>9. CASE p = q
    <3>1. pend'[p] = Append(u, old + 1) BY <2>1, <2>3, <2>6, <2>9
    <3>2. PICK v : v = pend'[p] OBVIOUS
    <3>3. /\ Len(v) = Len(u) + 1
          /\ \A k \in 1 .. Len(v) : v[k] <= old + 1
          /\ \A j, k \in 1 .. Len(v) : j < k => v[j] < v[k]
      BY <2>5, <2>7, <3>1, <3>2, BatchGrows
    <3>4. Len(u) + 1 <= MaxBatch
      <4>1. PICK n \in Nat : n = Len(u) OBVIOUS
      <4>2. n < MaxBatch /\ MaxBatch \in Nat BY <2>3, <2>6, <2>9, <4>1, FifoAssumption
      <4> QED BY <4>1, <4>2
    <3> QED BY <2>4, <3>2, <3>3, <3>4
  <2> QED BY <2>8, <2>9
<1>4. ASSUME NEW q \in Queues, Publish(q) \/ Recreate(q) PROVE BatchInv'
  <2>1. UNCHANGED issuedTo /\ pend' = [pend EXCEPT ![q] = <<>>]
    BY <1>4 DEF Publish, Recreate
  <2> QED BY <1>2, <2>1
<1>5. ASSUME NEW q \in Queues, WriteJump(q) \/ SetTarget(q) PROVE BatchInv'
  BY <1>1, <1>5 DEF WriteJump, SetTarget
<1>6. CASE SPU \/ UNCHANGED vars
  <2>1. UNCHANGED clientVars
    <3>1. ASSUME NEW q \in Queues, Visit(q) PROVE UNCHANGED clientVars BY <3>1 DEF Visit
    <3>2. CASE Work
      BY <3>2 DEF Work, Leave, Fetch, Execute, Busy, TakeJump, Store, Reload
    <3>3. CASE LoseReservation BY <3>3 DEF LoseReservation
    <3>4. CASE UNCHANGED vars BY <3>4 DEF vars
    <3> QED BY <1>6, <3>1, <3>2, <3>3, <3>4 DEF SPU
  <2> QED BY <1>1, <2>1 DEF clientVars
<1> QED BY <1>3, <1>4, <1>5, <1>6 DEF Next, Client

\* An increasing batch of one or two is what CommandStream publishes.
LEMMA BatchIsInjective ==
  ASSUME NEW S, S \subseteq Nat, NEW u \in Seq(S), Len(u) \in 1 .. 2,
         \A j, k \in 1 .. Len(u) : j < k => u[j] < u[k]
  PROVE  u \in UNION {[1 .. n -> S] : n \in 1 .. 2} /\ Stream!IsInjective(u)
<1>1. PICK n \in 1 .. 2 : n = Len(u) OBVIOUS
<1>2. u \in [1 .. n -> S] BY <1>1
<1>3. u \in UNION {[1 .. m -> S] : m \in 1 .. 2} BY <1>1, <1>2
<1>4. ASSUME NEW a \in 1 .. n, NEW b \in 1 .. n, u[a] = u[b] PROVE a = b
  <2>1. u[a] \in Nat /\ u[b] \in Nat BY <1>2
  <2>2. ~(a < b) BY <1>1, <1>4, <2>1
  <2>3. ~(b < a) BY <1>1, <1>4, <2>1
  <2> QED BY <2>2, <2>3
<1>5. DOMAIN u = 1 .. n BY <1>2
<1>6. Stream!IsInjective(u) BY <1>4, <1>5 DEF Stream!IsInjective
<1> QED BY <1>3, <1>6

\* A move of the write pointer publishes the batch behind it.
LEMMA PublishRefines ==
  ASSUME Straight, Straight', LInv, BatchInv, MaxBatch <= 2, NEW q \in Queues, Publish(q)
  PROVE  Stream!Publish(q)
<1>1. TInv /\ StreamInv(q) BY DEF LInv
<1>2. /\ ahead[q] # write_ptr[q]
      /\ sent' = [sent EXCEPT ![q] = sent[q] \o pend[q]]
      /\ UNCHANGED done
  BY DEF Publish
<1>3. PICK at \in [Nat -> Nat] : Lies(q, at) BY <1>1 DEF StreamInv
<1>4. Len(pend[q]) > 0 BY <1>1, <1>2, <1>3, Pointers
<1>5. PICK u : u = pend[q] OBVIOUS
<1>6. u \in Seq(Commands) BY <1>1, <1>5, QueueTypes
<1>7. Commands \subseteq Nat BY Naturals1 DEF Commands
<1>8. /\ Len(u) <= MaxBatch
      /\ \A j, k \in 1 .. Len(u) : j < k => u[j] < u[k]
  BY <1>5 DEF BatchInv
<1>9. Len(u) \in 1 .. 2
  <2>1. PICK n \in Nat : n = Len(u) BY <1>6
  <2>2. n > 0 /\ n <= MaxBatch /\ MaxBatch \in Nat BY <1>4, <1>5, <1>8, <2>1, FifoAssumption
  <2>3. n \in 1 .. 2 BY <2>2
  <2> QED BY <2>1, <2>3
<1>10. u \in UNION {[1 .. n -> Commands] : n \in 1 .. 2} /\ Stream!IsInjective(u)
  BY <1>6, <1>7, <1>8, <1>9, BatchIsInjective
<1>11. sent' = [sent EXCEPT ![q] = sent[q] \o u] /\ UNCHANGED done BY <1>2, <1>5
<1>12. Straight' = Straight BY DEF Straight
<1> QED BY <1>10, <1>11, <1>12 DEF Stream!Publish

\* t and the element c after it are the beginning of u.
Begins(t, c, u, n) == Append(t, c) = SubSeq(u, 1, n + 1)

LEMMA IsBeginning ==
  ASSUME NEW S, NEW T, NEW t \in Seq(S), NEW u \in Seq(T), NEW n \in Nat,
         n = Len(t), n < Len(u), \A k \in 1 .. n : t[k] = u[k],
         NEW c \in S, c = u[n + 1]
  PROVE  Begins(t, c, u, n)
<1>1. PICK v, w : v = Append(t, c) /\ w = SubSeq(u, 1, n + 1) OBVIOUS
<1>2. v \in Seq(S) /\ Len(v) = n + 1 /\ v[n + 1] = c /\ \A k \in 1 .. n : v[k] = t[k]
  BY <1>1
<1>3. w \in Seq(T) /\ Len(w) = n + 1 /\ \A k \in 1 .. (n + 1) : w[k] = u[k]
  BY <1>1
<1>4. \A k \in 1 .. (n + 1) : k \in 1 .. n \/ k = n + 1 OBVIOUS
<1>5. \A k \in 1 .. (n + 1) : v[k] = w[k] BY <1>2, <1>3, <1>4
<1>6. v = w BY <1>2, <1>3, <1>5, SameSequence
<1> QED BY <1>1, <1>6 DEF Begins

\* What the SPU executes is the next published instruction.
LEMMA ExecuteRefines ==
  ASSUME Straight, Straight', LInv, Execute
  PROVE  cur \in Queues /\ Stream!Execute(cur)
<1>1. TInv /\ cur \in Queues BY DEF LInv, TInv, TypeOK
<1>2. StreamInv(cur) BY <1>1 DEF LInv
<1>3. /\ pc = "loop" /\ wptr # rptr /\ Cached
      /\ done' = [done EXCEPT ![cur] = Append(done[cur], Identity)]
      /\ UNCHANGED sent
  BY DEF Execute, clientVars
<1>4. PICK at \in [Nat -> Nat] : Lies(cur, at) BY <1>2 DEF StreamInv
<1>5. PICK t, u, n : t = done[cur] /\ u = sent[cur] /\ n = Len(done[cur]) OBVIOUS
<1>6. t \in Seq(0 .. MaxCommands) /\ u \in Seq(Commands) /\ n \in Nat BY <1>1, <1>5, QueueTypes
<1>7. n + 1 \in 1 .. Len(u) /\ Identity = u[n + 1] BY <1>3, <1>4, <1>5, NextIsPublished
<1>8. \A k \in 1 .. n : t[k] = u[k] BY <1>2, <1>5 DEF StreamInv
<1>9. PICK c : c = Identity OBVIOUS
<1>c. c \in 0 .. MaxCommands /\ c = u[n + 1]
  <2>1. \A k \in 1 .. Len(u) : u[k] \in 1 .. MaxCommands BY <1>6, Elements DEF Commands
  <2>2. c = u[n + 1] /\ c \in 1 .. MaxCommands BY <1>7, <1>9, <2>1
  <2>3. c \in 0 .. MaxCommands BY <2>2
  <2> QED BY <2>2, <2>3
<1>10. n < Len(u)
  <2>1. PICK m \in Nat : m = Len(u) BY <1>6
  <2>2. n + 1 <= m BY <1>7, <2>1
  <2>3. n < m BY <1>6, <2>1, <2>2
  <2> QED BY <2>1, <2>3
<1>11. Begins(t, c, u, n)
  <2>1. n = Len(t) BY <1>5
  <2> QED BY <1>6, <1>8, <1>10, <1>c, <2>1, IsBeginning
<1>12. done' = [done EXCEPT ![cur] = SubSeq(sent[cur], 1, Len(done[cur]) + 1)]
  BY <1>3, <1>5, <1>9, <1>11 DEF Begins
<1>13. Len(done[cur]) < Len(sent[cur]) BY <1>5, <1>10
<1>14. Straight' = Straight BY DEF Straight
<1> QED BY <1>1, <1>3, <1>12, <1>13, <1>14 DEF Stream!Execute

\* A step before which and after which no queue has been started over.
LEMMA StraightStepRefines ==
  ASSUME Straight, Straight', MaxBatch <= 2, LInv, BatchInv, [Next]_vars
  PROVE  Stream!Next \/ UNCHANGED <<sent, done>>
<1>0. \A q \in Queues : client[q] = "free" BY DEF LInv, StreamInv
<1>1. ASSUME NEW q \in Queues, NEW s \in 0 .. 1, WriteCommand(q, s)
      PROVE  UNCHANGED <<sent, done>>
  BY <1>1 DEF WriteCommand
<1>2. ASSUME NEW q \in Queues, Publish(q) PROVE Stream!Next
  <2>1. Stream!Publish(q) BY <1>2, PublishRefines
  <2> QED BY <2>1 DEF Stream!Next
<1>3. ASSUME NEW q \in Queues, WriteJump(q) \/ SetTarget(q) \/ Recreate(q) PROVE FALSE
  BY <1>0, <1>3, OneLap
<1>4. ASSUME NEW q \in Queues, Visit(q) PROVE UNCHANGED <<sent, done>>
  BY <1>4 DEF Visit, clientVars
<1>5. CASE Leave \/ Busy \/ Fetch \/ TakeJump \/ Store \/ Reload \/ LoseReservation
  BY <1>5 DEF Leave, Busy, Fetch, TakeJump, Store, Reload, LoseReservation, clientVars
<1>6. CASE Execute
  <2>1. cur \in Queues /\ Stream!Execute(cur) BY <1>6, ExecuteRefines
  <2> QED BY <2>1 DEF Stream!Next
<1>7. CASE UNCHANGED vars BY <1>7 DEF vars, clientVars
<1> QED
  BY <1>1, <1>2, <1>3, <1>4, <1>5, <1>6, <1>7 DEF Next, Client, SPU, Work

LEMMA StreamRefines ==
  ASSUME MaxBatch <= 2, StraightInv, BatchInv, [Next]_vars
  PROVE  [Stream!Next]_(Stream!vars)
<1>0. Straight \in BOOLEAN /\ Straight' \in BOOLEAN BY DEF Straight
<1>1. CASE Straight /\ Straight'
  <2>1. LInv BY <1>1 DEF StraightInv
  <2>2. Stream!Next \/ UNCHANGED <<sent, done>> BY <1>1, <2>1, StraightStepRefines
  <2>3. UNCHANGED <<sent, done>> => UNCHANGED Stream!vars BY <1>0, <1>1 DEF Stream!vars
  <2> QED BY <2>2, <2>3
<1>2. CASE Straight /\ ~Straight'
  <2>1. Stream!Restart BY <1>0, <1>2 DEF Stream!Restart
  <2> QED BY <2>1 DEF Stream!Next
<1>3. CASE ~Straight
  <2>1. ~Straight' BY <1>3, StraightBefore DEF StraightInv
  <2> QED BY <1>0, <1>3, <2>1 DEF Stream!vars
<1> QED BY <1>1, <1>2, <1>3

\* For any number of queues and clients a queue never does what CommandStream does not
\* allow.  Until a client returns to the start of its buffer or a queue is allocated
\* anew, what is published is executed in its order, each instruction once and none that
\* was not published, over windows of any size and stores that fail
\* (server/primaryspu/main.c:78-205).
THEOREM QueueIsAStream == MaxBatch <= 2 => (Spec => Stream!SafetySpec)
<1>1. Init => Stream!Init
  <2> SUFFICES ASSUME Init PROVE Stream!Init
    OBVIOUS
  <2>1. Straight = TRUE BY DEF Init, Straight
  <2> QED BY <2>1 DEF Init, Stream!Init
<1> QED
  <2> SUFFICES ASSUME MaxBatch <= 2 PROVE Spec => Stream!SafetySpec
    OBVIOUS
  <2>1. Init => StraightInv /\ BatchInv BY StraightInvInit, BatchInit
  <2>2. (StraightInv /\ BatchInv) /\ TInv' /\ [Next]_vars => (StraightInv /\ BatchInv)'
    BY StraightInvStep, BatchStep DEF StraightInv
  <2>3. StraightInv /\ BatchInv /\ [Next]_vars => [Stream!Next]_(Stream!vars)
    BY StreamRefines
  <2> QED BY <1>1, <2>1, <2>2, <2>3, TypesInvariance, PTL DEF Spec, Stream!SafetySpec
=============================================================================
