-------------------------- MODULE DrawTargetProofs --------------------------
(***************************************************************************)
(* For any number of clients and slots: where triangles go, when they are  *)
(* drawn, and with which shader.  A triangle that is pending either went   *)
(* astray or belongs to a client that is drawing on that very renderable   *)
(* (or vanished while it did); the rest follows from there.                *)
(***************************************************************************)
EXTENDS DrawTarget, TLAPS

ClientStates == [pc : Running \cup {"out", "left", "vanished"},
                 queue : Queues \cup {NULL}, id : Frames \cup {NULL},
                 commands : 0 .. MaxCommands]
ContextStates == [renderable : Frames \cup {NULL}, shader : Clients \cup {NULL}]
PlaceStates   == [context : Queues \cup {NULL}, target : Frames \cup {NULL}]

\* Who holds a slot: one client each.
ClientsInv ==
  /\ client \in [Clients -> ClientStates]
  /\ \A c \in Clients : pc(c) \in Running => client[c].queue \in Queues
  /\ \A c, d \in Clients : pc(c) \in Running /\ pc(d) \in Running /\ c # d =>
                             client[c].queue # client[d].queue

SpuInv ==
  /\ context \in [Queues -> ContextStates]
  /\ currentTriangle \in PlaceStates
  /\ current_state \in Rows \cup {-1}
  /\ TRI \in Seq(Clients \cup {NULL}) /\ Len(TRI) <= 2
  /\ current_state = 13 => Len(TRI) = 1
  /\ fresh \subseteq Queues /\ interrupted \subseteq Queues

ScreenInv ==
  /\ visible \in Frames /\ flips \in 0 .. MaxFlips
  /\ flipper \in Clients \cup {NULL}

\* The place that is taken is kept free.
BuffersInv ==
  /\ buffers \in [Frames -> Seq(Triangles)]
  /\ \A f \in Frames : Len(buffers[f]) <= MaxPending
  /\ currentTriangle.target # NULL => Len(buffers[currentTriangle.target]) < MaxPending

Types == ClientsInv /\ SpuInv /\ ScreenInv /\ BuffersInv

-----------------------------------------------------------------------------
(* Types.                                                                   *)

LEMMA Constants ==
  /\ NumFrames \in {1, 2} /\ Frames \subseteq 0 .. 1 /\ Frames # {}
  /\ MaxFlips \in Nat /\ MaxCommands \in Nat /\ MaxPending \in Nat /\ MaxPending > 0 /\ MaxFlips > 0
  /\ NULL \notin Clients /\ NULL \notin Queues /\ NULL \notin Frames
BY DrawTargetAssumption DEF Frames

LEMMA InitTypes == Init => Types
<1> SUFFICES ASSUME Init PROVE Types OBVIOUS
<1>1. ClientsInv BY Constants DEF Init, ClientsInv, ClientStates, Outside, Running, Drawing, pc
<1>2. SpuInv BY DEF Init, SpuInv, ContextStates, PlaceStates, Rows
<1>3. ScreenInv BY Constants DEF Init, ScreenInv, Frames
<1>4. BuffersInv BY Constants DEF Init, BuffersInv
<1> QED BY <1>1, <1>2, <1>3, <1>4 DEF Types

\* A step of one client that keeps its slot, or gives it up.
LEMMA ClientMoves ==
  ASSUME ClientsInv, NEW c \in Clients, NEW s \in ClientStates,
         client' = [client EXCEPT ![c] = s],
         s.pc \in Running => pc(c) \in Running /\ s.queue = client[c].queue
  PROVE  ClientsInv'
BY DEF ClientsInv, pc

LEMMA PlacesAre ==
  ASSUME SpuInv, BuffersInv, NEW q \in Queues, NEW place \in Places(q)
  PROVE  /\ place \in PlaceStates /\ place.context = q /\ place.target \in Frames
         /\ Len(buffers[place.target]) < MaxPending
         /\ place = currentTriangle \/ place.target = context[q].renderable
<1>1. CASE Taken(q)
  <2>1. place = currentTriangle /\ place # Nowhere(q) BY <1>1 DEF Places
  <2>2. place \in PlaceStates /\ place.context = q /\ place.target # NULL
    BY <1>1, <2>1 DEF Taken, SpuInv
  <2>3. place.target \in Frames BY <2>2 DEF PlaceStates
  <2> QED BY <2>1, <2>2, <2>3 DEF BuffersInv
<1>2. CASE ~Taken(q)
  <2>1. PICK f \in Frames : place = [context |-> q, target |-> f] /\ f = context[q].renderable /\ HasRoom(f)
    BY <1>2 DEF Places
  <2> QED BY <2>1 DEF HasRoom, PlaceStates
<1> QED BY <1>1, <1>2

LEMMA WritesTypes ==
  ASSUME SpuInv, BuffersInv, NEW q \in Queues, NEW place \in Places(q), NEW t \in Triangles,
         Written(q, place, t)
  PROVE  BuffersInv' /\ currentTriangle' \in PlaceStates /\ fresh' \subseteq Queues
<1>1. place.target \in Frames /\ Len(buffers[place.target]) < MaxPending BY PlacesAre
<1>2. currentTriangle' = [context |-> q, target |-> NULL] BY DEF Written, Nowhere
<1>3. currentTriangle' \in PlaceStates BY <1>2 DEF PlaceStates
<1>4. buffers' = [buffers EXCEPT ![place.target] = Append(@, t)] BY DEF Written
<1>5. buffers' \in [Frames -> Seq(Triangles)] BY <1>1, <1>4 DEF BuffersInv
<1>6. \A f \in Frames : Len(buffers'[f]) <= MaxPending
  <2> TAKE f \in Frames
  <2>1. Len(buffers[f]) \in Nat /\ Len(buffers[f]) <= MaxPending BY DEF BuffersInv
  <2>2. CASE f = place.target
    <3>1. Len(buffers'[f]) = Len(buffers[f]) + 1 BY <1>1, <1>4, <2>2 DEF BuffersInv
    <3> QED BY <1>1, <2>1, <2>2, <3>1, Constants
  <2>3. CASE f # place.target BY <1>4, <2>1, <2>3 DEF BuffersInv
  <2> QED BY <2>2, <2>3
<1>7. currentTriangle'.target = NULL BY <1>2
<1>8. fresh' \subseteq Queues BY DEF Written, SpuInv
<1> QED BY <1>3, <1>5, <1>6, <1>7, <1>8 DEF BuffersInv

LEMMA NowhereTypes ==
  ASSUME BuffersInv, NEW q \in Queues, currentTriangle' = Nowhere(q), buffers' = buffers
  PROVE  BuffersInv' /\ currentTriangle' \in PlaceStates
BY DEF BuffersInv, Nowhere, PlaceStates

\* What the step of a client leaves of the screen and of the SPU.
LEMMA SameSpu == SpuInv /\ BuffersInv /\ UNCHANGED spuVars => SpuInv' /\ BuffersInv'
BY DEF spuVars, SpuInv, BuffersInv

LEMMA SameScreen == ScreenInv /\ UNCHANGED screenVars => ScreenInv'
BY DEF screenVars, ScreenInv

LEMMA AppendLength ==
  ASSUME NEW S, NEW s \in Seq(S), NEW e \in S
  PROVE  Append(s, e) \in Seq(S) /\ Len(Append(s, e)) = Len(s) + 1
OBVIOUS

LEMMA NextTypes == Types /\ [Next]_vars => Types'
<1> SUFFICES ASSUME Types, [Next]_vars PROVE Types' OBVIOUS
<1> USE DEF Types
<1>r. Running \subseteq Running \cup {"out", "left", "vanished"} OBVIOUS
<1>1. ASSUME NEW c \in Clients, Connect(c) PROVE Types'
  <2>1. PICK q \in Queues :
          /\ \A d \in Clients : pc(d) \in Running => client[d].queue # q
          /\ client' = [client EXCEPT ![c].pc = "connected", ![c].queue = q]
    BY <1>1 DEF Connect
  <2>2. client' \in [Clients -> ClientStates]
    <3>1. PICK s \in ClientStates : s = [client[c] EXCEPT !.pc = "connected", !.queue = q]
      BY DEF ClientsInv, ClientStates, Running
    <3>2. client' = [client EXCEPT ![c] = s] BY <2>1, <3>1 DEF ClientsInv, ClientStates
    <3> QED BY <3>1, <3>2 DEF ClientsInv
  <2>3. /\ \A d \in Clients : d # c => client'[d] = client[d]
        /\ client'[c].pc = "connected" /\ client'[c].queue = q
    BY <2>1 DEF ClientsInv, ClientStates
  <2>4. ClientsInv' BY <2>1, <2>2, <2>3 DEF ClientsInv, pc
  <2> QED BY <1>1, <2>4, SameSpu, SameScreen DEF Connect
<1>2. ASSUME NEW c \in Clients, NEW how \in {"left", "vanished"}, Release(c, how) PROVE Types'
  <2>1. PICK s \in ClientStates : s = [Outside EXCEPT !.pc = how]
    <3>1. 0 \in 0 .. MaxCommands BY Constants
    <3>2. [Outside EXCEPT !.pc = how] = [pc |-> how, queue |-> NULL, id |-> NULL, commands |-> 0]
      BY DEF Outside
    <3> QED BY <3>1, <3>2 DEF ClientStates
  <2>2. s.pc \notin Running BY <2>1 DEF Outside, Running, Drawing
  <2>3. ClientsInv' BY <1>2, <2>1, <2>2, ClientMoves DEF Release
  <2> QED BY <1>2, <2>3, SameSpu, SameScreen DEF Release
<1>3. ASSUME NEW c \in Clients, Flip(c) PROVE Types'
  <2>1. ScreenInv'
    <3>1. flips \in Nat /\ flips + 1 \in 0 .. MaxFlips BY <1>3, Constants DEF Flip, ScreenInv
    <3>2. visible' \in Frames BY <1>3, Constants DEF Flip, ScreenInv, Frames
    <3> QED BY <1>3, <3>1, <3>2 DEF Flip, ScreenInv
  <2>2. PICK f \in Frames : f = renderable_id(NumFrames - 1 - visible)
    BY Constants DEF ScreenInv, renderable_id, Frames
  <2>3. client' = [client EXCEPT ![c] = [@ EXCEPT !.pc = "flipped", !.commands = 0, !.id = f]]
    BY <1>3, <2>2 DEF Flip, ClientsInv, ClientStates
  <2>4. PICK s \in ClientStates : s = [client[c] EXCEPT !.pc = "flipped", !.commands = 0, !.id = f]
    <3>1. 0 \in 0 .. MaxCommands BY Constants
    <3> QED BY <3>1 DEF ClientsInv, ClientStates, Running
  <2>5. s.pc = "flipped" /\ s.queue = client[c].queue BY <2>4 DEF ClientsInv, ClientStates
  <2>6. pc(c) \in Running BY <1>3 DEF Flip, Running
  <2>7. ClientsInv' BY <2>3, <2>4, <2>5, <2>6, ClientMoves DEF ClientsInv
  <2> QED BY <1>3, <2>1, <2>7, SameSpu DEF Flip
<1>4. ASSUME NEW c \in Clients, DrawContext(c) PROVE Types'
  <2> DEFINE q == client[c].queue
  <2>1. q \in Queues BY <1>4 DEF ClientsInv, DrawContext, Running
  <2>2. client' = [client EXCEPT ![c] = [@ EXCEPT !.pc = "named", !.id = NULL]]
    BY <1>4 DEF DrawContext, ClientsInv, ClientStates
  <2>3. PICK s \in ClientStates : s = [client[c] EXCEPT !.pc = "named", !.id = NULL]
    BY DEF ClientsInv, ClientStates, Running, Drawing
  <2>4. s.queue = q BY <2>3 DEF ClientsInv, ClientStates
  <2>5. pc(c) \in Running BY <1>4 DEF DrawContext, Running
  <2>6. ClientsInv' BY <2>2, <2>3, <2>4, <2>5, ClientMoves DEF ClientsInv
  <2>7. PICK r \in Frames \cup {NULL} : context' = [context EXCEPT ![q].renderable = r]
    BY <1>4 DEF DrawContext, ClientsInv, ClientStates
  <2>8. context' \in [Queues -> ContextStates] BY <2>1, <2>7 DEF SpuInv, ContextStates
  <2>9. SpuInv' BY <1>4, <2>1, <2>8 DEF DrawContext, SpuInv
  <2>10. BuffersInv' BY <1>4 DEF DrawContext, BuffersInv
  <2> QED BY <1>4, <2>6, <2>9, <2>10, SameScreen DEF DrawContext
<1>5. ASSUME NEW c \in Clients, SelectPixelShader(c) PROVE Types'
  <2> DEFINE q == client[c].queue
  <2>1. q \in Queues BY <1>5 DEF ClientsInv, SelectPixelShader, Running, Drawing
  <2>2. context' = [context EXCEPT ![q].shader = c] BY <1>5 DEF SelectPixelShader
  <2>3. context' \in [Queues -> ContextStates] BY <2>1, <2>2 DEF SpuInv, ContextStates
  <2>4. SpuInv' BY <1>5, <2>3 DEF SelectPixelShader, SpuInv
  <2>5. BuffersInv' BY <1>5 DEF SelectPixelShader, BuffersInv
  <2>6. ClientsInv' BY <1>5 DEF SelectPixelShader, ClientsInv, pc
  <2> QED BY <1>5, <2>4, <2>5, <2>6, SameScreen DEF SelectPixelShader
<1>6. ASSUME NEW c \in Clients, ClearScreen(c) PROVE Types'
  <2> DEFINE q == client[c].queue
  <2>1. q \in Queues BY <1>6 DEF ClientsInv, ClearScreen, Running, Drawing
  <2>2. PICK place \in Places(q) : Written(q, place, Triangle(c, ClearShader(q)))
    BY <1>6 DEF ClearScreen
  <2>3. Triangle(c, ClearShader(q)) \in Triangles
    BY <2>1 DEF Triangle, Triangles, ClearShader, SpuInv, ContextStates
  <2>4. BuffersInv' /\ currentTriangle' \in PlaceStates /\ fresh' \subseteq Queues
    BY <2>1, <2>2, <2>3, WritesTypes
  <2>5. Inside(q) \subseteq Queues BY DEF Inside, ClientsInv, Running, Drawing
  <2>6. TRI' \in Seq(Clients \cup {NULL}) /\ Len(TRI') = Len(TRI)
    BY <1>6 DEF ClearScreen, SpuInv
  <2>7. SpuInv' BY <1>6, <2>4, <2>5, <2>6 DEF ClearScreen, SpuInv
  <2>8. client' = [client EXCEPT ![c] = [@ EXCEPT !.pc = "ready"]]
    BY <1>6 DEF ClearScreen, ClientsInv, ClientStates
  <2>9. PICK s \in ClientStates : s = [client[c] EXCEPT !.pc = "ready"]
    BY DEF ClientsInv, ClientStates, Running, Drawing
  <2>10. s.queue = q BY <2>9 DEF ClientsInv, ClientStates
  <2>11. pc(c) \in Running BY <1>6 DEF ClearScreen, Running, Drawing
  <2>12. ClientsInv' BY <2>8, <2>9, <2>10, <2>11, ClientMoves DEF ClientsInv
  <2> QED BY <1>6, <2>4, <2>7, <2>12, SameScreen DEF ClearScreen
<1>7. ASSUME NEW c \in Clients, Begin(c) PROVE Types'
  <2> DEFINE q == client[c].queue
  <2>0. PICK n \in 0 .. MaxCommands : n = client[c].commands + 1
    BY <1>7, Constants DEF Begin, ClientsInv, ClientStates
  <2>1. q \in Queues BY <1>7 DEF ClientsInv, Begin, Running, Drawing
  <2>2. Inside(q) \subseteq Queues BY DEF Inside, ClientsInv, Running, Drawing
  <2>3. current_state' = 4 /\ TRI' = <<>> BY <1>7 DEF Begin, Began
  <2>4. SpuInv' BY <1>7, <2>2, <2>3 DEF Begin, SpuInv, Rows
  <2>5. BuffersInv' BY <1>7 DEF Begin, BuffersInv
  <2>6. PICK s \in ClientStates : s = [client[c] EXCEPT !.pc = "inside", !.commands = n]
    BY DEF ClientsInv, ClientStates, Running, Drawing
  <2>7. client' = [client EXCEPT ![c] = [@ EXCEPT !.pc = "inside", !.commands = n]]
    BY <1>7, <2>0 DEF Begin, ClientsInv, ClientStates
  <2>8. s.queue = q BY <2>6 DEF ClientsInv, ClientStates
  <2>9. pc(c) \in Running BY <1>7 DEF Begin, Running, Drawing
  <2>10. ClientsInv' BY <2>6, <2>7, <2>8, <2>9, ClientMoves DEF ClientsInv
  <2> QED BY <1>7, <2>4, <2>5, <2>10, SameScreen DEF Begin
<1>8. ASSUME NEW c \in Clients, Vertex(c) PROVE Types'
  <2> DEFINE q == client[c].queue
  <2>0. PICK n \in 0 .. MaxCommands : n = client[c].commands + 1
    BY <1>8, Constants DEF Vertex, ClientsInv, ClientStates
  <2>1. q \in Queues BY <1>8 DEF ClientsInv, Vertex, Running, Drawing
  <2>2. Inside(q) \subseteq Queues BY DEF Inside, ClientsInv, Running, Drawing
  <2>3. PICK place \in Places(q), row \in RowsRead :
          /\ current_state' = RowAfter(row)
          /\ TRI' = IF row = 14 THEN <<>> ELSE Shuffled(row, c)
          /\ \/ row = 14 /\ Written(q, place, Triangle(c, context[q].shader))
             \/ currentTriangle' = place /\ UNCHANGED <<buffers, fresh>>
    BY <1>8 DEF Vertex
  <2>4. row \in Rows BY DEF RowsRead, SpuInv
  <2>5. Triangle(c, context[q].shader) \in Triangles
    BY <2>1 DEF Triangle, Triangles, SpuInv, ContextStates
  <2>6. place \in PlaceStates /\ place.target \in Frames /\ Len(buffers[place.target]) < MaxPending
    BY <2>1, PlacesAre
  <2>7. BuffersInv' /\ currentTriangle' \in PlaceStates /\ fresh' \subseteq Queues
    <3>1. CASE Written(q, place, Triangle(c, context[q].shader)) BY <2>1, <2>5, <3>1, WritesTypes
    <3>2. CASE currentTriangle' = place /\ UNCHANGED <<buffers, fresh>>
      BY <2>6, <3>2 DEF BuffersInv, SpuInv
    <3> QED BY <2>3, <3>1, <3>2
  <2>8. current_state' \in Rows BY <2>3, <2>4 DEF Rows, RowAfter
  <2>9. /\ TRI' \in Seq(Clients \cup {NULL}) /\ Len(TRI') <= 2
        /\ current_state' = 13 => Len(TRI') = 1
    <3>1. CASE row = 14 BY <2>3, <3>1 DEF RowAfter
    <3>2. CASE row = 4 BY <2>3, <3>2 DEF Shuffled
    <3>3. CASE row = 13 /\ current_state # 13 BY <2>3, <3>3 DEF Shuffled, RowAfter
    <3>4. CASE row = 13 /\ current_state = 13
      <4>1. TRI' = Append(TRI, c) /\ current_state' = 14 BY <2>3, <3>4 DEF Shuffled, RowAfter
      <4>2. TRI \in Seq(Clients \cup {NULL}) /\ Len(TRI) = 1 /\ c \in Clients \cup {NULL}
        BY <3>4 DEF SpuInv
      <4>3. Append(TRI, c) \in Seq(Clients \cup {NULL}) BY <4>2
      <4>4. Len(Append(TRI, c)) = 2
        <5>1. PICK S : S = Clients \cup {NULL} OBVIOUS
        <5>2. PICK s \in Seq(S) : s = TRI BY <4>2, <5>1
        <5>3. PICK e \in S : e = c BY <4>2, <5>1
        <5>4. Len(Append(s, e)) = Len(s) + 1 BY AppendLength
        <5> QED BY <4>2, <5>2, <5>3, <5>4
      <4>5. TRI' \in Seq(Clients \cup {NULL}) /\ Len(TRI') = 2 BY <4>1, <4>3, <4>4
      <4> QED BY <4>1, <4>5
    <3> QED BY <2>4, <3>1, <3>2, <3>3, <3>4 DEF Rows
  <2>10. SpuInv' BY <1>8, <2>2, <2>7, <2>8, <2>9 DEF Vertex, SpuInv
  <2>11. PICK s \in ClientStates : s = [client[c] EXCEPT !.pc = "inside", !.commands = n]
    BY DEF ClientsInv, ClientStates, Running, Drawing
  <2>12. client' = [client EXCEPT ![c] = [@ EXCEPT !.pc = "inside", !.commands = n]]
    BY <1>8, <2>0 DEF Vertex, ClientsInv, ClientStates
  <2>13. s.queue = q BY <2>11 DEF ClientsInv, ClientStates
  <2>14. pc(c) \in Running BY <1>8 DEF Vertex, Running, Drawing
  <2>15. ClientsInv' BY <2>11, <2>12, <2>13, <2>14, ClientMoves DEF ClientsInv
  <2> QED BY <1>8, <2>7, <2>10, <2>15, SameScreen DEF Vertex
<1>9. ASSUME NEW c \in Clients, VertexNowhere(c) PROVE Types'
  <2>0. PICK n \in 0 .. MaxCommands : n = client[c].commands + 1
    BY <1>9, Constants DEF VertexNowhere, ClientsInv, ClientStates
  <2>1. PICK s \in ClientStates : s = [client[c] EXCEPT !.commands = n]
    BY DEF ClientsInv, ClientStates
  <2>2. client' = [client EXCEPT ![c] = [@ EXCEPT !.commands = n]]
    BY <1>9, <2>0 DEF VertexNowhere, ClientsInv, ClientStates
  <2>3. s.queue = client[c].queue /\ s.pc = pc(c) BY <2>1 DEF ClientsInv, ClientStates, pc
  <2>4. ClientsInv' BY <2>1, <2>2, <2>3, ClientMoves DEF ClientsInv
  <2> QED BY <1>9, <2>4, SameScreen, SameSpu DEF VertexNowhere
<1>10. ASSUME NEW c \in Clients, TryAgain(c) PROVE Types'
  <2> DEFINE q == client[c].queue
  <2>1. q \in Queues BY <1>10 DEF ClientsInv, TryAgain, Running, Drawing
  <2>2. BuffersInv' /\ currentTriangle' \in PlaceStates
    BY <1>10, <2>1, NowhereTypes DEF TryAgain, Retry
  <2>3. SpuInv' BY <1>10, <2>2 DEF TryAgain, Retry, SpuInv
  <2>4. PICK p \in {"clearing", "waiting"} : client' = [client EXCEPT ![c].pc = p]
    BY <1>10 DEF TryAgain
  <2>5. PICK s \in ClientStates : s = [client[c] EXCEPT !.pc = p]
    BY DEF ClientsInv, ClientStates, Running, Drawing
  <2>6. client' = [client EXCEPT ![c] = [@ EXCEPT !.pc = p]]
    BY <2>4 DEF ClientsInv, ClientStates
  <2>7. s.queue = q BY <2>5 DEF ClientsInv, ClientStates
  <2>8. pc(c) \in Running BY <1>10 DEF TryAgain, Running, Drawing
  <2>9. ClientsInv' BY <2>5, <2>6, <2>7, <2>8, ClientMoves DEF ClientsInv
  <2> QED BY <1>10, <2>2, <2>3, <2>9, SameScreen DEF TryAgain
<1>11. ASSUME NEW c \in Clients, End(c) PROVE Types'
  <2> DEFINE q == client[c].queue
  <2>1. Inside(q) \subseteq Queues BY DEF Inside, ClientsInv, Running, Drawing
  <2>2. SpuInv' BY <1>11, <2>1 DEF End, SpuInv
  <2>3. BuffersInv' BY <1>11 DEF End, BuffersInv
  <2>4. PICK s \in ClientStates : s = [client[c] EXCEPT !.pc = "ready"]
    BY DEF ClientsInv, ClientStates, Running, Drawing
  <2>5. client' = [client EXCEPT ![c] = [@ EXCEPT !.pc = "ready"]]
    BY <1>11 DEF End, ClientsInv, ClientStates
  <2>6. s.queue = q BY <2>4 DEF ClientsInv, ClientStates
  <2>7. pc(c) \in Running BY <1>11 DEF End, Running, Drawing
  <2>8. ClientsInv' BY <2>4, <2>5, <2>6, <2>7, ClientMoves DEF ClientsInv
  <2> QED BY <1>11, <2>2, <2>3, <2>8, SameScreen DEF End
<1>12. ASSUME NEW c \in Clients, Sync(c) PROVE Types'
  <2>1. PICK s \in ClientStates : s = [client[c] EXCEPT !.pc = "flushed"]
    BY DEF ClientsInv, ClientStates, Running
  <2>2. client' = [client EXCEPT ![c] = [@ EXCEPT !.pc = "flushed"]]
    BY <1>12 DEF Sync, ClientsInv, ClientStates
  <2>3. s.queue = client[c].queue BY <2>1 DEF ClientsInv, ClientStates
  <2>4. pc(c) \in Running BY <1>12 DEF Sync, Running, Drawing
  <2>5. ClientsInv' BY <2>1, <2>2, <2>3, <2>4, ClientMoves DEF ClientsInv
  <2> QED BY <1>12, <2>5, SameScreen, SameSpu DEF Sync
<1>13. ASSUME NEW f \in Frames, Draw(f) PROVE Types'
  <2>1. buffers' = [buffers EXCEPT ![f] = Tail(@)] /\ buffers[f] # <<>> BY <1>13 DEF Draw
  <2>2. Tail(buffers[f]) \in Seq(Triangles) /\ Len(Tail(buffers[f])) = Len(buffers[f]) - 1
    BY <2>1 DEF BuffersInv
  <2>3. \A g \in Frames : buffers'[g] \in Seq(Triangles) /\ Len(buffers'[g]) <= Len(buffers[g])
    BY <2>1, <2>2 DEF BuffersInv
  <2>4. \A g \in Frames : Len(buffers[g]) \in Nat /\ Len(buffers'[g]) \in Nat BY <2>3 DEF BuffersInv
  <2>5. currentTriangle' = currentTriangle /\ currentTriangle.target \in Frames \cup {NULL}
    BY <1>13 DEF Draw, SpuInv, PlaceStates
  <2>6. BuffersInv' BY <2>1, <2>3, <2>4, <2>5, Constants DEF BuffersInv
  <2>7. SpuInv' BY <1>13 DEF Draw, SpuInv
  <2>8. ClientsInv' BY <1>13 DEF Draw, ClientsInv, pc
  <2> QED BY <1>13, <2>6, <2>7, <2>8, SameScreen DEF Draw
<1>14. CASE UNCHANGED vars
  <2>1. ClientsInv' BY <1>14 DEF vars, ClientsInv, pc
  <2> QED BY <1>14, <2>1, SameScreen, SameSpu DEF vars
<1> QED BY <1>1, <1>2, <1>3, <1>4, <1>5, <1>6, <1>7, <1>8, <1>9, <1>10, <1>11, <1>12, <1>13, <1>14
        DEF Next, Command, Leave, Vanish

\* Every value is of its kind, and no buffer holds more than fits it: the place that is
\* taken was made sure of, and nothing else is written before it is used.
THEOREM TypeCorrect == Spec => []TypeOK
<1>1. Types => TypeOK
  BY DEF Types, ClientsInv, SpuInv, ScreenInv, BuffersInv, TypeOK, ClientStates, ContextStates, PlaceStates
<1> QED BY <1>1, InitTypes, NextTypes, PTL DEF Spec

-----------------------------------------------------------------------------
(* What a step of one client does to the others: nothing.                   *)

Moves(c, p) ==
  /\ client'[c].pc = p /\ client'[c].queue = client[c].queue
  /\ \A d \in Clients \ {c} : client'[d] = client[d]

LEMMA ClientSteps ==
  ASSUME Types, NEW c \in Clients
  PROVE  /\ Flip(c) => Moves(c, "flipped") /\ client'[c].id = renderable_id(NumFrames - 1 - visible)
         /\ DrawContext(c) => Moves(c, "named")
         /\ SelectPixelShader(c) => Moves(c, pc(c))
         /\ ClearScreen(c) => Moves(c, "ready")
         /\ Begin(c) => Moves(c, "inside")
         /\ Vertex(c) => Moves(c, "inside")
         /\ VertexNowhere(c) => Moves(c, "inside")
         /\ End(c) => Moves(c, "ready")
         /\ Sync(c) => Moves(c, "flushed")
         /\ TryAgain(c) => \/ Moves(c, "clearing") /\ pc(c) \in {"named", "clearing"}
                           \/ Moves(c, "waiting") /\ pc(c) \in {"inside", "waiting"}
<1> USE DEF Types, ClientsInv, ClientStates, Moves
<1>1. ASSUME Flip(c) PROVE Moves(c, "flipped") /\ client'[c].id = renderable_id(NumFrames - 1 - visible)
  BY <1>1 DEF Flip
<1>2. ASSUME DrawContext(c) PROVE Moves(c, "named") BY <1>2 DEF DrawContext
<1>3. ASSUME SelectPixelShader(c) PROVE Moves(c, pc(c)) BY <1>3 DEF SelectPixelShader, pc
<1>4. ASSUME ClearScreen(c) PROVE Moves(c, "ready") BY <1>4 DEF ClearScreen
<1>5. ASSUME Begin(c) PROVE Moves(c, "inside") BY <1>5 DEF Begin
<1>6. ASSUME Vertex(c) PROVE Moves(c, "inside") BY <1>6 DEF Vertex
<1>7. ASSUME VertexNowhere(c) PROVE Moves(c, "inside") BY <1>7 DEF VertexNowhere, pc
<1>8. ASSUME End(c) PROVE Moves(c, "ready") BY <1>8 DEF End
<1>9. ASSUME Sync(c) PROVE Moves(c, "flushed") BY <1>9 DEF Sync
<1>10. ASSUME TryAgain(c)
       PROVE  \/ Moves(c, "clearing") /\ pc(c) \in {"named", "clearing"}
              \/ Moves(c, "waiting") /\ pc(c) \in {"inside", "waiting"}
  BY <1>10 DEF TryAgain
<1> QED BY <1>1, <1>2, <1>3, <1>4, <1>5, <1>6, <1>7, <1>8, <1>9, <1>10

\* What is pending after a triangle is written, and after one is drawn.
Elements(s) == {s[i] : i \in DOMAIN s}

LEMMA AppendAdds ==
  ASSUME NEW S, NEW s \in Seq(S), NEW t \in S
  PROVE  Elements(Append(s, t)) = Elements(s) \cup {t}
<1>1. Len(Append(s, t)) = Len(s) + 1 /\ DOMAIN Append(s, t) = 1 .. (Len(s) + 1) /\ DOMAIN s = 1 .. Len(s)
  OBVIOUS
<1>2. \A i \in 1 .. Len(s) : Append(s, t)[i] = s[i] OBVIOUS
<1>3. Append(s, t)[Len(s) + 1] = t OBVIOUS
<1>4. Len(s) \in Nat OBVIOUS
<1>5. \A i \in 1 .. (Len(s) + 1) : i \in 1 .. Len(s) \/ i = Len(s) + 1 BY <1>4
<1> QED BY <1>1, <1>2, <1>3, <1>4, <1>5 DEF Elements

LEMMA WrittenIsPending ==
  ASSUME Types, NEW q \in Queues, NEW place \in Places(q), NEW t \in Triangles, Written(q, place, t)
  PROVE  /\ place.target \in Frames
         /\ \A f \in Frames \ {place.target} : Pending(f)' = Pending(f) /\ buffers'[f] = buffers[f]
         /\ Pending(place.target)' = Pending(place.target) \cup {t}
         /\ Last(buffers'[place.target]) = t
<1>1. place.target \in Frames BY PlacesAre DEF Types
<1>2. PICK f \in Frames : f = place.target BY <1>1
<1>3. buffers' = [buffers EXCEPT ![f] = Append(@, t)] BY <1>2 DEF Written
<1>4. buffers \in [Frames -> Seq(Triangles)] BY DEF Types, BuffersInv
<1>5. buffers'[f] = Append(buffers[f], t) BY <1>3, <1>4
<1>6. \A g \in Frames \ {f} : buffers'[g] = buffers[g] BY <1>3, <1>4
<1>7. Elements(buffers'[f]) = Elements(buffers[f]) \cup {t}
  BY <1>4, <1>5, AppendAdds
<1>8. Last(buffers'[f]) = t BY <1>4, <1>5 DEF Last
<1>9. \A g \in Frames \ {f} : Pending(g)' = Pending(g) BY <1>6 DEF Pending
<1>10. Pending(f)' = Pending(f) \cup {t} BY <1>7 DEF Pending, Elements
<1> QED BY <1>2, <1>6, <1>8, <1>9, <1>10

LEMMA DrawnIsNotPending ==
  ASSUME Types, NEW f \in Frames, Draw(f)
  PROVE  \A g \in Frames : Pending(g)' \subseteq Pending(g) /\ Len(buffers'[g]) <= Len(buffers[g])
<1>1. buffers' = [buffers EXCEPT ![f] = Tail(@)] /\ buffers[f] # <<>> BY DEF Draw
<1>2. buffers \in [Frames -> Seq(Triangles)] BY DEF Types, BuffersInv
<1>3. buffers'[f] = Tail(buffers[f]) /\ \A g \in Frames \ {f} : buffers'[g] = buffers[g] BY <1>1, <1>2
<1>4. \A i \in DOMAIN buffers'[f] : i + 1 \in DOMAIN buffers[f] /\ buffers'[f][i] = buffers[f][i + 1]
  BY <1>1, <1>2, <1>3
<1>5. Len(buffers'[f]) <= Len(buffers[f]) BY <1>1, <1>2, <1>3
<1>6. \A g \in Frames : Len(buffers[g]) <= Len(buffers[g]) BY <1>2
<1>7. Pending(f)' \subseteq Pending(f) BY <1>4 DEF Pending
<1>8. \A g \in Frames \ {f} : Pending(g)' = Pending(g) BY <1>3 DEF Pending
<1> QED BY <1>3, <1>5, <1>6, <1>7, <1>8

-----------------------------------------------------------------------------
(* Where triangles are while they are pending.                              *)

\* A primitive is drawn with the shader of its client.
ShaderInv ==
  \A c \in Clients : pc(c) \in {"inside", "waiting"} => context[client[c].queue].shader = c

\* What did not go astray waits in the renderable its client draws on.
PendingInv ==
  \A f \in Frames : \A t \in Pending(f) :
    /\ t.shader \in {NULL, t.client}
    /\ ~Astray(f, t) =>
         /\ pc(t.client) \in Drawing \cup {"vanished"}
         /\ pc(t.client) \in Drawing => context[client[t.client].queue].renderable = f

\* The place that is taken is in the renderable of its context, unless that changed.
PlaceInv ==
  \A q \in Queues \ fresh :
    currentTriangle.context = q /\ currentTriangle.target # NULL =>
      currentTriangle.target = context[q].renderable

\* The registers hold the vertices of the primitive nobody has come into.
RegistersInv ==
  \A c \in Clients : pc(c) \in {"inside", "waiting"} /\ client[c].queue \notin interrupted =>
    /\ current_state \in Rows
    /\ current_state = 13 => TRI = <<c>>
    /\ current_state = 14 => TRI = <<c, c>>

LEMMA SequenceIsFunction ==
  ASSUME NEW S, NEW s \in Seq(S), NEW n \in Nat, Len(s) = n
  PROVE  s \in [1 .. n -> S]
OBVIOUS

LEMMA TwoVertices == ASSUME NEW c PROVE Append(<<c>>, c) = <<c, c>>
<1> DEFINE s == <<c>>
<1>1. s \in Seq({c}) /\ Len(s) = 1 /\ c \in {c} OBVIOUS
<1> HIDE DEF s
<1>2. Append(s, c) \in Seq({c}) /\ Len(Append(s, c)) = Len(s) + 1 BY <1>1, AppendLength
<1>3. Append(s, c) \in [1 .. 2 -> {c}]
  <2>1. Len(Append(s, c)) = 2 BY <1>1, <1>2
  <2> QED BY <1>2, <2>1, SequenceIsFunction
<1>4. <<c, c>> \in [1 .. 2 -> {c}] OBVIOUS
<1>5. Append(s, c) = <<c, c>> BY <1>3, <1>4
<1> QED BY <1>5 DEF s

\* Steps that leave the shaders of primitives alone.
LEMMA ShaderKept ==
  ASSUME Types, ShaderInv,
         \A d \in Clients : client'[d].pc \in {"inside", "waiting"} =>
           /\ pc(d) \in {"inside", "waiting"} /\ client'[d].queue = client[d].queue
           /\ context'[client[d].queue].shader = context[client[d].queue].shader
  PROVE  ShaderInv'
BY DEF ShaderInv, pc

LEMMA PendingTypes ==
  ASSUME Types, NEW f \in Frames
  PROVE  Pending(f) \subseteq Triangles
<1>1. buffers[f] \in Seq(Triangles) BY DEF Types, BuffersInv
<1>2. \A i \in DOMAIN buffers[f] : buffers[f][i] \in Triangles BY <1>1
<1> QED BY <1>2 DEF Pending

\* Steps that add no triangle and stop no client.
LEMMA PendingKept ==
  ASSUME Types, PendingInv,
         \A f \in Frames : Pending(f)' \subseteq Pending(f),
         \A d \in Clients : pc(d) \in Drawing \cup {"vanished"} =>
           /\ client'[d].pc \in Drawing \cup {"vanished"}
           /\ client'[d].pc \in Drawing =>
                /\ pc(d) \in Drawing /\ client'[d].queue = client[d].queue
                /\ context'[client[d].queue].renderable = context[client[d].queue].renderable
  PROVE  PendingInv'
<1> SUFFICES ASSUME NEW f \in Frames, NEW t \in Pending(f)'
             PROVE  /\ t.shader \in {NULL, t.client}
                    /\ ~Astray(f, t) =>
                         /\ client'[t.client].pc \in Drawing \cup {"vanished"}
                         /\ client'[t.client].pc \in Drawing =>
                              context'[client'[t.client].queue].renderable = f
  BY DEF PendingInv, pc, Astray
<1>1. t \in Pending(f) OBVIOUS
<1>2. t.client \in Clients BY <1>1, PendingTypes DEF Triangles
<1> QED BY <1>1, <1>2 DEF PendingInv, pc

LEMMA PendingSame ==
  ASSUME buffers' = buffers
  PROVE  \A f \in Frames : Pending(f)' = Pending(f)
BY DEF Pending

\* A triangle that is written by a client that draws on its renderable.
LEMMA PendingWritten ==
  ASSUME Types, PendingInv, NEW c \in Clients, NEW place \in Places(client[c].queue),
         NEW shader \in {NULL, c}, Written(client[c].queue, place, Triangle(c, shader)),
         pc(c) \in Drawing, NEW p \in Drawing, Moves(c, p), context' = context
  PROVE  PendingInv'
<1> DEFINE q == client[c].queue
           u == Triangle(c, shader)
<1>1. q \in Queues BY DEF Types, ClientsInv, Running
<1>2. u \in Triangles BY <1>1 DEF Types, SpuInv, ContextStates, Triangle, Triangles
<1>3. u.client = c /\ u.asked = context[q].renderable /\ u.shader = shader BY DEF Triangle
<1> HIDE DEF u
<1>4. /\ place.target \in Frames
      /\ \A f \in Frames \ {place.target} : Pending(f)' = Pending(f)
      /\ Pending(place.target)' = Pending(place.target) \cup {u}
  BY <1>1, <1>2, WrittenIsPending DEF u
<1> SUFFICES ASSUME NEW f \in Frames, NEW t \in Pending(f)'
             PROVE  /\ t.shader \in {NULL, t.client}
                    /\ ~Astray(f, t) =>
                         /\ client'[t.client].pc \in Drawing \cup {"vanished"}
                         /\ client'[t.client].pc \in Drawing =>
                              context'[client'[t.client].queue].renderable = f
  BY DEF PendingInv, pc, Astray
<1>5. CASE t \in Pending(f)
  <2>1. t.client \in Clients BY <1>5, PendingTypes DEF Triangles
  <2> QED BY <1>5, <2>1 DEF PendingInv, Moves, pc
<1>6. CASE t = u /\ f = place.target
  <2>1. client'[c].pc \in Drawing /\ client'[c].queue = q BY DEF Moves
  <2> QED BY <1>3, <1>6, <2>1 DEF Astray
<1> QED BY <1>4, <1>5, <1>6

IInv == Types /\ ShaderInv /\ PendingInv /\ PlaceInv /\ RegistersInv

LEMMA InitIInv == Init => IInv
<1> SUFFICES ASSUME Init PROVE IInv OBVIOUS
<1>1. \A c \in Clients : pc(c) = "out" BY DEF Init, Outside, pc
<1>2. ShaderInv /\ RegistersInv BY <1>1 DEF ShaderInv, RegistersInv
<1>3. \A f \in Frames : Pending(f) = {} BY DEF Init, Pending
<1>4. PendingInv BY <1>3 DEF PendingInv
<1>5. PlaceInv BY DEF Init, PlaceInv
<1> QED BY <1>2, <1>4, <1>5, InitTypes DEF IInv

\* Nobody else has the slot of a client.
LEMMA SlotIsOnesOwn ==
  ASSUME Types, NEW c \in Clients, pc(c) \in Running
  PROVE  /\ client[c].queue \in Queues
         /\ \A d \in Clients \ {c} : pc(d) \in Running => client[d].queue # client[c].queue
BY DEF Types, ClientsInv

\* A command of a client marks every primitive that it comes into.
LEMMA InsideIs ==
  ASSUME Types, NEW c \in Clients, pc(c) \in Running, NEW d \in Clients \ {c},
         pc(d) \in {"inside", "waiting"}
  PROVE  client[d].queue \in Inside(client[c].queue)
<1>1. pc(d) \in Running BY DEF Running, Drawing
<1> QED BY <1>1, SlotIsOnesOwn DEF Inside

LEMMA PlaceUsedUp ==
  ASSUME Types, NEW q, currentTriangle' = Nowhere(q)
  PROVE  PlaceInv'
BY DEF PlaceInv, Nowhere

LEMMA NextIInv == IInv /\ [Next]_vars => IInv'
<1> SUFFICES ASSUME IInv, [Next]_vars PROVE IInv' OBVIOUS
<1> USE DEF IInv
<1>t. Types' BY NextTypes
<1>1. ASSUME NEW c \in Clients, Connect(c) PROVE IInv'
  <2>1. /\ client'[c].pc = "connected" /\ pc(c) = "out" /\ UNCHANGED spuVars
        /\ \A d \in Clients \ {c} : client'[d] = client[d]
    BY <1>1 DEF Connect, Types, ClientsInv, ClientStates
  <2>2. ShaderInv' BY <2>1, ShaderKept DEF spuVars, pc
  <2>3. PendingInv' BY <2>1, PendingKept, PendingSame DEF spuVars, Drawing, pc
  <2>4. PlaceInv' BY <2>1 DEF PlaceInv, spuVars
  <2>5. RegistersInv' BY <2>1 DEF RegistersInv, spuVars, pc
  <2> QED BY <1>t, <2>2, <2>3, <2>4, <2>5
<1>2. ASSUME NEW c \in Clients, Leave(c) PROVE IInv'
  <2>1. /\ client'[c].pc = "left" /\ pc(c) = "flushed" /\ UNCHANGED spuVars
        /\ \A d \in Clients \ {c} : client'[d] = client[d]
    BY <1>2 DEF Leave, Release, Outside, Types, ClientsInv
  <2>2. ShaderInv' BY <2>1, ShaderKept DEF spuVars, pc
  <2>3. PendingInv' BY <2>1, PendingKept, PendingSame DEF spuVars, Drawing, pc
  <2>4. PlaceInv' BY <2>1 DEF PlaceInv, spuVars
  <2>5. RegistersInv' BY <2>1 DEF RegistersInv, spuVars, pc
  <2> QED BY <1>t, <2>2, <2>3, <2>4, <2>5
<1>3. ASSUME NEW c \in Clients, Vanish(c) PROVE IInv'
  <2>1. /\ client'[c].pc = "vanished" /\ UNCHANGED spuVars
        /\ \A d \in Clients \ {c} : client'[d] = client[d]
    BY <1>3 DEF Vanish, Release, Outside, Types, ClientsInv
  <2>2. ShaderInv' BY <2>1, ShaderKept DEF spuVars, pc
  <2>3. PendingInv' BY <2>1, PendingKept, PendingSame DEF spuVars, Drawing, pc
  <2>4. PlaceInv' BY <2>1 DEF PlaceInv, spuVars
  <2>5. RegistersInv' BY <2>1 DEF RegistersInv, spuVars, pc
  <2> QED BY <1>t, <2>2, <2>3, <2>4, <2>5
<1>4. ASSUME NEW c \in Clients, Flip(c) PROVE IInv'
  <2>1. Moves(c, "flipped") /\ pc(c) \in {"connected", "flushed"} /\ UNCHANGED spuVars
    BY <1>4, ClientSteps DEF Flip
  <2>2. ShaderInv' BY <2>1, ShaderKept DEF spuVars, pc, Moves
  <2>3. PendingInv' BY <2>1, PendingKept, PendingSame DEF spuVars, Drawing, pc, Moves
  <2>4. PlaceInv' BY <2>1 DEF PlaceInv, spuVars
  <2>5. RegistersInv' BY <2>1 DEF RegistersInv, spuVars, pc, Moves
  <2> QED BY <1>t, <2>2, <2>3, <2>4, <2>5
<1>5. ASSUME NEW c \in Clients, DrawContext(c) PROVE IInv'
  <2> DEFINE q == client[c].queue
  <2>1. /\ Moves(c, "named") /\ pc(c) = "flipped" /\ fresh' = fresh \cup {q}
        /\ UNCHANGED <<currentTriangle, current_state, TRI, buffers, interrupted>>
    BY <1>5, ClientSteps DEF DrawContext
  <2>2. q \in Queues /\ \A d \in Clients \ {c} : pc(d) \in Running => client[d].queue # q
    BY <2>1, SlotIsOnesOwn DEF Running
  <2>3. \A p \in Queues : p # q => context'[p] = context[p]
    BY <1>5, <2>2 DEF DrawContext, Types, SpuInv
  <2>4. \A p \in Queues : context'[p].shader = context[p].shader
    BY <1>5, <2>2 DEF DrawContext, Types, SpuInv, ContextStates
  <2>5. \A d \in Clients : pc(d) \in Running => client[d].queue \in Queues
    BY SlotIsOnesOwn
  <2>6. ShaderInv' BY <2>1, <2>4, <2>5, ShaderKept DEF pc, Moves, Running, Drawing
  <2>7. PendingInv' BY <2>1, <2>2, <2>3, <2>5, PendingKept, PendingSame DEF Running, Drawing, pc, Moves
  <2>8. PlaceInv' BY <2>1, <2>3 DEF PlaceInv
  <2>9. RegistersInv' BY <2>1 DEF RegistersInv, pc, Moves
  <2> QED BY <1>t, <2>6, <2>7, <2>8, <2>9
<1>6. ASSUME NEW c \in Clients, SelectPixelShader(c) PROVE IInv'
  <2> DEFINE q == client[c].queue
  <2>1. /\ pc(c) \in {"named", "ready"}
        /\ UNCHANGED <<client, currentTriangle, current_state, TRI, buffers, fresh, interrupted>>
    BY <1>6 DEF SelectPixelShader
  <2>2. q \in Queues /\ \A d \in Clients \ {c} : pc(d) \in Running => client[d].queue # q
    BY <2>1, SlotIsOnesOwn DEF Running, Drawing
  <2>3. \A p \in Queues : p # q => context'[p] = context[p]
    BY <1>6, <2>2 DEF SelectPixelShader, Types, SpuInv
  <2>4. \A p \in Queues : context'[p].renderable = context[p].renderable
    BY <1>6, <2>2 DEF SelectPixelShader, Types, SpuInv, ContextStates
  <2>5. \A d \in Clients : pc(d) \in Running => client[d].queue \in Queues
    BY SlotIsOnesOwn
  <2>6. ShaderInv' BY <2>1, <2>2, <2>3, <2>5, ShaderKept DEF pc, Running, Drawing
  <2>7. PendingInv' BY <2>1, <2>4, <2>5, PendingKept, PendingSame DEF Running, pc
  <2>8. PlaceInv' BY <2>1, <2>4 DEF PlaceInv
  <2>9. RegistersInv' BY <2>1 DEF RegistersInv, pc
  <2> QED BY <1>t, <2>6, <2>7, <2>8, <2>9
<1>7. ASSUME NEW c \in Clients, ClearScreen(c) PROVE IInv'
  <2> DEFINE q == client[c].queue
  <2>1. /\ Moves(c, "ready") /\ pc(c) \in {"named", "clearing"} /\ context' = context
        /\ interrupted' = interrupted \cup Inside(q)
    BY <1>7, ClientSteps DEF ClearScreen
  <2>2. pc(c) \in Drawing /\ pc(c) \in Running BY <2>1 DEF Drawing, Running
  <2>3. PICK place \in Places(q) : Written(q, place, Triangle(c, NULL))
    BY <1>7 DEF ClearScreen, ClearShader
  <2>4. ShaderInv' BY <2>1, ShaderKept DEF Moves, pc
  <2>5. PendingInv'
    <3>1. NULL \in {NULL, c} /\ "ready" \in Drawing BY DEF Drawing
    <3> QED BY <2>1, <2>2, <2>3, <3>1, PendingWritten
  <2>6. PlaceInv' BY <2>3, PlaceUsedUp DEF Written
  <2>7. RegistersInv' BY <2>1, <2>2, InsideIs DEF RegistersInv, Moves, pc
  <2> QED BY <1>t, <2>4, <2>5, <2>6, <2>7
<1>8. ASSUME NEW c \in Clients, Begin(c) PROVE IInv'
  <2> DEFINE q == client[c].queue
  <2>1. /\ Moves(c, "inside") /\ pc(c) \in {"named", "ready"} /\ context[q].shader = c
        /\ current_state' = 4 /\ interrupted' = (interrupted \cup Inside(q)) \ {q}
        /\ UNCHANGED <<context, currentTriangle, buffers, fresh>>
    BY <1>8, ClientSteps DEF Begin, Began
  <2>2. pc(c) \in Drawing /\ pc(c) \in Running BY <2>1 DEF Drawing, Running
  <2>3. ShaderInv' BY <2>1 DEF ShaderInv, Moves, pc
  <2>4. PendingInv' BY <2>1, <2>2, PendingKept, PendingSame DEF Moves, pc, Drawing
  <2>5. PlaceInv' BY <2>1 DEF PlaceInv
  <2>6. ASSUME NEW d \in Clients, client'[d].pc \in {"inside", "waiting"},
               client'[d].queue \notin interrupted'
        PROVE  d = c
    <3>1. SUFFICES ASSUME d # c PROVE FALSE OBVIOUS
    <3>2. client'[d] = client[d] /\ pc(d) \in {"inside", "waiting"} BY <2>1, <2>6, <3>1 DEF Moves, pc
    <3>3. client[d].queue \in Inside(q) BY <2>2, <3>1, <3>2, InsideIs
    <3>4. client[d].queue # q BY <2>2, <3>1, <3>2, SlotIsOnesOwn DEF Running, Drawing
    <3> QED BY <2>1, <2>6, <3>2, <3>3, <3>4
  <2>7. RegistersInv' BY <2>1, <2>6 DEF RegistersInv, pc, Rows
  <2> QED BY <1>t, <2>3, <2>4, <2>5, <2>7
<1>9. ASSUME NEW c \in Clients, Vertex(c) PROVE IInv'
  <2> DEFINE q == client[c].queue
  <2>1. /\ Moves(c, "inside") /\ pc(c) \in {"inside", "waiting"} /\ context' = context
        /\ interrupted' = interrupted \cup Inside(q)
    BY <1>9, ClientSteps DEF Vertex
  <2>2. pc(c) \in Drawing /\ pc(c) \in Running BY <2>1 DEF Drawing, Running
  <2>3. PICK place \in Places(q), row \in RowsRead :
          /\ current_state' = RowAfter(row)
          /\ TRI' = IF row = 14 THEN <<>> ELSE Shuffled(row, c)
          /\ \/ row = 14 /\ Written(q, place, Triangle(c, context[q].shader))
             \/ currentTriangle' = place /\ UNCHANGED <<buffers, fresh>>
    BY <1>9 DEF Vertex
  <2>4. ShaderInv' BY <2>1, ShaderKept DEF Moves, pc
  <2>5. PendingInv' /\ PlaceInv'
    <3>1. CASE Written(q, place, Triangle(c, context[q].shader))
      <4>1. context[q].shader \in {NULL, c} /\ "inside" \in Drawing
        BY <2>1 DEF ShaderInv, Drawing
      <4>2. PendingInv' BY <2>1, <2>2, <3>1, <4>1, PendingWritten
      <4> QED BY <3>1, <4>2, PlaceUsedUp DEF Written
    <3>2. CASE currentTriangle' = place /\ UNCHANGED <<buffers, fresh>>
      <4>1. PendingInv' BY <2>1, <2>2, <3>2, PendingKept, PendingSame DEF Moves, pc, Drawing
      <4>2. q \in Queues BY <2>2, SlotIsOnesOwn
      <4>3. \/ place = currentTriangle
            \/ place.context = q /\ place.target = context[q].renderable
        <5>1. SpuInv /\ BuffersInv BY DEF Types
        <5>2. place.context = q BY <4>2, <5>1, PlacesAre
        <5>3. place = currentTriangle \/ place.target = context[q].renderable BY <4>2, <5>1, PlacesAre
        <5> QED BY <5>2, <5>3
      <4>4. PlaceInv' BY <2>1, <3>2, <4>3 DEF PlaceInv
      <4> QED BY <4>1, <4>4
    <3> QED BY <2>3, <3>1, <3>2
  <2>6. RegistersInv'
    <3> SUFFICES ASSUME NEW d \in Clients, client'[d].pc \in {"inside", "waiting"},
                        client'[d].queue \notin interrupted'
                 PROVE  /\ current_state' \in Rows
                        /\ current_state' = 13 => TRI' = <<d>>
                        /\ current_state' = 14 => TRI' = <<d, d>>
      BY DEF RegistersInv, pc
    <3>1. d = c BY <2>1, <2>2, InsideIs DEF Moves, pc
    <3>2. q \notin interrupted BY <2>1, <3>1 DEF Moves
    <3>3. /\ current_state \in Rows
          /\ current_state = 13 => TRI = <<c>>
          /\ current_state = 14 => TRI = <<c, c>>
      BY <2>1, <3>2 DEF RegistersInv
    <3>4. row = current_state BY <3>3 DEF RowsRead, Rows
    <3>5. CASE row = 4 BY <2>3, <3>1, <3>5 DEF RowAfter, Shuffled, Rows
    <3>6. CASE row = 13
      <4>1. TRI' = Append(TRI, c) /\ TRI = <<c>> BY <2>3, <3>3, <3>4, <3>6 DEF Shuffled
      <4>2. TRI' = <<c, c>> BY <4>1, TwoVertices
      <4>3. current_state' = 14 BY <2>3, <3>6 DEF RowAfter
      <4> QED BY <3>1, <4>2, <4>3 DEF Rows
    <3>7. CASE row = 14 BY <2>3, <3>7 DEF RowAfter, Rows
    <3> QED BY <3>3, <3>4, <3>5, <3>6, <3>7 DEF Rows
  <2> QED BY <1>t, <2>4, <2>5, <2>6
<1>10. ASSUME NEW c \in Clients, VertexNowhere(c) PROVE IInv'
  <2>1. Moves(c, "inside") /\ pc(c) = "inside" /\ UNCHANGED spuVars
    BY <1>10, ClientSteps DEF VertexNowhere
  <2>2. ShaderInv' BY <2>1, ShaderKept DEF spuVars, pc, Moves
  <2>3. PendingInv' BY <2>1, PendingKept, PendingSame DEF spuVars, Drawing, pc, Moves
  <2>4. PlaceInv' BY <2>1 DEF PlaceInv, spuVars
  <2>5. RegistersInv' BY <2>1 DEF RegistersInv, spuVars, pc, Moves
  <2> QED BY <1>t, <2>2, <2>3, <2>4, <2>5
<1>11. ASSUME NEW c \in Clients, TryAgain(c) PROVE IInv'
  <2>1. /\ \/ Moves(c, "clearing") /\ pc(c) \in {"named", "clearing"}
           \/ Moves(c, "waiting") /\ pc(c) \in {"inside", "waiting"}
        /\ currentTriangle' = Nowhere(client[c].queue)
        /\ UNCHANGED <<context, current_state, TRI, buffers, fresh, interrupted>>
    BY <1>11, ClientSteps DEF TryAgain, Retry
  <2>2. ShaderInv' BY <2>1, ShaderKept DEF pc, Moves
  <2>3. PendingInv' BY <2>1, PendingKept, PendingSame DEF Drawing, pc, Moves
  <2>4. PlaceInv' BY <2>1, PlaceUsedUp
  <2>5. RegistersInv' BY <2>1 DEF RegistersInv, pc, Moves
  <2> QED BY <1>t, <2>2, <2>3, <2>4, <2>5
<1>12. ASSUME NEW c \in Clients, End(c) PROVE IInv'
  <2>1. /\ Moves(c, "ready") /\ pc(c) = "inside"
        /\ interrupted' = interrupted \cup Inside(client[c].queue)
        /\ UNCHANGED <<context, currentTriangle, buffers, fresh>>
    BY <1>12, ClientSteps DEF End
  <2>2. pc(c) \in Running BY <2>1 DEF Running, Drawing
  <2>3. ShaderInv' BY <2>1, ShaderKept DEF pc, Moves
  <2>4. PendingInv' BY <2>1, PendingKept, PendingSame DEF Drawing, pc, Moves
  <2>5. PlaceInv' BY <2>1 DEF PlaceInv
  <2>6. RegistersInv' BY <2>1, <2>2, InsideIs DEF RegistersInv, Moves, pc
  <2> QED BY <1>t, <2>3, <2>4, <2>5, <2>6
<1>13. ASSUME NEW c \in Clients, Sync(c) PROVE IInv'
  <2>1. /\ Moves(c, "flushed") /\ pc(c) \in {"named", "ready"} /\ UNCHANGED spuVars
        /\ context[client[c].queue].renderable # NULL
        /\ buffers[context[client[c].queue].renderable] = <<>>
    BY <1>13, ClientSteps DEF Sync, stillProcessingQueue
  <2>2. ShaderInv' BY <2>1, ShaderKept DEF spuVars, pc, Moves
  <2>3. PendingInv'
    <3> SUFFICES ASSUME NEW f \in Frames, NEW t \in Pending(f)'
                 PROVE  /\ t.shader \in {NULL, t.client}
                        /\ ~Astray(f, t) =>
                             /\ client'[t.client].pc \in Drawing \cup {"vanished"}
                             /\ client'[t.client].pc \in Drawing =>
                                  context'[client'[t.client].queue].renderable = f
      BY DEF PendingInv, pc, Astray
    <3>1. t \in Pending(f) BY <2>1, PendingSame DEF spuVars
    <3>2. t.client \in Clients BY <3>1, PendingTypes DEF Triangles
    <3>3. ASSUME ~Astray(f, t), t.client = c PROVE FALSE
      <4>1. context[client[c].queue].renderable = f BY <2>1, <3>1, <3>3 DEF PendingInv, Drawing
      <4> QED BY <2>1, <3>1, <4>1 DEF Pending
    <3> QED BY <2>1, <3>1, <3>2, <3>3 DEF PendingInv, Moves, pc, spuVars
  <2>4. PlaceInv' BY <2>1 DEF PlaceInv, spuVars
  <2>5. RegistersInv' BY <2>1 DEF RegistersInv, spuVars, pc, Moves
  <2> QED BY <1>t, <2>2, <2>3, <2>4, <2>5
<1>14. ASSUME NEW f \in Frames, Draw(f) PROVE IInv'
  <2>1. UNCHANGED <<client, context, currentTriangle, current_state, TRI, fresh, interrupted>>
    BY <1>14 DEF Draw
  <2>2. \A g \in Frames : Pending(g)' \subseteq Pending(g) BY <1>14, DrawnIsNotPending
  <2>3. ShaderInv' BY <2>1 DEF ShaderInv, pc
  <2>4. PendingInv' BY <2>1, <2>2, PendingKept DEF pc
  <2>5. PlaceInv' BY <2>1 DEF PlaceInv
  <2>6. RegistersInv' BY <2>1 DEF RegistersInv, pc
  <2> QED BY <1>t, <2>3, <2>4, <2>5, <2>6
<1>15. CASE UNCHANGED vars
  <2>1. ShaderInv' BY <1>15 DEF vars, spuVars, ShaderInv, pc
  <2>2. PendingInv' BY <1>15, PendingKept, PendingSame DEF vars, spuVars, pc
  <2>3. PlaceInv' BY <1>15 DEF vars, spuVars, PlaceInv
  <2>4. RegistersInv' BY <1>15 DEF vars, spuVars, RegistersInv, pc
  <2> QED BY <1>t, <2>1, <2>2, <2>3, <2>4
<1> QED BY <1>1, <1>2, <1>3, <1>4, <1>5, <1>6, <1>7, <1>8, <1>9, <1>10, <1>11, <1>12, <1>13, <1>14, <1>15
        DEF Next, Command

LEMMA Invariant == Spec => []IInv
BY InitIInv, NextIInv, PTL DEF Spec

\* When glFlush returns nothing of the client is pending in the frame it asked for.
THEOREM FlushedIsDrawn == Spec => []FlushedMeansDrawn
<1>1. ASSUME IInv PROVE FlushedMeansDrawn
  <2> SUFFICES ASSUME NEW c \in Clients, pc(c) = "flushed", NEW f \in Frames, NEW t \in Pending(f),
                      t.client = c
               PROVE  Astray(f, t)
    BY DEF FlushedMeansDrawn
  <2> QED BY <1>1 DEF IInv, PendingInv, Drawing
<1> QED BY <1>1, Invariant, PTL

\* The buffer of a pixel shader is there when a triangle is drawn with it, although nobody
\* locks it: only the triangles of a client that vanished, and those gone astray, miss it.
THEOREM ShadersOutlive == Spec => []ShaderOutlivesTriangle
<1>1. ASSUME IInv PROVE ShaderOutlivesTriangle
  <2> SUFFICES ASSUME NEW f \in Frames, NEW t \in Pending(f), t.shader # NULL, ~Mapped(t.shader)
               PROVE  pc(t.client) = "vanished" \/ Astray(f, t)
    BY DEF ShaderOutlivesTriangle
  <2>1. t.shader = t.client BY <1>1 DEF IInv, PendingInv
  <2> QED BY <1>1, <2>1 DEF IInv, PendingInv, Mapped, Running
<1> QED BY <1>1, Invariant, PTL

-----------------------------------------------------------------------------
(* Which steps write a triangle.                                            *)

LEMMA WhoWrites ==
  ASSUME Types, [Next]_vars, NEW c \in Clients, NEW f \in Frames, Writes(c, f)
  PROVE  /\ client[c].queue \in Queues
         /\ \E place \in Places(client[c].queue) :
              f = place.target /\ Last(buffers'[f]).asked = context[client[c].queue].renderable
         /\ ClearScreen(c) \/ (Vertex(c) /\ 14 \in RowsRead)
<1>1. Len(buffers[f]) \in Nat BY DEF Types, BuffersInv
<1>2. buffers'[f] # buffers[f] BY <1>1 DEF Writes
<1>3. ASSUME NEW d \in Clients, NEW place \in Places(client[d].queue), NEW shader \in Clients \cup {NULL},
             client[d].queue \in Queues, Written(client[d].queue, place, Triangle(d, shader))
      PROVE  /\ d = c /\ f = place.target
             /\ Last(buffers'[f]).asked = context[client[c].queue].renderable
  <2> DEFINE u == Triangle(d, shader)
  <2>1. u \in Triangles BY <1>3 DEF Types, SpuInv, ContextStates, Triangle, Triangles
  <2>2. u.client = d /\ u.asked = context[client[d].queue].renderable BY DEF Triangle
  <2> HIDE DEF u
  <2>3. /\ \A g \in Frames \ {place.target} : buffers'[g] = buffers[g]
        /\ Last(buffers'[place.target]) = u
    BY <1>3, <2>1, WrittenIsPending DEF u
  <2>4. f = place.target BY <1>2, <2>3
  <2> QED BY <2>2, <2>3, <2>4 DEF Writes
<1>4. ASSUME NEW d \in Clients, ClearScreen(d)
      PROVE  /\ client[c].queue \in Queues
             /\ \E place \in Places(client[c].queue) :
                  f = place.target /\ Last(buffers'[f]).asked = context[client[c].queue].renderable
             /\ ClearScreen(c)
  <2>1. client[d].queue \in Queues BY <1>4, SlotIsOnesOwn DEF ClearScreen, Running, Drawing
  <2>2. PICK place \in Places(client[d].queue) : Written(client[d].queue, place, Triangle(d, NULL))
    BY <1>4 DEF ClearScreen, ClearShader
  <2> QED BY <1>3, <1>4, <2>1, <2>2
<1>5. ASSUME NEW d \in Clients, Vertex(d)
      PROVE  /\ client[c].queue \in Queues
             /\ \E place \in Places(client[c].queue) :
                  f = place.target /\ Last(buffers'[f]).asked = context[client[c].queue].renderable
             /\ Vertex(c) /\ 14 \in RowsRead
  <2>1. client[d].queue \in Queues BY <1>5, SlotIsOnesOwn DEF Vertex, Running, Drawing
  <2>2. PICK place \in Places(client[d].queue), row \in RowsRead :
          row = 14 /\ Written(client[d].queue, place, Triangle(d, context[client[d].queue].shader))
    BY <1>2, <1>5 DEF Vertex
  <2>3. context[client[d].queue].shader \in Clients \cup {NULL}
    BY <2>1 DEF Types, SpuInv, ContextStates
  <2>4. d = c /\ f = place.target /\ Last(buffers'[f]).asked = context[client[c].queue].renderable
    BY <1>3, <2>1, <2>2, <2>3
  <2> QED BY <1>5, <2>1, <2>2, <2>4
<1>6. ASSUME NEW g \in Frames, Draw(g) PROVE FALSE
  <2>1. Len(buffers'[f]) <= Len(buffers[f]) BY <1>6, DrawnIsNotPending
  <2>2. buffers'[f] \in Seq(Triangles) BY NextTypes DEF Types, BuffersInv
  <2> QED BY <1>1, <2>1, <2>2 DEF Writes
<1>7. CASE \E d \in Clients : ClearScreen(d) \/ Vertex(d) BY <1>4, <1>5, <1>7
<1>8. CASE UNCHANGED buffers BY <1>2, <1>8
<1>9. \/ \E d \in Clients : ClearScreen(d) \/ Vertex(d)
      \/ \E g \in Frames : Draw(g)
      \/ UNCHANGED buffers
  BY DEF Next, Command, vars, spuVars, Connect, Leave, Vanish, Release, Flip, DrawContext,
         SelectPixelShader, Begin, VertexNowhere, End, Sync, TryAgain, Retry
<1> QED BY <1>6, <1>7, <1>8, <1>9

\* A place taken before spuglDrawContext misleads one triangle, the first one after it.
THEOREM OnlyFirstAstray == Spec => OnlyTheFirstGoesAstray
<1>1. ASSUME IInv, [Next]_vars
      PROVE  \A c \in Clients, f \in Frames :
               Writes(c, f) /\ Astray(f, Last(buffers'[f])) => client[c].queue \in fresh
  <2> SUFFICES ASSUME NEW c \in Clients, NEW f \in Frames, Writes(c, f), Astray(f, Last(buffers'[f]))
               PROVE  client[c].queue \in fresh
    OBVIOUS
  <2> DEFINE q == client[c].queue
  <2>1. Types BY <1>1 DEF IInv
  <2>2. q \in Queues BY <1>1, <2>1, WhoWrites
  <2>3. PICK place \in Places(q) :
          f = place.target /\ Last(buffers'[f]).asked = context[q].renderable
    BY <1>1, <2>1, WhoWrites
  <2>4. SpuInv /\ BuffersInv BY <2>1 DEF Types
  <2>5. place.context = q /\ place.target \in Frames BY <2>2, <2>4, PlacesAre
  <2>6. place = currentTriangle \/ place.target = context[q].renderable BY <2>2, <2>4, PlacesAre
  <2>7. place = currentTriangle /\ place.target # context[q].renderable BY <2>3, <2>6 DEF Astray
  <2>8. place.target # NULL BY <2>5, Constants
  <2> QED BY <1>1, <2>2, <2>5, <2>7, <2>8 DEF IInv, PlaceInv
<1>2. IInv /\ [Next]_vars => [\A c \in Clients, f \in Frames :
        Writes(c, f) /\ Astray(f, Last(buffers'[f])) => client[c].queue \in fresh]_vars
  BY <1>1
<1> QED BY <1>2, Invariant, PTL DEF Spec, OnlyTheFirstGoesAstray

\* A triangle has three vertices of its client, unless another queue came into the primitive.
THEOREM PrimitivesAreWhole == Spec => PrimitivesAreOnesOwn
<1>1. ASSUME IInv, [Next]_vars
      PROVE  \A c \in Clients, f \in Frames :
               /\ Writes(c, f) /\ pc(c) \in {"inside", "waiting"}
               /\ client[c].queue \notin interrupted
               => TRI = <<c, c>>
  <2> SUFFICES ASSUME NEW c \in Clients, NEW f \in Frames, Writes(c, f),
                      pc(c) \in {"inside", "waiting"}, client[c].queue \notin interrupted
               PROVE  TRI = <<c, c>>
    OBVIOUS
  <2>1. Types BY <1>1 DEF IInv
  <2>2. ClearScreen(c) \/ (Vertex(c) /\ 14 \in RowsRead) BY <1>1, <2>1, WhoWrites
  <2>3. 14 \in RowsRead BY <2>2 DEF ClearScreen
  <2> QED BY <1>1, <2>3 DEF IInv, RegistersInv, RowsRead, Rows
<1>2. IInv /\ [Next]_vars => [\A c \in Clients, f \in Frames :
               /\ Writes(c, f) /\ pc(c) \in {"inside", "waiting"}
               /\ client[c].queue \notin interrupted
               => TRI = <<c, c>>]_vars
  BY <1>1
<1> QED BY <1>2, Invariant, PTL DEF Spec, PrimitivesAreOnesOwn

-----------------------------------------------------------------------------
(* The frame that is shown.                                                 *)

\* The client that flipped last draws on the other frame.
FlipInv ==
  \A c \in Clients : flipper = c =>
    /\ pc(c) = "flipped" => client[c].id = NumFrames - 1 - visible
    /\ pc(c) \in Drawing => context[client[c].queue].renderable \in {NULL, NumFrames - 1 - visible}
    /\ \A f \in Frames : \A t \in Pending(f) :
         t.client = c /\ ~Astray(f, t) => f = NumFrames - 1 - visible

LEMMA NextFlipInv == IInv /\ FlipInv /\ [Next]_vars => FlipInv'
<1> SUFFICES ASSUME IInv, FlipInv, [Next]_vars PROVE FlipInv' OBVIOUS
<1>t. Types BY DEF IInv
<1> SUFFICES ASSUME NEW c \in Clients, flipper' = c
             PROVE  /\ client'[c].pc = "flipped" => client'[c].id = NumFrames - 1 - visible'
                    /\ client'[c].pc \in Drawing =>
                         context'[client'[c].queue].renderable \in {NULL, NumFrames - 1 - visible'}
                    /\ \A f \in Frames : \A t \in Pending(f)' :
                         t.client = c /\ ~Astray(f, t) => f = NumFrames - 1 - visible'
  BY DEF FlipInv, pc, Astray
<1> DEFINE Goal == /\ client'[c].pc = "flipped" => client'[c].id = NumFrames - 1 - visible'
                   /\ client'[c].pc \in Drawing =>
                        context'[client'[c].queue].renderable \in {NULL, NumFrames - 1 - visible'}
                   /\ \A f \in Frames : \A t \in Pending(f)' :
                        t.client = c /\ ~Astray(f, t) => f = NumFrames - 1 - visible'
\* The client keeps drawing where it did, and nothing is added.
<1>k. ASSUME UNCHANGED screenVars, \A f \in Frames : Pending(f)' \subseteq Pending(f),
             client'[c].pc = "flipped" => client'[c] = client[c],
             client'[c].pc \in Drawing =>
               /\ pc(c) \in Drawing /\ client'[c].queue = client[c].queue
               /\ context'[client[c].queue].renderable = context[client[c].queue].renderable
      PROVE  Goal
  BY <1>k DEF FlipInv, screenVars, pc
<1>q. \A d \in Clients : pc(d) \in Running =>
        /\ client[d].queue \in Queues
        /\ \A e \in Clients \ {d} : pc(e) \in Running => client[e].queue # client[d].queue
  BY <1>t, SlotIsOnesOwn
<1>1. ASSUME NEW d \in Clients, Connect(d) PROVE Goal
  <2>1. client'[d].pc = "connected" /\ \A e \in Clients \ {d} : client'[e] = client[e]
    BY <1>1, <1>t DEF Connect, Types, ClientsInv, ClientStates
  <2>2. UNCHANGED <<screenVars, spuVars>> BY <1>1 DEF Connect
  <2> QED BY <1>k, <2>1, <2>2, PendingSame DEF spuVars, Drawing, pc
<1>2. ASSUME NEW d \in Clients, NEW how \in {"left", "vanished"}, Release(d, how) PROVE Goal
  <2>1. client'[d].pc = how /\ \A e \in Clients \ {d} : client'[e] = client[e]
    BY <1>2, <1>t DEF Release, Outside, Types, ClientsInv, ClientStates
  <2>2. UNCHANGED <<screenVars, spuVars>> BY <1>2 DEF Release
  <2> QED BY <1>k, <2>1, <2>2, PendingSame DEF spuVars, Drawing, pc
<1>3. ASSUME NEW d \in Clients, Flip(d) PROVE Goal
  <2>1. d = c BY <1>3 DEF Flip
  <2>2. /\ visible' = NumFrames - 1 - visible /\ Moves(c, "flipped")
        /\ client'[c].id = renderable_id(NumFrames - 1 - visible) /\ UNCHANGED spuVars
    BY <1>3, <1>t, <2>1, ClientSteps DEF Flip
  <2>3. client'[c].id = NumFrames - 1 - visible' BY <2>2 DEF renderable_id
  <2>4. \A f \in Frames : \A t \in Pending(f)' : t.client = c => Astray(f, t)
    <3>1. pc(c) \notin Drawing \cup {"vanished"} BY <1>3, <2>1 DEF Flip, Drawing
    <3>2. \A f \in Frames : Pending(f)' = Pending(f) BY <2>2, PendingSame DEF spuVars
    <3> QED BY <3>1, <3>2 DEF IInv, PendingInv
  <2> QED BY <2>2, <2>3, <2>4 DEF Moves, Drawing
<1>4. ASSUME NEW d \in Clients, DrawContext(d) PROVE Goal
  <2>1. /\ Moves(d, "named") /\ pc(d) = "flipped" /\ UNCHANGED <<screenVars, buffers>>
    BY <1>4, <1>t, ClientSteps DEF DrawContext
  <2>2. client[d].queue \in Queues BY <1>q, <2>1 DEF Running
  <2>3. \A p \in Queues : p # client[d].queue => context'[p] = context[p]
    BY <1>4, <1>t, <2>2 DEF DrawContext, Types, SpuInv
  <2>4. CASE d = c
    <3>1. client[c].id = NumFrames - 1 - visible /\ flipper = c
      BY <2>1, <2>4 DEF FlipInv, screenVars
    <3>2. context'[client[c].queue].renderable \in {client[c].id, NULL}
      BY <1>4, <1>t, <2>2, <2>4 DEF DrawContext, Types, SpuInv, ContextStates
    <3>3. \A f \in Frames : Pending(f)' = Pending(f) BY <2>1, PendingSame
    <3> QED BY <2>1, <2>4, <3>1, <3>2, <3>3 DEF FlipInv, Moves, screenVars, Drawing
  <2>5. CASE d # c
    <3>1. client'[c] = client[c] BY <2>1, <2>5 DEF Moves
    <3>2. pc(c) \in Drawing => context'[client[c].queue] = context[client[c].queue]
      BY <1>q, <2>1, <2>3, <2>5 DEF Running
    <3> QED BY <1>k, <2>1, <3>1, <3>2, PendingSame DEF pc
  <2> QED BY <2>4, <2>5
<1>5. ASSUME NEW d \in Clients, SelectPixelShader(d) PROVE Goal
  <2>1. pc(d) \in {"named", "ready"} /\ UNCHANGED <<client, screenVars, buffers>>
    BY <1>5 DEF SelectPixelShader
  <2>2. client[d].queue \in Queues BY <1>q, <2>1 DEF Running, Drawing
  <2>3. \A p \in Queues : context'[p].renderable = context[p].renderable
    BY <1>5, <1>t, <2>2 DEF SelectPixelShader, Types, SpuInv, ContextStates
  <2>4. pc(c) \in Drawing => client[c].queue \in Queues BY <1>q DEF Running
  <2> QED BY <1>k, <2>1, <2>3, <2>4, PendingSame DEF pc
<1>6. ASSUME NEW d \in Clients, ClearScreen(d) \/ Vertex(d) PROVE Goal
  <2>1. /\ pc(d) \in Drawing
        /\ \E p \in Drawing : Moves(d, p)
        /\ context' = context /\ UNCHANGED screenVars
    BY <1>6, <1>t, ClientSteps DEF ClearScreen, Vertex, Drawing
  <2>2. /\ client'[c].pc = "flipped" => client'[c] = client[c]
        /\ client'[c].pc \in Drawing => pc(c) \in Drawing /\ client'[c].queue = client[c].queue
    BY <2>1 DEF Moves, pc, Drawing
  <2>3. \/ UNCHANGED buffers
        \/ \E place \in Places(client[d].queue), shader \in Clients \cup {NULL} :
             Written(client[d].queue, place, Triangle(d, shader))
    <3>1. client[d].queue \in Queues BY <1>q, <2>1 DEF Running
    <3>2. context[client[d].queue].shader \in Clients \cup {NULL}
      BY <1>t, <3>1 DEF Types, SpuInv, ContextStates
    <3> QED BY <1>6, <3>2 DEF ClearScreen, ClearShader, Vertex
  <2>4. CASE UNCHANGED buffers BY <1>k, <2>1, <2>2, <2>4, PendingSame
  <2>5. ASSUME NEW place \in Places(client[d].queue), NEW shader \in Clients \cup {NULL},
               Written(client[d].queue, place, Triangle(d, shader))
        PROVE  Goal
    <3> DEFINE u == Triangle(d, shader)
    <3>1. client[d].queue \in Queues BY <1>q, <2>1 DEF Running
    <3>2. u \in Triangles BY <3>1, <1>t DEF Types, SpuInv, ContextStates, Triangle, Triangles
    <3>3. u.client = d /\ u.asked = context[client[d].queue].renderable BY DEF Triangle
    <3> HIDE DEF u
    <3>4. /\ place.target \in Frames
          /\ \A f \in Frames \ {place.target} : Pending(f)' = Pending(f)
          /\ Pending(place.target)' = Pending(place.target) \cup {u}
      BY <1>t, <2>5, <3>1, <3>2, WrittenIsPending DEF u
    <3>5. flipper = c /\ visible' = visible BY <2>1 DEF screenVars
    <3>6. /\ client'[c].pc = "flipped" => client'[c].id = NumFrames - 1 - visible'
          /\ client'[c].pc \in Drawing =>
               context'[client'[c].queue].renderable \in {NULL, NumFrames - 1 - visible'}
      BY <2>1, <2>2, <3>5 DEF FlipInv, pc
    <3>7. ASSUME NEW f \in Frames, NEW t \in Pending(f)', t.client = c, ~Astray(f, t)
          PROVE  f = NumFrames - 1 - visible'
      <4>1. CASE t \in Pending(f) BY <3>5, <3>7, <4>1 DEF FlipInv
      <4>2. CASE t = u /\ f = place.target
        <5>1. context[client[c].queue].renderable = f /\ d = c BY <3>3, <3>7, <4>2 DEF Astray
        <5>2. f # NULL BY Constants
        <5> QED BY <2>1, <3>5, <5>1, <5>2 DEF FlipInv
      <4> QED BY <3>4, <3>7, <4>1, <4>2
    <3> QED BY <3>6, <3>7
  <2> QED BY <2>3, <2>4, <2>5
<1>7. ASSUME NEW d \in Clients, Begin(d) \/ VertexNowhere(d) \/ End(d) \/ Sync(d) \/ TryAgain(d)
      PROVE  Goal
  <2>1. /\ pc(d) \in Drawing
        /\ \E p \in Drawing \cup {"flushed"} : Moves(d, p)
        /\ UNCHANGED <<screenVars, context, buffers>>
    BY <1>7, <1>t, ClientSteps
       DEF Begin, VertexNowhere, End, Sync, TryAgain, Retry, spuVars, Drawing
  <2>2. /\ client'[c].pc = "flipped" => client'[c] = client[c]
        /\ client'[c].pc \in Drawing => pc(c) \in Drawing /\ client'[c].queue = client[c].queue
    BY <2>1 DEF Moves, pc, Drawing
  <2> QED BY <1>k, <2>1, <2>2, PendingSame
<1>8. ASSUME NEW g \in Frames, Draw(g) PROVE Goal
  <2>1. UNCHANGED <<client, screenVars, context>> BY <1>8 DEF Draw
  <2> QED BY <1>8, <1>k, <1>t, <2>1, DrawnIsNotPending DEF pc
<1>9. CASE UNCHANGED vars BY <1>9, <1>k, PendingSame DEF vars, spuVars, pc
<1> QED BY <1>1, <1>2, <1>3, <1>4, <1>5, <1>6, <1>7, <1>8, <1>9 DEF Next, Command, Leave, Vanish

\* With two frames nothing of the client that flipped last is drawn on the one that is
\* shown, but what went astray.
THEOREM ShownStaysFinished ==
  ASSUME NumFrames = 2
  PROVE  Spec => []ShownIsFinished
<1>1. Init => FlipInv BY Constants DEF Init, FlipInv
<1>2. ASSUME IInv, FlipInv PROVE ShownIsFinished
  <2> SUFFICES ASSUME NEW t \in Pending(visible), t.client = flipper PROVE Astray(visible, t)
    BY DEF ShownIsFinished
  <2>1. visible \in Frames /\ visible # NumFrames - 1 - visible
    BY <1>2 DEF IInv, Types, ScreenInv, Frames
  <2>2. t.client \in Clients BY <1>2, <2>1, PendingTypes DEF IInv, Triangles
  <2> QED BY <1>2, <2>1, <2>2 DEF FlipInv
<1> QED BY <1>1, <1>2, NextFlipInv, Invariant, PTL DEF Spec
=============================================================================
