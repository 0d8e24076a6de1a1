----------------------------- MODULE DrawTarget -----------------------------
(***************************************************************************)
(* Where triangles go when several clients draw in turn: the contexts of   *)
(* the queue slots, which outlive a client, the one place in a triangle    *)
(* buffer that the primary SPU has taken (_currentTriangle), the vertices  *)
(* it collects (one set for all queues), the two frames of the screen, and *)
(* the buffers pixel shaders are read from long after they were named.     *)
(*                                                                         *)
(* A command of a queue is one step, as CommandFifo delivers commands of a *)
(* queue whole and in order, and queues alternate between any two.  The    *)
(* buffer of a renderable is the sequence of its triangles not drawn yet;  *)
(* TriangleRing models it in full, and its theorem DrainedHasRoom is used: *)
(* an empty one has room.  Clients call the library as test/cube.c does:   *)
(* spuglFlip, spuglDrawContext with the id it returned, spuglClearScreen   *)
(* perhaps, spuglSelectPixelShader before the first vertex, primitives,    *)
(* glFlush, spuglFlip...; they may vanish anywhere.                        *)
(***************************************************************************)
EXTENDS Integers, Sequences, SequencesExt

CONSTANTS Clients,      \* processes, each connects once
          Queues,       \* the slots of command queues
          NumFrames,    \* screen.num_frames
          NULL,
          MaxFlips,     \* bound: frames drawn altogether
          MaxCommands,  \* bound: glBegin and vertices a client sends in a frame
          MaxPending    \* bound: triangles that fit a triangle buffer

ASSUME DrawTargetAssumption ==
  /\ NumFrames \in {1, 2}
  /\ {MaxFlips, MaxCommands, MaxPending} \subseteq Nat \ {0}
  /\ NULL \notin Clients \cup Queues \cup (0 .. 1)

\* The renderables are the frames, numbered as they lie in memory.
Frames == 0 .. (NumFrames - 1)

VARIABLES
  client,           \* what each client is doing: [pc, queue, id, commands]
  context,          \* _contexts: renderable and pixel shader of each slot
  currentTriangle,  \* _currentTriangleContext and the buffer _currentTriangle is in
  current_state,    \* the row of shuffle_map
  TRI,              \* the registers the next rows use: whose vertices they hold
  buffers,          \* the triangles of each renderable that are not drawn yet
  visible,          \* screen.visible: the frame that is shown
  flips,            \* what the bound counts
  flipper,          \* history: the client that flipped last
  fresh,            \* history: slots that drew nothing since spuglDrawContext
  interrupted       \* history: slots whose primitive another slot came into

spuVars == <<context, currentTriangle, current_state, TRI, buffers, fresh, interrupted>>
screenVars == <<visible, flips, flipper>>
vars == <<client, screenVars, spuVars>>

pc(c) == client[c].pc
Drawing == {"named", "clearing", "ready", "inside", "waiting"}
Running == Drawing \cup {"connected", "flipped", "flushed"}
Outside == [pc |-> "out", queue |-> NULL, id |-> NULL, commands |-> 0]

-----------------------------------------------------------------------------
(* The server.                                                              *)

\* A client connects and gets a queue and a buffer for its pixel shader.
Connect(c) ==
  /\ pc(c) = "out"
  /\ \E q \in Queues :
       /\ \A d \in Clients : pc(d) \in Running => client[d].queue # q
       /\ client' = [client EXCEPT ![c].pc = "connected", ![c].queue = q]
  /\ UNCHANGED <<screenVars, spuVars>>

\* freeBuffer or handleDisconnect, and the sweep: nobody holds a lock on a data
\* buffer, so it is unmapped at once.  The context of the slot stays as it is.
Mapped(c) == pc(c) \in Running

Release(c, how) ==
  /\ client' = [client EXCEPT ![c] = [Outside EXCEPT !.pc = how]]
  /\ UNCHANGED <<screenVars, spuVars>>

\* After glFlush, or in the middle of anything.
Leave(c) == pc(c) = "flushed" /\ Release(c, "left")
Vanish(c) == pc(c) \in Running \ {"flushed"} /\ Release(c, "vanished")

\* Deviation of renderable_id: the frame that comes into view.
renderable_shown(frame) == frame

\* screen.renderable_id: filled the other way round by Screen_open.
renderable_id(frame) == NumFrames - 1 - frame

\* spuglFlip, Screen_swap: show the other frame, return the one to draw on.
Flip(c) ==
  /\ pc(c) \in {"connected", "flushed"}
  /\ flips < MaxFlips
  /\ LET showFrame == NumFrames - 1 - visible
     IN /\ visible' = showFrame
        /\ client' = [client EXCEPT ![c].pc = "flipped", ![c].commands = 0,
                                    ![c].id = renderable_id(showFrame)]
  /\ flips' = flips + 1
  /\ flipper' = c
  /\ UNCHANGED spuVars

-----------------------------------------------------------------------------
(* The primary SPU: getTriangleBuffer and writeTriangleBuffer.              *)

Nowhere(q) == [context |-> q, target |-> NULL]

\* Deviation of Taken: a NULL from the last call is returned again.
TakenOrNull(q) == currentTriangle.context = q

\* "if we've already allocated a triangle buffer (and we're in the same context)"
Taken(q) == currentTriangle.context = q /\ currentTriangle.target # NULL

\* Deviation of HasRoom: the buffer is extended whatever is in it.
HasRoomAlways(f) == TRUE

HasRoom(f) == Len(buffers[f]) < MaxPending

\* The places getTriangleBuffer may return.  Whether a buffer that holds some
\* triangles has room depends on their sizes.
Places(q) ==
  IF Taken(q) THEN {currentTriangle} \ {Nowhere(q)}
  ELSE {[context |-> q, target |-> f] :
          f \in {g \in Frames : g = context[q].renderable /\ HasRoom(g)}}

\* ... or NULL, "trash the default values".
MayFail(q) ==
  /\ Places(q) = {} \/ ~Taken(q)
  /\ context[q].renderable # NULL => buffers[context[q].renderable] # <<>>

\* A handler that gets NULL returns 1 and the command is tried again.
Retry(q) ==
  /\ MayFail(q)
  /\ currentTriangle' = Nowhere(q)
  /\ UNCHANGED <<context, current_state, TRI, buffers, fresh, interrupted>>

\* A triangle: who sent it, for which renderable, with which shader.
Triangle(c, shader) ==
  [client |-> c, asked |-> context[client[c].queue].renderable, shader |-> shader]

\* Deviation of Written: "finally invalidate the triangle info" left out.
WrittenAndKept(q, place, triangle) ==
  /\ buffers' = [buffers EXCEPT ![place.target] = Append(@, triangle)]
  /\ currentTriangle' = place
  /\ fresh' = fresh \ {q}

\* The triangle goes where the place is, and the place is used up.
Written(q, place, triangle) ==
  /\ buffers' = [buffers EXCEPT ![place.target] = Append(@, triangle)]
  /\ currentTriangle' = Nowhere(q)
  /\ fresh' = fresh \ {q}

-----------------------------------------------------------------------------
(* The primary SPU: the commands.                                           *)

\* The slots that are between glBegin and glEnd, other than q.
Inside(q) == {client[d].queue : d \in {d \in Clients : pc(d) \in {"inside", "waiting"}}} \ {q}

\* imp_draw_context: the renderable of that id, or none if there is none.
DrawContext(c) ==
  LET q == client[c].queue
  IN /\ pc(c) = "flipped"
     /\ \E renderable \in {client[c].id, NULL} :
          context' = [context EXCEPT ![q].renderable = renderable]
     /\ client' = [client EXCEPT ![c].pc = "named", ![c].id = NULL]
     /\ fresh' = fresh \cup {q}
     /\ UNCHANGED <<screenVars, currentTriangle, current_state, TRI,
                    buffers, interrupted>>

\* imp_SelectPixelShader: the address of the buffer as the table has it now.
SelectPixelShader(c) ==
  LET q == client[c].queue
  IN /\ pc(c) \in {"named", "ready"}
     /\ context[q].shader # c
     /\ context' = [context EXCEPT ![q].shader = c]
     /\ UNCHANGED <<client, screenVars, currentTriangle, current_state, TRI,
                    buffers, fresh, interrupted>>

\* Deviation of ClearShader: "triangle->shader_ea = 0" left out.
ClearShaderOfContext(q) == context[q].shader

\* A clear is drawn without the pixel shader of the context.
ClearShader(q) == NULL

\* imp_clear_screen: the registers are overwritten with a triangle that covers
\* the screen.
ClearScreen(c) ==
  LET q == client[c].queue
  IN /\ pc(c) \in {"named", "clearing"}
     /\ \E place \in Places(q) :
          Written(q, place, Triangle(c, ClearShader(q)))
     /\ TRI' = [i \in DOMAIN TRI |-> NULL]
     /\ client' = [client EXCEPT ![c].pc = "ready"]
     /\ interrupted' = interrupted \cup Inside(q)
     /\ UNCHANGED <<screenVars, context, current_state>>

\* Deviation of Began: a glBegin inside a primitive is refused.
BeganOutside == IF current_state = -1 THEN 4 ELSE current_state

\* A glBegin inside a primitive, one's own or another's, starts anew.
Began == 4

\* imp_glBegin(GL_TRIANGLES).
Begin(c) ==
  LET q == client[c].queue
  IN /\ pc(c) \in {"named", "ready"}
     /\ context[q].shader = c
     /\ client[c].commands < MaxCommands
     /\ current_state' = Began
     /\ TRI' = IF Began = 4 THEN <<>> ELSE TRI
     /\ client' = [client EXCEPT ![c].pc = "inside", ![c].commands = @ + 1]
     /\ interrupted' = (interrupted \cup Inside(q)) \ {q}
     /\ UNCHANGED <<screenVars, context, currentTriangle, buffers, fresh>>

\* shuffle_map for GL_TRIANGLES: 4, 13, 14 for the first, second and third
\* point.  Outside a primitive the entry before the table is read, which may
\* be anything; here it acts like one of the rows, on registers of nobody.
Rows == {4, 13, 14}
RowsRead == IF current_state = -1 THEN Rows ELSE {current_state}
RowAfter(row) == CASE row = 4 -> 13 [] row = 13 -> 14 [] row = 14 -> 4

\* shuffles 0 and 3: the first point fills the registers, others move in.
Shuffled(row, c) ==
  CASE row = 4  -> <<c>>
    [] row = 13 -> IF current_state = 13 THEN Append(TRI, c) ELSE <<NULL, c>>
    [] row = 14 -> IF current_state = 14 THEN Append(TRI, c) ELSE <<NULL, NULL, c>>

\* imp_vertex, in a context with a renderable.  The third point makes a
\* triangle; one that is invisible leaves its place to the next.
Vertex(c) ==
  LET q == client[c].queue
  IN /\ pc(c) \in {"inside", "waiting"}
     /\ client[c].commands < MaxCommands
     /\ context[q].renderable # NULL
     /\ \E place \in Places(q), row \in RowsRead :
          /\ current_state' = RowAfter(row)
          /\ TRI' = IF row = 14 THEN <<>> ELSE Shuffled(row, c)
          /\ \/ row = 14 /\ Written(q, place, Triangle(c, context[q].shader))
             \/ currentTriangle' = place /\ UNCHANGED <<buffers, fresh>>
     /\ client' = [client EXCEPT ![c].pc = "inside", ![c].commands = @ + 1]
     /\ interrupted' = interrupted \cup Inside(q)
     /\ UNCHANGED <<screenVars, context>>

\* "ensure rendering context initialised, pretend success if not"
VertexNowhere(c) ==
  /\ pc(c) = "inside"
  /\ client[c].commands < MaxCommands
  /\ context[client[c].queue].renderable = NULL
  /\ client' = [client EXCEPT ![c].commands = @ + 1]
  /\ UNCHANGED <<screenVars, spuVars>>

\* imp_clear_screen or imp_vertex without a place: it stays the next command of
\* its queue.
TryAgain(c) ==
  /\ \/ /\ pc(c) \in {"named", "clearing"}
        /\ client' = [client EXCEPT ![c].pc = "clearing"]
     \/ /\ pc(c) \in {"inside", "waiting"}
        /\ client[c].commands < MaxCommands
        /\ context[client[c].queue].renderable # NULL
        /\ client' = [client EXCEPT ![c].pc = "waiting"]
  /\ Retry(client[c].queue)
  /\ UNCHANGED screenVars

\* imp_glEnd.
End(c) ==
  LET q == client[c].queue
  IN /\ pc(c) = "inside"
     /\ current_state' = -1
     /\ TRI' = <<>>
     /\ client' = [client EXCEPT ![c].pc = "ready"]
     /\ interrupted' = interrupted \cup Inside(q)
     /\ UNCHANGED <<screenVars, context, currentTriangle, buffers, fresh>>

\* Deviation of stillProcessingQueue: the last triangle is not waited for.
stillProcessingMost(q) == Len(buffers[context[q].renderable]) > 1

stillProcessingQueue(q) == buffers[context[q].renderable] # <<>>

\* glFlush: imp_glSync waits for the renderable of the context, imp_glFlush has
\* the client told.  Without a renderable the SPU would read address 0, which
\* is not modelled.
Sync(c) ==
  LET q == client[c].queue
  IN /\ pc(c) \in {"named", "ready"}
     /\ context[q].renderable # NULL
     /\ ~stillProcessingQueue(q)
     /\ client' = [client EXCEPT ![c].pc = "flushed"]
     /\ UNCHANGED <<screenVars, spuVars>>

\* The render SPUs draw the next triangle of a renderable.
Draw(f) ==
  /\ buffers[f] # <<>>
  /\ buffers' = [buffers EXCEPT ![f] = Tail(@)]
  /\ UNCHANGED <<client, screenVars, context, currentTriangle, current_state,
                 TRI, fresh, interrupted>>

-----------------------------------------------------------------------------
Init ==
  /\ client = [c \in Clients |-> Outside]
  /\ context = [q \in Queues |-> [renderable |-> NULL, shader |-> NULL]]
  /\ currentTriangle = [context |-> NULL, target |-> NULL]
  /\ current_state = -1
  /\ TRI = <<>>
  /\ buffers = [f \in Frames |-> <<>>]
  /\ visible = 0
  /\ flips = 0
  /\ flipper = NULL
  /\ fresh = {}
  /\ interrupted = {}

\* The commands of a frame that do something.
Command(c) ==
  \/ SelectPixelShader(c) \/ ClearScreen(c) \/ Begin(c) \/ Vertex(c) \/ VertexNowhere(c)
  \/ End(c) \/ Sync(c)

Next ==
  \/ \E c \in Clients :
       \/ Connect(c) \/ Leave(c) \/ Vanish(c) \/ Flip(c)
       \/ DrawContext(c) \/ Command(c) \/ TryAgain(c)
  \/ \E f \in Frames : Draw(f)

Spec == Init /\ [][Next]_vars

-----------------------------------------------------------------------------
(* Fairness.  A client that has begun a frame goes on to glFlush, the        *)
(* primary SPU goes round the queues, and the render SPUs draw.             *)
Fairness ==
  /\ \A c \in Clients : WF_vars(Command(c))
  /\ \A f \in Frames : WF_vars(Draw(f))

FairSpec == Spec /\ Fairness

-----------------------------------------------------------------------------
(* Properties.                                                              *)

Triangles == [client : Clients, asked : Frames \cup {NULL}, shader : Clients \cup {NULL}]

TypeOK ==
  /\ client \in [Clients -> [pc : Running \cup {"out", "left", "vanished"},
                             queue : Queues \cup {NULL}, id : Frames \cup {NULL},
                             commands : 0 .. MaxCommands]]
  /\ \A c, d \in Clients : {pc(c), pc(d)} \subseteq Running /\ c # d =>
                             client[c].queue # client[d].queue
  /\ context \in [Queues -> [renderable : Frames \cup {NULL}, shader : Clients \cup {NULL}]]
  /\ currentTriangle \in [context : Queues \cup {NULL}, target : Frames \cup {NULL}]
  /\ current_state \in Rows \cup {-1}
  /\ TRI \in Seq(Clients \cup {NULL}) /\ Len(TRI) <= 2
  /\ buffers \in [Frames -> Seq(Triangles)]
  /\ \A f \in Frames : Len(buffers[f]) <= MaxPending
  /\ visible \in Frames /\ flips \in 0 .. MaxFlips
  /\ flipper \in Clients \cup {NULL}
  /\ fresh \subseteq Queues /\ interrupted \subseteq Queues

Pending(f) == {buffers[f][i] : i \in DOMAIN buffers[f]}

\* A triangle in the buffer of another renderable than its client asked for:
\* the place was taken before spuglDrawContext and not used since.
Astray(f, t) == t.asked # f

\* A step writes a triangle of c into the buffer of f.
Writes(c, f) == Len(buffers'[f]) > Len(buffers[f]) /\ Last(buffers'[f]).client = c

\* A place taken before a change of the renderable outlives it (trianglebuffer.c:31),
\* but misleads one triangle only, the first of the new frame.
OnlyTheFirstGoesAstray ==
  [][\A c \in Clients, f \in Frames :
       Writes(c, f) /\ Astray(f, Last(buffers'[f])) => client[c].queue \in fresh]_vars

\* "The flush operation waits until all pending operations on that queue have completed"
\* (doc/architecture.txt:113-115).  It asks only after the renderable the context names
\* now; draw_flushed shows the triangle that has gone astray and is still pending.
FlushCompletes ==
  \A c \in Clients : pc(c) = "flushed" => \A f \in Frames : \A t \in Pending(f) : t.client # c

\* That is the only way: when glFlush returns everything the client has drawn in the
\* frame it asked for is in the frame buffer, whatever other clients do and whoever had
\* the slot before.
FlushedMeansDrawn ==
  \A c \in Clients : pc(c) = "flushed" =>
    \A f \in Frames : \A t \in Pending(f) : t.client = c => Astray(f, t)

\* Nothing is drawn on the frame that is shown, but what went astray: as long as the
\* client is the only one that flips.
ShownIsFinished ==
  \A t \in Pending(visible) : t.client = flipper => Astray(visible, t)

\* A buffer "is retained until any render operations involving that texture have
\* completed" (doc/architecture.txt:107-111).  Nobody locks the buffer of a pixel shader
\* (context_cmd.c:253); draw_shader shows one that is unmapped too early.
ShaderIsRetained ==
  \A f \in Frames : \A t \in Pending(f) : t.shader # NULL => Mapped(t.shader)

\* There are two ways only: the client vanished without glFlush (doc/BUGS:11), or the
\* triangle went astray and glFlush did not wait for it.  No client meets the shader of
\* the one that had the slot before.
ShaderOutlivesTriangle ==
  \A f \in Frames : \A t \in Pending(f) :
    t.shader # NULL /\ ~Mapped(t.shader) => pc(t.client) = "vanished" \/ Astray(f, t)

\* One set of registers serves all queues (primitives.c:379): a triangle has three
\* vertices of its client unless another queue came into the primitive.
PrimitivesAreOnesOwn ==
  [][\A c \in Clients, f \in Frames :
       /\ Writes(c, f) /\ pc(c) \in {"inside", "waiting"}
       /\ client[c].queue \notin interrupted
       => TRI = <<c, c>>]_vars

\* Every frame that is begun in a renderable is finished: neither a client without a
\* renderable, whose clear is repeated for ever (primitives.c:696), nor one that
\* takes the place away again and again keeps others from drawing.
FrameIsFinished ==
  \A c \in Clients :
    (pc(c) \in Drawing /\ context[client[c].queue].renderable # NULL) ~> pc(c) \notin Drawing
=============================================================================
