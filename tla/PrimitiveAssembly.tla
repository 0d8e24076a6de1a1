------------------------- MODULE PrimitiveAssembly -------------------------
(* From vertices to the triangle buffer: what glBegin, glVertex, glEnd, the
   clearing of the screen and the choice of a renderable do on the primary SPU
   (server/primaryspu/primitives.c, context_cmd.c).  A table says, for every
   place in a primitive, where in the registers TRIx.. the new vertex goes and
   whether a triangle is ready; the triangle is written to the ring of
   TriangleRing, which may have no room for it.

   There is one client and one renderable.  A vertex stands for all its
   attributes and is named by its number since glBegin; which triangles are
   visible is an input.                                                      *)
EXTENDS TriangleRing

CONSTANTS
  Modes,        \* the arguments of glBegin
  MaxVertices   \* bound: vertices between glBegin and glEnd

ASSUME PrimitiveAssumption == Modes \subseteq Nat /\ MaxVertices \in Nat

Outside == -1

VARIABLES
  current_state,  \* the row of shuffle_map, or Outside
  TRI,            \* the four elements of each of TRIx, TRIy ..
  handler,        \* "none", or the instruction begun: "vertex", "clear"
  renderable,     \* renderableCacheLine of the context is not 0
  mode,           \* the client's part: the argument of glBegin, or Outside
  n,              \* history: vertices taken since glBegin
  assembled       \* history: the triangles since glBegin

machineVars == <<current_state, TRI, handler, renderable, mode, n, assembled>>
ringVars == vars
allVars == <<ringVars, machineVars>>
----------------------------------------------------------------------------
(* The tables.                                                               *)

GL_TRIANGLES == 4
GL_TRIANGLE_FAN == 6

Row(ins, nxt, what, e) == [insert |-> ins, next |-> nxt, add |-> what, end |-> e]

shuffle_map == [s \in 0..31 |->
  << Row(0, 0, "POINT", 0),       Row(0, 10, "NONE", 0),          \* POINTS, LINES
     Row(0, 11, "NONE", 0),       Row(0, 12, "NONE", 0),          \* LINE_LOOP, _STRIP
     Row(0, 13, "NONE", 0),       Row(0, 14, "NONE", 0),          \* TRIANGLES, _STRIP
     Row(0, 18, "NONE", 0),       Row(0, 21, "NONE", 0),          \* TRIANGLE_FAN, QUADS
     Row(0, 24, "NONE", 0),       Row(0, 27, "NONE", 0),          \* QUAD_STRIP, POLYGON
     Row(1, 1, "LINE", 0),        Row(1, 11, "LINE", 2),
     Row(1, 12, "LINE", 0),       Row(3, 14, "NONE", 0),
     Row(3, 4, "TRIANGLE", 0),    Row(3, 16, "NONE", 0),
     Row(3, 17, "TRIANGLE", 0),   Row(4, 16, "TRIANGLE", 0),
     Row(3, 19, "NONE", 0),       Row(3, 20, "TRIANGLE", 0),
     Row(5, 20, "TRIANGLE", 0),   Row(6, 22, "NONE", 0),
     Row(6, 23, "NONE", 0),       Row(6, 30, "TRIANGLE2", 0),
     Row(6, 22, "NONE", 0),       Row(6, 25, "NONE", 0),
     Row(6, 31, "TRIANGLE2", 0),  Row(3, 28, "NONE", 0),
     Row(3, 4, "TRIANGLE", 0),    Row(7, 29, "TRIANGLE", 8),
     Row(10, 7, "TRIANGLE", 0),   Row(9, 25, "TRIANGLE", 0) >>[s + 1]]

(* Where the four elements come from: A0 to A3 are the elements before, B0 is
   the new vertex, Z is nothing.                                             *)
shuffles == [i \in 0..11 |->
  << <<"B0", "B0", "B0", "B0">>, <<"A1", "B0", "B0", "A3">>,
     <<"A1", "A3", "Z", "Z">>, <<"A1", "A2", "B0", "A3">>,
     <<"A2", "A1", "B0", "A3">>, <<"A0", "A2", "B0", "A3">>,
     <<"A1", "A2", "A3", "B0">>, <<"A0", "A2", "B0", "A3">>,
     <<"A0", "A1", "A3", "Z">>, <<"A2", "A1", "A3", "A0">>,
     <<"A2", "A3", "A0", "A1">>, <<"A2", "A1", "B0", "A0">> >>[i + 1]]

NoVertex == 0
Cleared == -1

shuffle_in(inserter, regs, v) ==
  LET from == [A0 |-> regs[1], A1 |-> regs[2], A2 |-> regs[3], A3 |-> regs[4],
               B0 |-> v, Z |-> NoVertex]
  IN  [i \in 1..4 |-> from[shuffles[inserter][i]]]
----------------------------------------------------------------------------
(* The instructions of the client, which calls glVertex between glBegin and
   glEnd, and the others outside.                                            *)
Drawing == mode # Outside

(* Deviation of imp_validate_state: the argument is taken as it comes.       *)
AnyState(state) == TRUE

imp_validate_state(state) ==
  state \in DOMAIN shuffle_map /\ shuffle_map[state].insert = 0

(* imp_glBegin.  An argument that is no mode changes nothing, and the client
   is taken not to draw then.                                                *)
Begin(state) ==
  /\ handler = "none"
  /\ ~Drawing
  /\ imp_validate_state(state)
  /\ current_state' = state
  /\ mode' = state
  /\ UNCHANGED <<ringVars, TRI, handler, renderable, n, assembled>>

(* imp_glEnd and imp_close_segment, which draws nothing.                     *)
End ==
  /\ handler = "none"
  /\ Drawing
  /\ LET end == shuffle_map[current_state].end
     IN  TRI' = IF end = 0 THEN TRI ELSE shuffle_in(end, TRI, NoVertex)
  /\ current_state' = Outside
  /\ mode' = Outside
  /\ n' = 0
  /\ assembled' = <<>>
  /\ UNCHANGED <<ringVars, handler, renderable>>

(* imp_draw_context: the renderable of this ring, or an id that is not in the
   table.  The place in the ring is kept.                                    *)
DrawContext(known) ==
  /\ handler = "none"
  /\ ~Drawing
  /\ renderable' = known
  /\ UNCHANGED <<ringVars, current_state, TRI, handler, mode, n, assembled>>

(* The next instruction is one that needs a place in the ring.               *)
Calls(what) ==
  /\ handler = "none"
  /\ CASE what = "vertex" -> Drawing /\ renderable /\ n < MaxVertices
       [] what = "clear"  -> ~Drawing

(* imp_vertex without a renderable: "pretend success".                       *)
VertexNowhere ==
  /\ handler = "none"
  /\ Drawing
  /\ ~renderable
  /\ UNCHANGED allVars

(* getTriangleBuffer, which may have a place already: one that the last
   triangle did not use.                                                     *)
GetPlace(what) ==
  /\ Calls(what)
  /\ renderable
  /\ getTriangleBuffer
  /\ handler' = what
  /\ UNCHANGED <<current_state, TRI, renderable, mode, n, assembled>>

HasPlace(what) ==
  \/ handler = what
  \/ Calls(what) /\ currentTriangle # NoTriangle

(* Deviation of Busy: the vertex goes into the registers before the test.    *)
BusyShuffles ==
  /\ Calls("vertex")
  /\ currentTriangle = NoTriangle
  /\ ~HasRoom
  /\ TRI' = shuffle_in(shuffle_map[current_state].insert, TRI, n + 1)
  /\ UNCHANGED <<ringVars, current_state, handler, renderable, mode, n, assembled>>

(* No room, or nothing to clear: the instruction will be tried again.        *)
Busy ==
  /\ \E what \in {"vertex", "clear"} : Calls(what)
  /\ currentTriangle = NoTriangle
  /\ ~renderable \/ ~HasRoom
  /\ UNCHANGED allVars

(* imp_triangle and writeTriangleBuffer for the first three elements: an
   invisible triangle leaves its place to the next one.  A triangle of which
   two corners are one has no area.                                          *)
EmitTriangle(regs) ==
  LET corners == SubSeq(regs, 1, 3)
  IN  IF \E i, j \in 1..3 : i < j /\ corners[i] = corners[j]
      THEN UNCHANGED <<ringVars, assembled>>
      ELSE /\ assembled' = Append(assembled, corners)
           /\ \/ UNCHANGED ringVars
              \/ \E size \in Sizes : writeTriangleBuffer(size)

(* imp_vertex with its place in the ring.  Of the two triangles of a quad the
   first one is passed over ("TODO: fix code for quad").                     *)
Vertex ==
  LET row == shuffle_map[current_state]
      entered == shuffle_in(row.insert, TRI, n + 1)
      second == shuffle_map[row.next]
      isQuad == row.add = "TRIANGLE2"
      regs == IF isQuad THEN shuffle_in(second.insert, entered, n + 1) ELSE entered
  IN  /\ HasPlace("vertex")
      /\ TRI' = regs
      /\ current_state' = IF isQuad THEN second.next ELSE row.next
      /\ n' = n + 1
      /\ IF row.add \in {"TRIANGLE", "TRIANGLE2"}
         THEN EmitTriangle(regs) ELSE UNCHANGED <<ringVars, assembled>>
      /\ handler' = "none"
      /\ UNCHANGED <<renderable, mode>>

(* imp_clear_screen with its place: the registers take one triangle around
   the screen.                                                               *)
Clear ==
  /\ HasPlace("clear")
  /\ TRI' = [i \in 1..4 |-> Cleared]
  /\ \E size \in Sizes : writeTriangleBuffer(size)
  /\ handler' = "none"
  /\ UNCHANGED <<current_state, renderable, mode, n, assembled>>

(* The render SPUs.                                                          *)
RenderStep ==
  /\ \/ \E c \in Chunks : Advance(c) \/ Drop(c)
     \/ \E c, d \in Chunks : Split(c, d)
  /\ UNCHANGED machineVars
----------------------------------------------------------------------------
AssemblyInit ==
  /\ Init
  /\ current_state = Outside
  /\ TRI = [i \in 1..4 |-> NoVertex]
  /\ handler = "none"
  /\ renderable = FALSE
  /\ mode = Outside
  /\ n = 0
  /\ assembled = <<>>

AssemblyNext ==
  \/ \E state \in Modes : Begin(state)
  \/ \E known \in BOOLEAN : DrawContext(known)
  \/ \E what \in {"vertex", "clear"} : GetPlace(what)
  \/ End \/ VertexNowhere \/ Busy \/ Vertex \/ Clear
  \/ RenderStep

AssemblySpec == AssemblyInit /\ [][AssemblyNext]_allVars
----------------------------------------------------------------------------
(* Types: the row is one of the table, and one that a vertex finds while the
   client draws, so that the unchecked lookup of imp_vertex stays inside it
   (server/primaryspu/primitives.c:503-510).                                 *)
MachineTypeOK ==
  /\ current_state \in {Outside} \cup DOMAIN shuffle_map
  /\ current_state = Outside <=> mode = Outside
  /\ TRI \in [1..4 -> {Cleared} \cup 0..MaxVertices]
  /\ handler \in {"none", "vertex", "clear"}
  /\ renderable \in BOOLEAN
  /\ mode \in {Outside} \cup Modes
  /\ n \in 0..MaxVertices

(* The machine is of its type, and so is the ring under it.                  *)
AssemblyTypeOK == TypeOK /\ MachineTypeOK

(* The triangles that GL makes of k vertices.                                *)
Decomposition(k) ==
  IF mode = GL_TRIANGLES
  THEN [i \in 1 .. k \div 3 |-> <<3*i - 2, 3*i - 1, 3*i>>]
  ELSE [i \in 1 .. (IF k < 3 THEN 0 ELSE k - 2) |-> <<1, i + 1, i + 2>>]

(* Separate triangles and fans come out as GL has them, vertex by vertex, over
   any sequence of primitives, invisible triangles and retries in between:
   server/primaryspu/primitives.c:387-462, 500-608.                          *)
AssembledAsAsked ==
  mode \in {GL_TRIANGLES, GL_TRIANGLE_FAN} => assembled = Decomposition(n)
============================================================================
