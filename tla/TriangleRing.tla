---------------------------- MODULE TriangleRing ----------------------------
(***************************************************************************)
(* The triangle buffer behind the cache line of a renderable: the primary  *)
(* SPU appends triangles (getTriangleBuffer and writeTriangleBuffer of     *)
(* server/primaryspu/trianglebuffer.c), the render SPUs follow the         *)
(* next_triangle links from the chunkTriangle of each chunk.  The buffer   *)
(* is a ring; the space check must not hand out memory that some chunk has *)
(* still to read.                                                          *)
(*                                                                         *)
(* The DMA that writes a triangle is rounded up to 128 bytes.  Triangles   *)
(* of imp_triangle have 256, so it ends where the triangle does.  What the *)
(* render SPUs do to the cache line (RenderChunks) is cut down to its      *)
(* effect on the read pointers: a chunk advances along the links, an entry *)
(* copies the pointer of another or is given up.                           *)
(***************************************************************************)
EXTENDS Integers, Sequences

CONSTANTS BufferSize,     \* TRIANGLE_BUFFER_SIZE
          MaxSize,        \* TRIANGLE_MAX_SIZE, what the space check allows for
          Sizes,          \* the sizes that triangles really have
          Chunks,         \* the entries of the cache line
          MaxTriangles    \* bound: triangles written in a behaviour

\* imp_triangle writes 12 of the MAX_SHADER_PARAMS parameters, so a triangle
\* is smaller than TRIANGLE_MAX_SIZE.
ASSUME TriangleRingAssumption ==
  /\ BufferSize \in Nat \ {0}
  /\ MaxSize \in Nat
  /\ 2 * MaxSize <= BufferSize
  /\ Sizes \subseteq 1 .. (MaxSize - 1)
  /\ MaxTriangles \in Nat

Offsets == 0 .. (BufferSize - 1)
Triangle == [start : Offsets, size : Sizes, next_triangle : Offsets, lap : Nat]
NoTriangle == [offset |-> -1, rewind |-> FALSE]

VARIABLES
  endTriangle,     \* of the cache line: where the next triangle goes
  chunkTriangle,   \* of the cache line: the next triangle of each entry
  live,            \* the entries whose chunkNext is not CHUNKNEXT_FREE_BLOCK
  currentTriangle, \* the place getTriangleBuffer handed out
  memory,          \* the buffer: which triangle each unit belongs to, 0 none
  \* History variables, for the properties only.
  triangles,       \* the triangles written: their place, next_triangle and lap
  done,            \* done[c]: how many triangles the chunk c has left behind
  lap              \* BufferSize times the number of rewinds so far

vars == <<endTriangle, chunkTriangle, live, currentTriangle, memory, triangles, done, lap>>

written == Len(triangles)

-----------------------------------------------------------------------------
\* Mutant: only the end of the buffer limits the writer.
ExtendValidAnyRead(read) == BufferSize > endTriangle + MaxSize

\* Extending by the largest triangle stays below the next triangle to read, or
\* below the end of the buffer if that lies behind.
ExtendValid(read) ==
  (IF read > endTriangle THEN read ELSE BufferSize) > endTriangle + MaxSize

\* Mutant: rewind only when the triangle itself does not fit.
RewindsLate == endTriangle + MaxSize > BufferSize

\* After this triangle there may be no room for another one.
Rewinds == endTriangle + 2 * MaxSize > BufferSize

\* Mutant: a rewind may catch up with a chunk that is to read at 0.
RoomAtStart(c) == ExtendValid(chunkTriangle[c])

Room(c) ==
  /\ ExtendValid(chunkTriangle[c])
  /\ Rewinds => chunkTriangle[c] # 0

HasRoom == \A c \in live : Room(c)

\* getTriangleBuffer.  Without room it returns NULL and changes nothing: the
\* command is tried again later.
getTriangleBuffer ==
  /\ currentTriangle = NoTriangle
  /\ written < MaxTriangles
  /\ HasRoom
  /\ currentTriangle' = [offset |-> endTriangle, rewind |-> Rewinds]
  /\ UNCHANGED <<endTriangle, chunkTriangle, live, memory, triangles, done, lap>>

\* The link, and the new endTriangle.
NextPointer(size) == IF currentTriangle.rewind THEN 0 ELSE currentTriangle.offset + size

\* writeTriangleBuffer: first the triangle and its link, then endTriangle.
writeTriangleBuffer(size) ==
  LET offset == currentTriangle.offset
  IN /\ currentTriangle # NoTriangle
     /\ memory' = [u \in Offsets |-> IF u \in offset .. (offset + size - 1)
                                     THEN written + 1 ELSE memory[u]]
     /\ triangles' = Append(triangles, [start |-> offset, size |-> size,
                                        next_triangle |-> NextPointer(size), lap |-> lap])
     /\ endTriangle' = NextPointer(size)
     /\ lap' = IF currentTriangle.rewind THEN lap + BufferSize ELSE lap
     /\ currentTriangle' = NoTriangle
     /\ UNCHANGED <<chunkTriangle, live, done>>

\* A render SPU is through with the triangle of its chunk and reads the link
\* to the next one from the buffer.
Advance(c) ==
  /\ c \in live
  /\ chunkTriangle[c] # endTriangle
  /\ chunkTriangle' =
       [chunkTriangle EXCEPT ![c] = triangles[memory[chunkTriangle[c]]].next_triangle]
  /\ done' = [done EXCEPT ![c] = @ + 1]
  /\ UNCHANGED <<endTriangle, live, currentTriangle, memory, triangles, lap>>

\* An entry is reserved for, or split off, the chunk c.
Split(c, d) ==
  /\ c \in live
  /\ d \notin live
  /\ live' = live \cup {d}
  /\ chunkTriangle' = [chunkTriangle EXCEPT ![d] = chunkTriangle[c]]
  /\ done' = [done EXCEPT ![d] = done[c]]
  /\ UNCHANGED <<endTriangle, currentTriangle, memory, triangles, lap>>

\* Mutant: the last entry may be merged away.
DropLast(c) ==
  /\ c \in live
  /\ live' = live \ {c}
  /\ UNCHANGED <<endTriangle, chunkTriangle, currentTriangle, memory, triangles, done, lap>>

\* An entry is merged away, or a reserved one given back.
Drop(c) ==
  /\ c \in live
  /\ live # {c}
  /\ live' = live \ {c}
  /\ UNCHANGED <<endTriangle, chunkTriangle, currentTriangle, memory, triangles, done, lap>>

Init ==
  /\ endTriangle = 0
  /\ chunkTriangle = [c \in Chunks |-> 0]
  /\ \E c \in Chunks : live = {c}
  /\ currentTriangle = NoTriangle
  /\ memory = [u \in Offsets |-> 0]
  /\ triangles = <<>>
  /\ done = [c \in Chunks |-> 0]
  /\ lap = 0

Next ==
  \/ getTriangleBuffer
  \/ \E size \in Sizes : writeTriangleBuffer(size)
  \/ \E c \in Chunks : Advance(c) \/ Drop(c)
  \/ \E c, d \in Chunks : Split(c, d)

Spec == Init /\ [][Next]_vars

-----------------------------------------------------------------------------
(* Properties.                                                             *)

\* Every variable has the type the code gives it; endTriangle and the read
\* pointers stay inside the buffer, and some entry is always in use.
TypeOK ==
  /\ endTriangle \in Offsets
  /\ chunkTriangle \in [Chunks -> Offsets]
  /\ live \in (SUBSET Chunks) \ {{}}
  /\ currentTriangle \in [offset : Offsets, rewind : BOOLEAN] \cup {NoTriangle}
  /\ memory \in [Offsets -> 0 .. written]
  /\ triangles \in Seq(Triangle)
  /\ done \in [Chunks -> Nat]
  /\ lap \in Nat

\* The triangles that chunk c has still to draw.
Pending(c) == (done[c] + 1) .. written

\* No triangle is overwritten, not even in part, before every chunk that has
\* to draw it has done so ("to make sure that extending the write pointer
\* wouldn't clobber the data").
TriangleIsIntact ==
  \A c \in live : \A k \in Pending(c) :
    \A u \in triangles[k].start .. (triangles[k].start + triangles[k].size - 1) :
      memory[u] = k

\* A chunk whose chunkTriangle equals endTriangle has drawn everything: a full
\* buffer is never mistaken for an empty one, however often it has wrapped.
EmptyMeansDone ==
  \A c \in live : chunkTriangle[c] = endTriangle => Pending(c) = {}

\* Once the render SPUs have caught up there is room for the next triangle: the
\* retry of a command that found no room ends.
RoomWhenDrained ==
  (\A c \in live : chunkTriangle[c] = endTriangle) => HasRoom
=============================================================================
