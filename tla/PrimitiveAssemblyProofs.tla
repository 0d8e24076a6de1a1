---------------------- MODULE PrimitiveAssemblyProofs ----------------------
(***************************************************************************)
(* From vertices to triangles, for any number of vertices, any sequence of *)
(* primitives and any buffer.                                              *)
(*   - The rows and registers stay what they are for (AssemblyTypes).      *)
(*   - Separate triangles and fans come out as GL has them                 *)
(*     (TrianglesAsAsked).                                                 *)
(*   - The primary SPU uses the ring as TriangleRing describes             *)
(*     (AssemblyUsesTheRing), whose theorems hold of it therefore.         *)
(*                                                                         *)
(* The space check of trianglebuffer.c is right for every buffer size,     *)
(* triangle size and number of chunks that satisfy TriangleRingAssumption. *)
(*                                                                         *)
(* The argument gives every triangle a place on a line instead of on the   *)
(* ring: its offset plus BufferSize for each rewind before it.  On the     *)
(* line the triangles follow one another, and what has still to be read    *)
(* never spans BufferSize, so it occurs on the ring once.                  *)
(***************************************************************************)
EXTENDS PrimitiveAssembly, TLAPS

Place(k) == triangles[k].lap + triangles[k].start
WritePlace == lap + endTriangle

\* The triangles lie one behind the other, each far enough from the end of the
\* buffer, and each linked to the next.
TrianglesInOrder ==
  \A k \in 1 .. written :
    /\ triangles[k].start + MaxSize < BufferSize
    /\ Place(k) + triangles[k].size <= WritePlace
    /\ \A m \in 1 .. written : k < m => Place(k) + triangles[k].size <= Place(m)
    /\ triangles[k].next_triangle =
         IF k = written THEN endTriangle ELSE triangles[k + 1].start

\* A chunk reads where its first pending triangle is, and the writer is less
\* than one lap ahead of everything pending.
ReaderIsBehind(c) ==
  /\ done[c] <= written
  /\ chunkTriangle[c] = IF done[c] = written THEN endTriangle ELSE triangles[done[c] + 1].start
  /\ \A k \in Pending(c) :
       /\ triangles[k].lap = lap \/ triangles[k].lap = lap - BufferSize
       /\ WritePlace < Place(k) + BufferSize

\* The place handed out stays good while the chunks move on.
RoomIsKept ==
  currentTriangle # NoTriangle =>
    /\ currentTriangle.offset = endTriangle
    /\ currentTriangle.rewind = Rewinds
    /\ HasRoom

IInv ==
  /\ TypeOK
  /\ endTriangle + MaxSize < BufferSize
  /\ TrianglesInOrder
  /\ \A c \in live : ReaderIsBehind(c)
  /\ TriangleIsIntact
  /\ RoomIsKept

-----------------------------------------------------------------------------
\* One unit of memory is one value of the line: the facts about a pending
\* triangle that every step needs.
LEMMA PendingFacts ==
  ASSUME IInv, NEW c \in live, NEW k \in Pending(c)
  PROVE  /\ c \in Chunks /\ done[c] \in Nat /\ written \in Nat
         /\ k \in 1 .. written /\ k \in Nat
         /\ triangles[k] \in Triangle
         /\ triangles[k].start \in Offsets /\ triangles[k].lap \in Nat
         /\ triangles[k].size \in 1 .. (MaxSize - 1)
         /\ triangles[k].next_triangle \in Offsets
         /\ triangles[k].start + MaxSize < BufferSize
         /\ Place(k) + triangles[k].size <= WritePlace
         /\ triangles[k].lap = lap \/ triangles[k].lap = lap - BufferSize
         /\ WritePlace < Place(k) + BufferSize
<1>1. c \in Chunks /\ done[c] \in Nat /\ written \in Nat
  BY DEF IInv, TypeOK, written
<1>2. k \in 1 .. written /\ k \in Nat
  BY <1>1 DEF Pending
<1>3. triangles[k] \in Triangle
  <2>1. triangles \in Seq(Triangle)
    BY DEF IInv, TypeOK
  <2> QED
    BY <2>1, <1>2 DEF written
<1>4. /\ triangles[k].start \in Offsets /\ triangles[k].lap \in Nat
      /\ triangles[k].size \in 1 .. (MaxSize - 1)
      /\ triangles[k].next_triangle \in Offsets
  BY <1>3, TriangleRingAssumption DEF Triangle
<1>5. /\ triangles[k].start + MaxSize < BufferSize
      /\ Place(k) + triangles[k].size <= WritePlace
  BY <1>2 DEF IInv, TrianglesInOrder
<1>6. /\ triangles[k].lap = lap \/ triangles[k].lap = lap - BufferSize
      /\ WritePlace < Place(k) + BufferSize
  BY DEF IInv, ReaderIsBehind
<1> QED
  BY <1>1, <1>2, <1>3, <1>4, <1>5, <1>6

\* Numbers have the types the arithmetic needs.
LEMMA Types ==
  ASSUME IInv
  PROVE  /\ endTriangle \in Nat /\ lap \in Nat /\ written \in Nat
         /\ BufferSize \in Nat \ {0} /\ MaxSize \in Nat /\ 2 * MaxSize <= BufferSize
         /\ endTriangle + MaxSize < BufferSize
  BY TriangleRingAssumption DEF IInv, TypeOK, written, Offsets

\* With room for the chunk c the writer stays less than a lap ahead of its
\* pending triangles even by the largest triangle, and if it rewinds they all
\* lie in the lap it leaves.
LEMMA RoomAhead ==
  ASSUME IInv, NEW c \in live, Room(c), NEW k \in Pending(c)
  PROVE  /\ WritePlace + MaxSize < Place(k) + BufferSize
         /\ Rewinds => lap < Place(k) /\ triangles[k].lap = lap
<1> DEFINE f == done[c] + 1
<1>1. c \in Chunks /\ done[c] \in Nat /\ written \in Nat /\ f \in Pending(c) /\ f <= k
  BY PendingFacts DEF Pending
<1>2. chunkTriangle[c] = triangles[f].start
  BY <1>1 DEF IInv, ReaderIsBehind, Pending
<1>3. Place(f) <= Place(k)
  <2>1. CASE f = k
    BY <2>1, PendingFacts DEF Place, Offsets
  <2>2. CASE f # k
    <3>1. Place(f) + triangles[f].size <= Place(k)
      BY <2>2, <1>1, PendingFacts DEF IInv, TrianglesInOrder
    <3>2. triangles[f].size \in Nat /\ Place(f) \in Int /\ Place(k) \in Int
      BY <1>1, PendingFacts, Types DEF Place, Offsets
    <3> QED
      BY <3>1, <3>2
  <2> QED
    BY <2>1, <2>2
<1>4. /\ triangles[f].start \in Nat /\ triangles[f].lap \in Nat
      /\ triangles[f].start + MaxSize < BufferSize
      /\ triangles[f].lap = lap \/ triangles[f].lap = lap - BufferSize
      /\ lap + endTriangle < triangles[f].lap + triangles[f].start + BufferSize
  BY <1>1, PendingFacts DEF Place, WritePlace, Offsets
<1>5. /\ triangles[k].start \in Nat /\ triangles[k].lap \in Nat
      /\ triangles[k].start < BufferSize
      /\ triangles[k].lap = lap \/ triangles[k].lap = lap - BufferSize
  BY PendingFacts, Types DEF Offsets
<1>6. /\ (IF triangles[f].start > endTriangle THEN triangles[f].start ELSE BufferSize)
            > endTriangle + MaxSize
      /\ Rewinds => triangles[f].start # 0
  BY <1>2 DEF Room, ExtendValid
<1>7. /\ lap + endTriangle + MaxSize < triangles[f].lap + triangles[f].start + BufferSize
      /\ Rewinds => lap < triangles[f].lap + triangles[f].start
  BY <1>4, <1>6, Types DEF Rewinds
<1> QED
  BY <1>3, <1>4, <1>5, <1>7, Types DEF Place, WritePlace

\* The initial states satisfy the invariant.
LEMMA InitIInv == Init => IInv
<1> SUFFICES ASSUME Init PROVE IInv
  OBVIOUS
<1>1. written = 0 /\ triangles = <<>>
  BY DEF Init, written
<1>2. \A c \in Chunks : Pending(c) = {}
  BY <1>1 DEF Init, Pending
<1>3. endTriangle + MaxSize < BufferSize
  BY TriangleRingAssumption DEF Init
<1>4. TypeOK
  BY <1>1, TriangleRingAssumption DEF Init, TypeOK, Offsets
<1> QED
  BY <1>1, <1>2, <1>3, <1>4
  DEF Init, IInv, TrianglesInOrder, ReaderIsBehind, TriangleIsIntact, RoomIsKept, TypeOK

\* A step that leaves the ring and its readers alone keeps the invariant when it
\* hands out a place there is room for.
LEMMA GetStep ==
  ASSUME IInv, getTriangleBuffer
  PROVE  IInv'
<1>1. /\ UNCHANGED <<endTriangle, chunkTriangle, live, memory, triangles, done, lap>>
      /\ currentTriangle' = [offset |-> endTriangle, rewind |-> Rewinds]
      /\ HasRoom
  BY DEF getTriangleBuffer
<1>2. Rewinds \in BOOLEAN
  BY DEF Rewinds
<1>3. TypeOK'
  BY <1>1, <1>2 DEF IInv, TypeOK, written
<1>4. RoomIsKept'
  BY <1>1 DEF RoomIsKept, HasRoom, Room, ExtendValid, Rewinds
<1>5. TrianglesInOrder' /\ TriangleIsIntact' /\ (\A c \in live : ReaderIsBehind(c))'
  BY <1>1 DEF IInv, TrianglesInOrder, TriangleIsIntact, ReaderIsBehind, Pending,
              Place, WritePlace, written
<1> QED
  BY <1>1, <1>3, <1>4, <1>5 DEF IInv

\* The write lands on no pending triangle, and every chunk still reads less than
\* a lap behind it.
LEMMA WriteStep ==
  ASSUME IInv, NEW size \in Sizes, writeTriangleBuffer(size)
  PROVE  IInv'
<1>0. PICK latest \in Nat : latest = written + 1
  BY Types
<1> DEFINE new == [start |-> endTriangle, size |-> size,
                   next_triangle |-> endTriangle', lap |-> lap]
<1>1. /\ currentTriangle # NoTriangle
      /\ currentTriangle.offset = endTriangle
      /\ currentTriangle.rewind <=> Rewinds
      /\ HasRoom
  BY DEF IInv, RoomIsKept, writeTriangleBuffer, Rewinds
<1>2. /\ memory' = [u \in Offsets |-> IF u \in endTriangle .. (endTriangle + size - 1)
                                      THEN latest ELSE memory[u]]
      /\ triangles' = Append(triangles, new)
      /\ currentTriangle' = NoTriangle
      /\ UNCHANGED <<chunkTriangle, live, done>>
  BY <1>0, <1>1 DEF writeTriangleBuffer
<1>17. /\ Rewinds => endTriangle' = 0 /\ lap' = lap + BufferSize
       /\ ~Rewinds => endTriangle' = endTriangle + size /\ lap' = lap
  BY <1>1 DEF writeTriangleBuffer, NextPointer
<1>3. size \in 1 .. (MaxSize - 1) /\ size \in Nat
  BY TriangleRingAssumption
<1>4. endTriangle' \in Offsets /\ lap' \in Nat /\ endTriangle' + MaxSize < BufferSize
  BY <1>17, <1>3, Types DEF Rewinds, Offsets
<1>5. new \in Triangle
  BY <1>2, <1>3, <1>4, Types DEF Triangle, IInv, TypeOK
<1>6. /\ triangles \in Seq(Triangle)
      /\ triangles' \in Seq(Triangle)
      /\ written' = latest
      /\ \A k \in 1 .. written : triangles'[k] = triangles[k]
      /\ triangles'[latest] = new
  BY <1>0, <1>2, <1>5 DEF IInv, TypeOK, written
<1>7. TypeOK'
  <2>1. memory' \in [Offsets -> 0 .. written']
    <3>1. memory \in [Offsets -> 0 .. written]
      BY DEF IInv, TypeOK
    <3>2. latest \in 0 .. written' /\ 0 .. written \subseteq 0 .. written'
      BY <1>0, <1>6, Types
    <3> QED
      BY <1>2, <3>1, <3>2
  <2>2. currentTriangle' \in [offset : Offsets, rewind : BOOLEAN] \cup {NoTriangle}
    BY <1>2
  <2> QED
    BY <1>2, <1>4, <1>6, <2>1, <2>2 DEF IInv, TypeOK
<1>8. WritePlace' \in Nat /\ WritePlace \in Nat /\ WritePlace + size <= WritePlace'
  BY <1>17, <1>3, <1>4, Types DEF WritePlace
<1>9. ASSUME NEW k \in 1 .. written'
      PROVE  \/ k = latest /\ triangles'[k] = new
             \/ k \in 1 .. written /\ k # latest /\ triangles'[k] = triangles[k] /\ Place(k)' = Place(k)
  <2>1. k = latest \/ (k \in 1 .. written /\ k # latest)
    BY <1>0, <1>6, Types
  <2>2. CASE k = latest
    BY <2>2, <1>6
  <2>3. CASE k \in 1 .. written /\ k # latest
    <3>1. triangles'[k] = triangles[k]
      BY <2>3, <1>6
    <3> QED
      BY <2>3, <3>1 DEF Place
  <2> QED
    BY <2>1, <2>2, <2>3
<1>10. Place(latest)' = WritePlace
  BY <1>6 DEF Place, WritePlace
<1>11. \A k \in 1 .. written :
         /\ triangles[k].size \in Nat /\ Place(k) \in Nat
         /\ triangles[k].start \in Nat /\ triangles[k].lap \in Nat
         /\ Place(k) + triangles[k].size <= WritePlace
  <2> TAKE k \in 1 .. written
  <2>1. triangles[k] \in Triangle
    BY <1>6 DEF written
  <2>2. /\ triangles[k].start \in Nat /\ triangles[k].lap \in Nat
        /\ triangles[k].size \in 1 .. (MaxSize - 1)
    BY <2>1, TriangleRingAssumption DEF Triangle, Offsets
  <2>3. Place(k) + triangles[k].size <= WritePlace
    BY DEF IInv, TrianglesInOrder
  <2> QED
    BY <2>2, <2>3, Types DEF Place
<1>12. TrianglesInOrder'
  <2> SUFFICES ASSUME NEW k \in 1 .. written'
               PROVE  /\ triangles'[k].start + MaxSize < BufferSize
                      /\ Place(k)' + triangles'[k].size <= WritePlace'
                      /\ \A m \in 1 .. written' :
                           k < m => Place(k)' + triangles'[k].size <= Place(m)'
                      /\ triangles'[k].next_triangle =
                           IF k = written' THEN endTriangle' ELSE triangles'[k + 1].start
    BY DEF TrianglesInOrder
  <2>1. CASE k = latest
    <3>1. triangles'[k] = new /\ k = written' /\ Place(k)' = WritePlace
      BY <2>1, <1>6, <1>10
    <3>2. ~ \E m \in 1 .. written' : k < m
      BY <3>1
    <3>3. endTriangle + MaxSize < BufferSize /\ WritePlace + size <= WritePlace'
      BY <1>8, Types
    <3> QED
      BY <3>1, <3>2, <3>3
  <2>2. CASE k \in 1 .. written
    <3>1. triangles'[k] = triangles[k] /\ Place(k)' = Place(k) /\ k # latest
      BY <1>0, <2>2, <1>6, Types, SMTT(30) DEF Place
    <3>2. triangles[k].start + MaxSize < BufferSize
      BY <2>2 DEF IInv, TrianglesInOrder
    <3>3. Place(k)' + triangles'[k].size <= WritePlace'
      BY <2>2, <3>1, <1>3, <1>8, <1>11
    <3>4. ASSUME NEW m \in 1 .. written', k < m
          PROVE  Place(k)' + triangles'[k].size <= Place(m)'
      <4>1. CASE m = latest
        BY <1>0, <4>1, <2>2, <3>1, <1>10, <1>11
      <4>2. CASE m \in 1 .. written
        BY <4>2, <2>2, <3>1, <3>4, <1>6 DEF IInv, TrianglesInOrder, Place
      <4> QED
        BY <1>0, <4>1, <4>2, <1>6, Types
    <3>5. triangles'[k].next_triangle = triangles'[k + 1].start
      <4>1. CASE k = written
        BY <1>0, <4>1, <2>2, <3>1, <1>6 DEF IInv, TrianglesInOrder
      <4>2. CASE k # written
        <5>1. k + 1 \in 1 .. written
          BY <4>2, <2>2, Types
        <5> QED
          BY <5>1, <4>2, <2>2, <3>1, <1>6 DEF IInv, TrianglesInOrder
      <4> QED
        BY <4>1, <4>2
    <3> QED
      BY <3>1, <3>2, <3>3, <3>4, <3>5, <1>6
  <2> QED
    BY <1>0, <2>1, <2>2, <1>6, Types
<1>13. ASSUME NEW c \in live', NEW k \in Pending(c)'
       PROVE  /\ c \in live
              /\ Room(c)
              /\ done[c] \in Nat /\ done[c] <= written
              /\ \/ k = latest /\ triangles'[k] = new
                 \/ k # latest /\ k \in Pending(c) /\ triangles'[k] = triangles[k]
  <2>1. c \in live /\ c \in Chunks /\ done[c] \in Nat /\ done[c] <= written
    BY <1>2 DEF IInv, TypeOK, ReaderIsBehind
  <2>2. k \in (done[c] + 1) .. latest
    BY <1>2, <1>6 DEF Pending
  <2>3. k = latest \/ k \in Pending(c)
    BY <1>0, <2>1, <2>2, Types DEF Pending
  <2>4. k \in Pending(c) => k \in 1 .. written /\ k # latest
    BY <1>0, <2>1, Types DEF Pending
  <2> QED
    BY <2>1, <2>3, <2>4, <1>1, <1>6 DEF HasRoom
<1>14. ASSUME NEW c \in live'
       PROVE  ReaderIsBehind(c)'
  <2>1. /\ c \in live /\ c \in Chunks /\ done'[c] = done[c] /\ done[c] \in Nat
        /\ done[c] <= written /\ done[c] # written' /\ Room(c)
    BY <1>0, <1>1, <1>2, <1>6, Types, SMTT(30) DEF IInv, TypeOK, ReaderIsBehind, HasRoom
  <2>2. chunkTriangle'[c] = triangles'[done[c] + 1].start
    <3>1. CASE done[c] = written
      <4>1. chunkTriangle[c] = endTriangle
        BY <3>1, <2>1 DEF IInv, ReaderIsBehind
      <4>2. triangles'[done[c] + 1].start = endTriangle
        BY <3>1, <1>0, <1>6
      <4> QED
        BY <4>1, <4>2, <1>2
    <3>2. CASE done[c] # written
      <4>1. done[c] + 1 \in 1 .. written
        BY <3>2, <2>1, Types
      <4> QED
        BY <4>1, <3>2, <2>1, <1>2, <1>6 DEF IInv, ReaderIsBehind
    <3> QED
      BY <3>1, <3>2
  <2>3. ASSUME NEW k \in Pending(c)'
        PROVE  /\ triangles'[k].lap = lap' \/ triangles'[k].lap = lap' - BufferSize
               /\ WritePlace' < Place(k)' + BufferSize
    <3>1. CASE k \in Pending(c) /\ triangles'[k] = triangles[k]
      <4>1. /\ WritePlace + MaxSize < Place(k) + BufferSize
            /\ Rewinds => lap < Place(k) /\ triangles[k].lap = lap
            /\ triangles[k].lap = lap \/ triangles[k].lap = lap - BufferSize
        BY <3>1, <2>1, RoomAhead, PendingFacts
      <4>2. Place(k)' = Place(k) /\ Place(k) \in Int
        BY <3>1, <2>1, PendingFacts DEF Place, Offsets
      <4>3. WritePlace' < Place(k) + BufferSize
        BY <4>1, <4>2, <1>17, <1>3, <1>4, Types DEF WritePlace
      <4> QED
        BY <3>1, <4>1, <4>2, <4>3, <1>17, Types
    <3>2. CASE k = latest /\ triangles'[k] = new
      <4>1. Rewinds => endTriangle # 0
        BY Types DEF Rewinds
      <4>2. triangles'[k].lap = lap /\ Place(k)' = lap + endTriangle
        BY <3>2, <1>10 DEF WritePlace
      <4>3. WritePlace' < lap + endTriangle + BufferSize
        BY <4>1, <1>17, <1>3, Types DEF WritePlace
      <4> QED
        BY <4>2, <4>3, <1>17, Types
    <3> QED
      BY <3>1, <3>2, <1>13
  <2> QED
    <3>1. done'[c] <= written'
      BY <2>1, <1>0, <1>6, Types, SMTT(30)
    <3>2. chunkTriangle'[c] = IF done'[c] = written' THEN endTriangle'
                              ELSE triangles'[done'[c] + 1].start
      BY <2>1, <2>2
    <3> QED
      BY <2>3, <3>1, <3>2 DEF ReaderIsBehind
<1>15. TriangleIsIntact'
  <2> SUFFICES ASSUME NEW c \in live', NEW k \in Pending(c)',
                      NEW u \in (triangles'[k].start) ..
                                  (triangles'[k].start + triangles'[k].size - 1)
               PROVE  memory'[u] = k
    BY DEF TriangleIsIntact
  <2>1. CASE k = latest /\ triangles'[k] = new
    BY <2>1, <1>2, <1>3, Types, SMTT(30) DEF Offsets
  <2>2. CASE k \in Pending(c) /\ triangles'[k] = triangles[k]
    <3>1. /\ c \in live /\ Room(c)
          /\ triangles[k].start \in Nat /\ triangles[k].size \in 1 .. (MaxSize - 1)
          /\ triangles[k].lap \in Nat
          /\ triangles[k].start + MaxSize < BufferSize
      BY <2>2, <1>13, PendingFacts DEF Offsets
    <3>2. /\ WritePlace + MaxSize < Place(k) + BufferSize
          /\ triangles[k].lap = lap \/ triangles[k].lap = lap - BufferSize
          /\ Place(k) + triangles[k].size <= WritePlace
      BY <2>2, <3>1, RoomAhead, PendingFacts
    <3>3. u \in Offsets /\ memory[u] = k
      BY <2>2, <3>1, Types DEF IInv, TriangleIsIntact, Offsets
    <3>4. u \notin endTriangle .. (endTriangle + size - 1)
      BY <2>2, <3>1, <3>2, <1>3, Types DEF Place, WritePlace
    <3> QED
      BY <3>3, <3>4, <1>2
  <2> QED
    BY <2>1, <2>2, <1>13
<1>16. RoomIsKept'
  BY <1>2 DEF RoomIsKept
<1> QED
  BY <1>4, <1>7, <1>12, <1>14, <1>15, <1>16 DEF IInv


\* A chunk that moves on reads the right link, and a place handed out to the
\* writer stays clear of where it goes.
LEMMA AdvanceStep ==
  ASSUME IInv, NEW c \in Chunks, Advance(c)
  PROVE  IInv'
<1> DEFINE f == done[c] + 1
<1>1. /\ c \in live
      /\ chunkTriangle[c] # endTriangle
      /\ done' = [done EXCEPT ![c] = f]
      /\ UNCHANGED <<endTriangle, live, currentTriangle, memory, triangles, lap>>
      /\ chunkTriangle' =
           [chunkTriangle EXCEPT ![c] = triangles[memory[chunkTriangle[c]]].next_triangle]
  BY DEF Advance
<1>2. done[c] \in Nat /\ done[c] <= written /\ done[c] # written
  BY <1>1 DEF IInv, TypeOK, ReaderIsBehind
<1>3. f \in Pending(c) /\ f \in 1 .. written /\ f <= written /\ f \in Nat
  BY <1>2, Types DEF Pending
<1>4. chunkTriangle[c] = triangles[f].start
  BY <1>1, <1>2 DEF IInv, ReaderIsBehind
<1>5. memory[chunkTriangle[c]] = f
  <2>1. triangles[f].start \in
          (triangles[f].start) .. (triangles[f].start + triangles[f].size - 1)
    BY <1>1, <1>3, PendingFacts, Types DEF Offsets
  <2> QED
    BY <2>1, <1>1, <1>3, <1>4 DEF IInv, TriangleIsIntact
<1>6. /\ triangles[f].next_triangle \in Offsets
      /\ triangles[f].next_triangle =
           IF f = written THEN endTriangle ELSE triangles[f + 1].start
  BY <1>1, <1>3, PendingFacts DEF IInv, TrianglesInOrder
<1>7. chunkTriangle' = [chunkTriangle EXCEPT ![c] = triangles[f].next_triangle]
  BY <1>1, <1>5
<1>8. TypeOK'
  BY <1>1, <1>3, <1>6, <1>7 DEF IInv, TypeOK, written
<1>9. written' = written /\ TrianglesInOrder'
  BY <1>1 DEF IInv, TrianglesInOrder, Place, WritePlace, written
<1>10. ASSUME NEW d \in live
       PROVE  /\ d \in Chunks
              /\ d = c => chunkTriangle'[d] = triangles[f].next_triangle /\ done'[d] = f
              /\ d # c => chunkTriangle'[d] = chunkTriangle[d] /\ done'[d] = done[d]
              /\ \A k \in Pending(d)' : k \in Pending(d)
  <2>1. d \in Chunks /\ done[d] \in Nat
    BY DEF IInv, TypeOK
  <2>2. /\ d = c => chunkTriangle'[d] = triangles[f].next_triangle /\ done'[d] = f
        /\ d # c => chunkTriangle'[d] = chunkTriangle[d] /\ done'[d] = done[d]
    BY <2>1, <1>1, <1>7 DEF IInv, TypeOK
  <2>3. \A k \in Pending(d)' : k \in Pending(d)
    BY <2>1, <2>2, <1>2, <1>9, Types DEF Pending
  <2> QED
    BY <2>1, <2>2, <2>3
<1>11. ASSUME NEW d \in live
       PROVE  ReaderIsBehind(d)'
  <2>1. ReaderIsBehind(d)
    BY DEF IInv
  <2>2. \A k \in Pending(d)' :
          /\ triangles'[k].lap = lap' \/ triangles'[k].lap = lap' - BufferSize
          /\ WritePlace' < Place(k)' + BufferSize
    BY <2>1, <1>1, <1>10 DEF ReaderIsBehind, Place, WritePlace
  <2>3. CASE d = c
    BY <2>2, <2>3, <1>1, <1>3, <1>6, <1>9, <1>10 DEF ReaderIsBehind
  <2>4. CASE d # c
    BY <2>1, <2>2, <2>4, <1>1, <1>9, <1>10 DEF ReaderIsBehind
  <2> QED
    BY <2>3, <2>4
<1>12. TriangleIsIntact'
  BY <1>1, <1>10 DEF IInv, TriangleIsIntact
<1>13. ASSUME HasRoom
       PROVE  HasRoom'
  <2>1. \A d \in live : d # c => Room(d)'
    BY <1>1, <1>10, <1>13 DEF HasRoom, Room, ExtendValid, Rewinds
  <2>2. Room(c)'
    <3>1. CASE f = written
      <4>1. chunkTriangle'[c] = endTriangle
        BY <3>1, <1>1, <1>6, <1>10
      <4>2. BufferSize > endTriangle + MaxSize /\ (Rewinds => endTriangle # 0)
        BY Types DEF Rewinds
      <4> QED
        BY <4>1, <4>2, <1>1, Types DEF Room, ExtendValid, Rewinds
    <3>2. CASE f # written
      <4> DEFINE r == triangles[f + 1].start
                 l == triangles[f + 1].lap
      <4>1. f + 1 \in Pending(c) /\ Room(c)
        BY <3>2, <1>1, <1>2, <1>3, <1>13, Types DEF Pending, HasRoom
      <4>2. /\ r \in Nat /\ l \in Nat /\ r < l + r + BufferSize - l
            /\ l = lap \/ l = lap - BufferSize
            /\ l + r < lap + endTriangle
            /\ lap + endTriangle + MaxSize < l + r + BufferSize
            /\ Rewinds => lap < l + r /\ l = lap
        BY <4>1, <1>1, PendingFacts, RoomAhead, Types DEF Place, WritePlace, Offsets
      <4>3. chunkTriangle'[c] = r
        BY <3>2, <1>1, <1>6, <1>10
      <4>4. /\ (IF r > endTriangle THEN r ELSE BufferSize) > endTriangle + MaxSize
            /\ Rewinds => r # 0
        BY <4>2, Types
      <4> QED
        BY <4>3, <4>4, <1>1 DEF Room, ExtendValid, Rewinds
    <3> QED
      BY <3>1, <3>2
  <2> QED
    BY <2>1, <2>2, <1>1 DEF HasRoom
<1>14. RoomIsKept'
  <2>1. Rewinds' <=> Rewinds
    BY <1>1 DEF Rewinds
  <2> QED
    BY <2>1, <1>1, <1>13 DEF IInv, RoomIsKept, Rewinds
<1> QED
  BY <1>1, <1>8, <1>9, <1>11, <1>12, <1>14 DEF IInv

\* An entry that copies another reads what that one reads.
LEMMA SplitStep ==
  ASSUME IInv, NEW c \in Chunks, NEW d \in Chunks, Split(c, d)
  PROVE  IInv'
<1>1. /\ c \in live /\ d \notin live /\ c # d
      /\ live' = live \cup {d}
      /\ chunkTriangle' = [chunkTriangle EXCEPT ![d] = chunkTriangle[c]]
      /\ done' = [done EXCEPT ![d] = done[c]]
      /\ UNCHANGED <<endTriangle, currentTriangle, memory, triangles, lap>>
  BY DEF Split
<1>2. TypeOK'
  BY <1>1 DEF IInv, TypeOK, written
<1>3. written' = written /\ TrianglesInOrder'
  BY <1>1 DEF IInv, TrianglesInOrder, Place, WritePlace, written
<1>4. ASSUME NEW e \in live'
      PROVE  \E b \in live : /\ chunkTriangle'[e] = chunkTriangle[b]
                             /\ done'[e] = done[b]
                             /\ Pending(e)' = Pending(b)
  BY <1>1, <1>3 DEF IInv, TypeOK, Pending
<1>5. ASSUME NEW e \in live'
      PROVE  ReaderIsBehind(e)'
  BY <1>1, <1>3, <1>4 DEF IInv, ReaderIsBehind, Place, WritePlace
<1>6. TriangleIsIntact'
  BY <1>1, <1>4 DEF IInv, TriangleIsIntact
<1>7. HasRoom => HasRoom'
  BY <1>1, <1>4 DEF HasRoom, Room, ExtendValid, Rewinds
<1>8. RoomIsKept'
  BY <1>1, <1>7 DEF IInv, RoomIsKept, Rewinds
<1> QED
  BY <1>1, <1>2, <1>3, <1>5, <1>6, <1>8 DEF IInv

\* Giving up an entry asks less of the ring.
LEMMA DropStep ==
  ASSUME IInv, NEW c \in Chunks, Drop(c)
  PROVE  IInv'
<1>1. /\ c \in live /\ live # {c}
      /\ live' = live \ {c}
      /\ UNCHANGED <<endTriangle, chunkTriangle, currentTriangle, memory, triangles, done, lap>>
  BY DEF Drop
<1>2. TypeOK'
  BY <1>1 DEF IInv, TypeOK, written
<1>3. TrianglesInOrder' /\ TriangleIsIntact' /\ (\A d \in live : ReaderIsBehind(d))'
  BY <1>1 DEF IInv, TrianglesInOrder, TriangleIsIntact, ReaderIsBehind, Pending,
              Place, WritePlace, written
<1>4. RoomIsKept'
  BY <1>1 DEF IInv, RoomIsKept, HasRoom, Room, ExtendValid, Rewinds
<1> QED
  BY <1>1, <1>2, <1>3, <1>4 DEF IInv

\* A stuttering step changes nothing.
LEMMA StutterStep == IInv /\ UNCHANGED vars => IInv'
BY DEF vars, IInv, TypeOK, TrianglesInOrder, TriangleIsIntact, ReaderIsBehind, RoomIsKept,
       HasRoom, Room, ExtendValid, Rewinds, Pending, Place, WritePlace, written

\* The invariant holds in every reachable state.
LEMMA Invariance == Spec => []IInv
<1>1. IInv /\ [Next]_vars => IInv'
  BY GetStep, WriteStep, AdvanceStep, SplitStep, DropStep, StutterStep DEF Next
<1> QED
  BY <1>1, InitIInv, PTL DEF Spec

-----------------------------------------------------------------------------
\* endTriangle and every read pointer stay inside the buffer, and some entry is
\* always in use.
THEOREM TypeCorrect == Spec => []TypeOK
<1>1. IInv => TypeOK
  BY DEF IInv
<1> QED
  BY <1>1, Invariance, PTL

\* For every buffer and triangle size: writeTriangleBuffer overwrites no part of
\* a triangle that some chunk has still to draw.
THEOREM NothingIsClobbered == Spec => []TriangleIsIntact
<1>1. IInv => TriangleIsIntact
  BY DEF IInv
<1> QED
  BY <1>1, Invariance, PTL

\* For every buffer and triangle size: a chunk whose chunkTriangle equals
\* endTriangle has drawn every triangle, so "finished" is never said of a buffer
\* that is full.
THEOREM FinishedIsFinished == Spec => []EmptyMeansDone
<1>1. ASSUME IInv, NEW c \in live, chunkTriangle[c] = endTriangle
      PROVE  Pending(c) = {}
  <2>1. done[c] \in Nat /\ done[c] <= written /\ written \in Nat
    BY <1>1, Types DEF IInv, TypeOK, ReaderIsBehind
  <2>2. CASE done[c] = written
    BY <2>1, <2>2 DEF Pending
  <2>3. CASE done[c] # written
    <3> DEFINE f == done[c] + 1
    <3>1. f \in Pending(c) /\ triangles[f].start = endTriangle
      BY <2>1, <2>3, <1>1 DEF IInv, ReaderIsBehind, Pending
    <3>2. /\ triangles[f].lap \in Nat
          /\ triangles[f].size \in 1 .. (MaxSize - 1)
          /\ triangles[f].lap + endTriangle + triangles[f].size <= lap + endTriangle
          /\ triangles[f].lap = lap \/ triangles[f].lap = lap - BufferSize
          /\ lap + endTriangle < triangles[f].lap + endTriangle + BufferSize
      BY <3>1, <1>1, PendingFacts DEF Place, WritePlace
    <3> QED
      BY <3>2, <1>1, Types
  <2> QED
    BY <2>2, <2>3
<1>2. IInv => EmptyMeansDone
  BY <1>1 DEF EmptyMeansDone
<1> QED
  BY <1>2, Invariance, PTL

\* For every buffer and triangle size: once every chunk has caught up the space
\* check succeeds, so a command that waits for room does not wait for ever.
THEOREM DrainedHasRoom == Spec => []RoomWhenDrained
<1>1. IInv => RoomWhenDrained
  BY Types DEF RoomWhenDrained, HasRoom, Room, ExtendValid, Rewinds
<1> QED
  BY <1>1, Invariance, PTL

-----------------------------------------------------------------------------
(* The tables.                                                             *)

Sound(row) == row.insert \in 0 .. 11 /\ row.next \in 0 .. 31 /\ row.end \in 0 .. 11

LEMMA RowsExist ==
  ASSUME NEW s \in 0 .. 31
  PROVE  Sound(shuffle_map[s])
<1>1. shuffle_map[s].insert \in 0 .. 11 BY SMTT(30) DEF shuffle_map, Row
<1>2. shuffle_map[s].next \in 0 .. 31 BY SMTT(30) DEF shuffle_map, Row
<1>3. shuffle_map[s].end \in 0 .. 11 BY SMTT(30) DEF shuffle_map, Row
<1> QED BY <1>1, <1>2, <1>3 DEF Sound

Sources == {"A0", "A1", "A2", "A3", "B0", "Z"}

LEMMA ShufflesExist ==
  ASSUME NEW i \in 0 .. 11, NEW k \in 1 .. 4
  PROVE  shuffles[i][k] \in Sources
BY DEF shuffles, Sources

LEMMA TriangleRows ==
  /\ shuffle_map[4] = Row(0, 13, "NONE", 0)
  /\ shuffle_map[13] = Row(3, 14, "NONE", 0)
  /\ shuffle_map[14] = Row(3, 4, "TRIANGLE", 0)
BY DEF shuffle_map

LEMMA FanRows ==
  /\ shuffle_map[6] = Row(0, 18, "NONE", 0)
  /\ shuffle_map[18] = Row(3, 19, "NONE", 0)
  /\ shuffle_map[19] = Row(3, 20, "TRIANGLE", 0)
  /\ shuffle_map[20] = Row(5, 20, "TRIANGLE", 0)
BY DEF shuffle_map

LEMMA Shuffled ==
  ASSUME NEW regs, NEW v
  PROVE  /\ shuffle_in(0, regs, v) = <<v, v, v, v>>
         /\ shuffle_in(3, regs, v) = <<regs[2], regs[3], v, regs[4]>>
         /\ shuffle_in(5, regs, v) = <<regs[1], regs[3], v, regs[4]>>
BY DEF shuffle_in, shuffles

LEMMA ShuffleTypes ==
  ASSUME NEW S, NoVertex \in S, NEW i \in 0 .. 11, NEW regs \in [1 .. 4 -> S], NEW v \in S
  PROVE  shuffle_in(i, regs, v) \in [1 .. 4 -> S]
<1>1. ASSUME NEW k \in 1 .. 4
      PROVE  [A0 |-> regs[1], A1 |-> regs[2], A2 |-> regs[3], A3 |-> regs[4],
              B0 |-> v, Z |-> NoVertex][shuffles[i][k]] \in S
  <2>1. shuffles[i][k] \in Sources BY ShufflesExist
  <2>2. PICK x : x = shuffles[i][k] OBVIOUS
  <2> QED BY <2>1, <2>2 DEF Sources
<1> QED BY <1>1 DEF shuffle_in

LEMMA SameSequence ==
  ASSUME NEW S, NEW t \in Seq(S), NEW u \in Seq(S),
         Len(t) = Len(u), \A k \in 1 .. Len(t) : t[k] = u[k]
  PROVE  t = u
OBVIOUS

LEMMA Corners ==
  ASSUME NEW a, NEW b, NEW c, NEW d
  PROVE  SubSeq(<<a, b, c, d>>, 1, 3) = <<a, b, c>>
<1>1. <<a, b, c, d>> \in Seq({a, b, c, d}) /\ Len(<<a, b, c, d>>) = 4 OBVIOUS
<1>2. PICK s : s = SubSeq(<<a, b, c, d>>, 1, 3) OBVIOUS
<1>3. s \in Seq({a, b, c, d}) /\ Len(s) = 3 BY <1>1, <1>2
<1>4. s[1] = a /\ s[2] = b /\ s[3] = c BY <1>1, <1>2
<1>5. PICK u : u = <<a, b, c>> OBVIOUS
<1>6. u \in Seq({a, b, c, d}) /\ Len(u) = 3 /\ u[1] = a /\ u[2] = b /\ u[3] = c BY <1>5
<1>7. \A k \in 1 .. 3 : s[k] = u[k] BY <1>4, <1>6
<1>8. s = u BY <1>3, <1>6, <1>7, SameSequence
<1> QED BY <1>2, <1>5, <1>8

-----------------------------------------------------------------------------
(* What GL makes of a primitive.                                           *)

Separate(m) == [i \in 1 .. m |-> <<3 * i - 2, 3 * i - 1, 3 * i>>]
Fan(m) == [i \in 1 .. m |-> <<1, i + 1, i + 2>>]

LEMMA OneMoreSeparate ==
  ASSUME NEW m \in Nat
  PROVE  Append(Separate(m), <<3 * m + 1, 3 * m + 2, 3 * m + 3>>) = Separate(m + 1)
<1>1. Separate(m) \in Seq(Nat \X Nat \X Nat) /\ Len(Separate(m)) = m BY DEF Separate
<1>2. 3 * (m + 1) - 2 = 3 * m + 1 /\ 3 * (m + 1) - 1 = 3 * m + 2 /\ 3 * (m + 1) = 3 * m + 3
  OBVIOUS
<1>3. PICK t : t = Append(Separate(m), <<3 * m + 1, 3 * m + 2, 3 * m + 3>>) OBVIOUS
<1>4. /\ t \in Seq(Nat \X Nat \X Nat) /\ Len(t) = m + 1
      /\ t[m + 1] = <<3 * m + 1, 3 * m + 2, 3 * m + 3>>
      /\ \A i \in 1 .. m : t[i] = Separate(m)[i]
  BY <1>1, <1>3
<1>5. \A i \in 1 .. (m + 1) : t[i] = Separate(m + 1)[i]
  <2> SUFFICES ASSUME NEW i \in 1 .. (m + 1) PROVE t[i] = Separate(m + 1)[i]
    OBVIOUS
  <2>1. CASE i = m + 1 BY <1>2, <1>4, <2>1 DEF Separate
  <2>2. CASE i \in 1 .. m BY <1>4, <2>2 DEF Separate
  <2>3. i = m + 1 \/ i \in 1 .. m OBVIOUS
  <2> QED BY <2>1, <2>2, <2>3
<1>6. PICK u : u = Separate(m + 1) OBVIOUS
<1>7. u \in Seq(Nat \X Nat \X Nat) /\ Len(u) = m + 1
  <2>1. \A i \in 1 .. (m + 1) : <<3 * i - 2, 3 * i - 1, 3 * i>> \in Nat \X Nat \X Nat OBVIOUS
  <2> QED BY <1>6, <2>1 DEF Separate
<1>8. t = u BY <1>4, <1>5, <1>6, <1>7, SameSequence
<1> QED BY <1>3, <1>6, <1>8

LEMMA OneMoreFan ==
  ASSUME NEW m \in Nat
  PROVE  Append(Fan(m), <<1, m + 2, m + 3>>) = Fan(m + 1)
<1>1. Fan(m) \in Seq(Nat \X Nat \X Nat) /\ Len(Fan(m)) = m BY DEF Fan
<1>2. PICK t, u : t = Append(Fan(m), <<1, m + 2, m + 3>>) /\ u = Fan(m + 1) OBVIOUS
<1>3. /\ t \in Seq(Nat \X Nat \X Nat) /\ Len(t) = m + 1
      /\ t[m + 1] = <<1, m + 2, m + 3>>
      /\ \A i \in 1 .. m : t[i] = Fan(m)[i]
  BY <1>1, <1>2
<1>4. u \in Seq(Nat \X Nat \X Nat) /\ Len(u) = m + 1
  <2>1. \A i \in 1 .. (m + 1) : <<1, i + 1, i + 2>> \in Nat \X Nat \X Nat OBVIOUS
  <2> QED BY <1>2, <2>1 DEF Fan
<1>5. \A i \in 1 .. (m + 1) : t[i] = u[i]
  <2> SUFFICES ASSUME NEW i \in 1 .. (m + 1) PROVE t[i] = u[i]
    OBVIOUS
  <2>1. (m + 1) + 1 = m + 2 /\ (m + 1) + 2 = m + 3 OBVIOUS
  <2>2. CASE i = m + 1 BY <1>2, <1>3, <2>1, <2>2 DEF Fan
  <2>3. CASE i \in 1 .. m BY <1>2, <1>3, <2>3 DEF Fan
  <2>4. i = m + 1 \/ i \in 1 .. m OBVIOUS
  <2> QED BY <2>2, <2>3, <2>4
<1>6. t = u BY <1>3, <1>4, <1>5, SameSequence
<1> QED BY <1>2, <1>6

LEMMA NoneYet == Separate(0) = <<>> /\ Fan(0) = <<>>
BY DEF Separate, Fan

-----------------------------------------------------------------------------
(* The ring.                                                               *)

\* Every step of the primary and the render SPUs is one of TriangleRing or leaves the
\* ring alone: imp_vertex and imp_clear_screen write a triangle only at a place that
\* getTriangleBuffer handed out (server/primaryspu/primitives.c:500-608).
THEOREM AssemblyUsesTheRing == AssemblySpec => Spec
<1>1. AssemblyInit => Init BY DEF AssemblyInit
<1>2. [AssemblyNext]_allVars => [Next]_vars
  <2> SUFFICES ASSUME [AssemblyNext]_allVars PROVE [Next]_vars
    OBVIOUS
  <2>1. ASSUME NEW state \in Modes, Begin(state) PROVE [Next]_vars
    BY <2>1 DEF Begin, ringVars
  <2>2. ASSUME NEW known \in BOOLEAN, DrawContext(known) PROVE [Next]_vars
    BY <2>2 DEF DrawContext, ringVars
  <2>3. ASSUME NEW what \in {"vertex", "clear"}, GetPlace(what) PROVE [Next]_vars
    BY <2>3 DEF GetPlace, Next
  <2>4. CASE End BY <2>4 DEF End, ringVars
  <2>5. CASE VertexNowhere BY <2>5 DEF VertexNowhere, allVars, ringVars
  <2>6. CASE Busy BY <2>6 DEF Busy, allVars, ringVars
  <2>7. CASE Vertex
    <3>1. (\E regs : EmitTriangle(regs)) \/ UNCHANGED ringVars BY <2>7 DEF Vertex
    <3>2. (\E size \in Sizes : writeTriangleBuffer(size)) \/ UNCHANGED ringVars
      BY <3>1 DEF EmitTriangle
    <3> QED BY <3>2 DEF Next, ringVars
  <2>8. CASE Clear BY <2>8 DEF Clear, Next
  <2>9. CASE RenderStep BY <2>9 DEF RenderStep, Next
  <2>10. CASE UNCHANGED allVars BY <2>10 DEF allVars, ringVars
  <2> QED
    BY <2>1, <2>2, <2>3, <2>4, <2>5, <2>6, <2>7, <2>8, <2>9, <2>10 DEF AssemblyNext
<1> QED BY <1>1, <1>2, PTL DEF AssemblySpec, Spec

\* What TriangleRing promises is kept for the triangles that instructions assemble.
THEOREM AssemblyKeepsTheRing ==
  AssemblySpec => [](TypeOK /\ TriangleIsIntact /\ EmptyMeansDone /\ RoomWhenDrained)
BY AssemblyUsesTheRing, TypeCorrect, NothingIsClobbered, FinishedIsFinished, DrainedHasRoom,
   PTL

-----------------------------------------------------------------------------
(* The registers.                                                          *)

\* An instruction that waits for a place is one the client may give: a vertex with
\* room in the primitive, or a clear outside of one.
HandlerInv ==
  /\ handler = "vertex" => mode # Outside /\ n < MaxVertices
  /\ handler = "clear" => mode = Outside

OutsideInv == mode = Outside => n = 0 /\ assembled = <<>>

TypeInv == MachineTypeOK /\ HandlerInv /\ OutsideInv

Registers == {Cleared} \cup 0 .. MaxVertices

LEMMA ModesAreRows ==
  ASSUME MachineTypeOK
  PROVE  /\ mode # Outside => current_state \in 0 .. 31
         /\ MaxVertices \in Nat /\ n \in Nat
BY PrimitiveAssumption DEF MachineTypeOK, shuffle_map, Outside

\* What a vertex finds.
LEMMA VertexFinds ==
  ASSUME TypeInv, Vertex
  PROVE  /\ mode # Outside /\ current_state \in 0 .. 31
         /\ n \in Nat /\ n + 1 \in 0 .. MaxVertices
         /\ handler' = "none" /\ n' = n + 1 /\ UNCHANGED <<renderable, mode>>
<1>1. HasPlace("vertex") BY DEF Vertex
<1>2. mode # Outside /\ n < MaxVertices
  <2>1. CASE handler = "vertex" BY <2>1 DEF TypeInv, HandlerInv
  <2>2. CASE Calls("vertex") BY <2>2 DEF Calls, Drawing
  <2> QED BY <1>1, <2>1, <2>2 DEF HasPlace
<1>3. current_state \in 0 .. 31 /\ MaxVertices \in Nat /\ n \in Nat
  BY <1>2, ModesAreRows DEF TypeInv
<1> QED BY <1>2, <1>3 DEF Vertex

LEMMA VertexTypes == ASSUME TypeInv, Vertex PROVE TypeInv'
<1> DEFINE row == shuffle_map[current_state]
           entered == shuffle_in(row.insert, TRI, n + 1)
           second == shuffle_map[row.next]
           regs == IF row.add = "TRIANGLE2" THEN shuffle_in(second.insert, entered, n + 1)
                   ELSE entered
<1>0. /\ mode # Outside /\ current_state \in 0 .. 31
      /\ n \in Nat /\ n + 1 \in 0 .. MaxVertices
      /\ handler' = "none" /\ n' = n + 1 /\ UNCHANGED <<renderable, mode>>
  BY VertexFinds
<1>1. TRI' = regs /\ current_state' = IF row.add = "TRIANGLE2" THEN second.next ELSE row.next
  BY DEF Vertex
<1>2. Sound(row) BY <1>0, RowsExist
<1>3. row.insert \in 0 .. 11 /\ row.next \in 0 .. 31 BY <1>2 DEF Sound
<1>4. Sound(second) BY <1>3, RowsExist
<1>5. second.insert \in 0 .. 11 /\ second.next \in 0 .. 31 BY <1>4 DEF Sound
<1>6. NoVertex \in Registers /\ n + 1 \in Registers /\ TRI \in [1 .. 4 -> Registers]
  BY <1>0, PrimitiveAssumption DEF NoVertex, Registers, TypeInv, MachineTypeOK
<1> HIDE DEF row, second
<1>7. entered \in [1 .. 4 -> Registers] BY <1>3, <1>6, ShuffleTypes
<1> HIDE DEF entered
<1>8. regs \in [1 .. 4 -> Registers] BY <1>5, <1>6, <1>7, ShuffleTypes
<1> HIDE DEF regs
<1>9. current_state' \in 0 .. 31 BY <1>1, <1>3, <1>5
<1>10. current_state' \in DOMAIN shuffle_map /\ current_state' # Outside
  BY <1>9 DEF shuffle_map, Outside
<1>11. TRI' \in [1 .. 4 -> Registers] BY <1>1, <1>8
<1>12. MachineTypeOK'
  BY <1>0, <1>10, <1>11 DEF TypeInv, MachineTypeOK, Registers
<1> QED BY <1>0, <1>12 DEF TypeInv, HandlerInv, OutsideInv

LEMMA EndTypes == ASSUME TypeInv, End PROVE TypeInv'
<1> DEFINE end == shuffle_map[current_state].end
<1>1. /\ handler = "none" /\ mode # Outside /\ current_state' = Outside /\ mode' = Outside
      /\ n' = 0 /\ assembled' = <<>> /\ UNCHANGED <<handler, renderable>>
      /\ TRI' = IF end = 0 THEN TRI ELSE shuffle_in(end, TRI, NoVertex)
  BY DEF End, Drawing
<1>2. current_state \in 0 .. 31 BY <1>1, ModesAreRows DEF TypeInv
<1>3. Sound(shuffle_map[current_state]) BY <1>2, RowsExist
<1>4. end \in 0 .. 11 BY <1>3 DEF Sound
<1>5. NoVertex \in Registers /\ TRI \in [1 .. 4 -> Registers]
  BY PrimitiveAssumption DEF NoVertex, Registers, TypeInv, MachineTypeOK
<1> HIDE DEF end
<1>6. TRI' \in [1 .. 4 -> Registers] BY <1>1, <1>4, <1>5, ShuffleTypes
<1>7. MachineTypeOK'
  BY <1>1, <1>6, PrimitiveAssumption DEF TypeInv, MachineTypeOK, Registers
<1> QED BY <1>1, <1>7 DEF TypeInv, HandlerInv, OutsideInv

LEMMA BeginTypes == ASSUME TypeInv, NEW state \in Modes, Begin(state) PROVE TypeInv'
<1>1. /\ handler = "none" /\ mode = Outside /\ state \in DOMAIN shuffle_map
      /\ current_state' = state /\ mode' = state
      /\ UNCHANGED <<TRI, handler, renderable, n, assembled>>
  BY DEF Begin, Drawing, imp_validate_state
<1>2. state # Outside
  <2>1. state \in Nat BY PrimitiveAssumption
  <2> QED BY <2>1 DEF Outside
<1>3. MachineTypeOK' BY <1>1, <1>2 DEF TypeInv, MachineTypeOK
<1> QED BY <1>1, <1>2, <1>3 DEF TypeInv, HandlerInv, OutsideInv

LEMMA ClearTypes == ASSUME TypeInv, Clear PROVE TypeInv'
<1>1. /\ TRI' = [i \in 1 .. 4 |-> Cleared] /\ handler' = "none"
      /\ UNCHANGED <<current_state, renderable, mode, n, assembled>>
  BY DEF Clear
<1>2. MachineTypeOK' BY <1>1 DEF TypeInv, MachineTypeOK
<1> QED BY <1>1, <1>2 DEF TypeInv, HandlerInv, OutsideInv

LEMMA GetPlaceTypes ==
  ASSUME TypeInv, NEW what \in {"vertex", "clear"}, GetPlace(what)
  PROVE  TypeInv'
<1>1. Calls(what) /\ handler' = what
      /\ UNCHANGED <<current_state, TRI, renderable, mode, n, assembled>>
  BY DEF GetPlace
<1>2. MachineTypeOK' BY <1>1 DEF TypeInv, MachineTypeOK
<1>3. HandlerInv' BY <1>1 DEF Calls, Drawing, HandlerInv
<1> QED BY <1>1, <1>2, <1>3 DEF TypeInv, OutsideInv

LEMMA OtherTypes ==
  ASSUME TypeInv, UNCHANGED machineVars PROVE TypeInv'
BY DEF machineVars, TypeInv, MachineTypeOK, HandlerInv, OutsideInv

LEMMA DrawContextTypes ==
  ASSUME TypeInv, NEW known \in BOOLEAN, DrawContext(known) PROVE TypeInv'
<1>1. renderable' = known /\ UNCHANGED <<current_state, TRI, handler, mode, n, assembled>>
  BY DEF DrawContext
<1> QED BY <1>1 DEF TypeInv, MachineTypeOK, HandlerInv, OutsideInv

LEMMA NothingMoves ==
  ASSUME VertexNowhere \/ Busy \/ RenderStep \/ UNCHANGED allVars
  PROVE  UNCHANGED machineVars
BY DEF VertexNowhere, Busy, RenderStep, allVars

LEMMA TypeInit == AssemblyInit => TypeInv
<1> SUFFICES ASSUME AssemblyInit PROVE TypeInv
  OBVIOUS
<1>1. MachineTypeOK
  <2>1. MaxVertices \in Nat BY PrimitiveAssumption
  <2>2. TRI \in [1 .. 4 -> {Cleared} \cup 0 .. MaxVertices]
    BY <2>1 DEF AssemblyInit, NoVertex
  <2>3. n \in 0 .. MaxVertices BY <2>1 DEF AssemblyInit
  <2> QED BY <2>2, <2>3 DEF AssemblyInit, MachineTypeOK
<1> QED BY <1>1 DEF AssemblyInit, TypeInv, HandlerInv, OutsideInv

LEMMA TypeStep == TypeInv /\ [AssemblyNext]_allVars => TypeInv'
<1> SUFFICES ASSUME TypeInv, [AssemblyNext]_allVars PROVE TypeInv'
  OBVIOUS
<1>1. CASE VertexNowhere \/ Busy \/ RenderStep \/ UNCHANGED allVars
  BY <1>1, NothingMoves, OtherTypes
<1> QED
  BY <1>1, BeginTypes, DrawContextTypes, GetPlaceTypes, EndTypes, VertexTypes, ClearTypes
     DEF AssemblyNext

\* For every list of modes and number of vertices: the row that glVertex looks up without
\* a test is one of the table, whatever glBegin was given (primitives.c:503-510), and the
\* pointers stay in the ring.
THEOREM AssemblyTypes == AssemblySpec => []AssemblyTypeOK
<1>1. TypeInv => MachineTypeOK BY DEF TypeInv
<1>2. TypeOK /\ MachineTypeOK => AssemblyTypeOK BY DEF AssemblyTypeOK
<1> QED BY <1>1, <1>2, TypeInit, TypeStep, AssemblyKeepsTheRing, PTL DEF AssemblySpec

-----------------------------------------------------------------------------
(* The triangles.                                                          *)

\* Separate triangles: how many vertices of the next one are in the registers.
SeparateInv(m) ==
  /\ assembled = Separate(m)
  /\ \/ n = 3 * m /\ current_state = 4
     \/ n = 3 * m + 1 /\ current_state = 13 /\ TRI = <<n, n, n, n>>
     \/ n = 3 * m + 2 /\ current_state = 14 /\ TRI = <<n - 1, n - 1, n, n - 1>>

\* A fan: the first vertex and the last two are in the registers.
FanInv ==
  \/ n = 0 /\ current_state = 6 /\ assembled = Fan(0)
  \/ n = 1 /\ current_state = 18 /\ assembled = Fan(0) /\ TRI = <<1, 1, 1, 1>>
  \/ n = 2 /\ current_state = 19 /\ assembled = Fan(0) /\ TRI = <<1, 1, 2, 1>>
  \/ n >= 3 /\ current_state = 20 /\ assembled = Fan(n - 2) /\ TRI = <<1, n - 1, n, 1>>

AssembledInv ==
  /\ mode = GL_TRIANGLES => \E m \in Nat : SeparateInv(m)
  /\ mode = GL_TRIANGLE_FAN => FanInv

\* A vertex of a row that draws nothing.
LEMMA QuietVertex ==
  ASSUME TypeInv, Vertex, NEW insert, NEW next,
         shuffle_map[current_state] = Row(insert, next, "NONE", 0)
  PROVE  /\ TRI' = shuffle_in(insert, TRI, n + 1) /\ current_state' = next
         /\ n' = n + 1 /\ assembled' = assembled /\ mode' = mode
<1>1. PICK row : row = shuffle_map[current_state] OBVIOUS
<1>2. row.insert = insert /\ row.next = next /\ row.add = "NONE" BY <1>1 DEF Row
<1> QED BY <1>1, <1>2, VertexFinds DEF Vertex

\* A vertex of a row that draws a triangle with three corners.
LEMMA DrawingVertex ==
  ASSUME TypeInv, Vertex, NEW insert, NEW next,
         shuffle_map[current_state] = Row(insert, next, "TRIANGLE", 0),
         NEW a, NEW b, NEW c, NEW d, shuffle_in(insert, TRI, n + 1) = <<a, b, c, d>>,
         a # b, b # c, a # c
  PROVE  /\ TRI' = <<a, b, c, d>> /\ current_state' = next
         /\ n' = n + 1 /\ assembled' = Append(assembled, <<a, b, c>>) /\ mode' = mode
<1>1. PICK row : row = shuffle_map[current_state] OBVIOUS
<1>2. row.insert = insert /\ row.next = next /\ row.add = "TRIANGLE" BY <1>1 DEF Row
<1>3. /\ TRI' = <<a, b, c, d>> /\ current_state' = next /\ EmitTriangle(<<a, b, c, d>>)
  BY <1>1, <1>2 DEF Vertex
<1>4. SubSeq(<<a, b, c, d>>, 1, 3) = <<a, b, c>> BY Corners
<1>5. ~\E i, j \in 1 .. 3 : i < j /\ <<a, b, c>>[i] = <<a, b, c>>[j]
  <2> SUFFICES ASSUME NEW i \in 1 .. 3, NEW j \in 1 .. 3, i < j
               PROVE  <<a, b, c>>[i] # <<a, b, c>>[j]
    OBVIOUS
  <2>1. (i = 1 /\ j = 2) \/ (i = 1 /\ j = 3) \/ (i = 2 /\ j = 3) OBVIOUS
  <2> QED BY <2>1
<1>6. assembled' = Append(assembled, <<a, b, c>>) BY <1>3, <1>4, <1>5 DEF EmitTriangle
<1> QED BY <1>3, <1>6, VertexFinds

LEMMA VertexSeparate ==
  ASSUME TypeInv, Vertex, NEW m \in Nat, SeparateInv(m)
  PROVE  SeparateInv(m)' \/ SeparateInv(m + 1)'
<1>0. n \in Nat BY VertexFinds
<1>1. CASE n = 3 * m /\ current_state = 4
  <2>1. /\ TRI' = shuffle_in(0, TRI, n + 1) /\ current_state' = 13 /\ n' = n + 1
        /\ assembled' = assembled
    BY <1>1, QuietVertex, TriangleRows
  <2>2. TRI' = <<n + 1, n + 1, n + 1, n + 1>> BY <2>1, Shuffled
  <2> QED BY <1>1, <2>1, <2>2 DEF SeparateInv
<1>2. CASE n = 3 * m + 1 /\ current_state = 13 /\ TRI = <<n, n, n, n>>
  <2>1. /\ TRI' = shuffle_in(3, TRI, n + 1) /\ current_state' = 14 /\ n' = n + 1
        /\ assembled' = assembled
    BY <1>2, QuietVertex, TriangleRows
  <2>2. TRI' = <<n, n, n + 1, n>>
    <3>1. TRI[2] = n /\ TRI[3] = n /\ TRI[4] = n BY <1>2
    <3> QED BY <2>1, <3>1, Shuffled
  <2>3. n = (n + 1) - 1 /\ n + 1 = 3 * m + 2 BY <1>0, <1>2
  <2>4. TRI' = <<n' - 1, n' - 1, n', n' - 1>> BY <2>1, <2>2, <2>3
  <2> QED BY <2>1, <2>3, <2>4 DEF SeparateInv
<1>3. CASE n = 3 * m + 2 /\ current_state = 14 /\ TRI = <<n - 1, n - 1, n, n - 1>>
  <2>1. shuffle_in(3, TRI, n + 1) = <<n - 1, n, n + 1, n - 1>>
    <3>1. TRI[2] = n - 1 /\ TRI[3] = n /\ TRI[4] = n - 1 BY <1>3
    <3> QED BY <3>1, Shuffled
  <2>2. n - 1 # n /\ n # n + 1 /\ n - 1 # n + 1 BY <1>0
  <2>3. /\ current_state' = 4 /\ n' = n + 1
        /\ assembled' = Append(assembled, <<n - 1, n, n + 1>>)
    <3>1. shuffle_map[current_state] = Row(3, 4, "TRIANGLE", 0) BY <1>3, TriangleRows
    <3>2. PICK a, b, c : a = n - 1 /\ b = n /\ c = n + 1 OBVIOUS
    <3>3. shuffle_in(3, TRI, n + 1) = <<a, b, c, a>> BY <2>1, <3>2
    <3>4. a # b /\ b # c /\ a # c BY <2>2, <3>2
    <3>5. /\ current_state' = 4 /\ n' = n + 1
          /\ assembled' = Append(assembled, <<a, b, c>>)
      BY <3>1, <3>3, <3>4, DrawingVertex
    <3> QED BY <3>2, <3>5
  <2>4. n - 1 = 3 * m + 1 /\ n = 3 * m + 2 /\ n + 1 = 3 * m + 3 /\ n + 1 = 3 * (m + 1)
    BY <1>3
  <2>5. assembled' = Separate(m + 1) BY <2>3, <2>4, OneMoreSeparate DEF SeparateInv
  <2> QED BY <2>3, <2>4, <2>5 DEF SeparateInv
<1> QED BY <1>1, <1>2, <1>3 DEF SeparateInv

LEMMA VertexFan == ASSUME TypeInv, Vertex, FanInv PROVE FanInv'
<1>0. n \in Nat BY VertexFinds
<1>1. CASE n = 0 /\ current_state = 6 /\ assembled = Fan(0)
  <2>1. /\ TRI' = shuffle_in(0, TRI, n + 1) /\ current_state' = 18 /\ n' = n + 1
        /\ assembled' = assembled
    BY <1>1, QuietVertex, FanRows
  <2>2. TRI' = <<n + 1, n + 1, n + 1, n + 1>> BY <2>1, Shuffled
  <2>3. n + 1 = 1 BY <1>1
  <2> QED BY <1>1, <2>1, <2>2, <2>3 DEF FanInv
<1>2. CASE n = 1 /\ current_state = 18 /\ assembled = Fan(0) /\ TRI = <<1, 1, 1, 1>>
  <2>1. /\ TRI' = shuffle_in(3, TRI, n + 1) /\ current_state' = 19 /\ n' = n + 1
        /\ assembled' = assembled
    BY <1>2, QuietVertex, FanRows
  <2>2. TRI' = <<1, 1, n + 1, 1>>
    <3>1. TRI[2] = 1 /\ TRI[3] = 1 /\ TRI[4] = 1 BY <1>2
    <3> QED BY <2>1, <3>1, Shuffled
  <2>3. n + 1 = 2 BY <1>2
  <2> QED BY <1>2, <2>1, <2>2, <2>3 DEF FanInv
<1>3. CASE n = 2 /\ current_state = 19 /\ assembled = Fan(0) /\ TRI = <<1, 1, 2, 1>>
  <2>1. shuffle_in(3, TRI, n + 1) = <<1, 2, 3, 1>>
    <3>1. TRI[2] = 1 /\ TRI[3] = 2 /\ TRI[4] = 1 /\ n + 1 = 3 BY <1>3
    <3> QED BY <3>1, Shuffled
  <2>2. 1 # 2 /\ 2 # 3 /\ 1 # 3 OBVIOUS
  <2>3. /\ TRI' = <<1, 2, 3, 1>> /\ current_state' = 20 /\ n' = n + 1
        /\ assembled' = Append(assembled, <<1, 2, 3>>)
    BY <1>3, <2>1, <2>2, DrawingVertex, FanRows
  <2>4. assembled' = Fan(1)
    <3>1. Append(Fan(0), <<1, 0 + 2, 0 + 3>>) = Fan(0 + 1) BY OneMoreFan
    <3>2. 0 + 2 = 2 /\ 0 + 3 = 3 /\ 0 + 1 = 1 OBVIOUS
    <3> QED BY <1>3, <2>3, <3>1, <3>2
  <2>5. n' = 3 /\ n' - 2 = 1 /\ n' - 1 = 2 BY <1>3, <2>3
  <2> QED BY <2>3, <2>4, <2>5 DEF FanInv
<1>4. CASE n >= 3 /\ current_state = 20 /\ assembled = Fan(n - 2) /\ TRI = <<1, n - 1, n, 1>>
  <2>1. shuffle_in(5, TRI, n + 1) = <<1, n, n + 1, 1>>
    <3>1. TRI[1] = 1 /\ TRI[3] = n /\ TRI[4] = 1 BY <1>4
    <3> QED BY <3>1, Shuffled
  <2>2. 1 # n /\ n # n + 1 /\ 1 # n + 1 BY <1>0, <1>4
  <2>3. /\ TRI' = <<1, n, n + 1, 1>> /\ current_state' = 20 /\ n' = n + 1
        /\ assembled' = Append(assembled, <<1, n, n + 1>>)
    BY <1>4, <2>1, <2>2, DrawingVertex, FanRows
  <2>4. PICK m \in Nat : m = n - 2 BY <1>0, <1>4
  <2>5. m + 2 = n /\ m + 3 = n + 1 /\ m + 1 = (n + 1) - 2 /\ n = (n + 1) - 1 /\ n + 1 >= 3
    BY <1>0, <1>4, <2>4
  <2>6. assembled' = Fan(m + 1)
    <3>1. Append(Fan(m), <<1, m + 2, m + 3>>) = Fan(m + 1) BY OneMoreFan
    <3> QED BY <1>4, <2>3, <2>4, <2>5, <3>1
  <2> QED BY <2>3, <2>5, <2>6 DEF FanInv
<1> QED BY <1>1, <1>2, <1>3, <1>4 DEF FanInv

LEMMA AssembledInit == AssemblyInit => AssembledInv
BY DEF AssemblyInit, AssembledInv, GL_TRIANGLES, GL_TRIANGLE_FAN, Outside

LEMMA AssembledStep == TypeInv /\ AssembledInv /\ [AssemblyNext]_allVars => AssembledInv'
<1> SUFFICES ASSUME TypeInv, AssembledInv, [AssemblyNext]_allVars PROVE AssembledInv'
  OBVIOUS
<1>1. ASSUME NEW state \in Modes, Begin(state) PROVE AssembledInv'
  <2>1. /\ mode = Outside /\ mode' = state /\ current_state' = state
        /\ UNCHANGED <<n, assembled>>
    BY <1>1 DEF Begin, Drawing
  <2>2. n = 0 /\ assembled = <<>> BY <2>1 DEF TypeInv, OutsideInv
  <2>3. state = GL_TRIANGLES => SeparateInv(0)'
    BY <2>1, <2>2, NoneYet DEF SeparateInv, GL_TRIANGLES
  <2>4. state = GL_TRIANGLE_FAN => FanInv'
    BY <2>1, <2>2, NoneYet DEF FanInv, GL_TRIANGLE_FAN
  <2> QED BY <2>1, <2>3, <2>4 DEF AssembledInv
<1>2. CASE End BY <1>2 DEF End, AssembledInv, GL_TRIANGLES, GL_TRIANGLE_FAN, Outside
<1>3. CASE Vertex
  <2>1. mode' = mode BY <1>3, VertexFinds
  <2>2. ASSUME NEW m \in Nat, SeparateInv(m) PROVE (\E k \in Nat : SeparateInv(k))'
    <3>1. SeparateInv(m)' \/ SeparateInv(m + 1)' BY <1>3, <2>2, VertexSeparate
    <3>2. m + 1 \in Nat OBVIOUS
    <3> QED BY <3>1, <3>2
  <2>3. FanInv => FanInv' BY <1>3, VertexFan
  <2> QED BY <2>1, <2>2, <2>3 DEF AssembledInv
<1>4. CASE Clear
  <2>1. mode = Outside
    BY <1>4 DEF Clear, HasPlace, Calls, Drawing, TypeInv, HandlerInv
  <2>2. mode' = mode BY <1>4 DEF Clear
  <2> QED BY <2>1, <2>2 DEF AssembledInv, GL_TRIANGLES, GL_TRIANGLE_FAN, Outside
<1>5. ASSUME UNCHANGED <<current_state, TRI, mode, n, assembled>> PROVE AssembledInv'
  BY <1>5 DEF AssembledInv, SeparateInv, FanInv
<1>6. ASSUME NEW known \in BOOLEAN, DrawContext(known) PROVE AssembledInv'
  BY <1>5, <1>6 DEF DrawContext
<1>7. ASSUME NEW what \in {"vertex", "clear"}, GetPlace(what) PROVE AssembledInv'
  BY <1>5, <1>7 DEF GetPlace
<1>8. CASE VertexNowhere \/ Busy \/ RenderStep \/ UNCHANGED allVars
  BY <1>5, <1>8, NothingMoves DEF machineVars
<1> QED BY <1>1, <1>2, <1>3, <1>4, <1>6, <1>7, <1>8 DEF AssemblyNext

\* For any number of vertices and any sequence of primitives, with invisible triangles and
\* vertices that wait for room in between: separate triangles and fans come out as GL has
\* them (server/primaryspu/primitives.c:387-462, 500-608).
THEOREM TrianglesAsAsked == AssemblySpec => []AssembledAsAsked
<1>1. TypeInv /\ AssembledInv => AssembledAsAsked
  <2> SUFFICES ASSUME TypeInv, AssembledInv PROVE AssembledAsAsked
    OBVIOUS
  <2>0. n \in Nat BY ModesAreRows DEF TypeInv
  <2>1. CASE mode = GL_TRIANGLES
    <3>1. PICK m \in Nat : SeparateInv(m) BY <2>1 DEF AssembledInv
    <3>2. n \div 3 = m
      <4>1. n = 3 * m \/ n = 3 * m + 1 \/ n = 3 * m + 2 BY <3>1 DEF SeparateInv
      <4> QED BY <2>0, <4>1
    <3>3. Decomposition(n) = Separate(m) BY <2>1, <3>2 DEF Decomposition, Separate
    <3> QED BY <2>1, <3>1, <3>3 DEF SeparateInv, AssembledAsAsked
  <2>2. CASE mode = GL_TRIANGLE_FAN
    <3>1. FanInv BY <2>2 DEF AssembledInv
    <3>2. mode # GL_TRIANGLES BY <2>2 DEF GL_TRIANGLES, GL_TRIANGLE_FAN
    <3>3. assembled = Fan(IF n < 3 THEN 0 ELSE n - 2) BY <2>0, <3>1 DEF FanInv
    <3>4. Decomposition(n) = Fan(IF n < 3 THEN 0 ELSE n - 2)
      BY <3>2 DEF Decomposition, Fan
    <3> QED BY <3>3, <3>4 DEF AssembledAsAsked
  <2> QED BY <2>1, <2>2 DEF AssembledAsAsked
<1> QED BY <1>1, TypeInit, TypeStep, AssembledInit, AssembledStep, PTL DEF AssemblySpec
=============================================================================
