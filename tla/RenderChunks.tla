---------------------------- MODULE RenderChunks ----------------------------
(***************************************************************************)
(* How the render SPUs share the tiles of a renderable: the cache line of  *)
(* server/renderspu/render.h and the loop process_render_tasks of          *)
(* server/renderspu/cacheline.c that claims, splits, renders and merges    *)
(* chunks of tiles through it, and stillProcessingQueue of                 *)
(* server/primaryspu/primitives.c that waits for them.                     *)
(*                                                                         *)
(* A chunk is a range of tiles along the Hilbert curve; chunkNext links    *)
(* the chunks into a ring over all tiles.  A triangle is represented by    *)
(* the set of tiles it covers, its place in the triangle buffer by the     *)
(* number of triangles before it (TriangleRing models the buffer itself),  *)
(* and the pixels of a tile by the triangles drawn on it so far.           *)
(*                                                                         *)
(* Claiming and finishing a chunk are single steps: a PUTLLC that fails    *)
(* there leaves nothing behind and the code starts over with a fresh copy. *)
(* Splitting is not, as freeChunk survives a failed PUTLLC.                *)
(***************************************************************************)
EXTENDS Integers, Sequences, FiniteSets

CONSTANTS Layouts,        \* <<NUMBER_OF_TILES, entries of the cache line (16 in the code)>>
          TilesPerChunk,  \* NUMBER_OF_TILES_PER_CHUNK
          Spus,           \* the render SPUs
          Coverages,      \* the sets of tiles a triangle may cover, by NUMBER_OF_TILES
          MaxTriangles    \* bound: triangles submitted in a behaviour

CHUNKNEXT_BUSY_BIT   == 32
CHUNKNEXT_FREE_BLOCK == 255
CHUNKNEXT_RESERVED   == 254
NoChunk == 32       \* what cntlz returns when no bit is set
NoStart == 65535    \* chunkStartArray of an entry that was merged away

ASSUME RenderChunksAssumption ==
  /\ Layouts \subseteq (Nat \ {0}) \X (1 .. (CHUNKNEXT_BUSY_BIT - 1))
  /\ TilesPerChunk \in Nat \ {0}
  /\ \A layout \in Layouts : Coverages[layout[1]] \subseteq SUBSET (0 .. (layout[1] - 1))
  /\ MaxTriangles \in Nat

VARIABLES
  triangles,  \* the triangles written so far, each the tiles it covers
  cache,      \* chunkTriangle, chunkStart and chunkNext of the cache line
  resv,       \* the SPUs whose reservation on the cache line is alive
  spu,        \* the locals of process_render_tasks on each SPU
  buffer,     \* block_buffer of each SPU: the tiles it has read and drawn on
  pixels      \* the frame buffer: what has been drawn on each tile

vars == <<triangles, cache, resv, spu, buffer, pixels>>

\* The layout is chosen in Init and never changes.
Tiles    == DOMAIN pixels
NumTiles == Cardinality(Tiles)
Chunks   == DOMAIN cache.chunkNext

Raster == INSTANCE Raster WITH TileSets <- {0 .. (layout[1] - 1) : layout \in Layouts}
Drawn(t, k) == Raster!Drawn(t, k)

endTriangle == Len(triangles)
NextOf(byte) == byte % CHUNKNEXT_BUSY_BIT
SmallestOf(S) == CHOOSE x \in S : \A y \in S : x <= y
Smaller(x, y) == IF x < y THEN x ELSE y
Larger(x, y)  == IF x > y THEN x ELSE y

\* cntlz of a gathered bit mask.
FirstChunk(S) == IF S = {} THEN NoChunk ELSE SmallestOf(S)

\* Mutant: a reserved entry counts as free.
FreeChunksReserved(line) == {c \in Chunks : line.chunkNext[c] >= CHUNKNEXT_RESERVED}

FreeChunks(line) == {c \in Chunks : line.chunkNext[c] = CHUNKNEXT_FREE_BLOCK}

\* Mutant: no wrap from tile 0 to the last tile.
ChunkEndNoWrap(line, c) == line.chunkStart[NextOf(line.chunkNext[c])] - 1

\* The last tile of a chunk: the one before the start of its successor, where
\* tile 0 follows the last one.
ChunkEnd(line, c) == (line.chunkStart[NextOf(line.chunkNext[c])] - 1) % NumTiles
ChunkLength(line, c) == 1 + ChunkEnd(line, c) - line.chunkStart[c]

Idle == [pc |-> "idle", chunkToProcess |-> NoChunk, chunkStart |-> 0, chunkEnd |-> 0,
         chunkNext |-> 0, chunkTriangle |-> 0, endTriangle |-> 0, freeChunk |-> NoChunk,
         freeChunk2 |-> NoChunk, claimed |-> FALSE, firstTile |-> 0,
         thisBlockStart |-> 0, realBlockStart |-> 0]

-----------------------------------------------------------------------------
(* merge_cache_blocks: a chunk absorbs its successor while both are idle,   *)
(* drawn up to the same triangle, and the successor does not start at 0.    *)

Live(line, c) == line.chunkNext[c] < CHUNKNEXT_BUSY_BIT

\* Mutant: the successor may start at tile 0.
CanMergeAcrossStart(line, c) ==
  /\ Live(line, c)
  /\ Live(line, line.chunkNext[c])
  /\ line.chunkTriangle[c] = line.chunkTriangle[line.chunkNext[c]]

\* Mutant: the successor may be drawn up to another triangle.
CanMergeAnyTriangle(line, c) ==
  /\ Live(line, c)
  /\ Live(line, line.chunkNext[c])
  /\ line.chunkStart[line.chunkNext[c]] # 0

\* Mutant: the successor may be in use.
CanMergeBusy(line, c) ==
  /\ Live(line, c)
  /\ line.chunkStart[line.chunkNext[c]] # 0
  /\ line.chunkTriangle[c] = line.chunkTriangle[line.chunkNext[c]]

CanMerge(line, c) ==
  /\ Live(line, c)
  /\ Live(line, line.chunkNext[c])
  /\ line.chunkStart[line.chunkNext[c]] # 0
  /\ line.chunkTriangle[c] = line.chunkTriangle[line.chunkNext[c]]

Mergeable(line) == {c \in Chunks : CanMerge(line, c)}

MergeFirst(line) ==
  LET c == SmallestOf(Mergeable(line))
      n == line.chunkNext[c]
  IN IF Mergeable(line) = {} THEN line
     ELSE [line EXCEPT !.chunkNext[c] = line.chunkNext[n],
                       !.chunkNext[n] = CHUNKNEXT_FREE_BLOCK,
                       !.chunkStart[n] = NoStart]

\* A merge leaves one mergeable chunk less: the absorbed one.
merge_cache_blocks(line) ==
  LET round[n \in 0 .. Cardinality(Chunks)] == IF n = 0 THEN line ELSE MergeFirst(round[n - 1])
  IN round[Cardinality(Mergeable(line))]

-----------------------------------------------------------------------------
(* The primary SPU writes a triangle and moves endTriangle with a DMA into  *)
(* the cache line, which kills every reservation on it.                     *)
Submit ==
  /\ endTriangle < MaxTriangles
  /\ \E cover \in Coverages[NumTiles] : triangles' = Append(triangles, cover)
  /\ resv' = {}
  /\ UNCHANGED <<cache, spu, buffer, pixels>>

\* Mutant: the last triangle is left for later.
ProcessableLate == {c \in Chunks : Live(cache, c) /\ cache.chunkTriangle[c] + 1 < endTriangle}

\* A chunk that nobody works on and that is not at the last triangle; short
\* ones first.
Processable == {c \in Chunks : Live(cache, c) /\ cache.chunkTriangle[c] # endTriangle}
Short == {c \in Processable : ChunkLength(cache, c) <= TilesPerChunk}

Claim(p) ==
  /\ spu[p].pc = "idle"
  /\ Processable # {}
  /\ LET c    == SmallestOf(IF Short = {} THEN Processable ELSE Short)
         free == IF ChunkLength(cache, c) <= TilesPerChunk THEN NoChunk
                 ELSE FirstChunk(FreeChunks(cache))
         busy == [cache EXCEPT !.chunkNext[c] = @ + CHUNKNEXT_BUSY_BIT]
     IN /\ spu' = [spu EXCEPT ![p] =
                     [Idle EXCEPT !.pc = "search",
                                  !.chunkToProcess = c,
                                  !.chunkStart = cache.chunkStart[c],
                                  !.chunkEnd = ChunkEnd(cache, c),
                                  !.chunkNext = cache.chunkNext[c],
                                  !.chunkTriangle = cache.chunkTriangle[c],
                                  !.endTriangle = endTriangle,
                                  !.freeChunk = free]]
        /\ cache' = IF free = NoChunk THEN busy
                    ELSE [busy EXCEPT !.chunkNext[free] = CHUNKNEXT_RESERVED,
                                      !.chunkTriangle[free] = cache.chunkTriangle[c]]
  /\ resv' = {}
  /\ UNCHANGED <<triangles, buffer, pixels>>

\* Skip the triangles that touch no tile of the chunk.
Search(p) ==
  LET s == spu[p]
      Touched(k) == triangles[k + 1] \cap (s.chunkStart .. s.chunkEnd)
      hits == {k \in s.chunkTriangle .. (s.endTriangle - 1) : Touched(k) # {}}
      hit  == SmallestOf(hits)
  IN /\ s.pc = "search"
     /\ \/ /\ hits = {}
           /\ spu' = [spu EXCEPT ![p].pc = "finish", ![p].chunkTriangle = s.endTriangle]
        \/ /\ hits # {}
           /\ spu' = [spu EXCEPT ![p].pc = "split_getllar", ![p].chunkTriangle = hit,
                                 ![p].firstTile = SmallestOf(Touched(hit))]
     /\ UNCHANGED <<triangles, cache, resv, buffer, pixels>>

-----------------------------------------------------------------------------
(* Splitting the claimed chunk around the tiles to draw first.              *)

\* GETLLAR and the choice of free entries.  claimed tells that freeChunk was
\* set before this attempt: reserved by Claim, or left by a failed attempt.
SplitLoad(p) ==
  LET s     == spu[p]
      free  == FreeChunks(cache)
      first == FirstChunk(free)
  IN /\ s.pc = "split_getllar"
     /\ resv' = resv \cup {p}
     /\ \/ /\ s.freeChunk = NoChunk
           /\ spu' = [spu EXCEPT ![p].pc = "split_putllc", ![p].claimed = FALSE,
                                 ![p].freeChunk = first,
                                 ![p].freeChunk2 = FirstChunk(free \ {first})]
        \/ /\ s.freeChunk # NoChunk
           /\ spu' = [spu EXCEPT ![p].pc = "split_putllc", ![p].claimed = TRUE,
                                 ![p].freeChunk2 = first]
     /\ UNCHANGED <<triangles, cache, buffer, pixels>>

nextBlockStart(s) == Smaller(s.firstTile + TilesPerChunk, s.chunkEnd + 1)
thisBlockStart(s) == Larger(nextBlockStart(s) - TilesPerChunk, s.chunkStart)

\* Are there tiles to leave to others behind, and in front of, the block?
HasTail(s) == nextBlockStart(s) < s.chunkEnd
HasHead(s) == thisBlockStart(s) > s.chunkStart

tailChunk(s) == IF HasTail(s) THEN s.freeChunk ELSE s.chunkNext
headChunk(s) == IF HasTail(s) THEN s.freeChunk2 ELSE s.freeChunk

\* "speculatively clear the free chunk just in case we don't need it"
Cleared(s) ==
  IF s.claimed THEN [cache EXCEPT !.chunkNext[s.freeChunk] = CHUNKNEXT_FREE_BLOCK] ELSE cache

\* Mutant: the tiles behind the block skip the triangle being drawn.
WithTailSkipping(line, s) ==
  IF ~HasTail(s) THEN line
  ELSE [line EXCEPT !.chunkStart[s.freeChunk] = nextBlockStart(s),
                    !.chunkNext[s.freeChunk] = s.chunkNext,
                    !.chunkTriangle[s.freeChunk] = s.chunkTriangle + 1,
                    !.chunkNext[s.chunkToProcess] = s.freeChunk + CHUNKNEXT_BUSY_BIT]

WithTail(line, s) ==
  IF ~HasTail(s) THEN line
  ELSE [line EXCEPT !.chunkStart[s.freeChunk] = nextBlockStart(s),
                    !.chunkNext[s.freeChunk] = s.chunkNext,
                    !.chunkTriangle[s.freeChunk] = s.chunkTriangle,
                    !.chunkNext[s.chunkToProcess] = s.freeChunk + CHUNKNEXT_BUSY_BIT]

\* The busy block gets an entry of its own, the old entry becomes the region
\* before it; without a second free entry the whole region stays busy.
WithHead(line, s) ==
  IF ~HasHead(s) THEN line
  ELSE IF headChunk(s) # NoChunk
  THEN [line EXCEPT !.chunkStart[headChunk(s)] = thisBlockStart(s),
                    !.chunkNext[headChunk(s)] = tailChunk(s) + CHUNKNEXT_BUSY_BIT,
                    !.chunkTriangle[headChunk(s)] = s.chunkTriangle,
                    !.chunkNext[s.chunkToProcess] = headChunk(s),
                    !.chunkTriangle[s.chunkToProcess] = s.chunkTriangle + 1]
  ELSE [line EXCEPT !.chunkTriangle[s.chunkToProcess] = s.chunkTriangle,
                    !.chunkNext[s.chunkToProcess] = tailChunk(s) + CHUNKNEXT_BUSY_BIT]

SplitStore(p) ==
  LET s == spu[p]
      ownHead == HasHead(s) /\ headChunk(s) # NoChunk
  IN /\ s.pc = "split_putllc"
     /\ p \in resv
     /\ ~(HasTail(s) /\ s.freeChunk = NoChunk)
     /\ cache' = merge_cache_blocks(WithHead(WithTail(Cleared(s), s), s))
     /\ resv' = {}
     /\ spu' = [spu EXCEPT ![p] =
                  [s EXCEPT !.pc = "render",
                            !.chunkToProcess = IF ownHead THEN headChunk(s) ELSE @,
                            !.chunkNext = tailChunk(s),
                            !.chunkStart = s.firstTile,
                            !.chunkEnd = nextBlockStart(s) - 1,
                            !.thisBlockStart = thisBlockStart(s),
                            !.realBlockStart =
                               IF HasHead(s) /\ ~ownHead THEN s.chunkStart ELSE thisBlockStart(s),
                            !.freeChunk = NoChunk, !.freeChunk2 = NoChunk, !.claimed = FALSE]]
     /\ UNCHANGED <<triangles, buffer, pixels>>

\* Tiles behind the block and no free entry for them: give the chunk back.
Relinquish(p) ==
  LET s == spu[p]
  IN /\ s.pc = "split_putllc"
     /\ p \in resv
     /\ HasTail(s) /\ s.freeChunk = NoChunk
     /\ cache' = [cache EXCEPT !.chunkNext[s.chunkToProcess] = s.chunkNext]
     /\ resv' = {}
     /\ spu' = [spu EXCEPT ![p] = Idle]
     /\ UNCHANGED <<triangles, buffer, pixels>>

SplitRetry(p) ==
  /\ spu[p].pc = "split_putllc"
  /\ p \notin resv
  /\ spu' = [spu EXCEPT ![p].pc = "split_getllar", ![p].freeChunk2 = NoChunk,
                        ![p].claimed = FALSE]
  /\ UNCHANGED <<triangles, cache, resv, buffer, pixels>>

-----------------------------------------------------------------------------
(* Drawing.                                                                 *)

\* processTriangleChunks: read the tiles of the block that the triangle covers
\* and that are not in the buffer yet, then draw on them.  After one triangle
\* the loop ends when chunkStart and realBlockStart differ.
Render(p) ==
  LET s == spu[p]
      touched == triangles[s.chunkTriangle + 1] \cap (s.thisBlockStart .. s.chunkEnd)
      Old(t) == IF t \in DOMAIN buffer[p] THEN buffer[p][t] ELSE pixels[t]
      last == s.chunkStart # s.realBlockStart \/ s.chunkTriangle + 1 = s.endTriangle
  IN /\ s.pc = "render"
     /\ buffer' = [buffer EXCEPT ![p] =
          [t \in DOMAIN buffer[p] \cup touched |->
             IF t \in touched THEN Append(Old(t), s.chunkTriangle + 1) ELSE buffer[p][t]]]
     /\ spu' = [spu EXCEPT ![p].chunkTriangle = @ + 1,
                           ![p].pc = IF last THEN "flush" ELSE "render"]
     /\ UNCHANGED <<triangles, cache, resv, pixels>>

\* flushTileBuffers: write the buffered tiles back and wait for the DMA.
Flush(p) ==
  /\ spu[p].pc = "flush"
  /\ pixels' = [t \in Tiles |-> IF t \in DOMAIN buffer[p] THEN buffer[p][t] ELSE pixels[t]]
  /\ buffer' = [buffer EXCEPT ![p] = <<>>]
  /\ spu' = [spu EXCEPT ![p].pc = "finish"]
  /\ UNCHANGED <<triangles, cache, resv>>

\* The entry reserved by Claim, if the split did not use it.
Released(s) ==
  IF s.freeChunk = NoChunk THEN cache
  ELSE [cache EXCEPT !.chunkNext[s.freeChunk] = CHUNKNEXT_FREE_BLOCK]

\* Mark the chunk as drawn up to chunkTriangle and free a reserved entry.
Finish(p) ==
  LET s == spu[p]
  IN /\ s.pc = "finish"
     /\ cache' = merge_cache_blocks(
                   [Released(s) EXCEPT !.chunkNext[s.chunkToProcess] = s.chunkNext,
                                       !.chunkTriangle[s.chunkToProcess] = s.chunkTriangle])
     /\ resv' = {}
     /\ spu' = [spu EXCEPT ![p] = Idle]
     /\ UNCHANGED <<triangles, buffer, pixels>>

-----------------------------------------------------------------------------
\* blockManagementCreateRenderable: one chunk, all tiles, no triangles.
Init ==
  \E layout \in Layouts :
    LET tiles   == 0 .. (layout[1] - 1)
        entries == 0 .. (layout[2] - 1)
    IN /\ cache = [chunkTriangle |-> [c \in entries |-> 0],
                   chunkStart |-> [c \in entries |-> 0],
                   chunkNext |-> [c \in entries |-> IF c = 0 THEN 0 ELSE CHUNKNEXT_FREE_BLOCK]]
       /\ pixels = [t \in tiles |-> <<>>]
       /\ triangles = <<>>
       /\ resv = {}
       /\ spu = [p \in Spus |-> Idle]
       /\ buffer = [p \in Spus |-> <<>>]

SpuNext(p) ==
  \/ Claim(p) \/ Search(p)
  \/ SplitLoad(p) \/ SplitStore(p) \/ Relinquish(p) \/ SplitRetry(p)
  \/ Render(p) \/ Flush(p) \/ Finish(p)

\* With every triangle drawn the SPUs poll the list for ever.
Done ==
  /\ endTriangle = MaxTriangles
  /\ Processable = {}
  /\ \A p \in Spus : spu[p].pc = "idle"
  /\ UNCHANGED vars

Next == Submit \/ (\E p \in Spus : SpuNext(p)) \/ Done

Spec == Init /\ [][Next]_vars

-----------------------------------------------------------------------------
(* Properties.                                                              *)

\* The entries that are part of the ring, busy or not.
InRing(c) == cache.chunkNext[c] < 2 * CHUNKNEXT_BUSY_BIT
TilesOf(c) == cache.chunkStart[c] .. ChunkEnd(cache, c)

\* The tiles an SPU reads, draws on and writes back.
Working(p) ==
  IF spu[p].pc \in {"render", "flush"} THEN spu[p].thisBlockStart .. spu[p].chunkEnd ELSE {}

\* Mutant: a chunk being worked on does not count.
stillProcessingIdle ==
  \E c \in Chunks : Live(cache, c) /\ cache.chunkTriangle[c] # endTriangle

\* stillProcessingQueue.  Its "busy" test compares the masked link with the
\* mask, which only a free entry satisfies.
stillProcessingQueue ==
  \E c \in Chunks :
    /\ cache.chunkNext[c] # CHUNKNEXT_FREE_BLOCK
    /\ \/ NextOf(cache.chunkNext[c]) = CHUNKNEXT_BUSY_BIT - 1
       \/ cache.chunkTriangle[c] # endTriangle

\* Every variable has the type the code gives it.
TypeOK ==
  /\ triangles \in Seq(Coverages[NumTiles]) /\ endTriangle <= MaxTriangles
  /\ cache.chunkTriangle \in [Chunks -> 0 .. MaxTriangles]
  /\ cache.chunkStart \in [Chunks -> Tiles \cup {NoStart}]
  /\ cache.chunkNext \in [Chunks -> Chunks \cup {c + CHUNKNEXT_BUSY_BIT : c \in Chunks}
                                     \cup {CHUNKNEXT_FREE_BLOCK, CHUNKNEXT_RESERVED}]
  /\ resv \subseteq Spus
  /\ \A p \in Spus :
       /\ spu[p].pc \in {"idle", "search", "split_getllar", "split_putllc",
                         "render", "flush", "finish"}
       /\ spu[p].chunkToProcess \in Chunks \cup {NoChunk}
       /\ spu[p].chunkStart \in Tiles /\ spu[p].chunkEnd \in Tiles
       /\ DOMAIN buffer[p] \subseteq Working(p)

\* Whatever SPUs claim, split, give back and merge at the same time, the ring
\* holds every tile in exactly one chunk.
ChunksPartitionTiles ==
  \A t \in Tiles : Cardinality({c \in Chunks : InRing(c) /\ t \in TilesOf(c)}) = 1

\* No two SPUs ever work on the same tile, each keeps to the chunk it has
\* marked busy, and a block fits the sixteen tile buffers of an SPU.
TilesAreExclusive ==
  \A p \in Spus :
    Working(p) # {} =>
      /\ cache.chunkNext[spu[p].chunkToProcess] = spu[p].chunkNext + CHUNKNEXT_BUSY_BIT
      /\ Working(p) \subseteq TilesOf(spu[p].chunkToProcess)
      /\ \A q \in Spus \ {p} : Working(p) \cap Working(q) = {}
      /\ Cardinality(Working(p)) <= TilesPerChunk

\* A chunk nobody works on says the truth about its tiles: they carry exactly
\* the triangles before its chunkTriangle, each once and in order.
ChunkTriangleIsTrue ==
  \A c \in Chunks : Live(cache, c) =>
    \A t \in TilesOf(c) : pixels[t] = Drawn(t, cache.chunkTriangle[c])

\* When stillProcessingQueue lets a flush go on, every triangle is in the frame
\* buffer on every tile it covers: no SPU still holds tiles in its buffers.
FinishedMeansDrawn ==
  ~stillProcessingQueue => \A t \in Tiles : pixels[t] = Drawn(t, endTriangle)

\* An entry reserved for an SPU stays reserved until that SPU splits or
\* finishes: "was free, but now claimed".
ReservedIsKept ==
  \A p \in Spus :
    spu[p].pc = "search" /\ spu[p].freeChunk # NoChunk =>
      cache.chunkNext[spu[p].freeChunk] = CHUNKNEXT_RESERVED

\* findFirstTriangleTile is asked for chunks only that begin before they end
\* (cacheline.c:292), whatever splits and merges have made of them.
AsksForChunks ==
  \A p \in Spus : spu[p].pc = "search" =>
    /\ {spu[p].chunkStart, spu[p].chunkEnd} \subseteq Tiles
    /\ spu[p].chunkStart <= spu[p].chunkEnd

\* processTriangleChunks is asked for no more tiles than the SPU has buffers for
\* (cacheline.c:443), the first one found among them.
AsksForBlocks ==
  \A p \in Spus : spu[p].pc = "render" =>
    /\ spu[p].firstTile \in spu[p].thisBlockStart .. spu[p].chunkEnd
    /\ spu[p].chunkEnd - spu[p].thisBlockStart < TilesPerChunk

\* The entry that Claim has reserved for an SPU which does not split now.
HoldsEntry(s, e) == s.pc \in {"search", "finish"} /\ s.freeChunk = e

\* The entry an SPU takes for reserved, and is about to free and to use for a
\* split, is part of the ring, reserved for another SPU, or about to be used
\* twice.  The one way there is a retry; render_reserved shows it.
StaleEntry(p) ==
  LET s == spu[p]
  IN /\ s.pc = "split_putllc" /\ p \in resv /\ s.claimed
     /\ \/ cache.chunkNext[s.freeChunk] \notin {CHUNKNEXT_FREE_BLOCK, CHUNKNEXT_RESERVED}
        \/ \E q \in Spus \ {p} : HoldsEntry(spu[q], s.freeChunk)
        \/ HasTail(s) /\ HasHead(s) /\ s.freeChunk2 = s.freeChunk

\* No split ever works with an entry that has become somebody else's since it
\* was chosen.
NoStaleEntry == \A p \in Spus : ~StaleEntry(p)

\* A split leaves one tile behind its block, which cacheline.c:359 takes for
\* none: no chunk and no block has it; render_last_tile shows it.
LastTileLost(p) == spu[p].pc = "split_putllc" /\ nextBlockStart(spu[p]) = spu[p].chunkEnd

NoLastTileLost == \A p \in Spus : ~LastTileLost(p)

\* The chunks implement the promise of Raster: tiles are only ever written
\* with the triangles that come next on them.
RasterSpec == Raster!Spec

\* Each SPU is a processor of its own and keeps running.  No fairness is asked
\* of PUTLLC: a split only loses its reservation to a step of another one.
Fairness == \A p \in Spus : WF_vars(SpuNext(p))

FairSpec == Spec /\ Fairness

\* With an entry for every tile none is ever missing.  With fewer a chunk may be
\* claimed and given back for ever, by Relinquish.
EntriesToSpare == Cardinality(Chunks) >= NumTiles

\* Every triangle written is drawn in the end: no chunk is left behind by
\* splits, merges and claims of the other SPUs.
EveryTriangleIsDrawn ==
  EntriesToSpare =>
    \A k \in 1 .. MaxTriangles :
      endTriangle >= k ~>
        (endTriangle >= k /\ \A t \in Tiles : Len(pixels[t]) >= Len(Drawn(t, k)))
=============================================================================
