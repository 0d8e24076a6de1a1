---------------------------- MODULE RenderSearch ----------------------------
(***************************************************************************)
(* The scheduling of RenderChunks and the searches of TileSearch that its  *)
(* Search and Render steps stand on: findFirstTriangleTile and             *)
(* processTriangleChunks are asked for chunks and blocks that come out of  *)
(* any interleaving of the SPUs (server/renderspu/cacheline.c:292, :443).  *)
(***************************************************************************)
EXTENDS RenderChunks, TileSearch

\* findFirstTriangleTile is asked for chunks only that begin before they end
\* (cacheline.c:292), whatever splits and merges have made of them, and then finds
\* their first tile; a clear has all of them.
SearchFindsTheFirst ==
  /\ AsksForChunks
  /\ CurveIsHilbert /\ FirstTileIsFirst /\ ClearCoversScreen

\* A block is as long as the SPU has buffers for.
BlocksAreExact == BlockIsExact(TilesPerChunk)

\* processTriangleChunks is asked for no more tiles than the SPU has buffers for
\* (cacheline.c:443), the first one found among them, and then finds exactly those
\* the triangle touches.
BlockFitsTheBuffers ==
  /\ AsksForBlocks
  /\ BlocksAreExact
=============================================================================
