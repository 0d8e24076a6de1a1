\* Blocks of two, two triangles, two SPUs; four tiles with entries to spare, six and nine
\* with few.  Up to the first split that uses an entry which was taken meanwhile (Spoils).
CONSTANTS
  Layouts <- LayoutsAll
  TilesPerChunk = 2
  Spus = {p1, p2}
  Coverages <- CoveragesAll
  MaxTriangles = 2
  Across = 4
  Side = 16
  WordSize = 16384
  Points <- PointsAround
SPECIFICATION FairUnspoiltSpec
INVARIANTS TypeOK ChunksPartitionTiles TilesAreExclusive OnlyKeepersAreStale
           ChunkTriangleIsTrue FinishedMeansDrawn SearchFindsTheFirst BlockFitsTheBuffers
PROPERTIES RasterSpec EveryTriangleIsDrawn
