\* Violates ChunkTriangleIsTrue: a block that ends one tile before the end of
\* its chunk leaves that tile to nobody.
CONSTANTS
  Layouts <- LayoutsOdd
  TilesPerChunk = 2
  Spus = {p1}
  Coverages <- CoveragesOdd
  MaxTriangles = 2
  Across = 4
  Side = 16
  WordSize = 16384
  Points <- PointsAround
SPECIFICATION RetrySpec
INVARIANT ChunkTriangleIsTrue
