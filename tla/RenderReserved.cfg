\* Violates ReservedIsKept: a split that is retried frees an entry that another
\* SPU has reserved in the meantime.
CONSTANTS
  Layouts <- LayoutsSplit
  TilesPerChunk = 2
  Spus = {p1, p2}
  Coverages <- CoveragesSplit
  MaxTriangles = 2
  Across = 4
  Side = 16
  WordSize = 16384
  Points <- PointsAround
SPECIFICATION RetrySpec
INVARIANT ReservedIsKept
