--------------------------- MODULE MCRenderChunks ---------------------------
EXTENDS RenderSearch, RenderRetries, TLC

\* Four tiles with entries to spare, six whose entries run out; and three entries: a split
\* of six tiles finds one or two of them free while another SPU claims a long chunk and
\* reserves one; of nine tiles a chunk of five is left, whose split needs two entries.
LayoutsAll == {<<4, 4>>, <<6, 2>>, <<6, 3>>, <<9, 3>>}

\* In blocks of two: of four tiles every coverage but those that make a block end one tile
\* before the end of its chunk (RenderLastTile.cfg runs one), of six runs of whole blocks,
\* of nine pairs that begin on an odd tile.
CoveragesAll ==
  (4 :> {T \in SUBSET (0 .. 3) : T # {} /\ SmallestOf(T) # 1})
    @@ (6 :> {{0, 1}, {2, 3}, {4, 5}, 2 .. 5, 0 .. 5})
    @@ (9 :> {{1, 2}, {3, 4}, {5, 6}})

\* A triangle that starts on the second tile.
LayoutsOdd == {<<4, 4>>}
CoveragesOdd == 4 :> {1 .. 3, 0 .. 3}

\* Triangles that split six tiles among several SPUs.
LayoutsSplit == {<<6, 5>>}
CoveragesSplit == 6 :> {0 .. 5, {0, 1}}

\* Vertices as far out as they are clamped to (2 - 2 * 16 and 2 * 16 + 1), and on,
\* between and inside tiles of one pixel, four units.
PointsAround == {<<-30, -30>>, <<-30, 33>>, <<33, -30>>, <<33, 33>>,
                 <<6, 6>>, <<5, 10>>, <<12, 4>>, <<2, 15>>}
=============================================================================
