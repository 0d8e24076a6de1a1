----------------------------- MODULE TileSearch -----------------------------
(***************************************************************************)
(* Which tiles a triangle touches: imp_triangle of                         *)
(* server/primaryspu/primitives.c turns vertices into three edge values,   *)
(* and findFirstTile and subdivide of server/renderspu/subdivide.c halve   *)
(* the screen along the Hilbert curve of doc/hilbert.txt and leave out the *)
(* quarters that an edge has wholly on its outer side.                     *)
(*                                                                         *)
(* Coordinates are in the units of imp_triangle (a quarter of a pixel);    *)
(* the fourth word of its vectors, which decides nothing, is left out.     *)
(***************************************************************************)
EXTENDS Integers, Sequences, FiniteSets

CONSTANTS Across,         \* tiles in a row: 64, a power of two
          Side,           \* of the square the curve fills: 2048 pixels, 8192 units
          WordSize,       \* of spu_add: 2^32
          Points          \* <<x, y>> of vertices, rounded and clamped

Unit        == Side \div Across
ScreenTiles == Across * Across
Corners     == 1 .. 3
Edges       == [Corners -> Int]

\* Sides, in tiles, that a square of the search may have.
Sizes == {m \in 1 .. Across : \E n \in 1 .. Across : m * n = Across}

\* spu_convts clamps vertices to twice the side, half a pixel is added to round them
\* (primitives.c:264).
Coordinates == (2 - 2 * Side) .. (2 * Side + 1)

\* Words have an even number of values, 64 for each point of the square
\* (64 * 8192 * 8192 = 2^32).
Even    == WordSize \in Nat /\ WordSize > 0 /\ WordSize = 2 * (WordSize \div 2)
Clamped == /\ Side \in Nat /\ Side > 1 /\ 64 * (Side * Side) <= WordSize
           /\ Points \subseteq Coordinates \X Coordinates

\* Tiles have whole sides, of a pixel at least (32 pixels, 128 units), and the screen can
\* be halved down to one: no odd number but 1 divides Across.
Tiled == /\ Across \in Nat /\ Across > 0 /\ Unit \in Nat /\ Unit >= 4 /\ Side = Across * Unit
         /\ \A m \in Sizes : m = 1 \/ m % 2 = 0

ASSUME TileSearchAssumption == Even /\ Clamped /\ Tiled

Vertices == [Corners -> Points]

-----------------------------------------------------------------------------
(* imp_triangle: the values of the edges at the corner of the screen and    *)
(* how they change along its sides.                                         *)

\* The sum a word keeps.
Wrap(n) == ((n + WordSize \div 2) % WordSize) - WordSize \div 2

cw(k)  == (k % 3) + 1
ccw(k) == ((k + 1) % 3) + 1
dx(v, k) == v[ccw(k)][2] - v[cw(k)][2]
dy(v, k) == v[cw(k)][1] - v[ccw(k)][1]

total(v)     == Wrap(v[1][1] * dx(v, 1) + v[2][1] * dx(v, 2) + v[3][1] * dx(v, 3))
offset(v, k) == Wrap(v[1][1] * dx(v, k) + v[1][2] * dy(v, k))

Visible(v) == total(v) < 0

imp_triangle(v) ==
  [A   |-> [k \in Corners |-> Wrap((IF k = 1 THEN total(v) ELSE 0) - offset(v, k))],
   Adx |-> [k \in Corners |-> dx(v, k) * Side],
   Ady |-> [k \in Corners |-> dy(v, k) * Side]]

\* Of a whole number of pixels: four units each, and the half pixel that rounds it.
Rounded(n) == 4 * n + 2

\* imp_clear_screen, whose vertices imp_triangle rounds like all others.
ClearVertices(width, height) ==
  <<<<Rounded(width), Rounded(-height)>>, <<Rounded(width), Rounded(height)>>,
    <<Rounded(-width), Rounded(height)>>>>

-----------------------------------------------------------------------------
(* A step of the search: a square of i by i tiles, where its part of the    *)
(* curve begins, the values at its corner, and the type of the curve in it. *)

Cells == [A : Edges, Adx : Edges, Ady : Edges, at : Nat \X Nat, i : Sizes, base : Nat,
          bit0 : BOOLEAN, bit1 : BOOLEAN]

Root(t) == [A |-> t.A, Adx |-> t.Adx, Ady |-> t.Ady, at |-> <<0, 0>>, i |-> Across,
            base |-> 0, bit0 |-> FALSE, bit1 |-> FALSE]

Plus(E, F)  == [k \in Corners |-> Wrap(E[k] + F[k])]
Minus(E, F) == [k \in Corners |-> Wrap(E[k] - F[k])]
Half(E)     == [k \in Corners |-> E[k] \div 2]

\* Deviation of Outside: an edge that one corner touches counts as outside.
OutsideStrict(A, Adx, Ady) ==
  \E k \in Corners : /\ A[k] >= 0
                     /\ Plus(A, Adx)[k] >= 0
                     /\ Plus(A, Ady)[k] >= 0

\* An edge has all four corners on its outer side.
Outside(A, Adx, Ady) ==
  \E k \in Corners : /\ A[k] >= 0
                     /\ Plus(A, Adx)[k] >= 0
                     /\ Plus(A, Ady)[k] >= 0
                     /\ Plus(Plus(A, Adx), Ady)[k] >= 0

\* Whether quarter A, B, C, D lies to the right and below.
Right(c, q) == CASE q = 0 -> c.bit1 [] q = 1 -> c.bit0 [] q = 2 -> ~c.bit1 [] q = 3 -> ~c.bit0
Below(c, q) == CASE q = 0 -> c.bit1 [] q = 1 -> ~c.bit0 [] q = 2 -> ~c.bit1 [] q = 3 -> c.bit0

\* The first or the second half of a side.
Part(E, second) == IF second THEN Minus(E, Half(E)) ELSE Half(E)

Start(c, q) ==
  LET along == IF Right(c, q) THEN Plus(c.A, Half(c.Adx)) ELSE c.A
  IN IF Below(c, q) THEN Plus(along, Half(c.Ady)) ELSE along

\* The curve is turned in the first quarter and in the last.
Turned(c, q) == [bit0 |-> c.bit0 # (q = 0), bit1 |-> c.bit1 # (q = 3)]

Quarter(c, q) ==
  LET i == c.i \div 2
  IN [A    |-> Start(c, q),
      Adx  |-> Part(c.Adx, Right(c, q)),
      Ady  |-> Part(c.Ady, Below(c, q)),
      at   |-> <<c.at[1] + (IF Right(c, q) THEN i ELSE 0), c.at[2] + (IF Below(c, q) THEN i ELSE 0)>>,
      i    |-> i,
      base |-> c.base + q * i * i,
      bit0 |-> Turned(c, q).bit0,
      bit1 |-> Turned(c, q).bit1]

-----------------------------------------------------------------------------
(* The two searches.                                                        *)

\* v_process: the quarter has tiles in start .. end - 1.
Overlaps(c, start, end) == c.base + c.i * c.i > start /\ end > c.base

\* The first tile of a window that is not outside, -1 if there is none.
findFirstTile(root, start, end) ==
  LET find[c \in Cells] ==
        LET first(q) == IF Overlaps(Quarter(c, q), start, end) THEN find[Quarter(c, q)] ELSE -1
        IN IF Outside(c.A, c.Adx, c.Ady) THEN -1
           ELSE IF c.i = 1 THEN c.base
           ELSE LET a == first(0) IN IF a >= 0 THEN a
           ELSE LET b == first(1) IN IF b >= 0 THEN b
           ELSE LET d == first(2) IN IF d >= 0 THEN d
           ELSE first(3)
  IN find[root]

findFirstTriangleTile(t, chunkStart, chunkEnd) ==
  findFirstTile(Root(t), chunkStart, chunkEnd + 1)

\* Deviation of InBlock: no test for tiles before the block.
InBlockOrBefore(c, blockStart, blockMax, limit) ==
  /\ c.base - blockStart < blockMax
  /\ c.at[1] <= limit[1] /\ c.at[2] <= limit[2]

\* A tile of the block that is on the screen.  blockMax counts from the start of
\* the screen, here as in the code.
InBlock(c, blockStart, blockMax, limit) ==
  /\ c.base - blockStart \in 0 .. (blockMax - 1)
  /\ c.at[1] <= limit[1] /\ c.at[2] <= limit[2]

\* The tiles of a block that are not outside: found, coordArray and A.
subdivide(root, blockStart, blockMax, limit) ==
  LET found[c \in Cells] ==
        IF Outside(c.A, c.Adx, c.Ady) THEN {}
        ELSE IF c.i = 1
             THEN {[block |-> d.base - blockStart, coord |-> d.at, A |-> d.A] :
                     d \in {e \in {c} : InBlock(e, blockStart, blockMax, limit)}}
        ELSE UNION {found[Quarter(c, q)] : q \in {r \in 0 .. 3 : blockMax > Quarter(c, r).base}}
  IN found[root]

processTriangleChunks(t, firstTile, chunkEnd, limit) ==
  subdivide(Root(t), firstTile, chunkEnd + 1, limit)

-----------------------------------------------------------------------------
(* What they are measured by: plane geometry, in whole numbers.             *)

Triangles == {v \in Vertices : Visible(v)}

\* Twice the area between a point and the edge opposite to corner k, negative
\* on the inner side.
Cross(v, k, X, Y) ==
  (X - v[cw(k)][1]) * (v[ccw(k)][2] - v[cw(k)][2]) - (Y - v[cw(k)][2]) * (v[ccw(k)][1] - v[cw(k)][1])

\* The tile at <<x, y>> is not wholly beyond one of the edges.
Touches(v, at) ==
  \A k \in Corners : \E X \in {at[1], at[1] + 1}, Y \in {at[2], at[2] + 1} :
    Cross(v, k, X * Unit, Y * Unit) < 0

\* The tiles of a square, counted along the curve.
Run(c) == c.base .. (c.base + c.i * c.i - 1)

\* The place of each tile of the curve.
Places ==
  LET place[c \in Cells] ==
        [h \in Run(c) |->
           IF c.i = 1 THEN c.at
           ELSE place[Quarter(c, CHOOSE q \in 0 .. 3 : h \in Run(Quarter(c, q)))][h]]
      flat == [A |-> [k \in Corners |-> 0], Adx |-> [k \in Corners |-> 0], Ady |-> [k \in Corners |-> 0]]
  IN place[Root(flat)]

TouchedTiles(v) == {h \in 0 .. (ScreenTiles - 1) : Touches(v, Places[h])}

Windows == {w \in (0 .. (ScreenTiles - 1)) \X (0 .. (ScreenTiles - 1)) : w[1] <= w[2]}
Least(S) == CHOOSE n \in S : \A m \in S : n <= m

\* The curve visits every tile once and goes on to a neighbour each time
\* (subdivide.c:298-306, doc/hilbert.txt).
CurveIsHilbert ==
  /\ {Places[h] : h \in 0 .. (ScreenTiles - 1)} = (0 .. (Across - 1)) \X (0 .. (Across - 1))
  /\ \A h \in 1 .. (ScreenTiles - 1) :
       \/ Places[h][1] = Places[h - 1][1] /\ Places[h][2] - Places[h - 1][2] \in {-1, 1}
       \/ Places[h][2] = Places[h - 1][2] /\ Places[h][1] - Places[h - 1][1] \in {-1, 1}

\* findFirstTriangleTile finds the first tile of the chunk that the triangle touches,
\* whatever it leaves out on the way (cacheline.c:292).
FirstTileIsFirst ==
  \A v \in Triangles :
    LET t == imp_triangle(v)
        touched == TouchedTiles(v)
    IN \A w \in Windows :
         LET inside == touched \cap (w[1] .. w[2])
         IN findFirstTriangleTile(t, w[1], w[2]) = IF inside = {} THEN -1 ELSE Least(inside)

\* Of a block of as many tiles as the SPU has buffers for, or fewer, subdivide finds the tiles on the
\* screen that the triangle touches, each where it is and with the values of the edges
\* that the pixel shader starts from (subdivide.c:366-372).
BlockIsExact(most) ==
  \A v \in Triangles :
    LET t == imp_triangle(v)
        touched == TouchedTiles(v)
    IN \A w \in {u \in Windows : u[2] - u[1] < most}, limit \in {<<Across - 1, Across - 2>>} :
         processTriangleChunks(t, w[1], w[2], limit) =
           {[block |-> h - w[1], coord |-> Places[h],
             A |-> [k \in Corners |-> Cross(v, k, Places[h][1] * Unit, Places[h][2] * Unit)]] :
              h \in {g \in touched \cap (w[1] .. w[2]) :
                       Places[g][1] <= limit[1] /\ Places[g][2] <= limit[2]}}

\* The triangle of a clear touches every tile of a screen of any number of pixels, although
\* its long edge passes half a pixel inside the corner (primitives.c:712-724, :264-265).
ClearCoversScreen ==
  \A width, height \in 1 .. (Side \div 4) :
    LET t == imp_triangle(ClearVertices(width, height))
    IN \A h \in 0 .. (ScreenTiles - 1) :
         Places[h][1] < (4 * width) \div Unit /\ Places[h][2] < (4 * height) \div Unit =>
           findFirstTriangleTile(t, h, h) = h
=============================================================================
