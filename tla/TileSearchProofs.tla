-------------------------- MODULE TileSearchProofs --------------------------
(***************************************************************************)
(* The searches of TileSearch are plane geometry, for a screen of any      *)
(* power of two of tiles and all vertices that spu_convts gives.           *)
(*                                                                         *)
(* First the arithmetic: in words, from the vertices that imp_triangle     *)
(* gets down to a single tile, the values of the edges are those of whole  *)
(* numbers; no sum that decides anything overflows, and a square that is   *)
(* left out has no tile that the triangle touches.  Then the recursion:    *)
(* there are finitely many sizes of squares, so that the functions exist   *)
(* and what holds of a square when it holds of its quarters holds of all   *)
(* (Upward, Induct).  Hence the curve is a Hilbert curve (CurveHolds), and *)
(* both searches find what they should (FirstTileFound, BlockFound), also  *)
(* where the scheduler of RenderChunks asks for them (SchedulerIsServed).  *)
(***************************************************************************)
EXTENDS RenderSearch, RenderChunksProofs

\* The values a word keeps.
Word == {n \in Int : -(WordSize \div 2) <= n /\ n < WordSize \div 2}

\* The four corners of a square, for one edge, and its two sides.
Values(A, Adx, Ady, k) ==
  {A[k], Adx[k], Ady[k], A[k] + Adx[k], A[k] + Ady[k], A[k] + Adx[k] + Ady[k]}

Fits(c) == \A k \in Corners : Values(c.A, c.Adx, c.Ady, k) \subseteq Word

LEMMA WrapFits ==
  ASSUME Even, NEW n \in Word
  PROVE  Wrap(n) = n
<1> DEFINE W == WordSize \div 2
<1>1. W \in Nat /\ W > 0 /\ WordSize = 2 * W BY DEF Even
<1>2. n \in Int /\ n + W \in 0 .. (2 * W - 1) BY <1>1 DEF Word
<1>3. (n + W) % (2 * W) = n + W BY <1>1, <1>2
<1> QED BY <1>1, <1>2, <1>3 DEF Wrap

\* A quotient and a remainder are unique.
LEMMA DivisionIsUnique ==
  ASSUME NEW m \in Nat, m > 0, NEW q \in Int, NEW r \in 0 .. (m - 1),
         NEW d \in Int, NEW s \in 0 .. (m - 1), m * q + r = m * d + s
  PROVE  q = d /\ r = s
<1>1. m * (q - d) = s - r OBVIOUS
<1>2. ASSUME q - d >= 1 PROVE FALSE
  <2>1. m * (q - d) >= m BY <1>2
  <2> QED BY <1>1, <2>1
<1>3. ASSUME q - d <= -1 PROVE FALSE
  <2>1. m * (q - d) <= -m BY <1>3
  <2> QED BY <1>1, <2>1
<1> QED BY <1>1, <1>2, <1>3

LEMMA Division ==
  ASSUME NEW m \in Nat, m > 0, NEW n \in Int
  PROVE  /\ n \div m \in Int
         /\ n % m \in 0 .. (m - 1)
         /\ n = m * (n \div m) + (n % m)
OBVIOUS

\* A word keeps the same of two sums that are multiples of its size apart.
LEMMA WrapIsPeriodic ==
  ASSUME Even, NEW n \in Int, NEW j \in Int
  PROVE  Wrap(n + WordSize * j) = Wrap(n)
<1> DEFINE W == WordSize \div 2
           x == n + W
           y == (n + WordSize * j) + W
<1>1. WordSize \in Nat /\ WordSize > 0 /\ W \in Int BY DEF Even
<1>2. x \in Int /\ y \in Int /\ y = x + WordSize * j BY <1>1
<1> HIDE DEF x, y
<1>3. x = WordSize * (x \div WordSize) + (x % WordSize) BY <1>1, <1>2, Division
<1>4. y = WordSize * (y \div WordSize) + (y % WordSize) BY <1>1, <1>2, Division
<1>5. /\ x \div WordSize \in Int /\ x % WordSize \in 0 .. (WordSize - 1)
      /\ y \div WordSize \in Int /\ y % WordSize \in 0 .. (WordSize - 1)
  BY <1>1, <1>2, Division
<1>6. PICK q \in Int : q = x \div WordSize BY <1>5
<1>7. WordSize * (q + j) = WordSize * q + WordSize * j BY <1>1
<1>8. WordSize * (q + j) + (x % WordSize) = WordSize * (y \div WordSize) + (y % WordSize)
  BY <1>1, <1>2, <1>3, <1>4, <1>5, <1>6, <1>7
<1>9. q + j \in Int OBVIOUS
<1>10. x % WordSize = y % WordSize BY <1>1, <1>5, <1>8, <1>9, DivisionIsUnique
<1> QED BY <1>10 DEF x, y, Wrap

LEMMA WrapIsCongruent ==
  ASSUME Even, NEW n \in Int
  PROVE  Wrap(n) \in Word /\ \E j \in Int : Wrap(n) = n + WordSize * j
<1> DEFINE W == WordSize \div 2
           x == n + W
<1>1. WordSize \in Nat /\ WordSize > 0 /\ W \in Int /\ WordSize = 2 * W BY DEF Even
<1>2. x \in Int BY <1>1
<1>3. /\ x = WordSize * (x \div WordSize) + (x % WordSize)
      /\ x \div WordSize \in Int /\ x % WordSize \in 0 .. (WordSize - 1)
  BY <1>1, <1>2, Division
<1>4. PICK q \in Int : q = x \div WordSize BY <1>3
<1>5. PICK r \in 0 .. (WordSize - 1) : r = x % WordSize BY <1>3
<1>6. n = WordSize * q + r - W BY <1>1, <1>3, <1>4, <1>5
<1>7. Wrap(n) = r - W BY <1>5 DEF Wrap
<1>8. WordSize * (-q) = -(WordSize * q) BY <1>1
<1>9. Wrap(n) = n + WordSize * (-q) /\ -q \in Int BY <1>1, <1>6, <1>7, <1>8
<1>10. Wrap(n) \in Word BY <1>1, <1>7 DEF Word
<1> QED BY <1>9, <1>10

\* The sums at the corners of a square that fits are those of whole numbers.
LEMMA SumsAreExact ==
  ASSUME Even, NEW c, Fits(c), NEW k \in Corners
  PROVE  /\ Plus(c.A, c.Adx)[k] = c.A[k] + c.Adx[k]
         /\ Plus(c.A, c.Ady)[k] = c.A[k] + c.Ady[k]
         /\ Plus(Plus(c.A, c.Adx), c.Ady)[k] = c.A[k] + c.Adx[k] + c.Ady[k]
<1>1. {c.A[k] + c.Adx[k], c.A[k] + c.Ady[k], c.A[k] + c.Adx[k] + c.Ady[k]} \subseteq Word
  BY DEF Fits, Values
<1>2. Plus(c.A, c.Adx)[k] = c.A[k] + c.Adx[k] BY <1>1, WrapFits DEF Plus
<1>3. Plus(c.A, c.Ady)[k] = c.A[k] + c.Ady[k] BY <1>1, WrapFits DEF Plus
<1>4. Plus(Plus(c.A, c.Adx), c.Ady)[k] = c.A[k] + c.Adx[k] + c.Ady[k]
  <2>1. Plus(Plus(c.A, c.Adx), c.Ady)[k] = Wrap(c.A[k] + c.Adx[k] + c.Ady[k]) BY <1>2 DEF Plus
  <2> QED BY <1>1, <2>1, WrapFits
<1> QED BY <1>2, <1>3, <1>4

-----------------------------------------------------------------------------
(* A quarter of a square.                                                   *)

\* A point of a side moves the value of an edge no farther than the side does.
LEMMA Between ==
  ASSUME NEW a \in Int, NEW X \in Int, NEW Y \in Int,
         NEW u \in {0, X \div 2, X}, NEW w \in {0, Y \div 2, Y},
         NEW low \in Int, NEW high \in Int,
         \A n \in {a, a + X, a + Y, a + X + Y} : low <= n /\ n <= high
  PROVE  low <= a + u + w /\ a + u + w <= high
<1>1. u \in Int /\ ((0 <= u /\ u <= X) \/ (X <= u /\ u <= 0)) OBVIOUS
<1>2. w \in Int /\ ((0 <= w /\ w <= Y) \/ (Y <= w /\ w <= 0)) OBVIOUS
<1>3. low <= a /\ low <= a + X /\ low <= a + Y /\ low <= a + X + Y OBVIOUS
<1>4. a <= high /\ a + X <= high /\ a + Y <= high /\ a + X + Y <= high OBVIOUS
<1> QED BY <1>1, <1>2, <1>3, <1>4

\* Where the quarter lies along a side, and how far it reaches.
From(E, second, k) == IF second THEN E[k] \div 2 ELSE 0
Upto(E, second, k) == IF second THEN E[k] ELSE E[k] \div 2

LEMMA QuarterIsPart ==
  ASSUME Even, NEW c \in Cells, Fits(c), NEW q \in 0 .. 3, NEW k \in Corners
  PROVE  /\ Quarter(c, q).A[k] = c.A[k] + From(c.Adx, Right(c, q), k) + From(c.Ady, Below(c, q), k)
         /\ Quarter(c, q).Adx[k] = Upto(c.Adx, Right(c, q), k) - From(c.Adx, Right(c, q), k)
         /\ Quarter(c, q).Ady[k] = Upto(c.Ady, Below(c, q), k) - From(c.Ady, Below(c, q), k)
         /\ {Quarter(c, q).Adx[k], Quarter(c, q).Ady[k]} \subseteq Word
<1> DEFINE a == c.A[k]
           X == c.Adx[k]
           Y == c.Ady[k]
           W == WordSize \div 2
<1>1. a \in Int /\ X \in Int /\ Y \in Int /\ W \in Int BY DEF Cells, Edges, Even
<1>2. {a, X, Y, a + X, a + Y, a + X + Y} \subseteq Word BY DEF Fits, Values
<1>3. \A n \in {a, X, Y, a + X, a + Y, a + X + Y} : -W <= n /\ n <= W - 1 BY <1>1, <1>2 DEF Word
<1>4. ASSUME NEW u \in {0, X \div 2, X}, NEW w \in {0, Y \div 2, Y}
      PROVE  a + u + w \in Word
  <2>1. -W \in Int /\ W - 1 \in Int BY <1>1
  <2>2. \A n \in {a, a + X, a + Y, a + X + Y} : -W <= n /\ n <= W - 1 BY <1>3
  <2>3. -W <= a + u + w /\ a + u + w <= W - 1 BY <1>1, <2>1, <2>2, Between
  <2> QED BY <1>1, <2>3 DEF Word
<1>5. Half(c.Adx)[k] = X \div 2 /\ Half(c.Ady)[k] = Y \div 2 BY DEF Half
<1>6. {X \div 2, Y \div 2, X - (X \div 2), Y - (Y \div 2)} \subseteq Word
  BY <1>1, <1>3 DEF Word
<1>7. Start(c, q)[k] = a + From(c.Adx, Right(c, q), k) + From(c.Ady, Below(c, q), k)
  <2>1. Plus(c.A, Half(c.Adx))[k] = a + (X \div 2)
    <3>1. a + (X \div 2) \in Word BY <1>1, <1>4
    <3> QED BY <1>5, <3>1, WrapFits DEF Plus
  <2>2. PICK E \in {c.A, Plus(c.A, Half(c.Adx))} :
          E = IF Right(c, q) THEN Plus(c.A, Half(c.Adx)) ELSE c.A
    OBVIOUS
  <2>3. E[k] = a + From(c.Adx, Right(c, q), k) BY <1>1, <2>1, <2>2 DEF From
  <2>4. Plus(E, Half(c.Ady))[k] = E[k] + (Y \div 2)
    <3>1. E[k] + (Y \div 2) \in Word BY <1>1, <1>4, <2>3 DEF From
    <3> QED BY <1>5, <3>1, WrapFits DEF Plus
  <2>5. Start(c, q)[k] = IF Below(c, q) THEN E[k] + (Y \div 2) ELSE E[k]
    BY <2>2, <2>4 DEF Start
  <2>6. E[k] \in Int BY <1>1, <2>3 DEF From
  <2> QED BY <1>1, <2>3, <2>5, <2>6 DEF From
<1>8. Part(c.Adx, Right(c, q))[k] = Upto(c.Adx, Right(c, q), k) - From(c.Adx, Right(c, q), k)
  <2>1. Minus(c.Adx, Half(c.Adx))[k] = X - (X \div 2) BY <1>5, <1>6, WrapFits DEF Minus
  <2> QED BY <1>1, <1>5, <2>1 DEF Part, Upto, From
<1>9. Part(c.Ady, Below(c, q))[k] = Upto(c.Ady, Below(c, q), k) - From(c.Ady, Below(c, q), k)
  <2>1. Minus(c.Ady, Half(c.Ady))[k] = Y - (Y \div 2) BY <1>5, <1>6, WrapFits DEF Minus
  <2> QED BY <1>1, <1>5, <2>1 DEF Part, Upto, From
<1>10. /\ Quarter(c, q).A = Start(c, q)
       /\ Quarter(c, q).Adx = Part(c.Adx, Right(c, q))
       /\ Quarter(c, q).Ady = Part(c.Ady, Below(c, q))
  BY DEF Quarter
<1>11. {Quarter(c, q).Adx[k], Quarter(c, q).Ady[k]} \subseteq Word
  BY <1>1, <1>6, <1>8, <1>9, <1>10 DEF Upto, From
<1> QED BY <1>7, <1>8, <1>9, <1>10, <1>11

\* The corners of the quarter are points between those of the square.
LEMMA QuarterLiesWithin ==
  ASSUME Even, NEW c \in Cells, Fits(c), NEW q \in 0 .. 3, NEW k \in Corners,
         NEW low \in Int, NEW high \in Int,
         \A n \in {c.A[k], c.A[k] + c.Adx[k], c.A[k] + c.Ady[k], c.A[k] + c.Adx[k] + c.Ady[k]} :
           low <= n /\ n <= high
  PROVE  LET d == Quarter(c, q)
         IN \A n \in {d.A[k], d.A[k] + d.Adx[k], d.A[k] + d.Ady[k], d.A[k] + d.Adx[k] + d.Ady[k]} :
              n \in Int /\ low <= n /\ n <= high
<1> DEFINE a == c.A[k]
           X == c.Adx[k]
           Y == c.Ady[k]
           d == Quarter(c, q)
           u == From(c.Adx, Right(c, q), k)
           w == From(c.Ady, Below(c, q), k)
           u1 == Upto(c.Adx, Right(c, q), k)
           w1 == Upto(c.Ady, Below(c, q), k)
<1>1. a \in Int /\ X \in Int /\ Y \in Int BY DEF Cells, Edges
<1>2. {u, u1} \subseteq {0, X \div 2, X} /\ {w, w1} \subseteq {0, Y \div 2, Y} BY DEF From, Upto
<1>3. d.A[k] = a + u + w /\ d.Adx[k] = u1 - u /\ d.Ady[k] = w1 - w BY QuarterIsPart
<1>4. \A n \in {a, a + X, a + Y, a + X + Y} : low <= n /\ n <= high OBVIOUS
<1>5. \A s \in {u, u1}, t \in {w, w1} :
        a + s + t \in Int /\ low <= a + s + t /\ a + s + t <= high
  <2> TAKE s \in {u, u1}, t \in {w, w1}
  <2>1. s \in {0, X \div 2, X} /\ t \in {0, Y \div 2, Y} BY <1>2
  <2>2. s \in Int /\ t \in Int BY <1>1, <2>1
  <2>3. low <= a + s + t /\ a + s + t <= high
    <3> HIDE DEF a, X, Y, u, w, u1, w1
    <3> QED BY <1>1, <1>4, <2>1, Between, SMTT(30)
  <2> QED BY <1>1, <2>2, <2>3
<1>6. {u, u1, w, w1} \subseteq Int BY <1>1, <1>2
<1> HIDE DEF a, X, Y, d, u, w, u1, w1
<1>7. /\ d.A[k] + d.Adx[k] = a + u1 + w
      /\ d.A[k] + d.Ady[k] = a + u + w1
      /\ d.A[k] + d.Adx[k] + d.Ady[k] = a + u1 + w1
  BY <1>1, <1>3, <1>6
<1> QED BY <1>3, <1>5, <1>7 DEF d

\* What fits a word goes on to do so in every quarter.
THEOREM QuartersFit ==
  ASSUME Even, NEW c \in Cells, Fits(c), NEW q \in 0 .. 3
  PROVE  Fits(Quarter(c, q))
<1> SUFFICES ASSUME NEW k \in Corners
             PROVE  Values(Quarter(c, q).A, Quarter(c, q).Adx, Quarter(c, q).Ady, k) \subseteq Word
  BY DEF Fits
<1> DEFINE W == WordSize \div 2
           d == Quarter(c, q)
<1>1. W \in Int /\ -W \in Int /\ W - 1 \in Int BY DEF Even
<1>2. {c.A[k], c.A[k] + c.Adx[k], c.A[k] + c.Ady[k], c.A[k] + c.Adx[k] + c.Ady[k]} \subseteq Word
  BY DEF Fits, Values
<1>3. \A n \in {c.A[k], c.A[k] + c.Adx[k], c.A[k] + c.Ady[k], c.A[k] + c.Adx[k] + c.Ady[k]} :
        -W <= n /\ n <= W - 1
  BY <1>1, <1>2 DEF Word
<1>4. \A n \in {d.A[k], d.A[k] + d.Adx[k], d.A[k] + d.Ady[k], d.A[k] + d.Adx[k] + d.Ady[k]} :
        n \in Int /\ -W <= n /\ n <= W - 1
  BY <1>1, <1>3, QuarterLiesWithin
<1>5. {d.A[k], d.A[k] + d.Adx[k], d.A[k] + d.Ady[k], d.A[k] + d.Adx[k] + d.Ady[k]} \subseteq Word
  BY <1>1, <1>4 DEF Word
<1>6. {d.Adx[k], d.Ady[k]} \subseteq Word BY QuarterIsPart
<1> QED BY <1>5, <1>6 DEF Values

\* No tile of a square that is left out would be drawn: each of its quarters is left out too.
THEOREM OutsideIsInherited ==
  ASSUME Even, NEW c \in Cells, Fits(c), Outside(c.A, c.Adx, c.Ady), NEW q \in 0 .. 3
  PROVE  LET d == Quarter(c, q) IN Outside(d.A, d.Adx, d.Ady)
<1> DEFINE d == Quarter(c, q)
<1>1. PICK k \in Corners :
        /\ c.A[k] >= 0 /\ Plus(c.A, c.Adx)[k] >= 0 /\ Plus(c.A, c.Ady)[k] >= 0
        /\ Plus(Plus(c.A, c.Adx), c.Ady)[k] >= 0
  BY DEF Outside
<1>2. WordSize \div 2 \in Int BY DEF Even
<1>3. /\ Plus(c.A, c.Adx)[k] = c.A[k] + c.Adx[k]
      /\ Plus(c.A, c.Ady)[k] = c.A[k] + c.Ady[k]
      /\ Plus(Plus(c.A, c.Adx), c.Ady)[k] = c.A[k] + c.Adx[k] + c.Ady[k]
  BY SumsAreExact
<1>4. c.A[k] \in Int /\ c.Adx[k] \in Int /\ c.Ady[k] \in Int BY DEF Cells, Edges
<1>5. {c.A[k], c.A[k] + c.Adx[k], c.A[k] + c.Ady[k], c.A[k] + c.Adx[k] + c.Ady[k]} \subseteq Word
  BY DEF Fits, Values
<1>6. \A n \in {c.A[k], c.A[k] + c.Adx[k], c.A[k] + c.Ady[k], c.A[k] + c.Adx[k] + c.Ady[k]} :
        0 <= n /\ n <= WordSize \div 2
  BY <1>1, <1>2, <1>3, <1>4, <1>5 DEF Word
<1>7. \A n \in {d.A[k], d.A[k] + d.Adx[k], d.A[k] + d.Ady[k], d.A[k] + d.Adx[k] + d.Ady[k]} :
        n \in Int /\ 0 <= n /\ n <= WordSize \div 2
  BY <1>2, <1>6, QuarterLiesWithin
<1>8. Fits(d) BY QuartersFit
<1>9. /\ Plus(d.A, d.Adx)[k] = d.A[k] + d.Adx[k]
      /\ Plus(d.A, d.Ady)[k] = d.A[k] + d.Ady[k]
      /\ Plus(Plus(d.A, d.Adx), d.Ady)[k] = d.A[k] + d.Adx[k] + d.Ady[k]
  BY <1>8, SumsAreExact
<1> HIDE DEF d
<1>10. /\ d.A[k] >= 0 /\ Plus(d.A, d.Adx)[k] >= 0 /\ Plus(d.A, d.Ady)[k] >= 0
       /\ Plus(Plus(d.A, d.Adx), d.Ady)[k] >= 0
  BY <1>7, <1>9
<1> QED BY <1>10 DEF Outside, d

-----------------------------------------------------------------------------
(* The values imp_triangle starts the search with.                          *)

\* Vertices as spu_convts clamps them, those of triangles and those of a clear.
ClampedTriangles == [Corners -> Coordinates \X Coordinates]

LEMMA ProductIsBounded ==
  ASSUME NEW m \in Nat, NEW n \in Nat, NEW a \in -m .. m, NEW b \in -n .. n
  PROVE  a * b \in -(m * n) .. (m * n)
<1>1. a \in Int /\ b \in Int /\ -m <= a /\ a <= m /\ -n <= b /\ b <= n OBVIOUS
<1>2. ASSUME NEW x \in Nat, NEW y \in Nat, x <= m, y <= n PROVE x * y <= m * n
  <2>1. x * y <= m * y BY <1>2
  <2>2. m * y <= m * n BY <1>2
  <2> QED BY <2>1, <2>2
<1>3. CASE a >= 0 /\ b >= 0
  <2>1. a * b <= m * n BY <1>1, <1>2, <1>3
  <2>2. a * b >= 0 BY <1>1, <1>3
  <2>3. m * n \in Nat /\ a * b \in Int BY <1>1
  <2> QED BY <2>1, <2>2, <2>3
<1>4. CASE a >= 0 /\ b <= 0
  <2>1. a * (-b) <= m * n BY <1>1, <1>2, <1>4
  <2>2. a * (-b) >= 0 /\ a * b = -(a * (-b)) BY <1>1, <1>4
  <2>3. m * n \in Nat /\ a * b \in Int BY <1>1
  <2> QED BY <2>1, <2>2, <2>3
<1>5. CASE a <= 0 /\ b >= 0
  <2>1. (-a) * b <= m * n BY <1>1, <1>2, <1>5
  <2>2. (-a) * b >= 0 /\ a * b = -((-a) * b) BY <1>1, <1>5
  <2>3. m * n \in Nat /\ a * b \in Int BY <1>1
  <2> QED BY <2>1, <2>2, <2>3
<1>6. CASE a <= 0 /\ b <= 0
  <2>1. (-a) * (-b) <= m * n BY <1>1, <1>2, <1>6
  <2>2. (-a) * (-b) >= 0 /\ a * b = (-a) * (-b) BY <1>1, <1>6
  <2>3. m * n \in Nat /\ a * b \in Int BY <1>1
  <2> QED BY <2>1, <2>2, <2>3
<1> QED BY <1>1, <1>3, <1>4, <1>5, <1>6

LEMMA NextCorners ==
  /\ cw(1) = 2 /\ ccw(1) = 3
  /\ cw(2) = 3 /\ ccw(2) = 1
  /\ cw(3) = 1 /\ ccw(3) = 2
BY DEF cw, ccw

LEMMA ClampedVertices ==
  ASSUME Clamped, NEW v \in ClampedTriangles, NEW k \in Corners
  PROVE  /\ {v[k][1], v[k][2]} \subseteq Coordinates
         /\ {v[k][1], v[k][2]} \subseteq Int
<1>1. v[k] \in Coordinates \X Coordinates BY DEF ClampedTriangles
<1>2. {v[k][1], v[k][2]} \subseteq Coordinates BY <1>1
<1> QED BY <1>2 DEF Coordinates, Clamped

\* The value of an edge anywhere on the screen has a word to itself.
LEMMA CrossFits ==
  ASSUME Even, Clamped, NEW v \in ClampedTriangles, NEW k \in Corners, NEW X \in 0 .. Side, NEW Y \in 0 .. Side
  PROVE  Cross(v, k, X, Y) \in Word
<1> DEFINE S2 == Side * Side
<1>1. cw(k) \in Corners /\ ccw(k) \in Corners BY NextCorners DEF Corners
<1>2. Side \in Nat /\ Side > 1 BY DEF Clamped
<1>3. PICK x1, y1, x2, y2 \in Coordinates :
        x1 = v[cw(k)][1] /\ y1 = v[cw(k)][2] /\ x2 = v[ccw(k)][1] /\ y2 = v[ccw(k)][2]
  BY <1>1, ClampedVertices
<1>4. /\ X - x1 \in -(3 * Side) .. 3 * Side /\ Y - y1 \in -(3 * Side) .. 3 * Side
      /\ x2 - x1 \in -(4 * Side) .. 4 * Side /\ y2 - y1 \in -(4 * Side) .. 4 * Side
  BY <1>2 DEF Coordinates
<1>5. 3 * Side \in Nat /\ 4 * Side \in Nat BY <1>2
<1>6. /\ (X - x1) * (y2 - y1) \in -((3 * Side) * (4 * Side)) .. (3 * Side) * (4 * Side)
      /\ (Y - y1) * (x2 - x1) \in -((3 * Side) * (4 * Side)) .. (3 * Side) * (4 * Side)
  BY <1>4, <1>5, ProductIsBounded
<1>7. (3 * Side) * (4 * Side) = 12 * S2 /\ S2 \in Nat /\ S2 > 0 BY <1>2
<1>8. PICK p, q \in -(12 * S2) .. 12 * S2 : p = (X - x1) * (y2 - y1) /\ q = (Y - y1) * (x2 - x1)
  BY <1>6, <1>7
<1>9. Cross(v, k, X, Y) = p - q BY <1>3, <1>8 DEF Cross
<1>10. 64 * S2 <= WordSize BY DEF Clamped
<1> HIDE DEF S2
<1> QED BY <1>7, <1>9, <1>10 DEF Word, Even

\* The differences of vertices fit the half words that spu_mule multiplies (4 * 8192 = 2^15).
LEMMA DifferencesFit ==
  ASSUME Clamped, NEW v \in ClampedTriangles, NEW k \in Corners
  PROVE  /\ dx(v, k) \in -(4 * Side - 1) .. (4 * Side - 1)
         /\ dy(v, k) \in -(4 * Side - 1) .. (4 * Side - 1)
<1>1. cw(k) \in Corners /\ ccw(k) \in Corners BY NextCorners DEF Corners
<1>2. Side \in Nat /\ Side > 1 BY DEF Clamped
<1>3. PICK x1, y1, x2, y2 \in Coordinates :
        x1 = v[cw(k)][1] /\ y1 = v[cw(k)][2] /\ x2 = v[ccw(k)][1] /\ y2 = v[ccw(k)][2]
  BY <1>1, ClampedVertices
<1>4. dx(v, k) = y2 - y1 /\ dy(v, k) = x1 - x2 BY <1>3 DEF dx, dy
<1> QED BY <1>2, <1>3, <1>4 DEF Coordinates

\* The sums of products that imp_triangle wraps, in whole numbers.
Total(v)     == v[1][1] * dx(v, 1) + v[2][1] * dx(v, 2) + v[3][1] * dx(v, 3)
Offset(v, k) == v[1][1] * dx(v, k) + v[1][2] * dy(v, k)

LEMMA SumsAreCross ==
  ASSUME Clamped, NEW v \in ClampedTriangles, NEW k \in Corners
  PROVE  /\ Total(v) \in Int /\ Offset(v, k) \in Int
         /\ Cross(v, k, 0, 0) = (IF k = 1 THEN Total(v) ELSE 0) - Offset(v, k)
         /\ Total(v) = Cross(v, 1, v[1][1], v[1][2])
<1>1. 1 \in Corners /\ 2 \in Corners /\ 3 \in Corners BY DEF Corners
<1>2. PICK x1, y1, x2, y2, x3, y3 \in Int :
        /\ x1 = v[1][1] /\ y1 = v[1][2]
        /\ x2 = v[2][1] /\ y2 = v[2][2]
        /\ x3 = v[3][1] /\ y3 = v[3][2]
  BY <1>1, ClampedVertices
<1>3. /\ dx(v, 1) = y3 - y2 /\ dx(v, 2) = y1 - y3 /\ dx(v, 3) = y2 - y1
      /\ dy(v, 1) = x2 - x3 /\ dy(v, 2) = x3 - x1 /\ dy(v, 3) = x1 - x2
  BY <1>2, NextCorners DEF dx, dy
<1>4. Total(v) = x1 * (y3 - y2) + x2 * (y1 - y3) + x3 * (y2 - y1) BY <1>2, <1>3 DEF Total
<1>5. /\ Offset(v, 1) = x1 * (y3 - y2) + y1 * (x2 - x3)
      /\ Offset(v, 2) = x1 * (y1 - y3) + y1 * (x3 - x1)
      /\ Offset(v, 3) = x1 * (y2 - y1) + y1 * (x1 - x2)
  BY <1>2, <1>3 DEF Offset
<1>6. /\ Cross(v, 1, 0, 0) = (0 - x2) * (y3 - y2) - (0 - y2) * (x3 - x2)
      /\ Cross(v, 2, 0, 0) = (0 - x3) * (y1 - y3) - (0 - y3) * (x1 - x3)
      /\ Cross(v, 3, 0, 0) = (0 - x1) * (y2 - y1) - (0 - y1) * (x2 - x1)
      /\ Cross(v, 1, v[1][1], v[1][2]) = (x1 - x2) * (y3 - y2) - (y1 - y2) * (x3 - x2)
  BY <1>2, NextCorners DEF Cross
<1>7. Total(v) \in Int /\ \A j \in Corners : Offset(v, j) \in Int
  BY <1>4, <1>5 DEF Corners
<1>8. Cross(v, 1, 0, 0) = Total(v) - Offset(v, 1) BY <1>4, <1>5, <1>6
<1>9. Cross(v, 2, 0, 0) = 0 - Offset(v, 2) BY <1>5, <1>6
<1>10. Cross(v, 3, 0, 0) = 0 - Offset(v, 3) BY <1>5, <1>6
<1>11. Total(v) = Cross(v, 1, v[1][1], v[1][2]) BY <1>4, <1>6
<1> QED BY <1>7, <1>8, <1>9, <1>10, <1>11 DEF Corners

\* The values that imp_triangle stores are those of plane geometry, although the sums
\* it takes on the way may not fit a word.
LEMMA FirstValuesAreExact ==
  ASSUME Even, Clamped, NEW v \in ClampedTriangles, NEW k \in Corners
  PROVE  imp_triangle(v).A[k] = Cross(v, k, 0, 0)
<1>1. WordSize \in Nat /\ Side \in Nat BY DEF Even, Clamped
<1>2. PICK T, O \in Int : T = Total(v) /\ O = Offset(v, k) BY SumsAreCross
<1>3. total(v) = Wrap(T) /\ offset(v, k) = Wrap(O) BY <1>2 DEF total, offset, Total, Offset
<1>4. PICK i \in Int : Wrap(T) = T + WordSize * i BY WrapIsCongruent
<1>5. PICK j \in Int : Wrap(O) = O + WordSize * j BY WrapIsCongruent
<1>6. PICK n \in Int : n = Cross(v, k, 0, 0) /\ n \in Word
  <2>1. 0 \in 0 .. Side BY <1>1
  <2>2. Cross(v, k, 0, 0) \in Word BY <2>1, CrossFits
  <2> QED BY <2>2 DEF Word
<1>7. imp_triangle(v).A[k] = Wrap((IF k = 1 THEN total(v) ELSE 0) - offset(v, k)) BY DEF imp_triangle
<1>8. n = (IF k = 1 THEN T ELSE 0) - O BY <1>2, <1>6, SumsAreCross
<1>9. CASE k = 1
  <2>1. (T + WordSize * i) - (O + WordSize * j) = n + WordSize * (i - j) BY <1>1, <1>8, <1>9
  <2>2. imp_triangle(v).A[k] = Wrap(n + WordSize * (i - j)) BY <1>3, <1>4, <1>5, <1>7, <1>9, <2>1
  <2> QED BY <1>6, <2>2, WrapFits, WrapIsPeriodic
<1>10. CASE k # 1
  <2>1. 0 - (O + WordSize * j) = n + WordSize * (-j) BY <1>1, <1>8, <1>10
  <2>2. imp_triangle(v).A[k] = Wrap(n + WordSize * (-j)) BY <1>3, <1>5, <1>7, <1>10, <2>1
  <2>3. -j \in Int OBVIOUS
  <2> QED BY <1>6, <2>2, <2>3, WrapFits, WrapIsPeriodic
<1> QED BY <1>9, <1>10

\* The overflow that primitives.c:290 warns of does no harm: the values imp_triangle
\* stores are those of plane geometry in all four corners of the screen's square.
THEOREM TriangleIsExact ==
  ASSUME Even, Clamped, NEW v \in ClampedTriangles, NEW k \in Corners
  PROVE  LET t == imp_triangle(v)
         IN /\ t.A[k] = Cross(v, k, 0, 0)
            /\ t.A[k] + t.Adx[k] = Cross(v, k, Side, 0)
            /\ t.A[k] + t.Ady[k] = Cross(v, k, 0, Side)
            /\ t.A[k] + t.Adx[k] + t.Ady[k] = Cross(v, k, Side, Side)
<1>1. cw(k) \in Corners /\ ccw(k) \in Corners BY NextCorners DEF Corners
<1>2. Side \in Int BY DEF Clamped
<1>3. PICK x1, y1, x2, y2 \in Int :
        x1 = v[cw(k)][1] /\ y1 = v[cw(k)][2] /\ x2 = v[ccw(k)][1] /\ y2 = v[ccw(k)][2]
  BY <1>1, ClampedVertices
<1>4. imp_triangle(v).Adx[k] = (y2 - y1) * Side /\ imp_triangle(v).Ady[k] = (x1 - x2) * Side
  BY <1>3 DEF imp_triangle, dx, dy
<1>5. imp_triangle(v).A[k] = (0 - x1) * (y2 - y1) - (0 - y1) * (x2 - x1)
  BY <1>3, FirstValuesAreExact DEF Cross
<1>6. /\ Cross(v, k, Side, 0) = (Side - x1) * (y2 - y1) - (0 - y1) * (x2 - x1)
      /\ Cross(v, k, 0, Side) = (0 - x1) * (y2 - y1) - (Side - y1) * (x2 - x1)
      /\ Cross(v, k, Side, Side) = (Side - x1) * (y2 - y1) - (Side - y1) * (x2 - x1)
  BY <1>3 DEF Cross
<1> QED BY <1>2, <1>4, <1>5, <1>6, FirstValuesAreExact

\* The search begins with values that fit, so that by QuartersFit it never has others.
THEOREM TriangleFits ==
  ASSUME Even, Clamped, NEW v \in ClampedTriangles
  PROVE  Fits(Root(imp_triangle(v)))
<1> DEFINE t == imp_triangle(v)
           S2 == Side * Side
<1> SUFFICES ASSUME NEW k \in Corners PROVE Values(t.A, t.Adx, t.Ady, k) \subseteq Word
  BY DEF Fits, Root
<1>1. Side \in Nat /\ Side > 1 /\ 64 * S2 <= WordSize BY DEF Clamped
<1>2. 0 \in 0 .. Side /\ Side \in 0 .. Side BY <1>1
<1>3. {t.A[k], t.A[k] + t.Adx[k], t.A[k] + t.Ady[k], t.A[k] + t.Adx[k] + t.Ady[k]} \subseteq Word
  BY <1>2, CrossFits, TriangleIsExact
<1>4. {t.Adx[k], t.Ady[k]} \subseteq Word
  <2>1. PICK m, n \in -(4 * Side) .. 4 * Side : m = dx(v, k) /\ n = dy(v, k)
    BY <1>1, DifferencesFit
  <2>2. t.Adx[k] = m * Side /\ t.Ady[k] = n * Side BY <2>1 DEF imp_triangle
  <2>3. Side \in -Side .. Side /\ 4 * Side \in Nat BY <1>1
  <2>4. /\ m * Side \in -((4 * Side) * Side) .. (4 * Side) * Side
        /\ n * Side \in -((4 * Side) * Side) .. (4 * Side) * Side
    BY <1>1, <2>1, <2>3, ProductIsBounded
  <2>5. (4 * Side) * Side = 4 * S2 /\ S2 \in Nat /\ S2 > 0 BY <1>1
  <2>6. PICK p, q \in -(4 * S2) .. 4 * S2 : p = t.Adx[k] /\ q = t.Ady[k] BY <2>2, <2>4, <2>5
  <2> HIDE DEF t, S2
  <2> QED BY <1>1, <2>5, <2>6 DEF Word, Even
<1> QED BY <1>3, <1>4 DEF Values

\* A triangle is left out as invisible exactly when its area is not negative: the sum
\* that decides it has a word to itself.
THEOREM VisibleIsExact ==
  ASSUME Even, Clamped, NEW v \in ClampedTriangles
  PROVE  Visible(v) <=> Total(v) < 0
<1> DEFINE S2 == Side * Side
<1>1. Side \in Nat /\ Side > 1 /\ 64 * S2 <= WordSize BY DEF Clamped
<1>2. 1 \in Corners /\ 2 \in Corners /\ 3 \in Corners BY DEF Corners
<1>3. ASSUME NEW k \in Corners PROVE v[k][1] * dx(v, k) \in -(10 * S2) .. 10 * S2
  <2>1. PICK m \in -(2 * Side + 1) .. (2 * Side + 1) : m = v[k][1]
    BY <1>1, ClampedVertices DEF Coordinates
  <2>2. PICK n \in -(4 * Side) .. 4 * Side : n = dx(v, k) BY <1>1, DifferencesFit
  <2>3. 2 * Side + 1 \in Nat /\ 4 * Side \in Nat BY <1>1
  <2>4. m * n \in -((2 * Side + 1) * (4 * Side)) .. (2 * Side + 1) * (4 * Side)
    BY <2>3, ProductIsBounded
  <2>5. (2 * Side + 1) * (4 * Side) = 8 * S2 + 4 * Side BY <1>1
  <2>6. 2 * Side <= S2 /\ S2 \in Nat BY <1>1
  <2>7. 8 * S2 + 4 * Side <= 10 * S2 BY <1>1, <2>6
  <2>8. PICK p \in -(8 * S2 + 4 * Side) .. (8 * S2 + 4 * Side) : p = m * n BY <2>4, <2>5
  <2> HIDE DEF S2
  <2> QED BY <1>1, <2>1, <2>2, <2>6, <2>7, <2>8
<1>4. PICK a, b, c \in -(10 * S2) .. 10 * S2 :
        a = v[1][1] * dx(v, 1) /\ b = v[2][1] * dx(v, 2) /\ c = v[3][1] * dx(v, 3)
  BY <1>2, <1>3
<1>5. Total(v) = a + b + c BY <1>4 DEF Total
<1>6. S2 \in Nat /\ S2 > 0 BY <1>1
<1>7. a + b + c \in Word
  <2> HIDE DEF S2
  <2> QED BY <1>1, <1>4, <1>6 DEF Word, Even
<1>8. total(v) = Wrap(a + b + c) BY <1>4 DEF total
<1> QED BY <1>5, <1>7, <1>8, WrapFits DEF Visible

-----------------------------------------------------------------------------
(* The search as plane geometry.                                            *)

\* The square of a step is on the screen, and its values are those of its corners.
Exact(c, v) ==
  /\ c.i > 0 /\ c.at[1] + c.i <= Across /\ c.at[2] + c.i <= Across
  /\ \A k \in Corners : /\ c.A[k] = Cross(v, k, c.at[1] * Unit, c.at[2] * Unit)
                        /\ c.Adx[k] = dx(v, k) * (c.i * Unit)
                        /\ c.Ady[k] = dy(v, k) * (c.i * Unit)

\* How the value of an edge changes along the sides of a square.
LEMMA CrossIsLinear ==
  ASSUME Clamped, NEW v \in ClampedTriangles, NEW k \in Corners,
         NEW X \in Int, NEW Y \in Int, NEW Z \in Int, NEW W \in Int
  PROVE  /\ Cross(v, k, X, Y) \in Int
         /\ Cross(v, k, Z, W) = Cross(v, k, X, Y) + dx(v, k) * (Z - X) + dy(v, k) * (W - Y)
         /\ dx(v, k) \in Int /\ dy(v, k) \in Int
<1>1. cw(k) \in Corners /\ ccw(k) \in Corners BY NextCorners DEF Corners
<1>2. PICK x1, y1, x2, y2 \in Int :
        x1 = v[cw(k)][1] /\ y1 = v[cw(k)][2] /\ x2 = v[ccw(k)][1] /\ y2 = v[ccw(k)][2]
  BY <1>1, ClampedVertices
<1>3. dx(v, k) = y2 - y1 /\ dy(v, k) = x1 - x2 BY <1>2 DEF dx, dy
<1>4. /\ Cross(v, k, X, Y) = (X - x1) * (y2 - y1) - (Y - y1) * (x2 - x1)
      /\ Cross(v, k, Z, W) = (Z - x1) * (y2 - y1) - (W - y1) * (x2 - x1)
  BY <1>2 DEF Cross
<1> QED BY <1>3, <1>4

\* The corners of an exact square.
LEMMA CornersAreExact ==
  ASSUME Tiled, Clamped, NEW v \in ClampedTriangles, NEW c \in Cells, Exact(c, v), NEW k \in Corners
  PROVE  LET X == c.at[1] * Unit
             Y == c.at[2] * Unit
             S == c.i * Unit
         IN /\ c.A[k] = Cross(v, k, X, Y)
            /\ c.A[k] + c.Adx[k] = Cross(v, k, X + S, Y)
            /\ c.A[k] + c.Ady[k] = Cross(v, k, X, Y + S)
            /\ c.A[k] + c.Adx[k] + c.Ady[k] = Cross(v, k, X + S, Y + S)
            /\ {X, Y, X + S, Y + S, S} \subseteq 0 .. Side
<1>1. PICK x, y, i, u \in Nat : x = c.at[1] /\ y = c.at[2] /\ i = c.i /\ u = Unit BY DEF Cells, Sizes, Tiled
<1>2. PICK X, Y, S \in Nat : X = x * u /\ Y = y * u /\ S = i * u
  <2>1. \A m, n \in Nat : m * n \in Nat OBVIOUS
  <2>2. x * u \in Nat /\ y * u \in Nat /\ i * u \in Nat BY <2>1
  <2> QED BY <2>2
<1>3. /\ c.A[k] = Cross(v, k, X, Y) /\ c.Adx[k] = dx(v, k) * S /\ c.Ady[k] = dy(v, k) * S
  BY <1>1, <1>2 DEF Exact
<1>4. PICK Z, V \in Int : Z = X + S /\ V = Y + S BY <1>2
<1>5. /\ Cross(v, k, Z, Y) = Cross(v, k, X, Y) + dx(v, k) * S
      /\ Cross(v, k, X, V) = Cross(v, k, X, Y) + dy(v, k) * S
      /\ Cross(v, k, Z, V) = Cross(v, k, X, Y) + dx(v, k) * S + dy(v, k) * S
  <2>1. X \in Int /\ Y \in Int /\ Z - X = S /\ V - Y = S /\ X - X = 0 /\ Y - Y = 0
    BY <1>2, <1>4
  <2>2. Cross(v, k, X, Y) \in Int /\ dx(v, k) \in Int /\ dy(v, k) \in Int
    BY <2>1, CrossIsLinear
  <2>3. dx(v, k) * 0 = 0 /\ dy(v, k) * 0 = 0 BY <2>2
  <2>4. Cross(v, k, Z, Y) = Cross(v, k, X, Y) + dx(v, k) * (Z - X) + dy(v, k) * (Y - Y)
    BY <1>4, <2>1, CrossIsLinear
  <2>5. Cross(v, k, X, V) = Cross(v, k, X, Y) + dx(v, k) * (X - X) + dy(v, k) * (V - Y)
    BY <1>4, <2>1, CrossIsLinear
  <2>6. Cross(v, k, Z, V) = Cross(v, k, X, Y) + dx(v, k) * (Z - X) + dy(v, k) * (V - Y)
    BY <1>4, <2>1, CrossIsLinear
  <2> QED BY <1>2, <2>1, <2>2, <2>3, <2>4, <2>5, <2>6
<1>6. {X, Y, X + S, Y + S, S} \subseteq 0 .. Side
  <2>1. x + i <= Across /\ y + i <= Across /\ Across \in Nat /\ Side = Across * u
    BY <1>1 DEF Exact, Tiled
  <2>2. (x + i) * u <= Across * u /\ (y + i) * u <= Across * u BY <2>1
  <2>3. X + S <= Side /\ Y + S <= Side BY <1>2, <2>1, <2>2
  <2> QED BY <1>2, <2>1, <2>3
<1> QED BY <1>1, <1>2, <1>3, <1>4, <1>5, <1>6

LEMMA ExactFits ==
  ASSUME Even, Tiled, Clamped, NEW v \in ClampedTriangles, NEW c \in Cells, Exact(c, v)
  PROVE  Fits(c)
<1> SUFFICES ASSUME NEW k \in Corners PROVE Values(c.A, c.Adx, c.Ady, k) \subseteq Word BY DEF Fits
<1> DEFINE S == c.i * Unit
           S2 == Side * Side
<1>1. {c.A[k], c.A[k] + c.Adx[k], c.A[k] + c.Ady[k], c.A[k] + c.Adx[k] + c.Ady[k]} \subseteq Word
  BY CornersAreExact, CrossFits
<1>2. {c.Adx[k], c.Ady[k]} \subseteq Word
  <2>1. Side \in Nat /\ Side > 1 /\ 64 * S2 <= WordSize BY DEF Clamped
  <2>2. PICK m, n \in -(4 * Side) .. 4 * Side : m = dx(v, k) /\ n = dy(v, k)
    BY <2>1, DifferencesFit
  <2>3. PICK s \in -Side .. Side : s = S BY <2>1, CornersAreExact
  <2>4. c.Adx[k] = m * s /\ c.Ady[k] = n * s BY <2>2, <2>3 DEF Exact
  <2>5. 4 * Side \in Nat BY <2>1
  <2>6. /\ m * s \in -((4 * Side) * Side) .. (4 * Side) * Side
        /\ n * s \in -((4 * Side) * Side) .. (4 * Side) * Side
    BY <2>1, <2>5, ProductIsBounded
  <2>7. (4 * Side) * Side = 4 * S2 /\ S2 \in Nat /\ S2 > 0 BY <2>1
  <2>8. PICK p, q \in -(4 * S2) .. 4 * S2 : p = c.Adx[k] /\ q = c.Ady[k] BY <2>4, <2>6, <2>7
  <2> HIDE DEF S2
  <2> QED BY <2>1, <2>7, <2>8 DEF Word, Even
<1> QED BY <1>1, <1>2 DEF Values

\* The search begins with the exact square of the screen ...
THEOREM RootIsExact ==
  ASSUME Even, Tiled, Clamped, NEW v \in ClampedTriangles
  PROVE  Exact(Root(imp_triangle(v)), v)
<1> DEFINE c == Root(imp_triangle(v))
<1>1. c.i = Across /\ c.at = <<0, 0>> BY DEF Root
<1>2. ASSUME NEW k \in Corners
      PROVE  /\ c.A[k] = Cross(v, k, 0, 0)
             /\ c.Adx[k] = dx(v, k) * Side
             /\ c.Ady[k] = dy(v, k) * Side
  BY TriangleIsExact DEF Root, imp_triangle
<1>3. 0 * Unit = 0 /\ Across * Unit = Side BY DEF Tiled
<1> HIDE DEF c
<1> QED BY <1>1, <1>2, <1>3 DEF Exact, Tiled, c

\* ... and each of its steps goes on with an exact square: halving loses nothing, and
\* no sum overflows.
THEOREM QuarterIsExact ==
  ASSUME Even, Tiled, Clamped, NEW v \in ClampedTriangles, NEW c \in Cells, Exact(c, v),
         NEW h \in Nat, h > 0, c.i = 2 * h, NEW q \in 0 .. 3
  PROVE  Exact(Quarter(c, q), v)
<1> DEFINE d == Quarter(c, q)
<1>1. PICK x, y, u \in Nat : x = c.at[1] /\ y = c.at[2] /\ u = Unit BY DEF Cells, Sizes, Tiled
<1>2. c.i \div 2 = h BY Z3
<1>3. PICK mx \in {0, h} : mx = IF Right(c, q) THEN h ELSE 0 OBVIOUS
<1>4. PICK my \in {0, h} : my = IF Below(c, q) THEN h ELSE 0 OBVIOUS
<1>5. d.i = h /\ d.at = <<x + mx, y + my>> BY <1>1, <1>2, <1>3, <1>4 DEF Quarter
<1>6. x + 2 * h <= Across /\ y + 2 * h <= Across BY <1>1 DEF Exact
<1>7. d.i > 0 /\ d.at[1] + d.i <= Across /\ d.at[2] + d.i <= Across
  BY <1>3, <1>4, <1>5, <1>6 DEF Tiled
<1>8. ASSUME NEW k \in Corners
      PROVE  /\ d.A[k] = Cross(v, k, d.at[1] * Unit, d.at[2] * Unit)
             /\ d.Adx[k] = dx(v, k) * (d.i * Unit)
             /\ d.Ady[k] = dy(v, k) * (d.i * Unit)
  <2>1. PICK H \in Nat : H = h * u OBVIOUS
  <2>2. PICK p, r \in Int : p = dx(v, k) * H /\ r = dy(v, k) * H BY CrossIsLinear
  <2>3. (2 * h) * u = 2 * H BY <2>1
  <2>4. dx(v, k) \in Int /\ dy(v, k) \in Int BY CrossIsLinear
  <2>5. c.Adx[k] = dx(v, k) * (2 * H) /\ c.Ady[k] = dy(v, k) * (2 * H)
    BY <1>1, <2>3 DEF Exact
  <2>6. dx(v, k) * (2 * H) = 2 * p /\ dy(v, k) * (2 * H) = 2 * r BY <2>2, <2>4
  <2>7. c.Adx[k] = 2 * p /\ c.Ady[k] = 2 * r BY <2>5, <2>6
  <2>8. (2 * p) \div 2 = p /\ (2 * r) \div 2 = r OBVIOUS
  <2>9. Fits(c) BY ExactFits
  <2>10. /\ From(c.Adx, Right(c, q), k) = dx(v, k) * (mx * u)
         /\ Upto(c.Adx, Right(c, q), k) - From(c.Adx, Right(c, q), k) = p
    <3>1. 0 * u = 0 /\ dx(v, k) * 0 = 0 BY <2>4
    <3>2. CASE Right(c, q) BY <1>3, <2>1, <2>2, <2>7, <2>8, <3>2 DEF From, Upto
    <3>3. CASE ~Right(c, q) BY <1>3, <2>2, <2>7, <2>8, <3>1, <3>3 DEF From, Upto
    <3> QED BY <3>2, <3>3
  <2>11. /\ From(c.Ady, Below(c, q), k) = dy(v, k) * (my * u)
         /\ Upto(c.Ady, Below(c, q), k) - From(c.Ady, Below(c, q), k) = r
    <3>1. 0 * u = 0 /\ dy(v, k) * 0 = 0 BY <2>4
    <3>2. CASE Below(c, q) BY <1>4, <2>1, <2>2, <2>7, <2>8, <3>2 DEF From, Upto
    <3>3. CASE ~Below(c, q) BY <1>4, <2>2, <2>7, <2>8, <3>1, <3>3 DEF From, Upto
    <3> QED BY <3>2, <3>3
  <2>12. c.A[k] = Cross(v, k, x * u, y * u) BY <1>1 DEF Exact
  <2>13. d.A[k] = Cross(v, k, x * u, y * u) + dx(v, k) * (mx * u) + dy(v, k) * (my * u)
    BY <2>9, <2>10, <2>11, <2>12, QuarterIsPart
  <2>14. PICK X, Y, Z, W \in Int :
           X = x * u /\ Y = y * u /\ Z = (x + mx) * u /\ W = (y + my) * u
    BY <1>3, <1>4
  <2>15. Cross(v, k, Z, W) = Cross(v, k, X, Y) + dx(v, k) * (Z - X) + dy(v, k) * (W - Y)
    BY CrossIsLinear
  <2>16. mx * u = Z - X /\ my * u = W - Y BY <1>3, <1>4, <2>14
  <2>17. d.A[k] = Cross(v, k, d.at[1] * Unit, d.at[2] * Unit)
    <3> HIDE DEF d
    <3> QED BY <1>1, <1>5, <2>13, <2>14, <2>15, <2>16
  <2>18. d.Adx[k] = p /\ d.Ady[k] = r BY <2>9, <2>10, <2>11, QuarterIsPart
  <2> HIDE DEF d
  <2> QED BY <1>1, <1>5, <2>1, <2>2, <2>17, <2>18
<1> QED BY <1>7, <1>8 DEF Exact

\* Where it ends, on one tile, that tile is left out exactly when the triangle does not
\* touch it.
THEOREM TileIsExact ==
  ASSUME Even, Tiled, Clamped, NEW v \in ClampedTriangles, NEW c \in Cells, Exact(c, v), c.i = 1
  PROVE  Outside(c.A, c.Adx, c.Ady) <=> ~Touches(v, c.at)
<1>1. PICK x, y, u \in Nat : x = c.at[1] /\ y = c.at[2] /\ u = Unit BY DEF Cells, Sizes, Tiled
<1>2. /\ x * u + 1 * u = (x + 1) * u /\ y * u + 1 * u = (y + 1) * u BY <1>1
<1>3. ASSUME NEW k \in Corners
      PROVE  /\ c.A[k] = Cross(v, k, x * u, y * u)
             /\ Plus(c.A, c.Adx)[k] = Cross(v, k, (x + 1) * u, y * u)
             /\ Plus(c.A, c.Ady)[k] = Cross(v, k, x * u, (y + 1) * u)
             /\ Plus(Plus(c.A, c.Adx), c.Ady)[k] = Cross(v, k, (x + 1) * u, (y + 1) * u)
  <2>1. /\ c.A[k] = Cross(v, k, x * u, y * u)
        /\ c.A[k] + c.Adx[k] = Cross(v, k, (x + 1) * u, y * u)
        /\ c.A[k] + c.Ady[k] = Cross(v, k, x * u, (y + 1) * u)
        /\ c.A[k] + c.Adx[k] + c.Ady[k] = Cross(v, k, (x + 1) * u, (y + 1) * u)
    BY <1>1, <1>2, CornersAreExact
  <2>2. Fits(c) BY ExactFits
  <2> QED BY <2>1, <2>2, SumsAreExact
<1>4. \A k \in Corners, X \in Int, Y \in Int : Cross(v, k, X, Y) \in Int
  <2> TAKE k \in Corners, X \in Int, Y \in Int
  <2> QED BY CrossIsLinear
<1>5. {x * u, y * u, (x + 1) * u, (y + 1) * u} \subseteq Int BY <1>1
<1>6. Touches(v, c.at) <=>
        \A k \in Corners : \/ Cross(v, k, x * u, y * u) < 0
                           \/ Cross(v, k, (x + 1) * u, y * u) < 0
                           \/ Cross(v, k, x * u, (y + 1) * u) < 0
                           \/ Cross(v, k, (x + 1) * u, (y + 1) * u) < 0
  BY <1>1 DEF Touches
<1> QED BY <1>3, <1>4, <1>5, <1>6 DEF Outside

-----------------------------------------------------------------------------
(* Squares are halved down to one tile: what is true of the quarters of a   *)
(* square whenever it has any, and then of the square, is true of all, by   *)
(* induction over their sizes.                                              *)

LEMMA Halves ==
  ASSUME Tiled, NEW c \in Cells, c.i # 1
  PROVE  \E h \in Sizes : h \in Nat /\ h > 0 /\ c.i = 2 * h /\ c.i \div 2 = h /\ h < c.i
<1>1. c.i \in Sizes BY DEF Cells
<1>2. PICK m, n \in 1 .. Across : m = c.i /\ m * n = Across BY <1>1 DEF Sizes
<1>3. m % 2 = 0 BY <1>1, <1>2 DEF Tiled
<1>4. PICK h \in Nat : m = 2 * h BY <1>2, <1>3
<1>5. h > 0 /\ h < m /\ m \div 2 = h BY <1>2, <1>4
<1>6. h * (2 * n) = Across BY <1>2, <1>4
<1>7. h * (2 * n) >= 2 * n BY <1>5
<1>8. 2 * n \in 1 .. Across /\ h \in 1 .. Across BY <1>2, <1>5, <1>6, <1>7
<1>9. h \in Sizes BY <1>6, <1>8 DEF Sizes
<1> QED BY <1>2, <1>4, <1>5, <1>9

LEMMA WrapIsInt ==
  ASSUME Even, NEW n \in Int
  PROVE  Wrap(n) \in Int
BY WrapIsCongruent DEF Word

LEMMA QuarterEdges ==
  ASSUME Even, NEW c \in Cells, NEW q \in 0 .. 3
  PROVE  Start(c, q) \in Edges /\ Part(c.Adx, Right(c, q)) \in Edges /\ Part(c.Ady, Below(c, q)) \in Edges
<1>1. \A E, F \in Edges : Plus(E, F) \in Edges /\ Minus(E, F) \in Edges
  BY WrapIsInt DEF Edges, Plus, Minus
<1>2. \A E \in Edges : Half(E) \in Edges BY DEF Edges, Half
<1>3. c.A \in Edges /\ c.Adx \in Edges /\ c.Ady \in Edges BY DEF Cells
<1>4. Half(c.Adx) \in Edges /\ Half(c.Ady) \in Edges BY <1>2, <1>3
<1>5. Start(c, q) \in Edges BY <1>1, <1>3, <1>4 DEF Start
<1>6. Part(c.Adx, Right(c, q)) \in Edges /\ Part(c.Ady, Below(c, q)) \in Edges
  BY <1>1, <1>3, <1>4 DEF Part
<1> QED BY <1>5, <1>6

\* A quarter is a square of half the side, and its part of the curve is a quarter.
LEMMA QuarterIsCell ==
  ASSUME Even, Tiled, NEW c \in Cells, NEW h \in Sizes, c.i = 2 * h, NEW q \in 0 .. 3
  PROVE  /\ Quarter(c, q) \in Cells
         /\ Quarter(c, q).i = h
         /\ Quarter(c, q).base = c.base + q * (h * h)
<1>1. h \in Nat /\ h > 0 BY DEF Sizes
<1>2. c.i \div 2 = h BY <1>1
<1>3. /\ Quarter(c, q).A = Start(c, q)
      /\ Quarter(c, q).Adx = Part(c.Adx, Right(c, q))
      /\ Quarter(c, q).Ady = Part(c.Ady, Below(c, q))
      /\ Quarter(c, q).i = h
      /\ Quarter(c, q).base = c.base + q * h * h
      /\ Quarter(c, q).at = <<c.at[1] + (IF Right(c, q) THEN h ELSE 0), c.at[2] + (IF Below(c, q) THEN h ELSE 0)>>
      /\ Quarter(c, q).bit0 = (c.bit0 # (q = 0)) /\ Quarter(c, q).bit1 = (c.bit1 # (q = 3))
  BY <1>2 DEF Quarter, Turned
<1>4. q * h * h = q * (h * h) /\ q * (h * h) \in Nat
  <2>1. h * h \in Nat BY <1>1
  <2>2. q = 0 \/ q = 1 \/ q = 2 \/ q = 3 OBVIOUS
  <2>3. 0 * h = 0 /\ 1 * h = h /\ 2 * h = h + h /\ 3 * h = h + h + h BY <1>1
  <2>4. (h + h) * h = 2 * (h * h) /\ (h + h + h) * h = 3 * (h * h) /\ 0 * h = 0 /\ 0 * (h * h) = 0 BY <1>1
  <2> QED BY <2>1, <2>2, <2>3, <2>4
<1>5. c.base \in Nat /\ c.at[1] \in Nat /\ c.at[2] \in Nat BY DEF Cells
<1>6. Quarter(c, q).base \in Nat /\ Quarter(c, q).base = c.base + q * (h * h) BY <1>3, <1>4, <1>5
<1>7. Quarter(c, q).at \in Nat \X Nat BY <1>1, <1>3, <1>5
<1>8. Quarter(c, q).bit0 \in BOOLEAN /\ Quarter(c, q).bit1 \in BOOLEAN BY <1>3
<1>9. Quarter(c, q) = [A |-> Quarter(c, q).A, Adx |-> Quarter(c, q).Adx, Ady |-> Quarter(c, q).Ady,
                       at |-> Quarter(c, q).at, i |-> Quarter(c, q).i, base |-> Quarter(c, q).base,
                       bit0 |-> Quarter(c, q).bit0, bit1 |-> Quarter(c, q).bit1]
  BY DEF Quarter
<1>10. Quarter(c, q) \in Cells BY <1>3, <1>6, <1>7, <1>8, <1>9, QuarterEdges DEF Cells
<1> QED BY <1>3, <1>6, <1>10

LEMMA QuarterLies ==
  ASSUME Tiled, NEW c \in Cells, NEW h \in Sizes, c.i = 2 * h, NEW q \in 0 .. 3
  PROVE  /\ Quarter(c, q).at[1] = c.at[1] + (IF Right(c, q) THEN h ELSE 0)
         /\ Quarter(c, q).at[2] = c.at[2] + (IF Below(c, q) THEN h ELSE 0)
         /\ Quarter(c, q).bit0 <=> (IF q = 0 THEN ~c.bit0 ELSE c.bit0)
         /\ Quarter(c, q).bit1 <=> (IF q = 3 THEN ~c.bit1 ELSE c.bit1)
<1>1. h \in Nat /\ h > 0 BY DEF Sizes
<1>2. c.i \div 2 = h BY <1>1
<1>3. c.bit0 \in BOOLEAN /\ c.bit1 \in BOOLEAN BY DEF Cells
<1>4. Quarter(c, q).bit0 = (c.bit0 # (q = 0)) /\ Quarter(c, q).bit1 = (c.bit1 # (q = 3))
  BY DEF Quarter, Turned
<1>5. Quarter(c, q).bit0 <=> (IF q = 0 THEN ~c.bit0 ELSE c.bit0) BY <1>3, <1>4
<1>6. Quarter(c, q).bit1 <=> (IF q = 3 THEN ~c.bit1 ELSE c.bit1) BY <1>3, <1>4
<1>7. /\ Quarter(c, q).at[1] = c.at[1] + (IF Right(c, q) THEN h ELSE 0)
      /\ Quarter(c, q).at[2] = c.at[2] + (IF Below(c, q) THEN h ELSE 0)
  BY <1>2 DEF Quarter
<1> QED BY <1>5, <1>6, <1>7

\* The parts of the curve in the four quarters follow on one another.
LEMMA RunsFollow ==
  ASSUME Even, Tiled, NEW c \in Cells, c.i # 1
  PROVE  /\ \A q \in 0 .. 3 : /\ Quarter(c, q) \in Cells
                              /\ Quarter(c, q).i < c.i
                              /\ Run(Quarter(c, q)) \subseteq Run(c)
                              /\ Run(Quarter(c, q)) \subseteq Nat
         /\ \A n \in Run(c) : \E q \in 0 .. 3 : n \in Run(Quarter(c, q))
         /\ \A p, q \in 0 .. 3 : p < q =>
              \A m \in Run(Quarter(c, p)), n \in Run(Quarter(c, q)) : m < n
<1>1. PICK h \in Sizes : h \in Nat /\ h > 0 /\ c.i = 2 * h /\ h < c.i BY Halves
<1>2. PICK H \in Nat : H = h * h /\ H > 0
  <2>1. h * h \in Nat /\ h * h > 0 BY <1>1
  <2> QED BY <2>1
<1>3. PICK b \in Nat : b = c.base BY DEF Cells
<1>4. c.i * c.i = 4 * H BY <1>1, <1>2
<1>5. ASSUME NEW q \in 0 .. 3
      PROVE  Quarter(c, q) \in Cells /\ Quarter(c, q).i = h /\ Quarter(c, q).base = b + q * H
  <2>1. /\ Quarter(c, q) \in Cells /\ Quarter(c, q).i = h
        /\ Quarter(c, q).base = c.base + q * (h * h)
    BY <1>1, QuarterIsCell
  <2> QED BY <1>2, <1>3, <2>1
<1>6. Run(c) = b .. (b + 4 * H - 1) BY <1>3, <1>4 DEF Run
<1>7. \A q \in 0 .. 3 : Run(Quarter(c, q)) = (b + q * H) .. (b + q * H + H - 1)
  BY <1>2, <1>5 DEF Run
<1>8. /\ Run(Quarter(c, 0)) = b .. (b + H - 1)
      /\ Run(Quarter(c, 1)) = (b + H) .. (b + 2 * H - 1)
      /\ Run(Quarter(c, 2)) = (b + 2 * H) .. (b + 3 * H - 1)
      /\ Run(Quarter(c, 3)) = (b + 3 * H) .. (b + 4 * H - 1)
  BY <1>7
<1>9. ASSUME NEW q \in 0 .. 3
      PROVE  Run(Quarter(c, q)) \subseteq Run(c) /\ Run(Quarter(c, q)) \subseteq Nat
  <2>1. q = 0 \/ q = 1 \/ q = 2 \/ q = 3 OBVIOUS
  <2>2. /\ b .. (b + H - 1) \subseteq Run(c) /\ (b + H) .. (b + 2 * H - 1) \subseteq Run(c)
        /\ (b + 2 * H) .. (b + 3 * H - 1) \subseteq Run(c)
        /\ (b + 3 * H) .. (b + 4 * H - 1) \subseteq Run(c) /\ Run(c) \subseteq Nat
    BY <1>6
  <2> QED BY <1>8, <2>1, <2>2
<1>10. ASSUME NEW n \in Run(c) PROVE \E q \in 0 .. 3 : n \in Run(Quarter(c, q))
  BY <1>6, <1>8, <1>10
<1>11. ASSUME NEW p \in 0 .. 3, NEW q \in 0 .. 3, p < q,
              NEW m \in Run(Quarter(c, p)), NEW n \in Run(Quarter(c, q))
       PROVE  m < n
  <2>1. p = 0 \/ p = 1 \/ p = 2 BY <1>11
  <2>2. q = 1 \/ q = 2 \/ q = 3 BY <1>11
  <2> QED BY <1>8, <1>11, <2>1, <2>2
<1> QED BY <1>1, <1>5, <1>9, <1>10, <1>11

LEMMA RootIsCell ==
  ASSUME Tiled, NEW t, t.A \in Edges, t.Adx \in Edges, t.Ady \in Edges
  PROVE  Root(t) \in Cells
<1>1. Across * 1 = Across /\ Across \in 1 .. Across /\ 1 \in 1 .. Across BY DEF Tiled
<1>2. Across \in Sizes BY <1>1 DEF Sizes
<1> QED BY <1>2 DEF Root, Cells

\* Squares up to a size.
Upward(n) == {c \in Cells : c.i <= n}

LEMMA AllSizes ==
  ASSUME Even, Tiled
  PROVE  /\ Upward(0) = {} /\ Upward(Across) = Cells /\ Across \in Nat
         /\ \A n \in Nat : /\ Upward(n) \subseteq Upward(n + 1)
                           /\ \A c \in Upward(n + 1), q \in 0 .. 3 : c.i # 1 => Quarter(c, q) \in Upward(n)
<1>1. \A c \in Cells : c.i \in 1 .. Across BY DEF Cells, Sizes
<1>2. Across \in Nat BY DEF Tiled
<1>3. Upward(0) = {} /\ Upward(Across) = Cells BY <1>1, <1>2 DEF Upward
<1>4. ASSUME NEW n \in Nat, NEW c \in Upward(n + 1), NEW q \in 0 .. 3, c.i # 1
      PROVE  Quarter(c, q) \in Upward(n)
  <2>1. c \in Cells /\ c.i <= n + 1 /\ c.i \in Nat BY <1>1 DEF Upward
  <2>2. Quarter(c, q) \in Cells /\ Quarter(c, q).i < c.i BY <1>4, <2>1, RunsFollow
  <2>3. Quarter(c, q).i \in Nat BY <1>1, <2>2
  <2> QED BY <2>1, <2>2, <2>3 DEF Upward
<1>5. \A n \in Nat : Upward(n) \subseteq Upward(n + 1) BY <1>1 DEF Upward
<1> QED BY <1>2, <1>3, <1>4, <1>5

-----------------------------------------------------------------------------
(* The recursive functions of the two searches and of the curve exist: each *)
(* is built size by size, since a square needs its value at the quarters    *)
(* only.                                                                    *)

First(f, c, q, start, end) ==
  IF Overlaps(Quarter(c, q), start, end) THEN f[Quarter(c, q)] ELSE -1

FindStep(f, c, start, end) ==
  IF Outside(c.A, c.Adx, c.Ady) THEN -1
  ELSE IF c.i = 1 THEN c.base
  ELSE IF First(f, c, 0, start, end) >= 0 THEN First(f, c, 0, start, end)
  ELSE IF First(f, c, 1, start, end) >= 0 THEN First(f, c, 1, start, end)
  ELSE IF First(f, c, 2, start, end) >= 0 THEN First(f, c, 2, start, end)
  ELSE First(f, c, 3, start, end)

FindRec(f, S, start, end) == f = [c \in S |-> FindStep(f, c, start, end)]
Find(start, end) == CHOOSE f : FindRec(f, Cells, start, end)

LEMMA FindIs ==
  ASSUME NEW root, NEW start, NEW end
  PROVE  findFirstTile(root, start, end) = Find(start, end)[root]
BY DEF findFirstTile, Find, FindRec, FindStep, First

LEMMA FindStepNeeds ==
  ASSUME NEW f, NEW g, NEW c, NEW start, NEW end,
         c.i # 1 => \A q \in 0 .. 3 : f[Quarter(c, q)] = g[Quarter(c, q)]
  PROVE  FindStep(f, c, start, end) = FindStep(g, c, start, end)
<1>1. CASE c.i = 1 BY <1>1 DEF FindStep
<1>2. CASE c.i # 1
  <2>1. 0 \in 0 .. 3 /\ 1 \in 0 .. 3 /\ 2 \in 0 .. 3 /\ 3 \in 0 .. 3 OBVIOUS
  <2>2. /\ f[Quarter(c, 0)] = g[Quarter(c, 0)] /\ f[Quarter(c, 1)] = g[Quarter(c, 1)]
        /\ f[Quarter(c, 2)] = g[Quarter(c, 2)] /\ f[Quarter(c, 3)] = g[Quarter(c, 3)]
    BY <1>2, <2>1
  <2>3. \A q \in 0 .. 3 : First(f, c, q, start, end) = First(g, c, q, start, end)
    BY <1>2 DEF First
  <2> QED BY <2>1, <2>3 DEF FindStep
<1> QED BY <1>1, <1>2

LEMMA FindExists ==
  ASSUME Even, Tiled, NEW start, NEW end
  PROVE  \A c \in Cells : Find(start, end)[c] = FindStep(Find(start, end), c, start, end)
<1> DEFINE S == {n \in Nat : \E f : FindRec(f, Upward(n), start, end)}
<1>1. 0 \in S
  <2>1. FindRec([c \in Upward(0) |-> 0], Upward(0), start, end) BY AllSizes DEF FindRec
  <2> QED BY <2>1
<1>2. ASSUME NEW n \in Nat, n \in S PROVE n + 1 \in S
  <2>1. PICK f : FindRec(f, Upward(n), start, end) BY <1>2
  <2> DEFINE g == [c \in Upward(n + 1) |-> FindStep(f, c, start, end)]
  <2>2. \A c \in Upward(n) : f[c] = FindStep(f, c, start, end) BY <2>1 DEF FindRec
  <2>3. \A c \in Upward(n) : f[c] = g[c] BY <2>2, AllSizes
  <2>4. ASSUME NEW c \in Upward(n + 1)
        PROVE  FindStep(f, c, start, end) = FindStep(g, c, start, end)
    <3>1. c.i # 1 => \A q \in 0 .. 3 : f[Quarter(c, q)] = g[Quarter(c, q)]
      BY <2>3, AllSizes
    <3> HIDE DEF g
    <3> QED BY <3>1, FindStepNeeds
  <2>5. g = [c \in Upward(n + 1) |-> FindStep(g, c, start, end)] BY <2>4
  <2>6. FindRec(g, Upward(n + 1), start, end)
    <3> HIDE DEF g
    <3> QED BY <2>5 DEF FindRec
  <2> QED BY <2>6
<1> HIDE DEF S
<1>3. Nat \subseteq S BY <1>1, <1>2, Induct
<1>4. \E f : FindRec(f, Cells, start, end) BY <1>3, AllSizes DEF S
<1>5. FindRec(Find(start, end), Cells, start, end) BY <1>4 DEF Find
<1> QED BY <1>5 DEF FindRec

-----------------------------------------------------------------------------
(* Those of subdivide ...                                                   *)

FoundStep(f, c, blockStart, blockMax, limit) ==
  IF Outside(c.A, c.Adx, c.Ady) THEN {}
  ELSE IF c.i = 1
       THEN {[block |-> d.base - blockStart, coord |-> d.at, A |-> d.A] :
               d \in {e \in {c} : InBlock(e, blockStart, blockMax, limit)}}
  ELSE UNION {f[Quarter(c, q)] : q \in {r \in 0 .. 3 : blockMax > Quarter(c, r).base}}

FoundRec(f, S, blockStart, blockMax, limit) ==
  f = [c \in S |-> FoundStep(f, c, blockStart, blockMax, limit)]
Found(blockStart, blockMax, limit) == CHOOSE f : FoundRec(f, Cells, blockStart, blockMax, limit)

LEMMA FoundIs ==
  ASSUME NEW root, NEW blockStart, NEW blockMax, NEW limit
  PROVE  subdivide(root, blockStart, blockMax, limit) = Found(blockStart, blockMax, limit)[root]
BY DEF subdivide, Found, FoundRec, FoundStep

LEMMA FoundStepNeeds ==
  ASSUME NEW f, NEW g, NEW c, NEW blockStart, NEW blockMax, NEW limit,
         c.i # 1 => \A q \in 0 .. 3 : f[Quarter(c, q)] = g[Quarter(c, q)]
  PROVE  FoundStep(f, c, blockStart, blockMax, limit) = FoundStep(g, c, blockStart, blockMax, limit)
<1>1. CASE c.i = 1 BY <1>1 DEF FoundStep
<1>2. CASE c.i # 1
  <2>1. {f[Quarter(c, q)] : q \in {r \in 0 .. 3 : blockMax > Quarter(c, r).base}}
          = {g[Quarter(c, q)] : q \in {r \in 0 .. 3 : blockMax > Quarter(c, r).base}}
    BY <1>2
  <2> QED BY <1>2, <2>1 DEF FoundStep
<1> QED BY <1>1, <1>2

LEMMA FoundExists ==
  ASSUME Even, Tiled, NEW blockStart, NEW blockMax, NEW limit
  PROVE  \A c \in Cells : Found(blockStart, blockMax, limit)[c]
                            = FoundStep(Found(blockStart, blockMax, limit), c, blockStart, blockMax, limit)
<1> DEFINE Rec(f, T) == FoundRec(f, T, blockStart, blockMax, limit)
           Step(f, c) == FoundStep(f, c, blockStart, blockMax, limit)
           S == {n \in Nat : \E f : Rec(f, Upward(n))}
<1>1. 0 \in S
  <2>1. Rec([c \in Upward(0) |-> 0], Upward(0)) BY AllSizes DEF FoundRec
  <2> QED BY <2>1
<1>2. ASSUME NEW n \in Nat, n \in S PROVE n + 1 \in S
  <2>1. PICK f : Rec(f, Upward(n)) BY <1>2
  <2> DEFINE g == [c \in Upward(n + 1) |-> Step(f, c)]
  <2>2. \A c \in Upward(n) : f[c] = Step(f, c) BY <2>1 DEF FoundRec
  <2>3. \A c \in Upward(n) : f[c] = g[c] BY <2>2, AllSizes
  <2>4. ASSUME NEW c \in Upward(n + 1) PROVE Step(f, c) = Step(g, c)
    <3>1. c.i # 1 => \A q \in 0 .. 3 : f[Quarter(c, q)] = g[Quarter(c, q)]
      BY <2>3, AllSizes
    <3> HIDE DEF g
    <3> QED BY <3>1, FoundStepNeeds
  <2>5. g = [c \in Upward(n + 1) |-> Step(g, c)] BY <2>4
  <2>6. Rec(g, Upward(n + 1))
    <3> HIDE DEF g
    <3> QED BY <2>5 DEF FoundRec
  <2> QED BY <2>6
<1> HIDE DEF S
<1>3. Nat \subseteq S BY <1>1, <1>2, Induct
<1>4. \E f : Rec(f, Cells) BY <1>3, AllSizes DEF S
<1>5. Rec(Found(blockStart, blockMax, limit), Cells) BY <1>4 DEF Found
<1> QED BY <1>5 DEF FoundRec

-----------------------------------------------------------------------------
(* ... and of the curve.                                                    *)

\* The quarter whose part of the curve a tile is in.
QuarterOf(c, n) == CHOOSE q \in 0 .. 3 : n \in Run(Quarter(c, q))

PlaceStep(f, c) ==
  [h \in Run(c) |->
     IF c.i = 1 THEN c.at
     ELSE f[Quarter(c, CHOOSE q \in 0 .. 3 : h \in Run(Quarter(c, q)))][h]]
PlaceRec(f, S) == f = [c \in S |-> PlaceStep(f, c)]
Placing == CHOOSE f : PlaceRec(f, Cells)

Flat == [A |-> [k \in Corners |-> 0], Adx |-> [k \in Corners |-> 0], Ady |-> [k \in Corners |-> 0]]

LEMMA PlacesIs == Places = Placing[Root(Flat)]
BY DEF Places, Placing, PlaceRec, PlaceStep, Flat

LEMMA QuarterOfIs ==
  ASSUME Even, Tiled, NEW c \in Cells, c.i # 1
  PROVE  /\ \A n \in Run(c) : QuarterOf(c, n) \in 0 .. 3 /\ n \in Run(Quarter(c, QuarterOf(c, n)))
         /\ \A q \in 0 .. 3 : \A n \in Run(Quarter(c, q)) : n \in Run(c) /\ QuarterOf(c, n) = q
<1>1. ASSUME NEW n \in Run(c)
      PROVE  QuarterOf(c, n) \in 0 .. 3 /\ n \in Run(Quarter(c, QuarterOf(c, n)))
  <2>1. \E q \in 0 .. 3 : n \in Run(Quarter(c, q)) BY RunsFollow
  <2> QED BY <2>1 DEF QuarterOf
<1>2. ASSUME NEW q \in 0 .. 3, NEW n \in Run(Quarter(c, q))
      PROVE  n \in Run(c) /\ QuarterOf(c, n) = q
  <2>1. n \in Run(c) /\ n \in Nat BY RunsFollow
  <2>2. PICK p \in 0 .. 3 : p = QuarterOf(c, n) /\ n \in Run(Quarter(c, p)) BY <1>1, <2>1
  <2>3. ~(p < q) /\ ~(q < p)
    <3>1. \A a, b \in 0 .. 3 : a < b =>
            \A m \in Run(Quarter(c, a)), l \in Run(Quarter(c, b)) : m < l
      BY RunsFollow
    <3> QED BY <2>1, <2>2, <3>1
  <2> QED BY <2>1, <2>2, <2>3
<1> QED BY <1>1, <1>2

LEMMA PlaceStepNeeds ==
  ASSUME Even, Tiled, NEW f, NEW g, NEW c \in Cells,
         c.i # 1 => \A q \in 0 .. 3 : f[Quarter(c, q)] = g[Quarter(c, q)]
  PROVE  PlaceStep(f, c) = PlaceStep(g, c)
<1>1. CASE c.i = 1 BY <1>1 DEF PlaceStep
<1>2. CASE c.i # 1
  <2>1. \A h \in Run(c) : f[Quarter(c, QuarterOf(c, h))] = g[Quarter(c, QuarterOf(c, h))]
    BY <1>2, QuarterOfIs
  <2>2. /\ PlaceStep(f, c) = [h \in Run(c) |-> f[Quarter(c, QuarterOf(c, h))][h]]
        /\ PlaceStep(g, c) = [h \in Run(c) |-> g[Quarter(c, QuarterOf(c, h))][h]]
    BY <1>2 DEF PlaceStep, QuarterOf
  <2> QED BY <2>1, <2>2
<1> QED BY <1>1, <1>2

LEMMA PlacingExists ==
  ASSUME Even, Tiled
  PROVE  \A c \in Cells : Placing[c] = PlaceStep(Placing, c)
<1> DEFINE S == {n \in Nat : \E f : PlaceRec(f, Upward(n))}
<1>1. 0 \in S
  <2>1. PlaceRec([c \in Upward(0) |-> 0], Upward(0)) BY AllSizes DEF PlaceRec
  <2> QED BY <2>1
<1>2. ASSUME NEW n \in Nat, n \in S PROVE n + 1 \in S
  <2>1. PICK f : PlaceRec(f, Upward(n)) BY <1>2
  <2> DEFINE g == [c \in Upward(n + 1) |-> PlaceStep(f, c)]
  <2>2. \A c \in Upward(n) : f[c] = PlaceStep(f, c) BY <2>1 DEF PlaceRec
  <2>3. \A c \in Upward(n) : f[c] = g[c] BY <2>2, AllSizes
  <2>4. ASSUME NEW c \in Upward(n + 1) PROVE PlaceStep(f, c) = PlaceStep(g, c)
    <3>1. c.i # 1 => \A q \in 0 .. 3 : f[Quarter(c, q)] = g[Quarter(c, q)]
      BY <2>3, AllSizes
    <3>2. c \in Cells BY DEF Upward
    <3> HIDE DEF g
    <3> QED BY <3>1, <3>2, PlaceStepNeeds
  <2>5. g = [c \in Upward(n + 1) |-> PlaceStep(g, c)] BY <2>4
  <2>6. PlaceRec(g, Upward(n + 1))
    <3> HIDE DEF g
    <3> QED BY <2>5 DEF PlaceRec
  <2> QED BY <2>6
<1> HIDE DEF S
<1>3. Nat \subseteq S BY <1>1, <1>2, Induct
<1>4. \E f : PlaceRec(f, Cells) BY <1>3, AllSizes DEF S
<1>5. PlaceRec(Placing, Cells) BY <1>4 DEF Placing
<1> QED BY <1>5 DEF PlaceRec

\* Where the tiles of a square lie: at the square, if it is one tile, or where they lie in
\* their quarter.
LEMMA PlacingSteps ==
  ASSUME Even, Tiled, NEW c \in Cells
  PROVE  /\ c.i = 1 => Run(c) = {c.base} /\ Placing[c][c.base] = c.at
         /\ c.i # 1 => \A q \in 0 .. 3 : \A n \in Run(Quarter(c, q)) :
                         n \in Run(c) /\ Placing[c][n] = Placing[Quarter(c, q)][n]
<1>1. Placing[c] = PlaceStep(Placing, c) BY PlacingExists
<1>2. ASSUME c.i = 1 PROVE Run(c) = {c.base} /\ Placing[c][c.base] = c.at
  <2>1. c.base \in Nat BY DEF Cells
  <2>2. Run(c) = {c.base} BY <1>2, <2>1 DEF Run
  <2> QED BY <1>1, <1>2, <2>2 DEF PlaceStep
<1>3. ASSUME c.i # 1, NEW q \in 0 .. 3, NEW n \in Run(Quarter(c, q))
      PROVE  n \in Run(c) /\ Placing[c][n] = Placing[Quarter(c, q)][n]
  <2>1. n \in Run(c) /\ QuarterOf(c, n) = q BY <1>3, QuarterOfIs
  <2>2. PlaceStep(Placing, c) = [h \in Run(c) |-> Placing[Quarter(c, QuarterOf(c, h))][h]]
    BY <1>3 DEF PlaceStep, QuarterOf
  <2> QED BY <1>1, <2>1, <2>2
<1> QED BY <1>2, <1>3

-----------------------------------------------------------------------------
(* The squares of a search are squares of the curve of the screen.          *)

\* Two squares with the same part of the curve: they may differ in the values of edges.
SamePath(c, d) == c.at = d.at /\ c.i = d.i /\ c.base = d.base /\ c.bit0 = d.bit0 /\ c.bit1 = d.bit1

\* The tiles of a square lie where the curve of the screen has them.
Located(c) ==
  \E d \in Cells : /\ SamePath(c, d)
                   /\ d.base + d.i * d.i <= ScreenTiles
                   /\ \A n \in Run(d) : Placing[d][n] = Places[n]

LEMMA RootLocated ==
  ASSUME Even, Tiled, NEW t
  PROVE  Located(Root(t))
<1>1. Flat.A \in Edges /\ Flat.Adx \in Edges /\ Flat.Ady \in Edges BY DEF Flat, Edges
<1>2. Root(Flat) \in Cells BY <1>1, RootIsCell
<1>3. SamePath(Root(t), Root(Flat)) BY DEF SamePath, Root
<1>4. Root(Flat).base + Root(Flat).i * Root(Flat).i <= ScreenTiles
  <2>1. Root(Flat).base = 0 /\ Root(Flat).i = Across BY DEF Root
  <2>2. Across * Across \in Nat BY DEF Tiled
  <2> QED BY <2>1, <2>2 DEF ScreenTiles
<1>5. \A n \in Run(Root(Flat)) : Placing[Root(Flat)][n] = Places[n] BY PlacesIs
<1> QED BY <1>2, <1>3, <1>4, <1>5 DEF Located

LEMMA QuarterOfSamePath ==
  ASSUME NEW c, NEW d, SamePath(c, d), NEW q \in 0 .. 3
  PROVE  SamePath(Quarter(c, q), Quarter(d, q))
<1>1. Right(c, q) <=> Right(d, q) BY DEF SamePath, Right
<1>2. Below(c, q) <=> Below(d, q) BY DEF SamePath, Below
<1> QED BY <1>1, <1>2 DEF SamePath, Quarter, Turned

LEMMA QuarterLocated ==
  ASSUME Even, Tiled, NEW c, c.i # 1, Located(c), NEW q \in 0 .. 3
  PROVE  Located(Quarter(c, q))
<1>1. PICK d \in Cells : /\ SamePath(c, d)
                         /\ d.base + d.i * d.i <= ScreenTiles
                         /\ \A n \in Run(d) : Placing[d][n] = Places[n]
  BY DEF Located
<1>2. d.i # 1 BY <1>1 DEF SamePath
<1>3. Quarter(d, q) \in Cells BY <1>2, RunsFollow
<1>4. SamePath(Quarter(c, q), Quarter(d, q)) BY <1>1, QuarterOfSamePath
<1>5. \A n \in Run(Quarter(d, q)) : Placing[Quarter(d, q)][n] = Places[n]
  BY <1>1, <1>2, PlacingSteps
<1>6. Quarter(d, q).base + Quarter(d, q).i * Quarter(d, q).i <= ScreenTiles
  <2>1. PICK h \in Sizes : h \in Nat /\ h > 0 /\ d.i = 2 * h /\ h < d.i BY <1>2, Halves
  <2>2. Quarter(d, q).i = h /\ Quarter(d, q).base = d.base + q * (h * h) BY <2>1, QuarterIsCell
  <2>3. PICK H \in Nat : H = h * h BY <2>1
  <2>4. d.i * d.i = 4 * H BY <2>1, <2>3
  <2>5. d.base \in Nat BY DEF Cells
  <2>6. q * H + H <= 4 * H
    <3>1. q = 0 \/ q = 1 \/ q = 2 \/ q = 3 OBVIOUS
    <3> QED BY <3>1
  <2>7. ScreenTiles \in Int BY DEF ScreenTiles, Tiled
  <2> QED BY <1>1, <2>2, <2>3, <2>4, <2>5, <2>6, <2>7
<1> QED BY <1>3, <1>4, <1>5, <1>6 DEF Located

LEMMA TileLocated ==
  ASSUME Even, Tiled, NEW c \in Cells, c.i = 1, Located(c)
  PROVE  Run(c) = {c.base} /\ Places[c.base] = c.at
<1>1. PICK d \in Cells : SamePath(c, d) /\ \A n \in Run(d) : Placing[d][n] = Places[n]
  BY DEF Located
<1>2. d.i = 1 /\ d.base = c.base /\ d.at = c.at BY <1>1 DEF SamePath
<1>3. Run(d) = {d.base} /\ Placing[d][d.base] = d.at BY <1>2, PlacingSteps
<1>4. Run(c) = {c.base} BY PlacingSteps
<1> QED BY <1>1, <1>2, <1>3, <1>4

LEMMA LocatedRun ==
  ASSUME Tiled, NEW c \in Cells, Located(c)
  PROVE  Run(c) \subseteq 0 .. (ScreenTiles - 1)
<1>1. c.base + c.i * c.i <= ScreenTiles BY DEF Located, SamePath
<1>2. c.base \in Nat /\ c.i \in Nat BY DEF Cells, Sizes
<1>3. c.i * c.i \in Nat BY <1>2
<1>4. ScreenTiles \in Int BY DEF ScreenTiles, Tiled
<1> QED BY <1>1, <1>2, <1>3, <1>4 DEF Run

\* A square as the search for a triangle meets it.
Met(c, v) == c \in Cells /\ Exact(c, v) /\ Located(c)

LEMMA RootMet ==
  ASSUME Even, Tiled, Clamped, NEW v \in ClampedTriangles
  PROVE  Met(Root(imp_triangle(v)), v)
<1>1. Side \in Int BY DEF Clamped
<1>2. \A k \in Corners : dx(v, k) \in Int /\ dy(v, k) \in Int
  <2> TAKE k \in Corners
  <2> QED BY CrossIsLinear
<1>3. imp_triangle(v).Adx \in Edges /\ imp_triangle(v).Ady \in Edges
  BY <1>1, <1>2 DEF imp_triangle, Edges
<1>4. imp_triangle(v).A \in Edges
  <2>1. \A k \in Corners : imp_triangle(v).A[k] \in Int
    <3> TAKE k \in Corners
    <3>1. imp_triangle(v).A[k] = Cross(v, k, 0, 0) BY FirstValuesAreExact
    <3>2. Cross(v, k, 0, 0) \in Int BY CrossIsLinear
    <3> QED BY <3>1, <3>2
  <2>2. imp_triangle(v).A = [k \in Corners |-> imp_triangle(v).A[k]] BY DEF imp_triangle
  <2> QED BY <2>1, <2>2 DEF Edges
<1>5. Root(imp_triangle(v)) \in Cells BY <1>3, <1>4, RootIsCell
<1> QED BY <1>5, RootLocated, RootIsExact DEF Met

LEMMA QuarterMet ==
  ASSUME Even, Tiled, Clamped, NEW v \in ClampedTriangles, NEW c, Met(c, v), c.i # 1, NEW q \in 0 .. 3
  PROVE  Met(Quarter(c, q), v)
<1>1. c \in Cells /\ Exact(c, v) /\ Located(c) BY DEF Met
<1>2. PICK h \in Sizes : h \in Nat /\ h > 0 /\ c.i = 2 * h BY <1>1, Halves
<1>3. Exact(Quarter(c, q), v) BY <1>1, <1>2, QuarterIsExact
<1>4. Quarter(c, q) \in Cells BY <1>1, RunsFollow
<1> QED BY <1>1, <1>3, <1>4, QuarterLocated DEF Met

\* The triangle touches no tile of a square that has an edge with all four corners on its
\* outer side: a search that leaves it out loses nothing.
THEOREM NothingIsLost ==
  ASSUME Even, Tiled, Clamped, NEW v \in ClampedTriangles,
         NEW c, Met(c, v), Outside(c.A, c.Adx, c.Ady)
  PROVE  \A n \in Run(c) : ~Touches(v, Places[n])
<1> DEFINE S == {m \in Nat : \A d \in Upward(m) :
                   Met(d, v) /\ Outside(d.A, d.Adx, d.Ady) => \A n \in Run(d) : ~Touches(v, Places[n])}
<1>1. 0 \in S BY AllSizes
<1>2. ASSUME NEW m \in Nat, m \in S PROVE m + 1 \in S
  <2> SUFFICES ASSUME NEW d \in Upward(m + 1), Met(d, v), Outside(d.A, d.Adx, d.Ady), NEW n \in Run(d)
               PROVE  ~Touches(v, Places[n])
    OBVIOUS
  <2>1. d \in Cells /\ Exact(d, v) /\ Located(d) BY DEF Met
  <2>2. CASE d.i = 1
    <3>1. n = d.base /\ Places[n] = d.at BY <2>1, <2>2, TileLocated
    <3> QED BY <2>1, <2>2, <3>1, TileIsExact
  <2>3. CASE d.i # 1
    <3>1. PICK q \in 0 .. 3 : n \in Run(Quarter(d, q)) BY <2>1, <2>3, RunsFollow
    <3>2. Met(Quarter(d, q), v) BY <2>3, QuarterMet
    <3>3. Fits(d) BY <2>1, ExactFits
    <3>4. Outside(Quarter(d, q).A, Quarter(d, q).Adx, Quarter(d, q).Ady)
      BY <2>1, <3>3, OutsideIsInherited
    <3>5. Quarter(d, q) \in Upward(m) BY <2>3, AllSizes
    <3> QED BY <1>2, <3>1, <3>2, <3>4, <3>5
  <2> QED BY <2>2, <2>3
<1> HIDE DEF S
<1>3. Nat \subseteq S BY <1>1, <1>2, Induct
<1>4. c \in Upward(Across) /\ Across \in S BY <1>3, AllSizes DEF Met
<1> QED BY <1>4 DEF S

-----------------------------------------------------------------------------
(* The first tile.                                                          *)

\* The tiles of a square that are in start .. end - 1 and that the triangle touches.
Wanted(v, c, start, end) == {n \in Run(c) : start <= n /\ n < end /\ Touches(v, Places[n])}

\* The least of a set of tiles, or -1.
IsFirst(n, W) == IF W = {} THEN n = -1 ELSE n \in W /\ \A m \in W : n <= m

LEMMA FirstOfQuarters ==
  ASSUME Even, Tiled, NEW v, NEW c \in Cells, c.i # 1, NEW start \in Int, NEW end \in Int,
         NEW x, \A q \in 0 .. 3 : IsFirst(x[q], Wanted(v, Quarter(c, q), start, end))
  PROVE  IsFirst(IF x[0] >= 0 THEN x[0] ELSE IF x[1] >= 0 THEN x[1] ELSE IF x[2] >= 0 THEN x[2] ELSE x[3],
                 Wanted(v, c, start, end))
<1> DEFINE W(q) == Wanted(v, Quarter(c, q), start, end)
           A == Wanted(v, c, start, end)
<1>1. \A q \in 0 .. 3 : Run(Quarter(c, q)) \subseteq Run(c) /\ Run(Quarter(c, q)) \subseteq Nat
  BY RunsFollow
<1>2. \A q \in 0 .. 3 : W(q) \subseteq A /\ W(q) \subseteq Nat BY <1>1 DEF Wanted
<1>3. \A n \in A : \E q \in 0 .. 3 : n \in W(q) BY RunsFollow DEF Wanted
<1>4. \A p, q \in 0 .. 3 : p < q => \A m \in W(p), n \in W(q) : m < n
  BY RunsFollow DEF Wanted
<1>5. \A q \in 0 .. 3 : \/ W(q) = {} /\ x[q] = -1
                        \/ W(q) # {} /\ x[q] \in W(q) /\ \A m \in W(q) : x[q] <= m
  BY DEF IsFirst
<1> HIDE DEF W, A
<1>6. \A q \in 0 .. 3 : x[q] >= 0 <=> W(q) # {} BY <1>2, <1>5
<1>7. 0 \in 0 .. 3 /\ 1 \in 0 .. 3 /\ 2 \in 0 .. 3 /\ 3 \in 0 .. 3 OBVIOUS
<1>8. ASSUME NEW q \in 0 .. 3, x[q] >= 0, \A p \in 0 .. 3 : p < q => ~(x[p] >= 0)
      PROVE  IsFirst(x[q], A)
  <2>1. x[q] \in W(q) /\ x[q] \in A /\ \A m \in W(q) : x[q] <= m BY <1>2, <1>5, <1>6, <1>8
  <2>2. ASSUME NEW n \in A PROVE x[q] <= n
    <3>1. PICK p \in 0 .. 3 : n \in W(p) BY <1>3
    <3>2. ~(p < q) BY <1>6, <1>8, <3>1
    <3>3. x[q] \in Nat /\ n \in Nat BY <1>2, <2>1, <3>1
    <3>4. CASE p = q BY <2>1, <3>1, <3>4
    <3>5. CASE q < p BY <1>4, <2>1, <3>1, <3>3, <3>5
    <3> QED BY <3>2, <3>4, <3>5
  <2> QED BY <2>1, <2>2 DEF IsFirst
<1>9. ASSUME \A p \in 0 .. 3 : ~(x[p] >= 0) PROVE IsFirst(x[3], A)
  <2>1. \A p \in 0 .. 3 : W(p) = {} BY <1>6, <1>9
  <2>2. A = {} /\ x[3] = -1 BY <1>3, <1>5, <1>7, <2>1
  <2> QED BY <2>2 DEF IsFirst
<1>10. CASE x[0] >= 0 BY <1>7, <1>8, <1>10 DEF A
<1>11. CASE ~(x[0] >= 0) /\ x[1] >= 0
  <2>1. IsFirst(x[1], A) BY <1>7, <1>8, <1>11
  <2> QED BY <1>11, <2>1 DEF A
<1>12. CASE ~(x[0] >= 0) /\ ~(x[1] >= 0) /\ x[2] >= 0
  <2>1. IsFirst(x[2], A)
    <3>1. \A p \in 0 .. 3 : p < 2 => p = 0 \/ p = 1 OBVIOUS
    <3> QED BY <1>7, <1>8, <1>12, <3>1
  <2> QED BY <1>12, <2>1 DEF A
<1>13. CASE ~(x[0] >= 0) /\ ~(x[1] >= 0) /\ ~(x[2] >= 0)
  <2>1. IsFirst(x[3], A)
    <3>1. \A p \in 0 .. 3 : p < 3 => p = 0 \/ p = 1 \/ p = 2 OBVIOUS
    <3>2. \A p \in 0 .. 3 : p < 3 \/ p = 3 OBVIOUS
    <3>3. CASE x[3] >= 0 BY <1>7, <1>8, <1>13, <3>1, <3>3
    <3>4. CASE ~(x[3] >= 0) BY <1>9, <1>13, <3>1, <3>2, <3>4
    <3> QED BY <3>3, <3>4
  <2> QED BY <1>13, <2>1 DEF A
<1> QED BY <1>10, <1>11, <1>12, <1>13

LEMMA FindIsFirst ==
  ASSUME Even, Tiled, Clamped, NEW v \in ClampedTriangles, NEW start \in Int, NEW end \in Int,
         NEW c, Met(c, v), Overlaps(c, start, end)
  PROVE  IsFirst(Find(start, end)[c], Wanted(v, c, start, end))
<1> DEFINE f == Find(start, end)
           S == {m \in Nat : \A d \in Upward(m) :
                   Met(d, v) /\ Overlaps(d, start, end) => IsFirst(f[d], Wanted(v, d, start, end))}
<1>1. 0 \in S BY AllSizes
<1>2. ASSUME NEW m \in Nat, m \in S PROVE m + 1 \in S
  <2> SUFFICES ASSUME NEW d \in Upward(m + 1), Met(d, v), Overlaps(d, start, end)
               PROVE  IsFirst(f[d], Wanted(v, d, start, end))
    OBVIOUS
  <2>1. d \in Cells /\ Exact(d, v) /\ Located(d) /\ d.base \in Nat BY DEF Met, Cells
  <2>2. f[d] = FindStep(f, d, start, end) BY <2>1, FindExists
  <2> HIDE DEF f
  <2>3. CASE Outside(d.A, d.Adx, d.Ady)
    <3>1. Wanted(v, d, start, end) = {} BY <2>3, NothingIsLost DEF Wanted
    <3> QED BY <2>2, <2>3, <3>1 DEF FindStep, IsFirst
  <2>4. CASE ~Outside(d.A, d.Adx, d.Ady) /\ d.i = 1
    <3>1. Run(d) = {d.base} /\ Places[d.base] = d.at BY <2>1, <2>4, TileLocated
    <3>2. Touches(v, d.at) BY <2>1, <2>4, TileIsExact
    <3>3. start <= d.base /\ d.base < end BY <2>1, <2>4 DEF Overlaps
    <3>4. Wanted(v, d, start, end) = {d.base} BY <3>1, <3>2, <3>3 DEF Wanted
    <3>5. f[d] = d.base BY <2>2, <2>4 DEF FindStep
    <3> QED BY <2>1, <3>4, <3>5 DEF IsFirst
  <2>5. CASE ~Outside(d.A, d.Adx, d.Ady) /\ d.i # 1
    <3> DEFINE x == [q \in 0 .. 3 |-> First(f, d, q, start, end)]
    <3>1. ASSUME NEW q \in 0 .. 3 PROVE IsFirst(x[q], Wanted(v, Quarter(d, q), start, end))
      <4> DEFINE e == Quarter(d, q)
      <4>1. e \in Upward(m) /\ Met(e, v) BY <2>5, AllSizes, QuarterMet
      <4>2. CASE Overlaps(e, start, end) BY <1>2, <4>1, <4>2 DEF First, f
      <4>3. CASE ~Overlaps(e, start, end)
        <5>1. e \in Cells /\ e.base \in Nat /\ e.i \in Nat BY <4>1 DEF Met, Cells, Sizes
        <5>2. e.i * e.i \in Nat BY <5>1
        <5>3. e.base + e.i * e.i <= start \/ end <= e.base BY <4>3, <5>1, <5>2 DEF Overlaps
        <5>4. \A n \in Run(e) : n \in Int /\ e.base <= n /\ n < e.base + e.i * e.i
          BY <5>1, <5>2 DEF Run
        <5>5. Wanted(v, e, start, end) = {} BY <5>1, <5>2, <5>3, <5>4 DEF Wanted
        <5>6. x[q] = -1 BY <4>3 DEF First
        <5> QED BY <5>5, <5>6 DEF IsFirst
      <4> QED BY <4>2, <4>3
    <3>2. /\ x[0] = First(f, d, 0, start, end) /\ x[1] = First(f, d, 1, start, end)
          /\ x[2] = First(f, d, 2, start, end) /\ x[3] = First(f, d, 3, start, end)
      OBVIOUS
    <3>3. f[d] = IF x[0] >= 0 THEN x[0] ELSE IF x[1] >= 0 THEN x[1] ELSE IF x[2] >= 0 THEN x[2] ELSE x[3]
      BY <2>2, <2>5, <3>2 DEF FindStep
    <3> HIDE DEF x
    <3> QED BY <2>1, <2>5, <3>1, <3>3, FirstOfQuarters
  <2> QED BY <2>3, <2>4, <2>5
<1> HIDE DEF S
<1>3. Nat \subseteq S BY <1>1, <1>2, Induct
<1>4. c \in Upward(Across) /\ Across \in S BY <1>3, AllSizes DEF Met
<1> QED BY <1>4 DEF S

LEMMA ScreenFacts ==
  ASSUME Tiled
  PROVE  ScreenTiles \in Nat /\ ScreenTiles > 0 /\ Across \in Nat /\ Across * Across = ScreenTiles
<1>1. Across \in Nat /\ Across > 0 BY DEF Tiled
<1>2. Across * Across \in Nat /\ Across * Across > 0 BY <1>1
<1> QED BY <1>1, <1>2 DEF ScreenTiles

LEMMA WindowFound ==
  ASSUME Even, Tiled, Clamped, NEW v \in ClampedTriangles, NEW w \in Windows
  PROVE  IsFirst(findFirstTriangleTile(imp_triangle(v), w[1], w[2]), TouchedTiles(v) \cap (w[1] .. w[2]))
<1> DEFINE c == Root(imp_triangle(v))
<1>1. PICK a, b \in 0 .. (ScreenTiles - 1) : w = <<a, b>> /\ a <= b BY DEF Windows
<1>2. c.base = 0 /\ c.i = Across BY DEF Root
<1>3. Met(c, v) BY RootMet
<1> HIDE DEF c
<1>4. Overlaps(c, a, b + 1) BY <1>1, <1>2, ScreenFacts DEF Overlaps
<1>5. IsFirst(Find(a, b + 1)[c], Wanted(v, c, a, b + 1)) BY <1>1, <1>3, <1>4, FindIsFirst
<1>6. Run(c) = 0 .. (ScreenTiles - 1) BY <1>2, ScreenFacts DEF Run
<1>7. Wanted(v, c, a, b + 1) = TouchedTiles(v) \cap (a .. b)
  BY <1>1, <1>6, ScreenFacts DEF Wanted, TouchedTiles
<1>8. findFirstTriangleTile(imp_triangle(v), a, b) = Find(a, b + 1)[c]
  BY FindIs DEF findFirstTriangleTile, c
<1> QED BY <1>1, <1>5, <1>7, <1>8

\* The vertices of the model are clamped.
LEMMA VerticesAreClamped ==
  ASSUME Clamped
  PROVE  Vertices \subseteq ClampedTriangles
BY DEF Clamped, Vertices, ClampedTriangles

\* Whatever squares it leaves out, and whatever the sums of imp_triangle lose, the search
\* of a chunk finds the first tile of it that the triangle touches (cacheline.c:292,
\* subdivide.c:215-276): for a screen of any power of two of tiles, and all vertices that
\* spu_convts can give.
THEOREM FirstTileFound == FirstTileIsFirst
<1> USE TileSearchAssumption
<1> SUFFICES ASSUME NEW v \in Triangles, NEW w \in Windows
             PROVE  findFirstTriangleTile(imp_triangle(v), w[1], w[2]) =
                      IF TouchedTiles(v) \cap (w[1] .. w[2]) = {} THEN -1
                      ELSE Least(TouchedTiles(v) \cap (w[1] .. w[2]))
  BY DEF FirstTileIsFirst
<1> DEFINE W == TouchedTiles(v) \cap (w[1] .. w[2])
           n == findFirstTriangleTile(imp_triangle(v), w[1], w[2])
<1>1. v \in ClampedTriangles BY VerticesAreClamped DEF Triangles
<1>2. IsFirst(n, W) BY <1>1, WindowFound
<1>3. W \subseteq Nat BY ScreenFacts DEF TouchedTiles
<1> HIDE DEF W, n
<1>4. CASE W = {} BY <1>2, <1>4 DEF IsFirst, W, n
<1>5. CASE W # {}
  <2>1. n \in W /\ \A m \in W : n <= m BY <1>2, <1>5 DEF IsFirst
  <2>2. Least(W) \in W /\ \A m \in W : Least(W) <= m BY <2>1 DEF Least
  <2>3. n <= Least(W) /\ Least(W) <= n /\ n \in Nat /\ Least(W) \in Nat BY <1>3, <2>1, <2>2
  <2>4. n = Least(W) BY <2>3
  <2> QED BY <1>5, <2>4 DEF W, n
<1> QED BY <1>4, <1>5

-----------------------------------------------------------------------------
(* The tiles of a block.                                                    *)

\* What the pixel shader gets of a tile.
Shown(v, n, blockStart) ==
  [block |-> n - blockStart, coord |-> Places[n],
   A |-> [k \in Corners |-> Cross(v, k, Places[n][1] * Unit, Places[n][2] * Unit)]]

OnScreen(n, limit) == Places[n][1] <= limit[1] /\ Places[n][2] <= limit[2]

BlockOf(v, c, blockStart, blockMax, limit) ==
  {n \in Wanted(v, c, blockStart, blockMax) : OnScreen(n, limit)}

LEMMA FoundIsBlock ==
  ASSUME Even, Tiled, Clamped, NEW v \in ClampedTriangles,
         NEW blockStart \in Nat, NEW blockMax \in Nat, NEW limit, NEW c, Met(c, v), blockMax > c.base
  PROVE  Found(blockStart, blockMax, limit)[c]
           = {Shown(v, n, blockStart) : n \in BlockOf(v, c, blockStart, blockMax, limit)}
<1> DEFINE f == Found(blockStart, blockMax, limit)
           B(d) == BlockOf(v, d, blockStart, blockMax, limit)
           Is(d) == f[d] = {Shown(v, n, blockStart) : n \in B(d)}
           S == {m \in Nat : \A d \in Upward(m) : Met(d, v) /\ blockMax > d.base => Is(d)}
<1>1. 0 \in S BY AllSizes
<1>2. ASSUME NEW m \in Nat, m \in S PROVE m + 1 \in S
  <2> SUFFICES ASSUME NEW d \in Upward(m + 1), Met(d, v), blockMax > d.base PROVE Is(d)
    OBVIOUS
  <2>1. d \in Cells /\ Exact(d, v) /\ Located(d) /\ d.base \in Nat BY DEF Met, Cells
  <2>2. f[d] = FoundStep(f, d, blockStart, blockMax, limit) BY <2>1, FoundExists
  <2> HIDE DEF f
  <2>3. CASE Outside(d.A, d.Adx, d.Ady)
    <3>1. B(d) = {} BY <2>3, NothingIsLost DEF BlockOf, Wanted
    <3>2. f[d] = {} BY <2>2, <2>3 DEF FoundStep
    <3> HIDE DEF B
    <3> QED BY <3>1, <3>2
  <2>4. CASE ~Outside(d.A, d.Adx, d.Ady) /\ d.i = 1
    <3>1. Run(d) = {d.base} /\ Places[d.base] = d.at BY <2>1, <2>4, TileLocated
    <3>2. Touches(v, d.at) BY <2>1, <2>4, TileIsExact
    <3>3. d.A = [k \in Corners |-> Cross(v, k, d.at[1] * Unit, d.at[2] * Unit)]
      <4>1. d.A = [k \in Corners |-> d.A[k]] BY <2>1 DEF Cells, Edges
      <4>2. \A k \in Corners : d.A[k] = Cross(v, k, d.at[1] * Unit, d.at[2] * Unit) BY <2>1 DEF Exact
      <4> QED BY <4>1, <4>2
    <3>4. Shown(v, d.base, blockStart) = [block |-> d.base - blockStart, coord |-> d.at, A |-> d.A]
      BY <3>1, <3>3 DEF Shown
    <3>5. InBlock(d, blockStart, blockMax, limit) <=> blockStart <= d.base /\ OnScreen(d.base, limit)
      BY <2>1, <3>1 DEF InBlock, OnScreen
    <3>6. B(d) = {e \in {d.base} : InBlock(d, blockStart, blockMax, limit)}
      BY <2>1, <3>1, <3>2, <3>5 DEF BlockOf, Wanted
    <3>7. f[d] = {[block |-> g.base - blockStart, coord |-> g.at, A |-> g.A] :
                    g \in {e \in {d} : InBlock(e, blockStart, blockMax, limit)}}
      BY <2>2, <2>4 DEF FoundStep
    <3> HIDE DEF B
    <3>8. CASE InBlock(d, blockStart, blockMax, limit)
      <4>1. B(d) = {d.base} BY <3>6, <3>8
      <4>2. f[d] = {[block |-> d.base - blockStart, coord |-> d.at, A |-> d.A]} BY <3>7, <3>8
      <4> QED BY <3>4, <4>1, <4>2
    <3>9. CASE ~InBlock(d, blockStart, blockMax, limit)
      <4>1. B(d) = {} BY <3>6, <3>9
      <4>2. f[d] = {} BY <3>7, <3>9
      <4> QED BY <4>1, <4>2
    <3> QED BY <3>8, <3>9
  <2>5. CASE ~Outside(d.A, d.Adx, d.Ady) /\ d.i # 1
    <3> DEFINE Q == {r \in 0 .. 3 : blockMax > Quarter(d, r).base}
    <3>1. f[d] = UNION {f[Quarter(d, q)] : q \in Q} BY <2>2, <2>5 DEF FoundStep
    <3>2. ASSUME NEW q \in Q PROVE f[Quarter(d, q)] = {Shown(v, n, blockStart) : n \in B(Quarter(d, q))}
      <4>1. Quarter(d, q) \in Upward(m) /\ Met(Quarter(d, q), v) BY <2>5, AllSizes, QuarterMet
      <4>2. Is(Quarter(d, q)) BY <1>2, <4>1 DEF f
      <4> QED BY <4>2
    <3>3. \A q \in Q : B(Quarter(d, q)) \subseteq B(d)
      BY <2>1, <2>5, RunsFollow DEF BlockOf, Wanted
    <3>4. \A n \in B(d) : \E q \in Q : n \in B(Quarter(d, q))
      <4> TAKE n \in B(d)
      <4>1. PICK q \in 0 .. 3 : n \in Run(Quarter(d, q))
        BY <2>1, <2>5, RunsFollow DEF BlockOf, Wanted
      <4>2. n \in B(Quarter(d, q)) BY <4>1 DEF BlockOf, Wanted
      <4>3. Quarter(d, q) \in Cells BY <2>1, <2>5, RunsFollow
      <4>4. PICK b, i \in Nat : b = Quarter(d, q).base /\ i = Quarter(d, q).i
        BY <4>3 DEF Cells, Sizes
      <4>5. n \in Int /\ b <= n /\ n < blockMax
        <5>1. i * i \in Nat BY <4>4
        <5>2. n \in b .. (b + i * i - 1) BY <4>1, <4>4 DEF Run
        <5>3. n < blockMax BY DEF BlockOf, Wanted
        <5> QED BY <5>1, <5>2, <5>3
      <4>6. q \in Q BY <4>4, <4>5
      <4> QED BY <4>2, <4>6
    <3> HIDE DEF B, Q
    <3> QED BY <3>1, <3>2, <3>3, <3>4
  <2> QED BY <2>3, <2>4, <2>5
<1> HIDE DEF S
<1>3. Nat \subseteq S BY <1>1, <1>2, Induct
<1>4. c \in Upward(Across) /\ Across \in S BY <1>3, AllSizes DEF Met
<1> QED BY <1>4 DEF S, f

LEMMA WindowSubdivided ==
  ASSUME Even, Tiled, Clamped, NEW v \in ClampedTriangles, NEW w \in Windows, NEW limit
  PROVE  processTriangleChunks(imp_triangle(v), w[1], w[2], limit) =
           {Shown(v, n, w[1]) : n \in {g \in TouchedTiles(v) \cap (w[1] .. w[2]) : OnScreen(g, limit)}}
<1> DEFINE c == Root(imp_triangle(v))
<1>1. PICK a, b \in 0 .. (ScreenTiles - 1) : w = <<a, b>> /\ a <= b BY DEF Windows
<1>2. c.base = 0 /\ c.i = Across BY DEF Root
<1>3. Met(c, v) BY RootMet
<1>4. processTriangleChunks(imp_triangle(v), a, b, limit) = Found(a, b + 1, limit)[c]
  BY FoundIs DEF processTriangleChunks
<1> HIDE DEF c
<1>5. a \in Nat /\ b + 1 \in Nat /\ b + 1 > c.base BY <1>1, <1>2, ScreenFacts
<1>6. Found(a, b + 1, limit)[c] = {Shown(v, n, a) : n \in BlockOf(v, c, a, b + 1, limit)}
  BY <1>3, <1>5, FoundIsBlock
<1>7. Run(c) = 0 .. (ScreenTiles - 1) BY <1>2, ScreenFacts DEF Run
<1>8. BlockOf(v, c, a, b + 1, limit) = {g \in TouchedTiles(v) \cap (a .. b) : OnScreen(g, limit)}
  BY <1>1, <1>7, ScreenFacts DEF BlockOf, Wanted, TouchedTiles
<1> QED BY <1>1, <1>4, <1>6, <1>8

\* Of a block of any length subdivide finds exactly the tiles on the screen that the
\* triangle touches, each once with its place on the curve and the values of the edges at
\* its corner (subdivide.c:303-372).
THEOREM BlockFound == ASSUME NEW most PROVE BlockIsExact(most)
<1> SUFFICES ASSUME NEW v \in Triangles, NEW w \in Windows, NEW limit
             PROVE  processTriangleChunks(imp_triangle(v), w[1], w[2], limit) =
                      {Shown(v, n, w[1]) : n \in {g \in TouchedTiles(v) \cap (w[1] .. w[2]) : OnScreen(g, limit)}}
  BY DEF BlockIsExact, Shown, OnScreen
<1>1. v \in ClampedTriangles BY TileSearchAssumption, VerticesAreClamped DEF Triangles
<1> QED BY <1>1, TileSearchAssumption, WindowSubdivided

-----------------------------------------------------------------------------
(* The curve.                                                               *)

Adjacent(p, q) ==
  \/ p[1] = q[1] /\ p[2] - q[2] \in {-1, 1}
  \/ p[2] = q[2] /\ p[1] - q[1] \in {-1, 1}

\* The corner of a square where its part of the curve begins, and the one where it ends.
Corner(c, right, below) ==
  <<c.at[1] + (IF right THEN c.i - 1 ELSE 0), c.at[2] + (IF below THEN c.i - 1 ELSE 0)>>
Entry(c) == Corner(c, c.bit1, c.bit1)
Exit(c)  == Corner(c, ~c.bit0, c.bit0)
Area(c)  == (c.at[1] .. (c.at[1] + c.i - 1)) \X (c.at[2] .. (c.at[2] + c.i - 1))

IsCurve(c) ==
  /\ {Placing[c][n] : n \in Run(c)} = Area(c)
  /\ Placing[c][c.base] = Entry(c)
  /\ Placing[c][c.base + c.i * c.i - 1] = Exit(c)
  /\ \A n \in Run(c) : n # c.base => Adjacent(Placing[c][n], Placing[c][n - 1])

\* Where the curve leaves a quarter, it enters the next one.
LEMMA QuartersMeet ==
  ASSUME Even, Tiled, NEW c \in Cells, c.i # 1
  PROVE  /\ Entry(Quarter(c, 0)) = Entry(c) /\ Exit(Quarter(c, 3)) = Exit(c)
         /\ \A q \in 1 .. 3 : Adjacent(Entry(Quarter(c, q)), Exit(Quarter(c, q - 1)))
         /\ Area(c) = UNION {Area(Quarter(c, q)) : q \in 0 .. 3}
<1>1. PICK h \in Sizes : h \in Nat /\ h > 0 /\ c.i = 2 * h BY Halves
<1>2. PICK x, y \in Nat : x = c.at[1] /\ y = c.at[2] BY DEF Cells
<1>3. PICK b0, b1 \in BOOLEAN : b0 = c.bit0 /\ b1 = c.bit1 BY DEF Cells
<1> DEFINE d(q) == Quarter(c, q)
<1>4. \A q \in 0 .. 3 :
        /\ d(q).i = h
        /\ d(q).at[1] = x + (IF Right(c, q) THEN h ELSE 0)
        /\ d(q).at[2] = y + (IF Below(c, q) THEN h ELSE 0)
        /\ d(q).bit0 <=> (IF q = 0 THEN ~b0 ELSE b0)
        /\ d(q).bit1 <=> (IF q = 3 THEN ~b1 ELSE b1)
  <2> TAKE q \in 0 .. 3
  <2>1. Quarter(c, q).i = h BY <1>1, QuarterIsCell
  <2> QED BY <1>1, <1>2, <1>3, <2>1, QuarterLies
<1>5. /\ Right(c, 0) = b1 /\ Right(c, 1) = b0 /\ Right(c, 2) = ~b1 /\ Right(c, 3) = ~b0
      /\ Below(c, 0) = b1 /\ Below(c, 1) = ~b0 /\ Below(c, 2) = ~b1 /\ Below(c, 3) = b0
  BY <1>3 DEF Right, Below
<1> HIDE DEF d
<1>6. /\ d(0).i = h /\ d(0).at[1] = x + (IF b1 THEN h ELSE 0) /\ d(0).at[2] = y + (IF b1 THEN h ELSE 0)
      /\ (d(0).bit0 <=> ~b0) /\ (d(0).bit1 <=> b1)
  BY <1>4, <1>5
<1>7. /\ d(1).i = h /\ d(1).at[1] = x + (IF b0 THEN h ELSE 0) /\ d(1).at[2] = y + (IF b0 THEN 0 ELSE h)
      /\ (d(1).bit0 <=> b0) /\ (d(1).bit1 <=> b1)
  <2>1. Right(c, 1) = b0 /\ Below(c, 1) = ~b0 BY <1>5
  <2>2. /\ d(1).i = h /\ d(1).at[1] = x + (IF Right(c, 1) THEN h ELSE 0)
        /\ d(1).at[2] = y + (IF Below(c, 1) THEN h ELSE 0)
        /\ (d(1).bit0 <=> b0) /\ (d(1).bit1 <=> b1)
    BY <1>4
  <2> QED BY <2>1, <2>2
<1>8. /\ d(2).i = h /\ d(2).at[1] = x + (IF b1 THEN 0 ELSE h) /\ d(2).at[2] = y + (IF b1 THEN 0 ELSE h)
      /\ (d(2).bit0 <=> b0) /\ (d(2).bit1 <=> b1)
  <2>1. Right(c, 2) = ~b1 /\ Below(c, 2) = ~b1 BY <1>5
  <2>2. /\ d(2).i = h /\ d(2).at[1] = x + (IF Right(c, 2) THEN h ELSE 0)
        /\ d(2).at[2] = y + (IF Below(c, 2) THEN h ELSE 0)
        /\ (d(2).bit0 <=> b0) /\ (d(2).bit1 <=> b1)
    BY <1>4
  <2> QED BY <2>1, <2>2
<1>9. /\ d(3).i = h /\ d(3).at[1] = x + (IF b0 THEN 0 ELSE h) /\ d(3).at[2] = y + (IF b0 THEN h ELSE 0)
      /\ (d(3).bit0 <=> b0) /\ (d(3).bit1 <=> ~b1)
  <2>1. Right(c, 3) = ~b0 /\ Below(c, 3) = b0 BY <1>5
  <2>2. /\ d(3).i = h /\ d(3).at[1] = x + (IF Right(c, 3) THEN h ELSE 0)
        /\ d(3).at[2] = y + (IF Below(c, 3) THEN h ELSE 0)
        /\ (d(3).bit0 <=> b0) /\ (d(3).bit1 <=> ~b1)
    BY <1>4
  <2> QED BY <2>1, <2>2
<1>10. /\ Entry(d(0)) = Entry(c) /\ Exit(d(3)) = Exit(c)
  BY <1>1, <1>2, <1>3, <1>6, <1>9 DEF Entry, Exit, Corner
<1>11. Adjacent(Entry(d(1)), Exit(d(0)))
  BY <1>1, <1>3, <1>6, <1>7 DEF Entry, Exit, Corner, Adjacent
<1>12. Adjacent(Entry(d(2)), Exit(d(1)))
  BY <1>1, <1>3, <1>7, <1>8 DEF Entry, Exit, Corner, Adjacent
<1>13. Adjacent(Entry(d(3)), Exit(d(2)))
  BY <1>1, <1>3, <1>8, <1>9 DEF Entry, Exit, Corner, Adjacent
<1>14. \A q \in 1 .. 3 : Adjacent(Entry(d(q)), Exit(d(q - 1)))
  <2> TAKE q \in 1 .. 3
  <2>1. (q = 1 /\ q - 1 = 0) \/ (q = 2 /\ q - 1 = 1) \/ (q = 3 /\ q - 1 = 2) OBVIOUS
  <2> QED BY <1>11, <1>12, <1>13, <2>1
<1>15. Area(c) = Area(d(0)) \cup Area(d(1)) \cup Area(d(2)) \cup Area(d(3))
  <2>1. PICK w \in Nat : w = 2 * h BY <1>1
  <2> DEFINE near(m) == m .. (m + h - 1)
             far(m) == (m + h) .. (m + h + h - 1)
  <2>2. Area(c) = (x .. (x + w - 1)) \X (y .. (y + w - 1)) BY <1>1, <1>2, <2>1 DEF Area
  <2>3. x .. (x + w - 1) = near(x) \cup far(x) /\ y .. (y + w - 1) = near(y) \cup far(y) BY <1>1, <2>1
  <2>4. /\ Area(d(0)) = IF b1 THEN far(x) \X far(y) ELSE near(x) \X near(y)
        /\ Area(d(1)) = IF b0 THEN far(x) \X near(y) ELSE near(x) \X far(y)
        /\ Area(d(2)) = IF b1 THEN near(x) \X near(y) ELSE far(x) \X far(y)
        /\ Area(d(3)) = IF b0 THEN near(x) \X far(y) ELSE far(x) \X near(y)
    BY <1>6, <1>7, <1>8, <1>9 DEF Area
  <2> HIDE DEF near, far
  <2> QED BY <2>2, <2>3, <2>4
<1>16. Area(c) = UNION {Area(d(q)) : q \in 0 .. 3}
  <2>1. \A q \in 0 .. 3 : q = 0 \/ q = 1 \/ q = 2 \/ q = 3 OBVIOUS
  <2>2. 0 \in 0 .. 3 /\ 1 \in 0 .. 3 /\ 2 \in 0 .. 3 /\ 3 \in 0 .. 3 OBVIOUS
  <2> QED BY <1>15, <2>1, <2>2
<1> QED BY <1>10, <1>14, <1>16 DEF d

LEMMA CurveOfQuarters ==
  ASSUME Even, Tiled, NEW c \in Cells, c.i # 1, \A q \in 0 .. 3 : IsCurve(Quarter(c, q))
  PROVE  IsCurve(c)
<1> DEFINE d(q) == Quarter(c, q)
<1>1. PICK h \in Sizes : h \in Nat /\ h > 0 /\ c.i = 2 * h BY Halves
<1>2. PICK H \in Nat : H = h * h /\ H > 0
  <2>1. h * h \in Nat /\ h * h > 0 BY <1>1
  <2> QED BY <2>1
<1>3. PICK b \in Nat : b = c.base BY DEF Cells
<1>4. c.i * c.i = 4 * H BY <1>1, <1>2
<1>5. ASSUME NEW q \in 0 .. 3
      PROVE  d(q).base = b + q * H /\ d(q).i * d(q).i = H /\ Run(d(q)) = (b + q * H) .. (b + q * H + H - 1)
  <2>1. d(q).i = h /\ d(q).base = c.base + q * (h * h) BY <1>1, QuarterIsCell
  <2>2. d(q).base = b + q * H /\ d(q).i * d(q).i = H BY <1>2, <1>3, <2>1
  <2> QED BY <2>2 DEF Run
<1>6. \A q \in 0 .. 3 : \A n \in Run(d(q)) : n \in Run(c) /\ Placing[c][n] = Placing[d(q)][n]
  BY PlacingSteps
<1>7. \A n \in Run(c) : \E q \in 0 .. 3 : n \in Run(d(q)) BY RunsFollow
<1>8. /\ Entry(d(0)) = Entry(c) /\ Exit(d(3)) = Exit(c)
      /\ \A q \in 1 .. 3 : Adjacent(Entry(d(q)), Exit(d(q - 1)))
      /\ Area(c) = UNION {Area(d(q)) : q \in 0 .. 3}
  BY QuartersMeet
<1>9. \A q \in 0 .. 3 : /\ {Placing[d(q)][n] : n \in Run(d(q))} = Area(d(q))
                        /\ Placing[d(q)][d(q).base] = Entry(d(q))
                        /\ Placing[d(q)][d(q).base + d(q).i * d(q).i - 1] = Exit(d(q))
                        /\ \A n \in Run(d(q)) : n # d(q).base => Adjacent(Placing[d(q)][n], Placing[d(q)][n - 1])
  BY DEF IsCurve
<1> HIDE DEF d
<1>10. \A q \in 0 .. 3 : b + q * H \in Run(d(q)) /\ b + q * H + H - 1 \in Run(d(q))
  <2> TAKE q \in 0 .. 3
  <2>1. PICK g \in Nat : g = b + q * H BY <1>2
  <2>2. Run(d(q)) = g .. (g + H - 1) BY <1>5, <2>1
  <2>3. g \in Run(d(q)) /\ g + H - 1 \in Run(d(q)) BY <1>2, <2>2
  <2> QED BY <2>1, <2>3
<1>11. \A q \in 0 .. 3 : /\ Placing[c][b + q * H] = Entry(d(q))
                         /\ Placing[c][b + q * H + H - 1] = Exit(d(q))
  <2> TAKE q \in 0 .. 3
  <2>1. d(q).base = b + q * H /\ d(q).i * d(q).i = H BY <1>5
  <2> QED BY <1>6, <1>9, <1>10, <2>1
<1>12. {Placing[c][n] : n \in Run(c)} = Area(c)
  <2>1. \A n \in Run(c) : Placing[c][n] \in Area(c) BY <1>6, <1>7, <1>8, <1>9
  <2>2. ASSUME NEW p \in Area(c) PROVE \E n \in Run(c) : Placing[c][n] = p
    <3>1. PICK q \in 0 .. 3 : p \in Area(d(q)) BY <1>8
    <3>2. PICK n \in Run(d(q)) : Placing[d(q)][n] = p BY <1>9, <3>1
    <3> QED BY <1>6, <3>2
  <2> QED BY <2>1, <2>2
<1>13. Placing[c][c.base] = Entry(c)
  <2>1. b + 0 * H = b /\ 0 \in 0 .. 3 BY <1>2
  <2> QED BY <1>3, <1>8, <1>11, <2>1
<1>14. Placing[c][c.base + c.i * c.i - 1] = Exit(c)
  <2>1. b + 3 * H + H - 1 = b + 4 * H - 1 /\ 3 \in 0 .. 3 BY <1>2
  <2> QED BY <1>3, <1>4, <1>8, <1>11, <2>1
<1>15. ASSUME NEW n \in Run(c), n # c.base PROVE Adjacent(Placing[c][n], Placing[c][n - 1])
  <2>1. PICK q \in 0 .. 3 : n \in Run(d(q)) BY <1>7
  <2>2. d(q).base = b + q * H /\ Run(d(q)) = (b + q * H) .. (b + q * H + H - 1) BY <1>5
  <2>3. q * H \in Nat BY <1>2
  <2>4. CASE n # d(q).base
    <3>1. n - 1 \in Run(d(q))
      <4>1. PICK g \in Nat : g = b + q * H BY <2>3
      <4>2. d(q).base = g /\ Run(d(q)) = g .. (g + H - 1) BY <2>2, <4>1
      <4> QED BY <1>2, <2>1, <2>4, <4>2
    <3> QED BY <1>6, <1>9, <2>1, <2>4, <3>1
  <2>5. CASE n = d(q).base
    <3>1. q # 0
      <4>1. 0 * H = 0 BY <1>2
      <4> QED BY <1>3, <1>15, <2>2, <2>5, <4>1
    <3>2. PICK p \in 0 .. 3 : p = q - 1 BY <3>1
    <3>3. q * H = p * H + H BY <1>2, <3>2
    <3>4. p * H \in Nat BY <1>2
    <3>5. n - 1 = b + p * H + H - 1 /\ n = b + q * H
      <4>1. PICK g \in Nat : g = p * H BY <3>4
      <4>2. n = b + q * H /\ q * H = g + H BY <2>2, <2>5, <3>3, <4>1
      <4>3. n = b + g + H BY <1>2, <4>2
      <4>4. n - 1 = b + g + H - 1 BY <1>2, <4>3
      <4> QED BY <4>1, <4>2, <4>4
    <3>6. Placing[c][n] = Entry(d(q)) /\ Placing[c][n - 1] = Exit(d(p)) BY <1>11, <3>5
    <3>7. Adjacent(Entry(d(q)), Exit(d(p))) BY <1>8, <3>1, <3>2
    <3> QED BY <3>6, <3>7
  <2> QED BY <2>4, <2>5
<1> QED BY <1>12, <1>13, <1>14, <1>15 DEF IsCurve

LEMMA AllCurves ==
  ASSUME Even, Tiled
  PROVE  \A c \in Cells : IsCurve(c)
<1> DEFINE S == {m \in Nat : \A c \in Upward(m) : IsCurve(c)}
<1>1. 0 \in S BY AllSizes
<1>2. ASSUME NEW m \in Nat, m \in S PROVE m + 1 \in S
  <2> SUFFICES ASSUME NEW c \in Upward(m + 1) PROVE IsCurve(c)
    OBVIOUS
  <2>1. c \in Cells BY DEF Upward
  <2>2. CASE c.i = 1
    <3>1. Run(c) = {c.base} /\ Placing[c][c.base] = c.at BY <2>1, <2>2, PlacingSteps
    <3>2. PICK x, y, b \in Nat : c.at = <<x, y>> /\ b = c.base BY <2>1 DEF Cells
    <3>3. Area(c) = {c.at}
      <4>1. x .. (x + 1 - 1) = {x} /\ y .. (y + 1 - 1) = {y} BY <3>2
      <4>2. Area(c) = {x} \X {y} BY <2>2, <3>2, <4>1 DEF Area
      <4> QED BY <3>2, <4>2
    <3>4. Entry(c) = c.at /\ Exit(c) = c.at BY <2>2, <3>2 DEF Entry, Exit, Corner
    <3>5. c.base + c.i * c.i - 1 = c.base BY <2>2, <3>2
    <3> QED BY <3>1, <3>3, <3>4, <3>5 DEF IsCurve
  <2>3. CASE c.i # 1
    <3>1. \A q \in 0 .. 3 : Quarter(c, q) \in Upward(m) BY <2>3, AllSizes
    <3> QED BY <1>2, <2>1, <2>3, <3>1, CurveOfQuarters
  <2> QED BY <2>2, <2>3
<1> HIDE DEF S
<1>3. Nat \subseteq S BY <1>1, <1>2, Induct
<1> QED BY <1>3, AllSizes DEF S

\* For any power of two of tiles in a row, the curve that subdivide follows visits every
\* tile of the square and goes on to a neighbour each time (subdivide.c:298-306,
\* doc/hilbert.txt).
THEOREM CurveHolds == CurveIsHilbert
<1> USE TileSearchAssumption
<1> DEFINE c == Root(Flat)
<1>1. c \in Cells
  <2>1. Flat.A \in Edges /\ Flat.Adx \in Edges /\ Flat.Ady \in Edges BY DEF Flat, Edges
  <2> QED BY <2>1, RootIsCell
<1>2. c.base = 0 /\ c.i = Across /\ c.at = <<0, 0>> BY DEF Root
<1>3. Places = Placing[c] BY PlacesIs
<1> HIDE DEF c
<1>4. Run(c) = 0 .. (ScreenTiles - 1) BY <1>2, ScreenFacts DEF Run
<1>5. IsCurve(c) BY <1>1, AllCurves
<1>6. Area(c) = (0 .. (Across - 1)) \X (0 .. (Across - 1)) BY <1>2, ScreenFacts DEF Area
<1>7. {Places[h] : h \in 0 .. (ScreenTiles - 1)} = (0 .. (Across - 1)) \X (0 .. (Across - 1))
  BY <1>3, <1>4, <1>5, <1>6 DEF IsCurve
<1>8. ASSUME NEW h \in 1 .. (ScreenTiles - 1) PROVE Adjacent(Places[h], Places[h - 1])
  <2>1. h \in Run(c) /\ h # c.base BY <1>2, <1>4
  <2> QED BY <1>3, <1>5, <2>1 DEF IsCurve
<1> QED BY <1>7, <1>8 DEF CurveIsHilbert, Adjacent

-----------------------------------------------------------------------------
(* A clear.                                                                 *)

\* The triangle of a clear touches every tile of a screen of any number of pixels, although
\* its long edge passes half a pixel inside the corner (primitives.c:712-724, :264-265).
THEOREM ClearHolds == ClearCoversScreen
<1> USE TileSearchAssumption
<1> SUFFICES ASSUME NEW columns \in 1 .. (Side \div 4), NEW lines \in 1 .. (Side \div 4),
                    NEW n \in 0 .. (ScreenTiles - 1),
                    Places[n][1] < (4 * columns) \div Unit, Places[n][2] < (4 * lines) \div Unit
             PROVE  findFirstTriangleTile(imp_triangle(ClearVertices(columns, lines)), n, n) = n
  BY DEF ClearCoversScreen
<1> DEFINE v == ClearVertices(columns, lines)
<1>1. PICK u \in Nat : u = Unit /\ u >= 4 BY DEF Tiled
<1>2. Side \in Nat /\ Side > 1 BY DEF Clamped
<1>3. PICK width, height \in Nat : /\ width = 4 * columns /\ height = 4 * lines
                                   /\ width > 0 /\ width <= Side /\ height > 0 /\ height <= Side
  BY <1>2
<1>4. /\ v[1][1] = width + 2 /\ v[1][2] = 2 - height
      /\ v[2][1] = width + 2 /\ v[2][2] = height + 2
      /\ v[3][1] = 2 - width /\ v[3][2] = height + 2
  <2>1. columns \in Int /\ lines \in Int BY <1>2
  <2>2. /\ Rounded(columns) = width + 2 /\ Rounded(-columns) = 2 - width
        /\ Rounded(lines) = height + 2 /\ Rounded(-lines) = 2 - height
    BY <1>3, <2>1 DEF Rounded
  <2> QED BY <2>2 DEF ClearVertices
<1>5. v \in ClampedTriangles
  <2>1. v = <<<<v[1][1], v[1][2]>>, <<v[2][1], v[2][2]>>, <<v[3][1], v[3][2]>>>>
    BY DEF ClearVertices
  <2>2. {width + 2, 2 - width, height + 2, 2 - height} \subseteq Coordinates
    BY <1>2, <1>3 DEF Coordinates
  <2> HIDE DEF v
  <2>3. v = <<<<width + 2, 2 - height>>, <<width + 2, height + 2>>, <<2 - width, height + 2>>>>
    BY <1>4, <2>1
  <2> QED BY <2>2, <2>3 DEF ClampedTriangles, Corners
<1>6. PICK x, y \in Nat : Places[n] = <<x, y>>
  <2>1. Places[n] \in (0 .. (Across - 1)) \X (0 .. (Across - 1)) BY CurveHolds DEF CurveIsHilbert
  <2>2. Across \in Nat BY DEF Tiled
  <2> QED BY <2>1, <2>2
<1>7. (x + 1) * u <= width /\ (y + 1) * u <= height
  <2>1. ASSUME NEW z \in Nat, NEW w \in Nat, z < w \div u PROVE (z + 1) * u <= w
    <3>1. w = u * (w \div u) + (w % u) /\ w \div u \in Int /\ w % u \in 0 .. (u - 1)
      BY <1>1, Division
    <3>2. PICK d \in Int : d = w \div u BY <3>1
    <3>3. u * d <= w BY <1>1, <3>1, <3>2
    <3>4. z + 1 <= d BY <2>1, <3>2
    <3>5. (z + 1) * u <= d * u BY <1>1, <3>4
    <3> QED BY <1>1, <3>3, <3>5
  <2> QED BY <1>1, <1>3, <1>6, <2>1
<1>8. PICK X, Y, X1, Y1 \in Nat : X = x * u /\ Y = y * u /\ X1 = (x + 1) * u /\ Y1 = (y + 1) * u
  <2>1. \A p, q \in Nat : p * q \in Nat OBVIOUS
  <2>2. x + 1 \in Nat /\ y + 1 \in Nat OBVIOUS
  <2> QED BY <2>1, <2>2
<1>9. X1 = X + u /\ Y1 = Y + u /\ X1 <= width /\ Y1 <= height BY <1>7, <1>8
<1> HIDE DEF v
<1>10. Cross(v, 1, X, Y) < 0
  <2>1. Cross(v, 1, X, Y) = (X - (width + 2)) * ((height + 2) - (height + 2)) - (Y - (height + 2)) * ((2 - width) - (width + 2))
    BY <1>4, NextCorners DEF Cross
  <2>2. (X - (width + 2)) * ((height + 2) - (height + 2)) = 0 BY <1>3
  <2>3. (Y - (height + 2)) * ((2 - width) - (width + 2)) > 0
    <3>1. PICK p, q \in Nat : p = height + 2 - Y /\ q = width + width /\ p > 0 /\ q > 0
      <4>1. height + 2 - Y \in Nat /\ height + 2 - Y > 0 BY <1>1, <1>3, <1>9
      <4>2. width + width \in Nat /\ width + width > 0 BY <1>3
      <4> QED BY <4>1, <4>2
    <3>2. Y - (height + 2) = -p /\ (2 - width) - (width + 2) = -q BY <1>3, <3>1
    <3>3. (-p) * (-q) = p * q /\ p * q > 0 BY <3>1
    <3> QED BY <3>2, <3>3
  <2>4. (Y - (height + 2)) * ((2 - width) - (width + 2)) \in Int BY <1>3
  <2> QED BY <2>1, <2>2, <2>3, <2>4
<1>11. Cross(v, 2, X1, Y1) < 0
  <2>1. Cross(v, 2, X1, Y1) =
          (X1 - (2 - width)) * ((2 - height) - (height + 2)) - (Y1 - (height + 2)) * ((width + 2) - (2 - width))
    BY <1>4, NextCorners DEF Cross
  <2>2. PICK w, h \in Nat : w = 2 * width /\ h = 2 * height /\ w > 0 /\ h > 0 BY <1>3
  <2>3. PICK p, q \in Nat : p = X1 - 2 /\ q = Y1 - 2 /\ p > 0 /\ q > 0
    <3>1. X1 - 2 \in Nat /\ Y1 - 2 \in Nat /\ X1 - 2 > 0 /\ Y1 - 2 > 0 BY <1>1, <1>9
    <3> QED BY <3>1
  <2>4. /\ X1 - (2 - width) = p + width /\ (2 - height) - (height + 2) = -(2 * height)
        /\ Y1 - (height + 2) = q - height /\ (width + 2) - (2 - width) = 2 * width
    BY <1>3, <2>3
  <2>5. (p + width) * (-(2 * height)) - (q - height) * (2 * width) = -(p * (2 * height)) - (q * (2 * width))
    <3>1. (p + width) * (-(2 * height)) = -(p * (2 * height)) - (width * (2 * height)) BY <1>3, <2>3
    <3>2. (q - height) * (2 * width) = q * (2 * width) - height * (2 * width) BY <1>3, <2>3
    <3>3. width * (2 * height) = height * (2 * width) BY <1>3
    <3>4. /\ p * (2 * height) \in Int /\ width * (2 * height) \in Int
          /\ q * (2 * width) \in Int /\ height * (2 * width) \in Int
      BY <1>3, <2>3
    <3> QED BY <3>1, <3>2, <3>3, <3>4
  <2>6. p * h > 0 /\ q * w > 0 /\ p * h \in Int /\ q * w \in Int BY <2>2, <2>3
  <2> QED BY <2>1, <2>2, <2>4, <2>5, <2>6
<1>12. Cross(v, 3, X, Y) < 0
  <2>1. Cross(v, 3, X, Y) = (X - (width + 2)) * ((height + 2) - (2 - height)) - (Y - (2 - height)) * ((width + 2) - (width + 2))
    BY <1>4, NextCorners DEF Cross
  <2>2. (Y - (2 - height)) * ((width + 2) - (width + 2)) = 0 BY <1>3
  <2>3. (X - (width + 2)) * ((height + 2) - (2 - height)) < 0
    <3>1. PICK p, q \in Nat : p = width + 2 - X /\ q = height + height /\ p > 0 /\ q > 0
      <4>1. width + 2 - X \in Nat /\ width + 2 - X > 0 BY <1>1, <1>3, <1>9
      <4>2. height + height \in Nat /\ height + height > 0 BY <1>3
      <4> QED BY <4>1, <4>2
    <3>2. X - (width + 2) = -p /\ (height + 2) - (2 - height) = q BY <1>3, <3>1
    <3>3. (-p) * q = -(p * q) /\ p * q > 0 /\ p * q \in Int BY <3>1
    <3> QED BY <3>2, <3>3
  <2>4. (X - (width + 2)) * ((height + 2) - (2 - height)) \in Int BY <1>3
  <2> QED BY <2>1, <2>2, <2>3, <2>4
<1>13. Touches(v, Places[n])
  <2> SUFFICES ASSUME NEW k \in Corners
               PROVE  \E p \in {x, x + 1}, q \in {y, y + 1} : Cross(v, k, p * Unit, q * Unit) < 0
    BY <1>6 DEF Touches
  <2>1. k = 1 \/ k = 2 \/ k = 3 BY DEF Corners
  <2> QED BY <1>1, <1>8, <1>10, <1>11, <1>12, <2>1
<1>14. TouchedTiles(v) \cap (n .. n) = {n} BY <1>13 DEF TouchedTiles
<1>15. <<n, n>> \in Windows BY DEF Windows
<1>16. IsFirst(findFirstTriangleTile(imp_triangle(v), n, n), {n}) BY <1>5, <1>14, <1>15, WindowFound
<1> QED BY <1>16 DEF IsFirst, v

-----------------------------------------------------------------------------
(* The searches, where the scheduler asks for them.                         *)

\* However splits and merges interleave, findFirstTriangleTile is asked for chunks that
\* begin before they end, and finds their first tile (cacheline.c:292).
THEOREM SearchHolds == Spec /\ []NoStaleEntry => []SearchFindsTheFirst
<1>1. AsksForChunks => SearchFindsTheFirst
  BY CurveHolds, FirstTileFound, ClearHolds DEF SearchFindsTheFirst
<1> QED BY <1>1, AsksHold, PTL

\* However splits and merges interleave, processTriangleChunks is asked for no more tiles
\* than the SPU has buffers for, and finds exactly those the triangle touches
\* (cacheline.c:443).
THEOREM BlockHolds == Spec /\ []NoStaleEntry => []BlockFitsTheBuffers
<1>1. AsksForBlocks => BlockFitsTheBuffers BY BlockFound DEF BlockFitsTheBuffers, BlocksAreExact
<1> QED BY <1>1, AsksHold, PTL

\* What Search takes for the first tile, the smallest that the triangle covers in the chunk,
\* is what findFirstTriangleTile returns, if a triangle covers the tiles it touches.
SearchTakesTheFirst ==
  \A p \in Spus, v \in Triangles :
    LET s       == spu[p]
        touched == TouchedTiles(v) \cap Tiles \cap (s.chunkStart .. s.chunkEnd)
    IN s.pc = "search" /\ NumTiles <= ScreenTiles =>
         findFirstTriangleTile(imp_triangle(v), s.chunkStart, s.chunkEnd) =
           IF touched = {} THEN -1 ELSE SmallestOf(touched)

\* What Render draws on, the tiles that the triangle covers in the block, is, of those on
\* the screen, what processTriangleChunks finds, each with its place in the block.
RenderDrawsTheBlock ==
  \A p \in Spus, v \in Triangles :
    LET s       == spu[p]
        touched == TouchedTiles(v) \cap Tiles \cap (s.thisBlockStart .. s.chunkEnd)
    IN s.pc = "render" /\ NumTiles <= ScreenTiles =>
         \A limit : processTriangleChunks(imp_triangle(v), s.thisBlockStart, s.chunkEnd, limit) =
                      {Shown(v, n, s.thisBlockStart) : n \in {g \in touched : OnScreen(g, limit)}}

LEMMA TileFacts ==
  ASSUME RInv, NumTiles <= ScreenTiles
  PROVE  Tiles = 0 .. (NumTiles - 1) /\ NumTiles \in Nat /\ Tiles \subseteq 0 .. (ScreenTiles - 1)
<1>1. Tiles = 0 .. (NumTiles - 1) /\ NumTiles \in Nat BY RingFacts
<1>2. ScreenTiles \in Nat BY TileSearchAssumption, ScreenFacts
<1> QED BY <1>1, <1>2

\* The searches that RenderChunks has as choices from a set of tiles are those of
\* subdivide.c: where the scheduler asks for a first tile or for the tiles of a block, the
\* recursion over the screen returns what the model takes (cacheline.c:292, :443).
THEOREM SchedulerIsServed == Spec /\ []NoStaleEntry => [](SearchTakesTheFirst /\ RenderDrawsTheBlock)
<1>1. ASSUME RInv PROVE SearchTakesTheFirst
  <2> SUFFICES ASSUME NEW p \in Spus, NEW v \in Triangles, spu[p].pc = "search", NumTiles <= ScreenTiles
               PROVE  LET touched == TouchedTiles(v) \cap Tiles \cap (spu[p].chunkStart .. spu[p].chunkEnd)
                      IN findFirstTriangleTile(imp_triangle(v), spu[p].chunkStart, spu[p].chunkEnd) =
                           IF touched = {} THEN -1 ELSE SmallestOf(touched)
    BY DEF SearchTakesTheFirst
  <2>1. PICK a, b \in Tiles : a = spu[p].chunkStart /\ b = spu[p].chunkEnd /\ a <= b
    BY <1>1, RInv_Asks DEF AsksForChunks
  <2>2. /\ Tiles = 0 .. (NumTiles - 1) /\ NumTiles \in Nat /\ Tiles \subseteq 0 .. (ScreenTiles - 1)
    BY <1>1, TileFacts
  <2>3. <<a, b>> \in Windows BY <2>1, <2>2 DEF Windows
  <2>4. findFirstTriangleTile(imp_triangle(v), a, b) =
          IF TouchedTiles(v) \cap (a .. b) = {} THEN -1 ELSE Least(TouchedTiles(v) \cap (a .. b))
    BY <2>3, FirstTileFound DEF FirstTileIsFirst
  <2>5. a .. b \subseteq Tiles BY <2>1, <2>2
  <2>6. TouchedTiles(v) \cap Tiles \cap (a .. b) = TouchedTiles(v) \cap (a .. b) BY <2>5
  <2> QED BY <2>1, <2>4, <2>6 DEF Least, SmallestOf
<1>2. ASSUME RInv PROVE RenderDrawsTheBlock
  <2> SUFFICES ASSUME NEW p \in Spus, NEW v \in Triangles, spu[p].pc = "render", NumTiles <= ScreenTiles, NEW limit
               PROVE  LET touched == TouchedTiles(v) \cap Tiles \cap (spu[p].thisBlockStart .. spu[p].chunkEnd)
                      IN processTriangleChunks(imp_triangle(v), spu[p].thisBlockStart, spu[p].chunkEnd, limit) =
                           {Shown(v, n, spu[p].thisBlockStart) : n \in {g \in touched : OnScreen(g, limit)}}
    BY DEF RenderDrawsTheBlock
  <2>1. PICK a, b \in Tiles : a = spu[p].thisBlockStart /\ b = spu[p].chunkEnd /\ a <= b
    <3>1. spu[p] \in Locals(Chunks, NumTiles, endTriangle) BY <1>2 DEF RInv, Types
    <3>2. spu[p].thisBlockStart \in Tiles /\ spu[p].chunkEnd \in Tiles
      BY <1>2, <3>1, RingFacts DEF Locals
    <3>3. spu[p].firstTile \in spu[p].thisBlockStart .. spu[p].chunkEnd
      BY <1>2, RInv_Asks DEF AsksForBlocks
    <3>4. PICK x, y \in Nat : x = spu[p].thisBlockStart /\ y = spu[p].chunkEnd
      BY <1>2, <3>2, TileFacts
    <3>5. x <= y BY <3>3, <3>4
    <3> QED BY <3>2, <3>4, <3>5
  <2>2. /\ Tiles = 0 .. (NumTiles - 1) /\ NumTiles \in Nat /\ Tiles \subseteq 0 .. (ScreenTiles - 1)
    BY <1>2, TileFacts
  <2>3. <<a, b>> \in Windows BY <2>1, <2>2 DEF Windows
  <2>4. v \in ClampedTriangles BY TileSearchAssumption, VerticesAreClamped DEF Triangles
  <2>5. processTriangleChunks(imp_triangle(v), a, b, limit) =
          {Shown(v, n, a) : n \in {g \in TouchedTiles(v) \cap (a .. b) : OnScreen(g, limit)}}
    <3>1. PICK w \in Windows : w = <<a, b>> BY <2>3
    <3>2. processTriangleChunks(imp_triangle(v), w[1], w[2], limit) =
            {Shown(v, n, w[1]) : n \in {g \in TouchedTiles(v) \cap (w[1] .. w[2]) : OnScreen(g, limit)}}
      BY <2>4, TileSearchAssumption, WindowSubdivided
    <3>3. w[1] = a /\ w[2] = b BY <3>1
    <3> QED BY <3>2, <3>3
  <2>6. a .. b \subseteq Tiles BY <2>1, <2>2
  <2>7. TouchedTiles(v) \cap Tiles \cap (a .. b) = TouchedTiles(v) \cap (a .. b) BY <2>6
  <2> QED BY <2>1, <2>5, <2>7
<1> QED BY <1>1, <1>2, RingHolds, PTL
=============================================================================
