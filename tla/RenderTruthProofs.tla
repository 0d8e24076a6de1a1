------------------------- MODULE RenderTruthProofs --------------------------
(***************************************************************************)
(* What the tiles show, for any number of SPUs, tiles, entries and triangles: *)
(* a chunk tells the truth about its tiles, a flush is answered when       *)
(* everything is drawn, and the SPUs together implement Raster.            *)
(*                                                                         *)
(* Drawn is a recursive function, and what it returns for every k is an    *)
(* induction over k (DrawnExists, DrawnGrows).  TruthInv adds to RInv what the *)
(* chunks, and what an SPU, say of the pixels of their tiles: up to which  *)
(* triangle they are drawn, in the frame buffer or in the tile buffers.    *)
(*                                                                         *)
(* The last part is about the two conditions.  NoLastTileLost fails when a *)
(* split leaves one tile behind its block, which the code then takes for   *)
(* none.  NoStaleEntry fails only after a retry that keeps an entry nobody *)
(* reserved (OnlyUnclaimedRetriesAreStale), never with one SPU             *)
(* (OneSpuIsNeverStale), and neither fails in a frame buffer of at most    *)
(* sixteen tiles (SmallLayoutsNeverFail).                                  *)
(*                                                                         *)
(* With such retries RInv holds until a split uses an entry that was taken *)
(* meanwhile (RetryInv, over the history variables of RenderRetries).      *)
(***************************************************************************)
EXTENDS RenderChunksProofs, RenderRetries

-----------------------------------------------------------------------------
(* Drawn, triangle by triangle.                                            *)

\* What triangle i adds to a tile.
Extended(T, t, i, x) == IF t \in T[i] THEN Append(x, i) ELSE x

DrawnRec(T, t, k, r) == r = [i \in 0 .. k |-> IF i = 0 THEN <<>> ELSE Extended(T, t, i, r[i - 1])]

DrawnIn(T, t, k) == (CHOOSE r : DrawnRec(T, t, k, r))[k]

LEMMA DrawnIs == ASSUME NEW t, NEW k PROVE Drawn(t, k) = DrawnIn(triangles, t, k)
BY DEF Drawn, Raster!Drawn, DrawnIn, DrawnRec, Extended

LEMMA DrawnExists ==
  ASSUME NEW T, NEW t, NEW k \in Nat
  PROVE  \E r : DrawnRec(T, t, k, r)
<1> DEFINE S == {j \in Nat : \E r : DrawnRec(T, t, j, r)}
<1>1. 0 \in S
  <2>1. DrawnRec(T, t, 0, [n \in 0 .. 0 |-> <<>>]) BY DEF DrawnRec
  <2> QED BY <2>1
<1>2. ASSUME NEW j \in Nat, j \in S PROVE j + 1 \in S
  <2>1. PICK r : DrawnRec(T, t, j, r) BY <1>2
  <2>2. PICK q : q = [n \in 0 .. (j + 1) |-> IF n = j + 1 THEN Extended(T, t, j + 1, r[j]) ELSE r[n]]
    OBVIOUS
  <2>3. \A n \in 0 .. j : q[n] = r[n] /\ r[n] = IF n = 0 THEN <<>> ELSE Extended(T, t, n, r[n - 1])
    BY <2>1, <2>2 DEF DrawnRec
  <2>4. \A n \in 0 .. (j + 1) : q[n] = IF n = 0 THEN <<>> ELSE Extended(T, t, n, q[n - 1])
    <3> SUFFICES ASSUME NEW n \in 0 .. (j + 1)
                 PROVE  q[n] = IF n = 0 THEN <<>> ELSE Extended(T, t, n, q[n - 1])
      OBVIOUS
    <3>1. CASE n = 0 BY <2>3, <3>1
    <3>2. CASE n \in 1 .. j
      <4>1. n - 1 \in 0 .. j /\ n \in 0 .. j /\ n # 0 BY <3>2
      <4> QED BY <2>3, <4>1
    <3>3. CASE n = j + 1
      <4>1. q[j] = r[j] /\ q[n] = Extended(T, t, n, r[j]) /\ n - 1 = j /\ n # 0 BY <2>2, <2>3, <3>3
      <4> QED BY <4>1
    <3> QED BY <3>1, <3>2, <3>3
  <2>5. q = [n \in 0 .. (j + 1) |-> q[n]] BY <2>2
  <2>6. q = [n \in 0 .. (j + 1) |-> IF n = 0 THEN <<>> ELSE Extended(T, t, n, q[n - 1])] BY <2>4, <2>5
  <2> QED BY <2>6 DEF DrawnRec
<1> HIDE DEF S
<1>3. Nat \subseteq S BY <1>1, <1>2, Induct
<1> QED BY <1>3 DEF S

LEMMA DrawnChosen ==
  ASSUME NEW T, NEW t, NEW k \in Nat
  PROVE  \E r : DrawnRec(T, t, k, r) /\ DrawnIn(T, t, k) = r[k]
<1>1. \E r : DrawnRec(T, t, k, r) BY DrawnExists
<1>2. DrawnRec(T, t, k, CHOOSE r : DrawnRec(T, t, k, r)) BY <1>1
<1> QED BY <1>2 DEF DrawnIn

LEMMA DrawnUnique ==
  ASSUME NEW T, NEW t, NEW j \in Nat, NEW k \in Nat, NEW r, NEW q,
         DrawnRec(T, t, j, r), DrawnRec(T, t, k, q)
  PROVE  \A i \in Nat : i <= j /\ i <= k => r[i] = q[i]
<1> DEFINE S == {i \in Nat : i <= j /\ i <= k => r[i] = q[i]}
<1>0. \A n \in Nat : n <= j => r[n] = IF n = 0 THEN <<>> ELSE Extended(T, t, n, r[n - 1])
  BY DEF DrawnRec
<1>00. \A n \in Nat : n <= k => q[n] = IF n = 0 THEN <<>> ELSE Extended(T, t, n, q[n - 1])
  BY DEF DrawnRec
<1>1. 0 \in S BY <1>0, <1>00
<1>2. ASSUME NEW n \in Nat, n \in S PROVE n + 1 \in S
  <2> SUFFICES ASSUME n + 1 <= j, n + 1 <= k PROVE r[n + 1] = q[n + 1]
    OBVIOUS
  <2>1. r[n] = q[n] BY <1>2
  <2>2. n + 1 \in Nat /\ n + 1 # 0 /\ (n + 1) - 1 = n OBVIOUS
  <2>3. r[n + 1] = Extended(T, t, n + 1, r[n]) BY <1>0, <2>2
  <2>4. q[n + 1] = Extended(T, t, n + 1, q[n]) BY <1>00, <2>2
  <2> QED BY <2>1, <2>3, <2>4
<1> HIDE DEF S
<1>3. Nat \subseteq S BY <1>1, <1>2, Induct
<1> QED BY <1>3 DEF S

LEMMA DrawnSteps ==
  ASSUME NEW T, NEW t
  PROVE  /\ DrawnIn(T, t, 0) = <<>>
         /\ \A k \in Nat : DrawnIn(T, t, k + 1) = Extended(T, t, k + 1, DrawnIn(T, t, k))
<1>1. DrawnIn(T, t, 0) = <<>>
  <2>1. PICK r : DrawnRec(T, t, 0, r) /\ DrawnIn(T, t, 0) = r[0] BY DrawnChosen
  <2> QED BY <2>1 DEF DrawnRec
<1>2. ASSUME NEW k \in Nat PROVE DrawnIn(T, t, k + 1) = Extended(T, t, k + 1, DrawnIn(T, t, k))
  <2>0. k + 1 \in Nat /\ k <= k + 1 /\ k <= k /\ (k + 1) - 1 = k /\ k + 1 # 0 OBVIOUS
  <2>1. PICK r : DrawnRec(T, t, k, r) /\ DrawnIn(T, t, k) = r[k] BY DrawnChosen
  <2>2. PICK j : j = k + 1 OBVIOUS
  <2>3. PICK q : DrawnRec(T, t, j, q) /\ DrawnIn(T, t, j) = q[j] BY <2>0, <2>2, DrawnChosen
  <2>4. r[k] = q[k] BY <2>0, <2>1, <2>2, <2>3, DrawnUnique
  <2>5. q[j] = Extended(T, t, j, q[k]) BY <2>0, <2>2, <2>3 DEF DrawnRec
  <2> QED BY <2>1, <2>2, <2>3, <2>4, <2>5
<1> QED BY <1>1, <1>2

LEMMA DrawnNumbers ==
  ASSUME NEW T, NEW t, NEW k \in Nat
  PROVE  DrawnIn(T, t, k) \in Seq(Nat)
<1> DEFINE S == {i \in Nat : DrawnIn(T, t, i) \in Seq(Nat)}
<1>1. 0 \in S
  <2>1. DrawnIn(T, t, 0) = <<>> BY DrawnSteps
  <2>2. <<>> \in Seq(Nat) OBVIOUS
  <2> QED BY <2>1, <2>2
<1>2. ASSUME NEW n \in Nat, n \in S PROVE n + 1 \in S
  <2>1. DrawnIn(T, t, n + 1) = Extended(T, t, n + 1, DrawnIn(T, t, n)) BY DrawnSteps
  <2>2. PICK x : x = DrawnIn(T, t, n) OBVIOUS
  <2>3. x \in Seq(Nat) BY <1>2, <2>2
  <2>4. Extended(T, t, n + 1, x) \in Seq(Nat) BY <2>3 DEF Extended
  <2> QED BY <2>1, <2>2, <2>4
<1> HIDE DEF S
<1>3. Nat \subseteq S BY <1>1, <1>2, Induct
<1> QED BY <1>3 DEF S

LEMMA DrawnGrows ==
  ASSUME NEW T, NEW t, NEW a \in Nat, NEW b \in Nat, a <= b
  PROVE  Len(DrawnIn(T, t, a)) <= Len(DrawnIn(T, t, b))
<1> DEFINE S == {i \in Nat : Len(DrawnIn(T, t, a)) <= Len(DrawnIn(T, t, a + i))}
<1>0. \A n \in Nat : Len(DrawnIn(T, t, n)) \in Nat BY DrawnNumbers
<1>1. 0 \in S
  <2>1. a + 0 = a OBVIOUS
  <2> QED BY <1>0, <2>1
<1>2. ASSUME NEW n \in Nat, n \in S PROVE n + 1 \in S
  <2>1. PICK m, x : m = a + n /\ x = DrawnIn(T, t, m) OBVIOUS
  <2>2. m \in Nat /\ a + (n + 1) = m + 1 BY <2>1
  <2>3. x \in Seq(Nat) BY <2>1, <2>2, DrawnNumbers
  <2>4. Len(x) <= Len(Extended(T, t, m + 1, x)) BY <2>3 DEF Extended
  <2>5. DrawnIn(T, t, m + 1) = Extended(T, t, m + 1, x) BY <2>1, <2>2, DrawnSteps
  <2>6. Len(DrawnIn(T, t, a)) <= Len(x) BY <1>2, <2>1
  <2>7. Len(x) <= Len(DrawnIn(T, t, a + (n + 1))) BY <2>2, <2>4, <2>5
  <2>8. Len(DrawnIn(T, t, a)) \in Nat /\ Len(x) \in Nat /\ Len(DrawnIn(T, t, a + (n + 1))) \in Nat
    BY <1>0, <2>1, <2>2
  <2> QED BY <2>6, <2>7, <2>8
<1> HIDE DEF S
<1>3. Nat \subseteq S BY <1>1, <1>2, Induct
<1>4. b - a \in S /\ a + (b - a) = b BY <1>3
<1> QED BY <1>4 DEF S

\* Triangles that do not touch a tile leave it as it was.
LEMMA DrawnSkips ==
  ASSUME NEW T, NEW t, NEW a \in Nat, NEW b \in Nat, a <= b,
         \A k \in a .. (b - 1) : t \notin T[k + 1]
  PROVE  DrawnIn(T, t, b) = DrawnIn(T, t, a)
<1> DEFINE S == {i \in Nat : a + i <= b => DrawnIn(T, t, a + i) = DrawnIn(T, t, a)}
<1>1. 0 \in S
  <2>1. a + 0 = a OBVIOUS
  <2> QED BY <2>1
<1>2. ASSUME NEW n \in Nat, n \in S PROVE n + 1 \in S
  <2>1. PICK m : m = a + n OBVIOUS
  <2> SUFFICES ASSUME m + 1 <= b PROVE DrawnIn(T, t, m + 1) = DrawnIn(T, t, a)
    BY <2>1
  <2>2. m \in Nat /\ m \in a .. (b - 1) BY <2>1
  <2>3. DrawnIn(T, t, m) = DrawnIn(T, t, a) BY <1>2, <2>1
  <2>4. DrawnIn(T, t, m + 1) = Extended(T, t, m + 1, DrawnIn(T, t, m)) BY <2>2, DrawnSteps
  <2>5. t \notin T[m + 1] BY <2>2
  <2> QED BY <2>3, <2>4, <2>5 DEF Extended
<1> HIDE DEF S
<1>3. Nat \subseteq S BY <1>1, <1>2, Induct
<1>4. b - a \in S /\ a + (b - a) = b BY <1>3
<1> QED BY <1>4 DEF S

\* Later triangles do not matter.
LEMMA DrawnAgrees ==
  ASSUME NEW T, NEW U, NEW t, NEW k \in Nat, \A i \in 1 .. k : T[i] = U[i]
  PROVE  DrawnIn(T, t, k) = DrawnIn(U, t, k)
<1> DEFINE S == {i \in Nat : i <= k => DrawnIn(T, t, i) = DrawnIn(U, t, i)}
<1>1. 0 \in S BY DrawnSteps
<1>2. ASSUME NEW n \in Nat, n \in S PROVE n + 1 \in S
  <2> SUFFICES ASSUME n + 1 <= k PROVE DrawnIn(T, t, n + 1) = DrawnIn(U, t, n + 1)
    OBVIOUS
  <2>1. DrawnIn(T, t, n) = DrawnIn(U, t, n) BY <1>2
  <2>2. DrawnIn(T, t, n + 1) = Extended(T, t, n + 1, DrawnIn(T, t, n)) BY DrawnSteps
  <2>3. DrawnIn(U, t, n + 1) = Extended(U, t, n + 1, DrawnIn(U, t, n)) BY DrawnSteps
  <2>4. T[n + 1] = U[n + 1] OBVIOUS
  <2> QED BY <2>1, <2>2, <2>3, <2>4 DEF Extended
<1> HIDE DEF S
<1>3. Nat \subseteq S BY <1>1, <1>2, Induct
<1> QED BY <1>3 DEF S

-----------------------------------------------------------------------------
(* What chunks and SPUs say of the pixels: the invariant.                  *)

\* The tiles from a to e are drawn up to triangle k.
UpTo(T, P, a, e, k) == \A t \in a .. e : P[t] = DrawnIn(T, t, k)

\* What a chunk nobody works on says of its tiles.
LineTrue(C, N, l, T, P) ==
  \A c \in C : l.chunkNext[c] < 32 =>
    UpTo(T, P, l.chunkStart[c], Ends(N, l, c), l.chunkTriangle[c])

\* A chunk in use is not at the last triangle.
Behind(C, K, l) ==
  \A c \in C : l.chunkNext[c] < 64 /\ ~(l.chunkNext[c] < 32) => l.chunkTriangle[c] < K

\* A tile as its SPU sees it: in a buffer, or in memory.
Shown(P, B, t) == IF t \in DOMAIN B THEN B[t] ELSE P[t]

\* What an SPU with a chunk from a to e that was at triangle k knows of its tiles.
SpuTrue(T, P, s, B, a, e, k) ==
  /\ s.pc \in Splitting \cup {"search"} =>
       UpTo(T, P, a, e, s.chunkTriangle) /\ UpTo(T, P, a, e, k)
  /\ s.pc \in Splitting => \A t \in a .. (s.firstTile - 1) : t \notin T[s.chunkTriangle + 1]
  /\ s.pc = "render" =>
       /\ \A t \in a .. e : t \notin s.thisBlockStart .. s.chunkEnd => t \notin T[s.chunkTriangle + 1]
       /\ s.chunkStart = s.realBlockStart => a = s.thisBlockStart /\ e = s.chunkEnd
  /\ s.pc \in Drawing =>
       \A t \in a .. e : /\ Shown(P, B, t) = DrawnIn(T, t, s.chunkTriangle)
                         /\ \E j \in 0 .. s.chunkTriangle : P[t] = DrawnIn(T, t, j)
  /\ s.pc = "finish" => UpTo(T, P, a, e, s.chunkTriangle)

SpuTrueAt(N, l, T, P, s, B) ==
  LET c == s.chunkToProcess
  IN s.pc # "idle" => SpuTrue(T, P, s, B, l.chunkStart[c], Ends(N, l, c), l.chunkTriangle[c])

\* Every tile carries the triangles up to some one.
PixelsTrue(N, K, T, P) == \A t \in 0 .. (N - 1) : \E k \in 0 .. K : P[t] = DrawnIn(T, t, k)

TruthInv ==
  /\ LineTrue(Chunks, NumTiles, cache, triangles, pixels)
  /\ Behind(Chunks, endTriangle, cache)
  /\ PixelsTrue(NumTiles, endTriangle, triangles, pixels)
  /\ \A p \in Spus : SpuTrueAt(NumTiles, cache, triangles, pixels, spu[p], buffer[p])

LEMMA ChunkTiles ==
  ASSUME NEW C, Entries(C), NEW N \in Nat, NEW K, NEW l, GoodLine(C, N, K, l),
         NEW c \in C, l.chunkNext[c] < 64
  PROVE  l.chunkStart[c] \in 0 .. (N - 1) /\ Ends(N, l, c) \in 0 .. (N - 1)
<1>1. PICK n : n = NextOf(l.chunkNext[c]) OBVIOUS
<1>2. l.chunkNext[c] \in Links(C) BY DEF GoodLine, Lines
<1>3. n \in C /\ l.chunkNext[c] \in {n, n + 32} BY <1>1, <1>2, LinkFacts
<1>4. /\ IsChunk(Ring(C, l.chunkNext), N, l.chunkStart, c, n)
      /\ Ends(N, l, c) = EndOf(N, l.chunkStart, n)
  BY <1>3, ClaimedChunk
<1> QED BY <1>4 DEF IsChunk

LEMMA MergedTrue ==
  ASSUME NEW C, Entries(C), NEW N \in Nat, NEW K, NEW l, NEW m, GoodLine(C, N, K, m),
         Merged(C, N, l, m), NEW T, NEW P
  PROVE  /\ LineTrue(C, N, l, T, P) => LineTrue(C, N, m, T, P)
         /\ Behind(C, K, l) => Behind(C, K, m)
<1>1. ASSUME LineTrue(C, N, l, T, P), NEW c \in C, m.chunkNext[c] < 32,
             NEW t \in m.chunkStart[c] .. Ends(N, m, c)
      PROVE  P[t] = DrawnIn(T, t, m.chunkTriangle[c])
  <2>0. m.chunkNext[c] < 64
    <3>1. m.chunkNext[c] \in Links(C) BY DEF GoodLine, Lines
    <3>2. m.chunkNext[c] \in Nat BY <3>1, LinkFacts
    <3> QED BY <1>1, <3>2
  <2>1. m.chunkStart[c] \in 0 .. (N - 1) /\ Ends(N, m, c) \in 0 .. (N - 1)
    BY <2>0, ChunkTiles
  <2>2. t \in Int /\ m.chunkStart[c] <= t /\ t <= Ends(N, m, c) BY <2>1
  <2>3. PICK d \in C : /\ l.chunkNext[d] < 32
                       /\ l.chunkStart[d] <= t /\ t <= Ends(N, l, d)
                       /\ l.chunkTriangle[d] = l.chunkTriangle[c]
    BY <1>1, <2>2 DEF Merged
  <2>4. t \in l.chunkStart[d] .. Ends(N, l, d) BY <2>2, <2>3
  <2>5. m.chunkTriangle[c] = l.chunkTriangle[d] BY <2>3 DEF Merged
  <2> QED BY <1>1, <2>3, <2>4, <2>5 DEF LineTrue, UpTo
<1>2. ASSUME Behind(C, K, l), NEW c \in C, m.chunkNext[c] < 64, ~(m.chunkNext[c] < 32)
      PROVE  m.chunkTriangle[c] < K
  <2>1. l.chunkNext[c] < 64 BY <1>2 DEF Merged
  <2>2. m.chunkTriangle[c] = l.chunkTriangle[c] BY DEF Merged
  <2>3. CASE ~(l.chunkNext[c] < 32) BY <1>2, <2>1, <2>2, <2>3 DEF Behind
  <2>4. CASE l.chunkNext[c] < 32
    <3>1. m.chunkNext[c] \in {l.chunkNext[c], 255} \/ m.chunkNext[c] < 32 BY DEF Merged
    <3> QED BY <1>2, <2>4, <3>1
  <2> QED BY <2>3, <2>4
<1> QED BY <1>1, <1>2 DEF LineTrue, UpTo, Behind

LEMMA TruthFacts ==
  ASSUME RInv, TruthInv
  PROVE  /\ \A p \in Spus :
              /\ spu[p] \in Locals(Chunks, NumTiles, endTriangle)
              /\ SpuAt(Chunks, NumTiles, endTriangle, cache, spu[p], p \in resv, DOMAIN buffer[p])
              /\ SpuTrueAt(NumTiles, cache, triangles, pixels, spu[p], buffer[p])
         /\ LineTrue(Chunks, NumTiles, cache, triangles, pixels)
         /\ Behind(Chunks, endTriangle, cache)
         /\ PixelsTrue(NumTiles, endTriangle, triangles, pixels)
BY DEF RInv, Types, SpuInv, TruthInv

\* The chunk of an SPU, as the line has it.
LEMMA OwnTiles ==
  ASSUME NEW C, Entries(C), NEW N \in Nat, NEW K, NEW l, GoodLine(C, N, K, l),
         NEW s \in Locals(C, N, K), OwnsChunk(C, K, l, s), s.pc # "idle"
  PROVE  /\ s.chunkToProcess \in C
         /\ l.chunkNext[s.chunkToProcess] < 64 /\ ~(l.chunkNext[s.chunkToProcess] < 32)
         /\ l.chunkStart[s.chunkToProcess] \in 0 .. (N - 1)
         /\ Ends(N, l, s.chunkToProcess) \in 0 .. (N - 1)
<1>1. PICK c : c = s.chunkToProcess OBVIOUS
<1>2. c \in C /\ s.chunkNext \in C /\ l.chunkNext[c] = s.chunkNext + 32
  BY <1>1 DEF OwnsChunk, Locals, CHUNKNEXT_BUSY_BIT
<1>3. l.chunkNext[c] < 64 /\ ~(l.chunkNext[c] < 32)
  <2>1. \A d \in C : d \in Nat /\ d + 32 < 64 BY LinkFacts
  <2> QED BY <1>2, <2>1
<1>4. l.chunkStart[c] \in 0 .. (N - 1) /\ Ends(N, l, c) \in 0 .. (N - 1)
  BY <1>2, <1>3, ChunkTiles
<1> QED BY <1>1, <1>2, <1>3, <1>4

\* A step that spares the chunk of an SPU leaves what it knows of the tiles true.
LEMMA SpareTrue ==
  ASSUME NEW C, Entries(C), NEW N \in Nat, NEW K, NEW l, NEW m,
         GoodLine(C, N, K, l), GoodLine(C, N, K, m),
         \A d \in C : l.chunkNext[d] < 64 /\ m.chunkNext[d] < 64 =>
                        m.chunkStart[d] = l.chunkStart[d],
         NEW z \in Locals(C, N, K), OwnsChunk(C, K, l, z), Spares(C, l, m, z),
         NEW T, NEW P, NEW B, SpuTrueAt(N, l, T, P, z, B)
  PROVE  SpuTrueAt(N, m, T, P, z, B)
<1> SUFFICES ASSUME z.pc # "idle" PROVE SpuTrueAt(N, m, T, P, z, B)
  BY DEF SpuTrueAt
<1>1. PICK c : c = z.chunkToProcess OBVIOUS
<1>2. c \in C /\ l.chunkNext[c] < 64 BY <1>1, OwnTiles
<1>3. m.chunkNext[c] = l.chunkNext[c] /\ m.chunkTriangle[c] = l.chunkTriangle[c] BY <1>1 DEF Spares
<1>4. m.chunkStart[c] = l.chunkStart[c] /\ Ends(N, m, c) = Ends(N, l, c)
  BY <1>2, <1>3, KeptEnd
<1> QED BY <1>1, <1>3, <1>4 DEF SpuTrueAt

LEMMA WritesTrue ==
  ASSUME RInv, TruthInv, NEW p \in Spus, NEW s, Writes(p, s),
         LineTrue(Chunks, NumTiles, cache', triangles, pixels),
         Behind(Chunks, endTriangle, cache'),
         SpuTrueAt(NumTiles, cache', triangles, pixels, s, buffer[p])
  PROVE  TruthInv'
<1>0. /\ spu' = [spu EXCEPT ![p] = s]
      /\ UNCHANGED <<triangles, buffer, pixels>>
      /\ GoodLine(Chunks, NumTiles, endTriangle, cache')
      /\ \A d \in Chunks : cache.chunkNext[d] < 64 /\ cache'.chunkNext[d] < 64 =>
                         cache'.chunkStart[d] = cache.chunkStart[d]
      /\ \A q \in Spus \ {p} : Spares(Chunks, cache, cache', spu[q])
  BY DEF Writes
<1>1. Chunks' = Chunks BY <1>0, LineDomain DEF Chunks
<1>2. NumTiles' = NumTiles /\ endTriangle' = endTriangle BY <1>0 DEF NumTiles, Tiles, endTriangle
<1>3. spu \in [Spus -> Locals(Chunks, NumTiles, endTriangle)] BY DEF RInv, Types
<1>4. spu'[p] = s /\ \A q \in Spus \ {p} : spu'[q] = spu[q] BY <1>0, <1>3
<1>5. /\ Entries(Chunks) /\ NumTiles \in Nat /\ GoodLine(Chunks, NumTiles, endTriangle, cache)
  BY RingFacts
<1>6. ASSUME NEW q \in Spus
      PROVE  SpuTrueAt(NumTiles, cache, triangles, pixels, spu[q], buffer[q])'
  <2>1. CASE q = p BY <1>0, <1>2, <1>4, <2>1
  <2>2. CASE q # p
    <3>1. PICK z, B : z = spu[q] /\ B = buffer[q] OBVIOUS
    <3>2. /\ z \in Locals(Chunks, NumTiles, endTriangle)
          /\ OwnsChunk(Chunks, endTriangle, cache, z)
          /\ SpuTrueAt(NumTiles, cache, triangles, pixels, z, B)
      BY <3>1, TruthFacts DEF SpuAt
    <3>3. Spares(Chunks, cache, cache', z) BY <1>0, <2>2, <3>1
    <3>4. SpuTrueAt(NumTiles, cache', triangles, pixels, z, B)
      BY <1>0, <1>5, <3>2, <3>3, SpareTrue
    <3>5. spu'[q] = z /\ buffer'[q] = B BY <1>0, <1>4, <2>2, <3>1
    <3> QED BY <1>0, <1>2, <3>4, <3>5
  <2> QED BY <2>1, <2>2
<1>7. LineTrue(Chunks, NumTiles, cache, triangles, pixels)' BY <1>0, <1>1, <1>2
<1>8. Behind(Chunks, endTriangle, cache)' BY <1>1, <1>2
<1>9. PixelsTrue(NumTiles, endTriangle, triangles, pixels)' BY <1>0, <1>2, TruthFacts
<1> QED BY <1>6, <1>7, <1>8, <1>9 DEF TruthInv

LEMMA LeavesTrue ==
  ASSUME RInv, TruthInv, NEW p \in Spus, NEW s, Leaves(p, s), UNCHANGED pixels,
         SpuTrueAt(NumTiles, cache, triangles, pixels, s, buffer'[p])
  PROVE  TruthInv'
<1>0. /\ spu' = [spu EXCEPT ![p] = s]
      /\ UNCHANGED <<triangles, cache, pixels>>
      /\ \A q \in Spus \ {p} : buffer'[q] = buffer[q]
  BY DEF Leaves
<1>1. Chunks' = Chunks /\ NumTiles' = NumTiles /\ endTriangle' = endTriangle
  BY <1>0 DEF Chunks, NumTiles, Tiles, endTriangle
<1>3. spu \in [Spus -> Locals(Chunks, NumTiles, endTriangle)] BY DEF RInv, Types
<1>4. spu'[p] = s /\ \A q \in Spus \ {p} : spu'[q] = spu[q] BY <1>0, <1>3
<1>6. ASSUME NEW q \in Spus
      PROVE  SpuTrueAt(NumTiles, cache, triangles, pixels, spu[q], buffer[q])'
  <2>1. CASE q = p BY <1>0, <1>1, <1>4, <2>1
  <2>2. CASE q # p
    <3>1. SpuTrueAt(NumTiles, cache, triangles, pixels, spu[q], buffer[q]) BY TruthFacts
    <3>2. spu'[q] = spu[q] /\ buffer'[q] = buffer[q] BY <1>0, <1>4, <2>2
    <3> QED BY <1>0, <1>1, <3>1, <3>2
  <2> QED BY <2>1, <2>2
<1>7. /\ LineTrue(Chunks, NumTiles, cache, triangles, pixels)'
      /\ Behind(Chunks, endTriangle, cache)'
      /\ PixelsTrue(NumTiles, endTriangle, triangles, pixels)'
  BY <1>0, <1>1, TruthFacts
<1> QED BY <1>6, <1>7 DEF TruthInv

LEMMA Init_Truth == Init => TruthInv
<1> SUFFICES ASSUME Init PROVE TruthInv OBVIOUS
<1>0. RInv BY Init_RInv
<1>1. PICK layout \in Layouts :
        /\ cache = [chunkTriangle |-> [c \in 0 .. (layout[2] - 1) |-> 0],
                    chunkStart |-> [c \in 0 .. (layout[2] - 1) |-> 0],
                    chunkNext |-> [c \in 0 .. (layout[2] - 1) |->
                                     IF c = 0 THEN 0 ELSE CHUNKNEXT_FREE_BLOCK]]
        /\ pixels = [t \in 0 .. (layout[1] - 1) |-> <<>>]
        /\ triangles = <<>>
        /\ spu = [p \in Spus |-> Idle]
  BY DEF Init
<1>2. PICK C, N, K, l : C = Chunks /\ N = NumTiles /\ K = endTriangle /\ l = cache OBVIOUS
<1>3. /\ Entries(C) /\ N \in Nat /\ Tiles = 0 .. (N - 1) /\ GoodLine(C, N, K, l)
  BY <1>0, <1>2, RingFacts
<1>4. C = 0 .. (layout[2] - 1) /\ Tiles = 0 .. (layout[1] - 1) BY <1>1, <1>2 DEF Chunks, Tiles
<1>5. \A t \in 0 .. (N - 1) : pixels[t] = DrawnIn(triangles, t, 0)
  <2>1. \A t : DrawnIn(triangles, t, 0) = <<>> BY DrawnSteps
  <2>2. \A t \in 0 .. (N - 1) : pixels[t] = <<>> BY <1>1, <1>3, <1>4
  <2> QED BY <2>1, <2>2
<1>6. K = 0 BY <1>1, <1>2 DEF endTriangle
<1>7. \A c \in C : /\ l.chunkTriangle[c] = 0
                   /\ l.chunkNext[c] < 64 => l.chunkNext[c] < 32
  <2>1. l.chunkTriangle = [c \in C |-> 0]
        /\ l.chunkNext = [c \in C |-> IF c = 0 THEN 0 ELSE 255]
    BY <1>1, <1>2, <1>4 DEF CHUNKNEXT_FREE_BLOCK
  <2> QED BY <2>1
<1>8. LineTrue(C, N, l, triangles, pixels)
  <2> SUFFICES ASSUME NEW c \in C, l.chunkNext[c] < 32,
                      NEW t \in l.chunkStart[c] .. Ends(N, l, c)
               PROVE  pixels[t] = DrawnIn(triangles, t, l.chunkTriangle[c])
    BY DEF LineTrue, UpTo
  <2>0. l.chunkNext[c] < 64
    <3>1. l.chunkNext[c] \in Links(C) BY <1>3 DEF GoodLine, Lines
    <3>2. l.chunkNext[c] \in Nat BY <1>3, <3>1, LinkFacts
    <3> QED BY <3>2
  <2>1. l.chunkStart[c] \in 0 .. (N - 1) /\ Ends(N, l, c) \in 0 .. (N - 1)
    BY <1>3, <2>0, ChunkTiles
  <2>2. t \in 0 .. (N - 1) BY <1>3, <2>1
  <2> QED BY <1>5, <1>7, <2>2
<1>9. Behind(C, K, l) BY <1>7 DEF Behind
<1>10. PixelsTrue(N, K, triangles, pixels) BY <1>5, <1>6 DEF PixelsTrue
<1>11. ASSUME NEW p \in Spus PROVE SpuTrueAt(N, l, triangles, pixels, spu[p], buffer[p])
  BY <1>1, <1>11 DEF SpuTrueAt, Idle
<1> QED BY <1>2, <1>8, <1>9, <1>10, <1>11 DEF TruthInv

LEMMA Idle_Truth == ASSUME TruthInv, UNCHANGED vars PROVE TruthInv'
<1>1. UNCHANGED <<triangles, cache, resv, spu, buffer, pixels>> BY DEF vars
<1>2. Chunks' = Chunks /\ NumTiles' = NumTiles /\ endTriangle' = endTriangle
  BY <1>1 DEF Chunks, NumTiles, endTriangle, Tiles
<1> QED BY <1>1, <1>2 DEF TruthInv

LEMMA Submit_Truth == ASSUME RInv, TruthInv, Submit PROVE TruthInv'
<1>1. PICK cover \in Coverages[NumTiles] : triangles' = Append(triangles, cover) BY DEF Submit
<1>2. UNCHANGED <<cache, spu, buffer, pixels>> BY DEF Submit
<1>3. PICK C, N, K, l, T, U, P : /\ C = Chunks /\ N = NumTiles /\ K = endTriangle /\ l = cache
                                 /\ T = triangles /\ U = triangles' /\ P = pixels
  OBVIOUS
<1>4. Chunks' = C /\ NumTiles' = N BY <1>2, <1>3 DEF Chunks, NumTiles, Tiles
<1>5. /\ endTriangle' = K + 1 /\ \A i \in 1 .. K : U[i] = T[i]
  <2>1. triangles \in Seq(Coverages[NumTiles]) BY DEF RInv, Types
  <2> QED BY <1>1, <1>3, <2>1 DEF endTriangle
<1>6. /\ Entries(C) /\ N \in Nat /\ K \in Nat /\ GoodLine(C, N, K, l)
      /\ l.chunkTriangle \in [C -> 0 .. K]
  BY <1>3, RingFacts
<1>7. \A t : \A k \in 0 .. K : DrawnIn(U, t, k) = DrawnIn(T, t, k)
  <2> SUFFICES ASSUME NEW t, NEW k \in 0 .. K PROVE DrawnIn(U, t, k) = DrawnIn(T, t, k)
    OBVIOUS
  <2>1. k \in Nat /\ \A i \in 1 .. k : U[i] = T[i] BY <1>5, <1>6
  <2> QED BY <2>1, DrawnAgrees
<1>8. LineTrue(C, N, l, U, P)
  <2>1. LineTrue(C, N, l, T, P) BY <1>3, TruthFacts
  <2> QED BY <1>6, <1>7, <2>1 DEF LineTrue, UpTo
<1>9. Behind(C, K + 1, l)
  <2>1. Behind(C, K, l) BY <1>3, TruthFacts
  <2> QED BY <1>6, <2>1 DEF Behind
<1>10. PixelsTrue(N, K + 1, U, P)
  <2>1. PixelsTrue(N, K, T, P) BY <1>3, TruthFacts
  <2>2. 0 .. K \subseteq 0 .. (K + 1) BY <1>6
  <2> QED BY <1>7, <2>1, <2>2 DEF PixelsTrue
<1>11. ASSUME NEW q \in Spus PROVE SpuTrueAt(N, l, U, P, spu[q], buffer[q])
  <2>1. PICK z, B : z = spu[q] /\ B = buffer[q] OBVIOUS
  <2>2. z \in Locals(C, N, K) /\ SpuAt(C, N, K, l, z, q \in resv, DOMAIN B)
        /\ SpuTrueAt(N, l, T, P, z, B)
    BY <1>3, <2>1, TruthFacts
  <2> SUFFICES ASSUME z.pc # "idle" PROVE SpuTrueAt(N, l, U, P, z, B)
    BY <2>1 DEF SpuTrueAt
  <2>3. PICK c, a, e, j, k : /\ c = z.chunkToProcess /\ a = l.chunkStart[c] /\ e = Ends(N, l, c)
                             /\ j = l.chunkTriangle[c] /\ k = z.chunkTriangle
    OBVIOUS
  <2>4. SpuTrue(T, P, z, B, a, e, j) BY <2>2, <2>3 DEF SpuTrueAt
  <2>5. c \in C /\ j \in 0 .. K /\ k \in 0 .. K
    BY <1>6, <2>2, <2>3 DEF SpuAt, OwnsChunk, Locals
  <2>6. z.pc \in Splitting \cup {"render"} => U[k + 1] = T[k + 1]
    <3> SUFFICES ASSUME z.pc \in Splitting \cup {"render"} PROVE U[k + 1] = T[k + 1]
      OBVIOUS
    <3>1. k < z.endTriangle BY <2>2, <2>3 DEF SpuAt, KnowsChunk, KnowsBlock, Splitting, Drawing
    <3>2. k + 1 \in 1 .. K BY <1>6, <2>2, <2>5, <3>1 DEF Locals
    <3> QED BY <1>5, <3>2
  <2>7. \A t : DrawnIn(U, t, k) = DrawnIn(T, t, k) /\ DrawnIn(U, t, j) = DrawnIn(T, t, j)
    BY <1>7, <2>5
  <2>8. \A t : \A i \in 0 .. k : DrawnIn(U, t, i) = DrawnIn(T, t, i)
    <3>1. 0 .. k \subseteq 0 .. K BY <1>6, <2>5
    <3> QED BY <1>7, <3>1
  <2>9. SpuTrue(U, P, z, B, a, e, j)
    <3>1. z.pc \in Splitting \cup {"search"} => UpTo(U, P, a, e, k) /\ UpTo(U, P, a, e, j)
      BY <2>3, <2>4, <2>7 DEF SpuTrue, UpTo
    <3>2. z.pc \in Splitting => \A t \in a .. (z.firstTile - 1) : t \notin U[k + 1]
      BY <2>3, <2>4, <2>6 DEF SpuTrue
    <3>3. z.pc = "render" =>
            /\ \A t \in a .. e : t \notin z.thisBlockStart .. z.chunkEnd => t \notin U[k + 1]
            /\ z.chunkStart = z.realBlockStart => a = z.thisBlockStart /\ e = z.chunkEnd
      BY <2>3, <2>4, <2>6 DEF SpuTrue
    <3>4. z.pc \in Drawing =>
            \A t \in a .. e : /\ Shown(P, B, t) = DrawnIn(U, t, k)
                              /\ \E i \in 0 .. k : P[t] = DrawnIn(U, t, i)
      BY <2>3, <2>4, <2>7, <2>8 DEF SpuTrue
    <3>5. z.pc = "finish" => UpTo(U, P, a, e, k) BY <2>3, <2>4, <2>7 DEF SpuTrue, UpTo
    <3> QED BY <2>3, <3>1, <3>2, <3>3, <3>4, <3>5 DEF SpuTrue
  <2> QED BY <2>3, <2>9 DEF SpuTrueAt
<1>12. cache' = l /\ triangles' = U /\ pixels' = P /\ spu' = spu /\ buffer' = buffer BY <1>2, <1>3
<1>13. \A q \in Spus : SpuTrueAt(NumTiles, cache, triangles, pixels, spu[q], buffer[q])'
  BY <1>4, <1>11, <1>12
<1> QED BY <1>4, <1>5, <1>8, <1>9, <1>10, <1>12, <1>13 DEF TruthInv

-----------------------------------------------------------------------------
(* Claim, Search, Relinquish and Finish.                                   *)

LEMMA Claim_Truth == ASSUME RInv, TruthInv, NEW p \in Spus, Claim(p) PROVE TruthInv'
<1>1. PICK C, N, K, l, m, T, P, B : /\ C = Chunks /\ N = NumTiles /\ K = endTriangle /\ l = cache
                                    /\ m = cache' /\ T = triangles /\ P = pixels /\ B = buffer[p]
  OBVIOUS
<1>2. PICK c, e, z : Writes(p, z) /\ ClaimDone(C, N, K, l, m, c, e, z)
  BY <1>1, Claim_Step
<1>3. /\ Entries(C) /\ N \in Nat /\ GoodLine(C, N, K, l) /\ l.chunkNext \in [C -> Links(C)]
      /\ LineTrue(C, N, l, T, P) /\ Behind(C, K, l)
  BY <1>1, RingFacts, TruthFacts
<1>4. /\ c \in C /\ l.chunkNext[c] < 32 /\ m.chunkNext[c] = l.chunkNext[c] + 32
      /\ m.chunkStart = l.chunkStart
      /\ \A d \in C \ {c, e} : m.chunkNext[d] = l.chunkNext[d]
      /\ \A d \in C \ {e} : m.chunkTriangle[d] = l.chunkTriangle[d]
      /\ e # NoChunk => m.chunkNext[e] = 254
      /\ c # e
      /\ z.pc = "search" /\ z.chunkToProcess = c
      /\ Ends(N, m, c) = Ends(N, l, c)
      /\ z.chunkTriangle = l.chunkTriangle[c]
  BY <1>2 DEF ClaimDone
<1>5. ~(m.chunkNext[c] < 32)
  <2>1. l.chunkNext[c] \in Nat BY <1>3, <1>4, LinkFacts
  <2> QED BY <1>4, <2>1
<1>6. \A d \in C : m.chunkNext[d] < 64 /\ d # c =>
        /\ m.chunkNext[d] = l.chunkNext[d] /\ m.chunkTriangle[d] = l.chunkTriangle[d]
        /\ Ends(N, m, d) = Ends(N, l, d)
  <2> SUFFICES ASSUME NEW d \in C, m.chunkNext[d] < 64, d # c
               PROVE  /\ m.chunkNext[d] = l.chunkNext[d] /\ m.chunkTriangle[d] = l.chunkTriangle[d]
                      /\ Ends(N, m, d) = Ends(N, l, d)
    OBVIOUS
  <2>1. d # NoChunk BY <1>3, LinkFacts
  <2>2. d # e BY <1>4, <2>1
  <2>3. m.chunkNext[d] = l.chunkNext[d] /\ m.chunkTriangle[d] = l.chunkTriangle[d] BY <1>4, <2>2
  <2> QED BY <1>4, <2>3 DEF Ends
<1>m. GoodLine(C, N, K, m) BY <1>1, <1>2 DEF Writes
<1>7. \A d \in C : m.chunkNext[d] < 32 => m.chunkNext[d] < 64
  <2>1. \A d \in C : m.chunkNext[d] \in Nat
    <3>1. m.chunkNext \in [C -> Links(C)] BY <1>m DEF GoodLine, Lines
    <3> QED BY <1>3, <3>1, LinkFacts
  <2> QED BY <2>1
<1>8. LineTrue(C, N, m, T, P)
  <2> SUFFICES ASSUME NEW d \in C, m.chunkNext[d] < 32
               PROVE  UpTo(T, P, m.chunkStart[d], Ends(N, m, d), m.chunkTriangle[d])
    BY DEF LineTrue
  <2>1. d # c BY <1>5
  <2> QED BY <1>3, <1>4, <1>6, <1>7, <2>1 DEF LineTrue
<1>9. Behind(C, K, m)
  <2> SUFFICES ASSUME NEW d \in C, m.chunkNext[d] < 64, ~(m.chunkNext[d] < 32)
               PROVE  m.chunkTriangle[d] < K
    BY DEF Behind
  <2>1. CASE d = c
    <3>1. OwnsChunk(C, K, m, z) BY <1>1, <1>2 DEF Writes, SpuAt
    <3> QED BY <1>4, <2>1, <3>1 DEF OwnsChunk
  <2>2. CASE d # c BY <1>3, <1>6, <2>2 DEF Behind
  <2> QED BY <2>1, <2>2
<1>10. SpuTrueAt(N, m, T, P, z, B)
  <2>1. UpTo(T, P, l.chunkStart[c], Ends(N, l, c), l.chunkTriangle[c]) BY <1>3, <1>4 DEF LineTrue
  <2>2. PICK a, f, k : a = l.chunkStart[c] /\ f = Ends(N, l, c) /\ k = l.chunkTriangle[c] OBVIOUS
  <2>3. m.chunkStart[c] = a /\ Ends(N, m, c) = f /\ m.chunkTriangle[c] = k BY <1>4, <2>2
  <2>4. SpuTrue(T, P, z, B, a, f, k)
    BY <1>4, <2>1, <2>2 DEF SpuTrue, Splitting, Drawing
  <2> QED BY <1>4, <2>3, <2>4 DEF SpuTrueAt
<1> QED BY <1>1, <1>2, <1>8, <1>9, <1>10, WritesTrue

LEMMA Search_Truth == ASSUME RInv, TruthInv, NEW p \in Spus, Search(p) PROVE TruthInv'
<1>1. PICK C, N, K, l, T, P, B, s :
        /\ C = Chunks /\ N = NumTiles /\ K = endTriangle /\ l = cache
        /\ T = triangles /\ P = pixels /\ B = buffer[p] /\ s = spu[p]
  OBVIOUS
<1>2. PICK z : /\ Leaves(p, z) /\ SearchDone(T, s, z)
               /\ s.pc = "search" /\ UNCHANGED <<buffer, pixels>>
  BY <1>1, Search_Step
<1>3. /\ Entries(C) /\ N \in Nat /\ K \in Nat /\ GoodLine(C, N, K, l)
      /\ s \in Locals(C, N, K) /\ SpuAt(C, N, K, l, s, p \in resv, DOMAIN B)
      /\ SpuTrueAt(N, l, T, P, s, B)
  BY <1>1, RingFacts, TruthFacts
<1>4. PICK c, a, e, k, j : /\ c = s.chunkToProcess /\ a = l.chunkStart[c] /\ e = Ends(N, l, c)
                           /\ k = l.chunkTriangle[c] /\ j = s.chunkTriangle
  OBVIOUS
<1>5. UpTo(T, P, a, e, j) /\ UpTo(T, P, a, e, k)
  BY <1>2, <1>3, <1>4 DEF SpuTrueAt, SpuTrue
<1>6. /\ s.chunkStart = a /\ s.chunkEnd = e /\ j < s.endTriangle
      /\ j \in Nat /\ s.endTriangle \in Nat
  BY <1>2, <1>3, <1>4 DEF SpuAt, KnowsChunk, Locals
<1>7. z.chunkToProcess = c /\ SpuTrue(T, P, z, B, a, e, k)
  <2>1. CASE /\ z = [s EXCEPT !.pc = "finish", !.chunkTriangle = s.endTriangle]
             /\ \A i \in j .. (s.endTriangle - 1) : T[i + 1] \cap (a .. e) = {}
    <3>1. z.pc = "finish" /\ z.chunkTriangle = s.endTriangle /\ z.chunkToProcess = c
      BY <1>3, <1>4, <2>1 DEF Locals
    <3>2. ASSUME NEW t \in a .. e PROVE P[t] = DrawnIn(T, t, s.endTriangle)
      <4>1. \A i \in j .. (s.endTriangle - 1) : t \notin T[i + 1] BY <2>1, <3>2
      <4>2. j <= s.endTriangle BY <1>6
      <4>3. DrawnIn(T, t, s.endTriangle) = DrawnIn(T, t, j) BY <1>6, <4>1, <4>2, DrawnSkips
      <4> QED BY <1>5, <3>2, <4>3 DEF UpTo
    <3>3. UpTo(T, P, a, e, s.endTriangle) BY <3>2 DEF UpTo
    <3> QED BY <3>1, <3>3 DEF SpuTrue, Splitting, Drawing
  <2>2. ASSUME NEW hit \in j .. (s.endTriangle - 1), NEW first \in a .. e,
               z = [s EXCEPT !.pc = "split_getllar", !.chunkTriangle = hit, !.firstTile = first],
               \A i \in j .. (hit - 1) : T[i + 1] \cap (a .. e) = {},
               \A t \in a .. (first - 1) : t \notin T[hit + 1]
        PROVE  z.chunkToProcess = c /\ SpuTrue(T, P, z, B, a, e, k)
    <3>1. /\ z.pc = "split_getllar" /\ z.chunkTriangle = hit /\ z.chunkToProcess = c
          /\ z.firstTile = first
      BY <1>3, <1>4, <2>2 DEF Locals
    <3>2. ASSUME NEW t \in a .. e PROVE P[t] = DrawnIn(T, t, hit)
      <4>1. \A i \in j .. (hit - 1) : t \notin T[i + 1] BY <2>2, <3>2
      <4>2. j <= hit /\ hit \in Nat BY <1>6
      <4>3. DrawnIn(T, t, hit) = DrawnIn(T, t, j) BY <1>6, <4>1, <4>2, DrawnSkips
      <4> QED BY <1>5, <3>2, <4>3 DEF UpTo
    <3>3. UpTo(T, P, a, e, hit) BY <3>2 DEF UpTo
    <3> QED BY <1>5, <2>2, <3>1, <3>3 DEF SpuTrue, Splitting, Drawing
  <2> QED BY <1>2, <1>4, <1>6, <2>1, <2>2 DEF SearchDone
<1>8. SpuTrueAt(N, l, T, P, z, B) BY <1>4, <1>7 DEF SpuTrueAt
<1>9. buffer'[p] = B BY <1>1, <1>2
<1> QED BY <1>1, <1>2, <1>8, <1>9, LeavesTrue

\* Loading the line again changes nothing an SPU knows of the tiles.
LEMMA ReloadedTrue ==
  ASSUME RInv, TruthInv, NEW p \in Spus, NEW z, Leaves(p, z), Reloaded(spu[p], z),
         UNCHANGED <<buffer, pixels>>
  PROVE  TruthInv'
<1>1. PICK N, l, T, P, B, s :
        /\ N = NumTiles /\ l = cache
        /\ T = triangles /\ P = pixels /\ B = buffer[p] /\ s = spu[p]
  OBVIOUS
<1>2. SpuTrueAt(N, l, T, P, s, B) BY <1>1, TruthFacts
<1>3. PICK c, a, e, k, j : /\ c = s.chunkToProcess /\ a = l.chunkStart[c] /\ e = Ends(N, l, c)
                           /\ k = l.chunkTriangle[c] /\ j = s.chunkTriangle
  OBVIOUS
<1>4. /\ s.pc \in Splitting /\ z.pc \in Splitting
      /\ z.chunkToProcess = c /\ z.chunkTriangle = j /\ z.firstTile = s.firstTile
  BY <1>1, <1>3 DEF Reloaded
<1>5. SpuTrue(T, P, s, B, a, e, k) BY <1>2, <1>3, <1>4 DEF SpuTrueAt, Splitting
<1>6. SpuTrue(T, P, z, B, a, e, k)
  BY <1>3, <1>4, <1>5 DEF SpuTrue, Splitting, Drawing
<1>7. SpuTrueAt(N, l, T, P, z, B) BY <1>3, <1>4, <1>6 DEF SpuTrueAt
<1>8. buffer'[p] = B BY <1>1
<1> QED BY <1>1, <1>7, <1>8, LeavesTrue

\* A chunk given back: its tiles are at triangle k.
LEMMA GivenBackTrue ==
  ASSUME NEW C, Entries(C), NEW N \in Nat, NEW K, NEW l, NEW m, NEW s, NEW k,
         GoodLine(C, N, K, m), GivenBack(C, N, l, m, s, k), s.chunkNext \in C,
         s.chunkToProcess \in C, NEW T, NEW P, LineTrue(C, N, l, T, P), Behind(C, K, l),
         UpTo(T, P, l.chunkStart[s.chunkToProcess], Ends(N, l, s.chunkToProcess), k)
  PROVE  LineTrue(C, N, m, T, P) /\ Behind(C, K, m)
<1>1. PICK c : c = s.chunkToProcess OBVIOUS
<1>2. /\ m.chunkStart = l.chunkStart
      /\ m.chunkNext[c] = s.chunkNext /\ m.chunkTriangle[c] = k
      /\ \A d \in C \ {c} : m.chunkTriangle[d] = l.chunkTriangle[d]
      /\ \A d \in C \ {c} : m.chunkNext[d] # 255 => m.chunkNext[d] = l.chunkNext[d]
      /\ Ends(N, m, c) = Ends(N, l, c)
  BY <1>1 DEF GivenBack
<1>3. ASSUME NEW d \in C \ {c}, m.chunkNext[d] # 255
      PROVE  /\ m.chunkNext[d] = l.chunkNext[d] /\ m.chunkTriangle[d] = l.chunkTriangle[d]
             /\ Ends(N, m, d) = Ends(N, l, d)
  BY <1>2, <1>3 DEF Ends
<1>4. LineTrue(C, N, m, T, P)
  <2> SUFFICES ASSUME NEW d \in C, m.chunkNext[d] < 32
               PROVE  UpTo(T, P, m.chunkStart[d], Ends(N, m, d), m.chunkTriangle[d])
    BY DEF LineTrue
  <2>1. CASE d = c BY <1>1, <1>2, <2>1
  <2>2. CASE d # c
    <3>1. m.chunkNext[d] # 255 OBVIOUS
    <3> QED BY <1>2, <1>3, <2>2, <3>1 DEF LineTrue
  <2> QED BY <2>1, <2>2
<1>5. Behind(C, K, m)
  <2> SUFFICES ASSUME NEW d \in C, m.chunkNext[d] < 64, ~(m.chunkNext[d] < 32)
               PROVE  m.chunkTriangle[d] < K
    BY DEF Behind
  <2>1. d # c BY <1>2, LinkFacts
  <2>2. m.chunkNext[d] # 255 OBVIOUS
  <2> QED BY <1>3, <2>1, <2>2 DEF Behind
<1> QED BY <1>4, <1>5

LEMMA Relinquish_Truth == ASSUME RInv, TruthInv, NEW p \in Spus, Relinquish(p) PROVE TruthInv'
<1>1. PICK C, N, K, l, m, T, P, B, s :
        /\ C = Chunks /\ N = NumTiles /\ K = endTriangle /\ l = cache /\ m = cache'
        /\ T = triangles /\ P = pixels /\ B = buffer[p] /\ s = spu[p]
  OBVIOUS
<1>2. PICK k : k = l.chunkTriangle[s.chunkToProcess] OBVIOUS
<1>3. Writes(p, Idle) /\ s.pc = "split_putllc" /\ GivenBack(C, N, l, m, s, k)
  BY <1>1, <1>2, Relinquish_Step
<1>4. /\ Entries(C) /\ N \in Nat
      /\ s \in Locals(C, N, K) /\ SpuAt(C, N, K, l, s, p \in resv, DOMAIN B)
      /\ SpuTrueAt(N, l, T, P, s, B) /\ LineTrue(C, N, l, T, P) /\ Behind(C, K, l)
  BY <1>1, RingFacts, TruthFacts
<1>5. GoodLine(C, N, K, m) BY <1>1, <1>3 DEF Writes
<1>6. s.chunkNext \in C /\ s.chunkToProcess \in C
  BY <1>3, <1>4 DEF SpuAt, OwnsChunk, Locals
<1>7. UpTo(T, P, l.chunkStart[s.chunkToProcess], Ends(N, l, s.chunkToProcess), k)
  BY <1>2, <1>3, <1>4 DEF SpuTrueAt, SpuTrue, Splitting
<1>8. LineTrue(C, N, m, T, P) /\ Behind(C, K, m)
  BY <1>3, <1>4, <1>5, <1>6, <1>7, GivenBackTrue
<1>9. SpuTrueAt(N, m, T, P, Idle, B) BY DEF SpuTrueAt, Idle
<1> QED BY <1>1, <1>3, <1>8, <1>9, WritesTrue

LEMMA Finish_Truth == ASSUME RInv, TruthInv, NEW p \in Spus, Finish(p) PROVE TruthInv'
<1>1. PICK C, N, K, l, m, T, P, B, s :
        /\ C = Chunks /\ N = NumTiles /\ K = endTriangle /\ l = cache /\ m = cache'
        /\ T = triangles /\ P = pixels /\ B = buffer[p] /\ s = spu[p]
  OBVIOUS
<1>2. Writes(p, Idle) /\ s.pc = "finish" BY <1>1, Finish_Step
<1>3. PICK k : /\ GivenBack(C, N, l, k, s, s.chunkTriangle)
               /\ GoodLine(C, N, K, k)
               /\ Merged(C, N, k, m)
  BY <1>1, Finish_Step
<1>4. /\ Entries(C) /\ N \in Nat
      /\ s \in Locals(C, N, K) /\ SpuAt(C, N, K, l, s, p \in resv, DOMAIN B)
      /\ SpuTrueAt(N, l, T, P, s, B) /\ LineTrue(C, N, l, T, P) /\ Behind(C, K, l)
  BY <1>1, RingFacts, TruthFacts
<1>5. GoodLine(C, N, K, m) BY <1>1, <1>2 DEF Writes
<1>6. s.chunkNext \in C /\ s.chunkToProcess \in C
  BY <1>2, <1>4 DEF SpuAt, OwnsChunk, Locals
<1>7. UpTo(T, P, l.chunkStart[s.chunkToProcess], Ends(N, l, s.chunkToProcess), s.chunkTriangle)
  BY <1>2, <1>4 DEF SpuTrueAt, SpuTrue
<1>8. LineTrue(C, N, k, T, P) /\ Behind(C, K, k)
  BY <1>3, <1>4, <1>6, <1>7, GivenBackTrue
<1>9. LineTrue(C, N, m, T, P) /\ Behind(C, K, m) BY <1>3, <1>4, <1>5, <1>8, MergedTrue
<1>10. SpuTrueAt(N, m, T, P, Idle, B) BY DEF SpuTrueAt, Idle
<1> QED BY <1>1, <1>2, <1>9, <1>10, WritesTrue

-----------------------------------------------------------------------------
(* Render and Flush.                                                       *)

LEMMA Render_Truth == ASSUME RInv, TruthInv, NEW p \in Spus, Render(p) PROVE TruthInv'
<1>1. PICK C, N, K, l, T, P, B, D, s :
        /\ C = Chunks /\ N = NumTiles /\ K = endTriangle /\ l = cache
        /\ T = triangles /\ P = pixels /\ B = buffer[p] /\ D = buffer'[p] /\ s = spu[p]
  OBVIOUS
<1>2. PICK z : Leaves(p, z) /\ UNCHANGED pixels /\ RenderDone(T, P, s, B, D, z)
  BY <1>1, Render_Step
<1>3. s \in Locals(C, N, K) /\ SpuTrueAt(N, l, T, P, s, B) /\ K \in Nat
  BY <1>1, RingFacts, TruthFacts
<1>4. PICK c, a, e, k, j : /\ c = s.chunkToProcess /\ a = l.chunkStart[c] /\ e = Ends(N, l, c)
                           /\ k = l.chunkTriangle[c] /\ j = s.chunkTriangle
  OBVIOUS
<1>5. /\ s.pc = "render" /\ z.pc \in Drawing /\ z.chunkToProcess = c
      /\ z.thisBlockStart = s.thisBlockStart /\ z.chunkEnd = s.chunkEnd
      /\ z.chunkTriangle = j + 1
      /\ z.pc = "render" => s.chunkStart = s.realBlockStart
  BY <1>2, <1>4 DEF RenderDone
<1>6. PICK block : block = s.thisBlockStart .. s.chunkEnd OBVIOUS
<1>7. D = [t \in DOMAIN B \cup (T[j + 1] \cap block) |->
             IF t \in T[j + 1] \cap block
             THEN Append(IF t \in DOMAIN B THEN B[t] ELSE P[t], j + 1)
             ELSE B[t]]
  BY <1>2, <1>4, <1>6 DEF RenderDone
<1>8. SpuTrue(T, P, s, B, a, e, k) BY <1>3, <1>4, <1>5 DEF SpuTrueAt
<1>9. /\ \A t \in a .. e : t \notin block => t \notin T[j + 1]
      /\ s.chunkStart = s.realBlockStart => a = s.thisBlockStart /\ e = s.chunkEnd
      /\ \A t \in a .. e : /\ Shown(P, B, t) = DrawnIn(T, t, j)
                           /\ \E i \in 0 .. j : P[t] = DrawnIn(T, t, i)
  BY <1>4, <1>5, <1>6, <1>8 DEF SpuTrue, Drawing
<1>10. j \in Nat /\ 0 .. j \subseteq 0 .. (j + 1) BY <1>3, <1>4 DEF Locals
<1>11. ASSUME NEW t \in a .. e
       PROVE  /\ Shown(P, D, t) = DrawnIn(T, t, j + 1)
              /\ \E i \in 0 .. (j + 1) : P[t] = DrawnIn(T, t, i)
  <2>1. PICK x : x = Shown(P, B, t) OBVIOUS
  <2>0. DrawnIn(T, t, j + 1) = Extended(T, t, j + 1, DrawnIn(T, t, j)) BY <1>10, DrawnSteps
  <2>2. DrawnIn(T, t, j + 1) = Extended(T, t, j + 1, x) BY <1>9, <1>11, <2>0, <2>1
  <2>3. CASE t \in T[j + 1]
    <3>1. t \in T[j + 1] \cap block BY <1>9, <1>11, <2>3
    <3>2. D[t] = Append(IF t \in DOMAIN B THEN B[t] ELSE P[t], j + 1) /\ t \in DOMAIN D BY <1>7, <3>1
    <3>3. D[t] = Append(x, j + 1) BY <2>1, <3>2 DEF Shown
    <3> QED BY <1>9, <1>10, <1>11, <2>2, <2>3, <3>2, <3>3 DEF Shown, Extended
  <2>4. CASE t \notin T[j + 1]
    <3>1. (t \in DOMAIN D <=> t \in DOMAIN B) /\ (t \in DOMAIN B => D[t] = B[t]) BY <1>7, <2>4
    <3>2. Shown(P, D, t) = x BY <2>1, <3>1 DEF Shown
    <3> QED BY <1>9, <1>10, <1>11, <2>2, <2>4, <3>2 DEF Extended
  <2> QED BY <2>3, <2>4
<1>12. z.pc = "render" => /\ \A t \in a .. e : t \in z.thisBlockStart .. z.chunkEnd
                          /\ a = z.thisBlockStart /\ e = z.chunkEnd
  BY <1>5, <1>9
<1>13. SpuTrue(T, P, z, D, a, e, k)
  BY <1>5, <1>11, <1>12 DEF SpuTrue, Splitting, Drawing
<1>14. SpuTrueAt(N, l, T, P, z, D) BY <1>4, <1>5, <1>13 DEF SpuTrueAt
<1> QED BY <1>1, <1>2, <1>14, LeavesTrue

LEMMA TilesApart ==
  ASSUME RInv, NEW c \in Chunks, NEW d \in Chunks, c # d,
         cache.chunkNext[c] < 64, cache.chunkNext[d] < 64,
         NEW t \in cache.chunkStart[c] .. Ends(NumTiles, cache, c)
  PROVE  t \notin cache.chunkStart[d] .. Ends(NumTiles, cache, d)
<1>1. cache.chunkStart[c] \in 0 .. (NumTiles - 1) /\ Ends(NumTiles, cache, c) \in 0 .. (NumTiles - 1)
  BY RingFacts, ChunkTiles
<1>2. t \in Tiles BY <1>1, RingFacts
<1>3. InRing(c) /\ InRing(d) BY DEF InRing, CHUNKNEXT_BUSY_BIT
<1>4. TilesOf(c) = cache.chunkStart[c] .. Ends(NumTiles, cache, c) /\ TilesOf(d) = cache.chunkStart[d] .. Ends(NumTiles, cache, d)
  BY TilesOfIs
<1> QED BY <1>2, <1>3, <1>4, RInv_Ring

\* The pixels after a flush: the chunk of p is at its triangle, nothing else has changed.
LEMMA Flush_Pixels ==
  ASSUME RInv, TruthInv, NEW p \in Spus, Flush(p)
  PROVE  LET c == spu[p].chunkToProcess
             own == cache.chunkStart[c] .. Ends(NumTiles, cache, c)
         IN /\ c \in Chunks /\ cache.chunkNext[c] < 64 /\ ~(cache.chunkNext[c] < 32)
            /\ spu[p].chunkTriangle \in 0 .. endTriangle
            /\ \A t \in own : /\ pixels'[t] = DrawnIn(triangles, t, spu[p].chunkTriangle)
                              /\ \E i \in 0 .. spu[p].chunkTriangle : pixels[t] = DrawnIn(triangles, t, i)
            /\ \A t \in Tiles \ own : pixels'[t] = pixels[t]
<1>1. PICK C, N, K, l, T, P, B, s :
        /\ C = Chunks /\ N = NumTiles /\ K = endTriangle /\ l = cache
        /\ T = triangles /\ P = pixels /\ B = buffer[p] /\ s = spu[p]
  OBVIOUS
<1>2. /\ s.pc = "flush"
      /\ pixels' = [t \in Tiles |-> IF t \in DOMAIN B THEN B[t] ELSE P[t]]
  BY <1>1 DEF Flush
<1>3. /\ Entries(C) /\ N \in Nat /\ Tiles = 0 .. (N - 1) /\ GoodLine(C, N, K, l)
      /\ s \in Locals(C, N, K) /\ SpuAt(C, N, K, l, s, p \in resv, DOMAIN B)
      /\ SpuTrueAt(N, l, T, P, s, B)
  BY <1>1, RingFacts, TruthFacts
<1>4. PICK c, a, e, k, j : /\ c = s.chunkToProcess /\ a = l.chunkStart[c] /\ e = Ends(N, l, c)
                           /\ k = l.chunkTriangle[c] /\ j = s.chunkTriangle
  OBVIOUS
<1>5. /\ c \in C /\ l.chunkNext[c] < 64 /\ ~(l.chunkNext[c] < 32)
      /\ a \in 0 .. (N - 1) /\ e \in 0 .. (N - 1)
  BY <1>2, <1>3, <1>4, OwnTiles DEF SpuAt
<1>6. \A t \in a .. e : /\ Shown(P, B, t) = DrawnIn(T, t, j)
                        /\ \E i \in 0 .. j : P[t] = DrawnIn(T, t, i)
  BY <1>2, <1>3, <1>4 DEF SpuTrueAt, SpuTrue, Drawing
<1>7. DOMAIN B \subseteq a .. e
  <2>1. DOMAIN B \subseteq s.thisBlockStart .. s.chunkEnd BY <1>2, <1>3 DEF SpuAt, Block, Drawing
  <2>2. a <= s.thisBlockStart /\ s.chunkEnd <= e
    BY <1>2, <1>3, <1>4 DEF SpuAt, KnowsBlock, Drawing
  <2>3. s.thisBlockStart \in Int /\ s.chunkEnd \in Int BY <1>3 DEF Locals
  <2> QED BY <1>5, <2>1, <2>2, <2>3
<1>8. a .. e \subseteq Tiles BY <1>3, <1>5
<1>9. \A t \in a .. e : pixels'[t] = DrawnIn(T, t, j) BY <1>2, <1>6, <1>8 DEF Shown
<1>10. \A t \in Tiles \ (a .. e) : pixels'[t] = P[t] BY <1>2, <1>7
<1>11. j \in 0 .. K BY <1>3, <1>4 DEF Locals
<1> QED BY <1>1, <1>4, <1>5, <1>6, <1>9, <1>10, <1>11

LEMMA Flush_Truth == ASSUME RInv, TruthInv, NEW p \in Spus, Flush(p) PROVE TruthInv'
<1>1. PICK C, N, K, l, T, P, Q, s :
        /\ C = Chunks /\ N = NumTiles /\ K = endTriangle /\ l = cache
        /\ T = triangles /\ P = pixels /\ Q = pixels' /\ s = spu[p]
  OBVIOUS
<1>2. PICK z : /\ Leaves(p, z) /\ z.pc = "finish" /\ z.chunkToProcess = s.chunkToProcess
               /\ z.chunkTriangle = s.chunkTriangle
  BY <1>1, Flush_Step
<1>3. /\ spu' = [spu EXCEPT ![p] = z] /\ UNCHANGED <<triangles, cache>> /\ Tiles' = Tiles
      /\ \A q \in Spus \ {p} : buffer'[q] = buffer[q]
  BY <1>2 DEF Leaves
<1>4. /\ Entries(C) /\ N \in Nat /\ Tiles = 0 .. (N - 1) /\ GoodLine(C, N, K, l)
      /\ LineTrue(C, N, l, T, P) /\ Behind(C, K, l) /\ PixelsTrue(N, K, T, P)
  BY <1>1, RingFacts, TruthFacts
<1>5. PICK c, a, e, k, j : /\ c = s.chunkToProcess /\ a = l.chunkStart[c] /\ e = Ends(N, l, c)
                           /\ k = l.chunkTriangle[c] /\ j = s.chunkTriangle
  OBVIOUS
<1>6. /\ c \in C /\ l.chunkNext[c] < 64 /\ ~(l.chunkNext[c] < 32) /\ j \in 0 .. K
      /\ \A t \in a .. e : Q[t] = DrawnIn(T, t, j)
      /\ \A t \in Tiles \ (a .. e) : Q[t] = P[t]
  BY <1>1, <1>5, Flush_Pixels
<1>7. ASSUME NEW d \in C, d # c, l.chunkNext[d] < 64
      PROVE  \A t \in l.chunkStart[d] .. Ends(N, l, d) : Q[t] = P[t]
  <2> SUFFICES ASSUME NEW t \in l.chunkStart[d] .. Ends(N, l, d) PROVE Q[t] = P[t]
    OBVIOUS
  <2>1. l.chunkStart[d] \in 0 .. (N - 1) /\ Ends(N, l, d) \in 0 .. (N - 1)
    BY <1>4, <1>7, ChunkTiles
  <2>2. t \in Tiles BY <1>4, <2>1
  <2>3. t \notin a .. e BY <1>1, <1>5, <1>6, <1>7, TilesApart
  <2> QED BY <1>6, <2>2, <2>3
<1>8. LineTrue(C, N, l, T, Q)
  <2> SUFFICES ASSUME NEW d \in C, l.chunkNext[d] < 32,
                      NEW t \in l.chunkStart[d] .. Ends(N, l, d)
               PROVE  Q[t] = DrawnIn(T, t, l.chunkTriangle[d])
    BY DEF LineTrue, UpTo
  <2>1. d # c BY <1>6
  <2>2. l.chunkNext[d] < 64
    <3>1. l.chunkNext[d] \in Links(C) BY <1>4 DEF GoodLine, Lines
    <3>2. l.chunkNext[d] \in Nat BY <1>4, <3>1, LinkFacts
    <3> QED BY <3>2
  <2> QED BY <1>4, <1>7, <2>1, <2>2 DEF LineTrue, UpTo
<1>9. PixelsTrue(N, K, T, Q)
  <2> SUFFICES ASSUME NEW t \in 0 .. (N - 1) PROVE \E i \in 0 .. K : Q[t] = DrawnIn(T, t, i)
    BY DEF PixelsTrue
  <2>1. CASE t \in a .. e BY <1>6, <2>1
  <2>2. CASE t \notin a .. e
    <3>1. Q[t] = P[t] BY <1>4, <1>6, <2>2
    <3> QED BY <1>4, <3>1 DEF PixelsTrue
  <2> QED BY <2>1, <2>2
<1>10. spu \in [Spus -> Locals(C, N, K)] BY <1>1 DEF RInv, Types
<1>11. ASSUME NEW q \in Spus PROVE SpuTrueAt(N, l, T, Q, spu'[q], buffer'[q])
  <2>1. CASE q = p
    <3>1. spu'[q] = z BY <1>3, <1>10, <2>1
    <3>2. UpTo(T, Q, a, e, j) BY <1>6 DEF UpTo
    <3>3. PICK D : D = buffer'[q] OBVIOUS
    <3>4. SpuTrue(T, Q, z, D, a, e, k) BY <1>2, <1>5, <3>2 DEF SpuTrue, Splitting, Drawing
    <3>5. SpuTrueAt(N, l, T, Q, z, D) BY <1>2, <1>5, <3>4 DEF SpuTrueAt
    <3> QED BY <3>1, <3>3, <3>5
  <2>2. CASE q # p
    <3>1. PICK w, B : w = spu[q] /\ B = buffer[q] OBVIOUS
    <3>2. spu'[q] = w /\ buffer'[q] = B BY <1>3, <1>10, <2>2, <3>1
    <3>3. w \in Locals(C, N, K) /\ SpuAt(C, N, K, l, w, q \in resv, DOMAIN B)
          /\ SpuTrueAt(N, l, T, P, w, B)
      BY <1>1, <3>1, TruthFacts
    <3> SUFFICES ASSUME w.pc # "idle" PROVE SpuTrueAt(N, l, T, Q, w, B)
      BY <3>2 DEF SpuTrueAt
    <3>4. PICK d, f, g, h : /\ d = w.chunkToProcess /\ f = l.chunkStart[d] /\ g = Ends(N, l, d)
                            /\ h = l.chunkTriangle[d]
      OBVIOUS
    <3>5. SpuTrue(T, P, w, B, f, g, h) BY <3>3, <3>4 DEF SpuTrueAt
    <3>6. d \in C /\ l.chunkNext[d] < 64 BY <1>4, <3>3, <3>4, OwnTiles DEF SpuAt
    <3>7. d # c
      <4>1. Apart(C, s, w) BY <1>1, <2>2, <3>1 DEF RInv
      <4>2. s.pc # "idle" BY <1>1 DEF Flush
      <4> QED BY <1>5, <3>4, <4>1, <4>2 DEF Apart
    <3>8. \A t \in f .. g : Q[t] = P[t] BY <1>7, <3>4, <3>6, <3>7
    <3>9. SpuTrue(T, Q, w, B, f, g, h) BY <3>5, <3>8 DEF SpuTrue, UpTo, Shown
    <3>10. SpuTrueAt(N, l, T, Q, w, B) BY <3>4, <3>9 DEF SpuTrueAt
    <3> QED BY <3>10
  <2> QED BY <2>1, <2>2
<1>12. Chunks' = C /\ NumTiles' = N /\ endTriangle' = K /\ cache' = l /\ triangles' = T /\ pixels' = Q
  BY <1>1, <1>3 DEF Chunks, NumTiles, endTriangle
<1>13. \A q \in Spus : SpuTrueAt(NumTiles, cache, triangles, pixels, spu[q], buffer[q])'
  BY <1>11, <1>12
<1> QED BY <1>4, <1>8, <1>9, <1>12, <1>13 DEF TruthInv

-----------------------------------------------------------------------------
(* SplitStore.                                                             *)

\* The tiles of a chunk that is split are drawn up to the triangle of the split, and those
\* in front of the first tile up to the one after it.
SplitTrue(T, P, s) ==
  /\ UpTo(T, P, s.chunkStart, s.chunkEnd, s.chunkTriangle)
  /\ \A t \in s.chunkStart .. (s.firstTile - 1) : t \notin T[s.chunkTriangle + 1]

LEMMA SplitLineTrue ==
  ASSUME NEW C, Entries(C), NEW N \in Nat, NEW K \in Nat, NEW l, NEW s, NEW m,
         Splits(C, N, K, l, s), SplitDone(C, N, K, l, s, m),
         NEW T, NEW P, LineTrue(C, N, l, T, P), Behind(C, K, l), SplitTrue(T, P, s)
  PROVE  LineTrue(C, N, m, T, P) /\ Behind(C, K, m)
<1>1. PICK c, f, b, t, nb, tb, k :
        /\ c = s.chunkToProcess /\ f = s.freeChunk /\ b = BlockChunk(s) /\ t = tailChunk(s)
        /\ nb = nextBlockStart(s) /\ tb = thisBlockStart(s) /\ k = s.chunkTriangle
  OBVIOUS
<1>2. /\ s \in Locals(C, N, K) /\ s.firstTile \in s.chunkStart .. s.chunkEnd
      /\ s.chunkStart = l.chunkStart[c] /\ s.chunkEnd = Ends(N, l, c)
  BY <1>1 DEF Splits
<1>3. /\ nb \in Nat /\ tb \in Nat
      /\ s.chunkStart <= tb /\ tb <= s.firstTile /\ s.firstTile < nb /\ nb <= s.chunkEnd + 1
      /\ s.chunkStart \in 0 .. (N - 1) /\ s.chunkEnd \in 0 .. (N - 1)
      /\ s.firstTile \in 0 .. (N - 1)
  BY <1>1, <1>2, BlockBounds
<1>4. k \in Nat BY <1>1, <1>2 DEF Locals
<1>5. /\ \A d \in C \ {c} : l.chunkNext[d] < 64 =>
           /\ m.chunkNext[d] = l.chunkNext[d] /\ m.chunkTriangle[d] = l.chunkTriangle[d]
           /\ m.chunkStart[d] = l.chunkStart[d] /\ Ends(N, m, d) = Ends(N, l, d)
      /\ m.chunkStart[c] = s.chunkStart
      /\ HasTail(s) =>
           /\ m.chunkStart[f] = nb /\ Ends(N, m, f) = s.chunkEnd
           /\ m.chunkTriangle[f] = k
      /\ OwnHead(s) =>
           /\ Ends(N, m, c) = tb - 1
           /\ m.chunkTriangle[c] = k + 1 /\ m.chunkNext[c] = b
      /\ b \in C /\ t \in C
      /\ m.chunkNext[b] = t + 32
      /\ m.chunkTriangle[b] < K
      /\ \A d \in C : m.chunkNext[d] < 64 =>
           \/ d # c /\ l.chunkNext[d] < 64
           \/ HasTail(s) /\ d = f
           \/ OwnHead(s) /\ d = c
           \/ d = b
  BY <1>1 DEF SplitDone
<1>6. ~(m.chunkNext[b] < 32)
  <2>1. t \in Nat BY <1>5, LinkFacts
  <2> QED BY <1>5, <2>1
<1>7. UpTo(T, P, s.chunkStart, s.chunkEnd, k) BY <1>1 DEF SplitTrue
<1>8. HasTail(s) => UpTo(T, P, nb, s.chunkEnd, k)
  <2>1. nb .. s.chunkEnd \subseteq s.chunkStart .. s.chunkEnd BY <1>3
  <2> QED BY <1>7, <2>1 DEF UpTo
<1>9. UpTo(T, P, s.chunkStart, tb - 1, k + 1)
  <2> SUFFICES ASSUME NEW x \in s.chunkStart .. (tb - 1) PROVE P[x] = DrawnIn(T, x, k + 1)
    BY DEF UpTo
  <2>1. x \in s.chunkStart .. s.chunkEnd /\ x \in s.chunkStart .. (s.firstTile - 1) BY <1>3
  <2>2. P[x] = DrawnIn(T, x, k) BY <1>7, <2>1 DEF UpTo
  <2>3. x \notin T[k + 1] BY <1>1, <2>1 DEF SplitTrue
  <2>4. DrawnIn(T, x, k + 1) = Extended(T, x, k + 1, DrawnIn(T, x, k)) BY <1>4, DrawnSteps
  <2> QED BY <2>2, <2>3, <2>4 DEF Extended
<1>10. \A d \in C : m.chunkNext[d] \in Nat
  <2>1. m.chunkNext \in [C -> Links(C)] BY DEF SplitDone, GoodLine, Lines
  <2> QED BY <2>1, LinkFacts
<1>11. LineTrue(C, N, m, T, P)
  <2> SUFFICES ASSUME NEW d \in C, m.chunkNext[d] < 32
               PROVE  UpTo(T, P, m.chunkStart[d], Ends(N, m, d), m.chunkTriangle[d])
    BY DEF LineTrue
  <2>1. m.chunkNext[d] < 64 BY <1>10
  <2>2. CASE d # c /\ l.chunkNext[d] < 64 BY <1>5, <2>2 DEF LineTrue
  <2>3. CASE HasTail(s) /\ d = f BY <1>5, <1>8, <2>3
  <2>4. CASE OwnHead(s) /\ d = c BY <1>5, <1>9, <2>4
  <2>5. CASE d = b BY <1>6, <2>5
  <2> QED BY <1>5, <2>1, <2>2, <2>3, <2>4, <2>5
<1>12. Behind(C, K, m)
  <2> SUFFICES ASSUME NEW d \in C, m.chunkNext[d] < 64, ~(m.chunkNext[d] < 32)
               PROVE  m.chunkTriangle[d] < K
    BY DEF Behind
  <2>k. k < K BY <1>1, <1>2 DEF Splits, Locals
  <2>2. CASE d # c /\ l.chunkNext[d] < 64 BY <1>5, <2>2 DEF Behind
  <2>3. CASE HasTail(s) /\ d = f BY <1>5, <2>3, <2>k
  <2>4. CASE OwnHead(s) /\ d = c
    <3>1. b < 32 BY <1>5, LinkFacts
    <3> QED BY <1>5, <2>4, <3>1
  <2>5. CASE d = b BY <1>5, <2>5
  <2> QED BY <1>5, <2>2, <2>3, <2>4, <2>5
<1> QED BY <1>11, <1>12

LEMMA SplitStore_Truth ==
  ASSUME RInv, TruthInv, NEW p \in Spus, ~StaleEntry(p), ~LastTileLost(p), SplitStore(p)
  PROVE  TruthInv'
<1>1. PICK C, N, K, l, m, T, P, B, s, k :
        /\ C = Chunks /\ N = NumTiles /\ K = endTriangle /\ l = cache /\ m = cache'
        /\ T = triangles /\ P = pixels /\ B = buffer[p] /\ s = spu[p] /\ k = Cleared(spu[p])
  OBVIOUS
<1>2. PICK z, e : /\ Writes(p, z) /\ BlockTaken(s, z)
                  /\ Splits(C, N, K, k, s) /\ SplitDone(C, N, K, k, s, e) /\ Merged(C, N, e, m)
  BY <1>1, SplitStore_Step
<1>3. /\ Entries(C) /\ N \in Nat /\ K \in Nat /\ GoodLine(C, N, K, l)
      /\ s \in Locals(C, N, K) /\ SpuAt(C, N, K, l, s, p \in resv, DOMAIN B)
      /\ SpuTrueAt(N, l, T, P, s, B) /\ LineTrue(C, N, l, T, P) /\ Behind(C, K, l)
  BY <1>1, RingFacts, TruthFacts
<1>4. PICK c, b, t, nb, tb, j :
        /\ c = s.chunkToProcess /\ b = BlockChunk(s) /\ t = tailChunk(s)
        /\ nb = nextBlockStart(s) /\ tb = thisBlockStart(s) /\ j = s.chunkTriangle
  OBVIOUS
<1>5. /\ s.pc = "split_putllc" /\ z.pc = "render" /\ z.chunkToProcess = b
      /\ z.chunkStart = s.firstTile /\ z.chunkEnd = nb - 1
      /\ z.thisBlockStart = tb /\ z.chunkTriangle = j
      /\ z.realBlockStart = IF HasHead(s) /\ ~OwnHead(s) THEN s.chunkStart ELSE tb
  BY <1>2, <1>4 DEF BlockTaken
<1>6. /\ k.chunkStart = l.chunkStart /\ k.chunkTriangle = l.chunkTriangle
      /\ \A d \in C : k.chunkNext[d] = l.chunkNext[d] \/ k.chunkNext[d] = 255
  <2>0. /\ ~(HasTail(s) /\ s.freeChunk = NoChunk) /\ p \in resv BY <1>1 DEF SplitStore
  <2>1. /\ k.chunkStart = l.chunkStart /\ k.chunkTriangle = l.chunkTriangle
        /\ \A d \in C : d = s.freeChunk \/ k.chunkNext[d] = l.chunkNext[d]
    BY <1>1, <1>5, <2>0, ClearedLine
  <2>2. s.freeChunk \in C => k.chunkNext[s.freeChunk] = 255
    <3>1. \A d \in C : d # NoChunk BY <1>3, LinkFacts
    <3> QED BY <1>2, <3>1 DEF Splits
  <2> QED BY <2>1, <2>2
<1>7. LineTrue(C, N, k, T, P) /\ Behind(C, K, k)
  <2>1. LineTrue(C, N, k, T, P)
    <3> SUFFICES ASSUME NEW d \in C, k.chunkNext[d] < 32
                 PROVE  UpTo(T, P, k.chunkStart[d], Ends(N, k, d), k.chunkTriangle[d])
      BY DEF LineTrue
    <3>1. k.chunkNext[d] = l.chunkNext[d] BY <1>6
    <3>2. Ends(N, k, d) = Ends(N, l, d) BY <1>6, <3>1 DEF Ends
    <3> QED BY <1>3, <1>6, <3>1, <3>2 DEF LineTrue
  <2>2. Behind(C, K, k)
    <3> SUFFICES ASSUME NEW d \in C, k.chunkNext[d] < 64, ~(k.chunkNext[d] < 32)
                 PROVE  k.chunkTriangle[d] < K
      BY DEF Behind
    <3>1. k.chunkNext[d] = l.chunkNext[d] BY <1>6
    <3> QED BY <1>3, <1>6, <3>1 DEF Behind
  <2> QED BY <2>1, <2>2
<1>8. /\ UpTo(T, P, s.chunkStart, s.chunkEnd, j)
      /\ \A x \in s.chunkStart .. (s.firstTile - 1) : x \notin T[j + 1]
  <2>1. s.chunkStart = l.chunkStart[c] /\ s.chunkEnd = Ends(N, l, c)
    BY <1>3, <1>4, <1>5 DEF SpuAt, KnowsChunk, Splitting
  <2> QED BY <1>3, <1>4, <1>5, <2>1 DEF SpuTrueAt, SpuTrue, Splitting
<1>9. SplitTrue(T, P, s) BY <1>4, <1>8 DEF SplitTrue
<1>10. LineTrue(C, N, e, T, P) /\ Behind(C, K, e) BY <1>2, <1>3, <1>7, <1>9, SplitLineTrue
<1>11. GoodLine(C, N, K, m) /\ GoodLine(C, N, K, e) BY <1>1, <1>2 DEF Writes, SplitDone
<1>12. LineTrue(C, N, m, T, P) /\ Behind(C, K, m) BY <1>2, <1>3, <1>10, <1>11, MergedTrue
<1>13. /\ s.firstTile \in s.chunkStart .. s.chunkEnd /\ nb \in Nat /\ tb \in Nat
       /\ s.chunkStart <= tb /\ tb <= s.firstTile /\ s.firstTile < nb /\ nb <= s.chunkEnd + 1
       /\ s.chunkStart \in 0 .. (N - 1) /\ s.chunkEnd \in 0 .. (N - 1)
       /\ s.firstTile \in 0 .. (N - 1)
  <2>1. s.firstTile \in s.chunkStart .. s.chunkEnd BY <1>2 DEF Splits
  <2> QED BY <1>3, <1>4, <2>1, BlockBounds
<1>14. /\ m.chunkStart[b] = IF OwnHead(s) THEN tb ELSE s.chunkStart
       /\ Ends(N, m, b) = IF HasTail(s) THEN nb - 1 ELSE s.chunkEnd
       /\ b \in C
  <2>1. /\ b \in C /\ t \in C /\ e.chunkNext[b] = t + 32
        /\ e.chunkStart[b] = IF OwnHead(s) THEN tb ELSE s.chunkStart
        /\ Ends(N, e, b) = IF HasTail(s) THEN nb - 1 ELSE s.chunkEnd
    BY <1>2, <1>4 DEF SplitDone
  <2>2. e.chunkNext[b] < 64 /\ ~(e.chunkNext[b] < 32)
    <3>1. t \in Nat /\ t + 32 < 64 BY <1>3, <2>1, LinkFacts
    <3> QED BY <2>1, <3>1
  <2>3. m.chunkNext[b] = e.chunkNext[b] BY <1>2, <2>1, <2>2 DEF Merged
  <2>4. \A d \in C : e.chunkNext[d] < 64 /\ m.chunkNext[d] < 64 => m.chunkStart[d] = e.chunkStart[d]
    BY <1>2 DEF Merged
  <2>5. m.chunkStart[b] = e.chunkStart[b] /\ Ends(N, m, b) = Ends(N, e, b)
    BY <1>3, <1>11, <2>1, <2>2, <2>3, <2>4, KeptEnd
  <2> QED BY <2>1, <2>5
<1>15. PICK a, f, h : a = m.chunkStart[b] /\ f = Ends(N, m, b) /\ h = m.chunkTriangle[b] OBVIOUS
<1>16. f = nb - 1
  <2>1. CASE HasTail(s) BY <1>14, <1>15, <2>1
  <2>2. CASE ~HasTail(s)
    <3>1. nb # s.chunkEnd BY <1>1, <1>4, <1>5 DEF LastTileLost
    <3>2. ~(nb < s.chunkEnd) BY <1>4, <2>2 DEF HasTail
    <3> QED BY <1>13, <1>14, <1>15, <2>2, <3>1, <3>2
  <2> QED BY <2>1, <2>2
<1>17. s.chunkStart <= a /\ a <= tb /\ a \in Nat BY <1>13, <1>14, <1>15
<1>18. a .. f \subseteq s.chunkStart .. s.chunkEnd BY <1>13, <1>16, <1>17
<1>19. \A x \in a .. f : x \notin tb .. (nb - 1) => x \notin T[j + 1]
  <2> SUFFICES ASSUME NEW x \in a .. f, x \notin tb .. (nb - 1) PROVE x \notin T[j + 1]
    OBVIOUS
  <2>1. x \in s.chunkStart .. (s.firstTile - 1) BY <1>13, <1>16, <1>17
  <2> QED BY <1>8, <2>1
<1>20. z.chunkStart = z.realBlockStart => a = tb
  <2>1. CASE OwnHead(s) BY <1>14, <1>15, <2>1
  <2>2. CASE ~HasHead(s)
    <3>1. ~(s.chunkStart < tb) BY <1>4, <1>13, <2>2 DEF HasHead
    <3> QED BY <1>13, <1>14, <1>15, <3>1
  <2>3. CASE HasHead(s) /\ ~OwnHead(s)
    <3>1. s.chunkStart < tb BY <1>4, <1>13, <2>3 DEF HasHead
    <3> QED BY <1>5, <1>13, <2>3, <3>1
  <2> QED BY <2>1, <2>2, <2>3
<1>21. \A x \in a .. f : P[x] = DrawnIn(T, x, j) BY <1>8, <1>18 DEF UpTo
<1>22. DOMAIN B = {}
  <2>1. DOMAIN B \subseteq Block(s) BY <1>3 DEF SpuAt
  <2> QED BY <1>5, <2>1 DEF Block, Drawing
<1>23. j \in 0 .. j BY <1>3, <1>4 DEF Locals
<1>24. SpuTrue(T, P, z, B, a, f, h)
  <2>1. \A x \in a .. f : /\ Shown(P, B, x) = DrawnIn(T, x, j)
                          /\ \E i \in 0 .. j : P[x] = DrawnIn(T, x, i)
    BY <1>21, <1>22, <1>23 DEF Shown
  <2> QED BY <1>5, <1>16, <1>19, <1>20, <2>1 DEF SpuTrue, Splitting, Drawing
<1>25. SpuTrueAt(N, m, T, P, z, B) BY <1>5, <1>15, <1>24 DEF SpuTrueAt
<1> QED BY <1>1, <1>2, <1>12, <1>25, WritesTrue

\* A step that does not split with an entry which is another's.
FreshStep ==
  \/ Submit \/ Done \/ UNCHANGED vars
  \/ \E p \in Spus : SpuNext(p) /\ (SplitStore(p) => ~StaleEntry(p))

LEMMA Next_Fresh == ASSUME NoStaleEntry, [Next]_vars PROVE FreshStep
BY DEF Next, NoStaleEntry, FreshStep

LEMMA Next_Truth ==
  ASSUME RInv, TruthInv, NoLastTileLost, FreshStep PROVE TruthInv'
<1>1. CASE Submit BY <1>1, Submit_Truth
<1>2. ASSUME NEW p \in Spus, SpuNext(p), SplitStore(p) => ~StaleEntry(p) PROVE TruthInv'
  <2>1. CASE Claim(p) BY <2>1, Claim_Truth
  <2>2. CASE Search(p) BY <2>2, Search_Truth
  <2>3. CASE SplitLoad(p) BY <2>3, SplitLoad_Step, ReloadedTrue
  <2>4. CASE SplitStore(p) BY <1>2, <2>4, SplitStore_Truth DEF NoLastTileLost
  <2>5. CASE Relinquish(p) BY <2>5, Relinquish_Truth
  <2>6. CASE SplitRetry(p) BY <2>6, SplitRetry_Step, ReloadedTrue
  <2>7. CASE Render(p) BY <2>7, Render_Truth
  <2>8. CASE Flush(p) BY <2>8, Flush_Truth
  <2>9. CASE Finish(p) BY <2>9, Finish_Truth
  <2> QED BY <1>2, <2>1, <2>2, <2>3, <2>4, <2>5, <2>6, <2>7, <2>8, <2>9 DEF SpuNext
<1>3. CASE Done \/ UNCHANGED vars BY <1>3, Idle_Truth DEF Done
<1> QED BY <1>1, <1>2, <1>3 DEF FreshStep

LEMMA Truth_Chunks == ASSUME RInv, TruthInv PROVE ChunkTriangleIsTrue
<1> SUFFICES ASSUME NEW c \in Chunks, Live(cache, c), NEW t \in TilesOf(c)
             PROVE  pixels[t] = Drawn(t, cache.chunkTriangle[c])
  BY DEF ChunkTriangleIsTrue
<1>1. TilesOf(c) = cache.chunkStart[c] .. Ends(NumTiles, cache, c) BY TilesOfIs
<1>2. cache.chunkNext[c] < 32 BY DEF Live, CHUNKNEXT_BUSY_BIT
<1>3. pixels[t] = DrawnIn(triangles, t, cache.chunkTriangle[c])
  BY <1>1, <1>2, TruthFacts DEF LineTrue, UpTo
<1> QED BY <1>3, DrawnIs

LEMMA Truth_Finished == ASSUME RInv, TruthInv PROVE FinishedMeansDrawn
<1> SUFFICES ASSUME ~stillProcessingQueue, NEW t \in Tiles
             PROVE  pixels[t] = Drawn(t, endTriangle)
  BY DEF FinishedMeansDrawn
<1>1. PICK c \in Chunks : InRing(c) /\ t \in TilesOf(c) BY RInv_Ring
<1>2. cache.chunkNext[c] < 64 BY <1>1 DEF InRing, CHUNKNEXT_BUSY_BIT
<1>3. cache.chunkTriangle[c] = endTriangle
  <2>1. cache.chunkNext[c] # CHUNKNEXT_FREE_BLOCK BY <1>2 DEF CHUNKNEXT_FREE_BLOCK
  <2> QED BY <2>1 DEF stillProcessingQueue
<1>4. cache.chunkNext[c] < 32
  <2>1. Behind(Chunks, endTriangle, cache) /\ endTriangle \in Nat BY RingFacts, TruthFacts
  <2> QED BY <1>2, <1>3, <2>1 DEF Behind
<1>5. Live(cache, c) BY <1>4 DEF Live, CHUNKNEXT_BUSY_BIT
<1> QED BY <1>1, <1>3, <1>5, Truth_Chunks DEF ChunkTriangleIsTrue

\* While no entry is stale and no last tile is lost, every chunk and every SPU
\* knows the truth about the pixels of its tiles.
THEOREM TruthHolds == Spec /\ []NoStaleEntry /\ []NoLastTileLost => []TruthInv
<1>1. Init => TruthInv BY Init_Truth
<1>2. RInv /\ TruthInv /\ NoStaleEntry /\ NoLastTileLost /\ [Next]_vars => TruthInv'
  BY Next_Fresh, Next_Truth
<1> QED BY <1>1, <1>2, RingHolds, PTL DEF Spec

\* Under the same conditions the tiles of a chunk nobody works on carry the
\* triangles before its chunkTriangle, each once and in order.
THEOREM ChunkTruthHolds == Spec /\ []NoStaleEntry /\ []NoLastTileLost => []ChunkTriangleIsTrue
<1>1. RInv /\ TruthInv => ChunkTriangleIsTrue BY Truth_Chunks
<1> QED BY <1>1, RingHolds, TruthHolds, PTL

\* Under the same conditions, when stillProcessingQueue lets a flush go on, every
\* triangle is in the frame buffer.
THEOREM FinishHolds == Spec /\ []NoStaleEntry /\ []NoLastTileLost => []FinishedMeansDrawn
<1>1. RInv /\ TruthInv => FinishedMeansDrawn BY Truth_Finished
<1> QED BY <1>1, RingHolds, TruthHolds, PTL

-----------------------------------------------------------------------------
(* The refinement of Raster.                                               *)

LEMMA Init_Raster == Init => Raster!Init
<1> SUFFICES ASSUME Init PROVE Raster!Init OBVIOUS
<1>1. PICK layout \in Layouts : /\ pixels = [t \in 0 .. (layout[1] - 1) |-> <<>>]
                                /\ triangles = <<>>
  BY DEF Init
<1>2. PICK tiles : tiles = 0 .. (layout[1] - 1) OBVIOUS
<1>3. tiles \in {0 .. (layout2[1] - 1) : layout2 \in Layouts} BY <1>2
<1>4. pixels = [t \in tiles |-> <<>>] BY <1>1, <1>2
<1> QED BY <1>1, <1>3, <1>4 DEF Raster!Init

LEMMA Submit_Raster == ASSUME Submit PROVE Raster!Submit
<1>1. /\ \E cover \in Coverages[Cardinality(DOMAIN pixels)] : triangles' = Append(triangles, cover)
      /\ UNCHANGED pixels
  BY DEF Submit, NumTiles, Tiles
<1>2. Raster!Cardinality(DOMAIN pixels) = Cardinality(DOMAIN pixels)
  BY DEF Cardinality, Raster!Cardinality
<1> QED BY <1>1, <1>2 DEF Raster!Submit, Raster!Tiles

LEMMA Flush_Raster == ASSUME RInv, TruthInv, NEW p \in Spus, Flush(p) PROVE Raster!Draw
<1>1. PICK K, T, P, j, own :
        /\ K = endTriangle /\ T = triangles /\ P = pixels /\ j = spu[p].chunkTriangle
        /\ own = cache.chunkStart[spu[p].chunkToProcess]
                   .. Ends(NumTiles, cache, spu[p].chunkToProcess)
  OBVIOUS
<1>2. /\ j \in 0 .. K
      /\ \A t \in own : /\ pixels'[t] = DrawnIn(T, t, j)
                        /\ \E i \in 0 .. j : P[t] = DrawnIn(T, t, i)
      /\ \A t \in Tiles \ own : pixels'[t] = P[t]
  BY <1>1, Flush_Pixels
<1>3. K \in Nat /\ \A t \in Tiles : \E k \in 0 .. K : P[t] = DrawnIn(T, t, k)
  BY <1>1, RingFacts, TruthFacts DEF PixelsTrue
<1>4. PICK upto : upto = [t \in Tiles |-> IF t \in own THEN j
                                           ELSE CHOOSE k \in 0 .. K : P[t] = DrawnIn(T, t, k)]
  OBVIOUS
<1>5. ASSUME NEW t \in Tiles
      PROVE  /\ upto[t] \in 0 .. K
             /\ pixels'[t] = DrawnIn(T, t, upto[t])
             /\ Len(P[t]) <= Len(DrawnIn(T, t, upto[t]))
             /\ Len(P[t]) \in Nat /\ Len(DrawnIn(T, t, upto[t])) \in Nat
  <2>0. \A k \in 0 .. K : k \in Nat BY <1>3
  <2>1. CASE t \in own
    <3>1. upto[t] = j BY <1>4, <2>1
    <3>2. PICK i \in 0 .. j : P[t] = DrawnIn(T, t, i) BY <1>2, <2>1
    <3>3. i \in Nat /\ j \in Nat /\ i <= j BY <1>2, <1>3
    <3>4. Len(DrawnIn(T, t, i)) <= Len(DrawnIn(T, t, j)) BY <3>3, DrawnGrows
    <3>5. DrawnIn(T, t, i) \in Seq(Nat) /\ DrawnIn(T, t, j) \in Seq(Nat) BY <3>3, DrawnNumbers
    <3>6. Len(DrawnIn(T, t, i)) \in Nat /\ Len(DrawnIn(T, t, j)) \in Nat BY <3>5
    <3> QED BY <1>2, <2>1, <3>1, <3>2, <3>4, <3>6
  <2>2. CASE t \notin own
    <3>1. upto[t] \in 0 .. K /\ P[t] = DrawnIn(T, t, upto[t]) BY <1>3, <1>4, <2>2
    <3>2. DrawnIn(T, t, upto[t]) \in Seq(Nat) BY <2>0, <3>1, DrawnNumbers
    <3>3. Len(DrawnIn(T, t, upto[t])) \in Nat BY <3>2
    <3>4. Len(P[t]) = Len(DrawnIn(T, t, upto[t])) BY <3>1
    <3>5. pixels'[t] = P[t] BY <1>2, <2>2
    <3> QED BY <3>1, <3>3, <3>4, <3>5
  <2> QED BY <2>1, <2>2
<1>6. \A t \in Tiles : upto[t] \in 0 .. Len(triangles) BY <1>1, <1>5 DEF endTriangle
<1>7. \A t, k : Raster!Drawn(t, k) = DrawnIn(T, t, k)
  <2>1. \A t, k : Drawn(t, k) = DrawnIn(T, t, k) BY <1>1, DrawnIs
  <2> QED BY <2>1 DEF Drawn
<1>8. \A t \in Tiles : Len(Raster!Drawn(t, upto[t])) >= Len(pixels[t]) BY <1>1, <1>5, <1>7
<1>9. /\ \A t \in Tiles : pixels'[t] = Raster!Drawn(t, upto[t])
      /\ DOMAIN pixels' = Tiles
  BY <1>5, <1>7 DEF Flush
<1>10. UNCHANGED triangles BY DEF Flush
<1>11. Raster!Tiles = Tiles BY DEF Tiles, Raster!Tiles
<1> QED BY <1>6, <1>8, <1>9, <1>10, <1>11 DEF Raster!Draw

LEMMA Next_Raster ==
  ASSUME RInv, TruthInv, FreshStep PROVE [Raster!Next]_(Raster!vars)
<1> SUFFICES ASSUME ~(UNCHANGED <<triangles, pixels>>) PROVE Raster!Next
  BY DEF Raster!vars
<1>1. CASE Submit BY <1>1, Submit_Raster DEF Raster!Next
<1>2. ASSUME NEW p \in Spus, SpuNext(p), SplitStore(p) => ~StaleEntry(p) PROVE Raster!Next
  <2>1. CASE Claim(p) BY <2>1, Claim_Step DEF Writes
  <2>2. CASE Search(p) BY <2>2, Search_Step DEF Leaves
  <2>3. CASE SplitLoad(p) BY <2>3, SplitLoad_Step DEF Leaves
  <2>4. CASE SplitStore(p) BY <1>2, <2>4, SplitStore_Step DEF Writes
  <2>5. CASE Relinquish(p) BY <2>5, Relinquish_Step DEF Writes
  <2>6. CASE SplitRetry(p) BY <2>6, SplitRetry_Step DEF Leaves
  <2>7. CASE Render(p) BY <2>7, Render_Step DEF Leaves
  <2>8. CASE Flush(p) BY <2>8, Flush_Raster DEF Raster!Next
  <2>9. CASE Finish(p) BY <2>9, Finish_Step DEF Writes
  <2> QED BY <1>2, <2>1, <2>2, <2>3, <2>4, <2>5, <2>6, <2>7, <2>8, <2>9 DEF SpuNext
<1>3. CASE Done \/ UNCHANGED vars BY <1>3 DEF Done, vars
<1> QED BY <1>1, <1>2, <1>3 DEF FreshStep

\* Under the same conditions the SPUs together implement Raster: tiles are only
\* ever written with the triangles that come next on them.
THEOREM RasterIsImplemented == Spec /\ []NoStaleEntry /\ []NoLastTileLost => RasterSpec
<1>1. Init => Raster!Init BY Init_Raster
<1>2. RInv /\ TruthInv /\ NoStaleEntry /\ [Next]_vars => [Raster!Next]_(Raster!vars)
  BY Next_Fresh, Next_Raster
<1> QED BY <1>1, <1>2, RingHolds, TruthHolds, PTL DEF Spec, RasterSpec, Raster!Spec

-----------------------------------------------------------------------------
(* Where a stale entry comes from.                                         *)

\* The entries reserved for an SPU, from Claim until it uses them or gives them back.
Reserved(s, e) ==
  /\ s.freeChunk = e
  /\ \/ s.pc \in {"search", "split_getllar", "finish"}
     \/ s.pc = "split_putllc" /\ s.claimed

\* The entries reserved for the SPUs of S are reserved in the line, each for one of them.
KInv(S) ==
  /\ \A p \in S, e \in Chunks : Reserved(spu[p], e) => cache.chunkNext[e] = CHUNKNEXT_RESERVED
  /\ \A p, q \in S, e \in Chunks :
       p # q => ~(Reserved(spu[p], e) /\ Reserved(spu[q], e))

\* The other SPUs are splitting, with an entry.
Outsiders(S) == \A q \in Spus \ S : spu[q].pc \in Splitting /\ spu[q].freeChunk # NoChunk

LEMMA Kept_Fresh ==
  ASSUME RInv, NEW S \in SUBSET Spus, KInv(S), Outsiders(S), NEW p \in S PROVE ~StaleEntry(p)
<1> SUFFICES ASSUME StaleEntry(p) PROVE FALSE
  OBVIOUS
<1>1. PICK s : s = spu[p] OBVIOUS
<1>2. /\ s.pc = "split_putllc" /\ p \in resv /\ s.claimed
      /\ \/ cache.chunkNext[s.freeChunk] \notin {CHUNKNEXT_FREE_BLOCK, CHUNKNEXT_RESERVED}
         \/ \E q \in Spus \ {p} : HoldsEntry(spu[q], s.freeChunk)
         \/ s.freeChunk2 = s.freeChunk
  BY <1>1 DEF StaleEntry
<1>3. KnowsFree(cache, s, p \in resv) /\ s \in Locals(Chunks, NumTiles, endTriangle)
  BY <1>1 DEF RInv, Types, SpuInv, SpuAt
<1>4. s.freeChunk # NoChunk BY <1>2, <1>3 DEF KnowsFree
<1>5. s.freeChunk \in Chunks BY <1>3, <1>4 DEF Locals
<1>6. Reserved(s, s.freeChunk) BY <1>2 DEF Reserved
<1>7. cache.chunkNext[s.freeChunk] = CHUNKNEXT_RESERVED BY <1>1, <1>5, <1>6 DEF KInv
<1>8. CASE \E q \in Spus \ {p} : HoldsEntry(spu[q], s.freeChunk)
  <2>1. PICK q \in Spus \ {p} : HoldsEntry(spu[q], s.freeChunk) BY <1>8
  <2>2. Reserved(spu[q], s.freeChunk) BY <2>1 DEF HoldsEntry, Reserved
  <2>3. q \in S BY <2>1 DEF Outsiders, HoldsEntry, Splitting
  <2> QED BY <1>1, <1>5, <1>6, <2>2, <2>3 DEF KInv
<1>9. CASE s.freeChunk2 = s.freeChunk
  <2>1. cache.chunkNext[s.freeChunk] = CHUNKNEXT_FREE_BLOCK
    BY <1>2, <1>3, <1>4, <1>9 DEF KnowsFree
  <2> QED BY <1>7, <2>1 DEF CHUNKNEXT_FREE_BLOCK, CHUNKNEXT_RESERVED
<1> QED BY <1>2, <1>7, <1>8, <1>9

\* A step of p to the locals z, with the links n after it, keeps what the SPUs of S have
\* reserved.
StepKeeps(S, p, n, z) ==
  /\ \A q \in S \ {p}, d \in Chunks :
       Reserved(spu[q], d) => n[d] = CHUNKNEXT_RESERVED /\ ~Reserved(z, d)
  /\ \A d \in Chunks : Reserved(z, d) => n[d] = CHUNKNEXT_RESERVED

LEMMA StepKept ==
  ASSUME RInv, NEW S \in SUBSET Spus, KInv(S), NEW p \in Spus, NEW z,
         spu' = [spu EXCEPT ![p] = z], Chunks' = Chunks,
         NEW n, n = cache'.chunkNext, StepKeeps(S, p, n, z)
  PROVE  KInv(S \cup {p})'
<1>1. spu'[p] = z /\ \A q \in S \ {p} : spu'[q] = spu[q] BY DEF RInv, Types
<1>2. ASSUME NEW q \in S \cup {p}, NEW e \in Chunks, Reserved(spu'[q], e)
      PROVE  cache'.chunkNext[e] = CHUNKNEXT_RESERVED
  BY <1>1, <1>2 DEF StepKeeps
<1>3. ASSUME NEW q \in S \cup {p}, NEW w \in S \cup {p}, NEW e \in Chunks, q # w,
             Reserved(spu'[q], e), Reserved(spu'[w], e)
      PROVE  FALSE
  <2>1. CASE q = p BY <1>1, <1>3, <2>1 DEF StepKeeps
  <2>2. CASE w = p BY <1>1, <1>3, <2>2 DEF StepKeeps
  <2>3. CASE q # p /\ w # p BY <1>1, <1>3, <2>3 DEF KInv
  <2> QED BY <2>1, <2>2, <2>3
<1> QED BY <1>2, <1>3 DEF KInv

\* A step that leaves the line alone and reserves nothing more.
LEMMA LeavesKept ==
  ASSUME RInv, NEW S \in SUBSET Spus, KInv(S), NEW p \in S, NEW z, Leaves(p, z),
         \A d \in Chunks : Reserved(z, d) => Reserved(spu[p], d)
  PROVE  KInv(S)'
<1>1. PICK n : n = cache.chunkNext OBVIOUS
<1>2. spu' = [spu EXCEPT ![p] = z] /\ cache' = cache BY DEF Leaves
<1>3. Chunks' = Chunks BY <1>2 DEF Chunks
<1>4. StepKeeps(S, p, n, z) BY <1>1 DEF KInv, StepKeeps
<1>5. n = cache'.chunkNext BY <1>1, <1>2
<1>6. KInv(S \cup {p})' BY <1>2, <1>3, <1>4, <1>5, StepKept
<1> QED BY <1>6 DEF KInv

\* A step that leaves the line alone does not concern the others.
LEMMA LeavesOthers ==
  ASSUME RInv, NEW S \in SUBSET Spus, KInv(S), NEW p \in Spus, NEW z, Leaves(p, z)
  PROVE  KInv(S \ {p})'
<1>1. spu' = [spu EXCEPT ![p] = z] /\ cache' = cache BY DEF Leaves
<1>2. Chunks' = Chunks BY <1>1 DEF Chunks
<1>3. \A q \in S \ {p} : spu'[q] = spu[q] BY <1>1 DEF RInv, Types
<1> QED BY <1>1, <1>2, <1>3 DEF KInv

\* A step that writes the line and reserves nothing.
LEMMA WritesKept ==
  ASSUME RInv, NEW S \in SUBSET Spus, KInv(S), NEW p \in Spus, NEW z, Writes(p, z),
         \A d \in Chunks : ~Reserved(z, d),
         \A d \in Chunks : cache.chunkNext[d] = 254 /\ (p \in S => ~Reserved(spu[p], d)) =>
                             cache'.chunkNext[d] = 254
  PROVE  KInv(S \cup {p})'
<1>1. PICK n : n = cache'.chunkNext OBVIOUS
<1>2. spu' = [spu EXCEPT ![p] = z] /\ GoodLine(Chunks, NumTiles, endTriangle, cache')
  BY DEF Writes
<1>3. Chunks' = Chunks BY <1>2, LineDomain DEF Chunks
<1>4. StepKeeps(S, p, n, z) BY <1>1 DEF KInv, StepKeeps, CHUNKNEXT_RESERVED
<1>5. spu' = [spu EXCEPT ![p] = z] BY <1>2
<1> QED BY ONLY RInv, S \in SUBSET Spus, KInv(S), p \in Spus, <1>1, <1>3, <1>4, <1>5, StepKept

LEMMA Claim_Kept ==
  ASSUME RInv, NEW S \in SUBSET Spus, KInv(S), NEW p \in S, Claim(p) PROVE KInv(S \cup {p})'
<1>1. PICK C, N, K, l, m, n :
        /\ C = Chunks /\ N = NumTiles /\ K = endTriangle /\ l = cache /\ m = cache'
        /\ n = cache'.chunkNext
  OBVIOUS
<1>2. PICK c, e, z : Writes(p, z) /\ ClaimDone(C, N, K, l, m, c, e, z) /\ spu[p].pc = "idle"
  BY <1>1, Claim_Step
<1>3. /\ c \in C /\ l.chunkNext[c] < 32
      /\ \A d \in C \ {c, e} : m.chunkNext[d] = l.chunkNext[d]
      /\ e # NoChunk => e \in C /\ l.chunkNext[e] = 255 /\ m.chunkNext[e] = 254
      /\ z.pc = "search" /\ z.freeChunk = e
  BY <1>2 DEF ClaimDone
<1>4. spu' = [spu EXCEPT ![p] = z] /\ GoodLine(Chunks, NumTiles, endTriangle, cache')
  BY <1>2 DEF Writes
<1>5. Chunks' = Chunks BY <1>4, LineDomain DEF Chunks
<1>6. \A d \in C : d # NoChunk BY <1>1, RingFacts, LinkFacts
<1>7. ASSUME NEW q \in S \ {p}, NEW d \in C, Reserved(spu[q], d)
      PROVE  m.chunkNext[d] = 254 /\ ~Reserved(z, d)
  <2>1. l.chunkNext[d] = 254 BY <1>1, <1>7 DEF KInv, CHUNKNEXT_RESERVED
  <2>2. d # c
    <3>1. ~(254 < 32) OBVIOUS
    <3> QED BY <1>3, <2>1, <3>1
  <2>3. d # e BY <1>3, <1>6, <2>1
  <2> QED BY <1>3, <2>1, <2>2, <2>3 DEF Reserved
<1>8. \A d \in C : Reserved(z, d) => m.chunkNext[d] = 254
  BY <1>3, <1>6 DEF Reserved
<1>9. StepKeeps(S, p, n, z) BY <1>1, <1>7, <1>8 DEF StepKeeps, CHUNKNEXT_RESERVED
<1> QED BY <1>1, <1>4, <1>5, <1>9, StepKept

LEMMA Merged_Reserved ==
  ASSUME NEW C, NEW N, NEW l, NEW m, Merged(C, N, l, m), NEW d \in C, l.chunkNext[d] = 254
  PROVE  m.chunkNext[d] = 254
<1>1. ~(l.chunkNext[d] < 32) OBVIOUS
<1> QED BY <1>1 DEF Merged

LEMMA SplitStore_Kept ==
  ASSUME RInv, NEW S \in SUBSET Spus, KInv(S), NEW p \in Spus, SplitStore(p), ~StaleEntry(p),
         p \notin S => cache.chunkNext[spu[p].freeChunk] = CHUNKNEXT_FREE_BLOCK
  PROVE  KInv(S \cup {p})'
<1>1. PICK C, N, K, l, m, s, k :
        /\ C = Chunks /\ N = NumTiles /\ K = endTriangle /\ l = cache /\ m = cache'
        /\ s = spu[p] /\ k = Cleared(spu[p])
  OBVIOUS
<1>3. PICK z, e : /\ Writes(p, z) /\ BlockTaken(s, z)
                  /\ Splits(C, N, K, k, s) /\ SplitDone(C, N, K, k, s, e) /\ Merged(C, N, e, m)
  BY <1>1, SplitStore_Step
<1>4. s.pc = "split_putllc" /\ p \in resv /\ ~(HasTail(s) /\ s.freeChunk = NoChunk)
  BY <1>1 DEF SplitStore
<1>5. \A d \in C : d = s.freeChunk \/ k.chunkNext[d] = l.chunkNext[d]
  BY <1>1, <1>4, ClearedLine
<1>6. KnowsFree(l, s, p \in resv) /\ s \in Locals(C, N, K)
  BY <1>1 DEF RInv, Types, SpuInv, SpuAt
<1>7. \A d \in C : d # NoChunk BY <1>1, RingFacts, LinkFacts
<1>8. ASSUME NEW d \in C, l.chunkNext[d] = 254, p \in S => ~Reserved(s, d)
      PROVE  m.chunkNext[d] = 254
  <2>1. d # s.freeChunk
    <3> SUFFICES ASSUME d = s.freeChunk PROVE FALSE OBVIOUS
    <3>1. CASE p \in S
      <4>1. ~s.claimed BY <1>4, <1>8, <3>1 DEF Reserved
      <4>2. l.chunkNext[s.freeChunk] = 255
        BY <1>4, <1>6, <1>7, <4>1 DEF KnowsFree, CHUNKNEXT_FREE_BLOCK
      <4> QED BY <1>8, <4>2
    <3>2. CASE p \notin S BY <1>1, <1>8, <3>2 DEF CHUNKNEXT_FREE_BLOCK
    <3> QED BY <3>1, <3>2
  <2>2. k.chunkNext[d] = 254 BY <1>5, <1>8, <2>1
  <2>3. e.chunkNext[d] = 254 BY <1>3, <2>2 DEF SplitDone
  <2> QED BY <1>3, <2>3, Merged_Reserved
<1>9. \A d \in C : ~Reserved(z, d) BY <1>3 DEF BlockTaken, Reserved
<1> QED BY <1>1, <1>3, <1>8, <1>9, WritesKept

LEMMA OwnLink ==
  ASSUME RInv, NEW p \in Spus, spu[p].pc # "idle"
  PROVE  cache.chunkNext[spu[p].chunkToProcess] < 64
BY RingFacts, OwnTiles DEF RInv, Types, SpuInv, SpuAt

LEMMA Relinquish_Kept ==
  ASSUME RInv, NEW S \in SUBSET Spus, KInv(S), NEW p \in S, Relinquish(p) PROVE KInv(S \cup {p})'
<1>1. PICK m, k : m = cache' /\ k = cache.chunkTriangle[spu[p].chunkToProcess] OBVIOUS
<1>2. Writes(p, Idle) BY Relinquish_Step
<1>3. GivenBack(Chunks, NumTiles, cache, m, spu[p], k) BY <1>1, Relinquish_Step
<1>4. spu[p].pc # "idle" BY DEF Relinquish
<1>5. ASSUME NEW d \in Chunks, cache.chunkNext[d] = 254 PROVE cache'.chunkNext[d] = 254
  <2>1. d # NoChunk BY RingFacts, LinkFacts
  <2>2. d # spu[p].freeChunk BY <2>1 DEF Relinquish
  <2>3. d # spu[p].chunkToProcess
    <3>1. cache.chunkNext[spu[p].chunkToProcess] < 64 BY <1>4, OwnLink
    <3>2. ~(254 < 64) OBVIOUS
    <3> QED BY <1>5, <3>1, <3>2
  <2>4. m.chunkNext[d] = 254 BY <1>3, <1>5, <2>2, <2>3 DEF GivenBack
  <2> QED BY <1>1, <2>4
<1>6. \A d : ~Reserved(Idle, d) BY DEF Reserved, Idle
<1> QED BY <1>2, <1>5, <1>6, WritesKept

LEMMA Finish_Kept ==
  ASSUME RInv, NEW S \in SUBSET Spus, KInv(S), NEW p \in S, Finish(p) PROVE KInv(S \cup {p})'
<1>1. Writes(p, Idle) /\ spu[p].pc = "finish" BY Finish_Step
<1>2. PICK k : /\ GivenBack(Chunks, NumTiles, cache, k, spu[p], spu[p].chunkTriangle)
               /\ Merged(Chunks, NumTiles, k, cache')
  BY Finish_Step
<1>3. ASSUME NEW d \in Chunks, cache.chunkNext[d] = 254, ~Reserved(spu[p], d)
      PROVE  cache'.chunkNext[d] = 254
  <2>1. d # spu[p].freeChunk BY <1>1, <1>3 DEF Reserved
  <2>2. spu[p].pc # "idle" BY <1>1
  <2>3. d # spu[p].chunkToProcess
    <3>1. cache.chunkNext[spu[p].chunkToProcess] < 64 BY <2>2, OwnLink
    <3>2. ~(254 < 64) OBVIOUS
    <3> QED BY <1>3, <3>1, <3>2
  <2>5. k.chunkNext[d] = 254 BY <1>2, <1>3, <2>1, <2>3 DEF GivenBack
  <2> QED BY <1>2, <2>5, Merged_Reserved
<1>4. \A d : ~Reserved(Idle, d) BY DEF Reserved, Idle
<1> QED BY <1>1, <1>3, <1>4, WritesKept

\* Whatever an SPU of S does but to keep an unreserved entry, what S has reserved is kept.
LEMMA Step_Kept ==
  ASSUME RInv, NEW S \in SUBSET Spus, KInv(S), NEW p \in S, ~KeepsUnclaimed(p),
         \/ Claim(p) \/ Search(p) \/ SplitLoad(p) \/ Relinquish(p) \/ SplitRetry(p)
         \/ Render(p) \/ Flush(p) \/ Finish(p)
  PROVE  KInv(S)'
<1>0. \A d \in Chunks : d # NoChunk BY RingFacts, LinkFacts
<1>1. CASE Search(p)
  <2>1. PICK z : Leaves(p, z) /\ SearchDone(triangles, spu[p], z) /\ spu[p].pc = "search"
    BY <1>1, Search_Step
  <2>2. PICK s : s = spu[p] OBVIOUS
  <2>3. s \in Locals(Chunks, NumTiles, endTriangle) BY <2>2 DEF RInv, Types
  <2>4. z.freeChunk = s.freeChunk BY <2>1, <2>2, <2>3 DEF SearchDone, Locals
  <2>5. \A d \in Chunks : Reserved(z, d) => Reserved(spu[p], d)
    BY <2>1, <2>2, <2>4 DEF Reserved
  <2> QED BY <2>1, <2>5, LeavesKept
<1>2. CASE SplitLoad(p)
  <2>1. PICK z : /\ Leaves(p, z) /\ spu[p].pc = "split_getllar" /\ z.pc = "split_putllc"
                 /\ IF spu[p].freeChunk = NoChunk THEN ~z.claimed
                    ELSE z.freeChunk = spu[p].freeChunk
    BY <1>2, SplitLoad_Step
  <2>2. \A d \in Chunks : Reserved(z, d) => Reserved(spu[p], d)
    BY <1>0, <2>1 DEF Reserved
  <2> QED BY <2>1, <2>2, LeavesKept
<1>3. CASE Render(p)
  <2>1. PICK z : Leaves(p, z) /\ z.pc \in Drawing
    BY <1>3, Render_Step DEF RenderDone
  <2>2. \A d \in Chunks : Reserved(z, d) => Reserved(spu[p], d)
    BY <1>0, <2>1 DEF Leaves, SpuAt, KnowsBlock, Reserved
  <2> QED BY <2>1, <2>2, LeavesKept
<1>4. CASE Flush(p)
  <2>1. PICK z : Leaves(p, z) /\ spu[p].pc = "flush" BY <1>4, Flush_Step
  <2>2. spu[p] \in Locals(Chunks, NumTiles, endTriangle) /\ p \in DOMAIN spu
    BY DEF RInv, Types
  <2>3. z.freeChunk = spu[p].freeChunk
    BY <1>4, <2>1, <2>2 DEF Flush, Leaves, Locals
  <2>4. spu[p].freeChunk = NoChunk
    BY <2>1 DEF RInv, SpuInv, SpuAt, KnowsBlock, Drawing
  <2>5. \A d \in Chunks : ~Reserved(z, d) BY <1>0, <2>3, <2>4 DEF Reserved
  <2> QED BY <2>1, <2>5, LeavesKept
<1>5. CASE SplitRetry(p)
  <2>1. PICK z : /\ Leaves(p, z) /\ z.pc = "split_getllar" /\ z.freeChunk = spu[p].freeChunk
    BY <1>5, SplitRetry_Step
  <2>2. spu[p].pc = "split_putllc" BY <1>5 DEF SplitRetry
  <2>3. spu[p].claimed \/ spu[p].freeChunk = NoChunk BY <1>5 DEF KeepsUnclaimed
  <2>4. \A d \in Chunks : Reserved(z, d) => Reserved(spu[p], d)
    BY <1>0, <2>1, <2>2, <2>3 DEF Reserved
  <2> QED BY <2>1, <2>4, LeavesKept
<1>6. CASE Claim(p) \/ Relinquish(p) \/ Finish(p)
  <2>1. S \cup {p} = S OBVIOUS
  <2> QED BY <1>6, <2>1, Claim_Kept, Relinquish_Kept, Finish_Kept
<1> QED BY <1>1, <1>2, <1>3, <1>4, <1>5, <1>6

\* In behaviours without that retry all SPUs keep what they have reserved.
NeverKeepsUnclaimed == [][\A p \in Spus : ~KeepsUnclaimed(p)]_vars

LEMMA AllFresh == ASSUME RInv, KInv(Spus) PROVE NoStaleEntry
<1>1. Spus \in SUBSET Spus /\ Outsiders(Spus) BY DEF Outsiders
<1> QED BY <1>1, Kept_Fresh DEF NoStaleEntry

LEMMA Next_Kept ==
  ASSUME RInv, KInv(Spus), [Next]_vars, [\A p \in Spus : ~KeepsUnclaimed(p)]_vars
  PROVE  KInv(Spus)'
<1>1. NoStaleEntry BY AllFresh
<1>2. CASE UNCHANGED <<cache, spu>>
  <2>1. Chunks' = Chunks BY <1>2 DEF Chunks
  <2> QED BY <1>2, <2>1 DEF KInv
<1>3. ASSUME NEW p \in Spus, SpuNext(p), vars' # vars PROVE KInv(Spus)'
  <2>1. ~KeepsUnclaimed(p) BY <1>3
  <2>2. Spus \in SUBSET Spus /\ Spus \cup {p} = Spus OBVIOUS
  <2>3. CASE SplitStore(p) BY <1>1, <2>2, <2>3, SplitStore_Kept DEF NoStaleEntry
  <2> QED BY <1>3, <2>1, <2>2, <2>3, Step_Kept DEF SpuNext
<1> QED BY <1>2, <1>3 DEF Next, Submit, Done, vars

LEMMA Init_Kept == ASSUME Init PROVE KInv(Spus)
<1>1. \A p \in Spus : spu[p] = Idle BY DEF Init
<1> QED BY <1>1 DEF KInv, Reserved, Idle

\* An entry only ever goes stale when a split loses its reservation after it has
\* chosen a free entry that Claim has not reserved for it.  Every other failed
\* PUTLLC, at any point of any SPU, is harmless.
THEOREM OnlyUnclaimedRetriesAreStale == Spec /\ NeverKeepsUnclaimed => []NoStaleEntry
<1>1. Init => RInv /\ KInv(Spus) BY Init_RInv, Init_Kept
<1>2. RInv /\ KInv(Spus) => NoStaleEntry BY AllFresh
<1>3. /\ RInv /\ KInv(Spus)
      /\ [Next]_vars /\ [\A p \in Spus : ~KeepsUnclaimed(p)]_vars
      => (RInv /\ KInv(Spus))'
  BY <1>2, Next_RInv, Next_Kept
<1> QED BY <1>1, <1>2, <1>3, PTL DEF Spec, NeverKeepsUnclaimed

LEMMA RInv_Reserved == ASSUME RInv PROVE ReservedIsKept
<1> SUFFICES ASSUME NEW p \in Spus, spu[p].pc = "search", spu[p].freeChunk # NoChunk
             PROVE  cache.chunkNext[spu[p].freeChunk] = CHUNKNEXT_RESERVED
  BY DEF ReservedIsKept
<1>1. spu[p] \in Locals(Chunks, NumTiles, endTriangle) /\ KeepsEntry(Chunks, cache, spu[p])
  BY DEF RInv, Types, SpuInv, SpuAt
<1>2. spu[p].freeChunk \in Chunks BY <1>1 DEF Locals
<1> QED BY <1>1, <1>2 DEF KeepsEntry, HoldsEntry

\* "Was free, but now claimed": without such a retry an entry that Claim has
\* reserved stays reserved, and the line stays what it should be.
THEOREM ReservationsHold ==
  Spec /\ NeverKeepsUnclaimed =>
    [](ReservedIsKept /\ TypeOK /\ ChunksPartitionTiles /\ TilesAreExclusive)
<1>1. RInv => ReservedIsKept /\ TypeOK /\ ChunksPartitionTiles /\ TilesAreExclusive
  BY RInv_Reserved, RInv_TypeOK, RInv_Partition, RInv_Exclusive
<1> QED BY <1>1, RingHolds, OnlyUnclaimedRetriesAreStale, PTL

\* Without such a retry, and with no last tile lost, what is shown is what was
\* submitted.
THEOREM RetriesAsideIsDrawn ==
  Spec /\ NeverKeepsUnclaimed /\ []NoLastTileLost =>
    [](ChunkTriangleIsTrue /\ FinishedMeansDrawn) /\ RasterSpec
<1> QED BY OnlyUnclaimedRetriesAreStale, ChunkTruthHolds, FinishHolds, RasterIsImplemented, PTL

-----------------------------------------------------------------------------
(* With those retries.                                                     *)

\* An SPU that has kept an unreserved entry is still splitting with it.
Keeping == \A q \in kept \cap Spus : spu[q].pc \in Splitting /\ spu[q].freeChunk # NoChunk

\* The other SPUs hold what they have reserved, until a kept entry does harm.
RetryInv == ~spoilt => RInv /\ KInv(Spus \ kept) /\ Keeping

LEMMA Init_Retry == ASSUME RetryInit PROVE RetryInv
<1>1. RInv /\ KInv(Spus) BY Init_RInv, Init_Kept DEF RetryInit
<1>2. Spus \ kept = Spus /\ Keeping BY DEF RetryInit, Keeping
<1> QED BY <1>1, <1>2 DEF RetryInv

\* A kept entry that is still free is as good as a reserved one.
LEMMA Free_Fresh ==
  ASSUME RInv, NEW p \in Spus, spu[p].freeChunk # NoChunk, ~TakenMeanwhile(spu[p])
  PROVE  ~StaleEntry(p) /\ cache.chunkNext[spu[p].freeChunk] = CHUNKNEXT_FREE_BLOCK
<1>1. PICK f : f = spu[p].freeChunk OBVIOUS
<1>2. cache.chunkNext[f] = CHUNKNEXT_FREE_BLOCK BY <1>1 DEF TakenMeanwhile
<1>3. f \in Chunks BY <1>1 DEF RInv, Types, Locals
<1>4. ASSUME NEW q \in Spus, HoldsEntry(spu[q], f) PROVE FALSE
  <2>1. KeepsEntry(Chunks, cache, spu[q]) BY DEF RInv, SpuInv, SpuAt
  <2>2. cache.chunkNext[f] = CHUNKNEXT_RESERVED BY <1>3, <1>4, <2>1 DEF KeepsEntry
  <2> QED BY <1>2, <2>2 DEF CHUNKNEXT_FREE_BLOCK, CHUNKNEXT_RESERVED
<1> QED BY <1>1, <1>2, <1>4 DEF StaleEntry, TakenMeanwhile

\* A step of p, which keeps or has kept nothing, does not concern those that have.
LEMMA Keeping_Step ==
  ASSUME RInv, Keeping, NEW p \in Spus, NEW z, spu' = [spu EXCEPT ![p] = z],
         kept' \ {p} = kept \ {p},
         p \in kept' => z.pc \in Splitting /\ z.freeChunk # NoChunk
  PROVE  Keeping'
<1>1. spu'[p] = z /\ \A q \in Spus \ {p} : spu'[q] = spu[q] BY DEF RInv, Types
<1>2. ASSUME NEW q \in kept' \cap Spus PROVE spu'[q].pc \in Splitting /\ spu'[q].freeChunk # NoChunk
  <2>1. CASE q = p BY <1>1, <1>2, <2>1
  <2>2. CASE q # p
    <3>1. q \in kept BY <1>2, <2>2
    <3> QED BY <1>1, <2>2, <3>1 DEF Keeping
  <2> QED BY <2>1, <2>2
<1> QED BY <1>2 DEF Keeping, Splitting

LEMMA Retry_Retry ==
  ASSUME RInv, KInv(Spus \ kept), Keeping, NEW p \in Spus, Retry(p)
  PROVE  RInv' /\ KInv(Spus \ kept)' /\ Keeping'
<1>1. SplitRetry(p) /\ kept' = kept \cup {q \in {p} : KeepsUnclaimed(q)} BY DEF Retry
<1>2. PICK z : Leaves(p, z) /\ z.pc = "split_getllar" /\ z.freeChunk = spu[p].freeChunk
  BY <1>1, SplitRetry_Step
<1>3. RInv' BY <1>1, Step_RInv
<1>4. PICK S \in SUBSET Spus : S = Spus \ kept OBVIOUS
<1>5. PICK T \in SUBSET Spus : T = Spus \ kept'
  <2>1. Spus \ kept' \in SUBSET Spus OBVIOUS
  <2> QED BY <2>1
<1>6. KInv(S) BY <1>4
<1>7. KInv(T)'
  <2>1. CASE p \in S /\ ~KeepsUnclaimed(p)
    <3>1. T = S BY <1>1, <1>4, <1>5, <2>1
    <3>2. KInv(S)' BY <1>1, <1>6, <2>1, Step_Kept
    <3> QED BY <3>1, <3>2
  <2>2. CASE p \notin S \/ KeepsUnclaimed(p)
    <3>1. T = S \ {p} BY <1>1, <1>4, <1>5, <2>2
    <3>2. KInv(S \ {p})' BY <1>2, <1>6, LeavesOthers
    <3> QED BY <3>1, <3>2
  <2> QED BY <2>1, <2>2
<1>8. KInv(Spus \ kept)' BY <1>5, <1>7 DEF KInv
<1>9. Keeping'
  <2>1. spu' = [spu EXCEPT ![p] = z] BY <1>2 DEF Leaves
  <2>2. kept' \ {p} = kept \ {p} BY <1>1
  <2>3. p \in kept' => spu[p].freeChunk # NoChunk BY <1>1 DEF KeepsUnclaimed, Keeping
  <2>4. p \in kept' => z.pc \in Splitting /\ z.freeChunk # NoChunk
    BY <1>2, <2>3 DEF Splitting
  <2> QED BY <2>1, <2>2, <2>4, Keeping_Step
<1> QED BY <1>3, <1>8, <1>9

\* A split that does not spoil the line has an entry of its own.
LEMMA Store_Fresh ==
  ASSUME RInv, KInv(Spus \ kept), Keeping, NEW p \in Spus, Store(p), ~spoilt'
  PROVE  ~StaleEntry(p) /\ (p \in kept => cache.chunkNext[spu[p].freeChunk] = CHUNKNEXT_FREE_BLOCK)
<1>1. p \in kept => ~TakenMeanwhile(spu[p]) BY DEF Store
<1>2. CASE p \notin kept
  <2>1. PICK S \in SUBSET Spus : S = Spus \ kept OBVIOUS
  <2>2. Outsiders(S) BY <2>1 DEF Keeping, Outsiders
  <2> QED BY <1>2, <2>1, <2>2, Kept_Fresh
<1>3. CASE p \in kept
  <2>1. spu[p].freeChunk # NoChunk BY <1>3 DEF Keeping
  <2> QED BY <1>1, <1>3, <2>1, Free_Fresh
<1> QED BY <1>2, <1>3

LEMMA Store_Retry ==
  ASSUME RInv, KInv(Spus \ kept), Keeping, NEW p \in Spus, Store(p), ~spoilt'
  PROVE  RInv' /\ KInv(Spus \ kept)' /\ Keeping'
<1>1. SplitStore(p) /\ kept' = kept \ {p} BY DEF Store
<1>2. PICK S \in SUBSET Spus : S = Spus \ kept OBVIOUS
<1>3. KInv(S) BY <1>2
<1>4. ~StaleEntry(p) /\ (p \notin S => cache.chunkNext[spu[p].freeChunk] = CHUNKNEXT_FREE_BLOCK)
  BY <1>2, Store_Fresh
<1>5. RInv' BY <1>1, <1>4, SplitStore_RInv
<1>6. KInv(S \cup {p})' BY <1>1, <1>3, <1>4, SplitStore_Kept
<1>7. KInv(Spus \ kept)'
  <2>1. Spus \ kept' = S \cup {p} BY <1>1, <1>2
  <2> QED BY <1>6, <2>1 DEF KInv
<1>8. Keeping'
  <2>1. PICK z : spu' = [spu EXCEPT ![p] = z]
    BY <1>1, <1>4, SplitStore_Step DEF Writes
  <2>2. kept' \ {p} = kept \ {p} /\ p \notin kept' BY <1>1
  <2> QED BY <2>1, <2>2, Keeping_Step
<1> QED BY <1>5, <1>7, <1>8

LEMMA Other_Retry ==
  ASSUME RInv, KInv(Spus \ kept), Keeping, NEW p \in Spus, kept' = kept,
         \/ Claim(p) \/ Search(p) \/ SplitLoad(p) \/ Relinquish(p)
         \/ Render(p) \/ Flush(p) \/ Finish(p)
  PROVE  RInv' /\ KInv(Spus \ kept)' /\ Keeping'
<1>1. RInv' BY Step_RInv
<1>2. PICK S \in SUBSET Spus : S = Spus \ kept OBVIOUS
<1>3. KInv(S) /\ Spus \ kept' = S BY <1>2
<1>4. CASE p \in S
  <2>1. ~KeepsUnclaimed(p)
    BY DEF KeepsUnclaimed, SplitRetry, Claim, Search, SplitLoad, Relinquish, Render, Flush, Finish
  <2>2. KInv(S)' BY <1>3, <1>4, <2>1, Step_Kept
  <2>3. KInv(Spus \ kept)' BY <1>3, <2>2 DEF KInv
  <2>4. PICK z : spu' = [spu EXCEPT ![p] = z]
    BY DEF Claim, Search, SplitLoad, Relinquish, Render, Flush, Finish
  <2>5. p \notin kept' BY <1>2, <1>4
  <2>6. Keeping' BY <2>4, <2>5, Keeping_Step
  <2> QED BY <1>1, <2>3, <2>6
<1>5. CASE p \notin S
  <2>1. p \in kept /\ spu[p].pc \in Splitting /\ spu[p].freeChunk # NoChunk
    BY <1>2, <1>5 DEF Keeping
  <2>2. SplitLoad(p) BY <2>1 DEF Splitting, Claim, Search, Relinquish, Render, Flush, Finish
  <2>3. PICK z : Leaves(p, z) /\ z.pc = "split_putllc" /\ z.freeChunk = spu[p].freeChunk
    BY <2>1, <2>2, SplitLoad_Step
  <2>4. KInv(S \ {p})' BY <1>3, <2>3, LeavesOthers
  <2>5. S \ {p} = S BY <1>5
  <2>6. KInv(Spus \ kept)' BY <1>3, <2>4, <2>5 DEF KInv
  <2>7. spu' = [spu EXCEPT ![p] = z] BY <2>3 DEF Leaves
  <2>8. Keeping' BY <2>1, <2>3, <2>7, Keeping_Step DEF Splitting
  <2> QED BY <1>1, <2>6, <2>8
<1> QED BY <1>4, <1>5

LEMMA Next_Retry == ASSUME RetryInv, [RetryNext]_retryVars PROVE RetryInv'
<1> SUFFICES ASSUME ~spoilt' PROVE RInv' /\ KInv(Spus \ kept)' /\ Keeping'
  BY DEF RetryInv
<1>1. ~spoilt BY DEF RetryNext, Retry, Store, Other, retryVars
<1>2. RInv /\ KInv(Spus \ kept) /\ Keeping BY <1>1 DEF RetryInv
<1>3. ASSUME UNCHANGED <<kept, cache, spu>>, RInv' PROVE RInv' /\ KInv(Spus \ kept)' /\ Keeping'
  <2>1. Chunks' = Chunks BY <1>3 DEF Chunks
  <2> QED BY <1>2, <1>3, <2>1 DEF KInv, Keeping
<1>4. CASE Other
  <2>1. kept' = kept BY <1>4 DEF Other
  <2>2. CASE Submit
    <3>1. RInv' BY <1>2, <2>2, Submit_RInv
    <3> QED BY <1>3, <2>1, <2>2, <3>1 DEF Submit
  <2>3. CASE Done
    <3>1. RInv' BY <1>2, <2>3, Idle_RInv DEF Done
    <3> QED BY <1>3, <2>1, <2>3, <3>1 DEF Done, vars
  <2> QED BY <1>2, <1>4, <2>1, <2>2, <2>3, Other_Retry DEF Other
<1>5. CASE \E p \in Spus : Retry(p) \/ Store(p)
  BY <1>2, <1>5, Retry_Retry, Store_Retry
<1>6. CASE UNCHANGED retryVars
  <2>1. UNCHANGED vars /\ UNCHANGED <<kept, cache, spu>> BY <1>6 DEF retryVars, vars
  <2>2. RInv' BY <1>2, <2>1, Idle_RInv
  <2> QED BY <1>3, <2>1, <2>2
<1> QED BY <1>4, <1>5, <1>6 DEF RetryNext

LEMMA RetryHolds == RetrySpec => []RetryInv
<1> QED BY Init_Retry, Next_Retry, PTL DEF RetrySpec

\* The two history variables only watch: the steps are those of the splitting code.
THEOREM RetriesAreSteps == RetrySpec => Spec
<1>1. RetryInit => Init BY DEF RetryInit
<1>2. [RetryNext]_retryVars => [Next]_vars
  BY DEF RetryNext, Retry, Store, Other, Next, SpuNext, retryVars, vars
<1> QED BY <1>1, <1>2, PTL DEF RetrySpec, Spec

\* Before the first split that uses a kept entry taken meanwhile, an SPU is only about to
\* split with another's entry if it kept that entry itself (cacheline.c:341-350, :422).
THEOREM KeepersHold == RetrySpec => []OnlyKeepersAreStale
<1>1. ASSUME RetryInv PROVE OnlyKeepersAreStale
  <2> SUFFICES ASSUME ~spoilt, NEW p \in Spus, p \notin kept PROVE ~StaleEntry(p)
    BY DEF OnlyKeepersAreStale
  <2>1. RInv /\ KInv(Spus \ kept) /\ Keeping BY <1>1 DEF RetryInv
  <2>2. PICK S \in SUBSET Spus : S = Spus \ kept OBVIOUS
  <2>3. KInv(S) /\ p \in S /\ Outsiders(S) BY <2>1, <2>2 DEF Keeping, Outsiders
  <2> QED BY <2>1, <2>3, Kept_Fresh
<1> QED BY <1>1, RetryHolds, PTL

LEMMA UnspoiltIsRetried == UnspoiltSpec => [](RetryInv /\ ~spoilt)
<1>1. RetryInit => RetryInv /\ ~spoilt BY Init_Retry DEF RetryInit
<1>2. ASSUME RetryInv, ~spoilt, [UnspoiltNext]_retryVars PROVE RetryInv' /\ ~spoilt'
  <2>1. ~spoilt' BY <1>2 DEF UnspoiltNext, retryVars
  <2>2. [RetryNext]_retryVars BY <1>2 DEF UnspoiltNext
  <2> QED BY <1>2, <2>1, <2>2, Next_Retry
<1> QED BY <1>1, <1>2, PTL DEF UnspoiltSpec

\* Until then the ring partitions the tiles, SPUs keep apart, what Claim has reserved stays
\* reserved and the searches are asked what they can answer, however many attempts fail
\* and keep their entries.
THEOREM SoundnessHolds ==
  UnspoiltSpec => [](/\ TypeOK /\ ChunksPartitionTiles /\ TilesAreExclusive /\ ReservedIsKept
                     /\ AsksForChunks /\ AsksForBlocks)
<1>1. ASSUME RetryInv, ~spoilt
      PROVE  /\ TypeOK /\ ChunksPartitionTiles /\ TilesAreExclusive /\ ReservedIsKept
             /\ AsksForChunks /\ AsksForBlocks
  BY <1>1, RInv_TypeOK, RInv_Partition, RInv_Exclusive, RInv_Reserved, RInv_Asks DEF RetryInv
<1> QED BY <1>1, UnspoiltIsRetried, PTL

LEMMA Unspoilt_Fresh == ASSUME RetryInv, ~spoilt, [UnspoiltNext]_retryVars PROVE FreshStep
<1>1. RInv /\ KInv(Spus \ kept) /\ Keeping BY DEF RetryInv
<1>2. CASE RetryNext /\ ~spoilt'
  <2>1. CASE Other
    <3>1. ASSUME NEW p \in Spus,
                 \/ Claim(p) \/ Search(p) \/ SplitLoad(p) \/ Relinquish(p)
                 \/ Render(p) \/ Flush(p) \/ Finish(p)
          PROVE  SpuNext(p) /\ ~SplitStore(p)
      BY <3>1 DEF SpuNext, SplitStore, Claim, Search, SplitLoad, Relinquish, Render, Flush, Finish
    <3> QED BY <2>1, <3>1 DEF Other, FreshStep
  <2>2. ASSUME NEW p \in Spus, Retry(p) PROVE FreshStep
    <3>1. SpuNext(p) /\ ~SplitStore(p) BY <2>2 DEF Retry, SpuNext, SplitRetry, SplitStore
    <3> QED BY <3>1 DEF FreshStep
  <2>3. ASSUME NEW p \in Spus, Store(p) PROVE FreshStep
    <3>1. SpuNext(p) BY <2>3 DEF Store, SpuNext
    <3>2. ~StaleEntry(p) BY <1>1, <1>2, <2>3, Store_Fresh
    <3> QED BY <3>1, <3>2 DEF FreshStep
  <2> QED BY <1>2, <2>1, <2>2, <2>3 DEF RetryNext
<1>3. CASE UNCHANGED retryVars BY <1>3 DEF retryVars, FreshStep
<1> QED BY <1>2, <1>3 DEF UnspoiltNext

\* Until then, and while no last tile is lost, chunks tell the truth about their tiles, a
\* flush is let go on when everything is drawn, and Raster is implemented.
THEOREM UnspoiltIsDrawn ==
  UnspoiltSpec /\ []NoLastTileLost => [](ChunkTriangleIsTrue /\ FinishedMeansDrawn) /\ RasterSpec
<1>1. RetryInit => TruthInv /\ Raster!Init BY Init_Truth, Init_Raster DEF RetryInit
<1>2. ASSUME RetryInv, ~spoilt PROVE RInv BY <1>2 DEF RetryInv
<1>3. RetryInv /\ ~spoilt /\ TruthInv /\ NoLastTileLost /\ [UnspoiltNext]_retryVars => TruthInv'
  BY <1>2, Unspoilt_Fresh, Next_Truth
<1>4. RetryInv /\ ~spoilt /\ TruthInv /\ [UnspoiltNext]_retryVars => [Raster!Next]_(Raster!vars)
  BY <1>2, Unspoilt_Fresh, Next_Raster
<1>5. RetryInv /\ ~spoilt /\ TruthInv => ChunkTriangleIsTrue /\ FinishedMeansDrawn
  BY <1>2, Truth_Chunks, Truth_Finished
<1> QED BY <1>1, <1>3, <1>4, <1>5, UnspoiltIsRetried, PTL DEF UnspoiltSpec, RasterSpec, Raster!Spec

-----------------------------------------------------------------------------
(* Small frame buffers.                                                    *)

\* A frame buffer of at most as many tiles as an SPU has buffers for.
SmallLayouts == \A layout \in Layouts : layout[1] <= TilesPerChunk

\* Nothing is ever split: the first chunk stays the only one.
SInv ==
  /\ \A d \in Chunks : cache.chunkNext[d] < 64 => d = 0
  /\ \A p \in Spus : spu[p].freeChunk # 0

LEMMA SmallTiles == ASSUME SmallLayouts, RInv PROVE NumTiles <= TilesPerChunk
<1>1. PICK layout \in Layouts : Tiles = 0 .. (layout[1] - 1)
  BY DEF RInv, Types, LayoutInv
<1>2. layout[1] \in Nat \ {0} /\ layout[1] <= TilesPerChunk
  <2>1. layout \in (Nat \ {0}) \X (1 .. (CHUNKNEXT_BUSY_BIT - 1)) BY RenderChunksAssumption
  <2> QED BY <2>1 DEF SmallLayouts
<1>3. NumTiles \in Nat /\ NumTiles > 0 /\ Tiles = 0 .. (NumTiles - 1) BY RingFacts
<1>4. NumTiles - 1 \in 0 .. (layout[1] - 1)
  <2>1. NumTiles - 1 \in 0 .. (NumTiles - 1) BY <1>3
  <2> QED BY <1>1, <1>3, <2>1
<1> QED BY <1>2, <1>3, <1>4, RenderChunksAssumption

LEMMA SmallSplit ==
  ASSUME SmallLayouts, RInv, NEW p \in Spus, spu[p].pc = "split_putllc"
  PROVE  ~HasTail(spu[p]) /\ ~HasHead(spu[p]) /\ nextBlockStart(spu[p]) # spu[p].chunkEnd
<1>1. PICK N, s, T : N = NumTiles /\ s = spu[p] /\ T = TilesPerChunk OBVIOUS
<1>2. N <= T /\ N \in Nat /\ T \in Nat BY <1>1, SmallTiles, RingFacts, RenderChunksAssumption
<1>3. s \in Locals(Chunks, N, endTriangle) /\ KnowsChunk(N, cache, s)
  BY <1>1 DEF RInv, Types, SpuInv, SpuAt
<1>4. /\ s.chunkStart \in 0 .. (N - 1) /\ s.chunkEnd \in 0 .. (N - 1)
      /\ s.firstTile \in s.chunkStart .. s.chunkEnd
  BY <1>1, <1>3 DEF Locals, KnowsChunk, Splitting
<1>5. ~(s.firstTile + T < s.chunkEnd + 1) BY <1>2, <1>4
<1>6. nextBlockStart(s) = s.chunkEnd + 1 BY <1>1, <1>5 DEF nextBlockStart, Smaller
<1>8. thisBlockStart(s) = s.chunkStart
  <2>1. PICK b : b = nextBlockStart(s) OBVIOUS
  <2>2. b = s.chunkEnd + 1 BY <1>6, <2>1
  <2>4. ~(b - T > s.chunkStart) BY <1>2, <1>4, <2>2
  <2>3. T = TilesPerChunk BY <1>1
  <2> QED BY <2>1, <2>3, <2>4 DEF thisBlockStart, Larger
<1> QED BY <1>1, <1>4, <1>6, <1>8 DEF HasTail, HasHead

LEMMA SmallOwns ==
  ASSUME RInv, SInv, NEW p \in Spus, spu[p].pc # "idle" PROVE spu[p].chunkToProcess = 0
BY RingFacts, OwnTiles DEF RInv, Types, SpuInv, SpuAt, SInv

LEMMA Small_Fresh == ASSUME SmallLayouts, RInv, SInv PROVE NoStaleEntry /\ NoLastTileLost
<1>1. ASSUME NEW p \in Spus, StaleEntry(p) PROVE FALSE
  <2>1. PICK s : s = spu[p] OBVIOUS
  <2>2. /\ s.pc = "split_putllc" /\ p \in resv /\ s.claimed
        /\ \/ cache.chunkNext[s.freeChunk] \notin {255, 254}
           \/ \E q \in Spus \ {p} : HoldsEntry(spu[q], s.freeChunk)
           \/ HasTail(s)
    BY <1>1, <2>1 DEF StaleEntry, CHUNKNEXT_FREE_BLOCK, CHUNKNEXT_RESERVED
  <2>3. KnowsFree(cache, s, p \in resv) /\ s \in Locals(Chunks, NumTiles, endTriangle)
    BY <2>1 DEF RInv, Types, SpuInv, SpuAt
  <2>4. s.freeChunk \in Chunks /\ s.freeChunk # 0
    BY <2>1, <2>2, <2>3 DEF Locals, KnowsFree, SInv
  <2>5. cache.chunkNext[s.freeChunk] \in {255, 254}
    <3>1. ~(cache.chunkNext[s.freeChunk] < 64) BY <2>4 DEF SInv
    <3>2. cache.chunkNext[s.freeChunk] \in Links(Chunks) BY <2>4, RingFacts
    <3>3. \A c \in Chunks : c < 64 /\ c + 32 < 64
      <4>1. \A c \in Chunks : c \in Nat /\ c < 32 BY RingFacts, LinkFacts
      <4> QED BY <4>1
    <3> QED BY <3>1, <3>2, <3>3
      DEF Links, CHUNKNEXT_BUSY_BIT, CHUNKNEXT_FREE_BLOCK, CHUNKNEXT_RESERVED
  <2>6. ASSUME NEW q \in Spus \ {p}, HoldsEntry(spu[q], s.freeChunk) PROVE FALSE
    <3>1. spu[q].pc # "idle" /\ spu[p].pc # "idle" BY <2>1, <2>2, <2>6 DEF HoldsEntry
    <3>2. spu[q].chunkToProcess = spu[p].chunkToProcess BY <3>1, SmallOwns
    <3> QED BY <3>1, <3>2 DEF RInv, Apart
  <2>7. ~HasTail(s) BY <2>1, <2>2, SmallSplit
  <2> QED BY <2>2, <2>5, <2>6, <2>7
<1>2. ASSUME NEW p \in Spus, LastTileLost(p) PROVE FALSE
  BY <1>2, SmallSplit DEF LastTileLost
<1> QED BY <1>1, <1>2 DEF NoStaleEntry, NoLastTileLost

\* A step of p to the locals z that puts no other entry into the ring.
LEMMA StepSmall ==
  ASSUME RInv, SInv, NEW p \in Spus, NEW z, spu' = [spu EXCEPT ![p] = z], z.freeChunk # 0,
         Chunks' = Chunks, \A d \in Chunks : cache'.chunkNext[d] < 64 => d = 0
  PROVE  SInv'
<1>1. spu'[p] = z /\ \A q \in Spus \ {p} : spu'[q] = spu[q] BY DEF RInv, Types
<1> QED BY <1>1 DEF SInv

LEMMA LeavesSmall ==
  ASSUME RInv, SInv, NEW p \in Spus, NEW z, Leaves(p, z), z.freeChunk # 0 PROVE SInv'
<1>1. spu' = [spu EXCEPT ![p] = z] /\ cache' = cache BY DEF Leaves
<1>2. Chunks' = Chunks BY <1>1 DEF Chunks
<1>3. \A d \in Chunks : cache'.chunkNext[d] < 64 => d = 0 BY <1>1 DEF SInv
<1> QED BY <1>1, <1>2, <1>3, StepSmall

LEMMA WritesSmall ==
  ASSUME RInv, SInv, NEW p \in Spus, NEW z, Writes(p, z), z.freeChunk # 0,
         \A d \in Chunks : cache'.chunkNext[d] < 64 => d = 0
  PROVE  SInv'
<1>1. spu' = [spu EXCEPT ![p] = z] /\ GoodLine(Chunks, NumTiles, endTriangle, cache')
  BY DEF Writes
<1>2. Chunks' = Chunks BY <1>1, LineDomain DEF Chunks
<1> QED BY <1>1, <1>2, StepSmall

LEMMA Claim_Small == ASSUME SmallLayouts, RInv, SInv, NEW p \in Spus, Claim(p) PROVE SInv'
<1>1. PICK C, N, K, l, m : C = Chunks /\ N = NumTiles /\ K = endTriangle /\ l = cache /\ m = cache'
  OBVIOUS
<1>2. PICK c, e, z : Writes(p, z) /\ ClaimDone(C, N, K, l, m, c, e, z)
  BY <1>1, Claim_Step
<1>3. /\ c \in C /\ l.chunkNext[c] < 32
      /\ \A d \in C \ {c, e} : m.chunkNext[d] = l.chunkNext[d]
      /\ e # NoChunk => e \in C /\ m.chunkNext[e] = 254
      /\ c # e /\ z.freeChunk = e
  BY <1>2 DEF ClaimDone
<1>4. l.chunkNext[c] < 64
  <2>1. l.chunkNext[c] \in Nat BY <1>1, <1>3, RingFacts, LinkFacts
  <2> QED BY <1>3, <2>1
<1>5. c = 0 BY <1>1, <1>3, <1>4 DEF SInv
<1>6. \A d \in C : m.chunkNext[d] < 64 => d = 0
  <2> SUFFICES ASSUME NEW d \in C, m.chunkNext[d] < 64, d # 0 PROVE FALSE OBVIOUS
  <2>1. d # e
    <3>1. d # NoChunk BY <1>1, RingFacts, LinkFacts
    <3>2. ~(254 < 64) OBVIOUS
    <3> QED BY <1>3, <3>1, <3>2
  <2>2. m.chunkNext[d] = l.chunkNext[d] BY <1>3, <1>5, <2>1
  <2> QED BY <1>1, <2>2 DEF SInv
<1> QED BY <1>1, <1>2, <1>3, <1>5, <1>6, WritesSmall

LEMMA SplitStore_Small ==
  ASSUME SmallLayouts, RInv, SInv, NEW p \in Spus, SplitStore(p) PROVE SInv'
<1>1. PICK C, N, K, l, m, s, k :
        /\ C = Chunks /\ N = NumTiles /\ K = endTriangle /\ l = cache /\ m = cache'
        /\ s = spu[p] /\ k = Cleared(spu[p])
  OBVIOUS
<1>2. ~StaleEntry(p) BY Small_Fresh DEF NoStaleEntry
<1>3. PICK z, e : /\ Writes(p, z) /\ BlockTaken(s, z)
                  /\ SplitDone(C, N, K, k, s, e) /\ Merged(C, N, e, m)
  BY <1>1, <1>2, SplitStore_Step
<1>4. s.pc = "split_putllc" /\ p \in resv BY <1>1 DEF SplitStore
<1>5. ~HasTail(s) /\ ~HasHead(s) BY <1>1, <1>4, SmallSplit
<1>6. s.chunkToProcess = 0 BY <1>1, <1>4, SmallOwns
<1>7. \A d \in C : d = s.freeChunk \/ k.chunkNext[d] = l.chunkNext[d]
  BY <1>1, <1>2, <1>4, <1>5, ClearedLine
<1>8. \A d \in C : k.chunkNext[d] < 64 => d = 0 \/ d = s.freeChunk
  BY <1>1, <1>7 DEF SInv
<1>9. s.freeChunk \in C => ~(k.chunkNext[s.freeChunk] < 64)
  <2>1. Splits(C, N, K, k, s) BY <1>1, <1>2, <1>4, <1>5, ClearedLine
  <2>2. \A d \in C : d # NoChunk BY <1>1, RingFacts, LinkFacts
  <2>3. s.freeChunk \in C => k.chunkNext[s.freeChunk] = 255 BY <2>1, <2>2 DEF Splits
  <2>4. ~(255 < 64) OBVIOUS
  <2> QED BY <2>3, <2>4
<1>10. \A d \in C : m.chunkNext[d] < 64 => d = 0
  <2> SUFFICES ASSUME NEW d \in C, m.chunkNext[d] < 64, d # 0 PROVE FALSE OBVIOUS
  <2>1. e.chunkNext[d] < 64 BY <1>3 DEF Merged
  <2>2. BlockChunk(s) = 0 BY <1>5, <1>6 DEF BlockChunk, OwnHead
  <2>3. k.chunkNext[d] < 64 BY <1>3, <1>5, <1>6, <2>1, <2>2 DEF SplitDone, OwnHead
  <2> QED BY <1>8, <1>9, <2>3
<1>11. z.freeChunk # 0
  BY <1>3 DEF Writes, SpuAt, KnowsBlock, BlockTaken, Drawing, NoChunk
<1> QED BY <1>1, <1>3, <1>10, <1>11, WritesSmall

LEMMA Finish_Small == ASSUME RInv, SInv, NEW p \in Spus, Finish(p) PROVE SInv'
<1>1. Writes(p, Idle) /\ spu[p].pc = "finish" BY Finish_Step
<1>2. PICK k : /\ GivenBack(Chunks, NumTiles, cache, k, spu[p], spu[p].chunkTriangle)
               /\ Merged(Chunks, NumTiles, k, cache')
  BY Finish_Step
<1>3. spu[p].chunkToProcess = 0 BY <1>1, SmallOwns
<1>4. \A d \in Chunks : cache'.chunkNext[d] < 64 => d = 0
  <2> SUFFICES ASSUME NEW d \in Chunks, cache'.chunkNext[d] < 64, d # 0 PROVE FALSE OBVIOUS
  <2>1. k.chunkNext[d] < 64 BY <1>2 DEF Merged
  <2>2. k.chunkNext[d] # 255
    <3>1. ~(255 < 64) OBVIOUS
    <3> QED BY <2>1, <3>1
  <2>3. k.chunkNext[d] = cache.chunkNext[d] BY <1>2, <1>3, <2>2 DEF GivenBack
  <2> QED BY <2>1, <2>3 DEF SInv
<1>5. Idle.freeChunk # 0 BY DEF Idle, NoChunk
<1> QED BY <1>1, <1>4, <1>5, WritesSmall

LEMMA Next_Small == ASSUME SmallLayouts, RInv, SInv, [Next]_vars PROVE SInv'
<1>1. CASE UNCHANGED <<cache, spu>>
  <2>1. Chunks' = Chunks BY <1>1 DEF Chunks
  <2> QED BY <1>1, <2>1 DEF SInv
<1>2. ASSUME NEW p \in Spus, SpuNext(p) PROVE SInv'
  <2>0. PICK s : s = spu[p] OBVIOUS
  <2>a. s.freeChunk # 0 /\ s \in Locals(Chunks, NumTiles, endTriangle)
    BY <2>0 DEF SInv, RInv, Types
  <2>1. CASE Search(p)
    <3>1. PICK z : Leaves(p, z) /\ SearchDone(triangles, s, z) BY <2>0, <2>1, Search_Step
    <3>2. z.freeChunk = s.freeChunk BY <2>a, <3>1 DEF SearchDone, Locals
    <3> QED BY <2>a, <3>1, <3>2, LeavesSmall
  <2>2. CASE SplitLoad(p)
    <3>1. PICK z : /\ Leaves(p, z) /\ s.pc = "split_getllar"
                   /\ IF s.freeChunk = NoChunk THEN z.freeChunk = FirstChunk(FreeChunks(cache))
                      ELSE z.freeChunk = s.freeChunk
      BY <2>0, <2>2, SplitLoad_Step
    <3>2. FreeChunks(cache) \subseteq Nat
      <4>1. \A c \in Chunks : c \in Nat BY RingFacts, LinkFacts
      <4> QED BY <4>1 DEF FreeChunks
    <3>3. FirstChunk(FreeChunks(cache)) \in FreeChunks(cache) \cup {NoChunk}
      BY <3>2, SmallestIs DEF FirstChunk
    <3>4. 0 \notin FreeChunks(cache)
      <4>1. s.chunkToProcess = 0 BY <2>0, <3>1, SmallOwns
      <4>2. cache.chunkNext[0] < 64 BY <2>0, <3>1, <4>1, OwnLink
      <4>3. ~(255 < 64) OBVIOUS
      <4> QED BY <4>2, <4>3 DEF FreeChunks, CHUNKNEXT_FREE_BLOCK
    <3>5. z.freeChunk # 0 BY <2>a, <3>1, <3>3, <3>4 DEF NoChunk
    <3> QED BY <3>1, <3>5, LeavesSmall
  <2>3. CASE Render(p)
    <3>1. PICK z : Leaves(p, z) /\ z.pc \in Drawing
      BY <2>3, Render_Step DEF RenderDone
    <3>2. z.freeChunk # 0 BY <3>1 DEF Leaves, SpuAt, KnowsBlock, NoChunk
    <3> QED BY <3>1, <3>2, LeavesSmall
  <2>4. CASE Flush(p)
    <3>1. PICK z : Leaves(p, z) BY <2>4, Flush_Step
    <3>2. z.freeChunk = s.freeChunk
      <4>1. spu'[p] = z BY <3>1 DEF Leaves, RInv, Types
      <4>2. p \in DOMAIN spu BY DEF RInv, Types
      <4> QED BY <2>0, <2>4, <2>a, <4>1, <4>2 DEF Flush, Locals
    <3> QED BY <2>a, <3>1, <3>2, LeavesSmall
  <2>5. CASE SplitRetry(p)
    <3>1. PICK z : Leaves(p, z) /\ z.freeChunk = s.freeChunk BY <2>0, <2>5, SplitRetry_Step
    <3> QED BY <2>a, <3>1, LeavesSmall
  <2>6. ~Relinquish(p) BY SmallSplit DEF Relinquish
  <2> QED BY <1>2, <2>1, <2>2, <2>3, <2>4, <2>5, <2>6, Claim_Small, SplitStore_Small,
             Finish_Small DEF SpuNext
<1> QED BY <1>1, <1>2 DEF Next, Submit, Done, vars

LEMMA Init_Small == ASSUME Init PROVE SInv
<1>1. \A p \in Spus : spu[p] = Idle BY DEF Init
<1>2. PICK E : cache.chunkNext = [c \in E |-> IF c = 0 THEN 0 ELSE 255]
  BY DEF Init, CHUNKNEXT_FREE_BLOCK
<1>3. ~(255 < 64) OBVIOUS
<1> QED BY <1>1, <1>2, <1>3 DEF SInv, Idle, Chunks, NoChunk

\* A frame buffer of at most sixteen tiles (NUMBER_OF_TILES_PER_CHUNK) is never
\* split, and neither fault of the splitting code can happen to it.
THEOREM SmallLayoutsNeverFail ==
  ASSUME SmallLayouts PROVE Spec => [](NoStaleEntry /\ NoLastTileLost)
<1>1. Init => RInv /\ SInv BY Init_RInv, Init_Small
<1>2. RInv /\ SInv => NoStaleEntry /\ NoLastTileLost BY Small_Fresh
<1>3. RInv /\ SInv /\ [Next]_vars => (RInv /\ SInv)'
  BY <1>2, Next_RInv, Next_Small
<1> QED BY <1>1, <1>2, <1>3, PTL DEF Spec

\* Everything this module and RenderChunksProofs show holds of such a frame buffer
\* without a condition, for any number of SPUs and triangles.
THEOREM SmallLayoutsAreDrawn ==
  ASSUME SmallLayouts
  PROVE  Spec => /\ [](TypeOK /\ ChunksPartitionTiles /\ TilesAreExclusive)
                 /\ [](ChunkTriangleIsTrue /\ FinishedMeansDrawn)
                 /\ RasterSpec
<1> QED BY SmallLayoutsNeverFail, TypesHold, PartitionHolds, ExclusionHolds,
           ChunkTruthHolds, FinishHolds, RasterIsImplemented, PTL

-----------------------------------------------------------------------------
(* One SPU.                                                                *)

\* The server was started with one SPU thread.
OneSpu == \A p, q \in Spus : p = q

\* From its claim to its split, and a chunk too long for one block.
Preparing(s) == s.pc \in Splitting \cup {"search"}
Long(s) == 1 + s.chunkEnd - s.chunkStart > TilesPerChunk

\* What one SPU alone knows of the entry it has chosen, for the links n.
Chosen(C, n, s) ==
  Preparing(s) =>
    /\ s.freeChunk # NoChunk => n[s.freeChunk] \in {255, 254}
    /\ Long(s) /\ s.freeChunk = NoChunk => \A d \in C : n[d] # 255
    /\ Long(s) /\ s.freeChunk # NoChunk => n[s.freeChunk] = 254

BInv == \A p \in Spus : Chosen(Chunks, cache.chunkNext, spu[p])

LEMMA Alone_Fresh == ASSUME OneSpu, RInv, BInv PROVE NoStaleEntry
<1> SUFFICES ASSUME NEW p \in Spus, StaleEntry(p) PROVE FALSE
  BY DEF NoStaleEntry
<1>1. PICK s : s = spu[p] OBVIOUS
<1>2. /\ s.pc = "split_putllc" /\ p \in resv /\ s.claimed
      /\ \/ cache.chunkNext[s.freeChunk] \notin {255, 254}
         \/ \E q \in Spus \ {p} : HoldsEntry(spu[q], s.freeChunk)
         \/ HasTail(s) /\ HasHead(s) /\ s.freeChunk2 = s.freeChunk
  BY <1>1 DEF StaleEntry, CHUNKNEXT_FREE_BLOCK, CHUNKNEXT_RESERVED
<1>3. /\ KnowsFree(cache, s, p \in resv) /\ s \in Locals(Chunks, NumTiles, endTriangle)
      /\ KnowsChunk(NumTiles, cache, s)
  BY <1>1 DEF RInv, Types, SpuInv, SpuAt
<1>4. /\ s.freeChunk # NoChunk
      /\ s.freeChunk2 # NoChunk => cache.chunkNext[s.freeChunk2] = 255
  BY <1>2, <1>3 DEF KnowsFree, CHUNKNEXT_FREE_BLOCK
<1>5. Preparing(s) BY <1>2 DEF Preparing, Splitting
<1>6. cache.chunkNext[s.freeChunk] \in {255, 254} BY <1>1, <1>4, <1>5 DEF BInv, Chosen
<1>7. ~\E q \in Spus \ {p} : HoldsEntry(spu[q], s.freeChunk) BY DEF OneSpu
<1>8. HasTail(s) => Long(s)
  <2> SUFFICES ASSUME nextBlockStart(s) < s.chunkEnd PROVE 1 + s.chunkEnd - s.chunkStart > TilesPerChunk
    BY DEF HasTail, Long
  <2>1. /\ s.chunkStart \in Nat /\ s.chunkEnd \in Nat /\ NumTiles \in Nat
        /\ s.firstTile \in s.chunkStart .. s.chunkEnd /\ TilesPerChunk \in Nat
    BY <1>2, <1>3, RingFacts, RenderChunksAssumption DEF Locals, KnowsChunk, Splitting
  <2>2. nextBlockStart(s) = s.firstTile + TilesPerChunk
    BY <2>1 DEF nextBlockStart, Smaller
  <2> QED BY <2>1, <2>2
<1>9. Long(s) => cache.chunkNext[s.freeChunk] = 254 BY <1>1, <1>4, <1>5 DEF BInv, Chosen
<1> QED BY <1>2, <1>4, <1>6, <1>7, <1>8, <1>9

\* The step of the one SPU decides.
LEMMA StepAlone ==
  ASSUME OneSpu, RInv, NEW p \in Spus, NEW z, spu' = [spu EXCEPT ![p] = z],
         NEW n, n = cache'.chunkNext, Chunks' = Chunks, Chosen(Chunks, n, z)
  PROVE  BInv'
<1>1. spu'[p] = z BY DEF RInv, Types
<1>2. \A q \in Spus : q = p BY DEF OneSpu
<1> QED BY <1>1, <1>2 DEF BInv

LEMMA LeavesAlone ==
  ASSUME OneSpu, RInv, NEW p \in Spus, NEW z, Leaves(p, z), Chosen(Chunks, cache.chunkNext, z)
  PROVE  BInv'
<1>1. PICK n : n = cache.chunkNext OBVIOUS
<1>2. spu' = [spu EXCEPT ![p] = z] /\ cache' = cache BY DEF Leaves
<1>3. Chunks' = Chunks BY <1>2 DEF Chunks
<1>4. n = cache'.chunkNext BY <1>1, <1>2
<1> QED BY <1>1, <1>2, <1>3, <1>4, StepAlone

LEMMA WritesAlone ==
  ASSUME OneSpu, RInv, NEW p \in Spus, NEW z, Writes(p, z),
         NEW n, n = cache'.chunkNext, Chosen(Chunks, n, z)
  PROVE  BInv'
<1>1. spu' = [spu EXCEPT ![p] = z] /\ GoodLine(Chunks, NumTiles, endTriangle, cache')
  BY DEF Writes
<1>2. Chunks' = Chunks BY <1>1, LineDomain DEF Chunks
<1> QED BY <1>1, <1>2, StepAlone

LEMMA Claim_Alone == ASSUME OneSpu, RInv, NEW p \in Spus, Claim(p) PROVE BInv'
<1>1. PICK C, N, K, l, m, n : /\ C = Chunks /\ N = NumTiles /\ K = endTriangle
                              /\ l = cache /\ m = cache' /\ n = m.chunkNext
  OBVIOUS
<1>2. PICK c, e, z : Writes(p, z) /\ ClaimDone(C, N, K, l, m, c, e, z)
  BY <1>1, Claim_Step
<1>3. /\ c \in C /\ m.chunkNext[c] = l.chunkNext[c] + 32 /\ l.chunkNext[c] < 32
      /\ \A d \in C \ {c, e} : m.chunkNext[d] = l.chunkNext[d]
      /\ e # NoChunk => e \in C /\ l.chunkNext[e] = 255 /\ m.chunkNext[e] = 254
      /\ z.pc = "search" /\ z.freeChunk = e
      /\ e = IF 1 + z.chunkEnd - z.chunkStart <= TilesPerChunk THEN NoChunk
             ELSE FirstChunk({d \in C : l.chunkNext[d] = 255})
  BY <1>2 DEF ClaimDone
<1>4. \A d \in C : d # NoChunk /\ d \in Nat BY <1>1, RingFacts, LinkFacts
<1>5. /\ z.chunkStart \in Nat /\ z.chunkEnd \in Nat /\ TilesPerChunk \in Nat
  <2>1. z.chunkStart \in 0 .. (N - 1) /\ z.chunkEnd \in 0 .. (N - 1)
    BY <1>1, <1>2 DEF Writes, Locals
  <2> QED BY <1>1, <2>1, RingFacts, RenderChunksAssumption
<1>6. ASSUME Long(z), e = NoChunk, NEW d \in C, n[d] = 255 PROVE FALSE
  <2>1. NoChunk = FirstChunk({f \in C : l.chunkNext[f] = 255})
    <3>1. ~(1 + z.chunkEnd - z.chunkStart <= TilesPerChunk) BY <1>5, <1>6 DEF Long
    <3> QED BY <1>3, <1>6, <3>1
  <2>2. {f \in C : l.chunkNext[f] = 255} = {}
    <3>1. PICK F : F = {f \in C : l.chunkNext[f] = 255} OBVIOUS
    <3>2. F \subseteq Nat BY <1>4, <3>1
    <3>3. F # {} => FirstChunk(F) \in F BY <3>2, SmallestIs DEF FirstChunk
    <3> QED BY <1>4, <2>1, <3>1, <3>3
  <2>3. d # c
    <3>1. l.chunkNext[c] \in Nat BY <1>1, <1>3, RingFacts, LinkFacts
    <3> QED BY <1>1, <1>3, <1>6, <3>1
  <2>4. m.chunkNext[d] = l.chunkNext[d] BY <1>3, <1>4, <1>6, <2>3
  <2> QED BY <1>1, <1>6, <2>2, <2>4
<1>7. Chosen(C, n, z) BY <1>1, <1>3, <1>6 DEF Chosen
<1> QED BY <1>1, <1>2, <1>7, WritesAlone

\* Drawing, finished or idle: there is nothing to know.
LEMMA Alone_Rest ==
  ASSUME OneSpu, RInv, NEW p \in Spus, NEW z, Writes(p, z) \/ Leaves(p, z), ~Preparing(z)
  PROVE  BInv'
<1>1. PICK n : n = cache'.chunkNext OBVIOUS
<1>2. Chosen(Chunks, n, z) BY DEF Chosen
<1>3. CASE Writes(p, z) BY <1>1, <1>2, <1>3, WritesAlone
<1>4. CASE Leaves(p, z)
  <2>1. Chosen(Chunks, cache.chunkNext, z) BY DEF Chosen
  <2> QED BY <1>4, <2>1, LeavesAlone
<1> QED BY <1>3, <1>4

LEMMA Next_Alone == ASSUME OneSpu, RInv, BInv, [Next]_vars PROVE BInv'
<1>1. CASE UNCHANGED <<cache, spu>>
  <2>1. Chunks' = Chunks BY <1>1 DEF Chunks
  <2> QED BY <1>1, <2>1 DEF BInv, Chosen
<1>2. ASSUME NEW p \in Spus, SpuNext(p) PROVE BInv'
  <2>0. PICK s, n : s = spu[p] /\ n = cache.chunkNext OBVIOUS
  <2>a. s \in Locals(Chunks, NumTiles, endTriangle) /\ Chosen(Chunks, n, s)
    BY <2>0 DEF BInv, RInv, Types
  <2>1. CASE Search(p)
    <3>1. PICK z : Leaves(p, z) /\ SearchDone(triangles, s, z) /\ s.pc = "search"
      BY <2>0, <2>1, Search_Step
    <3>2. z.freeChunk = s.freeChunk /\ z.chunkStart = s.chunkStart /\ z.chunkEnd = s.chunkEnd
      BY <2>a, <3>1 DEF SearchDone, Locals
    <3>3. Chosen(Chunks, n, z) BY <2>a, <3>1, <3>2 DEF Chosen, Preparing, Long
    <3> QED BY <2>0, <3>1, <3>3, LeavesAlone
  <2>2. CASE SplitLoad(p)
    <3>1. PICK z : /\ Leaves(p, z) /\ Reloaded(s, z)
                   /\ IF s.freeChunk = NoChunk THEN z.freeChunk = FirstChunk(FreeChunks(cache))
                      ELSE z.freeChunk = s.freeChunk
      BY <2>0, <2>2, SplitLoad_Step
    <3>2. PICK F : F = FreeChunks(cache) OBVIOUS
    <3>3. F = {d \in Chunks : n[d] = 255}
      BY <2>0, <3>2 DEF FreeChunks, CHUNKNEXT_FREE_BLOCK
    <3>4. F \subseteq Nat
      <4>1. \A c \in Chunks : c \in Nat BY RingFacts, LinkFacts
      <4> QED BY <3>3, <4>1
    <3>5. FirstChunk(F) \in F \/ (F = {} /\ FirstChunk(F) = NoChunk)
      BY <3>4, SmallestIs DEF FirstChunk
    <3>6. Preparing(s) /\ (Long(z) <=> Long(s)) BY <3>1 DEF Reloaded, Preparing, Long
    <3>7. CASE s.freeChunk # NoChunk
      <4>1. Chosen(Chunks, n, z) BY <2>a, <3>1, <3>6, <3>7 DEF Chosen
      <4> QED BY <2>0, <3>1, <4>1, LeavesAlone
    <3>8. CASE s.freeChunk = NoChunk
      <4>1. z.freeChunk \in F \/ (F = {} /\ z.freeChunk = NoChunk)
        BY <3>1, <3>2, <3>5, <3>8
      <4>2. Long(s) => F = {} BY <2>a, <3>3, <3>6, <3>8 DEF Chosen
      <4>3. F = {} => \A d \in Chunks : n[d] # 255 BY <3>3
      <4>4. z.freeChunk \in F => n[z.freeChunk] = 255 BY <3>3
      <4>5. Chosen(Chunks, n, z) BY <3>6, <4>1, <4>2, <4>3, <4>4 DEF Chosen
      <4> QED BY <2>0, <3>1, <4>5, LeavesAlone
    <3> QED BY <3>7, <3>8
  <2>3. CASE SplitRetry(p)
    <3>1. PICK z : Leaves(p, z) /\ Reloaded(s, z) /\ z.freeChunk = s.freeChunk
      BY <2>0, <2>3, SplitRetry_Step
    <3>2. Preparing(s) /\ (Long(z) <=> Long(s)) BY <3>1 DEF Reloaded, Preparing, Long
    <3>3. Chosen(Chunks, n, z) BY <2>a, <3>1, <3>2 DEF Chosen
    <3> QED BY <2>0, <3>1, <3>3, LeavesAlone
  <2>4. CASE SplitStore(p)
    <3>1. ~StaleEntry(p) BY Alone_Fresh DEF NoStaleEntry
    <3>2. PICK z : Writes(p, z) /\ z.pc = "render" BY <2>4, <3>1, SplitStore_Step DEF BlockTaken
    <3> QED BY <3>2, Alone_Rest DEF Preparing, Splitting
  <2>5. CASE Relinquish(p) \/ Finish(p)
    <3>1. Writes(p, Idle) BY <2>5, Relinquish_Step, Finish_Step
    <3>2. ~Preparing(Idle) BY DEF Preparing, Splitting, Idle
    <3> QED BY <3>1, <3>2, Alone_Rest
  <2>6. CASE Render(p)
    <3>1. PICK z : Leaves(p, z) /\ z.pc \in Drawing
      BY <2>6, Render_Step DEF RenderDone
    <3> QED BY <3>1, Alone_Rest DEF Preparing, Splitting, Drawing
  <2>7. CASE Flush(p)
    <3>1. PICK z : Leaves(p, z) /\ z.pc = "finish" BY <2>7, Flush_Step
    <3> QED BY <3>1, Alone_Rest DEF Preparing, Splitting
  <2> QED BY <1>2, <2>1, <2>2, <2>3, <2>4, <2>5, <2>6, <2>7, Claim_Alone DEF SpuNext
<1> QED BY <1>1, <1>2 DEF Next, Submit, Done, vars

LEMMA Init_Alone == ASSUME Init PROVE BInv
<1>1. \A p \in Spus : spu[p] = Idle BY DEF Init
<1> QED BY <1>1 DEF BInv, Chosen, Preparing, Splitting, Idle

\* One SPU alone never meets a stale entry, although the primary SPU kills its
\* reservations with every triangle: what makes an entry stale is another SPU.
THEOREM OneSpuIsNeverStale == ASSUME OneSpu PROVE Spec => []NoStaleEntry
<1>1. Init => RInv /\ BInv BY Init_RInv, Init_Alone
<1>2. RInv /\ BInv => NoStaleEntry BY Alone_Fresh
<1>3. RInv /\ BInv /\ [Next]_vars => (RInv /\ BInv)'
  BY <1>2, Next_RInv, Next_Alone
<1> QED BY <1>1, <1>2, <1>3, PTL DEF Spec
=============================================================================
