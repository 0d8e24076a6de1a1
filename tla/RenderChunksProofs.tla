------------------------- MODULE RenderChunksProofs -------------------------
(***************************************************************************)
(* For any number of SPUs, tiles, entries and triangles: the chunks of the *)
(* cache line form a ring that partitions the tiles, and no two SPUs work on *)
(* one tile, however claims, splits, merges and lost reservations interleave. *)
(*                                                                         *)
(* The proof is about lines in general first: what inserting a chunk into a *)
(* ring and removing one from it does (CycleInsert, CycleRemove), and hence *)
(* what splitting a chunk and merging two do (LineInsert, LineMerge); the  *)
(* merging of as many as there are is an induction (MergeKeeps).  RInv says *)
(* what an SPU may rely on at each step, in terms that are of the line and of *)
(* one SPU, or of two SPUs; a step is then either one that writes the line and *)
(* spares what the others know of it (Writes), or one that leaves it (Leaves). *)
(*                                                                         *)
(* The code does not keep RInv in every behaviour: a split that lost its   *)
(* reservation goes on with an entry that is not reserved for it any more. *)
(* NoStaleEntry names the state in which that entry has become somebody    *)
(* else's; the theorems are about the behaviours without it, and           *)
(* RenderTruthProofs shows where it can come from.                         *)
(***************************************************************************)
EXTENDS RenderChunks, FiniteSetTheorems, WellFoundedInduction, TLAPS

-----------------------------------------------------------------------------
(* Rings of chunks, and the lines that hold them.                          *)

Links(C) == C \cup {c + CHUNKNEXT_BUSY_BIT : c \in C}
              \cup {CHUNKNEXT_FREE_BLOCK, CHUNKNEXT_RESERVED}

\* The entries of a line that are in its ring.
Ring(C, nx) == {c \in C : nx[c] < 2 * CHUNKNEXT_BUSY_BIT}

\* n starts where the chunk that starts at a ends: it is the next start, or 0
\* behind the last one.
Follows(R, st, a, n) ==
  /\ n \in R
  /\ st[n] = 0 \/ a < st[n]
  /\ \A d \in R : a < st[d] => st[n] # 0 /\ st[n] <= st[d]

\* The entries of a line are numbered from 0.
Entries(C) == \E E \in 1 .. 31 : C = 0 .. (E - 1)

LEMMA LinkFacts ==
  ASSUME NEW C, Entries(C)
  PROVE  /\ \A c \in C : /\ c < 32 /\ c + 32 >= 32 /\ c + 32 < 64 /\ c \in Nat /\ c # NoChunk
                         /\ NextOf(c) = c /\ NextOf(c + 32) = c
         /\ \A x \in Links(C) : x < 64 => /\ NextOf(x) \in C
                                          /\ x = NextOf(x) \/ x = NextOf(x) + 32
         /\ \A x \in Links(C) : x < 32 => x \in C /\ NextOf(x) = x
         /\ \A x \in Links(C) : x \in Nat
<1>1. \A c \in C : c \in 0 .. 30 BY DEF Entries
<1>2. \A c \in 0 .. 30 : NextOf(c) = c /\ NextOf(c + 32) = c BY DEF NextOf, CHUNKNEXT_BUSY_BIT
<1>3. \A x \in Links(C) : x \in C \/ (\E c \in C : x = c + 32) \/ x = 255 \/ x = 254
  BY DEF Links, CHUNKNEXT_BUSY_BIT, CHUNKNEXT_FREE_BLOCK, CHUNKNEXT_RESERVED
<1>4. \A c \in C : /\ c < 32 /\ c + 32 >= 32 /\ c + 32 < 64 /\ c \in Nat /\ c # NoChunk
                    /\ NextOf(c) = c /\ NextOf(c + 32) = c
  <2> SUFFICES ASSUME NEW c \in C
               PROVE  /\ c < 32 /\ c + 32 >= 32 /\ c + 32 < 64 /\ c \in Nat /\ c # NoChunk
                      /\ NextOf(c) = c /\ NextOf(c + 32) = c
    OBVIOUS
  <2>1. c \in 0 .. 30 BY <1>1
  <2>2. NextOf(c) = c /\ NextOf(c + 32) = c BY <1>2, <2>1
  <2>3. c < 32 /\ c + 32 >= 32 /\ c + 32 < 64 /\ c \in Nat /\ c # NoChunk
    BY <2>1 DEF NoChunk
  <2> QED BY <2>2, <2>3
<1>5. \A x \in Links(C) : x < 64 => /\ NextOf(x) \in C
                                    /\ x = NextOf(x) \/ x = NextOf(x) + 32
  <2> SUFFICES ASSUME NEW x \in Links(C), x < 64
               PROVE  NextOf(x) \in C /\ (x = NextOf(x) \/ x = NextOf(x) + 32)
    OBVIOUS
  <2>1. CASE x \in C BY <1>4, <2>1
  <2>2. CASE \E c \in C : x = c + 32 BY <1>4, <2>2
  <2> QED BY <1>3, <2>1, <2>2
<1>6. \A x \in Links(C) : x < 32 => x \in C /\ NextOf(x) = x
  <2> SUFFICES ASSUME NEW x \in Links(C), x < 32 PROVE x \in C
    BY <1>4
  <2>1. ~\E c \in C : x = c + 32 BY <1>1
  <2> QED BY <1>3, <2>1
<1>7. \A x \in Links(C) : x \in Nat BY <1>1, <1>3
<1> QED BY <1>4, <1>5, <1>6, <1>7

\* The lines are abstract from here on: R are the entries of the ring, nxt their
\* successors.
IsCycle(R, N, st, nxt) ==
  /\ \A c \in R : st[c] \in 0 .. (N - 1)
  /\ \A c, d \in R : st[c] = st[d] => c = d
  /\ \E c \in R : st[c] = 0
  /\ \A c \in R : Follows(R, st, st[c], nxt[c])

Successors(C, nx) == [c \in C |-> NextOf(nx[c])]

IsRing(C, N, st, nx) == IsCycle(Ring(C, nx), N, st, Successors(C, nx))

LEMMA CycleInsert ==
  ASSUME NEW R, NEW N \in Nat, NEW st, NEW nxt, IsCycle(R, N, st, nxt),
         NEW c \in R, NEW f, f \notin R, NEW v \in 0 .. (N - 1),
         st[c] < v, st[nxt[c]] = 0 \/ v < st[nxt[c]],
         NEW su, NEW nyt,
         \A d \in R : su[d] = st[d], su[f] = v,
         \A d \in R \ {c} : nyt[d] = nxt[d], nyt[f] = nxt[c], nyt[c] = f
  PROVE  IsCycle(R \cup {f}, N, su, nyt)
<1>0. /\ \A d \in R : st[d] \in 0 .. (N - 1) /\ st[d] \in Nat
      /\ \A d \in R : Follows(R, st, st[d], nxt[d])
      /\ \A d \in R : nxt[d] \in R /\ st[nxt[d]] \in Nat
  BY DEF IsCycle, Follows
<1>1. \A d \in R \cup {f} : su[d] \in 0 .. (N - 1) BY <1>0
<1>2. \A d \in R : st[d] # v
  <2> SUFFICES ASSUME NEW d \in R, st[d] = v PROVE FALSE
    OBVIOUS
  <2>1. st[nxt[c]] # 0 /\ st[nxt[c]] <= st[d] BY <1>0 DEF Follows
  <2> QED BY <1>0, <2>1
<1>3. \A d, e \in R \cup {f} : su[d] = su[e] => d = e BY <1>2 DEF IsCycle
<1>4. \E d \in R \cup {f} : su[d] = 0 BY DEF IsCycle
<1>5. ASSUME NEW d \in R \cup {f} PROVE Follows(R \cup {f}, su, su[d], nyt[d])
  <2>1. CASE d = f
    <3>1. \A e \in R : v < st[e] => st[nxt[c]] # 0 /\ st[nxt[c]] <= st[e]
      BY <1>0 DEF Follows
    <3> QED BY <1>0, <2>1, <3>1 DEF Follows
  <2>2. CASE d = c
    <3>1. \A e \in R : st[c] < st[e] => v <= st[e]
      <4> SUFFICES ASSUME NEW e \in R, st[c] < st[e] PROVE v <= st[e]
        OBVIOUS
      <4>1. st[nxt[c]] # 0 /\ st[nxt[c]] <= st[e] BY <1>0 DEF Follows
      <4> QED BY <1>0, <4>1
    <3> QED BY <1>0, <2>2, <3>1 DEF Follows
  <2>3. CASE d \in R \ {c}
    <3>1. Follows(R, st, st[d], nxt[d]) /\ nyt[d] = nxt[d] /\ su[d] = st[d] BY <1>0, <2>3
    <3>2. st[d] < v => st[nxt[d]] # 0 /\ st[nxt[d]] <= v
      <4> SUFFICES ASSUME st[d] < v PROVE st[nxt[d]] # 0 /\ st[nxt[d]] <= v
        OBVIOUS
      <4>1. st[d] # st[c] BY <2>3 DEF IsCycle
      <4>2. CASE st[d] < st[c]
        <5>1. st[nxt[d]] # 0 /\ st[nxt[d]] <= st[c] BY <3>1, <4>2 DEF Follows
        <5> QED BY <1>0, <2>3, <5>1
      <4>3. CASE st[c] < st[d]
        <5>1. st[nxt[c]] # 0 /\ st[nxt[c]] <= st[d] BY <1>0, <2>3, <4>3 DEF Follows
        <5> QED BY <1>0, <2>3, <5>1
      <4> QED BY <1>0, <2>3, <4>1, <4>2, <4>3
    <3>3. nxt[d] \in R BY <1>0, <2>3
    <3> QED BY <1>0, <2>3, <3>1, <3>2, <3>3 DEF Follows
  <2> QED BY <2>1, <2>2, <2>3
<1> QED BY <1>1, <1>3, <1>4, <1>5 DEF IsCycle

LEMMA CycleRemove ==
  ASSUME NEW R, NEW N \in Nat, NEW st, NEW nxt, IsCycle(R, N, st, nxt),
         NEW c \in R, NEW n, n = nxt[c], st[n] # 0,
         NEW su, NEW nyt,
         \A d \in R \ {n} : su[d] = st[d],
         \A d \in R \ {c, n} : nyt[d] = nxt[d], nyt[c] = nxt[n]
  PROVE  IsCycle(R \ {n}, N, su, nyt) /\ c # n
<1>0. /\ \A d \in R : st[d] \in 0 .. (N - 1) /\ st[d] \in Nat
      /\ \A d \in R : Follows(R, st, st[d], nxt[d])
      /\ \A d \in R : nxt[d] \in R /\ st[nxt[d]] \in Nat
      /\ \A d, e \in R : st[d] = st[e] => d = e
  BY DEF IsCycle, Follows
<1>1. st[c] < st[n] /\ n \in R /\ c # n BY <1>0 DEF Follows
<1>2. \A d \in R \ {c} : nxt[d] # n
  <2> SUFFICES ASSUME NEW d \in R \ {c}, nxt[d] = n PROVE FALSE
    OBVIOUS
  <2>1. st[d] < st[n] /\ st[d] # st[c] BY <1>0 DEF Follows
  <2>2. CASE st[d] < st[c]
    <3>1. st[n] <= st[c] BY <1>0, <2>2 DEF Follows
    <3> QED BY <1>0, <1>1, <3>1
  <2>3. CASE st[c] < st[d]
    <3>1. st[n] <= st[d] BY <1>0, <2>3 DEF Follows
    <3> QED BY <1>0, <1>1, <2>1, <3>1
  <2> QED BY <1>0, <2>1, <2>2, <2>3
<1>3. \E d \in R \ {n} : su[d] = 0 BY DEF IsCycle
<1>4. ASSUME NEW d \in R \ {n} PROVE Follows(R \ {n}, su, su[d], nyt[d])
  <2>1. CASE d # c
    <3>1. Follows(R, st, st[d], nxt[d]) /\ nxt[d] \in R \ {n} /\ nyt[d] = nxt[d] /\ su[d] = st[d]
      BY <1>0, <1>2, <2>1
    <3> QED BY <3>1 DEF Follows
  <2>2. CASE d = c
    <3>1. nxt[n] \in R /\ nxt[n] # n
      <4>1. Follows(R, st, st[n], nxt[n]) BY <1>0, <1>1
      <4> QED BY <1>0, <1>1, <4>1 DEF Follows
    <3>2. st[nxt[n]] = 0 \/ st[c] < st[nxt[n]]
      <4>1. st[nxt[n]] = 0 \/ st[n] < st[nxt[n]] BY <1>0, <1>1 DEF Follows
      <4> QED BY <1>0, <1>1, <3>1, <4>1
    <3>3. \A e \in R \ {n} : st[c] < st[e] => st[nxt[n]] # 0 /\ st[nxt[n]] <= st[e]
      <4> SUFFICES ASSUME NEW e \in R \ {n}, st[c] < st[e]
                   PROVE  st[nxt[n]] # 0 /\ st[nxt[n]] <= st[e]
        OBVIOUS
      <4>1. st[n] <= st[e] /\ st[n] # st[e] BY <1>0, <1>1 DEF Follows
      <4>2. st[n] < st[e] BY <1>0, <1>1, <4>1
      <4> QED BY <1>0, <1>1, <4>2 DEF Follows
    <3> QED BY <1>0, <1>1, <2>2, <3>1, <3>2, <3>3 DEF Follows
  <2> QED BY <2>1, <2>2
<1>5. \A d \in R \ {n} : su[d] \in 0 .. (N - 1) BY <1>0
<1>6. \A d, e \in R \ {n} : su[d] = su[e] => d = e BY <1>0
<1> QED BY <1>1, <1>3, <1>4, <1>5, <1>6 DEF IsCycle

-----------------------------------------------------------------------------
(* What is done to a line.                                                  *)

LEMMA LeastOf ==
  ASSUME NEW T, T \subseteq Nat, T # {}
  PROVE  \E x \in T : \A y \in T : x <= y
<1>1. PICK R : R = OpToRel(<, Nat) OBVIOUS
<1>2. IsWellFoundedOn(R, Nat) BY <1>1, NatLessThanWellFounded
<1>3. \E x \in T : \A y \in T : ~(<<y, x>> \in R) BY <1>2, WFMin
<1>4. \A x, y \in Nat : <<y, x>> \notin R => x <= y
  BY <1>1 DEF OpToRel
<1> QED BY <1>3, <1>4

\* Where a chunk ends.
EndOf(N, st, n) == (st[n] - 1) % N

LEMMA EndOfIs ==
  ASSUME NEW N \in Nat, NEW st, NEW n, st[n] \in 0 .. (N - 1)
  PROVE  /\ EndOf(N, st, n) \in 0 .. (N - 1)
         /\ st[n] = 0 => EndOf(N, st, n) = N - 1
         /\ st[n] # 0 => EndOf(N, st, n) = st[n] - 1
  BY DEF EndOf

\* Every tile is in one chunk of a ring.
LEMMA CyclePartitions ==
  ASSUME NEW R, NEW N \in Nat, NEW st, NEW nxt, IsCycle(R, N, st, nxt),
         NEW t \in 0 .. (N - 1)
  PROVE  /\ \E c \in R : st[c] <= t /\ t <= EndOf(N, st, nxt[c])
         /\ \A c, d \in R : /\ st[c] <= t /\ t <= EndOf(N, st, nxt[c])
                            /\ st[d] <= t /\ t <= EndOf(N, st, nxt[d])
                            => c = d
<1>0. /\ \A d \in R : st[d] \in 0 .. (N - 1) /\ st[d] \in Nat
      /\ \A d \in R : Follows(R, st, st[d], nxt[d])
      /\ \A d \in R : nxt[d] \in R /\ st[nxt[d]] \in Nat /\ st[nxt[d]] \in 0 .. (N - 1)
      /\ \A d, e \in R : st[d] = st[e] => d = e
  BY DEF IsCycle, Follows
<1>e. \A d \in R : /\ EndOf(N, st, nxt[d]) \in 0 .. (N - 1)
                   /\ st[nxt[d]] = 0 => EndOf(N, st, nxt[d]) = N - 1
                   /\ st[nxt[d]] # 0 => EndOf(N, st, nxt[d]) = st[nxt[d]] - 1
  BY <1>0, EndOfIs
<1>1. \E c \in R : st[c] <= t /\ t <= EndOf(N, st, nxt[c])
  <2> DEFINE Before == {d \in R : st[d] <= t}
             Gaps   == {t - st[d] : d \in Before}
  <2>1. Gaps \subseteq Nat BY <1>0
  <2>2. Gaps # {}
    <3>1. PICK d \in R : st[d] = 0 BY DEF IsCycle
    <3>2. d \in Before BY <3>1
    <3> QED BY <3>2
  <2>3. PICK g \in Gaps : \A h \in Gaps : g <= h BY <2>1, <2>2, LeastOf
  <2>4. PICK c \in Before : g = t - st[c] OBVIOUS
  <2>5. \A d \in Before : st[d] <= st[c]
    <3> SUFFICES ASSUME NEW d \in Before PROVE st[d] <= st[c]
      OBVIOUS
    <3>1. t - st[c] <= t - st[d] BY <2>3, <2>4
    <3> QED BY <1>0, <3>1
  <2>6. c \in R /\ st[c] <= t OBVIOUS
  <2> HIDE DEF Before, Gaps
  <2>7. t <= EndOf(N, st, nxt[c])
    <3>1. CASE st[nxt[c]] = 0 BY <1>e, <2>6, <3>1
    <3>2. CASE st[nxt[c]] # 0
      <4>1. st[c] < st[nxt[c]] BY <1>0, <2>6, <3>2 DEF Follows
      <4>2. ~(st[nxt[c]] <= t) BY <1>0, <2>5, <2>6, <4>1 DEF Before
      <4> QED BY <1>0, <1>e, <2>6, <3>2, <4>2
    <3> QED BY <3>1, <3>2
  <2> QED BY <2>6, <2>7
<1>2. ASSUME NEW c \in R, NEW d \in R, st[c] <= t, t <= EndOf(N, st, nxt[c]),
             st[d] <= t, t <= EndOf(N, st, nxt[d]), st[c] < st[d]
      PROVE  FALSE
  <2>1. st[nxt[c]] # 0 /\ st[nxt[c]] <= st[d] BY <1>0, <1>2 DEF Follows
  <2>2. EndOf(N, st, nxt[c]) = st[nxt[c]] - 1 BY <1>e, <2>1
  <2> QED BY <1>0, <1>2, <2>1, <2>2
<1>3. ASSUME NEW c \in R, NEW d \in R, st[c] <= t, t <= EndOf(N, st, nxt[c]),
             st[d] <= t, t <= EndOf(N, st, nxt[d])
      PROVE  c = d
  <2>1. ~(st[c] < st[d]) /\ ~(st[d] < st[c]) BY <1>2, <1>3
  <2>2. st[c] = st[d] BY <1>0, <2>1
  <2> QED BY <1>0, <2>2
<1> QED BY <1>1, <1>3

\* A chunk and its successor n: it ends at or behind its start.
IsChunk(R, N, st, c, n) ==
  /\ n \in R /\ st[c] \in 0 .. (N - 1) /\ st[n] \in 0 .. (N - 1)
  /\ EndOf(N, st, n) \in 0 .. (N - 1)
  /\ st[c] <= EndOf(N, st, n)
  /\ st[n] = 0 => EndOf(N, st, n) = N - 1
  /\ st[n] # 0 => EndOf(N, st, n) = st[n] - 1
  /\ st[n] = 0 \/ st[c] < st[n]

LEMMA ChunkIsSome ==
  ASSUME NEW R, NEW N \in Nat, NEW st, NEW nxt, IsCycle(R, N, st, nxt), NEW c \in R
  PROVE  IsChunk(R, N, st, c, nxt[c])
<1>1. nxt[c] \in R /\ st[c] \in 0 .. (N - 1) /\ st[nxt[c]] \in 0 .. (N - 1)
  BY DEF IsCycle, Follows
<1>2. st[nxt[c]] = 0 \/ st[c] < st[nxt[c]] BY DEF IsCycle, Follows
<1>3. /\ EndOf(N, st, nxt[c]) \in 0 .. (N - 1)
      /\ st[nxt[c]] = 0 => EndOf(N, st, nxt[c]) = N - 1
      /\ st[nxt[c]] # 0 => EndOf(N, st, nxt[c]) = st[nxt[c]] - 1
  BY <1>1, EndOfIs
<1>4. st[c] <= EndOf(N, st, nxt[c]) BY <1>1, <1>2, <1>3
<1> QED BY <1>1, <1>2, <1>3, <1>4 DEF IsChunk

LEMMA SmallestIs ==
  ASSUME NEW S, S \subseteq Nat, S # {}
  PROVE  SmallestOf(S) \in S /\ \A y \in S : SmallestOf(S) <= y
BY LeastOf DEF SmallestOf

-----------------------------------------------------------------------------
(* Lines.                                                                   *)

Lines(C, N, K) == [chunkTriangle : [C -> 0 .. K],
                   chunkStart : [C -> (0 .. (N - 1)) \cup {NoStart}],
                   chunkNext : [C -> Links(C)]]

GoodLine(C, N, K, l) == l \in Lines(C, N, K) /\ IsRing(C, N, l.chunkStart, l.chunkNext)

LEMMA LineInsert ==
  ASSUME NEW C, Entries(C), NEW N \in Nat, NEW K,
         NEW l, GoodLine(C, N, K, l), NEW m, m \in Lines(C, N, K),
         NEW c \in Ring(C, l.chunkNext), NEW f \in C, f \notin Ring(C, l.chunkNext),
         NEW n, n = NextOf(l.chunkNext[c]),
         NEW v \in 0 .. (N - 1), l.chunkStart[c] < v,
         l.chunkStart[n] = 0 \/ v < l.chunkStart[n],
         \A d \in Ring(C, l.chunkNext) : m.chunkStart[d] = l.chunkStart[d],
         m.chunkStart[f] = v,
         \A d \in C \ {c, f} : m.chunkNext[d] = l.chunkNext[d],
         m.chunkNext[c] \in {f, f + 32}, m.chunkNext[f] \in {n, n + 32}
  PROVE  GoodLine(C, N, K, m) /\ Ring(C, m.chunkNext) = Ring(C, l.chunkNext) \cup {f}
<1>p. PICK R, st, su, nxt, nyt :
        /\ R = Ring(C, l.chunkNext) /\ st = l.chunkStart /\ su = m.chunkStart
        /\ nxt = Successors(C, l.chunkNext) /\ nyt = Successors(C, m.chunkNext)
  OBVIOUS
<1>1. IsCycle(R, N, st, nxt) BY <1>p DEF GoodLine, IsRing
<1>2. c \in R /\ f \notin R /\ c \in C /\ nxt[c] = n BY <1>p DEF Ring, Successors
<1>3. n \in R /\ n \in C
  <2>1. nxt[c] \in R BY <1>1, <1>2, ChunkIsSome DEF IsChunk
  <2> QED BY <1>2, <1>p, <2>1 DEF Ring
<1>4. NextOf(m.chunkNext[c]) = f /\ NextOf(m.chunkNext[f]) = n /\ m.chunkNext[c] < 64 /\ m.chunkNext[f] < 64
  <2>1. /\ NextOf(f) = f /\ NextOf(f + 32) = f /\ f < 64 /\ f + 32 < 64
        /\ NextOf(n) = n /\ NextOf(n + 32) = n /\ n < 64 /\ n + 32 < 64
    <3>1. \A d \in C : /\ NextOf(d) = d /\ NextOf(d + 32) = d /\ d < 32 /\ d + 32 < 64 /\ d \in Nat
      BY LinkFacts
    <3> QED BY <1>3, <3>1
  <2> QED BY <2>1
<1>5. Ring(C, m.chunkNext) = R \cup {f} BY <1>2, <1>4, <1>p DEF Ring, CHUNKNEXT_BUSY_BIT
<1>6. /\ \A d \in R \ {c} : nyt[d] = nxt[d]
      /\ nyt[f] = nxt[c] /\ nyt[c] = f
  BY <1>2, <1>4, <1>p DEF Successors, Ring
<1>7. /\ \A d \in R : su[d] = st[d]
      /\ su[f] = v /\ st[c] < v /\ (st[nxt[c]] = 0 \/ v < st[nxt[c]])
  BY <1>2, <1>p
<1>c. c \in R /\ f \notin R BY <1>2
<1>8. IsCycle(R \cup {f}, N, su, nyt) BY <1>1, <1>c, <1>6, <1>7, CycleInsert
<1> QED BY <1>5, <1>8, <1>p DEF GoodLine, IsRing

\* A line that differs in what is not part of the ring, and in who is busy.
LEMMA LineSame ==
  ASSUME NEW C, NEW N \in Nat, NEW K, NEW l, GoodLine(C, N, K, l), NEW m, m \in Lines(C, N, K),
         \A d \in C : l.chunkNext[d] < 64 =>
           /\ m.chunkNext[d] < 64 /\ NextOf(m.chunkNext[d]) = NextOf(l.chunkNext[d])
           /\ m.chunkStart[d] = l.chunkStart[d],
         \A d \in C : m.chunkNext[d] < 64 => l.chunkNext[d] < 64
  PROVE  GoodLine(C, N, K, m) /\ Ring(C, m.chunkNext) = Ring(C, l.chunkNext)
<1> DEFINE R == Ring(C, l.chunkNext)
           nxt == Successors(C, l.chunkNext)
           nyt == Successors(C, m.chunkNext)
<1>1. IsCycle(R, N, l.chunkStart, nxt) BY DEF GoodLine, IsRing
<1>2. Ring(C, m.chunkNext) = R BY DEF Ring, CHUNKNEXT_BUSY_BIT
<1>3. \A d \in R : nyt[d] = nxt[d] /\ m.chunkStart[d] = l.chunkStart[d] /\ nxt[d] \in R
  <2>1. \A d \in R : nyt[d] = nxt[d] /\ m.chunkStart[d] = l.chunkStart[d]
    BY DEF Ring, Successors, CHUNKNEXT_BUSY_BIT
  <2>2. \A d \in R : nxt[d] \in R BY <1>1 DEF IsCycle, Follows
  <2> QED BY <2>1, <2>2
<1> HIDE DEF R, nxt, nyt
<1>4. IsCycle(R, N, m.chunkStart, nyt) BY <1>1, <1>3 DEF IsCycle, Follows
<1> QED BY <1>2, <1>4 DEF GoodLine, IsRing, nyt, R

\* What a merge leaves: entries in use, free or reserved, starts, and the tiles of
\* idle chunks with their triangle.
Ends(N, l, c) == EndOf(N, l.chunkStart, NextOf(l.chunkNext[c]))
Merged(C, N, l, m) ==
  /\ m.chunkTriangle = l.chunkTriangle
  /\ \A c \in C : ~(l.chunkNext[c] < 32) => m.chunkNext[c] = l.chunkNext[c]
  /\ \A c \in C : m.chunkNext[c] \in {l.chunkNext[c], 255} \/ m.chunkNext[c] < 32
  /\ \A c \in C : m.chunkNext[c] < 64 => l.chunkNext[c] < 64 /\ m.chunkStart[c] = l.chunkStart[c]
  /\ \A c \in C, t \in Int :
       m.chunkNext[c] < 32 /\ m.chunkStart[c] <= t /\ t <= Ends(N, m, c) =>
         \E d \in C : /\ l.chunkNext[d] < 32
                      /\ l.chunkStart[d] <= t /\ t <= Ends(N, l, d)
                      /\ l.chunkTriangle[d] = l.chunkTriangle[c]

LEMMA MergedTwice ==
  ASSUME NEW C, NEW N, NEW l, NEW m, NEW k, Merged(C, N, l, m), Merged(C, N, m, k)
  PROVE  Merged(C, N, l, k)
<1>1. \A c \in C : ~(l.chunkNext[c] < 32) => k.chunkNext[c] = l.chunkNext[c] BY DEF Merged
<1>2. \A c \in C : k.chunkNext[c] < 64 => l.chunkNext[c] < 64 /\ k.chunkStart[c] = l.chunkStart[c]
  BY DEF Merged
<1>3. ASSUME NEW c \in C, NEW t \in Int,
             k.chunkNext[c] < 32, k.chunkStart[c] <= t, t <= Ends(N, k, c)
      PROVE  \E d \in C : /\ l.chunkNext[d] < 32
                          /\ l.chunkStart[d] <= t /\ t <= Ends(N, l, d)
                          /\ l.chunkTriangle[d] = l.chunkTriangle[c]
  <2>1. PICK d \in C : /\ m.chunkNext[d] < 32
                       /\ m.chunkStart[d] <= t /\ t <= Ends(N, m, d)
                       /\ m.chunkTriangle[d] = m.chunkTriangle[c]
    BY <1>3 DEF Merged
  <2>2. PICK e \in C : /\ l.chunkNext[e] < 32
                       /\ l.chunkStart[e] <= t /\ t <= Ends(N, l, e)
                       /\ l.chunkTriangle[e] = l.chunkTriangle[d]
    BY <2>1 DEF Merged
  <2>3. m.chunkTriangle = l.chunkTriangle BY DEF Merged
  <2> QED BY <2>1, <2>2, <2>3
<1>4. k.chunkTriangle = l.chunkTriangle BY DEF Merged
<1> QED BY <1>1, <1>2, <1>3, <1>4 DEF Merged

LEMMA MergedNone ==
  ASSUME NEW C, NEW N, NEW l PROVE Merged(C, N, l, l)
BY DEF Merged

\* One merge: c takes over the tiles of n behind it.
LEMMA LineMerge ==
  ASSUME NEW C, Entries(C), NEW N \in Nat, NEW K,
         NEW l, GoodLine(C, N, K, l), NEW c \in C, NEW n,
         l.chunkNext[c] < 32, n = l.chunkNext[c], l.chunkNext[n] < 32, l.chunkStart[n] # 0,
         l.chunkTriangle[c] = l.chunkTriangle[n],
         NEW m, m \in Lines(C, N, K),
         m.chunkTriangle = l.chunkTriangle,
         \A d \in C \ {n} : m.chunkStart[d] = l.chunkStart[d],
         \A d \in C \ {c, n} : m.chunkNext[d] = l.chunkNext[d],
         m.chunkNext[c] = l.chunkNext[n], m.chunkNext[n] = 255
  PROVE  GoodLine(C, N, K, m) /\ Merged(C, N, l, m)
<1>p. PICK R, st, su, nxt, nyt :
        /\ R = Ring(C, l.chunkNext) /\ st = l.chunkStart /\ su = m.chunkStart
        /\ nxt = Successors(C, l.chunkNext) /\ nyt = Successors(C, m.chunkNext)
  OBVIOUS
<1>1. IsCycle(R, N, st, nxt) BY <1>p DEF GoodLine, IsRing
<1>2. l.chunkNext \in [C -> Links(C)] /\ l.chunkTriangle \in [C -> 0 .. K]
  BY DEF GoodLine, Lines
<1>a. \A x \in Links(C) : x < 32 => x \in C /\ NextOf(x) = x BY LinkFacts
<1>b. \A d \in C : d < 32 /\ d \in Nat /\ NextOf(d) = d BY LinkFacts
<1>3. n \in C /\ NextOf(n) = n /\ l.chunkNext[n] \in C /\ NextOf(l.chunkNext[n]) = l.chunkNext[n]
  BY <1>2, <1>a
<1>4. c \in R /\ n \in R /\ nxt[c] = n /\ nxt[n] = l.chunkNext[n]
  <2>1. c \in R BY <1>3, <1>b, <1>p DEF Ring, CHUNKNEXT_BUSY_BIT
  <2>2. n \in R BY <1>3, <1>b, <1>p DEF Ring, CHUNKNEXT_BUSY_BIT
  <2> QED BY <1>3, <2>1, <2>2, <1>p DEF Successors
<1>c. c \in R BY <1>4
<1>5. c # n
  <2>0. IsChunk(R, N, st, c, nxt[c]) BY <1>1, <1>c, ChunkIsSome
  <2>1. st[nxt[c]] = 0 \/ st[c] < st[nxt[c]] BY <2>0 DEF IsChunk
  <2>2. st[c] \in 0 .. (N - 1) BY <1>1, <1>c, ChunkIsSome DEF IsChunk
  <2> QED BY <1>4, <2>1, <2>2, <1>p
<1>6. Ring(C, m.chunkNext) = R \ {n}
  BY <1>3, <1>4, <1>5, <1>b, <1>p DEF Ring, CHUNKNEXT_BUSY_BIT
<1>7. /\ \A d \in R \ {c, n} : nyt[d] = nxt[d]
      /\ nyt[c] = nxt[n]
      /\ \A d \in R \ {n} : su[d] = st[d]
  BY <1>3, <1>4, <1>5, <1>p DEF Successors, Ring
<1>q. st[n] # 0 /\ n = nxt[c] BY <1>4, <1>p
<1>8. IsCycle(R \ {n}, N, su, nyt) BY <1>1, <1>4, <1>7, <1>q, CycleRemove
<1>9. GoodLine(C, N, K, m) BY <1>6, <1>8, <1>p DEF GoodLine, IsRing
<1>10. \A d \in C : ~(l.chunkNext[d] < 32) => m.chunkNext[d] = l.chunkNext[d] BY <1>3
<1>11. \A d \in C : m.chunkNext[d] < 64 => l.chunkNext[d] < 64 /\ m.chunkStart[d] = l.chunkStart[d]
  BY <1>6, <1>7, <1>p DEF Ring, CHUNKNEXT_BUSY_BIT
<1>12. ASSUME NEW d \in C, NEW t \in Int,
              m.chunkNext[d] < 32, m.chunkStart[d] <= t, t <= Ends(N, m, d)
       PROVE  \E e \in C : /\ l.chunkNext[e] < 32
                           /\ l.chunkStart[e] <= t /\ t <= Ends(N, l, e)
                           /\ l.chunkTriangle[e] = l.chunkTriangle[d]
  <2>1. d # n /\ m.chunkStart[d] = l.chunkStart[d] BY <1>12
  <2>2. CASE d # c
    <3>1. m.chunkNext[d] = l.chunkNext[d] BY <2>1, <2>2
    <3>2. d \in R \ {n} /\ nyt[d] = nxt[d] /\ nyt[d] \in R \ {n}
      <4>1. d \in R \ {n} BY <1>2, <1>12, <1>a, <1>b, <1>p, <2>1, <3>1 DEF Ring, CHUNKNEXT_BUSY_BIT
      <4>2. nyt[d] \in R \ {n} BY <1>8, <4>1, ChunkIsSome DEF IsChunk
      <4> QED BY <1>7, <2>2, <4>1, <4>2
    <3>3. Ends(N, m, d) = Ends(N, l, d)
      BY <1>7, <1>p, <3>2 DEF Ends, EndOf, Successors, Ring
    <3> QED BY <1>12, <2>1, <3>1, <3>3
  <2>3. CASE d = c
    <3>1. nyt[c] = nxt[n] /\ nxt[n] \in R \ {n}
      <4>1. nyt[c] \in R \ {n} BY <1>4, <1>5, <1>8, ChunkIsSome DEF IsChunk
      <4> QED BY <1>7, <4>1
    <3>2. Ends(N, m, c) = EndOf(N, su, nyt[c]) BY <1>p DEF Ends, Successors
    <3>3. Ends(N, l, n) = EndOf(N, st, nxt[n]) BY <1>3, <1>p DEF Ends, Successors
    <3>4. Ends(N, l, c) = EndOf(N, st, nxt[c]) BY <1>p DEF Ends, Successors
    <3>5. Ends(N, m, c) = Ends(N, l, n) BY <1>7, <3>1, <3>2, <3>3 DEF EndOf
    <3>6. Ends(N, l, c) = l.chunkStart[n] - 1 /\ l.chunkStart[n] \in 0 .. (N - 1)
      <4>1. /\ st[nxt[c]] \in 0 .. (N - 1)
            /\ st[nxt[c]] # 0 => EndOf(N, st, nxt[c]) = st[nxt[c]] - 1
        <5>1. IsChunk(R, N, st, c, nxt[c]) BY <1>1, <1>c, ChunkIsSome
        <5> QED BY <5>1 DEF IsChunk
      <4> QED BY <1>q, <1>p, <3>4, <4>1
    <3>7. CASE t <= Ends(N, l, c) BY <1>12, <2>1, <2>3, <3>7
    <3>8. CASE ~(t <= Ends(N, l, c))
      <4>1. l.chunkStart[n] <= t BY <3>6, <3>8
      <4> QED BY <1>3, <1>12, <2>3, <3>5, <4>1
    <3> QED BY <3>7, <3>8
  <2> QED BY <2>2, <2>3
<1> QED BY <1>9, <1>10, <1>11, <1>12 DEF Merged

-----------------------------------------------------------------------------
(* merge_cache_blocks.                                                      *)

LEMMA Induct ==
  ASSUME NEW S, 0 \in S, \A n \in Nat : n \in S => n + 1 \in S
  PROVE  Nat \subseteq S
<1> DEFINE T == Nat \ S
<1> SUFFICES ASSUME T # {} PROVE FALSE OBVIOUS
<1>1. PICK x \in T : \A y \in T : x <= y BY LeastOf
<1>2. x \in Nat /\ x # 0 OBVIOUS
<1>3. x - 1 \in Nat /\ x - 1 \notin T BY <1>1, <1>2
<1>4. x - 1 \in S /\ (x - 1) + 1 = x BY <1>2, <1>3
<1> QED BY <1>1, <1>3, <1>4

LEMMA MergeFirstKeeps ==
  ASSUME Entries(Chunks), NEW N \in Nat, NEW K, NEW l, GoodLine(Chunks, N, K, l)
  PROVE  GoodLine(Chunks, N, K, MergeFirst(l)) /\ Merged(Chunks, N, l, MergeFirst(l))
<1>1. CASE Mergeable(l) = {} BY <1>1, MergedNone DEF MergeFirst
<1>2. CASE Mergeable(l) # {}
  <2>1. PICK c : c = SmallestOf(Mergeable(l)) OBVIOUS
  <2>2. c \in Mergeable(l)
    <3>1. Chunks \subseteq Nat BY LinkFacts
    <3>2. Mergeable(l) \subseteq Nat BY <3>1 DEF Mergeable
    <3> QED BY <1>2, <2>1, <3>2, SmallestIs
  <2>3. PICK n : n = l.chunkNext[c] OBVIOUS
  <2>4. PICK m : m = MergeFirst(l) OBVIOUS
  <2>5. /\ c \in Chunks /\ l.chunkNext[c] < 32 /\ l.chunkNext[n] < 32 /\ l.chunkStart[n] # 0
        /\ l.chunkTriangle[c] = l.chunkTriangle[n]
    BY <2>2, <2>3 DEF Mergeable, CanMerge, Live, CHUNKNEXT_BUSY_BIT
  <2>6. /\ l = [chunkTriangle |-> l.chunkTriangle, chunkStart |-> l.chunkStart, chunkNext |-> l.chunkNext]
        /\ l.chunkTriangle \in [Chunks -> 0 .. K]
        /\ l.chunkStart \in [Chunks -> (0 .. (N - 1)) \cup {NoStart}]
        /\ l.chunkNext \in [Chunks -> Links(Chunks)]
    BY DEF GoodLine, Lines
  <2>7. n \in Chunks
    <3>1. \A x \in Links(Chunks) : x < 32 => x \in Chunks BY LinkFacts
    <3> QED BY <2>3, <2>5, <2>6, <3>1
  <2>c. c # n
    <3>1. PICK R, st, nxt : /\ R = Ring(Chunks, l.chunkNext) /\ st = l.chunkStart
                            /\ nxt = Successors(Chunks, l.chunkNext)
      OBVIOUS
    <3>2. IsCycle(R, N, st, nxt) BY <3>1 DEF GoodLine, IsRing
    <3>3. c \in R
      <4>1. \A x \in Links(Chunks) : x < 32 => x \in Chunks BY LinkFacts
      <4>2. \A x \in Chunks : x < 32 /\ x \in Nat BY LinkFacts
      <4>3. l.chunkNext[c] \in Chunks BY <2>5, <2>6, <4>1
      <4> QED BY <2>5, <3>1, <4>2, <4>3 DEF Ring, CHUNKNEXT_BUSY_BIT
    <3>4. IsChunk(R, N, st, c, nxt[c]) BY <3>2, <3>3, ChunkIsSome
    <3>5. nxt[c] = n
      <4>1. \A x \in Links(Chunks) : x < 32 => x \in Chunks /\ NextOf(x) = x BY LinkFacts
      <4> QED BY <2>3, <2>5, <2>6, <3>1, <4>1 DEF Successors
    <3>6. st[n] \in 0 .. (N - 1) /\ (st[n] = 0 \/ st[c] < st[n]) BY <3>4, <3>5 DEF IsChunk
    <3> QED BY <2>5, <3>1, <3>6
  <2>8. m = [l EXCEPT !.chunkNext[c] = l.chunkNext[n],
                      !.chunkNext[n] = CHUNKNEXT_FREE_BLOCK,
                      !.chunkStart[n] = NoStart]
    BY <1>2, <2>1, <2>3, <2>4 DEF MergeFirst
  <2>9. m = [chunkTriangle |-> l.chunkTriangle,
             chunkStart |-> [l.chunkStart EXCEPT ![n] = NoStart],
             chunkNext |-> [[l.chunkNext EXCEPT ![c] = l.chunkNext[n]] EXCEPT ![n] = 255]]
    BY <2>6, <2>8 DEF CHUNKNEXT_FREE_BLOCK
  <2>10. /\ m.chunkTriangle = l.chunkTriangle
         /\ m.chunkStart = [l.chunkStart EXCEPT ![n] = NoStart]
         /\ m.chunkNext = [[l.chunkNext EXCEPT ![c] = l.chunkNext[n]] EXCEPT ![n] = 255]
    BY <2>9
  <2>11. 255 \in Links(Chunks) BY DEF Links, CHUNKNEXT_FREE_BLOCK
  <2>12. m \in Lines(Chunks, N, K)
    <3>1. m.chunkStart \in [Chunks -> (0 .. (N - 1)) \cup {NoStart}] BY <2>6, <2>7, <2>10
    <3>2. m.chunkNext \in [Chunks -> Links(Chunks)] BY <2>5, <2>6, <2>7, <2>10, <2>11
    <3>3. m.chunkTriangle \in [Chunks -> 0 .. K] BY <2>6, <2>10
    <3> QED BY <2>9, <2>10, <3>1, <3>2, <3>3 DEF Lines
  <2>13. /\ \A d \in Chunks \ {n} : m.chunkStart[d] = l.chunkStart[d]
         /\ \A d \in Chunks \ {c, n} : m.chunkNext[d] = l.chunkNext[d]
         /\ m.chunkNext[c] = l.chunkNext[n]
         /\ m.chunkNext[n] = 255
    BY <2>5, <2>6, <2>7, <2>10, <2>c
  <2>14. m.chunkTriangle = l.chunkTriangle BY <2>10
  <2>15. GoodLine(Chunks, N, K, m) /\ Merged(Chunks, N, l, m)
    BY <2>3, <2>5, <2>12, <2>13, <2>14, LineMerge
  <2> QED BY <2>4, <2>15
<1> QED BY <1>1, <1>2

\* The rounds of a merge exist.
Rounds(K, l, r) == r = [n \in 0 .. K |-> IF n = 0 THEN l ELSE MergeFirst(r[n - 1])]

LEMMA RoundsExist ==
  ASSUME NEW l, NEW K \in Nat
  PROVE  \E r : Rounds(K, l, r)
<1> DEFINE S == {k \in Nat : \E r : Rounds(k, l, r)}
<1>1. 0 \in S
  <2>1. Rounds(0, l, [n \in 0 .. 0 |-> l]) BY DEF Rounds
  <2> QED BY <2>1
<1>2. ASSUME NEW k \in Nat, k \in S PROVE k + 1 \in S
  <2>1. PICK r : Rounds(k, l, r) BY <1>2
  <2>2. PICK q : q = [n \in 0 .. (k + 1) |-> IF n = k + 1 THEN MergeFirst(r[k]) ELSE r[n]] OBVIOUS
  <2>3. \A n \in 0 .. k : q[n] = r[n] /\ r[n] = IF n = 0 THEN l ELSE MergeFirst(r[n - 1])
    BY <2>1, <2>2 DEF Rounds
  <2>4. \A n \in 0 .. (k + 1) : q[n] = IF n = 0 THEN l ELSE MergeFirst(q[n - 1])
    <3> SUFFICES ASSUME NEW n \in 0 .. (k + 1)
                 PROVE  q[n] = IF n = 0 THEN l ELSE MergeFirst(q[n - 1])
      OBVIOUS
    <3>1. CASE n = 0 BY <2>3, <3>1
    <3>2. CASE n \in 1 .. k
      <4>1. n - 1 \in 0 .. k /\ n \in 0 .. k /\ n # 0 BY <3>2
      <4> QED BY <2>3, <4>1
    <3>3. CASE n = k + 1
      <4>1. q[k] = r[k] /\ q[n] = MergeFirst(r[k]) /\ n - 1 = k /\ n # 0 BY <2>2, <2>3, <3>3
      <4> QED BY <4>1
    <3> QED BY <3>1, <3>2, <3>3
  <2>5. q = [n \in 0 .. (k + 1) |-> q[n]] BY <2>2
  <2>6. q = [n \in 0 .. (k + 1) |-> IF n = 0 THEN l ELSE MergeFirst(q[n - 1])] BY <2>4, <2>5
  <2> QED BY <2>6 DEF Rounds
<1> HIDE DEF S
<1>3. Nat \subseteq S BY <1>1, <1>2, Induct
<1> QED BY <1>3 DEF S

\* However many rounds a merge takes.
LEMMA MergeKeeps ==
  ASSUME Entries(Chunks), NEW N \in Nat, NEW K, NEW l, GoodLine(Chunks, N, K, l)
  PROVE  /\ GoodLine(Chunks, N, K, merge_cache_blocks(l))
         /\ Merged(Chunks, N, l, merge_cache_blocks(l))
<1>1. /\ Cardinality(Mergeable(l)) \in Nat /\ Cardinality(Chunks) \in Nat
      /\ Cardinality(Mergeable(l)) <= Cardinality(Chunks)
  <2>1. IsFiniteSet(Chunks)
    <3>1. PICK E \in 1 .. 31 : Chunks = 0 .. (E - 1) BY DEF Entries
    <3> QED BY <3>1, FS_Interval
  <2>2. Mergeable(l) \in SUBSET Chunks BY DEF Mergeable
  <2>3. IsFiniteSet(Mergeable(l)) /\ Cardinality(Mergeable(l)) <= Cardinality(Chunks)
    BY <2>1, <2>2, FS_Subset
  <2> QED BY <2>1, <2>3, FS_CardinalityType
<1>2. PICK k, z : k = Cardinality(Mergeable(l)) /\ z = Cardinality(Chunks) OBVIOUS
<1>3. PICK round : Rounds(z, l, round) /\ merge_cache_blocks(l) = round[k]
  <2>1. \E r : Rounds(z, l, r) BY <1>1, <1>2, RoundsExist
  <2>2. Rounds(z, l, CHOOSE r : Rounds(z, l, r)) BY <2>1
  <2>3. merge_cache_blocks(l) = (CHOOSE r : Rounds(z, l, r))[k]
    BY <1>2 DEF merge_cache_blocks, Rounds
  <2> QED BY <2>2, <2>3
<1> DEFINE G(m) == GoodLine(Chunks, N, K, m) /\ Merged(Chunks, N, l, m)
           S == {n \in Nat : n <= z => G(round[n])}
<1>4. 0 \in S
  <2>1. round[0] = l BY <1>1, <1>2, <1>3 DEF Rounds
  <2>2. G(l) BY MergedNone
  <2> QED BY <2>1, <2>2
<1>5. ASSUME NEW n \in Nat, n \in S PROVE n + 1 \in S
  <2> SUFFICES ASSUME n + 1 <= z PROVE G(round[n + 1])
    OBVIOUS
  <2>1. n <= z /\ n + 1 \in 0 .. z /\ n + 1 # 0 /\ (n + 1) - 1 = n BY <1>1, <1>2
  <2>2. round[n + 1] = MergeFirst(round[n]) BY <1>3, <2>1 DEF Rounds
  <2>3. G(round[n]) BY <1>5, <2>1
  <2>4. PICK m : m = round[n] OBVIOUS
  <2>5. GoodLine(Chunks, N, K, MergeFirst(m)) /\ Merged(Chunks, N, m, MergeFirst(m))
    BY <2>3, <2>4, MergeFirstKeeps
  <2>6. Merged(Chunks, N, l, MergeFirst(m)) BY <2>3, <2>4, <2>5, MergedTwice
  <2> QED BY <2>2, <2>4, <2>5, <2>6
<1> HIDE DEF S
<1>6. Nat \subseteq S BY <1>4, <1>5, Induct
<1>7. k \in S /\ k <= z BY <1>1, <1>2, <1>6
<1> QED BY <1>3, <1>7 DEF S

-----------------------------------------------------------------------------
(* What the SPUs know: the invariant.                                      *)

Steps == {"idle", "search", "split_getllar", "split_putllc", "render", "flush", "finish"}
Splitting == {"split_getllar", "split_putllc"}
Drawing == {"render", "flush"}

\* The locals of an SPU, for a line C, N tiles and K triangles.
Locals(C, N, K) ==
  [pc : Steps, chunkToProcess : C \cup {NoChunk},
   chunkStart : 0 .. (N - 1), chunkEnd : 0 .. (N - 1), chunkNext : C,
   chunkTriangle : 0 .. K, endTriangle : 0 .. K,
   freeChunk : C \cup {NoChunk}, freeChunk2 : C \cup {NoChunk}, claimed : BOOLEAN,
   firstTile : 0 .. (N - 1), thisBlockStart : 0 .. (N - 1), realBlockStart : 0 .. (N - 1)]

\* The chunk it has marked busy.
OwnsChunk(C, K, l, s) ==
  s.pc # "idle" =>
    /\ s.chunkToProcess \in C
    /\ l.chunkNext[s.chunkToProcess] = s.chunkNext + CHUNKNEXT_BUSY_BIT
    /\ l.chunkTriangle[s.chunkToProcess] < K

\* What it has read of the chunk when it claimed it.
KnowsChunk(N, l, s) ==
  s.pc \in Splitting \cup {"search"} =>
    /\ s.chunkStart = l.chunkStart[s.chunkToProcess]
    /\ s.chunkEnd = Ends(N, l, s.chunkToProcess)
    /\ s.chunkTriangle < s.endTriangle
    /\ s.pc \in Splitting => s.firstTile \in s.chunkStart .. s.chunkEnd

\* The free entries it has chosen, while its reservation is alive.
KnowsFree(l, s, reserved) ==
  s.pc = "split_putllc" =>
    /\ s.claimed => s.freeChunk # NoChunk
    /\ ~s.claimed => s.freeChunk # s.freeChunk2 \/ s.freeChunk = NoChunk
    /\ ~s.claimed /\ s.freeChunk = NoChunk => s.freeChunk2 = NoChunk
    /\ reserved =>
         /\ s.freeChunk2 # NoChunk => l.chunkNext[s.freeChunk2] = CHUNKNEXT_FREE_BLOCK
         /\ ~s.claimed /\ s.freeChunk # NoChunk =>
              l.chunkNext[s.freeChunk] = CHUNKNEXT_FREE_BLOCK

\* The block it draws on.
KnowsBlock(N, l, s) ==
  s.pc \in Drawing =>
    /\ l.chunkStart[s.chunkToProcess] <= s.thisBlockStart
    /\ s.thisBlockStart <= s.chunkStart
    /\ s.chunkStart <= s.chunkEnd
    /\ s.chunkStart = s.firstTile
    /\ s.chunkEnd <= Ends(N, l, s.chunkToProcess)
    /\ s.chunkEnd < s.thisBlockStart + TilesPerChunk
    /\ s.pc = "render" => s.chunkTriangle < s.endTriangle
    /\ s.freeChunk = NoChunk

\* The entry reserved for it.
KeepsEntry(C, l, s) == \A e \in C : HoldsEntry(s, e) => l.chunkNext[e] = CHUNKNEXT_RESERVED

Block(s) == IF s.pc \in Drawing THEN s.thisBlockStart .. s.chunkEnd ELSE {}

SpuAt(C, N, K, l, s, reserved, buffered) ==
  /\ OwnsChunk(C, K, l, s)
  /\ KnowsChunk(N, l, s)
  /\ KnowsFree(l, s, reserved)
  /\ KnowsBlock(N, l, s)
  /\ KeepsEntry(C, l, s)
  /\ buffered \subseteq Block(s)

Apart(C, s, z) ==
  /\ s.pc # "idle" /\ z.pc # "idle" => s.chunkToProcess # z.chunkToProcess
  /\ \A e \in C : ~(HoldsEntry(s, e) /\ HoldsEntry(z, e))

LayoutInv == \E layout \in Layouts : /\ Tiles = 0 .. (layout[1] - 1)
                                     /\ Chunks = 0 .. (layout[2] - 1)

Types ==
  /\ LayoutInv
  /\ triangles \in Seq(Coverages[NumTiles]) /\ endTriangle <= MaxTriangles
  /\ resv \subseteq Spus
  /\ spu \in [Spus -> Locals(Chunks, NumTiles, endTriangle)]
  /\ DOMAIN buffer = Spus

SpuInv(p) ==
  SpuAt(Chunks, NumTiles, endTriangle, cache, spu[p], p \in resv, DOMAIN buffer[p])

RInv ==
  /\ Types
  /\ GoodLine(Chunks, NumTiles, endTriangle, cache)
  /\ \A p \in Spus : SpuInv(p)
  /\ \A p, q \in Spus : p # q => Apart(Chunks, spu[p], spu[q])

LEMMA LayoutFacts ==
  ASSUME LayoutInv
  PROVE  /\ Entries(Chunks)
         /\ NumTiles \in Nat /\ NumTiles > 0 /\ Tiles = 0 .. (NumTiles - 1)
<1>1. PICK layout \in Layouts : /\ Tiles = 0 .. (layout[1] - 1)
                                /\ Chunks = 0 .. (layout[2] - 1)
  BY DEF LayoutInv
<1>2. layout[1] \in Nat \ {0} /\ layout[2] \in 1 .. 31
  BY RenderChunksAssumption DEF CHUNKNEXT_BUSY_BIT
<1>3. Entries(Chunks) BY <1>1, <1>2 DEF Entries
<1>4. PICK n \in Nat \ {0} : n = layout[1] BY <1>2
<1>5. Cardinality(0 .. (n - 1)) = n
  <2>1. Cardinality(0 .. (n - 1)) = IF 0 > n - 1 THEN 0 ELSE (n - 1) - 0 + 1
    BY FS_Interval
  <2> QED BY <2>1
<1>6. NumTiles = n BY <1>1, <1>4, <1>5 DEF NumTiles
<1> QED BY <1>1, <1>3, <1>4, <1>6

\* The start and the end of a chunk that keeps its link.
LEMMA KeptEnd ==
  ASSUME NEW C, NEW N \in Nat, NEW K, NEW l, NEW m, GoodLine(C, N, K, l), GoodLine(C, N, K, m),
         \A d \in C : l.chunkNext[d] < 64 /\ m.chunkNext[d] < 64 =>
                        m.chunkStart[d] = l.chunkStart[d],
         NEW c \in C, l.chunkNext[c] < 64, m.chunkNext[c] = l.chunkNext[c]
  PROVE  m.chunkStart[c] = l.chunkStart[c] /\ Ends(N, m, c) = Ends(N, l, c)
<1>1. PICK R, T, nxt, nyt : /\ R = Ring(C, l.chunkNext) /\ T = Ring(C, m.chunkNext)
                            /\ nxt = Successors(C, l.chunkNext) /\ nyt = Successors(C, m.chunkNext)
  OBVIOUS
<1>2. IsCycle(R, N, l.chunkStart, nxt) /\ IsCycle(T, N, m.chunkStart, nyt)
  BY <1>1 DEF GoodLine, IsRing
<1>3. c \in R /\ c \in T BY <1>1 DEF Ring, CHUNKNEXT_BUSY_BIT
<1>4. nxt[c] \in R /\ nyt[c] \in T BY <1>2, <1>3 DEF IsCycle, Follows
<1>5. nxt[c] = NextOf(l.chunkNext[c]) /\ nyt[c] = NextOf(l.chunkNext[c])
  BY <1>1 DEF Successors
<1>6. PICK n : n = NextOf(l.chunkNext[c]) OBVIOUS
<1>7. n \in C /\ l.chunkNext[n] < 64 /\ m.chunkNext[n] < 64
  BY <1>1, <1>4, <1>5, <1>6 DEF Ring, CHUNKNEXT_BUSY_BIT
<1>8. m.chunkStart[n] = l.chunkStart[n] BY <1>7
<1> QED BY <1>6, <1>8 DEF Ends, EndOf

LEMMA Init_RInv == Init => RInv
<1> SUFFICES ASSUME Init PROVE RInv OBVIOUS
<1>1. PICK layout \in Layouts :
        /\ cache = [chunkTriangle |-> [c \in 0 .. (layout[2] - 1) |-> 0],
                    chunkStart |-> [c \in 0 .. (layout[2] - 1) |-> 0],
                    chunkNext |-> [c \in 0 .. (layout[2] - 1) |->
                                     IF c = 0 THEN 0 ELSE CHUNKNEXT_FREE_BLOCK]]
        /\ pixels = [t \in 0 .. (layout[1] - 1) |-> <<>>]
        /\ triangles = <<>>
        /\ resv = {}
        /\ spu = [p \in Spus |-> Idle]
        /\ buffer = [p \in Spus |-> <<>>]
  BY DEF Init
<1>2. Tiles = 0 .. (layout[1] - 1) /\ Chunks = 0 .. (layout[2] - 1)
  BY <1>1 DEF Tiles, Chunks
<1>3. LayoutInv BY <1>2 DEF LayoutInv
<1>4. Entries(Chunks) /\ NumTiles \in Nat /\ NumTiles > 0 BY <1>3, LayoutFacts
<1>5. PICK C, N : C = Chunks /\ N = NumTiles OBVIOUS
<1>6. 0 \in C /\ endTriangle = 0 /\ N \in Nat /\ N > 0
  <2>1. 0 \in C BY <1>4, <1>5 DEF Entries
  <2>2. endTriangle = 0 BY <1>1 DEF endTriangle
  <2> QED BY <1>4, <1>5, <2>1, <2>2
<1>7. Idle \in Locals(C, N, 0)
  BY <1>6 DEF Idle, Locals, Steps
<1>8. Types
  <2>1. triangles \in Seq(Coverages[NumTiles]) BY <1>1
  <2>2. endTriangle <= MaxTriangles BY <1>6, RenderChunksAssumption
  <2>3. spu \in [Spus -> Locals(Chunks, NumTiles, endTriangle)] BY <1>1, <1>5, <1>6, <1>7
  <2>4. resv \subseteq Spus /\ DOMAIN buffer = Spus BY <1>1
  <2> QED BY <1>3, <2>1, <2>2, <2>3, <2>4 DEF Types
<1>9. GoodLine(C, N, 0, cache)
  <2>0. /\ cache = [chunkTriangle |-> cache.chunkTriangle, chunkStart |-> cache.chunkStart,
                    chunkNext |-> cache.chunkNext]
        /\ cache.chunkTriangle = [c \in C |-> 0]
        /\ cache.chunkStart = [c \in C |-> 0]
        /\ cache.chunkNext = [c \in C |-> IF c = 0 THEN 0 ELSE CHUNKNEXT_FREE_BLOCK]
    BY <1>1, <1>2, <1>5
  <2>1. /\ \A c \in C : cache.chunkTriangle[c] = 0 /\ cache.chunkStart[c] = 0
        /\ cache.chunkNext[0] = 0
        /\ \A c \in C \ {0} : cache.chunkNext[c] = 255
    BY <2>0, <1>6 DEF CHUNKNEXT_FREE_BLOCK
  <2>2. cache \in Lines(C, N, 0)
    <3>1. cache.chunkNext \in [C -> Links(C)] BY <2>0, <1>6 DEF Links
    <3>2. cache.chunkStart \in [C -> (0 .. (N - 1)) \cup {NoStart}] BY <2>0, <1>6
    <3>3. cache.chunkTriangle \in [C -> 0 .. 0] BY <2>0
    <3> QED BY <2>0, <3>1, <3>2, <3>3 DEF Lines
  <2>3. Ring(C, cache.chunkNext) = {0} BY <2>1, <1>6 DEF Ring, CHUNKNEXT_BUSY_BIT
  <2>4. Successors(C, cache.chunkNext)[0] = 0 BY <2>1, <1>6 DEF Successors, NextOf, CHUNKNEXT_BUSY_BIT
  <2>5. IsRing(C, N, cache.chunkStart, cache.chunkNext)
    <3>1. PICK nxt, st : nxt = Successors(C, cache.chunkNext) /\ st = cache.chunkStart OBVIOUS
    <3>2. IsCycle({0}, N, st, nxt) BY <2>1, <2>4, <3>1, <1>6 DEF IsCycle, Follows
    <3> QED BY <2>3, <3>1, <3>2 DEF IsRing
  <2> QED BY <2>2, <2>5 DEF GoodLine
<1>10. ASSUME NEW p \in Spus PROVE SpuInv(p)
  <2>1. spu[p] = Idle /\ DOMAIN buffer[p] = {} BY <1>1
  <2>2. NoChunk \notin Chunks
    <3>1. \A c \in Chunks : c # NoChunk BY <1>4, LinkFacts
    <3> QED BY <3>1
  <2>3. Idle.pc = "idle" BY DEF Idle
  <2> QED BY <2>1, <2>3 DEF SpuInv, SpuAt, OwnsChunk, KnowsChunk, KnowsFree, KnowsBlock, KeepsEntry,
                     HoldsEntry, Splitting, Drawing
<1>11. ASSUME NEW p \in Spus, NEW q \in Spus PROVE Apart(Chunks, spu[p], spu[q])
  <2>1. spu[p].pc = "idle" /\ spu[q].pc = "idle" BY <1>1 DEF Idle
  <2> QED BY <2>1 DEF Apart, HoldsEntry
<1> QED BY <1>5, <1>6, <1>8, <1>9, <1>10, <1>11 DEF RInv

-----------------------------------------------------------------------------
(* Steps that write the line, and steps that leave it alone.               *)

LEMMA RingFacts ==
  ASSUME RInv
  PROVE  /\ Entries(Chunks) /\ NumTiles \in Nat /\ NumTiles > 0 /\ Tiles = 0 .. (NumTiles - 1)
         /\ endTriangle \in Nat
         /\ GoodLine(Chunks, NumTiles, endTriangle, cache)
         /\ cache.chunkTriangle \in [Chunks -> 0 .. endTriangle]
         /\ cache.chunkStart \in [Chunks -> (0 .. (NumTiles - 1)) \cup {NoStart}]
         /\ cache.chunkNext \in [Chunks -> Links(Chunks)]
         /\ cache = [chunkTriangle |-> cache.chunkTriangle, chunkStart |-> cache.chunkStart,
                     chunkNext |-> cache.chunkNext]
<1>1. LayoutInv /\ GoodLine(Chunks, NumTiles, endTriangle, cache) BY DEF RInv, Types
<1>2. endTriangle \in Nat BY DEF RInv, Types, endTriangle
<1>3. cache \in Lines(Chunks, NumTiles, endTriangle) BY <1>1 DEF GoodLine
<1> QED BY <1>1, <1>2, <1>3, LayoutFacts DEF Lines

LEMMA LineDomain ==
  ASSUME NEW C, NEW N, NEW K, NEW m, GoodLine(C, N, K, m) PROVE DOMAIN m.chunkNext = C
BY DEF GoodLine, Lines

\* What the step of another SPU leaves alone.
Spares(C, l, m, z) ==
  /\ z.pc # "idle" => /\ m.chunkNext[z.chunkToProcess] = l.chunkNext[z.chunkToProcess]
                      /\ m.chunkTriangle[z.chunkToProcess] = l.chunkTriangle[z.chunkToProcess]
  /\ \A e \in C : HoldsEntry(z, e) => m.chunkNext[e] = l.chunkNext[e]

LEMMA SpareKeeps ==
  ASSUME NEW C, Entries(C), NEW N \in Nat, NEW K, NEW l, NEW m,
         GoodLine(C, N, K, l), GoodLine(C, N, K, m),
         \A d \in C : l.chunkNext[d] < 64 /\ m.chunkNext[d] < 64 =>
                        m.chunkStart[d] = l.chunkStart[d],
         NEW z \in Locals(C, N, K), NEW r, NEW B, SpuAt(C, N, K, l, z, r, B),
         Spares(C, l, m, z)
  PROVE  SpuAt(C, N, K, m, z, FALSE, B)
<1>1. OwnsChunk(C, K, m, z) BY DEF SpuAt, OwnsChunk, Spares
<1>2. z.pc # "idle" =>
        /\ m.chunkStart[z.chunkToProcess] = l.chunkStart[z.chunkToProcess]
        /\ Ends(N, m, z.chunkToProcess) = Ends(N, l, z.chunkToProcess)
  <2> SUFFICES ASSUME z.pc # "idle"
               PROVE  /\ m.chunkStart[z.chunkToProcess] = l.chunkStart[z.chunkToProcess]
                      /\ Ends(N, m, z.chunkToProcess) = Ends(N, l, z.chunkToProcess)
    OBVIOUS
  <2>1. PICK c : c = z.chunkToProcess OBVIOUS
  <2>2. c \in C /\ l.chunkNext[c] = z.chunkNext + 32 /\ m.chunkNext[c] = l.chunkNext[c]
    BY <2>1 DEF SpuAt, OwnsChunk, Spares, CHUNKNEXT_BUSY_BIT
  <2>3. l.chunkNext[c] < 64
    <3>1. z.chunkNext \in C BY DEF Locals
    <3>2. \A d \in C : d + 32 < 64 BY LinkFacts
    <3> QED BY <2>2, <3>1, <3>2
  <2> HIDE <2>1
  <2>4. m.chunkStart[c] = l.chunkStart[c] /\ Ends(N, m, c) = Ends(N, l, c)
    BY <2>2, <2>3, KeptEnd
  <2> QED BY <2>1, <2>4
<1>3. KnowsChunk(N, m, z) BY <1>2 DEF SpuAt, KnowsChunk, Splitting
<1>4. KnowsFree(m, z, FALSE) BY DEF SpuAt, KnowsFree
<1>5. KnowsBlock(N, m, z) BY <1>2 DEF SpuAt, KnowsBlock, Drawing
<1>6. KeepsEntry(C, m, z) BY DEF SpuAt, KeepsEntry, Spares
<1> QED BY <1>1, <1>3, <1>4, <1>5, <1>6 DEF SpuAt

\* A step of p that writes the line.
Writes(p, s) ==
  /\ spu' = [spu EXCEPT ![p] = s]
  /\ s \in Locals(Chunks, NumTiles, endTriangle)
  /\ UNCHANGED <<triangles, buffer, pixels>> /\ resv' = {}
  /\ GoodLine(Chunks, NumTiles, endTriangle, cache')
  /\ \A d \in Chunks : cache.chunkNext[d] < 64 /\ cache'.chunkNext[d] < 64 =>
                         cache'.chunkStart[d] = cache.chunkStart[d]
  /\ \A q \in Spus \ {p} : Spares(Chunks, cache, cache', spu[q]) /\ Apart(Chunks, s, spu[q])
  /\ SpuAt(Chunks, NumTiles, endTriangle, cache', s, FALSE, DOMAIN buffer[p])

LEMMA WritesKeep == ASSUME RInv, NEW p \in Spus, NEW s, Writes(p, s) PROVE RInv'
<1>0. /\ spu' = [spu EXCEPT ![p] = s]
      /\ s \in Locals(Chunks, NumTiles, endTriangle)
      /\ UNCHANGED <<triangles, buffer, pixels>> /\ resv' = {}
      /\ GoodLine(Chunks, NumTiles, endTriangle, cache')
      /\ \A d \in Chunks : cache.chunkNext[d] < 64 /\ cache'.chunkNext[d] < 64 =>
                         cache'.chunkStart[d] = cache.chunkStart[d]
      /\ \A q \in Spus \ {p} : Spares(Chunks, cache, cache', spu[q]) /\ Apart(Chunks, s, spu[q])
      /\ SpuAt(Chunks, NumTiles, endTriangle, cache', s, FALSE, DOMAIN buffer[p])
  BY DEF Writes
<1>1. /\ Entries(Chunks) /\ NumTiles \in Nat /\ GoodLine(Chunks, NumTiles, endTriangle, cache)
      /\ spu \in [Spus -> Locals(Chunks, NumTiles, endTriangle)]
  BY <1>0, RingFacts DEF RInv, Types
<1>2. Chunks' = Chunks BY <1>0, LineDomain DEF Chunks
<1>3. NumTiles' = NumTiles /\ Tiles' = Tiles BY <1>0 DEF NumTiles, Tiles
<1>4. endTriangle' = endTriangle BY <1>0 DEF endTriangle
<1>5. spu'[p] = s /\ \A q \in Spus \ {p} : spu'[q] = spu[q] BY <1>0, <1>1
<1>6. Types'
  <2>1. LayoutInv' BY <1>0, <1>2, <1>3 DEF RInv, Types, LayoutInv
  <2>2. triangles' \in Seq(Coverages[NumTiles']) /\ endTriangle' <= MaxTriangles
    BY <1>0, <1>3, <1>4 DEF RInv, Types
  <2>3. spu' \in [Spus -> Locals(Chunks', NumTiles', endTriangle')]
    BY <1>0, <1>1, <1>2, <1>3, <1>4
  <2>4. resv' \subseteq Spus /\ DOMAIN buffer' = Spus BY <1>0 DEF RInv, Types
  <2> QED BY <1>0, <2>1, <2>2, <2>3, <2>4 DEF Types
<1>7. GoodLine(Chunks, NumTiles, endTriangle, cache)' BY <1>0, <1>2, <1>3, <1>4
<1>8. ASSUME NEW q \in Spus PROVE SpuInv(q)'
  <2>0. (q \in resv') = FALSE BY <1>0
  <2>1. CASE q = p
    <3>1. buffer'[p] = buffer[p] BY <1>0
    <3> QED BY <1>0, <1>2, <1>3, <1>4, <1>5, <2>0, <2>1, <3>1 DEF SpuInv
  <2>2. CASE q # p
    <3>1. SpuAt(Chunks, NumTiles, endTriangle, cache, spu[q], q \in resv, DOMAIN buffer[q])
      BY <1>0 DEF RInv, SpuInv
    <3>2. Spares(Chunks, cache, cache', spu[q]) /\ spu[q] \in Locals(Chunks, NumTiles, endTriangle)
      BY <1>0, <1>1, <2>2
    <3>3. SpuAt(Chunks, NumTiles, endTriangle, cache', spu[q], FALSE, DOMAIN buffer[q])
      BY <1>0, <1>1, <3>1, <3>2, SpareKeeps
    <3>4. spu'[q] = spu[q] /\ buffer'[q] = buffer[q] BY <1>0, <1>5, <2>2
    <3> QED BY <1>0, <1>2, <1>3, <1>4, <2>0, <3>3, <3>4 DEF SpuInv
  <2> QED BY <1>0, <2>1, <2>2
<1>9. ASSUME NEW q \in Spus, NEW w \in Spus, q # w PROVE Apart(Chunks, spu[q], spu[w])'
  <2>1. CASE q = p BY <1>0, <1>2, <1>5, <1>9, <2>1
  <2>2. CASE w = p
    <3>1. Apart(Chunks, s, spu[q]) BY <1>0, <1>9, <2>2
    <3>2. Apart(Chunks, spu[q], s) BY <1>0, <3>1 DEF Apart
    <3> QED BY <1>0, <1>2, <1>5, <1>9, <2>2, <3>2
  <2>3. CASE q # p /\ w # p BY <1>0, <1>2, <1>5, <1>9, <2>3 DEF RInv
  <2> QED BY <1>0, <2>1, <2>2, <2>3
<1> QED BY <1>0, <1>6, <1>7, <1>8, <1>9 DEF RInv

\* A step of p that leaves the line alone.
Leaves(p, s) ==
  /\ spu' = [spu EXCEPT ![p] = s]
  /\ s \in Locals(Chunks, NumTiles, endTriangle)
  /\ UNCHANGED <<triangles, cache>> /\ Tiles' = Tiles
  /\ resv' \in {resv, resv \cup {p}}
  /\ DOMAIN buffer' = Spus /\ \A q \in Spus \ {p} : buffer'[q] = buffer[q]
  /\ \A q \in Spus \ {p} : Apart(Chunks, s, spu[q])
  /\ SpuAt(Chunks, NumTiles, endTriangle, cache, s, p \in resv', DOMAIN buffer'[p])

LEMMA LeavesKeep == ASSUME RInv, NEW p \in Spus, NEW s, Leaves(p, s) PROVE RInv'
<1>0. /\ spu' = [spu EXCEPT ![p] = s]
      /\ s \in Locals(Chunks, NumTiles, endTriangle)
      /\ UNCHANGED <<triangles, cache>> /\ Tiles' = Tiles
      /\ resv' \in {resv, resv \cup {p}}
      /\ DOMAIN buffer' = Spus /\ \A q \in Spus \ {p} : buffer'[q] = buffer[q]
      /\ \A q \in Spus \ {p} : Apart(Chunks, s, spu[q])
      /\ SpuAt(Chunks, NumTiles, endTriangle, cache, s, p \in resv', DOMAIN buffer'[p])
  BY DEF Leaves
<1>1. spu \in [Spus -> Locals(Chunks, NumTiles, endTriangle)] BY <1>0 DEF RInv, Types
<1>2. Chunks' = Chunks BY <1>0 DEF Chunks
<1>3. NumTiles' = NumTiles BY <1>0 DEF NumTiles
<1>4. endTriangle' = endTriangle BY <1>0 DEF endTriangle
<1>5. spu'[p] = s /\ \A q \in Spus \ {p} : spu'[q] = spu[q] BY <1>0, <1>1
<1>6. Types'
  <2>1. LayoutInv' BY <1>0, <1>2 DEF RInv, Types, LayoutInv
  <2>2. triangles' \in Seq(Coverages[NumTiles']) /\ endTriangle' <= MaxTriangles
    BY <1>0, <1>3, <1>4 DEF RInv, Types
  <2>3. spu' \in [Spus -> Locals(Chunks', NumTiles', endTriangle')]
    BY <1>0, <1>1, <1>2, <1>3, <1>4
  <2>4. resv' \subseteq Spus /\ DOMAIN buffer' = Spus BY <1>0 DEF RInv, Types
  <2> QED BY <1>0, <2>1, <2>2, <2>3, <2>4 DEF Types
<1>7. GoodLine(Chunks, NumTiles, endTriangle, cache)' BY <1>0, <1>2, <1>3, <1>4 DEF RInv
<1>8. ASSUME NEW q \in Spus PROVE SpuInv(q)'
  <2>1. CASE q = p BY <1>0, <1>2, <1>3, <1>4, <1>5, <2>1 DEF SpuInv
  <2>2. CASE q # p
    <3>1. SpuAt(Chunks, NumTiles, endTriangle, cache, spu[q], q \in resv, DOMAIN buffer[q])
      BY <1>0 DEF RInv, SpuInv
    <3>2. spu'[q] = spu[q] /\ (q \in resv' <=> q \in resv) /\ buffer'[q] = buffer[q]
      BY <1>0, <1>5, <2>2
    <3>3. (q \in resv') = (q \in resv) BY <1>0, <3>2
    <3> QED BY <1>0, <1>2, <1>3, <1>4, <3>1, <3>2, <3>3 DEF SpuInv
  <2> QED BY <1>0, <2>1, <2>2
<1>9. ASSUME NEW q \in Spus, NEW w \in Spus, q # w PROVE Apart(Chunks, spu[q], spu[w])'
  <2>1. CASE q = p BY <1>0, <1>2, <1>5, <1>9, <2>1
  <2>2. CASE w = p
    <3>1. Apart(Chunks, s, spu[q]) BY <1>0, <1>9, <2>2
    <3>2. Apart(Chunks, spu[q], s) BY <1>0, <3>1 DEF Apart
    <3> QED BY <1>0, <1>2, <1>5, <1>9, <2>2, <3>2
  <2>3. CASE q # p /\ w # p BY <1>0, <1>2, <1>5, <1>9, <2>3 DEF RInv
  <2> QED BY <1>0, <2>1, <2>2, <2>3
<1> QED BY <1>0, <1>6, <1>7, <1>8, <1>9 DEF RInv

-----------------------------------------------------------------------------
(* Submit, Search, SplitLoad and SplitRetry.                               *)

LEMMA Submit_RInv == ASSUME RInv, Submit PROVE RInv'
<1>1. PICK cover \in Coverages[NumTiles] : triangles' = Append(triangles, cover) BY DEF Submit
<1>2. UNCHANGED <<cache, spu, buffer, pixels>> /\ resv' = {} /\ endTriangle < MaxTriangles BY DEF Submit
<1>3. Chunks' = Chunks /\ NumTiles' = NumTiles /\ Tiles' = Tiles
  BY <1>2 DEF Chunks, NumTiles, Tiles
<1>4. triangles \in Seq(Coverages[NumTiles]) BY DEF RInv, Types
<1>5. endTriangle' = endTriangle + 1 BY <1>1, <1>4 DEF endTriangle
<1>6. /\ Entries(Chunks) /\ NumTiles \in Nat /\ GoodLine(Chunks, NumTiles, endTriangle, cache)
      /\ spu \in [Spus -> Locals(Chunks, NumTiles, endTriangle)] /\ endTriangle \in Nat
  BY RingFacts DEF RInv, Types
<1>7. PICK K, M : K = endTriangle /\ M = K + 1 OBVIOUS
<1>8. K \in Nat /\ 0 .. K \subseteq 0 .. M BY <1>6, <1>7
<1>9. Locals(Chunks, NumTiles, K) \subseteq Locals(Chunks, NumTiles, M) BY <1>8 DEF Locals
<1>10. Types'
  <2>1. LayoutInv' BY <1>3 DEF RInv, Types, LayoutInv
  <2>2. triangles' \in Seq(Coverages[NumTiles']) BY <1>1, <1>3, <1>4
  <2>3. endTriangle' <= MaxTriangles BY <1>2, <1>5, <1>6, RenderChunksAssumption
  <2>4. spu' \in [Spus -> Locals(Chunks', NumTiles', endTriangle')]
    BY <1>2, <1>3, <1>5, <1>6, <1>7, <1>9
  <2>5. resv' \subseteq Spus /\ DOMAIN buffer' = Spus BY <1>2 DEF RInv, Types
  <2> QED BY <2>1, <2>2, <2>3, <2>4, <2>5 DEF Types
<1>11. GoodLine(Chunks, NumTiles, endTriangle, cache)'
  <2>1. Lines(Chunks, NumTiles, K) \subseteq Lines(Chunks, NumTiles, M) BY <1>8 DEF Lines
  <2>2. GoodLine(Chunks, NumTiles, M, cache) BY <1>6, <1>7, <2>1 DEF GoodLine
  <2> QED BY <1>2, <1>3, <1>5, <1>7, <2>2
<1>12. ASSUME NEW q \in Spus PROVE SpuInv(q)'
  <2>1. PICK z : z = spu[q] OBVIOUS
  <2>2. SpuAt(Chunks, NumTiles, K, cache, z, q \in resv, DOMAIN buffer[q])
    BY <1>7, <2>1 DEF RInv, SpuInv
  <2>3. OwnsChunk(Chunks, M, cache, z)
    <3>1. OwnsChunk(Chunks, K, cache, z) BY <2>2 DEF SpuAt
    <3>2. cache.chunkTriangle \in [Chunks -> 0 .. K] BY <1>7, RingFacts
    <3> QED BY <1>7, <1>8, <3>1, <3>2 DEF OwnsChunk
  <2>4. KnowsFree(cache, z, FALSE) BY <2>2 DEF SpuAt, KnowsFree
  <2>5. SpuAt(Chunks, NumTiles, M, cache, z, FALSE, DOMAIN buffer[q])
    BY <2>2, <2>3, <2>4 DEF SpuAt
  <2>6. (q \in resv') = FALSE BY <1>2
  <2>7. spu'[q] = z /\ buffer'[q] = buffer[q] /\ cache' = cache BY <1>2, <2>1
  <2> QED BY <1>3, <1>5, <1>7, <2>5, <2>6, <2>7 DEF SpuInv
<1>13. ASSUME NEW q \in Spus, NEW w \in Spus, q # w PROVE Apart(Chunks, spu[q], spu[w])'
  BY <1>2, <1>3, <1>13 DEF RInv
<1> QED BY <1>10, <1>11, <1>12, <1>13 DEF RInv

\* What Search finds for an SPU with locals s.
SearchDone(T, s, z) ==
  \/ /\ z = [s EXCEPT !.pc = "finish", !.chunkTriangle = s.endTriangle]
     /\ \A k \in s.chunkTriangle .. (s.endTriangle - 1) :
          T[k + 1] \cap (s.chunkStart .. s.chunkEnd) = {}
  \/ \E hit \in s.chunkTriangle .. (s.endTriangle - 1) :
       \E first \in s.chunkStart .. s.chunkEnd :
         /\ z = [s EXCEPT !.pc = "split_getllar", !.chunkTriangle = hit, !.firstTile = first]
         /\ \A k \in s.chunkTriangle .. (hit - 1) :
              T[k + 1] \cap (s.chunkStart .. s.chunkEnd) = {}
         /\ \A t \in s.chunkStart .. (first - 1) : t \notin T[hit + 1]

LEMMA Search_Step ==
  ASSUME RInv, NEW p \in Spus, Search(p)
  PROVE  \E z : /\ Leaves(p, z) /\ SearchDone(triangles, spu[p], z)
               /\ spu[p].pc = "search" /\ UNCHANGED <<buffer, pixels>>
<1>1. PICK s : s = spu[p] OBVIOUS
<1>0. PICK C, N, K : C = Chunks /\ N = NumTiles /\ K = endTriangle OBVIOUS
<1>2. s \in Locals(C, N, K) BY <1>0, <1>1 DEF RInv, Types
<1>3. SpuAt(C, N, K, cache, s, p \in resv, DOMAIN buffer[p]) BY <1>0, <1>1 DEF RInv, SpuInv
<1>4. s.pc = "search" /\ UNCHANGED <<triangles, cache, resv, buffer, pixels>>
  BY <1>1 DEF Search
<1>5. N \in Nat /\ K \in Nat BY <1>0, RingFacts
<1>6. PICK z :
        /\ spu' = [spu EXCEPT ![p] = z]
        /\ SearchDone(triangles, s, z)
  <2> DEFINE Touched(k) == triangles[k + 1] \cap (s.chunkStart .. s.chunkEnd)
             hits == {k \in s.chunkTriangle .. (s.endTriangle - 1) : Touched(k) # {}}
             hit == SmallestOf(hits)
  <2>1. CASE hits = {}
    <3>1. spu' = [spu EXCEPT ![p].pc = "finish", ![p].chunkTriangle = s.endTriangle]
      BY <1>1, <2>1 DEF Search
    <3>2. spu' = [spu EXCEPT ![p] = [s EXCEPT !.pc = "finish", !.chunkTriangle = s.endTriangle]]
      BY <1>1, <3>1
    <3>3. \A k \in s.chunkTriangle .. (s.endTriangle - 1) :
             triangles[k + 1] \cap (s.chunkStart .. s.chunkEnd) = {}
      BY <2>1
    <3>4. PICK z : z = [s EXCEPT !.pc = "finish", !.chunkTriangle = s.endTriangle] OBVIOUS
    <3>5. SearchDone(triangles, s, z) BY <3>3, <3>4 DEF SearchDone
    <3> QED BY <3>2, <3>4, <3>5
  <2>2. CASE hits # {}
    <3>1. spu' = [spu EXCEPT ![p].pc = "split_getllar", ![p].chunkTriangle = hit,
                             ![p].firstTile = SmallestOf(Touched(hit))]
      BY <1>1, <2>2 DEF Search
    <3>2. hit \in hits /\ \A k \in hits : hit <= k
      <4>1. s.chunkTriangle \in Nat BY <1>2 DEF Locals
      <4>2. hits \subseteq Nat BY <4>1
      <4> QED BY <2>2, <4>2, SmallestIs
    <3>3. /\ SmallestOf(Touched(hit)) \in Touched(hit)
          /\ \A t \in Touched(hit) : SmallestOf(Touched(hit)) <= t
      <4>1. s.chunkStart \in Nat BY <1>2 DEF Locals
      <4>2. Touched(hit) \subseteq Nat BY <4>1
      <4>3. Touched(hit) # {} BY <3>2
      <4> QED BY <4>2, <4>3, SmallestIs
    <3>4. PICK h, f : h = hit /\ f = SmallestOf(Touched(hit)) OBVIOUS
    <3>5. h \in s.chunkTriangle .. (s.endTriangle - 1) /\ f \in s.chunkStart .. s.chunkEnd
      BY <3>2, <3>3, <3>4
    <3>6. spu' = [spu EXCEPT ![p] = [s EXCEPT !.pc = "split_getllar", !.chunkTriangle = h,
                                             !.firstTile = f]]
      BY <1>1, <3>1, <3>4
    <3>7. \A k \in s.chunkTriangle .. (h - 1) :
             triangles[k + 1] \cap (s.chunkStart .. s.chunkEnd) = {}
      <4> SUFFICES ASSUME NEW k \in s.chunkTriangle .. (h - 1), Touched(k) # {} PROVE FALSE
        OBVIOUS
      <4>1. s.chunkTriangle \in Nat /\ s.endTriangle \in Nat BY <1>2 DEF Locals
      <4>2. k \in s.chunkTriangle .. (s.endTriangle - 1) /\ ~(h <= k) BY <3>5, <4>1
      <4>3. k \in hits BY <4>2
      <4> QED BY <3>2, <3>4, <4>2, <4>3
    <3>8. \A t \in s.chunkStart .. (f - 1) : t \notin triangles[h + 1]
      <4> SUFFICES ASSUME NEW t \in s.chunkStart .. (f - 1), t \in triangles[h + 1] PROVE FALSE
        OBVIOUS
      <4>1. s.chunkStart \in Nat /\ s.chunkEnd \in Nat BY <1>2 DEF Locals
      <4>2. t \in s.chunkStart .. s.chunkEnd /\ ~(f <= t) BY <3>5, <4>1
      <4>3. t \in Touched(hit) BY <3>4, <4>2
      <4> QED BY <3>3, <3>4, <4>2, <4>3
    <3>9. PICK z : z = [s EXCEPT !.pc = "split_getllar", !.chunkTriangle = h, !.firstTile = f] OBVIOUS
    <3>10. SearchDone(triangles, s, z) BY <3>5, <3>7, <3>8, <3>9 DEF SearchDone
    <3> QED BY <3>6, <3>9, <3>10
  <2> QED BY <2>1, <2>2
<1>7. /\ z.chunkToProcess = s.chunkToProcess /\ z.chunkNext = s.chunkNext
      /\ z.chunkStart = s.chunkStart /\ z.chunkEnd = s.chunkEnd /\ z.freeChunk = s.freeChunk
      /\ z.endTriangle = s.endTriangle
      /\ z \in Locals(C, N, K)
      /\ \/ z.pc = "finish"
         \/ z.pc = "split_getllar" /\ z.chunkTriangle < z.endTriangle /\ z.firstTile \in z.chunkStart .. z.chunkEnd
  <2>1. CASE z = [s EXCEPT !.pc = "finish", !.chunkTriangle = s.endTriangle]
    BY <1>2, <2>1 DEF Locals, Steps
  <2>2. CASE \E hit \in s.chunkTriangle .. (s.endTriangle - 1) :
               \E first \in s.chunkStart .. s.chunkEnd :
                 z = [s EXCEPT !.pc = "split_getllar", !.chunkTriangle = hit, !.firstTile = first]
    <3>1. PICK hit \in s.chunkTriangle .. (s.endTriangle - 1), first \in s.chunkStart .. s.chunkEnd :
             z = [s EXCEPT !.pc = "split_getllar", !.chunkTriangle = hit, !.firstTile = first]
      BY <2>2
    <3>2. hit \in 0 .. K /\ first \in 0 .. (N - 1) /\ hit < s.endTriangle BY <1>2, <1>5 DEF Locals
    <3> QED BY <1>2, <3>1, <3>2 DEF Locals, Steps
  <2> QED BY <1>6, <2>1, <2>2 DEF SearchDone
<1>8. SpuAt(C, N, K, cache, z, p \in resv', DOMAIN buffer'[p])
  <2>1. OwnsChunk(C, K, cache, z) BY <1>3, <1>4, <1>7 DEF SpuAt, OwnsChunk
  <2>2. KnowsChunk(N, cache, z) BY <1>3, <1>4, <1>7 DEF SpuAt, KnowsChunk, Splitting
  <2>3. KnowsFree(cache, z, p \in resv') BY <1>7 DEF KnowsFree
  <2>4. KnowsBlock(N, cache, z) BY <1>7 DEF KnowsBlock, Drawing
  <2>5. KeepsEntry(C, cache, z) BY <1>3, <1>4, <1>7 DEF SpuAt, KeepsEntry, HoldsEntry
  <2>6. DOMAIN buffer'[p] \subseteq Block(z)
    BY <1>3, <1>4, <1>7 DEF SpuAt, Block, Drawing
  <2> QED BY <2>1, <2>2, <2>3, <2>4, <2>5, <2>6 DEF SpuAt
<1>9. ASSUME NEW q \in Spus \ {p} PROVE Apart(C, z, spu[q])
  <2>1. Apart(C, s, spu[q]) BY <1>0, <1>1 DEF RInv
  <2> QED BY <1>4, <1>7, <2>1 DEF Apart, HoldsEntry
<1>10. DOMAIN buffer' = Spus /\ \A q \in Spus \ {p} : buffer'[q] = buffer[q]
  BY <1>4 DEF RInv, Types
<1>11. Tiles' = Tiles /\ UNCHANGED <<triangles, cache>> BY <1>4 DEF Tiles
<1>12. resv' \in {resv, resv \cup {p}} BY <1>4
<1>13. Leaves(p, z)
  BY <1>0, <1>6, <1>7, <1>8, <1>9, <1>10, <1>11, <1>12 DEF Leaves
<1> QED BY <1>1, <1>4, <1>6, <1>13

\* The locals of a split that only the choice of entries changes.
Reloaded(s, z) ==
  /\ z.chunkToProcess = s.chunkToProcess /\ z.chunkNext = s.chunkNext
  /\ z.chunkStart = s.chunkStart /\ z.chunkEnd = s.chunkEnd /\ z.firstTile = s.firstTile
  /\ z.endTriangle = s.endTriangle /\ z.chunkTriangle = s.chunkTriangle
  /\ s.pc \in Splitting /\ z.pc \in Splitting

LEMMA SplitLoad_Step ==
  ASSUME RInv, NEW p \in Spus, SplitLoad(p)
  PROVE  \E z : /\ Leaves(p, z) /\ Reloaded(spu[p], z) /\ UNCHANGED <<buffer, pixels>>
               /\ resv' = resv \cup {p} /\ spu[p].pc = "split_getllar" /\ z.pc = "split_putllc"
               /\ IF spu[p].freeChunk = NoChunk
                  THEN /\ ~z.claimed /\ z.freeChunk = FirstChunk(FreeChunks(cache))
                  ELSE /\ z.claimed /\ z.freeChunk = spu[p].freeChunk
<1>1. PICK s : s = spu[p] OBVIOUS
<1>0. PICK C, N, K : C = Chunks /\ N = NumTiles /\ K = endTriangle OBVIOUS
<1>2. s \in Locals(C, N, K) BY <1>0, <1>1 DEF RInv, Types
<1>3. SpuAt(C, N, K, cache, s, p \in resv, DOMAIN buffer[p]) BY <1>0, <1>1 DEF RInv, SpuInv
<1>4. s.pc = "split_getllar" /\ UNCHANGED <<triangles, cache, buffer, pixels>> /\ resv' = resv \cup {p}
  BY <1>1 DEF SplitLoad
<1>5. PICK free, first, second : /\ free = FreeChunks(cache) /\ first = FirstChunk(free)
                                 /\ second = FirstChunk(free \ {first})
  OBVIOUS
<1>6. /\ first \in free \/ (first = NoChunk /\ free = {})
      /\ second \in free \ {first} \/ second = NoChunk
      /\ free \subseteq C /\ \A e \in free : cache.chunkNext[e] = CHUNKNEXT_FREE_BLOCK
  <2>1. free \subseteq C /\ \A e \in free : cache.chunkNext[e] = CHUNKNEXT_FREE_BLOCK
    BY <1>0, <1>5 DEF FreeChunks
  <2>2. C \subseteq Nat
    <3>1. \A c \in C : c \in Nat BY <1>0, RingFacts, LinkFacts
    <3> QED BY <3>1
  <2>3. free \subseteq Nat /\ free \ {first} \subseteq Nat BY <2>1, <2>2
  <2>4. first \in free \/ (first = NoChunk /\ free = {})
    BY <1>5, <2>3, SmallestIs DEF FirstChunk
  <2>5. second \in free \ {first} \/ second = NoChunk
    BY <1>5, <2>3, SmallestIs DEF FirstChunk
  <2> QED BY <2>1, <2>4, <2>5
<1>n. NoChunk \notin C
  <2>1. \A c \in C : c # NoChunk BY <1>0, RingFacts, LinkFacts
  <2> QED BY <2>1
<1>7. PICK z :
        /\ spu' = [spu EXCEPT ![p] = z]
        /\ \/ /\ s.freeChunk = NoChunk
              /\ z = [s EXCEPT !.pc = "split_putllc", !.claimed = FALSE,
                               !.freeChunk = first, !.freeChunk2 = second]
           \/ /\ s.freeChunk # NoChunk
              /\ z = [s EXCEPT !.pc = "split_putllc", !.claimed = TRUE, !.freeChunk2 = first]
  <2>1. CASE s.freeChunk = NoChunk
    <3>1. spu' = [spu EXCEPT ![p].pc = "split_putllc", ![p].claimed = FALSE,
                             ![p].freeChunk = first, ![p].freeChunk2 = second]
      BY <1>1, <1>5, <2>1 DEF SplitLoad
    <3>2. spu' = [spu EXCEPT ![p] = [s EXCEPT !.pc = "split_putllc", !.claimed = FALSE,
                                             !.freeChunk = first, !.freeChunk2 = second]]
      BY <1>1, <3>1
    <3> QED BY <2>1, <3>2
  <2>2. CASE s.freeChunk # NoChunk
    <3>1. spu' = [spu EXCEPT ![p].pc = "split_putllc", ![p].claimed = TRUE, ![p].freeChunk2 = first]
      BY <1>1, <1>5, <2>2 DEF SplitLoad
    <3>2. spu' = [spu EXCEPT ![p] = [s EXCEPT !.pc = "split_putllc", !.claimed = TRUE,
                                             !.freeChunk2 = first]]
      BY <1>1, <3>1
    <3> QED BY <2>2, <3>2
  <2> QED BY <2>1, <2>2
<1>8. /\ z.chunkToProcess = s.chunkToProcess /\ z.chunkNext = s.chunkNext
      /\ z.chunkStart = s.chunkStart /\ z.chunkEnd = s.chunkEnd /\ z.firstTile = s.firstTile
      /\ z.endTriangle = s.endTriangle /\ z.chunkTriangle = s.chunkTriangle
      /\ z.pc = "split_putllc"
      /\ \/ ~z.claimed /\ z.freeChunk = first /\ z.freeChunk2 = second
         \/ z.claimed /\ z.freeChunk = s.freeChunk /\ s.freeChunk # NoChunk /\ z.freeChunk2 = first
      /\ z \in Locals(C, N, K)
  <2>0. first \in C \cup {NoChunk} /\ second \in C \cup {NoChunk} BY <1>6
  <2>1. CASE z = [s EXCEPT !.pc = "split_putllc", !.claimed = FALSE,
                           !.freeChunk = first, !.freeChunk2 = second]
    BY <1>2, <2>0, <2>1 DEF Locals, Steps
  <2>2. CASE /\ s.freeChunk # NoChunk
             /\ z = [s EXCEPT !.pc = "split_putllc", !.claimed = TRUE, !.freeChunk2 = first]
    BY <1>2, <2>0, <2>2 DEF Locals, Steps
  <2> QED BY <1>7, <2>1, <2>2
<1>9. SpuAt(C, N, K, cache, z, p \in resv', DOMAIN buffer'[p])
  <2>1. OwnsChunk(C, K, cache, z) BY <1>3, <1>4, <1>8 DEF SpuAt, OwnsChunk
  <2>2. KnowsChunk(N, cache, z) BY <1>3, <1>4, <1>8 DEF SpuAt, KnowsChunk, Splitting
  <2>3. KnowsFree(cache, z, p \in resv') BY <1>6, <1>8, <1>n DEF KnowsFree
  <2>4. KnowsBlock(N, cache, z) BY <1>8 DEF KnowsBlock, Drawing
  <2>5. KeepsEntry(C, cache, z) BY <1>8 DEF KeepsEntry, HoldsEntry
  <2>6. DOMAIN buffer'[p] \subseteq Block(z)
    BY <1>3, <1>4, <1>8 DEF SpuAt, Block, Drawing
  <2> QED BY <2>1, <2>2, <2>3, <2>4, <2>5, <2>6 DEF SpuAt
<1>10. ASSUME NEW q \in Spus \ {p} PROVE Apart(C, z, spu[q])
  <2>1. Apart(C, s, spu[q]) BY <1>0, <1>1 DEF RInv
  <2> QED BY <1>4, <1>8, <2>1 DEF Apart, HoldsEntry
<1>11. DOMAIN buffer' = Spus /\ \A q \in Spus \ {p} : buffer'[q] = buffer[q]
  BY <1>4 DEF RInv, Types
<1>12. Tiles' = Tiles /\ UNCHANGED <<triangles, cache>> BY <1>4 DEF Tiles
<1>13. resv' \in {resv, resv \cup {p}} BY <1>4
<1>14. Leaves(p, z)
  BY <1>0, <1>7, <1>8, <1>9, <1>10, <1>11, <1>12, <1>13 DEF Leaves
<1>15. IF s.freeChunk = NoChunk THEN ~z.claimed /\ z.freeChunk = FirstChunk(FreeChunks(cache))
       ELSE z.claimed /\ z.freeChunk = s.freeChunk
  BY <1>2, <1>5, <1>7 DEF Locals
<1>16. Reloaded(s, z) BY <1>4, <1>8 DEF Reloaded, Splitting
<1> QED BY <1>1, <1>4, <1>8, <1>14, <1>15, <1>16

LEMMA SplitRetry_Step ==
  ASSUME RInv, NEW p \in Spus, SplitRetry(p)
  PROVE  \E z : /\ Leaves(p, z) /\ Reloaded(spu[p], z) /\ UNCHANGED <<buffer, pixels>>
               /\ z.pc = "split_getllar" /\ z.freeChunk = spu[p].freeChunk
<1>1. PICK s : s = spu[p] OBVIOUS
<1>0. PICK C, N, K : C = Chunks /\ N = NumTiles /\ K = endTriangle OBVIOUS
<1>2. s \in Locals(C, N, K) BY <1>0, <1>1 DEF RInv, Types
<1>3. SpuAt(C, N, K, cache, s, p \in resv, DOMAIN buffer[p]) BY <1>0, <1>1 DEF RInv, SpuInv
<1>4. s.pc = "split_putllc" /\ UNCHANGED <<triangles, cache, resv, buffer, pixels>>
  BY <1>1 DEF SplitRetry
<1>5. PICK z : z = [s EXCEPT !.pc = "split_getllar", !.freeChunk2 = NoChunk, !.claimed = FALSE]
  OBVIOUS
<1>6. spu' = [spu EXCEPT ![p] = z] BY <1>1, <1>5 DEF SplitRetry
<1>7. /\ z.chunkToProcess = s.chunkToProcess /\ z.chunkNext = s.chunkNext
      /\ z.chunkStart = s.chunkStart /\ z.chunkEnd = s.chunkEnd /\ z.firstTile = s.firstTile
      /\ z.endTriangle = s.endTriangle /\ z.chunkTriangle = s.chunkTriangle
      /\ z.pc = "split_getllar" /\ z.freeChunk = s.freeChunk
      /\ z \in Locals(C, N, K)
  BY <1>2, <1>5 DEF Locals, Steps
<1>8. SpuAt(C, N, K, cache, z, p \in resv', DOMAIN buffer'[p])
  <2>1. OwnsChunk(C, K, cache, z) BY <1>3, <1>4, <1>7 DEF SpuAt, OwnsChunk
  <2>2. KnowsChunk(N, cache, z) BY <1>3, <1>4, <1>7 DEF SpuAt, KnowsChunk, Splitting
  <2>3. KnowsFree(cache, z, p \in resv') BY <1>7 DEF KnowsFree
  <2>4. KnowsBlock(N, cache, z) BY <1>7 DEF KnowsBlock, Drawing
  <2>5. KeepsEntry(C, cache, z) BY <1>7 DEF KeepsEntry, HoldsEntry
  <2>6. DOMAIN buffer'[p] \subseteq Block(z)
    BY <1>3, <1>4, <1>7 DEF SpuAt, Block, Drawing
  <2> QED BY <2>1, <2>2, <2>3, <2>4, <2>5, <2>6 DEF SpuAt
<1>9. ASSUME NEW q \in Spus \ {p} PROVE Apart(C, z, spu[q])
  <2>1. Apart(C, s, spu[q]) BY <1>0, <1>1 DEF RInv
  <2> QED BY <1>4, <1>7, <2>1 DEF Apart, HoldsEntry
<1>10. DOMAIN buffer' = Spus /\ \A q \in Spus \ {p} : buffer'[q] = buffer[q]
  BY <1>4 DEF RInv, Types
<1>11. Tiles' = Tiles /\ UNCHANGED <<triangles, cache>> BY <1>4 DEF Tiles
<1>12. resv' \in {resv, resv \cup {p}} BY <1>4
<1>13. Leaves(p, z)
  BY <1>0, <1>6, <1>7, <1>8, <1>9, <1>10, <1>11, <1>12 DEF Leaves
<1>14. Reloaded(s, z) BY <1>4, <1>7 DEF Reloaded, Splitting
<1> QED BY <1>1, <1>4, <1>7, <1>13, <1>14

-----------------------------------------------------------------------------
(* Claim, Relinquish and Finish.                                           *)

LEMMA IdleFits ==
  ASSUME NEW C, Entries(C), NEW N \in Nat, N > 0, NEW K \in Nat
  PROVE  /\ Idle \in Locals(C, N, K)
         /\ \A l : SpuAt(C, N, K, l, Idle, FALSE, {})
        /\ \A z : Apart(C, Idle, z)
<1>1. 0 \in C BY DEF Entries
<1>2. Idle \in Locals(C, N, K) BY <1>1 DEF Idle, Locals, Steps
<1>3. Idle.pc = "idle" BY DEF Idle
<1>4. ASSUME NEW l PROVE SpuAt(C, N, K, l, Idle, FALSE, {})
  BY <1>3 DEF SpuAt, OwnsChunk, KnowsChunk, KnowsFree, KnowsBlock, KeepsEntry, Block,
              HoldsEntry, Splitting, Drawing
<1>5. ASSUME NEW z PROVE Apart(C, Idle, z) BY <1>3 DEF HoldsEntry, Apart
<1> QED BY <1>2, <1>4, <1>5

\* A claim of chunk c, with the entry e reserved or NoChunk.
ClaimDone(C, N, K, l, m, c, e, z) ==
  /\ c \in C /\ l.chunkNext[c] < 32 /\ m.chunkNext[c] = l.chunkNext[c] + 32
  /\ m.chunkStart = l.chunkStart
  /\ \A d \in C \ {c, e} : m.chunkNext[d] = l.chunkNext[d]
  /\ \A d \in C \ {e} : m.chunkTriangle[d] = l.chunkTriangle[d]
  /\ e # NoChunk => e \in C /\ l.chunkNext[e] = 255 /\ m.chunkNext[e] = 254
  /\ c # e
  /\ z.pc = "search" /\ z.chunkToProcess = c /\ z.freeChunk = e
  /\ z.chunkStart = l.chunkStart[c] /\ z.chunkEnd = Ends(N, l, c)
  /\ Ends(N, m, c) = Ends(N, l, c)
  /\ z.chunkTriangle = l.chunkTriangle[c]
  /\ e = IF 1 + z.chunkEnd - z.chunkStart <= TilesPerChunk THEN NoChunk
         ELSE FirstChunk({d \in C : l.chunkNext[d] = 255})

LEMMA Claim_Step ==
  ASSUME RInv, NEW p \in Spus, Claim(p)
  PROVE  \E c, e, z : /\ Writes(p, z)
                     /\ ClaimDone(Chunks, NumTiles, endTriangle, cache, cache', c, e, z)
                     /\ spu[p].pc = "idle"
<1>0. PICK C, N, K, l, m : C = Chunks /\ N = NumTiles /\ K = endTriangle /\ l = cache /\ m = cache'
  OBVIOUS
<1>l. /\ Entries(C) /\ N \in Nat /\ N > 0 /\ K \in Nat /\ GoodLine(C, N, K, l)
      /\ l.chunkTriangle \in [C -> 0 .. K]
      /\ l.chunkStart \in [C -> (0 .. (N - 1)) \cup {NoStart}]
      /\ l.chunkNext \in [C -> Links(C)]
      /\ l = [chunkTriangle |-> l.chunkTriangle, chunkStart |-> l.chunkStart, chunkNext |-> l.chunkNext]
  BY <1>0, RingFacts
<1>a. /\ \A x \in Links(C) : x < 32 => x \in C /\ NextOf(x) = x
      /\ \A d \in C : d \in Nat /\ d < 32 /\ d + 32 < 64 /\ NextOf(d) = d /\ NextOf(d + 32) = d /\ d # NoChunk
  BY <1>l, LinkFacts
<1>1. spu[p].pc = "idle" /\ resv' = {} /\ UNCHANGED <<triangles, buffer, pixels>> BY DEF Claim
<1>c. PICK c : c = SmallestOf(IF Short = {} THEN Processable ELSE Short) OBVIOUS
<1>f. PICK free : free = IF ChunkLength(cache, c) <= TilesPerChunk THEN NoChunk
                         ELSE FirstChunk(FreeChunks(cache))
  OBVIOUS
<1>2. /\ c \in Processable
      /\ free \in FreeChunks(cache) \cup {NoChunk}
      /\ free = IF ChunkLength(cache, c) <= TilesPerChunk THEN NoChunk
                ELSE FirstChunk(FreeChunks(cache))
      /\ spu' = [spu EXCEPT ![p] =
                   [Idle EXCEPT !.pc = "search",
                                !.chunkToProcess = c,
                                !.chunkStart = cache.chunkStart[c],
                                !.chunkEnd = ChunkEnd(cache, c),
                                !.chunkNext = cache.chunkNext[c],
                                !.chunkTriangle = cache.chunkTriangle[c],
                                !.endTriangle = endTriangle,
                                !.freeChunk = free]]
      /\ cache' = IF free = NoChunk THEN [cache EXCEPT !.chunkNext[c] = @ + CHUNKNEXT_BUSY_BIT]
                  ELSE [cache EXCEPT !.chunkNext[c] = @ + CHUNKNEXT_BUSY_BIT,
                                     !.chunkNext[free] = CHUNKNEXT_RESERVED,
                                     !.chunkTriangle[free] = cache.chunkTriangle[c]]
  <2>3. c \in Processable
    <3>1. Processable \subseteq Nat /\ Short \subseteq Processable
      BY <1>0, <1>a DEF Processable, Short
    <3>2. Processable # {} BY DEF Claim
    <3>3. CASE Short = {} BY <1>c, <3>1, <3>2, <3>3, SmallestIs
    <3>4. CASE Short # {}
      <4>1. Short \subseteq Nat BY <3>1
      <4>2. c \in Short BY <1>c, <3>4, <4>1, SmallestIs
      <4> QED BY <3>1, <4>2
    <3> QED BY <3>3, <3>4
  <2>4. free \in FreeChunks(cache) \cup {NoChunk}
    <3>1. FreeChunks(cache) \subseteq Nat BY <1>0, <1>a DEF FreeChunks
    <3> QED BY <1>f, <3>1, SmallestIs DEF FirstChunk
  <2>5. spu' = [spu EXCEPT ![p] =
                     [Idle EXCEPT !.pc = "search",
                                  !.chunkToProcess = c,
                                  !.chunkStart = cache.chunkStart[c],
                                  !.chunkEnd = ChunkEnd(cache, c),
                                  !.chunkNext = cache.chunkNext[c],
                                  !.chunkTriangle = cache.chunkTriangle[c],
                                  !.endTriangle = endTriangle,
                                  !.freeChunk = free]]
    BY <1>c, <1>f DEF Claim
  <2>6. cache' = IF free = NoChunk THEN [cache EXCEPT !.chunkNext[c] = @ + CHUNKNEXT_BUSY_BIT]
                 ELSE [[cache EXCEPT !.chunkNext[c] = @ + CHUNKNEXT_BUSY_BIT]
                         EXCEPT !.chunkNext[free] = CHUNKNEXT_RESERVED,
                                !.chunkTriangle[free] = cache.chunkTriangle[c]]
    BY <1>c, <1>f DEF Claim
  <2> QED BY <1>f, <2>3, <2>4, <2>5, <2>6
<1>3. /\ c \in C /\ l.chunkNext[c] < 32 /\ l.chunkNext[c] \in C /\ l.chunkTriangle[c] < K
      /\ free # NoChunk => free \in C /\ l.chunkNext[free] = 255 /\ free # c
  <2>1. c \in C /\ l.chunkNext[c] < 32 /\ l.chunkTriangle[c] # K
    BY <1>0, <1>2 DEF Processable, Live, CHUNKNEXT_BUSY_BIT
  <2>2. l.chunkNext[c] \in C /\ l.chunkTriangle[c] < K BY <1>l, <1>a, <2>1
  <2>3. free # NoChunk => free \in C /\ l.chunkNext[free] = 255
    BY <1>0, <1>2 DEF FreeChunks, CHUNKNEXT_FREE_BLOCK
  <2> QED BY <2>1, <2>2, <2>3
<1>4. /\ m = [chunkTriangle |-> m.chunkTriangle, chunkStart |-> l.chunkStart, chunkNext |-> m.chunkNext]
      /\ m.chunkStart = l.chunkStart
      /\ m.chunkNext \in [C -> Links(C)]
      /\ m.chunkTriangle \in [C -> 0 .. K]
      /\ m.chunkNext[c] = l.chunkNext[c] + 32
      /\ free # NoChunk => m.chunkNext[free] = 254
      /\ \A d \in C \ {c, free} : m.chunkNext[d] = l.chunkNext[d]
      /\ \A d \in C \ {free} : m.chunkTriangle[d] = l.chunkTriangle[d]
  <2>1. l.chunkNext[c] + 32 \in Links(C) /\ 254 \in Links(C)
    BY <1>3 DEF Links, CHUNKNEXT_BUSY_BIT, CHUNKNEXT_RESERVED
  <2>2. CASE free = NoChunk
    <3>1. m = [l EXCEPT !.chunkNext[c] = @ + 32] BY <1>0, <1>2, <2>2 DEF CHUNKNEXT_BUSY_BIT
    <3> QED BY <1>l, <1>3, <2>1, <2>2, <3>1
  <2>3. CASE free # NoChunk
    <3>1. m = [l EXCEPT !.chunkNext[c] = @ + 32, !.chunkNext[free] = 254,
                        !.chunkTriangle[free] = l.chunkTriangle[c]]
      BY <1>0, <1>2, <2>3 DEF CHUNKNEXT_BUSY_BIT, CHUNKNEXT_RESERVED
    <3>2. m = [chunkTriangle |-> [l.chunkTriangle EXCEPT ![free] = l.chunkTriangle[c]],
               chunkStart |-> l.chunkStart,
               chunkNext |-> [[l.chunkNext EXCEPT ![c] = l.chunkNext[c] + 32] EXCEPT ![free] = 254]]
      BY <1>l, <3>1
    <3>3. free \in C /\ free # c BY <1>3, <2>3
    <3> QED BY <1>l, <1>3, <2>1, <3>2, <3>3
  <2> QED BY <2>2, <2>3
<1>5. GoodLine(C, N, K, m)
  <2>1. m \in Lines(C, N, K) BY <1>l, <1>4 DEF Lines
  <2>2. \A d \in C : l.chunkNext[d] < 64 =>
           /\ m.chunkNext[d] < 64 /\ NextOf(m.chunkNext[d]) = NextOf(l.chunkNext[d])
           /\ m.chunkStart[d] = l.chunkStart[d]
    BY <1>3, <1>4, <1>a
  <2>3. \A d \in C : m.chunkNext[d] < 64 => l.chunkNext[d] < 64 BY <1>3, <1>4, <1>a
  <2> QED BY <1>l, <2>1, <2>2, <2>3, LineSame
<1>6. PICK z : z = [Idle EXCEPT !.pc = "search",
                                  !.chunkToProcess = c,
                                  !.chunkStart = cache.chunkStart[c],
                                  !.chunkEnd = ChunkEnd(cache, c),
                                  !.chunkNext = cache.chunkNext[c],
                                  !.chunkTriangle = cache.chunkTriangle[c],
                                  !.endTriangle = endTriangle,
                                  !.freeChunk = free]
  OBVIOUS
<1>7. /\ z.pc = "search" /\ z.chunkToProcess = c /\ z.chunkStart = l.chunkStart[c]
      /\ z.chunkEnd = Ends(N, l, c) /\ z.chunkNext = l.chunkNext[c]
      /\ z.chunkTriangle = l.chunkTriangle[c] /\ z.endTriangle = K /\ z.freeChunk = free
      /\ z.freeChunk2 = NoChunk /\ z.claimed = FALSE
      /\ z.firstTile = 0 /\ z.thisBlockStart = 0 /\ z.realBlockStart = 0
      /\ z = [pc |-> z.pc, chunkToProcess |-> z.chunkToProcess, chunkStart |-> z.chunkStart,
              chunkEnd |-> z.chunkEnd, chunkNext |-> z.chunkNext, chunkTriangle |-> z.chunkTriangle,
              endTriangle |-> z.endTriangle, freeChunk |-> z.freeChunk, freeChunk2 |-> z.freeChunk2,
              claimed |-> z.claimed, firstTile |-> z.firstTile,
              thisBlockStart |-> z.thisBlockStart, realBlockStart |-> z.realBlockStart]
  <2>1. Ends(N, l, c) = ChunkEnd(cache, c) BY <1>0 DEF Ends, EndOf, ChunkEnd
  <2> QED BY <1>0, <1>6, <2>1 DEF Idle
<1>8. l.chunkStart[c] \in 0 .. (N - 1) /\ Ends(N, l, c) \in 0 .. (N - 1)
  <2>1. PICK R, nxt : R = Ring(C, l.chunkNext) /\ nxt = Successors(C, l.chunkNext) OBVIOUS
  <2>2. c \in R /\ IsCycle(R, N, l.chunkStart, nxt) /\ nxt[c] = NextOf(l.chunkNext[c])
    BY <1>l, <1>3, <1>a, <2>1 DEF GoodLine, IsRing, Ring, Successors, CHUNKNEXT_BUSY_BIT
  <2>3. IsChunk(R, N, l.chunkStart, c, nxt[c]) BY <1>l, <2>2, ChunkIsSome
  <2> QED BY <2>2, <2>3 DEF IsChunk, Ends
<1>9. z \in Locals(C, N, K)
  <2>1. 0 \in 0 .. (N - 1) BY <1>l
  <2>2. l.chunkTriangle[c] \in 0 .. K /\ K \in 0 .. K BY <1>l, <1>3
  <2> QED BY <1>3, <1>7, <1>8, <2>1, <2>2 DEF Locals, Steps
<1>10. SpuAt(C, N, K, m, z, FALSE, DOMAIN buffer[p])
  <2>1. OwnsChunk(C, K, m, z)
    <3>1. c \in C \ {free} BY <1>3, <1>a
    <3>2. m.chunkTriangle[c] < K BY <1>3, <1>4, <3>1
    <3> QED BY <1>3, <1>4, <1>7, <3>2 DEF OwnsChunk, CHUNKNEXT_BUSY_BIT
  <2>2. KnowsChunk(N, m, z)
    <3>1. NextOf(m.chunkNext[c]) = NextOf(l.chunkNext[c]) BY <1>3, <1>4, <1>a
    <3>2. Ends(N, m, c) = Ends(N, l, c) BY <1>4, <3>1 DEF Ends
    <3> QED BY <1>3, <1>4, <1>7, <3>2 DEF KnowsChunk, Splitting
  <2>3. KnowsFree(m, z, FALSE) BY <1>7 DEF KnowsFree
  <2>4. KnowsBlock(N, m, z) BY <1>7 DEF KnowsBlock, Drawing
  <2>5. KeepsEntry(C, m, z) BY <1>4, <1>7, <1>a DEF KeepsEntry, HoldsEntry, CHUNKNEXT_RESERVED
  <2>6. DOMAIN buffer[p] \subseteq Block(z)
    <3>1. DOMAIN buffer[p] \subseteq Block(spu[p]) BY DEF RInv, SpuInv, SpuAt
    <3> QED BY <1>1, <3>1 DEF Block, Drawing
  <2> QED BY <2>1, <2>2, <2>3, <2>4, <2>5, <2>6 DEF SpuAt
<1>11. ASSUME NEW q \in Spus \ {p} PROVE Spares(C, l, m, spu[q]) /\ Apart(C, z, spu[q])
  <2>1. PICK w : w = spu[q] OBVIOUS
  <2>2. w \in Locals(C, N, K) /\ OwnsChunk(C, K, l, w) /\ KeepsEntry(C, l, w)
    BY <1>0, <2>1 DEF RInv, Types, SpuInv, SpuAt
  <2>3. w.pc # "idle" => w.chunkToProcess \in C \ {c, free}
    <3>1. w.chunkNext \in C BY <2>2 DEF Locals
    <3>2. w.chunkNext + 32 >= 32 /\ w.chunkNext + 32 < 64 BY <1>a, <3>1
    <3> QED BY <1>3, <1>a, <2>2, <3>2 DEF OwnsChunk, CHUNKNEXT_BUSY_BIT
  <2>4. \A e \in C : HoldsEntry(w, e) => e \in C \ {c, free}
    BY <1>3, <1>a, <2>2 DEF KeepsEntry, CHUNKNEXT_RESERVED
  <2>5. Spares(C, l, m, w) BY <1>4, <2>3, <2>4 DEF Spares
  <2>6. Apart(C, z, w) BY <1>7, <2>3, <2>4 DEF Apart, HoldsEntry
  <2> QED BY <2>1, <2>5, <2>6
<1>12. \A d \in C : l.chunkNext[d] < 64 /\ m.chunkNext[d] < 64 => m.chunkStart[d] = l.chunkStart[d]
  BY <1>4
<1>13. spu' = [spu EXCEPT ![p] = z] BY <1>2, <1>6
<1>14. Writes(p, z)
  BY <1>0, <1>1, <1>5, <1>9, <1>10, <1>11, <1>12, <1>13 DEF Writes
<1>15. ClaimDone(C, N, K, l, m, c, free, z)
  <2>1. c # free BY <1>3, <1>a
  <2>2. Ends(N, m, c) = Ends(N, l, c)
    <3>1. NextOf(m.chunkNext[c]) = NextOf(l.chunkNext[c]) BY <1>3, <1>4, <1>a
    <3> QED BY <1>4, <3>1 DEF Ends
  <2>3. free = IF 1 + z.chunkEnd - z.chunkStart <= TilesPerChunk THEN NoChunk
               ELSE FirstChunk({d \in C : l.chunkNext[d] = 255})
    <3>1. ChunkLength(cache, c) = 1 + z.chunkEnd - z.chunkStart
      BY <1>0, <1>7 DEF ChunkLength, ChunkEnd, Ends, EndOf
    <3>2. FreeChunks(cache) = {d \in C : l.chunkNext[d] = 255}
      BY <1>0 DEF FreeChunks, CHUNKNEXT_FREE_BLOCK
    <3> QED BY <1>2, <3>1, <3>2
  <2> QED BY <1>3, <1>4, <1>7, <2>1, <2>2, <2>3 DEF ClaimDone
<1> QED BY <1>0, <1>1, <1>14, <1>15

\* An idle chunk again, with the locals s gone.
GivenBack(C, N, l, m, s, k) ==
  /\ m.chunkStart = l.chunkStart
  /\ m.chunkNext[s.chunkToProcess] = s.chunkNext /\ m.chunkTriangle[s.chunkToProcess] = k
  /\ \A d \in C \ {s.chunkToProcess} : m.chunkTriangle[d] = l.chunkTriangle[d]
  /\ \A d \in C \ {s.chunkToProcess} : m.chunkNext[d] # 255 => m.chunkNext[d] = l.chunkNext[d]
  /\ \A d \in C \ {s.chunkToProcess} : d = s.freeChunk \/ m.chunkNext[d] = l.chunkNext[d]
  /\ Ends(N, m, s.chunkToProcess) = Ends(N, l, s.chunkToProcess)

LEMMA Relinquish_Step ==
  ASSUME RInv, NEW p \in Spus, Relinquish(p)
  PROVE  /\ Writes(p, Idle) /\ spu[p].pc = "split_putllc"
         /\ GivenBack(Chunks, NumTiles, cache, cache', spu[p],
                      cache.chunkTriangle[spu[p].chunkToProcess])
<1>0. PICK C, N, K, l, m : C = Chunks /\ N = NumTiles /\ K = endTriangle /\ l = cache /\ m = cache'
  OBVIOUS
<1>l. /\ Entries(C) /\ N \in Nat /\ N > 0 /\ K \in Nat /\ GoodLine(C, N, K, l)
      /\ l.chunkTriangle \in [C -> 0 .. K]
      /\ l.chunkStart \in [C -> (0 .. (N - 1)) \cup {NoStart}]
      /\ l.chunkNext \in [C -> Links(C)]
      /\ l = [chunkTriangle |-> l.chunkTriangle, chunkStart |-> l.chunkStart, chunkNext |-> l.chunkNext]
  BY <1>0, RingFacts
<1>a. \A d \in C : d \in Nat /\ d < 32 /\ d + 32 < 64 /\ NextOf(d) = d /\ NextOf(d + 32) = d
  BY <1>l, LinkFacts
<1>1. PICK s, c : s = spu[p] /\ c = s.chunkToProcess OBVIOUS
<1>2. /\ s.pc = "split_putllc" /\ resv' = {} /\ UNCHANGED <<triangles, buffer, pixels>>
      /\ spu' = [spu EXCEPT ![p] = Idle]
      /\ m = [l EXCEPT !.chunkNext[c] = s.chunkNext]
  BY <1>0, <1>1 DEF Relinquish
<1>3. s \in Locals(C, N, K) /\ OwnsChunk(C, K, l, s) BY <1>0, <1>1 DEF RInv, Types, SpuInv, SpuAt
<1>4. c \in C /\ s.chunkNext \in C /\ l.chunkNext[c] = s.chunkNext + 32
  BY <1>1, <1>2, <1>3 DEF Locals, OwnsChunk, CHUNKNEXT_BUSY_BIT
<1>5. /\ m \in Lines(C, N, K)
      /\ m.chunkStart = l.chunkStart /\ m.chunkTriangle = l.chunkTriangle
      /\ m.chunkNext[c] = s.chunkNext
      /\ \A d \in C \ {c} : m.chunkNext[d] = l.chunkNext[d]
  <2>1. s.chunkNext \in Links(C) BY <1>4 DEF Links
  <2> QED BY <1>l, <1>2, <1>4, <2>1 DEF Lines
<1>6. GoodLine(C, N, K, m)
  <2>1. NextOf(m.chunkNext[c]) = NextOf(l.chunkNext[c]) /\ m.chunkNext[c] < 64 /\ l.chunkNext[c] < 64
    BY <1>4, <1>5, <1>a
  <2>2. \A d \in C : l.chunkNext[d] < 64 =>
           /\ m.chunkNext[d] < 64 /\ NextOf(m.chunkNext[d]) = NextOf(l.chunkNext[d])
           /\ m.chunkStart[d] = l.chunkStart[d]
    BY <1>5, <2>1
  <2>3. \A d \in C : m.chunkNext[d] < 64 => l.chunkNext[d] < 64 BY <1>5, <2>1
  <2> QED BY <1>l, <1>5, <2>2, <2>3, LineSame
<1>7. ASSUME NEW q \in Spus \ {p} PROVE Spares(C, l, m, spu[q])
  <2>1. PICK w : w = spu[q] OBVIOUS
  <2>2. OwnsChunk(C, K, l, w) /\ KeepsEntry(C, l, w) /\ Apart(C, s, w)
    BY <1>0, <1>1, <2>1 DEF RInv, SpuInv, SpuAt
  <2>3. w.pc # "idle" => w.chunkToProcess \in C \ {c}
    BY <1>1, <1>2, <2>2 DEF OwnsChunk, Apart
  <2>4. \A e \in C : HoldsEntry(w, e) => e \in C \ {c}
    <3>1. l.chunkNext[c] # 254 BY <1>4, <1>a
    <3> QED BY <2>2, <3>1 DEF KeepsEntry, CHUNKNEXT_RESERVED
  <2> QED BY <1>5, <2>1, <2>3, <2>4 DEF Spares
<1>8. DOMAIN buffer[p] = {}
  <2>1. DOMAIN buffer[p] \subseteq Block(s) BY <1>1 DEF RInv, SpuInv, SpuAt
  <2> QED BY <1>2, <2>1 DEF Block, Drawing
<1>9. /\ Idle \in Locals(C, N, K) /\ SpuAt(C, N, K, m, Idle, FALSE, DOMAIN buffer[p])
      /\ \A q \in Spus : Apart(C, Idle, spu[q])
  <2>1. SpuAt(C, N, K, m, Idle, FALSE, {}) BY <1>l, IdleFits
  <2>2. Idle \in Locals(C, N, K) BY <1>l, IdleFits
  <2>3. \A q \in Spus : Apart(C, Idle, spu[q]) BY <1>l, IdleFits
  <2> QED BY <1>8, <2>1, <2>2, <2>3
<1>10. \A d \in C : l.chunkNext[d] < 64 /\ m.chunkNext[d] < 64 => m.chunkStart[d] = l.chunkStart[d]
  BY <1>5
<1>11. resv' = {} /\ UNCHANGED <<triangles, buffer, pixels>> /\ spu' = [spu EXCEPT ![p] = Idle]
  BY <1>2
<1>12. Writes(p, Idle) BY <1>0, <1>6, <1>7, <1>9, <1>10, <1>11 DEF Writes
<1>13. GivenBack(C, N, l, m, s, l.chunkTriangle[c])
  <2>1. Ends(N, m, c) = Ends(N, l, c)
    <3>1. NextOf(m.chunkNext[c]) = NextOf(l.chunkNext[c]) BY <1>4, <1>5, <1>a
    <3> QED BY <1>5, <3>1 DEF Ends
  <2> QED BY <1>1, <1>5, <2>1 DEF GivenBack
<1> QED BY <1>0, <1>1, <1>2, <1>12, <1>13

LEMMA Finish_Step ==
  ASSUME RInv, NEW p \in Spus, Finish(p)
  PROVE  /\ Writes(p, Idle) /\ spu[p].pc = "finish"
         /\ \E k : /\ GivenBack(Chunks, NumTiles, cache, k, spu[p], spu[p].chunkTriangle)
                  /\ GoodLine(Chunks, NumTiles, endTriangle, k)
                  /\ Merged(Chunks, NumTiles, k, cache')
<1>0. PICK C, N, K, l, m : C = Chunks /\ N = NumTiles /\ K = endTriangle /\ l = cache /\ m = cache'
  OBVIOUS
<1>l. /\ Entries(C) /\ N \in Nat /\ N > 0 /\ K \in Nat /\ GoodLine(C, N, K, l)
      /\ l.chunkTriangle \in [C -> 0 .. K]
      /\ l.chunkStart \in [C -> (0 .. (N - 1)) \cup {NoStart}]
      /\ l.chunkNext \in [C -> Links(C)]
      /\ l = [chunkTriangle |-> l.chunkTriangle, chunkStart |-> l.chunkStart, chunkNext |-> l.chunkNext]
  BY <1>0, RingFacts
<1>a. \A d \in C : d \in Nat /\ d < 32 /\ d + 32 >= 32 /\ d + 32 < 64 /\ NextOf(d) = d /\ NextOf(d + 32) = d
  BY <1>l, LinkFacts
<1>n. NoChunk \notin C
  <2>1. \A d \in C : d # NoChunk BY <1>l, LinkFacts
  <2> QED BY <2>1
<1>1. PICK s, c, e : s = spu[p] /\ c = s.chunkToProcess /\ e = s.freeChunk OBVIOUS
<1>2. PICK k :
        /\ s.pc = "finish" /\ resv' = {} /\ UNCHANGED <<triangles, buffer, pixels>>
        /\ spu' = [spu EXCEPT ![p] = Idle]
        /\ k = [Released(s) EXCEPT !.chunkNext[c] = s.chunkNext, !.chunkTriangle[c] = s.chunkTriangle]
        /\ m = merge_cache_blocks(k)
  BY <1>0, <1>1 DEF Finish
<1>3. s \in Locals(C, N, K) /\ OwnsChunk(C, K, l, s) /\ KeepsEntry(C, l, s)
  BY <1>0, <1>1 DEF RInv, Types, SpuInv, SpuAt
<1>4. /\ c \in C /\ s.chunkNext \in C /\ l.chunkNext[c] = s.chunkNext + 32 /\ s.chunkTriangle \in 0 .. K
      /\ e # NoChunk => e \in C /\ e # c /\ l.chunkNext[e] = 254
  <2>1. c \in C /\ s.chunkNext \in C /\ l.chunkNext[c] = s.chunkNext + 32 /\ s.chunkTriangle \in 0 .. K
    BY <1>1, <1>2, <1>3 DEF Locals, OwnsChunk, CHUNKNEXT_BUSY_BIT
  <2>2. e \in C \cup {NoChunk} BY <1>1, <1>3 DEF Locals
  <2>3. e # NoChunk => l.chunkNext[e] = 254
    BY <1>1, <1>2, <1>3, <2>2 DEF KeepsEntry, HoldsEntry, CHUNKNEXT_RESERVED
  <2>4. l.chunkNext[c] # 254 BY <1>a, <2>1
  <2> QED BY <2>1, <2>2, <2>3, <2>4
<1>5. /\ k \in Lines(C, N, K)
      /\ k.chunkStart = l.chunkStart
      /\ k.chunkTriangle = [l.chunkTriangle EXCEPT ![c] = s.chunkTriangle]
      /\ k.chunkNext[c] = s.chunkNext
      /\ e # NoChunk => k.chunkNext[e] = 255
      /\ \A d \in C \ {c, e} : k.chunkNext[d] = l.chunkNext[d]
  <2>1. s.chunkNext \in Links(C) /\ 255 \in Links(C) BY <1>4 DEF Links, CHUNKNEXT_FREE_BLOCK
  <2>2. CASE e = NoChunk
    <3>1. k = [l EXCEPT !.chunkNext[c] = s.chunkNext, !.chunkTriangle[c] = s.chunkTriangle]
      BY <1>0, <1>1, <1>2, <2>2 DEF Released
    <3>2. k = [chunkTriangle |-> [l.chunkTriangle EXCEPT ![c] = s.chunkTriangle],
               chunkStart |-> l.chunkStart,
               chunkNext |-> [l.chunkNext EXCEPT ![c] = s.chunkNext]]
      BY <1>l, <3>1
    <3> QED BY <1>l, <1>4, <2>1, <2>2, <3>2 DEF Lines
  <2>3. CASE e # NoChunk
    <3>1. k = [[l EXCEPT !.chunkNext[e] = 255]
                  EXCEPT !.chunkNext[c] = s.chunkNext, !.chunkTriangle[c] = s.chunkTriangle]
      BY <1>0, <1>1, <1>2, <2>3 DEF Released, CHUNKNEXT_FREE_BLOCK
    <3>2. k = [chunkTriangle |-> [l.chunkTriangle EXCEPT ![c] = s.chunkTriangle],
               chunkStart |-> l.chunkStart,
               chunkNext |-> [[l.chunkNext EXCEPT ![e] = 255] EXCEPT ![c] = s.chunkNext]]
      BY <1>l, <3>1
    <3> QED BY <1>l, <1>4, <2>1, <2>3, <3>2 DEF Lines
  <2> QED BY <2>2, <2>3
<1>6. GoodLine(C, N, K, k)
  <2>1. NextOf(k.chunkNext[c]) = NextOf(l.chunkNext[c]) /\ k.chunkNext[c] < 64 /\ l.chunkNext[c] < 64
    BY <1>4, <1>5, <1>a
  <2>2. \A d \in C : l.chunkNext[d] < 64 =>
           /\ k.chunkNext[d] < 64 /\ NextOf(k.chunkNext[d]) = NextOf(l.chunkNext[d])
           /\ k.chunkStart[d] = l.chunkStart[d]
    BY <1>4, <1>5, <1>n, <2>1
  <2>3. \A d \in C : k.chunkNext[d] < 64 => l.chunkNext[d] < 64 BY <1>4, <1>5, <1>n, <2>1
  <2> QED BY <1>l, <1>5, <2>2, <2>3, LineSame
<1>7. GoodLine(C, N, K, m) /\ Merged(C, N, k, m)
  <2>1. GoodLine(Chunks, N, K, k) /\ Entries(Chunks) BY <1>0, <1>6, <1>l
  <2>2. GoodLine(Chunks, N, K, merge_cache_blocks(k)) /\ Merged(Chunks, N, k, merge_cache_blocks(k))
    BY <1>l, <2>1, MergeKeeps
  <2> QED BY <1>0, <1>2, <2>2
<1>8. ASSUME NEW q \in Spus \ {p} PROVE Spares(C, l, m, spu[q])
  <2>1. PICK w : w = spu[q] OBVIOUS
  <2>2. OwnsChunk(C, K, l, w) /\ KeepsEntry(C, l, w) /\ Apart(C, s, w) /\ w \in Locals(C, N, K)
    BY <1>0, <1>1, <2>1 DEF RInv, Types, SpuInv, SpuAt
  <2>3. w.pc # "idle" => /\ w.chunkToProcess \in C \ {c, e}
                         /\ ~(l.chunkNext[w.chunkToProcess] < 32)
    <3>1. w.chunkNext \in C BY <2>2 DEF Locals
    <3>2. ~(w.chunkNext + 32 < 32) /\ w.chunkNext + 32 < 64 BY <1>a, <3>1
    <3>3. w.pc # "idle" => w.chunkToProcess \in C /\ l.chunkNext[w.chunkToProcess] = w.chunkNext + 32
      BY <2>2 DEF OwnsChunk, CHUNKNEXT_BUSY_BIT
    <3>4. w.pc # "idle" => w.chunkToProcess # c BY <1>1, <1>2, <2>2 DEF Apart
    <3>5. w.pc # "idle" => w.chunkToProcess # e
      <4>1. CASE e = NoChunk BY <1>n, <3>3, <4>1
      <4>2. CASE e # NoChunk
        <5>1. l.chunkNext[e] = 254 BY <1>4, <4>2
        <5> QED BY <3>2, <3>3, <5>1
      <4> QED BY <4>1, <4>2
    <3> QED BY <3>2, <3>3, <3>4, <3>5
  <2>4. \A d \in C : HoldsEntry(w, d) => d \in C \ {c, e} /\ ~(l.chunkNext[d] < 32)
    <3>1. l.chunkNext[c] # 254 BY <1>4, <1>a
    <3>2. \A d \in C : HoldsEntry(w, d) => l.chunkNext[d] = 254 /\ d # c
      BY <2>2, <3>1 DEF KeepsEntry, CHUNKNEXT_RESERVED
    <3>3. \A d \in C : HoldsEntry(w, d) => ~HoldsEntry(s, d) BY <2>2 DEF Apart
    <3>4. \A d \in C : HoldsEntry(w, d) => d # e BY <1>1, <1>2, <3>3 DEF HoldsEntry
    <3> QED BY <3>2, <3>4
  <2>5. \A d \in C : ~(k.chunkNext[d] < 32) => m.chunkNext[d] = k.chunkNext[d]
    BY <1>7 DEF Merged
  <2>6. m.chunkTriangle = k.chunkTriangle BY <1>7 DEF Merged
  <2>7. w.pc # "idle" => /\ m.chunkNext[w.chunkToProcess] = l.chunkNext[w.chunkToProcess]
                         /\ m.chunkTriangle[w.chunkToProcess] = l.chunkTriangle[w.chunkToProcess]
    BY <1>l, <1>5, <2>3, <2>5, <2>6
  <2>8. \A d \in C : HoldsEntry(w, d) => m.chunkNext[d] = l.chunkNext[d]
    BY <1>5, <2>4, <2>5
  <2> QED BY <2>1, <2>7, <2>8 DEF Spares
<1>9. DOMAIN buffer[p] = {}
  <2>1. DOMAIN buffer[p] \subseteq Block(s) BY <1>1 DEF RInv, SpuInv, SpuAt
  <2> QED BY <1>2, <2>1 DEF Block, Drawing
<1>10. /\ Idle \in Locals(C, N, K) /\ SpuAt(C, N, K, m, Idle, FALSE, DOMAIN buffer[p])
       /\ \A q \in Spus : Apart(C, Idle, spu[q])
  <2>1. SpuAt(C, N, K, m, Idle, FALSE, {}) BY <1>l, IdleFits
  <2>2. Idle \in Locals(C, N, K) BY <1>l, IdleFits
  <2>3. \A q \in Spus : Apart(C, Idle, spu[q]) BY <1>l, IdleFits
  <2> QED BY <1>9, <2>1, <2>2, <2>3
<1>11. \A d \in C : l.chunkNext[d] < 64 /\ m.chunkNext[d] < 64 => m.chunkStart[d] = l.chunkStart[d]
  BY <1>5, <1>7 DEF Merged
<1>12. Writes(p, Idle)
  <2>1. resv' = {} /\ UNCHANGED <<triangles, buffer, pixels>> /\ spu' = [spu EXCEPT ![p] = Idle]
    BY <1>2
  <2> QED BY <1>0, <1>7, <1>8, <1>10, <1>11, <2>1 DEF Writes
<1>13. GivenBack(C, N, l, k, s, s.chunkTriangle)
  <2>1. Ends(N, k, c) = Ends(N, l, c)
    <3>1. NextOf(k.chunkNext[c]) = NextOf(l.chunkNext[c]) BY <1>4, <1>5, <1>a
    <3> QED BY <1>5, <3>1 DEF Ends
  <2>2. \A d \in C \ {c} : k.chunkNext[d] # 255 => k.chunkNext[d] = l.chunkNext[d]
    <3>1. CASE e = NoChunk BY <1>5, <1>n, <3>1
    <3>2. CASE e # NoChunk BY <1>5, <3>2
    <3> QED BY <3>1, <3>2
  <2>3. /\ k.chunkTriangle[c] = s.chunkTriangle
        /\ \A d \in C \ {c} : k.chunkTriangle[d] = l.chunkTriangle[d]
    BY <1>l, <1>4, <1>5
  <2> QED BY <1>1, <1>5, <2>1, <2>2, <2>3 DEF GivenBack
<1> QED BY <1>0, <1>1, <1>2, <1>6, <1>7, <1>12, <1>13

-----------------------------------------------------------------------------
(* Render and Flush.                                                       *)

\* One triangle drawn on the block: P are the tiles in memory, B and D those in the
\* buffers before and after.
RenderDone(T, P, s, B, D, z) ==
  LET touched == T[s.chunkTriangle + 1] \cap (s.thisBlockStart .. s.chunkEnd)
  IN /\ s.pc = "render" /\ z.pc \in Drawing
     /\ z.chunkToProcess = s.chunkToProcess
     /\ z.thisBlockStart = s.thisBlockStart /\ z.chunkEnd = s.chunkEnd
     /\ z.chunkStart = s.chunkStart /\ z.realBlockStart = s.realBlockStart
     /\ z.chunkTriangle = s.chunkTriangle + 1
     /\ z.pc = "render" => s.chunkStart = s.realBlockStart
     /\ D = [t \in DOMAIN B \cup touched |->
               IF t \in touched
               THEN Append(IF t \in DOMAIN B THEN B[t] ELSE P[t], s.chunkTriangle + 1)
               ELSE B[t]]

LEMMA Render_Step ==
  ASSUME RInv, NEW p \in Spus, Render(p)
  PROVE  \E z : /\ Leaves(p, z) /\ UNCHANGED <<pixels, resv>>
               /\ RenderDone(triangles, pixels, spu[p], buffer[p], buffer'[p], z)
<1>0. PICK C, N, K : C = Chunks /\ N = NumTiles /\ K = endTriangle OBVIOUS
<1>1. PICK s : s = spu[p] OBVIOUS
<1>2. s \in Locals(C, N, K) BY <1>0, <1>1 DEF RInv, Types
<1>3. SpuAt(C, N, K, cache, s, p \in resv, DOMAIN buffer[p]) BY <1>0, <1>1 DEF RInv, SpuInv
<1>4. s.pc = "render" /\ UNCHANGED <<triangles, cache, resv, pixels>>
  BY <1>1 DEF Render
<1>5. PICK pc, k : /\ pc = IF s.chunkStart # s.realBlockStart \/ s.chunkTriangle + 1 = s.endTriangle
                           THEN "flush" ELSE "render"
                   /\ k = s.chunkTriangle + 1
  OBVIOUS
<1>6. PICK z : z = [s EXCEPT !.chunkTriangle = k, !.pc = pc] OBVIOUS
<1>7. spu' = [spu EXCEPT ![p] = z]
  <2>1. spu' = [spu EXCEPT ![p].chunkTriangle = @ + 1,
                           ![p].pc = IF s.chunkStart # s.realBlockStart \/ s.chunkTriangle + 1 = s.endTriangle
                                     THEN "flush" ELSE "render"]
    BY <1>1 DEF Render
  <2>2. spu' = [spu EXCEPT ![p].chunkTriangle = @ + 1, ![p].pc = pc] BY <1>5, <2>1
  <2> QED BY <1>1, <1>5, <1>6, <2>2
<1>8. s.chunkTriangle \in 0 .. K /\ s.endTriangle \in 0 .. K /\ s.chunkTriangle < s.endTriangle
  BY <1>2, <1>3, <1>4 DEF SpuAt, KnowsBlock, Locals, Drawing
<1>9. /\ z.chunkToProcess = s.chunkToProcess /\ z.chunkNext = s.chunkNext
      /\ z.chunkStart = s.chunkStart /\ z.chunkEnd = s.chunkEnd /\ z.firstTile = s.firstTile
      /\ z.thisBlockStart = s.thisBlockStart /\ z.freeChunk = s.freeChunk
      /\ z.endTriangle = s.endTriangle
      /\ z.pc \in Drawing
      /\ z.pc = "render" => z.chunkTriangle < z.endTriangle
      /\ z \in Locals(C, N, K)
  <2>1. k \in 0 .. K /\ pc \in Drawing /\ (pc = "render" => k < s.endTriangle)
    <3>0. K \in Nat BY <1>0, RingFacts
    <3>1. k \in 0 .. K /\ k <= s.endTriangle BY <1>5, <1>8, <3>0
    <3>2. pc \in Drawing /\ (pc = "render" => k # s.endTriangle) BY <1>5 DEF Drawing
    <3> QED BY <1>8, <3>1, <3>2
  <2> QED BY <1>2, <1>6, <2>1 DEF Locals, Steps, Drawing
<1>10. Block(z) = Block(s) /\ Block(s) = s.thisBlockStart .. s.chunkEnd
  BY <1>4, <1>9 DEF Block, Drawing
<1>11. /\ DOMAIN buffer' = Spus /\ \A q \in Spus \ {p} : buffer'[q] = buffer[q]
       /\ DOMAIN buffer'[p] \subseteq Block(z)
  <2>1. DOMAIN buffer = Spus BY DEF RInv, Types
  <2>2. PICK touched, f :
          /\ touched = triangles[s.chunkTriangle + 1] \cap (s.thisBlockStart .. s.chunkEnd)
          /\ DOMAIN f = DOMAIN buffer[p] \cup touched
          /\ buffer' = [buffer EXCEPT ![p] = f]
    BY <1>1 DEF Render
  <2>3. DOMAIN buffer[p] \subseteq Block(s) BY <1>3 DEF SpuAt
  <2> QED BY <1>10, <2>1, <2>2, <2>3
<1>12. SpuAt(C, N, K, cache, z, p \in resv', DOMAIN buffer'[p])
  <2>1. OwnsChunk(C, K, cache, z) BY <1>3, <1>4, <1>9 DEF SpuAt, OwnsChunk
  <2>2. KnowsChunk(N, cache, z) BY <1>9 DEF KnowsChunk, Splitting, Drawing
  <2>3. KnowsFree(cache, z, p \in resv') BY <1>9 DEF KnowsFree, Drawing
  <2>4. KnowsBlock(N, cache, z) BY <1>3, <1>4, <1>9 DEF SpuAt, KnowsBlock, Drawing
  <2>5. KeepsEntry(C, cache, z) BY <1>9 DEF KeepsEntry, HoldsEntry, Drawing
  <2> QED BY <1>11, <2>1, <2>2, <2>3, <2>4, <2>5 DEF SpuAt
<1>13. ASSUME NEW q \in Spus \ {p} PROVE Apart(C, z, spu[q])
  <2>1. Apart(C, s, spu[q]) BY <1>0, <1>1 DEF RInv
  <2> QED BY <1>4, <1>9, <2>1 DEF Apart, HoldsEntry, Drawing
<1>14. Tiles' = Tiles /\ UNCHANGED <<triangles, cache>> BY <1>4 DEF Tiles
<1>15. resv' \in {resv, resv \cup {p}} BY <1>4
<1>16. Leaves(p, z)
  BY <1>0, <1>7, <1>9, <1>11, <1>12, <1>13, <1>14, <1>15 DEF Leaves
<1>17. RenderDone(triangles, pixels, s, buffer[p], buffer'[p], z)
  <2>1. z.realBlockStart = s.realBlockStart /\ z.chunkTriangle = s.chunkTriangle + 1 /\ z.pc = pc
    BY <1>2, <1>5, <1>6 DEF Locals
  <2>2. z.pc = "render" => s.chunkStart = s.realBlockStart BY <1>5, <2>1
  <2>3. p \in DOMAIN buffer BY DEF RInv, Types
  <2>4. PICK touched, B, k1 : /\ touched = triangles[s.chunkTriangle + 1] \cap (s.thisBlockStart .. s.chunkEnd)
                              /\ B = buffer[p] /\ k1 = s.chunkTriangle + 1
    OBVIOUS
  <2>5. buffer' = [buffer EXCEPT ![p] =
                     [t \in DOMAIN B \cup touched |->
                        IF t \in touched
                        THEN Append(IF t \in DOMAIN B THEN B[t] ELSE pixels[t], k1)
                        ELSE B[t]]]
    BY <1>1, <2>4, Zenon DEF Render
  <2>6. buffer'[p] = [t \in DOMAIN B \cup touched |->
                        IF t \in touched
                        THEN Append(IF t \in DOMAIN B THEN B[t] ELSE pixels[t], k1)
                        ELSE B[t]]
    BY <2>3, <2>5, Zenon
  <2> QED BY <1>4, <1>9, <2>1, <2>2, <2>4, <2>6, Zenon DEF RenderDone
<1> QED BY <1>1, <1>4, <1>16, <1>17

LEMMA Flush_Step ==
  ASSUME RInv, NEW p \in Spus, Flush(p)
  PROVE  \E z : /\ Leaves(p, z) /\ spu[p].pc = "flush" /\ z.pc = "finish" /\ UNCHANGED resv
               /\ z.chunkToProcess = spu[p].chunkToProcess
               /\ z.chunkTriangle = spu[p].chunkTriangle
               /\ pixels' = [t \in Tiles |-> IF t \in DOMAIN buffer[p] THEN buffer[p][t] ELSE pixels[t]]
<1>0. PICK C, N, K : C = Chunks /\ N = NumTiles /\ K = endTriangle OBVIOUS
<1>1. PICK s : s = spu[p] OBVIOUS
<1>2. s \in Locals(C, N, K) BY <1>0, <1>1 DEF RInv, Types
<1>3. SpuAt(C, N, K, cache, s, p \in resv, DOMAIN buffer[p]) BY <1>0, <1>1 DEF RInv, SpuInv
<1>4. s.pc = "flush" /\ UNCHANGED <<triangles, cache, resv>> BY <1>1 DEF Flush
<1>5. PICK z : z = [s EXCEPT !.pc = "finish"] OBVIOUS
<1>6. spu' = [spu EXCEPT ![p] = z]
  <2>1. spu' = [spu EXCEPT ![p].pc = "finish"] BY DEF Flush
  <2> QED BY <1>1, <1>5, <2>1
<1>7. /\ z.chunkToProcess = s.chunkToProcess /\ z.chunkNext = s.chunkNext
      /\ z.freeChunk = NoChunk /\ z.pc = "finish"
      /\ z \in Locals(C, N, K)
  <2>1. s.freeChunk = NoChunk BY <1>3, <1>4 DEF SpuAt, KnowsBlock, Drawing
  <2> QED BY <1>2, <1>5, <2>1 DEF Locals, Steps
<1>8. /\ DOMAIN buffer' = Spus /\ \A q \in Spus \ {p} : buffer'[q] = buffer[q]
      /\ DOMAIN buffer'[p] = {}
  <2>1. DOMAIN buffer = Spus BY DEF RInv, Types
  <2>2. buffer' = [buffer EXCEPT ![p] = <<>>] BY DEF Flush
  <2> QED BY <2>1, <2>2
<1>n. NoChunk \notin C
  <2>1. \A d \in C : d # NoChunk BY <1>0, RingFacts, LinkFacts
  <2> QED BY <2>1
<1>9. SpuAt(C, N, K, cache, z, p \in resv', DOMAIN buffer'[p])
  <2>1. OwnsChunk(C, K, cache, z) BY <1>3, <1>4, <1>7 DEF SpuAt, OwnsChunk
  <2>2. KnowsChunk(N, cache, z) BY <1>7 DEF KnowsChunk, Splitting
  <2>3. KnowsFree(cache, z, p \in resv') BY <1>7 DEF KnowsFree
  <2>4. KnowsBlock(N, cache, z) BY <1>7 DEF KnowsBlock, Drawing
  <2>5. KeepsEntry(C, cache, z) BY <1>7, <1>n DEF KeepsEntry, HoldsEntry
  <2> QED BY <1>8, <2>1, <2>2, <2>3, <2>4, <2>5 DEF SpuAt
<1>10. ASSUME NEW q \in Spus \ {p} PROVE Apart(C, z, spu[q])
  <2>1. Apart(C, s, spu[q]) BY <1>0, <1>1 DEF RInv
  <2> QED BY <1>4, <1>7, <1>n, <2>1 DEF Apart, HoldsEntry
<1>11. Tiles' = Tiles /\ UNCHANGED <<triangles, cache>>
  <2>1. pixels' = [t \in Tiles |-> IF t \in DOMAIN buffer[p] THEN buffer[p][t] ELSE pixels[t]]
    BY DEF Flush
  <2> QED BY <1>4, <2>1 DEF Tiles
<1>12. resv' \in {resv, resv \cup {p}} BY <1>4
<1>13. Leaves(p, z)
  BY <1>0, <1>6, <1>7, <1>8, <1>9, <1>10, <1>11, <1>12 DEF Leaves
<1>14. z.chunkTriangle = s.chunkTriangle BY <1>2, <1>5 DEF Locals
<1>15. pixels' = [t \in Tiles |-> IF t \in DOMAIN buffer[p] THEN buffer[p][t] ELSE pixels[t]]
  BY DEF Flush
<1> QED BY <1>1, <1>4, <1>7, <1>13, <1>14, <1>15

-----------------------------------------------------------------------------
(* Splitting: the tail, the head, and both.                                *)

\* What the split needs to know of a claimed chunk and of the entries for the parts
\* it leaves to others.
Splits(C, N, K, l, s) ==
  /\ s \in Locals(C, N, K)
  /\ s.chunkToProcess \in C
  /\ l.chunkNext[s.chunkToProcess] = s.chunkNext + 32
  /\ l.chunkTriangle[s.chunkToProcess] < K
  /\ s.chunkStart = l.chunkStart[s.chunkToProcess]
  /\ s.chunkEnd = Ends(N, l, s.chunkToProcess)
  /\ s.chunkTriangle < s.endTriangle
  /\ s.firstTile \in s.chunkStart .. s.chunkEnd
  /\ s.freeChunk # NoChunk => l.chunkNext[s.freeChunk] = 255
  /\ s.freeChunk2 # NoChunk => l.chunkNext[s.freeChunk2] = 255
  /\ HasTail(s) => s.freeChunk # NoChunk
  /\ HasTail(s) /\ HasHead(s) => s.freeChunk # s.freeChunk2

Fresh(C, l, f) == f \in C /\ l.chunkNext[f] = 255

LEMMA BlockBounds ==
  ASSUME NEW C, NEW N \in Nat, NEW K, NEW s \in Locals(C, N, K),
         s.firstTile \in s.chunkStart .. s.chunkEnd
  PROVE  /\ nextBlockStart(s) \in Nat /\ thisBlockStart(s) \in Nat
         /\ s.chunkStart <= thisBlockStart(s) /\ thisBlockStart(s) <= s.firstTile
         /\ s.firstTile < nextBlockStart(s) /\ nextBlockStart(s) <= s.chunkEnd + 1
         /\ nextBlockStart(s) <= thisBlockStart(s) + TilesPerChunk
         /\ s.chunkStart \in 0 .. (N - 1) /\ s.chunkEnd \in 0 .. (N - 1)
         /\ s.firstTile \in 0 .. (N - 1)
<1>1. PICK S, E, t, B : S = s.chunkStart /\ E = s.chunkEnd /\ t = s.firstTile /\ B = TilesPerChunk
  OBVIOUS
<1>2. /\ S \in 0 .. (N - 1) /\ E \in 0 .. (N - 1) /\ t \in 0 .. (N - 1) /\ t \in S .. E
      /\ B \in Nat /\ B > 0
  BY <1>1, RenderChunksAssumption DEF Locals
<1>3. PICK nb : nb = Smaller(t + B, E + 1) OBVIOUS
<1>4. nb \in Nat /\ t < nb /\ nb <= E + 1 /\ nb <= t + B BY <1>2, <1>3 DEF Smaller
<1>5. PICK tb : tb = Larger(nb - B, S) OBVIOUS
<1>6. tb \in Nat /\ S <= tb /\ tb <= t /\ nb <= tb + B BY <1>2, <1>4, <1>5 DEF Larger
<1>7. nextBlockStart(s) = nb /\ thisBlockStart(s) = tb
  BY <1>1, <1>3, <1>5 DEF nextBlockStart, thisBlockStart
<1> QED BY <1>1, <1>2, <1>4, <1>6, <1>7

\* The chunk before a split: where it starts and ends, and its successor.
LEMMA ClaimedChunk ==
  ASSUME NEW C, Entries(C), NEW N \in Nat, NEW K, NEW l, GoodLine(C, N, K, l),
         NEW c \in C, NEW n \in C, l.chunkNext[c] \in {n, n + 32}
  PROVE  /\ IsChunk(Ring(C, l.chunkNext), N, l.chunkStart, c, n)
         /\ c \in Ring(C, l.chunkNext) /\ NextOf(l.chunkNext[c]) = n
         /\ Ends(N, l, c) = EndOf(N, l.chunkStart, n)
         /\ n \in Ring(C, l.chunkNext)
<1>1. PICK R, nxt : R = Ring(C, l.chunkNext) /\ nxt = Successors(C, l.chunkNext) OBVIOUS
<1>2. IsCycle(R, N, l.chunkStart, nxt) BY <1>1 DEF GoodLine, IsRing
<1>3. NextOf(l.chunkNext[c]) = n /\ l.chunkNext[c] < 64
  <2>1. \A d \in C : d < 32 /\ d \in Nat /\ d + 32 < 64 /\ NextOf(d) = d /\ NextOf(d + 32) = d
    BY LinkFacts
  <2>2. NextOf(n) = n /\ NextOf(n + 32) = n /\ n < 64 /\ n + 32 < 64 BY <2>1
  <2> QED BY <2>2
<1>4. c \in R BY <1>1, <1>3 DEF Ring, CHUNKNEXT_BUSY_BIT
<1>5. nxt[c] = n BY <1>1, <1>3 DEF Successors
<1>6. IsChunk(R, N, l.chunkStart, c, nxt[c]) BY <1>2, <1>4, ChunkIsSome
<1>7. IsChunk(R, N, l.chunkStart, c, n) BY <1>5, <1>6
<1> QED BY <1>1, <1>3, <1>4, <1>7 DEF Ends, IsChunk

\* The tiles behind the block become a chunk of their own.
TailDone(C, N, K, l, s, k) ==
  /\ GoodLine(C, N, K, k)
  /\ tailChunk(s) \in C
  /\ k.chunkNext[s.chunkToProcess] = tailChunk(s) + 32
  /\ \A d \in C : l.chunkNext[d] < 64 => k.chunkStart[d] = l.chunkStart[d]
  /\ \A d \in C \ {s.chunkToProcess, s.freeChunk} : k.chunkNext[d] = l.chunkNext[d]
  /\ \A d \in C \ {s.freeChunk} : k.chunkTriangle[d] = l.chunkTriangle[d]
  /\ ~HasTail(s) => k = l
  /\ HasTail(s) =>
       /\ k.chunkStart[s.freeChunk] = nextBlockStart(s)
       /\ k.chunkNext[s.freeChunk] = s.chunkNext
       /\ k.chunkTriangle[s.freeChunk] = s.chunkTriangle

LEMMA TailSplit ==
  ASSUME NEW C, Entries(C), NEW N \in Nat, NEW K \in Nat, NEW l, GoodLine(C, N, K, l), NEW s,
         Splits(C, N, K, l, s)
  PROVE  TailDone(C, N, K, l, s, WithTail(l, s))
<1>1. PICK c, f, n, nb : /\ c = s.chunkToProcess /\ f = s.freeChunk /\ n = s.chunkNext
                         /\ nb = nextBlockStart(s)
  OBVIOUS
<1>2. c \in C /\ n \in C /\ l.chunkNext[c] = n + 32 BY <1>1 DEF Splits, Locals
<1>3. CASE ~HasTail(s)
  <2>1. WithTail(l, s) = l /\ tailChunk(s) = n BY <1>1, <1>3 DEF WithTail, tailChunk
  <2> QED BY <1>1, <1>2, <1>3, <2>1 DEF TailDone
<1>4. CASE HasTail(s)
  <2>1. f \in C /\ l.chunkNext[f] = 255 BY <1>1, <1>4 DEF Splits, Locals
  <2>2. \A d \in C : d < 32 /\ d \in Nat /\ d + 32 < 64 /\ d + 32 \in Links(C) /\ d \in Links(C)
    <3>1. \A d \in C : d + 32 \in Links(C) /\ d \in Links(C) BY DEF Links, CHUNKNEXT_BUSY_BIT
    <3> QED BY <3>1, LinkFacts
  <2>3. f # c BY <1>2, <2>1, <2>2
  <2>4. f \notin Ring(C, l.chunkNext) BY <2>1 DEF Ring, CHUNKNEXT_BUSY_BIT
  <2>5. /\ l = [chunkTriangle |-> l.chunkTriangle, chunkStart |-> l.chunkStart, chunkNext |-> l.chunkNext]
        /\ l.chunkTriangle \in [C -> 0 .. K]
        /\ l.chunkStart \in [C -> (0 .. (N - 1)) \cup {NoStart}]
        /\ l.chunkNext \in [C -> Links(C)]
    BY DEF GoodLine, Lines
  <2>6. PICK k : k = WithTail(l, s) OBVIOUS
  <2>7. k = [chunkTriangle |-> [l.chunkTriangle EXCEPT ![f] = s.chunkTriangle],
             chunkStart |-> [l.chunkStart EXCEPT ![f] = nb],
             chunkNext |-> [[l.chunkNext EXCEPT ![f] = n] EXCEPT ![c] = f + 32]]
    <3>1. k = [l EXCEPT !.chunkStart[f] = nb,
                        !.chunkNext[f] = n,
                        !.chunkTriangle[f] = s.chunkTriangle,
                        !.chunkNext[c] = f + 32]
      BY <1>1, <1>4, <2>6 DEF WithTail, CHUNKNEXT_BUSY_BIT
    <3> QED BY <2>5, <3>1
  <2>8. /\ k.chunkStart = [l.chunkStart EXCEPT ![f] = nb]
        /\ k.chunkNext = [[l.chunkNext EXCEPT ![f] = n] EXCEPT ![c] = f + 32]
        /\ k.chunkTriangle = [l.chunkTriangle EXCEPT ![f] = s.chunkTriangle]
    BY <2>7
  <2>9. /\ k.chunkStart[f] = nb /\ k.chunkNext[f] = n /\ k.chunkTriangle[f] = s.chunkTriangle
        /\ k.chunkNext[c] = f + 32
        /\ \A d \in C \ {f} : k.chunkStart[d] = l.chunkStart[d]
        /\ \A d \in C \ {f} : k.chunkTriangle[d] = l.chunkTriangle[d]
        /\ \A d \in C \ {c, f} : k.chunkNext[d] = l.chunkNext[d]
    BY <1>2, <2>1, <2>3, <2>5, <2>8
  <2>10. nb \in 0 .. (N - 1) /\ s.chunkStart < nb /\ nb < s.chunkEnd /\ s.chunkTriangle \in 0 .. K
    <3>1. s \in Locals(C, N, K) /\ s.firstTile \in s.chunkStart .. s.chunkEnd BY DEF Splits
    <3>2. /\ nb \in Nat /\ thisBlockStart(s) \in Nat
          /\ s.chunkStart <= thisBlockStart(s) /\ thisBlockStart(s) <= s.firstTile
          /\ s.firstTile < nb /\ s.chunkStart \in 0 .. (N - 1) /\ s.chunkEnd \in 0 .. (N - 1)
          /\ s.firstTile \in 0 .. (N - 1)
      BY <1>1, <3>1, BlockBounds
    <3>3. nb < s.chunkEnd BY <1>1, <1>4 DEF HasTail
    <3>4. s.chunkTriangle \in 0 .. K BY <3>1 DEF Locals
    <3> QED BY <3>2, <3>3, <3>4
  <2>11. k \in Lines(C, N, K)
    <3>1. k.chunkNext \in [C -> Links(C)] BY <1>2, <2>1, <2>2, <2>5, <2>8
    <3>2. k.chunkStart \in [C -> (0 .. (N - 1)) \cup {NoStart}] BY <2>5, <2>8, <2>10
    <3>3. k.chunkTriangle \in [C -> 0 .. K] BY <2>5, <2>8, <2>10
    <3> QED BY <2>7, <2>8, <3>1, <3>2, <3>3 DEF Lines
  <2>12. /\ c \in Ring(C, l.chunkNext) /\ n = NextOf(l.chunkNext[c])
         /\ l.chunkStart[c] < nb
         /\ l.chunkStart[n] = 0 \/ nb < l.chunkStart[n]
    <3>1. /\ IsChunk(Ring(C, l.chunkNext), N, l.chunkStart, c, n)
          /\ c \in Ring(C, l.chunkNext) /\ NextOf(l.chunkNext[c]) = n
          /\ Ends(N, l, c) = EndOf(N, l.chunkStart, n)
      BY <1>2, ClaimedChunk
    <3>2. s.chunkEnd = EndOf(N, l.chunkStart, n) /\ s.chunkStart = l.chunkStart[c]
      BY <1>1, <3>1 DEF Splits
    <3>3. l.chunkStart[n] # 0 => nb < l.chunkStart[n] BY <2>10, <3>1, <3>2 DEF IsChunk
    <3> QED BY <2>10, <3>1, <3>2, <3>3
  <2>13. \A d \in Ring(C, l.chunkNext) : k.chunkStart[d] = l.chunkStart[d]
    BY <2>4, <2>9 DEF Ring
  <2>14. k.chunkNext[c] \in {f, f + 32} /\ k.chunkNext[f] \in {n, n + 32} BY <2>9
  <2>15. \A d \in C \ {c, f} : k.chunkNext[d] = l.chunkNext[d] BY <2>9
  <2>16. k.chunkStart[f] = nb /\ nb \in 0 .. (N - 1) BY <2>9, <2>10
  <2>17. GoodLine(C, N, K, k)
    BY <2>1, <2>4, <2>11, <2>12, <2>13, <2>14, <2>15, <2>16, LineInsert
  <2>18. \A d \in C : l.chunkNext[d] < 64 => k.chunkStart[d] = l.chunkStart[d] BY <2>1, <2>9
  <2>19. tailChunk(s) = f BY <1>1, <1>4 DEF tailChunk
  <2> QED BY <1>1, <1>4, <2>1, <2>6, <2>9, <2>17, <2>18, <2>19 DEF TailDone
<1> QED BY <1>3, <1>4

OwnHead(s) == HasHead(s) /\ headChunk(s) # NoChunk
BlockChunk(s) == IF OwnHead(s) THEN headChunk(s) ELSE s.chunkToProcess

\* The tiles in front of the block keep the old entry, the block gets one of its own.
HeadDone(C, N, K, l, s, k) ==
  /\ GoodLine(C, N, K, k)
  /\ BlockChunk(s) \in C
  /\ k.chunkNext[BlockChunk(s)] = tailChunk(s) + 32
  /\ \A d \in C : l.chunkNext[d] < 64 => k.chunkStart[d] = l.chunkStart[d]
  /\ \A d \in C \ {s.chunkToProcess, BlockChunk(s)} :
       k.chunkNext[d] = l.chunkNext[d] /\ k.chunkTriangle[d] = l.chunkTriangle[d]
  /\ ~OwnHead(s) =>
       /\ k.chunkStart = l.chunkStart /\ k.chunkNext = l.chunkNext
       /\ k.chunkTriangle[s.chunkToProcess] \in {l.chunkTriangle[s.chunkToProcess], s.chunkTriangle}
  /\ OwnHead(s) =>
       /\ BlockChunk(s) # s.chunkToProcess
       /\ l.chunkNext[BlockChunk(s)] = 255
       /\ k.chunkStart[BlockChunk(s)] = thisBlockStart(s)
       /\ k.chunkTriangle[BlockChunk(s)] = s.chunkTriangle
       /\ k.chunkNext[s.chunkToProcess] = BlockChunk(s)
       /\ k.chunkTriangle[s.chunkToProcess] = s.chunkTriangle + 1

LEMMA HeadSplit ==
  ASSUME NEW C, Entries(C), NEW N \in Nat, NEW K \in Nat, NEW l, NEW s,
         Splits(C, N, K, l, s), NEW k, GoodLine(C, N, K, l), TailDone(C, N, K, l, s, k)
  PROVE  HeadDone(C, N, K, k, s, WithHead(k, s))
<1>1. PICK c, h, t, tb, m : /\ c = s.chunkToProcess /\ h = headChunk(s) /\ t = tailChunk(s)
                            /\ tb = thisBlockStart(s) /\ m = WithHead(k, s)
  OBVIOUS
<1>a. \A d \in C : /\ d < 32 /\ d \in Nat /\ d + 32 < 64 /\ d + 32 \in Links(C) /\ d \in Links(C)
                   /\ d # NoChunk
  <2>1. \A d \in C : d + 32 \in Links(C) /\ d \in Links(C) BY DEF Links, CHUNKNEXT_BUSY_BIT
  <2> QED BY <2>1, LinkFacts
<1>2. /\ c \in C /\ t \in C /\ k.chunkNext[c] = t + 32 /\ GoodLine(C, N, K, k)
  BY <1>1 DEF Splits, TailDone
<1>3. /\ k = [chunkTriangle |-> k.chunkTriangle, chunkStart |-> k.chunkStart, chunkNext |-> k.chunkNext]
      /\ k.chunkTriangle \in [C -> 0 .. K]
      /\ k.chunkStart \in [C -> (0 .. (N - 1)) \cup {NoStart}]
      /\ k.chunkNext \in [C -> Links(C)]
  BY <1>2 DEF GoodLine, Lines
<1>4. /\ tb \in Nat /\ nextBlockStart(s) \in Nat /\ tb < nextBlockStart(s) /\ tb <= s.chunkEnd
      /\ s.chunkEnd \in 0 .. (N - 1) /\ s.chunkStart \in 0 .. (N - 1)
      /\ tb \in 0 .. (N - 1)
      /\ s.chunkTriangle \in 0 .. K /\ s.chunkTriangle + 1 \in 0 .. K
  <2>1. s \in Locals(C, N, K) /\ s.firstTile \in s.chunkStart .. s.chunkEnd BY DEF Splits
  <2>2. /\ nextBlockStart(s) \in Nat /\ tb \in Nat
        /\ s.chunkStart <= tb /\ tb <= s.firstTile
        /\ s.firstTile < nextBlockStart(s) /\ nextBlockStart(s) <= s.chunkEnd + 1
        /\ s.chunkStart \in 0 .. (N - 1) /\ s.chunkEnd \in 0 .. (N - 1)
        /\ s.firstTile \in 0 .. (N - 1)
    BY <1>1, <2>1, BlockBounds
  <2>3. s.chunkTriangle \in 0 .. K /\ s.endTriangle \in 0 .. K BY <2>1 DEF Locals
  <2>4. s.chunkTriangle < s.endTriangle BY DEF Splits
  <2> QED BY <2>1, <2>2, <2>3, <2>4
<1>5. CASE ~HasHead(s)
  <2>1. m = k /\ BlockChunk(s) = c /\ ~OwnHead(s) BY <1>1, <1>5 DEF WithHead, OwnHead, BlockChunk
  <2> QED BY <1>1, <1>2, <2>1 DEF HeadDone
<1>6. CASE HasHead(s) /\ h = NoChunk
  <2>1. BlockChunk(s) = c /\ ~OwnHead(s) BY <1>1, <1>6 DEF OwnHead, BlockChunk
  <2>2. m = [k EXCEPT !.chunkTriangle[c] = s.chunkTriangle, !.chunkNext[c] = t + 32]
    BY <1>1, <1>6 DEF WithHead, CHUNKNEXT_BUSY_BIT
  <2>3. m = [chunkTriangle |-> [k.chunkTriangle EXCEPT ![c] = s.chunkTriangle],
             chunkStart |-> k.chunkStart,
             chunkNext |-> [k.chunkNext EXCEPT ![c] = t + 32]]
    BY <1>3, <2>2
  <2>4. [k.chunkNext EXCEPT ![c] = t + 32] = k.chunkNext BY <1>2, <1>3
  <2>5. /\ m.chunkStart = k.chunkStart /\ m.chunkNext = k.chunkNext
        /\ m.chunkTriangle = [k.chunkTriangle EXCEPT ![c] = s.chunkTriangle]
        /\ m = [chunkTriangle |-> m.chunkTriangle, chunkStart |-> m.chunkStart, chunkNext |-> m.chunkNext]
    BY <2>3, <2>4
  <2>6. GoodLine(C, N, K, m)
    <3>1. m.chunkTriangle \in [C -> 0 .. K] BY <1>2, <1>3, <1>4, <2>5
    <3>2. m \in Lines(C, N, K) BY <1>3, <2>5, <3>1 DEF Lines
    <3> QED BY <1>2, <2>5, <3>2 DEF GoodLine
  <2>7. /\ m.chunkTriangle[c] = s.chunkTriangle
        /\ \A d \in C \ {c} : m.chunkTriangle[d] = k.chunkTriangle[d]
    BY <1>2, <1>3, <2>5
  <2> QED BY <1>1, <1>2, <2>1, <2>5, <2>6, <2>7 DEF HeadDone
<1>7. CASE HasHead(s) /\ h # NoChunk
  <2>1. BlockChunk(s) = h /\ OwnHead(s) BY <1>1, <1>7 DEF OwnHead, BlockChunk
  <2>2. h \in C /\ l.chunkNext[h] = 255 /\ (HasTail(s) => h # s.freeChunk)
    <3>1. CASE HasTail(s)
      <4>1. h = s.freeChunk2 BY <1>1, <3>1 DEF headChunk
      <4> QED BY <1>7, <3>1, <4>1 DEF Splits, Locals
    <3>2. CASE ~HasTail(s)
      <4>1. h = s.freeChunk BY <1>1, <3>2 DEF headChunk
      <4> QED BY <1>7, <3>2, <4>1 DEF Splits, Locals
    <3> QED BY <3>1, <3>2
  <2>3. h # c
    <3>1. s.chunkNext \in C /\ l.chunkNext[c] = s.chunkNext + 32 BY <1>1 DEF Splits, Locals
    <3> QED BY <1>a, <2>2, <3>1
  <2>4. k.chunkNext[h] = 255
    <3>1. CASE HasTail(s) BY <1>1, <2>2, <2>3, <3>1 DEF TailDone
    <3>2. CASE ~HasTail(s) BY <2>2, <3>2 DEF TailDone
    <3> QED BY <3>1, <3>2
  <2>5. h \notin Ring(C, k.chunkNext) BY <2>4 DEF Ring, CHUNKNEXT_BUSY_BIT
  <2>6. m = [k EXCEPT !.chunkStart[h] = tb,
                      !.chunkNext[h] = t + 32,
                      !.chunkTriangle[h] = s.chunkTriangle,
                      !.chunkNext[c] = h,
                      !.chunkTriangle[c] = s.chunkTriangle + 1]
    BY <1>1, <1>7 DEF WithHead, CHUNKNEXT_BUSY_BIT
  <2>7. m = [chunkTriangle |-> [[k.chunkTriangle EXCEPT ![h] = s.chunkTriangle]
                                  EXCEPT ![c] = s.chunkTriangle + 1],
             chunkStart |-> [k.chunkStart EXCEPT ![h] = tb],
             chunkNext |-> [[k.chunkNext EXCEPT ![h] = t + 32] EXCEPT ![c] = h]]
    BY <1>3, <2>6
  <2>8. /\ m.chunkStart = [k.chunkStart EXCEPT ![h] = tb]
        /\ m.chunkNext = [[k.chunkNext EXCEPT ![h] = t + 32] EXCEPT ![c] = h]
        /\ m.chunkTriangle = [[k.chunkTriangle EXCEPT ![h] = s.chunkTriangle]
                                  EXCEPT ![c] = s.chunkTriangle + 1]
    BY <2>7
  <2>9. /\ m.chunkStart[h] = tb /\ m.chunkNext[h] = t + 32 /\ m.chunkTriangle[h] = s.chunkTriangle
        /\ m.chunkNext[c] = h /\ m.chunkTriangle[c] = s.chunkTriangle + 1
        /\ \A d \in C \ {h} : m.chunkStart[d] = k.chunkStart[d]
        /\ \A d \in C \ {c, h} : m.chunkTriangle[d] = k.chunkTriangle[d]
        /\ \A d \in C \ {c, h} : m.chunkNext[d] = k.chunkNext[d]
    BY <1>2, <1>3, <2>2, <2>3, <2>8
  <2>10. m \in Lines(C, N, K)
    <3>1. m.chunkNext \in [C -> Links(C)] BY <1>2, <1>3, <1>a, <2>2, <2>8
    <3>2. m.chunkStart \in [C -> (0 .. (N - 1)) \cup {NoStart}] BY <1>3, <1>4, <2>8
    <3>3. m.chunkTriangle \in [C -> 0 .. K] BY <1>3, <1>4, <2>8
    <3> QED BY <2>7, <2>8, <3>1, <3>2, <3>3 DEF Lines
  <2>11. /\ c \in Ring(C, k.chunkNext) /\ t = NextOf(k.chunkNext[c])
         /\ k.chunkStart[c] < tb
         /\ k.chunkStart[t] = 0 \/ tb < k.chunkStart[t]
    <3>1. /\ IsChunk(Ring(C, k.chunkNext), N, k.chunkStart, c, t)
          /\ c \in Ring(C, k.chunkNext) /\ NextOf(k.chunkNext[c]) = t
          /\ Ends(N, k, c) = EndOf(N, k.chunkStart, t)
      BY <1>2, ClaimedChunk
    <3>2. k.chunkStart[c] < tb
      <4>1. l.chunkNext[c] < 64
        <5>1. s.chunkNext \in C /\ l.chunkNext[c] = s.chunkNext + 32 BY <1>1 DEF Splits, Locals
        <5> QED BY <1>a, <5>1
      <4>2. k.chunkStart[c] = s.chunkStart BY <1>1, <1>2, <4>1 DEF TailDone, Splits
      <4> QED BY <1>1, <1>7, <4>2 DEF HasHead
    <3>3. k.chunkStart[t] = 0 \/ tb < k.chunkStart[t]
      <4>1. CASE HasTail(s)
        <5>1. t = s.freeChunk BY <1>1, <4>1 DEF tailChunk
        <5>2. k.chunkStart[t] = nextBlockStart(s) BY <4>1, <5>1 DEF TailDone
        <5> QED BY <1>4, <5>2
      <4>2. CASE ~HasTail(s)
        <5>1. k = l BY <4>2 DEF TailDone
        <5>2. s.chunkEnd = EndOf(N, k.chunkStart, t) BY <1>1, <3>1, <5>1 DEF Splits
        <5> QED BY <1>4, <3>1, <5>2 DEF IsChunk
      <4> QED BY <4>1, <4>2
    <3> QED BY <3>1, <3>2, <3>3
  <2>12. \A d \in Ring(C, k.chunkNext) : m.chunkStart[d] = k.chunkStart[d]
    BY <2>5, <2>9 DEF Ring
  <2>13. m.chunkNext[c] \in {h, h + 32} /\ m.chunkNext[h] \in {t, t + 32} BY <2>9
  <2>14. \A d \in C \ {c, h} : m.chunkNext[d] = k.chunkNext[d] BY <2>9
  <2>15. m.chunkStart[h] = tb /\ tb \in 0 .. (N - 1) BY <1>4, <2>9
  <2>16. GoodLine(C, N, K, m)
    BY <1>2, <2>2, <2>5, <2>10, <2>11, <2>12, <2>13, <2>14, <2>15, LineInsert
  <2>17. \A d \in C : k.chunkNext[d] < 64 => m.chunkStart[d] = k.chunkStart[d] BY <2>4, <2>9
  <2> QED BY <1>1, <2>1, <2>2, <2>3, <2>4, <2>9, <2>16, <2>17 DEF HeadDone
<1> QED BY <1>1, <1>5, <1>6, <1>7

\* A line l after the split of the chunk of s.
SplitDone(C, N, K, l, s, m) ==
  /\ GoodLine(C, N, K, m)
  /\ \A d \in C \ {s.chunkToProcess} : l.chunkNext[d] < 64 =>
       /\ m.chunkNext[d] = l.chunkNext[d] /\ m.chunkTriangle[d] = l.chunkTriangle[d]
       /\ m.chunkStart[d] = l.chunkStart[d] /\ Ends(N, m, d) = Ends(N, l, d)
  /\ m.chunkStart[s.chunkToProcess] = s.chunkStart
  /\ HasTail(s) =>
       /\ m.chunkStart[s.freeChunk] = nextBlockStart(s) /\ Ends(N, m, s.freeChunk) = s.chunkEnd
       /\ m.chunkTriangle[s.freeChunk] = s.chunkTriangle
  /\ OwnHead(s) =>
       /\ Ends(N, m, s.chunkToProcess) = thisBlockStart(s) - 1
       /\ m.chunkTriangle[s.chunkToProcess] = s.chunkTriangle + 1
       /\ m.chunkNext[s.chunkToProcess] = BlockChunk(s)
  /\ BlockChunk(s) \in C /\ tailChunk(s) \in C
  /\ m.chunkNext[BlockChunk(s)] = tailChunk(s) + 32
  /\ m.chunkTriangle[BlockChunk(s)] < K
  /\ m.chunkStart[BlockChunk(s)] = IF OwnHead(s) THEN thisBlockStart(s) ELSE s.chunkStart
  /\ Ends(N, m, BlockChunk(s)) = IF HasTail(s) THEN nextBlockStart(s) - 1 ELSE s.chunkEnd
  /\ \A d \in C : m.chunkNext[d] < 64 =>
       \/ d # s.chunkToProcess /\ l.chunkNext[d] < 64
       \/ HasTail(s) /\ d = s.freeChunk
       \/ OwnHead(s) /\ d = s.chunkToProcess
       \/ d = BlockChunk(s)
  /\ \A d \in C : l.chunkNext[d] = 254 => m.chunkNext[d] = 254

LEMMA SplitLine ==
  ASSUME NEW C, Entries(C), NEW N \in Nat, NEW K \in Nat, NEW l, NEW s,
         Splits(C, N, K, l, s), GoodLine(C, N, K, l)
  PROVE  SplitDone(C, N, K, l, s, WithHead(WithTail(l, s), s))
<1>1. PICK k, m : k = WithTail(l, s) /\ m = WithHead(k, s) OBVIOUS
<1>2. TailDone(C, N, K, l, s, k) BY <1>1, TailSplit
<1>3. HeadDone(C, N, K, k, s, m) BY <1>1, <1>2, HeadSplit
<1>4. PICK c, f, n, b, t, nb, tb :
        /\ c = s.chunkToProcess /\ f = s.freeChunk /\ n = s.chunkNext
        /\ b = BlockChunk(s) /\ t = tailChunk(s) /\ nb = nextBlockStart(s) /\ tb = thisBlockStart(s)
  OBVIOUS
<1>a. \A d \in C : /\ d < 32 /\ d \in Nat /\ d + 32 < 64 /\ ~(d + 32 < 32) /\ d # NoChunk
                   /\ NextOf(d) = d /\ NextOf(d + 32) = d
  BY LinkFacts
<1>5. /\ c \in C /\ n \in C /\ l.chunkNext[c] = n + 32 /\ b \in C /\ t \in C
      /\ l.chunkTriangle[c] < K /\ s.chunkTriangle < K
      /\ l.chunkNext[c] < 64 /\ l.chunkStart[c] = s.chunkStart
      /\ HasTail(s) => f \in C /\ l.chunkNext[f] = 255 /\ f # c
  <2>1. /\ c \in C /\ n \in C /\ l.chunkNext[c] = n + 32 /\ b \in C /\ t \in C
        /\ l.chunkTriangle[c] < K /\ l.chunkStart[c] = s.chunkStart
    BY <1>2, <1>3, <1>4 DEF Splits, Locals, TailDone, HeadDone
  <2>2. l.chunkNext[c] < 64 /\ l.chunkNext[c] # 255 BY <1>a, <2>1
  <2>3. HasTail(s) => f \in C /\ l.chunkNext[f] = 255
    BY <1>4 DEF Splits, Locals
  <2>4. s.chunkTriangle < K
    <3>1. s.chunkTriangle \in 0 .. K /\ s.endTriangle \in 0 .. K /\ s.chunkTriangle < s.endTriangle
      BY DEF Splits, Locals
    <3> QED BY <3>1
  <2> QED BY <2>1, <2>2, <2>3, <2>4
<1>6. /\ s.chunkStart \in Nat /\ s.chunkEnd \in Nat /\ tb \in 0 .. (N - 1) /\ nb \in Nat
      /\ s.chunkStart <= tb /\ tb < nb /\ nb <= s.chunkEnd + 1
      /\ s.chunkEnd \in 0 .. (N - 1)
  <2>1. s \in Locals(C, N, K) /\ s.firstTile \in s.chunkStart .. s.chunkEnd BY DEF Splits
  <2>2. /\ nb \in Nat /\ tb \in Nat
        /\ s.chunkStart <= tb /\ tb <= s.firstTile
        /\ s.firstTile < nb /\ nb <= s.chunkEnd + 1
        /\ s.chunkStart \in 0 .. (N - 1) /\ s.chunkEnd \in 0 .. (N - 1)
        /\ s.firstTile \in 0 .. (N - 1)
    BY <1>4, <2>1, BlockBounds
  <2> QED BY <2>2
<1>7. /\ OwnHead(s) => b # c /\ k.chunkNext[b] = 255 /\ (HasTail(s) => b # f)
      /\ ~OwnHead(s) => b = c
  <2>1. ~OwnHead(s) => b = c BY <1>4 DEF BlockChunk
  <2>2. OwnHead(s) => b # c /\ k.chunkNext[b] = 255 BY <1>3, <1>4 DEF HeadDone
  <2>3. HasTail(s) => k.chunkNext[f] = n /\ n # 255 BY <1>2, <1>4, <1>5, <1>a DEF TailDone
  <2> QED BY <2>1, <2>2, <2>3
<1>8. GoodLine(C, N, K, k) /\ GoodLine(C, N, K, m) BY <1>2, <1>3 DEF TailDone, HeadDone
<1>t. /\ k.chunkNext[c] = t + 32
      /\ \A d \in C : l.chunkNext[d] < 64 => k.chunkStart[d] = l.chunkStart[d]
      /\ \A d \in C \ {c, f} : k.chunkNext[d] = l.chunkNext[d]
      /\ \A d \in C \ {f} : k.chunkTriangle[d] = l.chunkTriangle[d]
      /\ ~HasTail(s) => k = l /\ t = n
      /\ HasTail(s) => /\ k.chunkStart[f] = nb /\ k.chunkNext[f] = n
                       /\ k.chunkTriangle[f] = s.chunkTriangle /\ t = f
  <2>1. (~HasTail(s) => t = n) /\ (HasTail(s) => t = f) BY <1>4 DEF tailChunk
  <2> QED BY <1>2, <1>4, <2>1 DEF TailDone
<1>h. /\ m.chunkNext[b] = t + 32
      /\ \A d \in C : k.chunkNext[d] < 64 => m.chunkStart[d] = k.chunkStart[d]
      /\ \A d \in C \ {c, b} : m.chunkNext[d] = k.chunkNext[d] /\ m.chunkTriangle[d] = k.chunkTriangle[d]
      /\ ~OwnHead(s) => /\ m.chunkStart = k.chunkStart /\ m.chunkNext = k.chunkNext
                        /\ m.chunkTriangle[c] \in {k.chunkTriangle[c], s.chunkTriangle}
      /\ OwnHead(s) => /\ m.chunkStart[b] = tb /\ m.chunkTriangle[b] = s.chunkTriangle
                       /\ m.chunkNext[c] = b /\ m.chunkTriangle[c] = s.chunkTriangle + 1
  BY <1>3, <1>4 DEF HeadDone
<1>9. \A d \in C \ {c} : l.chunkNext[d] < 64 =>
        /\ k.chunkNext[d] = l.chunkNext[d] /\ m.chunkNext[d] = l.chunkNext[d]
        /\ m.chunkTriangle[d] = l.chunkTriangle[d] /\ m.chunkStart[d] = l.chunkStart[d]
  <2> SUFFICES ASSUME NEW d \in C \ {c}, l.chunkNext[d] < 64
               PROVE  /\ k.chunkNext[d] = l.chunkNext[d] /\ m.chunkNext[d] = l.chunkNext[d]
                      /\ m.chunkTriangle[d] = l.chunkTriangle[d] /\ m.chunkStart[d] = l.chunkStart[d]
    OBVIOUS
  <2>1. k.chunkNext[d] = l.chunkNext[d] /\ k.chunkTriangle[d] = l.chunkTriangle[d]
    <3>1. CASE HasTail(s)
      <4>1. d # f BY <1>5, <3>1
      <4> QED BY <1>t, <4>1
    <3>2. CASE ~HasTail(s) BY <1>t, <3>2
    <3> QED BY <3>1, <3>2
  <2>2. d # b BY <1>7, <2>1
  <2>3. m.chunkNext[d] = k.chunkNext[d] /\ m.chunkTriangle[d] = k.chunkTriangle[d] BY <1>h, <2>2
  <2>4. k.chunkStart[d] = l.chunkStart[d] /\ m.chunkStart[d] = k.chunkStart[d] BY <1>t, <1>h, <2>1
  <2> QED BY <2>1, <2>3, <2>4
<1>10. \A d \in C : l.chunkNext[d] < 64 => m.chunkStart[d] = l.chunkStart[d]
  <2>1. k.chunkNext[c] < 64 BY <1>a, <1>5, <1>t
  <2>2. m.chunkStart[c] = l.chunkStart[c] BY <1>5, <1>t, <1>h, <2>1
  <2> QED BY <1>9, <2>2
<1>11. \A d \in C \ {c} : l.chunkNext[d] < 64 => Ends(N, m, d) = Ends(N, l, d)
  <2> SUFFICES ASSUME NEW d \in C \ {c}, l.chunkNext[d] < 64 PROVE Ends(N, m, d) = Ends(N, l, d)
    OBVIOUS
  <2>1. \A e \in C : l.chunkNext[e] < 64 /\ m.chunkNext[e] < 64 => m.chunkStart[e] = l.chunkStart[e]
    BY <1>10
  <2>2. m.chunkNext[d] = l.chunkNext[d] BY <1>9
  <2> QED BY <1>8, <2>1, <2>2, KeptEnd
<1>12. m.chunkStart[n] = l.chunkStart[n] /\ EndOf(N, m.chunkStart, n) = s.chunkEnd
  <2>1. l.chunkNext[c] \in {n, n + 32} BY <1>5
  <2>2. n \in Ring(C, l.chunkNext) /\ Ends(N, l, c) = EndOf(N, l.chunkStart, n)
    BY <1>5, <2>1, ClaimedChunk
  <2>3. l.chunkNext[n] < 64 BY <2>2 DEF Ring, CHUNKNEXT_BUSY_BIT
  <2>4. m.chunkStart[n] = l.chunkStart[n] BY <1>5, <1>10, <2>3
  <2>5. s.chunkEnd = Ends(N, l, c) BY <1>4 DEF Splits
  <2> QED BY <2>2, <2>4, <2>5 DEF EndOf
<1>13. HasTail(s) =>
         /\ m.chunkStart[f] = nb /\ Ends(N, m, f) = s.chunkEnd
         /\ m.chunkTriangle[f] = s.chunkTriangle
  <2> SUFFICES ASSUME HasTail(s)
               PROVE  /\ m.chunkStart[f] = nb /\ Ends(N, m, f) = s.chunkEnd
                      /\ m.chunkTriangle[f] = s.chunkTriangle
    OBVIOUS
  <2>1. f \in C \ {c, b} BY <1>5, <1>7
  <2>2. m.chunkNext[f] = n /\ m.chunkTriangle[f] = s.chunkTriangle BY <1>t, <1>h, <2>1
  <2>3. m.chunkStart[f] = nb BY <1>a, <1>5, <1>t, <1>h, <2>1
  <2>4. NextOf(m.chunkNext[f]) = n BY <1>a, <1>5, <2>2
  <2> QED BY <1>12, <2>2, <2>3, <2>4 DEF Ends
<1>14. OwnHead(s) => /\ Ends(N, m, c) = tb - 1 /\ m.chunkTriangle[c] = s.chunkTriangle + 1
                     /\ m.chunkNext[c] = b
  <2> SUFFICES ASSUME OwnHead(s) PROVE Ends(N, m, c) = tb - 1
    BY <1>h
  <2>1. m.chunkNext[c] = b /\ m.chunkStart[b] = tb BY <1>h
  <2>2. tb # 0
    <3>1. s.chunkStart < tb BY <1>4 DEF OwnHead, HasHead
    <3> QED BY <1>6, <3>1
  <2>3. EndOf(N, m.chunkStart, b) = tb - 1 BY <1>6, <2>1, <2>2, EndOfIs
  <2>4. NextOf(m.chunkNext[c]) = b BY <1>a, <1>5, <2>1
  <2> QED BY <2>3, <2>4 DEF Ends
<1>15. Ends(N, m, b) = IF HasTail(s) THEN nb - 1 ELSE s.chunkEnd
  <2>1. NextOf(m.chunkNext[b]) = t BY <1>a, <1>5, <1>h
  <2>2. CASE HasTail(s)
    <3>1. t = f /\ m.chunkStart[f] = nb BY <1>t, <1>13, <2>2
    <3>2. nb \in 0 .. (N - 1) /\ nb # 0
      <4>1. nb < s.chunkEnd BY <1>4, <2>2 DEF HasTail
      <4> QED BY <1>6, <4>1
    <3>3. EndOf(N, m.chunkStart, f) = nb - 1 BY <3>1, <3>2, EndOfIs
    <3> QED BY <2>1, <2>2, <3>1, <3>3 DEF Ends
  <2>3. CASE ~HasTail(s)
    <3>1. t = n BY <1>t, <2>3
    <3> QED BY <1>12, <2>1, <2>3, <3>1 DEF Ends
  <2> QED BY <2>2, <2>3
<1>16. m.chunkStart[b] = IF OwnHead(s) THEN tb ELSE s.chunkStart
  <2>1. CASE OwnHead(s) BY <1>h, <2>1
  <2>2. CASE ~OwnHead(s) BY <1>5, <1>7, <1>10, <2>2
  <2> QED BY <2>1, <2>2
<1>17. m.chunkTriangle[b] < K
  <2>1. CASE OwnHead(s) BY <1>5, <1>h, <2>1
  <2>2. CASE ~OwnHead(s)
    <3>1. m.chunkTriangle[c] \in {k.chunkTriangle[c], s.chunkTriangle} BY <1>h, <2>2
    <3>2. k.chunkTriangle[c] = l.chunkTriangle[c]
      <4>1. CASE HasTail(s) BY <1>5, <1>t, <4>1
      <4>2. CASE ~HasTail(s) BY <1>t, <4>2
      <4> QED BY <4>1, <4>2
    <3> QED BY <1>5, <1>7, <2>2, <3>1, <3>2
  <2> QED BY <2>1, <2>2
<1>18. \A d \in C : m.chunkNext[d] < 64 =>
         \/ d # c /\ l.chunkNext[d] < 64
         \/ HasTail(s) /\ d = f
         \/ OwnHead(s) /\ d = c
         \/ d = b
  <2> SUFFICES ASSUME NEW d \in C, m.chunkNext[d] < 64, d # b, ~(OwnHead(s) /\ d = c),
                      ~(HasTail(s) /\ d = f)
               PROVE  d # c /\ l.chunkNext[d] < 64
    OBVIOUS
  <2>1. d # c BY <1>7
  <2>2. m.chunkNext[d] = k.chunkNext[d] BY <1>h, <2>1
  <2>3. k.chunkNext[d] = l.chunkNext[d]
    <3>1. CASE HasTail(s) BY <1>t, <2>1, <3>1
    <3>2. CASE ~HasTail(s) BY <1>t, <3>2
    <3> QED BY <3>1, <3>2
  <2> QED BY <2>1, <2>2, <2>3
<1>19. \A d \in C : l.chunkNext[d] = 254 => m.chunkNext[d] = 254
  <2> SUFFICES ASSUME NEW d \in C, l.chunkNext[d] = 254 PROVE m.chunkNext[d] = 254
    OBVIOUS
  <2>1. d # c BY <1>5
  <2>2. k.chunkNext[d] = 254
    <3>1. CASE HasTail(s)
      <4>1. d # f BY <1>5, <3>1
      <4> QED BY <1>t, <2>1, <4>1
    <3>2. CASE ~HasTail(s) BY <1>t, <3>2
    <3> QED BY <3>1, <3>2
  <2>3. d # b BY <1>7, <2>1, <2>2
  <2> QED BY <1>h, <2>1, <2>2, <2>3
<1>20. m.chunkStart[c] = s.chunkStart BY <1>5, <1>10
<1> QED BY <1>1, <1>4, <1>5, <1>8, <1>9, <1>11, <1>13, <1>14, <1>15, <1>16, <1>17, <1>18, <1>19,
           <1>20, <1>h
        DEF SplitDone

-----------------------------------------------------------------------------
(* SplitStore, when the entry it kept is not stale.                        *)

\* The entry kept from before is free again.
LEMMA ClearedLine ==
  ASSUME RInv, NEW p \in Spus, ~StaleEntry(p), NEW s, s = spu[p],
         s.pc = "split_putllc", p \in resv, ~(HasTail(s) /\ s.freeChunk = NoChunk)
  PROVE  /\ Splits(Chunks, NumTiles, endTriangle, Cleared(s), s)
         /\ GoodLine(Chunks, NumTiles, endTriangle, Cleared(s))
         /\ Cleared(s).chunkStart = cache.chunkStart
         /\ Cleared(s).chunkTriangle = cache.chunkTriangle
         /\ \A d \in Chunks : d = s.freeChunk \/ Cleared(s).chunkNext[d] = cache.chunkNext[d]
         /\ s.freeChunk # NoChunk => ~(cache.chunkNext[s.freeChunk] < 64)
         /\ s.freeChunk2 # NoChunk => cache.chunkNext[s.freeChunk2] = 255
         /\ s.freeChunk # NoChunk => \A q \in Spus \ {p} : ~HoldsEntry(spu[q], s.freeChunk)
<1>0. PICK C, N, K, l, k, c, f : /\ C = Chunks /\ N = NumTiles /\ K = endTriangle /\ l = cache
                                 /\ k = Cleared(s) /\ c = s.chunkToProcess /\ f = s.freeChunk
  OBVIOUS
<1>l. /\ Entries(C) /\ N \in Nat /\ N > 0 /\ K \in Nat /\ GoodLine(C, N, K, l)
      /\ l.chunkTriangle \in [C -> 0 .. K]
      /\ l.chunkStart \in [C -> (0 .. (N - 1)) \cup {NoStart}]
      /\ l.chunkNext \in [C -> Links(C)]
      /\ l = [chunkTriangle |-> l.chunkTriangle, chunkStart |-> l.chunkStart, chunkNext |-> l.chunkNext]
  BY <1>0, RingFacts
<1>a. \A d \in C : d \in Nat /\ d < 32 /\ d + 32 < 64 /\ d # NoChunk
  BY <1>l, LinkFacts
<1>1. /\ s \in Locals(C, N, K) /\ OwnsChunk(C, K, l, s) /\ KnowsChunk(N, l, s)
      /\ KnowsFree(l, s, p \in resv)
  BY <1>0 DEF RInv, Types, SpuInv, SpuAt
<1>2. /\ c \in C /\ s.chunkNext \in C /\ l.chunkNext[c] = s.chunkNext + 32
      /\ l.chunkTriangle[c] < K
      /\ f \in C \cup {NoChunk} /\ s.freeChunk2 \in C \cup {NoChunk} /\ s.claimed \in BOOLEAN
  BY <1>0, <1>1 DEF Locals, OwnsChunk, CHUNKNEXT_BUSY_BIT
<1>3. f # NoChunk => f \in C /\ l.chunkNext[f] \in {254, 255} /\ f # c
  <2>1. f # NoChunk => f \in C /\ l.chunkNext[f] \in {254, 255}
    <3>1. CASE s.claimed
      BY <1>0, <1>2, <3>1 DEF StaleEntry, CHUNKNEXT_FREE_BLOCK, CHUNKNEXT_RESERVED
    <3>2. CASE ~s.claimed BY <1>0, <1>1, <1>2, <3>2 DEF KnowsFree, CHUNKNEXT_FREE_BLOCK
    <3> QED BY <3>1, <3>2
  <2>2. l.chunkNext[c] < 64 BY <1>2, <1>a
  <2> QED BY <2>1, <2>2
<1>4. s.freeChunk2 # NoChunk => l.chunkNext[s.freeChunk2] = 255
  BY <1>1 DEF KnowsFree, CHUNKNEXT_FREE_BLOCK
<1>5. /\ k \in Lines(C, N, K)
      /\ k.chunkStart = l.chunkStart /\ k.chunkTriangle = l.chunkTriangle
      /\ \A d \in C : d = f \/ k.chunkNext[d] = l.chunkNext[d]
      /\ f # NoChunk => k.chunkNext[f] = 255
  <2>1. CASE ~s.claimed
    <3>1. k = l BY <1>0, <2>1 DEF Cleared
    <3>2. f # NoChunk => l.chunkNext[f] = 255
      BY <1>0, <1>1, <2>1 DEF KnowsFree, CHUNKNEXT_FREE_BLOCK
    <3> QED BY <1>l, <3>1, <3>2 DEF GoodLine
  <2>2. CASE s.claimed
    <3>1. f # NoChunk BY <1>0, <1>1, <2>2 DEF KnowsFree
    <3>2. k = [l EXCEPT !.chunkNext[f] = 255] BY <1>0, <2>2 DEF Cleared, CHUNKNEXT_FREE_BLOCK
    <3>3. k = [chunkTriangle |-> l.chunkTriangle, chunkStart |-> l.chunkStart,
               chunkNext |-> [l.chunkNext EXCEPT ![f] = 255]]
      BY <1>l, <3>2
    <3>4. 255 \in Links(C) BY DEF Links, CHUNKNEXT_FREE_BLOCK
    <3> QED BY <1>l, <1>3, <3>1, <3>3, <3>4 DEF Lines
  <2> QED BY <2>1, <2>2
<1>6. GoodLine(C, N, K, k)
  <2>1. \A d \in C : l.chunkNext[d] < 64 => k.chunkNext[d] = l.chunkNext[d]
    <3>1. CASE f = NoChunk BY <1>5, <1>a, <3>1
    <3>2. CASE f # NoChunk BY <1>3, <1>5, <3>2
    <3> QED BY <3>1, <3>2
  <2>2. \A d \in C : k.chunkNext[d] < 64 => l.chunkNext[d] < 64
    <3>1. CASE f = NoChunk BY <1>5, <1>a, <3>1
    <3>2. CASE f # NoChunk BY <1>3, <1>5, <3>2
    <3> QED BY <3>1, <3>2
  <2>3. \A d \in C : l.chunkNext[d] < 64 =>
           /\ k.chunkNext[d] < 64 /\ NextOf(k.chunkNext[d]) = NextOf(l.chunkNext[d])
           /\ k.chunkStart[d] = l.chunkStart[d]
    BY <1>5, <2>1
  <2> QED BY <1>l, <1>5, <2>2, <2>3, LineSame
<1>7. Splits(C, N, K, k, s)
  <2>1. c # f BY <1>2, <1>3, <1>a
  <2>2. k.chunkNext[c] = l.chunkNext[c] BY <1>2, <1>5, <2>1
  <2>3. Ends(N, k, c) = Ends(N, l, c) BY <1>5, <2>2 DEF Ends
  <2>4. s.freeChunk2 # NoChunk => k.chunkNext[s.freeChunk2] = 255
    BY <1>2, <1>4, <1>5, <1>a
  <2>5. HasTail(s) => f # NoChunk BY <1>0
  <2>6. HasTail(s) /\ HasHead(s) => f # s.freeChunk2
    <3>1. CASE s.claimed BY <1>0, <3>1 DEF StaleEntry
    <3>2. CASE ~s.claimed BY <1>0, <1>1, <2>5, <3>2 DEF KnowsFree
    <3> QED BY <3>1, <3>2
  <2>7. /\ s.chunkStart = l.chunkStart[c] /\ s.chunkEnd = Ends(N, l, c)
        /\ s.chunkTriangle < s.endTriangle /\ s.firstTile \in s.chunkStart .. s.chunkEnd
    BY <1>0, <1>1 DEF KnowsChunk, Splitting
  <2> QED BY <1>0, <1>1, <1>2, <1>5, <2>2, <2>3, <2>4, <2>5, <2>6, <2>7 DEF Splits
<1>8. f # NoChunk => \A q \in Spus \ {p} : ~HoldsEntry(spu[q], f)
  <2> SUFFICES ASSUME f # NoChunk, NEW q \in Spus \ {p} PROVE ~HoldsEntry(spu[q], f)
    OBVIOUS
  <2>1. CASE s.claimed BY <1>0, <2>1 DEF StaleEntry
  <2>2. CASE ~s.claimed
    <3>1. l.chunkNext[f] = 255 BY <1>0, <1>1, <2>2 DEF KnowsFree, CHUNKNEXT_FREE_BLOCK
    <3>2. KeepsEntry(C, l, spu[q]) BY <1>0 DEF RInv, SpuInv, SpuAt
    <3> QED BY <1>3, <3>1, <3>2 DEF KeepsEntry, CHUNKNEXT_RESERVED
  <2> QED BY <2>1, <2>2
<1>9. f # NoChunk => ~(l.chunkNext[f] < 64) BY <1>3
<1> QED BY <1>0, <1>4, <1>5, <1>6, <1>7, <1>8, <1>9

\* The locals after a split.
BlockTaken(s, z) ==
  /\ s.pc = "split_putllc" /\ z.pc = "render" /\ z.chunkToProcess = BlockChunk(s)
  /\ z.chunkStart = s.firstTile /\ z.chunkEnd = nextBlockStart(s) - 1
  /\ z.thisBlockStart = thisBlockStart(s) /\ z.chunkTriangle = s.chunkTriangle
  /\ z.realBlockStart = IF HasHead(s) /\ ~OwnHead(s) THEN s.chunkStart ELSE thisBlockStart(s)

LEMMA SplitStore_Step ==
  ASSUME RInv, NEW p \in Spus, ~StaleEntry(p), SplitStore(p)
  PROVE  \E z, e : /\ Writes(p, z) /\ BlockTaken(spu[p], z)
                  /\ Splits(Chunks, NumTiles, endTriangle, Cleared(spu[p]), spu[p])
                  /\ SplitDone(Chunks, NumTiles, endTriangle, Cleared(spu[p]), spu[p], e)
                  /\ Merged(Chunks, NumTiles, e, cache')
<1>1. PICK s : s = spu[p] OBVIOUS
<1>0. PICK C, N, K, l, m, k, e : /\ C = Chunks /\ N = NumTiles /\ K = endTriangle /\ l = cache
                                 /\ m = cache' /\ k = Cleared(s) /\ e = WithHead(WithTail(k, s), s)
  OBVIOUS
<1>l. /\ Entries(C) /\ N \in Nat /\ N > 0 /\ K \in Nat /\ GoodLine(C, N, K, l)
  BY <1>0, RingFacts
<1>a. \A d \in C : /\ d \in Nat /\ d < 32 /\ d + 32 < 64 /\ ~(d + 32 < 32) /\ d # NoChunk
                   /\ d + 32 # 254 /\ d + 32 # 255
  <2>1. \A d \in C : /\ d \in Nat /\ d < 32 /\ d + 32 < 64 /\ d # NoChunk BY <1>l, LinkFacts
  <2> QED BY <2>1
<1>2. /\ s.pc = "split_putllc" /\ p \in resv /\ ~(HasTail(s) /\ s.freeChunk = NoChunk)
      /\ m = merge_cache_blocks(e)
      /\ resv' = {} /\ UNCHANGED <<triangles, buffer, pixels>>
  BY <1>0, <1>1 DEF SplitStore
<1>3. PICK b, t, nb, tb : /\ b = BlockChunk(s) /\ t = tailChunk(s)
                          /\ nb = nextBlockStart(s) /\ tb = thisBlockStart(s)
  OBVIOUS
<1>4. /\ Splits(C, N, K, k, s) /\ GoodLine(C, N, K, k)
      /\ k.chunkStart = l.chunkStart /\ k.chunkTriangle = l.chunkTriangle
      /\ \A d \in C : d = s.freeChunk \/ k.chunkNext[d] = l.chunkNext[d]
      /\ s.freeChunk # NoChunk => ~(l.chunkNext[s.freeChunk] < 64)
      /\ s.freeChunk2 # NoChunk => l.chunkNext[s.freeChunk2] = 255
      /\ s.freeChunk # NoChunk => \A q \in Spus \ {p} : ~HoldsEntry(spu[q], s.freeChunk)
  BY <1>0, <1>1, <1>2, ClearedLine
<1>5. SplitDone(C, N, K, k, s, e) BY <1>0, <1>l, <1>4, SplitLine
<1>6. GoodLine(C, N, K, m) /\ Merged(C, N, e, m)
  <2>1. GoodLine(Chunks, N, K, e) /\ Entries(Chunks) BY <1>0, <1>5, <1>l DEF SplitDone
  <2>2. GoodLine(Chunks, N, K, merge_cache_blocks(e)) /\ Merged(Chunks, N, e, merge_cache_blocks(e))
    BY <1>l, <2>1, MergeKeeps
  <2> QED BY <1>0, <1>2, <2>2
<1>7. /\ s \in Locals(C, N, K) /\ s.chunkToProcess \in C /\ s.chunkTriangle < s.endTriangle
      /\ b \in C /\ t \in C /\ e.chunkNext[b] = t + 32 /\ e.chunkTriangle[b] < K
      /\ m.chunkNext[b] = t + 32 /\ m.chunkTriangle[b] < K
      /\ m.chunkStart[b] = IF OwnHead(s) THEN tb ELSE s.chunkStart
      /\ Ends(N, m, b) = IF HasTail(s) THEN nb - 1 ELSE s.chunkEnd
  <2>1. /\ b \in C /\ t \in C /\ e.chunkNext[b] = t + 32 /\ e.chunkTriangle[b] < K
        /\ e.chunkStart[b] = IF OwnHead(s) THEN tb ELSE s.chunkStart
        /\ Ends(N, e, b) = IF HasTail(s) THEN nb - 1 ELSE s.chunkEnd
        /\ GoodLine(C, N, K, e)
    BY <1>3, <1>5 DEF SplitDone
  <2>2. e.chunkNext[b] < 64 /\ ~(e.chunkNext[b] < 32) BY <1>a, <2>1
  <2>3. m.chunkNext[b] = e.chunkNext[b] /\ m.chunkTriangle = e.chunkTriangle
    BY <1>6, <2>1, <2>2 DEF Merged
  <2>4. \A d \in C : e.chunkNext[d] < 64 /\ m.chunkNext[d] < 64 => m.chunkStart[d] = e.chunkStart[d]
    BY <1>6 DEF Merged
  <2>5. m.chunkStart[b] = e.chunkStart[b] /\ Ends(N, m, b) = Ends(N, e, b)
    BY <1>l, <1>6, <2>1, <2>2, <2>3, <2>4, KeptEnd
  <2>6. s \in Locals(C, N, K) /\ s.chunkToProcess \in C /\ s.chunkTriangle < s.endTriangle
    BY <1>4 DEF Splits
  <2> QED BY <2>1, <2>3, <2>5, <2>6
<1>8. /\ s.chunkStart <= tb /\ tb <= s.firstTile /\ s.firstTile < nb /\ nb <= s.chunkEnd + 1
      /\ nb <= tb + TilesPerChunk /\ nb \in Nat /\ tb \in Nat
      /\ s.chunkStart \in 0 .. (N - 1) /\ s.chunkEnd \in 0 .. (N - 1) /\ s.firstTile \in 0 .. (N - 1)
      /\ TilesPerChunk \in Nat
  <2>1. s \in Locals(C, N, K) /\ s.firstTile \in s.chunkStart .. s.chunkEnd BY <1>4 DEF Splits
  <2>2. TilesPerChunk \in Nat BY RenderChunksAssumption
  <2> QED BY <1>3, <1>l, <2>1, <2>2, BlockBounds
<1>9. PICK z : z = [s EXCEPT !.pc = "render",
                             !.chunkToProcess = b,
                             !.chunkNext = t,
                             !.chunkStart = s.firstTile,
                             !.chunkEnd = nb - 1,
                             !.thisBlockStart = tb,
                             !.realBlockStart = IF HasHead(s) /\ ~OwnHead(s) THEN s.chunkStart ELSE tb,
                             !.freeChunk = NoChunk, !.freeChunk2 = NoChunk, !.claimed = FALSE]
  OBVIOUS
<1>10. spu' = [spu EXCEPT ![p] = z]
  <2>1. spu' = [spu EXCEPT ![p] =
                  [s EXCEPT !.pc = "render",
                            !.chunkToProcess = IF OwnHead(s) THEN headChunk(s) ELSE @,
                            !.chunkNext = tailChunk(s),
                            !.chunkStart = s.firstTile,
                            !.chunkEnd = nextBlockStart(s) - 1,
                            !.thisBlockStart = thisBlockStart(s),
                            !.realBlockStart =
                               IF HasHead(s) /\ ~OwnHead(s) THEN s.chunkStart ELSE thisBlockStart(s),
                            !.freeChunk = NoChunk, !.freeChunk2 = NoChunk, !.claimed = FALSE]]
    BY <1>1 DEF SplitStore, OwnHead
  <2>2. b = IF OwnHead(s) THEN headChunk(s) ELSE s.chunkToProcess BY <1>3 DEF BlockChunk
  <2> QED BY <1>3, <1>9, <2>1, <2>2
<1>11. /\ z.pc = "render" /\ z.chunkToProcess = b /\ z.chunkNext = t /\ z.chunkStart = s.firstTile
       /\ z.chunkEnd = nb - 1 /\ z.thisBlockStart = tb /\ z.freeChunk = NoChunk
       /\ z.firstTile = s.firstTile /\ z.chunkTriangle = s.chunkTriangle
       /\ z.endTriangle = s.endTriangle
       /\ z \in Locals(C, N, K)
  <2>1. nb - 1 \in 0 .. (N - 1) /\ tb \in 0 .. (N - 1) /\ s.firstTile \in 0 .. (N - 1) BY <1>8, <1>l
  <2>2. (IF HasHead(s) /\ ~OwnHead(s) THEN s.chunkStart ELSE tb) \in 0 .. (N - 1) BY <1>8, <2>1
  <2> QED BY <1>7, <1>9, <2>1, <2>2 DEF Locals, Steps
<1>12. DOMAIN buffer[p] = {}
  <2>1. DOMAIN buffer[p] \subseteq Block(s) BY <1>1 DEF RInv, SpuInv, SpuAt
  <2> QED BY <1>2, <2>1 DEF Block, Drawing
<1>13. SpuAt(C, N, K, m, z, FALSE, DOMAIN buffer[p])
  <2>1. OwnsChunk(C, K, m, z) BY <1>7, <1>11 DEF OwnsChunk, CHUNKNEXT_BUSY_BIT
  <2>2. KnowsChunk(N, m, z) BY <1>11 DEF KnowsChunk, Splitting
  <2>3. KnowsFree(m, z, FALSE) BY <1>11 DEF KnowsFree
  <2>4. KnowsBlock(N, m, z)
    <3>1. m.chunkStart[b] <= tb BY <1>7, <1>8
    <3>2. nb - 1 <= Ends(N, m, b) BY <1>7, <1>8
    <3>3. s.firstTile <= nb - 1 /\ nb - 1 < tb + TilesPerChunk BY <1>8
    <3> QED BY <1>7, <1>8, <1>11, <3>1, <3>2, <3>3 DEF KnowsBlock, Drawing
  <2>5. KeepsEntry(C, m, z) BY <1>11 DEF KeepsEntry, HoldsEntry
  <2> QED BY <1>12, <2>1, <2>2, <2>3, <2>4, <2>5 DEF SpuAt
<1>14. b # s.chunkToProcess => k.chunkNext[b] = 255
  <2> SUFFICES ASSUME b # s.chunkToProcess PROVE k.chunkNext[b] = 255
    OBVIOUS
  <2>1. b = headChunk(s) /\ b # NoChunk BY <1>3 DEF BlockChunk, OwnHead
  <2>2. b \in {s.freeChunk, s.freeChunk2} BY <2>1 DEF headChunk
  <2> QED BY <1>4, <2>1, <2>2 DEF Splits
<1>15. ASSUME NEW q \in Spus \ {p} PROVE Spares(C, l, m, spu[q]) /\ Apart(C, z, spu[q])
  <2>1. PICK w : w = spu[q] OBVIOUS
  <2>2. w \in Locals(C, N, K) /\ OwnsChunk(C, K, l, w) /\ KeepsEntry(C, l, w) /\ Apart(C, s, w)
    BY <1>0, <1>1, <2>1 DEF RInv, Types, SpuInv, SpuAt
  <2>m. /\ \A d \in C : ~(e.chunkNext[d] < 32) => m.chunkNext[d] = e.chunkNext[d]
        /\ m.chunkTriangle = e.chunkTriangle
    BY <1>6 DEF Merged
  <2>3. w.pc # "idle" =>
          /\ w.chunkToProcess # b
          /\ m.chunkNext[w.chunkToProcess] = l.chunkNext[w.chunkToProcess]
          /\ m.chunkTriangle[w.chunkToProcess] = l.chunkTriangle[w.chunkToProcess]
    <3> SUFFICES ASSUME w.pc # "idle"
                 PROVE  /\ w.chunkToProcess # b
                        /\ m.chunkNext[w.chunkToProcess] = l.chunkNext[w.chunkToProcess]
                        /\ m.chunkTriangle[w.chunkToProcess] = l.chunkTriangle[w.chunkToProcess]
      OBVIOUS
    <3>1. PICK d : d = w.chunkToProcess OBVIOUS
    <3>2. /\ d \in C /\ w.chunkNext \in C /\ l.chunkNext[d] = w.chunkNext + 32
          /\ d # s.chunkToProcess
      BY <1>2, <2>2, <3>1 DEF Locals, OwnsChunk, Apart, CHUNKNEXT_BUSY_BIT
    <3>3. l.chunkNext[d] < 64 /\ ~(l.chunkNext[d] < 32) BY <1>a, <3>2
    <3>4. d # s.freeChunk BY <1>4, <1>a, <3>2, <3>3
    <3>5. k.chunkNext[d] = l.chunkNext[d] BY <1>4, <3>2, <3>4
    <3>6. d # b BY <1>14, <3>2, <3>3, <3>5
    <3>7. e.chunkNext[d] = k.chunkNext[d] /\ e.chunkTriangle[d] = k.chunkTriangle[d]
      BY <1>5, <3>2, <3>3, <3>5 DEF SplitDone
    <3>8. m.chunkNext[d] = l.chunkNext[d] /\ m.chunkTriangle[d] = l.chunkTriangle[d]
      BY <1>4, <2>m, <3>2, <3>3, <3>5, <3>7
    <3> QED BY <3>1, <3>6, <3>8
  <2>4. ASSUME NEW d \in C, HoldsEntry(w, d) PROVE m.chunkNext[d] = l.chunkNext[d]
    <3>1. l.chunkNext[d] = 254 BY <2>2, <2>4 DEF KeepsEntry, CHUNKNEXT_RESERVED
    <3>2. d # s.freeChunk
      <4>1. s.freeChunk # NoChunk => ~HoldsEntry(w, s.freeChunk) BY <1>4, <2>1
      <4> QED BY <1>a, <2>4, <4>1
    <3>3. k.chunkNext[d] = 254 BY <1>4, <3>1, <3>2
    <3>4. e.chunkNext[d] = 254 BY <1>5, <3>3 DEF SplitDone
    <3> QED BY <2>m, <3>1, <3>4
  <2>5. Spares(C, l, m, w) BY <2>3, <2>4 DEF Spares
  <2>6. Apart(C, z, w) BY <1>11, <2>3 DEF Apart, HoldsEntry
  <2> QED BY <2>1, <2>5, <2>6
<1>16. \A d \in C : l.chunkNext[d] < 64 /\ m.chunkNext[d] < 64 => m.chunkStart[d] = l.chunkStart[d]
  <2> SUFFICES ASSUME NEW d \in C, l.chunkNext[d] < 64, m.chunkNext[d] < 64
               PROVE  m.chunkStart[d] = l.chunkStart[d]
    OBVIOUS
  <2>1. m.chunkStart[d] = e.chunkStart[d] BY <1>6 DEF Merged
  <2>2. CASE d = s.chunkToProcess
    <3>1. e.chunkStart[d] = s.chunkStart BY <1>5, <2>2 DEF SplitDone
    <3>2. s.chunkStart = l.chunkStart[d] BY <1>4, <2>2 DEF Splits
    <3> QED BY <2>1, <3>1, <3>2
  <2>3. CASE d # s.chunkToProcess
    <3>1. d # s.freeChunk BY <1>4, <1>a
    <3>2. k.chunkNext[d] < 64 BY <1>4, <3>1
    <3>3. e.chunkStart[d] = k.chunkStart[d] BY <1>5, <2>3, <3>2 DEF SplitDone
    <3> QED BY <1>4, <2>1, <3>3
  <2> QED BY <2>2, <2>3
<1>17. resv' = {} /\ UNCHANGED <<triangles, buffer, pixels>> BY <1>2
<1>18. z \in Locals(C, N, K) BY <1>11
<1>19. Writes(p, z)
  BY <1>0, <1>6, <1>10, <1>13, <1>15, <1>16, <1>17, <1>18 DEF Writes
<1>20. BlockTaken(s, z)
  <2>1. z.realBlockStart = IF HasHead(s) /\ ~OwnHead(s) THEN s.chunkStart ELSE tb
    BY <1>7, <1>9 DEF Locals
  <2> QED BY <1>2, <1>3, <1>11, <2>1 DEF BlockTaken
<1> QED BY <1>0, <1>1, <1>4, <1>5, <1>6, <1>19, <1>20

-----------------------------------------------------------------------------
(* Every step keeps the invariant, and what it gives.                      *)

LEMMA Idle_RInv == ASSUME RInv, UNCHANGED vars PROVE RInv'
<1>1. UNCHANGED <<triangles, cache, resv, spu, buffer, pixels>> BY DEF vars
<1>2. Chunks' = Chunks /\ NumTiles' = NumTiles /\ endTriangle' = endTriangle /\ Tiles' = Tiles
  BY <1>1 DEF Chunks, NumTiles, endTriangle, Tiles
<1>3. Types' BY <1>1, <1>2 DEF RInv, Types, LayoutInv
<1>4. GoodLine(Chunks, NumTiles, endTriangle, cache)' BY <1>1, <1>2 DEF RInv
<1>5. ASSUME NEW q \in Spus PROVE SpuInv(q)'
  BY <1>1, <1>2 DEF RInv, SpuInv
<1>6. ASSUME NEW q \in Spus, NEW w \in Spus, q # w PROVE Apart(Chunks, spu[q], spu[w])'
  BY <1>1, <1>2, <1>6 DEF RInv
<1> QED BY <1>3, <1>4, <1>5, <1>6 DEF RInv

\* All steps of an SPU but the split that stores keep the invariant unconditionally.
LEMMA Step_RInv ==
  ASSUME RInv, NEW p \in Spus,
         \/ Claim(p) \/ Search(p) \/ SplitLoad(p) \/ Relinquish(p) \/ SplitRetry(p)
         \/ Render(p) \/ Flush(p) \/ Finish(p)
  PROVE  RInv'
<1>1. CASE Claim(p) BY <1>1, Claim_Step, WritesKeep
<1>2. CASE Search(p) BY <1>2, Search_Step, LeavesKeep
<1>3. CASE SplitLoad(p) BY <1>3, SplitLoad_Step, LeavesKeep
<1>4. CASE Relinquish(p) BY <1>4, Relinquish_Step, WritesKeep
<1>5. CASE SplitRetry(p) BY <1>5, SplitRetry_Step, LeavesKeep
<1>6. CASE Render(p) BY <1>6, Render_Step, LeavesKeep
<1>7. CASE Flush(p) BY <1>7, Flush_Step, LeavesKeep
<1>8. CASE Finish(p) BY <1>8, Finish_Step, WritesKeep
<1> QED BY <1>1, <1>2, <1>3, <1>4, <1>5, <1>6, <1>7, <1>8

LEMMA SplitStore_RInv ==
  ASSUME RInv, NEW p \in Spus, ~StaleEntry(p), SplitStore(p) PROVE RInv'
BY SplitStore_Step, WritesKeep

LEMMA Next_RInv == ASSUME RInv, NoStaleEntry, [Next]_vars PROVE RInv'
<1>1. CASE Submit BY <1>1, Submit_RInv
<1>2. ASSUME NEW p \in Spus, SpuNext(p) PROVE RInv'
  <2>1. CASE SplitStore(p) BY <2>1, SplitStore_RInv DEF NoStaleEntry
  <2> QED BY <1>2, <2>1, Step_RInv DEF SpuNext
<1>3. CASE Done \/ UNCHANGED vars BY <1>3, Idle_RInv DEF Done
<1> QED BY <1>1, <1>2, <1>3 DEF Next

LEMMA RInv_TypeOK == ASSUME RInv PROVE TypeOK
<1>1. /\ cache.chunkTriangle \in [Chunks -> 0 .. endTriangle]
      /\ cache.chunkStart \in [Chunks -> (0 .. (NumTiles - 1)) \cup {NoStart}]
      /\ cache.chunkNext \in [Chunks -> Links(Chunks)]
      /\ Tiles = 0 .. (NumTiles - 1) /\ endTriangle \in Nat
  BY RingFacts
<1>2. triangles \in Seq(Coverages[NumTiles]) /\ endTriangle <= MaxTriangles /\ resv \subseteq Spus
  BY DEF RInv, Types
<1>3. MaxTriangles \in Nat BY RenderChunksAssumption
<1>4. cache.chunkTriangle \in [Chunks -> 0 .. MaxTriangles] BY <1>1, <1>2, <1>3
<1>5. cache.chunkStart \in [Chunks -> Tiles \cup {NoStart}] BY <1>1
<1>6. cache.chunkNext \in [Chunks -> Chunks \cup {c + CHUNKNEXT_BUSY_BIT : c \in Chunks}
                                     \cup {CHUNKNEXT_FREE_BLOCK, CHUNKNEXT_RESERVED}]
  BY <1>1 DEF Links
<1>7. ASSUME NEW p \in Spus
      PROVE  /\ spu[p].pc \in {"idle", "search", "split_getllar", "split_putllc",
                               "render", "flush", "finish"}
             /\ spu[p].chunkToProcess \in Chunks \cup {NoChunk}
             /\ spu[p].chunkStart \in Tiles /\ spu[p].chunkEnd \in Tiles
             /\ DOMAIN buffer[p] \subseteq Working(p)
  <2>1. spu[p] \in Locals(Chunks, NumTiles, endTriangle) BY DEF RInv, Types
  <2>2. DOMAIN buffer[p] \subseteq Working(p)
    BY DEF RInv, SpuInv, SpuAt, Block, Working, Drawing
  <2> QED BY <1>1, <2>1, <2>2 DEF Locals, Steps
<1> QED BY <1>2, <1>4, <1>5, <1>6, <1>7 DEF TypeOK

\* The tiles of a chunk, as the lemmas about lines say it.
LEMMA TilesOfIs ==
  ASSUME RInv, NEW c \in Chunks
  PROVE  /\ TilesOf(c) = cache.chunkStart[c] .. Ends(NumTiles, cache, c)
         /\ InRing(c) <=> c \in Ring(Chunks, cache.chunkNext)
         /\ c \in Ring(Chunks, cache.chunkNext) =>
              Ends(NumTiles, cache, c) =
                EndOf(NumTiles, cache.chunkStart, Successors(Chunks, cache.chunkNext)[c])
BY DEF TilesOf, ChunkEnd, Ends, EndOf, InRing, Ring, Successors

LEMMA RInv_Ring ==
  ASSUME RInv, NEW t \in Tiles
  PROVE  /\ \E c \in Chunks : InRing(c) /\ t \in TilesOf(c)
         /\ \A c, d \in Chunks : /\ InRing(c) /\ t \in TilesOf(c)
                                 /\ InRing(d) /\ t \in TilesOf(d)
                           => c = d
<1>1. PICK R, N, st, nxt : /\ R = Ring(Chunks, cache.chunkNext) /\ N = NumTiles
                           /\ st = cache.chunkStart /\ nxt = Successors(Chunks, cache.chunkNext)
  OBVIOUS
<1>2. IsCycle(R, N, st, nxt) /\ N \in Nat /\ t \in 0 .. (N - 1)
  BY <1>1, RingFacts DEF GoodLine, IsRing
<1>3. \A c \in R : c \in Chunks /\ InRing(c) /\ TilesOf(c) = st[c] .. EndOf(N, st, nxt[c])
  <2>1. R \subseteq Chunks BY <1>1 DEF Ring
  <2> QED BY <1>1, <2>1, TilesOfIs
<1>4. \A c \in Chunks : InRing(c) => c \in R BY <1>1, TilesOfIs
<1>5. \A c \in R : /\ st[c] \in Int /\ EndOf(N, st, nxt[c]) \in Int
  <2> SUFFICES ASSUME NEW c \in R PROVE st[c] \in Int /\ EndOf(N, st, nxt[c]) \in Int
    OBVIOUS
  <2>1. IsChunk(R, N, st, c, nxt[c]) BY <1>2, ChunkIsSome
  <2> QED BY <2>1 DEF IsChunk
<1>6. /\ \E c \in R : st[c] <= t /\ t <= EndOf(N, st, nxt[c])
      /\ \A c, d \in R : /\ st[c] <= t /\ t <= EndOf(N, st, nxt[c])
                         /\ st[d] <= t /\ t <= EndOf(N, st, nxt[d])
                         => c = d
  BY <1>2, CyclePartitions
<1>7. \A c \in R : t \in TilesOf(c) <=> st[c] <= t /\ t <= EndOf(N, st, nxt[c])
  BY <1>2, <1>3, <1>5
<1>8. \E c \in Chunks : InRing(c) /\ t \in TilesOf(c)
  <2>1. PICK c \in R : st[c] <= t /\ t <= EndOf(N, st, nxt[c]) BY <1>6
  <2> QED BY <1>3, <1>7, <2>1
<1>9. \A c, d \in Chunks : /\ InRing(c) /\ t \in TilesOf(c)
                           /\ InRing(d) /\ t \in TilesOf(d)
                           => c = d
  <2> SUFFICES ASSUME NEW c \in Chunks, NEW d \in Chunks,
                      InRing(c), t \in TilesOf(c), InRing(d), t \in TilesOf(d)
               PROVE  c = d
    OBVIOUS
  <2>1. c \in R /\ d \in R BY <1>4
  <2> QED BY <1>6, <1>7, <2>1
<1> QED BY <1>8, <1>9

LEMMA RInv_Partition == ASSUME RInv PROVE ChunksPartitionTiles
<1> SUFFICES ASSUME NEW t \in Tiles
             PROVE  Cardinality({c \in Chunks : InRing(c) /\ t \in TilesOf(c)}) = 1
  BY DEF ChunksPartitionTiles
<1>1. PICK c \in Chunks : InRing(c) /\ t \in TilesOf(c) BY RInv_Ring
<1>2. \A d \in Chunks : InRing(d) /\ t \in TilesOf(d) => d = c BY <1>1, RInv_Ring
<1>3. {d \in Chunks : InRing(d) /\ t \in TilesOf(d)} = {c} BY <1>1, <1>2
<1> QED BY <1>3, FS_Singleton

LEMMA Block_Facts ==
  ASSUME RInv, NEW p \in Spus, Working(p) # {}
  PROVE  /\ cache.chunkNext[spu[p].chunkToProcess] = spu[p].chunkNext + CHUNKNEXT_BUSY_BIT
         /\ Working(p) \subseteq TilesOf(spu[p].chunkToProcess)
         /\ spu[p].chunkToProcess \in Chunks /\ InRing(spu[p].chunkToProcess)
         /\ Working(p) \subseteq Tiles
         /\ Cardinality(Working(p)) <= TilesPerChunk
         /\ spu[p].pc # "idle"
<1>0. PICK C, N, K, s, c : /\ C = Chunks /\ N = NumTiles /\ K = endTriangle /\ s = spu[p]
                           /\ c = s.chunkToProcess
  OBVIOUS
<1>1. s.pc \in Drawing /\ Working(p) = s.thisBlockStart .. s.chunkEnd
  BY <1>0 DEF Working, Drawing
<1>2. /\ s \in Locals(C, N, K) /\ OwnsChunk(C, K, cache, s) /\ KnowsBlock(N, cache, s)
      /\ Entries(C) /\ N \in Nat /\ GoodLine(C, N, K, cache) /\ Tiles = 0 .. (N - 1)
  BY <1>0, RingFacts DEF RInv, Types, SpuInv, SpuAt
<1>3. c \in C /\ s.chunkNext \in C /\ cache.chunkNext[c] = s.chunkNext + 32
  BY <1>0, <1>1, <1>2 DEF OwnsChunk, Locals, Drawing, CHUNKNEXT_BUSY_BIT
<1>4. /\ cache.chunkStart[c] <= s.thisBlockStart /\ s.chunkEnd <= Ends(N, cache, c)
      /\ s.chunkEnd < s.thisBlockStart + TilesPerChunk
      /\ s.thisBlockStart <= s.chunkStart /\ s.chunkStart <= s.chunkEnd
  BY <1>0, <1>1, <1>2 DEF KnowsBlock
<1>5. s.thisBlockStart \in 0 .. (N - 1) /\ s.chunkEnd \in 0 .. (N - 1) /\ s.chunkStart \in 0 .. (N - 1)
  BY <1>2 DEF Locals
<1>6. cache.chunkNext[c] \in {s.chunkNext, s.chunkNext + 32} BY <1>3
<1>7. /\ IsChunk(Ring(C, cache.chunkNext), N, cache.chunkStart, c, s.chunkNext)
      /\ c \in Ring(C, cache.chunkNext)
      /\ Ends(N, cache, c) = EndOf(N, cache.chunkStart, s.chunkNext)
  BY <1>2, <1>3, <1>6, ClaimedChunk
<1>8. cache.chunkStart[c] \in Int /\ Ends(N, cache, c) \in Int BY <1>7 DEF IsChunk
<1>9. TilesOf(c) = cache.chunkStart[c] .. Ends(N, cache, c) /\ InRing(c)
  BY <1>0, <1>3, <1>7, TilesOfIs
<1>10. Working(p) \subseteq TilesOf(c) BY <1>1, <1>4, <1>5, <1>8, <1>9
<1>11. Working(p) \subseteq Tiles BY <1>1, <1>2, <1>5
<1>12. Cardinality(Working(p)) <= TilesPerChunk
  <2>1. PICK a, e : a = s.thisBlockStart /\ e = s.chunkEnd OBVIOUS
  <2>2. a \in Int /\ e \in Int /\ a <= e /\ e < a + TilesPerChunk /\ TilesPerChunk \in Nat
    BY <1>4, <1>5, <2>1, RenderChunksAssumption
  <2>3. Cardinality(a .. e) = IF a > e THEN 0 ELSE e - a + 1 BY <2>2, FS_Interval
  <2> QED BY <1>1, <2>1, <2>2, <2>3
<1>13. s.pc # "idle" BY <1>1 DEF Drawing
<1> QED BY <1>0, <1>3, <1>9, <1>10, <1>11, <1>12, <1>13 DEF CHUNKNEXT_BUSY_BIT

LEMMA RInv_Exclusive == ASSUME RInv PROVE TilesAreExclusive
<1> SUFFICES ASSUME NEW p \in Spus, Working(p) # {}
             PROVE  /\ cache.chunkNext[spu[p].chunkToProcess] = spu[p].chunkNext + CHUNKNEXT_BUSY_BIT
                    /\ Working(p) \subseteq TilesOf(spu[p].chunkToProcess)
                    /\ \A q \in Spus \ {p} : Working(p) \cap Working(q) = {}
                    /\ Cardinality(Working(p)) <= TilesPerChunk
  BY DEF TilesAreExclusive
<1>1. ASSUME NEW q \in Spus \ {p}, NEW t \in Working(p) \cap Working(q) PROVE FALSE
  <2>1. /\ spu[p].chunkToProcess \in Chunks /\ InRing(spu[p].chunkToProcess)
        /\ t \in TilesOf(spu[p].chunkToProcess) /\ t \in Tiles /\ spu[p].pc # "idle"
    BY <1>1, Block_Facts
  <2>2. /\ spu[q].chunkToProcess \in Chunks /\ InRing(spu[q].chunkToProcess)
        /\ t \in TilesOf(spu[q].chunkToProcess) /\ spu[q].pc # "idle"
    BY <1>1, Block_Facts
  <2>3. spu[p].chunkToProcess = spu[q].chunkToProcess BY <2>1, <2>2, RInv_Ring
  <2>4. Apart(Chunks, spu[p], spu[q]) BY DEF RInv
  <2> QED BY <2>1, <2>2, <2>3, <2>4 DEF Apart
<1> QED BY <1>1, Block_Facts

LEMMA RInv_Asks == ASSUME RInv PROVE AsksForChunks /\ AsksForBlocks
<1>1. ASSUME NEW p \in Spus
      PROVE  /\ spu[p] \in Locals(Chunks, NumTiles, endTriangle)
             /\ OwnsChunk(Chunks, endTriangle, cache, spu[p])
             /\ KnowsChunk(NumTiles, cache, spu[p]) /\ KnowsBlock(NumTiles, cache, spu[p])
  BY DEF RInv, Types, SpuInv, SpuAt
<1>2. /\ Entries(Chunks) /\ NumTiles \in Nat /\ GoodLine(Chunks, NumTiles, endTriangle, cache)
      /\ Tiles = 0 .. (NumTiles - 1) /\ TilesPerChunk \in Nat
  BY RingFacts, RenderChunksAssumption
<1>3. ASSUME NEW p \in Spus, spu[p].pc = "search"
      PROVE  /\ {spu[p].chunkStart, spu[p].chunkEnd} \subseteq Tiles
             /\ spu[p].chunkStart <= spu[p].chunkEnd
  <2>1. PICK C, N, K, s, c : /\ C = Chunks /\ N = NumTiles /\ K = endTriangle /\ s = spu[p]
                             /\ c = spu[p].chunkToProcess
    OBVIOUS
  <2>2. c \in C /\ s.chunkNext \in C /\ cache.chunkNext[c] = s.chunkNext + 32
    BY <1>1, <1>3, <2>1 DEF OwnsChunk, Locals, CHUNKNEXT_BUSY_BIT
  <2>3. cache.chunkNext[c] \in {s.chunkNext, s.chunkNext + 32} BY <2>2
  <2>4. /\ IsChunk(Ring(C, cache.chunkNext), N, cache.chunkStart, c, s.chunkNext)
        /\ Ends(N, cache, c) = EndOf(N, cache.chunkStart, s.chunkNext)
    BY <1>2, <2>1, <2>2, <2>3, ClaimedChunk
  <2>5. s.chunkStart = cache.chunkStart[c] /\ s.chunkEnd = Ends(N, cache, c)
    BY <1>1, <1>3, <2>1 DEF KnowsChunk
  <2>6. s.chunkStart <= s.chunkEnd BY <2>4, <2>5 DEF IsChunk
  <2> QED BY <1>1, <1>2, <2>1, <2>6 DEF Locals
<1>4. ASSUME NEW p \in Spus, spu[p].pc = "render"
      PROVE  /\ spu[p].firstTile \in spu[p].thisBlockStart .. spu[p].chunkEnd
             /\ spu[p].chunkEnd - spu[p].thisBlockStart < TilesPerChunk
  <2>1. PICK N, s, T : N = NumTiles /\ s = spu[p] /\ T = TilesPerChunk OBVIOUS
  <2>2. /\ s.thisBlockStart <= s.chunkStart /\ s.chunkStart <= s.chunkEnd
        /\ s.chunkStart = s.firstTile /\ s.chunkEnd < s.thisBlockStart + T
    BY <1>1, <1>4, <2>1 DEF KnowsBlock, Drawing
  <2>3. /\ s.thisBlockStart \in 0 .. (N - 1) /\ s.chunkEnd \in 0 .. (N - 1)
        /\ s.firstTile \in 0 .. (N - 1) /\ N \in Nat /\ T \in Nat
    BY <1>1, <1>2, <2>1 DEF Locals
  <2>4. s.firstTile \in s.thisBlockStart .. s.chunkEnd /\ s.chunkEnd - s.thisBlockStart < T
    BY <2>2, <2>3
  <2> QED BY <2>1, <2>4
<1> QED BY <1>3, <1>4 DEF AsksForChunks, AsksForBlocks

\* While no entry is stale, the line is a ring of chunks over the tiles and every
\* SPU knows what RInv says of its chunk, its block and its free entries, however
\* the claims, splits, merges and failed PUTLLCs of the others fall between its steps.
THEOREM RingHolds == Spec /\ []NoStaleEntry => []RInv
<1>1. Init => RInv BY Init_RInv
<1>2. RInv /\ NoStaleEntry /\ [Next]_vars => RInv' BY Next_RInv
<1> QED BY <1>1, <1>2, PTL DEF Spec

\* While no entry is stale, every variable keeps the type the code gives it: the
\* links stay links, and an SPU only buffers tiles of its block.
THEOREM TypesHold == Spec /\ []NoStaleEntry => []TypeOK
<1>1. RInv => TypeOK BY RInv_TypeOK
<1> QED BY <1>1, RingHolds, PTL

\* While no entry is stale, the chunks of the line partition the tiles.
THEOREM PartitionHolds == Spec /\ []NoStaleEntry => []ChunksPartitionTiles
<1>1. RInv => ChunksPartitionTiles BY RInv_Partition
<1> QED BY <1>1, RingHolds, PTL

\* While no entry is stale, no two SPUs work on one tile, each keeps to the chunk
\* it has marked busy, and a block fits the tile buffers.
THEOREM ExclusionHolds == Spec /\ []NoStaleEntry => []TilesAreExclusive
<1>1. RInv => TilesAreExclusive BY RInv_Exclusive
<1> QED BY <1>1, RingHolds, PTL

\* While no entry is stale, the searches are asked for chunks and blocks that they
\* can answer for: none is empty or longer than the buffers.
THEOREM AsksHold == Spec /\ []NoStaleEntry => [](AsksForChunks /\ AsksForBlocks)
<1>1. RInv => AsksForChunks /\ AsksForBlocks BY RInv_Asks
<1> QED BY <1>1, RingHolds, PTL
=============================================================================
