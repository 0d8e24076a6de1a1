------------------------------- MODULE Raster -------------------------------
(***************************************************************************)
(* What the render SPUs promise together, independent of chunks, cache     *)
(* lines and reservations: the triangles are drawn on every tile in the    *)
(* order they were submitted, none twice and none left out.                *)
(***************************************************************************)
EXTENDS Naturals, Sequences, FiniteSets

CONSTANTS TileSets,  \* the tiles a renderable may have
          Coverages  \* the sets of tiles a triangle may cover, by the number of tiles

VARIABLES triangles,  \* triangles[k]: the tiles that the k-th triangle covers
          pixels      \* pixels[t]: the triangles drawn on tile t, in that order

vars == <<triangles, pixels>>

Tiles == DOMAIN pixels

\* What tile t looks like when it is drawn up to triangle k.
Drawn(t, k) ==
  LET drawn[i \in 0 .. k] ==
        IF i = 0 THEN <<>>
        ELSE IF t \in triangles[i] THEN Append(drawn[i - 1], i) ELSE drawn[i - 1]
  IN drawn[k]

Init ==
  /\ triangles = <<>>
  /\ \E tiles \in TileSets : pixels = [t \in tiles |-> <<>>]

Submit ==
  /\ \E cover \in Coverages[Cardinality(Tiles)] : triangles' = Append(triangles, cover)
  /\ UNCHANGED pixels

\* Any set of tiles advances, each to a later point of the triangle list.
Draw ==
  /\ \A t \in Tiles : \E upto \in 0 .. Len(triangles) :
       /\ Len(Drawn(t, upto)) >= Len(pixels[t])
       /\ pixels'[t] = Drawn(t, upto)
  /\ DOMAIN pixels' = Tiles
  /\ UNCHANGED triangles

Next == Submit \/ Draw

Spec == Init /\ [][Next]_vars
=============================================================================
