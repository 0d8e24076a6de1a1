------------------------ MODULE MCPrimitiveAssembly ------------------------
(* Model values for the runs of PrimitiveAssembly.                           *)
EXTENDS PrimitiveAssembly, TLC

(* The entries of the cache line differ only by their number.                *)
Symmetry == Permutations(Chunks)
============================================================================
