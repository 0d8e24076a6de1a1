\* The primitives that have triangles, a line loop and an argument that is none;
\* a ring of nine units that is rewound several times; two entries.
CONSTANTS
  BufferSize = 9
  MaxSize = 3
  Sizes = {1, 2}
  Chunks = {k1, k2}
  MaxTriangles = 6
  Modes = {2, 4, 5, 6, 7, 8, 9, 32}
  MaxVertices = 6
SPECIFICATION AssemblySpec
SYMMETRY Symmetry
INVARIANTS TriangleIsIntact EmptyMeansDone RoomWhenDrained AssemblyTypeOK AssembledAsAsked
