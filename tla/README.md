# spugl: verification models

TLA+ modules, TLC configurations and TLAPS proofs about spugl, the 3d
rasterisation library for the Cell processor in this repository. Paths below are
relative to the repository root. `PROJECT.json` maps every definition to the
lines it models and lists runs, mutants, findings, hazards and theorems.

    tlc -config BlockTable.cfg BlockTable        # one run
    tlapm BlockTableProofs.tla                   # one set of proofs

## 1. The system

A client program writes drawing instructions into a queue in shared memory. The
server (`server/main.c`) owns the memory, answers requests over a socket and
starts the SPU programs. The primary SPU executes the queues and turns vertices
into triangles; the render SPUs draw the triangles on the tiles of the screen.

    client --socket--> server main thread --block table--> primary SPU
       \                      ^                             |    ^
        \                     | flush flags, SIGHUP         |    |
         \--- command queue --+--------- callback thread <--+    |
                                                                 v
               frame buffer <--- render SPUs <--- cache line + triangle buffer

No two of these share a lock. The PPU uses `lwarx`/`stwcx.` on words, the SPUs
use `GETLLAR`/`PUTLLC` on 128-byte lines; a store to a line kills the reservation
of everyone else on it, and a processor whose conditional store fails starts over.

| Component | State | Operations | What is hard | What makes it correct | Modelled in |
|---|---|---|---|---|---|
| Block table: `server/blockmanagement.c`, `process_queues` in `server/primaryspu/main.c` | 256 lock bytes, 256 buffer addresses | allocate, dispose, try-free; lock, process, unlock a queue | word stores against line stores to neighbouring bytes; slots recycled while the SPU scans an old copy | bytes are exact counts; no slot names two buffers; memory in use stays mapped; what is given up is reclaimed; no queue starves | `BlockTable` |
| Connections: `server/connection.c` | list of allocations per connection | allocate, free, disconnect, flush request, sweep | repeated frees, disconnect between request and sweep, unlocked flags | each buffer is given up once; answers stand for executed flushes | `BlockTable`, `FlushProtocol` |
| Main loop: `server/main.c` | open and closed connection lists | poll, serve, accept, hang up, sweep; `receivedFlush` called from another thread | lists changed under a walk; a signal that comes too early | flushes are answered; a walk ends, and finds what it looks for | `FlushProtocol` |
| Command queue: `client/fifodefs.h`, `client/glfifo.c`, `process_queue` | two pointers, the words, one window in the local store | write, publish, jump, set target; fetch, execute, store | both pointers in one line; one window for all queues; lines fetched beyond the write pointer | what is published is executed, once, in order, in the end | `CommandFifo` over `CommandStream` |
| Client library: `client/client.c` | list of buffers | connect, allocate, free, flush | waits for replies of another process | a flush returns when the queue is flushed | `FlushProtocol`, one queue for each client |
| Command handlers: `server/primaryspu/context_cmd.c`, `ip_cmd.c` | one context per queue, globals | one function per instruction | contexts and globals outlive a client | each client draws with its own state | `DrawTarget`, `PrimitiveAssembly`, `CommandFifo`, `FlushProtocol`; partly |
| Primitive assembly: `server/primaryspu/primitives.c` | current primitive, last vertices | begin, vertex, end, clear, sync | long vertex sequences, two clients in turn | GL's decomposition into triangles; edge values without overflow | `PrimitiveAssembly`, `DrawTarget`, arithmetic in `TileSearch` |
| Triangle buffer: `server/primaryspu/trianglebuffer.c` | a ring of 0x7900 bytes, one write pointer, sixteen read pointers | find room, append, rewind | room against the slowest of readers that split and merge; full versus empty | nothing unread is overwritten | `TriangleRing` |
| Render scheduling: `server/renderspu/cacheline.c` | sixteen chunks: next, start, triangle | claim, split, draw, finish, merge | several SPUs reshape one linked ring through one cache line | tiles are partitioned, have one writer, get all triangles in order | `RenderChunks` over `Raster`, `RenderRetries` |
| Tile drawing: `server/renderspu/subdivide.c`, `pixelshaders/` | tile buffers, edge values | find the first tile, subdivide, shade, write back | a recursion over the Hilbert curve done twice, with different cut-offs | both find exactly the tiles the triangle touches | `TileSearch`, asked by the scheduling in `RenderSearch`; buffers in `RenderChunks` |
| SPU threads: `server/control.c` | thread handles | start, callbacks, exit | table freed before the threads stop | nothing runs on freed memory | callback in `FlushProtocol`; shutdown planned |
| Frame buffer: `server/framebuffer.c` | two frames | open, wait, swap | drawing into the frame that is shown | the flip returns the other frame; what is shown is finished | `DrawTarget` |

Third-party headers (`GL/`, `GLES2/`), test programs (`test/`, read for how the
client API is used), `old/`, `junk/`, `diff/` and `logo/` are not modelled.

## 2. Modules

**BlockTable** — the server's main thread and the primary SPU, one action per load
or store of the lock bytes. `lock` and `ea` are the two tables, `allocs` the
allocation lists, `resv` who holds a live reservation. The server's actions follow
`allocateBuffer`, `blockManagementAllocateBlock`, `blockManagementBlockCountDispose`,
`blockManagementTryFree`, `handleDisconnect` and the sweep; the SPU's follow
`process_queues`. A server store rewrites the word it loaded, an SPU store the line,
so neighbouring bytes would be undone if a store succeeded when it should not.
**BufferLifetime** is the promise: a slot is allocated, given up once, read only
while its client holds it when the reading begins, and recycled only when unread.
**BlockTableProofs** proves it.

**RenderChunks** — `process_render_tasks` and `merge_cache_blocks` on every render
SPU for one renderable. `cache` is the line of sixteen chunks, `spu` the locals
(in particular `freeChunk` and `freeChunk2`, which survive a failed `PUTLLC`, which is
why the split is two steps while claim and finish are one), `buffer` the block in
the local store, `pixels` what is in the frame buffer. Which tiles a triangle covers
is an input, and so is the layout (tiles of the renderable, entries of the line).
**Raster** is the promise: every tile gets the triangles that cover it
in the order of submission. **RenderChunksProofs** proves what the line and the SPUs are
at every step, **RenderTruthProofs** what the pixels show, and when the two errors of the
splitting code can happen.

**RenderRetries** — `RenderChunks` with two history variables that watch what a split keeps
when its `PUTLLC` fails: `kept`, the SPUs whose `freeChunk` was found free in a failed attempt
and is not reserved, and `spoilt`, that a split has stored with such an entry after it was
taken. `OnlyKeepersAreStale` says what finding 2 can do and what it cannot; `UnspoiltSpec` has
the behaviours up to the split that spoils the line, and is what `render_chunks` runs.

**TriangleRing** — `getTriangleBuffer`, `writeTriangleBuffer` and the readers cut
down to what they do to the read pointers. History variables (`triangles`, `done`,
`lap`) say what the pointers stand for.

**PrimitiveAssembly** — extends `TriangleRing` by its writer: the handlers of begin,
vertex, end, clear and draw context, the table `shuffle_map` row by row, and the
registers `TRIx`.. as four vertices. A handler that gets no place in the ring is tried
again; a vertex that makes no triangle, or an invisible one, leaves its place to the
next. `handler` splits a handler where `getTriangleBuffer` has returned and the readers
may move on; `mode` is what the client asked for. One client, one renderable, and the
client neither nests primitives nor sends vertices outside them.
**PrimitiveAssemblyProofs** proves the space check of the ring, then the assembly over it.

**CommandFifo** — a client per queue writes words, publishes, jumps and sets the
target; the SPU visits queues, fetches its window, executes, and stores the line with
`PUTLLC` or reads it again. A word carries the identity of its instruction, so that
stale or mixed words show in the history `done`. **CommandStream** is the promise:
what is published is executed once, in order, and in the end, until some client starts over
at the beginning of its memory, by a jump or by a new queue at the same address (finding 3
shows what may follow). `Straight` says that this has not happened yet.

**DrawTarget** — several clients over one primary SPU: `_contexts` (renderable and pixel
shader of each queue slot, which outlive a client), `_currentTriangle` (one place in a
triangle buffer, kept between commands), `current_state` and the vertex registers (one
set for all queues), the buffers of the renderables as sequences of triangles not drawn,
and `Screen_swap`. A command is one step, since `CommandFifo` delivers commands whole and
in order; whether a buffer that is not empty has room is open, and that an empty one has
is `TriangleRing`'s `DrainedHasRoom`. Each triangle remembers its client, the renderable
that was asked for and its shader. The clients behave as `test/cube.c`, and may vanish
anywhere. **DrawTargetProofs** proves its safety properties.

**TileSearch** — `imp_triangle`'s edge values in words that wrap, and the two searches of
`subdivide.c` as recursive functions over squares of the Hilbert curve: `findFirstTile`
(claiming) and `subdivide` (drawing), which prune and cut off in different ways. They are
measured by plane geometry. It has no state: **RenderSearch** extends it and `RenderChunks`
and holds the properties that tie them, what the searches are asked by the scheduling and
what they answer. **TileSearchProofs** proves both.

**FlushProtocol** — client, main loop and callback thread. The `|=` and `&=` on the
flags are a load and a store each; the lists are pointers, and `poll`, `serve`, `accept`,
`publish`, `connect`, `sweep` and so on are program counters of the main loop, so that a
connection is linked before its allocation list is set and moved to the closed list in
the steps of the code, with the walk of `receivedFlush` in between. A client connects,
allocates one queue, flushes, frees the queue, and may be gone at any point. A walk that
stands on a connection that is moved, or whose allocation list is not set yet, is `lost`
(history): it may meet anything. **FlushProtocolProofs** proves its safety properties.

The `MC` modules hold the layouts, coverages and vertices TLC runs with; the other runs
check the modules as they are. The definitions
named as deviations or mutants repeat a definition with a plausible mistake; they are
not part of any behaviour and show that a property would notice the mistake.

## 3. Runs

| Run | Shows | Bounds |
|---|---|---|
| `block_table` | lock bytes are counts, slots unshared, memory in process mapped, `BufferLifetime` refined; no queue starves; what is given up is reclaimed | 2 queue slots + 1 data slot, 2 to a word; 2 addresses, 1 connection |
| `render_chunks` | partition, exclusivity, chunk pointers true, flush sound, `Raster` refined, all up to the first split that uses an entry taken meanwhile; only an entry kept unreserved through a failed store becomes another's; every triangle drawn where entries suffice; the searches find what plane geometry has, for every chunk and block the scheduling asks about | 2 SPUs, 2 triangles, blocks of 2; 4 tiles with 4 entries and triangles of any shape but one (below), 6 tiles with 2 and with 3 entries, 9 tiles with 3; searches on 16 tiles of one pixel (4 units), triangles through every triple of 8 vertices |
| `render_last_tile` | **violation**: last tile lost | see 6 |
| `render_reserved` | **violation**: reserved entry freed | see 6 |
| `primitive_assembly` | no overwrite, full is not empty, a drained ring has room; triangles and fans assembled as GL has them, the table never left | a ring of 9 units, 6 triangles of 2 sizes, 2 chunks; 8 modes, at most 6 vertices in a primitive |
| `command_fifo` | until a client starts over, pointers that meet mean done and `CommandStream` is refined, its promise to execute everything included; always, the window never serves another queue and a write pointer is never taken back | 2 queues of 6 words, 3 instructions of 1 or 2 words, window of 4 words, lines of 2; one jump, one queue allocated anew |
| `command_fifo_jump` | **violation**: instructions never executed after a jump | see 6 |
| `flush_protocol` | an answer means a flush executed; a queue is given up once; recorded flushes are answered; walks end, and find the one they look for unless lost | 2 clients that connect, 2 flushes between them |
| `flush_lost` | **violation**: flush never answered | 1 client |
| `draw_target` | what `glFlush` and `spuglFlip` promise holds but for one triangle after a change of the renderable; shaders outlive their triangles but for that one and those of a client that vanished; primitives are one's own; frames are finished | 2 clients, 2 queue slots, 2 frames shown, 2 frames drawn, 4 commands each, buffers of 2 triangles |
| `draw_flushed` | **violation**: `glFlush` returns before a triangle is drawn | see 6; 1 client |
| `draw_shader` | **violation**: a pending triangle's shader is unmapped | see 6; 1 client |

Why the bounds are enough. A lock word with two slots is the smallest in which a store
can undo a neighbour's; a slot and its word sibling, both queues, and a slot in another
word make every kind of neighbour; two addresses let one be reused while the other is
mapped. Four tiles in blocks of two give a chunk with a part before, in and behind the
block; four entries allow a split into three with one to spare and two entries make it
run out; two SPUs are a claim against a split, a finish or a merge. For a kept entry to be
taken a long chunk has to be split while another is claimed and an entry is free: six tiles
and three entries are the smallest such layout, and nine tiles leave chunks that are split
in three, where a kept entry can also be found a second time as `freeChunk2`. On four tiles
the one shape left out is that of finding 1. A ring of nine units
rewinds every few triangles, so reader and writer meet in both orders. Six vertices are
two triangles, a fan of four and every cycle of `shuffle_map`. A window of two lines and
a queue of three is fetched again in the middle of the stream and ends in the middle of a
line. Two flushes let the traces of the first meet the second; two clients let one be
accepted or leave in front of, on and behind a walk for the other. Two clients and two
slots let one client have its commands between those of the other and inherit its slot;
two triangles let one be pending while one is written. Sixteen tiles are the smallest
screen with all four turns of the curve one below another, and a pixel is the smallest tile
that the half pixel added to every coordinate leaves on the screen; a word of 16384 is 64
times the square of the side, as 2^32 is of 8192, and the vertices reach as far out as the
clamp lets them. The real numbers (4096 tiles, blocks of 16, 16 entries; 256 and 16 slots in
words of 4; a ring of 30976 bytes with triangles of 256 and an allowance of 576; a window
of 1024 bytes in lines of 128) are of the same shapes, and for `BlockTable`,
`TriangleRing`, `PrimitiveAssembly`, `CommandFifo`, `DrawTarget`, `TileSearch`,
`FlushProtocol` and, apart from its two errors, `RenderChunks` the proofs hold for all of
them.

`CHECK_DEADLOCK FALSE` stands in the configurations of `CommandFifo`, where an SPU that walks
an old lap again (finding 3) leaves the buffer or meets the bound `MaxExecuted` and stops
there, and in those of `DrawTarget`, where clients leave. Bounds
are named in the CONSTANTS of the modules.

## 4. Fairness

Only liveness uses it. The SPU programs are endless loops on processors of their own, so
each SPU is weakly fair; nothing is asked of the server where the SPU alone has to make
progress (`EveryQueueIsServed`), nor of `PUTLLC` in `RenderChunks`, where a reservation is
lost to another SPU's progress. In `BlockTable` and `CommandFifo` a conditional store that
is tried for ever succeeds in the end (strong fairness, of the lock and unlock stores
together and of the server's three stores together): the hardware lets one of the contenders
win, and clients do not store for ever without pause. The server's fairness is a premise of
`GivenUpIsReclaimed`, since `block_table` asks only the SPU's of all behaviours.
`RenderRetries` stops where a split spoils the line, which on four tiles with four entries,
where `EveryTriangleIsDrawn` is checked, never happens. A handler that cannot work now can
work again later because the render SPUs drain (`EveryTriangleIsDrawn`, `RoomWhenDrained`);
`CommandFifo` takes that as strong fairness of `Execute`. `CommandStream`'s `Proceeds` is
the weak fairness of its `Execute`, written out as what it means, and promised where no
queue is started over. In `FlushProtocol` ppoll returns, because of its timeout of a second, both
threads are scheduled, and a client that has begun to flush goes on. In `DrawTarget` the
commands of a client that has begun a frame are executed (the SPU goes round the queues, and
`CommandFifo` delivers them) and the render SPUs draw; a client need not begin a frame, and
may vanish in it. No client has to begin anything.

## 5. Proofs

`BlockTableProofs` proves, for all numbers of slots, word sizes, addresses and
connections (assumptions `BlockTableAssumption`, `SentinelAssumption`: at least one
queue slot, more slots than queue slots, words of at least one byte, sentinels that are
not values): `TypeCorrect`, `LocksAreCounts`, `SlotsAreUnique`, `QueueMemoryIsSafe` and
`TableImplementsLifetime`. None of the properties is inductive alone: that a store is
exact depends on the copy it was computed from. `IInv` adds

- `ReservationInv`: while a reservation is live, the copy equals the table;
- `ServerInv`: what each program counter of the server says about the slot and the
  allocation it is working on;
- `NamingInv`: the address table agrees with the allocations, except for the slot
  that is being filled.

Each part is preserved in a lemma of its own (`TypeStep`, `ReservationStep`,
`AccountingStep`, `NamingStep`, `ServerStep`), with one step per action, and the
refinement maps every action to one of `BufferLifetime` or a stutter.

`PrimitiveAssemblyProofs` proves of `TriangleRing`, for all buffer sizes, allowances,
triangle sizes below the allowance and chunk sets (`TriangleRingAssumption`): `TypeCorrect`,
`NothingIsClobbered`, `FinishedIsFinished` and `DrainedHasRoom`. `doc/BUGS` suspects the
space check of the artefacts seen with more than one render SPU; the theorems say that it is
right for any readers that follow the links, and findings 1 and 2 below are other
candidates. The inductive invariant unrolls the ring: the place of a triangle plus the laps
before it is a point on a line, pending triangles of a reader lie in order within one buffer
length of the writer, and the room found for a triangle stays until it is written.

`FlushProtocolProofs` proves, for any finite number of clients and
any number of flushes (`FlushAssumption`):

- `AnswersAreFlushes`: no client receives more answers than its queue has executed FLUSH
  instructions. The two threads write the flags without a lock, and finding 4 shows that
  flags get lost; the invariant says why no answer is invented. `MainInv`: a FLUSHDONE
  that the main loop has loaded is still there when it stores, since nobody else clears
  one. `Accounted`: answers received, an answer on its way, a FLUSHDONE noted and a walk
  under way count for one executed FLUSH each.
- `WalksFindTheOpen`. A list is a set of connections, a first one and the links; "c comes
  after p" is that every part of the list closed under the links that has p has c, which
  needs no recursion. Lemmas on lists (`PushedList`, `ListWithoutFirst`, `ListWithoutNext`)
  say what linking and unlinking do to what can be reached; `ListInv` says that the open
  connections are a list at every program counter of the loop and where in it the loop
  stands, and `WalkInv` that a walk not lost has its target ahead, also where the
  connection it stands on has just been unlinked.
- `QueuesAreGivenUpOnce`. `COUNT_DISPOSED` shares a word with the two flags of the flush,
  and lost updates of that word are what finding 4 is about. `Matched` says that a client
  waits for every FLUSH it has published, so that, when a queue is freed, no FLUSH of it
  is on its way and nobody else has the word loaded (`Over`).
- `FlushTypes`, which needs `Matched` for the counters.

`DrawTargetProofs` proves, for any clients, queue slots, frames to draw and lengths of
buffers (`DrawTargetAssumption`), `TypeCorrect`, `FlushedIsDrawn`, `ShadersOutlive`,
`OnlyFirstAstray`, `PrimitivesAreWhole` and, with two frames as the code has them,
`ShownStaysFinished`. `IInv` has `ShaderInv` (a primitive is drawn with the shader of its
client), `PendingInv` (what did not go astray waits in the renderable its client draws on),
`PlaceInv` (the place taken is in the renderable of its context unless that changed) and
`RegistersInv` (whose vertices the registers hold); `FlipInv` adds that the client that
flipped last draws on the other frame.

`TileSearchProofs` proves, for any power of two of tiles along the side, all vertices within
the clamp of `spu_convts` and words of at least 64 times the square of the side
(`TileSearchAssumption`: `Tiled`, `Clamped`, `Even`), first the arithmetic: `TriangleIsExact` and
`VisibleIsExact`, the edge values in words are those of plane geometry, although products
on the way overflow; `OutsideIsInherited`, what is pruned has no tile of the triangle in
it; `QuarterIsExact`, each step of the recursion hands on exact values and the right
corner; `TileIsExact`, a single tile is left out if and only if an edge has all of it
outside. Then the recursion:

- A square has one of finitely many sizes, each twice the next. `Upward(n)` is the squares of
  at most n tiles a side; by it the recursive functions exist (`FindExists`,
  `FoundExists`, `PlacingExists`) and what holds of a square when it holds of its quarters
  holds of all (`Induct`). The tiles of a square are a run of the curve, and the runs of its
  quarters follow on one another (`RunsFollow`).
- `CurveHolds`: the curve visits every tile once, and each next to the one before.
- `NothingIsLost`: a square that is pruned has no tile of the triangle, wherever in the
  recursion it is met.
- `FirstTileFound` and `BlockFound`: for every window of the curve `findFirstTile` returns the
  first tile the triangle touches or -1, and `subdivide` the touched tiles, each in its
  buffer, and none off the edge of the renderable. The two cut off in different ways, and the
  code doubts two steps of `subdivide` ("looks screwey", `subdivide.c:193` and `:348`);
  `BlockFound` says that neither loses a tile nor adds one, for any size of a block.
- `ClearHolds`: the oversized triangle of a clear, its corners moved by the half pixel that
  `imp_triangle` adds to every coordinate (`Rounded`), has every tile of a renderable of any
  whole number of pixels. It does because a tile is at least a pixel (`Tiled`): of tiles of
  half a pixel the first would be missed.
- `SearchHolds` and `BlockHolds`: `SearchFindsTheFirst` and `BlockFitsTheBuffers`, the searches
  together with what they are asked (`AsksHold`), while no entry is stale.
- `SchedulerIsServed`: where a triangle covers the tiles it touches, what `Search` and `Render`
  of `RenderChunks` take for the first tile and for the block is what the recursion returns.
  So the coverage that `RenderChunks` has as an input is that of the code.

`CommandFifoProofs` proves, for every number and size of queues, lines and windows
(`FifoAssumption`):

- `WritePointerIsKept`: the SPU stores the line that holds both pointers as a whole and
  never takes back a move of the client's. `ReservationInv` is that a live reservation
  means the copy has the write pointer as it is.
- `TypeCorrect`, with jumps and queues allocated anew: no offset leaves the queue or the
  window. It needs `WordsInv`, that an instruction with data does not begin in the last
  word and JUMP has its target behind it, and the same of the window, `WindowInv`.
- `WindowIsOwn`: the window, recognised by the address of a queue, never serves another.
  `OwnInv` says it of the words, of the window and of what was executed.
- `EmptyQueueIsExecuted`: `StraightIsExecuted`, that until a client jumps back or a queue is
  allocated anew (finding 3 shows that it fails behind a jump) pointers that meet mean that
  what was executed is what was published, in its order. `StreamInv` has for each queue a
  function from the number of an instruction to the word it begins in, increasing, which
  is `ahead` behind the last one written, `write_ptr` behind the last one published and
  the place of the SPU behind the last one executed; `SpuInv` says that the SPU stays at
  or before the write pointer it has seen and its window holds published words only, as
  they are in memory. Each action extends that function or moves along it.
  `StraightInv` has all this up to there, and nothing after.
- `QueueIsAStream`: with batches of at most two instructions, as `CommandStream` has them,
  every behaviour has its safety (`SafetySpec`). `BatchInv` says that a batch is a run of new
  instructions.

`PrimitiveAssemblyProofs` also proves of `PrimitiveAssembly`, for any modes, number of
vertices and buffer (`PrimitiveAssumption`, `TriangleRingAssumption`):
`AssemblyUsesTheRing`, every step of the handlers is a step of `TriangleRing` or leaves it
alone, so that its theorems hold of the composition (`AssemblyKeepsTheRing`);
`AssemblyTypes`; and `TrianglesAsAsked`. The invariant says which vertices the registers
hold in each row that triangles and fans go through (`SeparateInv`, `FanInv`), that an
instruction waiting for room is one the client may give (`HandlerInv`), and that nothing is
left of a primitive behind `glEnd`.

`RenderChunksProofs` and `RenderTruthProofs` prove, for any SPUs, triangles, coverages,
layouts and size of a block (`RenderChunksAssumption`):

- `TypesHold`, `PartitionHolds`, `ExclusionHolds` and `AsksHold` while no entry is stale.
  The code does not keep the partition in every behaviour (finding 2), so there has to be
  a condition: `NoStaleEntry` says that no split which is about to store works with an
  entry that has become part of the ring, or somebody else's, since it was chosen. The
  invariant `RInv` says that the line is a ring (`IsRing`: links and starts agree, from tile 0
  round to it) and, for each SPU, what the locals it keeps mean (`OwnsChunk`,
  `KnowsChunk`, `KnowsFree`, `KnowsBlock`, `KeepsEntry`) and that no two of them own the same
  (`Apart`). Lemmas on rings come first: inserting a chunk and removing one
  (`CycleInsert`, `CycleRemove`), hence splitting and merging (`LineInsert`, `LineMerge`). A
  step then is one that writes the line with a `PUTLLC` and spares what the others know
  (`Writes`) or one that leaves it (`Leaves`), and `RInv` survives both.
- `ChunkTruthHolds`, `FinishHolds` and `RasterIsImplemented` while, besides, no block leaves
  exactly one tile behind it (`NoLastTileLost`, finding 1). `TruthInv` adds up to which
  triangle the tiles of each chunk and of each buffered block are drawn.
- Where the conditions come from. `OnlyUnclaimedRetriesAreStale`: an entry goes stale only
  through a retry that keeps an entry it found free but did not reserve
  (`cacheline.c:341-350`, retried at `:364-366` and `:422`); `ReservationsHold` and
  `RetriesAsideIsDrawn` are the theorems above for the behaviours without that step; they do
  not say what a repaired program would do. `OneSpuIsNeverStale`: a lone SPU never does it harm.
  `SmallLayoutsAreDrawn`: a renderable of no more tiles than a block is never split, and has
  all the properties without a condition, for any number of SPUs.
- With those retries, without a condition: `KeepersHold` is `OnlyKeepersAreStale` in every
  behaviour of `RenderRetries`; `SoundnessHolds` is types, partition, exclusion,
  reservations and what the searches are asked in every behaviour of `UnspoiltSpec`, which
  `render_chunks` runs; `UnspoiltIsDrawn` adds what `ChunkTruthHolds` and the others say,
  with `NoLastTileLost`. `KInv(S)` says of the SPUs of S that the entry each has chosen is
  still its own; a step of one of them, or of any other, keeps it (`Step_Kept`), and an SPU
  leaves S only by a retry that keeps an entry. `RetryInv` is `RInv` and `KInv` of the SPUs
  outside `kept`, until `spoilt`: a kept entry that is still free when the split stores is
  as good as one chosen in this attempt (`Free_Fresh`), so `RInv` survives that store too.
  `RetriesAreSteps`: the history variables only watch.

`render_reserved` and `render_last_tile` are behaviours without the two conditions. Before
the proofs TLC has checked the invariants, on six tiles with three to five entries: `RInv`
and `TruthInv` with two SPUs on all states before a condition fails, `RInv` with
`NoStaleEntry` on all behaviours without `KeepsUnclaimed`, and on those of one SPU; and all
of them with three SPUs on one and two tiles. Inductions over data are needed here for the
rounds of `merge_cache_blocks` (`MergeKeeps`) and for `Drawn` (`DrawnGrows`), in
`TileSearchProofs` over the sizes of squares. They are proved on the set of arguments for
which the claim fails, which has a smallest element if it is not empty (`Induct`, from
`WFMin`), a form that needs no operator as a parameter; `Drawn` and the searches are
recursive functions for that reason.

Only model-checked: that `CommandFifo` executes everything in the end (`Proceeds`), and
all other liveness, which is out of the prover's reach. Every safety property of the passing
runs is a theorem; of those of `render_chunks`, the ones about pixels have the condition
`NoLastTileLost`, which its coverages keep, and the ones about searches are proved while no
entry is stale, with what they are asked proved up to the spoiling split.

## 6. Findings

Each is a violation run; `PROJECT.json` quotes the text it contradicts.

1. `render_last_tile`: `cacheline.c:359` tests `nextBlockStart < chunkEnd` where the last
   tile of the chunk still has to go somewhere; a block that ends one tile before the
   chunk drops that tile, which is then marked drawn.
2. `render_reserved`: `freeChunk` survives a failed `PUTLLC`, so an entry found free, but
   reserved by another SPU since, is treated as one's own and freed.
3. `command_fifo_jump`: jump and set-target are two stores. A read pointer that is still
   to be stored, or that walks the old lap again, can meet the new write pointer:
   instructions published between are never executed, and `glFlush` does not return.
4. `flush_lost`: unlocked `|=` in two threads lose a flag; the client waits for ever.
5. `draw_flushed`: the first triangle after `spuglDrawContext` goes to the former renderable
   when an invisible one has left its place there (`trianglebuffer.c:31`), and `glFlush` asks
   after the new renderable only: it returns with a triangle of the client pending.
   `FlushedMeansDrawn` says that this is the only way.
6. `draw_shader`: nothing retains the buffer of a pixel shader for the triangles that name it
   (`context_cmd.c:253`); of a client that vanishes it is unmapped while they are pending.
   `ShaderOutlivesTriangle` says that only this and finding 5 lead there.

Some more that the models contain and no run shows; the hazards in `PROJECT.json` have their
lines:

- The window is recognised by the queue's address (`primaryspu/main.c:90`): with
  `MaxReuse = 1` the instructions of a freed queue are executed in place of those of the
  next queue there. A pixel shader is recognised by its address too
  (`renderspu/loadshader.c:34`).
- The callback's walk (`main.c:64-77`), when it stands on a connection that is moved to the
  closed list, goes on there and misses the client; and between `main.c:198` and
  `handleConnect` it reads an allocation list that nobody has set.
  `WalkFindsTheOpen` says that these are the only ways to get lost.
- In `shuffle_map` strips, quad strips and polygons go to rows of other primitives
  (`primitives.c:397`, `:441`, `:450`): rows 15, 26 and 29, written for them, are never
  reached. `AssembledAsAsked` speaks of triangles and fans only.
- Two clients that are between `glBegin` and `glEnd` at the same time mix their vertices
  (`PrimitivesAreOnesOwn` says that nothing worse happens).
- Without a free entry a long chunk is claimed and given back again and again
  (`cacheline.c:362`), which is why `EveryTriangleIsDrawn` speaks of layouts with entries
  to spare.
- The overflow that the comment at `primitives.c:290` fears happens and is harmless: the
  sums that decide fit a word (`TriangleIsExact`).

## 7. What is left out, and the plan

Abstractions: pixel values, matrices, attributes and what shaders compute; instruction
sizes other than one and two words; memory beyond the end of a buffer; failure of `malloc`
and of system calls except running out of slots. What a triangle covers is an input of
`RenderChunks`, and whether it is visible one of `DrawTarget`; `TileSearch` has both, and
`SchedulerIsServed` joins the first to `RenderChunks`.

With six tiles and three entries finding 2 breaks the partition of the tiles. `render_chunks`
has that layout and follows each behaviour up to the first split that uses an entry which was
taken meanwhile; nothing is claimed behind it.

Not modelled: `server/control.c` starts and joins threads of the SPU library, and the
order in which `main.c:229` and on free the tables before the SPUs are told to quit is a
hazard on the list that no property covers; it matters only in a server that is stopping.
Pixel shaders (`server/pixelshaders/`) and the shading in `subdivide.c` are vector
arithmetic without control state. `client/glfifo.c` and `GL/` are declarations and
one-line encoders, of which `CommandFifo` keeps the sizes that matter to the window.

Of the files that hold C code, most lines are textures written out as arrays and former
versions (`old/`), GL headers (`GL/`, `GLES2/`) and test programs, none of which is part
of the server or of the client library; the modules cover the greater part of the control
code of `server/` and `client/`.

Next, in order:

1. `Shutdown`: the order in which the server stops.
2. `BlockTable`, extended by the data buffers that instructions name without a lock, and
   `loadshader.c`'s copies of what was in them.
3. `Framing`: the sizes announced by `glfifo.c` against those the handlers read.
4. Proofs: `RenderChunks` with the two errors repaired, as a variant of the split.

New questions share the configurations that exist where they can: one run for each
instance, with all its properties.
