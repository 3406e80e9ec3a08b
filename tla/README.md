# TLA+ models of pbf-parser

The repository is a set of freestanding (no libc) OpenStreetMap tools: a streaming
PBF reader, converters to a map pack (`pbf-to-rpack`) and a route pack
(`pbf-to-rte`), readers and renderers of the packs, and the little runtime below
them: raw Linux threads, futex locks, a page allocator. This directory models the
parts of it where several threads, failures or long sequences of calls make the
code hard to test. All paths below are those of the repository; `thread.c` is
`src/platform/linux/thread.c`, `pbf.c` is `src/shared/pbf.c` and the tools
(`pbf_to_rte.c`, `pbf_to_rpack.c`, `rte_route.c`, ...) are in `src/tools/`.

## 1. Inventory

| Part | State | Operations | Talks to | What is hard | Correct when |
| --- | --- | --- | --- | --- | --- |
| Mutex (`thread.c:130-156`) | one lock word 0/1/2, kernel wait queue | lock, unlock | kernel futex | an unlock of a contended mutex is three steps; a sleeper must be found again | mutual exclusion, no lost wake-up |
| Semaphore (`thread.c:158-181`) | one counter, kernel wait queue | wait, post | kernel futex | load, compare-exchange and sleep are separate; one wake per post | permits conserved, none beside a sleeper |
| Threads (`thread.c:51-128`, `syscall_stubs.S`) | stack, start record and `clear_tid` of a thread | start, join | kernel clone/exit, futex | the kernel clears the tid of a dead thread; the joiner then unmaps its stack | join returns the thread's result, the stack outlives the thread |
| Allocator (`runtime/memory.c`) | list of blocks over mapped pages, spin lock | malloc, realloc, free | mmap, every tool | split, coalesce, realloc in place or by copy; sizes near the end of `size_t` | blocks are disjoint and tile the mappings |
| Fileblock queue (`pbf.c:1234-1441`) | slots, a free and a ready ring, two semaphores, two mutexes, `failed`, `stopped`, first error | reader and worker loops, stop slots | mutex, semaphore | ring entry and permit are published separately; error paths; shutdown with full queues | one owner per slot, everything ends |
| Parallel summary (`pbf.c:1518-1612`) | a summary per worker and a shared one | start, decode, merge, join | queue | a worker fails after the reader took its result | equals the serial summary, or fails and leaves no counts |
| Parallel stream (`pbf.c:1645-1776`) | a user buffer per worker | init, stream, stop, merge, destroy | queue, callbacks of the tools | stop and failure race running blocks; callbacks fail midway | every OSMData block once; buffers released |
| PBF decoder (`pbf.c:157-1232`) | none beyond the caller's buffers | parse header, Blob, primitive block | zlib | varint and size bounds | pure parsing |
| zlib, crc32 | none | inflate | decoder | bit level | pure decoding |
| `pbf-to-rpack` | places, features, refs, node hash, tiles, output file | a pass over relations, parallel passes over ways and nodes, tile assignment, pack writing | stream, allocator | unlocked writes to shared node entries; merge order; tiles computed twice, here and in the renderer; a half-written pack | what is drawn from the pack is what the source has, and an interrupted run draws nothing else |
| `pbf-to-rte` | tiles, walking graph, transit tables, output file | counting and filling passes, parallel tile graphs and trip sort, pack writing | threads, stream | tiles claimed from a shared counter; graphs carved out of pools | graphs independent of thread counts, pools never grow |
| `rpack-render` | the directories and features of a pack | find a place, choose tiles, group a boundary, draw | pack file | features on the edges of tiles, boundaries of several rings | every feature in the box is drawn, the outline is that of the place |
| `rte-route` | graph with its coordinate hash, heap, labels, path; transit labels | resolve ends, load tiles, walking search, directions, transit plan | pack file | coordinates shared by tiles, stale heap items, labels overwritten between rounds, service days | shortest path, directions that lead there, a plan that can be ridden |
| `rte-gpu-route` | labels and predecessors on the device | rounds of a trip and a transfer kernel, CPU mirror, plan | packs | threads race for a label; its predecessors are ten separate stores | labels independent of the schedule, plan that belongs to the label |
| `rpack-info`, `rte-info`, fonts | none that is shared | read, print, rasterise | pack files | bounds | sequential |
| legacy index tools (`osm_index.c`, `osm_lookup.c`, ...) | index files | build, find | serial stream | an interrupted build | README.md calls them legacy; no tool calls the builders |

The hazards of this code, each at its line and with the property that watches it,
are the list `hazards` of `PROJECT.json`.

## 2. Modules

| Module | Models | State and actions |
| --- | --- | --- |
| `AbstractLock` | what a lock promises | `owner`; `Acquire`, `Release` |
| `Futex` | who sleeps on a futex | operator only, shared by mutex and semaphore |
| `FutexMutex` | `platform_mutex_*` | `mutexState` is `PlatformMutex.state`, `mpc` the place of a thread; one action per atomic instruction or futex call; refines `AbstractLock` |
| `FutexSemaphore` | `platform_semaphore_*` | `count`, `loaded`, the value a waiter has loaded; one action per instruction |
| `PbfFile` | a PBF file as its callers see it | a sequence of blocks with a type and an effect (where its processing fails or stops); the serial readers as reference operators |
| `PbfQueue` | rings, reader, start/join of the workers, the queue steps of a worker | `freeRing`/`freeRead`/`freeWrite`/`freeSem` are `free_indices`, `free_read_index`, `free_write_index`, `free_slots`, likewise `ready...`; `rpc` and `wpc` are places in the code |
| `PbfSummaryParallel` | `pbf_read_summary_parallel` | adds the summaries, as how often each fileblock is counted |
| `PbfStreamParallel` | `pbf_stream_entities_parallel` | adds the worker buffers and the init, merge and destroy callbacks |
| `ThreadTest` | `platform_thread_start`, `platform_thread_join` and the kernel's part of clone and exit, as `tools/test_thread.c` uses them | EXTENDS `FutexMutex`; `clearTid`, `mapped`, `returned` are `clear_tid`, the stack and the start record of a thread; `mainPc` and `place` are main and the workers |
| `AbstractHeap` | what the allocator promises | `live`, the bytes of every pointer handed out; `Allocate`, `Resize`, `Release` |
| `Allocator` | `rt_malloc`, `rt_realloc`, `rt_free` (`runtime/memory.c`) | `memory` is head, tail and blocks by address, `mapped` what mmap gave, `lock` the spin lock; one action per exchange of the lock, per search, per way a call takes and per round of the merging loop; refines `AbstractHeap` |
| `WalkingGraph` | `collect_walking_graph`, its threads and `write_tile_payload` (`pbf_to_rte.c`) | `coords`, `count`, `offset`, `cursor`, `items` are the arrays of the passes, `graph` the tile graphs, `nextTile` the shared claim counter; one action per segment of a pass or of a thread, `phase` and `place` are places in the code |
| `RouteSearch` | the heap, `dijkstra` and `build_route_path` (`rte_route.c`) | `items` is the heap, `dist` and `previous` the labels; one action per comparison of a sift and per edge; a specification of its own (`SearchSpec`) for any graph |
| `RouteGraph` | `load_neighborhood_graph`, the coordinate hash with probing and rehashing, `nearest_graph_node` | the loop over tiles, nodes and edges; EXTENDS `RouteSearch` |
| `TransitPack` | the part of a timetable that queries read: stops within walking distance, service calendar, score | operators only, used by both transit searches |
| `TransitPlan` | `evaluate_transit_plan` and its plan | `label` is the arrays `arrival`, `rides_used`, ...; `base` their copy of the round before; one action per event of a trip |
| `RouteQuery` | `main` of `rte-route` from the resolution of the ends to the answer | EXTENDS `RouteGraph` and `TransitPlan` and runs them in its `phase` |
| `GpuTransit` | `run_route_query` of `rte_gpu_route.cu`: kernels, CPU mirror, plan | `state`, `base`, `pred` are device arrays; a thread per trip or per stop; one action per atomic or store |
| `MapTiles` | tile arithmetic of the converter and of the renderer | operators only, each from its own source |
| `MapRender` | what `rpack-render` reads and decides to draw | operators over an image of the pack |
| `MapPack` | `main` of `pbf-to-rpack` with its way and node workers | `worker`, `pack`, `places`, `nodes` are the context; `writes` the writes of the pack in order, `image` the file; EXTENDS `MapRender`, which reads it back |
| `...Proofs` | theorems | see section 5 |
| `MCPbfSummaryParallel`, `MCPbfStreamParallel`, `MCWalkingGraph`, `MCRouteQuery`, `MCGpuTransit`, `MCMapPack` | small sets of files, maps, packs and queries | constants of the runs |

`PbfQueue` is composed with one of two users: `PbfSummaryParallel` and
`PbfStreamParallel` EXTEND it, take its `Reader` and worker actions into their own
`Next`, and say what those leave unchanged of their own variables. In the queue a
section under a mutex is one step; `FutexMutex` with its refinement of
`AbstractLock` is the reason. Waiting on a semaphore is one step guarded by a
positive count; `FutexSemaphore` (no permit is lost, granted twice or stranded) is
the reason.

`ThreadTest` takes the actions of `FutexMutex` into those of its workers, so the
counter is guarded by the instructions of the lock and not by an abstract one.
`Allocator` has its spin lock inside for the same reason: a thread between the
exchange and the store is the only one that touches the list, and that is checked,
not assumed. `WalkingGraph` models the threads of the tile build step by step; the
hash tables of nodes and tiles are what a lookup finds, and their capacities stay,
because the table of a graph lies in a pool and must never grow.

`RouteQuery` composes the whole of a query: the graph that the search runs on is
the one `RouteGraph` has built from the payloads of the tiles, heap and hash table
included, and its length is compared with walks taken from the payloads directly.
`MapPack` composes converter and renderer through the file. The parallel stream below
it is the one of `PbfStreamParallel`: every block reaches one worker, and the workers
are merged in their order after all have ended, or not at all
(`StreamsEveryBlockOnce`, `MergesAllOrNothing`). `GpuTransit` takes the memory of the
device as sequentially consistent; what goes wrong in its plan does so already there.

What a block does to its reader is abstracted to one `effect`: the header cannot
be parsed, the Blob cannot be read, it does not decode, its payload does not
parse, or a callback stops the stream. Error texts are abstracted to the kind of
failure they name.

Definitions whose name says what is wrong with them (`LockXchgTakesUncontended`,
`SlotCountOnePerWorker`, `SetErrorLastWins`, ...) are not part of any
specification. Each is the definition beside it with one plausible bug, and a
property listed with it in `PROJECT.json` fails when it is put in its place.

## 3. Runs

| Run | Bounds | Shows |
| --- | --- | --- |
| `futex_semaphore` | 3 threads, 1 permit, 3 posts | permits conserved, none stranded beside a sleeper, and a waiter meets its permit |
| `thread_test` | 3 workers, 2 increments each, mmap and clone may fail, waits may be interrupted | no stack is unmapped under a running thread, results and counter are right, everything ends; the mutex excludes, loses no wake-up and implements the abstract lock |
| `pbf_summary` | 2 workers, 4 slots, up to 4 fileblocks, one faulty and an end that is; threads and open may fail | the queue is sound, a result is that of the serial reader, a failed call leaves no counts and has a cause, the first error is a cause and no consequence, the call returns |
| `pbf_stream` | 2 workers, 4 slots, up to 3 fileblocks, one of which may be no OSMData or stop the stream, and an end that is faulty; memory, threads, open and every callback may fail | what the serial stream delivers reaches the shared result once, or nothing does; threads end, buffers are destroyed |
| `walking_graph` | 3 tiles, 2 threads, 192 maps: 6 sets of ways over 4 nodes, placed in the tiles or not in the PBF; stream, memory and threads may fail | the graphs equal their definition from the map alone, the pools suffice, one builder per tile, passes agree, the payload reads back; the call always returns with its threads ended and fails only for a cause |
| `allocator` | 2 threads, 3 pages that may be mapped in any order and number, 2 pointers held, requests of 0, 2000 and 5000 bytes and two that wrap with the header or the page | the heap is sound, pages whole again, no wrapped size granted, the lock comes back, refinement of the abstract heap |
| `route_query` | packs of up to 4 tiles sharing coordinates, 6 edges with all choices of 3 lengths; coordinates and addresses as ends; a broken payload, a timetable that could not be read, failing memory; timetables of 4 trips on 4 stops, 4 days, 3 rounds | the route is the shortest walk of the pack, the directions lead there, the plan of a timetable that was read can be ridden and the labels it is read from are settled |
| `gpu_transit` | up to 3 trips on 5 stops, 3 rounds, every interleaving, 2 iterations on one device | labels do not depend on the schedule and each can be travelled |
| `map_pack` | a world of 12 by 12 units in 4 by 4 tiles, 2 way workers, 5 sources, halo 0 and 1, ranks that count 2 ways at most, a preset box for one of two names, a stop before every write | the pack draws what the source has and the outline of the place asked for, or the preset box; an interrupted one draws nothing else |
| `gpu_mirror` | a ride and two walks that tie | violation: see below |
| `gpu_plan` | two trips that race for a stop | violation: see below |
| `route_unread` | timetables of which the counts were read and not the arrays, or all but the strings | violation: see below |

Why the bounds suffice: with two workers both rings can be full, empty and
wrapped, a worker can fail while the other decodes, and with four fileblocks and
four slots every slot of the ring is used before one is used again. The stop slots
wrap the ready ring also in shorter files. Three tiles and two threads let a thread
claim a second tile while another still builds its first, and read coordinates of
nodes whose tile another thread is building; the ways return to their start, stand
still, cross tiles and meet nodes the PBF does not have. Three pages are the least
with which a mapping of one page can lie before, between or behind others in memory
while it is last in the list, and three blocks on a page show a block merged with
either neighbour or with both. Two threads are enough for a lock of one bit.
`Limit`, the range of sizes, is 2^64 in the code and 2^14 in the
runs; only that it is a multiple of the page size matters.

Packs with a node that leads to all others put four items into the heap at once, so
that an item on its way down has two children to choose from, and the shorter ways
found later leave stale items behind; `HeapChunk` and `SlotChunk` (1024 and
8192 in the code) are 2, so that heap and hash table grow while they are in use. The
coordinates of different tiles share hash slots and nodes. Three rounds and four
stops leave a plan room for two changes and walks between them; the lines of the
timetables overlap and every trip comes at two times, so that later rounds improve what
earlier ones have built on. The services have weekdays, an extra day and an exception.
The map has features on tile borders, on the edges of the world and on neither, ways
that leave the extract, two places of one name, a place with a far part, and a way of
one node. `MemberCap` is 2 (999 in `v2_rank_score`), so that a place of four ways ties with one
of two and the first in the file is the city. One of the two names has a preset box (as
Berlin and Potsdam have, `set_city_bbox`): three sources have a place of that name, which
comes before the box, two do not. Lengths that only scale (`AreaUnit`, `FarGap`, `PadLeast`) are one or two
units. The proofs of section 5 lift
the structural invariants to every worker count, ring size, file, map and graph.

`pbf_summary` has memory that does not fail: the message for a Blob that does not
decode and for one there was no memory to inflate is the same, so with failing memory
no such message could ever be wrong. Where it fails in the queue, it fails in
`pbf_stream`.

Fairness: `FairSpec` of the summary and the stream asks weak fairness of the
calling thread and of each worker (the kernel runs every runnable thread).
`FutexSemaphore` states the fairness of its waiters and posters in its module,
`ThreadTest` and `WalkingGraph` ask it of main and of each thread they start, the
allocator only of the thread that has the lock: whoever calls may call no more, and
a spinning thread is promised nothing. No fairness is asked of a fault, a signal or
a client that might lock again. The route query, the GPU search and the map pack
have no liveness property: they are loops over finite data, and what could be lost is
data and not progress. The runs with faults of the PBF readers and of the walking
graph switch the deadlock check off because `Terminates` says more: a call that
hangs violates it, whether or not some thread can still step. `map_pack` switches it
off because the program may be killed at any point.

Disagreements with what the repository says of itself, each with a run:

* `gpu_mirror`: at equal arrivals the kernels keep the label with fewer rides (the
  two are packed into one word), the CPU mirror the first. As a stop is boarded only
  in the round its rides name, the two may differ afterwards and `--verify` reports a
  mismatch although both followed their own rule.
* `gpu_plan`: a thread checks once that its candidate is the label and then stores
  ten words; a better candidate may have stored its own in between, and the plan is
  not the one of the label.
* `route_unread`: after a timetable that cannot be read `rte-route` warns "route pack has
  no readable GTFS transit section; transit suggestions unavailable"
  (`rte_route.c:2865`) and goes on with the store as `read_transit_section` left it.
  Whether a plan is looked for depends on the number of events alone (`:2895`, `:3029`),
  and the counts are stored before anything is allocated or read (`:1135-1140`) and stay.
  When an array could not be allocated or read (`:1149-1156`), `evaluate_transit_plan`
  goes through null pointers or memory that nobody has filled. The model does not follow
  it there: the query has `crashed`, printed something (`garbled`), or found nothing.
  When only the strings were not read (`:1157`), the events are all there, and a plan is
  suggested after the warning. `UnreadMeansNone` asks that neither happens.

Smaller ones met on the way, without a run: a failing serial summary leaves in the
caller's `*summary` what it counted up to the fault (`pbf.c:1498-1506`), a failing parallel
one leaves nothing (`pbf.c:1534`, `1597-1600`). `SerialSummary` and `AgreesWithSerial` say so;
no document promises either, and the callers (`pbf_info.c:93`, `pbf_to_rte.c:3341`) do not
look at the counts of a call that failed. On a Blob it cannot read the reader posts
`free_slots` without a ring entry (`pbf.c:1422`, `:1414`); the stop slots that follow run
one entry ahead of the free ring and may turn the slot of a busy worker into a stop slot.
The call has already failed, its message stays (`ErrorIsReal`) and it still ends
(`Terminates`), which it owes to having two slots per worker; `OneOwner` speaks of the time
before that. The threaded stream never decodes the
Blob of a header, the serial one does, so a file whose header does not decode
passes in one and fails in the other (`HeaderDecodes` sets those files aside); a start
with `stack_size` 0 maps 512 KiB (`thread.c:4`), where `docs/threading.md:9` says
64 KiB; an interrupted pack whose directories are incomplete may be drawn in part
with exit code 0 (`InterruptedNeverLies` asks that what is drawn be true, not that
all be drawn).

## 4. Properties

* Mutex: `MutualExclusion`, `NoLostWakeup`, `ImplementsLock`. Semaphore:
  `PermitsConserved`, `NoStrandedPermit`, `PermitsMeetWaiters`. Threads:
  `StackOutlivesThread`, `TestPasses`, `EndsClean`.
* Queue: `PermitsBacked`, a semaphore counts its ring, up to the one unbacked permit;
  `OneOwner`, a slot is on one ring once or in one thread's hands, until a Blob
  cannot be read. Readers: `AgreesWithSerial` (a summary that is returned is the serial one; a
  failed call leaves no counts, and either the serial one fails too or the message is that of
  a fault of memory, threads or the file), `ErrorIsReal`,
  `StreamsEveryBlockOnce`, `MergesAllOrNothing`, `BuffersReleased`, `Terminates`.
* Allocator: `HeapSound` (the types, no two blocks share a byte, pointers handed out
  lie in blocks of their own, the list with its cached tail is whole, no byte is
  lost), `AllFreeAllWhole` about resizes that split in place and merge nothing,
  `ImplementsHeap`, `LockReturns`.
* Walking graph: `BuildsWalkingGraph`, whatever thread builds a tile, the graph is
  the one defined from the ways and the homes of the nodes, and the call fails only
  for a cause; `PoolsKept`, `OneBuilder`, `RangesFilled`, `PayloadReadsBack` say why.
* Route query: `RouteIsShortest` and `PathIsWalk` compare the answer with the walks of
  the payloads; `NothingNearer` is what makes the search right, an edge never leads
  from a settled node to a shorter distance. `DirectionsLeadThere`: each step of the
  directions starts where the one before has ended and has the metres between the two
  points it joins, from address to address, and only the last of the walk is short.
* Transit: `PlanRidable`, every leg of the plan can be taken in time although the labels
  it is read from were overwritten. It speaks of timetables that were read (`store` is
  `sound`); what a query should do with one that was not is said by `UnreadMeansNone`,
  which the code violates. `NoBetterJourney` is stated of the labels as they are
  at the end: no ride with a round left, no walk from a stop where a vehicle was left and
  no way from the origin leads to a stop before its label, and no stop reached near
  the destination has a better score than the plan. Two limits of it are the
  code's own. A trip that leaves a stop after it arrives at a later one is set aside
  (`RunsForward`): the scan boards it at the first stop it can and alights only after
  that departure, so it would miss a ride that starts at a later stop. And the labels are
  not compared with all journeys of rides and single walks, because the code does not
  find them all: the walks of a round are taken one after the other on the labels
  as they are, so a stop can be reached by a chain of two walks, earlier than any such
  journey would be there. A vehicle that comes there later then improves nothing, and the
  walks a rider could have taken from it are not looked at. Five stops show this; the
  labels are still settled in the sense above.
* GPU: `ScheduleFree`, `LabelsAreReal`; violated: `MirrorAgrees`, `PlanIsTheWinners`.
* Map: `RendersTheSource`, `OutlinesTheCity`, `InterruptedNeverLies`,
  `PiecesKeptTogether`, ways of a boundary that touch are drawn in one viewport. The rank of
  a place is that of `docs/osmrpack_format.md`, its ways counted up to the cap; a name that
  no place has shows its preset box, without an outline, or is refused.

The types of the other components are proved as parts of the invariants of section 5.

## 5. Proofs

All proofs are checked by TLAPS for every value of the constants, from the named
assumptions only: `NobodyAssumption`, `SemaphoreAssumption` (the initial count and the
posts are numbers), `ThreadTestAssumption` (some workers, and how often each
increments), `QueueAssumption` (at least two workers, a positive multiplier, files
that are sequences of blocks), `AllocatorAssumption` (sizes below a limit that is a
multiple of the page), `WalkingAssumption` (at least one tile; every node of a way has
a home or none), `SearchAssumption` and `RouteGraphAssumption` (chunks are positive, a
hash and a distance are numbers), `RouteQueryAssumption` (packs and timetables have
the shape of their records, a payload has one offset more than nodes, and the directory
is ordered by tile, as `pbf-to-rte` writes it and `find_tile_by_id` relies on:
`PackShape`, `QueryShape`), `TransitPackAssumption` (finitely many
stops, no walk from a stop to itself), `TransitPlanAssumption` (the departure plus a walk
to a stop is before `Inf`, which holds as the one is a time of day, the other a walk of
at most 800 m and `Inf` is 2^32 - 1), `GpuTransitAssumption` (at most 255 rounds, as the
rides are a byte of the packed label), those of the tiles of a map pack,
`MapRenderAssumption` (the least padding and the gap of a far part are numbers, the unit
of an area a positive one, preset boxes have an area), and `MapPackAssumption` (the cap of
member ways is a number; sources are lists of relations, of
ways and of nodes on the map; ids are unique in an extract, so a node is in one block
only and no two ways have one id, of which `v2_find_place_way` would find any; and the
boxes asked for have an area, which `parse_bbox_arg` checks).

* `ThreadProofs`, mutex: the inductive invariant adds to `NoLostWakeup` and
  `MutualExclusion` what the lock word says about the threads: it is 0 exactly
  when nobody is between lock and store, 1 or 2 otherwise. `MutualExclusion` alone
  is not inductive, because a `fetch_sub` in a state where the word is wrong could
  open the mutex. The refinement theorem maps each step to `Acquire`, `Release`
  or a stutter.
* `ThreadProofs`, semaphore: permits granted plus the count equal the initial value
  plus the posts; while somebody sleeps, distinct awake threads answer for the
  permits that are there.
* `ThreadProofs`, threads: `TestUsesMutex` shows every step of the test to be one of
  the mutex or a stutter of it, which lends the test all that is proved of the mutex.
  `TestInv` adds `Lives` (a stack, its start record and its `clear_tid` belong together
  from the mapping to the unmapping: a thread whose tid is cleared runs no more),
  `MainBooks` (whom main has started, joined or given up, place by place) and
  `CounterBooks` (the counter is the sum of the increments of all workers, a value
  loaded under the lock is still the counter's). `StackOutlivesThread` follows from
  `Lives`, because join unmaps only after it has read a cleared tid; `TestPasses` from
  `CounterBooks`, because main compares only after the last join.
* `PbfQueueProofs`: `QueueInv` is the conjunction of the types, `ReaderKnows`
  (what the place of the reader says about its slot and the unbacked permit),
  `Unstarted` (a worker that has not started owns nothing), `PermitsBacked` and
  `OneOwner`. `OneOwner` needs `PermitsBacked`: a permit taken from a semaphore
  must stand for an entry, otherwise a thread could read the ring outside its
  window. `RingHasRoom` is the counting lemma behind it: entries and owners are
  distinct slots, so a thread that owns one leaves room for its entry. `HandoverInv`
  says what becomes of a block: until a Blob fails every block read is in exactly one
  place (in a slot, on the ready ring, with a worker, or done), and after the last
  join none is left, because a worker ends only with a stop slot or a failure.
* `PbfSummaryProofs`, `PbfStreamProofs`: the actions the two users add preserve
  `QueueInv` and `HandoverInv`, hence `TypeOK`, `PermitsBacked` and `OneOwner` hold of
  them. The results of the threads are books kept beside the handover: what a worker
  has added to its own summary or buffer (`Accounted`, `HandedOut`) and what the joins
  have merged, against what is still outstanding. At the end nothing is outstanding,
  and the books are those of the serial reader (`SummaryAgreesWithSerial`,
  `StreamDeliversOnce`); `ErrorsKnown` and `WorksOnData` keep the first error and its
  cause together (`SummaryErrorIsReal`); `BufferOrder` follows the buffers through
  init, merge and destroy (`StreamMergesAllOrNothing`, `StreamBuffersReleased`).
* `AllocatorProofs`: `HeapInv` has `Sound`, what the list is between two steps (every
  block holds its header and at least a byte of payload apart from all others, `next`
  leads to a block and no two blocks share a successor), `Covered` (no byte of a block
  is outside the mappings), `LiveBacked` (every pointer handed out has a used block of
  its own behind it, as large as was asked for), `Locked` (one thread inside, and only
  with the lock taken) and `Locals` (what the variables of a call say about the heap at
  its place: the block found by the search is free and large enough, the merging loop
  stands on a block). None is inductive alone: a split is sound only for the block the
  search has found, and that is still what it was only because nobody else is inside.
  The operators have lemmas of their own (`SplitSound`, `AppendedSound`, `MergedSound`,
  `SetFreeSound`), each for any heap that is `Sound`; the steps cite them.
  `AllocatorImplementsHeap` maps the steps that hand out, move or take back a pointer
  to `Allocate`, `Resize` and `Release`, and all others to stutters.
* `AllocatorProofs`, the whole of `HeapSound`: `Whole` says of the list that it has an
  order (`Ordered`: a numbering of the blocks along `next`, from head to tail), that
  there is a block at every byte mapped, and that a block is followed in the list by
  the one behind it in memory unless it ends where a mapping does (`Seamless`). Each
  operation has a lemma that says how it changes the order. `NthIsOrder` shows the walk
  of the list to go through that order, `SumIsUnion` the fold over sizes to be the size
  of a union of disjoint sets, which is the same set of bytes for blocks and mappings.
  For `AllFreeAllWhole`, `Tidy` says that when nothing is handed out no two neighbours
  are left to merge, but behind the block a merging thread has reached; with `Seamless`
  every block then ends where a mapping does, so there are no more of them.
  The recursive function and the fold are definitions by CHOOSE: a witness is given,
  and its uniqueness follows from a least number (`Least`) or a smallest set
  (`SmallestSet`) at which two solutions would differ, which the library's
  `FS_StrictSubsetOrderingWellFounded` yields without an induction rule.
* `WalkingGraphProofs`: `BuildInv` is the conjunction of the types, `Claims` (a
  tile in the hands of a thread is below the claim counter, and in the hands of one
  thread only), `Pools` (while threads run the graph of every tile with segments has
  the sizes the counts ask for) and `Progress`. `PoolsKept` is not inductive without
  `Progress`: a graph holds at most two nodes and two edges for every segment its
  thread has been through, so with twice the segments as capacity and a table of
  more than twice that it never has to grow. The map does not enter: the argument
  holds for self loops, for nodes of other tiles and for any order of threads.
* `WalkingGraphProofs`, what is built: a tile's segments are named by their places among
  all segments, and the *rank* of a place in that set is its place in the tile.
  `StoreInv` follows the passes by it: after n segments the count of a tile is the rank
  of n, and the segment at place i lies `offset[t]` plus its rank from the begin of the
  store. No range reaches into the next, and the counts add up to the end of the last
  one (`RangesFit`), so the store is never full too early (`NeverFull`) and no thread
  gives up on a range (`BeginFits`); that gives `WalkingRangesFilled`. `GraphInv` says
  of every tile that it is blank, being built or complete; of a thread, that the nodes
  and edges of its tile are those of the segments up to its own (`HalfBuilt`); and of a
  number kept with a coordinate, that the graph of *that coordinate's* tile has the
  node there (`Kept`). `Kept` is what keeps the threads apart: the cache is shared by all
  of them, and a thread that reads a number trusts only those of its own tile. Nodes
  keep their numbers when more are met (`EndsBegin`). `CallInv` says that a thread ends
  only with no tile left and gives up only on a failure, so that behind the last join
  every tile is complete or the call fails for a cause: `WalkingBuilds`.
* `WalkingGraphProofs`, what is written: the place of an edge in the payload is the
  offset of its first node plus its rank among that node's edges, inside the array
  (`PlaceInside`) and apart from all others (`EdgesApart`); the cursor of a node is there
  when the edge's turn comes (`PutReaches`). With `PayloadInv`, which says that what is
  written of a tile was made of its complete graph, that is `WalkingReadsBack`.
  Flattening, adding up the counts and placing the edges are recursive functions chosen
  by the community modules. Each is shown to exist, and what it yields is derived from a
  least length or set at which it would be wrong, as for the allocator.
* `RouteQueryProofs`, the search: for every graph and heap size. `SearchInv` has the
  types, the order of the heap (with the hole of a sift that is under way), that every
  distance is that of the predecessor plus an edge (`PredecessorsAreReal`), that every
  node which is not settled with its distance has an item of that distance in the
  heap, and that settled nodes are not farther than the root. It yields
  `NothingNearer`, the certificate, and from it `ShortestOfAllWalks`: no walk of any
  number of edges is shorter than the distance found. That last step is an induction
  along the walk; the library's induction theorem takes an operator as a parameter, so
  `LeastNat` derives the least element of a set of naturals first and the step argues
  with the first node of the walk at which the claim fails. The bounds of `Inf` are
  those of the code: distances stay below it.
* `RouteQueryProofs`, the walking route: `WalkingInv` follows a query from its ends to
  its answer. While tiles are loaded, `LoadInv` says that every tile around the ends
  that has a graph still waits in the list, is being loaded, or is `Complete`; that
  `Chart` holds (coordinates have one node each and every edge is a walk of a
  payload); and that the hash table keeps its promise (`TableKept`): every node is
  found by probing from the hash of its coordinate before an empty slot. That promise
  is why two tiles that share a coordinate share its node, and it is what growth has
  to restore (`Rehashed`, whose fold is described by a recursive function with a
  witness, as the allocator's walks). The order of the directory makes `FindTile`, a
  binary search in the code, find what there is. Behind the last tile all walks of the
  neighbourhood are in the graph (`Mapped`). Then the length of the answer has two
  bounds. It is not above any walk, because along a walk from the source distances can
  rise by no more than its lengths (`NothingNearer`, with the first node at which they
  would). And the path that predecessors give is itself such a walk. It reaches the
  source in fewer steps than there are nodes, since distances fall along it and no
  node occurs twice. `ShortestWays` is a recursive function over sets of ways; two
  lemmas, one from below and one from above, tell what it yields.
* `RouteQueryProofs`, directions: the steps are put together along the path; up to
  node i they join the first node to the start of the step under way (`GroupSound`),
  the metres in hand are those since. With a step before and behind when an end is off
  the path (`Built`), that is `DirectionsLeadThere`; `ShownSound` keeps it while the
  suggestion is searched for.
* `RouteQueryProofs`, the plan: a label names the stop it was reached from, and that
  stop's label may be replaced afterwards. `TransitInv` therefore says of each label
  only that it was made from one at its predecessor that was *in time*, and a
  replacement only is earlier (`Improved`): the rider is there even sooner. The labels
  also have an order without cycles: by their arrivals and, where those are the same,
  by ranks that exist (`Ranked`), as a label that is written gets a rank above all
  others. Thus reading the plan back ends at the origin, and every leg is in time
  (`SuggestedPlanIsRidable`).
* `RouteQueryProofs`, what is settled: `SettledInv` says how far each round has come.
  A ride from a label of an earlier round was tried in its round and labels only get
  earlier since; a ride from a label this round has found is tried as soon as the scan
  passes (`RidesTaken`); on a trip that is being scanned the first stop that could be
  boarded is boarded (`BoardIsFirst`), so all later ones are reached at least as
  early. What this round has written is in the list of changed stops (`NewInChanged`),
  and a stop not in it that a vehicle reached has had its walks (`WalksTaken`). At the
  end of a round nothing in the list means that nothing is left; after the last round
  only labels of `MaxRounds` rides have rides left.
* `ThreadProofs`, the GPU: `LabelInv` places every label between two bounds. It is at
  least what the round could make of the labels before it, whatever the order of
  threads, and not above what the threads so far have offered. As a label is the least
  of what was offered (an atomic minimum), at the end of a kernel both bounds meet,
  and the labels are those of a round done in one step (`After`, a recursive function
  of the round): `ScheduleDoesNotMatter`. That every label of `After` is the arrival
  of a journey with that many rides (`EveryLabelIsReal`) is then a matter of
  sequential rounds.
* `PackProofs`, the map pack: `MeetingBoxesShareATile`, for every size of the world,
  number of tiles and halo, a feature whose box meets the box drawn lies in a tile the
  renderer reads, from the monotony of the clamped tile arithmetic;
  `MergeKeepsFeatures`, the rebased merge of a worker keeps every feature and place
  way with the refs it had. `MapInv` says of the passes what they have gathered so far
  without saying who gathered it: the lists of all workers together say what the blocks
  read so far say, each record with the refs of its own way (`FeatureLook`, `PlaceLook`:
  a record is looked at through its stretch of the refs, so that offsets, which differ
  from one schedule to another, drop out); the merged list says what the file says; the
  table of nodes has the coordinates of the blocks read. What one block adds to a worker
  is a fold over its ways, and the merge a fold over the workers; each is unrolled by
  `FoldExists`. When all is read, what the tiles hold is what the source has
  (`TilesLeadToTheSource`, with `MeetingBoxesShareATile`), and the places and their ways
  are those of the source (`PlacesHaveTheirWays`).

* `PackProofs`, the pack file: `WrittenInv` adds to `MapInv` what the file holds while it
  is written. The writes are laid out (`WritesLaid`): header, places, tiles, payloads,
  outlines and names lie one behind the other, each run of units at the sum of the
  lengths before it (`Offset`), and every unit is written once, but for the header. So
  the file is at every moment what the first writes put there (`Shown`), also when the
  program stops (`FileInvariant`). In a finished file the renderer finds at each offset
  what was meant to be there (`TileEntryRead`, `PayloadRead`), decodes the features of
  the tile, and merges the tiles into the set asked for: `PackRendersTheSource`.

* `PackProofs`, any file: what holds of a finished file holds of an unfinished one as
  far as it goes. `Faithful` says it of every file the converter can leave: a unit of a
  directory is a hole, or it and all before it are what was meant and all payloads are
  there, as directories are written after payloads. So a record that can be read leads
  to a whole payload, and the renderer refuses or shows what the source has
  (`NoFileLies`).
* `PackProofs`, the city: the records of places have the order of their relations
  (`Ordered` is part of `MapInv`; `PlacesInOrder` keeps it through `Only`), hence the
  first record of the highest rank is that of the relation which `CityOf` means
  (`CityOfRecord`), the rank of the code being that of the format (`RankIsScore`). Its box and outline are those of the relation: the ways found by
  their id are the ways of the file (`PlaceWayOfId`, `FileWaysOfRelation`,
  `PlacePointsOfRelation`, `OutlineOfRelation`). A view around the box of all points meets
  every line of the outline, as a box of more points is around one of fewer
  (`AroundMore`) and padding only widens (`PaddedBox`): `TheCityIsOutlined`. Without a record
  of the name the renderer draws the preset box as any other box, or refuses.
* `PackProofs`, the parts of a city: joining the roots of two ways never parts a pair that
  has one root (`JoinedKeeps`), so after the pairwise joining two ways that share an end
  have one root (`RootsJoin`) and lie in one component. The largest component exists and
  is never far from itself (`PrimaryIsOne`), so neither view is empty, and each is around
  the boxes of its components (`ViewsKeepPieces`): `NoPieceIsTornOff`.

Only model-checked: liveness (`Terminates`, `PermitsMeetWaiters`, `EndsClean`,
`LockReturns`), because TLAPS 1.4.5 has no support for ENABLED. Every safety property of
every passing run is stated by a theorem.

## 6. What is not modelled

Bytes, protobuf fields and compression (sequential parsing; a block either passes
a stage or does not); the size of buffers; wrapping of the 32-bit ring counters,
which takes 2^32 fileblocks; coordinates, lengths and the saturation of counters in
the walking graph; the bytes in allocated memory, and requests for the last 15
sizes below 2^64, which the allocator would align to 0; the lists of features that a
header names; memory that is leaked on error paths; weak memory ordering (the code
uses acquire and release operations around every shared access of the queue; the
device of the GPU search is taken as sequentially consistent); a node or way id that
occurs twice in an extract; `--bbox` together with `--city`; the trigonometry of positions (nearest nodes and walking times
are given functions); the spelling of names and addresses (a match is given); the
projection, drawing, labels and images of the renderer; text, JSON and map output of
the route tools; the transit import and the address index of `pbf-to-rte`; macOS,
browser and inherited platform code. Two thirds of the lines of the repository are
in these parts: drawing, compression, fonts, and platform code that no target of
the Makefile builds. `PROJECT.json` lists each part with its reason.

## 7. Plan

Done: the locks, the threads, the queue with its two readers, the walking graph, the
allocator, the route query, the GPU search, and the map pack from its source to what
is drawn. Next:

1. `TripSort`: the parallel chunk sort of the transit import
   (`pbf_to_rte.c:1441-1505`) and its merge, against one sorted sequence.
2. The sections of the route pack that `rte-route` reads: offsets and sizes as
   written by `pbf-to-rte`, read back as the map pack is.
3. The legacy index (`osm_index.c`), should a tool call its builders again.
