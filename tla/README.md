# FEAViz: a TLA+ model

This directory specifies parts of FEAViz (`src/`), checks the specifications
with TLC on small instances and proves some of them with TLAPS for every
instance. Source paths below are relative to the repository root, so
`src/Parallel/FVizExecutor.c` is the C file of that name.

1. [The system](#1-the-system)
2. [The modules](#2-the-modules)
3. [Runs, bounds and what they show](#3-runs-bounds-and-what-they-show)
4. [Where the code and its words disagree](#4-where-the-code-and-its-words-disagree)
5. [Fairness](#5-fairness)
6. [Proofs](#6-proofs)
7. [What is not modelled, and the plan](#7-what-is-not-modelled-and-the-plan)

## 1. The system

FEAViz is a C library for the visualization of finite-element results. Its
layers, with the state each keeps and what makes it correct:

| Component | State | Operations | What makes it correct |
|---|---|---|---|
| **Executor and futures** (`src/Parallel/FVizExecutor.c`) | per executor: ready heap, registry of parked futures, counters, workers; per future: result, value, token, antecedent, dependents, chain of waiters | submit, then, cancel, wait, take value, destroy future, destroy executor | no future lost, run twice or disposed twice; an antecedent outlives its dependents; promotion, shutdown and destruction do not block or touch freed memory; the statistics add up |
| **Parallel context** (`src/Parallel/FVizParallel.c`) | generation, participants, remaining, next chunk, first failure, stop flag; worker threads | range dispatch, cancel token, task groups, reduce, scan, sort, shutdown | dispatches do not overlap, each chunk runs once, the lowest failure is reported, the caller returns |
| **Object runtime** (`src/Core/FVizObject.c`, `FVizCommand.c`) | reference count, observers, modification time | retain, release, add/remove observer, invoke event, modified | a dispatch visits the right observers in priority order whatever callbacks do to the list; commands live while they run |
| **Containers and memory** (`src/Core/FVizHashMap.c`, `FVizArena.c`, `FVizBitArray.c`, ...) | slots and tombstones, blocks and a current one, words | put, get, remove, grow; allocate, reset; resize, assign | probing finds what was put after removals and growth; allocations do not overlap; a grown array shows no old bits |
| **Pipeline** (`src/Pipeline`) | algorithms with ports, connections, outputs and their times; the executive's stack | connect, edit, update, abort, cancel, release, asynchronous chain | a changed input makes the next update execute, an unchanged one does not; once per request; no cycle |
| **Temporal cache and prefetch** (`src/Data/FVizTemporalFrameCache.c`) | entries with byte sizes, pending requests, futures in flight | load, request, prefetch, evict, wait, destroy | limits hold, the drain never loses a request, a load is cancelled exactly if it is stale |
| **Data model** (`src/Data`) | arrays with ranges and histories of changes, sets of named arrays, grids, composites | append, write, modify, add/remove entry, look up | cached ranges, indices and times are those of the contents; no composite holds itself; searches find what is there |
| **Mesh and spatial search** (`src/Mesh`, `src/Spatial`) | lists of cells, tables of cell types, links, adjacency, hierarchies of boxes | append cells, build, refit, query | tables agree with each other; a query answers as looking at every cell does |
| **Algorithms** (`src/Algorithms`) | the parameters of each filter, tables kept from request to request | execute | what a filter gives has the meaning its name says: pieces share out a grid, a cut closes, a surface keeps its outline, an expression is evaluated as written |
| **FEA** (`src/FEA`) | result database, blocks of field values, numberings of the mesh, caches of displayed values | add and remove blocks, write, renumber, evaluate, deform, search in time | the display is that of the samples and of the present numbering; nothing cached is stale |
| **Interaction** (`src/Interaction`) | pressed buttons, captured renderer, style, widgets, timers, selection records | input events, cancel, disable, poll, select, recompute | every drag that begins ends once and is undone if cancelled; a selection survives a new surface; timers fire in phase |
| **Input and output** (`src/IO`) | readers with their caches of frames and pieces | write, read, prefetch, clear | what was written is read again; a series is written whole or not at all; caches answer as the files do |
| **Rendering** (`src/Rendering`) | buffers on the device, memory budget, render graph, state of the graphics library, the window with its surface and requested frames | upload, draw, evict, compile, pick, request, handle message | buffers show the data as it is; a frame draws every visible actor once and in its own state; a requested frame comes |
| **Math, errors and logging** (`src/Math`, `src/Core`) | none that lasts | compute, format | numbers and texts |

How they interact:

- Executors and contexts are the only components that own threads. A
  continuation (`fviz_future_then`) may go to another executor than the future
  it depends on, so one executor's worker pushes into another one's heap.
- The pipeline's asynchronous update (`fviz_algorithm_update_async_chain`)
  submits one future per stage to an executor, each a continuation of the one
  before; the last one's user data owns the earlier ones and destroys them in
  its destructor, which the executor calls on a worker or during shutdown.
- The temporal cache submits its loads and its prefetch drain to an executor;
  the drain submits its own successor, which destroys the future before it.
- Filters call the parallel context. A range dispatched from inside a callback
  runs in its caller.
- Everything derived from `FVizObject` sends events. The interactor, the widgets
  and the pipeline's progress run as observers and change the observers of the
  object that called them.
- Modification times tie data to everything derived from it: the pipeline, the
  piece filter, the hierarchies, the mappers and the device decide from times
  and from bounded histories of changed ranges what they may keep.
- A window draws frames on request; observers of a frame may request, resize,
  close or destroy the window that is drawing.

What is hard. The executor has no global lock: a future has a mutex, an
executor has one, and several accesses happen outside both. Submission races the
completion of the antecedent, promotion races the shutdown of another executor,
and destruction of a future races its own publication. A context writes half of
its description outside its state mutex. Observers, algorithms, timers and
windows are changed under a running loop. Caches are kept across edits of what
they were made of: adjacency, owners, boxes, ranges, buffers, displayed values,
frames. Numbering is rewritten by filters, readers and surfaces while data must
stay with its cells. State of the graphics library is shared by everything that
draws. `PROJECT.json` lists these hazards by line.

## 2. The modules

| Module | Models | Kind |
|---|---|---|
| `FutureGraph` | what `include/FViz/Parallel/FVizExecutor.h` promises of futures, with no threads | abstract specification |
| `Executor` | `FVizExecutor.c`: workers, futures, continuations, two-phase shutdown; at its end the refinement mapping to `FutureGraph` | detailed specification |
| `ExecutorProofs` | theorems about `Executor` and the refinement | proofs |
| `ExecutorHeap` | the array behind the ready heap: `fviz_heap_*` | algorithm |
| `ParallelContext` | a pool, its callers and its shutdown: `fviz_parallel_dispatch`, `_execute_chunks`, `_worker_entry`, `_context_shutdown` | detailed specification |
| `ParallelContextProofs` | theorems about it | proofs |
| `Observers` | observers, event dispatch and reference counts of one object | detailed specification |
| `ObserversProofs` | theorems about it | proofs |
| `TemporalPrefetch` | the prefetch queue of `FVizTemporalFrameCache.c` and its drain on a worker: `fviz_temporal_prefetch_*` | detailed specification |
| `TemporalPrefetchProofs` | theorems about it | proofs |
| `FrameCache` | the cache of the same file: hits, loads, limits, eviction | detailed specification |
| `Pipeline` | ports, connections, requests and the walk over frames: `FVizAlgorithm.c`, `FVizExecutive.c` | detailed specification |
| `PipelineProofs` | theorems about it | proofs |
| `HashMap`, `Arena`, `BitArray` | containers of `src/Core`, each beside what it stands for | detailed and abstract in one |
| `Columns` | an array with its range, a list of cells, a set of named arrays: `FVizDataArray.c`, `FVizCellArray.c`, `FVizAttributeSet.c` | detailed specification |
| `CellTables`, `CellTopology` | the tables of `FVizCellTypeTraits.c`; what they must have in common | data, algorithm |
| `MeshConnectivity` | `FVizCellLinks.c`, `FVizCellAdjacency.c` | algorithm |
| `UnstructuredGrid` | the piece filter's algorithm and the visible geometry of a grid; a grid edited between requests of the filter, with the tables it keeps | algorithm, composition |
| `StructuredGrids` | image, rectilinear and structured grids, their extract and geometry filters | algorithm |
| `SpatialIndex` | `FVizBVH.c`, `FVizPointLocator.c` | detailed specification |
| `TimeSeries` | searches by time in steps, frames and samples | algorithm |
| `CompositeData` | multi-blocks, partitioned sets, time series and the result database as a graph of observers; at its end a theorem about it | detailed specification, proofs |
| `Cutting` | clip with caps, contour, slice and isosurface | algorithm |
| `SurfaceFilters` | triangulation, regions, edges, clean, append, smooth, decimate | algorithm |
| `Expressions` | parser, shapes, evaluation and cache of `FVizExpression.c`; the array calculator | algorithm, cache |
| `FieldComputations` | gather, average, fit; statistics in chunks | algorithm |
| `ResultDisplay` | a field's blocks, the evaluation of a primary variable, extrapolation, the displaced mesh, display groups | detailed specification |
| `FileFormats` | VTU, VTP and legacy VTK files | detailed specification |
| `FileSeries` | PVTU and PVD: writer, readers, caches, prefetch | detailed specification |
| `GpuResources` | the ring of changed ranges that arrays, surfaces and glyphs share, and which buffers of a surface and of glyphs the device uploads anew | detailed specification |
| `GpuResourcesProofs` | a theorem about it | proofs |
| `GpuMemory` | retention, budget and pins of resources | detailed specification |
| `RenderGraph` | passes, dependencies, order and shared targets; the renderer's list of passes | detailed specification |
| `RenderScene` | a frame as it is drawn: layers, passes, actors, state of the graphics library, picking | detailed specification |
| `WindowSurface` | a render window, its native window and its requested frames | detailed specification |
| `Interaction` | interactor, styles, a widget, cuts that follow it | detailed specification |
| `TimerQueue` | the interactor's timers | detailed specification |
| `Selection` | records, sets and provenance across surfaces | detailed specification |
| `RegionSelection` | rectangle and lasso | algorithm |
| `MCExecutor` | instances of `Executor`; the constants of `ParallelContext`, `TemporalPrefetch` and `CellTopology` are plain values and their cfgs set them | model checking |
| `MCSequential`, `MCSession` | components that share nothing, in one run each: a behaviour moves one of them, so that their state spaces add up and do not multiply | model checking |
| `SessionProofs` | what is proved of components, for the behaviours of `MCSession` | proofs |

### Executor

A step is one critical section, or one access outside all of them. `pc[w]`
follows a worker through `fviz_executor_worker_entry`:

    idle -- Pop --> check -- Check --> antecedent --> run --> release --> callback
         --> complete --> wake --> promote <--> push --> idle

`antecedent` is the reading of the antecedent's result, `release` the release
of the dependency (before the user-data destructor, line 417), `callback` that
destructor, `complete` the part of `fviz_future_complete` under the future's
mutex, `wake` the part after it, and `promote`/`push` the loop of
`fviz_executor_promote_waiters`. The thread that destroys executor `e` is called
`e` and shares the steps from `release` on, in the order that function has them:
`next`, `callback`, `release`, `complete`, `wake`, `collect`, `advance`.
`held[e]` says that it keeps the mutex between these steps.

The program is the environment. It submits (`Accept`, `Reject`), cancels, takes
values, destroys futures (`BeginFree`, `EndFree`) and executors. It keeps the
contract of the header: submit and destroy are externally synchronised
(`MaySubmit`), a future is not used after it was destroyed.

The ready heap is the set of its entries: `IsTop` says which one leaves first.
`ExecutorHeap` justifies that: it has the array and its sift operations, and
`PopsFirst` says that what is popped precedes everything left.

`waiting_head` and `waiter_next` are kept as they are, since two of the findings
are about links. `stats`, `runs`, `disposals` and `heard` record what a test
could observe. The user data of a task is abstracted to what its destructor does:
`Frees[f]` is the sequence of futures it destroys, as the destructor of a
pipeline chain does (`FVizAlgorithm.c:1099`).

Abstracted: values, progress reports, time and high-water statistics, failed
allocations, spurious wake-ups (a woken worker only looks again). The
Windows and the POSIX variants are the same model.

### ParallelContext

`Describe`, `SetParticipants`, `SetRemaining` and `Announce` are the four parts
of `fviz_parallel_dispatch` that other threads can see separately: the first
three write outside `state_mutex`. `CheckToken`, `Claim`, `Succeed`/`Fail` and
`Capture` are one round of `fviz_parallel_execute_chunks`, run by workers and by
the caller. A range is its number of chunks, the grain size having been divided
out; ranges that are worth one thread, empty, or dispatched from inside a
callback touch no shared state and are not steps. `calls` and `failed` record
what the callback was given and where it failed; `working[t]` is the dispatch in
whose callback thread `t` is.

Abstracted: the chunk and dispatch counters other than `dispatch_count`, the
thread limit of the default context, affinity, the per-thread scratch memory,
spurious wake-ups. A call or `fviz_parallel_shutdown` races no new dispatch, as
the owner frees the context afterwards.

### Observers

`stack` holds the dispatches in progress, innermost last, with the index and
count of each loop. Between two callbacks of a dispatch the program may do
anything: add, remove, remove all of an event, invoke again, retain and
release, drop its references to commands. `Maintain` is
`fviz_object_observers_maintain` (compaction and sorting), put off while a
dispatch is running.

### TemporalPrefetch

A step is one critical section of `queue->mutex`, or one call between two of
them. A request goes

    idle -- Request --> kick -- Kick --> submit -- KickSubmit --> store -- KickStore --> idle
                                              (refused) --> undo -- KickUndo --> idle

and a window makes its requests from `window`, one after the other, with those of
other threads in between. The worker goes

    idle -- Pop --> start --> load --> after --> submit --> store --> release
         --> freeing --> complete --> idle

`drains` is the sequence of tasks submitted, each with the state of its future,
whether that future is cancelled, and the future it will destroy (`previous`).
`mine[t]` is the future a thread has in a local variable. So the ownership of
futures, which the code passes from `active_task` to a successor and back, is
explicit. `lost`, `denied` and `lastCancel` record what a test could not see.

The executor is reduced to what the queue needs of it: one worker, first in
first out (all drains have one priority), a cancelled future does not run, the
user-data destructor runs before completion. That is what `Executor` does.
Loads are a step without effect here. The program does not use a queue while it
destroys it.

Abstracted: failed allocations, the order of the array (scans compare priority
and serial, which is unique), loads, statistics.

### FutureGraph

A future is `none`, `waiting`, `running`, `skipped` (its antecedent is released,
it will not run), `done` or `gone`. A continuation starts only after its parent
is done and is told the parent's final result; a parent goes only when no child
needs it.

### Pipeline

An output is abstracted to what it was computed from, so `UpToDate` can compare it
with a computation from scratch. A step is the walk of one frame of the executive's
stack (`Walk`), and the program (`Program`) acts outside every update or in the
callbacks of an algorithm that executes: `Edit`, `EditParameter`, `SetConnection`,
`AddConnection`, `RemoveConnection`, `ClearInput`, `SetData`, `ReleaseOutput`,
`Abort`, `ClearAbort`, `Cancel`, `Update`. `ProgramRuns` is the guard of them all: the code
has none of its own (`FVizAlgorithm.c:532-683`). `stamp`, `out` and `updating` are the
fields of the algorithms.

`StartEvent` and progress 0 are sent in the phase `started` of a frame (`FVizExecutive.c:765-767`),
further progress in `data`, `EndEvent` and progress 1 in `ended`. An update called there puts
the one in progress aside (`suspended`: the frames, what the transaction visited, its token
and its result; the guards and outputs are shared) until `Return`. `EnterReentrant` is the
check of lines 627-632, `Fail` the unwinding that clears the guards of all frames, and
`AfterChild` resolves the input again, since a callback may have disconnected it. One call is left out:
the update of a root whose update is in progress, which resets the arena that holds
the frames of the outer walk (line 883).

What callbacks change can be lost on the code (section 4). Two variables delimit where
`UpToDate` and `OncePerTransaction` say nothing: `calm` is false during an update in which
anything was changed, connected or released, and at its end; `masked` becomes true for good when that happened
under any update but by an edit of the only root, or when a producer was asked for two
different requests, for which it has one output. Callbacks that abort, cancel or update
set neither.

Times are the code's: an algorithm is newer than its output if it, a parameter or what it
consumes was changed later. `Reached` and `Requested` are what lies downstream of an
algorithm and what an update asks for: the smallest sets that are closed under consumers,
and under inputs with the request that each filter passes on.

### Data

`HashMap`, `Arena` and `BitArray` carry beside the code's fields a variable with what
they stand for (`dictionary`, `live`, `bits`), and their properties relate the two.
`Columns` is three automata: `ArrayCall` (values written, appended and removed in
arrays of three types, owned, external and constant storage, with the cached range),
`CellsCall` (cells appended in narrow or wide numbers, with failing conversions) and
`AttributesCall` (arrays added, removed and given roles, with an index that appears
with the second array and may fail to). `ghost` is what the program was told.

`UnstructuredGrid` is edited by `AddPoints`, `AddCell`, `Threshold` and `Clear` while a
piece filter keeps `adjacency`, `links` and `owners` with the times they were made at;
`ProcessRequest` refreshes what the three comparisons of times say. What the
filter computes from them comes first in the module, `MeshConnectivity` is how the tables
are built, and `CachesTransparent` says that a request never shows that there are any. In
`StructuredGrids` points have three numbers; `SetExtent`, `Extract` and `Surface`
are the calls, and `style` chooses among the three kinds of grid. `SpatialIndex` moves
and adds cells (`Move`, `AddCell`, `AddPoint`, `ClearCells`) under a hierarchy that is built or updated
(`Build`, `Update`); coordinates are a lattice of the plane, rays run along an axis.

`CompositeData` follows observers and times through containers: `Modify`, `Release`,
`Look`, `RemoveEntry`, `Clear`, and the operations that add entries to each kind,
`Blocks`, `Partitions`, `Steps` and `Results`. `TimeSeries` edits data ordered by time and
searches after every edit. `FrameCache` has `Hit`, `Load`, `Invalidate`, `SetOptions`
and `Clear`, each under the cache's mutex.

### Filters and fields

`Cutting` steps a plane or a level through solids of one, two and three cells with integer
coordinates chosen so that every cut point is exact. Points of a cut are named by the
edge they are on, as the code's maps of shared edges do. `SurfaceFilters` builds
surfaces cell by cell and applies every filter to each. `Expressions` gives every
sequence of tokens to a parser that is a translation of the recursive descent, and
checks it against the meaning read from the loosest operator (`Write`, `Get` and
`Clear` are the calls of the cache). `FieldComputations` adds samples and leaves.
`ResultDisplay` edits a field (`AddBlock`, `RemoveBlock`, `WriteValues`), renumbers the mesh
(`Renumber`) and asks for display values and displaced meshes (`Evaluate`, `Deform`),
which the evaluator and the controller keep for the request they were last given.

### Files

`FileFormats` writes a data set as the sections, attributes and blocks that the writer
emits (`Save`), loses the end of the file (`Cut`) and reads it (`Load`); a legacy file is
a sequence of sections in any order (`ReadPoints`, `ReadCells`, `ReadTypes`,
`ReadAssociation`, `ReadArray`, `ReadField`, `Finish`). A file is never a string: it is a
sequence of items (the ends of sections, arrays between their tags) and of raw blocks.
`FileSeries` writes pieces and a manifest with one failure (`Write`), and reads
collections (`SetFileName`, `Update`, `Prefetch`, `PieceCount`, `ClearCache`, and the limits
`SetCacheCapacity`, `SetCacheByteCapacity`) through the caches of both readers.

### Drawing

`GpuResources` edits a surface or glyphs (`AddPoint`, `SetPoints`, `SetPointsRange`, `AddCell`,
`SetScalars`, `SetTuples`, `SetLook`, `SetInstances`, ...) between uploads
(`EnsureMesh`, `EnsureGlyphs`). Each item is abstracted to the time it was written, so a stale
buffer is one that holds an older time. The ring that both
consult comes first in the module (`Recorded`, `DirtySince`). `GpuMemory`
has `BeginFrame`, `Pin`, `Ensure`, `EndFrame` and `ReleaseAll`. `RenderGraph` adds passes,
resources, uses and dependencies and compiles them (`Compile`); `CompileRenderer`
makes the graph from a renderer's list.

`RenderScene` draws ten scenes on four devices, two frames each. `Render` begins a frame,
`Pass` draws the actors of one pass and `NextRenderer` goes to the next; `gl` is the state of
the graphics library (depth test, writing and function, blending, culling, depth range, offset,
program, target, scissor), which each actor changes and restores as `FVizGLDevice.c` does.
One pixel of each image is kept: how near it is and who was painted over whom.
`Ask` picks.

`WindowSurface` is a window with its native window, the device's context, the messages
that are posted to it (`system`) and the frame that is being drawn (`frame`).
`Application` is the program, also inside a frame's observers, `Messages` the window
procedure, `Frames` the parts of a frame: `Enter`, `Leave`, `Finish`. Windows itself is
modelled by what the code relies on: a posted message arrives once, an invalid region
yields a paint message, a destroyed parent destroys its children.

### Interaction

`Interaction` is an interactor over two renderers: `Press`, `Release` and `Other` are the
events, with what is hit; `Cancel`, `Disable`, `SetStyle`, `ShowWidget`, `HideWidget`,
`AddCut` and others the program's calls in between. A drag moves between two poses.
`ends` counts the times the observers were told `EndInteraction` since they were told
`StartInteraction`: `ListenersKnow` wants it zero exactly while the style drags, and
`EndsOnce` lets no step raise it beyond one, except the step in which one event ends a
widget's drag and a camera's drag (section 4). `TimerQueue` separates a poll (`Poll`) from its single timers (`Fire`) and its end (`Return`), between
which callbacks act; they do not poll again. `Selection` recomputes a surface and refreshes its
records (`Recompute`, `Refresh`, `Select`, `ApplySelf`); what a cell of the surface shows of the
model is its provenance. `RegionSelection` steps through all figures and lassos on
a display of a few pixels.

## 3. Runs, bounds and what they show

| Run | Instance | Checks |
|---|---|---|
| `executor_one` | one executor, two workers, three futures in any dependency, two priorities, queue of two, one cancellable, shutdown at any moment | types; every incomplete future is in exactly one place, only runnable ones are in the heap, runs and destructors happen once (`ScheduledOnce`); `dependent_count` is exact; a parked future can be found by whoever must wake it; the heap array cannot overflow and the statistics add up (`CountersExact`); no sleeping worker while work is left; no link leads to freed memory |
| `executor_cross` | two executors of one worker, three futures, continuations across; the program frees what is ready, cancels one future and takes the value of another; no task fails of itself, no executor is destroyed | every behaviour implements `FutureGraph` |
| `executor_chain` | the futures of a pipeline chain, two workers, cancellation and failure | destroying the last stage, and so its links, ends |
| `executor_live` | one executor of one worker, destroyed at any moment | every accepted future becomes ready; shutdown ends |
| `parallel_pool` | two workers, two callers, two dispatches of three chunks, failures, cancellation, shutdown | `remaining` is exact, callbacks stay in their dispatch, each chunk once, lowest failure, every dispatch and the shutdown return |
| `prefetch` | two callers, up to four calls (a window counts as the two requests it makes), three frames, two places, one refusal, destruction | there is one drain when `active` is set, it runs, and none otherwise (`OneDrain`); a load is cancelled exactly if it is stale; no request stranded; each future has one owner; nothing uses a destroyed queue; every call returns |
| `sequential` | see below | the ready heap and the frame caches let go of the right one (`TakesFirst`); then one property per group of components |
| `session` | see below | `DispatchesInOrder`, `CommandAlive` of `Observers`; `UpToDate`, `OncePerTransaction` of the pipeline; then one property per group of components |
| `chain_shutdown`, `pipeline_parameter`, `parallel_late`, `cell_tables` | see section 4 | each is expected to be violated |

The last two passing runs ask one question of each group of components that share
nothing. Each property is the conjunction of the named properties of the
components' modules, guarded by which component moves:

| Property | Of | Says |
|---|---|---|
| `ContentsKept` | heap array, hash map, arena, bit array | the array is a heap; the map finds what was set last; live allocations are apart; a grown bit array shows zeroes |
| `TablesExact` | cell types, connectivity | edges bound faces, faces are turned outward, nodes fit edges; every cell of a point and every neighbour of a cell is found once |
| `CachesTransparent`, `PiecesPartition` | piece filter | no table of an earlier request shows; pieces share out cells and points, ghosts have their exact level, the pieces together show what the grid shows, its surface is closed |
| `AnswersExact` | hierarchies, searches in time, structured grids, regions | what is looked up is what looking at everything finds; extracts and surfaces are those of the grid |
| `FiltersExact` | cuts, surface filters, expressions, fields, displayed results | caps close, halves share out the surface, slices of neighbours meet; outlines and data stay with their cells; an expression means what it says; order, labels and chunks do not show; what is displayed is not stale |
| `FilesExact` | formats, series, columns | what was written is read, or a cut file is refused; a series is written whole or not at all and its caches answer as its files; ranges, narrow numbers and indices of names are those of the contents |
| `FramesExact` | scene, window | every visible actor is drawn once, the nearest in front, in its own state; what is picked is what is seen; a requested frame comes; window, context and capture agree |
| `CachesFresh` | device buffers, bounds, containers | what is kept is what it would be if it were made now |
| `BudgetsKept` | device memory, loaded frames | within the budget, or all in use; those used last stay |
| `GraphsInOrder` | render graph, containers | passes respect what they use, shared targets are apart; no container holds itself |
| `InteractionSettles` | interactor, timers, selections | a drag ends with its buttons, is undone when cancelled, and its observers hear of the end once; marked cells stay marked; a timer fires once in a poll, in its phase |

There is one mutant for each property of each run: a bug of one of its components that
makes TLC find the property violated.

Why the bounds are enough for the questions asked:

- Three futures are the least for which a chain of waiters has a middle, a
  continuation has a continuation, and a full queue of two refuses. Two workers
  are the least for two completions to interleave; a queue of two makes the
  capacity bite.
- Two executors of one worker show every crossing: the waker and the woken
  differ in executor, and a second worker would only add the interleavings that
  `executor_one` has.
- Five heap entries have a second level and a half: every case of sift-down (no child,
  left only, both) occurs at the root or below it.
- Three chunks on three threads let each thread take one, or one take all;
  two callers make one wait for `dispatch_mutex`, and two dispatches give every
  worker an old generation to be late with.
- `Modulus` is 8 where the code has 2^32: it only has to exceed the number of
  workers plus one for an underflow of `remaining` to be seen as one.
- Two callers and four calls let one caller be between its submission and its
  store while another makes two requests, or a request, a cancellation or a
  wait. Three frames for two places fill the queue; the windows start at both ends of
  the key range. One refusal can hit a caller or the drain.
- Three observers: one before, at and after the running index. Nesting of two
  is one dispatch inside another, the depth at which maintenance is put off.
- Six keys with chosen hash values collide, wrap around the end of the table, and make
  it grow twice. Two arena blocks are one behind and one current.
- Two sources, a transform with two inputs and a consumer that shares a source with
  it are a diamond, the least graph in which an algorithm is asked for twice in one
  request; three calls are one that changes something between two updates, an update in
  whose callback another is called or a producer connected, or that and the update that
  follows.
- Three tetrahedra in a row and a triangle on a face have an inner and an outer facet of
  each type; two layers of ghosts reach through a whole row, three pieces can be empty.
- A hierarchy of one cell per leaf over three cells has three levels, so that a refit
  has a level between leaf and root.
- Three points along an axis have an inner one; extents begin below zero.
- Solids of one tetrahedron, two, a wedge, and a cube with a pyramid have triangles and
  quadrilaterals, shared and not; normals up to two in every direction meet corners and
  miss them.
- Five tokens are the least for two operators of different priority, a condition, or a
  selected component of something in parentheses.
- Two blocks of samples are the least in which one overrides or adds to another; three
  samples in chunks of two make a short last chunk.
- The ten sections of a legacy file come in any order, some twice, some not fitting the rest; a
  collection has up to five entries over three files, a cache holds up to three.
- Ten scenes of up to eight actors have each kind of actor before and behind each other
  kind; two frames let the first leave something to the second; four devices differ in what they
  can do. A window has one message in flight, since the code looks at one at a time and
  only asks whether its own is there.
- A surface of two points with a history of two records loses records after three
  changes. Three actors on a budget for two make one leave.
- Three passes and two resources give a chain, a fork and a join.
- Two buttons are one that drags and one that disturbs; two timers are one that fires
  and one that is changed by it.

Some constants restrict the program, because without them a known
disagreement (section 4) is reached before anything else:

| Constant | Value in the passing runs | Keeps away |
|---|---|---|
| `RejectedThen` | `FALSE`: no `fviz_future_then` on a full or stopping executor | F |
| `CrossExecutor` with `Destroyable # {}` | never together | B, D |
| `FreeInShutdown` | `FALSE`: no future is freed while its executor is being destroyed | H |
| `Frees` with `Destroyable # {}` | never together | A, H |
| `ChunkCounts` | ranges that use the whole pool | E |
| `ParameterWhileConsumed` | `FALSE`: a filter's parameter object does not change while its output is used | `pipeline_parameter` |
| `ExternalArrays` | `FALSE`: no array takes the address of one that was freed | the reused address |
| `MixedNesting` | `FALSE`: no multi-block inside a partitioned set or a time series that it holds | the undetected cycle |
| `CellTypes` | all but the two large prisms, the voxel, the twelve-node wedge and the eighteen-node wedge | the tables of edges and shape functions |
| `ReinitializedKinds` | attached and off-screen windows | the posted quit message, the lost request |
| `DestroyedWhileShown` | `FALSE`: no observer of the first frame destroys the window | the window shown without a surface |
| `Validates` | `TRUE`: the end of painting marks as valid what became invalid while it was painted, as the code fears | nothing: it is the harder case |

Instances restrict what is given to a component for the same reason: appended files
have wide headers; names need no escaping; files of a series are written before a reader
opens them; part numbers are a permutation, all missing or all repeated; translucent
actors write no depth of their own choosing; volumes stand last; renderers that peel
are not at the pixel that is kept; legends fit their vertices; the far planes of a
structured grid are not asked for.

`CompletedUntouched` of `Executor` (C), `NoneLeaks` of `TemporalPrefetch` (I), `IsoBetween` of
`Cutting` and `NeverReentered` of `Pipeline` are stated and not among the properties of the passing runs: they do
not hold.

## 4. Where the code and its words disagree

Four are runs that TLC must find violated; the others were met while modelling, no
run is spent on them, and the constants and instances above keep the passing
runs away from them. `PROJECT.json` quotes the lines that say otherwise.

### Concurrency and the pipeline

- **A**, run `chain_shutdown`. `fviz_executor_destroy` calls the user-data
  destructor of a drained future before it releases the dependency
  (`FVizExecutor.c:539-541`, `582-584`), the order line 411 warns of. A pipeline
  chain whose executor is destroyed waits for itself for ever, with the
  executor's mutex held.
- **B**. The registry walk clears `waiter_next` of a future
  (line 580) that may already be inside the collected chain. What stood behind it
  is never promoted; a dependent on another executor stays parked.
- **C**. `fviz_future_complete` reads `future->executor`
  (line 194) after publishing `ready`, though line 439 says the future must not be touched.
- **D**. Promotion locks the executor of the waiter (line 327). If the waiter
  completed in the shutdown of that other executor, the executor is gone.
- **E**, run `parallel_late`. `participating_workers` is written before the new
  generation, outside `state_mutex`. A worker that is late with a generation it
  had no part in sees the new value, works for the next dispatch, and lowers
  `remaining` for it a second time. The caller returns while a callback runs.
- **F**. A refused continuation releases a dependency it never
  counted (line 659), so the antecedent may be freed under another one.
- **G**. `fviz_algorithm_update_async_chain` records a link in the chain's record
  after it has submitted the terminal stage (`FVizAlgorithm.c:1184`), whose
  destructor may have freed that record; when a continuation is refused
  (line 1173), the earlier links are destroyed by nobody.
- **H**. The chain collected by the registry walk still links futures of the
  executor itself that the walk completed. Promotion after the walk (line 602)
  follows the links; the program may have freed such a future since. So may a
  destructor that the walk calls (line 582), and appending to the chain then writes to
  the freed one (line 204).
- **I**. A prefetch request stores the future of its drain after submitting it
  (`FVizTemporalFrameCache.c:674`). If another thread requests a frame in between,
  the drain has already stored its successor's future; the late store
  overwrites it and nobody frees it, though line 789 takes care that it "does not
  leak". `NoneLeaks` says so; `OwnedOnce`, which is checked, shows that every other
  future has exactly one owner.
- **J**. When the executor refuses a drain (its queue is full of asynchronous
  loads), the entries stay pending without a drain. `wait_idle` then blocks until
  somebody requests another frame, and a request that found `active` set has
  returned `FVIZ_OK`. No doc excludes it, so `NoneStranded` and `CallsReturn` except
  it (`denied`, `Stranded`).
- Run `pipeline_parameter`. The transform of a transform filter raises the filter's
  time (`FVizFilter.c:39`) but tells no consumer, which then returns its old output;
  `FVizExecutive.c:633` relies on such news.
- The time an output is published with is read after the inputs were updated
  (`FVizAlgorithm.c:829`). What a callback did in between is in the time and not in
  the output: an edit of an input, or a producer connected in the callback of `StartEvent`, of which
  an output that is stale or missing is consumed. The next update serves what
  was published from the cache (`FVizExecutive.c:639-656`). `calm` and `masked` except the
  update in which it happens and those that follow it.
- When a callback updates an algorithm that is being updated, unwinding the inner walk clears
  the guard of the outer one (`FVizExecutive.c:587`), and the next re-entrant call is not
  recognised: `NeverReentered` of `Pipeline` is violated in thirteen states. An update of the root itself also
  resets the arena under the frames of the outer walk (line 883).

### Data, filters and fields

- Run `cell_tables`. The table of edges has twelve rows (`FVizCellTypeTraits.c:12`); the
  prisms of fifteen and eighteen edges lose theirs to the first face.
- The shape functions of the voxel are those of the hexahedron, whose corners are numbered otherwise;
  those of the mid-side nodes of two wedges do not agree with their edges either.
- The search for a cycle follows blocks of multi-blocks only (`FVizMultiBlockDataSet.c:66`):
  mixed containers can hold themselves and are never released.
- 65535 levels of ghosts are accepted though the number marks cells that no level reached
  (`FVizUnstructuredGridPieceFilter.c:396`).
- The plane at the far end of an axis cannot be extracted (`FVizStructuredGridExtractFilter.c:273`),
  the one at the near end can.
- The triangle of an isosurface around a corner that lies apart is interpolated along the edges
  between the other corners (`FVizUnstructuredGrid.c:3589`): `IsoBetween`. Where a hexahedron is
  divided into five tetrahedra the halves of neighbours do not match, and any cell of four or
  eight points is taken for a tetrahedron or hexahedron.
- A clip through an existing point fails the cap; a hole in a cut is filled.
- Appending leaves data of cells in the order of the inputs while cells are numbered by category
  (`FVizPolyDataFilters.c:492`); a cleaned strip may turn triangles over (line 960).
- A condition of several components between scalars is refused (`FVizExpression.c:694`).
- `fviz_attribute_set_remove` with the name that `fviz_attribute_set_active_name` returned
  compares with a released string (`FVizAttributeSet.c:308`).
- A value that is not a number is written as zero, into arrays of floats too (`FVizDataArray.c:419`);
  a range that meets one first stays without bounds; writing through a pointer obtained for
  reading is not seen by the cached range.
- FEA: replacing a display group adds to it (`FVizDisplayGroup.c:105`); values of a nodal block
  without labels are resolved as if an index were a label (`FVizPrimaryVariable.c:940`); a
  nodal source for a target at element nodes is empty; a missing value fails
  a display in bands; the only sample of a wedge is placed on its edge, not inside it (`FVizIntegrationPointData.c:46`); local
  numbers count from zero or one as the samples left by the filter suggest.

### Files

- `header_type` is looked for in the XML declaration (`FVizVTUReader.c:832`): appended blocks with
  narrow headers are read as wide ones.
- Bits of `vtkGhostType` that FEAViz does not know are lost when a grid is written again
  (`FVizVTUReader.c:713`).
- Part numbers that are neither a permutation nor all missing or repeated give one file twice and
  another never (`FVizPVDReader.c:282`).
- Names are escaped by the writers and not unescaped by the readers; a grid of no cells, or with
  types of polygons, strips and poly-vertices, is refused when it is read again; arrays named as the reader's own
  sections are mistaken for them; more than 32 arrays of a section are left out; fields' roles are
  not read from surfaces; a surface without a section is returned without output; 64-bit
  integers pass through doubles; a repeated `CELL_TYPES` section leaks the first.
- A failed series removes files of the same name that were there before; a reader does not look
  at a changed file again before its name is set or its cache cleared.

### Drawing and the window

- The device compares the address of the array it made colours of (`FVizGLDevice.c:1724`):
  another array in its place is taken for the same one.
- A persistent resource's target is handed to a transient one (`FVizRenderGraph.c:473`).
- An actor that writes no depth turns the writing on behind it also where it was off
  (`FVizGLDevice.c:3556`); no depth function is chosen for a frame, so the first actors are
  compared otherwise than the rest (`FVizRenderWindowWin32.c:324`); peeling never writes
  the depth of a layer (line 3013).
- A legend of many ticks fails the frame (line 5458), and so does visible text without glyphs.
- An opaque actor whose pass order is that of no opaque pass is never drawn; edges ignore the overlay
  mode, and the mode of a surface with a wireframe leaves out the surface; volumes are sorted by the bounds of surfaces and leave their program
  bound; a pass that fails skips the end of the frame; points and edges are picked by order, not by depth.
- The picked actor is looked up after the next frame's observers have run (`FVizRenderWindow.c:806`);
  a pick by the processor looks at the first visible actor only, without its transform (line 1251).
- `fviz_render_window_run` and a hardware pick draw without the guard against a frame in a
  frame (`FVizRenderWindowWin32.c:1069`).
- A window that was finalized finds its own quit message when it is initialized again
  (line 1872); an external one loses a frame that was requested (line 508); one destroyed in the frame that
  shows it is visible without a surface (`FVizRenderWindow.c:1016`). A failed frame is not
  asked for again; sizes that arrive while a lost context is recovered are dropped; a button
  released without having been pressed picks; a renderer that could not be set leaves none.

### Interaction

- The release of any button clears the captured renderer (`FVizRenderWindowInteractor.c:613`)
  while another button drags.
- When one event ends a widget's drag and a camera's drag, `release_focus` tells the observers
  of the end (lines 221-222) and `process_event`, which only remembers the style, tells them
  again (line 625).
- Records of a selection are told apart by the number a cell is rendered under
  (`FVizSelection.c:83`), also those that no longer exist.
- A timer that was found due fires without being asked again (`FVizRenderWindowInteractor.c:332`).

## 5. Fairness

`Spec` has none; safety is checked under it. `FairSpec` of `Executor` has weak
fairness of each worker, of each thread inside `fviz_executor_destroy` and of a
`fviz_future_destroy` whose wait is over: the operating system schedules
runnable threads, task functions return, and a condition that stays true is
noticed. Submissions, cancellations and the decision to destroy are not fair:
the program need not do anything. Mutexes need nothing: a waiting step
stays enabled when it is the only contender, and repeated contention ends because
the number of futures is finite.

`FairSpec` of `ParallelContext` has weak fairness of each worker, of each caller
between call and return, and of a shutdown that has begun. `dispatch_mutex` is
not assumed fair: a caller gets it when the others have stopped dispatching,
which `MaxDispatches` guarantees.

`FairSpec` of `TemporalPrefetch` has weak fairness of the worker (loaders return)
and of each caller inside a call.

The components of `MCSequential` and `MCSession` run on one thread. What must eventually
happen there is stated as an invariant of what is pending: in `WindowSurface` a requested frame
has a message, an invalid region or a frame that will arm it (`RequestArmed`), in
`TimerQueue` a due timer is among those of the next poll.

## 6. Proofs

Eight modules hold theorems; `PROJECT.json` lists the 31 a reader should know. Every safety
property that a run checks of the executors, the parallel context and the prefetch queue
has one, and five of the session: its dispatches, its commands, its updates, its transactions and
its caches.

### ParallelContextProofs

It proves, for every number of workers, callers,
dispatches, chunks and every modulus above the number of threads:

- `TypeCorrect`: `Spec => []TypeOK`, without further hypothesis. The type
  invariant alone is not inductive: that a participant count lies between zero and
  the workers needs `WorthIt`, a caller inside a dispatch has a range of two
  chunks or more.
- `RemainingCorrect`, `Serialized`, `LowestReported`, `ChunksOnce`: the safety
  properties of the `parallel_pool` run, under `FullPool`, that each range is run by
  its caller alone or by the whole pool. Without `FullPool` they are false:
  that is finding E, and `parallel_late` is its counterexample.

They rest on one inductive invariant, `IInv`, in five parts.

1. `TypeInv`: types and `WorthIt`.
2. `LockInv`: the holder of `dispatch_mutex` is the one caller between
   `Describe` and `Return`, or the owner during shutdown; when the owner has begun,
   every caller is out.
3. `PoolInv`: while a range is worked on, `remaining` is the cardinality of the
   outstanding participants (`RemainingCounts`); a busy worker has seen the
   current generation; while none is worked on, every worker has seen it and is
   idle. This last conjunct is what `FullPool` buys: when `remaining` reaches
   zero, all workers, having all been participants, are past the generation, so
   none can be late with it when the next dispatch is described.
4. `JobInv`: a callback in progress belongs to the current job; each failed
   chunk is covered by the captured failure or by a thread about to capture it.
5. `ChunkInv`: the chunks given out are those below `next`; a caller waits for
   the others only when the range is exhausted or the token cancelled.

The interesting steps have lemmas of their own: `PoolAnnounce` (all workers
become outstanding), `PoolJoin`, `PoolFinish` (one leaves, by
`FS_RemoveElement`), `PoolReturn` (zero means nobody is left). Steps that
concern none of it go through frame lemmas (`PoolFrame`, `JobFrame`, `ChunkFrame`).

The hypotheses on the constants are `ConstantsAssumption`, which TLC evaluates in
the runs, and `FullPool`.

### ExecutorProofs

For every set of executors, futures and finite set of workers, every priority, shape of
dependency, capacity and user-data destructor. No bound of the runs is left: chains of
waiters have any length, and any number of threads race. Each row names the hypotheses
beyond `ConstantsAssumption`.

| Theorem | Hypotheses | Rests on |
|---|---|---|
| `TypesAlways` | none | `TypeInv` |
| `ScheduledOnceAlways` | none | `LinkInv`, `PlaceInv`, `OnceInv` |
| `WorkConservingAlways` | none | `LedgerInv` (the heap is finite) |
| `CountersExactAlways` | none | `PhaseInv`, `LedgerInv` |
| `DependentsCountedAlways`, `AntecedentKeptAlways` | no refused `fviz_future_then` | `CountInv` |
| `GraphImplemented` | the same | `HoldsInv`, `ChainInv`, `OutcomeInv`, `CountInv` |
| `ParkedReachableAlways` | continuations stay on the executor of their antecedent | `HoldsInv`, `HomeInv`, `ReachInv` |
| `LinksAliveAlways` | both; the program frees nothing of an executor that is being destroyed; destructors free futures only where no executor is destroyed | `CountInv`, `PhaseInv`, `HomeInv`, `OpenInv`, `AliveInv` |

Of these only "the executor of their antecedent" is asked of a program by the code's words
(`FVizExecutor.h:60-61`, "on the same executor"). The others are not part of any contract: they
say where the property holds, and a finding of section 4 shows each to be needed, F for refused
continuations, H for what is freed in a shutdown, by the program or by a destructor. The
links of a pipeline chain, which its last destructor frees (`FVizAlgorithm.c:1099`), are
within the theorem as long as no executor is destroyed; when one is, that chain waits for itself (A).

The layers are proved one upon the other; each is inductive given the earlier ones.

1. `TypeInv`. Types alone are not inductive: that `cur[t]` is a future when it is used
   needs where threads can be (`ControlInv`: the phase of a shutdown and the `pc` of its
   thread determine each other), and what leaves a queue or a chain must have been
   submitted (`UsedInv`).
2. `LinkInv`. Waiters are linked from five kinds of places: `waiting_head`, `waiter_next`,
   and the detached chain, the chain and the waiter in hand of a thread. At most one of
   all these leads to a given future, and that future is registered unless its executor
   stops. Without it `fviz_pending_unlink` might not find what it takes out, and a
   future could be promoted twice.
3. `PlaceInv`. An incomplete future is in the heap, in the registry or in a thread's
   hands, and in one of them only. `OnceInv` adds how far it has come in each, which
   gives `ScheduledOnce`; `PlacesCounted` turns it into the cardinality that property
   states.
4. `CountInv`. `dependents[d]` is the cardinality of the futures that hold `d`; since
   `fviz_future_destroy` waits for zero, what is held is not freed. `Lowered`'s test for zero
   never hides a mistake here.
5. `LedgerInv`. For each executor: submitted = completed + running + waiting + the one its
   shutdown has in hand, and `running` is the number of workers between `Pop` and
   `Publish`, in every phase. `PhaseInv` then says that nothing waits after the
   shutdown.
6. `HoldsInv`, `ChainInv`, `OutcomeInv`. A future holds its antecedent until a thread has
   released it; whoever is in a detached chain, a heap or a worker's hands has a ready
   antecedent; a task that was not started has the result `CANCELLED`.
   With `CountInv` this is what the refinement needs:
   `Accept` is `Submit`; `ReadAntecedent`, or `Run` of a task without antecedent, is
   `Begin`; `Release` of a task that was not called is `Skip`; `Complete` is `Finish`; `EndFree` and
   `DestructorFrees` are `Forget`; every other step stutters. One lemma per row
   (`SubmitRefines`, `ReadRefines`, ...).
7. `HomeInv` and `AliveInv`. Links stay inside an executor. A link leads to a registered
   future of an open executor, which is not ready and so cannot be freed, or to one of a
   stopping executor, where nothing is freed; `OpenInv`: where no executor is destroyed,
   all are open.
8. `ReachInv`. Reachability along `waiter_next` is an intersection of closed sets
   (`Chain`), so no induction is needed: to show that a future stays reachable, a set closed
   under the new links is turned into one closed under the old ones. Three lemmas do that:
   `ChainLinked` (a waiter is put in front), `ChainCut` (the head is taken off, nothing else
   leading to it by `LinkInv`), `ChainApart` (a shutdown rearranges links of its own
   executor). That no chain is overwritten while it is detached is in `HomeInv`: a worker
   that completes has no chain of before.

`Flow` and `QueueFlow` say, for any step, where each link, each entry of a queue and each
future in hand comes from; the later layers use them and not the actions. TLC found every
layer true on all 1 820 372 states of the instance of `executor_one`.

### TemporalPrefetchProofs

For every set of callers, every capacity, every sequence of requests, windows, waits and
cancellations, every bound on refusals: `OneDrainAlways`, `CancelledIffStaleAlways`,
`NoneStrandedAlways`, `OwnedOnceAlways`, `DestroyedAloneAlways`, the safety properties of the run
`prefetch`, from `ConstantsAssumption` alone. They are projections of one invariant, `IInv`:

- `EntriesInv`: the pending entries are finitely many and all requested after the last
  cancellation. `CancelledIffStale` needs it: an entry the worker takes later is not stale.
- `PlaceInv`, `WorkInv`, `StopInv`: where the threads can be; a caller that destroys the queue waits
  until `active` is off, and nobody calls afterwards.
- `FutureInv`, `DrainInv`: a drain and its future go together; `active` is set exactly
  when there is one drain queued, one on the worker, or one caller about to submit it. That
  it is one and not several is the heart of it: each kind excludes the others.
- `DeniedInv`, `NoneStranded`: only a refused submission is undone, and only after it can entries
  stay without a drain.
- `OwnerInv`: a future that was not freed or overwritten is held by exactly one of
  `activeTask`, a thread, and the `previous` pointer of a later drain.
- `StaleInv`: the load in progress.

The entry that is evicted and the one that is loaded are chosen by an order; `First`
proves, by induction on the size of a finite set through the well-founded theorems of the
library, that there is one.

### PipelineProofs

For every set of algorithms and data, every acyclic graph to start from, any number of calls and
connections, and whatever callbacks do: `TypeCorrect`, `ExecutedOnce` and `UpdateIsFresh`.
`TypeCorrect` says that no update leaves a guard of an algorithm that no update in progress
has entered; the other two have the exceptions `calm` and `masked` of section 2, which are where the
code fails, and nothing else is kept from callbacks than the update of a root in progress. The assumption is `PipelineGiven`, what
an instance has to give, which TLC evaluates in `session`; `UpdateIsFresh` also needs
`~ParameterWhileConsumed`, and `pipeline_parameter` is the counterexample without it.

`UpToDate` says little of the states in between, where some outputs are new and some are
old. What carries it through an update is an invariant in layers:

1. `TypeInv`: types; no publication is later than the counter; the graph has no cycle, which
   `connect_input` keeps since it asks `Reached` before it connects; a guard that is set is
   that of a frame, of the update in progress or of one put aside. This holds whatever callbacks do;
   what follows holds until `masked`.
2. `StackInv`: the frames of `fviz_executive_execute_algorithm` are a path of the graph. A frame
   that is not the last waits for the next one, which is its producer's with the request it maps;
   an algorithm has one frame in a walk.
3. `AskedInv`, `KeptInv`: what was processed had been asked for and has an output; what is
   asked for leads to the root.
4. `ValidInv`: an output that is valid by its time is what a computation from scratch gives
   for its request. This is the heart: a change of an object reaches by events
   (`Modified`) every algorithm below it, so what is still valid did not depend on it.
5. `ServedInv`: each input that a frame has gone through is what it asked for, and stays
   so while the other inputs are updated. `SuspendedInv` and `SuspendedServed` say of each update
   put aside what 2, 3 and 5 say of the one in progress, so that the updates called in its
   callbacks leave it what it relied on (`CalmInv`: only the outermost can have had its root edited).
6. `OutcomeInv`: when the frame of the root ends, its output is served, until the next change.
7. `OneInv`, `OnceInv`: what was handled is valid, so it is found in the cache when it is asked
   for again; an execution under way was not handled before, and `TimesInv`: the time a frame
   took of its algorithm is still that of the algorithm.

Reachability (`Reached`), the requests an update leads to (`Requested`) and contents
computed from scratch (`Fresh`) are least sets closed under the edges of the graph, not recursion along it:
`ReachedUnfold`, `RequestedUnfold` and `FreshUnfold` derive the recursive equations from that, and
`RequestedSame` and `FreshSame` that they depend on the part of the graph they lead to only.

### GpuResourcesProofs

`ShownAsItIs`: for every number of points and length of the histories, a mesh or glyphs made ready
show what a new upload would show, and cached bounds enclose the points. From `GpuGiven` and
`~ExternalArrays` (the reused address of section 4 refutes it otherwise).

- Times never repeat. A position written with time t is the one that a consumer who
  has seen t saw; `Seen(buffer, items, time)` says that the buffer has it.
- `Sound` is the invariant of a history: its records are in order, and each item newer than the
  oldest record is in the range of a record of its time. A history that lost records
  is full, and a consumer older than its oldest record is told of everything (`DirtyTells`).
  `RecordedSound` has the cases: merging into the last record of the same time, dropping the oldest.
- Computed normals have a time but no record. `PointsInv` says that they are later than every
  record, and `UnrecordedTells` that a consumer without them is then told of everything.
- `Kept(mesh)` and `GlyphsKept` hold between two uploads, when what the device has may be old:
  what was seen by its times is in it; if none of them is old, it is what a new upload would be.
  `MeshFresh` alone speaks only of the moment after an upload and is not inductive.

### CompositeData

`ContainersInformed`: `NeverStale` for every number of entries and depth of nesting, mixed nesting
included, from `CompositeGiven`. The code informs containers by observers and a consumer asks
them by entries. `Tagged` says that a container observes an object exactly as often as it
has it. So the two relations are one (`SameWays`), and who is told is who holds, at any
depth (`AllTold`), again without induction: both are closures of the same relation. The difficult steps
are those where an object occurs twice or releasing one releases others (`ReleaseTold`).

### ObserversProofs

`DispatchedInOrder` and `CommandsAlive`: for every number of observers, priorities, commands and
outermost dispatches and every depth of nesting, from `ObserversGiven`. A dispatch loops over
positions of a list that its callbacks edit; `CalledInOrder` and the others speak of the tags
that it called. `Inv` connects the two:

- `ListInv`: no tag occurs twice; the list is in order unless `needs_sort` is set, and outside every
  dispatch it is in order and compacted. So an outermost dispatch begins on a sorted list.
- `BaseInv` cuts the list at the count of the outermost dispatch. What is before is in order,
  keeps its places and was registered before; what is behind has the activation of this
  dispatch. Entries may be deactivated on both sides, and nothing is compacted, because
  maintenance is put off (`Deferred`). The order of the tail is anything: needs_sort may be set.
- `FrameInv`, for each dispatch of the stack: who was called stands before the index and before the
  cut, in the order of the calls; who is due and stands before the index was called, or removed.
- `CommandInv`: the count of a command is one for the program and one for each entry that has it,
  deactivated ones included, until `Maintain` or `DestroyList` drops the entry.

`EditKept` shows once, for every edit of the list, that a dispatch under way goes on as before; `AddKept`
and `DeactivatedKept` are its cases. `ArrangementExists` shows that the sort is a function of the
set of entries: the rank of an entry is the number of entries up to it.

### SessionProofs

`SessionDispatches`, `SessionCommands`, `SessionFresh`, `SessionOnce` and `SessionCachesFresh` state
the properties `DispatchesInOrder`, `CommandAlive`, `UpToDate`, `OncePerTransaction` and
`CachesFresh` of the run `session`. A step of a session is a step of
one component and leaves the others as they are (`StepObject`, `StepPipe`, `StepGpu`, `StepComposite`), so
every session is a behaviour of each component, whose theorem then applies. Where the proofs
are a module of their own, they and the session take separate instances of the component's module with
the same parameters; the `Same...` lemmas show the equality of their definitions by expanding both. The hypotheses are those of the
components; their `Given` assumptions are facts here, since `MCSession` assumes them and TLC
evaluates them.

### What has no theorem

- Liveness (`EveryFutureCompletes`, `ShutdownEnds`, `FreeEnds`, `CallsReturn` and the others under
  fairness) is out of the prover's reach.
- The properties of `sequential`: they say what `ExecutorHeap`, `MeshConnectivity`, `Expressions`,
  `GpuMemory` (which evicts by a fold) and the other algorithms compute by recursion or folds over
  data, and `MCSequential` extends recursive modules, which no module with a theorem may reach.
- `GraphsInOrder` and `InteractionSettles` of `session`: the first orders passes by a fold, the
  second is mostly about small cycles of states that TLC explores completely.

## 7. What is not modelled, and the plan

Not modelled:

- `src/Math`, the numerical parts of filters (curvature, quality, smoothing weights beyond their
  sums) and of cameras: floating-point numbers without a protocol.
- Errors, logging, version, strings and buffers of `src/Core`: no protocol.
- Sources, probing, resampling, tubes, extrusion and partitioning in `src/Algorithms`; the OBJ, STL, PLY
  and mesh readers and the local file provider in `src/IO`: one pass over data each.
- Fonts, text, labels, lookup tables, legends beyond their size, images, shaders in
  `src/Rendering`; the widgets other than the one `Interaction` drags; the assembly of
  actors in `src/FEA/FVizVisualization.c`.
- Task groups, reductions, scans and sorts of the parallel context; asynchronous requests of
  single frames; progress, statistics of time, failed allocations except where an error path
  changes state that is kept (`Columns`, `FileSeries`).
- The Qt and C++ layers and plugins: wrappers of the C interface. Tests, fuzzers, benchmarks and
  examples are clients.

Worth adding, in this order:

1. Theorems about small state machines: `GpuMemory` (what is pinned stays), `WindowSurface`
   (`CaptureExact`, `RenderersObserved`), `Arena` (`Disjoint`).
2. The chain of futures of an asynchronous update built step by step on `Executor`, for G.
3. `fviz_object_modified` by several threads (`FVizObject.c:467`) against an abstract clock.
4. Task groups, scans and sorts against their reference definitions.
