# A TLA+ verification of vkernels

vkernels is a library of GPU kernels with a small compiler that turns a
decoder model into one *persistent megakernel*, a host runtime of streams and
collectives, serving-side kernels for sparse attention, and caches of tuned
launch configurations. This directory holds TLA+ models of the parts whose
correctness depends on order, interleaving, failure or reuse, the TLC runs that
check them, and TLAPS proofs of the central properties for every value of the
constants. `PROJECT.json` lists components, runs, fault models ("mutants"), the
source lines of each definition, findings, hazards and theorems. Paths below are
relative to `src/src/`, and `compiler/`, `torch_ops/` and `tuning/` to
`python/vkernels/`.

## 1. The system

| Part | State | Operations | What makes it hard | What makes it correct |
|---|---|---|---|---|
| **Megakernel** `compiler/device_triton.py` (`qwen3_megakernel`, `TritonMegakernel`), gate `compiler/runtime/residency.py` | barrier counter, `bar_base`, workspace, phase and task of each block | construct, `run`, `run_device`, and the device program | P blocks run freely between barriers over one counter that is never reset; launches queue; block 0 writes the next base while others run; storage is reused | blocks never straddle a phase, tasks read complete and current inputs, every launch retires |
| **Slot tables** `TritonMegakernel.set_slot_table`, `run`, `compiler/triton_attention.py` | padded table, logical row lengths, cache | install, step | early returns half way, padding that names a real slot | rows never read padding or each other |
| **Milestone 0** `compiler/runtime/synchronization.py` | counter, slots, verdict | `verify_milestone0` | the test of the barrier is itself concurrent | no stale read, a verdict |
| **Capture, IR and lowerings** `compiler/{operator_ir,task_ir,capture*,contracts}.py`, `compiler/lowerings/` | the graph: views, regions, tasks | 32 operators | regions over-approximate by spans; views alias, are transposed or paged | what a task declares covers what its body touches, wherever someone else touches it too |
| **Tile schedules** `compiler/schedule_static.py`, `compiler/runtime/task_queue.py` | dependences, counts, ready queue, worker sequences | derive, check, seed, claim, complete, run statically | no phase barriers: only the derived dependences order tasks; worker order adds waits | same result as the serial program; acyclic graphs complete, cyclic ones are refused |
| **Memory planner and reference executor** `compiler/{memory,reference_exec,compile}.py` | lives, offsets, total; workspace with canaries | `plan_memory`, `run` | closed lifetimes, alignment, first fit; canaries over shared storage | live buffers are disjoint, data survives to its last use, no false alarm |
| **Stream** `c/vkernels/core/stream.cpp` | queue, outstanding, failure, stop, worker | submit, wait, destroy | lost and spurious wake-ups, throwing tasks, tasks that submit, destruction | FIFO, wait covers, first failure once, destruction drains |
| **Overlap executor** `c/vkernels/comm/overlap.cpp` | two streams, promises | `run` | failure of a callback or a submission with the other stream waiting | drains, reports its own first failure, never hangs |
| **Ring all-reduce** `c/vkernels/comm/{allreduce,channel}.cpp` | chunks, queues | scatter and gather steps | ranks drift apart | every contribution exactly once, no circular wait |
| **Op-config cache** `tuning/cache.py`, `torch_ops/store_lock.py` | store file, lock, per-process snapshot and memo | `op_config`, `seed` | many processes, one file; crash between read and replace; failed reads and writes; stale snapshots; graph capture | a write leaves other records alone, a served config changes only by a seed of one's own, calls return |
| **Row resolver** `torch_ops/dsa_resolve_rows.py` | hot-tier tags, generations, ages, clock; scratch; KV rows | `dsa_resolve_rows`, `dsa_resolve_rows_batched` | pages move, are rewritten and revoked between calls; rows are evicted within one; buffers are reused | a returned row holds the selected token, no token of a selection that fits the tier is dropped silently, kernel = reference |
| **Pooled indexer cache** `torch_ops/dsa_kpool_{compress,metadata}.py` | tail rings, pooled rows; lengths and page tables | prefill, seed, decode update, expand, metadata of decode and verify | speculated tokens are rejected and decoded again, blocks are reused, batches are padded | a pool is made of exactly its tokens, lengths and tables fit the selection |

Interactions: `plan_memory` gives the megakernel its offsets (the assumption
`PlanAssumption` of the one is the theorem `PlanServesMegakernel` of the other) and the
reference executor its workspace; megakernel and Milestone 0 use the same barrier;
capture, lowering and the executor's bodies meet in the contract registry; the
overlap executor runs on two streams, and its comm callback may be a ring
all-reduce. The resolver and the pooled cache are called by a serving engine that
is not part of the repository.

## 2. Modules

| Module | Models | Notes |
|---|---|---|
| `GridBarrier` | what a grid barrier promises (`GridBarrierSpec`, `SimulatedGridBarrier`) | abstract |
| `PhasePlan` | what the phases of a megakernel need of their memory plan | operators |
| `PhaseMegakernel`, `PhaseMegakernelProofs` | megakernel and host runner | extends `PhasePlan`, implements `GridBarrier` |
| `Milestone0`, `SlotTable`, `Session`, `SessionProofs` | the barrier's verification, slot tables, and the host that does one after the other | `Session` composes |
| `Regions` | views, strides, regions, spans, tile grids | operators |
| `Capture`, `Lowerings`, `ReferenceBodies`, `Operators` | per operator: regions recorded, tasks and regions declared, elements touched; the registry | operators |
| `TaskQueue`, `TileSchedule` | ready-task runtime; derived dependences, dynamic and static execution | `TileSchedule` extends |
| `MemoryPlanner`, `Workspace` | `plan_memory`; the executor with canaries over the plan | `Workspace` extends |
| `Compile`, `CompileProofs` | a graph under either kind of schedule; proofs about both | composes |
| `OrderedStream` | what `stream.hpp` promises | abstract |
| `Stream`, `StreamProofs` | the threads of `stream.cpp` | implements `OrderedStream` |
| `Overlap`, `RingAllReduce`, `OverlapRing`, `OverlapRingProofs` | the executor over two instances of `OrderedStream`; ranks and channels; the executor whose comm callback is the ring | `OverlapRing` composes |
| `OpConfigCache`, `OpConfigCacheProofs` | processes over one store file | |
| `ResolveRows`, `ResolveRowsProofs` | the row resolver, its reference, and the KV service | |
| `KPool`, `KPoolProofs` | pooled cache, expansion, step metadata, and the engine | |
| `MC*` | constants for TLC | |

How code becomes actions:

- **PhaseMegakernel.** `Prepare` is the constructor with `validate_residency`;
  `Launch` is `run`/`run_device` up to the enqueue; `CheckCounter` is the tail of
  `run(check_counter=True)`. Per block: `Dispatch` (the device gives it a slot
  and it loads `bar_base`), `StartTask`/`StoreTile` (one task body: everything it
  reads, it reads between the two), `Arrive` and `Release` (the two halves of
  `grid_barrier`), `Exit` (block 0 publishes the next base). `Retire` is the
  stream order of the device. A tile's content is the tag of the launch and the
  phase that wrote it. `acq_rel`/`acquire` at device scope are taken at their
  word: memory is sequentially consistent across a barrier.
  `Vendor` chooses between the 64-bit spin of `_grid_barrier_sm` and the narrowed
  one of `_grid_barrier_cdna`; `Half` stands for 2^31.
- **SlotTable.** `Install` is the whole of `set_slot_table`, including that it
  records the row lengths *before* it refuses a table that is too wide. A launch
  holds the table it was started with, so installing is modelled between steps.
- **Regions, Capture, Lowerings, ReferenceBodies.** One operator per function of
  the code, with its name. A cell is one element of a storage; a region's span is
  the interval that `storage_span` computes, and two regions overlap as `overlaps`
  decides. A body is the set of cells it uses and the set it stores; index
  contents (token ids, slots, expert choices) are attributes of the operator.
- **TileSchedule.** `preds` of a program come from hazards between operators, then
  between their tasks. A cell holds its last writer. A task touches its cells at
  claim and again at completion, so that a conflicting task in between is seen by
  one of the two. `plan = "static"` executes the worker sequences: the repository
  has the schedule and its checks and no executor for it, so `Start` and `Publish`
  follow the contract in the class (each worker in order, waiting for producers).
- **TaskQueue.** A claimed task stays in a worker's hand until it completes; the
  sequential oracle `simulate_fifo_execution` is one of the interleavings. Its
  `ProgressError` branch is no action: `Progress` shows that it is never needed.
- **MemoryPlanner, Workspace.** `Place` and `Skip` are one turn of the search;
  buffers are numbered in sorted order; initial states are all lives and sizes.
  `RunPhase` is a phase of `ReferenceExecutor.run` with the canary behind it.
- **Stream.** One action per critical section or unlocked step. A sleeping
  thread wakes by a notification or spuriously and then re-checks its predicate.
  `mark`, `got`, `freed`, `thrown` are history variables. The client contract
  modelled: nobody is inside the stream when its owner destroys it.
- **Overlap, OverlapRing.** Caller, compute worker and comm worker over two
  instances of `OrderedStream`, whose actions are conjoined with the executor's.
  The exception that `ready.get()` rethrows counts as a failure of the comm task.
  A chunk of the ring is the multiset of contributions in it, so the numeric sum
  is right exactly when each rank occurs once.
- **OpConfigCache.** `_FILES` is a snapshot read once; `_write_records` is two
  steps, `LockAndRead` and `Replace`, so that a failure, a death or another
  process can come between them. A sweep's winner is arbitrary. One process
  resolves one bucket at a time (`_LOCK`). `seed` may carry several buckets. A
  process may serve, seed or do both. Both reads of the file (`_load_records`, and
  the one under the lock) may come back empty although the file is not: an I/O error,
  a document that does not parse or a foreign schema. The snapshot keeps an empty
  read, and a write goes on from it. `WriteFails` is every other `OSError`, after
  which the file is as before.
- **ResolveRows.** `Kernel` is one program of the grid, phase by phase, and
  `Reference` the scalar walk of the oracle; both walks are recursive functions of the
  position, and the worklist is indexed by the prefix count of the misses (`Rank`), as
  the kernel's `cumsum` places them; `Resolve` and `ResolveBatched` are the
  two calls. A row holds a `<<layer, token, generation>>`. Growth, promotion,
  demotion, rewriting and revocation of pages are the service's and external.
- **KPool.** A token's key is `<<request, epoch, position, accepted>>`, a pooled row
  the sequence of the tokens compressed into it. One `UpdateToken` is one turn of
  the loop of the decode program. A prefill batch holds its requests in any order,
  and the top-k hands its pools over in any order. `Accept` and `Release` are the
  engine's.
  Expansion and metadata are operators, evaluated in every reachable state. A request
  is prefilled by one batch that starts at position 0: `dsa_kpool_compress.py:92`
  allows a call per chunk of a prompt, with a `write_mask` for its pools, and who
  assembles a pool that straddles two chunks is not in the repository.

Definitions marked "Fault model" are plausible bugs of the code they precede;
they are used by no specification and only serve to show that each property can
fail.

## 3. Runs

| Run | Instance | Shows |
|---|---|---|
| `megakernel` | 3 blocks, 4 phases (1 to 5 tasks, reused storage), 2 launches, devices of 1 to 3 resident blocks | `PhaseOrder`, `FreshReads`, `BaseAgreed`, `LaunchSound`, `LaunchesRetire`, `BarrierRefinement` |
| `megakernel_wrap` | 2 blocks, word of 8 values | **finding 1**: `PhaseOrder` fails once the narrowed target wraps |
| `session` | 3 blocks, 3 rounds, 2 invocations, idle or not; then 2 rows, capacity 3, 7 slots, tables that fit or are malformed | `ReadWindow`, `VerdictReached`, `PaddingUnread`, `NoAlias` |
| `slot_table_wide` | also a table that is too wide | **finding 2**: `PaddingUnread` fails after the refusal |
| `compile` | phases: 4 buffers, sizes 1 and 3, alignment 2, 4 phases, all inputs. Tiles: all 65536 relations on 4 tasks; 24 programs in which all 32 operators occur; 2 workers, dynamic and static | `NoLiveOverlap`, `LowestOffset`, `ReuseSafe`, `CycleVerdict`, `ClaimsSound`, `SerialReads`, `Progress` |
| `stream` | 2 clients, 3 tasks | `WaitCovers`, `FirstFailure`, `DestroyDrains`, `NoLostWakeUp`, `ImplementsOrderedStream` |
| `overlap_ring` | 2 iterations, 2 runs, 4 ranks | `CommAfterCompute`, `DrainedOnReturn`, `OwnFailure`, `AllReduced`, `QueueBound`, `RunEnds` |
| `op_config_cache` | 2 servers of one build, of which one captures graphs and seeds, a process with the cache off, 2 buckets, a file left by an older build, failed reads and writes, 1 death | `Frozen`, `OwnSource`, `RecordsSurvive`, `CallsReturn` |
| `op_config_downgrade` | a server and a seeder | **finding 3**: a seed replaces a tuned record |
| `kpool` | 2 requests, pools of 2, ring of 4, steps of up to 4 tokens, 7 tokens, blocks reused once | `PoolsExact`, `VisibleAgrees`, `TablesFresh` |
| `resolve_rows` | 2 pages of 2 tokens, selections of 4 positions with 2 to 4 distinct tokens, 3 hot rows on 2 hot pages, 2 generations | `RowsHold`, `MatchesReference`, `NothingDropped` |
| `resolve_batched` | 2 layers with selections of their own | **finding 4**: `BatchedPerState` fails |

`TypeOK` of `PhaseMegakernel` and of `Stream` is checked as well: their proofs rest
on it. What the less obvious properties say:

- `SerialReads`: every task reads, at both ends of its execution, what the last
  earlier operator wrote, and at the end every cell holds its last writer. This
  needs the captured regions, the declared regions, the span test, both hazard
  passes and the schedule to be right together.
- `ReuseSafe`: the plan, the executor and the canary together: data survives to its
  last phase, fits the allocation, and the canary stays silent.
- `LaunchSound`: the counter check after a launch never fails and the logits of a
  retired launch are complete. `NoLostWakeUp`: waits and destruction end.
- `MatchesReference`: in every reachable state, for every selection of the instance.
  The oracle finds hits and victims by definitions of its own (`ReferenceHit`,
  `ReferenceVictim`), as its code does.
- `NothingDropped`: a valid token is masked without an error counted only by a selection
  that does not fit the hot tier; in the run some do not, and are dropped from.
- `RecordsSurvive`: a write sets its own records; it changes another one only by erasing
  it, and only if its own read under the lock came back empty.
- `Frozen`: a process gets at most one config per bucket, plus one for each seed of its
  own that it has written. A seed that fails, captures, and whatever the other server
  tunes change nothing.
- `PoolsExact`: also of the step that is running, whose tokens may yet be rejected.

**Bounds.** Three blocks are the smallest grid with a block that is neither the
publisher of the base nor the last to arrive; five tasks over three blocks make
some blocks take two tasks, some one and some none; two launches make the base
cross a launch. Three rounds let a fast block be a round ahead in the middle
of an invocation. Four buffers are enough for a hole between two placed buffers,
which is where first fit can go wrong. Four tasks contain diamonds and cycles of
every length up to four; the programs have at most four tasks and tensors of two
or four elements a side, with in-place, transposed, grouped, ragged and paged
operands. Three stream tasks let two fail around a wait. Four ranks separate a
chunk's owner from both neighbours. Two buckets are needed to lose another
process's record. Two servers of one build over one bucket
make each meet records of the other that are valid for it. Three hot rows are one too
few for a selection of four tokens and exactly enough for one of three, and two of them
are on one page that can be revoked.
Seven tokens are three pools and a tail, so that the ring wraps, the top-k cap (4)
is passed and a step can redo a pool. All bounds are CONSTANTS or guards
(`MaxLaunches`, `MaxTasks`, `MaxRuns`, `MaxCrashes`, `MaxClock`, `MaxGen`,
`MaxPrompt`, `MaxLen`, `MaxEpoch`).

**Deadlock** is checked for `Stream`, `SlotTable` and `OpConfigCache`. The other
systems end or reach a bound: launches, rounds, buffers, phases, runs, ranks,
tasks, tokens and calls are exhausted, and where something must happen before that,
a liveness property says so.

**Fairness.** Weak fairness of each thread, rank, resident block or worker with a
task in hand: the scheduler runs what can run (the residency gate is what makes
this true of blocks, and `LaunchesRetire` fails without it). Planner, executor and
dispatch loop are sequential code that does not stop half way. Callbacks, tasks and
task bodies end. In `OverlapRing` no callback has to throw, so that a comm callback
that waits for the ring may wait for ever if the ring does. The store lock is
strongly fair, as `flock` queues its waiters; no failure is ever assumed to happen.
Nobody is obliged to submit, wait, launch, call or destroy.

## 4. Findings

1. `compiler/device_triton.py:126` narrows the barrier target to a signed 32-bit
   value; the docstring (lines 120-122) claims correctness past 2^31. With 48 blocks
   and 478 barriers per step the counter gets there after some 93 600 decode steps.
   The proofs of section 5 carry the assumption `NoWrap` for this reason.
2. `compiler/device_triton.py:566`: row lengths of a refused table stay recorded.
3. `tuning/cache.py:489`: `seed` tests its snapshot and merges into a newer file.
4. `torch_ops/dsa_resolve_rows.py:129`: the kernel addresses the selection by request
   only, so the stacked call resolves the first layer's selection for every layer; its
   test stacks equal selections.

Observations that no run is devoted to. The Milestone-0 program has one slot per
block and one barrier per round, so a block may read its neighbour's value of the
*next* round, where `synchronization.py:57-58` says that only the barrier can have
published what is read; `ReadWindow` states what does hold, and the tolerance of
the verdict hides the difference at the default number of rounds. `seed` resets the
memo (`tuning/cache.py:505`) that freezes a process's configs, so a process that seeds
what it serves is given a second config, where lines 59-61 say that a bucket never
changes config under a running serve; `Frozen` counts these seeds. A re-read under the
lock that fails (lines 262-263) erases the records of all other buckets, where lines
56-58 say that a writer merges only its own record; `RecordsSurvive` makes the
exception explicit. `dsa_resolve_rows.py:187` relies on H >= K, which nothing checks
(`_validate_common`) and the parity tests do not keep to (K of 257, 2048 and 2051 over
256 hot rows): a valid token without a victim becomes -1 and no error is counted. A
store file whose JSON is not an object raises an `AttributeError` that neither read
catches; it is not modelled. The tail ring of
`KPool` needs `next_n - 1 <= RING - POOL + 1`: with steps of five tokens over a ring
of four (`NextN = 5` in `KPool.cfg`) `PoolsExact` fails, where the docstring
(`dsa_kpool_compress.py:80`) asks for two pools and no bound on the step. The span of
a paged region (`operator_ir.py:406-412`) ignores strides; no capture makes a paged
region over a view that is not contiguous. The reference of the static schedule's
executor is its docstring: `compile_model` accepts only the phase schedule.

## 5. Proofs

Checked with TLAPS for every value of the constants; no step is left without proof.
Each proof module strengthens the properties to an invariant that every action
preserves; TLC checked those invariants on the runs' instances before they were
proved. Constants carry the assumptions named in the modules that declare them.
Where a property needs more of its inputs than the code enforces, the theorem has
the condition as a hypothesis with a name. `Narrow`, `Leases`,
`SharedSelections` and `ProgramsDeclare` are asserted by the `MC` modules, so that TLC
evaluates them on the instances it runs (of `SharedSelections`, an instance with one
layer); `NoWrap` is a bound on the number of launches that the instance of
`megakernel` respects and the one of `megakernel_wrap` does not.

**Megakernel** (`PhaseMegakernelProofs`), from `ConstAssumption` (sizes, and reads
go to earlier phases), `PlanAssumption` (live buffers are disjoint and lie in the
workspace; `PlanServesMegakernel` below) and, for the
theorems, `NoWrap` (all targets below 2^31; finding 1). The inductive invariant
`IndInv`:

- `CountInv`: all blocks are in one of two adjacent generations m and m+1, and
  the counter is exactly the base plus m*P plus the number of those in m+1. Hence a
  counter that reached a target means that every block has arrived.
- `BaseInv`, `BaseAgreed`: `bar_base` is this launch's base until block 0 exits.
- `PcInv`: position, phase and remaining tasks fit together.
- `TileInv`: a stored tile of a buffer that some block may still need is intact.
  It is preserved by `StoreTile` because the writer's phase lies in both lives, so
  that the plan keeps the buffers apart.

Theorems: `Invariance`, `TypeCorrect`, `PhasesInOrder`, `ReadsFresh`, `BasesAgree`,
`LaunchesSound`, `BarrierImplemented` (refinement of `GridBarrier`: each step maps to
an arrival, a departure or a stutter).

**Milestone 0 and slot tables** (`SessionProofs`). `M0Inv`: nobody passes a barrier
that somebody has not arrived at (`InStep`), the counter is the base plus the
arrivals (`Counted`), and a writing block's slot holds the round it wrote last
(`Tagged`); hence `ReadsInWindow`. `PadInv`: the lengths that positions are checked
against are those of the installed table, which takes `Narrow` (no well-formed table
is wider than the capacity; without it, finding 2). `LeaseInv`: a leased slot holds
its own row's and position's data or what the caller committed, under `Leases`
(tables lease a slot once, which is the pool's contract and no check of the code).
Theorems: `ReadsInWindow`, `PaddingNeverRead`, `RowsNeverAlias`.

**Planner and executor** (`CompileProofs`, over `CompileSpec`). `PackInv`: what is
placed is disjoint where lives meet. `SearchInv`: every aligned place below the
candidate has been found taken, and the candidate stays within the room of the
buffers before it. `ExecInv`: after each phase the data of a buffer in use is in its
elements and any other data is gone, which is what keeps the canary from both false
alarms and silence. `SizesAssumption` (sizes are bounded) bounds the search.
`PlanServesMegakernel` closes the gap to the megakernel: `PlanOf` instantiates
`PhasePlan` with the sizes, offsets and total of a finished plan, phase j writing the
buffer `slot[j]`, and if the planner was given each buffer's life from the phases that
touch it (`LivesOf`, by `Lifetime`), the plan is legal in the megakernel's sense,
whatever the phases read. Theorems: `WorkspaceInvariance`, `PlanIsLegal`,
`PlanIsTight`, `ReuseIsSafe`, `SearchProgress`, `PlanServesMegakernel`.

**Tile schedules** (`CompileProofs`, over `CompileSpec`). `KahnInv`: the loop
has taken or has ready exactly the tasks without an open predecessor, so that a
remainder is a set in which every task has a predecessor in the set; for a finite
graph that is a cycle, by cardinality. `RunInv`: what was ever enqueued is waiting,
in hand or complete, once. `SerialInv`: conflicting tasks are ordered, completed
tasks are closed under predecessors, and a cell holds its last writer among the
tasks begun. `ReadsAreSerial` has the hypothesis `ProgramsDeclare` (two tasks whose
bodies meet in a cell, one of them storing, belong to different operators and declare
overlapping regions, as do their operators): that this holds of the 32 operators is a
statement about index arithmetic that TLC evaluates on the 24 programs. Theorems:
`TileInvariance`, `CyclesRefused`, `ClaimsAreSound`, `ReadsAreSerial`.

**Stream** (`StreamProofs`): `QueueInv` (the queue is the last tasks in order,
`outstanding` counts them and the one in hand), `FreedInv` (destroyed tasks are a
prefix), `ThrownInv` and `CaughtInv` (failures precede the present task), `LifeInv`
(stop, the worker's end and destruction). Theorems: `TypeCorrect`,
`WaitIsABarrier`, `FailureIsFirst`, `DestructionDrains`, `StreamKeepsPromise`.

**Overlap executor and ring** (`OverlapRingProofs`). `OverlapInv`: stream counters,
worker states, futures and the caller's position in step. `FailInv`: what the local
variable `failure` and the streams' stored failures stand for at each line of `run`.
`RingInv`: with s steps completed, a rank has summed into the chunk d hops behind it
exactly the ranks `Last(r, Have(s, d))` (`LocalInv`), a queue holds what was sent and
not consumed (`EdgeInv`), and a rank is ahead of another by at most the hops between
them (`SkewInv`, which bounds the queues). Theorems: `OverlapInvariance`,
`CommNeedsCompute`, `RunDrains`, `RunReports`, `RingInvariance`, `RingSums`,
`RingQueuesBounded`.

**Op-config cache** (`OpConfigCacheProofs`). `CacheInv`: between `flock` and
`os.replace` a process holds the lock and what it read is what is on the disk, or
nothing (`LockHeld`), and drafts are its own. `WritesMerge` follows: a record that the
write is not for is either what the disk has or, after a failed read, absent.
`FrozenInv`: a call of `op_config` is open only for buckets the memo knows nothing of
(`OpenInv`), and a bucket's configs number at most the seeds that the process has
written, and one more if the memo holds one (`WithinBudget`). So an answer is added
only where there is room for one, and a written seed, which empties the memo, makes
room for one more. The assumption on `Store` says that the first process finds a file
of records. Theorems: `Invariance`, `ResolvedIsOwn`, `WritesMerge` (an action
property), `ConfigsFrozen`.

**Pooled cache** (`KPoolProofs`), from `KPoolAssumption`: sizes as the code checks
them, and `NextN - 1 <= RING - POOL + 1`, which it does not check (section 4). `KInv`:
the ring holds the tokens from the start of the pool that the *accepted* tokens left
open, unless a whole ring has been written since (`RingHolds`), and whole pools are
exact (`RowsExact`). The bound on a step is used once, in `Accept`: what survives a
rejection must still be in the ring. The prefill case shows that the look-ahead test
of `kpool_seed_tail_cache` picks the last POOL tokens of each prompt for any batch,
padded or not. `VisibleIsHandedOut` and `TablesAreFresh` are facts about the
expansion and metadata operators, proved for every length, every choice of the top-k
and every split of the tiles. `FlattenSeq` is a recursive function, whose value is
obtained from least counterexamples (`LeastNat`, `FlattenAt`) instead of induction.
Theorems: `KPoolInvariance`, `PoolsAreExact`, `VisibleIsHandedOut`, `TablesAreFresh`.

**Row resolver** (`ResolveRowsProofs`), from `ResolveAssumption`: page, table and tier
sizes as the code's contract checks them, and hot pages that are different pages of
the GPU cache. The tier may be smaller than a selection (`H < K`). Two arguments.

*The kernel is the oracle.* The kernel answers resident and masked positions at once
and walks a compacted worklist; the oracle walks all K positions. `Sim(k, r, ..., j)`
relates the kernel's walk after `Rank(sel, j)` items, j's prefix count of the misses,
to the oracle's walk after j positions: equal tags, ages, protection, hits and fills;
answers equal up to j; errors equal but for the masked positions after j, which the
kernel has counted already. A miss moves both walks by the same item (`SimMiss`), any
other position only the oracle's (`SimOther`), and the worklist holds at i the one miss
of rank i (`RankApart`, `WorklistAt`). Both walks are recursive functions, whose values
are obtained from least counterexamples. Since no hypothesis on the buffers is left but
their type, a bit or a fill of an earlier launch cannot show (`KernelMatchesReference`).

*The tiers hold what the tables say.* `CacheInv`:

- `ResidentInv`: a resident page has a GPU page of its own, outside the hot tier, with
  its rows at their generation;
- `HostInv`: each page has a host page of its own with its current content, which is
  what makes a fill right;
- `HotInv`: a lane whose lease stands holds what its tags say, at whatever generation,
  and no two lanes have one token at one generation (`TagsApart`);
- `LostInv`: rows of a page whose lease ended are the other owner's.

Within a launch `WalkInv` adds that a protected lane holds a selected token at its
current generation, that each fill is for a protected lane on a standing lease, and
that a lane that changed has a fill; so a fill is never overtaken by a second eviction
of its lane, and the copy pass, which runs after the walk, writes what the tags say
(`CopiedRow`). `LaneLeft` is the counting argument of the comment "H >= K guarantees a
victim", for a selection that fits the tier (`Fits`): protected lanes hold different
selected tokens by `TagsApart`, and the missed token is not among them, so fewer lanes
are protected than the selection has distinct tokens, of which there are at most H. It
fails when a
stale lane is protected, which is the mutant of `NothingDropped`.

`CacheKeeps` and `KernelMatchesReference` hold whatever the calls are given.
`RowsAlwaysHold` and `NothingIsDropped` speak of the selection the caller asked for
and have the hypothesis `SharedSelections`: the layers of a batched call share one
selection. Without it finding 4 makes them false.

**Only model-checked**: the liveness properties `LaunchesRetire`, `VerdictReached`,
`Progress`, `NoLostWakeUp`, `RunEnds` and `CallsReturn` (the prover has no fairness or
ENABLED); and that the 32 operators satisfy `ProgramsDeclare`.

## 6. Not modelled

Arithmetic on tensors; GPU memory order weaker than the barrier's declared
semantics; the driver's occupancy query (any bound); pool attachment;
prefill in chunks; `seed(force=True)`, `reset_memo` by hand and the threads of one
process, which `_LOCK` serialises, in the op-config cache; `close()` on channels, which no caller under
`src/` uses while a rank receives, and which `pop` would not notice
(`channel.hpp:47`); in the compiler: data types, scalar guards, shape checks
(the lowerings' refusal of views that are not row-major is modelled), scratch sizes, text generation.

Most of the repository's lines are numeric kernels (`torch_ops/` of several
vendors, `kernels/*.cpp`, `.cu` and `.hip`, `_fallback.py`, `kernels.py`), their
argument checks, bindings, architecture tables and benchmarks. Their correctness is a
floating-point tolerance against a reference, within one sequential call: no state
survives the call, and a TLA+ model that leaves the arithmetic out would restate loop
bounds. The map therefore covers the control of the system and a small share of its
lines. Of the parts with some protocol, the hybrid megakernel is a second instance of
`PhaseMegakernel`'s constants; the pipeline boundary replays closures of its caller in
order (a replay leaves out the host-staged transfer between segments, which only the
eager path makes, `pipeline_boundary.cpp:97`); the kernel-tier tuning cache repeats
the lock discipline of the op-config cache; gather, scatter, donate and restore are
argument checks and one loop nest; cross-node KV and RCCL are calls to a driver.

## 7. Plan

1. The hybrid megakernel as a second instance of `PhaseMegakernel`.
2. The kernel-tier tuning cache and the pipeline boundary.
