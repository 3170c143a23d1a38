# A TLA+ model of kvslab

kvslab is a KV-cache engine for LLM inference: a scheduler asks for the block
table of a token sequence, and the engine reuses the blocks of prefixes it has
seen, evicts or demotes cold ones, and copies blocks between memory tiers on
background threads. This directory models that engine, model-checks it with TLC
on small instances, and proves the block pool, its layout and its job queue correct
with TLAPS for all sizes.

## The system and its modules

| Part of the code | What it does | Modules |
|---|---|---|
| `block_pool.cpp`, bookkeeping | ids, reference counts, slots of each tier, synchronous and queued moves | `BlockPool`; it implements `BlockStore` and `TierPool` |
| `block_pool.cpp`, threads | job queue, mutex, condition variable, workers, shutdown | `MigrationSync` |
| `radix_tree.cpp` | prefix index: match, split, insert, pin, evict | `RadixNodes` (operators), `RadixTree` (state machine); it implements `PrefixCache` |
| `cache_manager.cpp` | acquire, release, handles, background demotion | `CacheManager`, over `RadixNodes` and `TierOps` |
| constructors of `BlockPool`, `tier.cpp`, `types.hpp` | sizes, aligned host memory, which tiers a pool accepts, slots, ids and byte offsets | `PoolGeometry`; the bytes themselves are the `mem` of `BlockPool` |
| `types.hpp`, `block_key` | hash of a token block | the constant `BlockKey` of `RadixNodes`, which need not be injective |
| `bench_prefix_cache.cpp` | workloads and the loops that serve them | `Benchmark`, over `CacheManager` |

How the parts fit: one scheduler thread calls the manager, which calls the tree
and the pool; the workers share only the job queue and the bytes with it. The
composition is layered the same way.

    Benchmark
         | extends
    CacheManager --uses--> RadixNodes   <--uses-- RadixTree --implements--> PrefixCache
         |
         +-------uses--> TierOps  <--uses-- TierPool  <--implements-- BlockPool --implements--> BlockStore

`TierOps` is the pool as callers see it: reference counts, the tier of each
block, and the queue. It has no slot numbers; free slots are counted. That this
is a sound view is not assumed: `BlockPool`, which has the slots, the free lists
and the workers, is checked and proved to implement `TierPool`, which is built from
the same operators (`ImplementsTierPool`, in `BlockPoolView`).

### BlockPool

Variables carry the names of the members: `free_ids`, `refcount`, `location`,
`jobs`, `next_unclaimed`, `migrating`. `free_slots` is a bag, so that a slot
pushed twice shows. `job` is the heap of `MigrationJob`s. A worker is `wpc`,
`wjob` (its raw pointer) and `wread` (the source when its copy began). Each pool
call is one action, because one thread makes them all. A worker takes several
steps (`Claim`, `BeginCopy`, `EndCopy`, or `SkipCopy` for a cancelled job), which
interleave with the calls. If the source changes during a copy, the result is
the old bytes, the new ones or `Garbage`. Actions are guarded by what the code
checks before it aborts the process: calls on a free id are not made.

`WriteBlock` stands for the kernel writing through `block_data`; it is external
to the library. It writes only blocks with no migration in flight. The pool does
not enforce that; the manager's callers write only the fresh blocks of a table,
and only blocks the tree owns are queued for migration.

### MigrationSync

The same queue at the grain of the mutex and the condition variable. A thread's
`pc` says where it is; waiting is split into the test of the predicate
(`check`), going to sleep (`block`, which releases the mutex) and waking. Between
`check` and `block` the thread still holds the mutex, so only steps that do not
need it can come in between. Setting `done` and notifying are two such steps.
Spurious wakeups are modelled. Jobs are numbers; what is copied is left out.

`ensure_worker` creates the threads one at a time (`StartWorker`), and any creation
may fail (`StartFails`): the exception leaves `migrate_async` with the job queued and
nobody notified. The threads created before it stay, and no later call adds to
them. `threw` records that not even one could be created; the next
`migrate_async` then tries again. `Worker` is the number of threads wanted, three
or one in the code.

### PoolGeometry

Construction, one step per tier: `MakeHostTier` or `OutOfMemory` for a pool that
owns its tier, then `InitTier` or `Reject` for each spec, then `InitIds`. Sizes wrap at
`SizeLimit` and slots and ids at `IndexLimit`, as `size_t` and `uint32_t` do. The
properties say what acceptance by `init` buys: slots inside the tier and
apart from each other, ids distinct and not `kInvalidBlock`. Each is stated for
what the types can hold; beyond that the code wraps, and the model shows it
doing so (a tier whose `num_blocks * block_bytes()` wraps is accepted).

### RadixNodes, RadixTree

A tree is a record with its nodes and the clock; `MatchPrefix`, `Insert`, `Lock`,
`Unlock`, `Evict` and `PickDemotionVictims` are functions on it. A token block is
one element of `TokenBlock`: the code compares and stores only whole blocks.
`last_access` is kept as the recency order of the nodes, which is all that is
read of it. `RadixTree` puts callers around these operators, with publishing
and letting go as separate steps, which is more than the manager does and what
the class allows. `Acquire` takes any free blocks, not the last of a stack.

### CacheManager

`Attempt` is `acquire` up to its decision: drain, match, pin, cancel demotions,
count demand, demote, evict (`MakeRoom`), promote (`Decide`). `AcquireServed` and `AcquireFailed` are its
two ends. `Release`, `Drop` (the destructor), `Move` (construction and
assignment), `Poll` (`ready`, each turn of `wait_ready`) and `ReleaseEmpty` are
the other calls. A call is one step: workers only change `done` flags, which a
call reads in its single drain. A handle is released with the tokens it was
acquired with or, if its last block was partial, with that block filled by
decoding (`Outcomes`). `Config` is what managers are constructed from: one tier or two,
the tiers the workers can address, the watermark, and whether promotion is
asynchronous.

### Benchmark

The client of the manager that the repository has: `run` and `run_manager` serve one
request at a time, `run_pipelined` keeps `depth` in flight and gates the oldest on
`wait_ready`, which is taken apart into its look (`GateOldest`) and its wait
(`WaitForMigrations`). `pc` is where the loop is, `window` the deque, `hits` what each
request found cached. The four workloads are functions to sequences of
requests; a random block is a number of its own. The workers run at any speed.
Which free ids a table gets is one fixed choice here, since nothing later depends
on it; `CacheManager` itself allows every choice.

## Runs

State counts are distinct states. Every passing run takes under four minutes.

| Run | Configuration | Checks | States |
|---|---|---|---|
| `pool` | 3 slots (2 compute, 1 spill), 3 jobs, 2 workers, 2 values | slots have one owner, rebinding is safe, claims are exclusive, a free slot means a free id, refinement of both abstract specifications | 66,702 |
| `pool_live` | the same with 2 jobs and no values | every queued job is settled | 52,464 |
| `sync` | up to 3 workers, any of which may fail to start, 3 jobs, no symmetry | no stranded job, a wait empties the queue, every job is done, the destructor returns | 54,376 |
| `tree` | 5 requests over 3 token blocks of which 2 share a key, 4 blocks, 2 handles | tree shape, reference and pin counts, pinned prefixes stay, matches are longest, eviction is exhaustive, refinement | 24,877 |
| `manager` | 2 + 2 slots, 2 handles, asynchronous promotion, watermark 1 | tables intact and resident, the assertions of `acquire`, refusal means nothing is left to evict and is explained by what is held, no over-demotion | 25,041 |
| `manager_live` | 4 managers: 2 + 1 slots with asynchronous promotion, with synchronous promotion, with a spill tier the workers cannot address; 3 slots in one tier | tables resident or, without asynchronous promotion, born ready; the assertions of `acquire`; a held table becomes ready | 33,496 |
| `geometry` | 6-bit sizes, 2-bit indices, pages of 4 bytes; 128 configurations, up to 2 tiers | slots in bounds and disjoint where sizes are representable, ids good below the index limit, an own tier suffices unless rounding overflows | 280,370 |
| `benchmark` | the rows of the benchmark scaled to 4 compute and 8 spill slots, and two rows with more in flight than fits | every row ends, fitting requests are served, a single tier thrashes, served requests lose entries only to unfinished copies, one wait is enough | 81,710 |

Why these bounds are enough to be interesting. In the pool of three slots a queued
copy holds one slot and its block another, so at most two jobs are queued, and at
most one of them is not cancelled. That is enough for a block to be migrated,
cancelled and migrated again while the first job is still queued, for two workers to
finish out of order, and for destinations to run out; the third job id lets a new
job differ from one just drained. Two live copies at once need four slots, which is
beyond TLC here (more than four million states). For the safety properties and both
refinements the proofs cover that case. `JobsSettle` is not proved: it is
checked with a cancelled job ahead of a live one only. Live jobs behind one another
are in `sync` (`EveryJobDone`, three jobs) and, in the counting view that the pool is
proved to implement, in `benchmark` (`BenchFinishes`, twelve slots). Three workers with three jobs let a woken worker find its
job taken. The requests of the tree diverge inside a node, extend one another,
and collide, so a split happens under a pin and an insert is refused. Two compute
slots are fewer than two requests need, so every source of room is used. The
geometry has configurations and tiers on both sides of every limit: products and
roundings that wrap, as many ids as there are indices and more. The
benchmark keeps the program's proportions (a working set of twice the
compute tier, a spill tier that holds all of it, a watermark of a quarter); its two rows with
too much in flight are refused with an empty tree and with spilled entries in it. The
named bounds are `MaxRefs`, `MaxJobs`, `MaxEvict` and the sizes of the sets.
Deadlock checking is off where the system stops: a destroyed pool (`sync`), a
constructed one (`geometry`). The end of a row is a step of its own in `Benchmark`,
so there a deadlock would show.
Symmetry is used only in runs without liveness properties.

### Disagreements found

Four runs are expected to find a violation.

- `wait_hangs`: **a lost wakeup.** `worker_loop` sets `done` and calls
  `notify_all` without the mutex (block_pool.cpp:117-118). If both fall between
  `wait_for_migrations` finding a job unfinished and going to sleep, nobody
  notifies again and the call does not return. One worker and one job are enough.
  Taking the mutex around the store would close the gap.
- `drain_order`: `drain_migrations` "Applies every migration whose copy has
  finished" (block_pool.hpp:109), but stops at the first unfinished job. Nothing
  is lost, as `pool_live` shows; it is only applied later.
- `evict_overshoot`: `evict` "Frees up to `num_blocks` blocks" (radix_tree.hpp:68),
  but drops whole leaves and so may free more.
- `refused_idle`: a refused acquire is said to be "Oversubscribed by in-flight
  sequences" (cache_manager.cpp:177), but a promotion whose sequence has ended
  can hold the missing slot until it is drained.

Two things the `benchmark` run taught. With asynchronous copies, "a spill tier turns
those losses into demote/promote traffic" (bench_prefix_cache.cpp:121) depends on
the workers keeping up: a cancelled or unfinished copy holds its spill slot, and a
migrating block cannot be picked, so an entry can be evicted although both tiers
together hold the working set. `SpillKeepsEntries` says what does hold: without
an unfinished copy a served request evicts nothing. A refused one may: once demotion
has failed it evicts spilled leaves as well, which frees no compute slot
(cache_manager.cpp:171-175), and is refused with the entries gone. And the loop of `wait_ready` turns at most once
(`OneWaitSuffices`).

Noticed in reading and not given a run: `maintain` "Runs after every acquire and
release" (cache_manager.hpp:130), but a refused acquire returns without it
(cache_manager.cpp:181; `AcquireFailed` has no `Maintain`).

### Fairness

- `BlockPool`: weak fairness of each worker's steps (a thread with work runs) and
  of draining (every acquire, release and poll drains).
- `MigrationSync`: strong fairness of each thread's steps. A thread that wants the
  mutex may see it taken again and again; the schedulers the library runs on do
  not starve it for ever. No call and no spurious wakeup is owed to anyone, so
  a lost wakeup is not repaired by luck.
- `CacheManager`: weak fairness of the oldest unfinished copy and of polling each
  held table, which is how `wait_ready` and the engine use it.
- `Benchmark`: weak fairness of the loop's steps (a thread that is not waiting runs)
  and of the oldest unfinished copy. TLC is slow to evaluate `ENABLED` of an acquire, so
  the first is spelled out with `Runnable` in its place; that the loop does have a step
  where it is `Runnable` is what the deadlock check of the run shows. Here
  `wait_for_migrations` returns once the copies are done. That it may miss the last
  of them is the finding `wait_hangs`, so `BenchFinishes` is about the code with that
  repaired: it shows that there is no other way for the loops to hang.

## Proofs

### The block pool

Proved of `BlockPool`, for any finite set of slots and as many ids, any tiers,
jobs, workers and values (the theorems are in `BlockPoolProofs`):

| Theorem | Statement |
|---|---|
| `TypeCorrect` | `Spec => []TypeOK` |
| `SlotsHaveOneOwner` | `Spec => []SlotOwnership` |
| `RebindSafe` | `Spec => []RebindIsSafe` |
| `ClaimsExclusive` | `Spec => []ClaimsAreExclusive` |
| `RoomAlwaysMeansId` | `Spec => []RoomMeansId` |
| `PoolImplementsStore` | `Spec => ImplementsBlockStore` |
| `PoolImplementsTierPool` (`BlockPoolViewProofs`) | `Spec => ImplementsTierPool` |

The assumptions are `PoolAssumption` (the finite sets above, as many ids as
slots, which `init` makes so, and `Nil` distinct from jobs and values) and, for the
last theorem, `WorkerAssumption` (finitely many workers).

None of the properties is inductive alone. `IndInv` adds to the type invariant,
`RebindIsSafe` and `ClaimsAreExclusive`:
- `IdsInv`: free ids are the unreferenced ones;
- `QueueInv`: a job is on the heap exactly while it is queued, once;
- `FreeInv`, `DisjointInv`, `NoLeakInv`: `SlotOwnership` without cardinalities, in
  the form the provers can use;
- `CopyInv`: an uncancelled copy is faithful. Once done, destination and source
  agree; under way, the source still holds what the worker began with.

The argument turns on three facts. A queued job's source can be given away only by
a call that cancels the job first, so an uncancelled job's block is still at its
source. The destination belongs to the job until it is drained, so nobody else
writes it. A job that a worker holds is not done, so drain cannot free it. The
proof has one lemma per action and one step per conjunct the action disturbs:
`BlockPoolInvariant` states `IndInv` and treats the calls that leave the queue
alone, `BlockPoolWorkers` treats `migrate_async`, writes and the workers,
`BlockPoolDrain` treats `drain_migrations`, and `BlockPoolProofs` puts them together.
Four modules rather than one keep a run of the prover to a few minutes each; a leaf
cites `Zenon` where that prover is the one to use.
`SlotOwnership` and `RoomMeansId` follow by counting: live ids inject into slots.
For the refinement each action is shown to be a `BlockStore` step or to leave
reference counts and contents alone; `CopyInv` is what makes a drain the latter.

The refinement of `TierPool` uses the same `IndInv`. `BlockPoolViewCalls` treats the
scheduler's calls and `BlockPoolViewProofs` the workers and the drain. Three facts
carry it:
- `SlotCount`: the slots of a tier are the disjoint union of its free list, the
  locations of its live blocks and the destinations of the queued copies. So the free
  list is empty exactly when the arithmetic of `TierOps` says so, and a call
  finds room in one exactly when it does in the other.
- `FinishAllowed`: the unfinished jobs before the one a worker finishes are held by
  as many other workers. So `CanFinish` bounds how far copies overtake each other.
- `DrainView`: the `Max` of the abstract drain is the length of the done prefix, and
  a block lands exactly when the job `migrating` has for it is in that prefix.

### The job queue

Proved of `MigrationSync`, for any set of workers and number of jobs, from
`SyncAssumption` (the scheduler is no worker, `Nil` is no thread), in
`MigrationSyncProofs`:

| Theorem | Statement |
|---|---|
| `TypeCorrect` | `Spec => []TypeOK` |
| `NobodyStranded` | `Spec => []NoStrandedJob` |
| `WaitLeavesNothing` | `Spec => WaitEmptiesQueue` |

The inductive invariant `SyncInv` has three parts. `LockInv`: the holder of the mutex is
the thread at `check` or `block`. `QueueInv`: the queue holds consecutive
job numbers, and only claimed ones are done, so a drain never takes the cursor
below zero. `StrandInv`: a worker about to sleep holds the mutex over a fully
claimed queue, so a job pushed later finds it asleep and the notification
reaches it; and while threads are being started, those that exist are awake
as long as there is something to claim, so a creation that fails strands nothing.
The argument needs no fairness; that the awake worker gets there is `EveryJobDone`,
which is model-checked.

### The layout

Proved of `PoolGeometry`, for all widths, alignments, configurations and lists
of tiers, from `GeometryAssumption` (the limits are positive, the alignment and the
fields of a configuration are representable), in `PoolGeometryProofs`:

| Theorem | Statement |
|---|---|
| `LayoutIsSound` | `Spec => [](SlotsInBounds /\ SlotsDisjoint /\ IdsAreGood)`, each where its sizes do not wrap |
| `OwnTierAccepted` | `Spec => []OwnTierSuffices` |

The invariant `Laid` says that an accepted tier counts its slots down from its number
of blocks and has passed the size check; the rest is arithmetic on products and
on `round_up`, stated as lemmas. The three properties carry their preconditions
(`Representable`, fewer blocks than `IndexLimit`): a tier whose byte size wraps, or a
pool with more blocks than indices, is accepted by the code and outside the theorem.

### Model-checked only

The tree, the manager and the benchmark: their operators fold over sequences and
walk trees, and what a recursive function computes cannot be proved by
induction with the installed provers. All liveness, since TLAPS does not treat
fairness here.

## Not modelled

- The hash function itself: `block_key` is any function, so collisions are covered but
  not how rare they are.
- Statistics, except the benchmark's hits and failures; no decision reads them.
- Memory for bookkeeping (`reserve`, `push_back`, `make_unique`) running out, and what an
  exception out of `migrate_async` leaves behind in the manager: a promotion that
  throws leaves the match pinned. `MigrationSync` has the failure itself.
- The fatal aborts: a call on a free or unknown id ends the process, and
  the models do not make one.
- The width of reference counts, pins and the logical clock (32 and 64 bits): the
  first two are bounded by the handles in flight, the last does not wrap in practice.
- Destruction of the manager while handles live: the handle's pointer to
  its manager is the caller's responsibility.
- The MSVC branch of `tier.cpp`, the move of the bytes through the bounce buffer (one
  value of `mem`, as a direct copy is), timing and printing in the benchmark.
- The tests: sequential callers, whose orders of calls the models include.

## Plan

What is left, should the code grow:
1. `MigrationSync` with `done` stored under the mutex, once the code does that, to
   replace the finding by a checked `WaitReturns`.
2. A device tier whose copies the workers make through `Tier::read` and `write`.
3. A proof of the tree's pin balance under `SplitNode`, in a prover with induction
   over data.
