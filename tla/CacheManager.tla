----------------------------- MODULE CacheManager -----------------------------
(***************************************************************************)
(* The cache manager (src/src/cache_manager.cpp): the prefix tree and the  *)
(* tiered pool together, under a scheduler that acquires a block table per *)
(* request, polls it, and releases, moves or drops it, while the pool's    *)
(* workers finish background copies at any time.                           *)
(*                                                                         *)
(* A call of the manager is one step.  Workers do run during a call, but   *)
(* all they change is a done flag, and a call reads those only in its one  *)
(* drain_migrations.  A request is its whole token blocks plus whether a   *)
(* partial block follows.  Statistics are left out.                        *)
(***************************************************************************)
EXTENDS RadixNodes, TierOps

CONSTANTS
    Request,   \* [tokens, partial]
    Decoded,   \* what decoding can make of a partial block: some of TokenBlock
    Handle,    \* Allocation objects
    NoHandle,  \* the content of a disarmed one
    Workers,   \* how many migration threads there are
    Config     \* what managers are constructed from

ASSUME ManagerAssumption ==
    \A c \in Config :
        /\ DOMAIN c.cap \in {{0}, {0, 1}}
        /\ c.host \subseteq DOMAIN c.cap
        /\ Cardinality(c.ids) = MapThenSumSet(LAMBDA t : c.cap[t], DOMAIN c.cap)
        /\ c.options.spill_watermark \in Nat
        /\ c.options.async_promotion \in BOOLEAN

VARIABLES
    tree,     \* tree_
    pool,     \* pool_
    alloc,    \* what each handle holds
    options   \* options_

vars == <<tree, pool, alloc, options>>

Tiered(p) == 1 \in DOMAIN p.cap
NeedBlocks(r) == Len(r.tokens) + (IF r.partial THEN 1 ELSE 0)

\* Handles with a table that the manager must get back.
Armed == {h \in Handle : alloc[h] # NoHandle}

Construct(c) ==
    /\ tree = EmptyTree
    /\ pool = NewPool(c.ids, c.cap, c.host)
    /\ alloc = [h \in Handle |-> NoHandle]
    /\ options = c.options

Init == \E c \in Config : Construct(c)

------------------------------------------------------------------------------
(* Demotion                                                                 *)

\* What pick_demotion_victims asks of a block.
Demotable(p, b) == p.tier[b] = 0 /\ p.refs[b] = 1 /\ ~Migrating(p, b)

Victims(t, p, n) == PickDemotionVictims(t, n, {b \in Ids(p) : Demotable(p, b)})

\* The demotions of acquire and of maintain stop when the spill tier is full.
Demote(p, s) ==
    FoldLeft(LAMBDA q, b : IF CanMigrate(q, b, 1) THEN Migrate(q, b, 1) ELSE q, p, s)
DemoteAsync(p, s) ==
    FoldLeft(LAMBDA q, b : IF CanMigrateAsync(q, b, 1) THEN MigrateAsync(q, b, 1) ELSE q,
             p, s)

\* Mutant of Projected: demotions under way are not counted.
ProjectedFree(p) == FreeSlots(p, 0)

\* Compute slots that are free or will be once the demotions under way land.
Projected(p) == FreeSlots(p, 0) + PendingDepartures(p, 0)

Maintain(t, p) ==
    IF ~Tiered(p) \/ Projected(p) >= options.spill_watermark THEN p
    ELSE DemoteAsync(p, Victims(t, p, options.spill_watermark - Projected(p)))

------------------------------------------------------------------------------
(* acquire                                                                  *)

\* One turn of the eviction loop on x = [tree, pool].
EvictTurn(x, demand) ==
    IF FreeSlots(x.pool, 0) >= demand THEN x
    ELSE LET e == Evict(x.tree, x.pool.refs, demand - FreeSlots(x.pool, 0))
         IN  [tree |-> e.tree, pool |-> FoldLeft(Decref, x.pool, e.freed)]

\* Mutant of EvictFor: evict is called once.
EvictOnce(t, p, demand) == EvictTurn([tree |-> t, pool |-> p], demand)

\* The loop ends when a turn frees nothing, at the latest with the last node.
EvictFor(t, p, demand) ==
    LET turn[i \in 0 .. Cardinality(Nodes(t))] ==
          IF i = 0 THEN [tree |-> t, pool |-> p]
          ELSE EvictTurn(turn[i - 1], demand)
    IN  turn[Cardinality(Nodes(t))]

\* Mutants of CancelDemotions: nothing is cancelled; promotions are, too.
CancelNothing(p, s) == p
CancelMoves(p, s) == FoldLeft(CancelMigration, p, s)

\* A demotion of a matched block must not land under its reader.
CancelDemotions(p, s) ==
    FoldLeft(LAMBDA q, b : IF Migrating(q, b) /\ ~HeadedFor(q, b, 0)
                           THEN CancelMigration(q, b) ELSE q, p, s)

\* The matched blocks that have to be brought back to the compute tier.
Spilled(p, s) == SelectSeq(s, LAMBDA b : p.tier[b] # 0 /\ ~Migrating(p, b))

\* Mutant of Demand: promotions are thought to need no slot.
DemandFresh(r, p, s) == NeedBlocks(r) - Len(s)

\* The compute slots a request needs beyond its matched blocks s.
Demand(r, p, s) == NeedBlocks(r) - Len(s) + Len(Spilled(p, s))

Promote(p, b) ==
    IF options.async_promotion /\ CanMigrateAsync(p, b, 0) THEN MigrateAsync(p, b, 0)
    ELSE Migrate(p, b, 0)

\* Mutant of MakeRoom: nothing is demoted first.
MakeRoomByEviction(t, p, demand) == EvictFor(t, p, demand)

\* Room for demand blocks, by demotion first and by eviction then.
MakeRoom(t, p, demand) ==
    LET short == demand - FreeSlots(p, 0)
    IN  EvictFor(t, IF Tiered(p) /\ FreeSlots(p, 0) < demand
                    THEN Demote(p, Victims(t, p, short)) ELSE p, demand)

\* The decision, and the promotions that follow if there is room.
Decide(m, spilled, demand, fresh, room) ==
    [match |-> m, fresh |-> fresh, spilled |-> spilled,
     tree |-> room.tree,
     ok |-> FreeSlots(room.pool, 0) >= demand,
     backout |-> room.pool,
     pool |-> FoldLeft(Promote, room.pool, spilled)]

\* acquire after its match m, in the pool p it leaves.
AttemptMatched(r, m, p) ==
    Decide(m, Spilled(p, m.blocks), Demand(r, p, m.blocks),
           NeedBlocks(r) - Len(m.blocks),
           MakeRoom(Lock(m.tree, m.node), p, Demand(r, p, m.blocks)))

\* acquire(r): all of it but the fresh blocks and maintain.
Attempt(r) ==
    LET with(m) == AttemptMatched(r, m, CancelDemotions(Drain(pool), m.blocks))
    IN  with(MatchPrefix(tree, r.tokens))

\* The end of a served attempt a, with the fresh blocks ids.
Serve(h, r, a, ids) ==
    /\ alloc' = [alloc EXCEPT ![h] =
          [tokens |-> r.tokens, blocks |-> a.match.blocks \o ids,
           cached_blocks |-> Len(a.match.blocks), pinned |-> a.match.node]]
    /\ pool' = Maintain(a.tree, AllocateAll(a.pool, Range(ids)))
    /\ tree' = a.tree
    /\ UNCHANGED options

\* The blocks allocate can return for attempt a.
FreshIds(a) == Injection(1 .. a.fresh, FreeIds(a.pool))

AcquireServed(h, r) ==
    \E a \in {Attempt(r)} :
        /\ alloc[h] = NoHandle
        /\ a.ok
        /\ \E ids \in FreshIds(a) : Serve(h, r, a, ids)

\* Mutant of AcquireFailed: the pin stays.
AcquireFailedPinned(r) ==
    \E a \in {Attempt(r)} :
        /\ ~a.ok
        /\ tree' = a.tree
        /\ pool' = a.backout
        /\ UNCHANGED <<alloc, options>>

\* Not enough room: the pin is taken back, what was demoted or evicted stays so.
AcquireFailed(r) ==
    \E a \in {Attempt(r)} :
        /\ ~a.ok
        /\ tree' = Unlock(a.tree, a.match.node)
        /\ pool' = a.backout
        /\ UNCHANGED <<alloc, options>>

------------------------------------------------------------------------------
(* Handles                                                                  *)

FreshBlocks(h) ==
    SubSeq(alloc[h].blocks, alloc[h].cached_blocks + 1, Len(alloc[h].blocks))

\* What a sequence can have become by the time it is released: itself, or, if
\* its table has a partial last block, itself with that block filled.
Outcomes(h) ==
    {alloc[h].tokens} \cup
    {Append(alloc[h].tokens, x) :
        x \in {y \in Decoded : Len(alloc[h].tokens) < Len(alloc[h].blocks)}}

\* Mutant of Release: the pin stays.
ReleasePinned(h, tokens) ==
    LET i == Insert(tree, tokens, alloc[h].blocks)
        p1 == FoldLeft(Decref, FoldLeft(Incref, pool, i.adopted), FreshBlocks(h))
    IN  /\ tree' = i.tree
        /\ pool' = Maintain(i.tree, Drain(p1))
        /\ alloc' = [alloc EXCEPT ![h] = NoHandle]
        /\ UNCHANGED options

Release(h, tokens) ==
    LET i == Insert(tree, tokens, alloc[h].blocks)
        p1 == FoldLeft(Decref, FoldLeft(Incref, pool, i.adopted), FreshBlocks(h))
        t1 == Unlock(i.tree, alloc[h].pinned)
    IN  /\ tree' = t1
        /\ pool' = Maintain(t1, Drain(p1))
        /\ alloc' = [alloc EXCEPT ![h] = NoHandle]
        /\ UNCHANGED options

ReleaseHeld(h) ==
    /\ h \in Armed
    /\ \E tokens \in Outcomes(h) : Release(h, tokens)

\* The request without tokens: acquire does nothing for it, and releasing its
\* handle, which holds nothing, still drains and maintains.
ReleaseEmpty ==
    /\ pool' = Maintain(tree, Drain(pool))
    /\ UNCHANGED <<tree, alloc, options>>

\* abandon, without disarming the handle
GiveBack(h) ==
    /\ pool' = FoldLeft(Decref, pool, FreshBlocks(h))
    /\ tree' = Unlock(tree, alloc[h].pinned)

\* A live handle is destroyed.
Drop(h) ==
    /\ h \in Armed
    /\ GiveBack(h)
    /\ alloc' = [alloc EXCEPT ![h] = NoHandle]
    /\ UNCHANGED options

\* Move construction into an empty g, or assignment over a live one.
Move(g, h) ==
    /\ g # h
    /\ h \in Armed
    /\ IF g \in Armed THEN GiveBack(g) ELSE UNCHANGED <<pool, tree>>
    /\ alloc' = [alloc EXCEPT ![g] = alloc[h], ![h] = NoHandle]
    /\ UNCHANGED options

\* ready(), and every turn of wait_ready: finished copies are folded in.
Poll(h) ==
    /\ h \in Armed
    /\ pool' = Drain(pool)
    /\ UNCHANGED <<tree, alloc, options>>

TableReady(h) == \A b \in ToSet(alloc[h].blocks) : pool.tier[b] = 0

------------------------------------------------------------------------------
\* A worker finishes job i; the oldest unfinished one always has a worker.
FinishJob(i) ==
    /\ CanFinish(pool, i, Workers)
    /\ pool' = Finish(pool, i)
    /\ UNCHANGED <<tree, alloc, options>>

FinishOldest ==
    \E i \in DOMAIN pool.jobs :
        (\A k \in 1 .. i - 1 : pool.jobs[k].done) /\ FinishJob(i)

Next ==
    \/ \E r \in Request : AcquireFailed(r) \/ \E h \in Handle : AcquireServed(h, r)
    \/ \E h \in Handle :
          ReleaseHeld(h) \/ Drop(h) \/ Poll(h) \/ \E g \in Handle : Move(g, h)
    \/ ReleaseEmpty
    \/ \E i \in DOMAIN pool.jobs : FinishJob(i)

Spec == Init /\ [][Next]_vars

\* Workers keep working, and the engine polls a table until it is ready.
Fairness == WF_vars(FinishOldest) /\ \A h \in Handle : WF_vars(Poll(h))

FairSpec == Spec /\ Fairness

------------------------------------------------------------------------------
(* Type correctness; the pool's free-slot counts never go below zero.       *)
TypeOK ==
    /\ pool.refs \in [Ids(pool) -> 0 .. 2]
    /\ pool.tier \in [Ids(pool) -> DOMAIN pool.cap]
    /\ \A t \in DOMAIN pool.cap : FreeSlots(pool, t) >= 0
    /\ \A h \in Armed : alloc[h].blocks \in Seq(Ids(pool))

(* The path to a handle's pinned node still holds the cached part of its    *)
(* table, every node counts the pins through it, and every reference is the *)
(* tree's or that of the one handle that took the block.  So releasing,     *)
(* dropping, moving and failing handles in any order neither leak a block   *)
(* or a pin nor give one back twice.                                        *)
TablesIntact ==
    /\ \A h \in Armed :
          LET p == Path(tree, alloc[h].pinned)
          IN  FlattenSeq([i \in 1 .. Len(p) |-> tree.node[p[i]].blocks])
                = SubSeq(alloc[h].blocks, 1, alloc[h].cached_blocks)
    /\ \A n \in Nodes(tree) :
          tree.node[n].lock_count =
             Cardinality({h \in Armed : n \in ToSet(Path(tree, alloc[h].pinned))})
    /\ \A b \in Ids(pool) :
          pool.refs[b] =
             MapThenSumSet(LAMBDA n : Drops(tree.node[n].blocks, b), Nodes(tree))
             + Cardinality({h \in Armed : b \in ToSet(FreshBlocks(h))})

(* No block moves away under a reader: a block of a live table is in the    *)
(* compute tier with no copy in flight, or, with async promotion between    *)
(* tiers the workers can address, on its way there; otherwise every table   *)
(* is born ready.  Holds against demotions begun before the table was made  *)
(* and against every later request's search for room.                       *)
TableResident ==
    \A h \in Armed : \A b \in ToSet(alloc[h].blocks) :
        \/ pool.tier[b] = 0 /\ ~Migrating(pool, b)
        \/ /\ options.async_promotion
           /\ pool.host = {0, 1}
           /\ pool.tier[b] # 0
           /\ HeadedFor(pool, b, 0)

(* The assertions of acquire: once demand is met, every promotion lands or  *)
(* is under way, and allocate finds an id and a compute slot for each fresh *)
(* block, though promotions have reserved slots in between.                 *)
AcquireNeverAsserts ==
    \A r \in Request :
        LET a == Attempt(r)
        IN  a.ok =>
              /\ \A b \in ToSet(a.spilled) : a.pool.tier[b] = 0 \/ HeadedFor(a.pool, b, 0)
              /\ FreeSlots(a.pool, 0) >= a.fresh
              /\ Cardinality(FreeIds(a.pool)) >= a.fresh

(* acquire gives up only when nothing is left to evict: evicting spilled    *)
(* entries frees no compute slot, and the loop must not take that for       *)
(* having tried everything.                                                 *)
FailureMeansExhausted ==
    \A r \in Request :
        LET a == Attempt(r)
        IN  ~a.ok => \A n \in ToSet(LruLeaves(a.tree)) : ~SoleOwner(a.tree, a.backout.refs, n)

(* Background demotion never goes deeper than the watermark asks for: a     *)
(* step that sends a block away ends with no more free or soon-to-be-free   *)
(* compute slots than the watermark, whatever it drained or cancelled.      *)
NoOverDemotion ==
    [][Departing(pool', 0) \ Departing(pool, 0) # {} =>
          FreeSlots(pool', 0) + PendingDepartures(pool', 0) <= options.spill_watermark]_vars

(* A table becomes ready as long as it is held: its promotions are never    *)
(* cancelled, and out-of-order copies of other requests do not hold them up *)
(* for ever.                                                                *)
BecomesReady == \A h \in Handle : h \in Armed ~> (h \notin Armed \/ TableReady(h))

(* A request that fits the compute tier is refused only while some handle   *)
(* is live or a copy into the compute tier is still queued: whatever has    *)
(* been published, demoted, cancelled or dropped before, an idle engine     *)
(* serves it.                                                               *)
RefusalExplained ==
    \A r \in Request :
        LET a == Attempt(r)
        IN  NeedBlocks(r) <= pool.cap[0] /\ ~a.ok =>
               Armed # {} \/ (options.async_promotion /\ Reserved(a.backout, 0) # {})

(* "Oversubscribed by in-flight sequences": a request that fits the compute *)
(* tier is refused only while some handle is live.                          *)
RefusedOnlyWhenHeld ==
    \A r \in Request :
        NeedBlocks(r) <= pool.cap[0] /\ ~Attempt(r).ok => Armed # {}
=============================================================================
