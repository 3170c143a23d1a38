------------------------------- MODULE TierOps -------------------------------
(***************************************************************************)
(* What callers of the block pool can see of it: reference counts, the     *)
(* tier each block is in, the queue of background copies, and how many     *)
(* slots of a tier are free.  Each call (src/src/block_pool.cpp) is a      *)
(* function from pools to pools.  Which slot of a tier a block has is left *)
(* out: a slot has one owner at any time (SlotOwnership of BlockPool), so  *)
(* the free ones are those that no live block and no queued copy holds.    *)
(***************************************************************************)
EXTENDS Naturals, Sequences, FiniteSets, FiniteSetsExt

\* A pool of the given ids over tiers of cap[t] slots each, of which the CPU can
\* address those in host.
NewPool(ids, cap, host) ==
    [refs |-> [b \in ids |-> 0],
     tier |-> [b \in ids |-> 0],   \* 0 for a free block
     jobs |-> << >>,
     cap  |-> cap,
     host |-> host]

Ids(p) == DOMAIN p.refs

Used(p, t) == {b \in Ids(p) : p.refs[b] > 0 /\ p.tier[b] = t}
Reserved(p, t) == {i \in DOMAIN p.jobs : p.jobs[i].dst = t}

\* tier_free; num_free for tier 0
FreeSlots(p, t) == p.cap[t] - (Cardinality(Used(p, t)) + Cardinality(Reserved(p, t)))

FreeIds(p) == {b \in Ids(p) : p.refs[b] = 0}

\* The queued jobs of block b that are not cancelled: at most one.
JobsOf(p, b) == {i \in DOMAIN p.jobs : p.jobs[i].id = b /\ ~p.jobs[i].cancelled}

Migrating(p, b) == JobsOf(p, b) # {}

\* migrating(b) and migration_target(b) = t
HeadedFor(p, b, t) == \E i \in JobsOf(p, b) : p.jobs[i].dst = t

\* The blocks that are about to leave tier t.
Departing(p, t) == {b \in Ids(p) : Migrating(p, b) /\ p.tier[b] = t /\ ~HeadedFor(p, b, t)}

PendingDepartures(p, t) == Cardinality(Departing(p, t))

AllocateAll(p, B) ==
    [p EXCEPT !.refs = [b \in Ids(p) |-> IF b \in B THEN 1 ELSE @[b]]]

CancelMigration(p, b) ==
    [p EXCEPT !.jobs = [i \in DOMAIN @ |->
        IF @[i].id = b THEN [@[i] EXCEPT !.cancelled = TRUE] ELSE @[i]]]

Incref(p, b) == [p EXCEPT !.refs[b] = @ + 1]

Decref(p, b) ==
    IF p.refs[b] > 1 THEN [p EXCEPT !.refs[b] = @ - 1]
    ELSE [CancelMigration(p, b) EXCEPT !.refs[b] = 0, !.tier[b] = 0]

\* migrate, where it finds room or the block is there already.
CanMigrate(p, b, t) == p.tier[b] = t \/ FreeSlots(p, t) > 0
Migrate(p, b, t) ==
    IF CanMigrate(p, b, t) THEN [CancelMigration(p, b) EXCEPT !.tier[b] = t]
    ELSE CancelMigration(p, b)

\* Mutant of CanMigrateAsync: the destination may be full.
CanMigrateAsyncFull(p, b, t) ==
    /\ p.tier[b] # t
    /\ ~Migrating(p, b)
    /\ {t, p.tier[b]} \subseteq p.host

\* migrate_async, where it returns true
CanMigrateAsync(p, b, t) ==
    /\ p.tier[b] # t
    /\ ~Migrating(p, b)
    /\ FreeSlots(p, t) > 0
    /\ {t, p.tier[b]} \subseteq p.host
MigrateAsync(p, b, t) ==
    [p EXCEPT !.jobs = Append(@, [id |-> b, dst |-> t, done |-> FALSE,
                                  cancelled |-> FALSE])]

\* Mutant of Drain: a finished copy is not followed.
DrainDiscards(p) ==
    LET n == Max({k \in 0 .. Len(p.jobs) : \A i \in 1 .. k : p.jobs[i].done})
    IN  [p EXCEPT !.jobs = SubSeq(@, n + 1, Len(@))]

\* drain_migrations: the done jobs at the front are applied or discarded.
Drain(p) ==
    LET n == Max({k \in 0 .. Len(p.jobs) : \A i \in 1 .. k : p.jobs[i].done})
        landed(b) == JobsOf(p, b) \cap 1 .. n
    IN  [p EXCEPT
          !.jobs = SubSeq(@, n + 1, Len(@)),
          !.tier = [b \in Ids(p) |->
             IF landed(b) = {} THEN @[b] ELSE p.jobs[Max(landed(b))].dst]]

\* A worker is done with job i.  Jobs are claimed from the front and a worker
\* keeps its job until it is done, so fewer jobs before i are open than there
\* are workers.
CanFinish(p, i, workers) ==
    /\ ~p.jobs[i].done
    /\ Cardinality({k \in 1 .. i - 1 : ~p.jobs[k].done}) < workers
Finish(p, i) == [p EXCEPT !.jobs[i].done = TRUE]
=============================================================================
