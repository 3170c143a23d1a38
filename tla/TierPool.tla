------------------------------ MODULE TierPool ------------------------------
(***************************************************************************)
(* The block pool as its callers see it (see TierOps), as a specification  *)
(* that BlockPool implements.                                              *)
(***************************************************************************)
EXTENDS TierOps

CONSTANTS
    BlockId,   \* one id per slot
    Cap,       \* the number of slots of each tier
    HostTier,  \* tiers whose host_data() is not null
    Workers,   \* how many migration threads there are
    MaxRefs    \* bound: no block collects more references than this

VARIABLE pool

PoolInit == pool = NewPool(BlockId, Cap, HostTier)

PoolCall(b) ==
    \/ /\ pool.refs[b] = 0
       /\ FreeSlots(pool, 0) > 0
       /\ pool' = AllocateAll(pool, {b})
    \/ /\ pool.refs[b] > 0
       /\ \/ pool.refs[b] < MaxRefs /\ pool' = Incref(pool, b)
          \/ pool' = Decref(pool, b)
          \/ pool' = CancelMigration(pool, b)
          \/ \E t \in DOMAIN Cap :
                \/ pool' = Migrate(pool, b, t)
                \/ CanMigrateAsync(pool, b, t) /\ pool' = MigrateAsync(pool, b, t)

PoolNext ==
    \/ \E b \in BlockId : PoolCall(b)
    \/ pool' = Drain(pool)
    \/ \E i \in DOMAIN pool.jobs : CanFinish(pool, i, Workers) /\ pool' = Finish(pool, i)

PoolSpec == PoolInit /\ [][PoolNext]_pool
=============================================================================
