---------------------------- MODULE BlockPoolView ----------------------------
(***************************************************************************)
(* The block pool as its callers see it: BlockPool, with its slots, free   *)
(* lists and workers, implements TierPool, which only counts.              *)
(***************************************************************************)
EXTENDS BlockPool

ASSUME WorkerAssumption == IsFiniteSet(Worker)

TierSlots == [t \in Tier |-> Cardinality({s \in Slot : TierOf[s] = t})]

ViewTier == [b \in BlockId |-> IF Live(b) THEN TierOf[location[b]] ELSE 0]

\* A queued copy, as TierPool has it.
JobRecord(b, t, d, c) == [id |-> b, dst |-> t, done |-> d, cancelled |-> c]

ViewJob(j) == JobRecord(job[j].id, TierOf[job[j].dst], job[j].done, job[j].cancelled)

ViewJobs == [i \in 1 .. Len(jobs) |-> ViewJob(jobs[i])]

\* A pool of this geometry, as TierPool has it.
PoolRecord(r, t, q) ==
    [refs |-> r, tier |-> t, jobs |-> q, cap |-> TierSlots, host |-> HostTier]

View == PoolRecord(refcount, ViewTier, ViewJobs)

Pool == INSTANCE TierPool WITH
    Cap <- TierSlots,
    Workers <- Cardinality(Worker),
    pool <- View

(* Callers can count on the pool's arithmetic alone: a tier has as many     *)
(* free slots as neither live blocks nor queued copies hold, whatever the   *)
(* slots are, and copies finish out of order only as far as there are       *)
(* workers.  CacheManager builds on this view of the pool.                  *)
ImplementsTierPool == Pool!PoolSpec
=============================================================================
