------------------------------ MODULE BlockPool ------------------------------
(***************************************************************************)
(* The block pool (src/src/block_pool.cpp): reference-counted block ids    *)
(* bound to slots of a ladder of memory tiers, and the migration workers   *)
(* that copy blocks between tiers behind the scheduler's back.             *)
(*                                                                         *)
(* The scheduler thread owns all bookkeeping; each of its calls is one     *)
(* action.  A worker touches only the job queue and the bytes: it claims a *)
(* job, looks at its cancelled flag, copies (a begin and an end step, since*)
(* a memcpy takes time) and stores done.  The locking and the condition    *)
(* variable that carry these steps are the subject of MigrationSync.       *)
(*                                                                         *)
(* A slot of the model is a (tier, slot index) pair of the code.  A free   *)
(* list is a bag, kept as a multiplicity for every slot: the order of the  *)
(* code's stacks is left open, a slot pushed twice is not.                 *)
(***************************************************************************)
EXTENDS Naturals, Sequences, FiniteSets

CONSTANTS
    BlockId,    \* one id per slot in the whole pool
    Slot,       \* the slots of all tiers
    Tier,       \* tier indices; 0 is the compute tier
    TierOf,     \* the tier each slot belongs to
    FirstSlot,  \* slot 0 of tier 0, where a never-allocated id points
    HostTier,   \* tiers whose host_data() is not null
    JobId,      \* addresses a MigrationJob can be allocated at
    Worker,     \* migration threads: three, or one on a small machine
    Value,      \* what an owner can write into a block
    Garbage,    \* uninitialised or torn bytes
    Nil,        \* no job
    MaxRefs     \* bound: no block collects more references than this

MigrationJob ==
    [id : BlockId, src : Slot, dst : Slot, done : BOOLEAN, cancelled : BOOLEAN]

ASSUME PoolAssumption ==
    /\ IsFiniteSet(Slot)
    /\ IsFiniteSet(BlockId)
    /\ Cardinality(BlockId) = Cardinality(Slot)
    /\ 0 \in Tier
    /\ TierOf \in [Slot -> Tier]
    /\ FirstSlot \in Slot
    /\ HostTier \subseteq Tier
    /\ Nil \notin JobId \cup MigrationJob
    /\ Nil \notin Value
    /\ Nil # Garbage
    /\ MaxRefs \in Nat \ {0}

VARIABLES
    free_ids,       \* ids with no owner
    refcount,       \* references to each id
    location,       \* the slot each id is bound to; stale once the id is free
    free_slots,     \* how often each slot is on its tier's free list
    job,            \* the heap of MigrationJobs: a record, or Nil if freed
    jobs,           \* the queue, front first
    next_unclaimed, \* how many jobs of the queue have been claimed
    migrating,      \* the uncancelled job of each block, or Nil
    wpc,            \* where each worker is in its loop
    wjob,           \* the job each worker holds
    wread,          \* what the source held when the worker's copy began
    mem             \* the bytes of every slot

bookVars == <<free_ids, refcount, location, free_slots, migrating>>
workerVars == <<wpc, wjob, wread>>
vars == <<free_ids, refcount, location, free_slots, job, jobs, next_unclaimed,
          migrating, wpc, wjob, wread, mem>>

Bytes == Value \cup {Garbage}

Queued == {jobs[i] : i \in 1 .. Len(jobs)}

\* The slots allocate and migrate may pop in tier t.
FreeIn(t) == {s \in Slot : TierOf[s] = t /\ free_slots[s] > 0}

Live(b) == refcount[b] > 0

Init ==
    /\ free_ids = BlockId
    /\ refcount = [b \in BlockId |-> 0]
    /\ location = [b \in BlockId |-> FirstSlot]
    /\ free_slots = [s \in Slot |-> 1]
    /\ job = [j \in JobId |-> Nil]
    /\ jobs = << >>
    /\ next_unclaimed = 0
    /\ migrating = [b \in BlockId |-> Nil]
    /\ wpc = [w \in Worker |-> "wait"]
    /\ wjob = [w \in Worker |-> Nil]
    /\ wread = [w \in Worker |-> Garbage]
    /\ mem = [s \in Slot |-> Garbage]

------------------------------------------------------------------------------
(* The scheduler's calls.  A call on a free id aborts the process; the      *)
(* guards keep those out.                                                   *)

Allocate(b) ==
    /\ b \in free_ids
    /\ \E s \in FreeIn(0) :
          /\ free_slots' = [free_slots EXCEPT ![s] = @ - 1]
          /\ location' = [location EXCEPT ![b] = s]
    /\ free_ids' = free_ids \ {b}
    /\ refcount' = [refcount EXCEPT ![b] = 1]
    /\ UNCHANGED <<job, jobs, next_unclaimed, migrating, workerVars, mem>>

Incref(b) ==
    /\ refcount[b] \in 1 .. MaxRefs - 1
    /\ refcount' = [refcount EXCEPT ![b] = @ + 1]
    /\ UNCHANGED <<free_ids, location, free_slots, job, jobs, next_unclaimed,
                   migrating, workerVars, mem>>

\* cancel_migration: the job stays queued and keeps its destination slot.
Cancel(b) ==
    /\ job' = IF migrating[b] = Nil THEN job
              ELSE [job EXCEPT ![migrating[b]].cancelled = TRUE]
    /\ migrating' = [migrating EXCEPT ![b] = Nil]

CancelMigration(b) ==
    /\ migrating[b] # Nil
    /\ Cancel(b)
    /\ UNCHANGED <<free_ids, refcount, location, free_slots, jobs,
                   next_unclaimed, workerVars, mem>>

\* One of several references goes away.
DecrefShared(b) ==
    /\ refcount[b] > 1
    /\ refcount' = [refcount EXCEPT ![b] = @ - 1]
    /\ UNCHANGED <<free_ids, location, free_slots, job, jobs, next_unclaimed,
                   migrating, workerVars, mem>>

\* Mutants of DecrefLast: the dying block's migration is not cancelled; the
\* id is not put back; the check for an already free block is missing.
DecrefLastKeepsJob(b) ==
    /\ refcount[b] = 1
    /\ refcount' = [refcount EXCEPT ![b] = 0]
    /\ free_slots' = [free_slots EXCEPT ![location[b]] = @ + 1]
    /\ free_ids' = free_ids \cup {b}
    /\ UNCHANGED <<location, job, jobs, next_unclaimed, migrating, workerVars, mem>>

DecrefLastLosesId(b) ==
    /\ refcount[b] = 1
    /\ Cancel(b)
    /\ refcount' = [refcount EXCEPT ![b] = 0]
    /\ free_slots' = [free_slots EXCEPT ![location[b]] = @ + 1]
    /\ UNCHANGED <<free_ids, location, jobs, next_unclaimed, workerVars, mem>>

DecrefLastUnchecked(b) ==
    /\ refcount[b] <= 1
    /\ Cancel(b)
    /\ refcount' = [refcount EXCEPT ![b] = @ - 1]
    /\ free_slots' = [free_slots EXCEPT ![location[b]] = @ + 1]
    /\ free_ids' = free_ids \cup {b}
    /\ UNCHANGED <<location, jobs, next_unclaimed, workerVars, mem>>

\* The last reference goes away: the block takes its migration with it.
DecrefLast(b) ==
    /\ refcount[b] = 1
    /\ Cancel(b)
    /\ refcount' = [refcount EXCEPT ![b] = 0]
    /\ free_slots' = [free_slots EXCEPT ![location[b]] = @ + 1]
    /\ free_ids' = free_ids \cup {b}
    /\ UNCHANGED <<location, jobs, next_unclaimed, workerVars, mem>>

Decref(b) == DecrefShared(b) \/ DecrefLast(b)

\* migrate: supersedes a queued move first, even when it then finds the block
\* already there or the destination full.
Migrate(b, t) ==
    /\ Live(b)
    /\ Cancel(b)
    /\ \/ /\ TierOf[location[b]] = t \/ FreeIn(t) = {}
          /\ UNCHANGED <<location, free_slots, mem>>
       \/ /\ TierOf[location[b]] # t
          /\ \E s \in FreeIn(t) :
                /\ mem' = [mem EXCEPT ![s] = mem[location[b]]]
                /\ free_slots' = [free_slots EXCEPT ![s] = @ - 1,
                                                    ![location[b]] = @ + 1]
                /\ location' = [location EXCEPT ![b] = s]
    /\ UNCHANGED <<free_ids, refcount, jobs, next_unclaimed, workerVars>>

\* migrate_async, where it returns true; everywhere else it changes nothing.
MigrateAsync(b, t) ==
    /\ Live(b)
    /\ TierOf[location[b]] # t
    /\ migrating[b] = Nil
    /\ {t, TierOf[location[b]]} \subseteq HostTier
    /\ \E s \in FreeIn(t), j \in JobId :
          /\ job[j] = Nil
          /\ free_slots' = [free_slots EXCEPT ![s] = @ - 1]
          /\ job' = [job EXCEPT ![j] = [id |-> b, src |-> location[b], dst |-> s,
                                        done |-> FALSE, cancelled |-> FALSE]]
          /\ migrating' = [migrating EXCEPT ![b] = j]
          /\ jobs' = Append(jobs, j)
    /\ UNCHANGED <<free_ids, refcount, location, next_unclaimed, workerVars, mem>>

\* Mutant of DonePrefix: a drain takes one job.
DoneFirst(n) == n = 1 /\ job[jobs[1]].done

\* The done jobs at the front of the queue are its first n.
DonePrefix(n) ==
    /\ \A i \in 1 .. n : job[jobs[i]].done
    /\ n < Len(jobs) => ~job[jobs[n + 1]].done

\* Mutant of Returned: drain frees the destination it has just bound.
ReturnedDst(j) == job[j].dst

\* The slot a drained job gives back: the reservation of a cancelled one, the
\* slot its block leaves behind otherwise.
Returned(j) == IF job[j].cancelled THEN job[j].dst ELSE location[job[j].id]

\* The uncancelled jobs of block b in F; drain rebinds b to their destination.
Arrivals(F, b) == {j \in F : job[j].id = b /\ ~job[j].cancelled}

DrainMigrations ==
    \E n \in 1 .. Len(jobs) :
        LET F == {jobs[i] : i \in 1 .. n}
        IN  /\ DonePrefix(n)
            /\ jobs' = SubSeq(jobs, n + 1, Len(jobs))
            /\ next_unclaimed' = next_unclaimed - n
            /\ free_slots' = [s \in Slot |->
                  free_slots[s] + Cardinality({j \in F : Returned(j) = s})]
            /\ location' = [b \in BlockId |->
                  IF Arrivals(F, b) = {} THEN location[b]
                  ELSE job[CHOOSE j \in Arrivals(F, b) : TRUE].dst]
            /\ migrating' = [b \in BlockId |->
                  IF Arrivals(F, b) = {} THEN migrating[b] ELSE Nil]
            /\ job' = [j \in JobId |-> IF j \in F THEN Nil ELSE job[j]]
            /\ UNCHANGED <<free_ids, refcount, workerVars, mem>>

\* The model's kernels write a block only while it is not being migrated.
\* The pool does not enforce this; the cache manager gives it no other chance,
\* because only blocks the tree owns are ever queued for migration.
WriteBlock(b, v) ==
    /\ Live(b)
    /\ migrating[b] = Nil
    /\ mem' = [mem EXCEPT ![location[b]] = v]
    /\ UNCHANGED <<bookVars, job, jobs, next_unclaimed, workerVars>>

------------------------------------------------------------------------------
(* The workers.                                                             *)

\* Mutant of Claim: the cursor is not advanced.
ClaimTwice(w) ==
    /\ wpc[w] = "wait"
    /\ next_unclaimed < Len(jobs)
    /\ wjob' = [wjob EXCEPT ![w] = jobs[next_unclaimed + 1]]
    /\ wpc' = [wpc EXCEPT ![w] = "claimed"]
    /\ UNCHANGED <<bookVars, job, jobs, next_unclaimed, wread, mem>>

Claim(w) ==
    /\ wpc[w] = "wait"
    /\ next_unclaimed < Len(jobs)
    /\ wjob' = [wjob EXCEPT ![w] = jobs[next_unclaimed + 1]]
    /\ next_unclaimed' = next_unclaimed + 1
    /\ wpc' = [wpc EXCEPT ![w] = "claimed"]
    /\ UNCHANGED <<bookVars, job, jobs, wread, mem>>

\* The copy of an uncancelled job begins; its destination is half written.
BeginCopy(w) ==
    /\ wpc[w] = "claimed"
    /\ ~job[wjob[w]].cancelled
    /\ wread' = [wread EXCEPT ![w] = mem[job[wjob[w]].src]]
    /\ mem' = [mem EXCEPT ![job[wjob[w]].dst] = Garbage]
    /\ wpc' = [wpc EXCEPT ![w] = "copying"]
    /\ UNCHANGED <<bookVars, job, jobs, next_unclaimed, wjob>>

\* The worker stores done and forgets the job.
Finish(w) ==
    /\ job' = [job EXCEPT ![wjob[w]].done = TRUE]
    /\ wpc' = [wpc EXCEPT ![w] = "wait"]
    /\ wjob' = [wjob EXCEPT ![w] = Nil]
    /\ wread' = [wread EXCEPT ![w] = Garbage]

\* Mutants of SkipCopy: the cancelled flag is not looked at; a cancelled job is
\* dropped without storing done.
SkipCopyAlways(w) ==
    /\ wpc[w] = "claimed"
    /\ Finish(w)
    /\ UNCHANGED <<bookVars, jobs, next_unclaimed, mem>>

SkipCopySilently(w) ==
    /\ wpc[w] = "claimed"
    /\ job[wjob[w]].cancelled
    /\ wpc' = [wpc EXCEPT ![w] = "wait"]
    /\ wjob' = [wjob EXCEPT ![w] = Nil]
    /\ UNCHANGED <<bookVars, job, jobs, next_unclaimed, wread, mem>>

SkipCopy(w) ==
    /\ wpc[w] = "claimed"
    /\ job[wjob[w]].cancelled
    /\ Finish(w)
    /\ UNCHANGED <<bookVars, jobs, next_unclaimed, mem>>

\* The copy ends.  If the source changed meanwhile the copy is torn: it may
\* be the old bytes, the new ones or a mixture.
EndCopy(w) ==
    /\ wpc[w] = "copying"
    /\ LET src == job[wjob[w]].src
       IN  \E v \in IF mem[src] = wread[w] THEN {wread[w]}
                    ELSE {wread[w], mem[src], Garbage} :
              mem' = [mem EXCEPT ![job[wjob[w]].dst] = v]
    /\ Finish(w)
    /\ UNCHANGED <<bookVars, jobs, next_unclaimed>>

WorkerStep(w) == Claim(w) \/ BeginCopy(w) \/ SkipCopy(w) \/ EndCopy(w)

------------------------------------------------------------------------------
Next ==
    \/ \E b \in BlockId :
          \/ Allocate(b)
          \/ Incref(b)
          \/ Decref(b)
          \/ CancelMigration(b)
          \/ \E t \in Tier : Migrate(b, t) \/ MigrateAsync(b, t)
          \/ \E v \in Value : WriteBlock(b, v)
    \/ DrainMigrations
    \/ \E w \in Worker : WorkerStep(w)

Spec == Init /\ [][Next]_vars

\* A worker thread runs whenever it has something to do, and every acquire,
\* release and readiness poll drains the queue.
Fairness ==
    /\ \A w \in Worker : WF_vars(WorkerStep(w))
    /\ WF_vars(DrainMigrations)

FairSpec == Spec /\ Fairness

------------------------------------------------------------------------------
(* Type correctness of the pool's and the workers' state.                   *)
TypeOK ==
    /\ free_ids \subseteq BlockId
    /\ refcount \in [BlockId -> 0 .. MaxRefs]
    /\ location \in [BlockId -> Slot]
    /\ free_slots \in [Slot -> Nat]
    /\ job \in [JobId -> MigrationJob \cup {Nil}]
    /\ jobs \in Seq(JobId)
    /\ next_unclaimed \in Nat
    /\ migrating \in [BlockId -> JobId \cup {Nil}]
    /\ wpc \in [Worker -> {"wait", "claimed", "copying"}]
    /\ wjob \in [Worker -> JobId \cup {Nil}]
    /\ wread \in [Worker -> Bytes]
    /\ mem \in [Slot -> Bytes]

\* The live blocks bound to slot s, and the queued jobs that reserve it.
Bound(s) == {b \in BlockId : Live(b) /\ location[b] = s}
Reserving(s) == {j \in Queued : job[j].dst = s}

(* Every slot has exactly one owner: its free list (once), one live block,  *)
(* or one queued job that reserved it as a destination, cancelled or not.   *)
(* Allocation, sync moves, cancellations and drains in any order neither    *)
(* leak a slot nor hand it out twice.                                       *)
SlotOwnership ==
    \A s \in Slot :
        free_slots[s] + Cardinality(Bound(s)) + Cardinality(Reserving(s)) = 1

(* What drain_migrations relies on when it rebinds a finished job's block:  *)
(* a queued uncancelled job is the one migrating_ records, its block is     *)
(* still allocated, and it is still where the copy read it.                 *)
RebindIsSafe ==
    /\ \A j \in Queued :
          ~job[j].cancelled =>
             /\ migrating[job[j].id] = j
             /\ Live(job[j].id)
             /\ location[job[j].id] = job[j].src
    /\ \A b \in BlockId :
          migrating[b] # Nil =>
             /\ migrating[b] \in Queued
             /\ job[migrating[b]].id = b
             /\ ~job[migrating[b]].cancelled

(* A worker's raw pointer stays valid: the job it holds is still queued in  *)
(* the claimed part, is not done, and is held by no other worker, so drain  *)
(* cannot free it under the worker.  Every claimed job that is not done has *)
(* a worker to finish it, and only claimed jobs are done, so that drain's   *)
(* --next_unclaimed_ never wraps.                                           *)
ClaimsAreExclusive ==
    /\ next_unclaimed <= Len(jobs)
    /\ \A w \in Worker :
          wpc[w] # "wait" => \E i \in 1 .. next_unclaimed :
                                jobs[i] = wjob[w] /\ ~job[jobs[i]].done
    /\ \A w, x \in Worker :
          wpc[w] # "wait" /\ wpc[x] # "wait" /\ wjob[w] = wjob[x] => w = x
    /\ \A i \in 1 .. Len(jobs) :
          IF i <= next_unclaimed
          THEN job[jobs[i]].done
               \/ \E w \in Worker : wpc[w] # "wait" /\ wjob[w] = jobs[i]
          ELSE ~job[jobs[i]].done

(* allocate() needs a free id and a free compute slot; a slot alone is      *)
(* enough, because ids are as many as slots and every live id holds one.    *)
(* This is the cache manager's "free list disagrees with num_free()".       *)
RoomMeansId == FreeIn(0) # {} => free_ids # {}

\* What a reader of a block id sees.
Content == [b \in BlockId |-> IF Live(b) THEN mem[location[b]] ELSE Nil]

Store == INSTANCE BlockStore WITH refs <- refcount, content <- Content

(* The pool implements a plain reference-counted store: no migration,       *)
(* cancelled, torn, reordered or superseded, ever changes what the owner    *)
(* of a live id reads through it.                                           *)
ImplementsBlockStore == Store!StoreSpec

(* A queued migration is always settled: its worker finishes with it and a  *)
(* drain applies it or takes its reserved slot back.                        *)
JobsSettle == \A j \in JobId : job[j] # Nil ~> job[j] = Nil
=============================================================================
