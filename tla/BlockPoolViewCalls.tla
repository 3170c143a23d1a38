------------------------- MODULE BlockPoolViewCalls -------------------------
(***************************************************************************)
(* Each call of the scheduler thread, seen by callers through              *)
(* BlockPoolView, is the call of the same name of TierPool.  The counting  *)
(* is in SlotCount: a tier's slots are split between its free list, the    *)
(* live blocks in it and the queued copies that reserve one, each slot     *)
(* with one owner (FreeInv, DisjointInv and NoLeakInv of IndInv).          *)
(***************************************************************************)
EXTENDS BlockPoolView, BlockPoolProofs, FiniteSetTheorems

\* The fields of a pool record.
LEMMA RecordFields ==
  ASSUME NEW r, NEW t, NEW q
  PROVE  /\ PoolRecord(r, t, q).refs = r
         /\ PoolRecord(r, t, q).tier = t
         /\ PoolRecord(r, t, q).jobs = q
         /\ PoolRecord(r, t, q).cap = TierSlots
         /\ PoolRecord(r, t, q).host = HostTier
  BY DEF PoolRecord

\* What TierPool's allocate makes of a pool record.
LEMMA AllocateRecord ==
  ASSUME NEW r, NEW t, NEW q, NEW b, DOMAIN r = BlockId
  PROVE  Pool!AllocateAll(PoolRecord(r, t, q), {b})
           = PoolRecord([c \in BlockId |-> IF c = b THEN 1 ELSE r[c]], t, q)
  BY DEF Pool!AllocateAll, Pool!Ids, PoolRecord

\* What incref makes of it.
LEMMA IncrefRecord ==
  ASSUME NEW r, NEW t, NEW q, NEW b
  PROVE  Pool!Incref(PoolRecord(r, t, q), b) = PoolRecord([r EXCEPT ![b] = r[b] + 1], t, q)
  BY DEF Pool!Incref, PoolRecord

\* What decref of a shared block makes of it.
LEMMA DecrefSharedRecord ==
  ASSUME NEW r, NEW t, NEW q, NEW b, r[b] > 1
  PROVE  Pool!Decref(PoolRecord(r, t, q), b) = PoolRecord([r EXCEPT ![b] = r[b] - 1], t, q)
  BY DEF Pool!Decref, PoolRecord

\* What decref of the last reference makes of it, given what cancelling does.
LEMMA DecrefLastRecord ==
  ASSUME NEW r, NEW t, NEW q, NEW b, NEW z, ~(r[b] > 1),
         Pool!CancelMigration(PoolRecord(r, t, q), b) = PoolRecord(r, t, z)
  PROVE  Pool!Decref(PoolRecord(r, t, q), b)
           = PoolRecord([r EXCEPT ![b] = 0], [t EXCEPT ![b] = 0], z)
<1>1. Pool!Decref(PoolRecord(r, t, q), b)
        = [PoolRecord(r, t, z) EXCEPT !.refs[b] = 0, !.tier[b] = 0]
  BY RecordFields DEF Pool!Decref
<1>2. [PoolRecord(r, t, z) EXCEPT !.refs[b] = 0] = PoolRecord([r EXCEPT ![b] = 0], t, z)
  BY DEF PoolRecord
<1>3. [PoolRecord([r EXCEPT ![b] = 0], t, z) EXCEPT !.tier[b] = 0]
        = PoolRecord([r EXCEPT ![b] = 0], [t EXCEPT ![b] = 0], z)
  BY DEF PoolRecord
<1>4. QED
  BY <1>1, <1>2, <1>3

\* What migrate makes of it, given what cancelling does.
LEMMA MigrateRecord ==
  ASSUME NEW r, NEW t, NEW q, NEW b, NEW z, NEW x,
         Pool!CancelMigration(PoolRecord(r, t, q), b) = PoolRecord(r, t, z)
  PROVE  Pool!Migrate(PoolRecord(r, t, q), b, x)
           = IF Pool!CanMigrate(PoolRecord(r, t, q), b, x)
             THEN PoolRecord(r, [t EXCEPT ![b] = x], z) ELSE PoolRecord(r, t, z)
<1>1. [PoolRecord(r, t, z) EXCEPT !.tier[b] = x] = PoolRecord(r, [t EXCEPT ![b] = x], z)
  BY DEF PoolRecord
<1>2. QED
  BY <1>1 DEF Pool!Migrate

\* The job migrate_async queues.
NewJob(b, t) == JobRecord(b, t, FALSE, FALSE)

\* What migrate_async makes of a pool record: one more job at the back.
LEMMA MigrateAsyncRecord ==
  ASSUME NEW r, NEW t, NEW q, NEW b, NEW x
  PROVE  Pool!MigrateAsync(PoolRecord(r, t, q), b, x)
           = PoolRecord(r, t, Append(q, NewJob(b, x)))
<1>1. \A y : [PoolRecord(r, t, q) EXCEPT !.jobs = y] = PoolRecord(r, t, y)
  BY DEF PoolRecord
<1>2. PoolRecord(r, t, q).jobs = q
  BY RecordFields
<1>3. QED
  BY Zenon, <1>1, <1>2 DEF Pool!MigrateAsync, NewJob, JobRecord

\* Appending to a sequence given by a function extends the function.
LEMMA AppendAsFunction ==
  ASSUME NEW n \in Nat, NEW f, NEW x
  PROVE  Append([i \in 1 .. n |-> f[i]], x)
           = [i \in 1 .. n + 1 |-> IF i = n + 1 THEN x ELSE f[i]]
  OBVIOUS

\* What cancel_migration makes of it: every job of the block is cancelled.
LEMMA CancelRecord ==
  ASSUME NEW r, NEW t, NEW q, NEW b
  PROVE  Pool!CancelMigration(PoolRecord(r, t, q), b)
           = PoolRecord(r, t, [i \in DOMAIN q |->
                IF q[i].id = b THEN [q[i] EXCEPT !.cancelled = TRUE] ELSE q[i]])
<1>1. \A y : [PoolRecord(r, t, q) EXCEPT !.jobs = y] = PoolRecord(r, t, y)
  BY DEF PoolRecord
<1>2. PoolRecord(r, t, q).jobs = q
  BY RecordFields
<1> DEFINE c(z) == [i \in DOMAIN z |->
                      IF z[i].id = b THEN [z[i] EXCEPT !.cancelled = TRUE] ELSE z[i]]
<1>3. Pool!CancelMigration(PoolRecord(r, t, q), b)
        = [PoolRecord(r, t, q) EXCEPT !.jobs = c(PoolRecord(r, t, q).jobs)]
  BY Zenon DEF Pool!CancelMigration
<1>4. c(PoolRecord(r, t, q).jobs) = c(q)
  <2> HIDE DEF c
  <2>1. QED
    BY Zenon, <1>2
<1>5. Pool!CancelMigration(PoolRecord(r, t, q), b) = PoolRecord(r, t, c(q))
  <2> HIDE DEF c
  <2>1. QED
    BY Zenon, <1>1, <1>3, <1>4
<1>6. QED
  BY Zenon, <1>5

\* A freshly made pool looks like one to callers.
LEMMA TierInitial == Init => Pool!PoolInit
<1> SUFFICES ASSUME Init PROVE Pool!PoolInit
  OBVIOUS
<1>1. refcount = [b \in BlockId |-> 0] /\ jobs = << >>
  BY DEF Init
<1>2. ViewTier = [b \in BlockId |-> 0]
  BY <1>1 DEF Live, ViewTier
<1>3. ViewJobs = << >>
  BY <1>1 DEF ViewJobs
<1> QED
  BY <1>1, <1>2, <1>3 DEF Pool!PoolInit, Pool!NewPool, View, PoolRecord

\* TierPool counts with the same Cardinality.
LEMMA SameCardinality == \A S : Pool!Cardinality(S) = Cardinality(S)
  BY DEF Cardinality, Pool!Cardinality

\* The heap records of the queue, by position.
LEMMA QueueFacts ==
  ASSUME IndInv, NEW i \in 1 .. Len(jobs)
  PROVE  /\ jobs[i] \in Queued
         /\ jobs[i] \in JobId
         /\ job[jobs[i]] \in MigrationJob
         /\ job[jobs[i]].id \in BlockId
         /\ job[jobs[i]].dst \in Slot
         /\ job[jobs[i]].done \in BOOLEAN
         /\ job[jobs[i]].cancelled \in BOOLEAN
<1>1. jobs[i] \in Queued
  BY Zenon DEF Queued
<1>2. jobs[i] \in JobId /\ job[jobs[i]] \in MigrationJob
  BY Zenon, <1>1, QueuedRecord DEF IndInv
<1>3. QED
  BY <1>1, <1>2 DEF MigrationJob

\* What TierPool reads of the view.
LEMMA ViewFacts ==
  ASSUME IndInv
  PROVE  /\ View.refs = refcount
         /\ DOMAIN refcount = BlockId
         /\ View.tier = ViewTier
         /\ DOMAIN ViewTier = BlockId
         /\ \A b \in BlockId : Live(b) => View.tier[b] = TierOf[location[b]]
         /\ View.jobs = ViewJobs
         /\ DOMAIN ViewJobs = 1 .. Len(jobs)
         /\ \A i \in 1 .. Len(jobs) : /\ ViewJobs[i].id = job[jobs[i]].id
                                      /\ ViewJobs[i].dst = TierOf[job[jobs[i]].dst]
                                      /\ ViewJobs[i].done = job[jobs[i]].done
                                      /\ ViewJobs[i].cancelled = job[jobs[i]].cancelled
         /\ View.cap = TierSlots
         /\ View.host = HostTier
         /\ Pool!Ids(View) = BlockId
<1>1. DOMAIN refcount = BlockId /\ DOMAIN ViewTier = BlockId
  BY DEF IndInv, TypeOK, ViewTier
<1>2. /\ View.refs = refcount
      /\ View.tier = ViewTier
      /\ View.jobs = ViewJobs
      /\ View.cap = TierSlots
      /\ View.host = HostTier
  BY DEF View, PoolRecord
<1>3. \A i \in 1 .. Len(jobs) : ViewJobs[i] = ViewJob(jobs[i])
  BY Zenon DEF ViewJobs
<1>4. ASSUME NEW j
      PROVE  /\ ViewJob(j).id = job[j].id
             /\ ViewJob(j).dst = TierOf[job[j].dst]
             /\ ViewJob(j).done = job[j].done
             /\ ViewJob(j).cancelled = job[j].cancelled
  BY DEF ViewJob, JobRecord
<1>5. \A b \in BlockId : Live(b) => ViewTier[b] = TierOf[location[b]]
  BY Zenon DEF ViewTier
<1>6. DOMAIN ViewJobs = 1 .. Len(jobs)
  BY Zenon DEF ViewJobs
<1>7. \A i \in 1 .. Len(jobs) : /\ ViewJobs[i].id = job[jobs[i]].id
                                 /\ ViewJobs[i].dst = TierOf[job[jobs[i]].dst]
                                 /\ ViewJobs[i].done = job[jobs[i]].done
                                 /\ ViewJobs[i].cancelled = job[jobs[i]].cancelled
  BY Zenon, <1>3, <1>4
<1>8. Pool!Ids(View) = BlockId
  BY Zenon, <1>1, <1>2 DEF Pool!Ids
<1>9. \A b \in BlockId : Live(b) => View.tier[b] = TierOf[location[b]]
  BY Zenon, <1>2, <1>5
<1>10. QED
  BY Zenon, <1>1, <1>2, <1>6, <1>7, <1>8, <1>9

\* A bijection keeps the count.
LEMMA ImageCount ==
  ASSUME NEW D, NEW T, NEW f \in Bijection(D, T), IsFiniteSet(D)
  PROVE  IsFiniteSet(T) /\ Cardinality(T) = Cardinality(D) /\ Cardinality(T) \in Nat
  BY Zenon, FS_Bijection, FS_CardinalityType DEF ExistsBijection

\* Disjoint sets add up.
LEMMA UnionCount ==
  ASSUME NEW P, NEW Q, IsFiniteSet(P), IsFiniteSet(Q), P \cap Q = {}
  PROVE  /\ IsFiniteSet(P \cup Q)
         /\ Cardinality(P \cup Q) = Cardinality(P) + Cardinality(Q)
<1>1. /\ IsFiniteSet(P \cup Q)
      /\ Cardinality(P \cup Q) = Cardinality(P) + Cardinality(Q) - Cardinality(P \cap Q)
  BY Zenon, FS_Union
<1>2. Cardinality(P) \in Nat /\ Cardinality(Q) \in Nat /\ Cardinality(P \cap Q) = 0
  BY Zenon, FS_CardinalityType, FS_EmptySet
<1>3. QED
  BY <1>1, <1>2

\* A tier's free list is as long as TierPool's arithmetic says.
LEMMA SlotCount ==
  ASSUME IndInv, NEW t \in Tier
  PROVE  /\ Pool!FreeSlots(View, t) \in Int
         /\ Pool!FreeSlots(View, t) > 0 <=> FreeIn(t) # {}
<1> DEFINE U == {b \in BlockId : Live(b) /\ TierOf[location[b]] = t}
           R == {i \in 1 .. Len(jobs) : TierOf[job[jobs[i]].dst] = t}
           A == {location[b] : b \in U}
           B == {job[jobs[i]].dst : i \in R}
           S == {s \in Slot : TierOf[s] = t}
<1>1. Pool!Used(View, t) = U
  BY ViewFacts DEF Pool!Used, Live
<1>2. Pool!Reserved(View, t) = R
  BY ViewFacts DEF Pool!Reserved
<1>3. View.cap[t] = Cardinality(S)
  BY Zenon, ViewFacts DEF TierSlots
<1>4. /\ IsFiniteSet(A) /\ Cardinality(A) = Cardinality(U)
      /\ Cardinality(A) \in Nat
  <2>1. IsFiniteSet(U)
    BY PoolAssumption, FS_Subset
  <2>2. [b \in U |-> location[b]] \in Bijection(U, A)
    BY Zenon DEF Bijection, Injection, Surjection, IsInjective, IndInv, DisjointInv
  <2>3. QED
    BY Zenon, <2>1, <2>2, ImageCount
<1>5. /\ IsFiniteSet(B) /\ Cardinality(B) = Cardinality(R)
      /\ Cardinality(B) \in Nat
  <2>1. IsFiniteSet(R)
    <3>1. IsFiniteSet(1 .. Len(jobs))
      BY FS_Interval DEF IndInv, TypeOK
    <3>2. QED
      BY Zenon, <3>1, FS_Subset
  <2>2. \A i, k \in R : job[jobs[i]].dst = job[jobs[k]].dst => i = k
    BY Zenon, QueueFacts DEF IndInv, DisjointInv, QueueInv
  <2>3. [i \in R |-> job[jobs[i]].dst] \in Bijection(R, B)
    BY Zenon, <2>2 DEF Bijection, Injection, Surjection, IsInjective
  <2>4. QED
    <3> HIDE DEF R, B
    <3>1. QED
      BY Zenon, <2>1, <2>3, ImageCount
<1>6. /\ S = A \cup (B \cup FreeIn(t))
      /\ A \cap (B \cup FreeIn(t)) = {}
      /\ B \cap FreeIn(t) = {}
  <2>1. \A s \in A : /\ s \in S /\ free_slots[s] = 0 /\ s \notin B
    BY QueueFacts DEF IndInv, DisjointInv, FreeInv, TypeOK
  <2>2. \A s \in B : s \in S /\ free_slots[s] = 0
    BY QueueFacts DEF IndInv, FreeInv
  <2>3. ASSUME NEW s \in S, free_slots[s] = 0 PROVE s \in A \cup B
    BY <2>3 DEF IndInv, NoLeakInv, Queued
  <2>4. \A s \in Slot : free_slots[s] > 0 <=> free_slots[s] # 0
    BY DEF IndInv, FreeInv
  <2>5. FreeIn(t) = {s \in S : free_slots[s] # 0}
    BY <2>4 DEF FreeIn
  <2>6. QED
    BY <2>1, <2>2, <2>3, <2>5
<1>7. IsFiniteSet(FreeIn(t)) /\ Cardinality(FreeIn(t)) \in Nat
  BY PoolAssumption, FS_Subset, FS_CardinalityType DEF FreeIn
<1> HIDE DEF U, R, A, B, S
<1>8. Cardinality(S) = Cardinality(A) + (Cardinality(B) + Cardinality(FreeIn(t)))
  <2>1. /\ IsFiniteSet(B \cup FreeIn(t))
        /\ Cardinality(B \cup FreeIn(t)) = Cardinality(B) + Cardinality(FreeIn(t))
    BY Zenon, <1>5, <1>6, <1>7, UnionCount
  <2>2. Cardinality(A \cup (B \cup FreeIn(t))) = Cardinality(A) + Cardinality(B \cup FreeIn(t))
    BY Zenon, <1>4, <1>6, <2>1, UnionCount
  <2>3. QED
    BY Zenon, <1>6, <2>1, <2>2
<1>9. Pool!FreeSlots(View, t) = Cardinality(S) - (Cardinality(A) + Cardinality(B))
  BY Zenon, <1>1, <1>2, <1>3, <1>4, <1>5, SameCardinality DEF Pool!FreeSlots
<1>10. Cardinality(FreeIn(t)) = 0 <=> FreeIn(t) = {}
  BY Zenon, <1>7, FS_EmptySet
<1>11. QED
  BY <1>4, <1>5, <1>7, <1>8, <1>9, <1>10

------------------------------------------------------------------------------
(* The scheduler thread's calls.                                            *)

\* The view after a step, by its parts.
LEMMA ViewPrime == View' = PoolRecord(refcount', ViewTier', ViewJobs')
  BY DEF View, PoolRecord, TierSlots

\* The queue callers see changes only with the queue and its records.
LEMMA SameJobs == ASSUME UNCHANGED <<job, jobs>> PROVE ViewJobs' = ViewJobs
  BY DEF ViewJobs, ViewJob

\* The tiers callers see change only with references and locations.
LEMMA SameTier == ASSUME UNCHANGED <<refcount, location>> PROVE ViewTier' = ViewTier
  BY DEF ViewTier, Live

\* A step that touches none of what callers see.
LEMMA SameView == ASSUME UNCHANGED <<refcount, location, job, jobs>> PROVE View' = View
  BY Zenon, ViewPrime, SameJobs, SameTier DEF View

\* cancel_migration sets the flag of every queued job of the block: those that
\* are not migrating_'s have it already.
LEMMA CancelView ==
  ASSUME IndInv, NEW b \in BlockId, Cancel(b), jobs' = jobs, NEW r, NEW t
  PROVE  Pool!CancelMigration(PoolRecord(r, t, ViewJobs), b) = PoolRecord(r, t, ViewJobs')
<1> DEFINE q == [i \in DOMAIN ViewJobs |->
                   IF ViewJobs[i].id = b THEN [ViewJobs[i] EXCEPT !.cancelled = TRUE]
                   ELSE ViewJobs[i]]
<1>1. Pool!CancelMigration(PoolRecord(r, t, ViewJobs), b) = PoolRecord(r, t, q)
  BY CancelRecord
<1>2. ASSUME NEW i \in 1 .. Len(jobs) PROVE q[i] = ViewJob(jobs[i])'
  <2> DEFINE j == jobs[i]
  <2>0. i \in DOMAIN ViewJobs
    BY Zenon DEF ViewJobs
  <2>1. /\ j \in Queued /\ job[j].cancelled \in BOOLEAN /\ job[j].id \in BlockId
    BY Zenon, QueueFacts
  <2>2. /\ job'[j].id = job[j].id
        /\ job'[j].dst = job[j].dst
        /\ job'[j].done = job[j].done
        /\ job'[j].cancelled <=> (job[j].cancelled \/ j = migrating[b])
    BY Zenon, <2>1, CancelEffect DEF JobFrame
  <2>3. job'[j].cancelled \in BOOLEAN
    <3>1. j \in JobId /\ job[j] # Nil
      BY Zenon, <2>1, QueuedRecord DEF IndInv
    <3>2. JobFrame
      BY Zenon, CancelEffect
    <3>3. job'[j] \in MigrationJob
      BY Zenon, <3>1, <3>2 DEF JobFrame
    <3>4. QED
      BY <3>3 DEF MigrationJob
  <2>4. ViewJob(jobs[i])' = JobRecord(job'[j].id, TierOf[job'[j].dst], job'[j].done,
                                      job'[j].cancelled)
    BY Zenon DEF ViewJob
  <2>5. ViewJobs[i] = JobRecord(job[j].id, TierOf[job[j].dst], job[j].done,
                                job[j].cancelled)
    BY Zenon DEF ViewJob, ViewJobs
  <2>6. CASE job[j].id = b
    <3>1. job'[j].cancelled = TRUE
      BY Zenon, <2>1, <2>2, <2>3, <2>6 DEF IndInv, RebindIsSafe
    <3>2. [ViewJobs[i] EXCEPT !.cancelled = TRUE]
            = JobRecord(job[j].id, TierOf[job[j].dst], job[j].done, TRUE)
      <4> DEFINE x == TRUE
      <4> HIDE DEF x
      <4>1. [ViewJobs[i] EXCEPT !.cancelled = x]
              = JobRecord(job[j].id, TierOf[job[j].dst], job[j].done, x)
        BY <2>5 DEF JobRecord
      <4>2. QED
        BY <4>1 DEF x
    <3>3. ViewJobs[i].id = b
      BY Zenon, <2>6, ViewFacts
    <3>4. q[i] = [ViewJobs[i] EXCEPT !.cancelled = TRUE]
      BY Zenon, <2>0, <3>3
    <3>5. QED
      BY Zenon, <2>2, <2>4, <3>1, <3>2, <3>4
  <2>7. CASE job[j].id # b
    <3>1. j # migrating[b]
      <4>1. ASSUME j = migrating[b] PROVE FALSE
        BY Zenon, <2>1, <2>7, <4>1, QueuedType, NilFacts DEF IndInv, RebindIsSafe
      <4>2. QED
        BY <4>1
    <3>2. job'[j].cancelled = job[j].cancelled
      BY Zenon, <2>1, <2>2, <2>3, <3>1
    <3>3. ViewJobs[i].id # b
      BY Zenon, <2>7, ViewFacts
    <3>4. q[i] = ViewJobs[i]
      BY Zenon, <2>0, <3>3
    <3>5. QED
      BY Zenon, <2>2, <2>4, <2>5, <3>2, <3>4
  <2>8. QED
    BY <2>6, <2>7
<1>3. ViewJobs' = [i \in 1 .. Len(jobs) |-> ViewJob(jobs[i])']
  BY Zenon DEF ViewJobs, ViewJob
<1>4. q = ViewJobs'
  <2> HIDE DEF q
  <2>1. q = [i \in 1 .. Len(jobs) |-> q[i]]
    <3>1. DOMAIN ViewJobs = 1 .. Len(jobs)
      BY Zenon DEF ViewJobs
    <3>2. QED
      BY Zenon, <3>1 DEF q
  <2>2. QED
    BY Zenon, <1>2, <1>3, <2>1
<1>5. QED
  BY Zenon, <1>1, <1>4

\* allocate: a free compute slot and an id without references become a block.
LEMMA AllocateView ==
  ASSUME IndInv, NEW b \in BlockId, Allocate(b)
  PROVE  Pool!PoolCall(b)
<1>1. PICK s \in FreeIn(0) : location' = [location EXCEPT ![b] = s]
  BY Zenon DEF Allocate
<1>2. s \in Slot /\ TierOf[s] = 0
  BY Zenon, <1>1 DEF FreeIn
<1>3. refcount[b] = 0
  BY Zenon DEF Allocate, IndInv, IdsInv
<1>4. Pool!FreeSlots(View, 0) > 0
  BY Zenon, <1>1, SlotCount, PoolAssumption
<1>5. refcount' = [c \in BlockId |-> IF c = b THEN 1 ELSE refcount[c]]
  BY DEF Allocate, IndInv, TypeOK
<1>6. ViewTier' = ViewTier
  <2>1. \A c \in BlockId : c # b => location'[c] = location[c] /\ refcount'[c] = refcount[c]
    BY <1>1, <1>5 DEF IndInv, TypeOK
  <2>2. location'[b] = s
    BY <1>1 DEF IndInv, TypeOK
  <2>3. \A c \in BlockId : (IF Live(c) THEN TierOf[location[c]] ELSE 0)'
                             = IF Live(c) THEN TierOf[location[c]] ELSE 0
    BY <1>2, <1>3, <2>1, <2>2 DEF Live
  <2>4. QED
    BY Zenon, <2>3 DEF ViewTier
<1>7. ViewJobs' = ViewJobs
  BY Zenon, SameJobs DEF Allocate
<1>8. View' = Pool!AllocateAll(View, {b})
  <2>1. Pool!AllocateAll(View, {b})
          = PoolRecord([c \in BlockId |-> IF c = b THEN 1 ELSE refcount[c]],
                       ViewTier, ViewJobs)
    <3>1. DOMAIN refcount = BlockId
      BY Zenon, ViewFacts
    <3>2. QED
      BY <3>1, AllocateRecord DEF View
  <2>2. QED
    BY Zenon, <1>5, <1>6, <1>7, <2>1, ViewPrime
<1>9. View.refs[b] = 0
  BY Zenon, <1>3, ViewFacts
<1>10. QED
  BY Zenon, <1>4, <1>8, <1>9 DEF Pool!PoolCall

\* incref
LEMMA IncrefView ==
  ASSUME IndInv, NEW b \in BlockId, Incref(b)
  PROVE  Pool!PoolCall(b)
<1>1. refcount[b] > 0 /\ refcount[b] < MaxRefs
  BY MaxRefsType DEF Incref
<1>2. refcount' = [refcount EXCEPT ![b] = refcount[b] + 1]
  BY Zenon DEF Incref
<1>3. ViewTier' = ViewTier
  <2>1. \A c \in BlockId : Live(c)' <=> Live(c)
    BY <1>1, <1>2 DEF Live, IndInv, TypeOK
  <2>2. location' = location
    BY Zenon DEF Incref
  <2>3. QED
    BY Zenon, <2>1, <2>2 DEF ViewTier
<1>4. ViewJobs' = ViewJobs
  BY Zenon, SameJobs DEF Incref
<1>5. View' = Pool!Incref(View, b)
  <2>1. Pool!Incref(View, b)
          = PoolRecord([refcount EXCEPT ![b] = refcount[b] + 1], ViewTier, ViewJobs)
    BY IncrefRecord DEF View
  <2>2. QED
    BY Zenon, <1>2, <1>3, <1>4, <2>1, ViewPrime
<1>6. View.refs[b] > 0 /\ View.refs[b] < MaxRefs
  BY Zenon, <1>1, ViewFacts
<1>7. QED
  BY Zenon, <1>5, <1>6 DEF Pool!PoolCall

\* decref, with other references left and without.
LEMMA DecrefView ==
  ASSUME IndInv, NEW b \in BlockId, Decref(b)
  PROVE  Pool!PoolCall(b)
<1>1. View.refs[b] = refcount[b] /\ refcount[b] \in Nat
  BY ViewFacts, MaxRefsType DEF IndInv, TypeOK
<1>2. CASE DecrefShared(b)
  <2>1. refcount[b] > 1 /\ refcount' = [refcount EXCEPT ![b] = refcount[b] - 1]
    BY Zenon, <1>2 DEF DecrefShared
  <2>2. ViewTier' = ViewTier
    <3>1. \A c \in BlockId : Live(c)' <=> Live(c)
      BY <1>1, <2>1 DEF Live, IndInv, TypeOK
    <3>2. location' = location
      BY Zenon, <1>2 DEF DecrefShared
    <3>3. QED
      BY Zenon, <3>1, <3>2 DEF ViewTier
  <2>3. ViewJobs' = ViewJobs
    BY Zenon, <1>2, SameJobs DEF DecrefShared
  <2>4. Pool!Decref(View, b)
          = PoolRecord([refcount EXCEPT ![b] = refcount[b] - 1], ViewTier, ViewJobs)
    <3>1. refcount[b] > 1
      BY Zenon, <2>1
    <3>2. QED
      BY <3>1, DecrefSharedRecord DEF View
  <2>5. View' = Pool!Decref(View, b) /\ View.refs[b] > 0
    <3>1. View' = Pool!Decref(View, b)
      BY Zenon, <2>1, <2>2, <2>3, <2>4, ViewPrime
    <3>2. refcount[b] > 0
      BY <1>1, <2>1
    <3>3. QED
      BY Zenon, <1>1, <3>1, <3>2
  <2>6. QED
    BY Zenon, <2>5 DEF Pool!PoolCall
<1>3. CASE DecrefLast(b)
  <2>1. refcount[b] = 1 /\ refcount' = [refcount EXCEPT ![b] = 0] /\ jobs' = jobs
    BY Zenon, <1>3 DEF DecrefLast
  <2>2. ViewTier' = [ViewTier EXCEPT ![b] = 0]
    <3>1. location' = location
      BY Zenon, <1>3 DEF DecrefLast
    <3>2. ~Live(b)' /\ \A c \in BlockId : c # b => (Live(c)' <=> Live(c))
      BY <2>1 DEF Live, IndInv, TypeOK
    <3>3. QED
      BY <3>1, <3>2 DEF ViewTier
  <2>3. Pool!CancelMigration(View, b) = PoolRecord(refcount, ViewTier, ViewJobs')
    BY Zenon, <1>3, <2>1, CancelView DEF View, DecrefLast
  <2>4. Pool!Decref(View, b)
          = PoolRecord([refcount EXCEPT ![b] = 0], [ViewTier EXCEPT ![b] = 0], ViewJobs')
    <3>1. ~(refcount[b] > 1)
      BY <2>1
    <3>2. QED
      BY <2>3, <3>1, DecrefLastRecord DEF View
  <2>5. View' = Pool!Decref(View, b) /\ View.refs[b] > 0
    <3>1. View' = Pool!Decref(View, b)
      BY Zenon, <2>1, <2>2, <2>4, ViewPrime
    <3>2. refcount[b] > 0
      BY <2>1
    <3>3. QED
      BY Zenon, <1>1, <3>1, <3>2
  <2>6. QED
    BY Zenon, <2>5 DEF Pool!PoolCall
<1>4. QED
  BY <1>2, <1>3 DEF Decref

\* cancel_migration
LEMMA CancelMigrationView ==
  ASSUME IndInv, NEW b \in BlockId, CancelMigration(b)
  PROVE  Pool!PoolCall(b)
<1>1. refcount[b] > 0
  BY Zenon DEF CancelMigration, IndInv, RebindIsSafe, Live
<1>2. View' = Pool!CancelMigration(View, b)
  <2>1. refcount' = refcount /\ jobs' = jobs /\ ViewTier' = ViewTier
    BY Zenon, SameTier DEF CancelMigration
  <2>2. Pool!CancelMigration(View, b) = PoolRecord(refcount, ViewTier, ViewJobs')
    BY Zenon, <2>1, CancelView DEF View, CancelMigration
  <2>3. QED
    BY Zenon, <2>1, <2>2, ViewPrime
<1>3. View.refs[b] > 0
  BY Zenon, <1>1, ViewFacts
<1>4. QED
  BY Zenon, <1>2, <1>3 DEF Pool!PoolCall

\* migrate: it moves the block exactly when TierPool's arithmetic says it can.
LEMMA MigrateView ==
  ASSUME IndInv, NEW b \in BlockId, NEW t \in Tier, Migrate(b, t)
  PROVE  Pool!PoolCall(b)
<1>1. Live(b) /\ Cancel(b) /\ jobs' = jobs /\ refcount' = refcount
  BY Zenon DEF Migrate
<1>2. View.refs[b] > 0 /\ View.tier[b] = TierOf[location[b]]
      /\ ViewTier[b] = TierOf[location[b]]
  BY Zenon, <1>1, ViewFacts DEF Live
<1>3. Pool!CanMigrate(View, b, t) <=> TierOf[location[b]] = t \/ FreeIn(t) # {}
  BY Zenon, <1>2, SlotCount DEF Pool!CanMigrate
<1>4. Pool!Migrate(View, b, t)
        = IF Pool!CanMigrate(View, b, t)
          THEN PoolRecord(refcount, [ViewTier EXCEPT ![b] = t], ViewJobs')
          ELSE PoolRecord(refcount, ViewTier, ViewJobs')
  <2>1. Pool!CancelMigration(View, b) = PoolRecord(refcount, ViewTier, ViewJobs')
    BY Zenon, <1>1, CancelView DEF View
  <2>2. QED
    BY <2>1, MigrateRecord DEF View
<1>5. ASSUME location' = location, TierOf[location[b]] = t \/ FreeIn(t) = {}
      PROVE  View' = Pool!Migrate(View, b, t)
  <2>1. ViewTier' = ViewTier
    BY Zenon, <1>1, <1>5, SameTier
  <2>2. TierOf[location[b]] = t => [ViewTier EXCEPT ![b] = t] = ViewTier
    BY <1>2 DEF ViewTier
  <2>3. Pool!Migrate(View, b, t) = PoolRecord(refcount, ViewTier, ViewJobs')
    BY Zenon, <1>3, <1>4, <1>5, <2>2
  <2>4. QED
    BY Zenon, <1>1, <2>1, <2>3, ViewPrime
<1>6. ASSUME NEW s \in FreeIn(t), location' = [location EXCEPT ![b] = s]
      PROVE  View' = Pool!Migrate(View, b, t)
  <2>1. location' = [location EXCEPT ![b] = s]
    BY <1>6
  <2>2. s \in Slot /\ TierOf[s] = t
    BY Zenon, <2>1 DEF FreeIn
  <2>3. ViewTier' = [ViewTier EXCEPT ![b] = t]
    <3>1. /\ Live(b)'
          /\ location'[b] = s
          /\ \A c \in BlockId : (Live(c)' <=> Live(c))
          /\ \A c \in BlockId : c # b => location'[c] = location[c]
      BY <1>1, <2>1, <2>2 DEF Live, IndInv, TypeOK
    <3>2. QED
      BY <2>2, <3>1 DEF ViewTier
  <2>4. Pool!Migrate(View, b, t)
          = PoolRecord(refcount, [ViewTier EXCEPT ![b] = t], ViewJobs')
    BY Zenon, <1>3, <1>4
  <2>5. QED
    BY Zenon, <1>1, <2>3, <2>4, ViewPrime
<1>7. View' = Pool!Migrate(View, b, t)
  BY Zenon, <1>5, <1>6 DEF Migrate
<1>8. t \in DOMAIN TierSlots
  BY Zenon DEF TierSlots
<1>9. QED
  BY Zenon, <1>2, <1>7, <1>8 DEF Pool!PoolCall

\* migrate_async: the new job goes to the back of the queue.
LEMMA MigrateAsyncView ==
  ASSUME IndInv, NEW b \in BlockId, NEW t \in Tier, MigrateAsync(b, t)
  PROVE  Pool!PoolCall(b)
<1>1. PICK s \in FreeIn(t), j \in JobId :
         /\ job[j] = Nil
         /\ job' = [job EXCEPT ![j] = [id |-> b, src |-> location[b], dst |-> s,
                                       done |-> FALSE, cancelled |-> FALSE]]
         /\ jobs' = Append(jobs, j)
  BY Zenon DEF MigrateAsync
<1>2. /\ Live(b) /\ TierOf[location[b]] # t /\ migrating[b] = Nil
      /\ {t, TierOf[location[b]]} \subseteq HostTier
      /\ UNCHANGED <<refcount, location>>
  BY Zenon DEF MigrateAsync
<1>3. s \in Slot /\ TierOf[s] = t
  BY Zenon, <1>1 DEF FreeIn
<1>4. View.refs[b] > 0 /\ View.tier[b] = TierOf[location[b]]
  BY Zenon, <1>2, ViewFacts DEF Live
<1>5. ~Pool!Migrating(View, b)
  <2>1. ASSUME NEW i \in 1 .. Len(jobs), job[jobs[i]].id = b, ~job[jobs[i]].cancelled
        PROVE  FALSE
    BY Zenon, <1>2, <2>1, QueueFacts, NilFacts DEF IndInv, RebindIsSafe
  <2>2. ASSUME NEW i \in Pool!JobsOf(View, b) PROVE FALSE
    <3>1. i \in 1 .. Len(jobs) /\ ViewJobs[i].id = b /\ ~ViewJobs[i].cancelled
      BY Zenon, ViewFacts DEF Pool!JobsOf
    <3>2. QED
      BY Zenon, <2>1, <3>1, ViewFacts
  <2>3. QED
    BY Zenon, <2>2 DEF Pool!Migrating
<1>6. Pool!CanMigrateAsync(View, b, t)
  BY Zenon, <1>1, <1>2, <1>4, <1>5, SlotCount, ViewFacts DEF Pool!CanMigrateAsync
<1>7. ViewJobs' = Append(ViewJobs, NewJob(b, t))
  <2>1. /\ Len(jobs') = Len(jobs) + 1 /\ Len(jobs) \in Nat
        /\ jobs'[Len(jobs) + 1] = j
        /\ \A i \in 1 .. Len(jobs) : jobs'[i] = jobs[i]
    BY <1>1 DEF IndInv, TypeOK
  <2>2. ViewJob(j)' = NewJob(b, t)
    <3>1. job'[j] = [id |-> b, src |-> location[b], dst |-> s,
                     done |-> FALSE, cancelled |-> FALSE]
      BY Zenon, <1>1 DEF IndInv, TypeOK
    <3>2. job'[j].id = b /\ job'[j].dst = s /\ job'[j].done = FALSE
          /\ job'[j].cancelled = FALSE
      BY <3>1
    <3>3. QED
      BY Zenon, <1>3, <3>2 DEF ViewJob, NewJob
  <2>3. ASSUME NEW i \in 1 .. Len(jobs) PROVE ViewJob(jobs[i])' = ViewJobs[i]
    <3>1. jobs[i] # j /\ jobs[i] \in JobId
      BY Zenon, <1>1, QueueFacts, NilFacts
    <3>2. job'[jobs[i]] = job[jobs[i]] /\ jobs'[i] = jobs[i]
      BY Zenon, <1>1, <2>1, <3>1 DEF IndInv, TypeOK
    <3>3. QED
      BY Zenon, <3>2 DEF ViewJob, ViewJobs
  <2>4. QED
    <3> DEFINE v == [i \in 1 .. Len(jobs) + 1 |->
                       IF i = Len(jobs) + 1 THEN NewJob(b, t)
                       ELSE ViewJobs[i]]
    <3>1. ViewJobs' = v
      <4>1. \A i \in 1 .. Len(jobs) + 1 : ViewJob(jobs[i])' = v[i]
        BY <2>1, <2>2, <2>3 DEF ViewJob
      <4>2. QED
        BY Zenon, <2>1, <4>1 DEF ViewJobs
    <3>2. Append(ViewJobs, NewJob(b, t)) = v
      <4>1. Append([i \in 1 .. Len(jobs) |-> ViewJobs[i]], NewJob(b, t)) = v
        BY <2>1, AppendAsFunction
      <4>2. ViewJobs = [i \in 1 .. Len(jobs) |-> ViewJobs[i]]
        BY Zenon DEF ViewJobs
      <4>3. QED
        BY Zenon, <4>1, <4>2
    <3>3. QED
      BY Zenon, <3>1, <3>2
<1>8. View' = Pool!MigrateAsync(View, b, t)
  <2>1. Pool!MigrateAsync(View, b, t)
          = PoolRecord(refcount, ViewTier, Append(ViewJobs, NewJob(b, t)))
    BY MigrateAsyncRecord DEF View
  <2>2. QED
    BY Zenon, <1>2, <1>7, <2>1, ViewPrime, SameTier
<1>9. t \in DOMAIN TierSlots
  BY Zenon DEF TierSlots
<1>10. QED
  BY Zenon, <1>4, <1>6, <1>8, <1>9 DEF Pool!PoolCall
=============================================================================
