------------------------- MODULE BlockPoolViewProofs -------------------------
(***************************************************************************)
(* BlockPool implements TierPool: the workers' steps and drain_migrations  *)
(* as callers see them, and the refinement theorem.                        *)
(***************************************************************************)
EXTENDS BlockPoolViewCalls

------------------------------------------------------------------------------
(* The workers.                                                             *)

\* Every earlier job that is claimed and not done has a worker of its own, so
\* a worker that finishes job i has fewer than all the others before it.
LEMMA FinishAllowed ==
  ASSUME IndInv, NEW w \in Worker, wpc[w] # "wait", NEW i \in 1 .. next_unclaimed,
         jobs[i] = wjob[w], ~job[jobs[i]].done
  PROVE  i \in DOMAIN View.jobs /\ Pool!CanFinish(View, i, Cardinality(Worker))
<1> DEFINE D == {k \in 1 .. i - 1 : ~View.jobs[k].done}
           f == [k \in D |-> CHOOSE x \in Worker : wpc[x] # "wait" /\ wjob[x] = jobs[k]]
<1>1. i \in 1 .. Len(jobs) /\ \A k \in D : k \in 1 .. Len(jobs) /\ k <= next_unclaimed /\ k # i
  BY DEF IndInv, TypeOK, ClaimsAreExclusive
<1>2. \A k \in D : ~job[jobs[k]].done
  BY Zenon, <1>1, ViewFacts
<1>3. ASSUME NEW k \in D
      PROVE  f[k] \in Worker /\ wpc[f[k]] # "wait" /\ wjob[f[k]] = jobs[k]
  <2>1. \E x \in Worker : wpc[x] # "wait" /\ wjob[x] = jobs[k]
    BY Zenon, <1>1, <1>2 DEF IndInv, ClaimsAreExclusive
  <2>2. QED
    BY Zenon, <2>1
<1>4. f \in Injection(D, Worker \ {w})
  <2>1. f = [k \in D |-> f[k]]
    OBVIOUS
  <2> HIDE DEF D, f
  <2>2. \A k, l \in 1 .. Len(jobs) : jobs[k] = jobs[l] => k = l
    BY Zenon DEF IndInv, QueueInv
  <2>3. ASSUME NEW k \in D, f[k] = w PROVE FALSE
    <3>1. jobs[k] = jobs[i]
      BY Zenon, <1>3, <2>3
    <3>2. QED
      BY Zenon, <1>1, <2>2, <3>1
  <2>4. ASSUME NEW k \in D, NEW l \in D, f[k] = f[l] PROVE k = l
    <3>1. jobs[k] = jobs[l]
      BY Zenon, <1>3, <2>4
    <3>2. QED
      BY Zenon, <1>1, <2>2, <3>1
  <2>5. f \in [D -> Worker \ {w}]
    BY Zenon, <1>3, <2>1, <2>3
  <2>6. QED
    BY Zenon, <2>4, <2>5 DEF Injection, IsInjective
<1>5. /\ IsFiniteSet(Worker \ {w})
      /\ Cardinality(Worker \ {w}) = Cardinality(Worker) - 1
      /\ Cardinality(Worker) \in Nat
  BY Zenon, WorkerAssumption, FS_RemoveElement, FS_CardinalityType
<1>6. IsFiniteSet(D) /\ Cardinality(D) <= Cardinality(Worker \ {w})
  <2> HIDE DEF D, f
  <2>1. QED
    BY Zenon, <1>4, <1>5, FS_Injection
<1>7. Cardinality(D) \in Nat
  <2> HIDE DEF D
  <2>1. QED
    BY Zenon, <1>6, FS_CardinalityType
<1>8. Cardinality(D) < Cardinality(Worker)
  <2> HIDE DEF D
  <2>1. QED
    BY <1>5, <1>6, <1>7
<1>9. Pool!Cardinality(D) = Cardinality(D)
  BY Zenon, SameCardinality
<1>10. ~View.jobs[i].done /\ i \in DOMAIN View.jobs
  BY Zenon, <1>1, ViewFacts
<1>11. QED
  BY Zenon, <1>8, <1>9, <1>10 DEF Pool!CanFinish

\* What storing done makes of a pool record.
LEMMA FinishRecord ==
  ASSUME NEW r, NEW t, NEW q, NEW i
  PROVE  Pool!Finish(PoolRecord(r, t, q), i)
           = PoolRecord(r, t, [q EXCEPT ![i] = [q[i] EXCEPT !.done = TRUE]])
<1> DEFINE x == TRUE
<1> HIDE DEF x
<1>1. [PoolRecord(r, t, q) EXCEPT !.jobs[i].done = x]
        = PoolRecord(r, t, [q EXCEPT ![i] = [q[i] EXCEPT !.done = x]])
  BY DEF PoolRecord
<1>2. QED
  BY <1>1 DEF x, Pool!Finish

\* A worker that stores done finishes the job it holds; its other steps show
\* nothing to callers.
LEMMA WorkerView ==
  ASSUME IndInv, NEW w \in Worker, WorkerStep(w)
  PROVE  Pool!PoolNext \/ View' = View
<1>1. CASE Claim(w) \/ BeginCopy(w)
  BY Zenon, <1>1, SameView DEF Claim, BeginCopy, bookVars
<1>2. CASE SkipCopy(w) \/ EndCopy(w)
  <2>1. wpc[w] # "wait" /\ Finish(w) /\ UNCHANGED <<refcount, location, jobs>>
    BY <1>2 DEF SkipCopy, EndCopy, bookVars
  <2>2. PICK i \in 1 .. next_unclaimed : jobs[i] = wjob[w] /\ ~job[jobs[i]].done
    BY Zenon, <2>1 DEF IndInv, ClaimsAreExclusive
  <2>3. i \in 1 .. Len(jobs)
    BY <2>2 DEF IndInv, TypeOK, ClaimsAreExclusive
  <2>4. i \in DOMAIN View.jobs /\ Pool!CanFinish(View, i, Cardinality(Worker))
    BY Zenon, <2>1, <2>2, FinishAllowed
  <2> DEFINE z == JobRecord(job[jobs[i]].id, TierOf[job[jobs[i]].dst], TRUE,
                            job[jobs[i]].cancelled)
  <2>5. Pool!Finish(View, i) = PoolRecord(refcount, ViewTier, [ViewJobs EXCEPT ![i] = z])
    <3>1. ViewJobs[i] = JobRecord(job[jobs[i]].id, TierOf[job[jobs[i]].dst],
                                  job[jobs[i]].done, job[jobs[i]].cancelled)
      BY Zenon, <2>3 DEF ViewJobs, ViewJob
    <3>2. [ViewJobs[i] EXCEPT !.done = TRUE] = z
      <4> DEFINE x == TRUE
      <4> HIDE DEF x
      <4>1. [ViewJobs[i] EXCEPT !.done = x]
              = JobRecord(job[jobs[i]].id, TierOf[job[jobs[i]].dst], x,
                          job[jobs[i]].cancelled)
        BY <3>1 DEF JobRecord
      <4>2. QED
        BY <4>1 DEF x
    <3>3. Pool!Finish(View, i)
            = PoolRecord(refcount, ViewTier,
                         [ViewJobs EXCEPT ![i] = [ViewJobs[i] EXCEPT !.done = TRUE]])
      BY FinishRecord DEF View
    <3>4. QED
      <4> HIDE DEF z
      <4>1. QED
        BY Zenon, <3>2, <3>3
  <2>6. ViewJobs' = [ViewJobs EXCEPT ![i] = z]
    <3>1. job' = [job EXCEPT ![jobs[i]] = [job[jobs[i]] EXCEPT !.done = TRUE]]
      BY Zenon, <2>1, <2>2 DEF Finish
    <3>2. jobs[i] \in JobId /\ job[jobs[i]] \in MigrationJob
      BY Zenon, <2>3, QueueFacts
    <3>3. job'[jobs[i]] = [job[jobs[i]] EXCEPT !.done = TRUE]
      BY Zenon, <3>1, <3>2 DEF IndInv, TypeOK
    <3>4. /\ job'[jobs[i]].id = job[jobs[i]].id
          /\ job'[jobs[i]].dst = job[jobs[i]].dst
          /\ job'[jobs[i]].done = TRUE
          /\ job'[jobs[i]].cancelled = job[jobs[i]].cancelled
      BY Zenon, <3>2, <3>3 DEF MigrationJob
    <3>5. ViewJob(jobs[i])' = z
      BY Zenon, <2>1, <3>4 DEF ViewJob
    <3>6. ASSUME NEW k \in 1 .. Len(jobs), k # i PROVE ViewJob(jobs[k])' = ViewJobs[k]
      <4>1. jobs[k] # jobs[i] /\ jobs[k] \in JobId
        BY Zenon, <2>3, <3>6, QueueFacts DEF IndInv, QueueInv
      <4>2. job'[jobs[k]] = job[jobs[k]] /\ jobs' = jobs
        BY Zenon, <2>1, <3>1, <4>1 DEF IndInv, TypeOK
      <4>3. QED
        BY Zenon, <4>2 DEF ViewJob, ViewJobs
    <3> HIDE DEF z
    <3>7. ASSUME NEW k \in 1 .. Len(jobs)
          PROVE  ViewJob(jobs[k])' = [ViewJobs EXCEPT ![i] = z][k]
      BY Zenon, <3>5, <3>6 DEF ViewJobs
    <3>8. [ViewJobs EXCEPT ![i] = z]
            = [k \in 1 .. Len(jobs) |-> [ViewJobs EXCEPT ![i] = z][k]]
      BY Zenon DEF ViewJobs
    <3>9. ViewJobs' = [k \in 1 .. Len(jobs) |-> ViewJob(jobs[k])']
      BY Zenon, <2>1 DEF ViewJobs, ViewJob
    <3>10. QED
      BY Zenon, <3>7, <3>8, <3>9
  <2>7. View' = Pool!Finish(View, i)
    BY Zenon, <2>1, <2>5, <2>6, ViewPrime, SameTier
  <2>8. QED
    BY Zenon, <2>4, <2>7 DEF Pool!PoolNext
<1>3. QED
  BY <1>1, <1>2 DEF WorkerStep

------------------------------------------------------------------------------
(* drain_migrations.                                                        *)

\* The greatest member of a set of integers is the one TierPool's Max returns.
LEMMA GreatestIsMax ==
  ASSUME NEW S \in SUBSET Int, NEW n \in S, \A k \in S : k <= n
  PROVE  Pool!Max(S) = n
<1>1. \A k \in S : n >= k
  OBVIOUS
<1>2. \A x \in S : (\A k \in S : x >= k) => x = n
  OBVIOUS
<1>3. QED
  BY Zenon, <1>1, <1>2 DEF Pool!Max

\* The queue positions up to the first job that is not done.
LEMMA DoneCount ==
  ASSUME IndInv, NEW n \in 1 .. Len(jobs), DonePrefix(n)
  PROVE  Pool!Max({k \in 0 .. Len(View.jobs) : \A i \in 1 .. k : View.jobs[i].done}) = n
<1> DEFINE K == {k \in 0 .. Len(View.jobs) : \A i \in 1 .. k : View.jobs[i].done}
<1>1. Len(View.jobs) = Len(jobs) /\ Len(jobs) \in Nat
  <2>1. Len(jobs) \in Nat
    BY DEF IndInv, TypeOK
  <2>2. Len(ViewJobs) = Len(jobs)
    BY <2>1 DEF ViewJobs
  <2>3. QED
    BY Zenon, <2>1, <2>2, ViewFacts
<1>2. \A i \in 1 .. Len(jobs) : View.jobs[i].done = job[jobs[i]].done
  BY Zenon, ViewFacts
<1>3. n \in K
  BY <1>1, <1>2 DEF DonePrefix
<1>4. ASSUME NEW k \in K, k > n PROVE FALSE
  <2>1. n + 1 \in 1 .. k /\ n + 1 \in 1 .. Len(jobs) /\ n < Len(jobs)
    BY <1>1, <1>4
  <2>2. job[jobs[n + 1]].done
    BY Zenon, <1>2, <2>1
  <2>3. QED
    BY Zenon, <2>1, <2>2 DEF DonePrefix
<1>5. K \in SUBSET Int /\ \A k \in K : k <= n
  BY <1>1, <1>4
<1>6. QED
  BY Zenon, <1>3, <1>5, GreatestIsMax

\* What a drain that settles the first n jobs does to a pool.
LEMMA DrainRecord ==
  ASSUME IndInv, NEW n,
         n = Pool!Max({k \in 0 .. Len(View.jobs) : \A i \in 1 .. k : View.jobs[i].done})
  PROVE  Pool!Drain(View)
           = PoolRecord(refcount,
               [b \in BlockId |->
                  IF Pool!JobsOf(View, b) \cap 1 .. n = {} THEN ViewTier[b]
                  ELSE ViewJobs[Pool!Max(Pool!JobsOf(View, b) \cap 1 .. n)].dst],
               SubSeq(ViewJobs, n + 1, Len(ViewJobs)))
<1> DEFINE L(b) == Pool!JobsOf(View, b) \cap 1 .. n
           u == [b \in BlockId |-> IF L(b) = {} THEN ViewTier[b]
                                   ELSE ViewJobs[Pool!Max(L(b))].dst]
           v == SubSeq(ViewJobs, n + 1, Len(ViewJobs))
<1>1. /\ View.refs = refcount /\ View.tier = ViewTier /\ View.jobs = ViewJobs
      /\ Pool!Ids(View) = BlockId
  BY Zenon, ViewFacts
<1>2. ASSUME NEW x, NEW y
      PROVE  [View EXCEPT !.jobs = x, !.tier = y] = PoolRecord(refcount, y, x)
  <2>1. [View EXCEPT !.jobs = x] = PoolRecord(refcount, ViewTier, x)
    BY DEF View, PoolRecord
  <2>2. [PoolRecord(refcount, ViewTier, x) EXCEPT !.tier = y] = PoolRecord(refcount, y, x)
    BY DEF PoolRecord
  <2>3. QED
    BY <2>1, <2>2
<1>3. Pool!Drain(View) = [View EXCEPT !.jobs = v, !.tier = u]
  BY <1>1 DEF Pool!Drain
<1>4. QED
  <2> HIDE DEF u, v
  <2>1. Pool!Drain(View) = PoolRecord(refcount, u, v)
    BY Zenon, <1>2, <1>3
  <2>2. QED
    BY Zenon, <2>1 DEF u, v

\* The tail of a sequence given by a function.
LEMMA SubSeqAsFunction ==
  ASSUME NEW m \in Nat, NEW n \in 0 .. m, NEW f
  PROVE  SubSeq([i \in 1 .. m |-> f[i]], n + 1, m) = [i \in 1 .. m - n |-> f[n + i]]
  OBVIOUS

\* Only the uncancelled job of a live block moves it, to the tier it went to.
LEMMA DrainView ==
  ASSUME IndInv, DrainMigrations
  PROVE  View' = Pool!Drain(View)
<1>1. PICK n \in 1 .. Len(jobs) :
        LET F == {jobs[i] : i \in 1 .. n}
        IN  /\ DonePrefix(n)
            /\ jobs' = SubSeq(jobs, n + 1, Len(jobs))
            /\ location' = [b \in BlockId |->
                  IF Arrivals(F, b) = {} THEN location[b]
                  ELSE job[CHOOSE j \in Arrivals(F, b) : TRUE].dst]
            /\ job' = [j \in JobId |-> IF j \in F THEN Nil ELSE job[j]]
            /\ refcount' = refcount
  BY Zenon DEF DrainMigrations
<1> DEFINE F == {jobs[i] : i \in 1 .. n}
           landed(b) == Pool!JobsOf(View, b) \cap 1 .. n
           u == [b \in BlockId |-> IF landed(b) = {} THEN ViewTier[b]
                                   ELSE ViewJobs[Pool!Max(landed(b))].dst]
<1>2. Len(jobs) \in Nat /\ Len(ViewJobs) = Len(jobs)
  <2>1. Len(jobs) \in Nat
    BY DEF IndInv, TypeOK
  <2>2. QED
    BY <2>1 DEF ViewJobs
<1>3. Pool!Drain(View)
        = PoolRecord(refcount, u, SubSeq(ViewJobs, n + 1, Len(ViewJobs)))
  <2>1. n = Pool!Max({k \in 0 .. Len(View.jobs) : \A i \in 1 .. k : View.jobs[i].done})
    BY Zenon, <1>1, DoneCount
  <2>2. QED
    BY Zenon, <2>1, DrainRecord
<1>4. ViewJobs' = SubSeq(ViewJobs, n + 1, Len(ViewJobs))
  <2>1. /\ Len(jobs') = Len(jobs) - n
        /\ \A i \in 1 .. Len(jobs) - n : /\ jobs'[i] = jobs[n + i]
                                         /\ n + i \in 1 .. Len(jobs)
                                         /\ n + i \notin 1 .. n
    BY <1>1, <1>2 DEF IndInv, TypeOK
  <2>2. ASSUME NEW i \in 1 .. Len(jobs) - n PROVE ViewJob(jobs[i])' = ViewJobs[n + i]
    <3>1. jobs[n + i] \notin F /\ jobs[n + i] \in JobId
      <4>1. jobs[n + i] \in JobId
        BY Zenon, <2>1, QueueFacts
      <4>2. ASSUME NEW k \in 1 .. n, jobs[k] = jobs[n + i] PROVE FALSE
        <5>1. k \in 1 .. Len(jobs)
          BY <1>2
        <5>2. k = n + i
          BY Zenon, <2>1, <4>2, <5>1 DEF IndInv, QueueInv
        <5>3. QED
          BY Zenon, <2>1, <5>2
      <4>3. QED
        BY Zenon, <4>1, <4>2
    <3>2. job'[jobs[n + i]] = job[jobs[n + i]]
      BY Zenon, <1>1, <3>1
    <3>3. QED
      BY Zenon, <2>1, <3>2 DEF ViewJob, ViewJobs
  <2>3. ViewJobs' = [i \in 1 .. Len(jobs) - n |-> ViewJobs[n + i]]
    BY Zenon, <2>1, <2>2 DEF ViewJobs
  <2>4. SubSeq([i \in 1 .. Len(jobs) |-> ViewJobs[i]], n + 1, Len(jobs))
          = [i \in 1 .. Len(jobs) - n |-> ViewJobs[n + i]]
    BY <1>2, SubSeqAsFunction
  <2>5. ViewJobs = [i \in 1 .. Len(jobs) |-> ViewJobs[i]]
    BY Zenon DEF ViewJobs
  <2>6. QED
    BY Zenon, <1>2, <2>3, <2>4, <2>5
<1>5. ASSUME NEW b \in BlockId
      PROVE  (IF Live(b) THEN TierOf[location[b]] ELSE 0)'
               = IF landed(b) = {} THEN ViewTier[b] ELSE ViewJobs[Pool!Max(landed(b))].dst
  <2>1. /\ \A j \in F : j \in Queued
        /\ migrating[b] \in F => Arrivals(F, b) = {migrating[b]}
        /\ migrating[b] \notin F => Arrivals(F, b) = {}
    BY Zenon, <1>1, DrainArrivals
  <2>2. ASSUME NEW i \in landed(b)
        PROVE  i \in 1 .. n /\ i \in 1 .. Len(jobs) /\ jobs[i] = migrating[b] /\ Live(b)
               /\ migrating[b] \in F
    <3>1. i \in 1 .. n /\ i \in 1 .. Len(jobs) /\ ViewJobs[i].id = b /\ ~ViewJobs[i].cancelled
      BY Zenon, ViewFacts DEF Pool!JobsOf
    <3>2. job[jobs[i]].id = b /\ ~job[jobs[i]].cancelled /\ jobs[i] \in Queued
      BY Zenon, <3>1, ViewFacts, QueueFacts
    <3>3. jobs[i] = migrating[b] /\ Live(b)
      BY Zenon, <3>2 DEF IndInv, RebindIsSafe
    <3>4. QED
      BY Zenon, <3>1, <3>3
  <2>3. refcount' = refcount /\ (Live(b)' <=> Live(b))
    BY Zenon, <1>1 DEF Live
  <2>4. CASE migrating[b] \in F
    <3>1. PICK i \in 1 .. n : jobs[i] = migrating[b]
      BY Zenon, <2>4
    <3>2. i \in 1 .. Len(jobs) /\ i \in Int
      BY <1>2, <3>1
    <3>3. /\ job[jobs[i]].id = b /\ ~job[jobs[i]].cancelled
      BY Zenon, <2>1, <2>4, <3>1, NilFacts, QueuedType DEF IndInv, RebindIsSafe
    <3>4. i \in landed(b)
      BY Zenon, <3>1, <3>2, <3>3, ViewFacts DEF Pool!JobsOf
    <3>5. \A k \in landed(b) : k = i
      BY Zenon, <2>2, <3>1, <3>2 DEF IndInv, QueueInv
    <3>6. Pool!Max(landed(b)) = i
      <4> DEFINE S == landed(b)
      <4>1. i \in S /\ \A k \in S : k = i
        BY Zenon, <3>4, <3>5
      <4> HIDE DEF S
      <4>2. S \in SUBSET Int /\ \A k \in S : k <= i
        BY <3>2, <4>1
      <4>3. Pool!Max(S) = i
        BY Zenon, <4>1, <4>2, GreatestIsMax
      <4>4. QED
        BY Zenon, <4>3 DEF S
    <3>7. ViewJobs[i].dst = TierOf[job[migrating[b]].dst]
      BY Zenon, <3>1, <3>2, ViewFacts
    <3>8. (CHOOSE j \in Arrivals(F, b) : TRUE) = migrating[b]
      BY Zenon, <2>1, <2>4
    <3>9. location'[b] = job[migrating[b]].dst
      BY Zenon, <1>1, <2>1, <2>4, <3>8
    <3>10. Live(b)' /\ landed(b) # {}
      BY Zenon, <2>2, <2>3, <3>4
    <3>11. QED
      BY Zenon, <3>6, <3>7, <3>9, <3>10
  <2>5. CASE migrating[b] \notin F
    <3>1. landed(b) = {}
      BY Zenon, <2>2, <2>5
    <3>2. location'[b] = location[b]
      BY Zenon, <1>1, <2>1, <2>5
    <3>3. QED
      BY Zenon, <2>3, <3>1, <3>2 DEF ViewTier
  <2>6. QED
    BY <2>4, <2>5
<1>6. ViewTier' = u
  BY Zenon, <1>5 DEF ViewTier
<1>7. QED
  BY Zenon, <1>1, <1>3, <1>4, <1>6, ViewPrime

------------------------------------------------------------------------------
(* Every step of the pool is a step of TierPool, or shows callers nothing.  *)
LEMMA StepView == IndInv /\ [Next]_vars => [Pool!PoolNext]_View
<1> SUFFICES ASSUME IndInv, [Next]_vars PROVE Pool!PoolNext \/ View' = View
  BY Zenon
<1>1. CASE UNCHANGED vars
  BY Zenon, <1>1, SameView DEF vars
<1>2. ASSUME NEW b \in BlockId, Pool!PoolCall(b) PROVE Pool!PoolNext
  BY Zenon, <1>2 DEF Pool!PoolNext
<1>3. ASSUME NEW b \in BlockId, Allocate(b) \/ Incref(b) \/ Decref(b) \/ CancelMigration(b)
      PROVE  Pool!PoolNext
  BY Zenon, <1>2, <1>3, AllocateView, IncrefView, DecrefView, CancelMigrationView
<1>4. ASSUME NEW b \in BlockId, NEW t \in Tier, Migrate(b, t) \/ MigrateAsync(b, t)
      PROVE  Pool!PoolNext
  BY Zenon, <1>2, <1>4, MigrateView, MigrateAsyncView
<1>5. ASSUME NEW b \in BlockId, NEW v \in Value, WriteBlock(b, v)
      PROVE  View' = View
  BY Zenon, <1>5, SameView DEF WriteBlock, bookVars
<1>6. ASSUME DrainMigrations PROVE Pool!PoolNext
  BY Zenon, <1>6, DrainView DEF Pool!PoolNext
<1>7. ASSUME NEW w \in Worker, WorkerStep(w) PROVE Pool!PoolNext \/ View' = View
  BY Zenon, <1>7, WorkerView
<1>8. QED
  BY Zenon, <1>1, <1>3, <1>4, <1>5, <1>6, <1>7 DEF Next

(* Whatever the slots, the workers and the calls: what callers see of the    *)
(* pool is TierPool, whose free counts are arithmetic on live blocks and     *)
(* queued copies.  CacheManager's counting in acquire() and maintain() rests *)
(* on it.                                                                   *)
THEOREM PoolImplementsTierPool == Spec => ImplementsTierPool
<1>1. Init => Pool!PoolInit
  BY TierInitial
<1>2. IndInv /\ [Next]_vars => [Pool!PoolNext]_View
  BY StepView
<1>3. QED
  BY <1>1, <1>2, Invariance, PTL DEF Spec, ImplementsTierPool, Pool!PoolSpec
=============================================================================
