------------------------- MODULE BlockPoolInvariant -------------------------
(***************************************************************************)
(* The inductive invariant of BlockPool, and that it holds at the start and *)
(* is kept by the scheduler thread's calls that do not touch the queue.     *)
(***************************************************************************)
EXTENDS BlockPool, TLAPS

------------------------------------------------------------------------------
(* The inductive invariant, by parts.                                       *)

\* Free ids are the ids without references.
IdsInv == \A b \in BlockId : b \in free_ids <=> refcount[b] = 0

\* A job is on the heap exactly while it is queued, and queued only once.
QueueInv ==
    /\ \A i, k \in 1 .. Len(jobs) : jobs[i] = jobs[k] => i = k
    /\ \A j \in JobId : job[j] # Nil <=> j \in Queued

\* No slot is on a free list twice, and one that is has no other owner.
FreeInv ==
    /\ \A s \in Slot : free_slots[s] \in {0, 1}
    /\ \A b \in BlockId : Live(b) => free_slots[location[b]] = 0
    /\ \A j \in Queued : free_slots[job[j].dst] = 0

\* Blocks and queued jobs never share a slot.
DisjointInv ==
    /\ \A b, c \in BlockId : Live(b) /\ Live(c) /\ location[b] = location[c] => b = c
    /\ \A j, k \in Queued : job[j].dst = job[k].dst => j = k
    /\ \A b \in BlockId, j \in Queued : Live(b) => location[b] # job[j].dst

\* A slot that is not free has an owner.
NoLeakInv ==
    \A s \in Slot :
        free_slots[s] = 0 => \/ \E b \in BlockId : Live(b) /\ location[b] = s
                             \/ \E j \in Queued : job[j].dst = s

\* An uncancelled copy is faithful: finished, its destination equals its
\* source; under way, the source still holds what the worker began with.
CopyInv ==
    /\ \A j \in Queued :
          job[j].done /\ ~job[j].cancelled => mem[job[j].dst] = mem[job[j].src]
    /\ \A w \in Worker :
          wpc[w] = "copying" /\ ~job[wjob[w]].cancelled
             => wread[w] = mem[job[wjob[w]].src]

IndInv ==
    /\ TypeOK
    /\ IdsInv
    /\ QueueInv
    /\ RebindIsSafe
    /\ FreeInv
    /\ DisjointInv
    /\ NoLeakInv
    /\ ClaimsAreExclusive
    /\ CopyInv

------------------------------------------------------------------------------
\* Nil, the null job pointer, is neither a job nor a job record.
LEMMA NilFacts == Nil \notin JobId /\ Nil \notin MigrationJob
  BY Zenon, PoolAssumption

\* The bound on reference counts admits one reference.
LEMMA MaxRefsType == MaxRefs \in Nat \ {0}
  BY Zenon, PoolAssumption

\* What is queued are jobs.
LEMMA QueuedType == ASSUME TypeOK PROVE Queued \subseteq JobId
  BY DEF TypeOK, Queued

\* The jobs queued have records on the heap.
LEMMA QueuedRecord ==
  ASSUME TypeOK, QueueInv, NEW j \in Queued
  PROVE  j \in JobId /\ job[j] \in MigrationJob /\ job[j] # Nil
  BY Zenon, QueuedType DEF TypeOK, QueueInv

\* A freshly made pool satisfies the invariant.
LEMMA InitInv == Init => IndInv
<1> SUFFICES ASSUME Init PROVE IndInv
  OBVIOUS
<1>1. TypeOK
  BY PoolAssumption DEF Init, TypeOK, Bytes
<1>2. Len(jobs) = 0 /\ Queued = {}
  BY DEF Init, Queued
<1>3. QED
  BY <1>1, <1>2 DEF Init, IndInv, IdsInv, QueueInv, RebindIsSafe, FreeInv, Live,
     DisjointInv, NoLeakInv, ClaimsAreExclusive, CopyInv

------------------------------------------------------------------------------
(* Facts used by several steps.                                             *)

\* A worker that is not waiting holds a queued job that is not done.
LEMMA HeldJob ==
  ASSUME TypeOK, ClaimsAreExclusive, NEW w \in Worker, wpc[w] # "wait"
  PROVE  wjob[w] \in Queued /\ ~job[wjob[w]].done
<1>1. PICK i \in 1 .. next_unclaimed : jobs[i] = wjob[w] /\ ~job[jobs[i]].done
  BY Zenon DEF ClaimsAreExclusive
<1>2. i \in 1 .. Len(jobs)
  BY <1>1 DEF ClaimsAreExclusive, TypeOK
<1>3. QED
  BY Zenon, <1>1, <1>2 DEF Queued

\* What a step on the job records leaves alone.
JobFrame ==
    /\ job' \in [JobId -> MigrationJob \cup {Nil}]
    /\ \A j \in JobId : job'[j] # Nil <=> job[j] # Nil
    /\ \A j \in Queued : /\ job'[j].id = job[j].id
                         /\ job'[j].src = job[j].src
                         /\ job'[j].dst = job[j].dst

\* cancel_migration sets one cancelled flag and forgets one map entry.
LEMMA CancelEffect ==
  ASSUME IndInv, NEW b \in BlockId, Cancel(b)
  PROVE  /\ JobFrame
         /\ \A j \in Queued : job'[j].done = job[j].done
         /\ \A j \in Queued :
               job'[j].cancelled <=> (job[j].cancelled \/ j = migrating[b])
         /\ migrating' \in [BlockId -> JobId \cup {Nil}]
         /\ \A c \in BlockId : migrating'[c] = IF c = b THEN Nil ELSE migrating[c]
<1> USE DEF IndInv
<1>1. \A j \in Queued : j \in JobId /\ job[j] \in MigrationJob /\ job[j] # Nil
  BY Zenon, QueuedRecord
<1>2. /\ migrating' \in [BlockId -> JobId \cup {Nil}]
      /\ \A c \in BlockId : migrating'[c] = IF c = b THEN Nil ELSE migrating[c]
  BY Zenon DEF Cancel, TypeOK
<1>3. CASE migrating[b] = Nil
  BY <1>1, <1>2, <1>3, NilFacts DEF Cancel, TypeOK, JobFrame
<1>4. CASE migrating[b] # Nil
  <2> DEFINE m == migrating[b]
  <2>1. m \in Queued /\ m \in JobId /\ job[m] \in MigrationJob
    BY Zenon, <1>1, <1>4 DEF RebindIsSafe
  <2>2. job' = [job EXCEPT ![m] = [job[m] EXCEPT !.cancelled = TRUE]]
    BY Zenon, <1>4 DEF Cancel
  <2>3. [job[m] EXCEPT !.cancelled = TRUE] \in MigrationJob
    BY Zenon, <2>1 DEF MigrationJob
  <2>4. /\ job'[m].id = job[m].id
        /\ job'[m].src = job[m].src
        /\ job'[m].dst = job[m].dst
        /\ job'[m].done = job[m].done
        /\ job'[m].cancelled = TRUE
    BY Zenon, <2>1, <2>2 DEF TypeOK, MigrationJob
  <2>5. \A j \in JobId : j # m => job'[j] = job[j]
    BY Zenon, <2>2 DEF TypeOK
  <2>6. JobFrame
    <3>1. job' \in [JobId -> MigrationJob \cup {Nil}]
      BY Zenon, <2>2, <2>3 DEF TypeOK
    <3>2. job'[m] # Nil
      BY Zenon, <2>1, <2>2, <2>3, NilFacts DEF TypeOK
    <3>3. QED
      BY Zenon, <1>1, <2>1, <2>4, <2>5, <3>1, <3>2 DEF JobFrame
  <2>7. QED
    BY Zenon, <1>1, <1>2, <2>1, <2>4, <2>5, <2>6
<1>5. QED
  BY Zenon, <1>3, <1>4

\* Storing done sets one done flag and sends one worker back to wait.
LEMMA FinishEffect ==
  ASSUME IndInv, NEW w \in Worker, wpc[w] # "wait", Finish(w)
  PROVE  /\ JobFrame
         /\ wjob[w] \in Queued
         /\ ~job[wjob[w]].done
         /\ \A j \in Queued : job'[j].done <=> (job[j].done \/ j = wjob[w])
         /\ \A j \in Queued : job'[j].cancelled = job[j].cancelled
         /\ wpc' \in [Worker -> {"wait", "claimed", "copying"}]
         /\ wjob' \in [Worker -> JobId \cup {Nil}]
         /\ wread' \in [Worker -> Bytes]
         /\ wpc'[w] = "wait"
         /\ \A x \in Worker \ {w} : /\ wpc'[x] = wpc[x]
                                    /\ wjob'[x] = wjob[x]
                                    /\ wread'[x] = wread[x]
<1> USE DEF IndInv
<1> DEFINE m == wjob[w]
<1>1. \A j \in Queued : j \in JobId /\ job[j] \in MigrationJob /\ job[j] # Nil
  BY Zenon, QueuedRecord
<1>2. m \in Queued /\ ~job[m].done
  BY Zenon, HeldJob
<1>3. job' = [job EXCEPT ![m] = [job[m] EXCEPT !.done = TRUE]]
  BY Zenon DEF Finish
<1>4. [job[m] EXCEPT !.done = TRUE] \in MigrationJob
  BY Zenon, <1>1, <1>2 DEF MigrationJob
<1>5. /\ job'[m].id = job[m].id
      /\ job'[m].src = job[m].src
      /\ job'[m].dst = job[m].dst
      /\ job'[m].cancelled = job[m].cancelled
      /\ job'[m].done = TRUE
  BY <1>1, <1>2, <1>3 DEF TypeOK, MigrationJob
<1>6. \A j \in JobId : j # m => job'[j] = job[j]
  BY Zenon, <1>3 DEF TypeOK
<1>7. JobFrame
  <2>1. job' \in [JobId -> MigrationJob \cup {Nil}]
    BY Zenon, <1>3, <1>4 DEF TypeOK
  <2>2. job'[m] # Nil
    BY Zenon, <1>1, <1>2, <1>3, <1>4, NilFacts DEF TypeOK
  <2>3. QED
    BY Zenon, <1>1, <1>2, <1>5, <1>6, <2>1, <2>2 DEF JobFrame
<1>8. /\ \A j \in Queued : job'[j].done <=> (job[j].done \/ j = m)
      /\ \A j \in Queued : job'[j].cancelled = job[j].cancelled
  BY Zenon, <1>1, <1>2, <1>5, <1>6
<1>9. QED
  BY Zenon, <1>2, <1>7, <1>8 DEF Finish, TypeOK, Bytes

\* Claims depend on the queue, the workers and the done flags only.
LEMMA ClaimsFrame ==
  ASSUME TypeOK, ClaimsAreExclusive,
         UNCHANGED <<jobs, next_unclaimed, wpc, wjob>>,
         \A j \in Queued : job'[j].done = job[j].done
  PROVE  ClaimsAreExclusive'
<1>1. next_unclaimed <= Len(jobs) /\ Len(jobs) \in Nat /\ next_unclaimed \in Nat
  BY DEF ClaimsAreExclusive, TypeOK
<1>2. \A i \in 1 .. Len(jobs) : job'[jobs[i]].done = job[jobs[i]].done
  BY Zenon DEF Queued
<1>3. \A i \in 1 .. next_unclaimed : job'[jobs[i]].done = job[jobs[i]].done
  BY <1>1, <1>2
<1>4. \A w \in Worker :
         wpc'[w] # "wait" => \E i \in 1 .. next_unclaimed' :
                                jobs'[i] = wjob'[w] /\ ~job'[jobs'[i]].done
  BY Zenon, <1>3 DEF ClaimsAreExclusive
<1>5. \A i \in 1 .. Len(jobs') :
         IF i <= next_unclaimed'
         THEN job'[jobs'[i]].done
              \/ \E w \in Worker : wpc'[w] # "wait" /\ wjob'[w] = jobs'[i]
         ELSE ~job'[jobs'[i]].done
  BY Zenon, <1>2 DEF ClaimsAreExclusive
<1>6. QED
  BY Zenon, <1>4, <1>5 DEF ClaimsAreExclusive

------------------------------------------------------------------------------
(* Each action preserves the invariant.                                     *)

\* allocate takes one free id and one free slot and binds them.
LEMMA AllocateInv ==
  ASSUME IndInv, NEW b \in BlockId, Allocate(b)
  PROVE  IndInv'
<1> USE DEF IndInv
<1>0. PICK s \in FreeIn(0) :
         /\ free_slots' = [free_slots EXCEPT ![s] = @ - 1]
         /\ location' = [location EXCEPT ![b] = s]
  BY Zenon DEF Allocate
<1>1. s \in Slot /\ free_slots[s] = 1 /\ ~Live(b)
  BY <1>0 DEF Allocate, FreeIn, FreeInv, IdsInv, Live, TypeOK
<1>2. /\ Queued' = Queued
      /\ job' = job
      /\ \A j \in Queued : j \in JobId /\ job[j] \in MigrationJob /\ job[j] # Nil
  BY QueuedRecord DEF Allocate, Queued
<1>3. TypeOK'
  BY <1>0, <1>1, MaxRefsType DEF Allocate, TypeOK, workerVars
<1>4. IdsInv' /\ QueueInv'
  BY <1>2 DEF Allocate, TypeOK, IdsInv, QueueInv
<1>5. \A c \in BlockId : /\ Live(c)' <=> (Live(c) \/ c = b)
                         /\ location'[c] = IF c = b THEN s ELSE location[c]
  BY <1>0 DEF Allocate, TypeOK, Live
<1>6. \A r \in Slot : free_slots'[r] = IF r = s THEN 0 ELSE free_slots[r]
  BY <1>0, <1>1 DEF TypeOK
<1>7. RebindIsSafe'
  BY <1>1, <1>2, <1>5 DEF Allocate, RebindIsSafe, MigrationJob
<1>8. FreeInv' /\ DisjointInv'
  <2>1. /\ \A c \in BlockId : Live(c) => location[c] \in Slot /\ location[c] # s
        /\ \A j \in Queued : job[j].dst \in Slot /\ job[j].dst # s
    BY <1>1, <1>2 DEF FreeInv, TypeOK, MigrationJob
  <2>2. FreeInv'
    BY <1>1, <1>2, <1>5, <1>6, <2>1 DEF FreeInv
  <2>3. DisjointInv'
    BY <1>1, <1>2, <1>5, <2>1 DEF DisjointInv
  <2>4. QED
    BY Zenon, <2>2, <2>3
<1>9. NoLeakInv'
  BY <1>1, <1>2, <1>5, <1>6 DEF NoLeakInv
<1>10. ClaimsAreExclusive' /\ CopyInv'
  BY <1>2 DEF Allocate, ClaimsAreExclusive, CopyInv, workerVars
<1>11. QED
  BY Zenon, <1>3, <1>4, <1>7, <1>8, <1>9, <1>10

\* Taking or dropping a reference that is not the last changes no owner.
LEMMA IncrefInv ==
  ASSUME IndInv, NEW b \in BlockId, Incref(b) \/ DecrefShared(b)
  PROVE  IndInv'
<1> USE DEF IndInv
<1>1. TypeOK'
  <2>1. refcount' \in [BlockId -> 0 .. MaxRefs]
    <3>1. CASE Incref(b)
      BY <3>1, MaxRefsType DEF Incref, TypeOK
    <3>2. CASE DecrefShared(b)
      BY <3>2, MaxRefsType DEF DecrefShared, TypeOK
    <3>3. QED
      BY <3>1, <3>2
  <2>2. UNCHANGED <<free_ids, location, free_slots, job, jobs, next_unclaimed,
                    migrating, wpc, wjob, wread, mem>>
    BY Zenon DEF Incref, DecrefShared, workerVars
  <2>3. QED
    BY Zenon, <2>1, <2>2 DEF TypeOK, Bytes
<1>2. /\ Queued' = Queued
      /\ \A c \in BlockId : /\ Live(c)' <=> Live(c)
                            /\ refcount'[c] = 0 <=> refcount[c] = 0
  BY DEF Incref, DecrefShared, TypeOK, Queued, Live
<1>3. UNCHANGED <<free_ids, location, free_slots, job, jobs, next_unclaimed,
                  migrating, wpc, wjob, wread, mem>>
  BY Zenon DEF Incref, DecrefShared, workerVars
<1>4. IdsInv' /\ QueueInv' /\ FreeInv' /\ DisjointInv' /\ ClaimsAreExclusive' /\ CopyInv'
  BY <1>2, <1>3 DEF IdsInv, QueueInv, FreeInv, DisjointInv, ClaimsAreExclusive, CopyInv
<1>5. RebindIsSafe'
  BY Zenon, <1>2, <1>3, QueuedRecord DEF RebindIsSafe, MigrationJob
<1>6. NoLeakInv'
  BY Zenon, <1>2, <1>3 DEF NoLeakInv
<1>7. QED
  BY Zenon, <1>1, <1>4, <1>5, <1>6

\* cancel_migration leaves the job its slot, and the block its own.
LEMMA CancelMigrationInv ==
  ASSUME IndInv, NEW b \in BlockId, CancelMigration(b)
  PROVE  IndInv'
<1> USE DEF IndInv
<1>1. UNCHANGED <<free_ids, refcount, location, free_slots, jobs,
                  next_unclaimed, wpc, wjob, wread, mem>>
  BY Zenon DEF CancelMigration, workerVars
<1>2. /\ JobFrame
      /\ \A j \in Queued : job'[j].done = job[j].done
      /\ \A j \in Queued :
            job'[j].cancelled <=> (job[j].cancelled \/ j = migrating[b])
      /\ migrating' \in [BlockId -> JobId \cup {Nil}]
      /\ \A c \in BlockId : migrating'[c] = IF c = b THEN Nil ELSE migrating[c]
  BY Zenon, CancelEffect DEF CancelMigration
<1>3. Queued' = Queued /\ \A c \in BlockId : Live(c)' <=> Live(c)
  BY Zenon, <1>1 DEF Queued, Live
<1>4. \A j \in Queued : j \in JobId /\ job[j] \in MigrationJob /\ job[j] # Nil
  BY Zenon, QueuedRecord
<1>5. TypeOK' /\ IdsInv'
  BY Zenon, <1>1, <1>2 DEF TypeOK, IdsInv, JobFrame
<1>6. QueueInv' /\ FreeInv' /\ DisjointInv'
  BY <1>1, <1>2, <1>3, <1>4 DEF QueueInv, FreeInv, DisjointInv, JobFrame
<1>7. RebindIsSafe'
  BY <1>1, <1>2, <1>3, <1>4 DEF RebindIsSafe, JobFrame, MigrationJob
<1>8. NoLeakInv'
  BY <1>1, <1>2, <1>3 DEF NoLeakInv, JobFrame
<1>9. ClaimsAreExclusive'
  BY Zenon, <1>1, <1>2, ClaimsFrame
<1>10. CopyInv'
  BY <1>1, <1>2, <1>3, HeldJob DEF CopyInv, JobFrame
<1>11. QED
  BY Zenon, <1>5, <1>6, <1>7, <1>8, <1>9, <1>10

\* The last decref cancels the migration and frees the id and the slot.
LEMMA DecrefLastInv ==
  ASSUME IndInv, NEW b \in BlockId, DecrefLast(b)
  PROVE  IndInv'
<1> USE DEF IndInv
<1>1. /\ UNCHANGED <<location, jobs, next_unclaimed, wpc, wjob, wread, mem>>
      /\ refcount[b] = 1
      /\ refcount' = [refcount EXCEPT ![b] = 0]
      /\ free_slots' = [free_slots EXCEPT ![location[b]] = @ + 1]
      /\ free_ids' = free_ids \cup {b}
  BY Zenon DEF DecrefLast, workerVars
<1>2. /\ JobFrame
      /\ \A j \in Queued : job'[j].done = job[j].done
      /\ \A j \in Queued :
            job'[j].cancelled <=> (job[j].cancelled \/ j = migrating[b])
      /\ migrating' \in [BlockId -> JobId \cup {Nil}]
      /\ \A c \in BlockId : migrating'[c] = IF c = b THEN Nil ELSE migrating[c]
  BY Zenon, CancelEffect DEF DecrefLast
<1>3. /\ Queued' = Queued
      /\ Live(b)
      /\ \A c \in BlockId : Live(c)' <=> (Live(c) /\ c # b)
  BY <1>1 DEF Queued, Live, TypeOK
<1>4. \A j \in Queued : j \in JobId /\ job[j] \in MigrationJob /\ job[j] # Nil
  BY Zenon, QueuedRecord
<1>5. TypeOK' /\ IdsInv'
  <2>1. location[b] \in Slot /\ free_slots' \in [Slot -> Nat]
    BY <1>1 DEF TypeOK
  <2>2. refcount' \in [BlockId -> 0 .. MaxRefs] /\ free_ids' \subseteq BlockId
    BY <1>1, MaxRefsType DEF TypeOK
  <2>3. IdsInv'
    BY Zenon, <1>1 DEF TypeOK, IdsInv
  <2>4. QED
    BY Zenon, <1>1, <1>2, <2>1, <2>2, <2>3 DEF TypeOK, JobFrame
<1>6. /\ location[b] \in Slot
      /\ free_slots[location[b]] = 0
      /\ \A s \in Slot :
            free_slots'[s] = IF s = location[b] THEN 1 ELSE free_slots[s]
  BY <1>1, <1>3 DEF TypeOK, FreeInv
<1>7. QueueInv'
  BY Zenon, <1>1, <1>2, <1>3, <1>4 DEF QueueInv, JobFrame
<1>8. FreeInv'
  <2>1. /\ \A c \in BlockId : Live(c)' => location[c] \in Slot \ {location[b]}
        /\ \A j \in Queued : job[j].dst \in Slot \ {location[b]}
    BY Zenon, <1>3, <1>4 DEF DisjointInv, TypeOK, MigrationJob
  <2>2. QED
    BY <1>1, <1>2, <1>3, <1>6, <2>1 DEF FreeInv, JobFrame
<1>9. DisjointInv'
  BY <1>1, <1>2, <1>3 DEF DisjointInv, JobFrame
<1>10. RebindIsSafe'
  BY <1>1, <1>2, <1>3, <1>4 DEF RebindIsSafe, JobFrame, MigrationJob
<1>11. NoLeakInv'
  BY <1>1, <1>2, <1>3, <1>6 DEF NoLeakInv, JobFrame
<1>12. ClaimsAreExclusive'
  BY Zenon, <1>1, <1>2, ClaimsFrame
<1>13. CopyInv'
  BY <1>1, <1>2, <1>3, HeldJob DEF CopyInv, JobFrame
<1>14. QED
  BY Zenon, <1>5, <1>7, <1>8, <1>9, <1>10, <1>11, <1>12, <1>13

\* migrate cancels, then swaps the block's slot for a free one, bytes and all.
LEMMA MigrateInv ==
  ASSUME IndInv, NEW b \in BlockId, NEW t \in Tier, Migrate(b, t)
  PROVE  IndInv'
<1> USE DEF IndInv
<1>1. /\ UNCHANGED <<free_ids, refcount, jobs, next_unclaimed, wpc, wjob, wread>>
      /\ Live(b)
  BY Zenon DEF Migrate, workerVars
<1>2. /\ JobFrame
      /\ \A j \in Queued : job'[j].done = job[j].done
      /\ \A j \in Queued :
            job'[j].cancelled <=> (job[j].cancelled \/ j = migrating[b])
      /\ migrating' \in [BlockId -> JobId \cup {Nil}]
      /\ \A c \in BlockId : migrating'[c] = IF c = b THEN Nil ELSE migrating[c]
  BY Zenon, CancelEffect DEF Migrate
<1>3. Queued' = Queued /\ \A c \in BlockId : Live(c)' <=> Live(c)
  BY Zenon, <1>1 DEF Queued, Live
<1>4. \A j \in Queued : j \in JobId /\ job[j] \in MigrationJob /\ job[j] # Nil
  BY Zenon, QueuedRecord
<1>5. IdsInv' /\ QueueInv'
  BY Zenon, <1>1, <1>2, <1>3, <1>4 DEF IdsInv, QueueInv, JobFrame
<1>6. ClaimsAreExclusive'
  BY Zenon, <1>1, <1>2, ClaimsFrame
<1>7. CASE UNCHANGED <<location, free_slots, mem>>
  <2>1. TypeOK'
    BY <1>1, <1>2, <1>7 DEF TypeOK, JobFrame
  <2>2. FreeInv' /\ DisjointInv'
    BY <1>1, <1>2, <1>3, <1>7 DEF FreeInv, DisjointInv, JobFrame
  <2>3. RebindIsSafe'
    BY <1>1, <1>2, <1>3, <1>4, <1>7 DEF RebindIsSafe, JobFrame, MigrationJob
  <2>4. NoLeakInv'
    BY <1>2, <1>3, <1>7 DEF NoLeakInv, JobFrame
  <2>5. CopyInv'
    BY <1>1, <1>2, <1>3, <1>7, HeldJob DEF CopyInv, JobFrame
  <2>6. QED
    BY Zenon, <1>5, <1>6, <2>1, <2>2, <2>3, <2>4, <2>5
<1>8. ASSUME NEW s \in FreeIn(t),
             TierOf[location[b]] # t,
             mem' = [mem EXCEPT ![s] = mem[location[b]]],
             free_slots' = [free_slots EXCEPT ![s] = @ - 1, ![location[b]] = @ + 1],
             location' = [location EXCEPT ![b] = s]
      PROVE  IndInv'
  <2>1. /\ s \in Slot
        /\ free_slots[s] = 1
        /\ location[b] \in Slot
        /\ free_slots[location[b]] = 0
        /\ s # location[b]
    BY <1>1, <1>8 DEF FreeIn, FreeInv, TypeOK
  <2>2. \A r \in Slot : free_slots'[r] = IF r = s THEN 0
                                         ELSE IF r = location[b] THEN 1
                                         ELSE free_slots[r]
    BY <1>8, <2>1 DEF TypeOK
  <2>3. free_slots' \in [Slot -> Nat]
    <3>1. free_slots[s] - 1 \in Nat /\ free_slots[location[b]] + 1 \in Nat
      BY <2>1
    <3>2. free_slots' = [[free_slots EXCEPT ![s] = free_slots[s] - 1]
                            EXCEPT ![location[b]] = free_slots[location[b]] + 1]
      BY Zenon, <1>8, <2>1 DEF TypeOK
    <3>3. QED
      BY Zenon, <2>1, <3>1, <3>2 DEF TypeOK
  <2>4. TypeOK'
    BY Zenon, <1>1, <1>2, <1>8, <2>1, <2>3 DEF TypeOK, JobFrame
  <2>5. \A c \in BlockId : location'[c] = IF c = b THEN s ELSE location[c]
    BY Zenon, <1>8 DEF TypeOK
  <2>6. \A r \in Slot : r # s => mem'[r] = mem[r]
    BY Zenon, <1>8 DEF TypeOK
  <2>7. /\ \A c \in BlockId : Live(c) => location[c] \in Slot \ {s}
        /\ \A c \in BlockId \ {b} : Live(c) => location[c] # location[b]
        /\ \A j \in Queued : job[j].dst \in Slot \ {s, location[b]}
    BY <1>1, <1>4, <2>1 DEF FreeInv, DisjointInv, TypeOK, MigrationJob
  <2>8. FreeInv'
    BY <1>2, <1>3, <2>1, <2>2, <2>5, <2>7 DEF FreeInv, JobFrame
  <2>9. DisjointInv'
    BY <1>2, <1>3, <2>5, <2>7 DEF DisjointInv, JobFrame
  <2>10. RebindIsSafe'
    BY <1>2, <1>3, <1>4, <2>5 DEF RebindIsSafe, JobFrame, MigrationJob
  <2>11. NoLeakInv'
    <3> SUFFICES ASSUME NEW r \in Slot, free_slots'[r] = 0
                 PROVE  \/ \E c \in BlockId : Live(c)' /\ location'[c] = r
                        \/ \E j \in Queued' : job'[j].dst = r
      BY Zenon DEF NoLeakInv
    <3>1. CASE r = s
      BY Zenon, <1>1, <1>3, <2>5, <3>1
    <3>2. CASE r # s
      <4>1. r # location[b] /\ free_slots[r] = 0
        BY <2>2, <3>2
      <4>2. CASE \E c \in BlockId : Live(c) /\ location[c] = r
        BY Zenon, <1>3, <2>5, <4>1, <4>2
      <4>3. CASE \E j \in Queued : job[j].dst = r
        BY Zenon, <1>2, <1>3, <4>3 DEF JobFrame
      <4>4. QED
        BY Zenon, <4>1, <4>2, <4>3 DEF NoLeakInv
    <3>3. QED
      BY Zenon, <3>1, <3>2
  <2>12. \A j \in Queued : ~job[j].cancelled => job[j].src \in Slot \ {s}
    BY <1>4, <2>7 DEF RebindIsSafe, MigrationJob
  <2>13. CopyInv'
    <3>1. ASSUME NEW j \in Queued, job'[j].done, ~job'[j].cancelled
          PROVE  mem'[job'[j].dst] = mem'[job'[j].src]
      BY <1>2, <2>6, <2>7, <2>12, <3>1 DEF CopyInv, JobFrame
    <3>2. ASSUME NEW w \in Worker, wpc[w] = "copying", ~job'[wjob[w]].cancelled
          PROVE  wread[w] = mem'[job'[wjob[w]].src]
      BY <1>2, <2>6, <2>12, <3>2, HeldJob DEF CopyInv, JobFrame
    <3>3. QED
      BY Zenon, <1>1, <1>3, <3>1, <3>2 DEF CopyInv
  <2>14. QED
    BY Zenon, <1>5, <1>6, <2>4, <2>8, <2>9, <2>10, <2>11, <2>13
<1>9. QED
  BY Zenon, <1>7, <1>8 DEF Migrate

\* Steps that change bytes or worker state only leave the bookkeeping alone.
LEMMA BookFrame ==
  ASSUME IndInv, UNCHANGED <<bookVars, jobs>>, JobFrame,
         \A j \in Queued : job'[j].cancelled = job[j].cancelled
  PROVE  /\ Queued' = Queued
         /\ IdsInv' /\ QueueInv' /\ FreeInv' /\ DisjointInv' /\ NoLeakInv'
         /\ RebindIsSafe'
<1> USE DEF IndInv
<1>1. UNCHANGED <<free_ids, refcount, location, free_slots, migrating, jobs>>
  BY Zenon DEF bookVars
<1>2. Queued' = Queued /\ \A c \in BlockId : Live(c)' <=> Live(c)
  BY Zenon, <1>1 DEF Queued, Live
<1>3. \A j \in Queued : j \in JobId /\ job[j] \in MigrationJob /\ job[j] # Nil
  BY Zenon, QueuedRecord
<1>4. IdsInv' /\ QueueInv' /\ FreeInv' /\ DisjointInv'
  <2>1. IdsInv'
    BY Zenon, <1>1 DEF IdsInv
  <2>2. QueueInv'
    BY <1>1, <1>2 DEF QueueInv, JobFrame
  <2>3. FreeInv'
    BY Zenon, <1>1, <1>2, <1>3 DEF FreeInv, JobFrame
  <2>4. DisjointInv'
    BY <1>1, <1>2, <1>3 DEF DisjointInv, JobFrame
  <2>5. QED
    BY Zenon, <2>1, <2>2, <2>3, <2>4
<1>5. NoLeakInv'
  BY <1>1, <1>2 DEF NoLeakInv, JobFrame
<1>6. RebindIsSafe'
  BY <1>1, <1>2, <1>3 DEF RebindIsSafe, JobFrame, MigrationJob
<1>7. QED
  BY Zenon, <1>2, <1>4, <1>5, <1>6

\* Where an uncancelled job reads and where any job writes.
LEMMA JobSlots ==
  ASSUME IndInv
  PROVE  /\ \A j \in Queued : job[j].src \in Slot /\ job[j].dst \in Slot
         /\ \A j, k \in Queued : ~job[j].cancelled => job[j].src # job[k].dst
         /\ \A j, k \in Queued : j # k => job[j].dst # job[k].dst
  BY QueuedRecord DEF IndInv, RebindIsSafe, DisjointInv, MigrationJob
=============================================================================
