-------------------------- MODULE BlockPoolWorkers --------------------------
(***************************************************************************)
(* The invariant of BlockPool is kept by migrate_async, by writes and by   *)
(* the workers.                                                            *)
(***************************************************************************)
EXTENDS BlockPoolInvariant

\* migrate_async queues a job that is the only owner of its destination slot.
LEMMA MigrateAsyncInv ==
  ASSUME IndInv, NEW b \in BlockId, NEW t \in Tier, MigrateAsync(b, t)
  PROVE  IndInv'
<1> USE DEF IndInv
<1>1. /\ UNCHANGED <<free_ids, refcount, location, next_unclaimed, wpc, wjob,
                     wread, mem>>
      /\ Live(b)
      /\ migrating[b] = Nil
  BY Zenon DEF MigrateAsync, workerVars
<1>2. PICK s \in FreeIn(t), m \in JobId :
         /\ job[m] = Nil
         /\ free_slots' = [free_slots EXCEPT ![s] = @ - 1]
         /\ job' = [job EXCEPT ![m] = [id |-> b, src |-> location[b], dst |-> s,
                                       done |-> FALSE, cancelled |-> FALSE]]
         /\ migrating' = [migrating EXCEPT ![b] = m]
         /\ jobs' = Append(jobs, m)
  BY Zenon DEF MigrateAsync
<1>3. s \in Slot /\ free_slots[s] = 1 /\ location[b] \in Slot
  BY <1>2 DEF FreeIn, FreeInv, TypeOK
<1>4. \A j \in Queued : j \in JobId /\ job[j] \in MigrationJob /\ job[j] # Nil
  BY Zenon, QueuedRecord
<1>5. m \notin Queued
  BY Zenon, <1>2, <1>4
<1>6. /\ jobs' \in Seq(JobId)
      /\ Len(jobs') = Len(jobs) + 1
      /\ Len(jobs) \in Nat
      /\ \A i \in 1 .. Len(jobs) : jobs'[i] = jobs[i]
      /\ jobs'[Len(jobs) + 1] = m
  BY <1>2 DEF TypeOK
<1>7. Queued' = Queued \cup {m}
  <2>1. \A i \in 1 .. Len(jobs) + 1 : jobs'[i] \in Queued \cup {m}
    BY <1>6 DEF Queued
  <2>2. \A i \in 1 .. Len(jobs) : jobs[i] \in Queued'
    BY <1>6 DEF Queued
  <2>3. m \in Queued'
    BY <1>6 DEF Queued
  <2>4. QED
    BY Zenon, <1>6, <2>1, <2>2, <2>3 DEF Queued
<1>8. /\ job' \in [JobId -> MigrationJob \cup {Nil}]
      /\ job'[m] # Nil
      /\ job'[m].id = b
      /\ job'[m].src = location[b]
      /\ job'[m].dst = s
      /\ ~job'[m].done
      /\ ~job'[m].cancelled
      /\ \A j \in JobId \ {m} : job'[j] = job[j]
  <2> DEFINE rec == [id |-> b, src |-> location[b], dst |-> s,
                     done |-> FALSE, cancelled |-> FALSE]
  <2>1. rec \in MigrationJob
    BY Zenon, <1>3 DEF MigrationJob
  <2>2. job'[m] = rec /\ \A j \in JobId \ {m} : job'[j] = job[j]
    BY Zenon, <1>2 DEF TypeOK
  <2>3. job' \in [JobId -> MigrationJob \cup {Nil}]
    BY Zenon, <1>2, <2>1 DEF TypeOK
  <2>4. rec # Nil
    BY Zenon, <2>1, NilFacts
  <2>5. QED
    BY <2>2, <2>3, <2>4
<1>9. \A j \in Queued : job'[j] = job[j] /\ j # m
  BY Zenon, <1>4, <1>5, <1>8
<1>10. \A r \in Slot : free_slots'[r] = IF r = s THEN 0 ELSE free_slots[r]
  BY <1>2, <1>3 DEF TypeOK
<1>11. \A c \in BlockId : /\ Live(c)' <=> Live(c)
                          /\ location'[c] = location[c]
                          /\ migrating'[c] = IF c = b THEN m ELSE migrating[c]
  BY <1>1, <1>2 DEF TypeOK, Live
<1>12. TypeOK'
  BY <1>1, <1>2, <1>3, <1>6, <1>8 DEF TypeOK
<1>13. IdsInv'
  BY Zenon, <1>1 DEF IdsInv
<1>14. QueueInv'
  <2>1. \A j \in JobId : job'[j] # Nil <=> j \in Queued'
    BY Zenon, <1>7, <1>8 DEF QueueInv
  <2>2. \A i \in 1 .. Len(jobs) : jobs[i] # m
    BY Zenon, <1>5 DEF Queued
  <2>3. \A i, k \in 1 .. Len(jobs) + 1 : jobs'[i] = jobs'[k] => i = k
    BY <1>6, <2>2 DEF QueueInv
  <2>4. QED
    BY Zenon, <1>6, <2>1, <2>3 DEF QueueInv
<1>15. /\ \A c \in BlockId : Live(c) => location[c] \in Slot \ {s}
       /\ \A j \in Queued : job[j].dst \in Slot \ {s}
  BY <1>3, <1>4 DEF FreeInv, TypeOK, MigrationJob
<1>16. FreeInv'
  BY <1>3, <1>7, <1>8, <1>9, <1>10, <1>11, <1>15 DEF FreeInv
<1>17. DisjointInv'
  <2>1. \A c, d \in BlockId :
           Live(c)' /\ Live(d)' /\ location'[c] = location'[d] => c = d
    BY Zenon, <1>11 DEF DisjointInv
  <2>2. \A j, k \in Queued' : job'[j].dst = job'[k].dst => j = k
    BY <1>7, <1>8, <1>9, <1>15 DEF DisjointInv
  <2>3. \A c \in BlockId, j \in Queued' : Live(c)' => location'[c] # job'[j].dst
    BY <1>7, <1>8, <1>9, <1>11, <1>15 DEF DisjointInv
  <2>4. QED
    BY Zenon, <2>1, <2>2, <2>3 DEF DisjointInv
<1>18. RebindIsSafe'
  <2>1. ASSUME NEW j \in Queued', ~job'[j].cancelled
        PROVE  /\ migrating'[job'[j].id] = j
               /\ Live(job[j].id)'
               /\ location'[job'[j].id] = job'[j].src
    <3>1. CASE j = m
      BY Zenon, <1>1, <1>8, <1>11, <3>1 DEF Live
    <3>2. CASE j \in Queued
      <4>1. job[j].id \in BlockId /\ job'[j] = job[j]
        BY Zenon, <1>4, <1>9, <3>2 DEF MigrationJob
      <4>2. migrating[job[j].id] = j /\ Live(job[j].id) /\ location[job[j].id] = job[j].src
        BY Zenon, <2>1, <3>2, <4>1 DEF RebindIsSafe
      <4>3. job[j].id # b
        BY Zenon, <1>1, <1>4, <3>2, <4>2, NilFacts
      <4>4. QED
        BY Zenon, <1>11, <4>1, <4>2, <4>3 DEF Live
    <3>3. QED
      BY Zenon, <1>7, <3>1, <3>2
  <2>2. ASSUME NEW c \in BlockId, migrating'[c] # Nil
        PROVE  /\ migrating'[c] \in Queued'
               /\ job'[migrating'[c]].id = c
               /\ ~job'[migrating'[c]].cancelled
    <3>1. CASE c = b
      BY Zenon, <1>7, <1>8, <1>11, <3>1
    <3>2. CASE c # b
      <4>1. migrating'[c] = migrating[c]
        BY Zenon, <1>11, <3>2
      <4>2. /\ migrating[c] \in Queued
            /\ job[migrating[c]].id = c
            /\ ~job[migrating[c]].cancelled
        BY Zenon, <2>2, <4>1 DEF RebindIsSafe
      <4>3. QED
        BY <1>7, <1>9, <4>1, <4>2
    <3>3. QED
      BY <3>1, <3>2
  <2>3. QED
    BY Zenon, <2>1, <2>2 DEF RebindIsSafe
<1>19. NoLeakInv'
  <2> SUFFICES ASSUME NEW r \in Slot, free_slots'[r] = 0
               PROVE  \/ \E c \in BlockId : Live(c)' /\ location'[c] = r
                      \/ \E j \in Queued' : job'[j].dst = r
    BY Zenon DEF NoLeakInv
  <2>1. CASE r = s
    BY Zenon, <1>7, <1>8, <2>1
  <2>2. CASE r # s
    <3>1. \/ \E c \in BlockId : Live(c) /\ location[c] = r
          \/ \E j \in Queued : job[j].dst = r
      BY <1>10, <2>2 DEF NoLeakInv
    <3>2. QED
      BY Zenon, <1>7, <1>9, <1>11, <3>1
  <2>3. QED
    BY <2>1, <2>2
<1>20. ClaimsAreExclusive'
  <2>1. next_unclaimed \in Nat /\ next_unclaimed <= Len(jobs)
    BY DEF ClaimsAreExclusive, TypeOK
  <2>2. \A i \in 1 .. Len(jobs) : job'[jobs'[i]] = job[jobs[i]] /\ jobs'[i] = jobs[i]
    BY Zenon, <1>6, <1>9 DEF Queued
  <2>3. \A w \in Worker :
           wpc[w] # "wait" => \E i \in 1 .. next_unclaimed :
                                 jobs'[i] = wjob[w] /\ ~job'[jobs'[i]].done
    <3> SUFFICES ASSUME NEW w \in Worker, wpc[w] # "wait"
                 PROVE  \E i \in 1 .. next_unclaimed :
                           jobs'[i] = wjob[w] /\ ~job'[jobs'[i]].done
      OBVIOUS
    <3>1. PICK i \in 1 .. next_unclaimed : jobs[i] = wjob[w] /\ ~job[jobs[i]].done
      BY Zenon DEF ClaimsAreExclusive
    <3>2. i \in 1 .. Len(jobs)
      BY <1>6, <2>1
    <3>3. QED
      BY Zenon, <2>2, <3>1, <3>2
  <2>4. \A i \in 1 .. Len(jobs) + 1 :
           IF i <= next_unclaimed
           THEN job'[jobs'[i]].done
                \/ \E w \in Worker : wpc[w] # "wait" /\ wjob[w] = jobs'[i]
           ELSE ~job'[jobs'[i]].done
    <3> SUFFICES ASSUME NEW i \in 1 .. Len(jobs) + 1
                 PROVE  IF i <= next_unclaimed
                        THEN job'[jobs'[i]].done
                             \/ \E w \in Worker : wpc[w] # "wait" /\ wjob[w] = jobs'[i]
                        ELSE ~job'[jobs'[i]].done
      OBVIOUS
    <3>1. CASE i = Len(jobs) + 1
      BY <1>6, <1>8, <2>1, <3>1
    <3>2. CASE i \in 1 .. Len(jobs)
      BY Zenon, <2>2, <3>2 DEF ClaimsAreExclusive
    <3>3. QED
      BY <1>6, <3>1, <3>2
  <2>5. /\ next_unclaimed' = next_unclaimed /\ wpc' = wpc /\ wjob' = wjob
        /\ Len(jobs') = Len(jobs) + 1
        /\ next_unclaimed <= Len(jobs) + 1
    BY <1>1, <1>6, <2>1
  <2>6. \A w, x \in Worker :
           wpc[w] # "wait" /\ wpc[x] # "wait" /\ wjob[w] = wjob[x] => w = x
    BY DEF ClaimsAreExclusive
  <2>7. QED
    BY Zenon, <2>3, <2>4, <2>5, <2>6 DEF ClaimsAreExclusive
<1>21. CopyInv'
  BY <1>1, <1>7, <1>8, <1>9, HeldJob DEF CopyInv
<1>22. QED
  BY <1>12, <1>13, <1>14, <1>16, <1>17, <1>18, <1>19, <1>20, <1>21

\* A write touches the source of no uncancelled copy.
LEMMA WriteBlockInv ==
  ASSUME IndInv, NEW b \in BlockId, NEW v \in Value, WriteBlock(b, v)
  PROVE  IndInv'
<1> USE DEF IndInv
<1>1. /\ UNCHANGED <<bookVars, job, jobs, next_unclaimed, wpc, wjob, wread>>
      /\ Live(b)
      /\ migrating[b] = Nil
      /\ mem' = [mem EXCEPT ![location[b]] = v]
  BY Zenon DEF WriteBlock, workerVars
<1>2. \A j \in Queued : j \in JobId /\ job[j] \in MigrationJob /\ job[j] # Nil
  BY Zenon, QueuedRecord
<1>3. JobFrame
  BY Zenon, <1>1 DEF JobFrame, TypeOK
<1>4. /\ Queued' = Queued
      /\ IdsInv' /\ QueueInv' /\ FreeInv' /\ DisjointInv' /\ NoLeakInv' /\ RebindIsSafe'
  BY Zenon, <1>1, <1>3, BookFrame
<1>5. TypeOK'
  BY Zenon, <1>1 DEF TypeOK, bookVars, Bytes
<1>6. ClaimsAreExclusive'
  BY Zenon, <1>1, ClaimsFrame
<1>7. \A s \in Slot : s # location[b] => mem'[s] = mem[s]
  BY Zenon, <1>1 DEF TypeOK
<1>8. \A j \in Queued : /\ job[j].dst # location[b]
                        /\ ~job[j].cancelled => job[j].src # location[b]
  <2>1. \A j \in Queued : job[j].dst # location[b]
    BY Zenon, <1>1 DEF DisjointInv
  <2>2. ASSUME NEW j \in Queued, ~job[j].cancelled
        PROVE  job[j].src # location[b]
    <3>1. job[j].id \in BlockId /\ job[j].id # b
      BY <1>1, <1>2, <2>2, NilFacts DEF RebindIsSafe, MigrationJob
    <3>2. Live(job[j].id) /\ location[job[j].id] = job[j].src
      BY Zenon, <2>2 DEF RebindIsSafe
    <3>3. QED
      BY Zenon, <1>1, <3>1, <3>2 DEF DisjointInv
  <2>3. QED
    BY Zenon, <2>1, <2>2
<1>9. CopyInv'
  BY <1>1, <1>4, <1>7, <1>8, JobSlots, HeldJob DEF CopyInv
<1>10. QED
  BY Zenon, <1>4, <1>5, <1>6, <1>9

\* A worker claims the first unclaimed job, which no other worker holds.
LEMMA ClaimInv ==
  ASSUME IndInv, NEW w \in Worker, Claim(w)
  PROVE  IndInv'
<1> USE DEF IndInv
<1>1. /\ UNCHANGED <<bookVars, job, jobs, wread, mem>>
      /\ wpc[w] = "wait"
      /\ next_unclaimed < Len(jobs)
      /\ wjob' = [wjob EXCEPT ![w] = jobs[next_unclaimed + 1]]
      /\ next_unclaimed' = next_unclaimed + 1
      /\ wpc' = [wpc EXCEPT ![w] = "claimed"]
  BY Zenon DEF Claim
<1> DEFINE n == next_unclaimed + 1
<1>2. n \in 1 .. Len(jobs) /\ Len(jobs) \in Nat /\ next_unclaimed \in Nat
  BY <1>1 DEF TypeOK
<1>3. jobs[n] \in JobId
  BY <1>2 DEF TypeOK
<1>4. JobFrame
  BY Zenon, <1>1 DEF JobFrame, TypeOK
<1>5. /\ Queued' = Queued
      /\ IdsInv' /\ QueueInv' /\ FreeInv' /\ DisjointInv' /\ NoLeakInv' /\ RebindIsSafe'
  BY Zenon, <1>1, <1>4, BookFrame
<1>6. TypeOK'
  BY <1>1, <1>2, <1>3 DEF TypeOK, bookVars
<1>7. /\ wpc'[w] = "claimed" /\ wjob'[w] = jobs[n]
      /\ \A x \in Worker \ {w} : wpc'[x] = wpc[x] /\ wjob'[x] = wjob[x]
  BY Zenon, <1>1 DEF TypeOK
<1>8. ClaimsAreExclusive'
  <2>1. ~job[jobs[n]].done
    BY <1>2 DEF ClaimsAreExclusive
  <2>2. \A x \in Worker : wpc[x] # "wait" => wjob[x] # jobs[n]
    <3> SUFFICES ASSUME NEW x \in Worker, wpc[x] # "wait", wjob[x] = jobs[n]
                 PROVE  FALSE
      OBVIOUS
    <3>1. PICK i \in 1 .. next_unclaimed : jobs[i] = wjob[x]
      BY Zenon DEF ClaimsAreExclusive
    <3>2. i \in 1 .. Len(jobs) /\ i # n
      BY <1>2
    <3>3. QED
      BY Zenon, <1>2, <3>1, <3>2 DEF QueueInv
  <2>3. \A x \in Worker :
           wpc'[x] # "wait" => \E i \in 1 .. n : jobs[i] = wjob'[x] /\ ~job[jobs[i]].done
    <3> SUFFICES ASSUME NEW x \in Worker, wpc'[x] # "wait"
                 PROVE  \E i \in 1 .. n : jobs[i] = wjob'[x] /\ ~job[jobs[i]].done
      OBVIOUS
    <3>1. CASE x = w
      BY <1>2, <1>7, <2>1, <3>1
    <3>2. CASE x # w
      <4>1. PICK i \in 1 .. next_unclaimed : jobs[i] = wjob[x] /\ ~job[jobs[i]].done
        BY <1>7, <3>2 DEF ClaimsAreExclusive
      <4>2. i \in 1 .. n
        BY <1>2
      <4>3. QED
        BY Zenon, <1>7, <3>2, <4>1, <4>2
    <3>3. QED
      BY Zenon, <3>1, <3>2
  <2>4. \A x, y \in Worker :
           wpc'[x] # "wait" /\ wpc'[y] # "wait" /\ wjob'[x] = wjob'[y] => x = y
    BY <1>7, <2>2 DEF ClaimsAreExclusive
  <2>5. \A i \in 1 .. Len(jobs) :
           IF i <= n
           THEN job[jobs[i]].done
                \/ \E x \in Worker : wpc'[x] # "wait" /\ wjob'[x] = jobs[i]
           ELSE ~job[jobs[i]].done
    <3> SUFFICES ASSUME NEW i \in 1 .. Len(jobs)
                 PROVE  IF i <= n
                        THEN job[jobs[i]].done
                             \/ \E x \in Worker : wpc'[x] # "wait" /\ wjob'[x] = jobs[i]
                        ELSE ~job[jobs[i]].done
      OBVIOUS
    <3>1. CASE i = n
      BY <1>2, <1>7, <3>1
    <3>2. CASE i # n
      <4>1. i <= n <=> i <= next_unclaimed
        BY <1>2, <3>2
      <4>2. \A x \in Worker : wpc[x] # "wait" => x # w
        BY Zenon, <1>1
      <4>3. QED
        BY <1>7, <4>1, <4>2 DEF ClaimsAreExclusive
    <3>3. QED
      BY Zenon, <3>1, <3>2
  <2>6. QED
    BY <1>1, <1>2, <2>3, <2>4, <2>5 DEF ClaimsAreExclusive
<1>9. CopyInv'
  BY <1>1, <1>5, <1>7 DEF CopyInv
<1>10. QED
  BY Zenon, <1>5, <1>6, <1>8, <1>9

\* A worker that begins a copy has read the source as it is.
LEMMA BeginCopyInv ==
  ASSUME IndInv, NEW w \in Worker, BeginCopy(w)
  PROVE  IndInv'
<1> USE DEF IndInv
<1> DEFINE m == wjob[w]
<1>1. /\ UNCHANGED <<bookVars, job, jobs, next_unclaimed, wjob>>
      /\ wpc[w] = "claimed"
      /\ ~job[m].cancelled
      /\ wread' = [wread EXCEPT ![w] = mem[job[m].src]]
      /\ mem' = [mem EXCEPT ![job[m].dst] = Garbage]
      /\ wpc' = [wpc EXCEPT ![w] = "copying"]
  BY Zenon DEF BeginCopy
<1>2. m \in Queued /\ ~job[m].done
  BY Zenon, <1>1, HeldJob
<1>3. JobFrame
  BY Zenon, <1>1 DEF JobFrame, TypeOK
<1>4. /\ Queued' = Queued
      /\ IdsInv' /\ QueueInv' /\ FreeInv' /\ DisjointInv' /\ NoLeakInv' /\ RebindIsSafe'
  BY Zenon, <1>1, <1>3, BookFrame
<1>5. job[m].src \in Slot /\ job[m].dst \in Slot
  BY Zenon, <1>2, JobSlots
<1>6. TypeOK'
  BY Zenon, <1>1, <1>5 DEF TypeOK, bookVars, Bytes
<1>7. /\ wpc'[w] = "copying"
      /\ wread'[w] = mem[job[m].src]
      /\ \A x \in Worker \ {w} : wpc'[x] = wpc[x] /\ wread'[x] = wread[x]
  BY Zenon, <1>1 DEF TypeOK
<1>8. ClaimsAreExclusive'
  <2>1. \A x \in Worker : wpc'[x] # "wait" <=> wpc[x] # "wait"
    BY Zenon, <1>1, <1>7
  <2>2. QED
    BY Zenon, <1>1, <2>1 DEF ClaimsAreExclusive
<1>9. \A s \in Slot : s # job[m].dst => mem'[s] = mem[s]
  BY Zenon, <1>1 DEF TypeOK
<1>10. CopyInv'
  <2>1. ASSUME NEW j \in Queued, job[j].done, ~job[j].cancelled
        PROVE  mem'[job[j].dst] = mem'[job[j].src]
    BY <1>2, <1>9, <2>1, JobSlots DEF CopyInv
  <2>2. ASSUME NEW x \in Worker, wpc'[x] = "copying", ~job[wjob[x]].cancelled
        PROVE  wread'[x] = mem'[job[wjob[x]].src]
    <3>1. wjob[x] \in Queued
      BY Zenon, <1>1, <1>7, <2>2, HeldJob
    <3>2. mem'[job[wjob[x]].src] = mem[job[wjob[x]].src]
      BY Zenon, <1>2, <1>9, <2>2, <3>1, JobSlots
    <3>3. QED
      BY Zenon, <1>7, <2>2, <3>1, <3>2 DEF CopyInv
  <2>3. QED
    BY <1>1, <1>4, <2>1, <2>2 DEF CopyInv
<1>11. QED
  BY Zenon, <1>4, <1>6, <1>8, <1>10

\* The claims after a worker has stored done.
LEMMA FinishClaims ==
  ASSUME IndInv, NEW w \in Worker, wpc[w] # "wait", Finish(w),
         UNCHANGED <<jobs, next_unclaimed>>
  PROVE  ClaimsAreExclusive'
<1> USE DEF IndInv
<1>1. /\ wjob[w] \in Queued
      /\ \A j \in Queued : job'[j].done <=> (job[j].done \/ j = wjob[w])
      /\ wpc'[w] = "wait"
      /\ \A x \in Worker \ {w} : wpc'[x] = wpc[x] /\ wjob'[x] = wjob[x]
  BY Zenon, FinishEffect
<1>2. next_unclaimed <= Len(jobs) /\ Len(jobs) \in Nat /\ next_unclaimed \in Nat
  BY DEF ClaimsAreExclusive, TypeOK
<1>3. \A i \in 1 .. Len(jobs) :
         job'[jobs[i]].done <=> (job[jobs[i]].done \/ jobs[i] = wjob[w])
  BY Zenon, <1>1 DEF Queued
<1>4. \A x \in Worker :
         wpc'[x] # "wait" => \E i \in 1 .. next_unclaimed :
                                jobs[i] = wjob'[x] /\ ~job'[jobs[i]].done
  <2> SUFFICES ASSUME NEW x \in Worker, wpc'[x] # "wait"
               PROVE  \E i \in 1 .. next_unclaimed :
                         jobs[i] = wjob'[x] /\ ~job'[jobs[i]].done
    OBVIOUS
  <2>1. x # w /\ wpc[x] # "wait" /\ wjob'[x] = wjob[x] /\ wjob[x] # wjob[w]
    BY <1>1 DEF ClaimsAreExclusive
  <2>2. PICK i \in 1 .. next_unclaimed : jobs[i] = wjob[x] /\ ~job[jobs[i]].done
    BY Zenon, <2>1 DEF ClaimsAreExclusive
  <2>3. i \in 1 .. Len(jobs)
    BY <1>2
  <2>4. QED
    BY Zenon, <1>3, <2>1, <2>2, <2>3
<1>5. \A x, y \in Worker :
         wpc'[x] # "wait" /\ wpc'[y] # "wait" /\ wjob'[x] = wjob'[y] => x = y
  BY <1>1 DEF ClaimsAreExclusive
<1>6. \A i \in 1 .. Len(jobs) :
         IF i <= next_unclaimed
         THEN job'[jobs[i]].done
              \/ \E x \in Worker : wpc'[x] # "wait" /\ wjob'[x] = jobs[i]
         ELSE ~job'[jobs[i]].done
  <2> SUFFICES ASSUME NEW i \in 1 .. Len(jobs)
               PROVE  IF i <= next_unclaimed
                      THEN job'[jobs[i]].done
                           \/ \E x \in Worker : wpc'[x] # "wait" /\ wjob'[x] = jobs[i]
                      ELSE ~job'[jobs[i]].done
    OBVIOUS
  <2>1. CASE i <= next_unclaimed
    BY <1>1, <1>3, <2>1 DEF ClaimsAreExclusive
  <2>2. CASE ~(i <= next_unclaimed)
    <3>1. PICK k \in 1 .. next_unclaimed : jobs[k] = wjob[w]
      BY Zenon DEF ClaimsAreExclusive
    <3>2. k \in 1 .. Len(jobs) /\ k # i
      BY <1>2, <2>2
    <3>3. jobs[i] # wjob[w]
      BY Zenon, <3>1, <3>2 DEF QueueInv
    <3>4. QED
      BY Zenon, <1>3, <2>2, <3>3 DEF ClaimsAreExclusive
  <2>3. QED
    BY Zenon, <2>1, <2>2
<1>7. QED
  BY Zenon, <1>2, <1>4, <1>5, <1>6 DEF ClaimsAreExclusive

\* Skipping the copy of a cancelled job marks it done and nothing else.
LEMMA SkipCopyInv ==
  ASSUME IndInv, NEW w \in Worker, SkipCopy(w)
  PROVE  IndInv'
<1> USE DEF IndInv
<1>1. /\ UNCHANGED <<bookVars, jobs, next_unclaimed, mem>>
      /\ wpc[w] = "claimed"
      /\ job[wjob[w]].cancelled
      /\ Finish(w)
  BY Zenon DEF SkipCopy
<1>2. /\ JobFrame
      /\ wjob[w] \in Queued
      /\ \A j \in Queued : job'[j].done <=> (job[j].done \/ j = wjob[w])
      /\ \A j \in Queued : job'[j].cancelled = job[j].cancelled
      /\ wpc' \in [Worker -> {"wait", "claimed", "copying"}]
      /\ wjob' \in [Worker -> JobId \cup {Nil}]
      /\ wread' \in [Worker -> Bytes]
      /\ wpc'[w] = "wait"
      /\ \A x \in Worker \ {w} : /\ wpc'[x] = wpc[x]
                                 /\ wjob'[x] = wjob[x]
                                 /\ wread'[x] = wread[x]
  BY Zenon, <1>1, FinishEffect
<1>3. /\ Queued' = Queued
      /\ IdsInv' /\ QueueInv' /\ FreeInv' /\ DisjointInv' /\ NoLeakInv' /\ RebindIsSafe'
  BY Zenon, <1>1, <1>2, BookFrame
<1>4. TypeOK'
  BY Zenon, <1>1, <1>2 DEF TypeOK, bookVars, JobFrame
<1>5. ClaimsAreExclusive'
  BY Zenon, <1>1, FinishClaims
<1>6. CopyInv'
  <2>1. ASSUME NEW j \in Queued, job'[j].done, ~job'[j].cancelled
        PROVE  mem'[job'[j].dst] = mem'[job'[j].src]
    BY <1>1, <1>2, <2>1 DEF CopyInv, JobFrame
  <2>2. ASSUME NEW x \in Worker, wpc'[x] = "copying", ~job'[wjob'[x]].cancelled
        PROVE  wread'[x] = mem'[job'[wjob'[x]].src]
    <3>1. x # w /\ wpc[x] = "copying" /\ wjob[x] \in Queued
      BY Zenon, <1>2, <2>2, HeldJob
    <3>2. QED
      BY <1>1, <1>2, <2>2, <3>1 DEF CopyInv, JobFrame
  <2>3. QED
    BY Zenon, <1>3, <2>1, <2>2 DEF CopyInv
<1>7. QED
  BY Zenon, <1>3, <1>4, <1>5, <1>6

\* The end of a copy writes a slot that only the job owns.
LEMMA EndCopyInv ==
  ASSUME IndInv, NEW w \in Worker, EndCopy(w)
  PROVE  IndInv'
<1> USE DEF IndInv
<1> DEFINE m == wjob[w]
<1>1. /\ UNCHANGED <<bookVars, jobs, next_unclaimed>>
      /\ wpc[w] = "copying"
      /\ Finish(w)
  BY Zenon DEF EndCopy
<1>2. PICK v \in IF mem[job[m].src] = wread[w] THEN {wread[w]}
                 ELSE {wread[w], mem[job[m].src], Garbage} :
         mem' = [mem EXCEPT ![job[m].dst] = v]
  BY Zenon DEF EndCopy
<1>3. /\ JobFrame
      /\ m \in Queued
      /\ \A j \in Queued : job'[j].done <=> (job[j].done \/ j = m)
      /\ \A j \in Queued : job'[j].cancelled = job[j].cancelled
      /\ wpc' \in [Worker -> {"wait", "claimed", "copying"}]
      /\ wjob' \in [Worker -> JobId \cup {Nil}]
      /\ wread' \in [Worker -> Bytes]
      /\ wpc'[w] = "wait"
      /\ \A x \in Worker \ {w} : /\ wpc'[x] = wpc[x]
                                 /\ wjob'[x] = wjob[x]
                                 /\ wread'[x] = wread[x]
  BY Zenon, <1>1, FinishEffect
<1>4. /\ Queued' = Queued
      /\ IdsInv' /\ QueueInv' /\ FreeInv' /\ DisjointInv' /\ NoLeakInv' /\ RebindIsSafe'
  BY Zenon, <1>1, <1>3, BookFrame
<1>5. job[m].src \in Slot /\ job[m].dst \in Slot
  BY Zenon, <1>3, JobSlots
<1>6. v \in Bytes
  BY Zenon, <1>2, <1>5 DEF TypeOK, Bytes
<1>7. TypeOK'
  BY Zenon, <1>1, <1>2, <1>3, <1>6 DEF TypeOK, bookVars, JobFrame
<1>8. ClaimsAreExclusive'
  BY Zenon, <1>1, FinishClaims
<1>9. /\ mem'[job[m].dst] = v
      /\ \A s \in Slot : s # job[m].dst => mem'[s] = mem[s]
  BY Zenon, <1>2, <1>5 DEF TypeOK
<1>10. ~job[m].cancelled => v = mem[job[m].src]
  BY Zenon, <1>1, <1>2 DEF CopyInv
<1>11. CopyInv'
  <2>1. ASSUME NEW j \in Queued, job'[j].done, ~job'[j].cancelled
        PROVE  mem'[job'[j].dst] = mem'[job'[j].src]
    <3>1. ~job[j].cancelled /\ job[j].src # job[m].dst
      BY <1>3, <2>1, JobSlots
    <3>2. mem'[job[j].src] = mem[job[j].src]
      BY Zenon, <1>9, <3>1, JobSlots
    <3>3. CASE j = m
      BY <1>3, <1>9, <1>10, <3>1, <3>2, <3>3 DEF JobFrame
    <3>4. CASE j # m
      <4>1. job[j].done /\ mem[job[j].dst] = mem[job[j].src]
        BY Zenon, <1>3, <2>1, <3>1, <3>4 DEF CopyInv
      <4>2. mem'[job[j].dst] = mem[job[j].dst]
        BY <1>3, <1>9, <3>4, JobSlots
      <4>3. QED
        BY Zenon, <3>2, <4>1, <4>2, <1>3 DEF JobFrame
    <3>5. QED
      BY Zenon, <3>3, <3>4
  <2>2. ASSUME NEW x \in Worker, wpc'[x] = "copying", ~job'[wjob'[x]].cancelled
        PROVE  wread'[x] = mem'[job'[wjob'[x]].src]
    <3>1. x # w /\ wpc[x] = "copying" /\ wjob[x] \in Queued /\ wjob'[x] = wjob[x]
      BY Zenon, <1>3, <2>2, HeldJob
    <3>2. mem'[job[wjob[x]].src] = mem[job[wjob[x]].src]
      BY <1>3, <1>9, <2>2, <3>1, JobSlots
    <3>3. QED
      BY <1>3, <2>2, <3>1, <3>2 DEF CopyInv, JobFrame
  <2>3. QED
    BY Zenon, <1>4, <2>1, <2>2 DEF CopyInv
<1>12. QED
  BY Zenon, <1>4, <1>7, <1>8, <1>11
=============================================================================
