--------------------------- MODULE BlockPoolDrain ---------------------------
(***************************************************************************)
(* The invariant of BlockPool is kept by drain_migrations.                 *)
(***************************************************************************)
EXTENDS BlockPoolInvariant, FiniteSetTheorems

\* Of the jobs a drain takes, block b's arrival is the one migrating records.
LEMMA DrainArrivals ==
  ASSUME IndInv, NEW n \in 1 .. Len(jobs), DonePrefix(n), NEW b \in BlockId,
         NEW F, F = {jobs[i] : i \in 1 .. n}
  PROVE  /\ F \subseteq Queued
         /\ \A j \in F : job[j].done
         /\ migrating[b] \in F => Arrivals(F, b) = {migrating[b]}
         /\ migrating[b] \notin F => Arrivals(F, b) = {}
<1> USE DEF IndInv
<1>1. F \subseteq Queued /\ \A j \in F : job[j].done
  BY DEF Queued, DonePrefix
<1>2. ASSUME NEW j \in Arrivals(F, b) PROVE j = migrating[b]
  BY Zenon, <1>1 DEF RebindIsSafe, Arrivals
<1>3. ASSUME migrating[b] \in F PROVE migrating[b] \in Arrivals(F, b)
  <2>1. migrating[b] # Nil
    BY Zenon, <1>1, <1>3, QueuedType, NilFacts
  <2>2. QED
    BY Zenon, <1>3, <2>1 DEF RebindIsSafe, Arrivals
<1>4. Arrivals(F, b) \subseteq F
  BY Zenon DEF Arrivals
<1>5. QED
  BY Zenon, <1>1, <1>2, <1>3, <1>4

\* drain_migrations rebinds arrivals and frees one slot per drained job.
LEMMA DrainInv ==
  ASSUME IndInv, DrainMigrations
  PROVE  IndInv'
<1> USE DEF IndInv
<1>1. PICK n \in 1 .. Len(jobs) :
        LET F == {jobs[i] : i \in 1 .. n}
        IN  /\ DonePrefix(n)
            /\ jobs' = SubSeq(jobs, n + 1, Len(jobs))
            /\ next_unclaimed' = next_unclaimed - n
            /\ free_slots' = [s \in Slot |->
                  free_slots[s] + Cardinality({j \in F : Returned(j) = s})]
            /\ location' = [b \in BlockId |->
                  IF Arrivals(F, b) = {} THEN location[b]
                  ELSE job[CHOOSE j \in Arrivals(F, b) : TRUE].dst]
            /\ migrating' = [b \in BlockId |->
                  IF Arrivals(F, b) = {} THEN migrating[b] ELSE Nil]
            /\ job' = [j \in JobId |-> IF j \in F THEN Nil ELSE job[j]]
            /\ UNCHANGED <<free_ids, refcount, workerVars, mem>>
  BY Zenon DEF DrainMigrations
<1> DEFINE F == {jobs[i] : i \in 1 .. n}
           Q == Queued \ F
<1>2. /\ DonePrefix(n)
      /\ jobs' = SubSeq(jobs, n + 1, Len(jobs))
      /\ next_unclaimed' = next_unclaimed - n
      /\ UNCHANGED <<free_ids, refcount, wpc, wjob, wread, mem>>
      /\ job' = [j \in JobId |-> IF j \in F THEN Nil ELSE job[j]]
  BY Zenon, <1>1 DEF workerVars
<1>3. \A j \in Queued : j \in JobId /\ job[j] \in MigrationJob /\ job[j] # Nil
  BY Zenon, QueuedRecord
<1>4. F \subseteq Queued /\ \A j \in F : job[j].done
  BY <1>2 DEF Queued, DonePrefix
<1>5. /\ Len(jobs) \in Nat
      /\ jobs' \in Seq(JobId)
      /\ Len(jobs') = Len(jobs) - n
      /\ \A i \in 1 .. Len(jobs) - n : jobs'[i] = jobs[n + i]
  <2>1. Len(jobs) \in Nat /\ \A i \in n + 1 .. Len(jobs) : jobs[i] \in JobId
    BY DEF TypeOK
  <2>2. /\ SubSeq(jobs, n + 1, Len(jobs)) \in Seq(JobId)
        /\ Len(SubSeq(jobs, n + 1, Len(jobs)))
             = IF n + 1 <= Len(jobs) THEN Len(jobs) - (n + 1) + 1 ELSE 0
        /\ \A i \in 1 .. Len(jobs) - (n + 1) + 1 :
              SubSeq(jobs, n + 1, Len(jobs))[i] = jobs[(n + 1) + i - 1]
    BY <2>1 DEF TypeOK
  <2>3. QED
    BY <1>2, <2>1, <2>2
\* The cursor covers what is drained.
<1>cursor. next_unclaimed \in Nat /\ next_unclaimed <= Len(jobs) /\ n <= next_unclaimed
  <2>1. n \in 1 .. n /\ n \in Nat
    BY <1>5
  <2>2. job[jobs[n]].done
    BY Zenon, <1>2, <2>1 DEF DonePrefix
  <2>3. n <= next_unclaimed
    BY Zenon, <2>2 DEF ClaimsAreExclusive
  <2>4. QED
    BY Zenon, <2>3 DEF ClaimsAreExclusive, TypeOK
<1>6. Queued' = Q
  <2>1. ASSUME NEW i \in 1 .. Len(jobs) - n PROVE jobs'[i] \in Q
    <3>1. n + i \in 1 .. Len(jobs) /\ \A k \in 1 .. n : k \in 1 .. Len(jobs) /\ k # n + i
      BY <1>5
    <3>2. jobs'[i] = jobs[n + i]
      BY Zenon, <1>5
    <3>3. jobs[n + i] \in Queued
      BY Zenon, <3>1 DEF Queued
    <3>4. jobs[n + i] \notin F
      BY Zenon, <3>1 DEF QueueInv
    <3>5. QED
      BY Zenon, <3>2, <3>3, <3>4
  <2>2. ASSUME NEW j \in Q PROVE j \in Queued'
    <3>1. PICK k \in 1 .. Len(jobs) : jobs[k] = j
      BY Zenon DEF Queued
    <3>2. ~(k \in 1 .. n)
      BY Zenon, <3>1
    <3>3. k - n \in 1 .. Len(jobs) - n /\ n + (k - n) = k
      BY <1>5, <3>2
    <3>4. jobs'[k - n] = j
      BY Zenon, <1>5, <3>1, <3>3
    <3>5. QED
      BY Zenon, <1>5, <3>3, <3>4 DEF Queued
  <2>3. Queued' = {jobs'[i] : i \in 1 .. Len(jobs) - n}
    BY Zenon, <1>5 DEF Queued
  <2>4. QED
    BY <2>1, <2>2, <2>3
<1>7. \A j \in Q : job'[j] = job[j] /\ j \in JobId
  BY Zenon, <1>2, <1>3
<1>9. \A b \in BlockId :
         IF migrating[b] \in F
         THEN location'[b] = job[migrating[b]].dst /\ migrating'[b] = Nil
         ELSE location'[b] = location[b] /\ migrating'[b] = migrating[b]
  <2> SUFFICES ASSUME NEW b \in BlockId
               PROVE  IF migrating[b] \in F
                      THEN location'[b] = job[migrating[b]].dst /\ migrating'[b] = Nil
                      ELSE location'[b] = location[b] /\ migrating'[b] = migrating[b]
    OBVIOUS
  <2>1. /\ location'[b] = IF Arrivals(F, b) = {} THEN location[b]
                          ELSE job[CHOOSE j \in Arrivals(F, b) : TRUE].dst
        /\ migrating'[b] = IF Arrivals(F, b) = {} THEN migrating[b] ELSE Nil
    BY Zenon, <1>1
  <2>2. /\ migrating[b] \in F => Arrivals(F, b) = {migrating[b]}
        /\ migrating[b] \notin F => Arrivals(F, b) = {}
    BY Zenon, <1>2, DrainArrivals
  <2>3. migrating[b] \in F => (CHOOSE j \in Arrivals(F, b) : TRUE) = migrating[b]
    BY Zenon, <2>2
  <2>4. QED
    BY Zenon, <2>1, <2>2, <2>3
\* A drained job is cancelled, or is the migration of a live block that moves.
<1>10. /\ \A j \in F : ~job[j].cancelled => /\ job[j].id \in BlockId
                                            /\ migrating[job[j].id] = j
                                            /\ Live(job[j].id)
       /\ \A b \in BlockId : migrating[b] \in F => /\ Live(b)
                                                   /\ job[migrating[b]].id = b
                                                   /\ ~job[migrating[b]].cancelled
  <2>1. ASSUME NEW j \in F, ~job[j].cancelled
        PROVE  job[j].id \in BlockId /\ migrating[job[j].id] = j /\ Live(job[j].id)
    BY <1>3, <1>4, <2>1 DEF RebindIsSafe, MigrationJob
  <2>2. ASSUME NEW b \in BlockId, migrating[b] \in F
        PROVE  /\ Live(b)
               /\ job[migrating[b]].id = b
               /\ ~job[migrating[b]].cancelled
    <3>1. migrating[b] \in Queued /\ migrating[b] # Nil
      BY Zenon, <1>4, <2>2, QueuedType, NilFacts
    <3>2. job[migrating[b]].id = b /\ ~job[migrating[b]].cancelled
      BY Zenon, <3>1 DEF RebindIsSafe
    <3>3. QED
      BY <3>1, <3>2 DEF RebindIsSafe
  <2>3. QED
    BY Zenon, <2>1, <2>2
<1>11. \A s \in Slot :
          IF \E j \in F : Returned(j) = s
          THEN free_slots[s] = 0 /\ free_slots'[s] = 1
          ELSE free_slots'[s] = free_slots[s]
  <2> SUFFICES ASSUME NEW s \in Slot
               PROVE  IF \E j \in F : Returned(j) = s
                      THEN free_slots[s] = 0 /\ free_slots'[s] = 1
                      ELSE free_slots'[s] = free_slots[s]
    OBVIOUS
  <2> DEFINE R == {j \in F : Returned(j) = s}
  <2>1. free_slots'[s] = free_slots[s] + Cardinality(R)
    BY Zenon, <1>1
  <2>2. free_slots[s] \in Nat
    BY Zenon DEF TypeOK
  <2>3. CASE R = {}
    <3>1. Cardinality(R) = 0
      BY Zenon, <2>3, FS_EmptySet
    <3>2. QED
      BY <2>1, <2>2, <2>3, <3>1
  <2>4. ASSUME NEW j \in R PROVE free_slots[s] = 0 /\ R = {j}
    <3>1. free_slots[s] = 0
      BY <1>4, <1>10 DEF Returned, FreeInv
    <3>2. ASSUME NEW k \in R PROVE k = j
      <4>1. job[j].cancelled /\ job[k].cancelled => k = j
        BY Zenon, <1>4 DEF Returned, DisjointInv
      <4>2. ~job[j].cancelled /\ ~job[k].cancelled => k = j
        BY <1>10 DEF Returned, DisjointInv
      <4>3. job[j].cancelled <=> job[k].cancelled
        BY <1>4, <1>10 DEF Returned, DisjointInv
      <4>4. QED
        BY Zenon, <4>1, <4>2, <4>3
    <3>3. QED
      BY Zenon, <3>1, <3>2
  <2>5. ASSUME NEW j \in R PROVE free_slots[s] = 0 /\ free_slots'[s] = 1
    <3>1. free_slots[s] = 0 /\ R = {j}
      BY Zenon, <2>4
    <3>2. Cardinality(R) = 1
      BY Zenon, <3>1, FS_Singleton
    <3>3. QED
      BY <2>1, <3>1, <3>2
  <2>6. QED
    BY Zenon, <2>3, <2>5
<1>12. TypeOK'
  <2>1. free_slots' \in [Slot -> Nat]
    <3>1. \A s \in Slot : free_slots'[s] \in Nat
      <4> SUFFICES ASSUME NEW s \in Slot PROVE free_slots'[s] \in Nat
        OBVIOUS
      <4>1. free_slots'[s] = 1 \/ free_slots'[s] = free_slots[s]
        BY Zenon, <1>11
      <4>2. QED
        BY <4>1 DEF TypeOK
    <3>2. QED
      BY Zenon, <1>1, <3>1
  <2>2. location' \in [BlockId -> Slot]
    <3>1. \A b \in BlockId : location'[b] \in Slot
      BY Zenon, <1>3, <1>4, <1>9 DEF TypeOK, MigrationJob
    <3>2. QED
      BY Zenon, <1>1, <3>1
  <2>3. migrating' \in [BlockId -> JobId \cup {Nil}]
    <3>1. \A b \in BlockId : migrating'[b] \in JobId \cup {Nil}
      BY Zenon, <1>9 DEF TypeOK
    <3>2. QED
      BY Zenon, <1>1, <3>1
  <2>4. next_unclaimed' \in Nat
    BY <1>cursor, <1>2, <1>5 DEF TypeOK
  <2>5. job' \in [JobId -> MigrationJob \cup {Nil}]
    BY Zenon, <1>2 DEF TypeOK
  <2>6. QED
    BY <1>2, <1>5, <2>1, <2>2, <2>3, <2>4, <2>5 DEF TypeOK
<1>13. IdsInv'
  BY Zenon, <1>2 DEF IdsInv
<1>14. QueueInv'
  <2>1. \A i, k \in 1 .. Len(jobs) - n : jobs'[i] = jobs'[k] => i = k
    <3> SUFFICES ASSUME NEW i \in 1 .. Len(jobs) - n, NEW k \in 1 .. Len(jobs) - n,
                        jobs[n + i] = jobs[n + k]
                 PROVE  i = k
      BY Zenon, <1>5
    <3>1. n + i \in 1 .. Len(jobs) /\ n + k \in 1 .. Len(jobs)
      BY <1>5
    <3>2. n + i = n + k
      BY Zenon, <3>1 DEF QueueInv
    <3>3. QED
      BY <1>5, <3>2
  <2>2. \A j \in JobId : job'[j] # Nil <=> j \in Q
    BY Zenon, <1>2 DEF QueueInv
  <2>3. QED
    BY Zenon, <1>5, <1>6, <2>1, <2>2 DEF QueueInv
<1>15. \A c \in BlockId : Live(c)' <=> Live(c)
  BY Zenon, <1>2 DEF Live
<1>16. RebindIsSafe'
  <2>1. ASSUME NEW j \in Q, ~job[j].cancelled
        PROVE  /\ migrating'[job[j].id] = j
               /\ Live(job[j].id)
               /\ location'[job[j].id] = job[j].src
    <3>1. job[j].id \in BlockId /\ migrating[job[j].id] = j /\ j \notin F
      BY Zenon, <1>3, <2>1 DEF RebindIsSafe, MigrationJob
    <3>2. QED
      BY <1>9, <2>1, <3>1 DEF RebindIsSafe
  <2>2. ASSUME NEW b \in BlockId, migrating'[b] # Nil
        PROVE  /\ migrating'[b] \in Q
               /\ job[migrating'[b]].id = b
               /\ ~job[migrating'[b]].cancelled
    BY <1>9, <2>2 DEF RebindIsSafe
  <2>3. \A j \in Q : job[j].id \in BlockId
    BY Zenon, <1>3 DEF MigrationJob
  <2>4. QED
    BY <1>6, <1>7, <1>15, <2>1, <2>2, <2>3 DEF RebindIsSafe
<1>17. DisjointInv'
  <2>1. ASSUME NEW b \in BlockId, NEW c \in BlockId, Live(b), Live(c),
               location'[b] = location'[c]
        PROVE  b = c
    BY <1>4, <1>9, <1>10, <2>1 DEF DisjointInv
  <2>2. ASSUME NEW b \in BlockId, NEW j \in Q, Live(b)
        PROVE  location'[b] # job[j].dst
    BY <1>4, <1>9, <2>2 DEF DisjointInv
  <2>3. \A j, k \in Q : job[j].dst = job[k].dst => j = k
    BY Zenon DEF DisjointInv
  <2>4. QED
    BY <1>6, <1>7, <1>15, <2>1, <2>2, <2>3 DEF DisjointInv
<1>18. FreeInv'
  <2>1. \A s \in Slot : free_slots'[s] \in {0, 1}
    BY Zenon, <1>11 DEF FreeInv
  <2>2. ASSUME NEW b \in BlockId, Live(b)
        PROVE  free_slots'[location'[b]] = 0
    <3>1. location'[b] \in Slot /\ free_slots[location'[b]] = 0
      <4>1. CASE migrating[b] \in F
        BY <1>3, <1>4, <1>9, <4>1 DEF FreeInv, MigrationJob
      <4>2. CASE migrating[b] \notin F
        BY Zenon, <1>9, <2>2, <4>2 DEF FreeInv, TypeOK
      <4>3. QED
        BY Zenon, <4>1, <4>2
    <3>2. ASSUME NEW j \in F, Returned(j) = location'[b]
          PROVE  FALSE
      <4>1. CASE job[j].cancelled
        <5>1. location'[b] = job[j].dst
          BY Zenon, <3>2, <4>1 DEF Returned
        <5>2. CASE migrating[b] \in F
          BY <1>4, <1>9, <1>10, <4>1, <5>1, <5>2 DEF DisjointInv
        <5>3. CASE migrating[b] \notin F
          BY <1>4, <1>9, <2>2, <5>1, <5>3 DEF DisjointInv
        <5>4. QED
          BY Zenon, <5>2, <5>3
      <4>2. CASE ~job[j].cancelled
        <5>1. location'[b] = location[job[j].id] /\ Live(job[j].id) /\ job[j].id \in BlockId
          BY Zenon, <1>10, <3>2, <4>2 DEF Returned
        <5>2. CASE migrating[b] \in F
          BY <1>4, <1>9, <5>1, <5>2 DEF DisjointInv
        <5>3. CASE migrating[b] \notin F
          BY <1>9, <1>10, <2>2, <4>2, <5>1, <5>3 DEF DisjointInv
        <5>4. QED
          BY Zenon, <5>2, <5>3
      <4>3. QED
        BY Zenon, <4>1, <4>2
    <3>3. QED
      BY Zenon, <1>11, <3>1, <3>2
  <2>3. ASSUME NEW j \in Q
        PROVE  free_slots'[job[j].dst] = 0
    <3>1. job[j].dst \in Slot /\ free_slots[job[j].dst] = 0
      BY Zenon, <1>3 DEF FreeInv, MigrationJob
    <3>2. ASSUME NEW k \in F PROVE Returned(k) # job[j].dst
      BY Zenon, <1>4, <1>10 DEF Returned, DisjointInv
    <3>3. QED
      BY Zenon, <1>11, <3>1, <3>2
  <2>4. QED
    BY Zenon, <1>6, <1>7, <1>15, <2>1, <2>2, <2>3 DEF FreeInv
<1>19. NoLeakInv'
  <2> SUFFICES ASSUME NEW s \in Slot, free_slots'[s] = 0
               PROVE  \/ \E b \in BlockId : Live(b) /\ location'[b] = s
                      \/ \E j \in Q : job[j].dst = s
    BY Zenon, <1>6, <1>7, <1>15 DEF NoLeakInv
  <2>1. free_slots[s] = 0 /\ \A j \in F : Returned(j) # s
    BY <1>11
  <2>2. CASE \E b \in BlockId : Live(b) /\ location[b] = s
    <3>1. PICK b \in BlockId : Live(b) /\ location[b] = s
      BY Zenon, <2>2
    <3>2. migrating[b] \notin F
      BY Zenon, <1>10, <2>1, <3>1 DEF Returned
    <3>3. QED
      BY Zenon, <1>9, <3>1, <3>2
  <2>3. CASE \E j \in Queued : job[j].dst = s
    <3>1. PICK j \in Queued : job[j].dst = s
      BY Zenon, <2>3
    <3>2. CASE j \in F
      <4>1. ~job[j].cancelled
        BY Zenon, <2>1, <3>1, <3>2 DEF Returned
      <4>2. /\ job[j].id \in BlockId
            /\ Live(job[j].id)
            /\ location'[job[j].id] = s
        BY <1>9, <1>10, <3>1, <3>2, <4>1
      <4>3. QED
        BY Zenon, <4>2
    <3>3. CASE j \notin F
      BY Zenon, <3>1, <3>3
    <3>4. QED
      BY Zenon, <3>2, <3>3
  <2>4. QED
    BY Zenon, <2>1, <2>2, <2>3 DEF NoLeakInv
<1>20. ClaimsAreExclusive'
  <2>1. /\ next_unclaimed \in Nat
        /\ next_unclaimed <= Len(jobs)
        /\ n <= next_unclaimed
        /\ next_unclaimed' = next_unclaimed - n
    BY Zenon, <1>cursor, <1>2
  <2>2. \A i \in 1 .. Len(jobs) - n : /\ jobs'[i] = jobs[n + i]
                                      /\ job'[jobs'[i]] = job[jobs[n + i]]
                                      /\ n + i \in 1 .. Len(jobs)
    <3> SUFFICES ASSUME NEW i \in 1 .. Len(jobs) - n
                 PROVE  /\ jobs'[i] = jobs[n + i]
                        /\ job'[jobs'[i]] = job[jobs[n + i]]
                        /\ n + i \in 1 .. Len(jobs)
      OBVIOUS
    <3>1. jobs'[i] = jobs[n + i] /\ n + i \in 1 .. Len(jobs) /\ i \in 1 .. Len(jobs')
      BY <1>5
    <3>2. jobs'[i] \in Q
      BY Zenon, <1>6, <3>1 DEF Queued
    <3>3. job'[jobs'[i]] = job[jobs'[i]]
      BY Zenon, <1>7, <3>2
    <3>4. QED
      BY Zenon, <3>1, <3>3
  <2>3. ASSUME NEW w \in Worker, wpc[w] # "wait"
        PROVE  \E i \in 1 .. next_unclaimed' :
                  jobs'[i] = wjob[w] /\ ~job'[jobs'[i]].done
    <3>1. PICK k \in 1 .. next_unclaimed : jobs[k] = wjob[w] /\ ~job[jobs[k]].done
      BY Zenon, <2>3 DEF ClaimsAreExclusive
    <3>2. ~(k \in 1 .. n)
      BY Zenon, <1>4, <3>1
    <3>3. /\ k - n \in 1 .. next_unclaimed'
          /\ k - n \in 1 .. Len(jobs) - n
          /\ n + (k - n) = k
      BY <1>5, <2>1, <3>2
    <3>4. jobs'[k - n] = wjob[w] /\ ~job'[jobs'[k - n]].done
      BY Zenon, <2>2, <3>1, <3>3
    <3>5. QED
      BY Zenon, <3>3, <3>4
  <2>4. ASSUME NEW i \in 1 .. Len(jobs) - n
        PROVE  IF i <= next_unclaimed'
               THEN job'[jobs'[i]].done
                    \/ \E w \in Worker : wpc[w] # "wait" /\ wjob[w] = jobs'[i]
               ELSE ~job'[jobs'[i]].done
    <3>1. i <= next_unclaimed' <=> n + i <= next_unclaimed
      BY <1>5, <2>1
    <3>2. QED
      BY Zenon, <2>2, <3>1 DEF ClaimsAreExclusive
  <2>5. next_unclaimed' <= Len(jobs')
    BY <1>5, <2>1
  <2>6. QED
    BY Zenon, <1>2, <1>5, <2>3, <2>4, <2>5 DEF ClaimsAreExclusive
<1>21. CopyInv'
  <2>1. ASSUME NEW w \in Worker, wpc[w] # "wait" PROVE wjob[w] \in Q
    BY Zenon, <1>4, <2>1, HeldJob
  <2>2. QED
    BY Zenon, <1>2, <1>6, <1>7, <2>1 DEF CopyInv
<1>22. QED
  BY Zenon, <1>12, <1>13, <1>14, <1>16, <1>17, <1>18, <1>19, <1>20, <1>21
=============================================================================
