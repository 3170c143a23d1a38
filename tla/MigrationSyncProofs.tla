------------------------- MODULE MigrationSyncProofs -------------------------
(***************************************************************************)
(* Proofs about the job queue for any number of workers and jobs.  SyncInv *)
(* is the inductive invariant, in three parts: who holds the mutex and who *)
(* sleeps (LockInv), what is queued, claimed and done (QueueInv), and why  *)
(* an unclaimed job is not forgotten (StrandInv).                          *)
(***************************************************************************)
EXTENDS MigrationSync, TLAPS

WorkerLabel == {"unborn", "lock", "check", "block", "asleep", "copy", "notify", "exited"}
StopLabel == {"stopnotify", "join", "gone"}
SchedulerLabel ==
    {"idle", "ensure", "spawn", "notify", "drain", "lock", "check", "block", "asleep",
     "settle"} \cup StopLabel

\* How many jobs drain_migrations has taken off the queue.
Popped == pushed - Len(jobs)

\* A thread that tests its predicate or is about to sleep has the mutex; a
\* thread waits for a notification only while asleep.
LockInv ==
    /\ mutex \in Thread \cup {Nil}
    /\ waiting \subseteq Thread
    /\ stopping \in BOOLEAN
    /\ threw \in BOOLEAN
    /\ DOMAIN pc = Thread
    /\ \A w \in Worker : pc[w] \in WorkerLabel
    /\ pc[Scheduler] \in SchedulerLabel
    /\ pc = [t \in Thread |-> pc[t]]
    /\ stopping <=> pc[Scheduler] \in StopLabel
    /\ \A t \in Thread : pc[t] \in {"check", "block"} <=> mutex = t
    /\ \A t \in waiting : pc[t] = "asleep"

\* The queue holds the last jobs pushed, in order; only claimed jobs are copied
\* or done; a wait that was satisfied stays so until its drain.
QueueInv ==
    /\ jobs \in Seq(1 .. MaxJobs)
    /\ pushed \in 0 .. MaxJobs
    /\ Len(jobs) <= pushed
    /\ \A i \in 1 .. Len(jobs) : jobs[i] = Popped + i
    /\ next_unclaimed \in 0 .. Len(jobs)
    /\ done \subseteq 1 .. Popped + next_unclaimed
    /\ held \in [Worker -> 0 .. MaxJobs]
    /\ \A w \in Worker : pc[w] = "copy" => held[w] \in 1 .. Popped + next_unclaimed
    /\ pc[Scheduler] = "settle" => AllDone

\* A worker that will look at the queue again unasked.
Active(w) == pc[w] \notin {"unborn", "block", "exited"} /\ w \notin waiting

Born(w) == pc[w] # "unborn"

\* A worker goes to sleep only over a fully claimed queue, and home only when
\* stopping.  While threads are being started, each that exists is active as
\* long as there is something to claim, which is why failing to start the
\* others needs no notification.  The last conjunct is NoStrandedJob.
StrandInv ==
    /\ \A w \in Worker : pc[w] = "block" => ~Unclaimed
    /\ \A w \in Worker : pc[w] = "exited" => stopping
    /\ pc[Scheduler] = "notify" => \E w \in Worker : Born(w)
    /\ threw => \A w \in Worker : ~Born(w)
    /\ pc[Scheduler] = "spawn" /\ Unclaimed => \A w \in Worker : Born(w) => Active(w)
    /\ Unclaimed /\ ~stopping =>
          \/ pc[Scheduler] \in {"ensure", "spawn", "notify"}
          \/ \E w \in Worker : Active(w)
          \/ threw

SyncInv == LockInv /\ QueueInv /\ StrandInv

(* What the drain leaves of a queue when it takes the first n.              *)
LEMMA DropFirst ==
    ASSUME NEW S, NEW s \in Seq(S), NEW n \in 0 .. Len(s)
    PROVE  /\ SubSeq(s, n + 1, Len(s)) \in Seq(S)
           /\ Len(SubSeq(s, n + 1, Len(s))) = Len(s) - n
           /\ \A i \in 1 .. Len(s) - n : SubSeq(s, n + 1, Len(s))[i] = s[n + i]
<1>1. Len(s) \in Nat /\ \A i \in n + 1 .. Len(s) : s[i] \in S
  OBVIOUS
<1>2. /\ SubSeq(s, n + 1, Len(s)) \in Seq(S)
      /\ Len(SubSeq(s, n + 1, Len(s)))
           = IF n + 1 <= Len(s) THEN Len(s) - (n + 1) + 1 ELSE 0
      /\ \A i \in 1 .. Len(s) - (n + 1) + 1 :
            SubSeq(s, n + 1, Len(s))[i] = s[(n + 1) + i - 1]
  BY <1>1
<1> QED
  BY <1>1, <1>2

(* Every step keeps the mutex and the sleepers in order.                    *)
LEMMA LockStep == LockInv /\ [Next]_vars => LockInv'
<1> SUFFICES ASSUME LockInv, [Next]_vars PROVE LockInv'
  OBVIOUS
<1> USE SyncAssumption DEF LockInv, Thread, WorkerLabel, SchedulerLabel, StopLabel, Goto
<1>1. ASSUME NEW t \in Thread, Lock(t) PROVE LockInv'
  BY <1>1 DEF Lock
<1>2. ASSUME NEW t \in Thread, Block(t) PROVE LockInv'
  BY <1>2 DEF Block
<1>3. ASSUME NEW t \in Thread, Wake(t) PROVE LockInv'
  BY <1>3 DEF Wake
<1>4. ASSUME NEW t \in Thread, SpuriousWake(t) PROVE LockInv'
  BY <1>4 DEF SpuriousWake
<1>5. ASSUME NEW w \in Worker, WorkerExit(w) PROVE LockInv'
  BY <1>5 DEF WorkerExit
<1>6. ASSUME NEW w \in Worker, WorkerClaim(w) PROVE LockInv'
  BY <1>6 DEF WorkerClaim
<1>7. ASSUME NEW w \in Worker, WorkerIdle(w) PROVE LockInv'
  BY <1>7 DEF WorkerIdle
<1>8. ASSUME NEW w \in Worker, WorkerStoreDone(w) PROVE LockInv'
  BY <1>8 DEF WorkerStoreDone
<1>9. ASSUME NEW w \in Worker, WorkerNotify(w) PROVE LockInv'
  BY <1>9 DEF WorkerNotify
<1>10. ASSUME Push PROVE LockInv'
  BY <1>10 DEF Push
<1>11. ASSUME EnsureWorker PROVE LockInv'
  BY <1>11 DEF EnsureWorker
<1>12. ASSUME NEW w \in Worker, StartWorker(w) PROVE LockInv'
  BY <1>12 DEF StartWorker
<1>13. ASSUME StartFails PROVE LockInv'
  BY <1>13 DEF StartFails
<1>14. ASSUME NotifyOne PROVE LockInv'
  BY <1>14 DEF NotifyOne
<1>15. ASSUME CallDrain PROVE LockInv'
  BY <1>15 DEF CallDrain
<1>16. ASSUME Drain PROVE LockInv'
  BY <1>16 DEF Drain
<1>17. ASSUME CallWait PROVE LockInv'
  BY <1>17 DEF CallWait
<1>18. ASSUME WaitSatisfied PROVE LockInv'
  <2>1. /\ mutex = Scheduler
        /\ mutex' = Nil
        /\ pc' = [pc EXCEPT ![Scheduler] = "settle"]
        /\ UNCHANGED <<waiting, stopping, threw>>
    BY <1>18 DEF WaitSatisfied
  <2>2. \A t \in Thread : pc'[t] \in {"check", "block"} <=> mutex' = t
    BY <2>1
  <2>3. \A t \in waiting' : pc'[t] = "asleep"
    BY <1>18, <2>1 DEF WaitSatisfied
  <2>4. /\ DOMAIN pc' = Thread
        /\ pc' = [t \in Thread |-> pc'[t]]
        /\ \A w \in Worker : pc'[w] \in WorkerLabel
        /\ pc'[Scheduler] = "settle"
    BY <2>1
  <2>5. ~stopping
    BY <1>18 DEF WaitSatisfied
  <2> QED
    BY <2>1, <2>2, <2>3, <2>4, <2>5
<1>19. ASSUME WaitUnsatisfied PROVE LockInv'
  BY <1>19 DEF WaitUnsatisfied
<1>20. ASSUME Stop PROVE LockInv'
  BY <1>20 DEF Stop
<1>21. ASSUME StopNotify PROVE LockInv'
  BY <1>21 DEF StopNotify
<1>22. ASSUME Join PROVE LockInv'
  BY <1>22 DEF Join
<1>23. ASSUME UNCHANGED vars PROVE LockInv'
  BY <1>23 DEF vars
<1> QED
  BY <1>1, <1>2, <1>3, <1>4, <1>5, <1>6, <1>7, <1>8, <1>9, <1>10, <1>11, <1>12, <1>13,
     <1>14, <1>15, <1>16, <1>17, <1>18, <1>19, <1>20, <1>21, <1>22, <1>23
  DEF Next, WorkerStep, SchedulerStep

\* The steps that leave the queue, the copies and the done flags alone, and
\* neither begin a copy nor reach "settle".
QueueIdle ==
    /\ UNCHANGED <<queueVars, done, held>>
    /\ \A w \in Worker : pc'[w] = "copy" => pc[w] = "copy"
    /\ pc'[Scheduler] = "settle" => pc[Scheduler] = "settle"

(* Such a step keeps QueueInv.                                              *)
LEMMA QueueIdleStep == QueueInv /\ QueueIdle => QueueInv'
  BY DEF QueueInv, QueueIdle, queueVars, Popped, AllDone

(* Every step keeps the queue in order; the drain of block_pool.cpp never   *)
(* moves the cursor below zero, because done implies claimed.               *)
LEMMA QueueStep == LockInv /\ QueueInv /\ [Next]_vars => QueueInv'
<1> SUFFICES ASSUME LockInv, QueueInv, [Next]_vars PROVE QueueInv'
  OBVIOUS
<1>0. /\ DOMAIN pc = Thread
      /\ Scheduler \in Thread
      /\ Worker \subseteq Thread
      /\ Scheduler \notin Worker
  BY SyncAssumption DEF LockInv, Thread
<1>1. ASSUME NEW t \in Thread, Lock(t) PROVE QueueIdle
  BY <1>0, <1>1 DEF Lock, QueueIdle, Goto
<1>2. ASSUME NEW t \in Thread, Block(t) PROVE QueueIdle
  BY <1>0, <1>2 DEF Block, QueueIdle, Goto
<1>3. ASSUME NEW t \in Thread, Wake(t) PROVE QueueIdle
  BY <1>0, <1>3 DEF Wake, QueueIdle, Goto
<1>4. ASSUME NEW t \in Thread, SpuriousWake(t) PROVE QueueIdle
  BY <1>0, <1>4 DEF SpuriousWake, QueueIdle, Goto
<1>5. ASSUME NEW w \in Worker, WorkerExit(w) PROVE QueueIdle
  BY <1>0, <1>5 DEF WorkerExit, QueueIdle, Goto
<1>6. ASSUME NEW w \in Worker, WorkerIdle(w) PROVE QueueIdle
  BY <1>0, <1>6 DEF WorkerIdle, QueueIdle, Goto
<1>7. ASSUME NEW w \in Worker, WorkerNotify(w) PROVE QueueIdle
  BY <1>0, <1>7 DEF WorkerNotify, QueueIdle, Goto
<1>8. ASSUME EnsureWorker PROVE QueueIdle
  BY <1>0, <1>8 DEF EnsureWorker, QueueIdle, Goto
<1>9. ASSUME NEW w \in Worker, StartWorker(w) PROVE QueueIdle
  BY <1>0, <1>9 DEF StartWorker, QueueIdle, Goto
<1>10. ASSUME StartFails PROVE QueueIdle
  BY <1>0, <1>10 DEF StartFails, QueueIdle, Goto
<1>11. ASSUME NotifyOne PROVE QueueIdle
  BY <1>0, <1>11 DEF NotifyOne, QueueIdle, Goto
<1>12. ASSUME CallDrain PROVE QueueIdle
  BY <1>0, <1>12 DEF CallDrain, QueueIdle, Goto
<1>13. ASSUME CallWait PROVE QueueIdle
  BY <1>0, <1>13 DEF CallWait, QueueIdle, Goto
<1>14. ASSUME WaitUnsatisfied PROVE QueueIdle
  BY <1>0, <1>14 DEF WaitUnsatisfied, QueueIdle, Goto
<1>15. ASSUME Stop PROVE QueueIdle
  BY <1>0, <1>15 DEF Stop, QueueIdle, Goto
<1>16. ASSUME StopNotify PROVE QueueIdle
  BY <1>0, <1>16 DEF StopNotify, QueueIdle, Goto
<1>17. ASSUME Join PROVE QueueIdle
  BY <1>0, <1>17 DEF Join, QueueIdle, Goto
<1>18. ASSUME UNCHANGED vars PROVE QueueIdle
  BY <1>18 DEF vars, QueueIdle, queueVars
<1> DEFINE claimed == Popped + next_unclaimed
<1>19. /\ Len(jobs) \in Nat /\ Popped \in Nat /\ next_unclaimed \in Nat
       /\ claimed \in Nat /\ claimed <= pushed /\ pushed \in Nat /\ pushed <= MaxJobs
  BY SyncAssumption DEF QueueInv, Popped
<1>20. ASSUME NEW w \in Worker, WorkerClaim(w) PROVE QueueInv'
  <2>1. /\ next_unclaimed' = next_unclaimed + 1
        /\ next_unclaimed < Len(jobs)
        /\ UNCHANGED <<jobs, pushed, done>>
        /\ held' = [held EXCEPT ![w] = jobs[next_unclaimed + 1]]
        /\ pc' = [pc EXCEPT ![w] = "copy"]
    BY <1>20 DEF WorkerClaim, Unclaimed, Goto
  <2>2. Popped' = Popped
    BY <2>1 DEF Popped
  <2>3. jobs[next_unclaimed + 1] = claimed + 1
    BY <1>19, <2>1 DEF QueueInv
  <2>4. claimed + 1 \in 0 .. MaxJobs /\ Popped' + next_unclaimed' = claimed + 1
    BY <1>19, <2>1, <2>2, SyncAssumption DEF Popped
  <2>5. held' \in [Worker -> 0 .. MaxJobs]
    BY <2>1, <2>3, <2>4 DEF QueueInv
  <2>6. ASSUME NEW v \in Worker, pc'[v] = "copy"
        PROVE  held'[v] \in 1 .. claimed + 1
    <3>1. CASE v = w
      BY <1>19, <2>1, <2>3, <3>1 DEF QueueInv
    <3>2. CASE v # w
      BY <1>0, <1>19, <2>1, <2>6, <3>2 DEF QueueInv
    <3> QED
      BY <3>1, <3>2
  <2>7. done' \subseteq 1 .. claimed + 1
    BY <1>19, <2>1 DEF QueueInv
  <2>8. next_unclaimed' \in 0 .. Len(jobs')
    BY <1>19, <2>1
  <2>9. pc'[Scheduler] = pc[Scheduler]
    BY <1>0, <2>1
  <2> QED
    BY <2>1, <2>2, <2>4, <2>5, <2>6, <2>7, <2>8, <2>9 DEF QueueInv, AllDone
<1>21. ASSUME NEW w \in Worker, WorkerStoreDone(w) PROVE QueueInv'
  <2>1. /\ pc[w] = "copy"
        /\ done' = done \cup {held[w]}
        /\ held' = [held EXCEPT ![w] = 0]
        /\ pc' = [pc EXCEPT ![w] = "notify"]
        /\ UNCHANGED <<jobs, pushed, next_unclaimed>>
    BY <1>21 DEF WorkerStoreDone, Goto, queueVars
  <2>2. Popped' = Popped /\ Popped' + next_unclaimed' = claimed
    BY <2>1 DEF Popped
  <2>3. done' \subseteq 1 .. claimed
    BY <2>1 DEF QueueInv
  <2>4. held' \in [Worker -> 0 .. MaxJobs]
    BY <2>1, SyncAssumption DEF QueueInv
  <2>5. \A v \in Worker : pc'[v] = "copy" => held'[v] \in 1 .. claimed
    BY <1>0, <2>1 DEF QueueInv
  <2>6. pc'[Scheduler] = "settle" => AllDone'
    BY <1>0, <2>1 DEF QueueInv, AllDone
  <2> QED
    BY <2>1, <2>2, <2>3, <2>4, <2>5, <2>6 DEF QueueInv
<1>22. ASSUME Push PROVE QueueInv'
  <2>1. /\ pushed' = pushed + 1
        /\ pushed < MaxJobs
        /\ jobs' = Append(jobs, pushed + 1)
        /\ pc' = [pc EXCEPT ![Scheduler] = "ensure"]
        /\ UNCHANGED <<next_unclaimed, done, held>>
    BY <1>22 DEF Push, Goto
  <2>2. pushed + 1 \in 1 .. MaxJobs /\ jobs \in Seq(1 .. MaxJobs)
    BY <1>19, <2>1, SyncAssumption DEF QueueInv
  <2>3. /\ jobs' \in Seq(1 .. MaxJobs)
        /\ Len(jobs') = Len(jobs) + 1
        /\ \A i \in 1 .. Len(jobs) : jobs'[i] = jobs[i]
        /\ jobs'[Len(jobs) + 1] = pushed + 1
    BY <2>1, <2>2
  <2>4. Popped' = Popped
    BY <1>19, <2>1, <2>3 DEF Popped
  <2>5. \A i \in 1 .. Len(jobs') : jobs'[i] = Popped + i
    <3> SUFFICES ASSUME NEW i \in 1 .. Len(jobs') PROVE jobs'[i] = Popped + i
      OBVIOUS
    <3>1. CASE i \in 1 .. Len(jobs)
      BY <2>3, <3>1 DEF QueueInv
    <3>2. CASE i = Len(jobs) + 1
      BY <1>19, <2>3, <3>2 DEF Popped
    <3> QED
      BY <1>19, <2>3, <3>1, <3>2
  <2>6. \A v \in Worker : pc'[v] = pc[v]
    BY <1>0, <2>1
  <2>7. pc'[Scheduler] # "settle"
    BY <1>0, <2>1
  <2>8. pushed' \in 0 .. MaxJobs /\ Len(jobs') <= pushed'
        /\ next_unclaimed' \in 0 .. Len(jobs')
    BY <1>19, <2>1, <2>3, SyncAssumption DEF QueueInv
  <2> QED
    BY <2>1, <2>3, <2>4, <2>5, <2>6, <2>7, <2>8 DEF QueueInv
<1>23. ASSUME WaitSatisfied PROVE QueueInv'
  <2>1. AllDone /\ UNCHANGED <<jobs, pushed, next_unclaimed, done, held>>
        /\ \A v \in Worker : pc'[v] = pc[v]
    BY <1>0, <1>23 DEF WaitSatisfied, Goto, queueVars
  <2> QED
    BY <2>1 DEF QueueInv, AllDone, Popped
<1>24. ASSUME Drain PROVE QueueInv'
  <2>1. PICK n \in 0 .. Len(jobs) :
          /\ DonePrefix(n)
          /\ jobs' = SubSeq(jobs, n + 1, Len(jobs))
          /\ next_unclaimed' = next_unclaimed - n
    BY <1>24 DEF Drain
  <2>0. n \in Nat /\ n <= Len(jobs)
    BY <1>19
  <2>2. /\ pc' = [pc EXCEPT ![Scheduler] = "idle"]
        /\ UNCHANGED <<pushed, done, held>>
    BY <1>24 DEF Drain, Goto
  <2>3. /\ jobs' \in Seq(1 .. MaxJobs)
        /\ Len(jobs') = Len(jobs) - n
        /\ \A i \in 1 .. Len(jobs) - n : jobs'[i] = jobs[n + i]
    <3>1. jobs \in Seq(1 .. MaxJobs)
      BY DEF QueueInv
    <3> QED
      BY <2>1, <3>1, DropFirst
  <2>4. n <= next_unclaimed
    <3>1. CASE n = 0
      BY <1>19, <3>1
    <3>2. CASE n # 0
      <4>1. n \in 1 .. n /\ n \in 1 .. Len(jobs)
        BY <1>19, <3>2
      <4>2. jobs[n] \in done /\ jobs[n] = Popped + n
        BY <2>1, <4>1 DEF DonePrefix, QueueInv
      <4> QED
        BY <1>19, <4>1, <4>2 DEF QueueInv
    <3> QED
      BY <3>1, <3>2
  <2>5. Popped' = Popped + n
    BY <1>19, <2>0, <2>2, <2>3 DEF Popped
  <2>9. Popped' + next_unclaimed' = claimed
    BY <1>19, <2>0, <2>1, <2>5
  <2>6. \A i \in 1 .. Len(jobs') : jobs'[i] = Popped' + i
    <3> SUFFICES ASSUME NEW i \in 1 .. Len(jobs') PROVE jobs'[i] = Popped' + i
      OBVIOUS
    <3>1. i \in 1 .. Len(jobs) - n /\ n + i \in 1 .. Len(jobs)
      BY <1>19, <2>3
    <3>2. jobs'[i] = Popped + (n + i)
      BY <2>3, <3>1 DEF QueueInv
    <3> QED
      BY <1>19, <2>5, <3>2
  <2>7. next_unclaimed' \in 0 .. Len(jobs') /\ Len(jobs') <= pushed'
    BY <1>19, <2>1, <2>2, <2>3, <2>4 DEF QueueInv
  <2>8. pc'[Scheduler] # "settle" /\ \A v \in Worker : pc'[v] = pc[v]
    BY <1>0, <2>2
  <2> QED
    <3>1. \A v \in Worker : pc'[v] = "copy" => held'[v] \in 1 .. Popped' + next_unclaimed'
      BY <2>2, <2>8, <2>9 DEF QueueInv
    <3>2. done' \subseteq 1 .. Popped' + next_unclaimed'
      BY <2>2, <2>9 DEF QueueInv
    <3>3. held' \in [Worker -> 0 .. MaxJobs] /\ pushed' \in 0 .. MaxJobs
      BY <2>2 DEF QueueInv
    <3> QED
      BY <2>3, <2>6, <2>7, <2>8, <3>1, <3>2, <3>3 DEF QueueInv
<1> QED
  <2>1. QueueIdle => QueueInv'
    BY QueueIdleStep
  <2> QED
    <3>1. ASSUME NEW w \in Worker, WorkerStep(w) PROVE QueueInv'
      BY <1>0, <1>1, <1>2, <1>3, <1>5, <1>6, <1>7, <1>20, <1>21, <2>1, <3>1, Zenon
      DEF WorkerStep
    <3>2. ASSUME SchedulerStep PROVE QueueInv'
      BY <1>0, <1>1, <1>2, <1>3, <1>8, <1>9, <1>11, <1>14, <1>16, <1>17, <1>23, <1>24,
         <2>1, <3>2, Zenon
      DEF SchedulerStep
    <3> QED
      BY <1>4, <1>10, <1>12, <1>13, <1>15, <1>18, <1>22, <2>1, <3>1, <3>2, Zenon DEF Next

\* A step that takes no excuse away: it queues nothing, starts nobody, and sends
\* a worker to sleep or home only if there is nothing for it.
Quiet ==
    /\ Unclaimed' => Unclaimed
    /\ stopping => stopping'
    /\ threw' = threw
    /\ \A w \in Worker : /\ Born(w)' <=> Born(w)
                         /\ pc'[w] = "block" => pc[w] = "block" \/ ~Unclaimed'
                         /\ pc'[w] = "exited" => pc[w] = "exited" \/ stopping'
                         /\ Active(w) /\ Unclaimed' /\ ~stopping' => Active(w)'
    /\ pc[Scheduler] \in {"ensure", "spawn", "notify"} => pc'[Scheduler] = pc[Scheduler]
    /\ pc'[Scheduler] = "notify" => pc[Scheduler] = "notify"
    /\ pc'[Scheduler] = "spawn" => pc[Scheduler] = "spawn" /\ ~stopping'

(* Such a step strands nobody.                                              *)
LEMMA QuietStep == StrandInv /\ Quiet => StrandInv'
<1> SUFFICES ASSUME StrandInv, Quiet PROVE StrandInv'
  OBVIOUS
<1>1. \A w \in Worker : pc'[w] = "block" => ~Unclaimed'
  BY DEF StrandInv, Quiet
<1>2. \A w \in Worker : pc'[w] = "exited" => stopping'
  BY DEF StrandInv, Quiet
<1>3. pc'[Scheduler] = "notify" => \E w \in Worker : Born(w)'
  BY DEF StrandInv, Quiet
<1>4. threw' => \A w \in Worker : ~Born(w)'
  BY DEF StrandInv, Quiet
<1>5. pc'[Scheduler] = "spawn" /\ Unclaimed' => \A w \in Worker : Born(w)' => Active(w)'
  BY DEF StrandInv, Quiet
<1>6. Unclaimed' /\ ~stopping' =>
         \/ pc'[Scheduler] \in {"ensure", "spawn", "notify"}
         \/ \E w \in Worker : Active(w)'
         \/ threw'
  BY DEF StrandInv, Quiet
<1> QED
  BY <1>1, <1>2, <1>3, <1>4, <1>5, <1>6 DEF StrandInv

(* No step strands a job: one notify_one per job suffices.                  *)
LEMMA StrandStep == SyncInv /\ [Next]_vars /\ LockInv' => StrandInv'
<1> SUFFICES ASSUME LockInv, QueueInv, StrandInv, [Next]_vars, LockInv' PROVE StrandInv'
  BY DEF SyncInv
<1>0. /\ DOMAIN pc = Thread
      /\ Scheduler \in Thread
      /\ Worker \subseteq Thread
      /\ Scheduler \notin Worker
      /\ pc'[Scheduler] = "spawn" => ~stopping'
      /\ pc[Scheduler] \in {"ensure", "spawn", "notify"} => ~stopping
  BY SyncAssumption DEF LockInv, Thread, StopLabel
<1>1. ASSUME NEW t \in Thread, Lock(t) PROVE Quiet
  BY <1>0, <1>1 DEF Lock, Quiet, Born, Active, Goto, Unclaimed, queueVars, LockInv
<1>2. ASSUME NEW t \in Thread, Block(t) PROVE Quiet
  BY <1>0, <1>2 DEF Block, Quiet, Born, Active, Goto, Unclaimed, queueVars, LockInv
<1>3. ASSUME NEW t \in Thread, Wake(t) PROVE Quiet
  BY <1>0, <1>3 DEF Wake, Quiet, Born, Active, Goto, Unclaimed, queueVars, LockInv
<1>4. ASSUME NEW t \in Thread, SpuriousWake(t) PROVE Quiet
  BY <1>0, <1>4 DEF SpuriousWake, Quiet, Born, Active, Goto, Unclaimed, queueVars, LockInv
<1>5. ASSUME NEW w \in Worker, WorkerExit(w) PROVE Quiet
  BY <1>0, <1>5 DEF WorkerExit, Quiet, Born, Active, Goto, Unclaimed, queueVars, LockInv
<1>6. ASSUME NEW w \in Worker, WorkerClaim(w) PROVE Quiet
  BY <1>0, <1>6 DEF WorkerClaim, Quiet, Born, Active, Goto, Unclaimed, queueVars, LockInv
<1>7. ASSUME NEW w \in Worker, WorkerIdle(w) PROVE Quiet
  BY <1>0, <1>7 DEF WorkerIdle, Quiet, Born, Active, Goto, Unclaimed, queueVars, LockInv
<1>8. ASSUME NEW w \in Worker, WorkerStoreDone(w) PROVE Quiet
  BY <1>0, <1>8 DEF WorkerStoreDone, Quiet, Born, Active, Goto, Unclaimed, queueVars, LockInv
<1>9. ASSUME NEW w \in Worker, WorkerNotify(w) PROVE Quiet
  BY <1>0, <1>9 DEF WorkerNotify, Quiet, Born, Active, Goto, Unclaimed, queueVars, LockInv
<1>10. ASSUME CallDrain PROVE Quiet
  BY <1>0, <1>10 DEF CallDrain, Quiet, Born, Active, Goto, Unclaimed, queueVars, LockInv
<1>11. ASSUME Drain PROVE Quiet
  <2>1. PICK n \in 0 .. Len(jobs) :
          jobs' = SubSeq(jobs, n + 1, Len(jobs)) /\ next_unclaimed' = next_unclaimed - n
    BY <1>11 DEF Drain
  <2>2. Len(jobs') = Len(jobs) - n /\ Len(jobs) \in Nat /\ next_unclaimed \in Nat
    BY <2>1, DropFirst DEF QueueInv
  <2>3. Unclaimed' => Unclaimed
    BY <2>1, <2>2 DEF Unclaimed
  <2> QED
    BY <1>0, <1>11, <2>3 DEF Drain, Quiet, Born, Active, Goto
<1>12. ASSUME CallWait PROVE Quiet
  BY <1>0, <1>12 DEF CallWait, Quiet, Born, Active, Goto, Unclaimed, queueVars, LockInv
<1>13. ASSUME WaitSatisfied PROVE Quiet
  BY <1>0, <1>13 DEF WaitSatisfied, Quiet, Born, Active, Goto, Unclaimed, queueVars, LockInv
<1>14. ASSUME WaitUnsatisfied PROVE Quiet
  BY <1>0, <1>14 DEF WaitUnsatisfied, Quiet, Born, Active, Goto, Unclaimed, queueVars, LockInv
<1>15. ASSUME Stop PROVE Quiet
  BY <1>0, <1>15 DEF Stop, Quiet, Born, Active, Goto, Unclaimed, queueVars, LockInv
<1>16. ASSUME StopNotify PROVE Quiet
  BY <1>0, <1>16 DEF StopNotify, Quiet, Born, Active, Goto, Unclaimed, queueVars, LockInv
<1>17. ASSUME Join PROVE Quiet
  BY <1>0, <1>17 DEF Join, Quiet, Born, Active, Goto, Unclaimed, queueVars, LockInv
<1>18. ASSUME UNCHANGED vars PROVE Quiet
  BY <1>0, <1>18 DEF vars, Quiet, Born, Active, Unclaimed
<1>19. ASSUME Push PROVE StrandInv'
  BY <1>0, <1>19, SyncAssumption DEF Push, StrandInv, Born, Active, Goto, Unclaimed, LockInv
<1>20. ASSUME EnsureWorker PROVE StrandInv'
  BY <1>0, <1>20 DEF EnsureWorker, Started, StrandInv, Born, Active, Goto, Unclaimed, queueVars
<1>21. ASSUME NEW w \in Worker, StartWorker(w) PROVE StrandInv'
  BY <1>0, <1>21 DEF StartWorker, Started, StrandInv, Born, Active, Unclaimed, queueVars, LockInv
<1>22. ASSUME StartFails PROVE StrandInv'
  BY <1>0, <1>22 DEF StartFails, Started, StrandInv, Born, Active, Goto, Unclaimed, queueVars
<1>23. ASSUME NotifyOne PROVE StrandInv'
  <2>1. /\ pc[Scheduler] = "notify" /\ pc'[Scheduler] = "idle"
        /\ \A w \in Worker : pc'[w] = pc[w]
        /\ waiting' \subseteq waiting
        /\ UNCHANGED <<stopping, threw>>
        /\ Unclaimed' = Unclaimed
    BY <1>0, <1>23 DEF NotifyOne, Goto, Unclaimed, queueVars
  <2>2. PICK v \in Worker : Born(v)
    BY <2>1 DEF StrandInv
  <2>3. ~threw
    BY <2>2 DEF StrandInv
  <2>4. ASSUME Unclaimed, ~stopping PROVE \E w \in Worker : Active(w)'
    <3>1. CASE waiting = {}
      <4>1. Active(v)'
        BY <2>1, <2>2, <2>4, <3>1 DEF StrandInv, Born, Active
      <4> QED
        BY <4>1
    <3>2. CASE waiting # {}
      <4>1. PICK t \in waiting : waiting' = waiting \ {t}
        BY <1>23, <3>2 DEF NotifyOne
      <4>2. t \in Worker /\ pc[t] = "asleep"
        BY <2>1 DEF LockInv, Thread
      <4>3. Active(t)'
        BY <2>1, <4>1, <4>2 DEF Active
      <4> QED
        BY <4>2, <4>3
    <3> QED
      BY <3>1, <3>2
  <2> QED
    BY <2>1, <2>3, <2>4 DEF StrandInv, Born
<1> QED
  <2>1. Quiet => StrandInv'
    BY QuietStep
  <2> QED
    <3>1. ASSUME NEW w \in Worker, WorkerStep(w) PROVE StrandInv'
      BY <1>0, <1>1, <1>2, <1>3, <1>5, <1>6, <1>7, <1>8, <1>9, <2>1, <3>1, Zenon
      DEF WorkerStep
    <3>2. ASSUME SchedulerStep PROVE StrandInv'
      BY <1>0, <1>1, <1>2, <1>3, <1>11, <1>13, <1>14, <1>16, <1>17, <1>20, <1>21, <1>23,
         <2>1, <3>2, Zenon
      DEF SchedulerStep
    <3> QED
      BY <1>4, <1>10, <1>12, <1>15, <1>18, <1>19, <1>22, <2>1, <3>1, <3>2, Zenon DEF Next

(* The invariant holds of a new pool.                                       *)
LEMMA SyncInit == Init => SyncInv
<1> SUFFICES ASSUME Init PROVE SyncInv
  OBVIOUS
<1>1. LockInv
  BY SyncAssumption DEF Init, LockInv, Thread, WorkerLabel, SchedulerLabel, StopLabel
<1>2. QueueInv
  BY SyncAssumption DEF Init, QueueInv, Popped, Thread
<1>3. StrandInv
  BY SyncAssumption DEF Init, StrandInv, Born, Unclaimed, Thread
<1> QED
  BY <1>1, <1>2, <1>3 DEF SyncInv

(* The invariant is inductive.                                              *)
LEMMA SyncStep == SyncInv /\ [Next]_vars => SyncInv'
  BY LockStep, QueueStep, StrandStep DEF SyncInv

(* The invariant holds always.                                              *)
LEMMA Invariance == Spec => []SyncInv
  BY SyncInit, SyncStep, PTL DEF Spec

(* The queue, the lock and the threads have their types; the claim cursor   *)
(* of worker_loop and drain_migrations stays inside the queue.              *)
THEOREM TypeCorrect == Spec => []TypeOK
<1>1. SyncInv => TypeOK
  <2> SUFFICES ASSUME LockInv, QueueInv PROVE TypeOK
    BY DEF SyncInv
  <2>1. pc \in [Thread -> {"unborn", "idle", "lock", "check", "block", "asleep",
                          "copy", "notify", "exited", "ensure", "spawn",
                          "drain", "settle", "stopnotify", "join", "gone"}]
    BY DEF LockInv, Thread, WorkerLabel, SchedulerLabel, StopLabel
  <2>2. done \subseteq 1 .. MaxJobs
    BY SyncAssumption DEF QueueInv, Popped
  <2> QED
    BY <2>1, <2>2 DEF TypeOK, LockInv, QueueInv
<1> QED
  BY <1>1, Invariance, PTL

(* No job is stranded, for any number of workers and jobs: migrate_async    *)
(* wakes somebody for every job, also when creating threads fails half way. *)
THEOREM NobodyStranded == Spec => []NoStrandedJob
<1>1. SyncInv => NoStrandedJob
  BY DEF SyncInv, StrandInv, NoStrandedJob, Active, Born, Started
<1> QED
  BY <1>1, Invariance, PTL

(* wait_for_migrations returns with an empty queue.                         *)
THEOREM WaitLeavesNothing == Spec => WaitEmptiesQueue
<1>1. SyncInv /\ [Next]_vars =>
        [pc[Scheduler] = "settle" /\ pc'[Scheduler] = "idle" => jobs' = << >>]_vars
  <2> SUFFICES ASSUME SyncInv, Next, pc[Scheduler] = "settle", pc'[Scheduler] = "idle"
               PROVE  jobs' = << >>
    BY DEF vars
  <2>1. Drain
    BY SyncAssumption
    DEF SyncInv, LockInv, Thread, Next, WorkerStep, SchedulerStep, Lock, Block, Wake,
        SpuriousWake, WorkerExit, WorkerClaim, WorkerIdle, WorkerStoreDone, WorkerNotify,
        Push, EnsureWorker, StartWorker, StartFails, NotifyOne, CallDrain, CallWait,
        WaitSatisfied, WaitUnsatisfied, Stop, StopNotify, Join, Goto
  <2>2. PICK n \in 0 .. Len(jobs) :
          DonePrefix(n) /\ jobs' = SubSeq(jobs, n + 1, Len(jobs))
    BY <2>1 DEF Drain
  <2>3. AllDone /\ jobs \in Seq(1 .. MaxJobs) /\ Len(jobs) \in Nat
    BY DEF SyncInv, QueueInv
  <2>4. n = Len(jobs)
    BY <2>2, <2>3 DEF DonePrefix, AllDone
  <2>5. jobs' \in Seq(1 .. MaxJobs) /\ Len(jobs') = 0
    BY <2>2, <2>3, <2>4, DropFirst
  <2> QED
    BY <2>5
<1> QED
  BY <1>1, Invariance, PTL DEF Spec, WaitEmptiesQueue
=============================================================================
