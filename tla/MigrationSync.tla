--------------------------- MODULE MigrationSync ---------------------------
(***************************************************************************)
(* How the scheduler thread and the migration workers of a BlockPool share *)
(* the job queue (src/src/block_pool.cpp): queue_mutex_, queue_cv_, the    *)
(* claim cursor, and the done flags, which are atomics set without the     *)
(* mutex.  Every lock, wait and notify is a step of its own, so a          *)
(* notification can fall between a thread's test of its predicate and its  *)
(* going to sleep.  Which block a job moves is the subject of BlockPool.   *)
(***************************************************************************)
EXTENDS Naturals, Sequences

CONSTANTS
    Worker,     \* the migration threads
    Scheduler,  \* the thread that owns the pool
    Nil,        \* nobody
    MaxJobs     \* bound: migrate_async is called at most this often

ASSUME SyncAssumption ==
    /\ Scheduler \notin Worker
    /\ Nil \notin Worker \cup {Scheduler}
    /\ MaxJobs \in Nat

VARIABLES
    mutex,          \* the thread that holds queue_mutex_, or Nil
    waiting,        \* threads asleep on queue_cv_ that nobody has notified
    jobs,           \* the queue of job numbers, front first
    pushed,         \* how many jobs were ever queued; numbers the next
    next_unclaimed, \* the claim cursor
    done,           \* jobs whose done flag is set
    stopping,       \* stopping_
    pc,             \* where each thread is
    held,           \* the job each worker copies, or 0
    threw           \* no thread could be created, and migrate_async threw

vars == <<mutex, waiting, jobs, pushed, next_unclaimed, done, stopping, pc, held,
          threw>>
queueVars == <<jobs, pushed, next_unclaimed>>

Thread == Worker \cup {Scheduler}

\* The threads in workers_.
Started == {w \in Worker : pc[w] # "unborn"}

Init ==
    /\ mutex = Nil
    /\ waiting = {}
    /\ jobs = << >>
    /\ pushed = 0
    /\ next_unclaimed = 0
    /\ done = {}
    /\ stopping = FALSE
    /\ pc = [t \in Thread |-> IF t = Scheduler THEN "idle" ELSE "unborn"]
    /\ held = [w \in Worker |-> 0]
    /\ threw = FALSE

Goto(t, l) == pc' = [pc EXCEPT ![t] = l]

------------------------------------------------------------------------------
(* queue_cv_.wait(lk, pred): the caller holds the mutex at "check".  If the *)
(* predicate fails it goes on to "block", still holding it, and only there  *)
(* releases it and falls asleep in one step.                                *)

Lock(t) ==
    /\ pc[t] = "lock"
    /\ mutex = Nil
    /\ mutex' = t
    /\ Goto(t, "check")
    /\ UNCHANGED <<waiting, queueVars, done, stopping, held, threw>>

Block(t) ==
    /\ pc[t] = "block"
    /\ mutex' = Nil
    /\ waiting' = waiting \cup {t}
    /\ Goto(t, "asleep")
    /\ UNCHANGED <<queueVars, done, stopping, held, threw>>

Wake(t) ==
    /\ pc[t] = "asleep"
    /\ t \notin waiting
    /\ mutex = Nil
    /\ mutex' = t
    /\ Goto(t, "check")
    /\ UNCHANGED <<waiting, queueVars, done, stopping, held, threw>>

\* A condition variable may wake a thread for no reason.
SpuriousWake(t) ==
    /\ t \in waiting
    /\ waiting' = waiting \ {t}
    /\ UNCHANGED <<mutex, queueVars, done, stopping, pc, held, threw>>

------------------------------------------------------------------------------
(* worker_loop                                                              *)

Unclaimed == next_unclaimed < Len(jobs)

WorkerExit(w) ==
    /\ pc[w] = "check"
    /\ stopping
    /\ mutex' = Nil
    /\ Goto(w, "exited")
    /\ UNCHANGED <<waiting, queueVars, done, stopping, held, threw>>

WorkerClaim(w) ==
    /\ pc[w] = "check"
    /\ ~stopping
    /\ Unclaimed
    /\ held' = [held EXCEPT ![w] = jobs[next_unclaimed + 1]]
    /\ next_unclaimed' = next_unclaimed + 1
    /\ mutex' = Nil
    /\ Goto(w, "copy")
    /\ UNCHANGED <<waiting, jobs, pushed, done, stopping, threw>>

WorkerIdle(w) ==
    /\ pc[w] = "check"
    /\ ~stopping
    /\ ~Unclaimed
    /\ Goto(w, "block")
    /\ UNCHANGED <<mutex, waiting, queueVars, done, stopping, held, threw>>

\* The copy, then done.store(true): no mutex is held.
WorkerStoreDone(w) ==
    /\ pc[w] = "copy"
    /\ done' = done \cup {held[w]}
    /\ held' = [held EXCEPT ![w] = 0]
    /\ Goto(w, "notify")
    /\ UNCHANGED <<mutex, waiting, queueVars, stopping, threw>>

\* notify_all, still without the mutex.
WorkerNotify(w) ==
    /\ pc[w] = "notify"
    /\ waiting' = {}
    /\ Goto(w, "lock")
    /\ UNCHANGED <<mutex, queueVars, done, stopping, held, threw>>

WorkerStep(w) ==
    \/ Lock(w) \/ Block(w) \/ Wake(w)
    \/ WorkerExit(w) \/ WorkerClaim(w) \/ WorkerIdle(w)
    \/ WorkerStoreDone(w) \/ WorkerNotify(w)

------------------------------------------------------------------------------
(* The scheduler: migrate_async, drain_migrations, wait_for_migrations and  *)
(* the destructor, in any order its callers choose.                         *)

\* migrate_async queues the job under the mutex, then starts the workers if
\* this is the first job, then notifies one sleeper.
Push ==
    /\ pc[Scheduler] = "idle"
    /\ mutex = Nil
    /\ pushed < MaxJobs
    /\ pushed' = pushed + 1
    /\ jobs' = Append(jobs, pushed + 1)
    /\ Goto(Scheduler, "ensure")
    /\ UNCHANGED <<mutex, waiting, next_unclaimed, done, stopping, held, threw>>

EnsureWorker ==
    /\ pc[Scheduler] = "ensure"
    /\ Goto(Scheduler, IF Started = {} THEN "spawn" ELSE "notify")
    /\ UNCHANGED <<mutex, waiting, queueVars, done, stopping, held, threw>>

\* One turn of ensure_worker's loop.
StartWorker(w) ==
    /\ pc[Scheduler] = "spawn"
    /\ pc[w] = "unborn"
    /\ pc' = [pc EXCEPT ![w] = "lock",
                        ![Scheduler] = IF Started \cup {w} = Worker THEN "notify"
                                       ELSE "spawn"]
    /\ threw' = FALSE
    /\ UNCHANGED <<mutex, waiting, queueVars, done, stopping, held>>

\* The system has no thread to give.  The exception leaves migrate_async with
\* the job queued and nobody notified; only threads that were created before
\* it stay, and no later call adds to them.
StartFails ==
    /\ pc[Scheduler] = "spawn"
    /\ threw' = (Started = {})
    /\ Goto(Scheduler, "idle")
    /\ UNCHANGED <<mutex, waiting, queueVars, done, stopping, held>>

\* Mutant of NotifyOne: nobody is notified.
NotifyNobody ==
    /\ pc[Scheduler] = "notify"
    /\ Goto(Scheduler, "idle")
    /\ UNCHANGED <<mutex, waiting, queueVars, done, stopping, held, threw>>

NotifyOne ==
    /\ pc[Scheduler] = "notify"
    /\ \/ waiting = {} /\ UNCHANGED waiting
       \/ \E t \in waiting : waiting' = waiting \ {t}
    /\ Goto(Scheduler, "idle")
    /\ UNCHANGED <<mutex, queueVars, done, stopping, held, threw>>

\* The done jobs at the front of the queue are its first n.
DonePrefix(n) ==
    /\ \A i \in 1 .. n : jobs[i] \in done
    /\ n < Len(jobs) => jobs[n + 1] \notin done

CallDrain ==
    /\ pc[Scheduler] = "idle"
    /\ Goto(Scheduler, "drain")
    /\ UNCHANGED <<mutex, waiting, queueVars, done, stopping, held, threw>>

\* Mutant of Drain: the claim cursor is not moved back.
DrainKeepsCursor ==
    /\ pc[Scheduler] \in {"drain", "settle"}
    /\ jobs = << >> \/ mutex = Nil
    /\ \E n \in 0 .. Len(jobs) :
          /\ DonePrefix(n)
          /\ jobs' = SubSeq(jobs, n + 1, Len(jobs))
    /\ Goto(Scheduler, "idle")
    /\ UNCHANGED <<mutex, waiting, pushed, next_unclaimed, done, stopping, held, threw>>

\* drain_migrations: called by itself, or as the last thing that
\* wait_for_migrations does.  An empty queue is seen without the mutex.
Drain ==
    /\ pc[Scheduler] \in {"drain", "settle"}
    /\ jobs = << >> \/ mutex = Nil
    /\ \E n \in 0 .. Len(jobs) :
          /\ DonePrefix(n)
          /\ jobs' = SubSeq(jobs, n + 1, Len(jobs))
          /\ next_unclaimed' = next_unclaimed - n
    /\ Goto(Scheduler, "idle")
    /\ UNCHANGED <<mutex, waiting, pushed, done, stopping, held, threw>>

CallWait ==
    /\ pc[Scheduler] = "idle"
    /\ Goto(Scheduler, "lock")
    /\ UNCHANGED <<mutex, waiting, queueVars, done, stopping, held, threw>>

\* Mutant of AllDone: the last job is taken to be the last to finish.
LastDone == jobs # << >> => jobs[Len(jobs)] \in done

AllDone == \A i \in 1 .. Len(jobs) : jobs[i] \in done

WaitSatisfied ==
    /\ pc[Scheduler] = "check"
    /\ AllDone
    /\ mutex' = Nil
    /\ Goto(Scheduler, "settle")
    /\ UNCHANGED <<waiting, queueVars, done, stopping, held, threw>>

WaitUnsatisfied ==
    /\ pc[Scheduler] = "check"
    /\ ~AllDone
    /\ Goto(Scheduler, "block")
    /\ UNCHANGED <<mutex, waiting, queueVars, done, stopping, held, threw>>

\* ~BlockPool: stopping_ under the mutex, notify_all, join every worker.
Stop ==
    /\ pc[Scheduler] = "idle"
    /\ mutex = Nil
    /\ stopping' = TRUE
    /\ Goto(Scheduler, "stopnotify")
    /\ UNCHANGED <<mutex, waiting, queueVars, done, held, threw>>

\* Mutant of StopNotify: one worker is notified.
StopNotifyOne ==
    /\ pc[Scheduler] = "stopnotify"
    /\ \/ waiting = {} /\ UNCHANGED waiting
       \/ \E t \in waiting : waiting' = waiting \ {t}
    /\ Goto(Scheduler, "join")
    /\ UNCHANGED <<mutex, queueVars, done, stopping, held, threw>>

StopNotify ==
    /\ pc[Scheduler] = "stopnotify"
    /\ waiting' = {}
    /\ Goto(Scheduler, "join")
    /\ UNCHANGED <<mutex, queueVars, done, stopping, held, threw>>

Join ==
    /\ pc[Scheduler] = "join"
    /\ \A w \in Worker : pc[w] \in {"unborn", "exited"}
    /\ Goto(Scheduler, "gone")
    /\ UNCHANGED <<mutex, waiting, queueVars, done, stopping, held, threw>>

\* The steps of a call that has begun; starting a call is up to the callers.
SchedulerStep ==
    \/ EnsureWorker \/ NotifyOne \/ \E w \in Worker : StartWorker(w)
    \/ Drain
    \/ Lock(Scheduler) \/ Block(Scheduler) \/ Wake(Scheduler)
    \/ WaitSatisfied \/ WaitUnsatisfied
    \/ StopNotify \/ Join

------------------------------------------------------------------------------
Next ==
    \/ \E w \in Worker : WorkerStep(w)
    \/ \E t \in Thread : SpuriousWake(t)
    \/ SchedulerStep
    \/ Push \/ CallDrain \/ CallWait \/ Stop \/ StartFails

\* Every thread keeps running, and a thread that wants the mutex gets it once
\* it is free often enough.  Nobody is owed a call, a failure or a spurious
\* wakeup.
Fairness ==
    /\ \A w \in Worker : SF_vars(WorkerStep(w))
    /\ SF_vars(SchedulerStep)

Spec == Init /\ [][Next]_vars
FairSpec == Spec /\ Fairness

------------------------------------------------------------------------------
(* Type correctness of the queue, the lock and the threads.                 *)
TypeOK ==
    /\ mutex \in Thread \cup {Nil}
    /\ waiting \subseteq Thread
    /\ jobs \in Seq(1 .. MaxJobs)
    /\ pushed \in 0 .. MaxJobs
    /\ next_unclaimed \in 0 .. Len(jobs)
    /\ done \subseteq 1 .. MaxJobs
    /\ stopping \in BOOLEAN
    /\ pc \in [Thread -> {"unborn", "idle", "lock", "check", "block", "asleep",
                          "copy", "notify", "exited", "ensure", "spawn",
                          "drain", "settle", "stopnotify", "join", "gone"}]
    /\ held \in [Worker -> 0 .. MaxJobs]
    /\ threw \in BOOLEAN

(* No job is stranded: while a job waits to be claimed, a worker is on its  *)
(* way to the queue, or the scheduler has still to start or notify one.     *)
(* One notify_one per job is enough although a woken worker may find its    *)
(* job taken by another, and none is needed when creating threads fails     *)
(* half way.  Only if not even one thread could be created does a job wait  *)
(* for the next migrate_async.                                              *)
NoStrandedJob ==
    Unclaimed /\ ~stopping =>
        \/ pc[Scheduler] \in {"ensure", "spawn", "notify"}
        \/ \E w \in Worker : /\ pc[w] \notin {"unborn", "block", "exited"}
                             /\ w \notin waiting
        \/ threw /\ Started = {}

(* wait_for_migrations returns with an empty queue: nothing it waited for   *)
(* is left behind by the drain that follows.                                *)
WaitEmptiesQueue ==
    [][pc[Scheduler] = "settle" /\ pc'[Scheduler] = "idle" => jobs' = << >>]_vars

(* Every queued job is copied, unless the pool is destroyed first or has no *)
(* thread; a job that was queued when no thread could be created is copied  *)
(* once a later migrate_async creates one.                                  *)
EveryJobDone ==
    \A n \in 1 .. MaxJobs : pushed >= n /\ ~threw ~> (n \in done \/ stopping \/ threw)

(* Destroying the pool always returns: no worker sleeps through stopping_,  *)
(* whatever it was doing.                                                   *)
DestructorReturns == stopping ~> pc[Scheduler] = "gone"

(* "Blocks until the queue is empty, then drains": a call of                *)
(* wait_for_migrations returns once the copies it waits for are done, as    *)
(* long as there is a thread to do them.                                    *)
WaitReturns == pc[Scheduler] = "lock" /\ ~threw ~> pc[Scheduler] = "idle"

(* "Applies every migration whose copy has finished": a drain leaves no     *)
(* finished job in the queue.                                               *)
DrainAppliesFinished ==
    [][pc[Scheduler] = "drain" /\ pc'[Scheduler] = "idle" =>
          \A i \in 1 .. Len(jobs') : jobs'[i] \notin done]_vars
=============================================================================
