------------------------------ MODULE Benchmark ------------------------------
(***************************************************************************)
(* A client of the cache manager: the loops of the benchmark               *)
(* (src/bench/bench_prefix_cache.cpp), which serve a list of requests      *)
(* either one at a time or with a window of requests in flight, waiting    *)
(* for the oldest to be ready before releasing it.  A random block of      *)
(* tokens is a number of its own: two draws of the generator do not make   *)
(* the same block.  Which free ids a table gets makes no difference to     *)
(* what follows, so one choice stands for all.                             *)
(***************************************************************************)
EXTENDS CacheManager

CONSTANT Scenario  \* [row, workload, config, depth, gated]

VARIABLES
    scenario,  \* the row of the benchmark that is run
    at,        \* how many requests have been made
    window,    \* the handles in flight, oldest first, each with its request
    pc,        \* where the loop is
    hits,      \* for each request made, the blocks it found cached
    failures   \* alloc_failures

benchVars == <<scenario, at, window, pc, hits, failures>>
allVars == <<vars, benchVars>>

------------------------------------------------------------------------------
(* Workloads                                                                *)

Tokens(s) == [tokens |-> s, partial |-> FALSE]
Draws(from, len) == [j \in 1 .. len |-> from + j]

workload_cold(requests, len) ==
    [i \in 1 .. requests |-> Tokens(Draws((i - 1) * len, len))]

workload_shared_prefix(requests, prefix_len, suffix_len) ==
    [i \in 1 .. requests |->
        Tokens(Draws(0, prefix_len)
               \o Draws(prefix_len + (i - 1) * suffix_len, suffix_len))]

workload_multi_turn(conversations, turns, turn_len) ==
    [i \in 1 .. conversations * turns |->
        Tokens(Draws(((i - 1) \div turns) * turns * turn_len,
                     (((i - 1) % turns) + 1) * turn_len))]

workload_oversubscribed(sequences, len, passes) ==
    [i \in 1 .. sequences * passes |->
        Tokens(Draws(((i - 1) % sequences) * len, len))]

------------------------------------------------------------------------------
(* The loops                                                                *)

BenchInit ==
    \E s \in Scenario :
        /\ scenario = s
        /\ Construct(s.config)
        /\ at = 0
        /\ window = << >>
        /\ pc = "issue"
        /\ hits = << >>
        /\ failures = 0

\* Where the loop goes when w are in flight and n requests have been made.
Loop(w, n) ==
    IF Len(w) >= scenario.depth \/ (n = Len(scenario.workload) /\ w # << >>)
    THEN IF scenario.gated THEN "ready" ELSE "release"
    ELSE IF n < Len(scenario.workload) THEN "issue" ELSE "done"

Issue(r, h, a) ==
    /\ IF a.ok
       THEN /\ Serve(h, r, a, CHOOSE ids \in FreshIds(a) : TRUE)
            /\ window' = Append(window, [handle |-> h, tokens |-> r.tokens])
            /\ hits' = Append(hits, Len(a.match.blocks))
            /\ failures' = failures
       ELSE /\ AcquireFailed(r)
            /\ window' = window
            /\ hits' = Append(hits, 0)
            /\ failures' = failures + 1
    /\ at' = at + 1
    /\ pc' = Loop(window', at + 1)
    /\ UNCHANGED scenario

AcquireNext ==
    /\ pc = "issue"
    /\ \E r \in {scenario.workload[at + 1]} :
          Issue(r, CHOOSE h \in Handle : alloc[h] = NoHandle, Attempt(r))

\* wait_ready: ready() drains and looks ...
GateOldest ==
    /\ pc = "ready"
    /\ Poll(window[1].handle)
    /\ pc' = IF \A b \in ToSet(alloc[window[1].handle].blocks) : pool'.tier[b] = 0
             THEN "release" ELSE "wait"
    /\ UNCHANGED <<scenario, at, window, hits, failures>>

\* Mutant of WaitForMigrations: it waits for the front of the queue only.
WaitForFront ==
    /\ pc = "wait"
    /\ pool.jobs # << >> => pool.jobs[1].done
    /\ Poll(window[1].handle)
    /\ pc' = "ready"
    /\ UNCHANGED <<scenario, at, window, hits, failures>>

\* ... and if the table is not ready wait_for_migrations comes before the next look.
\* It returns when the copies are done; MigrationSync has the wakeup it can miss.
WaitForMigrations ==
    /\ pc = "wait"
    /\ \A i \in DOMAIN pool.jobs : pool.jobs[i].done
    /\ Poll(window[1].handle)
    /\ pc' = "ready"
    /\ UNCHANGED <<scenario, at, window, hits, failures>>

ReleaseOldest ==
    /\ pc = "release"
    /\ Release(window[1].handle, window[1].tokens)
    /\ window' = Tail(window)
    /\ pc' = Loop(Tail(window), at)
    /\ UNCHANGED <<scenario, at, hits, failures>>

BenchStep == AcquireNext \/ GateOldest \/ WaitForMigrations \/ ReleaseOldest

WorkerStep == (\E i \in DOMAIN pool.jobs : FinishJob(i)) /\ UNCHANGED benchVars

\* The row is over; the benchmark goes on to the next one.
Finished == pc = "done" /\ UNCHANGED allVars

BenchNext == BenchStep \/ WorkerStep \/ Finished

\* Where the loop is not waiting for a worker, which is where it has a step to
\* take: if it had none, the workers would run out of copies and TLC would find
\* the deadlock.
Runnable ==
    /\ pc # "done"
    /\ pc = "wait" => \A i \in DOMAIN pool.jobs : pool.jobs[i].done

\* The loop does not stay where it can step without taking one, and the workers
\* run on.  The first is WF_allVars(BenchStep), with Runnable for ENABLED.
BenchSpec ==
    /\ BenchInit
    /\ [][BenchNext]_allVars
    /\ []<>~Runnable \/ []<><<BenchStep>>_allVars
    /\ WF_allVars(FinishOldest /\ UNCHANGED benchVars)

------------------------------------------------------------------------------
Asks(i) == scenario.workload[i].tokens

(* Every row of the benchmark comes to its end: whatever is in flight, the  *)
(* oldest table becomes ready, and releasing it lets the loop go on.  This  *)
(* is for a wait_for_migrations that returns when the copies are done; that *)
(* it can miss the last of them is a matter of MigrationSync (WaitReturns). *)
BenchFinishes == <>(pc = "done")

(* A window that fits the compute tier is never refused: the slots that     *)
(* background demotions and promotions hold are got back in time.           *)
NeverRefused ==
    (\A i \in DOMAIN scenario.workload :
        scenario.depth * Len(Asks(i)) <= pool.cap[0]) =>
    failures = 0

(* "The least recently used entry is always the next one the stream asks    *)
(* for": a round robin over more than the one tier holds finds nothing.     *)
SingleTierThrashes ==
    DOMAIN pool.cap = {0} /\ scenario.row = "oversubscribed" =>
        \A i \in DOMAIN hits : hits[i] = 0

(* "A spill tier turns those losses into demote/promote traffic instead":   *)
(* where the spill tier holds the working set, a served request costs an    *)
(* entry only if there is a background copy that the workers have not       *)
(* finished, as it holds a spill slot or keeps the block it moves from      *)
(* being demoted at once.  A refused request may cost more: looking for     *)
(* room it evicts the spilled entries too, which gives it none.             *)
SpillKeepsEntries ==
    [][/\ Tiered(pool)
       /\ tree'.stored_blocks < tree.stored_blocks
       /\ failures' = failures
       => \E i \in DOMAIN pool.jobs : ~pool.jobs[i].done]_allVars

(* One wait is enough: wait_for_migrations leaves the table it is called    *)
(* for ready, so the loop of wait_ready turns at most once.                 *)
OneWaitSuffices == [][pc = "wait" /\ pc' = "ready" => TableReady(window[1].handle)']_allVars
=============================================================================
