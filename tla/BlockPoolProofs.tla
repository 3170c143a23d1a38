-------------------------- MODULE BlockPoolProofs ---------------------------
(***************************************************************************)
(* What is proved of BlockPool, for every set of ids, slots, tiers, jobs and *)
(* workers.                                                                *)
(***************************************************************************)
EXTENDS BlockPoolWorkers, BlockPoolDrain

------------------------------------------------------------------------------
(* The invariant and its consequences.                                      *)

\* Every step of the pool keeps the invariant.
LEMMA NextInv == IndInv /\ [Next]_vars => IndInv'
<1> SUFFICES ASSUME IndInv, [Next]_vars PROVE IndInv'
  OBVIOUS
<1>1. ASSUME NEW b \in BlockId, Allocate(b) PROVE IndInv'
  BY Zenon, <1>1, AllocateInv
<1>2. ASSUME NEW b \in BlockId, Incref(b) PROVE IndInv'
  BY Zenon, <1>2, IncrefInv
<1>3. ASSUME NEW b \in BlockId, Decref(b) PROVE IndInv'
  BY <1>3, IncrefInv, DecrefLastInv DEF Decref
<1>4. ASSUME NEW b \in BlockId, CancelMigration(b) PROVE IndInv'
  BY Zenon, <1>4, CancelMigrationInv
<1>5. ASSUME NEW b \in BlockId, NEW t \in Tier, Migrate(b, t) PROVE IndInv'
  BY Zenon, <1>5, MigrateInv
<1>6. ASSUME NEW b \in BlockId, NEW t \in Tier, MigrateAsync(b, t) PROVE IndInv'
  BY Zenon, <1>6, MigrateAsyncInv
<1>7. ASSUME NEW b \in BlockId, NEW v \in Value, WriteBlock(b, v) PROVE IndInv'
  BY Zenon, <1>7, WriteBlockInv
<1>8. CASE DrainMigrations
  BY Zenon, <1>8, DrainInv
<1>9. ASSUME NEW w \in Worker, WorkerStep(w) PROVE IndInv'
  BY <1>9, ClaimInv, BeginCopyInv, SkipCopyInv, EndCopyInv DEF WorkerStep
<1>10. CASE UNCHANGED vars
  <2>1. /\ UNCHANGED <<free_ids, refcount, location, free_slots, job, jobs>>
        /\ UNCHANGED <<next_unclaimed, migrating, wpc, wjob, wread, mem>>
    BY Zenon, <1>10 DEF vars
  <2>2. Queued' = Queued /\ \A b \in BlockId : Live(b)' <=> Live(b)
    BY Zenon, <2>1 DEF Queued, Live
  <2>3. TypeOK' /\ IdsInv' /\ QueueInv' /\ RebindIsSafe'
    <3>1. TypeOK'
      BY Zenon, <2>1 DEF IndInv, TypeOK, Bytes
    <3>2. IdsInv' /\ QueueInv'
      BY Zenon, <2>1, <2>2 DEF IndInv, IdsInv, QueueInv
    <3>3. RebindIsSafe'
      BY <2>1, <2>2 DEF IndInv, RebindIsSafe, Live
    <3>4. QED
      BY Zenon, <3>1, <3>2, <3>3
  <2>4. FreeInv' /\ DisjointInv' /\ ClaimsAreExclusive' /\ CopyInv'
    <3>1. FreeInv' /\ DisjointInv'
      BY Zenon, <2>1, <2>2 DEF IndInv, FreeInv, DisjointInv
    <3>2. ClaimsAreExclusive' /\ CopyInv'
      BY Zenon, <2>1, <2>2 DEF IndInv, ClaimsAreExclusive, CopyInv
    <3>3. QED
      BY Zenon, <3>1, <3>2
  <2>5. NoLeakInv'
    BY Zenon, <2>1, <2>2 DEF IndInv, NoLeakInv
  <2>6. QED
    BY Zenon, <2>3, <2>4, <2>5 DEF IndInv
<1>11. QED
  BY <1>1, <1>2, <1>3, <1>4, <1>5, <1>6, <1>7, <1>8, <1>9, <1>10 DEF Next

(* IndInv holds in every reachable state of the pool.                       *)
THEOREM Invariance == Spec => []IndInv
<1>1. Init => IndInv
  BY Zenon, InitInv
<1>2. IndInv /\ [Next]_vars => IndInv'
  BY Zenon, NextInv
<1>3. QED
  BY <1>1, <1>2, PTL DEF Spec

(* The pool's bookkeeping and the workers' state are well typed; among      *)
(* other things no reference count goes below zero and the claim cursor     *)
(* never wraps.                                                             *)
THEOREM TypeCorrect == Spec => []TypeOK
  BY Invariance, PTL DEF IndInv

(* drain_migrations only ever rebinds a block that is still allocated and   *)
(* still where its copy was read.                                           *)
THEOREM RebindSafe == Spec => []RebindIsSafe
  BY Invariance, PTL DEF IndInv

(* A worker's job is queued, not done and its alone until it stores done.   *)
THEOREM ClaimsExclusive == Spec => []ClaimsAreExclusive
  BY Invariance, PTL DEF IndInv

\* The invariant, counted: every slot has exactly one owner.
LEMMA OwnershipFromInv == IndInv => SlotOwnership
<1> SUFFICES ASSUME IndInv, NEW s \in Slot
             PROVE  free_slots[s] + Cardinality(Bound(s)) + Cardinality(Reserving(s)) = 1
  BY Zenon DEF SlotOwnership
<1> USE DEF IndInv
<1>1. free_slots[s] \in {0, 1}
  BY Zenon DEF FreeInv
<1>2. CASE free_slots[s] = 1
  <2>1. Bound(s) = {} /\ Reserving(s) = {}
    BY <1>2 DEF Bound, Reserving, FreeInv
  <2>2. Cardinality(Bound(s)) = 0 /\ Cardinality(Reserving(s)) = 0
    BY Zenon, <2>1, FS_EmptySet
  <2>3. QED
    BY <1>2, <2>2
<1>3. CASE free_slots[s] = 0
  <2>1. CASE \E b \in BlockId : Live(b) /\ location[b] = s
    <3>1. PICK b \in BlockId : Live(b) /\ location[b] = s
      BY Zenon, <2>1
    <3>2. Bound(s) = {b} /\ Reserving(s) = {}
      BY Zenon, <3>1 DEF Bound, Reserving, DisjointInv
    <3>3. Cardinality(Bound(s)) = 1 /\ Cardinality(Reserving(s)) = 0
      BY Zenon, <3>2, FS_EmptySet, FS_Singleton
    <3>4. QED
      BY <1>3, <3>3
  <2>2. CASE \E j \in Queued : job[j].dst = s
    <3>1. PICK j \in Queued : job[j].dst = s
      BY Zenon, <2>2
    <3>2. Bound(s) = {} /\ Reserving(s) = {j}
      BY Zenon, <3>1 DEF Bound, Reserving, DisjointInv
    <3>3. Cardinality(Bound(s)) = 0 /\ Cardinality(Reserving(s)) = 1
      BY Zenon, <3>2, FS_EmptySet, FS_Singleton
    <3>4. QED
      BY <1>3, <3>3
  <2>3. QED
    BY Zenon, <1>3, <2>1, <2>2 DEF NoLeakInv
<1>4. QED
  BY Zenon, <1>1, <1>2, <1>3

(* Every slot is on its free list once, or bound to one live block, or      *)
(* reserved by one queued job, for every pool and any number of workers.    *)
THEOREM SlotsHaveOneOwner == Spec => []SlotOwnership
  BY Invariance, OwnershipFromInv, PTL

\* If no id were free, the live ids would crowd into fewer slots than there are.
LEMMA RoomFromInv == IndInv => RoomMeansId
<1> SUFFICES ASSUME IndInv, NEW s \in FreeIn(0), free_ids = {}
             PROVE  FALSE
  BY Zenon DEF RoomMeansId
<1> USE DEF IndInv
<1>1. s \in Slot /\ free_slots[s] > 0
  BY Zenon DEF FreeIn
<1>2. \A b \in BlockId : Live(b)
  BY DEF IdsInv, Live, TypeOK
<1>3. location \in [BlockId -> Slot \ {s}]
  <2>1. \A b \in BlockId : location[b] \in Slot \ {s}
    BY <1>1, <1>2 DEF FreeInv, TypeOK
  <2>2. QED
    BY Zenon, <2>1 DEF TypeOK
<1>4. \A b, c \in BlockId : location[b] = location[c] => b = c
  BY Zenon, <1>2 DEF DisjointInv
<1>5. /\ IsFiniteSet(Slot \ {s})
      /\ Cardinality(Slot \ {s}) = Cardinality(Slot) - 1
  BY Zenon, <1>1, PoolAssumption, FS_RemoveElement
<1>6. Cardinality(Slot) \in Nat
  BY PoolAssumption, FS_CardinalityType
<1>7. Cardinality(Slot \ {s}) < Cardinality(BlockId)
  BY <1>5, <1>6, PoolAssumption
<1>8. \E b, c \in BlockId : b # c /\ location[b] = location[c]
  BY <1>3, <1>5, <1>7, PoolAssumption, FS_PigeonHole
<1>9. QED
  BY Zenon, <1>4, <1>8

(* allocate() never fails for want of an id while the compute tier has a    *)
(* free slot.                                                               *)
THEOREM RoomAlwaysMeansId == Spec => []RoomMeansId
  BY Invariance, RoomFromInv, PTL

------------------------------------------------------------------------------
(* The pool implements the reference-counted store.                         *)

\* A freshly made pool is a freshly made BlockStore.
LEMMA StoreInitial == Init => Store!StoreInit
  BY DEF Init, Store!StoreInit, Content, Live

\* What a step must keep for its readers not to notice it.
LEMMA ContentKept ==
  ASSUME UNCHANGED refcount,
         \A b \in BlockId : Live(b) => mem'[location'[b]] = mem[location[b]]
  PROVE  UNCHANGED Store!svars
<1>1. \A b \in BlockId : Live(b)' <=> Live(b)
  BY Zenon DEF Live
<1>2. Content' = Content
  BY Zenon, <1>1 DEF Content
<1>3. QED
  BY Zenon, <1>2 DEF Store!svars

\* Rebinding to a finished copy does not change what a block holds.
LEMMA DrainKeepsContent ==
  ASSUME IndInv, DrainMigrations
  PROVE  UNCHANGED Store!svars
<1> USE DEF IndInv
<1>1. PICK n \in 1 .. Len(jobs) :
         /\ DonePrefix(n)
         /\ location' = [b \in BlockId |->
               IF Arrivals({jobs[i] : i \in 1 .. n}, b) = {} THEN location[b]
               ELSE job[CHOOSE j \in Arrivals({jobs[i] : i \in 1 .. n}, b) : TRUE].dst]
  BY Zenon DEF DrainMigrations
<1>2. UNCHANGED <<refcount, mem>>
  BY Zenon DEF DrainMigrations
<1> DEFINE F == {jobs[i] : i \in 1 .. n}
<1>3. ASSUME NEW b \in BlockId, Live(b)
      PROVE  mem'[location'[b]] = mem[location[b]]
  <2> DEFINE m == migrating[b]
  <2>1. /\ F \subseteq Queued
        /\ \A j \in F : job[j].done
        /\ m \in F => Arrivals(F, b) = {m}
        /\ m \notin F => Arrivals(F, b) = {}
    BY Zenon, <1>1, DrainArrivals
  <2>2. CASE m \notin F
    <3>1. location'[b] = location[b]
      BY Zenon, <1>1, <2>1, <2>2
    <3>2. QED
      BY Zenon, <1>2, <3>1
  <2>3. CASE m \in F
    <3>1. (CHOOSE j \in Arrivals(F, b) : TRUE) = m /\ Arrivals(F, b) # {}
      BY Zenon, <2>1, <2>3
    <3>2. location'[b] = job[m].dst
      BY Zenon, <1>1, <3>1
    <3>3. m # Nil /\ m \in Queued /\ job[m].done
      BY <2>1, <2>3, QueuedRecord, NilFacts
    <3>4. ~job[m].cancelled /\ job[m].src = location[b]
      BY <3>3 DEF RebindIsSafe
    <3>5. QED
      BY <1>2, <3>2, <3>3, <3>4 DEF CopyInv
  <2>4. QED
    BY Zenon, <2>2, <2>3
<1>4. QED
  BY Zenon, <1>2, <1>3, ContentKept

\* Every step of the pool is a step of BlockStore, or changes nothing it sees.
LEMMA StoreStep == IndInv /\ [Next]_vars => [Store!StoreNext]_(Store!svars)
<1> SUFFICES ASSUME IndInv, [Next]_vars
             PROVE  Store!StoreNext \/ UNCHANGED Store!svars
  OBVIOUS
<1> USE DEF IndInv
<1>1. ASSUME NEW b \in BlockId, Allocate(b) PROVE Store!StoreNext
  <2>1. PICK s \in FreeIn(0) : location' = [location EXCEPT ![b] = s]
    BY Zenon, <1>1 DEF Allocate
  <2>2. /\ refcount[b] = 0
        /\ refcount' = [refcount EXCEPT ![b] = 1]
        /\ mem' = mem
        /\ s \in Slot
    BY Zenon, <1>1 DEF Allocate, IdsInv, FreeIn
  <2>3. mem[s] \in Value \cup {Garbage}
    BY Zenon, <2>2 DEF TypeOK, Bytes
  <2>4. \A c \in BlockId : Content'[c] = IF c = b THEN mem[s] ELSE Content[c]
    BY <2>1, <2>2 DEF Content, Live, TypeOK
  <2>5. Content' = [Content EXCEPT ![b] = mem[s]]
    BY Zenon, <2>4 DEF Content
  <2>6. Store!StoreAllocate(b)
    BY Zenon, <2>2, <2>3, <2>5 DEF Store!StoreAllocate
  <2>7. QED
    BY Zenon, <2>6 DEF Store!StoreNext
<1>2. ASSUME NEW b \in BlockId, Incref(b) PROVE Store!StoreNext
  <2>1. /\ refcount[b] \in 1 .. MaxRefs - 1
        /\ refcount' = [refcount EXCEPT ![b] = @ + 1]
        /\ UNCHANGED <<location, mem>>
    BY Zenon, <1>2 DEF Incref
  <2>2. \A c \in BlockId : Live(c)' <=> Live(c)
    BY <2>1 DEF Live, TypeOK
  <2>3. Content' = Content
    BY Zenon, <2>1, <2>2 DEF Content
  <2>4. Store!StoreIncref(b)
    BY Zenon, <2>1, <2>3 DEF Store!StoreIncref
  <2>5. QED
    BY Zenon, <2>4 DEF Store!StoreNext
<1>3. ASSUME NEW b \in BlockId, Decref(b) PROVE Store!StoreNext
  <2>1. /\ refcount[b] > 0
        /\ refcount' = [refcount EXCEPT ![b] = @ - 1]
        /\ UNCHANGED <<location, mem>>
    BY <1>3 DEF Decref, DecrefShared, DecrefLast, TypeOK
  <2>2. \A c \in BlockId : Live(c)' <=> (Live(c) /\ ~(c = b /\ refcount[b] = 1))
    BY <2>1 DEF Live, TypeOK
  <2>3. \A c \in BlockId : Content'[c] = IF c = b /\ refcount[b] = 1 THEN Nil
                                         ELSE Content[c]
    BY Zenon, <2>1, <2>2 DEF Content
  <2>4. Content' = [Content EXCEPT ![b] = IF refcount[b] = 1 THEN Nil ELSE @]
    BY Zenon, <2>3 DEF Content
  <2>5. Store!StoreDecref(b)
    BY Zenon, <2>1, <2>4 DEF Store!StoreDecref
  <2>6. QED
    BY Zenon, <2>5 DEF Store!StoreNext
<1>4. ASSUME NEW b \in BlockId, NEW v \in Value, WriteBlock(b, v) PROVE Store!StoreNext
  <2>1. /\ Live(b)
        /\ mem' = [mem EXCEPT ![location[b]] = v]
        /\ UNCHANGED <<refcount, location>>
    BY Zenon, <1>4 DEF WriteBlock, bookVars
  <2>2. \A c \in BlockId : /\ Live(c)' <=> Live(c)
                           /\ Live(c) /\ c # b => location[c] # location[b]
    BY Zenon, <2>1 DEF Live, DisjointInv
  <2>3. \A c \in BlockId : Content'[c] = IF c = b THEN v ELSE Content[c]
    BY Zenon, <2>1, <2>2 DEF Content, TypeOK
  <2>4. Content' = [Content EXCEPT ![b] = v]
    BY Zenon, <2>3 DEF Content
  <2>5. Store!StoreWrite(b, v)
    BY Zenon, <2>1, <2>4 DEF Store!StoreWrite, Live
  <2>6. QED
    BY Zenon, <2>5 DEF Store!StoreNext
<1>5. ASSUME NEW b \in BlockId, CancelMigration(b) PROVE UNCHANGED Store!svars
  BY Zenon, <1>5, ContentKept DEF CancelMigration
<1>6. ASSUME NEW b \in BlockId, NEW t \in Tier, Migrate(b, t) PROVE UNCHANGED Store!svars
  <2>1. refcount' = refcount
    BY Zenon, <1>6 DEF Migrate
  <2>2. CASE UNCHANGED <<location, mem>>
    BY Zenon, <2>1, <2>2, ContentKept
  <2>3. ASSUME NEW s \in FreeIn(t), mem' = [mem EXCEPT ![s] = mem[location[b]]],
               location' = [location EXCEPT ![b] = s]
        PROVE  UNCHANGED Store!svars
    <3>1. s \in Slot /\ \A c \in BlockId : Live(c) => location[c] # s
      BY DEF FreeIn, FreeInv
    <3>2. \A c \in BlockId : Live(c) => mem'[location'[c]] = mem[location[c]]
      BY Zenon, <2>3, <3>1 DEF TypeOK
    <3>3. QED
      BY Zenon, <2>1, <3>2, ContentKept
  <2>4. QED
    BY Zenon, <1>6, <2>2, <2>3 DEF Migrate
<1>7. ASSUME NEW b \in BlockId, NEW t \in Tier, MigrateAsync(b, t)
      PROVE  UNCHANGED Store!svars
  BY Zenon, <1>7, ContentKept DEF MigrateAsync
<1>8. CASE DrainMigrations
  BY Zenon, <1>8, DrainKeepsContent
<1>9. ASSUME NEW w \in Worker, WorkerStep(w) PROVE UNCHANGED Store!svars
  <2>1. UNCHANGED <<refcount, location>>
    BY Zenon, <1>9 DEF WorkerStep, Claim, BeginCopy, SkipCopy, EndCopy, bookVars
  <2>2. CASE mem' = mem
    BY Zenon, <2>1, <2>2, ContentKept
  <2>3. ASSUME wpc[w] # "wait", NEW v, mem' = [mem EXCEPT ![job[wjob[w]].dst] = v]
        PROVE  UNCHANGED Store!svars
    <3>1. wjob[w] \in Queued
      BY Zenon, <2>3, HeldJob
    <3>2. \A c \in BlockId : Live(c) => location[c] # job[wjob[w]].dst
      BY Zenon, <3>1 DEF DisjointInv
    <3>3. \A c \in BlockId : Live(c) => mem'[location'[c]] = mem[location[c]]
      BY Zenon, <2>1, <2>3, <3>2 DEF TypeOK
    <3>4. QED
      BY Zenon, <2>1, <3>3, ContentKept
  <2>4. CASE Claim(w) \/ SkipCopy(w)
    BY Zenon, <2>2, <2>4 DEF Claim, SkipCopy
  <2>5. CASE BeginCopy(w)
    BY Zenon, <2>3, <2>5 DEF BeginCopy
  <2>6. CASE EndCopy(w)
    BY Zenon, <2>3, <2>6 DEF EndCopy
  <2>7. QED
    BY Zenon, <1>9, <2>4, <2>5, <2>6 DEF WorkerStep
<1>10. CASE UNCHANGED vars
  BY Zenon, <1>10, ContentKept DEF vars
<1>11. QED
  BY Zenon, <1>1, <1>2, <1>3, <1>4, <1>5, <1>6, <1>7, <1>8, <1>9, <1>10 DEF Next

(* No migration, in whatever order its steps interleave with the            *)
(* scheduler's calls, changes what the owner of a live block id reads.      *)
THEOREM PoolImplementsStore == Spec => ImplementsBlockStore
<1>1. Init => Store!StoreInit
  BY Zenon, StoreInitial
<1>2. IndInv /\ [Next]_vars => [Store!StoreNext]_(Store!svars)
  BY Zenon, StoreStep
<1>3. QED
  BY <1>1, <1>2, Invariance, PTL DEF Spec, ImplementsBlockStore, Store!StoreSpec
=============================================================================
