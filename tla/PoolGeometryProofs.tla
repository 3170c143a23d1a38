-------------------------- MODULE PoolGeometryProofs --------------------------
(***************************************************************************)
(* Proofs that the layout of a pool is sound, for sizes and indices of any *)
(* width.  Laid is the inductive invariant: an accepted tier's slots count *)
(* down from its number of blocks and it passed the size check.            *)
(***************************************************************************)
EXTENDS PoolGeometry, TLAPS

------------------------------------------------------------------------------
(* Arithmetic.                                                              *)


(* The product of naturals is a natural.                                    *)
LEMMA ProductIsNat ==
    ASSUME NEW x \in Nat, NEW y \in Nat PROVE x * y \in Nat
  OBVIOUS

(* A size_t has a value below SizeLimit.                                    *)
LEMMA SizeInRange ==
    ASSUME NEW x \in Nat PROVE Size(x) \in 0 .. SizeLimit - 1
  BY GeometryAssumption DEF Size

(* A value that size_t can hold does not wrap.                              *)
LEMMA SizeOfSmall ==
    ASSUME NEW x \in Nat, x < SizeLimit PROVE Size(x) = x
  BY GeometryAssumption DEF Size

(* More blocks take no fewer bytes.                                         *)
LEMMA ProductMonotone ==
    ASSUME NEW x \in Nat, NEW y \in Nat, NEW b \in Nat, x <= y
    PROVE  x * b <= y * b
  OBVIOUS

(* A slot ends where the next begins, or before: what keeps slots apart.    *)
LEMMA SlotEnds ==
    ASSUME NEW x \in Nat, NEW y \in Nat, NEW b \in Nat, x < y
    PROVE  x * b + b <= y * b
<1>1. (x + 1) * b = x * b + b
  OBVIOUS
<1>2. (x + 1) * b <= y * b
  BY ProductMonotone
<1> QED
  BY <1>1, <1>2, ProductIsNat

(* round_up of tier.cpp does not lose bytes unless it wraps.                *)
LEMMA RoundUpCovers ==
    ASSUME NEW v \in Nat, v + Alignment - 1 < SizeLimit
    PROVE  round_up(v, Alignment) >= v
<1> DEFINE a == v + Alignment - 1
           q == a \div Alignment
<1>1. a \in Nat /\ Alignment \in Nat \ {0}
  BY GeometryAssumption
<1>2. q \in Nat /\ a = Alignment * q + (a % Alignment) /\ a % Alignment \in 0 .. Alignment - 1
  BY <1>1
<1>3. q * Alignment = Alignment * q /\ q * Alignment \in Nat
  BY <1>1, <1>2
<1>4. q * Alignment <= a /\ q * Alignment >= v
  BY <1>1, <1>2, <1>3
<1>5. Size(a) = a
  BY <1>1, SizeOfSmall
<1>6. q * Alignment < SizeLimit
  BY <1>1, <1>3, <1>4, GeometryAssumption
<1>7. Size(q * Alignment) = q * Alignment
  BY <1>3, <1>6, SizeOfSmall
<1> QED
  BY <1>4, <1>5, <1>7 DEF round_up
(* block_bytes of types.hpp is a size_t.                                    *)
LEMMA BlockBytesInRange ==
    ASSUME NEW c \in CacheConfig PROVE block_bytes(c) \in 0 .. SizeLimit - 1
<1>1. /\ c.block_tokens \in Nat
      /\ c.num_layers \in Nat
      /\ c.num_kv_heads \in Nat
      /\ c.head_dim \in Nat
      /\ c.dtype_bytes \in Nat
  BY GeometryAssumption
<1>2. 2 * c.num_layers \in Nat
  BY <1>1
<1>3. 2 * c.num_layers * c.num_kv_heads \in Nat
  BY <1>1, <1>2, ProductIsNat
<1>4. 2 * c.num_layers * c.num_kv_heads * c.head_dim \in Nat
  BY <1>1, <1>3, ProductIsNat
<1>5. 2 * c.num_layers * c.num_kv_heads * c.head_dim * c.dtype_bytes \in Nat
  BY <1>1, <1>4, ProductIsNat
<1>6. bytes_per_token(c) \in Nat
  BY <1>5, SizeInRange, GeometryAssumption DEF bytes_per_token
<1> QED
  BY <1>1, <1>6, ProductIsNat, SizeInRange DEF block_bytes

(* The counting-down loops of init make n numbers below IndexLimit, and the *)
(* right ones if there are few enough.                                      *)
LEMMA DescendingType ==
    ASSUME NEW n \in Nat
    PROVE  /\ Descending(n) \in Seq(0 .. IndexLimit - 1)
           /\ Len(Descending(n)) = n
           /\ n <= IndexLimit => \A i \in 1 .. n : Descending(n)[i] = n - i
<1>1. \A i \in 1 .. n : n - i \in Nat /\ Index(n - i) \in 0 .. IndexLimit - 1
  BY GeometryAssumption DEF Index
<1>2. n <= IndexLimit => \A i \in 1 .. n : Index(n - i) = n - i
  BY GeometryAssumption DEF Index
<1> QED
  BY <1>1, <1>2 DEF Descending

------------------------------------------------------------------------------
Sizes == 0 .. SizeLimit - 1
Spec1 == [null : BOOLEAN, capacity : Sizes, num_blocks : Sizes]
TierState == [capacity : Sizes, num_blocks : Sizes, free_slots : Seq(0 .. IndexLimit - 1)]

\* An accepted tier: its slots are counted down, and it passed the size check.
Accepted(t) ==
    t.free_slots = Descending(t.num_blocks) /\ ~TooSmall(t)

Laid ==
    /\ cfg \in CacheConfig
    /\ owned \in BOOLEAN
    /\ specs \in Seq(Spec1)
    /\ tiers \in Seq(TierState)
    /\ \A k \in 1 .. Len(tiers) : Accepted(tiers[k])
    /\ Len(tiers) <= Len(specs)
    /\ total_blocks \in Sizes
    /\ phase \in {"tier", "init", "ready", "bad_alloc", "invalid_argument"}
    /\ phase = "ready" => free_ids = Descending(total_blocks)
    /\ phase = "tier" => owned /\ tiers = << >>
    /\ owned /\ phase \notin {"tier", "bad_alloc"} =>
          specs = <<[null |-> FALSE, num_blocks |-> cfg.num_blocks,
                     capacity |-> round_up(total_bytes(cfg), Alignment)]>>
    /\ owned /\ total_bytes(cfg) + Alignment - 1 < SizeLimit => phase # "invalid_argument"

(* Construction starts with nothing laid out.                               *)
LEMMA LaidInit == Init => Laid
<1> SUFFICES ASSUME Init PROVE Laid
  OBVIOUS
<1>1. specs \in Seq(Spec1)
  <2>1. CASE owned
    BY <2>1 DEF Init
  <2>2. CASE ~owned
    BY <2>2, GeometryAssumption DEF Init, Spec1, Sizes
  <2> QED
    BY <2>1, <2>2
<1>2. tiers = << >> /\ tiers \in Seq(TierState) /\ Len(tiers) = 0
  BY DEF Init
<1>3. 0 \in Sizes
  BY GeometryAssumption DEF Sizes
<1>4. (phase = "tier" /\ owned) \/ (phase = "init" /\ ~owned)
  BY DEF Init
<1>5. Len(specs) \in Nat
  BY <1>1
<1> QED
  BY <1>1, <1>2, <1>3, <1>4, <1>5 DEF Init, Laid

(* Every step of construction keeps what is laid out sound.                 *)
LEMMA LaidNext == Laid /\ [Next]_vars => Laid'
<1> SUFFICES ASSUME Laid, [Next]_vars PROVE Laid'
  OBVIOUS
<1> USE GeometryAssumption
<1>1. block_bytes(cfg) \in Sizes /\ cfg.num_blocks \in Sizes
  BY BlockBytesInRange DEF Laid, Sizes
<1>2. total_bytes(cfg) \in Sizes
  <2>1. cfg.num_blocks * block_bytes(cfg) \in Nat
    BY <1>1, ProductIsNat DEF Sizes
  <2> QED
    BY <2>1, SizeInRange DEF total_bytes, Sizes
<1>3. round_up(total_bytes(cfg), Alignment) \in Sizes
  <2> DEFINE a == total_bytes(cfg) + Alignment - 1
  <2>1. a \in Nat
    BY <1>2 DEF Sizes
  <2>2. Size(a) \in Nat
    BY <2>1, SizeInRange
  <2>3. (Size(a) \div Alignment) * Alignment \in Nat
    BY <2>2, ProductIsNat
  <2> QED
    BY <2>3, SizeInRange DEF round_up, Sizes
<1>4. CASE MakeHostTier
  BY <1>1, <1>3, <1>4 DEF MakeHostTier, Laid, Spec1, Accepted, TooSmall
<1>5. CASE OutOfMemory
  BY <1>5 DEF OutOfMemory, Laid, Accepted, TooSmall
<1>6. CASE InitTier
  <2> DEFINE t == [capacity |-> Turn.capacity, num_blocks |-> Turn.num_blocks,
                   free_slots |-> Descending(Turn.num_blocks)]
  <2>1. Turn \in Spec1
    BY <1>6 DEF InitTier, Laid, Turn
  <2>2. t \in TierState
    BY <2>1, DescendingType DEF Spec1, TierState, Sizes
  <2>3. Accepted(t)
    BY <1>6 DEF InitTier, Accepted, TooSmall
  <2>4. tiers' = Append(tiers, t) /\ cfg' = cfg /\ specs' = specs
    BY <1>6 DEF InitTier
  <2>5. tiers' \in Seq(TierState) /\ Len(tiers') = Len(tiers) + 1
    BY <2>2, <2>4 DEF Laid
  <2>6. \A k \in 1 .. Len(tiers') : Accepted(tiers'[k])
    BY <2>3, <2>4, <2>5 DEF Laid
  <2>7. (\A k \in 1 .. Len(tiers) : Accepted(tiers[k]))'
    BY <2>4, <2>6 DEF Accepted, TooSmall
  <2>8. total_blocks' \in Sizes
    <3>1. total_blocks \in Nat /\ Turn.num_blocks \in Nat
      <4>1. total_blocks \in Nat
        BY DEF Laid, Sizes
      <4>2. Turn.num_blocks \in Nat
        BY <2>1 DEF Sizes, Spec1
      <4> QED
        BY <4>1, <4>2
    <3>2. total_blocks + Turn.num_blocks \in Nat
      BY <3>1
    <3>3. Size(total_blocks + Turn.num_blocks) \in Sizes
      BY <3>2, SizeInRange, Zenon DEF Sizes
    <3> QED
      BY <1>6, <3>3, Zenon DEF InitTier
  <2> QED
    BY <1>6, <2>4, <2>5, <2>7, <2>8 DEF InitTier, Laid
<1>7. CASE Reject
  <2>1. owned /\ total_bytes(cfg) + Alignment - 1 < SizeLimit => FALSE
    <3> SUFFICES ASSUME owned, total_bytes(cfg) + Alignment - 1 < SizeLimit PROVE FALSE
      OBVIOUS
    <3> DEFINE s == [null |-> FALSE, num_blocks |-> cfg.num_blocks,
                     capacity |-> round_up(total_bytes(cfg), Alignment)]
    <3>1. specs = <<s>>
      BY <1>7 DEF Reject, Laid
    <3>2. Len(specs) = 1 /\ specs[1] = s /\ specs # << >>
      BY <3>1
    <3>3. Len(tiers) < Len(specs) /\ (Turn.null \/ TooSmall(Turn))
      BY <1>7, <3>2 DEF Reject
    <3>4. Len(tiers) = 0
      BY <3>2, <3>3 DEF Laid
    <3>5. Turn = s
      BY <3>2, <3>4 DEF Turn
    <3>6. round_up(total_bytes(cfg), Alignment) >= total_bytes(cfg)
      BY <1>2, RoundUpCovers DEF Sizes
    <3>7. ~(round_up(total_bytes(cfg), Alignment) < total_bytes(cfg))
      BY <1>2, <1>3, <3>6 DEF Sizes
    <3>8. s.capacity = round_up(total_bytes(cfg), Alignment)
            /\ Size(s.num_blocks * block_bytes(cfg)) = total_bytes(cfg)
      BY DEF total_bytes
    <3>9. ~TooSmall(s)
      BY <3>7, <3>8, Zenon DEF TooSmall
    <3> QED
      BY <3>3, <3>5, <3>9
  <2> QED
    BY <1>7, <2>1 DEF Reject, Laid, Accepted, TooSmall
<1>8. CASE InitIds
  BY <1>8 DEF InitIds, Laid, Accepted, TooSmall
<1>9. CASE UNCHANGED vars
  BY <1>9 DEF vars, Laid, Accepted, TooSmall
<1> QED
  BY <1>4, <1>5, <1>6, <1>7, <1>8, <1>9 DEF Next

------------------------------------------------------------------------------
(* In an accepted tier the i-th free slot starts (n - i) blocks in, and n   *)
(* blocks fit.                                                              *)
LEMMA LaidFits ==
    ASSUME Laid, NEW k \in 1 .. Len(tiers), Representable(tiers[k])
    PROVE  /\ block_bytes(cfg) \in Nat
           /\ tiers[k].num_blocks \in Nat
           /\ tiers[k].num_blocks * block_bytes(cfg) <= tiers[k].capacity
           /\ \A i \in 1 .. tiers[k].num_blocks :
                 /\ tiers[k].num_blocks - i \in Nat
                 /\ block_offset(tiers[k].free_slots[i])
                       = (tiers[k].num_blocks - i) * block_bytes(cfg)
<1> DEFINE n == tiers[k].num_blocks
           b == block_bytes(cfg)
<1>1. b \in Nat
  BY BlockBytesInRange, GeometryAssumption DEF Laid
<1>2. tiers[k] \in TierState /\ Accepted(tiers[k])
  BY DEF Laid
<1>3. n \in Nat /\ tiers[k].capacity \in Nat
  BY <1>2, GeometryAssumption DEF TierState, Sizes
<1>4. n * b \in Nat /\ n * b < SizeLimit /\ n <= IndexLimit
  BY <1>1, <1>3, ProductIsNat DEF Representable
<1>5. Size(n * b) = n * b
  BY <1>4, SizeOfSmall
<1>6. n * b <= tiers[k].capacity
  BY <1>2, <1>3, <1>4, <1>5 DEF Accepted, TooSmall
<1>7. ASSUME NEW i \in 1 .. n
      PROVE  n - i \in Nat /\ block_offset(tiers[k].free_slots[i]) = (n - i) * b
  <2>1. n - i \in Nat /\ n - i <= n
    BY <1>3
  <2>2. tiers[k].free_slots[i] = n - i
    BY <1>2, <1>3, <1>4, DescendingType DEF Accepted
  <2>3. (n - i) * b \in Nat /\ (n - i) * b <= n * b
    BY <1>1, <1>3, <2>1, ProductIsNat, ProductMonotone
  <2>4. (n - i) * b < SizeLimit
    BY <1>4, <2>3, GeometryAssumption
  <2> QED
    BY <2>1, <2>2, <2>3, <2>4, SizeOfSmall DEF block_offset
<1> QED
  BY <1>1, <1>3, <1>6, <1>7

(* A slot ends inside its tier.                                             *)
LEMMA LaidInBounds == Laid => SlotsInBounds
<1> SUFFICES ASSUME Laid, NEW k \in 1 .. Len(tiers), Representable(tiers[k]),
                    NEW i \in 1 .. tiers[k].num_blocks
             PROVE  block_offset(tiers[k].free_slots[i]) + block_bytes(cfg)
                      <= tiers[k].capacity
  BY DEF SlotsInBounds
<1> DEFINE n == tiers[k].num_blocks
           b == block_bytes(cfg)
<1>1. /\ b \in Nat /\ n \in Nat /\ n - i \in Nat
      /\ n * b <= tiers[k].capacity
      /\ block_offset(tiers[k].free_slots[i]) = (n - i) * b
  BY LaidFits
<1>2. n - i < n
  BY <1>1
<1>3. (n - i) * b + b <= n * b
  BY <1>1, <1>2, SlotEnds
<1>4. n * b \in Nat /\ (n - i) * b \in Nat
  BY <1>1, ProductIsNat
<1>5. tiers[k].capacity \in Nat
  <2>1. tiers[k] \in TierState
    BY DEF Laid
  <2> QED
    BY <2>1, GeometryAssumption DEF TierState, Sizes
<1> HIDE DEF n, b
<1> QED
  BY <1>1, <1>3, <1>4, <1>5 DEF b

(* Slots do not overlap.                                                    *)
LEMMA LaidDisjoint == Laid => SlotsDisjoint
<1> SUFFICES ASSUME Laid, NEW k \in 1 .. Len(tiers), Representable(tiers[k]),
                    NEW i \in 1 .. tiers[k].num_blocks,
                    NEW j \in 1 .. tiers[k].num_blocks, i < j
             PROVE  block_offset(tiers[k].free_slots[j]) + block_bytes(cfg)
                      <= block_offset(tiers[k].free_slots[i])
  BY DEF SlotsDisjoint
<1> DEFINE n == tiers[k].num_blocks
           b == block_bytes(cfg)
<1>1. /\ b \in Nat /\ n \in Nat /\ n - i \in Nat /\ n - j \in Nat
      /\ block_offset(tiers[k].free_slots[i]) = (n - i) * b
      /\ block_offset(tiers[k].free_slots[j]) = (n - j) * b
  BY LaidFits
<1>2. n - j < n - i
  BY <1>1
<1> QED
  BY <1>1, <1>2, SlotEnds

(* The ids made by the last loop of init.                                   *)
LEMMA LaidIds == Laid => IdsAreGood
<1> SUFFICES ASSUME Laid, phase = "ready", total_blocks < IndexLimit
             PROVE  /\ Len(free_ids) = total_blocks
                    /\ \A i \in 1 .. Len(free_ids) : free_ids[i] # kInvalidBlock
                    /\ \A i, j \in 1 .. Len(free_ids) : i # j => free_ids[i] # free_ids[j]
  BY DEF IdsAreGood
<1>1. total_blocks \in Nat /\ free_ids = Descending(total_blocks)
  BY GeometryAssumption DEF Laid, Sizes
<1>2. /\ Len(free_ids) = total_blocks
      /\ \A i \in 1 .. total_blocks : free_ids[i] = total_blocks - i
  <2>1. total_blocks <= IndexLimit
    BY <1>1, GeometryAssumption
  <2> QED
    BY <1>1, <2>1, DescendingType
<1>3. \A i \in 1 .. total_blocks : free_ids[i] # kInvalidBlock
  BY <1>1, <1>2, GeometryAssumption DEF kInvalidBlock
<1>4. \A i, j \in 1 .. total_blocks : i # j => free_ids[i] # free_ids[j]
  BY <1>1, <1>2
<1> QED
  BY <1>2, <1>3, <1>4

(* Every tier that init accepts and whose bytes and slots are representable *)
(* has its slots inside it and apart from each other; the ids are distinct  *)
(* and valid as long as there are fewer of them than uint32_t has values.   *)
(* Of sizes that wrap it says nothing: init does not exclude them.          *)
THEOREM LayoutIsSound ==
    Spec => [](SlotsInBounds /\ SlotsDisjoint /\ IdsAreGood)
<1>1. Laid => SlotsInBounds /\ SlotsDisjoint /\ IdsAreGood
  BY LaidInBounds, LaidDisjoint, LaidIds
<1> QED
  BY LaidInit, LaidNext, <1>1, PTL DEF Spec

(* A pool over its own tier is not rejected.                                *)
THEOREM OwnTierAccepted == Spec => []OwnTierSuffices
<1>1. Laid => OwnTierSuffices
  BY DEF Laid, OwnTierSuffices
<1> QED
  BY LaidInit, LaidNext, <1>1, PTL DEF Spec
=============================================================================
