----------------------------- MODULE PoolGeometry -----------------------------
(***************************************************************************)
(* How a BlockPool is laid out over its tiers when it is constructed       *)
(* (src/src/block_pool.cpp init and constructors, src/src/tier.cpp,        *)
(* src/include/kvslab/types.hpp): byte sizes from the cache configuration, *)
(* the rounded capacity of a HostTier, the slots of each tier and the ids. *)
(* Sizes are size_t and wrap at SizeLimit, slots and ids are uint32_t and  *)
(* wrap at IndexLimit.                                                     *)
(***************************************************************************)
EXTENDS Naturals, Sequences

CONSTANTS
    SizeLimit,   \* 2^64: the number of values of size_t
    IndexLimit,  \* 2^32: the number of values of uint32_t
    Alignment,   \* kArenaAlignment
    CacheConfig, \* configurations, records of the fields below
    TierSpecs    \* what callers pass: sequences of [null, capacity, num_blocks]

ASSUME GeometryAssumption ==
    /\ SizeLimit \in Nat \ {0}
    /\ IndexLimit \in Nat \ {0}
    /\ Alignment \in 1 .. SizeLimit - 1
    /\ CacheConfig \subseteq
          [num_blocks : 0 .. SizeLimit - 1, block_tokens : 0 .. SizeLimit - 1,
           num_layers : 0 .. SizeLimit - 1, num_kv_heads : 0 .. SizeLimit - 1,
           head_dim : 0 .. SizeLimit - 1, dtype_bytes : 0 .. SizeLimit - 1]
    /\ TierSpecs \subseteq
          Seq([null : BOOLEAN, capacity : 0 .. SizeLimit - 1,
               num_blocks : 0 .. SizeLimit - 1])

VARIABLES
    cfg,           \* cfg_
    owned,         \* whether the pool makes its own tier
    specs,         \* the specs that init is given
    tiers,         \* tiers_, each [capacity, num_blocks, free_slots]
    total_blocks,
    free_ids,      \* free_ids_
    phase          \* where construction is

vars == <<cfg, owned, specs, tiers, total_blocks, free_ids, phase>>

Size(x) == x % SizeLimit
Index(x) == x % IndexLimit
kInvalidBlock == IndexLimit - 1

------------------------------------------------------------------------------
(* types.hpp, tier.cpp                                                      *)

bytes_per_token(c) == Size(2 * c.num_layers * c.num_kv_heads * c.head_dim * c.dtype_bytes)
block_bytes(c) == Size(c.block_tokens * bytes_per_token(c))
total_bytes(c) == Size(c.num_blocks * block_bytes(c))

\* Mutant of round_up: rounds down.
round_down(value, multiple) == Size((value \div multiple) * multiple)

round_up(value, multiple) == Size((Size(value + multiple - 1) \div multiple) * multiple)

------------------------------------------------------------------------------
(* The constructors                                                         *)

Init ==
    /\ cfg \in CacheConfig
    /\ owned \in BOOLEAN
    /\ specs \in IF owned THEN {<< >>} ELSE TierSpecs
    /\ tiers = << >>
    /\ total_blocks = 0
    /\ free_ids = << >>
    /\ phase = IF owned THEN "tier" ELSE "init"

\* BlockPool(cfg) makes a HostTier of total_bytes().  Its capacity is rounded up
\* to whole pages; there is no arena if that is nothing.
MakeHostTier ==
    /\ phase = "tier"
    /\ specs' = <<[null |-> FALSE, num_blocks |-> cfg.num_blocks,
                   capacity |-> round_up(total_bytes(cfg), Alignment)]>>
    /\ phase' = "init"
    /\ UNCHANGED <<cfg, owned, tiers, total_blocks, free_ids>>

\* aligned_alloc finds no memory.
OutOfMemory ==
    /\ phase = "tier"
    /\ round_up(total_bytes(cfg), Alignment) > 0
    /\ phase' = "bad_alloc"
    /\ UNCHANGED <<cfg, owned, specs, tiers, total_blocks, free_ids>>

\* Mutant of TooSmall: a tier one block short will do.
TooSmallByOne(spec) == spec.capacity + block_bytes(cfg) < Size(spec.num_blocks * block_bytes(cfg))

TooSmall(spec) == spec.capacity < Size(spec.num_blocks * block_bytes(cfg))

\* Mutant of Descending: counts from n down to 1.
DescendingToOne(n) == [i \in 1 .. n |-> Index(n - i + 1)]

\* The numbers n - 1 down to 0, as uint32_t.
Descending(n) == [i \in 1 .. n |-> Index(n - i)]

Turn == specs[Len(tiers) + 1]

\* One turn of init's loop over the specs.
InitTier ==
    /\ phase = "init"
    /\ Len(tiers) < Len(specs)
    /\ ~Turn.null
    /\ ~TooSmall(Turn)
    /\ tiers' = Append(tiers, [capacity |-> Turn.capacity,
                               num_blocks |-> Turn.num_blocks,
                               free_slots |-> Descending(Turn.num_blocks)])
    /\ total_blocks' = Size(total_blocks + Turn.num_blocks)
    /\ UNCHANGED <<cfg, owned, specs, free_ids, phase>>

Reject ==
    /\ phase = "init"
    /\ \/ specs = << >>
       \/ Len(tiers) < Len(specs) /\ (Turn.null \/ TooSmall(Turn))
    /\ phase' = "invalid_argument"
    /\ UNCHANGED <<cfg, owned, specs, tiers, total_blocks, free_ids>>

InitIds ==
    /\ phase = "init"
    /\ specs # << >>
    /\ Len(tiers) = Len(specs)
    /\ free_ids' = Descending(total_blocks)
    /\ phase' = "ready"
    /\ UNCHANGED <<cfg, owned, specs, tiers, total_blocks>>

Next == MakeHostTier \/ OutOfMemory \/ InitTier \/ Reject \/ InitIds

Spec == Init /\ [][Next]_vars

\* Mutant of block_offset: slots are laid out by token.
token_offset(slot) == Size(slot * bytes_per_token(cfg))

\* block_offset, and the address arithmetic of block_data, migrate and
\* migrate_async.
block_offset(slot) == Size(slot * block_bytes(cfg))

------------------------------------------------------------------------------
\* What a tier's blocks take up is representable, and so are its slots.
Representable(t) ==
    t.num_blocks * block_bytes(cfg) < SizeLimit /\ t.num_blocks <= IndexLimit

(* The assertions of HostTier::read and write, and what every memcpy relies *)
(* on: a slot of an accepted tier ends inside the tier, if the tier's bytes *)
(* and slots are representable; init also accepts tiers whose are not.      *)
SlotsInBounds ==
    \A k \in 1 .. Len(tiers) : Representable(tiers[k]) =>
        \A i \in 1 .. tiers[k].num_blocks :
            block_offset(tiers[k].free_slots[i]) + block_bytes(cfg) <= tiers[k].capacity

(* No two slots of such a tier share a byte.                                *)
SlotsDisjoint ==
    \A k \in 1 .. Len(tiers) : Representable(tiers[k]) =>
        \A i, j \in 1 .. tiers[k].num_blocks :
            i < j => block_offset(tiers[k].free_slots[j]) + block_bytes(cfg)
                        <= block_offset(tiers[k].free_slots[i])

(* total_blocks ids, no two the same and none of them kInvalidBlock, as     *)
(* long as there are fewer of them than uint32_t has values.                *)
IdsAreGood ==
    phase = "ready" /\ total_blocks < IndexLimit =>
        /\ Len(free_ids) = total_blocks
        /\ \A i \in 1 .. Len(free_ids) : free_ids[i] # kInvalidBlock
        /\ \A i, j \in 1 .. Len(free_ids) : i # j => free_ids[i] # free_ids[j]

(* "The tier rounds up and reports the rounded capacity rather than         *)
(* silently owning bytes it claims not to have": a pool over its own tier   *)
(* is never told that the tier is too small, unless rounding up overflows.  *)
OwnTierSuffices ==
    owned /\ total_bytes(cfg) + Alignment - 1 < SizeLimit => phase # "invalid_argument"
=============================================================================
