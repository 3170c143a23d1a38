--------------------------- MODULE MCPoolGeometry ---------------------------
(***************************************************************************)
(* Sizes of 6 bits, indices of 2 bits and pages of 4 bytes for TLC, with   *)
(* configurations and tiers on both sides of every limit.                  *)
(***************************************************************************)
EXTENDS PoolGeometry, SequencesExt

Configs ==
    [num_blocks : 0 .. 7, block_tokens : {0, 1, 3, 5}, num_layers : {1, 3},
     num_kv_heads : {1}, head_dim : {1}, dtype_bytes : {1, 2}]

Specs ==
    [null : {FALSE}, capacity : {0, 8, 20, 40, 60}, num_blocks : {0, 1, 2, 3, 5}]
    \cup {[null |-> TRUE, capacity |-> 0, num_blocks |-> 1]}

SpecLists == BoundedSeq(Specs, 2)
=============================================================================
