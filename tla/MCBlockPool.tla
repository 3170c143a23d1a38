---------------------------- MODULE MCBlockPool ----------------------------
(***************************************************************************)
(* Small pools for TLC: slots are numbered, the compute tier's first.      *)
(***************************************************************************)
EXTENDS BlockPoolView, TLC

\* Two compute slots and one spill slot.
TwoOne == (1 :> 0) @@ (2 :> 0) @@ (3 :> 1)

Sym == Permutations(BlockId) \cup Permutations(JobId) \cup Permutations(Worker)
         \cup Permutations(Value)
=============================================================================
