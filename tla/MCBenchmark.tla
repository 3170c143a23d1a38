----------------------------- MODULE MCBenchmark -----------------------------
(***************************************************************************)
(* The rows of the benchmark, with numbers small enough for TLC and in the *)
(* same proportions.                                                       *)
(***************************************************************************)
EXTENDS Benchmark

Blocks == 1 .. 8
Keys == [x \in Blocks |-> x]

Single(n) ==
    [ids |-> 1 .. n, cap |-> 0 :> n, host |-> {0},
     options |-> [spill_watermark |-> 0, async_promotion |-> FALSE]]

Spilling(compute, spill, watermark, async) ==
    [ids |-> 1 .. compute + spill, cap |-> (0 :> compute) @@ (1 :> spill), host |-> {0, 1},
     options |-> [spill_watermark |-> watermark, async_promotion |-> async]]

Row(name, workload, config, depth, gated) ==
    [row |-> name, workload |-> workload, config |-> config, depth |-> depth,
     gated |-> gated]

\* As in the benchmark, the working set is twice the compute tier, the spill
\* tier holds all of it, and a quarter of the compute tier is the watermark.
Oversubscribed == workload_oversubscribed(8, 1, 3)

\* The last two rows, which the benchmark does not have, keep more in flight than the
\* compute tier holds, so that requests are refused; in the second of them there are
\* spilled entries by then.
Rows ==
    {Row("cold", workload_cold(4, 2), Single(4), 1, FALSE),
     Row("shared prefix", workload_shared_prefix(4, 2, 1), Single(4), 1, FALSE),
     Row("multi-turn", workload_multi_turn(2, 3, 1), Single(4), 1, FALSE),
     Row("oversubscribed", Oversubscribed, Single(4), 1, FALSE),
     Row("oversubscribed", Oversubscribed, Spilling(4, 8, 0, FALSE), 1, FALSE),
     Row("oversubscribed", Oversubscribed, Spilling(4, 8, 1, FALSE), 1, FALSE),
     Row("oversubscribed", Oversubscribed, Spilling(4, 8, 1, TRUE), 2, TRUE),
     Row("oversubscribed", workload_oversubscribed(4, 2, 3), Spilling(4, 8, 1, TRUE), 2, TRUE),
     Row("overfull", workload_oversubscribed(4, 2, 2), Spilling(4, 8, 1, TRUE), 3, TRUE),
     Row("overfull", workload_multi_turn(2, 3, 1), Spilling(3, 6, 1, TRUE), 2, TRUE)}
=============================================================================
