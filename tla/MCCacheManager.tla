--------------------------- MODULE MCCacheManager ---------------------------
(***************************************************************************)
(* Small cache managers for TLC over token blocks a and b with different   *)
(* keys.                                                                   *)
(***************************************************************************)
EXTENDS CacheManager

CONSTANT BlockId

Keys == [x \in {"a", "b"} |-> x]

Manager(cap, host, watermark, async) ==
    [ids |-> BlockId, cap |-> cap, host |-> host,
     options |-> [spill_watermark |-> watermark, async_promotion |-> async]]

TwoOne == (0 :> 2) @@ (1 :> 1)
TwoTwo == (0 :> 2) @@ (1 :> 2)

LargeManager == {Manager(TwoTwo, {0, 1}, 1, TRUE)}
AsyncManager == {Manager(TwoOne, {0, 1}, 1, TRUE)}

\* Promotion on the workers; promotion at once; a spill tier that the workers
\* cannot address; no spill tier.
Managers == {Manager(TwoOne, {0, 1}, 1, TRUE),
             Manager(TwoOne, {0, 1}, 1, FALSE),
             Manager(TwoOne, {0}, 1, TRUE),
             Manager(0 :> 3, {0}, 1, FALSE)}

Full(s) == [tokens |-> s, partial |-> FALSE]
Requests == {Full(<<"a">>), Full(<<"a", "b">>),
             [tokens |-> <<"b">>, partial |-> TRUE]}

Sym == Permutations(Handle) \cup Permutations(BlockId)
=============================================================================
