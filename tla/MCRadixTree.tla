---------------------------- MODULE MCRadixTree ----------------------------
(***************************************************************************)
(* Token blocks a, b and c for TLC, where c has the same key as a.         *)
(***************************************************************************)
EXTENDS RadixTree

Keys == [x \in {"a", "b", "c"} |-> IF x = "b" THEN 2 ELSE 1]

\* Requests that extend, diverge from and collide with each other.
Full(s) == [tokens |-> s, partial |-> FALSE]
Requests == {Full(<<"a", "b">>), Full(<<"a", "a">>), Full(<<"a", "b", "a">>),
             Full(<<"c", "b">>), [tokens |-> <<"a">>, partial |-> TRUE]}

Sym == Permutations(Handle) \cup Permutations(BlockId)
=============================================================================
