----------------------------- MODULE BlockStore -----------------------------
(***************************************************************************)
(* What a BlockPool promises the owner of a BlockId: the id is a stable,   *)
(* reference-counted name for some bytes.  Only an allocation and the      *)
(* owner's own writes change what a live id reads as.  There are no tiers, *)
(* no slots, no jobs and no worker threads here: wherever the block lives  *)
(* and however often it is moved, its owner cannot tell.                   *)
(***************************************************************************)
EXTENDS Naturals

CONSTANTS
    BlockId,    \* the ids of the pool
    Value,      \* what an owner can write into a block
    Garbage,    \* bytes nobody wrote: uninitialised or torn
    Nil,        \* the content of a free id
    MaxRefs     \* bound on the references to one block

VARIABLES
    refs,       \* references to each id; zero when it is free
    content     \* what a reader of each id sees

svars == <<refs, content>>

StoreInit ==
    /\ refs = [b \in BlockId |-> 0]
    /\ content = [b \in BlockId |-> Nil]

\* A fresh block shows whatever its memory last held.
StoreAllocate(b) ==
    /\ refs[b] = 0
    /\ refs' = [refs EXCEPT ![b] = 1]
    /\ \E v \in Value \cup {Garbage} : content' = [content EXCEPT ![b] = v]

StoreIncref(b) ==
    /\ refs[b] \in 1 .. MaxRefs - 1
    /\ refs' = [refs EXCEPT ![b] = @ + 1]
    /\ UNCHANGED content

\* Dropping the last reference frees the id and forgets its bytes.
StoreDecref(b) ==
    /\ refs[b] > 0
    /\ refs' = [refs EXCEPT ![b] = @ - 1]
    /\ content' = [content EXCEPT ![b] = IF refs[b] = 1 THEN Nil ELSE @]

StoreWrite(b, v) ==
    /\ refs[b] > 0
    /\ content' = [content EXCEPT ![b] = v]
    /\ UNCHANGED refs

StoreNext ==
    \E b \in BlockId :
        \/ StoreAllocate(b)
        \/ StoreIncref(b)
        \/ StoreDecref(b)
        \/ \E v \in Value : StoreWrite(b, v)

StoreSpec == StoreInit /\ [][StoreNext]_svars
=============================================================================
