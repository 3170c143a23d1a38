------------------------------ MODULE RadixTree ------------------------------
(***************************************************************************)
(* The prefix tree (src/src/radix_tree.cpp) under its callers.  A caller   *)
(* matches a request and pins what it matched, takes fresh blocks for the  *)
(* rest, may publish them, and lets go of both; eviction and plain lookups *)
(* come at any point in between.  The pool is reduced to the reference     *)
(* counts the tree changes and reads.                                      *)
(***************************************************************************)
EXTENDS RadixNodes

CONSTANTS
    Request,    \* [tokens, partial]: the whole blocks, and whether a tail follows
    BlockId,
    Handle,     \* the callers' handles
    NoHandle,   \* a handle that holds nothing
    MaxEvict    \* bound: evict is asked for at most this many blocks

VARIABLES
    tree,   \* the tree
    refs,   \* the pool's reference counts
    held    \* what each handle holds

vars == <<tree, refs, held>>

Sequence == {r.tokens : r \in Request}
FreeIds == {b \in BlockId : refs[b] = 0}
Holding == {h \in Handle : held[h] # NoHandle}

\* The blocks a handle took itself; the ones before them it only pins.
FreshBlocks(h) == SubSeq(held[h].blocks, held[h].cached + 1, Len(held[h].blocks))

Init ==
    /\ tree = EmptyTree
    /\ refs = [b \in BlockId |-> 0]
    /\ held = [h \in Handle |-> NoHandle]

\* match_prefix alone.
Probe(s) ==
    /\ tree' = MatchPrefix(tree, s).tree
    /\ UNCHANGED <<refs, held>>

\* match_prefix and lock, then one block from the pool for every block of the
\* request that was not matched and for its unfilled last block, if partial.
Acquire(h, r) ==
    LET m == MatchPrefix(tree, r.tokens)
        need == Len(r.tokens) + (IF r.partial THEN 1 ELSE 0) - Len(m.blocks)
    IN  /\ held[h] = NoHandle
        /\ \E fresh \in Injection(1 .. need, FreeIds) :
              /\ refs' = [b \in BlockId |-> IF b \in Range(fresh) THEN 1 ELSE refs[b]]
              /\ held' = [held EXCEPT ![h] =
                    [tokens |-> r.tokens, blocks |-> m.blocks \o fresh,
                     cached |-> Len(m.blocks), pinned |-> m.node, published |-> FALSE]]
        /\ tree' = Lock(m.tree, m.node)

\* Mutant of Publish: no reference is taken on the adopted blocks.
PublishUncounted(h) ==
    /\ h \in Holding
    /\ ~held[h].published
    /\ LET i == Insert(tree, held[h].tokens, held[h].blocks)
       IN  /\ tree' = i.tree
           /\ UNCHANGED refs
    /\ held' = [held EXCEPT ![h].published = TRUE]

\* insert
Publish(h) ==
    /\ h \in Holding
    /\ ~held[h].published
    /\ LET i == Insert(tree, held[h].tokens, held[h].blocks)
       IN  /\ tree' = i.tree
           /\ refs' = [b \in BlockId |-> refs[b] + Drops(i.adopted, b)]
    /\ held' = [held EXCEPT ![h].published = TRUE]

\* The handle gives its fresh blocks back and unlocks, published or not.
LetGo(h) ==
    /\ h \in Holding
    /\ refs' = DropRefs(refs, FreshBlocks(h))
    /\ tree' = Unlock(tree, held[h].pinned)
    /\ held' = [held EXCEPT ![h] = NoHandle]

EvictBlocks(n) ==
    LET e == Evict(tree, refs, n)
    IN  /\ tree' = e.tree
        /\ refs' = e.refs
        /\ UNCHANGED held

\* The destructor releases every node's blocks; a new tree takes its place.
\* Handles point into the tree, so they are gone before it is.
Destroy ==
    /\ Holding = {}
    /\ tree' = EmptyTree
    /\ refs' = [b \in BlockId |->
          refs[b] - MapThenSumSet(LAMBDA n : Drops(tree.node[n].blocks, b), Nodes(tree))]
    /\ UNCHANGED held

Next ==
    \/ \E s \in Sequence : Probe(s)
    \/ \E h \in Handle :
          \/ \E r \in Request : Acquire(h, r)
          \/ Publish(h)
          \/ LetGo(h)
    \/ \E n \in 1 .. MaxEvict : EvictBlocks(n)
    \/ Destroy

Spec == Init /\ [][Next]_vars

------------------------------------------------------------------------------
\* The token sequence and the blocks from the root down to each node.
Spelled ==
    LET down[n \in DOMAIN tree.node \cup {NoNode}] ==
          IF n \in {Root, NoNode} THEN << >>
          ELSE down[tree.node[n].parent] \o tree.node[n].tokens
    IN  down
BlocksTo ==
    LET down[n \in DOMAIN tree.node \cup {NoNode}] ==
          IF n \in {Root, NoNode} THEN << >>
          ELSE down[tree.node[n].parent] \o tree.node[n].blocks
    IN  down

\* Every stored prefix, paired with the block of its last token block: a node
\* adds one entry for each of its own token blocks.
Stored ==
    LET above(n) == Len(Spelled[n]) - Len(tree.node[n].tokens)
    IN  UNION {{<<SubSeq(Spelled[n], 1, above(n) + i), tree.node[n].blocks[i]>> :
                   i \in 1 .. Len(tree.node[n].blocks)} : n \in Nodes(tree)}

(* Type correctness of the tree's clients and the reference counts; a node  *)
(* holds a block for each of its token blocks and at least one.             *)
TypeOK ==
    /\ DOMAIN tree.node \subseteq NodeId \cup {Root}
    /\ \A n \in Nodes(tree) :
          /\ tree.node[n].tokens \in Seq(TokenBlock)
          /\ tree.node[n].blocks \in Seq(BlockId)
          /\ tree.node[n].lock_count \in Nat
          /\ Len(tree.node[n].blocks) = Len(tree.node[n].tokens)
          /\ tree.node[n].tokens # << >>
    /\ refs \in [BlockId -> 0 .. Cardinality(Handle) + 1]
    /\ \A h \in Holding : held[h].blocks \in Seq(BlockId)

(* The owning maps and the raw parent pointers describe one tree, through   *)
(* every split, insert and drop: a child hangs under the key of its first   *)
(* block and points back, nothing hangs in two places or in none, and the   *)
(* counters and the recency order cover exactly the nodes there are.        *)
TreeShape ==
    /\ \A n \in DOMAIN tree.node, k \in Range(BlockKey) :
          k \in DOMAIN tree.node[n].children =>
             LET c == tree.node[n].children[k]
             IN  /\ c \in Nodes(tree)
                 /\ tree.node[c].parent = n
                 /\ BlockKey[tree.node[c].tokens[1]] = k
    /\ \A c \in Nodes(tree) :
          /\ tree.node[c].parent \in DOMAIN tree.node
          /\ c \in Range(tree.node[tree.node[c].parent].children)
    /\ Len(tree.lru) = Cardinality(Nodes(tree))
    /\ ToSet(tree.lru) = Nodes(tree)
    /\ tree.num_nodes = Cardinality(Nodes(tree))
    /\ tree.stored_blocks = Cardinality(UNION {ToSet(tree.node[n].blocks) : n \in Nodes(tree)})

(* Every reference is accounted for: a block has one for the tree, if one   *)
(* node holds it, and one for each handle that took it.  A block the index  *)
(* lost or stored twice could never be freed, or would be freed in use.     *)
OwnershipCounts ==
    \A b \in BlockId :
        LET inTree == MapThenSumSet(LAMBDA n : Drops(tree.node[n].blocks, b), Nodes(tree))
            taken == MapThenSumSet(LAMBDA h : Drops(FreshBlocks(h), b), Holding)
        IN  inTree <= 1 /\ taken <= 1 /\ refs[b] = inTree + taken

(* "Every pin that reaches `node` necessarily passes through its new        *)
(* parent": however the path of a pin was split since, each node counts     *)
(* exactly the handles whose pin passes through it.  unlock then never      *)
(* underflows and never leaves a node pinned for ever.                      *)
PinBalance ==
    \A n \in Nodes(tree) :
        tree.node[n].lock_count =
           Cardinality({h \in Holding : n \in ToSet(Path(tree, held[h].pinned))})

(* "an existing pin still covers every token it covered before the split":  *)
(* whatever else happens to the tree, the path to a handle's pinned node    *)
(* still spells the prefix it matched and holds the blocks in its table.    *)
PinnedPrefixIntact ==
    \A h \in Holding :
        /\ held[h].pinned # NoNode => held[h].pinned \in Nodes(tree)
        /\ Spelled[held[h].pinned] = SubSeq(held[h].tokens, 1, held[h].cached)
        /\ BlocksTo[held[h].pinned] = SubSeq(held[h].blocks, 1, held[h].cached)

(* match_prefix returns the longest stored prefix of every request, with    *)
(* the blocks stored for it: no split, collision or eviction hides a stored *)
(* prefix behind a node, and none is returned that was not stored.          *)
MatchIsLongest ==
    LET stored == Stored
    IN  \A s \in Sequence :
           LET blocks == MatchPrefix(tree, s).blocks
               found == {i \in 1 .. Len(s) : \E x \in stored : x[1] = SubSeq(s, 1, i)}
           IN  /\ Len(blocks) = Max({0} \cup found)
               /\ \A i \in 1 .. Len(blocks) : <<SubSeq(s, 1, i), blocks[i]>> \in stored

(* evict comes back short only when nothing is left to evict: every leaf it *)
(* leaves behind is pinned or shares a block with a handle.                 *)
EvictExhausts ==
    \A n \in 1 .. MaxEvict :
        LET e == Evict(tree, refs, n)
        IN  Len(e.freed) < n =>
               \A m \in ToSet(LruLeaves(e.tree)) : ~SoleOwner(e.tree, e.refs, m)

Cache == INSTANCE PrefixCache WITH
            entry <- Stored,
            pinned <- [h \in Handle |->
               IF held[h] = NoHandle THEN << >>
               ELSE SubSeq(held[h].tokens, 1, held[h].cached)]

(* The tree implements a prefix-closed map with pins: publishing adds all   *)
(* prefixes of a request or, on a key collision, none beyond those there;   *)
(* nothing stored is ever rebound; only unpinned ends are evicted.          *)
ImplementsPrefixCache == Cache!CacheSpec

(* "Frees up to `num_blocks` blocks": evict frees no more than asked.       *)
EvictWithinRequest ==
    \A n \in 1 .. MaxEvict : Len(Evict(tree, refs, n).freed) <= n
=============================================================================
