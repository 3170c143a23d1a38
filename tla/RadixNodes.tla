----------------------------- MODULE RadixNodes -----------------------------
(***************************************************************************)
(* The prefix tree's operations (src/src/radix_tree.cpp), each a function  *)
(* from a tree to a tree, so that both the tree's own specification        *)
(* (RadixTree) and the cache manager's (CacheManager) can take one whole   *)
(* call as a step.                                                         *)
(*                                                                         *)
(* A token sequence is a sequence of blocks' worth of tokens: every loop   *)
(* of the code advances by whole blocks.  block_key is a constant function *)
(* on them that need not be injective.  last_access is kept as an order:   *)
(* lru lists the nodes from the least to the most recently touched, which  *)
(* is exact because the clock never gives two nodes the same time.         *)
(***************************************************************************)
EXTENDS Naturals, Sequences, SequencesExt, FiniteSetsExt, Functions

CONSTANTS
    TokenBlock,  \* one block's worth of tokens
    BlockKey,    \* block_key, a function on TokenBlock
    NodeId,      \* addresses a node can be allocated at
    Root,        \* the root's address
    NoNode       \* the null Node*

ASSUME NodesAssumption ==
    /\ DOMAIN BlockKey = TokenBlock
    /\ Root \notin NodeId
    /\ NoNode \notin NodeId \cup {Root}

\* A tree that has only its root.
EmptyTree ==
    [node |-> [n \in {Root} |->
                  [tokens |-> << >>, blocks |-> << >>, children |-> << >>,
                   parent |-> NoNode, lock_count |-> 0]],
     lru |-> << >>, stored_blocks |-> 0, num_nodes |-> 0]

Nodes(t) == DOMAIN t.node \ {Root}

\* Where make_unique puts the next node.
NewNode(t) == CHOOSE n \in NodeId : n \notin DOMAIN t.node

\* Function f with its value at x set or added.
With(f, x, v) == [y \in DOMAIN f \cup {x} |-> IF y = x THEN v ELSE f[y]]
Without(f, x) == Restrict(f, DOMAIN f \ {x})

HasChild(t, n, b) == BlockKey[b] \in DOMAIN t.node[n].children
Child(t, n, b) == t.node[n].children[BlockKey[b]]

\* The nodes of a sequence become the most recently used, its last the most.
Touch(t, ns) == [t EXCEPT !.lru = SelectSeq(@, LAMBDA n : n \notin ToSet(ns)) \o ns]

------------------------------------------------------------------------------
(* Pins                                                                     *)

\* The nodes lock and unlock visit: n and its ancestors below the root.
Path(t, n) ==
    LET up[m \in DOMAIN t.node] ==
          IF m = Root THEN << >> ELSE Append(up[t.node[m].parent], m)
    IN  IF n = NoNode THEN << >> ELSE up[n]

Lock(t, n) ==
    LET p == ToSet(Path(t, n))
    IN  [t EXCEPT !.node = [m \in DOMAIN @ |->
            IF m \in p THEN [@[m] EXCEPT !.lock_count = @ + 1] ELSE @[m]]]

Unlock(t, n) ==
    LET p == ToSet(Path(t, n))
    IN  [t EXCEPT !.node = [m \in DOMAIN @ |->
            IF m \in p THEN [@[m] EXCEPT !.lock_count = @ - 1] ELSE @[m]]]

------------------------------------------------------------------------------
(* Walking and splitting                                                    *)

\* Mutant of HeadPart: the new parent starts unpinned.
HeadPartUnpinned(nd, n, m) ==
    [tokens |-> SubSeq(nd.tokens, 1, m),
     blocks |-> SubSeq(nd.blocks, 1, m),
     children |-> With(<< >>, BlockKey[nd.tokens[m + 1]], n),
     parent |-> nd.parent,
     lock_count |-> 0]

\* The new parent of node n = nd: its first m blocks, its place and its pins.
HeadPart(nd, n, m) ==
    [tokens |-> SubSeq(nd.tokens, 1, m),
     blocks |-> SubSeq(nd.blocks, 1, m),
     children |-> With(<< >>, BlockKey[nd.tokens[m + 1]], n),
     parent |-> nd.parent,
     lock_count |-> nd.lock_count]

\* Mutant of TailPart: the node keeps one block too many.
TailPartOverlap(nd, m, h) ==
    [nd EXCEPT !.tokens = SubSeq(@, m + 1, Len(@)),
               !.blocks = SubSeq(@, m, Len(@)),
               !.parent = h]

\* What is left of nd below its new parent h.
TailPart(nd, m, h) ==
    [nd EXCEPT !.tokens = SubSeq(@, m + 1, Len(@)),
               !.blocks = SubSeq(@, m + 1, Len(@)),
               !.parent = h]

\* split_node: the node keeps its address and its tail; a new parent h takes
\* the rest.  A caller touches the head at once, so its place in lru is left
\* to that.
SplitNode(t, n, m, h) ==
    LET nd == t.node[n]
        above == [t.node[nd.parent] EXCEPT
                    !.children = With(@, BlockKey[nd.tokens[1]], h)]
    IN  [t EXCEPT
          !.node = With(With(With(@, n, TailPart(nd, m, h)), h, HeadPart(nd, n, m)),
                        nd.parent, above),
          !.num_nodes = @ + 1]

\* Mutant of Common: an equal key is taken for an equal first block.
CommonTrustsKey(x, y) ==
    Max({1} \cup {m \in 0 .. Min({Len(x), Len(y)}) : SubSeq(x, 1, m) = SubSeq(y, 1, m)})

\* How many leading blocks two sequences share.
Common(x, y) ==
    Max({m \in 0 .. Min({Len(x), Len(y)}) : SubSeq(x, 1, m) = SubSeq(y, 1, m)})

\* The children the walk of match_prefix and insert consumes, in order, with
\* the number of blocks it consumes of each; only the last can be cut short.
\* A child whose first block differs is a hash collision, and ends the walk.
Descent(t, s) ==
    LET walk[n \in DOMAIN t.node, pos \in 0 .. Len(s)] ==
          IF pos = Len(s) THEN << >>
          ELSE IF ~HasChild(t, n, s[pos + 1]) THEN << >>
          ELSE LET c == Child(t, n, s[pos + 1])
                   m == Common(t.node[c].tokens, SubSeq(s, pos + 1, Len(s)))
               IN  IF m = 0 THEN << >>
                   ELSE IF m < Len(t.node[c].tokens) THEN <<[node |-> c, common |-> m]>>
                   ELSE <<[node |-> c, common |-> m]>> \o walk[c, pos + m]
    IN  walk[Root, 0]

\* A walk of len blocks that passed the nodes of path and touched them.
Ended(t, path, len) ==
    [tree |-> Touch(t, path),
     path |-> path,
     node |-> IF path = << >> THEN Root ELSE Last(path),
     len  |-> len]

\* Descent d with its effects: a node it ends inside is split.
Follow(t, d) ==
    LET ns == [i \in 1 .. Len(d) |-> d[i].node]
        len == FoldLeft(LAMBDA a, x : a + x.common, 0, d)
        h == NewNode(t)
    IN  IF d # << >> /\ Last(d).common < Len(t.node[Last(d).node].tokens)
        THEN Ended(SplitNode(t, Last(d).node, Last(d).common, h),
                   Append(Front(ns), h), len)
        ELSE Ended(t, ns, len)

Walk(t, s) == Follow(t, Descent(t, s))

\* What match_prefix returns after walk w.
MatchResult(w) ==
    [tree |-> w.tree,
     node |-> IF w.path = << >> THEN NoNode ELSE w.node,
     blocks |-> FlattenSeq([i \in 1 .. Len(w.path) |->
                               w.tree.node[w.path[i]].blocks])]

MatchPrefix(t, s) == MatchResult(Walk(t, s))

\* The part of s that walk w did not find hangs as a new leaf n where w ended.
AddLeaf(w, n, s, blocks) ==
    LET leaf == [tokens |-> SubSeq(s, w.len + 1, Len(s)),
                 blocks |-> SubSeq(blocks, w.len + 1, Len(s)),
                 children |-> << >>, parent |-> w.node, lock_count |-> 0]
        above == [w.tree.node[w.node] EXCEPT
                    !.children = With(@, BlockKey[s[w.len + 1]], n)]
    IN  [tree |-> Touch([w.tree EXCEPT
                           !.node = With(With(@, n, leaf), w.node, above),
                           !.stored_blocks = @ + Len(leaf.blocks),
                           !.num_nodes = @ + 1], <<n>>),
         adopted |-> leaf.blocks]

\* Mutant of Adopt: a taken key is overwritten.
AdoptOverwrites(w, s, blocks) ==
    IF w.len >= Len(s)
    THEN [tree |-> w.tree, adopted |-> << >>]
    ELSE AddLeaf(w, NewNode(w.tree), s, blocks)

\* insert after its walk w.  A taken key refuses the whole remainder.
Adopt(w, s, blocks) ==
    IF w.len >= Len(s) \/ HasChild(w.tree, w.node, s[w.len + 1])
    THEN [tree |-> w.tree, adopted |-> << >>]
    ELSE AddLeaf(w, NewNode(w.tree), s, blocks)

\* Mutant of Insert: the last whole block is left out.
InsertShort(t, s, blocks) ==
    LET whole == SubSeq(s, 1, Min({Len(s), Len(blocks)}) - 1)
    IN  Adopt(Walk(t, whole), whole, blocks)

\* insert: what it makes of the tree, and the blocks it adopts (takes a
\* reference on).
Insert(t, s, blocks) ==
    LET whole == SubSeq(s, 1, Min({Len(s), Len(blocks)}))
    IN  Adopt(Walk(t, whole), whole, blocks)

------------------------------------------------------------------------------
(* Eviction                                                                 *)

Leaf(t, n) == DOMAIN t.node[n].children = {}

\* Mutant of LruLeaves: pins are not looked at.
LruLeavesPinned(t) == SelectSeq(t.lru, LAMBDA n : Leaf(t, n))

\* Mutant of LruLeaves: the most recently used first.
MruLeaves(t) ==
    Reverse(SelectSeq(t.lru, LAMBDA n : Leaf(t, n) /\ t.node[n].lock_count = 0))

\* The unpinned leaves in lru order; find_lru_leaf takes the first one that
\* the caller has not rejected.
LruLeaves(t) == SelectSeq(t.lru, LAMBDA n : Leaf(t, n) /\ t.node[n].lock_count = 0)

SoleOwner(t, refs, n) == \A b \in ToSet(t.node[n].blocks) : refs[b] = 1

\* The number of times id b is dropped by releasing the blocks of sequence s.
Drops(s, b) == Cardinality({i \in DOMAIN s : s[i] = b})
DropRefs(refs, s) == [b \in DOMAIN refs |-> refs[b] - Drops(s, b)]

\* drop_leaf
DropLeaf(t, n) ==
    LET nd == t.node[n]
        above == [t.node[nd.parent] EXCEPT
                    !.children = Without(@, BlockKey[nd.tokens[1]])]
    IN  [t EXCEPT !.node = With(Without(@, n), nd.parent, above),
                  !.lru = SelectSeq(@, LAMBDA m : m # n),
                  !.stored_blocks = @ - Len(nd.blocks),
                  !.num_nodes = @ - 1]

\* Mutant of EvictOne: the first rejected leaf ends the search.
EvictOneGivesUp(e, num_blocks) ==
    LET order == SelectSeq(LruLeaves(e.tree), LAMBDA n : n \notin e.rejected)
        victim == order[1]
        refs == DropRefs(e.refs, e.tree.node[victim].blocks)
    IN  IF Len(e.freed) >= num_blocks \/ order = << >> THEN e
        ELSE IF ~SoleOwner(e.tree, e.refs, victim)
        THEN [e EXCEPT !.rejected = Nodes(e.tree)]
        ELSE [e EXCEPT !.tree = DropLeaf(@, victim),
                       !.refs = refs,
                       !.freed = @ \o SelectSeq(e.tree.node[victim].blocks,
                                                LAMBDA b : refs[b] = 0)]

\* One turn of evict's loop on e = [tree, refs, freed, rejected].
EvictOne(e, num_blocks) ==
    LET order == SelectSeq(LruLeaves(e.tree), LAMBDA n : n \notin e.rejected)
        victim == order[1]
        refs == DropRefs(e.refs, e.tree.node[victim].blocks)
    IN  IF Len(e.freed) >= num_blocks \/ order = << >> THEN e
        ELSE IF ~SoleOwner(e.tree, e.refs, victim)
        THEN [e EXCEPT !.rejected = @ \cup {victim}]
        ELSE [e EXCEPT !.tree = DropLeaf(@, victim),
                       !.refs = refs,
                       !.freed = @ \o SelectSeq(e.tree.node[victim].blocks,
                                                LAMBDA b : refs[b] = 0)]

\* evict: a turn drops or rejects a node, so as many turns as nodes suffice.
Evict(t, refs, num_blocks) ==
    LET turn[i \in 0 .. Cardinality(Nodes(t))] ==
          IF i = 0 THEN [tree |-> t, refs |-> refs, freed |-> << >>, rejected |-> {}]
          ELSE EvictOne(turn[i - 1], num_blocks)
    IN  turn[Cardinality(Nodes(t))]

\* pick_demotion_victims; eligible are the blocks for which the pool gives it
\* the right answers.
PickDemotionVictims(t, num_slots, eligible) ==
    LET leaves == LruLeaves(t)
        all == FlattenSeq([i \in 1 .. Len(leaves) |->
                  SelectSeq(t.node[leaves[i]].blocks, LAMBDA b : b \in eligible)])
    IN  SubSeq(all, 1, Min({num_slots, Len(all)}))
=============================================================================
