----------------------------- MODULE PrefixCache -----------------------------
(***************************************************************************)
(* What a prefix index promises, without a tree: a map from token          *)
(* sequences to blocks that is closed under prefixes, and readers that     *)
(* each pin the longest stored prefix of their request.                    *)
(***************************************************************************)
EXTENDS Naturals, Sequences, FiniteSetsExt

CONSTANTS
    Sequence,  \* the token sequences requests consist of
    Handle     \* readers

VARIABLES
    entry,   \* pairs of a stored prefix and the block of its last token block
    pinned   \* the prefix each reader pins; empty if none

cvars == <<entry, pinned>>

CacheInit ==
    /\ entry = {}
    /\ pinned = [h \in Handle |-> << >>]

NonEmptyPrefixes(s) == {SubSeq(s, 1, i) : i \in 1 .. Len(s)}

\* The prefixes stored in e.
Keys(e) == {x[1] : x \in e}

\* The longest prefixes stored in e that the requests have.
Matches(e) ==
    {SubSeq(s, 1, Max({0} \cup {Len(p) : p \in NonEmptyPrefixes(s) \cap Keys(e)})) :
        s \in Sequence}

CachePin(h) ==
    /\ pinned[h] = << >>
    /\ pinned' = [pinned EXCEPT ![h] = pinned'[h]]
    /\ pinned'[h] \in Matches(entry)
    /\ UNCHANGED entry

CacheUnpin(h) ==
    /\ pinned' = [pinned EXCEPT ![h] = << >>]
    /\ UNCHANGED entry

\* f adds to e the missing prefixes of some sequence, in blocks that are used
\* for nothing else; what was stored keeps its block.
Extends(f, e) ==
    /\ e \subseteq f
    /\ \E s \in Sequence : Keys(f) = Keys(e) \cup NonEmptyPrefixes(s)
    /\ \A x, y \in f : x[1] = y[1] <=> x[2] = y[2]

CachePublish ==
    /\ UNCHANGED pinned
    /\ Extends(entry', entry)

\* f is e without some entries: never one whose extension stays, never one of
\* a pinned prefix.
Shrinks(f, e) ==
    /\ f \subseteq e
    /\ \A p \in Keys(f) \cup {pinned[h] : h \in Handle} :
          NonEmptyPrefixes(p) \subseteq Keys(f)

CacheEvict ==
    /\ UNCHANGED pinned
    /\ Shrinks(entry', entry)

CacheNext ==
    \/ CacheEvict
    \/ CachePublish
    \/ \E h \in Handle : CacheUnpin(h) \/ CachePin(h)

CacheSpec == CacheInit /\ [][CacheNext]_cvars
=============================================================================
