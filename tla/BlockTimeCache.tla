--------------------------- MODULE BlockTimeCache ---------------------------
(***************************************************************************)
(* BlockTimeResolver, shared by the goroutines of a crawler: a cache of    *)
(* block headers that evicts the lowest block.  Resolve looks up under the *)
(* read lock and fetches and inserts under the write lock; between the two *)
(* another goroutine may have inserted the same block.                     *)
(***************************************************************************)
EXTENDS Naturals, FiniteSets, FiniteSetsExt, Functions

CONSTANTS
    HeaderBlocks,       \* block numbers
    MaxCachedBlocks,    \* maxCachedBlocks
    Resolvers,          \* goroutines
    MaxRaces,           \* bound on the blocks that are inserted again
    NoBlock

ASSUME CacheAssumption ==
    /\ HeaderBlocks \subseteq Nat /\ IsFiniteSet(HeaderBlocks)
    /\ MaxCachedBlocks \in Nat \ {0} /\ NoBlock \notin HeaderBlocks

VARIABLES
    cachedHeaders,      \* the blocks in the map
    cachedIndices,      \* the sorted slice: how many entries a block has
    missed,             \* missed[r]: the block r did not find, or NoBlock
    races               \* history: how often a block in the cache was inserted again

cacheVars == <<cachedHeaders, cachedIndices, missed, races>>

Indexed == {b \in HeaderBlocks : cachedIndices[b] > 0}
Entries == FoldFunction(LAMBDA n, m : n + m, 0, cachedIndices)

CacheInit ==
    /\ cachedHeaders = {} /\ cachedIndices = [b \in HeaderBlocks |-> 0]
    /\ missed = [r \in Resolvers |-> NoBlock] /\ races = 0

(* The lookup; a hit changes nothing.                                      *)
LookUpHeader(r, b) ==
    /\ missed[r] = NoBlock /\ b \notin cachedHeaders
    /\ missed' = [missed EXCEPT ![r] = b]
    /\ UNCHANGED <<cachedHeaders, cachedIndices, races>>

(* The node does not answer.                                               *)
HeaderFails(r) ==
    /\ missed[r] # NoBlock
    /\ missed' = [missed EXCEPT ![r] = NoBlock]
    /\ UNCHANGED <<cachedHeaders, cachedIndices, races>>

(* Variant: the slice is cut at its end.                                   *)
CutIndicesAtEnd(r) ==
    LET b     == missed[r]
        full  == Cardinality(cachedHeaders) >= MaxCachedBlocks
        index == IF full THEN [cachedIndices EXCEPT ![Max(Indexed)] = @ - 1] ELSE cachedIndices
    IN  /\ b # NoBlock
        /\ races' = IF b \in cachedHeaders THEN races + 1 ELSE races
        /\ races' <= MaxRaces
        /\ cachedHeaders' = (IF full THEN cachedHeaders \ {Min(Indexed)} ELSE cachedHeaders) \cup {b}
        /\ cachedIndices' = [index EXCEPT ![b] = @ + 1]
        /\ missed' = [missed EXCEPT ![r] = NoBlock]

(* The header is fetched and inserted; a full cache drops its lowest block *)
(* and one of the entries that block may have.                             *)
InsertHeader(r) ==
    LET b     == missed[r]
        full  == Cardinality(cachedHeaders) >= MaxCachedBlocks
        index == IF full THEN [cachedIndices EXCEPT ![Min(Indexed)] = @ - 1] ELSE cachedIndices
    IN  /\ b # NoBlock
        /\ races' = IF b \in cachedHeaders THEN races + 1 ELSE races
        /\ races' <= MaxRaces
        /\ cachedHeaders' = (IF full THEN cachedHeaders \ {Min(Indexed)} ELSE cachedHeaders) \cup {b}
        /\ cachedIndices' = [index EXCEPT ![b] = @ + 1]
        /\ missed' = [missed EXCEPT ![r] = NoBlock]

CacheNext ==
    \E r \in Resolvers :
        \/ \E b \in HeaderBlocks : LookUpHeader(r, b)
        \/ HeaderFails(r)
        \/ InsertHeader(r)

-----------------------------------------------------------------------------
(* However lookups race, a block in the cache has an entry in the slice,   *)
(* so that it can be evicted and a full cache finds an entry to drop.      *)
CachedIsIndexed ==
    /\ cachedHeaders \subseteq HeaderBlocks /\ missed \in [Resolvers -> HeaderBlocks \cup {NoBlock}]
    /\ cachedHeaders \subseteq Indexed

(* The cache outgrows maxCachedBlocks by no more than one block for each   *)
(* race, though it never shrinks again.                                    *)
GrowsByRacesOnly ==
    Cardinality(cachedHeaders) <= Entries /\ Entries <= MaxCachedBlocks + races
=============================================================================
