---------------------------- MODULE ProfileCache ----------------------------
(***************************************************************************)
(* CachedClient of lib/userprofile: profiles by address, a heap of the     *)
(* addresses by the time they were inserted, and a count of both.  The API *)
(* is called between the lookup and the insertion, without the lock.       *)
(***************************************************************************)
EXTENDS Naturals, FiniteSets, Functions

CONSTANTS
    Profiles,       \* addresses
    MaxCacheSize,
    Clients,        \* the requests that run at the same time
    NoAddress

ASSUME ProfilesAssumption == IsFiniteSet(Profiles) /\ MaxCacheSize \in Nat \ {0} /\ NoAddress \notin Profiles

VARIABLES
    cached,         \* the addresses in the map
    nodes,          \* nodes[a]: how many nodes of the heap are for a
    cacheSize,
    asking          \* asking[c]: the address c asks the API for, or NoAddress

profileVars == <<cached, nodes, cacheSize, asking>>

HeapSize == FoldFunction(LAMBDA n, m : n + m, 0, nodes)

ProfilesInit ==
    /\ cached = {} /\ nodes = [a \in Profiles |-> 0] /\ cacheSize = 0
    /\ asking = [c \in Clients |-> NoAddress]

(* LookUpCache; a hit changes nothing.                                     *)
LookUpCache(c, a) ==
    /\ asking[c] = NoAddress /\ a \notin cached
    /\ asking' = [asking EXCEPT ![c] = a]
    /\ UNCHANGED <<cached, nodes, cacheSize>>

AskFails(c) ==
    /\ asking[c] # NoAddress
    /\ asking' = [asking EXCEPT ![c] = NoAddress]
    /\ UNCHANGED <<cached, nodes, cacheSize>>

(* Variant: the size is not counted down.                                  *)
CacheUncounted(c) ==
    LET a    == asking[c]
        full == cacheSize >= MaxCacheSize
    IN  /\ a # NoAddress
        /\ \E oldest \in {o \in Profiles : nodes[o] > 0} \cup {NoAddress} :
               /\ full <=> oldest # NoAddress
               /\ cached' = (cached \ {oldest}) \cup {a}
               /\ nodes' = [p \in Profiles |->
                                nodes[p] - (IF p = oldest THEN 1 ELSE 0) + (IF p = a THEN 1 ELSE 0)]
        /\ cacheSize' = cacheSize + 1
        /\ asking' = [asking EXCEPT ![c] = NoAddress]

(* The answer of the API is cached; a full cache pops a node.  Which of    *)
(* the nodes is the oldest is left open: they have times in milliseconds,  *)
(* and those of one millisecond have no order.                             *)
CacheProfile(c) ==
    LET a    == asking[c]
        full == cacheSize >= MaxCacheSize
    IN  /\ a # NoAddress
        /\ \E oldest \in {o \in Profiles : nodes[o] > 0} \cup {NoAddress} :
               /\ full <=> oldest # NoAddress
               /\ cached' = (cached \ {oldest}) \cup {a}
               /\ nodes' = [p \in Profiles |->
                                nodes[p] - (IF p = oldest THEN 1 ELSE 0) + (IF p = a THEN 1 ELSE 0)]
        /\ cacheSize' = IF full THEN cacheSize ELSE cacheSize + 1
        /\ asking' = [asking EXCEPT ![c] = NoAddress]

ProfilesNext ==
    \E c \in Clients :
        \/ \E a \in Profiles : LookUpCache(c, a)
        \/ AskFails(c)
        \/ CacheProfile(c)

-----------------------------------------------------------------------------
(* The heap and its size agree whatever lookups race, so that a full cache *)
(* finds a node to pop.                                                    *)
HeapIsCounted == cacheSize = HeapSize /\ cacheSize <= MaxCacheSize

(* A cached profile has a node: it can be evicted, and the cache stays     *)
(* within MaxCacheSize though an address may have several nodes.           *)
CachedHasNode ==
    /\ \A a \in cached : nodes[a] > 0
    /\ Cardinality(cached) <= MaxCacheSize
=============================================================================
