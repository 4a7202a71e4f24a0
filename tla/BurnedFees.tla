----------------------------- MODULE BurnedFees -----------------------------
(***************************************************************************)
(* burned-fees-crawler: it crawls the burn fee events of a range of blocks *)
(* in chunks and inserts them one by one.  Without --from-block it resumes *)
(* from the newest block of the table, as the daemon does every minute.    *)
(***************************************************************************)
EXTENDS Naturals, Sequences, FiniteSetsExt

CONSTANTS
    BlockOf,        \* BlockOf[e] is the block of the e-th event of the chain
    FirstFeeBlock,  \* defaultFromBlock
    MaxBlocks,      \* --max-blocks
    LastFeeBlock,   \* bound: the chain ends here
    MaxFeeCrashes   \* bound on the processes that are killed or fail

ASSUME FeesAssumption ==
    /\ FirstFeeBlock \in Nat /\ LastFeeBlock \in Nat /\ FirstFeeBlock <= LastFeeBlock
    /\ MaxBlocks \in Nat \ {0} /\ MaxFeeCrashes \in Nat
    /\ BlockOf \in Seq(Nat)
    /\ \A d, e \in DOMAIN BlockOf : d <= e => BlockOf[d] <= BlockOf[e]

VARIABLES
    feeHead,        \* the latest block
    feeRows,        \* how often an event is in table burned_fee: 0, 1 or 2 (twice or more)
    crawling,       \* a process is in Crawl
    feeFrom, feeTo, \* i and toBlock of Crawl
    toStore,        \* the events of the chunk that are not stored yet
    feeCrashes,
    chunkEnds       \* history: the first and the last blocks of all chunks

crawlVars == <<crawling, feeFrom, feeTo, toStore>>
feeVars == <<feeHead, feeRows, crawlVars, feeCrashes, chunkEnds>>

Events == DOMAIN BlockOf
StoredEvents == {e \in Events : feeRows[e] > 0}

FeesInit ==
    /\ feeHead = FirstFeeBlock
    /\ feeRows = [e \in Events |-> 0]
    /\ crawling = FALSE /\ feeFrom = 0 /\ feeTo = 0 /\ toStore = {}
    /\ feeCrashes = 0 /\ chunkEnds = {}

MineFees ==
    /\ feeHead < LastFeeBlock
    /\ feeHead' = feeHead + 1
    /\ UNCHANGED <<feeRows, crawlVars, feeCrashes, chunkEnds>>

-----------------------------------------------------------------------------
LastFee == IF StoredEvents = {} THEN 0 ELSE Max({BlockOf[e] : e \in StoredEvents})

(* Variant: it resumes after the newest block.                             *)
StartCrawlAfter(to) ==
    /\ ~crawling
    /\ crawling' = TRUE
    /\ feeFrom' = IF LastFee # 0 THEN LastFee + 1 ELSE FirstFeeBlock
    /\ feeTo' = to
    /\ toStore' = {}
    /\ UNCHANGED <<feeHead, feeRows, feeCrashes, chunkEnds>>

(* Variant: it resumes the length of a chunk before the newest block.      *)
StartCrawlEarlier(to) ==
    /\ ~crawling
    /\ crawling' = TRUE
    /\ feeFrom' = IF LastFee > MaxBlocks THEN LastFee - MaxBlocks ELSE FirstFeeBlock
    /\ feeTo' = to
    /\ toStore' = {}
    /\ UNCHANGED <<feeHead, feeRows, feeCrashes, chunkEnds>>

(* A process is started, or the daemon begins a round up to the head.      *)
StartCrawl(to) ==
    /\ ~crawling
    /\ crawling' = TRUE
    /\ feeFrom' = IF LastFee # 0 THEN LastFee ELSE FirstFeeBlock
    /\ feeTo' = to
    /\ toStore' = {}
    /\ UNCHANGED <<feeHead, feeRows, feeCrashes, chunkEnds>>

(* One turn of the loop of Crawl up to Store: both ends of a chunk belong  *)
(* to it, so chunks share a block.                                         *)
FetchChunk ==
    /\ crawling /\ toStore = {} /\ feeFrom < feeTo
    /\ LET end == Min({feeFrom + MaxBlocks, feeTo})
       IN  /\ toStore' = {e \in Events : BlockOf[e] >= feeFrom /\ BlockOf[e] <= end}
           /\ chunkEnds' = chunkEnds \cup {feeFrom, end}
    /\ feeFrom' = feeFrom + MaxBlocks
    /\ UNCHANGED <<feeHead, feeRows, crawling, feeTo, feeCrashes>>

(* Variant: the events are stored from the newest to the oldest.           *)
NewestToStore == Max(toStore)

(* The events come, and are stored, in the order of the logs.              *)
NextToStore == Min(toStore)

(* Store: an INSERT of its own for every event.                            *)
StoreFee ==
    /\ toStore # {}
    /\ feeRows' = [feeRows EXCEPT ![NextToStore] = IF @ = 0 THEN 1 ELSE 2]
    /\ toStore' = toStore \ {NextToStore}
    /\ UNCHANGED <<feeHead, crawling, feeFrom, feeTo, feeCrashes, chunkEnds>>

CrawlEnds ==
    /\ crawling /\ toStore = {} /\ feeFrom >= feeTo
    /\ crawling' = FALSE
    /\ UNCHANGED <<feeHead, feeRows, feeFrom, feeTo, toStore, feeCrashes, chunkEnds>>

(* The process is killed, or a call of the node or a statement fails.      *)
FeesStop ==
    /\ crawling /\ feeCrashes < MaxFeeCrashes
    /\ crawling' = FALSE /\ toStore' = {}
    /\ feeCrashes' = feeCrashes + 1
    /\ UNCHANGED <<feeHead, feeRows, feeFrom, feeTo, chunkEnds>>

CrawlFees == FetchChunk \/ StoreFee \/ CrawlEnds

FeesNext ==
    \/ MineFees
    \/ \E to \in 0 .. feeHead : StartCrawl(to)
    \/ CrawlFees
    \/ FeesStop

-----------------------------------------------------------------------------
(* Every variable has its type, and Crawl only fetches mined blocks.       *)
FeesTypeOK ==
    /\ feeHead \in FirstFeeBlock .. LastFeeBlock
    /\ feeRows \in [Events -> 0 .. 2]
    /\ feeTo \in 0 .. feeHead /\ feeFrom \in Nat
    /\ toStore # {} => crawling
    /\ toStore \subseteq Events /\ \A e \in toStore : BlockOf[e] <= feeTo
    /\ chunkEnds \subseteq 0 .. feeHead

(* Wherever the crawler was stopped, no event below the newest block of    *)
(* the table, from which it resumes, is missing.                           *)
NoFeeIsMissed ==
    \A e \in Events : BlockOf[e] >= FirstFeeBlock /\ BlockOf[e] < LastFee => e \in StoredEvents

(* Only the events of blocks that two chunks or two runs share are stored  *)
(* more than once: those of the ends of chunks.                            *)
RepeatsAreChunkEnds == \A e \in Events : feeRows[e] = 2 => BlockOf[e] \in chunkEnds

(* Every event that is followed by a block is eventually stored.           *)
EveryFeeIsStored ==
    \A e \in Events : BlockOf[e] >= FirstFeeBlock /\ BlockOf[e] < LastFeeBlock => <>(e \in StoredEvents)
=============================================================================
