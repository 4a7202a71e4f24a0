---------------------------- MODULE TradeLogsJobs ----------------------------
(***************************************************************************)
(* How the trade logs crawler cuts a range of blocks into jobs             *)
(* (tradelogs/cmd/trade-logs-crawler/main.go) and which generation of the  *)
(* KyberNetwork contracts a job decodes (Crawler.GetTradeLogs).            *)
(* A job is a range [from |-> f, to |-> t], both ends included.            *)
(***************************************************************************)
EXTENDS Integers, FiniteSetsExt, SequencesExt

CONSTANTS MaxBlocks,                    \* --max-blocks
          StartV2, StartV3, StartV4     \* starting blocks of the contracts

(* Production and staging: the generations start millions of blocks apart, *)
(* so that a chunk never holds the start of two of them.                   *)
ASSUME JobsAssumption ==
    /\ MaxBlocks \in Nat \ {0}
    /\ StartV2 \in Nat /\ StartV3 \in Nat /\ StartV4 \in Nat
    /\ StartV2 + MaxBlocks < StartV3
    /\ StartV3 + MaxBlocks < StartV4

Job(f, t) == [from |-> f, to |-> t]

Least(a, b) == IF a <= b THEN a ELSE b

Start(gen) == CASE gen = 2 -> StartV2 [] gen = 3 -> StartV3 [] gen = 4 -> StartV4

(* A chunk that holds the first block of a generation, but not as its own  *)
(* first, is cut there: that block belongs to both halves.  When several   *)
(* generations start in the chunk only the newest cuts it.                 *)
Cuts(i, end) == {Start(gen) : gen \in {g \in 2 .. 4 : i < Start(g) /\ Start(g) <= end}}

SplitChunk(i, end) ==
    IF Cuts(i, end) = {}
    THEN <<Job(i, end)>>
    ELSE <<Job(i, Max(Cuts(i, end))), Job(Max(Cuts(i, end)), end)>>

(* for i := from; i <= to; i += maxBlocks: consecutive chunks share their  *)
(* boundary block.                                                         *)
NumChunks(from, to) == IF from > to THEN 0 ELSE (to - from) \div MaxBlocks + 1

(* Variant: a chunk that forgets its last block.                           *)
ShortChunk(from, to, k) ==
    LET i == from + (k - 1) * MaxBlocks
    IN  SplitChunk(i, Least(i + MaxBlocks, to) - 1)

Chunk(from, to, k) ==
    LET i == from + (k - 1) * MaxBlocks
    IN  SplitChunk(i, Least(i + MaxBlocks, to))

Jobs(from, to) ==
    FlattenSeq([k \in 1 .. NumChunks(from, to) |-> Chunk(from, to, k)])

(* The number of workers started for a range.                              *)
RequiredWorkers(from, to, maxWorkers) ==
    Least((to - from + 1 + MaxBlocks - 1) \div MaxBlocks, maxWorkers)

(* The decoder of a job is that of the newest generation started at both   *)
(* of its ends; the decoder of generation 4 also knows the events of 3.    *)
Handler(job) ==
    Max({1} \cup {gen \in 2 .. 4 : job.from >= Start(gen) /\ job.to >= Start(gen)})

Decodes(job, gen) == gen = Handler(job) \/ (gen = 3 /\ Handler(job) = 4)

(* The generations whose trades can be on chain at block b: the current    *)
(* one and, in the very first block of a generation, also the previous.    *)
(* From generation 4 on, contracts of generation 3 still trade.            *)
GenerationsAt(b) ==
    {g \in 1 .. 4 :
        \/ g = 1 /\ b <= StartV2
        \/ g = 2 /\ b >= StartV2 /\ b <= StartV3
        \/ g = 3 /\ b >= StartV3
        \/ g = 4 /\ b >= StartV4}
=============================================================================
