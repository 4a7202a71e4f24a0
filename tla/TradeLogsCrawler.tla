-------------------------- MODULE TradeLogsCrawler ---------------------------
(***************************************************************************)
(* The trade logs crawler as a process that is started, crawls the chain   *)
(* round after round into Postgres, and may die at any moment.             *)
(*                                                                         *)
(* A round is planned by crawlPlanner.next, cut into jobs (TradeLogsJobs)  *)
(* and executed by a pool of workers: the jobs are fetched concurrently    *)
(* and stored serially, which is what WorkerPool implements.  The storage  *)
(* is the tradelogs, users and big_tradelogs tables of                     *)
(* tradelogs/storage/postgres; the only memory that survives a crash is    *)
(* the database, and a restart resumes from its last block.                *)
(***************************************************************************)
EXTENDS TradeLogsJobs, FiniteSets

CONSTANTS
    Trades,         \* all trades: [block, idx, gen, user, big]
    MaxHead,        \* bound: the chain grows up to this block
    FirstBlock,     \* defaultFromBlock
    Flags,          \* the command lines it is started with: [from, to], each may be Unset
    Confirmations,  \* --wait-for-confirmations
    MaxReorgDepth,  \* deepest chain reorganisation
    MaxReorgs,      \* bound on the number of reorganisations
    MaxWorkers,     \* --max-workers
    RecentBlocks,   \* the number of blocks of one hour
    MaxCrashes,     \* bound on the number of crashes
    MaxLost,        \* bound on the transactions whose COMMIT fails
    Unset

ASSUME CrawlerAssumption ==
    /\ IsFiniteSet(Trades)
    /\ FirstBlock \in Nat \ {0}
    /\ Confirmations \in Nat
    /\ MaxHead \in Nat \ {0} /\ MaxReorgDepth \in Nat /\ MaxReorgs \in Nat /\ MaxCrashes \in Nat
    /\ MaxWorkers \in Nat \ {0}
    /\ RecentBlocks \in Nat
    /\ \A f \in Flags : f.from \in Nat \cup {Unset} /\ f.to \in Nat \cup {Unset}
    /\ Unset \notin Int
    /\ MaxLost \in Nat
    /\ \A t \in Trades : /\ t.block \in Nat \ {0} /\ t.gen \in GenerationsAt(t.block)
                        /\ t.idx \in Nat /\ t.big \in BOOLEAN

Before(t, u) == t.block < u.block \/ (t.block = u.block /\ t.idx < u.idx)

(* How it is deployed: no reorganisation is deeper than the confirmations  *)
(* it waits for; defaultFromBlock is not after the first trade, and of     *)
(* generation 1; a range that is begun by hand begins no later, so that no *)
(* block before it is left out.  A log index is unique in its block, and   *)
(* in the block in which a generation starts nobody trades with the last   *)
(* one after having traded with the new one.                               *)
ASSUME DeploymentAssumption ==
    /\ MaxReorgDepth <= Confirmations
    /\ FirstBlock < StartV2
    /\ \A f \in Flags : f.from # Unset => f.from <= FirstBlock
    /\ \A t \in Trades : FirstBlock <= t.block
    /\ \A t, u \in Trades : t.block = u.block /\ t.idx = u.idx => t = u
    /\ \A t, u \in Trades : t.user = u.user /\ t.block = u.block /\ t.gen < u.gen
                              /\ t.block \in {StartV2, StartV3, StartV4} => Before(t, u)

VARIABLES
    head,       \* latest block of the chain
    fork,       \* fork[b]: which version of block b is canonical
    reorgs,     \* reorganisations so far
    proc,       \* "down", "planning", "crawling" or "completed"
    flags,      \* the command line of this process
    fromBlock,  \* crawlPlanner.fromBlock
    round,      \* the jobs of the current round
    fetched,    \* order -> rows, for the jobs fetched and not yet completed
    done,       \* lastCompletedJobOrder
    between,    \* TRUE between SaveTradeLogs and SaveBigTrades of job done + 1
    rows,       \* the tradelogs table: <<trade, version of its block>>
    firsts,     \* those of them with is_first_trade
    bigs,       \* those of them in big_tradelogs
    lost,       \* transactions whose COMMIT failed
    crashes

chainVars == <<head, fork, reorgs>>
dbVars == <<rows, firsts, bigs, lost>>
vars == <<chainVars, proc, flags, fromBlock, round, fetched, done, between, dbVars, crashes>>

Blocks == 1 .. MaxHead
Rows == Trades \X {0, 1}

(* Every variable has its type: what is fetched belongs to a job of the round, *)
(* and the counter of completed jobs never passes them (workers.go).          *)
TypeOK ==
    /\ head \in 1 .. MaxHead
    /\ fork \in [Blocks -> {0, 1}]
    /\ reorgs \in 0 .. MaxReorgs
    /\ proc \in {"down", "planning", "crawling", "completed"}
    /\ flags \in Flags
    /\ fromBlock \in Nat \cup {Unset}
    /\ \A k \in DOMAIN round : round[k].from \in Nat /\ round[k].to \in Nat
    /\ DOMAIN fetched \subseteq 1 .. Len(round)
    /\ done \in 0 .. Len(round)
    /\ between \in BOOLEAN
    /\ rows \subseteq Rows /\ firsts \subseteq rows /\ bigs \subseteq rows
    /\ lost \in 0 .. MaxLost /\ crashes \in 0 .. MaxCrashes

Init ==
    /\ head = 1
    /\ fork = [b \in Blocks |-> 0]
    /\ reorgs = 0
    /\ proc = "down"
    /\ flags \in Flags
    /\ fromBlock = Unset
    /\ round = <<>>
    /\ fetched = <<>>
    /\ done = 0
    /\ between = FALSE
    /\ rows = {}
    /\ firsts = {}
    /\ bigs = {}
    /\ lost = 0
    /\ crashes = 0

-----------------------------------------------------------------------------
(* The chain.                                                              *)

Mine ==
    /\ head < MaxHead
    /\ head' = head + 1
    /\ UNCHANGED <<fork, reorgs, proc, flags, fromBlock, round, fetched, done, between, dbVars, crashes>>

(* The last d blocks are replaced: their trades are other transactions.    *)
Reorg(d) ==
    /\ reorgs < MaxReorgs
    /\ d < head
    /\ fork' = [b \in Blocks |-> IF b > head - d /\ b <= head THEN 1 - fork[b] ELSE fork[b]]
    /\ reorgs' = reorgs + 1
    /\ UNCHANGED <<head, proc, flags, fromBlock, round, fetched, done, between, dbVars, crashes>>

-----------------------------------------------------------------------------
(* The planner.                                                            *)

(* SELECT MAX(block_number): 0 when the table is empty.                    *)
LastBlock == IF rows = {} THEN 0 ELSE Max({r[1].block : r \in rows})

(* Variant: resume after the last stored block.                            *)
ResumeAfterLastBlock ==
    /\ proc = "planning"
    /\ fromBlock = Unset
    /\ fromBlock' = IF LastBlock = 0 THEN FirstBlock ELSE LastBlock + 1
    /\ UNCHANGED <<chainVars, proc, flags, round, fetched, done, between, dbVars, crashes>>

(* First call of next() without --from-block.                              *)
Resume ==
    /\ proc = "planning"
    /\ fromBlock = Unset
    /\ fromBlock' = IF LastBlock = 0 THEN FirstBlock ELSE LastBlock
    /\ UNCHANGED <<chainVars, proc, flags, round, fetched, done, between, dbVars, crashes>>

StartRound(from, to) ==
    /\ round' = Jobs(from, to)
    /\ fetched' = <<>>
    /\ done' = 0
    /\ between' = FALSE
    /\ proc' = "crawling"

(* With --to-block: one round, and the next call of next() is errEOF.      *)
PlanFixed ==
    /\ proc = "planning"
    /\ fromBlock # Unset /\ flags.to # Unset
    /\ fromBlock <= flags.to
    /\ StartRound(fromBlock, flags.to)
    /\ UNCHANGED <<chainVars, flags, fromBlock, dbVars, crashes>>

(* fromBlock is bigger than toBlock, as after a restart when more than the *)
(* range is stored: run returns the error and the process exits.           *)
PlanRefused ==
    /\ proc = "planning"
    /\ fromBlock # Unset /\ flags.to # Unset
    /\ fromBlock > flags.to
    /\ proc' = "down"
    /\ UNCHANGED <<chainVars, flags, fromBlock, round, fetched, done, between, dbVars, crashes>>

(* Variant: one confirmation too few.                                      *)
OneConfirmationLess == head - Confirmations + 1

(* The newest block with enough confirmations.                             *)
ConfirmedBlock == head - Confirmations

(* Without --to-block: wait for a confirmed block and crawl up to it.      *)
PlanDaemon ==
    /\ proc = "planning"
    /\ fromBlock # Unset /\ flags.to = Unset
    /\ fromBlock < ConfirmedBlock
    /\ StartRound(fromBlock, ConfirmedBlock)
    /\ fromBlock' = ConfirmedBlock
    /\ UNCHANGED <<chainVars, flags, dbVars, crashes>>

-----------------------------------------------------------------------------
(* The workers pool.                                                       *)

(* What the decoder of the job finds on the chain now, in log order.       *)
OnChain(job) ==
    {<<t, fork[t.block]>> : t \in
        {u \in Trades : u.block \in job.from .. Least(job.to, head) /\ Decodes(job, u.gen)}}

Outstanding(k) ==
    /\ proc = "crawling"
    /\ k \in (done + 1) .. Least(done + RequiredWorkers(round[1].from, Last(round).to, MaxWorkers), Len(round))

(* Any worker may finish its fetch first.                                  *)
Fetch(k) ==
    /\ Outstanding(k)
    /\ k \notin DOMAIN fetched
    /\ fetched' = [j \in DOMAIN fetched \cup {k} |-> IF j = k THEN OnChain(round[k]) ELSE fetched[j]]
    /\ UNCHANGED <<chainVars, proc, flags, fromBlock, round, done, between, dbVars, crashes>>

(* Variant: the users of the batch itself are not remembered.              *)
FirstTradesOfStoredOnly(batch) ==
    {r \in batch : ~\E s \in rows : s[1].user = r[1].user}

(* is_first_trade of the rows of a batch: no user row yet, and no earlier  *)
(* trade of the same user in the batch.  A user row exists as soon as one  *)
(* trade of his is stored, for both are written in one transaction.        *)
FirstTrades(batch) ==
    {r \in batch :
        /\ ~\E s \in rows : s[1].user = r[1].user
        /\ ~\E s \in batch : s[1].user = r[1].user /\ Before(s[1], r[1])}

Turn == proc = "crawling" /\ done < Len(round) /\ ~between /\ done + 1 \in DOMAIN fetched

(* create_or_update_tradelogs: a row that is there, same transaction and   *)
(* log index, stays as it is; with is_first_trade and all.                 *)
Upserted(batch) == rows \cup batch

(* SaveTradeLogs: one transaction that upserts the rows of the job.        *)
SaveTradeLogs ==
    /\ Turn
    /\ rows' = Upserted(fetched[done + 1])
    /\ firsts' = firsts \cup (FirstTrades(fetched[done + 1]) \ rows)
    /\ between' = TRUE
    /\ UNCHANGED <<chainVars, proc, flags, fromBlock, round, fetched, done, bigs, lost, crashes>>

(* The COMMIT of the transaction fails.  The deferred CommitOrRollback     *)
(* assigns the error to the err declared by "tx, err := Beginx()" and not  *)
(* to the named result, so that SaveTradeLogs returns nil.                 *)
CommitFails ==
    /\ Turn
    /\ lost < MaxLost
    /\ lost' = lost + 1
    /\ between' = TRUE
    /\ UNCHANGED <<chainVars, proc, flags, fromBlock, round, fetched, done, rows, firsts, bigs, crashes>>

Recent(block) == block > head - RecentBlocks

(* Variant: only the rows after the first block of the job.                *)
BigTradesAfter(from) == {r \in rows : r[1].big /\ r[1].block > from /\ Recent(r[1].block)}

(* The big trades of the last hour that are not below a block.             *)
BigTradesFrom(from) == {r \in rows : r[1].big /\ r[1].block >= from /\ Recent(r[1].block)}

(* SaveBigTrades(fromBlock of the job) and the job is completed.           *)
SaveBigTrades ==
    /\ proc = "crawling"
    /\ between
    /\ bigs' = bigs \cup BigTradesFrom(round[done + 1].from)
    /\ done' = done + 1
    /\ fetched' = [j \in DOMAIN fetched \ {done + 1} |-> fetched[j]]
    /\ between' = FALSE
    /\ UNCHANGED <<chainVars, proc, flags, fromBlock, round, rows, firsts, lost, crashes>>

(* Variant: the counter of completed jobs outlives the pool.               *)
RoundOverKeepsDone ==
    /\ proc = "crawling"
    /\ done = Len(round)
    /\ proc' = IF flags.to = Unset THEN "planning" ELSE "completed"
    /\ round' = <<>>
    /\ fetched' = <<>>
    /\ UNCHANGED <<chainVars, flags, fromBlock, done, between, dbVars, crashes>>

(* All jobs are completed: plan again, or end when --to-block was given.   *)
RoundOver ==
    /\ proc = "crawling"
    /\ done = Len(round)
    /\ proc' = IF flags.to = Unset THEN "planning" ELSE "completed"
    /\ round' = <<>>
    /\ fetched' = <<>>
    /\ done' = 0
    /\ UNCHANGED <<chainVars, flags, fromBlock, between, dbVars, crashes>>

-----------------------------------------------------------------------------
(* A fetch or a save that fails is fatal, and so is a failing planner; the *)
(* process may also be killed.  Everything but the database is lost.       *)
Crash ==
    /\ proc \in {"planning", "crawling"}
    /\ crashes < MaxCrashes
    /\ crashes' = crashes + 1
    /\ proc' = "down"
    /\ fromBlock' = Unset
    /\ round' = <<>>
    /\ fetched' = <<>>
    /\ done' = 0
    /\ between' = FALSE
    /\ UNCHANGED <<chainVars, flags, dbVars>>

(* The crawler is started, by its supervisor or for a range by hand; an    *)
(* operator asks for a range that is on chain and confirmed.               *)
StartProcess(f) ==
    /\ proc \in {"down", "completed"}
    /\ f.to # Unset => f.to <= ConfirmedBlock
    /\ proc' = "planning"
    /\ flags' = f
    /\ fromBlock' = f.from
    /\ UNCHANGED <<chainVars, round, fetched, done, between, dbVars, crashes>>

(* A completed crawler is finished; a daemon on a chain that stopped       *)
(* growing polls for ever.                                                 *)
Idle ==
    /\ \/ proc = "completed"
       \/ proc = "planning" /\ fromBlock # Unset /\ flags.to = Unset /\ fromBlock >= ConfirmedBlock
    /\ UNCHANGED vars

Process ==
    \/ Resume
    \/ PlanFixed
    \/ PlanRefused
    \/ PlanDaemon
    \/ \E k \in DOMAIN round : Fetch(k)
    \/ SaveTradeLogs
    \/ SaveBigTrades
    \/ RoundOver
    \/ \E f \in Flags : StartProcess(f)

Next ==
    \/ Mine
    \/ \E d \in 1 .. MaxReorgDepth : Reorg(d)
    \/ Process
    \/ CommitFails
    \/ Crash
    \/ Idle

(* The process keeps running and is restarted by its supervisor after a    *)
(* crash; crashes are finitely many.  The chain grows.                     *)
Fairness == WF_vars(Process) /\ WF_vars(Mine)

Spec == Init /\ [][Next]_vars /\ Fairness

-----------------------------------------------------------------------------
Canonical(t) == <<t, fork[t.block]>>

(* Resuming from LastBlock is only right if nothing before it is missing:  *)
(* below the last stored block every trade of the canonical chain is       *)
(* stored, whatever crashed between which two writes, unless a COMMIT was  *)
(* lost silently.                                                          *)
NoGapBelowLastBlock ==
    lost = 0 =>
      \A t \in Trades :
          FirstBlock <= t.block /\ t.block < LastBlock => Canonical(t) \in rows

(* With enough confirmations no stored trade is ever reorganised away.     *)
StoredIsCanonical == \A r \in rows : r = Canonical(r[1])

(* Replays, crashes and jobs fetched out of order notwithstanding, a user  *)
(* with trades has exactly one first trade, and it is his earliest one.    *)
(* (A batch that was lost and is crawled again later comes too late.)      *)
OneFirstTrade ==
    lost = 0 =>
      \A r \in rows :
        LET mine == {s \in rows : s[1].user = r[1].user}
        IN  mine \cap firsts = {s \in mine : ~\E q \in mine : Before(q[1], s[1])}

(* The jobs of a round, in order, fetch every block of its range with a    *)
(* decoder that knows each generation that may trade there, and nothing    *)
(* outside of the range.                                                   *)
RoundIsCovered ==
    round # <<>> =>
        LET from == round[1].from
            to == Last(round).to
        IN  /\ \A k \in 2 .. Len(round) : round[k].from = round[k - 1].to
            /\ \A k \in DOMAIN round : round[k].from <= round[k].to
            /\ \A b \in from .. to : \A gen \in GenerationsAt(b) :
                  b = from \/ \E k \in DOMAIN round :
                                 b \in round[k].from .. round[k].to /\ Decodes(round[k], gen)

(* A crawler with --to-block that ended has stored its whole range, however *)
(* often it crashed and was started again on the way.                      *)
CompletedMeansStored ==
    proc = "completed" /\ lost = 0 =>
        \A t \in Trades :
            (IF flags.from = Unset THEN FirstBlock ELSE flags.from) <= t.block /\ t.block <= flags.to
            => Canonical(t) \in rows

(* A round covers its range, and so does what is stored when it is over.   *)
RoundsAreComplete == RoundIsCovered /\ CompletedMeansStored

(* Between two jobs every stored big trade of the last hour is queued for  *)
(* the notifier: the windows of the successive SaveBigTrades calls leave   *)
(* nothing out.  (After a crash between the two saves this is not so.)     *)
BigTradesAreQueued ==
    crashes = 0 /\ ~between =>
        \A r \in rows : r[1].big /\ Recent(r[1].block) => r \in bigs

(* A completed job is stored: an error of the storage, that of COMMIT      *)
(* included, never leaves the counter advanced without the data.           *)
CompletedJobIsStored ==
    \A k \in 1 .. done : OnChain(round[k]) \subseteq rows

(* Once the crawler is run as a daemon, every trade with enough            *)
(* confirmations is eventually stored, however the (finitely many) crashes *)
(* fall and whatever ranges were crawled by hand before.                   *)
EventuallyStored ==
    <>[](flags = [from |-> Unset, to |-> Unset]) => \A t \in Trades :
        t.block >= FirstBlock /\ t.block < MaxHead - Confirmations
        => <>[](lost > 0 \/ Canonical(t) \in rows)
=============================================================================
