-------------------------- MODULE TradeLogsStorage --------------------------
(***************************************************************************)
(* SaveTradeLogs of the PostgreSQL storage, step by step: reserves and     *)
(* their rebate wallets are saved on their own, then the trades of a job   *)
(* with their splits in one transaction, which looks the reserves up.  A   *)
(* COMMIT that fails, of the wallets or of the trades, is not reported.    *)
(***************************************************************************)
EXTENDS Naturals, FiniteSetsExt, SequencesExt

CONSTANTS
    ReserveIDs,
    ReserveAddrs,
    Routes,          \* the reserves of a trade: sequences of ReserveIDs
    HeadBlock,       \* bound: the last block
    JobBlocks,       \* maxBlocks: a job ends as many blocks after its first
    MaxStorageStops  \* bound on the jobs that fail, the kills and the lost COMMITs

ASSUME StorageAssumption ==
    /\ Routes \subseteq Seq(ReserveIDs)
    /\ HeadBlock \in Nat \ {0} /\ JobBlocks \in Nat \ {0} /\ MaxStorageStops \in Nat

VARIABLES
    events,          \* of the chain, one of each block
    reserveTable,    \* table reserve, by its id: [address, reserve, block]
    tradeTable,      \* tables tradelogs and split: block |-> ids of reserve rows
    uncommitted,     \* what the transaction has inserted
    jobFrom,         \* the job at work, or the next one
    saving,          \* what is saved next: "none" of the job yet, "wallets", "trades"; or "done"
    lostBlocks,      \* history: those whose wallet or trade a COMMIT lost
    storageStops

storageVars == <<events, reserveTable, tradeTable, uncommitted, jobFrom, saving, lostBlocks, storageStops>>

NoEvent == [kind |-> "none"]
Adds == [kind : {"add"}, reserve : ReserveIDs, address : ReserveAddrs]
WalletSets == [kind : {"wallet"}, reserve : ReserveIDs]
Trades == [kind : {"trade"}, route : Routes]

StorageInit ==
    /\ events \in [1 .. HeadBlock -> Adds \cup WalletSets \cup Trades \cup {NoEvent}]
    /\ reserveTable = <<>> /\ tradeTable = <<>> /\ uncommitted = <<>>
    /\ jobFrom = 1 /\ saving = "none" /\ lostBlocks = {} /\ storageStops = 0

JobTo == Min({jobFrom + JobBlocks, HeadBlock})
InJob(kind) == {b \in jobFrom .. JobTo : events[b].kind = kind}

-----------------------------------------------------------------------------
(* The i-th of a set of blocks.                                            *)
Nth(blocks, i) == CHOOSE b \in blocks : Cardinality({c \in blocks : c <= b}) = i

(* A row is inserted for each block, in their order; by the constraint     *)
(* reserve_pk one that is there is not inserted again.                     *)
InsertReserves(rowOf) ==
    LET new == {b \in DOMAIN rowOf : rowOf[b] \notin Range(reserveTable)}
    IN  reserveTable' = reserveTable \o [i \in 1 .. Cardinality(new) |-> rowOf[Nth(new, i)]]

(* saveReserve: one statement for the reserves added in the job.           *)
SaveReserves ==
    /\ saving = "none"
    /\ InsertReserves([b \in InJob("add") |->
           [address |-> events[b].address, reserve |-> events[b].reserve, block |-> b]])
    /\ saving' = "wallets"
    /\ UNCHANGED <<events, tradeTable, uncommitted, jobFrom, lostBlocks, storageStops>>

RowsOfReserve(reserve) == {i \in DOMAIN reserveTable : reserveTable[i].reserve = reserve}

(* The address of a reserve: that of its newest row by block.              *)
NewestAddress(reserve) ==
    LET newest == Max({reserveTable[i].block : i \in RowsOfReserve(reserve)})
    IN  {reserveTable[i].address : i \in {j \in RowsOfReserve(reserve) : reserveTable[j].block = newest}}

(* Variant: the job that failed is passed over.                            *)
PassOver ==
    /\ saving' = "none" /\ uncommitted' = <<>> /\ jobFrom' = JobTo
    /\ UNCHANGED <<events, tradeTable, lostBlocks>>

(* A job fails and the process ends: nothing of the transaction is kept,   *)
(* and the crawler starts again from the block of the last trade.          *)
Fail ==
    /\ saving' = "none" /\ uncommitted' = <<>>
    /\ jobFrom' = Max({1} \cup DOMAIN tradeTable)
    /\ UNCHANGED <<events, tradeTable, lostBlocks>>

Stop == storageStops < MaxStorageStops /\ storageStops' = storageStops + 1

(* updateRebateWallet: one transaction.  A reserve that is not known has   *)
(* no address, and the column must have one: the job fails, and does again *)
(* whenever it is tried.                                                   *)
UpdateWallets ==
    /\ saving = "wallets"
    /\ IF \E b \in InJob("wallet") : RowsOfReserve(events[b].reserve) = {}
       THEN Fail /\ Stop /\ UNCHANGED reserveTable
       ELSE /\ \E addressOf \in [InJob("wallet") -> ReserveAddrs] :
                   /\ \A b \in InJob("wallet") : addressOf[b] \in NewestAddress(events[b].reserve)
                   /\ InsertReserves([b \in InJob("wallet") |->
                          [address |-> addressOf[b], reserve |-> events[b].reserve, block |-> b]])
            /\ saving' = "trades"
            /\ UNCHANGED <<events, tradeTable, uncommitted, jobFrom, lostBlocks, storageStops>>

(* Its COMMIT fails: the result has no name, so that what the deferred     *)
(* CommitOrRollback assigns is lost, and the job goes on to its trades.    *)
CommitWalletsFails ==
    /\ saving = "wallets"
    /\ InJob("wallet") # {} /\ \A b \in InJob("wallet") : RowsOfReserve(events[b].reserve) # {}
    /\ saving' = "trades"
    /\ lostBlocks' = lostBlocks \cup InJob("wallet")
    /\ Stop
    /\ UNCHANGED <<events, reserveTable, tradeTable, uncommitted, jobFrom>>

Known(route) == \A i \in DOMAIN route : RowsOfReserve(route[i]) # {}

(* Variant: splits of a reserve that is not known are left out.            *)
SplitsOfKnown(route) ==
    LET known == SelectSeq(route, LAMBDA r : RowsOfReserve(r) # {})
    IN  [i \in DOMAIN known |-> Max(RowsOfReserve(known[i]))]

(* Variant: the first row of a reserve is taken, as for older trades.      *)
FirstRows(route) ==
    [i \in DOMAIN route |-> IF RowsOfReserve(route[i]) = {} THEN 0 ELSE Min(RowsOfReserve(route[i]))]

(* The row of each reserve of a trade: the last that was inserted, NULL    *)
(* (0 here) if there is none.                                              *)
SplitRows(route) == [i \in DOMAIN route |-> Max(RowsOfReserve(route[i]) \cup {0})]

(* create_or_update_tradelogs for the next trade of the job: the row, its  *)
(* splits and, like them, its fees; those that are there are left alone.   *)
InsertTrade ==
    /\ saving = "trades" /\ InJob("trade") \ DOMAIN uncommitted # {}
    /\ LET b == Min(InJob("trade") \ DOMAIN uncommitted)
           splits == SplitRows(events[b].route)
           Kept == IF b \in DOMAIN tradeTable THEN tradeTable[b] ELSE splits
       IN  IF 0 \in Range(splits)
           THEN Fail /\ Stop
           ELSE /\ uncommitted' = [c \in DOMAIN uncommitted \cup {b} |-> IF c = b THEN Kept ELSE uncommitted[c]]
                /\ UNCHANGED <<events, tradeTable, jobFrom, saving, lostBlocks, storageStops>>
    /\ UNCHANGED reserveTable

(* On to the next job, which begins with the last block.                   *)
NextJob ==
    /\ saving = "trades" /\ InJob("trade") \subseteq DOMAIN uncommitted
    /\ uncommitted' = <<>>
    /\ IF JobTo = HeadBlock THEN saving' = "done" /\ UNCHANGED jobFrom ELSE saving' = "none" /\ jobFrom' = JobTo
    /\ UNCHANGED <<events, reserveTable>>

CommitTrades ==
    /\ NextJob
    /\ tradeTable' = [b \in DOMAIN tradeTable \cup DOMAIN uncommitted |->
                          IF b \in DOMAIN uncommitted THEN uncommitted[b] ELSE tradeTable[b]]
    /\ UNCHANGED <<lostBlocks, storageStops>>

(* COMMIT fails: the inner `tx, err :=` hides the result that has a name.  *)
CommitTradesFails ==
    /\ NextJob
    /\ InJob("trade") # {}
    /\ lostBlocks' = lostBlocks \cup (InJob("trade") \ DOMAIN tradeTable)
    /\ Stop
    /\ UNCHANGED tradeTable

(* A record cannot be made (the decimals of a token are asked for), a      *)
(* statement fails or the process is killed.                               *)
StorageStop ==
    /\ saving # "done"
    /\ Stop /\ Fail /\ UNCHANGED reserveTable

StorageNext ==
    \/ SaveReserves \/ UpdateWallets \/ InsertTrade \/ CommitTrades
    \/ CommitWalletsFails \/ CommitTradesFails \/ StorageStop

-----------------------------------------------------------------------------
(* Every variable has its type; no row of table reserve is there twice.    *)
StorageTypeOK ==
    /\ \A i \in DOMAIN reserveTable : reserveTable[i] \in [address : ReserveAddrs, reserve : ReserveIDs, block : 1 .. HeadBlock]
    /\ IsInjective(reserveTable)
    /\ DOMAIN tradeTable \subseteq 1 .. HeadBlock /\ DOMAIN uncommitted \subseteq 1 .. HeadBlock
    /\ jobFrom \in 1 .. HeadBlock /\ saving \in {"none", "wallets", "trades", "done"}
    /\ lostBlocks \subseteq 1 .. HeadBlock

(* The addresses of a reserve from the last one it was given up to a block *)
(* to those it was given within a job's length afterwards, or at any later *)
(* time if it was the COMMIT of the block's trade that failed.             *)
AddressesAround(reserve, block) ==
    LET until == IF block \in lostBlocks THEN HeadBlock ELSE block + JobBlocks
        given == {b \in 1 .. HeadBlock : events[b].kind = "add" /\ events[b].reserve = reserve /\ b <= until}
        before == {b \in given : b <= block}
    IN  {events[b].address : b \in {c \in given : before = {} \/ c >= Max(before)}}

(* A trade is stored with all of its splits or not at all, whatever fails; *)
(* the row of each split is one of its reserve, with the address it had    *)
(* at the time of the trade, or at most with one of the same job, unless   *)
(* the trade was lost by a COMMIT before and is stored by another process. *)
SplitsHaveTheirReserves ==
    \A b \in DOMAIN tradeTable :
        LET route == events[b].route
        IN  /\ Len(tradeTable[b]) = Len(route)
            /\ \A i \in DOMAIN route :
                   LET row == reserveTable[tradeTable[b][i]]
                   IN  row.reserve = route[i] /\ row.address \in AddressesAround(route[i], b)

(* Reserves are saved apart from trades, and the crawler resumes from the  *)
(* last trade: what was told of reserves before it is stored all the same, *)
(* wallets unless it was the COMMIT of their own job that failed.          *)
ReservesAreNotPassed ==
    \A b \in 1 .. HeadBlock :
        /\ events[b].kind \in {"add", "wallet"}
        /\ b < Max({1} \cup DOMAIN tradeTable)
        => \/ \E i \in DOMAIN reserveTable : reserveTable[i].reserve = events[b].reserve /\ reserveTable[i].block = b
           \/ events[b].kind = "wallet" /\ b \in lostBlocks
=============================================================================
