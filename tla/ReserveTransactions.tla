------------------------- MODULE ReserveTransactions -------------------------
(***************************************************************************)
(* accounting-reserve-transaction-fetcher: run again and again, it stores  *)
(* the transactions of every reserve address in batches of blocks, and     *)
(* resumes from the last block it inserted for the address.                *)
(*                                                                         *)
(* A transaction is [block, kind, addrs]: its kind decides which Etherscan *)
(* call returns it, and it is returned for each of its addresses.          *)
(***************************************************************************)
EXTENDS Integers, Sequences

CONSTANTS
    Addresses,      \* the addresses of the addresses service, in its order
    TypeOf,         \* TypeOf[a]: "Reserve", "PricingOperator", "CompanyWallet"...
    Txs,            \* the transactions of the chain
    LastTxBlock,    \* bound: the chain ends here
    Batch,          \* --batch
    FromBlock,      \* --from-block, if it is given
    MaxCrashes,     \* bound on the processes that are killed or fail
    Unset

AddressSet == {Addresses[k] : k \in DOMAIN Addresses}

(* There is an address, and the addresses service has it once; a batch is  *)
(* not empty.                                                              *)
ASSUME TxAssumption ==
    /\ Addresses \in Seq(AddressSet) /\ Addresses # <<>>
    /\ \A k, l \in DOMAIN Addresses : Addresses[k] = Addresses[l] => k = l
    /\ LastTxBlock \in Nat \ {0} /\ Batch \in Nat \ {0} /\ MaxCrashes \in Nat
    /\ \A t \in Txs : t.block \in Nat
    /\ FromBlock \in Nat \cup {Unset} /\ Unset \notin Int

VARIABLES
    txHead,         \* the latest block
    stored,         \* the rows of rsv_tx_normal, rsv_tx_internal, rsv_tx_erc20
    txLinks,        \* their links to reserves: <<tx, address>>
    lastInserted,   \* rsv_tx_last_inserted: a block or Unset
    fetching,       \* addresses left in this run; empty if none runs
    kinds,          \* the kinds left in this batch of the first of them
    fromBlock, endBlock, toBlock,
    completed,      \* the last run completed
    txCrashes

batchVars == <<kinds, fromBlock, endBlock>>
runVars == <<fetching, batchVars, toBlock, completed>>
txVars == <<txHead, stored, txLinks, lastInserted, runVars, txCrashes>>

(* The kinds of transactions fetched for an address.                       *)
Kinds(a) ==
    CASE TypeOf[a] \in {"Reserve", "IntermediateOperator"} -> <<"normal", "internal", "erc20">>
      [] TypeOf[a] \in {"PricingOperator", "SanityOperator", "DepositOperator"} -> <<"normal", "internal">>
      [] TypeOf[a] = "CompanyWallet" -> <<"erc20">>
      [] OTHER -> <<>>

TxInit ==
    /\ txHead = 1
    /\ stored = {} /\ txLinks = {}
    /\ lastInserted = [a \in AddressSet |-> Unset]
    /\ fetching = <<>> /\ kinds = <<>>
    /\ fromBlock = 0 /\ endBlock = 0 /\ toBlock = 0
    /\ completed = FALSE /\ txCrashes = 0

MineTxs ==
    /\ txHead < LastTxBlock
    /\ txHead' = txHead + 1
    /\ UNCHANGED <<stored, txLinks, lastInserted, runVars, txCrashes>>

-----------------------------------------------------------------------------
StartFrom(a) == IF lastInserted[a] # Unset THEN lastInserted[a] ELSE IF FromBlock # Unset THEN FromBlock ELSE 0

(* Variant: the first batch is a block longer.                             *)
StartAddressLonger(a, to) ==
    /\ fromBlock' = StartFrom(a)
    /\ endBlock' = fromBlock' + Batch + 1
    /\ kinds' = IF endBlock' <= to THEN Kinds(a) ELSE <<>>

(* The loop of fetchTx is entered if a whole batch is left.                *)
StartAddress(a, to) ==
    /\ fromBlock' = StartFrom(a)
    /\ endBlock' = fromBlock' + Batch
    /\ kinds' = IF endBlock' <= to THEN Kinds(a) ELSE <<>>

StartRun(to) ==
    /\ fetching = <<>>
    /\ fetching' = Addresses
    /\ toBlock' = to
    /\ StartAddress(Addresses[1], to)
    /\ completed' = FALSE
    /\ UNCHANGED <<txHead, stored, txLinks, lastInserted, txCrashes>>

(* fetchTx returns: the next address, if there is one.                     *)
NextAddress ==
    /\ fetching' = Tail(fetching)
    /\ IF Len(fetching) > 1
       THEN StartAddress(fetching[2], toBlock) /\ UNCHANGED completed
       ELSE kinds' = <<>> /\ completed' = TRUE /\ UNCHANGED <<fromBlock, endBlock>>

(* Etherscan's answer: the `to` of a fetch is not included.                *)
Fetched == {t \in Txs : fetching[1] \in t.addrs /\ t.kind = kinds[1] /\ t.block >= fromBlock /\ t.block <= endBlock - 1}

(* The transactions linked by StoreNormalTx (all), by StoreInternalTx and  *)
(* StoreERC20Transfer: the row of a known transaction returns no id, and   *)
(* the id of the one before it, or none, is used again.                    *)
Linked(txs) == IF kinds[1] = "normal" THEN txs ELSE txs \ stored

(* Variant: the bound of the batch is inserted before its transactions.    *)
StoreTxsAfterBound ==
    /\ kinds # <<>>
    /\ stored' = stored \cup Fetched
    /\ txLinks' = txLinks \cup (Linked(Fetched) \X {fetching[1]})
    /\ kinds' = Tail(kinds)
    /\ lastInserted' = [lastInserted EXCEPT ![fetching[1]] = endBlock]
    /\ UNCHANGED <<txHead, fetching, fromBlock, endBlock, toBlock, completed, txCrashes>>

(* One of StoreNormalTx, StoreInternalTx and StoreERC20Transfer, each one  *)
(* a transaction of the database.                                          *)
StoreTxs ==
    /\ kinds # <<>>
    /\ stored' = stored \cup Fetched
    /\ txLinks' = txLinks \cup (Linked(Fetched) \X {fetching[1]})
    /\ kinds' = Tail(kinds)
    /\ UNCHANGED <<txHead, lastInserted, fetching, fromBlock, endBlock, toBlock, completed, txCrashes>>

(* Less than a batch was left of the address.                              *)
AddressDone ==
    /\ fetching # <<>> /\ kinds = <<>> /\ endBlock > toBlock
    /\ NextAddress
    /\ UNCHANGED <<txHead, stored, txLinks, lastInserted, toBlock, txCrashes>>

(* StoreLastInserted; then the next batch, the last of which is shorter.   *)
StoreLastInserted ==
    /\ fetching # <<>> /\ kinds = <<>> /\ endBlock <= toBlock
    /\ lastInserted' = [lastInserted EXCEPT ![fetching[1]] = endBlock]
    /\ IF endBlock = toBlock THEN NextAddress
       ELSE /\ fromBlock' = endBlock
            /\ endBlock' = IF endBlock + Batch <= toBlock THEN endBlock + Batch ELSE toBlock
            /\ kinds' = Kinds(fetching[1])
            /\ UNCHANGED <<fetching, completed>>
    /\ UNCHANGED <<txHead, stored, txLinks, toBlock, txCrashes>>

(* The process is killed, or a request or a statement fails for good.      *)
Stop ==
    /\ fetching # <<>>
    /\ txCrashes < MaxCrashes
    /\ fetching' = <<>> /\ kinds' = <<>>
    /\ txCrashes' = txCrashes + 1
    /\ UNCHANGED <<txHead, stored, txLinks, lastInserted, fromBlock, endBlock, toBlock, completed>>

Working == StoreTxs \/ StoreLastInserted \/ AddressDone

TxNext ==
    \/ MineTxs
    \/ \E to \in 0 .. txHead : StartRun(to)
    \/ Working
    \/ Stop

-----------------------------------------------------------------------------
(* The transactions to be stored for an address.                           *)
WantedFrom(a) ==
    {t \in Txs : a \in t.addrs /\ (\E k \in DOMAIN Kinds(a) : Kinds(a)[k] = t.kind)
                /\ (FromBlock = Unset \/ t.block >= FromBlock)}

(* Every variable has its type; a batch ends within the range of the run.  *)
TxTypeOK ==
    /\ txHead \in 1 .. LastTxBlock
    /\ stored \subseteq Txs /\ txLinks \subseteq stored \X AddressSet
    /\ lastInserted \in [AddressSet -> {Unset} \cup 0 .. txHead]
    /\ kinds # <<>> => fetching # <<>> /\ endBlock <= toBlock /\ fromBlock < endBlock

(* Wherever it was stopped, the fetcher has stored all transactions of an  *)
(* address below the block from which it will resume.                      *)
NothingSkipped ==
    \A a \in AddressSet : \A t \in WantedFrom(a) :
        lastInserted[a] # Unset /\ t.block < lastInserted[a] => t \in stored

(* A run that completes leaves less than a batch of blocks to the next     *)
(* one.                                                                    *)
CompletedLeavesLessThanBatch ==
    LET first == IF FromBlock # Unset THEN FromBlock ELSE 0
    IN  completed =>
            \A a \in AddressSet :
                toBlock - (IF lastInserted[a] # Unset THEN lastInserted[a] ELSE first) < Batch

(* Apidocs of the wallet transactions: "returns lift of ERC20 transfers    *)
(* [...] that have either source/dest in one of wallet addresses".         *)
(* GetWalletERC20Transfers joins the transfers with the addresses they are *)
(* linked to, of which one must be a company wallet.                       *)
GetWalletERC20Transfers(w) ==
    {t \in stored : t.kind = "erc20" /\ w \in t.addrs
                    /\ \E a \in AddressSet : TypeOf[a] = "CompanyWallet" /\ <<t, a>> \in txLinks}

WalletTransfersAreReturned ==
    \A w \in AddressSet : TypeOf[w] = "CompanyWallet" =>
        \A t \in WantedFrom(w) :
            lastInserted[w] # Unset /\ t.block < lastInserted[w] => t \in GetWalletERC20Transfers(w)

(* As long as the fetcher is run up to the head again and again, every     *)
(* transaction with a whole batch of blocks after it is eventually stored. *)
EventuallyFetched ==
    \A t \in UNION {WantedFrom(a) : a \in AddressSet} : t.block + Batch <= LastTxBlock => <>(t \in stored)
=============================================================================
