---------------------------- MODULE BinanceTrades ----------------------------
(***************************************************************************)
(* The fetchers of Binance trades, accounting-binance-trade-fetcher and    *)
(* its frequent and margin siblings: for each account and pair, trades are *)
(* fetched from the newest that is stored on.  Then the post-processor     *)
(* finds the price in ETH of the trades stored since the newest converted. *)
(***************************************************************************)
EXTENDS Naturals, Sequences, FiniteSetsExt

CONSTANTS
    TradeAccounts,
    Pairs,           \* tokenPairs, in their order: none of them with ETH
    UnsupportedPairs,\* of which the market data service knows no price
    BatchSize,       \* flag: the pairs of an account that are fetched together
    TradePageSize,   \* the most trades of an answer
    LastTrade,       \* bound: the trades made on the exchange
    MaxTradeStops    \* bound on the goroutines that give up and on the kills

ASSUME TradesAssumption ==
    /\ BatchSize \in Nat \ {0} /\ TradePageSize \in Nat \ {0}
    /\ LastTrade \in Nat /\ MaxTradeStops \in Nat

VARIABLES
    market,          \* the trades of the exchange, by time: [pair, parties]
    tradeRows,       \* table binance_trades: id |-> account
    fetchOf,         \* of each account: [batch, left, next, got, failed], or NoFetch
    converted,       \* table binance_convert_to_eth_price: the times of original trades
    notETH,          \* pair |-> the trades the post-processor has read and not converted
    tradeStops,
    outOfTime        \* history: trades stored when one of their pair after them was (being) converted

tradeVars == <<market, tradeRows, fetchOf, converted, notETH, tradeStops, outOfTime>>

PairNames == {Pairs[i] : i \in DOMAIN Pairs}
OfPair(pair) == {t \in DOMAIN market : market[t].pair = pair}
NoFetch == [batch |-> 0, left |-> {}, next |-> <<>>, got |-> <<>>, failed |-> FALSE]
NothingRead == [p \in PairNames |-> {}]

TradesInit ==
    /\ market = <<>> /\ tradeRows = <<>> /\ converted = {}
    /\ fetchOf = [a \in TradeAccounts |-> NoFetch] /\ notETH = NothingRead
    /\ tradeStops = 0 /\ outOfTime = {}

(* A trade is made, of an account or between two of them; ids of the pair  *)
(* and times grow alike.                                                   *)
Trade(pair, parties) ==
    /\ Len(market) < LastTrade
    /\ market' = Append(market, [pair |-> pair, parties |-> parties])
    /\ UNCHANGED <<tradeRows, fetchOf, converted, notETH, tradeStops, outOfTime>>

-----------------------------------------------------------------------------
GetLastStoredID(pair, account) ==
    Max({0} \cup {t \in DOMAIN tradeRows : t \in OfPair(pair) /\ tradeRows[t] = account})

(* The pairs of the i-th batch.                                            *)
Batch(i) == {Pairs[j] : j \in {k \in DOMAIN Pairs : (k - 1) \div BatchSize = i - 1}}

(* An account is taken up: fromIDs are read, and its goroutine begins with *)
(* the first batch.                                                        *)
StartTrades(a) ==
    /\ fetchOf[a] = NoFetch
    /\ fetchOf' = [fetchOf EXCEPT ![a] =
           [batch |-> 1, left |-> Batch(1), failed |-> FALSE,
            next |-> [p \in PairNames |-> GetLastStoredID(p, a)], got |-> [p \in PairNames |-> {}]]]
    /\ UNCHANGED <<market, tradeRows, converted, notETH, tradeStops, outOfTime>>

(* One request of getTradeHistoryForOneSymBol.  External: the exchange     *)
(* gives the account's oldest trades of a pair from an id on.              *)
TradePage(a, p) ==
    LET all == {t \in OfPair(p) : a \in market[t].parties /\ t >= fetchOf[a].next[p]}
    IN  {t \in all : Cardinality({u \in all : u < t}) < TradePageSize}

GetTrades(a, p) ==
    /\ p \in fetchOf[a].left /\ TradePage(a, p) # {}
    /\ fetchOf' = [fetchOf EXCEPT ![a].got[p] = @ \cup TradePage(a, p),
                                  ![a].next[p] = Max(TradePage(a, p)) + 1]
    /\ UNCHANGED <<market, tradeRows, converted, notETH, tradeStops, outOfTime>>

Late(trades) ==
    {t \in trades : \E later \in (converted \cup notETH[market[t].pair]) \cap OfPair(market[t].pair) : t < later}

(* Variant: every page is stored on its own, from the newest on.           *)
InsertNewest(a, trades) ==
    LET newest == IF trades = {} THEN {} ELSE {Max(trades)}
    IN  /\ tradeRows' = [t \in DOMAIN tradeRows \cup newest |-> IF t \in DOMAIN tradeRows THEN tradeRows[t] ELSE a]
        /\ outOfTime' = outOfTime \cup Late(newest \ DOMAIN tradeRows)

(* Trades are inserted: one that is stored, be it for the other account,   *)
(* stays as it is.                                                         *)
Insert(a, trades) ==
    /\ tradeRows' = [t \in DOMAIN tradeRows \cup trades |-> IF t \in DOMAIN tradeRows THEN tradeRows[t] ELSE a]
    /\ outOfTime' = outOfTime \cup Late(trades \ DOMAIN tradeRows)

(* An empty answer ends the loop: UpdateTradeHistory stores them all.      *)
StoreTrades(a, p) ==
    /\ p \in fetchOf[a].left /\ TradePage(a, p) = {}
    /\ Insert(a, fetchOf[a].got[p])
    /\ fetchOf' = [fetchOf EXCEPT ![a].left = @ \ {p}, ![a].next[p] = 0, ![a].got[p] = {}]
    /\ UNCHANGED <<market, converted, notETH, tradeStops>>

(* The attempts of a request are used up, or the statement fails: the      *)
(* other goroutines of the batch go on.                                    *)
TradesFail(a, p) ==
    /\ p \in fetchOf[a].left /\ tradeStops < MaxTradeStops
    /\ tradeStops' = tradeStops + 1
    /\ fetchOf' = [fetchOf EXCEPT ![a].left = @ \ {p}, ![a].next[p] = 0, ![a].got[p] = {}, ![a].failed = TRUE]
    /\ UNCHANGED <<market, tradeRows, converted, notETH, outOfTime>>

(* The batch has ended: the next one begins, unless one has failed.        *)
NextBatch(a) ==
    /\ fetchOf[a].batch > 0 /\ fetchOf[a].left = {}
    /\ LET i == fetchOf[a].batch + 1
       IN  fetchOf' = [fetchOf EXCEPT ![a] =
               IF fetchOf[a].failed \/ Batch(i) = {} THEN NoFetch ELSE [@ EXCEPT !.batch = i, !.left = Batch(i)]]
    /\ UNCHANGED <<market, tradeRows, converted, notETH, tradeStops, outOfTime>>

(* The process is killed.                                                  *)
KillTrades ==
    /\ tradeStops < MaxTradeStops /\ \E a \in TradeAccounts : fetchOf[a] # NoFetch
    /\ tradeStops' = tradeStops + 1
    /\ fetchOf' = [a \in TradeAccounts |-> NoFetch]
    /\ UNCHANGED <<market, tradeRows, converted, notETH, outOfTime>>

-----------------------------------------------------------------------------
MaxTimestamp(pair) == Max({0} \cup (converted \cap OfPair(pair)))

(* A run of the post-processor reads the trades after the newest converted *)
(* one of their pair.                                                      *)
GetNotETHTrades ==
    /\ notETH = NothingRead
    /\ notETH' = [p \in PairNames |-> {t \in DOMAIN tradeRows \cap OfPair(p) : t > MaxTimestamp(p)}]
    /\ UNCHANGED <<market, tradeRows, fetchOf, converted, tradeStops, outOfTime>>

(* Variant: each price is stored when it is known.                         *)
UpdateOneByOne(p) ==
    /\ \E t \in notETH[p] : converted' = converted \cup {t} /\ notETH' = [notETH EXCEPT ![p] = @ \ {t}]
    /\ UNCHANGED <<market, tradeRows, fetchOf, tradeStops, outOfTime>>

(* The trades of a pair, in the random order of the map: all of them are   *)
(* stored with their prices in one statement, or a pair is passed over.    *)
UpdateTradeNotETH(p) ==
    /\ notETH[p] # {}
    /\ converted' = IF p \in UnsupportedPairs THEN converted ELSE converted \cup notETH[p]
    /\ notETH' = [notETH EXCEPT ![p] = {}]
    /\ UNCHANGED <<market, tradeRows, fetchOf, tradeStops, outOfTime>>

(* There was no trade in an hour, or something fails: the run ends.        *)
ConvertFails ==
    /\ notETH # NothingRead
    /\ notETH' = NothingRead
    /\ UNCHANGED <<market, tradeRows, fetchOf, converted, tradeStops, outOfTime>>

TradesWork(a) == NextBatch(a) \/ \E p \in PairNames : GetTrades(a, p) \/ StoreTrades(a, p)

TradesNext ==
    \/ \E p \in PairNames, parties \in SUBSET TradeAccounts \ {{}} : Trade(p, parties)
    \/ \E a \in TradeAccounts : StartTrades(a) \/ TradesWork(a) \/ \E p \in PairNames : TradesFail(a, p)
    \/ KillTrades
    \/ GetNotETHTrades \/ (\E p \in PairNames : UpdateTradeNotETH(p)) \/ ConvertFails

-----------------------------------------------------------------------------
(* Every variable has its type; a row has an account that made the trade,  *)
(* and only what is stored is converted.                                   *)
TradesTypeOK ==
    /\ \A t \in DOMAIN market : market[t].pair \in PairNames /\ market[t].parties \in SUBSET TradeAccounts
    /\ \A t \in DOMAIN tradeRows : t \in DOMAIN market /\ tradeRows[t] \in market[t].parties
    /\ \A a \in TradeAccounts : fetchOf[a].left \subseteq PairNames
    /\ converted \subseteq DOMAIN tradeRows /\ \A p \in PairNames : notETH[p] \subseteq DOMAIN tradeRows \cap OfPair(p)

(* No trade of an account below the newest one that is stored for it, from *)
(* which the next run resumes, is missing, whichever goroutines fail and   *)
(* wherever a run is killed.  A trade between two accounts is stored for   *)
(* one of them.                                                            *)
NoTradeIsPassed ==
    \A t \in DOMAIN market, a \in TradeAccounts :
        a \in market[t].parties /\ t < GetLastStoredID(market[t].pair, a) => t \in DOMAIN tradeRows

(* No stored trade before the newest one of its pair that is converted is  *)
(* left without its price, but those that were stored too late for it.     *)
NoTradeIsLeftUnconverted ==
    \A t \in DOMAIN tradeRows :
        t < Max({0} \cup (converted \cap OfPair(market[t].pair))) => t \in converted \/ t \in outOfTime
=============================================================================
