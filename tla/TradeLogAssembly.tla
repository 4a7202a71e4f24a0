-------------------------- MODULE TradeLogAssembly ---------------------------
(***************************************************************************)
(* How the event logs of a job become trade logs                           *)
(* (assembleTradeLogsV1 .. V4 of tradelogs/crawler_v*.go): one pass over   *)
(* the events, collecting the fees in a pending trade log until the event  *)
(* that ends the trade, which is then completed from the receipt of its    *)
(* transaction, appended, and the pending trade log reset.                 *)
(*                                                                         *)
(* The chain is a sequence of trades; an event names its owner, the trade  *)
(* that emitted it, which the program does not see.  Amounts are numbers   *)
(* that tell source, destination and ether apart.                          *)
(***************************************************************************)
EXTENDS Integers, FiniteSets, FiniteSetsExt, SequencesExt

CONSTANTS
    Shapes,     \* the trades that occur: [gen, src, dst, burns, wallet, excluded, joins]
    MaxTrades,  \* bound: trades in a job
    Handlers,   \* the decoders that are used
    None

(* src, dst: is it ETH or a token; burns: burn fees (at most one a leg);   *)
(* wallet: is there a wallet or platform fee; excluded: how many of the    *)
(* two reserves are excluded from the volume; joins: executed in the same  *)
(* transaction as the trade before it.                                     *)
ASSUME AssemblyAssumption ==
    /\ MaxTrades \in Nat \ {0}
    /\ Handlers \subseteq 1 .. 4 /\ Handlers # {}
    /\ \A s \in Shapes :
        /\ s.gen \in 1 .. 4 /\ s.burns \in 0 .. 2 /\ s.excluded \in 0 .. 2
        /\ {s.src, s.dst} \subseteq {"ETH", "token"} /\ {s.src, s.dst} # {"ETH"}
        /\ s.wallet \in BOOLEAN /\ s.joins \in BOOLEAN

VARIABLES
    chain,      \* the trades, in the order they were executed
    handler,    \* the decoder of the job
    log,        \* the events the node returned, not yet processed
    pending,    \* tradeLog
    trades,     \* result.Trades
    status      \* "assembling", "ok" or "failed"

assemblyVars == <<chain, handler, log, pending, trades, status>>

-----------------------------------------------------------------------------
(* What is on chain.                                                       *)

SrcAmount == 7
DestAmount == 5
TokenEther == 3

(* The ether that changed hands in a trade.                                *)
Ether(s) == CASE s.src = "ETH" -> SrcAmount
              [] s.dst = "ETH" -> DestAmount
              [] OTHER -> TokenEther

Legs(s) == IF s.src = "token" /\ s.dst = "token" THEN 2 ELSE 1

Event(kind, k, leg) == [kind |-> kind, owner |-> k, leg |-> leg]

(* The kinds of events, in the order of a trade; "execute" is TradeExecute, *)
(* which each reserve emits and which is only found in receipts.           *)
EventKinds == <<"execute", "etherReceival", "feeDistributed", "burnFee", "feeToWallet", "trade">>

(* How many events of a kind a trade emits.                                *)
Emits(s, kind) ==
    CASE kind = "execute" -> Legs(s)
      [] kind = "etherReceival" -> IF s.gen <= 2 /\ s.src = "token" THEN 1 ELSE 0
      [] kind = "feeDistributed" -> IF s.gen = 4 /\ (s.wallet \/ s.burns > 0) THEN 1 ELSE 0
      [] kind = "burnFee" -> IF s.gen = 4 THEN 0 ELSE s.burns
      [] kind = "feeToWallet" -> IF s.gen # 4 /\ s.wallet THEN 1 ELSE 0
      [] kind = "trade" -> 1

EventsOfKind(k, kind) == [leg \in 1 .. Emits(chain[k], kind) |-> Event(kind, k, leg)]

(* The events of trade k that are of some kinds.                           *)
EventsOf(k, kinds) ==
    FlattenSeq([i \in 1 .. 6 |-> IF EventKinds[i] \in kinds THEN EventsOfKind(k, EventKinds[i]) ELSE <<>>])

(* The events of all trades, those of trade k of the kinds kinds[k].       *)
EventsOfAll(kinds) == FlattenSeq([k \in DOMAIN chain |-> EventsOf(k, kinds[k])])

AllEvents == EventsOfAll([k \in DOMAIN chain |-> ToSet(EventKinds)])

(* The trades of the transaction of trade k.                               *)
FirstOfTx(k) == CHOOSE i \in 1 .. k : (i = 1 \/ ~chain[i].joins) /\ \A j \in (i + 1) .. k : chain[j].joins
SameTx(i, k) == FirstOfTx(i) = FirstOfTx(k)

Receipt(k) == EventsOfAll([i \in DOMAIN chain |-> IF SameTx(i, k) THEN ToSet(EventKinds) ELSE {}])

(* log.Index: the position of the trade event in its block, from 0.  The   *)
(* trades of the model are those of one block.                             *)
LogIndex(k) == (CHOOSE i \in DOMAIN AllEvents : AllEvents[i] = Event("trade", k, 1)) - 1

(* The topics a decoder asks the node for, as kinds of events of trade k.  *)
Sees(h, k) ==
    {"burnFee", "feeToWallet"}
    \cup (IF h <= 2 THEN {"etherReceival"} ELSE {})
    \cup (IF h = 4 THEN {"feeDistributed"} ELSE {})
    \cup (IF chain[k].gen = h \/ (h = 4 /\ chain[k].gen = 3) THEN {"trade"} ELSE {})

-----------------------------------------------------------------------------
NoTrade == [fees |-> <<>>, srcReserve |-> None, dstReserve |-> None, wallet |-> None,
            eth |-> None, orig |-> None, src |-> None, dst |-> None, version |-> None, trade |-> None]

BurnKinds == {"burnFee", "feeDistributed"}

(* Fees with an amount that is burnt.                                      *)
LengthBurnFees(t) ==
    Cardinality({i \in DOMAIN t.fees : t.fees[i].kind \in BurnKinds /\ chain[t.fees[i].owner].burns > 0})

Reserve(e) == <<e.owner, e.leg>>

FillWalletFees(t, e) == [t EXCEPT !.fees = Append(@, e), !.wallet = e.owner]

FillBurnFees(t, e) ==
    LET more == [t EXCEPT !.fees = Append(@, e)]
    IN  IF LengthBurnFees(more) = 1
        THEN [more EXCEPT !.srcReserve = Reserve(e)]
        ELSE [more EXCEPT !.dstReserve = Reserve(e)]

FillEtherReceival(t, e) ==
    [t EXCEPT !.srcReserve = Reserve(e), !.eth = Ether(chain[e.owner]), !.orig = Ether(chain[e.owner])]

FillFeeDistributed(t, e) == [t EXCEPT !.fees = Append(@, e), !.wallet = e.owner]

FillFee(t, e) ==
    CASE e.kind = "burnFee" -> FillBurnFees(t, e)
      [] e.kind = "feeToWallet" -> FillWalletFees(t, e)
      [] e.kind = "etherReceival" -> FillEtherReceival(t, e)
      [] e.kind = "feeDistributed" -> FillFeeDistributed(t, e)

(* The reserves that executed, up to where the search of the receipt       *)
(* starts: log.Index, which counts within the block, or its last event.    *)
Executed(k) ==
    LET r == Receipt(k)
        start == IF Len(r) - 1 <= LogIndex(k) THEN Len(r) - 1 ELSE LogIndex(k)
    IN  {i \in 1 .. (start + 1) : r[i].kind = "execute"}

(* getReserveFromReceipt: the nearest one, backwards.                      *)
ReserveFromReceipt(k) == Reserve(Receipt(k)[Max(Executed(k))])

(* getTransactionReceiptV1: the break leaves the switch and not the loop,  *)
(* so that the search ends with the first one of the transaction.          *)
ReserveFromReceiptV1(k) == Reserve(Receipt(k)[Min(Executed(k))])

EthSide(t, s) ==
    CASE s.src = "ETH" -> SrcAmount
      [] s.dst = "ETH" -> DestAmount
      [] OTHER -> t.eth

FillExecuteTrade(t, k) ==
    LET s == chain[k]
        reserve == IF LengthBurnFees(t) = 0 THEN ReserveFromReceiptV1(k) ELSE t.srcReserve
    IN  [t EXCEPT !.version = 1, !.srcReserve = reserve, !.src = SrcAmount, !.dst = DestAmount,
                  !.eth = EthSide(t, s), !.orig = EthSide(t, s)]

(* Variant: OriginalEthAmount shares the number that is multiplied.        *)
FillKyberTradeV2Shared(t, k) ==
    LET s == chain[k]
        reserve == IF LengthBurnFees(t) = 0 THEN ReserveFromReceipt(k) ELSE t.srcReserve
        product == EthSide(t, s) * LengthBurnFees(t)
    IN  [t EXCEPT !.version = 2, !.srcReserve = reserve,
                  !.src = IF s.src = "ETH" THEN product ELSE SrcAmount,
                  !.dst = IF s.dst = "ETH" THEN product ELSE DestAmount,
                  !.eth = product, !.orig = product]

(* EthAmount is the very big.Int of SrcAmount or DestAmount when one side  *)
(* is ETH, and is multiplied in place.                                     *)
FillKyberTradeV2(t, k) ==
    LET s == chain[k]
        reserve == IF LengthBurnFees(t) = 0 THEN ReserveFromReceipt(k) ELSE t.srcReserve
        product == EthSide(t, s) * LengthBurnFees(t)
    IN  [t EXCEPT !.version = 2, !.srcReserve = reserve,
                  !.src = IF s.src = "ETH" THEN product ELSE SrcAmount,
                  !.dst = IF s.dst = "ETH" THEN product ELSE DestAmount,
                  !.eth = product, !.orig = EthSide(t, s)]

(* The reserves are in the event: none on the ETH side.                    *)
FillKyberTradeV3(t, k) ==
    LET s == chain[k] IN
    [t EXCEPT !.version = 3, !.src = SrcAmount, !.dst = DestAmount,
              !.srcReserve = IF s.src = "ETH" THEN None ELSE <<k, 1>>,
              !.dstReserve = IF s.dst = "ETH" THEN None ELSE <<k, Legs(s)>>,
              !.eth = Ether(s) * (2 - s.excluded), !.orig = Ether(s)]

FillKyberTradeV4(t, k) ==
    LET s == chain[k] IN
    [t EXCEPT !.version = 4, !.src = SrcAmount, !.dst = DestAmount,
              !.eth = Ether(s) * Legs(s), !.orig = Ether(s)]

(* updateBasicInfo: without a burn fee the wallet is that of the input of  *)
(* the transaction, if that calls the network proxy.                       *)
UpdateBasicInfo(t, k, callsProxy) ==
    [t EXCEPT !.trade = k,
              !.wallet = IF LengthBurnFees(t) = 0 /\ callsProxy THEN FirstOfTx(k) ELSE @]

Fill(t, k) ==
    CASE chain[k].gen = 1 -> FillExecuteTrade(t, k)
      [] chain[k].gen = 2 -> FillKyberTradeV2(t, k)
      [] chain[k].gen = 3 -> FillKyberTradeV3(t, k)
      [] chain[k].gen = 4 -> FillKyberTradeV4(t, k)

-----------------------------------------------------------------------------
AssemblyInit ==
    /\ chain \in UNION {[1 .. n -> Shapes] : n \in 1 .. MaxTrades}
    /\ ~chain[1].joins
    /\ \A k \in DOMAIN chain : k > 1 => chain[k - 1].gen <= chain[k].gen
    /\ handler \in Handlers
    /\ log = EventsOfAll([k \in DOMAIN chain |-> Sees(handler, k)])
    /\ pending = NoTrade
    /\ trades = <<>>
    /\ status = "assembling"

Assembling == status = "assembling" /\ log # <<>>

(* A fee event: added to the pending trade log.                            *)
CollectFee ==
    /\ Assembling
    /\ Head(log).kind # "trade"
    /\ pending' = FillFee(pending, Head(log))
    /\ log' = Tail(log)
    /\ UNCHANGED <<chain, handler, trades, status>>

(* Variant: the pending trade log is not reset.                            *)
AppendTradeNoReset ==
    /\ Assembling
    /\ Head(log).kind = "trade"
    /\ LET k == Head(log).owner
       IN  \E callsProxy \in BOOLEAN : pending' = UpdateBasicInfo(Fill(pending, k), k, callsProxy)
    /\ trades' = Append(trades, pending')
    /\ log' = Tail(log)
    /\ UNCHANGED <<chain, handler, status>>

(* The event that ends a trade.                                            *)
AppendTrade ==
    /\ Assembling
    /\ Head(log).kind = "trade"
    /\ LET k == Head(log).owner
       IN  \E callsProxy \in BOOLEAN :
              trades' = Append(trades, UpdateBasicInfo(Fill(pending, k), k, callsProxy))
    /\ pending' = NoTrade
    /\ log' = Tail(log)
    /\ UNCHANGED <<chain, handler, status>>

(* Variant: the trade that cannot be completed is left out.                *)
FetchFailsSkips ==
    /\ Assembling
    /\ Head(log).kind = "trade"
    /\ pending' = NoTrade
    /\ log' = Tail(log)
    /\ UNCHANGED <<chain, handler, trades, status>>

(* The receipt, the transaction or the timestamp cannot be fetched: the    *)
(* job fails as a whole.                                                   *)
FetchFails ==
    /\ Assembling
    /\ Head(log).kind = "trade"
    /\ status' = "failed"
    /\ UNCHANGED <<chain, handler, log, pending, trades>>

Return ==
    /\ status = "assembling"
    /\ log = <<>>
    /\ status' = "ok"
    /\ UNCHANGED <<chain, handler, log, pending, trades>>

AssemblyNext == CollectFee \/ AppendTrade \/ FetchFails \/ Return

-----------------------------------------------------------------------------
(* Every variable has its type; a trade log carries the version of a decoder,  *)
(* and the pending one, in which fees are collected, has none yet.            *)
AssemblyTypeOK ==
    /\ handler \in Handlers
    /\ status \in {"assembling", "ok", "failed"}
    /\ \A k \in DOMAIN trades : trades[k].trade \in DOMAIN chain /\ trades[k].version \in 1 .. 4
    /\ pending.version = None

(* The decoder of the job knows all the trades of the block.               *)
AllKnown == \A k \in DOMAIN chain : "trade" \in Sees(handler, k)

(* Nothing of a trade ends up in another one: the fees, the reserves and   *)
(* the wallet of a trade log are those the trade itself emitted, all the   *)
(* fees of the trade are there, and nothing is left over.  (Trades of one  *)
(* transaction without burn fees share what its receipt and input say.)    *)
OwnParts ==
    AllKnown =>
        /\ \A i \in DOMAIN trades :
            LET t == trades[i]
                fees == Sees(handler, t.trade) \ {"trade", "etherReceival"}
            IN  /\ ToSet(t.fees) = ToSet(EventsOf(t.trade, fees))
                /\ (LengthBurnFees(t) > 0 \/ \A k \in DOMAIN chain : SameTx(k, t.trade) => k = t.trade)
                   => /\ t.wallet \in {None, t.trade}
                      /\ \A r \in {t.srcReserve, t.dstReserve} \ {None} : r[1] = t.trade
        /\ status = "ok" => pending = NoTrade

(* A job that succeeds has every trade its decoder knows, once, in order,  *)
(* also when events of trades it does not know lie between them.           *)
AllAssembled ==
    status = "ok" =>
        /\ {trades[i].trade : i \in DOMAIN trades} = {k \in DOMAIN chain : "trade" \in Sees(handler, k)}
        /\ \A i, j \in DOMAIN trades : i < j => trades[i].trade < trades[j].trade

(* Whatever EthAmount is multiplied with, OriginalEthAmount stays the      *)
(* ether that changed hands.                                               *)
OriginalEthIsKept ==
    AllKnown => \A i \in DOMAIN trades : trades[i].orig = Ether(chain[trades[i].trade])

(* crawler_test.go: the source amount of a trade is not zero.              *)
SrcAmountNotZero == \A i \in DOMAIN trades : trades[i].src # 0
=============================================================================
