------------------------------ MODULE MCRecords -------------------------------
(* Programs that turn what they read elsewhere into records, for TLC: trade *)
(* logs are assembled from events, stored with their reserves, and read    *)
(* again for reports and for Chainalysis; withdrawals and trades are       *)
(* fetched from the exchanges, and rates of tokens from their provider;    *)
(* rates and volumes of users are cached.  They are checked side by side,  *)
(* for safety only, `program` being the one that runs.                     *)
EXTENDS TradeLogAssembly, TradeLogsStorage, TradeLogReports, ChainalysisPush,
    BinanceWithdrawals, BinanceTrades, HuobiTrades, TokenRates, RateCache, UserCaps

CONSTANTS Programs, r1, r2

VARIABLE program

vars == <<program, assemblyVars, storageVars, reportVars, pushVars, binanceVars, tradeVars, orderVars,
          rateVars, rateCacheVars, capVars>>

(* What the programs that do not run would start from makes no difference. *)
Init ==
    /\ program \in Programs
    /\ IF program = "assembly" THEN AssemblyInit
       ELSE /\ chain = <<>> /\ handler = (CHOOSE h \in Handlers : TRUE) /\ log = <<>>
            /\ pending = NoTrade /\ trades = <<>> /\ status = "ok"
    /\ IF program = "storage" THEN TRUE ELSE events = [b \in 1 .. HeadBlock |-> NoEvent]
    /\ StorageInit
    /\ IF program = "push" THEN TRUE ELSE dest = [t \in Users \X Moments |-> "none"]
    /\ PushInit
    /\ BinanceInit /\ TradesInit /\ OrdersInit
    /\ ReportsInit /\ TokenRatesInit /\ RateCacheInit /\ CapsInit

(* The programs that do not run.                                           *)
Idle(p, variables) == IF program = p THEN TRUE ELSE UNCHANGED variables

Alone(p, A) ==
    /\ program = p
    /\ A
    /\ UNCHANGED program
    /\ Idle("assembly", assemblyVars) /\ Idle("storage", storageVars) /\ Idle("push", pushVars)
    /\ Idle("withdrawals", binanceVars) /\ Idle("trades", tradeVars) /\ Idle("orders", orderVars)
    /\ Idle("reports", reportVars) /\ Idle("token rates", rateVars)
    /\ Idle("rate cache", rateCacheVars) /\ Idle("caps", capVars)

Next ==
    \/ Alone("assembly", AssemblyNext)
    \/ Alone("storage", StorageNext)
    \/ Alone("push", PushNext)
    \/ Alone("withdrawals", BinanceNext)
    \/ Alone("trades", TradesNext)
    \/ Alone("orders", OrdersNext)
    \/ Alone("reports", ReportsNext)
    \/ Alone("token rates", TokenRatesNext)
    \/ Alone("rate cache", RateCacheNext)
    \/ Alone("caps", CapsNext)

Spec == Init /\ [][Next]_vars

(* The programs keep their types.                                          *)
TypeOK ==
    /\ AssemblyTypeOK /\ StorageTypeOK /\ PushTypeOK
    /\ BinanceTypeOK /\ TradesTypeOK /\ OrdersTypeOK
    /\ ReportsTypeOK /\ TokenRatesTypeOK /\ RateCacheTypeOK /\ CapsTypeOK

(* A trade log is put together from the parts of one trade, all of them,   *)
(* with the ether amount of the trade, and every trade becomes one.        *)
TradesAreAssembled == OwnParts /\ AllAssembled /\ OriginalEthIsKept

(* Whatever is below the point from which a program resumes has been dealt *)
(* with: by the crawler, with the reserves it saves, by the fetchers of an *)
(* exchange, the post-processor of trades and the fetcher of token rates.  *)
NothingBelowResumePoint ==
    /\ ReservesAreNotPassed /\ ResumeLeavesNothing /\ NoTradeIsPassed
    /\ NoTradeIsLeftUnconverted /\ NoOrderIsPassed /\ NoRateDayIsPassed

(* The rows of Binance withdrawals are brought up to date while they are   *)
(* open, and an imported file puts data of other withdrawals in few rows.  *)
WithdrawalsAreUpToDate == OpenIsRefreshed /\ OnlyLinesWithoutTxMix

(* Reports agree with the trades and with one another, and trades are read *)
(* back as they were stored.  (Asking a report does not change the trades, *)
(* of which all but AnswersAreSound speaks.)                               *)
ReportsAddUp ==
    /\ AnswersAreSound
    /\ ~Asking /\ report.days = <<>> => DaysAreWhole /\ ReportsAgree /\ TradesAreReadBack

(* Answers from a cache that expires are true to what was so not long ago. *)
AnswersAreRecent == RichHaveTraded /\ CapsAreWithinLimit /\ RatesAreRecent

Shape(gen, src, dst, burns, wallet, excluded, joins) ==
    [gen |-> gen, src |-> src, dst |-> dst, burns |-> burns, wallet |-> wallet,
     excluded |-> excluded, joins |-> joins]

TokenPairs == {<<"ETH", "token">>, <<"token", "ETH">>, <<"token", "token">>}

(* Every trade of a generation that the contracts can execute: at most one *)
(* burn fee for each leg; excluded reserves only matter in generation 3.   *)
ShapesOf(gen) ==
    { s \in {Shape(gen, p[1], p[2], b, w, x, j) :
                p \in TokenPairs, b \in 0 .. 2, w \in BOOLEAN, x \in 0 .. 2, j \in BOOLEAN} :
        /\ s.burns <= Legs(s)
        /\ gen = 3 \/ s.excluded = 0
        /\ gen = 3 => s.excluded \in {0, 1} /\ s.burns > 0 }

AllShapes == UNION {ShapesOf(gen) : gen \in 1 .. 4}
V2Shapes == {s \in ShapesOf(2) : ~s.joins}

MCRoutes == {<<r1>>, <<r1, r2>>}
MCAccounts == <<"v1", "v3">>
MCPairs == <<"KNCBTC", "OMGBTC">>

Sale(user, country, src, dst, wallet, app, eth, kyced, fees, splits) ==
    [user |-> user, country |-> country, src |-> src, dst |-> dst, wallet |-> wallet, app |-> app,
     eth |-> eth, kyced |-> kyced, fees |-> fees, splits |-> splits, hour |-> 0, first |-> FALSE]

MCSales ==
    { Sale("u1", "VN", "ETH", "KNC", "w1", "KyberSwap", 1, TRUE, 2, 1),
      Sale("u1", "VN", "KNC", "OMG", "w2", "KyberSwap", 1, FALSE, 2, 2),
      Sale("u2", "none", "OMG", "ETH", "w1", "other", 2, TRUE, 0, 1) }

Question(by, of, from, to, zone) == [by |-> by, of |-> of, from |-> from, to |-> to, zone |-> zone]

MCQuestions ==
    { Question("all", "none", 1, 2, 0), Question("all", "none", 2, 3, -1),
      Question("wallet", "w1", 1, 1, 1), Question("country", "VN", 0, 3, 1) }

MCZones == {-1, 0, 1}
MCDailyLimit == [kyced \in BOOLEAN |-> IF kyced THEN 3 ELSE 2]
MCTxLimit == [kyced \in BOOLEAN |-> IF kyced THEN 2 ELSE 1]
=============================================================================
