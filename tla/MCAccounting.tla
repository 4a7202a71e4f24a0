----------------------------- MODULE MCAccounting -----------------------------
(* The programs that gather accounting data, for TLC: the resolver of last *)
(* blocks and the fetcher of daily rates, which sees of the resolver only  *)
(* the day it found, and the fetchers of withdrawals of the exchanges.     *)
(* They are checked side by side, `program` being the one that runs.       *)
EXTENDS AccountingRates, HuobiWithdrawals, BinanceWithdrawals

CONSTANTS Programs, MaxBlock, BlockStep, MaxEstimate,
    DaysOf      \* the chains: functions from blocks to days

(* Days follow one another, and between a block and one of two days later  *)
(* there are more blocks than a step of the resolver.                      *)
ASSUME ChainsAssumption ==
    /\ MaxBlock \in Nat \ {0} /\ BlockStep \in Nat \ {0} /\ MaxEstimate \in Nat
    /\ DaysOf # {} /\ DaysOf \subseteq [1 .. MaxBlock -> 1 .. MaxBlock]
    /\ \A d \in DaysOf : \A b, c \in 1 .. MaxBlock :
          /\ b <= c => d[b] <= d[c]
          /\ c = b + 1 => d[c] <= d[b] + 1
          /\ d[b] + 2 <= d[c] => c - b > BlockStep

VARIABLES program, dayOf, tip, call, current, phase, start, end, LastResolved, blockInfo

Resolver == INSTANCE LastBlockDaily

resolverVars == <<dayOf, tip, call, current, phase, start, end, LastResolved, blockInfo>>
vars == <<program, ratesVars, resolverVars, huobiVars, binanceVars>>

(* The chain makes no difference to the other programs.                    *)
Init ==
    /\ program \in Programs
    /\ IF program = "resolver" THEN TRUE ELSE dayOf = CHOOSE d \in DaysOf : TRUE
    /\ Resolver!Init
    /\ RatesInit /\ HuobiInit /\ BinanceInit

(* The programs that do not run.                                           *)
Idle(p, variables) == IF program = p THEN TRUE ELSE UNCHANGED variables

Alone(p, A) ==
    /\ program = p
    /\ A
    /\ UNCHANGED program
    /\ Idle("resolver", resolverVars) /\ Idle("fetcher", ratesVars)
    /\ Idle("huobi withdrawals", huobiVars) /\ Idle("binance withdrawals", binanceVars)

Next ==
    \/ Alone("resolver", Resolver!Next)
    \/ Alone("fetcher", RatesNext)
    \/ Alone("huobi withdrawals", HuobiNext)
    \/ Alone("binance withdrawals", BinanceNext)

(* The work of a program that is at work.                                  *)
Works ==
    \/ Alone("resolver", Resolver!Step)
    \/ Alone("fetcher", Main)
    \/ Alone("huobi withdrawals", HuobiWorks)
    \/ Alone("binance withdrawals", BinanceWorks)

(* Every goroutine runs, time passes, a supervisor restarts the fetcher of *)
(* rates, and cron starts those of withdrawals, again and again.  As only  *)
(* one program runs, what is fair to each is said of all of them at once.  *)
Fairness ==
    /\ WF_vars(Works)
    /\ WF_vars(Alone("fetcher", Goroutines) \/ Alone("binance withdrawals", Tick))
    /\ WF_vars(Alone("fetcher", Tomorrow))
    /\ SF_vars(Alone("huobi withdrawals", StartHuobi(0)) \/ Alone("binance withdrawals", StartBinance(0, clock)))

Spec == Init /\ [][Next]_vars /\ Fairness

(* The programs keep their types; the resolver searches between two mined  *)
(* blocks.                                                                 *)
TypeOK == Resolver!TypeOK /\ RatesTypeOK /\ HuobiTypeOK /\ BinanceTypeOK

(* LastBlockResolver stores last blocks of days that are over, only.       *)
OnlyLastBlocks == Resolver!OnlyLastBlocks

(* LastBlockResolver.Next moves on by one day.                             *)
NextIsNextDay == Resolver!NextIsNextDay

(* The days of a Fetch are stored in order, and no day of a reserve is     *)
(* left out.                                                               *)
DaysAreStored == DaysStoredInOrder /\ NoDayIsSkipped

(* The loops of LastBlockResolver end, and so does a Fetch.                *)
CallsEnd == []<>(Resolver!CallHasEnded /\ FetchHasEnded)

(* Each withdrawal from an exchange is stored in the end.                  *)
AllIsStored ==
    \A w \in 1 .. Max({LastHuobiId, LastBinanceId}) : []<>(StoredFromHuobi(w) /\ StoredFromBinance(w))

MCAccounts == <<"v1", "v3">>

(* One reserve is deployed two days after the other.                       *)
OneLater == [r \in Reserves |-> IF r = CHOOSE q \in Reserves : TRUE THEN 6 ELSE 2]

(* Three days of three or four blocks, each more than BlockStep.           *)
MCDays ==
    { [b \in 1 .. MaxBlock |-> IF b < t[1] THEN 1 ELSE IF b < t[2] THEN 2 ELSE IF b < t[3] THEN 3 ELSE 4] :
        t \in {u \in (3 .. 4) \X (6 .. 8) \X (9 .. 12) : u[2] - u[1] \in {3, 4} /\ u[3] - u[2] \in {3, 4}} }
=============================================================================
