-------------------------- MODULE HuobiWithdrawals --------------------------
(***************************************************************************)
(* accounting-huobi-withdrawal-fetcher: for one account after the other it *)
(* fetches the withdrawals of every currency, in a goroutine each, from    *)
(* the id after the newest one of the table, and stores them together.     *)
(***************************************************************************)
EXTENDS Naturals, Sequences, FiniteSetsExt

CONSTANTS
    HuobiAccounts,   \* the accounts, in the order of the configuration file
    Currencies,
    HuobiPageSize,   \* "size" of a request
    LastHuobiId,     \* bound: the withdrawals made on the exchange
    MaxHuobiStops    \* bound on the runs that are killed and the goroutines that give up

ASSUME HuobiAssumption ==
    /\ HuobiAccounts \in Seq({HuobiAccounts[i] : i \in DOMAIN HuobiAccounts}) \ {<<>>}
    /\ \A i, j \in DOMAIN HuobiAccounts : HuobiAccounts[i] = HuobiAccounts[j] => i = j
    /\ HuobiPageSize \in Nat \ {0} /\ LastHuobiId \in Nat /\ MaxHuobiStops \in Nat

VARIABLES
    onHuobi,         \* the withdrawals of the exchange: id |-> [account, currency]
    huobiRows,       \* table huobi_withdrawals: id |-> account
    huobiAt,         \* the account at work, 0 when no run is at work
    fromID,          \* the variable of run, shared by the accounts
    nextFromID,      \* of the goroutine of each currency
    fetching,        \* the goroutines that have not ended
    fetchedIDs,      \* fetchResult, or what is about to be put there
    groupFailed,     \* a goroutine has returned an error
    huobiStops,
    madeMeanwhile,   \* history: made while their account was being fetched
    lentFrom         \* history: the highest fromID not its own of each account

huobiRunVars == <<huobiAt, fromID, nextFromID, fetching, fetchedIDs, groupFailed>>
huobiVars == <<onHuobi, huobiRows, huobiRunVars, huobiStops, madeMeanwhile, lentFrom>>

HuobiOwners == {HuobiAccounts[i] : i \in DOMAIN HuobiAccounts}
OfHuobi(account) == {w \in DOMAIN onHuobi : onHuobi[w].account = account}

HuobiInit ==
    /\ onHuobi = <<>> /\ huobiRows = <<>>
    /\ huobiAt = 0 /\ fromID = 0 /\ groupFailed = FALSE
    /\ nextFromID = [c \in Currencies |-> 0] /\ fetching = {} /\ fetchedIDs = {}
    /\ huobiStops = 0
    /\ madeMeanwhile = {} /\ lentFrom = [a \in HuobiOwners |-> 0]

(* A withdrawal is made; the ids of the exchange grow.                     *)
WithdrawFromHuobi(account, currency) ==
    /\ Len(onHuobi) < LastHuobiId
    /\ onHuobi' = Append(onHuobi, [account |-> account, currency |-> currency])
    /\ madeMeanwhile' = IF huobiAt # 0 /\ HuobiAccounts[huobiAt] = account
                        THEN madeMeanwhile \cup {Len(onHuobi')} ELSE madeMeanwhile
    /\ UNCHANGED <<huobiRows, huobiRunVars, huobiStops, lentFrom>>

-----------------------------------------------------------------------------
(* Variant: the newest id of the table, of whatever account.               *)
NewestOfAll(account) == Max({0} \cup DOMAIN huobiRows)

GetLastIDStored(account) == Max({0} \cup {w \in DOMAIN huobiRows : huobiRows[w] = account})

(* The i-th turn of the loop over the accounts, up to the goroutines: a    *)
(* fromID that is not 0, be it that of the account before, is kept.        *)
BeginHuobiAccount(i, from) ==
    LET a == HuobiAccounts[i]
        id == IF from = 0 THEN GetLastIDStored(a) ELSE from
    IN  /\ huobiAt' = i /\ fromID' = id
        /\ nextFromID' = [c \in Currencies |-> id + 1]
        /\ fetching' = Currencies /\ fetchedIDs' = {} /\ groupFailed' = FALSE
        /\ lentFrom' = IF id > GetLastIDStored(a) THEN [lentFrom EXCEPT ![a] = Max({@, id})] ELSE lentFrom

(* A run is started, with flag from-id or without.                         *)
StartHuobi(from) ==
    /\ huobiAt = 0
    /\ BeginHuobiAccount(1, from)
    /\ UNCHANGED <<onHuobi, huobiRows, huobiStops, madeMeanwhile>>

(* The oldest withdrawals of a currency from an id on.  External: the      *)
(* exchange may give them in either order.                                 *)
Page(currency, from) ==
    LET all == {w \in OfHuobi(HuobiAccounts[huobiAt]) : onHuobi[w].currency = currency /\ w >= from}
    IN  {w \in all : Cardinality({v \in all : v < w}) < HuobiPageSize}

(* One turn of the loop of getWithdrawHistoryWithSymbol: the next page     *)
(* begins after the first entry of this one.                               *)
FetchPage(c) ==
    /\ c \in fetching
    /\ LET page == Page(c, nextFromID[c])
       IN  IF page = {} THEN fetching' = fetching \ {c} /\ UNCHANGED <<nextFromID, fetchedIDs>>
           ELSE /\ \E first \in {Min(page), Max(page)} : nextFromID' = [nextFromID EXCEPT ![c] = first + 1]
                /\ fetchedIDs' = fetchedIDs \cup page
                /\ UNCHANGED fetching
    /\ UNCHANGED <<onHuobi, huobiRows, huobiAt, fromID, groupFailed, huobiStops, madeMeanwhile, lentFrom>>

(* All attempts of retryGetWithdrawal fail.                                *)
PageFails(c) ==
    /\ c \in fetching /\ huobiStops < MaxHuobiStops
    /\ huobiStops' = huobiStops + 1
    /\ fetching' = fetching \ {c} /\ groupFailed' = TRUE
    /\ UNCHANGED <<onHuobi, huobiRows, huobiAt, fromID, nextFromID, fetchedIDs, madeMeanwhile, lentFrom>>

(* UpdateWithdrawHistory: withdrawals that are stored stay as they are.    *)
Inserted(ids) ==
    [w \in DOMAIN huobiRows \cup ids |-> IF w \in DOMAIN huobiRows THEN huobiRows[w] ELSE HuobiAccounts[huobiAt]]

EndHuobiRun ==
    /\ huobiAt' = 0 /\ fromID' = 0 /\ nextFromID' = [c \in Currencies |-> 0]
    /\ fetching' = {} /\ fetchedIDs' = {} /\ groupFailed' = FALSE

NextHuobiAccount ==
    IF huobiAt < Len(HuobiAccounts) THEN BeginHuobiAccount(huobiAt + 1, fromID)
    ELSE EndHuobiRun /\ UNCHANGED lentFrom

(* Variant: what the other goroutines have fetched is stored.              *)
StoreWhatCame ==
    /\ huobiAt # 0 /\ fetching = {}
    /\ huobiRows' = Inserted(fetchedIDs)
    /\ NextHuobiAccount
    /\ UNCHANGED <<onHuobi, huobiStops, madeMeanwhile>>

(* The goroutines have ended.  An error of one is lost, with all of the    *)
(* results; the run goes on as if nothing new had been found.              *)
StoreHuobi ==
    /\ huobiAt # 0 /\ fetching = {}
    /\ huobiRows' = IF groupFailed THEN huobiRows ELSE Inserted(fetchedIDs)
    /\ NextHuobiAccount
    /\ UNCHANGED <<onHuobi, huobiStops, madeMeanwhile>>

(* The process is killed, or a statement or GetCurrencies fails.           *)
HuobiStop ==
    /\ huobiAt # 0 /\ huobiStops < MaxHuobiStops
    /\ huobiStops' = huobiStops + 1
    /\ EndHuobiRun
    /\ UNCHANGED <<onHuobi, huobiRows, madeMeanwhile, lentFrom>>

HuobiWorks == StoreHuobi \/ \E c \in Currencies : FetchPage(c)

HuobiNext ==
    \/ \E a \in HuobiOwners, c \in Currencies : WithdrawFromHuobi(a, c)
    \/ \E from \in 0 .. Len(onHuobi) : StartHuobi(from)
    \/ HuobiWorks
    \/ \E c \in Currencies : PageFails(c)
    \/ HuobiStop

-----------------------------------------------------------------------------
(* Every variable has its type; a row has the account of its withdrawal.   *)
HuobiTypeOK ==
    /\ \A w \in DOMAIN onHuobi : onHuobi[w] \in [account : HuobiOwners, currency : Currencies]
    /\ \A w \in DOMAIN huobiRows : w \in DOMAIN onHuobi /\ huobiRows[w] = onHuobi[w].account
    /\ huobiAt \in 0 .. Len(HuobiAccounts) /\ fromID \in 0 .. LastHuobiId
    /\ fetching \subseteq Currencies /\ fetchedIDs \subseteq DOMAIN onHuobi

(* What explains that a withdrawal is left out: it was made while its      *)
(* account was fetched, or a run took its account from an id beyond it,    *)
(* given by hand or left over from the account before.                     *)
Excused(w) == w \in DOMAIN onHuobi /\ (w \in madeMeanwhile \/ w <= lentFrom[onHuobi[w].account])

(* No other withdrawal below the newest one that is stored of its account, *)
(* from which the next run resumes, is missing, whichever goroutine fails  *)
(* and wherever a run is killed.                                           *)
NoWithdrawalIsPassed ==
    \A w \in DOMAIN onHuobi :
        w < GetLastIDStored(onHuobi[w].account) => w \in DOMAIN huobiRows \/ Excused(w)

(* A withdrawal that was made is stored, unless it is excused.             *)
StoredFromHuobi(w) == w \in DOMAIN onHuobi => w \in DOMAIN huobiRows \/ Excused(w)

(* Comment of GetWithdrawHistory: "return all trade history between fromID *)
(* and latest withdrawal".  Nothing up to the newest withdrawal it returns *)
(* would be left out.                                                      *)
AllUpToLatestAreReturned ==
    huobiAt # 0 /\ fetching = {} /\ ~groupFailed /\ fetchedIDs # {} =>
        \A w \in OfHuobi(HuobiAccounts[huobiAt]) : w > fromID /\ w <= Max(fetchedIDs) => w \in fetchedIDs
=============================================================================
