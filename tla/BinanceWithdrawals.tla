------------------------- MODULE BinanceWithdrawals -------------------------
(***************************************************************************)
(* accounting-binance-withdrawal-fetcher: for one account after the other  *)
(* it fetches the withdrawals of a range of time in windows and stores     *)
(* them in one statement; it resumes from the oldest withdrawal that is    *)
(* still open, or from the newest one.  accounting-binance-import-data     *)
(* overwrites rows with the lines of a file.                               *)
(***************************************************************************)
EXTENDS Naturals, Sequences, FiniteSetsExt

CONSTANTS
    BinanceAccounts, \* the accounts, in the order of the configuration file
    WindowLimit,     \* withdrawalTimeLimit
    LastTime,        \* bound on the clock; its first tick stands for January 2018
    LastBinanceId,   \* bound: the withdrawals made on the exchange
    MaxDisturbances, \* bound on the kills, failures, runs with flags and imported files
    NoTx             \* the empty txId

ASSUME BinanceAssumption ==
    /\ BinanceAccounts \in Seq({BinanceAccounts[i] : i \in DOMAIN BinanceAccounts}) \ {<<>>}
    /\ \A i, j \in DOMAIN BinanceAccounts : BinanceAccounts[i] = BinanceAccounts[j] => i = j
    /\ WindowLimit \in Nat \ {0} /\ LastTime \in Nat \ {0}
    /\ LastBinanceId \in Nat /\ MaxDisturbances \in Nat

VARIABLES
    clock,
    onBinance,       \* the withdrawals of the exchange: id |-> [of, account, at, status, tx]
    binanceRows,     \* table binance_withdrawals: id |-> [account, data]
    binanceAt,       \* the account at work, 0 when no run is at work
    fromFlag,        \* flag from of the run, 0 if it is not given
    fromTime, toTime,
    collected,       \* the result of GetWithdrawHistory so far: id |-> data
    twice,           \* the ids that are in it more than once
    disturbances,
    jumped,          \* history: accounts taken from beyond their resume point by hand
    overwritten,     \* history: rows given the data of another withdrawal, or during a run, by a file
    refused          \* history: PostgreSQL has refused the statement of a run

binanceRunVars == <<binanceAt, fromFlag, fromTime, toTime, collected, twice>>
binanceHistory == <<jumped, overwritten, refused>>
binanceVars == <<clock, onBinance, binanceRows, binanceRunVars, disturbances, binanceHistory>>

BinanceOwners == {BinanceAccounts[i] : i \in DOMAIN BinanceAccounts}

(* EmailSent, then AwaitingApproval or Processing, then one of the final   *)
(* states; a transaction comes with the last.                              *)
Statuses == {"email sent", "processing", "completed"}
Rank(status) == CASE status = "email sent" -> 0 [] status = "processing" -> 1 [] status = "completed" -> 2

BinanceInit ==
    /\ clock = 1 /\ onBinance = <<>> /\ binanceRows = <<>>
    /\ binanceAt = 0 /\ fromFlag = 0 /\ fromTime = 0 /\ toTime = 0 /\ collected = <<>> /\ twice = {}
    /\ disturbances = 0
    /\ jumped = {} /\ overwritten = {} /\ refused = FALSE

Tick ==
    /\ clock < LastTime
    /\ clock' = clock + 1
    /\ UNCHANGED <<onBinance, binanceRows, binanceRunVars, disturbances, binanceHistory>>

WithdrawFromBinance(account) ==
    /\ Len(onBinance) < LastBinanceId
    /\ onBinance' = Append(onBinance, [of |-> Len(onBinance) + 1, account |-> account, at |-> clock,
                                       status |-> "email sent", tx |-> NoTx])
    /\ UNCHANGED <<clock, binanceRows, binanceRunVars, disturbances, binanceHistory>>

(* The exchange works on a withdrawal.                                     *)
Progress(w, status) ==
    /\ Rank(onBinance[w].status) < Rank(status)
    /\ onBinance' = [onBinance EXCEPT ![w].status = status,
                                      ![w].tx = IF status = "completed" THEN w ELSE NoTx]
    /\ UNCHANGED <<clock, binanceRows, binanceRunVars, disturbances, binanceHistory>>

-----------------------------------------------------------------------------
RowsOf(account) == {w \in DOMAIN binanceRows : binanceRows[w].account = account}
Open(account) == {w \in RowsOf(account) : binanceRows[w].data.status = "processing"}
TimesOf(rows) == {binanceRows[w].data.at : w \in rows}

(* Variant: withdrawals that are not completed are not looked for.         *)
NewestStored(account) == Max({1} \cup TimesOf(RowsOf(account)))

GetLastStoredTimestamp(account) ==
    IF Open(account) # {} THEN Min(TimesOf(Open(account))) ELSE Max({1} \cup TimesOf(RowsOf(account)))

(* The i-th turn of the loop over the accounts, up to GetWithdrawHistory.  *)
BeginBinanceAccount(i, from) ==
    LET a == BinanceAccounts[i]
    IN  /\ binanceAt' = i
        /\ fromTime' = IF from = 0 THEN GetLastStoredTimestamp(a) ELSE from
        /\ collected' = <<>> /\ twice' = {}
        /\ jumped' = IF fromTime' > GetLastStoredTimestamp(a) THEN jumped \cup {a} ELSE jumped

(* A run is started, with flag from or without, up to the time given or    *)
(* the present one.                                                        *)
StartBinance(from, to) ==
    /\ binanceAt = 0
    /\ IF from = 0 /\ to = clock THEN UNCHANGED disturbances ELSE disturbances < MaxDisturbances /\ disturbances' = disturbances + 1
    /\ fromFlag' = from /\ toTime' = to
    /\ BeginBinanceAccount(1, from)
    /\ UNCHANGED <<clock, onBinance, binanceRows, overwritten, refused>>

(* Variant: the start of a window does not belong to it.                   *)
OpenWindow(w, from, to) ==
    /\ onBinance[w].account = BinanceAccounts[binanceAt]
    /\ onBinance[w].at > from /\ onBinance[w].at <= to

InWindow(w, from, to) ==
    /\ onBinance[w].account = BinanceAccounts[binanceAt]
    /\ onBinance[w].at >= from /\ onBinance[w].at <= to

(* One turn of the loop of GetWithdrawHistory.  External: the exchange     *)
(* takes both ends as part of a window, so that windows share a moment.    *)
FetchWindow ==
    /\ binanceAt # 0 /\ fromTime < toTime
    /\ LET end == Min({fromTime + WindowLimit, toTime})
           got == {w \in DOMAIN onBinance : InWindow(w, fromTime, end)}
       IN  /\ collected' = [w \in got \cup DOMAIN collected |-> IF w \in got THEN onBinance[w] ELSE collected[w]]
           /\ twice' = twice \cup (got \cap DOMAIN collected)
           /\ fromTime' = end
    /\ UNCHANGED <<clock, onBinance, binanceRows, binanceAt, fromFlag, toTime>>
    /\ UNCHANGED <<disturbances, binanceHistory>>

(* The rows after UpdateWithdrawHistory: a stored one gets the new data    *)
(* and keeps its account.                                                  *)
Upserted ==
    [w \in DOMAIN binanceRows \cup DOMAIN collected |->
        [account |-> IF w \in DOMAIN binanceRows THEN binanceRows[w].account ELSE BinanceAccounts[binanceAt],
         data |-> IF w \in DOMAIN collected THEN collected[w] ELSE binanceRows[w].data]]

EndBinanceRun ==
    binanceAt' = 0 /\ fromFlag' = 0 /\ fromTime' = 0 /\ toTime' = 0 /\ collected' = <<>> /\ twice' = {}

NextBinanceAccount ==
    IF binanceAt < Len(BinanceAccounts) THEN BeginBinanceAccount(binanceAt + 1, fromFlag) /\ UNCHANGED <<fromFlag, toTime>>
    ELSE EndBinanceRun /\ UNCHANGED jumped

(* One INSERT with all of them.  PostgreSQL refuses one that would update  *)
(* a row twice, and the run ends with the error.                           *)
StoreBinance ==
    /\ binanceAt # 0 /\ fromTime >= toTime
    /\ \/ /\ twice = {}
          /\ binanceRows' = Upserted
          /\ NextBinanceAccount
          /\ UNCHANGED refused
       \/ /\ twice # {}
          /\ EndBinanceRun /\ refused' = TRUE
          /\ UNCHANGED <<binanceRows, jumped>>
    /\ UNCHANGED <<clock, onBinance, disturbances, overwritten>>

(* The process is killed, or the exchange or the database fails.           *)
BinanceStop ==
    /\ binanceAt # 0 /\ disturbances < MaxDisturbances
    /\ disturbances' = disturbances + 1
    /\ EndBinanceRun
    /\ UNCHANGED <<clock, onBinance, binanceRows, binanceHistory>>

(* UpdateWithdrawHistoryWithFee, with the withdrawals of the first account *)
(* as the lines of the file: each line is written to every row with its    *)
(* transaction id, of whatever account, and so the last of the lines that  *)
(* have none to all the rows that have none.                               *)
ImportFees ==
    LET lines == {w \in DOMAIN onBinance : onBinance[w].account = BinanceAccounts[1]}
        For(r, l) == onBinance[l].tx = binanceRows[r].data.tx
    IN  /\ disturbances < MaxDisturbances /\ disturbances' = disturbances + 1
        /\ \E last \in {l \in lines : onBinance[l].tx = NoTx} \cup {0} :
               LET lineOf == [r \in {q \in DOMAIN binanceRows : \E l \in lines : For(q, l)} |->
                                  IF binanceRows[r].data.tx = NoTx THEN last ELSE CHOOSE l \in lines : For(r, l)]
               IN  /\ last = 0 <=> \A l \in lines : onBinance[l].tx # NoTx
                   /\ binanceRows' = [r \in DOMAIN binanceRows |->
                          IF r \in DOMAIN lineOf THEN [binanceRows[r] EXCEPT !.data = onBinance[lineOf[r]]]
                          ELSE binanceRows[r]]
                   /\ overwritten' = overwritten \cup {r \in DOMAIN lineOf : lineOf[r] # r \/ binanceAt # 0}
        /\ UNCHANGED <<clock, onBinance, binanceRunVars, jumped, refused>>

BinanceWorks == FetchWindow \/ StoreBinance

BinanceNext ==
    \/ Tick
    \/ \E a \in BinanceOwners : WithdrawFromBinance(a)
    \/ \E w \in DOMAIN onBinance, s \in Statuses : Progress(w, s)
    \/ \E from \in 0 .. clock, to \in 1 .. clock : StartBinance(from, to)
    \/ BinanceWorks
    \/ BinanceStop
    \/ ImportFees

-----------------------------------------------------------------------------
Withdrawals == [of : 1 .. LastBinanceId, account : BinanceOwners, at : 1 .. LastTime, status : Statuses,
                tx : 1 .. LastBinanceId \cup {NoTx}]

(* Every variable has its type; a row has the account of its withdrawal.   *)
BinanceTypeOK ==
    /\ clock \in 1 .. LastTime /\ toTime \in 0 .. clock /\ fromTime \in 0 .. clock
    /\ \A w \in DOMAIN onBinance : onBinance[w] \in Withdrawals /\ onBinance[w].of = w
    /\ \A w \in DOMAIN binanceRows :
           w \in DOMAIN onBinance /\ binanceRows[w].account = onBinance[w].account /\ binanceRows[w].data \in Withdrawals
    /\ binanceAt \in 0 .. Len(BinanceAccounts)
    /\ DOMAIN collected \subseteq DOMAIN onBinance /\ twice \subseteq DOMAIN collected

(* Nothing was done by hand that moves the resume point of an account.     *)
ByItself(account) == account \notin jumped /\ overwritten = {}

(* No withdrawal before the time from which its account is resumed is      *)
(* missing, wherever a run was stopped.                                    *)
ResumeLeavesNothing ==
    \A w \in DOMAIN onBinance :
        /\ ByItself(onBinance[w].account)
        /\ onBinance[w].at < GetLastStoredTimestamp(onBinance[w].account)
        => w \in DOMAIN binanceRows

(* When the fetch of a turn ends, it has got every row again that is open, *)
(* so that the row gets the present state of its withdrawal.               *)
OpenIsRefreshed ==
    binanceAt # 0 /\ fromTime >= toTime /\ ByItself(BinanceAccounts[binanceAt]) =>
        \A w \in Open(BinanceAccounts[binanceAt]) : onBinance[w].at < toTime => w \in DOMAIN collected

(* A row has the data of another withdrawal only where neither has a       *)
(* transaction: a file with a line that has none.                          *)
OnlyLinesWithoutTxMix ==
    \A w \in DOMAIN binanceRows : binanceRows[w].data.of # w => binanceRows[w].data.tx = NoTx

(* A withdrawal that was made before the last moment is stored, unless the *)
(* statement of a run was refused: the next runs are refused as well then. *)
StoredFromBinance(w) ==
    w \in DOMAIN onBinance /\ onBinance[w].at < LastTime =>
        w \in DOMAIN binanceRows \/ refused \/ ~ByItself(onBinance[w].account)
=============================================================================
