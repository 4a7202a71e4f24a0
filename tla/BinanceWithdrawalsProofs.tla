----------------------- MODULE BinanceWithdrawalsProofs -----------------------
(***************************************************************************)
(* Proofs about the fetcher of Binance withdrawals: whatever was stopped   *)
(* when, nothing before the time from which an account is resumed is       *)
(* missing, what is open is fetched again, and a file mixes rows without a *)
(* transaction only.                                                       *)
(***************************************************************************)
EXTENDS BinanceWithdrawals, DataLemmas

BinanceRow == [account : BinanceOwners, data : Withdrawals]

(* What the exchange has told of a withdrawal by now.                      *)
Told(d) == d \in Withdrawals /\ d.at <= clock /\ (d.tx = NoTx \/ d.tx = d.of)

ExchangeTypes ==
    /\ clock \in 1 .. LastTime
    /\ onBinance \in Seq(Withdrawals) /\ Len(onBinance) <= LastBinanceId
    /\ \A w \in DOMAIN onBinance : Told(onBinance[w]) /\ onBinance[w].of = w

(* A row has the account of its withdrawal, and its data, or those of      *)
(* another one that has no transaction either, from a file.                *)
RowTypes ==
    /\ DOMAIN binanceRows \subseteq DOMAIN onBinance
    /\ \A w \in DOMAIN binanceRows :
          /\ binanceRows[w] \in BinanceRow /\ Told(binanceRows[w].data)
          /\ binanceRows[w].account = onBinance[w].account
          /\ binanceRows[w].data.of = w \/ binanceRows[w].data.tx = NoTx
          /\ overwritten = {} => binanceRows[w].data.at = onBinance[w].at

(* What a run has got is of the account at work and of the range.          *)
RunTypes ==
    /\ binanceAt \in 0 .. Len(BinanceAccounts)
    /\ fromFlag \in 0 .. clock /\ fromTime \in 0 .. clock /\ toTime \in 0 .. clock
    /\ DOMAIN collected \subseteq DOMAIN onBinance /\ twice \subseteq DOMAIN collected
    /\ binanceAt = 0 => DOMAIN collected = {}
    /\ \A w \in DOMAIN collected :
          /\ Told(collected[w]) /\ collected[w].of = w
          /\ onBinance[w].account = BinanceAccounts[binanceAt]
          /\ collected[w].at = onBinance[w].at /\ collected[w].at <= toTime

BinanceTypes == ExchangeTypes /\ RowTypes /\ RunTypes

(* No withdrawal is missing that is older than a stored one.               *)
OlderAreStored ==
    \A w \in DOMAIN onBinance : \A r \in DOMAIN binanceRows :
        /\ ByItself(onBinance[w].account) /\ binanceRows[r].account = onBinance[w].account
        /\ onBinance[w].at < binanceRows[r].data.at
        => w \in DOMAIN binanceRows

(* The run has got, or found stored and not open, what lies before the     *)
(* window that is next.                                                    *)
BinanceTurn ==
    binanceAt # 0 /\ ByItself(BinanceAccounts[binanceAt]) =>
        \A w \in DOMAIN onBinance :
            onBinance[w].account = BinanceAccounts[binanceAt] /\ onBinance[w].at < fromTime =>
                \/ w \in DOMAIN collected
                \/ w \in DOMAIN binanceRows /\ binanceRows[w].data.status # "processing"

BinanceInv == BinanceTypes /\ OlderAreStored /\ BinanceTurn

(* The assumptions in the form the proofs use.                             *)
LEMMA BinanceConstants ==
    /\ WindowLimit \in Nat \ {0} /\ LastTime \in Nat \ {0} /\ LastBinanceId \in Nat
    /\ Len(BinanceAccounts) \in Nat \ {0}
    /\ \A i \in 1 .. Len(BinanceAccounts) : BinanceAccounts[i] \in BinanceOwners
    /\ \A i, j \in 1 .. Len(BinanceAccounts) : BinanceAccounts[i] = BinanceAccounts[j] => i = j
  <1>1. BinanceAccounts \in Seq(BinanceOwners) /\ BinanceAccounts # <<>>
    BY BinanceAssumption DEF BinanceOwners
  <1>2. DOMAIN BinanceAccounts = 1 .. Len(BinanceAccounts) /\ Len(BinanceAccounts) \in Nat
    BY <1>1, LenProperties
  <1>3. Len(BinanceAccounts) # 0
    BY <1>1, EmptySeq
  <1>4. \A i \in 1 .. Len(BinanceAccounts) : BinanceAccounts[i] \in BinanceOwners
    BY <1>1, ElementOfSeq
  <1> QED  BY <1>2, <1>3, <1>4, BinanceAssumption

(* The withdrawals of the exchange are numbered.                           *)
LEMMA BinanceIds ==
    ASSUME ExchangeTypes
    PROVE  /\ DOMAIN onBinance = 1 .. Len(onBinance) /\ Len(onBinance) \in Nat
           /\ \A w \in DOMAIN onBinance : /\ onBinance[w] \in Withdrawals /\ w \in 1 .. LastBinanceId
                                          /\ onBinance[w].at \in Nat \ {0} /\ onBinance[w].at <= clock
           /\ clock \in Nat \ {0}
  <1>1. DOMAIN onBinance = 1 .. Len(onBinance) /\ Len(onBinance) \in Nat
    BY LenProperties DEF ExchangeTypes
  <1>2. clock \in Nat \ {0} /\ Len(onBinance) <= LastBinanceId
    BY BinanceConstants DEF ExchangeTypes
  <1>3. \A w \in DOMAIN onBinance : onBinance[w] \in Withdrawals /\ onBinance[w].at <= clock
    BY DEF ExchangeTypes, Told
  <1>4. \A w \in DOMAIN onBinance : onBinance[w].at \in Nat \ {0}
    BY <1>3, BinanceConstants DEF Withdrawals
  <1>5. \A w \in DOMAIN onBinance : w \in 1 .. LastBinanceId
    BY <1>1, <1>2, BinanceConstants
  <1> QED  BY <1>1, <1>2, <1>3, <1>4, <1>5

(* The time from which an account is resumed is 1 or that of a row, and no *)
(* row that is open is older.                                              *)
LEMMA LastStoredIs ==
    ASSUME ExchangeTypes, RowTypes, NEW a
    PROVE  /\ GetLastStoredTimestamp(a) \in 1 .. clock
           /\ \/ GetLastStoredTimestamp(a) = 1
              \/ \E r \in RowsOf(a) : GetLastStoredTimestamp(a) = binanceRows[r].data.at
           /\ \A w \in Open(a) : GetLastStoredTimestamp(a) <= binanceRows[w].data.at
  <1>1. \A w \in RowsOf(a) : binanceRows[w].data.at \in Nat /\ binanceRows[w].data.at \in 1 .. clock
    <2> SUFFICES ASSUME NEW w \in RowsOf(a)
                 PROVE  binanceRows[w].data.at \in Nat /\ binanceRows[w].data.at \in 1 .. clock
      OBVIOUS
    <2>1. w \in DOMAIN binanceRows
      BY DEF RowsOf
    <2>2. binanceRows[w].data \in Withdrawals /\ binanceRows[w].data.at <= clock
      BY <2>1 DEF RowTypes, Told
    <2> QED  BY <2>2, BinanceConstants, BinanceIds DEF Withdrawals
  <1>2. Open(a) \subseteq RowsOf(a)
    BY DEF Open
  <1>3. clock \in Nat \ {0}
    BY BinanceIds
  <1>4. CASE Open(a) # {}
    <2>1. PICK T : T = TimesOf(Open(a))
      OBVIOUS
    <2>2. T \in SUBSET Nat /\ T # {} /\ \A w \in Open(a) : binanceRows[w].data.at \in T
      BY <1>1, <1>2, <1>4, <2>1 DEF TimesOf
    <2>3. Min(T) \in T /\ \A n \in T : Min(T) <= n
      BY <2>2, MinOfNaturals
    <2>4. GetLastStoredTimestamp(a) = Min(T)
      BY <1>4, <2>1 DEF GetLastStoredTimestamp
    <2>5. PICK r \in Open(a) : Min(T) = binanceRows[r].data.at
      BY <2>1, <2>3 DEF TimesOf
    <2> QED  BY <1>1, <1>2, <2>2, <2>3, <2>4, <2>5
  <1>5. CASE Open(a) = {}
    <2>1. PICK T : T = {1} \cup TimesOf(RowsOf(a))
      OBVIOUS
    <2>2. T \in SUBSET Nat /\ T # {} /\ \A n \in T : n <= clock
      BY <1>1, <1>3, <2>1 DEF TimesOf
    <2>3. Max(T) \in T
      BY <1>3, <2>2, MaxOfNaturals
    <2>4. GetLastStoredTimestamp(a) = Max(T)
      BY <1>5, <2>1 DEF GetLastStoredTimestamp
    <2>5. Max(T) = 1 \/ \E r \in RowsOf(a) : Max(T) = binanceRows[r].data.at
      BY <2>1, <2>3 DEF TimesOf
    <2> QED  BY <1>1, <1>3, <1>5, <2>4, <2>5
  <1> QED  BY <1>4, <1>5

-----------------------------------------------------------------------------
(* A turn begins at a time before which nothing is missing or open.        *)
LEMMA BinanceTurnBegins ==
    ASSUME ExchangeTypes, RowTypes, OlderAreStored, NEW i \in 1 .. Len(BinanceAccounts), NEW from \in 0 .. clock,
           BeginBinanceAccount(i, from), clock' = clock, onBinance' = onBinance, overwritten' = overwritten,
           fromFlag' \in 0 .. clock, toTime' \in 0 .. clock,
           \A w \in DOMAIN onBinance : onBinance[w].account = BinanceAccounts[i] =>
               /\ w \in DOMAIN binanceRows' <=> w \in DOMAIN binanceRows
               /\ w \in DOMAIN binanceRows => binanceRows'[w] = binanceRows[w]
    PROVE  RunTypes' /\ BinanceTurn' /\ jumped \subseteq jumped'
  <1> DEFINE a == BinanceAccounts[i]
  <1>1. /\ binanceAt' = i /\ fromTime' = (IF from = 0 THEN GetLastStoredTimestamp(a) ELSE from)
        /\ collected' = <<>> /\ twice' = {} /\ jumped \subseteq jumped'
        /\ fromTime' > GetLastStoredTimestamp(a) => a \in jumped'
    BY DEF BeginBinanceAccount
  <1>2. DOMAIN collected' = {}
    BY <1>1
  <1>3. GetLastStoredTimestamp(a) \in 1 .. clock /\ clock \in Nat
    BY LastStoredIs, BinanceIds
  <1>4. fromTime' \in 0 .. clock
    BY <1>1, <1>3
  <1>5. RunTypes'
    BY <1>1, <1>2, <1>4 DEF RunTypes
  <1>6. BinanceTurn'
    <2> SUFFICES ASSUME ByItself(a)', NEW w \in DOMAIN onBinance, onBinance[w].account = a,
                        onBinance[w].at < fromTime'
                 PROVE  w \in DOMAIN binanceRows' /\ binanceRows'[w].data.status # "processing"
      BY <1>1 DEF BinanceTurn
    <2>1. a \notin jumped' /\ overwritten = {}
      BY DEF ByItself
    <2>2. ByItself(a) /\ onBinance[w].at < GetLastStoredTimestamp(a) /\ onBinance[w].at \in Nat \ {0}
      BY <1>1, <1>3, <1>4, <2>1, BinanceIds DEF ByItself
    <2>3. PICK r \in RowsOf(a) : GetLastStoredTimestamp(a) = binanceRows[r].data.at
      BY <1>3, <2>2, LastStoredIs
    <2>4. w \in DOMAIN binanceRows
      BY <2>2, <2>3 DEF OlderAreStored, RowsOf
    <2>5. binanceRows[w].account = a /\ binanceRows[w].data.at = onBinance[w].at
      BY <2>1, <2>4 DEF RowTypes
    <2>6. w \notin Open(a)
      BY <1>3, <2>2, <2>5, LastStoredIs
    <2>7. binanceRows[w].data.status # "processing"
      BY <2>4, <2>5, <2>6 DEF Open, RowsOf
    <2> QED  BY <2>4, <2>7
  <1> QED  BY <1>1, <1>5, <1>6

(* A run ends, or is over.                                                 *)
LEMMA BinanceRunEnds ==
    ASSUME ExchangeTypes, EndBinanceRun, clock' = clock
    PROVE  RunTypes' /\ BinanceTurn'
  <1>1. /\ binanceAt' = 0 /\ fromFlag' = 0 /\ fromTime' = 0 /\ toTime' = 0 /\ collected' = <<>> /\ twice' = {}
        /\ clock \in Nat
    BY BinanceIds DEF EndBinanceRun
  <1>2. DOMAIN collected' = {}
    BY <1>1
  <1> QED  BY <1>1, <1>2, BinanceConstants DEF RunTypes, BinanceTurn

(* Nothing changes but the run.                                            *)
LEMMA RowsStay ==
    ASSUME BinanceInv, clock' = clock, onBinance' = onBinance, binanceRows' = binanceRows,
           jumped \subseteq jumped', overwritten' = overwritten
    PROVE  ExchangeTypes' /\ RowTypes' /\ OlderAreStored'
  <1>1. ExchangeTypes'
    BY DEF BinanceInv, BinanceTypes, ExchangeTypes, Told
  <1>2. RowTypes'
    BY DEF BinanceInv, BinanceTypes, RowTypes, Told
  <1>3. OlderAreStored'
    BY DEF BinanceInv, OlderAreStored, ByItself
  <1> QED  BY <1>1, <1>2, <1>3

(* The clock.                                                              *)
LEMMA TickKeeps == ASSUME BinanceInv, Tick PROVE BinanceInv'
  <1>1. /\ clock' = clock + 1 /\ clock' \in 1 .. LastTime /\ clock \in Nat
        /\ onBinance' = onBinance /\ binanceRows' = binanceRows /\ jumped' = jumped /\ overwritten' = overwritten
        /\ binanceAt' = binanceAt /\ fromFlag' = fromFlag /\ fromTime' = fromTime /\ toTime' = toTime
        /\ collected' = collected /\ twice' = twice
    BY BinanceIds, BinanceConstants DEF Tick, binanceRunVars, binanceHistory, BinanceInv, BinanceTypes, ExchangeTypes
  <1>2. \A d : Told(d) => Told(d)'
    BY <1>1, BinanceConstants DEF Told, Withdrawals
  <1>3. ExchangeTypes' /\ RowTypes'
    BY <1>1, <1>2 DEF BinanceInv, BinanceTypes, ExchangeTypes, RowTypes
  <1>4. RunTypes'
    BY <1>1, <1>2 DEF BinanceInv, BinanceTypes, RunTypes
  <1>5. OlderAreStored' /\ BinanceTurn'
    BY <1>1 DEF BinanceInv, OlderAreStored, BinanceTurn, ByItself
  <1> QED  BY <1>3, <1>4, <1>5 DEF BinanceInv, BinanceTypes

(* A withdrawal is made.                                                   *)
LEMMA WithdrawKeeps ==
    ASSUME BinanceInv, NEW a \in BinanceOwners, WithdrawFromBinance(a)
    PROVE  BinanceInv'
  <1> DEFINE n == Len(onBinance)
             new == [of |-> n + 1, account |-> a, at |-> clock, status |-> "email sent", tx |-> NoTx]
  <1>1. /\ n < LastBinanceId /\ onBinance' = Append(onBinance, new)
        /\ clock' = clock /\ binanceRows' = binanceRows /\ jumped' = jumped /\ overwritten' = overwritten
        /\ binanceAt' = binanceAt /\ fromFlag' = fromFlag /\ fromTime' = fromTime /\ toTime' = toTime
        /\ collected' = collected /\ twice' = twice
    BY DEF WithdrawFromBinance, binanceRunVars, binanceHistory
  <1>2. /\ ExchangeTypes /\ RowTypes /\ RunTypes
        /\ n \in Nat /\ DOMAIN onBinance = 1 .. n /\ clock \in Nat /\ clock \in 1 .. LastTime
    BY BinanceIds DEF BinanceInv, BinanceTypes, ExchangeTypes
  <1>3. new \in Withdrawals /\ Told(new)
    <2>1. n + 1 \in 1 .. LastBinanceId
      <3> HIDE DEF new
      <3>1. n < LastBinanceId /\ n \in Nat
        BY <1>1, <1>2
      <3> HIDE DEF n
      <3> QED  BY <3>1, BinanceConstants
    <2>2. "email sent" \in Statuses
      BY DEF Statuses
    <2>3. new \in Withdrawals
      BY <1>2, <2>1, <2>2 DEF Withdrawals
    <2>4. new.at = clock /\ new.tx = NoTx
      OBVIOUS
    <2> HIDE DEF new
    <2> QED  BY <1>2, <2>3, <2>4 DEF Told
  <1>4. /\ onBinance' \in Seq(Withdrawals) /\ Len(onBinance') = n + 1
        /\ \A w \in 1 .. n : onBinance'[w] = onBinance[w]
        /\ onBinance'[n + 1] = new
    <2> HIDE DEF new
    <2> QED  BY <1>1, <1>2, <1>3, AppendProperties DEF ExchangeTypes
  <1>5. DOMAIN onBinance' = 1 .. (n + 1)
    BY <1>4, LenProperties
  <1>6. \A w \in DOMAIN onBinance' : w \in DOMAIN onBinance \/ w = n + 1
    BY <1>2, <1>5
  <1>7. new.of = n + 1 /\ new.at = clock /\ new.account = a
    OBVIOUS
  <1>8. ExchangeTypes'
    <2> HIDE DEF new
    <2>1. \A d : Told(d) => Told(d)'
      BY <1>1 DEF Told
    <2>2. n + 1 <= LastBinanceId
      BY <1>1, <1>2, BinanceConstants
    <2> QED  BY <1>1, <1>2, <1>3, <1>4, <1>6, <1>7, <2>1, <2>2 DEF ExchangeTypes
  <1>9. RowTypes'
    <2> HIDE DEF new
    <2>1. \A w \in DOMAIN binanceRows : onBinance'[w] = onBinance[w] /\ w \in DOMAIN onBinance'
      BY <1>2, <1>4, <1>5 DEF RowTypes
    <2> QED  BY <1>1, <1>2, <2>1 DEF RowTypes, Told
  <1>10. RunTypes'
    <2> HIDE DEF new
    <2>1. \A w \in DOMAIN collected : onBinance'[w] = onBinance[w] /\ w \in DOMAIN onBinance'
      BY <1>2, <1>4, <1>5 DEF RunTypes
    <2> QED  BY <1>1, <1>2, <2>1 DEF RunTypes, Told
  <1>11. OlderAreStored'
    <2> HIDE DEF new
    <2> SUFFICES ASSUME NEW w \in DOMAIN onBinance', NEW r \in DOMAIN binanceRows,
                        ByItself(onBinance[w].account)', binanceRows[r].account = onBinance'[w].account,
                        onBinance'[w].at < binanceRows[r].data.at
                 PROVE  w \in DOMAIN binanceRows
      BY <1>1 DEF OlderAreStored
    <2>1. binanceRows[r].data.at <= clock /\ binanceRows[r].data.at \in Nat
      BY <1>2, BinanceConstants DEF RowTypes, Told, Withdrawals
    <2>2. w # n + 1
      BY <1>2, <1>4, <1>7, <2>1
    <2>3. w \in DOMAIN onBinance /\ onBinance'[w] = onBinance[w]
      BY <1>2, <1>4, <1>6, <2>2
    <2> QED  BY <1>1, <2>3 DEF BinanceInv, OlderAreStored, ByItself
  <1>12. BinanceTurn'
    <2> HIDE DEF new
    <2> SUFFICES ASSUME binanceAt # 0, ByItself(BinanceAccounts[binanceAt])', NEW w \in DOMAIN onBinance',
                        onBinance'[w].account = BinanceAccounts[binanceAt], onBinance'[w].at < fromTime
                 PROVE  \/ w \in DOMAIN collected
                        \/ w \in DOMAIN binanceRows /\ binanceRows[w].data.status # "processing"
      BY <1>1 DEF BinanceTurn
    <2>1. w # n + 1
      BY <1>2, <1>4, <1>7 DEF RunTypes
    <2>2. w \in DOMAIN onBinance /\ onBinance'[w] = onBinance[w]
      BY <1>2, <1>4, <1>6, <2>1
    <2> QED  BY <1>1, <2>2 DEF BinanceInv, BinanceTurn, ByItself
  <1> QED  BY <1>8, <1>9, <1>10, <1>11, <1>12 DEF BinanceInv, BinanceTypes

(* The exchange works on a withdrawal, which keeps its number, account and *)
(* time.                                                                   *)
LEMMA ProgressKeeps ==
    ASSUME BinanceInv, NEW w \in DOMAIN onBinance, NEW s \in Statuses, Progress(w, s)
    PROVE  BinanceInv'
  <1>1. /\ onBinance' = [onBinance EXCEPT ![w].status = s, ![w].tx = IF s = "completed" THEN w ELSE NoTx]
        /\ clock' = clock /\ binanceRows' = binanceRows /\ jumped' = jumped /\ overwritten' = overwritten
        /\ binanceAt' = binanceAt /\ fromFlag' = fromFlag /\ fromTime' = fromTime /\ toTime' = toTime
        /\ collected' = collected /\ twice' = twice
    BY DEF Progress, binanceRunVars, binanceHistory
  <1>2. /\ ExchangeTypes /\ RowTypes /\ RunTypes /\ Len(onBinance) \in Nat
        /\ DOMAIN onBinance = 1 .. Len(onBinance)
        /\ \A v \in DOMAIN onBinance : onBinance[v] \in Withdrawals /\ v \in 1 .. LastBinanceId
    BY BinanceIds DEF BinanceInv, BinanceTypes
  <1> DEFINE new == [onBinance[w] EXCEPT !.status = s, !.tx = IF s = "completed" THEN w ELSE NoTx]
  <1>3. onBinance' = [onBinance EXCEPT ![w] = new]
    BY <1>1
  <1>4. new \in Withdrawals /\ new.of = onBinance[w].of /\ new.account = onBinance[w].account
        /\ new.at = onBinance[w].at /\ new.tx \in {w, NoTx}
    BY <1>2 DEF Withdrawals
  <1> HIDE DEF new
  <1>5. /\ DOMAIN onBinance' = DOMAIN onBinance
        /\ \A v \in DOMAIN onBinance : onBinance'[v] = IF v = w THEN new ELSE onBinance[v]
    BY <1>3
  <1>6. onBinance' \in Seq(Withdrawals) /\ Len(onBinance') = Len(onBinance)
    BY <1>2, <1>3, <1>4, ExceptSeq DEF ExchangeTypes
  <1>7. \A v \in DOMAIN onBinance : /\ onBinance'[v].of = onBinance[v].of
                                    /\ onBinance'[v].account = onBinance[v].account
                                    /\ onBinance'[v].at = onBinance[v].at
                                    /\ Told(onBinance[v])'
    BY <1>1, <1>2, <1>4, <1>5 DEF ExchangeTypes, Told
  <1>8. ExchangeTypes'
    BY <1>1, <1>2, <1>5, <1>6, <1>7 DEF ExchangeTypes
  <1>9. RowTypes'
    BY <1>1, <1>2, <1>5, <1>7 DEF RowTypes, Told
  <1>10. RunTypes'
    BY <1>1, <1>2, <1>5, <1>7 DEF RunTypes, Told
  <1>11. OlderAreStored' /\ BinanceTurn'
    BY <1>1, <1>5, <1>7 DEF BinanceInv, OlderAreStored, BinanceTurn, ByItself
  <1> QED  BY <1>8, <1>9, <1>10, <1>11 DEF BinanceInv, BinanceTypes

(* A run starts with the first account.                                    *)
LEMMA StartBinanceKeeps ==
    ASSUME BinanceInv, NEW from \in 0 .. clock, NEW to \in 1 .. clock, StartBinance(from, to)
    PROVE  BinanceInv'
  <1>1. /\ BeginBinanceAccount(1, from) /\ fromFlag' = from /\ toTime' = to
        /\ clock' = clock /\ onBinance' = onBinance /\ binanceRows' = binanceRows /\ overwritten' = overwritten
        /\ ExchangeTypes /\ RowTypes /\ OlderAreStored
    BY DEF StartBinance, BinanceInv, BinanceTypes
  <1>2. 1 \in 1 .. Len(BinanceAccounts) /\ fromFlag' \in 0 .. clock /\ toTime' \in 0 .. clock
    BY <1>1, BinanceConstants, BinanceIds
  <1>3. RunTypes' /\ BinanceTurn' /\ jumped \subseteq jumped'
    BY <1>1, <1>2, BinanceTurnBegins
  <1>4. ExchangeTypes' /\ RowTypes' /\ OlderAreStored'
    BY <1>1, <1>3, RowsStay
  <1> QED  BY <1>3, <1>4 DEF BinanceInv, BinanceTypes

(* The next window follows the one before and ends within the range.       *)
LEMMA FetchWindowKeeps == ASSUME BinanceInv, FetchWindow PROVE BinanceInv'
  <1> DEFINE end == Min({fromTime + WindowLimit, toTime})
             got == {w \in DOMAIN onBinance : InWindow(w, fromTime, end)}
  <1>1. /\ binanceAt # 0 /\ fromTime < toTime
        /\ collected' = [w \in got \cup DOMAIN collected |-> IF w \in got THEN onBinance[w] ELSE collected[w]]
        /\ twice' = twice \cup (got \cap DOMAIN collected) /\ fromTime' = end
        /\ clock' = clock /\ onBinance' = onBinance /\ binanceRows' = binanceRows
        /\ binanceAt' = binanceAt /\ fromFlag' = fromFlag /\ toTime' = toTime
        /\ jumped' = jumped /\ overwritten' = overwritten
    BY DEF FetchWindow, binanceHistory
  <1>2. /\ ExchangeTypes /\ RowTypes /\ RunTypes /\ BinanceTurn
        /\ fromTime \in Nat /\ toTime \in Nat /\ clock \in Nat /\ toTime <= clock
    BY BinanceIds DEF BinanceInv, BinanceTypes, RunTypes
  <1>3. end \in Nat /\ end <= toTime
    <2>1. {fromTime + WindowLimit, toTime} \in SUBSET Nat
      BY <1>2, BinanceConstants
    <2> QED  BY <2>1, MinOfNaturals
  <1> HIDE DEF end
  <1>4. \A w \in got : /\ w \in DOMAIN onBinance /\ onBinance[w].account = BinanceAccounts[binanceAt]
                       /\ onBinance[w].at <= toTime /\ Told(onBinance[w]) /\ onBinance[w].of = w
    <2> SUFFICES ASSUME NEW w \in got
                 PROVE  /\ w \in DOMAIN onBinance /\ onBinance[w].account = BinanceAccounts[binanceAt]
                        /\ onBinance[w].at <= toTime /\ Told(onBinance[w]) /\ onBinance[w].of = w
      OBVIOUS
    <2>1. w \in DOMAIN onBinance /\ InWindow(w, fromTime, end)
      OBVIOUS
    <2>2. onBinance[w].at \in Nat
      BY <1>2, <2>1, BinanceIds
    <2> QED  BY <1>2, <1>3, <2>1, <2>2 DEF InWindow, ExchangeTypes
  <1>5. \A w \in DOMAIN onBinance : onBinance[w].account = BinanceAccounts[binanceAt] /\ onBinance[w].at < end =>
            w \in got \/ onBinance[w].at < fromTime
    BY <1>2, <1>3, BinanceIds DEF InWindow
  <1> HIDE DEF got
  <1>6. /\ DOMAIN collected' = got \cup DOMAIN collected
        /\ \A w \in DOMAIN collected' : collected'[w] = IF w \in got THEN onBinance[w] ELSE collected[w]
    BY <1>1
  <1>7. RunTypes'
    <2>1. DOMAIN collected' \subseteq DOMAIN onBinance /\ twice' \subseteq DOMAIN collected'
      BY <1>1, <1>2, <1>4, <1>6 DEF RunTypes
    <2>2. fromTime' \in 0 .. clock
      BY <1>1, <1>2, <1>3
    <2>3. \A w \in DOMAIN collected' :
              /\ Told(collected'[w]) /\ collected'[w].of = w
              /\ onBinance[w].account = BinanceAccounts[binanceAt]
              /\ collected'[w].at = onBinance[w].at /\ collected'[w].at <= toTime
      BY <1>2, <1>4, <1>6 DEF RunTypes
    <2>4. \A d : Told(d) => Told(d)'
      BY <1>1 DEF Told
    <2> QED  BY <1>1, <1>2, <2>1, <2>2, <2>3, <2>4 DEF RunTypes
  <1>8. BinanceTurn'
    BY <1>1, <1>2, <1>5, <1>6 DEF BinanceTurn, ByItself
  <1>9. ExchangeTypes' /\ RowTypes' /\ OlderAreStored'
    BY <1>1, RowsStay
  <1> QED  BY <1>7, <1>8, <1>9 DEF BinanceInv, BinanceTypes

(* The rows of the account after a run has stored what it got.             *)
LEMMA UpsertedKeeps ==
    ASSUME BinanceInv, binanceAt # 0, fromTime >= toTime, binanceRows' = Upserted,
           clock' = clock, onBinance' = onBinance, overwritten' = overwritten, jumped \subseteq jumped'
    PROVE  ExchangeTypes' /\ RowTypes' /\ OlderAreStored'
  <1>1. /\ ExchangeTypes /\ RowTypes /\ RunTypes /\ BinanceTurn
        /\ BinanceAccounts[binanceAt] \in BinanceOwners /\ fromTime \in Nat /\ toTime \in Nat
    BY BinanceConstants, BinanceIds DEF BinanceInv, BinanceTypes, RunTypes
  <1>2. /\ DOMAIN binanceRows' = DOMAIN binanceRows \cup DOMAIN collected
        /\ \A w \in DOMAIN binanceRows' : binanceRows'[w] =
              [account |-> IF w \in DOMAIN binanceRows THEN binanceRows[w].account ELSE BinanceAccounts[binanceAt],
               data |-> IF w \in DOMAIN collected THEN collected[w] ELSE binanceRows[w].data]
    BY DEF Upserted
  <1>3. \A w \in DOMAIN binanceRows' :
            /\ binanceRows'[w].account = IF w \in DOMAIN binanceRows THEN binanceRows[w].account
                                         ELSE BinanceAccounts[binanceAt]
            /\ binanceRows'[w].data = IF w \in DOMAIN collected THEN collected[w] ELSE binanceRows[w].data
    <2> SUFFICES ASSUME NEW w \in DOMAIN binanceRows'
                 PROVE  /\ binanceRows'[w].account = IF w \in DOMAIN binanceRows THEN binanceRows[w].account
                                                     ELSE BinanceAccounts[binanceAt]
                        /\ binanceRows'[w].data = IF w \in DOMAIN collected THEN collected[w]
                                                  ELSE binanceRows[w].data
      OBVIOUS
    <2>1. PICK x : x = IF w \in DOMAIN binanceRows THEN binanceRows[w].account ELSE BinanceAccounts[binanceAt]
      OBVIOUS
    <2>2. PICK y : y = IF w \in DOMAIN collected THEN collected[w] ELSE binanceRows[w].data
      OBVIOUS
    <2>3. binanceRows'[w] = [account |-> x, data |-> y]
      BY <1>2, <2>1, <2>2
    <2>4. binanceRows'[w].account = x /\ binanceRows'[w].data = y
      BY <2>3
    <2> QED  BY <2>1, <2>2, <2>4
  <1>4. ExchangeTypes'
    BY <1>1 DEF ExchangeTypes, Told
  <1>5. RowTypes'
    <2> SUFFICES ASSUME NEW w \in DOMAIN binanceRows'
                 PROVE  /\ w \in DOMAIN onBinance
                        /\ binanceRows'[w] \in BinanceRow /\ Told(binanceRows'[w].data)
                        /\ binanceRows'[w].account = onBinance[w].account
                        /\ binanceRows'[w].data.of = w \/ binanceRows'[w].data.tx = NoTx
                        /\ overwritten = {} => binanceRows'[w].data.at = onBinance[w].at
      <3>1. \A w \in DOMAIN binanceRows' : Told(binanceRows'[w].data) => Told(binanceRows[w].data)'
        BY DEF Told
      <3> QED  BY <3>1 DEF RowTypes
    <2>1. /\ w \in DOMAIN onBinance /\ Told(binanceRows'[w].data)
          /\ binanceRows'[w].data.of = w \/ binanceRows'[w].data.tx = NoTx
          /\ overwritten = {} => binanceRows'[w].data.at = onBinance[w].at
      BY <1>1, <1>2, <1>3 DEF RowTypes, RunTypes
    <2>2. binanceRows'[w].account = onBinance[w].account
      BY <1>1, <1>2, <1>3 DEF RowTypes, RunTypes
    <2>3. binanceRows'[w].account \in BinanceOwners
      BY <1>1, <1>3 DEF RowTypes, BinanceRow
    <2>4. binanceRows'[w].data \in Withdrawals
      BY <2>1 DEF Told
    <2>5. binanceRows'[w] \in BinanceRow
      <3>1. \E x, y : binanceRows'[w] = [account |-> x, data |-> y]
        BY <1>2
      <3> QED  BY <2>3, <2>4, <3>1 DEF BinanceRow
    <2> QED  BY <2>1, <2>2, <2>5
  <1>6. OlderAreStored'
    <2> SUFFICES ASSUME NEW w \in DOMAIN onBinance, NEW r \in DOMAIN binanceRows',
                        ByItself(onBinance[w].account)', binanceRows'[r].account = onBinance[w].account,
                        onBinance[w].at < binanceRows'[r].data.at
                 PROVE  w \in DOMAIN binanceRows'
      BY DEF OlderAreStored
    <2>1. ByItself(onBinance[w].account)
      BY DEF ByItself
    <2>2. CASE r \in DOMAIN collected
      <3>1. onBinance[w].account = BinanceAccounts[binanceAt] /\ onBinance[w].at < collected[r].at
            /\ collected[r].at <= toTime
        BY <1>1, <1>3, <2>2 DEF RunTypes, RowTypes
      <3>2. onBinance[w].at \in Nat /\ collected[r].at \in Nat
        BY <1>1, <2>2, BinanceIds DEF RunTypes
      <3>3. onBinance[w].at < fromTime
        BY <1>1, <3>1, <3>2
      <3> QED  BY <1>1, <1>2, <2>1, <3>1, <3>3 DEF BinanceTurn
    <2>3. CASE r \notin DOMAIN collected
      <3>1. r \in DOMAIN binanceRows /\ binanceRows[r].account = onBinance[w].account
            /\ onBinance[w].at < binanceRows[r].data.at
        BY <1>2, <1>3, <2>3
      <3> QED  BY <1>2, <2>1, <3>1 DEF BinanceInv, OlderAreStored
    <2> QED  BY <2>2, <2>3
  <1> QED  BY <1>4, <1>5, <1>6

(* An account is stored, and the next one begins or the run is over.       *)
LEMMA StoreBinanceKeeps == ASSUME BinanceInv, StoreBinance PROVE BinanceInv'
  <1>1. /\ binanceAt # 0 /\ fromTime >= toTime
        /\ clock' = clock /\ onBinance' = onBinance /\ overwritten' = overwritten
        /\ \/ binanceRows' = Upserted /\ NextBinanceAccount
           \/ EndBinanceRun /\ binanceRows' = binanceRows /\ jumped' = jumped
    BY DEF StoreBinance
  <1>2. ExchangeTypes /\ RowTypes /\ RunTypes /\ OlderAreStored
    BY DEF BinanceInv, BinanceTypes
  <1>3. CASE EndBinanceRun /\ binanceRows' = binanceRows /\ jumped' = jumped
    BY <1>1, <1>2, <1>3, RowsStay, BinanceRunEnds DEF BinanceInv, BinanceTypes
  <1>4. CASE binanceRows' = Upserted /\ EndBinanceRun /\ jumped' = jumped
    <2>1. ExchangeTypes' /\ RowTypes' /\ OlderAreStored'
      BY <1>1, <1>4, UpsertedKeeps
    <2>2. RunTypes' /\ BinanceTurn'
      BY <1>1, <1>2, <1>4, BinanceRunEnds
    <2> QED  BY <2>1, <2>2 DEF BinanceInv, BinanceTypes
  <1>5. CASE /\ binanceRows' = Upserted /\ binanceAt < Len(BinanceAccounts)
             /\ BeginBinanceAccount(binanceAt + 1, fromFlag) /\ fromFlag' = fromFlag /\ toTime' = toTime
    <2>1. binanceAt + 1 \in 1 .. Len(BinanceAccounts) /\ binanceAt \in 1 .. Len(BinanceAccounts)
          /\ binanceAt \in Nat
      BY <1>1, <1>2, <1>5, BinanceConstants DEF RunTypes
    <2>2. BinanceAccounts[binanceAt] # BinanceAccounts[binanceAt + 1]
      BY <2>1, BinanceConstants
    <2>3. ASSUME NEW w \in DOMAIN onBinance, onBinance[w].account = BinanceAccounts[binanceAt + 1]
          PROVE  /\ w \in DOMAIN binanceRows' <=> w \in DOMAIN binanceRows
                 /\ w \in DOMAIN binanceRows => binanceRows'[w] = binanceRows[w]
      <3>1. w \notin DOMAIN collected
        BY <1>2, <2>2, <2>3 DEF RunTypes
      <3>2. w \in DOMAIN binanceRows' <=> w \in DOMAIN binanceRows
        BY <1>5, <3>1 DEF Upserted
      <3>3. CASE w \in DOMAIN binanceRows
        <4>1. binanceRows'[w] = [account |-> binanceRows[w].account, data |-> binanceRows[w].data]
          BY <1>5, <3>1, <3>3 DEF Upserted
        <4> QED  BY <1>2, <3>2, <3>3, <4>1 DEF RowTypes, BinanceRow
      <3>4. CASE w \notin DOMAIN binanceRows
        BY <3>2, <3>4
      <3> QED  BY <3>2, <3>3, <3>4
    <2>4. fromFlag \in 0 .. clock /\ toTime \in 0 .. clock
      BY <1>2 DEF RunTypes
    <2>5. RunTypes' /\ BinanceTurn' /\ jumped \subseteq jumped'
      BY <1>1, <1>2, <1>5, <2>1, <2>3, <2>4, BinanceTurnBegins
    <2>6. ExchangeTypes' /\ RowTypes' /\ OlderAreStored'
      BY <1>1, <1>5, <2>5, UpsertedKeeps
    <2> QED  BY <2>5, <2>6 DEF BinanceInv, BinanceTypes
  <1> QED  BY <1>1, <1>3, <1>4, <1>5 DEF NextBinanceAccount

(* A run is stopped.                                                       *)
LEMMA BinanceStopKeeps == ASSUME BinanceInv, BinanceStop PROVE BinanceInv'
  <1>1. /\ EndBinanceRun /\ clock' = clock /\ onBinance' = onBinance /\ binanceRows' = binanceRows
        /\ jumped' = jumped /\ overwritten' = overwritten /\ ExchangeTypes
    BY DEF BinanceStop, binanceHistory, BinanceInv, BinanceTypes
  <1>2. RunTypes' /\ BinanceTurn'
    BY <1>1, BinanceRunEnds
  <1>3. ExchangeTypes' /\ RowTypes' /\ OlderAreStored'
    BY <1>1, RowsStay
  <1> QED  BY <1>2, <1>3 DEF BinanceInv, BinanceTypes

(* A line of a file has the transaction of the row that it is written to;  *)
(* a row that has one gets the data of its own withdrawal.                 *)
LEMMA ImportFeesKeeps == ASSUME BinanceInv, ImportFees PROVE BinanceInv'
  <1> DEFINE lines == {w \in DOMAIN onBinance : onBinance[w].account = BinanceAccounts[1]}
             For(r, l) == onBinance[l].tx = binanceRows[r].data.tx
             Hit == {q \in DOMAIN binanceRows : \E l \in lines : For(q, l)}
             Line(last, r) == IF binanceRows[r].data.tx = NoTx THEN last ELSE CHOOSE l \in lines : For(r, l)
  <1>1. PICK last \in {l \in lines : onBinance[l].tx = NoTx} \cup {0} :
            /\ last = 0 <=> \A l \in lines : onBinance[l].tx # NoTx
            /\ binanceRows' = [r \in DOMAIN binanceRows |->
                   IF r \in DOMAIN [q \in Hit |-> Line(last, q)]
                   THEN [binanceRows[r] EXCEPT !.data = onBinance[[q \in Hit |-> Line(last, q)][r]]]
                   ELSE binanceRows[r]]
            /\ overwritten' = overwritten \cup {r \in DOMAIN [q \in Hit |-> Line(last, q)] :
                   [q \in Hit |-> Line(last, q)][r] # r \/ binanceAt # 0}
    BY DEF ImportFees
  <1>2. /\ clock' = clock /\ onBinance' = onBinance /\ jumped' = jumped
        /\ binanceAt' = binanceAt /\ fromFlag' = fromFlag /\ fromTime' = fromTime /\ toTime' = toTime
        /\ collected' = collected /\ twice' = twice
    BY DEF ImportFees, binanceRunVars
  <1>3. ExchangeTypes /\ RowTypes /\ RunTypes /\ 0 \notin DOMAIN onBinance
    BY BinanceIds DEF BinanceInv, BinanceTypes
  <1>4. PICK line : line = [r \in Hit |-> Line(last, r)]
    OBVIOUS
  <1>5. /\ DOMAIN binanceRows' = DOMAIN binanceRows
        /\ \A r \in Hit : binanceRows'[r] = [binanceRows[r] EXCEPT !.data = onBinance[line[r]]]
        /\ \A r \in DOMAIN binanceRows \ Hit : binanceRows'[r] = binanceRows[r]
        /\ overwritten' = overwritten \cup {r \in Hit : line[r] # r \/ binanceAt # 0}
    BY <1>1, <1>4
  <1>6. ASSUME NEW r \in Hit
        PROVE  /\ line[r] \in lines
               /\ line[r] = r \/ onBinance[line[r]].tx = NoTx
    <2>1. r \in DOMAIN binanceRows /\ \E l \in lines : For(r, l)
      OBVIOUS
    <2>2. CASE binanceRows[r].data.tx = NoTx
      <3>1. line[r] = last /\ last # 0
        BY <1>1, <1>4, <2>1, <2>2
      <3> QED  BY <1>1, <3>1
    <2>3. CASE binanceRows[r].data.tx # NoTx
      <3>1. line[r] = CHOOSE l \in lines : For(r, l)
        BY <1>4, <2>3
      <3>2. line[r] \in lines /\ For(r, line[r])
        BY <2>1, <3>1
      <3>3. binanceRows[r].data.of = r /\ binanceRows[r].data.tx = r
        BY <1>3, <2>1, <2>3 DEF RowTypes, Told
      <3>4. onBinance[line[r]].tx = line[r]
        BY <1>3, <2>3, <3>2 DEF ExchangeTypes, Told
      <3> QED  BY <3>2, <3>3, <3>4
    <2> QED  BY <2>2, <2>3
  <1>7. \A r \in DOMAIN binanceRows : overwritten' = {} => binanceRows'[r].data.at = onBinance[r].at
    <2> SUFFICES ASSUME NEW r \in DOMAIN binanceRows, overwritten' = {}
                 PROVE  binanceRows'[r].data.at = onBinance[r].at
      OBVIOUS
    <2>1. overwritten = {}
      BY <1>5
    <2>2. CASE r \in Hit
      <3>1. line[r] = r
        BY <1>5, <2>2
      <3>2. binanceRows'[r] = [binanceRows[r] EXCEPT !.data = onBinance[r]] /\ binanceRows[r] \in BinanceRow
        BY <1>3, <1>5, <2>2, <3>1 DEF RowTypes
      <3> QED  BY <3>2 DEF BinanceRow
    <2>3. CASE r \notin Hit
      BY <1>3, <1>5, <2>1, <2>3 DEF RowTypes
    <2> QED  BY <2>2, <2>3
  <1>8. \A r \in DOMAIN binanceRows :
            /\ binanceRows'[r] \in BinanceRow /\ binanceRows'[r].account = binanceRows[r].account
            /\ Told(binanceRows'[r].data)
            /\ binanceRows'[r].data.of = r \/ binanceRows'[r].data.tx = NoTx
    <2> SUFFICES ASSUME NEW r \in DOMAIN binanceRows
                 PROVE  /\ binanceRows'[r] \in BinanceRow /\ binanceRows'[r].account = binanceRows[r].account
                        /\ Told(binanceRows'[r].data)
                        /\ binanceRows'[r].data.of = r \/ binanceRows'[r].data.tx = NoTx
      OBVIOUS
    <2>1. CASE r \in Hit
      <3>1. PICK d : d = onBinance[line[r]]
        OBVIOUS
      <3>2. Told(d) /\ d \in Withdrawals /\ (d.of = r \/ d.tx = NoTx)
        BY <1>3, <1>6, <2>1, <3>1 DEF ExchangeTypes, Told
      <3>3. binanceRows'[r] = [binanceRows[r] EXCEPT !.data = d] /\ binanceRows[r] \in BinanceRow
        BY <1>3, <1>5, <2>1, <3>1 DEF RowTypes
      <3>4. /\ binanceRows'[r] \in BinanceRow /\ binanceRows'[r].account = binanceRows[r].account
            /\ binanceRows'[r].data = d
        BY <3>2, <3>3 DEF BinanceRow
      <3> QED  BY <3>2, <3>4
    <2>2. CASE r \notin Hit
      BY <1>3, <1>5, <2>2 DEF RowTypes
    <2> QED  BY <2>1, <2>2
  <1> HIDE DEF lines, Hit
  <1>9. ExchangeTypes' /\ RunTypes'
    BY <1>2, <1>3 DEF ExchangeTypes, RunTypes, Told
  <1>10. RowTypes'
    <2>1. \A r \in DOMAIN binanceRows : Told(binanceRows'[r].data) => Told(binanceRows[r].data)'
      BY <1>2 DEF Told
    <2> QED  BY <1>2, <1>3, <1>5, <1>7, <1>8, <2>1 DEF RowTypes
  <1>11. overwritten' = {} => \A r \in DOMAIN binanceRows :
             binanceRows'[r].data.at = binanceRows[r].data.at /\ overwritten = {}
    BY <1>3, <1>5, <1>7 DEF RowTypes
  <1>12. overwritten' = {} /\ binanceAt # 0 => \A r \in DOMAIN binanceRows : binanceRows'[r] = binanceRows[r]
    BY <1>5
  <1>13. OlderAreStored'
    BY <1>2, <1>5, <1>8, <1>11 DEF BinanceInv, OlderAreStored, ByItself
  <1>14. BinanceTurn'
    <2> SUFFICES ASSUME binanceAt # 0, ByItself(BinanceAccounts[binanceAt])', NEW w \in DOMAIN onBinance,
                        onBinance[w].account = BinanceAccounts[binanceAt], onBinance[w].at < fromTime
                 PROVE  \/ w \in DOMAIN collected
                        \/ w \in DOMAIN binanceRows /\ binanceRows'[w].data.status # "processing"
      BY <1>2, <1>5 DEF BinanceTurn
    <2>1. overwritten' = {} /\ ByItself(BinanceAccounts[binanceAt])
      BY <1>2, <1>5 DEF ByItself
    <2> QED  BY <1>12, <2>1 DEF BinanceInv, BinanceTurn
  <1> QED  BY <1>9, <1>10, <1>13, <1>14 DEF BinanceInv, BinanceTypes

(* The fetcher begins with an empty table.                                 *)
LEMMA BinanceStarts == BinanceInit => BinanceInv
  <1> SUFFICES ASSUME BinanceInit
               PROVE  BinanceInv
    OBVIOUS
  <1>1. /\ clock = 1 /\ onBinance = <<>> /\ binanceRows = <<>> /\ binanceAt = 0 /\ fromFlag = 0
        /\ fromTime = 0 /\ toTime = 0 /\ collected = <<>> /\ twice = {} /\ overwritten = {}
    BY DEF BinanceInit
  <1>2. DOMAIN onBinance = {} /\ DOMAIN binanceRows = {} /\ DOMAIN collected = {}
    BY <1>1
  <1>3. onBinance \in Seq(Withdrawals) /\ Len(onBinance) = 0
    BY <1>1, EmptySeq
  <1>4. ExchangeTypes /\ RowTypes
    BY <1>1, <1>2, <1>3, BinanceConstants DEF ExchangeTypes, RowTypes
  <1>5. RunTypes
    BY <1>1, <1>2, BinanceConstants DEF RunTypes
  <1>6. OlderAreStored /\ BinanceTurn
    BY <1>1, <1>2 DEF OlderAreStored, BinanceTurn
  <1> QED  BY <1>4, <1>5, <1>6 DEF BinanceInv, BinanceTypes

(* Every step keeps the invariant.                                         *)
LEMMA BinanceSteps == BinanceInv /\ [BinanceNext]_binanceVars => BinanceInv'
  <1> SUFFICES ASSUME BinanceInv, [BinanceNext]_binanceVars
               PROVE  BinanceInv'
    OBVIOUS
  <1>1. CASE UNCHANGED binanceVars
    <2>1. /\ clock' = clock /\ onBinance' = onBinance /\ binanceRows' = binanceRows /\ jumped' = jumped
          /\ overwritten' = overwritten /\ binanceAt' = binanceAt /\ fromFlag' = fromFlag
          /\ fromTime' = fromTime /\ toTime' = toTime /\ collected' = collected /\ twice' = twice
      BY <1>1 DEF binanceVars, binanceRunVars, binanceHistory
    <2>2. ExchangeTypes' /\ RowTypes' /\ OlderAreStored'
      BY <2>1, RowsStay
    <2>3. RunTypes' /\ BinanceTurn'
      BY <2>1 DEF BinanceInv, BinanceTypes, RunTypes, BinanceTurn, ByItself, Told
    <2> QED  BY <2>2, <2>3 DEF BinanceInv, BinanceTypes
  <1>2. CASE Tick
    BY <1>2, TickKeeps
  <1>3. CASE \E a \in BinanceOwners : WithdrawFromBinance(a)
    BY <1>3, WithdrawKeeps
  <1>4. CASE \E w \in DOMAIN onBinance, s \in Statuses : Progress(w, s)
    BY <1>4, ProgressKeeps
  <1>5. CASE \E from \in 0 .. clock, to \in 1 .. clock : StartBinance(from, to)
    BY <1>5, StartBinanceKeeps
  <1>6. CASE FetchWindow
    BY <1>6, FetchWindowKeeps
  <1>7. CASE StoreBinance
    BY <1>7, StoreBinanceKeeps
  <1>8. CASE BinanceStop
    BY <1>8, BinanceStopKeeps
  <1>9. CASE ImportFees
    BY <1>9, ImportFeesKeeps
  <1> QED  BY <1>1, <1>2, <1>3, <1>4, <1>5, <1>6, <1>7, <1>8, <1>9 DEF BinanceNext, BinanceWorks

-----------------------------------------------------------------------------
(* What the invariant says of the fetcher: its types; nothing is missing   *)
(* before the time from which an account is resumed; what is open is       *)
(* fetched again; files mix rows without a transaction only.               *)
LEMMA BinanceInvImplies ==
    BinanceInv => BinanceTypeOK /\ ResumeLeavesNothing /\ OpenIsRefreshed /\ OnlyLinesWithoutTxMix
  <1> SUFFICES ASSUME BinanceInv
               PROVE  BinanceTypeOK /\ ResumeLeavesNothing /\ OpenIsRefreshed /\ OnlyLinesWithoutTxMix
    OBVIOUS
  <1>1. ExchangeTypes /\ RowTypes /\ RunTypes /\ OlderAreStored /\ BinanceTurn
    BY DEF BinanceInv, BinanceTypes
  <1>2. BinanceTypeOK
    BY <1>1 DEF BinanceTypeOK, ExchangeTypes, RowTypes, RunTypes, Told
  <1>3. ResumeLeavesNothing
    <2> SUFFICES ASSUME NEW w \in DOMAIN onBinance, ByItself(onBinance[w].account),
                        onBinance[w].at < GetLastStoredTimestamp(onBinance[w].account)
                 PROVE  w \in DOMAIN binanceRows
      BY DEF ResumeLeavesNothing
    <2>1. onBinance[w].at \in Nat \ {0}
      BY <1>1, BinanceIds
    <2>2. PICK r \in RowsOf(onBinance[w].account) :
              GetLastStoredTimestamp(onBinance[w].account) = binanceRows[r].data.at
      BY <1>1, <2>1, LastStoredIs
    <2> QED  BY <1>1, <2>2 DEF OlderAreStored, RowsOf
  <1>4. OpenIsRefreshed
    <2> SUFFICES ASSUME binanceAt # 0, fromTime >= toTime, ByItself(BinanceAccounts[binanceAt]),
                        NEW w \in Open(BinanceAccounts[binanceAt]), onBinance[w].at < toTime
                 PROVE  w \in DOMAIN collected
      BY DEF OpenIsRefreshed
    <2>1. /\ w \in DOMAIN binanceRows /\ binanceRows[w].account = BinanceAccounts[binanceAt]
          /\ binanceRows[w].data.status = "processing"
      BY DEF Open, RowsOf
    <2>2. w \in DOMAIN onBinance /\ onBinance[w].account = BinanceAccounts[binanceAt]
      BY <1>1, <2>1 DEF RowTypes
    <2>3. onBinance[w].at < fromTime
      BY <1>1, <2>2, BinanceIds DEF RunTypes
    <2> QED  BY <1>1, <2>1, <2>2, <2>3 DEF BinanceTurn
  <1>5. OnlyLinesWithoutTxMix
    BY <1>1 DEF RowTypes, OnlyLinesWithoutTxMix
  <1> QED  BY <1>2, <1>3, <1>4, <1>5
===============================================================================
