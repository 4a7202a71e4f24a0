--------------------------- MODULE TradeLogReports ---------------------------
(***************************************************************************)
(* What the API of trade logs reads from PostgreSQL: trade logs put        *)
(* together again from the rows of a join, and reports that add up trades  *)
(* by day, while the crawler goes on storing.  Reports of two queries read *)
(* the table twice, without a transaction.                                 *)
(***************************************************************************)
EXTENDS Integers, FiniteSets, FiniteSetsExt, SequencesExt

CONSTANTS
    Sales,       \* the trades that occur: a record for each
    DayHours,    \* the hours of a day
    LastSaleHour,
    MaxSales,    \* bound on the rows
    Zones,       \* time zones
    Questions,   \* the reports asked for while trades are stored: [by, of, from, to, zone]
    NoCountry    \* NULL

ASSUME ReportsAssumption ==
    /\ DayHours \in Nat \ {0} /\ LastSaleHour \in Nat /\ MaxSales \in Nat /\ Zones \subseteq Int
    /\ \A s \in Sales : /\ {"user", "eth", "fees", "splits", "hour", "first"} \subseteq DOMAIN s
                         /\ s.eth \in Nat /\ s.fees \in Nat /\ s.splits \in Nat \ {0}
    /\ \A q \in Questions : q.zone \in Zones

VARIABLES
    sales,       \* table tradelogs, with its rows of fee and split
    question,    \* the report at work: [asked, counts], after its first query
    report       \* the last one answered: [by, days], days a function of counts and volumes

reportVars == <<sales, question, report>>

NoQuestion == [by |-> "none", of |-> NoCountry, from |-> 0, to |-> 0, zone |-> 0]

ReportsInit ==
    /\ sales = <<>>
    /\ question = [asked |-> NoQuestion, counts |-> <<>>]
    /\ report = [by |-> "none", days |-> <<>>]

Asking == question.asked # NoQuestion

-----------------------------------------------------------------------------
(* Days.                                                                   *)

(* BuildDateTruncField: the start of the day of a row, by the database.    *)
DateTrunc(h, zone) == ((h + zone) \div DayHours) * DayHours - zone

(* Variant: the time zone is forgotten.                                    *)
RoundTimeUTC(t, zone) == (t \div DayHours) * DayHours

(* RoundTime: midnight in the time zone, by the program.                   *)
RoundTime(t, zone) == t - ((t + zone) % DayHours)

(* The rows of the days from `from` to `to`, both of them whole.           *)
RowsOfDays(from, to, zone) ==
    {k \in DOMAIN sales : RoundTime(from, zone) <= sales[k].hour /\ sales[k].hour < RoundTime(to, zone) + DayHours}

Days(rows, zone) == {DateTrunc(sales[k].hour, zone) : k \in rows}
OnDay(rows, day, zone) == {k \in rows : DateTrunc(sales[k].hour, zone) = day}

Eth(rows) == MapThenSumSet(LAMBDA k : sales[k].eth, rows)

-----------------------------------------------------------------------------
(* Reports of two queries.                                                 *)

RowsAbout(by, of, rows) ==
    {k \in rows : by = "all" \/ (by = "wallet" /\ sales[k].wallet = of) \/ (by = "country" /\ sales[k].country = of)}

(* A row appears once for each of its fees in the report of a country, by  *)
(* LEFT JOIN fee.                                                          *)
Repeated(by, k) == IF by = "country" THEN Max({1, sales[k].fees}) ELSE 1

CountsOf(by, rows) ==
    [unique |-> Cardinality({sales[k].user : k \in rows}),
     kyced |-> MapThenSumSet(LAMBDA k : Repeated(by, k), {k \in rows : sales[k].kyced}),
     new |-> MapThenSumSet(LAMBDA k : Repeated(by, k), {k \in rows : sales[k].first})]

VolumesOf(rows) == [total |-> Cardinality(rows), eth |-> Eth(rows)]

Counts(q) ==
    LET rows == RowsAbout(q.by, q.of, RowsOfDays(q.from, q.to, q.zone))
    IN  [d \in Days(rows, q.zone) |-> CountsOf(q.by, OnDay(rows, d, q.zone))]

(* Variant: the second query does not round the range.                     *)
VolumesOfRange(q) ==
    LET rows == RowsAbout(q.by, q.of, {k \in DOMAIN sales : q.from <= sales[k].hour /\ sales[k].hour <= q.to})
    IN  [d \in Days(rows, q.zone) |-> VolumesOf(OnDay(rows, d, q.zone))]

Volumes(q) ==
    LET rows == RowsAbout(q.by, q.of, RowsOfDays(q.from, q.to, q.zone))
    IN  [d \in Days(rows, q.zone) |-> VolumesOf(OnDay(rows, d, q.zone))]

-----------------------------------------------------------------------------
(* Reports of one query.                                                   *)

(* GetUserVolume, GetUserList.                                             *)
UserVolume(user, day, zone) ==
    Eth({k \in OnDay(DOMAIN sales, day, zone) : sales[k].user = user})

(* Variant: UNION instead of UNION ALL: what is the same twice counts once. *)
AssetVolumeUnion(token, rows) ==
    LET sides == {<<sales[k].hour, sales[k].eth>> : k \in {j \in rows : token \in {sales[j].src, sales[j].dst}}}
    IN  FoldSet(LAMBDA s, total : total + s[2], 0, sides)

(* GetAssetVolume: the trades with a token on one side, and those on the   *)
(* other one.                                                              *)
AssetVolume(token, rows) ==
    Eth({k \in rows : sales[k].src = token}) + Eth({k \in rows : sales[k].dst = token})

(* GetTokenHeatmap: the same by country, where there is one.               *)
Heatmap(token, rows) ==
    [c \in {sales[k].country : k \in {j \in rows : token \in {sales[j].src, sales[j].dst}}} \ {NoCountry} |->
        AssetVolume(token, {k \in rows : sales[k].country = c})]

(* GetIntegrationVolume.                                                   *)
IntegrationVolume(rows) ==
    [integration |-> Eth({k \in rows : sales[k].app = "KyberSwap"}),
     others |-> Eth({k \in rows : sales[k].app # "KyberSwap"})]

(* GetStats: the rows of trades, each joined with its fees and its splits. *)
StatsRows(from, to) ==
    UNION {{<<k, f, s>> : f \in 1 .. Max({1, sales[k].fees}), s \in 1 .. sales[k].splits} :
           k \in {j \in DOMAIN sales : from <= sales[j].hour /\ sales[j].hour <= to}}

(* Variant: COUNT without DISTINCT.                                        *)
StatsCountingRows(from, to) ==
    LET rows == StatsRows(from, to)
    IN  [trades |-> Cardinality(rows), unique |-> Cardinality({sales[r[1]].user : r \in rows}),
         new |-> Cardinality({r \in rows : sales[r[1]].first})]

Stats(from, to) ==
    LET rows == StatsRows(from, to)
    IN  [trades |-> Cardinality({r[1] : r \in rows}), unique |-> Cardinality({sales[r[1]].user : r \in rows}),
         new |-> Cardinality({r \in rows : sales[r[1]].first})]

-----------------------------------------------------------------------------
(* LoadTradeLogs.                                                          *)

(* ARRAY_AGG: a pair of a fee and a split in each row, in some order that  *)
(* makes no difference; 0 if there is no fee.                              *)
JoinedRows(k) ==
    LET fees == IF sales[k].fees = 0 THEN <<0>> ELSE [f \in 1 .. sales[k].fees |-> f]
    IN  FlattenSeq([s \in 1 .. sales[k].splits |-> [f \in DOMAIN fees |-> [fee |-> fees[f], split |-> s]]])

(* Variant: every row of the join is taken for a fee.                      *)
EachIndex(indices) == SelectSeq(indices, LAMBDA i : i # 0)

(* tradeLogFromDBData: the first row of each index; ARRAY_REMOVE has taken *)
(* away those without one.                                                 *)
FirstOfEachIndex(indices) ==
    FoldLeft(LAMBDA kept, i : IF i = 0 \/ Contains(kept, i) THEN kept ELSE Append(kept, i), <<>>, indices)

TradeLogFromDBData(k) ==
    LET rows == JoinedRows(k)
    IN  [fees |-> FirstOfEachIndex([i \in DOMAIN rows |-> rows[i].fee]),
         splits |-> FirstOfEachIndex([i \in DOMAIN rows |-> rows[i].split])]

-----------------------------------------------------------------------------
(* The crawler and the reports.                                            *)

(* SaveTradeLogs; the first trade of a user is marked.                     *)
StoreSale(s, hour) ==
    /\ Len(sales) < MaxSales
    /\ sales' = Append(sales, [s EXCEPT !.hour = hour, !.first = \A k \in DOMAIN sales : sales[k].user # s.user])
    /\ UNCHANGED <<question, report>>

(* GetTradeSummary, GetWalletStats, GetCountryStats: the first query; with *)
(* no row it is the only one.                                              *)
AskCounts(q) ==
    /\ ~Asking
    /\ IF Counts(q) = <<>>
       THEN /\ report' = [by |-> q.by, days |-> <<>>]
            /\ UNCHANGED question
       ELSE /\ question' = [asked |-> q, counts |-> Counts(q)]
            /\ UNCHANGED report
    /\ UNCHANGED sales

(* The second one fills in the volumes of the days that the first gave.    *)
AskVolumes ==
    /\ Asking
    /\ LET volumes == Volumes(question.asked)
           none == [total |-> 0, eth |-> 0]
       IN  report' = [by |-> question.asked.by,
                      days |-> [d \in DOMAIN question.counts |->
                          [counts |-> question.counts[d], volumes |-> IF d \in DOMAIN volumes THEN volumes[d] ELSE none]]]
    /\ question' = [asked |-> NoQuestion, counts |-> <<>>]
    /\ UNCHANGED sales

LastSale == IF sales = <<>> THEN 0 ELSE Last(sales).hour

ReportsNext ==
    \/ \E s \in Sales, hour \in LastSale .. LastSaleHour : StoreSale(s, hour)
    \/ \E q \in Questions : AskCounts(q)
    \/ AskVolumes

-----------------------------------------------------------------------------
ReportsTypeOK ==
    /\ Len(sales) <= MaxSales /\ \A k \in DOMAIN sales : sales[k].hour \in 0 .. LastSaleHour
    /\ question.asked \in Questions \cup {NoQuestion}
    /\ DOMAIN question.counts \cup DOMAIN report.days \subseteq Int

(* The buckets that the database makes of rows and the range that the      *)
(* program selects agree: in each time zone, a report has all rows of the  *)
(* hours asked for, and each of its days has all rows of that day.         *)
DaysAreWhole ==
    \A zone \in Zones, from, to \in 0 .. LastSaleHour :
        LET rows == RowsOfDays(from, to, zone)
        IN  /\ {k \in DOMAIN sales : sales[k].hour \in from .. to} \subseteq rows
            /\ from <= to => \A d \in Days(rows, zone) :
                   OnDay(rows, d, zone) = {k \in DOMAIN sales : sales[k].hour \in d .. (d + DayHours - 1)}

(* On each day the reports agree: each trade counts for both its tokens,   *)
(* for one country or none, for one user, for KyberSwap or not; and the    *)
(* joins of GetStats do not multiply trades and users.                     *)
ReportsAgree ==
    \A day \in Days(DOMAIN sales, 0) :
        LET rows == OnDay(DOMAIN sales, day, 0)
            tokens == {sales[k].src : k \in rows} \cup {sales[k].dst : k \in rows}
            users == {sales[k].user : k \in rows}
            volume == IntegrationVolume(rows)
            stats == Stats(day, day + DayHours - 1)
        IN  /\ MapThenSumSet(LAMBDA t : AssetVolume(t, rows), tokens) = 2 * Eth(rows)
            /\ \A t \in tokens : LET map == Heatmap(t, rows)
                  IN  MapThenSumSet(LAMBDA c : map[c], DOMAIN map)
                        + AssetVolume(t, {k \in rows : sales[k].country = NoCountry}) = AssetVolume(t, rows)
            /\ MapThenSumSet(LAMBDA u : UserVolume(u, day, 0), users) = Eth(rows)
            /\ volume.integration + volume.others = Eth(rows)
            /\ stats.trades = Cardinality(rows) /\ stats.unique = Cardinality(users)
            /\ stats.new >= Cardinality({k \in rows : sales[k].first})

(* A report of two queries, with trades stored between them: a day has as  *)
(* many trades as users at least, and so many users as users without an    *)
(* earlier trade, unless the join with fees has repeated them.             *)
AnswersAreSound ==
    \A d \in DOMAIN report.days :
        LET counts == report.days[d].counts
            volumes == report.days[d].volumes
        IN  /\ counts.unique <= volumes.total
            /\ report.by # "country" => counts.new <= counts.unique /\ counts.kyced <= volumes.total

(* A trade log has each of its fees and of its splits once, however many   *)
(* pairs of them the join returns.                                         *)
TradesAreReadBack ==
    \A k \in DOMAIN sales :
        LET log == TradeLogFromDBData(k)
        IN  /\ IsInjective(log.fees) /\ ToSet(log.fees) = 1 .. sales[k].fees
            /\ IsInjective(log.splits) /\ ToSet(log.splits) = 1 .. sales[k].splits
=============================================================================
