----------------------------- MODULE HuobiTrades -----------------------------
(***************************************************************************)
(* accounting-huobi-trade-fetcher, for one of its accounts: the orders of  *)
(* a range of time are fetched batch by batch, in a goroutine per symbol,  *)
(* from the creation time of the newest one that is stored.                *)
(***************************************************************************)
EXTENDS Naturals, Sequences, FiniteSetsExt

CONSTANTS
    Symbols,
    OrdersPageSize,  \* the most orders of an answer
    BatchDuration,   \* flag
    LastHour,        \* bound on the time, whose first hour is 90 days ago
    LastOrder,       \* bound: the orders made on the exchange
    MaxOrderStops    \* bound on the kills, failures and runs with flags

ASSUME OrdersAssumption ==
    /\ OrdersPageSize \in Nat \ {0} /\ BatchDuration \in Nat \ {0}
    /\ LastHour \in Nat \ {0} /\ LastOrder \in Nat /\ MaxOrderStops \in Nat

VARIABLES
    hour,
    orders,          \* of the exchange, by creation: [symbol, at, filled]
    orderRows,       \* table huobi_trades
    startTime, next, \* the batch at work, 0 when no run is at work
    toHour,
    reading,         \* the goroutines at work: symbol |-> [from, last]
    listed,          \* what they have got
    orderStops,
    cut,             \* history: orders an answer had no room for
    late,            \* history: orders that were not filled when they were asked for
    skipped          \* history: a run was started by hand from beyond its resume point

ordersRun == <<startTime, next, toHour, reading, listed>>
ordersHistory == <<cut, late, skipped>>
orderVars == <<hour, orders, orderRows, ordersRun, orderStops, ordersHistory>>

OrdersInit ==
    /\ hour = 1 /\ orders = <<>> /\ orderRows = {}
    /\ startTime = 0 /\ next = 0 /\ toHour = 0 /\ reading = <<>> /\ listed = {}
    /\ orderStops = 0 /\ cut = {} /\ late = {} /\ skipped = FALSE

PassHour ==
    /\ hour < LastHour
    /\ hour' = hour + 1
    /\ UNCHANGED <<orders, orderRows, ordersRun, orderStops, ordersHistory>>

(* An order is made, to be filled later or at once.                        *)
MakeOrder(symbol, filled) ==
    /\ Len(orders) < LastOrder
    /\ orders' = Append(orders, [symbol |-> symbol, at |-> hour, filled |-> filled])
    /\ UNCHANGED <<hour, orderRows, ordersRun, orderStops, ordersHistory>>

FillOrder(o) ==
    /\ ~orders[o].filled
    /\ orders' = [orders EXCEPT ![o].filled = TRUE]
    /\ UNCHANGED <<hour, orderRows, ordersRun, orderStops, ordersHistory>>

-----------------------------------------------------------------------------
GetLastStoredCreation == Max({1} \cup {orders[o].at : o \in orderRows})

BatchFrom(start, to) ==
    /\ startTime' = start /\ next' = Min({start + BatchDuration, to})
    /\ reading' = [s \in Symbols |-> [from |-> start, last |-> 0]] /\ listed' = {}

(* A run is started, with flags from and to or without.                    *)
StartOrders(from, to) ==
    LET start == IF from = 0 THEN GetLastStoredCreation ELSE from
    IN  /\ startTime = 0
        /\ IF from = 0 /\ to = hour THEN UNCHANGED orderStops
           ELSE orderStops < MaxOrderStops /\ orderStops' = orderStops + 1
        /\ toHour' = to /\ BatchFrom(start, to)
        /\ skipped' = (skipped \/ start > GetLastStoredCreation)
        /\ UNCHANGED <<hour, orders, orderRows, cut, late>>

(* What is asked for: the filled orders of a symbol, created from a time   *)
(* to another.  External: the newest of them come, as the code says; what  *)
(* else it sends, the id to go on from, GetTradeHistory does not pass on.  *)
Asked(s) == {o \in DOMAIN orders : orders[o].symbol = s /\ orders[o].at >= reading[s].from /\ orders[o].at <= next}
Filled(set) == {o \in set : orders[o].filled}
Newest(set) == {o \in set : Cardinality({p \in set : p > o}) < OrdersPageSize}

ReadingEnds(s) == reading' = [q \in DOMAIN reading \ {s} |-> reading[q]]

(* One turn of the loop of getTradeHistoryWithSymbol.                      *)
GetOrders(s) ==
    /\ s \in DOMAIN reading
    /\ LET page == Newest(Filled(Asked(s)))
       IN  /\ cut' = cut \cup (Filled(Asked(s)) \ page)
           /\ late' = late \cup (Asked(s) \ Filled(Asked(s)))
           /\ IF page = {} \/ Max(page) = reading[s].last
              THEN ReadingEnds(s) /\ UNCHANGED listed
              ELSE /\ listed' = listed \cup page
                   /\ IF orders[Max(page)].at < next
                      THEN reading' = [reading EXCEPT ![s] = [from |-> orders[Max(page)].at, last |-> Max(page)]]
                      ELSE ReadingEnds(s)
    /\ UNCHANGED <<hour, orders, orderRows, startTime, next, toHour, orderStops, skipped>>

EndOrdersRun == startTime' = 0 /\ next' = 0 /\ toHour' = 0 /\ reading' = <<>> /\ listed' = {}

(* The goroutines have ended: their orders are stored, and the next batch  *)
(* begins where this one has ended.                                        *)
StoreOrders ==
    /\ startTime # 0 /\ DOMAIN reading = {}
    /\ orderRows' = orderRows \cup listed
    /\ IF next < toHour THEN BatchFrom(next, toHour) /\ UNCHANGED toHour ELSE EndOrdersRun
    /\ UNCHANGED <<hour, orders, orderStops, ordersHistory>>

(* Variant: the error of a goroutine is lost.                              *)
LoseError ==
    /\ startTime # 0 /\ orderStops < MaxOrderStops
    /\ orderStops' = orderStops + 1
    /\ \E s \in DOMAIN reading : ReadingEnds(s)
    /\ UNCHANGED <<hour, orders, orderRows, startTime, next, toHour, listed, ordersHistory>>

(* The process is killed, or a request or a statement fails for good.      *)
OrdersStop ==
    /\ startTime # 0 /\ orderStops < MaxOrderStops
    /\ orderStops' = orderStops + 1
    /\ EndOrdersRun
    /\ UNCHANGED <<hour, orders, orderRows, ordersHistory>>

OrdersNext ==
    \/ PassHour
    \/ \E s \in Symbols, filled \in BOOLEAN : MakeOrder(s, filled)
    \/ \E o \in DOMAIN orders : FillOrder(o)
    \/ \E from \in 0 .. hour, to \in 1 .. hour : StartOrders(from, to)
    \/ \E s \in Symbols : GetOrders(s)
    \/ StoreOrders \/ OrdersStop

-----------------------------------------------------------------------------
(* Every variable has its type; only filled orders are stored.             *)
OrdersTypeOK ==
    /\ hour \in 1 .. LastHour /\ next \in 0 .. hour /\ toHour \in 0 .. hour
    /\ \A o \in DOMAIN orders : orders[o] \in [symbol : Symbols, at : 1 .. hour, filled : BOOLEAN]
    /\ orderRows \cup listed \subseteq Filled(DOMAIN orders) /\ DOMAIN reading \subseteq Symbols

(* No order before the newest one that is stored, from which the next run  *)
(* resumes, is missing, wherever a run is stopped, but those that had no   *)
(* room in an answer or that were filled too late.                         *)
NoOrderIsPassed ==
    skipped \/ \A o \in DOMAIN orders : orders[o].at < GetLastStoredCreation => o \in orderRows \cup cut \cup late
=============================================================================
