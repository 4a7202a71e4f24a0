---------------------------- MODULE RecordsProofs ----------------------------
(***************************************************************************)
(* Proofs about the programs that turn what they read elsewhere into       *)
(* records: nothing is missing below the point from which one resumes,     *)
(* trades are assembled of their own parts and stored with the rows of     *)
(* their reserves, reports agree with them and with one another, Binance   *)
(* withdrawals are brought up to date while they are open, users are       *)
(* pushed to Chainalysis, and caches answer what was so not long ago.      *)
(***************************************************************************)
EXTENDS MCRecords, BinanceWithdrawalsProofs

-----------------------------------------------------------------------------
(* The fetcher of token rates, for any number of days, of failed runs and  *)
(* of ranges that are given.                                               *)

(* A day that has its rate, or that a range that was given leaves out.     *)
Covered(d) == d \in storedDays \/ \E range \in givenRanges : d < range[1]

(* What a run starts from: the days have a last one.                       *)
DaysHaveLast ==
    \E m \in {DefaultDay} \cup storedDays : \A e \in {DefaultDay} \cup storedDays : m >= e

RatesTyped ==
    /\ rateDay \in Nat /\ storedDays \subseteq Int
    /\ rateRun \in [day : Int, to : Int]
    /\ \A range \in givenRanges : range[1] \in Int

StoredAreCovered ==
    \A e \in storedDays : \A d \in (DefaultDay + 1) .. e : Covered(d)

(* The run is always past covered days only: had it begun or gone on       *)
(* beyond a missing day, the row it stores next would hide that day.       *)
RunIsCovered ==
    RateRuns => \A d \in (DefaultDay + 1) .. (rateRun.day - 1) : Covered(d)

RatesInv == RatesTyped /\ DaysHaveLast /\ StoredAreCovered /\ RunIsCovered

(* The last time point is one of the days, and none is later.              *)
LEMMA LastTimePointIsLast ==
    ASSUME RatesTyped, DaysHaveLast
    PROVE  /\ LastTimePoint \in {DefaultDay} \cup storedDays
           /\ LastTimePoint \in Int
           /\ \A e \in {DefaultDay} \cup storedDays : LastTimePoint >= e
  <1>1. /\ LastTimePoint \in {DefaultDay} \cup storedDays
        /\ \A e \in {DefaultDay} \cup storedDays : LastTimePoint >= e
    BY DEF DaysHaveLast, LastTimePoint, Max
  <1>2. LastTimePoint \in Int
    BY <1>1, TokenRatesAssumption DEF RatesTyped
  <1> QED  BY <1>1, <1>2

(* A covered day stays so: rows are never deleted.                         *)
LEMMA CoveredStays ==
    ASSUME storedDays \subseteq storedDays', givenRanges \subseteq givenRanges',
           NEW d, Covered(d)
    PROVE  Covered(d)'
  BY DEF Covered

(* Every step keeps the invariant.                                         *)
LEMMA RatesInvStep ==
    ASSUME RatesInv, [TokenRatesNext]_rateVars
    PROVE  RatesInv'
  <1> USE DEF RatesInv
  <1>1. CASE NextRateDay
    BY <1>1 DEF NextRateDay, RatesTyped, DaysHaveLast, StoredAreCovered, RunIsCovered,
                RateRuns, Covered
  <1>2. CASE StartRates
    <2>1. \A d \in (DefaultDay + 1) .. LastTimePoint : Covered(d)
      <3>1. CASE LastTimePoint \in storedDays
        BY <3>1 DEF StoredAreCovered
      <3>2. CASE LastTimePoint = DefaultDay
        BY <3>2, TokenRatesAssumption
      <3> QED  BY <3>1, <3>2, LastTimePointIsLast
    <2>2. UNCHANGED <<rateDay, storedDays, givenRanges>>
          /\ rateRun' = [day |-> LastTimePoint + 1, to |-> rateDay]
      BY <1>2 DEF StartRates
    <2>3. LastTimePoint \in Int
      BY LastTimePointIsLast
    <2>4. RatesTyped'
      BY <2>2, <2>3 DEF RatesTyped
    <2>5. RunIsCovered'
      <3>1. rateRun'.day - 1 = LastTimePoint
        BY <2>2, <2>3
      <3> QED  BY <2>1, <2>2, <3>1 DEF RunIsCovered, Covered
    <2>6. DaysHaveLast' /\ StoredAreCovered'
      BY <2>2 DEF DaysHaveLast, StoredAreCovered, Covered
    <2> QED  BY <2>4, <2>5, <2>6
  <1>3. CASE RateRunStops
    <2>1. UNCHANGED <<rateDay, storedDays, givenRanges>> /\ rateRun' = [day |-> 1, to |-> 0]
      BY <1>3 DEF RateRunStops, NoRateRun
    <2>2. ~RateRuns'
      BY <2>1 DEF RateRuns
    <2> QED  BY <2>1, <2>2 DEF RatesTyped, DaysHaveLast, StoredAreCovered, RunIsCovered, Covered
  <1>4. CASE FetchRate
    <2>1. /\ RateRuns /\ UNCHANGED <<rateDay, givenRanges>>
          /\ storedDays' = storedDays \cup {rateRun.day}
          /\ rateRun' = [rateRun EXCEPT !.day = rateRun.day + 1]
      BY <1>4 DEF FetchRate
    <2>2. rateRun'.day = rateRun.day + 1 /\ rateRun.day \in Int
      BY <2>1 DEF RatesTyped
    <2>3. RatesTyped'
      BY <2>1, <2>2 DEF RatesTyped
    <2>4. DaysHaveLast'
      <3>1. PICK m \in {DefaultDay} \cup storedDays :
                \A e \in {DefaultDay} \cup storedDays : m >= e
        BY DEF DaysHaveLast
      <3>2. m \in Int
        BY <3>1, TokenRatesAssumption DEF RatesTyped
      <3>3. CASE m >= rateRun.day
        BY <2>1, <3>1, <3>3 DEF DaysHaveLast
      <3>4. CASE rateRun.day > m
        <4>1. \A e \in {DefaultDay} \cup storedDays' : rateRun.day >= e
          BY <2>1, <2>2, <3>1, <3>2, <3>4, TokenRatesAssumption DEF RatesTyped
        <4> QED  BY <2>1, <4>1 DEF DaysHaveLast
      <3> QED  BY <2>2, <3>2, <3>3, <3>4
    <2>5. \A d \in (DefaultDay + 1) .. rateRun.day : Covered(d)'
      <3> SUFFICES ASSUME NEW d \in (DefaultDay + 1) .. rateRun.day
                   PROVE  Covered(d)'
        OBVIOUS
      <3>1. CASE d = rateRun.day
        BY <2>1, <3>1 DEF Covered
      <3>2. CASE d \in (DefaultDay + 1) .. (rateRun.day - 1)
        BY <2>1, <3>2, CoveredStays DEF RunIsCovered
      <3> QED  BY <2>2, <3>1, <3>2, TokenRatesAssumption
    <2>6. RunIsCovered'
      <3>1. rateRun'.day - 1 = rateRun.day
        BY <2>2
      <3> QED  BY <2>5, <3>1 DEF RunIsCovered
    <2>7. StoredAreCovered'
      <3> SUFFICES ASSUME NEW e \in storedDays', NEW d \in (DefaultDay + 1) .. e
                   PROVE  Covered(d)'
        BY DEF StoredAreCovered
      <3>1. CASE e = rateRun.day
        BY <2>5, <3>1
      <3>2. CASE e \in storedDays
        BY <2>1, <3>2, CoveredStays DEF StoredAreCovered
      <3> QED  BY <2>1, <3>1, <3>2
    <2> QED  BY <2>3, <2>4, <2>6, <2>7
  <1>5. ASSUME NEW from \in DefaultDay .. rateDay, NEW to \in DefaultDay .. rateDay,
               StartGivenRange(from, to)
        PROVE  RatesInv'
    <2>1. /\ UNCHANGED <<rateDay, storedDays>>
          /\ givenRanges' = givenRanges \cup {<<from, to>>}
          /\ rateRun' = [day |-> from, to |-> to]
      BY <1>5 DEF StartGivenRange
    <2>2. from \in Int /\ to \in Int
      BY TokenRatesAssumption DEF RatesTyped
    <2>3. RatesTyped'
      BY <2>1, <2>2 DEF RatesTyped
    <2>4. \A d \in (DefaultDay + 1) .. (from - 1) : Covered(d)'
      <3> SUFFICES ASSUME NEW d \in (DefaultDay + 1) .. (from - 1)
                   PROVE  Covered(d)'
        OBVIOUS
      <3>1. <<from, to>> \in givenRanges' /\ <<from, to>>[1] = from
        BY <2>1
      <3>2. d < from
        BY <2>2, TokenRatesAssumption
      <3> QED  BY <3>1, <3>2 DEF Covered
    <2>5. StoredAreCovered'
      BY <2>1, CoveredStays DEF StoredAreCovered
    <2>6. RunIsCovered'
      <3>1. rateRun'.day = from
        BY <2>1
      <3> QED  BY <2>4, <3>1 DEF RunIsCovered
    <2>7. DaysHaveLast'
      BY <2>1 DEF DaysHaveLast
    <2> QED  BY <2>3, <2>5, <2>6, <2>7
  <1>6. CASE UNCHANGED rateVars
    BY <1>6 DEF rateVars, RatesTyped, DaysHaveLast, StoredAreCovered, RunIsCovered,
                RateRuns, Covered
  <1> QED  BY <1>1, <1>2, <1>3, <1>4, <1>5, <1>6 DEF TokenRatesNext

(* The invariant leaves no day up to the last time point without a rate.   *)
LEMMA RatesInvImplies ==
    ASSUME RatesInv
    PROVE  NoRateDayIsPassed
  <1>1. CASE LastTimePoint \in storedDays
    BY <1>1 DEF RatesInv, StoredAreCovered, Covered, NoRateDayIsPassed
  <1>2. CASE LastTimePoint = DefaultDay
    BY <1>2, TokenRatesAssumption DEF NoRateDayIsPassed
  <1> QED  BY <1>1, <1>2, LastTimePointIsLast DEF RatesInv

(* The fetcher begins with an empty table.                                 *)
LEMMA RatesInvInit == TokenRatesInit => RatesInv
  BY TokenRatesAssumption
  DEF TokenRatesInit, RatesInv, RatesTyped, DaysHaveLast, StoredAreCovered, RunIsCovered,
      RateRuns, NoRateRun

(* A run fetches days from the default one to today.                       *)
RatesAreInRange ==
    /\ TokenRatesTypeOK
    /\ RateRuns => DefaultDay <= rateRun.day /\ rateRun.to <= rateDay

(* Every step keeps the days in range.                                     *)
LEMMA RatesAreInRangeSteps == RatesInv /\ RatesAreInRange /\ [TokenRatesNext]_rateVars => RatesAreInRange'
  <1> SUFFICES ASSUME RatesInv, RatesAreInRange, [TokenRatesNext]_rateVars
               PROVE  RatesAreInRange'
    OBVIOUS
  <1>0. /\ DefaultDay \in Nat /\ LastRateDay \in Nat /\ MaxRateStops \in Nat
        /\ rateDay \in DefaultDay .. LastRateDay /\ storedDays \subseteq DefaultDay .. rateDay
        /\ rateStops \in 0 .. MaxRateStops
        /\ rateRun \in [day : Int, to : Int]
        /\ RateRuns => DefaultDay <= rateRun.day /\ rateRun.to <= rateDay
    BY TokenRatesAssumption DEF RatesInv, RatesTyped, RatesAreInRange, TokenRatesTypeOK
  <1> USE DEF RatesAreInRange, TokenRatesTypeOK, RateRuns
  <1>1. CASE NextRateDay
    BY <1>0, <1>1 DEF NextRateDay
  <1>2. CASE StartRates
    <2>1. LastTimePoint \in Int /\ LastTimePoint >= DefaultDay
      BY LastTimePointIsLast DEF RatesInv
    <2> QED  BY <1>0, <1>2, <2>1 DEF StartRates
  <1>3. CASE RateRunStops
    BY <1>0, <1>3 DEF RateRunStops, NoRateRun
  <1>4. CASE FetchRate
    <2>1. rateRun.day \in DefaultDay .. rateDay
      BY <1>0, <1>4 DEF FetchRate
    <2>2. rateRun'.day = rateRun.day + 1 /\ rateRun'.to = rateRun.to
      BY <1>0, <1>4 DEF FetchRate
    <2> QED  BY <1>0, <1>4, <2>1, <2>2 DEF FetchRate
  <1>5. ASSUME NEW from \in DefaultDay .. rateDay, NEW to \in DefaultDay .. rateDay, StartGivenRange(from, to)
        PROVE  RatesAreInRange'
    BY <1>0, <1>5 DEF StartGivenRange
  <1>6. CASE UNCHANGED rateVars
    BY <1>0, <1>6 DEF rateVars
  <1> QED  BY <1>1, <1>2, <1>3, <1>4, <1>5, <1>6 DEF TokenRatesNext

(* They are in range at first.                                             *)
LEMMA RatesAreInRangeStarts == TokenRatesInit => RatesAreInRange
  BY TokenRatesAssumption DEF TokenRatesInit, RatesAreInRange, TokenRatesTypeOK, RateRuns, NoRateRun

(* However runs fail, are killed or are given a range, the fetcher of      *)
(* token rates leaves no day behind its resume point without a rate, but   *)
(* those below a range it was given.                                       *)
THEOREM NoRateDayIsPassedHolds == TokenRatesSpec => []NoRateDayIsPassed
  BY RatesInvInit, RatesInvStep, RatesInvImplies, PTL DEF TokenRatesSpec

-----------------------------------------------------------------------------
(* The storage of trade logs and reserves.                                 *)

ReserveRow == [address : ReserveAddrs, reserve : ReserveIDs, block : 1 .. HeadBlock]

StorageTyped ==
    /\ events \in [1 .. HeadBlock -> Adds \cup WalletSets \cup Trades \cup {NoEvent}]
    /\ reserveTable \in Seq(ReserveRow) /\ IsInjective(reserveTable)
    /\ DOMAIN tradeTable \subseteq 1 .. HeadBlock /\ DOMAIN uncommitted \subseteq 1 .. HeadBlock
    /\ jobFrom \in 1 .. HeadBlock /\ saving \in {"none", "wallets", "trades", "done"}
    /\ lostBlocks \subseteq 1 .. HeadBlock

BlocksWith(kind) == {b \in 1 .. HeadBlock : events[b].kind = kind}
Saved(b) == \E i \in DOMAIN reserveTable : reserveTable[i].reserve = events[b].reserve /\ reserveTable[i].block = b

(* Below the resume point, or the job at work.                             *)
Passed(b) == b < jobFrom \/ \E t \in DOMAIN tradeTable : b < t

(* A row is that of what is told in its block.                             *)
RowsAreTold ==
    \A i \in DOMAIN reserveTable :
        LET b == reserveTable[i].block
        IN  /\ events[b].kind \in {"add", "wallet"} /\ reserveTable[i].reserve = events[b].reserve
            /\ events[b].kind = "add" => reserveTable[i].address = events[b].address

(* What was told of reserves is saved below the resume point, in the job at *)
(* work as far as it is; trades are stored below the resume point.  Wallets *)
(* and trades may be lost by a COMMIT.                                     *)
PassedIsSaved ==
    /\ \A b \in BlocksWith("add") : Passed(b) => Saved(b)
    /\ \A b \in BlocksWith("wallet") : Passed(b) => Saved(b) \/ b \in lostBlocks
    /\ \A b \in BlocksWith("trade") : Passed(b) => b \in DOMAIN tradeTable \cup lostBlocks
    /\ saving # "none" => \A b \in InJob("add") : Saved(b)
    /\ saving \in {"trades", "done"} => \A b \in InJob("wallet") : Saved(b) \/ b \in lostBlocks
    /\ DOMAIN uncommitted \subseteq InJob("trade") /\ (saving # "trades" => DOMAIN uncommitted = {})

(* Reserves that were added before a block with a row are saved.           *)
RowsFollowAdds == \A i \in DOMAIN reserveTable : \A b \in BlocksWith("add") : b < reserveTable[i].block => Saved(b)

(* The saved blocks in which a reserve was added; a row has the address of *)
(* the last of them.                                                       *)
Given(r) == {b \in BlocksWith("add") : events[b].reserve = r /\ Saved(b)}
HasLatest(i) ==
    LET given == Given(reserveTable[i].reserve)
    IN  \A a \in given : (\A c \in given : c <= a) => reserveTable[i].address = events[a].address

(* The newest rows of a reserve by block, and the last that was inserted,  *)
(* have its latest address.                                                *)
NewestIsLatest ==
    \A i \in DOMAIN reserveTable :
        LET rows == RowsOfReserve(reserveTable[i].reserve)
        IN  /\ Given(reserveTable[i].reserve) # {}
            /\ (\A j \in rows : j <= i) => HasLatest(i)
            /\ (\A j \in rows : reserveTable[j].block <= reserveTable[i].block) => HasLatest(i)

(* Nothing is saved more than the length of a job after a trade that is    *)
(* not stored and was not lost.                                            *)
SavedAreNear ==
    \A b \in BlocksWith("trade") \ (DOMAIN tradeTable \cup lostBlocks), c \in BlocksWith("add") :
        Saved(c) => c <= b + JobBlocks

SplitsAreRight(b, splits) ==
    LET route == events[b].route
    IN  /\ Len(splits) = Len(route)
        /\ \A i \in DOMAIN route :
               /\ splits[i] \in DOMAIN reserveTable /\ reserveTable[splits[i]].reserve = route[i]
               /\ reserveTable[splits[i]].address \in AddressesAround(route[i], b)

StoredAreRight ==
    /\ DOMAIN tradeTable \subseteq BlocksWith("trade")
    /\ \A b \in DOMAIN tradeTable : SplitsAreRight(b, tradeTable[b])
    /\ \A b \in DOMAIN uncommitted : SplitsAreRight(b, uncommitted[b])

StorageInv ==
    /\ StorageTyped /\ RowsAreTold /\ PassedIsSaved /\ RowsFollowAdds
    /\ NewestIsLatest /\ SavedAreNear /\ StoredAreRight

(* The blocks of a set by their rank: each once, in order.                 *)
LEMMA NthIs ==
    ASSUME NEW T \in SUBSET Nat, NEW bound \in Nat, \A b \in T : b <= bound
    PROVE  /\ Cardinality(T) \in Nat
           /\ \A i \in 1 .. Cardinality(T) : Nth(T, i) \in T
           /\ \A b \in T : \E i \in 1 .. Cardinality(T) : Nth(T, i) = b
           /\ \A i, j \in 1 .. Cardinality(T) : i < j => Nth(T, i) < Nth(T, j)
  <1>1. IsFiniteSet(T) /\ Cardinality(T) \in Nat
    BY FS_BoundedSetOfNaturals, FS_CardinalityType
  <1>2. ASSUME NEW i \in 1 .. Cardinality(T)
        PROVE  Nth(T, i) \in T /\ Cardinality(NoMore(T, Nth(T, i))) = i
    <2>1. \E b \in T : Cardinality({c \in T : c <= b}) = i
      BY <1>1, RankExists DEF NoMore
    <2> QED  BY <2>1 DEF Nth, NoMore
  <1>3. \A a, b \in T : a < b \/ b < a \/ a = b
    OBVIOUS
  <1>4. \A a, b \in T : a < b => Cardinality(NoMore(T, a)) < Cardinality(NoMore(T, b))
    BY <1>1, RankGrows
  <1>5. \A b \in T : Cardinality(NoMore(T, b)) \in 1 .. Cardinality(T)
    <2> SUFFICES ASSUME NEW b \in T
                 PROVE  Cardinality(NoMore(T, b)) \in 1 .. Cardinality(T)
      OBVIOUS
    <2>1. NoMore(T, b) \subseteq T /\ b \in NoMore(T, b)
      <3>1. b \in Nat /\ b <= b
        OBVIOUS
      <3> QED  BY <3>1 DEF NoMore
    <2>2. IsFiniteSet(NoMore(T, b)) /\ Cardinality(NoMore(T, b)) \in Nat /\ Cardinality(NoMore(T, b)) <= Cardinality(T)
      BY <1>1, <2>1, FS_Subset, FS_CardinalityType
    <2>3. Cardinality(NoMore(T, b)) # 0
      BY <2>1, <2>2, FS_EmptySet
    <2> QED  BY <1>1, <2>2, <2>3
  <1>6. ASSUME NEW b \in T
        PROVE  \E i \in 1 .. Cardinality(T) : Nth(T, i) = b
    <2>1. PICK i \in 1 .. Cardinality(T) : i = Cardinality(NoMore(T, b))
      BY <1>5
    <2>2. Nth(T, i) \in T /\ Cardinality(NoMore(T, Nth(T, i))) = i
      BY <1>2
    <2>3. ~(Nth(T, i) < b) /\ ~(b < Nth(T, i))
      <3>1. i \in Nat /\ ~(i < i)
        BY <1>1
      <3> QED  BY <1>4, <2>1, <2>2, <3>1
    <2> QED  BY <1>3, <2>2, <2>3
  <1>7. ASSUME NEW i \in 1 .. Cardinality(T), NEW j \in 1 .. Cardinality(T), i < j
        PROVE  Nth(T, i) < Nth(T, j)
    <2>1. Nth(T, i) \in T /\ Nth(T, j) \in T /\ Cardinality(NoMore(T, Nth(T, i))) = i /\ Cardinality(NoMore(T, Nth(T, j))) = j
      BY <1>2
    <2>2. Nth(T, i) # Nth(T, j)
      BY <1>7, <2>1
    <2>3. ~(Nth(T, j) < Nth(T, i))
      <3>1. Nth(T, j) < Nth(T, i) => j < i
        BY <1>4, <2>1
      <3> QED  BY <1>7, <3>1
    <2> QED  BY <1>3, <2>1, <2>2, <2>3
  <1> QED  BY <1>1, <1>2, <1>6, <1>7

(* What a statement that inserts rows, one of each block, leaves: the rows *)
(* that were there, and after them those that were not, in their order.    *)
AddedAfter(D, rowOf) ==
    /\ DOMAIN reserveTable \subseteq DOMAIN reserveTable'
    /\ \A i \in DOMAIN reserveTable : reserveTable'[i] = reserveTable[i]
    /\ \A i \in DOMAIN reserveTable' \ DOMAIN reserveTable :
           /\ \A j \in DOMAIN reserveTable : j < i
           /\ reserveTable'[i].block \in D /\ reserveTable'[i] = rowOf[reserveTable'[i].block]
           /\ \A j \in DOMAIN reserveTable : reserveTable[j] # reserveTable'[i]
           /\ \A j \in DOMAIN reserveTable' \ DOMAIN reserveTable :
                  i < j => reserveTable'[i].block < reserveTable'[j].block
    /\ \A b \in D : \E i \in DOMAIN reserveTable' : reserveTable'[i] = rowOf[b]

(* The rows that are inserted are new ones, and each is there once.        *)
LEMMA InsertReservesIs ==
    ASSUME StorageTyped, NEW D \in SUBSET (1 .. HeadBlock), NEW rowOf \in [D -> ReserveRow],
           \A b \in D : rowOf[b].block = b, InsertReserves(rowOf)
    PROVE  /\ reserveTable' \in Seq(ReserveRow) /\ IsInjective(reserveTable)'
           /\ AddedAfter(D, rowOf)
  <1>1. PICK new : new = {b \in D : rowOf[b] \notin Range(reserveTable)}
    OBVIOUS
  <1>2. PICK rows : rows = [i \in 1 .. Cardinality(new) |-> rowOf[Nth(new, i)]]
    OBVIOUS
  <1>3. reserveTable' = reserveTable \o rows
    BY <1>1, <1>2 DEF InsertReserves
  <1>4. reserveTable \in Seq(ReserveRow) /\ HeadBlock \in Nat /\ IsInjective(reserveTable)
    BY StorageAssumption DEF StorageTyped
  <1>5. /\ Cardinality(new) \in Nat
        /\ \A i \in 1 .. Cardinality(new) : Nth(new, i) \in new
        /\ \A b \in new : \E i \in 1 .. Cardinality(new) : Nth(new, i) = b
        /\ \A i, j \in 1 .. Cardinality(new) : i < j => Nth(new, i) < Nth(new, j)
    <2>1. new \in SUBSET Nat /\ \A b \in new : b <= HeadBlock
      BY <1>1, <1>4
    <2> QED  BY <1>4, <2>1, NthIs
  <1>6. /\ Len(rows) = Cardinality(new) /\ rows \in Seq(ReserveRow) /\ DOMAIN rows = 1 .. Cardinality(new)
        /\ \A k \in 1 .. Cardinality(new) : rows[k] = rowOf[Nth(new, k)]
    <2>1. \A i \in 1 .. Cardinality(new) : rowOf[Nth(new, i)] \in ReserveRow
      BY <1>1, <1>5
    <2> QED  BY <1>2, <1>5, <2>1
  <1>7. PICK n \in Nat : n = Len(reserveTable) /\ DOMAIN reserveTable = 1 .. n
    BY <1>4, LenProperties
  <1>8. /\ reserveTable' \in Seq(ReserveRow) /\ DOMAIN reserveTable' = 1 .. n + Cardinality(new)
        /\ \A i \in 1 .. n : reserveTable'[i] = reserveTable[i]
        /\ \A k \in 1 .. Cardinality(new) : reserveTable'[n + k] = rows[k]
    <2>1. /\ reserveTable \o rows \in Seq(ReserveRow) /\ Len(reserveTable \o rows) = n + Cardinality(new)
          /\ \A i \in 1 .. n + Cardinality(new) :
                 (reserveTable \o rows)[i] = IF i <= n THEN reserveTable[i] ELSE rows[i - n]
      <3>1. /\ reserveTable \o rows \in Seq(ReserveRow) /\ Len(reserveTable \o rows) = Len(reserveTable) + Len(rows)
            /\ \A i \in 1 .. Len(reserveTable) + Len(rows) :
                   (reserveTable \o rows)[i] =
                       IF i <= Len(reserveTable) THEN reserveTable[i] ELSE rows[i - Len(reserveTable)]
        BY <1>4, <1>6, ConcatProperties
      <3> QED  BY <1>6, <1>7, <3>1
    <2>2. DOMAIN (reserveTable \o rows) = 1 .. n + Cardinality(new)
      BY <2>1, LenProperties
    <2>3. \A k \in 1 .. Cardinality(new) : n + k \in 1 .. n + Cardinality(new) /\ ~(n + k <= n) /\ (n + k) - n = k
      BY <1>5
    <2> QED  BY <1>3, <1>5, <2>1, <2>2, <2>3
  <1>9. ASSUME NEW i \in DOMAIN reserveTable' \ DOMAIN reserveTable
        PROVE  \E k \in 1 .. Cardinality(new) : i = n + k /\ reserveTable'[i] = rowOf[Nth(new, k)]
                                                /\ reserveTable'[i].block = Nth(new, k)
    <2>1. PICK k \in 1 .. Cardinality(new) : i = n + k
      <3>1. i - n \in 1 .. Cardinality(new) /\ i = n + (i - n)
        BY <1>5, <1>7, <1>8
      <3> QED  BY <3>1
    <2>2. Nth(new, k) \in D
      BY <1>1, <1>5
    <2>3. reserveTable'[i] = rowOf[Nth(new, k)]
      BY <1>6, <1>8, <2>1
    <2> QED  BY <2>1, <2>2, <2>3
  <1>10. ASSUME NEW i \in DOMAIN reserveTable' \ DOMAIN reserveTable
         PROVE  /\ \A j \in DOMAIN reserveTable : j < i
                /\ reserveTable'[i].block \in D /\ reserveTable'[i] = rowOf[reserveTable'[i].block]
                /\ \A j \in DOMAIN reserveTable : reserveTable[j] # reserveTable'[i]
                /\ \A j \in DOMAIN reserveTable' \ DOMAIN reserveTable :
                       i < j => reserveTable'[i].block < reserveTable'[j].block
    <2>1. PICK k \in 1 .. Cardinality(new) : i = n + k /\ reserveTable'[i] = rowOf[Nth(new, k)] /\ reserveTable'[i].block = Nth(new, k)
      BY <1>9
    <2>2. Nth(new, k) \in D /\ rowOf[Nth(new, k)] \notin Range(reserveTable)
      BY <1>1, <1>5
    <2>3. \A j \in DOMAIN reserveTable : reserveTable[j] \in Range(reserveTable)
      BY DEF Range
    <2>4. \A j \in DOMAIN reserveTable : j < i
      BY <1>5, <1>7, <2>1
    <2>5. ASSUME NEW j \in DOMAIN reserveTable' \ DOMAIN reserveTable, i < j
          PROVE  reserveTable'[i].block < reserveTable'[j].block
      <3>1. PICK m \in 1 .. Cardinality(new) : j = n + m /\ reserveTable'[j].block = Nth(new, m)
        BY <1>9
      <3>2. k < m
        BY <1>5, <2>1, <2>5, <3>1
      <3> QED  BY <1>5, <2>1, <3>1, <3>2
    <2> QED  BY <2>1, <2>2, <2>3, <2>4, <2>5
  <1>11. ASSUME NEW b \in D
         PROVE  \E i \in DOMAIN reserveTable' : reserveTable'[i] = rowOf[b]
    <2>1. CASE b \in new
      <3>1. PICK k \in 1 .. Cardinality(new) : Nth(new, k) = b
        BY <1>5, <2>1
      <3>2. n + k \in DOMAIN reserveTable' /\ reserveTable'[n + k] = rowOf[b]
        BY <1>5, <1>6, <1>8, <3>1
      <3> QED  BY <3>2
    <2>2. CASE b \notin new
      <3>1. rowOf[b] \in Range(reserveTable)
        BY <1>1, <2>2
      <3>2. PICK j \in DOMAIN reserveTable : reserveTable[j] = rowOf[b]
        BY <3>1 DEF Range
      <3> QED  BY <1>5, <1>7, <1>8, <3>2
    <2> QED  BY <2>1, <2>2
  <1>12. IsInjective(reserveTable)'
    <2> SUFFICES ASSUME NEW i \in DOMAIN reserveTable', NEW j \in DOMAIN reserveTable', reserveTable'[i] = reserveTable'[j]
                 PROVE  i = j
      BY DEF IsInjective
    <2>1. i \in Nat /\ j \in Nat /\ DOMAIN reserveTable \subseteq DOMAIN reserveTable'
      BY <1>5, <1>7, <1>8
    <2>2. CASE i \in DOMAIN reserveTable /\ j \in DOMAIN reserveTable
      BY <1>4, <1>7, <1>8, <2>2 DEF IsInjective
    <2>3. CASE i \notin DOMAIN reserveTable /\ j \in DOMAIN reserveTable
      BY <1>7, <1>8, <1>10, <2>3
    <2>4. CASE i \in DOMAIN reserveTable /\ j \notin DOMAIN reserveTable
      BY <1>7, <1>8, <1>10, <2>4
    <2>5. CASE i \notin DOMAIN reserveTable /\ j \notin DOMAIN reserveTable
      <3>1. reserveTable'[i].block \in D /\ reserveTable'[j].block \in D
        BY <1>10, <2>5
      <3>2. reserveTable'[i].block \in Nat /\ ~(reserveTable'[i].block < reserveTable'[i].block)
        <4>1. \A b \in D : b \in Nat /\ ~(b < b)
          BY <1>4
        <4> QED  BY <3>1, <4>1
      <3>3. ~(i < j) /\ ~(j < i)
        BY <1>10, <2>5, <3>2
      <3> QED  BY <2>1, <3>3
    <2> QED  BY <2>2, <2>3, <2>4, <2>5
  <1>13. DOMAIN reserveTable \subseteq DOMAIN reserveTable' /\ \A i \in DOMAIN reserveTable : reserveTable'[i] = reserveTable[i]
    BY <1>5, <1>7, <1>8
  <1> QED  BY <1>8, <1>10, <1>11, <1>12, <1>13 DEF AddedAfter

(* The blocks of a job, and what is told in a block.                       *)
LEMMA JobIs ==
    ASSUME StorageTyped
    PROVE  /\ HeadBlock \in Nat /\ JobBlocks \in Nat /\ jobFrom \in Nat /\ JobTo \in 1 .. HeadBlock
           /\ jobFrom <= JobTo /\ JobTo <= jobFrom + JobBlocks
           /\ \A kind : BlocksWith(kind) \in SUBSET Nat /\ BlocksWith(kind) \subseteq 1 .. HeadBlock /\ InJob(kind) \subseteq BlocksWith(kind)
           /\ \A kind : \A b \in InJob(kind) : jobFrom <= b /\ b <= JobTo
           /\ \A kind : \A b \in BlocksWith(kind) : jobFrom <= b /\ b <= JobTo => b \in InJob(kind)
           /\ \A b \in BlocksWith("add") : events[b].reserve \in ReserveIDs /\ events[b].address \in ReserveAddrs
           /\ \A b \in BlocksWith("wallet") : events[b].reserve \in ReserveIDs
           /\ \A b \in BlocksWith("trade") : events[b].route \in Routes
  <1>1. HeadBlock \in Nat \ {0} /\ JobBlocks \in Nat \ {0} /\ jobFrom \in 1 .. HeadBlock
    BY StorageAssumption DEF StorageTyped
  <1>2. JobTo \in {jobFrom + JobBlocks, HeadBlock} /\ \A n \in {jobFrom + JobBlocks, HeadBlock} : JobTo <= n
    <2>1. {jobFrom + JobBlocks, HeadBlock} \in SUBSET Nat /\ {jobFrom + JobBlocks, HeadBlock} # {}
      BY <1>1
    <2> QED  BY <2>1, MinOfNaturals DEF JobTo
  <1>3. JobTo \in 1 .. HeadBlock /\ jobFrom <= JobTo /\ JobTo <= jobFrom + JobBlocks
    BY <1>1, <1>2
  <1>4. \A kind : BlocksWith(kind) \in SUBSET Nat /\ BlocksWith(kind) \subseteq 1 .. HeadBlock /\ InJob(kind) \subseteq BlocksWith(kind)
    BY <1>1, <1>3 DEF BlocksWith, InJob
  <1>5. /\ \A kind : \A b \in InJob(kind) : jobFrom <= b /\ b <= JobTo
        /\ \A kind : \A b \in BlocksWith(kind) : jobFrom <= b /\ b <= JobTo => b \in InJob(kind)
    BY <1>1, <1>3 DEF BlocksWith, InJob
  <1>6. ASSUME NEW b \in 1 .. HeadBlock
        PROVE  /\ events[b].kind = "add" => events[b].reserve \in ReserveIDs /\ events[b].address \in ReserveAddrs
               /\ events[b].kind = "wallet" => events[b].reserve \in ReserveIDs
               /\ events[b].kind = "trade" => events[b].route \in Routes
    <2>1. events[b] \in Adds \/ events[b] \in WalletSets \/ events[b] \in Trades \/ events[b] = NoEvent
      BY DEF StorageTyped
    <2> QED  BY <2>1 DEF Adds, WalletSets, Trades, NoEvent
  <1> QED  BY <1>1, <1>3, <1>4, <1>5, <1>6 DEF BlocksWith

(* What is in table reserve.                                               *)
LEMMA RowsAre ==
    ASSUME NEW table \in Seq(ReserveRow)
    PROVE  /\ \E n \in Nat : DOMAIN table = 1 .. n
           /\ \A i \in DOMAIN table : /\ i \in Nat \ {0} /\ table[i] \in ReserveRow
                                       /\ table[i].block \in 1 .. HeadBlock /\ table[i].block \in Nat
  <1>1. Len(table) \in Nat /\ DOMAIN table = 1 .. Len(table)
    BY LenProperties
  <1>2. \A i \in DOMAIN table : table[i] \in ReserveRow
    BY <1>1, ElementOfSeq
  <1>3. \A i \in DOMAIN table : table[i].block \in 1 .. HeadBlock
    BY <1>2 DEF ReserveRow
  <1>4. \A i \in DOMAIN table : i \in Nat \ {0} /\ table[i].block \in Nat
    BY <1>1, <1>3, StorageAssumption
  <1> QED  BY <1>1, <1>2, <1>3, <1>4

(* Rows that are inserted for blocks of the job keep what is said of rows. *)
LEMMA InsertedReserves ==
    ASSUME StorageInv, NEW D \in SUBSET (InJob("add") \cup InJob("wallet")), NEW rowOf \in [D -> ReserveRow],
           \A b \in D : /\ rowOf[b].block = b /\ rowOf[b].reserve = events[b].reserve
                        /\ events[b].kind = "add" => rowOf[b].address = events[b].address,
           \A b \in InJob("add") : b \in D \/ Saved(b),
           InsertReserves(rowOf), UNCHANGED <<events, tradeTable, uncommitted, jobFrom, lostBlocks>>
    PROVE  /\ \A b : Saved(b) => Saved(b)'
           /\ \A b \in D : Saved(b)'
           /\ \A b : Saved(b)' => Saved(b) \/ b \in D
           /\ RowsAreTold' /\ RowsFollowAdds' /\ SavedAreNear' /\ StoredAreRight'
  <1>1. StorageTyped
    BY DEF StorageInv
  <1>2. D \in SUBSET (1 .. HeadBlock) /\ \A b \in D : b \in Nat /\ b <= JobTo
    BY <1>1, JobIs
  <1>3. /\ DOMAIN reserveTable \subseteq DOMAIN reserveTable'
        /\ \A i \in DOMAIN reserveTable : reserveTable'[i] = reserveTable[i]
        /\ \A i \in DOMAIN reserveTable' \ DOMAIN reserveTable :
               reserveTable'[i].block \in D /\ reserveTable'[i] = rowOf[reserveTable'[i].block]
        /\ \A b \in D : \E i \in DOMAIN reserveTable' : reserveTable'[i] = rowOf[b]
    <2>1. AddedAfter(D, rowOf)
      BY <1>1, <1>2, InsertReservesIs
    <2> QED  BY <2>1 DEF AddedAfter
  <1>4. \A b : Saved(b) => Saved(b)'
    BY <1>3 DEF Saved
  <1>5. \A b \in D : Saved(b)'
    BY <1>3 DEF Saved
  <1>6. \A b : Saved(b)' => Saved(b) \/ b \in D
    BY <1>3 DEF Saved
  <1>7. \A kind : BlocksWith(kind)' = BlocksWith(kind)
    BY DEF BlocksWith
  <1>8. \A b \in D : events[b].kind \in {"add", "wallet"}
    BY DEF InJob
  <1>9. RowsAreTold'
    <2> SUFFICES ASSUME NEW i \in DOMAIN reserveTable'
                 PROVE  /\ events[reserveTable'[i].block].kind \in {"add", "wallet"}
                        /\ reserveTable'[i].reserve = events[reserveTable'[i].block].reserve
                        /\ events[reserveTable'[i].block].kind = "add" =>
                               reserveTable'[i].address = events[reserveTable'[i].block].address
      BY DEF RowsAreTold
    <2>1. CASE i \in DOMAIN reserveTable
      BY <1>3, <2>1 DEF StorageInv, RowsAreTold
    <2>2. CASE i \notin DOMAIN reserveTable
      <3>1. PICK b \in D : b = reserveTable'[i].block /\ reserveTable'[i] = rowOf[b]
        BY <1>3, <2>2
      <3> QED  BY <1>8, <3>1
    <2> QED  BY <2>1, <2>2
  <1>10. RowsFollowAdds'
    <2> SUFFICES ASSUME NEW i \in DOMAIN reserveTable', NEW b \in BlocksWith("add"), b < reserveTable'[i].block
                 PROVE  Saved(b)'
      BY <1>7 DEF RowsFollowAdds
    <2>1. CASE i \in DOMAIN reserveTable
      BY <1>3, <1>4, <2>1 DEF StorageInv, RowsFollowAdds
    <2>2. CASE i \notin DOMAIN reserveTable
      <3>1. PICK c \in D : c = reserveTable'[i].block
        BY <1>3, <2>2
      <3>2. b \in Nat /\ jobFrom \in Nat /\ c \in Nat /\ JobTo \in Nat /\ c <= JobTo
        BY <1>1, <1>2, JobIs
      <3>3. CASE b < jobFrom
        BY <1>4, <3>3 DEF StorageInv, PassedIsSaved, Passed
      <3>4. CASE ~(b < jobFrom)
        <4>1. b \in InJob("add")
          BY <1>1, <3>1, <3>2, <3>4, JobIs
        <4> QED  BY <1>4, <1>5, <4>1
      <3> QED  BY <3>3, <3>4
    <2> QED  BY <2>1, <2>2
  <1>11. SavedAreNear'
    <2> SUFFICES ASSUME NEW b \in BlocksWith("trade") \ (DOMAIN tradeTable \cup lostBlocks),
                        NEW c \in BlocksWith("add"), Saved(c)'
                 PROVE  c <= b + JobBlocks
      BY <1>7 DEF SavedAreNear
    <2>1. CASE Saved(c)
      BY <2>1 DEF StorageInv, SavedAreNear
    <2>2. CASE c \in D
      <3>1. b \in Nat /\ c \in Nat /\ jobFrom \in Nat /\ JobBlocks \in Nat /\ JobTo \in Nat
            /\ JobTo <= jobFrom + JobBlocks /\ c <= JobTo
        BY <1>1, <1>2, <2>2, JobIs
      <3>2. ~(b < jobFrom)
        BY DEF StorageInv, PassedIsSaved, Passed
      <3> QED  BY <3>1, <3>2
    <2> QED  BY <1>6, <2>1, <2>2
  <1>12. StoredAreRight'
    <2>1. \A b, splits : SplitsAreRight(b, splits) => SplitsAreRight(b, splits)'
      <3> SUFFICES ASSUME NEW b, NEW splits, SplitsAreRight(b, splits)
                   PROVE  SplitsAreRight(b, splits)'
        OBVIOUS
      <3>1. \A r : AddressesAround(r, b)' = AddressesAround(r, b)
        BY DEF AddressesAround
      <3>2. \A i \in DOMAIN events[b].route :
                /\ splits[i] \in DOMAIN reserveTable' /\ reserveTable'[splits[i]] = reserveTable[splits[i]]
        BY <1>3 DEF SplitsAreRight
      <3> QED  BY <3>1, <3>2 DEF SplitsAreRight
    <2> QED  BY <1>7, <2>1 DEF StorageInv, StoredAreRight
  <1> QED  BY <1>4, <1>5, <1>6, <1>9, <1>10, <1>11, <1>12

(* Reserves that were added and are not saved yet come after all rows.     *)
LEMMA NewAddIsAfterRows ==
    ASSUME StorageInv, NEW b \in BlocksWith("add"), ~Saved(b)
    PROVE  \A i \in DOMAIN reserveTable :
               /\ reserveTable[i].block <= b
               /\ reserveTable[i].reserve = events[b].reserve => reserveTable[i].block < b
  <1> SUFFICES ASSUME NEW i \in DOMAIN reserveTable
               PROVE  /\ reserveTable[i].block <= b
                      /\ reserveTable[i].reserve = events[b].reserve => reserveTable[i].block < b
    OBVIOUS
  <1>1. StorageTyped
    BY DEF StorageInv
  <1>2. b \in Nat /\ reserveTable[i].block \in Nat
    BY <1>1, JobIs, RowsAre DEF StorageTyped
  <1>3. ~(b < reserveTable[i].block)
    BY DEF StorageInv, RowsFollowAdds
  <1>4. reserveTable[i].reserve = events[b].reserve => reserveTable[i].block # b
    BY DEF Saved
  <1> QED  BY <1>2, <1>3, <1>4

(* The reserves of a job are saved: the rows that are new are the newest   *)
(* and the last, and the last of them has the address that is the latest.  *)
LEMMA SaveReservesKeeps ==
    ASSUME StorageInv, SaveReserves
    PROVE  StorageInv'
  <1>1. StorageTyped
    BY DEF StorageInv
  <1>2. PICK D, rowOf : /\ D = InJob("add")
                        /\ rowOf = [b \in InJob("add") |->
                               [address |-> events[b].address, reserve |-> events[b].reserve, block |-> b]]
    OBVIOUS
  <1>3. /\ saving = "none" /\ InsertReserves(rowOf) /\ saving' = "wallets"
        /\ events' = events /\ tradeTable' = tradeTable /\ uncommitted' = uncommitted /\ jobFrom' = jobFrom
        /\ lostBlocks' = lostBlocks
    BY <1>2 DEF SaveReserves
  <1>4. /\ D \in SUBSET (1 .. HeadBlock) /\ D \subseteq BlocksWith("add") /\ D \in SUBSET (InJob("add") \cup InJob("wallet"))
        /\ \A b \in D : events[b].kind = "add"
    BY <1>1, <1>2, JobIs DEF BlocksWith
  <1>5. /\ rowOf \in [D -> ReserveRow]
        /\ \A b \in D : /\ rowOf[b].block = b /\ rowOf[b].reserve = events[b].reserve
                        /\ rowOf[b].address = events[b].address
    <2>1. \A b \in D : [address |-> events[b].address, reserve |-> events[b].reserve, block |-> b] \in ReserveRow
      BY <1>1, <1>4, JobIs DEF ReserveRow
    <2> QED  BY <1>2, <2>1
  <1>6. reserveTable' \in Seq(ReserveRow) /\ IsInjective(reserveTable)' /\ AddedAfter(D, rowOf)
    BY <1>1, <1>3, <1>4, <1>5, InsertReservesIs
  <1>7. /\ \A b : Saved(b) => Saved(b)'
        /\ \A b \in D : Saved(b)'
        /\ \A b : Saved(b)' => Saved(b) \/ b \in D
        /\ RowsAreTold' /\ RowsFollowAdds' /\ SavedAreNear' /\ StoredAreRight'
    BY <1>2, <1>3, <1>4, <1>5, InsertedReserves
  <1>8. StorageTyped'
    BY <1>1, <1>3, <1>6 DEF StorageTyped
  <1>9. JobTo' = JobTo /\ (\A kind : InJob(kind)' = InJob(kind)) /\ (\A kind : BlocksWith(kind)' = BlocksWith(kind)) /\ (\A b : Passed(b)' = Passed(b))
    BY <1>3 DEF JobTo, InJob, BlocksWith, Passed
  <1>10. PassedIsSaved'
    BY <1>2, <1>3, <1>7, <1>9 DEF StorageInv, PassedIsSaved
  <1>11. NewestIsLatest'
    <2> SUFFICES ASSUME NEW i \in DOMAIN reserveTable', NEW r, r = reserveTable'[i].reserve
                 PROVE  /\ Given(r)' # {}
                        /\ (\A j \in RowsOfReserve(r)' : j <= i) => HasLatest(i)'
                        /\ (\A j \in RowsOfReserve(r)' : reserveTable'[j].block <= reserveTable'[i].block) => HasLatest(i)'
      BY DEF NewestIsLatest
    <2>1. /\ DOMAIN reserveTable \subseteq DOMAIN reserveTable'
          /\ \A k \in DOMAIN reserveTable : reserveTable'[k] = reserveTable[k]
          /\ \A k \in DOMAIN reserveTable' \ DOMAIN reserveTable :
                 /\ \A j \in DOMAIN reserveTable : j < k
                 /\ reserveTable'[k].block \in D /\ reserveTable'[k] = rowOf[reserveTable'[k].block]
                 /\ \A j \in DOMAIN reserveTable : reserveTable[j] # reserveTable'[k]
                 /\ \A j \in DOMAIN reserveTable' \ DOMAIN reserveTable :
                        k < j => reserveTable'[k].block < reserveTable'[j].block
      BY <1>6 DEF AddedAfter
    <2>2. \A k \in DOMAIN reserveTable' : k \in Nat /\ reserveTable'[k].block \in Nat
      BY <1>6, RowsAre
    <2>3. \A b \in BlocksWith("add") : b \in Nat
      BY <1>1, JobIs
    <2>4. Given(r) \subseteq Given(r)' /\ \A c \in Given(r)' : c \in BlocksWith("add") /\ events[c].reserve = r /\ Saved(c)'
      BY <1>3, <1>7, <1>9 DEF Given
    <2>5. CASE \A k \in DOMAIN reserveTable' \ DOMAIN reserveTable : reserveTable'[k].reserve # r
      <3>1. i \in DOMAIN reserveTable /\ r = reserveTable[i].reserve
        BY <2>1, <2>5
      <3>2. Given(r)' = Given(r)
        <4>1. \A c \in Given(r)' : Saved(c)
          BY <2>1, <2>4, <2>5, <1>3 DEF Saved
        <4> QED  BY <2>4, <4>1 DEF Given
      <3>3. RowsOfReserve(r)' = RowsOfReserve(r) /\ RowsOfReserve(r) \subseteq DOMAIN reserveTable
        BY <2>1, <2>5 DEF RowsOfReserve
      <3>4. HasLatest(i) => HasLatest(i)'
        BY <1>3, <2>1, <3>1, <3>2 DEF HasLatest
      <3>5. /\ Given(r) # {}
            /\ (\A j \in RowsOfReserve(r) : j <= i) => HasLatest(i)
            /\ (\A j \in RowsOfReserve(r) : reserveTable[j].block <= reserveTable[i].block) => HasLatest(i)
        BY <3>1 DEF StorageInv, NewestIsLatest
      <3>6. \A j \in RowsOfReserve(r) : reserveTable'[j] = reserveTable[j]
        BY <2>1, <3>3
      <3> QED  BY <2>1, <3>1, <3>2, <3>3, <3>4, <3>5, <3>6
    <2>6. CASE \E k \in DOMAIN reserveTable' \ DOMAIN reserveTable : reserveTable'[k].reserve = r
      <3>1. PICK k \in DOMAIN reserveTable' \ DOMAIN reserveTable : reserveTable'[k].reserve = r
        BY <2>6
      <3>2. ASSUME NEW n \in DOMAIN reserveTable' \ DOMAIN reserveTable
            PROVE  \E b : /\ b = reserveTable'[n].block
                         /\ b \in BlocksWith("add") /\ events[b].reserve = reserveTable'[n].reserve
                       /\ reserveTable'[n].address = events[b].address /\ Saved(b)'
                       /\ \A j \in DOMAIN reserveTable :
                              reserveTable[j].reserve = events[b].reserve => reserveTable[j].block < b
        <4>1. PICK b \in D : b = reserveTable'[n].block /\ reserveTable'[n] = rowOf[b]
          BY <2>1
        <4>2. b \in BlocksWith("add") /\ events[b].reserve = reserveTable'[n].reserve /\ reserveTable'[n].address = events[b].address
              /\ Saved(b)'
          BY <1>4, <1>5, <1>7, <4>1
        <4>3. ~Saved(b)
          <5> SUFFICES ASSUME Saved(b)
                       PROVE  FALSE
            OBVIOUS
          <5>1. PICK j \in DOMAIN reserveTable : reserveTable[j].reserve = events[b].reserve /\ reserveTable[j].block = b
            BY DEF Saved
          <5>2. reserveTable[j].address = events[b].address
            BY <1>4, <5>1 DEF StorageInv, RowsAreTold
          <5>3. reserveTable[j] \in ReserveRow /\ rowOf[b] \in ReserveRow
            BY <1>1, <1>5, RowsAre DEF StorageTyped
          <5>4. reserveTable[j] = rowOf[b]
            BY <1>5, <5>1, <5>2, <5>3 DEF ReserveRow
          <5> QED  BY <2>1, <4>1, <5>4
        <4>4. \A j \in DOMAIN reserveTable : reserveTable[j].reserve = events[b].reserve => reserveTable[j].block < b
          BY <4>2, <4>3, NewAddIsAfterRows
        <4> QED  BY <4>1, <4>2, <4>4
      <3>3. Given(r)' # {}
        <4>1. PICK b \in BlocksWith("add") : events[b].reserve = r /\ Saved(b)'
          BY <3>1, <3>2
        <4>2. b \in Given(r)'
          BY <1>3, <1>9, <4>1 DEF Given
        <4> QED  BY <4>2
      <3>4. ASSUME \/ \A j \in RowsOfReserve(r)' : j <= i
                   \/ \A j \in RowsOfReserve(r)' : reserveTable'[j].block <= reserveTable'[i].block
            PROVE  HasLatest(i)'
        <4>1. k \in RowsOfReserve(r)' /\ i \in RowsOfReserve(r)'
          BY <3>1 DEF RowsOfReserve
        <4>2. i \notin DOMAIN reserveTable
          <5> SUFFICES ASSUME i \in DOMAIN reserveTable
                       PROVE  FALSE
            OBVIOUS
          <5>1. i < k /\ reserveTable'[i].block < reserveTable'[k].block
            BY <2>1, <3>1, <3>2
          <5>2. i \in Nat /\ k \in Nat /\ reserveTable'[i].block \in Nat /\ reserveTable'[k].block \in Nat
            BY <2>2
          <5> QED  BY <3>4, <4>1, <5>1, <5>2
        <4> SUFFICES ASSUME NEW a \in Given(r)', \A c \in Given(r)' : c <= a
                     PROVE  reserveTable'[i].address = events[a].address
          BY <1>3 DEF HasLatest
        <4>3. PICK b : /\ b = reserveTable'[i].block /\ b \in BlocksWith("add") /\ events[b].reserve = r /\ b \in Nat
                       /\ reserveTable'[i].address = events[b].address /\ b \in Given(r)'
                       /\ \A j \in DOMAIN reserveTable : reserveTable[j].reserve = r => reserveTable[j].block < b
          <5>1. PICK b : /\ b = reserveTable'[i].block /\ b \in BlocksWith("add") /\ events[b].reserve = r
                         /\ reserveTable'[i].address = events[b].address /\ Saved(b)'
                         /\ \A j \in DOMAIN reserveTable : reserveTable[j].reserve = r => reserveTable[j].block < b
            BY <3>2, <4>2
          <5>2. b \in Given(r)'
            BY <1>3, <1>9, <5>1 DEF Given
          <5> QED  BY <2>3, <5>1, <5>2
        <4>4. b <= a /\ a \in Nat
          BY <2>3, <2>4, <4>3
        <4>5. PICK m \in DOMAIN reserveTable' : reserveTable'[m].reserve = r /\ reserveTable'[m].block = a
          BY <1>3, <2>4 DEF Saved
        <4>6. m \in RowsOfReserve(r)' /\ m \in Nat /\ i \in Nat
          BY <2>2, <4>5 DEF RowsOfReserve
        <4>7. m \notin DOMAIN reserveTable
          <5>1. m \in DOMAIN reserveTable => a < b
            BY <2>1, <4>3, <4>5
          <5> QED  BY <4>3, <4>4, <5>1
        <4>8. a <= b
          <5>1. CASE m <= i
            <6>1. m < i => a < b
              BY <2>1, <4>2, <4>3, <4>5, <4>7
            <6>2. m = i => a = b
              BY <4>3, <4>5
            <6> QED  BY <4>3, <4>4, <4>6, <5>1, <6>1, <6>2
          <5>2. CASE reserveTable'[m].block <= reserveTable'[i].block
            BY <4>3, <4>5, <5>2
          <5> QED  BY <3>4, <4>6, <5>1, <5>2
        <4>9. a = b
          BY <4>3, <4>4, <4>8
        <4> QED  BY <4>3, <4>9
      <3> QED  BY <3>3, <3>4
    <2> QED  BY <2>5, <2>6
  <1> QED  BY <1>7, <1>8, <1>10, <1>11 DEF StorageInv

(* A job that fails leaves the rows of reserves and the stored trades, and *)
(* the resume point is that of a trade.                                    *)
LEMMA FailKeeps ==
    ASSUME StorageInv, Fail, UNCHANGED reserveTable
    PROVE  StorageInv'
  <1>1. StorageTyped
    BY DEF StorageInv
  <1>2. /\ events' = events /\ reserveTable' = reserveTable /\ tradeTable' = tradeTable /\ saving' = "none"
        /\ DOMAIN uncommitted' = {} /\ jobFrom' = Max({1} \cup DOMAIN tradeTable) /\ lostBlocks' = lostBlocks
    BY DEF Fail
  <1>3. jobFrom' \in 1 .. HeadBlock /\ jobFrom' \in {1} \cup DOMAIN tradeTable
    <2>1. HeadBlock \in Nat \ {0} /\ {1} \cup DOMAIN tradeTable \subseteq 1 .. HeadBlock
      BY <1>1, StorageAssumption DEF StorageTyped
    <2>2. {1} \cup DOMAIN tradeTable \in SUBSET Nat /\ \A t \in {1} \cup DOMAIN tradeTable : t <= HeadBlock
      BY <2>1
    <2>3. Max({1} \cup DOMAIN tradeTable) \in {1} \cup DOMAIN tradeTable
      BY <2>1, <2>2, MaxOfNaturals
    <2> QED  BY <1>2, <2>1, <2>3
  <1>4. StorageTyped'
    <2>1. DOMAIN uncommitted' \subseteq 1 .. HeadBlock
      BY <1>2
    <2>2. IsInjective(reserveTable)'
      BY <1>1, <1>2 DEF StorageTyped
    <2> QED  BY <1>1, <1>2, <1>3, <2>1, <2>2 DEF StorageTyped
  <1>5. (\A kind : BlocksWith(kind)' = BlocksWith(kind)) /\ (\A b : Saved(b)' <=> Saved(b))
    BY <1>2 DEF BlocksWith, Saved
  <1>6. ASSUME NEW b \in 1 .. HeadBlock, Passed(b)'
        PROVE  Passed(b)
    <2>1. b \in Nat \ {0} /\ ~(b < 1)
      OBVIOUS
    <2> QED  BY <1>2, <1>3, <1>6, <2>1 DEF Passed
  <1>7. \A kind : BlocksWith(kind) \subseteq 1 .. HeadBlock
    BY <1>1, JobIs
  <1>8. PassedIsSaved'
    BY <1>2, <1>5, <1>6, <1>7 DEF StorageInv, PassedIsSaved
  <1>9. RowsAreTold' /\ RowsFollowAdds' /\ SavedAreNear'
    BY <1>2, <1>5 DEF StorageInv, RowsAreTold, RowsFollowAdds, SavedAreNear
  <1>10. NewestIsLatest'
    BY <1>2, <1>5 DEF StorageInv, NewestIsLatest, HasLatest, Given, RowsOfReserve
  <1>11. StoredAreRight'
    <2>1. \A b, splits : SplitsAreRight(b, splits)' <=> SplitsAreRight(b, splits)
      BY <1>2 DEF SplitsAreRight, AddressesAround
    <2> QED  BY <1>2, <1>5, <2>1 DEF StorageInv, StoredAreRight
  <1> QED  BY <1>4, <1>8, <1>9, <1>10, <1>11 DEF StorageInv

(* The newest row of a reserve has its latest address.                     *)
LEMMA NewestAddressIs ==
    ASSUME StorageInv, NEW r, RowsOfReserve(r) # {}, NEW address \in NewestAddress(r)
    PROVE  \E j \in RowsOfReserve(r) : reserveTable[j].address = address /\ HasLatest(j)
  <1>1. StorageTyped
    BY DEF StorageInv
  <1>2. PICK newest : newest = Max({reserveTable[i].block : i \in RowsOfReserve(r)})
    OBVIOUS
  <1>3. PICK j \in RowsOfReserve(r) : reserveTable[j].block = newest /\ reserveTable[j].address = address
    BY <1>2 DEF NewestAddress
  <1>4. \A i \in RowsOfReserve(r) : reserveTable[i].block <= newest
    <2>1. RowsOfReserve(r) \subseteq DOMAIN reserveTable
      BY DEF RowsOfReserve
    <2>2. HeadBlock \in Nat /\ \A i \in RowsOfReserve(r) : reserveTable[i].block \in 1 .. HeadBlock
      BY <1>1, <2>1, RowsAre, StorageAssumption DEF StorageTyped
    <2>3. PICK blocks : blocks = {reserveTable[i].block : i \in RowsOfReserve(r)}
      OBVIOUS
    <2>4. blocks \in SUBSET Nat /\ blocks # {} /\ \A n \in blocks : n <= HeadBlock
      BY <2>2, <2>3
    <2>5. newest \in Nat /\ \A n \in blocks : newest >= n
      BY <1>2, <2>2, <2>3, <2>4, MaxOfNaturals
    <2>6. \A i \in RowsOfReserve(r) : reserveTable[i].block \in blocks
      BY <2>3
    <2> QED  BY <2>4, <2>5, <2>6
  <1>5. j \in DOMAIN reserveTable /\ reserveTable[j].reserve = r
    BY <1>3 DEF RowsOfReserve
  <1>6. HasLatest(j)
    BY <1>3, <1>4, <1>5 DEF StorageInv, NewestIsLatest
  <1> QED  BY <1>3, <1>6

(* The rebate wallets of a job are saved: their rows have the latest       *)
(* address of the reserve, which stays what it is.                         *)
LEMMA UpdateWalletsKeeps ==
    ASSUME StorageInv, UpdateWallets
    PROVE  StorageInv'
  <1>1. StorageTyped
    BY DEF StorageInv
  <1>2. CASE Fail /\ UNCHANGED reserveTable
    BY <1>2, FailKeeps
  <1>3. ASSUME ~(\E b \in InJob("wallet") : RowsOfReserve(events[b].reserve) = {}),
               NEW addressOf \in [InJob("wallet") -> ReserveAddrs],
               \A b \in InJob("wallet") : addressOf[b] \in NewestAddress(events[b].reserve),
               InsertReserves([b \in InJob("wallet") |->
                   [address |-> addressOf[b], reserve |-> events[b].reserve, block |-> b]]),
               saving = "wallets", saving' = "trades",
               events' = events, tradeTable' = tradeTable, uncommitted' = uncommitted, jobFrom' = jobFrom,
               lostBlocks' = lostBlocks
        PROVE  StorageInv'
    <2>1. PICK D, rowOf : /\ D = InJob("wallet")
                          /\ rowOf = [b \in InJob("wallet") |->
                                 [address |-> addressOf[b], reserve |-> events[b].reserve, block |-> b]]
      OBVIOUS
    <2>2. /\ D \in SUBSET (1 .. HeadBlock) /\ D \subseteq BlocksWith("wallet") /\ D \in SUBSET (InJob("add") \cup InJob("wallet"))
          /\ \A b \in D : events[b].kind = "wallet"
      BY <1>1, <2>1, JobIs DEF BlocksWith
    <2>3. /\ rowOf \in [D -> ReserveRow]
          /\ \A b \in D : /\ rowOf[b].block = b /\ rowOf[b].reserve = events[b].reserve
                          /\ rowOf[b].address = addressOf[b]
      <3>1. \A b \in D : [address |-> addressOf[b], reserve |-> events[b].reserve, block |-> b] \in ReserveRow
        BY <1>1, <1>3, <2>1, <2>2, JobIs DEF ReserveRow
      <3> QED  BY <2>1, <3>1
    <2>4. InsertReserves(rowOf)
      BY <1>3, <2>1
    <2>5. reserveTable' \in Seq(ReserveRow) /\ IsInjective(reserveTable)' /\ AddedAfter(D, rowOf)
      BY <1>1, <2>2, <2>3, <2>4, InsertReservesIs
    <2>6. /\ \A b : Saved(b) => Saved(b)'
          /\ \A b \in D : Saved(b)'
          /\ \A b : Saved(b)' => Saved(b) \/ b \in D
          /\ RowsAreTold' /\ RowsFollowAdds' /\ SavedAreNear' /\ StoredAreRight'
      <3>1. \A b \in InJob("add") : Saved(b)
        BY <1>3 DEF StorageInv, PassedIsSaved
      <3>2. \A b \in D : /\ rowOf[b].block = b /\ rowOf[b].reserve = events[b].reserve
                         /\ events[b].kind = "add" => rowOf[b].address = events[b].address
        BY <2>2, <2>3
      <3> QED  BY <1>3, <2>2, <2>3, <2>4, <3>1, <3>2, InsertedReserves
    <2>7. StorageTyped'
      BY <1>1, <1>3, <2>5 DEF StorageTyped
    <2>8. /\ JobTo' = JobTo /\ (\A kind : InJob(kind)' = InJob(kind)) /\ (\A kind : BlocksWith(kind)' = BlocksWith(kind))
          /\ (\A b : Passed(b)' = Passed(b))
      BY <1>3 DEF JobTo, InJob, BlocksWith, Passed
    <2>9. PassedIsSaved'
      BY <1>3, <2>1, <2>6, <2>8 DEF StorageInv, PassedIsSaved
    <2>10. \A r : Given(r)' = Given(r)
      <3>1. \A b \in BlocksWith("add") : b \notin D
        BY <2>2 DEF BlocksWith
      <3>2. \A b \in BlocksWith("add") : Saved(b)' <=> Saved(b)
        BY <2>6, <3>1
      <3> QED  BY <1>3, <2>8, <3>2 DEF Given
    <2>11. /\ DOMAIN reserveTable \subseteq DOMAIN reserveTable'
           /\ \A k \in DOMAIN reserveTable : reserveTable'[k] = reserveTable[k]
           /\ \A k \in DOMAIN reserveTable' \ DOMAIN reserveTable :
                  reserveTable'[k].block \in D /\ reserveTable'[k] = rowOf[reserveTable'[k].block]
      BY <2>5 DEF AddedAfter
    <2>12. NewestIsLatest'
      <3> SUFFICES ASSUME NEW i \in DOMAIN reserveTable', NEW r, r = reserveTable'[i].reserve
                   PROVE  /\ Given(r) # {}
                          /\ (\A j \in RowsOfReserve(r)' : j <= i) => HasLatest(i)'
                          /\ (\A j \in RowsOfReserve(r)' : reserveTable'[j].block <= reserveTable'[i].block) => HasLatest(i)'
        BY <2>10 DEF NewestIsLatest
      <3>1. CASE i \in DOMAIN reserveTable
        <4>1. RowsOfReserve(r) \subseteq RowsOfReserve(r)' /\ \A j \in RowsOfReserve(r) : reserveTable'[j] = reserveTable[j]
          BY <2>11 DEF RowsOfReserve
        <4>2. r = reserveTable[i].reserve /\ reserveTable'[i] = reserveTable[i]
          BY <2>11, <3>1
        <4>3. HasLatest(i) => HasLatest(i)'
          BY <1>3, <2>10, <4>2 DEF HasLatest
        <4>4. /\ Given(r) # {}
              /\ (\A j \in RowsOfReserve(r) : j <= i) => HasLatest(i)
              /\ (\A j \in RowsOfReserve(r) : reserveTable[j].block <= reserveTable[i].block) => HasLatest(i)
          BY <3>1, <4>2 DEF StorageInv, NewestIsLatest
        <4> QED  BY <4>1, <4>2, <4>3, <4>4
      <3>2. CASE i \notin DOMAIN reserveTable
        <4>1. PICK b \in D : b = reserveTable'[i].block /\ reserveTable'[i] = rowOf[b]
          BY <2>11, <3>2
        <4>2. events[b].reserve = r /\ reserveTable'[i].address = addressOf[b]
          BY <2>3, <4>1
        <4>3. RowsOfReserve(r) # {} /\ addressOf[b] \in NewestAddress(r)
          BY <1>3, <2>1, <4>2
        <4>4. PICK j \in RowsOfReserve(r) : reserveTable[j].address = addressOf[b] /\ HasLatest(j)
          BY <4>3, NewestAddressIs
        <4>5. j \in DOMAIN reserveTable /\ reserveTable[j].reserve = r
          BY <4>4 DEF RowsOfReserve
        <4>6. Given(r) # {}
          BY <4>5 DEF StorageInv, NewestIsLatest
        <4>7. HasLatest(i)'
          BY <1>3, <2>10, <4>2, <4>4, <4>5 DEF HasLatest
        <4> QED  BY <4>6, <4>7
      <3> QED  BY <3>1, <3>2
    <2> QED  BY <2>6, <2>7, <2>9, <2>12 DEF StorageInv
  <1> QED  BY <1>2, <1>3 DEF UpdateWallets

(* The rows a trade of the job is stored with: all reserves added up to it *)
(* are saved, and none that was added more than a job's length after it.   *)
LEMMA SplitRowsAreRight ==
    ASSUME StorageInv, saving = "trades", NEW b \in InJob("trade") \ DOMAIN tradeTable,
           0 \notin Range(SplitRows(events[b].route))
    PROVE  SplitsAreRight(b, SplitRows(events[b].route))
  <1>1. StorageTyped
    BY DEF StorageInv
  <1>2. PICK route, splits : route = events[b].route /\ splits = SplitRows(route)
    OBVIOUS
  <1>3. /\ b \in BlocksWith("trade") /\ b \in Nat /\ b <= JobTo /\ JobTo \in Nat /\ jobFrom \in Nat /\ JobBlocks \in Nat
        /\ HeadBlock \in Nat
    BY <1>1, JobIs
  <1>4. route \in Seq(ReserveIDs) /\ Len(route) \in Nat /\ DOMAIN route = 1 .. Len(route)
    BY <1>1, <1>2, <1>3, JobIs, LenProperties, StorageAssumption
  <1>5. splits = [i \in DOMAIN route |-> Max(RowsOfReserve(route[i]) \cup {0})]
    BY <1>2 DEF SplitRows
  <1>6. Len(splits) = Len(route)
    BY <1>4, <1>5
  <1>7. ASSUME NEW i \in DOMAIN route
        PROVE  /\ splits[i] \in RowsOfReserve(route[i])
               /\ \A j \in RowsOfReserve(route[i]) : j <= splits[i]
    <2>1. PICK rows : rows = RowsOfReserve(route[i]) \cup {0}
      OBVIOUS
    <2>2. PICK n \in Nat : DOMAIN reserveTable = 1 .. n
      BY <1>1, RowsAre DEF StorageTyped
    <2>3. rows \in SUBSET Nat /\ rows # {} /\ \A j \in rows : j <= n
      BY <2>1, <2>2 DEF RowsOfReserve
    <2>4. Max(rows) \in rows /\ \A j \in rows : Max(rows) >= j
      BY <2>3, MaxOfNaturals
    <2>5. splits[i] = Max(rows) /\ splits[i] \in Range(splits)
      BY <1>5, <2>1 DEF Range
    <2>6. splits[i] # 0
      BY <1>2, <2>5
    <2>7. splits[i] \in RowsOfReserve(route[i])
      BY <2>1, <2>4, <2>5, <2>6
    <2>8. \A j \in RowsOfReserve(route[i]) : j <= splits[i]
      BY <2>1, <2>3, <2>4, <2>5
    <2> QED  BY <2>7, <2>8
  <1>8. ASSUME NEW i \in DOMAIN route
        PROVE  /\ splits[i] \in DOMAIN reserveTable /\ reserveTable[splits[i]].reserve = route[i]
               /\ reserveTable[splits[i]].address \in AddressesAround(route[i], b)
    <2>1. PICK row : row = splits[i] /\ row \in DOMAIN reserveTable /\ reserveTable[row].reserve = route[i]
      BY <1>7 DEF RowsOfReserve
    <2>2. PICK g : g = Given(route[i]) /\ g # {} /\ HasLatest(row)
      BY <1>7, <2>1 DEF StorageInv, NewestIsLatest
    <2>3. g \subseteq BlocksWith("add") /\ g \in SUBSET Nat /\ \A c \in g : c <= HeadBlock
      <3>1. BlocksWith("add") \subseteq 1 .. HeadBlock
        BY <1>1, JobIs
      <3> QED  BY <1>3, <2>2, <3>1 DEF Given
    <2>4. PICK a \in g : \A c \in g : a >= c
      BY <1>3, <2>2, <2>3, MaxOfNaturals
    <2>5. reserveTable[row].address = events[a].address
      <3>1. \A c \in g : c <= a
        BY <2>3, <2>4
      <3> QED  BY <2>1, <2>2, <2>4, <3>1 DEF HasLatest
    <2>6. a \in BlocksWith("add") /\ events[a].reserve = route[i] /\ Saved(a) /\ a \in Nat
      BY <2>2, <2>3, <2>4 DEF Given
    <2>7. PICK until : until = (IF b \in lostBlocks THEN HeadBlock ELSE b + JobBlocks) /\ a <= until
      <3>1. CASE b \in lostBlocks
        BY <1>3, <2>3, <2>4, <3>1
      <3>2. CASE b \notin lostBlocks
        BY <1>3, <2>6, <3>2 DEF StorageInv, SavedAreNear
      <3> QED  BY <3>1, <3>2
    <2>8. ASSUME NEW c \in BlocksWith("add"), events[c].reserve = route[i], c <= b
          PROVE  c <= a
      <3>1. c \in Nat
        BY <1>1, JobIs
      <3>2. Saved(c)
        <4>1. CASE c < jobFrom
          BY <4>1 DEF StorageInv, PassedIsSaved, Passed
        <4>2. CASE ~(c < jobFrom)
          <5>1. jobFrom <= c /\ c <= JobTo
            BY <1>3, <2>8, <3>1, <4>2
          <5>2. c \in InJob("add")
            BY <1>1, <5>1, JobIs
          <5> QED  BY <5>2 DEF StorageInv, PassedIsSaved
        <4> QED  BY <4>1, <4>2
      <3>3. c \in g
        BY <2>2, <2>8, <3>2 DEF Given
      <3> QED  BY <2>4, <2>6, <3>1, <3>3
    <2>9. PICK given, before :
              /\ given = {c \in 1 .. HeadBlock : events[c].kind = "add" /\ events[c].reserve = route[i] /\ c <= until}
              /\ before = {c \in given : c <= b}
      OBVIOUS
    <2>10. a \in given
      BY <2>6, <2>7, <2>9 DEF BlocksWith
    <2>11. before = {} \/ a >= Max(before)
      <3> SUFFICES ASSUME before # {}
                   PROVE  a >= Max(before)
        OBVIOUS
      <3>1. before \in SUBSET Nat /\ \A c \in before : c <= HeadBlock
        BY <1>3, <2>9
      <3>2. Max(before) \in before
        BY <1>3, <3>1, MaxOfNaturals
      <3>3. Max(before) \in BlocksWith("add") /\ events[Max(before)].reserve = route[i] /\ Max(before) <= b
        BY <2>9, <3>2 DEF BlocksWith
      <3>4. Max(before) <= a
        BY <2>8, <3>3
      <3> QED  BY <2>6, <3>1, <3>2, <3>4
    <2>12. events[a].address \in AddressesAround(route[i], b)
      BY <2>7, <2>9, <2>10, <2>11 DEF AddressesAround
    <2> QED  BY <2>1, <2>5, <2>12
  <1> QED  BY <1>2, <1>6, <1>8 DEF SplitsAreRight

(* A trade is inserted with its splits: those that are stored already, or  *)
(* the rows of its reserves.                                               *)
LEMMA InsertTradeKeeps ==
    ASSUME StorageInv, InsertTrade
    PROVE  StorageInv'
  <1>1. StorageTyped
    BY DEF StorageInv
  <1>2. CASE Fail /\ UNCHANGED reserveTable
    BY <1>2, FailKeeps
  <1>3. CASE ~(Fail /\ UNCHANGED reserveTable)
    <2>1. PICK b, splits, kept :
              /\ b = Min(InJob("trade") \ DOMAIN uncommitted) /\ splits = SplitRows(events[b].route)
              /\ kept = IF b \in DOMAIN tradeTable THEN tradeTable[b] ELSE splits
      OBVIOUS
    <2>2. /\ saving = "trades" /\ InJob("trade") \ DOMAIN uncommitted # {} /\ 0 \notin Range(splits)
          /\ uncommitted' = [c \in DOMAIN uncommitted \cup {b} |-> IF c = b THEN kept ELSE uncommitted[c]]
          /\ events' = events /\ tradeTable' = tradeTable /\ jobFrom' = jobFrom /\ saving' = saving
          /\ reserveTable' = reserveTable /\ lostBlocks' = lostBlocks
      BY <1>3, <2>1 DEF InsertTrade
    <2>3. b \in InJob("trade")
      <3>1. InJob("trade") \ DOMAIN uncommitted \in SUBSET Nat
        BY <1>1, JobIs
      <3> QED  BY <2>1, <2>2, <3>1, MinOfNaturals
    <2>4. SplitsAreRight(b, kept)
      <3>1. CASE b \in DOMAIN tradeTable
        BY <2>1, <3>1 DEF StorageInv, StoredAreRight
      <3>2. CASE b \notin DOMAIN tradeTable
        BY <2>1, <2>2, <2>3, <3>2, SplitRowsAreRight
      <3> QED  BY <3>1, <3>2
    <2>5. /\ (\A kind : BlocksWith(kind)' = BlocksWith(kind)) /\ (\A c : Saved(c)' <=> Saved(c)) /\ (\A c : Passed(c)' <=> Passed(c))
          /\ (\A kind : InJob(kind)' = InJob(kind))
          /\ \A c, s : SplitsAreRight(c, s)' <=> SplitsAreRight(c, s)
      BY <2>2 DEF BlocksWith, Saved, Passed, InJob, JobTo, SplitsAreRight, AddressesAround
    <2>6. DOMAIN uncommitted' = DOMAIN uncommitted \cup {b}
          /\ \A c \in DOMAIN uncommitted' : uncommitted'[c] = IF c = b THEN kept ELSE uncommitted[c]
      BY <2>2
    <2>7. StorageTyped'
      <3>1. b \in 1 .. HeadBlock
        BY <1>1, <2>3, JobIs
      <3>2. IsInjective(reserveTable)'
        BY <1>1, <2>2 DEF StorageTyped
      <3> QED  BY <1>1, <2>2, <2>6, <3>1, <3>2 DEF StorageTyped
    <2>8. PassedIsSaved'
      BY <2>2, <2>3, <2>5, <2>6 DEF StorageInv, PassedIsSaved
    <2>9. RowsAreTold' /\ RowsFollowAdds' /\ SavedAreNear'
      BY <2>2, <2>5 DEF StorageInv, RowsAreTold, RowsFollowAdds, SavedAreNear
    <2>10. NewestIsLatest'
      BY <2>2, <2>5 DEF StorageInv, NewestIsLatest, HasLatest, Given, RowsOfReserve
    <2>11. StoredAreRight'
      BY <2>2, <2>4, <2>5, <2>6 DEF StorageInv, StoredAreRight
    <2> QED  BY <2>7, <2>8, <2>9, <2>10, <2>11 DEF StorageInv
  <1> QED  BY <1>2, <1>3

(* A trade that is lost may later be stored with more addresses.           *)
LEMMA AddressesGrow ==
    ASSUME NEW b \in 1 .. HeadBlock, events' = events, lostBlocks \subseteq lostBlocks',
           NEW splits, SplitsAreRight(b, splits), reserveTable' = reserveTable
    PROVE  SplitsAreRight(b, splits)'
  <1>1. ASSUME NEW r
        PROVE  AddressesAround(r, b) \subseteq AddressesAround(r, b)'
    <2>1. PICK until, later :
              /\ until = IF b \in lostBlocks THEN HeadBlock ELSE b + JobBlocks
              /\ later = IF b \in lostBlocks' THEN HeadBlock ELSE b + JobBlocks
      OBVIOUS
    <2>2. /\ until \in Nat /\ later \in Nat /\ b <= until /\ b <= later
          /\ \A c \in 1 .. HeadBlock : c <= until => c <= later
      BY <2>1, StorageAssumption
    <2>3. PICK given, more :
              /\ given = {c \in 1 .. HeadBlock : events[c].kind = "add" /\ events[c].reserve = r /\ c <= until}
              /\ more = {c \in 1 .. HeadBlock : events[c].kind = "add" /\ events[c].reserve = r /\ c <= later}
      OBVIOUS
    <2>4. given \subseteq more /\ {c \in given : c <= b} = {c \in more : c <= b}
      BY <2>2, <2>3
    <2>5. PICK before : before = {c \in given : c <= b} /\ before = {c \in more : c <= b}
      BY <2>4
    <2>6. /\ AddressesAround(r, b) = {events[c].address : c \in {d \in given : before = {} \/ d >= Max(before)}}
          /\ AddressesAround(r, b)' = {events[c].address : c \in {d \in more : before = {} \/ d >= Max(before)}}
      BY <2>1, <2>3, <2>5 DEF AddressesAround
    <2> QED  BY <2>4, <2>6
  <1> QED  BY <1>1 DEF SplitsAreRight

(* The COMMIT of the wallets of a job fails: they are lost, and the job    *)
(* goes on.                                                                *)
LEMMA CommitWalletsFailsKeeps ==
    ASSUME StorageInv, CommitWalletsFails
    PROVE  StorageInv'
  <1>1. StorageTyped
    BY DEF StorageInv
  <1>2. /\ saving = "wallets" /\ saving' = "trades" /\ lostBlocks' = lostBlocks \cup InJob("wallet")
        /\ events' = events /\ reserveTable' = reserveTable /\ tradeTable' = tradeTable
        /\ uncommitted' = uncommitted /\ jobFrom' = jobFrom
    BY DEF CommitWalletsFails
  <1>3. StorageTyped'
    <2>1. IsInjective(reserveTable)' /\ InJob("wallet") \subseteq 1 .. HeadBlock
      BY <1>1, <1>2, JobIs DEF StorageTyped
    <2> QED  BY <1>1, <1>2, <2>1 DEF StorageTyped
  <1>4. /\ (\A kind : BlocksWith(kind)' = BlocksWith(kind)) /\ (\A c : Saved(c)' <=> Saved(c)) /\ (\A c : Passed(c)' <=> Passed(c))
        /\ (\A kind : InJob(kind)' = InJob(kind))
    BY <1>2 DEF BlocksWith, Saved, Passed, InJob, JobTo
  <1>5. PassedIsSaved'
    BY <1>2, <1>4 DEF StorageInv, PassedIsSaved
  <1>6. RowsAreTold' /\ RowsFollowAdds' /\ SavedAreNear'
    BY <1>2, <1>4 DEF StorageInv, RowsAreTold, RowsFollowAdds, SavedAreNear
  <1>7. NewestIsLatest'
    BY <1>2, <1>4 DEF StorageInv, NewestIsLatest, HasLatest, Given, RowsOfReserve
  <1>8. StoredAreRight'
    <2>1. \A b \in DOMAIN tradeTable \cup DOMAIN uncommitted : b \in 1 .. HeadBlock
      BY <1>1 DEF StorageTyped
    <2> QED  BY <1>2, <1>4, <2>1, AddressesGrow DEF StorageInv, StoredAreRight
  <1> QED  BY <1>3, <1>5, <1>6, <1>7, <1>8 DEF StorageInv

(* The trades of the job are committed, all of them, or lost.              *)
LEMMA CommitTradesKeeps ==
    ASSUME StorageInv, CommitTrades \/ CommitTradesFails
    PROVE  StorageInv'
  <1>1. StorageTyped
    BY DEF StorageInv
  <1>2. /\ saving = "trades" /\ InJob("trade") \subseteq DOMAIN uncommitted
        /\ DOMAIN uncommitted' = {} /\ events' = events /\ reserveTable' = reserveTable
        /\ \/ JobTo = HeadBlock /\ saving' = "done" /\ jobFrom' = jobFrom
           \/ saving' = "none" /\ jobFrom' = JobTo
    BY DEF CommitTrades, CommitTradesFails, NextJob
  <1>3. DOMAIN uncommitted = InJob("trade")
    BY <1>2 DEF StorageInv, PassedIsSaved
  <1>4. /\ DOMAIN tradeTable \subseteq DOMAIN tradeTable' /\ DOMAIN tradeTable' \subseteq DOMAIN tradeTable \cup InJob("trade")
        /\ \A b \in DOMAIN tradeTable' :
               \/ b \in DOMAIN tradeTable /\ tradeTable'[b] = tradeTable[b]
               \/ b \in DOMAIN uncommitted /\ tradeTable'[b] = uncommitted[b]
        /\ lostBlocks \subseteq lostBlocks' /\ lostBlocks' \subseteq lostBlocks \cup InJob("trade")
        /\ InJob("trade") \subseteq DOMAIN tradeTable' \cup lostBlocks'
    <2>1. CASE CommitTrades
      <3>1. /\ DOMAIN tradeTable' = DOMAIN tradeTable \cup DOMAIN uncommitted /\ lostBlocks' = lostBlocks
            /\ \A b \in DOMAIN tradeTable' : tradeTable'[b] = IF b \in DOMAIN uncommitted THEN uncommitted[b] ELSE tradeTable[b]
        BY <2>1 DEF CommitTrades
      <3> QED  BY <1>3, <3>1
    <2>2. CASE CommitTradesFails
      BY <2>2 DEF CommitTradesFails
    <2> QED  BY <2>1, <2>2
  <1>5. /\ JobTo \in 1 .. HeadBlock /\ JobTo \in Nat /\ jobFrom \in Nat
        /\ \A kind : \A b \in BlocksWith(kind) : b \in Nat /\ b \in 1 .. HeadBlock /\ (jobFrom <= b /\ b <= JobTo => b \in InJob(kind))
        /\ \A b \in InJob("trade") : b \in BlocksWith("trade") /\ b <= JobTo /\ b \in 1 .. HeadBlock
        /\ jobFrom <= JobTo
    BY <1>1, JobIs
  <1>6. StorageTyped'
    <2>1. IsInjective(reserveTable)'
      BY <1>1, <1>2 DEF StorageTyped
    <2>2. DOMAIN tradeTable' \subseteq 1 .. HeadBlock /\ lostBlocks' \subseteq 1 .. HeadBlock
      BY <1>1, <1>4, <1>5 DEF StorageTyped
    <2> QED  BY <1>1, <1>2, <1>5, <2>1, <2>2 DEF StorageTyped
  <1>7. (\A kind : BlocksWith(kind)' = BlocksWith(kind)) /\ (\A b : Saved(b)' <=> Saved(b))
    BY <1>2 DEF BlocksWith, Saved
  <1>8. ASSUME NEW kind, NEW b \in BlocksWith(kind), Passed(b)'
        PROVE  Passed(b) \/ b \in InJob(kind)
    <2> SUFFICES ASSUME ~(b < jobFrom), ~(\E t \in DOMAIN tradeTable : b < t)
                 PROVE  b \in InJob(kind)
      BY DEF Passed
    <2>1. b \in Nat /\ jobFrom <= b
      BY <1>5
    <2>2. CASE b < jobFrom'
      BY <1>2, <1>5, <2>1, <2>2
    <2>3. CASE \E t \in DOMAIN tradeTable' : b < t
      <3>1. PICK t \in InJob("trade") : b < t
        BY <1>4, <2>3
      <3>2. t \in BlocksWith("trade") /\ t <= JobTo
        BY <1>5
      <3>3. t \in Nat /\ JobTo \in Nat
        BY <1>5, <3>2
      <3>4. b <= JobTo
        BY <2>1, <3>1, <3>2, <3>3
      <3> QED  BY <1>5, <2>1, <3>4
    <2>4. b < jobFrom' \/ \E t \in DOMAIN tradeTable' : b < t
      BY <1>8 DEF Passed
    <2> QED  BY <2>2, <2>3, <2>4
  <1>9. PassedIsSaved'
    <2>1. \A b \in BlocksWith("add") : Passed(b)' => Saved(b)
      BY <1>2, <1>8 DEF StorageInv, PassedIsSaved
    <2>2. \A b \in BlocksWith("wallet") : Passed(b)' => Saved(b) \/ b \in lostBlocks'
      BY <1>2, <1>4, <1>8 DEF StorageInv, PassedIsSaved
    <2>3. \A b \in BlocksWith("trade") : Passed(b)' => b \in DOMAIN tradeTable' \cup lostBlocks'
      BY <1>4, <1>8 DEF StorageInv, PassedIsSaved
    <2>4. saving' # "none" => InJob("add")' = InJob("add") /\ InJob("wallet")' = InJob("wallet")
      BY <1>2 DEF InJob, JobTo
    <2>5. saving' # "none" => /\ \A b \in InJob("add")' : Saved(b)'
                              /\ \A b \in InJob("wallet")' : Saved(b)' \/ b \in lostBlocks'
      BY <1>2, <1>4, <1>7, <2>4 DEF StorageInv, PassedIsSaved
    <2> QED  BY <1>2, <1>7, <2>1, <2>2, <2>3, <2>5 DEF PassedIsSaved
  <1>10. RowsAreTold' /\ RowsFollowAdds' /\ SavedAreNear'
    BY <1>2, <1>4, <1>7 DEF StorageInv, RowsAreTold, RowsFollowAdds, SavedAreNear
  <1>11. NewestIsLatest'
    BY <1>2, <1>7 DEF StorageInv, NewestIsLatest, HasLatest, Given, RowsOfReserve
  <1>12. StoredAreRight'
    <2>1. DOMAIN tradeTable' \subseteq BlocksWith("trade")
      BY <1>4, <1>5 DEF StorageInv, StoredAreRight
    <2>2. ASSUME NEW b \in DOMAIN tradeTable', NEW splits, splits = tradeTable'[b]
          PROVE  SplitsAreRight(b, splits)'
      <3>1. b \in 1 .. HeadBlock
        BY <1>6 DEF StorageTyped
      <3>2. SplitsAreRight(b, splits)
        BY <1>4, <2>2 DEF StorageInv, StoredAreRight
      <3> QED  BY <1>2, <1>4, <3>1, <3>2, AddressesGrow
    <2> QED  BY <1>2, <1>7, <2>1, <2>2 DEF StoredAreRight
  <1> QED  BY <1>6, <1>9, <1>10, <1>11, <1>12 DEF StorageInv

(* The storage begins with empty tables.                                   *)
LEMMA StorageStart == StorageInit => StorageInv
  <1> SUFFICES ASSUME StorageInit
               PROVE  StorageInv
    OBVIOUS
  <1>1. /\ events \in [1 .. HeadBlock -> Adds \cup WalletSets \cup Trades \cup {NoEvent}]
        /\ reserveTable \in Seq(ReserveRow) /\ DOMAIN reserveTable = {} /\ DOMAIN tradeTable = {} /\ DOMAIN uncommitted = {}
        /\ jobFrom = 1 /\ saving = "none" /\ lostBlocks = {}
    BY DEF StorageInit
  <1>2. StorageTyped
    BY <1>1, StorageAssumption DEF StorageTyped, IsInjective
  <1>3. \A kind : \A b \in BlocksWith(kind) : ~Passed(b)
    BY <1>1, <1>2, JobIs DEF Passed, BlocksWith
  <1>4. PassedIsSaved
    BY <1>1, <1>3 DEF PassedIsSaved
  <1>5. RowsAreTold /\ RowsFollowAdds /\ SavedAreNear /\ NewestIsLatest /\ StoredAreRight
    BY <1>1 DEF RowsAreTold, RowsFollowAdds, SavedAreNear, NewestIsLatest, StoredAreRight, Saved
  <1> QED  BY <1>2, <1>4, <1>5 DEF StorageInv

(* Every step of the storage keeps the invariant.                          *)
LEMMA StorageSteps == StorageInv /\ [StorageNext]_storageVars => StorageInv'
  <1> SUFFICES ASSUME StorageInv, [StorageNext]_storageVars
               PROVE  StorageInv'
    OBVIOUS
  <1>1. CASE StorageStop
    BY <1>1, FailKeeps DEF StorageStop
  <1>2. CASE UNCHANGED storageVars
    <2>1. /\ events' = events /\ reserveTable' = reserveTable /\ tradeTable' = tradeTable /\ uncommitted' = uncommitted
          /\ jobFrom' = jobFrom /\ saving' = saving /\ lostBlocks' = lostBlocks
      BY <1>2 DEF storageVars
    <2>2. StorageTyped'
      <3>1. IsInjective(reserveTable)'
        BY <2>1 DEF StorageInv, StorageTyped
      <3> QED  BY <2>1, <3>1 DEF StorageInv, StorageTyped
    <2>3. /\ (\A kind : BlocksWith(kind)' = BlocksWith(kind)) /\ (\A c : Saved(c)' <=> Saved(c)) /\ (\A c : Passed(c)' <=> Passed(c))
          /\ (\A kind : InJob(kind)' = InJob(kind))
          /\ \A c, s : SplitsAreRight(c, s)' <=> SplitsAreRight(c, s)
      BY <2>1 DEF BlocksWith, Saved, Passed, InJob, JobTo, SplitsAreRight, AddressesAround
    <2>4. RowsAreTold' /\ PassedIsSaved' /\ RowsFollowAdds' /\ SavedAreNear' /\ StoredAreRight'
      BY <2>1, <2>3 DEF StorageInv, RowsAreTold, PassedIsSaved, RowsFollowAdds, SavedAreNear, StoredAreRight
    <2>5. NewestIsLatest'
      BY <2>1, <2>3 DEF StorageInv, NewestIsLatest, HasLatest, Given, RowsOfReserve
    <2> QED  BY <2>2, <2>4, <2>5 DEF StorageInv
  <1> QED  BY <1>1, <1>2, SaveReservesKeeps, UpdateWalletsKeeps, CommitWalletsFailsKeeps, InsertTradeKeeps,
              CommitTradesKeeps DEF StorageNext

(* The invariant says of every block below the resume point what the       *)
(* property says of those of reserves, and has the splits of every trade.  *)
LEMMA StorageInvImplies == StorageInv => StorageTypeOK /\ ReservesAreNotPassed /\ SplitsHaveTheirReserves
  <1> SUFFICES ASSUME StorageInv
               PROVE  StorageTypeOK /\ ReservesAreNotPassed /\ SplitsHaveTheirReserves
    OBVIOUS
  <1>1. StorageTyped
    BY DEF StorageInv
  <1>2. StorageTypeOK
    <2>1. \A i \in DOMAIN reserveTable : reserveTable[i] \in ReserveRow
      BY <1>1, RowsAre DEF StorageTyped
    <2> QED  BY <1>1, <2>1 DEF StorageTyped, StorageTypeOK, ReserveRow
  <1>3. ReservesAreNotPassed
    <2> SUFFICES ASSUME NEW b \in 1 .. HeadBlock, events[b].kind \in {"add", "wallet"},
                        b < Max({1} \cup DOMAIN tradeTable)
                 PROVE  Saved(b) \/ (events[b].kind = "wallet" /\ b \in lostBlocks)
      BY DEF ReservesAreNotPassed, Saved
    <2>1. Max({1} \cup DOMAIN tradeTable) \in {1} \cup DOMAIN tradeTable
      <3>1. HeadBlock \in Nat \ {0} /\ {1} \cup DOMAIN tradeTable \subseteq 1 .. HeadBlock
        BY <1>1, StorageAssumption DEF StorageTyped
      <3>2. {1} \cup DOMAIN tradeTable \in SUBSET Nat /\ \A t \in {1} \cup DOMAIN tradeTable : t <= HeadBlock
        BY <3>1
      <3> QED  BY <3>1, <3>2, MaxOfNaturals
    <2>2. ~(b < 1)
      OBVIOUS
    <2>3. Passed(b)
      BY <2>1, <2>2 DEF Passed
    <2> QED  BY <2>3 DEF StorageInv, PassedIsSaved, BlocksWith
  <1>4. SplitsHaveTheirReserves
    BY DEF StorageInv, StoredAreRight, SplitsAreRight, SplitsHaveTheirReserves
  <1> QED  BY <1>2, <1>3, <1>4

-----------------------------------------------------------------------------
(* The fetchers of Binance trades and their post-processor.                *)

MarketTrade == [pair : PairNames, parties : SUBSET TradeAccounts]

(* The trades of a pair that an account has made.                          *)
MadeBy(a, p) == {t \in OfPair(p) : a \in market[t].parties}

TradeFetch == [batch : Nat \ {0}, left : SUBSET PairNames, next : [PairNames -> Nat],
               got : [PairNames -> SUBSET Nat], failed : BOOLEAN]

TradesTyped ==
    /\ market \in Seq(MarketTrade)
    /\ DOMAIN tradeRows \subseteq DOMAIN market
    /\ \A t \in DOMAIN tradeRows : tradeRows[t] \in market[t].parties
    /\ fetchOf \in [TradeAccounts -> TradeFetch \cup {NoFetch}]
    /\ converted \subseteq DOMAIN tradeRows
    /\ notETH \in [PairNames -> SUBSET Nat]
    /\ \A p \in PairNames : notETH[p] \subseteq DOMAIN tradeRows \cap OfPair(p)

(* A fetch f of an account has passed only what is stored or what it has   *)
(* got; a trade that is made meanwhile is still ahead of it.               *)
FetchPasses(a, f) ==
    f # NoFetch =>
        \A p \in PairNames :
            /\ f.got[p] \subseteq MadeBy(a, p) /\ f.next[p] <= Len(market) + 1
            /\ \A t \in MadeBy(a, p) : t < f.next[p] => t \in DOMAIN tradeRows \cup f.got[p]

FetchesPass == \A a \in TradeAccounts : FetchPasses(a, fetchOf[a])

(* No trade of an account is missing that is older than one stored for it. *)
OlderTradesAreStored ==
    \A a \in TradeAccounts, p \in PairNames : \A t \in MadeBy(a, p), r \in OfPair(p) :
        r \in DOMAIN tradeRows /\ tradeRows[r] = a /\ t < r => t \in DOMAIN tradeRows

(* What is stored before a converted trade of its pair is converted.       *)
OlderAreConverted ==
    \A p \in PairNames : \A t \in DOMAIN tradeRows \cap OfPair(p), u \in converted \cap OfPair(p) :
        t < u => t \in converted \cup outOfTime

(* What the post-processor has read comes after the converted ones, and    *)
(* what is stored before it has been read as well.                         *)
ReadInOrder ==
    \A p \in PairNames : \A u \in notETH[p] :
        /\ \A t \in converted \cap OfPair(p) : t < u
        /\ \A t \in DOMAIN tradeRows \cap OfPair(p) : t < u => t \in converted \cup notETH[p] \cup outOfTime

TradesInv == TradesTyped /\ FetchesPass /\ OlderTradesAreStored /\ OlderAreConverted /\ ReadInOrder

(* Trades are numbered in the order in which they are made.                *)
LEMMA MarketIs ==
    ASSUME market \in Seq(MarketTrade)
    PROVE  /\ Len(market) \in Nat /\ DOMAIN market = 1 .. Len(market)
           /\ \A t \in DOMAIN market : market[t] \in MarketTrade /\ t \in Nat /\ t <= Len(market)
           /\ \A p : OfPair(p) \in SUBSET Nat /\ \A t \in OfPair(p) : t \in DOMAIN market /\ t <= Len(market)
  <1>1. Len(market) \in Nat /\ DOMAIN market = 1 .. Len(market)
    BY LenProperties
  <1>2. \A t \in DOMAIN market : market[t] \in MarketTrade
    BY <1>1, ElementOfSeq
  <1>3. \A t \in DOMAIN market : t \in Nat /\ t <= Len(market)
    BY <1>1
  <1> QED  BY <1>1, <1>2, <1>3 DEF OfPair

(* The newest trade stored for an account, if there is one.                *)
LEMMA LastStoredTradeIs ==
    ASSUME TradesTyped, NEW a, NEW p
    PROVE  /\ GetLastStoredID(p, a) \in Nat /\ GetLastStoredID(p, a) <= Len(market)
           /\ \/ GetLastStoredID(p, a) = 0
              \/ /\ GetLastStoredID(p, a) \in DOMAIN tradeRows \cap OfPair(p)
                 /\ tradeRows[GetLastStoredID(p, a)] = a
  <1>1. PICK T : T = {0} \cup {t \in DOMAIN tradeRows : t \in OfPair(p) /\ tradeRows[t] = a}
    OBVIOUS
  <1>2. T \in SUBSET Nat /\ T # {} /\ Len(market) \in Nat /\ \A t \in T : t <= Len(market)
    BY <1>1, MarketIs DEF TradesTyped
  <1>3. Max(T) \in T
    BY <1>2, MaxOfNaturals
  <1>4. GetLastStoredID(p, a) = Max(T)
    BY <1>1 DEF GetLastStoredID
  <1> QED  BY <1>1, <1>2, <1>3, <1>4

(* The newest converted trade of a pair, if there is one, is not older     *)
(* than another.                                                           *)
LEMMA MaxTimestampIs ==
    ASSUME TradesTyped, NEW p
    PROVE  /\ MaxTimestamp(p) \in Nat /\ (MaxTimestamp(p) = 0 \/ MaxTimestamp(p) \in converted \cap OfPair(p))
           /\ \A u \in converted \cap OfPair(p) : u <= MaxTimestamp(p)
  <1>1. PICK T : T = {0} \cup (converted \cap OfPair(p))
    OBVIOUS
  <1>2. T \in SUBSET Nat /\ T # {} /\ Len(market) \in Nat /\ \A t \in T : t <= Len(market)
    BY <1>1, MarketIs DEF TradesTyped
  <1>3. Max(T) \in T /\ \A t \in T : Max(T) >= t
    BY <1>2, MaxOfNaturals
  <1>4. MaxTimestamp(p) = Max(T)
    BY <1>1 DEF MaxTimestamp
  <1> QED  BY <1>1, <1>2, <1>3, <1>4

(* An answer has the oldest trades from the id asked for on; it is empty   *)
(* only if there are none.                                                 *)
LEMMA TradePageIs ==
    ASSUME TradesTyped, NEW a \in TradeAccounts, NEW p \in PairNames, fetchOf[a] # NoFetch
    PROVE  /\ TradePage(a, p) \subseteq MadeBy(a, p)
           /\ TradePage(a, p) = {} => \A t \in MadeBy(a, p) : t < fetchOf[a].next[p]
           /\ TradePage(a, p) # {} =>
                 /\ Max(TradePage(a, p)) \in Nat /\ Max(TradePage(a, p)) <= Len(market)
                 /\ \A t \in MadeBy(a, p) : t <= Max(TradePage(a, p)) => t < fetchOf[a].next[p] \/ t \in TradePage(a, p)
  <1>1. fetchOf[a].next[p] \in Nat
    BY DEF TradesTyped, TradeFetch
  <1>2. PICK all : all = {t \in OfPair(p) : a \in market[t].parties /\ t >= fetchOf[a].next[p]}
    OBVIOUS
  <1>3. PICK page : page = FirstOf(all, TradePageSize)
    OBVIOUS
  <1>4. TradePage(a, p) = page
    BY <1>2, <1>3 DEF TradePage, FirstOf, Below
  <1>5. /\ all \in SUBSET Nat /\ Len(market) \in Nat /\ \A t \in all : t <= Len(market)
        /\ all \subseteq MadeBy(a, p)
        /\ \A t \in MadeBy(a, p) : t \in Nat /\ (t \in all \/ t < fetchOf[a].next[p])
    BY <1>1, <1>2, MarketIs DEF TradesTyped, MadeBy
  <1>6. /\ page \subseteq all
        /\ all # {} => page # {}
        /\ \A first \in page, t \in all : t <= first => t \in page
        /\ page # {} => Max(page) \in page
    BY <1>3, <1>5, FirstOfIs, TradesAssumption
  <1> QED  BY <1>4, <1>5, <1>6

-----------------------------------------------------------------------------
(* What the steps of the fetchers leave alone.                             *)
LEMMA FetchMoves ==
    ASSUME TradesInv, NEW a \in TradeAccounts, NEW f \in TradeFetch \cup {NoFetch},
           fetchOf' = [fetchOf EXCEPT ![a] = f], FetchPasses(a, f),
           UNCHANGED <<market, tradeRows, converted, notETH, outOfTime>>
    PROVE  TradesInv'
  <1>1. TradesTyped'
    BY DEF TradesInv, TradesTyped, OfPair
  <1>2. FetchesPass'
    <2> SUFFICES ASSUME NEW b \in TradeAccounts
                 PROVE  FetchPasses(b, fetchOf[b])'
      BY DEF FetchesPass
    <2>1. fetchOf'[b] = IF b = a THEN f ELSE fetchOf[b]
      BY DEF TradesInv, TradesTyped
    <2>2. FetchPasses(b, fetchOf'[b])
      BY <2>1 DEF TradesInv, FetchesPass
    <2> QED  BY <2>2 DEF FetchPasses, MadeBy, OfPair
  <1>3. OlderTradesAreStored' /\ OlderAreConverted' /\ ReadInOrder'
    BY DEF TradesInv, OlderTradesAreStored, OlderAreConverted, ReadInOrder, MadeBy, OfPair
  <1> QED  BY <1>1, <1>2, <1>3 DEF TradesInv

(* A fetch goes on from what is stored of the account, pair by pair.       *)
LEMMA StartTradesKeeps ==
    ASSUME TradesInv, NEW a \in TradeAccounts, StartTrades(a)
    PROVE  TradesInv'
  <1>1. PICK f : f = [batch |-> 1, left |-> Batch(1), failed |-> FALSE,
                      next |-> [p \in PairNames |-> GetLastStoredID(p, a)], got |-> [p \in PairNames |-> {}]]
    OBVIOUS
  <1>2. fetchOf' = [fetchOf EXCEPT ![a] = f] /\ UNCHANGED <<market, tradeRows, converted, notETH, outOfTime>>
    BY <1>1 DEF StartTrades
  <1>3. TradesTyped
    BY DEF TradesInv
  <1>4. f \in TradeFetch
    <2>1. Batch(1) \subseteq PairNames
      BY DEF Batch, PairNames
    <2>2. [p \in PairNames |-> GetLastStoredID(p, a)] \in [PairNames -> Nat]
      BY <1>3, LastStoredTradeIs
    <2> QED  BY <1>1, <2>1, <2>2 DEF TradeFetch
  <1>5. FetchPasses(a, f)
    <2> SUFFICES ASSUME NEW p \in PairNames
                 PROVE  /\ f.got[p] \subseteq MadeBy(a, p) /\ f.next[p] <= Len(market) + 1
                        /\ \A t \in MadeBy(a, p) : t < f.next[p] => t \in DOMAIN tradeRows \cup f.got[p]
      BY DEF FetchPasses
    <2>1. f.got[p] = {} /\ f.next[p] = GetLastStoredID(p, a)
      BY <1>1
    <2>2. PICK n : n = GetLastStoredID(p, a)
      OBVIOUS
    <2>3. /\ n \in Nat /\ n <= Len(market) /\ Len(market) \in Nat
          /\ n = 0 \/ (n \in DOMAIN tradeRows \cap OfPair(p) /\ tradeRows[n] = a)
      BY <1>3, <2>2, LastStoredTradeIs, MarketIs DEF TradesTyped
    <2>4. \A t \in MadeBy(a, p) : t \in Nat
      BY <1>3, MarketIs DEF TradesTyped, MadeBy
    <2>5. \A t \in MadeBy(a, p) : t < n => t \in DOMAIN tradeRows
      BY <2>3, <2>4 DEF TradesInv, OlderTradesAreStored
    <2> QED  BY <2>1, <2>2, <2>3, <2>5
  <1> QED  BY <1>2, <1>4, <1>5, FetchMoves

(* The fetch of a pair goes on or ends: the other pairs are as before.     *)
PairMoved(a, f, p, upto, got) ==
    /\ f = [batch |-> f.batch, left |-> f.left, next |-> f.next, got |-> f.got, failed |-> f.failed]
    /\ f.batch = fetchOf[a].batch /\ f.left \in SUBSET PairNames /\ f.failed \in BOOLEAN
    /\ f.next = [fetchOf[a].next EXCEPT ![p] = upto]
    /\ f.got = [fetchOf[a].got EXCEPT ![p] = got]

(* A fetch passes on in one pair over what is stored or what it has got.   *)
LEMMA PairMoves ==
    ASSUME TradesTyped, FetchesPass, NEW a \in TradeAccounts, fetchOf[a] # NoFetch, NEW p \in PairNames,
           NEW upto \in Nat, NEW got \in SUBSET Nat, NEW f, PairMoved(a, f, p, upto, got),
           got \subseteq MadeBy(a, p), upto <= Len(market) + 1,
           \A t \in MadeBy(a, p) : t < upto => t \in DOMAIN tradeRows \cup got
    PROVE  f \in TradeFetch /\ FetchPasses(a, f)
  <1>1. fetchOf[a] \in TradeFetch
    BY DEF TradesTyped
  <1>2. PICK batch, old, had : fetchOf[a].batch = batch /\ fetchOf[a].next = old /\ fetchOf[a].got = had
    OBVIOUS
  <1>3. batch \in Nat \ {0} /\ old \in [PairNames -> Nat] /\ had \in [PairNames -> SUBSET Nat]
    BY <1>1, <1>2 DEF TradeFetch
  <1>4. f.batch = batch /\ f.next = [old EXCEPT ![p] = upto] /\ f.got = [had EXCEPT ![p] = got]
    BY <1>2 DEF PairMoved
  <1>5. f \in TradeFetch
    <2>1. f.next \in [PairNames -> Nat] /\ f.got \in [PairNames -> SUBSET Nat] /\ f.batch \in Nat \ {0}
      BY <1>3, <1>4
    <2>2. /\ f = [batch |-> f.batch, left |-> f.left, next |-> f.next, got |-> f.got, failed |-> f.failed]
          /\ f.left \in SUBSET PairNames /\ f.failed \in BOOLEAN
      BY DEF PairMoved
    <2> QED  BY <2>1, <2>2 DEF TradeFetch
  <1>6. \A q \in PairNames : /\ f.next[q] = IF q = p THEN upto ELSE old[q]
                             /\ f.got[q] = IF q = p THEN got ELSE had[q]
    BY <1>3, <1>4
  <1>7. FetchPasses(a, fetchOf[a])
    BY DEF FetchesPass
  <1>8. FetchPasses(a, f)
    <2> SUFFICES ASSUME NEW q \in PairNames
                 PROVE  /\ f.got[q] \subseteq MadeBy(a, q) /\ f.next[q] <= Len(market) + 1
                        /\ \A t \in MadeBy(a, q) : t < f.next[q] => t \in DOMAIN tradeRows \cup f.got[q]
      BY DEF FetchPasses
    <2>1. CASE q = p
      BY <1>6, <2>1
    <2>2. CASE q # p
      BY <1>2, <1>6, <1>7, <2>2 DEF FetchPasses
    <2> QED  BY <2>1, <2>2
  <1> QED  BY <1>5, <1>8

(* A page is passed up to its last trade: no older one is outside of it.   *)
LEMMA GetTradesKeeps ==
    ASSUME TradesInv, NEW a \in TradeAccounts, NEW p \in PairNames, GetTrades(a, p)
    PROVE  TradesInv'
  <1>1. TradesTyped /\ FetchesPass
    BY DEF TradesInv
  <1>2. p \in fetchOf[a].left /\ TradePage(a, p) # {} /\ fetchOf[a] # NoFetch /\ fetchOf[a] \in TradeFetch
    BY <1>1 DEF GetTrades, NoFetch, TradesTyped
  <1>3. PICK page, last : page = TradePage(a, p) /\ last = Max(TradePage(a, p))
    OBVIOUS
  <1>4. /\ page \subseteq MadeBy(a, p) /\ last \in Nat /\ last <= Len(market) /\ Len(market) \in Nat
        /\ \A t \in MadeBy(a, p) : t \in Nat /\ (t <= last => t < fetchOf[a].next[p] \/ t \in page)
    BY <1>1, <1>2, <1>3, TradePageIs, MarketIs DEF TradesTyped, MadeBy
  <1>5. PICK old : old = fetchOf[a]
    OBVIOUS
  <1>6. PICK f : f = [old EXCEPT !.got[p] = old.got[p] \cup page, !.next[p] = last + 1]
    OBVIOUS
  <1>7. fetchOf' = [fetchOf EXCEPT ![a] = f] /\ UNCHANGED <<market, tradeRows, converted, notETH, outOfTime>>
    <2>1. fetchOf' = [fetchOf EXCEPT ![a].got[p] = fetchOf[a].got[p] \cup page, ![a].next[p] = last + 1]
      BY <1>3 DEF GetTrades
    <2>2. DOMAIN fetchOf = TradeAccounts
      BY <1>1 DEF TradesTyped
    <2> QED  BY <1>5, <1>6, <2>1, <2>2 DEF GetTrades
  <1>8. PICK got : got = old.got[p] \cup page
    OBVIOUS
  <1>9. /\ old.got[p] \subseteq MadeBy(a, p) /\ old.got[p] \in SUBSET Nat
        /\ \A t \in MadeBy(a, p) : t < old.next[p] => t \in DOMAIN tradeRows \cup old.got[p]
    <2>1. FetchPasses(a, old) /\ old # NoFetch /\ old \in TradeFetch
      BY <1>1, <1>2, <1>5 DEF FetchesPass
    <2>2. old.got[p] \in SUBSET Nat
      BY <2>1 DEF TradeFetch
    <2> QED  BY <2>1, <2>2 DEF FetchPasses
  <1>10. /\ got \in SUBSET Nat /\ got \subseteq MadeBy(a, p) /\ last + 1 \in Nat /\ last + 1 <= Len(market) + 1
         /\ \A t \in MadeBy(a, p) : t < last + 1 => t \in DOMAIN tradeRows \cup got
    <2>1. \A t \in MadeBy(a, p) : t < last + 1 => t <= last
      BY <1>4
    <2>2. MadeBy(a, p) \in SUBSET Nat
      BY <1>4
    <2> QED  BY <1>4, <1>5, <1>8, <1>9, <2>1, <2>2
  <1>11. PairMoved(a, f, p, last + 1, got)
    <2>1. old \in TradeFetch
      BY <1>2, <1>5
    <2>2. /\ f = [batch |-> f.batch, left |-> f.left, next |-> f.next, got |-> f.got, failed |-> f.failed]
          /\ f.batch = old.batch /\ f.left = old.left /\ f.failed = old.failed
          /\ f.next = [old.next EXCEPT ![p] = last + 1] /\ f.got = [old.got EXCEPT ![p] = old.got[p] \cup page]
      BY <1>6, <2>1 DEF TradeFetch
    <2>3. old.left \in SUBSET PairNames /\ old.failed \in BOOLEAN
      BY <2>1 DEF TradeFetch
    <2> QED  BY <1>5, <1>8, <2>2, <2>3 DEF PairMoved
  <1>12. f \in TradeFetch /\ FetchPasses(a, f)
    <2>1. PairMoved(a, f, p, last + 1, got) /\ last + 1 \in Nat /\ got \in SUBSET Nat
      BY <1>10, <1>11
    <2>2. TradesTyped /\ FetchesPass /\ fetchOf[a] # NoFetch
      BY <1>1, <1>2
    <2>3. PICK m \in Nat : m = last + 1
      BY <2>1
    <2> QED  BY <1>10, <2>1, <2>2, <2>3, PairMoves
  <1> QED  BY <1>7, <1>12, FetchMoves

(* A pair of the batch ends: what it has got is stored, or nothing is.     *)
LEMMA StoreTradesKeeps ==
    ASSUME TradesInv, NEW a \in TradeAccounts, NEW p \in PairNames, StoreTrades(a, p)
    PROVE  TradesInv'
  <1>1. TradesTyped /\ FetchesPass
    BY DEF TradesInv
  <1>2. p \in fetchOf[a].left /\ TradePage(a, p) = {} /\ fetchOf[a] # NoFetch /\ fetchOf[a] \in TradeFetch
    BY <1>1 DEF StoreTrades, NoFetch, TradesTyped
  <1>3. PICK old, got : old = fetchOf[a] /\ got = fetchOf[a].got[p]
    OBVIOUS
  <1>4. PICK f : f = [old EXCEPT !.left = old.left \ {p}, !.next[p] = 0, !.got[p] = {}]
    OBVIOUS
  <1>5. /\ fetchOf' = [fetchOf EXCEPT ![a] = f] /\ UNCHANGED <<market, converted, notETH>>
        /\ tradeRows' = [t \in DOMAIN tradeRows \cup got |-> IF t \in DOMAIN tradeRows THEN tradeRows[t] ELSE a]
        /\ outOfTime' = outOfTime \cup Late(got \ DOMAIN tradeRows)
    <2>1. fetchOf' = [fetchOf EXCEPT ![a].left = fetchOf[a].left \ {p}, ![a].next[p] = 0, ![a].got[p] = {}]
      BY DEF StoreTrades
    <2>2. DOMAIN fetchOf = TradeAccounts
      BY <1>1 DEF TradesTyped
    <2> QED  BY <1>3, <1>4, <2>1, <2>2 DEF StoreTrades, Insert
  <1>6. got \subseteq MadeBy(a, p) /\ \A t \in MadeBy(a, p) : t \in DOMAIN tradeRows \cup got
    <2>1. FetchPasses(a, old) /\ old # NoFetch
      BY <1>1, <1>2, <1>3 DEF FetchesPass
    <2>2. \A t \in MadeBy(a, p) : t < old.next[p]
      BY <1>1, <1>2, <1>3, TradePageIs
    <2> QED  BY <1>3, <2>1, <2>2 DEF FetchPasses
  <1>7. /\ DOMAIN market = 1 .. Len(market) /\ Len(market) \in Nat
        /\ \A t \in DOMAIN market : t \in Nat /\ market[t] \in MarketTrade
        /\ \A q : OfPair(q) \subseteq DOMAIN market
    BY <1>1, MarketIs DEF TradesTyped
  <1>8. /\ DOMAIN tradeRows' = DOMAIN tradeRows \cup got
        /\ \A t \in DOMAIN tradeRows : tradeRows'[t] = tradeRows[t]
        /\ \A t \in got \ DOMAIN tradeRows : tradeRows'[t] = a
        /\ \A t \in got : t \in DOMAIN market /\ a \in market[t].parties /\ market[t].pair = p
    BY <1>5, <1>6, <1>7 DEF MadeBy, OfPair
  <1>9. f \in TradeFetch /\ FetchPasses(a, f)
    <2>1. old \in TradeFetch
      BY <1>2, <1>3
    <2>2. /\ f = [batch |-> f.batch, left |-> f.left, next |-> f.next, got |-> f.got, failed |-> f.failed]
          /\ f.batch = old.batch /\ f.left = old.left \ {p} /\ f.failed = old.failed
          /\ f.next = [old.next EXCEPT ![p] = 0] /\ f.got = [old.got EXCEPT ![p] = {}]
      BY <1>4, <2>1 DEF TradeFetch
    <2>3. old.left \in SUBSET PairNames /\ old.failed \in BOOLEAN
      BY <2>1 DEF TradeFetch
    <2>4. PICK none : none = {}
      OBVIOUS
    <2>5. PairMoved(a, f, p, 0, none) /\ none \in SUBSET Nat
      BY <1>3, <2>2, <2>3, <2>4 DEF PairMoved
    <2>6. 0 <= Len(market) + 1 /\ \A t \in MadeBy(a, p) : ~(t < 0)
      <3>1. \A t \in MadeBy(a, p) : t \in Nat
        BY <1>7 DEF MadeBy
      <3> QED  BY <1>7, <3>1
    <2> QED  BY <1>1, <1>2, <2>4, <2>5, <2>6, PairMoves
  <1>10. TradesTyped'
    <2>1. fetchOf' \in [TradeAccounts -> TradeFetch \cup {NoFetch}]
      BY <1>1, <1>5, <1>9 DEF TradesTyped
    <2>2. DOMAIN tradeRows' \subseteq DOMAIN market' /\ \A t \in DOMAIN tradeRows' : tradeRows'[t] \in market'[t].parties
      BY <1>1, <1>5, <1>8 DEF TradesTyped
    <2> QED  BY <1>1, <1>5, <1>8, <2>1, <2>2 DEF TradesTyped, OfPair
  <1>11. FetchesPass'
    <2> SUFFICES ASSUME NEW b \in TradeAccounts
                 PROVE  FetchPasses(b, fetchOf[b])'
      BY DEF FetchesPass
    <2>1. fetchOf'[b] = IF b = a THEN f ELSE fetchOf[b]
      BY <1>1, <1>5 DEF TradesTyped
    <2>2. FetchPasses(b, fetchOf'[b])
      BY <1>1, <1>9, <2>1 DEF FetchesPass
    <2> QED  BY <1>5, <1>8, <2>2 DEF FetchPasses, MadeBy, OfPair
  <1>12. OlderTradesAreStored'
    <2> SUFFICES ASSUME NEW b \in TradeAccounts, NEW q \in PairNames, NEW t \in MadeBy(b, q), NEW r \in OfPair(q),
                        r \in DOMAIN tradeRows', tradeRows'[r] = b, t < r
                 PROVE  t \in DOMAIN tradeRows'
      BY <1>5 DEF OlderTradesAreStored, MadeBy, OfPair
    <2>1. CASE r \in DOMAIN tradeRows
      BY <1>8, <2>1 DEF TradesInv, OlderTradesAreStored
    <2>2. CASE r \in got \ DOMAIN tradeRows
      <3>1. b = a /\ q = p
        BY <1>8, <2>2 DEF OfPair
      <3> QED  BY <1>6, <1>8, <3>1
    <2> QED  BY <1>8, <2>1, <2>2
  <1>13. \A t \in got \ DOMAIN tradeRows : \A u \in (converted \cup notETH[p]) \cap OfPair(p) : t < u => t \in outOfTime'
    BY <1>5, <1>8 DEF Late
  <1>14. /\ \A q : OfPair(q)' = OfPair(q)
         /\ \A q, t : t \in DOMAIN tradeRows' \cap OfPair(q)
                       => t \in DOMAIN tradeRows \/ (t \in got \ DOMAIN tradeRows /\ q = p)
         /\ outOfTime \subseteq outOfTime'
    BY <1>5, <1>8 DEF OfPair
  <1>15. OlderAreConverted'
    BY <1>5, <1>13, <1>14 DEF TradesInv, OlderAreConverted
  <1>16. ReadInOrder'
    <2> SUFFICES ASSUME NEW q \in PairNames, NEW u \in notETH[q], NEW t \in DOMAIN tradeRows' \cap OfPair(q), t < u
                 PROVE  t \in converted \cup notETH[q] \cup outOfTime'
      BY <1>5, <1>14 DEF TradesInv, ReadInOrder
    <2>1. CASE t \in DOMAIN tradeRows
      BY <1>14, <2>1 DEF TradesInv, ReadInOrder
    <2>2. CASE t \in got \ DOMAIN tradeRows /\ q = p
      <3>1. u \in OfPair(p)
        BY <1>1, <2>2 DEF TradesTyped
      <3> QED  BY <1>13, <2>2, <3>1
    <2> QED  BY <1>14, <2>1, <2>2
  <1> QED  BY <1>10, <1>11, <1>12, <1>15, <1>16 DEF TradesInv

(* The other steps of an account's fetch.                                  *)
LEMMA TradesFailKeeps ==
    ASSUME TradesInv, NEW a \in TradeAccounts, NEW p \in PairNames, TradesFail(a, p)
    PROVE  TradesInv'
  <1>1. TradesTyped /\ FetchesPass
    BY DEF TradesInv
  <1>2. p \in fetchOf[a].left /\ fetchOf[a] # NoFetch /\ fetchOf[a] \in TradeFetch
    BY <1>1 DEF TradesFail, NoFetch, TradesTyped
  <1>3. PICK old : old = fetchOf[a]
    OBVIOUS
  <1>4. PICK f : f = [old EXCEPT !.left = old.left \ {p}, !.next[p] = 0, !.got[p] = {}, !.failed = TRUE]
    OBVIOUS
  <1>5. /\ fetchOf' = [fetchOf EXCEPT ![a] = f] /\ UNCHANGED <<market, tradeRows, converted, notETH, outOfTime>>
    <2>1. fetchOf' = [fetchOf EXCEPT ![a].left = fetchOf[a].left \ {p}, ![a].next[p] = 0, ![a].got[p] = {}, ![a].failed = TRUE]
      BY DEF TradesFail
    <2>2. DOMAIN fetchOf = TradeAccounts
      BY <1>1 DEF TradesTyped
    <2> QED  BY <1>3, <1>4, <2>1, <2>2 DEF TradesFail
  <1>6. f \in TradeFetch /\ FetchPasses(a, f)
    <2>1. old \in TradeFetch
      BY <1>2, <1>3
    <2>2. /\ f = [batch |-> f.batch, left |-> f.left, next |-> f.next, got |-> f.got, failed |-> f.failed]
          /\ f.batch = old.batch /\ f.left = old.left \ {p} /\ f.failed = TRUE
          /\ f.next = [old.next EXCEPT ![p] = 0] /\ f.got = [old.got EXCEPT ![p] = {}]
      BY <1>4, <2>1 DEF TradeFetch
    <2>3. old.left \in SUBSET PairNames
      BY <2>1 DEF TradeFetch
    <2>4. PICK none : none = {}
      OBVIOUS
    <2>5. PairMoved(a, f, p, 0, none) /\ none \in SUBSET Nat
      BY <1>3, <2>2, <2>3, <2>4 DEF PairMoved
    <2>6. 0 <= Len(market) + 1 /\ \A t \in MadeBy(a, p) : ~(t < 0)
      <3>1. Len(market) \in Nat /\ \A t \in MadeBy(a, p) : t \in Nat
        BY <1>1, MarketIs DEF TradesTyped, MadeBy
      <3> QED  BY <3>1
    <2> QED  BY <1>1, <1>2, <2>4, <2>5, <2>6, PairMoves
  <1> QED  BY <1>5, <1>6, FetchMoves

(* The next batch of pairs, or the end: no fetch is at work on a pair of   *)
(* it.                                                                     *)
LEMMA NextBatchKeeps ==
    ASSUME TradesInv, NEW a \in TradeAccounts, NextBatch(a)
    PROVE  TradesInv'
  <1>1. TradesTyped /\ FetchesPass
    BY DEF TradesInv
  <1>2. PICK i, old : i = fetchOf[a].batch + 1 /\ old = fetchOf[a]
    OBVIOUS
  <1>3. old \in TradeFetch /\ FetchPasses(a, old) /\ old # NoFetch
    <2>1. fetchOf[a].batch > 0
      BY DEF NextBatch
    <2>2. fetchOf[a] # NoFetch
      BY <2>1 DEF NoFetch
    <2> QED  BY <1>1, <1>2, <2>2 DEF TradesTyped, FetchesPass
  <1>4. PICK f : f = IF old.failed \/ Batch(i) = {} THEN NoFetch ELSE [old EXCEPT !.batch = i, !.left = Batch(i)]
    OBVIOUS
  <1>5. fetchOf' = [fetchOf EXCEPT ![a] = f] /\ UNCHANGED <<market, tradeRows, converted, notETH, outOfTime>>
    <2>1. DOMAIN fetchOf = TradeAccounts
      BY <1>1 DEF TradesTyped
    <2> QED  BY <1>2, <1>4, <2>1 DEF NextBatch
  <1>6. f \in TradeFetch \cup {NoFetch} /\ FetchPasses(a, f)
    <2>1. CASE f = NoFetch
      BY <2>1 DEF FetchPasses
    <2>2. CASE f = [old EXCEPT !.batch = i, !.left = Batch(i)]
      <3>1. Batch(i) \in SUBSET PairNames
        BY DEF Batch, PairNames
      <3>2. i \in Nat \ {0}
        BY <1>2, <1>3 DEF TradeFetch
      <3>3. f \in TradeFetch /\ f.next = old.next /\ f.got = old.got
        BY <1>3, <2>2, <3>1, <3>2 DEF TradeFetch
      <3> QED  BY <1>3, <3>3 DEF FetchPasses
    <2> QED  BY <1>4, <2>1, <2>2
  <1> QED  BY <1>5, <1>6, FetchMoves

(* A kill loses what was got, and leaves the rows.                         *)
LEMMA KillTradesKeeps == ASSUME TradesInv, KillTrades PROVE TradesInv'
  <1>1. /\ fetchOf' = [a \in TradeAccounts |-> NoFetch]
        /\ UNCHANGED <<market, tradeRows, converted, notETH, outOfTime>>
    BY DEF KillTrades
  <1>2. TradesTyped'
    BY <1>1 DEF TradesInv, TradesTyped, OfPair
  <1>3. FetchesPass'
    BY <1>1 DEF FetchesPass, FetchPasses
  <1>4. OlderTradesAreStored' /\ OlderAreConverted' /\ ReadInOrder'
    BY <1>1 DEF TradesInv, OlderTradesAreStored, OlderAreConverted, ReadInOrder, MadeBy, OfPair
  <1> QED  BY <1>2, <1>3, <1>4 DEF TradesInv

(* A new trade is newer than what is stored, read or asked for.            *)
LEMMA TradeKeeps ==
    ASSUME TradesInv, NEW pair \in PairNames, NEW parties \in SUBSET TradeAccounts, Trade(pair, parties)
    PROVE  TradesInv'
  <1>1. TradesTyped /\ FetchesPass
    BY DEF TradesInv
  <1>2. PICK new, n : new = [pair |-> pair, parties |-> parties] /\ n = Len(market) + 1
    OBVIOUS
  <1>3. new \in MarketTrade
    BY <1>2 DEF MarketTrade
  <1>4. market' = Append(market, new) /\ UNCHANGED <<tradeRows, fetchOf, converted, notETH, outOfTime>>
    BY <1>2 DEF Trade
  <1>5. /\ DOMAIN market = 1 .. Len(market) /\ Len(market) \in Nat
        /\ \A t \in DOMAIN market : t \in Nat /\ market[t] \in MarketTrade
        /\ \A q : OfPair(q) \subseteq DOMAIN market
    BY <1>1, MarketIs DEF TradesTyped
  <1>6. /\ market' \in Seq(MarketTrade) /\ Len(market') = n /\ DOMAIN market' = DOMAIN market \cup {n}
        /\ \A t \in DOMAIN market : market'[t] = market[t]
    BY <1>1, <1>2, <1>3, <1>4, <1>5 DEF TradesTyped
  <1>7. \A q : /\ OfPair(q) \subseteq OfPair(q)' /\ OfPair(q)' \subseteq OfPair(q) \cup {n}
               /\ \A b : MadeBy(b, q) \subseteq MadeBy(b, q)' /\ MadeBy(b, q)' \subseteq MadeBy(b, q) \cup {n}
    BY <1>5, <1>6 DEF OfPair, MadeBy
  <1>8. n \notin DOMAIN tradeRows /\ n \in Nat /\ (\A t \in DOMAIN market : t < n) /\ DOMAIN tradeRows \subseteq DOMAIN market
    BY <1>1, <1>2, <1>5 DEF TradesTyped
  <1>9. TradesTyped'
    BY <1>1, <1>4, <1>6, <1>7, <1>8 DEF TradesTyped
  <1>10. FetchesPass'
    <2> SUFFICES ASSUME NEW b \in TradeAccounts, fetchOf[b] # NoFetch, NEW q \in PairNames
                 PROVE  /\ fetchOf[b].got[q] \subseteq MadeBy(b, q)' /\ fetchOf[b].next[q] <= Len(market') + 1
                        /\ \A t \in MadeBy(b, q)' : t < fetchOf[b].next[q] => t \in DOMAIN tradeRows \cup fetchOf[b].got[q]
      BY <1>4 DEF FetchesPass, FetchPasses
    <2>1. PICK got, upto : got = fetchOf[b].got[q] /\ upto = fetchOf[b].next[q]
      OBVIOUS
    <2>2. /\ got \subseteq MadeBy(b, q) /\ upto <= n
          /\ \A t \in MadeBy(b, q) : t < upto => t \in DOMAIN tradeRows \cup got
      BY <1>1, <1>2, <2>1 DEF FetchesPass, FetchPasses
    <2>3. upto \in Nat
      BY <1>1, <2>1 DEF TradesTyped, TradeFetch
    <2>4. upto <= Len(market') + 1 /\ ~(n < upto)
      BY <1>6, <1>8, <2>2, <2>3
    <2>5. \A t \in MadeBy(b, q)' : t < upto => t \in DOMAIN tradeRows \cup got
      BY <1>7, <2>2, <2>4
    <2> QED  BY <1>7, <2>1, <2>2, <2>4, <2>5
  <1>11. OlderTradesAreStored'
    <2> SUFFICES ASSUME NEW b \in TradeAccounts, NEW q \in PairNames, NEW t \in MadeBy(b, q)', NEW r \in OfPair(q)',
                        r \in DOMAIN tradeRows, tradeRows[r] = b, t < r
                 PROVE  t \in DOMAIN tradeRows
      BY <1>4 DEF OlderTradesAreStored
    <2>1. r \in DOMAIN market /\ r \in OfPair(q)
      BY <1>7, <1>8
    <2>2. t # n
      BY <1>5, <1>8, <2>1
    <2>3. t \in MadeBy(b, q)
      BY <1>7, <2>2
    <2> QED  BY <2>1, <2>3 DEF TradesInv, OlderTradesAreStored
  <1>12. \A q : DOMAIN tradeRows \cap OfPair(q)' = DOMAIN tradeRows \cap OfPair(q)
                /\ converted \cap OfPair(q)' = converted \cap OfPair(q)
    BY <1>1, <1>7, <1>8 DEF TradesTyped
  <1>13. OlderAreConverted' /\ ReadInOrder'
    BY <1>4, <1>12 DEF TradesInv, OlderAreConverted, ReadInOrder
  <1> QED  BY <1>9, <1>10, <1>11, <1>13 DEF TradesInv

(* The post-processor reads all that is newer than the converted trades.   *)
LEMMA GetNotETHTradesKeeps == ASSUME TradesInv, GetNotETHTrades PROVE TradesInv'
  <1>1. /\ notETH' = [p \in PairNames |-> {t \in DOMAIN tradeRows \cap OfPair(p) : t > MaxTimestamp(p)}]
        /\ UNCHANGED <<market, tradeRows, fetchOf, converted, outOfTime>>
    BY DEF GetNotETHTrades
  <1>2. TradesTyped
    BY DEF TradesInv
  <1>3. \A t \in DOMAIN market : t \in Nat /\ t \in 1 .. Len(market)
    BY <1>2, MarketIs DEF TradesTyped
  <1>4. DOMAIN tradeRows \subseteq DOMAIN market /\ converted \subseteq DOMAIN tradeRows
    BY <1>2 DEF TradesTyped
  <1>5. TradesTyped'
    <2>1. notETH' \in [PairNames -> SUBSET Nat]
      BY <1>1, <1>3, <1>4
    <2> QED  BY <1>1, <1>2, <2>1 DEF TradesTyped, OfPair
  <1>6. FetchesPass' /\ OlderTradesAreStored' /\ OlderAreConverted'
    BY <1>1 DEF TradesInv, FetchesPass, FetchPasses, OlderTradesAreStored, OlderAreConverted, MadeBy, OfPair
  <1>7. ReadInOrder'
    <2> SUFFICES ASSUME NEW p \in PairNames, NEW u \in notETH'[p]
                 PROVE  /\ \A t \in converted \cap OfPair(p) : t < u
                        /\ \A t \in DOMAIN tradeRows \cap OfPair(p) : t < u => t \in converted \cup notETH'[p] \cup outOfTime
      BY <1>1 DEF ReadInOrder, OfPair
    <2>1. PICK m : m = MaxTimestamp(p)
      OBVIOUS
    <2>2. /\ m \in Nat /\ (m = 0 \/ m \in converted \cap OfPair(p))
          /\ \A t \in converted \cap OfPair(p) : t <= m
      BY <1>2, <2>1, MaxTimestampIs
    <2>3. u \in DOMAIN tradeRows \cap OfPair(p) /\ u > m /\ u \in Nat
      BY <1>1, <1>3, <1>4, <2>1
    <2>4. ASSUME NEW t \in DOMAIN tradeRows \cap OfPair(p), t \notin notETH'[p], t \notin converted
          PROVE  t \in outOfTime
      <3>1. t \in Nat /\ t # 0 /\ ~(t > m)
        BY <1>1, <1>3, <1>4, <2>1, <2>4
      <3>2. m \in converted \cap OfPair(p) /\ t < m
        BY <2>2, <2>4, <3>1
      <3> QED  BY <2>4, <3>2 DEF TradesInv, OlderAreConverted
    <2>5. \A t \in converted \cap OfPair(p) : t < u
      BY <1>3, <1>4, <2>2, <2>3
    <2> QED  BY <2>4, <2>5
  <1> QED  BY <1>5, <1>6, <1>7 DEF TradesInv

(* What was read of a pair is converted together, or not at all.           *)
LEMMA UpdateTradeNotETHKeeps ==
    ASSUME TradesInv, NEW p \in PairNames, UpdateTradeNotETH(p)
    PROVE  TradesInv'
  <1>1. /\ notETH' = [notETH EXCEPT ![p] = {}] /\ UNCHANGED <<market, tradeRows, fetchOf, outOfTime>>
        /\ converted' = converted \/ converted' = converted \cup notETH[p]
    BY DEF UpdateTradeNotETH
  <1>2. TradesTyped
    BY DEF TradesInv
  <1>3. /\ notETH' \in [PairNames -> SUBSET Nat]
        /\ \A q \in PairNames : notETH'[q] = IF q = p THEN {} ELSE notETH[q]
        /\ notETH[p] \subseteq DOMAIN tradeRows \cap OfPair(p)
    BY <1>1, <1>2 DEF TradesTyped
  <1>4. TradesTyped'
    BY <1>1, <1>2, <1>3 DEF TradesTyped, OfPair
  <1>5. FetchesPass' /\ OlderTradesAreStored'
    BY <1>1 DEF TradesInv, FetchesPass, FetchPasses, OlderTradesAreStored, MadeBy, OfPair
  <1>6. \A q : OfPair(q)' = OfPair(q) /\ (q # p => converted' \cap OfPair(q) = converted \cap OfPair(q))
    <2>1. \A q, t : t \in OfPair(p) /\ t \in OfPair(q) => q = p
      BY DEF OfPair
    <2> QED  BY <1>1, <1>3, <2>1 DEF OfPair
  <1>7. /\ \A u \in notETH[p] : \A t \in DOMAIN tradeRows \cap OfPair(p) : t < u => t \in converted \cup notETH[p] \cup outOfTime
        /\ \A u \in notETH[p] : \A t \in converted \cap OfPair(p) : t < u
    BY DEF TradesInv, ReadInOrder
  <1>8. OlderAreConverted'
    <2> SUFFICES ASSUME NEW q \in PairNames, NEW t \in DOMAIN tradeRows \cap OfPair(q), NEW u \in converted' \cap OfPair(q), t < u
                 PROVE  t \in converted' \cup outOfTime
      BY <1>1, <1>6 DEF OlderAreConverted
    <2>1. CASE u \in converted
      BY <1>1, <2>1 DEF TradesInv, OlderAreConverted
    <2>2. CASE u \notin converted
      <3>1. q = p /\ u \in notETH[p] /\ converted' = converted \cup notETH[p]
        BY <1>1, <1>6, <2>2
      <3> QED  BY <1>7, <3>1
    <2> QED  BY <2>1, <2>2
  <1>9. ReadInOrder'
    <2> SUFFICES ASSUME NEW q \in PairNames, NEW u \in notETH'[q]
                 PROVE  /\ \A t \in converted' \cap OfPair(q) : t < u
                        /\ \A t \in DOMAIN tradeRows \cap OfPair(q) : t < u => t \in converted' \cup notETH'[q] \cup outOfTime
      BY <1>1, <1>6 DEF ReadInOrder
    <2>1. q # p /\ notETH'[q] = notETH[q]
      BY <1>3
    <2> QED  BY <1>1, <1>6, <2>1 DEF TradesInv, ReadInOrder
  <1> QED  BY <1>4, <1>5, <1>8, <1>9 DEF TradesInv

(* A conversion that fails is begun anew, with nothing read.               *)
LEMMA ConvertFailsKeeps == ASSUME TradesInv, ConvertFails PROVE TradesInv'
  <1>1. /\ notETH' = [p \in PairNames |-> {}]
        /\ UNCHANGED <<market, tradeRows, fetchOf, converted, outOfTime>>
    BY DEF ConvertFails, NothingRead
  <1>2. TradesTyped'
    BY <1>1 DEF TradesInv, TradesTyped, OfPair
  <1>3. ReadInOrder'
    BY <1>1 DEF ReadInOrder
  <1>4. FetchesPass' /\ OlderTradesAreStored' /\ OlderAreConverted'
    BY <1>1 DEF TradesInv, FetchesPass, FetchPasses, OlderTradesAreStored, OlderAreConverted, MadeBy, OfPair
  <1> QED  BY <1>2, <1>3, <1>4 DEF TradesInv

(* The market is empty in the beginning.                                   *)
LEMMA TradesStart == TradesInit => TradesInv
  <1> SUFFICES ASSUME TradesInit
               PROVE  TradesInv
    OBVIOUS
  <1>1. market = <<>> /\ market \in Seq(MarketTrade) /\ DOMAIN market = {} /\ DOMAIN tradeRows = {} /\ converted = {}
    BY DEF TradesInit
  <1>2. TradesTyped
    BY <1>1 DEF TradesInit, TradesTyped, NothingRead
  <1>3. FetchesPass /\ OlderTradesAreStored /\ OlderAreConverted /\ ReadInOrder
    BY <1>1 DEF TradesInit, FetchesPass, FetchPasses, OlderTradesAreStored, OlderAreConverted, ReadInOrder, NothingRead
  <1> QED  BY <1>2, <1>3 DEF TradesInv

(* Every step keeps the invariant.                                         *)
LEMMA TradesSteps == TradesInv /\ [TradesNext]_tradeVars => TradesInv'
  <1> SUFFICES ASSUME TradesInv, [TradesNext]_tradeVars
               PROVE  TradesInv'
    OBVIOUS
  <1>1. CASE UNCHANGED tradeVars
    BY <1>1 DEF tradeVars, TradesInv, TradesTyped, FetchesPass, FetchPasses, OlderTradesAreStored,
                OlderAreConverted, ReadInOrder, MadeBy, OfPair
  <1>2. CASE \E p \in PairNames, parties \in SUBSET TradeAccounts \ {{}} : Trade(p, parties)
    BY <1>2, TradeKeeps
  <1>3. CASE \E a \in TradeAccounts : StartTrades(a) \/ TradesWork(a) \/ \E p \in PairNames : TradesFail(a, p)
    BY <1>3, StartTradesKeeps, NextBatchKeeps, GetTradesKeeps, StoreTradesKeeps, TradesFailKeeps DEF TradesWork
  <1>4. CASE KillTrades
    BY <1>4, KillTradesKeeps
  <1>5. CASE GetNotETHTrades \/ (\E p \in PairNames : UpdateTradeNotETH(p)) \/ ConvertFails
    BY <1>5, GetNotETHTradesKeeps, UpdateTradeNotETHKeeps, ConvertFailsKeeps
  <1> QED  BY <1>1, <1>2, <1>3, <1>4, <1>5 DEF TradesNext

(* The invariant says of every stored or converted trade what the          *)
(* properties say of the newest.                                           *)
LEMMA TradesInvImplies == TradesInv => TradesTypeOK /\ NoTradeIsPassed /\ NoTradeIsLeftUnconverted
  <1> SUFFICES ASSUME TradesInv
               PROVE  TradesTypeOK /\ NoTradeIsPassed /\ NoTradeIsLeftUnconverted
    OBVIOUS
  <1>1. TradesTyped /\ \A t \in DOMAIN market : t \in Nat /\ t # 0 /\ market[t] \in MarketTrade
    BY MarketIs DEF TradesInv, TradesTyped
  <1>2. TradesTypeOK
    <2>1. \A a \in TradeAccounts : fetchOf[a].left \subseteq PairNames
      BY <1>1 DEF TradesTyped, TradeFetch, NoFetch
    <2>2. \A t \in DOMAIN market : market[t].pair \in PairNames /\ market[t].parties \in SUBSET TradeAccounts
      BY <1>1 DEF MarketTrade
    <2> QED  BY <1>1, <2>1, <2>2 DEF TradesTypeOK, TradesTyped
  <1>3. NoTradeIsPassed
    <2> SUFFICES ASSUME NEW t \in DOMAIN market, NEW a \in TradeAccounts, a \in market[t].parties,
                        t < GetLastStoredID(market[t].pair, a)
                 PROVE  t \in DOMAIN tradeRows
      BY DEF NoTradeIsPassed
    <2>1. PICK p : p = market[t].pair
      OBVIOUS
    <2>2. p \in PairNames /\ t \in MadeBy(a, p)
      BY <1>1, <2>1 DEF MarketTrade, MadeBy, OfPair
    <2>3. PICK n : n = GetLastStoredID(p, a)
      OBVIOUS
    <2>4. /\ n \in Nat /\ (n = 0 \/ (n \in DOMAIN tradeRows \cap OfPair(p) /\ tradeRows[n] = a))
          /\ t < n
      BY <1>1, <2>1, <2>3, LastStoredTradeIs
    <2>5. n # 0
      BY <1>1, <2>4
    <2> QED  BY <2>2, <2>4, <2>5 DEF TradesInv, OlderTradesAreStored
  <1>4. NoTradeIsLeftUnconverted
    <2> SUFFICES ASSUME NEW t \in DOMAIN tradeRows, t < MaxTimestamp(market[t].pair)
                 PROVE  t \in converted \/ t \in outOfTime
      BY DEF NoTradeIsLeftUnconverted, MaxTimestamp
    <2>1. PICK p : p = market[t].pair
      OBVIOUS
    <2>2. t \in DOMAIN market
      BY <1>1 DEF TradesTyped
    <2>3. p \in PairNames /\ t \in OfPair(p)
      BY <1>1, <2>1, <2>2 DEF MarketTrade, OfPair
    <2>4. PICK m : m = MaxTimestamp(p)
      OBVIOUS
    <2>5. m \in Nat /\ (m = 0 \/ m \in converted \cap OfPair(p)) /\ t < m
      BY <1>1, <2>1, <2>4, MaxTimestampIs
    <2>6. m # 0
      BY <1>1, <2>2, <2>5
    <2> QED  BY <2>3, <2>5, <2>6 DEF TradesInv, OlderAreConverted
  <1> QED  BY <1>2, <1>3, <1>4

-----------------------------------------------------------------------------
(* The fetcher of Huobi trades.                                            *)

Order == [symbol : Symbols, at : Nat, filled : BOOLEAN]

OrdersTyped ==
    /\ hour \in 1 .. LastHour
    /\ orders \in Seq(Order) /\ \A o \in DOMAIN orders : orders[o].at \in 1 .. hour
    /\ orderRows \cup listed \subseteq Filled(DOMAIN orders)
    /\ startTime \in 0 .. hour /\ next \in 0 .. hour /\ toHour \in 0 .. hour
    /\ startTime # 0 => next # 0
    /\ startTime = 0 => DOMAIN reading = {}
    /\ DOMAIN reading \subseteq Symbols
    /\ \A s \in DOMAIN reading : reading[s] \in [from : 0 .. hour, last : 0 .. Len(orders)]
    /\ skipped \in BOOLEAN

Excluded(o) == o \in cut \cup late
Settled(o) == o \in orderRows \cup listed \/ Excluded(o)
OfSymbol(s) == {o \in DOMAIN orders : orders[o].symbol = s /\ orders[o].at >= startTime}

(* A goroutine has settled the orders of its batch before the time it asks *)
(* for next, and those up to the last one it has got; when it has ended,   *)
(* all orders of the batch: those made meanwhile are not before its end.   *)
BatchSettles ==
    startTime # 0 =>
        /\ \A s \in Symbols \ DOMAIN reading : \A o \in OfSymbol(s) : orders[o].at < next => Settled(o)
        /\ \A s \in DOMAIN reading : \A o \in OfSymbol(s) :
               /\ orders[o].at < reading[s].from => Settled(o)
               /\ o <= reading[s].last /\ orders[o].at <= next => Settled(o)
        /\ \A o \in listed : orders[o].at <= next

(* What lies before the batch has been stored, but for the exceptions.     *)
BatchesMeet ==
    startTime # 0 /\ ~skipped =>
        \A o \in DOMAIN orders : orders[o].at < startTime => o \in orderRows \/ Excluded(o)

(* No order is missing that is older than one stored.                      *)
OlderOrdersAreStored ==
    ~skipped =>
        \A o \in DOMAIN orders, r \in orderRows : orders[o].at < orders[r].at => o \in orderRows \/ Excluded(o)

OrdersInv == OrdersTyped /\ BatchSettles /\ BatchesMeet /\ OlderOrdersAreStored

(* Orders are numbered in the order in which they are made.                *)
LEMMA OrdersAre ==
    ASSUME orders \in Seq(Order)
    PROVE  /\ Len(orders) \in Nat /\ DOMAIN orders = 1 .. Len(orders)
           /\ \A o \in DOMAIN orders : orders[o] \in Order /\ o \in Nat /\ o <= Len(orders)
                                       /\ orders[o].symbol \in Symbols /\ orders[o].at \in Nat
  <1>1. Len(orders) \in Nat /\ DOMAIN orders = 1 .. Len(orders)
    BY LenProperties
  <1>2. \A o \in DOMAIN orders : orders[o] \in Order
    BY <1>1, ElementOfSeq
  <1>3. \A o \in DOMAIN orders : o \in Nat /\ o <= Len(orders)
    BY <1>1
  <1>4. \A o \in DOMAIN orders : orders[o].symbol \in Symbols /\ orders[o].at \in Nat
    BY <1>2 DEF Order
  <1> QED  BY <1>1, <1>2, <1>3, <1>4

(* The creation of the newest stored order.                                *)
LEMMA LastStoredCreationIs ==
    ASSUME OrdersTyped
    PROVE  /\ GetLastStoredCreation \in 1 .. hour
           /\ GetLastStoredCreation = 1 \/ \E r \in orderRows : GetLastStoredCreation = orders[r].at
           /\ \A r \in orderRows : orders[r].at <= GetLastStoredCreation
  <1>1. PICK T : T = {1} \cup {orders[o].at : o \in orderRows}
    OBVIOUS
  <1>2. orderRows \subseteq DOMAIN orders /\ hour \in Nat /\ 1 <= hour /\ \A o \in DOMAIN orders : orders[o].at \in 1 .. hour
    BY DEF OrdersTyped, Filled
  <1>3. T \in SUBSET Nat /\ T # {} /\ \A t \in T : t \in 1 .. hour /\ t <= hour
    BY <1>1, <1>2
  <1>4. Max(T) \in T /\ \A t \in T : Max(T) >= t
    BY <1>2, <1>3, MaxOfNaturals
  <1>5. GetLastStoredCreation = Max(T)
    BY <1>1 DEF GetLastStoredCreation
  <1>6. \A r \in orderRows : orders[r].at \in T /\ orders[r].at \in Nat
    BY <1>1, <1>2
  <1>7. Max(T) \in 1 .. hour /\ \A r \in orderRows : orders[r].at <= Max(T)
    BY <1>3, <1>4, <1>6
  <1> QED  BY <1>1, <1>4, <1>5, <1>7

(* A batch begins: nothing of it is settled yet.                           *)
LEMMA BatchStarts ==
    ASSUME OrdersTyped, NEW start \in 1 .. hour, NEW to \in 1 .. hour, BatchFrom(start, to),
           toHour' = to, hour' = hour, orders' = orders,
           orderRows' \subseteq Filled(DOMAIN orders), skipped' \in BOOLEAN
    PROVE  OrdersTyped' /\ BatchSettles' /\ startTime' = start
  <1>1. PICK end : end = Min({start + BatchDuration, to})
    OBVIOUS
  <1>2. hour \in Nat /\ start \in Nat /\ to \in Nat /\ start <= hour /\ to <= hour /\ start >= 1 /\ to >= 1
    BY DEF OrdersTyped
  <1>3. end \in 1 .. hour
    <2>1. {start + BatchDuration, to} \in SUBSET Nat
      BY <1>2, OrdersAssumption
    <2>2. end \in {start + BatchDuration, to} /\ end <= to
      BY <1>1, <2>1, MinOfNaturals
    <2> QED  BY <1>2, <2>2, OrdersAssumption
  <1>4. /\ startTime' = start /\ next' = end /\ listed' = {}
        /\ reading' = [s \in Symbols |-> [from |-> start, last |-> 0]]
    BY <1>1 DEF BatchFrom
  <1>5. DOMAIN reading' = Symbols /\ \A s \in Symbols : reading'[s] = [from |-> start, last |-> 0]
    BY <1>4
  <1>6. OrdersTyped'
    <2>1. \A s \in Symbols : reading'[s] \in [from : 0 .. hour, last : 0 .. Len(orders)]
      BY <1>2, <1>5, OrdersAre DEF OrdersTyped
    <2>2. startTime' \in 0 .. hour /\ next' \in 0 .. hour /\ toHour' \in 0 .. hour /\ next' # 0 /\ startTime' # 0
      BY <1>2, <1>3, <1>4
    <2> QED  BY <1>4, <1>5, <2>1, <2>2 DEF OrdersTyped, Filled
  <1>7. BatchSettles'
    <2> SUFFICES ASSUME NEW s \in Symbols, NEW o \in OfSymbol(s)'
                 PROVE  /\ ~(orders[o].at < reading'[s].from)
                        /\ ~(o <= reading'[s].last)
      BY <1>4, <1>5 DEF BatchSettles
    <2>1. reading'[s].from = start /\ reading'[s].last = 0
      BY <1>5
    <2>2. o \in DOMAIN orders /\ orders[o].at >= start
      BY <1>4 DEF OfSymbol
    <2>3. o \in Nat /\ o # 0 /\ orders[o].at \in Nat
      BY <2>2, OrdersAre DEF OrdersTyped
    <2> QED  BY <1>2, <2>1, <2>2, <2>3
  <1> QED  BY <1>4, <1>6, <1>7

(* A batch starts at the newest stored order, or at a given time.          *)
LEMMA StartOrdersKeeps ==
    ASSUME OrdersInv, NEW from \in 0 .. hour, NEW to \in 1 .. hour, StartOrders(from, to)
    PROVE  OrdersInv'
  <1>1. PICK start : start = IF from = 0 THEN GetLastStoredCreation ELSE from
    OBVIOUS
  <1>2. /\ toHour' = to /\ BatchFrom(start, to) /\ skipped' = (skipped \/ start > GetLastStoredCreation)
        /\ hour' = hour /\ orders' = orders /\ orderRows' = orderRows /\ cut' = cut /\ late' = late
    BY <1>1 DEF StartOrders
  <1>3. OrdersTyped
    BY DEF OrdersInv
  <1>4. start \in 1 .. hour
    <2>1. hour \in Nat /\ GetLastStoredCreation \in 1 .. hour
      BY <1>3, LastStoredCreationIs DEF OrdersTyped
    <2> QED  BY <1>1, <2>1
  <1>5. orderRows' \subseteq Filled(DOMAIN orders) /\ skipped' \in BOOLEAN
    BY <1>2, <1>3 DEF OrdersTyped
  <1>6. OrdersTyped' /\ BatchSettles' /\ startTime' = start
    BY <1>2, <1>3, <1>4, <1>5, BatchStarts
  <1>7. BatchesMeet'
    <2> SUFFICES ASSUME ~skipped', NEW o \in DOMAIN orders, orders[o].at < start
                 PROVE  o \in orderRows \/ Excluded(o)
      BY <1>2, <1>6 DEF BatchesMeet, Excluded
    <2>1. PICK last : last = GetLastStoredCreation
      OBVIOUS
    <2>2. /\ last \in Nat /\ start \in Nat /\ start <= last /\ ~skipped
          /\ orders[o].at \in Nat /\ orders[o].at >= 1
      <3>1. hour \in Nat /\ last \in 1 .. hour
        BY <1>3, <2>1, LastStoredCreationIs DEF OrdersTyped
      <3>2. ~skipped /\ ~(start > last)
        BY <1>2, <2>1
      <3>3. orders[o].at \in 1 .. hour
        BY <1>3 DEF OrdersTyped
      <3> QED  BY <1>4, <3>1, <3>2, <3>3
    <2>3. last # 1 /\ orders[o].at < last
      BY <2>2
    <2>4. PICK r \in orderRows : last = orders[r].at
      BY <1>3, <2>1, <2>3, LastStoredCreationIs
    <2> QED  BY <2>2, <2>3, <2>4 DEF OrdersInv, OlderOrdersAreStored
  <1>8. OlderOrdersAreStored'
    BY <1>2 DEF OrdersInv, OlderOrdersAreStored, Excluded
  <1> QED  BY <1>6, <1>7, <1>8 DEF OrdersInv

(* The exchange goes on: what it makes is not before the end of a batch.   *)
LEMMA PassHourKeeps == ASSUME OrdersInv, PassHour PROVE OrdersInv'
  <1>1. /\ hour' = hour + 1 /\ hour' \in 1 .. LastHour /\ hour \in Nat
        /\ orders' = orders /\ orderRows' = orderRows /\ startTime' = startTime /\ next' = next /\ toHour' = toHour
        /\ reading' = reading /\ listed' = listed /\ cut' = cut /\ late' = late /\ skipped' = skipped
    BY OrdersAssumption DEF PassHour, OrdersInv, OrdersTyped, ordersRun, ordersHistory
  <1>2. /\ \A n : n \in 0 .. hour => n \in 0 .. hour'
        /\ \A n : n \in 1 .. hour => n \in 1 .. hour'
    BY <1>1
  <1>3. OrdersTyped'
    <2>1. \A s \in DOMAIN reading : reading[s] \in [from : 0 .. hour', last : 0 .. Len(orders)]
      BY <1>2 DEF OrdersInv, OrdersTyped
    <2> QED  BY <1>1, <1>2, <2>1 DEF OrdersInv, OrdersTyped, Filled
  <1>4. BatchSettles' /\ BatchesMeet' /\ OlderOrdersAreStored'
    BY <1>1 DEF OrdersInv, BatchSettles, BatchesMeet, OlderOrdersAreStored, OfSymbol, Settled, Excluded
  <1> QED  BY <1>3, <1>4 DEF OrdersInv

(* A new order is made now: no batch has passed its time.                  *)
LEMMA MakeOrderKeeps ==
    ASSUME OrdersInv, NEW symbol \in Symbols, NEW filled \in BOOLEAN, MakeOrder(symbol, filled)
    PROVE  OrdersInv'
  <1>1. OrdersTyped
    BY DEF OrdersInv
  <1>2. PICK new, n : new = [symbol |-> symbol, at |-> hour, filled |-> filled] /\ n = Len(orders) + 1
    OBVIOUS
  <1>3. /\ orders' = Append(orders, new)
        /\ hour' = hour /\ orderRows' = orderRows /\ startTime' = startTime /\ next' = next /\ toHour' = toHour
        /\ reading' = reading /\ listed' = listed /\ cut' = cut /\ late' = late /\ skipped' = skipped
    BY <1>2 DEF MakeOrder, ordersRun, ordersHistory
  <1>4. new \in Order /\ new.at = hour /\ hour \in Nat /\ hour >= 1
    BY <1>1, <1>2 DEF Order, OrdersTyped
  <1>5. /\ DOMAIN orders = 1 .. Len(orders) /\ Len(orders) \in Nat /\ orders \in Seq(Order)
        /\ \A o \in DOMAIN orders : orders[o].at \in Nat
    BY <1>1, OrdersAre DEF OrdersTyped
  <1>6. /\ orders' \in Seq(Order) /\ DOMAIN orders' = DOMAIN orders \cup {n} /\ n \notin DOMAIN orders /\ n \in Nat
        /\ orders'[n] = new /\ \A o \in DOMAIN orders : orders'[o] = orders[o]
    BY <1>2, <1>3, <1>4, <1>5
  <1>7. orderRows \subseteq DOMAIN orders /\ listed \subseteq DOMAIN orders
    BY <1>1 DEF OrdersTyped, Filled
  <1>8. OrdersTyped'
    <2>1. \A o \in DOMAIN orders' : orders'[o].at \in 1 .. hour
      BY <1>1, <1>4, <1>6 DEF OrdersTyped
    <2>2. Filled(DOMAIN orders) \subseteq Filled(DOMAIN orders)'
      BY <1>6 DEF Filled
    <2>3. \A s \in DOMAIN reading : reading[s] \in [from : 0 .. hour, last : 0 .. Len(orders')]
      <3>1. 0 .. Len(orders) \subseteq 0 .. Len(orders')
        BY <1>3, <1>5
      <3> QED  BY <1>1, <3>1 DEF OrdersTyped
    <2> QED  BY <1>1, <1>3, <1>6, <2>1, <2>2, <2>3 DEF OrdersTyped
  <1>9. \A s : /\ \A o \in OfSymbol(s)' : o \in OfSymbol(s) \/ (o = n /\ orders'[o].at = hour)
               /\ \A o \in OfSymbol(s)' : o \in DOMAIN orders => o \in OfSymbol(s)
               /\ \A o \in OfSymbol(s) : orders'[o] = orders[o]
    BY <1>3, <1>4, <1>6 DEF OfSymbol
  <1>10. startTime \in Nat /\ startTime <= hour /\ next \in Nat /\ next <= hour /\ \A s \in DOMAIN reading : reading[s].from <= hour /\ reading[s].from \in Nat
    BY <1>1 DEF OrdersTyped
  <1>11. BatchSettles'
    <2> SUFFICES ASSUME startTime # 0
                 PROVE  /\ \A s \in Symbols \ DOMAIN reading : \A o \in OfSymbol(s)' : orders'[o].at < next => Settled(o)
                        /\ \A s \in DOMAIN reading : \A o \in OfSymbol(s)' :
                               /\ orders'[o].at < reading[s].from => Settled(o)
                               /\ o <= reading[s].last /\ orders'[o].at <= next => Settled(o)
                        /\ \A o \in listed : orders'[o].at <= next
      BY <1>3 DEF BatchSettles, Settled, Excluded
    <2>1. \A s \in Symbols \ DOMAIN reading : \A o \in OfSymbol(s)' : orders'[o].at < next => Settled(o)
      BY <1>4, <1>9, <1>10 DEF OrdersInv, BatchSettles
    <2>2. ASSUME NEW s \in DOMAIN reading, NEW o \in OfSymbol(s)'
          PROVE  /\ orders'[o].at < reading[s].from => Settled(o)
                 /\ o <= reading[s].last /\ orders'[o].at <= next => Settled(o)
      <3>1. CASE o \in OfSymbol(s)
        BY <1>9, <3>1 DEF OrdersInv, BatchSettles
      <3>2. CASE o = n /\ orders'[o].at = hour
        <4>1. ~(orders'[o].at < reading[s].from)
          BY <1>4, <1>10, <3>2
        <4>2. ~(o <= reading[s].last)
          BY <1>1, <1>2, <1>5, <3>2 DEF OrdersTyped
        <4> QED  BY <4>1, <4>2
      <3> QED  BY <1>9, <3>1, <3>2
    <2>3. \A o \in listed : orders'[o].at <= next
      BY <1>6, <1>7 DEF OrdersInv, BatchSettles
    <2> QED  BY <2>1, <2>2, <2>3
  <1>12. BatchesMeet' /\ OlderOrdersAreStored'
    <2>1. \A o \in DOMAIN orders' : o \in DOMAIN orders \/ orders'[o].at = hour
      BY <1>4, <1>6
    <2>2. \A r \in orderRows : orders'[r] = orders[r] /\ orders[r].at \in Nat /\ orders[r].at <= hour
      BY <1>1, <1>6, <1>7 DEF OrdersTyped
    <2>3. BatchesMeet'
      BY <1>3, <1>4, <1>6, <1>10, <2>1 DEF OrdersInv, BatchesMeet, Excluded
    <2>4. OlderOrdersAreStored'
      <3> SUFFICES ASSUME ~skipped, NEW o \in DOMAIN orders', NEW r \in orderRows, orders'[o].at < orders'[r].at
                   PROVE  o \in orderRows \/ Excluded(o)
        BY <1>3 DEF OlderOrdersAreStored, Excluded
      <3>1. o \in DOMAIN orders
        BY <1>4, <2>1, <2>2
      <3> QED  BY <1>6, <2>2, <3>1 DEF OrdersInv, OlderOrdersAreStored
    <2> QED  BY <2>3, <2>4
  <1> QED  BY <1>8, <1>11, <1>12 DEF OrdersInv

(* An order that is filled late was excluded when an answer left it out.   *)
LEMMA FillOrderKeeps ==
    ASSUME OrdersInv, NEW o \in DOMAIN orders, FillOrder(o)
    PROVE  OrdersInv'
  <1>1. OrdersTyped
    BY DEF OrdersInv
  <1>2. /\ orders' = [orders EXCEPT ![o].filled = TRUE]
        /\ hour' = hour /\ orderRows' = orderRows /\ startTime' = startTime /\ next' = next /\ toHour' = toHour
        /\ reading' = reading /\ listed' = listed /\ cut' = cut /\ late' = late /\ skipped' = skipped
    BY DEF FillOrder, ordersRun, ordersHistory
  <1>3. /\ DOMAIN orders = 1 .. Len(orders) /\ Len(orders) \in Nat /\ orders \in Seq(Order)
        /\ orders[o] \in Order
    BY <1>1, OrdersAre DEF OrdersTyped
  <1>4. PICK new : new = [orders[o] EXCEPT !.filled = TRUE]
    OBVIOUS
  <1>5. /\ orders' = [orders EXCEPT ![o] = new] /\ new \in Order
        /\ new.at = orders[o].at /\ new.symbol = orders[o].symbol /\ new.filled
    BY <1>2, <1>3, <1>4 DEF Order
  <1>6. /\ orders' \in Seq(Order) /\ DOMAIN orders' = DOMAIN orders /\ Len(orders') = Len(orders)
        /\ \A p \in DOMAIN orders : orders'[p] = IF p = o THEN new ELSE orders[p]
    BY <1>3, <1>5
  <1>7. \A p \in DOMAIN orders : /\ orders'[p].at = orders[p].at /\ orders'[p].symbol = orders[p].symbol
                                 /\ orders[p].filled => orders'[p].filled
    BY <1>5, <1>6
  <1>8. OrdersTyped'
    <2>1. Filled(DOMAIN orders) \subseteq Filled(DOMAIN orders)'
      BY <1>6, <1>7 DEF Filled
    <2> QED  BY <1>1, <1>2, <1>6, <1>7, <2>1 DEF OrdersTyped
  <1>9. \A s : OfSymbol(s)' = OfSymbol(s)
    BY <1>2, <1>6, <1>7 DEF OfSymbol
  <1>10. /\ \A s : \A p \in OfSymbol(s) : orders'[p].at = orders[p].at
         /\ \A p \in listed \cup orderRows : orders'[p].at = orders[p].at
    BY <1>1, <1>7 DEF OfSymbol, OrdersTyped, Filled
  <1>11. BatchSettles'
    BY <1>2, <1>9, <1>10 DEF OrdersInv, BatchSettles, Settled, Excluded
  <1>12. BatchesMeet' /\ OlderOrdersAreStored'
    BY <1>2, <1>6, <1>7, <1>10 DEF OrdersInv, BatchesMeet, OlderOrdersAreStored, Excluded
  <1> QED  BY <1>8, <1>11, <1>12 DEF OrdersInv

(* One answer settles every order that is asked for: it is in it, or is    *)
(* cut off or not filled yet.  The goroutine goes on from the newest one,  *)
(* and ends when that is the one it went on from, or at the end.           *)
LEMMA GetOrdersKeeps ==
    ASSUME OrdersInv, NEW s \in Symbols, GetOrders(s)
    PROVE  OrdersInv'
  <1>1. OrdersTyped /\ s \in DOMAIN reading
    BY DEF OrdersInv, GetOrders
  <1>2. PICK asked, page, last : asked = Asked(s) /\ page = Newest(Filled(Asked(s))) /\ last = Max(page)
    OBVIOUS
  <1>3. PICK from, got : from = reading[s].from /\ got = reading[s].last
    OBVIOUS
  <1>4. /\ DOMAIN orders = 1 .. Len(orders) /\ Len(orders) \in Nat
        /\ \A o \in DOMAIN orders : o \in Nat /\ o <= Len(orders) /\ orders[o].at \in Nat
    BY <1>1, OrdersAre DEF OrdersTyped
  <1>5. /\ from \in Nat /\ got \in Nat /\ from \in 0 .. hour /\ next \in Nat /\ startTime \in Nat /\ startTime # 0 /\ hour \in Nat
    BY <1>1, <1>3 DEF OrdersTyped
  <1>6. /\ cut' = cut \cup (Filled(asked) \ page) /\ late' = late \cup (asked \ Filled(asked))
        /\ hour' = hour /\ orders' = orders /\ orderRows' = orderRows /\ startTime' = startTime /\ next' = next
        /\ toHour' = toHour /\ skipped' = skipped
        /\ \/ (page = {} \/ last = got) /\ ReadingEnds(s) /\ listed' = listed
           \/ /\ page # {} /\ last # got /\ listed' = listed \cup page
              /\ \/ orders[last].at < next /\ reading' = [reading EXCEPT ![s] = [from |-> orders[last].at, last |-> last]]
                 \/ ~(orders[last].at < next) /\ ReadingEnds(s)
    BY <1>2, <1>3 DEF GetOrders
  <1>7. /\ asked \subseteq DOMAIN orders /\ page \subseteq Filled(asked) /\ Filled(asked) \subseteq asked
        /\ \A o \in asked : orders[o].symbol = s /\ orders[o].at >= from /\ orders[o].at <= next
        /\ \A o \in DOMAIN orders : orders[o].symbol = s /\ orders[o].at >= from /\ orders[o].at <= next => o \in asked
    BY <1>2, <1>3 DEF Asked, Newest, Filled
  <1>8. page # {} => last \in page /\ \A o \in page : last >= o
    <2>1. page \in SUBSET Nat /\ \A o \in page : o <= Len(orders)
      BY <1>4, <1>7
    <2> QED  BY <1>2, <1>4, <2>1, MaxOfNaturals
  <1>9. \A o : Settled(o) => Settled(o)'
    BY <1>6 DEF Settled, Excluded
  <1>10. \A o \in asked : o \in page \/ Excluded(o)'
    BY <1>6, <1>7 DEF Excluded
  <1>11. \A t : OfSymbol(t)' = OfSymbol(t)
    BY <1>6 DEF OfSymbol
  <1>12. \A o \in OfSymbol(s) : o \in DOMAIN orders /\ orders[o].symbol = s
    BY DEF OfSymbol
  <1>13. \A o \in OfSymbol(s) : /\ orders[o].at < from => Settled(o)
                                /\ o <= got /\ orders[o].at <= next => Settled(o)
    BY <1>1, <1>3, <1>5 DEF OrdersInv, BatchSettles
  <1>14. listed' \subseteq listed \cup page /\ orderRows \cup listed' \subseteq Filled(DOMAIN orders)
         /\ \A o \in listed' : orders[o].at <= next
    <2>1. page \subseteq Filled(DOMAIN orders)
      BY <1>7 DEF Filled
    <2>2. \A o \in page : orders[o].at <= next
      BY <1>7
    <2> QED  BY <1>1, <1>5, <1>6, <2>1, <2>2 DEF OrdersTyped, OrdersInv, BatchSettles
  <1>15. \A o \in OfSymbol(s) : orders[o].at <= next => Settled(o)' \/ (o \in page /\ listed' = listed)
    <2> SUFFICES ASSUME NEW o \in OfSymbol(s), orders[o].at <= next, ~Settled(o)', o \notin page \/ listed' # listed
                 PROVE  FALSE
      OBVIOUS
    <2>1. ~(orders[o].at < from)
      BY <1>9, <1>13
    <2>2. o \in asked
      BY <1>4, <1>5, <1>7, <1>12, <2>1
    <2>3. o \in page /\ listed' = listed \cup page
      BY <1>6, <1>10, <2>2 DEF Settled
    <2> QED  BY <2>3 DEF Settled
  <1>16. /\ DOMAIN reading' \subseteq DOMAIN reading
         /\ \A t \in DOMAIN reading' : t # s => reading'[t] = reading[t]
         /\ \A t \in DOMAIN reading : t # s => t \in DOMAIN reading'
    BY <1>1, <1>6 DEF ReadingEnds
  <1>17. CASE s \notin DOMAIN reading'
    <2>1. \A o \in OfSymbol(s) : orders[o].at < next => Settled(o)'
      <3> SUFFICES ASSUME NEW o \in OfSymbol(s), orders[o].at < next
                   PROVE  Settled(o)'
        OBVIOUS
      <3>1. orders[o].at <= next
        BY <1>4, <1>5, <1>12
      <3>2. CASE o \in page /\ listed' = listed
        <4>1. page = {} \/ last = got \/ listed' = listed \cup page
          BY <1>6
        <4>2. CASE last = got
          <5>1. o <= got
            BY <1>8, <3>2, <4>2, <1>4, <1>7
          <5> QED  BY <1>9, <1>13, <3>1, <5>1
        <4>3. CASE listed' = listed \cup page
          BY <3>2, <4>3 DEF Settled
        <4> QED  BY <3>2, <4>1, <4>2, <4>3
      <3> QED  BY <1>15, <3>1, <3>2
    <2>2. OrdersTyped'
      BY <1>1, <1>6, <1>14, <1>16, <1>17 DEF OrdersTyped, Filled
    <2>3. BatchSettles'
      BY <1>6, <1>9, <1>11, <1>14, <1>16, <1>17, <2>1 DEF OrdersInv, BatchSettles
    <2> QED  BY <1>6, <2>2, <2>3 DEF OrdersInv, BatchesMeet, OlderOrdersAreStored, Excluded
  <1>18. CASE s \in DOMAIN reading'
    <2>1. /\ page # {} /\ listed' = listed \cup page /\ orders[last].at < next
          /\ reading' = [reading EXCEPT ![s] = [from |-> orders[last].at, last |-> last]]
      BY <1>6, <1>18 DEF ReadingEnds
    <2>2. last \in page /\ last \in DOMAIN orders /\ orders[last].at \in Nat /\ orders[last].at \in 1 .. hour /\ last \in 0 .. Len(orders)
      BY <1>1, <1>4, <1>7, <1>8, <2>1 DEF OrdersTyped
    <2>3. /\ reading'[s] = [from |-> orders[last].at, last |-> last] /\ DOMAIN reading' = DOMAIN reading
          /\ reading'[s].from = orders[last].at /\ reading'[s].last = last
      BY <1>1, <2>1
    <2>4. \A o \in OfSymbol(s) : orders[o].at <= next => Settled(o)'
      BY <1>15, <2>1 DEF Settled
    <2>5. \A o \in OfSymbol(s) : orders[o].at < orders[last].at => Settled(o)'
      BY <1>4, <1>5, <1>12, <2>1, <2>2, <2>4
    <2>6. OrdersTyped'
      <3>1. \A t \in DOMAIN reading' : reading'[t] \in [from : 0 .. hour, last : 0 .. Len(orders)]
        BY <1>1, <1>5, <1>16, <2>2, <2>3 DEF OrdersTyped
      <3> QED  BY <1>1, <1>6, <1>14, <1>16, <3>1, <1>5 DEF OrdersTyped, Filled
    <2>7. BatchSettles'
      <3>1. \A t \in Symbols \ DOMAIN reading' : \A o \in OfSymbol(t) : orders[o].at < next => Settled(o)'
        BY <1>5, <1>9, <2>3 DEF OrdersInv, BatchSettles
      <3>2. ASSUME NEW t \in DOMAIN reading', NEW o \in OfSymbol(t)
            PROVE  /\ orders[o].at < reading'[t].from => Settled(o)'
                   /\ o <= reading'[t].last /\ orders[o].at <= next => Settled(o)'
        <4>1. CASE t = s
          BY <2>3, <2>4, <2>5, <4>1
        <4>2. CASE t # s
          BY <1>5, <1>9, <1>16, <2>3, <4>2 DEF OrdersInv, BatchSettles
        <4> QED  BY <4>1, <4>2
      <3> QED  BY <1>6, <1>11, <1>14, <3>1, <3>2 DEF BatchSettles
    <2> QED  BY <1>6, <2>6, <2>7 DEF OrdersInv, BatchesMeet, OlderOrdersAreStored, Excluded
  <1> QED  BY <1>17, <1>18

(* The run ends.                                                           *)
LEMMA OrdersRunEnds ==
    ASSUME OrdersTyped, EndOrdersRun, hour' = hour, orders' = orders, skipped' = skipped,
           orderRows' \subseteq Filled(DOMAIN orders)
    PROVE  OrdersTyped' /\ BatchSettles' /\ BatchesMeet'
  <1>1. startTime' = 0 /\ next' = 0 /\ toHour' = 0 /\ DOMAIN reading' = {} /\ listed' = {}
    BY DEF EndOrdersRun
  <1>2. 0 \in 0 .. hour
    BY DEF OrdersTyped
  <1> QED  BY <1>1, <1>2 DEF OrdersTyped, BatchSettles, BatchesMeet, Filled

(* A run that fails or is killed stores nothing of its batch.              *)
LEMMA OrdersStopKeeps == ASSUME OrdersInv, OrdersStop PROVE OrdersInv'
  <1>1. /\ EndOrdersRun /\ hour' = hour /\ orders' = orders /\ orderRows' = orderRows
        /\ cut' = cut /\ late' = late /\ skipped' = skipped
    BY DEF OrdersStop, ordersHistory
  <1>2. OrdersTyped /\ orderRows' \subseteq Filled(DOMAIN orders)
    BY <1>1 DEF OrdersInv, OrdersTyped
  <1>3. OrdersTyped' /\ BatchSettles' /\ BatchesMeet'
    BY <1>1, <1>2, OrdersRunEnds
  <1>4. OlderOrdersAreStored'
    BY <1>1 DEF OrdersInv, OlderOrdersAreStored, Excluded
  <1> QED  BY <1>3, <1>4 DEF OrdersInv

(* All goroutines have ended, so that nothing before the end of the batch  *)
(* is missing once it is stored.                                           *)
LEMMA StoreOrdersKeeps == ASSUME OrdersInv, StoreOrders PROVE OrdersInv'
  <1>1. /\ startTime # 0 /\ DOMAIN reading = {} /\ orderRows' = orderRows \cup listed
        /\ hour' = hour /\ orders' = orders /\ cut' = cut /\ late' = late /\ skipped' = skipped
        /\ \/ next < toHour /\ BatchFrom(next, toHour) /\ toHour' = toHour
           \/ EndOrdersRun
    BY DEF StoreOrders, ordersHistory
  <1>2. OrdersTyped /\ orderRows' \subseteq Filled(DOMAIN orders)
    BY <1>1 DEF OrdersInv, OrdersTyped
  <1>3. hour \in Nat /\ next \in 1 .. hour /\ startTime \in Nat
    BY <1>1, <1>2 DEF OrdersTyped
  <1>4. \A o \in DOMAIN orders : ~skipped /\ orders[o].at < next => o \in orderRows' \/ Excluded(o)
    <2> SUFFICES ASSUME NEW o \in DOMAIN orders, ~skipped, orders[o].at < next
                 PROVE  o \in orderRows' \/ Excluded(o)
      OBVIOUS
    <2>1. orders[o].at \in Nat /\ orders[o].symbol \in Symbols
      BY <1>2, OrdersAre DEF OrdersTyped
    <2>2. CASE orders[o].at < startTime
      BY <1>1, <2>2 DEF OrdersInv, BatchesMeet
    <2>3. CASE orders[o].at >= startTime
      <3>1. o \in OfSymbol(orders[o].symbol)
        BY <2>3 DEF OfSymbol
      <3> QED  BY <1>1, <2>1, <3>1 DEF OrdersInv, BatchSettles, Settled
    <2> QED  BY <1>3, <2>1, <2>2, <2>3
  <1>5. OlderOrdersAreStored'
    <2> SUFFICES ASSUME ~skipped, NEW o \in DOMAIN orders, NEW r \in orderRows \cup listed, orders[o].at < orders[r].at
                 PROVE  o \in orderRows' \/ Excluded(o)
      BY <1>1 DEF OlderOrdersAreStored, Excluded
    <2>1. CASE r \in orderRows
      BY <1>1, <2>1 DEF OrdersInv, OlderOrdersAreStored
    <2>2. CASE r \in listed
      <3>1. orders[r].at <= next
        BY <1>1, <2>2 DEF OrdersInv, BatchSettles
      <3>2. orders[o].at \in Nat /\ orders[r].at \in Nat
        BY <1>2, <2>2, OrdersAre DEF OrdersTyped, Filled
      <3> QED  BY <1>3, <1>4, <3>1, <3>2
    <2> QED  BY <2>1, <2>2
  <1>6. CASE next < toHour /\ BatchFrom(next, toHour) /\ toHour' = toHour
    <2>1. toHour \in 1 .. hour /\ skipped' \in BOOLEAN
      BY <1>1, <1>2, <1>3, <1>6 DEF OrdersTyped
    <2>2. OrdersTyped' /\ BatchSettles' /\ startTime' = next
      BY <1>1, <1>2, <1>3, <1>6, <2>1, BatchStarts
    <2>3. BatchesMeet'
      BY <1>1, <1>4, <2>2 DEF BatchesMeet, Excluded
    <2> QED  BY <1>5, <2>2, <2>3 DEF OrdersInv
  <1>7. CASE EndOrdersRun
    <2>1. OrdersTyped' /\ BatchSettles' /\ BatchesMeet'
      BY <1>1, <1>2, <1>7, OrdersRunEnds
    <2> QED  BY <1>5, <2>1 DEF OrdersInv
  <1> QED  BY <1>1, <1>6, <1>7

(* The exchange has no orders in the beginning.                            *)
LEMMA OrdersStart == OrdersInit => OrdersInv
  <1> SUFFICES ASSUME OrdersInit
               PROVE  OrdersInv
    OBVIOUS
  <1>1. /\ orders = <<>> /\ orders \in Seq(Order) /\ DOMAIN orders = {} /\ orderRows = {} /\ listed = {}
        /\ DOMAIN reading = {} /\ startTime = 0 /\ next = 0 /\ toHour = 0 /\ hour = 1 /\ skipped = FALSE
    BY DEF OrdersInit
  <1>2. 1 \in 1 .. LastHour /\ 0 \in 0 .. 1
    BY OrdersAssumption
  <1> QED  BY <1>1, <1>2 DEF OrdersInv, OrdersTyped, BatchSettles, BatchesMeet, OlderOrdersAreStored

(* Every step keeps the invariant.                                         *)
LEMMA OrdersSteps == OrdersInv /\ [OrdersNext]_orderVars => OrdersInv'
  <1> SUFFICES ASSUME OrdersInv, [OrdersNext]_orderVars
               PROVE  OrdersInv'
    OBVIOUS
  <1>1. CASE UNCHANGED orderVars
    BY <1>1 DEF orderVars, ordersRun, ordersHistory, OrdersInv, OrdersTyped, BatchSettles, BatchesMeet,
                OlderOrdersAreStored, OfSymbol, Settled, Excluded, Filled
  <1>2. CASE \E s \in Symbols, filled \in BOOLEAN : MakeOrder(s, filled)
    BY <1>2, MakeOrderKeeps
  <1>3. CASE \E o \in DOMAIN orders : FillOrder(o)
    BY <1>3, FillOrderKeeps
  <1>4. CASE \E from \in 0 .. hour, to \in 1 .. hour : StartOrders(from, to)
    BY <1>4, StartOrdersKeeps
  <1>5. CASE \E s \in Symbols : GetOrders(s)
    BY <1>5, GetOrdersKeeps
  <1> QED  BY <1>1, <1>2, <1>3, <1>4, <1>5, PassHourKeeps, StoreOrdersKeeps, OrdersStopKeeps DEF OrdersNext

(* The invariant says of every stored order what the property says of the  *)
(* newest.                                                                 *)
LEMMA OrdersInvImplies == OrdersInv => OrdersTypeOK /\ NoOrderIsPassed
  <1> SUFFICES ASSUME OrdersInv
               PROVE  OrdersTypeOK /\ NoOrderIsPassed
    OBVIOUS
  <1>1. OrdersTyped
    BY DEF OrdersInv
  <1>2. OrdersTypeOK
    <2>1. \A o \in DOMAIN orders : orders[o] \in [symbol : Symbols, at : 1 .. hour, filled : BOOLEAN]
      BY <1>1, OrdersAre DEF OrdersTyped, Order
    <2> QED  BY <1>1, <2>1 DEF OrdersTyped, OrdersTypeOK
  <1>3. NoOrderIsPassed
    <2> SUFFICES ASSUME ~skipped, NEW o \in DOMAIN orders, orders[o].at < GetLastStoredCreation
                 PROVE  o \in orderRows \cup cut \cup late
      BY DEF NoOrderIsPassed
    <2>1. GetLastStoredCreation # 1
      BY <1>1 DEF OrdersTyped
    <2>2. PICK r \in orderRows : GetLastStoredCreation = orders[r].at
      BY <1>1, <2>1, LastStoredCreationIs
    <2> QED  BY <2>2 DEF OrdersInv, OlderOrdersAreStored, Excluded
  <1> QED  BY <1>2, <1>3

-----------------------------------------------------------------------------
(* The push to Chainalysis.                                                *)

WindowEnd == Min({fromMoment + TimeFrame, LastMoment})

PushTyped ==
    /\ pushStep \in {"get", "push", "done", "failed"}
    /\ fromMoment \in Moments /\ attempt \in 0 .. RetryTimes
    /\ unpushed \subseteq Users
    /\ addresses \subseteq EthTrades /\ transfers \subseteq EthTrades

(* A window begins where the one before it ended, and the attempt is one   *)
(* of those that there are.                                                *)
WindowIsNext == pushStep = "push" => window = fromMoment .. WindowEnd
WindowIsWhole == window \subseteq Moments

(* What an attempt has left is registered: the transfers of a user who is  *)
(* done, and the addresses of the one at work.                             *)
AttemptRegisters ==
    /\ pushStep = "push" => \A t \in ToRegister : t[1] \in unpushed \/ t \in transfers
    /\ \A u \in addressDone : u \in unpushed /\ addressDone = {u} /\ Of(u) \subseteq addresses

(* What lies before the window is registered.                              *)
WindowsMeet ==
    pushStep \in {"get", "push"} => \A t \in EthTrades : t[2] < fromMoment => t \in transfers

PushInv == PushTyped /\ WindowIsNext /\ WindowIsWhole /\ AttemptRegisters /\ WindowsMeet /\ RunRegistersAll

(* The window begins with its first moment and ends with the last.         *)
LEMMA WindowIs ==
    ASSUME fromMoment \in Moments
    PROVE  /\ WindowEnd \in Moments /\ fromMoment <= WindowEnd
           /\ fromMoment .. WindowEnd \subseteq Moments
           /\ Max(fromMoment .. WindowEnd) = WindowEnd
  <1>1. fromMoment \in Nat /\ fromMoment >= 1 /\ fromMoment <= LastMoment /\ LastMoment \in Nat /\ TimeFrame \in Nat
    BY PushAssumption DEF Moments
  <1>2. WindowEnd \in {fromMoment + TimeFrame, LastMoment}
        /\ WindowEnd <= fromMoment + TimeFrame /\ WindowEnd <= LastMoment
    <2>1. {fromMoment + TimeFrame, LastMoment} \in SUBSET Nat /\ {fromMoment + TimeFrame, LastMoment} # {}
      BY <1>1
    <2> QED  BY <2>1, MinOfNaturals DEF WindowEnd
  <1>3. WindowEnd \in Moments /\ fromMoment <= WindowEnd
    BY <1>1, <1>2 DEF Moments
  <1>4. Max(fromMoment .. WindowEnd) = WindowEnd
    <2>1. /\ fromMoment .. WindowEnd \in SUBSET Nat /\ fromMoment .. WindowEnd # {}
          /\ WindowEnd \in Nat /\ WindowEnd \in fromMoment .. WindowEnd
          /\ \A n \in fromMoment .. WindowEnd : n <= WindowEnd
      BY <1>1, <1>3 DEF Moments
    <2> DEFINE T == fromMoment .. WindowEnd
    <2>2. Max(T) \in T /\ \A n \in T : Max(T) >= n
      BY <2>1, MaxOfNaturals
    <2> QED  BY <2>1, <2>2
  <1>5. fromMoment .. WindowEnd \subseteq Moments
    BY <1>1, <1>3 DEF Moments
  <1> QED  BY <1>3, <1>4, <1>5

(* Nothing is registered at first, and nothing lies before the range.      *)
LEMMA PushStarts == PushInit => PushInv
  <1> SUFFICES ASSUME PushInit
               PROVE  PushInv
    OBVIOUS
  <1>1. 1 \in Moments /\ LastMoment \in Nat /\ RetryTimes \in Nat /\ 0 \in 0 .. RetryTimes
    BY PushAssumption DEF Moments
  <1>2. \A t \in EthTrades : ~(t[2] < 1)
    BY <1>1 DEF EthTrades, Moments
  <1> QED  BY <1>1, <1>2 DEF PushInit, PushInv, PushTyped, WindowIsNext, WindowIsWhole, AttemptRegisters, WindowsMeet,
                          RunRegistersAll

(* The attempt that begins, the first one of its window or not, has all    *)
(* users of the window to register.                                        *)
LEMMA BeginAttemptKeeps ==
    ASSUME PushInv, pushStep = "push", attempt # RetryTimes, BeginAttempt(attempt + 1, ToRegister),
           UNCHANGED <<dest, fromMoment, window>>, addresses' \subseteq EthTrades, transfers' \subseteq addresses',
           transfers \subseteq transfers'
    PROVE  PushInv'
  <1>1. EthTrades' = EthTrades /\ ToRegister' = ToRegister /\ WindowEnd' = WindowEnd
    BY DEF EthTrades, ToRegister, WindowEnd
  <1>2. attempt' \in 0 .. RetryTimes
    BY PushAssumption DEF BeginAttempt, PushInv, PushTyped
  <1>3. unpushed' \subseteq Users
    BY DEF BeginAttempt, ToRegister, EthTrades
  <1>4. PushTyped'
    BY <1>1, <1>2, <1>3 DEF PushInv, PushTyped, BeginAttempt, EthTrades
  <1>5. AttemptRegisters' /\ WindowsMeet' /\ RunRegistersAll'
    BY <1>1 DEF PushInv, BeginAttempt, AttemptRegisters, WindowsMeet, RunRegistersAll
  <1>6. WindowIsNext' /\ WindowIsWhole'
    BY <1>1 DEF PushInv, BeginAttempt, WindowIsNext, WindowIsWhole
  <1> QED  BY <1>4, <1>5, <1>6 DEF PushInv

(* Every step, failed calls and attempts among them, keeps it.             *)
LEMMA PushSteps == PushInv /\ [PushNext]_pushVars => PushInv'
  <1> SUFFICES ASSUME PushInv, [PushNext]_pushVars
               PROVE  PushInv'
    OBVIOUS
  <1>0. /\ PushTyped /\ WindowIsNext /\ WindowIsWhole /\ AttemptRegisters /\ WindowsMeet /\ RunRegistersAll
    BY DEF PushInv
  <1>1. CASE GetTradeLogs
    <2>1. window' = fromMoment .. WindowEnd
      BY <1>1 DEF GetTradeLogs, WindowEnd
    <2>2. EthTrades' = EthTrades /\ WindowEnd' = WindowEnd
          /\ ToRegister' = {t \in EthTrades : t[2] \in window'}
      BY <1>1 DEF GetTradeLogs, EthTrades, ToRegister, WindowEnd
    <2>3. pushStep' = "push" /\ attempt' = 1 /\ addressDone' = {} /\ unpushed' = {t[1] : t \in ToRegister'}
          /\ UNCHANGED <<fromMoment, addresses, transfers>>
      BY <1>1, <2>2 DEF GetTradeLogs, BeginAttempt
    <2>4. unpushed' \subseteq Users
      BY <2>2, <2>3 DEF EthTrades
    <2>5. PushTyped'
      BY <1>0, <2>2, <2>3, <2>4, PushAssumption DEF PushTyped, Moments
    <2>6. WindowIsNext' /\ WindowIsWhole'
      BY <1>0, <2>1, <2>2, <2>3, WindowIs DEF PushTyped, WindowIsNext, WindowIsWhole, Moments
    <2>7. AttemptRegisters' /\ WindowsMeet' /\ RunRegistersAll'
      BY <1>0, <1>1, <2>2, <2>3 DEF AttemptRegisters, WindowsMeet, RunRegistersAll, GetTradeLogs
    <2> QED  BY <2>5, <2>6, <2>7 DEF PushInv
  <1>2. CASE GetFails
    BY <1>0, <1>2 DEF GetFails, End, PushInv, PushTyped, WindowIsNext, WindowIsWhole, AttemptRegisters, WindowsMeet,
                      RunRegistersAll, EthTrades, ToRegister, Of, Moments
  <1>3. ASSUME NEW u \in Users, RegisterAddress(u)
        PROVE  PushInv'
    <2>1. EthTrades' = EthTrades /\ WindowEnd' = WindowEnd /\ ToRegister' = ToRegister /\ Of(u)' = Of(u)
      BY <1>3 DEF RegisterAddress, EthTrades, ToRegister, WindowEnd, Of
    <2>2. Of(u) \subseteq EthTrades
      BY DEF Of, ToRegister
    <2>3. PushTyped'
      BY <1>0, <1>3, <2>1, <2>2 DEF RegisterAddress, PushTyped
    <2>4. AttemptRegisters'
      BY <1>0, <1>3, <2>1 DEF RegisterAddress, AttemptRegisters
    <2>5. WindowIsNext' /\ WindowIsWhole' /\ WindowsMeet' /\ RunRegistersAll'
      BY <1>0, <1>3, <2>1 DEF RegisterAddress, WindowIsNext, WindowIsWhole, WindowsMeet, RunRegistersAll, Moments
    <2> QED  BY <2>3, <2>4, <2>5 DEF PushInv
  <1>4. ASSUME NEW u \in Users, RegisterTransfer(u)
        PROVE  PushInv'
    <2>1. EthTrades' = EthTrades /\ WindowEnd' = WindowEnd /\ ToRegister' = ToRegister
      BY <1>4 DEF RegisterTransfer, EthTrades, ToRegister, WindowEnd
    <2>2. Of(u) \subseteq EthTrades /\ Of(u) \subseteq addresses /\ Of(u) = {t \in ToRegister : t[1] = u}
      BY <1>0, <1>4 DEF Of, ToRegister, RegisterTransfer, AttemptRegisters
    <2>3. PushTyped'
      BY <1>0, <1>4, <2>1, <2>2 DEF RegisterTransfer, PushTyped
    <2>4. AttemptRegisters'
      BY <1>0, <1>4, <2>1, <2>2 DEF RegisterTransfer, AttemptRegisters
    <2>5. WindowIsNext' /\ WindowIsWhole' /\ WindowsMeet' /\ RunRegistersAll'
      BY <1>0, <1>4, <2>1, <2>2 DEF RegisterTransfer, WindowIsNext, WindowIsWhole, WindowsMeet, RunRegistersAll, Moments
    <2> QED  BY <2>3, <2>4, <2>5 DEF PushInv
  <1>5. CASE PushSucceeds
    <2>1. EthTrades' = EthTrades /\ UNCHANGED <<dest, addresses, transfers>> /\ pushStep = "push" /\ unpushed = {}
      BY <1>5 DEF PushSucceeds, EthTrades
    <2>2. fromMoment \in Moments /\ window = fromMoment .. WindowEnd /\ Max(window) = WindowEnd /\ WindowEnd \in Moments
      BY <1>0, <2>1, WindowIs DEF PushTyped, WindowIsNext
    <2>3. \A t \in EthTrades : t[2] <= WindowEnd => t \in transfers
      <3> SUFFICES ASSUME NEW t \in EthTrades, t[2] <= WindowEnd
                   PROVE  t \in transfers
        OBVIOUS
      <3>1. t[2] \in Moments
        BY DEF EthTrades
      <3>2. CASE t[2] < fromMoment
        BY <1>0, <2>1, <3>2 DEF WindowsMeet
      <3>3. CASE ~(t[2] < fromMoment)
        <4>1. t[2] \in window
          BY <2>2, <3>1, <3>3 DEF Moments
        <4> QED  BY <1>0, <2>1, <4>1 DEF AttemptRegisters, ToRegister
      <3> QED  BY <3>2, <3>3
    <2>4. CASE Max(window) = LastMoment
      <3>1. End("done")
        BY <1>5, <2>4 DEF PushSucceeds
      <3>2. \A t \in EthTrades : t \in transfers
        BY <2>2, <2>3, <2>4 DEF EthTrades, Moments
      <3>3. transfers = EthTrades
        BY <1>0, <3>2 DEF PushTyped
      <3>4. ToRegister' = ToRegister /\ WindowEnd' = WindowEnd
        BY <2>1, <3>1 DEF ToRegister, WindowEnd, End, EthTrades
      <3> QED  BY <1>0, <2>1, <3>1, <3>3, <3>4 DEF End, PushInv, PushTyped, WindowIsNext, WindowIsWhole, AttemptRegisters, WindowsMeet,
                      RunRegistersAll, Of, Moments
    <2>5. CASE Max(window) # LastMoment /\ attempt < RetryTimes
      <3>1. BeginAttempt(attempt + 1, ToRegister) /\ UNCHANGED <<fromMoment, window>> /\ attempt # RetryTimes
        BY <1>0, <1>5, <2>5, PushAssumption DEF PushSucceeds, PushTyped
      <3> QED  BY <1>0, <2>1, <3>1, BeginAttemptKeeps DEF PushTyped, RunRegistersAll
    <2>6. CASE Max(window) # LastMoment /\ ~(attempt < RetryTimes)
      <3>1. NextWindow
        BY <1>5, <2>6 DEF PushSucceeds
      <3>2. pushStep' = "get" /\ fromMoment' = WindowEnd /\ window' = {} /\ attempt' = 0 /\ UNCHANGED <<unpushed, addressDone>>
        BY <2>2, <3>1 DEF NextWindow
      <3>3. addressDone = {}
        BY <1>0, <2>1 DEF AttemptRegisters
      <3>4. WindowsMeet'
        BY <2>1, <2>2, <2>3, <3>2 DEF WindowsMeet, Moments, EthTrades
      <3>5. PushTyped'
        BY <1>0, <2>1, <2>2, <3>2, PushAssumption DEF PushTyped, Moments
      <3> QED  BY <1>0, <2>1, <3>2, <3>3, <3>4, <3>5 DEF PushInv, WindowIsNext, WindowIsWhole, AttemptRegisters, RunRegistersAll
    <2> QED  BY <2>4, <2>5, <2>6
  <1>6. CASE PushFails
    <2>1. dest' = dest /\ EthTrades' = EthTrades /\ pushStep = "push"
      BY <1>6 DEF PushFails, EthTrades
    <2>2. \A u : Of(u) \subseteq EthTrades
      BY DEF Of, ToRegister
    <2>3. addresses' \subseteq EthTrades /\ transfers' \subseteq addresses' /\ transfers \subseteq transfers'
          /\ transfers' \subseteq EthTrades
      <3>1. CASE addressDone = {}
        <4>1. PICK served \in BOOLEAN, u \in unpushed : addresses' = addresses \cup IF served THEN Of(u) ELSE {}
          BY <1>6, <3>1 DEF PushFails
        <4>2. transfers' = transfers
          BY <1>6, <3>1 DEF PushFails
        <4> QED  BY <1>0, <2>2, <4>1, <4>2 DEF PushTyped, RunRegistersAll
      <3>2. CASE addressDone # {}
        <4>1. PICK served \in BOOLEAN, u \in addressDone : transfers' = transfers \cup IF served THEN Of(u) ELSE {}
          BY <1>6, <3>2 DEF PushFails
        <4>2. addresses' = addresses
          BY <1>6, <3>2 DEF PushFails
        <4>3. Of(u) \subseteq addresses
          BY <1>0, <4>1 DEF AttemptRegisters
        <4> QED  BY <1>0, <2>2, <4>1, <4>2, <4>3 DEF PushTyped, RunRegistersAll
      <3> QED  BY <3>1, <3>2
    <2>4. CASE attempt = RetryTimes
      <3>1. pushStep' = "failed" /\ UNCHANGED <<fromMoment, window, attempt, unpushed, addressDone>>
        BY <1>6, <2>4 DEF PushFails, GiveUp, End
      <3>2. ToRegister' = ToRegister /\ \A u : Of(u)' = Of(u)
        BY <2>1, <3>1 DEF ToRegister, Of
      <3>3. addresses \subseteq addresses'
        BY <1>6 DEF PushFails
      <3> QED  BY <1>0, <2>1, <2>3, <3>1, <3>2, <3>3 DEF PushInv, PushTyped, WindowIsNext, WindowIsWhole, AttemptRegisters, WindowsMeet,
                      RunRegistersAll, Of, Moments
    <2>5. CASE attempt # RetryTimes
      <3>1. BeginAttempt(attempt + 1, ToRegister) /\ UNCHANGED <<fromMoment, window>>
        BY <1>6, <2>5 DEF PushFails
      <3> QED  BY <2>1, <2>3, <2>5, <3>1, BeginAttemptKeeps
    <2> QED  BY <2>4, <2>5
  <1>7. CASE UNCHANGED pushVars
    BY <1>0, <1>7 DEF pushVars, pushWork, PushInv, PushTyped, WindowIsNext, WindowEnd, WindowIsWhole, AttemptRegisters, WindowsMeet,
                      RunRegistersAll, EthTrades, ToRegister, Of, Moments
  <1> QED  BY <1>1, <1>2, <1>3, <1>4, <1>5, <1>6, <1>7 DEF PushNext, PushWorks

(* A run that ends without an error has registered its whole range.        *)
LEMMA PushInvImplies == PushInv => PushTypeOK /\ RunRegistersAll
  BY DEF PushInv, PushTyped, PushTypeOK, AttemptRegisters, WindowIsWhole

-----------------------------------------------------------------------------
(* The cache of rates.                                                     *)

(* The rate of an item was stored while its day was not over, or later,    *)
(* soon after it was given.                                                *)
ItemOf(item, d, now) ==
    \E s \in 0 .. now :
        /\ d * DayTicks <= item.given /\ item.given <= s /\ s <= item.given + CallTime
        /\ item.until = s + (IF d = Day(s) THEN TodayExpires ELSE RateExpires)

ItemsAreRecent ==
    \A d \in DOMAIN rateItems : d \in Nat /\ rateItems[d].given \in Nat /\ ItemOf(rateItems[d], d, rateTime)

(* A call is no longer at work than it takes, and its day is not ahead.    *)
RateCall == [step : {"idle", "calling", "given", "answered"}, day : Nat, asked : Nat, given : Nat]

CallsAreInTime ==
    /\ rateCalls \in [Askers -> RateCall]
    /\ \A a \in Askers : LET c == rateCalls[a] IN
          /\ c.given <= rateTime
          /\ c.step \in {"calling", "given"} =>
                c.day * DayTicks <= c.asked /\ c.asked <= rateTime /\ rateTime <= c.asked + CallTime
          /\ c.step = "given" => c.asked <= c.given

RateCacheInv == rateTime \in 0 .. LastRateTick /\ ItemsAreRecent /\ CallsAreInTime /\ RatesAreRecent

(* A day has begun at the times of this day and of later ones.             *)
LEMMA DayIs ==
    ASSUME NEW t \in Nat, NEW d \in Nat
    PROVE  Day(t) \in Nat /\ (d <= Day(t) <=> d * DayTicks <= t)
  <1> DEFINE n == DayTicks
             q == t \div n
  <1>1. n \in Nat /\ n > 0
    BY RateCacheAssumption
  <1>2. q \in Int /\ n * q <= t /\ t < n * (q + 1)
    <2> HIDE DEF n
    <2> QED  BY <1>1, Z3
  <1>3. q \in Nat
    <2>1. ASSUME q < 0
          PROVE  FALSE
      <3>1. q + 1 <= 0
        BY <1>2, <2>1
      <3> HIDE DEF n, q
      <3>2. n * (q + 1) <= 0
        BY <1>1, <1>2, <3>1, Z3
      <3> QED  BY <1>1, <1>2, <3>2
    <2> HIDE DEF n, q
    <2> QED  BY <1>2, <2>1
  <1>4. d <= q => d * n <= t
    <2> HIDE DEF n, q
    <2>1. d <= q => n * d <= n * q
      BY <1>1, <1>3, Z3
    <2>2. d * n = n * d
      BY <1>1, Z3
    <2> QED  BY <1>1, <1>2, <1>3, <2>1, <2>2
  <1>5. d * n <= t => d <= q
    <2> HIDE DEF n, q
    <2>1. d >= q + 1 => n * d >= n * (q + 1)
      BY <1>1, <1>3, Z3
    <2>2. d * n = n * d
      BY <1>1, Z3
    <2> QED  BY <1>1, <1>2, <1>3, <2>1, <2>2
  <1> QED  BY <1>3, <1>4, <1>5 DEF Day

(* The cache is empty at first, and nobody asks.                           *)
LEMMA RateCacheStarts == RateCacheInit => RateCacheInv
  BY RateCacheAssumption DEF RateCacheInit, RateCacheInv, ItemsAreRecent, CallsAreInTime, RateCall, NoCall, RatesAreRecent

(* A rate that is found is answered: it is as old as its key lives at most.*)
LEMMA FoundIsRecent ==
    ASSUME RateCacheInv, NEW day \in Nat, Found(day)
    PROVE  LET given == rateItems[day].given IN
           /\ given \in Nat /\ given <= rateTime
           /\ \/ rateTime - given <= TodayExpires + CallTime
              \/ day < Day(rateTime) /\ rateTime - given <= RateExpires + CallTime
  <1>1. /\ day \in DOMAIN rateItems /\ rateTime <= rateItems[day].until /\ rateTime \in Nat
        /\ rateItems[day].given \in Nat /\ ItemOf(rateItems[day], day, rateTime)
    BY RateCacheAssumption DEF RateCacheInv, ItemsAreRecent, Found
  <1> DEFINE item == rateItems[day]
  <1>2. PICK s \in 0 .. rateTime :
            /\ day * DayTicks <= item.given /\ item.given <= s /\ s <= item.given + CallTime
            /\ item.until = s + (IF day = Day(s) THEN TodayExpires ELSE RateExpires)
    BY <1>1 DEF ItemOf
  <1>3. s \in Nat /\ s <= rateTime /\ CallTime \in Nat /\ TodayExpires \in Nat /\ RateExpires \in Nat /\ DayTicks \in Nat
    BY <1>1, RateCacheAssumption
  <1> DEFINE given == item.given
             start == day * DayTicks
  <1>4. given \in Nat /\ given <= rateTime /\ start \in Nat /\ start <= s
    BY <1>1, <1>2, <1>3
  <1>5. Day(s) \in Nat /\ Day(rateTime) \in Nat /\ day <= Day(s)
    BY <1>1, <1>3, <1>4, DayIs
  <1>6. Day(s) <= Day(rateTime)
    <2> DEFINE first == Day(s) * DayTicks
    <2>1. first <= s
      BY <1>3, <1>5, DayIs
    <2>2. first \in Nat
      BY <1>3, <1>5
    <2>3. first <= rateTime
      BY <1>1, <1>3, <2>1, <2>2
    <2> QED  BY <1>1, <1>5, <2>3, DayIs
  <1>7. CASE day = Day(s)
    BY <1>1, <1>2, <1>3, <1>4, <1>7
  <1>8. CASE day # Day(s)
    BY <1>1, <1>2, <1>3, <1>4, <1>5, <1>6, <1>8
  <1> QED  BY <1>7, <1>8

(* Every step, with askers in any order, keeps rates recent.               *)
LEMMA RateCacheSteps == RateCacheInv /\ [RateCacheNext]_rateCacheVars => RateCacheInv'
  <1> SUFFICES ASSUME RateCacheInv, [RateCacheNext]_rateCacheVars
               PROVE  RateCacheInv'
    OBVIOUS
  <1>0. /\ rateTime \in 0 .. LastRateTick /\ rateTime \in Nat
        /\ LastRateTick \in Nat /\ CallTime \in Nat /\ TodayExpires \in Nat /\ RateExpires \in Nat /\ DayTicks \in Nat
        /\ ItemsAreRecent /\ CallsAreInTime /\ RatesAreRecent
    BY RateCacheAssumption DEF RateCacheInv
  <1>1. CASE RateClock
    <2>1. rateTime < LastRateTick /\ rateTime' = rateTime + 1 /\ UNCHANGED <<rateItems, rateCalls>>
          /\ \A a \in Askers : rateCalls[a].step \in {"calling", "given"} => rateTime < rateCalls[a].asked + CallTime
      BY <1>1 DEF RateClock
    <2>2. rateTime' \in 0 .. LastRateTick
      BY <1>0, <2>1
    <2>3. ItemsAreRecent'
      <3> SUFFICES ASSUME NEW d \in DOMAIN rateItems
                   PROVE  ItemOf(rateItems[d], d, rateTime + 1)
        BY <1>0, <2>1 DEF ItemsAreRecent, ItemOf
      <3>1. ItemOf(rateItems[d], d, rateTime)
        BY <1>0 DEF ItemsAreRecent
      <3>2. 0 .. rateTime \subseteq 0 .. (rateTime + 1)
        BY <1>0
      <3> QED  BY <3>1, <3>2 DEF ItemOf
    <2>4. CallsAreInTime'
      BY <1>0, <2>1 DEF CallsAreInTime, RateCall
    <2>5. RatesAreRecent'
      BY <1>0, <2>1 DEF RatesAreRecent
    <2> QED  BY <2>2, <2>3, <2>4, <2>5 DEF RateCacheInv
  <1>2. ASSUME NEW a \in Askers, NEW day \in 0 .. Day(rateTime), AskRate(a, day)
        PROVE  RateCacheInv'
    <2>0. Day(rateTime) \in Nat
      BY <1>0, DayIs
    <2>1. day \in Nat /\ day * DayTicks <= rateTime
      BY <1>0, <2>0, DayIs
    <2> DEFINE c == IF Found(day)
           THEN [step |-> "answered", day |-> day, asked |-> rateTime, given |-> rateItems[day].given]
           ELSE [step |-> "calling", day |-> day, asked |-> rateTime, given |-> 0]
    <2>2. rateCalls' = [rateCalls EXCEPT ![a] = c] /\ UNCHANGED <<rateTime, rateItems>>
      BY <1>2 DEF AskRate
    <2>3. rateCalls' \in [Askers -> RateCall]
      BY <1>0, <2>1, <2>2, FoundIsRecent DEF CallsAreInTime, RateCall
    <2>4. CallsAreInTime'
      BY <1>0, <2>1, <2>2, <2>3, FoundIsRecent DEF CallsAreInTime, RateCall
    <2>5. RatesAreRecent'
      <3> SUFFICES ASSUME NEW b \in Askers, rateCalls'[b].step = "answered"
                   PROVE  LET k == rateCalls'[b] IN
                          \/ k.asked - k.given <= TodayExpires + CallTime
                          \/ k.given >= (k.day + 1) * DayTicks
                          \/ k.day < Day(k.asked) /\ k.asked - k.given <= RateExpires + CallTime
        BY DEF RatesAreRecent
      <3>1. CASE b = a
        <4>1. rateCalls'[b] = c
          BY <1>0, <2>2, <3>1 DEF CallsAreInTime
        <4>2. Found(day) /\ c = [step |-> "answered", day |-> day, asked |-> rateTime, given |-> rateItems[day].given]
          BY <4>1
        <4> QED  BY <2>1, <4>1, <4>2, FoundIsRecent
      <3>2. CASE b # a
        <4>1. rateCalls'[b] = rateCalls[b]
          BY <1>0, <2>2, <3>2 DEF CallsAreInTime
        <4> QED  BY <1>0, <4>1 DEF RatesAreRecent
      <3> QED  BY <3>1, <3>2
    <2> QED  BY <1>0, <2>2, <2>4, <2>5 DEF RateCacheInv, ItemsAreRecent, ItemOf
  <1>3. ASSUME NEW a \in Askers, ProviderGives(a)
        PROVE  RateCacheInv'
    <2>1. rateCalls[a].step = "calling" /\ UNCHANGED <<rateTime, rateItems>>
          /\ rateCalls' = [rateCalls EXCEPT ![a].step = "given", ![a].given = rateTime]
      BY <1>3 DEF ProviderGives
    <2>2. CallsAreInTime'
      <3> DEFINE c == [rateCalls[a] EXCEPT !.step = "given", !.given = rateTime]
      <3>1. rateCalls \in [Askers -> RateCall] /\ rateCalls' = [rateCalls EXCEPT ![a] = c]
        BY <1>0, <2>1 DEF CallsAreInTime
      <3>2. c \in RateCall
        BY <1>0, <3>1 DEF RateCall
      <3>3. c.given = rateTime /\ c.day = rateCalls[a].day /\ c.asked = rateCalls[a].asked /\ c.step = "given"
        BY <3>1 DEF RateCall
      <3> HIDE DEF c
      <3>4. rateCalls' \in [Askers -> RateCall] /\ \A b \in Askers : rateCalls'[b] = IF b = a THEN c ELSE rateCalls[b]
        BY <3>1, <3>2
      <3> QED  BY <1>0, <2>1, <3>3, <3>4 DEF CallsAreInTime
    <2>3. RatesAreRecent'
      <3>1. \A b \in Askers : rateCalls'[b].step = "answered" => rateCalls'[b] = rateCalls[b]
        BY <1>0, <2>1 DEF CallsAreInTime, RateCall
      <3> QED  BY <1>0, <3>1 DEF RatesAreRecent
    <2> QED  BY <1>0, <2>1, <2>2, <2>3 DEF RateCacheInv, ItemsAreRecent, ItemOf
  <1>4. ASSUME NEW a \in Askers, ProviderFails(a)
        PROVE  RateCacheInv'
    <2>1. UNCHANGED <<rateTime, rateItems>> /\ rateCalls' = [rateCalls EXCEPT ![a] = NoCall]
      BY <1>4 DEF ProviderFails
    <2>2. CallsAreInTime'
      BY <1>0, <2>1 DEF CallsAreInTime, RateCall, NoCall
    <2>3. RatesAreRecent'
      BY <1>0, <2>1 DEF RatesAreRecent, CallsAreInTime, NoCall
    <2> QED  BY <1>0, <2>1, <2>2, <2>3 DEF RateCacheInv, ItemsAreRecent, ItemOf
  <1>5. ASSUME NEW a \in Askers, SetRate(a)
        PROVE  RateCacheInv'
    <2> DEFINE c == rateCalls[a]
               expires == IF c.day = Day(rateTime) THEN TodayExpires ELSE RateExpires
               item == [given |-> c.given, until |-> rateTime + expires]
    <2>1. /\ c.step = "given" /\ UNCHANGED rateTime
          /\ rateItems' = [d \in DOMAIN rateItems \cup {c.day} |-> IF d = c.day THEN item ELSE rateItems[d]]
          /\ rateCalls' = [rateCalls EXCEPT ![a].step = "answered", ![a].asked = rateTime]
      BY <1>5 DEF SetRate, Cached
    <2>2. /\ DOMAIN rateItems' = {c.day} \cup DOMAIN rateItems
          /\ \A d \in DOMAIN rateItems' : rateItems'[d] = IF d = c.day THEN item ELSE rateItems[d]
      BY <2>1
    <2>3. /\ c \in RateCall /\ c.day * DayTicks <= c.asked /\ c.asked <= c.given /\ c.given <= rateTime
          /\ rateTime <= c.asked + CallTime
      BY <1>0, <2>1 DEF CallsAreInTime
    <2>4. c.day \in Nat /\ c.asked \in Nat /\ c.given \in Nat
      BY <2>3 DEF RateCall
    <2> DEFINE start == c.day * DayTicks
    <2>5. start \in Nat /\ start <= c.given /\ rateTime <= c.given + CallTime
      BY <1>0, <2>3, <2>4
    <2>6. ItemOf(item, c.day, rateTime)
      <3>1. rateTime \in 0 .. rateTime
        BY <1>0
      <3> QED  BY <1>0, <2>3, <2>5, <3>1 DEF ItemOf
    <2>7. ItemsAreRecent'
      <3> SUFFICES ASSUME NEW d \in DOMAIN rateItems'
                   PROVE  d \in Nat /\ rateItems'[d].given \in Nat /\ ItemOf(rateItems'[d], d, rateTime)
        BY <2>1 DEF ItemsAreRecent, ItemOf
      <3> HIDE DEF item, c
      <3>1. item.given \in Nat
        BY <2>4 DEF item
      <3> QED  BY <1>0, <2>2, <2>4, <2>6, <3>1 DEF ItemsAreRecent
    <2>8. CallsAreInTime'
      BY <1>0, <2>1, <2>3 DEF CallsAreInTime, RateCall
    <2>9. RatesAreRecent'
      <3> SUFFICES ASSUME NEW b \in Askers, rateCalls'[b].step = "answered"
                   PROVE  LET k == rateCalls'[b] IN
                          \/ k.asked - k.given <= TodayExpires + CallTime
                          \/ k.given >= (k.day + 1) * DayTicks
                          \/ k.day < Day(k.asked) /\ k.asked - k.given <= RateExpires + CallTime
        BY DEF RatesAreRecent
      <3>1. CASE b = a
        <4>1. rateCalls'[b].asked = rateTime /\ rateCalls'[b].given = c.given
          BY <1>0, <2>1, <3>1 DEF CallsAreInTime, RateCall
        <4> QED  BY <1>0, <2>4, <2>5, <4>1
      <3>2. CASE b # a
        <4>1. rateCalls'[b] = rateCalls[b]
          BY <1>0, <2>1, <3>2 DEF CallsAreInTime
        <4> QED  BY <1>0, <4>1 DEF RatesAreRecent
      <3> QED  BY <3>1, <3>2
    <2> QED  BY <1>0, <2>1, <2>7, <2>8, <2>9 DEF RateCacheInv
  <1>6. CASE UNCHANGED rateCacheVars
    BY <1>0, <1>6 DEF rateCacheVars, RateCacheInv, ItemsAreRecent, ItemOf, CallsAreInTime, RatesAreRecent
  <1> QED  BY <1>1, <1>2, <1>3, <1>4, <1>5, <1>6 DEF RateCacheNext

(* What is to be shown of the cache of rates.                              *)
LEMMA RateCacheInvImplies == RateCacheInv => RateCacheTypeOK /\ RatesAreRecent
  <1> SUFFICES ASSUME RateCacheInv
               PROVE  RateCacheTypeOK
    BY DEF RateCacheInv
  <1>1. rateTime \in Nat /\ DayTicks \in Nat /\ CallTime \in Nat
    BY RateCacheAssumption DEF RateCacheInv
  <1>2. ASSUME NEW d \in DOMAIN rateItems
        PROVE  d <= Day(rateTime) /\ rateItems[d].given >= d * DayTicks
    <2>1. d \in Nat /\ rateItems[d].given \in Nat /\ d * DayTicks <= rateItems[d].given /\ rateItems[d].given <= rateTime
      BY <1>1 DEF RateCacheInv, ItemsAreRecent, ItemOf
    <2> DEFINE start == d * DayTicks
    <2>2. start \in Nat
      BY <1>1, <2>1
    <2>3. start <= rateTime
      BY <1>1, <2>1, <2>2
    <2>4. d <= Day(rateTime)
      BY <1>1, <2>1, <2>3, DayIs
    <2> QED  BY <2>1, <2>2, <2>4
  <1> QED  BY <1>2 DEF RateCacheInv, CallsAreInTime, RateCall, RateCacheTypeOK

-----------------------------------------------------------------------------
(* The cacher of volumes and the caps.                                     *)

DealRecord == [who : Traders, at : Nat, nr : Nat]

CapsTyped ==
    /\ capTime \in 0 .. LastCapTick /\ cacherStops \in 0 .. MaxCacherStops
    /\ deals \subseteq DealRecord /\ IsFiniteSet(deals) /\ Cardinality(deals) <= MaxDeals
    /\ \A d \in deals : d.at <= capTime
    /\ lastRun.any \in BOOLEAN /\ lastRun.query \in 0 .. capTime /\ lastRun.done \in lastRun.query .. capTime

(* The trades of a user in the 24 hours before t, without those at t: once *)
(* t is over or asked about, they stay the same.                           *)
TradedBefore(p, t) == Cardinality({d \in deals : d.who = p /\ t - CapWindow <= d.at /\ d.at < t})

(* What a query has returned is what had been traded by then.              *)
QueryIsRight ==
    /\ ~caching.runs => DOMAIN caching.volumes = {}
    /\ DOMAIN caching.volumes \subseteq Traders
    /\ caching.runs => /\ caching.at \in lastRun.done .. capTime /\ capTime <= caching.at + RunTime
                       /\ \A p \in Traders \ DOMAIN caching.volumes : TradedBefore(p, caching.at) = 0
    /\ \A p \in DOMAIN caching.volumes :
          /\ caching.volumes[p] \in 1 .. MaxDeals
          /\ TradedBefore(p, caching.at) <= caching.volumes[p] /\ caching.volumes[p] <= VolumeAt(p, caching.at)

(* A key has the volume of a query, of a run before it was set.            *)
KeyIsVolume(p, key) ==
    /\ key.volume \in 1 .. MaxDeals /\ key.until \in Nat
    /\ key.until > capTime /\ key.until <= capTime + VolumeExpiry
    /\ \E t \in (key.until - VolumeExpiry - RunTime) .. capTime : key.volume <= VolumeAt(p, t)

KeysAreVolumes == \A p \in DOMAIN volumeKeys : p \in Traders /\ KeyIsVolume(p, volumeKeys[p])

(* Since the last completed run a user's key has no less than he had       *)
(* traded before some query, or he had not, and lives as long as the keys  *)
(* of that run.                                                            *)
IsCounted(p, q) ==
    \/ TradedBefore(p, q) = 0
    \/ /\ p \in DOMAIN volumeKeys /\ TradedBefore(p, q) <= volumeKeys[p].volume
       /\ volumeKeys[p].until >= lastRun.done + VolumeExpiry

KeysAreFresh ==
    lastRun.any /\ capTime < lastRun.done + VolumeExpiry =>
        \A p \in Traders : \E q \in lastRun.query .. capTime : IsCounted(p, q)

CapsInv == CapsTyped /\ QueryIsRight /\ KeysAreVolumes /\ KeysAreFresh

(* The numbers that the limits and times are.                              *)
LEMMA CapsConstants ==
    /\ Banned \subseteq Traders /\ CapWindow \in Nat /\ CapWindow > 0 /\ VolumeExpiry \in Nat /\ VolumeExpiry > 0
    /\ RunTime \in Nat /\ LastCapTick \in Nat /\ MaxDeals \in Nat /\ MaxCacherStops \in Nat
    /\ \A k \in BOOLEAN : DailyLimit[k] \in Nat /\ DailyLimit[k] > 0 /\ TxLimit[k] \in Nat
  BY CapsAssumption

(* Numbers of trades are naturals, no more than there are.                 *)
LEMMA VolumesAreNaturals ==
    ASSUME IsFiniteSet(deals), NEW S \in SUBSET deals
    PROVE  IsFiniteSet(S) /\ Cardinality(S) \in Nat /\ Cardinality(S) <= Cardinality(deals)
  BY FS_Subset, FS_CardinalityType

(* More trades are counted in a larger set.                                *)
LEMMA MoreAreCounted ==
    ASSUME IsFiniteSet(deals), NEW S \in SUBSET deals, NEW T \in SUBSET S
    PROVE  Cardinality(T) <= Cardinality(S) /\ Cardinality(S) \in Nat /\ Cardinality(T) \in Nat
  <1>1. IsFiniteSet(S)
    BY FS_Subset
  <1> QED  BY <1>1, FS_Subset, FS_CardinalityType

(* Nobody has traded, and no key is set.                                   *)
LEMMA CapsStart == CapsInit => CapsInv
  <1> SUFFICES ASSUME CapsInit
               PROVE  CapsInv
    OBVIOUS
  <1>1. IsFiniteSet({}) /\ Cardinality({}) = 0
    BY FS_EmptySet
  <1> QED  BY <1>1, CapsConstants DEF CapsInit, CapsInv, CapsTyped, QueryIsRight, KeysAreVolumes, KeysAreFresh, NoRun, DealRecord

(* Trades leave the window, and keys expire.                               *)
LEMMA PassTimeKeeps == CapsInv /\ PassTime => CapsInv'
  <1> SUFFICES ASSUME CapsInv, PassTime
               PROVE  CapsInv'
    OBVIOUS
  <1>1. /\ capTime < LastCapTick /\ (caching.runs => capTime < caching.at + RunTime) /\ capTime' = capTime + 1
        /\ volumeKeys' = [p \in {p \in DOMAIN volumeKeys : volumeKeys[p].until > capTime + 1} |-> volumeKeys[p]]
        /\ UNCHANGED <<deals, caching, lastRun, cacherStops>>
    BY DEF PassTime, Restrict
  <1>2. capTime \in Nat /\ CapsTyped
    BY CapsConstants DEF CapsInv, CapsTyped
  <1>3. CapsTyped'
    BY <1>1, <1>2, CapsConstants DEF CapsTyped, DealRecord
  <1>4. \A p, t : TradedBefore(p, t)' = TradedBefore(p, t) /\ VolumeAt(p, t)' = VolumeAt(p, t)
    BY <1>1 DEF TradedBefore, VolumeAt
  <1>5. QueryIsRight'
    BY <1>1, <1>2, <1>4, CapsConstants DEF CapsInv, CapsTyped, QueryIsRight
  <1>6. KeysAreVolumes'
    <2> SUFFICES ASSUME NEW p \in DOMAIN volumeKeys'
                 PROVE  p \in Traders /\ KeyIsVolume(p, volumeKeys[p])' /\ volumeKeys'[p] = volumeKeys[p]
      BY DEF KeysAreVolumes
    <2>1. p \in DOMAIN volumeKeys /\ volumeKeys'[p] = volumeKeys[p] /\ volumeKeys[p].until > capTime + 1
      BY <1>1
    <2>2. p \in Traders /\ KeyIsVolume(p, volumeKeys[p])
      BY <2>1 DEF CapsInv, KeysAreVolumes
    <2>3. PICK t \in (volumeKeys[p].until - VolumeExpiry - RunTime) .. capTime : volumeKeys[p].volume <= VolumeAt(p, t)
      BY <2>2 DEF KeyIsVolume
    <2>4. volumeKeys[p].until \in Nat
      BY <2>2 DEF KeyIsVolume
    <2>5. t \in (volumeKeys[p].until - VolumeExpiry - RunTime) .. (capTime + 1)
      BY <1>2, <2>3, <2>4, CapsConstants
    <2> QED  BY <1>1, <1>2, <1>4, <2>1, <2>2, <2>3, <2>4, <2>5, CapsConstants DEF KeyIsVolume
  <1>7. KeysAreFresh'
    <2> SUFFICES ASSUME lastRun.any, capTime + 1 < lastRun.done + VolumeExpiry, NEW p \in Traders
                 PROVE  \E q \in lastRun.query .. (capTime + 1) : IsCounted(p, q)'
      BY <1>1 DEF KeysAreFresh
    <2>1. PICK q \in lastRun.query .. capTime : IsCounted(p, q)
      BY <1>2, CapsConstants DEF CapsInv, CapsTyped, KeysAreFresh
    <2>2. q \in lastRun.query .. (capTime + 1)
      BY <1>2 DEF CapsTyped
    <2>3. ASSUME p \in DOMAIN volumeKeys, volumeKeys[p].until >= lastRun.done + VolumeExpiry
          PROVE  p \in DOMAIN volumeKeys' /\ volumeKeys'[p] = volumeKeys[p]
      <3>1. volumeKeys[p].until \in Nat
        BY <2>3 DEF CapsInv, KeysAreVolumes, KeyIsVolume
      <3>2. volumeKeys[p].until > capTime + 1
        BY <1>2, <2>3, <3>1, CapsConstants DEF CapsTyped
      <3> QED  BY <1>1, <2>3, <3>2
    <2>4. IsCounted(p, q)'
      BY <1>1, <1>4, <2>1, <2>3 DEF IsCounted
    <2> QED  BY <2>2, <2>4
  <1> QED  BY <1>3, <1>5, <1>6, <1>7 DEF CapsInv

(* A trade that the limits allow: no user has more than the limit then.    *)
LEMMA DealKeeps == ASSUME CapsInv, NEW p \in Traders, Deal(p) PROVE CapsInv'
  <1> DEFINE new == [who |-> p, at |-> capTime, nr |-> Cardinality(deals)]
  <1>1. /\ Cardinality(deals) < MaxDeals /\ deals' = deals \cup {new}
        /\ UNCHANGED <<capTime, volumeKeys, caching, lastRun, cacherStops>>
    BY DEF Deal
  <1>2. capTime \in Nat /\ CapsTyped /\ IsFiniteSet(deals) /\ Cardinality(deals) \in Nat
    BY CapsConstants, FS_CardinalityType DEF CapsInv, CapsTyped
  <1>3. IsFiniteSet(deals') /\ Cardinality(deals') <= MaxDeals
    <2>1. IsFiniteSet(deals \cup {new}) /\ (Cardinality(deals \cup {new}) = Cardinality(deals) \/ Cardinality(deals \cup {new}) = Cardinality(deals) + 1)
      BY <1>2, FS_AddElement
    <2> QED  BY <1>1, <1>2, <2>1, CapsConstants
  <1>4. CapsTyped'
    BY <1>1, <1>2, <1>3 DEF CapsTyped, DealRecord
  <1>5. ASSUME NEW r, NEW t \in Int, t <= capTime
        PROVE  TradedBefore(r, t)' = TradedBefore(r, t)
    <2>1. {d \in deals' : d.who = r /\ t - CapWindow <= d.at /\ d.at < t} =
          {d \in deals : d.who = r /\ t - CapWindow <= d.at /\ d.at < t}
      BY <1>1, <1>2, <1>5
    <2> QED  BY <2>1 DEF TradedBefore
  <1>6. ASSUME NEW r, NEW t
        PROVE  VolumeAt(r, t) <= VolumeAt(r, t)' /\ VolumeAt(r, t) \in Nat /\ VolumeAt(r, t)' \in Nat
    <2> DEFINE before == {d \in deals : d.who = r /\ t - CapWindow <= d.at /\ d.at <= t}
               after == {d \in deals' : d.who = r /\ t - CapWindow <= d.at /\ d.at <= t}
    <2>1. before \subseteq after /\ after \subseteq deals' /\ VolumeAt(r, t) = Cardinality(before) /\ VolumeAt(r, t)' = Cardinality(after)
      BY <1>1 DEF VolumeAt
    <2> HIDE DEF before, after
    <2>2. IsFiniteSet(after)
      BY <1>3, <2>1, FS_Subset
    <2> QED  BY <2>1, <2>2, FS_Subset, FS_CardinalityType
  <1>7. QueryIsRight'
    <2> DEFINE Before(r, t) == Cardinality({d \in deals' : d.who = r /\ t - CapWindow <= d.at /\ d.at < t})
               Volume(r, t) == Cardinality({d \in deals' : d.who = r /\ t - CapWindow <= d.at /\ d.at <= t})
    <2>1. /\ \A r : TradedBefore(r, caching.at)' = Before(r, caching.at)
          /\ \A r : VolumeAt(r, caching.at)' = Volume(r, caching.at)
      BY <1>1 DEF TradedBefore, VolumeAt
    <2>2. ASSUME caching.runs, NEW r
          PROVE  Before(r, caching.at) = TradedBefore(r, caching.at)
      <3>1. caching.at \in Int /\ caching.at <= capTime
        BY <1>2, <2>2 DEF CapsInv, CapsTyped, QueryIsRight
      <3>2. \A t \in Int : t <= capTime => Before(r, t) = TradedBefore(r, t)
        BY <1>5 DEF TradedBefore
      <3> HIDE DEF Before
      <3> QED  BY <3>1, <3>2
    <2>3. ASSUME NEW r
          PROVE  /\ VolumeAt(r, caching.at) <= Volume(r, caching.at)
                 /\ VolumeAt(r, caching.at) \in Nat /\ Volume(r, caching.at) \in Nat
      <3>1. \A t : VolumeAt(r, t) <= Volume(r, t) /\ VolumeAt(r, t) \in Nat /\ Volume(r, t) \in Nat
        BY <1>6 DEF VolumeAt
      <3> HIDE DEF Volume
      <3> QED  BY <3>1
    <2> HIDE DEF Before, Volume
    <2>4. ASSUME NEW r \in DOMAIN caching.volumes
          PROVE  /\ caching.volumes[r] \in 1 .. MaxDeals
                 /\ TradedBefore(r, caching.at)' <= caching.volumes[r] /\ caching.volumes[r] <= VolumeAt(r, caching.at)'
      <3>1. caching.runs
        BY <2>4 DEF CapsInv, QueryIsRight
      <3>2. /\ caching.volumes[r] \in 1 .. MaxDeals
            /\ TradedBefore(r, caching.at) <= caching.volumes[r] /\ caching.volumes[r] <= VolumeAt(r, caching.at)
        BY <2>4 DEF CapsInv, QueryIsRight
      <3>3. caching.volumes[r] \in Nat
        BY <3>2, CapsConstants
      <3> QED  BY <2>1, <2>2, <2>3, <3>1, <3>2, <3>3
    <2>5. ASSUME caching.runs, NEW r \in Traders \ DOMAIN caching.volumes
          PROVE  TradedBefore(r, caching.at)' = 0
      BY <2>1, <2>2, <2>5 DEF CapsInv, QueryIsRight
    <2> QED  BY <1>1, <2>4, <2>5 DEF CapsInv, QueryIsRight
  <1>8. KeysAreVolumes'
    <2> SUFFICES ASSUME NEW r \in DOMAIN volumeKeys
                 PROVE  r \in Traders /\ KeyIsVolume(r, volumeKeys[r])'
      BY <1>1 DEF KeysAreVolumes
    <2>1. r \in Traders /\ KeyIsVolume(r, volumeKeys[r])
      BY DEF CapsInv, KeysAreVolumes
    <2>2. PICK t \in (volumeKeys[r].until - VolumeExpiry - RunTime) .. capTime : volumeKeys[r].volume <= VolumeAt(r, t)
      BY <2>1 DEF KeyIsVolume
    <2>3. volumeKeys[r].volume <= VolumeAt(r, t)'
      <3>1. volumeKeys[r].volume \in Nat
        BY <2>1, CapsConstants DEF KeyIsVolume
      <3> QED  BY <1>6, <2>2, <3>1
    <2> QED  BY <1>1, <2>1, <2>2, <2>3 DEF KeyIsVolume, VolumeAt
  <1>9. KeysAreFresh'
    <2> SUFFICES ASSUME lastRun.any, capTime < lastRun.done + VolumeExpiry, NEW r \in Traders
                 PROVE  \E q \in lastRun.query .. capTime : IsCounted(r, q)'
      BY <1>1 DEF KeysAreFresh
    <2>1. PICK q \in lastRun.query .. capTime : IsCounted(r, q)
      BY DEF CapsInv, KeysAreFresh
    <2>2. TradedBefore(r, q)' = TradedBefore(r, q)
      BY <1>2, <1>5, <2>1 DEF CapsTyped
    <2> QED  BY <1>1, <2>1, <2>2 DEF IsCounted, TradedBefore
  <1> QED  BY <1>4, <1>7, <1>8, <1>9 DEF CapsInv

(* A run reads the volumes of now.                                         *)
LEMMA QueryVolumesKeeps == CapsInv /\ QueryVolumes => CapsInv'
  <1> SUFFICES ASSUME CapsInv, QueryVolumes
               PROVE  CapsInv'
    OBVIOUS
  <1> DEFINE active == {p \in Traders : VolumeAt(p, capTime) > 0}
  <1>1. /\ ~caching.runs /\ UNCHANGED <<capTime, deals, volumeKeys, lastRun, cacherStops>>
        /\ caching' = [at |-> capTime, volumes |-> [p \in active |-> VolumeAt(p, capTime)], runs |-> TRUE]
    BY DEF QueryVolumes
  <1>2. capTime \in Nat /\ CapsTyped /\ IsFiniteSet(deals) /\ Cardinality(deals) <= MaxDeals /\ Cardinality(deals) \in Nat
    BY CapsConstants, FS_CardinalityType DEF CapsInv, CapsTyped
  <1>3. \A p, t : TradedBefore(p, t)' = TradedBefore(p, t) /\ VolumeAt(p, t)' = VolumeAt(p, t)
    BY <1>1 DEF TradedBefore, VolumeAt
  <1>4. CapsTyped'
    BY <1>1, <1>2 DEF CapsTyped
  <1>5. ASSUME NEW p \in Traders
        PROVE  /\ VolumeAt(p, capTime) \in Nat /\ VolumeAt(p, capTime) <= MaxDeals
               /\ TradedBefore(p, capTime) \in Nat /\ TradedBefore(p, capTime) <= VolumeAt(p, capTime)
    <2> DEFINE S == {d \in deals : d.who = p /\ capTime - CapWindow <= d.at /\ d.at <= capTime}
               T == {d \in deals : d.who = p /\ capTime - CapWindow <= d.at /\ d.at < capTime}
    <2>1. T \subseteq S /\ S \subseteq deals
      BY <1>2 DEF CapsTyped, DealRecord
    <2>2. VolumeAt(p, capTime) = Cardinality(S) /\ TradedBefore(p, capTime) = Cardinality(T)
      BY DEF VolumeAt, TradedBefore
    <2> HIDE DEF S, T
    <2>3. Cardinality(T) <= Cardinality(S) /\ Cardinality(S) \in Nat /\ Cardinality(T) \in Nat /\ Cardinality(S) <= Cardinality(deals)
      BY <1>2, <2>1, MoreAreCounted, VolumesAreNaturals
    <2> QED  BY <1>2, <2>2, <2>3, CapsConstants
  <1>6. QueryIsRight'
    <2>1. caching'.at = capTime /\ caching'.runs /\ DOMAIN caching'.volumes = active
          /\ \A p \in active : caching'.volumes[p] = VolumeAt(p, capTime)
      BY <1>1
    <2>2. \A p \in active : caching'.volumes[p] \in 1 .. MaxDeals
      BY <1>5, <2>1, CapsConstants
    <2>3. \A p \in Traders \ active : TradedBefore(p, capTime) = 0
      BY <1>5
    <2>4. \A p \in Traders : TradedBefore(p, capTime) <= VolumeAt(p, capTime) /\ VolumeAt(p, capTime) \in Nat
      BY <1>5
    <2>5. capTime \in lastRun.done .. capTime /\ capTime <= capTime + RunTime
      BY <1>2, CapsConstants DEF CapsTyped
    <2> HIDE DEF active
    <2>6. active \subseteq Traders
      BY DEF active
    <2>7. \A p : TradedBefore(p, caching.at)' = TradedBefore(p, capTime) /\ VolumeAt(p, caching.at)' = VolumeAt(p, capTime)
      BY <1>1, <2>1 DEF TradedBefore, VolumeAt
    <2> QED  BY <1>1, <2>1, <2>2, <2>3, <2>4, <2>5, <2>6, <2>7 DEF QueryIsRight
  <1>7. KeysAreVolumes' /\ KeysAreFresh'
    BY <1>1, <1>3 DEF CapsInv, KeysAreVolumes, KeyIsVolume, KeysAreFresh, IsCounted
  <1> QED  BY <1>4, <1>6, <1>7 DEF CapsInv

(* The keys that a run sets have the volumes of its query, and live longer *)
(* than the others.                                                        *)
LEMMA SetKeysKeeps ==
    ASSUME CapsInv, caching.runs, NEW S \in SUBSET DOMAIN caching.volumes, SetKeys(S),
           UNCHANGED <<capTime, deals>>
    PROVE  /\ KeysAreVolumes'
           /\ \A p \in S : p \in DOMAIN volumeKeys' /\ volumeKeys'[p].volume = caching.volumes[p]
                           /\ volumeKeys'[p].until = capTime + VolumeExpiry
           /\ \A p \in DOMAIN volumeKeys \ S : p \in DOMAIN volumeKeys' /\ volumeKeys'[p] = volumeKeys[p]
  <1>1. volumeKeys' = [p \in DOMAIN volumeKeys \cup S |->
            IF p \in S THEN [volume |-> caching.volumes[p], until |-> capTime + VolumeExpiry] ELSE volumeKeys[p]]
    BY DEF SetKeys
  <1>2. capTime \in Nat /\ caching.at \in Nat /\ caching.at <= capTime /\ capTime <= caching.at + RunTime
    BY DEF CapsInv, CapsTyped, QueryIsRight
  <1>3. \A p, t : VolumeAt(p, t)' = VolumeAt(p, t)
    BY DEF VolumeAt
  <1>4. ASSUME NEW p \in S
        PROVE  p \in Traders /\ KeyIsVolume(p, volumeKeys[p])'
    <2>1. volumeKeys'[p] = [volume |-> caching.volumes[p], until |-> capTime + VolumeExpiry]
      BY <1>1
    <2>2. p \in Traders /\ caching.volumes[p] \in 1 .. MaxDeals /\ caching.volumes[p] <= VolumeAt(p, caching.at)
      BY DEF CapsInv, QueryIsRight
    <2>3. caching.at \in (capTime + VolumeExpiry - VolumeExpiry - RunTime) .. capTime
      BY <1>2, CapsConstants
    <2> QED  BY <1>2, <1>3, <2>1, <2>2, <2>3, CapsConstants DEF KeyIsVolume
  <1>5. ASSUME NEW p \in DOMAIN volumeKeys \ S
        PROVE  p \in Traders /\ KeyIsVolume(p, volumeKeys[p])'
    BY <1>1, <1>3 DEF CapsInv, KeysAreVolumes, KeyIsVolume
  <1>6. KeysAreVolumes'
    BY <1>1, <1>4, <1>5 DEF KeysAreVolumes
  <1> QED  BY <1>1, <1>6

(* A run sets the keys from what it has read.                              *)
LEMMA ExecPipelineKeeps == CapsInv /\ ExecPipeline => CapsInv'
  <1> SUFFICES ASSUME CapsInv, ExecPipeline
               PROVE  CapsInv'
    OBVIOUS
  <1>1. /\ caching.runs /\ SetKeys(DOMAIN caching.volumes) /\ caching' = NoRun
        /\ lastRun' = [query |-> caching.at, done |-> capTime, any |-> TRUE] /\ UNCHANGED <<capTime, deals, cacherStops>>
    BY DEF ExecPipeline
  <1>2. capTime \in Nat /\ CapsTyped /\ caching.at \in lastRun.done .. capTime /\ lastRun.done \in Nat
    BY <1>1 DEF CapsInv, CapsTyped, QueryIsRight
  <1>3. CapsTyped'
    BY <1>1, <1>2 DEF CapsTyped
  <1>4. QueryIsRight'
    BY <1>1 DEF QueryIsRight, NoRun
  <1>5. KeysAreVolumes'
    BY <1>1, SetKeysKeeps
  <1>6. KeysAreFresh'
    <2> SUFFICES ASSUME NEW p \in Traders
                 PROVE  \E q \in caching.at .. capTime : IsCounted(p, q)'
      BY <1>1 DEF KeysAreFresh
    <2>1. caching.at \in caching.at .. capTime /\ caching.at \in Int
      BY <1>2 DEF CapsTyped
    <2>2. PICK q \in caching.at .. capTime : q = caching.at
      BY <2>1
    <2>3. TradedBefore(p, q)' = TradedBefore(p, q) /\ lastRun'.done = capTime
      BY <1>1 DEF TradedBefore
    <2>4. CASE p \in DOMAIN caching.volumes
      <3>1. TradedBefore(p, q) <= caching.volumes[p]
        BY <2>2, <2>4 DEF CapsInv, QueryIsRight
      <3>2. /\ p \in DOMAIN volumeKeys' /\ volumeKeys'[p].volume = caching.volumes[p]
            /\ volumeKeys'[p].until = capTime + VolumeExpiry
        BY <1>1, <2>4, SetKeysKeeps
      <3> QED  BY <1>2, <2>3, <3>1, <3>2, CapsConstants DEF IsCounted
    <2>5. CASE p \notin DOMAIN caching.volumes
      <3>1. TradedBefore(p, q) = 0
        BY <1>1, <2>2, <2>5 DEF CapsInv, QueryIsRight
      <3> QED  BY <2>3, <3>1 DEF IsCounted
    <2> QED  BY <2>4, <2>5
  <1> QED  BY <1>3, <1>4, <1>5, <1>6 DEF CapsInv

(* A run that stops has set some of its keys.                              *)
LEMMA CacherStopsKeeps == CapsInv /\ CacherStops => CapsInv'
  <1> SUFFICES ASSUME CapsInv, CacherStops
               PROVE  CapsInv'
    OBVIOUS
  <1>1. /\ caching.runs /\ cacherStops < MaxCacherStops /\ caching' = NoRun
        /\ cacherStops' = cacherStops + 1 /\ UNCHANGED <<capTime, deals, lastRun>>
    BY DEF CacherStops
  <1>2. PICK S \in SUBSET DOMAIN caching.volumes : SetKeys(S)
    BY DEF CacherStops
  <1>3. capTime \in Nat /\ CapsTyped /\ caching.at \in lastRun.done .. capTime /\ lastRun.done \in Nat
        /\ lastRun.query \in Nat /\ lastRun.query <= lastRun.done /\ lastRun.done <= capTime
    BY <1>1 DEF CapsInv, CapsTyped, QueryIsRight
  <1>4. CapsTyped'
    BY <1>1, <1>3, CapsConstants DEF CapsTyped
  <1>5. QueryIsRight'
    BY <1>1 DEF QueryIsRight, NoRun
  <1>6. KeysAreVolumes'
    BY <1>1, <1>2, SetKeysKeeps
  <1>7. KeysAreFresh'
    <2> SUFFICES ASSUME lastRun.any, capTime < lastRun.done + VolumeExpiry, NEW p \in Traders
                 PROVE  \E q \in lastRun.query .. capTime : IsCounted(p, q)'
      BY <1>1 DEF KeysAreFresh
    <2>1. \A q : TradedBefore(p, q)' = TradedBefore(p, q)
      BY <1>1 DEF TradedBefore
    <2>2. CASE p \in S
      <3>1. PICK q \in lastRun.query .. capTime : q = caching.at
        BY <1>3
      <3>2. TradedBefore(p, q) <= caching.volumes[p]
        BY <1>2, <2>2, <3>1 DEF CapsInv, QueryIsRight
      <3>3. /\ p \in DOMAIN volumeKeys' /\ volumeKeys'[p].volume = caching.volumes[p]
            /\ volumeKeys'[p].until = capTime + VolumeExpiry
        BY <1>1, <1>2, <2>2, SetKeysKeeps
      <3> QED  BY <1>1, <1>3, <2>1, <3>2, <3>3, CapsConstants DEF IsCounted
    <2>3. CASE p \notin S
      <3>1. PICK q \in lastRun.query .. capTime : IsCounted(p, q)
        BY DEF CapsInv, KeysAreFresh
      <3>2. p \in DOMAIN volumeKeys => p \in DOMAIN volumeKeys' /\ volumeKeys'[p] = volumeKeys[p]
        BY <1>1, <1>2, <2>3, SetKeysKeeps
      <3> QED  BY <1>1, <2>1, <3>1, <3>2 DEF IsCounted
    <2> QED  BY <2>2, <2>3
  <1> QED  BY <1>4, <1>5, <1>6, <1>7 DEF CapsInv

(* Every step keeps the volumes of the keys.                               *)
LEMMA CapsSteps == CapsInv /\ [CapsNext]_capVars => CapsInv'
  <1>1. ASSUME CapsInv, UNCHANGED capVars
        PROVE  CapsInv'
    BY <1>1, Zenon DEF capVars, CapsInv, CapsTyped, QueryIsRight, KeysAreVolumes, KeyIsVolume, KeysAreFresh, IsCounted,
                TradedBefore, VolumeAt
  <1> QED  BY <1>1, PassTimeKeeps, DealKeeps, QueryVolumesKeeps, ExecPipelineKeeps, CacherStopsKeeps DEF CapsNext

(* The minimum of two integers.                                            *)
LEMMA MinOfTwo ==
    ASSUME NEW a \in Int, NEW b \in Int
    PROVE  Min({a, b}) = IF a <= b THEN a ELSE b
  <1> DEFINE m == IF a <= b THEN a ELSE b
  <1>1. m \in {a, b} /\ \A y \in {a, b} : m <= y
    OBVIOUS
  <1>2. \A x \in {a, b} : (\A y \in {a, b} : x <= y) => x = m
    OBVIOUS
  <1> HIDE DEF m
  <1>3. Min({a, b}) = m
    BY <1>1, <1>2 DEF Min
  <1> QED  BY <1>3 DEF m

(* A user that is rich has traded, and no cap is passed by more than what  *)
(* the age of the keys allows.                                             *)
LEMMA CapsInvImplies == CapsInv => CapsTypeOK /\ RichHaveTraded /\ CapsAreWithinLimit
  <1> SUFFICES ASSUME CapsInv
               PROVE  CapsTypeOK /\ RichHaveTraded /\ CapsAreWithinLimit
    OBVIOUS
  <1>1. capTime \in Nat /\ CapsTyped /\ IsFiniteSet(deals)
    BY DEF CapsInv, CapsTyped
  <1>2. CapsTypeOK
    BY DEF CapsInv, CapsTyped, QueryIsRight, KeysAreVolumes, KeyIsVolume, CapsTypeOK
  <1>3. RichHaveTraded
    <2> SUFFICES ASSUME NEW p \in Traders, UserStats(p, FALSE).rich
                 PROVE  \E t \in (capTime - VolumeExpiry - RunTime) .. capTime : VolumeAt(p, t) >= DailyLimit[FALSE]
      BY DEF RichHaveTraded
    <2> DEFINE limit == DailyLimit[FALSE]
    <2>1. CachedVolume(p) >= limit
      BY DEF UserStats, IsRich
    <2>0. limit \in Nat /\ limit > 0
      <3>1. \A k \in BOOLEAN : DailyLimit[k] \in Nat /\ DailyLimit[k] > 0
        BY CapsConstants
      <3> QED  BY <3>1, Zenon
    <2> HIDE DEF limit
    <2>2. p \in DOMAIN volumeKeys /\ volumeKeys[p].volume >= limit
      BY <2>0, <2>1 DEF CachedVolume
    <2>3. KeyIsVolume(p, volumeKeys[p])
      BY <2>2 DEF CapsInv, KeysAreVolumes
    <2>4. PICK t \in (volumeKeys[p].until - VolumeExpiry - RunTime) .. capTime : volumeKeys[p].volume <= VolumeAt(p, t)
      BY <2>3 DEF KeyIsVolume
    <2>5. volumeKeys[p].until \in Nat /\ volumeKeys[p].until > capTime /\ volumeKeys[p].volume \in Nat
      BY <2>3, CapsConstants DEF KeyIsVolume
    <2>6. t \in (capTime - VolumeExpiry - RunTime) .. capTime
      BY <1>1, <2>4, <2>5, CapsConstants
    <2>7. VolumeAt(p, t) \in Nat
      BY <1>1, VolumesAreNaturals DEF VolumeAt
    <2>8. VolumeAt(p, t) >= limit
      BY <2>0, <2>2, <2>4, <2>5, <2>7
    <2> QED  BY <2>6, <2>8 DEF limit
  <1>4. CapsAreWithinLimit
    <2> SUFFICES ASSUME lastRun.any, capTime < lastRun.done + VolumeExpiry, NEW p \in Traders \ Banned, NEW kyced \in BOOLEAN
                 PROVE  UserStats(p, kyced).cap + VolumeAt(p, capTime)
                            <= DailyLimit[kyced] + Cardinality({d \in deals : d.who = p /\ d.at >= lastRun.query})
      BY DEF CapsAreWithinLimit
    <2>1. PICK q \in lastRun.query .. capTime : IsCounted(p, q)
      BY DEF CapsInv, KeysAreFresh
    <2>2. q \in Nat /\ q <= capTime /\ lastRun.query \in Nat /\ lastRun.query <= q
      BY <1>1, <2>1 DEF CapsTyped
    <2> DEFINE all == {d \in deals : d.who = p /\ capTime - CapWindow <= d.at /\ d.at <= capTime}
               old == {d \in deals : d.who = p /\ q - CapWindow <= d.at /\ d.at < q}
               new == {d \in deals : d.who = p /\ d.at >= lastRun.query}
    <2>3. all \subseteq old \cup new
      BY <1>1, <2>2, CapsConstants DEF CapsTyped, DealRecord
    <2>4. VolumeAt(p, capTime) = Cardinality(all) /\ TradedBefore(p, q) = Cardinality(old)
      BY DEF VolumeAt, TradedBefore
    <2>5. all \subseteq deals /\ old \subseteq deals /\ new \subseteq deals
      OBVIOUS
    <2> HIDE DEF all, old, new
    <2>6. /\ Cardinality(all) \in Nat /\ Cardinality(old) \in Nat /\ Cardinality(new) \in Nat
          /\ IsFiniteSet(old) /\ IsFiniteSet(new)
      BY <1>1, <2>5, VolumesAreNaturals
    <2>7. Cardinality(all) <= Cardinality(old) + Cardinality(new)
      <3>1. IsFiniteSet(old \cup new) /\ Cardinality(old \cup new) = Cardinality(old) + Cardinality(new) - Cardinality(old \cap new)
        BY <2>6, FS_Union
      <3>2. Cardinality(old \cap new) \in Nat
        <4>1. old \cap new \subseteq deals
          BY <2>5
        <4> QED  BY <1>1, <4>1, VolumesAreNaturals
      <3>3. Cardinality(all) <= Cardinality(old \cup new)
        BY <2>3, <3>1, FS_Subset
      <3> QED  BY <2>6, <3>1, <3>2, <3>3
    <2>8. CachedVolume(p) \in Nat /\ Cardinality(old) <= CachedVolume(p)
      <3>1. p \in DOMAIN volumeKeys => volumeKeys[p].volume \in Nat
        BY CapsConstants DEF CapsInv, KeysAreVolumes, KeyIsVolume
      <3> QED  BY <2>1, <2>4, <3>1 DEF IsCounted, CachedVolume
    <2>9. UserStats(p, kyced).cap <= DailyLimit[kyced] - CachedVolume(p) /\ UserStats(p, kyced).cap \in Int
      <3>1. UserStats(p, kyced).cap = Min({TxLimit[kyced], DailyLimit[kyced] - CachedVolume(p)})
        BY DEF UserStats
      <3>2. TxLimit[kyced] \in Int /\ DailyLimit[kyced] - CachedVolume(p) \in Int
        BY <2>8, CapsConstants
      <3> QED  BY <3>1, <3>2, MinOfTwo
    <2>10. DailyLimit[kyced] \in Nat
      BY CapsConstants
    <2>11. UserStats(p, kyced).cap + Cardinality(all) <= DailyLimit[kyced] + Cardinality(new)
      BY <2>6, <2>7, <2>8, <2>9, <2>10
    <2> QED  BY <2>4, <2>11 DEF new
  <1> QED  BY <1>2, <1>3, <1>4

-----------------------------------------------------------------------------
(* The assembly of trade logs.                                            *)

-----------------------------------------------------------------------------
(* Trade logs are put together of their own parts.                         *)

Kinds == ToSet(EventKinds)

(* The events that trade k emits, of some kinds.                           *)
EventsFrom(k, kinds) ==
    {e \in [kind : kinds \cap Kinds, owner : {k}, leg : Nat] : e.leg \in 1 .. Emits(chain[k], e.kind)}

(* The kinds of events, of which a trade emits few.                        *)
LEMMA KindsAre ==
    /\ Len(EventKinds) = 6 /\ Kinds = {EventKinds[i] : i \in 1 .. 6}
    /\ Kinds = {"execute", "etherReceival", "feeDistributed", "burnFee", "feeToWallet", "trade"}
    /\ EventKinds[1] = "execute" /\ EventKinds[6] = "trade"
    /\ \A i \in 1 .. 6 : (EventKinds[i] = "trade" <=> i = 6) /\ (EventKinds[i] = "execute" <=> i = 1)
  <1>1. /\ DOMAIN EventKinds = 1 .. 6 /\ Len(EventKinds) = 6
        /\ EventKinds[1] = "execute" /\ EventKinds[2] = "etherReceival" /\ EventKinds[3] = "feeDistributed"
        /\ EventKinds[4] = "burnFee" /\ EventKinds[5] = "feeToWallet" /\ EventKinds[6] = "trade"
    BY DEF EventKinds
  <1>2. Kinds = {EventKinds[i] : i \in 1 .. 6}
    BY <1>1 DEF Kinds, ToSet
  <1>3. \A i \in 1 .. 6 : i = 1 \/ i = 2 \/ i = 3 \/ i = 4 \/ i = 5 \/ i = 6
    OBVIOUS
  <1>4. Kinds = {"execute", "etherReceival", "feeDistributed", "burnFee", "feeToWallet", "trade"}
    <2>1. \A x : x \in Kinds <=> \E i \in 1 .. 6 : x = EventKinds[i]
      BY <1>2
    <2>2. 1 \in 1 .. 6 /\ 2 \in 1 .. 6 /\ 3 \in 1 .. 6 /\ 4 \in 1 .. 6 /\ 5 \in 1 .. 6 /\ 6 \in 1 .. 6
      OBVIOUS
    <2> QED  BY <1>1, <1>3, <2>1, <2>2
  <1>5. \A i \in 1 .. 6 : (EventKinds[i] = "trade" <=> i = 6) /\ (EventKinds[i] = "execute" <=> i = 1)
    BY <1>1, <1>3
  <1> QED  BY <1>1, <1>2, <1>4, <1>5

(* A trade that can be executed emits few events, and one of each leg.     *)
LEMMA EmitsFew ==
    ASSUME NEW s \in Shapes
    PROVE  /\ \A kind \in Kinds : Emits(s, kind) \in Nat
           /\ Emits(s, "trade") = 1 /\ Emits(s, "execute") >= 1
  <1>1. s.burns \in Nat /\ s.gen \in 1 .. 4 /\ Legs(s) \in {1, 2}
    BY AssemblyAssumption DEF Legs
  <1>2. /\ Emits(s, "execute") = Legs(s) /\ Emits(s, "trade") = 1
        /\ Emits(s, "etherReceival") \in {0, 1} /\ Emits(s, "feeDistributed") \in {0, 1}
        /\ Emits(s, "burnFee") \in {0, s.burns} /\ Emits(s, "feeToWallet") \in {0, 1}
    BY DEF Emits
  <1> QED  BY <1>1, <1>2, KindsAre

(* EventsOf(k, kinds) has the events of the kinds: that of the trade is the *)
(* last one, and that of a leg the first one.                              *)
LEMMA EventsAre ==
    ASSUME NEW k, chain[k] \in Shapes, NEW kinds
    PROVE  LET s == EventsOf(k, kinds) IN
           /\ s \in Seq(EventsFrom(k, kinds))
           /\ \A e \in EventsFrom(k, kinds) : \E i \in 1 .. Len(s) : s[i] = e
           /\ \A i, j \in 1 .. Len(s) : i < j => s[i].kind # "trade"
           /\ "execute" \in kinds => 1 \in 1 .. Len(s) /\ s[1].kind = "execute"
  <1>0. PICK E, s : E = EventsFrom(k, kinds) /\ s = EventsOf(k, kinds)
    OBVIOUS
  <1> DEFINE count(kind) == Emits(chain[k], kind)
             seqs == [i \in 1 .. 6 |-> IF EventKinds[i] \in kinds THEN EventsOfKind(k, EventKinds[i]) ELSE <<>>]
  <1>1. s = FlattenSeq(seqs) /\ Len(seqs) = 6
    BY <1>0 DEF EventsOf
  <1>2. /\ \A kind \in Kinds : count(kind) \in Nat
        /\ count("trade") = 1 /\ count("execute") >= 1
    BY EmitsFew
  <1> HIDE DEF count
  <1>3. \A kind \in Kinds : LET q == EventsOfKind(k, kind) IN
           /\ Len(q) = count(kind) /\ DOMAIN q = 1 .. Len(q)
           /\ \A l \in 1 .. Len(q) : q[l] = Event(kind, k, l)
    BY <1>2 DEF EventsOfKind, count
  <1>4. \A kind \in Kinds \cap kinds : \A l \in 1 .. count(kind) :
           /\ Event(kind, k, l) \in E
           /\ Event(kind, k, l).kind = kind /\ Event(kind, k, l).leg = l
    BY <1>0, <1>2 DEF EventsFrom, Event, count
  <1>5. \A i \in 1 .. 6 : EventKinds[i] \in Kinds
    BY KindsAre
  <1>6. ASSUME NEW i \in 1 .. 6
        PROVE  /\ seqs[i] \in Seq(E)
               /\ \A l \in 1 .. Len(seqs[i]) : seqs[i][l] = Event(EventKinds[i], k, l) /\ EventKinds[i] \in kinds
               /\ EventKinds[i] \in kinds => Len(seqs[i]) = count(EventKinds[i])
    <2>1. CASE EventKinds[i] \in kinds
      <3>1. seqs[i] = EventsOfKind(k, EventKinds[i]) /\ EventKinds[i] \in Kinds \cap kinds
        BY <1>5, <2>1
      <3> DEFINE q == seqs[i]
      <3>2. /\ Len(q) = count(EventKinds[i]) /\ Len(q) \in Nat /\ DOMAIN q = 1 .. Len(q)
            /\ \A l \in 1 .. Len(q) : q[l] = Event(EventKinds[i], k, l) /\ q[l] \in E
        BY <1>2, <1>3, <1>4, <3>1
      <3>3. q \in Seq(E)
        <4>1. q = [l \in 1 .. Len(q) |-> q[l]]
          BY <3>1, <3>2 DEF EventsOfKind
        <4> HIDE DEF q
        <4> QED  BY <3>2, <4>1, SeqDef
      <3> QED  BY <2>1, <3>2, <3>3
    <2>2. CASE EventKinds[i] \notin kinds
      <3>1. seqs[i] = <<>>
        BY <2>2
      <3> QED  BY <2>2, <3>1, EmptySeq
    <2> QED  BY <2>1, <2>2
  <1> HIDE DEF seqs
  <1>7. /\ s \in Seq(E)
        /\ \E at, in : Places(s, seqs, 6, at, in)
    <2>1. Len(seqs) \in Nat \ {0} /\ \A i \in 1 .. Len(seqs) : seqs[i] \in Seq(E)
      BY <1>1, <1>6
    <2>2. FlattenSeq(seqs) \in Seq(E) /\ \E at, in : Places(FlattenSeq(seqs), seqs, Len(seqs), at, in)
      BY <2>1, FlattenSeqPlaces
    <2> QED  BY <1>1, <2>2
  <1>8. PICK at, in : Places(s, seqs, 6, at, in)
    BY <1>7
  <1>9. \A i \in 1 .. Len(s) : /\ at[i] \in 1 .. 6 /\ in[i] \in 1 .. count(EventKinds[at[i]])
                               /\ s[i] = Event(EventKinds[at[i]], k, in[i]) /\ s[i].kind = EventKinds[at[i]]
    <2> SUFFICES ASSUME NEW i \in 1 .. Len(s)
                 PROVE  /\ at[i] \in 1 .. 6 /\ in[i] \in 1 .. count(EventKinds[at[i]])
                        /\ s[i] = Event(EventKinds[at[i]], k, in[i]) /\ s[i].kind = EventKinds[at[i]]
      OBVIOUS
    <2>1. at[i] \in 1 .. 6 /\ in[i] \in 1 .. Len(seqs[at[i]]) /\ s[i] = seqs[at[i]][in[i]]
      BY <1>8 DEF Places
    <2>2. PICK kind : kind = EventKinds[at[i]]
      OBVIOUS
    <2>3. kind \in Kinds /\ in[i] \in 1 .. Len(seqs[at[i]])
      BY <1>5, <2>1, <2>2
    <2>4. s[i] = Event(kind, k, in[i]) /\ kind \in kinds /\ Len(seqs[at[i]]) = count(kind)
      BY <1>6, <2>1, <2>2
    <2>5. s[i].kind = kind
      BY <2>4 DEF Event
    <2> QED  BY <2>1, <2>2, <2>3, <2>4, <2>5
  <1>10. Len(s) \in Nat
    BY <1>7, LenProperties
  <1>11. ASSUME NEW e \in E
         PROVE  \E i \in 1 .. Len(s) : s[i] = e
    <2>1. /\ e = Event(e.kind, k, e.leg) /\ e.kind \in kinds \cap Kinds /\ e.leg \in 1 .. count(e.kind)
      BY <1>0 DEF EventsFrom, Event, count
    <2>2. PICK n \in 1 .. 6 : e.kind = EventKinds[n]
      BY <2>1, KindsAre
    <2>3. PICK i \in 1 .. Len(s) : at[i] = n /\ in[i] = e.leg
      <3>1. e.leg \in 1 .. Len(seqs[n])
        BY <1>6, <2>1, <2>2
      <3> QED  BY <1>8, <3>1 DEF Places
    <2> QED  BY <1>9, <2>1, <2>2, <2>3
  <1>12. ASSUME NEW i \in 1 .. Len(s), NEW j \in 1 .. Len(s), i < j
         PROVE  s[i].kind # "trade"
    <2> SUFFICES ASSUME s[i].kind = "trade"
                 PROVE  FALSE
      OBVIOUS
    <2>1. at[i] = 6 /\ in[i] \in 1 .. 1
      <3>1. at[i] \in 1 .. 6 /\ EventKinds[at[i]] = "trade" /\ in[i] \in 1 .. count(EventKinds[at[i]])
        BY <1>9
      <3>2. at[i] = 6
        BY <3>1, KindsAre
      <3> QED  BY <1>2, <3>1, <3>2
    <2>2. at[j] \in 1 .. 6 /\ (at[i] < at[j] \/ (at[i] = at[j] /\ in[i] < in[j]))
      BY <1>8, <1>9, <1>12 DEF Places
    <2>3. at[j] = 6 /\ in[i] < in[j]
      BY <2>1, <2>2
    <2>4. in[j] \in 1 .. 1
      <3>1. EventKinds[at[j]] = "trade" /\ in[j] \in 1 .. count(EventKinds[at[j]])
        BY <1>9, <2>3, KindsAre
      <3> QED  BY <1>2, <3>1
    <2> QED  BY <2>1, <2>3, <2>4
  <1>13. ASSUME "execute" \in kinds
         PROVE  1 \in 1 .. Len(s) /\ s[1].kind = "execute"
    <2>1. 1 \in 1 .. Len(seqs[1]) /\ 1 \in 1 .. 6
      <3>1. 1 \in 1 .. 6 /\ EventKinds[1] = "execute" /\ "execute" \in Kinds
        BY KindsAre
      <3>2. Len(seqs[1]) = count("execute")
        BY <1>6, <1>13, <3>1
      <3> QED  BY <1>2, <3>1, <3>2
    <2>2. PICK i \in 1 .. Len(s) : at[i] = 1 /\ in[i] = 1
      BY <1>8, <2>1 DEF Places
    <2>3. 1 \in 1 .. Len(s)
      BY <1>10, <2>2
    <2>4. i = 1
      <3> SUFFICES ASSUME i # 1
                   PROVE  FALSE
        OBVIOUS
      <3>1. 1 < i
        BY <1>10, <2>2
      <3>2. at[1] \in 1 .. 6 /\ in[1] \in Nat /\ in[1] >= 1
        BY <1>2, <1>5, <1>9, <2>3
      <3>3. at[1] < at[i] \/ (at[1] = at[i] /\ in[1] < in[i])
        BY <1>8, <2>3, <3>1 DEF Places
      <3> QED  BY <2>2, <3>2, <3>3
    <2> QED  BY <1>9, <2>2, <2>3, <2>4, KindsAre
  <1> QED  BY <1>7, <1>11, <1>12, <1>13, <1>0

(* The events of trades, of the kinds that are asked for: in the order of  *)
(* the trades, that of the trade itself after the others.                  *)
LEMMA EventsOfAllAre ==
    ASSUME chain \in Seq(Shapes), chain # <<>>, NEW kinds, DOMAIN kinds = DOMAIN chain
    PROVE  LET s == EventsOfAll(kinds) IN
           /\ s \in Seq([kind : Kinds, owner : DOMAIN chain, leg : Nat])
           /\ \A i \in 1 .. Len(s) : s[i].owner \in DOMAIN chain /\ s[i] \in EventsFrom(s[i].owner, kinds[s[i].owner])
           /\ \A k \in DOMAIN chain : \A e \in EventsFrom(k, kinds[k]) : \E i \in 1 .. Len(s) : s[i] = e
           /\ \A i, j \in 1 .. Len(s) : i < j =>
                 s[i].owner <= s[j].owner /\ (s[i].kind = "trade" => s[i].owner < s[j].owner)
           /\ (\A k \in DOMAIN chain : kinds[k] \in {Kinds, {}}) /\ 1 \in 1 .. Len(s) => s[1].kind = "execute"
  <1>1. Len(chain) \in Nat \ {0} /\ DOMAIN chain = 1 .. Len(chain) /\ \A k \in DOMAIN chain : chain[k] \in Shapes
    BY EmptySeq, LenProperties, ElementOfSeq
  <1>2. PICK n, seqs, s : /\ n = Len(chain) /\ s = EventsOfAll(kinds)
                          /\ seqs = [k \in 1 .. n |-> EventsOf(k, kinds[k])]
    OBVIOUS
  <1>3. n \in Nat \ {0} /\ DOMAIN chain = 1 .. n /\ s = FlattenSeq(seqs) /\ Len(seqs) = n
    BY <1>1, <1>2 DEF EventsOfAll
  <1>4. PICK E : E = [kind : Kinds, owner : DOMAIN chain, leg : Nat]
    OBVIOUS
  <1>5. ASSUME NEW k \in 1 .. n
        PROVE  /\ EventsFrom(k, kinds[k]) \subseteq E
               /\ \A e \in EventsFrom(k, kinds[k]) : e.owner = k
               /\ seqs[k] \in Seq(E) /\ Len(seqs[k]) \in Nat
               /\ \A l \in 1 .. Len(seqs[k]) : seqs[k][l] \in EventsFrom(k, kinds[k])
               /\ \A e \in EventsFrom(k, kinds[k]) : \E l \in 1 .. Len(seqs[k]) : seqs[k][l] = e
               /\ \A i, j \in 1 .. Len(seqs[k]) : i < j => seqs[k][i].kind # "trade"
               /\ "execute" \in kinds[k] => 1 \in 1 .. Len(seqs[k]) /\ seqs[k][1].kind = "execute"
    <2>1. chain[k] \in Shapes /\ seqs[k] = EventsOf(k, kinds[k]) /\ k \in DOMAIN chain
      BY <1>1, <1>2, <1>3
    <2>2. EventsFrom(k, kinds[k]) \subseteq E /\ \A e \in EventsFrom(k, kinds[k]) : e.owner = k
      BY <1>4, <2>1 DEF EventsFrom
    <2>3. seqs[k] \in Seq(EventsFrom(k, kinds[k]))
      BY <2>1, EventsAre
    <2>4. seqs[k] \in Seq(E)
      BY <2>2, <2>3, SeqMonotonic
    <2>5. Len(seqs[k]) \in Nat /\ \A l \in 1 .. Len(seqs[k]) : seqs[k][l] \in EventsFrom(k, kinds[k])
      BY <2>3, LenProperties, ElementOfSeq
    <2> QED  BY <2>1, <2>2, <2>4, <2>5, EventsAre
  <1>6. s \in Seq(E) /\ \E at, in : Places(s, seqs, n, at, in)
    <2>1. \A k \in 1 .. Len(seqs) : seqs[k] \in Seq(E)
      BY <1>3, <1>5
    <2>2. FlattenSeq(seqs) \in Seq(E) /\ \E at, in : Places(FlattenSeq(seqs), seqs, Len(seqs), at, in)
      BY <1>3, <2>1, FlattenSeqPlaces
    <2> QED  BY <1>3, <2>2
  <1>7. PICK at, in : Places(s, seqs, n, at, in)
    BY <1>6
  <1>8. Len(s) \in Nat
    BY <1>6, LenProperties
  <1>9. ASSUME NEW i \in 1 .. Len(s)
        PROVE  /\ at[i] \in 1 .. n /\ in[i] \in 1 .. Len(seqs[at[i]]) /\ s[i] = seqs[at[i]][in[i]]
               /\ s[i].owner = at[i] /\ s[i] \in EventsFrom(at[i], kinds[at[i]])
               /\ at[i] \in Nat /\ in[i] \in Nat
    <2>1. at[i] \in 1 .. n /\ in[i] \in 1 .. Len(seqs[at[i]]) /\ s[i] = seqs[at[i]][in[i]]
      BY <1>7 DEF Places
    <2>2. s[i] \in EventsFrom(at[i], kinds[at[i]]) /\ s[i].owner = at[i]
      BY <1>5, <2>1
    <2>3. Len(seqs[at[i]]) \in Nat
      BY <1>5, <2>1
    <2> QED  BY <1>3, <2>1, <2>2, <2>3
  <1>10. ASSUME NEW k \in DOMAIN chain, NEW e \in EventsFrom(k, kinds[k])
         PROVE  \E i \in 1 .. Len(s) : s[i] = e
    <2>1. k \in 1 .. n
      BY <1>3
    <2>2. PICK l \in 1 .. Len(seqs[k]) : seqs[k][l] = e
      BY <1>5, <2>1
    <2>3. PICK i \in 1 .. Len(s) : at[i] = k /\ in[i] = l
      BY <1>7, <2>1, <2>2 DEF Places
    <2> QED  BY <1>9, <2>2, <2>3
  <1>11. ASSUME NEW i \in 1 .. Len(s), NEW j \in 1 .. Len(s), i < j
         PROVE  s[i].owner <= s[j].owner /\ (s[i].kind = "trade" => s[i].owner < s[j].owner)
    <2>1. at[i] < at[j] \/ (at[i] = at[j] /\ in[i] < in[j])
      BY <1>7, <1>11 DEF Places
    <2>2. CASE at[i] < at[j]
      BY <1>9, <2>2
    <2>3. CASE at[i] = at[j] /\ in[i] < in[j]
      <3>1. PICK k \in 1 .. n : at[i] = k /\ at[j] = k
        BY <1>9, <2>3
      <3>2. in[i] \in 1 .. Len(seqs[k]) /\ in[j] \in 1 .. Len(seqs[k]) /\ s[i] = seqs[k][in[i]]
        BY <1>9, <3>1
      <3>3. s[i].kind # "trade"
        BY <1>5, <2>3, <3>2
      <3> QED  BY <1>9, <2>3, <3>3
    <2> QED  BY <2>1, <2>2, <2>3
  <1>12. ASSUME \A k \in DOMAIN chain : kinds[k] \in {Kinds, {}}, 1 \in 1 .. Len(s)
         PROVE  s[1].kind = "execute"
    <2>1. PICK k \in 1 .. n : at[1] = k
      BY <1>9, <1>12
    <2>2. in[1] \in 1 .. Len(seqs[k]) /\ s[1] = seqs[k][in[1]] /\ s[1] \in EventsFrom(k, kinds[k])
      BY <1>9, <1>12, <2>1
    <2>3. kinds[k] # {}
      BY <2>2 DEF EventsFrom
    <2>4. "execute" \in kinds[k]
      BY <1>3, <1>12, <2>3, KindsAre
    <2>5. 1 \in 1 .. Len(seqs[k]) /\ seqs[k][1].kind = "execute"
      BY <1>5, <2>4
    <2>6. PICK i \in 1 .. Len(s) : at[i] = k /\ in[i] = 1
      BY <1>7, <2>5 DEF Places
    <2>7. i = 1
      <3> SUFFICES ASSUME 1 < i
                   PROVE  FALSE
        BY <1>8
      <3>1. at[1] < at[i] \/ (at[1] = at[i] /\ in[1] < in[i])
        BY <1>7, <1>12 DEF Places
      <3>2. in[1] < 1 \/ k < k
        BY <2>1, <2>6, <3>1
      <3>3. in[1] \in Nat /\ in[1] >= 1
        <4>1. Len(seqs[k]) \in Nat
          BY <1>5
        <4> QED  BY <2>2, <4>1
      <3> QED  BY <3>2, <3>3
    <2> QED  BY <2>2, <2>5, <2>6, <2>7
  <1>13. \A i \in 1 .. Len(s) : s[i].owner \in DOMAIN chain /\ s[i] \in EventsFrom(s[i].owner, kinds[s[i].owner])
    BY <1>3, <1>9
  <1> QED  BY <1>2, <1>4, <1>6, <1>10, <1>11, <1>12, <1>13

(* The first trade of a transaction is the first one of its own.           *)
LEMMA FirstOfTxIs ==
    ASSUME NEW k \in Nat \ {0}
    PROVE  FirstOfTx(k) \in 1 .. k /\ FirstOfTx(FirstOfTx(k)) = FirstOfTx(k)
  <1> DEFINE Starts(i) == i = 1 \/ ~chain[i].joins
             First(i, l) == i \in 1 .. l /\ Starts(i) /\ \A j \in (i + 1) .. l : chain[j].joins
  <1>1. \A l \in Nat \ {0} : \E i : First(i, l)
    <2> SUFFICES ASSUME NEW l \in Nat \ {0}
                 PROVE  \E i : First(i, l)
      OBVIOUS
    <2> DEFINE T == {i \in 1 .. l : Starts(i)}
    <2>1. T \in SUBSET Nat /\ T # {} /\ \A i \in T : i <= l
      <3>1. 1 \in T
        OBVIOUS
      <3>2. T \in SUBSET Nat /\ \A i \in T : i <= l
        <4> HIDE DEF Starts
        <4> QED  OBVIOUS
      <3> QED  BY <3>1, <3>2
    <2>2. PICK i \in T : \A j \in T : i >= j
      <3> HIDE DEF T
      <3> QED  BY <2>1, MaxOfNaturals
    <2>3. ASSUME NEW j \in (i + 1) .. l
          PROVE  chain[j].joins
      <3>1. i \in 1 .. l /\ j \in 1 .. l /\ ~(i >= j)
        BY <2>2
      <3>2. j \notin T
        BY <2>2, <3>1
      <3> QED  BY <3>1, <3>2
    <2>4. First(i, l)
      BY <2>2, <2>3
    <2> HIDE DEF First
    <2> QED  BY <2>4
  <1>2. \A l \in Nat \ {0} : First(FirstOfTx(l), l)
    <2> SUFFICES ASSUME NEW l \in Nat \ {0}
                 PROVE  First(FirstOfTx(l), l)
      OBVIOUS
    <2>1. FirstOfTx(l) = CHOOSE i \in 1 .. l : Starts(i) /\ \A j \in (i + 1) .. l : chain[j].joins
      BY DEF FirstOfTx
    <2>2. \E i \in 1 .. l : Starts(i) /\ \A j \in (i + 1) .. l : chain[j].joins
      BY <1>1
    <2> HIDE DEF Starts
    <2> QED  BY <2>1, <2>2
  <1> DEFINE f == FirstOfTx(k)
  <1>3. First(f, k) /\ f \in 1 .. k /\ f \in Nat \ {0}
    <2>1. First(f, k)
      BY <1>2
    <2>2. f \in 1 .. k
      BY <2>1
    <2> HIDE DEF First, f
    <2> QED  BY <2>1, <2>2
  <1> HIDE DEF f
  <1>4. First(FirstOfTx(f), f)
    <2> HIDE DEF First
    <2> QED  BY <1>2, <1>3
  <1> DEFINE g == FirstOfTx(f)
  <1>5. g = f
    <2> HIDE DEF g
    <2> SUFFICES ASSUME g # f
                 PROVE  FALSE
      OBVIOUS
    <2>1. g \in 1 .. f /\ \A j \in (g + 1) .. f : chain[j].joins
      BY <1>4 DEF g
    <2>2. f \in (g + 1) .. f /\ f # 1
      BY <1>3, <2>1
    <2>3. chain[f].joins
      BY <2>1, <2>2
    <2>4. ~chain[f].joins
      BY <1>3, <2>2
    <2> QED  BY <2>3, <2>4
  <1> QED  BY <1>3, <1>5 DEF f, g

(* A trade that is alone in its transaction finds its own reserve and its  *)
(* own wallet in the receipt and the input.                                *)
LEMMA OwnReceipt ==
    ASSUME chain \in Seq(Shapes), chain # <<>>, NEW k \in DOMAIN chain, \A i \in DOMAIN chain : SameTx(i, k) => i = k
    PROVE  FirstOfTx(k) = k /\ ReserveFromReceipt(k)[1] = k /\ ReserveFromReceiptV1(k)[1] = k
  <1>1. DOMAIN chain = 1 .. Len(chain) /\ Len(chain) \in Nat /\ k \in Nat \ {0} /\ chain[k] \in Shapes
    BY LenProperties, ElementOfSeq
  <1>2. FirstOfTx(k) = k
    <2>1. FirstOfTx(k) \in 1 .. k /\ FirstOfTx(FirstOfTx(k)) = FirstOfTx(k)
      BY <1>1, FirstOfTxIs
    <2>2. FirstOfTx(k) \in DOMAIN chain
      BY <1>1, <2>1
    <2> QED  BY <2>1, <2>2 DEF SameTx
  <1>3. PICK r, kinds : r = Receipt(k) /\ kinds = [i \in DOMAIN chain |-> IF SameTx(i, k) THEN ToSet(EventKinds) ELSE {}]
    OBVIOUS
  <1>4. /\ DOMAIN kinds = DOMAIN chain /\ r = EventsOfAll(kinds)
        /\ \A i \in DOMAIN chain : kinds[i] \in {Kinds, {}}
        /\ kinds[k] = Kinds
        /\ \A i \in DOMAIN chain : kinds[i] # {} => i = k
    BY <1>3 DEF Receipt, Kinds, SameTx
  <1>5. /\ r \in Seq([kind : Kinds, owner : DOMAIN chain, leg : Nat])
        /\ \A i \in 1 .. Len(r) : r[i].owner \in DOMAIN chain /\ r[i] \in EventsFrom(r[i].owner, kinds[r[i].owner])
        /\ \A e \in EventsFrom(k, Kinds) : \E i \in 1 .. Len(r) : r[i] = e
        /\ 1 \in 1 .. Len(r) => r[1].kind = "execute"
    <2>1. /\ r \in Seq([kind : Kinds, owner : DOMAIN chain, leg : Nat])
          /\ \A i \in 1 .. Len(r) : r[i].owner \in DOMAIN chain /\ r[i] \in EventsFrom(r[i].owner, kinds[r[i].owner])
          /\ \A n \in DOMAIN chain : \A e \in EventsFrom(n, kinds[n]) : \E i \in 1 .. Len(r) : r[i] = e
      BY <1>4, EventsOfAllAre
    <2>2. 1 \in 1 .. Len(r) => r[1].kind = "execute"
      BY <1>4, EventsOfAllAre
    <2> QED  BY <1>4, <2>1, <2>2
  <1>6. \A i \in 1 .. Len(r) : r[i].owner = k
    <2>1. \A i \in 1 .. Len(r) : kinds[r[i].owner] # {}
      BY <1>5 DEF EventsFrom
    <2> QED  BY <1>4, <1>5, <2>1
  <1>7. Event("trade", k, 1) \in EventsFrom(k, Kinds)
    BY <1>1, EmitsFew, KindsAre DEF EventsFrom, Event
  <1>8. Len(r) \in Nat /\ 1 \in 1 .. Len(r) /\ r[1].kind = "execute"
    <2>1. \E i \in 1 .. Len(r) : TRUE
      BY <1>5, <1>7
    <2>2. Len(r) \in Nat
      BY <1>5, LenProperties
    <2> QED  BY <1>5, <2>1, <2>2
  <1>9. LogIndex(k) \in Nat
    <2> DEFINE all == [i \in DOMAIN chain |-> ToSet(EventKinds)]
               P(i) == AllEvents[i] = Event("trade", k, 1)
    <2>1. AllEvents = EventsOfAll(all) /\ DOMAIN all = DOMAIN chain /\ all[k] = Kinds
      BY DEF AllEvents, Kinds
    <2> HIDE DEF all
    <2>2. AllEvents \in Seq([kind : Kinds, owner : DOMAIN chain, leg : Nat])
      BY <2>1, EventsOfAllAre
    <2>3. \E i \in 1 .. Len(AllEvents) : P(i)
      BY <1>7, <2>1, EventsOfAllAre
    <2>4. DOMAIN AllEvents = 1 .. Len(AllEvents) /\ Len(AllEvents) \in Nat
      BY <2>2, LenProperties
    <2>5. (CHOOSE i \in DOMAIN AllEvents : P(i)) \in 1 .. Len(AllEvents)
      <3> HIDE DEF P
      <3> QED  BY <2>3, <2>4
    <2>6. LogIndex(k) = (CHOOSE i \in DOMAIN AllEvents : P(i)) - 1
      BY DEF LogIndex
    <2> HIDE DEF P
    <2> QED  BY <2>4, <2>5, <2>6
  <1>10. Executed(k) \in SUBSET Nat /\ Executed(k) \subseteq 1 .. Len(r) /\ Executed(k) # {}
    <2> DEFINE start == IF Len(r) - 1 <= LogIndex(k) THEN Len(r) - 1 ELSE LogIndex(k)
    <2>1. start \in Nat /\ start + 1 <= Len(r)
      BY <1>8, <1>9
    <2>2. Executed(k) = {i \in 1 .. (start + 1) : r[i].kind = "execute"}
      BY <1>3 DEF Executed
    <2> HIDE DEF start
    <2>3. 1 \in Executed(k)
      BY <1>8, <2>1, <2>2
    <2> QED  BY <1>8, <2>1, <2>2, <2>3
  <1>11. Max(Executed(k)) \in 1 .. Len(r) /\ Min(Executed(k)) \in 1 .. Len(r)
    <2>1. \A n \in Executed(k) : n <= Len(r)
      BY <1>10
    <2>2. Max(Executed(k)) \in Executed(k)
      BY <1>8, <1>10, <2>1, MaxOfNaturals
    <2>3. Min(Executed(k)) \in Executed(k)
      BY <1>10, MinOfNaturals
    <2> QED  BY <1>10, <2>2, <2>3
  <1>12. \A i \in 1 .. Len(r) : Reserve(r[i])[1] = k
    BY <1>6 DEF Reserve
  <1> QED  BY <1>2, <1>3, <1>11, <1>12 DEF ReserveFromReceipt, ReserveFromReceiptV1

(* The events of the job, how many of them are dealt with, and those of    *)
(* the trade at work.                                                      *)
Seen == EventsOfAll([k \in DOMAIN chain |-> Sees(handler, k)])
SeenEvent == [kind : Kinds, owner : DOMAIN chain, leg : Nat]
Done == Len(Seen) - Len(log)
Current == {i \in 1 .. Done : \A j \in i .. Done : Seen[j].kind # "trade"}

(* What a job works on: its chain and its decoder.                         *)
JobTyped == chain \in Seq(Shapes) /\ chain # <<>> /\ handler \in Handlers

(* What a decoder sees of the events: their places and their kinds.        *)
LEMMA SeenIs ==
    ASSUME JobTyped
    PROVE  /\ DOMAIN chain = 1 .. Len(chain) /\ \A k \in DOMAIN chain : chain[k] \in Shapes /\ k \in Nat
           /\ Seen \in Seq(SeenEvent) /\ Len(Seen) \in Nat
           /\ \A i \in 1 .. Len(Seen) : /\ Seen[i] \in SeenEvent /\ Seen[i].owner \in DOMAIN chain
                                        /\ Seen[i].owner \in Nat
                                        /\ Seen[i] \in EventsFrom(Seen[i].owner, Sees(handler, Seen[i].owner))
           /\ \A k \in DOMAIN chain : \A e \in EventsFrom(k, Sees(handler, k)) : \E i \in 1 .. Len(Seen) : Seen[i] = e
           /\ \A i, j \in 1 .. Len(Seen) : i < j =>
                 Seen[i].owner <= Seen[j].owner /\ (Seen[i].kind = "trade" => Seen[i].owner < Seen[j].owner)
  <1> DEFINE kinds == [k \in DOMAIN chain |-> Sees(handler, k)]
  <1>1. DOMAIN chain = 1 .. Len(chain) /\ \A k \in DOMAIN chain : chain[k] \in Shapes /\ k \in Nat
    BY LenProperties, ElementOfSeq DEF JobTyped
  <1>2. Seen = EventsOfAll(kinds) /\ DOMAIN kinds = DOMAIN chain /\ \A k \in DOMAIN chain : kinds[k] = Sees(handler, k)
    BY DEF Seen
  <1> HIDE DEF kinds
  <1>3. /\ Seen \in Seq(SeenEvent)
        /\ \A i \in 1 .. Len(Seen) : Seen[i].owner \in DOMAIN chain /\ Seen[i] \in EventsFrom(Seen[i].owner, kinds[Seen[i].owner])
        /\ \A k \in DOMAIN chain : \A e \in EventsFrom(k, kinds[k]) : \E i \in 1 .. Len(Seen) : Seen[i] = e
        /\ \A i, j \in 1 .. Len(Seen) : i < j =>
              Seen[i].owner <= Seen[j].owner /\ (Seen[i].kind = "trade" => Seen[i].owner < Seen[j].owner)
    BY <1>2, EventsOfAllAre DEF JobTyped, SeenEvent
  <1>4. Len(Seen) \in Nat /\ \A i \in 1 .. Len(Seen) : Seen[i] \in SeenEvent
    BY <1>3, LenProperties, ElementOfSeq
  <1> QED  BY <1>1, <1>2, <1>3, <1>4

(* When the decoder knows all trades, the events of the trade at work are  *)
(* its own, all of them when the event that ends it is reached.            *)
LEMMA CurrentAre ==
    ASSUME JobTyped, AllKnown, NEW n \in 1 .. Len(Seen), Seen[n].kind = "trade", Done = n - 1
    PROVE  /\ Current \subseteq 1 .. (n - 1)
           /\ \A i \in Current : i \in 1 .. Len(Seen) /\ Seen[i].owner = Seen[n].owner /\ Seen[i].kind # "trade"
           /\ \A i \in 1 .. Len(Seen) : Seen[i].owner = Seen[n].owner /\ Seen[i].kind # "trade" => i \in Current
  <1> USE SeenIs
  <1>1. ASSUME NEW i \in Current
        PROVE  i \in 1 .. Len(Seen) /\ i < n /\ Seen[i].owner = Seen[n].owner /\ Seen[i].kind # "trade"
    <2>1. i \in 1 .. (n - 1) /\ i \in 1 .. Len(Seen) /\ i < n /\ i \in i .. (n - 1)
      BY DEF Current
    <2>2. \A j \in i .. (n - 1) : Seen[j].kind # "trade"
      BY DEF Current
    <2>3. Seen[i].kind # "trade"
      BY <2>1, <2>2
    <2>4. PICK k : k = Seen[i].owner
      OBVIOUS
    <2>5. k \in DOMAIN chain /\ k <= Seen[n].owner /\ k \in Nat /\ Seen[n].owner \in Nat
      BY <2>1, <2>4
    <2>6. PICK j \in 1 .. Len(Seen) : Seen[j] = Event("trade", k, 1)
      <3>1. Event("trade", k, 1) \in EventsFrom(k, Sees(handler, k))
        BY <2>5, EmitsFew, KindsAre DEF AllKnown, EventsFrom, Event
      <3> QED  BY <2>5, <3>1
    <2>7. Seen[j].kind = "trade" /\ Seen[j].owner = k
      BY <2>6 DEF Event
    <2>8. ~(j < i)
      BY <2>1, <2>4, <2>5, <2>7
    <2>9. ~(j <= n - 1)
      BY <2>1, <2>2, <2>7, <2>8
    <2>10. j = n \/ n < j
      BY <2>9
    <2>11. Seen[n].owner <= k
      BY <2>5, <2>7, <2>10
    <2> QED  BY <2>1, <2>3, <2>4, <2>5, <2>11
  <1>2. ASSUME NEW i \in 1 .. Len(Seen), Seen[i].owner = Seen[n].owner, Seen[i].kind # "trade"
        PROVE  i \in Current
    <2>1. i # n /\ ~(n < i)
      BY <1>2
    <2>2. i \in 1 .. (n - 1)
      BY <2>1
    <2>3. ASSUME NEW j \in i .. (n - 1)
          PROVE  Seen[j].kind # "trade"
      <3>1. j \in 1 .. Len(Seen) /\ j < n /\ (i = j \/ i < j)
        BY <2>2
      <3>2. Seen[i].owner <= Seen[j].owner
        BY <3>1
      <3> QED  BY <1>2, <3>1, <3>2
    <2> QED  BY <2>2, <2>3 DEF Current
  <1> QED  BY <1>1, <1>2 DEF Current

(* When all events are dealt with, none of them is of a trade at work.     *)
LEMMA NoneCurrent ==
    ASSUME JobTyped, AllKnown, Done = Len(Seen)
    PROVE  Current = {}
  <1> USE SeenIs
  <1> SUFFICES ASSUME NEW i \in Current
               PROVE  FALSE
    OBVIOUS
  <1>1. i \in 1 .. Len(Seen) /\ \A j \in i .. Len(Seen) : Seen[j].kind # "trade"
    BY DEF Current
  <1>2. PICK k : k = Seen[i].owner
    OBVIOUS
  <1>3. k \in DOMAIN chain /\ k \in Nat
    BY <1>1, <1>2
  <1>4. PICK j \in 1 .. Len(Seen) : Seen[j] = Event("trade", k, 1)
    <2>1. Event("trade", k, 1) \in EventsFrom(k, Sees(handler, k))
      BY <1>3, EmitsFew, KindsAre DEF AllKnown, EventsFrom, Event
    <2> QED  BY <1>3, <2>1
  <1>5. Seen[j].kind = "trade" /\ Seen[j].owner = k
    BY <1>4 DEF Event
  <1>6. ~(j < i)
    BY <1>1, <1>2, <1>3, <1>5
  <1> QED  BY <1>1, <1>5, <1>6

(* What is left of the events.                                             *)
LogIsLeft ==
    /\ log \in Seq(SeenEvent) /\ Len(log) <= Len(Seen)
    /\ \A i \in 1 .. Len(log) : log[i] = Seen[Done + i]

(* The pending trade log has what there is of the trade at work, and        *)
(* nothing else.                                                           *)
PendingOf(t, C) ==
    /\ C = {} => t = NoTrade
    /\ DOMAIN t = DOMAIN NoTrade
    /\ t.version = None
    /\ t.fees \in Seq(SeenEvent)
    /\ ToSet(t.fees) = {Seen[i] : i \in {j \in C : Seen[j].kind # "etherReceival"}}
    /\ t.wallet # None => \E i \in C : t.wallet = Seen[i].owner
    /\ \A r \in {t.srcReserve, t.dstReserve} \ {None} : \E i \in C : r[1] = Seen[i].owner
    /\ (\E i \in C : Seen[i].kind = "etherReceival")
          => \E i \in C : Seen[i].kind = "etherReceival" /\ t.eth = Ether(chain[Seen[i].owner])

PendingIs == PendingOf(pending, Current)

(* A trade log has the parts of its trade.                                 *)
OwnTrade(t) ==
    /\ ToSet(t.fees) = ToSet(EventsOf(t.trade, Sees(handler, t.trade) \ {"trade", "etherReceival"}))
    /\ (LengthBurnFees(t) > 0 \/ \A k \in DOMAIN chain : SameTx(k, t.trade) => k = t.trade)
          => /\ t.wallet \in {None, t.trade}
             /\ \A r \in {t.srcReserve, t.dstReserve} \ {None} : r[1] = t.trade
    /\ t.orig = Ether(chain[t.trade])

(* The trades whose last event is dealt with have their trade logs.        *)
TradesAre ==
    /\ \E S : trades \in Seq(S)
    /\ {trades[i].trade : i \in DOMAIN trades} = {Seen[j].owner : j \in {l \in 1 .. Done : Seen[l].kind = "trade"}}
    /\ \A i, j \in DOMAIN trades : i < j => trades[i].trade < trades[j].trade
    /\ \A i \in DOMAIN trades : trades[i].trade \in DOMAIN chain /\ trades[i].version \in 1 .. 4
    /\ AllKnown => \A i \in DOMAIN trades : OwnTrade(trades[i])

StatusIs == status \in {"assembling", "ok", "failed"} /\ (status = "ok" => log = <<>>)

(* No job, when another program runs.                                      *)
NoJob == chain = <<>> /\ log = <<>> /\ handler \in Handlers /\ pending = NoTrade /\ trades = <<>> /\ status = "ok"

JobIsRight == JobTyped /\ LogIsLeft /\ PendingIs /\ TradesAre /\ StatusIs

AssemblyInv == NoJob \/ JobIsRight

(* A job begins with all events that its decoder sees.                     *)
LEMMA AssemblyStarts == AssemblyInit => AssemblyInv
  <1> SUFFICES ASSUME AssemblyInit
               PROVE  JobIsRight
    BY DEF AssemblyInv
  <1>1. JobTyped
    <2>1. PICK n \in 1 .. MaxTrades : chain \in [1 .. n -> Shapes]
      BY DEF AssemblyInit
    <2>2. n \in Nat \ {0}
      BY AssemblyAssumption
    <2>3. chain \in Seq(Shapes) /\ Len(chain) = n
      BY <2>1, <2>2, SeqDef
    <2>4. chain # <<>>
      BY <2>2, <2>3, EmptySeq
    <2> QED  BY <2>3, <2>4 DEF JobTyped, AssemblyInit
  <1>2. log = Seen /\ Done = 0 /\ Current = {} /\ Len(Seen) \in Nat
    <2>1. log = Seen /\ Len(Seen) \in Nat
      BY <1>1, SeenIs DEF AssemblyInit, Seen
    <2>2. Done = 0
      BY <2>1 DEF Done
    <2> QED  BY <2>1, <2>2 DEF Current
  <1>3. LogIsLeft
    BY <1>1, <1>2, SeenIs DEF LogIsLeft
  <1>4. PendingIs
    <2>1. pending = NoTrade /\ NoTrade.fees = <<>> /\ NoTrade.version = None /\ NoTrade.wallet = None
          /\ NoTrade.srcReserve = None /\ NoTrade.dstReserve = None
      BY DEF AssemblyInit, NoTrade
    <2>2. ToSet(<<>>) = {} /\ <<>> \in Seq(SeenEvent)
      BY EmptySeq DEF ToSet
    <2> QED  BY <1>2, <2>1, <2>2 DEF PendingIs, PendingOf
  <1>5. TradesAre
    <2>1. trades = <<>> /\ DOMAIN trades = {} /\ trades \in Seq({})
      BY EmptySeq DEF AssemblyInit
    <2> QED  BY <1>2, <2>1 DEF TradesAre
  <1>6. StatusIs
    BY DEF AssemblyInit, StatusIs
  <1> QED  BY <1>1, <1>3, <1>4, <1>5, <1>6 DEF JobIsRight

(* An event that is next: what is dealt with afterwards.                   *)
LEMMA NextEvent ==
    ASSUME JobTyped, LogIsLeft, log # <<>>, chain' = chain, handler' = handler, log' = Tail(log)
    PROVE  /\ Seen' = Seen /\ LogIsLeft' /\ Done \in Nat /\ Done + 1 \in 1 .. Len(Seen) /\ Done' = Done + 1
           /\ log[1] = Seen[Done + 1] /\ Head(log) = Seen[Done + 1]
           /\ Seen[Done + 1] \in SeenEvent
           /\ Current' = IF Seen[Done + 1].kind = "trade" THEN {} ELSE Current \cup {Done + 1}
  <1>1. Seen' = Seen /\ SeenEvent' = SeenEvent
    <2>1. Seen' = EventsOfAll([k \in DOMAIN chain |-> Sees(handler, k)])'
      BY DEF Seen
    <2> QED  BY DEF Seen, SeenEvent, EventsOfAll, EventsOf, EventsOfKind, Emits, Legs, Sees
  <1>2. /\ log \in Seq(SeenEvent) /\ Len(log) <= Len(Seen) /\ \A i \in 1 .. Len(log) : log[i] = Seen[Done + i]
        /\ Len(Seen) \in Nat /\ Done = Len(Seen) - Len(log)
    BY SeenIs DEF LogIsLeft, Done
  <1>3. /\ Tail(log) \in Seq(SeenEvent) /\ Len(log) \in Nat \ {0} /\ Len(Tail(log)) = Len(log) - 1
        /\ \A i \in 1 .. Len(log) - 1 : Tail(log)[i] = log[i + 1]
    BY <1>2, TailIs
  <1>4. Done \in Nat /\ Done + 1 \in 1 .. Len(Seen) /\ Done' = Done + 1
    <2>1. Done' = Len(Seen) - Len(Tail(log))
      BY <1>1 DEF Done
    <2> QED  BY <1>2, <1>3, <2>1
  <1>5. log[1] = Seen[Done + 1] /\ Head(log) = log[1]
    BY <1>2, <1>3
  <1>6. LogIsLeft'
    <2>1. \A i \in 1 .. Len(Tail(log)) : Tail(log)[i] = Seen[(Done + 1) + i]
      <3> SUFFICES ASSUME NEW i \in 1 .. Len(Tail(log))
                   PROVE  Tail(log)[i] = Seen[(Done + 1) + i]
        OBVIOUS
      <3>1. i \in 1 .. Len(log) - 1 /\ i + 1 \in 1 .. Len(log)
        BY <1>3
      <3>2. Done + (i + 1) = (Done + 1) + i
        BY <1>4, <3>1
      <3> QED  BY <1>2, <1>3, <3>1, <3>2
    <2>2. Len(Tail(log)) <= Len(Seen)
      BY <1>2, <1>3
    <2> QED  BY <1>1, <1>3, <1>4, <2>1, <2>2 DEF LogIsLeft
  <1>7. Current' = IF Seen[Done + 1].kind = "trade" THEN {} ELSE Current \cup {Done + 1}
    <2>1. PICK n, seen : n = Done /\ seen = Seen
      OBVIOUS
    <2>2. Current' = {i \in 1 .. (n + 1) : \A j \in i .. (n + 1) : seen[j].kind # "trade"}
      BY <1>1, <1>4, <2>1 DEF Current
    <2>3. Current = {i \in 1 .. n : \A j \in i .. n : seen[j].kind # "trade"}
      BY <2>1 DEF Current
    <2>4. n \in Nat
      BY <1>4, <2>1
    <2>5. CASE seen[n + 1].kind = "trade"
      <3>1. \A i \in 1 .. (n + 1) : n + 1 \in i .. (n + 1)
        BY <2>4
      <3> QED  BY <2>1, <2>2, <2>5, <3>1
    <2>6. CASE seen[n + 1].kind # "trade"
      <3>1. \A i \in 1 .. n : (\A j \in i .. (n + 1) : seen[j].kind # "trade") <=> \A j \in i .. n : seen[j].kind # "trade"
        BY <2>4, <2>6
      <3>2. \A j \in (n + 1) .. (n + 1) : seen[j].kind # "trade"
        BY <2>4, <2>6
      <3>3. 1 .. (n + 1) = 1 .. n \cup {n + 1}
        BY <2>4
      <3> QED  BY <2>1, <2>2, <2>3, <2>6, <3>1, <3>2, <3>3
    <2> QED  BY <2>1, <2>5, <2>6
  <1>8. Seen[Done + 1] \in SeenEvent
    BY <1>4, SeenIs
  <1> QED  BY <1>1, <1>4, <1>5, <1>6, <1>7, <1>8

(* A fee event adds its part to the pending trade log.                     *)
LEMMA FeeIsCollected ==
    ASSUME JobTyped, NEW t, NEW C \in SUBSET (1 .. Len(Seen)), PendingOf(t, C),
           NEW n \in 1 .. Len(Seen), Seen[n].kind # "trade"
    PROVE  PendingOf(FillFee(t, Seen[n]), C \cup {n})
  <1>1. PICK e : e = Seen[n]
    OBVIOUS
  <1>2. e \in SeenEvent /\ e.kind \in {"burnFee", "feeToWallet", "etherReceival", "feeDistributed"}
    <2>1. e \in SeenEvent /\ e \in EventsFrom(e.owner, Sees(handler, e.owner)) /\ e.kind # "trade"
      BY <1>1, SeenIs
    <2>2. e.kind \in Sees(handler, e.owner)
      BY <2>1 DEF EventsFrom
    <2> QED  BY <2>1, <2>2 DEF Sees
  <1>3. Reserve(e)[1] = e.owner
    BY DEF Reserve
  <1>4. PICK u : u = FillFee(t, e)
    OBVIOUS
  <1>5. DOMAIN t = DOMAIN NoTrade /\ t.fees \in Seq(SeenEvent)
    BY DEF PendingOf
  <1>6. DOMAIN NoTrade = {"fees", "srcReserve", "dstReserve", "wallet", "eth", "orig", "src", "dst", "version", "trade"}
    BY DEF NoTrade
  <1>7. /\ DOMAIN u = DOMAIN t /\ u.version = t.version
        /\ u.fees = IF e.kind = "etherReceival" THEN t.fees ELSE Append(t.fees, e)
        /\ u.wallet \in {t.wallet, e.owner}
        /\ u.srcReserve \in {t.srcReserve, Reserve(e)} /\ u.dstReserve \in {t.dstReserve, Reserve(e)}
        /\ u.eth = IF e.kind = "etherReceival" THEN Ether(chain[e.owner]) ELSE t.eth
    <2>1. CASE e.kind = "burnFee"
      <3> DEFINE more == [t EXCEPT !.fees = Append(@, e)]
      <3>1. u = IF LengthBurnFees(more) = 1 THEN [more EXCEPT !.srcReserve = Reserve(e)]
                                            ELSE [more EXCEPT !.dstReserve = Reserve(e)]
        BY <1>4, <2>1 DEF FillFee, FillBurnFees
      <3>2. /\ DOMAIN more = DOMAIN t /\ more.fees = Append(t.fees, e) /\ more.version = t.version
            /\ more.wallet = t.wallet /\ more.srcReserve = t.srcReserve /\ more.dstReserve = t.dstReserve
            /\ more.eth = t.eth
        BY <1>5, <1>6
      <3> HIDE DEF more
      <3> QED  BY <1>5, <1>6, <2>1, <3>1, <3>2
    <2>2. CASE e.kind = "feeToWallet"
      <3>1. u = [t EXCEPT !.fees = Append(@, e), !.wallet = e.owner]
        BY <1>4, <2>2 DEF FillFee, FillWalletFees
      <3> QED  BY <1>5, <1>6, <2>2, <3>1
    <2>3. CASE e.kind = "etherReceival"
      <3>1. u = [t EXCEPT !.srcReserve = Reserve(e), !.eth = Ether(chain[e.owner]), !.orig = Ether(chain[e.owner])]
        BY <1>4, <2>3 DEF FillFee, FillEtherReceival
      <3> QED  BY <1>5, <1>6, <2>3, <3>1
    <2>4. CASE e.kind = "feeDistributed"
      <3>1. u = [t EXCEPT !.fees = Append(@, e), !.wallet = e.owner]
        BY <1>4, <2>4 DEF FillFee, FillFeeDistributed
      <3> QED  BY <1>5, <1>6, <2>4, <3>1
    <2> QED  BY <1>2, <2>1, <2>2, <2>3, <2>4
  <1>8. PICK D : D = C \cup {n}
    OBVIOUS
  <1>9. DOMAIN u = DOMAIN NoTrade /\ u.version = None /\ D # {} /\ n \in D
    BY <1>5, <1>7, <1>8 DEF PendingOf
  <1>10. /\ u.fees \in Seq(SeenEvent)
         /\ ToSet(u.fees) = {Seen[i] : i \in {j \in D : Seen[j].kind # "etherReceival"}}
    <2>1. ToSet(t.fees) = {Seen[i] : i \in {j \in C : Seen[j].kind # "etherReceival"}}
      BY DEF PendingOf
    <2>2. CASE e.kind = "etherReceival"
      <3>1. {j \in D : Seen[j].kind # "etherReceival"} = {j \in C : Seen[j].kind # "etherReceival"}
        BY <1>1, <1>8, <2>2
      <3> QED  BY <1>5, <1>7, <2>1, <2>2, <3>1
    <2>3. CASE e.kind # "etherReceival"
      <3>1. {j \in D : Seen[j].kind # "etherReceival"} = {j \in C : Seen[j].kind # "etherReceival"} \cup {n}
        BY <1>1, <1>8, <2>3
      <3>2. Append(t.fees, e) \in Seq(SeenEvent) /\ ToSet(Append(t.fees, e)) = ToSet(t.fees) \cup {e}
        BY <1>2, <1>5, AppendSet
      <3>3. u.fees = Append(t.fees, e)
        BY <1>7, <2>3
      <3>4. \A A : {Seen[i] : i \in A \cup {n}} = {Seen[i] : i \in A} \cup {Seen[n]}
        OBVIOUS
      <3>5. ToSet(u.fees) = {Seen[i] : i \in {j \in C : Seen[j].kind # "etherReceival"}} \cup {Seen[n]}
        BY <1>1, <2>1, <3>2, <3>3
      <3>6. ToSet(u.fees) = {Seen[i] : i \in {j \in D : Seen[j].kind # "etherReceival"}}
        BY <3>1, <3>4, <3>5
      <3>7. u.fees \in Seq(SeenEvent)
        BY <3>2, <3>3
      <3> QED  BY <3>6, <3>7
    <2> QED  BY <2>2, <2>3
  <1>11. u.wallet # None => \E i \in D : u.wallet = Seen[i].owner
    <2>1. t.wallet # None => \E i \in C : t.wallet = Seen[i].owner
      BY DEF PendingOf
    <2> QED  BY <1>1, <1>7, <1>8, <2>1
  <1>12. ASSUME NEW r \in {u.srcReserve, u.dstReserve} \ {None}
         PROVE  \E i \in D : r[1] = Seen[i].owner
    <2>1. \A q \in {t.srcReserve, t.dstReserve} \ {None} : \E i \in C : q[1] = Seen[i].owner
      BY DEF PendingOf
    <2>2. CASE r = Reserve(e)
      BY <1>1, <1>3, <1>8, <2>2
    <2>3. CASE r # Reserve(e)
      <3>1. r \in {t.srcReserve, t.dstReserve} \ {None}
        BY <1>7, <2>3
      <3> QED  BY <1>8, <2>1, <3>1
    <2> QED  BY <2>2, <2>3
  <1>13. (\E i \in D : Seen[i].kind = "etherReceival")
            => \E i \in D : Seen[i].kind = "etherReceival" /\ u.eth = Ether(chain[Seen[i].owner])
    <2>1. (\E i \in C : Seen[i].kind = "etherReceival")
            => \E i \in C : Seen[i].kind = "etherReceival" /\ t.eth = Ether(chain[Seen[i].owner])
      BY DEF PendingOf
    <2>2. CASE e.kind = "etherReceival"
      BY <1>1, <1>7, <1>9, <2>2
    <2>3. CASE e.kind # "etherReceival"
      BY <1>1, <1>7, <1>8, <2>1, <2>3
    <2> QED  BY <2>2, <2>3
  <1>14. PendingOf(u, D)
    BY <1>9, <1>10, <1>11, <1>12, <1>13 DEF PendingOf
  <1> QED  BY <1>1, <1>4, <1>8, <1>14

(* The trade log that an event completes: what its fields are.             *)
LEMMA TradeFields ==
    ASSUME JobTyped, NEW t, DOMAIN t = DOMAIN NoTrade, NEW k \in DOMAIN chain, NEW callsProxy \in BOOLEAN
    PROVE  LET u == UpdateBasicInfo(Fill(t, k), k, callsProxy)
               g == chain[k].gen
           IN  /\ u.fees = t.fees /\ u.trade = k /\ u.version = g /\ g \in 1 .. 4
               /\ u.wallet = t.wallet \/ (LengthBurnFees(t) = 0 /\ u.wallet = FirstOfTx(k))
               /\ \/ u.srcReserve \in {t.srcReserve, None, <<k, 1>>}
                  \/ LengthBurnFees(t) = 0 /\ u.srcReserve \in {ReserveFromReceipt(k), ReserveFromReceiptV1(k)}
               /\ u.dstReserve \in {t.dstReserve, None, <<k, Legs(chain[k])>>}
               /\ u.orig = IF g <= 2 THEN EthSide(t, chain[k]) ELSE Ether(chain[k])
  <1>1. chain[k] \in Shapes /\ chain[k].gen \in 1 .. 4
    BY SeenIs, AssemblyAssumption
  <1>2. PICK s, f : s = chain[k] /\ f = Fill(t, k)
    OBVIOUS
  <1>3. DOMAIN t = {"fees", "srcReserve", "dstReserve", "wallet", "eth", "orig", "src", "dst", "version", "trade"}
    BY DEF NoTrade
  <1>4. /\ DOMAIN f = DOMAIN t /\ f.fees = t.fees /\ f.version = s.gen /\ f.wallet = t.wallet
        /\ \/ f.srcReserve \in {t.srcReserve, None, <<k, 1>>}
           \/ LengthBurnFees(t) = 0 /\ f.srcReserve \in {ReserveFromReceipt(k), ReserveFromReceiptV1(k)}
        /\ f.dstReserve \in {t.dstReserve, None, <<k, Legs(s)>>}
        /\ f.orig = IF s.gen <= 2 THEN EthSide(t, s) ELSE Ether(s)
    <2>1. CASE s.gen = 1
      <3>1. f = FillExecuteTrade(t, k)
        BY <1>2, <2>1 DEF Fill
      <3> DEFINE reserve == IF LengthBurnFees(t) = 0 THEN ReserveFromReceiptV1(k) ELSE t.srcReserve
      <3>2. f = [t EXCEPT !.version = 1, !.srcReserve = reserve, !.src = SrcAmount, !.dst = DestAmount,
                          !.eth = EthSide(t, s), !.orig = EthSide(t, s)]
        BY <1>2, <3>1 DEF FillExecuteTrade
      <3>3. /\ DOMAIN f = DOMAIN t /\ f.fees = t.fees /\ f.version = 1 /\ f.wallet = t.wallet
            /\ f.srcReserve = reserve /\ f.dstReserve = t.dstReserve /\ f.orig = EthSide(t, s)
        <4> HIDE DEF reserve
        <4> QED  BY <1>3, <3>2
      <3> QED  BY <2>1, <3>3
    <2>2. CASE s.gen = 2
      <3>1. f = FillKyberTradeV2(t, k)
        BY <1>2, <2>2 DEF Fill
      <3> DEFINE reserve == IF LengthBurnFees(t) = 0 THEN ReserveFromReceipt(k) ELSE t.srcReserve
                 product == EthSide(t, s) * LengthBurnFees(t)
                 src == IF s.src = "ETH" THEN product ELSE SrcAmount
                 dst == IF s.dst = "ETH" THEN product ELSE DestAmount
      <3>2. f = [t EXCEPT !.version = 2, !.srcReserve = reserve, !.src = src, !.dst = dst,
                          !.eth = product, !.orig = EthSide(t, s)]
        BY <1>2, <3>1 DEF FillKyberTradeV2
      <3>3. /\ DOMAIN f = DOMAIN t /\ f.fees = t.fees /\ f.version = 2 /\ f.wallet = t.wallet
            /\ f.srcReserve = reserve /\ f.dstReserve = t.dstReserve /\ f.orig = EthSide(t, s)
        <4> HIDE DEF reserve, product, src, dst
        <4> QED  BY <1>3, <3>2
      <3> QED  BY <2>2, <3>3
    <2>3. CASE s.gen = 3
      <3>1. f = FillKyberTradeV3(t, k)
        BY <1>2, <2>3 DEF Fill
      <3> DEFINE src == IF s.src = "ETH" THEN None ELSE <<k, 1>>
                 dst == IF s.dst = "ETH" THEN None ELSE <<k, Legs(s)>>
                 eth == Ether(s) * (2 - s.excluded)
      <3>2. f = [t EXCEPT !.version = 3, !.src = SrcAmount, !.dst = DestAmount, !.srcReserve = src, !.dstReserve = dst,
                          !.eth = eth, !.orig = Ether(s)]
        BY <1>2, <3>1 DEF FillKyberTradeV3
      <3>3. /\ DOMAIN f = DOMAIN t /\ f.fees = t.fees /\ f.version = 3 /\ f.wallet = t.wallet
            /\ f.srcReserve = src /\ f.dstReserve = dst /\ f.orig = Ether(s)
        <4> HIDE DEF src, dst, eth
        <4> QED  BY <1>3, <3>2
      <3> QED  BY <2>3, <3>3
    <2>4. CASE s.gen = 4
      <3>1. f = FillKyberTradeV4(t, k)
        BY <1>2, <2>4 DEF Fill
      <3>2. f = [t EXCEPT !.version = 4, !.src = SrcAmount, !.dst = DestAmount,
                          !.eth = Ether(s) * Legs(s), !.orig = Ether(s)]
        BY <1>2, <3>1 DEF FillKyberTradeV4
      <3>3. /\ DOMAIN f = DOMAIN t /\ f.fees = t.fees /\ f.version = 4 /\ f.wallet = t.wallet
            /\ f.srcReserve = t.srcReserve /\ f.dstReserve = t.dstReserve /\ f.orig = Ether(s)
        BY <1>3, <3>2
      <3> QED  BY <2>4, <3>3
    <2> QED  BY <1>1, <1>2, <2>1, <2>2, <2>3, <2>4
  <1>5. LengthBurnFees(f) = LengthBurnFees(t)
    BY <1>4 DEF LengthBurnFees
  <1>6. PICK u : u = UpdateBasicInfo(f, k, callsProxy)
    OBVIOUS
  <1>7. /\ u.fees = f.fees /\ u.trade = k /\ u.version = f.version
        /\ u.wallet = f.wallet \/ (LengthBurnFees(f) = 0 /\ u.wallet = FirstOfTx(k))
        /\ u.srcReserve = f.srcReserve /\ u.dstReserve = f.dstReserve /\ u.orig = f.orig
    <2> DEFINE w == IF LengthBurnFees(f) = 0 /\ callsProxy THEN FirstOfTx(k) ELSE f.wallet
    <2>1. u = [f EXCEPT !.trade = k, !.wallet = w]
      BY <1>6 DEF UpdateBasicInfo
    <2>2. /\ u.fees = f.fees /\ u.trade = k /\ u.version = f.version /\ u.wallet = w
          /\ u.srcReserve = f.srcReserve /\ u.dstReserve = f.dstReserve /\ u.orig = f.orig
      <3> HIDE DEF w
      <3> QED  BY <1>3, <1>4, <2>1
    <2> QED  BY <2>2
  <1> QED  BY <1>1, <1>2, <1>4, <1>5, <1>6, <1>7

(* It has the parts of its own trade, if the pending one has what there is *)
(* of the trade and nothing else.                                          *)
LEMMA TradeIsOwn ==
    ASSUME JobTyped, AllKnown, NEW t, NEW C, PendingOf(t, C), NEW k \in DOMAIN chain, NEW callsProxy \in BOOLEAN,
           \A i \in C : i \in 1 .. Len(Seen) /\ Seen[i].owner = k /\ Seen[i].kind # "trade",
           \A i \in 1 .. Len(Seen) : Seen[i].owner = k /\ Seen[i].kind # "trade" => i \in C
    PROVE  OwnTrade(UpdateBasicInfo(Fill(t, k), k, callsProxy))
  <1>1. PICK u, s : u = UpdateBasicInfo(Fill(t, k), k, callsProxy) /\ s = chain[k]
    OBVIOUS
  <1>2. /\ u.fees = t.fees /\ u.trade = k
        /\ u.wallet = t.wallet \/ (LengthBurnFees(t) = 0 /\ u.wallet = FirstOfTx(k))
        /\ \/ u.srcReserve \in {t.srcReserve, None, <<k, 1>>}
           \/ LengthBurnFees(t) = 0 /\ u.srcReserve \in {ReserveFromReceipt(k), ReserveFromReceiptV1(k)}
        /\ u.dstReserve \in {t.dstReserve, None, <<k, Legs(s)>>}
        /\ u.orig = IF s.gen <= 2 THEN EthSide(t, s) ELSE Ether(s)
    BY <1>1, TradeFields DEF PendingOf
  <1>3. s \in Shapes /\ s.gen \in 1 .. 4 /\ s.src \in {"ETH", "token"} /\ s.dst \in {"ETH", "token"}
        /\ chain \in Seq(Shapes) /\ chain # <<>>
    BY <1>1, SeenIs, AssemblyAssumption DEF JobTyped
  <1>4. PICK kinds, fees : kinds = Sees(handler, k) /\ fees = kinds \ {"trade", "etherReceival"}
    OBVIOUS
  <1>5. ToSet(EventsOf(k, fees)) = EventsFrom(k, fees)
    <2>1. /\ EventsOf(k, fees) \in Seq(EventsFrom(k, fees))
          /\ \A e \in EventsFrom(k, fees) : \E i \in 1 .. Len(EventsOf(k, fees)) : EventsOf(k, fees)[i] = e
      BY <1>1, <1>3, EventsAre
    <2>2. DOMAIN EventsOf(k, fees) = 1 .. Len(EventsOf(k, fees))
          /\ \A i \in 1 .. Len(EventsOf(k, fees)) : EventsOf(k, fees)[i] \in EventsFrom(k, fees)
      BY <2>1, LenProperties, ElementOfSeq
    <2> QED  BY <2>1, <2>2 DEF ToSet
  <1>6. EventsFrom(k, fees) = {e \in EventsFrom(k, kinds) : e.kind \notin {"trade", "etherReceival"}}
    BY <1>4 DEF EventsFrom
  <1>7. ToSet(t.fees) = EventsFrom(k, fees)
    <2>1. ToSet(t.fees) = {Seen[i] : i \in {j \in C : Seen[j].kind # "etherReceival"}}
      BY DEF PendingOf
    <2>2. ASSUME NEW i \in C, Seen[i].kind # "etherReceival"
          PROVE  Seen[i] \in EventsFrom(k, fees)
      <3>1. Seen[i] \in EventsFrom(k, kinds) /\ Seen[i].kind # "trade"
        BY <1>4, SeenIs
      <3> QED  BY <1>6, <2>2, <3>1
    <2>3. ASSUME NEW e \in EventsFrom(k, fees)
          PROVE  \E i \in C : Seen[i].kind # "etherReceival" /\ Seen[i] = e
      <3>1. e \in EventsFrom(k, kinds) /\ e.kind \notin {"trade", "etherReceival"} /\ e.owner = k
        BY <1>6 DEF EventsFrom
      <3>2. PICK i \in 1 .. Len(Seen) : Seen[i] = e
        BY <1>4, <3>1, SeenIs
      <3> QED  BY <3>1, <3>2
    <2>4. \A e : e \in ToSet(t.fees) <=> e \in EventsFrom(k, fees)
      BY <2>1, <2>2, <2>3
    <2> QED  BY <2>4
  <1>8. LengthBurnFees(u) = LengthBurnFees(t)
    BY <1>2 DEF LengthBurnFees
  <1>9. ASSUME LengthBurnFees(u) > 0 \/ \A j \in DOMAIN chain : SameTx(j, k) => j = k
        PROVE  /\ u.wallet \in {None, k}
               /\ \A r \in {u.srcReserve, u.dstReserve} \ {None} : r[1] = k
    <2>1. LengthBurnFees(t) = 0 =>
             FirstOfTx(k) = k /\ ReserveFromReceipt(k)[1] = k /\ ReserveFromReceiptV1(k)[1] = k
      <3> SUFFICES ASSUME LengthBurnFees(t) = 0
                   PROVE  FirstOfTx(k) = k /\ ReserveFromReceipt(k)[1] = k /\ ReserveFromReceiptV1(k)[1] = k
        OBVIOUS
      <3>1. \A j \in DOMAIN chain : SameTx(j, k) => j = k
        BY <1>8, <1>9
      <3> QED  BY <1>3, <3>1, OwnReceipt
    <2>2. t.wallet \in {None, k} /\ \A r \in {t.srcReserve, t.dstReserve} \ {None} : r[1] = k
      BY DEF PendingOf
    <2>3. <<k, 1>>[1] = k /\ <<k, Legs(s)>>[1] = k
      OBVIOUS
    <2>4. u.wallet \in {None, k}
      BY <1>2, <2>1, <2>2
    <2>5. u.srcReserve # None => u.srcReserve[1] = k
      BY <1>2, <2>1, <2>2, <2>3
    <2>6. u.dstReserve # None => u.dstReserve[1] = k
      BY <1>2, <2>2, <2>3
    <2> QED  BY <2>4, <2>5, <2>6
  <1>10. u.orig = Ether(s)
    <2>1. CASE s.gen <= 2 /\ s.src = "token" /\ s.dst = "token"
      <3>1. kinds = Sees(handler, k) /\ "trade" \in kinds
        BY <1>4 DEF AllKnown
      <3>2. handler \in 1 .. 4
        BY AssemblyAssumption DEF JobTyped
      <3>3. s.gen = handler \/ s.gen = 3
        BY <1>1, <3>1 DEF Sees
      <3>4. handler <= 2
        BY <1>3, <2>1, <3>2, <3>3
      <3>5. "etherReceival" \in kinds
        BY <3>1, <3>4 DEF Sees
      <3>6. Event("etherReceival", k, 1) \in EventsFrom(k, kinds)
        <4>1. Emits(chain[k], "etherReceival") = 1
          BY <1>1, <2>1 DEF Emits
        <4> QED  BY <3>5, <4>1, KindsAre DEF EventsFrom, Event
      <3>7. PICK i \in 1 .. Len(Seen) : Seen[i] = Event("etherReceival", k, 1)
        BY <1>4, <3>6, SeenIs
      <3>8. Seen[i].kind = "etherReceival" /\ Seen[i].owner = k
        BY <3>7 DEF Event
      <3>9. PICK j \in C : t.eth = Ether(chain[Seen[j].owner])
        BY <3>8 DEF PendingOf
      <3>10. t.eth = Ether(s)
        BY <1>1, <3>9
      <3> QED  BY <1>2, <2>1, <3>10 DEF EthSide
    <2>2. CASE s.gen <= 2 /\ (s.src = "ETH" \/ s.dst = "ETH")
      BY <1>2, <2>2 DEF EthSide, Ether
    <2>3. CASE ~(s.gen <= 2)
      BY <1>2, <2>3
    <2> QED  BY <1>3, <2>1, <2>2, <2>3
  <1> QED  BY <1>1, <1>2, <1>4, <1>5, <1>7, <1>9, <1>10 DEF OwnTrade

(* What a trade log has of its trade does not change with the job.         *)
LEMMA JobStays ==
    ASSUME chain' = chain, handler' = handler
    PROVE  /\ JobTyped' = JobTyped /\ AllKnown' = AllKnown
           /\ \A t : OwnTrade(t)' = OwnTrade(t)
           /\ Seen' = Seen => \A t, C : PendingOf(t, C)' = PendingOf(t, C)
  <1>1. JobTyped' = JobTyped
    BY DEF JobTyped
  <1>2. AllKnown' = AllKnown
    BY DEF AllKnown, Sees
  <1>3. ASSUME NEW t
        PROVE  OwnTrade(t)' = OwnTrade(t)
    BY DEF OwnTrade, EventsOf, EventsOfKind, Emits, Legs, Sees, LengthBurnFees, SameTx, FirstOfTx, Ether
  <1>4. ASSUME Seen' = Seen, NEW t, NEW C
        PROVE  PendingOf(t, C)' = PendingOf(t, C)
    BY <1>4 DEF PendingOf, Ether, SeenEvent
  <1> QED  BY <1>1, <1>2, <1>3, <1>4

(* A fee event.                                                            *)
LEMMA CollectFeeKeeps ==
    ASSUME JobIsRight, CollectFee
    PROVE  JobIsRight'
  <1>1. /\ JobTyped /\ LogIsLeft /\ PendingIs /\ TradesAre /\ StatusIs
        /\ log # <<>> /\ status = "assembling" /\ Head(log).kind # "trade"
        /\ chain' = chain /\ handler' = handler /\ log' = Tail(log) /\ trades' = trades /\ status' = status
        /\ pending' = FillFee(pending, Head(log))
    BY DEF JobIsRight, CollectFee, Assembling
  <1>2. PICK n, C, e : n = Done + 1 /\ C = Current /\ e = Seen[n]
    OBVIOUS
  <1>3. /\ Seen' = Seen /\ LogIsLeft' /\ Done \in Nat /\ n \in 1 .. Len(Seen) /\ Done' = n
        /\ Head(log) = e /\ e.kind # "trade" /\ Current' = C \cup {n}
    BY <1>1, <1>2, NextEvent
  <1>4. C \in SUBSET (1 .. Len(Seen)) /\ Len(Seen) \in Nat
    BY <1>1, <1>2, <1>3, SeenIs DEF Current
  <1>5. JobTyped'
    BY <1>1, JobStays
  <1>6. PendingIs'
    <2>1. PICK u, D : u = FillFee(pending, e) /\ D = C \cup {n}
      OBVIOUS
    <2>2. PendingOf(u, D)
      BY <1>1, <1>2, <1>3, <1>4, <2>1, FeeIsCollected DEF PendingIs
    <2>3. PendingOf(u, D)'
      BY <1>1, <1>3, <2>2, JobStays
    <2>4. pending' = u /\ Current' = D
      BY <1>1, <1>3, <2>1
    <2> QED  BY <2>3, <2>4 DEF PendingIs
  <1>7. TradesAre'
    <2>1. 1 .. n = (1 .. Done) \cup {n}
      BY <1>2, <1>3
    <2>2. {l \in 1 .. n : Seen[l].kind = "trade"} = {l \in 1 .. Done : Seen[l].kind = "trade"}
      BY <1>2, <1>3, <2>1
    <2>3. /\ \E S : trades \in Seq(S)
          /\ {trades[i].trade : i \in DOMAIN trades} = {Seen[j].owner : j \in {l \in 1 .. Done : Seen[l].kind = "trade"}}
          /\ \A i, j \in DOMAIN trades : i < j => trades[i].trade < trades[j].trade
          /\ \A i \in DOMAIN trades : trades[i].trade \in DOMAIN chain /\ trades[i].version \in 1 .. 4
          /\ AllKnown => \A i \in DOMAIN trades : OwnTrade(trades[i])
      BY <1>1 DEF TradesAre
    <2>4. {trades[i].trade : i \in DOMAIN trades}' = {Seen[j].owner : j \in {l \in 1 .. Done : Seen[l].kind = "trade"}}'
      BY <1>1, <1>3, <2>2, <2>3
    <2>5. AllKnown' => \A i \in DOMAIN trades : OwnTrade(trades[i])'
      <3> SUFFICES ASSUME AllKnown, NEW i \in DOMAIN trades
                   PROVE  OwnTrade(trades[i])'
        BY <1>1, JobStays
      <3>1. PICK t : t = trades[i] /\ t = trades'[i]
        BY <1>1
      <3>2. OwnTrade(t)'
        BY <1>1, <2>3, <3>1, JobStays
      <3> QED  BY <3>1, <3>2
    <2> QED  BY <1>1, <2>3, <2>4, <2>5 DEF TradesAre
  <1>8. StatusIs'
    BY <1>1 DEF StatusIs
  <1> QED  BY <1>3, <1>5, <1>6, <1>7, <1>8 DEF JobIsRight

(* The event of a trade.                                                   *)
LEMMA AppendTradeKeeps ==
    ASSUME JobIsRight, AppendTrade
    PROVE  JobIsRight'
  <1>1. /\ JobTyped /\ LogIsLeft /\ PendingIs /\ TradesAre /\ StatusIs
        /\ log # <<>> /\ status = "assembling" /\ Head(log).kind = "trade"
        /\ chain' = chain /\ handler' = handler /\ log' = Tail(log) /\ status' = status
        /\ pending' = NoTrade
    BY DEF JobIsRight, AppendTrade, Assembling
  <1>2. PICK n, C, k : n = Done + 1 /\ C = Current /\ k = Seen[n].owner
    OBVIOUS
  <1>3. /\ Seen' = Seen /\ LogIsLeft' /\ Done \in Nat /\ n \in 1 .. Len(Seen) /\ Done' = n
        /\ Head(log) = Seen[n] /\ Seen[n].kind = "trade" /\ Current' = {}
    BY <1>1, <1>2, NextEvent
  <1>4. PICK callsProxy \in BOOLEAN : trades' = Append(trades, UpdateBasicInfo(Fill(pending, k), k, callsProxy))
    BY <1>2, <1>3 DEF AppendTrade
  <1>5. PICK u : u = UpdateBasicInfo(Fill(pending, k), k, callsProxy)
    OBVIOUS
  <1>6. C \in SUBSET (1 .. Len(Seen)) /\ Len(Seen) \in Nat /\ k \in DOMAIN chain /\ Done = n - 1
    BY <1>1, <1>2, <1>3, SeenIs DEF Current
  <1>7. JobTyped'
    BY <1>1, JobStays
  <1>8. PendingIs'
    <2>1. PendingOf(NoTrade, {})
      <3>1. NoTrade.fees = <<>> /\ NoTrade.version = None /\ NoTrade.wallet = None
            /\ NoTrade.srcReserve = None /\ NoTrade.dstReserve = None
        BY DEF NoTrade
      <3>2. ToSet(<<>>) = {} /\ <<>> \in Seq(SeenEvent)
        BY EmptySeq DEF ToSet
      <3> QED  BY <3>1, <3>2 DEF PendingOf
    <2>2. PICK u0, D : u0 = NoTrade /\ D = {}
      OBVIOUS
    <2>3. PendingOf(u0, D)'
      BY <1>1, <1>3, <2>1, <2>2, JobStays
    <2> QED  BY <1>1, <1>3, <2>2, <2>3 DEF PendingIs
  <1>9. u.trade = k /\ u.version \in 1 .. 4 /\ (AllKnown => OwnTrade(u))
    <2>1. u.trade = k /\ u.version \in 1 .. 4
      BY <1>1, <1>5, <1>6, TradeFields DEF PendingIs, PendingOf
    <2>2. AllKnown => OwnTrade(u)
      <3> SUFFICES ASSUME AllKnown
                   PROVE  OwnTrade(u)
        OBVIOUS
      <3>1. /\ \A i \in C : i \in 1 .. Len(Seen) /\ Seen[i].owner = k /\ Seen[i].kind # "trade"
            /\ \A i \in 1 .. Len(Seen) : Seen[i].owner = k /\ Seen[i].kind # "trade" => i \in C
        BY <1>1, <1>2, <1>3, <1>6, CurrentAre
      <3> QED  BY <1>1, <1>2, <1>5, <1>6, <3>1, TradeIsOwn DEF PendingIs
    <2> QED  BY <2>1, <2>2
  <1>10. TradesAre'
    <2>1. /\ {trades[i].trade : i \in DOMAIN trades} = {Seen[j].owner : j \in {l \in 1 .. Done : Seen[l].kind = "trade"}}
          /\ \A i, j \in DOMAIN trades : i < j => trades[i].trade < trades[j].trade
          /\ \A i \in DOMAIN trades : trades[i].trade \in DOMAIN chain /\ trades[i].version \in 1 .. 4
          /\ AllKnown => \A i \in DOMAIN trades : OwnTrade(trades[i])
      BY <1>1 DEF TradesAre
    <2>2. PICK S : trades \in Seq(S)
      BY <1>1 DEF TradesAre
    <2>3. PICK T : T = S \cup {u}
      OBVIOUS
    <2>4. trades \in Seq(T) /\ u \in T
      BY <2>2, <2>3, SeqMonotonic
    <2>5. PICK m : m = Len(trades)
      OBVIOUS
    <2>6. /\ trades' \in Seq(T) /\ m \in Nat /\ DOMAIN trades = 1 .. m /\ DOMAIN trades' = 1 .. (m + 1)
          /\ \A i \in 1 .. m : trades'[i] = trades[i]
          /\ trades'[m + 1] = u
      BY <1>4, <1>5, <2>4, <2>5, AppendSet
    <2>7. \A i \in 1 .. (m + 1) : i \in 1 .. m \/ i = m + 1
      BY <2>6
    <2>8. {trades'[i].trade : i \in DOMAIN trades'} = {trades[i].trade : i \in DOMAIN trades} \cup {k}
      <3>1. {trades'[i].trade : i \in 1 .. m} = {trades[i].trade : i \in 1 .. m}
        BY <2>6
      <3>2. 1 .. (m + 1) = (1 .. m) \cup {m + 1}
        BY <2>6
      <3>3. \A A : {trades'[i].trade : i \in A \cup {m + 1}} = {trades'[i].trade : i \in A} \cup {trades'[m + 1].trade}
        OBVIOUS
      <3> QED  BY <1>9, <2>6, <3>1, <3>2, <3>3
    <2>9. {Seen[j].owner : j \in {l \in 1 .. n : Seen[l].kind = "trade"}}
             = {Seen[j].owner : j \in {l \in 1 .. Done : Seen[l].kind = "trade"}} \cup {k}
      <3>1. 1 .. n = (1 .. Done) \cup {n}
        BY <1>2, <1>3
      <3>2. {l \in 1 .. n : Seen[l].kind = "trade"} = {l \in 1 .. Done : Seen[l].kind = "trade"} \cup {n}
        BY <1>3, <3>1
      <3>3. \A A : {Seen[j].owner : j \in A \cup {n}} = {Seen[j].owner : j \in A} \cup {Seen[n].owner}
        OBVIOUS
      <3> QED  BY <1>2, <3>2, <3>3
    <2>10. {trades[i].trade : i \in DOMAIN trades}' = {Seen[j].owner : j \in {l \in 1 .. Done : Seen[l].kind = "trade"}}'
      BY <1>3, <2>1, <2>8, <2>9
    <2>11. ASSUME NEW i \in DOMAIN trades', NEW j \in DOMAIN trades', i < j
           PROVE  trades'[i].trade < trades'[j].trade
      <3>1. i \in 1 .. m
        BY <2>6, <2>7, <2>11
      <3>2. CASE j \in 1 .. m
        BY <2>1, <2>6, <2>11, <3>1, <3>2
      <3>3. CASE j = m + 1
        <4>1. PICK l \in 1 .. Done : Seen[l].kind = "trade" /\ trades[i].trade = Seen[l].owner
          BY <2>1, <2>6, <3>1
        <4>2. l \in 1 .. Len(Seen) /\ l < n
          BY <1>3, <1>6, <4>1
        <4>3. Seen[l].owner < k
          BY <1>1, <1>2, <1>3, <4>1, <4>2, SeenIs
        <4> QED  BY <1>9, <2>6, <3>1, <3>3, <4>1, <4>3
      <3> QED  BY <2>6, <2>7, <3>2, <3>3
    <2>12. \A i \in DOMAIN trades' : trades'[i].trade \in DOMAIN chain' /\ trades'[i].version \in 1 .. 4
      BY <1>1, <1>6, <1>9, <2>1, <2>6, <2>7
    <2>13. AllKnown' => \A i \in DOMAIN trades' : OwnTrade(trades[i])'
      <3> SUFFICES ASSUME AllKnown, NEW i \in DOMAIN trades'
                   PROVE  OwnTrade(trades[i])'
        BY <1>1, JobStays
      <3>1. PICK t : t = trades'[i]
        OBVIOUS
      <3>2. OwnTrade(t)
        BY <1>9, <2>1, <2>6, <2>7, <3>1
      <3>3. OwnTrade(t)'
        BY <1>1, <3>2, JobStays
      <3> QED  BY <3>1, <3>3
    <2> QED  BY <2>6, <2>10, <2>11, <2>12, <2>13 DEF TradesAre
  <1>11. StatusIs'
    BY <1>1 DEF StatusIs
  <1> QED  BY <1>3, <1>7, <1>8, <1>10, <1>11 DEF JobIsRight

(* What a step leaves alone stays as it is.                                *)
LEMMA JobStands ==
    ASSUME JobIsRight, UNCHANGED <<chain, handler, log, pending, trades>>
    PROVE  JobTyped' /\ LogIsLeft' /\ PendingIs' /\ TradesAre'
  <1>1. /\ chain' = chain /\ handler' = handler /\ log' = log /\ pending' = pending /\ trades' = trades
        /\ JobTyped /\ LogIsLeft /\ PendingIs /\ TradesAre
    BY DEF JobIsRight
  <1>2. Seen' = Seen
    BY <1>1 DEF Seen, EventsOfAll, EventsOf, EventsOfKind, Emits, Legs, Sees
  <1>3. Done' = Done /\ Current' = Current /\ SeenEvent' = SeenEvent
    BY <1>1, <1>2 DEF Done, Current, SeenEvent
  <1>4. LogIsLeft'
    BY <1>1, <1>2, <1>3 DEF LogIsLeft
  <1>5. PendingIs'
    <2>1. PICK t, C : t = pending /\ C = Current
      OBVIOUS
    <2>2. PendingOf(t, C)'
      BY <1>1, <1>2, <2>1, JobStays DEF PendingIs
    <2> QED  BY <1>1, <1>3, <2>1, <2>2 DEF PendingIs
  <1>6. TradesAre'
    <2>1. /\ \E S : trades \in Seq(S)
          /\ {trades[i].trade : i \in DOMAIN trades} = {Seen[j].owner : j \in {l \in 1 .. Done : Seen[l].kind = "trade"}}
          /\ \A i, j \in DOMAIN trades : i < j => trades[i].trade < trades[j].trade
          /\ \A i \in DOMAIN trades : trades[i].trade \in DOMAIN chain /\ trades[i].version \in 1 .. 4
          /\ AllKnown => \A i \in DOMAIN trades : OwnTrade(trades[i])
      BY <1>1 DEF TradesAre
    <2>2. {trades[i].trade : i \in DOMAIN trades}' = {Seen[j].owner : j \in {l \in 1 .. Done : Seen[l].kind = "trade"}}'
      BY <1>1, <1>2, <1>3, <2>1
    <2>3. AllKnown' => \A i \in DOMAIN trades : OwnTrade(trades[i])'
      <3> SUFFICES ASSUME AllKnown, NEW i \in DOMAIN trades
                   PROVE  OwnTrade(trades[i])'
        BY <1>1, JobStays
      <3>1. PICK t : t = trades[i] /\ t = trades'[i]
        BY <1>1
      <3>2. OwnTrade(t)'
        BY <1>1, <2>1, <3>1, JobStays
      <3> QED  BY <3>1, <3>2
    <2> QED  BY <1>1, <2>1, <2>2, <2>3 DEF TradesAre
  <1>7. JobTyped'
    BY <1>1, JobStays
  <1> QED  BY <1>4, <1>5, <1>6, <1>7

(* The end of a job, well or not.                                          *)
LEMMA JobEndKeeps ==
    ASSUME JobIsRight, FetchFails \/ Return
    PROVE  JobIsRight'
  <1>1. /\ UNCHANGED <<chain, handler, log, pending, trades>>
        /\ status' \in {"ok", "failed"} /\ (status' = "ok" => log' = <<>>)
    BY DEF FetchFails, Return
  <1>2. JobTyped' /\ LogIsLeft' /\ PendingIs' /\ TradesAre'
    BY <1>1, JobStands
  <1> QED  BY <1>1, <1>2 DEF JobIsRight, StatusIs

(* A step of a job keeps what is so of it.                                 *)
LEMMA AssemblySteps ==
    ASSUME AssemblyInv, AssemblyNext \/ UNCHANGED assemblyVars
    PROVE  AssemblyInv'
  <1>1. CASE JobIsRight /\ AssemblyNext
    BY <1>1, CollectFeeKeeps, AppendTradeKeeps, JobEndKeeps DEF AssemblyNext, AssemblyInv
  <1>2. CASE NoJob /\ AssemblyNext
    BY <1>2 DEF NoJob, AssemblyNext, CollectFee, AppendTrade, FetchFails, Return, Assembling
  <1>3. CASE NoJob /\ UNCHANGED assemblyVars
    BY <1>3 DEF AssemblyInv, assemblyVars, NoJob, NoTrade
  <1>4. CASE JobIsRight /\ UNCHANGED assemblyVars
    <2>1. UNCHANGED <<chain, handler, log, pending, trades>> /\ status' = status
      BY <1>4 DEF assemblyVars
    <2>2. JobTyped' /\ LogIsLeft' /\ PendingIs' /\ TradesAre'
      BY <1>4, <2>1, JobStands
    <2>3. StatusIs'
      BY <1>4, <2>1 DEF JobIsRight, StatusIs
    <2> QED  BY <2>2, <2>3 DEF AssemblyInv, JobIsRight
  <1> QED  BY <1>1, <1>2, <1>3, <1>4 DEF AssemblyInv

(* The invariant is enough: trade logs have their types, are put together  *)
(* of their own parts, and are all there when the job succeeds.            *)
LEMMA AssemblyInvImplies ==
    ASSUME AssemblyInv
    PROVE  AssemblyTypeOK /\ OwnParts /\ AllAssembled /\ OriginalEthIsKept
  <1>1. CASE NoJob
    <2>1. DOMAIN trades = {} /\ DOMAIN chain = {} /\ pending = NoTrade /\ handler \in Handlers /\ status = "ok"
      BY <1>1, EmptySeq DEF NoJob
    <2>2. pending.version = None
      BY <2>1 DEF NoTrade
    <2> QED  BY <2>1, <2>2 DEF AssemblyTypeOK, OwnParts, AllAssembled, OriginalEthIsKept
  <1>2. CASE JobIsRight
    <2>1. JobTyped /\ LogIsLeft /\ PendingIs /\ TradesAre /\ StatusIs
      BY <1>2 DEF JobIsRight
    <2>2. /\ {trades[i].trade : i \in DOMAIN trades} = {Seen[j].owner : j \in {l \in 1 .. Done : Seen[l].kind = "trade"}}
          /\ \A i, j \in DOMAIN trades : i < j => trades[i].trade < trades[j].trade
          /\ \A i \in DOMAIN trades : trades[i].trade \in DOMAIN chain /\ trades[i].version \in 1 .. 4
          /\ AllKnown => \A i \in DOMAIN trades : OwnTrade(trades[i])
      BY <2>1 DEF TradesAre
    <2>3. AssemblyTypeOK
      BY <2>1, <2>2 DEF AssemblyTypeOK, JobTyped, StatusIs, PendingIs, PendingOf
    <2>4. status = "ok" => Done = Len(Seen)
      <3>1. status = "ok" => Len(log) = 0
        BY <2>1, EmptySeq DEF StatusIs
      <3> QED  BY <2>1, <3>1, SeenIs DEF Done
    <2>5. OwnParts
      <3>1. AllKnown /\ status = "ok" => pending = NoTrade
        BY <2>1, <2>4, NoneCurrent DEF PendingIs, PendingOf
      <3> QED  BY <2>2, <3>1 DEF OwnParts, OwnTrade
    <2>6. OriginalEthIsKept
      BY <2>2 DEF OriginalEthIsKept, OwnTrade
    <2>7. AllAssembled
      <3> SUFFICES ASSUME status = "ok"
                   PROVE  {trades[i].trade : i \in DOMAIN trades} = {k \in DOMAIN chain : "trade" \in Sees(handler, k)}
        BY <2>2 DEF AllAssembled
      <3>1. ASSUME NEW j \in 1 .. Len(Seen), Seen[j].kind = "trade"
            PROVE  Seen[j].owner \in DOMAIN chain /\ "trade" \in Sees(handler, Seen[j].owner)
        BY <2>1, <3>1, SeenIs DEF EventsFrom
      <3>2. ASSUME NEW k \in DOMAIN chain, "trade" \in Sees(handler, k)
            PROVE  \E j \in 1 .. Len(Seen) : Seen[j].kind = "trade" /\ Seen[j].owner = k
        <4>1. Event("trade", k, 1) \in EventsFrom(k, Sees(handler, k))
          BY <2>1, <3>2, SeenIs, EmitsFew, KindsAre DEF EventsFrom, Event
        <4>2. PICK j \in 1 .. Len(Seen) : Seen[j] = Event("trade", k, 1)
          BY <2>1, <4>1, SeenIs
        <4> QED  BY <4>2 DEF Event
      <3>3. \A k : k \in {Seen[j].owner : j \in {l \in 1 .. Len(Seen) : Seen[l].kind = "trade"}}
                  <=> k \in DOMAIN chain /\ "trade" \in Sees(handler, k)
        BY <3>1, <3>2
      <3> QED  BY <2>2, <2>4, <3>3
    <2> QED  BY <2>3, <2>5, <2>6, <2>7
  <1> QED  BY <1>1, <1>2 DEF AssemblyInv

-----------------------------------------------------------------------------
(* Reports.                                                                *)

(* The rows that the table may have.                                       *)
SaleRow(s, hr, first) == [s EXCEPT !.hour = hr, !.first = first]
SaleRows == {SaleRow(s, hr, first) : s \in Sales, hr \in 0 .. LastSaleHour, first \in BOOLEAN}

(* The first trade of a user is marked.                                    *)
SalesAre ==
    /\ sales \in Seq(SaleRows) /\ Len(sales) <= MaxSales
    /\ \A k \in DOMAIN sales : sales[k].first <=> \A j \in 1 .. (k - 1) : sales[j].user # sales[k].user

(* What the counts say of so many rows, which may be more by now.          *)
CountsFit(by, counts, rows) ==
    /\ counts.unique \in Nat /\ counts.unique <= Cardinality(rows)
    /\ by # "country" => /\ counts.new <= counts.unique
                         /\ counts.kyced \in Nat /\ counts.kyced <= Cardinality(rows)

QuestionIs ==
    /\ question.asked \in Questions \cup {NoQuestion}
    /\ DOMAIN question.counts \subseteq Int
    /\ Asking =>
          LET q == question.asked
              rows == RowsAbout(q.by, q.of, RowsOfDays(q.from, q.to, q.zone))
          IN  \A d \in DOMAIN question.counts :
                 d \in Days(rows, q.zone) /\ CountsFit(q.by, question.counts[d], OnDay(rows, d, q.zone))

ReportsInv == SalesAre /\ QuestionIs /\ DOMAIN report.days \subseteq Int /\ AnswersAreSound

(* A row is one of the trades that occur, at some hour.                    *)
LEMMA SaleRowIs ==
    ASSUME SalesAre
    PROVE  /\ Len(sales) \in Nat /\ DOMAIN sales = 1 .. Len(sales) /\ IsFiniteSet(DOMAIN sales)
           /\ \A k \in DOMAIN sales : /\ sales[k].hour \in 0 .. LastSaleHour /\ sales[k].hour \in Nat
                                      /\ sales[k].eth \in Nat /\ sales[k].fees \in Nat /\ sales[k].splits \in Nat \ {0}
  <1>1. Len(sales) \in Nat /\ DOMAIN sales = 1 .. Len(sales) /\ sales \in Seq(SaleRows)
    BY DEF SalesAre
  <1>2. IsFiniteSet(1 .. Len(sales))
    BY <1>1, FS_Interval
  <1>3. ASSUME NEW k \in DOMAIN sales
        PROVE  /\ sales[k].hour \in 0 .. LastSaleHour /\ sales[k].hour \in Nat
               /\ sales[k].eth \in Nat /\ sales[k].fees \in Nat /\ sales[k].splits \in Nat \ {0}
    <2>1. sales[k] \in SaleRows
      BY <1>1
    <2>2. PICK s \in Sales, hr \in 0 .. LastSaleHour, first \in BOOLEAN :
              sales[k] = SaleRow(s, hr, first)
      BY <2>1 DEF SaleRows
    <2>3. /\ {"user", "eth", "fees", "splits", "hour", "first"} \subseteq DOMAIN s
          /\ s.eth \in Nat /\ s.fees \in Nat /\ s.splits \in Nat \ {0} /\ LastSaleHour \in Nat
      BY ReportsAssumption
    <2> QED  BY <2>2, <2>3 DEF SaleRow
  <1> QED  BY <1>1, <1>2, <1>3

(* The start of the day of an hour, by the database and by the program, is *)
(* the same, and other hours are of this day if they are after it and      *)
(* before the next one.                                                    *)
LEMMA DateTruncIs ==
    ASSUME NEW h \in Int, NEW zone \in Int
    PROVE  LET d == DateTrunc(h, zone) IN
           /\ d \in Int /\ RoundTime(h, zone) = d /\ d <= h /\ h < d + DayHours
           /\ \A g \in Int : /\ d <= g <=> d <= DateTrunc(g, zone)
                             /\ g < d + DayHours <=> DateTrunc(g, zone) <= d
  <1> DEFINE n == DayHours
             x == h + zone
             q == x \div n
  <1>1. n \in Nat /\ n > 0
    BY ReportsAssumption
  <1>2. ASSUME NEW y \in Int
        PROVE  /\ y \div n \in Int /\ n * (y \div n) <= y /\ y < n * (y \div n) + n /\ (y \div n) * n = n * (y \div n)
               /\ y % n = y - n * (y \div n)
    <2> HIDE DEF n
    <2>1. y \div n \in Int /\ n * (y \div n) <= y /\ y < n * ((y \div n) + 1) /\ y = n * (y \div n) + (y % n)
      BY <1>1, Z3
    <2>2. PICK p : p = y \div n
      OBVIOUS
    <2>3. n * (p + 1) = n * p + n /\ n * p = p * n /\ n * p \in Int
      BY <1>1, <2>1, <2>2, Z3
    <2>4. y % n \in Int
      BY <1>1
    <2> QED  BY <1>1, <2>1, <2>2, <2>3, <2>4
  <1>3. ASSUME NEW a \in Int, NEW b \in Int
        PROVE  /\ a <= b <=> n * a <= n * b
               /\ a < b <=> n * a + n <= n * b
               /\ n * a \in Int /\ n * b \in Int
    <2> HIDE DEF n
    <2> QED  BY <1>1, Z3
  <1>4. PICK d : d = DateTrunc(h, zone)
    OBVIOUS
  <1>5. d = n * q - zone /\ q \in Int /\ n * q \in Int /\ n * q <= x /\ x < n * q + n /\ x % n = x - n * q
    <2>1. x \in Int
      OBVIOUS
    <2> HIDE DEF x, n
    <2> QED  BY <1>2, <1>3, <1>4, <2>1 DEF DateTrunc, x, n
  <1>6. d \in Int /\ RoundTime(h, zone) = d /\ d <= h /\ h < d + n
    <2>1. RoundTime(h, zone) = h - (x % n)
      BY DEF RoundTime
    <2> HIDE DEF n, q
    <2>2. PICK m : m = n * q
      OBVIOUS
    <2> QED  BY <1>1, <1>5, <2>1, <2>2
  <1>7. ASSUME NEW g \in Int
        PROVE  /\ d <= g <=> d <= DateTrunc(g, zone)
               /\ g < d + n <=> DateTrunc(g, zone) <= d
    <2> DEFINE y == g + zone
               p == y \div n
    <2>1. DateTrunc(g, zone) = n * p - zone /\ p \in Int /\ n * p \in Int /\ n * p <= y /\ y < n * p + n
      <3>1. y \in Int
        OBVIOUS
      <3> HIDE DEF y, n
      <3> QED  BY <1>2, <1>3, <3>1 DEF DateTrunc, y, n
    <2> HIDE DEF n, q, p
    <2>2. PICK m, l : m = n * q /\ l = n * p
      OBVIOUS
    <2>3. (q <= p <=> m <= l) /\ (p <= q <=> l <= m) /\ (p < q <=> l + n <= m) /\ (q < p <=> m + n <= l)
      BY <1>3, <1>5, <2>1, <2>2
    <2>4. (q <= p \/ p < q) /\ (p <= q \/ q < p)
      BY <1>5, <2>1
    <2> QED  BY <1>1, <1>5, <2>1, <2>2, <2>3, <2>4
  <1> QED  BY <1>4, <1>6, <1>7

(* The ether amounts of the rows.                                          *)
Ethers == [k \in DOMAIN sales |-> sales[k].eth]

(* The ether amount of some rows is a sum.                                 *)
LEMMA EthIs ==
    ASSUME NEW rows \in SUBSET DOMAIN sales, IsFiniteSet(rows)
    PROVE  Eth(rows) = SumOf(Ethers, rows)
  <1> DEFINE It(iter) == iter = [s \in SUBSET rows |->
                            IF s = {} THEN 0 ELSE LET x == CHOOSE x \in s : TRUE IN sales[x].eth + iter[s \ {x}]]
             it == CHOOSE iter : It(iter)
  <1>1. Eth(rows) = it[rows]
    BY DEF Eth, MapThenSumSet, MapThenFoldSet
  <1>2. \A iter : Sums(iter, Ethers, rows) <=> It(iter)
    <2> SUFFICES ASSUME NEW iter
                 PROVE  Sums(iter, Ethers, rows) <=> It(iter)
      OBVIOUS
    <2> DEFINE Elem(s) == CHOOSE x \in s : TRUE
               f == [s \in SUBSET rows |-> IF s = {} THEN 0 ELSE Ethers[Elem(s)] + iter[s \ {Elem(s)}]]
               g == [s \in SUBSET rows |-> IF s = {} THEN 0 ELSE sales[Elem(s)].eth + iter[s \ {Elem(s)}]]
    <2>1. \A s \in SUBSET rows : s # {} => Ethers[Elem(s)] = sales[Elem(s)].eth
      <3> SUFFICES ASSUME NEW s \in SUBSET rows, s # {}
                   PROVE  Ethers[Elem(s)] = sales[Elem(s)].eth
        OBVIOUS
      <3>1. Elem(s) \in s
        OBVIOUS
      <3> HIDE DEF Elem
      <3> QED  BY <3>1 DEF Ethers
    <2>2. f = g
      <3> HIDE DEF Elem
      <3> QED  BY <2>1
    <2>3. (Sums(iter, Ethers, rows) <=> iter = f) /\ (It(iter) <=> iter = g)
      BY DEF Sums
    <2> HIDE DEF f, g, It
    <2> QED  BY <2>2, <2>3
  <1>3. \E iter : Sums(iter, Ethers, rows)
    BY SumsExist
  <1>4. Sums(it, Ethers, rows)
    <2> HIDE DEF It
    <2> QED  BY <1>2, <1>3
  <1>5. SumOf(Ethers, rows) = it[rows]
    <2> HIDE DEF it
    <2> QED  BY <1>4, SumOfIs
  <1> QED  BY <1>1, <1>5

(* How often rows are counted.                                             *)
LEMMA RepeatedAre ==
    ASSUME NEW by, NEW T, IsFiniteSet(T), NEW f, \A x \in T : f[x] = Repeated(by, x)
    PROVE  MapThenSumSet(LAMBDA k : Repeated(by, k), T) = SumOf(f, T)
  <1> DEFINE Elem(s) == CHOOSE x \in s : TRUE
             It(iter) == iter = [s \in SUBSET T |->
                            IF s = {} THEN 0 ELSE LET x == CHOOSE x \in s : TRUE IN Repeated(by, x) + iter[s \ {x}]]
             it == CHOOSE iter : It(iter)
  <1>1. MapThenSumSet(LAMBDA k : Repeated(by, k), T) = it[T]
    BY DEF MapThenSumSet, MapThenFoldSet
  <1>2. ASSUME NEW iter
        PROVE  Sums(iter, f, T) <=> It(iter)
    <2> DEFINE g == [s \in SUBSET T |-> IF s = {} THEN 0 ELSE f[Elem(s)] + iter[s \ {Elem(s)}]]
               h == [s \in SUBSET T |-> IF s = {} THEN 0 ELSE Repeated(by, Elem(s)) + iter[s \ {Elem(s)}]]
    <2>1. ASSUME NEW s \in SUBSET T, s # {}
          PROVE  f[Elem(s)] = Repeated(by, Elem(s))
      <3>1. Elem(s) \in T
        BY <2>1
      <3> HIDE DEF Elem
      <3> QED  BY <3>1
    <2>2. g = h
      <3> HIDE DEF Elem
      <3> QED  BY <2>1
    <2>3. (Sums(iter, f, T) <=> iter = g) /\ (It(iter) <=> iter = h)
      BY DEF Sums
    <2> HIDE DEF g, h, It
    <2> QED  BY <2>2, <2>3
  <1>3. Sums(it, f, T)
    <2> HIDE DEF It
    <2> QED  BY <1>2, SumsExist
  <1>4. SumOf(f, T) = it[T]
    <2> HIDE DEF it
    <2> QED  BY <1>3, SumOfIs
  <1> QED  BY <1>1, <1>4

(* The volumes of tokens are added up.                                     *)
LEMMA AssetVolumesAre ==
    ASSUME NEW rows, NEW T, IsFiniteSet(T), NEW f, \A x \in T : f[x] = AssetVolume(x, rows)
    PROVE  MapThenSumSet(LAMBDA t : AssetVolume(t, rows), T) = SumOf(f, T)
  <1> DEFINE Elem(s) == CHOOSE x \in s : TRUE
             It(iter) == iter = [s \in SUBSET T |->
                            IF s = {} THEN 0 ELSE LET x == CHOOSE x \in s : TRUE IN AssetVolume(x, rows) + iter[s \ {x}]]
             it == CHOOSE iter : It(iter)
  <1>1. MapThenSumSet(LAMBDA t : AssetVolume(t, rows), T) = it[T]
    BY DEF MapThenSumSet, MapThenFoldSet
  <1>2. ASSUME NEW iter
        PROVE  Sums(iter, f, T) <=> It(iter)
    <2> DEFINE g == [s \in SUBSET T |-> IF s = {} THEN 0 ELSE f[Elem(s)] + iter[s \ {Elem(s)}]]
               h == [s \in SUBSET T |-> IF s = {} THEN 0 ELSE AssetVolume(Elem(s), rows) + iter[s \ {Elem(s)}]]
    <2>1. ASSUME NEW s \in SUBSET T, s # {}
          PROVE  f[Elem(s)] = AssetVolume(Elem(s), rows)
      <3>1. Elem(s) \in T
        BY <2>1
      <3> HIDE DEF Elem
      <3> QED  BY <3>1
    <2>2. g = h
      <3> HIDE DEF Elem
      <3> QED  BY <2>1
    <2>3. (Sums(iter, f, T) <=> iter = g) /\ (It(iter) <=> iter = h)
      BY DEF Sums
    <2> HIDE DEF g, h, It
    <2> QED  BY <2>2, <2>3
  <1>3. Sums(it, f, T)
    <2> HIDE DEF It
    <2> QED  BY <1>2, SumsExist
  <1>4. SumOf(f, T) = it[T]
    <2> HIDE DEF it
    <2> QED  BY <1>3, SumOfIs
  <1> QED  BY <1>1, <1>4

(* The volumes of users are added up.                                      *)
LEMMA UserVolumesAre ==
    ASSUME NEW day, NEW T, IsFiniteSet(T), NEW f, \A x \in T : f[x] = UserVolume(x, day, 0)
    PROVE  MapThenSumSet(LAMBDA u : UserVolume(u, day, 0), T) = SumOf(f, T)
  <1> DEFINE Elem(s) == CHOOSE x \in s : TRUE
             It(iter) == iter = [s \in SUBSET T |->
                            IF s = {} THEN 0 ELSE LET x == CHOOSE x \in s : TRUE IN UserVolume(x, day, 0) + iter[s \ {x}]]
             it == CHOOSE iter : It(iter)
  <1>1. MapThenSumSet(LAMBDA u : UserVolume(u, day, 0), T) = it[T]
    BY DEF MapThenSumSet, MapThenFoldSet
  <1>2. ASSUME NEW iter
        PROVE  Sums(iter, f, T) <=> It(iter)
    <2> DEFINE g == [s \in SUBSET T |-> IF s = {} THEN 0 ELSE f[Elem(s)] + iter[s \ {Elem(s)}]]
               h == [s \in SUBSET T |-> IF s = {} THEN 0 ELSE UserVolume(Elem(s), day, 0) + iter[s \ {Elem(s)}]]
    <2>1. ASSUME NEW s \in SUBSET T, s # {}
          PROVE  f[Elem(s)] = UserVolume(Elem(s), day, 0)
      <3>1. Elem(s) \in T
        BY <2>1
      <3> HIDE DEF Elem
      <3> QED  BY <3>1
    <2>2. g = h
      <3> HIDE DEF Elem
      <3> QED  BY <2>1
    <2>3. (Sums(iter, f, T) <=> iter = g) /\ (It(iter) <=> iter = h)
      BY DEF Sums
    <2> HIDE DEF g, h, It
    <2> QED  BY <2>2, <2>3
  <1>3. Sums(it, f, T)
    <2> HIDE DEF It
    <2> QED  BY <1>2, SumsExist
  <1>4. SumOf(f, T) = it[T]
    <2> HIDE DEF it
    <2> QED  BY <1>3, SumOfIs
  <1> QED  BY <1>1, <1>4

(* The volumes of a map are added up.                                      *)
LEMMA MapVolumesAre ==
    ASSUME NEW map, NEW T, IsFiniteSet(T), NEW f, \A x \in T : f[x] = map[x]
    PROVE  MapThenSumSet(LAMBDA c : map[c], T) = SumOf(f, T)
  <1> DEFINE Elem(s) == CHOOSE x \in s : TRUE
             It(iter) == iter = [s \in SUBSET T |->
                            IF s = {} THEN 0 ELSE LET x == CHOOSE x \in s : TRUE IN map[x] + iter[s \ {x}]]
             it == CHOOSE iter : It(iter)
  <1>1. MapThenSumSet(LAMBDA c : map[c], T) = it[T]
    BY DEF MapThenSumSet, MapThenFoldSet
  <1>2. ASSUME NEW iter
        PROVE  Sums(iter, f, T) <=> It(iter)
    <2> DEFINE g == [s \in SUBSET T |-> IF s = {} THEN 0 ELSE f[Elem(s)] + iter[s \ {Elem(s)}]]
               h == [s \in SUBSET T |-> IF s = {} THEN 0 ELSE map[Elem(s)] + iter[s \ {Elem(s)}]]
    <2>1. ASSUME NEW s \in SUBSET T, s # {}
          PROVE  f[Elem(s)] = map[Elem(s)]
      <3>1. Elem(s) \in T
        BY <2>1
      <3> HIDE DEF Elem
      <3> QED  BY <3>1
    <2>2. g = h
      <3> HIDE DEF Elem
      <3> QED  BY <2>1
    <2>3. (Sums(iter, f, T) <=> iter = g) /\ (It(iter) <=> iter = h)
      BY DEF Sums
    <2> HIDE DEF g, h, It
    <2> QED  BY <2>2, <2>3
  <1>3. Sums(it, f, T)
    <2> HIDE DEF It
    <2> QED  BY <1>2, SumsExist
  <1>4. SumOf(f, T) = it[T]
    <2> HIDE DEF it
    <2> QED  BY <1>3, SumOfIs
  <1> QED  BY <1>1, <1>4

(* Users are no more than their trades, and users with their first trade   *)
(* among them no more than users.                                          *)
LEMMA CountsAre ==
    ASSUME SalesAre, NEW rows \in SUBSET DOMAIN sales, NEW by
    PROVE  CountsFit(by, CountsOf(by, rows), rows)
  <1> DEFINE user == [k \in DOMAIN sales |-> sales[k].user]
             users == {user[k] : k \in rows}
             firsts == {k \in rows : sales[k].first}
             kyced == {k \in rows : sales[k].kyced}
             c == CountsOf(by, rows)
  <1>1. IsFiniteSet(rows) /\ IsFiniteSet(firsts) /\ IsFiniteSet(kyced)
    BY SaleRowIs, FS_Subset
  <1>2. users = {sales[k].user : k \in rows}
    OBVIOUS
  <1>3. IsFiniteSet(users) /\ Cardinality(users) \in Nat /\ Cardinality(rows) \in Nat /\ Cardinality(users) <= Cardinality(rows)
    <2> HIDE DEF user
    <2> QED  BY <1>1, ValuesAreCounted
  <1>4. c.unique = Cardinality(users)
    BY <1>2 DEF CountsOf
  <1>5. ASSUME by # "country"
        PROVE  c.new <= c.unique /\ c.kyced \in Nat /\ c.kyced <= Cardinality(rows)
    <2> DEFINE one == [k \in DOMAIN sales |-> 1]
    <2>1. \A k : Repeated(by, k) = 1
      BY <1>5 DEF Repeated
    <2>2. \A T \in {firsts, kyced} : MapThenSumSet(LAMBDA k : Repeated(by, k), T) = Cardinality(T)
      <3> SUFFICES ASSUME NEW T \in {firsts, kyced}
                   PROVE  MapThenSumSet(LAMBDA k : Repeated(by, k), T) = Cardinality(T)
        OBVIOUS
      <3>1. IsFiniteSet(T) /\ \A k \in T : one[k] = 1 /\ one[k] = Repeated(by, k)
        BY <1>1, <2>1
      <3> HIDE DEF one, firsts, kyced
      <3>2. MapThenSumSet(LAMBDA k : Repeated(by, k), T) = SumOf(one, T)
        BY <3>1, RepeatedAre
      <3> QED  BY <3>1, <3>2, SumOfOnes
    <2>3. c.new = Cardinality(firsts) /\ c.kyced = Cardinality(kyced)
      <3>1. c.new = MapThenSumSet(LAMBDA k : Repeated(by, k), firsts)
        BY DEF CountsOf
      <3>2. c.kyced = MapThenSumSet(LAMBDA k : Repeated(by, k), kyced)
        BY DEF CountsOf
      <3> HIDE DEF c, firsts, kyced
      <3> QED  BY <2>2, <3>1, <3>2
    <2>4. Cardinality(kyced) \in Nat /\ Cardinality(kyced) <= Cardinality(rows)
      BY <1>1, FS_Subset, FS_CardinalityType
    <2>5. Cardinality(firsts) <= Cardinality(users)
      <3> DEFINE firstUsers == {user[k] : k \in firsts}
      <3>1. \A j, k \in firsts : user[j] = user[k] => j = k
        <4> SUFFICES ASSUME NEW j \in firsts, NEW k \in firsts, user[j] = user[k], j # k
                     PROVE  FALSE
          OBVIOUS
        <4>1. j \in Nat /\ k \in Nat /\ j \in DOMAIN sales /\ k \in DOMAIN sales
          BY SaleRowIs
        <4>2. sales[j].first /\ sales[k].first /\ sales[j].user = sales[k].user
          BY <4>1
        <4>3. \A i \in 1 .. (j - 1) : sales[i].user # sales[j].user
          BY <4>1, <4>2 DEF SalesAre
        <4>4. \A i \in 1 .. (k - 1) : sales[i].user # sales[k].user
          BY <4>1, <4>2 DEF SalesAre
        <4>5. j \in 1 .. (k - 1) \/ k \in 1 .. (j - 1)
          BY <4>1, SaleRowIs
        <4> QED  BY <4>2, <4>3, <4>4, <4>5
      <3> HIDE DEF user
      <3>2. Cardinality(firstUsers) = Cardinality(firsts)
        BY <1>1, <3>1, ValuesAreCounted
      <3>3. firstUsers \in SUBSET users
        OBVIOUS
      <3> QED  BY <1>3, <3>2, <3>3, FS_Subset
    <2> HIDE DEF c, firsts, kyced, users
    <2> QED  BY <1>4, <2>3, <2>4, <2>5
  <1> QED  BY <1>3, <1>4, <1>5 DEF CountsFit

(* Counts that fit so many rows fit more.                                  *)
LEMMA CountsFitMore ==
    ASSUME NEW more, IsFiniteSet(more), NEW rows \in SUBSET more, NEW by, NEW c, CountsFit(by, c, rows)
    PROVE  CountsFit(by, c, more)
  <1>1. /\ IsFiniteSet(rows) /\ Cardinality(rows) <= Cardinality(more)
        /\ Cardinality(rows) \in Nat /\ Cardinality(more) \in Nat
    BY FS_Subset, FS_CardinalityType
  <1> QED  BY <1>1 DEF CountsFit

(* The table is empty at first, and no report is asked for.                *)
LEMMA ReportsStarts == ReportsInit => ReportsInv
  <1> SUFFICES ASSUME ReportsInit
               PROVE  ReportsInv
    OBVIOUS
  <1>1. sales = <<>> /\ DOMAIN question.counts = {} /\ DOMAIN report.days = {} /\ question.asked = NoQuestion
    BY DEF ReportsInit
  <1>2. SalesAre
    BY <1>1, ReportsAssumption DEF SalesAre
  <1>3. QuestionIs /\ AnswersAreSound
    BY <1>1 DEF QuestionIs, Asking, AnswersAreSound
  <1> QED  BY <1>1, <1>2, <1>3 DEF ReportsInv

(* The rows that a report is about, and those of one of its days.          *)
AskedRows(q) == RowsAbout(q.by, q.of, RowsOfDays(q.from, q.to, q.zone))

(* They are some of the rows, on some days.                                *)
LEMMA AskedRowsAre ==
    ASSUME SalesAre, NEW q \in Questions
    PROVE  /\ AskedRows(q) \in SUBSET DOMAIN sales /\ Days(AskedRows(q), q.zone) \subseteq Int
           /\ \A d : OnDay(AskedRows(q), d, q.zone) \in SUBSET DOMAIN sales /\ IsFiniteSet(OnDay(AskedRows(q), d, q.zone))
  <1>1. AskedRows(q) \in SUBSET DOMAIN sales
    BY DEF AskedRows, RowsAbout, RowsOfDays
  <1>2. \A d : OnDay(AskedRows(q), d, q.zone) \in SUBSET DOMAIN sales
    BY <1>1 DEF OnDay
  <1>3. \A d : IsFiniteSet(OnDay(AskedRows(q), d, q.zone))
    BY <1>2, SaleRowIs, FS_Subset
  <1>4. Days(AskedRows(q), q.zone) \subseteq Int
    <2>1. q.zone \in Int
      BY ReportsAssumption
    <2>2. \A k \in AskedRows(q) : DateTrunc(sales[k].hour, q.zone) \in Int
      <3>1. \A k \in AskedRows(q) : sales[k].hour \in Int
        BY <1>1, SaleRowIs
      <3> QED  BY <2>1, <3>1, DateTruncIs
    <2> QED  BY <2>2 DEF Days
  <1> QED  BY <1>1, <1>2, <1>3, <1>4

(* A trade is stored: the rows before it stay.                             *)
LEMMA StoreSaleKeeps ==
    ASSUME ReportsInv, NEW s \in Sales, NEW hr \in LastSale .. LastSaleHour, StoreSale(s, hr)
    PROVE  ReportsInv'
  <1>0. SalesAre /\ QuestionIs /\ AnswersAreSound /\ DOMAIN report.days \subseteq Int
    BY DEF ReportsInv
  <1> DEFINE n == Len(sales)
             first == \A k \in DOMAIN sales : sales[k].user # s.user
             row == SaleRow(s, hr, first)
  <1>1. n < MaxSales /\ sales' = Append(sales, row) /\ UNCHANGED <<question, report>>
    BY DEF StoreSale, SaleRow
  <1>2. sales \in Seq(SaleRows) /\ n \in Nat /\ DOMAIN sales = 1 .. n /\ MaxSales \in Nat
    BY <1>0, ReportsAssumption DEF SalesAre
  <1>3. hr \in 0 .. LastSaleHour
    <2>1. LastSale \in Nat
      <3>1. CASE sales = <<>>
        BY <3>1 DEF LastSale
      <3>2. CASE sales # <<>>
        <4>1. n \in 1 .. n /\ Last(sales) = sales[n]
          BY <1>2, <3>2 DEF Last
        <4> QED  BY <1>0, <1>2, <3>2, <4>1, SaleRowIs DEF LastSale
      <3> QED  BY <3>1, <3>2
    <2> QED  BY <2>1, ReportsAssumption
  <1>4. row \in SaleRows
    <2>1. first \in BOOLEAN
      OBVIOUS
    <2> HIDE DEF first
    <2> QED  BY <1>3, <2>1 DEF SaleRows
  <1>5. row.first <=> first
    <2>1. {"user", "hour", "first"} \subseteq DOMAIN s
      BY ReportsAssumption
    <2> HIDE DEF first
    <2> QED  BY <2>1 DEF SaleRow
  <1>6. row.user = s.user
    <2>1. {"user", "hour", "first"} \subseteq DOMAIN s
      BY ReportsAssumption
    <2> HIDE DEF first
    <2> QED  BY <2>1 DEF SaleRow
  <1> HIDE DEF row, n
  <1>7. /\ sales' \in Seq(SaleRows) /\ Len(sales') = n + 1 /\ DOMAIN sales' = 1 .. (n + 1)
        /\ \A k \in 1 .. n : sales'[k] = sales[k]
        /\ sales'[n + 1] = row
    BY <1>1, <1>2, <1>4, AppendSet DEF n
  <1>8. SalesAre'
    <2>1. Len(sales') <= MaxSales
      BY <1>1, <1>2, <1>7
    <2>2. ASSUME NEW k \in 1 .. (n + 1)
          PROVE  sales'[k].first <=> \A j \in 1 .. (k - 1) : sales'[j].user # sales'[k].user
      <3>1. CASE k \in 1 .. n
        <4>1. \A j \in 1 .. (k - 1) : j \in 1 .. n
          BY <1>2, <3>1
        <4>2. sales[k].first <=> \A j \in 1 .. (k - 1) : sales[j].user # sales[k].user
          BY <1>0, <1>2, <3>1 DEF SalesAre
        <4> QED  BY <1>7, <3>1, <4>1, <4>2
      <3>2. CASE k = n + 1
        <4>1. (k - 1) = n
          BY <1>2, <3>2
        <4>2. sales'[k].first <=> \A j \in 1 .. n : sales[j].user # s.user
          BY <1>2, <1>5, <1>7, <3>2
        <4> QED  BY <1>6, <1>7, <3>2, <4>1, <4>2
      <3> QED  BY <1>2, <3>1, <3>2
    <2> QED  BY <1>7, <2>1, <2>2 DEF SalesAre
  <1>9. QuestionIs'
    <2>1. question' = question /\ question.asked \in Questions \cup {NoQuestion} /\ DOMAIN question.counts \subseteq Int
      BY <1>0, <1>1 DEF QuestionIs
    <2>0. PICK q : q = question.asked
      OBVIOUS
    <2>2. ASSUME Asking, NEW d \in DOMAIN question.counts
          PROVE  d \in Days(AskedRows(q), q.zone)' /\ CountsFit(q.by, question.counts[d], OnDay(AskedRows(q), d, q.zone)')
      <3>2. /\ q \in Questions
            /\ d \in Days(AskedRows(q), q.zone) /\ CountsFit(q.by, question.counts[d], OnDay(AskedRows(q), d, q.zone))
        BY <1>0, <2>0, <2>1, <2>2 DEF QuestionIs, AskedRows, Asking
      <3>3. AskedRows(q) \subseteq AskedRows(q)' /\ AskedRows(q) \subseteq 1 .. n /\ AskedRows(q)' \subseteq DOMAIN sales'
        <4>1. \A k \in 1 .. n : k \in 1 .. (n + 1)
          BY <1>2
        <4>2. RowsOfDays(q.from, q.to, q.zone) \subseteq RowsOfDays(q.from, q.to, q.zone)'
          BY <1>2, <1>7, <4>1 DEF RowsOfDays, RoundTime
        <4>3. RowsOfDays(q.from, q.to, q.zone) \subseteq 1 .. n /\ RowsOfDays(q.from, q.to, q.zone)' \subseteq DOMAIN sales'
          BY <1>2 DEF RowsOfDays
        <4> QED  BY <1>7, <4>2, <4>3 DEF AskedRows, RowsAbout
      <3>4. d \in Days(AskedRows(q), q.zone)'
        BY <1>7, <3>2, <3>3 DEF Days, DateTrunc
      <3>5. OnDay(AskedRows(q), d, q.zone) \in SUBSET OnDay(AskedRows(q), d, q.zone)' /\ OnDay(AskedRows(q), d, q.zone)' \subseteq DOMAIN sales'
        BY <1>7, <3>3 DEF OnDay, DateTrunc
      <3>6. IsFiniteSet(OnDay(AskedRows(q), d, q.zone)')
        <4>1. IsFiniteSet(1 .. (n + 1))
          BY <1>2, FS_Interval
        <4> QED  BY <1>7, <3>5, <4>1, FS_Subset
      <3>7. CountsFit(q.by, question.counts[d], OnDay(AskedRows(q), d, q.zone)')
        BY <3>2, <3>5, <3>6, CountsFitMore
      <3> QED  BY <3>4, <3>7
    <2>3. Asking' <=> Asking
      BY <2>1 DEF Asking
    <2> QED  BY <2>0, <2>1, <2>2, <2>3 DEF QuestionIs, AskedRows
  <1>10. AnswersAreSound' /\ DOMAIN report'.days \subseteq Int
    BY <1>0, <1>1 DEF AnswersAreSound
  <1> QED  BY <1>8, <1>9, <1>10 DEF ReportsInv

(* The first query: its counts fit the rows that it reads.                 *)
LEMMA AskCountsKeeps ==
    ASSUME ReportsInv, NEW q \in Questions, AskCounts(q)
    PROVE  ReportsInv'
  <1>0. SalesAre /\ QuestionIs /\ AnswersAreSound /\ DOMAIN report.days \subseteq Int /\ sales' = sales
    BY DEF ReportsInv, AskCounts
  <1>1. SalesAre'
    BY <1>0 DEF SalesAre
  <1>2. CASE Counts(q) = <<>>
    <2>1. question' = question /\ report'.days = <<>>
      BY <1>2 DEF AskCounts
    <2>2. QuestionIs'
      BY <1>0, <2>1 DEF QuestionIs, RowsAbout, RowsOfDays, Days, OnDay, Asking, CountsFit
    <2> QED  BY <1>1, <2>1, <2>2 DEF ReportsInv, AnswersAreSound
  <1>3. CASE Counts(q) # <<>>
    <2>1. question'.asked = q /\ question'.counts = Counts(q) /\ report' = report
      BY <1>3 DEF AskCounts
    <2>2. DOMAIN Counts(q) = Days(AskedRows(q), q.zone)
          /\ \A d \in DOMAIN Counts(q) : Counts(q)[d] = CountsOf(q.by, OnDay(AskedRows(q), d, q.zone))
      BY DEF Counts, AskedRows
    <2>3. \A d \in DOMAIN Counts(q) : CountsFit(q.by, Counts(q)[d], OnDay(AskedRows(q), d, q.zone))
      BY <1>0, <2>2, AskedRowsAre, CountsAre
    <2>4. DOMAIN Counts(q) \subseteq Int
      BY <1>0, <2>2, AskedRowsAre
    <2>5. /\ AskedRows(q)' = AskedRows(q) /\ Days(AskedRows(q), q.zone)' = Days(AskedRows(q), q.zone)
          /\ \A d : OnDay(AskedRows(q), d, q.zone)' = OnDay(AskedRows(q), d, q.zone)
      <3>1. AskedRows(q)' = AskedRows(q)
        BY <1>0 DEF AskedRows, RowsAbout, RowsOfDays
      <3> QED  BY <1>0, <3>1 DEF Days, OnDay
    <2>6. \A d \in DOMAIN question'.counts :
              d \in Days(AskedRows(q), q.zone)' /\ CountsFit(q.by, question'.counts[d], OnDay(AskedRows(q), d, q.zone)')
      <3> HIDE DEF AskedRows
      <3> QED  BY <2>1, <2>2, <2>3, <2>5
    <2>7. QuestionIs'
      BY <2>1, <2>4, <2>6 DEF QuestionIs, AskedRows
    <2> QED  BY <1>0, <1>1, <2>1, <2>7 DEF ReportsInv, AnswersAreSound
  <1> QED  BY <1>2, <1>3

(* The second query: there are as many rows as before at least.            *)
LEMMA AskVolumesKeeps ==
    ASSUME ReportsInv, AskVolumes
    PROVE  ReportsInv'
  <1>0. SalesAre /\ QuestionIs /\ sales' = sales /\ Asking
    BY DEF ReportsInv, AskVolumes
  <1>1. SalesAre'
    BY <1>0 DEF SalesAre
  <1>2. PICK q : q = question.asked
    OBVIOUS
  <1> DEFINE none == [total |-> 0, eth |-> 0]
             volumes(d) == IF d \in DOMAIN Volumes(q) THEN Volumes(q)[d] ELSE none
  <1>3. /\ report'.by = q.by
        /\ report'.days = [d \in DOMAIN question.counts |-> [counts |-> question.counts[d], volumes |-> volumes(d)]]
        /\ question'.asked = NoQuestion /\ question'.counts = <<>>
    BY <1>2 DEF AskVolumes
  <1>4. DOMAIN question.counts \subseteq Int /\ q \in Questions
        /\ \A d \in DOMAIN question.counts :
              d \in Days(AskedRows(q), q.zone) /\ CountsFit(q.by, question.counts[d], OnDay(AskedRows(q), d, q.zone))
    BY <1>0, <1>2 DEF QuestionIs, AskedRows, Asking
  <1>5. \A d \in Days(AskedRows(q), q.zone) : volumes(d).total = Cardinality(OnDay(AskedRows(q), d, q.zone))
    <2>1. DOMAIN Volumes(q) = Days(AskedRows(q), q.zone)
          /\ \A d \in DOMAIN Volumes(q) : Volumes(q)[d] = VolumesOf(OnDay(AskedRows(q), d, q.zone))
      BY DEF Volumes, AskedRows
    <2> QED  BY <2>1 DEF VolumesOf
  <1> HIDE DEF volumes
  <1>6. QuestionIs'
    <2>1. DOMAIN question'.counts \subseteq Int
      BY <1>3
    <2> QED  BY <1>3, <2>1 DEF QuestionIs, Asking
  <1>7. AnswersAreSound'
    <2>1. \A d \in DOMAIN question.counts :
              /\ question.counts[d].unique <= volumes(d).total
              /\ q.by # "country" => /\ question.counts[d].new <= question.counts[d].unique
                                     /\ question.counts[d].kyced <= volumes(d).total
      BY <1>4, <1>5 DEF CountsFit
    <2>2. \A d \in DOMAIN report'.days :
              d \in DOMAIN question.counts
              /\ report'.days[d].counts = question.counts[d] /\ report'.days[d].volumes = volumes(d)
      BY <1>3
    <2> QED  BY <1>3, <2>1, <2>2 DEF AnswersAreSound
  <1>8. DOMAIN report'.days \subseteq Int
    BY <1>3, <1>4
  <1> QED  BY <1>1, <1>6, <1>7, <1>8 DEF ReportsInv

(* Every step keeps what is known of the table and of the reports.         *)
LEMMA ReportsSteps == ReportsInv /\ [ReportsNext]_reportVars => ReportsInv'
  <1> SUFFICES ASSUME ReportsInv, [ReportsNext]_reportVars
               PROVE  ReportsInv'
    OBVIOUS
  <1>1. ASSUME NEW s \in Sales, NEW hr \in LastSale .. LastSaleHour, StoreSale(s, hr)
        PROVE  ReportsInv'
    BY <1>1, StoreSaleKeeps
  <1>2. ASSUME NEW q \in Questions, AskCounts(q)
        PROVE  ReportsInv'
    BY <1>2, AskCountsKeeps
  <1>3. CASE AskVolumes
    BY <1>3, AskVolumesKeeps
  <1>4. CASE UNCHANGED reportVars
    BY <1>4, Zenon DEF reportVars, ReportsInv, SalesAre, QuestionIs, AnswersAreSound, RowsAbout, RowsOfDays, Days, OnDay, Asking
  <1> QED  BY <1>1, <1>2, <1>3, <1>4 DEF ReportsNext

(* A report has all rows of its hours, and its days all rows of them.      *)
LEMMA DaysAreWholeAlways ==
    ASSUME SalesAre
    PROVE  DaysAreWhole
  <1> SUFFICES ASSUME NEW zone \in Zones, NEW from \in 0 .. LastSaleHour, NEW to \in 0 .. LastSaleHour
               PROVE  LET rows == RowsOfDays(from, to, zone)
                      IN  /\ {k \in DOMAIN sales : sales[k].hour \in from .. to} \subseteq rows
                          /\ from <= to => \A d \in Days(rows, zone) :
                                OnDay(rows, d, zone) = {k \in DOMAIN sales : sales[k].hour \in d .. (d + DayHours - 1)}
    BY DEF DaysAreWhole
  <1> DEFINE rows == RowsOfDays(from, to, zone)
             day(k) == DateTrunc(sales[k].hour, zone)
             first == DateTrunc(from, zone)
             last == DateTrunc(to, zone)
  <1>1. zone \in Int /\ from \in Int /\ to \in Int /\ DayHours \in Nat
    BY ReportsAssumption
  <1>2. \A k \in DOMAIN sales : sales[k].hour \in Int /\ day(k) \in Int
    <2>1. \A k \in DOMAIN sales : sales[k].hour \in Int
      BY SaleRowIs
    <2> QED  BY <1>1, <2>1, DateTruncIs
  <1>3. /\ first \in Int /\ RoundTime(from, zone) = first /\ first <= from
        /\ \A g \in Int : first <= g <=> first <= DateTrunc(g, zone)
    BY <1>1, DateTruncIs
  <1>4. /\ last \in Int /\ RoundTime(to, zone) = last /\ to < last + DayHours
        /\ \A g \in Int : g < last + DayHours <=> DateTrunc(g, zone) <= last
    BY <1>1, DateTruncIs
  <1>5. \A k \in DOMAIN sales : k \in rows <=> first <= sales[k].hour /\ sales[k].hour < last + DayHours
    BY <1>3, <1>4 DEF RowsOfDays
  <1>6. \A k \in DOMAIN sales : k \in rows <=> first <= day(k) /\ day(k) <= last
    BY <1>2, <1>3, <1>4, <1>5
  <1>7. rows \subseteq DOMAIN sales
    BY DEF RowsOfDays
  <1> HIDE DEF rows, first, last
  <1>8. {k \in DOMAIN sales : sales[k].hour \in from .. to} \subseteq rows
    <2>1. ASSUME NEW k \in DOMAIN sales, sales[k].hour \in from .. to
          PROVE  first <= sales[k].hour /\ sales[k].hour < last + DayHours
      <3>1. PICK h : h = sales[k].hour
        OBVIOUS
      <3>2. h \in Int /\ from <= h /\ h <= to
        BY <1>1, <2>1, <3>1
      <3> QED  BY <1>1, <1>3, <1>4, <3>1, <3>2
    <2> QED  BY <1>5, <2>1
  <1>9. ASSUME NEW d \in Days(rows, zone)
        PROVE  OnDay(rows, d, zone) = {k \in DOMAIN sales : sales[k].hour \in d .. (d + DayHours - 1)}
    <2>1. PICK j \in rows : d = day(j)
      BY DEF Days
    <2>2. j \in DOMAIN sales /\ d \in Int /\ first <= d /\ d <= last
      BY <1>2, <1>6, <1>7, <2>1
    <2>3. \A g \in Int : (d <= g <=> d <= DateTrunc(g, zone)) /\ (g < d + DayHours <=> DateTrunc(g, zone) <= d)
      <3>1. sales[j].hour \in Int /\ d = DateTrunc(sales[j].hour, zone)
        BY <1>2, <2>1, <2>2
      <3> QED  BY <1>1, <3>1, DateTruncIs
    <2>4. ASSUME NEW k \in DOMAIN sales
          PROVE  k \in rows /\ day(k) = d <=> sales[k].hour \in d .. (d + DayHours - 1)
      <3>1. PICK h, e : h = sales[k].hour /\ e = day(k)
        OBVIOUS
      <3>2. h \in Int /\ e \in Int /\ (d <= h <=> d <= e) /\ (h < d + DayHours <=> e <= d)
        BY <1>2, <2>3, <3>1
      <3>3. h \in d .. (d + DayHours - 1) <=> e = d
        BY <1>1, <2>2, <3>2
      <3>4. e = d => k \in rows
        BY <1>6, <2>2, <3>1
      <3> QED  BY <3>1, <3>3, <3>4
    <2>5. OnDay(rows, d, zone) = {k \in rows : day(k) = d}
      BY DEF OnDay
    <2> HIDE DEF day
    <2> QED  BY <1>7, <2>4, <2>5
  <1> QED  BY <1>8, <1>9 DEF rows

(* The maximum of 1 and another natural.                                   *)
LEMMA MaxWithOne ==
    ASSUME NEW n \in Nat
    PROVE  Max({1, n}) \in Nat \ {0} /\ Max({1, n}) >= n
  <1> DEFINE T == {1, n}
  <1>1. T \in SUBSET Nat /\ T # {} /\ n + 1 \in Nat /\ \A m \in T : m <= n + 1
    OBVIOUS
  <1> HIDE DEF T
  <1>2. Max(T) \in T /\ \A m \in T : Max(T) >= m
    BY <1>1, MaxOfNaturals
  <1>3. T = {1, n}
    BY DEF T
  <1> QED  BY <1>2, <1>3

(* GetStats reads the rows of the trades of the range: each of them, and no *)
(* other one.                                                              *)
LEMMA StatsRowsAre ==
    ASSUME SalesAre, NEW from, NEW to
    PROVE  LET rows == StatsRows(from, to)
               range == {j \in DOMAIN sales : from <= sales[j].hour /\ sales[j].hour <= to}
           IN  /\ IsFiniteSet(rows)
               /\ \A r \in rows : r[1] \in range
               /\ \A k \in range : <<k, 1, 1>> \in rows
  <1> DEFINE range == {j \in DOMAIN sales : from <= sales[j].hour /\ sales[j].hour <= to}
             fees(k) == Max({1, sales[k].fees})
             joined(k) == {<<k, f, s>> : f \in 1 .. fees(k), s \in 1 .. sales[k].splits}
             all == {joined(k) : k \in range}
  <1>1. StatsRows(from, to) = UNION all
    BY DEF StatsRows
  <1>2. IsFiniteSet(range)
    <2>1. range \in SUBSET DOMAIN sales
      OBVIOUS
    <2> QED  BY <2>1, SaleRowIs, FS_Subset
  <1>3. \A k \in range : fees(k) \in Nat \ {0} /\ sales[k].splits \in Nat \ {0}
    <2>1. \A k \in range : sales[k].fees \in Nat /\ sales[k].splits \in Nat \ {0}
      BY SaleRowIs
    <2>2. \A k \in range : fees(k) \in Nat \ {0}
      BY <2>1, MaxWithOne
    <2> QED  BY <2>1, <2>2
  <1>4. ASSUME NEW k \in range
        PROVE  IsFiniteSet(joined(k)) /\ <<k, 1, 1>> \in joined(k) /\ \A r \in joined(k) : r[1] = k
    <2> HIDE DEF fees
    <2> DEFINE F == 1 .. fees(k)
               G == 1 .. sales[k].splits
               to3 == [p \in F \X G |-> <<k, p[1], p[2]>>]
    <2>1. IsFiniteSet(F) /\ IsFiniteSet(G) /\ 1 \in F /\ 1 \in G
      <3>1. PICK m, n : m = fees(k) /\ n = sales[k].splits
        OBVIOUS
      <3>2. m \in Nat \ {0} /\ n \in Nat \ {0} /\ F = 1 .. m /\ G = 1 .. n
        <4> HIDE DEF range
        <4> QED  BY <1>3, <3>1
      <3>3. IsFiniteSet(1 .. m) /\ IsFiniteSet(1 .. n) /\ 1 \in 1 .. m /\ 1 \in 1 .. n
        BY <3>2, FS_Interval
      <3> QED  BY <3>2, <3>3
    <2>2. joined(k) = {<<k, f, s>> : f \in F, s \in G}
      OBVIOUS
    <2> HIDE DEF F, G, joined
    <2>3. IsFiniteSet(F \X G)
      BY <2>1, FS_Product
    <2>4. to3 \in Surjection(F \X G, joined(k))
      <3>1. \A p \in F \X G : to3[p] \in joined(k)
        BY <2>2
      <3>2. ASSUME NEW r \in joined(k)
            PROVE  \E p \in F \X G : to3[p] = r
        <4>1. PICK f \in F, s \in G : r = <<k, f, s>>
          BY <2>2
        <4>2. <<f, s>> \in F \X G /\ to3[<<f, s>>] = r
          BY <4>1
        <4> QED  BY <4>2
      <3>3. to3 \in [F \X G -> joined(k)]
        BY <3>1
      <3> HIDE DEF to3
      <3> QED  BY <3>2, <3>3 DEF Surjection
    <2> HIDE DEF to3
    <2>5. IsFiniteSet(joined(k))
      BY <2>3, <2>4, FS_Surjection
    <2> QED  BY <2>1, <2>2, <2>5
  <1> HIDE DEF joined, range
  <1>5. IsFiniteSet(all) /\ \A T \in all : IsFiniteSet(T)
    <2> DEFINE part == [k \in range |-> joined(k)]
    <2>1. part \in Surjection(range, all)
      BY DEF Surjection
    <2> HIDE DEF part, all
    <2>2. IsFiniteSet(all)
      BY <1>2, <2>1, FS_Surjection
    <2> QED  BY <1>4, <2>2 DEF all
  <1>6. IsFiniteSet(UNION all)
    <2> HIDE DEF all
    <2> QED  BY <1>5, FS_UNION
  <1> QED  BY <1>1, <1>4, <1>6, Zenon DEF range

(* The ether amount of some rows, and of those of two sets without a       *)
(* common one.                                                             *)
LEMMA EthOf ==
    ASSUME SalesAre
    PROVE  /\ \A rows \in SUBSET DOMAIN sales : IsFiniteSet(rows) /\ Eth(rows) \in Nat /\ Eth(rows) = SumOf(Ethers, rows)
           /\ \A A, B \in SUBSET DOMAIN sales : A \cap B = {} => Eth(A \cup B) = Eth(A) + Eth(B)
  <1>1. IsFiniteSet(DOMAIN sales) /\ \A k \in DOMAIN sales : Ethers[k] \in Nat
    BY SaleRowIs DEF Ethers
  <1>2. \A rows \in SUBSET DOMAIN sales : IsFiniteSet(rows)
    BY <1>1, FS_Subset
  <1>3. \A rows \in SUBSET DOMAIN sales : SumOf(Ethers, rows) \in Nat
    BY <1>1, SumOfMore
  <1>4. \A rows \in SUBSET DOMAIN sales : Eth(rows) = SumOf(Ethers, rows)
    BY <1>2, EthIs
  <1>5. ASSUME NEW A \in SUBSET DOMAIN sales, NEW B \in SUBSET DOMAIN sales, A \cap B = {}
        PROVE  Eth(A \cup B) = Eth(A) + Eth(B)
    <2>1. SumOf(Ethers, A \cup B) = SumOf(Ethers, A) + SumOf(Ethers, B)
      BY <1>1, <1>5, SumOfUnion
    <2>2. A \cup B \in SUBSET DOMAIN sales
      OBVIOUS
    <2> QED  BY <1>4, <2>1, <2>2
  <1> QED  BY <1>2, <1>3, <1>4, <1>5

(* The amounts by the value of a function add up to the amount of the rows *)
(* with one of the values.                                                 *)
LEMMA EthByValue ==
    ASSUME SalesAre, NEW rows \in SUBSET DOMAIN sales, NEW T, IsFiniteSet(T), NEW g, NEW h,
           \A t \in T : h[t] = Eth(Part(rows, g, t))
    PROVE  SumOf(h, T) = Eth(Parts(rows, g, T))
  <1>1. IsFiniteSet(rows) /\ \A k \in rows : Ethers[k] \in Nat
    BY EthOf, SaleRowIs DEF Ethers
  <1>2. \A t \in T : h[t] = SumOf(Ethers, Part(rows, g, t))
    <2>1. \A t \in T : Part(rows, g, t) \in SUBSET DOMAIN sales
      BY DEF Part
    <2> QED  BY <2>1, EthOf
  <1>3. SumOf(h, T) = SumOf(Ethers, Parts(rows, g, T))
    BY <1>1, <1>2, SumOfParts
  <1>4. Parts(rows, g, T) \in SUBSET DOMAIN sales
    BY DEF Parts
  <1> QED  BY <1>3, <1>4, EthOf

(* The columns of the rows.                                                *)
SrcOf == [k \in DOMAIN sales |-> sales[k].src]
DstOf == [k \in DOMAIN sales |-> sales[k].dst]
UserOf == [k \in DOMAIN sales |-> sales[k].user]
CountryOf == [k \in DOMAIN sales |-> sales[k].country]

(* Each trade counts for both its tokens.                                  *)
LEMMA TokensAgree ==
    ASSUME SalesAre, NEW rows \in SUBSET DOMAIN sales
    PROVE  LET tokens == {sales[k].src : k \in rows} \cup {sales[k].dst : k \in rows}
           IN  MapThenSumSet(LAMBDA t : AssetVolume(t, rows), tokens) = 2 * Eth(rows)
  <1> DEFINE srcs == {SrcOf[k] : k \in rows}
             dsts == {DstOf[k] : k \in rows}
             tokens == srcs \cup dsts
             f == [t \in tokens |-> Eth(Part(rows, SrcOf, t))]
             g == [t \in tokens |-> Eth(Part(rows, DstOf, t))]
             h == [t \in tokens |-> AssetVolume(t, rows)]
  <1>1. tokens = {sales[k].src : k \in rows} \cup {sales[k].dst : k \in rows}
    BY DEF SrcOf, DstOf
  <1>2. IsFiniteSet(tokens)
    <2>1. IsFiniteSet(srcs)
      BY EthOf, ValuesAreCounted
    <2>2. IsFiniteSet(dsts)
      BY EthOf, ValuesAreCounted
    <2> HIDE DEF srcs, dsts
    <2> QED  BY <2>1, <2>2, FS_Union
  <1>3. \A t \in tokens : f[t] \in Nat /\ g[t] \in Nat /\ h[t] = f[t] + g[t]
    <2> SUFFICES ASSUME NEW t \in tokens
                 PROVE  f[t] \in Nat /\ g[t] \in Nat /\ h[t] = f[t] + g[t]
      OBVIOUS
    <2> DEFINE A == Part(rows, SrcOf, t)
               B == Part(rows, DstOf, t)
    <2>1. A = {k \in rows : sales[k].src = t} /\ B = {k \in rows : sales[k].dst = t}
          /\ A \in SUBSET DOMAIN sales /\ B \in SUBSET DOMAIN sales
      BY DEF SrcOf, DstOf, Part
    <2>2. AssetVolume(t, rows) = Eth(A) + Eth(B)
      BY <2>1 DEF AssetVolume
    <2>3. Eth(A) \in Nat /\ Eth(B) \in Nat
      BY <2>1, EthOf
    <2>4. f[t] = Eth(A) /\ g[t] = Eth(B) /\ h[t] = AssetVolume(t, rows)
      OBVIOUS
    <2> HIDE DEF A, B, f, g, h
    <2> QED  BY <2>2, <2>3, <2>4
  <1>4. SumOf(f, tokens) = Eth(rows)
    <2>1. SumOf(f, tokens) = Eth(Parts(rows, SrcOf, tokens))
      <3>1. \A t \in tokens : f[t] = Eth(Part(rows, SrcOf, t))
        OBVIOUS
      <3> HIDE DEF f, tokens
      <3> QED  BY <1>2, <3>1, EthByValue
    <2>2. Parts(rows, SrcOf, tokens) = rows
      BY DEF Parts
    <2> HIDE DEF f, tokens
    <2> QED  BY <2>1, <2>2
  <1>5. SumOf(g, tokens) = Eth(rows)
    <2>1. SumOf(g, tokens) = Eth(Parts(rows, DstOf, tokens))
      <3>1. \A t \in tokens : g[t] = Eth(Part(rows, DstOf, t))
        OBVIOUS
      <3> HIDE DEF g, tokens
      <3> QED  BY <1>2, <3>1, EthByValue
    <2>2. Parts(rows, DstOf, tokens) = rows
      BY DEF Parts
    <2> HIDE DEF g, tokens
    <2> QED  BY <2>1, <2>2
  <1>6. \A t \in tokens : h[t] = AssetVolume(t, rows)
    OBVIOUS
  <1> HIDE DEF f, g, h, tokens
  <1>7. SumOf(h, tokens) = SumOf(f, tokens) + SumOf(g, tokens)
    BY <1>2, <1>3, SumOfBoth
  <1>8. MapThenSumSet(LAMBDA t : AssetVolume(t, rows), tokens) = SumOf(h, tokens)
    BY <1>2, <1>6, AssetVolumesAre
  <1>9. Eth(rows) \in Nat
    BY EthOf
  <1> QED  BY <1>1, <1>4, <1>5, <1>7, <1>8, <1>9

(* The volumes of users add up.                                            *)
LEMMA UsersAgree ==
    ASSUME SalesAre, NEW day
    PROVE  LET rows == OnDay(DOMAIN sales, day, 0)
           IN  MapThenSumSet(LAMBDA u : UserVolume(u, day, 0), {sales[k].user : k \in rows}) = Eth(rows)
  <1> DEFINE rows == OnDay(DOMAIN sales, day, 0)
             users == {UserOf[k] : k \in rows}
             f == [u \in users |-> UserVolume(u, day, 0)]
  <1>1. rows \in SUBSET DOMAIN sales
    BY DEF OnDay
  <1> HIDE DEF rows
  <1>2. users = {sales[k].user : k \in rows}
    BY <1>1 DEF UserOf
  <1>3. IsFiniteSet(users)
    BY <1>1, EthOf, ValuesAreCounted
  <1>4. \A u \in users : f[u] = UserVolume(u, day, 0) /\ f[u] = Eth(Part(rows, UserOf, u))
    <2>1. \A u : Part(rows, UserOf, u) = {k \in rows : sales[k].user = u}
      BY <1>1 DEF UserOf, Part
    <2> QED  BY <2>1 DEF UserVolume, rows
  <1>5. Parts(rows, UserOf, users) = rows
    BY DEF Parts
  <1> HIDE DEF f, users
  <1>6. SumOf(f, users) = Eth(Parts(rows, UserOf, users))
    BY <1>1, <1>3, <1>4, EthByValue
  <1>7. MapThenSumSet(LAMBDA u : UserVolume(u, day, 0), users) = SumOf(f, users)
    BY <1>3, <1>4, UserVolumesAre
  <1> QED  BY <1>2, <1>5, <1>6, <1>7 DEF rows

(* A trade is by KyberSwap or not.                                         *)
LEMMA IntegrationsAgree ==
    ASSUME SalesAre, NEW rows \in SUBSET DOMAIN sales
    PROVE  LET volume == IntegrationVolume(rows) IN volume.integration + volume.others = Eth(rows)
  <1> DEFINE A == {k \in rows : sales[k].app = "KyberSwap"}
             B == {k \in rows : sales[k].app # "KyberSwap"}
  <1>1. A \in SUBSET DOMAIN sales /\ B \in SUBSET DOMAIN sales /\ A \cap B = {} /\ A \cup B = rows
    OBVIOUS
  <1>2. Eth(A \cup B) = Eth(A) + Eth(B)
    <2> HIDE DEF A, B
    <2> QED  BY <1>1, EthOf
  <1> QED  BY <1>1, <1>2 DEF IntegrationVolume

(* The amount of some rows is that of the rows of some countries, which    *)
(* have to be all there are, and that of the rows without a country.       *)
LEMMA EthByCountry ==
    ASSUME SalesAre, NEW rows \in SUBSET DOMAIN sales, NEW C, NoCountry \notin C,
           \A k \in rows : CountryOf[k] \in C \/ CountryOf[k] = NoCountry
    PROVE  Eth(rows) = Eth(Parts(rows, CountryOf, C)) + Eth(Part(rows, CountryOf, NoCountry))
  <1> DEFINE A == Parts(rows, CountryOf, C)
             B == Part(rows, CountryOf, NoCountry)
  <1>1. A \in SUBSET DOMAIN sales /\ B \in SUBSET DOMAIN sales /\ A \cap B = {} /\ A \cup B = rows
    BY DEF Parts, Part
  <1> HIDE DEF A, B
  <1>2. Eth(A \cup B) = Eth(A) + Eth(B)
    BY <1>1, EthOf
  <1> QED  BY <1>1, <1>2 DEF A, B

(* The volumes of a token by country add up.                               *)
LEMMA CountriesAgree ==
    ASSUME SalesAre, NEW rows \in SUBSET DOMAIN sales, NEW t
    PROVE  LET map == Heatmap(t, rows)
           IN  MapThenSumSet(LAMBDA c : map[c], DOMAIN map)
                 + AssetVolume(t, {k \in rows : sales[k].country = NoCountry}) = AssetVolume(t, rows)
  <1> DEFINE map == Heatmap(t, rows)
             C == DOMAIN map
             S == Part(rows, SrcOf, t)
             D == Part(rows, DstOf, t)
             f == [c \in C |-> Eth(Part(S, CountryOf, c))]
             g == [c \in C |-> Eth(Part(D, CountryOf, c))]
             sides == {j \in rows : t \in {sales[j].src, sales[j].dst}}
             all == {CountryOf[k] : k \in sides}
  <1>1. /\ S = {k \in rows : sales[k].src = t} /\ D = {k \in rows : sales[k].dst = t}
        /\ S \in SUBSET DOMAIN sales /\ D \in SUBSET DOMAIN sales /\ sides \in SUBSET DOMAIN sales
        /\ S \subseteq sides /\ D \subseteq sides
    BY DEF Part, SrcOf, DstOf
  <1>2. C = all \ {NoCountry} /\ NoCountry \notin C
        /\ \A c \in C : map[c] = AssetVolume(t, {k \in rows : sales[k].country = c})
    <2>1. C = {sales[k].country : k \in sides} \ {NoCountry}
      BY DEF Heatmap
    <2>2. all = {sales[k].country : k \in sides}
      BY DEF CountryOf
    <2> HIDE DEF sides, all
    <2> QED  BY <2>1, <2>2 DEF Heatmap
  <1>3. IsFiniteSet(C)
    <2>1. IsFiniteSet(sides)
      BY <1>1, EthOf
    <2>2. IsFiniteSet(all)
      <3> HIDE DEF sides
      <3> QED  BY <2>1, ValuesAreCounted
    <2> HIDE DEF all, C
    <2> QED  BY <1>2, <2>2, FS_Subset
  <1>4. \A c : AssetVolume(t, {k \in rows : sales[k].country = c}) = Eth(Part(S, CountryOf, c)) + Eth(Part(D, CountryOf, c))
    <2> SUFFICES ASSUME NEW c
                 PROVE  AssetVolume(t, {k \in rows : sales[k].country = c})
                            = Eth(Part(S, CountryOf, c)) + Eth(Part(D, CountryOf, c))
      OBVIOUS
    <2> DEFINE R == {k \in rows : sales[k].country = c}
    <2>1. {k \in R : sales[k].src = t} = Part(S, CountryOf, c) /\ {k \in R : sales[k].dst = t} = Part(D, CountryOf, c)
      BY <1>1 DEF Part, CountryOf
    <2> HIDE DEF R, S, D
    <2>2. AssetVolume(t, R) = Eth({k \in R : sales[k].src = t}) + Eth({k \in R : sales[k].dst = t})
      BY DEF AssetVolume
    <2> QED  BY <2>1, <2>2 DEF R
  <1>5. AssetVolume(t, rows) = Eth(S) + Eth(D)
    BY <1>1 DEF AssetVolume
  <1>6. \A c \in C : f[c] = Eth(Part(S, CountryOf, c)) /\ g[c] = Eth(Part(D, CountryOf, c))
    OBVIOUS
  <1>7. \A k \in sides : CountryOf[k] \in C \/ CountryOf[k] = NoCountry
    <2> HIDE DEF C, sides
    <2> QED  BY <1>2
  <1> HIDE DEF C, S, D, f, g, sides, all
  <1>8. \A c \in C : f[c] \in Nat /\ g[c] \in Nat /\ map[c] = f[c] + g[c]
    <2>1. \A c : Part(S, CountryOf, c) \in SUBSET DOMAIN sales /\ Part(D, CountryOf, c) \in SUBSET DOMAIN sales
      BY <1>1 DEF Part
    <2> QED  BY <1>2, <1>4, <1>6, <2>1, EthOf
  <1> HIDE DEF map
  <1>9. SumOf(f, C) = Eth(Parts(S, CountryOf, C))
    BY <1>1, <1>3, <1>6, EthByValue
  <1>10. SumOf(g, C) = Eth(Parts(D, CountryOf, C))
    BY <1>1, <1>3, <1>6, EthByValue
  <1>11. MapThenSumSet(LAMBDA c : map[c], C) = SumOf(map, C)
    BY <1>3, MapVolumesAre
  <1>12. SumOf(map, C) = SumOf(f, C) + SumOf(g, C)
    BY <1>3, <1>8, SumOfBoth
  <1>13. Eth(S) = Eth(Parts(S, CountryOf, C)) + Eth(Part(S, CountryOf, NoCountry))
    BY <1>1, <1>2, <1>7, EthByCountry
  <1>14. Eth(D) = Eth(Parts(D, CountryOf, C)) + Eth(Part(D, CountryOf, NoCountry))
    BY <1>1, <1>2, <1>7, EthByCountry
  <1>15. AssetVolume(t, {k \in rows : sales[k].country = NoCountry})
            = Eth(Part(S, CountryOf, NoCountry)) + Eth(Part(D, CountryOf, NoCountry))
    BY <1>4
  <1>16. PICK a, b, c, d : /\ a = Eth(Parts(S, CountryOf, C)) /\ b = Eth(Parts(D, CountryOf, C))
                           /\ c = Eth(Part(S, CountryOf, NoCountry)) /\ d = Eth(Part(D, CountryOf, NoCountry))
    OBVIOUS
  <1>17. a \in Nat /\ b \in Nat /\ c \in Nat /\ d \in Nat
    <2>1. \A R \in {Parts(S, CountryOf, C), Parts(D, CountryOf, C), Part(S, CountryOf, NoCountry), Part(D, CountryOf, NoCountry)} :
              R \in SUBSET DOMAIN sales
      BY <1>1 DEF Part, Parts
    <2> QED  BY <1>16, <2>1, EthOf
  <1>18. MapThenSumSet(LAMBDA c1 : map[c1], C) = a + b
    BY <1>9, <1>10, <1>11, <1>12, <1>16
  <1>19. AssetVolume(t, rows) = (a + c) + (b + d)
    BY <1>5, <1>13, <1>14, <1>16
  <1>20. (a + b) + (c + d) = (a + c) + (b + d)
    BY <1>17
  <1>21. MapThenSumSet(LAMBDA c1 : map[c1], C) + AssetVolume(t, {k \in rows : sales[k].country = NoCountry}) = AssetVolume(t, rows)
    BY <1>15, <1>16, <1>18, <1>19, <1>20
  <1> QED  BY <1>21 DEF C, map

(* The joins of GetStats do not multiply trades and users.                 *)
LEMMA StatsAgree ==
    ASSUME SalesAre, NEW day \in Days(DOMAIN sales, 0)
    PROVE  LET rows == OnDay(DOMAIN sales, day, 0)
               stats == Stats(day, day + DayHours - 1)
           IN  /\ stats.trades = Cardinality(rows) /\ stats.unique = Cardinality({sales[k].user : k \in rows})
               /\ stats.new >= Cardinality({k \in rows : sales[k].first})
  <1> DEFINE rows == OnDay(DOMAIN sales, day, 0)
             to == day + DayHours - 1
             joined == StatsRows(day, to)
             firsts == {r \in joined : sales[r[1]].first}
  <1>1. PICK j \in DOMAIN sales : day = DateTrunc(sales[j].hour, 0)
    BY DEF Days
  <1>2. day \in Int /\ \A g \in Int : (day <= g <=> day <= DateTrunc(g, 0)) /\ (g < day + DayHours <=> DateTrunc(g, 0) <= day)
    <2>1. PICK h, zone : h = sales[j].hour /\ zone = 0
      OBVIOUS
    <2>2. h \in Int /\ zone \in Int /\ day = DateTrunc(h, zone)
      BY <1>1, <2>1, SaleRowIs
    <2>3. day \in Int /\ \A g \in Int : (day <= g <=> day <= DateTrunc(g, zone)) /\ (g < day + DayHours <=> DateTrunc(g, zone) <= day)
      BY <2>2, DateTruncIs
    <2> QED  BY <2>1, <2>3
  <1>3. rows = {k \in DOMAIN sales : day <= sales[k].hour /\ sales[k].hour <= to}
    <2>1. ASSUME NEW k \in DOMAIN sales
          PROVE  DateTrunc(sales[k].hour, 0) = day <=> day <= sales[k].hour /\ sales[k].hour <= to
      <3>1. PICK h, e : h = sales[k].hour /\ e = DateTrunc(h, 0)
        OBVIOUS
      <3>2. h \in Int
        BY <3>1, SaleRowIs
      <3>3. e \in Int /\ (day <= h <=> day <= e) /\ (h < day + DayHours <=> e <= day)
        <4>1. PICK zone : zone = 0
          OBVIOUS
        <4>2. DateTrunc(h, zone) \in Int
          BY <3>2, <4>1, DateTruncIs
        <4> QED  BY <1>2, <3>1, <3>2, <4>1, <4>2
      <3>4. DayHours \in Int
        BY ReportsAssumption
      <3> QED  BY <1>2, <3>1, <3>2, <3>3, <3>4
    <2> HIDE DEF to
    <2> QED  BY <2>1 DEF OnDay
  <1> HIDE DEF rows, to
  <1>4. IsFiniteSet(joined) /\ (\A r \in joined : r[1] \in rows) /\ \A k \in rows : <<k, 1, 1>> \in joined
    BY <1>3, StatsRowsAre
  <1>5. Stats(day, to) = [trades |-> Cardinality({r[1] : r \in joined}),
                          unique |-> Cardinality({sales[r[1]].user : r \in joined}),
                          new |-> Cardinality(firsts)]
    BY DEF Stats
  <1> HIDE DEF joined
  <1>6. {r[1] : r \in joined} = rows /\ {sales[r[1]].user : r \in joined} = {sales[k].user : k \in rows}
    <2>1. \A k \in rows : \E r \in joined : r[1] = k
      <3>1. \A k \in rows : <<k, 1, 1>> \in joined /\ <<k, 1, 1>>[1] = k
        BY <1>4
      <3> QED  BY <3>1
    <2> QED  BY <1>4, <2>1
  <1>7. Cardinality(firsts) \in Nat /\ Cardinality({k \in rows : sales[k].first}) \in Nat
        /\ Cardinality({k \in rows : sales[k].first}) <= Cardinality(firsts)
    <2> DEFINE row == [r \in joined |-> r[1]]
               V == {row[r] : r \in firsts}
               N == {k \in rows : sales[k].first}
    <2>1. IsFiniteSet(firsts)
      BY <1>4, FS_Subset
    <2>2. N = V
      <3>1. \A r \in firsts : row[r] \in N
        BY <1>4
      <3>2. ASSUME NEW k \in N
            PROVE  \E r \in firsts : row[r] = k
        <4>1. <<k, 1, 1>> \in firsts /\ row[<<k, 1, 1>>] = k
          BY <1>4
        <4> QED  BY <4>1
      <3> HIDE DEF row, firsts, N
      <3> QED  BY <3>1, <3>2
    <2>3. Cardinality(V) \in Nat /\ Cardinality(firsts) \in Nat /\ Cardinality(V) <= Cardinality(firsts)
      <3> HIDE DEF row, firsts
      <3> QED  BY <2>1, ValuesAreCounted
    <2> HIDE DEF V, firsts
    <2> QED  BY <2>2, <2>3
  <1> HIDE DEF firsts
  <1>8. /\ Stats(day, to).trades = Cardinality(rows) /\ Stats(day, to).unique = Cardinality({sales[k].user : k \in rows})
        /\ Stats(day, to).new >= Cardinality({k \in rows : sales[k].first})
    <2>1. PICK n, users, keys, m : /\ n = Cardinality({k \in rows : sales[k].first})
                                   /\ users = {sales[r[1]].user : r \in joined} /\ keys = {r[1] : r \in joined}
                                   /\ m = Cardinality(firsts)
      OBVIOUS
    <2>2. Stats(day, to) = [trades |-> Cardinality(keys), unique |-> Cardinality(users), new |-> m]
      BY <1>5, <2>1
    <2>3. keys = rows /\ users = {sales[k].user : k \in rows}
      BY <1>6, <2>1
    <2>4. m >= n
      BY <1>7, <2>1
    <2>5. Stats(day, to).trades = Cardinality(rows) /\ Stats(day, to).unique = Cardinality(users) /\ Stats(day, to).new >= n
      BY <2>2, <2>3, <2>4
    <2> QED  BY <2>1, <2>3, <2>5
  <1> QED  BY <1>8 DEF rows, to

(* On each day the reports agree.                                          *)
LEMMA ReportsAgreeAlways ==
    ASSUME SalesAre
    PROVE  ReportsAgree
  <1> SUFFICES ASSUME NEW day \in Days(DOMAIN sales, 0)
               PROVE  LET rows == OnDay(DOMAIN sales, day, 0)
                          tokens == {sales[k].src : k \in rows} \cup {sales[k].dst : k \in rows}
                          users == {sales[k].user : k \in rows}
                          volume == IntegrationVolume(rows)
                          stats == Stats(day, day + DayHours - 1)
                      IN  /\ MapThenSumSet(LAMBDA t : AssetVolume(t, rows), tokens) = 2 * Eth(rows)
                          /\ \A t \in tokens : LET map == Heatmap(t, rows)
                                IN  MapThenSumSet(LAMBDA c : map[c], DOMAIN map)
                                      + AssetVolume(t, {k \in rows : sales[k].country = NoCountry}) = AssetVolume(t, rows)
                          /\ MapThenSumSet(LAMBDA u : UserVolume(u, day, 0), users) = Eth(rows)
                          /\ volume.integration + volume.others = Eth(rows)
                          /\ stats.trades = Cardinality(rows) /\ stats.unique = Cardinality(users)
                          /\ stats.new >= Cardinality({k \in rows : sales[k].first})
    BY DEF ReportsAgree
  <1> DEFINE rows == OnDay(DOMAIN sales, day, 0)
  <1>1. rows \in SUBSET DOMAIN sales
    BY DEF OnDay
  <1>2. MapThenSumSet(LAMBDA t : AssetVolume(t, rows), {sales[k].src : k \in rows} \cup {sales[k].dst : k \in rows}) = 2 * Eth(rows)
    <2> HIDE DEF rows
    <2> QED  BY <1>1, TokensAgree
  <1>3. \A t : LET map == Heatmap(t, rows)
               IN  MapThenSumSet(LAMBDA c : map[c], DOMAIN map)
                     + AssetVolume(t, {k \in rows : sales[k].country = NoCountry}) = AssetVolume(t, rows)
    <2> HIDE DEF rows
    <2> QED  BY <1>1, CountriesAgree
  <1>4. MapThenSumSet(LAMBDA u : UserVolume(u, day, 0), {sales[k].user : k \in rows}) = Eth(rows)
    BY UsersAgree
  <1>5. LET volume == IntegrationVolume(rows) IN volume.integration + volume.others = Eth(rows)
    <2> HIDE DEF rows
    <2> QED  BY <1>1, IntegrationsAgree
  <1>6. LET stats == Stats(day, day + DayHours - 1)
        IN  /\ stats.trades = Cardinality(rows) /\ stats.unique = Cardinality({sales[k].user : k \in rows})
            /\ stats.new >= Cardinality({k \in rows : sales[k].first})
    BY StatsAgree
  <1> QED  BY <1>2, <1>3, <1>4, <1>5, <1>6

(* What is kept of indices is each of them once, but 0.                    *)
LEMMA FirstOfEachIndexIs ==
    ASSUME NEW n \in Nat, NEW indices \in [1 .. n -> Nat]
    PROVE  /\ FirstOfEachIndex(indices) \in Seq(Nat) /\ IsInjective(FirstOfEachIndex(indices))
           /\ ToSet(FirstOfEachIndex(indices)) = {indices[i] : i \in 1 .. n} \ {0}
  <1> DEFINE S == 1 .. n
             V == Seq(Nat)
             kept(v, i) == IF indices[i] = 0 \/ Contains(v, indices[i]) THEN v ELSE Append(v, indices[i])
             It(iter) == iter = [s \in SUBSET S |-> IF s = {} THEN <<>> ELSE LET x == Max(s) IN kept(iter[s \ {x}], x)]
             it == CHOOSE iter : It(iter)
  <1>1. FirstOfEachIndex(indices) = it[S]
    <2>1. DOMAIN indices = S
      OBVIOUS
    <2> QED  BY <2>1 DEF FirstOfEachIndex, FoldLeft, MapThenFoldSet
  <1>2. \A s \in SUBSET S : s # {} => Max(s) \in s /\ \A i \in s : Max(s) >= i
    <2> SUFFICES ASSUME NEW s \in SUBSET S, s # {}
                 PROVE  Max(s) \in s /\ \A i \in s : Max(s) >= i
      OBVIOUS
    <2>1. s \in SUBSET Nat /\ \A i \in s : i <= n
      OBVIOUS
    <2> HIDE DEF S
    <2> QED  BY <2>1, MaxOfNaturals
  <1>3. \A v \in V : \A i \in S : kept(v, i) \in V
    <2>1. \A i \in S : indices[i] \in Nat
      OBVIOUS
    <2> QED  BY <2>1, AppendProperties
  <1>4. \E iter : It(iter)
    <2> DEFINE elem == [s \in SUBSET S |-> Max(s)]
               step == [p \in S \X V |-> kept(p[2], p[1])]
    <2> HIDE DEF kept, S, V
    <2>1. IsFiniteSet(S) /\ <<>> \in V
      BY FS_Interval DEF S, V
    <2>2. \A s \in SUBSET S : s # {} => elem[s] \in s
      BY <1>2
    <2>3. step \in [S \X V -> V]
      BY <1>3
    <2>4. \A s \in SUBSET S : elem[s] = Max(s)
      OBVIOUS
    <2>5. \A v \in V : \A i \in S : step[<<i, v>>] = kept(v, i)
      OBVIOUS
    <2> HIDE DEF elem, step
    <2>6. PICK iter \in [SUBSET S -> V] : Steps(iter, S, <<>>, elem, step)
      BY <2>1, <2>2, <2>3, StepsExist
    <2>7. \A s \in SUBSET S : iter[s] = IF s = {} THEN <<>> ELSE kept(iter[s \ {Max(s)}], Max(s))
      <3> SUFFICES ASSUME NEW s \in SUBSET S, s # {}
                   PROVE  iter[s] = kept(iter[s \ {Max(s)}], Max(s))
        BY <2>6 DEF Steps
      <3>1. Max(s) \in S /\ s \ {Max(s)} \in SUBSET S
        BY <1>2
      <3> QED  BY <2>4, <2>5, <2>6, <3>1 DEF Steps
    <2>8. It(iter)
      BY <2>7
    <2> HIDE DEF It
    <2> QED  BY <2>8
  <1>5. It(it)
    <2> HIDE DEF It
    <2> QED  BY <1>4
  <1>6. /\ it[{}] = <<>>
        /\ \A m \in Nat : m + 1 <= n => it[1 .. (m + 1)] = kept(it[1 .. m], m + 1)
    <2>1. \A s \in SUBSET S : it[s] = IF s = {} THEN <<>> ELSE kept(it[s \ {Max(s)}], Max(s))
      <3> HIDE DEF kept, it
      <3> QED  BY <1>5
    <2> HIDE DEF kept, it
    <2>2. ASSUME NEW m \in Nat, m + 1 <= n
          PROVE  it[1 .. (m + 1)] = kept(it[1 .. m], m + 1)
      <3> DEFINE s == 1 .. (m + 1)
      <3>1. s \in SUBSET S /\ m + 1 \in s /\ s # {} /\ s \ {m + 1} = 1 .. m
        <4>1. \A i \in s : i \in S
          BY <2>2
        <4>2. \A i \in s : i \in (1 .. m) \/ i = m + 1
          OBVIOUS
        <4>3. \A i \in 1 .. m : i \in s /\ i # m + 1
          OBVIOUS
        <4>4. m + 1 \in s
          OBVIOUS
        <4> HIDE DEF s
        <4> QED  BY <4>1, <4>2, <4>3, <4>4
      <3>2. Max(s) = m + 1
        <4>1. \A i \in s : i \in Nat /\ i <= m + 1
          OBVIOUS
        <4>2. Max(s) \in s /\ Max(s) >= m + 1
          BY <1>2, <3>1
        <4> HIDE DEF s
        <4> QED  BY <4>1, <4>2
      <3> HIDE DEF s, S
      <3>3. it[s] = kept(it[s \ {m + 1}], m + 1)
        BY <2>1, <3>1, <3>2
      <3> QED  BY <3>1, <3>3 DEF s
    <2>3. it[{}] = <<>>
      BY <2>1
    <2> QED  BY <2>2, <2>3
  <1> HIDE DEF it
  <1> DEFINE Kept(m) == /\ it[1 .. m] \in Seq(Nat) /\ IsInjective(it[1 .. m])
                        /\ ToSet(it[1 .. m]) = {indices[i] : i \in 1 .. m} \ {0}
             N == {m \in Nat : m <= n => Kept(m)}
  <1>7. 0 \in N
    <2>1. 1 .. 0 = {} /\ DOMAIN <<>> = {} /\ <<>> \in Seq(Nat)
      OBVIOUS
    <2>2. IsInjective(<<>>) /\ ToSet(<<>>) = {}
      BY <2>1 DEF IsInjective, ToSet
    <2>3. Kept(0)
      BY <1>6, <2>1, <2>2
    <2> HIDE DEF Kept
    <2> QED  BY <2>3
  <1>8. ASSUME NEW m \in Nat, m \in N
        PROVE  m + 1 \in N
    <2> SUFFICES ASSUME m + 1 <= n
                 PROVE  Kept(m + 1)
      OBVIOUS
    <2>1. PICK v, e : v = it[1 .. m] /\ e = indices[m + 1]
      OBVIOUS
    <2>2. v \in Seq(Nat) /\ IsInjective(v) /\ ToSet(v) = {indices[i] : i \in 1 .. m} \ {0}
      BY <1>8, <2>1
    <2>3. e \in Nat
      BY <2>1
    <2>4. it[1 .. (m + 1)] = IF e = 0 \/ Contains(v, e) THEN v ELSE Append(v, e)
      BY <1>6, <2>1
    <2>5. {indices[i] : i \in 1 .. (m + 1)} = {indices[i] : i \in 1 .. m} \cup {e}
      <3>1. 1 .. (m + 1) = (1 .. m) \cup {m + 1}
        OBVIOUS
      <3> QED  BY <2>1, <3>1
    <2>6. Contains(v, e) <=> e \in ToSet(v)
      <3>1. DOMAIN v = 1 .. Len(v)
        BY <2>2
      <3> QED  BY <3>1 DEF Contains, ToSet
    <2>7. CASE e = 0 \/ Contains(v, e)
      <3>1. it[1 .. (m + 1)] = v
        BY <2>4, <2>7
      <3>2. {indices[i] : i \in 1 .. (m + 1)} \ {0} = ToSet(v)
        BY <2>2, <2>5, <2>6, <2>7
      <3> QED  BY <2>2, <3>1, <3>2
    <2>8. CASE ~(e = 0 \/ Contains(v, e))
      <3>1. it[1 .. (m + 1)] = Append(v, e)
        BY <2>4, <2>8
      <3> DEFINE w == Append(v, e)
                 l == Len(v)
      <3>2. /\ w \in Seq(Nat) /\ l \in Nat /\ DOMAIN v = 1 .. l /\ DOMAIN w = 1 .. (l + 1)
            /\ \A i \in 1 .. l : w[i] = v[i]
            /\ w[l + 1] = e /\ ToSet(w) = ToSet(v) \cup {e}
        BY <2>2, <2>3, AppendSet
      <3> HIDE DEF w, l
      <3>3. {indices[i] : i \in 1 .. (m + 1)} \ {0} = ToSet(w)
        BY <2>2, <2>5, <2>8, <3>2
      <3>4. IsInjective(w)
        <4> SUFFICES ASSUME NEW a \in 1 .. (l + 1), NEW b \in 1 .. (l + 1), w[a] = w[b]
                     PROVE  a = b
          BY <3>2 DEF IsInjective
        <4>1. \A i \in 1 .. l : v[i] \in ToSet(v) /\ v[i] # e
          BY <2>6, <2>8, <3>2 DEF ToSet
        <4>2. \A i \in 1 .. (l + 1) : i \in 1 .. l \/ i = l + 1
          BY <3>2
        <4>3. a \in 1 .. l /\ b \in 1 .. l => a = b
          BY <2>2, <3>2 DEF IsInjective
        <4>4. CASE a \in 1 .. l /\ b = l + 1
          BY <3>2, <4>1, <4>4
        <4>5. CASE a = l + 1 /\ b \in 1 .. l
          BY <3>2, <4>1, <4>5
        <4> QED  BY <4>2, <4>3, <4>4, <4>5
      <3>5. it[1 .. (m + 1)] = w
        BY <3>1 DEF w
      <3> QED  BY <3>2, <3>3, <3>4, <3>5
    <2> HIDE DEF Kept
    <2> QED  BY <2>7, <2>8
  <1>9. Nat \subseteq N
    <2> HIDE DEF N
    <2> QED  BY <1>7, <1>8, NatSetInduction
  <1>10. Kept(n)
    <2>1. n \in N
      <3> HIDE DEF N
      <3> QED  BY <1>9
    <2> HIDE DEF Kept
    <2> QED  BY <2>1
  <1> QED  BY <1>1, <1>10

(* The rows of the join have all pairs of a fee and a split, and the fee 0 *)
(* if there is none.                                                       *)
LEMMA JoinedRowsAre ==
    ASSUME SalesAre, NEW k \in DOMAIN sales
    PROVE  LET rows == JoinedRows(k)
               fees == sales[k].fees
               splits == sales[k].splits
           IN  /\ Len(rows) \in Nat /\ DOMAIN rows = 1 .. Len(rows)
               /\ \A i \in DOMAIN rows : /\ rows[i].split \in 1 .. splits
                                         /\ rows[i].fee \in Nat /\ (rows[i].fee \in 1 .. fees \/ rows[i].fee = 0)
               /\ \A s \in 1 .. splits : \E i \in DOMAIN rows : rows[i].split = s
               /\ \A f \in 1 .. fees : \E i \in DOMAIN rows : rows[i].fee = f
  <1> DEFINE n == sales[k].fees
             m == sales[k].splits
             fees == IF n = 0 THEN <<0>> ELSE [f \in 1 .. n |-> f]
             part(s) == [f \in DOMAIN fees |-> [fee |-> fees[f], split |-> s]]
             seqs == [s \in 1 .. m |-> part(s)]
             rows == FlattenSeq(seqs)
             Row == [fee : Nat, split : 1 .. m]
  <1>1. n \in Nat /\ m \in Nat \ {0}
    BY SaleRowIs
  <1>2. JoinedRows(k) = rows
    BY DEF JoinedRows
  <1> HIDE DEF n, m
  <1>3. PICK l \in Nat \ {0} : /\ DOMAIN fees = 1 .. l
                               /\ \A f \in 1 .. l : fees[f] \in Nat /\ (fees[f] \in 1 .. n \/ fees[f] = 0)
                               /\ \A f \in 1 .. n : f \in 1 .. l /\ fees[f] = f
    <2>1. CASE n = 0
      <3>1. /\ DOMAIN fees = 1 .. 1 /\ \A f \in 1 .. 1 : fees[f] \in Nat /\ fees[f] = 0
            /\ 1 .. n = {}
        BY <2>1
      <3> HIDE DEF fees
      <3> QED  BY <3>1
    <2>2. CASE n # 0
      <3>1. /\ DOMAIN fees = 1 .. n /\ \A f \in 1 .. n : fees[f] = f /\ f \in Nat
            /\ n \in Nat \ {0}
        BY <1>1, <2>2
      <3> HIDE DEF fees
      <3> QED  BY <3>1
    <2> QED  BY <2>1, <2>2
  <1> HIDE DEF fees
  <1>4. \A s \in 1 .. m : /\ seqs[s] \in Seq(Row) /\ Len(seqs[s]) = l
                          /\ \A f \in 1 .. l : seqs[s][f] = [fee |-> fees[f], split |-> s]
    <2> SUFFICES ASSUME NEW s \in 1 .. m
                 PROVE  /\ part(s) \in Seq(Row) /\ Len(part(s)) = l
                        /\ \A f \in 1 .. l : part(s)[f] = [fee |-> fees[f], split |-> s]
      OBVIOUS
    <2>1. part(s) \in [1 .. l -> Row]
      BY <1>3
    <2>2. part(s) \in Seq(Row) /\ Len(part(s)) = l
      <3> HIDE DEF part, Row
      <3> QED  BY <2>1, IsASeq, LenProperties
    <2>3. \A f \in 1 .. l : part(s)[f] = [fee |-> fees[f], split |-> s]
      BY <1>3
    <2> QED  BY <2>2, <2>3
  <1>5. Len(seqs) = m
    BY <1>1
  <1> HIDE DEF seqs
  <1>6. rows \in Seq(Row) /\ \E at, in : Places(rows, seqs, m, at, in)
    <2> HIDE DEF Row
    <2> QED  BY <1>1, <1>4, <1>5, FlattenSeqPlaces
  <1> HIDE DEF rows
  <1>7. PICK at, in : Places(rows, seqs, m, at, in)
    BY <1>6
  <1>8. Len(rows) \in Nat /\ DOMAIN rows = 1 .. Len(rows)
    BY <1>6, LenProperties
  <1>9. ASSUME NEW i \in DOMAIN rows
        PROVE  /\ rows[i].split \in 1 .. m
               /\ rows[i].fee \in Nat /\ (rows[i].fee \in 1 .. n \/ rows[i].fee = 0)
    <2>1. at[i] \in 1 .. m /\ in[i] \in 1 .. l /\ rows[i] = seqs[at[i]][in[i]]
      BY <1>4, <1>7, <1>8 DEF Places
    <2>2. rows[i] = [fee |-> fees[in[i]], split |-> at[i]]
      BY <1>4, <2>1
    <2> QED  BY <1>3, <2>1, <2>2
  <1>10. ASSUME NEW s \in 1 .. m, NEW f \in 1 .. l
         PROVE  \E i \in DOMAIN rows : rows[i] = [fee |-> fees[f], split |-> s]
    <2>0. f \in 1 .. Len(seqs[s])
      BY <1>4
    <2>1. PICK i \in 1 .. Len(rows) : at[i] = s /\ in[i] = f
      <3>1. \A p \in 1 .. m : \A q \in 1 .. Len(seqs[p]) : \E i \in 1 .. Len(rows) : at[i] = p /\ in[i] = q
        BY <1>7 DEF Places
      <3>2. \A q \in 1 .. Len(seqs[s]) : \E i \in 1 .. Len(rows) : at[i] = s /\ in[i] = q
        BY <3>1
      <3> QED  BY <2>0, <3>2
    <2>2. rows[i] = seqs[s][f]
      BY <1>7, <2>1 DEF Places
    <2>3. seqs[s][f] = [fee |-> fees[f], split |-> s]
      BY <1>4
    <2>4. i \in DOMAIN rows
      BY <1>8, <2>1
    <2> QED  BY <2>2, <2>3, <2>4
  <1>11. \A s \in 1 .. m : \E i \in DOMAIN rows : rows[i].split = s
    <2>1. 1 \in 1 .. l
      OBVIOUS
    <2> QED  BY <1>10, <2>1
  <1>12. \A f \in 1 .. n : \E i \in DOMAIN rows : rows[i].fee = f
    <2>1. 1 \in 1 .. m
      BY <1>1
    <2> QED  BY <1>3, <1>10, <2>1
  <1> QED  BY <1>2, <1>8, <1>9, <1>11, <1>12 DEF n, m

(* Trades are read back with their fees and splits.                        *)
LEMMA TradesAreReadBackAlways ==
    ASSUME SalesAre
    PROVE  TradesAreReadBack
  <1> SUFFICES ASSUME NEW k \in DOMAIN sales
               PROVE  LET read == TradeLogFromDBData(k)
                      IN  /\ IsInjective(read.fees) /\ ToSet(read.fees) = 1 .. sales[k].fees
                          /\ IsInjective(read.splits) /\ ToSet(read.splits) = 1 .. sales[k].splits
    BY DEF TradesAreReadBack
  <1> DEFINE n == sales[k].fees
             m == sales[k].splits
             fee(rows) == [i \in DOMAIN rows |-> rows[i].fee]
             split(rows) == [i \in DOMAIN rows |-> rows[i].split]
  <1>1. PICK rows : rows = JoinedRows(k)
    OBVIOUS
  <1>2. PICK l \in Nat : DOMAIN rows = 1 .. l
    BY <1>1, JoinedRowsAre
  <1>3. n \in Nat /\ m \in Nat \ {0}
    BY SaleRowIs
  <1>4. /\ \A i \in 1 .. l : rows[i].split \in 1 .. m /\ rows[i].fee \in Nat /\ (rows[i].fee \in 1 .. n \/ rows[i].fee = 0)
        /\ \A s \in 1 .. m : \E i \in 1 .. l : rows[i].split = s
        /\ \A f \in 1 .. n : \E i \in 1 .. l : rows[i].fee = f
    BY <1>1, <1>2, JoinedRowsAre
  <1>5. TradeLogFromDBData(k) = [fees |-> FirstOfEachIndex(fee(rows)), splits |-> FirstOfEachIndex(split(rows))]
    BY <1>1 DEF TradeLogFromDBData
  <1> HIDE DEF n, m
  <1>6. fee(rows) \in [1 .. l -> Nat] /\ split(rows) \in [1 .. l -> Nat]
    BY <1>2, <1>3, <1>4
  <1>7. {fee(rows)[i] : i \in 1 .. l} \ {0} = 1 .. n
    <2>1. \A i \in 1 .. l : fee(rows)[i] = rows[i].fee
      BY <1>2
    <2>2. 0 \notin 1 .. n
      BY <1>3
    <2>3. PICK g : g = fee(rows)
      OBVIOUS
    <2>4. \A i \in 1 .. l : g[i] \in (1 .. n) \cup {0}
      BY <1>4, <2>1, <2>3
    <2>5. \A v \in 1 .. n : \E i \in 1 .. l : g[i] = v
      BY <1>4, <2>1, <2>3
    <2>6. {g[i] : i \in 1 .. l} \ {0} = 1 .. n
      BY <2>2, <2>4, <2>5
    <2> QED  BY <2>3, <2>6
  <1>8. {split(rows)[i] : i \in 1 .. l} \ {0} = 1 .. m
    <2>1. \A i \in 1 .. l : split(rows)[i] = rows[i].split
      BY <1>2
    <2>2. 0 \notin 1 .. m
      BY <1>3
    <2>3. PICK g : g = split(rows)
      OBVIOUS
    <2>4. \A i \in 1 .. l : g[i] \in (1 .. m) \cup {0}
      BY <1>4, <2>1, <2>3
    <2>5. \A v \in 1 .. m : \E i \in 1 .. l : g[i] = v
      BY <1>4, <2>1, <2>3
    <2>6. {g[i] : i \in 1 .. l} \ {0} = 1 .. m
      BY <2>2, <2>4, <2>5
    <2> QED  BY <2>3, <2>6
  <1> HIDE DEF fee, split
  <1>9. IsInjective(FirstOfEachIndex(fee(rows))) /\ ToSet(FirstOfEachIndex(fee(rows))) = 1 .. n
    BY <1>6, <1>7, FirstOfEachIndexIs
  <1>10. IsInjective(FirstOfEachIndex(split(rows))) /\ ToSet(FirstOfEachIndex(split(rows))) = 1 .. m
    BY <1>6, <1>8, FirstOfEachIndexIs
  <1> QED  BY <1>5, <1>9, <1>10 DEF n, m

(* What is to be shown of reports.                                         *)
LEMMA ReportsInvImplies == ReportsInv => ReportsTypeOK /\ ReportsAddUp
  <1> SUFFICES ASSUME ReportsInv
               PROVE  ReportsTypeOK /\ ReportsAddUp
    OBVIOUS
  <1>1. SalesAre /\ QuestionIs /\ AnswersAreSound /\ DOMAIN report.days \subseteq Int
    BY DEF ReportsInv
  <1>2. ReportsTypeOK
    BY <1>1, SaleRowIs DEF ReportsTypeOK, SalesAre, QuestionIs
  <1>3. ReportsAddUp
    BY <1>1, DaysAreWholeAlways, ReportsAgreeAlways, TradesAreReadBackAlways DEF ReportsAddUp
  <1> QED  BY <1>2, <1>3

-----------------------------------------------------------------------------
(* The fetcher of Binance withdrawals.                                     *)

(* A step of the programs is one of the fetcher of Binance withdrawals or  *)
(* leaves it alone.                                                        *)
LEMMA WithdrawalsStep == [Next]_vars => [BinanceNext]_binanceVars
  <1>1. CASE Next
    <2>1. CASE Alone("withdrawals", BinanceNext)
      BY <2>1, Zenon DEF Alone
    <2>2. CASE program # "withdrawals" /\ Idle("withdrawals", binanceVars)
      BY <2>2 DEF Idle
    <2> QED  BY <1>1, <2>1, <2>2, Zenon DEF Next, Alone
  <1>2. CASE UNCHANGED vars
    BY <1>2 DEF vars
  <1> QED  BY <1>1, <1>2

(* Wherever runs are stopped, and with any flags and files, the fetch of a *)
(* turn gets every open row again, but of accounts whose resume point was  *)
(* moved by hand, and a row that has a transaction has the data of its own *)
(* withdrawal.                                                             *)
THEOREM WithdrawalsAreRefreshed == Spec => []WithdrawalsAreUpToDate
  <1>1. Init => BinanceInv
    BY BinanceStarts DEF Init
  <1>2. BinanceInv /\ [Next]_vars => BinanceInv'
    BY WithdrawalsStep, BinanceSteps
  <1>3. BinanceInv => WithdrawalsAreUpToDate
    BY BinanceInvImplies DEF WithdrawalsAreUpToDate
  <1> QED  BY <1>1, <1>2, <1>3, PTL DEF Spec

-----------------------------------------------------------------------------
(* All programs together.                                                  *)

(* A step of the programs is one of each of these or leaves it alone.      *)
LEMMA ProgramsStep ==
    [Next]_vars => /\ [StorageNext]_storageVars /\ [TradesNext]_tradeVars /\ [OrdersNext]_orderVars
                   /\ [TokenRatesNext]_rateVars /\ [AssemblyNext]_assemblyVars /\ [ReportsNext]_reportVars
                   /\ [PushNext]_pushVars /\ [RateCacheNext]_rateCacheVars /\ [CapsNext]_capVars
  <1>1. CASE Next
    <2>1. (program = "storage" /\ StorageNext) \/ UNCHANGED storageVars
      BY <1>1, Zenon DEF Next, Alone, Idle
    <2>2. (program = "trades" /\ TradesNext) \/ UNCHANGED tradeVars
      BY <1>1, Zenon DEF Next, Alone, Idle
    <2>3. (program = "orders" /\ OrdersNext) \/ UNCHANGED orderVars
      BY <1>1, Zenon DEF Next, Alone, Idle
    <2>4. (program = "token rates" /\ TokenRatesNext) \/ UNCHANGED rateVars
      BY <1>1, Zenon DEF Next, Alone, Idle
    <2>5. (program = "assembly" /\ AssemblyNext) \/ UNCHANGED assemblyVars
      BY <1>1, Zenon DEF Next, Alone, Idle
    <2>6. (program = "reports" /\ ReportsNext) \/ UNCHANGED reportVars
      BY <1>1, Zenon DEF Next, Alone, Idle
    <2>7. (program = "push" /\ PushNext) \/ UNCHANGED pushVars
      BY <1>1, Zenon DEF Next, Alone, Idle
    <2>8. (program = "rate cache" /\ RateCacheNext) \/ UNCHANGED rateCacheVars
      BY <1>1, Zenon DEF Next, Alone, Idle
    <2>9. (program = "caps" /\ CapsNext) \/ UNCHANGED capVars
      BY <1>1, Zenon DEF Next, Alone, Idle
    <2> QED  BY <2>1, <2>2, <2>3, <2>4, <2>5, <2>6, <2>7, <2>8, <2>9
  <1>2. CASE UNCHANGED vars
    BY <1>2 DEF vars
  <1> QED  BY <1>1, <1>2

(* A program that does not assemble trade logs has no job.                 *)
LEMMA AssemblyBegins == Init => AssemblyInv
  <1> SUFFICES ASSUME Init
               PROVE  AssemblyInv
    OBVIOUS
  <1>1. CASE program = "assembly"
    BY <1>1, AssemblyStarts DEF Init
  <1>2. CASE program # "assembly"
    BY <1>2, AssemblyAssumption DEF Init, AssemblyInv, NoJob
  <1> QED  BY <1>1, <1>2

ResumeInv == StorageInv /\ BinanceInv /\ TradesInv /\ OrdersInv /\ RatesInv /\ RatesAreInRange
RecordsInv == AssemblyInv /\ ReportsInv /\ PushInv /\ RateCacheInv /\ CapsInv

(* The invariants of the programs with a resume point hold beside one      *)
(* another.                                                                *)
LEMMA ResumeInvHolds == Spec => []ResumeInv
  <1>1. Init => ResumeInv
    BY StorageStart, BinanceStarts, TradesStart, OrdersStart, RatesInvInit, RatesAreInRangeStarts DEF Init, ResumeInv
  <1>2. ResumeInv /\ [Next]_vars => ResumeInv'
    BY ProgramsStep, WithdrawalsStep, StorageSteps, BinanceSteps, TradesSteps, OrdersSteps, RatesInvStep, RatesAreInRangeSteps
    DEF ResumeInv
  <1> QED  BY <1>1, <1>2, PTL DEF Spec

(* So do those of the other programs.                                      *)
LEMMA RecordsInvHolds == Spec => []RecordsInv
  <1>1. Init => RecordsInv
    BY AssemblyBegins, ReportsStarts, PushStarts, RateCacheStarts, CapsStart DEF Init, RecordsInv
  <1>2. RecordsInv /\ [Next]_vars => RecordsInv'
    BY ProgramsStep, AssemblySteps, ReportsSteps, PushSteps, RateCacheSteps, CapsSteps DEF RecordsInv
  <1> QED  BY <1>1, <1>2, PTL DEF Spec

(* Whatever is killed, fails or is moved by hand (of which the properties  *)
(* except what that excludes), nothing lies below a resume point that has  *)
(* not been dealt with: no reserve before the last trade, withdrawal or    *)
(* trade of an exchange account, order or day of the rate of a token.      *)
THEOREM NothingIsPassed == Spec => []NothingBelowResumePoint
  <1>1. ResumeInv => NothingBelowResumePoint
    BY StorageInvImplies, BinanceInvImplies, TradesInvImplies, OrdersInvImplies, RatesInvImplies
    DEF ResumeInv, NothingBelowResumePoint
  <1> QED  BY <1>1, ResumeInvHolds, PTL

(* However jobs fail and are tried again, a stored trade has all of its    *)
(* splits, each a row of its reserve with an address it had about then.    *)
THEOREM SplitsAreOfTheirReserves == Spec => []SplitsHaveTheirReserves
  <1>1. ResumeInv => SplitsHaveTheirReserves
    BY StorageInvImplies DEF ResumeInv
  <1> QED  BY <1>1, ResumeInvHolds, PTL

(* Whatever trades of whatever generations a range of blocks has, and      *)
(* whichever decoder takes them, FetchTradeLogs puts each trade log        *)
(* together from the events of one trade, all of them, with the ether      *)
(* amount of the trade, and makes one of every trade.                      *)
THEOREM TradesAssembledAlways == Spec => []TradesAreAssembled
  <1>1. RecordsInv => TradesAreAssembled
    BY AssemblyInvImplies DEF RecordsInv, TradesAreAssembled
  <1> QED  BY <1>1, RecordsInvHolds, PTL

(* Whatever trades are stored, with whatever fees and splits, the reports  *)
(* of a day agree with its trades and with one another, in every time zone *)
(* a report has whole days, a report of two queries is sound with trades   *)
(* stored between them, and trades are read back as they were stored.      *)
THEOREM ReportsAddUpAlways == Spec => []ReportsAddUp
  <1>1. RecordsInv => ReportsAddUp
    BY ReportsInvImplies DEF RecordsInv
  <1> QED  BY <1>1, RecordsInvHolds, PTL

(* However calls to Chainalysis fail and are tried again, a run that ends  *)
(* without an error has registered every user that traded in its range.    *)
THEOREM PushesRegisterAll == Spec => []RunRegistersAll
  <1>1. RecordsInv => RunRegistersAll
    BY PushInvImplies DEF RecordsInv
  <1> QED  BY <1>1, RecordsInvHolds, PTL

(* In whatever order users ask, rates are stored and keys expire: a rate   *)
(* that is answered is as old as its key lives and a call takes, at most,  *)
(* or it is final; a user who is called rich has traded as much not long   *)
(* before; and after a complete run of the cacher caps exceed the limit of *)
(* a day by no more than what was traded since.                            *)
THEOREM CachesAnswerRecently == Spec => []AnswersAreRecent
  <1>1. RecordsInv => AnswersAreRecent
    BY RateCacheInvImplies, CapsInvImplies DEF RecordsInv, AnswersAreRecent
  <1> QED  BY <1>1, RecordsInvHolds, PTL

(* The programs keep their types.                                          *)
THEOREM RecordsTypes == Spec => []TypeOK
  <1>1. ResumeInv => StorageTypeOK /\ BinanceTypeOK /\ TradesTypeOK /\ OrdersTypeOK /\ TokenRatesTypeOK
    BY StorageInvImplies, BinanceInvImplies, TradesInvImplies, OrdersInvImplies DEF ResumeInv, RatesAreInRange
  <1>2. RecordsInv => AssemblyTypeOK /\ ReportsTypeOK /\ PushTypeOK /\ RateCacheTypeOK /\ CapsTypeOK
    BY AssemblyInvImplies, ReportsInvImplies, PushInvImplies, RateCacheInvImplies, CapsInvImplies DEF RecordsInv
  <1>3. ResumeInv /\ RecordsInv => TypeOK
    BY <1>1, <1>2 DEF TypeOK
  <1> QED  BY <1>3, ResumeInvHolds, RecordsInvHolds, PTL
=============================================================================
