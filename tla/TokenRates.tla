------------------------------ MODULE TokenRates -----------------------------
(***************************************************************************)
(* The fetcher of token rates (tokenratefetcher/): a run fetches the rate  *)
(* of each day from the day after the last one stored, or from a day that  *)
(* was given, up to today, or to a day that was given.                     *)
(***************************************************************************)
EXTENDS Integers, FiniteSets, FiniteSetsExt

CONSTANTS
    DefaultDay,       \* defaultFromTime
    LastRateDay,      \* bound: the last day
    MaxRateStops,     \* bound on the runs that fail or are killed
    MaxGivenRanges    \* bound on the runs with a range that was given

ASSUME TokenRatesAssumption ==
    /\ DefaultDay \in Nat /\ LastRateDay \in Nat /\ DefaultDay <= LastRateDay
    /\ MaxRateStops \in Nat /\ MaxGivenRanges \in Nat

VARIABLES
    rateDay,          \* today
    storedDays,       \* table token_rates
    rateRun,          \* what the run at work has yet to fetch: [day, to]
    rateStops,
    givenRanges       \* the ranges given so far: <<from, to>>

rateVars == <<rateDay, storedDays, rateRun, rateStops, givenRanges>>

NoRateRun == [day |-> 1, to |-> 0]
RateRuns == rateRun.day <= rateRun.to

TokenRatesInit ==
    /\ rateDay = DefaultDay /\ storedDays = {} /\ rateRun = NoRateRun
    /\ rateStops = 0 /\ givenRanges = {}

NextRateDay ==
    /\ rateDay < LastRateDay
    /\ rateDay' = rateDay + 1
    /\ UNCHANGED <<storedDays, rateRun, rateStops, givenRanges>>

LastTimePoint == Max({DefaultDay} \cup storedDays)

(* Without flags: the day after the last one stored, or after the default. *)
StartRates ==
    /\ ~RateRuns
    /\ rateRun' = [day |-> LastTimePoint + 1, to |-> rateDay]
    /\ UNCHANGED <<rateDay, storedDays, rateStops, givenRanges>>

(* With --from and --to.                                                   *)
StartGivenRange(from, to) ==
    /\ ~RateRuns
    /\ Cardinality(givenRanges) < MaxGivenRanges
    /\ givenRanges' = givenRanges \cup {<<from, to>>}
    /\ rateRun' = [day |-> from, to |-> to]
    /\ UNCHANGED <<rateDay, storedDays, rateStops>>

(* Variant: a day whose rate cannot be got is passed over.                 *)
RatePassedOver ==
    /\ RateRuns /\ rateStops < MaxRateStops
    /\ rateStops' = rateStops + 1
    /\ rateRun' = [rateRun EXCEPT !.day = @ + 1]
    /\ UNCHANGED <<rateDay, storedDays, givenRanges>>

(* The provider or the insertion fails, or the process is killed.          *)
RateRunStops ==
    /\ RateRuns /\ rateStops < MaxRateStops
    /\ rateStops' = rateStops + 1
    /\ rateRun' = NoRateRun
    /\ UNCHANGED <<rateDay, storedDays, givenRanges>>

(* FetchRatesInRanges, one day; a row that is there is left alone.         *)
FetchRate ==
    /\ RateRuns
    /\ storedDays' = storedDays \cup {rateRun.day}
    /\ rateRun' = [rateRun EXCEPT !.day = @ + 1]
    /\ UNCHANGED <<rateDay, rateStops, givenRanges>>

TokenRatesNext ==
    \/ NextRateDay \/ StartRates \/ RateRunStops \/ FetchRate
    \/ \E from, to \in DefaultDay .. rateDay : from <= to /\ StartGivenRange(from, to)

TokenRatesSpec == TokenRatesInit /\ [][TokenRatesNext]_rateVars

-----------------------------------------------------------------------------
TokenRatesTypeOK ==
    /\ rateDay \in DefaultDay .. LastRateDay /\ storedDays \subseteq DefaultDay .. rateDay
    /\ rateStops \in 0 .. MaxRateStops

(* No day up to the last one stored, after which the next run begins, is   *)
(* without a rate, other than those below a range that was given: they     *)
(* stay without one.                                                       *)
NoRateDayIsPassed ==
    \A d \in (DefaultDay + 1) .. LastTimePoint :
        d \in storedDays \/ \E range \in givenRanges : d < range[1]
=============================================================================
