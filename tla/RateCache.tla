------------------------------ MODULE RateCache ------------------------------
(***************************************************************************)
(* CachedRateProvider (lib/tokenrate): ETH/USD rates by day in front of a  *)
(* slow provider.  A rate is the time at which the provider gave it: that  *)
(* of today still changes, that of a day that is over does not.            *)
(***************************************************************************)
EXTENDS Integers

CONSTANTS
    Askers,         \* goroutines that ask for rates
    DayTicks,       \* the length of a day
    TodayExpires,   \* todayExpiresDuration
    RateExpires,    \* expiresDuration
    CallTime,       \* bound: for how long a call of the provider takes
    LastRateTick    \* bound on the time

ASSUME RateCacheAssumption ==
    /\ DayTicks \in Nat \ {0} /\ TodayExpires \in Nat /\ RateExpires \in Nat
    /\ CallTime \in Nat /\ LastRateTick \in Nat

VARIABLES
    rateTime,
    rateItems,      \* the cache: day |-> [given, until]
    rateCalls       \* an asker: [step, day, asked, given]

rateCacheVars == <<rateTime, rateItems, rateCalls>>

Day(t) == t \div DayTicks
NoCall == [step |-> "idle", day |-> 0, asked |-> 0, given |-> 0]

RateCacheInit ==
    /\ rateTime = 0 /\ rateItems = <<>>
    /\ rateCalls = [a \in Askers |-> NoCall]

RateClock ==
    /\ rateTime < LastRateTick
    /\ \A a \in Askers : rateCalls[a].step \in {"calling", "given"} => rateTime < rateCalls[a].asked + CallTime
    /\ rateTime' = rateTime + 1
    /\ UNCHANGED <<rateItems, rateCalls>>

(* gocache: an item is found up to its expiration.                         *)
Found(day) == day \in DOMAIN rateItems /\ rateTime <= rateItems[day].until

(* USDRate(timestamp): a hit is answered.                                  *)
AskRate(a, day) ==
    /\ rateCalls[a].step \in {"idle", "answered"}
    /\ rateCalls' = [rateCalls EXCEPT ![a] =
           IF Found(day)
           THEN [step |-> "answered", day |-> day, asked |-> rateTime, given |-> rateItems[day].given]
           ELSE [step |-> "calling", day |-> day, asked |-> rateTime, given |-> 0]]
    /\ UNCHANGED <<rateTime, rateItems>>

ProviderGives(a) ==
    /\ rateCalls[a].step = "calling"
    /\ rateCalls' = [rateCalls EXCEPT ![a].step = "given", ![a].given = rateTime]
    /\ UNCHANGED <<rateTime, rateItems>>

ProviderFails(a) ==
    /\ rateCalls[a].step = "calling"
    /\ rateCalls' = [rateCalls EXCEPT ![a] = NoCall]
    /\ UNCHANGED <<rateTime, rateItems>>

(* cache.Set.                                                              *)
Cached(day, item) ==
    rateItems' = [d \in DOMAIN rateItems \cup {day} |-> IF d = day THEN item ELSE rateItems[d]]

(* Variant: all rates are kept for as long as those of the past.           *)
SetRateAlike(a) ==
    /\ rateCalls[a].step = "given"
    /\ LET c == rateCalls[a]
       IN  /\ Cached(c.day, [given |-> c.given, until |-> rateTime + RateExpires])
           /\ rateCalls' = [rateCalls EXCEPT ![a].step = "answered", ![a].asked = rateTime]
    /\ UNCHANGED rateTime

(* The rate is kept and answered; what is today is asked after the call.   *)
SetRate(a) ==
    /\ rateCalls[a].step = "given"
    /\ LET c == rateCalls[a]
           expires == IF c.day = Day(rateTime) THEN TodayExpires ELSE RateExpires
       IN  /\ Cached(c.day, [given |-> c.given, until |-> rateTime + expires])
           /\ rateCalls' = [rateCalls EXCEPT ![a].step = "answered", ![a].asked = rateTime]
    /\ UNCHANGED rateTime

RateCacheNext ==
    \/ RateClock
    \/ \E a \in Askers :
          \/ \E day \in 0 .. Day(rateTime) : AskRate(a, day)
          \/ ProviderGives(a) \/ ProviderFails(a) \/ SetRate(a)

-----------------------------------------------------------------------------
RateCacheTypeOK ==
    /\ rateTime \in 0 .. LastRateTick
    /\ \A d \in DOMAIN rateItems : d <= Day(rateTime) /\ rateItems[d].given >= d * DayTicks
    /\ \A a \in Askers : rateCalls[a].step \in {"idle", "calling", "given", "answered"} /\ rateCalls[a].given <= rateTime

(* Whoever asked, and whichever of several calls for a day was the last to *)
(* store its rate: the rate of today is as old as a key of today lives and *)
(* a call takes, at most.  That of a day that is over is final, or was     *)
(* given as much before or less, when that day was today.                  *)
RatesAreRecent ==
    \A a \in Askers : rateCalls[a].step = "answered" =>
        LET c == rateCalls[a]
            age == c.asked - c.given
        IN  \/ age <= TodayExpires + CallTime
            \/ c.given >= (c.day + 1) * DayTicks
            \/ c.day < Day(c.asked) /\ age <= RateExpires + CallTime
=============================================================================
