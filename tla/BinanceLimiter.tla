--------------------------- MODULE BinanceLimiter ---------------------------
(***************************************************************************)
(* TransportRateLimiter of a Binance client: requests pass a guard, and an *)
(* answer that tells of a limit moves the guard, while other requests are  *)
(* on their way.                                                           *)
(***************************************************************************)
EXTENDS Naturals, FiniteSetsExt

CONSTANTS
    Requests,        \* requests of the client that may be under way at a time
    MinuteLength,    \* a minute, in ticks
    LastTick         \* bound on the time

ASSUME LimiterAssumption == MinuteLength \in Nat \ {0} /\ LastTick \in Nat \ {0}

VARIABLES
    tick,            \* the time, of the client and of the exchange
    blockUntil,
    bannedUntil,     \* the ban the exchange has imposed
    trip,            \* of each request: [step, now, answer]
    told,            \* history: the time up to which the client was told to wait
    behind           \* history: requests that passed before the guard was last moved

limiterHistory == <<told, behind>>
limiterVars == <<tick, blockUntil, bannedUntil, trip, limiterHistory>>

NoAnswer == [status |-> 0, at |-> 0, header |-> FALSE, until |-> 0]
NoTrip == [step |-> "none", now |-> 0, answer |-> NoAnswer]

LimiterInit ==
    /\ tick = 1 /\ blockUntil = 0 /\ bannedUntil = 0
    /\ trip = [r \in Requests |-> NoTrip]
    /\ told = 0 /\ behind = {}

TickOn ==
    /\ tick < LastTick
    /\ tick' = tick + 1
    /\ UNCHANGED <<blockUntil, bannedUntil, trip, limiterHistory>>

(* roundTripBinance takes the time, and then waits for the lock.           *)
TakeTime(r) ==
    /\ trip[r].step = "none"
    /\ trip' = [trip EXCEPT ![r] = [step |-> "timed", now |-> tick, answer |-> NoAnswer]]
    /\ UNCHANGED <<tick, blockUntil, bannedUntil, limiterHistory>>

Pass(r) ==
    /\ trip' = [trip EXCEPT ![r] = IF @.now < blockUntil THEN NoTrip ELSE [@ EXCEPT !.step = "passed"]]
    /\ UNCHANGED <<tick, blockUntil, bannedUntil, limiterHistory>>

(* Variant: nothing is held back.                                          *)
PassAlways(r) ==
    /\ trip[r].step = "timed"
    /\ trip' = [trip EXCEPT ![r].step = "passed"]
    /\ UNCHANGED <<tick, blockUntil, bannedUntil, limiterHistory>>

(* The guard.                                                              *)
PassGuard(r) == trip[r].step = "timed" /\ Pass(r)

(* The request gets an answer, or none.  External: the exchange answers a  *)
(* client that is banned with 418, others with 429 when they have made too *)
(* many requests, and it bans them when they go on.  A header tells the    *)
(* time of a 429 or the length of the ban.                                 *)
Answer(r) ==
    /\ trip[r].step = "passed"
    /\ \E status \in {200, 429, 418}, header \in BOOLEAN :
           /\ IF status # 418 THEN bannedUntil <= tick /\ UNCHANGED bannedUntil
              ELSE IF bannedUntil > tick THEN UNCHANGED bannedUntil
              ELSE bannedUntil' \in tick + 1 .. LastTick
           /\ trip' = [trip EXCEPT ![r] = [step |-> "answered", now |-> @.now,
                  answer |-> [status |-> status, at |-> tick, header |-> header,
                              until |-> IF status = 418 THEN bannedUntil' ELSE 0]]]
    /\ UNCHANGED <<tick, blockUntil, limiterHistory>>

(* The request fails, or the answer that tells of a ban cannot be read.    *)
RequestFails(r) ==
    /\ trip[r].step = "passed" \/ (trip[r].step = "answered" /\ trip[r].answer.status = 418)
    /\ trip' = [trip EXCEPT ![r] = NoTrip]
    /\ behind' = behind \ {r}
    /\ UNCHANGED <<tick, blockUntil, bannedUntil, told>>

nextMin(now) == MinuteLength * ((now + MinuteLength) \div MinuteLength)

(* The end of the ban by the Retry-After header, counted from now on, and  *)
(* by the message, the greater of the two.                                 *)
findRetryAt(answer) ==
    Max({tick, answer.until} \cup IF answer.header THEN {tick + answer.until - answer.at} ELSE {})

SetBlock(r, until) ==
    /\ blockUntil' = until
    /\ behind' = {q \in Requests \ {r} : trip[q].step \in {"passed", "answered"}}

(* What an answer tells; an answer to an older request may take it back.   *)
Hear(r, until) == told' = IF r \in behind THEN until ELSE Max({told, until})

(* The answer is handled.                                                  *)
Handle(r) ==
    /\ trip[r].step = "answered"
    /\ LET answer == trip[r].answer
       IN  CASE answer.status = 200 ->
                    behind' = behind \ {r} /\ UNCHANGED <<blockUntil, told>>
             [] answer.status = 429 /\ answer.header ->
                    SetBlock(r, nextMin(answer.at)) /\ Hear(r, MinuteLength * (answer.at \div MinuteLength + 1))
             [] answer.status = 429 /\ ~answer.header ->
                    SetBlock(r, nextMin(trip[r].now)) /\ Hear(r, Min({told, nextMin(trip[r].now)}))
             [] answer.status = 418 ->
                    SetBlock(r, findRetryAt(answer)) /\ Hear(r, answer.until)
    /\ trip' = [trip EXCEPT ![r] = NoTrip]
    /\ UNCHANGED <<tick, bannedUntil>>

LimiterNext ==
    \/ TickOn
    \/ \E r \in Requests : TakeTime(r) \/ PassGuard(r) \/ Answer(r) \/ RequestFails(r) \/ Handle(r)

LimiterSpec == LimiterInit /\ [][LimiterNext]_limiterVars

-----------------------------------------------------------------------------
(* Every variable has its type.                                            *)
LimiterTypeOK ==
    /\ tick \in 1 .. LastTick /\ blockUntil \in Nat /\ bannedUntil \in 0 .. LastTick
    /\ \A r \in Requests : trip[r].step \in {"none", "timed", "passed", "answered"} /\ trip[r].now <= tick
    /\ behind \subseteq Requests

(* The guard holds: no request passes it before the time up to which the   *)
(* client was told to wait, be it to the next minute or to the end of a    *)
(* ban, unless the answer to a request that had passed before took it back.*)
LimitsHoldRequests ==
    \A r \in Requests :
        trip[r].step \in {"passed", "answered"} /\ trip[r].now < told => r \in behind
=============================================================================
