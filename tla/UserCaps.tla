------------------------------ MODULE UserCaps -------------------------------
(***************************************************************************)
(* How much a user may still trade (users/): a cacher, started by cron,    *)
(* puts the volume of each user in the last 24 hours into Redis, where a   *)
(* key expires, and the API answers with a cap that it derives from it.    *)
(* Trades are of one unit of USD each; the rate divides all amounts of an  *)
(* answer alike and is left to RateCache.                                  *)
(***************************************************************************)
EXTENDS Integers, FiniteSets, FiniteSetsExt, Functions

CONSTANTS
    Traders,
    Banned,          \* the black list
    CapWindow,       \* the 24 hours
    VolumeExpiry,    \* expiration: for how long a key lives
    RunTime,         \* bound: for how long a run of the cacher is at work
    DailyLimit,      \* DailyLimit and TxLimit of users with KYC (TRUE) and without
    TxLimit,
    LastCapTick,     \* bounds: the time, the trades and the runs that fail
    MaxDeals,
    MaxCacherStops

ASSUME CapsAssumption ==
    /\ Banned \subseteq Traders
    /\ CapWindow \in Nat \ {0} /\ VolumeExpiry \in Nat \ {0} /\ RunTime \in Nat
    /\ DailyLimit \in [BOOLEAN -> Nat \ {0}] /\ TxLimit \in [BOOLEAN -> Nat \ {0}]
    /\ LastCapTick \in Nat /\ MaxDeals \in Nat /\ MaxCacherStops \in Nat

VARIABLES
    capTime,
    deals,           \* the trades stored: [who, at, nr]
    volumeKeys,      \* Redis: a user |-> [volume, until]
    caching,         \* the run at work: [at, volumes] since its query, or NoRun
    lastRun,         \* the last run that set all its keys: [query, done] (only observed)
    cacherStops

capVars == <<capTime, deals, volumeKeys, caching, lastRun, cacherStops>>

NoRun == [at |-> 0, volumes |-> <<>>, runs |-> FALSE]

CapsInit ==
    /\ capTime = 0 /\ deals = {} /\ volumeKeys = <<>>
    /\ caching = NoRun /\ lastRun = [query |-> 0, done |-> 0, any |-> FALSE] /\ cacherStops = 0

(* The trades of a user in the 24 hours before t.                          *)
VolumeAt(p, t) == Cardinality({d \in deals : d.who = p /\ t - CapWindow <= d.at /\ d.at <= t})

PassTime ==
    /\ capTime < LastCapTick
    /\ caching.runs => capTime < caching.at + RunTime
    /\ capTime' = capTime + 1
    /\ volumeKeys' = Restrict(volumeKeys, {p \in DOMAIN volumeKeys : volumeKeys[p].until > capTime + 1})
    /\ UNCHANGED <<deals, caching, lastRun, cacherStops>>

Deal(p) ==
    /\ Cardinality(deals) < MaxDeals
    /\ deals' = deals \cup {[who |-> p, at |-> capTime, nr |-> Cardinality(deals)]}
    /\ UNCHANGED <<capTime, volumeKeys, caching, lastRun, cacherStops>>

(* cacheRichUser, cache24hVolumeByUID: users with trades have a series in  *)
(* the result; without any there is nothing to do.                         *)
QueryVolumes ==
    /\ ~caching.runs
    /\ LET active == {p \in Traders : VolumeAt(p, capTime) > 0}
       IN  /\ active # {}
           /\ caching' = [at |-> capTime, volumes |-> [p \in active |-> VolumeAt(p, capTime)], runs |-> TRUE]
    /\ UNCHANGED <<capTime, deals, volumeKeys, lastRun, cacherStops>>

(* The keys of S are set to what the query returned.                       *)
SetKeys(S) ==
    volumeKeys' = [p \in DOMAIN volumeKeys \cup S |->
        IF p \in S THEN [volume |-> caching.volumes[p], until |-> capTime + VolumeExpiry] ELSE volumeKeys[p]]

(* Variant: keys do not expire.                                            *)
ExecPipelineForever ==
    /\ caching.runs
    /\ volumeKeys' = [p \in DOMAIN volumeKeys \cup DOMAIN caching.volumes |->
           IF p \in DOMAIN caching.volumes
           THEN [volume |-> caching.volumes[p], until |-> LastCapTick + 1] ELSE volumeKeys[p]]
    /\ caching' = NoRun
    /\ lastRun' = [query |-> caching.at, done |-> capTime, any |-> TRUE]
    /\ UNCHANGED <<capTime, deals, cacherStops>>

(* pipe.Exec.                                                              *)
ExecPipeline ==
    /\ caching.runs
    /\ SetKeys(DOMAIN caching.volumes)
    /\ caching' = NoRun
    /\ lastRun' = [query |-> caching.at, done |-> capTime, any |-> TRUE]
    /\ UNCHANGED <<capTime, deals, cacherStops>>

(* The run ends before the pipeline, or Redis does part of it: a pipeline  *)
(* is not a transaction.                                                   *)
CacherStops ==
    /\ caching.runs /\ cacherStops < MaxCacherStops
    /\ \E S \in SUBSET DOMAIN caching.volumes : SetKeys(S)
    /\ caching' = NoRun
    /\ cacherStops' = cacherStops + 1
    /\ UNCHANGED <<capTime, deals, lastRun>>

CapsNext == PassTime \/ (\E p \in Traders : Deal(p)) \/ QueryVolumes \/ ExecPipeline \/ CacherStops

-----------------------------------------------------------------------------
(* getUserVolumeByUID: a key that is not there is a volume of 0.           *)
CachedVolume(p) == IF p \in DOMAIN volumeKeys THEN volumeKeys[p].volume ELSE 0

(* IsRich does not look at kyced.                                          *)
IsRich(kyced, volume) == volume >= DailyLimit[FALSE]

(* Variant: only the limit of a transaction is looked at.                  *)
UserStatsOfOneTx(p, kyced) ==
    LET volume == CachedVolume(p)
    IN  [cap |-> TxLimit[kyced], rich |-> IsRich(kyced, volume),
         volume |-> volume, remaining |-> DailyLimit[kyced] - volume]

(* userStats: what the API answers for a user.                             *)
UserStats(p, kyced) ==
    IF p \in Banned THEN [cap |-> 0, rich |-> FALSE, volume |-> 0, remaining |-> 0]
    ELSE LET volume == CachedVolume(p)
             remaining == DailyLimit[kyced] - volume
         IN  [cap |-> Min({TxLimit[kyced], remaining}), rich |-> IsRich(kyced, volume),
              volume |-> volume, remaining |-> remaining]

CapsTypeOK ==
    /\ capTime \in 0 .. LastCapTick
    /\ \A p \in DOMAIN volumeKeys : p \in Traders /\ volumeKeys[p].volume \in 1 .. MaxDeals /\ volumeKeys[p].until > capTime
    /\ DOMAIN caching.volumes \subseteq Traders /\ cacherStops \in 0 .. MaxCacherStops

(* A user without KYC whom the API calls rich had traded as much as the    *)
(* daily limit in 24 hours that ended no longer ago than a key lives and a *)
(* run takes, whatever trades have left the window since.                  *)
RichHaveTraded ==
    \A p \in Traders : UserStats(p, FALSE).rich =>
        \E t \in (capTime - VolumeExpiry - RunTime) .. capTime : VolumeAt(p, t) >= DailyLimit[FALSE]

(* As long as the last run of the cacher that was completed is younger     *)
(* than a key lives, whatever runs failed since: the cap of a user and     *)
(* what he has traded in the last 24 hours exceed the daily limit by no    *)
(* more than what he has traded since that run asked for the volumes.      *)
CapsAreWithinLimit ==
    lastRun.any /\ capTime < lastRun.done + VolumeExpiry =>
        \A p \in Traders \ Banned, kyced \in BOOLEAN :
            UserStats(p, kyced).cap + VolumeAt(p, capTime)
                <= DailyLimit[kyced] + Cardinality({d \in deals : d.who = p /\ d.at >= lastRun.query})
=============================================================================
