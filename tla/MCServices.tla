----------------------------- MODULE MCServices -----------------------------
(* The services that share no state, for TLC.  They are checked side by    *)
(* side, `program` being the one that runs.                                *)
EXTENDS ReserveTransactions, ReserveAddresses, ListedTokens, BurnedFees, AppNames, BlockTimeCache, ProfileCache,
    BinanceLimiter

CONSTANT Programs

VARIABLE program

vars == <<program, txVars, addressVars, tokensVars, feeVars, appVars, cacheVars, profileVars, limiterVars>>

Init ==
    /\ program \in Programs
    /\ TxInit /\ AddressesInit /\ TokensInit /\ FeesInit /\ AppsInit /\ CacheInit /\ ProfilesInit
    /\ LimiterInit

(* The programs that do not run.                                           *)
Idle(p, variables) == IF program = p THEN TRUE ELSE UNCHANGED variables

Running(p, A) ==
    /\ program = p
    /\ A
    /\ UNCHANGED program
    /\ Idle("transactions", txVars) /\ Idle("addresses", addressVars) /\ Idle("tokens", tokensVars)
    /\ Idle("fees", feeVars) /\ Idle("apps", appVars)
    /\ Idle("block times", cacheVars) /\ Idle("profiles", profileVars) /\ Idle("limiter", limiterVars)

Next ==
    \/ Running("transactions", TxNext)
    \/ Running("addresses", AddressesNext)
    \/ Running("tokens", TokensNext)
    \/ Running("fees", FeesNext)
    \/ Running("apps", AppsNext)
    \/ Running("block times", CacheNext)
    \/ Running("profiles", ProfilesNext)
    \/ Running("limiter", LimiterNext)

(* The chain grows, a process that runs works, and each of the two         *)
(* fetchers is run up to the head again and again: by cron, or as a daemon *)
(* that is restarted.                                                      *)
Fairness ==
    /\ WF_vars(Running("transactions", MineTxs))
    /\ WF_vars(Running("transactions", Working))
    /\ SF_vars(Running("transactions", StartRun(txHead)))
    /\ WF_vars(Running("fees", MineFees))
    /\ WF_vars(Running("fees", CrawlFees))
    /\ SF_vars(Running("fees", StartCrawl(feeHead)))

Spec == Init /\ [][Next]_vars /\ Fairness

(* Every service keeps its types.                                          *)
TypeOK == TxTypeOK /\ AddressesTypeOK /\ TokensTypeOK /\ FeesTypeOK /\ AppsTypeOK /\ LimiterTypeOK

(* The runs of the fetcher of reserve transactions, killed or not, leave   *)
(* out no transaction below the resume point, and less than a batch above; *)
(* the crawler of burned fees stores each event, and what it stores again  *)
(* is where two ranges meet.                                               *)
NothingIsLeftOut ==
    /\ NothingSkipped /\ CompletedLeavesLessThanBatch
    /\ NoFeeIsMissed /\ RepeatsAreChunkEnds

(* The versions that the APIs of reserve addresses and of listed tokens    *)
(* return with their data count its changes, all of them and nothing else, *)
(* and the data are never newer than the version they are returned with.   *)
VersionsCountChanges ==
    /\ VersionNamesOneContent /\ []ReadIsNotNewer
    /\ QuietRunKeepsVersion /\ ChangeIsCounted

(* What reserves list, and the addresses an application was given last,    *)
(* are what the APIs return.                                               *)
WhatWasGivenIsReturned == ListedIsReturned /\ AddressesAreTheLastGiven

(* Concurrent lookups keep the map of each cache and the list or heap that *)
(* evicts from it in step.                                                 *)
CachesAgree == CachedIsIndexed /\ GrowsByRacesOnly /\ HeapIsCounted /\ CachedHasNode

(* What is on the chain is stored in the end, by both crawlers.            *)
AllIsFetched ==
    /\ program = "transactions" => EventuallyFetched
    /\ program = "fees" => EveryFeeIsStored

(* A reserve, its pricing operator and a company wallet.                   *)
MCAddresses == <<"reserve", "operator", "wallet">>
MCTypeOf == [reserve |-> "Reserve", operator |-> "PricingOperator", wallet |-> "CompanyWallet"]

MCTxs == {
    [block |-> 1, kind |-> "normal",   addrs |-> {"reserve", "operator"}],
    [block |-> 2, kind |-> "erc20",    addrs |-> {"reserve", "wallet"}],
    [block |-> 3, kind |-> "internal", addrs |-> {"reserve", "operator"}],
    [block |-> 4, kind |-> "erc20",    addrs |-> {"wallet"}],
    [block |-> 5, kind |-> "normal",   addrs |-> {"operator"}] }

(* Three contracts of one symbol and name, created one after the other,    *)
(* and one of another token.                                               *)
MCKeyOf == [t \in Tokens |-> IF t = 4 THEN "DAI" ELSE "KNC"]
MCTimeOf == [t \in Tokens |-> t]

(* Two events in one block, and one right before the end of the chain.     *)
MCBlockOf == <<2, 3, 3, 5, 6>>
=============================================================================
