--------------------------- MODULE AccountingRates ---------------------------
(***************************************************************************)
(* The accounting reserve-rates fetcher: once a day it stores the rates of *)
(* every reserve at the last block of the day.  A round fetches in phases, *)
(* the reserves that lag behind first; each phase is a call of Fetch with  *)
(* a goroutine that resolves the days (LastBlockResolver.Run), one         *)
(* goroutine per day that fetches and stores, and a select loop.           *)
(*                                                                         *)
(* The resolver finds the last block of a day (LastBlockDaily); here a     *)
(* block is its day.  A moment is a number: 2d in the course of day d,     *)
(* 2d + 1 the last block of day d.                                         *)
(***************************************************************************)
EXTENDS Integers, Sequences, FiniteSets, FiniteSetsExt, SequencesExt

CONSTANTS
    Reserves,
    Created,        \* Created[r]: the moment reserve r was deployed
    MaxDay,         \* bound: the last day
    MaxFailures     \* bound on the failing rates, ETH-USD rates and stores, the kills
                    \* and the ranges given by hand

ASSUME DailyAssumption ==
    /\ IsFiniteSet(Reserves)
    /\ \A r \in Reserves : Created[r] \in 2 .. 2 * MaxDay
    /\ MaxDay \in Nat \ {0} /\ MaxFailures \in Nat

VARIABLES
    today,
    known,          \* reserves of the addresses service
    stored,         \* token_rates: <<reserve, day>>
    daily,          \* the process: "down", "planning", "fetching", "waiting"
    once,           \* --from was given: the process fetches one range and ends
    phases,         \* the phases left of the round: [addrs, from, to]
    resolved,       \* LastResolved of the shared resolver, 0 if none
    resolvers,      \* the goroutines of Run; Last is that of the current Fetch
    jobs,           \* the goroutines of Fetch, in jobOrder
    completed,      \* lastCompletedJobOrder
    failed,
    failures,
    leftOut,        \* history: <<reserve, day>> that a job of the day stored without
    excused         \* history: a round had several phases, a day was resolved in vain,
                    \* or a range was given by hand

procVars == <<daily, once, phases, resolved, resolvers, jobs, completed, failed, excused>>
ratesVars == <<today, known, stored, procVars, failures, leftOut>>

Now == 2 * today
LastBlockOf(day) == 2 * day + 1
DayOf(moment) == moment \div 2

RatesInit ==
    /\ today = 1
    /\ known = {r \in Reserves : DayOf(Created[r]) = 1}
    /\ stored = {}
    /\ daily = "down" /\ once = FALSE /\ phases = {} /\ resolved = 0 /\ resolvers = <<>>
    /\ jobs = <<>> /\ completed = 0 /\ failed = FALSE
    /\ failures = 0 /\ leftOut = {} /\ excused = FALSE

Tomorrow ==
    /\ today < MaxDay
    /\ today' = today + 1
    /\ UNCHANGED <<known, stored, procVars, failures, leftOut>>

(* A reserve is added to the accounting-reserve-addresses service.         *)
AddReserve(r) ==
    /\ r \notin known /\ Created[r] <= Now
    /\ known' = known \cup {r}
    /\ UNCHANGED <<today, stored, procVars, failures, leftOut>>

(* The daemon, without --from.                                             *)
StartProcess ==
    /\ daily = "down"
    /\ daily' = "planning"
    /\ UNCHANGED <<today, known, stored, once, phases, resolved, resolvers, jobs, completed, failed,
                   failures, leftOut, excused>>

(* The process is gone, with all that it remembers.                        *)
ProcessEnds ==
    /\ daily' = "down" /\ once' = FALSE
    /\ phases' = {} /\ resolved' = 0 /\ resolvers' = <<>>
    /\ jobs' = <<>> /\ completed' = 0 /\ failed' = FALSE
    /\ UNCHANGED <<today, known, stored, leftOut, excused>>

-----------------------------------------------------------------------------
(* Planning.                                                               *)

(* GetLastResolvedBlockInfo: the newest time of the whole table, if the    *)
(* reserve has rates then, and else its creation.                          *)
LastFetched(r) ==
    LET days == {s[2] : s \in stored} IN
    IF days # {} /\ <<r, Max(days)>> \in stored THEN LastBlockOf(Max(days)) ELSE Created[r]

(* Reserves sorted by the moment they were last fetched; each moment       *)
(* starts a phase with all reserves up to it; `to` is 0 for the last one,  *)
(* which goes up to the time at which it begins.                           *)
Phases ==
    LET moments == {LastFetched(r) : r \in known}
        After(m) == {n \in moments : n > m}
    IN  { [addrs |-> {r \in known : LastFetched(r) <= m}, from |-> m,
           to |-> IF After(m) = {} THEN 0 ELSE Min(After(m))] : m \in moments }

(* The phases are fetched in their order.                                  *)
First(round) == CHOOSE p \in round : \A q \in round : p.from <= q.from

NewResolver(phase) == [pc |-> "next", day |-> 0, from |-> phase.from,
                       to |-> IF phase.to = 0 THEN Now ELSE phase.to]

(* The resolvers that may still do something, in their order: one whose    *)
(* Fetch has returned blocks for ever when it sends.                       *)
Running(rs) ==
    LET left == {k \in DOMAIN rs : rs[k].pc \in {"next", "resolving"}}
        Nth(n) == CHOOSE k \in left : Cardinality({j \in left : j <= k}) = n
    IN  [n \in 1 .. Cardinality(left) |-> rs[Nth(n)]]

(* Fetch(from, to, addrs) begins.                                          *)
StartFetch(rest) ==
    /\ daily' = "fetching"
    /\ phases' = rest
    /\ resolvers' = Append(Running(resolvers), NewResolver(First(rest)))
    /\ jobs' = <<>> /\ completed' = 0

StartRound ==
    /\ daily = "planning"
    /\ known # {}
    /\ StartFetch(Phases)
    /\ excused' = (excused \/ Cardinality(Phases) > 1)
    /\ UNCHANGED <<today, known, stored, once, resolved, failed, failures, leftOut>>

(* With --from: one Fetch for all reserves of the range, --to being the    *)
(* present by default.                                                     *)
StartRange(from, to) ==
    /\ daily = "down"
    /\ failures < MaxFailures
    /\ failures' = failures + 1
    /\ StartFetch({[addrs |-> known, from |-> from, to |-> to]})
    /\ once' = TRUE /\ excused' = TRUE
    /\ UNCHANGED <<today, known, stored, resolved, failed, leftOut>>

-----------------------------------------------------------------------------
(* LastBlockResolver.Run, goroutine k.                                     *)

Goroutine(k, place, day) ==
    /\ resolvers' = [resolvers EXCEPT ![k].pc = place, ![k].day = day]
    /\ UNCHANGED <<today, known, stored, daily, once, phases, jobs, completed, failed, failures, leftOut>>

(* Resolve(from) for the first day ever, Next() for any other, whatever    *)
(* from is.  The field day is that of the block that is looked for.        *)
Call(k) ==
    /\ resolvers[k].pc = "next"
    /\ Goroutine(k, "resolving", IF resolved = 0 THEN DayOf(resolvers[k].from) ELSE resolved + 1)
    /\ UNCHANGED <<resolved, excused>>

(* Fetch still receives from the goroutine: it has not returned, and has   *)
(* not been told of the end of the range.                                  *)
Heard(k) == daily = "fetching" /\ k = Len(resolvers)

(* Variant: the day need not be over.                                      *)
ReturnToday(k) ==
    /\ resolvers[k].pc = "resolving"
    /\ IF resolvers[k].day <= today
       THEN /\ resolved' = resolvers[k].day /\ Goroutine(k, "result", resolvers[k].day)
            /\ excused' = (excused \/ ~Heard(k))
       ELSE Goroutine(k, "notFound", resolvers[k].day) /\ UNCHANGED <<resolved, excused>>

(* The day is over and has its last block, or else ethereum.NotFound.      *)
Return(k) ==
    /\ resolvers[k].pc = "resolving"
    /\ IF resolvers[k].day < today
       THEN /\ resolved' = resolvers[k].day /\ Goroutine(k, "result", resolvers[k].day)
            /\ excused' = (excused \/ ~Heard(k))
       ELSE Goroutine(k, "notFound", resolvers[k].day) /\ UNCHANGED <<resolved, excused>>

(* resultChn: a job is started for the day.  Then NotFound is sent if the  *)
(* block is after `to`, but the loop goes on in any case.                  *)
ReceiveBlock ==
    /\ daily = "fetching"
    /\ Last(resolvers).pc = "result"
    /\ jobs' = Append(jobs, [day |-> Last(resolvers).day, pc |-> "fetching", rates |-> {}])
    /\ resolvers' = [resolvers EXCEPT ![Len(resolvers)].pc =
                        IF Last(resolvers).to < LastBlockOf(Last(resolvers).day) THEN "end" ELSE "next"]
    /\ UNCHANGED <<today, known, stored, daily, once, phases, resolved, completed, failed, failures, leftOut, excused>>

(* errChn: the end of the range, reported by Next, after which Run breaks, *)
(* or because the block is after `to`, after which it goes on.             *)
ReceiveEnd ==
    /\ daily = "fetching"
    /\ Last(resolvers).pc \in {"notFound", "end"}
    /\ daily' = "waiting"
    /\ resolvers' = [resolvers EXCEPT ![Len(resolvers)].pc = IF @ = "end" THEN "next" ELSE "gone"]
    /\ UNCHANGED <<today, known, stored, once, phases, resolved, jobs, completed, failed, failures, leftOut, excused>>

-----------------------------------------------------------------------------
(* The job of a day.                                                       *)

Job(k, place, rates) ==
    /\ k \in DOMAIN jobs
    /\ daily \in {"fetching", "waiting"}
    /\ jobs' = [jobs EXCEPT ![k].pc = place, ![k].rates = rates]
    /\ UNCHANGED <<today, known, daily, once, phases, resolved, resolvers, excused>>

(* The reserves of the Fetch whose contracts there were at the last block  *)
(* of a day; the others are skipped.                                       *)
DeployedBy(day) == {r \in First(phases).addrs : Created[r] <= LastBlockOf(day)}

FetchRates(k) ==
    /\ Job(k, "fetched", DeployedBy(jobs[k].day))
    /\ jobs[k].pc = "fetching"
    /\ UNCHANGED <<stored, completed, failed, failures, leftOut>>

(* The job goes on without the rates of some reserves.                     *)
GoOnWithout(k, missing) ==
    /\ failures < MaxFailures
    /\ Job(k, "fetched", DeployedBy(jobs[k].day) \ missing)
    /\ jobs[k].pc = "fetching"
    /\ failures' = failures + 1
    /\ UNCHANGED <<stored, completed, failed, leftOut>>

(* The tokens of some reserves cannot be got: the crawler skips those      *)
(* reserves and returns the rates of the others, and no error.             *)
LeaveOut(k) == \E missing \in SUBSET First(phases).addrs \ {{}} : GoOnWithout(k, missing)

(* Every attempt fails: `rates, err :=` hides the error that is returned,  *)
(* and the job goes on without rates.                                      *)
LoseRates(k) == GoOnWithout(k, First(phases).addrs)

(* The ETH-USD rate cannot be fetched, or the transaction fails.           *)
JobFails(k) ==
    /\ failures < MaxFailures
    /\ Job(k, "reporting", jobs[k].rates)
    /\ jobs[k].pc \in {"fetched", "storing"}
    /\ failed' = TRUE
    /\ failures' = failures + 1
    /\ UNCHANGED <<stored, completed, leftOut>>

(* serialDataStore: another job has failed.                                *)
Refuse(k) ==
    /\ failed
    /\ Job(k, "reporting", jobs[k].rates)
    /\ jobs[k].pc = "fetched"
    /\ UNCHANGED <<stored, completed, failed, failures, leftOut>>

(* Variant: no job waits for the one before it.                            *)
AnyTurn(k) ==
    /\ ~failed
    /\ Job(k, "storing", jobs[k].rates)
    /\ jobs[k].pc = "fetched"
    /\ UNCHANGED <<stored, completed, failed, failures, leftOut>>

(* serialDataStore: no job has failed and it is this one's turn.           *)
Turn(k) ==
    /\ ~failed
    /\ completed + 1 = k
    /\ Job(k, "storing", jobs[k].rates)
    /\ jobs[k].pc = "fetched"
    /\ UNCHANGED <<stored, completed, failed, failures, leftOut>>

(* The rows of a job, which may lack some of the reserves.                 *)
StoreRates(k) ==
    /\ Job(k, "done", jobs[k].rates)
    /\ jobs[k].pc = "storing"
    /\ stored' = stored \cup (jobs[k].rates \X {jobs[k].day})
    /\ leftOut' = leftOut \cup ((First(phases).addrs \ jobs[k].rates) \X {jobs[k].day})
    /\ UNCHANGED <<failed, failures>>

(* Variant: the job does not say that it completed.                        *)
UpdateUncounted(k) == StoreRates(k) /\ UNCHANGED completed

(* UpdateRatesRecords, a transaction that keeps the rows that are there.   *)
UpdateRatesRecords(k) == StoreRates(k) /\ completed' = k

(* rateErrChn: Fetch and Run return the error and the process exits.  No   *)
(* job is heard once the end of the range was reached.                     *)
ReceiveError ==
    /\ daily = "fetching"
    /\ \E k \in DOMAIN jobs : jobs[k].pc = "reporting"
    /\ ProcessEnds
    /\ UNCHANGED failures

(* wg.Wait returns: the next phase, or the round is over, or the process.  *)
FetchReturns ==
    /\ daily = "waiting"
    /\ \A k \in DOMAIN jobs : jobs[k].pc = "done"
    /\ UNCHANGED failures
    /\ IF once THEN ProcessEnds
       ELSE /\ IF phases # {First(phases)} THEN StartFetch(phases \ {First(phases)})
               ELSE /\ daily' = "planning" /\ phases' = {} /\ jobs' = <<>> /\ completed' = 0
                    /\ resolvers' = Running(resolvers)
            /\ UNCHANGED <<today, known, stored, once, resolved, failed, leftOut, excused>>

(* The process is killed, or exits because the resolver or the addresses   *)
(* service failed.                                                         *)
Kill ==
    /\ daily # "down"
    /\ failures < MaxFailures
    /\ ProcessEnds
    /\ failures' = failures + 1

Goroutines ==
    \/ \E k \in DOMAIN resolvers : daily # "down" /\ (Call(k) \/ Return(k))
    \/ \E k \in DOMAIN jobs :
          FetchRates(k) \/ Refuse(k) \/ Turn(k) \/ UpdateRatesRecords(k)

Main == StartProcess \/ StartRound \/ ReceiveBlock \/ ReceiveEnd \/ ReceiveError \/ FetchReturns

RatesNext ==
    \/ Tomorrow
    \/ \E r \in Reserves : AddReserve(r)
    \/ Main
    \/ Goroutines
    \/ \E from \in 1 .. today, to \in 1 .. MaxDay : StartRange(2 * from, 2 * to)
    \/ \E k \in DOMAIN jobs : LeaveOut(k) \/ LoseRates(k) \/ JobFails(k)
    \/ Kill

-----------------------------------------------------------------------------
(* Every variable has its type; a job that is done is one of a day that is *)
(* over.                                                                   *)
RatesTypeOK ==
    /\ today \in 1 .. MaxDay /\ known \subseteq Reserves
    /\ stored \subseteq Reserves \X (1 .. MaxDay) /\ leftOut \subseteq Reserves \X (1 .. MaxDay)
    /\ once \in BOOLEAN /\ daily \in {"down", "planning", "fetching", "waiting"}
    /\ resolved \in 0 .. today - 1
    /\ \A k \in DOMAIN resolvers : resolvers[k].pc \in {"next", "resolving", "result", "notFound", "end", "gone"}
    /\ \A k \in DOMAIN jobs :
          /\ jobs[k].pc \in {"fetching", "fetched", "reporting", "storing", "done"}
          /\ jobs[k].day \in 1 .. today - 1 /\ jobs[k].rates \subseteq Reserves
    /\ completed \in 0 .. Len(jobs)

(* The days of a Fetch are stored in their order: whichever job failed     *)
(* when, the stored ones are the first.                                    *)
DaysStoredInOrder ==
    \A k \in DOMAIN jobs : jobs[k].pc \in {"storing", "done"} =>
        \A j \in 1 .. k - 1 : jobs[j].pc = "done"

Days(r) == {s[2] : s \in {q \in stored : q[1] = r}}

(* Between two stored days of a reserve each day is stored, too, unless    *)
(* the job of that very day was stored without this reserve.               *)
EveryDay == \A r \in Reserves : \A d \in 1 .. MaxDay :
    (\E a, b \in Days(r) : a < d /\ d < b) => d \in Days(r) \/ <<r, d>> \in leftOut

(* As long as all reserves are at the same moment, so that a round has one *)
(* phase, no goroutine that went on after the end of its range has         *)
(* resolved a day, and no range was given by hand, a reserve has the rates *)
(* of every day, whenever the process failed or was killed, and whichever  *)
(* others were left out.                                                   *)
NoDayIsSkipped == ~excused => EveryDay

(* planer.go: a reserve that lags behind is fetched up to the others and   *)
(* then all of them are fetched "from 10 to now".  Nothing fails and no    *)
(* range is given by hand.                                                 *)
PhasesLeaveNoGap == failures = 0 => EveryDay

(* No Fetch is at work: the last one returned, the process exited, or a    *)
(* job failed when the end of the range was already reached.               *)
FetchHasEnded ==
    \/ daily \in {"planning", "down"}
    \/ daily = "waiting" /\ \E k \in DOMAIN jobs : jobs[k].pc = "reporting"
=============================================================================
