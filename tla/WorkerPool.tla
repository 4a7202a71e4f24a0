----------------------------- MODULE WorkerPool ------------------------------
(***************************************************************************)
(* One run of the trade logs crawler: the workers pool of                  *)
(* tradelogs/workers/workers.go, together with the goroutine that feeds it *)
(* and the select loop that watches it in                                  *)
(* tradelogs/cmd/trade-logs-crawler/main.go.                               *)
(*                                                                         *)
(* A pool starts a fixed number of worker goroutines.  Each takes a job    *)
(* from an unbuffered channel, fetches its blocks (with retries) and then  *)
(* waits, polling under a mutex, until every job of a lower order is       *)
(* stored before it stores its own.  A worker that fails reports the error *)
(* and stops; the main goroutine ends the process on the first error it    *)
(* receives.  The data of a job is abstract: a job is its order.           *)
(***************************************************************************)
EXTENDS Naturals, Sequences, FiniteSets

CONSTANTS Workers,    \* the worker goroutines (maxWorkers of them)
          NumJobs,    \* jobs created by the feeding goroutine
          Attempts,   \* how many times a fetch is tried
          NoWorker    \* nobody holds the mutex

ASSUME PoolAssumption ==
    /\ IsFiniteSet(Workers)
    /\ Workers # {}
    /\ NumJobs \in Nat \ {0}
    /\ Attempts \in Nat \ {0}
    /\ NoWorker \notin Workers

VARIABLES
    pc,         \* pc[w]: where worker w is
    job,        \* job[w]: order of the job w works on, 0 before its first
    tries,      \* tries[w]: failed fetches of that job so far
    mutex,      \* holder of Pool.mutex across steps, or NoWorker
    lastCompletedJobOrder,
    failed,     \* Pool.failed
    stored,     \* orders whose trade logs were written, oldest first
    errCh,      \* buffered errors; an error is the order of its job
    fed,        \* jobs handed over so far by the feeding goroutine
    feeder,     \* "feeding", "sending" (on doneCh) or "ended"
    main        \* "select", "shutdown", "drain", "finished" or "fatal"

poolVars == <<pc, job, tries, mutex, lastCompletedJobOrder, failed, stored>>
vars == <<poolVars, errCh, fed, feeder, main>>

(* The places of a worker: idle on the job channel, fetching, waiting for  *)
(* its turn, holding the mutex between the two writes of a save, sending   *)
(* its error before (fetch) or after (save) markAsFailed, polling in       *)
(* markAsFailed, and stopped; "gone" is stopped after a fetch that failed. *)
PC == {"idle", "fetching", "waiting", "saving", "reportFetch", "reportSave",
       "markFetch", "markSave", "stopped", "gone"}

Stopped == {"stopped", "gone"}

Orders == 1 .. NumJobs

(* Every variable has its type: a worker never works on a job that was not    *)
(* planned, nor retries more often than it may.                               *)
TypeOK ==
    /\ pc \in [Workers -> PC]
    /\ job \in [Workers -> 0 .. NumJobs]
    /\ tries \in [Workers -> 0 .. Attempts]
    /\ mutex \in Workers \cup {NoWorker}
    /\ lastCompletedJobOrder \in 0 .. NumJobs
    /\ failed \in BOOLEAN
    /\ stored \in Seq(Orders)
    /\ errCh \in Seq(Orders)
    /\ fed \in 0 .. NumJobs
    /\ feeder \in {"feeding", "sending", "ended"}
    /\ main \in {"select", "shutdown", "drain", "finished", "fatal"}

Init ==
    /\ pc = [w \in Workers |-> "idle"]
    /\ job = [w \in Workers |-> 0]
    /\ tries = [w \in Workers |-> 0]
    /\ mutex = NoWorker
    /\ lastCompletedJobOrder = 0
    /\ failed = FALSE
    /\ stored = <<>>
    /\ errCh = <<>>
    /\ fed = 0
    /\ feeder = "feeding"
    /\ main = "select"

(* log.Fatal ends the process: no goroutine takes a step any more.         *)
Running == main \notin {"fatal", "finished"}

OneSlotShort == Cardinality(Workers) - 1         \* variant: buffer too small

ErrChCapacity == Cardinality(Workers)

Goto(w, place) == pc' = [pc EXCEPT ![w] = place]

-----------------------------------------------------------------------------
(* The feeding goroutine.                                                  *)

(* p.Run(job): the job channel is unbuffered, so handing a job over and    *)
(* taking it are one step of the feeder and an idle worker.                *)
Run(w) ==
    /\ Running
    /\ feeder = "feeding"
    /\ fed < NumJobs
    /\ pc[w] = "idle"
    /\ fed' = fed + 1
    /\ job' = [job EXCEPT ![w] = fed + 1]
    /\ tries' = [tries EXCEPT ![w] = 0]
    /\ Goto(w, "fetching")
    /\ UNCHANGED <<mutex, lastCompletedJobOrder, failed, stored, errCh, feeder, main>>

(* Variant: the feeder does not wait for the job that is still running.    *)
DoneTooEarly ==
    /\ Running
    /\ feeder = "feeding"
    /\ fed = NumJobs
    /\ mutex = NoWorker
    /\ lastCompletedJobOrder + 1 >= fed
    /\ feeder' = "sending"
    /\ UNCHANGED <<poolVars, errCh, fed, main>>

(* The feeder polls GetLastCompleteJobOrder, under the mutex, until its    *)
(* last job is completed, and then sends on doneCh.                        *)
AllCompleted ==
    /\ Running
    /\ feeder = "feeding"
    /\ fed = NumJobs
    /\ mutex = NoWorker
    /\ lastCompletedJobOrder >= fed
    /\ feeder' = "sending"
    /\ UNCHANGED <<poolVars, errCh, fed, main>>

-----------------------------------------------------------------------------
(* A worker.                                                               *)

(* One attempt of the fetch succeeds.                                      *)
FetchOk(w) ==
    /\ Running
    /\ pc[w] = "fetching"
    /\ Goto(w, "waiting")
    /\ UNCHANGED <<job, tries, mutex, lastCompletedJobOrder, failed, stored, errCh, fed, feeder, main>>

(* One attempt fails: retry gives up after the configured attempts.        *)
FetchFails(w) ==
    /\ Running
    /\ pc[w] = "fetching"
    /\ tries' = [tries EXCEPT ![w] = @ + 1]
    /\ Goto(w, IF tries[w] + 1 < Attempts THEN "fetching" ELSE "reportFetch")
    /\ UNCHANGED <<job, mutex, lastCompletedJobOrder, failed, stored, errCh, fed, feeder, main>>

(* The worker's send on the error channel blocks while the buffer is full. *)
SendError(w) ==
    /\ Len(errCh) < ErrChCapacity
    /\ errCh' = Append(errCh, job[w])

(* Variant: a failed fetch is marked but never reported.                   *)
FetchErrorUnreported(w) ==
    /\ Running
    /\ pc[w] = "reportFetch"
    /\ Goto(w, "markFetch")
    /\ UNCHANGED <<job, tries, mutex, lastCompletedJobOrder, failed, stored, errCh, fed, feeder, main>>

(* A failed fetch is reported first and marked afterwards.                 *)
ReportFetchError(w) ==
    /\ Running
    /\ pc[w] = "reportFetch"
    /\ SendError(w)
    /\ Goto(w, "markFetch")
    /\ UNCHANGED <<job, tries, mutex, lastCompletedJobOrder, failed, stored, fed, feeder, main>>

(* The last thing a worker does after a failed save, or when it finds the  *)
(* pool marked as failed.                                                  *)
ReportSaveError(w) ==
    /\ Running
    /\ pc[w] = "reportSave"
    /\ SendError(w)
    /\ Goto(w, "stopped")
    /\ UNCHANGED <<job, tries, mutex, lastCompletedJobOrder, failed, stored, fed, feeder, main>>

(* markAsFailed polls until every job before this one is completed.        *)
MarkAsFailed(w) ==
    /\ Running
    /\ pc[w] \in {"markFetch", "markSave"}
    /\ mutex = NoWorker
    /\ job[w] = lastCompletedJobOrder + 1
    /\ failed' = TRUE
    /\ Goto(w, IF pc[w] = "markFetch" THEN "gone" ELSE "reportSave")
    /\ UNCHANGED <<job, tries, mutex, lastCompletedJobOrder, stored, errCh, fed, feeder, main>>

(* serialSaveTradeLogs, first test of the loop.                            *)
RefuseSave(w) ==
    /\ Running
    /\ pc[w] = "waiting"
    /\ mutex = NoWorker
    /\ failed
    /\ Goto(w, "reportSave")
    /\ UNCHANGED <<job, tries, mutex, lastCompletedJobOrder, failed, stored, errCh, fed, feeder, main>>

(* Variant: a save that does not wait for the job right before it.         *)
MayStoreOutOfOrder(w) ==
    /\ Running
    /\ pc[w] = "waiting"
    /\ mutex = NoWorker
    /\ ~failed
    /\ job[w] > lastCompletedJobOrder

MayStore(w) ==
    /\ Running
    /\ pc[w] = "waiting"
    /\ mutex = NoWorker
    /\ ~failed
    /\ job[w] = lastCompletedJobOrder + 1

(* SaveTradeLogs succeeds; the mutex is kept for SaveBigTrades.            *)
SaveTradeLogs(w) ==
    /\ MayStore(w)
    /\ stored' = Append(stored, job[w])
    /\ mutex' = w
    /\ Goto(w, "saving")
    /\ UNCHANGED <<job, tries, lastCompletedJobOrder, failed, errCh, fed, feeder, main>>

(* Variant: the error of SaveTradeLogs is lost and the job counts as done. *)
SaveErrorLost(w) ==
    /\ MayStore(w)
    /\ lastCompletedJobOrder' = lastCompletedJobOrder + 1
    /\ Goto(w, "idle")
    /\ UNCHANGED <<job, tries, mutex, failed, stored, errCh, fed, feeder, main>>

(* SaveTradeLogs fails: unlock, then markAsFailed.                         *)
SaveTradeLogsFails(w) ==
    /\ MayStore(w)
    /\ Goto(w, "markSave")
    /\ UNCHANGED <<job, tries, mutex, lastCompletedJobOrder, failed, stored, errCh, fed, feeder, main>>

(* SaveBigTrades succeeds and the job is complete.                         *)
SaveBigTrades(w) ==
    /\ Running
    /\ pc[w] = "saving"
    /\ lastCompletedJobOrder' = lastCompletedJobOrder + 1
    /\ mutex' = NoWorker
    /\ Goto(w, "idle")
    /\ UNCHANGED <<job, tries, failed, stored, errCh, fed, feeder, main>>

(* SaveBigTrades fails after the trade logs were written.                  *)
SaveBigTradesFails(w) ==
    /\ Running
    /\ pc[w] = "saving"
    /\ mutex' = NoWorker
    /\ Goto(w, "markSave")
    /\ UNCHANGED <<job, tries, lastCompletedJobOrder, failed, stored, errCh, fed, feeder, main>>

(* Shutdown closed the job channel: the range loop of an idle worker ends. *)
StopIdle(w) ==
    /\ main = "shutdown"
    /\ pc[w] = "idle"
    /\ Goto(w, "stopped")
    /\ UNCHANGED <<job, tries, mutex, lastCompletedJobOrder, failed, stored, errCh, fed, feeder, main>>

-----------------------------------------------------------------------------
(* The main goroutine.                                                     *)

(* case <-doneCh: Shutdown closes the job channel and waits.               *)
ReceiveDone ==
    /\ main = "select"
    /\ feeder = "sending"
    /\ feeder' = "ended"
    /\ main' = "shutdown"
    /\ UNCHANGED <<poolVars, errCh, fed>>

(* case err := <-ErrCh() with an error: log.Fatal.                         *)
ReceiveError ==
    /\ main \in {"select", "drain"}
    /\ errCh # <<>>
    /\ main' = "fatal"
    /\ errCh' = Tail(errCh)
    /\ UNCHANGED <<poolVars, fed, feeder>>

(* Shutdown's wg.Wait returns and the error channel is closed.             *)
WorkersStopped ==
    /\ main = "shutdown"
    /\ \A w \in Workers : pc[w] \in Stopped
    /\ main' = "drain"
    /\ UNCHANGED <<poolVars, errCh, fed, feeder>>

(* The closed and empty error channel yields nil: the run is over.         *)
ReceiveClosed ==
    /\ main = "drain"
    /\ errCh = <<>>
    /\ main' = "finished"
    /\ UNCHANGED <<poolVars, errCh, fed, feeder>>

-----------------------------------------------------------------------------
WorkerStep(w) ==
    \/ FetchOk(w)
    \/ FetchFails(w)
    \/ ReportFetchError(w)
    \/ ReportSaveError(w)
    \/ MarkAsFailed(w)
    \/ RefuseSave(w)
    \/ SaveTradeLogs(w)
    \/ SaveTradeLogsFails(w)
    \/ SaveBigTrades(w)
    \/ SaveBigTradesFails(w)
    \/ StopIdle(w)

FeederStep == AllCompleted \/ \E w \in Workers : Run(w)

MainStep == ReceiveDone \/ ReceiveError \/ WorkersStopped \/ ReceiveClosed

(* The loops of serialSaveTradeLogs, markAsFailed and the feeder sleep and *)
(* look again while it is not their turn: a poll changes nothing.          *)
Poll ==
    /\ Running
    /\ mutex = NoWorker
    /\ \/ \E w \in Workers :
            /\ pc[w] \in {"waiting", "markFetch", "markSave"}
            /\ job[w] # lastCompletedJobOrder + 1
       \/ feeder = "feeding" /\ fed = NumJobs /\ lastCompletedJobOrder < fed
    /\ UNCHANGED vars

(* A run that is over stays as it is.                                      *)
Over == ~Running /\ UNCHANGED vars

Next ==
    \/ FeederStep
    \/ MainStep
    \/ \E w \in Workers : WorkerStep(w)
    \/ Poll
    \/ Over

(* Every goroutine is scheduled; nothing else is assumed.  In particular a *)
(* select with both cases ready may always prefer either.                  *)
Fairness ==
    /\ WF_vars(FeederStep)
    /\ WF_vars(MainStep)
    /\ \A w \in Workers : WF_vars(WorkerStep(w))

Spec == Init /\ [][Next]_vars /\ Fairness

-----------------------------------------------------------------------------
(* What the pool is for: seen from the storage, the workers together are   *)
(* one serial writer that stores the jobs in order, each once, skips none  *)
(* and stops for good when the pool is marked as failed, whichever worker  *)
(* finishes first and whichever save fails half way.                       *)
Serial == INSTANCE SerialSaver WITH completed <- lastCompletedJobOrder,
                                    halted <- failed
ImplementsSerialSaver == Serial!Spec

(* The worker gave up fetching its job.                                    *)
GaveUp(w) == pc[w] \in {"reportFetch", "markFetch", "gone"}

(* Once the blocks of a job cannot be fetched, neither its trade logs nor  *)
(* those of any later job are ever in the storage, although later jobs may *)
(* have been fetched before (the assertion of TestWorkerPoolEncounterErr). *)
NothingStoredPastFailure ==
    \A w \in Workers : GaveUp(w) => Len(stored) < job[w]

(* main.go reports success (the closed channel yields nil) only for a run  *)
(* whose every job is stored and completed.                                *)
FinishedMeansAllStored ==
    main = "finished" =>
        /\ lastCompletedJobOrder = NumJobs
        /\ Len(stored) = NumJobs
        /\ ~failed

(* Shutdown is called only when no worker holds a job and no error waits   *)
(* to be read: otherwise wg.Wait would wait for a worker that polls, or a  *)
(* finished run would be reported as fatal.                                *)
ShutdownIsQuiet ==
    main \in {"shutdown", "drain"} =>
        /\ errCh = <<>>
        /\ \A w \in Workers : pc[w] \in {"idle"} \cup Stopped

(* The error channel has a slot for every worker, so a worker never blocks *)
(* on its report, even when nobody reads the channel.                      *)
ReportNeverBlocks ==
    \A w \in Workers :
        pc[w] \in {"reportFetch", "reportSave"} => Len(errCh) < ErrChCapacity

-----------------------------------------------------------------------------
(* The strengthening of the safety properties that every step preserves.   *)

(* A worker is busy while the job it holds is neither completed nor given  *)
(* up.                                                                     *)
Busy == PC \ ({"idle"} \cup Stopped)

(* No two workers ever hold the same job; jobs were handed over in order.  *)
JobsAreDistinct ==
    /\ \A w \in Workers : job[w] <= fed
    /\ \A v, w \in Workers : v # w /\ job[v] # 0 => job[v] # job[w]

(* The job of a busy worker is not completed, that of an idle one is.      *)
BusyIsAhead ==
    /\ lastCompletedJobOrder <= fed
    /\ \A w \in Workers :
        /\ pc[w] \in Busy => job[w] > lastCompletedJobOrder
        /\ pc[w] = "gone" => job[w] > lastCompletedJobOrder
        /\ pc[w] = "idle" => job[w] <= lastCompletedJobOrder
        /\ pc[w] = "fetching" => tries[w] < Attempts

(* The mutex is held across steps exactly between the two writes of a save.*)
MutexIsSaving ==
    \A w \in Workers :
        /\ pc[w] = "saving" <=> mutex = w
        /\ pc[w] = "saving" =>
            /\ job[w] = lastCompletedJobOrder + 1
            /\ Len(stored) = lastCompletedJobOrder + 1
            /\ ~failed

(* The storage is a prefix of the jobs, at most one ahead of the counter;  *)
(* when it is ahead, the job is being saved or its save failed half way.   *)
StoredIsPrefix ==
    /\ \A i \in DOMAIN stored : stored[i] = i
    /\ \/ Len(stored) = lastCompletedJobOrder
       \/ /\ Len(stored) = lastCompletedJobOrder + 1
          /\ \E w \in Workers :
                /\ pc[w] \in {"saving", "markSave", "reportSave", "stopped"}
                /\ job[w] = lastCompletedJobOrder + 1

(* An error in the channel is that of a job its worker gave up on, which   *)
(* therefore never completes.                                              *)
ErrorsAreAhead ==
    \A i \in DOMAIN errCh :
        /\ errCh[i] > lastCompletedJobOrder
        /\ \E w \in Workers : job[w] = errCh[i] /\ pc[w] \in {"markFetch"} \cup Stopped

(* The feeder ends, and main shuts down, only when every job is completed. *)
EndIsComplete ==
    /\ feeder # "feeding" => fed = NumJobs /\ lastCompletedJobOrder = NumJobs
    /\ main \in {"shutdown", "drain", "finished"} => feeder = "ended"
    /\ feeder = "ended" => main # "select"
    /\ failed => lastCompletedJobOrder < NumJobs

PoolInv ==
    /\ JobsAreDistinct
    /\ BusyIsAhead
    /\ MutexIsSaving
    /\ StoredIsPrefix
    /\ ErrorsAreAhead
    /\ EndIsComplete

(* TypeOK alone is not inductive: that lastCompletedJobOrder stays within  *)
(* the number of jobs rests on MutexIsSaving, and the bound of tries on    *)
(* BusyIsAhead.                                                            *)
IInv == TypeOK /\ PoolInv

(* When main leaves its select without an error, all is stored and nobody  *)
(* is at work any more or has an error that it would not see.              *)
CleanEnd == FinishedMeansAllStored /\ ShutdownIsQuiet

-----------------------------------------------------------------------------
(* No poll loop keeps the process alive for ever: every run ends, by a     *)
(* clean shutdown or by a fatal error.  (After a fetch that failed for good *)
(* CleanEnd leaves only the latter.)                                       *)
RunEnds == <>(main \in {"finished", "fatal"})
=============================================================================
