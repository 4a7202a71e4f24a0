-------------------------- MODULE WorkerPoolProofs ---------------------------
(***************************************************************************)
(* Proofs about WorkerPool, for every finite set of workers and every      *)
(* number of jobs and of attempts: the inductive invariant IInv, the type  *)
(* invariant and the safety properties that follow from it, and that every *)
(* step of the pool is a step of the serial writer or leaves its state     *)
(* unchanged.                                                              *)
(***************************************************************************)
EXTENDS WorkerPool, FiniteSetTheorems, TLAPS

(* A step that moves one worker, other than one whose error is in the      *)
(* channel, keeps every error the error of a job that cannot complete.     *)
LEMMA ErrorsKept ==
    ASSUME IInv,
           NEW w \in Workers, NEW place \in PC,
           pc[w] \in {"markFetch"} \cup Stopped => place \in Stopped,
           pc' = [pc EXCEPT ![w] = place],
           UNCHANGED <<job, errCh, lastCompletedJobOrder>>
    PROVE  ErrorsAreAhead'
<1> USE DEF IInv, PoolInv, TypeOK
<1> SUFFICES ASSUME NEW k \in DOMAIN errCh
             PROVE  \E v \in Workers : /\ job[v] = errCh[k]
                                       /\ pc'[v] \in {"markFetch"} \cup Stopped
  BY DEF ErrorsAreAhead
<1>1. PICK v \in Workers : job[v] = errCh[k] /\ pc[v] \in {"markFetch"} \cup Stopped
  BY DEF ErrorsAreAhead
<1>2. pc'[v] \in {"markFetch"} \cup Stopped
  <2>1. CASE v = w
    BY <1>1, <2>1
  <2>2. CASE v # w
    BY <1>1, <2>2
  <2>3. QED
    BY <2>1, <2>2
<1>3. QED
  BY <1>1, <1>2

(* A worker that reports its error is the witness for it.                  *)
LEMMA ErrorSent ==
    ASSUME IInv,
           NEW w \in Workers, NEW place \in {"markFetch", "stopped"},
           pc[w] \in {"reportFetch", "reportSave"},
           job[w] > lastCompletedJobOrder,
           pc' = [pc EXCEPT ![w] = place],
           errCh' = Append(errCh, job[w]),
           UNCHANGED <<job, lastCompletedJobOrder>>
    PROVE  ErrorsAreAhead'
<1> USE DEF IInv, PoolInv, TypeOK, Orders
<1> SUFFICES ASSUME NEW k \in DOMAIN errCh'
             PROVE  /\ errCh'[k] > lastCompletedJobOrder
                    /\ \E v \in Workers : /\ job[v] = errCh'[k]
                                          /\ pc'[v] \in {"markFetch"} \cup Stopped
  BY DEF ErrorsAreAhead
<1>1. job[w] \in Orders
  OBVIOUS
<1>2. CASE k = Len(errCh) + 1
  <2>1. errCh'[k] = job[w]
    BY <1>1, <1>2
  <2>2. pc'[w] \in {"markFetch"} \cup Stopped
    BY DEF Stopped
  <2>3. QED
    BY <2>1, <2>2
<1>3. CASE k \in DOMAIN errCh
  <2>1. errCh'[k] = errCh[k]
    BY <1>1, <1>3
  <2>2. PICK v \in Workers : job[v] = errCh[k] /\ pc[v] \in {"markFetch"} \cup Stopped
    BY <1>3 DEF ErrorsAreAhead
  <2>3. v # w /\ pc'[v] = pc[v]
    BY <2>2 DEF Stopped
  <2>4. QED
    BY <1>3, <2>1, <2>2, <2>3 DEF ErrorsAreAhead
<1>4. QED
  BY <1>1, <1>2, <1>3

(* When the turn of a worker comes, everything stored is completed: a save *)
(* that failed half way is still holding the next order.                   *)
LEMMA TurnMeansAllCompleted ==
    ASSUME IInv,
           NEW w \in Workers, MayStore(w)
    PROVE  Len(stored) = lastCompletedJobOrder
<1> USE DEF IInv, PoolInv, TypeOK, MayStore
<1> SUFFICES ASSUME Len(stored) = lastCompletedJobOrder + 1
             PROVE  FALSE
  BY DEF StoredIsPrefix
<1>1. PICK v \in Workers :
          /\ pc[v] \in {"saving", "markSave", "reportSave", "stopped"}
          /\ job[v] = lastCompletedJobOrder + 1
  BY DEF StoredIsPrefix
<1>2. v # w /\ job[v] = job[w] /\ job[v] # 0
  BY <1>1
<1>3. QED
  BY <1>2 DEF JobsAreDistinct

(* Initially nothing is stored, fetched or reported.                       *)
LEMMA InitIInv == Init => IInv
<1> SUFFICES ASSUME Init
             PROVE  IInv
  OBVIOUS
<1> USE PoolAssumption DEF Init
<1>1. TypeOK
  <2>1. stored \in Seq(Orders) /\ errCh \in Seq(Orders)
    OBVIOUS
  <2>2. /\ pc \in [Workers -> PC]
        /\ job \in [Workers -> 0 .. NumJobs]
        /\ tries \in [Workers -> 0 .. Attempts]
    BY DEF PC
  <2>3. failed \in BOOLEAN
    OBVIOUS
  <2>4. /\ mutex \in Workers \cup {NoWorker}
        /\ lastCompletedJobOrder \in 0 .. NumJobs
        /\ fed \in 0 .. NumJobs
    OBVIOUS
  <2>5. QED
    BY <2>1, <2>2, <2>3, <2>4 DEF TypeOK
<1>2. JobsAreDistinct /\ BusyIsAhead /\ MutexIsSaving
  BY DEF JobsAreDistinct, BusyIsAhead, MutexIsSaving, Busy, Stopped
<1>3. StoredIsPrefix /\ ErrorsAreAhead /\ EndIsComplete
  BY DEF StoredIsPrefix, ErrorsAreAhead, EndIsComplete
<1>4. QED
  BY <1>1, <1>2, <1>3 DEF IInv, PoolInv

(* Every action of the workers, of the feeder and of main keeps IInv.      *)
LEMMA NextIInv == IInv /\ [Next]_vars => IInv'
<1> SUFFICES ASSUME IInv, [Next]_vars
             PROVE  IInv'
  OBVIOUS
<1> USE PoolAssumption DEF IInv, TypeOK, PoolInv, Orders, PC, Stopped, Goto, poolVars
<1>1. ASSUME NEW w \in Workers, FetchOk(w)
      PROVE  IInv'
  <2>1. TypeOK'
    BY <1>1 DEF FetchOk
  <2>2. JobsAreDistinct'
    BY <1>1 DEF FetchOk, JobsAreDistinct
  <2>3. BusyIsAhead'
    BY <1>1 DEF FetchOk, BusyIsAhead, Busy
  <2>4. MutexIsSaving'
    BY <1>1 DEF FetchOk, MutexIsSaving
  <2>5. StoredIsPrefix'
    BY <1>1 DEF FetchOk, StoredIsPrefix
  <2>6. ErrorsAreAhead'
    BY <1>1, ErrorsKept DEF FetchOk
  <2>7. EndIsComplete'
    BY <1>1 DEF FetchOk, EndIsComplete
  <2>8. QED
    BY <2>1, <2>2, <2>3, <2>4, <2>5, <2>6, <2>7
<1>2. ASSUME NEW w \in Workers, FetchFails(w)
      PROVE  IInv'
  <2>1. TypeOK'
    BY <1>2 DEF FetchFails, BusyIsAhead
  <2>2. JobsAreDistinct'
    BY <1>2 DEF FetchFails, JobsAreDistinct
  <2>3. BusyIsAhead'
    BY <1>2 DEF FetchFails, BusyIsAhead, Busy
  <2>4. MutexIsSaving'
    BY <1>2 DEF FetchFails, MutexIsSaving
  <2>5. StoredIsPrefix'
    BY <1>2 DEF FetchFails, StoredIsPrefix
  <2>6. ErrorsAreAhead'
    BY <1>2, ErrorsKept DEF FetchFails
  <2>7. EndIsComplete'
    BY <1>2 DEF FetchFails, EndIsComplete
  <2>8. QED
    BY <2>1, <2>2, <2>3, <2>4, <2>5, <2>6, <2>7
<1>3. ASSUME NEW w \in Workers, ReportFetchError(w)
      PROVE  IInv'
  <2>1. TypeOK'
    <3>1. pc[w] \in Busy
      BY <1>3 DEF ReportFetchError, Busy
    <3>2. job[w] \in 1 .. NumJobs
      BY <3>1 DEF BusyIsAhead
    <3>3. errCh' \in Seq(1 .. NumJobs)
      BY <1>3, <3>2 DEF ReportFetchError, SendError
    <3>4. QED
      BY <1>3, <3>3 DEF ReportFetchError, SendError
  <2>2. JobsAreDistinct'
    BY <1>3 DEF ReportFetchError, SendError, JobsAreDistinct
  <2>3. BusyIsAhead'
    BY <1>3 DEF ReportFetchError, SendError, BusyIsAhead, Busy
  <2>4. MutexIsSaving'
    BY <1>3 DEF ReportFetchError, SendError, MutexIsSaving
  <2>5. StoredIsPrefix'
    BY <1>3 DEF ReportFetchError, SendError, StoredIsPrefix
  <2>6. ErrorsAreAhead'
    BY <1>3, ErrorSent DEF ReportFetchError, SendError, Busy, BusyIsAhead
  <2>7. EndIsComplete'
    BY <1>3 DEF ReportFetchError, SendError, EndIsComplete
  <2>8. QED
    BY <2>1, <2>2, <2>3, <2>4, <2>5, <2>6, <2>7
<1>4. ASSUME NEW w \in Workers, ReportSaveError(w)
      PROVE  IInv'
  <2>1. TypeOK'
    <3>1. pc[w] \in Busy
      BY <1>4 DEF ReportSaveError, Busy
    <3>2. job[w] \in 1 .. NumJobs
      BY <3>1 DEF BusyIsAhead
    <3>3. errCh' \in Seq(1 .. NumJobs)
      BY <1>4, <3>2 DEF ReportSaveError, SendError
    <3>4. QED
      BY <1>4, <3>3 DEF ReportSaveError, SendError
  <2>2. JobsAreDistinct'
    BY <1>4 DEF ReportSaveError, SendError, JobsAreDistinct
  <2>3. BusyIsAhead'
    BY <1>4 DEF ReportSaveError, SendError, BusyIsAhead, Busy
  <2>4. MutexIsSaving'
    BY <1>4 DEF ReportSaveError, SendError, MutexIsSaving
  <2>5. StoredIsPrefix'
    BY <1>4 DEF ReportSaveError, SendError, StoredIsPrefix
  <2>6. ErrorsAreAhead'
    BY <1>4, ErrorSent DEF ReportSaveError, SendError, Busy, BusyIsAhead
  <2>7. EndIsComplete'
    BY <1>4 DEF ReportSaveError, SendError, EndIsComplete
  <2>8. QED
    BY <2>1, <2>2, <2>3, <2>4, <2>5, <2>6, <2>7
<1>5. ASSUME NEW w \in Workers, MarkAsFailed(w)
      PROVE  IInv'
  <2>1. TypeOK'
    BY <1>5 DEF MarkAsFailed
  <2>2. JobsAreDistinct'
    BY <1>5 DEF MarkAsFailed, JobsAreDistinct
  <2>3. BusyIsAhead'
    BY <1>5 DEF MarkAsFailed, BusyIsAhead, Busy
  <2>4. MutexIsSaving'
    BY <1>5 DEF MarkAsFailed, MutexIsSaving
  <2>5. StoredIsPrefix'
    BY <1>5 DEF MarkAsFailed, StoredIsPrefix
  <2>6. ErrorsAreAhead'
    BY <1>5, ErrorsKept DEF MarkAsFailed
  <2>7. EndIsComplete'
    BY <1>5 DEF MarkAsFailed, EndIsComplete, BusyIsAhead
  <2>8. QED
    BY <2>1, <2>2, <2>3, <2>4, <2>5, <2>6, <2>7
<1>6. ASSUME NEW w \in Workers, RefuseSave(w)
      PROVE  IInv'
  <2>1. TypeOK'
    BY <1>6 DEF RefuseSave
  <2>2. JobsAreDistinct'
    BY <1>6 DEF RefuseSave, JobsAreDistinct
  <2>3. BusyIsAhead'
    BY <1>6 DEF RefuseSave, BusyIsAhead, Busy
  <2>4. MutexIsSaving'
    BY <1>6 DEF RefuseSave, MutexIsSaving
  <2>5. StoredIsPrefix'
    BY <1>6 DEF RefuseSave, StoredIsPrefix
  <2>6. ErrorsAreAhead'
    BY <1>6, ErrorsKept DEF RefuseSave
  <2>7. EndIsComplete'
    BY <1>6 DEF RefuseSave, EndIsComplete
  <2>8. QED
    BY <2>1, <2>2, <2>3, <2>4, <2>5, <2>6, <2>7
<1>7. ASSUME NEW w \in Workers, SaveTradeLogs(w)
      PROVE  IInv'
  <2>1. TypeOK'
    BY <1>7 DEF SaveTradeLogs, MayStore
  <2>2. JobsAreDistinct'
    BY <1>7 DEF SaveTradeLogs, MayStore, JobsAreDistinct
  <2>3. BusyIsAhead'
    BY <1>7 DEF SaveTradeLogs, MayStore, BusyIsAhead, Busy
  <2>4. Len(stored) = lastCompletedJobOrder
    BY <1>7, TurnMeansAllCompleted DEF SaveTradeLogs
  <2>5. MutexIsSaving'
    BY <1>7, <2>4 DEF SaveTradeLogs, MayStore, MutexIsSaving
  <2>6. StoredIsPrefix'
    BY <1>7, <2>4 DEF SaveTradeLogs, MayStore, StoredIsPrefix
  <2>7. ErrorsAreAhead'
    BY <1>7, ErrorsKept DEF SaveTradeLogs, MayStore
  <2>8. EndIsComplete'
    BY <1>7 DEF SaveTradeLogs, MayStore, EndIsComplete
  <2>9. QED
    BY <2>1, <2>2, <2>3, <2>4, <2>5, <2>6, <2>7, <2>8
<1>8. ASSUME NEW w \in Workers, SaveTradeLogsFails(w)
      PROVE  IInv'
  <2>1. TypeOK'
    BY <1>8 DEF SaveTradeLogsFails, MayStore
  <2>2. JobsAreDistinct'
    BY <1>8 DEF SaveTradeLogsFails, MayStore, JobsAreDistinct
  <2>3. BusyIsAhead'
    BY <1>8 DEF SaveTradeLogsFails, MayStore, BusyIsAhead, Busy
  <2>4. MutexIsSaving'
    BY <1>8 DEF SaveTradeLogsFails, MayStore, MutexIsSaving
  <2>5. StoredIsPrefix'
    BY <1>8 DEF SaveTradeLogsFails, MayStore, StoredIsPrefix
  <2>6. ErrorsAreAhead'
    BY <1>8, ErrorsKept DEF SaveTradeLogsFails, MayStore
  <2>7. EndIsComplete'
    BY <1>8 DEF SaveTradeLogsFails, MayStore, EndIsComplete
  <2>8. QED
    BY <2>1, <2>2, <2>3, <2>4, <2>5, <2>6, <2>7
<1>9. ASSUME NEW w \in Workers, SaveBigTrades(w)
      PROVE  IInv'
  <2>1. TypeOK'
    BY <1>9 DEF SaveBigTrades, MutexIsSaving
  <2>2. JobsAreDistinct'
    BY <1>9 DEF SaveBigTrades, JobsAreDistinct
  <2>3. BusyIsAhead'
    BY <1>9 DEF SaveBigTrades, BusyIsAhead, Busy, JobsAreDistinct, MutexIsSaving
  <2>4. MutexIsSaving'
    BY <1>9 DEF SaveBigTrades, MutexIsSaving, StoredIsPrefix
  <2>5. StoredIsPrefix'
    BY <1>9 DEF SaveBigTrades, StoredIsPrefix, MutexIsSaving
  <2>6. ErrorsAreAhead'
    <3> SUFFICES ASSUME NEW k \in DOMAIN errCh
                 PROVE  /\ errCh[k] > lastCompletedJobOrder + 1
                        /\ \E v \in Workers : /\ job'[v] = errCh[k]
                                              /\ pc'[v] \in {"markFetch"} \cup Stopped
      BY <1>9 DEF SaveBigTrades, ErrorsAreAhead
    <3>1. PICK v \in Workers : job[v] = errCh[k] /\ pc[v] \in {"markFetch"} \cup Stopped
      BY DEF ErrorsAreAhead
    <3>2. v # w /\ pc'[v] = pc[v] /\ job'[v] = job[v]
      BY <1>9, <3>1 DEF SaveBigTrades
    <3>3. job[w] = lastCompletedJobOrder + 1 /\ job[w] # job[v]
      BY <1>9, <3>2 DEF SaveBigTrades, MutexIsSaving, JobsAreDistinct
    <3>4. errCh[k] > lastCompletedJobOrder /\ errCh[k] \in Nat
      BY DEF ErrorsAreAhead
    <3>5. QED
      BY <3>1, <3>2, <3>3, <3>4
  <2>7. EndIsComplete'
    BY <1>9 DEF SaveBigTrades, EndIsComplete, MutexIsSaving, BusyIsAhead
  <2>8. QED
    BY <2>1, <2>2, <2>3, <2>4, <2>5, <2>6, <2>7
<1>10. ASSUME NEW w \in Workers, SaveBigTradesFails(w)
      PROVE  IInv'
  <2>1. TypeOK'
    BY <1>10 DEF SaveBigTradesFails
  <2>2. JobsAreDistinct'
    BY <1>10 DEF SaveBigTradesFails, JobsAreDistinct
  <2>3. BusyIsAhead'
    BY <1>10 DEF SaveBigTradesFails, BusyIsAhead, Busy
  <2>4. MutexIsSaving'
    BY <1>10 DEF SaveBigTradesFails, MutexIsSaving
  <2>5. StoredIsPrefix'
    BY <1>10 DEF SaveBigTradesFails, StoredIsPrefix, MutexIsSaving
  <2>6. ErrorsAreAhead'
    BY <1>10, ErrorsKept DEF SaveBigTradesFails
  <2>7. EndIsComplete'
    BY <1>10 DEF SaveBigTradesFails, EndIsComplete
  <2>8. QED
    BY <2>1, <2>2, <2>3, <2>4, <2>5, <2>6, <2>7
<1>11. ASSUME NEW w \in Workers, StopIdle(w)
      PROVE  IInv'
  <2>1. TypeOK'
    BY <1>11 DEF StopIdle
  <2>2. JobsAreDistinct'
    BY <1>11 DEF StopIdle, JobsAreDistinct
  <2>3. BusyIsAhead'
    BY <1>11 DEF StopIdle, BusyIsAhead, Busy
  <2>4. MutexIsSaving'
    BY <1>11 DEF StopIdle, MutexIsSaving
  <2>5. StoredIsPrefix'
    BY <1>11 DEF StopIdle, StoredIsPrefix, BusyIsAhead
  <2>6. ErrorsAreAhead'
    BY <1>11, ErrorsKept DEF StopIdle
  <2>7. EndIsComplete'
    BY <1>11 DEF StopIdle, EndIsComplete
  <2>8. QED
    BY <2>1, <2>2, <2>3, <2>4, <2>5, <2>6, <2>7
<1>12. ASSUME NEW w \in Workers, Run(w)
      PROVE  IInv'
  <2>1. TypeOK'
    BY <1>12 DEF Run
  <2>2. JobsAreDistinct'
    <3>1. fed \in Nat /\ fed' = fed + 1 /\ \A v \in Workers : job[v] \in Nat /\ job[v] <= fed
      BY <1>12 DEF Run, JobsAreDistinct
    <3>2. \A v \in Workers : job'[v] = IF v = w THEN fed + 1 ELSE job[v]
      BY <1>12 DEF Run
    <3>3. \A u, v \in Workers : u # v /\ job[u] # 0 => job[u] # job[v]
      BY DEF JobsAreDistinct
    <3>4. ASSUME NEW v \in Workers
          PROVE  job'[v] <= fed'
      <4>1. CASE v = w
        BY <3>1, <3>2, <4>1
      <4>2. CASE v # w
        BY <3>1, <3>2, <4>2
      <4>3. QED
        BY <4>1, <4>2
    <3>5. ASSUME NEW u \in Workers, NEW v \in Workers, u # v, job'[u] # 0
          PROVE  job'[u] # job'[v]
      <4>1. CASE u = w
        <5>1. job'[u] = fed + 1 /\ job'[v] = job[v]
          BY <3>2, <3>5, <4>1
        <5>2. QED
          BY <3>1, <5>1
      <4>2. CASE v = w
        <5>1. job'[v] = fed + 1 /\ job'[u] = job[u]
          BY <3>2, <3>5, <4>2
        <5>2. QED
          BY <3>1, <5>1
      <4>3. CASE u # w /\ v # w
        <5>1. job'[v] = job[v] /\ job'[u] = job[u]
          BY <3>2, <4>3
        <5>2. QED
          BY <3>3, <3>5, <5>1
      <4>4. QED
        BY <4>1, <4>2, <4>3
    <3>6. QED
      BY <3>4, <3>5 DEF JobsAreDistinct
  <2>3. BusyIsAhead'
    BY <1>12 DEF Run, BusyIsAhead, Busy
  <2>4. MutexIsSaving'
    BY <1>12 DEF Run, MutexIsSaving
  <2>5. StoredIsPrefix'
    <3>1. CASE Len(stored) = lastCompletedJobOrder
      BY <1>12, <3>1 DEF Run, StoredIsPrefix
    <3>2. CASE Len(stored) = lastCompletedJobOrder + 1
      <4>1. PICK v \in Workers :
                /\ pc[v] \in {"saving", "markSave", "reportSave", "stopped"}
                /\ job[v] = lastCompletedJobOrder + 1
        BY <3>2 DEF StoredIsPrefix
      <4>2. v # w /\ pc'[v] = pc[v] /\ job'[v] = job[v]
        BY <1>12, <4>1 DEF Run
      <4>3. QED
        BY <1>12, <3>2, <4>1, <4>2 DEF Run, StoredIsPrefix
    <3>3. QED
      BY <3>1, <3>2 DEF StoredIsPrefix
  <2>6. ErrorsAreAhead'
    <3> SUFFICES ASSUME NEW k \in DOMAIN errCh
                 PROVE  \E v \in Workers : /\ job'[v] = errCh[k]
                                           /\ pc'[v] \in {"markFetch"} \cup Stopped
      BY <1>12 DEF Run, ErrorsAreAhead
    <3>1. PICK v \in Workers : job[v] = errCh[k] /\ pc[v] \in {"markFetch"} \cup Stopped
      BY DEF ErrorsAreAhead
    <3>2. v # w /\ pc'[v] = pc[v] /\ job'[v] = job[v]
      BY <1>12, <3>1 DEF Run
    <3>3. QED
      BY <3>1, <3>2
  <2>7. EndIsComplete'
    BY <1>12 DEF Run, EndIsComplete
  <2>8. QED
    BY <2>1, <2>2, <2>3, <2>4, <2>5, <2>6, <2>7
<1>13. CASE AllCompleted
  <2>1. TypeOK'
    BY <1>13 DEF AllCompleted
  <2>2. EndIsComplete'
    BY <1>13 DEF AllCompleted, EndIsComplete, BusyIsAhead
  <2>3. JobsAreDistinct' /\ BusyIsAhead' /\ MutexIsSaving' /\ StoredIsPrefix' /\ ErrorsAreAhead'
    BY <1>13 DEF AllCompleted, JobsAreDistinct, BusyIsAhead, MutexIsSaving, StoredIsPrefix, ErrorsAreAhead, Busy
  <2>4. QED
    BY <2>1, <2>2, <2>3
<1>14. CASE ReceiveDone
  <2>1. TypeOK'
    BY <1>14 DEF ReceiveDone
  <2>2. EndIsComplete'
    BY <1>14 DEF ReceiveDone, EndIsComplete
  <2>3. JobsAreDistinct' /\ BusyIsAhead' /\ MutexIsSaving' /\ StoredIsPrefix' /\ ErrorsAreAhead'
    BY <1>14 DEF ReceiveDone, JobsAreDistinct, BusyIsAhead, MutexIsSaving, StoredIsPrefix, ErrorsAreAhead, Busy
  <2>4. QED
    BY <2>1, <2>2, <2>3
<1>15. CASE ReceiveError
  <2>1. TypeOK'
    BY <1>15 DEF ReceiveError
  <2>2. ErrorsAreAhead'
    <3>1. /\ Len(errCh) \in Nat /\ DOMAIN errCh = 1 .. Len(errCh)
          /\ DOMAIN errCh' = 1 .. (Len(errCh) - 1)
          /\ \A k \in 1 .. (Len(errCh) - 1) : errCh'[k] = errCh[k + 1]
      BY <1>15 DEF ReceiveError
    <3>2. pc' = pc /\ job' = job /\ lastCompletedJobOrder' = lastCompletedJobOrder
      BY <1>15 DEF ReceiveError, poolVars
    <3>3. ASSUME NEW k \in DOMAIN errCh'
          PROVE  /\ errCh'[k] > lastCompletedJobOrder'
                 /\ \E w \in Workers : job'[w] = errCh'[k] /\ pc'[w] \in {"markFetch"} \cup Stopped
      <4>1. k + 1 \in DOMAIN errCh /\ errCh'[k] = errCh[k + 1]
        BY <3>1, <3>3
      <4>2. QED
        BY <3>2, <4>1 DEF ErrorsAreAhead
    <3>4. QED
      BY <3>3 DEF ErrorsAreAhead
  <2>3. EndIsComplete'
    BY <1>15 DEF ReceiveError, EndIsComplete
  <2>4. JobsAreDistinct' /\ BusyIsAhead' /\ MutexIsSaving' /\ StoredIsPrefix'
    BY <1>15 DEF ReceiveError, JobsAreDistinct, BusyIsAhead, MutexIsSaving, StoredIsPrefix, Busy
  <2>5. QED
    BY <2>1, <2>2, <2>3, <2>4
<1>16. CASE WorkersStopped
  <2>1. TypeOK'
    BY <1>16 DEF WorkersStopped
  <2>2. EndIsComplete'
    BY <1>16 DEF WorkersStopped, EndIsComplete
  <2>3. JobsAreDistinct' /\ BusyIsAhead' /\ MutexIsSaving' /\ StoredIsPrefix' /\ ErrorsAreAhead'
    BY <1>16 DEF WorkersStopped, JobsAreDistinct, BusyIsAhead, MutexIsSaving, StoredIsPrefix, ErrorsAreAhead, Busy
  <2>4. QED
    BY <2>1, <2>2, <2>3
<1>17. CASE ReceiveClosed
  <2>1. TypeOK'
    BY <1>17 DEF ReceiveClosed
  <2>2. EndIsComplete'
    BY <1>17 DEF ReceiveClosed, EndIsComplete
  <2>3. JobsAreDistinct' /\ BusyIsAhead' /\ MutexIsSaving' /\ StoredIsPrefix' /\ ErrorsAreAhead'
    BY <1>17 DEF ReceiveClosed, JobsAreDistinct, BusyIsAhead, MutexIsSaving, StoredIsPrefix, ErrorsAreAhead, Busy
  <2>4. QED
    BY <2>1, <2>2, <2>3
<1>18. CASE UNCHANGED vars
  BY <1>18 DEF vars, Busy, JobsAreDistinct, BusyIsAhead, MutexIsSaving,
                 StoredIsPrefix, ErrorsAreAhead, EndIsComplete
<1>19. QED
  BY <1>1, <1>2, <1>3, <1>4, <1>5, <1>6, <1>7, <1>8, <1>9, <1>10, <1>11, <1>12, <1>13, <1>14, <1>15, <1>16, <1>17, <1>18
  DEF Next, FeederStep, MainStep, WorkerStep, Poll, Over

(* IInv holds in every state of every run.                                 *)
THEOREM Invariance == Spec => []IInv
BY InitIInv, NextIInv, PTL DEF Spec

(* Every variable of the pool keeps its type: the counter never passes the *)
(* number of jobs and the retry loop never the number of attempts.         *)
THEOREM TypeCorrect == Spec => []TypeOK
BY Invariance, PTL DEF IInv

(* Neither the job a worker could not fetch nor any later one is stored.   *)
THEOREM NothingPastFailure == Spec => []NothingStoredPastFailure
<1>1. IInv => NothingStoredPastFailure
  <2> SUFFICES ASSUME IInv, NEW w \in Workers, GaveUp(w)
               PROVE  Len(stored) < job[w]
    BY DEF NothingStoredPastFailure
  <2> USE DEF IInv, PoolInv, TypeOK
  <2>1. job[w] > lastCompletedJobOrder
    BY DEF GaveUp, BusyIsAhead, Busy, PC, Stopped
  <2>2. CASE Len(stored) = lastCompletedJobOrder
    BY <2>1, <2>2
  <2>3. CASE Len(stored) = lastCompletedJobOrder + 1
    <3>1. PICK v \in Workers :
              /\ pc[v] \in {"saving", "markSave", "reportSave", "stopped"}
              /\ job[v] = lastCompletedJobOrder + 1
      BY <2>3 DEF StoredIsPrefix
    <3>2. v # w
      BY <3>1 DEF GaveUp
    <3>3. job[w] # lastCompletedJobOrder + 1
      BY <3>1, <3>2 DEF JobsAreDistinct
    <3>4. QED
      BY <2>1, <2>3, <3>3
  <2>4. QED
    BY <2>2, <2>3 DEF StoredIsPrefix
<1>2. QED
  BY <1>1, Invariance, PTL

(* A run that main reports as finished stored and completed all its jobs.  *)
THEOREM FinishedIsComplete == Spec => []FinishedMeansAllStored
<1>1. IInv => FinishedMeansAllStored
  <2> SUFFICES ASSUME IInv, main = "finished"
               PROVE  /\ lastCompletedJobOrder = NumJobs
                      /\ Len(stored) = NumJobs
                      /\ ~failed
    BY DEF FinishedMeansAllStored
  <2> USE PoolAssumption DEF IInv, PoolInv, TypeOK
  <2>1. lastCompletedJobOrder = NumJobs /\ ~failed
    BY DEF EndIsComplete
  <2>2. Len(stored) # NumJobs + 1
    BY DEF StoredIsPrefix, Orders
  <2>3. QED
    BY <2>1, <2>2 DEF StoredIsPrefix
<1>2. QED
  BY <1>1, Invariance, PTL

(* When main shuts the pool down no worker is busy and no error waits.     *)
THEOREM QuietShutdown == Spec => []ShutdownIsQuiet
<1>1. IInv => ShutdownIsQuiet
  <2> SUFFICES ASSUME IInv, main \in {"shutdown", "drain"}
               PROVE  /\ errCh = <<>>
                      /\ \A w \in Workers : pc[w] \in {"idle"} \cup Stopped
    BY DEF ShutdownIsQuiet
  <2> USE PoolAssumption DEF IInv, PoolInv, TypeOK
  <2>1. lastCompletedJobOrder = NumJobs
    BY DEF EndIsComplete
  <2>2. errCh = <<>>
    <3> SUFFICES ASSUME errCh # <<>>
                 PROVE  FALSE
      OBVIOUS
    <3>1. 1 \in DOMAIN errCh /\ errCh[1] \in Orders
      OBVIOUS
    <3>2. errCh[1] > NumJobs
      BY <2>1, <3>1 DEF ErrorsAreAhead
    <3>3. QED
      BY <3>1, <3>2 DEF Orders
  <2>3. ASSUME NEW w \in Workers
        PROVE  pc[w] \in {"idle"} \cup Stopped
    BY <2>1 DEF BusyIsAhead, Busy
  <2>4. QED
    BY <2>2, <2>3
<1>2. QED
  BY <1>1, Invariance, PTL

(* Both together: when main stops without an error the pool is done.       *)
THEOREM EndIsClean == Spec => []CleanEnd
BY FinishedIsComplete, QuietShutdown, PTL DEF CleanEnd

(* No two errors in the channel are of the same job: a worker reports one  *)
(* and takes no job any more.                                              *)
ErrorsAreDistinct == \A i, j \in DOMAIN errCh : errCh[i] = errCh[j] => i = j

(* A worker that reports has not reported before.                          *)
LEMMA NextDistinct == IInv /\ ErrorsAreDistinct /\ [Next]_vars => ErrorsAreDistinct'
<1> SUFFICES ASSUME IInv, ErrorsAreDistinct, [Next]_vars
             PROVE  ErrorsAreDistinct'
  OBVIOUS
<1> USE DEF IInv, PoolInv, TypeOK
<1>1. ASSUME NEW w \in Workers, pc[w] \in {"reportFetch", "reportSave"}, errCh' = Append(errCh, job[w])
      PROVE  ErrorsAreDistinct'
  <2>1. job[w] > lastCompletedJobOrder /\ job[w] \in Orders
    BY <1>1 DEF BusyIsAhead, Busy, PC, Stopped, Orders
  <2>2. ASSUME NEW k \in DOMAIN errCh
        PROVE  errCh[k] # job[w]
    <3>1. PICK v \in Workers : job[v] = errCh[k] /\ pc[v] \in {"markFetch"} \cup Stopped
      BY DEF ErrorsAreAhead
    <3>2. v # w
      BY <1>1, <3>1 DEF Stopped
    <3>3. QED
      BY <2>1, <3>1, <3>2 DEF JobsAreDistinct, Orders
  <2>3. /\ DOMAIN errCh = 1 .. Len(errCh) /\ Len(errCh) \in Nat
        /\ DOMAIN errCh' = 1 .. (Len(errCh) + 1)
        /\ errCh'[Len(errCh) + 1] = job[w]
        /\ \A k \in 1 .. Len(errCh) : errCh'[k] = errCh[k]
    BY <1>1, <2>1
  <2>4. QED
    BY <2>2, <2>3 DEF ErrorsAreDistinct
<1>2. ASSUME errCh # <<>>, errCh' = Tail(errCh)
      PROVE  ErrorsAreDistinct'
  <2>1. /\ DOMAIN errCh = 1 .. Len(errCh) /\ Len(errCh) \in Nat
        /\ DOMAIN errCh' = 1 .. (Len(errCh) - 1)
        /\ \A k \in 1 .. (Len(errCh) - 1) : errCh'[k] = errCh[k + 1]
    BY <1>2
  <2>2. ASSUME NEW i \in DOMAIN errCh', NEW j \in DOMAIN errCh', errCh'[i] = errCh'[j]
        PROVE  i = j
    <3>1. i + 1 \in DOMAIN errCh /\ j + 1 \in DOMAIN errCh /\ errCh[i + 1] = errCh[j + 1]
      BY <2>1, <2>2
    <3>2. i + 1 = j + 1 /\ i \in Nat /\ j \in Nat
      BY <2>1, <2>2, <3>1 DEF ErrorsAreDistinct
    <3>3. QED
      BY <3>2
  <2>3. QED
    BY <2>2 DEF ErrorsAreDistinct
<1>3. CASE UNCHANGED errCh
  BY <1>3 DEF ErrorsAreDistinct
<1>4. QED
  BY <1>1, <1>2, <1>3
  DEF Next, FeederStep, MainStep, WorkerStep, Poll, Over, vars, Run, AllCompleted, ReceiveDone,
      ReceiveError, WorkersStopped, ReceiveClosed, FetchOk, FetchFails, ReportFetchError,
      ReportSaveError, SendError, MarkAsFailed, RefuseSave, SaveTradeLogs, SaveTradeLogsFails,
      SaveBigTrades, SaveBigTradesFails, StopIdle

(* Different elements for the numbers up to n are at least n elements.     *)
LEMMA AtLeastAsMany ==
    ASSUME NEW T, IsFiniteSet(T), NEW n \in Nat, NEW f \in [1 .. n -> T],
           \A i, j \in 1 .. n : f[i] = f[j] => i = j
    PROVE  n <= Cardinality(T)
<1> DEFINE S == 1 .. n
<1>1. IsFiniteSet(S) /\ Cardinality(S) = IF 1 > n THEN 0 ELSE n - 1 + 1
  BY FS_Interval, Z3
<1>2. Cardinality(S) = n
  BY <1>1
<1>3. Cardinality(T) \in Nat
  BY FS_CardinalityType
<1>4. f \in [S -> T] /\ \A i, j \in S : f[i] = f[j] => i = j
  OBVIOUS
<1> HIDE DEF S
<1>5. ~(Cardinality(T) < Cardinality(S))
  BY <1>1, <1>4, FS_PigeonHole
<1>6. QED
  BY <1>2, <1>3, <1>5

(* The errors in the channel are those of as many workers, none of which   *)
(* has still to report: there is a slot for the one that has.              *)
LEMMA SlotForEach ==
    ASSUME IInv, ErrorsAreDistinct
    PROVE  ReportNeverBlocks
<1> USE DEF IInv, PoolInv, TypeOK
<1> SUFFICES ASSUME NEW w \in Workers, pc[w] \in {"reportFetch", "reportSave"}
             PROVE  Len(errCh) < ErrChCapacity
  BY DEF ReportNeverBlocks
<1> DEFINE others == Workers \ {w}
           reporter == [k \in 1 .. Len(errCh) |->
                            CHOOSE v \in Workers : job[v] = errCh[k] /\ pc[v] \in {"markFetch"} \cup Stopped]
<1>1. Len(errCh) \in Nat /\ DOMAIN errCh = 1 .. Len(errCh)
  OBVIOUS
<1>2. \A k \in 1 .. Len(errCh) : /\ reporter[k] \in Workers /\ job[reporter[k]] = errCh[k]
                                 /\ pc[reporter[k]] \in {"markFetch"} \cup Stopped
  BY <1>1 DEF ErrorsAreAhead
<1> HIDE DEF reporter
<1>3. \A k \in 1 .. Len(errCh) : reporter[k] \in others
  BY <1>2 DEF Stopped
<1>4. \A i, j \in 1 .. Len(errCh) : reporter[i] = reporter[j] => i = j
  BY <1>1, <1>2 DEF ErrorsAreDistinct
<1>5. IsFiniteSet(others) /\ Cardinality(others) = Cardinality(Workers) - 1 /\ Cardinality(Workers) \in Nat
  BY PoolAssumption, FS_RemoveElement, FS_CardinalityType
<1>6. reporter \in [1 .. Len(errCh) -> others]
  BY <1>3 DEF reporter
<1>7. Len(errCh) <= Cardinality(others)
  BY <1>1, <1>4, <1>5, <1>6, AtLeastAsMany
<1>8. QED
  BY <1>1, <1>5, <1>7 DEF ErrChCapacity

(* A worker never blocks on its report, even when nobody reads the channel *)
(* any more.                                                               *)
THEOREM ReportsNeverBlock == Spec => []ReportNeverBlocks
<1>1. Init => ErrorsAreDistinct
  BY DEF Init, ErrorsAreDistinct
<1>2. IInv /\ IInv' /\ ErrorsAreDistinct /\ [Next]_vars => ErrorsAreDistinct'
  BY NextDistinct
<1>3. QED
  BY <1>1, <1>2, SlotForEach, Invariance, PTL DEF Spec

(* Seen from the storage the pool is the serial writer: each step is one   *)
(* of its steps or leaves what was stored, the counter and the mark alone. *)
THEOREM PoolImplementsSerialSaver == Spec => ImplementsSerialSaver
<1>1. Init => Serial!Init
  BY DEF Init, Serial!Init
<1>2. IInv /\ [Next]_vars => [Serial!Next]_(Serial!vars)
  <2> SUFFICES ASSUME IInv, [Next]_vars
               PROVE  [Serial!Next]_(Serial!vars)
    OBVIOUS
  <2> USE DEF Serial!Next, Serial!vars
  <2>1. ASSUME NEW w \in Workers, SaveTradeLogs(w)
        PROVE  Serial!Store
    <3>1. Len(stored) = lastCompletedJobOrder
      BY <2>1, TurnMeansAllCompleted DEF SaveTradeLogs
    <3>2. lastCompletedJobOrder < NumJobs
      BY <2>1, PoolAssumption DEF SaveTradeLogs, MayStore, IInv, TypeOK
    <3>3. QED
      BY <2>1, <3>1, <3>2 DEF SaveTradeLogs, MayStore, Serial!Store
  <2>2. ASSUME NEW w \in Workers, SaveBigTrades(w)
        PROVE  Serial!Complete
    BY <2>2 DEF SaveBigTrades, Serial!Complete, IInv, PoolInv, MutexIsSaving
  <2>3. ASSUME NEW w \in Workers, MarkAsFailed(w)
        PROVE  Serial!Halt
    BY <2>3 DEF MarkAsFailed, Serial!Halt
  <2>4. ASSUME NEW w \in Workers,
               \/ FetchOk(w) \/ FetchFails(w) \/ ReportFetchError(w)
               \/ ReportSaveError(w) \/ RefuseSave(w) \/ SaveTradeLogsFails(w)
               \/ SaveBigTradesFails(w) \/ StopIdle(w) \/ Run(w)
        PROVE  UNCHANGED Serial!vars
    BY <2>4 DEF FetchOk, FetchFails, ReportFetchError, ReportSaveError, RefuseSave,
                SaveTradeLogsFails, SaveBigTradesFails, StopIdle, Run
  <2>5. ASSUME \/ AllCompleted \/ MainStep \/ UNCHANGED vars
        PROVE  UNCHANGED Serial!vars
    BY <2>5 DEF AllCompleted, MainStep, ReceiveDone, ReceiveError, WorkersStopped,
                ReceiveClosed, poolVars, vars
  <2>6. QED
    BY <2>1, <2>2, <2>3, <2>4, <2>5 DEF Next, FeederStep, WorkerStep, Poll, Over
<1>3. QED
  BY <1>1, <1>2, Invariance, PTL DEF Spec, ImplementsSerialSaver, Serial!Spec
=============================================================================
