-------------------------- MODULE PevmReadsProofs ---------------------------
(***************************************************************************)
(* Proofs about Pevm, for every block, number of workers and chain state:  *)
(* what the transactions have read is what is there when the workers have  *)
(* left, and what they read of the senders of higher ones has the nonce of *)
(* the storage.                                                            *)
(***************************************************************************)
EXTENDS PevmProofs, Serial

USE ZenonT(60) DEF Goto, At, sharedVars, idxVars, statusVars, depVars, resultVars, versionVars

-----------------------------------------------------------------------------
(***************************************************************************)
(* The old entries of a transaction are ESTIMATEs.                         *)
(***************************************************************************)

\* A worker that replaces the old entries goes on to do so until the
\* transaction is executed.
LEMMA ReplacesStep ==
    ASSUME TypeOK, ExecutorInv, MemoryInv, PevmTypeOK, MayFail = Txs, Restartable = Nat,
           NEW w \in Workers, WorkerStep(w), NEW t \in Txs, NEW l \in Locs,
           l \in last_locations[t].write, Replaces(w, l, t)
    PROVE  Estimated(l, t)'
<1>1. tx_idx[w] = t /\ pc \in [Workers -> Labels] /\ tx_idx \in [Workers -> Txs]
      /\ status \in [Txs -> Statuses]
    BY DEF Replaces, TypeOK
<1>2. CASE SchedulerStep(w)
    <2>1. pc[w] = "finish_exec"
        BY <1>2, SchedulerStepAt, StageAt DEF TakenFrom, Replaces, Recording
    <2>2. SetExecuted(w) /\ status[t] = "Executing"
        BY <1>1, <1>2, <2>1, SchedulerStepAt DEF TakenFrom, ExecutorInv, Runs
    <2>3. Finished(t)'
        BY <1>1, <2>2 DEF SetExecuted, Finished
    <2> QED
        BY <2>3 DEF Estimated
<1>3. CASE InnerStep(w) /\ UNCHANGED vars
    <2>1. pc' = pc /\ tx_idx' = tx_idx
        BY <1>3 DEF vars
    <2>2. \/ /\ run[w].stage = "idle" /\ pc[w] = "estimate"
             /\ run'[w].stage = "estimating"
             /\ run'[w].todo = last_locations[tx_idx[w]].write
          \/ /\ run[w].stage = "writing" /\ pc[w] = "execute"
             /\ run'[w].stage = "removing" /\ run'[w].todo = StaleWrites(w)
             /\ Writes(w)' = Writes(w)
          \/ \E k \in run[w].todo :
                /\ RecordWrite(w, k) \/ RecordRemove(w, k) \/ EstimateLocation(w, k)
                /\ run'[w].stage = run[w].stage /\ run'[w].todo = run[w].todo \ {k}
                /\ Writes(w)' = Writes(w)
        BY <1>3, InnerCases DEF Replaces
    <2>3. CASE /\ run[w].stage = "idle" /\ pc[w] = "estimate"
               /\ run'[w].todo = last_locations[tx_idx[w]].write
        BY <1>1, <2>1, <2>3 DEF Replaces, Estimated
    <2>4. CASE /\ run[w].stage = "writing" /\ pc[w] = "execute"
               /\ run'[w].stage = "removing" /\ run'[w].todo = StaleWrites(w)
        <3>1. l \notin StaleWrites(w)
            BY <2>4 DEF Replaces, StaleWrites
        <3> QED
            BY <1>1, <2>1, <2>4, <3>1 DEF Replaces, Estimated
    <2>5. ASSUME NEW k \in run[w].todo,
                 RecordWrite(w, k) \/ RecordRemove(w, k) \/ EstimateLocation(w, k),
                 run'[w].stage = run[w].stage, run'[w].todo = run[w].todo \ {k},
                 Writes(w)' = Writes(w)
          PROVE  Estimated(l, t)'
        <3>1. CASE k # l \/ pc[w] # "estimate"
            BY <1>1, <2>1, <2>5, <3>1 DEF Replaces, Estimated
        <3>2. CASE k = l /\ pc[w] = "estimate"
            <4>1. EstimateLocation(w, l)
                BY <2>5, <3>2 DEF RecordWrite, RecordRemove, Doing
            <4>2. data' = [data EXCEPT ![l][t] = Estimate]
                BY <1>1, <4>1 DEF EstimateLocation, MarkEstimate
            <4>3. data'[l][t] = Estimate /\ Estimate' = Estimate
                BY <4>2, OneEntry DEF MemoryInv, Estimate
            <4> QED
                BY <4>3 DEF Estimated
        <3> QED
            BY <3>1, <3>2
    <2> QED
        BY <2>2, <2>3, <2>4, <2>5
<1>4. CASE AnswerStep(w)
    <2>1. RecordDone(w)
        BY <1>4, AnswerCases DEF Replaces
    <2>2. pc'[w] = "finish_exec" /\ tx_idx'[w] = t
        BY <1>1, <2>1 DEF RecordDone, VmOk
    <2> QED
        BY <2>2 DEF Replaces, Estimated
<1> QED
    BY <1>2, <1>3, <1>4, PevmWorker

\* Until a transaction is executed again, what it wrote last is an ESTIMATE, or
\* has been replaced by its worker.
LEMMA EstimatedStep ==
    ASSUME TypeOK, ExecutorInv, MemoryInv, PevmTypeOK, MayFail = Txs, Restartable = Nat,
           \A t \in Txs : \A l \in last_locations[t].write : Estimated(l, t),
           NEW w \in Workers, WorkerStep(w),
           NEW t \in Txs, NEW l \in last_locations'[t].write
    PROVE  Estimated(l, t)'
<1>1. /\ pc \in [Workers -> Labels] /\ tx_idx \in [Workers -> Txs]
      /\ status \in [Txs -> Statuses]
    BY DEF TypeOK
<1>2. CASE RecordDone(w) /\ tx_idx[w] = t
    <2>1. pc'[w] = "finish_exec" /\ tx_idx'[w] = t
        BY <1>1, <1>2 DEF RecordDone, VmOk
    <2> QED
        BY <2>1 DEF Replaces, Estimated
<1>3. CASE last_locations'[t] = last_locations[t]
    <2>1. l \in last_locations[t].write /\ l \in Locs /\ Estimated(l, t)
        BY <1>3 DEF PevmTypeOK
    <2>2. /\ OthersGoOn(w) /\ [Next]_vars
          /\ \/ SchedulerStep(w) /\ UNCHANGED <<memoryVars, run>>
             \/ InnerStep(w) /\ UNCHANGED vars
             \/ AnswerStep(w) /\ EnvironmentStep(w) /\ run' = [run EXCEPT ![w] = Idle]
        BY PevmWorker
    <2>3. ASSUME NEW v \in Workers, Replaces(v, l, t) PROVE Estimated(l, t)'
        <3>1. CASE v = w
            BY <2>1, <2>3, <3>1, ReplacesStep
        <3>2. CASE v # w
            <4>1. pc'[v] = pc[v] /\ tx_idx'[v] = tx_idx[v] /\ run'[v] = run[v]
                BY <2>2, <3>2 DEF OthersGoOn
            <4>2. Writes(v)' = Writes(v)
                BY <4>1, SameWrites
            <4>3. Replaces(v, l, t)'
                BY <2>3, <4>1, <4>2 DEF Replaces
            <4> QED
                BY <4>3 DEF Estimated
        <3> QED
            BY <3>1, <3>2
    <2>4. CASE Finished(t)
        <3>1. CASE Finished(t)'
            BY <3>1 DEF Estimated
        <3>2. CASE ~Finished(t)'
            <4>1. PICK v \in Workers : TryValidationAbort(v) /\ tx_idx[v] = t
                BY <2>2, <2>4, <3>2, UnfinishSteps
            <4>2. pc[v] = "try_abort" /\ pc'[v] = "estimate" /\ tx_idx'[v] = t
                BY <1>1, <2>4, <4>1 DEF TryValidationAbort, MayAbort
            <4>3. run'[v].stage = "idle"
                <5>1. run[v].stage = "idle"
                    BY <4>2, StageAt
                <5>2. pc'[v] # pc[v]
                    BY <4>2
                <5>3. v = w /\ ~UNCHANGED vars
                    BY <2>2, <5>2 DEF OthersGoOn, vars
                <5>4. ~EnvironmentStep(w)
                    BY <4>2, <5>3, Guards
                <5> QED
                    BY <2>2, <5>1, <5>3, <5>4
            <4> QED
                BY <4>2, <4>3 DEF Replaces, Estimated
        <3> QED
            BY <3>1, <3>2
    <2>5. CASE data[l][t] = Estimate
        <3>1. CASE data'[l][t] = data[l][t]
            BY <2>5, <3>1 DEF Estimated, Estimate
        <3>2. ASSUME NEW k \in run[w].todo, InnerStep(w), UNCHANGED vars,
                     RecordWrite(w, k) \/ RecordRemove(w, k) \/ EstimateLocation(w, k),
                     run'[w].stage = run[w].stage, run'[w].todo = run[w].todo \ {k},
                     Writes(w)' = Writes(w), data'[l][t] # data[l][t]
              PROVE  Estimated(l, t)'
            <4>1. PICK entry : data' = [data EXCEPT ![k][tx_idx[w]] = entry]
                BY <3>2, ZenonT(30) DEF RecordWrite, RecordRemove, EstimateLocation,
                   Insert, Remove, MarkEstimate
            <4>2. tx_idx[w] \in Txs /\ tx_idx' = tx_idx
                BY <1>1, <3>2 DEF vars
            <4>3. k = l /\ tx_idx[w] = t
                BY <2>1, <3>2, <4>1, <4>2, OneEntry DEF MemoryInv
            <4>4. ~EstimateLocation(w, k)
                <5>1. SUFFICES ASSUME EstimateLocation(w, k) PROVE FALSE
                    OBVIOUS
                <5>2. data' = [data EXCEPT ![l][t] = Estimate]
                    BY <4>3, <5>1 DEF EstimateLocation, MarkEstimate
                <5> QED
                    BY <2>1, <2>5, <3>2, <5>2, OneEntry DEF MemoryInv
            <4>5. CASE RecordWrite(w, k)
                <5>1. run[w].stage = "writing"
                    BY <4>5 DEF RecordWrite, Doing
                <5>2. k \in DOMAIN Writes(w)
                    BY <5>1 DEF MemoryInv, RecordedSoFar
                <5> QED
                    BY <3>2, <4>2, <4>3, <5>1, <5>2 DEF Replaces, Estimated
            <4>6. CASE RecordRemove(w, k)
                <5>1. run[w].stage = "removing"
                    BY <4>6 DEF RecordRemove, Doing
                <5> QED
                    BY <3>2, <4>2, <4>3, <5>1 DEF Replaces, Estimated
            <4> QED
                BY <3>2, <4>4, <4>5, <4>6
        <3>3. CASE UNCHANGED memoryVars
            BY <3>1, <3>3 DEF memoryVars
        <3>4. CASE InnerStep(w) /\ UNCHANGED vars
            BY <3>1, <3>2, <3>3, <3>4, InnerCases
        <3>5. CASE AnswerStep(w)
            <4>1. data' = data
                BY <3>5, AnswerCases DEF RecordDone, memoryVars
            <4> QED
                BY <3>1, <4>1
        <3> QED
            BY <2>2, <3>3, <3>4, <3>5
    <2> QED
        BY <2>1, <2>3, <2>4, <2>5 DEF Estimated
<1> QED
    BY <1>2, <1>3, LastLocationsStep

-----------------------------------------------------------------------------
(***************************************************************************)
(* finish_execution and min_validation_idx.                                *)
(***************************************************************************)

\* finish_execution is entered with a recorded execution only, and keeps the
\* worker's task and the result of the execution.
LEMMA FinishingSteps ==
    ASSUME TypeOK, NEW w \in Workers, SchedulerStep(w), Finishing(w)'
    PROVE  Finishing(w) /\ tx_idx' = tx_idx /\ UNCHANGED resultVars
<1>1. pc \in [Workers -> Labels] /\ execution_idx \in Nat /\ validation_idx \in Nat
    BY DEF TypeOK
<1>2. CASE LoadExecutionIdx(w) \/ LoadValidationIdx(w) \/ LoadNumValidated(w)
           \/ LoadMinValidationIdx(w)
    BY <1>1, <1>2 DEF LoadExecutionIdx, LoadValidationIdx, LoadNumValidated,
       LoadMinValidationIdx, Finishing
<1>3. CASE FetchAddValidation(w) \/ LockForValidation(w)
    BY <1>1, <1>3 DEF FetchAddValidation, LockForValidation, Finishing
<1>4. CASE FetchAddExecution(w) \/ LockForExecution(w)
    BY <1>1, <1>4 DEF FetchAddExecution, LockForExecution, Finishing
<1>5. CASE LockBlocking(w) \/ AbortSelf(w) \/ PushDependent(w) \/ CountDependency(w)
    BY <1>1, <1>5 DEF LockBlocking, AbortSelf, PushDependent, CountDependency, Finishing
<1>6. CASE LowerMinValidationIdx(w) \/ ValidateFromMin(w) \/ CheckValidationIdx(w)
           \/ ValidateFromNext(w)
    BY <1>1, <1>6 DEF LowerMinValidationIdx, ValidateFromMin, CheckValidationIdx,
       ValidateFromNext, Finishing
<1>7. CASE TryValidationAbort(w) \/ ReadyAborted(w) \/ ValidateHigher(w)
           \/ CheckExecutionIdx(w)
    BY <1>1, <1>7 DEF TryValidationAbort, ReadyAborted, ValidateHigher,
       CheckExecutionIdx, Finishing
<1>8. CASE MarkValidated(w) \/ AfterTask(w)
    BY <1>1, <1>8 DEF MarkValidated, AfterTask, Finishing
<1>9. CASE \/ SetExecuted(w) \/ LockDependents(w) \/ ResumeDependent(w)
           \/ LowerExecutionIdx(w) \/ \E d \in Txs : CountDownDependent(w, d)
    <2>1. Finishing(w)
        BY <1>9, Guards DEF Finishing
    <2>2. UNCHANGED versionVars /\ UNCHANGED resultVars
        BY <1>9, Zenon DEF SetExecuted, LockDependents, ResumeDependent,
           LowerExecutionIdx, CountDownDependent
    <2> QED
        BY <2>1, <2>2
<1> QED
    BY <1>2, <1>3, <1>4, <1>5, <1>6, <1>7, <1>8, <1>9, Zenon DEF SchedulerStep

\* The minimum is only lowered, and by nothing else than finish_execution.
LEMMA MinLowers ==
    ASSUME TypeOK, MemoryInv, MayFail = Txs, Restartable = Nat,
           NEW w \in Workers, WorkerStep(w)
    PROVE  /\ min_validation_idx \in Nat /\ min_validation_idx' \in Nat
           /\ \/ min_validation_idx' = min_validation_idx
              \/ /\ SchedulerStep(w) /\ LowerMinValidationIdx(w)
                 /\ min_validation_idx' < min_validation_idx
<1>1. \/ min_validation_idx' = min_validation_idx
      \/ /\ SchedulerStep(w) \/ EnvironmentStep(w) 
         /\ LowerMinValidationIdx(w) /\ min_validation_idx' < min_validation_idx
    BY PevmWorker, IdxLowers DEF vars
<1>2. LowerMinValidationIdx(w) => SchedulerStep(w)
    BY DEF SchedulerStep
<1>3. min_validation_idx \in Nat /\ next_validation_idx[w] \in Nat
    BY IndexTypes, TxsFacts, SMTT(30) DEF TypeOK
<1>4. LowerMinValidationIdx(w) => min_validation_idx' \in Nat
    BY <1>3 DEF LowerMinValidationIdx, MinWith, Lower
<1> QED
    BY <1>1, <1>2, <1>3, <1>4

\* The first execution of a transaction writes a new location.
LEMMA FirstRecordDone ==
    ASSUME TypeOK, ExecutorInv, MemoryInv, FirstRecord, NEW w \in Workers, RecordDone(w)
    PROVE  /\ pc'[w] = "finish_exec" /\ tx_idx' = tx_idx
           /\ tx_idx[w] < min_validation_idx => wrote_new_location'[w]
           /\ next_validation_idx'[w] \in NextValidation(tx_idx[w])
<1> DEFINE t == tx_idx[w]
           writes == DOMAIN Writes(w)
<1>1. /\ pc \in [Workers -> Labels] /\ t \in Txs
      /\ wrote_new_location \in [Workers -> BOOLEAN]
      /\ next_validation_idx \in [Workers -> 0 .. BlockSize]
    BY DEF TypeOK
<1>2. VmOk(w, WroteNewLocation(t, writes),
           NextValidationIdx(t, DOMAIN run[w].origins, writes)) /\ pc[w] = "execute"
    BY DEF RecordDone, Doing
<1>3. /\ pc'[w] = "finish_exec" /\ tx_idx' = tx_idx
      /\ wrote_new_location'[w] = WroteNewLocation(t, writes)
      /\ next_validation_idx'[w] = NextValidationIdx(t, DOMAIN run[w].origins, writes)
    BY <1>1, <1>2 DEF VmOk
<1>4. NextValidationIdx(t, DOMAIN run[w].origins, writes) \in NextValidation(t)
    BY DEF NextValidationIdx, NextValidation
<1>5. ASSUME t < min_validation_idx PROVE WroteNewLocation(t, writes)
    <2>1. Runs(w) /\ status[t] = "Executing" /\ ~Finished(t)
        BY <1>2 DEF Runs, ExecutorInv, Finished
    <2>2. ASSUME NEW v \in Workers, pc[v] = "finish_exec", tx_idx[v] = t PROVE FALSE
        BY <1>2, <2>1, <2>2 DEF ExecutorInv, SingleExecutor, Runs
    <2>3. last_locations[t].write = {}
        BY <1>1, <1>5, <2>1, <2>2 DEF FirstRecord
    <2>4. Beneficiary \in writes
        BY WriteSetFacts DEF Writes, WritesOf
    <2> QED
        BY <2>3, <2>4 DEF WroteNewLocation
<1> QED
    BY <1>3, <1>4, <1>5

\* A transaction below the minimum is recorded once, and lowers the minimum to
\* its own index or the next.
LEMMA FirstRecordStep ==
    ASSUME TypeOK, MinInv, ExecutorInv, MemoryInv, PevmTypeOK, FirstRecord,
           MayFail = Txs, Restartable = Nat, NEW w \in Workers, WorkerStep(w)
    PROVE  FirstRecord'
<1>1. /\ pc \in [Workers -> Labels] /\ tx_idx \in [Workers -> Txs]
      /\ status \in [Txs -> Statuses] /\ Txs \subseteq Nat
    BY TxsFacts DEF TypeOK
<1>2. /\ OthersGoOn(w) /\ [Next]_vars
      /\ \/ SchedulerStep(w) /\ UNCHANGED <<memoryVars, run>>
         \/ InnerStep(w) /\ UNCHANGED vars
         \/ AnswerStep(w) /\ EnvironmentStep(w)
    BY PevmWorker
<1>3. min_validation_idx \in Nat /\ min_validation_idx' \in Nat
      /\ min_validation_idx' <= min_validation_idx
    BY MinLowers, SMTT(30)
<1>4. ASSUME NEW t \in Txs, t < min_validation_idx'
      PROVE  \/ Finished(t)' \/ last_locations'[t].write = {}
             \/ \E v \in Workers : pc'[v] = "finish_exec" /\ tx_idx'[v] = t
    <2>1. t < min_validation_idx
        BY <1>1, <1>3, <1>4, SMTT(30)
    <2>2. CASE Finished(t)
        <3>1. ASSUME NEW v \in Workers, TryValidationAbort(v), tx_idx[v] = t PROVE FALSE
            <4>1. pc[v] = "try_abort"
                BY <3>1, Guards
            <4>2. t >= min_validation_idx
                BY <3>1, <4>1 DEF MinInv, Validates
            <4> QED
                BY <1>1, <1>3, <2>1, <4>2, SMTT(30)
        <3> QED
            BY <1>2, <2>2, <3>1, UnfinishSteps
    <2>3. CASE last_locations[t].write = {}
        <3>1. CASE RecordDone(w) /\ tx_idx[w] = t
            BY <3>1, FirstRecordDone
        <3> QED
            BY <2>3, <3>1, LastLocationsStep
    <2>4. ASSUME NEW v \in Workers, pc[v] = "finish_exec", tx_idx[v] = t
          PROVE  Finished(t)' \/ (pc'[v] = "finish_exec" /\ tx_idx'[v] = t)
        <3>1. CASE v # w
            BY <1>2, <2>4, <3>1 DEF OthersGoOn
        <3>2. CASE v = w
            <4>1. ~EnvironmentStep(w)
                BY <2>4, <3>2, Guards
            <4>2. CASE SchedulerStep(w)
                <5>1. SetExecuted(w) /\ status[t] = "Executing"
                    BY <2>4, <3>2, <4>2, SchedulerStepAt DEF TakenFrom, ExecutorInv, Runs
                <5> QED
                    BY <1>1, <2>4, <3>2, <5>1 DEF SetExecuted, Finished
            <4>3. CASE UNCHANGED vars
                BY <2>4, <4>3 DEF vars
            <4> QED
                BY <1>2, <4>1, <4>2, <4>3
        <3> QED
            BY <3>1, <3>2
    <2> QED
        BY <2>1, <2>2, <2>3, <2>4 DEF FirstRecord
<1>5. ASSUME NEW v \in Workers, Finishing(v)'
      PROVE  /\ tx_idx'[v] < min_validation_idx' => wrote_new_location'[v]
             /\ next_validation_idx'[v] \in NextValidation(tx_idx'[v])
    <2>1. CASE /\ Finishing(v) /\ tx_idx'[v] = tx_idx[v]
               /\ wrote_new_location'[v] = wrote_new_location[v]
               /\ next_validation_idx'[v] = next_validation_idx[v]
        <3>1. /\ tx_idx[v] < min_validation_idx => wrote_new_location[v]
              /\ next_validation_idx[v] \in NextValidation(tx_idx[v])
            BY <2>1 DEF FirstRecord
        <3>2. tx_idx[v] \in Nat
            BY IndexTypes
        <3>3. tx_idx[v] < min_validation_idx' => tx_idx[v] < min_validation_idx
            BY <1>3, <3>2, SMTT(30)
        <3> QED
            BY <2>1, <3>1, <3>3
    <2>2. CASE v # w \/ UNCHANGED vars
        BY <1>2, <1>5, <2>1, <2>2 DEF OthersGoOn, Finishing, vars
    <2>3. CASE v = w /\ SchedulerStep(w)
        BY <1>5, <2>1, <2>3, FinishingSteps
    <2>4. CASE v = w /\ AnswerStep(w)
        <3>1. CASE RecordDone(w)
            <4>1. min_validation_idx' = min_validation_idx
                BY <3>1 DEF RecordDone, VmOk
            <4> QED
                BY <2>4, <3>1, <4>1, FirstRecordDone
        <3>2. CASE ~RecordDone(w)
            <4>1. \/ \E b : VmReadError(w, b) \/ VmExecutionError(w)
                  \/ ReadSetInvalid(w) \/ ReadSetValid(w) \/ EstimatesWritten(w)
                BY <2>4, <3>2, ZenonT(30) DEF AnswerStep, BlockedRead, AwaitFunds,
                   Rejected, StorageFails, ValidateFails, ValidateDone, EstimateDone
            <4>2. pc'[w] \in {"add_dep", "ret_none", "error_twice", "try_abort",
                              "finish_valid", "ready_aborted"}
                BY <1>1, <4>1 DEF VmReadError, VmExecutionError, ReadSetInvalid,
                   ReadSetValid, EstimatesWritten
            <4> QED
                BY <1>5, <2>4, <4>2 DEF Finishing
        <3> QED
            BY <3>1, <3>2
    <2> QED
        BY <1>2, <2>2, <2>3, <2>4
<1> QED
    BY <1>4, <1>5 DEF FirstRecord, Finishing

-----------------------------------------------------------------------------
(***************************************************************************)
(* A worker that is going to look at a read again does so.                 *)
(***************************************************************************)

\* The labels at which a worker's own next step is one of the scheduler.
LEMMA SchedulerChecks ==
    ASSUME TypeOK, WaitInv, MemoryInv, PevmTypeOK, NEW w \in Workers, SchedulerStep(w),
           UNCHANGED run, ~execution_error, NEW t \in Txs, NEW l, Checks(w, l, t),
           Finished(t)', t >= min_validation_idx'
    PROVE  validation_idx' <= t \/ Checks(w, l, t)'
<1>0. TakenFrom(w)
    BY SchedulerStepAt
<1>1. /\ pc \in [Workers -> Labels] /\ tx_idx \in [Workers -> Txs]
      /\ status \in [Txs -> Statuses] /\ tx_idx[w] = t
    BY DEF TypeOK, Checks
<1>2. validation_idx \in Nat /\ min_validation_idx \in Nat /\ t \in Nat
      /\ next_validation_idx[w] \in Nat /\ BlockSize \in Nat /\ t < BlockSize
    BY IndexTypes, TxsFacts, SMTT(30) DEF TypeOK, Txs
<1>3. pc[w] \notin {"execute", "validate", "estimate"}
    BY <1>0 DEF TakenFrom
<1>4. run'[w].stage = "idle"
    BY <1>3, StageAt
<1>5. CASE pc[w] = "lock_val"
    <2>1. LockForValidation(w) /\ Finished(t)
        BY <1>5, <1>0 DEF TakenFrom, LockForValidation, Finished
    <2>2. pc'[w] = "validate" /\ tx_idx' = tx_idx
        BY <1>1, <2>1 DEF LockForValidation
    <2> QED
        BY <1>1, <1>4, <2>2 DEF Checks
<1>6. CASE pc[w] = "ret_validation"
    <2>1. AfterTask(w)
        BY <1>0, <1>6, Zenon DEF TakenFrom
    <2>2. pc'[w] = "validate" /\ tx_idx' = tx_idx
        BY <1>1, <1>6, <2>1 DEF AfterTask
    <2> QED
        BY <1>1, <1>4, <2>2 DEF Checks
<1>7. CASE pc[w] = "try_abort"
    <2>1. TryValidationAbort(w)
        BY <1>0, <1>7, Zenon DEF TakenFrom
    <2>2. ~Finished(t)'
        BY <1>1, <2>1 DEF TryValidationAbort, MayAbort, Finished
    <2> QED
        BY <2>2
<1>8. CASE pc[w] = "check_val"
    <2>1. CheckValidationIdx(w)
        BY <1>0, <1>8, Zenon DEF TakenFrom
    <2>2. /\ tx_idx' = tx_idx /\ validation_idx' = validation_idx
          /\ t >= validation_idx \/ pc'[w] \in {"validate_from_next", "ret_validation"}
        BY <1>1, <2>1 DEF CheckValidationIdx
    <2> QED
        BY <1>1, <1>2, <2>2 DEF Checks
<1>9. CASE pc[w] = "validate_from_next"
    <2>1. ValidateFromNext(w)
        BY <1>0, <1>9, Zenon DEF TakenFrom
    <2>2. pc'[w] = "ret_validation" /\ tx_idx' = tx_idx
        BY <1>1, <2>1 DEF ValidateFromNext
    <2> QED
        BY <1>1, <2>2 DEF Checks
<1>10. CASE pc[w] = "lock_deps"
    <2>1. LockDependents(w)
        BY <1>0, <1>10, Zenon DEF TakenFrom
    <2>2. pc'[w] \in {"resume", "lower_exec", "lower_min"} /\ tx_idx' = tx_idx
        BY <1>1, <2>1 DEF LockDependents, AfterDependent
    <2> QED
        BY <1>1, <2>2 DEF Checks, Finishing
<1>11. CASE pc[w] = "resume"
    <2>1. PICK d \in Txs : CountDownDependent(w, d)
        BY <1>0, <1>11, Zenon DEF TakenFrom
    <2>2. /\ pc'[w] \in {"resume", "resume_ready", "lower_exec", "lower_min"}
          /\ tx_idx' = tx_idx
        BY <1>1, <2>1 DEF CountDownDependent, AfterDependent
    <2> QED
        BY <1>1, <2>2 DEF Checks, Finishing
<1>12. CASE pc[w] = "resume_ready"
    <2>1. ResumeDependent(w) /\ status[dependent[w]] = "Aborting"
        BY <1>12, <1>0 DEF TakenFrom, WaitInv, Holds, HeldIsAborted, HeldTx
    <2>2. pc'[w] \in {"resume", "lower_exec", "lower_min"} /\ tx_idx' = tx_idx
        BY <1>1, <2>1 DEF ResumeDependent, AfterDependent
    <2> QED
        BY <1>1, <2>2 DEF Checks, Finishing
<1>13. CASE pc[w] = "lower_exec"
    <2>1. LowerExecutionIdx(w)
        BY <1>0, <1>13, Zenon DEF TakenFrom
    <2>2. pc'[w] = "lower_min" /\ tx_idx' = tx_idx
        BY <1>1, <2>1 DEF LowerExecutionIdx
    <2> QED
        BY <1>1, <2>2 DEF Checks, Finishing
<1>14. CASE pc[w] = "lower_min"
    <2>1. LowerMinValidationIdx(w)
        BY <1>0, <1>14, Zenon DEF TakenFrom
    <2>2. pc'[w] = "check_val" /\ tx_idx' = tx_idx
        BY <1>1, <1>2, <2>1, SMTT(30) DEF LowerMinValidationIdx, MinWith, Lower
    <2> QED
        BY <1>1, <2>2 DEF Checks
<1> QED
    BY <1>3, <1>5, <1>6, <1>7, <1>8, <1>9, <1>10, <1>11, <1>12, <1>13, <1>14
       DEF Checks, Finishing

\* A worker that is going to lower validation_idx does so.
LEMMA SchedulerLowers ==
    ASSUME TypeOK, ExecutorInv, WaitInv, MemoryInv, PevmTypeOK, NEW w \in Workers,
           SchedulerStep(w), NEW t \in Txs, WillLower(w, t), t >= min_validation_idx'
    PROVE  validation_idx' <= t \/ WillLower(w, t)'
<1>0. TakenFrom(w)
    BY SchedulerStepAt
<1>1. /\ pc \in [Workers -> Labels] /\ tx_idx \in [Workers -> Txs]
      /\ reg \in [Workers -> Nat] /\ wrote_new_location \in [Workers -> BOOLEAN]
      /\ status \in [Txs -> Statuses]
    BY DEF TypeOK
<1>2. validation_idx \in Nat /\ min_validation_idx \in Nat /\ t \in Nat
      /\ next_validation_idx[w] \in Nat /\ BlockSize \in Nat /\ t < BlockSize
      /\ tx_idx[w] \in Nat /\ reg[w] \in Nat
    BY IndexTypes, TxsFacts, SMTT(30) DEF TypeOK, Txs
<1>3. pc[w] \notin {"execute", "validate", "estimate"} /\ ~Recording(w)
    BY <1>0, StageAt DEF TakenFrom
<1>4. CASE pc[w] = "validate_from_min" /\ reg[w] <= t
    <2>1. ValidateFromMin(w)
        BY <1>0, <1>4, Zenon DEF TakenFrom
    <2> QED
        BY <1>2, <1>4, <2>1, SMTT(30) DEF ValidateFromMin, Lower
<1>5. CASE pc[w] = "ready_aborted" /\ tx_idx[w] < t
    <2>1. ReadyAborted(w) /\ status[tx_idx[w]] = "Aborting"
        BY <1>5, <1>0 DEF TakenFrom, WaitInv, Holds, HeldIsAborted, HeldTx
    <2>2. pc'[w] = "validate_higher" /\ tx_idx' = tx_idx
        BY <1>1, <2>1 DEF ReadyAborted
    <2> QED
        BY <1>5, <2>2 DEF WillLower
<1>6. CASE pc[w] = "validate_higher" /\ tx_idx[w] < t
    <2>1. ValidateHigher(w)
        BY <1>0, <1>6, Zenon DEF TakenFrom
    <2> QED
        BY <1>2, <1>6, <2>1, SMTT(30) DEF ValidateHigher, Lower
<1>7. CASE pc[w] = "check_val" /\ tx_idx[w] < t /\ wrote_new_location[w]
    <2>1. CheckValidationIdx(w)
        BY <1>0, <1>7, Zenon DEF TakenFrom
    <2>2. /\ tx_idx' = tx_idx /\ validation_idx' = validation_idx
          /\ wrote_new_location' = wrote_new_location
          /\ tx_idx[w] >= validation_idx \/ pc'[w] = "validate_from_next"
        BY <1>1, <1>7, <2>1 DEF CheckValidationIdx
    <2> QED
        BY <1>2, <1>7, <2>2, SMTT(30) DEF WillLower
<1>8. CASE pc[w] = "validate_from_next" /\ tx_idx[w] < t
    <2>1. ValidateFromNext(w)
        BY <1>0, <1>8, Zenon DEF TakenFrom
    <2> QED
        BY <1>2, <1>8, <2>1, SMTT(30) DEF ValidateFromNext, Lower
<1>9. CASE pc[w] = "lower_min" /\ tx_idx[w] < t /\ wrote_new_location[w]
    <2>1. LowerMinValidationIdx(w)
        BY <1>0, <1>9, Zenon DEF TakenFrom
    <2>2. /\ tx_idx' = tx_idx /\ wrote_new_location' = wrote_new_location
          /\ reg'[w] = min_validation_idx'
        BY <1>1, <2>1 DEF LowerMinValidationIdx
    <2>3. pc'[w] \in {"check_val", "validate_from_min"}
        BY <1>1, <1>2, <1>9, <2>1, SMTT(30) DEF LowerMinValidationIdx, MinWith, Lower
    <2>4. min_validation_idx' \in Nat
        BY <1>2, <2>1 DEF LowerMinValidationIdx, MinWith, Lower
    <2> QED
        BY <1>2, <1>9, <2>2, <2>3, <2>4 DEF WillLower
<1>10. CASE /\ Finishing(w) /\ pc[w] # "lower_min"
            /\ tx_idx[w] < t /\ wrote_new_location[w]
    <2>1. CASE pc[w] = "finish_exec"
        <3>1. SetExecuted(w) /\ status[tx_idx[w]] = "Executing"
            BY <2>1, <1>0 DEF TakenFrom, ExecutorInv, Runs
        <3>2. pc'[w] = "lock_deps"
            BY <1>1, <3>1 DEF SetExecuted
        <3> QED
            BY <3>2, <1>10, FinishingSteps DEF WillLower, Finishing
    <2>2. CASE pc[w] = "lock_deps"
        <3>1. pc'[w] \in {"resume", "lower_exec", "lower_min"}
            BY <1>1, <2>2, <1>0 DEF TakenFrom, LockDependents, AfterDependent
        <3> QED
            BY <3>1, <1>10, FinishingSteps DEF WillLower, Finishing
    <2>3. CASE pc[w] = "resume"
        <3>1. PICK d \in Txs : CountDownDependent(w, d)
            BY <1>0, <2>3, Zenon DEF TakenFrom
        <3>2. pc'[w] \in {"resume", "resume_ready", "lower_exec", "lower_min"}
            BY <1>1, <3>1 DEF CountDownDependent, AfterDependent
        <3> QED
            BY <3>2, <1>10, FinishingSteps DEF WillLower, Finishing
    <2>4. CASE pc[w] = "resume_ready"
        <3>1. ResumeDependent(w) /\ status[dependent[w]] = "Aborting"
            BY <2>4, <1>0 DEF TakenFrom, WaitInv, Holds, HeldIsAborted, HeldTx
        <3>2. pc'[w] \in {"resume", "lower_exec", "lower_min"}
            BY <1>1, <3>1 DEF ResumeDependent, AfterDependent
        <3> QED
            BY <3>2, <1>10, FinishingSteps DEF WillLower, Finishing
    <2>5. CASE pc[w] = "lower_exec"
        <3>1. pc'[w] = "lower_min"
            BY <1>1, <2>5, <1>0 DEF TakenFrom, LowerExecutionIdx
        <3> QED
            BY <3>1, <1>10, FinishingSteps DEF WillLower, Finishing
    <2> QED
        BY <1>10, <2>1, <2>2, <2>3, <2>4, <2>5 DEF Finishing
<1> QED
    BY <1>3, <1>4, <1>5, <1>6, <1>7, <1>8, <1>9, <1>10 DEF WillLower

\* A call that is going to look at a read again does so, or hands over to the
\* scheduler, which is.
LEMMA CallRechecks ==
    ASSUME TypeOK, MemoryInv, PevmTypeOK, NEW w \in Workers,
           \/ InnerStep(w) /\ UNCHANGED vars
           \/ AnswerStep(w) /\ EnvironmentStep(w),
           NEW t \in Txs, NEW l \in DOMAIN last_locations[t].read, Rechecks(w, l, t)
    PROVE  ReadValid(l, t)' \/ Rechecks(w, l, t)'
<1>1. pc \in [Workers -> Labels] /\ wrote_new_location \in [Workers -> BOOLEAN]
    BY DEF TypeOK
<1>2. CASE InnerStep(w) /\ UNCHANGED vars
    <2>1. pc' = pc /\ tx_idx' = tx_idx /\ reg' = reg
          /\ wrote_new_location' = wrote_new_location
        BY <1>2 DEF vars
    <2>2. CASE /\ run[w].stage = "idle" /\ pc[w] = "execute"
        BY <2>2 DEF Rechecks, Checks, WillLower, Finishing, Recording
    <2>3. CASE /\ run[w].stage = "idle" /\ pc[w] = "validate"
               /\ run'[w].stage = "checking"
               /\ run'[w].todo = DOMAIN last_locations[tx_idx[w]].read
        BY <2>1, <2>3 DEF Rechecks, Checks, WillLower, Finishing, Recording
    <2>4. ASSUME NEW k \in run[w].todo, UNCHANGED memoryVars, ReadValid(k, tx_idx[w]),
                 run[w].stage = "checking", pc[w] = "validate",
                 run'[w].stage = "checking", run'[w].todo = run[w].todo \ {k}
          PROVE  ReadValid(l, t)' \/ Rechecks(w, l, t)'
        <3>1. tx_idx[w] = t /\ l \in run[w].todo
            BY <2>4 DEF Rechecks, Checks, WillLower, Finishing, Recording
        <3>2. CASE k = l
            <4>1. ReadValid(l, t)
                BY <2>4, <3>1, <3>2
            <4>2. ReadValid(l, t)'
                BY <2>4, <4>1, StaysValid DEF memoryVars
            <4> QED
                BY <4>2
        <3>3. CASE k # l
            BY <2>1, <2>4, <3>1, <3>3 DEF Rechecks, Checks
        <3> QED
            BY <3>2, <3>3
    <2>5. CASE pc[w] = "estimate"
        <3>1. tx_idx[w] < t
            BY <2>5, StageAt DEF Rechecks, Checks, WillLower, Finishing
        <3> QED
            BY <2>1, <2>5, <3>1 DEF Rechecks, WillLower
    <2>6. CASE /\ pc[w] = "execute" /\ Recording(w)' /\ Writes(w)' = Writes(w)
               /\ last_locations' = last_locations
        <3>1. tx_idx[w] < t /\ WroteNewLocation(tx_idx[w], DOMAIN Writes(w))
            BY <2>6 DEF Rechecks, Checks, WillLower, Finishing
        <3>2. WroteNewLocation(tx_idx[w], DOMAIN Writes(w))'
            BY <2>1, <2>6, <3>1 DEF WroteNewLocation
        <3> QED
            BY <2>1, <2>6, <3>1, <3>2 DEF Rechecks, WillLower
    <2>7. ASSUME NEW k \in run[w].todo,
                 RecordWrite(w, k) \/ RecordRemove(w, k) \/ EstimateLocation(w, k),
                 run'[w].stage = run[w].stage, Writes(w)' = Writes(w),
                 last_locations' = last_locations
          PROVE  ReadValid(l, t)' \/ Rechecks(w, l, t)'
        <3>1. CASE EstimateLocation(w, k)
            BY <2>5, <3>1 DEF EstimateLocation, Doing
        <3>2. CASE RecordWrite(w, k) \/ RecordRemove(w, k)
            BY <2>6, <2>7, <3>2 DEF RecordWrite, RecordRemove, Doing, Recording
        <3> QED
            BY <2>7, <3>1, <3>2
    <2>8. CASE /\ UNCHANGED memoryVars /\ run[w].stage = "writing" /\ pc[w] = "execute"
               /\ run'[w].stage = "removing" /\ Writes(w)' = Writes(w)
        BY <2>6, <2>8 DEF Recording, memoryVars
    <2> QED
        BY <1>2, <2>2, <2>3, <2>4, <2>5, <2>7, <2>8, InnerCases
<1>3. CASE AnswerStep(w) /\ EnvironmentStep(w)
    <2>1. tx_idx' = tx_idx
        BY <1>3, ZenonT(30) DEF EnvironmentStep, VmReadError, VmOk, VmExecutionError,
           ReadSetValid, ReadSetInvalid, EstimatesWritten
    <2>2. CASE RecordDone(w)
        <3>1. pc[w] = "execute"
            BY <2>2 DEF RecordDone, Doing
        <3>2. tx_idx[w] < t /\ WroteNewLocation(tx_idx[w], DOMAIN Writes(w))
            BY <3>1 DEF Rechecks, Checks, WillLower, Finishing
        <3>3. pc'[w] = "finish_exec" /\ wrote_new_location'[w]
            BY <1>1, <2>2, <3>2 DEF RecordDone, VmOk
        <3> QED
            BY <2>1, <3>2, <3>3 DEF Rechecks, WillLower, Finishing
    <2>3. CASE run[w].stage = "idle" /\ pc[w] = "execute"
        BY <2>3 DEF Rechecks, Checks, WillLower, Finishing, Recording
    <2>4. CASE /\ run[w].stage = "checking" /\ pc[w] = "validate"
               /\ pc'[w] = "try_abort" \/ run[w].todo = {}
        <3>1. tx_idx[w] = t /\ l \in run[w].todo
            BY <2>4 DEF Rechecks, Checks, WillLower, Finishing, Recording
        <3> QED
            BY <2>1, <2>4, <3>1 DEF Rechecks, Checks
    <2>5. CASE pc[w] = "estimate" /\ pc'[w] = "ready_aborted"
        <3>1. tx_idx[w] < t
            BY <2>5, StageAt DEF Rechecks, Checks, WillLower, Finishing
        <3> QED
            BY <2>1, <2>5, <3>1 DEF Rechecks, WillLower
    <2> QED
        BY <1>3, <2>2, <2>3, <2>4, <2>5, AnswerCases
<1> QED
    BY <1>2, <1>3

\* The other workers go on as they were going to.
LEMMA OthersRecheck ==
    ASSUME TypeOK, ExecutorInv, MemoryInv, PevmTypeOK, MayFail = Txs, Restartable = Nat,
           NEW w \in Workers, WorkerStep(w), NEW v \in Workers \ {w},
           NEW t \in Txs, NEW l, Rechecks(v, l, t)
    PROVE  Rechecks(v, l, t)'
<1>1. /\ pc'[v] = pc[v] /\ tx_idx'[v] = tx_idx[v] /\ reg'[v] = reg[v]
      /\ wrote_new_location'[v] = wrote_new_location[v] /\ run'[v] = run[v]
    BY PevmWorker DEF OthersGoOn
<1>2. Writes(v)' = Writes(v)
    BY <1>1, SameWrites
<1>3. ASSUME Recording(v), WroteNewLocation(tx_idx[v], DOMAIN Writes(v))
      PROVE  WroteNewLocation(tx_idx[v], DOMAIN Writes(v))'
    <2>1. ~(RecordDone(w) /\ tx_idx[w] = tx_idx[v])
        BY <1>3, StageAt DEF RecordDone, Doing, ExecutorInv, SingleExecutor, Runs
    <2>2. last_locations'[tx_idx[v]] = last_locations[tx_idx[v]]
        BY <2>1, LastLocationsStep DEF TypeOK
    <2> QED
        BY <1>1, <1>2, <1>3, <2>2 DEF WroteNewLocation
<1>4. CASE Checks(v, l, t)
    BY <1>1, <1>4 DEF Rechecks, Checks, Finishing
<1>5. CASE WillLower(v, t)
    BY <1>1, <1>3, <1>5 DEF Rechecks, WillLower, Finishing, Recording
<1> QED
    BY <1>4, <1>5 DEF Rechecks

\* Whoever is going to look at a read again does so.
LEMMA RecheckStep ==
    ASSUME TypeOK, ExecutorInv, WaitInv, MemoryInv, PevmTypeOK,
           MayFail = Txs, Restartable = Nat, ~execution_error,
           NEW w \in Workers, WorkerStep(w), NEW t \in Txs,
           Finished(t)', t >= min_validation_idx',
           NEW l \in DOMAIN last_locations[t].read,
           NEW v \in Workers, Rechecks(v, l, t)
    PROVE  ReadValid(l, t)' \/ validation_idx' <= t \/ Rechecks(v, l, t)'
<1>1. \/ SchedulerStep(w) /\ UNCHANGED <<memoryVars, run>>
      \/ InnerStep(w) /\ UNCHANGED vars
      \/ AnswerStep(w) /\ EnvironmentStep(w) /\ run' = [run EXCEPT ![w] = Idle]
    BY PevmWorker, Zenon
<1>2. CASE v # w
    BY <1>2, OthersRecheck
<1>3. CASE v = w
    <2>1. CASE SchedulerStep(w) /\ UNCHANGED run
        BY <1>3, <2>1, SchedulerChecks, SchedulerLowers DEF Rechecks
    <2>2. CASE \/ InnerStep(w) /\ UNCHANGED vars
               \/ AnswerStep(w) /\ EnvironmentStep(w)
        BY <1>3, <2>2, CallRechecks
    <2> QED
        BY <1>1, <2>1, <2>2
<1> QED
    BY <1>2, <1>3

-----------------------------------------------------------------------------
(***************************************************************************)
(* The reads of executed transactions are checked.                         *)
(***************************************************************************)

\* When the minimum is lowered to a transaction or below, the worker that does
\* it is going to look at the transaction, or to lower validation_idx.
LEMMA NewlyValidated ==
    ASSUME TypeOK, FirstRecord, NEW w \in Workers, LowerMinValidationIdx(w),
           NEW t \in Txs, t < min_validation_idx, t >= min_validation_idx', NEW l
    PROVE  Rechecks(w, l, t)'
<1> DEFINE u == tx_idx[w]
<1>1. /\ pc \in [Workers -> Labels] /\ reg \in [Workers -> Nat]
      /\ wrote_new_location \in [Workers -> BOOLEAN]
    BY DEF TypeOK
<1>2. /\ min_validation_idx \in Nat /\ min_validation_idx <= BlockSize
      /\ t \in Nat /\ u \in Nat /\ next_validation_idx[w] \in Nat
      /\ BlockSize \in Nat /\ t < BlockSize /\ None = BlockSize
    BY IndexTypes, TxsFacts, SMTT(30) DEF TypeOK, Txs
<1>3. pc[w] = "lower_min" /\ Finishing(w)
    BY Guards DEF Finishing
<1>4. min_validation_idx' = next_validation_idx[w]
    <2>1. min_validation_idx' = MinWith(next_validation_idx[w])
        BY DEF LowerMinValidationIdx
    <2> QED
        BY <1>2, <2>1, SMTT(30) DEF MinWith, Lower
<1>5. next_validation_idx[w] \in {u, u + 1}
    <2>1. next_validation_idx[w] \in NextValidation(u)
        BY <1>3 DEF FirstRecord
    <2>2. next_validation_idx[w] # None
        BY <1>2, <1>4, SMTT(30)
    <2> QED
        BY <2>1, <2>2 DEF NextValidation
<1>6. wrote_new_location[w] /\ u <= t
    BY <1>2, <1>3, <1>4, <1>5, SMTT(30) DEF FirstRecord
<1>7. /\ tx_idx' = tx_idx /\ wrote_new_location' = wrote_new_location
      /\ reg'[w] = min_validation_idx'
    BY <1>1 DEF LowerMinValidationIdx
<1>8. CASE min_validation_idx' = u
    <2>1. pc'[w] = "check_val"
        BY <1>1, <1>2, <1>4, <1>8, SMTT(30) DEF LowerMinValidationIdx
    <2> QED
        BY <1>2, <1>6, <1>7, <2>1, SMTT(30) DEF Rechecks, Checks, WillLower
<1>9. CASE min_validation_idx' = u + 1
    <2>1. pc'[w] = "validate_from_min"
        BY <1>1, <1>2, <1>4, <1>6, <1>9, SMTT(30) DEF LowerMinValidationIdx
    <2>2. reg'[w] <= t
        BY <1>2, <1>7, <1>9
    <2> QED
        BY <2>1, <2>2 DEF Rechecks, WillLower
<1> QED
    BY <1>4, <1>5, <1>8, <1>9

\* What was read and is valid stays so, or whoever changes it is going to lower
\* validation_idx.
LEMMA ValidStep ==
    ASSUME TypeOK, ExecutorInv, WaitInv, MemoryInv, PevmTypeOK,
           MayFail = Txs, Restartable = Nat,
           \A i \in Txs : \A k \in last_locations[i].write : Estimated(k, i),
           NEW w \in Workers, WorkerStep(w), NEW t \in Txs,
           last_locations'[t] = last_locations[t],
           NEW l \in Locs, ReadValid(l, t)
    PROVE  ReadValid(l, t)' \/ Rechecks(w, l, t)'
<1>1. CASE data' = data
    <2>1. \A i \in 0 .. (t - 1) : data'[l][i] = data[l][i]
        BY <1>1
    <2> QED
        BY <2>1, StaysValid
<1>2. CASE UNCHANGED memoryVars
    BY <1>1, <1>2 DEF memoryVars
<1>3. CASE InnerStep(w)
    <2>1. ASSUME NEW k \in run[w].todo,
                 RecordWrite(w, k) \/ RecordRemove(w, k) \/ EstimateLocation(w, k)
          PROVE  ReadValid(l, t)' \/ WillLower(w, t)'
        BY <2>1, EntryReads DEF TypeOK
    <2> QED
        BY <1>2, <1>3, <2>1, InnerCases DEF Rechecks
<1>4. CASE AnswerStep(w)
    BY <1>1, <1>2, <1>4, AnswerCases DEF RecordDone
<1> QED
    BY <1>2, <1>3, <1>4, PevmWorker

\* An executed transaction that may be validated has read what is there, or is
\* going to be looked at again.
LEMMA ReadsCheckedStep ==
    ASSUME TypeOK, TypeOK', ExecutorInv, WaitInv, MemoryInv, PevmTypeOK,
           MayFail = Txs, Restartable = Nat, ValidationInv,
           NEW w \in Workers, WorkerStep(w), ~execution_error'
    PROVE  ReadsChecked'
<1>1. /\ [Next]_vars
      /\ \/ SchedulerStep(w) /\ UNCHANGED <<memoryVars, run>>
         \/ InnerStep(w) /\ UNCHANGED vars
         \/ AnswerStep(w) /\ EnvironmentStep(w)
    BY PevmWorker, Zenon
<1>2. ~execution_error
    BY <1>1, ErrorSteps DEF vars
<1>3. ReadsChecked /\ FirstRecord
      /\ \A t \in Txs : \A l \in last_locations[t].write : Estimated(l, t)
    BY <1>2 DEF ValidationInv
<1>4. pc \in [Workers -> Labels] /\ tx_idx \in [Workers -> Txs]
    BY DEF TypeOK
<1> SUFFICES ASSUME NEW t \in Txs, Finished(t)', t >= min_validation_idx',
                    NEW l \in DOMAIN last_locations'[t].read
             PROVE  \/ ReadValid(l, t)'
                    \/ validation_idx' <= t
                    \/ \E v \in Workers : Rechecks(v, l, t)'
    BY DEF ReadsChecked
<1>5. CASE ~Finished(t)
    <2>1. PICK v \in Workers : SetExecuted(v) /\ tx_idx[v] = t
        BY <1>1, <1>5, FinishSteps
    <2>2. pc[v] = "finish_exec" /\ status[t] = "Executing"
        BY <2>1, Guards DEF ExecutorInv, Runs
    <2>3. pc'[v] = "lock_deps" /\ tx_idx' = tx_idx
        BY <1>4, <2>1, <2>2 DEF SetExecuted
    <2> QED
        BY <2>1, <2>3 DEF Rechecks, Checks, Finishing
<1>6. CASE t < min_validation_idx
    <2>1. LowerMinValidationIdx(w)
        BY <1>6, MinLowers, TxsFacts, SMTT(30)
    <2> QED
        BY <1>3, <1>6, <2>1, NewlyValidated
<1>7. CASE Finished(t) /\ ~(t < min_validation_idx)
    <2>1. t >= min_validation_idx /\ t \in Nat /\ t < BlockSize
        BY <1>7, MinLowers, TxsFacts, SMTT(30) DEF Txs
    <2>2. last_locations'[t] = last_locations[t]
        <3>1. RecordDone(w) => status[tx_idx[w]] = "Executing"
            BY DEF RecordDone, Doing, ExecutorInv, Runs
        <3> QED
            BY <1>7, <3>1, LastLocationsStep DEF Finished
    <2>3. l \in DOMAIN last_locations[t].read /\ l \in Locs
        BY <2>2 DEF PevmTypeOK
    <2>4. CASE ReadValid(l, t)
        BY <1>3, <2>2, <2>3, <2>4, ValidStep
    <2>5. CASE validation_idx <= t
        <3>1. validation_idx \in Nat /\ validation_idx' \in Nat
            BY DEF TypeOK
        <3>2. CASE validation_idx' <= validation_idx
            BY <2>1, <2>5, <3>1, <3>2, SMTT(30)
        <3>3. CASE FetchAddValidation(w)
            <4>1. /\ validation_idx' = validation_idx + 1
                  /\ pc'[w] = "lock_val" /\ tx_idx'[w] = validation_idx
                BY <1>4, <2>1, <2>5, <3>1, <3>3, TxsFacts, SMTT(30) DEF FetchAddValidation
            <4>2. CASE validation_idx = t
                BY <4>1, <4>2 DEF Rechecks, Checks
            <4>3. CASE validation_idx # t
                BY <2>1, <2>5, <3>1, <4>1, <4>3, SMTT(30)
            <4> QED
                BY <4>2, <4>3
        <3>4. CASE UNCHANGED vars
            BY <2>5, <3>4 DEF vars
        <3> QED
            BY <1>1, <3>2, <3>3, <3>4, IdxLowers
    <2>6. ASSUME NEW v \in Workers, Rechecks(v, l, t)
          PROVE  ReadValid(l, t)' \/ validation_idx' <= t \/ Rechecks(v, l, t)'
        BY <1>2, <2>3, <2>6, RecheckStep
    <2> QED
        BY <1>3, <1>7, <2>1, <2>3, <2>4, <2>5, <2>6 DEF ReadsChecked
<1> QED
    BY <1>5, <1>6, <1>7

\* A step keeps the three parts of the invariant.
LEMMA ValidationStep ==
    ASSUME TypeOK, TypeOK', MinInv, ExecutorInv, WaitInv, MemoryInv, PevmTypeOK,
           ValidationInv, MayFail = Txs, Restartable = Nat, [PevmNext]_pevmVars
    PROVE  ValidationInv'
<1>1. CASE UNCHANGED pevmVars
    <2>1. UNCHANGED <<vars, memoryVars, run>>
        BY <1>1 DEF pevmVars
    <2>2. /\ pc' = pc /\ tx_idx' = tx_idx /\ reg' = reg /\ status' = status
          /\ wrote_new_location' = wrote_new_location /\ run' = run
          /\ next_validation_idx' = next_validation_idx
          /\ min_validation_idx' = min_validation_idx
          /\ validation_idx' = validation_idx /\ execution_error' = execution_error
          /\ data' = data /\ last_locations' = last_locations
        BY <2>1 DEF vars, memoryVars
    <2>3. \A w \in Workers : Writes(w)' = Writes(w)
        BY <2>2, SameWrites
    <2>4. \A t \in Txs : Finished(t)' = Finished(t)
        BY <2>2 DEF Finished
    <2>5. \A t \in Txs : \A l \in last_locations[t].write : Estimated(l, t)'
        <3>1. ASSUME NEW w \in Workers, NEW l, NEW t, Replaces(w, l, t)
              PROVE  Replaces(w, l, t)'
            BY <2>2, <2>3, <3>1 DEF Replaces
        <3> QED
            BY <2>2, <2>4, <3>1 DEF ValidationInv, Estimated, Estimate
    <2>6. FirstRecord'
        BY <2>2, <2>4, ZenonT(30) DEF ValidationInv, FirstRecord, Finishing
    <2>7. \A w \in Workers, t \in Txs, l \in Locs : Rechecks(w, l, t) => Rechecks(w, l, t)'
        BY <2>2, <2>3, SMTT(30) DEF Rechecks, Checks, WillLower, Finishing, Recording,
           WroteNewLocation
    <2>8. ASSUME NEW t \in Txs, NEW l \in Locs, ReadValid(l, t) PROVE ReadValid(l, t)'
        <3>1. \A i \in 0 .. (t - 1) : data'[l][i] = data[l][i]
            BY <2>2
        <3> QED
            BY <2>2, <2>8, <3>1, StaysValid
    <2>9. ~execution_error' => ReadsChecked'
        BY <2>2, <2>4, <2>7, <2>8 DEF ValidationInv, ReadsChecked, PevmTypeOK
    <2> QED
        BY <2>2, <2>5, <2>6, <2>9 DEF ValidationInv
<1>2. ASSUME NEW w \in Workers, WorkerStep(w) PROVE ValidationInv'
    <2>1. \A t \in Txs : \A l \in last_locations'[t].write : Estimated(l, t)'
        BY <1>2, EstimatedStep DEF ValidationInv
    <2>2. FirstRecord'
        BY <1>2, FirstRecordStep DEF ValidationInv
    <2>3. ~execution_error' => ReadsChecked'
        BY <1>2, ReadsCheckedStep
    <2> QED
        BY <2>1, <2>2, <2>3 DEF ValidationInv
<1> QED
    BY <1>1, <1>2, Zenon DEF PevmNext

\* At first nothing is executed, recorded or read.
LEMMA ValidationStart == PevmInit => ValidationInv
<1> SUFFICES ASSUME PevmInit PROVE ValidationInv
    OBVIOUS
<1>1. /\ last_locations = [t \in Txs |-> [read |-> <<>>, write |-> {}]]
      /\ \A w \in Workers : pc[w] = "next"
      /\ \A t \in Txs : status[t] \in {"Aborting", "ReadyToExecute"}
    BY DEF PevmInit, MemoryInit, Init
<1>2. \A t \in Txs : last_locations[t].write = {} /\ ~Finished(t)
    BY <1>1 DEF Finished
<1> QED
    BY <1>1, <1>2 DEF ValidationInv, FirstRecord, Finishing, ReadsChecked

-----------------------------------------------------------------------------
(***************************************************************************)
(* The nonces of the senders, if they are apart.                           *)
(***************************************************************************)

\* The order of the indexes.
LEMMA LowerIndex ==
    ASSUME NEW t \in Txs, NEW u \in Txs
    PROVE  /\ t <= t
           /\ u < t => t # u /\ u <= t
           /\ u <= t => \A low \in 0 .. (u - 1) : low < t
<1>1. t \in Nat /\ u \in Nat
    BY TxsFacts
<1> QED
    BY <1>1, SMTT(30)

\* A change of the balance leaves the nonce.
LEMMA CreditNonce ==
    ASSUME NEW t, NEW account, NEW amount, FirstNonce(t, account)
    PROVE  FirstNonce(t, Credit(account, amount))
BY DEF FirstNonce, Credit

\* The sender of a transaction is an account.
LEMMA SenderFacts ==
    ASSUME NEW t \in Txs
    PROVE  From(t) \in Accounts /\ From(t) \in Locs /\ From(t) \notin Slots
BY EvmAssumption DEF From, Locs

\* What a lower transaction, or its own, reads of a sender has the nonce of the
\* storage.
LEMMA FoundNonce ==
    ASSUME PevmTypeOK, NonceInv, \A l \in Locs, i \in Txs : Settled(l, i),
           NEW t \in Txs, NEW u \in Txs, u <= t, ~Blocked(From(t), u)
    PROVE  FirstNonce(t, FoundValue(From(t), u))
<1>1. PICK l, met, low : l = From(t) /\ met = Met(l, u) /\ low = Min(met)
    OBVIOUS
<1>2. l \in Locs /\ l \in Accounts /\ l \notin Slots
    BY <1>1, SenderFacts
<1>3. PICK value, sum :
          /\ value = IF ReachesStorage(l, u) THEN ChainState[l] ELSE data[l][low].value
          /\ FoundValue(l, u) = Credit(value, sum)
    BY <1>1, <1>2 DEF FoundValue
<1>4. CASE ReachesStorage(l, u)
    <2>1. ChainState[l] \in Account
        BY <1>2, AmountsAssumption
    <2>2. FirstNonce(t, value)
        BY <1>1, <1>3, <1>4, <2>1 DEF FirstNonce, Account
    <2> QED
        BY <1>1, <1>3, <2>2, CreditNonce
<1>5. CASE ~ReachesStorage(l, u)
    <2>1. /\ low \in Txs /\ low \in 0 .. (u - 1) /\ IsData(data[l][low])
          /\ data[l][low].kind # "lazy"
        BY <1>1, <1>2, <1>5, MetFacts
    <2>2. data[l][low].kind = "basic"
        BY <1>2, <2>1 DEF PevmTypeOK, IsData
    <2>3. low < t
        BY <2>1, LowerIndex
    <2>4. FirstNonce(t, value)
        BY <1>1, <1>3, <1>5, <2>1, <2>2, <2>3 DEF NonceInv
    <2> QED
        BY <1>1, <1>3, <2>4, CreditNonce
<1> QED
    BY <1>4, <1>5

\* A full value that is written is the one at hand, but for a reward.
LEMMA BasicWrite ==
    ASSUME NEW t, NEW gas, NEW values, NEW view, NEW ws, NEW l,
           ws = WriteSet(t, gas, values, view), l \in DOMAIN ws, l \notin Slots,
           ws[l].kind = "basic"
    PROVE  l \in DOMAIN view /\ \E amount : ws[l].value = Credit(view[l], amount)
<1>1. PICK changed, value, amount :
          /\ changed = ChangedLocations(values, view) /\ amount = Reward(t, gas, l)
          /\ value = Credit(view[l], amount)
    OBVIOUS
<1>2. CASE l \in changed
    <2>1. ws[l] = [kind |-> "basic", value |-> value]
        BY <1>1, <1>2 DEF WriteSet, KindOf
    <2>2. ws[l].value = value
        BY <2>1, SMTT(30)
    <2>3. l \in DOMAIN view
        BY <1>1, <1>2 DEF ChangedLocations
    <2> QED
        BY <1>1, <2>2, <2>3
<1>3. CASE l \notin changed
    <2>1. PICK lazy : ws[l] = [kind |-> "lazy", value |-> lazy]
        BY <1>1, <1>3 DEF WriteSet
    <2>2. ws[l].kind = "lazy"
        BY <2>1, SMTT(30)
    <2> QED
        BY <2>2
<1> QED
    BY <1>2, <1>3

\* What is written to the sender of a higher transaction has the nonce of the
\* storage.
LEMMA EntryNonce ==
    ASSUME TypeOK, MemoryInv, PevmTypeOK, MayFail = Txs, Restartable = Nat, NonceInv,
           NEW w \in Workers, WorkerStep(w), NEW t \in Txs, NEW u \in Txs, u < t,
           data'[From(t)][u].kind = "basic"
    PROVE  FirstNonce(t, data'[From(t)][u].value)
<1>1. PICK l \in Locs : l = From(t) /\ l \notin Slots
    BY SenderFacts
<1>2. CASE data'[l][u] = data[l][u]
    BY <1>1, <1>2 DEF NonceInv
<1>3. CASE tx_idx[w] = u /\ l \in run[w].todo /\ RecordWrite(w, l)
    <2>1. PICK ws, view : ws = Writes(w) /\ view = run[w].view
        OBVIOUS
    <2>2. data'[l][u] = Data(ws[l].kind, tx_incarnation[w], ws[l].value)
        BY <1>3, <2>1, WrittenEntry
    <2>3. data'[l][u].kind = ws[l].kind /\ data'[l][u].value = ws[l].value
        BY <2>2, SMTT(30) DEF Data
    <2>4. l \in DOMAIN ws
        BY <1>3, <2>1 DEF MemoryInv, RecordedSoFar, RecordWrite, Doing
    <2>5. PICK gas, values : ws = WriteSet(u, gas, values, view)
        BY <1>3, <2>1 DEF Writes, WritesOf
    <2>6. l \in DOMAIN view /\ \E amount : ws[l].value = Credit(view[l], amount)
        <3>1. l \notin Slots /\ ws[l].kind = "basic"
            BY <1>1, <2>3
        <3> QED
            BY <2>4, <2>5, <3>1, BasicWrite, SMTT(30)
    <2>7. FirstNonce(t, view[l])
        BY <1>1, <1>3, <2>1, <2>6 DEF NonceInv
    <2> QED
        BY <1>1, <2>3, <2>6, <2>7, CreditNonce
<1>4. ~Blank(data'[l][u])
    BY <1>1 DEF Blank, IsData
<1> QED
    BY <1>2, <1>3, <1>4, EntryOwner

\* An access leaves it, of what is at hand,
LEMMA AppliedNonce ==
    ASSUME NoncesKept, NEW u \in Txs, NEW n \in 1 .. Len(VmAccesses[u]),
           NEW i, i = VmAccesses[u][n], NEW t \in Txs, t # u, NEW view,
           From(t) \in DOMAIN view => FirstNonce(t, view[From(t)]),
           From(t) \in DOMAIN Apply(u, i, view)
    PROVE  FirstNonce(t, Apply(u, i, view)[From(t)])
<1>1. From(t) \in DOMAIN view
    BY ApplyDomain
<1> QED
    BY <1>1 DEF NoncesKept

\* and of what is asked of the memory for it.
LEMMA AccessNonce ==
    ASSUME NoncesKept, VmSound, TypeOK, MemoryInv, PevmTypeOK, NonceInv,
           \A l \in Locs, i \in Txs : Settled(l, i),
           NEW w \in Workers, LocalAccess(w) \/ Read(w), NEW t \in Txs, tx_idx[w] < t,
           From(t) \in DOMAIN run'[w].view
    PROVE  FirstNonce(t, run'[w].view[From(t)])
<1>1. /\ DOMAIN run = Workers /\ DOMAIN run[w] = DOMAIN Idle /\ tx_idx[w] \in Txs
      /\ Accessing(w)
    BY DEF MemoryInv, CallInv, TypeOK, LocalAccess, Read, Answered, Asking
<1>2. PICK r, u, i, n : r = run[w] /\ u = tx_idx[w] /\ i = Access(w) /\ n = r.step
    OBVIOUS
<1>3. n \in 1 .. Len(VmAccesses[u]) /\ i = VmAccesses[u][n]
    <2>1. Len(VmAccesses[u]) \in Nat
        BY <1>1, <1>2 DEF VmSound, VmStarts
    <2>2. n \in Nat \ {0} /\ n <= Len(VmAccesses[u])
        BY <1>1, <1>2 DEF Accessing, PevmTypeOK
    <2>3. n \in 1 .. Len(VmAccesses[u])
        BY <2>1, <2>2, SMTT(30)
    <2> QED
        BY <1>2, <2>3 DEF Access
<1>4. t # u /\ u <= t
    BY <1>1, <1>2, LowerIndex
<1>5. From(t) \in DOMAIN r.view => FirstNonce(t, r.view[From(t)])
    BY <1>2 DEF NonceInv
<1>6. CASE LocalAccess(w)
    <2>1. PICK step, view, gas :
              /\ run'[w] = [r EXCEPT !.step = step, !.view = view, !.gas = gas]
              /\ view = r.view \/ view = Apply(u, i, r.view)
        BY <1>1, <1>2, <1>6 DEF LocalAccess, SetRun
    <2>2. run'[w].view = view
        BY <1>1, <1>2, <2>1, SMTT(30) DEF Idle
    <2>3. CASE view = r.view
        BY <1>5, <2>2, <2>3
    <2>4. CASE view = Apply(u, i, r.view)
        <3>1. u \in Txs /\ From(t) \in DOMAIN Apply(u, i, r.view)
            BY <1>1, <1>2, <2>2, <2>4
        <3>2. FirstNonce(t, Apply(u, i, r.view)[From(t)])
            BY <1>3, <1>4, <1>5, <3>1, AppliedNonce
        <3> QED
            BY <2>2, <2>4, <3>2
    <2> QED
        BY <2>1, <2>3, <2>4
<1>7. CASE Read(w)
    <2>1. PICK l, value, known :
              /\ l = i.loc /\ value = FoundValue(l, u)
              /\ known = IF i.op = "reread" THEN r.view ELSE Put(r.view, l, value)
        OBVIOUS
    <2>2. PICK step, origins, values, view, gas :
              /\ run'[w] = [r EXCEPT !.step = step, !.origins = origins,
                                     !.values = values, !.view = view, !.gas = gas]
              /\ view = Apply(u, i, known)
        BY <1>1, <1>2, <1>7, <2>1 DEF Read, SetRun, Answer
    <2>3. run'[w].view = view
        BY <1>1, <1>2, <2>2, SMTT(30) DEF Idle
    <2>4. ASSUME From(t) \in DOMAIN known PROVE FirstNonce(t, known[From(t)])
        <3>1. CASE known = r.view
            BY <1>5, <2>4, <3>1
        <3>2. CASE known = Put(r.view, l, value) /\ From(t) = l
            <4>1. ~Blocked(l, u)
                BY <1>2, <1>7, <2>1 DEF Read, Answered
            <4>2. FirstNonce(t, value)
                BY <1>1, <1>2, <1>4, <2>1, <3>2, <4>1, FoundNonce
            <4> QED
                BY <3>2, <4>2 DEF Put
        <3>3. CASE known = Put(r.view, l, value) /\ From(t) # l
            <4>1. From(t) \in DOMAIN r.view /\ known[From(t)] = r.view[From(t)]
                BY <2>4, <3>3 DEF Put
            <4> QED
                BY <1>5, <4>1
        <3> QED
            BY <2>1, <3>1, <3>2, <3>3
    <2>5. u \in Txs /\ From(t) \in DOMAIN Apply(u, i, known)
        BY <1>1, <1>2, <2>2, <2>3
    <2>6. FirstNonce(t, Apply(u, i, known)[From(t)])
        BY <1>3, <1>4, <2>4, <2>5, AppliedNonce
    <2> QED
        BY <2>2, <2>3, <2>6
<1> QED
    BY <1>6, <1>7

\* The refund is another sender's.
LEMMA RefundNonce ==
    ASSUME SendersApart, TypeOK, MemoryInv, NonceInv, NEW w \in Workers, StoreResult(w),
           NEW t \in Txs, tx_idx[w] < t, From(t) \in DOMAIN run'[w].view
    PROVE  FirstNonce(t, run'[w].view[From(t)])
<1>1. DOMAIN run = Workers /\ DOMAIN run[w] = DOMAIN Idle /\ tx_idx[w] \in Txs
    BY DEF MemoryInv, CallInv, TypeOK
<1>2. PICK r, u, view : r = run[w] /\ u = tx_idx[w] /\ view = Refund(u, r.gas, r.view)
    OBVIOUS
<1>3. PICK todo : run'[w] = [r EXCEPT !.stage = "writing", !.view = view, !.todo = todo]
    BY <1>1, <1>2 DEF StoreResult, SetRun
<1>4. run'[w].view = view
    BY <1>1, <1>2, <1>3, SMTT(30) DEF Idle
<1>5. From(t) # From(u)
    <2>1. t # u
        BY <1>1, <1>2, LowerIndex
    <2> QED
        BY <1>1, <1>2, <2>1 DEF SendersApart
<1>6. From(t) \in DOMAIN r.view /\ view[From(t)] = r.view[From(t)]
    BY <1>2, <1>4, <1>5 DEF Refund
<1> QED
    BY <1>2, <1>4, <1>6 DEF NonceInv

\* The rest of a call leaves what is at hand, or forgets it.
LEMMA ViewKept ==
    ASSUME MemoryInv, NEW w \in Workers, InnerStep(w), ~LocalAccess(w), ~Read(w),
           ~StoreResult(w)
    PROVE  run'[w].view = run[w].view \/ run'[w].view = <<>>
<1>1. DOMAIN run = Workers /\ DOMAIN run[w] = DOMAIN Idle
    BY DEF MemoryInv, CallInv
<1>2. CASE Retry(w)
    <2>1. run'[w] = Idle
        BY <1>1, <1>2 DEF Retry, SetRun
    <2> QED
        BY <2>1, SMTT(30) DEF Idle
<1>3. CASE ValidateLock(w) \/ EstimateLock(w)
    <2>1. PICK stage, todo : run'[w] = [Idle EXCEPT !.stage = stage, !.todo = todo]
        <3>1. CASE ValidateLock(w)
            BY <1>1, <3>1 DEF ValidateLock, SetRun
        <3>2. CASE EstimateLock(w)
            BY <1>1, <3>2 DEF EstimateLock, SetRun
        <3> QED
            BY <1>3, <3>1, <3>2
    <2> QED
        BY <2>1, SMTT(30) DEF Idle
<1>4. CASE RecordLock(w)
    <2>1. PICK stage, todo : run'[w] = [run[w] EXCEPT !.stage = stage, !.todo = todo]
        BY <1>1, <1>4 DEF RecordLock, SetRun
    <2> QED
        BY <1>1, <2>1, SMTT(30) DEF Idle
<1>5. ASSUME NEW l \in run[w].todo,
             \/ RecordWrite(w, l) \/ RecordRemove(w, l)
             \/ ValidateLocation(w, l) \/ EstimateLocation(w, l)
      PROVE  run'[w].view = run[w].view
    <2>1. PICK todo : run'[w] = [run[w] EXCEPT !.todo = todo]
        BY <1>1, <1>5 DEF RecordWrite, RecordRemove, ValidateLocation, EstimateLocation,
           SetRun
    <2> QED
        BY <1>1, <2>1, SMTT(30) DEF Idle
<1> QED
    BY <1>2, <1>3, <1>4, <1>5 DEF InnerStep

\* So the nonces at hand stay those of the storage,
LEMMA OwnNonce ==
    ASSUME NoncesKept, SendersApart, VmSound, TypeOK, MemoryInv, PevmTypeOK, ValuesInv,
           NonceInv, MayFail = Txs, Restartable = Nat,
           NEW w \in Workers, WorkerStep(w), NEW t \in Txs, tx_idx'[w] < t,
           From(t) \in DOMAIN run'[w].view
    PROVE  FirstNonce(t, run'[w].view[From(t)])
<1>1. \/ SchedulerStep(w) /\ UNCHANGED <<memoryVars, run>>
      \/ InnerStep(w) /\ UNCHANGED vars
      \/ AnswerStep(w) /\ EnvironmentStep(w) /\ run' = [run EXCEPT ![w] = Idle]
    BY PevmWorker
<1>2. run'[w].view # <<>>
    <2>1. DOMAIN <<>> = {}
        BY SMTT(30)
    <2> QED
        BY <2>1
<1>3. ~SchedulerStep(w) \/ ~UNCHANGED run
    <2>1. SUFFICES ASSUME SchedulerStep(w), run' = run PROVE FALSE
        OBVIOUS
    <2>2. pc[w] # "execute"
        BY <2>1, SchedulerStepAt DEF TakenFrom
    <2>3. Fresh(run[w])
        BY <2>2 DEF ValuesInv, At
    <2> QED
        BY <1>2, <2>1, <2>3 DEF Fresh
<1>4. run' # [run EXCEPT ![w] = Idle]
    <2>1. SUFFICES ASSUME run' = [run EXCEPT ![w] = Idle] PROVE FALSE
        OBVIOUS
    <2>2. run'[w] = Idle
        BY <2>1 DEF MemoryInv
    <2>3. run'[w].view = <<>>
        BY <2>2, SMTT(30) DEF Idle
    <2> QED
        BY <1>2, <2>3
<1>5. InnerStep(w) /\ tx_idx[w] < t
    BY <1>1, <1>3, <1>4 DEF vars, versionVars
<1>6. CASE LocalAccess(w) \/ Read(w)
    BY <1>5, <1>6, AccessNonce DEF ValuesInv
<1>7. CASE StoreResult(w)
    BY <1>5, <1>7, RefundNonce
<1>8. CASE run'[w].view = run[w].view
    BY <1>5, <1>8 DEF NonceInv
<1> QED
    BY <1>2, <1>5, <1>6, <1>7, <1>8, ViewKept

=============================================================================
