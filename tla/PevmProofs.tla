------------------------------ MODULE PevmProofs -----------------------------
(***************************************************************************)
(* Proofs about Pevm, for every block, number of workers and chain state:  *)
(* the executor is an instance of Scheduler, so that what is proved of     *)
(* every answer of the virtual machine holds of the ones it computes; what *)
(* each of its steps does to the multi-version memory; and that the memory *)
(* keeps the writes of the latest incarnations.                            *)
(***************************************************************************)
EXTENDS Pevm, SchedulerProofs

USE ZenonT(60) DEF Goto, At, sharedVars, idxVars, statusVars, depVars, resultVars, versionVars

\* The search of a blocked read ended at a lower transaction, which is the one
\* to wait for: the index before, or the one with the ESTIMATE met last.
LEMMA BlockingIsLower ==
    ASSUME NEW l, NEW t \in Txs, Blocked(l, t)
    PROVE  BlockingIdx(l, t) \in Txs /\ BlockingIdx(l, t) < t
<1> DEFINE Stops(n) == n \in 1 .. t /\ ~Passed(l, t - n)
           S == {n \in Nat : Stops(n)}
<1>1. t \in Nat /\ t < BlockSize /\ \A i \in 0 .. (t - 1) : i \in Txs /\ i < t
    BY TxsFacts, SMTT(30) DEF Txs
<1>2. PICK i \in 0 .. (t - 1) : ~Passed(l, i)
    BY DEF Blocked, ReachesStorage
<1>3. CASE l = Beneficiary
    <2>1. t - 1 \in 0 .. (t - 1)
        BY <1>1, <1>2, SMTT(30)
    <2> QED
        BY <1>1, <1>3, <2>1 DEF BlockingIdx
<1>4. CASE l # Beneficiary
    <2>1. t - i \in S
        BY <1>1, <1>2, SMTT(30)
    <2>2. PICK n \in S : \A k \in S : n <= k
        <3> HIDE DEF S
        <3>1. S \subseteq Nat
            BY DEF S
        <3> QED
            BY <2>1, <3>1, LeastElement
    <2> DEFINE m == t - n
    <2>3. m \in 0 .. (t - 1) /\ ~Passed(l, m)
        BY <1>1, <2>2, SMTT(30)
    <2>4. ASSUME NEW j \in (m + 1) .. (t - 1) PROVE Passed(l, j)
        <3>1. t - j \in Nat /\ t - j \in 1 .. t /\ t - j < n /\ t - (t - j) = j
            BY <1>1, <2>3, SMTT(30)
        <3> QED
            BY <2>2, <3>1, SMTT(30)
    <2>5. Ends(l, m)
        BY <1>4, <2>3 DEF Passed
    <2>6. data[l][m] # Absent
        BY <2>5, SMTT(30) DEF Ends, Absent
    <2>7. m \in Met(l, t)
        BY <2>3, <2>4, <2>6 DEF Met, Written
    <2>8. data[l][m].kind = "estimate"
        BY <2>5, <2>7 DEF Blocked, Ends
    <2>9. BlockingIdx(l, t) \in Met(l, t)
        BY <1>4, <2>7, <2>8 DEF BlockingIdx
    <2> QED
        BY <1>1, <2>9 DEF Met, Written
<1> QED
    BY <1>3, <1>4

\* Steps inside a call: the scheduler does not see them.
InnerStep(w) ==
    \/ LocalAccess(w) \/ Retry(w) \/ Read(w) \/ StoreResult(w)
    \/ RecordLock(w) \/ ValidateLock(w) \/ EstimateLock(w)
    \/ \E l \in run[w].todo : \/ RecordWrite(w, l) \/ RecordRemove(w, l)
                              \/ ValidateLocation(w, l) \/ EstimateLocation(w, l)

\* Steps that answer the scheduler.
AnswerStep(w) ==
    \/ BlockedRead(w) \/ AwaitFunds(w) \/ Rejected(w) \/ StorageFails(w)
    \/ RecordDone(w) \/ ValidateDone(w) \/ EstimateDone(w)
    \/ \E l \in run[w].todo : ValidateFails(w, l)

\* What a worker of the executor may do.
LEMMA WorkerSteps ==
    ASSUME NEW w \in Workers, WorkerStep(w)
    PROVE  \/ SchedulerStep(w) /\ UNCHANGED <<memoryVars, run, execution_results>>
           \/ InnerStep(w) \/ AnswerStep(w)
BY ZenonT(60) DEF WorkerStep, InnerStep, AnswerStep

\* An inner step leaves the scheduler as it is.
LEMMA InnerSteps ==
    ASSUME NEW w \in Workers, InnerStep(w)
    PROVE  UNCHANGED vars
BY ZenonT(60) DEF InnerStep, LocalAccess, Retry, Read, StoreResult, RecordLock,
    ValidateLock, EstimateLock, RecordWrite, RecordRemove, ValidateLocation,
    EstimateLocation

\* Every answer the executor computes is one that Scheduler leaves open: it is
\* blocked by lower transactions only, and validates from itself or the next.
LEMMA AnswerSteps ==
    ASSUME TypeOK, MayFail = Txs, Restartable = Nat,
           NEW w \in Workers, AnswerStep(w)
    PROVE  EnvironmentStep(w)
<1>1. tx_idx[w] \in Txs /\ incarnation[tx_idx[w]] \in Restartable
    BY DEF TypeOK
<1>2. ASSUME NEW b \in Txs, b < tx_idx[w], VmReadError(w, b)
      PROVE  EnvironmentStep(w)
    BY <1>1, <1>2, Zenon DEF EnvironmentStep
<1>3. CASE BlockedRead(w)
    BY <1>1, <1>2, <1>3, BlockingIsLower DEF BlockedRead
<1>4. CASE AwaitFunds(w)
    <2>1. tx_idx[w] - 1 \in Txs /\ tx_idx[w] - 1 < tx_idx[w]
        BY <1>1, <1>4, TxsFacts, SMTT(30) DEF AwaitFunds, Txs
    <2> QED
        BY <1>2, <1>4, <2>1 DEF AwaitFunds
<1>5. CASE Rejected(w) \/ StorageFails(w)
    BY <1>1, <1>5, Zenon DEF Rejected, StorageFails, EnvironmentStep
<1>6. CASE RecordDone(w)
    <2> DEFINE t == tx_idx[w]
               writes == DOMAIN Writes(w)
               reads == DOMAIN run[w].origins
    <2>1. NextValidationIdx(t, reads, writes) \in NextValidation(t)
        BY DEF NextValidationIdx, NextValidation
    <2>2. WroteNewLocation(t, writes) \in BOOLEAN
        BY DEF WroteNewLocation
    <2>3. VmOk(w, WroteNewLocation(t, writes), NextValidationIdx(t, reads, writes))
        BY <1>6 DEF RecordDone
    <2> QED
        BY <2>1, <2>2, <2>3, Zenon DEF EnvironmentStep
<1>7. CASE ValidateDone(w)
    BY <1>7, Zenon DEF ValidateDone, EnvironmentStep
<1>8. CASE EstimateDone(w)
    BY <1>8, Zenon DEF EstimateDone, EnvironmentStep
<1>9. CASE \E l \in run[w].todo : ValidateFails(w, l)
    BY <1>1, <1>9, Zenon DEF ValidateFails, EnvironmentStep
<1> QED
    BY <1>3, <1>4, <1>5, <1>6, <1>7, <1>8, <1>9, Zenon DEF AnswerStep

\* A step of the executor is one of the scheduler, or invisible to it.
LEMMA SimulationStep ==
    ASSUME TypeOK, MayFail = Txs, Restartable = Nat, [PevmNext]_pevmVars
    PROVE  [Next]_vars
<1>1. CASE UNCHANGED pevmVars
    BY <1>1 DEF pevmVars
<1>2. CASE PevmNext
    <2>1. ASSUME NEW w \in Workers, WorkerStep(w) PROVE [Next]_vars
        BY <2>1, WorkerSteps, InnerSteps, AnswerSteps, Zenon DEF Next
    <2> QED
        BY <1>2, <2>1, Zenon DEF PevmNext, Next
<1> QED
    BY <1>1, <1>2

\* The executor implements the scheduler: its workers interleave the steps of
\* Scheduler, with the answers that Vm::execute and validate_read_locations
\* compute from the multi-version memory (execute_revm of pevm.rs).
THEOREM PevmImplementsScheduler ==
    ASSUME MayFail = Txs, Restartable = Nat
    PROVE  PevmSpec => Spec
<1> DEFINE I == TypeOK /\ NumValidatedExact
<1>1. PevmInit => Init /\ I
    BY TypeInit, NumValidatedInit DEF PevmInit
<1>2. I /\ [PevmNext]_pevmVars => [Next]_vars
    BY SimulationStep
<1>3. I /\ [Next]_vars => I'
    BY TypeStep, NumValidatedStep
<1> HIDE DEF I
<1> QED
    BY <1>1, <1>2, <1>3, PTL DEF PevmSpec, Spec

\* What is proved of the scheduler holds in the executor: two workers never run
\* one transaction, only transactions from min_validation_idx on are validated,
\* and when next_task lets a worker leave, all of those are.
THEOREM PevmSchedulesSafely ==
    ASSUME MayFail = Txs, Restartable = Nat
    PROVE  PevmSpec => [](SingleExecutor /\ MinInv /\ StopConditionSound)
BY PevmImplementsScheduler, SingleExecutorCorrect, MinCorrect,
   StopConditionCorrect, PTL

-----------------------------------------------------------------------------
(***************************************************************************)
(* The multi-version memory, under steps that do not write to it.          *)
(***************************************************************************)

\* The calls that loop over the locations of the memory.
Stages == {"writing", "removing", "checking", "estimating"}

\* The calls of the other workers go on as they were.
OthersSame(w) ==
    \A v \in Workers \ {w} :
        /\ pc'[v] = pc[v] /\ tx_idx'[v] = tx_idx[v]
        /\ tx_incarnation'[v] = tx_incarnation[v] /\ run'[v] = run[v]

\* The write set of a call depends on its transaction and its run only.
LEMMA SameWrites ==
    ASSUME NEW v \in Workers, tx_idx'[v] = tx_idx[v], run'[v] = run[v]
    PROVE  Writes(v)' = Writes(v)
BY DEF Writes, WritesOf

\* Outside record and convert_writes_to_estimates the memory and the execution
\* of every transaction agree as before: it becomes executed when its writes
\* are recorded, and an incarnation changes when it is aborted only.
LEMMA VisibleStep ==
    ASSUME TypeOK, ExecutorInv, MemoryInv, NEW w \in Workers,
           SchedulerStep(w) \/ EnvironmentStep(w), UNCHANGED memoryVars,
           run' = run \/ run' = [run EXCEPT ![w] = Idle],
           ~Recording(w), run'[w].stage \notin Stages, pc'[w] # "finish_exec"
    PROVE  MemoryInv'
<1>1. [Next]_vars
    BY Zenon DEF Next
<1>2. DOMAIN run = Workers /\ DOMAIN run' = Workers
    BY DEF MemoryInv
<1>3. OthersSame(w)
    BY <1>2, OneWorker, VersionSteps DEF OthersSame, Alone
<1>4. data' = data /\ last_locations' = last_locations
    BY DEF memoryVars
<1>5. ASSUME NEW t \in Txs, status[t] # "Aborting"
      PROVE  incarnation'[t] = incarnation[t]
    BY <1>1, <1>5, StatusMoves DEF StatusStep
<1>6. ASSUME NEW t \in Txs, NEW inc, Matches(t, inc)
      PROVE  Matches(t, inc)'
    BY <1>4, <1>6 DEF Matches, Recorded, IsData, Absent
<1>7. MemoryMatchesWriteSet'
    <2> SUFFICES ASSUME NEW t \in Txs, Finished(t)' PROVE Matches(t, incarnation[t])'
        BY DEF MemoryMatchesWriteSet
    <2>1. CASE Finished(t)
        <3>1. Matches(t, incarnation[t])
            BY <2>1 DEF MemoryInv, MemoryMatchesWriteSet
        <3>2. incarnation'[t] = incarnation[t]
            BY <1>5, <2>1 DEF Finished
        <3> QED
            BY <1>4, <3>1, <3>2 DEF Matches, Recorded, IsData, Absent
    <2>2. CASE ~Finished(t)
        <3>1. PICK v \in Workers : SetExecuted(v) /\ tx_idx[v] = t
            BY <1>1, <2>2, FinishSteps
        <3>2. pc[v] = "finish_exec" /\ Runs(v)
            BY <3>1, Guards DEF Runs
        <3>3. /\ Matches(t, tx_incarnation[v]) /\ tx_incarnation[v] = incarnation[t]
              /\ status[t] = "Executing"
            BY <3>1, <3>2 DEF MemoryInv, CallInv, ExecutorInv
        <3>4. incarnation'[t] = incarnation[t]
            BY <1>5, <3>3
        <3> QED
            BY <1>4, <3>3, <3>4 DEF Matches, Recorded, IsData, Absent
    <2> QED
        BY <2>1, <2>2
<1>8. CallInv'
    <2> SUFFICES ASSUME NEW v \in Workers
                 PROVE /\ DOMAIN run'[v] = DOMAIN Idle
                       /\ Recording(v)' => pc'[v] = "execute"
                       /\ run'[v].stage = "checking" => pc'[v] = "validate"
                       /\ run'[v].stage = "estimating" =>
                             /\ pc'[v] = "estimate"
                             /\ run'[v].todo \subseteq last_locations'[tx_idx'[v]].write
                       /\ Runs(v)' => tx_incarnation'[v] = incarnation'[tx_idx'[v]]
        BY DEF CallInv, Idle
    <2>1. Runs(v) => incarnation'[tx_idx[v]] = tx_incarnation[v]
        <3>1. tx_idx[v] \in Txs
            BY DEF TypeOK
        <3> QED
            BY <1>5, <3>1 DEF MemoryInv, CallInv, ExecutorInv
    <2>2. CASE v # w
        BY <1>3, <1>4, <2>1, <2>2, SMTT(30) DEF OthersSame, MemoryInv, CallInv, Recording, Runs
    <2>3. CASE v = w
        <3>1. DOMAIN run'[w] = DOMAIN Idle
            BY <1>2 DEF MemoryInv, CallInv
        <3>2. Runs(w)' => tx_incarnation'[w] = incarnation'[tx_idx'[w]]
            BY <2>1, <2>3, RunningSteps
        <3> QED
            BY <2>3, <3>1, <3>2 DEF Stages, Recording
    <2> QED
        BY <2>2, <2>3
<1>9. ASSUME NEW v \in Workers
      PROVE  RecordedSoFar(v)' /\ (pc'[v] = "finish_exec" =>
                                       Matches(tx_idx[v], tx_incarnation[v])')
    <2>1. CASE v # w
        <3>1. /\ run'[v] = run[v] /\ tx_idx'[v] = tx_idx[v] /\ pc'[v] = pc[v]
              /\ tx_incarnation'[v] = tx_incarnation[v]
            BY <1>3, <2>1 DEF OthersSame
        <3>2. Writes(v)' = Writes(v)
            BY <3>1, SameWrites
        <3>3. RecordedSoFar(v) /\ (pc[v] = "finish_exec" =>
                                       Matches(tx_idx[v], tx_incarnation[v]))
            BY DEF MemoryInv
        <3> QED
            BY <1>4, <3>1, <3>2, <3>3 DEF RecordedSoFar, Matches, Recorded, IsData, Absent
    <2>2. CASE v = w
        BY <2>2 DEF RecordedSoFar, Stages
    <2> QED
        BY <2>1, <2>2
<1>10. ASSUME NEW l \in Locs, NEW t \in Txs PROVE Accounted(l, t)'
    <2>1. ASSUME NEW v \in Workers, Recording(v), tx_idx[v] = t, l \in DOMAIN Writes(v)
          PROVE  Accounted(l, t)'
        <3>1. v # w /\ run'[v] = run[v] /\ tx_idx'[v] = tx_idx[v]
            BY <1>3, <2>1 DEF OthersSame
        <3>2. Recording(v)' /\ Writes(v)' = Writes(v)
            BY <2>1, <3>1, SameWrites DEF Recording
        <3> QED
            BY <2>1, <3>1, <3>2 DEF Accounted
    <2>2. Accounted(l, t)
        BY DEF MemoryInv
    <2> QED
        BY <1>4, <2>1, <2>2 DEF Accounted, Absent
<1> QED
    BY <1>2, <1>4, <1>7, <1>8, <1>9, <1>10 DEF MemoryInv

\* The write set that Vm::execute returns is never empty: the beneficiary is
\* rewarded.  Its entries are data.
LEMMA WriteSetFacts ==
    ASSUME NEW t, NEW gas, NEW values, NEW view
    PROVE  /\ Beneficiary \in DOMAIN WriteSet(t, gas, values, view)
           /\ \A l \in DOMAIN WriteSet(t, gas, values, view) :
                  WriteSet(t, gas, values, view)[l].kind \in {"basic", "storage", "lazy"}
BY DEF WriteSet, KindOf

\* insert and remove of the memory change the entry of one transaction at one
\* location.
LEMMA OneEntry ==
    ASSUME DOMAIN data = Locs, \A l \in Locs : DOMAIN data[l] = Txs,
           NEW l0, NEW t0 \in Txs, NEW entry,
           data' = [data EXCEPT ![l0][t0] = entry]
    PROVE  /\ DOMAIN data' = Locs /\ \A l \in Locs : DOMAIN data'[l] = Txs
           /\ \A l \in Locs, t \in Txs :
                  data'[l][t] = IF l = l0 /\ t = t0 THEN entry ELSE data[l][t]
<1>1. CASE l0 \in Locs
    BY <1>1
<1>2. CASE l0 \notin Locs
    BY <1>2
<1> QED
    BY <1>1, <1>2

\* A loop over locations does one of them.
LEMMA TodoStep ==
    ASSUME MemoryInv, NEW w \in Workers, NEW l, tx_idx' = tx_idx,
           SetRun(w, [run[w] EXCEPT !.todo = @ \ {l}])
    PROVE  /\ DOMAIN run'[w] = DOMAIN Idle /\ run'[w].stage = run[w].stage
           /\ run'[w].todo = run[w].todo \ {l} /\ Writes(w)' = Writes(w)
<1>1. DOMAIN run = Workers /\ DOMAIN run[w] = DOMAIN Idle
    BY DEF MemoryInv, CallInv
<1>2. run'[w] = [run[w] EXCEPT !.todo = run[w].todo \ {l}]
    BY <1>1 DEF SetRun
<1>3. DOMAIN Idle = {"stage", "step", "origins", "values", "view", "gas", "todo"}
    BY DEF Idle
<1>4. /\ DOMAIN run'[w] = DOMAIN Idle /\ run'[w].todo = run[w].todo \ {l}
      /\ run'[w].stage = run[w].stage /\ run'[w].gas = run[w].gas
      /\ run'[w].values = run[w].values /\ run'[w].view = run[w].view
    BY <1>1, <1>2, <1>3
<1> QED
    BY <1>4 DEF Writes, WritesOf

-----------------------------------------------------------------------------
(***************************************************************************)
(* The multi-version memory, under the steps of record,                    *)
(* validate_read_locations and convert_writes_to_estimates.                *)
(***************************************************************************)

\* A step of w inside a call keeps the invariant if it keeps w's part of it: the
\* entries that it changes are those of its own transaction, which no other
\* worker runs, aborts or has executed.
LEMMA OwnStep ==
    ASSUME TypeOK, ExecutorInv, WaitInv, MemoryInv, NEW w \in Workers,
           UNCHANGED vars, last_locations' = last_locations,
           DOMAIN run' = Workers, \A v \in Workers \ {w} : run'[v] = run[v],
           DOMAIN data' = Locs, \A l \in Locs : DOMAIN data'[l] = Txs,
           \/ data' = data
           \/ /\ pc[w] \in {"execute", "estimate"}
              /\ \A l \in Locs, t \in Txs : t # tx_idx[w] => data'[l][t] = data[l][t],
           DOMAIN run'[w] = DOMAIN Idle,
           Recording(w)' => pc[w] = "execute",
           run'[w].stage = "checking" => pc[w] = "validate",
           run'[w].stage = "estimating" =>
               /\ pc[w] = "estimate"
               /\ run'[w].todo \subseteq last_locations[tx_idx[w]].write,
           RecordedSoFar(w)',
           \A l \in Locs : Accounted(l, tx_idx[w])'
    PROVE  MemoryInv'
<1>1. /\ pc' = pc /\ status' = status /\ incarnation' = incarnation
      /\ tx_idx' = tx_idx /\ tx_incarnation' = tx_incarnation
    BY DEF vars
<1>2. tx_idx[w] \in Txs
    BY DEF TypeOK
<1> DEFINE Same(t) == \A l \in Locs : data'[l][t] = data[l][t]
<1>3. ASSUME NEW t \in Txs,
             t # tx_idx[w] \/ status[t] \notin {"Executing", "Aborting"}
      PROVE  Same(t)
    <2>1. pc[w] = "execute" => status[tx_idx[w]] = "Executing"
        BY DEF ExecutorInv, Runs
    <2>2. pc[w] = "estimate" => status[tx_idx[w]] = "Aborting"
        BY DEF WaitInv, Holds, HeldIsAborted, HeldTx
    <2> QED
        BY <1>3, <2>1, <2>2
<1>4. ASSUME NEW v \in Workers, v # w, Runs(v) PROVE Same(tx_idx[v])
    <2>1. tx_idx[v] \in Txs /\ status[tx_idx[v]] = "Executing"
        BY <1>4 DEF TypeOK, ExecutorInv
    <2>2. pc[w] = "execute" => tx_idx[v] # tx_idx[w]
        BY <1>4 DEF ExecutorInv, SingleExecutor, Runs
    <2>3. pc[w] = "estimate" => tx_idx[v] # tx_idx[w]
        BY <2>1 DEF WaitInv, Holds, HeldIsAborted, HeldTx
    <2> QED
        BY <2>1, <2>2, <2>3
<1>5. ASSUME NEW t \in Txs, NEW inc, Matches(t, inc), Same(t) PROVE Matches(t, inc)'
    BY <1>5 DEF Matches, Recorded, IsData, Absent
<1> HIDE DEF Same
<1>6. MemoryMatchesWriteSet'
    <2> SUFFICES ASSUME NEW t \in Txs, Finished(t) PROVE Matches(t, incarnation[t])'
        BY <1>1 DEF MemoryMatchesWriteSet, Finished
    <2>1. Same(t)
        BY <1>3 DEF Finished
    <2>2. Matches(t, incarnation[t])
        BY DEF MemoryInv, MemoryMatchesWriteSet
    <2> QED
        BY <1>1, <2>1, <2>2 DEF Same, Matches, Recorded, IsData, Absent
<1>7. CallInv'
    BY <1>1, SMTT(30) DEF MemoryInv, CallInv, Recording, Runs, Idle
<1>8. ASSUME NEW v \in Workers
      PROVE  RecordedSoFar(v)' /\ (pc'[v] = "finish_exec" =>
                                       Matches(tx_idx[v], tx_incarnation[v])')
    <2>1. RecordedSoFar(v)'
        <3>1. CASE v # w /\ Recording(v)
            <4>1. Runs(v) /\ run'[v] = run[v]
                BY <3>1 DEF MemoryInv, CallInv, Runs
            <4>2. Same(tx_idx[v]) /\ Writes(v)' = Writes(v)
                BY <1>1, <1>4, <3>1, <4>1, SameWrites
            <4>3. RecordedSoFar(v)
                BY DEF MemoryInv
            <4>4. PICK t, inc : t = tx_idx[v] /\ inc = tx_incarnation[v]
                OBVIOUS
            <4>5. \A l \in Locs : data'[l][t] = data[l][t]
                BY <4>2, <4>4 DEF Same
            <4>6. \A l \in Locs : Recorded(l, t, inc) => Recorded(l, t, inc)'
                BY <4>5 DEF Recorded, IsData
            <4>7. t = tx_idx'[v] /\ inc = tx_incarnation'[v]
                BY <1>1, <4>4
            <4>8. ASSUME run[v].stage = "writing"
                  PROVE  /\ run[v].todo \subseteq DOMAIN Writes(v)'
                         /\ \A l \in (DOMAIN Writes(v)' \cap Locs) \ run[v].todo :
                                Recorded(l, t, inc)'
                BY <4>2, <4>3, <4>4, <4>6, <4>8 DEF RecordedSoFar
            <4>9. ASSUME run[v].stage = "removing"
                  PROVE  /\ run[v].todo \cap DOMAIN Writes(v)' = {}
                         /\ \A l \in Locs : IF l \in DOMAIN Writes(v)'
                                            THEN Recorded(l, t, inc)'
                                            ELSE l \in run[v].todo \/ data'[l][t] = Absent
                BY <4>2, <4>3, <4>4, <4>5, <4>6, <4>9 DEF RecordedSoFar
            <4> QED
                BY <4>1, <4>4, <4>7, <4>8, <4>9 DEF RecordedSoFar, Recorded, IsData, Absent
        <3>2. CASE v # w /\ ~Recording(v)
            BY <3>2 DEF RecordedSoFar, Recording
        <3> QED
            BY <3>1, <3>2, ZenonT(30)
    <2>2. ASSUME pc[v] = "finish_exec"
          PROVE  Matches(tx_idx[v], tx_incarnation[v])'
        <3>1. Runs(v) /\ Matches(tx_idx[v], tx_incarnation[v]) /\ tx_idx[v] \in Txs
            BY <2>2 DEF MemoryInv, Runs, TypeOK
        <3>2. Same(tx_idx[v])
            <4>1. CASE v # w
                BY <1>4, <3>1, <4>1
            <4>2. CASE v = w
                BY <2>2, <4>2 DEF Same
            <4> QED
                BY <4>1, <4>2
        <3> QED
            BY <1>1, <3>1, <3>2 DEF Same, Matches, Recorded, IsData, Absent
    <2> QED
        BY <1>1, <2>1, <2>2
<1>9. ASSUME NEW l \in Locs, NEW t \in Txs PROVE Accounted(l, t)'
    <2>1. CASE t = tx_idx[w]
        BY <1>1, <2>1 DEF Accounted
    <2>2. CASE t # tx_idx[w]
        <3>1. Same(t) /\ Accounted(l, t)
            BY <1>3, <2>2 DEF MemoryInv
        <3>2. ASSUME NEW v \in Workers, Recording(v), tx_idx[v] = t,
                     l \in DOMAIN Writes(v)
              PROVE  Accounted(l, t)'
            <4>1. v # w /\ run'[v] = run[v]
                BY <2>2, <3>2
            <4>2. Recording(v)' /\ Writes(v)' = Writes(v) /\ tx_idx'[v] = t
                BY <1>1, <3>2, <4>1, SameWrites DEF Recording
            <4> QED
                BY <3>2, <4>2 DEF Accounted
        <3> QED
            BY <3>1, <3>2 DEF Same, Accounted, Absent
    <2> QED
        BY <2>1, <2>2
<1> QED
    BY <1>6, <1>7, <1>8, <1>9 DEF MemoryInv

\* The steps of a call that leave the memory alone and record nothing.
PlainStep(w) ==
    \/ LocalAccess(w) \/ Retry(w) \/ Read(w) \/ ValidateLock(w)
    \/ \E l \in run[w].todo : ValidateLocation(w, l)

\* A worker that was not recording does not account for any entry.
LEMMA StillAccounted ==
    ASSUME MemoryInv, NEW w \in Workers, UNCHANGED <<vars, memoryVars>>,
           ~Recording(w), \A v \in Workers \ {w} : run'[v] = run[v]
    PROVE  \A l \in Locs, t \in Txs : Accounted(l, t)'
<1>1. data' = data /\ last_locations' = last_locations /\ tx_idx' = tx_idx
    BY DEF vars, memoryVars
<1> SUFFICES ASSUME NEW l \in Locs, NEW t \in Txs PROVE Accounted(l, t)'
    OBVIOUS
<1>2. Accounted(l, t)
    BY DEF MemoryInv
<1>3. ASSUME NEW v \in Workers, Recording(v), tx_idx[v] = t, l \in DOMAIN Writes(v)
      PROVE  Accounted(l, t)'
    <2>1. run'[v] = run[v] /\ tx_idx'[v] = t
        BY <1>1, <1>3
    <2>2. Recording(v)' /\ Writes(v)' = Writes(v)
        BY <1>1, <1>3, <2>1, SameWrites DEF Recording
    <2> QED
        BY <1>3, <2>1, <2>2 DEF Accounted
<1> QED
    BY <1>1, <1>2, <1>3 DEF Accounted, Absent

\* Reads and checks do not touch the memory.
LEMMA PlainMemory ==
    ASSUME TypeOK, ExecutorInv, WaitInv, MemoryInv, NEW w \in Workers, PlainStep(w)
    PROVE  MemoryInv'
<1>1. /\ DOMAIN run = Workers /\ DOMAIN run[w] = DOMAIN Idle
      /\ DOMAIN data = Locs /\ \A l \in Locs : DOMAIN data[l] = Txs
    BY DEF MemoryInv, CallInv
<1>2. UNCHANGED <<vars, memoryVars>>
    BY ZenonT(30) DEF PlainStep, LocalAccess, Retry, Read, ValidateLock, ValidateLocation
<1>3. PICK r : run' = [run EXCEPT ![w] = r]
    BY ZenonT(30) DEF PlainStep, LocalAccess, Retry, Read, ValidateLock,
       ValidateLocation, SetRun
<1>4. DOMAIN run' = Workers /\ run'[w] = r /\ \A v \in Workers \ {w} : run'[v] = run[v]
    BY <1>1, <1>3
<1>5. /\ DOMAIN Idle = {"stage", "step", "origins", "values", "view", "gas", "todo"}
      /\ Idle.stage = "idle"
    BY DEF Idle
<1>6. /\ ~Recording(w) /\ DOMAIN run'[w] = DOMAIN Idle
      /\ run'[w].stage = "idle" \/ (run'[w].stage = "checking" /\ pc[w] = "validate")
    <2>1. CASE LocalAccess(w)
        BY <1>1, <1>5, <2>1 DEF LocalAccess, Accessing, Doing, SetRun, Recording
    <2>2. CASE Read(w)
        BY <1>1, <1>5, <2>2
        DEF Read, Answered, Asking, Accessing, Doing, SetRun, Recording
    <2>3. CASE Retry(w)
        BY <1>1, <1>5, <2>3 DEF Retry, Asking, Accessing, Doing, SetRun, Recording
    <2>4. CASE ValidateLock(w)
        BY <1>1, <1>5, <2>4 DEF ValidateLock, Doing, SetRun, Recording
    <2>5. CASE \E l \in run[w].todo : ValidateLocation(w, l)
        BY <1>1, <1>5, <2>5, ZenonT(60) DEF ValidateLocation, Doing, SetRun, Recording
    <2> QED
        BY <2>1, <2>2, <2>3, <2>4, <2>5 DEF PlainStep
<1>7. \A l \in Locs, t \in Txs : Accounted(l, t)'
    BY <1>2, <1>4, <1>6, StillAccounted
<1>8. tx_idx[w] \in Txs /\ tx_idx' = tx_idx
    BY <1>2 DEF TypeOK, vars
<1>9. RecordedSoFar(w)' /\ \A l \in Locs : Accounted(l, tx_idx[w])'
    BY <1>6, <1>7, <1>8 DEF RecordedSoFar, Accounted
<1> QED
    BY <1>1, <1>2, <1>4, <1>6, <1>9, OwnStep DEF memoryVars, Recording

\* The steps that start a loop over locations.
LEMMA LoopMemory ==
    ASSUME TypeOK, ExecutorInv, WaitInv, MemoryInv, NEW w \in Workers,
           StoreResult(w) \/ EstimateLock(w)
    PROVE  MemoryInv'
<1>1. /\ DOMAIN run = Workers /\ DOMAIN run[w] = DOMAIN Idle
      /\ DOMAIN data = Locs /\ \A l \in Locs : DOMAIN data[l] = Txs
    BY DEF MemoryInv, CallInv
<1>2. UNCHANGED <<vars, memoryVars>>
    BY ZenonT(30) DEF StoreResult, EstimateLock
<1>3. PICK r : run' = [run EXCEPT ![w] = r]
    BY ZenonT(30) DEF StoreResult, EstimateLock, SetRun
<1>4. DOMAIN run' = Workers /\ run'[w] = r /\ \A v \in Workers \ {w} : run'[v] = run[v]
    BY <1>1, <1>3
<1>5. DOMAIN Idle = {"stage", "step", "origins", "values", "view", "gas", "todo"}
    BY DEF Idle
<1>6. ~Recording(w)
    BY DEF StoreResult, EstimateLock, Doing, Recording
<1>7. tx_idx[w] \in Txs /\ tx_idx' = tx_idx /\ last_locations' = last_locations
    BY <1>2 DEF TypeOK, vars, memoryVars
<1>8. \A l \in Locs : Accounted(l, tx_idx[w])'
    BY <1>2, <1>4, <1>6, <1>7, StillAccounted DEF Accounted
<1>9. CASE StoreResult(w)
    <2> DEFINE view == Refund(tx_idx[w], run[w].gas, run[w].view)
    <2>1. /\ pc[w] = "execute" /\ DOMAIN run'[w] = DOMAIN Idle
          /\ run'[w].stage = "writing" /\ run'[w].todo = DOMAIN WritesOf(w, view)
          /\ run'[w].view = view /\ run'[w].gas = run[w].gas
          /\ run'[w].values = run[w].values
        <3> HIDE DEF view
        <3>1. run' = [run EXCEPT ![w] = [run[w] EXCEPT !.stage = "writing", !.view = view,
                                              !.todo = DOMAIN WritesOf(w, view)]]
            BY <1>9 DEF StoreResult, SetRun, view
        <3>2. pc[w] = "execute"
            BY <1>9 DEF StoreResult, Doing
        <3> QED
            BY <1>1, <1>5, <3>1, <3>2
    <2>2. DOMAIN Writes(w)' = run'[w].todo
        BY <1>7, <2>1 DEF Writes, WritesOf
    <2>3. RecordedSoFar(w)'
        BY <2>1, <2>2 DEF RecordedSoFar
    <2> QED
        BY <1>1, <1>2, <1>4, <1>8, <2>1, <2>3, OwnStep DEF memoryVars
<1>10. CASE EstimateLock(w)
    <2>1. /\ pc[w] = "estimate" /\ DOMAIN run'[w] = DOMAIN Idle
          /\ run'[w].stage = "estimating"
          /\ run'[w].todo = last_locations[tx_idx[w]].write
        BY <1>1, <1>5, <1>10 DEF EstimateLock, SetRun, Doing, Idle
    <2>2. RecordedSoFar(w)'
        BY <2>1 DEF RecordedSoFar
    <2> QED
        BY <1>1, <1>2, <1>4, <1>8, <2>1, <2>2, OwnStep DEF memoryVars, Recording
<1> QED
    BY <1>9, <1>10

\* While w records, the other workers account for no entry of its transaction.
LEMMA AccountedByOwn ==
    ASSUME TypeOK, ExecutorInv, MemoryInv, NEW w \in Workers, Recording(w),
           NEW l \in Locs
    PROVE  \/ data[l][tx_idx[w]] = Absent
           \/ l \in last_locations[tx_idx[w]].write
           \/ l \in DOMAIN Writes(w)
<1>1. Accounted(l, tx_idx[w])
    BY DEF MemoryInv, TypeOK
<1>2. Beneficiary \in DOMAIN Writes(w)
    BY WriteSetFacts DEF Writes, WritesOf
<1>3. ASSUME NEW v \in Workers, Recording(v), tx_idx[v] = tx_idx[w] PROVE v = w
    <2>1. Runs(v) /\ Runs(w)
        BY <1>3 DEF MemoryInv, CallInv, Runs
    <2> QED
        BY <1>3, <2>1 DEF ExecutorInv, SingleExecutor
<1> QED
    BY <1>1, <1>2, <1>3 DEF Accounted

\* record turns to the locations that the previous incarnation wrote.
LEMMA LockMemory ==
    ASSUME TypeOK, ExecutorInv, WaitInv, MemoryInv, NEW w \in Workers, RecordLock(w)
    PROVE  MemoryInv'
<1>1. /\ DOMAIN run = Workers /\ DOMAIN run[w] = DOMAIN Idle
      /\ DOMAIN data = Locs /\ \A l \in Locs : DOMAIN data[l] = Txs
    BY DEF MemoryInv, CallInv
<1>2. /\ UNCHANGED <<vars, memoryVars>> /\ pc[w] = "execute"
      /\ run[w].stage = "writing" /\ run[w].todo = {}
      /\ run' = [run EXCEPT ![w] =
                    [run[w] EXCEPT !.stage = "removing", !.todo = StaleWrites(w)]]
    BY ZenonT(30) DEF RecordLock, Doing, SetRun
<1>3. DOMAIN Idle = {"stage", "step", "origins", "values", "view", "gas", "todo"}
    BY DEF Idle
<1>4. /\ DOMAIN run' = Workers /\ \A v \in Workers \ {w} : run'[v] = run[v]
      /\ DOMAIN run'[w] = DOMAIN Idle
      /\ run'[w].stage = "removing" /\ run'[w].todo = StaleWrites(w)
      /\ run'[w].gas = run[w].gas /\ run'[w].values = run[w].values
      /\ run'[w].view = run[w].view
    BY <1>1, <1>2, <1>3
<1>5. /\ tx_idx[w] \in Txs /\ tx_idx' = tx_idx /\ tx_incarnation' = tx_incarnation
      /\ data' = data /\ last_locations' = last_locations
    BY <1>2 DEF TypeOK, vars, memoryVars
<1>6. Writes(w)' = Writes(w) /\ Recording(w) /\ Recording(w)'
    BY <1>2, <1>4, <1>5 DEF Writes, WritesOf, Recording
<1>7. \A l \in Locs : \/ data[l][tx_idx[w]] = Absent
                      \/ l \in last_locations[tx_idx[w]].write
                      \/ l \in DOMAIN Writes(w)
    BY <1>6, AccountedByOwn
<1>8. RecordedSoFar(w)
    BY DEF MemoryInv
<1>9. RecordedSoFar(w)'
    BY <1>2, <1>4, <1>5, <1>6, <1>7, <1>8
    DEF RecordedSoFar, StaleWrites, Recorded, IsData, Absent
<1>10. \A l \in Locs : Accounted(l, tx_idx[w])'
    BY <1>5, <1>6, <1>7 DEF Accounted, Absent
<1> QED
    BY <1>1, <1>2, <1>4, <1>5, <1>9, <1>10, OwnStep DEF Recording

\* record inserts and removes, and convert_writes_to_estimates marks, one entry
\* of the worker's own transaction.
LEMMA EntryMemory ==
    ASSUME TypeOK, ExecutorInv, WaitInv, MemoryInv, NEW w \in Workers,
           NEW l \in run[w].todo,
           RecordWrite(w, l) \/ RecordRemove(w, l) \/ EstimateLocation(w, l)
    PROVE  MemoryInv'
<1> DEFINE t == tx_idx[w]
           Entry(entry) == data' = [data EXCEPT ![l][t] = entry]
<1>1. /\ DOMAIN run = Workers /\ DOMAIN run[w] = DOMAIN Idle
      /\ DOMAIN data = Locs /\ \A k \in Locs : DOMAIN data[k] = Txs
    BY DEF MemoryInv, CallInv
<1>2. UNCHANGED vars /\ last_locations' = last_locations
    BY ZenonT(30) DEF RecordWrite, RecordRemove, EstimateLocation
<1>3. SetRun(w, [run[w] EXCEPT !.todo = @ \ {l}])
    BY ZenonT(30) DEF RecordWrite, RecordRemove, EstimateLocation
<1>4. tx_idx' = tx_idx /\ t \in Txs /\ tx_incarnation' = tx_incarnation /\ pc' = pc
    BY <1>2 DEF vars, TypeOK
<1>5. /\ DOMAIN run'[w] = DOMAIN Idle /\ run'[w].stage = run[w].stage
      /\ run'[w].todo = run[w].todo \ {l} /\ Writes(w)' = Writes(w)
    BY <1>3, <1>4, TodoStep
<1>6. DOMAIN run' = Workers /\ \A v \in Workers \ {w} : run'[v] = run[v]
    BY <1>1, <1>3 DEF SetRun
<1>7. RecordedSoFar(w)
    BY DEF MemoryInv
<1>8. CASE RecordWrite(w, l)
    <2> DEFINE write == Writes(w)[l]
               entry == Data(write.kind, tx_incarnation[w], write.value)
    <2>1. pc[w] = "execute" /\ run[w].stage = "writing" /\ Entry(entry)
        BY <1>8 DEF RecordWrite, Doing, Insert
    <2>2. l \in DOMAIN Writes(w)
        BY <1>7, <2>1 DEF RecordedSoFar
    <2>3. IsData(entry) /\ entry.inc = tx_incarnation[w]
        <3>1. write.kind \in {"basic", "storage", "lazy"}
            BY <2>2, WriteSetFacts DEF Writes, WritesOf
        <3> QED
            BY <3>1 DEF IsData, Data
    <2> HIDE DEF entry
    <2>4. /\ DOMAIN data' = Locs /\ \A k \in Locs : DOMAIN data'[k] = Txs
          /\ \A k \in Locs, u \in Txs :
                 data'[k][u] = IF k = l /\ u = t THEN entry ELSE data[k][u]
        BY <1>1, <1>4, <2>1, OneEntry, SMTT(30)
    <2>5. Recording(w) /\ Recording(w)'
        BY <1>5, <2>1 DEF Recording
    <2>6. \A k \in Locs : \/ data[k][t] = Absent
                          \/ k \in last_locations[t].write
                          \/ k \in DOMAIN Writes(w)
        BY <2>5, AccountedByOwn
    <2>7. \A k \in Locs : Accounted(k, t)'
        BY <1>2, <1>4, <1>5, <2>2, <2>4, <2>5, <2>6 DEF Accounted, Absent
    <2>8. RecordedSoFar(w)'
        BY <1>4, <1>5, <1>7, <2>1, <2>3, <2>4, SMTT(30) DEF RecordedSoFar, Recorded, IsData
    <2> QED
        BY <1>2, <1>5, <1>6, <2>1, <2>4, <2>7, <2>8, OwnStep, SMTT(30) DEF Recording
<1>9. CASE RecordRemove(w, l)
    <2>1. pc[w] = "execute" /\ run[w].stage = "removing" /\ Entry(Absent)
        BY <1>9 DEF RecordRemove, Doing, Remove
    <2>2. /\ DOMAIN data' = Locs /\ \A k \in Locs : DOMAIN data'[k] = Txs
          /\ \A k \in Locs, u \in Txs :
                 data'[k][u] = IF k = l /\ u = t THEN Absent ELSE data[k][u]
        BY <1>1, <1>4, <2>1, OneEntry, SMTT(30)
    <2>3. Recording(w) /\ Recording(w)'
        BY <1>5, <2>1 DEF Recording
    <2>4. \A k \in Locs : \/ data[k][t] = Absent
                          \/ k \in last_locations[t].write
                          \/ k \in DOMAIN Writes(w)
        BY <2>3, AccountedByOwn
    <2>5. \A k \in Locs : Accounted(k, t)'
        BY <1>2, <1>4, <1>5, <2>2, <2>3, <2>4, ZenonT(60) DEF Accounted, Absent
    <2>6. RecordedSoFar(w)'
        BY <1>4, <1>5, <1>7, <2>1, <2>2, SMTT(30) DEF RecordedSoFar, Recorded, IsData, Absent
    <2> QED
        BY <1>2, <1>5, <1>6, <2>1, <2>2, <2>5, <2>6, OwnStep, SMTT(30) DEF Recording
<1>10. CASE EstimateLocation(w, l)
    <2>1. pc[w] = "estimate" /\ run[w].stage = "estimating" /\ Entry(Estimate)
        BY <1>10 DEF EstimateLocation, Doing, MarkEstimate
    <2>2. run[w].todo \subseteq last_locations[t].write
        BY <2>1 DEF MemoryInv, CallInv
    <2>3. /\ DOMAIN data' = Locs /\ \A k \in Locs : DOMAIN data'[k] = Txs
          /\ \A k \in Locs, u \in Txs :
                 data'[k][u] = IF k = l /\ u = t THEN Estimate ELSE data[k][u]
        BY <1>1, <1>4, <2>1, OneEntry, SMTT(30)
    <2>4. ASSUME NEW k \in Locs PROVE Accounted(k, t)'
        <3>1. CASE k = l
            BY <1>2, <1>4, <2>2, <3>1 DEF Accounted
        <3>2. CASE k # l
            <4>1. ASSUME NEW v \in Workers, Recording(v), tx_idx[v] = t PROVE FALSE
                <5>1. status[t] = "Executing"
                    BY <4>1, SMTT(30) DEF MemoryInv, CallInv, ExecutorInv, Runs
                <5>2. status[t] = "Aborting"
                    BY <2>1 DEF WaitInv, Holds, HeldIsAborted, HeldTx
                <5> QED
                    BY <5>1, <5>2
            <4>2. Accounted(k, t) /\ data'[k][t] = data[k][t]
                BY <1>4, <2>3, <3>2 DEF MemoryInv
            <4> QED
                BY <1>2, <1>4, <4>1, <4>2 DEF Accounted, Absent
        <3> QED
            BY <3>1, <3>2
    <2>5. RecordedSoFar(w)'
        BY <1>5, <2>1 DEF RecordedSoFar
    <2> QED
        BY <1>2, <1>4, <1>5, <1>6, <2>1, <2>2, <2>3, <2>4, <2>5, OwnStep, SMTT(30) DEF Recording
<1> QED
    BY <1>8, <1>9, <1>10

\* When record returns, the memory holds the write set of the transaction.
LEMMA DoneMemory ==
    ASSUME TypeOK, ExecutorInv, WaitInv, MemoryInv, NEW w \in Workers, RecordDone(w)
    PROVE  MemoryInv'
<1> DEFINE t == tx_idx[w]
           writes == DOMAIN Writes(w)
<1>1. /\ DOMAIN run = Workers /\ DOMAIN data = Locs /\ DOMAIN last_locations = Txs
      /\ \A l \in Locs : DOMAIN data[l] = Txs
    BY DEF MemoryInv
<1>2. /\ pc[w] = "execute" /\ run[w].stage = "removing" /\ run[w].todo = {}
      /\ data' = data /\ run' = [run EXCEPT ![w] = Idle]
    BY DEF RecordDone, Doing, SetRun
<1>3. PICK reads :
          last_locations' = [last_locations EXCEPT ![t] = [read |-> reads, write |-> writes]]
    BY DEF RecordDone, SetLastLocations
<1>4. /\ pc' = [pc EXCEPT ![w] = "finish_exec"]
      /\ status' = status /\ incarnation' = incarnation
      /\ tx_idx' = tx_idx /\ tx_incarnation' = tx_incarnation
    BY DEF RecordDone, VmOk
<1>5. t \in Txs /\ status[t] = "Executing" /\ pc \in [Workers -> Labels]
    BY <1>2 DEF TypeOK, ExecutorInv, Runs
<1>6. /\ DOMAIN last_locations' = Txs /\ last_locations'[t].write = writes
      /\ \A u \in Txs \ {t} : last_locations'[u] = last_locations[u]
    BY <1>1, <1>3, <1>5
<1>7. /\ DOMAIN run' = Workers /\ run'[w] = Idle
      /\ \A v \in Workers \ {w} : run'[v] = run[v] /\ pc'[v] = pc[v]
      /\ pc'[w] = "finish_exec"
    BY <1>1, <1>2, <1>4, <1>5
<1>8. Idle.stage = "idle"
    BY DEF Idle
<1>9. Matches(t, tx_incarnation[w])'
    <2>1. RecordedSoFar(w)
        BY DEF MemoryInv
    <2> QED
        BY <1>2, <1>4, <1>6, <2>1 DEF RecordedSoFar, Matches, Recorded, IsData, Absent
<1>10. ASSUME NEW v \in Workers, v # w, Runs(v) \/ pc[v] = "estimate"
       PROVE  tx_idx[v] \in Txs \ {t}
    <2>1. Runs(w) /\ tx_idx[v] \in Txs
        BY <1>2 DEF Runs, TypeOK
    <2>2. CASE Runs(v)
        BY <1>10, <2>1, <2>2 DEF ExecutorInv, SingleExecutor
    <2>3. CASE pc[v] = "estimate"
        BY <1>5, <2>1, <2>3 DEF WaitInv, Holds, HeldIsAborted, HeldTx
    <2> QED
        BY <1>10, <2>2, <2>3
<1>11. MemoryMatchesWriteSet'
    <2> SUFFICES ASSUME NEW u \in Txs, Finished(u) PROVE Matches(u, incarnation[u])'
        BY <1>4 DEF MemoryMatchesWriteSet, Finished
    <2>1. u # t /\ Matches(u, incarnation[u])
        BY <1>5 DEF MemoryInv, MemoryMatchesWriteSet, Finished
    <2> QED
        BY <1>2, <1>4, <1>6, <2>1 DEF Matches, Recorded, IsData, Absent
<1>12. CallInv'
    <2> SUFFICES ASSUME NEW v \in Workers
                 PROVE /\ DOMAIN run'[v] = DOMAIN Idle
                       /\ Recording(v)' => pc'[v] = "execute"
                       /\ run'[v].stage = "checking" => pc'[v] = "validate"
                       /\ run'[v].stage = "estimating" =>
                             /\ pc'[v] = "estimate"
                             /\ run'[v].todo \subseteq last_locations'[tx_idx'[v]].write
                       /\ Runs(v)' => tx_incarnation'[v] = incarnation'[tx_idx'[v]]
        BY DEF CallInv, Idle
    <2>1. CASE v # w
        <3>1. /\ DOMAIN run[v] = DOMAIN Idle
              /\ Recording(v) => pc[v] = "execute"
              /\ run[v].stage = "checking" => pc[v] = "validate"
              /\ run[v].stage = "estimating" =>
                    /\ pc[v] = "estimate"
                    /\ run[v].todo \subseteq last_locations[tx_idx[v]].write
              /\ Runs(v) => tx_incarnation[v] = incarnation[tx_idx[v]]
            BY DEF MemoryInv, CallInv
        <3>2. /\ run'[v] = run[v] /\ pc'[v] = pc[v]
              /\ Recording(v)' = Recording(v) /\ Runs(v)' = Runs(v)
            BY <1>7, <2>1 DEF Recording, Runs
        <3>3. pc[v] = "estimate" =>
                  last_locations'[tx_idx[v]] = last_locations[tx_idx[v]]
            BY <1>6, <1>10, <2>1
        <3> QED
            BY <1>4, <3>1, <3>2, <3>3
    <2>2. CASE v = w
        BY <1>2, <1>4, <1>7, <1>8, <2>2 DEF MemoryInv, CallInv, Recording, Runs
    <2> QED
        BY <2>1, <2>2
<1>13. ASSUME NEW v \in Workers
       PROVE  RecordedSoFar(v)' /\ (pc'[v] = "finish_exec" =>
                                        Matches(tx_idx[v], tx_incarnation[v])')
    <2>1. CASE v # w
        <3>1. RecordedSoFar(v) /\ (pc[v] = "finish_exec" =>
                                       Matches(tx_idx[v], tx_incarnation[v]))
            BY DEF MemoryInv
        <3>2. Writes(v)' = Writes(v)
            BY <1>4, <1>7, <2>1, SameWrites
        <3>3. RecordedSoFar(v)'
            BY <1>2, <1>4, <1>7, <2>1, <3>1, <3>2
            DEF RecordedSoFar, Recorded, IsData, Absent
        <3>4. pc[v] = "finish_exec" => tx_idx[v] \in Txs \ {t}
            BY <1>10, <2>1 DEF Runs
        <3> QED
            BY <1>2, <1>4, <1>6, <1>7, <2>1, <3>1, <3>3, <3>4
            DEF Matches, Recorded, IsData, Absent
    <2>2. CASE v = w
        BY <1>7, <1>8, <1>9, <2>2 DEF RecordedSoFar
    <2> QED
        BY <2>1, <2>2
<1>14. ASSUME NEW l \in Locs, NEW u \in Txs PROVE Accounted(l, u)'
    <2>1. CASE u = t
        BY <1>4, <1>9, <2>1 DEF Accounted, Matches, Absent
    <2>2. CASE u # t
        <3>1. Accounted(l, u)
            BY DEF MemoryInv
        <3>2. ASSUME NEW v \in Workers, Recording(v), tx_idx[v] = u,
                     l \in DOMAIN Writes(v)
              PROVE  Accounted(l, u)'
            <4>1. v # w /\ run'[v] = run[v] /\ tx_idx'[v] = u
                BY <1>4, <1>7, <2>2, <3>2
            <4>2. Recording(v)' /\ Writes(v)' = Writes(v)
                BY <3>2, <4>1, SameWrites DEF Recording
            <4> QED
                BY <3>2, <4>1, <4>2 DEF Accounted
        <3> QED
            BY <1>2, <1>6, <2>2, <3>1, <3>2 DEF Accounted, Absent
    <2> QED
        BY <2>1, <2>2
<1> QED
    BY <1>1, <1>2, <1>6, <1>7, <1>11, <1>12, <1>13, <1>14 DEF MemoryInv

-----------------------------------------------------------------------------
(***************************************************************************)
(* The memory keeps the writes of the latest incarnations, and its types.  *)
(***************************************************************************)

\* Every step of the executor keeps the invariant of the memory.
LEMMA MemoryStep ==
    ASSUME TypeOK, ExecutorInv, WaitInv, MemoryInv, [PevmNext]_pevmVars,
           MayFail = Txs, Restartable = Nat
    PROVE  MemoryInv'
<1>1. CASE UNCHANGED pevmVars
    <2>1. /\ pc' = pc /\ status' = status /\ incarnation' = incarnation
          /\ tx_idx' = tx_idx /\ tx_incarnation' = tx_incarnation
          /\ data' = data /\ last_locations' = last_locations /\ run' = run
        BY <1>1 DEF pevmVars, vars, memoryVars
    <2>2. \A v \in Workers : Writes(v)' = Writes(v)
        BY <2>1 DEF Writes, WritesOf
    <2>3. MemoryMatchesWriteSet'
        BY <2>1 DEF MemoryInv, MemoryMatchesWriteSet, Finished, Matches, Recorded,
           IsData, Absent
    <2>4. CallInv'
        BY <2>1 DEF MemoryInv, CallInv, Recording, Runs, Idle
    <2>5. ASSUME NEW v \in Workers
          PROVE  RecordedSoFar(v)' /\ (pc'[v] = "finish_exec" =>
                                           Matches(tx_idx[v], tx_incarnation[v])')
        <3>1. RecordedSoFar(v) /\ (pc[v] = "finish_exec" =>
                                       Matches(tx_idx[v], tx_incarnation[v]))
            BY DEF MemoryInv
        <3> QED
            BY <2>1, <2>2, <3>1 DEF RecordedSoFar, Matches, Recorded, IsData, Absent
    <2>6. ASSUME NEW l \in Locs, NEW t \in Txs PROVE Accounted(l, t)'
        <3>1. Accounted(l, t)
            BY DEF MemoryInv
        <3> QED
            BY <2>1, <2>2, <3>1 DEF Accounted, Recording, Absent
    <2> QED
        BY <2>1, <2>3, <2>4, <2>5, <2>6 DEF MemoryInv
<1>2. ASSUME NEW w \in Workers, WorkerStep(w) PROVE MemoryInv'
    <2>1. DOMAIN run = Workers /\ pc \in [Workers -> Labels] /\ Idle.stage = "idle"
        BY DEF MemoryInv, TypeOK, Idle
    <2>2. CASE SchedulerStep(w) /\ UNCHANGED <<memoryVars, run, execution_results>>
        <3>1. pc[w] \notin {"execute", "validate", "estimate"}
            BY <2>2, Guards, SMTT(30) DEF SchedulerStep
        <3>2. ~Recording(w) /\ run'[w].stage \notin Stages
            BY <2>2, <3>1 DEF MemoryInv, CallInv, Recording, Stages
        <3>3. pc'[w] # "finish_exec"
            BY <2>2, <3>1, RunningSteps DEF Runs
        <3> QED
            BY <2>2, <3>2, <3>3, VisibleStep, ZenonT(60)
    <2>3. CASE InnerStep(w)
        <3>1. CASE PlainStep(w)
            BY <3>1, PlainMemory
        <3>2. CASE StoreResult(w) \/ EstimateLock(w)
            BY <3>2, LoopMemory
        <3>3. CASE RecordLock(w)
            BY <3>3, LockMemory
        <3>4. CASE \E l \in run[w].todo :
                       RecordWrite(w, l) \/ RecordRemove(w, l) \/ EstimateLocation(w, l)
            BY <3>4, EntryMemory
        <3> QED
            BY <2>3, <3>1, <3>2, <3>3, <3>4, ZenonT(30) DEF InnerStep, PlainStep
    <2>4. CASE AnswerStep(w)
        <3>1. CASE RecordDone(w)
            BY <3>1, DoneMemory
        <3>2. CASE ~RecordDone(w)
            <4>1. EnvironmentStep(w)
                BY <2>4, AnswerSteps
            <4>2. UNCHANGED memoryVars /\ run' = [run EXCEPT ![w] = Idle]
                BY <2>4, <3>2, ZenonT(30) DEF AnswerStep, BlockedRead, AwaitFunds,
                   Rejected, StorageFails, ValidateDone, EstimateDone,
                   ValidateFails, SetRun, memoryVars
            <4>3. ~Recording(w)
                BY <2>4, <3>2 DEF AnswerStep, BlockedRead, AwaitFunds, Rejected,
                   StorageFails, ValidateDone, EstimateDone, ValidateFails,
                   Answered, Asking, Accessing, Doing, Recording
            <4>4. pc'[w] # "finish_exec"
                <5>1. \/ \E b : VmReadError(w, b)
                      \/ VmExecutionError(w) \/ ReadSetValid(w) \/ ReadSetInvalid(w)
                      \/ EstimatesWritten(w)
                    BY <2>4, <3>2, ZenonT(30) DEF AnswerStep, BlockedRead,
                       AwaitFunds, Rejected, StorageFails, ValidateDone,
                       EstimateDone, ValidateFails
                <5> QED
                    BY <2>1, <5>1 DEF VmReadError, VmExecutionError, ReadSetValid,
                       ReadSetInvalid, EstimatesWritten
            <4>5. run'[w].stage \notin Stages
                BY <2>1, <4>2 DEF Stages
            <4> QED
                BY <4>1, <4>2, <4>3, <4>4, <4>5, VisibleStep
        <3> QED
            BY <3>1, <3>2
    <2> QED
        BY <1>2, <2>2, <2>3, <2>4, WorkerSteps
<1> QED
    BY <1>1, <1>2, Zenon DEF PevmNext

\* MvMemory::new and Scheduler::new agree: nothing is executed, and the only
\* entries are the ESTIMATEs of the beneficiary.
LEMMA MemoryStart == PevmInit => MemoryInv
<1> SUFFICES ASSUME PevmInit PROVE MemoryInv
    OBVIOUS
<1>1. /\ run = [w \in Workers |-> Idle] /\ Idle.stage = "idle"
      /\ data = [l \in Locs |-> [t \in Txs |->
                    IF l = Beneficiary THEN Estimate ELSE Absent]]
      /\ last_locations = [t \in Txs |-> [read |-> <<>>, write |-> {}]]
    BY DEF PevmInit, MemoryInit, Idle
<1>2. /\ pc = [w \in Workers |-> "next"]
      /\ \A t \in Txs : status[t] \in {"Aborting", "ReadyToExecute"}
    BY DEF PevmInit, Init
<1>3. MemoryMatchesWriteSet
    BY <1>2 DEF MemoryMatchesWriteSet, Finished
<1>4. CallInv
    BY <1>1, <1>2 DEF CallInv, Recording, Runs
<1>5. \A w \in Workers : RecordedSoFar(w) /\ pc[w] # "finish_exec"
    BY <1>1, <1>2 DEF RecordedSoFar
<1>6. \A l \in Locs, t \in Txs : Accounted(l, t)
    BY <1>1 DEF Accounted
<1> QED
    BY <1>1, <1>3, <1>4, <1>5, <1>6 DEF MemoryInv

-----------------------------------------------------------------------------
(***************************************************************************)
(* The types of the memory and of the calls.                               *)
(***************************************************************************)

\* Every access of a transaction is to a location.
LEMMA AccessLocs ==
    ASSUME NEW t \in Txs, NEW k \in 1 .. Len(VmAccesses[t])
    PROVE  VmAccesses[t][k].loc \in Locs
<1> DEFINE S == Instructions \cup [op : {"debit", "credit", "create"}, loc : Accounts]
<1>1. Transactions[t].code \in Seq(S)
    <2>1. Transactions[t].code \in Seq(Instructions)
        BY EvmAssumption
    <2> QED
        BY <2>1, SMTT(30)
<1>2. ASSUME NEW i \in S PROVE <<i>> \in Seq(S)
    BY SMTT(30)
<1>3. SenderAccess(t) \in Seq(S)
    <2>1. [op |-> "debit", loc |-> From(t)] \in S
        BY EvmAssumption DEF From
    <2> QED
        BY <1>2, <2>1, Zenon DEF SenderAccess
<1>4. RecipientAccess(t) \in Seq(S)
    <2>1. To(t) = NoAddress => [op |-> "create", loc |-> Transactions[t].creates] \in S
        BY EvmAssumption DEF To
    <2>2. To(t) # NoAddress => [op |-> "credit", loc |-> To(t)] \in S
        BY EvmAssumption DEF To
    <2>3. << >> \in Seq(S)
        BY SMTT(30)
    <2> HIDE DEF S
    <2> QED
        BY <1>2, <2>1, <2>2, <2>3 DEF RecipientAccess
<1>5. \A i \in S : i.loc \in Locs
    BY DEF Instructions, Locs
<1> HIDE DEF S
<1>6. VmAccesses[t] \in Seq(S)
    BY <1>1, <1>3, <1>4, SMTT(30) DEF VmAccesses, Accesses
<1>7. VmAccesses[t][k] \in S
    BY <1>6, SMTT(30)
<1> QED
    BY <1>5, <1>7

\* An access changes the values of locations that are known already.
LEMMA ApplyDomain ==
    ASSUME NEW t, NEW i, NEW view
    PROVE  DOMAIN Apply(t, i, view) = DOMAIN view
BY DEF Apply

\* The write set is at locations, with full values or lazy additions for
\* accounts and values for slots.
LEMMA WriteSetTyped ==
    ASSUME NEW t \in Txs, NEW gas, NEW values, NEW view, DOMAIN view \subseteq Locs
    PROVE  /\ DOMAIN WriteSet(t, gas, values, view) \subseteq Locs
           /\ \A l \in DOMAIN WriteSet(t, gas, values, view) :
                  WriteSet(t, gas, values, view)[l].kind \in
                      IF l \in Accounts THEN {"basic", "lazy"} ELSE {"storage"}
<1> DEFINE changed == ChangedLocations(values, view)
<1>1. changed \subseteq Locs
    BY DEF ChangedLocations
<1>2. LazyRecipient(t) \subseteq Accounts /\ Beneficiary \in Accounts
    BY EvmAssumption DEF LazyRecipient, IsMaybeLazy, To
<1>3. Accounts \cap Slots = {}
    BY EvmAssumption
<1> HIDE DEF changed
<1> QED
    BY <1>1, <1>2, <1>3 DEF WriteSet, KindOf, Locs, changed

\* The type of a call in progress.
RunTyped(r) ==
    /\ r.stage \in {"idle", "writing", "removing", "checking", "estimating"}
    /\ r.step \in Nat \ {0} /\ r.todo \subseteq Locs
    /\ DOMAIN r.origins \subseteq Locs
    /\ DOMAIN r.view \subseteq Locs

\* No call.
LEMMA IdleTyped == RunTyped(Idle)
BY SMTT(30) DEF RunTyped, Idle

\* A step inside Vm::execute or inside a loop over locations keeps the type of
\* the call.
LEMMA InnerTyped ==
    ASSUME PevmTypeOK, MemoryInv, NEW w \in Workers, InnerStep(w)
    PROVE  RunTyped(run'[w]) /\ \A v \in Workers \ {w} : run'[v] = run[v]
<1>1. /\ DOMAIN run = Workers /\ RunTyped(run[w]) /\ tx_idx[w] \in Txs
      /\ \A t \in Txs : /\ DOMAIN last_locations[t].read \subseteq Locs
                        /\ last_locations[t].write \subseteq Locs
    BY DEF PevmTypeOK, TypeOK, MemoryInv, RunTyped
<1>2. /\ DOMAIN run[w] = DOMAIN Idle
      /\ DOMAIN Idle = {"stage", "step", "origins", "values", "view", "gas", "todo"}
    BY DEF MemoryInv, CallInv, Idle
<1>3. PICK r : run' = [run EXCEPT ![w] = r]
    BY ZenonT(60) DEF InnerStep, LocalAccess, Retry, Read, StoreResult, RecordLock,
       ValidateLock, EstimateLock, RecordWrite, RecordRemove, ValidateLocation,
       EstimateLocation, SetRun
<1>4. run'[w] = r /\ \A v \in Workers \ {w} : run'[v] = run[v]
    BY <1>1, <1>3
<1>5. Accessing(w) => Access(w).loc \in Locs
    <2>1. Accessing(w) => run[w].step \in 1 .. Len(VmAccesses[tx_idx[w]])
        BY <1>1, SMTT(30) DEF Accessing, RunTyped
    <2> QED
        BY <1>1, <2>1, AccessLocs DEF Access
<1>6. CASE LocalAccess(w)
    <2> DEFINE view == IF IsSkipped(w) THEN run[w].view
                       ELSE Apply(tx_idx[w], Access(w), run[w].view)
    <2>1. DOMAIN view \subseteq Locs
        BY <1>1, ApplyDomain, SMTT(30) DEF RunTyped
    <2>2. PICK gas : SetRun(w, [run[w] EXCEPT !.step = @ + 1, !.view = view, !.gas = gas])
        BY <1>6 DEF LocalAccess
    <2> HIDE DEF view
    <2>3. run'[w] = [run[w] EXCEPT !.step = @ + 1, !.view = view, !.gas = gas]
        BY <1>1, <2>2 DEF SetRun
    <2> QED
        BY <1>1, <1>2, <1>4, <2>1, <2>3, SMTT(30) DEF RunTyped
<1>7. CASE Read(w)
    <2> DEFINE l == Access(w).loc
               known == IF Access(w).op = "reread" THEN run[w].view
                        ELSE Put(run[w].view, l, Answer(w))
               view == Apply(tx_idx[w], Access(w), known)
               origins == Put(run[w].origins, l, FoundOrigins(l, tx_idx[w]))
    <2>1. l \in Locs
        BY <1>5, <1>7 DEF Read, Answered, Asking
    <2>2. DOMAIN view \subseteq Locs /\ DOMAIN origins \subseteq Locs
        BY <1>1, <2>1, ApplyDomain, SMTT(30) DEF RunTyped, Put
    <2>3. run' = [run EXCEPT ![w] = [run[w] EXCEPT
                     !.step = @ + 1, !.origins = origins,
                     !.values = Put(@, l, Answer(w)), !.view = view,
                     !.gas = @ + GasOf(Access(w))]]
        BY <1>7, Zenon DEF Read, SetRun
    <2> HIDE DEF view, origins, l
    <2>4. /\ run'[w].step = run[w].step + 1 /\ run'[w].origins = origins
          /\ run'[w].view = view
          /\ run'[w].stage = run[w].stage /\ run'[w].todo = run[w].todo
        BY <1>1, <1>2, <2>3
    <2> QED
        BY <1>1, <1>4, <2>2, <2>4, SMTT(30) DEF RunTyped
<1>8. CASE StoreResult(w)
    <2> DEFINE view == Refund(tx_idx[w], run[w].gas, run[w].view)
               todo == DOMAIN WritesOf(w, view)
    <2>1. DOMAIN view \subseteq Locs
        BY <1>1 DEF RunTyped, Refund
    <2> HIDE DEF view
    <2>2. todo \subseteq Locs
        BY <1>1, <2>1, WriteSetTyped DEF WritesOf
    <2>3. SetRun(w, [run[w] EXCEPT !.stage = "writing", !.view = view, !.todo = todo])
        BY <1>8 DEF StoreResult, view
    <2> HIDE DEF todo
    <2> QED
        BY <1>1, <1>2, <1>4, <2>1, <2>2, <2>3 DEF RunTyped, SetRun
<1>9. CASE Retry(w)
    BY <1>1, <1>4, <1>9, IdleTyped DEF Retry, SetRun
<1>10. CASE RecordLock(w)
    <2>1. StaleWrites(w) \subseteq Locs
        BY <1>1 DEF StaleWrites
    <2> QED
        BY <1>1, <1>2, <1>4, <1>10, <2>1 DEF RecordLock, RunTyped, SetRun
<1>11. CASE ValidateLock(w) \/ EstimateLock(w)
    <2>1. PICK todo : /\ todo \subseteq Locs
                      /\ \/ SetRun(w, [Idle EXCEPT !.stage = "checking", !.todo = todo])
                         \/ SetRun(w, [Idle EXCEPT !.stage = "estimating", !.todo = todo])
        BY <1>1, <1>11 DEF ValidateLock, EstimateLock
    <2>2. \/ run'[w] = [Idle EXCEPT !.stage = "checking", !.todo = todo]
          \/ run'[w] = [Idle EXCEPT !.stage = "estimating", !.todo = todo]
        BY <1>1, <2>1 DEF SetRun
    <2> QED
        BY <1>2, <1>4, <2>1, <2>2, IdleTyped DEF RunTyped
<1>12. CASE \E l \in run[w].todo : \/ RecordWrite(w, l) \/ RecordRemove(w, l)
                                   \/ ValidateLocation(w, l) \/ EstimateLocation(w, l)
    <2>1. PICK l : SetRun(w, [run[w] EXCEPT !.todo = @ \ {l}])
        BY <1>12, ZenonT(30) DEF RecordWrite, RecordRemove, ValidateLocation,
           EstimateLocation
    <2> QED
        BY <1>1, <1>2, <1>4, <2>1 DEF RunTyped, SetRun
<1> QED
    BY <1>4, <1>6, <1>7, <1>8, <1>9, <1>10, <1>11, <1>12, Zenon DEF InnerStep

\* Every step of the executor keeps the types.
LEMMA PevmTypeStep ==
    ASSUME PevmTypeOK, MemoryInv, TypeOK', [PevmNext]_pevmVars
    PROVE  PevmTypeOK'
<1> DEFINE Kinds(l) == {"absent", "estimate"}
                       \cup (IF l \in Accounts THEN {"basic", "lazy"} ELSE {"storage"})
           Sets(t) == /\ DOMAIN last_locations[t].read \subseteq Locs
                      /\ last_locations[t].write \subseteq Locs
<1>1. /\ DOMAIN run = Workers /\ DOMAIN last_locations = Txs
      /\ DOMAIN data = Locs /\ \A l \in Locs : DOMAIN data[l] = Txs
      /\ \A w \in Workers : RunTyped(run[w]) /\ tx_idx[w] \in Txs
      /\ \A l \in Locs, t \in Txs : data[l][t].kind \in Kinds(l)
      /\ \A t \in Txs : Sets(t)
    BY DEF PevmTypeOK, TypeOK, MemoryInv, RunTyped
<1> SUFFICES /\ \A l \in Locs, t \in Txs : data'[l][t].kind \in Kinds(l)
             /\ \A t \in Txs : Sets(t)'
             /\ \A w \in Workers : RunTyped(run'[w])
    BY DEF PevmTypeOK, RunTyped
<1>2. CASE UNCHANGED pevmVars
    BY <1>1, <1>2 DEF pevmVars, memoryVars
<1>3. ASSUME NEW w \in Workers, WorkerStep(w)
      PROVE  \A v \in Workers : RunTyped(run'[v])
    <2>1. CASE run' = run
        BY <1>1, <2>1
    <2>2. CASE InnerStep(w)
        BY <1>1, <2>2, InnerTyped
    <2>3. CASE run' = [run EXCEPT ![w] = Idle]
        BY <1>1, <2>3, IdleTyped
    <2>4. AnswerStep(w) => run' = [run EXCEPT ![w] = Idle]
        BY ZenonT(30) DEF AnswerStep, BlockedRead, AwaitFunds, Rejected, StorageFails,
           RecordDone, ValidateDone, EstimateDone, ValidateFails, SetRun
    <2> QED
        BY <1>3, <2>1, <2>2, <2>3, <2>4, WorkerSteps
<1>4. ASSUME NEW w \in Workers, WorkerStep(w)
      PROVE  \A l \in Locs, t \in Txs : data'[l][t].kind \in Kinds(l)
    <2>1. CASE data' = data
        BY <1>1, <2>1
    <2>2. ASSUME NEW l, NEW entry, entry.kind \in Kinds(l),
                 data' = [data EXCEPT ![l][tx_idx[w]] = entry]
          PROVE  \A k \in Locs, t \in Txs : data'[k][t].kind \in Kinds(k)
        <3> HIDE DEF Kinds
        <3> QED
            BY <1>1, <2>2, OneEntry
    <2>3. ASSUME NEW l \in run[w].todo, RecordWrite(w, l)
          PROVE  \A k \in Locs, t \in Txs : data'[k][t].kind \in Kinds(k)
        <3> DEFINE entry == Data(Writes(w)[l].kind, tx_incarnation[w], Writes(w)[l].value)
        <3>1. run[w].stage = "writing" /\ RecordedSoFar(w) /\ DOMAIN run[w].view \subseteq Locs
            BY <1>1, <2>3 DEF MemoryInv, RunTyped, RecordWrite, Doing
        <3>2. l \in DOMAIN Writes(w)
            BY <3>1 DEF RecordedSoFar
        <3>3. Writes(w)[l].kind \in Kinds(l)
            BY <1>1, <3>1, <3>2, WriteSetTyped, SMTT(30) DEF Writes, WritesOf
        <3>4. entry.kind \in Kinds(l)
            BY <3>3 DEF Data
        <3>5. data' = [data EXCEPT ![l][tx_idx[w]] = entry]
            BY <2>3 DEF RecordWrite, Insert
        <3> HIDE DEF entry, Kinds
        <3> QED
            BY <2>2, <3>4, <3>5
    <2>4. ASSUME NEW l \in run[w].todo, RecordRemove(w, l) \/ EstimateLocation(w, l)
          PROVE  \A k \in Locs, t \in Txs : data'[k][t].kind \in Kinds(k)
        <3>1. Absent.kind \in Kinds(l) /\ Estimate.kind \in Kinds(l)
            BY DEF Absent, Estimate
        <3>2. \/ data' = [data EXCEPT ![l][tx_idx[w]] = Absent]
              \/ data' = [data EXCEPT ![l][tx_idx[w]] = Estimate]
            BY <2>4 DEF RecordRemove, EstimateLocation, Remove, MarkEstimate
        <3> HIDE DEF Kinds
        <3> QED
            BY <2>2, <3>1, <3>2
    <2>5. \/ data' = data
          \/ \E l \in run[w].todo :
                RecordWrite(w, l) \/ RecordRemove(w, l) \/ EstimateLocation(w, l)
        BY <1>3, <1>4, ZenonT(60) DEF WorkerStep, LocalAccess, Retry, BlockedRead, Read,
           AwaitFunds, Rejected, StorageFails, StoreResult, RecordLock, RecordDone,
           ValidateLock, ValidateLocation, ValidateFails, ValidateDone, EstimateLock,
           EstimateDone, memoryVars
    <2> HIDE DEF Kinds
    <2> QED
        BY <2>1, <2>3, <2>4, <2>5
<1>5. ASSUME NEW w \in Workers, WorkerStep(w)
      PROVE  \A t \in Txs : Sets(t)'
    <2>1. CASE last_locations' = last_locations
        BY <1>1, <2>1
    <2>2. CASE RecordDone(w)
        <3>1. /\ DOMAIN run[w].origins \subseteq Locs
              /\ DOMAIN Writes(w) \subseteq Locs
            BY <1>1, WriteSetTyped DEF Writes, WritesOf, RunTyped
        <3>2. last_locations' = [last_locations EXCEPT ![tx_idx[w]] =
                  [read |-> run[w].origins, write |-> DOMAIN Writes(w)]]
            BY <2>2 DEF RecordDone, SetLastLocations
        <3> QED
            BY <1>1, <3>1, <3>2
    <2>3. last_locations' = last_locations \/ RecordDone(w)
        BY <1>5, ZenonT(60) DEF WorkerStep, LocalAccess, Retry, BlockedRead, Read,
           AwaitFunds, Rejected, StorageFails, StoreResult, RecordLock, RecordWrite,
           RecordRemove, EstimateLocation, ValidateLock, ValidateLocation,
           ValidateFails, ValidateDone, EstimateLock, EstimateDone, memoryVars
    <2> QED
        BY <2>1, <2>2, <2>3
<1> HIDE DEF Kinds, Sets
<1> QED
    BY <1>2, <1>3, <1>4, <1>5, Zenon DEF PevmNext

\* The memory and the calls start with their types.
LEMMA PevmTypeStart == PevmInit => PevmTypeOK
<1> SUFFICES ASSUME PevmInit PROVE PevmTypeOK
    OBVIOUS
<1>1. TypeOK
    BY TypeInit DEF PevmInit
<1>2. /\ run = [w \in Workers |-> Idle]
      /\ data = [l \in Locs |-> [t \in Txs |->
                    IF l = Beneficiary THEN Estimate ELSE Absent]]
      /\ last_locations = [t \in Txs |-> [read |-> <<>>, write |-> {}]]
    BY DEF PevmInit, MemoryInit
<1>3. \A w \in Workers : RunTyped(run[w])
    BY <1>2, IdleTyped
<1>4. \A l \in Locs, t \in Txs : data[l][t].kind \in {"absent", "estimate"}
    BY <1>2 DEF Absent, Estimate
<1>5. \A t \in Txs : /\ DOMAIN last_locations[t].read \subseteq Locs
                     /\ last_locations[t].write \subseteq Locs
    BY <1>2, SMTT(30)
<1> QED
    BY <1>1, <1>3, <1>4, <1>5 DEF PevmTypeOK, RunTyped

-----------------------------------------------------------------------------
(***************************************************************************)
(* Steps of the scheduler, as far as the validation of reads needs them.   *)
(***************************************************************************)

\* The result of an execution is kept until the worker's next task.
LEMMA ResultSteps ==
    ASSUME TypeOK, NEW w \in Workers, SchedulerStep(w) \/ EnvironmentStep(w)
    PROVE  /\ \A v \in Workers \ {w} :
                  /\ wrote_new_location'[v] = wrote_new_location[v]
                  /\ next_validation_idx'[v] = next_validation_idx[v]
           /\ \/ UNCHANGED resultVars
              \/ pc[w] \in {"ret_none", "ret_execution", "ret_validation", "execute"}
<1>1. /\ wrote_new_location \in [Workers -> BOOLEAN]
      /\ next_validation_idx \in [Workers -> 0 .. BlockSize]
    BY DEF TypeOK
<1>2. CASE AfterTask(w)
    BY <1>1, <1>2 DEF AfterTask
<1>3. ASSUME NEW wrote, NEW next, VmOk(w, wrote, next)
      PROVE  /\ \A v \in Workers \ {w} :
                    /\ wrote_new_location'[v] = wrote_new_location[v]
                    /\ next_validation_idx'[v] = next_validation_idx[v]
             /\ pc[w] = "execute"
    BY <1>1, <1>3 DEF VmOk
<1>4. \/ UNCHANGED resultVars \/ AfterTask(w) \/ \E wrote, next : VmOk(w, wrote, next)
    <2>1. CASE SchedulerStep(w)
        BY <2>1, ZenonT(60) DEF SchedulerStep, LoadExecutionIdx, LoadValidationIdx,
           LoadNumValidated, LoadMinValidationIdx, FetchAddValidation,
           LockForValidation, FetchAddExecution, LockForExecution, LockBlocking,
           AbortSelf, PushDependent, CountDependency, SetExecuted, LockDependents,
           CountDownDependent, ResumeDependent, LowerExecutionIdx,
           LowerMinValidationIdx, ValidateFromMin, CheckValidationIdx,
           ValidateFromNext, TryValidationAbort, ReadyAborted, ValidateHigher,
           CheckExecutionIdx, MarkValidated
    <2>2. CASE EnvironmentStep(w)
        BY <2>2, ZenonT(60) DEF EnvironmentStep, VmReadError, VmExecutionError,
           ReadSetValid, ReadSetInvalid, EstimatesWritten
    <2> QED
        BY <2>1, <2>2, ZenonT(60)
<1> QED
    BY <1>2, <1>3, <1>4, Guards, Zenon

\* min_validation_idx is only lowered, by finish_execution, and validation_idx
\* only raised by the one who takes the transaction it was at.
LEMMA IdxLowers ==
    ASSUME TypeOK, NEW w \in Workers, SchedulerStep(w) \/ EnvironmentStep(w)
    PROVE  /\ \/ min_validation_idx' = min_validation_idx
              \/ LowerMinValidationIdx(w) /\ min_validation_idx' < min_validation_idx
           /\ validation_idx' <= validation_idx \/ FetchAddValidation(w)
<1>1. min_validation_idx \in Nat /\ validation_idx \in Nat /\ tx_idx[w] \in Nat
      /\ reg[w] \in Nat /\ next_validation_idx[w] \in Nat
    BY IndexTypes, TxsFacts, SMTT(30) DEF TypeOK
<1>2. \/ min_validation_idx' = min_validation_idx \/ LowerMinValidationIdx(w)
    <2>1. CASE SchedulerStep(w)
        BY <2>1, ZenonT(60) DEF SchedulerStep, LoadExecutionIdx, LoadValidationIdx,
           LoadNumValidated, LoadMinValidationIdx, FetchAddValidation,
           LockForValidation, FetchAddExecution, LockForExecution, LockBlocking,
           AbortSelf, PushDependent, CountDependency, SetExecuted, LockDependents,
           CountDownDependent, ResumeDependent, LowerExecutionIdx,
           ValidateFromMin, CheckValidationIdx,
           ValidateFromNext, TryValidationAbort, ReadyAborted, ValidateHigher,
           CheckExecutionIdx, MarkValidated, AfterTask
    <2>2. CASE EnvironmentStep(w)
        BY <2>2, ZenonT(60) DEF EnvironmentStep, VmReadError, VmOk, VmExecutionError,
           ReadSetValid, ReadSetInvalid, EstimatesWritten
    <2> QED
        BY <2>1, <2>2, ZenonT(60)
<1>3. LowerMinValidationIdx(w) => min_validation_idx' <= min_validation_idx
    BY <1>1, SMTT(30) DEF LowerMinValidationIdx, MinWith, Lower
<1>4. min_validation_idx' \in Nat
    BY <1>1, <1>2 DEF LowerMinValidationIdx, MinWith, Lower
<1>5. \/ validation_idx' = validation_idx \/ FetchAddValidation(w)
      \/ ValidateFromMin(w) \/ ValidateFromNext(w) \/ ValidateHigher(w)
    <2>1. CASE SchedulerStep(w)
        BY <2>1, ZenonT(60) DEF SchedulerStep, LoadExecutionIdx, LoadValidationIdx,
           LoadNumValidated, LoadMinValidationIdx,
           LockForValidation, FetchAddExecution, LockForExecution, LockBlocking,
           AbortSelf, PushDependent, CountDependency, SetExecuted, LockDependents,
           CountDownDependent, ResumeDependent, LowerExecutionIdx,
           LowerMinValidationIdx, CheckValidationIdx,
           TryValidationAbort, ReadyAborted,
           CheckExecutionIdx, MarkValidated, AfterTask
    <2>2. CASE EnvironmentStep(w)
        BY <2>2, ZenonT(60) DEF EnvironmentStep, VmReadError, VmOk, VmExecutionError,
           ReadSetValid, ReadSetInvalid, EstimatesWritten
    <2> QED
        BY <2>1, <2>2
<1>6. ValidateFromMin(w) \/ ValidateFromNext(w) \/ ValidateHigher(w) =>
          validation_idx' <= validation_idx
    BY <1>1, SMTT(30) DEF ValidateFromMin, ValidateFromNext, ValidateHigher, Lower
<1>7. validation_idx' = validation_idx => validation_idx' <= validation_idx
    BY <1>1, SMTT(30)
<1> QED
    BY <1>1, <1>2, <1>3, <1>4, <1>5, <1>6, <1>7, SMTT(30)

\* The step of the scheduler that each label of a worker announces.
TakenFrom(w) ==
    /\ pc[w] = "lock_val" => LockForValidation(w)
    /\ pc[w] = "finish_exec" => SetExecuted(w)
    /\ pc[w] = "lock_deps" => LockDependents(w)
    /\ pc[w] = "resume" => \E d \in Txs : CountDownDependent(w, d)
    /\ pc[w] = "resume_ready" => ResumeDependent(w)
    /\ pc[w] = "lower_exec" => LowerExecutionIdx(w)
    /\ pc[w] = "lower_min" => LowerMinValidationIdx(w)
    /\ pc[w] = "validate_from_min" => ValidateFromMin(w)
    /\ pc[w] = "check_val" => CheckValidationIdx(w)
    /\ pc[w] = "validate_from_next" => ValidateFromNext(w)
    /\ pc[w] = "try_abort" => TryValidationAbort(w)
    /\ pc[w] = "ready_aborted" => ReadyAborted(w)
    /\ pc[w] = "validate_higher" => ValidateHigher(w)
    /\ pc[w] = "ret_validation" => AfterTask(w)
    /\ pc[w] \notin {"execute", "validate", "estimate"}

\* A worker's label says which step of the scheduler is its next.
LEMMA SchedulerStepAt ==
    ASSUME NEW w \in Workers, SchedulerStep(w)
    PROVE  TakenFrom(w)
BY Guards, SMTT(60) DEF SchedulerStep, TakenFrom

-----------------------------------------------------------------------------
(***************************************************************************)
(* Reads and the memory.                                                   *)
(***************************************************************************)

\* What was read stays valid if the entries below that change were ESTIMATEs:
\* validate_read_locations met none of these.
LEMMA StaysValid ==
    ASSUME NEW t \in Txs, NEW l, last_locations'[t].read[l] = last_locations[t].read[l],
           \A i \in 0 .. (t - 1) : data'[l][i] = data[l][i] \/ data[l][i] = Estimate,
           ReadValid(l, t)
    PROVE  ReadValid(l, t)'
<1> DEFINE origins == last_locations[t].read[l]
           InReach(i) == origins.storage \/ \E v \in origins.mv : v[1] <= i
           met == {i \in Written(l, t) : InReach(i)}
<1>1. /\ \A i \in met : IsData(data[l][i])
      /\ {Version(l, i) : i \in met} = origins.mv
    BY DEF ReadValid, OriginsStillValid
<1>2. ~IsData(Estimate) /\ Estimate # Absent
    BY DEF IsData, Estimate, Absent
<1>3. \A i \in met : i \in 0 .. (t - 1) /\ data'[l][i] = data[l][i]
    BY <1>1, <1>2 DEF Written
<1>4. met' = met
    <2> HIDE DEF InReach
    <2>1. \A i \in 0 .. (t - 1) : InReach(i)' = InReach(i)
        BY DEF InReach
    <2>2. ASSUME NEW i \in 0 .. (t - 1), InReach(i)
          PROVE  data'[l][i] # Absent <=> data[l][i] # Absent
        <3>1. CASE data'[l][i] = data[l][i]
            BY <3>1
        <3>2. CASE data[l][i] = Estimate
            <4>1. i \in met
                BY <1>2, <2>2, <3>2 DEF Written
            <4> QED
                BY <1>1, <1>2, <3>2, <4>1
        <3> QED
            BY <3>1, <3>2
    <2>3. Absent' = Absent
        BY DEF Absent
    <2> QED
        BY <2>1, <2>2, <2>3 DEF Written
<1>5. \A i \in met : Version(l, i)' = Version(l, i) /\ IsData(data[l][i])'
    BY <1>1, <1>3 DEF Version, IsData
<1>6. {Version(l, i)' : i \in met} = {Version(l, i) : i \in met}
    <2> HIDE DEF met
    <2> QED
        BY <1>5
<1>7. OriginsStillValid(l, t, origins)'
    BY <1>1, <1>4, <1>5, <1>6 DEF OriginsStillValid
<1> QED
    BY <1>7 DEF ReadValid, OriginsStillValid

\* While a transaction is executed, only its worker replaces its entries.
LEMMA OldEntry ==
    ASSUME TypeOK, ExecutorInv, WaitInv, MemoryInv, NEW w \in Workers,
           Recording(w), NEW l \in run[w].todo, Estimated(l, tx_idx[w])
    PROVE  data[l][tx_idx[w]] = Estimate
<1>1. Runs(w) /\ pc[w] = "execute" /\ status[tx_idx[w]] = "Executing"
    BY DEF MemoryInv, CallInv, Runs, ExecutorInv
<1>2. ~Finished(tx_idx[w])
    BY <1>1 DEF Finished
<1>3. ASSUME NEW v \in Workers, Replaces(v, l, tx_idx[w]) PROVE FALSE
    <2>1. pc[v] # "estimate"
        BY <1>1, <1>3 DEF WaitInv, Holds, HeldIsAborted, HeldTx, Replaces
    <2>2. Runs(v) /\ tx_idx[v] = tx_idx[w]
        BY <1>3, <2>1 DEF Replaces, MemoryInv, CallInv, Recording, Runs
    <2>3. v = w
        BY <1>1, <2>2 DEF ExecutorInv, SingleExecutor
    <2> QED
        BY <1>1, <1>3, <2>3 DEF Replaces, Recording
<1> QED
    BY <1>2, <1>3 DEF Estimated

\* record and convert_writes_to_estimates invalidate reads of higher
\* transactions only if the worker is going to have these validated: what the
\* previous incarnation wrote nobody has read since.
LEMMA EntryReads ==
    ASSUME TypeOK, ExecutorInv, WaitInv, MemoryInv, PevmTypeOK, NEW w \in Workers,
           \A k \in last_locations[tx_idx[w]].write : Estimated(k, tx_idx[w]),
           NEW l \in run[w].todo,
           RecordWrite(w, l) \/ RecordRemove(w, l) \/ EstimateLocation(w, l),
           NEW t \in Txs, NEW k \in Locs, ReadValid(k, t)
    PROVE  ReadValid(k, t)' \/ WillLower(w, t)'
<1> DEFINE u == tx_idx[w]
<1>1. /\ DOMAIN data = Locs /\ \A m \in Locs : DOMAIN data[m] = Txs
      /\ DOMAIN run = Workers /\ u \in Txs /\ l \in Locs
    BY DEF MemoryInv, TypeOK, PevmTypeOK
<1>2. \A i \in 0 .. (t - 1) : i \in Txs /\ i < t
    BY TxsFacts, SMTT(30) DEF Txs
<1>3. /\ UNCHANGED vars /\ last_locations' = last_locations
      /\ SetRun(w, [run[w] EXCEPT !.todo = @ \ {l}])
    BY ZenonT(30) DEF RecordWrite, RecordRemove, EstimateLocation
<1>4. pc' = pc /\ tx_idx' = tx_idx
    BY <1>3 DEF vars
<1>5. Writes(w)' = Writes(w) /\ run'[w].stage = run[w].stage
    BY <1>3, <1>4, TodoStep
<1>6. PICK entry : data' = [data EXCEPT ![l][u] = entry]
    BY ZenonT(30) DEF RecordWrite, RecordRemove, EstimateLocation, Insert, Remove,
       MarkEstimate
<1>7. \A m \in Locs, i \in Txs :
          data'[m][i] = IF m = l /\ i = u THEN entry ELSE data[m][i]
    BY <1>1, <1>6, OneEntry, SMTT(30)
<1>8. CASE k # l \/ ~(u < t)
    <2>1. \A i \in 0 .. (t - 1) : data'[k][i] = data[k][i]
        BY <1>2, <1>7, <1>8
    <2> QED
        BY <1>3, <2>1, StaysValid
<1>9. CASE k = l /\ data[l][u] = Estimate
    <2>1. \A i \in 0 .. (t - 1) : data'[k][i] = data[k][i] \/ data[k][i] = Estimate
        BY <1>2, <1>7, <1>9
    <2> QED
        BY <1>3, <2>1, StaysValid
<1>10. CASE EstimateLocation(w, l) /\ u < t
    BY <1>4, <1>10 DEF EstimateLocation, Doing, WillLower
<1>11. CASE RecordWrite(w, l) /\ u < t
    <2>1. run[w].stage = "writing" /\ Recording(w) /\ Recording(w)'
        BY <1>5, <1>11 DEF RecordWrite, Doing, Recording
    <2>2. CASE l \in last_locations[u].write
        BY <1>8, <1>9, <2>1, <2>2, OldEntry
    <2>3. CASE l \notin last_locations[u].write
        <3>1. l \in DOMAIN Writes(w)
            BY <2>1 DEF MemoryInv, RecordedSoFar
        <3>2. WroteNewLocation(tx_idx[w], DOMAIN Writes(w))'
            BY <1>3, <1>4, <1>5, <2>3, <3>1 DEF WroteNewLocation
        <3> QED
            BY <1>4, <1>11, <2>1, <3>2 DEF WillLower
    <2> QED
        BY <2>2, <2>3
<1>12. CASE RecordRemove(w, l)
    <2>1. run[w].stage = "removing" /\ Recording(w)
        BY <1>12 DEF RecordRemove, Doing, Recording
    <2>2. l \notin DOMAIN Writes(w)
        BY <2>1 DEF MemoryInv, RecordedSoFar
    <2>3. CASE l \in last_locations[u].write
        BY <1>8, <1>9, <2>1, <2>3, OldEntry
    <2>4. CASE data[l][u] = Absent
        <3>1. data'[l][u] = Absent
            BY <1>1, <1>7, <1>6, <1>12 DEF RecordRemove, Remove
        <3>2. \A i \in 0 .. (t - 1) : data'[k][i] = data[k][i]
            BY <1>2, <1>7, <2>4, <3>1
        <3> QED
            BY <1>3, <3>2, StaysValid
    <2> QED
        BY <1>1, <2>1, <2>2, <2>3, <2>4, AccountedByOwn
<1> QED
    BY <1>8, <1>10, <1>11, <1>12

\* A transaction stops being executed when finish_validation aborts it.
LEMMA UnfinishSteps ==
    ASSUME TypeOK, [Next]_vars, NEW t \in Txs, Finished(t), ~Finished(t)'
    PROVE  \E w \in Workers : TryValidationAbort(w) /\ tx_idx[w] = t
<1>1. PICK w \in Workers : StatusAction(w)
    <2>1. ~UNCHANGED statusVars
        BY DEF Finished
    <2> QED
        BY <2>1, StatusSteps, Zenon
<1> USE DEF TypeOK, Finished
<1>2. CASE LockForExecution(w)
    BY <1>2 DEF LockForExecution, IsReady
<1>3. CASE AbortSelf(w)
    BY <1>3 DEF AbortSelf
<1>4. CASE SetExecuted(w)
    BY <1>4 DEF SetExecuted
<1>5. CASE ResumeDependent(w)
    BY <1>5 DEF ResumeDependent, SetReady
<1>6. CASE TryValidationAbort(w)
    BY <1>6 DEF TryValidationAbort
<1>7. CASE ReadyAborted(w)
    BY <1>7 DEF ReadyAborted, SetReady
<1>8. CASE MarkValidated(w)
    BY <1>8 DEF MarkValidated
<1> QED
    BY <1>1, <1>2, <1>3, <1>4, <1>5, <1>6, <1>7, <1>8 DEF StatusAction

\* The other workers go on as before.
OthersGoOn(w) ==
    \A v \in Workers \ {w} :
        /\ pc'[v] = pc[v] /\ tx_idx'[v] = tx_idx[v] /\ reg'[v] = reg[v]
        /\ wrote_new_location'[v] = wrote_new_location[v]
        /\ next_validation_idx'[v] = next_validation_idx[v]
        /\ run'[v] = run[v]

\* A step of the executor is one of a single worker: of the scheduler, inside a
\* call, or the answer of a call.
LEMMA PevmWorker ==
    ASSUME TypeOK, MemoryInv, MayFail = Txs, Restartable = Nat,
           NEW w \in Workers, WorkerStep(w)
    PROVE  /\ OthersGoOn(w) /\ [Next]_vars
           /\ \/ SchedulerStep(w) /\ UNCHANGED <<memoryVars, run>>
              \/ InnerStep(w) /\ UNCHANGED vars
              \/ AnswerStep(w) /\ EnvironmentStep(w) /\ run' = [run EXCEPT ![w] = Idle]
<1>1. DOMAIN run = Workers
    BY DEF MemoryInv
<1>2. CASE SchedulerStep(w) /\ UNCHANGED <<memoryVars, run, execution_results>>
    <2>1. Alone(w)
        BY <1>2, OneWorker
    <2>2. \A v \in Workers \ {w} : /\ wrote_new_location'[v] = wrote_new_location[v]
                                   /\ next_validation_idx'[v] = next_validation_idx[v]
        BY <1>2, ResultSteps
    <2>3. [Next]_vars
        BY <1>2, Zenon DEF Next
    <2> QED
        BY <1>2, <2>1, <2>2, <2>3 DEF Alone, OthersGoOn
<1>3. CASE InnerStep(w)
    <2>1. UNCHANGED vars
        BY <1>3, InnerSteps
    <2>2. PICK r : run' = [run EXCEPT ![w] = r]
        BY <1>3, ZenonT(60) DEF InnerStep, LocalAccess, Retry, Read, StoreResult,
           RecordLock, ValidateLock, EstimateLock, RecordWrite, RecordRemove,
           ValidateLocation, EstimateLocation, SetRun
    <2> QED
        BY <1>1, <1>3, <2>1, <2>2 DEF OthersGoOn, vars
<1>4. CASE AnswerStep(w)
    <2>1. EnvironmentStep(w)
        BY <1>4, AnswerSteps
    <2>2. Alone(w)
        BY <2>1, OneWorker
    <2>3. \A v \in Workers \ {w} : /\ wrote_new_location'[v] = wrote_new_location[v]
                                   /\ next_validation_idx'[v] = next_validation_idx[v]
        BY <2>1, ResultSteps
    <2>4. run' = [run EXCEPT ![w] = Idle]
        BY <1>4, ZenonT(30) DEF AnswerStep, BlockedRead, AwaitFunds, Rejected,
           StorageFails, RecordDone, ValidateDone, EstimateDone, ValidateFails, SetRun
    <2>5. [Next]_vars
        BY <2>1, Zenon DEF Next
    <2> QED
        BY <1>1, <1>4, <2>1, <2>2, <2>3, <2>4, <2>5 DEF Alone, OthersGoOn
<1> QED
    BY <1>2, <1>3, <1>4, WorkerSteps

\* Where a call is, the worker's label and stage say so; elsewhere it is idle.
LEMMA StageAt ==
    ASSUME PevmTypeOK, MemoryInv, NEW w \in Workers
    PROVE  /\ run[w].stage \in {"idle", "writing", "removing", "checking", "estimating"}
           /\ Recording(w) => pc[w] = "execute"
           /\ run[w].stage = "checking" => pc[w] = "validate"
           /\ run[w].stage = "estimating" => pc[w] = "estimate"
           /\ pc[w] \notin {"execute", "validate", "estimate"} => run[w].stage = "idle"
BY DEF PevmTypeOK, MemoryInv, CallInv, Recording

\* What a step inside a call does to the call.
LEMMA InnerCases ==
    ASSUME PevmTypeOK, MemoryInv, NEW w \in Workers, InnerStep(w)
    PROVE  \/ /\ UNCHANGED memoryVars /\ run[w].stage = "idle" /\ pc[w] = "execute"
              /\ run'[w].stage \in {"idle", "writing"}
           \/ /\ UNCHANGED memoryVars /\ run[w].stage = "idle" /\ pc[w] = "validate"
              /\ run'[w].stage = "checking"
              /\ run'[w].todo = DOMAIN last_locations[tx_idx[w]].read
           \/ \E l \in run[w].todo :
                 /\ UNCHANGED memoryVars /\ ReadValid(l, tx_idx[w])
                 /\ run[w].stage = "checking" /\ pc[w] = "validate"
                 /\ run'[w].stage = "checking" /\ run'[w].todo = run[w].todo \ {l}
           \/ /\ UNCHANGED memoryVars /\ run[w].stage = "idle" /\ pc[w] = "estimate"
              /\ run'[w].stage = "estimating"
              /\ run'[w].todo = last_locations[tx_idx[w]].write
           \/ /\ UNCHANGED memoryVars /\ run[w].stage = "writing" /\ pc[w] = "execute"
              /\ run'[w].stage = "removing" /\ run'[w].todo = StaleWrites(w)
              /\ Writes(w)' = Writes(w)
           \/ \E l \in run[w].todo :
                 /\ RecordWrite(w, l) \/ RecordRemove(w, l) \/ EstimateLocation(w, l)
                 /\ run'[w].stage = run[w].stage /\ run'[w].todo = run[w].todo \ {l}
                 /\ Writes(w)' = Writes(w) /\ last_locations' = last_locations
<1>1. /\ DOMAIN run = Workers /\ DOMAIN run[w] = DOMAIN Idle
      /\ DOMAIN Idle = {"stage", "step", "origins", "values", "view", "gas", "todo"}
      /\ Idle.stage = "idle"
    BY DEF MemoryInv, CallInv, Idle
<1>2. tx_idx' = tx_idx
    BY InnerSteps DEF vars
<1>3. CASE LocalAccess(w)
    <2>1. UNCHANGED memoryVars /\ pc[w] = "execute" /\ run[w].stage = "idle"
        BY <1>3 DEF LocalAccess, Accessing, Doing
    <2> QED
        BY <1>1, <1>3, <2>1 DEF LocalAccess, SetRun
<1>4. CASE Read(w)
    <2>1. UNCHANGED memoryVars /\ pc[w] = "execute" /\ run[w].stage = "idle"
        BY <1>4 DEF Read, Answered, Asking, Accessing, Doing
    <2> QED
        BY <1>1, <1>4, <2>1 DEF Read, SetRun
<1>5. CASE Retry(w)
    BY <1>1, <1>5 DEF Retry, Asking, Accessing, Doing, SetRun
<1>6. CASE StoreResult(w)
    <2>1. UNCHANGED memoryVars /\ pc[w] = "execute" /\ run[w].stage = "idle"
        BY <1>6 DEF StoreResult, Doing
    <2> QED
        BY <1>1, <1>6, <2>1 DEF StoreResult, SetRun
<1>7. CASE ValidateLock(w)
    BY <1>1, <1>7 DEF ValidateLock, Doing, SetRun
<1>8. CASE \E l \in run[w].todo : ValidateLocation(w, l)
    <2>1. PICK l \in run[w].todo : ValidateLocation(w, l)
        BY <1>8
    <2>2. /\ run'[w].stage = run[w].stage /\ run'[w].todo = run[w].todo \ {l}
        BY <1>2, <2>1, TodoStep DEF ValidateLocation
    <2> QED
        BY <2>1, <2>2 DEF ValidateLocation, Doing
<1>9. CASE EstimateLock(w)
    BY <1>1, <1>9 DEF EstimateLock, Doing, SetRun
<1>10. CASE RecordLock(w)
    <2>1. /\ UNCHANGED memoryVars /\ pc[w] = "execute" /\ run[w].stage = "writing"
          /\ run'[w] = [run[w] EXCEPT !.stage = "removing", !.todo = StaleWrites(w)]
        BY <1>1, <1>10 DEF RecordLock, Doing, SetRun
    <2>2. /\ run'[w].stage = "removing" /\ run'[w].todo = StaleWrites(w)
          /\ run'[w].gas = run[w].gas /\ run'[w].values = run[w].values
          /\ run'[w].view = run[w].view
        BY <1>1, <2>1
    <2> QED
        BY <1>2, <2>1, <2>2 DEF Writes, WritesOf
<1>11. ASSUME NEW l \in run[w].todo,
              RecordWrite(w, l) \/ RecordRemove(w, l) \/ EstimateLocation(w, l)
       PROVE  /\ run'[w].stage = run[w].stage /\ run'[w].todo = run[w].todo \ {l}
              /\ Writes(w)' = Writes(w) /\ last_locations' = last_locations
    <2>1. SetRun(w, [run[w] EXCEPT !.todo = @ \ {l}]) /\ last_locations' = last_locations
        BY <1>11, ZenonT(30) DEF RecordWrite, RecordRemove, EstimateLocation
    <2> QED
        BY <1>2, <2>1, TodoStep
<1>12. CASE \E l \in run[w].todo :
                RecordWrite(w, l) \/ RecordRemove(w, l) \/ EstimateLocation(w, l)
    BY <1>11, <1>12, Zenon
<1> QED
    BY <1>3, <1>4, <1>5, <1>6, <1>7, <1>8, <1>9, <1>10, <1>12, ZenonT(60) DEF InnerStep

\* What an answer of a call leaves: only record changes the memory.
LEMMA AnswerCases ==
    ASSUME TypeOK, MemoryInv, NEW w \in Workers, AnswerStep(w)
    PROVE  \/ RecordDone(w)
           \/ UNCHANGED memoryVars /\ run[w].stage = "idle" /\ pc[w] = "execute"
           \/ /\ UNCHANGED memoryVars /\ run[w].stage = "checking" /\ pc[w] = "validate"
              /\ pc'[w] = "try_abort" \/ run[w].todo = {}
           \/ /\ UNCHANGED memoryVars /\ run[w].stage = "estimating" /\ run[w].todo = {}
              /\ pc[w] = "estimate" /\ pc'[w] = "ready_aborted"
<1>1. pc \in [Workers -> Labels]
    BY DEF TypeOK
<1>2. CASE BlockedRead(w) \/ AwaitFunds(w) \/ Rejected(w) \/ StorageFails(w)
    BY <1>2 DEF BlockedRead, AwaitFunds, Rejected, StorageFails, Answered, Asking,
       Accessing, Doing
<1>3. CASE ValidateDone(w)
    BY <1>3 DEF ValidateDone, Doing
<1>4. CASE EstimateDone(w)
    BY <1>1, <1>4 DEF EstimateDone, EstimatesWritten, Doing
<1>5. CASE \E l \in run[w].todo : ValidateFails(w, l)
    BY <1>1, <1>5 DEF ValidateFails, ReadSetInvalid, Doing
<1> QED
    BY <1>2, <1>3, <1>4, <1>5, Zenon DEF AnswerStep

\* Only record changes the last locations, those of the transaction it is for,
\* and then finish_execution is next.
LEMMA LastLocationsStep ==
    ASSUME TypeOK, MemoryInv, MayFail = Txs, Restartable = Nat,
           NEW w \in Workers, WorkerStep(w), NEW t \in Txs
    PROVE  \/ last_locations'[t] = last_locations[t]
           \/ RecordDone(w) /\ tx_idx[w] = t
<1>1. DOMAIN last_locations = Txs
    BY DEF MemoryInv
<1>2. last_locations' = last_locations \/ RecordDone(w)
    BY ZenonT(60) DEF WorkerStep, LocalAccess, Retry, BlockedRead, Read,
       AwaitFunds, Rejected, StorageFails, StoreResult, RecordLock, RecordWrite,
       RecordRemove, EstimateLocation, ValidateLock, ValidateLocation,
       ValidateFails, ValidateDone, EstimateLock, EstimateDone, memoryVars
<1>3. CASE RecordDone(w) /\ tx_idx[w] # t
    BY <1>1, <1>3 DEF RecordDone, SetLastLocations
<1> QED
    BY <1>2, <1>3

\* An entry with no value.
Blank(entry) == entry \in {Absent, Estimate} /\ ~IsData(entry)

\* A worker changes entries of its own transaction only, in record and in
\* convert_writes_to_estimates.
LEMMA EntryOwner ==
    ASSUME TypeOK, MemoryInv, PevmTypeOK, MayFail = Txs, Restartable = Nat,
           NEW w \in Workers, WorkerStep(w), NEW l \in Locs, NEW t \in Txs
    PROVE  \/ data'[l][t] = data[l][t]
           \/ /\ tx_idx[w] = t /\ l \in run[w].todo /\ UNCHANGED vars
              /\ \/ At(w, "execute") /\ RecordWrite(w, l)
                 \/ At(w, "execute") /\ RecordRemove(w, l) /\ Blank(data'[l][t])
                 \/ At(w, "estimate") /\ EstimateLocation(w, l) /\ Blank(data'[l][t])
<1>0. Blank(Absent) /\ Blank(Estimate)
    <2>1. ~IsData(Absent) /\ ~IsData(Estimate)
        BY SMTT(30) DEF IsData, Absent, Estimate
    <2> QED
        BY <2>1 DEF Blank
<1>1. \/ SchedulerStep(w) /\ UNCHANGED <<memoryVars, run>>
      \/ InnerStep(w) /\ UNCHANGED vars
      \/ AnswerStep(w) /\ EnvironmentStep(w) /\ run' = [run EXCEPT ![w] = Idle]
    BY PevmWorker
<1>2. CASE UNCHANGED memoryVars
    BY <1>2 DEF memoryVars
<1>3. CASE AnswerStep(w)
    <2>1. CASE RecordDone(w)
        BY <2>1 DEF RecordDone
    <2> QED
        BY <1>2, <1>3, <2>1, AnswerCases
<1>4. CASE InnerStep(w) /\ UNCHANGED vars /\ ~UNCHANGED memoryVars
    <2>1. PICK m \in run[w].todo :
              RecordWrite(w, m) \/ RecordRemove(w, m) \/ EstimateLocation(w, m)
        BY <1>4, InnerCases
    <2>2. PICK entry : /\ data' = [data EXCEPT ![m][tx_idx[w]] = entry]
                       /\ RecordRemove(w, m) => Blank(entry)
                       /\ EstimateLocation(w, m) => Blank(entry)
        <3>1. CASE RecordWrite(w, m)
            <4>1. ~RecordRemove(w, m) /\ ~EstimateLocation(w, m)
                BY <3>1 DEF RecordWrite, RecordRemove, EstimateLocation, Doing, At
            <4> QED
                BY <3>1, <4>1 DEF RecordWrite, Insert
        <3>2. CASE RecordRemove(w, m)
            <4>1. ~EstimateLocation(w, m)
                BY <3>2 DEF RecordRemove, EstimateLocation, Doing, At
            <4> QED
                BY <1>0, <3>2, <4>1 DEF RecordRemove, Remove
        <3>3. CASE EstimateLocation(w, m)
            <4>1. ~RecordRemove(w, m)
                BY <3>3 DEF RecordRemove, EstimateLocation, Doing, At
            <4> QED
                BY <1>0, <3>3, <4>1 DEF EstimateLocation, MarkEstimate
        <3> QED
            BY <2>1, <3>1, <3>2, <3>3
    <2>3. data'[l][t] = IF l = m /\ t = tx_idx[w] THEN entry ELSE data[l][t]
        <3>1. tx_idx[w] \in Txs /\ DOMAIN data = Locs /\ \A k \in Locs : DOMAIN data[k] = Txs
            BY DEF TypeOK, MemoryInv
        <3> QED
            BY <2>2, <3>1, OneEntry, SMTT(30)
    <2>4. CASE l = m /\ t = tx_idx[w]
        <3>1. data'[l][t] = entry
            BY <2>3, <2>4
        <3>2. /\ RecordWrite(w, m) => At(w, "execute")
              /\ RecordRemove(w, m) => At(w, "execute")
              /\ EstimateLocation(w, m) => At(w, "estimate")
            BY DEF RecordWrite, RecordRemove, EstimateLocation, Doing
        <3> QED
            BY <1>4, <2>1, <2>2, <2>4, <3>1, <3>2
    <2> QED
        BY <2>3, <2>4
<1> QED
    BY <1>1, <1>2, <1>3, <1>4

\* The entry that record makes.
LEMMA WrittenEntry ==
    ASSUME TypeOK, MemoryInv, PevmTypeOK, NEW w \in Workers, NEW l \in run[w].todo,
           RecordWrite(w, l)
    PROVE  /\ l \in Locs /\ tx_idx[w] \in Txs
           /\ data'[l][tx_idx[w]] =
                  Data(Writes(w)[l].kind, tx_incarnation[w], Writes(w)[l].value)
<1>1. /\ l \in Locs /\ tx_idx[w] \in Txs
      /\ DOMAIN data = Locs /\ \A k \in Locs : DOMAIN data[k] = Txs
    BY DEF TypeOK, MemoryInv, PevmTypeOK
<1>2. PICK entry :
          /\ entry = Data(Writes(w)[l].kind, tx_incarnation[w], Writes(w)[l].value)
          /\ data' = [data EXCEPT ![l][tx_idx[w]] = entry]
    BY DEF RecordWrite, Insert
<1>3. data'[l][tx_idx[w]] = entry
    BY <1>1, <1>2, OneEntry, SMTT(30)
<1> QED
    BY <1>1, <1>2, <1>3

\* The least of some indexes is one of them.
LEMMA Lowest ==
    ASSUME NEW S, S \subseteq Txs, S # {}
    PROVE  Min(S) \in S /\ \A i \in S : Min(S) <= i
<1>1. \E m \in S : \A i \in S : m <= i
    BY TxsFacts, LeastElement
<1> QED
    BY <1>1 DEF Min

\* The entries that a read has met are values, if nothing stops it.
LEMMA MetFacts ==
    ASSUME PevmTypeOK, NEW l \in Locs, NEW t \in Txs, ~Blocked(l, t),
           \A i \in Txs : Settled(l, i)
    PROVE  /\ Met(l, t) \subseteq Txs
           /\ \A i \in Met(l, t) : i \in 0 .. (t - 1) /\ IsData(data[l][i])
           /\ ReachesStorage(l, t) => \A i \in Met(l, t) : data[l][i].kind = "lazy"
           /\ ~ReachesStorage(l, t) =>
                  /\ Min(Met(l, t)) \in Met(l, t)
                  /\ \A i \in Met(l, t) : data[l][i].kind = "lazy" <=> i # Min(Met(l, t))
<1>1. PICK met : met = Met(l, t)
    OBVIOUS
<1>2. /\ met \subseteq Txs /\ \A i \in met : i \in 0 .. (t - 1) /\ data[l][i] # Absent
    <2>1. \A i \in 0 .. (t - 1) : i \in Txs
        BY BlockSizeAssumption, SMTT(30) DEF Txs
    <2> QED
        BY <1>1, <2>1 DEF Met, Written
<1>3. ASSUME NEW i \in Txs, data[l][i] # Absent
      PROVE  data[l][i] = Estimate \/ IsData(data[l][i])
    BY <1>3 DEF Settled
<1>4. Estimate.kind = "estimate"
    BY SMTT(30) DEF Estimate
<1>5. \A i \in Txs : IsData(data[l][i]) => data[l][i].kind \in {"basic", "storage", "lazy"}
    BY DEF PevmTypeOK, IsData
<1>6. ASSUME NEW i \in met, Passed(l, i)
      PROVE  IsData(data[l][i]) /\ data[l][i].kind = "lazy"
    <2>1. data[l][i].kind \notin {"basic", "storage", "estimate"}
        BY <1>6 DEF Passed, Ends
    <2>2. data[l][i] # Estimate
        BY <1>4, <2>1
    <2>3. IsData(data[l][i])
        BY <1>2, <1>3, <2>2
    <2> QED
        BY <1>2, <1>5, <2>1, <2>3
<1>7. CASE ReachesStorage(l, t)
    <2>1. \A i \in met : Passed(l, i)
        BY <1>2, <1>7 DEF ReachesStorage
    <2> QED
        BY <1>1, <1>2, <1>6, <1>7, <2>1
<1>8. CASE ~ReachesStorage(l, t)
    <2>1. PICK low \in met : data[l][low].kind \in {"basic", "storage"}
        BY <1>1, <1>8 DEF Blocked
    <2>2. \A j \in (low + 1) .. (t - 1) : Passed(l, j)
        BY <1>1, <2>1 DEF Met
    <2>3. ~Passed(l, low) /\ IsData(data[l][low])
        BY <2>1 DEF Passed, Ends, IsData
    <2>4. ASSUME NEW i \in met, i # low PROVE low < i /\ Passed(l, i)
        <3>1. \A j \in (i + 1) .. (t - 1) : Passed(l, j)
            BY <1>1 DEF Met
        <3>2. low \notin (i + 1) .. (t - 1)
            BY <2>3, <3>1
        <3>3. low < i /\ i \in (low + 1) .. (t - 1)
            <4>1. low \in 0 .. (t - 1) /\ i \in 0 .. (t - 1) /\ t \in Nat
                BY <1>2, TxsFacts
            <4> QED
                BY <2>4, <3>2, <4>1, SMTT(30)
        <3> QED
            BY <2>2, <3>3
    <2>5. Min(met) = low
        <3>1. Min(met) \in met /\ Min(met) <= low
            BY <1>2, <2>1, Lowest
        <3>2. PICK m : m = Min(met)
            OBVIOUS
        <3>3. m \in Nat /\ low \in Nat
            BY <1>2, <2>1, <3>1, <3>2, TxsFacts
        <3>4. m # low => low < m
            BY <2>4, <3>1, <3>2
        <3> QED
            BY <3>1, <3>2, <3>3, <3>4, SMTT(30)
    <2>6. \A i \in met : i # low => data[l][i].kind = "lazy" /\ IsData(data[l][i])
        BY <1>6, <2>4
    <2> QED
        BY <1>1, <1>2, <1>8, <2>1, <2>3, <2>5, <2>6
<1> QED
    BY <1>7, <1>8

\* What an incarnation has written it does not write again: a step of a worker
\* leaves its writes past.
LEMMA PastStep ==
    ASSUME TypeOK, ExecutorInv, MemoryInv, PevmTypeOK, MayFail = Txs, Restartable = Nat,
           NEW w \in Workers, WorkerStep(w), NEW l, NEW i \in Txs, NEW inc, Past(l, i, inc)
    PROVE  Past(l, i, inc)'
<1>1. /\ OthersGoOn(w) /\ [Next]_vars
      /\ \/ SchedulerStep(w) /\ UNCHANGED <<memoryVars, run>>
         \/ InnerStep(w) /\ UNCHANGED vars
         \/ AnswerStep(w) /\ EnvironmentStep(w) /\ run' = [run EXCEPT ![w] = Idle]
    BY PevmWorker
<1>2. StatusStep(i) /\ incarnation[i] \in Nat
    <2>1. StatusStep(i)
        BY <1>1, StatusMoves
    <2> QED
        BY <2>1 DEF TypeOK
<1>3. CASE inc \in 0 .. (incarnation[i] - 1)
    <2>1. inc \in 0 .. (incarnation'[i] - 1)
        BY <1>2, <1>3, SMTT(30) DEF StatusStep
    <2> QED
        BY <2>1 DEF Past
<1>4. CASE inc = incarnation[i] /\ status[i] \notin {"ReadyToExecute", "Executing"}
    <2>1. \/ inc = incarnation'[i] /\ status'[i] \notin {"ReadyToExecute", "Executing"}
          \/ incarnation'[i] = incarnation[i] + 1
        BY <1>2, <1>4 DEF StatusStep
    <2>2. incarnation'[i] = incarnation[i] + 1 => inc \in 0 .. (incarnation'[i] - 1)
        BY <1>2, <1>4, SMTT(30)
    <2> QED
        BY <2>1, <2>2 DEF Past
<1>5. ASSUME NEW v \in Workers, inc = incarnation[i], tx_idx[v] = i, HasWritten(v, l)
      PROVE  Past(l, i, inc)'
    <2>1. Runs(v) /\ pc[v] \in {"execute", "finish_exec"}
        BY <1>5 DEF HasWritten, Runs, At, MemoryInv, CallInv, Recording
    <2>2. status[i] = "Executing"
        BY <1>5, <2>1 DEF ExecutorInv
    <2>3. inc = incarnation'[i]
        BY <1>2, <1>5, <2>2 DEF StatusStep
    <2>4. CASE status'[i] # "Executing"
        BY <1>2, <2>2, <2>3, <2>4 DEF Past, StatusStep
    <2>5. CASE v # w
        <3>1. pc'[v] = pc[v] /\ tx_idx'[v] = tx_idx[v] /\ run'[v] = run[v]
            BY <1>1, <2>5 DEF OthersGoOn
        <3>2. HasWritten(v, l)'
            BY <1>5, <3>1 DEF HasWritten, At
        <3> QED
            BY <1>5, <2>3, <3>1, <3>2 DEF Past
    <2>6. CASE v = w /\ status'[i] = "Executing"
        <3>1. ~SchedulerStep(w)
            <4>1. SUFFICES ASSUME SchedulerStep(w) PROVE FALSE
                OBVIOUS
            <4>2. TakenFrom(w)
                BY <4>1, SchedulerStepAt
            <4>3. SetExecuted(w)
                BY <2>1, <2>6, <4>2 DEF TakenFrom
            <4>4. status'[i] = "Executed"
                BY <1>5, <2>2, <2>6, <4>3 DEF SetExecuted, TypeOK
            <4> QED
                BY <2>6, <4>4
        <3>2. CASE InnerStep(w) /\ UNCHANGED vars
            <4>1. pc' = pc /\ tx_idx' = tx_idx
                BY <3>2 DEF vars, versionVars
            <4>2. pc[w] # "finish_exec"
                <5>1. ASSUME NEW m, \/ RecordWrite(w, m) \/ RecordRemove(w, m)
                                    \/ EstimateLocation(w, m)
                      PROVE  pc[w] # "finish_exec"
                    BY <5>1 DEF RecordWrite, RecordRemove, EstimateLocation, Doing, At
                <5> QED
                    BY <3>2, <5>1, InnerCases
            <4>3. run[w].stage \in {"writing", "removing"}
                BY <1>5, <2>6, <4>2 DEF HasWritten, At
            <4>4. \/ run'[w].stage = "removing"
                  \/ run'[w].stage = run[w].stage /\ run'[w].todo \subseteq run[w].todo
                BY <3>2, <4>3, InnerCases
            <4>5. HasWritten(w, l)'
                BY <1>5, <2>6, <4>1, <4>3, <4>4 DEF HasWritten, At
            <4> QED
                BY <1>5, <2>3, <2>6, <4>1, <4>5 DEF Past
        <3>3. CASE AnswerStep(w) /\ EnvironmentStep(w)
            <4>1. pc[w] = "execute"
                BY <2>1, <2>6, <3>3, Guards
            <4>2. run[w].stage \in {"writing", "removing"}
                BY <1>5, <2>6, <4>1 DEF HasWritten, At
            <4>3. RecordDone(w)
                BY <3>3, <4>1, <4>2, AnswerCases
            <4>4. pc'[w] = "finish_exec" /\ tx_idx' = tx_idx
                BY <4>3, SMTT(30) DEF RecordDone, VmOk, Goto, versionVars, TypeOK
            <4> QED
                BY <1>5, <2>3, <2>6, <4>4 DEF Past, HasWritten, At
        <3> QED
            BY <1>1, <3>1, <3>2, <3>3
    <2> QED
        BY <2>4, <2>5, <2>6
<1> QED
    BY <1>3, <1>4, <1>5 DEF Past

\* What record writes of a transaction is of its current incarnation, which has
\* not written there yet.
LEMMA WriteIsNew ==
    ASSUME TypeOK, ExecutorInv, MemoryInv, NEW w \in Workers, At(w, "execute"),
           NEW l \in run[w].todo, RecordWrite(w, l)
    PROVE  /\ tx_incarnation[w] = incarnation[tx_idx[w]]
           /\ ~Past(l, tx_idx[w], tx_incarnation[w])
<1>1. Runs(w) /\ status[tx_idx[w]] = "Executing" /\ run[w].stage = "writing"
    BY DEF Runs, At, ExecutorInv, RecordWrite, Doing
<1>2. tx_incarnation[w] = incarnation[tx_idx[w]]
    BY <1>1 DEF MemoryInv, CallInv
<1>3. tx_incarnation[w] \notin 0 .. (incarnation[tx_idx[w]] - 1)
    <2>1. incarnation[tx_idx[w]] \in Nat
        BY DEF TypeOK
    <2> QED
        BY <1>2, <2>1, SMTT(30)
<1>4. ASSUME NEW v \in Workers, tx_idx[v] = tx_idx[w], HasWritten(v, l) PROVE FALSE
    <2>1. Runs(v)
        BY <1>4 DEF HasWritten, Runs, At, MemoryInv, CallInv, Recording
    <2>2. v = w
        BY <1>1, <1>4, <2>1 DEF ExecutorInv, SingleExecutor
    <2> QED
        BY <1>1, <1>4, <2>2 DEF HasWritten, At
<1> QED
    BY <1>1, <1>2, <1>3, <1>4 DEF Past

\* An execution is rejected by the checks of the EVM, or by the storage, and nothing
\* else sets the error.
LEMMA ErrorSetters ==
    ASSUME TypeOK, MemoryInv, MayFail = Txs, Restartable = Nat, NEW w \in Workers,
           WorkerStep(w), ~execution_error, ~Rejected(w), ~StorageFails(w)
    PROVE  ~execution_error'
<1>1. \/ SchedulerStep(w) /\ UNCHANGED <<memoryVars, run>>
      \/ InnerStep(w) /\ UNCHANGED vars
      \/ AnswerStep(w) /\ EnvironmentStep(w) /\ run' = [run EXCEPT ![w] = Idle]
    BY PevmWorker
<1>2. CASE SchedulerStep(w)
    BY <1>2, SchedulerErrors
<1>3. CASE UNCHANGED vars
    BY <1>3 DEF vars, sharedVars
<1>4. CASE AnswerStep(w)
    <2>1. CASE BlockedRead(w) \/ AwaitFunds(w)
        BY <2>1 DEF BlockedRead, AwaitFunds, VmReadError, sharedVars
    <2>2. CASE RecordDone(w)
        BY <2>2 DEF RecordDone, VmOk, sharedVars
    <2>3. CASE ValidateDone(w) \/ EstimateDone(w) \/ \E l \in run[w].todo : ValidateFails(w, l)
        BY <2>3 DEF ValidateDone, EstimateDone, ValidateFails, ReadSetValid, ReadSetInvalid,
           EstimatesWritten, sharedVars
    <2> QED
        BY <1>4, <2>1, <2>2, <2>3 DEF AnswerStep
<1> QED
    BY <1>1, <1>2, <1>3, <1>4

=============================================================================
