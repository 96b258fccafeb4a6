-------------------------- MODULE PevmValuesProofs --------------------------
(***************************************************************************)
(* Proofs about Pevm, for every block, number of workers and chain state:  *)
(* what each transaction has read, it has executed on as it would be       *)
(* executed sequentially, and has left in memory.                          *)
(***************************************************************************)
EXTENDS PevmProofs, Serial

USE ZenonT(60)

-----------------------------------------------------------------------------
(***************************************************************************)
(* What is read from the memory stands for what its versions make.         *)
(***************************************************************************)

\* A version stands for one entry: what is in memory after a step with a version
\* that was past is what was there before.
LEMMA VersionStands ==
    ASSUME TypeOK, ExecutorInv, MemoryInv, PevmTypeOK, MayFail = Txs, Restartable = Nat,
           NEW w \in Workers, WorkerStep(w), NEW l \in Locs, NEW t \in Txs, NEW inc,
           Past(l, t, inc), IsData(data'[l][t]), data'[l][t].inc = inc
    PROVE  data'[l][t] = data[l][t]
<1>2. CASE tx_idx[w] = t /\ l \in run[w].todo /\ At(w, "execute") /\ RecordWrite(w, l)
    <2>1. ~Past(l, t, tx_incarnation[w])
        BY <1>2, WriteIsNew
    <2>2. data'[l][t].inc = tx_incarnation[w]
        <3>1. data'[l][tx_idx[w]] =
                  Data(Writes(w)[l].kind, tx_incarnation[w], Writes(w)[l].value)
            BY <1>2, WrittenEntry
        <3>2. data'[l][tx_idx[w]].inc = tx_incarnation[w]
            BY <3>1, SMTT(30) DEF Data
        <3> QED
            BY <1>2, <3>2
    <2> QED
        BY <2>1, <2>2
<1>4. \/ data'[l][t] = data[l][t]
      \/ /\ tx_idx[w] = t /\ l \in run[w].todo /\ UNCHANGED vars
         /\ \/ At(w, "execute") /\ RecordWrite(w, l)
            \/ At(w, "execute") /\ RecordRemove(w, l) /\ Blank(data'[l][t])
            \/ At(w, "estimate") /\ EstimateLocation(w, l) /\ Blank(data'[l][t])
    BY EntryOwner
<1> QED
    BY <1>2, <1>4 DEF Blank

\* What is in memory has been written by an incarnation that is done with it.
LEMMA SettledStep ==
    ASSUME TypeOK, ExecutorInv, MemoryInv, PevmTypeOK, MayFail = Txs, Restartable = Nat,
           NEW w \in Workers, WorkerStep(w), NEW l \in Locs, NEW t \in Txs,
           Settled(l, t)
    PROVE  Settled(l, t)'
<1>1. CASE data'[l][t] = data[l][t]
    <2>1. PICK entry, inc : entry = data[l][t] /\ inc = entry.inc
        OBVIOUS
    <2>2. CASE entry \in {Absent, Estimate}
        BY <1>1, <2>1, <2>2 DEF Settled, Absent, Estimate
    <2>3. CASE IsData(entry) /\ Past(l, t, inc)
        <3>1. Past(l, t, inc)'
            BY <2>3, PastStep
        <3>2. Past(l, t, data[l][t].inc)'
            BY <1>1, <2>1, <3>1 DEF Past
        <3> QED
            BY <1>1, <2>1, <2>3, <3>2 DEF Settled, IsData
    <2> QED
        BY <2>1, <2>2, <2>3 DEF Settled
<1>2. CASE Blank(data'[l][t])
    BY <1>2 DEF Blank, Settled, Absent, Estimate
<1>3. CASE /\ tx_idx[w] = t /\ l \in run[w].todo /\ At(w, "execute") /\ RecordWrite(w, l)
           /\ UNCHANGED vars
    <2>1. /\ data'[l][t].inc = tx_incarnation[w] /\ tx_incarnation[w] = incarnation[t]
          /\ IsData(data'[l][t])
        <3>1. data'[l][tx_idx[w]] =
                  Data(Writes(w)[l].kind, tx_incarnation[w], Writes(w)[l].value)
            BY <1>3, WrittenEntry
        <3>2. /\ data'[l][tx_idx[w]].inc = tx_incarnation[w]
              /\ data'[l][tx_idx[w]].kind = Writes(w)[l].kind
            BY <3>1, SMTT(30) DEF Data
        <3>3. tx_incarnation[w] = incarnation[tx_idx[w]]
            BY <1>3, WriteIsNew
        <3>4. l \in DOMAIN Writes(w)
            BY <1>3 DEF MemoryInv, RecordedSoFar, RecordWrite, Doing
        <3>5. Writes(w)[l].kind \in {"basic", "storage", "lazy"}
            BY <3>4, WriteSetFacts DEF Writes, WritesOf
        <3>6. IsData(data'[l][tx_idx[w]])
            BY <3>2, <3>5 DEF IsData
        <3> QED
            BY <1>3, <3>2, <3>3, <3>6
    <2>2. incarnation' = incarnation /\ tx_idx' = tx_idx
        BY <1>3 DEF vars, sharedVars, statusVars, versionVars
    <2>3. run'[w].stage = "writing" /\ l \notin run'[w].todo
        <3>1. SetRun(w, [run[w] EXCEPT !.todo = @ \ {l}]) /\ run[w].stage = "writing"
            BY <1>3 DEF RecordWrite, Doing
        <3> QED
            BY <2>2, <3>1, TodoStep
    <2>4. HasWritten(w, l)'
        BY <2>3 DEF HasWritten
    <2>5. Past(l, t, data[l][t].inc)'
        BY <1>3, <2>1, <2>2, <2>4 DEF Past
    <2> QED
        BY <2>1, <2>5 DEF Settled, IsData
<1>4. \/ data'[l][t] = data[l][t]
      \/ /\ tx_idx[w] = t /\ l \in run[w].todo /\ UNCHANGED vars
         /\ \/ At(w, "execute") /\ RecordWrite(w, l)
            \/ At(w, "execute") /\ RecordRemove(w, l) /\ Blank(data'[l][t])
            \/ At(w, "estimate") /\ EstimateLocation(w, l) /\ Blank(data'[l][t])
    BY EntryOwner
<1> QED
    BY <1>1, <1>2, <1>3, <1>4

\* The sum of lazy additions is that of their entries.
LEMMA LazySumStep ==
    ASSUME NEW l, NEW lazy, \A i \in lazy : data'[l][i] = data[l][i]
    PROVE  LazySum(l, lazy)' = LazySum(l, lazy)
<1>1. [i \in Txs |-> IF i \in lazy THEN data'[l][i].value ELSE 0] =
      [i \in Txs |-> IF i \in lazy THEN data[l][i].value ELSE 0]
    OBVIOUS
<1> QED
    BY <1>1 DEF LazySum

\* What an execution has read stands, whatever the workers do.
LEMMA StandsStep ==
    ASSUME TypeOK, ExecutorInv, MemoryInv, PevmTypeOK, MayFail = Txs, Restartable = Nat,
           NEW w \in Workers, WorkerStep(w), NEW l \in Locs, NEW t \in Txs,
           NEW origins, NEW value, ReadStands(l, t, origins, value)
    PROVE  ReadStands(l, t, origins, value)'
<1>1. \A v \in origins.mv : v[1] \in Txs /\ v[1] \in 0 .. (t - 1) /\ Past(l, v[1], v[2])
    <2>1. \A i \in 0 .. (t - 1) : i \in Txs
        BY BlockSizeAssumption, SMTT(30) DEF Txs
    <2> QED
        BY <2>1 DEF ReadStands, ReadPast, ReadMeans
<1>2. \A v \in origins.mv : Past(l, v[1], v[2])'
    BY <1>1, PastStep
<1>3. SUFFICES ASSUME Present(l, origins)'
               PROVE  (Summable(l, origins) /\ value = OriginsValue(l, origins))'
    BY <1>1, <1>2, <1>3 DEF ReadStands, ReadPast, ReadMeans
<1>4. \A v \in origins.mv : data'[l][v[1]] = data[l][v[1]]
    <2>1. ASSUME NEW v \in origins.mv PROVE data'[l][v[1]] = data[l][v[1]]
        <3>1. IsData(data'[l][v[1]]) /\ data'[l][v[1]].inc = v[2]
            BY <1>3 DEF Present, IsData
        <3> QED
            BY <1>1, <3>1, VersionStands
    <2> QED
        BY <2>1
<1>5. Present(l, origins)
    BY <1>3, <1>4 DEF Present, IsData
<1>6. Summable(l, origins) /\ value = OriginsValue(l, origins)
    BY <1>5 DEF ReadStands, ReadPast, ReadMeans
<1>7. PICK ix, low : ix = Indexes(origins) /\ low = Min(ix)
    OBVIOUS
<1>8. \A i \in ix : data'[l][i] = data[l][i]
    BY <1>4, <1>7 DEF Indexes
<1>9. ix = Indexes(origins)'
    BY <1>7 DEF Indexes
<1>10. Summable(l, origins)'
    BY <1>6, <1>7, <1>8, <1>9 DEF Summable
<1>11. PICK lazy : lazy = {i \in ix : data[l][i].kind = "lazy"}
    OBVIOUS
<1>12. lazy = {i \in ix : data'[l][i].kind = "lazy"}
    BY <1>8, <1>11
<1>13. ~origins.storage => data'[l][low] = data[l][low]
    BY <1>6, <1>7, <1>8 DEF Summable
<1>14. LazySum(l, lazy)' = LazySum(l, lazy)
    BY <1>8, <1>11, LazySumStep
<1>15. OriginsValue(l, origins)' = OriginsValue(l, origins)
    BY <1>7, <1>9, <1>11, <1>12, <1>13, <1>14 DEF OriginsValue
<1> QED
    BY <1>6, <1>10, <1>15

\* The versions that a read has found are those of the entries it has met.
LEMMA FoundFacts ==
    ASSUME NEW l, NEW t, \A i \in Met(l, t) : IsData(data[l][i])
    PROVE  /\ FoundOrigins(l, t).mv = {Version(l, i) : i \in Met(l, t)}
           /\ FoundOrigins(l, t).storage = ReachesStorage(l, t)
           /\ Indexes(FoundOrigins(l, t)) = Met(l, t)
           /\ \A v \in FoundOrigins(l, t).mv :
                  v[1] \in Met(l, t) /\ v[2] = data[l][v[1]].inc
<1>1. PICK met, origins, versions, storage :
          /\ met = Met(l, t) /\ origins = FoundOrigins(l, t)
          /\ versions = FoundVersions(l, t) /\ storage = ReachesStorage(l, t)
    OBVIOUS
<1>2. origins = [mv |-> versions, storage |-> storage]
    BY <1>1 DEF FoundOrigins, Origins
<1>3. origins.mv = versions /\ origins.storage = storage
    BY <1>2, SMTT(30)
<1>4. versions = {Version(l, i) : i \in met}
    <2>1. {j \in met : IsData(data[l][j])} = met
        BY <1>1
    <2> QED
        BY <1>1, <2>1 DEF FoundVersions
<1>5. \A i : Version(l, i)[1] = i /\ Version(l, i)[2] = data[l][i].inc
    BY DEF Version
<1>6. ASSUME NEW v \in versions PROVE v[1] \in met /\ v[2] = data[l][v[1]].inc
    <2>1. PICK i \in met : v = Version(l, i)
        BY <1>4
    <2>2. v[1] = i /\ v[2] = data[l][i].inc
        BY <1>5, <2>1
    <2> QED
        BY <2>2
<1>7. \A i \in met : \E v \in versions : v[1] = i
    BY <1>4, <1>5
<1>8. {v[1] : v \in versions} = met
    BY <1>6, <1>7
<1>9. Indexes(origins) = met
    BY <1>3, <1>8 DEF Indexes
<1> QED
    BY <1>1, <1>3, <1>4, <1>6, <1>9

\* What a read finds stands: it is what the versions that it has found make
\* together.
LEMMA FoundStands ==
    ASSUME PevmTypeOK, NEW l \in Locs, NEW t \in Txs, ~Blocked(l, t),
           \A i \in Txs : Settled(l, i)
    PROVE  /\ ReadStands(l, t, FoundOrigins(l, t), FoundValue(l, t))
           /\ Present(l, FoundOrigins(l, t))
           /\ FoundValue(l, t) = OriginsValue(l, FoundOrigins(l, t))
<1>1. PICK met, origins, low :
          met = Met(l, t) /\ origins = FoundOrigins(l, t) /\ low = Min(met)
    OBVIOUS
<1>2. /\ met \subseteq Txs
      /\ \A i \in met : i \in 0 .. (t - 1) /\ IsData(data[l][i])
    BY <1>1, MetFacts
<1>3. /\ origins.storage = ReachesStorage(l, t)
      /\ Indexes(origins) = met
      /\ \A v \in origins.mv : v[1] \in met /\ v[2] = data[l][v[1]].inc
    BY <1>1, <1>2, FoundFacts
<1>4. ASSUME NEW i \in met PROVE Past(l, i, data[l][i].inc)
    <2>1. ~IsData(Absent) /\ ~IsData(Estimate)
        BY SMTT(30) DEF IsData, Absent, Estimate
    <2> QED
        BY <1>2, <2>1 DEF Settled
<1>5. \A v \in origins.mv : v[1] \in 0 .. (t - 1) /\ Past(l, v[1], v[2])
    BY <1>2, <1>3, <1>4
<1>6. Present(l, origins)
    BY <1>2, <1>3 DEF Present
<1>7. CASE ReachesStorage(l, t)
    <2>1. \A i \in met : data[l][i].kind = "lazy"
        BY <1>1, <1>7, MetFacts
    <2>2. Summable(l, origins)
        BY <1>3, <1>7, <2>1 DEF Summable
    <2>3. FoundValue(l, t) = OriginsValue(l, origins)
        BY <1>1, <1>3, <1>7 DEF FoundValue, OriginsValue
    <2> QED
        BY <1>1, <1>5, <1>6, <2>2, <2>3 DEF ReadStands, ReadPast, ReadMeans
<1>8. CASE ~ReachesStorage(l, t)
    <2>1. low \in met /\ \A i \in met : data[l][i].kind = "lazy" <=> i # low
        BY <1>1, <1>8, MetFacts
    <2>2. Summable(l, origins)
        BY <1>1, <1>3, <1>8, <2>1 DEF Summable
    <2>3. FoundValue(l, t) = OriginsValue(l, origins)
        BY <1>1, <1>3, <1>8 DEF FoundValue, OriginsValue
    <2> QED
        BY <1>1, <1>5, <1>6, <2>2, <2>3 DEF ReadStands, ReadPast, ReadMeans
<1> QED
    BY <1>7, <1>8

\* A location that is read again and found consistent has the value it had.
LEMMA RereadSame ==
    ASSUME PevmTypeOK, NEW l \in Locs, NEW t \in Txs, ~Blocked(l, t),
           \A i \in Txs : Settled(l, i),
           NEW prev, NEW value, ReadStands(l, t, prev, value), ~Inconsistent(l, t, prev)
    PROVE  FoundValue(l, t) = value
<1>1. FoundOrigins(l, t) = prev
    BY DEF Inconsistent
<1>2. Present(l, prev) /\ FoundValue(l, t) = OriginsValue(l, prev)
    BY <1>1, FoundStands
<1> QED
    BY <1>2 DEF ReadStands, ReadPast, ReadMeans

-----------------------------------------------------------------------------
(***************************************************************************)
(* The calls of the workers follow the sequential execution.               *)
(***************************************************************************)

\* What the last execution of t has left stands.
Lasting(t) ==
    /\ Outcome(t)
    /\ \A l \in DOMAIN last_locations[t].read : ReadPast(l, t, last_locations[t].read[l])

\* The result of t is what all its accesses and the refund leave.
Result(t, r) ==
    /\ r.gas \in Nat /\ RanAll(t, r.values, r.view, r.gas)
    /\ execution_results[t] = [state |-> r.view, gas |-> r.gas]

\* An execution has done what it does sequentially, as far as it has got.
Executes(w) ==
    /\ Doing(w, "execute", "idle") =>
           \E n \in Nat : /\ run[w].step = n + 1
                     /\ Progress(tx_idx[w], n, run[w].values, run[w].view, run[w].gas)
    /\ Recording(w) => Result(tx_idx[w], run[w])
    /\ At(w, "finish_exec") => Lasting(tx_idx[w])

\* So have the executed transactions, and their results are there.
ExecutionInv ==
    /\ DOMAIN execution_results = Txs
    /\ \A w \in Workers : Executes(w)
    /\ \A t \in Txs : Finished(t) => Lasting(t)

\* A worker that works on the entries of t.
Touches(w, t) == tx_idx[w] = t /\ pc[w] \in {"execute", "estimate"}

\* Only its executor stores the result of a transaction.
LEMMA ResultsStep ==
    ASSUME DOMAIN execution_results = Txs, NEW w \in Workers, WorkerStep(w), NEW t \in Txs
    PROVE  \/ execution_results'[t] = execution_results[t]
           \/ StoreResult(w) /\ tx_idx[w] = t /\ At(w, "execute")
<1>1. StoreResult(w) \/ execution_results' = execution_results
    BY ZenonT(60) DEF WorkerStep, LocalAccess, Retry, BlockedRead, Read, AwaitFunds,
       Rejected, StorageFails, RecordWrite, RecordLock, RecordRemove, RecordDone,
       ValidateLock, ValidateLocation, ValidateFails, ValidateDone, EstimateLock,
       EstimateLocation, EstimateDone
<1>2. CASE StoreResult(w)
    <2>1. At(w, "execute")
        BY <1>2 DEF StoreResult, Doing
    <2>2. PICK r : execution_results' = [execution_results EXCEPT ![tx_idx[w]] = r]
        BY <1>2 DEF StoreResult
    <2> QED
        BY <1>2, <2>1, <2>2
<1> QED
    BY <1>1, <1>2

\* A transaction that is executed, or about to be marked so, nobody touches.
LEMMA Untouched ==
    ASSUME ExecutorInv, WaitInv, NEW w \in Workers, NEW t \in Txs,
           \/ Finished(t)
           \/ \E v \in Workers : tx_idx[v] = t /\ Runs(v) /\ v # w
           \/ At(w, "finish_exec")
    PROVE  ~Touches(w, t)
<1>1. SUFFICES ASSUME Touches(w, t) PROVE FALSE
    OBVIOUS
<1>2. CASE pc[w] = "execute"
    <2>1. Runs(w) /\ status[t] = "Executing"
        BY <1>1, <1>2 DEF Touches, Runs, ExecutorInv
    <2> QED
        BY <1>1, <1>2, <2>1 DEF Touches, ExecutorInv, SingleExecutor, Finished, At
<1>3. CASE pc[w] = "estimate"
    <2>1. status[t] = "Aborting"
        BY <1>1, <1>3 DEF Touches, WaitInv, Holds, HeldIsAborted, HeldTx, At
    <2> QED
        BY <1>1, <1>3, <2>1 DEF ExecutorInv, Finished, At
<1> QED
    BY <1>1, <1>2, <1>3 DEF Touches

\* What a transaction leaves stays as long as nobody touches it.
LEMMA OutcomeStep ==
    ASSUME TypeOK, ExecutorInv, MemoryInv, PevmTypeOK, MayFail = Txs, Restartable = Nat,
           DOMAIN execution_results = Txs,
           NEW w \in Workers, WorkerStep(w), NEW t \in Txs, ~Touches(w, t), Lasting(t)
    PROVE  Lasting(t)'
<1>1. last_locations'[t] = last_locations[t]
    <2>1. RecordDone(w) => pc[w] = "execute"
        BY DEF RecordDone, Doing, At
    <2> QED
        BY <2>1, LastLocationsStep DEF Touches
<1>2. execution_results'[t] = execution_results[t]
    BY ResultsStep DEF Touches, At
<1>3. \A l \in Locs : data'[l][t] = data[l][t]
    <2>1. ASSUME NEW l \in Locs PROVE data'[l][t] = data[l][t]
        <3>1. \/ data'[l][t] = data[l][t]
              \/ /\ tx_idx[w] = t /\ l \in run[w].todo /\ UNCHANGED vars
                 /\ \/ At(w, "execute") /\ RecordWrite(w, l)
                    \/ At(w, "execute") /\ RecordRemove(w, l) /\ Blank(data'[l][t])
                    \/ At(w, "estimate") /\ EstimateLocation(w, l) /\ Blank(data'[l][t])
            BY EntryOwner
        <3> QED
            BY <3>1 DEF Touches, At
    <2> QED
        BY <2>1
<1>4. PICK read, result : read = last_locations[t].read /\ result = execution_results[t]
    OBVIOUS
<1>5. PICK values, inc :
          /\ DOMAIN values = DOMAIN read /\ DOMAIN read \subseteq Locs
          /\ \A l \in DOMAIN read : ReadStands(l, t, read[l], values[l])
          /\ RanAll(t, values, result.state, result.gas) /\ result.gas \in Nat
          /\ InMemory(t, inc, WriteSet(t, result.gas, values, result.state))
    BY <1>4 DEF Lasting, Outcome, ReadStands
<1>6. ASSUME NEW l \in DOMAIN read PROVE ReadStands(l, t, read[l], values[l])'
    <2>1. PICK origins, value : origins = read[l] /\ value = values[l]
        OBVIOUS
    <2>2. ReadStands(l, t, origins, value) /\ l \in Locs
        BY <1>5, <2>1
    <2>3. ReadStands(l, t, origins, value)'
        BY <2>2, StandsStep
    <2> QED
        BY <2>1, <2>3
<1>7. PICK ws : ws = WriteSet(t, result.gas, values, result.state)
    OBVIOUS
<1>8. InMemory(t, inc, ws)'
    BY <1>3, <1>5, <1>7 DEF InMemory, HoldsWrite, Data, Absent
<1>9. Outcome(t)'
    <2>1. \A l \in DOMAIN read : ReadMeans(l, read[l], values[l])'
        BY <1>6 DEF ReadStands
    <2> QED
        BY <1>1, <1>2, <1>4, <1>5, <1>7, <1>8, <2>1 DEF Outcome
<1>10. \A l \in DOMAIN read : ReadPast(l, t, read[l])'
    BY <1>6 DEF ReadStands
<1> QED
    BY <1>1, <1>4, <1>9, <1>10 DEF Lasting

\* What holds of the call of a worker.
Follows(w) ==
    /\ CallReads(w) /\ CallWrites(w) /\ (~At(w, "execute") => Fresh(run[w]))
    /\ Executes(w)

\* A step of another worker leaves the call of a worker as it is.
LEMMA OthersFollow ==
    ASSUME TypeOK, ExecutorInv, WaitInv, MemoryInv, PevmTypeOK,
           MayFail = Txs, Restartable = Nat, DOMAIN execution_results = Txs,
           NEW w \in Workers, WorkerStep(w), NEW v \in Workers \ {w}, Follows(v)
    PROVE  Follows(v)'
<1>1. /\ pc'[v] = pc[v] /\ tx_idx'[v] = tx_idx[v] /\ run'[v] = run[v]
      /\ tx_incarnation'[v] = tx_incarnation[v]
    <2>1. /\ OthersGoOn(w) /\ [Next]_vars
          /\ \/ SchedulerStep(w) /\ UNCHANGED <<memoryVars, run>>
             \/ InnerStep(w) /\ UNCHANGED vars
             \/ AnswerStep(w) /\ EnvironmentStep(w) /\ run' = [run EXCEPT ![w] = Idle]
        BY PevmWorker
    <2>2. CASE SchedulerStep(w) \/ EnvironmentStep(w)
        BY <2>2, VersionSteps, <2>1 DEF OthersGoOn
    <2>3. CASE UNCHANGED vars
        BY <2>1, <2>3 DEF vars, versionVars, OthersGoOn
    <2> QED
        BY <2>1, <2>2, <2>3
<1>2. PICK t \in Txs : t = tx_idx[v]
    BY DEF TypeOK
<1>3. Runs(v) => ~Touches(w, t)
    BY <1>2, Untouched
<1>4. CallReads(v)'
    <2>1. DOMAIN run[v].origins \subseteq Locs
        BY DEF PevmTypeOK
    <2>2. ASSUME NEW l \in DOMAIN run[v].origins
          PROVE  ReadStands(l, t, run[v].origins[l], run[v].values[l])'
        <3>1. PICK origins, value : origins = run[v].origins[l] /\ value = run[v].values[l]
            OBVIOUS
        <3>2. ReadStands(l, t, origins, value) /\ l \in Locs
            BY <1>2, <2>1, <2>2, <3>1 DEF Follows, CallReads
        <3>3. ReadStands(l, t, origins, value)'
            BY <3>2, StandsStep
        <3> QED
            BY <1>1, <3>1, <3>3
    <2> QED
        BY <1>1, <1>2, <2>2 DEF Follows, CallReads
<1>5. CallWrites(v)'
    <2>1. SUFFICES ASSUME Recording(v), NEW ws, ws = Writes(v), ws = Writes(v)',
                          NEW l \in DOMAIN ws \ run[v].todo
                   PROVE  data'[l][t] = data[l][t]
        <3>1. Writes(v)' = Writes(v)
            BY <1>1, SameWrites
        <3>2. Recording(v)' = Recording(v)
            BY <1>1 DEF Recording
        <3>3. PICK inc, ws : inc = tx_incarnation[v] /\ ws = Writes(v)
            OBVIOUS
        <3>4. ASSUME Recording(v), NEW l \in DOMAIN ws \ run[v].todo
              PROVE  HoldsWrite(l, t, inc, ws)'
            <4>1. HoldsWrite(l, t, inc, ws)
                BY <1>2, <3>3, <3>4 DEF Follows, CallWrites
            <4>2. data'[l][t] = data[l][t]
                BY <2>1, <3>1, <3>3, <3>4
            <4> QED
                BY <4>1, <4>2 DEF HoldsWrite, Data
        <3>5. inc = tx_incarnation'[v] /\ ws = Writes(v)' /\ t = tx_idx'[v]
            BY <1>1, <1>2, <3>1, <3>3
        <3> QED
            BY <1>1, <3>2, <3>4, <3>5 DEF CallWrites, HoldsWrite
    <2>2. Runs(v)
        BY <2>1 DEF MemoryInv, CallInv, Runs, At
    <2>3. l \in Locs
        <3>1. DOMAIN run[v].view \subseteq Locs
            BY DEF PevmTypeOK
        <3>2. DOMAIN Writes(v) \subseteq Locs
            BY <1>2, <3>1, WriteSetTyped DEF Writes, WritesOf
        <3> QED
            BY <2>1, <3>2
    <2> QED
        <3>1. \/ data'[l][t] = data[l][t]
              \/ /\ tx_idx[w] = t /\ l \in run[w].todo /\ UNCHANGED vars
                 /\ \/ At(w, "execute") /\ RecordWrite(w, l)
                    \/ At(w, "execute") /\ RecordRemove(w, l) /\ Blank(data'[l][t])
                    \/ At(w, "estimate") /\ EstimateLocation(w, l) /\ Blank(data'[l][t])
            BY <2>3, EntryOwner
        <3> QED
            BY <1>3, <2>2, <3>1 DEF Touches, At
<1>6. (~At(v, "execute") => Fresh(run[v]))'
    BY <1>1 DEF Follows, At, Fresh
<1>7. Executes(v)'
    <2>1. (Doing(v, "execute", "idle") =>
              \E n \in Nat :
                  /\ run[v].step = n + 1
                  /\ Progress(tx_idx[v], n, run[v].values, run[v].view, run[v].gas))'
        BY <1>1 DEF Follows, Executes, Doing, At
    <2>2. ASSUME Recording(v) PROVE Result(tx_idx[v], run[v])'
        <3>1. Runs(v)
            BY <2>2 DEF MemoryInv, CallInv, Runs, At
        <3>2. execution_results'[t] = execution_results[t]
            BY <1>3, <3>1, ResultsStep DEF Touches, At
        <3>3. Result(t, run[v])
            BY <1>2, <2>2 DEF Follows, Executes
        <3> QED
            BY <1>1, <1>2, <3>2, <3>3 DEF Result
    <2>3. ASSUME At(v, "finish_exec") PROVE Lasting(tx_idx[v])'
        <3>1. ~Touches(w, t)
            BY <1>3, <2>3 DEF Runs, At
        <3>2. Lasting(t)
            BY <1>2, <2>3 DEF Follows, Executes
        <3>3. Lasting(t)'
            BY <3>1, <3>2, OutcomeStep
        <3> QED
            BY <1>1, <1>2, <3>3
    <2> QED
        BY <1>1, <2>1, <2>2, <2>3 DEF Executes, Recording, At
<1> QED
    BY <1>4, <1>5, <1>6, <1>7 DEF Follows

\* A call that has read nothing is at its start.
LEMMA FreshFollows ==
    ASSUME VmSound, NEW w \in Workers, tx_idx'[w] \in Txs, Fresh(run[w])',
           run'[w].stage \notin {"writing", "removing"},
           pc'[w] = "finish_exec" => Lasting(tx_idx[w])'
    PROVE  Follows(w)'
<1>1. PICK r, t : r = run'[w] /\ t = tx_idx'[w]
    OBVIOUS
<1>2. /\ r.step = 0 + 1 /\ r.origins = <<>> /\ r.values = <<>> /\ r.view = <<>>
      /\ r.gas = 1 /\ 1 \in Nat
    <2>1. 1 = 0 + 1 /\ 1 \in Nat
        BY SMTT(30)
    <2> QED
        BY <1>1, <2>1 DEF Fresh
<1>3. DOMAIN <<>> = {}
    BY SMTT(30)
<1>4. CallReads(w)'
    BY <1>1, <1>2, <1>3 DEF CallReads
<1>5. CallWrites(w)'
    BY DEF CallWrites, Recording
<1>6. Progress(t, 0, r.values, r.view, r.gas)
    BY <1>1, <1>2 DEF VmSound, VmStarts
<1>7. 0 \in Nat
    BY SMTT(30)
<1>8. Progress(tx_idx'[w], 0, run'[w].values, run'[w].view, run'[w].gas) /\ run'[w].step = 0 + 1
    BY <1>1, <1>2, <1>6
<1>9. Executes(w)'
    BY <1>7, <1>8 DEF Executes, Recording, At
<1> QED
    BY <1>4, <1>5, <1>9 DEF Follows

\* What a call has read stands after the step of a worker.
LEMMA ReadsKept ==
    ASSUME TypeOK, ExecutorInv, MemoryInv, PevmTypeOK, MayFail = Txs, Restartable = Nat,
           NEW w \in Workers, WorkerStep(w), NEW v \in Workers, CallReads(v),
           tx_idx'[v] = tx_idx[v], run'[v].origins = run[v].origins,
           run'[v].values = run[v].values
    PROVE  CallReads(v)'
<1>1. DOMAIN run[v].origins \subseteq Locs /\ tx_idx[v] \in Txs
    BY DEF PevmTypeOK, TypeOK
<1>2. ASSUME NEW l \in DOMAIN run[v].origins
      PROVE  ReadStands(l, tx_idx[v], run[v].origins[l], run[v].values[l])'
    <2>1. PICK t, origins, value :
              /\ t \in Txs /\ t = tx_idx[v]
              /\ origins = run[v].origins[l] /\ value = run[v].values[l]
        BY <1>1
    <2>2. ReadStands(l, t, origins, value) /\ l \in Locs
        BY <1>1, <1>2, <2>1 DEF CallReads
    <2>3. ReadStands(l, t, origins, value)'
        BY <2>1, <2>2, StandsStep
    <2>4. t = tx_idx'[v] /\ origins = run'[v].origins[l] /\ value = run'[v].values[l]
        BY <2>1
    <2> QED
        BY <2>3, <2>4
<1> QED
    BY <1>2 DEF CallReads

\* The call that has just been started.
LEMMA FreshCall ==
    ASSUME NEW stage, NEW todo, NEW r, r = [Idle EXCEPT !.stage = stage, !.todo = todo]
    PROVE  Fresh(r) /\ r.stage = stage
BY SMTT(30) DEF Idle, Fresh

\* Outside execute, a call has read nothing: an execution starts afresh.
LEMMA SchedulerFollows ==
    ASSUME VmSound, TypeOK, TypeOK', MemoryInv, PevmTypeOK, NEW w \in Workers, SchedulerStep(w),
           run' = run, Follows(w)
    PROVE  Follows(w)'
<1>1. pc[w] \notin {"execute", "validate", "estimate"}
    BY SchedulerStepAt DEF TakenFrom
<1>2. run[w].stage = "idle" /\ Fresh(run[w])
    BY <1>1, StageAt DEF Follows, At
<1>3. Fresh(run[w])' /\ run'[w].stage = "idle" /\ tx_idx'[w] \in Txs
    BY <1>2 DEF Fresh, TypeOK
<1>4. pc'[w] # "finish_exec"
    BY <1>1, RunningSteps DEF Runs
<1> QED
    BY <1>3, <1>4, FreshFollows

\* So it does after an answer that is not that of record.
LEMMA AnswerFollows ==
    ASSUME VmSound, TypeOK, TypeOK', MemoryInv, NEW w \in Workers, AnswerStep(w),
           run' = [run EXCEPT ![w] = Idle],
           RecordDone(w) => Lasting(tx_idx[w])'
    PROVE  Follows(w)'
<1>1. DOMAIN run = Workers
    BY DEF MemoryInv
<1>2. run'[w] = Idle
    BY <1>1
<1>3. Fresh(run[w])' /\ run'[w].stage = "idle" /\ tx_idx'[w] \in Txs
    <2>1. Fresh(Idle) /\ Idle.stage = "idle"
        BY SMTT(30) DEF Idle, Fresh
    <2> QED
        BY <1>2, <2>1 DEF Fresh, TypeOK
<1>4. ~RecordDone(w) => pc'[w] # "finish_exec"
    <2>1. pc \in [Workers -> Labels]
        BY DEF TypeOK
    <2>2. CASE BlockedRead(w)
        BY <2>1, <2>2, SMTT(30) DEF BlockedRead, VmReadError, Goto
    <2>3. CASE AwaitFunds(w)
        BY <2>1, <2>3, SMTT(30) DEF AwaitFunds, VmReadError, Goto
    <2>4. CASE Rejected(w)
        BY <2>1, <2>4, SMTT(30) DEF Rejected, VmExecutionError, Goto
    <2>5. CASE StorageFails(w)
        BY <2>1, <2>5, SMTT(30) DEF StorageFails, VmExecutionError, Goto
    <2>6. CASE ValidateDone(w)
        BY <2>1, <2>6, SMTT(30) DEF ValidateDone, ReadSetValid, Goto
    <2>7. CASE EstimateDone(w)
        BY <2>1, <2>7, SMTT(30) DEF EstimateDone, EstimatesWritten, Goto
    <2>8. ASSUME NEW l \in run[w].todo, ValidateFails(w, l) PROVE pc'[w] # "finish_exec"
        BY <2>1, <2>8, SMTT(30) DEF ValidateFails, ReadSetInvalid, Goto
    <2> QED
        BY <2>2, <2>3, <2>4, <2>5, <2>6, <2>7, <2>8 DEF AnswerStep
<1> QED
    BY <1>3, <1>4, FreshFollows

\* So it does while it validates or aborts, and when an execution is restarted.
LEMMA FreshSteps ==
    ASSUME VmSound, TypeOK, MemoryInv, NEW w \in Workers, UNCHANGED vars, Follows(w),
           \/ Retry(w) \/ ValidateLock(w) \/ EstimateLock(w)
           \/ \E l \in run[w].todo : ValidateLocation(w, l) \/ EstimateLocation(w, l)
    PROVE  Follows(w)'
<1>1. /\ DOMAIN run = Workers /\ tx_idx' = tx_idx /\ pc' = pc
      /\ tx_idx'[w] \in Txs
    BY DEF MemoryInv, TypeOK, vars, versionVars
<1>2. CASE Retry(w)
    <2>1. run'[w] = Idle /\ pc[w] = "execute"
        BY <1>1, <1>2 DEF Retry, SetRun, Asking, Accessing, Doing, At
    <2>2. Fresh(Idle) /\ Idle.stage = "idle"
        BY SMTT(30) DEF Idle, Fresh
    <2>3. Fresh(run[w])' /\ run'[w].stage = "idle"
        BY <2>1, <2>2 DEF Fresh
    <2> QED
        BY <1>1, <2>1, <2>3, FreshFollows
<1>3. CASE ValidateLock(w) \/ EstimateLock(w)
    <2>1. PICK stage, todo : /\ run'[w] = [Idle EXCEPT !.stage = stage, !.todo = todo]
                             /\ stage \in {"checking", "estimating"}
        BY <1>1, <1>3 DEF ValidateLock, EstimateLock, SetRun
    <2>2. pc[w] # "finish_exec"
        BY <1>3 DEF ValidateLock, EstimateLock, Doing, At
    <2>3. Fresh(run[w])' /\ run'[w].stage = stage
        <3>1. PICK r : r = run'[w]
            OBVIOUS
        <3>2. Fresh(r) /\ r.stage = stage
            BY <2>1, <3>1, FreshCall
        <3> QED
            BY <3>1, <3>2 DEF Fresh
    <2> QED
        BY <1>1, <2>1, <2>2, <2>3, FreshFollows
<1>4. ASSUME NEW l \in run[w].todo, ValidateLocation(w, l) \/ EstimateLocation(w, l)
      PROVE  Follows(w)'
    <2>1. /\ run' = [run EXCEPT ![w] = [run[w] EXCEPT !.todo = @ \ {l}]]
          /\ pc[w] \in {"validate", "estimate"}
          /\ run[w].stage \in {"checking", "estimating"}
        BY <1>4 DEF ValidateLocation, EstimateLocation, SetRun, Doing, At
    <2>2. Fresh(run[w])
        BY <2>1 DEF Follows, At
    <2>3. PICK rest : run'[w] = [run[w] EXCEPT !.todo = rest]
        BY <1>1, <2>1
    <2>4. /\ run'[w].stage = run[w].stage /\ run'[w].step = run[w].step
          /\ run'[w].origins = run[w].origins /\ run'[w].values = run[w].values
          /\ run'[w].view = run[w].view /\ run'[w].gas = run[w].gas
        <3>1. DOMAIN run[w] = DOMAIN Idle
            BY DEF MemoryInv, CallInv
        <3> QED
            BY <2>3, <3>1, SMTT(30) DEF Idle
    <2>5. Fresh(run[w])'
        BY <2>2, <2>4 DEF Fresh
    <2> QED
        BY <1>1, <2>1, <2>4, <2>5, FreshFollows
<1> QED
    BY <1>2, <1>3, <1>4

\* An execution that goes on follows the sequential one by its progress,
LEMMA ReadingFollows ==
    ASSUME NEW w \in Workers, pc'[w] = "execute", run'[w].stage = "idle", CallReads(w)',
           NEW n \in Nat, run'[w].step = n + 1,
           Progress(tx_idx'[w], n, run'[w].values, run'[w].view, run'[w].gas)
    PROVE  Follows(w)'
<1>1. ~Recording(w)' /\ At(w, "execute")' /\ ~At(w, "finish_exec")'
    BY DEF Recording, At
<1>2. Executes(w)'
    BY <1>1 DEF Executes
<1> QED
    BY <1>1, <1>2 DEF Follows, CallWrites

\* and one that records by its result.
LEMMA RecordingFollows ==
    ASSUME NEW w \in Workers, pc'[w] = "execute", run'[w].stage \in {"writing", "removing"},
           CallReads(w)', CallWrites(w)', Result(tx_idx[w], run[w])'
    PROVE  Follows(w)'
<1>1. Recording(w)' /\ At(w, "execute")' /\ ~At(w, "finish_exec")' /\ ~Doing(w, "execute", "idle")'
    BY DEF Recording, At, Doing
<1>2. Executes(w)'
    BY <1>1 DEF Executes
<1> QED
    BY <1>1, <1>2 DEF Follows

\* A call that is reading has made progress, and is not at its end.
LEMMA AccessAhead ==
    ASSUME VmSound, TypeOK, NEW w \in Workers, Accessing(w), Follows(w)
    PROVE  \E n \in Nat : /\ run[w].step = n + 1 /\ n # Len(VmAccesses[tx_idx[w]])
                          /\ Access(w) = VmAccesses[tx_idx[w]][n + 1]
                          /\ Progress(tx_idx[w], n, run[w].values, run[w].view, run[w].gas)
<1>1. PICK n \in Nat : /\ run[w].step = n + 1
                       /\ Progress(tx_idx[w], n, run[w].values, run[w].view, run[w].gas)
    BY DEF Follows, Executes, Accessing
<1>2. n # Len(VmAccesses[tx_idx[w]])
    <2>1. Len(VmAccesses[tx_idx[w]]) \in Nat
        BY DEF TypeOK, VmSound, VmStarts
    <2>2. n + 1 <= Len(VmAccesses[tx_idx[w]])
        BY <1>1 DEF Accessing
    <2> QED
        BY <2>1, <2>2, SMTT(30)
<1> QED
    BY <1>1, <1>2 DEF Access

\* An access to what is at hand is the one of the sequential execution.
LEMMA LocalFollows ==
    ASSUME VmSound, TypeOK, ExecutorInv, MemoryInv, PevmTypeOK, MayFail = Txs,
           Restartable = Nat, NEW w \in Workers, WorkerStep(w), LocalAccess(w),
           UNCHANGED vars, Follows(w)
    PROVE  Follows(w)'
<1>1. /\ DOMAIN run = Workers /\ DOMAIN run[w] = DOMAIN Idle /\ tx_idx[w] \in Txs
      /\ tx_idx' = tx_idx /\ pc' = pc /\ pc[w] = "execute" /\ run[w].stage = "idle"
      /\ Accessing(w)
    BY DEF MemoryInv, CallInv, TypeOK, vars, versionVars, LocalAccess, Accessing, Doing, At
<1>2. PICK r, t, i : r = run[w] /\ t = tx_idx[w] /\ i = Access(w)
    OBVIOUS
<1>3. PICK n \in Nat : /\ r.step = n + 1 /\ n # Len(VmAccesses[t])
                       /\ i = VmAccesses[t][n + 1]
                       /\ Progress(t, n, r.values, r.view, r.gas)
    BY <1>1, <1>2, AccessAhead
<1>4. PICK view, gas :
          /\ view = IF Skipped(t, i, r.view) THEN r.view ELSE Apply(t, i, r.view)
          /\ gas = IF Skipped(t, i, r.view) THEN r.gas ELSE r.gas + GasOf(i)
    OBVIOUS
<1>5. run'[w] = [r EXCEPT !.step = r.step + 1, !.view = view, !.gas = gas]
    BY <1>1, <1>2, <1>4, SMTT(30) DEF LocalAccess, SetRun, IsSkipped
<1>6. /\ run'[w].stage = r.stage /\ run'[w].step = r.step + 1 /\ run'[w].view = view
      /\ run'[w].gas = gas /\ run'[w].values = r.values /\ run'[w].origins = r.origins
    BY <1>1, <1>2, <1>5, SMTT(30) DEF Idle
<1>7. Progress(t, n + 1, r.values, view, gas)
    <2>1. CASE Skipped(t, i, r.view)
        BY <1>1, <1>2, <1>3, <1>4, <2>1 DEF VmSound, VmSkips
    <2>2. CASE ~Skipped(t, i, r.view)
        <3>1. i.loc \in DOMAIN r.view
            BY <1>2, <2>2 DEF LocalAccess, AsksDb, IsSkipped
        <3>2. /\ DOMAIN r.view \subseteq DOMAIN r.values /\ DOMAIN r.values \subseteq Locs
              /\ n # 0
            BY <1>3, <3>1 DEF Progress, Journal
        <3>3. Informed(t, n, i, r.values, r.values)
            BY <3>1, <3>2 DEF Informed
        <3>4. Loaded(i, r.view, r.values) = r.view
            BY <3>1 DEF Loaded
        <3>5. Progress(t, n + 1, r.values, Apply(t, i, Loaded(i, r.view, r.values)),
                       r.gas + GasOf(i))
            BY <1>1, <1>2, <1>3, <2>2, <3>3 DEF VmSound, VmSteps
        <3> QED
            BY <1>4, <2>2, <3>4, <3>5
    <2> QED
        BY <2>1, <2>2
<1>8. CallReads(w)'
    BY <1>1, <1>2, <1>6, ReadsKept DEF Follows
<1>9. n + 1 \in Nat
    BY SMTT(30)
<1> QED
    BY <1>1, <1>2, <1>3, <1>6, <1>7, <1>8, <1>9, ReadingFollows

\* A read that succeeds lets the execution go on as the sequential one does.
LEMMA ReadFollows ==
    ASSUME VmSound, TypeOK, ExecutorInv, MemoryInv, PevmTypeOK, MayFail = Txs,
           Restartable = Nat, \A l \in Locs, t \in Txs : Settled(l, t),
           NEW w \in Workers, WorkerStep(w), Read(w),
           UNCHANGED vars, Follows(w)
    PROVE  Follows(w)'
<1>1. /\ DOMAIN run = Workers /\ DOMAIN run[w] = DOMAIN Idle /\ tx_idx[w] \in Txs
      /\ tx_idx' = tx_idx /\ pc' = pc /\ pc[w] = "execute" /\ run[w].stage = "idle"
      /\ Accessing(w) /\ Answered(w) /\ Asking(w)
    BY DEF MemoryInv, CallInv, TypeOK, vars, versionVars, Read, Answered, Asking,
       Accessing, Doing, At
<1>2. PICK r, t, i, l : r = run[w] /\ t = tx_idx[w] /\ i = Access(w) /\ l = i.loc
    OBVIOUS
<1>3. PICK n \in Nat : /\ r.step = n + 1 /\ n # Len(VmAccesses[t])
                       /\ i = VmAccesses[t][n + 1]
                       /\ Progress(t, n, r.values, r.view, r.gas)
    BY <1>1, <1>2, AccessAhead
<1>4. l \in Locs
    <2>1. n + 1 \in 1 .. Len(VmAccesses[t])
        BY <1>1, <1>2, <1>3, SMTT(30) DEF Accessing, Progress
    <2> QED
        BY <1>1, <1>2, <1>3, <2>1, AccessLocs
<1>5. PICK found, value : found = FoundOrigins(l, t) /\ value = FoundValue(l, t)
    OBVIOUS
<1>6. ~Blocked(l, t) /\ ReadStands(l, t, found, value)
    <2>1. ~Blocked(l, t)
        BY <1>1, <1>2 DEF Answered
    <2> QED
        BY <1>1, <1>2, <1>4, <1>5, <2>1, FoundStands
<1>7. PICK origins, known, view, gas :
          /\ origins = Put(r.origins, l, found) /\ known = Put(r.values, l, value)
          /\ view = Apply(t, i, IF i.op = "reread" THEN r.view ELSE Put(r.view, l, value))
          /\ gas = r.gas + GasOf(i)
    OBVIOUS
<1>8. run'[w] = [r EXCEPT !.step = r.step + 1, !.origins = origins, !.values = known,
                          !.view = view, !.gas = gas]
    BY <1>1, <1>2, <1>5, <1>7, SMTT(30) DEF Read, SetRun, Answer
<1>9. /\ run'[w].stage = r.stage /\ run'[w].step = r.step + 1 /\ run'[w].view = view
      /\ run'[w].gas = gas /\ run'[w].values = known /\ run'[w].origins = origins
    BY <1>1, <1>2, <1>8, SMTT(30) DEF Idle
<1>10. /\ DOMAIN r.origins = DOMAIN r.values
       /\ \A k \in DOMAIN r.origins : ReadStands(k, t, r.origins[k], r.values[k])
    BY <1>2 DEF Follows, CallReads
<1>11. l \in DOMAIN r.values => value = r.values[l]
    <2>1. SUFFICES ASSUME l \in DOMAIN r.values PROVE value = r.values[l]
        OBVIOUS
    <2>2. PICK prev, old : prev = r.origins[l] /\ old = r.values[l]
        OBVIOUS
    <2>3. ReadStands(l, t, prev, old)
        BY <1>10, <2>1, <2>2
    <2>4. ~Inconsistent(l, t, prev)
        BY <1>1, <1>2, <1>10, <2>1, <2>2 DEF Answered, IsInconsistent, IsReread
    <2>5. FoundValue(l, t) = old
        BY <1>1, <1>2, <1>4, <1>6, <2>3, <2>4, RereadSame
    <2> QED
        BY <1>5, <2>2, <2>5
<1>12. /\ DOMAIN known = DOMAIN r.values \cup {l} /\ known[l] = value
       /\ \A k \in DOMAIN r.values : known[k] = r.values[k]
    <2>1. /\ DOMAIN known = DOMAIN r.values \cup {l} /\ known[l] = value
          /\ \A k \in DOMAIN r.values : k # l => known[k] = r.values[k]
        <3>1. known = Put(r.values, l, value)
            BY <1>7
        <3> QED
            BY <3>1 DEF Put
    <2> QED
        BY <1>11, <2>1
<1>13. Informed(t, n, i, r.values, known)
    <2>1. DOMAIN r.values \subseteq Locs
        BY <1>3 DEF Progress
    <2>2. ASSUME n = 0
          PROVE  NonceFits(t, known[From(t)]) /\ FundsSuffice(t, known[From(t)])
        <3>1. i = [op |-> "debit", loc |-> From(t)]
            <4>1. n + 1 = 1
                BY <2>2, SMTT(30)
            <4> QED
                BY <1>1, <1>2, <1>3, <4>1 DEF VmSound, VmStarts
        <3>2. i.op = "debit" /\ l = From(t)
            BY <1>2, <3>1, SMTT(30)
        <3>3. NonceFits(t, value) /\ FundsSuffice(t, value)
            BY <1>2, <1>5, <3>2 DEF Read, BadNonce, LacksFunds, Answer
        <3> QED
            BY <1>12, <3>2, <3>3
    <2> QED
        BY <1>2, <1>4, <1>12, <2>1, <2>2 DEF Informed
<1>14. view = Apply(t, i, Loaded(i, r.view, known))
    <2>1. l \notin DOMAIN r.view \/ i.op = "reread"
        BY <1>1, <1>2 DEF Asking, AsksDb
    <2> QED
        BY <1>2, <1>7, <1>12, <2>1 DEF Loaded
<1>15. Progress(t, n + 1, known, view, gas)
    <2>1. ~Skipped(t, i, r.view)
        BY <1>1, <1>2 DEF Asking, IsSkipped
    <2>2. Progress(t, n + 1, known, Apply(t, i, Loaded(i, r.view, known)), r.gas + GasOf(i))
        BY <1>1, <1>2, <1>3, <1>13, <2>1 DEF VmSound, VmSteps
    <2> QED
        BY <1>7, <1>14, <2>2
<1>16. CallReads(w)'
    <2>1. DOMAIN origins = DOMAIN r.origins \cup {l} /\ origins[l] = found
          /\ \A k \in DOMAIN r.origins : k # l => origins[k] = r.origins[k]
        <3>1. origins = Put(r.origins, l, found)
            BY <1>7
        <3> QED
            BY <3>1 DEF Put
    <2>2. ASSUME NEW k \in DOMAIN origins PROVE ReadStands(k, t, origins[k], known[k])'
        <3>1. PICK o, v : o = origins[k] /\ v = known[k]
            OBVIOUS
        <3>2. ReadStands(k, t, o, v) /\ k \in Locs
            <4>1. CASE k = l
                BY <1>4, <1>6, <1>12, <2>1, <3>1, <4>1
            <4>2. CASE k # l
                <5>1. k \in DOMAIN r.origins /\ o = r.origins[k] /\ v = r.values[k]
                    BY <1>10, <1>12, <2>1, <2>2, <3>1, <4>2
                <5>2. DOMAIN r.origins \subseteq Locs
                    BY <1>2 DEF PevmTypeOK
                <5> QED
                    BY <1>10, <5>1, <5>2
            <4> QED
                BY <4>1, <4>2
        <3>3. ReadStands(k, t, o, v)'
            BY <1>1, <1>2, <3>2, StandsStep
        <3>4. o' = o /\ v' = v /\ t' = t /\ origins' = origins /\ known' = known
            OBVIOUS
        <3> QED
            BY <3>1, <3>3 DEF ReadStands, ReadPast, ReadMeans
    <2> QED
        BY <1>1, <1>2, <1>9, <1>10, <1>12, <2>1, <2>2 DEF CallReads
<1>17. n + 1 \in Nat
    BY SMTT(30)
<1> QED
    BY <1>1, <1>2, <1>3, <1>9, <1>15, <1>16, <1>17, ReadingFollows

\* The result of an execution that has made all its accesses is that of the
\* sequential one, and none of its writes is in memory yet.
LEMMA StoreFollows ==
    ASSUME VmSound, TypeOK, ExecutorInv, MemoryInv, PevmTypeOK, MayFail = Txs,
           Restartable = Nat, DOMAIN execution_results = Txs,
           NEW w \in Workers, WorkerStep(w), StoreResult(w), UNCHANGED vars, Follows(w)
    PROVE  Follows(w)'
<1>1. /\ DOMAIN run = Workers /\ DOMAIN run[w] = DOMAIN Idle /\ tx_idx[w] \in Txs
      /\ tx_idx' = tx_idx /\ pc' = pc /\ pc[w] = "execute" /\ run[w].stage = "idle"
      /\ Doing(w, "execute", "idle")
    BY DEF MemoryInv, CallInv, TypeOK, vars, versionVars, StoreResult, Doing, At
<1>2. PICK r, t, view : r = run[w] /\ t = tx_idx[w] /\ view = Refund(t, r.gas, r.view)
    OBVIOUS
<1>3. PICK n \in Nat : r.step = n + 1 /\ Progress(t, n, r.values, r.view, r.gas)
    BY <1>1, <1>2 DEF Follows, Executes
<1>4. n = Len(VmAccesses[t])
    <2>1. r.step > Len(VmAccesses[t])
        BY <1>2 DEF StoreResult
    <2>2. Len(VmAccesses[t]) \in Nat /\ n \in 0 .. Len(VmAccesses[t])
        BY <1>1, <1>2, <1>3 DEF VmSound, VmStarts, Progress
    <2> QED
        BY <1>3, <2>1, <2>2, SMTT(30)
<1>5. RanAll(t, r.values, view, r.gas) /\ r.gas \in Nat
    BY <1>1, <1>2, <1>3, <1>4 DEF VmSound, VmFinishes, Progress
<1>6. PICK todo : todo = DOMAIN WritesOf(w, view)
    OBVIOUS
<1>7. /\ run'[w] = [r EXCEPT !.stage = "writing", !.view = view, !.todo = todo]
      /\ execution_results'[t] = [state |-> view, gas |-> r.gas]
    <2>1. /\ run' = [run EXCEPT ![w] = [run[w] EXCEPT !.stage = "writing", !.view = view,
                                                       !.todo = todo]]
          /\ execution_results' = [execution_results EXCEPT
                                      ![t] = [state |-> view, gas |-> r.gas]]
        BY <1>2, <1>6 DEF StoreResult, SetRun
    <2>2. run'[w] = [r EXCEPT !.stage = "writing", !.view = view, !.todo = todo]
        BY <1>1, <1>2, <2>1
    <2>3. execution_results'[t] = [state |-> view, gas |-> r.gas]
        BY <1>1, <1>2, <2>1
    <2> QED
        BY <2>2, <2>3
<1>8. /\ run'[w].stage = "writing" /\ run'[w].view = view /\ run'[w].todo = todo
      /\ run'[w].gas = r.gas /\ run'[w].values = r.values /\ run'[w].origins = r.origins
    BY <1>1, <1>2, <1>7, SMTT(30) DEF Idle
<1>9. CallReads(w)'
    BY <1>1, <1>2, <1>8, ReadsKept DEF Follows
<1>10. CallWrites(w)'
    <2>1. Writes(w)' = WritesOf(w, view)
        BY <1>1, <1>2, <1>8 DEF Writes, WritesOf
    <2> QED
        BY <1>6, <1>8, <2>1 DEF CallWrites
<1>11. Result(tx_idx[w], run[w])'
    BY <1>1, <1>2, <1>5, <1>7, <1>8 DEF Result
<1> QED
    BY <1>1, <1>8, <1>9, <1>10, <1>11, RecordingFollows

\* A call that records keeps its result, and what it has read stands.
LEMMA RecordKeeps ==
    ASSUME TypeOK, ExecutorInv, MemoryInv, PevmTypeOK, MayFail = Txs, Restartable = Nat,
           NEW w \in Workers, WorkerStep(w), UNCHANGED <<vars, execution_results>>,
           Follows(w), Doing(w, "execute", run[w].stage), Recording(w),
           run'[w].stage \in {"writing", "removing"}, run'[w].view = run[w].view,
           run'[w].gas = run[w].gas, run'[w].values = run[w].values,
           run'[w].origins = run[w].origins,
           \A l \in DOMAIN Writes(w) \ run'[w].todo :
               HoldsWrite(l, tx_idx[w], tx_incarnation[w], Writes(w))'
    PROVE  Follows(w)'
<1>1. /\ DOMAIN run = Workers /\ DOMAIN run[w] = DOMAIN Idle /\ tx_idx[w] \in Txs
      /\ tx_idx' = tx_idx /\ pc' = pc /\ pc[w] = "execute"
      /\ tx_incarnation' = tx_incarnation
    BY DEF MemoryInv, CallInv, TypeOK, vars, versionVars, Doing, At
<1>2. PICK r, t : r = run[w] /\ t = tx_idx[w]
    OBVIOUS
<1>3. CallReads(w)'
    BY <1>1, <1>2, ReadsKept DEF Follows
<1>4. CallWrites(w)'
    <2>1. Writes(w)' = Writes(w)
        BY <1>1, <1>2 DEF Writes, WritesOf
    <2> QED
        BY <2>1 DEF CallWrites
<1>5. Result(tx_idx[w], run[w])'
    <2>1. Result(t, r)
        BY <1>2 DEF Follows, Executes
    <2> QED
        BY <1>1, <1>2, <2>1 DEF Result
<1> QED
    BY <1>1, <1>3, <1>4, <1>5, RecordingFollows

\* Recording goes on with one location: a write that is done is in memory, and
\* what is removed is not a write.
LEMMA EntryFollows ==
    ASSUME TypeOK, ExecutorInv, MemoryInv, PevmTypeOK, MayFail = Txs, Restartable = Nat,
           NEW w \in Workers, WorkerStep(w), UNCHANGED vars, Follows(w),
           NEW l \in run[w].todo, RecordWrite(w, l) \/ RecordRemove(w, l)
    PROVE  Follows(w)'
<1>1. /\ DOMAIN data = Locs /\ \A k \in Locs : DOMAIN data[k] = Txs
      /\ DOMAIN run = Workers /\ DOMAIN run[w] = DOMAIN Idle /\ tx_idx[w] \in Txs
      /\ tx_idx' = tx_idx /\ tx_incarnation' = tx_incarnation /\ l \in Locs
    BY DEF MemoryInv, CallInv, TypeOK, PevmTypeOK, vars, versionVars
<1>2. PICK entry : data' = [data EXCEPT ![l][tx_idx[w]] = entry]
    BY DEF RecordWrite, RecordRemove, Insert, Remove
<1>3. \A k \in Locs : k # l => data'[k][tx_idx[w]] = data[k][tx_idx[w]]
    BY <1>1, <1>2, OneEntry
<1>4. DOMAIN Writes(w) \subseteq Locs
    <2>1. DOMAIN run[w].view \subseteq Locs
        BY DEF PevmTypeOK
    <2> QED
        BY <1>1, <2>1, WriteSetTyped DEF Writes, WritesOf
<1>5. PICK stage, todo :
          /\ stage = run[w].stage /\ todo = run[w].todo \ {l}
          /\ stage \in {"writing", "removing"} /\ Recording(w)
          /\ Doing(w, "execute", stage)
          /\ UNCHANGED execution_results /\ SetRun(w, [run[w] EXCEPT !.todo = todo])
    BY DEF RecordWrite, RecordRemove, Doing, Recording
<1>6. /\ run'[w].stage = run[w].stage /\ run'[w].view = run[w].view
      /\ run'[w].gas = run[w].gas /\ run'[w].values = run[w].values
      /\ run'[w].origins = run[w].origins /\ run'[w].todo = todo
    <2>1. run'[w] = [run[w] EXCEPT !.todo = todo]
        BY <1>1, <1>5 DEF SetRun
    <2> QED
        BY <1>1, <2>1, SMTT(30) DEF Idle
<1>7. Writes(w)' = Writes(w)
    BY <1>1, <1>5, TodoStep
<1>8. ASSUME NEW k \in DOMAIN Writes(w) \ todo
      PROVE  HoldsWrite(k, tx_idx[w], tx_incarnation[w], Writes(w))'
    <2>1. CASE k # l
        <3>1. HoldsWrite(k, tx_idx[w], tx_incarnation[w], Writes(w))
            BY <1>5, <1>8, <2>1 DEF Follows, CallWrites
        <3> QED
            BY <1>1, <1>3, <1>4, <1>7, <1>8, <2>1, <3>1 DEF HoldsWrite, Data
    <2>2. CASE k = l
        <3>1. RecordWrite(w, l)
            <4>1. ~RecordRemove(w, l)
                BY <1>8, <2>2 DEF RecordRemove, Doing, MemoryInv, RecordedSoFar
            <4> QED
                BY <4>1
        <3>2. data'[l][tx_idx[w]] =
                  Data(Writes(w)[l].kind, tx_incarnation[w], Writes(w)[l].value)
            BY <3>1, WrittenEntry
        <3> QED
            BY <1>1, <1>7, <2>2, <3>2 DEF HoldsWrite, Data
    <2> QED
        BY <2>1, <2>2
<1> QED
    BY <1>5, <1>6, <1>8, RecordKeeps

\* All the writes are in memory when removing starts.
LEMMA LockFollows ==
    ASSUME TypeOK, ExecutorInv, MemoryInv, PevmTypeOK, MayFail = Txs, Restartable = Nat,
           NEW w \in Workers, WorkerStep(w), UNCHANGED vars, Follows(w), RecordLock(w)
    PROVE  Follows(w)'
<1>1. /\ DOMAIN run[w] = DOMAIN Idle /\ DOMAIN run = Workers /\ tx_idx[w] \in Txs
      /\ tx_idx' = tx_idx /\ tx_incarnation' = tx_incarnation /\ data' = data
    BY DEF MemoryInv, CallInv, TypeOK, vars, versionVars, RecordLock, memoryVars
<1>2. PICK stage, todo :
          /\ stage = "removing" /\ todo = StaleWrites(w) /\ run[w].todo = {}
          /\ Recording(w) /\ Doing(w, "execute", run[w].stage)
          /\ UNCHANGED execution_results
          /\ SetRun(w, [run[w] EXCEPT !.stage = stage, !.todo = todo])
    BY DEF RecordLock, Doing, Recording
<1>3. /\ run'[w].stage = "removing" /\ run'[w].view = run[w].view
      /\ run'[w].gas = run[w].gas /\ run'[w].values = run[w].values
      /\ run'[w].origins = run[w].origins /\ run'[w].todo = todo
    <2>1. run'[w] = [run[w] EXCEPT !.stage = stage, !.todo = todo]
        BY <1>1, <1>2 DEF SetRun
    <2> QED
        BY <1>1, <1>2, <2>1, SMTT(30) DEF Idle
<1>4. Writes(w)' = Writes(w)
    BY <1>1, <1>3 DEF Writes, WritesOf
<1>5. ASSUME NEW k \in DOMAIN Writes(w) \ todo
      PROVE  HoldsWrite(k, tx_idx[w], tx_incarnation[w], Writes(w))'
    <2>1. HoldsWrite(k, tx_idx[w], tx_incarnation[w], Writes(w))
        BY <1>2, <1>5 DEF Follows, CallWrites
    <2> QED
        BY <1>1, <1>4, <2>1 DEF HoldsWrite, Data
<1> QED
    BY <1>2, <1>3, <1>5, RecordKeeps

\* When the execution is recorded, the read set, the result and the entries are
\* those of one execution that does what the sequential one does.
LEMMA DoneOutcome ==
    ASSUME TypeOK, ExecutorInv, MemoryInv, PevmTypeOK, MayFail = Txs, Restartable = Nat,
           NEW w \in Workers, WorkerStep(w), Follows(w), RecordDone(w),
           tx_idx'[w] = tx_idx[w]
    PROVE  Lasting(tx_idx[w])'
<1>1. PICK r, t, inc, ws : /\ r = run[w] /\ t = tx_idx[w] /\ inc = tx_incarnation[w]
                           /\ ws = Writes(w)
    OBVIOUS
<1>2. /\ t \in Txs /\ DOMAIN last_locations = Txs /\ DOMAIN r.origins \subseteq Locs
      /\ Doing(w, "execute", "removing") /\ r.todo = {} /\ Recording(w)
      /\ data' = data /\ execution_results' = execution_results
      /\ last_locations' = [last_locations EXCEPT
                               ![t] = [read |-> r.origins, write |-> DOMAIN ws]]
    BY <1>1 DEF TypeOK, MemoryInv, PevmTypeOK, RecordDone, Doing, Recording,
       SetLastLocations
<1>3. PICK read : read = r.origins /\ last_locations'[t].read = read
    BY <1>2
<1>4. /\ DOMAIN read = DOMAIN r.values
      /\ \A l \in DOMAIN read : ReadStands(l, t, read[l], r.values[l])
    BY <1>1, <1>3 DEF Follows, CallReads
<1>5. PICK values : values = r.values
    OBVIOUS
<1>6. ASSUME NEW l \in DOMAIN read PROVE ReadStands(l, t, read[l], values[l])'
    <2>1. PICK o, v : o = read[l] /\ v = values[l]
        OBVIOUS
    <2>2. ReadStands(l, t, o, v) /\ l \in Locs
        BY <1>2, <1>3, <1>4, <1>5, <1>6, <2>1
    <2>3. ReadStands(l, t, o, v)'
        BY <1>2, <2>2, StandsStep
    <2> QED
        BY <2>1, <2>3 DEF ReadStands, ReadPast, ReadMeans
<1>7. PICK view, gas : /\ view = r.view /\ gas = r.gas
                       /\ execution_results'[t] = [state |-> view, gas |-> gas]
                       /\ RanAll(t, values, view, gas) /\ gas \in Nat
    BY <1>1, <1>2, <1>5 DEF Follows, Executes, Result
<1>8. ws = WriteSet(t, gas, values, view)
    BY <1>1, <1>5, <1>7 DEF Writes, WritesOf
<1>9. InMemory(t, inc, ws)'
    <2>1. ASSUME NEW l \in Locs
          PROVE  IF l \in DOMAIN ws THEN HoldsWrite(l, t, inc, ws) ELSE data[l][t] = Absent
        <3>1. CASE l \in DOMAIN ws
            <4>1. l \in DOMAIN Writes(w) \ run[w].todo
                BY <1>1, <1>2, <3>1
            <4> QED
                BY <1>1, <1>2, <3>1, <4>1 DEF Follows, CallWrites
        <3>2. CASE l \notin DOMAIN ws
            BY <1>1, <1>2, <3>2 DEF MemoryInv, RecordedSoFar, Doing
        <3> QED
            BY <3>1, <3>2
    <2> QED
        BY <1>2, <2>1 DEF InMemory, HoldsWrite, Data, Absent
<1>10. Outcome(t)'
    <2>1. \A l \in DOMAIN read : ReadMeans(l, read[l], values[l])'
        BY <1>6 DEF ReadStands
    <2>2. execution_results'[t].state = view /\ execution_results'[t].gas = gas
        BY <1>7, SMTT(30)
    <2>3. DOMAIN values = DOMAIN read /\ DOMAIN read \subseteq Locs
        BY <1>2, <1>3, <1>4, <1>5
    <2> QED
        BY <1>3, <1>7, <1>8, <1>9, <2>1, <2>2, <2>3 DEF Outcome
<1>11. \A l \in DOMAIN read : ReadPast(l, t, read[l])'
    BY <1>6 DEF ReadStands
<1>12. Lasting(t)'
    BY <1>3, <1>10, <1>11 DEF Lasting
<1> QED
    BY <1>1, <1>12

-----------------------------------------------------------------------------
(***************************************************************************)
(* The invariant is kept.                                                  *)
(***************************************************************************)

\* Every step of a worker leaves its call as the sequential execution has it.
LEMMA OwnFollows ==
    ASSUME VmSound, TypeOK, TypeOK', ExecutorInv, MemoryInv, PevmTypeOK,
           MayFail = Txs, Restartable = Nat, DOMAIN execution_results = Txs,
           \A l \in Locs, t \in Txs : Settled(l, t),
           NEW w \in Workers, WorkerStep(w), Follows(w)
    PROVE  Follows(w)'
<1>1. \/ SchedulerStep(w) /\ UNCHANGED <<memoryVars, run>>
      \/ InnerStep(w) /\ UNCHANGED vars
      \/ AnswerStep(w) /\ EnvironmentStep(w) /\ run' = [run EXCEPT ![w] = Idle]
    BY PevmWorker
<1>2. CASE SchedulerStep(w) /\ UNCHANGED <<memoryVars, run>>
    BY <1>2, SchedulerFollows
<1>3. CASE InnerStep(w) /\ UNCHANGED vars
    <2>1. CASE LocalAccess(w)
        BY <1>3, <2>1, LocalFollows
    <2>2. CASE Read(w)
        BY <1>3, <2>2, ReadFollows
    <2>3. CASE StoreResult(w)
        BY <1>3, <2>3, StoreFollows
    <2>4. CASE RecordLock(w)
        BY <1>3, <2>4, LockFollows
    <2>5. CASE \E l \in run[w].todo : RecordWrite(w, l) \/ RecordRemove(w, l)
        BY <1>3, <2>5, EntryFollows
    <2>6. CASE \/ Retry(w) \/ ValidateLock(w) \/ EstimateLock(w)
               \/ \E l \in run[w].todo : ValidateLocation(w, l) \/ EstimateLocation(w, l)
        BY <1>3, <2>6, FreshSteps
    <2> QED
        BY <1>3, <2>1, <2>2, <2>3, <2>4, <2>5, <2>6 DEF InnerStep
<1>4. CASE AnswerStep(w) /\ EnvironmentStep(w) /\ run' = [run EXCEPT ![w] = Idle]
    <2>1. RecordDone(w) => Lasting(tx_idx[w])'
        <3>1. SUFFICES ASSUME RecordDone(w) PROVE Lasting(tx_idx[w])'
            OBVIOUS
        <3>2. tx_idx' = tx_idx
            BY <3>1 DEF RecordDone, VmOk, versionVars
        <3> QED
            BY <3>1, <3>2, DoneOutcome
    <2> QED
        BY <1>4, <2>1, AnswerFollows
<1> QED
    BY <1>1, <1>2, <1>3, <1>4

\* What an executed transaction has left stands.
LEMMA FinishedLasts ==
    ASSUME TypeOK, ExecutorInv, WaitInv, MemoryInv, PevmTypeOK, MayFail = Txs,
           Restartable = Nat, ExecutionInv, NEW w \in Workers, WorkerStep(w),
           NEW t \in Txs, Finished(t)'
    PROVE  Lasting(t)'
<1>1. [Next]_vars /\ DOMAIN execution_results = Txs
    BY PevmWorker DEF ExecutionInv
<1>2. CASE Finished(t)
    <2>1. ~Touches(w, t) /\ Lasting(t)
        BY <1>2, Untouched DEF ExecutionInv
    <2> QED
        BY <1>1, <2>1, OutcomeStep
<1>3. CASE ~Finished(t)
    <2>1. PICK v \in Workers : SetExecuted(v) /\ tx_idx[v] = t
        BY <1>1, <1>3, FinishSteps
    <2>2. At(v, "finish_exec") /\ Runs(v)
        BY <2>1, Guards DEF At, Runs
    <2>3. Lasting(t)
        BY <2>1, <2>2 DEF ExecutionInv, Executes
    <2>4. ~Touches(w, t)
        BY <2>1, <2>2, Untouched
    <2> QED
        BY <1>1, <2>3, <2>4, OutcomeStep
<1> QED
    BY <1>2, <1>3

\* There is a result for each transaction.
LEMMA ResultsDomain ==
    ASSUME NEW w \in Workers, WorkerStep(w)
    PROVE  DOMAIN execution_results' = DOMAIN execution_results
<1>1. CASE StoreResult(w)
    BY <1>1 DEF StoreResult
<1>2. StoreResult(w) \/ execution_results' = execution_results
    BY ZenonT(60) DEF WorkerStep, LocalAccess, Retry, BlockedRead, Read, AwaitFunds,
       Rejected, StorageFails, RecordWrite, RecordLock, RecordRemove, RecordDone,
       ValidateLock, ValidateLocation, ValidateFails, ValidateDone, EstimateLock,
       EstimateLocation, EstimateDone
<1> QED
    BY <1>1, <1>2

\* A step keeps the invariant.
LEMMA ValuesStep ==
    ASSUME VmSound, TypeOK, TypeOK', ExecutorInv, WaitInv, MemoryInv, PevmTypeOK,
           MayFail = Txs, Restartable = Nat, ValuesInv, ExecutionInv,
           [PevmNext]_pevmVars
    PROVE  ValuesInv' /\ ExecutionInv'
<1>1. CASE UNCHANGED pevmVars
    <2>1. UNCHANGED <<vars, memoryVars, run, execution_results>>
        BY <1>1 DEF pevmVars
    <2>2. /\ pc' = pc /\ tx_idx' = tx_idx /\ status' = status
          /\ incarnation' = incarnation /\ tx_incarnation' = tx_incarnation
          /\ run' = run /\ execution_results' = execution_results
          /\ data' = data /\ last_locations' = last_locations
        BY <2>1 DEF vars, memoryVars, versionVars, sharedVars, statusVars
    <2>3. ASSUME NEW l, NEW i, NEW inc PROVE Past(l, i, inc)' <=> Past(l, i, inc)
        BY <2>2 DEF Past, HasWritten, At
    <2>4. ASSUME NEW l, NEW origins, NEW value
          PROVE  ReadMeans(l, origins, value)' <=> ReadMeans(l, origins, value)
        BY <2>2 DEF ReadMeans, Present, Summable, OriginsValue, LazySum, IsData
    <2>5. ASSUME NEW l, NEW t, NEW origins
          PROVE  ReadPast(l, t, origins)' <=> ReadPast(l, t, origins)
        BY <2>3 DEF ReadPast
    <2>6. ASSUME NEW t, Lasting(t) PROVE Lasting(t)'
        <3>1. Outcome(t)'
            <4>1. ASSUME NEW inc, NEW ws, InMemory(t, inc, ws) PROVE InMemory(t, inc, ws)'
                BY <2>2, <4>1 DEF InMemory, HoldsWrite, Data, Absent
            <4> QED
                BY <2>2, <2>4, <2>6, <4>1 DEF Lasting, Outcome
        <3> QED
            BY <2>2, <2>5, <2>6, <3>1 DEF Lasting
    <2>7. \A l \in Locs, t \in Txs : Settled(l, t)'
        BY <2>2, <2>3 DEF ValuesInv, Settled, IsData, Absent, Estimate
    <2>8. ASSUME NEW w \in Workers PROVE Follows(w)'
        <3>1. Follows(w) /\ Writes(w)' = Writes(w)
            BY <2>2, SameWrites DEF ValuesInv, ExecutionInv, Follows
        <3>2. CallReads(w)'
            BY <2>2, <2>4, <2>5, <3>1 DEF Follows, CallReads, ReadStands
        <3>3. CallWrites(w)'
            BY <2>2, <3>1 DEF Follows, CallWrites, Recording, HoldsWrite, Data
        <3>4. Executes(w)'
            BY <2>2, <2>6, <3>1 DEF Follows, Executes, Doing, At, Recording, Result
        <3> QED
            BY <2>2, <3>1, <3>2, <3>3, <3>4 DEF Follows, At, Fresh
    <2>9. \A t \in Txs : Finished(t)' => Lasting(t)'
        BY <2>2, <2>6 DEF ExecutionInv, Finished
    <2> QED
        BY <2>2, <2>7, <2>8, <2>9 DEF ValuesInv, ExecutionInv, Follows
<1>2. ASSUME NEW w \in Workers, WorkerStep(w) PROVE ValuesInv' /\ ExecutionInv'
    <2>1. /\ DOMAIN execution_results = Txs
          /\ \A l \in Locs, t \in Txs : Settled(l, t)
          /\ \A v \in Workers : Follows(v)
        BY DEF ValuesInv, ExecutionInv, Follows
    <2>2. \A l \in Locs, t \in Txs : Settled(l, t)'
        BY <1>2, <2>1, SettledStep
    <2>3. ASSUME NEW v \in Workers PROVE Follows(v)'
        <3>1. CASE v = w
            BY <1>2, <2>1, <3>1, OwnFollows
        <3>2. CASE v # w
            BY <1>2, <2>1, <3>2, OthersFollow
        <3> QED
            BY <3>1, <3>2
    <2>4. DOMAIN execution_results' = Txs
        BY <1>2, <2>1, ResultsDomain
    <2>5. \A t \in Txs : Finished(t)' => Lasting(t)'
        BY <1>2, FinishedLasts
    <2> QED
        BY <2>2, <2>3, <2>4, <2>5 DEF ValuesInv, ExecutionInv, Follows
<1> QED
    BY <1>1, <1>2 DEF PevmNext

\* At first nothing is executed.
LEMMA ValuesStart == VmSound /\ PevmInit => ValuesInv /\ ExecutionInv
<1> SUFFICES ASSUME VmSound, PevmInit PROVE ValuesInv /\ ExecutionInv
    OBVIOUS
<1>1. /\ run = [w \in Workers |-> Idle] /\ DOMAIN execution_results = Txs
      /\ data = [l \in Locs |-> [t \in Txs |->
                   IF l = Beneficiary THEN Estimate ELSE Absent]]
      /\ \A w \in Workers : pc[w] = "next"
      /\ \A t \in Txs : status[t] \in {"Aborting", "ReadyToExecute"}
    BY DEF PevmInit, MemoryInit, Init
<1>2. \A l \in Locs, t \in Txs : Settled(l, t)
    <2>1. \A l \in Locs, t \in Txs : data[l][t] = IF l = Beneficiary THEN Estimate ELSE Absent
        BY <1>1
    <2> QED
        BY <2>1 DEF Settled
<1>3. ASSUME NEW w \in Workers PROVE Follows(w)
    <2>1. run[w] = Idle
        BY <1>1
    <2>2. Fresh(run[w]) /\ run[w].stage = "idle"
        BY <2>1, SMTT(30) DEF Idle, Fresh
    <2>3. CallReads(w)
        <3>1. DOMAIN <<>> = {}
            BY SMTT(30)
        <3> QED
            BY <2>2, <3>1 DEF Fresh, CallReads
    <2> QED
        BY <1>1, <2>2, <2>3 DEF Follows, CallWrites, Recording, Executes, Doing, At
<1>4. \A t \in Txs : ~Finished(t)
    BY <1>1 DEF Finished
<1> QED
    BY <1>1, <1>2, <1>3, <1>4 DEF ValuesInv, ExecutionInv, Follows

\* The first transaction has read from the storage only: its reads stay valid.
LEMMA FirstReadsValid ==
    ASSUME 0 \in Txs, Lasting(0), NEW l \in DOMAIN last_locations[0].read
    PROVE  ReadValid(l, 0)
<1>1. PICK origins : origins = last_locations[0].read[l]
    OBVIOUS
<1>2. \A i : i \notin 0 .. (0 - 1)
    BY SMTT(30)
<1>3. origins.mv = {} /\ Written(l, 0) = {}
    BY <1>1, <1>2 DEF Lasting, ReadPast, Written
<1> QED
    BY <1>1, <1>3 DEF ReadValid, OriginsStillValid

=============================================================================
