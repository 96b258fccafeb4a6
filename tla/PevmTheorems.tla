---------------------------- MODULE PevmTheorems -----------------------------
(***************************************************************************)
(* What is proved of Pevm, for every block, number of workers and chain    *)
(* state: the memory holds the writes of the latest incarnations and keeps *)
(* its types, the guarantees of the scheduler carry over, what the         *)
(* transactions have read is what is there when the workers have left, and *)
(* the results, or the rejection, are those of the sequential execution.   *)
(***************************************************************************)
EXTENDS PevmReadsProofs, PevmValuesProofs, SerialProofs, SchedulerTheorems

USE ZenonT(60) DEF Goto, At, sharedVars, idxVars, statusVars, depVars, resultVars, versionVars

-----------------------------------------------------------------------------
(***************************************************************************)
(* The theorems.                                                           *)
(***************************************************************************)

\* A transaction that is executed has in memory exactly the writes it recorded
\* last, by its current incarnation, although record and
\* convert_writes_to_estimates touch one location at a time.
THEOREM MemoryMatchesWriteSetCorrect ==
    ASSUME MayFail = Txs, Restartable = Nat
    PROVE  PevmSpec => []MemoryMatchesWriteSet
<1> DEFINE I == /\ TypeOK /\ NumValidatedExact /\ ExecutorInv /\ WaitInv
                /\ MemoryInv
<1>1. PevmInit => I
    <2>1. Init => ExecutorInv
        BY DEF Init, ExecutorInv, SingleExecutor, Runs
    <2> QED
        BY <2>1, TypeInit, NumValidatedInit, WaitInit, MemoryStart DEF PevmInit
<1>2. I /\ [PevmNext]_pevmVars => I'
    BY SimulationStep, TypeStep, NumValidatedStep, ExecutorStep, WaitStep, MemoryStep
<1>3. I => MemoryMatchesWriteSet
    BY DEF MemoryInv
<1> QED
    BY <1>1, <1>2, <1>3, PTL DEF PevmSpec

\* The workers leave with every transaction executed, and an executed one has
\* no ESTIMATE: the evaluation of the lazy balances at the end of execute_revm
\* meets values only.  As for AllFinishedAtExit, counted dependencies and more
\* than two workers are excluded: a wake-up may then be lost.
THEOREM EvaluationSafeCorrect ==
    ASSUME MayFail = Txs, Restartable = Nat,
           Counted = {} \/ Cardinality(Workers) <= 2
    PROVE  PevmSpec => []EvaluationSafe
<1>1. AllFinishedAtExit /\ MemoryMatchesWriteSet => EvaluationSafe
    BY DEF AllFinishedAtExit, MemoryMatchesWriteSet, Matches, Recorded,
       EvaluationSafe, AllDone
<1> QED
    BY <1>1, MemoryMatchesWriteSetCorrect, PevmImplementsScheduler,
       AllFinishedAtExitCorrect, PTL

\* No worker of the executor reaches an unreachable!() of the scheduler, and
\* every change of a status is one that scheduler.rs documents, whatever the
\* transactions read, write or fail on.
THEOREM PevmStatusesSafe ==
    ASSUME MayFail = Txs, Restartable = Nat
    PROVE  PevmSpec => []NoPanic /\ StatusMachine
BY PevmImplementsScheduler, NoPanicCorrect, StatusMachineCorrect, PTL

\* The executor implements the board of tasks: with the answers computed by the
\* virtual machine and the memory too, each transaction has one owner at a time
\* and the last worker leaves with everything finished, or after an error
\* (execute_revm of pevm.rs).  The condition is that of the scheduler.
THEOREM PevmRefinesTaskBoard ==
    ASSUME MayFail = Txs, Restartable = Nat,
           Counted = {} \/ Cardinality(Workers) <= 2
    PROVE  PevmSpec => ImplementsTaskBoard
BY PevmImplementsScheduler, SchedulerRefinesTaskBoard, PTL

\* The memory and the calls keep their types: an account has full values and
\* lazy additions, a slot has values, and what is read, written, recorded and
\* looped over are locations, whichever accesses of the transactions interleave
\* (VmDb, mv_memory.rs).
THEOREM PevmTypeCorrect ==
    ASSUME MayFail = Txs, Restartable = Nat
    PROVE  PevmSpec => []PevmTypeOK
<1> DEFINE I == /\ TypeOK /\ NumValidatedExact /\ ExecutorInv /\ WaitInv
                /\ MemoryInv /\ PevmTypeOK
<1>1. PevmInit => I
    <2>1. Init => ExecutorInv
        BY DEF Init, ExecutorInv, SingleExecutor, Runs
    <2> QED
        BY <2>1, TypeInit, NumValidatedInit, WaitInit, MemoryStart, PevmTypeStart
        DEF PevmInit
<1>2. I /\ [PevmNext]_pevmVars => I'
    BY SimulationStep, TypeStep, NumValidatedStep, ExecutorStep, WaitStep, MemoryStep,
       PevmTypeStep
<1> QED
    BY <1>1, <1>2, PTL DEF PevmSpec

\* When all workers have left, nobody is going to look at a read again.
LEMMA ExitReads ==
    ASSUME TypeOK, StopConditionSound, LastLooksAgain, MemoryInv, ValidationInv
    PROVE  ReadsFinal
<1>1. SUFFICES ASSUME \A w \in Workers : pc[w] = "done", ~execution_error,
                      NEW t \in Txs, t >= min_validation_idx,
                      NEW l \in DOMAIN last_locations[t].read
               PROVE  ReadValid(l, t)
    BY DEF ReadsFinal, AllDone
<1>2. AllValidated
    BY <1>1 DEF LastLooksAgain, UpToDate
<1>3. Finished(t)
    BY <1>1, <1>2 DEF AllValidated, StopConditionSound, Finished
<1>4. ~(validation_idx <= t)
    BY <1>2, TxsFacts, IndexTypes, SMTT(60) DEF AllValidated, Txs
<1>5. \A w \in Workers : ~Rechecks(w, l, t)
    BY <1>1 DEF Rechecks, Checks, WillLower, Finishing, MemoryInv, CallInv
<1> QED
    BY <1>1, <1>3, <1>4, <1>5 DEF ValidationInv, ReadsChecked

\* When the workers have left without an error, every transaction that had to be
\* validated has read what the memory holds: no write was missed.
THEOREM ReadsFinalCorrect ==
    ASSUME MayFail = Txs, Restartable = Nat
    PROVE  PevmSpec => []ReadsFinal
<1> DEFINE I == /\ TypeOK /\ NumValidatedExact /\ MinInv /\ ExecutorInv /\ WaitInv
                /\ MemoryInv /\ PevmTypeOK /\ ValidationInv
<1>1. PevmInit => I
    <2>1. Init => ExecutorInv /\ MinInv
        BY TxsFacts, SMTT(60) DEF Init, ExecutorInv, SingleExecutor, Runs, MinInv,
           Validates
    <2> QED
        BY <2>1, TypeInit, NumValidatedInit, WaitInit, MemoryStart, PevmTypeStart,
           ValidationStart DEF PevmInit
<1>2. I /\ [PevmNext]_pevmVars => I'
    <2> SUFFICES ASSUME I, [PevmNext]_pevmVars PROVE I'
        OBVIOUS
    <2>1. [Next]_vars
        BY SimulationStep
    <2>2. TypeOK' /\ NumValidatedExact' /\ MinInv' /\ ExecutorInv' /\ WaitInv'
        BY <2>1, TypeStep, NumValidatedStep, MinStep, ExecutorStep, WaitStep
    <2>3. MemoryInv' /\ PevmTypeOK' /\ ValidationInv'
        BY <2>2, MemoryStep, PevmTypeStep, ValidationStep
    <2> QED
        BY <2>2, <2>3
<1>3. I /\ StopConditionSound /\ LastLooksAgain => ReadsFinal
    BY ExitReads
<1> HIDE DEF I
<1> QED
    BY <1>1, <1>2, <1>3, PevmImplementsScheduler, StopConditionCorrect,
       LastLooksAgainCorrect, PTL DEF PevmSpec

-----------------------------------------------------------------------------
(***************************************************************************)
(* The results are those of the sequential execution.                      *)
(***************************************************************************)

\* What an executed transaction has recorded in the memory and in the results is
\* what the sequential execution makes of the values that it read.
LEMMA ExecutionCorrect ==
    ASSUME MayFail = Txs, Restartable = Nat
    PROVE  PevmSpec => []ExecutionInv
<1> DEFINE I == /\ TypeOK /\ NumValidatedExact /\ ExecutorInv /\ WaitInv
                /\ MemoryInv /\ PevmTypeOK /\ ValuesInv /\ ExecutionInv
<1>1. PevmInit => I
    <2>1. Init => ExecutorInv
        BY DEF Init, ExecutorInv, SingleExecutor, Runs
    <2> QED
        BY <2>1, TypeInit, NumValidatedInit, WaitInit, MemoryStart, PevmTypeStart,
           VmIsSound, ValuesStart DEF PevmInit
<1>2. I /\ [PevmNext]_pevmVars => I'
    <2> SUFFICES ASSUME I, [PevmNext]_pevmVars PROVE I'
        OBVIOUS
    <2>1. [Next]_vars
        BY SimulationStep
    <2>2. TypeOK' /\ NumValidatedExact' /\ ExecutorInv' /\ WaitInv'
        BY <2>1, TypeStep, NumValidatedStep, ExecutorStep, WaitStep
    <2>3. MemoryInv' /\ PevmTypeOK'
        BY <2>2, MemoryStep, PevmTypeStep
    <2>4. ValuesInv' /\ ExecutionInv'
        BY <2>2, VmIsSound, ValuesStep
    <2> QED
        BY <2>2, <2>3, <2>4
<1> HIDE DEF I
<1>3. I => ExecutionInv
    BY DEF I
<1> QED
    BY <1>1, <1>2, <1>3, PTL DEF PevmSpec

\* So it is for the whole block, when the workers have left without an error and
\* what was read is what is there.
LEMMA SerialAtExit ==
    ASSUME Regular, TypeOK, ExecutionInv, AllFinishedAtExit, ReadsFinal,
           UnvalidatedReadsValid, AllDone, ~execution_error
    PROVE  /\ SequentiallyValid
           /\ \A t \in Txs :
                  /\ \A l \in Locs :
                         StateAfter(l, t) = Reported(l, SequentialState(t + 1)[l])
                  /\ FinalGas(t) = CumulativeGas(t + 1)
<1>1. \A t \in Txs : Outcome(t)
    BY DEF AllFinishedAtExit, AllDone, ExecutionInv, Lasting
<1>2. \A t \in Txs : t < min_validation_idx \/ t >= min_validation_idx
    BY IndexTypes, TxsFacts, SMTT(60) DEF TypeOK
<1>3. \A t \in Txs : \A l \in DOMAIN last_locations[t].read : ReadValid(l, t)
    <2>1. ASSUME 0 \in Txs PROVE \A l \in DOMAIN last_locations[0].read : ReadValid(l, 0)
        BY <2>1, FirstReadsValid DEF AllFinishedAtExit, AllDone, ExecutionInv
    <2>2. \A t \in Txs \ {0} : \A l \in DOMAIN last_locations[t].read : ReadValid(l, t)
        BY <1>2 DEF ReadsFinal, UnvalidatedReadsValid
    <2> QED
        BY <2>1, <2>2
<1> QED
    BY <1>1, <1>3, SerialResults

\* When the workers have left without an error, the state after each transaction
\* and the gas used are those of executing the block sequentially: for every
\* block that is regular, and every interleaving of the workers.  That the
\* transactions below min_validation_idx, but the first, have read what is there is
\* a hypothesis, since nobody validates them (next_validation_idx of vm.rs); the
\* condition on the workers is that of AllFinishedAtExit.
THEOREM SerialEquivalenceCorrect ==
    ASSUME MayFail = Txs, Restartable = Nat, Regular,
           Counted = {} \/ Cardinality(Workers) <= 2
    PROVE  PevmSpec => [](UnvalidatedReadsValid => SerialEquivalence)
<1>1. TypeOK /\ ExecutionInv /\ AllFinishedAtExit /\ ReadsFinal =>
          (UnvalidatedReadsValid => SerialEquivalence)
    BY SerialAtExit DEF SerialEquivalence
<1> QED
    BY <1>1, PevmImplementsScheduler, TypeCorrect, ExecutionCorrect,
       AllFinishedAtExitCorrect, ReadsFinalCorrect, PTL

\* In particular where every transaction but the first is validated: the results
\* are those of the sequential execution, whatever the transactions read and in
\* whichever order (the minimum is lowered by finish_execution of scheduler.rs).
THEOREM ValidatedBlockSerial ==
    ASSUME MayFail = Txs, Restartable = Nat, Regular,
           Counted = {} \/ Cardinality(Workers) <= 2
    PROVE  PevmSpec => [](min_validation_idx <= 1 => SerialEquivalence)
<1>1. TypeOK /\ min_validation_idx <= 1 => UnvalidatedReadsValid
    <2>1. ASSUME TypeOK, min_validation_idx <= 1, NEW t \in Txs \ {0}
          PROVE  ~(t < min_validation_idx)
        BY <2>1, IndexTypes, TxsFacts, SMTT(60) DEF TypeOK
    <2> QED
        BY <2>1 DEF UnvalidatedReadsValid
<1> QED
    BY <1>1, PevmImplementsScheduler, TypeCorrect, SerialEquivalenceCorrect, PTL

\* Under the same conditions a block that is not valid sequentially is rejected:
\* when the workers have left, and no matter which of them met the error first
\* (execute_revm of pevm.rs).
THEOREM NoFalseAcceptanceCorrect ==
    ASSUME MayFail = Txs, Restartable = Nat, Regular,
           Counted = {} \/ Cardinality(Workers) <= 2
    PROVE  PevmSpec => [](UnvalidatedReadsValid => NoFalseAcceptance)
<1>1. TypeOK /\ ExecutionInv /\ AllFinishedAtExit /\ ReadsFinal /\ BoardInv =>
          (UnvalidatedReadsValid => NoFalseAcceptance)
    <2>1. SUFFICES ASSUME TypeOK, ExecutionInv, AllFinishedAtExit, ReadsFinal, BoardInv,
                          UnvalidatedReadsValid, ~execution_error,
                          \A w \in Workers : Stopped(w)
                   PROVE  SequentiallyValid
        BY DEF NoFalseAcceptance
    <2>2. AllDone
        BY <2>1 DEF BoardInv, NoPanic, ErrorInv, Stopped, AllDone
    <2> QED
        BY <2>1, <2>2, SerialAtExit
<1> QED
    BY <1>1, PevmImplementsScheduler, TypeCorrect, BoardInvCorrect, ExecutionCorrect,
       AllFinishedAtExitCorrect, ReadsFinalCorrect, PTL

\* and a step keeps the invariant.
LEMMA NonceStep ==
    ASSUME NoncesKept, SendersApart, VmSound, TypeOK, MemoryInv, PevmTypeOK, ValuesInv,
           NonceInv, MayFail = Txs, Restartable = Nat, [PevmNext]_pevmVars
    PROVE  NonceInv'
<1>1. CASE UNCHANGED pevmVars
    <2>1. data' = data /\ run' = run /\ tx_idx' = tx_idx
        BY <1>1 DEF pevmVars, vars, memoryVars, versionVars
    <2> QED
        BY <2>1 DEF NonceInv
<1>2. ASSUME NEW w \in Workers, WorkerStep(w) PROVE NonceInv'
    <2>1. \A t, u \in Txs : u < t /\ data'[From(t)][u].kind = "basic" =>
              FirstNonce(t, data'[From(t)][u].value)
        BY <1>2, EntryNonce
    <2>2. ASSUME NEW v \in Workers, NEW t \in Txs, tx_idx'[v] < t,
                 From(t) \in DOMAIN run'[v].view
          PROVE  FirstNonce(t, run'[v].view[From(t)])
        <3>1. CASE v = w
            BY <1>2, <2>2, <3>1, OwnNonce
        <3>2. CASE v # w
            <4>1. tx_idx'[v] = tx_idx[v] /\ run'[v] = run[v]
                BY <1>2, <3>2, PevmWorker DEF OthersGoOn
            <4> QED
                BY <2>2, <4>1 DEF NonceInv
        <3> QED
            BY <3>1, <3>2
    <2> QED
        BY <2>1, <2>2 DEF NonceInv
<1> QED
    BY <1>1, <1>2 DEF PevmNext

\* At first nothing is known of any account.
LEMMA NonceStart == PevmInit => NonceInv
<1> SUFFICES ASSUME PevmInit PROVE NonceInv
    OBVIOUS
<1>1. \A w \in Workers : DOMAIN run[w].view = {}
    <2>1. run = [w \in Workers |-> Idle]
        BY DEF PevmInit
    <2>2. Idle.view = <<>> /\ DOMAIN <<>> = {}
        BY SMTT(30) DEF Idle
    <2> QED
        BY <2>1, <2>2
<1>2. \A l \in Locs, t \in Txs : data[l][t].kind # "basic"
    <2>1. Absent.kind = "absent" /\ Estimate.kind = "estimate"
        BY SMTT(30) DEF Absent, Estimate
    <2>2. \A l \in Locs, t \in Txs : data[l][t] \in {Absent, Estimate}
        BY DEF PevmInit, MemoryInit
    <2> QED
        BY <2>1, <2>2
<1> QED
    BY <1>1, <1>2, SenderFacts DEF NonceInv

\* In a block that is valid sequentially, whose senders are apart, the checks hold.
LEMMA NotRejected ==
    ASSUME NoncesKept, VmSound, TypeOK, PevmTypeOK, ValuesInv, NonceInv,
           \A t \in Txs : NonceFits(t, ChainState[From(t)]),
           FundsSuffice(0, FoundValue(From(0), 0)), NEW w \in Workers
    PROVE  ~Rejected(w)
<1> SUFFICES ASSUME Rejected(w) PROVE FALSE
    OBVIOUS
<1>1. PICK t, i, n : t = tx_idx[w] /\ i = Access(w) /\ n = run[w].step
    OBVIOUS
<1>2. /\ t \in Txs /\ Accessing(w) /\ i.op = "debit" /\ ~Blocked(i.loc, t)
      /\ ~NonceFits(t, FoundValue(i.loc, t)) \/
         (~FundsSuffice(t, FoundValue(i.loc, t)) /\ t = 0)
    BY <1>1 DEF TypeOK, Rejected, Answered, Asking, BadNonce, LacksFunds, Answer
<1>3. i.loc = From(t)
    <2>1. Len(VmAccesses[t]) \in Nat /\ n \in Nat \ {0} /\ n <= Len(VmAccesses[t])
        BY <1>1, <1>2 DEF VmSound, VmStarts, Accessing, PevmTypeOK
    <2>2. n \in 1 .. Len(VmAccesses[t])
        BY <2>1, SMTT(30)
    <2> QED
        BY <1>1, <1>2, <2>2 DEF NoncesKept, Access
<1>4. FirstNonce(t, FoundValue(From(t), t))
    <2>1. t <= t
        BY <1>2, LowerIndex
    <2> QED
        BY <1>2, <1>3, <2>1, FoundNonce DEF ValuesInv
<1>5. NonceFits(t, FoundValue(From(t), t))
    BY <1>2, <1>4 DEF FirstNonce, NonceFits
<1> QED
    BY <1>2, <1>3, <1>5

\* A step sets no error where the checks of the EVM hold and the storage answers.
LEMMA NoErrorStep ==
    ASSUME NoncesKept, TypeOK, MemoryInv, PevmTypeOK, ValuesInv, NonceInv,
           MayFail = Txs, Restartable = Nat, ~StorageMayFail,
           \A t \in Txs : NonceFits(t, ChainState[From(t)]),
           FundsSuffice(0, FoundValue(From(0), 0)),
           ~execution_error, [PevmNext]_pevmVars
    PROVE  ~execution_error'
<1>1. CASE UNCHANGED pevmVars
    BY <1>1 DEF pevmVars, vars
<1>2. ASSUME NEW w \in Workers, WorkerStep(w) PROVE ~execution_error'
    <2>1. ~Rejected(w)
        BY VmIsSound, NotRejected
    <2>2. ~StorageFails(w)
        BY DEF StorageFails
    <2> QED
        BY <1>2, <2>1, <2>2, ErrorSetters
<1> QED
    BY <1>1, <1>2 DEF PevmNext

\* A block that is valid sequentially is not rejected, whatever the workers read and
\* in whichever order, if the storage answers and the senders are apart.  They have
\* to be: a transaction that credits a sender writes the nonce that it has read, be
\* it from before a lower transaction of that sender, and a higher one that meets
\* it is rejected for good (Vm::execute retries a lack of funds only).
THEOREM NoFalseRejectionCorrect ==
    ASSUME MayFail = Txs, Restartable = Nat, ~StorageMayFail, SendersApart
    PROVE  PevmSpec => []NoFalseRejection
<1>1. CASE ~SequentiallyValid
    <2>1. NoFalseRejection
        BY <1>1 DEF NoFalseRejection
    <2> QED
        BY <2>1, PTL
<1>2. CASE SequentiallyValid
    <2> DEFINE I == /\ TypeOK /\ NumValidatedExact /\ ExecutorInv /\ WaitInv
                    /\ MemoryInv /\ PevmTypeOK /\ ValuesInv /\ ExecutionInv
                    /\ NonceInv /\ ~execution_error
    <2>1. PevmInit => I
        <3>1. Init => ExecutorInv /\ ~execution_error
            BY DEF Init, ExecutorInv, SingleExecutor, Runs
        <3> QED
            BY <3>1, TypeInit, NumValidatedInit, WaitInit, MemoryStart, PevmTypeStart,
               VmIsSound, ValuesStart, NonceStart DEF PevmInit
    <2>2. I /\ [PevmNext]_pevmVars => I'
        <3> SUFFICES ASSUME I, [PevmNext]_pevmVars PROVE I'
            OBVIOUS
        <3>1. [Next]_vars
            BY SimulationStep
        <3>2. TypeOK' /\ NumValidatedExact' /\ ExecutorInv' /\ WaitInv'
            BY <3>1, TypeStep, NumValidatedStep, ExecutorStep, WaitStep
        <3>3. MemoryInv' /\ PevmTypeOK'
            BY <3>2, MemoryStep, PevmTypeStep
        <3>4. ValuesInv' /\ ExecutionInv'
            BY <3>2, VmIsSound, ValuesStep
        <3>5. NonceInv'
            BY VmIsSound, NoncesAreKept, NonceStep
        <3>6. ~execution_error'
            <4>1. \A t \in Txs : NonceFits(t, ChainState[From(t)])
                BY <1>2, FirstChecks
            <4>2. FundsSuffice(0, FoundValue(From(0), 0))
                BY <1>2, FirstFunds
            <4>3. /\ NoncesKept /\ TypeOK /\ MemoryInv /\ PevmTypeOK /\ ValuesInv
                  /\ NonceInv /\ ~execution_error
                BY NoncesAreKept
            <4> HIDE DEF I
            <4> QED
                BY <4>1, <4>2, <4>3, NoErrorStep
        <3> QED
            BY <3>2, <3>3, <3>4, <3>5, <3>6
    <2> HIDE DEF I
    <2>3. I => NoFalseRejection
        BY DEF I, NoFalseRejection
    <2> QED
        BY <2>1, <2>2, <2>3, PTL DEF PevmSpec
<1> QED
    BY <1>1, <1>2

=============================================================================
