-------------------------------- MODULE Pevm --------------------------------
(***************************************************************************)
(* The parallel executor (src/src/pevm.rs): the workers of Scheduler, with *)
(* the answers its environment left open computed by the virtual machine   *)
(* (Vm) from the multi-version memory (MvMemory).                          *)
(***************************************************************************)
EXTENDS Scheduler, Results

CONSTANT StorageMayFail  \* whether a read of the storage may return an error

VARIABLE run   \* what each worker's current call is doing

pevmVars == <<vars, memoryVars, run, execution_results>>

\* A call in progress: an execution reads (step, origins, values, view, gas) and
\* then records; todo is what a loop over locations has left.
Idle == [stage |-> "idle", step |-> 1, origins |-> <<>>, values |-> <<>>,
         view |-> <<>>, gas |-> 1, todo |-> {}]

SetRun(w, r) == run' = [run EXCEPT ![w] = r]

\* record, validate_read_locations and convert_writes_to_estimates hold the
\* Mutex of the transaction's last locations over their loops.
LastLocationsLocked(t) ==
    \E v \in Workers : /\ run[v].stage \in {"removing", "checking", "estimating"}
                       /\ tx_idx[v] = t

Doing(w, label, stage) == At(w, label) /\ run[w].stage = stage

-----------------------------------------------------------------------------
(***************************************************************************)
(* try_execute: Vm::execute, one access at a time.                         *)
(***************************************************************************)

Access(w) == VmAccesses[tx_idx[w]][run[w].step]

\* The location has to be asked of VmDb: REVM's journal does not hold it, or it
\* asks again.
AsksDb(w) == Access(w).loc \notin DOMAIN run[w].view \/ Access(w).op = "reread"

Accessing(w) ==
    /\ Doing(w, "execute", "idle")
    /\ run[w].step <= Len(VmAccesses[tx_idx[w]])

IsSkipped(w) == Skipped(tx_idx[w], Access(w), run[w].view)

IsReread(w) == Access(w).loc \in DOMAIN run[w].origins

\* An access whose value is at hand: nothing is read.
LocalAccess(w) ==
    /\ Accessing(w)
    /\ IsSkipped(w) \/ ~AsksDb(w)
    /\ SetRun(w, [run[w] EXCEPT
           !.step = @ + 1,
           !.view = IF IsSkipped(w) THEN @ ELSE Apply(tx_idx[w], Access(w), @),
           !.gas  = IF IsSkipped(w) THEN @ ELSE @ + GasOf(Access(w))])
    /\ UNCHANGED <<vars, memoryVars, execution_results>>

Asking(w) == Accessing(w) /\ ~IsSkipped(w) /\ AsksDb(w)

IsInconsistent(w) ==
    /\ IsReread(w)
    /\ LET l == Access(w).loc
       IN  Inconsistent(l, tx_idx[w], run[w].origins[l])

\* ReadError::InconsistentRead: the execution starts over.
Retry(w) ==
    /\ Asking(w)
    /\ IsInconsistent(w)
    /\ SetRun(w, Idle)
    /\ UNCHANGED <<vars, memoryVars, execution_results>>

\* ReadError::BlockingIndex.
BlockedRead(w) ==
    LET l == Access(w).loc
        t == tx_idx[w]
    IN  /\ Asking(w)
        /\ ~IsInconsistent(w)
        /\ Blocked(l, t)
        /\ VmReadError(w, BlockingIdx(l, t))
        /\ SetRun(w, Idle)
        /\ UNCHANGED <<memoryVars, execution_results>>

\* The read succeeds with this value.
Answered(w) ==
    Asking(w) /\ ~IsInconsistent(w) /\ ~Blocked(Access(w).loc, tx_idx[w])
Answer(w) == FoundValue(Access(w).loc, tx_idx[w])

\* The EVM's checks on the sender.
BadNonce(w) == Access(w).op = "debit" /\ ~NonceFits(tx_idx[w], Answer(w))
LacksFunds(w) == /\ Access(w).op = "debit"
                 /\ NonceFits(tx_idx[w], Answer(w))
                 /\ ~FundsSuffice(tx_idx[w], Answer(w))

Read(w) ==
    LET i     == Access(w)
        t     == tx_idx[w]
        view  == IF i.op = "reread" THEN run[w].view
                 ELSE Put(run[w].view, i.loc, Answer(w))
    IN  /\ Answered(w)
        /\ ~BadNonce(w) /\ ~LacksFunds(w)
        /\ SetRun(w, [run[w] EXCEPT
               !.step = @ + 1,
               !.origins = Put(@, i.loc, FoundOrigins(i.loc, t)),
               !.values = Put(@, i.loc, Answer(w)),
               !.view = Apply(t, i, view),
               !.gas = @ + GasOf(i)])
        /\ UNCHANGED <<vars, memoryVars, execution_results>>

\* LackOfFundForMaxFee is taken for a lower transaction not yet executed.
AwaitFunds(w) ==
    /\ Answered(w)
    /\ LacksFunds(w) /\ tx_idx[w] > 0
    /\ VmReadError(w, tx_idx[w] - 1)
    /\ SetRun(w, Idle)
    /\ UNCHANGED <<memoryVars, execution_results>>

\* Mutant: a lack of funds is fatal wherever it is met.
RejectedAny(w) ==
    /\ Answered(w)
    /\ BadNonce(w) \/ LacksFunds(w)
    /\ VmExecutionError(w)
    /\ SetRun(w, Idle)
    /\ UNCHANGED <<memoryVars, execution_results>>

\* Any other error of the EVM is fatal.
Rejected(w) ==
    /\ Answered(w)
    /\ BadNonce(w) \/ (LacksFunds(w) /\ tx_idx[w] = 0)
    /\ VmExecutionError(w)
    /\ SetRun(w, Idle)
    /\ UNCHANGED <<memoryVars, execution_results>>

\* ReadError::StorageError is one of them.
StorageFails(w) ==
    /\ StorageMayFail
    /\ Asking(w)
    /\ ~IsInconsistent(w)
    /\ ReachesStorage(Access(w).loc, tx_idx[w])
    /\ VmExecutionError(w)
    /\ SetRun(w, Idle)
    /\ UNCHANGED <<memoryVars, execution_results>>

-----------------------------------------------------------------------------
(***************************************************************************)
(* try_execute on a result: store it, record the sets, finish_execution.   *)
(***************************************************************************)

\* view is what the transaction leaves.
WritesOf(w, view) == WriteSet(tx_idx[w], run[w].gas, run[w].values, view)
Writes(w) == WritesOf(w, run[w].view)

StoreResult(w) ==
    LET view == Refund(tx_idx[w], run[w].gas, run[w].view)
    IN  /\ Doing(w, "execute", "idle")
        /\ run[w].step > Len(VmAccesses[tx_idx[w]])
        /\ execution_results' = [execution_results EXCEPT
               ![tx_idx[w]] = [state |-> view, gas |-> run[w].gas]]
        /\ SetRun(w, [run[w] EXCEPT !.stage = "writing", !.view = view,
                                    !.todo = DOMAIN WritesOf(w, view)])
        /\ UNCHANGED <<vars, memoryVars>>

\* Here and below, l is one of the locations left to do.
RecordWrite(w, l) ==
    LET write == Writes(w)[l]
    IN  /\ Doing(w, "execute", "writing")
        /\ Insert(l, tx_idx[w], Data(write.kind, tx_incarnation[w], write.value))
        /\ SetRun(w, [run[w] EXCEPT !.todo = @ \ {l}])
        /\ UNCHANGED <<vars, last_locations, execution_results>>

\* Mutant: nothing is removed.
StaleWritesNone(w) == {}

\* What the previous incarnation wrote and this one did not.
StaleWrites(w) == last_locations[tx_idx[w]].write \ DOMAIN Writes(w)

RecordLock(w) ==
    /\ Doing(w, "execute", "writing")
    /\ run[w].todo = {}
    /\ ~LastLocationsLocked(tx_idx[w])
    /\ SetRun(w, [run[w] EXCEPT !.stage = "removing", !.todo = StaleWrites(w)])
    /\ UNCHANGED <<vars, memoryVars, execution_results>>

RecordRemove(w, l) ==
    /\ Doing(w, "execute", "removing")
    /\ Remove(l, tx_idx[w])
    /\ SetRun(w, [run[w] EXCEPT !.todo = @ \ {l}])
    /\ UNCHANGED <<vars, last_locations, execution_results>>

RecordDone(w) ==
    LET t      == tx_idx[w]
        writes == DOMAIN Writes(w)
    IN  /\ Doing(w, "execute", "removing")
        /\ run[w].todo = {}
        /\ SetLastLocations(t, run[w].origins, writes)
        /\ VmOk(w, WroteNewLocation(t, writes),
                NextValidationIdx(t, DOMAIN run[w].origins, writes))
        /\ SetRun(w, Idle)
        /\ UNCHANGED <<data, execution_results>>

-----------------------------------------------------------------------------
(***************************************************************************)
(* try_validate: validate_read_locations, convert_writes_to_estimates.     *)
(***************************************************************************)

ValidateLock(w) ==
    /\ Doing(w, "validate", "idle")
    /\ ~LastLocationsLocked(tx_idx[w])
    /\ SetRun(w, [Idle EXCEPT !.stage = "checking",
                              !.todo = DOMAIN last_locations[tx_idx[w]].read])
    /\ UNCHANGED <<vars, memoryVars, execution_results>>

ValidateLocation(w, l) ==
    /\ Doing(w, "validate", "checking")
    /\ ReadValid(l, tx_idx[w])
    /\ SetRun(w, [run[w] EXCEPT !.todo = @ \ {l}])
    /\ UNCHANGED <<vars, memoryVars, execution_results>>

ValidateFails(w, l) ==
    /\ Doing(w, "validate", "checking")
    /\ ~ReadValid(l, tx_idx[w])
    /\ ReadSetInvalid(w)
    /\ SetRun(w, Idle)
    /\ UNCHANGED <<memoryVars, execution_results>>

ValidateDone(w) ==
    /\ Doing(w, "validate", "checking")
    /\ run[w].todo = {}
    /\ ReadSetValid(w)
    /\ SetRun(w, Idle)
    /\ UNCHANGED <<memoryVars, execution_results>>

EstimateLock(w) ==
    /\ Doing(w, "estimate", "idle")
    /\ ~LastLocationsLocked(tx_idx[w])
    /\ SetRun(w, [Idle EXCEPT !.stage = "estimating",
                              !.todo = last_locations[tx_idx[w]].write])
    /\ UNCHANGED <<vars, memoryVars, execution_results>>

EstimateLocation(w, l) ==
    /\ Doing(w, "estimate", "estimating")
    /\ MarkEstimate(l, tx_idx[w])
    /\ SetRun(w, [run[w] EXCEPT !.todo = @ \ {l}])
    /\ UNCHANGED <<vars, last_locations, execution_results>>

EstimateDone(w) ==
    /\ Doing(w, "estimate", "estimating")
    /\ run[w].todo = {}
    /\ EstimatesWritten(w)
    /\ SetRun(w, Idle)
    /\ UNCHANGED <<memoryVars, execution_results>>

-----------------------------------------------------------------------------
PevmInit ==
    /\ Init
    /\ MemoryInit
    /\ run = [w \in Workers |-> Idle]
    /\ execution_results = [t \in Txs |-> [state |-> <<>>, gas |-> 0]]

WorkerStep(w) ==
    \/ SchedulerStep(w) /\ UNCHANGED <<memoryVars, run, execution_results>>
    \/ LocalAccess(w)
    \/ Retry(w)
    \/ BlockedRead(w)
    \/ Read(w)
    \/ AwaitFunds(w)
    \/ Rejected(w)
    \/ StorageFails(w)
    \/ StoreResult(w)
    \/ \E l \in run[w].todo : RecordWrite(w, l)
    \/ RecordLock(w)
    \/ \E l \in run[w].todo : RecordRemove(w, l)
    \/ RecordDone(w)
    \/ ValidateLock(w)
    \/ \E l \in run[w].todo : ValidateLocation(w, l)
    \/ \E l \in run[w].todo : ValidateFails(w, l)
    \/ ValidateDone(w)
    \/ EstimateLock(w)
    \/ \E l \in run[w].todo : EstimateLocation(w, l)
    \/ EstimateDone(w)

PevmNext ==
    \/ \E w \in Workers : WorkerStep(w)
    \/ Terminated /\ UNCHANGED pevmVars

PevmSpec == PevmInit /\ [][PevmNext]_pevmVars

\* thread::scope spawns OS threads: each one keeps running.
FairPevmSpec == PevmSpec /\ \A w \in Workers : WF_pevmVars(WorkerStep(w))

-----------------------------------------------------------------------------
(***************************************************************************)
(* Properties.                                                             *)
(***************************************************************************)

AllDone == \A w \in Workers : At(w, "done")

\* The variables of the memory and of the calls have their types.
PevmTypeOK ==
    /\ TypeOK
    /\ \A l \in Locs, t \in Txs :
           data[l][t].kind \in {"absent", "estimate"}
               \cup (IF l \in Accounts THEN {"basic", "lazy"} ELSE {"storage"})
    /\ \A t \in Txs : /\ DOMAIN last_locations[t].read \subseteq Locs
                      /\ last_locations[t].write \subseteq Locs
    /\ \A w \in Workers :
           /\ run[w].stage \in {"idle", "writing", "removing", "checking", "estimating"}
           /\ run[w].step \in Nat \ {0} /\ run[w].todo \subseteq Locs
           /\ DOMAIN run[w].origins \subseteq Locs
           /\ DOMAIN run[w].view \subseteq Locs

\* When the workers have left without an error, the results are those of
\* executing the block sequentially: after each transaction, the state they
\* add up to and the gas used so far are the same, each lazily updated balance
\* evaluated and each empty account removed (tests/common/runner.rs compares
\* the two executions).
SerialEquivalence ==
    AllDone /\ ~execution_error =>
        \A t \in Txs :
            /\ \A l \in Locs :
                  StateAfter(l, t) = Reported(l, SequentialState(t + 1)[l])
            /\ FinalGas(t) = CumulativeGas(t + 1)

\* A block that is valid sequentially never fails in parallel, although a
\* worker may read a sender before a lower transaction has written it.
NoFalseRejection == SequentiallyValid => ~execution_error

\* A block that is not valid sequentially is never accepted, whichever worker
\* leaves first and however many errors there are (pevm.rs:190-192, 411).
NoFalseAcceptance ==
    (\A w \in Workers : Stopped(w)) /\ ~SequentiallyValid => execution_error

\* The entry of t at l was written by this incarnation.
Recorded(l, t, inc) == IsData(data[l][t]) /\ data[l][t].inc = inc

\* The entries of t are those of the locations it recorded last.
Matches(t, inc) ==
    \A l \in Locs : IF l \in last_locations[t].write
                    THEN Recorded(l, t, inc) ELSE data[l][t] = Absent

\* A transaction that is executed has in memory exactly the writes it recorded
\* last, by its current incarnation: nothing of an older one, and no ESTIMATE,
\* for which a reader would wait in vain (record, mv_memory.rs:68-109).
MemoryMatchesWriteSet ==
    \A t \in Txs : Finished(t) => Matches(t, incarnation[t])

\* When the workers have left without an error, the memory holds values only:
\* the ESTIMATEs of MvMemory::new and of aborted incarnations are all gone, and
\* the evaluation of the lazy balances does not reach the unreachable!() of
\* pevm.rs:228.
EvaluationSafe ==
    AllDone /\ ~execution_error =>
        \A l \in Locs, t \in Txs : data[l][t] = Absent \/ IsData(data[l][t])

\* When the workers have left without an error, what each transaction from
\* min_validation_idx on has recorded as read is what the memory holds below it:
\* no write came after the last validation of a reader without a validation
\* after it, although finish_execution does not revalidate when no new location
\* is written, validations of older incarnations still count, and indexes are
\* lowered after the writes (finish_execution and finish_validation,
\* scheduler.rs).
ReadsFinal ==
    AllDone /\ ~execution_error =>
        \A t \in Txs : t >= min_validation_idx =>
            \A l \in DOMAIN last_locations[t].read : ReadValid(l, t)

\* What the transactions that are never validated have read is what the memory
\* holds below them; below the first one there is nothing.
UnvalidatedReadsValid ==
    \A t \in Txs \ {0} : t < min_validation_idx =>
        \A l \in DOMAIN last_locations[t].read : ReadValid(l, t)

\* A worker is in the loop of next_task, which it leaves with a task only.
InNextTask(w) ==
    pc[w] \in {"next", "next_val", "check_validated", "check_min", "fetch_val",
               "lock_val", "fetch_exec", "lock_exec"}

\* In a block in which no sender lacks funds for ever: every worker leaves, or,
\* after an error, spins in the loop of next_task ("be aware of a potential
\* deadlock in the scheduler's next task loop when an error occurs",
\* pevm.rs:175-176), where it does nothing any more; one way or the other no
\* transaction is executed or validated for ever.  A sender that never gets the
\* funds is retried inside try_execute, which does not look at the error
\* (pevm.rs:402-405, vm.rs:585-593).
LeavesOrSpins ==
    <>[](\A w \in Workers : Stopped(w) \/ (execution_error /\ InNextTask(w)))

\* Every worker eventually leaves: no transaction waits for ever, and the
\* loop of next_task does not spin for ever.
Termination == <>(\A w \in Workers : Stopped(w))

-----------------------------------------------------------------------------
(***************************************************************************)
(* The inductive invariant behind MemoryMatchesWriteSet.                   *)
(***************************************************************************)

Recording(w) == run[w].stage \in {"writing", "removing"}

\* A call is where its worker is, and works on the current incarnation.
CallInv ==
    \A w \in Workers :
        /\ DOMAIN run[w] = DOMAIN Idle
        /\ Recording(w) => At(w, "execute")
        /\ run[w].stage = "checking" => At(w, "validate")
        /\ run[w].stage = "estimating" =>
               At(w, "estimate") /\ run[w].todo \subseteq last_locations[tx_idx[w]].write
        /\ Runs(w) => tx_incarnation[w] = incarnation[tx_idx[w]]

\* How far w has got with the writes of its execution: those it has done are
\* there, and when it removes, nothing else is but what it has yet to remove.
RecordedSoFar(w) ==
    LET t      == tx_idx[w]
        writes == DOMAIN Writes(w)
    IN  /\ run[w].stage = "writing" =>
               /\ run[w].todo \subseteq writes
               /\ \A l \in (writes \cap Locs) \ run[w].todo :
                      Recorded(l, t, tx_incarnation[w])
        /\ run[w].stage = "removing" =>
               /\ run[w].todo \cap writes = {}
               /\ \A l \in Locs : IF l \in writes
                                  THEN Recorded(l, t, tx_incarnation[w])
                                  ELSE l \in run[w].todo \/ data[l][t] = Absent

\* While t is not executed, its entries are at locations that it recorded last
\* or that its execution has to write: record removes the others by comparing
\* with those.  (The beneficiary's, which MvMemory::new adds, is always written.)
Accounted(l, t) ==
    \/ data[l][t] = Absent
    \/ l \in last_locations[t].write \cup {Beneficiary}
    \/ \E w \in Workers : Recording(w) /\ tx_idx[w] = t /\ l \in DOMAIN Writes(w)

MemoryInv ==
    /\ DOMAIN data = Locs /\ \A l \in Locs : DOMAIN data[l] = Txs
    /\ DOMAIN last_locations = Txs /\ DOMAIN run = Workers
    /\ MemoryMatchesWriteSet
    /\ CallInv
    /\ \A w \in Workers :
           /\ RecordedSoFar(w)
           /\ At(w, "finish_exec") => Matches(tx_idx[w], tx_incarnation[w])
    /\ \A l \in Locs, t \in Txs : Accounted(l, t)

-----------------------------------------------------------------------------
(***************************************************************************)
(* The inductive invariant behind ReadsFinal.                              *)
(***************************************************************************)

\* Worker w has yet to turn the entry of t at l into an ESTIMATE, or has already
\* replaced that by what the next incarnation left.
Replaces(w, l, t) ==
    /\ tx_idx[w] = t
    /\ \/ At(w, "estimate") /\ (run[w].stage = "idle" \/ l \in run[w].todo)
       \/ run[w].stage = "writing" /\ l \in DOMAIN Writes(w) \ run[w].todo
       \/ run[w].stage = "removing" /\ l \notin run[w].todo
       \/ At(w, "finish_exec")

\* What the previous incarnation of t wrote at l is an ESTIMATE until the next
\* one writes or removes it: nobody has read it meanwhile.
Estimated(l, t) ==
    Finished(t) \/ data[l][t] = Estimate \/ \E w \in Workers : Replaces(w, l, t)

\* A worker in finish_execution, before it looks at the validation indexes.
Finishing(w) ==
    pc[w] \in {"finish_exec", "lock_deps", "resume", "resume_ready", "lower_exec",
               "lower_min"}

\* A transaction below min_validation_idx is not aborted: it is recorded once,
\* and then has written new locations.  It makes the minimum its own index or
\* the next.
FirstRecord ==
    /\ \A t \in Txs : t < min_validation_idx =>
           \/ Finished(t) \/ last_locations[t].write = {}
           \/ \E w \in Workers : At(w, "finish_exec") /\ tx_idx[w] = t
    /\ \A w \in Workers : Finishing(w) =>
           /\ tx_idx[w] < min_validation_idx => wrote_new_location[w]
           /\ next_validation_idx[w] \in NextValidation(tx_idx[w])

\* Worker w is going to check that t has read l as it is.
Checks(w, l, t) ==
    /\ tx_idx[w] = t
    /\ \/ pc[w] \in {"lock_val", "ret_validation", "try_abort", "check_val",
                     "validate_from_next"}
       \/ Finishing(w) /\ ~At(w, "finish_exec")
       \/ At(w, "validate") /\ (run[w].stage = "checking" => l \in run[w].todo)

\* Worker w is going to lower validation_idx to t or less.
WillLower(w, t) ==
    \/ At(w, "validate_from_min") /\ reg[w] <= t
    \/ /\ tx_idx[w] < t
       /\ \/ pc[w] \in {"estimate", "ready_aborted", "validate_higher"}
          \/ /\ Finishing(w) \/ pc[w] \in {"check_val", "validate_from_next"}
             /\ wrote_new_location[w]
          \/ Recording(w) /\ WroteNewLocation(tx_idx[w], DOMAIN Writes(w))

Rechecks(w, l, t) == Checks(w, l, t) \/ WillLower(w, t)

\* An executed transaction that may be validated has read what is there, or is
\* going to be looked at after the change.
ReadsChecked ==
    \A t \in Txs : Finished(t) /\ t >= min_validation_idx =>
        \A l \in DOMAIN last_locations[t].read :
            \/ ReadValid(l, t)
            \/ validation_idx <= t
            \/ \E w \in Workers : Rechecks(w, l, t)

ValidationInv ==
    /\ \A t \in Txs : \A l \in last_locations[t].write : Estimated(l, t)
    /\ FirstRecord
    /\ ~execution_error => ReadsChecked

-----------------------------------------------------------------------------
(***************************************************************************)
(* The inductive invariant behind SerialEquivalence.                       *)
(***************************************************************************)

\* Worker w has written what it had to write to l.
HasWritten(w, l) == \/ run[w].stage = "writing" /\ l \notin run[w].todo
                    \/ run[w].stage = "removing"
                    \/ At(w, "finish_exec")

\* Incarnation inc of transaction i does not write to l any more.
Past(l, i, inc) ==
    \/ inc \in 0 .. (incarnation[i] - 1)
    \/ /\ inc = incarnation[i]
       /\ \/ status[i] \notin {"ReadyToExecute", "Executing"}
          \/ \E w \in Workers : tx_idx[w] = i /\ HasWritten(w, l)

\* A version stands for one entry for ever: as long as the versions that t read
\* are there, so is the value it read.
ReadPast(l, t, origins) ==
    \A v \in origins.mv : v[1] \in 0 .. (t - 1) /\ Past(l, v[1], v[2])
ReadStands(l, t, origins, value) ==
    ReadPast(l, t, origins) /\ ReadMeans(l, origins, value)

\* The entry of t at l is no value, or one that its incarnation has written.
Settled(l, t) ==
    \/ data[l][t] \in {Absent, Estimate}
    \/ IsData(data[l][t]) /\ Past(l, t, data[l][t].inc)

\* What the call of w has read stands, and what it has written is in memory;
\* when it does not execute, it has done neither.
CallReads(w) ==
    /\ DOMAIN run[w].origins = DOMAIN run[w].values
    /\ \A l \in DOMAIN run[w].origins :
           ReadStands(l, tx_idx[w], run[w].origins[l], run[w].values[l])
CallWrites(w) ==
    Recording(w) => \A l \in DOMAIN Writes(w) \ run[w].todo :
        HoldsWrite(l, tx_idx[w], tx_incarnation[w], Writes(w))

Fresh(r) == /\ r.step = 1 /\ r.gas = 1
            /\ r.origins = <<>> /\ r.values = <<>> /\ r.view = <<>>

ValuesInv ==
    /\ \A l \in Locs, t \in Txs : Settled(l, t)
    /\ \A w \in Workers :
           CallReads(w) /\ CallWrites(w) /\ (~At(w, "execute") => Fresh(run[w]))

-----------------------------------------------------------------------------
(***************************************************************************)
(* The inductive invariant behind NoFalseRejection, for senders apart.     *)
(***************************************************************************)

\* Below a transaction, the nonce of its sender is that of the storage: in the
\* memory, and in what the lower transactions have at hand.
NonceInv ==
    /\ \A t, u \in Txs : u < t /\ data[From(t)][u].kind = "basic" =>
           FirstNonce(t, data[From(t)][u].value)
    /\ \A w \in Workers, t \in Txs :
           tx_idx[w] < t /\ From(t) \in DOMAIN run[w].view =>
               FirstNonce(t, run[w].view[From(t)])

=============================================================================
