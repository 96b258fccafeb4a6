------------------------------ MODULE Scheduler ------------------------------
(***************************************************************************)
(* The collaborative scheduler (src/src/scheduler.rs) and the loop of the  *)
(* worker threads that drive it (src/src/pevm.rs, execute_revm).           *)
(*                                                                         *)
(* A step of a worker is one access to shared memory: an atomic operation, *)
(* or the region protected by one Mutex.  pc[w] names the access that      *)
(* worker w performs next.  The virtual machine and the multi-version      *)
(* memory appear only through their answers (actions Vm... and ReadSet...),*)
(* which module Pevm computes and this module leaves open.                 *)
(*                                                                         *)
(* Atomics are sequentially consistent here.  The code uses Acquire loads  *)
(* and Release read-modify-writes; README.md says what this rests on.      *)
(***************************************************************************)
EXTENDS Block, FiniteSets

CONSTANTS
    Workers,         \* the worker threads
    Dependencies,    \* preprocessed dependencies: Txs -> SUBSET Txs
    MayFail,         \* the transactions the EVM may reject with a fatal error
    Restartable,     \* the incarnations that may be blocked or aborted
    UsizeMod         \* modulus of the wrapping dependency counters (2^64)

\* A transaction depends on lower transactions only.
ASSUME DependenciesAssumption ==
    /\ Dependencies \in [Txs -> SUBSET Txs]
    /\ \A t \in Txs : \A d \in Dependencies[t] : d < t

ASSUME BoundsAssumption ==
    /\ IsFiniteSet(Workers) /\ Workers # {}
    /\ MayFail \subseteq Txs
    /\ Restartable \subseteq Nat
    /\ UsizeMod \in Nat
    /\ UsizeMod > BlockSize + 1 /\ UsizeMod > Cardinality(Workers)

\* IncarnationStatus of lib.rs.
Statuses == {"ReadyToExecute", "Executing", "Executed", "Validated", "Aborting"}

VARIABLES
    execution_idx,                  \* the next transaction to try and execute
    validation_idx,                 \* the next transaction to try and validate
    status,                         \* transactions_status[t].status
    incarnation,                    \* transactions_status[t].incarnation
    min_validation_idx,
    num_validated,
    transactions_dependents,        \* whom to resume when t is executed
    transactions_dependencies_num,  \* wrapping counters, where preprocessed
    execution_error,                \* OnceLock: has an error been set?
    pc,                   \* the next shared access of each worker
    tx_idx,               \* the transaction index in the worker's hands
    tx_incarnation,       \* the incarnation of its TxVersion
    reg,                  \* the index it loaded last (see each action)
    dependent,            \* the dependent that finish_execution is resuming
    wrote_new_location,   \* what MvMemory::record returned
    next_validation_idx   \* what Vm::execute returned

idxVars    == <<execution_idx, validation_idx, min_validation_idx>>
statusVars == <<status, incarnation, num_validated>>
depVars    == <<transactions_dependents, transactions_dependencies_num>>
resultVars == <<wrote_new_location, next_validation_idx>>
versionVars == <<tx_idx, tx_incarnation>>
sharedVars == <<idxVars, statusVars, depVars, execution_error>>

vars == <<sharedVars, pc, versionVars, reg, dependent, resultVars>>

-----------------------------------------------------------------------------
(***************************************************************************)
(* Helpers.                                                                *)
(***************************************************************************)

\* The transactions whose dependencies preprocessing counted.
Counted == {t \in Txs : Dependencies[t] # {}}

Finished(t) == status[t] \in {"Executed", "Validated"}

Goto(w, label) == pc' = [pc EXCEPT ![w] = label]

At(w, label) == pc[w] = label

\* add_dependency holds the blocking transaction's status while it marks and
\* registers the dependent.
StatusLocked(t) ==
    \E v \in Workers : /\ pc[v] \in {"abort_self", "push_dep", "count_dep"}
                       /\ reg[v] = t

\* finish_execution holds the dependents while it resumes them.
DependentsLocked(t) ==
    \E v \in Workers : /\ pc[v] \in {"resume", "resume_ready"}
                       /\ tx_idx[v] = t

-----------------------------------------------------------------------------
(***************************************************************************)
(* Scheduler::next_task, with try_execute and try_validate.                *)
(***************************************************************************)

\* reg is the execution index seen.
LoadExecutionIdx(w) ==
    /\ At(w, "next")
    /\ reg' = [reg EXCEPT ![w] = execution_idx]
    /\ Goto(w, "next_val")
    /\ UNCHANGED <<sharedVars, versionVars, dependent, resultVars>>

\* Mutant: one index at its end is enough.
LoadValidationIdxEither(w) ==
    /\ At(w, "next_val")
    /\ Goto(w, IF reg[w] >= BlockSize \/ validation_idx >= BlockSize
               THEN "check_validated"
               ELSE IF validation_idx < reg[w] THEN "fetch_val"
               ELSE "fetch_exec")
    /\ reg' = [reg EXCEPT ![w] = 0]
    /\ UNCHANGED <<sharedVars, versionVars, dependent, resultVars>>

LoadValidationIdx(w) ==
    /\ At(w, "next_val")
    /\ Goto(w, IF reg[w] >= BlockSize /\ validation_idx >= BlockSize
               THEN "check_validated"
               ELSE IF validation_idx < reg[w] THEN "fetch_val"
               ELSE "fetch_exec")
    /\ reg' = [reg EXCEPT ![w] = 0]
    /\ UNCHANGED <<sharedVars, versionVars, dependent, resultVars>>

\* reg is the number of validated transactions seen.
LoadNumValidated(w) ==
    /\ At(w, "check_validated")
    /\ reg' = [reg EXCEPT ![w] = num_validated]
    /\ Goto(w, "check_min")
    /\ UNCHANGED <<sharedVars, versionVars, dependent, resultVars>>

\* Mutant: off by one.
MayStopStrict(w) == reg[w] > BlockSize - min_validation_idx

\* Mutant: no condition.
MayStopAlways(w) == TRUE

\* The condition on which next_task leaves its loop.
MayStop(w) == reg[w] >= BlockSize - min_validation_idx

\* Leave the loop, or spin.
LoadMinValidationIdx(w) ==
    /\ At(w, "check_min")
    /\ Goto(w, IF MayStop(w) THEN "done" ELSE "next")
    /\ reg' = [reg EXCEPT ![w] = 0]
    /\ UNCHANGED <<sharedVars, versionVars, dependent, resultVars>>

FetchAddValidation(w) ==
    /\ At(w, "fetch_val")
    /\ validation_idx' = validation_idx + 1
    /\ IF validation_idx < BlockSize
       THEN /\ tx_idx' = [tx_idx EXCEPT ![w] = validation_idx]
            /\ Goto(w, "lock_val")
       ELSE /\ Goto(w, "next")
            /\ UNCHANGED tx_idx
    /\ UNCHANGED <<execution_idx, min_validation_idx, statusVars, depVars,
                   execution_error, tx_incarnation, reg, dependent,
                   resultVars>>

LockForValidation(w) ==
    /\ At(w, "lock_val")
    /\ ~StatusLocked(tx_idx[w])
    /\ IF Finished(tx_idx[w])
       THEN /\ tx_incarnation' =
                   [tx_incarnation EXCEPT ![w] = incarnation[tx_idx[w]]]
            /\ Goto(w, "validate")
       ELSE /\ Goto(w, "next")
            /\ UNCHANGED tx_incarnation
    /\ UNCHANGED <<sharedVars, tx_idx, reg, dependent, resultVars>>

\* try_execute is entered from next_task ("fetch_exec") and, when it cannot
\* take the aborted transaction, from finish_validation ("refetch_exec").
FetchAddExecution(w) ==
    /\ pc[w] \in {"fetch_exec", "refetch_exec"}
    /\ execution_idx' = execution_idx + 1
    /\ IF execution_idx < BlockSize
       THEN /\ tx_idx' = [tx_idx EXCEPT ![w] = execution_idx]
            /\ Goto(w, IF At(w, "fetch_exec") THEN "lock_exec" ELSE "relock_exec")
       ELSE /\ Goto(w, IF At(w, "fetch_exec") THEN "next" ELSE "ret_none")
            /\ UNCHANGED tx_idx
    /\ UNCHANGED <<validation_idx, min_validation_idx, statusVars, depVars,
                   execution_error, tx_incarnation, reg, dependent,
                   resultVars>>

\* Mutant: a transaction is taken that a worker runs.
IsReadyAny(t) == status[t] \in {"ReadyToExecute", "Executing"}

IsReady(t) == status[t] = "ReadyToExecute"

LockForExecution(w) ==
    /\ pc[w] \in {"lock_exec", "relock_exec"}
    /\ ~StatusLocked(tx_idx[w])
    /\ IF IsReady(tx_idx[w])
       THEN /\ status' = [status EXCEPT ![tx_idx[w]] = "Executing"]
            /\ tx_incarnation' =
                   [tx_incarnation EXCEPT ![w] = incarnation[tx_idx[w]]]
            /\ Goto(w, IF At(w, "lock_exec") THEN "execute" ELSE "ret_execution")
       ELSE /\ Goto(w, IF At(w, "lock_exec") THEN "fetch_exec" ELSE "refetch_exec")
            /\ UNCHANGED <<status, tx_incarnation>>
    /\ UNCHANGED <<idxVars, incarnation, num_validated, depVars,
                   execution_error, tx_idx, reg, dependent, resultVars>>

-----------------------------------------------------------------------------
(***************************************************************************)
(* The answers of Vm::execute, as try_execute of pevm.rs takes them.       *)
(* VmExecutionResult::Retry loops without touching shared state.           *)
(***************************************************************************)

\* reg is blocking_tx_idx.
VmReadError(w, blocking_tx_idx) ==
    /\ At(w, "execute")
    /\ reg' = [reg EXCEPT ![w] = blocking_tx_idx]
    /\ Goto(w, "add_dep")
    /\ UNCHANGED <<sharedVars, versionVars, dependent, resultVars>>

VmOk(w, wrote, next) ==
    /\ At(w, "execute")
    /\ wrote_new_location' = [wrote_new_location EXCEPT ![w] = wrote]
    /\ next_validation_idx' = [next_validation_idx EXCEPT ![w] = next]
    /\ Goto(w, "finish_exec")
    /\ UNCHANGED <<sharedVars, versionVars, reg, dependent>>

\* Mutant: the transaction is executed again.
VmExecutionErrorAgain(w) ==
    /\ At(w, "execute")
    /\ execution_error' = TRUE
    /\ UNCHANGED <<idxVars, statusVars, depVars, pc, versionVars, reg, dependent,
                   resultVars>>

\* Mutant: the worker leaves, and keeps the error to itself.
VmExecutionErrorKept(w) ==
    /\ At(w, "execute")
    /\ Goto(w, "done")
    /\ UNCHANGED <<sharedVars, versionVars, reg, dependent, resultVars>>

\* OnceLock::set fails, and its unwrap panics, if an error is already there.
VmExecutionError(w) ==
    /\ At(w, "execute")
    /\ execution_error' = TRUE
    /\ Goto(w, IF execution_error THEN "error_twice" ELSE "ret_none")
    /\ UNCHANGED <<idxVars, statusVars, depVars, versionVars, reg, dependent,
                   resultVars>>

-----------------------------------------------------------------------------
(***************************************************************************)
(* Scheduler::add_dependency.  From here until CountDependency the worker  *)
(* holds the status of the blocking transaction reg[w].                    *)
(***************************************************************************)

\* Mutant: the blocking transaction may have been executed meanwhile.
LockBlockingUnchecked(w) ==
    /\ At(w, "add_dep")
    /\ ~StatusLocked(reg[w])
    /\ Goto(w, "abort_self")
    /\ UNCHANGED <<sharedVars, versionVars, reg, dependent, resultVars>>

LockBlocking(w) ==
    /\ At(w, "add_dep")
    /\ ~StatusLocked(reg[w])
    /\ IF Finished(reg[w])
       THEN /\ Goto(w, "execute")
            /\ reg' = [reg EXCEPT ![w] = 0]
       ELSE /\ Goto(w, "abort_self")
            /\ UNCHANGED reg
    /\ UNCHANGED <<sharedVars, versionVars, dependent, resultVars>>

AbortSelf(w) ==
    /\ At(w, "abort_self")
    /\ ~StatusLocked(tx_idx[w])
    /\ IF status[tx_idx[w]] = "Executing"
       THEN /\ status' = [status EXCEPT ![tx_idx[w]] = "Aborting"]
            /\ Goto(w, "push_dep")
       ELSE /\ Goto(w, "panicked")
            /\ UNCHANGED status
    /\ UNCHANGED <<idxVars, incarnation, num_validated, depVars,
                   execution_error, versionVars, reg, dependent, resultVars>>

\* Mutant: the dependency is not counted.
PushDependentUncounted(w) ==
    /\ At(w, "push_dep")
    /\ ~DependentsLocked(reg[w])
    /\ transactions_dependents' =
           [transactions_dependents EXCEPT ![reg[w]] = @ \cup {tx_idx[w]}]
    /\ Goto(w, "ret_none")
    /\ reg' = [reg EXCEPT ![w] = 0]
    /\ UNCHANGED <<idxVars, statusVars, transactions_dependencies_num,
                   execution_error, versionVars, dependent, resultVars>>

PushDependent(w) ==
    /\ At(w, "push_dep")
    /\ ~DependentsLocked(reg[w])
    /\ transactions_dependents' =
           [transactions_dependents EXCEPT ![reg[w]] = @ \cup {tx_idx[w]}]
    /\ IF tx_idx[w] \in Counted
       THEN /\ Goto(w, "count_dep")
            /\ UNCHANGED reg
       ELSE /\ Goto(w, "ret_none")
            /\ reg' = [reg EXCEPT ![w] = 0]
    /\ UNCHANGED <<idxVars, statusVars, transactions_dependencies_num,
                   execution_error, versionVars, dependent, resultVars>>

CountDependency(w) ==
    /\ At(w, "count_dep")
    /\ transactions_dependencies_num' =
           [transactions_dependencies_num EXCEPT
                ![tx_idx[w]] = (@ + 1) % UsizeMod]
    /\ Goto(w, "ret_none")
    /\ reg' = [reg EXCEPT ![w] = 0]
    /\ UNCHANGED <<idxVars, statusVars, transactions_dependents,
                   execution_error, versionVars, dependent, resultVars>>

-----------------------------------------------------------------------------
(***************************************************************************)
(* Scheduler::finish_execution.                                            *)
(***************************************************************************)

SetExecuted(w) ==
    /\ At(w, "finish_exec")
    /\ ~StatusLocked(tx_idx[w])
    /\ IF status[tx_idx[w]] = "Executing"
       THEN /\ status' = [status EXCEPT ![tx_idx[w]] = "Executed"]
            /\ Goto(w, "lock_deps")
       ELSE /\ Goto(w, "panicked")
            /\ UNCHANGED status
    /\ UNCHANGED <<idxVars, incarnation, num_validated, depVars,
                   execution_error, versionVars, reg, dependent, resultVars>>

\* Where the loop over the dependents goes next: rest is what remains of it,
\* min_dependent_idx the lowest one resumed so far.
AfterDependent(rest, min_dependent_idx) ==
    IF rest # {} THEN "resume"
    ELSE IF min_dependent_idx # None THEN "lower_exec"
    ELSE "lower_min"

\* reg is min_dependent_idx until LowerExecutionIdx.
LockDependents(w) ==
    /\ At(w, "lock_deps")
    /\ ~DependentsLocked(tx_idx[w])
    /\ reg' = [reg EXCEPT ![w] = None]
    /\ Goto(w, AfterDependent(transactions_dependents[tx_idx[w]], None))
    /\ UNCHANGED <<sharedVars, versionVars, dependent, resultVars>>

\* Mutant: the list is not cleared.
DependentsAfterKept(w, d) == transactions_dependents[tx_idx[w]]

\* The list is cleared after the loop, under the lock that covers the loop:
\* nobody can tell that from removing each dependent as it is visited.
DependentsAfter(w, d) == transactions_dependents[tx_idx[w]] \ {d}

\* Mutant: off by one.
PendingLast(d) == d \in Counted /\ transactions_dependencies_num[d] >= 1

\* The dependent has other pending dependencies; the last one will evoke it.
Pending(d) == d \in Counted /\ transactions_dependencies_num[d] > 1

CountDownDependent(w, d) ==
    LET rest == DependentsAfter(w, d)
    IN  /\ At(w, "resume")
        /\ d \in transactions_dependents[tx_idx[w]]
        /\ transactions_dependents' =
               [transactions_dependents EXCEPT ![tx_idx[w]] = rest]
        /\ transactions_dependencies_num' =
               IF d \in Counted
               THEN [transactions_dependencies_num EXCEPT
                        ![d] = (@ + UsizeMod - 1) % UsizeMod]
               ELSE transactions_dependencies_num
        /\ IF Pending(d)
           THEN /\ Goto(w, AfterDependent(rest, reg[w]))
                /\ UNCHANGED dependent
           ELSE /\ Goto(w, "resume_ready")
                /\ dependent' = [dependent EXCEPT ![w] = d]
        /\ UNCHANGED <<idxVars, statusVars, execution_error, versionVars, reg,
                       resultVars>>

\* Mutant: the incarnation is not incremented.
SetReadyAgain(t) ==
    /\ status' = [status EXCEPT ![t] = "ReadyToExecute"]
    /\ UNCHANGED incarnation

\* set_ready_status.
SetReady(t) ==
    /\ status' = [status EXCEPT ![t] = "ReadyToExecute"]
    /\ incarnation' = [incarnation EXCEPT ![t] = @ + 1]

ResumeDependent(w) ==
    LET min_idx == Lower(dependent[w], reg[w])
    IN  /\ At(w, "resume_ready")
        /\ ~StatusLocked(dependent[w])
        /\ IF status[dependent[w]] = "Aborting"
           THEN /\ SetReady(dependent[w])
                /\ reg' = [reg EXCEPT ![w] = min_idx]
                /\ Goto(w, AfterDependent(transactions_dependents[tx_idx[w]],
                                          min_idx))
           ELSE /\ Goto(w, "panicked")
                /\ UNCHANGED <<status, incarnation, reg>>
        /\ dependent' = [dependent EXCEPT ![w] = None]
        /\ UNCHANGED <<idxVars, num_validated, depVars, execution_error,
                       versionVars, resultVars>>

\* Mutant: execution_idx is left alone.
ExecuteFromLater(min_idx) == execution_idx

ExecuteFrom(min_idx) == Lower(execution_idx, min_idx)

LowerExecutionIdx(w) ==
    /\ At(w, "lower_exec")
    /\ execution_idx' = ExecuteFrom(reg[w])
    /\ Goto(w, "lower_min")
    /\ UNCHANGED <<validation_idx, min_validation_idx, statusVars, depVars,
                   execution_error, versionVars, reg, dependent, resultVars>>

\* Mutant: a store instead of fetch_min.
MinWithLast(next) == IF next = None THEN min_validation_idx ELSE next

\* With no next_validation_idx the code loads instead of fetch_min: there is no
\* difference, the minimum is at most None.
MinWith(next) == Lower(min_validation_idx, next)

\* reg is the minimum validation index seen.
LowerMinValidationIdx(w) ==
    LET min_idx == MinWith(next_validation_idx[w])
    IN  /\ At(w, "lower_min")
        /\ min_validation_idx' = min_idx
        /\ reg' = [reg EXCEPT ![w] = min_idx]
        /\ Goto(w, IF min_idx >= BlockSize THEN "ret_none"
                   ELSE IF tx_idx[w] >= min_idx THEN "check_val"
                   ELSE IF wrote_new_location[w] THEN "validate_from_min"
                   ELSE "ret_none")
        /\ UNCHANGED <<execution_idx, validation_idx, statusVars, depVars,
                       execution_error, versionVars, dependent, resultVars>>

ValidateFromMin(w) ==
    /\ At(w, "validate_from_min")
    /\ validation_idx' = Lower(validation_idx, reg[w])
    /\ Goto(w, "ret_none")
    /\ UNCHANGED <<execution_idx, min_validation_idx, statusVars, depVars,
                   execution_error, versionVars, reg, dependent, resultVars>>

CheckValidationIdx(w) ==
    /\ At(w, "check_val")
    /\ Goto(w, IF tx_idx[w] >= validation_idx THEN "ret_none"
               ELSE IF wrote_new_location[w] THEN "validate_from_next"
               ELSE "ret_validation")
    /\ UNCHANGED <<sharedVars, versionVars, reg, dependent, resultVars>>

ValidateFromNext(w) ==
    /\ At(w, "validate_from_next")
    /\ validation_idx' = Lower(validation_idx, tx_idx[w] + 1)
    /\ Goto(w, "ret_validation")
    /\ UNCHANGED <<execution_idx, min_validation_idx, statusVars, depVars,
                   execution_error, versionVars, reg, dependent, resultVars>>

-----------------------------------------------------------------------------
(***************************************************************************)
(* try_validate of pevm.rs, with Scheduler::try_validation_abort and       *)
(* Scheduler::finish_validation.                                           *)
(***************************************************************************)

ReadSetValid(w) ==
    /\ At(w, "validate")
    /\ Goto(w, "finish_valid")
    /\ UNCHANGED <<sharedVars, versionVars, reg, dependent, resultVars>>

ReadSetInvalid(w) ==
    /\ At(w, "validate")
    /\ Goto(w, "try_abort")
    /\ UNCHANGED <<sharedVars, versionVars, reg, dependent, resultVars>>

\* Mutant: whether it is counted or not.
UncountedAlways(t) == num_validated - 1

\* num_validated when t is aborted.
Uncounted(t) ==
    IF status[t] = "Validated" THEN num_validated - 1 ELSE num_validated

\* Mutant: whatever the status is.
MayAbortAny(t) == TRUE

MayAbort(t) == Finished(t)

TryValidationAbort(w) ==
    /\ At(w, "try_abort")
    /\ ~StatusLocked(tx_idx[w])
    /\ num_validated' = Uncounted(tx_idx[w])
    /\ IF MayAbort(tx_idx[w])
       THEN /\ status' = [status EXCEPT ![tx_idx[w]] = "Aborting"]
            /\ Goto(w, "estimate")
       ELSE /\ Goto(w, "finish_valid")
            /\ UNCHANGED status
    /\ UNCHANGED <<idxVars, incarnation, depVars, execution_error, versionVars,
                   reg, dependent, resultVars>>

\* MvMemory::convert_writes_to_estimates has returned.
EstimatesWritten(w) ==
    /\ At(w, "estimate")
    /\ Goto(w, "ready_aborted")
    /\ UNCHANGED <<sharedVars, versionVars, reg, dependent, resultVars>>

ReadyAborted(w) ==
    /\ At(w, "ready_aborted")
    /\ ~StatusLocked(tx_idx[w])
    /\ IF status[tx_idx[w]] = "Aborting"
       THEN /\ SetReady(tx_idx[w])
            /\ Goto(w, "validate_higher")
       ELSE /\ Goto(w, "panicked")
            /\ UNCHANGED <<status, incarnation>>
    /\ UNCHANGED <<idxVars, num_validated, depVars, execution_error,
                   versionVars, reg, dependent, resultVars>>

\* Mutant: validation_idx is left alone.
ValidateHigherLater(w) ==
    /\ At(w, "validate_higher")
    /\ Goto(w, "check_exec")
    /\ UNCHANGED <<sharedVars, versionVars, reg, dependent, resultVars>>

ValidateHigher(w) ==
    /\ At(w, "validate_higher")
    /\ validation_idx' = Lower(validation_idx, tx_idx[w] + 1)
    /\ Goto(w, "check_exec")
    /\ UNCHANGED <<execution_idx, min_validation_idx, statusVars, depVars,
                   execution_error, versionVars, reg, dependent, resultVars>>

CheckExecutionIdx(w) ==
    /\ At(w, "check_exec")
    /\ Goto(w, IF execution_idx > tx_idx[w] THEN "relock_exec" ELSE "ret_none")
    /\ UNCHANGED <<sharedVars, versionVars, reg, dependent, resultVars>>

\* Mutant: a validated transaction is counted again.
ToMarkAny(t) == Finished(t)

ToMark(t) == status[t] = "Executed"

\* finish_validation without an abort.  The version validated is not compared
\* with the current incarnation.
MarkValidated(w) ==
    /\ At(w, "finish_valid")
    /\ ~StatusLocked(tx_idx[w])
    /\ IF ToMark(tx_idx[w])
       THEN /\ status' = [status EXCEPT ![tx_idx[w]] = "Validated"]
            /\ num_validated' = num_validated + 1
       ELSE UNCHANGED <<status, num_validated>>
    /\ Goto(w, "ret_none")
    /\ UNCHANGED <<idxVars, incarnation, depVars, execution_error, versionVars,
                   reg, dependent, resultVars>>

-----------------------------------------------------------------------------
(***************************************************************************)
(* The end of an iteration of the worker loop: leave on an error, else run *)
(* the task returned or ask for another.  Locals that are dead are reset.  *)
(***************************************************************************)

AfterTask(w) ==
    /\ pc[w] \in {"ret_none", "ret_execution", "ret_validation"}
    /\ Goto(w, IF execution_error THEN "done"
               ELSE IF At(w, "ret_execution") THEN "execute"
               ELSE IF At(w, "ret_validation") THEN "validate"
               ELSE "next")
    /\ reg' = [reg EXCEPT ![w] = 0]
    /\ wrote_new_location' = [wrote_new_location EXCEPT ![w] = FALSE]
    /\ next_validation_idx' = [next_validation_idx EXCEPT ![w] = None]
    /\ UNCHANGED <<sharedVars, versionVars, dependent>>

-----------------------------------------------------------------------------
(***************************************************************************)
(* The specification.                                                      *)
(***************************************************************************)

\* Scheduler::new on the statuses and dependents preprocessing built.
Init ==
    /\ execution_idx = 0
    /\ validation_idx = BlockSize
    /\ min_validation_idx = BlockSize
    /\ num_validated = 0
    /\ status = [t \in Txs |-> IF t \in Counted THEN "Aborting"
                                                ELSE "ReadyToExecute"]
    /\ incarnation = [t \in Txs |-> 0]
    /\ transactions_dependents =
           [d \in Txs |-> {t \in Txs : d \in Dependencies[t]}]
    /\ transactions_dependencies_num =
           [t \in Counted |-> Cardinality(Dependencies[t])]
    /\ execution_error = FALSE
    /\ pc = [w \in Workers |-> "next"]
    /\ tx_idx = [w \in Workers |-> 0]
    /\ tx_incarnation = [w \in Workers |-> 0]
    /\ reg = [w \in Workers |-> 0]
    /\ dependent = [w \in Workers |-> None]
    /\ wrote_new_location = [w \in Workers |-> FALSE]
    /\ next_validation_idx = [w \in Workers |-> None]

\* The steps a worker takes by itself.
SchedulerStep(w) ==
    \/ LoadExecutionIdx(w)
    \/ LoadValidationIdx(w)
    \/ LoadNumValidated(w)
    \/ LoadMinValidationIdx(w)
    \/ FetchAddValidation(w)
    \/ LockForValidation(w)
    \/ FetchAddExecution(w)
    \/ LockForExecution(w)
    \/ LockBlocking(w)
    \/ AbortSelf(w)
    \/ PushDependent(w)
    \/ CountDependency(w)
    \/ SetExecuted(w)
    \/ LockDependents(w)
    \/ \E d \in Txs : CountDownDependent(w, d)
    \/ ResumeDependent(w)
    \/ LowerExecutionIdx(w)
    \/ LowerMinValidationIdx(w)
    \/ ValidateFromMin(w)
    \/ CheckValidationIdx(w)
    \/ ValidateFromNext(w)
    \/ TryValidationAbort(w)
    \/ ReadyAborted(w)
    \/ ValidateHigher(w)
    \/ CheckExecutionIdx(w)
    \/ MarkValidated(w)
    \/ AfterTask(w)

\* What Vm::execute may return as next_validation_idx.
NextValidation(t) == IF t = 0 THEN {None} ELSE {t, t + 1, None}

\* The steps whose outcome the virtual machine or the memory decides.
\* Restartable bounds how often they make a transaction start again.
EnvironmentStep(w) ==
    \/ \E b \in Txs : /\ b < tx_idx[w]
                      /\ incarnation[tx_idx[w]] \in Restartable
                      /\ VmReadError(w, b)
    \/ \E wrote \in BOOLEAN : \E next \in NextValidation(tx_idx[w]) :
           VmOk(w, wrote, next)
    \/ tx_idx[w] \in MayFail /\ VmExecutionError(w)
    \/ ReadSetValid(w)
    \/ incarnation[tx_idx[w]] \in Restartable /\ ReadSetInvalid(w)
    \/ EstimatesWritten(w)

Stopped(w) == pc[w] \in {"done", "panicked", "error_twice"}

\* thread::scope joins the workers.
Terminated == (\A w \in Workers : Stopped(w)) /\ UNCHANGED vars

Next ==
    \/ \E w \in Workers : SchedulerStep(w) \/ EnvironmentStep(w)
    \/ Terminated

Spec == Init /\ [][Next]_vars

-----------------------------------------------------------------------------
(***************************************************************************)
(* Properties.                                                             *)
(***************************************************************************)

Labels ==
    {"next", "next_val", "check_validated", "check_min", "fetch_val",
     "lock_val", "fetch_exec", "lock_exec", "refetch_exec", "relock_exec",
     "execute", "add_dep", "abort_self", "push_dep", "count_dep",
     "finish_exec", "lock_deps", "resume", "resume_ready", "lower_exec",
     "lower_min", "validate_from_min", "check_val", "validate_from_next",
     "validate", "try_abort", "estimate", "ready_aborted", "validate_higher",
     "check_exec", "finish_valid", "ret_none", "ret_execution",
     "ret_validation", "done", "panicked", "error_twice"}

\* Every shared and local variable of the scheduler has its type.
TypeOK ==
    /\ execution_idx \in Nat
    /\ validation_idx \in Nat
    /\ min_validation_idx \in 0 .. BlockSize
    /\ num_validated \in Nat
    /\ status \in [Txs -> Statuses]
    /\ incarnation \in [Txs -> Nat]
    /\ transactions_dependents \in [Txs -> SUBSET Txs]
    /\ transactions_dependencies_num \in [Counted -> 0 .. (UsizeMod - 1)]
    /\ execution_error \in BOOLEAN
    /\ pc \in [Workers -> Labels]
    /\ tx_idx \in [Workers -> Txs]
    /\ tx_incarnation \in [Workers -> Nat]
    /\ reg \in [Workers -> Nat]
    /\ dependent \in [Workers -> Txs \cup {None}]
    /\ wrote_new_location \in [Workers -> BOOLEAN]
    /\ next_validation_idx \in [Workers -> 0 .. BlockSize]

\* No worker reaches one of the unreachable!() of add_dependency,
\* set_ready_status and finish_execution, whatever the interleaving of
\* executions, aborts and resumptions.  (The unwrap of a second fatal error
\* ends a worker at "error_twice" instead.)
NoPanic == \A w \in Workers : pc[w] # "panicked"

\* Two workers never run the same transaction: only try_execute hands one
\* out, and a stale abort or resumption cannot hand it out twice.
Runs(w) == pc[w] \in {"ret_execution", "execute", "add_dep", "abort_self",
                      "finish_exec"}
SingleExecutor ==
    \A v, w \in Workers :
        Runs(v) /\ Runs(w) /\ tx_idx[v] = tx_idx[w] => v = w

\* num_validated, which next_task trusts to stop, is the number of
\* transactions that are Validated, although aborts and (stale) validations
\* of one transaction race.
NumValidatedExact ==
    num_validated = Cardinality({t \in Txs : status[t] = "Validated"})

\* When the condition on which next_task leaves its loop holds, every
\* transaction from min_validation_idx on is Validated: none below the
\* minimum was counted in its place.
StopConditionSound ==
    num_validated >= BlockSize - min_validation_idx =>
        \A t \in Txs : t >= min_validation_idx => status[t] = "Validated"

\* When every worker has left without an error, no transaction was lost: all
\* are executed, and all from min_validation_idx on validated, although each
\* worker left on values it loaded at different times.
AllFinishedAtExit ==
    (\A w \in Workers : At(w, "done")) /\ ~execution_error =>
        \A t \in Txs : /\ Finished(t)
                       /\ t >= min_validation_idx => status[t] = "Validated"

\* A step moves a transaction along the state machine documented at
\* IncarnationStatus only, and an incarnation number grows, by one, exactly
\* when an aborted transaction becomes ready again.
StatusStep(t) ==
    \/ status'[t] = status[t] /\ incarnation'[t] = incarnation[t]
    \/ /\ \/ status[t] = "ReadyToExecute" /\ status'[t] = "Executing"
          \/ status[t] = "Executing" /\ status'[t] \in {"Executed", "Aborting"}
          \/ status[t] = "Executed" /\ status'[t] \in {"Validated", "Aborting"}
          \/ status[t] = "Validated" /\ status'[t] = "Aborting"
       /\ incarnation'[t] = incarnation[t]
    \/ /\ status[t] = "Aborting" /\ status'[t] = "ReadyToExecute"
       /\ incarnation'[t] = incarnation[t] + 1
StatusMachine == [][\A t \in Txs : StatusStep(t)]_vars

\* A validation that is late, its incarnation being aborted already, "will have
\* no effect regardless of the outcome" (validate_read_locations in
\* mv_memory.rs): neither its abort nor its end changes the transaction.
StaleValidationNoEffect ==
    [][\A w \in Workers :
          /\ pc[w] \in {"try_abort", "finish_valid"}
          /\ tx_incarnation[w] # incarnation[tx_idx[w]]
          /\ pc'[w] # pc[w]
          => status'[tx_idx[w]] = status[tx_idx[w]]]_vars

-----------------------------------------------------------------------------
(***************************************************************************)
(* The inductive invariant behind NoPanic, SingleExecutor and              *)
(* StopConditionSound.                                                     *)
(***************************************************************************)

\* A worker that runs a transaction owns it: nobody else runs it, and its
\* status stays Executing until that worker changes it.
ExecutorInv ==
    /\ \A w \in Workers : Runs(w) => status[tx_idx[w]] = "Executing"
    /\ SingleExecutor

\* Worker w is responsible for the aborted transaction HeldTx(w): it has yet
\* to register it as a dependent, or to make it ready.
Holds(w) ==
    pc[w] \in {"push_dep", "resume_ready", "estimate", "ready_aborted"}
HeldTx(w) == IF At(w, "resume_ready") THEN dependent[w] ELSE tx_idx[w]

\* The transactions that t waits for.
WaitsFor(t) == {b \in Txs : t \in transactions_dependents[b]}

\* Either t waits for one transaction at most, or it has not run yet and its
\* counter is the number of transactions it still waits for.
WaitsForOne(t) == \A b, c \in WaitsFor(t) : b = c
WaitsAsPreprocessed(t) ==
    /\ t \in Counted
    /\ transactions_dependencies_num[t] = Cardinality(WaitsFor(t))
    /\ \A w \in Workers : ~(At(w, "count_dep") /\ tx_idx[w] = t)

HeldIsAborted(w) ==
    /\ HeldTx(w) \in Txs
    /\ status[HeldTx(w)] = "Aborting"
    /\ WaitsFor(HeldTx(w)) = {}

\* An aborted transaction is either in lists of dependents or in the hands of
\* a single worker, never both, and whatever is in either place is Aborting.
WaitInv ==
    /\ \A t \in Txs : WaitsFor(t) # {} => status[t] = "Aborting"
    /\ \A w \in Workers : Holds(w) => HeldIsAborted(w)
    /\ \A v, w \in Workers :
           Holds(v) /\ Holds(w) /\ HeldTx(v) = HeldTx(w) => v = w
    /\ \A t \in Txs : WaitsForOne(t) \/ WaitsAsPreprocessed(t)

\* No wake-up is lost: a transaction that is Aborting is registered with the
\* transaction it waits for, or some worker is about to register it or to make
\* it ready.  add_dependency, the counters of preprocessed dependencies and
\* the loop of finish_execution have to agree on that at every step.
NoneForgotten ==
    \A t \in Txs : status[t] = "Aborting" =>
        \/ WaitsFor(t) # {}
        \/ \E w \in Workers : Holds(w) /\ HeldTx(w) = t

\* Nothing below min_validation_idx is validated.
Validates(w) ==
    pc[w] \in {"lock_val", "validate", "try_abort", "estimate", "ready_aborted",
               "validate_higher", "finish_valid", "check_val",
               "validate_from_next", "ret_validation"}
MinInv ==
    /\ validation_idx >= min_validation_idx
    /\ \A w \in Workers : Validates(w) => tx_idx[w] >= min_validation_idx
    /\ \A w \in Workers :
           At(w, "validate_from_min") => reg[w] >= min_validation_idx
    /\ \A t \in Txs : status[t] = "Validated" => t >= min_validation_idx

=============================================================================
