---------------------------- MODULE SchedulerBoard ---------------------------
(***************************************************************************)
(* The scheduler implements the board of tasks (TaskBoard), and the        *)
(* invariants that show it: who still has to look at a transaction that is *)
(* not finished, and what the workers that leave have seen.                *)
(***************************************************************************)
EXTENDS Scheduler

StageOf(s) == CASE s = "ReadyToExecute"            -> "ready"
                [] s = "Executing"                 -> "running"
                [] s = "Aborting"                  -> "waiting"
                [] s \in {"Executed", "Validated"} -> "finished"

\* The state of the board: the kind of status of each transaction, what each
\* worker runs, and the workers that are gone.
StageBar == [t \in Txs |-> StageOf(status[t])]
RunningBar == [w \in Workers |-> IF Runs(w) THEN tx_idx[w] ELSE None]
LeftBar == {w \in Workers : Stopped(w)}

Board == INSTANCE TaskBoard WITH
    stage <- StageBar, running <- RunningBar, left <- LeftBar,
    failed <- execution_error

\* The atomic operations of next_task, add_dependency, finish_execution and
\* finish_validation, interleaved, are steps of the board: a transaction has one
\* owner at a time, only a worker with free hands withdraws or releases one, and
\* the last worker leaves with every transaction finished, or after an error.
ImplementsTaskBoard == Board!Spec

-----------------------------------------------------------------------------
\* The workers about to add a dependency of t that they have registered.
Counting(t) == {w \in Workers : At(w, "count_dep") /\ tx_idx[w] = t}

\* The counter of a transaction with preprocessed dependencies is, modulo its
\* width, the number of transactions it waits for less the dependencies that
\* add_dependency has registered and not yet counted: finish_execution may
\* bring it below zero, and the late fetch_add brings it back.
CounterInv ==
    \A t \in Counted :
        \E wraps \in {0, UsizeMod} :
            transactions_dependencies_num[t] + Cardinality(Counting(t))
                = Cardinality(WaitsFor(t)) + wraps

\* Worker w still has to look at the ready transaction t, or to lower
\* execution_idx to it.
LooksAt(w, t) ==
    \/ /\ pc[w] \in {"lock_exec", "relock_exec", "validate_higher", "check_exec"}
       /\ tx_idx[w] = t
    \/ pc[w] \in {"resume", "resume_ready", "lower_exec"} /\ reg[w] <= t

\* Worker w still has to resume the dependents of t.
Resumes(w, t) ==
    pc[w] \in {"lock_deps", "resume", "resume_ready"} /\ tx_idx[w] = t

\* A transaction is blocked by a lower one that is not finished, as long as
\* the worker holds the blocking status.
BlockedInv ==
    /\ \A w \in Workers :
           /\ pc[w] \in {"add_dep", "abort_self", "push_dep"}
                  => reg[w] \in Txs /\ reg[w] < tx_idx[w]
           /\ pc[w] \in {"abort_self", "push_dep"} => ~Finished(reg[w])
    /\ \A b \in Txs : \A t \in transactions_dependents[b] : b < t

\* No transaction is overlooked: a ready one is still ahead of execution_idx
\* or some worker is on its way to it; a worker runs each one that is
\* Executing, unless there was an error; and a finished one has no dependents
\* left but those a worker is about to resume.
NoneOverlooked ==
    \A t \in Txs :
        /\ status[t] = "ReadyToExecute" =>
               execution_idx <= t \/ \E w \in Workers : LooksAt(w, t)
        /\ status[t] = "Executing" /\ ~execution_error =>
               \E w \in Workers : Runs(w) /\ tx_idx[w] = t
        /\ Finished(t) /\ transactions_dependents[t] # {} =>
               \E w \in Workers : Resumes(w, t)

\* What worker w has loaded in next_task still is so.
UpToDate(w) ==
    \/ At(w, "next")
    \/ At(w, "next_val") /\ (reg[w] >= BlockSize => execution_idx >= BlockSize)
    \/ /\ pc[w] \in {"check_validated", "check_min"}
       /\ execution_idx >= BlockSize /\ validation_idx >= BlockSize
       /\ At(w, "check_min") => reg[w] <= num_validated

\* The condition of next_task, on the values of one moment.
AllValidated ==
    /\ execution_idx >= BlockSize
    /\ validation_idx >= BlockSize
    /\ num_validated >= BlockSize - min_validation_idx

\* Whenever all workers that have not left are between two tasks, the state
\* is final or one of them is going to see that it is not: the last one does
\* not leave on values that are outdated.
LastLooksAgain ==
    (\A w \in Workers : pc[w] \in {"next", "next_val", "check_validated",
                                   "check_min", "done"})
    /\ ~execution_error
        => AllValidated \/ \E w \in Workers : UpToDate(w)

=============================================================================
