# A TLA+ development of pevm's parallel executor

pevm executes the transactions of an Ethereum block in parallel with the
Block-STM algorithm and promises the result of executing them one after the
other. This directory models it from the entry point to the storages: the
conversion of a block, the preprocessing, the scheduler, the multi-version
memory, the virtual machine between them, and the evaluation of the results.
TLC checks the parts and their composition on small blocks. TLAPS proves the
safety of the scheduler for every block and number of workers, that it
implements an abstract board of tasks, that the executor implements the
scheduler, that the memory holds what was executed, that every read that counts
is still valid when the workers have left, that the results are then those of
the sequential execution, and that the caching storage implements the storage
interface.

Paths are relative to the directory that holds `tla/` and `src/`.

## 1. The system

| Part | Source | State | Operations |
|---|---|---|---|
| Scheduler | `src/src/scheduler.rs` | execution and validation indexes, status and incarnation of each transaction, minimum validation index, number of validated transactions, dependents and dependency counters | `next_task`, `try_execute`, `try_validate`, `add_dependency`, `set_ready_status`, `finish_execution`, `try_validation_abort`, `finish_validation` |
| Worker loop | `src/src/pevm.rs` (`execute_revm`, `try_execute`, `try_validate`) | the workers' current task, the error, the results | run a task, take the task it returns or ask for one, leave |
| Multi-version memory | `src/src/mv_memory.rs` | per location and transaction the entry written last; per transaction the locations read and written last | `record`, `validate_read_locations`, `convert_writes_to_estimates`, `read_location`, `consume_location` |
| Virtual machine | `src/src/vm.rs` | the read set and origins of the execution in progress | `VmDb::basic`, `VmDb::storage`, `Vm::execute`, `apply_rewards` |
| Preprocessing | `src/src/pevm.rs` (`preprocess_dependencies`) | none | dependencies, concurrency limit, fall back to sequential |
| Lazy evaluation | `src/src/pevm.rs` (end of `execute_revm`) | none | cumulative gas; balances of lazy recipients and the beneficiary; removal of empty accounts |
| Sequential executor | `src/src/pevm.rs` (`execute_revm_sequential`) | chain state | one transaction after the other |
| Entry point, conversions | `src/src/pevm.rs` (`execute`), `src/src/primitives.rs` | none | field conversions, choice of executor |
| Storages | `src/src/storage.rs`, `src/src/storage/*.rs` | maps; for RPC, caches behind mutexes | reads |

How they interact: a worker asks the scheduler for a task. An execution task
runs the EVM, which reads the multi-version memory through `VmDb`. A read that
meets an ESTIMATE makes the worker call `add_dependency`; a complete execution
is stored, recorded in the memory, and ended by `finish_execution`, which
resumes dependents and decides what is to be validated. A validation task
compares the recorded read set with the memory, and aborts the transaction when
they differ. When every worker has left, the lazily updated balances are
evaluated in block order. Reads that the memory cannot answer go to a storage,
which all workers share; the one that asks an RPC provider caches the answers.

What is hard here: `next_task` decides to leave on values loaded at different
moments; a dependency is registered while the blocking transaction finishes;
a validation may end after the incarnation it looked at is gone; memory changes
location by location while others read and validate; much of the block is never
validated because preprocessing is trusted; balances are sums over entries that
are still being rewritten; the caches of the RPC storage are filled by several
threads under locks that are given back in between. `PROJECT.json` lists these
as hazards, each with its line and the properties that cover it.

What each part has to guarantee:

- scheduler: no transaction is run by two workers, forgotten, or left
  unvalidated at the end; its counter of validated transactions is exact; its
  `unreachable!()`s are;
- memory: a finished transaction has exactly its last writes in memory;
- virtual machine and lazy evaluation: results are those of the sequential
  executor;
- preprocessing: no valid block is rejected because of the order of execution;
- storages: every call returns what the chain holds, or an error;
- all together: execution ends.

## 2. Modules

| Module | Models |
|---|---|
| `Block` | transaction indexes |
| `TaskBoard` | abstract specification: what the scheduler promises to the workers |
| `Scheduler` | the scheduler and the worker loop, with the answers of the virtual machine and the memory left open |
| `SchedulerBoard` | the refinement mapping from `Scheduler` to `TaskBoard`, and the invariants that it needs |
| `Evm` | what a transaction does (external: revm) and the sequential executor |
| `MvMemory` | the multi-version memory |
| `Vm` | reads through `VmDb`, write sets, rewards, `next_validation_idx` |
| `Preprocess` | `preprocess_dependencies` |
| `Results` | the end of `execute_revm`: lazy evaluation, reported states, cumulative gas; what the memory must hold for them to be right |
| `Pevm` | the composition: `Scheduler` with its open answers computed by `Vm` and `MvMemory` |
| `Serial` | what an execution by `Vm` has to do with the sequential one of `Evm` (predicates that two proof modules share) |
| `Entry` | `execute`: conversion of header and transactions, choice of the executor |
| `Storage` | abstract specification: what the trait `Storage` promises |
| `Accounts` | account types and their conversions |
| `InMemoryStorage` | the storage in memory |
| `RpcStorage` | the storage with a provider and caches, called by several threads |
| `MCScheduler`, `MCPevm`, `MCWakeup`, `MCRpcStorage` | instances for TLC |
| `SchedulerProofs`, `SchedulerTheorems`, `SerialProofs`, `Pevm*Proofs`, `PevmTheorems`, `RpcStorageProofs` | theorems (section 4) |

**Steps.** A step of a worker is one access to shared memory: an atomic
operation, or the region protected by one mutex or one DashMap shard lock.
`pc[w]` names the next one. Where the code holds a lock over several accesses,
the steps are separate and the lock is a condition on the others
(`StatusLocked`, `DependentsLocked`, `LastLocationsLocked`). In `Pevm`, `run[w]`
holds the progress of a call into the virtual machine or the memory, and its
steps are those of each location read, written, removed, checked or marked.

**Open answers.** In `Scheduler`, `EnvironmentStep` lets an execution end in a
blocked read on any lower transaction, a result with any `next_validation_idx`
that `Vm::execute` can return, or (for transactions in `MayFail`) an error, and
lets a validation succeed or fail. What holds there holds whatever the virtual
machine does. `Pevm` replaces `EnvironmentStep` by the computed answers, using
the same scheduler actions; that this is a refinement is a theorem.

**Transactions.** A transaction of `Evm` has a sender, nonce, recipient (none
if it creates an account), value, gas limit and price, and a list of
instructions that stand for the recipient's code: add to a slot or to a
balance, read, read again, or destroy the contract if a slot is zero. An instruction
costs one unit of gas, and so does the transaction; what is left of the limit
is paid back. The beneficiary gets the tip: the price above the base fee since
London, limited by the priority fee. Account values are balance, nonce and
whether there is code; slots are numbers. Whether the recipient's code runs is
decided by what was read of it.

**Blocks.** A run's block is a header and transactions as RPC gives them;
`Entry` turns them into the constants `Transactions`, `SpecId`, `BaseFee` and
`Beneficiary` of the executor, and `ParallelBlock` of `MCPevm` asserts that
`execute` sends the block to `execute_revm` and that preprocessing neither falls
back nor allows fewer workers than the run has. Blocks of fewer than four
transactions, which `execute` runs sequentially, are accepted there too:
`execute_revm` is public and the tests call it directly.

**Representation.**

- The origins of a read are the set of versions and a flag for the storage: a
  read goes down the indexes, so the order of the list is that of the indexes.
- `transactions_dependents` are sets. The code has vectors, but a transaction
  cannot register twice with one other without having been resumed (`WaitInv`:
  a registered transaction is Aborting, and an Aborting one is not run).
- `finish_execution` clears the list after its loop, the model removes each
  dependent as it is visited; the lock covers the loop.
- Dependency counters wrap at `UsizeMod`, as `fetch_sub` does.
- The index of an absent `Option<TxIdx>` is `BlockSize`.
- In `RpcStorage` a guard of `cache_accounts` lives for one step, except the one
  of the `match` in `storage()`, which its `Vacant` arm still has when it calls
  `basic()`. A fetch answers what the chain has at `block_id`, or fails.
- `answered` and `replaced` of `RpcStorage` are history: what has been asked,
  and which entries a late fetch has written over.

**Memory order.** Atomics are sequentially consistent in the model. In the code
every load is Acquire and every write of an atomic is a read-modify-write with
Release (`fetch_add`, `fetch_sub`, `fetch_min`); there is no plain store. On
x86-64 a read-modify-write is a full barrier, so a worker's write is never
delayed behind its later loads and the model is exact. On weaker machines the
pattern that matters most is still ordered: a worker records its writes and then
looks at the validation index, another advances the index and then reads the
memory. The accesses to one location are under the same DashMap shard lock, so
if the reader came first, its index update happens before the writer's load,
and otherwise the reader sees the write. Other delayed loads that a weak memory
would allow (two workers seeing two indexes change in different orders) are not
explored.

## 3. Runs

All passing runs are exhaustive.

| Run | Instance | Checks |
|---|---|---|
| `sched` | 3 transactions, the last depending on both others, 2 workers, transactions 1 and 2 may fail | `ImplementsTaskBoard`, `StatusMachine`, and every invariant of the proofs about `Scheduler` |
| `pevm_conflicts` | `Branch`, before London: storage conflicts, a contract that one incarnation destroys and the next does not, a repeated read, a sender that lives on an internal payment | `SerialEquivalence`, `NoFalseRejection`, `MemoryMatchesWriteSet`, `ReadsFinal`, `Termination`, types |
| `pevm_transfers` | `Transfers`, in Cancun: five transactions; a balance credited lazily, explicitly, then used; the beneficiary sends and is read; an account is created and an empty one removed | `SerialEquivalence`, `NoFalseRejection`, `EvaluationSafe`, `NoPanic`, `MinInv` |
| `pevm_rejection` | `Faulty`: two transactions conflict, two have wrong nonces, and the storage may fail | `NoFalseAcceptance`, `LeavesOrSpins` |
| `rpc_cache` | two threads; a contract, a precompile and an address where the chain has nothing | `ImplementsStorage`, `SnapshotAnswers`, `ReturnsUnlessStuck` |

What the properties say:

- `ImplementsTaskBoard`: a transaction has one owner at a time, only workers with
  free hands withdraw finished transactions or release waiting ones, and the
  last worker leaves with everything finished, or after an error.
  `AllFinishedAtExit` is that last part for the code's statuses, with
  validation: everything from `min_validation_idx` on is Validated.
- `NumValidatedExact`, `StopConditionSound` and `MinInv` are what makes the
  condition of `next_task` right; `LastLooksAgain` is why it is right although
  its four values are loaded at different moments.
- `WaitInv`, `CounterInv`, `BlockedInv`, `NoneForgotten` and `NoneOverlooked`
  are about who looks after a transaction that is not finished.
- `SerialEquivalence`: once the workers have left, state and cumulative gas of
  every transaction are those of the sequential executor.
- `NoFalseRejection`, `NoFalseAcceptance`: a block is rejected if and only if
  the sequential executor (or the storage) rejects it.
- `EvaluationSafe`: no ESTIMATE is left for the lazy evaluation, which would
  meet `unreachable!()`.
- `ReadsFinal`: once the workers have left, what each transaction from
  `min_validation_idx` on has recorded as read is what the memory holds below
  it. This is what validation is for, and what `finish_execution` and
  `finish_validation` have to schedule it for.
- `LeavesOrSpins`: every worker leaves or panics, or, after an error, stays in
  `next_task` for ever. The comment at `src/src/pevm.rs:171-177` says that the
  loop of `next_task` may then spin. It is claimed for blocks such as `Faulty`,
  whose senders have the funds. Where a sender lacks them because its payer failed,
  `try_execute` repeats the execution for ever without looking at the error
  (`pevm.rs:402-405`), which the comment at `vm.rs:579-584` announces for faulty
  blocks.
- `SnapshotAnswers`: a storage rebuilt from the caches answers as the RPC storage
  did. It excludes slots of an account whose entry a second, late fetch wrote
  over: those are gone from the snapshot, though not from the chain. `SlotsKept`
  includes them, and `violation_slots` shows that it fails.
- `ReturnsUnlessStuck`: no loop and no failed fetch keeps a thread in a call. With
  the `Vacant` arm excused no lock can keep it either, so of locks it says
  nothing: they are the subject of `EveryCallReturns`, which `violation_rpc`
  refutes.

`rpc_cache` does not check for deadlock, because the storage really can stop: see
`violation_rpc`. The other passing runs do.

Seven runs find a property that the repository states violated by the code:

| Run | What happens |
|---|---|
| `violation_deposits` | Two transactions pay one contract that touches no storage. Both read and write only sender and recipient, so neither is validated, and preprocessing does not order them because it looks at senders. One payment is lost. |
| `violation_funders` | A sender paid by two transactions depends on the closer one only. It may run before the farther one, and its account write hides that payment. |
| `violation_first` | The first transaction never asks for validation, even when it writes an account outside its sender and recipient; a transaction that read that account too early keeps its result. |
| `violation_stale` | A validation that ends late acts on the next incarnation, because only the status is compared; the comment in `mv_memory.rs` says it has no effect. In the blocks of the passing runs this does not spoil `SerialEquivalence`. |
| `violation_wakeup` | `add_dependency` registers a dependent before it counts it. Of two workers that resume it meanwhile, the first wraps the counter below zero and resumes it, the second, after another abort, counts down from the largest value, skips it, and nobody is left to resume it. The run follows one schedule of five workers over eleven transactions (the number that lets `preprocess_dependencies` give them out); each of its steps is one of `PevmSpec`. |
| `violation_rpc` | Under fairness, a call of `storage()` for an account that the chain does not have does not return: the thread waits for the lock it holds. |
| `violation_slots` | Two threads fetch one account. `basic()` inserts what it fetched with an empty storage, so the late one takes the slots away that were cached in the meantime, and the storage rebuilt from the caches has zero for them. |

The blocks of the first three, and of `violation_stale`, have two or three
transactions; in a larger block, which `execute` runs in parallel, they can be
neighbours.

**Bounds.** `Restartable` names the incarnations that the open environment of
`Scheduler` may restart: `{0, 1}`, enough for a late validation to meet two newer
incarnations. In `Pevm` the environment is computed, incarnations are finite by
themselves, and `Restartable` and `MayFail` are not used. `UsizeMod` (8, and 16 in
`violation_wakeup`) is larger than any legal value of a counter, which is all
that matters of the width. Three transactions give a reader, a writer and
someone in between; two workers are what `preprocess_dependencies` allows for
blocks of this size. `TerminalDifficulty` and `GasLimitMax` scale constants of
the chain down; the number and time of a header are real. In `rpc_cache` one slot
and one block number suffice, because entries of different keys are independent.
Workers are symmetric, and the runs without liveness use that.

**Fairness.** `FairPevmSpec` has weak fairness for each worker: workers are OS
threads inside `thread::scope`, each of which keeps running, and no worker waits
for a lock that another keeps for ever. `Termination` is claimed for blocks that
are valid. `FairSpec` of `RpcStorage` has weak fairness for each thread inside a
call: the provider answers or fails. Nothing makes a thread call.

## 4. Theorems

| Module | Theorem | States |
|---|---|---|
| `SchedulerProofs` | `TypeCorrect` | `Spec => []TypeOK` |
| | `NumValidatedCorrect` | `Spec => []NumValidatedExact` |
| | `MinCorrect` | `Spec => []MinInv` |
| | `StopConditionCorrect` | `Spec => []StopConditionSound` |
| | `SingleExecutorCorrect` | `Spec => []SingleExecutor` |
| | `StatusMachineCorrect` | `Spec => StatusMachine` |
| `SchedulerTheorems` | `NoPanicCorrect` | `Spec => []NoPanic` |
| | `WaitCorrect` | `Spec => []WaitInv` |
| | `BlockedCorrect` | `Spec => []BlockedInv` |
| | `CounterCorrect` | `Spec => []CounterInv` |
| | `NoneForgottenCorrect` (2) | `Spec => []NoneForgotten` |
| | `NoneOverlookedCorrect` | `Spec => []NoneOverlooked` |
| | `LastLooksAgainCorrect` | `Spec => []LastLooksAgain` |
| | `AllFinishedAtExitCorrect` (2) | `Spec => []AllFinishedAtExit` |
| | `SchedulerRefinesTaskBoard` (2) | `Spec => ImplementsTaskBoard` |
| `SerialProofs` | `VmIsSound` | `VmSound` |
| | `SerialResults` | valid reads of faithful executions give the sequential results |
| `PevmProofs` | `PevmImplementsScheduler` | `PevmSpec => Spec` |
| | `PevmSchedulesSafely` | `PevmSpec => [](SingleExecutor /\ MinInv /\ StopConditionSound)` |
| `PevmTheorems` | `MemoryMatchesWriteSetCorrect` | `PevmSpec => []MemoryMatchesWriteSet` |
| | `EvaluationSafeCorrect` (2) | `PevmSpec => []EvaluationSafe` |
| | `PevmStatusesSafe` | `PevmSpec => []NoPanic /\ StatusMachine` |
| | `PevmRefinesTaskBoard` (2) | `PevmSpec => ImplementsTaskBoard` |
| | `PevmTypeCorrect` | `PevmSpec => []PevmTypeOK` |
| | `ReadsFinalCorrect` | `PevmSpec => []ReadsFinal` |
| | `SerialEquivalenceCorrect` (2, R) | `PevmSpec => [](UnvalidatedReadsValid => SerialEquivalence)` |
| | `ValidatedBlockSerial` (2, R) | `PevmSpec => [](min_validation_idx <= 1 => SerialEquivalence)` |
| | `NoFalseAcceptanceCorrect` (2, R) | `PevmSpec => [](UnvalidatedReadsValid => NoFalseAcceptance)` |
| | `NoFalseRejectionCorrect` (S) | `PevmSpec => []NoFalseRejection` |
| `RpcStorageProofs` | `RpcImplementsStorage` | `Spec => ImplementsStorage` |
| | `SnapshotAnswersCorrect` | `Spec => []SnapshotAnswers` |

`PevmProofs`, `PevmReadsProofs` and `PevmValuesProofs` hold the steps of the
inductive invariants of the memory, of the reads, and of the values and nonces, on
which `PevmTheorems` rests.

They hold for every block size, block, chain state, set of workers and set of
preprocessed dependencies that the assumptions allow: `BlockSizeAssumption` (a
block is not empty), `DependenciesAssumption` (a transaction depends on lower
ones), `BoundsAssumption` (finitely many workers; a counter is wider than the
block is long and than there are workers), `EvmAssumption` (the shape of
transactions and of their instructions; a contract tests a slot only after it has
read or written it) and `AmountsAssumption` (balances, nonces, slots and fees are
numbers). Those about `RpcStorage`
hold for every set of threads, every chain and every set of requests, under
`ChainAssumption` (requests are about addresses, slots and blocks of the chain;
the provider never returns one of the two markers for a code that is empty or
not loaded) and `ErrorAssumption` (an error is not an answer).

Those marked (2) assume that preprocessing found no dependency
(`Counted = {}`) or that there are at most two workers. The assumption cannot be
dropped: `violation_wakeup` is a behaviour with five workers in which
`NoneForgotten` fails.

Those marked (R) assume that the block is `Regular`, that is, that it keeps clear
of cases in which pevm differs from the sequential executor whatever the
interleaving: it is not older than Spurious Dragon, before which the evaluation
removes empty accounts that the sequential executor keeps; gas prices cover
the base fee, which REVM demands and the model does not; an account that is updated lazily never gets or
loses code within the block; and a transaction that destroys a contract does not
change slots, since `Vm::execute` writes only the account of a contract that is
destroyed. The third condition is about a contract that is called in the block that
deploys it (`Deployed` of `MCPevm`): `is_contract` asks the storage, so the call is
executed on an account without code, as the comment at `vm.rs:466-467` says. The
blocks of the passing runs are regular.

The one marked (S) assumes a storage that answers (`~StorageMayFail`) and
`SendersApart`: each transaction has a sender of its own, which none of them
creates or destroys. Who pays whom, and how often, does not matter. The
condition on senders cannot be dropped. Let `a` send transactions 0 and 2, and
let transaction 1 pay `a` through a contract (`SentTwice` of `MCPevm`).
Preprocessing makes 2 wait for 0. But 1 may read `a` before 0 is executed and
then write the whole account, with the old nonce; 2 reads that, fails the check of
its nonce, and `Vm::execute` repeats an execution for a lack of funds only. So the
block is rejected, although the comment at `pevm.rs:308-310` speaks of dependencies
that "avoid fatal nonce & balance too low errors". TLC shows it when
`pevm_conflicts.cfg` is given this block. `Branch` has its senders apart;
`Transfers` has not, and `NoFalseRejection` holds of it all the same.

`UnvalidatedReadsValid` is the hypothesis under which the executor is right at all:
transactions below `min_validation_idx` are not validated by anybody, so the code
trusts preprocessing to have ordered them. It says nothing of the first
transaction, below which there is nothing to read, and it is the one that
`violation_first`, `violation_funders` and `violation_deposits` break. Where the
second transaction asks for validation it holds by itself, which is
`ValidatedBlockSerial`; this is so in all behaviours of the passing runs.

The theorems about `PevmSpec` assume `MayFail = Txs` and `Restartable = Nat`, that
is, the scheduler with the most open environment. Neither constant occurs in
`PevmSpec`, so this restricts the specification that is implemented and not the
executor.

The arguments:

- `NumValidatedExact` is inductive with `TypeOK`: every step that enters or
  leaves Validated changes the counter, under the mutex of the status.
- `StopConditionSound` needs `MinInv`: if only transactions from the minimum on
  can be Validated, and as many are as there are, all of them are. `MinInv` is
  inductive because the minimum only falls, a validation index is never lowered
  below a minimum seen, and a worker validates only what the index gave it.
- `SingleExecutor` needs `ExecutorInv`: a running transaction is Executing, and
  only a Ready one is handed out.
- `StatusMachine` needs the types only: seven actions touch a status, each after
  it has looked at it under the same mutex.
- `NoPanic` needs `WaitInv` and `ExecutorInv`: an aborted transaction is in a
  list of dependents or in the hands of one worker, and never both. The hard
  case is that `add_dependency` puts the dependent in the list before it counts
  it, so the counter may wrap below zero. `WaitInv` therefore says that a
  transaction waits as preprocessed (`WaitsAsPreprocessed`, its counter exact)
  or for one transaction at most (`WaitsForOne`): in either case the decrement
  that finds the counter at one or less is of its last entry.
- `CounterInv` makes the counter exact, modulo its width, if the registrations
  not yet counted are added. With two workers, one of them resuming, at most one
  registration is not counted, so the counter that the resuming worker finds is
  one or zero for the last entry: nobody is forgotten.
- `AllFinishedAtExit` needs to know who looks after each transaction: a ready one
  is ahead of `execution_idx` or some worker is on the way to it, a finished one
  has no dependents left (`NoneOverlooked`), dependents are above what blocks
  them (`BlockedInv`) and none is forgotten. So with no worker busy the lowest
  unfinished transaction would be ready and ahead of `execution_idx`.
  `LastLooksAgain` says that the last worker sees that: whenever all are between
  two tasks, the state is final or one of them has loaded nothing outdated.
- `SchedulerRefinesTaskBoard` maps statuses to stages, and the worker's position
  to what it runs. Most steps are stutters; that leaving is allowed is
  `AllFinishedAtExit`, and that only free hands move transactions is
  `ExecutorInv` and `WaitInv`.
- `PevmImplementsScheduler`: the steps inside a call stutter, and the answers are
  among the open ones. A blocked read names a lower transaction because the
  search of `VmDb::basic` goes down; for the beneficiary it is the one before.
- `MemoryMatchesWriteSet` needs `MemoryInv`. A call in progress has recorded all
  but what it still has to write, and then all but what it has to remove; until
  a transaction is executed, its entries are at locations that it recorded last,
  or that its execution is about to write, and `record` removes exactly the
  difference. Two workers never touch one transaction's entries, by
  `SingleExecutor` and `WaitInv`.
- `EvaluationSafe` follows: at the exit every transaction is executed, and an
  executed one has data only.
- `PevmTypeOK`: every access of a transaction is to a location, and each entry
  is written by `KindOf`; types follow the calls from read to record.
- `ReadsFinal` needs `ValidationInv`, whose core is `ReadsChecked`: if a
  transaction that may be validated is executed and one of its recorded reads is
  no longer valid, then `validation_idx` is at or below it, or some worker is
  still going to check this location (`Checks`), or is going to lower
  `validation_idx` that far (`WillLower`). The hard step is a lower transaction
  that writes an entry without lowering the index, because it wrote no new
  location. It is harmless because of `Estimated`: whatever the previous
  incarnation wrote has been an ESTIMATE ever since its abort, which made
  everything above be validated again, and nobody can have read it meanwhile.
  Below `min_validation_idx` there are no aborts, but there a transaction
  records only once, and then all it writes is new (`FirstRecord`). At the exit
  no worker is left to check anything, and by `StopConditionSound` and
  `LastLooksAgain` the validation index is at the end: the read is valid. The
  theorem needs no condition on workers or dependencies. That a late validation
  of an older incarnation counts (`violation_stale`) does no harm to it, because
  the invariant speaks of who is going to look, not of what was found.
- `VmIsSound`: `Vm::execute` differs from the sequential execution of a
  transaction in three ways. It has a journal, which asks for a location once; it
  does not load a recipient that it updates lazily; and what it reads may be
  wrong. `Progress` therefore speaks of every state that agrees with what was
  read: on such a state, the sequential execution after as many accesses has the
  gas of the execution and the state of its journal, completed by the state and by
  the lazy payment. `VmSound` says that this holds at the start and that a skipped
  instruction, an access and the end preserve it. It speaks of constants only, so the
  modules about the workers use it as one formula and know nothing of the
  instructions.
- `ExecutionInv` says of each transaction that has been executed that what it read
  is what its recorded versions make (`ReadMeans`), that it ran on these values
  (`RanAll`), and that its entries in the memory are the write set that this
  gives (`InMemory`); together `Outcome`. It is inductive with `ValuesInv`, which
  follows a call from read to record. A read of several lazy entries is not atomic, so
  while it goes down, and also later, some of the versions may have been replaced;
  `ReadMeans` therefore claims nothing unless all of them are still present. An
  entry of a given version never changes its value, because an incarnation
  records once.
- `SerialResults` puts these together. If all recorded reads are valid, the versions
  are present, so the values that a transaction read are those of the state which
  the entries below it describe. By induction over the transactions this is the
  sequential state: `Serial(t)`, for the balances that are sums of lazy entries
  as well, and the transaction passes its checks sequentially too. Then the
  evaluation of `execute_revm` reports that state, and the gas adds up. The
  induction is by the least counterexample (`LeastIndex`, from the well-foundedness of
  the naturals), and the recursive functions `After`, `Sequential` and `Total`
  are used through their one-step equations.
- `SerialEquivalence` and `NoFalseAcceptance` follow at the exit: everything is
  executed (`AllFinishedAtExit`), so it has an `Outcome`; its reads are valid
  by `ReadsFinal` from `min_validation_idx` on, by hypothesis below, and by
  `FirstReadsValid` for the first transaction.
- `NoFalseRejection`: an execution on outdated values may fail its checks, but a lack
  of funds is fatal for the first transaction only, which always finds what the
  storage has (`FirstFunds`). So the nonce remains. `NonceInv` says that below a
  transaction, whatever is known of its sender has the nonce of the storage: the
  values in the memory and those at hand in a call. It is inductive because
  nothing but the sender's own transaction changes a nonce (`NoncesKept`, proved
  from the instructions in `SerialProofs`), and it is the nonce that the
  sequential execution finds as well (`SequentialNonce`), so in a valid block it fits.
  It needs nothing of what the transactions read being valid.
- `PevmStatusesSafe` and `PevmRefinesTaskBoard` carry results about the
  scheduler over to the executor.
- `ImplementsStorage` and `SnapshotAnswers` need `RpcInv`: the caches hold what
  the chain holds (`CachesExact`), a thread in the middle of a call has fetched
  what its own request is about (`CallInv`), and what was answered is cached,
  unless there is no such account or its entry was written over (`AnswersKept`).
  `CallInv` has to know that a thread that entered `basic()` from `storage()`
  holds the guard and therefore goes no further. That code is found by its hash
  uses that hashes of different codes differ.

Only model-checked: `NoFalseRejection` for blocks with a sender of several
transactions, where it depends on what preprocessing found in the particular block;
`Termination`, `LeavesOrSpins`, `ReturnsUnlessStuck` (liveness under fairness is
out of the prover's reach); and what the theorems marked (2) state, for three
and more workers with counted dependencies (`violation_wakeup` breaks it with
five). `SerialEquivalence` is not a theorem for every block: the three violation
runs named above are counterexamples without `UnvalidatedReadsValid`, and
`Deployed` is one without `Regular`.

## 5. Not modelled

- In `vm.rs`: receipts' logs, preloading of accounts,
  `code_by_hash`, `has_storage` and `block_hash` of `VmDb`, the panic of
  `is_contract(...).unwrap()`. They have no state of their own; what they read
  is read like a slot.
- In the lazy evaluation: a storage that fails there, which the code takes for
  an account that does not exist.
- Creating an account at an address that had code before, where the slots of a
  destroyed contract would matter.
- `ChangedLocations` leaves out an account that is touched, read as absent and left
  as it was; the code writes it (`vm.rs:497`). The blocks of the runs have no such
  account.
- The first branch of `NextValidationIdx`, for a creation that reads nothing beyond
  its sender, is there but no run takes it: a creation reads the address it creates.
- The error paths of `Entry` are translated, but no property depends on them.
- The panics of `RpcStorage::block_hash` for a number above `u64` and for a block
  without a hash (`rpc.rs:164-167`).
- Gas beyond counting instructions, refunds of storage, precompiles, and the
  rest of the EVM, which is revm's.
- `code_by_hash` (a panic) and `has_storage` (always false) of `RpcStorage`; its
  three requests for an account are one fetch that fails if any of them does.
- Raw and analysed forms of a code, and hash collisions of memory locations.
- The two hashers of `lib.rs`: indexes and locations are their own keys.
- Weaker memory orders (see Memory order).
