-------------------------------- MODULE Entry --------------------------------
(***************************************************************************)
(* The entry point execute (src/src/pevm.rs) on a block as RPC gives it:   *)
(* the conversions of its header and transactions                          *)
(* (src/src/primitives.rs) and the choice of the executor.  Of a header    *)
(* and a transaction there are the fields that the executors tell apart.   *)
(***************************************************************************)
EXTENDS Naturals, Sequences, FiniteSetsExt

CONSTANTS
    Missing,            \* the absent Option
    TerminalDifficulty, \* of the merge
    GasLimitMax         \* the largest u64

\* The forks by the number of their first block.
ForkBlocks ==
    <<0, 1150000, 2463000, 2675000, 4370000, 7280000, 9069000, 12244000, 12965000>>
ForkSpecs ==
    <<"FRONTIER", "HOMESTEAD", "TANGERINE", "SPURIOUS_DRAGON", "BYZANTIUM",
      "PETERSBURG", "ISTANBUL", "BERLIN", "LONDON">>

\* get_block_spec.
BlockSpec(header) ==
    LET before == header.total_difficulty - header.difficulty
    IN  IF header.timestamp >= 1710338135 THEN "CANCUN"
        ELSE IF header.timestamp >= 1681338455 THEN "SHANGHAI"
        ELSE IF header.total_difficulty = Missing THEN Missing
        ELSE IF before >= TerminalDifficulty THEN "MERGE"
        ELSE IF header.number = Missing THEN Missing
        ELSE ForkSpecs[Max({i \in DOMAIN ForkBlocks : ForkBlocks[i] <= header.number})]

\* get_block_env.
BlockEnv(header) ==
    IF header.number = Missing THEN Missing
    ELSE [coinbase |-> header.miner,
          basefee  |-> IF header.base_fee_per_gas = Missing THEN 0
                       ELSE header.base_fee_per_gas]

-----------------------------------------------------------------------------
Err(error) == [error |-> error]
IsErr(result) == "error" \in DOMAIN result

\* The most that a transaction pays for a unit of gas, by its type; one that has
\* none makes the unwrap panic.
GasPrice(tx) ==
    CASE tx.transaction_type = Missing -> Err("panic")
      [] tx.transaction_type \in {0, 1} ->
            IF tx.gas_price = Missing THEN Err("MissingGasPrice")
            ELSE [ok |-> tx.gas_price]
      [] tx.transaction_type \in {2, 3} ->
            IF tx.max_fee_per_gas = Missing THEN Err("MissingMaxFeePerGas")
            ELSE [ok |-> tx.max_fee_per_gas]
      [] OTHER -> Err("InvalidType")

\* get_tx_env.  The code that the input stands for and the account that a
\* creation makes go along.
TxEnv(tx) ==
    IF tx.gas > GasLimitMax THEN Err("OverflowedGasLimit")
    ELSE IF IsErr(GasPrice(tx)) THEN GasPrice(tx)
    ELSE [from |-> tx.from, nonce |-> tx.nonce, to |-> tx.to, value |-> tx.value,
          gas_limit |-> tx.gas, gas_price |-> GasPrice(tx).ok,
          priority |-> tx.max_priority_fee_per_gas,
          code |-> tx.input, creates |-> tx.creates]

-----------------------------------------------------------------------------
\* execute: the error that it returns, or the executor that it calls.  Of the
\* transactions that cannot be parsed, the first one is reported.
Executor(block, force_sequential) ==
    LET header  == block.header
        tx_envs == [i \in DOMAIN block.transactions |-> TxEnv(block.transactions[i])]
        failed  == {i \in DOMAIN tx_envs : IsErr(tx_envs[i])}
    IN  IF BlockSpec(header) = Missing THEN Err("UnknownBlockSpec")
        ELSE IF BlockEnv(header) = Missing THEN Err("MissingHeaderData")
        ELSE IF block.transactions = Missing THEN Err("MissingTransactionData")
        ELSE IF failed # {} THEN tx_envs[Min(failed)]
        ELSE IF \/ force_sequential
                \/ Len(tx_envs) < 4
                \/ header.gas_used <= 650000 THEN [ok |-> "execute_revm_sequential"]
        ELSE [ok |-> "execute_revm"]

=============================================================================
