------------------------------- MODULE MCPevm -------------------------------
(* Blocks for TLC. *)
EXTENDS Pevm, Preprocess, Entry

CONSTANT RpcBlock  \* the block to execute

Symmetry == Permutations(Workers)

\* What execute makes of it.
ParsedTransactions == [t \in Txs |-> TxEnv(RpcBlock.transactions[t + 1])]
ParsedSpec         == BlockSpec(RpcBlock.header)
ParsedBaseFee      == BlockEnv(RpcBlock.header).basefee
ParsedBeneficiary  == BlockEnv(RpcBlock.header).coinbase

\* The blocks are executed in parallel (those of less than four transactions
\* when execute_revm is called directly), by at most that many workers.
ASSUME ParallelBlock ==
    /\ \/ Executor(RpcBlock, FALSE) = [ok |-> "execute_revm"]
       \/ Len(RpcBlock.transactions) < 4
    /\ ~FallsBack
    /\ Cardinality(Workers) <= MaxConcurrencyLevel

-----------------------------------------------------------------------------
Cancun(txs) ==
    [header |-> [number |-> 19426587, timestamp |-> 1710338135, miner |-> "m",
                 difficulty |-> 0, total_difficulty |-> Missing,
                 base_fee_per_gas |-> 1, gas_used |-> 650001],
     transactions |-> txs]

\* The last block before London, which has no base fee.
Berlin(txs) ==
    [Cancun(txs) EXCEPT !.header.number = 12964999, !.header.timestamp = 1628166812,
                        !.header.difficulty = 1, !.header.total_difficulty = 2,
                        !.header.base_fee_per_gas = Missing]

Tx(from, nonce, to, value, code) ==
    [transaction_type |-> 0, from |-> from, nonce |-> nonce, to |-> to,
     value |-> value, input |-> code, creates |-> NoAddress, gas |-> Len(code) + 1,
     gas_price |-> 2, max_fee_per_gas |-> Missing, max_priority_fee_per_gas |-> Missing]

\* A transaction that creates the account d, and one that offers a priority fee.
Create(from, nonce, d, code) ==
    [Tx(from, nonce, NoAddress, 0, code) EXCEPT !.creates = d]
Tipped(tx) == [tx EXCEPT !.transaction_type = 2, !.max_fee_per_gas = 3,
                         !.max_priority_fee_per_gas = 1]

Add(l, n)           == [op |-> "add", loc |-> l, amount |-> n]
DestroyIfZero(c, l) == [op |-> "destroy_if_zero", cond |-> c, loc |-> l]
ReadLoc(l)          == [op |-> "read", loc |-> l]
ReadAgain(l)        == [op |-> "reread", loc |-> l]

\* Account "p" has no funds of its own.
InitialState ==
    [l \in Locs |-> IF l \in Slots THEN 0
                    ELSE [balance |-> IF l \in {"p", "d", "q"} THEN 0 ELSE 20,
                          nonce |-> 0, code |-> l = "k"]]

\* TLC computes a definition once, but not one that is the value of a CONSTANT:
\* those of the executor are therefore names of the ones above.
MCTransactions == ParsedTransactions
MCSpecId       == ParsedSpec
MCBaseFee      == ParsedBaseFee
MCBeneficiary  == ParsedBeneficiary
MCChainState   == InitialState
MCDependencies == PreprocessedDependencies

\* The second transaction destroys the contract if it does not see what the
\* first one writes, and writes a slot otherwise.  The third one calls the
\* contract too and reads a slot twice; its sender lives on what the first one
\* pays through the contract.
Branch == Berlin(<<
    Tx("a", 0, "k", 8, <<Add("s", 1), Add("p", 8)>>),
    Tx("b", 0, "k", 0, <<ReadLoc("s"), DestroyIfZero("s", "b"), Add("s", 1)>>),
    Tx("p", 0, "k", 0, <<Add("s", 1), ReadAgain("s")>>)>>)

\* An account is paid lazily, then by a contract that the beneficiary calls; it
\* can send only then, to a contract that reads the beneficiary's balance, and
\* creates an account with what is left.  Another account gets nothing, lazily,
\* and is to be removed.
Transfers == Cancun(<<
    Tipped(Tx("a", 0, "p", 6, <<>>)),
    Tx("m", 0, "k", 0, <<Add("p", 4)>>),
    Tx("b", 0, "q", 0, <<>>),
    Tx("p", 0, "k", 3, <<ReadLoc("m")>>),
    Create("p", 1, "d", <<>>)>>)

\* Two transactions conflict, and two have a nonce that their senders do not
\* have.
Faulty == Cancun(<<
    Tx("a", 0, "k", 0, <<Add("s", 1)>>),
    Tx("e", 0, "k", 0, <<Add("s", 1)>>),
    Tx("b", 3, "p", 1, <<>>),
    Tx("c", 5, "p", 1, <<>>)>>)

\* The second transaction calls the contract that the first one creates: the block
\* is not Regular.
Deployed == Cancun(<<
    Create("a", 0, "d", <<>>),
    Tx("b", 0, "d", 0, <<Add("s", 1)>>)>>)

\* Two deposits to one contract, which runs no storage access.
TwoDeposits == Cancun(<<Tx("a", 0, "k", 1, <<>>), Tx("b", 0, "k", 1, <<>>)>>)

\* Two senders pay the third.
TwoFunders == Cancun(<<Tx("a", 0, "p", 3, <<>>), Tx("b", 0, "p", 3, <<>>),
                    Tx("p", 0, "c", 1, <<>>)>>)

\* The first transaction pays the second's sender through a contract.
FirstPays == Cancun(<<Tx("a", 0, "k", 1, <<Add("b", 1)>>), Tx("b", 0, "c", 1, <<>>)>>)

\* The second transaction pays the sender of the two others through a contract: the
\* senders are not apart.
SentTwice == Cancun(<<Tx("a", 0, "k", 0, <<>>), Tx("b", 0, "k", 1, <<Add("a", 1)>>),
                   Tx("a", 1, "k", 0, <<>>)>>)

=============================================================================
