--------------------------------- MODULE Evm ---------------------------------
(***************************************************************************)
(* What executing a transaction does to the chain state.  The EVM (revm)   *)
(* is not part of the repository: this is the part of it that pevm relies  *)
(* on.  A transaction reads its sender, then its recipient, then runs the  *)
(* recipient's code, one instruction per location accessed.                *)
(***************************************************************************)
EXTENDS Block, Integers, Sequences, FiniteSets

CONSTANTS
    Accounts, Slots,   \* addresses, and storage slots of contracts
    NoAddress,         \* the recipient of a creation
    NoPriority,        \* the absent gas_priority_fee
    SpecId,            \* the fork that the block belongs to
    Beneficiary,       \* block_env.coinbase
    BaseFee,           \* block_env.basefee
    Transactions,      \* the block: Txs -> transaction
    ChainState         \* the storage before the block

Locs == Accounts \cup Slots

\* An instruction of the code names the location it accesses and the amount it
\* adds to it (paid by the recipient if it is an account).  A contract that
\* destroys itself, if a slot is zero, leaves its balance to the account named.
Instructions ==
    [op : {"add"}, loc : Locs, amount : Nat]
    \cup [op : {"destroy_if_zero"}, cond : Slots, loc : Accounts]
    \cup [op : {"read", "reread"}, loc : Locs]

Account == [balance : Int, nonce : Int, code : BOOLEAN]

\* A slot is tested by the code of a contract that has read or written it.
Tested(t, k) ==
    LET code == Transactions[t].code
    IN  /\ Transactions[t].to # NoAddress
        /\ \E j \in 1 .. (k - 1) :
               code[j].op \in {"add", "read"} /\ code[j].loc = code[k].cond

ASSUME EvmAssumption ==
    /\ Accounts \cap Slots = {} /\ NoAddress \notin Locs
    /\ Beneficiary \in Accounts
    /\ \A t \in Txs :
           /\ Transactions[t].from \in Accounts
           /\ ~ChainState[Transactions[t].from].code
           /\ Transactions[t].to \in Accounts \cup {NoAddress}
           /\ Transactions[t].to = NoAddress => Transactions[t].creates \in Accounts
           /\ Transactions[t].code \in Seq(Instructions)
           /\ \A k \in 1 .. Len(Transactions[t].code) :
                  Transactions[t].code[k].op = "destroy_if_zero" => Tested(t, k)

\* Balances, nonces and slots are numbers (whose widths do not matter here).
ASSUME AmountsAssumption ==
    /\ ChainState = [l \in Locs |-> ChainState[l]]
    /\ \A a \in Accounts : ChainState[a] \in Account
    /\ \A s \in Slots : ChainState[s] \in Int
    /\ BaseFee \in Nat
    /\ \A t \in Txs :
           /\ Transactions[t].value \in Nat
           /\ Transactions[t].gas_limit \in Nat /\ Transactions[t].gas_price \in Nat
           /\ Transactions[t].priority = NoPriority \/ Transactions[t].priority \in Nat

From(t) == Transactions[t].from
To(t) == Transactions[t].to

\* Storage::is_contract: the account has code before the block.
IsContract(a) == ChainState[a].code

\* The recipient's balance is only added to, lazily.
IsMaybeLazy(t) == To(t) # NoAddress /\ To(t) # From(t) /\ ~IsContract(To(t))

-----------------------------------------------------------------------------
\* SpecId::is_enabled_in.
Specs == <<"FRONTIER", "HOMESTEAD", "TANGERINE", "SPURIOUS_DRAGON", "BYZANTIUM",
           "PETERSBURG", "ISTANBUL", "BERLIN", "LONDON", "MERGE", "SHANGHAI", "CANCUN">>
IsEnabledIn(spec) ==
    \E i, j \in DOMAIN Specs : i <= j /\ Specs[i] = spec /\ Specs[j] = SpecId

\* Gas: one unit for the transaction and one for each instruction it runs.

GasLimit(t) == Transactions[t].gas_limit

\* What the sender pays for a unit, and what of it the beneficiary gets.
EffectiveGasPrice(t) ==
    LET tx == Transactions[t]
    IN  IF tx.priority = NoPriority THEN tx.gas_price
        ELSE Lower(tx.gas_price, tx.priority + BaseFee)

Tip(t) == EffectiveGasPrice(t) - (IF IsEnabledIn("LONDON") THEN BaseFee ELSE 0)

-----------------------------------------------------------------------------
\* The accesses of a transaction: to its sender, to its recipient, and those of
\* the code.
SenderAccess(t) == <<[op |-> "debit", loc |-> From(t)]>>
RecipientAccess(t) ==
    IF To(t) = NoAddress THEN <<[op |-> "create", loc |-> Transactions[t].creates]>>
    ELSE IF To(t) = From(t) THEN <<>>
    ELSE <<[op |-> "credit", loc |-> To(t)]>>
Accesses(t) == SenderAccess(t) \o RecipientAccess(t) \o Transactions[t].code

IsInstruction(i) == i.op \notin {"debit", "credit", "create"}

\* There is code to run: that of a creation, or of a recipient that has some
\* (the mock of a recipient that is credited lazily has none).
HasCode(t, view) ==
    \/ To(t) = NoAddress
    \/ To(t) \in DOMAIN view /\ view[To(t)].code

Skipped(t, i, view) ==
    /\ IsInstruction(i)
    /\ ~HasCode(t, view) \/ (i.op = "destroy_if_zero" /\ view[i.cond] # 0)

GasOf(i) == IF IsInstruction(i) THEN 1 ELSE 0

\* The checks on the sender, on the account it is read as.
NonceFits(t, account) == account.nonce = Transactions[t].nonce
FundsSuffice(t, account) ==
    account.balance >= Transactions[t].value + GasLimit(t) * Transactions[t].gas_price

Credit(account, amount) == [account EXCEPT !.balance = @ + amount]

\* What is left of a contract that destroyed itself.  Its slots, which nobody
\* can ask for any more, stay as they are.
Destroyed == [balance |-> 0, nonce |-> 0, code |-> FALSE]

\* The effect of access i on the values known to the transaction.
Apply(t, i, view) ==
    CASE i.op = "debit" ->
            [view EXCEPT
                ![i.loc].balance = @ - GasLimit(t) * EffectiveGasPrice(t)
                    - (IF To(t) = From(t) THEN 0 ELSE Transactions[t].value),
                ![i.loc].nonce = @ + 1]
      [] i.op = "credit" ->
            [view EXCEPT ![i.loc] = Credit(@, Transactions[t].value)]
      [] i.op = "create" ->
            [view EXCEPT ![i.loc] = [balance |-> @.balance + Transactions[t].value,
                                     nonce |-> 1, code |-> TRUE]]
      [] i.op = "add" /\ i.loc \in Slots ->
            [view EXCEPT ![i.loc] = @ + i.amount]
      [] i.op = "add" /\ i.loc \in Accounts ->
            LET paid == [view EXCEPT ![To(t)].balance = @ - i.amount]
            IN  [paid EXCEPT ![i.loc].balance = @ + i.amount]
      [] i.op = "destroy_if_zero" ->
            LET left == [view EXCEPT ![To(t)] = Destroyed]
            IN  [left EXCEPT ![i.loc] = Credit(@, view[To(t)].balance)]
      [] OTHER -> view  \* "read": an access that changes nothing

\* The sender is paid back the gas that was not used.
Refund(t, gas, view) ==
    [view EXCEPT ![From(t)] =
        Credit(@, (GasLimit(t) - gas) * EffectiveGasPrice(t))]

-----------------------------------------------------------------------------
(***************************************************************************)
(* execute_revm_sequential: each transaction on the state its predecessors *)
(* left, the beneficiary being rewarded within the transaction.            *)
(***************************************************************************)

\* The state and the gas used after access i of t.
Accessed(t, i, before) ==
    IF Skipped(t, i, before.view) THEN before
    ELSE [view |-> Apply(t, i, before.view), gas |-> before.gas + GasOf(i)]

\* ... and after each of its accesses.
After(t, state) ==
    LET after[k \in 0 .. Len(Accesses(t))] ==
            IF k = 0 THEN [view |-> state, gas |-> 1]
            ELSE Accessed(t, Accesses(t)[k], after[k - 1])
    IN  after

RunFrom(t, state) == After(t, state)[Len(Accesses(t))]

\* The block so far, once t is executed too.
Executed(t, before) ==
    LET final == RunFrom(t, before.state)
    IN  [state |-> [Refund(t, final.gas, final.view) EXCEPT
                        ![Beneficiary] = Credit(@, Tip(t) * final.gas)],
         gas   |-> before.gas + final.gas]

Sequential[n \in 0 .. BlockSize] ==
    IF n = 0 THEN [state |-> ChainState, gas |-> 0]
    ELSE Executed(n - 1, Sequential[n - 1])

\* The state after n transactions, and the gas they used together.
SequentialState(n) == Sequential[n].state
CumulativeGas(n) == Sequential[n].gas

\* The sequential execution rejects no transaction.
SequentiallyValid ==
    \A t \in Txs : LET sender == SequentialState(t)[From(t)]
                   IN  NonceFits(t, sender) /\ FundsSuffice(t, sender)

=============================================================================
